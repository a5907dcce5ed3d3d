------------------------------ MODULE MCSyscall ------------------------------
(* A screen of two lines of five cells, where a tab is four; programs that *)
(* write an "a", a percent sign or a line feed.                            *)
EXTENDS Syscall

MCGlyphs   == {"a", "%"}
MCSizes    == {1, 2, 4}
MCValues   == {0, 1}
MCPointers == {0, 7}
MCChars    == <<"a", LF>>
MCMessage  == <<"%", LF>>
=============================================================================
