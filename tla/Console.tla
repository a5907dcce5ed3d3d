------------------------------ MODULE Console -------------------------------
(***************************************************************************)
(* The text console of the kernel (src/stdio.cpp, src/include/ustdio.h):   *)
(* the cells of the screen, the cursor, putchar with its control           *)
(* characters and its scrolling, printf of a plain string, and getline,    *)
(* which echoes the keys it collects.                                      *)
(***************************************************************************)
EXTENDS Integers, Sequences, SequencesExt

CONSTANTS
  Width, Height,  \* of the screen
  Glyphs,         \* the characters that fill a cell, a key each; one is "%"
  Sizes,          \* the sizes getline is called with
  MaxText         \* bound: how many characters are written

LF == "LF"  CR == "CR"  TAB == "TAB"
Controls == {LF, CR, TAB}
Blank == " "
Typable == Glyphs \cup {LF}    \* what scancodes.inc has keys for

ASSUME ScreenAssumption == Width \in Nat \ {0} /\ Height \in Nat \ {0}
ASSUME SizesAssumption  == Sizes \subseteq Nat \ {0}
ASSUME GlyphsAssumption == Glyphs \cap (Controls \cup {Blank}) = {} /\ MaxText \in Nat

Cols == 0 .. Width - 1
Rows == 0 .. Height - 1
NoLine == 0

VARIABLES
  m_cx, m_cy,  \* the cursor
  m_buffer,    \* the cells
  size,        \* the argument of the getline that runs, or NoLine
  ch,          \* what getline has put into its caller's buffer
  todo,        \* the rest of the string that printf prints
  text,        \* history: every character given to putchar
  keys         \* history: the keys that wait_char has returned to getline

screen == <<m_cx, m_cy, m_buffer>>
line   == <<size, ch, keys>>
vars   == <<screen, line, todo, text>>

Init ==
  /\ m_cx = 0 /\ m_cy = 0
  /\ m_buffer = [p \in Cols \X Rows |-> Blank]
  /\ size = NoLine /\ ch = <<>> /\ keys = <<>>
  /\ todo = <<>> /\ text = <<>>

-----------------------------------------------------------------------------
(* A cursor that has left the screen to the right goes to the next line,   *)
(* one that has left it below makes the screen scroll.                     *)
WrapNever(x, y) == <<x, y>>  \* mutant
Wrap(x, y) == IF x >= Width THEN <<0, y + 1>> ELSE <<x, y>>

ScrollLeavesLast(cells) ==  \* mutant
  [p \in Cols \X Rows |-> IF p[2] < Height - 1 THEN cells[<<p[1], p[2] + 1>>] ELSE cells[p]]
Scroll(cells) ==
  [p \in Cols \X Rows |-> IF p[2] < Height - 1 THEN cells[<<p[1], p[2] + 1>>] ELSE Blank]

MoveTo(x, y, cells) ==
  LET w == Wrap(x, y) IN
  /\ m_cx' = w[1]
  /\ IF w[2] >= Height
     THEN m_cy' = w[2] - 1 /\ m_buffer' = Scroll(cells)
     ELSE m_cy' = w[2] /\ m_buffer' = cells

ProcessControl(c) ==
  \/ c = LF  /\ MoveTo(0, m_cy + 1, m_buffer)
  \/ c = CR  /\ MoveTo(0, m_cy, m_buffer)
  \/ c = TAB /\ MoveTo(m_cx + 4, m_cy, m_buffer)

Putchar(c) ==
  /\ Len(text) < MaxText
  /\ text' = Append(text, c)
  /\ \/ ProcessControl(c)
     \/ c \notin Controls /\ MoveTo(m_cx + 1, m_cy, [m_buffer EXCEPT ![<<m_cx, m_cy>>] = c])

Idle == size = NoLine /\ todo = <<>>

Put(c) == Idle /\ Putchar(c) /\ UNCHANGED <<line, todo>>

(* printf without arguments: two percent signs print one.                  *)
Printf(s) ==
  /\ Idle
  /\ s # <<>> /\ Len(text) + Len(s) <= MaxText
  /\ todo' = s
  /\ UNCHANGED <<screen, line, text>>

Percent(s) == IF Len(s) > 1 /\ s[1] = "%" /\ s[2] = "%" THEN Tail(s) ELSE s
PrintfStep ==
  /\ todo # <<>>
  /\ LET s == Percent(todo) IN Putchar(Head(s)) /\ todo' = Tail(s)
  /\ UNCHANGED line

-----------------------------------------------------------------------------
(* getline asks wait_char for keys until the line or the buffer is full.   *)
RoomForAll(n, s) == n <= s  \* mutant
Room(n, s) == n < s - 1

Getline(s) ==
  /\ Idle
  /\ size' = s
  /\ ch' = <<>> /\ keys' = <<>>
  /\ UNCHANGED <<screen, todo, text>>

Key(c) ==
  /\ size # NoLine /\ Room(Len(ch), size)
  /\ Putchar(c)
  /\ keys' = Append(keys, c)
  /\ IF c = LF
     THEN ch' = Append(ch, "NUL") /\ size' = NoLine
     ELSE ch' = Append(ch, c) /\ UNCHANGED size
  /\ UNCHANGED todo

LineFull ==
  /\ size # NoLine /\ ~Room(Len(ch), size)
  /\ ch' = Append(ch, "NUL")
  /\ size' = NoLine
  /\ UNCHANGED <<screen, keys, todo, text>>

Next ==
  \/ \E c \in Glyphs \cup Controls : Put(c)
  \/ \E s \in {<<a, b>> : a, b \in Glyphs} : Printf(s)
  \/ PrintfStep
  \/ \E s \in Sizes : Getline(s)
  \/ \E c \in Typable : Key(c)
  \/ LineFull

Spec == Init /\ [][Next]_vars

-----------------------------------------------------------------------------
(* The same text on a page without an end: where the next character goes   *)
(* after each of its beginnings, <<column, row>>.                          *)
After(p, c) ==
  CASE c = LF  -> <<0, p[2] + 1>>
    [] c = CR  -> <<0, p[2]>>
    [] OTHER -> LET x == p[1] + (IF c = TAB THEN 4 ELSE 1)
                IN  IF x < Width THEN <<x, p[2]>> ELSE <<0, p[2] + 1>>
Places(s) ==
  LET place[i \in 1 .. Len(s) + 1] ==
        IF i = 1 THEN <<0, 0>> ELSE After(place[i - 1], s[i - 1])
  IN  place

(* What is last written at a place of the page.                            *)
OnPage(s, places, p) ==
  LET at == {i \in DOMAIN s : s[i] \notin Controls /\ places[i] = p}
  IN  IF at = {} THEN Blank ELSE s[CHOOSE i \in at : \A j \in at : j <= i]

(* The type of every variable; the cursor is always on a cell, where the   *)
(* next character will be stored.                                          *)
TypeOK ==
  /\ m_cx \in Cols /\ m_cy \in Rows
  /\ m_buffer \in [Cols \X Rows -> Glyphs \cup {Blank}]
  /\ size \in Sizes \cup {NoLine}
  /\ \A i \in DOMAIN ch : ch[i] \in Glyphs \cup {"NUL"}
  /\ \A i \in DOMAIN keys : keys[i] \in Typable
  /\ \A i \in DOMAIN todo : todo[i] \in Glyphs \cup Controls
  /\ Len(text) <= MaxText

(***************************************************************************)
(* After any mixture of characters, line feeds, returns, tabs and scrolls, *)
(* the screen and the cursor are a window on the page without an end: its  *)
(* last Height rows, with nothing lost, moved or left over from a row that *)
(* was scrolled away.                                                      *)
(***************************************************************************)
ScreenShowsText ==
  /\ TypeOK
  /\ LET places == Places(text)
         here   == Last(places)
         top    == IF here[2] < Height THEN 0 ELSE here[2] - (Height - 1)
     IN  /\ <<m_cx, m_cy + top>> = here
         /\ \A p \in Cols \X Rows : m_buffer[p] = OnPage(text, places, <<p[1], p[2] + top>>)

(***************************************************************************)
(* When getline returns, its caller's buffer holds the keys it has read,   *)
(* but for the line feed, and a NUL after them, all within the size it was *)
(* given; and those keys, echoed, are the end of what is on the console.   *)
(***************************************************************************)
LineReturned ==
  LET entered == Front(ch') IN
  /\ Len(ch') <= size
  /\ Last(ch') = "NUL"
  /\ LF \notin Range(entered) /\ keys' \in {entered, Append(entered, LF)}
  /\ IsSuffix(keys', text')
GetlineReturnsTheLine == [][size # NoLine /\ size' = NoLine => LineReturned]_vars
=============================================================================
