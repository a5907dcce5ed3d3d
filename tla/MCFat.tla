-------------------------------- MODULE MCFat --------------------------------
(* Disks with a directory in a directory, on which a file is scattered     *)
(* over more sectors of the FAT than the cache has blocks.                 *)
EXTENDS Fat

Lfn(o, p)       == [kind |-> "lfn", order |-> o, piece |-> p]
File(n, c, s)   == [kind |-> "file", cluster |-> c, size |-> s, name |-> n]
Directory(n, c) == [kind |-> "directory", cluster |-> c, size |-> 0, name |-> n]
Other(k)        == [kind |-> k]

(* "a*" and "b*" are full pieces.                                          *)
MCFull  == {"a*", "b*"}
MCPaths == { << <<"x">> >>, << <<"a*", "x">> >>, << <<"a*">> >>,
             << <<"t">>, <<"x">> >>,
             << <<"t">>, <<"t">>, <<"zy">> >>, << <<"t">>, <<"t">>, <<"zx">> >> }

(* What the short name z is the beginning of.                              *)
MCStarts == {<<"z", "zx">>, <<"z", "zy">>}

MCBpb == [reserved |-> 1, fat_count |-> 2, sectors_per_fat |-> 6,
          sectors_per_cluster |-> 2, root_cluster |-> 2]

(* Clusters 2, 3 and 5 are directories.  One file's clusters are 9 and 10, *)
(* and then 10 again, the other's are 4, 6, 7 and 8 in some order.         *)
End == 99
Orderings == {<<7, 4, 8, 6>>, <<8, 6, 4, 7>>}
FatOf(f) == [c \in 0 .. 11 |->
  IF c \in {9, 10} THEN 10
  ELSE IF \E k \in 1 .. 3 : f[k] = c THEN f[CHOOSE k \in 2 .. 4 : f[k - 1] = c] ELSE End]

(* Deleted names, an end with entries behind it, a directory that is full, *)
(* a file with more sectors than its chain, an empty one, whose short name *)
(* is the beginning of the names in front of it and behind it.             *)
Tree1(f) ==
  2 :> << Other("deleted lfn"), Other("deleted"), Lfn(2, "x"), Lfn(1, "a*"), File("a~1", 9, 5),
          Lfn(1, "t"), Directory("t~1", 3), Lfn(1, "x"), File("x~1", f[1], 7), Other("end"),
          Lfn(1, "x"), File("x~2", 0, 1) >> @@
  3 :> << Other("dot"), Other("dot"), Lfn(1, "t"), Directory("t~1", 5),
          Other("deleted lfn"), Lfn(1, "x"), File("x~1", 9, 4) >> @@
  5 :> << Other("dot"), Other("dot"), Lfn(1, "zy"), File("y~1", f[2], 9), File("z", 0, 0),
          Lfn(1, "zx"), File("x~1", 9, 2) >>

(* Names that have no NUL.                                                 *)
Tree2(f) ==
  2 :> << Lfn(2, "x"), Lfn(1, "b*"), File("b~1", 9, 2), Lfn(1, "a*"), File("a~1", f[1], 2),
          Lfn(2, "x"), Lfn(1, "a*"), File("a~2", f[2], 1), Lfn(1, "t"), Directory("t~1", 3) >> @@
  3 :> << Lfn(1, "x"), File("x~1", 9, 4), Other("end") >>

MCDisks ==
  { [bpb |-> MCBpb, fat |-> FatOf(f), entries |-> Tree1(f)] : f \in Orderings } \cup
  { [bpb |-> MCBpb, fat |-> FatOf(f), entries |-> Tree2(f)] : f \in {<<4, 6, 7, 8>>} }
=============================================================================
