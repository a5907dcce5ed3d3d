----------------------------- MODULE MCKeyboard -----------------------------
(***************************************************************************)
(* One event of every shape the keyboard sends: the letter A (0x1c), a key *)
(* with no character here, whose translation has the code of left shift    *)
(* (0x24), left shift, an arrow (e0 75), Pause, F7 (0x83, a byte above     *)
(* 0x7f), and the shift that the keyboard makes up around some keys        *)
(* (e0 12).                                                                *)
(***************************************************************************)
EXTENDS Keyboard, TLC

MCKeys == {28}
MCSet1 == (28 :> 30) @@ (36 :> 18) @@ (18 :> 42) @@ (117 :> 72) @@ (20 :> 29) @@ (119 :> 69) @@ (131 :> 65)
Event(t, c) == [type |-> t, code |-> c]
MCEvents ==
  {Event({"normal"}, 28), Event({"break"}, 28), Event({"normal"}, 36),
   Event({"normal"}, LeftShift), Event({"break"}, LeftShift),
   Event({"extended"}, 117), Event({"break", "extended"}, 117),
   Event({"wide"}, Word(20, 119)), Event({"break", "wide"}, Word(20, 119)),
   Event({}, 131),
   Event({"extended"}, LeftShift), Event({"break", "extended"}, LeftShift)}
=============================================================================
