------------------------------ MODULE Division ------------------------------
(***************************************************************************)
(* 64-bit division for a 32-bit CPU (src/abi/cpp/integer.cpp): what the    *)
(* compiler calls for / and % of long long.  All four functions run the    *)
(* same two loops: the divisor is doubled until it reaches the dividend or *)
(* the next doubling would overflow, and then halved again, subtracted     *)
(* wherever it fits.  One step of the model is one turn of a loop.         *)
(*                                                                         *)
(* Numbers are words, 0 .. Word - 1, signed ones in two's complement.      *)
(***************************************************************************)
EXTENDS Integers

CONSTANT Half     \* 2^63: the first word that is negative when signed

ASSUME HalfAssumption == Half \in Nat \ {0}

Word  == 2 * Half
Words == 0 .. Word - 1

Functions == {"__udivdi3", "__umoddi3", "__divdi3", "__moddi3"}
IsSigned(f) == f \in {"__divdi3", "__moddi3"}

VARIABLES
  pc,         \* "idle", or the loop that runs: "climb", "descend"
  fn, x, y,   \* the call: function and arguments
  sig, dividend, divisor, shift, aux,
  result,
  climbed     \* history: the values shift had in the first loop

locals == <<sig, dividend, divisor, shift, aux>>
vars   == <<pc, fn, x, y, locals, result, climbed>>

Negative(w) == w >= Half
Negated(w)  == (Word - w) % Word
Magnitude(f, w) == IF IsSigned(f) /\ Negative(w) THEN Negated(w) ELSE w

Init ==
  /\ pc = "idle"
  /\ fn = "__udivdi3" /\ x = 0 /\ y = 1
  /\ sig = FALSE
  /\ dividend = 0 /\ divisor = 1 /\ shift = 0 /\ aux = 0
  /\ climbed = {}
  /\ result = 0

Call(f, a, b) ==
  /\ pc = "idle"
  /\ pc' = "climb"
  /\ fn' = f /\ x' = a /\ y' = b
  /\ sig' = (IsSigned(f) /\ ~(Negative(a) <=> Negative(b)))
  /\ dividend' = Magnitude(f, a)
  /\ divisor' = Magnitude(f, b)
  /\ shift' = divisor' /\ aux' = divisor'
  /\ climbed' = {divisor'}
  /\ result' = 0

(* while (shift < dividend && (aux <<= 1) > shift) shift = aux;            *)
Doubled == (2 * aux) % Word
MayDoubleAlways == shift < dividend  \* mutant
MayDouble == shift < dividend /\ Doubled > shift

Climb ==
  /\ pc = "climb"
  /\ MayDouble
  /\ aux' = Doubled
  /\ shift' = aux'
  /\ climbed' = climbed \cup {shift'}
  /\ UNCHANGED <<pc, fn, x, y, sig, dividend, divisor, result>>

Top ==
  /\ pc = "climb"
  /\ ~MayDouble
  /\ pc' = "descend"
  /\ aux' = 0
  /\ UNCHANGED <<fn, x, y, sig, dividend, divisor, shift, result, climbed>>

(* for (aux = 0; shift >= divisor; shift >>= 1) ...                        *)
Fits == shift <= dividend

Descend ==
  /\ pc = "descend"
  /\ shift >= divisor
  /\ IF Fits
     THEN aux' = (2 * aux + 1) % Word /\ dividend' = dividend - shift
     ELSE aux' = (2 * aux) % Word /\ UNCHANGED dividend
  /\ shift' = shift \div 2
  /\ UNCHANGED <<pc, fn, x, y, sig, divisor, result, climbed>>

ReturnedUnsigned == IF fn \in {"__umoddi3", "__moddi3"} THEN dividend ELSE aux  \* mutant
Returned ==
  LET w == IF fn \in {"__umoddi3", "__moddi3"} THEN dividend ELSE aux
  IN  IF sig THEN Negated(w) ELSE w

(* Nothing is left of a call but its result.                               *)
Return ==
  /\ pc = "descend"
  /\ shift < divisor
  /\ result' = Returned
  /\ pc' = "idle"
  /\ fn' = "__udivdi3" /\ x' = 0 /\ y' = 1
  /\ sig' = FALSE
  /\ dividend' = 0 /\ divisor' = 1 /\ shift' = 0 /\ aux' = 0
  /\ climbed' = {}

Next ==
  \/ \E f \in Functions, a, b \in Words : Call(f, a, b)
  \/ Climb \/ Top \/ Descend \/ Return

Turn == Climb \/ Top \/ Descend \/ Return
Spec == Init /\ [][Next]_vars /\ WF_vars(Turn)

-----------------------------------------------------------------------------
(* The number a word stands for, and what division is, without a word of   *)
(* how it is done: the quotient is rounded towards zero, the remainder has *)
(* the sign of the dividend.                                               *)
Value(f, w) == IF IsSigned(f) /\ Negative(w) THEN w - Word ELSE w
Abs(n) == IF n < 0 THEN -n ELSE n
IsRemainder(r, n, d) == Abs(r) < Abs(d) /\ (r = 0 \/ (r < 0) = (n < 0))
IsQuotient(q, n, d)  == IsRemainder(n - q * d, n, d)

(* The one quotient that is no word: -Half by -1.                          *)
Overflows == fn = "__divdi3" /\ x = Half /\ y = Word - 1

(***************************************************************************)
(* Every call that returns has divided: the quotient of __udivdi3 and      *)
(* __divdi3, the remainder of __umoddi3 and __moddi3.  Not __moddi3 by a   *)
(* negative divisor, whose sign the code takes from both arguments.        *)
(***************************************************************************)
DividedBy(w) ==
  LET n == Value(fn, x)
      d == Value(fn, y)
      v == Value(fn, w)
  IN  IF fn \in {"__udivdi3", "__divdi3"}
      THEN Overflows \/ IsQuotient(v, n, d)
      ELSE d < 0 \/ (IsRemainder(v, n, d) /\ \E q \in -Word .. Word : n = q * d + v)
ResultRight == [][pc # "idle" /\ pc' = "idle" => DividedBy(result')]_vars

(* A call returns, unless it divides by zero, which goes round for ever.   *)
Returns == pc # "idle" /\ divisor # 0 ~> pc = "idle"

-----------------------------------------------------------------------------
(* The types, and the loop invariants.                                     *)
TypeOK ==
  /\ pc \in {"idle", "climb", "descend"}
  /\ fn \in Functions /\ x \in Words /\ y \in Words
  /\ sig \in BOOLEAN
  /\ dividend \in Words /\ divisor \in Words /\ shift \in Words /\ aux \in Words
  /\ result \in Words
  /\ climbed \subseteq Words

(* The first loop reaches nothing but doublings of the divisor, so that    *)
(* halving comes back to the divisor and not below it.                     *)
ClimbedInDoublings ==
  /\ divisor \in climbed
  /\ \A s \in climbed : s >= divisor /\ (s = divisor \/ \E h \in climbed : s = 2 * h)

(* The dividend is always what has been taken away and what is left.       *)
Dividend == Magnitude(fn, x)
Balanced ==
  IF shift >= divisor
  THEN /\ shift \in climbed
       /\ Dividend = aux * (2 * shift) + dividend
       /\ dividend < 2 * shift
  ELSE Dividend = aux * divisor + dividend /\ dividend < divisor

IInv ==
  /\ TypeOK
  /\ pc # "idle" =>
       /\ divisor = Magnitude(fn, y)
       /\ sig = (IsSigned(fn) /\ ~(Negative(x) <=> Negative(y)))
       /\ ClimbedInDoublings
  /\ pc = "climb" => dividend = Dividend /\ aux = shift /\ shift \in climbed
  /\ (pc = "descend" /\ divisor # 0) => Balanced
=============================================================================
