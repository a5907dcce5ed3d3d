--------------------------- MODULE DivisionProofs ---------------------------
(* The loop invariants of module Division, and what follows from them:     *)
(* every call divides, for words of every size.                            *)
EXTENDS Division, TLAPS

(* A number below the modulus is its own remainder.                        *)
LEMMA ModSmall == ASSUME NEW m \in Nat \ {0}, NEW n \in Nat, n < m PROVE n % m = n
OBVIOUS

(* A number that is once too large loses the modulus.                      *)
LEMMA ModOnce ==
  ASSUME NEW m \in Nat \ {0}, NEW n \in Nat, m <= n, n < 2 * m PROVE n % m = n - m
OBVIOUS

(* Halving a double, and halving at all.                                   *)
LEMMA HalfOfDouble == \A n \in Nat : (2 * n) \div 2 = n
OBVIOUS
LEMMA HalfIsLess == \A n \in Nat \ {0} : n \div 2 \in Nat /\ n \div 2 < n
OBVIOUS

(* One turn of the second loop keeps the balance ...                       *)
LEMMA TurnBalances ==
  ASSUME NEW D \in Nat, NEW a \in Nat, NEW h \in Nat, NEW r \in Nat,
         D = a * (2 * h) + r
  PROVE  /\ D = (2 * a) * h + r
         /\ h <= r => D = (2 * a + 1) * h + (r - h)
OBVIOUS

(* ... and a quotient is no larger than what is divided.                   *)
LEMMA QuotientBound ==
  ASSUME NEW D \in Nat, NEW a \in Nat, NEW s \in Nat \ {0}, NEW r \in Nat,
         D = a * s + r
  PROVE  a <= D
OBVIOUS

(* What a word is.                                                         *)
LEMMA WordFacts == Word \in Nat \ {0} /\ Word = 2 * Half /\ Half \in Nat \ {0}
BY HalfAssumption DEF Word
LEMMA SmallWords == 0 \in Words /\ 1 \in Words
BY WordFacts DEF Words

(* The magnitude of a word is a word.                                      *)
LEMMA MagnitudeIsWord == \A f \in Functions, w \in Words : Magnitude(f, w) \in Words
<1> SUFFICES ASSUME NEW f \in Functions, NEW w \in Words PROVE Magnitude(f, w) \in Words
  OBVIOUS
<1>1. CASE IsSigned(f) /\ Negative(w)
  <2>1. Word - w \in Nat /\ Word - w < Word
    BY <1>1, WordFacts DEF Negative, Words
  <2>2. (Word - w) % Word = Word - w
    BY <2>1, ModSmall, WordFacts
  <2> QED
    BY <1>1, <2>1, <2>2, WordFacts DEF Magnitude, Negated, Words
<1>2. CASE ~(IsSigned(f) /\ Negative(w))
  BY <1>2 DEF Magnitude
<1> QED
  BY <1>1, <1>2

-----------------------------------------------------------------------------
(* The first state.                                                        *)
LEMMA InitIInv == Init => IInv
BY SmallWords DEF Init, IInv, TypeOK, Functions

(* Both loops start with the divisor itself.                               *)
LEMMA CallIInv ==
  ASSUME IInv, NEW f \in Functions, NEW a \in Words, NEW b \in Words, Call(f, a, b)
  PROVE  IInv'
<1>1. Magnitude(f, a) \in Words /\ Magnitude(f, b) \in Words
  BY MagnitudeIsWord
<1>2. TypeOK'
  BY <1>1, WordFacts DEF Call, IInv, TypeOK, Words, Functions
<1>3. (pc # "idle" =>
         /\ divisor = Magnitude(fn, y)
         /\ sig = (IsSigned(fn) /\ ~(Negative(x) <=> Negative(y)))
         /\ ClimbedInDoublings)'
  BY <1>1 DEF Call, Magnitude, Negated, IsSigned, Negative, ClimbedInDoublings, Words, Word
<1>4. (pc = "climb" => dividend = Dividend /\ aux = shift /\ shift \in climbed)'
  BY DEF Call, Dividend, Magnitude, Negated, IsSigned, Negative, Word
<1> QED
  BY <1>2, <1>3, <1>4 DEF Call, IInv

(* A doubling that is larger did not overflow.                             *)
LEMMA DoubledIsDouble ==
  ASSUME TypeOK, aux = shift, MayDouble PROVE Doubled = 2 * shift /\ Doubled \in Words
<1>1. shift \in Nat /\ shift < Word
  BY WordFacts DEF TypeOK, Words
<1>2. CASE 2 * shift < Word
  <2>1. (2 * shift) % Word = 2 * shift
    BY <1>1, <1>2, ModSmall, WordFacts
  <2> QED
    BY <1>1, <1>2, <2>1, WordFacts DEF Doubled, Words
<1>3. CASE Word <= 2 * shift
  <2>1. (2 * shift) % Word = 2 * shift - Word
    <3>1. 2 * shift \in Nat /\ 2 * shift < 2 * Word
      BY <1>1, WordFacts
    <3> HIDE DEF Word
    <3> QED
      BY <1>3, <3>1, ModOnce, WordFacts
  <2> QED
    BY <1>1, <1>3, <2>1, WordFacts DEF Doubled, MayDouble
<1> QED
  BY <1>1, <1>2, <1>3, WordFacts

(* Climbing adds one doubling.                                             *)
LEMMA ClimbIInv == ASSUME IInv, Climb PROVE IInv'
<1>1. Doubled = 2 * shift /\ Doubled \in Words
  BY DoubledIsDouble DEF IInv, Climb
<1>2. TypeOK'
  BY <1>1 DEF Climb, IInv, TypeOK
<1>3. ClimbedInDoublings'
  <2>1. shift \in climbed /\ shift \in Nat /\ divisor \in Nat /\ ClimbedInDoublings
    BY DEF Climb, IInv, TypeOK, Words
  <2>2. shift >= divisor
    BY <2>1 DEF ClimbedInDoublings
  <2>3. 2 * shift >= divisor
    BY <2>1, <2>2
  <2> QED
    BY <1>1, <2>1, <2>3 DEF Climb, ClimbedInDoublings
<1> QED
  BY <1>2, <1>3 DEF Climb, IInv, Dividend, Magnitude, Negated, IsSigned, Negative, Word

(* At the top the dividend is less than two of what is subtracted first.   *)
LEMMA TopIInv == ASSUME IInv, Top PROVE IInv'
<1>1. TypeOK'
  BY WordFacts DEF Top, IInv, TypeOK, Words
<1>2. ASSUME divisor # 0 PROVE Balanced'
  <2>1. /\ shift \in climbed /\ shift \in Nat /\ divisor \in Nat /\ shift < Word
        /\ dividend \in Nat /\ dividend < Word /\ aux = shift
        /\ ClimbedInDoublings /\ dividend = Dividend
    BY WordFacts DEF Top, IInv, TypeOK, Words
  <2>2. shift >= divisor
    BY <2>1 DEF ClimbedInDoublings
  <2>3. dividend < 2 * shift
    <3>1. CASE shift >= dividend
      BY <1>2, <2>1, <2>2, <3>1
    <3>2. CASE shift < dividend
      <4>1. ~(Doubled > shift)
        BY <3>2 DEF Top, MayDouble
      <4>2. Word <= 2 * shift
        <5>1. ASSUME 2 * shift < Word PROVE FALSE
          <6>1. (2 * shift) % Word = 2 * shift
            BY <2>1, <5>1, ModSmall, WordFacts
          <6> QED
            BY <1>2, <2>1, <2>2, <4>1, <6>1 DEF Doubled
        <5> QED
          BY <5>1, <2>1, WordFacts
      <4> QED
        BY <2>1, <4>2, WordFacts
    <3> QED
      BY <2>1, <3>1, <3>2
  <2>4. Dividend' = Dividend
    BY DEF Top, Dividend, Magnitude, Negated, IsSigned, Negative, Word
  <2>5. Dividend = 0 * (2 * shift) + dividend
    BY <2>1
  <2> QED
    BY <2>1, <2>2, <2>3, <2>4, <2>5 DEF Top, Balanced
<1> QED
  BY <1>1, <1>2
     DEF Top, IInv, ClimbedInDoublings, Magnitude, Negated, IsSigned, Negative, Word

(* One turn down: the subtracted doubling is the half of the one before,   *)
(* or the divisor, after which nothing is left to subtract.                *)
LEMMA DescendIInv == ASSUME IInv, Descend PROVE IInv'
<1>1. /\ shift \in Nat /\ divisor \in Nat /\ dividend \in Nat /\ aux \in Nat
      /\ shift < Word /\ dividend < Word /\ shift >= divisor
  BY WordFacts DEF Descend, IInv, TypeOK, Words
<1>2. TypeOK'
  <2>1. (2 * aux) % Word \in Words /\ (2 * aux + 1) % Word \in Words
    BY <1>1, WordFacts DEF Words
  <2>2. shift \div 2 \in Words
    BY <1>1, WordFacts DEF Words
  <2>3. Fits => dividend - shift \in Words
    BY <1>1, WordFacts DEF Fits, Words
  <2> QED
    BY <2>1, <2>2, <2>3 DEF Descend, IInv, TypeOK
<1>3. ASSUME divisor # 0 PROVE Balanced'
  <2>1. /\ ClimbedInDoublings /\ shift \in climbed
        /\ Dividend = aux * (2 * shift) + dividend
        /\ dividend < 2 * shift
    BY <1>1, <1>3 DEF Descend, IInv, Balanced
  <2>2. Dividend \in Nat /\ Dividend < Word
    <3>1. fn \in Functions /\ x \in Words
      BY DEF IInv, TypeOK
    <3> QED
      BY <3>1, MagnitudeIsWord, WordFacts DEF Dividend, Words
  <2>3. Dividend' = Dividend
    BY DEF Descend, Dividend, Magnitude, Negated, IsSigned, Negative, Word
  <2>4. /\ dividend' \in Nat /\ aux' \in Nat
        /\ Dividend = aux' * shift + dividend' /\ dividend' < shift
    <3>1. CASE Fits
      <4>1. Dividend = (2 * aux + 1) * shift + (dividend - shift)
        BY <1>1, <2>1, <2>2, <3>1, TurnBalances DEF Fits
      <4>2. 2 * aux + 1 <= Dividend
        <5>1. dividend - shift \in Nat /\ 2 * aux + 1 \in Nat /\ shift \in Nat \ {0}
          BY <1>1, <1>3, <3>1 DEF Fits
        <5> QED
          BY <4>1, <5>1, <2>2, QuotientBound
      <4>3. (2 * aux + 1) % Word = 2 * aux + 1
        BY <1>1, <2>2, <4>2, ModSmall, WordFacts
      <4>4. aux' = 2 * aux + 1 /\ dividend' = dividend - shift
        BY <3>1, <4>3 DEF Descend
      <4>5. dividend' \in Nat /\ aux' \in Nat /\ dividend' < shift
        BY <1>1, <2>1, <3>1, <4>4 DEF Fits
      <4> QED
        BY <4>1, <4>4, <4>5
    <3>2. CASE ~Fits
      <4>1. Dividend = (2 * aux) * shift + dividend
        BY <1>1, <2>1, <2>2, TurnBalances
      <4>2. 2 * aux <= Dividend
        <5>1. 2 * aux \in Nat /\ shift \in Nat \ {0}
          BY <1>1, <1>3
        <5> QED
          BY <1>1, <4>1, <5>1, <2>2, QuotientBound
      <4>3. (2 * aux) % Word = 2 * aux
        BY <1>1, <2>2, <4>2, ModSmall, WordFacts
      <4>4. aux' = 2 * aux /\ dividend' = dividend
        BY <3>2, <4>3 DEF Descend
      <4>5. dividend' \in Nat /\ aux' \in Nat /\ dividend' < shift
        BY <1>1, <3>2, <4>4 DEF Fits
      <4> QED
        BY <4>1, <4>4, <4>5
    <3> QED
      BY <3>1, <3>2
  <2>5. CASE shift = divisor
    <3>1. shift \div 2 < divisor
      BY <1>1, <1>3, <2>5, HalfIsLess
    <3>2. shift' < divisor' /\ divisor' = divisor /\ shift' \in Nat
      BY <1>1, <3>1 DEF Descend
    <3>3. ~(shift' >= divisor')
      BY <1>1, <3>2
    <3> QED
      BY <2>3, <2>4, <2>5, <3>2, <3>3 DEF Balanced
  <2>6. CASE shift # divisor
    <3>1. PICK h \in climbed : shift = 2 * h
      BY <2>1, <2>6 DEF ClimbedInDoublings
    <3>2. h \in Nat /\ h >= divisor
      BY <2>1, <3>1 DEF ClimbedInDoublings, IInv, TypeOK, Words
    <3>3. shift' = h /\ divisor' = divisor /\ climbed' = climbed
      BY <3>1, <3>2, HalfOfDouble DEF Descend
    <3> QED
      BY <2>3, <2>4, <3>1, <3>2, <3>3 DEF Balanced
  <2> QED
    BY <2>5, <2>6
<1> QED
  BY <1>2, <1>3
     DEF Descend, IInv, ClimbedInDoublings, Magnitude, Negated, IsSigned, Negative, Word

(* Between two calls nothing is left to hold.                              *)
LEMMA ReturnIInv == ASSUME IInv, Return PROVE IInv'
<1>1. Returned \in Words
  <2>1. \A w \in Words : Negated(w) \in Words
    BY WordFacts DEF Negated, Words
  <2> QED
    BY <2>1 DEF Returned, IInv, TypeOK
<1> QED
  BY <1>1, SmallWords DEF Return, IInv, TypeOK, Functions

-----------------------------------------------------------------------------
(* The loop invariants hold, for words of every size: above all, the sum   *)
(* of what has been subtracted and what is left is the dividend, although  *)
(* aux and the doublings are computed modulo the word.                     *)
THEOREM DivisionIInv == Spec => []IInv
<1>1. IInv /\ [Next]_vars => IInv'
  <2> SUFFICES ASSUME IInv, [Next]_vars PROVE IInv'
    OBVIOUS
  <2>1. ASSUME NEW f \in Functions, NEW a \in Words, NEW b \in Words, Call(f, a, b)
        PROVE  IInv'
    BY <2>1, CallIInv
  <2>2. CASE Climb
    BY <2>2, ClimbIInv
  <2>3. CASE Top
    BY <2>3, TopIInv
  <2>4. CASE Descend
    BY <2>4, DescendIInv
  <2>5. CASE Return
    BY <2>5, ReturnIInv
  <2>6. CASE UNCHANGED vars
    BY <2>6 DEF vars, locals, IInv, TypeOK, ClimbedInDoublings, Balanced, Dividend,
       Magnitude, Negated, IsSigned, Negative, Word, Words
  <2> QED
    BY <2>1, <2>2, <2>3, <2>4, <2>5, <2>6 DEF Next
<1> QED
  BY <1>1, InitIInv, PTL DEF Spec

-----------------------------------------------------------------------------
(* What the arguments of a call stand for.                                 *)
LEMMA ValueFacts ==
  ASSUME NEW f \in Functions, NEW w \in Words
  PROVE  /\ Value(f, w) \in Int
         /\ ~IsSigned(f) => Value(f, w) = Magnitude(f, w) /\ Value(f, w) >= 0
         /\ Value(f, w) >= 0 => Value(f, w) = Magnitude(f, w)
         /\ Value(f, w) < 0 => Value(f, w) = 0 - Magnitude(f, w)
         /\ IsSigned(f) => /\ Negative(w) <=> Value(f, w) < 0
                           /\ Magnitude(f, w) <= Half
                           /\ Magnitude(f, w) = Half => w = Half
<1>1. w \in Nat /\ w < Word
  BY WordFacts DEF Words
<1>2. CASE IsSigned(f) /\ Negative(w)
  <2>1. Word - w \in Nat /\ Word - w < Word /\ Word - w <= Half
    BY <1>1, <1>2, WordFacts DEF Negative
  <2>2. (Word - w) % Word = Word - w
    BY <2>1, ModSmall, WordFacts
  <2>3. Value(f, w) = w - Word /\ Magnitude(f, w) = Word - w
    BY <1>2, <2>2 DEF Value, Magnitude, Negated
  <2>4. w - Word < 0 /\ w - Word = 0 - (Word - w) /\ w - Word \in Int
    BY <1>1, WordFacts
  <2>5. Word - w = Half => w = Half
    BY <1>1, WordFacts
  <2> QED
    BY <1>2, <2>1, <2>3, <2>4, <2>5
<1>3. CASE ~(IsSigned(f) /\ Negative(w))
  <2>1. Value(f, w) = w /\ Magnitude(f, w) = w
    BY <1>3 DEF Value, Magnitude
  <2>2. IsSigned(f) => w < Half
    BY <1>1, <1>3, WordFacts DEF Negative
  <2> QED
    BY <1>1, <1>3, <2>1, <2>2, WordFacts
<1> QED
  BY <1>2, <1>3

(* A magnitude up to Half, read back as a signed word, has its sign; Half  *)
(* itself only with a minus.                                               *)
LEMMA SignedBack ==
  ASSUME NEW f \in Functions, IsSigned(f), NEW m \in Words, m <= Half
  PROVE  /\ Value(f, Negated(m)) = 0 - m
         /\ m # Half => Value(f, m) = m
<1>1. m \in Nat
  BY WordFacts DEF Words
<1>2. m # Half => Value(f, m) = m
  BY <1>1, WordFacts DEF Value, Negative
<1>3. CASE m = 0
  <2>1. Word % Word = Word - Word
    BY ModOnce, WordFacts
  <2>2. Negated(m) = 0
    BY <1>3, <2>1, WordFacts DEF Negated
  <2> QED
    BY <1>2, <1>3, <2>2, WordFacts DEF Value, Negative
<1>4. CASE m # 0
  <2>1. Word - m \in Nat /\ Word - m < Word /\ Word - m >= Half
    BY <1>1, <1>4, WordFacts
  <2>2. (Word - m) % Word = Word - m
    BY <2>1, ModSmall, WordFacts
  <2>3. Value(f, Negated(m)) = (Word - m) - Word
    BY <2>1, <2>2 DEF Value, Negative, Negated
  <2> QED
    BY <1>1, <1>2, <2>3, WordFacts
<1> QED
  BY <1>3, <1>4

(* A quotient as large as Half is that of -Half by 1 or -1.                *)
LEMMA LargestQuotient ==
  ASSUME NEW N \in Nat, NEW D \in Nat, NEW r \in Nat,
         N = Half * D + r, N <= Half, r < D
  PROVE  D = 1 /\ N = Half
<1>1. Half \in Nat \ {0}
  BY WordFacts
<1>2. ASSUME D >= 2 PROVE FALSE
  <2>1. PICK e \in Nat : D = 2 + e
    <3>1. D - 2 \in Nat /\ D = 2 + (D - 2)
      BY <1>2
    <3> QED
      BY <3>1
  <2>2. Half * D = 2 * Half + Half * e /\ Half * e \in Nat
    BY <1>1, <2>1
  <2> QED
    BY <1>1, <2>2
<1>3. D = 1
  BY <1>2
<1>4. Half * D = Half
  BY <1>1, <1>3
<1> QED
  BY <1>1, <1>3, <1>4

(* What a call returns, when the second loop is done.                      *)
LEMMA ReturnDivides == ASSUME IInv, Return PROVE DividedBy(result')
<1> DEFINE n == Value(fn, x)
           d == Value(fn, y)
<1>1. /\ fn \in Functions /\ x \in Words /\ y \in Words
      /\ shift \in Nat /\ divisor \in Nat /\ dividend \in Nat /\ aux \in Nat
      /\ dividend \in Words /\ aux \in Words
      /\ shift < divisor /\ divisor # 0
      /\ sig \in BOOLEAN /\ result' = Returned
  BY WordFacts DEF Return, IInv, TypeOK, Words
<1>2. /\ divisor = Magnitude(fn, y)
      /\ sig = (IsSigned(fn) /\ ~(Negative(x) <=> Negative(y)))
      /\ Dividend = aux * divisor + dividend /\ dividend < divisor
  BY <1>1 DEF Return, IInv, Balanced
<1>3. Dividend \in Nat /\ Dividend = Magnitude(fn, x)
  BY <1>1, MagnitudeIsWord, WordFacts DEF Dividend, Words
<1>4. /\ n \in Int /\ d \in Int
      /\ n >= 0 => n = Dividend
      /\ n < 0 => n = 0 - Dividend
      /\ d >= 0 => d = divisor
      /\ d < 0 => d = 0 - divisor
  BY <1>1, <1>2, <1>3, ValueFacts
<1>5. /\ (n < 0 <=> d < 0) => IsQuotient(aux, n, d)
      /\ ~(n < 0 <=> d < 0) => IsQuotient(0 - aux, n, d)
      /\ n >= 0 => IsRemainder(dividend, n, d) /\ (d >= 0 => n = aux * d + dividend)
      /\ n < 0 => IsRemainder(0 - dividend, n, d)
                   /\ (d >= 0 => n = (0 - aux) * d + (0 - dividend))
  <2>0. /\ Dividend = aux * divisor + dividend /\ dividend < divisor
        /\ aux \in Nat /\ dividend \in Nat /\ divisor \in Nat /\ Dividend \in Nat
    BY <1>1, <1>2, <1>3
  <2> HIDE DEF n, d
  <2>1. aux * divisor \in Nat
    BY <1>4, <2>0
  <2>2. /\ aux * (0 - divisor) = 0 - aux * divisor 
        /\ (0 - aux) * divisor = 0 - aux * divisor
        /\ (0 - aux) * (0 - divisor) = aux * divisor
    BY <1>4, <2>0
  <2>3. Abs(d) = divisor
    BY <1>4, <2>0 DEF Abs
  <2>4. n >= 0 => IsRemainder(dividend, n, d)
    BY <1>4, <2>0, <2>3 DEF IsRemainder, Abs
  <2>5. n < 0 => IsRemainder(0 - dividend, n, d)
    BY <1>4, <2>0, <2>3 DEF IsRemainder, Abs
  <2>6. ASSUME (n < 0 <=> d < 0) PROVE IsQuotient(aux, n, d)
    <3>1. CASE n >= 0
      <4>1. d = divisor /\ n = Dividend
        BY <1>4, <2>0, <2>6, <3>1
      <4>2. n - aux * d = dividend
        BY <1>4, <2>0, <2>1, <4>1
      <4> QED
        BY <2>4, <3>1, <4>2 DEF IsQuotient
    <3>2. CASE n < 0
      <4>1. d = 0 - divisor /\ n = 0 - Dividend
        BY <1>4, <2>0, <2>6, <3>2
      <4>2. n - aux * d = 0 - dividend
        BY <1>4, <2>0, <2>1, <2>2, <4>1
      <4> QED
        BY <2>5, <3>2, <4>2 DEF IsQuotient
    <3> QED
      BY <1>4, <3>1, <3>2
  <2>7. ASSUME ~(n < 0 <=> d < 0) PROVE IsQuotient(0 - aux, n, d)
    <3>1. CASE n >= 0
      <4>1. d = 0 - divisor /\ n = Dividend
        BY <1>4, <2>0, <2>7, <3>1
      <4>2. n - (0 - aux) * d = dividend
        BY <1>4, <2>0, <2>1, <2>2, <4>1
      <4> QED
        BY <2>4, <3>1, <4>2 DEF IsQuotient
    <3>2. CASE n < 0
      <4>1. d = divisor /\ n = 0 - Dividend
        BY <1>4, <2>0, <2>7, <3>2
      <4>2. n - (0 - aux) * d = 0 - dividend
        BY <1>4, <2>0, <2>1, <2>2, <4>1
      <4> QED
        BY <2>5, <3>2, <4>2 DEF IsQuotient
    <3> QED
      BY <1>4, <3>1, <3>2
  <2>8. d >= 0 /\ n >= 0 => n = aux * d + dividend
    BY <1>4, <2>0
  <2>9. d >= 0 /\ n < 0 => n = (0 - aux) * d + (0 - dividend)
    BY <1>4, <2>0, <2>1, <2>2
  <2> QED
    BY <2>4, <2>5, <2>6, <2>7, <2>8, <2>9
<1>6. aux <= Dividend /\ aux \in -Word .. Word /\ 0 - aux \in -Word .. Word
  <2>1. aux <= Dividend
    BY <1>1, <1>2, <1>3, QuotientBound
  <2> QED
    BY <1>1, <2>1, WordFacts DEF Words
<1>7. CASE ~IsSigned(fn)
  <2>1. n >= 0 /\ d >= 0 /\ sig = FALSE
    BY <1>1, <1>2, <1>7, ValueFacts
  <2>2. Value(fn, aux) = aux /\ Value(fn, dividend) = dividend
    BY <1>7 DEF Value
  <2>3. CASE fn = "__udivdi3"
    <3>1. Returned = aux
      BY <2>1, <2>3 DEF Returned
    <3>2. IsQuotient(Value(fn, result'), n, d)
      <4> HIDE DEF n, d
      <4> QED
        BY <1>1, <1>4, <1>5, <2>1, <2>2, <3>1
    <3> QED
      BY <2>3, <3>2 DEF DividedBy
  <2>4. CASE fn = "__umoddi3"
    <3>1. Returned = dividend
      BY <2>1, <2>4 DEF Returned
    <3>2. IsRemainder(Value(fn, result'), n, d) /\ n = aux * d + Value(fn, result')
      BY <1>1, <1>5, <2>1, <2>2, <3>1
    <3>3. fn \notin {"__udivdi3", "__divdi3"}
      BY <2>4
    <3> QED
      BY <1>6, <3>2, <3>3 DEF DividedBy
  <2> QED
    BY <1>1, <1>7, <2>3, <2>4 DEF Functions, IsSigned
<1>8. CASE IsSigned(fn)
  <2>1. sig <=> ~(n < 0 <=> d < 0)
    <3>1. (Negative(x) <=> n < 0) /\ (Negative(y) <=> d < 0)
      BY <1>1, <1>8, ValueFacts
    <3>2. sig <=> ~(Negative(x) <=> Negative(y))
      BY <1>2, <1>8
    <3> QED
      BY <3>1, <3>2
  <2>2. /\ Dividend <= Half /\ (Dividend = Half => x = Half)
        /\ divisor <= Half
    BY <1>1, <1>2, <1>3, <1>8, ValueFacts
  <2>3. CASE fn = "__divdi3"
    <3>1. Returned = IF sig THEN Negated(aux) ELSE aux
      BY <2>3 DEF Returned
    <3>2. aux <= Half
      BY <1>1, <1>3, <1>6, <2>2, WordFacts
    <3>3. CASE sig
      <4>1. Value(fn, result') = 0 - aux
        BY <1>1, <1>8, <3>1, <3>2, <3>3, SignedBack
      <4>2. IsQuotient(Value(fn, result'), n, d)
        BY <1>5, <2>1, <3>3, <4>1
      <4> QED
        BY <2>3, <4>2 DEF DividedBy
    <3>4. CASE ~sig /\ aux # Half
      <4>1. Value(fn, result') = aux
        BY <1>1, <1>8, <3>1, <3>2, <3>4, SignedBack
      <4>2. (n < 0 <=> d < 0)
        BY <1>4, <2>1, <3>4
      <4>3. IsQuotient(Value(fn, result'), n, d)
        BY <1>5, <4>1, <4>2
      <4> QED
        BY <2>3, <4>3 DEF DividedBy
    <3>5. CASE ~sig /\ aux = Half
      <4>1. divisor = 1 /\ Dividend = Half
        BY <1>1, <1>2, <1>3, <2>2, <3>5, LargestQuotient
      <4>2. x = Half /\ Negative(x)
        BY <2>2, <4>1, WordFacts DEF Negative
      <4>3. Negative(y)
        BY <1>2, <1>8, <3>5, <4>2
      <4>4. y \in Nat /\ Word - y \in Nat /\ Word - y < Word
        BY <1>1, <4>3, WordFacts DEF Words, Negative
      <4>5. (Word - y) % Word = Word - y
        BY <4>4, ModSmall, WordFacts
      <4>6. Word - y = 1
        BY <1>2, <1>8, <4>1, <4>3, <4>5 DEF Magnitude, Negated
      <4>7. y = Word - 1
        BY <4>4, <4>6, WordFacts
      <4>8. Overflows
        BY <2>3, <4>2, <4>7 DEF Overflows
      <4> QED
        BY <2>3, <4>8 DEF DividedBy
    <3> QED
      BY <3>3, <3>4, <3>5
  <2>4. CASE fn = "__moddi3"
    <3>1. Returned = IF sig THEN Negated(dividend) ELSE dividend
      BY <2>4 DEF Returned
    <3>2. dividend <= Half /\ dividend # Half
      BY <1>1, <1>2, <2>2, WordFacts
    <3>3. fn \notin {"__udivdi3", "__divdi3"}
      BY <2>4
    <3>4. CASE d < 0
      BY <3>3, <3>4 DEF DividedBy
    <3>5. CASE ~(d < 0) /\ n < 0
      <4>1. sig /\ d >= 0
        BY <1>4, <2>1, <3>5
      <4>2. Value(fn, result') = 0 - dividend
        BY <1>1, <1>8, <3>1, <3>2, <4>1, SignedBack
      <4>3. IsRemainder(Value(fn, result'), n, d) /\ n = (0 - aux) * d + Value(fn, result')
        BY <1>5, <3>5, <4>1, <4>2
      <4> QED
        BY <1>6, <3>3, <4>3 DEF DividedBy
    <3>6. CASE ~(d < 0) /\ ~(n < 0)
      <4>1. ~sig /\ d >= 0 /\ n >= 0
        BY <1>4, <2>1, <3>6
      <4>2. Value(fn, result') = dividend
        BY <1>1, <1>8, <3>1, <3>2, <4>1, SignedBack
      <4>3. IsRemainder(Value(fn, result'), n, d) /\ n = aux * d + Value(fn, result')
        BY <1>5, <4>1, <4>2
      <4> QED
        BY <1>6, <3>3, <4>3 DEF DividedBy
    <3> QED
      BY <3>4, <3>5, <3>6
  <2> QED
    BY <1>1, <1>8, <2>3, <2>4 DEF Functions, IsSigned
<1> QED
  BY <1>7, <1>8

(* Every call that returns has divided, for words of every size: only the  *)
(* step Return goes back to "idle", and it returns what the loops balanced.*)
THEOREM DivisionResultRight == Spec => ResultRight
<1>1. ASSUME IInv, [Next]_vars, pc # "idle", pc' = "idle" PROVE DividedBy(result')
  <2>1. Return
    BY <1>1 DEF Next, Call, Climb, Top, Descend, vars, IInv
  <2> QED
    BY <1>1, <2>1, ReturnDivides
<1>2. IInv /\ [Next]_vars => [pc # "idle" /\ pc' = "idle" => DividedBy(result')]_vars
  BY <1>1
<1> QED
  BY <1>2, DivisionIInv, PTL DEF Spec, ResultRight
=============================================================================
