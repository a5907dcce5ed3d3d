--------------------------- MODULE KeyboardProofs ---------------------------
(***************************************************************************)
(* Proofs about the keyboard driver, for every set of keys and every       *)
(* number of events, from the first step of keyboard::init on: ps2_read    *)
(* keeps its place in the bytes, the characters stored are those of the    *)
(* keys, and wait_char ends for a fresh key only.                          *)
(***************************************************************************)
EXTENDS Keyboard, SequenceTheorems, WellFoundedInduction, TLAPS

KeyBytes == {EXT, WIDE, RELEASE} \cup UNION {CodeBytes(e) : e \in Events}

LEMMA Least ==
  ASSUME NEW T, T \subseteq Nat, T # {}
  PROVE  \E x \in T : \A y \in T : x <= y
<1>1. IsWellFoundedOn(OpToRel(<, Nat), Nat)
  BY NatLessThanWellFounded
<1>2. PICK x \in T : \A y \in T : ~ (<<y, x>> \in OpToRel(<, Nat))
  <2> HIDE DEF OpToRel, IsWellFoundedOn
  <2> QED BY <1>1, WFMin, Zenon
<1>3. \A y \in T : ~ (y < x)
  BY <1>2 DEF OpToRel
<1> QED BY <1>3

-----------------------------------------------------------------------------
(* The bytes of one event, by its type.                                    *)
LEMMA KeyBytesAreBytes == KeyBytes \subseteq 1 .. 255
BY EventsAssumption DEF KeyBytes, EXT, WIDE, RELEASE

LEMMA CodeFacts ==
  ASSUME NEW e \in Events
  PROVE  /\ e.type \in Types /\ e.code \in Nat
         /\ e = [type |-> e.type, code |-> e.code]
         /\ "wide" \notin e.type => e.code \in KeyBytes \ {EXT, WIDE, RELEASE} /\ e.code \in 1 .. 255
         /\ "wide" \in e.type =>
              /\ e.code % 256 \in KeyBytes \ {EXT, WIDE, RELEASE}
              /\ e.code \div 256 \in KeyBytes \ {EXT, WIDE, RELEASE}
              /\ e.code % 256 \in 1 .. 255 /\ e.code \div 256 \in 1 .. 255
              /\ e.code = Word(e.code % 256, e.code \div 256)
<1>1. e \in [type : Types, code : Nat]
  BY EventsAssumption, Zenon
<1>2. CodeBytes(e) \subseteq 1 .. 255 \ {EXT, WIDE, RELEASE}
  BY EventsAssumption, Zenon
<1>3. CodeBytes(e) \subseteq KeyBytes
  <2> SUFFICES ASSUME NEW b \in CodeBytes(e) PROVE b \in KeyBytes
    OBVIOUS
  <2>1. b \in UNION {CodeBytes(x) : x \in Events}
    OBVIOUS
  <2> QED BY <2>1 DEF KeyBytes
<1>4. e.code = 256 * (e.code \div 256) + (e.code % 256)
  BY <1>1
<1>5. e.type \in Types /\ e.code \in Nat /\ e = [type |-> e.type, code |-> e.code]
  BY <1>1
<1>6. ASSUME "wide" \notin e.type
      PROVE  e.code \in KeyBytes \ {EXT, WIDE, RELEASE} /\ e.code \in 1 .. 255
  <2>1. CodeBytes(e) = {e.code}
    BY <1>6 DEF CodeBytes
  <2> QED BY <2>1, <1>2, <1>3
<1>7. ASSUME "wide" \in e.type
      PROVE  /\ e.code % 256 \in KeyBytes \ {EXT, WIDE, RELEASE}
             /\ e.code \div 256 \in KeyBytes \ {EXT, WIDE, RELEASE}
             /\ e.code % 256 \in 1 .. 255 /\ e.code \div 256 \in 1 .. 255
  <2>1. CodeBytes(e) = {e.code % 256, e.code \div 256}
    BY <1>7 DEF CodeBytes
  <2> QED BY <2>1, <1>2, <1>3
<1> QED BY <1>4, <1>5, <1>6, <1>7 DEF Word

LEMMA TypesAre ==
  /\ {"normal"} # {"break"} /\ {"normal"} # {"extended"} /\ {"normal"} # {"wide"}
  /\ {"normal"} # {"break", "extended"} /\ {"normal"} # {"break", "wide"} /\ {"normal"} # {}
  /\ {"break"} # {"extended"} /\ {"break"} # {"wide"} /\ {"break"} # {"break", "extended"}
  /\ {"break"} # {"break", "wide"} /\ {"break"} # {}
  /\ {"extended"} # {"wide"} /\ {"extended"} # {"break", "extended"}
  /\ {"extended"} # {"break", "wide"} /\ {"extended"} # {}
  /\ {"wide"} # {"break", "extended"} /\ {"wide"} # {"break", "wide"} /\ {"wide"} # {}
  /\ {"break", "extended"} # {"break", "wide"} /\ {"break", "extended"} # {}
  /\ {"break", "wide"} # {}
<1>1. /\ "normal" # "break" /\ "normal" # "extended" /\ "normal" # "wide"
      /\ "break" # "extended" /\ "break" # "wide" /\ "extended" # "wide"
  OBVIOUS
<1> QED BY <1>1

LEMMA BytesByType ==
  ASSUME NEW e \in Events
  PROVE  \/ e.type = {"normal"} /\ Bytes(e) = <<e.code>> /\ e.code < 128
         \/ e.type = {} /\ Bytes(e) = <<e.code>> /\ e.code >= 128
         \/ e.type = {"break"} /\ Bytes(e) = <<RELEASE, e.code>>
         \/ e.type = {"extended"} /\ Bytes(e) = <<EXT, e.code>>
         \/ e.type = {"break", "extended"} /\ Bytes(e) = <<EXT, RELEASE, e.code>>
         \/ e.type = {"wide"} /\ Bytes(e) = <<WIDE, e.code % 256, e.code \div 256>>
         \/ /\ e.type = {"break", "wide"}
            /\ Bytes(e) = <<WIDE, RELEASE, e.code % 256, RELEASE, e.code \div 256>>
<1>1. e.type \in Types
  BY CodeFacts
<1>2. CASE e.type = {"normal"}
  BY <1>2, TypesAre, EventsAssumption DEF Bytes
<1>3. CASE e.type = {}
  BY <1>3, TypesAre, EventsAssumption DEF Bytes
<1>4. CASE e.type = {"break"}
  BY <1>4, TypesAre DEF Bytes
<1>5. CASE e.type = {"extended"}
  BY <1>5, TypesAre DEF Bytes
<1>6. CASE e.type = {"break", "extended"}
  BY <1>6, TypesAre DEF Bytes
<1>7. CASE e.type = {"wide"}
  BY <1>7, TypesAre DEF Bytes
<1>8. CASE e.type = {"break", "wide"}
  BY <1>8, TypesAre DEF Bytes
<1> QED BY <1>1, <1>2, <1>3, <1>4, <1>5, <1>6, <1>7, <1>8 DEF Types

LEMMA Tuples ==
  ASSUME NEW S, NEW a \in S, NEW b \in S, NEW c \in S
  PROVE  /\ <<a>> \in Seq(S) /\ Len(<<a>>) = 1
         /\ <<a, b>> \in Seq(S) /\ Len(<<a, b>>) = 2
         /\ <<a, b, c>> \in Seq(S) /\ Len(<<a, b, c>>) = 3
OBVIOUS
LEMMA FiveTuple ==
  ASSUME NEW S, NEW a \in S, NEW b \in S, NEW c \in S, NEW d \in S, NEW e \in S
  PROVE  <<a, b, c, d, e>> \in Seq(S) /\ Len(<<a, b, c, d, e>>) = 5
OBVIOUS

LEMMA BytesInSeq ==
  ASSUME NEW e \in Events
  PROVE  Bytes(e) \in Seq(KeyBytes) /\ Len(Bytes(e)) \in Nat \ {0}
<1>1. EXT \in KeyBytes /\ WIDE \in KeyBytes /\ RELEASE \in KeyBytes
  BY DEF KeyBytes
<1>2. CASE "wide" \notin e.type
  <2>1. e.code \in KeyBytes
    BY <1>2, CodeFacts
  <2>2. e.type # {"wide"} /\ e.type # {"break", "wide"}
    BY <1>2
  <2>3. \/ Bytes(e) = <<e.code>> \/ Bytes(e) = <<RELEASE, e.code>>
        \/ Bytes(e) = <<EXT, e.code>> \/ Bytes(e) = <<EXT, RELEASE, e.code>>
    BY <2>2, BytesByType, Zenon
  <2>4. CASE Bytes(e) = <<e.code>>
    BY <1>1, <2>1, <2>4, Tuples
  <2>7. CASE Bytes(e) = <<RELEASE, e.code>>
    BY <1>1, <2>1, <2>7, Tuples
  <2>5. CASE Bytes(e) = <<EXT, e.code>>
    BY <1>1, <2>1, <2>5, Tuples
  <2>6. CASE Bytes(e) = <<EXT, RELEASE, e.code>>
    BY <1>1, <2>1, <2>6, Tuples
  <2> QED BY <2>3, <2>4, <2>5, <2>6, <2>7
<1>3. CASE "wide" \in e.type
  <2>1. e.code % 256 \in KeyBytes /\ e.code \div 256 \in KeyBytes
    BY <1>3, CodeFacts
  <2>2. e.type = {"wide"} \/ e.type = {"break", "wide"}
    BY <1>3, CodeFacts, TypesAre DEF Types
  <2>3. e.type # {"normal"} /\ e.type # {} /\ e.type # {"break"} /\ e.type # {"extended"}
        /\ e.type # {"break", "extended"}
    BY <1>3
  <2>4. \/ Bytes(e) = <<WIDE, e.code % 256, e.code \div 256>>
        \/ Bytes(e) = <<WIDE, RELEASE, e.code % 256, RELEASE, e.code \div 256>>
    BY <2>3, BytesByType, Zenon
  <2> DEFINE lo == e.code % 256
             hi == e.code \div 256
  <2> HIDE DEF lo, hi
  <2>5. CASE Bytes(e) = <<WIDE, lo, hi>>
    BY <1>1, <2>1, <2>5, Tuples DEF lo, hi
  <2>6. CASE Bytes(e) = <<WIDE, RELEASE, lo, RELEASE, hi>>
    BY <1>1, <2>1, <2>6, FiveTuple DEF lo, hi
  <2> QED BY <2>4, <2>5, <2>6 DEF lo, hi
<1> QED BY <1>2, <1>3

-----------------------------------------------------------------------------
(* The bytes of a sequence of events.  The recursive definition has one    *)
(* solution; more events have more bytes, at either end.                   *)
IsBytes(f, s) ==
  /\ f \in [0 .. Len(s) -> Seq(KeyBytes)]
  /\ f[0] = <<>>
  /\ \A n \in 1 .. Len(s) : f[n] = f[n - 1] \o Bytes(s[n])

LEMMA BytesAreUnique ==
  ASSUME NEW s \in Seq(Events), NEW f, IsBytes(f, s)
  PROVE  AllBytes(s) = f[Len(s)]
<1> DEFINE Body(t) == [n \in 0 .. Len(s) |-> IF n = 0 THEN <<>> ELSE t[n - 1] \o Bytes(s[n])]
           g == CHOOSE t : t = Body(t)
<1>1. Len(s) \in Nat
  OBVIOUS
<1>2. f = Body(f)
  <2>1. ASSUME NEW n \in 0 .. Len(s) PROVE f[n] = Body(f)[n]
    <3>1. CASE n = 0
      BY <3>1 DEF IsBytes
    <3>2. CASE n # 0
      <4>1. n \in 1 .. Len(s)
        BY <1>1, <3>2
      <4> QED BY <3>2, <4>1 DEF IsBytes
    <3> QED BY <3>1, <3>2
  <2>2. f = [n \in 0 .. Len(s) |-> f[n]]
    BY DEF IsBytes
  <2> QED BY <2>1, <2>2
<1>3. AllBytes(s) = g[Len(s)]
  BY DEF AllBytes
<1>4. g = Body(g)
  <2> HIDE DEF Body
  <2> QED BY <1>2
<1> HIDE DEF g
<1> DEFINE T == {n \in 0 .. Len(s) : g[n] # f[n]}
<1>5. T = {}
  <2> SUFFICES ASSUME T # {} PROVE FALSE
    OBVIOUS
  <2>1. PICK n \in T : \A j \in T : n <= j
    <3>1. T \subseteq Nat
      BY <1>1
    <3> HIDE DEF T
    <3> QED BY <3>1, Least
  <2>2. n # 0
    BY <1>2, <1>4, <2>1
  <2>3. n - 1 \in 0 .. Len(s) /\ n - 1 \notin T
    BY <1>1, <2>1, <2>2
  <2>4. g[n - 1] = f[n - 1]
    BY <2>3
  <2>5. g[n] = g[n - 1] \o Bytes(s[n]) /\ f[n] = f[n - 1] \o Bytes(s[n])
    BY <1>2, <1>4, <2>1, <2>2
  <2> QED BY <2>1, <2>4, <2>5
<1>6. Len(s) \in 0 .. Len(s) /\ Len(s) \notin T
  BY <1>1, <1>5
<1> QED BY <1>3, <1>6

LEMMA MoreBytes ==
  ASSUME NEW s \in Seq(Events), NEW f, IsBytes(f, s), NEW e \in Events
  PROVE  \E g : IsBytes(g, Append(s, e)) /\ g[Len(s) + 1] = f[Len(s)] \o Bytes(e)
<1> DEFINE n == Len(s)
           t == Append(s, e)
           g == [k \in 0 .. n + 1 |-> IF k <= n THEN f[k] ELSE f[n] \o Bytes(e)]
<1>1. n \in Nat /\ Len(t) = n + 1 /\ t[n + 1] = e /\ \A k \in 1 .. n : t[k] = s[k]
  BY AppendProperties
<1>2. f[n] \o Bytes(e) \in Seq(KeyBytes)
  <2>1. f[n] \in Seq(KeyBytes)
    BY <1>1 DEF IsBytes
  <2> QED BY <2>1, BytesInSeq, ConcatProperties
<1>3. g \in [0 .. n + 1 -> Seq(KeyBytes)]
  BY <1>1, <1>2 DEF IsBytes
<1>4. g[0] = <<>>
  BY <1>1 DEF IsBytes
<1>5. ASSUME NEW k \in 1 .. n + 1 PROVE g[k] = g[k - 1] \o Bytes(t[k])
  <2>1. CASE k <= n
    <3>1. k \in 1 .. n /\ k - 1 <= n /\ k - 1 \in 0 .. n + 1
      BY <1>1, <2>1
    <3>2. g[k] = f[k] /\ g[k - 1] = f[k - 1] /\ t[k] = s[k]
      BY <1>1, <3>1
    <3> QED BY <3>1, <3>2 DEF IsBytes
  <2>2. CASE k = n + 1
    <3>1. g[k] = f[n] \o Bytes(e) /\ g[k - 1] = f[n] /\ t[k] = e
      BY <1>1, <2>2
    <3> QED BY <3>1
  <2>3. k <= n \/ k = n + 1
    BY <1>1
  <2> HIDE DEF g, t, n
  <2> QED BY <2>1, <2>2, <2>3
<1>6. g[n + 1] = f[n] \o Bytes(e)
  BY <1>1
<1>7. IsBytes(g, t)
  <2> HIDE DEF g, t
  <2>1. Len(t) = n + 1
    BY <1>1
  <2> HIDE DEF n
  <2> QED BY <1>3, <1>4, <1>5, <2>1 DEF IsBytes
<1> QED BY <1>6, <1>7

LEMMA BytesExist ==
  ASSUME NEW s \in Seq(Events)
  PROVE  \E f : IsBytes(f, s)
<1> DEFINE T == {n \in Nat : \E t \in Seq(Events) : Len(t) = n /\ ~ \E f : IsBytes(f, t)}
<1>1. T = {}
  <2> SUFFICES ASSUME T # {} PROVE FALSE
    OBVIOUS
  <2>1. PICK n \in T : \A j \in T : n <= j
    <3>1. T \subseteq Nat
      OBVIOUS
    <3> HIDE DEF T
    <3> QED BY <3>1, Least
  <2>2. PICK t \in Seq(Events) : Len(t) = n /\ ~ \E f : IsBytes(f, t)
    BY <2>1
  <2>3. CASE t = <<>>
    <3> DEFINE f == [k \in 0 .. 0 |-> <<>>]
    <3>1. <<>> \in Seq(KeyBytes) /\ Len(t) = 0
      BY <2>3
    <3>2. f \in [0 .. 0 -> Seq(KeyBytes)] /\ f[0] = <<>>
      BY <3>1
    <3>3. IsBytes(f, t)
      <4> HIDE DEF f
      <4> QED BY <3>1, <3>2 DEF IsBytes
    <3> QED BY <2>2, <3>3
  <2>4. CASE t # <<>>
    <3>1. PICK u \in Seq(Events), e \in Events : t = Append(u, e)
      BY <2>4, SequenceEmptyOrAppend
    <3>2. Len(u) \in Nat /\ Len(u) < n
      BY <2>2, <3>1, AppendProperties
    <3>3. Len(u) \notin T
      BY <2>1, <3>2
    <3>4. PICK f : IsBytes(f, u)
      BY <3>2, <3>3
    <3>5. \E g : IsBytes(g, Append(u, e))
      BY <3>4, MoreBytes
    <3> QED BY <2>2, <3>1, <3>5
  <2> QED BY <2>3, <2>4
<1>2. Len(s) \in Nat
  OBVIOUS
<1>3. Len(s) \notin T
  BY <1>1
<1> QED BY <1>2, <1>3

LEMMA AllBytesType == ASSUME NEW s \in Seq(Events) PROVE AllBytes(s) \in Seq(KeyBytes)
<1>1. PICK f : IsBytes(f, s)
  BY BytesExist
<1>2. f[Len(s)] \in Seq(KeyBytes)
  BY <1>1 DEF IsBytes
<1> QED BY <1>1, <1>2, BytesAreUnique

LEMMA AllBytesOfNone == AllBytes(<<>>) = <<>>
<1>1. <<>> \in Seq(Events) /\ Len(<<>>) = 0
  OBVIOUS
<1>2. PICK f : IsBytes(f, <<>>)
  BY <1>1, BytesExist
<1>3. f[0] = <<>>
  BY <1>2 DEF IsBytes
<1> QED BY <1>1, <1>2, <1>3, BytesAreUnique

LEMMA AllBytesAppend ==
  ASSUME NEW s \in Seq(Events), NEW e \in Events
  PROVE  AllBytes(Append(s, e)) = AllBytes(s) \o Bytes(e)
<1>1. PICK f : IsBytes(f, s)
  BY BytesExist
<1>2. PICK g : IsBytes(g, Append(s, e)) /\ g[Len(s) + 1] = f[Len(s)] \o Bytes(e)
  BY <1>1, MoreBytes
<1>3. Append(s, e) \in Seq(Events) /\ Len(Append(s, e)) = Len(s) + 1
  BY AppendProperties
<1>4. AllBytes(Append(s, e)) = g[Len(s) + 1]
  BY <1>2, <1>3, BytesAreUnique
<1>5. AllBytes(s) = f[Len(s)]
  BY <1>1, BytesAreUnique
<1> QED BY <1>2, <1>4, <1>5

LEMMA Associates ==
  ASSUME NEW S, NEW a \in Seq(S), NEW b \in Seq(S), NEW c \in Seq(S)
  PROVE  (a \o b) \o c = a \o (b \o c)
BY ConcatAssociative

LEMMA AllBytesFirst ==
  ASSUME NEW s \in Seq(Events), s # <<>>
  PROVE  AllBytes(s) = Bytes(Head(s)) \o AllBytes(Tail(s))
<1> DEFINE Ok(t) == AllBytes(t) = Bytes(Head(t)) \o AllBytes(Tail(t))
           T == {n \in Nat : \E t \in Seq(Events) : Len(t) = n /\ t # <<>> /\ ~Ok(t)}
<1>1. T = {}
  <2> SUFFICES ASSUME T # {} PROVE FALSE
    OBVIOUS
  <2>1. PICK n \in T : \A j \in T : n <= j
    <3>1. T \subseteq Nat
      OBVIOUS
    <3> HIDE DEF T
    <3> QED BY <3>1, Least
  <2>2. PICK t \in Seq(Events) : Len(t) = n /\ t # <<>> /\ ~Ok(t)
    BY <2>1
  <2>3. PICK u \in Seq(Events), e \in Events : t = Append(u, e)
    BY <2>2, SequenceEmptyOrAppend
  <2>4. AllBytes(t) = AllBytes(u) \o Bytes(e)
    BY <2>3, AllBytesAppend
  <2>5. CASE u = <<>>
    <3>1. Head(t) = e /\ Tail(t) = <<>>
      BY <2>3, <2>5, HeadTailAppend
    <3>2. AllBytes(t) = Bytes(e) /\ Bytes(e) \o AllBytes(<<>>) = Bytes(e)
      BY <2>4, <2>5, AllBytesOfNone, BytesInSeq, ConcatEmptySeq
    <3> QED BY <2>2, <3>1, <3>2
  <2>6. CASE u # <<>>
    <3>1. Head(t) = Head(u) /\ Tail(t) = Append(Tail(u), e)
      BY <2>3, <2>6, HeadTailAppend
    <3>2. Head(u) \in Events /\ Tail(u) \in Seq(Events)
      BY <2>6, HeadTailProperties
    <3>3. Len(u) \in Nat /\ Len(u) < n
      BY <2>2, <2>3, AppendProperties
    <3>4. Len(u) \notin T
      BY <2>1, <3>3
    <3>5. Ok(u)
      <4> HIDE DEF Ok
      <4> QED BY <2>6, <3>3, <3>4
    <3>6. AllBytes(t) = (Bytes(Head(u)) \o AllBytes(Tail(u))) \o Bytes(e)
      BY <2>4, <3>5
    <3>7. AllBytes(Tail(t)) = AllBytes(Tail(u)) \o Bytes(e)
      BY <3>1, <3>2, AllBytesAppend
    <3>8. (Bytes(Head(u)) \o AllBytes(Tail(u))) \o Bytes(e)
            = Bytes(Head(u)) \o (AllBytes(Tail(u)) \o Bytes(e))
      <4>1. AllBytes(Tail(u)) \in Seq(KeyBytes)
        BY <3>2, AllBytesType
      <4>2. Bytes(Head(u)) \in Seq(KeyBytes) /\ Bytes(e) \in Seq(KeyBytes)
        BY <3>2, BytesInSeq
      <4> DEFINE a == Bytes(Head(u))
                 b == AllBytes(Tail(u))
                 c == Bytes(e)
      <4> HIDE DEF a, b, c
      <4>3. a \in Seq(KeyBytes) /\ b \in Seq(KeyBytes) /\ c \in Seq(KeyBytes)
        BY <4>1, <4>2 DEF a, b, c
      <4>4. (a \o b) \o c = a \o (b \o c)
        <5> HIDE DEF T, Ok
        <5> QED BY <4>3, Associates
      <4> QED BY <4>4 DEF a, b, c
    <3> QED BY <2>2, <3>1, <3>6, <3>7, <3>8
  <2> QED BY <2>5, <2>6
<1>2. Len(s) \in Nat
  OBVIOUS
<1>3. Len(s) \notin T
  BY <1>1
<1>4. Ok(s)
  <2> HIDE DEF Ok
  <2> QED BY <1>2, <1>3
<1> QED BY <1>4
-----------------------------------------------------------------------------
(* Where ps2_read is in the bytes of an event: t has been read, b is next. *)
Octets == 0 .. 255
Within(t, b, q, e, r) ==
  /\ t \in Seq(Octets) /\ b \in Octets /\ q \in Seq(Octets) /\ r \in Seq(Octets)
  /\ t \o (<<b>> \o q) = Bytes(e) \o r

Agrees(t, b, q, w, r) ==
  /\ \A i \in 1 .. Len(t) : i <= Len(w) => w[i] = t[i]
  /\ Len(t) < Len(w) => w[Len(t) + 1] = b
  /\ Len(w) = Len(t) + 1 => q = r

LEMMA BytesAreOctets ==
  ASSUME NEW e \in Events
  PROVE  Bytes(e) \in Seq(Octets) /\ Len(Bytes(e)) \in Nat \ {0}
<1>1. Bytes(e) \in Seq(KeyBytes) /\ Len(Bytes(e)) \in Nat \ {0}
  BY BytesInSeq
<1>2. KeyBytes \subseteq Octets
  BY KeyBytesAreBytes DEF Octets
<1> QED BY <1>1, <1>2, SeqMonotonic

LEMMA Matches ==
  ASSUME NEW t, NEW b, NEW q, NEW e \in Events, NEW r, Within(t, b, q, e, r)
  PROVE  Agrees(t, b, q, Bytes(e), r)
<1> DEFINE w == Bytes(e)
           u == <<b>> \o q
<1>1. w \in Seq(Octets) /\ Len(w) \in Nat \ {0}
  BY BytesAreOctets
<1>2. /\ t \in Seq(Octets) /\ b \in Octets /\ q \in Seq(Octets) /\ r \in Seq(Octets)
      /\ t \o u = w \o r
  BY DEF Within
<1>3. <<b>> \in Seq(Octets) /\ Len(<<b>>) = 1 /\ <<b>>[1] = b
  BY <1>2
<1>4. /\ u \in Seq(Octets) /\ Len(u) = 1 + Len(q)
      /\ \A i \in 1 .. 1 + Len(q) : u[i] = IF i <= 1 THEN b ELSE q[i - 1]
  <2>1. \A i \in 1 .. 1 : <<b>>[i] = b
    BY <1>3
  <2> QED BY <1>2, <1>3, <2>1, ConcatProperties
<1>5. Len(t) \in Nat /\ Len(q) \in Nat /\ Len(r) \in Nat
  BY <1>2
<1> HIDE DEF u, w
<1>6. /\ Len(t \o u) = Len(t) + 1 + Len(q)
      /\ \A i \in 1 .. Len(t) + (1 + Len(q)) : (t \o u)[i] =
           IF i <= Len(t) THEN t[i] ELSE u[i - Len(t)]
  <2>1. /\ Len(t \o u) = Len(t) + Len(u)
        /\ \A i \in 1 .. Len(t) + Len(u) : (t \o u)[i] =
             IF i <= Len(t) THEN t[i] ELSE u[i - Len(t)]
    BY <1>2, <1>4, ConcatProperties
  <2>2. Len(u) = 1 + Len(q)
    BY <1>4
  <2> QED BY <1>5, <2>1, <2>2
<1>7. /\ Len(w \o r) = Len(w) + Len(r)
      /\ \A i \in 1 .. Len(w) + Len(r) : (w \o r)[i] =
           IF i <= Len(w) THEN w[i] ELSE r[i - Len(w)]
  BY <1>1, <1>2, ConcatProperties
<1>8. Len(t) + 1 + Len(q) = Len(w) + Len(r)
  BY <1>2, <1>6, <1>7
<1>9. ASSUME NEW i \in 1 .. Len(t), i <= Len(w) PROVE w[i] = t[i]
  <2>1. i \in 1 .. Len(t) + (1 + Len(q)) /\ i \in 1 .. Len(w) + Len(r) /\ i <= Len(t)
    BY <1>1, <1>5, <1>9
  <2>2. (t \o u)[i] = t[i] /\ (w \o r)[i] = w[i]
    BY <1>6, <1>7, <1>9, <2>1
  <2> QED BY <1>2, <2>2
<1>10. ASSUME Len(t) < Len(w) PROVE w[Len(t) + 1] = b
  <2> DEFINE i == Len(t) + 1
  <2>1. i \in 1 .. Len(t) + (1 + Len(q)) /\ i \in 1 .. Len(w) + Len(r) /\ i <= Len(w)
        /\ ~(i <= Len(t)) /\ i - Len(t) = 1
    BY <1>1, <1>5, <1>10
  <2>2. u[1] = b
    BY <1>4, <1>5
  <2>3. (t \o u)[i] = u[i - Len(t)] /\ (w \o r)[i] = w[i]
    <3> HIDE DEF i
    <3> QED BY <1>6, <1>7, <2>1
  <2> QED BY <1>2, <2>1, <2>2, <2>3
<1>11. ASSUME Len(w) = Len(t) + 1 PROVE q = r
  <2>1. Len(q) = Len(r)
    BY <1>1, <1>5, <1>8, <1>11
  <2>2. ASSUME NEW k \in 1 .. Len(q) PROVE q[k] = r[k]
    <3> DEFINE i == Len(t) + 1 + k
    <3>1. /\ i \in 1 .. Len(t) + (1 + Len(q)) /\ i \in 1 .. Len(w) + Len(r)
          /\ ~(i <= Len(t)) /\ ~(i <= Len(w)) /\ i - Len(t) = k + 1 /\ i - Len(w) = k
          /\ k + 1 \in 1 .. 1 + Len(q) /\ ~(k + 1 <= 1) /\ (k + 1) - 1 = k
      BY <1>1, <1>5, <1>8, <1>11, <2>1
    <3>2. (t \o u)[i] = u[i - Len(t)] /\ (w \o r)[i] = r[i - Len(w)]
      <4> HIDE DEF i
      <4> QED BY <1>6, <1>7, <3>1
    <3>3. u[k + 1] = q[k]
      BY <1>4, <3>1
    <3> HIDE DEF i
    <3> QED BY <1>2, <3>1, <3>2, <3>3
  <2> QED BY <1>2, <2>1, <2>2, SeqEqual
<1> QED BY <1>9, <1>10, <1>11 DEF w, Agrees

(* What the next byte can be, and what the key is when it is the last.     *)
LEMMA FirstByte ==
  ASSUME NEW b, NEW q, NEW e \in Events, NEW r, Within(<<>>, b, q, e, r)
  PROVE  \/ b \in {EXT, WIDE, RELEASE}
         \/ /\ b \notin {EXT, WIDE, RELEASE} /\ q = r
            /\ e = [type |-> IF b >= 128 THEN {} ELSE {"normal"}, code |-> b]
<1>1. /\ 0 < Len(Bytes(e)) => Bytes(e)[1] = b
      /\ Len(Bytes(e)) = 1 => q = r
  <2>1. PICK t : t = <<>> /\ Within(t, b, q, e, r)
    OBVIOUS
  <2>2. Len(t) = 0 /\ Len(t) + 1 = 1
    BY <2>1
  <2>3. Agrees(t, b, q, Bytes(e), r)
    BY <2>1, Matches, Zenon
  <2> QED BY <2>2, <2>3 DEF Agrees
<1>2. e = [type |-> e.type, code |-> e.code] /\ e.code \in Nat
  BY CodeFacts
<1>3. CASE (e.type = {"normal"} \/ e.type = {}) /\ Bytes(e) = <<e.code>>
  <2>1. b = e.code /\ q = r
    BY <1>1, <1>3
  <2>2. "wide" \notin e.type
    BY <1>3
  <2>3. e.code \notin {EXT, WIDE, RELEASE}
    BY <2>2, CodeFacts
  <2>4. e.type = IF b >= 128 THEN {} ELSE {"normal"}
    <3>1. /\ e.type = {"normal"} => e.code < 128
          /\ e.type = {} => e.code >= 128
      BY EventsAssumption, Zenon
    <3>2. CASE e.type = {"normal"}
      BY <1>2, <2>1, <3>1, <3>2
    <3>3. CASE e.type = {}
      BY <1>2, <2>1, <3>1, <3>3
    <3> QED BY <1>3, <3>2, <3>3
  <2> QED BY <1>2, <2>1, <2>3, <2>4
<1>4. CASE \/ Bytes(e) = <<RELEASE, e.code>> \/ Bytes(e) = <<EXT, e.code>>
           \/ Bytes(e) = <<EXT, RELEASE, e.code>>
  BY <1>1, <1>4
<1>5. CASE \/ Bytes(e) = <<WIDE, e.code % 256, e.code \div 256>>
           \/ Bytes(e) = <<WIDE, RELEASE, e.code % 256, RELEASE, e.code \div 256>>
  <2>1. 0 < Len(Bytes(e)) /\ Bytes(e)[1] = WIDE
    BY <1>5
  <2> QED BY <1>1, <2>1
<1> QED BY <1>3, <1>4, <1>5, BytesByType, Zenon

LEMMA BreakByte ==
  ASSUME NEW b, NEW q, NEW e \in Events, NEW r, Within(<<RELEASE>>, b, q, e, r)
  PROVE  e = [type |-> {"break"}, code |-> b] /\ q = r
<1>1. /\ 1 <= Len(Bytes(e)) => Bytes(e)[1] = RELEASE
      /\ 1 < Len(Bytes(e)) => Bytes(e)[2] = b
      /\ Len(Bytes(e)) = 2 => q = r
  <2>1. PICK t : t = <<RELEASE>> /\ Within(t, b, q, e, r)
    OBVIOUS
  <2>2. Len(t) = 1 /\ Len(t) + 1 = 2 /\ t[1] = RELEASE
    BY <2>1
  <2>3. Agrees(t, b, q, Bytes(e), r)
    BY <2>1, Matches, Zenon
  <2> QED BY <2>2, <2>3 DEF Agrees
<1>2. e = [type |-> e.type, code |-> e.code]
  BY CodeFacts
<1>3. CASE (e.type = {"normal"} \/ e.type = {}) /\ Bytes(e) = <<e.code>>
  <2>1. "wide" \notin e.type
    BY <1>3
  <2>2. e.code # RELEASE
    BY <2>1, CodeFacts
  <2> QED BY <1>1, <1>3, <2>2
<1>4. CASE e.type = {"break"} /\ Bytes(e) = <<RELEASE, e.code>>
  BY <1>1, <1>2, <1>4
<1>5. CASE \/ Bytes(e) = <<EXT, e.code>> \/ Bytes(e) = <<EXT, RELEASE, e.code>>
           \/ Bytes(e) = <<WIDE, e.code % 256, e.code \div 256>>
           \/ Bytes(e) = <<WIDE, RELEASE, e.code % 256, RELEASE, e.code \div 256>>
  <2>1. RELEASE # EXT /\ RELEASE # WIDE
    BY DEF EXT, WIDE, RELEASE
  <2>2. 1 <= Len(Bytes(e)) /\ Bytes(e)[1] # RELEASE
    BY <1>5, <2>1
  <2> QED BY <1>1, <2>2
<1> QED BY <1>3, <1>4, <1>5, BytesByType, Zenon

LEMMA ExtendedByte ==
  ASSUME NEW b, NEW q, NEW e \in Events, NEW r, Within(<<EXT>>, b, q, e, r)
  PROVE  \/ b = RELEASE
         \/ b # RELEASE /\ e = [type |-> {"extended"}, code |-> b] /\ q = r
<1>1. /\ 1 <= Len(Bytes(e)) => Bytes(e)[1] = EXT
      /\ 1 < Len(Bytes(e)) => Bytes(e)[2] = b
      /\ Len(Bytes(e)) = 2 => q = r
  <2>1. PICK t : t = <<EXT>> /\ Within(t, b, q, e, r)
    OBVIOUS
  <2>2. Len(t) = 1 /\ Len(t) + 1 = 2 /\ t[1] = EXT
    BY <2>1
  <2>3. Agrees(t, b, q, Bytes(e), r)
    BY <2>1, Matches, Zenon
  <2> QED BY <2>2, <2>3 DEF Agrees
<1>2. e = [type |-> e.type, code |-> e.code]
  BY CodeFacts
<1>3. CASE (e.type = {"normal"} \/ e.type = {}) /\ Bytes(e) = <<e.code>>
  <2>1. "wide" \notin e.type
    BY <1>3
  <2>2. e.code # EXT /\ e.code # WIDE
    BY <2>1, CodeFacts
  <2> QED BY <1>1, <1>3, <2>2
<1>4. CASE e.type = {"extended"} /\ Bytes(e) = <<EXT, e.code>>
  <2>1. "wide" \notin e.type
    BY <1>4
  <2>2. e.code # RELEASE
    BY <2>1, CodeFacts
  <2> QED BY <1>1, <1>2, <1>4, <2>2
<1>5. CASE Bytes(e) = <<EXT, RELEASE, e.code>>
  BY <1>1, <1>5
<1>6. CASE \/ Bytes(e) = <<RELEASE, e.code>>
           \/ Bytes(e) = <<WIDE, e.code % 256, e.code \div 256>>
           \/ Bytes(e) = <<WIDE, RELEASE, e.code % 256, RELEASE, e.code \div 256>>
  <2>1. EXT # RELEASE /\ EXT # WIDE
    BY DEF EXT, WIDE, RELEASE
  <2>2. 1 <= Len(Bytes(e)) /\ Bytes(e)[1] # EXT
    BY <1>6, <2>1
  <2> QED BY <1>1, <2>2
<1> QED BY <1>3, <1>4, <1>5, <1>6, BytesByType, Zenon

LEMMA ExtendedBreakByte ==
  ASSUME NEW b, NEW q, NEW e \in Events, NEW r, Within(<<EXT, RELEASE>>, b, q, e, r)
  PROVE  e = [type |-> {"break", "extended"}, code |-> b] /\ q = r
<1>1. /\ 1 <= Len(Bytes(e)) => Bytes(e)[1] = EXT
      /\ 2 <= Len(Bytes(e)) => Bytes(e)[2] = RELEASE
      /\ 2 < Len(Bytes(e)) => Bytes(e)[3] = b
      /\ Len(Bytes(e)) = 3 => q = r
  <2>1. PICK t : t = <<EXT, RELEASE>> /\ Within(t, b, q, e, r)
    OBVIOUS
  <2>2. Len(t) = 2 /\ Len(t) + 1 = 3 /\ t[1] = EXT /\ t[2] = RELEASE
    BY <2>1
  <2>3. Agrees(t, b, q, Bytes(e), r)
    BY <2>1, Matches, Zenon
  <2> QED BY <2>2, <2>3 DEF Agrees
<1>2. e = [type |-> e.type, code |-> e.code]
  BY CodeFacts
<1>3. CASE (e.type = {"normal"} \/ e.type = {}) /\ Bytes(e) = <<e.code>>
  <2>1. "wide" \notin e.type
    BY <1>3
  <2>2. e.code # EXT /\ e.code # WIDE
    BY <2>1, CodeFacts
  <2> QED BY <1>1, <1>3, <2>2
<1>4. CASE e.type = {"extended"} /\ Bytes(e) = <<EXT, e.code>>
  <2>1. "wide" \notin e.type
    BY <1>4
  <2>2. e.code # RELEASE
    BY <2>1, CodeFacts
  <2> QED BY <1>1, <1>4, <2>2
<1>5. CASE e.type = {"break", "extended"} /\ Bytes(e) = <<EXT, RELEASE, e.code>>
  BY <1>1, <1>2, <1>5
<1>6. CASE \/ Bytes(e) = <<RELEASE, e.code>>
           \/ Bytes(e) = <<WIDE, e.code % 256, e.code \div 256>>
           \/ Bytes(e) = <<WIDE, RELEASE, e.code % 256, RELEASE, e.code \div 256>>
  <2>1. EXT # RELEASE /\ EXT # WIDE
    BY DEF EXT, WIDE, RELEASE
  <2>2. 1 <= Len(Bytes(e)) /\ Bytes(e)[1] # EXT
    BY <1>6, <2>1
  <2> QED BY <1>1, <2>2
<1>7. \/ (e.type = {"normal"} \/ e.type = {}) /\ Bytes(e) = <<e.code>>
      \/ e.type = {"extended"} /\ Bytes(e) = <<EXT, e.code>>
      \/ e.type = {"break", "extended"} /\ Bytes(e) = <<EXT, RELEASE, e.code>>
      \/ Bytes(e) = <<RELEASE, e.code>>
      \/ e.type = {"wide"} /\ Bytes(e) = <<WIDE, e.code % 256, e.code \div 256>>
      \/ /\ e.type = {"break", "wide"}
         /\ Bytes(e) = <<WIDE, RELEASE, e.code % 256, RELEASE, e.code \div 256>>
  BY BytesByType, Zenon
<1> QED BY <1>3, <1>4, <1>5, <1>6, <1>7, Zenon

LEMMA WideHighByte ==
  ASSUME NEW c, c # RELEASE, NEW b, NEW q, NEW e \in Events, NEW r, Within(<<WIDE, c>>, b, q, e, r)
  PROVE  e = [type |-> {"wide"}, code |-> Word(c, b)] /\ q = r
<1>1. /\ 1 <= Len(Bytes(e)) => Bytes(e)[1] = WIDE
      /\ 2 <= Len(Bytes(e)) => Bytes(e)[2] = c
      /\ 2 < Len(Bytes(e)) => Bytes(e)[3] = b
      /\ Len(Bytes(e)) = 3 => q = r
  <2>1. PICK t : t = <<WIDE, c>> /\ Within(t, b, q, e, r)
    OBVIOUS
  <2>2. Len(t) = 2 /\ Len(t) + 1 = 3 /\ t[1] = WIDE /\ t[2] = c
    BY <2>1
  <2>3. Agrees(t, b, q, Bytes(e), r)
    BY <2>1, Matches, Zenon
  <2> QED BY <2>2, <2>3 DEF Agrees
<1>2. e = [type |-> e.type, code |-> e.code]
  BY CodeFacts
<1>3. CASE (e.type = {"normal"} \/ e.type = {}) /\ Bytes(e) = <<e.code>>
  <2>1. "wide" \notin e.type
    BY <1>3
  <2>2. e.code # EXT /\ e.code # WIDE
    BY <2>1, CodeFacts
  <2> QED BY <1>1, <1>3, <2>2
<1>4. CASE e.type = {"wide"} /\ Bytes(e) = <<WIDE, e.code % 256, e.code \div 256>>
  <2>1. c = e.code % 256 /\ b = e.code \div 256 /\ q = r
    BY <1>1, <1>4
  <2>2. "wide" \in e.type
    BY <1>4
  <2>3. e.code = Word(e.code % 256, e.code \div 256)
    BY <2>2, CodeFacts
  <2>4. e.code = Word(c, b)
    BY <2>1, <2>3
  <2>5. e.type = {"wide"}
    BY <1>4
  <2> QED BY <1>2, <2>1, <2>4, <2>5, Zenon
<1>5. CASE Bytes(e) = <<WIDE, RELEASE, e.code % 256, RELEASE, e.code \div 256>>
  BY <1>1, <1>5
<1>6. CASE \/ Bytes(e) = <<RELEASE, e.code>>
           \/ Bytes(e) = <<EXT, e.code>>
           \/ Bytes(e) = <<EXT, RELEASE, e.code>>
  <2>1. WIDE # RELEASE /\ EXT # WIDE
    BY DEF EXT, WIDE, RELEASE
  <2>2. 1 <= Len(Bytes(e)) /\ Bytes(e)[1] # WIDE
    BY <1>6, <2>1
  <2> QED BY <1>1, <2>2
<1> QED BY <1>3, <1>4, <1>5, <1>6, BytesByType, Zenon

LEMMA WideBreakByte ==
  ASSUME NEW c, NEW b, NEW q, NEW e \in Events, NEW r, Within(<<WIDE, RELEASE, c>>, b, q, e, r)
  PROVE  b = RELEASE
<1>1. /\ 1 <= Len(Bytes(e)) => Bytes(e)[1] = WIDE
      /\ 2 <= Len(Bytes(e)) => Bytes(e)[2] = RELEASE
      /\ 3 <= Len(Bytes(e)) => Bytes(e)[3] = c
      /\ 3 < Len(Bytes(e)) => Bytes(e)[4] = b
      /\ Len(Bytes(e)) = 4 => q = r
  <2>1. PICK t : t = <<WIDE, RELEASE, c>> /\ Within(t, b, q, e, r)
    OBVIOUS
  <2>2. Len(t) = 3 /\ Len(t) + 1 = 4 /\ t[1] = WIDE /\ t[2] = RELEASE /\ t[3] = c
    BY <2>1
  <2>3. Agrees(t, b, q, Bytes(e), r)
    BY <2>1, Matches, Zenon
  <2> QED BY <2>2, <2>3 DEF Agrees
<1>3. CASE (e.type = {"normal"} \/ e.type = {}) /\ Bytes(e) = <<e.code>>
  <2>1. "wide" \notin e.type
    BY <1>3
  <2>2. e.code # EXT /\ e.code # WIDE
    BY <2>1, CodeFacts
  <2> QED BY <1>1, <1>3, <2>2
<1>4. CASE e.type = {"wide"} /\ Bytes(e) = <<WIDE, e.code % 256, e.code \div 256>>
  <2>1. "wide" \in e.type
    BY <1>4
  <2>2. e.code % 256 # RELEASE
    BY <2>1, CodeFacts
  <2> QED BY <1>1, <1>4, <2>2
<1>5. CASE Bytes(e) = <<WIDE, RELEASE, e.code % 256, RELEASE, e.code \div 256>>
  BY <1>1, <1>5
<1>6. CASE \/ Bytes(e) = <<RELEASE, e.code>>
           \/ Bytes(e) = <<EXT, e.code>>
           \/ Bytes(e) = <<EXT, RELEASE, e.code>>
  <2>1. WIDE # RELEASE /\ EXT # WIDE
    BY DEF EXT, WIDE, RELEASE
  <2>2. 1 <= Len(Bytes(e)) /\ Bytes(e)[1] # WIDE
    BY <1>6, <2>1
  <2> QED BY <1>1, <2>2
<1> QED BY <1>3, <1>4, <1>5, <1>6, BytesByType, Zenon

LEMMA WideBreakHighByte ==
  ASSUME NEW c, NEW b, NEW q, NEW e \in Events, NEW r,
         Within(<<WIDE, RELEASE, c, RELEASE>>, b, q, e, r)
  PROVE  e = [type |-> {"break", "wide"}, code |-> Word(c, b)] /\ q = r
<1>1. /\ 1 <= Len(Bytes(e)) => Bytes(e)[1] = WIDE
      /\ 2 <= Len(Bytes(e)) => Bytes(e)[2] = RELEASE
      /\ 3 <= Len(Bytes(e)) => Bytes(e)[3] = c
      /\ 4 <= Len(Bytes(e)) => Bytes(e)[4] = RELEASE
      /\ 4 < Len(Bytes(e)) => Bytes(e)[5] = b
      /\ Len(Bytes(e)) = 5 => q = r
  <2>1. PICK t : t = <<WIDE, RELEASE, c, RELEASE>> /\ Within(t, b, q, e, r)
    OBVIOUS
  <2>2. Len(t) = 4 /\ Len(t) + 1 = 5 /\ t[1] = WIDE /\ t[2] = RELEASE /\ t[3] = c /\ t[4] = RELEASE
    BY <2>1
  <2>3. Agrees(t, b, q, Bytes(e), r)
    BY <2>1, Matches, Zenon
  <2> QED BY <2>2, <2>3 DEF Agrees
<1>2. e = [type |-> e.type, code |-> e.code]
  BY CodeFacts
<1>3. CASE (e.type = {"normal"} \/ e.type = {}) /\ Bytes(e) = <<e.code>>
  <2>1. "wide" \notin e.type
    BY <1>3
  <2>2. e.code # EXT /\ e.code # WIDE
    BY <2>1, CodeFacts
  <2> QED BY <1>1, <1>3, <2>2
<1>4. CASE e.type = {"wide"} /\ Bytes(e) = <<WIDE, e.code % 256, e.code \div 256>>
  <2>1. "wide" \in e.type
    BY <1>4
  <2>2. e.code % 256 # RELEASE
    BY <2>1, CodeFacts
  <2> QED BY <1>1, <1>4, <2>2
<1>5. CASE e.type = {"break", "wide"} /\ Bytes(e) = <<WIDE, RELEASE, e.code % 256, RELEASE, e.code \div 256>>
  <2>1. c = e.code % 256 /\ b = e.code \div 256 /\ q = r
    BY <1>1, <1>5
  <2>2. "wide" \in e.type
    BY <1>5
  <2>3. e.code = Word(e.code % 256, e.code \div 256)
    BY <2>2, CodeFacts
  <2>4. e.code = Word(c, b)
    BY <2>1, <2>3
  <2>5. e.type = {"break", "wide"}
    BY <1>5
  <2> QED BY <1>2, <2>1, <2>4, <2>5, Zenon
<1>6. CASE \/ Bytes(e) = <<RELEASE, e.code>>
           \/ Bytes(e) = <<EXT, e.code>>
           \/ Bytes(e) = <<EXT, RELEASE, e.code>>
  <2>1. WIDE # RELEASE /\ EXT # WIDE
    BY DEF EXT, WIDE, RELEASE
  <2>2. 1 <= Len(Bytes(e)) /\ Bytes(e)[1] # WIDE
    BY <1>6, <2>1
  <2> QED BY <1>1, <2>2
<1>7. \/ (e.type = {"normal"} \/ e.type = {}) /\ Bytes(e) = <<e.code>>
      \/ e.type = {"extended"} /\ Bytes(e) = <<EXT, e.code>>
      \/ e.type = {"break", "extended"} /\ Bytes(e) = <<EXT, RELEASE, e.code>>
      \/ Bytes(e) = <<RELEASE, e.code>>
      \/ e.type = {"wide"} /\ Bytes(e) = <<WIDE, e.code % 256, e.code \div 256>>
      \/ /\ e.type = {"break", "wide"}
         /\ Bytes(e) = <<WIDE, RELEASE, e.code % 256, RELEASE, e.code \div 256>>
  BY BytesByType, Zenon
<1> QED BY <1>3, <1>4, <1>5, <1>6, <1>7, Zenon

-----------------------------------------------------------------------------
(* The characters of the events read.  Another event changes shift or adds *)
(* a character, and leaves the earlier ones as they are.                   *)
Scans == [type : SUBSET {"normal", "break", "extended", "wide"}, code : Nat]
Chars == BOOLEAN \X Keys

Typing(c, s, n) ==
  IF s[n].type = {"normal"} /\ s[n].code \in Keys THEN Append(c, <<Held(s, n), s[n].code>>) ELSE c

IsTyped(f, s) ==
  /\ f \in [0 .. Len(s) -> Seq(Chars)]
  /\ f[0] = <<>>
  /\ \A n \in 1 .. Len(s) : f[n] = Typing(f[n - 1], s, n)

LEMMA HeldIsBoolean == ASSUME NEW s, NEW n PROVE Held(s, n) \in BOOLEAN
BY DEF Held

LEMMA TypedIsUnique ==
  ASSUME NEW s \in Seq(Scans), NEW f, IsTyped(f, s)
  PROVE  TypedBy(s) = f[Len(s)]
<1> DEFINE Body(t) == [n \in 0 .. Len(s) |->
                         IF n = 0 THEN <<>>
                         ELSE IF s[n].type = {"normal"} /\ s[n].code \in Keys
                         THEN Append(t[n - 1], <<Held(s, n), s[n].code>>)
                         ELSE t[n - 1]]
           g == CHOOSE t : t = Body(t)
<1>1. Len(s) \in Nat
  OBVIOUS
<1>2. f = Body(f)
  <2>1. ASSUME NEW n \in 0 .. Len(s) PROVE f[n] = Body(f)[n]
    <3>1. CASE n = 0
      BY <3>1 DEF IsTyped
    <3>2. CASE n # 0
      <4>1. n \in 1 .. Len(s)
        BY <1>1, <3>2
      <4> QED BY <3>2, <4>1 DEF IsTyped, Typing
    <3> QED BY <3>1, <3>2
  <2>2. f = [n \in 0 .. Len(s) |-> f[n]]
    BY DEF IsTyped
  <2> QED BY <2>1, <2>2
<1>3. TypedBy(s) = g[Len(s)]
  BY DEF TypedBy
<1>4. g = Body(g)
  <2> HIDE DEF Body
  <2> QED BY <1>2
<1> HIDE DEF g
<1> DEFINE T == {n \in 0 .. Len(s) : g[n] # f[n]}
<1>5. T = {}
  <2> SUFFICES ASSUME T # {} PROVE FALSE
    OBVIOUS
  <2>1. PICK n \in T : \A j \in T : n <= j
    <3>1. T \subseteq Nat
      BY <1>1
    <3> HIDE DEF T
    <3> QED BY <3>1, Least
  <2>2. n # 0
    BY <1>2, <1>4, <2>1
  <2>3. n - 1 \in 0 .. Len(s) /\ n - 1 \notin T
    BY <1>1, <2>1, <2>2
  <2>4. g[n - 1] = f[n - 1]
    BY <2>3
  <2>5. g[n] = Typing(g[n - 1], s, n) /\ f[n] = Typing(f[n - 1], s, n)
    <3>1. g[n] = Body(g)[n] /\ f[n] = Body(f)[n] /\ n \in 0 .. Len(s)
      BY <1>2, <1>4, <2>1
    <3> QED BY <2>2, <3>1 DEF Typing
  <2> QED BY <2>1, <2>4, <2>5
<1>6. Len(s) \in 0 .. Len(s) /\ Len(s) \notin T
  BY <1>1, <1>5
<1> QED BY <1>3, <1>6

LEMMA HeldOfFirst ==
  ASSUME NEW s \in Seq(Scans), NEW e \in Scans, NEW n \in 0 .. Len(s)
  PROVE  Held(Append(s, e), n) = Held(s, n)
<1>1. Len(s) \in Nat /\ \A i \in 1 .. n : Append(s, e)[i] = s[i]
  BY AppendProperties
<1>2. \A i \in 1 .. n : \A j \in i + 1 .. n : j \in 1 .. n
  BY <1>1
<1> DEFINE t == Append(s, e)
<1> HIDE DEF t
<1>3. \A i \in 1 .. n : t[i] = s[i]
  BY <1>1 DEF t
<1>4. ASSUME Held(t, n) PROVE Held(s, n)
  BY <1>2, <1>3, <1>4, Zenon DEF Held
<1>5. ASSUME Held(s, n) PROVE Held(t, n)
  BY <1>2, <1>3, <1>5, Zenon DEF Held
<1> QED BY <1>4, <1>5, HeldIsBoolean DEF t

LEMMA HeldAfter ==
  ASSUME NEW s \in Seq(Scans), NEW e \in Scans
  PROVE  Held(Append(s, e), Len(s) + 1) =
           IF IsShiftKey(e) THEN e.type = {"normal"} ELSE Held(s, Len(s))
<1> DEFINE t == Append(s, e)
           n == Len(s)
<1>1. n \in Nat /\ t[n + 1] = e /\ \A i \in 1 .. n : t[i] = s[i]
  BY AppendProperties
<1> HIDE DEF t, n
<1>2. \A j : j \notin n + 1 + 1 .. n + 1
  BY <1>1
<1>3. ASSUME IsShiftKey(e) PROVE Held(t, n + 1) = (e.type = {"normal"})
  <2>1. ASSUME e.type = {"normal"} PROVE Held(t, n + 1)
    <3>1. n + 1 \in 1 .. n + 1
      BY <1>1
    <3> QED BY <1>1, <1>2, <1>3, <2>1, <3>1, Zenon DEF Held
  <2>2. ASSUME Held(t, n + 1) PROVE e.type = {"normal"}
    <3>1. PICK i \in 1 .. n + 1 : /\ IsShiftKey(t[i]) /\ t[i].type = {"normal"}
                                  /\ \A j \in i + 1 .. n + 1 : ~IsShiftKey(t[j])
      BY <2>2 DEF Held
    <3>2. i # n + 1 => n + 1 \in i + 1 .. n + 1
      BY <1>1
    <3> QED BY <1>1, <1>3, <3>1, <3>2
  <2>3. (e.type = {"normal"}) \in BOOLEAN
    OBVIOUS
  <2> QED BY <2>1, <2>2, <2>3, HeldIsBoolean
<1>4. ASSUME ~IsShiftKey(e) PROVE Held(t, n + 1) = Held(s, n)
  <2>1. ASSUME Held(t, n + 1) PROVE Held(s, n)
    <3>1. PICK i \in 1 .. n + 1 : /\ IsShiftKey(t[i]) /\ t[i].type = {"normal"}
                                  /\ \A j \in i + 1 .. n + 1 : ~IsShiftKey(t[j])
      BY <2>1 DEF Held
    <3>2. i \in 1 .. n
      <4>1. i # n + 1
        BY <1>1, <1>4, <3>1
      <4> QED BY <1>1, <4>1
    <3>3. \A j \in i + 1 .. n : j \in i + 1 .. n + 1 /\ j \in 1 .. n
      BY <1>1, <3>2
    <3> QED BY <1>1, <3>1, <3>2, <3>3, Zenon DEF Held
  <2>2. ASSUME Held(s, n) PROVE Held(t, n + 1)
    <3>1. PICK i \in 1 .. n : /\ IsShiftKey(s[i]) /\ s[i].type = {"normal"}
                              /\ \A j \in i + 1 .. n : ~IsShiftKey(s[j])
      BY <2>2 DEF Held
    <3>2. i \in 1 .. n + 1
      BY <1>1
    <3>3. ASSUME NEW j \in i + 1 .. n + 1 PROVE ~IsShiftKey(t[j])
      <4>1. j = n + 1 \/ (j \in i + 1 .. n /\ j \in 1 .. n)
        BY <1>1
      <4>2. CASE j = n + 1
        BY <1>1, <1>4, <4>2
      <4>3. CASE j \in i + 1 .. n /\ j \in 1 .. n
        BY <1>1, <3>1, <4>3, Zenon
      <4> QED BY <4>1, <4>2, <4>3
    <3>4. t[i] = s[i]
      BY <1>1
    <3> QED BY <3>1, <3>2, <3>3, <3>4, Zenon DEF Held
  <2> QED BY <2>1, <2>2, HeldIsBoolean
<1>5. Held(t, n + 1) = IF IsShiftKey(e) THEN e.type = {"normal"} ELSE Held(s, n)
  BY <1>3, <1>4
<1> QED BY <1>5 DEF t, n

LEMMA MoreTyped ==
  ASSUME NEW s \in Seq(Scans), NEW f, IsTyped(f, s), NEW e \in Scans
  PROVE  \E g : /\ IsTyped(g, Append(s, e))
                /\ g[Len(s) + 1] = Typing(f[Len(s)], Append(s, e), Len(s) + 1)
<1> DEFINE n == Len(s)
           t == Append(s, e)
           last == Typing(f[n], t, n + 1)
           g == [k \in 0 .. n + 1 |-> IF k <= n THEN f[k] ELSE last]
<1>1. n \in Nat /\ Len(t) = n + 1 /\ t[n + 1] = e /\ \A k \in 1 .. n : t[k] = s[k]
  BY AppendProperties
<1>2. last \in Seq(Chars)
  <2>1. f[n] \in Seq(Chars)
    BY <1>1 DEF IsTyped
  <2>2. Held(t, n + 1) \in BOOLEAN
    BY HeldIsBoolean
  <2>3. e.code \in Keys => <<Held(t, n + 1), e.code>> \in Chars
    BY <2>2 DEF Chars
  <2>4. last = f[n] \/ (e.code \in Keys /\ last = Append(f[n], <<Held(t, n + 1), e.code>>))
    <3>1. t[n + 1] = e
      BY <1>1
    <3> HIDE DEF t, n
    <3>2. last = IF e.type = {"normal"} /\ e.code \in Keys
                 THEN Append(f[n], <<Held(t, n + 1), e.code>>) ELSE f[n]
      BY <3>1 DEF Typing
    <3> HIDE DEF last
    <3> QED BY <3>2
  <2>5. ASSUME NEW c \in Chars PROVE Append(f[n], c) \in Seq(Chars)
    BY <2>1, AppendProperties
  <2> HIDE DEF last, t, n
  <2> QED BY <2>1, <2>3, <2>4, <2>5, Zenon
<1>3. g \in [0 .. n + 1 -> Seq(Chars)]
  <2>1. \A k \in 0 .. n : f[k] \in Seq(Chars)
    BY <1>1 DEF IsTyped
  <2> HIDE DEF last
  <2> QED BY <1>1, <1>2, <2>1
<1>4. g[0] = <<>>
  BY <1>1 DEF IsTyped
<1>5. ASSUME NEW k \in 1 .. n + 1 PROVE g[k] = Typing(g[k - 1], t, k)
  <2>1. CASE k <= n
    <3>1. k \in 1 .. n /\ k \in 0 .. n /\ k - 1 <= n /\ k - 1 \in 0 .. n + 1
      BY <1>1, <2>1
    <3>2. g[k] = f[k] /\ g[k - 1] = f[k - 1] /\ t[k] = s[k]
      BY <1>1, <3>1
    <3>3. f[k] = Typing(f[k - 1], s, k)
      BY <3>1 DEF IsTyped
    <3>4. Held(t, k) = Held(s, k)
      BY <3>1, HeldOfFirst
    <3> HIDE DEF g, t, n
    <3> QED BY <3>2, <3>3, <3>4 DEF Typing
  <2>2. CASE k = n + 1
    <3>1. g[k] = last /\ g[k - 1] = f[n]
      <4> HIDE DEF last
      <4> QED BY <1>1, <2>2
    <3> HIDE DEF g, t, n
    <3> QED BY <2>2, <3>1 DEF last
  <2>3. k <= n \/ k = n + 1
    BY <1>1
  <2> QED BY <2>1, <2>2, <2>3
<1>6. g[n + 1] = last
  <2> HIDE DEF last
  <2> QED BY <1>1
<1>7. IsTyped(g, t)
  <2> HIDE DEF g, t
  <2>1. Len(t) = n + 1
    BY <1>1
  <2> HIDE DEF n
  <2> QED BY <1>3, <1>4, <1>5, <2>1 DEF IsTyped
<1> QED BY <1>6, <1>7

LEMMA TypedExists ==
  ASSUME NEW s \in Seq(Scans)
  PROVE  \E f : IsTyped(f, s)
<1> DEFINE T == {n \in Nat : \E t \in Seq(Scans) : Len(t) = n /\ ~ \E f : IsTyped(f, t)}
<1>1. T = {}
  <2> SUFFICES ASSUME T # {} PROVE FALSE
    OBVIOUS
  <2>1. PICK n \in T : \A j \in T : n <= j
    <3>1. T \subseteq Nat
      OBVIOUS
    <3> HIDE DEF T
    <3> QED BY <3>1, Least
  <2>2. PICK t \in Seq(Scans) : Len(t) = n /\ ~ \E f : IsTyped(f, t)
    BY <2>1
  <2>3. CASE t = <<>>
    <3> DEFINE f == [k \in 0 .. 0 |-> <<>>]
    <3>1. <<>> \in Seq(Chars) /\ Len(t) = 0
      BY <2>3
    <3>2. f \in [0 .. 0 -> Seq(Chars)] /\ f[0] = <<>>
      BY <3>1
    <3>3. IsTyped(f, t)
      <4> HIDE DEF f
      <4> QED BY <3>1, <3>2 DEF IsTyped
    <3> QED BY <2>2, <3>3
  <2>4. CASE t # <<>>
    <3>1. PICK u \in Seq(Scans), e \in Scans : t = Append(u, e)
      BY <2>4, SequenceEmptyOrAppend
    <3>2. Len(u) \in Nat /\ Len(u) < n
      BY <2>2, <3>1, AppendProperties
    <3>3. Len(u) \notin T
      BY <2>1, <3>2
    <3>4. PICK f : IsTyped(f, u)
      BY <3>2, <3>3
    <3>5. \E g : IsTyped(g, Append(u, e))
      BY <3>4, MoreTyped
    <3> QED BY <2>2, <3>1, <3>5
  <2> QED BY <2>3, <2>4
<1>2. Len(s) \in Nat
  OBVIOUS
<1>3. Len(s) \notin T
  BY <1>1
<1> QED BY <1>2, <1>3

LEMMA TypedOfNone == TypedBy(<<>>) = <<>>
<1>1. <<>> \in Seq(Scans) /\ Len(<<>>) = 0
  OBVIOUS
<1>2. PICK f : IsTyped(f, <<>>)
  BY <1>1, TypedExists
<1>3. f[0] = <<>>
  BY <1>2 DEF IsTyped
<1> QED BY <1>1, <1>2, <1>3, TypedIsUnique

LEMMA TypedByAppend ==
  ASSUME NEW s \in Seq(Scans), NEW e \in Scans
  PROVE  TypedBy(Append(s, e)) =
           IF e.type = {"normal"} /\ e.code \in Keys
           THEN Append(TypedBy(s), <<Held(Append(s, e), Len(s) + 1), e.code>>)
           ELSE TypedBy(s)
<1>1. PICK f : IsTyped(f, s)
  BY TypedExists
<1>2. PICK g : /\ IsTyped(g, Append(s, e))
               /\ g[Len(s) + 1] = Typing(f[Len(s)], Append(s, e), Len(s) + 1)
  BY <1>1, MoreTyped
<1>3. /\ Append(s, e) \in Seq(Scans) /\ Len(Append(s, e)) = Len(s) + 1
      /\ Append(s, e)[Len(s) + 1] = e
  BY AppendProperties
<1>4. TypedBy(Append(s, e)) = g[Len(s) + 1]
  BY <1>2, <1>3, TypedIsUnique
<1>5. TypedBy(s) = f[Len(s)]
  BY <1>1, TypedIsUnique
<1> DEFINE t == Append(s, e)
           n == Len(s)
<1> HIDE DEF t, n
<1>6. TypedBy(t) = Typing(TypedBy(s), t, n + 1) /\ t[n + 1] = e
  BY <1>2, <1>3, <1>4, <1>5 DEF t, n
<1>7. TypedBy(t) = IF e.type = {"normal"} /\ e.code \in Keys
                   THEN Append(TypedBy(s), <<Held(t, n + 1), e.code>>)
                   ELSE TypedBy(s)
  BY <1>6 DEF Typing
<1> QED BY <1>7 DEF t, n

-----------------------------------------------------------------------------
(* The invariant.                                                          *)
Answers == {ConfigByte, TestPassed, PortPassed}
Asking  == {"ram0", "test", "port"}          \* an answer is owed, or shown, or lost
Off     == {"flush", "enable", "bad"} \cup Asking  \* the port is disabled

Flags ==
  /\ irq \in BOOLEAN /\ shift \in BOOLEAN /\ waiting \in BOOLEAN /\ mapped \in BOOLEAN
  /\ disabled \in BOOLEAN /\ translating \in BOOLEAN /\ released \in BOOLEAN /\ cut \in BOOLEAN
KTypes ==
  /\ Flags
  /\ queue \in Seq(KeyBytes)
  /\ output \in {None} \cup Octets
  /\ asked \in Seq(Answers)
  /\ low \in {None} \cup Octets
  /\ cpu \in {"main", "first", "break", "extended", "extended break", "wide",
              "wide high", "wide break", "wide break again", "wide break high"}
  /\ chr \in {NoChr} \cup Chars
  /\ main \in {"map", "disable"} \cup Off \cup Ready
  /\ sent \in Seq(Scans) /\ decoded \in Seq(Scans) /\ typed \in Seq(Chars)
  /\ calledAt \in 0 .. Len(typed)

(* What ps2_read remembers.                                                *)
Remembers ==
  /\ cpu \in {"wide high", "wide break again", "wide break high"} => low \in Octets
  /\ cpu = "wide high" => low # RELEASE

(* keyboard::init: one answer at a time, and no byte that is none in the   *)
(* meantime; no byte of the keyboard is 0.                                 *)
Stage ==
  /\ (disabled <=> main \in Off)
  /\ main \notin Asking => asked = <<>> /\ output # 0
  /\ main \in Asking =>
       /\ output \in {None} \cup Answers
       /\ asked = <<>> \/ (output = None /\ Len(asked) = 1)
  /\ main \in Asking \cup {"enable", "bad"} => cpu \in {"main", "first"}
  /\ main \in {"enable", "bad"} => output = None
  /\ main \in {"test", "port", "enable", "bad"} \cup Ready => ~translating

(* What ps2_read has taken of an event, and all the bytes not yet decoded. *)
TakenAt(at, lo) ==
  CASE at = "break" -> <<RELEASE>>
    [] at = "extended" -> <<EXT>>
    [] at = "extended break" -> <<EXT, RELEASE>>
    [] at = "wide" -> <<WIDE>>
    [] at = "wide high" -> <<WIDE, lo>>
    [] at = "wide break" -> <<WIDE, RELEASE>>
    [] at = "wide break again" -> <<WIDE, RELEASE, lo>>
    [] at = "wide break high" -> <<WIDE, RELEASE, lo, RELEASE>>
    [] OTHER -> <<>>
Taken  == TakenAt(cpu, low)
Shown  == IF output = None THEN <<>> ELSE <<output>>
Stream == Taken \o (Shown \o queue)

Pending(rest) == rest \in Seq(Events) /\ sent = decoded \o rest /\ Stream = AllBytes(rest)

InPlace ==
  /\ main \notin Ready => sent \in Seq(Events)
  /\ main \in Off /\ ~cut => Unsent # {}
  /\ main \in Ready /\ ~cut => \E rest : Pending(rest)

AsTyped ==
  \/ \E i \in DOMAIN decoded : MadeUpRelease(decoded[i])
  \/ shift = Held(decoded, Len(decoded)) /\ typed = TypedBy(decoded)

Fresh ==
  /\ WaitEndsWithFreshKey
  /\ typed # <<>> => chr = Last(typed)

KInv == KTypes /\ Remembers /\ Stage /\ InPlace /\ AsTyped /\ Fresh

LEMMA EventsAreScans == Events \subseteq Scans
<1> SUFFICES ASSUME NEW e \in Events PROVE e \in Scans
  OBVIOUS
<1>1. e \in [type : Types, code : Nat]
  BY EventsAssumption, Zenon
<1>2. Types \subseteq SUBSET {"normal", "break", "extended", "wide"}
  BY DEF Types
<1> QED BY <1>1, <1>2 DEF Scans

(* A key that is read: two bytes of a code, the second not 0, and a byte   *)
(* above 0x7f are not the code of left shift.                              *)
Returnable(type, code) ==
  /\ type \in Types /\ code \in Nat
  /\ "wide" \in type \/ type = {} => code # LeftShift

LEMMA ReturnTypes ==
  ASSUME KTypes, NEW type, NEW code, Returnable(type, code), ReturnsWith(type, code)
  PROVE  /\ shift' \in BOOLEAN /\ waiting' \in BOOLEAN /\ chr' \in {NoChr} \cup Chars
         /\ typed' \in Seq(Chars) /\ Len(typed') \in Nat /\ Len(typed') >= Len(typed)
         /\ decoded' \in Seq(Scans) /\ cpu' = "main" /\ low' = None
<1>1. shift \in BOOLEAN /\ waiting \in BOOLEAN /\ chr \in {NoChr} \cup Chars /\ typed \in Seq(Chars)
  BY DEF KTypes, Flags
<1>2. decoded' \in Seq(Scans)
  <2>1. type \in SUBSET {"normal", "break", "extended", "wide"}
    BY DEF Returnable, Types
  <2>2. decoded \in Seq(Scans) /\ [type |-> type, code |-> code] \in Scans
    BY <2>1 DEF KTypes, Scans, Returnable
  <2> QED BY <2>2, AppendProperties DEF ReturnsWith
<1>3. cpu' = "main" /\ low' = None
  BY DEF ReturnsWith
<1>4. ASSUME UNCHANGED <<chr, waiting, typed>>
      PROVE  /\ waiting' \in BOOLEAN /\ chr' \in {NoChr} \cup Chars
             /\ typed' \in Seq(Chars) /\ Len(typed') \in Nat /\ Len(typed') >= Len(typed)
  BY <1>1, <1>4
<1>5. CASE IsShift(type, code)
  <2>1. shift' = (type # {"break"}) /\ UNCHANGED <<chr, waiting, typed>>
    BY <1>5 DEF ReturnsWith
  <2>2. shift' \in BOOLEAN
    BY <2>1, Zenon
  <2> QED BY <1>2, <1>3, <1>4, <2>1, <2>2
<1>6. CASE ~IsShift(type, code)
  <2>1. DispatchScancode(type, code) /\ shift' \in BOOLEAN
    BY <1>1, <1>6 DEF ReturnsWith
  <2>2. CASE Translated(type, code)
    <3>1. /\ chr' = <<shift, code>> /\ waiting' = FALSE /\ typed' = Append(typed, chr')
          /\ code \in Keys
      BY <2>1, <2>2 DEF DispatchScancode, Translated
    <3>2. chr' \in Chars
      BY <1>1, <3>1 DEF Chars
    <3>3. typed' \in Seq(Chars) /\ Len(typed') = Len(typed) + 1 /\ Len(typed) \in Nat
      BY <1>1, <3>1, <3>2, AppendProperties
    <3>4. waiting' \in BOOLEAN /\ shift' \in BOOLEAN
      BY <2>1, <3>1, Zenon
    <3>5. Len(typed') \in Nat /\ Len(typed') >= Len(typed)
      BY <3>3
    <3> QED BY <1>2, <1>3, <3>2, <3>3, <3>4, <3>5
  <2>3. CASE ~Translated(type, code)
    <3>1. UNCHANGED <<chr, waiting, typed>>
      BY <2>1, <2>3 DEF DispatchScancode
    <3> QED BY <1>2, <1>3, <1>4, <2>1, <3>1
  <2> QED BY <2>2, <2>3
<1> QED BY <1>5, <1>6

(* The ways in which ps2_read returns.                                     *)
LEMMA ReadReturns ==
  ASSUME KTypes, Remembers, Stage, Handler
  PROVE  \/ cpu = "first" /\ output = None /\ cpu' = "main" /\ UNCHANGED <<device, low, driver>>
         \/ /\ output \in Octets /\ output' = None /\ UNCHANGED <<queue, irq, sent, released, asked>>
            /\ \/ \E type, code : Returnable(type, code) /\ ReturnsWith(type, code)
               \/ /\ cpu' \in {"break", "extended", "extended break", "wide", "wide high", "wide break",
                               "wide break again", "wide break high"}
                  /\ low' \in {None} \cup Octets /\ UNCHANGED driver
<1>1. output \in {None} \cup Octets /\ low \in {None} \cup Octets
  BY DEF KTypes
<1>2. Octets \subseteq Nat /\ None \notin Octets
  BY DEF Octets, None
<1>3. ASSUME NEW l \in Octets, NEW h \in Octets, h # 0, NEW t \in {{"wide"}, {"break", "wide"}}
      PROVE  Returnable(t, Word(l, h))
  <2>1. Word(l, h) \in Nat /\ Word(l, h) # LeftShift
    BY <1>3 DEF Octets, Word, LeftShift
  <2> QED BY <2>1 DEF Returnable, Types
<1>4. ASSUME NEW h \in Octets
      PROVE  /\ Returnable({"normal"}, h) /\ Returnable({"break"}, h) /\ Returnable({"extended"}, h)
             /\ Returnable({"break", "extended"}, h)
             /\ Returnable(IF h >= 128 THEN {} ELSE {"normal"}, h)
  <2>1. h \in Nat /\ (h >= 128 => h # LeftShift)
    BY DEF Octets, LeftShift
  <2>2. ASSUME NEW t \in {{"normal"}, {"break"}, {"extended"}, {"break", "extended"}} PROVE Returnable(t, h)
    <3>1. t \in Types /\ "wide" \notin t /\ t # {}
      BY DEF Types
    <3> QED BY <2>1, <3>1 DEF Returnable
  <2>3. h >= 128 => Returnable({}, h)
    BY <2>1 DEF Returnable, Types
  <2> QED BY <2>1, <2>2, <2>3
<1>5. CASE NothingToRead
  BY <1>5 DEF NothingToRead, Empty
<1>6. ASSUME NEW at, Read(at)
      PROVE  /\ output \in Octets /\ output \in Nat /\ output' = None
             /\ UNCHANGED <<queue, irq, sent, released, asked>>
  BY <1>1, <1>2, <1>6 DEF Read
<1>7. CASE ReadFirst
  <2>1. Read("first")
    BY <1>7 DEF ReadFirst
  <2>2. CASE AfterPrefix(output) # "main"
    <3>1. GoesOn(AfterPrefix(output), None)
      BY <1>7, <2>2 DEF ReadFirst
    <3>2. AfterPrefix(output) \in {"extended", "wide", "break"}
      BY <2>2 DEF AfterPrefix
    <3> QED BY <1>6, <2>1, <3>1, <3>2 DEF GoesOn
  <2>3. CASE AfterPrefix(output) = "main"
    <3>1. ReturnsWith(IF output >= 128 THEN {} ELSE {"normal"}, output)
      BY <1>7, <2>3 DEF ReadFirst
    <3>2. Returnable(IF output >= 128 THEN {} ELSE {"normal"}, output)
      BY <1>4, <1>6, <2>1
    <3> QED BY <1>6, <2>1, <3>1, <3>2, Zenon
  <2> QED BY <2>2, <2>3
<1>8. CASE ReadBreak
  BY <1>4, <1>6, <1>8, Zenon DEF ReadBreak
<1>9. CASE ReadExtended
  <2>1. Read("extended")
    BY <1>9 DEF ReadExtended
  <2>2. CASE output = RELEASE
    BY <1>6, <1>9, <2>1, <2>2 DEF ReadExtended, GoesOn
  <2>3. CASE output # RELEASE
    BY <1>4, <1>6, <1>9, <2>1, <2>3, Zenon DEF ReadExtended
  <2> QED BY <2>2, <2>3
<1>10. CASE ReadExtendedBreak
  BY <1>4, <1>6, <1>10, Zenon DEF ReadExtendedBreak
<1>11. CASE ReadWide
  <2>1. Read("wide")
    BY <1>11 DEF ReadWide
  <2> QED BY <1>6, <1>11, <2>1 DEF ReadWide, GoesOn, AfterLow
<1>12. CASE ReadWideHigh
  <2>1. Read("wide high") /\ low \in Octets /\ ReturnsWith({"wide"}, Word(low, output))
    BY <1>12 DEF ReadWideHigh, Read, Remembers
  <2>2. output # 0
    <3>1. cpu \notin {"main", "first"}
      BY <2>1 DEF Read
    <3> QED BY <3>1 DEF Stage
  <2>3. Returnable({"wide"}, Word(low, output))
    BY <1>3, <1>6, <2>1, <2>2
  <2> QED BY <1>6, <2>1, <2>3, Zenon
<1>13. CASE ReadWideBreak
  <2>1. Read("wide break") /\ GoesOn("wide break again", output)
    BY <1>13 DEF ReadWideBreak, AfterBreakLow
  <2> QED BY <1>6, <2>1 DEF GoesOn
<1>14. CASE ReadWideBreakAgain
  <2>1. Read("wide break again") /\ GoesOn("wide break high", low)
    BY <1>14 DEF ReadWideBreakAgain
  <2> QED BY <1>1, <1>6, <2>1 DEF GoesOn
<1>15. CASE ReadWideBreakHigh
  <2>1. Read("wide break high") /\ low \in Octets /\ ReturnsWith({"break", "wide"}, Word(low, output))
    BY <1>15 DEF ReadWideBreakHigh, Read, Remembers
  <2>2. output # 0
    <3>1. cpu \notin {"main", "first"}
      BY <2>1 DEF Read
    <3> QED BY <3>1 DEF Stage
  <2>3. Returnable({"break", "wide"}, Word(low, output))
    BY <1>3, <1>6, <2>1, <2>2
  <2> QED BY <1>6, <2>1, <2>3, Zenon
<1> QED BY <1>5, <1>7, <1>8, <1>9, <1>10, <1>11, <1>12, <1>13, <1>14, <1>15 DEF Handler

LEMMA HandlerLeaves ==
  ASSUME Handler
  PROVE  UNCHANGED <<queue, irq, sent, released, asked, program, setup>>
BY DEF Handler, NothingToRead, ReadFirst, ReadBreak, ReadExtended, ReadExtendedBreak, ReadWide,
       ReadWideHigh, ReadWideBreak, ReadWideBreakAgain, ReadWideBreakHigh, Read, device

(* Every variable keeps its type.                                          *)
LEMMA NewestOf ==
  ASSUME NEW S, sent \in Seq(S), NEW n \in 0 .. Len(sent)
  PROVE  Newest(n) \in Seq(S)
<1>1. Len(sent) \in Nat
  OBVIOUS
<1>2. \A i \in Len(sent) - n + 1 .. Len(sent) : sent[i] \in S
  BY <1>1
<1> QED BY <1>1, <1>2, SubSeqProperties DEF Newest

LEMMA TranslationsAreOctets ==
  ASSUME NEW b \in KeyBytes, b # RELEASE, released \in BOOLEAN
  PROVE  Translation(b) \in Octets /\ Translation(b) # 0
<1>1. CASE b \in {EXT, WIDE}
  BY <1>1 DEF Translation, Octets, EXT, WIDE
<1>2. CASE b \notin {EXT, WIDE}
  <2>1. PICK e \in Events : b \in CodeBytes(e)
    BY <1>2 DEF KeyBytes
  <2>2. Set1[b] \in 1 .. 127
    BY <2>1, EventsAssumption
  <2>3. Translation(b) = Set1[b] + (IF released THEN 128 ELSE 0)
    BY <1>2 DEF Translation
  <2> QED BY <2>2, <2>3 DEF Octets
<1> QED BY <1>1, <1>2

LEMMA FlagsKept ==
  ASSUME KTypes, Remembers, Stage, Next
  PROVE  Flags'
<1>1. Flags
  BY DEF KTypes
<1>2. CASE \E e \in Events : Press(e)
  BY <1>1, <1>2, Zenon DEF Flags, Press, driver, program, setup
<1>3. CASE Present
  BY <1>1, <1>3, Zenon DEF Flags, Present, driver, program, setup
<1>4. CASE Answer
  BY <1>1, <1>4, Zenon DEF Flags, Answer, driver, program, setup
<1>5. CASE Accept
  BY <1>1, <1>5, Zenon DEF Flags, Accept, driver, program, setup
<1>6. CASE Handler
  <2>1. UNCHANGED <<irq, released, setup>>
    BY <1>6, HandlerLeaves, Zenon
  <2>2. shift' \in BOOLEAN /\ waiting' \in BOOLEAN
    <3>1. CASE UNCHANGED driver
      BY <1>1, <3>1, Zenon DEF Flags, driver
    <3>2. ASSUME NEW type, NEW code, Returnable(type, code), ReturnsWith(type, code)
          PROVE  shift' \in BOOLEAN /\ waiting' \in BOOLEAN
      BY <3>2, ReturnTypes, Zenon
    <3> QED BY <1>6, <3>1, <3>2, ReadReturns, Zenon
  <2> QED BY <1>1, <2>1, <2>2, Zenon DEF Flags, setup
<1>7. CASE Initialize
  <2>1. UNCHANGED <<shift, waiting>>
    BY <1>7 DEF Initialize, InitStep, MapIrq, DisablePorts, Flush, FlushOver, ReadRam0, ReadTest,
                ReadPortTest, EnableFirst, Poll, driver
  <2>2. CASE MapIrq
    BY <1>1, <2>1, <2>2, Zenon DEF Flags, MapIrq, InitStep, device
  <2>3. CASE DisablePorts
    <3>1. (Unsent = {}) \in BOOLEAN
      OBVIOUS
    <3> QED BY <1>1, <2>1, <2>3, <3>1, Zenon DEF Flags, DisablePorts, InitStep, device
  <2>4. CASE Flush
    BY <1>1, <2>1, <2>4, Zenon DEF Flags, Flush, Poll, InitStep
  <2>5. CASE FlushOver
    BY <1>1, <2>1, <2>5, Zenon DEF Flags, FlushOver, InitStep, setup
  <2>6. CASE ReadRam0
    BY <1>1, <2>1, <2>6, Zenon DEF Flags, ReadRam0, Poll, InitStep
  <2>7. CASE ReadTest
    BY <1>1, <2>1, <2>7, Zenon DEF Flags, ReadTest, Poll, InitStep
  <2>8. CASE ReadPortTest
    BY <1>1, <2>1, <2>8, Zenon DEF Flags, ReadPortTest, Poll, InitStep
  <2>9. CASE EnableFirst
    BY <1>1, <2>1, <2>9, Zenon DEF Flags, EnableFirst, InitStep
  <2> QED BY <1>7, <2>2, <2>3, <2>4, <2>5, <2>6, <2>7, <2>8, <2>9 DEF Initialize
<1>8. CASE WaitChar
  BY <1>1, <1>8, Zenon DEF Flags, WaitChar, device, setup
<1>9. CASE WaitOver
  BY <1>1, <1>9, Zenon DEF Flags, WaitOver, device, driver, setup
<1>10. CASE ReturnChr
  BY <1>1, <1>10, Zenon DEF Flags, ReturnChr, device, driver, setup
<1> QED BY <1>2, <1>3, <1>4, <1>5, <1>6, <1>7, <1>8, <1>9, <1>10 DEF Next

LEMMA TypesKept ==
  ASSUME KTypes, Remembers, InPlace, Stage, Next
  PROVE  KTypes'
<1> DEFINE Labels == {"main", "first", "break", "extended", "extended break", "wide",
                      "wide high", "wide break", "wide break again", "wide break high"}
           Steps == {"map", "disable"} \cup Off \cup Ready
<1>1. /\ queue \in Seq(KeyBytes) /\ output \in {None} \cup Octets /\ asked \in Seq(Answers)
      /\ low \in {None} \cup Octets /\ cpu \in Labels /\ chr \in {NoChr} \cup Chars
      /\ main \in Steps
      /\ sent \in Seq(Scans) /\ decoded \in Seq(Scans) /\ typed \in Seq(Chars)
      /\ calledAt \in 0 .. Len(typed)
  BY DEF KTypes
<1>2. Flags'
  BY FlagsKept
<1>3. SUFFICES
        /\ queue' \in Seq(KeyBytes) /\ output' \in {None} \cup Octets /\ asked' \in Seq(Answers)
        /\ low' \in {None} \cup Octets /\ cpu' \in Labels /\ chr' \in {NoChr} \cup Chars
        /\ main' \in Steps
        /\ sent' \in Seq(Scans) /\ decoded' \in Seq(Scans) /\ typed' \in Seq(Chars)
        /\ calledAt' \in 0 .. Len(typed')
  BY <1>2, Zenon DEF KTypes
<1>4. Answers \subseteq Octets /\ ConfigByte \in Answers /\ TestPassed \in Answers /\ PortPassed \in Answers
  BY DEF Answers, Octets, ConfigByte, TestPassed, PortPassed
<1>5. /\ "main" \in Labels /\ "first" \in Labels /\ {"map", "disable", "flush", "idle", "spin", "leave", "bad", "enable", "ram0", "test", "port"} \subseteq Steps
  BY DEF Off, Asking, Ready
<1> HIDE DEF Labels, Steps
<1>6. CASE \E e \in Events : Press(e)
  <2>1. PICK e \in Events : Press(e)
    BY <1>6
  <2>2. e \in Scans /\ Bytes(e) \in Seq(KeyBytes)
    BY EventsAreScans, BytesInSeq
  <2>3. sent' \in Seq(Scans) /\ queue' \in Seq(KeyBytes)
    BY <1>1, <2>1, <2>2, AppendProperties, ConcatProperties DEF Press
  <2>4. UNCHANGED <<output, asked, cpu, low, driver, program>>
    BY <2>1 DEF Press
  <2> QED BY <1>1, <2>3, <2>4 DEF driver, program
<1>7. CASE Present
  <2>1. /\ queue # <<>> /\ queue' = Tail(queue) /\ UNCHANGED <<sent, asked, cpu, low, driver, program>>
        /\ \/ UNCHANGED output
           \/ output' = Head(queue)
           \/ Head(queue) # RELEASE /\ output' = Translation(Head(queue))
    BY <1>7 DEF Present
  <2>2. Head(queue) \in KeyBytes /\ Tail(queue) \in Seq(KeyBytes)
    BY <1>1, <2>1, HeadTailProperties
  <2>3. output' \in {None} \cup Octets
    <3>1. Head(queue) \in Octets
      <4>1. KeyBytes \subseteq Octets
        BY KeyBytesAreBytes DEF Octets
      <4> QED BY <2>2, <4>1
    <3>2. released \in BOOLEAN
      BY Zenon DEF KTypes, Flags
    <3> QED BY <1>1, <2>1, <2>2, <3>1, <3>2, TranslationsAreOctets
  <2> QED BY <1>1, <2>1, <2>2, <2>3 DEF driver, program
<1>8. CASE Answer
  <2>1. /\ asked # <<>> /\ output' = Head(asked) /\ asked' = Tail(asked)
        /\ UNCHANGED <<queue, sent, cpu, low, driver, program>>
    BY <1>8 DEF Answer
  <2>2. output' \in Octets /\ asked' \in Seq(Answers)
    BY <1>1, <1>4, <2>1, HeadTailProperties
  <2> QED BY <1>1, <2>1, <2>2 DEF driver, program
<1>9. CASE Accept
  <2>1. /\ UNCHANGED <<queue, output, sent, asked, low, driver, program>>
        /\ cpu' \in {"main", "first"}
    BY <1>9 DEF Accept
  <2> QED BY <1>1, <1>5, <2>1 DEF driver, program
<1>10. CASE Handler
  <2>1. UNCHANGED <<queue, sent, asked, main, calledAt>>
    BY <1>10, HandlerLeaves, Zenon DEF program
  <2>2. CASE cpu' = "main" /\ UNCHANGED <<device, low, driver>>
    BY <1>1, <1>5, <2>1, <2>2 DEF device, driver
  <2>3. CASE /\ output' = None
             /\ cpu' \in {"break", "extended", "extended break", "wide", "wide high", "wide break",
                          "wide break again", "wide break high"}
             /\ low' \in {None} \cup Octets /\ UNCHANGED driver
    <3>1. cpu' \in Labels
      BY <2>3 DEF Labels
    <3> QED BY <1>1, <2>1, <2>3, <3>1 DEF driver
  <2>4. CASE /\ output' = None
             /\ \E type, code : Returnable(type, code) /\ ReturnsWith(type, code)
    <3>1. /\ chr' \in {NoChr} \cup Chars
          /\ typed' \in Seq(Chars) /\ Len(typed') \in Nat /\ Len(typed') >= Len(typed)
          /\ decoded' \in Seq(Scans) /\ cpu' = "main" /\ low' = None
      BY <2>4, ReturnTypes
    <3>2. calledAt' \in 0 .. Len(typed')
      BY <1>1, <2>1, <3>1
    <3> QED BY <1>1, <1>5, <2>1, <2>4, <3>1, <3>2
  <2> QED BY <1>10, <2>2, <2>3, <2>4, ReadReturns, Zenon
<1>11. CASE Initialize
  <2>1. UNCHANGED <<queue, cpu, low, driver, calledAt>>
    BY <1>11 DEF Initialize, InitStep, MapIrq, DisablePorts, Flush, FlushOver, ReadRam0, ReadTest,
                ReadPortTest, EnableFirst, Poll
  <2>2. SUFFICES /\ output' \in {None} \cup Octets /\ asked' \in Seq(Answers)
                 /\ main' \in Steps /\ sent' \in Seq(Scans)
    BY <1>1, <2>1 DEF driver
  <2>3. \A a \in Answers : Append(asked, a) \in Seq(Answers)
    BY <1>1, AppendProperties
  <2>4. CASE MapIrq
    BY <1>1, <1>5, <2>4 DEF MapIrq, InitStep, device
  <2>5. CASE DisablePorts
    BY <1>1, <1>5, <2>5 DEF DisablePorts, InitStep, device
  <2>6. CASE Flush
    BY <1>1, <1>5, <2>6 DEF Flush, Poll, InitStep
  <2>7. CASE FlushOver
    BY <1>1, <1>4, <1>5, <2>3, <2>7 DEF FlushOver, InitStep
  <2>8. CASE ReadRam0
    BY <1>1, <1>4, <1>5, <2>3, <2>8 DEF ReadRam0, Poll, InitStep
  <2>9. CASE ReadTest
    BY <1>1, <1>4, <1>5, <2>3, <2>9 DEF ReadTest, Poll, InitStep
  <2>10. CASE ReadPortTest
    BY <1>1, <1>5, <2>10 DEF ReadPortTest, Poll, InitStep
  <2>11. CASE EnableFirst
    <3>1. /\ main = "enable" /\ main' = "idle" /\ UNCHANGED <<output, asked>>
          /\ sent' = IF cut THEN sent ELSE decoded \o Newest(CHOOSE n \in Unsent : TRUE)
      BY <2>11 DEF EnableFirst, InitStep
    <3>2. CASE cut
      BY <1>1, <1>5, <3>1, <3>2
    <3>3. CASE ~cut
      <4>1. Unsent # {}
        BY <3>1, <3>3 DEF InPlace, Off
      <4>2. PICK n \in Unsent : n = CHOOSE k \in Unsent : TRUE
        BY <4>1
      <4>3. n \in 0 .. Len(sent)
        BY DEF Unsent
      <4>4. Newest(n) \in Seq(Scans)
        BY <1>1, <4>3, NewestOf
      <4>5. sent' \in Seq(Scans)
        BY <1>1, <3>1, <3>3, <4>2, <4>4, ConcatProperties
      <4> QED BY <1>1, <1>5, <3>1, <4>5
    <3> QED BY <3>2, <3>3
  <2> QED BY <1>11, <2>4, <2>5, <2>6, <2>7, <2>8, <2>9, <2>10, <2>11 DEF Initialize
<1>12. CASE WaitChar
  <2>1. /\ UNCHANGED <<device, cpu, low, chr, decoded, typed>> /\ main' = "spin"
        /\ calledAt' = Len(typed)
    BY <1>12 DEF WaitChar
  <2>2. Len(typed) \in Nat
    BY <1>1
  <2> QED BY <1>1, <1>5, <2>1, <2>2 DEF device
<1>13. CASE WaitOver
  BY <1>1, <1>5, <1>13 DEF WaitOver, device, driver
<1>14. CASE ReturnChr
  BY <1>1, <1>5, <1>14 DEF ReturnChr, device, driver
<1> QED BY <1>6, <1>7, <1>8, <1>9, <1>10, <1>11, <1>12, <1>13, <1>14 DEF Next

(* keyboard::init: the answers come one at a time.                         *)
LEMMA RemembersKept ==
  ASSUME KTypes, Remembers, Next
  PROVE  Remembers'
<1>1. /\ output \in {None} \cup Octets /\ RELEASE \in Octets
      /\ cpu \in {"wide high", "wide break again", "wide break high"} => low \in Octets
      /\ cpu = "wide high" => low # RELEASE
  <2>1. output \in {None} \cup Octets
    BY DEF KTypes
  <2>2. RELEASE \in Octets
    BY DEF Octets, RELEASE
  <2>3. /\ cpu \in {"wide high", "wide break again", "wide break high"} => low \in Octets
        /\ cpu = "wide high" => low # RELEASE
    BY DEF Remembers
  <2> QED BY <2>1, <2>2, <2>3
<1>2. CASE UNCHANGED <<cpu, low>>
  BY <1>2 DEF Remembers
<1>3. CASE cpu' \in {"main", "first", "break", "extended", "extended break", "wide", "wide break"}
  BY <1>3 DEF Remembers
<1>4. ASSUME NEW type, NEW code, ReturnsWith(type, code) PROVE Remembers'
  <2>1. cpu' = "main"
    BY <1>4 DEF ReturnsWith
  <2> QED BY <2>1 DEF Remembers
<1>5. CASE Handler
  <2>1. CASE NothingToRead
    BY <1>3, <2>1 DEF NothingToRead
  <2>2. CASE ReadFirst
    <3>1. CASE AfterPrefix(output) # "main"
      <4>1. cpu' = AfterPrefix(output)
        BY <2>2, <3>1 DEF ReadFirst, GoesOn
      <4>2. AfterPrefix(output) \in {"extended", "wide", "break"}
        BY <3>1 DEF AfterPrefix
      <4> QED BY <1>3, <4>1, <4>2
    <3>2. CASE AfterPrefix(output) = "main"
      BY <1>4, <2>2, <3>2, Zenon DEF ReadFirst
    <3> QED BY <3>1, <3>2
  <2>3. CASE ReadBreak
    BY <1>4, <2>3, Zenon DEF ReadBreak
  <2>4. CASE ReadExtended
    <3>1. CASE output = RELEASE
      BY <1>3, <2>4, <3>1 DEF ReadExtended, GoesOn
    <3>2. CASE output # RELEASE
      BY <1>4, <2>4, <3>2, Zenon DEF ReadExtended
    <3> QED BY <3>1, <3>2
  <2>5. CASE ReadExtendedBreak
    BY <1>4, <2>5, Zenon DEF ReadExtendedBreak
  <2>6. CASE ReadWide
    <3>1. output # None
      BY <2>6 DEF ReadWide, Read
    <3>2. CASE output = RELEASE
      BY <1>3, <2>6, <3>2 DEF ReadWide, GoesOn
    <3>3. CASE output # RELEASE
      BY <1>1, <2>6, <3>1, <3>3 DEF ReadWide, GoesOn, AfterLow, Remembers
    <3> QED BY <3>2, <3>3
  <2>7. CASE ReadWideHigh
    BY <1>4, <2>7, Zenon DEF ReadWideHigh
  <2>8. CASE ReadWideBreak
    BY <1>1, <2>8 DEF ReadWideBreak, Read, GoesOn, AfterBreakLow, Remembers
  <2>9. CASE ReadWideBreakAgain
    BY <1>1, <2>9 DEF ReadWideBreakAgain, Read, GoesOn, Remembers
  <2>10. CASE ReadWideBreakHigh
    BY <1>4, <2>10, Zenon DEF ReadWideBreakHigh
  <2> QED BY <1>5, <2>1, <2>2, <2>3, <2>4, <2>5, <2>6, <2>7, <2>8, <2>9, <2>10 DEF Handler
<1>6. CASE \/ \E e \in Events : Press(e)
           \/ Present \/ Answer
           \/ WaitChar \/ WaitOver \/ ReturnChr
  BY <1>2, <1>6 DEF Press, Present, Answer, WaitChar, WaitOver, ReturnChr
<1>7. CASE Accept
  BY <1>3, <1>7 DEF Accept
<1>8. CASE Initialize
  BY <1>2, <1>8 DEF Initialize, InitStep, MapIrq, DisablePorts, Flush, FlushOver, ReadRam0, ReadTest,
                ReadPortTest, EnableFirst, Poll
<1> QED BY <1>5, <1>6, <1>7, <1>8 DEF Next

LEMMA StageKept ==
  ASSUME KTypes, Remembers, Stage, Next
  PROVE  Stage'
<1>1. /\ output \in {None} \cup Octets /\ asked \in Seq(Answers) /\ queue \in Seq(KeyBytes)
      /\ main \in {"map", "disable"} \cup Off \cup Ready /\ released \in BOOLEAN
  BY Zenon DEF KTypes, Flags
<1>2. /\ (disabled <=> main \in Off)
      /\ main \notin Asking => asked = <<>> /\ output # 0
      /\ main \in Asking => /\ output \in {None} \cup Answers
                            /\ asked = <<>> \/ (output = None /\ Len(asked) = 1)
      /\ main \in Asking \cup {"enable", "bad"} => cpu \in {"main", "first"}
      /\ main \in {"enable", "bad"} => output = None
      /\ main \in {"test", "port", "enable", "bad"} \cup Ready => ~translating
  BY DEF Stage
<1>3. None \notin Answers /\ None # 0
  BY DEF Answers, None, ConfigByte, TestPassed, PortPassed
<1>4. CASE \E e \in Events : Press(e)
  BY <1>2, <1>4 DEF Stage, Press, program, setup
<1>5. CASE Present
  <2>1. ~disabled /\ queue # <<>> /\ UNCHANGED <<asked, cpu, program, setup>>
    BY <1>5 DEF Present
  <2>2. main \notin Off
    BY <1>2, <2>1
  <2>3. Head(queue) \in KeyBytes
    BY <1>1, <2>1, HeadTailProperties
  <2>4. output' # 0
    <3>1. output' \in {output, Head(queue)}
          \/ (Head(queue) # RELEASE /\ output' = Translation(Head(queue)))
      BY <1>5 DEF Present
    <3>2. 0 \notin KeyBytes
      BY KeyBytesAreBytes
    <3>3. CASE output' \in {output, Head(queue)}
      BY <1>2, <2>2, <2>3, <3>2, <3>3 DEF Off
    <3>4. CASE Head(queue) # RELEASE /\ output' = Translation(Head(queue))
      BY <1>1, <2>3, <3>4, TranslationsAreOctets
    <3> QED BY <3>1, <3>3, <3>4
  <2> QED BY <1>2, <2>1, <2>2, <2>4 DEF Stage, Off, program, setup
<1>6. CASE Answer
  <2>1. /\ asked # <<>> /\ output' = Head(asked) /\ asked' = Tail(asked)
        /\ UNCHANGED <<cpu, program, setup>>
    BY <1>6 DEF Answer
  <2>2. main \in Asking /\ Len(asked) = 1
    BY <1>2, <2>1
  <2>3. Head(asked) \in Answers /\ Tail(asked) = <<>>
    BY <1>1, <2>1, <2>2, HeadTailProperties, EmptySeq
  <2> QED BY <1>2, <2>1, <2>2, <2>3 DEF Stage, Asking, Ready, program, setup
<1>7. CASE Accept
  <2>1. /\ cpu' \in {"main", "first"} /\ UNCHANGED <<output, asked, program, setup>>
    BY <1>7 DEF Accept
  <2> QED BY <1>2, <2>1 DEF Stage, program, setup
<1>8. CASE Handler
  <2>1. UNCHANGED <<asked, program, setup>>
    BY <1>8, HandlerLeaves, Zenon
  <2>2. output' = None \/ output' = output
    BY <1>8, ReadReturns, Zenon DEF device
  <2>3. main \in Asking \cup {"enable", "bad"} => cpu' \in {"main", "first"}
    <3> SUFFICES ASSUME main \in Asking \cup {"enable", "bad"} PROVE cpu' \in {"main", "first"}
      OBVIOUS
    <3>1. cpu \in {"main", "first"} /\ output \in {None} \cup Answers
      BY <1>2
    <3>2. output = None \/ AfterPrefix(output) = "main"
      <4>1. \A a \in Answers : AfterPrefix(a) = "main"
        BY DEF AfterPrefix, Answers, EXT, WIDE, RELEASE, ConfigByte, TestPassed, PortPassed
      <4> QED BY <3>1, <4>1
    <3>3. NothingToRead \/ ReadFirst
      BY <1>8, <3>1 DEF Handler, NothingToRead, ReadFirst, ReadBreak, ReadExtended, ReadExtendedBreak,
         ReadWide, ReadWideHigh, ReadWideBreak, ReadWideBreakAgain, ReadWideBreakHigh, Read
    <3>4. CASE NothingToRead
      BY <3>4 DEF NothingToRead
    <3>5. CASE ReadFirst
      <4>1. AfterPrefix(output) = "main"
        BY <3>2, <3>5 DEF ReadFirst, Read
      <4> QED BY <3>5, <4>1 DEF ReadFirst, ReturnsWith
    <3> QED BY <3>3, <3>4, <3>5
  <2> QED BY <1>2, <1>3, <2>1, <2>2, <2>3 DEF Stage, program, setup
<1>9. CASE Initialize
  <2>1. UNCHANGED cpu /\ cpu = "main"
    BY <1>9 DEF Initialize, InitStep, MapIrq, DisablePorts, Flush, FlushOver, ReadRam0, ReadTest,
                ReadPortTest, EnableFirst, Poll
  <2>2. CASE MapIrq
    BY <1>2, <2>1, <2>2 DEF MapIrq, InitStep, Stage, device, Off, Asking, Ready
  <2>3. CASE DisablePorts
    BY <1>2, <2>1, <2>3 DEF DisablePorts, InitStep, Stage, device, Off, Asking, Ready
  <2>4. CASE Flush
    BY <1>2, <1>3, <2>1, <2>4 DEF Flush, Poll, InitStep, Stage, Off, Asking, Ready
  <2>5. CASE FlushOver
    <3>1. asked = <<>> /\ output = None
      BY <1>2, <2>5 DEF FlushOver, InitStep, Asking, Flushed
    <3>2. Len(asked') = 1
      <4>1. ConfigByte \in Answers
        BY DEF Answers
      <4> QED BY <1>1, <2>5, <3>1, <4>1, AppendProperties DEF FlushOver
    <3> QED BY <1>2, <2>1, <2>5, <3>1, <3>2 DEF FlushOver, InitStep, Stage, setup, Off, Asking, Ready
  <2>6. ASSUME output # None, main \in Asking PROVE asked = <<>>
    BY <1>2, <2>6
  <2>7. \A a \in Answers : Len(Append(<<>>, a)) = 1
    OBVIOUS
  <2>8. CASE ReadRam0
    <3>1. asked = <<>> /\ asked' = Append(asked, TestPassed) /\ TestPassed \in Answers
      BY <2>6, <2>8 DEF ReadRam0, Poll, InitStep, Asking, Answers
    <3>2. Len(asked') = 1
      BY <2>7, <3>1
    <3> QED BY <1>2, <2>1, <2>8, <3>2 DEF ReadRam0, Poll, InitStep, Stage, Off, Asking, Ready
  <2>9. CASE ReadTest
    <3>1. asked = <<>> /\ PortPassed \in Answers
      BY <2>6, <2>9 DEF ReadTest, Poll, InitStep, Asking, Answers
    <3>2. CASE output = TestPassed
      <4>1. asked' = Append(<<>>, PortPassed) /\ main' = "port"
        BY <2>9, <3>1, <3>2 DEF ReadTest, Poll, InitStep
      <4>2. Len(asked') = 1
        BY <2>7, <3>1, <4>1
      <4> QED BY <1>2, <2>1, <2>9, <4>1, <4>2 DEF ReadTest, Poll, InitStep, Stage, Off, Asking, Ready
    <3>3. CASE output # TestPassed
      <4>1. asked' = <<>> /\ main' = "bad"
        BY <2>9, <3>1, <3>3 DEF ReadTest, Poll, InitStep
      <4> QED BY <1>2, <1>3, <2>1, <2>9, <4>1 DEF ReadTest, Poll, InitStep, Stage, Off, Asking, Ready
    <3> QED BY <3>2, <3>3
  <2>10. CASE ReadPortTest
    <3>1. asked' = <<>> /\ main' \in {"enable", "bad"} /\ main = "port"
      BY <2>6, <2>10 DEF ReadPortTest, Poll, InitStep, Asking
    <3> QED BY <1>2, <1>3, <2>1, <2>10, <3>1 DEF ReadPortTest, Poll, InitStep, Stage, Off, Asking, Ready
  <2>11. CASE EnableFirst
    <3>1. /\ main = "enable" /\ main' = "idle" /\ disabled' = FALSE
          /\ UNCHANGED <<output, asked, translating>>
      BY <2>11 DEF EnableFirst, InitStep
    <3>2. output = None /\ asked = <<>> /\ ~translating
      BY <1>2, <3>1 DEF Asking
    <3>3. main' \notin Off /\ main' \notin Asking /\ main' \notin {"enable", "bad"}
      BY <3>1 DEF Off, Asking
    <3>4. disabled' <=> main' \in Off
      BY <3>1, <3>3, Zenon
    <3>5. main' \notin {"test", "port", "enable", "bad"} \cup Ready \/ ~translating'
      BY <3>1, <3>2
    <3>6. asked' = <<>> /\ output' # 0 /\ main' \notin Asking \cup {"enable", "bad"}
      BY <1>3, <3>1, <3>2, <3>3
    <3> QED BY <3>3, <3>4, <3>5, <3>6, Zenon DEF Stage
  <2> QED BY <1>9, <2>2, <2>3, <2>4, <2>5, <2>8, <2>9, <2>10, <2>11 DEF Initialize
<1>10. CASE WaitChar \/ WaitOver \/ ReturnChr
  <2>1. UNCHANGED <<device, cpu, setup>> /\ main \in Ready /\ main' \in Ready
    BY <1>10 DEF WaitChar, WaitOver, ReturnChr, Ready
  <2> QED BY <1>2, <2>1 DEF Stage, device, setup, Off, Asking, Ready
<1> QED BY <1>4, <1>5, <1>6, <1>7, <1>8, <1>9, <1>10 DEF Next

(* ps2_read keeps its place.                                               *)
LEMMA TwoOf ==
  ASSUME NEW S, NEW a \in S, NEW b \in S
  PROVE  Append(<<a>>, b) = <<a, b>>
<1>1. /\ <<a>> \in Seq(S) /\ Len(<<a>>) = 1
      /\ <<a>>[1] = a
  OBVIOUS
<1>2. /\ <<a, b>> \in Seq(S) /\ Len(<<a, b>>) = 2
      /\ <<a, b>>[1] = a /\ <<a, b>>[2] = b
  OBVIOUS
<1>3. PICK t : t = <<a>>
  OBVIOUS
<1>4. /\ Append(t, b) \in Seq(S) /\ Len(Append(t, b)) = 2
      /\ Append(t, b)[1] = a /\ Append(t, b)[2] = b
  BY <1>1, <1>3, AppendProperties
<1>5. \A i \in 1 .. 2 : i = 1 \/ i = 2
  OBVIOUS
<1> QED BY <1>2, <1>3, <1>4, <1>5, SeqEqual

LEMMA ThreeOf ==
  ASSUME NEW S, NEW a \in S, NEW b \in S, NEW c \in S
  PROVE  Append(<<a, b>>, c) = <<a, b, c>>
<1>1. /\ <<a, b>> \in Seq(S) /\ Len(<<a, b>>) = 2
      /\ <<a, b>>[1] = a /\ <<a, b>>[2] = b
  OBVIOUS
<1>2. /\ <<a, b, c>> \in Seq(S) /\ Len(<<a, b, c>>) = 3
      /\ <<a, b, c>>[1] = a /\ <<a, b, c>>[2] = b /\ <<a, b, c>>[3] = c
  OBVIOUS
<1>3. PICK t : t = <<a, b>>
  OBVIOUS
<1>4. /\ Append(t, c) \in Seq(S) /\ Len(Append(t, c)) = 3
      /\ Append(t, c)[1] = a /\ Append(t, c)[2] = b /\ Append(t, c)[3] = c
  BY <1>1, <1>3, AppendProperties
<1>5. \A i \in 1 .. 3 : i = 1 \/ i = 2 \/ i = 3
  OBVIOUS
<1> QED BY <1>2, <1>3, <1>4, <1>5, SeqEqual

LEMMA FourOf ==
  ASSUME NEW S, NEW a \in S, NEW b \in S, NEW c \in S, NEW d \in S
  PROVE  Append(<<a, b, c>>, d) = <<a, b, c, d>>
<1>1. /\ <<a, b, c>> \in Seq(S) /\ Len(<<a, b, c>>) = 3
      /\ <<a, b, c>>[1] = a /\ <<a, b, c>>[2] = b /\ <<a, b, c>>[3] = c
  OBVIOUS
<1>2. /\ <<a, b, c, d>> \in Seq(S) /\ Len(<<a, b, c, d>>) = 4
      /\ <<a, b, c, d>>[1] = a /\ <<a, b, c, d>>[2] = b /\ <<a, b, c, d>>[3] = c /\ <<a, b, c, d>>[4] = d
  OBVIOUS
<1>3. PICK t : t = <<a, b, c>>
  OBVIOUS
<1>4. /\ Append(t, d) \in Seq(S) /\ Len(Append(t, d)) = 4
      /\ Append(t, d)[1] = a /\ Append(t, d)[2] = b /\ Append(t, d)[3] = c /\ Append(t, d)[4] = d
  BY <1>1, <1>3, AppendProperties
<1>5. \A i \in 1 .. 4 : i = 1 \/ i = 2 \/ i = 3 \/ i = 4
  OBVIOUS
<1> QED BY <1>2, <1>3, <1>4, <1>5, SeqEqual

LEMMA TakenIs ==
  ASSUME NEW lo
  PROVE  /\ TakenAt("main", lo) = <<>> /\ TakenAt("first", lo) = <<>>
         /\ TakenAt("break", lo) = <<RELEASE>>
         /\ TakenAt("extended", lo) = <<EXT>>
         /\ TakenAt("extended break", lo) = <<EXT, RELEASE>>
         /\ TakenAt("wide", lo) = <<WIDE>>
         /\ TakenAt("wide high", lo) = <<WIDE, lo>>
         /\ TakenAt("wide break", lo) = <<WIDE, RELEASE>>
         /\ TakenAt("wide break again", lo) = <<WIDE, RELEASE, lo>>
         /\ TakenAt("wide break high", lo) = <<WIDE, RELEASE, lo, RELEASE>>
BY DEF TakenAt

LEMMA StreamTypes ==
  ASSUME KTypes, Remembers
  PROVE  /\ Taken \in Seq(Octets) /\ Shown \in Seq(Octets) /\ queue \in Seq(Octets)
         /\ Stream \in Seq(Octets)
<1>1. EXT \in Octets /\ WIDE \in Octets /\ RELEASE \in Octets
  BY DEF Octets, EXT, WIDE, RELEASE
<1>2. Taken \in Seq(Octets)
  <2> DEFINE three == {"wide high", "wide break again", "wide break high"}
  <2>1. CASE cpu \in three
    <3>1. low \in Octets
      BY <2>1 DEF Remembers
    <3>2. PICK lo \in Octets : lo = low
      BY <3>1
    <3>3. <<WIDE, lo>> \in Seq(Octets) /\ <<WIDE, RELEASE, lo>> \in Seq(Octets)
          /\ <<WIDE, RELEASE, lo, RELEASE>> \in Seq(Octets)
      BY <1>1
    <3> QED BY <2>1, <3>2, <3>3, TakenIs DEF Taken
  <2>2. CASE cpu \notin three
    <3>1. <<>> \in Seq(Octets) /\ <<RELEASE>> \in Seq(Octets) /\ <<EXT>> \in Seq(Octets)
          /\ <<EXT, RELEASE>> \in Seq(Octets) /\ <<WIDE>> \in Seq(Octets)
          /\ <<WIDE, RELEASE>> \in Seq(Octets)
      BY <1>1
    <3>2. cpu \in {"main", "first", "break", "extended", "extended break", "wide", "wide break"}
      BY <2>2 DEF KTypes
    <3> QED BY <3>1, <3>2, TakenIs DEF Taken
  <2> QED BY <2>1, <2>2
<1>3. Shown \in Seq(Octets)
  <2>1. output = None \/ output \in Octets
    BY DEF KTypes
  <2>2. \A b \in Octets : <<b>> \in Seq(Octets)
    OBVIOUS
  <2>3. <<>> \in Seq(Octets)
    OBVIOUS
  <2> QED BY <2>1, <2>2, <2>3 DEF Shown
<1>4. queue \in Seq(Octets)
  <2>1. KeyBytes \subseteq Octets
    BY KeyBytesAreBytes DEF Octets
  <2>2. queue \in Seq(KeyBytes)
    BY DEF KTypes
  <2> QED BY <2>1, <2>2, SeqMonotonic
<1> QED BY <1>2, <1>3, <1>4, ConcatProperties DEF Stream

LEMMA Moves ==
  ASSUME NEW t \in Seq(Octets), NEW b \in Octets, NEW q \in Seq(Octets)
  PROVE  /\ t \o (<<b>> \o q) = Append(t, b) \o (<<>> \o q)
         /\ Append(t, b) \in Seq(Octets)
<1> DEFINE o == <<b>>
<1>1. o \in Seq(Octets)
  OBVIOUS
<1>2. Append(t, b) = t \o o
  BY AppendIsConcat
<1>3. <<>> \o q = q
  BY ConcatEmptySeq
<1> HIDE DEF o
<1>4. (t \o o) \o q = t \o (o \o q)
  BY <1>1, Associates
<1> QED BY <1>2, <1>3, <1>4, AppendProperties DEF o

LEMMA GoesOnInPlace ==
  ASSUME KTypes, Remembers, NEW rest, Pending(rest), output # None, output' = None,
         UNCHANGED <<queue, sent, decoded>>, Taken' = Append(Taken, output)
  PROVE  Pending(rest)'
<1>1. Taken \in Seq(Octets) /\ queue \in Seq(Octets)
  BY StreamTypes
<1>2. output \in Octets
  BY DEF KTypes
<1>3. Shown = <<output>> /\ Shown' = <<>>
  BY DEF Shown
<1>4. Taken \o (<<output>> \o queue) = Append(Taken, output) \o (<<>> \o queue)
  BY <1>1, <1>2, Moves
<1>5. Stream' = Stream
  BY <1>3, <1>4 DEF Stream
<1> QED BY <1>5 DEF Pending

LEMMA HeadAndTail ==
  ASSUME NEW S, NEW s \in Seq(S), s # <<>>
  PROVE  <<Head(s)>> \o Tail(s) = s
<1> DEFINE h == <<Head(s)>>
           t == Tail(s)
<1>1. Head(s) \in S /\ t \in Seq(S)
  BY HeadTailProperties
<1>2. h \in Seq(S) /\ Len(h) = 1 /\ h[1] = Head(s) /\ Head(s) = s[1]
  BY <1>1
<1>3. /\ h \o t \in Seq(S) /\ Len(h \o t) = 1 + Len(t)
      /\ \A i \in 1 .. 1 + Len(t) : (h \o t)[i] = IF i <= 1 THEN h[i] ELSE t[i - 1]
  BY <1>1, <1>2, ConcatProperties
<1>4. /\ Len(t) = Len(s) - 1 /\ \A i \in 1 .. Len(t) : t[i] = s[i + 1]
  BY HeadTailProperties
<1>5. Len(s) \in Nat /\ Len(t) \in Nat
  BY <1>1
<1> HIDE DEF h, t
<1>6. ASSUME NEW i \in 1 .. Len(s) PROVE s[i] = (h \o t)[i]
  <2>1. i \in 1 .. 1 + Len(t)
    BY <1>4, <1>5
  <2>2. CASE i = 1
    BY <1>2, <1>3, <2>1, <2>2
  <2>3. CASE i # 1
    <3>1. PICK k \in 1 .. Len(t) : ~(i <= 1) /\ k = i - 1 /\ k + 1 = i
      BY <1>5, <2>1, <2>3
    <3>2. t[k] = s[k + 1]
      BY <1>4
    <3>3. (h \o t)[i] = t[k]
      BY <1>3, <2>1, <3>1
    <3> QED BY <3>1, <3>2, <3>3
  <2> QED BY <2>2, <2>3
<1>7. h \o t \in Seq(S) /\ Len(h \o t) = Len(s)
  BY <1>3, <1>4, <1>5
<1>8. h \o t = s
  BY <1>6, <1>7, SeqEqual
<1> QED BY <1>8 DEF h, t

LEMMA DecodedInPlace ==
  ASSUME KTypes, NEW rest, Pending(rest), rest # <<>>, output' = None, cpu' = "main",
         UNCHANGED <<queue, sent>>, decoded' = Append(decoded, Head(rest)),
         queue = AllBytes(Tail(rest))
  PROVE  Pending(Tail(rest))'
<1>1. rest \in Seq(Events) /\ sent = decoded \o rest
  BY DEF Pending
<1>2. Head(rest) \in Events /\ Tail(rest) \in Seq(Events)
  BY <1>1, HeadTailProperties
<1>3. Stream' = AllBytes(Tail(rest))
  <2>1. Taken' = <<>> /\ Shown' = <<>>
    BY TakenIs DEF Taken, Shown
  <2>2. queue \in Seq(KeyBytes)
    BY DEF KTypes
  <2>3. <<>> \o (<<>> \o queue) = queue
    BY <2>2, ConcatEmptySeq
  <2> QED BY <2>1, <2>3 DEF Stream
<1>4. sent' = decoded' \o Tail(rest)
  <2> DEFINE h == <<Head(rest)>>
             t == Tail(rest)
  <2>1. decoded \in Seq(Scans) /\ Head(rest) \in Scans /\ t \in Seq(Scans)
    BY <1>2, EventsAreScans, SeqMonotonic DEF KTypes
  <2>2. h \in Seq(Scans)
    BY <2>1
  <2>3. decoded' = decoded \o h
    BY <2>1, AppendIsConcat
  <2>4. rest = h \o t
    BY <1>1, HeadAndTail
  <2> HIDE DEF h, t
  <2>5. (decoded \o h) \o t = decoded \o (h \o t)
    BY <2>1, <2>2, Associates
  <2>6. sent' = decoded \o (h \o t)
    BY <1>1, <2>4
  <2> QED BY <2>3, <2>5, <2>6 DEF t
<1> QED BY <1>2, <1>3, <1>4 DEF Pending

LEMMA NextKey ==
  ASSUME KTypes, Remembers, NEW rest, Pending(rest), output # None
  PROVE  /\ rest # <<>> /\ Head(rest) \in Events
         /\ Within(Taken, output, queue, Head(rest), AllBytes(Tail(rest)))
<1>1. /\ Taken \in Seq(Octets) /\ queue \in Seq(Octets) /\ output \in Octets
      /\ Shown = <<output>>
  BY StreamTypes DEF KTypes, Shown
<1>2. rest \in Seq(Events) /\ Taken \o (<<output>> \o queue) = AllBytes(rest)
  BY <1>1 DEF Pending, Stream
<1>3. rest # <<>>
  <2> SUFFICES ASSUME rest = <<>> PROVE FALSE
    OBVIOUS
  <2>1. Taken \o (<<output>> \o queue) = <<>>
    BY <1>2, AllBytesOfNone
  <2>2. <<output>> \in Seq(Octets) /\ <<output>> # <<>>
    BY <1>1
  <2>3. <<output>> \o queue \in Seq(Octets) /\ <<output>> \o queue # <<>>
    BY <1>1, <2>2, ConcatProperties, ConcatEqualIffEmpty
  <2> QED BY <1>1, <2>1, <2>3, ConcatEqualIffEmpty
<1>4. Head(rest) \in Events /\ Tail(rest) \in Seq(Events)
  BY <1>2, <1>3, HeadTailProperties
<1>5. AllBytes(rest) = Bytes(Head(rest)) \o AllBytes(Tail(rest))
  BY <1>2, <1>3, AllBytesFirst
<1>6. AllBytes(Tail(rest)) \in Seq(Octets)
  <2>1. AllBytes(Tail(rest)) \in Seq(KeyBytes)
    BY <1>4, AllBytesType
  <2>2. KeyBytes \subseteq Octets
    BY KeyBytesAreBytes DEF Octets
  <2> QED BY <2>1, <2>2, SeqMonotonic
<1> QED BY <1>1, <1>2, <1>3, <1>4, <1>5, <1>6, Zenon DEF Within

LEMMA HandlerInPlace ==
  ASSUME KTypes, Remembers, Handler, NEW rest, Pending(rest)
  PROVE  \E r : Pending(r)'
<1>1. UNCHANGED <<queue, sent>>
  BY HandlerLeaves
<1>2. CASE NothingToRead
  <2>1. /\ cpu = "first" /\ cpu' = "main" /\ UNCHANGED <<queue, output, sent, decoded>>
    BY <1>2 DEF NothingToRead, device, driver
  <2>2. Taken' = Taken
    BY <2>1, TakenIs DEF Taken
  <2>3. Stream' = Stream
    BY <2>1, <2>2 DEF Stream, Shown
  <2> QED BY <2>1, <2>3 DEF Pending
<1>3. ASSUME NEW at, Read(at)
      PROVE  cpu = at /\ output # None /\ output' = None /\ output \in Octets
  <2>1. output \in {None} \cup Octets
    BY DEF KTypes
  <2> QED BY <1>3, <2>1 DEF Read
<1>4. ASSUME NEW at, NEW next, NEW lo, Read(at), GoesOn(next, lo),
             TakenAt(next, lo) = Append(TakenAt(at, low), output)
      PROVE  \E r : Pending(r)'
  <2>1. output # None /\ output' = None /\ UNCHANGED decoded /\ Taken' = Append(Taken, output)
    BY <1>3, <1>4 DEF GoesOn, driver, Taken
  <2> QED BY <1>1, <2>1, GoesOnInPlace
<1>5. ASSUME NEW at, NEW type, NEW code, Read(at), ReturnsWith(type, code),
             Head(rest) = [type |-> type, code |-> code], queue = AllBytes(Tail(rest))
      PROVE  \E r : Pending(r)'
  <2>1. output # None /\ output' = None
    BY <1>3, <1>5
  <2>2. rest # <<>>
    BY <2>1, NextKey
  <2>3. cpu' = "main" /\ decoded' = Append(decoded, Head(rest))
    BY <1>5 DEF ReturnsWith
  <2> QED BY <1>1, <1>5, <2>1, <2>2, <2>3, DecodedInPlace
<1>6. ASSUME NEW at, Read(at)
      PROVE  /\ Head(rest) \in Events
             /\ Within(TakenAt(at, low), output, queue, Head(rest), AllBytes(Tail(rest)))
  BY <1>3, <1>6, NextKey, Zenon DEF Taken
<1>octets. EXT \in Octets /\ WIDE \in Octets /\ RELEASE \in Octets
  BY DEF Octets, EXT, WIDE, RELEASE
<1>7. CASE ReadFirst
  <2>1. Read("first")
    BY <1>7 DEF ReadFirst
  <2>2. Within(<<>>, output, queue, Head(rest), AllBytes(Tail(rest))) /\ Head(rest) \in Events
    BY <1>6, <2>1, TakenIs, Zenon
  <2>3. \/ output \in {EXT, WIDE, RELEASE}
        \/ /\ output \notin {EXT, WIDE, RELEASE} /\ queue = AllBytes(Tail(rest))
           /\ Head(rest) = [type |-> IF output >= 128 THEN {} ELSE {"normal"}, code |-> output]
    BY <2>2, FirstByte, Zenon
  <2>4. CASE output \in {EXT, WIDE, RELEASE}
    <3>1. GoesOn(AfterPrefix(output), None)
      <4>1. AfterPrefix(output) # "main"
        BY <2>4 DEF AfterPrefix, EXT, WIDE, RELEASE
      <4> QED BY <1>7, <4>1 DEF ReadFirst
    <3>2. TakenAt("first", low) = <<>>
      BY TakenIs, Zenon
    <3>3. TakenAt(AfterPrefix(output), None) = <<output>>
      <4>1. CASE output = EXT
        BY <4>1, TakenIs DEF AfterPrefix
      <4>2. CASE output = WIDE
        <5>1. AfterPrefix(output) = "wide"
          BY <4>2 DEF AfterPrefix, EXT, WIDE, RELEASE
        <5> QED BY <4>2, <5>1, TakenIs
      <4>3. CASE output = RELEASE
        <5>1. AfterPrefix(output) = "break"
          BY <4>3 DEF AfterPrefix, EXT, WIDE, RELEASE
        <5> QED BY <4>3, <5>1, TakenIs
      <4> QED BY <2>4, <4>1, <4>2, <4>3
    <3>4. Append(<<>>, output) = <<output>>
      OBVIOUS
    <3> QED BY <1>4, <2>1, <3>1, <3>2, <3>3, <3>4, Zenon
  <2>5. CASE output \notin {EXT, WIDE, RELEASE}
    <3>1. ReturnsWith(IF output >= 128 THEN {} ELSE {"normal"}, output)
      <4>1. AfterPrefix(output) = "main"
        BY <2>5 DEF AfterPrefix
      <4> QED BY <1>7, <4>1 DEF ReadFirst
    <3> QED BY <1>5, <2>1, <2>3, <2>5, <3>1, Zenon
  <2> QED BY <2>4, <2>5
<1>8. CASE ReadBreak
  <2>1. Read("break") /\ ReturnsWith({"break"}, output)
    BY <1>8 DEF ReadBreak
  <2>2. Within(<<RELEASE>>, output, queue, Head(rest), AllBytes(Tail(rest))) /\ Head(rest) \in Events
    BY <1>6, <2>1, TakenIs, Zenon
  <2>3. Head(rest) = [type |-> {"break"}, code |-> output] /\ queue = AllBytes(Tail(rest))
    BY <2>2, BreakByte, Zenon
  <2> QED BY <1>5, <2>1, <2>3, Zenon
<1>9. CASE ReadExtended
  <2>1. Read("extended")
    BY <1>9 DEF ReadExtended
  <2>2. Within(<<EXT>>, output, queue, Head(rest), AllBytes(Tail(rest))) /\ Head(rest) \in Events
    BY <1>6, <2>1, TakenIs, Zenon
  <2>3. CASE output = RELEASE
    <3>1. GoesOn("extended break", None)
      BY <1>9, <2>3 DEF ReadExtended
    <3>2. TakenAt("extended break", None) = <<EXT, RELEASE>> /\ TakenAt("extended", low) = <<EXT>>
      BY TakenIs, Zenon
    <3>3. Append(<<EXT>>, RELEASE) = <<EXT, RELEASE>>
      BY <1>octets, TwoOf
    <3>4. TakenAt("extended break", None) = Append(TakenAt("extended", low), output)
      BY <2>3, <3>2, <3>3
    <3> QED BY <1>4, <2>1, <3>1, <3>4, Zenon
  <2>4. CASE output # RELEASE
    <3>1. ReturnsWith({"extended"}, output)
      BY <1>9, <2>4 DEF ReadExtended
    <3>2. Head(rest) = [type |-> {"extended"}, code |-> output] /\ queue = AllBytes(Tail(rest))
      BY <2>2, <2>4, ExtendedByte, Zenon
    <3> QED BY <1>5, <2>1, <3>1, <3>2, Zenon
  <2> QED BY <2>3, <2>4
<1>10. CASE ReadExtendedBreak
  <2>1. Read("extended break") /\ ReturnsWith({"break", "extended"}, output)
    BY <1>10 DEF ReadExtendedBreak
  <2>2. Within(<<EXT, RELEASE>>, output, queue, Head(rest), AllBytes(Tail(rest))) /\ Head(rest) \in Events
    BY <1>6, <2>1, TakenIs, Zenon
  <2>3. Head(rest) = [type |-> {"break", "extended"}, code |-> output] /\ queue = AllBytes(Tail(rest))
    BY <2>2, ExtendedBreakByte, Zenon
  <2> QED BY <1>5, <2>1, <2>3, Zenon
<1>11. CASE ReadWide
  <2>1. Read("wide") /\ TakenAt("wide", low) = <<WIDE>>
    BY <1>11, TakenIs DEF ReadWide
  <2>2. CASE output = RELEASE
    <3>1. GoesOn("wide break", None)
      BY <1>11, <2>2 DEF ReadWide
    <3>2. TakenAt("wide break", None) = <<WIDE, RELEASE>>
      BY TakenIs, Zenon
    <3>3. Append(<<WIDE>>, RELEASE) = <<WIDE, RELEASE>>
      BY <1>octets, TwoOf
    <3>4. TakenAt("wide break", None) = Append(TakenAt("wide", low), output)
      BY <2>1, <2>2, <3>2, <3>3
    <3> QED BY <1>4, <2>1, <3>1, <3>4, Zenon
  <2>3. CASE output # RELEASE
    <3>1. GoesOn("wide high", output)
      BY <1>11, <2>3 DEF ReadWide, AfterLow
    <3>2. TakenAt("wide high", output) = <<WIDE, output>>
      BY TakenIs, Zenon
    <3>3. Append(<<WIDE>>, output) = <<WIDE, output>>
      BY <1>3, <1>octets, <2>1, TwoOf
    <3>4. TakenAt("wide high", output) = Append(TakenAt("wide", low), output)
      BY <2>1, <3>2, <3>3
    <3> QED BY <1>4, <2>1, <3>1, <3>4, Zenon
  <2> QED BY <2>2, <2>3
<1>12. CASE ReadWideHigh
  <2>1. Read("wide high") /\ ReturnsWith({"wide"}, Word(low, output))
    BY <1>12 DEF ReadWideHigh
  <2>2. low # RELEASE
    BY <1>3, <2>1 DEF Remembers
  <2>3. Within(<<WIDE, low>>, output, queue, Head(rest), AllBytes(Tail(rest))) /\ Head(rest) \in Events
    BY <1>6, <2>1, TakenIs, Zenon
  <2>4. Head(rest) = [type |-> {"wide"}, code |-> Word(low, output)] /\ queue = AllBytes(Tail(rest))
    BY <2>2, <2>3, WideHighByte, Zenon
  <2> QED BY <1>5, <2>1, <2>4, Zenon
<1>13. CASE ReadWideBreak
  <2>1. Read("wide break") /\ GoesOn("wide break again", output)
    BY <1>13 DEF ReadWideBreak, AfterBreakLow
  <2>2. /\ TakenAt("wide break", low) = <<WIDE, RELEASE>>
        /\ TakenAt("wide break again", output) = <<WIDE, RELEASE, output>>
    BY TakenIs, Zenon
  <2>3. Append(<<WIDE, RELEASE>>, output) = <<WIDE, RELEASE, output>>
    BY <1>3, <1>octets, <2>1, ThreeOf
  <2>4. TakenAt("wide break again", output) = Append(TakenAt("wide break", low), output)
    BY <2>2, <2>3
  <2> QED BY <1>4, <2>1, <2>4, Zenon
<1>14. CASE ReadWideBreakAgain
  <2>1. Read("wide break again") /\ GoesOn("wide break high", low)
    BY <1>14 DEF ReadWideBreakAgain
  <2>2. /\ TakenAt("wide break again", low) = <<WIDE, RELEASE, low>>
        /\ TakenAt("wide break high", low) = <<WIDE, RELEASE, low, RELEASE>>
    BY TakenIs, Zenon
  <2>3. Within(<<WIDE, RELEASE, low>>, output, queue, Head(rest), AllBytes(Tail(rest))) /\ Head(rest) \in Events
    BY <1>6, <2>1, TakenIs, Zenon
  <2>4. output = RELEASE
    BY <2>3, WideBreakByte, Zenon
  <2>5. Append(<<WIDE, RELEASE, low>>, RELEASE) = <<WIDE, RELEASE, low, RELEASE>>
    <3>1. low \in Octets
      BY <1>3, <2>1 DEF Remembers
    <3> QED BY <1>octets, <3>1, FourOf
  <2>6. TakenAt("wide break high", low) = Append(TakenAt("wide break again", low), output)
    BY <2>2, <2>4, <2>5
  <2> QED BY <1>4, <2>1, <2>6, Zenon
<1>15. CASE ReadWideBreakHigh
  <2>1. Read("wide break high") /\ ReturnsWith({"break", "wide"}, Word(low, output))
    BY <1>15 DEF ReadWideBreakHigh
  <2>2. Within(<<WIDE, RELEASE, low, RELEASE>>, output, queue, Head(rest), AllBytes(Tail(rest)))
        /\ Head(rest) \in Events
    BY <1>6, <2>1, TakenIs, Zenon
  <2>3. Head(rest) = [type |-> {"break", "wide"}, code |-> Word(low, output)] /\ queue = AllBytes(Tail(rest))
    BY <2>2, WideBreakHighByte, Zenon
  <2> QED BY <1>5, <2>1, <2>3, Zenon
<1> QED BY <1>2, <1>7, <1>8, <1>9, <1>10, <1>11, <1>12, <1>13, <1>14, <1>15 DEF Handler

LEMMA PressInPlace ==
  ASSUME KTypes, Remembers, NEW e \in Events, Press(e), NEW rest, Pending(rest)
  PROVE  Pending(Append(rest, e))'
<1>1. /\ Taken \in Seq(Octets) /\ Shown \in Seq(Octets) /\ queue \in Seq(Octets)
      /\ Bytes(e) \in Seq(Octets) /\ Shown \o queue \in Seq(Octets)
  BY StreamTypes, BytesAreOctets, ConcatProperties
<1>2. /\ sent' = Append(sent, e) /\ queue' = queue \o Bytes(e)
      /\ UNCHANGED <<output, cpu, low, decoded>>
  BY DEF Press, driver
<1>3. rest \in Seq(Events) /\ sent = decoded \o rest /\ Stream = AllBytes(rest)
  BY DEF Pending
<1>4. Append(rest, e) \in Seq(Events)
  BY <1>3, AppendProperties
<1>5. Stream' = AllBytes(Append(rest, e))
  <2> DEFINE b == Bytes(e)
             t == Taken
             s == Shown
             q == queue
  <2>1. Stream' = t \o (s \o (q \o b))
    BY <1>2 DEF Stream, Taken, Shown
  <2>2. AllBytes(Append(rest, e)) = (t \o (s \o q)) \o b
    BY <1>3, AllBytesAppend DEF Stream
  <2> HIDE DEF b, t, s, q
  <2>3. /\ t \in Seq(Octets) /\ s \in Seq(Octets) /\ q \in Seq(Octets) /\ b \in Seq(Octets)
        /\ s \o q \in Seq(Octets)
    BY <1>1 DEF b, t, s, q
  <2>4. (s \o q) \o b = s \o (q \o b)
    BY <2>3, Associates
  <2>5. (t \o (s \o q)) \o b = t \o ((s \o q) \o b)
    BY <2>3, Associates
  <2> QED BY <2>1, <2>2, <2>4, <2>5
<1>6. sent' = decoded' \o Append(rest, e)
  <2> DEFINE o == <<e>>
  <2>1. decoded \in Seq(Scans) /\ rest \in Seq(Scans) /\ e \in Scans
    BY <1>3, EventsAreScans, SeqMonotonic DEF KTypes
  <2>2. o \in Seq(Scans) /\ decoded \o rest \in Seq(Scans)
    BY <2>1, ConcatProperties
  <2>3. Append(decoded \o rest, e) = (decoded \o rest) \o o /\ Append(rest, e) = rest \o o
    BY <2>1, <2>2, AppendIsConcat
  <2> HIDE DEF o
  <2>4. (decoded \o rest) \o o = decoded \o (rest \o o)
    BY <2>1, <2>2, Associates
  <2> QED BY <1>2, <1>3, <2>3, <2>4
<1> QED BY <1>4, <1>5, <1>6 DEF Pending

LEMMA PresentInPlace ==
  ASSUME KTypes, Remembers, ~translating, Present, NEW rest, Pending(rest)
  PROVE  Pending(rest)'
<1>1. /\ queue # <<>> /\ output = None /\ queue' = Tail(queue) /\ output' = Head(queue)
      /\ UNCHANGED <<sent, cpu, low, decoded>>
  BY DEF Present, driver
<1>2. queue \in Seq(Octets) /\ queue \in Seq(KeyBytes)
  BY StreamTypes DEF KTypes
<1>3. output' # None
  <2>1. Head(queue) \in KeyBytes
    BY <1>1, <1>2, HeadTailProperties
  <2> QED BY <1>1, <2>1, KeyBytesAreBytes DEF None
<1>4. Shown \o queue = queue /\ Shown' \o queue' = <<Head(queue)>> \o Tail(queue)
  BY <1>1, <1>2, <1>3, ConcatEmptySeq DEF Shown
<1>5. <<Head(queue)>> \o Tail(queue) = queue
  BY <1>1, <1>2, HeadAndTail
<1>6. Stream' = Stream
  <2>1. Taken' = Taken
    BY <1>1 DEF Taken
  <2> QED BY <1>4, <1>5, <2>1 DEF Stream
<1> QED BY <1>1, <1>6 DEF Pending

LEMMA EnableInPlace ==
  ASSUME KTypes, Stage, InPlace, EnableFirst, ~cut
  PROVE  \E rest : Pending(rest)'
<1>1. /\ main = "enable" /\ cpu = "main" /\ UNCHANGED <<queue, cpu, low, output, decoded>>
      /\ sent' = decoded \o Newest(CHOOSE n \in Unsent : TRUE)
  BY DEF EnableFirst, InitStep, driver
<1>2. output = None /\ sent \in Seq(Events) /\ Unsent # {}
  BY <1>1 DEF Stage, InPlace, Off, Ready
<1>3. PICK n \in Unsent : n = CHOOSE k \in Unsent : TRUE
  BY <1>2
<1>4. n \in 0 .. Len(sent) /\ queue = AllBytes(Newest(n))
  BY DEF Unsent
<1>5. Newest(n) \in Seq(Events)
  BY <1>2, <1>4, NewestOf
<1>6. Stream' = queue
  <2>1. Taken' = <<>> /\ Shown' = <<>>
    BY <1>1, <1>2, TakenIs DEF Taken, Shown
  <2>2. queue \in Seq(KeyBytes)
    BY DEF KTypes
  <2>3. <<>> \o (<<>> \o queue) = queue
    BY <2>2, ConcatEmptySeq
  <2> QED BY <1>1, <2>1, <2>3 DEF Stream
<1>7. PICK rest : rest = Newest(n)
  OBVIOUS
<1>8. Pending(rest)'
  BY <1>1, <1>3, <1>4, <1>5, <1>6, <1>7 DEF Pending
<1> QED BY <1>8

LEMMA PressUnsent ==
  ASSUME KTypes, sent \in Seq(Events), Unsent # {}, NEW e \in Events, Press(e)
  PROVE  Unsent' # {}
<1>1. sent' = Append(sent, e) /\ queue' = queue \o Bytes(e)
  BY DEF Press
<1>2. PICK n \in 0 .. Len(sent) : queue = AllBytes(Newest(n))
  BY DEF Unsent
<1>3. Len(sent) \in Nat /\ Len(sent') = Len(sent) + 1
  BY <1>1, AppendProperties
<1>4. Newest(n + 1)' = Append(Newest(n), e)
  <2> DEFINE m == Len(sent) - n + 1
             l == Len(sent)
             u == Append(sent, e)
  <2>1. m \in Int /\ l \in Nat /\ m <= l + 1 /\ m >= 1 /\ l - m + 1 = n /\ (l + 1) - m + 1 = n + 1
        /\ (l + 1) - (n + 1) + 1 = m
    BY <1>3
  <2>2. /\ u \in Seq(Events) /\ Len(u) = l + 1
        /\ \A i \in 1 .. l : u[i] = sent[i]
        /\ u[l + 1] = e
    BY AppendProperties
  <2>3. Newest(n + 1)' = SubSeq(u, m, l + 1) /\ Newest(n) = SubSeq(sent, m, l)
    BY <1>1, <1>3, <2>1 DEF Newest
  <2> HIDE DEF m, l, u
  <2>4. \A i \in m .. l : sent[i] \in Events
    BY <2>1 DEF l
  <2>5. \A i \in m .. l + 1 : u[i] \in Events
    BY <2>1, <2>2
  <2>6. /\ SubSeq(sent, m, l) \in Seq(Events) /\ Len(SubSeq(sent, m, l)) = n
        /\ \A i \in 1 .. n : SubSeq(sent, m, l)[i] = sent[m + i - 1]
    <3>1. /\ SubSeq(sent, m, l) \in Seq(Events)
          /\ Len(SubSeq(sent, m, l)) = IF m <= l THEN l - m + 1 ELSE 0
          /\ \A i \in 1 .. l - m + 1 : SubSeq(sent, m, l)[i] = sent[m + i - 1]
      BY <2>1, <2>4, SubSeqProperties
    <3>2. (IF m <= l THEN l - m + 1 ELSE 0) = n
      BY <2>1
    <3> QED BY <2>1, <3>1, <3>2
  <2>7. /\ SubSeq(u, m, l + 1) \in Seq(Events) /\ Len(SubSeq(u, m, l + 1)) = n + 1
        /\ \A i \in 1 .. n + 1 : SubSeq(u, m, l + 1)[i] = u[m + i - 1]
    <3>1. /\ SubSeq(u, m, l + 1) \in Seq(Events)
          /\ Len(SubSeq(u, m, l + 1)) = IF m <= l + 1 THEN (l + 1) - m + 1 ELSE 0
          /\ \A i \in 1 .. (l + 1) - m + 1 : SubSeq(u, m, l + 1)[i] = u[m + i - 1]
      BY <2>1, <2>5, SubSeqProperties
    <3> QED BY <2>1, <3>1
  <2> DEFINE a == SubSeq(sent, m, l)
             b == SubSeq(u, m, l + 1)
  <2> HIDE DEF a, b
  <2>8. /\ Append(a, e) \in Seq(Events) /\ Len(Append(a, e)) = n + 1
        /\ \A i \in 1 .. n : Append(a, e)[i] = a[i]
        /\ Append(a, e)[n + 1] = e
    BY <2>6, AppendProperties DEF a
  <2>9. ASSUME NEW i \in 1 .. n + 1 PROVE b[i] = Append(a, e)[i]
    <3>1. CASE i = n + 1
      <4>1. m + i - 1 = l + 1
        BY <2>1, <3>1
      <4> QED BY <2>2, <2>7, <2>8, <3>1, <4>1 DEF b
    <3>2. CASE i # n + 1
      <4>1. i \in 1 .. n /\ m + i - 1 \in 1 .. l
        BY <2>1, <3>2
      <4>2. b[i] = u[m + i - 1] /\ a[i] = sent[m + i - 1]
        BY <2>6, <2>7, <4>1 DEF a, b
      <4> QED BY <2>2, <2>8, <4>1, <4>2
    <3> QED BY <3>1, <3>2
  <2>10. b = Append(a, e)
    <3>1. b \in Seq(Events) /\ Len(b) = n + 1
      BY <2>7 DEF b
    <3> QED BY <2>8, <2>9, <3>1, SeqEqual
  <2> QED BY <2>3, <2>10 DEF a, b
<1>5. Newest(n) \in Seq(Events)
  BY NewestOf
<1>6. queue' = AllBytes(Newest(n + 1)')
  BY <1>1, <1>2, <1>4, <1>5, AllBytesAppend
<1>7. n + 1 \in 0 .. Len(sent')
  BY <1>3
<1>8. n + 1 \in Unsent'
  BY <1>6, <1>7 DEF Unsent, Newest
<1> QED BY <1>8

LEMMA SameStream ==
  ASSUME UNCHANGED <<queue, output, sent, decoded, low>>, Taken' = Taken,
         \E rest : Pending(rest)
  PROVE  \E rest : Pending(rest)'
<1>1. PICK rest : Pending(rest)
  OBVIOUS
<1>2. Pending(rest)'
  BY <1>1 DEF Pending, Stream, Shown
<1> QED BY <1>2

LEMMA InPlaceKept ==
  ASSUME KTypes, Remembers, Stage, InPlace, Next
  PROVE  InPlace'
<1>1. /\ main \notin Ready => sent \in Seq(Events)
      /\ main \in Off /\ ~cut => Unsent # {}
      /\ main \in Ready /\ ~cut => \E rest : Pending(rest)
      /\ (disabled <=> main \in Off)
      /\ Off \cap Ready = {}
  BY DEF InPlace, Stage, Off, Asking, Ready
<1>2. ASSUME UNCHANGED <<queue, sent, main, cut>>
      PROVE  /\ main' \notin Ready => sent' \in Seq(Events)
             /\ main' \in Off /\ ~cut' => Unsent' # {}
  <2>1. Unsent' = Unsent
    BY <1>2 DEF Unsent, Newest
  <2> QED BY <1>1, <1>2, <2>1
<1>3. CASE \E e \in Events : Press(e)
  <2>1. PICK e \in Events : Press(e)
    BY <1>3
  <2>2. sent' = Append(sent, e) /\ UNCHANGED <<main, cut>>
    BY <2>1 DEF Press, program, setup
  <2>3. main' \notin Ready => sent' \in Seq(Events)
    BY <1>1, <2>2, AppendProperties
  <2>4. main' \in Off /\ ~cut' => Unsent' # {}
    BY <1>1, <2>1, <2>2, PressUnsent
  <2>5. main' \in Ready /\ ~cut' => \E rest : Pending(rest)'
    <3> SUFFICES ASSUME main' \in Ready, ~cut' PROVE \E rest : Pending(rest)'
      OBVIOUS
    <3>1. PICK rest : Pending(rest)
      BY <1>1, <2>2
    <3>2. Pending(Append(rest, e))'
      BY <2>1, <3>1, PressInPlace
    <3> QED BY <3>2
  <2> QED BY <2>3, <2>4, <2>5, Zenon DEF InPlace
<1>4. CASE Present
  <2>1. ~disabled /\ UNCHANGED <<sent, main, cut>>
    BY <1>4 DEF Present, program, setup
  <2>2. main' \notin Off /\ (main' \notin Ready => sent' \in Seq(Events))
    BY <1>1, <2>1
  <2>3. main' \in Ready /\ ~cut' => \E rest : Pending(rest)'
    <3> SUFFICES ASSUME main' \in Ready, ~cut' PROVE \E rest : Pending(rest)'
      OBVIOUS
    <3>1. PICK rest : Pending(rest)
      BY <1>1, <2>1
    <3>2. ~translating
      BY <2>1 DEF Stage
    <3>3. Pending(rest)'
      BY <1>4, <3>1, <3>2, PresentInPlace
    <3> QED BY <3>3
  <2> QED BY <2>2, <2>3, Zenon DEF InPlace
<1>5. CASE Answer
  <2>1. asked # <<>> /\ UNCHANGED <<queue, sent, main, cut>>
    BY <1>5 DEF Answer, program, setup
  <2>2. main' \notin Ready
    BY <2>1 DEF Stage, Asking, Ready
  <2> QED BY <1>2, <2>1, <2>2, Zenon DEF InPlace
<1>6. CASE Accept
  <2>1. /\ cpu = "main" /\ cpu' \in {"main", "first"}
        /\ UNCHANGED <<queue, output, sent, low, decoded, main, cut>>
    BY <1>6 DEF Accept, driver, program, setup
  <2>2. Taken' = Taken
    BY <2>1, TakenIs DEF Taken
  <2>3. main' \in Ready /\ ~cut' => \E rest : Pending(rest)'
    BY <1>1, <2>1, <2>2, SameStream
  <2> QED BY <1>2, <2>1, <2>3, Zenon DEF InPlace
<1>7. CASE Handler
  <2>1. UNCHANGED <<queue, sent, main, cut>>
    BY <1>7, HandlerLeaves, Zenon DEF program, setup
  <2>2. main' \in Ready /\ ~cut' => \E rest : Pending(rest)'
    <3> SUFFICES ASSUME main' \in Ready, ~cut' PROVE \E rest : Pending(rest)'
      OBVIOUS
    <3>1. PICK rest : Pending(rest)
      BY <1>1, <2>1
    <3> QED BY <1>7, <3>1, HandlerInPlace
  <2> QED BY <1>2, <2>1, <2>2, Zenon DEF InPlace
<1>8. CASE Initialize /\ ~EnableFirst
  <2>1. /\ UNCHANGED <<queue, sent>> /\ main \notin Ready /\ main' \notin Ready
        /\ \/ Unsent # {} \/ cut'
           \/ UNCHANGED cut /\ (main' \in Off => main \in Off)
    <3>1. CASE MapIrq
      BY <3>1 DEF MapIrq, InitStep, device, Ready, Off, Asking
    <3>2. CASE DisablePorts
      <4>1. cut' = (Unsent = {})
        BY <3>2 DEF DisablePorts
      <4>2. Unsent # {} \/ cut'
        BY <4>1
      <4> QED BY <3>2, <4>2 DEF DisablePorts, InitStep, device, Ready
    <3>3. CASE Flush
      BY <3>3 DEF Flush, Poll, InitStep, Ready, Off, Asking
    <3>4. CASE FlushOver
      BY <3>4 DEF FlushOver, InitStep, setup, Ready, Off, Asking
    <3>5. CASE ReadRam0
      BY <3>5 DEF ReadRam0, Poll, InitStep, Ready, Off, Asking
    <3>6. CASE ReadTest
      BY <3>6 DEF ReadTest, Poll, InitStep, Ready, Off, Asking
    <3>7. CASE ReadPortTest
      BY <3>7 DEF ReadPortTest, Poll, InitStep, Ready, Off, Asking
    <3> QED BY <1>8, <3>1, <3>2, <3>3, <3>4, <3>5, <3>6, <3>7 DEF Initialize
  <2>2. Unsent' = Unsent
    BY <2>1 DEF Unsent, Newest
  <2>3. main' \in Off /\ ~cut' => Unsent' # {}
    <3>1. CASE Unsent # {} \/ cut'
      BY <2>2, <3>1
    <3>2. CASE UNCHANGED cut /\ (main' \in Off => main \in Off)
      BY <1>1, <2>2, <3>2
    <3> QED BY <2>1, <3>1, <3>2
  <2> QED BY <1>1, <2>1, <2>3, Zenon DEF InPlace
<1>9. CASE EnableFirst
  <2>1. main' \in Ready /\ UNCHANGED cut
    BY <1>9 DEF EnableFirst, InitStep, Ready
  <2> QED BY <1>1, <1>9, <2>1, EnableInPlace DEF InPlace
<1>10. CASE WaitChar \/ WaitOver \/ ReturnChr
  <2>1. /\ UNCHANGED <<queue, output, sent, low, decoded, cpu, cut>> /\ main \in Ready /\ main' \in Ready
    BY <1>10 DEF WaitChar, WaitOver, ReturnChr, device, driver, setup, Ready
  <2>2. Taken' = Taken
    BY <2>1 DEF Taken
  <2>3. main' \in Ready /\ ~cut' => \E rest : Pending(rest)'
    BY <1>1, <2>1, <2>2, SameStream
  <2> QED BY <1>1, <2>1, <2>3 DEF InPlace
<1> QED BY <1>3, <1>4, <1>5, <1>6, <1>7, <1>8, <1>9, <1>10 DEF Next, Initialize

(* The characters and the calls of wait_char.                              *)
LEMMA ReturnsAsTyped ==
  ASSUME KTypes, NEW type, NEW code, Returnable(type, code), ReturnsWith(type, code), AsTyped
  PROVE  AsTyped'
<1> DEFINE e == [type |-> type, code |-> code]
           n == Len(decoded)
<1>1. /\ decoded \in Seq(Scans) /\ e \in Scans /\ decoded' = Append(decoded, e)
  <2>1. type \in SUBSET {"normal", "break", "extended", "wide"} /\ code \in Nat
    BY DEF Returnable, Types
  <2> QED BY <2>1 DEF KTypes, Scans, ReturnsWith
<1>2. /\ n \in Nat /\ Len(decoded') = n + 1 /\ decoded'[n + 1] = e
      /\ \A i \in 1 .. n : decoded'[i] = decoded[i]
      /\ DOMAIN decoded = 1 .. n /\ DOMAIN decoded' = 1 .. n + 1
  BY <1>1, AppendProperties, LenProperties
<1>3. CASE \E i \in DOMAIN decoded : MadeUpRelease(decoded[i])
  <2>1. PICK i \in 1 .. n : MadeUpRelease(decoded[i])
    BY <1>2, <1>3
  <2>2. i \in DOMAIN decoded' /\ MadeUpRelease(decoded'[i])
    BY <1>2, <2>1
  <2> QED BY <2>2, Zenon DEF AsTyped
<1>4. CASE MadeUpRelease(e)
  <2>1. n + 1 \in DOMAIN decoded'
    BY <1>2
  <2> QED BY <1>2, <1>4, <2>1 DEF AsTyped
<1>5. CASE shift = Held(decoded, n) /\ typed = TypedBy(decoded) /\ ~MadeUpRelease(e)
  <2>1. IsShift(type, code) <=> IsShiftKey(e)
    <3>1. CASE type = {"normal"} \/ type = {"break"}
      <4>1. type \ {"extended"} # {}
        BY <3>1
      <4> QED BY <3>1, <4>1 DEF IsShift, IsShiftKey
    <3>2. CASE type = {"extended"}
      <4>1. type \ {"extended"} = {} /\ type \notin {{"normal"}, {"break"}}
        BY <3>2
      <4> QED BY <4>1 DEF IsShift, IsShiftKey
    <3>3. CASE type = {"break", "extended"} \/ "wide" \in type \/ type = {}
      <4>1. code # LeftShift
        BY <1>5, <3>3 DEF MadeUpRelease, Returnable
      <4> QED BY <4>1 DEF IsShift, IsShiftKey
    <3>4. type = {"wide"} \/ type = {"break", "wide"} => "wide" \in type
      OBVIOUS
    <3> QED BY <3>1, <3>2, <3>3, <3>4 DEF Types, Returnable
  <2>2. Held(decoded', n + 1) = IF IsShiftKey(e) THEN e.type = {"normal"} ELSE Held(decoded, n)
    BY <1>1, HeldAfter
  <2>3. TypedBy(decoded') = IF e.type = {"normal"} /\ e.code \in Keys
                            THEN Append(TypedBy(decoded), <<Held(decoded', n + 1), e.code>>)
                            ELSE TypedBy(decoded)
    BY <1>1, TypedByAppend
  <2>4. e.type = type /\ e.code = code
    OBVIOUS
  <2> HIDE DEF e, n
  <2>5. shift' = Held(decoded', n + 1) /\ typed' = TypedBy(decoded')
    <3>1. CASE IsShift(type, code)
      <4>1. shift' = (type # {"break"}) /\ typed' = typed /\ code = LeftShift
        BY <3>1 DEF ReturnsWith, IsShift
      <4>2. Held(decoded', n + 1) = (type = {"normal"})
        BY <2>1, <2>2, <2>4, <3>1
      <4>3. (type # {"break"}) = (type = {"normal"})
        <5>1. type = {"normal"} \/ type = {"break"}
          BY <2>1, <2>4, <3>1 DEF IsShiftKey
        <5> QED BY <5>1, TypesAre
      <4>4. typed' = TypedBy(decoded')
        BY <1>5, <2>3, <2>4, <4>1, KeysAssumption
      <4> QED BY <4>1, <4>2, <4>3, <4>4
    <3>2. CASE ~IsShift(type, code)
      <4>1. shift' = shift /\ DispatchScancode(type, code)
        BY <3>2 DEF ReturnsWith
      <4>2. Held(decoded', n + 1) = shift
        BY <1>5, <2>1, <2>2, <3>2
      <4>3. typed' = IF type = {"normal"} /\ code \in Keys THEN Append(typed, <<shift, code>>) ELSE typed
        BY <4>1 DEF DispatchScancode, Translated
      <4> QED BY <1>5, <2>3, <2>4, <4>1, <4>2, <4>3
    <3> QED BY <3>1, <3>2
  <2> QED BY <1>2, <2>5, Zenon DEF AsTyped
<1> QED BY <1>3, <1>4, <1>5 DEF AsTyped

LEMMA AsTypedKept ==
  ASSUME KTypes, Remembers, Stage, AsTyped, Next
  PROVE  AsTyped'
<1>1. CASE UNCHANGED <<shift, decoded, typed>>
  <2>1. PICK s, d, t : s = shift /\ d = decoded /\ t = typed /\ shift' = s /\ decoded' = d /\ typed' = t
    BY <1>1
  <2>2. \/ \E i \in DOMAIN d : MadeUpRelease(d[i])
        \/ s = Held(d, Len(d)) /\ t = TypedBy(d)
    BY <2>1, Zenon DEF AsTyped
  <2> QED BY <2>1, <2>2, Zenon DEF AsTyped
<1>2. CASE Handler
  <2>1. CASE UNCHANGED driver
    BY <1>1, <2>1 DEF driver
  <2>2. ASSUME NEW type, NEW code, Returnable(type, code), ReturnsWith(type, code) PROVE AsTyped'
    BY <2>2, ReturnsAsTyped, Zenon
  <2> QED BY <1>2, <2>1, <2>2, ReadReturns, Zenon
<1>3. CASE ~Handler
  <2>1. UNCHANGED <<shift, decoded, typed>>
    BY <1>3 DEF Next, Press, Present, Answer, Accept, WaitChar, WaitOver, ReturnChr, Initialize,
       InitStep, MapIrq, DisablePorts, Flush, FlushOver, ReadRam0, ReadTest, ReadPortTest,
       EnableFirst, Poll, driver
  <2> QED BY <1>1, <2>1
<1> QED BY <1>2, <1>3

LEMMA FreshKept ==
  ASSUME KTypes, Remembers, Stage, Fresh, Next
  PROVE  Fresh'
<1>1. /\ typed \in Seq(Chars) /\ calledAt \in 0 .. Len(typed) /\ Len(typed) \in Nat
      /\ main = "spin" => (waiting <=> Len(typed) = calledAt)
      /\ main = "leave" => Len(typed) > calledAt
      /\ typed # <<>> => chr = Last(typed)
  <2>1. typed \in Seq(Chars) /\ calledAt \in 0 .. Len(typed)
    BY DEF KTypes
  <2>2. /\ main = "spin" => waiting = (Len(typed) = calledAt)
        /\ main = "leave" => Len(typed) > calledAt
        /\ typed # <<>> => chr = Last(typed)
    BY DEF Fresh, WaitEndsWithFreshKey
  <2>3. Len(typed) \in Nat
    BY <2>1
  <2>4. main = "spin" => (waiting <=> Len(typed) = calledAt)
    BY <2>2
  <2> QED BY <2>1, <2>2, <2>3, <2>4
<1>2. waiting \in BOOLEAN /\ waiting' \in BOOLEAN
  BY FlagsKept, Zenon DEF KTypes, Flags
<1>3. SUFFICES /\ main' = "spin" => (waiting' <=> Len(typed') = calledAt')
               /\ main' = "leave" => Len(typed') > calledAt'
               /\ typed' # <<>> => chr' = Last(typed')
               /\ typed' \in Seq(Chars) /\ calledAt' \in Nat
  <2>1. ASSUME /\ main' = "spin" => (waiting' <=> Len(typed') = calledAt')
               /\ main' = "leave" => Len(typed') > calledAt'
               /\ typed' # <<>> => chr' = Last(typed')
               /\ typed' \in Seq(Chars) /\ calledAt' \in Nat
        PROVE  Fresh'
    <3>1. main' = "leave" => typed' # <<>>
      BY <2>1
    <3>2. main' = "spin" => waiting' = (Len(typed') = calledAt')
      BY <1>2, <2>1
    <3> QED BY <2>1, <3>1, <3>2, Zenon DEF Fresh, WaitEndsWithFreshKey
  <2> QED BY <2>1, Zenon
<1>4. CASE Handler
  <2>1. UNCHANGED program
    BY <1>4, HandlerLeaves, Zenon
  <2>2. CASE UNCHANGED driver
    BY <1>1, <2>1, <2>2 DEF driver, program
  <2>3. ASSUME NEW type, NEW code, Returnable(type, code), ReturnsWith(type, code)
        PROVE  UNCHANGED <<chr, waiting, typed>> \/ (waiting' = FALSE /\ typed' = Append(typed, chr') /\ chr' \in Chars)
    <3>1. CASE UNCHANGED <<chr, waiting, typed>>
      BY <3>1
    <3>2. CASE Translated(type, code) /\ DispatchScancode(type, code)
      <4>1. chr' = <<shift, code>> /\ waiting' = FALSE /\ typed' = Append(typed, chr') /\ code \in Keys
        BY <3>2 DEF DispatchScancode, Translated
      <4>2. shift \in BOOLEAN
        BY Zenon DEF KTypes, Flags
      <4>3. chr' \in Chars
        BY <4>1, <4>2 DEF Chars
      <4> QED BY <4>1, <4>3, Zenon
    <3> QED BY <2>3, <3>1, <3>2 DEF ReturnsWith, DispatchScancode
  <2>4. CASE UNCHANGED <<chr, waiting, typed>>
    BY <1>1, <2>1, <2>4 DEF program
  <2>5. CASE waiting' = FALSE /\ typed' = Append(typed, chr') /\ chr' \in Chars
    <3>1. /\ typed' \in Seq(Chars) /\ Len(typed') = Len(typed) + 1
          /\ typed'[Len(typed) + 1] = chr'
      BY <1>1, <2>5, AppendProperties
    <3>2. Last(typed') = chr'
      BY <3>1 DEF Last
    <3>3. calledAt' = calledAt /\ main' = main
      BY <2>1 DEF program
    <3>4. Len(typed') # calledAt' /\ Len(typed') > calledAt' /\ calledAt' \in Nat
      BY <1>1, <3>1, <3>3
    <3>5. ~waiting'
      BY <2>5
    <3> QED BY <3>1, <3>2, <3>4, <3>5
  <2> QED BY <1>4, <2>2, <2>3, <2>4, <2>5, ReadReturns, Zenon
<1>5. CASE WaitChar
  <2>1. /\ UNCHANGED <<chr, typed>> /\ waiting' = TRUE /\ main' = "spin" /\ calledAt' = Len(typed)
    BY <1>5 DEF WaitChar
  <2> QED BY <1>1, <2>1
<1>6. CASE WaitOver
  <2>1. UNCHANGED <<chr, typed, calledAt>> /\ main = "spin" /\ ~waiting /\ main' = "leave"
    BY <1>6 DEF WaitOver, driver
  <2> QED BY <1>1, <2>1
<1>7. CASE ReturnChr
  <2>1. UNCHANGED <<chr, typed, calledAt>> /\ main' = "idle"
    BY <1>7 DEF ReturnChr, driver
  <2> QED BY <1>1, <2>1
<1>8. CASE Initialize
  <2>1. UNCHANGED <<driver, calledAt>> /\ main' \notin {"spin", "leave"}
    BY <1>8 DEF Initialize, InitStep, MapIrq, DisablePorts, Flush, FlushOver, ReadRam0, ReadTest,
       ReadPortTest, EnableFirst, Poll
  <2> QED BY <1>1, <2>1 DEF driver
<1>9. CASE \/ \E e \in Events : Press(e)
           \/ Present \/ Answer \/ Accept
  <2>1. UNCHANGED <<driver, program>>
    BY <1>9 DEF Press, Present, Answer, Accept
  <2> QED BY <1>1, <2>1 DEF driver, program
<1> QED BY <1>4, <1>5, <1>6, <1>7, <1>8, <1>9 DEF Next

-----------------------------------------------------------------------------
(* The invariant holds in every behaviour.                                 *)
LEMMA KInvInit == Init => KInv
<1> SUFFICES ASSUME Init PROVE KInv
  OBVIOUS
<1>1. /\ queue = <<>> /\ output = None /\ irq = FALSE
      /\ cpu = "main" /\ low = None
      /\ shift = FALSE /\ chr = NoChr /\ waiting = FALSE
      /\ main = "map" /\ mapped = FALSE
      /\ disabled = FALSE /\ translating = TRUE /\ released = FALSE
      /\ asked = <<>> /\ cut = FALSE
      /\ sent = <<>> /\ decoded = <<>> /\ typed = <<>> /\ calledAt = 0
  BY DEF Init
<1>2. KTypes
  <2>1. Flags
    BY <1>1, Zenon DEF Flags
  <2>2. <<>> \in Seq(KeyBytes) /\ <<>> \in Seq(Answers) /\ <<>> \in Seq(Scans) /\ <<>> \in Seq(Chars)
        /\ Len(<<>>) = 0
    OBVIOUS
  <2>3. main \in {"map", "disable"} \cup Off \cup Ready
    BY <1>1
  <2> QED BY <1>1, <2>1, <2>2, <2>3 DEF KTypes
<1>3. Remembers /\ Stage
  BY <1>1 DEF Remembers, Stage, Off, Asking, Ready, None
<1>4. InPlace
  BY <1>1 DEF InPlace, Off, Asking, Ready
<1>5. AsTyped
  <2>1. Held(<<>>, 0) = FALSE
    <3>1. ~Held(<<>>, 0)
      BY DEF Held
    <3> QED BY <3>1, HeldIsBoolean
  <2>2. Len(<<>>) = 0
    OBVIOUS
  <2> QED BY <1>1, <2>1, <2>2, TypedOfNone, Zenon DEF AsTyped
<1>6. Fresh
  BY <1>1 DEF Fresh, WaitEndsWithFreshKey
<1> QED BY <1>2, <1>3, <1>4, <1>5, <1>6 DEF KInv

LEMMA KInvStutter == ASSUME KInv, UNCHANGED vars PROVE KInv'
<1>1. /\ UNCHANGED <<queue, output, irq, sent, released, asked, cpu, low, shift, chr, waiting,
                     decoded, typed, main, calledAt, mapped, disabled, translating, cut>>
  BY DEF vars, device, driver, program, setup
<1>2. KTypes' /\ Remembers' /\ Stage'
  <2>1. Flags'
    BY <1>1, Zenon DEF KInv, KTypes, Flags
  <2>2. KTypes'
    BY <1>1, <2>1 DEF KInv, KTypes
  <2>3. Remembers' /\ Stage'
    BY <1>1 DEF KInv, Remembers, Stage
  <2> QED BY <2>2, <2>3
<1>3. InPlace'
  <2>1. Unsent' = Unsent /\ Taken' = Taken
    BY <1>1 DEF Unsent, Newest, Taken
  <2>2. (\E rest : Pending(rest)) => \E rest : Pending(rest)'
    BY <1>1, <2>1, SameStream
  <2> QED BY <1>1, <2>1, <2>2 DEF KInv, InPlace
<1>4. AsTyped'
  <2>1. PICK s, d, t : s = shift /\ d = decoded /\ t = typed /\ shift' = s /\ decoded' = d /\ typed' = t
    BY <1>1
  <2>2. \/ \E i \in DOMAIN d : MadeUpRelease(d[i])
        \/ s = Held(d, Len(d)) /\ t = TypedBy(d)
    BY <2>1, Zenon DEF KInv, AsTyped
  <2> QED BY <2>1, <2>2, Zenon DEF AsTyped
<1>5. Fresh'
  BY <1>1 DEF KInv, Fresh, WaitEndsWithFreshKey
<1> QED BY <1>2, <1>3, <1>4, <1>5 DEF KInv

LEMMA KInvHolds == Spec => []KInv
<1>1. KInv /\ [Next]_vars => KInv'
  <2> SUFFICES ASSUME KInv, [Next]_vars PROVE KInv'
    OBVIOUS
  <2>1. CASE Next
    BY <2>1, TypesKept, RemembersKept, StageKept, InPlaceKept, AsTypedKept, FreshKept DEF KInv
  <2>2. CASE UNCHANGED vars
    BY <2>2, KInvStutter
  <2> QED BY <2>1, <2>2
<1> QED BY <1>1, KInvInit, PTL DEF Spec

LEMMA Typed == KInv => TypeOK
<1> SUFFICES ASSUME KInv PROVE TypeOK
  OBVIOUS
<1>1. /\ queue \in Seq(KeyBytes) /\ output \in {None} \cup Octets /\ asked \in Seq(Answers)
      /\ low \in {None} \cup Octets /\ typed \in Seq(Chars) /\ calledAt \in 0 .. Len(typed)
      /\ cpu \in {"main", "first", "break", "extended", "extended break", "wide",
                  "wide high", "wide break", "wide break again", "wide break high"}
      /\ chr \in {NoChr} \cup Chars
      /\ main \in {"map", "disable"} \cup Off \cup Ready
  BY DEF KInv, KTypes
<1>2. \A i \in DOMAIN queue : queue[i] \in 0 .. 255
  <2>1. \A i \in DOMAIN queue : queue[i] \in KeyBytes
    BY <1>1, LenProperties, ElementOfSeq
  <2>2. KeyBytes \subseteq 0 .. 255
    BY KeyBytesAreBytes
  <2> QED BY <2>1, <2>2
<1>3. output \in -1 .. 255 /\ low \in -1 .. 255
  <2>1. {None} \cup Octets \subseteq -1 .. 255
    BY DEF Octets, None
  <2> QED BY <1>1, <2>1
<1>4. Range(asked) \subseteq 0 .. 255
  <2>1. \A i \in DOMAIN asked : asked[i] \in Answers
    BY <1>1, LenProperties, ElementOfSeq
  <2>2. Answers \subseteq 0 .. 255
    BY DEF Answers, ConfigByte, TestPassed, PortPassed
  <2> QED BY <2>1, <2>2 DEF Range
<1>5. {irq, shift, waiting, mapped, disabled, translating, released, cut} \subseteq BOOLEAN
  BY Zenon DEF KInv, KTypes, Flags
<1>6. main \in {"map", "disable", "flush", "ram0", "test", "port", "enable", "bad"} \cup Ready
  BY <1>1 DEF Off, Asking
<1> QED BY <1>1, <1>2, <1>3, <1>4, <1>5, <1>6, Zenon DEF TypeOK, Chars

LEMMA Framed == KInv => FramingKept
<1> SUFFICES ASSUME KInv PROVE FramingKept
  OBVIOUS
<1>1. SUFFICES ASSUME main \in Ready, ~cut
               PROVE  /\ IsPrefix(decoded, sent)
                      /\ (cpu = "main" /\ queue = <<>> /\ output = None) => decoded = sent
  BY Typed DEF FramingKept
<1>2. PICK rest : Pending(rest)
  BY <1>1 DEF KInv, InPlace
<1>3. rest \in Seq(Events) /\ sent = decoded \o rest /\ Stream = AllBytes(rest)
  BY <1>2 DEF Pending
<1>4. decoded \in Seq(Scans) /\ sent \in Seq(Scans) /\ rest \in Seq(Scans)
  BY <1>3, EventsAreScans, SeqMonotonic DEF KInv, KTypes
<1>5. IsPrefix(decoded, sent)
  <2>1. /\ Len(sent) = Len(decoded) + Len(rest)
        /\ \A i \in 1 .. Len(decoded) + Len(rest) : sent[i] =
             IF i <= Len(decoded) THEN decoded[i] ELSE rest[i - Len(decoded)]
    BY <1>3, <1>4, ConcatProperties
  <2>2. Len(decoded) \in Nat /\ Len(rest) \in Nat
    BY <1>4
  <2>3. \A i \in 1 .. Len(decoded) : sent[i] = decoded[i]
    BY <2>1, <2>2
  <2> DEFINE n == Len(decoded)
             d == SubSeq(decoded, 1, n)
             s == SubSeq(sent, 1, n)
  <2>4. \A i \in 1 .. n : decoded[i] \in Scans /\ sent[i] \in Scans
    BY <1>4, <2>1, <2>2
  <2>5. d \in Seq(Scans) /\ Len(d) = n /\ \A i \in 1 .. n : d[i] = decoded[i]
    BY <1>4, <2>2, <2>4, SubSeqProperties
  <2>6. s \in Seq(Scans) /\ Len(s) = n /\ \A i \in 1 .. n : s[i] = sent[i]
    BY <1>4, <2>2, <2>4, SubSeqProperties
  <2>7. d = s
    <3> HIDE DEF d, s
    <3> QED BY <2>3, <2>5, <2>6, SeqEqual
  <2> QED BY <2>1, <2>2, <2>7 DEF IsPrefix
<1>6. ASSUME cpu = "main", queue = <<>>, output = None PROVE decoded = sent
  <2>1. Stream = <<>>
    <3>1. Taken = <<>> /\ Shown = <<>>
      BY <1>6, TakenIs DEF Taken, Shown
    <3>2. <<>> \o (<<>> \o <<>>) = <<>>
      BY ConcatEmptySeq, EmptySeq
    <3> QED BY <1>6, <3>1, <3>2 DEF Stream
  <2>2. rest = <<>>
    <3> SUFFICES ASSUME rest # <<>> PROVE FALSE
      OBVIOUS
    <3>1. Head(rest) \in Events /\ Tail(rest) \in Seq(Events)
      BY <1>3, HeadTailProperties
    <3>2. <<>> = Bytes(Head(rest)) \o AllBytes(Tail(rest))
      BY <1>3, <2>1, AllBytesFirst
    <3>3. /\ Bytes(Head(rest)) \in Seq(KeyBytes) /\ Len(Bytes(Head(rest))) \in Nat \ {0}
          /\ AllBytes(Tail(rest)) \in Seq(KeyBytes)
      BY <3>1, BytesInSeq, AllBytesType
    <3>4. Len(Bytes(Head(rest)) \o AllBytes(Tail(rest))) > 0
      <4> DEFINE a == Bytes(Head(rest))
                 b == AllBytes(Tail(rest))
      <4> HIDE DEF a, b
      <4>1. a \in Seq(KeyBytes) /\ Len(a) \in Nat \ {0} /\ b \in Seq(KeyBytes)
        BY <3>3 DEF a, b
      <4>2. Len(a \o b) = Len(a) + Len(b) /\ Len(b) \in Nat
        BY <4>1, ConcatProperties
      <4>3. Len(a \o b) > 0
        BY <4>1, <4>2
      <4> QED BY <4>3 DEF a, b
    <3>5. Len(<<>>) = 0
      OBVIOUS
    <3> QED BY <3>2, <3>4, <3>5
  <2> QED BY <1>3, <1>4, <2>2, ConcatEmptySeq
<1> QED BY <1>5, <1>6

-----------------------------------------------------------------------------
(* ps2_read keeps its place: the events it has read are the first ones     *)
(* reported, and all of them when nothing is left to read.                 *)
THEOREM KeepsItsPlace == Spec => []FramingKept
BY KInvHolds, Framed, PTL

(* The characters that kbd_interrupt stores are those of the keys, with    *)
(* the shift that was held, up to the release of a made-up shift.          *)
THEOREM StoresTheKeys == Spec => []CharsMatchKeys
<1>1. KInv => CharsMatchKeys
  BY DEF KInv, AsTyped, CharsMatchKeys
<1> QED BY <1>1, KInvHolds, PTL

(* wait_char leaves its loop for a key stored since it was called, and     *)
(* chr is the newest key.                                                  *)
THEOREM WaitsForAKey == Spec => []WaitEndsWithFreshKey
<1>1. KInv => WaitEndsWithFreshKey
  BY DEF KInv, Fresh
<1> QED BY <1>1, KInvHolds, PTL
=============================================================================
