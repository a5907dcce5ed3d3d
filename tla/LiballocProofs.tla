--------------------------- MODULE LiballocProofs ---------------------------
(***************************************************************************)
(* Proofs about the kernel heap, for every size of pages, headers and      *)
(* requests as long as no request is so large that its size wraps          *)
(* (SizesFit): no byte is in two places, the lists and counters are right, *)
(* l_bestBet never dangles, and pages are asked for only when no major has *)
(* a gap for the block.                                                    *)
(*                                                                         *)
(* The inductive invariant adds to these that the majors have an order in  *)
(* which next and prev lead to neighbours and in which the loop of kmalloc *)
(* has left behind only majors without room; that the lists of minors are  *)
(* in the order of their addresses; and where a major without a block can  *)
(* be while a call runs.  That usage never reaches past the pages of a     *)
(* major, so that what is unused never wraps and is no less than any gap,  *)
(* follows by packing the minors between the ends of the major.            *)
(***************************************************************************)
EXTENDS Liballoc, FiniteSetTheorems, WellFoundedInduction, TLAPS

-----------------------------------------------------------------------------
(* Induction.  A set of numbers has a least member; a function defined by  *)
(* iteration exists, which is what a recursive definition needs to mean    *)
(* what it says.                                                           *)
LEMMA Least ==
  ASSUME NEW T, T \subseteq Nat, T # {}
  PROVE  \E x \in T : \A y \in T : x <= y
<1>1. IsWellFoundedOn(OpToRel(<, Nat), Nat)
  BY NatLessThanWellFounded
<1>2. PICK x \in T : \A y \in T : ~ (<<y, x>> \in OpToRel(<, Nat))
  <2> HIDE DEF OpToRel, IsWellFoundedOn
  <2> QED BY <1>1, WFMin, Zenon
<1>3. \A y \in T : ~ (y < x)
  BY <1>2 DEF OpToRel
<1> QED BY <1>3

Iterates(f, x0, g) == f[0] = x0 /\ \A k \in Nat : f[k + 1] = g[k][f[k]]
LEMMA Recursion ==
  ASSUME NEW S, NEW x0 \in S, NEW g \in [Nat -> [S -> S]]
  PROVE  \E f \in [Nat -> S] : Iterates(f, x0, g)
<1> DEFINE Starts(h, n) == h[0] = x0 /\ \A k \in 0 .. n - 1 : h[k + 1] = g[k][h[k]]
           Good(n) == {h \in [0 .. n -> S] : Starts(h, n)}
<1>1. \A n \in Nat : Good(n) # {}
  <2> DEFINE T == {n \in Nat : Good(n) = {}}
  <2> SUFFICES ASSUME T # {} PROVE FALSE
    OBVIOUS
  <2>1. PICK n \in T : \A y \in T : n <= y
    <3> HIDE DEF T
    <3> QED BY Least DEF T
  <2>2. n # 0
    <3>1. [i \in 0 .. 0 |-> x0] \in Good(0)
      OBVIOUS
    <3> QED BY <3>1, <2>1
  <2>3. n - 1 \in Nat /\ n - 1 \notin T
    BY <2>1, <2>2
  <2>4. PICK h : h \in Good(n - 1)
    BY <2>3
  <2> DEFINE j == [i \in 0 .. n |-> IF i < n THEN h[i] ELSE g[n - 1][h[n - 1]]]
  <2>5. h \in [0 .. n - 1 -> S] /\ Starts(h, n - 1)
    BY <2>4
  <2>6. h[n - 1] \in S /\ g[n - 1][h[n - 1]] \in S
    BY <2>3, <2>5
  <2>7. j \in [0 .. n -> S]
    BY <2>5, <2>6, <2>3
  <2>8. Starts(j, n)
    <3>1. j[0] = x0
      BY <2>5, <2>2, <2>3
    <3>2. ASSUME NEW k \in 0 .. n - 1 PROVE j[k + 1] = g[k][j[k]]
      BY <2>5, <2>2, <2>3
    <3> QED BY <3>1, <3>2
  <2> QED BY <2>7, <2>8, <2>1
<1>2. ASSUME NEW m \in Nat, NEW n \in Nat, m <= n, NEW h \in Good(m), NEW j \in Good(n)
      PROVE  \A k \in 0 .. m : h[k] = j[k]
  <2> DEFINE T == {k \in 0 .. m : h[k] # j[k]}
  <2> SUFFICES ASSUME T # {} PROVE FALSE
    OBVIOUS
  <2>1. PICK k \in T : \A y \in T : k <= y
    <3>1. T \subseteq Nat
      OBVIOUS
    <3> HIDE DEF T
    <3> QED BY <3>1, Least
  <2>2. Starts(h, m) /\ Starts(j, n)
    OBVIOUS
  <2>3. k # 0
    BY <2>1, <2>2
  <2>4. k - 1 \in 0 .. m - 1 /\ k - 1 \in 0 .. n - 1 /\ h[k - 1] = j[k - 1]
    BY <2>1, <2>3, <1>2
  <2>5. h[k] = g[k - 1][h[k - 1]] /\ j[k] = g[k - 1][j[k - 1]]
    BY <2>2, <2>4, <2>1
  <2> QED BY <2>1, <2>4, <2>5
<1> DEFINE c(n) == CHOOSE h : h \in Good(n)
           f == [n \in Nat |-> c(n)[n]]
<1>3. \A n \in Nat : c(n) \in Good(n)
  BY <1>1, Zenon
<1>4. f \in [Nat -> S]
  <2> HIDE DEF c
  <2> QED BY <1>3
<1>5. f[0] = x0
  <2> HIDE DEF c
  <2> QED BY <1>3
<1>6. ASSUME NEW k \in Nat PROVE f[k + 1] = g[k][f[k]]
  <2>1. c(k) \in Good(k) /\ c(k + 1) \in Good(k + 1)
    <3> HIDE DEF c, Good
    <3> QED BY <1>3
  <2> HIDE DEF c
  <2>2. c(k)[k] = c(k + 1)[k]
    <3> HIDE DEF Good
    <3> QED BY <2>1, <1>2
  <2>3. c(k + 1)[k + 1] = g[k][c(k + 1)[k]]
    BY <2>1
  <2> QED BY <2>2, <2>3
<1> HIDE DEF f
<1> QED BY <1>4, <1>5, <1>6 DEF Iterates

-----------------------------------------------------------------------------
(* Sums, as the recursive function they are defined by.                    *)
At(f, k) == IF k \in DOMAIN f THEN f[k] ELSE 0
LEMMA SumDef ==
  ASSUME NEW f, \A x \in DOMAIN f : f[x] \in Int
  PROVE  /\ SumBelow(f, 0) = 0
         /\ \A n \in Nat : SumBelow(f, n) \in Int /\ SumBelow(f, n + 1) = SumBelow(f, n) + At(f, n)
<1> DEFINE g == [k \in Nat |-> [v \in Int |-> v + At(f, k)]]
<1>1. \A k \in Nat : At(f, k) \in Int
  BY DEF At
<1>2. g \in [Nat -> [Int -> Int]]
  BY <1>1
<1>3. PICK s \in [Nat -> Int] : Iterates(s, 0, g)
  <2>1. 0 \in Int
    OBVIOUS
  <2> HIDE DEF g
  <2> QED BY <1>2, <2>1, Recursion
<1>4. \A k \in Nat : s[k + 1] = s[k] + At(f, k)
  BY <1>3 DEF Iterates
<1> DEFINE Body(t) == [k \in Nat |-> IF k = 0 THEN 0
              ELSE t[k - 1] + (IF k - 1 \in DOMAIN f THEN f[k - 1] ELSE 0)]
<1>5. s = Body(s)
  <2>1. ASSUME NEW k \in Nat PROVE s[k] = Body(s)[k]
    <3>1. CASE k = 0
      BY <3>1, <1>3 DEF Iterates
    <3>2. CASE k # 0
      <4>1. k - 1 \in Nat /\ k = (k - 1) + 1
        BY <3>2
      <4>2. s[k] = s[k - 1] + At(f, k - 1)
        BY <4>1, <1>4
      <4> QED BY <4>2, <3>2 DEF At
    <3> QED BY <3>1, <3>2
  <2> QED BY <2>1
<1> DEFINE t == CHOOSE t : t = Body(t)
<1>6. t = Body(t)
  <2> HIDE DEF Body
  <2> QED BY <1>5
<1>7. \A n \in Nat : SumBelow(f, n) = t[n]
  BY DEF SumBelow
<1>8. t[0] = 0 /\ \A n \in Nat : t[n + 1] = t[n] + At(f, n)
  <2> HIDE DEF t
  <2>1. t[0] = 0
    BY <1>6
  <2>2. ASSUME NEW n \in Nat PROVE t[n + 1] = t[n] + At(f, n)
    <3>1. n + 1 \in Nat /\ n + 1 # 0 /\ (n + 1) - 1 = n
      OBVIOUS
    <3> QED BY <3>1, <1>6 DEF At
  <2> QED BY <2>1, <2>2
<1>9. \A n \in Nat : t[n] \in Int
  <2> DEFINE T == {n \in Nat : t[n] \notin Int}
  <2> SUFFICES ASSUME T # {} PROVE FALSE
    OBVIOUS
  <2>1. PICK n \in T : \A y \in T : n <= y
    <3>1. T \subseteq Nat
      OBVIOUS
    <3> HIDE DEF T
    <3> QED BY <3>1, Least
  <2> HIDE DEF t
  <2>2. n # 0
    BY <2>1, <1>8
  <2>3. n - 1 \in Nat /\ t[n - 1] \in Int /\ n = (n - 1) + 1
    BY <2>1, <2>2
  <2> QED BY <2>1, <2>3, <1>8, <1>1
<1> QED
  <2> HIDE DEF t
  <2> QED BY <1>7, <1>8, <1>9

(* Two functions that differ in one place have sums that differ by that.   *)
LEMMA SumsDiffer ==
  ASSUME NEW f, \A k \in DOMAIN f : f[k] \in Int,
         NEW g, \A k \in DOMAIN g : g[k] \in Int,
         NEW x \in Nat, \A k \in Nat : k # x => At(f, k) = At(g, k)
  PROVE  \A n \in Nat :
           SumBelow(g, n) = SumBelow(f, n) + IF x < n THEN At(g, x) - At(f, x) ELSE 0
<1> DEFINE d(n) == IF x < n THEN At(g, x) - At(f, x) ELSE 0
           T == {n \in Nat : SumBelow(g, n) # SumBelow(f, n) + d(n)}
<1> SUFFICES ASSUME T # {} PROVE FALSE
  OBVIOUS
<1>1. PICK n \in T : \A y \in T : n <= y
  <2>1. T \subseteq Nat
    OBVIOUS
  <2> HIDE DEF T
  <2> QED BY <2>1, Least
<1>2. \A k \in Nat : At(f, k) \in Int /\ At(g, k) \in Int
  BY DEF At
<1>3. /\ SumBelow(f, 0) = 0 /\ SumBelow(g, 0) = 0
      /\ \A k \in Nat : /\ SumBelow(f, k) \in Int /\ SumBelow(g, k) \in Int
                        /\ SumBelow(f, k + 1) = SumBelow(f, k) + At(f, k)
                        /\ SumBelow(g, k + 1) = SumBelow(g, k) + At(g, k)
  BY SumDef
<1>4. n # 0
  BY <1>1, <1>3
<1>5. n - 1 \in Nat /\ n - 1 \notin T /\ n = (n - 1) + 1
  BY <1>1, <1>4
<1>6. SumBelow(g, n - 1) = SumBelow(f, n - 1) + d(n - 1)
  BY <1>5
<1>7. CASE n - 1 = x
  BY <1>1, <1>2, <1>3, <1>5, <1>6, <1>7
<1>8. CASE n - 1 # x
  BY <1>1, <1>2, <1>3, <1>5, <1>6, <1>8
<1> QED BY <1>7, <1>8

(* The sum of nothing is nothing, and a sum of numbers is one.             *)
LEMMA SumOfNothing ==
  ASSUME NEW f, DOMAIN f = {}, NEW n \in Nat
  PROVE  SumBelow(f, n) = 0
<1> DEFINE T == {k \in Nat : SumBelow(f, k) # 0}
<1> SUFFICES ASSUME T # {} PROVE FALSE
  OBVIOUS
<1>1. PICK k \in T : \A y \in T : k <= y
  <2>1. T \subseteq Nat
    OBVIOUS
  <2> HIDE DEF T
  <2> QED BY <2>1, Least
<1>2. /\ SumBelow(f, 0) = 0
      /\ \A i \in Nat : SumBelow(f, i + 1) = SumBelow(f, i) + At(f, i)
  <2>1. \A x \in DOMAIN f : f[x] \in Int
    OBVIOUS
  <2> QED BY <2>1, SumDef
<1> k # 0
  BY <1>1, <1>2
<1>3. k - 1 \in Nat /\ k - 1 \notin T /\ k = (k - 1) + 1
  BY <1>1
<1>4. At(f, k - 1) = 0
  BY DEF At
<1> QED BY <1>1, <1>2, <1>3, <1>4

LEMMA SumIsNat ==
  ASSUME NEW f, \A k \in DOMAIN f : f[k] \in Nat
  PROVE  \A n \in Nat : SumBelow(f, n) \in Nat
<1> DEFINE T == {k \in Nat : SumBelow(f, k) \notin Nat}
<1> SUFFICES ASSUME T # {} PROVE FALSE
  OBVIOUS
<1>1. PICK k \in T : \A y \in T : k <= y
  <2>1. T \subseteq Nat
    OBVIOUS
  <2> HIDE DEF T
  <2> QED BY <2>1, Least
<1>2. /\ SumBelow(f, 0) = 0
      /\ \A i \in Nat : SumBelow(f, i + 1) = SumBelow(f, i) + At(f, i)
  BY SumDef
<1>3. k # 0
  BY <1>1, <1>2
<1>4. k - 1 \in Nat /\ k - 1 \notin T /\ k = (k - 1) + 1
  BY <1>1, <1>3
<1>5. At(f, k - 1) \in Nat
  BY DEF At
<1> QED BY <1>1, <1>2, <1>4, <1>5

(* Pieces that lie apart between lo and hi are together no longer than     *)
(* what is between lo and hi.                                              *)
LEMMA Packing ==
  ASSUME NEW lo \in Nat, NEW hi \in Nat, lo <= hi,
         NEW f, DOMAIN f \subseteq Nat, \A k \in DOMAIN f : f[k] \in Nat,
         \A k \in DOMAIN f : lo <= k /\ k + f[k] <= hi,
         \A k, l \in DOMAIN f : k < l => k + f[k] <= l
  PROVE  \A n \in Nat : SumBelow(f, n) \in Nat /\ SumBelow(f, n) <= hi - lo
<1> DEFINE P(n) == /\ SumBelow(f, n) \in Nat /\ SumBelow(f, n) <= hi - lo
                   /\ \A l \in DOMAIN f : n <= l => SumBelow(f, n) <= l - lo
           T == {n \in Nat : ~P(n)}
<1> SUFFICES ASSUME T # {} PROVE FALSE
  OBVIOUS
<1>1. PICK n \in T : \A y \in T : n <= y
  <2>1. T \subseteq Nat
    OBVIOUS
  <2> HIDE DEF T
  <2> QED BY <2>1, Least
<1>2. /\ SumBelow(f, 0) = 0
      /\ \A k \in Nat : SumBelow(f, k + 1) = SumBelow(f, k) + At(f, k)
  BY SumDef
<1>3. n # 0
  BY <1>1, <1>2
<1>4. n - 1 \in Nat /\ P(n - 1) /\ n = (n - 1) + 1
  BY <1>1, <1>3
<1>5. CASE n - 1 \in DOMAIN f
  <2>1. SumBelow(f, n) = SumBelow(f, n - 1) + f[n - 1]
    BY <1>2, <1>4, <1>5 DEF At
  <2>2. SumBelow(f, n - 1) <= (n - 1) - lo
    BY <1>4, <1>5
  <2>3. f[n - 1] \in Nat /\ (n - 1) + f[n - 1] <= hi
    BY <1>5
  <2>4. \A l \in DOMAIN f : n <= l => (n - 1) + f[n - 1] <= l
    BY <1>5, <1>4
  <2>5. P(n)
    BY <2>1, <2>2, <2>3, <2>4, <1>4, <1>1
  <2> QED BY <2>5, <1>1
<1>6. CASE n - 1 \notin DOMAIN f
  <2>1. SumBelow(f, n) = SumBelow(f, n - 1)
    BY <1>2, <1>4, <1>6 DEF At
  <2>2. P(n)
    BY <2>1, <1>4, <1>1
  <2> QED BY <2>2, <1>1
<1> QED BY <1>5, <1>6


(* Majors lie in the heap, apart from each other.                          *)
MajorHeader == [prev : Addresses, next : Addresses, pages : Nat, usage : Nat,
                first : Addresses]
MajorsPlaced ==
  /\ DOMAIN majors \subseteq PageAddresses
  /\ \A a \in DOMAIN majors :
       /\ majors[a] \in MajorHeader /\ majors[a].pages > 0
       /\ a + SizeOf(a) < WordSize
  /\ \A a, b \in DOMAIN majors : a < b => a + SizeOf(a) <= b

(* Their list has an order: next leads to the one that follows in it, prev *)
(* to the one before.                                                      *)
ListedBy(ord) ==
  /\ l_memRoot = NULL <=> DOMAIN majors = {}
  /\ l_memRoot # NULL =>
       l_memRoot \in DOMAIN majors /\ \A b \in DOMAIN majors : ord[l_memRoot] <= ord[b]
  /\ \A a, b \in DOMAIN majors : ord[a] = ord[b] => a = b
  /\ \A a \in DOMAIN majors : LET h == majors[a] IN
       /\ IF h.next = NULL THEN \A b \in DOMAIN majors : ord[b] <= ord[a]
          ELSE /\ h.next \in DOMAIN majors /\ ord[a] < ord[h.next]
               /\ \A b \in DOMAIN majors : ord[b] <= ord[a] \/ ord[h.next] <= ord[b]
       /\ IF h.prev = NULL THEN \A b \in DOMAIN majors : ord[a] <= ord[b]
          ELSE /\ h.prev \in DOMAIN majors /\ ord[h.prev] < ord[a]
               /\ \A b \in DOMAIN majors : ord[b] <= ord[h.prev] \/ ord[a] <= ord[b]

(* What the loop of kmalloc has left behind has no room, once it has begun *)
(* at the root.                                                            *)
PassedBy(ord) ==
  pc = "scan" /\ ~call.started =>
    \A b \in DOMAIN majors : ord[b] < ord[call.maj] => ~HasRoom(b, Need)
MajorsListed ==
  \E ord \in [DOMAIN majors -> Nat] : ListedBy(ord) /\ PassedBy(ord)

(* Minors lie in their majors, apart from each other.                      *)
MinorHeader == [prev : Addresses, next : Addresses, block : DOMAIN majors,
                size : Nat, req : Nat \ {0}]
MinorsPlaced ==
  /\ DOMAIN minors \subseteq Addresses
  /\ \A m \in DOMAIN minors :
       /\ minors[m] \in MinorHeader
       /\ m >= minors[m].block + MajorSize
       /\ End(m) <= minors[m].block + SizeOf(minors[m].block)
       /\ \A n \in MinorsIn(minors[m].block) : m < n => End(m) <= n

(* Their lists are in the order of the addresses.                          *)
MinorsListed ==
  \A m \in DOMAIN minors : LET h == minors[m] IN
    /\ IF h.next = NULL THEN \A n \in MinorsIn(h.block) : n <= m
       ELSE /\ h.next \in MinorsIn(h.block) /\ m < h.next
            /\ \A n \in MinorsIn(h.block) : n <= m \/ h.next <= n
    /\ IF h.prev = NULL THEN \A n \in MinorsIn(h.block) : m <= n
       ELSE /\ h.prev \in MinorsIn(h.block) /\ h.prev < m
            /\ \A n \in MinorsIn(h.block) : n <= h.prev \/ m <= n
FirstsListed ==
  \A a \in DOMAIN majors :
    IF majors[a].first = NULL THEN MinorsIn(a) = {}
    ELSE majors[a].first \in MinorsIn(a) /\ \A n \in MinorsIn(a) : majors[a].first <= n

(* Every minor is there for one pointer that is held.                      *)
BlocksHeld ==
  /\ DOMAIN minors = {MinorOf(p) : p \in DOMAIN held}
  /\ \A p \in DOMAIN held :
       /\ p \in Nat \ {0} /\ p % Alignment = 0
       /\ held[p] \in AlignInfo .. AlignInfo + Alignment - 1
       /\ p + minors[MinorOf(p)].req <= End(MinorOf(p))
       /\ \A q \in DOMAIN held : MinorOf(p) = MinorOf(q) => p = q

(* The counters are sums over the lists.                                   *)
Bytes(a) == [m \in MinorsIn(a) |-> minors[m].size + MinorSize]
Counted ==
  /\ \A a \in DOMAIN majors : majors[a].usage = MajorSize + Sum(Bytes(a))
  /\ l_inuse = Sum([m \in DOMAIN minors |-> minors[m].size])
  /\ l_allocated = Sum([a \in DOMAIN majors |-> SizeOf(a)])

(* The call that runs.  A major without a block is the one that this call  *)
(* has got for its own.                                                    *)
Calls == [size : Nat, req : Nat, maj : Nat, best : Nat, started : BOOLEAN,
          old : Nat, ptr : Nat]
CallInv ==
  /\ pc \in {"idle", "start", "scan", "fresh", "copy"}
  /\ call \in Calls
  /\ l_bestBet \in DOMAIN majors \cup {NULL}
  /\ call.maj \in DOMAIN majors \cup {NULL}
  /\ call.old \in DOMAIN held \cup {NULL}
  /\ pc = "idle" => call = NoCall
  /\ pc = "copy" => call.old \in DOMAIN held
  /\ pc \in {"scan", "fresh"} => call.maj \in DOMAIN majors
  /\ pc = "fresh" => First = NULL
  /\ pc \in {"start", "scan", "fresh"} =>
       /\ call.req > 0 /\ call.size = call.req + Alignment + AlignInfo
       /\ call.size + MajorSize + MinorSize < WordSize
  /\ \A a \in DOMAIN majors : majors[a].first = NULL =>
       /\ pc \in {"start", "scan", "fresh"}
       /\ SizeOf(a) >= MajorSize + MinorSize + call.size
       /\ pc = "start" => a = l_memRoot /\ l_bestBet = NULL
       /\ pc \in {"scan", "fresh"} => a = call.maj

IInv ==
  /\ MajorsPlaced /\ MajorsListed
  /\ MinorsPlaced /\ MinorsListed /\ FirstsListed
  /\ BlocksHeld /\ Counted
  /\ CallInv

-----------------------------------------------------------------------------
LEMMA Sizing ==
  /\ PageSize \in Nat \ {0} /\ MinPages \in Nat \ {0} /\ MajorSize \in Nat \ {0}
  /\ MinorSize \in Nat \ {0} /\ Alignment \in Nat \ {0} /\ AlignInfo \in Nat \ {0}
  /\ WordSize \in Nat \ {0} /\ MajorSize + MinorSize < PageSize
BY SizesAssumption

(* What does not reach the size of a word does not wrap.                   *)
LEMMA NoWrap == ASSUME NEW x \in 0 .. WordSize - 1 PROVE Wrap(x) = x
BY Sizing DEF Wrap
LEMMA WrapNat == ASSUME NEW x \in Int PROVE Wrap(x) \in 0 .. WordSize - 1
BY Sizing DEF Wrap

LEMMA MulMono ==
  ASSUME NEW x \in Nat, NEW y \in Nat, x <= y, NEW z \in Nat
  PROVE  x * z <= y * z /\ x * z \in Nat
OBVIOUS

LEMMA DivOfMul == ASSUME NEW p \in Nat, NEW z \in Nat \ {0} PROVE (p * z) \div z = p
OBVIOUS

LEMMA DivMod ==
  ASSUME NEW a \in Nat, NEW z \in Nat \ {0},
         NEW q, q = a \div z, NEW r, r = a % z
  PROVE  r \in 0 .. z - 1 /\ q \in Nat /\ a = q * z + r
<1>1. r \in 0 .. z - 1
  OBVIOUS
<1>2. q \in Nat
  OBVIOUS
<1>3. a = q * z + r
  BY <1>1, <1>2
<1> QED BY <1>1, <1>2, <1>3

LEMMA RoundUp ==
  ASSUME NEW a \in Nat, NEW z \in Nat \ {0}
  PROVE  LET b == a + ((z - (a % z)) % z)
         IN  b \in Nat /\ a <= b /\ b <= a + z - 1 /\ b % z = 0
<1> DEFINE r == a % z
           q == a \div z
<1>1. r \in 0 .. z - 1 /\ q \in Nat /\ a = q * z + r
  <2>1. \A x, y : x = q /\ y = r => y \in 0 .. z - 1 /\ x \in Nat /\ a = x * z + y
    BY DivMod
  <2> HIDE DEF q, r
  <2> QED BY <2>1
<1>2. CASE r = 0
  <2>1. (z - r) % z = 0
    BY <1>2
  <2> QED BY <2>1, <1>1, <1>2
<1>3. CASE r # 0
  <2>1. (z - r) % z = z - r
    BY <1>1, <1>3
  <2>2. a + (z - r) = (q + 1) * z
    BY <1>1
  <2>3. ((q + 1) * z) % z = 0
    BY <1>1
  <2> QED BY <2>1, <2>2, <2>3, <1>1, <1>3
<1> QED BY <1>2, <1>3

LEMMA AlignedFacts ==
  ASSUME NEW q \in Nat
  PROVE  /\ Aligned(q) \in Nat /\ Aligned(q) % Alignment = 0
         /\ q + AlignInfo <= Aligned(q) /\ Aligned(q) <= q + AlignInfo + Alignment - 1
<1>1. q + AlignInfo \in Nat
  BY Sizing
<1> QED BY <1>1, Sizing, RoundUp DEF Aligned

(* PagesFor has room for the headers and the block.                        *)
LEMMA RoomInPages ==
  ASSUME NEW s \in Nat, s + MajorSize + MinorSize < WordSize
  PROVE  /\ PagesFor(s) \in Nat \ {0}
         /\ PagesFor(s) * PageSize \in Nat
         /\ s + MajorSize + MinorSize <= PagesFor(s) * PageSize
<1> DEFINE st == s + MajorSize + MinorSize
           n == (st + PageSize - 1) \div PageSize
           r == (st + PageSize - 1) % PageSize
<1>1. Wrap(st) = st /\ st \in Nat
  BY Sizing, NoWrap
<1>2. n \in Nat /\ st <= n * PageSize
  <2>1. st + PageSize - 1 \in Nat
    BY <1>1, Sizing
  <2>2. n \in Nat /\ r \in 0 .. PageSize - 1 /\ st + PageSize - 1 = n * PageSize + r
    <3>1. \A x, y : x = n /\ y = r =>
            x \in Nat /\ y \in 0 .. PageSize - 1 /\ st + PageSize - 1 = x * PageSize + y
      <4> HIDE DEF st
      <4> QED BY <2>1, DivMod, Sizing
    <3> HIDE DEF n, r
    <3> QED BY <3>1
  <2> HIDE DEF n, r
  <2> QED BY <2>2, <1>1, Sizing
<1>3. PagesFor(s) = IF n < MinPages THEN MinPages ELSE n
  BY <1>1 DEF PagesFor
<1>4. PagesFor(s) \in Nat \ {0} /\ n <= PagesFor(s)
  BY <1>3, <1>2, <1>1, Sizing
<1> HIDE DEF n, st
<1>5. n * PageSize <= PagesFor(s) * PageSize /\ PagesFor(s) * PageSize \in Nat
  BY <1>2, <1>4, MulMono, Sizing
<1> QED
  BY <1>2, <1>4, <1>5, <1>1, Sizing DEF st

(* Runs of pages with no page in common have no byte in common.            *)
LEMMA PagesApart ==
  ASSUME NEW p \in Heap, NEW n \in Nat \ {0}, NEW q \in Heap, NEW k \in Nat \ {0},
         {p + i : i \in 0 .. n - 1} \cap {q + i : i \in 0 .. k - 1} = {}
  PROVE  \/ p * PageSize + n * PageSize <= q * PageSize
         \/ q * PageSize + k * PageSize <= p * PageSize
<1>1. p \in Nat /\ q \in Nat
  BY HeapAssumption
<1>2. p + n <= q \/ q + k <= p
  <2> SUFFICES ASSUME ~(p + n <= q), ~(q + k <= p) PROVE FALSE
    OBVIOUS
  <2>1. CASE p <= q
    <3>1. q - p \in 0 .. n - 1 /\ q = p + (q - p) /\ 0 \in 0 .. k - 1 /\ q = q + 0
      BY <2>1, <1>1
    <3> QED BY <3>1
  <2>2. CASE q < p
    <3>1. p - q \in 0 .. k - 1 /\ p = q + (p - q) /\ 0 \in 0 .. n - 1 /\ p = p + 0
      BY <2>2, <1>1
    <3> QED BY <3>1
  <2> QED BY <2>1, <2>2, <1>1
<1>3. /\ (p + n) * PageSize = p * PageSize + n * PageSize
      /\ (q + k) * PageSize = q * PageSize + k * PageSize
  BY <1>1, Sizing
<1> QED
  BY <1>1, <1>2, <1>3, MulMono, Sizing

(* What alloc_virtual grants ends below the top of the address space.      *)
LEMMA PagesInside ==
  ASSUME NEW p \in Heap, NEW n \in Nat \ {0}, {p + i : i \in 0 .. n - 1} \subseteq Heap
  PROVE  p * PageSize \in Nat \ {0} /\ p * PageSize + n * PageSize < WordSize
<1>1. p \in Nat \ {0}
  BY HeapAssumption
<1>2. p + (n - 1) \in Heap
  <2>1. n - 1 \in 0 .. n - 1
    OBVIOUS
  <2> QED BY <2>1
<1>3. ((p + (n - 1)) + 1) * PageSize < WordSize
  BY <1>2, HeapAssumption
<1>4. ((p + (n - 1)) + 1) * PageSize = p * PageSize + n * PageSize
  BY <1>1, Sizing
<1>5. 1 * PageSize <= p * PageSize /\ p * PageSize \in Nat
  BY <1>1, MulMono, Sizing
<1> QED BY <1>3, <1>4, <1>5, Sizing


-----------------------------------------------------------------------------
(* What Insert and Unlink do to the headers that were there.               *)
Header(f) == \A y \in DOMAIN f : {"prev", "next"} \subseteq DOMAIN f[y]

LEMMA InsertNew ==
  ASSUME NEW f, NEW x, NEW r
  PROVE  DOMAIN Insert(f, x, r) = DOMAIN f \cup {x} /\ Insert(f, x, r)[x] = r
BY DEF Insert

LEMMA InsertOld ==
  ASSUME NEW f, NEW x, x \notin DOMAIN f, NEW r, Header(f), NEW y \in DOMAIN f
  PROVE  /\ Insert(f, x, r)[y].next = IF y = r.prev THEN x ELSE f[y].next
         /\ Insert(f, x, r)[y].prev = IF y = r.next THEN x ELSE f[y].prev
         /\ \A k \in DOMAIN f[y] : k \notin {"prev", "next"} => Insert(f, x, r)[y][k] = f[y][k]
BY DEF Insert, Header

LEMMA UnlinkOld ==
  ASSUME NEW f, NEW x \in DOMAIN f, Header(f), NEW y \in DOMAIN f \ {x}
  PROVE  /\ DOMAIN Unlink(f, x) = DOMAIN f \ {x}
         /\ Unlink(f, x)[y].next = IF y = f[x].prev THEN f[x].next ELSE f[y].next
         /\ Unlink(f, x)[y].prev = IF y = f[x].next THEN f[x].prev ELSE f[y].prev
         /\ \A k \in DOMAIN f[y] : k \notin {"prev", "next"} => Unlink(f, x)[y][k] = f[y][k]
BY DEF Unlink, Header

LEMMA NullIsNoHeader ==
  /\ MajorsPlaced => NULL \notin DOMAIN majors /\ DOMAIN majors \subseteq Nat
  /\ MajorsPlaced /\ MinorsPlaced => NULL \notin DOMAIN minors /\ DOMAIN minors \subseteq Nat
<1>1. ASSUME MajorsPlaced PROVE NULL \notin DOMAIN majors /\ DOMAIN majors \subseteq Nat
  <2> SUFFICES ASSUME NEW a \in PageAddresses PROVE a \in Nat \ {0}
    BY <1>1 DEF MajorsPlaced, NULL
  <2>1. PICK p \in Heap : a = p * PageSize
    BY DEF PageAddresses
  <2>2. p \in Nat \ {0}
    BY HeapAssumption
  <2>3. 1 * PageSize <= p * PageSize /\ p * PageSize \in Nat
    BY <2>2, MulMono, Sizing
  <2> QED BY <2>1, <2>3, Sizing
<1>2. ASSUME MajorsPlaced, MinorsPlaced
      PROVE  NULL \notin DOMAIN minors /\ DOMAIN minors \subseteq Nat
  <2>1. \A m \in DOMAIN minors : minors[m].block \in DOMAIN majors /\ m >= minors[m].block + MajorSize
    BY <1>2 DEF MinorsPlaced, MinorHeader
  <2> QED
    BY <1>1, <1>2, <2>1, Sizing DEF MinorsPlaced, Addresses, NULL
<1> QED BY <1>1, <1>2

(* allocate_new_page.                                                      *)
CallFits == call.size \in Nat /\ call.size + MajorSize + MinorSize < WordSize

LEMMA NewPageFacts ==
  ASSUME MajorsPlaced, CallFits,
         NEW a \in PageAddresses, NEW prev \in DOMAIN majors \cup {NULL}, NewPage(a, prev)
  PROVE  /\ a \in Nat \ {0} /\ a \notin DOMAIN majors
         /\ DOMAIN majors' = DOMAIN majors \cup {a}
         /\ majors'[a] = NewMajor(call.size, prev)
         /\ \A b \in DOMAIN majors' : majors'[b] \in MajorHeader
         /\ \A b \in DOMAIN majors :
              /\ majors'[b].next = IF b = prev THEN a ELSE majors[b].next
              /\ majors'[b].prev = majors[b].prev
              /\ majors'[b].pages = majors[b].pages
              /\ majors'[b].usage = majors[b].usage
              /\ majors'[b].first = majors[b].first
         /\ PagesFor(call.size) \in Nat \ {0}
         /\ PagesFor(call.size) * PageSize \in Nat
         /\ call.size + MajorSize + MinorSize <= PagesFor(call.size) * PageSize
         /\ a + PagesFor(call.size) * PageSize < WordSize
         /\ \A b \in DOMAIN majors : \/ a + PagesFor(call.size) * PageSize <= b
                                     \/ b + SizeOf(b) <= a
<1> DEFINE n == PagesFor(call.size)
<1>1. n \in Nat \ {0} /\ n * PageSize \in Nat /\ call.size + MajorSize + MinorSize <= n * PageSize
  BY RoomInPages DEF CallFits
<1> HIDE DEF n
<1>2. PICK p \in Heap : a = p * PageSize
  BY DEF PageAddresses
<1>3. p \in Nat \ {0} /\ a \div PageSize = p
  BY <1>2, HeapAssumption, DivOfMul, Sizing
<1>4. Granted(a, call.size)
  BY DEF NewPage
<1>5. {p + i : i \in 0 .. n - 1} \subseteq Heap
  BY <1>3, <1>4 DEF Granted, n
<1>6. a \in Nat \ {0} /\ a + n * PageSize < WordSize
  BY <1>1, <1>2, <1>5, PagesInside
<1>7. \A b \in DOMAIN majors : a + n * PageSize <= b \/ b + SizeOf(b) <= a
  <2> TAKE b \in DOMAIN majors
  <2>1. PICK q \in Heap : b = q * PageSize
    BY DEF MajorsPlaced, PageAddresses
  <2>2. q \in Nat \ {0} /\ b \div PageSize = q
    BY <2>1, HeapAssumption, DivOfMul, Sizing
  <2>3. majors[b].pages \in Nat \ {0}
    BY DEF MajorsPlaced, MajorHeader
  <2>4. {p + i : i \in 0 .. n - 1} \cap {q + i : i \in 0 .. majors[b].pages - 1} = {}
    BY <1>3, <1>4, <2>2 DEF Granted, n, PagesOf
  <2>5. \/ p * PageSize + n * PageSize <= q * PageSize
        \/ q * PageSize + majors[b].pages * PageSize <= p * PageSize
    BY <1>1, <2>3, <2>4, PagesApart
  <2> QED BY <2>1, <2>5, <1>2 DEF SizeOf
<1>8. a \notin DOMAIN majors
  <2> SUFFICES ASSUME a \in DOMAIN majors PROVE FALSE
    OBVIOUS
  <2>1. majors[a].pages \in Nat \ {0}
    BY DEF MajorsPlaced, MajorHeader
  <2>2. 1 * PageSize <= majors[a].pages * PageSize
    BY <2>1, MulMono, Sizing
  <2>3. 1 * PageSize <= n * PageSize
    BY <1>1, MulMono, Sizing
  <2> QED BY <2>1, <2>2, <2>3, <1>1, <1>6, <1>7, Sizing DEF SizeOf
<1>9. /\ majors' = Insert(majors, a, NewMajor(call.size, prev))
      /\ NewMajor(call.size, prev) \in MajorHeader
      /\ NewMajor(call.size, prev).prev = prev /\ NewMajor(call.size, prev).next = NULL
  <2>1. prev \in Addresses /\ n \in Nat /\ NULL \in Addresses
    <3>1. DOMAIN majors \subseteq Addresses
      BY NullIsNoHeader, Sizing DEF MajorsPlaced, MajorHeader, SizeOf, Addresses
    <3> QED BY <3>1, <1>1, Sizing DEF Addresses, NULL
  <2> QED BY <2>1, Sizing DEF NewPage, NewMajor, MajorHeader, n
<1>10. Header(majors)
  BY DEF Header, MajorsPlaced, MajorHeader
<1>11. /\ DOMAIN majors' = DOMAIN majors \cup {a}
       /\ majors'[a] = NewMajor(call.size, prev)
       /\ \A b \in DOMAIN majors :
              /\ majors'[b].next = IF b = prev THEN a ELSE majors[b].next
              /\ majors'[b].prev = majors[b].prev
              /\ majors'[b].pages = majors[b].pages
              /\ majors'[b].usage = majors[b].usage
              /\ majors'[b].first = majors[b].first
  <2>1. /\ DOMAIN majors' = DOMAIN majors \cup {a}
        /\ majors'[a] = NewMajor(call.size, prev)
    BY <1>9 DEF Insert
  <2>3. \A y \in DOMAIN majors :
          /\ majors'[y].next = IF y = prev THEN a ELSE majors[y].next
          /\ majors'[y].prev = IF y = NULL THEN a ELSE majors[y].prev
          /\ \A k \in DOMAIN majors[y] : k \notin {"prev", "next"} => majors'[y][k] = majors[y][k]
    <3> TAKE y \in DOMAIN majors
    <3>1. majors'[y].next = IF y = prev THEN a ELSE majors[y].next
      BY <1>8, <1>9, <1>10, InsertOld
    <3>2. majors'[y].prev = IF y = NULL THEN a ELSE majors[y].prev
      BY <1>8, <1>9, <1>10, InsertOld
    <3>3. \A k \in DOMAIN majors[y] : k \notin {"prev", "next"} => majors'[y][k] = majors[y][k]
      BY <1>8, <1>9, <1>10, InsertOld
    <3> QED BY <3>1, <3>2, <3>3
  <2>2. \A b \in DOMAIN majors : DOMAIN majors[b] = {"prev", "next", "pages", "usage", "first"}
    BY DEF MajorsPlaced, MajorHeader
  <2>4. NULL \notin DOMAIN majors
    BY NullIsNoHeader
  <2> QED BY <2>1, <2>2, <2>3, <2>4
<1>12. \A b \in DOMAIN majors' : majors'[b] \in MajorHeader
  <2>1. a \in Addresses
    BY <1>1, <1>6, Sizing DEF Addresses
  <2>2. \A b \in DOMAIN majors :
          majors'[b] = [majors[b] EXCEPT !.next = IF b = prev THEN a ELSE @,
                                         !.prev = IF b = NULL THEN a ELSE @]
    BY <1>8, <1>9 DEF Insert
  <2>3. \A b \in DOMAIN majors : majors'[b] \in MajorHeader
    <3> TAKE b \in DOMAIN majors
    <3>1. majors[b] \in MajorHeader
      BY DEF MajorsPlaced
    <3>2. PICK x \in Addresses, y \in Addresses :
            majors'[b] = [majors[b] EXCEPT !.next = x, !.prev = y]
      <4>1. majors[b].next \in Addresses /\ majors[b].prev \in Addresses
        BY <3>1 DEF MajorHeader
      <4> QED BY <4>1, <2>1, <2>2
    <3> QED BY <3>1, <3>2 DEF MajorHeader
  <2> QED BY <2>3, <1>9, <1>11
<1> QED
  BY <1>1, <1>6, <1>7, <1>8, <1>11, <1>12 DEF n


-----------------------------------------------------------------------------
(* A new major: what the others keep, where it lies, and its place in the  *)
(* order, behind all of them.                                              *)
LEMMA NewPageOld ==
  ASSUME MajorsPlaced, CallFits,
         NEW a \in PageAddresses, NEW prev \in DOMAIN majors \cup {NULL}, NewPage(a, prev),
         NEW b \in DOMAIN majors
  PROVE  /\ majors'[b].next = IF b = prev THEN a ELSE majors[b].next
         /\ majors'[b].prev = majors[b].prev
         /\ majors'[b].pages = majors[b].pages
         /\ majors'[b].usage = majors[b].usage
         /\ majors'[b].first = majors[b].first
BY NewPageFacts

LEMMA NewPagePlaced ==
  ASSUME MajorsPlaced, CallFits,
         NEW a \in PageAddresses, NEW prev \in DOMAIN majors \cup {NULL}, NewPage(a, prev)
  PROVE  MajorsPlaced'
<1> DEFINE n == PagesFor(call.size)
<1>1. /\ a \in Nat \ {0} /\ DOMAIN majors' = DOMAIN majors \cup {a}
      /\ majors'[a] = NewMajor(call.size, prev)
      /\ \A b \in DOMAIN majors' : majors'[b] \in MajorHeader
      /\ \A b \in DOMAIN majors : majors'[b].pages = majors[b].pages
      /\ n \in Nat \ {0} /\ n * PageSize \in Nat /\ a + n * PageSize < WordSize
      /\ \A b \in DOMAIN majors : a + n * PageSize <= b \/ b + SizeOf(b) <= a
      /\ a \notin DOMAIN majors
  BY NewPageFacts
<1>2. majors'[a].pages = n
  BY <1>1 DEF NewMajor
<1> HIDE DEF n
<1>3. DOMAIN majors \subseteq Nat /\ \A b \in DOMAIN majors : SizeOf(b) \in Nat /\ SizeOf(b) > 0
  <2> SUFFICES ASSUME NEW b \in DOMAIN majors
               PROVE  SizeOf(b) \in Nat /\ SizeOf(b) > 0
    BY NullIsNoHeader
  <2>1. majors[b].pages \in Nat \ {0}
    BY DEF MajorsPlaced, MajorHeader
  <2>2. 1 * PageSize <= majors[b].pages * PageSize /\ majors[b].pages * PageSize \in Nat
    BY <2>1, MulMono, Sizing
  <2> QED BY <2>2, Sizing DEF SizeOf
<1>4. SizeOf(a)' = n * PageSize /\ \A b \in DOMAIN majors : SizeOf(b)' = SizeOf(b)
  BY <1>1, <1>2 DEF SizeOf
<1>5. n * PageSize > 0
  <2>1. 1 * PageSize <= n * PageSize
    BY <1>1, MulMono, Sizing
  <2> QED BY <2>1, <1>1, Sizing
<1>6. DOMAIN majors' \subseteq PageAddresses
  BY <1>1 DEF MajorsPlaced
<1>7. ASSUME NEW b \in DOMAIN majors'
      PROVE  /\ majors'[b] \in MajorHeader /\ majors'[b].pages > 0
             /\ b + SizeOf(b)' < WordSize
  <2>1. CASE b = a
    BY <2>1, <1>1, <1>2, <1>4
  <2>2. CASE b \in DOMAIN majors
    <3>1. majors[b].pages > 0 /\ b + SizeOf(b) < WordSize
      BY <2>2 DEF MajorsPlaced
    <3> QED BY <3>1, <2>2, <1>1, <1>4
  <2> QED BY <2>1, <2>2, <1>1
<1>8. ASSUME NEW b \in DOMAIN majors', NEW d \in DOMAIN majors', b < d
      PROVE  b + SizeOf(b)' <= d
  <2>1. CASE b \in DOMAIN majors /\ d \in DOMAIN majors
    BY <2>1, <1>8, <1>4 DEF MajorsPlaced
  <2>2. CASE b = a /\ d \in DOMAIN majors
    BY <2>2, <1>8, <1>1, <1>3, <1>4, <1>5
  <2>3. CASE b \in DOMAIN majors /\ d = a
    BY <2>3, <1>8, <1>1, <1>3, <1>4, <1>5
  <2> QED BY <2>1, <2>2, <2>3, <1>1, <1>8
<1> QED BY <1>6, <1>7, <1>8 DEF MajorsPlaced, MajorHeader, Addresses

(* The new major is the last of the list.                                  *)
LEMMA NewPageListed ==
  ASSUME MajorsPlaced, CallFits,
         NEW a \in PageAddresses, NEW prev \in DOMAIN majors \cup {NULL}, NewPage(a, prev),
         NEW ord \in [DOMAIN majors -> Nat], ListedBy(ord),
         \/ prev = NULL /\ l_memRoot = NULL /\ l_memRoot' = a
         \/ prev # NULL /\ majors[prev].next = NULL /\ l_memRoot' = l_memRoot
  PROVE  \E o \in [DOMAIN majors' -> Nat] :
           /\ ListedBy(o)'
           /\ \A b \in DOMAIN majors : o[b] = ord[b] /\ o[b] < o[a]
<1> DEFINE top == IF prev = NULL THEN 0 ELSE ord[prev] + 1
<1>1. /\ a # NULL /\ a \notin DOMAIN majors /\ DOMAIN majors' = DOMAIN majors \cup {a}
      /\ majors'[a].prev = prev /\ majors'[a].next = NULL
      /\ \A b \in DOMAIN majors :
              /\ majors'[b].next = IF b = prev THEN a ELSE majors[b].next
              /\ majors'[b].prev = majors[b].prev
  <2>1. /\ a \in Nat \ {0} /\ a \notin DOMAIN majors /\ DOMAIN majors' = DOMAIN majors \cup {a}
        /\ majors'[a] = NewMajor(call.size, prev)
    BY NewPageFacts
  <2>3. \A b \in DOMAIN majors :
              /\ majors'[b].next = IF b = prev THEN a ELSE majors[b].next
              /\ majors'[b].prev = majors[b].prev
    BY NewPageOld
  <2>2. majors'[a].prev = prev /\ majors'[a].next = NULL
    BY <2>1 DEF NewMajor
  <2> QED BY <2>1, <2>2, <2>3 DEF NULL
<1>2. NULL \notin DOMAIN majors
  BY NullIsNoHeader
<1>3. \A b \in DOMAIN majors : ord[b] \in Nat
  OBVIOUS
<1>4. top \in Nat
  BY <1>3
<1>5. \A b \in DOMAIN majors : ord[b] < top
  <2>1. CASE prev = NULL
    BY <2>1, <1>2 DEF ListedBy
  <2>2. CASE prev # NULL
    BY <2>2, <1>2, <1>3 DEF ListedBy
  <2> QED BY <2>1, <2>2
<1> HIDE DEF top
<1>6. PICK o \in [DOMAIN majors' -> Nat] :
         o[a] = top /\ \A b \in DOMAIN majors : o[b] = ord[b]
  <2> DEFINE f == [b \in DOMAIN majors' |-> IF b = a THEN top ELSE ord[b]]
  <2>1. f \in [DOMAIN majors' -> Nat] /\ f[a] = top /\ \A b \in DOMAIN majors : f[b] = ord[b]
    BY <1>1, <1>4
  <2> HIDE DEF f
  <2> QED BY <2>1
<1>7. (l_memRoot' = NULL <=> DOMAIN majors' = {})
  BY <1>1, <1>2 DEF ListedBy
<1>8. l_memRoot' \in DOMAIN majors' /\ \A b \in DOMAIN majors' : o[l_memRoot'] <= o[b]
  <2>1. CASE prev = NULL
    BY <2>1, <1>1, <1>2, <1>4, <1>6 DEF ListedBy
  <2>2. CASE prev # NULL
    <3>1. l_memRoot' \in DOMAIN majors /\ \A b \in DOMAIN majors : ord[l_memRoot'] <= ord[b]
      BY <2>2, <1>2 DEF ListedBy
    <3> QED BY <3>1, <1>1, <1>3, <1>4, <1>5, <1>6
  <2> QED BY <2>1, <2>2
<1>9. \A b, d \in DOMAIN majors' : o[b] = o[d] => b = d
  <2>1. \A b, d \in DOMAIN majors : ord[b] = ord[d] => b = d
    BY DEF ListedBy
  <2> QED BY <2>1, <1>1, <1>3, <1>4, <1>5, <1>6
<1>10. ASSUME NEW b \in DOMAIN majors'
       PROVE  IF majors'[b].next = NULL THEN \A d \in DOMAIN majors' : o[d] <= o[b]
              ELSE /\ majors'[b].next \in DOMAIN majors' /\ o[b] < o[majors'[b].next]
                   /\ \A d \in DOMAIN majors' : o[d] <= o[b] \/ o[majors'[b].next] <= o[d]
  <2>1. CASE b = a
    BY <2>1, <1>1, <1>3, <1>4, <1>5, <1>6
  <2>2. CASE b \in DOMAIN majors /\ b = prev
    <3>1. \A d \in DOMAIN majors : ord[d] <= ord[b]
      BY <2>2, <1>2 DEF ListedBy
    <3> QED BY <3>1, <2>2, <1>1, <1>3, <1>4, <1>5, <1>6
  <2>3. CASE b \in DOMAIN majors /\ b # prev /\ majors[b].next = NULL
    <3>1. \A d \in DOMAIN majors : ord[d] <= ord[b]
      BY <2>3 DEF ListedBy
    <3>2. prev = NULL \/ (prev \in DOMAIN majors /\ \A d \in DOMAIN majors : ord[d] <= ord[prev])
      BY <1>2 DEF ListedBy
    <3>3. prev # NULL
      BY <2>3 DEF ListedBy
    <3>4. ord[prev] = ord[b]
      BY <3>1, <3>2, <3>3, <2>3, <1>3
    <3>5. prev = b
      BY <3>4, <3>2, <3>3, <2>3 DEF ListedBy
    <3> QED BY <3>5, <2>3
  <2>4. CASE b \in DOMAIN majors /\ b # prev /\ majors[b].next # NULL
    <3>1. /\ majors[b].next \in DOMAIN majors /\ ord[b] < ord[majors[b].next]
          /\ \A d \in DOMAIN majors : ord[d] <= ord[b] \/ ord[majors[b].next] <= ord[d]
      BY <2>4 DEF ListedBy
    <3>2. majors'[b].next = majors[b].next
      BY <2>4, <1>1
    <3> QED BY <3>1, <3>2, <2>4, <1>1, <1>3, <1>4, <1>5, <1>6
  <2> QED BY <2>1, <2>2, <2>3, <2>4, <1>1
<1>11. ASSUME NEW b \in DOMAIN majors'
       PROVE  IF majors'[b].prev = NULL THEN \A d \in DOMAIN majors' : o[b] <= o[d]
              ELSE /\ majors'[b].prev \in DOMAIN majors' /\ o[majors'[b].prev] < o[b]
                   /\ \A d \in DOMAIN majors' : o[d] <= o[majors'[b].prev] \/ o[b] <= o[d]
  <2>1. CASE b = a /\ prev = NULL
    <3>1. DOMAIN majors = {}
      BY <2>1, <1>2 DEF ListedBy
    <3> QED BY <3>1, <2>1, <1>1, <1>4, <1>6
  <2>2. CASE b = a /\ prev # NULL
    <3>1. prev \in DOMAIN majors /\ \A d \in DOMAIN majors : ord[d] <= ord[prev]
      BY <2>2, <1>2 DEF ListedBy
    <3> QED BY <3>1, <2>2, <1>1, <1>3, <1>4, <1>5, <1>6
  <2>3. CASE b \in DOMAIN majors /\ majors[b].prev = NULL
    <3>1. \A d \in DOMAIN majors : ord[b] <= ord[d]
      BY <2>3 DEF ListedBy
    <3> QED BY <3>1, <2>3, <1>1, <1>3, <1>4, <1>5, <1>6
  <2>4. CASE b \in DOMAIN majors /\ majors[b].prev # NULL
    <3>1. /\ majors[b].prev \in DOMAIN majors /\ ord[majors[b].prev] < ord[b]
          /\ \A d \in DOMAIN majors : ord[d] <= ord[majors[b].prev] \/ ord[b] <= ord[d]
      BY <2>4 DEF ListedBy
    <3>2. majors'[b].prev = majors[b].prev
      BY <2>4, <1>1
    <3> QED BY <3>1, <3>2, <2>4, <1>1, <1>3, <1>4, <1>5, <1>6
  <2> QED BY <2>1, <2>2, <2>3, <2>4, <1>1
<1>12. ListedBy(o)'
  BY <1>7, <1>8, <1>9, <1>10, <1>11 DEF ListedBy
<1>13. \A b \in DOMAIN majors : o[b] = ord[b] /\ o[b] < o[a]
  BY <1>5, <1>6
<1> QED BY <1>6, <1>12, <1>13

(* The minors stay as they are, and the new major has none.                *)
LEMMA NewPageMinors ==
  ASSUME MajorsPlaced, MinorsPlaced, MinorsListed, FirstsListed, CallFits,
         NEW a \in PageAddresses, NEW prev \in DOMAIN majors \cup {NULL}, NewPage(a, prev),
         UNCHANGED minors
  PROVE  MinorsPlaced' /\ MinorsListed' /\ FirstsListed'
<1>1. /\ a \notin DOMAIN majors /\ DOMAIN majors' = DOMAIN majors \cup {a}
      /\ majors'[a].first = NULL
  <2>1. a \notin DOMAIN majors /\ DOMAIN majors' = DOMAIN majors \cup {a}
        /\ majors'[a] = NewMajor(call.size, prev)
    BY NewPageFacts
  <2> QED BY <2>1 DEF NewMajor
<1>2. \A m \in DOMAIN minors : minors[m] \in MinorHeader /\ minors[m].block \in DOMAIN majors
  BY DEF MinorsPlaced, MinorHeader
<1>3. \A b : MinorsIn(b)' = MinorsIn(b)
  BY DEF MinorsIn
<1>4. \A m : End(m)' = End(m)
  BY DEF End
<1>5. \A b \in DOMAIN majors : SizeOf(b)' = SizeOf(b)
  BY NewPageOld DEF SizeOf
<1>6. MinorsIn(a) = {}
  BY <1>1, <1>2 DEF MinorsIn
<1>7. MinorsPlaced'
  <2>1. DOMAIN minors' \subseteq Addresses
    BY DEF MinorsPlaced
  <2>2. ASSUME NEW m \in DOMAIN minors'
        PROVE  /\ minors'[m] \in MinorHeader'
               /\ m >= minors'[m].block + MajorSize
               /\ End(m)' <= minors'[m].block + SizeOf(minors[m].block)'
               /\ \A n \in MinorsIn(minors[m].block)' : m < n => End(m)' <= n
    <3>1. minors'[m] \in MinorHeader'
      BY <1>1, <1>2 DEF MinorHeader, Addresses
    <3>2. /\ m >= minors[m].block + MajorSize
          /\ End(m) <= minors[m].block + SizeOf(minors[m].block)
          /\ \A n \in MinorsIn(minors[m].block) : m < n => End(m) <= n
      BY DEF MinorsPlaced
    <3>3. SizeOf(minors[m].block)' = SizeOf(minors[m].block)
      BY <1>2, <1>5
    <3>4. MinorsIn(minors[m].block)' = MinorsIn(minors[m].block)
      BY <1>3 DEF MinorsIn
    <3> QED BY <3>1, <3>2, <3>3, <3>4, <1>4
  <2> QED BY <2>1, <2>2 DEF MinorsPlaced, Addresses
<1>8. MinorsListed'
  BY <1>3 DEF MinorsListed, MinorsIn
<1>9. FirstsListed'
  <2>1. \A b \in DOMAIN majors : majors'[b].first = majors[b].first
    BY NewPageOld
  <2> QED BY <2>1, <1>1, <1>3, <1>6 DEF FirstsListed
<1> QED BY <1>7, <1>8, <1>9

(* What is counted grows by what there is more.                            *)
LEMMA SumGains ==
  ASSUME NEW f, DOMAIN f \subseteq Addresses, \A k \in DOMAIN f : f[k] \in Int,
         NEW x \in Addresses, x \notin DOMAIN f,
         NEW g, DOMAIN g = DOMAIN f \cup {x}, g[x] \in Int,
         \A k \in DOMAIN f : g[k] = f[k]
  PROVE  Sum(g) = Sum(f) + g[x] /\ Sum(f) \in Int /\ Sum(g) \in Int
<1>1. x \in Nat /\ x < WordSize /\ WordSize \in Nat
  BY Sizing DEF Addresses
<1>2. \A k \in DOMAIN g : g[k] \in Int
  OBVIOUS
<1>3. \A k \in Nat : k # x => At(f, k) = At(g, k)
  BY DEF At
<1>4. SumBelow(g, WordSize) = SumBelow(f, WordSize)
        + IF x < WordSize THEN At(g, x) - At(f, x) ELSE 0
  BY <1>1, <1>2, <1>3, SumsDiffer
<1>5. At(g, x) = g[x] /\ At(f, x) = 0
  BY DEF At
<1>6. SumBelow(f, WordSize) \in Int /\ SumBelow(g, WordSize) \in Int
  BY <1>1, <1>2, SumDef
<1> QED BY <1>1, <1>4, <1>5, <1>6 DEF Sum

LEMMA NewPageCounted ==
  ASSUME MajorsPlaced, MinorsPlaced, Counted, CallFits,
         NEW a \in PageAddresses, NEW prev \in DOMAIN majors \cup {NULL}, NewPage(a, prev),
         UNCHANGED <<minors, l_inuse>>
  PROVE  Counted'
<1>1. /\ a \in Nat /\ a \notin DOMAIN majors /\ DOMAIN majors' = DOMAIN majors \cup {a}
      /\ majors'[a] = NewMajor(call.size, prev)
      /\ PagesFor(call.size) \in Nat /\ PagesFor(call.size) * PageSize \in Nat
      /\ a + PagesFor(call.size) * PageSize < WordSize
  BY NewPageFacts
<1>2. majors'[a].usage = MajorSize /\ majors'[a].pages = PagesFor(call.size)
  BY <1>1 DEF NewMajor
<1>3. \A b \in DOMAIN majors' : Bytes(b)' = Bytes(b)
  BY DEF Bytes, MinorsIn
<1>4. \A b \in DOMAIN majors' : majors'[b].usage = MajorSize + Sum(Bytes(b)')
  <2>1. \A b \in DOMAIN majors : majors'[b].usage = MajorSize + Sum(Bytes(b)')
    BY <1>1, <1>3, NewPageOld DEF Counted
  <2>2. Sum(Bytes(a)') = 0
    <3>1. DOMAIN Bytes(a) = {}
      BY <1>1 DEF Bytes, MinorsIn, MinorsPlaced, MinorHeader
    <3>2. \A n \in Nat : SumBelow(Bytes(a), n) = 0
      BY <3>1, SumOfNothing
    <3>3. Bytes(a)' = Bytes(a)
      BY <1>1, <1>3
    <3> QED BY <3>2, <3>3, Sizing DEF Sum
  <2> QED BY <2>1, <2>2, <1>1, <1>2, Sizing
<1>5. l_allocated' = Sum([b \in DOMAIN majors' |-> SizeOf(b)'])
  <2> DEFINE f == [b \in DOMAIN majors |-> SizeOf(b)]
             g == [b \in DOMAIN majors' |-> SizeOf(b)']
  <2>1. /\ DOMAIN f = DOMAIN majors /\ DOMAIN g = DOMAIN majors \cup {a}
        /\ g[a] = PagesFor(call.size) * PageSize
    BY <1>1, <1>2 DEF SizeOf
  <2>2. \A b \in DOMAIN f : g[b] = f[b]
    BY <1>1, NewPageOld DEF SizeOf
  <2>3. \A b \in DOMAIN f : f[b] \in Int /\ b \in Addresses
    <3> TAKE b \in DOMAIN f
    <3>1. b \in Nat
      BY NullIsNoHeader
    <3>2. majors[b].pages \in Nat
      BY DEF MajorsPlaced, MajorHeader
    <3>3. SizeOf(b) \in Nat
      BY <3>2, MulMono, Sizing DEF SizeOf
    <3>4. b + SizeOf(b) < WordSize
      BY DEF MajorsPlaced
    <3> QED BY <3>1, <3>3, <3>4, Sizing DEF Addresses
  <2>4. a \in Addresses
    BY <1>1, Sizing DEF Addresses
  <2>5. l_allocated = Sum(f) /\ l_allocated' = l_allocated + PagesFor(call.size) * PageSize
    BY DEF Counted, NewPage
  <2> HIDE DEF f, g
  <2>6. DOMAIN f \subseteq Addresses /\ g[a] \in Int /\ a \notin DOMAIN f /\ DOMAIN g = DOMAIN f \cup {a}
    BY <2>1, <2>3, <1>1
  <2>7. Sum(g) = Sum(f) + g[a]
    BY <2>2, <2>3, <2>4, <2>6, SumGains
  <2> QED BY <2>1, <2>5, <2>7 DEF g
<1>6. l_inuse' = Sum([m \in DOMAIN minors' |-> minors'[m].size])
  BY DEF Counted
<1> QED BY <1>4, <1>5, <1>6 DEF Counted

-----------------------------------------------------------------------------
(* What the invariant says of one header.                                  *)
LEMMA MajorFacts ==
  ASSUME MajorsPlaced, NEW a \in DOMAIN majors
  PROVE  /\ a \in Nat /\ a > 0 /\ a # NULL
         /\ SizeOf(a) \in Nat /\ MajorSize < SizeOf(a) /\ a + SizeOf(a) < WordSize
         /\ majors[a].usage \in Nat
         /\ majors[a].next \in Nat /\ majors[a].prev \in Nat /\ majors[a].first \in Nat
<1>1. a \in Nat /\ a # NULL
  BY NullIsNoHeader
<1>2. majors[a].pages \in Nat \ {0} /\ majors[a].usage \in Nat
  BY DEF MajorsPlaced, MajorHeader
<1>3. 1 * PageSize <= majors[a].pages * PageSize /\ majors[a].pages * PageSize \in Nat
  BY <1>2, MulMono, Sizing
<1>4. a + SizeOf(a) < WordSize
  BY DEF MajorsPlaced
<1>5. majors[a].next \in Addresses /\ majors[a].prev \in Addresses /\ majors[a].first \in Addresses
  BY DEF MajorsPlaced, MajorHeader
<1>6. \A x \in Addresses : x \in Nat
  BY Sizing DEF Addresses
<1> QED BY <1>1, <1>2, <1>3, <1>4, <1>5, <1>6, Sizing DEF SizeOf, NULL

LEMMA MinorFacts ==
  ASSUME MajorsPlaced, MinorsPlaced, NEW m \in DOMAIN minors
  PROVE  /\ m \in Nat /\ m > 0 /\ m # NULL
         /\ minors[m].block \in DOMAIN majors /\ m \in MinorsIn(minors[m].block)
         /\ minors[m].size \in Nat /\ minors[m].req \in Nat \ {0}
         /\ End(m) = m + MinorSize + minors[m].size /\ End(m) \in Nat
         /\ minors[m].block + MajorSize <= m
         /\ End(m) <= minors[m].block + SizeOf(minors[m].block)
<1>1. m \in Nat /\ m # NULL
  BY NullIsNoHeader
<1>2. /\ minors[m].block \in DOMAIN majors /\ minors[m].size \in Nat
      /\ minors[m].req \in Nat \ {0}
  BY DEF MinorsPlaced, MinorHeader
<1>3. /\ minors[m].block + MajorSize <= m
      /\ End(m) <= minors[m].block + SizeOf(minors[m].block)
  BY <1>1, <1>2, MajorFacts, Sizing DEF MinorsPlaced
<1> QED BY <1>1, <1>2, <1>3, Sizing DEF NULL, End, MinorsIn

LEMMA InMajor ==
  ASSUME MajorsPlaced, MinorsPlaced, NEW a \in DOMAIN majors, NEW m \in MinorsIn(a)
  PROVE  /\ m \in DOMAIN minors /\ minors[m].block = a
         /\ a + MajorSize <= m /\ End(m) <= a + SizeOf(a)
BY MinorFacts DEF MinorsIn

(* A major's usage never reaches past its pages: what is unused is no less *)
(* than any gap there is.                                                  *)
LEMMA UsageFits ==
  ASSUME MajorsPlaced, MinorsPlaced, Counted, NEW a \in DOMAIN majors
  PROVE  /\ Sum(Bytes(a)) \in Nat /\ majors[a].usage = MajorSize + Sum(Bytes(a))
         /\ majors[a].usage <= SizeOf(a)
         /\ Unused(a) = SizeOf(a) - majors[a].usage
<1> DEFINE f == Bytes(a)
           lo == a + MajorSize
           hi == a + SizeOf(a)
<1>1. /\ a \in Nat /\ SizeOf(a) \in Nat /\ MajorSize < SizeOf(a) /\ hi < WordSize
      /\ majors[a].usage \in Nat
  BY MajorFacts
<1>2. lo \in Nat /\ hi \in Nat /\ lo <= hi
  BY <1>1, Sizing
<1>3. /\ DOMAIN f = MinorsIn(a) /\ DOMAIN f \subseteq Nat
      /\ \A k \in DOMAIN f : f[k] = minors[k].size + MinorSize /\ f[k] \in Nat
                             /\ k + f[k] = End(k)
  BY InMajor, MinorFacts, Sizing DEF Bytes, End
<1>4. \A k \in DOMAIN f : lo <= k /\ k + f[k] <= hi
  BY <1>3, InMajor
<1>5. \A k, l \in DOMAIN f : k < l => k + f[k] <= l
  <2> SUFFICES ASSUME NEW k \in MinorsIn(a), NEW l \in MinorsIn(a), k < l PROVE End(k) <= l
    BY <1>3
  <2>1. k \in DOMAIN minors /\ minors[k].block = a
    BY InMajor
  <2> QED BY <2>1 DEF MinorsPlaced
<1>6. SumBelow(f, WordSize) \in Nat /\ SumBelow(f, WordSize) <= hi - lo
  <2> HIDE DEF f, lo, hi
  <2> QED BY <1>2, <1>3, <1>4, <1>5, Packing, Sizing
<1>7. majors[a].usage = MajorSize + Sum(f)
  BY DEF Counted
<1>8. majors[a].usage <= SizeOf(a) /\ Sum(f) \in Nat
  BY <1>1, <1>6, <1>7, Sizing DEF Sum
<1>9. Unused(a) = SizeOf(a) - majors[a].usage
  <2>1. SizeOf(a) - majors[a].usage \in 0 .. WordSize - 1
    BY <1>1, <1>8, Sizing
  <2> QED BY <2>1, NoWrap DEF Unused
<1> QED BY <1>7, <1>8, <1>9

LEMMA RoomIsUnused ==
  ASSUME MajorsPlaced, MinorsPlaced, Counted, NEW a \in DOMAIN majors,
         NEW n \in Nat \ {0}, HasRoom(a, n)
  PROVE  n <= Unused(a)
<1>1. PICK x \in a + MajorSize .. a + SizeOf(a) - n :
         \A m \in MinorsIn(a) : x + n <= m \/ End(m) <= x
  BY DEF HasRoom
<1> DEFINE f == Bytes(a)
           g == [k \in MinorsIn(a) \cup {x} |-> IF k = x THEN n ELSE f[k]]
           lo == a + MajorSize
           hi == a + SizeOf(a)
<1>2. /\ a \in Nat /\ SizeOf(a) \in Nat /\ MajorSize < SizeOf(a) /\ hi < WordSize
      /\ majors[a].usage \in Nat
  BY MajorFacts
<1>3. lo \in Nat /\ hi \in Nat /\ lo <= hi /\ x \in Nat /\ lo <= x /\ x + n <= hi
  BY <1>1, <1>2, Sizing
<1>4. \A k \in MinorsIn(a) :
        /\ f[k] = minors[k].size + MinorSize /\ f[k] \in Nat /\ f[k] > 0
        /\ k \in Nat /\ k + f[k] = End(k) /\ lo <= k /\ k + f[k] <= hi
  BY InMajor, MinorFacts, Sizing DEF Bytes, End
<1>5. x \notin MinorsIn(a)
  BY <1>1, <1>3, <1>4
<1>6. DOMAIN f = MinorsIn(a)
  BY DEF Bytes
<1>7. \A k, l \in MinorsIn(a) : k < l => k + f[k] <= l
  <2> SUFFICES ASSUME NEW k \in MinorsIn(a), NEW l \in MinorsIn(a), k < l PROVE End(k) <= l
    BY <1>4
  <2>1. k \in DOMAIN minors /\ minors[k].block = a
    BY InMajor
  <2> QED BY <2>1 DEF MinorsPlaced
<1>8. /\ DOMAIN g = DOMAIN f \cup {x} /\ g[x] = n /\ \A k \in DOMAIN f : g[k] = f[k]
  BY <1>5, <1>6
<1> HIDE DEF f, g
<1>9. \A k \in DOMAIN g : g[k] \in Nat /\ k \in Nat /\ lo <= k /\ k + g[k] <= hi
  BY <1>3, <1>4, <1>6, <1>8
<1>10. \A k, l \in DOMAIN g : k < l => k + g[k] <= l
  <2> SUFFICES ASSUME NEW k \in DOMAIN g, NEW l \in DOMAIN g, k < l PROVE k + g[k] <= l
    OBVIOUS
  <2>1. CASE k = x /\ l # x
    <3>1. l \in MinorsIn(a) /\ l \in Nat /\ End(l) > l
      BY <2>1, <1>8, <1>6, <1>4
    <3>2. ~(End(l) <= x)
      BY <3>1, <2>1, <1>3, <1>4
    <3> QED BY <3>1, <3>2, <2>1, <1>1, <1>8
  <2>2. CASE k # x /\ l = x
    <3>1. k \in MinorsIn(a) /\ k \in Nat /\ k + f[k] = End(k)
      BY <2>2, <1>8, <1>6, <1>4
    <3>2. ~(x + n <= k)
      BY <3>1, <2>2, <1>3
    <3> QED BY <3>1, <3>2, <2>2, <1>1, <1>6, <1>8
  <2>3. CASE k # x /\ l # x
    BY <2>3, <1>6, <1>7, <1>8
  <2> QED BY <2>1, <2>2, <2>3, <1>9
<1>11. SumBelow(g, WordSize) <= hi - lo
  <2> HIDE DEF lo, hi
  <2>1. DOMAIN g \subseteq Nat /\ \A k \in DOMAIN g : g[k] \in Nat
    BY <1>9
  <2> QED BY <2>1, <1>3, <1>9, <1>10, Packing, Sizing
<1>12. Sum(g) = Sum(f) + n
  <2>1. x \in Addresses /\ DOMAIN f \subseteq Addresses
    <3>1. \A k \in DOMAIN f : k \in Nat /\ k <= hi
      BY <1>4, <1>6, <1>2
    <3> QED BY <3>1, <1>2, <1>3, Sizing DEF Addresses
  <2>2. x \notin DOMAIN f /\ \A k \in DOMAIN f : f[k] \in Int
    BY <1>4, <1>5, <1>6
  <2>3. g[x] \in Int
    BY <1>8
  <2>4. Sum(g) = Sum(f) + g[x]
    BY <2>1, <2>2, <2>3, <1>8, SumGains
  <2> QED BY <2>4, <1>8
<1>13. /\ Sum(f) \in Nat /\ majors[a].usage = MajorSize + Sum(f)
       /\ Unused(a) = SizeOf(a) - majors[a].usage
  BY UsageFits DEF f
<1> QED BY <1>2, <1>3, <1>11, <1>12, <1>13, Sizing DEF Sum

(* Where a minor of the size wanted may be put: between prev and next.     *)
Slot(m, prev, next) ==
  /\ call.maj \in DOMAIN majors /\ CallFits
  /\ m \in Nat /\ call.maj + MajorSize <= m
  /\ m + MinorSize + call.size <= call.maj + SizeOf(call.maj)
  /\ \A n \in MinorsIn(call.maj) : End(n) <= m \/ m + MinorSize + call.size <= n
  /\ IF prev = NULL THEN \A n \in MinorsIn(call.maj) : m < n
     ELSE /\ prev \in MinorsIn(call.maj) /\ prev < m /\ minors[prev].next = next
          /\ \A n \in MinorsIn(call.maj) : n <= prev \/ m < n
  /\ IF next = NULL THEN \A n \in MinorsIn(call.maj) : n < m
     ELSE /\ next \in MinorsIn(call.maj) /\ m < next /\ minors[next].prev = prev
          /\ \A n \in MinorsIn(call.maj) : n < m \/ next <= n

(* Nothing else lies there, in this major or another.                      *)
LEMMA SlotIsFree ==
  ASSUME MajorsPlaced, MinorsPlaced, NEW m, NEW prev, NEW next, Slot(m, prev, next)
  PROVE  /\ \A n \in DOMAIN minors : End(n) <= m \/ m + MinorSize + call.size <= n
         /\ m \notin DOMAIN minors /\ m \in Nat /\ m > 0
         /\ m + MinorSize + call.size < WordSize
<1> DEFINE c == call.maj
<1>1. /\ c \in DOMAIN majors /\ c \in Nat /\ SizeOf(c) \in Nat /\ call.size \in Nat
      /\ m \in Nat /\ c + MajorSize <= m /\ m + MinorSize + call.size <= c + SizeOf(c)
      /\ c + SizeOf(c) < WordSize
      /\ \A n \in MinorsIn(c) : End(n) <= m \/ m + MinorSize + call.size <= n
  BY MajorFacts DEF Slot, CallFits
<1> HIDE DEF c
<1>2. ASSUME NEW n \in DOMAIN minors
      PROVE  End(n) <= m \/ m + MinorSize + call.size <= n
  <2> DEFINE b == minors[n].block
  <2>1. /\ b \in DOMAIN majors /\ b \in Nat /\ SizeOf(b) \in Nat /\ n \in MinorsIn(b)
        /\ b + MajorSize <= n /\ End(n) <= b + SizeOf(b) /\ n \in Nat /\ End(n) \in Nat
    BY MinorFacts, MajorFacts
  <2> HIDE DEF b
  <2>2. CASE b = c
    BY <2>1, <2>2, <1>1
  <2>3. CASE b < c
    <3>1. b + SizeOf(b) <= c
      BY <2>1, <2>3, <1>1 DEF MajorsPlaced
    <3> QED BY <3>1, <2>1, <1>1, Sizing
  <2>4. CASE c < b
    <3>1. c + SizeOf(c) <= b
      BY <2>1, <2>4, <1>1 DEF MajorsPlaced
    <3> QED BY <3>1, <2>1, <1>1, Sizing
  <2> QED BY <2>1, <2>2, <2>3, <2>4, <1>1
<1>3. m \notin DOMAIN minors
  <2> SUFFICES ASSUME m \in DOMAIN minors PROVE FALSE
    OBVIOUS
  <2>1. End(m) = m + MinorSize + minors[m].size /\ minors[m].size \in Nat
    BY MinorFacts
  <2> QED BY <2>1, <1>1, <1>2, Sizing
<1> QED BY <1>1, <1>2, <1>3, Sizing

(* What Place does to the minors, and to the majors.                       *)
LEMMA PlaceFacts ==
  ASSUME MajorsPlaced, MinorsPlaced, NEW m, NEW prev, NEW next, Slot(m, prev, next),
         Place(m, prev, next)
  PROVE  /\ DOMAIN minors' = DOMAIN minors \cup {m}
         /\ minors'[m] = [prev |-> prev, next |-> next, block |-> call.maj,
                          size |-> call.size, req |-> call.req]
         /\ DOMAIN majors' = DOMAIN majors
<1>1. DOMAIN minors' = DOMAIN minors \cup {m}
  BY DEF Place, Insert
<1>2. minors'[m] = [prev |-> prev, next |-> next, block |-> call.maj,
                    size |-> call.size, req |-> call.req]
  BY DEF Place, Insert
<1>3. DOMAIN majors' = DOMAIN majors
  BY DEF Place
<1> QED BY <1>1, <1>2, <1>3

LEMMA PlaceMinor ==
  ASSUME MajorsPlaced, MinorsPlaced, NEW m, NEW prev, NEW next, Slot(m, prev, next),
         Place(m, prev, next), NEW n \in DOMAIN minors
  PROVE  /\ minors'[n].next = IF n = prev THEN m ELSE minors[n].next
         /\ minors'[n].prev = IF n = next THEN m ELSE minors[n].prev
         /\ minors'[n].block = minors[n].block
         /\ minors'[n].size = minors[n].size
         /\ minors'[n].req = minors[n].req
<1> DEFINE r == [prev |-> prev, next |-> next, block |-> call.maj,
                 size |-> call.size, req |-> call.req]
<1>1. r.prev = prev /\ r.next = next
  OBVIOUS
<1>2. minors' = Insert(minors, m, r)
  BY DEF Place
<1>3. m \notin DOMAIN minors
  BY SlotIsFree
<1>4. Header(minors)
  BY DEF Header, MinorsPlaced, MinorHeader
<1> HIDE DEF r
<1>5. minors'[n].next = IF n = prev THEN m ELSE minors[n].next
  BY <1>1, <1>2, <1>3, <1>4, InsertOld
<1>6. minors'[n].prev = IF n = next THEN m ELSE minors[n].prev
  BY <1>1, <1>2, <1>3, <1>4, InsertOld
<1>7. \A k \in DOMAIN minors[n] : k \notin {"prev", "next"} => minors'[n][k] = minors[n][k]
  BY <1>1, <1>2, <1>3, <1>4, InsertOld
<1>8. {"block", "size", "req"} \subseteq DOMAIN minors[n]
  BY DEF MinorsPlaced, MinorHeader
<1> QED BY <1>5, <1>6, <1>7, <1>8

LEMMA PlaceMajor ==
  ASSUME MajorsPlaced, NEW m, NEW prev, NEW next, Place(m, prev, next),
         NEW a \in DOMAIN majors
  PROVE  /\ majors'[a].next = majors[a].next /\ majors'[a].prev = majors[a].prev
         /\ majors'[a].pages = majors[a].pages /\ SizeOf(a)' = SizeOf(a)
         /\ majors'[a].usage = IF a = call.maj THEN majors[a].usage + call.size + MinorSize
                                               ELSE majors[a].usage
         /\ majors'[a].first = IF a = call.maj /\ prev = NULL THEN m ELSE majors[a].first
<1>1. majors[a] \in MajorHeader
  BY DEF MajorsPlaced, MajorHeader
<1>2. majors'[a] = IF a = call.maj
                   THEN [majors[a] EXCEPT !.usage = majors[a].usage + call.size + MinorSize,
                                          !.first = IF prev = NULL THEN m ELSE majors[a].first]
                   ELSE majors[a]
  BY DEF Place, UsageWith
<1>3. CASE a = call.maj
  BY <1>1, <1>2, <1>3 DEF MajorHeader, SizeOf
<1>4. CASE a # call.maj
  BY <1>2, <1>4 DEF SizeOf
<1> QED BY <1>3, <1>4

(* Placing a block leaves the majors where they are, in the same order.    *)
LEMMA PlaceMajorsPlaced ==
  ASSUME MajorsPlaced, MinorsPlaced, NEW m, NEW prev, NEW next, Slot(m, prev, next),
         Place(m, prev, next)
  PROVE  MajorsPlaced'
<1>1. DOMAIN majors' = DOMAIN majors
  BY PlaceFacts
<1>2. m \in Addresses /\ call.size \in Nat
  <2>1. call.size \in Nat
    BY DEF Slot, CallFits
  <2>2. m \in Nat /\ m + MinorSize + call.size < WordSize
    BY SlotIsFree
  <2> QED BY <2>1, <2>2, Sizing DEF Addresses
<1>3. ASSUME NEW a \in DOMAIN majors
      PROVE  /\ majors'[a] \in MajorHeader /\ majors'[a].pages > 0
             /\ a + SizeOf(a)' < WordSize
  <2>1. majors[a] \in MajorHeader /\ majors[a].pages > 0
    BY DEF MajorsPlaced, MajorHeader
  <2>2. majors'[a] = IF a = call.maj
                     THEN [majors[a] EXCEPT !.usage = majors[a].usage + call.size + MinorSize,
                                            !.first = IF prev = NULL THEN m ELSE majors[a].first]
                     ELSE majors[a]
    BY DEF Place, UsageWith
  <2>3. majors'[a] \in MajorHeader
    <3>1. CASE a = call.maj
      <4>1. majors[a].usage + call.size + MinorSize \in Nat
        BY <2>1, <1>2, Sizing DEF MajorHeader
      <4> QED BY <4>1, <3>1, <2>1, <2>2, <1>2 DEF MajorHeader
    <3>2. CASE a # call.maj
      BY <3>2, <2>1, <2>2
    <3> QED BY <3>1, <3>2
  <2> QED BY <2>1, <2>3, PlaceMajor, MajorFacts
<1>4. ASSUME NEW a \in DOMAIN majors, NEW b \in DOMAIN majors, a < b
      PROVE  a + SizeOf(a)' <= b
  BY <1>4, PlaceMajor DEF MajorsPlaced
<1>5. DOMAIN majors' \subseteq PageAddresses
  BY <1>1 DEF MajorsPlaced
<1> QED BY <1>1, <1>3, <1>4, <1>5 DEF MajorsPlaced, MajorHeader, Addresses

(* The order of the majors is none of its business.                        *)
LEMMA SameOrder ==
  ASSUME NEW ord, ListedBy(ord), DOMAIN majors' = DOMAIN majors, l_memRoot' = l_memRoot,
         \A a \in DOMAIN majors :
           majors'[a].next = majors[a].next /\ majors'[a].prev = majors[a].prev
  PROVE  ListedBy(ord)'
BY DEF ListedBy

LEMMA PlaceMinorsPlaced ==
  ASSUME MajorsPlaced, MinorsPlaced, NEW m, NEW prev, NEW next, Slot(m, prev, next),
         Place(m, prev, next), call.req \in Nat \ {0},
         prev \in Addresses, next \in Addresses
  PROVE  MinorsPlaced'
<1>1. /\ DOMAIN minors' = DOMAIN minors \cup {m} /\ DOMAIN majors' = DOMAIN majors
      /\ minors'[m].block = call.maj /\ minors'[m].size = call.size
      /\ minors'[m] = [prev |-> prev, next |-> next, block |-> call.maj,
                       size |-> call.size, req |-> call.req]
  <2>1. /\ DOMAIN minors' = DOMAIN minors \cup {m} /\ DOMAIN majors' = DOMAIN majors
        /\ minors'[m] = [prev |-> prev, next |-> next, block |-> call.maj,
                         size |-> call.size, req |-> call.req]
    BY PlaceFacts
  <2> QED BY <2>1
<1>2. /\ m \in Nat /\ m \notin DOMAIN minors /\ m + MinorSize + call.size < WordSize
      /\ \A n \in DOMAIN minors : End(n) <= m \/ m + MinorSize + call.size <= n
      /\ call.maj \in DOMAIN majors /\ call.size \in Nat
  BY SlotIsFree DEF Slot, CallFits
<1>3. m \in Addresses
  BY <1>2, Sizing DEF Addresses
<1>4. \A n \in DOMAIN minors : End(n)' = End(n) /\ minors'[n].block = minors[n].block
  BY PlaceMinor DEF End
<1>5. End(m)' = m + MinorSize + call.size
  BY <1>1 DEF End
<1>6. ASSUME NEW n \in DOMAIN minors' PROVE minors'[n] \in MinorHeader'
  <2>1. CASE n = m
    BY <2>1, <1>1, <1>2 DEF MinorHeader, Addresses
  <2>2. CASE n # m
    <3>1. n \in DOMAIN minors /\ minors[n] \in MinorHeader
      BY <2>2, <1>1 DEF MinorsPlaced
    <3>2. minors'[n] = [minors[n] EXCEPT !.next = IF n = prev THEN m ELSE minors[n].next,
                                         !.prev = IF n = next THEN m ELSE minors[n].prev]
      BY <3>1, <2>2 DEF Place, Insert
    <3>3. minors'[n] \in MinorHeader
      BY <3>1, <3>2, <1>3 DEF MinorHeader
    <3> QED BY <3>3, <1>1 DEF MinorHeader, Addresses
  <2> QED BY <2>1, <2>2
<1>7. ASSUME NEW n \in DOMAIN minors'
      PROVE  /\ n >= minors'[n].block + MajorSize
             /\ End(n)' <= minors'[n].block + SizeOf(minors[n].block)'
  <2>1. CASE n = m
    <3>1. /\ call.maj + MajorSize <= m
          /\ m + MinorSize + call.size <= call.maj + SizeOf(call.maj)
          /\ call.maj \in Nat
      BY <1>2, MajorFacts DEF Slot
    <3>2. \A a : a = call.maj => SizeOf(a)' = SizeOf(a)
      BY <1>2, PlaceMajor
    <3>3. SizeOf(minors[m].block)' = SizeOf(call.maj)
      BY <3>2, <1>1 DEF SizeOf
    <3> QED BY <3>1, <3>3, <2>1, <1>1, <1>2, <1>5, Sizing
  <2>2. CASE n # m
    <3>1. /\ n \in DOMAIN minors /\ minors[n].block \in DOMAIN majors
          /\ minors[n].block + MajorSize <= n /\ n \in Nat
          /\ End(n) <= minors[n].block + SizeOf(minors[n].block)
          /\ minors[n].block \in Nat
      BY <2>2, <1>1, MinorFacts, MajorFacts
    <3>2. \A a : a = minors[n].block => SizeOf(a)' = SizeOf(a)
      BY <3>1, PlaceMajor
    <3>3. SizeOf(minors[n].block)' = SizeOf(minors[n].block)
      BY <3>1, <3>2, <1>4 DEF SizeOf
    <3> QED BY <3>1, <3>3, <1>4, Sizing
  <2> QED BY <2>1, <2>2
<1>8. ASSUME NEW n \in DOMAIN minors', NEW k \in DOMAIN minors',
             minors'[k].block = minors'[n].block, n < k
      PROVE  End(n)' <= k
  <2>1. CASE n = m
    <3>1. k \in DOMAIN minors /\ k \in Nat /\ ~(End(k) <= m)
      BY <2>1, <1>1, <1>2, <1>8, MinorFacts, Sizing
    <3> QED BY <3>1, <2>1, <1>2, <1>5
  <2>2. CASE n # m /\ k = m
    <3>1. n \in DOMAIN minors /\ n \in Nat
      BY <2>2, <1>1, MinorFacts
    <3>2. ~(m + MinorSize + call.size <= n)
      BY <3>1, <2>2, <1>2, <1>8, Sizing
    <3> QED BY <3>1, <3>2, <2>2, <1>2, <1>4
  <2>3. CASE n # m /\ k # m
    <3>1. n \in DOMAIN minors /\ k \in DOMAIN minors /\ minors[k].block = minors[n].block
      BY <2>3, <1>1, <1>4, <1>8
    <3>2. k \in MinorsIn(minors[n].block)
      BY <3>1 DEF MinorsIn
    <3>3. End(n) <= k
      BY <3>1, <3>2, <1>8 DEF MinorsPlaced
    <3> QED BY <3>1, <3>3, <1>4
  <2> QED BY <2>1, <2>2, <2>3
<1>9. DOMAIN minors' \subseteq Addresses
  BY <1>1, <1>3 DEF MinorsPlaced
<1>10. \A n \in DOMAIN minors' : \A k \in MinorsIn(minors[n].block)' :
          k \in DOMAIN minors' /\ minors'[k].block = minors'[n].block
  BY DEF MinorsIn
<1> QED BY <1>6, <1>7, <1>8, <1>9, <1>10 DEF MinorsPlaced, Addresses

(* The new minor stands in its list in the order of the addresses.         *)
LEMMA PlaceMinorsListed ==
  ASSUME MajorsPlaced, MinorsPlaced, MinorsListed,
         NEW m, NEW prev, NEW next, Slot(m, prev, next), Place(m, prev, next)
  PROVE  MinorsListed'
<1>1. /\ DOMAIN minors' = DOMAIN minors \cup {m}
      /\ minors'[m].prev = prev /\ minors'[m].next = next /\ minors'[m].block = call.maj
  <2>1. /\ DOMAIN minors' = DOMAIN minors \cup {m}
        /\ minors'[m] = [prev |-> prev, next |-> next, block |-> call.maj,
                         size |-> call.size, req |-> call.req]
    BY PlaceFacts
  <2> QED BY <2>1
<1>2. m \in Nat /\ m # NULL /\ m \notin DOMAIN minors
  BY SlotIsFree DEF NULL
<1>3. \A b : MinorsIn(b)' = IF b = call.maj THEN MinorsIn(b) \cup {m} ELSE MinorsIn(b)
  <2>1. \A n \in DOMAIN minors : minors'[n].block = minors[n].block
    BY PlaceMinor
  <2> QED BY <1>1, <1>2, <2>1 DEF MinorsIn
<1>4. \A n \in DOMAIN minors : n \in Nat /\ n # NULL
  BY MinorFacts
<1>5. \A b : \A n \in MinorsIn(b) : n \in DOMAIN minors /\ minors[n].block = b
  BY DEF MinorsIn
<1>6. /\ IF prev = NULL THEN \A n \in MinorsIn(call.maj) : m < n
         ELSE /\ prev \in MinorsIn(call.maj) /\ prev < m /\ minors[prev].next = next
              /\ \A n \in MinorsIn(call.maj) : n <= prev \/ m < n
      /\ IF next = NULL THEN \A n \in MinorsIn(call.maj) : n < m
         ELSE /\ next \in MinorsIn(call.maj) /\ m < next /\ minors[next].prev = prev
              /\ \A n \in MinorsIn(call.maj) : n < m \/ next <= n
  BY DEF Slot
<1>7. ASSUME NEW n \in DOMAIN minors', NEW b, b = minors'[n].block
      PROVE  IF minors'[n].next = NULL THEN \A k \in MinorsIn(b)' : k <= n
             ELSE /\ minors'[n].next \in MinorsIn(b)' /\ n < minors'[n].next
                  /\ \A k \in MinorsIn(b)' : k <= n \/ minors'[n].next <= k
  <2>1. CASE n = m
    <3>1. b = call.maj /\ MinorsIn(b)' = MinorsIn(b) \cup {m} /\ minors'[n].next = next
      BY <2>1, <1>1, <1>3, <1>7
    <3> QED BY <3>1, <2>1, <1>2, <1>4, <1>5, <1>6
  <2>2. CASE n # m
    <3>1. /\ n \in DOMAIN minors /\ b = minors[n].block
          /\ minors'[n].next = IF n = prev THEN m ELSE minors[n].next
      BY <2>2, <1>1, <1>7, PlaceMinor
    <3>2. n \in MinorsIn(b)
      BY <3>1 DEF MinorsIn
    <3>3. IF minors[n].next = NULL THEN \A k \in MinorsIn(b) : k <= n
          ELSE /\ minors[n].next \in MinorsIn(b) /\ n < minors[n].next
               /\ \A k \in MinorsIn(b) : k <= n \/ minors[n].next <= k
      BY <3>1 DEF MinorsListed
    <3>4. CASE n = prev
      <4>1. b = call.maj /\ prev \in MinorsIn(b) /\ prev < m /\ MinorsIn(b)' = MinorsIn(b) \cup {m}
            /\ \A k \in MinorsIn(b) : k <= prev \/ m < k
        BY <3>1, <3>4, <1>3, <1>4, <1>5, <1>6
      <4> QED BY <4>1, <3>1, <3>4, <1>2, <1>4, <1>5
    <3>5. CASE n # prev /\ b = call.maj
      <4>1. MinorsIn(b)' = MinorsIn(b) \cup {m} /\ minors'[n].next = minors[n].next
        BY <3>1, <3>5, <1>3
      <4>2. CASE minors[n].next = NULL
        <5>1. \A k \in MinorsIn(b) : k <= n
          BY <4>2, <3>3
        <5>2. m <= n
          <6>1. CASE prev = NULL
            BY <6>1, <3>1, <3>2, <3>5, <1>6, <1>4, <1>2
          <6>2. CASE prev # NULL
            <7>1. prev \in MinorsIn(b) /\ prev <= n /\ prev \in Nat /\ n \in Nat
              BY <6>2, <3>5, <5>1, <1>6, <1>4, <1>5, <3>1
            <7> QED BY <7>1, <6>2, <3>2, <3>5, <1>2, <1>6
          <6> QED BY <6>1, <6>2
        <5> QED BY <4>1, <4>2, <5>1, <5>2
      <4>3. CASE minors[n].next # NULL
        <5>1. /\ minors[n].next \in MinorsIn(b) /\ n < minors[n].next
              /\ \A k \in MinorsIn(b) : k <= n \/ minors[n].next <= k
          BY <4>3, <3>3
        <5>2. m <= n \/ minors[n].next <= m
          <6>0. n \in Nat /\ minors[n].next \in Nat
            BY <3>1, <5>1, <1>4, <1>5
          <6>1. CASE prev = NULL
            BY <6>0, <6>1, <3>2, <3>5, <1>6, <1>2
          <6>2. CASE prev # NULL
            <7>1. prev \in MinorsIn(b) /\ prev \in Nat
              BY <6>2, <3>5, <1>6, <1>4, <1>5
            <7>2. prev <= n \/ minors[n].next <= prev
              BY <7>1, <5>1
            <7>3. n <= prev \/ m < n
              BY <6>2, <3>2, <3>5, <1>6
            <7>4. prev < m
              BY <6>2, <1>6
            <7> QED BY <6>0, <7>1, <7>2, <7>3, <7>4, <3>5, <1>2
          <6> QED BY <6>1, <6>2
        <5> QED BY <4>1, <4>3, <5>1, <5>2
      <4> QED BY <4>2, <4>3
    <3>6. CASE n # prev /\ b # call.maj
      BY <3>1, <3>3, <3>6, <1>3
    <3> QED BY <3>4, <3>5, <3>6
  <2> QED BY <2>1, <2>2
<1>8. ASSUME NEW n \in DOMAIN minors', NEW b, b = minors'[n].block
      PROVE  IF minors'[n].prev = NULL THEN \A k \in MinorsIn(b)' : n <= k
             ELSE /\ minors'[n].prev \in MinorsIn(b)' /\ minors'[n].prev < n
                  /\ \A k \in MinorsIn(b)' : k <= minors'[n].prev \/ n <= k
  <2>1. CASE n = m
    <3>1. b = call.maj /\ MinorsIn(b)' = MinorsIn(b) \cup {m} /\ minors'[n].prev = prev
      BY <2>1, <1>1, <1>3, <1>8
    <3> QED BY <3>1, <2>1, <1>2, <1>4, <1>5, <1>6
  <2>2. CASE n # m
    <3>1. /\ n \in DOMAIN minors /\ b = minors[n].block
          /\ minors'[n].prev = IF n = next THEN m ELSE minors[n].prev
      BY <2>2, <1>1, <1>8, PlaceMinor
    <3>2. n \in MinorsIn(b)
      BY <3>1 DEF MinorsIn
    <3>3. IF minors[n].prev = NULL THEN \A k \in MinorsIn(b) : n <= k
          ELSE /\ minors[n].prev \in MinorsIn(b) /\ minors[n].prev < n
               /\ \A k \in MinorsIn(b) : k <= minors[n].prev \/ n <= k
      BY <3>1 DEF MinorsListed
    <3>4. CASE n = next
      <4>1. b = call.maj /\ next \in MinorsIn(b) /\ m < next /\ MinorsIn(b)' = MinorsIn(b) \cup {m}
            /\ \A k \in MinorsIn(b) : k < m \/ next <= k
        BY <3>1, <3>4, <1>3, <1>4, <1>5, <1>6
      <4> QED BY <4>1, <3>1, <3>4, <1>2, <1>4, <1>5
    <3>5. CASE n # next /\ b = call.maj
      <4>1. MinorsIn(b)' = MinorsIn(b) \cup {m} /\ minors'[n].prev = minors[n].prev
        BY <3>1, <3>5, <1>3
      <4>2. CASE minors[n].prev = NULL
        <5>1. \A k \in MinorsIn(b) : n <= k
          BY <4>2, <3>3
        <5>2. n <= m
          <6>1. CASE next = NULL
            BY <6>1, <3>1, <3>2, <3>5, <1>6, <1>4, <1>2
          <6>2. CASE next # NULL
            <7>1. next \in MinorsIn(b) /\ n <= next /\ next \in Nat /\ n \in Nat
              BY <6>2, <3>5, <5>1, <1>6, <1>4, <1>5, <3>1
            <7> QED BY <7>1, <6>2, <3>2, <3>5, <1>2, <1>6
          <6> QED BY <6>1, <6>2
        <5> QED BY <4>1, <4>2, <5>1, <5>2
      <4>3. CASE minors[n].prev # NULL
        <5>1. /\ minors[n].prev \in MinorsIn(b) /\ minors[n].prev < n
              /\ \A k \in MinorsIn(b) : k <= minors[n].prev \/ n <= k
          BY <4>3, <3>3
        <5>2. m <= minors[n].prev \/ n <= m
          <6>0. n \in Nat /\ minors[n].prev \in Nat
            BY <3>1, <5>1, <1>4, <1>5
          <6>1. CASE next = NULL
            BY <6>0, <6>1, <3>2, <3>5, <1>6, <1>2
          <6>2. CASE next # NULL
            <7>1. next \in MinorsIn(b) /\ next \in Nat
              BY <6>2, <3>5, <1>6, <1>4, <1>5
            <7>2. next <= minors[n].prev \/ n <= next
              BY <7>1, <5>1
            <7>3. n < m \/ next <= n
              BY <6>2, <3>2, <3>5, <1>6
            <7>4. m < next
              BY <6>2, <1>6
            <7> QED BY <6>0, <7>1, <7>2, <7>3, <7>4, <3>5, <1>2
          <6> QED BY <6>1, <6>2
        <5> QED BY <4>1, <4>3, <5>1, <5>2
      <4> QED BY <4>2, <4>3
    <3>6. CASE n # next /\ b # call.maj
      BY <3>1, <3>3, <3>6, <1>3
    <3> QED BY <3>4, <3>5, <3>6
  <2> QED BY <2>1, <2>2
<1> SUFFICES ASSUME NEW n \in DOMAIN minors'
             PROVE  /\ IF minors'[n].next = NULL THEN \A k \in MinorsIn(minors[n].block)' : k <= n
                       ELSE /\ minors'[n].next \in MinorsIn(minors[n].block)' /\ n < minors'[n].next
                            /\ \A k \in MinorsIn(minors[n].block)' : k <= n \/ minors'[n].next <= k
                    /\ IF minors'[n].prev = NULL THEN \A k \in MinorsIn(minors[n].block)' : n <= k
                       ELSE /\ minors'[n].prev \in MinorsIn(minors[n].block)' /\ minors'[n].prev < n
                            /\ \A k \in MinorsIn(minors[n].block)' : k <= minors'[n].prev \/ n <= k
  BY DEF MinorsListed
<1>9. PICK b : b = minors'[n].block
  OBVIOUS
<1>10. MinorsIn(minors[n].block)' = MinorsIn(b)'
  BY <1>9 DEF MinorsIn
<1> QED BY <1>7, <1>8, <1>9, <1>10

LEMMA PlaceFirstsListed ==
  ASSUME MajorsPlaced, MinorsPlaced, FirstsListed,
         NEW m, NEW prev, NEW next, Slot(m, prev, next), Place(m, prev, next)
  PROVE  FirstsListed' /\ majors'[call.maj].first # NULL
<1>1. /\ DOMAIN minors' = DOMAIN minors \cup {m} /\ DOMAIN majors' = DOMAIN majors
      /\ minors'[m].block = call.maj
  <2>1. /\ DOMAIN minors' = DOMAIN minors \cup {m} /\ DOMAIN majors' = DOMAIN majors
        /\ minors'[m] = [prev |-> prev, next |-> next, block |-> call.maj,
                         size |-> call.size, req |-> call.req]
    BY PlaceFacts
  <2> QED BY <2>1
<1>2. m \in Nat /\ m # NULL /\ m \notin DOMAIN minors
  BY SlotIsFree DEF NULL
<1>3. \A b : MinorsIn(b)' = IF b = call.maj THEN MinorsIn(b) \cup {m} ELSE MinorsIn(b)
  <2>1. \A n \in DOMAIN minors : minors'[n].block = minors[n].block
    BY PlaceMinor
  <2> QED BY <1>1, <1>2, <2>1 DEF MinorsIn
<1>4. \A b : \A n \in MinorsIn(b) : n \in Nat
  BY MinorFacts DEF MinorsIn
<1>5. ASSUME NEW a \in DOMAIN majors
      PROVE  /\ IF majors'[a].first = NULL THEN MinorsIn(a)' = {}
                ELSE majors'[a].first \in MinorsIn(a)' /\ \A n \in MinorsIn(a)' : majors'[a].first <= n
             /\ a = call.maj => majors'[a].first # NULL
  <2>1. majors'[a].first = IF a = call.maj /\ prev = NULL THEN m ELSE majors[a].first
    BY PlaceMajor
  <2>2. IF majors[a].first = NULL THEN MinorsIn(a) = {}
        ELSE majors[a].first \in MinorsIn(a) /\ \A n \in MinorsIn(a) : majors[a].first <= n
    BY DEF FirstsListed
  <2>3. CASE a = call.maj /\ prev = NULL
    <3>1. \A n \in MinorsIn(a) : m < n
      BY <2>3 DEF Slot
    <3> QED BY <3>1, <2>1, <2>3, <1>2, <1>3, <1>4
  <2>4. CASE a = call.maj /\ prev # NULL
    <3>1. prev \in MinorsIn(a) /\ prev < m
      BY <2>4 DEF Slot
    <3>2. majors[a].first \in MinorsIn(a) /\ majors[a].first <= prev /\ majors[a].first # NULL
      BY <3>1, <2>2
    <3> QED BY <3>1, <3>2, <2>1, <2>2, <2>4, <1>2, <1>3, <1>4
  <2>5. CASE a # call.maj
    BY <2>1, <2>2, <2>5, <1>3
  <2> QED BY <2>3, <2>4, <2>5
<1>6. call.maj \in DOMAIN majors
  BY DEF Slot
<1> QED BY <1>1, <1>5, <1>6 DEF FirstsListed

(* The block handed out lies in the new minor.                             *)
LEMMA HeldFacts ==
  ASSUME MajorsPlaced, MinorsPlaced, BlocksHeld, NEW p \in DOMAIN held
  PROVE  /\ p \in Nat /\ p > 0 /\ MinorOf(p) \in DOMAIN minors /\ MinorOf(p) \in Nat
         /\ MinorOf(p) + MinorSize + AlignInfo <= p
         /\ p + minors[MinorOf(p)].req <= End(MinorOf(p)) /\ p < End(MinorOf(p))
<1> DEFINE m == MinorOf(p)
<1>1. /\ m \in DOMAIN minors /\ p \in Nat \ {0}
      /\ held[p] \in AlignInfo .. AlignInfo + Alignment - 1
      /\ p + minors[m].req <= End(m)
  BY DEF BlocksHeld
<1>2. m \in Nat /\ minors[m].req \in Nat \ {0} /\ End(m) \in Nat
  BY <1>1, MinorFacts
<1>3. m = p - held[p] - MinorSize
  BY DEF MinorOf
<1> HIDE DEF m
<1>4. m + MinorSize + AlignInfo <= p
  BY <1>1, <1>2, <1>3, Sizing
<1>5. p < End(m)
  BY <1>1, <1>2
<1> QED BY <1>1, <1>2, <1>4, <1>5 DEF m

(* The new block gets a pointer that nobody holds.                         *)
LEMMA PlaceBlocksHeld ==
  ASSUME MajorsPlaced, MinorsPlaced, BlocksHeld,
         NEW m, NEW prev, NEW next, Slot(m, prev, next), Place(m, prev, next),
         call.req \in Nat \ {0}, call.size = call.req + Alignment + AlignInfo
  PROVE  BlocksHeld' /\ DOMAIN held \subseteq DOMAIN held'
<1> DEFINE p == Aligned(m + MinorSize)
           offset == p - m - MinorSize
<1>1. /\ m \in Nat /\ m \notin DOMAIN minors /\ call.size \in Nat
      /\ \A n \in DOMAIN minors : End(n) <= m \/ m + MinorSize + call.size <= n
  BY SlotIsFree DEF Slot, CallFits
<1>2. /\ p \in Nat /\ p % Alignment = 0
      /\ m + MinorSize + AlignInfo <= p /\ p <= m + MinorSize + AlignInfo + Alignment - 1
  <2>1. m + MinorSize \in Nat
    BY <1>1, Sizing
  <2> HIDE DEF p
  <2>2. \A q \in Nat : /\ Aligned(q) \in Nat /\ Aligned(q) % Alignment = 0
                       /\ q + AlignInfo <= Aligned(q) /\ Aligned(q) <= q + AlignInfo + Alignment - 1
    BY AlignedFacts
  <2> QED BY <2>1, <2>2 DEF p
<1>3. held' = [q \in DOMAIN held \cup {p} |-> IF q = p THEN offset ELSE held[q]]
  <2>1. p # NULL
    BY <1>1, <1>2, Sizing DEF NULL
  <2> QED BY <2>1 DEF Place, Return
<1> HIDE DEF p
<1>4. p \notin DOMAIN held
  <2> SUFFICES ASSUME p \in DOMAIN held PROVE FALSE
    OBVIOUS
  <2> DEFINE n == MinorOf(p)
  <2>1. /\ n \in DOMAIN minors /\ n \in Nat /\ n + MinorSize + AlignInfo <= p
        /\ p < End(n) /\ End(n) \in Nat
    BY HeldFacts, MinorFacts
  <2> HIDE DEF n
  <2>2. End(n) <= m \/ m + MinorSize + call.size <= n
    BY <2>1, <1>1
  <2> QED BY <2>1, <2>2, <1>1, <1>2, Sizing
<1>5. /\ DOMAIN held' = DOMAIN held \cup {p} /\ held'[p] = offset
      /\ \A q \in DOMAIN held : held'[q] = held[q]
  BY <1>3, <1>4
<1>6. MinorOf(p)' = m
  <2>1. \A q : q = p => q - held'[q] - MinorSize = m
    BY <1>1, <1>2, <1>5, Sizing
  <2> QED BY <2>1 DEF MinorOf, p, Aligned
<1>7. \A q \in DOMAIN held : MinorOf(q)' = MinorOf(q) /\ MinorOf(q) \in DOMAIN minors
  BY <1>5, HeldFacts DEF MinorOf
<1>8. /\ DOMAIN minors' = DOMAIN minors \cup {m}
      /\ minors'[m].size = call.size /\ minors'[m].req = call.req
  <2>1. /\ DOMAIN minors' = DOMAIN minors \cup {m}
        /\ minors'[m] = [prev |-> prev, next |-> next, block |-> call.maj,
                         size |-> call.size, req |-> call.req]
    BY PlaceFacts
  <2> QED BY <2>1
<1>9. \A n \in DOMAIN minors : minors'[n].req = minors[n].req /\ End(n)' = End(n)
  BY PlaceMinor DEF End
<1>10. End(m)' = m + MinorSize + call.size
  BY <1>8 DEF End
<1>11. DOMAIN minors' = {MinorOf(q)' : q \in DOMAIN held'}
  <2>1. DOMAIN minors = {MinorOf(q) : q \in DOMAIN held}
    BY DEF BlocksHeld
  <2>2. ASSUME NEW n \in DOMAIN minors' PROVE \E q \in DOMAIN held' : n = MinorOf(q)'
    <3>1. CASE n = m
      BY <3>1, <1>5, <1>6
    <3>2. CASE n \in DOMAIN minors
      <4>1. PICK q \in DOMAIN held : n = MinorOf(q)
        BY <3>2, <2>1
      <4> QED BY <4>1, <1>5, <1>7
    <3> QED BY <3>1, <3>2, <1>8
  <2>3. ASSUME NEW q \in DOMAIN held' PROVE MinorOf(q)' \in DOMAIN minors'
    <3>1. CASE q = p
      <4>1. MinorOf(q)' = MinorOf(p)'
        BY <3>1 DEF MinorOf
      <4> QED BY <4>1, <1>6, <1>8
    <3>2. CASE q \in DOMAIN held
      BY <3>2, <1>7, <1>8
    <3> QED BY <3>1, <3>2, <1>5
  <2> QED BY <2>2, <2>3
<1>12. ASSUME NEW q \in DOMAIN held'
       PROVE  /\ q \in Nat \ {0} /\ q % Alignment = 0
              /\ held'[q] \in AlignInfo .. AlignInfo + Alignment - 1
              /\ q + minors'[MinorOf(q)'].req <= End(MinorOf(q))'
              /\ \A r \in DOMAIN held' : MinorOf(q)' = MinorOf(r)' => q = r
  <2>1. CASE q = p
    <3>1. MinorOf(q)' = m
      BY <2>1, <1>6 DEF MinorOf
    <3>2. End(MinorOf(q))' = End(m)'
      BY <3>1 DEF End
    <3>3. \A r \in DOMAIN held : MinorOf(r)' # m
      BY <1>1, <1>7
    <3>4. p \in Nat \ {0} /\ offset \in AlignInfo .. AlignInfo + Alignment - 1
      BY <1>1, <1>2, Sizing
    <3>5. p + call.req <= m + MinorSize + call.size
      BY <1>1, <1>2, Sizing
    <3>6. held'[q] = offset /\ minors'[MinorOf(q)'].req = call.req
      BY <2>1, <3>1, <1>5, <1>8
    <3> HIDE DEF offset
    <3>7. \A r \in DOMAIN held' : MinorOf(q)' = MinorOf(r)' => q = r
      BY <2>1, <3>1, <3>3, <1>5
    <3> QED BY <2>1, <3>2, <3>4, <3>5, <3>6, <3>7, <1>2, <1>10
  <2>2. CASE q \in DOMAIN held
    <3>1. /\ q \in Nat \ {0} /\ q % Alignment = 0
          /\ held[q] \in AlignInfo .. AlignInfo + Alignment - 1
          /\ q + minors[MinorOf(q)].req <= End(MinorOf(q))
          /\ \A r \in DOMAIN held : MinorOf(q) = MinorOf(r) => q = r
      BY <2>2 DEF BlocksHeld
    <3>2. MinorOf(q)' = MinorOf(q) /\ MinorOf(q) \in DOMAIN minors
      BY <2>2, <1>7
    <3>3. End(MinorOf(q))' = End(MinorOf(q))
      <4>1. End(MinorOf(q))' = MinorOf(q)' + MinorSize + minors'[MinorOf(q)'].size
        BY DEF End
      <4>2. minors'[MinorOf(q)].size = minors[MinorOf(q)].size
        BY <3>2, PlaceMinor
      <4> QED BY <4>1, <4>2, <3>2 DEF End
    <3>4. \A r \in DOMAIN held' : MinorOf(q)' = MinorOf(r)' => q = r
      <4>1. MinorOf(p)' = m /\ m # MinorOf(q)
        BY <1>1, <1>6, <3>2
      <4> QED BY <4>1, <3>1, <3>2, <1>5, <1>7
    <3> QED BY <3>1, <3>2, <3>3, <3>4, <2>2, <1>5, <1>9
  <2> QED BY <2>1, <2>2, <1>5
<1> HIDE DEF offset
<1> QED BY <1>5, <1>11, <1>12 DEF BlocksHeld

(* What is counted grows by the new minor.                                 *)
LEMMA PlaceCounted ==
  ASSUME MajorsPlaced, MinorsPlaced, Counted,
         NEW m, NEW prev, NEW next, Slot(m, prev, next), Place(m, prev, next)
  PROVE  Counted'
<1>1. /\ m \in Addresses /\ m \notin DOMAIN minors /\ call.size \in Nat
      /\ call.maj \in DOMAIN majors
  <2>1. call.size \in Nat /\ call.maj \in DOMAIN majors
    BY DEF Slot, CallFits
  <2>2. m \in Nat /\ m \notin DOMAIN minors /\ m + MinorSize + call.size < WordSize
    BY SlotIsFree
  <2> QED BY <2>1, <2>2, Sizing DEF Addresses
<1>2. /\ DOMAIN minors' = DOMAIN minors \cup {m} /\ DOMAIN majors' = DOMAIN majors
      /\ minors'[m].block = call.maj /\ minors'[m].size = call.size
  <2>1. /\ DOMAIN minors' = DOMAIN minors \cup {m} /\ DOMAIN majors' = DOMAIN majors
        /\ minors'[m] = [prev |-> prev, next |-> next, block |-> call.maj,
                         size |-> call.size, req |-> call.req]
    BY PlaceFacts
  <2> QED BY <2>1
<1>3. \A n \in DOMAIN minors : minors'[n].size = minors[n].size /\ minors'[n].block = minors[n].block
  BY PlaceMinor
<1>4. \A n \in DOMAIN minors : n \in Addresses /\ minors[n].size \in Nat
  BY MinorFacts DEF MinorsPlaced
<1>5. ASSUME NEW a \in DOMAIN majors
      PROVE  majors'[a].usage = MajorSize + Sum(Bytes(a)')
  <2> DEFINE f == Bytes(a)
             g == Bytes(a)'
  <2>1. majors[a].usage = MajorSize + Sum(f) /\ Sum(f) \in Nat
    BY UsageFits
  <2>2. majors'[a].usage = IF a = call.maj THEN majors[a].usage + call.size + MinorSize
                                           ELSE majors[a].usage
    BY PlaceMajor
  <2>3. CASE a = call.maj
    <3>1. DOMAIN f = MinorsIn(a) /\ DOMAIN g = MinorsIn(a) \cup {m}
      BY <2>3, <1>2, <1>3 DEF Bytes, MinorsIn
    <3>2. g[m] = call.size + MinorSize /\ \A k \in MinorsIn(a) : g[k] = f[k] /\ f[k] \in Int
      BY <2>3, <1>1, <1>2, <1>3, <1>4, Sizing DEF Bytes, MinorsIn
    <3>3. DOMAIN f \subseteq Addresses /\ m \notin DOMAIN f
      BY <3>1, <1>1, <1>4 DEF MinorsIn
    <3> HIDE DEF f, g
    <3>4. g[m] \in Int /\ DOMAIN g = DOMAIN f \cup {m}
      BY <3>1, <3>2, <1>1, Sizing
    <3>5. Sum(g) = Sum(f) + g[m]
      BY <3>1, <3>2, <3>3, <3>4, <1>1, SumGains
    <3>6. majors'[a].usage = MajorSize + Sum(g)
      BY <3>2, <3>5, <2>1, <2>2, <2>3, <1>1, Sizing
    <3> QED BY <3>6 DEF g
  <2>4. CASE a # call.maj
    <3>1. g = f
      BY <2>4, <1>2, <1>3 DEF Bytes, MinorsIn
    <3> QED BY <3>1, <2>1, <2>2, <2>4
  <2> QED BY <2>3, <2>4
<1>6. l_inuse' = Sum([n \in DOMAIN minors' |-> minors'[n].size])
  <2> DEFINE f == [n \in DOMAIN minors |-> minors[n].size]
             g == [n \in DOMAIN minors' |-> minors'[n].size]
  <2>1. DOMAIN f = DOMAIN minors /\ DOMAIN g = DOMAIN f \cup {m} /\ g[m] = call.size
    BY <1>2
  <2>2. \A n \in DOMAIN f : g[n] = f[n] /\ f[n] \in Int
    BY <1>2, <1>3, <1>4
  <2>3. DOMAIN f \subseteq Addresses /\ m \notin DOMAIN f
    BY <1>1, <1>4
  <2>4. l_inuse = Sum(f) /\ l_inuse' = l_inuse + call.size
    BY DEF Counted, Place
  <2> HIDE DEF f, g
  <2>5. g[m] \in Int
    BY <2>1, <1>1
  <2>6. Sum(g) = Sum(f) + g[m]
    BY <2>1, <2>2, <2>3, <2>5, <1>1, SumGains
  <2> QED BY <2>1, <2>4, <2>6 DEF g
<1>7. l_allocated' = Sum([a \in DOMAIN majors' |-> SizeOf(a)'])
  <2>1. [a \in DOMAIN majors' |-> SizeOf(a)'] = [a \in DOMAIN majors |-> SizeOf(a)]
    BY <1>2, PlaceMajor
  <2>2. l_allocated' = l_allocated
    BY DEF Place
  <2> QED BY <2>1, <2>2 DEF Counted
<1> QED BY <1>2, <1>5, <1>6, <1>7 DEF Counted

(* All of it: a block put into a slot leaves the heap in order.            *)
LEMMA PlaceKeeps ==
  ASSUME IInv, pc \in {"scan", "fresh"},
         NEW m, NEW prev, NEW next, Slot(m, prev, next), Place(m, prev, next),
         prev \in Addresses, next \in Addresses,
         l_bestBet' \in DOMAIN majors \cup {NULL}
  PROVE  IInv'
<1>1. /\ MajorsPlaced /\ MajorsListed /\ MinorsPlaced /\ MinorsListed /\ FirstsListed
      /\ BlocksHeld /\ Counted /\ CallInv
  BY DEF IInv
<1>2. call.req \in Nat \ {0} /\ call.size = call.req + Alignment + AlignInfo
  BY <1>1 DEF CallInv, Calls
<1>3. MajorsPlaced' /\ MinorsPlaced' /\ MinorsListed' /\ Counted'
  BY <1>1, <1>2, PlaceMajorsPlaced, PlaceMinorsPlaced, PlaceMinorsListed, PlaceCounted
<1>4. FirstsListed' /\ majors'[call.maj].first # NULL
  BY <1>1, PlaceFirstsListed
<1>5. BlocksHeld' /\ DOMAIN held \subseteq DOMAIN held'
  BY <1>1, <1>2, PlaceBlocksHeld
<1>6. \/ call.old = NULL /\ pc' = "idle" /\ call' = NoCall
      \/ \E p : call.old # NULL /\ pc' = "copy" /\ call' = [call EXCEPT !.ptr = p] /\ p \in Nat
  <2>1. Aligned(m + MinorSize) \in Nat
    <3>1. m + MinorSize \in Nat
      BY Sizing DEF Slot
    <3> QED BY <3>1, AlignedFacts
  <2> QED BY <2>1 DEF Place, Return
<1>7. DOMAIN majors' = DOMAIN majors /\ l_memRoot' = l_memRoot
  BY <1>1, PlaceFacts DEF Place
<1>8. MajorsListed'
  <2>1. PICK ord \in [DOMAIN majors -> Nat] : ListedBy(ord)
    BY <1>1 DEF MajorsListed
  <2>2. ListedBy(ord)'
    BY <1>1, <1>7, <2>1, PlaceMajor, SameOrder
  <2>3. PassedBy(ord)'
    BY <1>6 DEF PassedBy
  <2> QED BY <2>1, <2>2, <2>3, <1>7 DEF MajorsListed
<1>9. \A a \in DOMAIN majors' : majors'[a].first # NULL
  <2> TAKE a \in DOMAIN majors'
  <2>1. CASE a = call.maj
    BY <2>1, <1>4
  <2>2. CASE a # call.maj
    <3>1. majors'[a].first = majors[a].first
      BY <2>2, <1>1, <1>7, PlaceMajor
    <3>2. majors[a].first # NULL
      BY <2>2, <1>1, <1>7 DEF CallInv
    <3> QED BY <3>1, <3>2
  <2> QED BY <2>1, <2>2
<1>10. CallInv'
  <2>1. /\ call \in Calls /\ call.maj \in DOMAIN majors \cup {NULL}
        /\ call.old \in DOMAIN held \cup {NULL}
    BY <1>1 DEF CallInv
  <2>2. CASE call.old = NULL /\ pc' = "idle" /\ call' = NoCall
    <3>1. call'.maj = NULL /\ call'.old = NULL /\ call' \in Calls
      BY <2>2 DEF NoCall, Calls, NULL
    <3> QED BY <3>1, <2>2, <1>7, <1>9 DEF CallInv, NoCall
  <2>3. CASE \E p : call.old # NULL /\ pc' = "copy" /\ call' = [call EXCEPT !.ptr = p] /\ p \in Nat
    <3>1. call'.maj = call.maj /\ call'.old = call.old /\ call' \in Calls
      BY <2>1, <2>3 DEF Calls
    <3>2. call.old \in DOMAIN held'
      BY <2>1, <2>3, <1>5
    <3> QED BY <3>1, <3>2, <2>1, <2>3, <1>7, <1>9 DEF CallInv
  <2> QED BY <2>2, <2>3, <1>6
<1> QED BY <1>3, <1>4, <1>5, <1>8, <1>10 DEF IInv

-----------------------------------------------------------------------------
(* The minors of the major that the call looks at, along the next pointers *)
(* from the first.                                                         *)
ChainFrom(c) ==
  /\ Chain[0] = First
  /\ \A k \in Nat : /\ Chain[k] \in MinorsIn(c) \cup {NULL}
                    /\ Chain[k + 1] = IF Chain[k] = NULL THEN NULL ELSE minors[Chain[k]].next

LEMMA ChainDef ==
  ASSUME MajorsPlaced, MinorsPlaced, MinorsListed, FirstsListed,
         NEW c \in DOMAIN majors, c = call.maj
  PROVE  ChainFrom(c)
<1> DEFINE S == MinorsIn(c) \cup {NULL}
           nx == [m \in S |-> IF m = NULL THEN NULL ELSE minors[m].next]
           g == [k \in Nat |-> nx]
           Body(t) == [k \in Nat |->
             IF k = 0 THEN First
             ELSE LET m == t[k - 1] IN IF m = NULL THEN NULL ELSE minors[m].next]
<1>1. First \in S
  BY DEF FirstsListed, First
<1>2. nx \in [S -> S]
  <2>1. \A m \in MinorsIn(c) : minors[m].next \in S
    BY DEF MinorsListed, MinorsIn
  <2> QED BY <2>1
<1>3. PICK s \in [Nat -> S] : Iterates(s, First, g)
  <2>1. g \in [Nat -> [S -> S]]
    BY <1>2
  <2> HIDE DEF g, S
  <2> QED BY <2>1, <1>1, Recursion
<1>4. s[0] = First /\ \A k \in Nat : s[k + 1] = nx[s[k]] /\ s[k] \in S
  BY <1>3 DEF Iterates
<1>5. s = Body(s)
  <2>1. ASSUME NEW k \in Nat PROVE s[k] = Body(s)[k]
    <3>1. CASE k = 0
      BY <3>1, <1>4
    <3>2. CASE k # 0
      <4>1. k - 1 \in Nat /\ k = (k - 1) + 1
        BY <3>2
      <4>2. s[k] = nx[s[k - 1]] /\ s[k - 1] \in S
        BY <4>1, <1>4
      <4> QED BY <4>2, <3>2
    <3> QED BY <3>1, <3>2
  <2> QED BY <2>1
<1>6. Chain = Body(Chain)
  <2>1. Chain = CHOOSE t : t = Body(t)
    BY DEF Chain
  <2> HIDE DEF Body
  <2> QED BY <1>5, <2>1
<1>7. Chain[0] = First /\ \A k \in Nat : Chain[k + 1] = IF Chain[k] = NULL THEN NULL
                                                        ELSE minors[Chain[k]].next
  <2> DEFINE t == Chain
  <2>1. t = Body(t)
    BY <1>6
  <2> HIDE DEF t
  <2>2. t[0] = First
    BY <2>1
  <2>3. ASSUME NEW k \in Nat
        PROVE  t[k + 1] = IF t[k] = NULL THEN NULL ELSE minors[t[k]].next
    <3>1. k + 1 \in Nat /\ k + 1 # 0 /\ (k + 1) - 1 = k
      OBVIOUS
    <3> QED BY <3>1, <2>1
  <2> QED BY <2>2, <2>3 DEF t
<1>8. \A k \in Nat : Chain[k] \in S
  <2> DEFINE T == {k \in Nat : Chain[k] \notin S}
  <2> SUFFICES ASSUME T # {} PROVE FALSE
    OBVIOUS
  <2>1. PICK k \in T : \A y \in T : k <= y
    <3>1. T \subseteq Nat
      OBVIOUS
    <3> HIDE DEF T
    <3> QED BY <3>1, Least
  <2>2. k # 0
    BY <2>1, <1>1, <1>7
  <2>3. k - 1 \in Nat /\ Chain[k - 1] \in S /\ k = (k - 1) + 1
    BY <2>1, <2>2
  <2>4. Chain[k] = IF Chain[k - 1] = NULL THEN NULL ELSE minors[Chain[k - 1]].next
    BY <2>3, <1>7
  <2>5. \A m \in MinorsIn(c) : minors[m].next \in S
    BY DEF MinorsListed, MinorsIn
  <2> QED BY <2>1, <2>3, <2>4, <2>5
<1> QED BY <1>7, <1>8 DEF ChainFrom

(* It is no longer than there are minors, and reaches each of the major's. *)
LEMMA ChainReaches ==
  ASSUME MajorsPlaced, MinorsPlaced, MinorsListed, FirstsListed,
         NEW c \in DOMAIN majors, c = call.maj, NEW m \in MinorsIn(c)
  PROVE  \E k \in 0 .. Cardinality(DOMAIN minors) : Chain[k] = m
<1>1. /\ Chain[0] = First
      /\ \A k \in Nat : /\ Chain[k] \in MinorsIn(c) \cup {NULL}
                        /\ Chain[k + 1] = IF Chain[k] = NULL THEN NULL ELSE minors[Chain[k]].next
  BY ChainDef DEF ChainFrom
<1>2. \A n \in MinorsIn(c) : n \in DOMAIN minors /\ minors[n].block = c /\ n \in Nat /\ n # NULL
  BY InMajor, MinorFacts
<1>3. First # NULL /\ First \in MinorsIn(c) /\ \A n \in MinorsIn(c) : First <= n
  BY DEF FirstsListed, First
<1>4. ASSUME NEW n \in MinorsIn(c)
      PROVE  IF minors[n].next = NULL THEN \A k \in MinorsIn(c) : k <= n
             ELSE /\ minors[n].next \in MinorsIn(c) /\ n < minors[n].next
                  /\ \A k \in MinorsIn(c) : k <= n \/ minors[n].next <= k
  BY <1>2 DEF MinorsListed
<1>5. \A k \in Nat : Chain[k] # NULL =>
        Chain[k] \in MinorsIn(c) /\ Chain[k] \in Nat
  BY <1>1, <1>2
<1> DEFINE Below(k) == {n \in MinorsIn(c) : n < Chain[k]}
           P(k) == Chain[k] # NULL =>
                     IsFiniteSet(Below(k)) /\ Cardinality(Below(k)) = k /\ k <= Chain[k]
(* The chain counts what it has passed. *)
<1>6. \A k \in Nat : P(k)
  <2> DEFINE T == {k \in Nat : ~P(k)}
  <2> SUFFICES ASSUME T # {} PROVE FALSE
    OBVIOUS
  <2>1. PICK k \in T : \A y \in T : k <= y
    <3>1. T \subseteq Nat
      OBVIOUS
    <3> HIDE DEF T
    <3> QED BY <3>1, Least
  <2>2. k \in Nat /\ ~P(k)
    BY <2>1
  <2>3. P(0)
    <3>1. Below(0) = {}
      BY <1>1, <1>2, <1>3
    <3>2. 0 <= Chain[0]
      BY <1>1, <1>2, <1>3
    <3> HIDE DEF Below
    <3>3. IsFiniteSet(Below(0)) /\ Cardinality(Below(0)) = 0
      BY <3>1, FS_EmptySet
    <3> QED BY <3>2, <3>3
  <2>4. CASE k = 0
    BY <2>2, <2>3, <2>4
  <2>5. CASE k # 0
    <3> DEFINE j == k - 1
    <3>1. j \in Nat /\ P(j) /\ k = j + 1
      <4>1. j \in Nat /\ k = j + 1 /\ j \notin T
        BY <2>1, <2>5
      <4> QED BY <4>1
    <3> HIDE DEF j
    <3>2. Chain[k] # NULL
      BY <2>2
    <3>3. Chain[j] # NULL /\ Chain[k] = minors[Chain[j]].next
      BY <3>1, <3>2, <1>1
    <3>4. /\ Chain[j] \in MinorsIn(c) /\ Chain[k] \in MinorsIn(c) /\ Chain[j] < Chain[k]
          /\ \A n \in MinorsIn(c) : n <= Chain[j] \/ Chain[k] <= n
      BY <3>1, <3>2, <3>3, <1>4, <1>5
    <3>5. Chain[j] \in Nat /\ Chain[k] \in Nat
      BY <3>4, <1>2
    <3>6. Below(k) = Below(j) \cup {Chain[j]} /\ Chain[j] \notin Below(j)
      BY <3>4, <3>5, <1>2
    <3>7. IsFiniteSet(Below(j)) /\ Cardinality(Below(j)) = j /\ j <= Chain[j]
      BY <3>1, <3>3
    <3> HIDE DEF Below
    <3>8. IsFiniteSet(Below(k)) /\ Cardinality(Below(k)) = j + 1
      BY <3>1, <3>6, <3>7, FS_AddElement
    <3> QED BY <3>1, <3>4, <3>5, <3>7, <3>8, <2>2
  <2> QED BY <2>4, <2>5
<1> DEFINE T == {k \in Nat : Chain[k] = NULL \/ m <= Chain[k]}
<1>7. T # {}
  <2>1. m \in Nat
    BY <1>2
  <2>2. Chain[m] # NULL => m <= Chain[m]
    BY <2>1, <1>6
  <2>3. m \in T
    BY <2>1, <2>2
  <2> QED BY <2>3
<1>8. PICK k \in T : \A y \in T : k <= y
  <2>1. T \subseteq Nat
    OBVIOUS
  <2> HIDE DEF T
  <2> QED BY <2>1, <1>7, Least
<1>9. Chain[k] = m
  <2>1. CASE k = 0
    BY <2>1, <1>1, <1>2, <1>3, <1>8
  <2>2. CASE k # 0
    <3> DEFINE j == k - 1
    <3>1. j \in Nat /\ k = j + 1 /\ j \notin T
      BY <1>8, <2>2
    <3>2. Chain[j] # NULL /\ ~(m <= Chain[j])
      BY <3>1
    <3> HIDE DEF j
    <3>3. Chain[k] = minors[Chain[j]].next /\ Chain[j] \in MinorsIn(c)
      BY <3>1, <3>2, <1>1, <1>5
    <3>4. Chain[k] # NULL /\ (m <= Chain[j] \/ Chain[k] <= m) /\ Chain[k] \in MinorsIn(c)
      BY <3>2, <3>3, <1>4
    <3> QED BY <3>2, <3>4, <1>2, <1>8
  <2> QED BY <2>1, <2>2
<1>10. k <= Cardinality(DOMAIN minors)
  <2>1. Cardinality(Below(k)) = k /\ k \in Nat
    BY <1>2, <1>6, <1>8, <1>9
  <2>2. IsFiniteSet(DOMAIN minors)
    <3>1. IsFiniteSet(Addresses)
      BY FS_Interval, Sizing DEF Addresses
    <3> QED BY <3>1, FS_Subset DEF MinorsPlaced
  <2>3. Below(k) \subseteq DOMAIN minors
    BY <1>2
  <2> HIDE DEF Below
  <2> QED BY <2>1, <2>2, <2>3, FS_Subset
<1> QED
  <2>1. IsFiniteSet(DOMAIN minors)
    <3>1. IsFiniteSet(Addresses)
      BY FS_Interval, Sizing DEF Addresses
    <3> QED BY <3>1, FS_Subset DEF MinorsPlaced
  <2>2. Cardinality(DOMAIN minors) \in Nat
    BY <2>1, FS_CardinalityType
  <2> QED BY <2>2, <1>8, <1>9, <1>10

(* The gaps are what they seem: nothing wraps.                             *)
LEMMA NeedIs == ASSUME CallFits PROVE Need = call.size + MinorSize /\ Need \in Nat \ {0}
<1>1. call.size + MinorSize \in 0 .. WordSize - 1 /\ call.size + MinorSize > 0
  BY Sizing DEF CallFits
<1> QED BY <1>1, NoWrap DEF Need

LEMMA GapInFrontIs ==
  ASSUME MajorsPlaced, MinorsPlaced, FirstsListed, NEW c \in DOMAIN majors, c = call.maj,
         First # NULL
  PROVE  /\ First \in MinorsIn(c) /\ First \in Nat
         /\ GapInFront = First - c - MajorSize /\ c + MajorSize <= First
<1>1. First \in MinorsIn(c)
  BY DEF FirstsListed, First
<1>2. /\ First \in DOMAIN minors /\ c + MajorSize <= First /\ End(First) <= c + SizeOf(c)
  BY <1>1, InMajor
<1>3. /\ First \in Nat /\ End(First) = First + MinorSize + minors[First].size
      /\ minors[First].size \in Nat
  BY <1>2, MinorFacts
<1>4. c \in Nat /\ c + SizeOf(c) < WordSize /\ SizeOf(c) \in Nat
  BY MajorFacts
<1>5. First - c - MajorSize \in 0 .. WordSize - 1
  BY <1>2, <1>3, <1>4, Sizing
<1> QED BY <1>1, <1>2, <1>3, <1>5, NoWrap DEF GapInFront

LEMMA GapBehindIs ==
  ASSUME MajorsPlaced, MinorsPlaced, MinorsListed, NEW c \in DOMAIN majors, c = call.maj,
         NEW m \in MinorsIn(c),
         NEW end, end = IF minors[m].next = NULL THEN c + SizeOf(c) ELSE minors[m].next
  PROVE  /\ GapBehind(m) = end - End(m) /\ End(m) <= end /\ end \in Nat
         /\ end <= c + SizeOf(c)
<1>1. /\ m \in DOMAIN minors /\ minors[m].block = c /\ End(m) <= c + SizeOf(c)
  BY InMajor
<1>2. /\ m \in Nat /\ End(m) = m + MinorSize + minors[m].size /\ minors[m].size \in Nat
      /\ End(m) \in Nat
  BY <1>1, MinorFacts
<1>3. c \in Nat /\ c + SizeOf(c) < WordSize /\ SizeOf(c) \in Nat
  BY MajorFacts
<1>4. minors[m].next # NULL =>
        /\ minors[m].next \in Nat /\ End(m) <= minors[m].next
        /\ minors[m].next <= c + SizeOf(c)
  <2> SUFFICES ASSUME minors[m].next # NULL
               PROVE  /\ minors[m].next \in Nat /\ End(m) <= minors[m].next
                      /\ minors[m].next <= c + SizeOf(c)
    OBVIOUS
  <2> DEFINE n == minors[m].next
  <2>1. n \in MinorsIn(c) /\ m < n
    BY <1>1 DEF MinorsListed
  <2>2. n \in DOMAIN minors /\ End(n) <= c + SizeOf(c)
    BY <2>1, InMajor
  <2>3. n \in Nat /\ End(n) = n + MinorSize + minors[n].size /\ minors[n].size \in Nat
    BY <2>2, MinorFacts
  <2>4. End(m) <= n
    BY <2>1, <1>1 DEF MinorsPlaced
  <2> HIDE DEF n
  <2> QED BY <2>2, <2>3, <2>4, <1>3, Sizing DEF n
<1>5. end \in Nat /\ End(m) <= end /\ end <= c + SizeOf(c)
  BY <1>1, <1>3, <1>4
<1>6. end - End(m) \in 0 .. WordSize - 1
  BY <1>2, <1>3, <1>5, Sizing
<1>7. GapBehind(m) = Wrap(end - m - MinorSize - minors[m].size)
  BY DEF GapBehind
<1>8. end - m - MinorSize - minors[m].size = end - End(m)
  BY <1>2, <1>5, Sizing
<1> QED BY <1>5, <1>6, <1>7, <1>8, NoWrap

(* Cases 2, 3 and 4 of the loop put the block into a slot.                 *)
LEMMA SlotFirst ==
  ASSUME MajorsPlaced, MinorsPlaced, FirstsListed, CallFits,
         NEW c \in DOMAIN majors, c = call.maj, First = NULL,
         SizeOf(c) >= MajorSize + MinorSize + call.size
  PROVE  Slot(c + MajorSize, NULL, NULL)
<1>1. MinorsIn(c) = {}
  BY DEF FirstsListed, First
<1>2. c \in Nat /\ SizeOf(c) \in Nat /\ call.size \in Nat
  BY MajorFacts DEF CallFits
<1>3. /\ c + MajorSize \in Nat /\ c + MajorSize <= c + MajorSize
      /\ c + MajorSize + MinorSize + call.size <= c + SizeOf(c)
  BY <1>2, Sizing
<1> QED BY <1>1, <1>3 DEF Slot

LEMMA SlotInFront ==
  ASSUME MajorsPlaced, MinorsPlaced, MinorsListed, FirstsListed, CallFits,
         NEW c \in DOMAIN majors, c = call.maj, First # NULL, GapInFront >= Need
  PROVE  Slot(c + MajorSize, NULL, First)
<1>1. /\ First \in MinorsIn(c) /\ First \in Nat
      /\ GapInFront = First - c - MajorSize /\ c + MajorSize <= First
  BY GapInFrontIs
<1>2. c \in Nat /\ SizeOf(c) \in Nat /\ call.size \in Nat /\ Need = call.size + MinorSize
  BY MajorFacts, NeedIs DEF CallFits
<1>3. c + MajorSize + MinorSize + call.size <= First
  BY <1>1, <1>2, Sizing
<1>4. \A n \in MinorsIn(c) : First <= n /\ n \in Nat
  BY InMajor, MinorFacts DEF FirstsListed, First
<1>5. minors[First].prev = NULL
  <2>1. First \in DOMAIN minors /\ minors[First].block = c
    BY <1>1, InMajor
  <2>2. minors[First].prev # NULL =>
          minors[First].prev \in MinorsIn(c) /\ minors[First].prev < First
    BY <2>1 DEF MinorsListed
  <2>3. \A q \in MinorsIn(c) : ~(q < First)
    BY <1>1, <1>4
  <2> QED BY <2>2, <2>3
<1>6. c + MajorSize + MinorSize + call.size <= c + SizeOf(c)
  <2>1. First \in DOMAIN minors /\ End(First) <= c + SizeOf(c)
    BY <1>1, InMajor
  <2>2. First <= End(First) /\ End(First) \in Nat
    BY <2>1, MinorFacts, Sizing
  <2> QED BY <2>1, <2>2, <1>1, <1>2, <1>3, Sizing
<1>7. \A n \in MinorsIn(c) : c + MajorSize < n /\ c + MajorSize + MinorSize + call.size <= n
  BY <1>1, <1>2, <1>3, <1>4, Sizing
<1>8. c + MajorSize < First /\ c + MajorSize \in Nat
  BY <1>1, <1>2, <1>3, Sizing
<1> QED BY <1>1, <1>4, <1>5, <1>6, <1>7, <1>8 DEF Slot

LEMMA SlotBehind ==
  ASSUME MajorsPlaced, MinorsPlaced, MinorsListed, FirstsListed, CallFits,
         NEW c \in DOMAIN majors, c = call.maj,
         NEW p \in MinorsIn(c), GapBehind(p) >= Need,
         NEW next, next = minors[p].next, NEW m, m = p + MinorSize + minors[p].size
  PROVE  Slot(m, p, next)
<1>1. /\ p \in DOMAIN minors /\ minors[p].block = c /\ c + MajorSize <= p
  BY InMajor
<1>2. /\ p \in Nat /\ p # NULL /\ m = End(p) /\ minors[p].size \in Nat /\ End(p) \in Nat
  BY <1>1, MinorFacts
<1>3. c \in Nat /\ SizeOf(c) \in Nat /\ call.size \in Nat /\ Need = call.size + MinorSize
  BY MajorFacts, NeedIs DEF CallFits
<1>4. PICK end : end = IF next = NULL THEN c + SizeOf(c) ELSE next
  OBVIOUS
<1>5. /\ GapBehind(p) = end - m /\ m <= end /\ end \in Nat /\ end <= c + SizeOf(c)
  BY <1>2, <1>4, GapBehindIs
<1>6. m + MinorSize + call.size <= end
  BY <1>2, <1>3, <1>5, Sizing
<1>7. IF next = NULL THEN \A n \in MinorsIn(c) : n <= p
      ELSE /\ next \in MinorsIn(c) /\ p < next
           /\ \A n \in MinorsIn(c) : n <= p \/ next <= n
  BY <1>1 DEF MinorsListed
<1>8. \A n \in MinorsIn(c) : /\ n \in Nat /\ n \in DOMAIN minors /\ minors[n].block = c
                             /\ n < End(n) /\ End(n) \in Nat
  BY InMajor, MinorFacts, Sizing
<1>9. \A n \in MinorsIn(c) : n <= p => End(n) <= m /\ n < m
  <2> TAKE n \in MinorsIn(c)
  <2>1. n < p => End(n) <= p
    BY <1>8 DEF MinorsPlaced
  <2>2. CASE n < p
    BY <2>1, <2>2, <1>2, <1>8, Sizing
  <2>3. CASE n = p
    <3>1. End(n) = m
      BY <2>3, <1>2
    <3>2. p < m /\ m <= m
      BY <1>2, Sizing
    <3> QED BY <3>1, <3>2, <2>3
  <2> QED BY <2>2, <2>3, <1>2, <1>8
<1>10. m < end /\ p < m
  <2>1. p < m
    BY <1>2, Sizing
  <2>2. m \in Nat
    BY <1>2
  <2>3. m < end
    BY <2>2, <1>3, <1>5, <1>6, Sizing
  <2> QED BY <2>1, <2>3
<1>11. /\ m \in Nat /\ c + MajorSize <= m /\ m + MinorSize + call.size <= c + SizeOf(c)
  BY <1>1, <1>2, <1>3, <1>5, <1>6, <1>10, Sizing
<1>12. \A n \in MinorsIn(c) : End(n) <= m \/ m + MinorSize + call.size <= n
  BY <1>4, <1>6, <1>7, <1>8, <1>9, <1>11, <1>3, <1>5, Sizing
<1>13. \A n \in MinorsIn(c) : n <= p \/ m < n
  BY <1>4, <1>7, <1>8, <1>10, <1>11, <1>5
<1>14. IF next = NULL THEN \A n \in MinorsIn(c) : n < m
       ELSE /\ next \in MinorsIn(c) /\ m < next /\ minors[next].prev = p
            /\ \A n \in MinorsIn(c) : n < m \/ next <= n
  <2>1. CASE next = NULL
    BY <2>1, <1>7, <1>9
  <2>2. CASE next # NULL
    <3>1. next \in MinorsIn(c) /\ next \in Nat /\ p < next /\ m < next
      BY <2>2, <1>4, <1>7, <1>8, <1>10
    <3>2. next \in DOMAIN minors /\ minors[next].block = c
      BY <3>1, InMajor
    <3>3. IF minors[next].prev = NULL THEN \A n \in MinorsIn(c) : next <= n
          ELSE /\ minors[next].prev \in MinorsIn(c) /\ minors[next].prev < next
               /\ \A n \in MinorsIn(c) : n <= minors[next].prev \/ next <= n
      BY <3>2 DEF MinorsListed
    <3>4. minors[next].prev # NULL /\ p <= minors[next].prev
      <4>1. p \in MinorsIn(c) /\ ~(next <= p)
        BY <3>1, <1>2
      <4> QED BY <3>3, <4>1
    <3>5. minors[next].prev <= p
      <4>1. \A q \in MinorsIn(c) : q < next => q <= p
        BY <3>1, <2>2, <1>7, <1>8
      <4> QED BY <3>3, <3>4, <4>1
    <3>6. minors[next].prev = p
      <4>1. minors[next].prev \in Nat
        BY <3>3, <3>4, <1>8
      <4> QED BY <3>4, <3>5, <4>1, <1>2
    <3> QED BY <2>2, <3>1, <3>6, <1>7, <1>9
  <2> QED BY <2>1, <2>2
<1> QED BY <1>2, <1>10, <1>11, <1>12, <1>13, <1>14 DEF Slot

(* A turn of the loop that finds nothing has found out that there is no    *)
(* room for the block.                                                     *)
LEMMA LacksNoRoom ==
  ASSUME MajorsPlaced, MinorsPlaced, Counted, CallFits,
         NEW c \in DOMAIN majors, c = call.maj, Lacks
  PROVE  ~HasRoom(c, Need)
<1> SUFFICES ASSUME HasRoom(c, Need) PROVE FALSE
  OBVIOUS
<1>1. Need \in Nat \ {0}
  BY NeedIs
<1>2. \A n \in Nat \ {0} : HasRoom(c, n) => n <= Unused(c)
  BY RoomIsUnused
<1>3. Unused(c) \in Nat
  BY UsageFits, MajorFacts
<1>4. Unused(c) < Need
  BY DEF Lacks
<1> QED BY <1>1, <1>2, <1>3, <1>4

LEMMA FullNoRoom ==
  ASSUME MajorsPlaced, MinorsPlaced, MinorsListed, FirstsListed, CallFits,
         NEW c \in DOMAIN majors, c = call.maj, Full
  PROVE  ~HasRoom(c, Need)
<1> SUFFICES ASSUME HasRoom(c, Need) PROVE FALSE
  OBVIOUS
<1> DEFINE n == Need
<1>1. n \in Nat \ {0}
  BY NeedIs
<1>2. PICK x \in c + MajorSize .. c + SizeOf(c) - n :
         \A m \in MinorsIn(c) : x + n <= m \/ End(m) <= x
  BY DEF HasRoom
<1>3. c \in Nat /\ SizeOf(c) \in Nat
  BY MajorFacts
<1>4. x \in Nat /\ c + MajorSize <= x /\ x + n <= c + SizeOf(c)
  BY <1>1, <1>2, <1>3, Sizing
<1>5. /\ First # NULL /\ GapInFront < n
      /\ \A m \in OnChain : GapBehind(m) < n
  BY DEF Full
<1>6. /\ First \in MinorsIn(c) /\ First \in Nat
      /\ GapInFront = First - c - MajorSize /\ c + MajorSize <= First
  BY <1>5, GapInFrontIs
<1>7. \A m \in MinorsIn(c) : m \in OnChain
  <2> TAKE m \in MinorsIn(c)
  <2>1. \E k \in 0 .. Cardinality(DOMAIN minors) : Chain[k] = m
    BY ChainReaches
  <2>2. m # NULL
    BY InMajor, MinorFacts
  <2> QED BY <2>1, <2>2 DEF OnChain
<1>8. \A m \in MinorsIn(c) : /\ m \in DOMAIN minors /\ minors[m].block = c /\ m \in Nat
                             /\ End(m) \in Nat /\ m < End(m)
  BY InMajor, MinorFacts, Sizing
<1> HIDE DEF n
<1>9. End(First) <= x
  <2>1. ~(x + n <= First)
    BY <1>1, <1>3, <1>4, <1>5, <1>6, Sizing
  <2> QED BY <2>1, <1>2, <1>6
(* The last minor in front of the room has a gap behind it that is large   *)
(* enough.                                                                 *)
<1> DEFINE T == {i \in Nat : \E m \in MinorsIn(c) : End(m) <= x /\ i = x - m}
<1>10. T # {}
  <2>1. First <= x
    BY <1>4, <1>6, <1>8, <1>9
  <2>2. x - First \in T
    BY <2>1, <1>4, <1>6, <1>9
  <2> QED BY <2>2
<1>11. PICK i \in T : \A y \in T : i <= y
  <2>1. T \subseteq Nat
    OBVIOUS
  <2> HIDE DEF T
  <2> QED BY <2>1, <1>10, Least
<1>12. PICK m \in MinorsIn(c) : End(m) <= x /\ i = x - m
  BY <1>11
<1>13. \A k \in MinorsIn(c) : End(k) <= x => k <= m
  <2> SUFFICES ASSUME NEW k \in MinorsIn(c), End(k) <= x PROVE k <= m
    OBVIOUS
  <2>1. k \in Nat /\ k <= x
    BY <1>4, <1>8
  <2>2. x - k \in T
    BY <2>1, <1>4
  <2>3. i <= x - k
    BY <2>2, <1>11
  <2> QED BY <2>1, <2>3, <1>4, <1>8, <1>12
<1>14. PICK end : end = IF minors[m].next = NULL THEN c + SizeOf(c) ELSE minors[m].next
  OBVIOUS
<1>15. GapBehind(m) = end - End(m) /\ End(m) <= end /\ end \in Nat
  BY <1>14, GapBehindIs
<1>16. x + n <= end
  <2>1. CASE minors[m].next = NULL
    BY <2>1, <1>4, <1>14
  <2>2. CASE minors[m].next # NULL
    <3>1. end \in MinorsIn(c) /\ m < end
      BY <2>2, <1>8, <1>14 DEF MinorsListed
    <3>2. ~(End(end) <= x)
      BY <3>1, <1>8, <1>13
    <3> QED BY <3>1, <3>2, <1>2
  <2> QED BY <2>1, <2>2
<1>17. GapBehind(m) < n
  BY <1>5, <1>7
<1>18. End(m) \in Nat
  BY <1>8
<1> QED BY <1>1, <1>4, <1>12, <1>15, <1>16, <1>17, <1>18

-----------------------------------------------------------------------------
(* kfree.  What the other minors of the major take up.                     *)
Others(a, m) == [k \in MinorsIn(a) \ {m} |-> minors[k].size + MinorSize]

LEMMA OthersSum ==
  ASSUME MajorsPlaced, MinorsPlaced, Counted, NEW a \in DOMAIN majors, NEW m \in MinorsIn(a)
  PROVE  /\ Sum(Others(a, m)) \in Nat
         /\ Sum(Bytes(a)) = Sum(Others(a, m)) + minors[m].size + MinorSize
<1> DEFINE f == Others(a, m)
           g == Bytes(a)
           lo == a + MajorSize
           hi == a + SizeOf(a)
<1>1. /\ a \in Nat /\ SizeOf(a) \in Nat /\ MajorSize < SizeOf(a) /\ hi < WordSize
  BY MajorFacts
<1>2. lo \in Nat /\ hi \in Nat /\ lo <= hi
  BY <1>1, Sizing
<1>3. \A k \in MinorsIn(a) :
        /\ k \in Nat /\ minors[k].size \in Nat /\ k + minors[k].size + MinorSize = End(k)
        /\ lo <= k /\ End(k) <= hi /\ k \in DOMAIN minors /\ minors[k].block = a
        /\ k \in Addresses
  BY InMajor, MinorFacts, Sizing DEF MinorsPlaced
<1>4. /\ DOMAIN f = MinorsIn(a) \ {m} /\ DOMAIN g = MinorsIn(a)
      /\ \A k \in DOMAIN f : f[k] = minors[k].size + MinorSize
      /\ \A k \in DOMAIN g : g[k] = minors[k].size + MinorSize
  BY DEF Others, Bytes
<1>5. \A k, l \in MinorsIn(a) : k < l => End(k) <= l
  BY <1>3 DEF MinorsPlaced
<1> HIDE DEF f, g
<1>6. /\ DOMAIN f \subseteq Nat /\ DOMAIN f \subseteq Addresses
      /\ \A k \in DOMAIN f : f[k] \in Nat /\ k + f[k] = End(k)
  BY <1>3, <1>4, Sizing
<1>7. /\ \A k \in DOMAIN f : lo <= k /\ k + f[k] <= hi
      /\ \A k, l \in DOMAIN f : k < l => k + f[k] <= l
  BY <1>3, <1>4, <1>5, <1>6
<1>8. SumBelow(f, WordSize) \in Nat
  <2> HIDE DEF lo, hi
  <2> QED BY <1>2, <1>6, <1>7, Packing, Sizing
<1>9. /\ m \in Addresses /\ m \notin DOMAIN f /\ DOMAIN g = DOMAIN f \cup {m}
      /\ g[m] \in Int /\ g[m] = minors[m].size + MinorSize
      /\ \A k \in DOMAIN f : g[k] = f[k] /\ f[k] \in Int
  BY <1>3, <1>4, <1>6, Sizing
<1>10. Sum(g) = Sum(f) + g[m]
  BY <1>6, <1>9, SumGains
<1>11. minors[m].size \in Nat
  BY <1>3
<1> QED BY <1>8, <1>9, <1>10, <1>11, Sizing DEF Sum, f, g

(* The two things that can become of the major.                            *)
GivesBack(a) ==
  /\ majors' = Unlink(majors, a)
  /\ l_memRoot' = RootWithout(a)
  /\ l_bestBet' = BestBetWithout(a)
  /\ l_allocated' = l_allocated - SizeOf(a)
Shrinks(a, left, head) ==
  /\ majors' = [majors EXCEPT ![a].usage = left, ![a].first = head]
  /\ l_bestBet' \in {l_bestBet, a}
  /\ UNCHANGED <<l_memRoot, l_allocated>>
Freed(a, m) ==
  /\ minors' = Unlink(minors, m)
  /\ l_inuse' = l_inuse - minors[m].size
  /\ \/ MinorsIn(a) = {m} /\ GivesBack(a)
     \/ \E head \in MinorsIn(a) \ {m} :
          /\ \A n \in MinorsIn(a) \ {m} : head <= n
          /\ Shrinks(a, majors[a].usage - minors[m].size - MinorSize, head)

LEMMA FreeFacts ==
  ASSUME MajorsPlaced, MinorsPlaced, MinorsListed, FirstsListed, BlocksHeld, Counted,
         NEW p \in DOMAIN held, Free(p), NEW m, m = MinorOf(p),
         NEW a, a = minors[m].block
  PROVE  /\ m \in DOMAIN minors /\ a \in DOMAIN majors /\ m \in MinorsIn(a)
         /\ majors[a].usage - minors[m].size - MinorSize \in Nat
         /\ Freed(a, m)
<1>1. m \in DOMAIN minors
  BY HeldFacts
<1>2. /\ a \in DOMAIN majors /\ m \in MinorsIn(a) /\ minors[m].size \in Nat
      /\ m \in Nat /\ m # NULL
  BY <1>1, MinorFacts
<1>3. /\ Sum(Others(a, m)) \in Nat
      /\ Sum(Bytes(a)) = Sum(Others(a, m)) + minors[m].size + MinorSize
  BY <1>2, OthersSum
<1>4. /\ Sum(Bytes(a)) \in Nat /\ majors[a].usage = MajorSize + Sum(Bytes(a))
      /\ majors[a].usage <= SizeOf(a) /\ SizeOf(a) \in Nat /\ a + SizeOf(a) < WordSize
      /\ a \in Nat
  BY <1>2, UsageFits, MajorFacts
<1> DEFINE left == majors[a].usage - minors[m].size - MinorSize
           head == IF minors[m].prev = NULL THEN minors[m].next ELSE majors[a].first
<1>5. left \in Nat /\ Wrap(left) = left
  <2>1. left \in 0 .. WordSize - 1
    BY <1>2, <1>3, <1>4, Sizing
  <2> QED BY <2>1, NoWrap
<1>6. \A n \in MinorsIn(a) : n \in Nat /\ n # NULL
  BY InMajor, MinorFacts, <1>2
<1>7. /\ IF minors[m].next = NULL THEN \A n \in MinorsIn(a) : n <= m
         ELSE /\ minors[m].next \in MinorsIn(a) /\ m < minors[m].next
              /\ \A n \in MinorsIn(a) : n <= m \/ minors[m].next <= n
      /\ IF minors[m].prev = NULL THEN \A n \in MinorsIn(a) : m <= n
         ELSE /\ minors[m].prev \in MinorsIn(a) /\ minors[m].prev < m
              /\ \A n \in MinorsIn(a) : n <= minors[m].prev \/ m <= n
  BY <1>1 DEF MinorsListed
<1>8. majors[a].first \in MinorsIn(a) /\ \A n \in MinorsIn(a) : majors[a].first <= n
  BY <1>2 DEF FirstsListed
<1>9. head = NULL => MinorsIn(a) = {m}
  <2> SUFFICES ASSUME head = NULL, NEW n \in MinorsIn(a) PROVE n = m
    BY <1>2
  <2>1. minors[m].prev = NULL /\ minors[m].next = NULL
    BY <1>6, <1>8
  <2>2. n <= m /\ m <= n
    BY <2>1, <1>7
  <2>3. n \in Nat /\ m \in Nat
    BY <1>2, <1>6
  <2> QED BY <2>2, <2>3
<1>10. head # NULL => head \in MinorsIn(a) \ {m} /\ \A n \in MinorsIn(a) \ {m} : head <= n
  <2>1. CASE minors[m].prev = NULL /\ minors[m].next # NULL
    <3>1. /\ minors[m].next \in MinorsIn(a) /\ m < minors[m].next
          /\ \A n \in MinorsIn(a) : n <= m \/ minors[m].next <= n
          /\ \A n \in MinorsIn(a) : m <= n
      BY <2>1, <1>7
    <3>2. \A n \in MinorsIn(a) \ {m} : ~(n <= m)
      BY <3>1, <1>2, <1>6
    <3> QED BY <2>1, <3>1, <3>2, <1>2, <1>6
  <2>2. CASE minors[m].prev # NULL
    <3>1. minors[m].prev \in MinorsIn(a) /\ minors[m].prev < m
      BY <2>2, <1>7
    <3>2. majors[a].first # m
      <4>1. majors[a].first <= minors[m].prev /\ majors[a].first \in Nat /\ minors[m].prev \in Nat
        BY <3>1, <1>6, <1>8
      <4> QED BY <3>1, <4>1, <1>2
    <3> QED BY <2>2, <3>2, <1>8
  <2> QED BY <2>1, <2>2
<1>11. /\ minors' = Unlink(minors, m)
       /\ l_inuse' = l_inuse - minors[m].size
       /\ \/ head = NULL /\ GivesBack(a)
          \/ head # NULL /\ Shrinks(a, left, head)
  BY <1>5 DEF Free, GivesBack, Shrinks
<1> HIDE DEF head
<1>12. Freed(a, m)
  <2>1. CASE head = NULL
    BY <2>1, <1>9, <1>11 DEF Freed
  <2>2. CASE head # NULL
    BY <2>2, <1>10, <1>11 DEF Freed
  <2> QED BY <2>1, <2>2
<1> QED BY <1>1, <1>2, <1>5, <1>12

(* What Free does to each header.                                          *)
LEMMA FreedMajor ==
  ASSUME MajorsPlaced, MinorsPlaced, NEW a \in DOMAIN majors, NEW m \in MinorsIn(a),
         majors[a].usage - minors[m].size - MinorSize \in Nat, Freed(a, m),
         NEW b \in DOMAIN majors'
  PROVE  /\ b \in DOMAIN majors /\ majors'[b] \in MajorHeader
         /\ majors'[b].pages = majors[b].pages /\ SizeOf(b)' = SizeOf(b)
         /\ b # a => majors'[b].usage = majors[b].usage /\ majors'[b].first = majors[b].first
         /\ b = a =>
              /\ majors'[b].usage = majors[a].usage - minors[m].size - MinorSize
              /\ majors'[b].first \in MinorsIn(a) \ {m}
              /\ \A n \in MinorsIn(a) \ {m} : majors'[b].first <= n
<1>1. \A d \in DOMAIN majors : majors[d] \in MajorHeader
  BY DEF MajorsPlaced, MajorHeader
<1>2. CASE GivesBack(a)
  <2>1. majors' = Unlink(majors, a)
    BY <1>2 DEF GivesBack
  <2>2. b \in DOMAIN majors /\ b # a
    BY <2>1 DEF Unlink
  <2>3. majors'[b] = [majors[b] EXCEPT
           !.next = IF b = majors[a].prev THEN majors[a].next ELSE majors[b].next,
           !.prev = IF b = majors[a].next THEN majors[a].prev ELSE majors[b].prev]
    BY <2>1, <2>2 DEF Unlink
  <2>4. majors[a] \in MajorHeader /\ majors[b] \in MajorHeader
    BY <1>1, <2>2
  <2>5. /\ majors'[b] \in MajorHeader /\ majors'[b].pages = majors[b].pages
        /\ majors'[b].usage = majors[b].usage /\ majors'[b].first = majors[b].first
    BY <2>3, <2>4 DEF MajorHeader
  <2> QED BY <2>2, <2>5 DEF SizeOf
<1>3. ASSUME NEW head \in MinorsIn(a) \ {m}, \A n \in MinorsIn(a) \ {m} : head <= n,
             NEW left \in Nat, left = majors[a].usage - minors[m].size - MinorSize,
             Shrinks(a, left, head)
      PROVE  /\ b \in DOMAIN majors /\ majors'[b] \in MajorHeader
             /\ majors'[b].pages = majors[b].pages /\ SizeOf(b)' = SizeOf(b)
             /\ b # a => majors'[b].usage = majors[b].usage /\ majors'[b].first = majors[b].first
             /\ b = a => majors'[b].usage = left /\ majors'[b].first = head
  <2>1. majors' = [majors EXCEPT ![a].usage = left, ![a].first = head]
    BY <1>3 DEF Shrinks
  <2>2. b \in DOMAIN majors
    BY <2>1
  <2>3. head \in Addresses
    BY DEF MinorsIn, MinorsPlaced
  <2>4. majors[b] \in MajorHeader
    BY <1>1, <2>2
  <2>5. majors'[b] = IF b = a THEN [majors[b] EXCEPT !.usage = left, !.first = head]
                              ELSE majors[b]
    BY <2>1, <2>2
  <2>6. CASE b = a
    BY <2>2, <2>3, <2>4, <2>5, <2>6 DEF MajorHeader, SizeOf
  <2>7. CASE b # a
    BY <2>2, <2>4, <2>5, <2>7 DEF SizeOf
  <2> QED BY <2>6, <2>7
<1>4. CASE \E head \in MinorsIn(a) \ {m} :
          /\ \A n \in MinorsIn(a) \ {m} : head <= n
          /\ Shrinks(a, majors[a].usage - minors[m].size - MinorSize, head)
  BY <1>3, <1>4
<1>5. CASE MinorsIn(a) = {m} /\ GivesBack(a)
  <2>1. b # a
    BY <1>5 DEF GivesBack, Unlink
  <2> QED BY <1>2, <1>5, <2>1
<1> QED BY <1>4, <1>5 DEF Freed

LEMMA FreedMinor ==
  ASSUME MajorsPlaced, MinorsPlaced, NEW a \in DOMAIN majors, NEW m \in MinorsIn(a), Freed(a, m)
  PROVE  /\ m \in DOMAIN minors /\ DOMAIN minors' = DOMAIN minors \ {m}
         /\ DOMAIN majors' = DOMAIN majors \/ (DOMAIN majors' = DOMAIN majors \ {a} /\ MinorsIn(a) = {m})
<1>1. m \in DOMAIN minors
  BY DEF MinorsIn
<1>2. DOMAIN minors' = DOMAIN minors \ {m}
  BY DEF Freed, Unlink
<1>3. \/ DOMAIN majors' = DOMAIN majors
      \/ DOMAIN majors' = DOMAIN majors \ {a} /\ MinorsIn(a) = {m}
  BY DEF Freed, GivesBack, Shrinks, Unlink
<1> QED BY <1>1, <1>2, <1>3

LEMMA FreedMinorOld ==
  ASSUME MajorsPlaced, MinorsPlaced, NEW a \in DOMAIN majors, NEW m \in MinorsIn(a), Freed(a, m),
         NEW n \in DOMAIN minors'
  PROVE  /\ n \in DOMAIN minors /\ n # m
         /\ minors'[n].next = IF n = minors[m].prev THEN minors[m].next ELSE minors[n].next
         /\ minors'[n].prev = IF n = minors[m].next THEN minors[m].prev ELSE minors[n].prev
         /\ minors'[n].block = minors[n].block /\ minors'[n].size = minors[n].size
         /\ minors'[n].req = minors[n].req /\ minors'[n] \in MinorHeader
<1>1. n \in DOMAIN minors /\ n # m /\ m \in DOMAIN minors
  BY FreedMinor
<1>2. minors[n] \in MinorHeader /\ minors[m] \in MinorHeader
  BY <1>1 DEF MinorsPlaced
<1>3. minors'[n] = [minors[n] EXCEPT
         !.next = IF n = minors[m].prev THEN minors[m].next ELSE minors[n].next,
         !.prev = IF n = minors[m].next THEN minors[m].prev ELSE minors[n].prev]
  BY <1>1 DEF Freed, Unlink
<1> QED BY <1>1, <1>2, <1>3 DEF MinorHeader

LEMMA FreeMajorsPlaced ==
  ASSUME MajorsPlaced, MinorsPlaced, NEW a \in DOMAIN majors, NEW m \in MinorsIn(a),
         majors[a].usage - minors[m].size - MinorSize \in Nat, Freed(a, m)
  PROVE  MajorsPlaced'
<1>1. \A b \in DOMAIN majors' : b \in DOMAIN majors
  BY FreedMajor
<1>2. DOMAIN majors' \subseteq PageAddresses
  BY <1>1 DEF MajorsPlaced
<1>3. ASSUME NEW b \in DOMAIN majors'
      PROVE  /\ majors'[b] \in MajorHeader /\ majors'[b].pages > 0 /\ b + SizeOf(b)' < WordSize
  <2>1. majors[b].pages > 0 /\ b + SizeOf(b) < WordSize
    BY <1>1 DEF MajorsPlaced
  <2> QED BY <2>1, FreedMajor
<1>4. ASSUME NEW b \in DOMAIN majors', NEW d \in DOMAIN majors', b < d
      PROVE  b + SizeOf(b)' <= d
  <2>1. b + SizeOf(b) <= d
    BY <1>1, <1>4 DEF MajorsPlaced
  <2> QED BY <2>1, FreedMajor
<1> QED BY <1>2, <1>3, <1>4 DEF MajorsPlaced, MajorHeader, Addresses

LEMMA FreeMinorsPlaced ==
  ASSUME MajorsPlaced, MinorsPlaced, NEW a \in DOMAIN majors, NEW m \in MinorsIn(a),
         majors[a].usage - minors[m].size - MinorSize \in Nat, Freed(a, m)
  PROVE  /\ MinorsPlaced'
         /\ \A b : MinorsIn(b)' = MinorsIn(b) \ {m}
         /\ \A n \in DOMAIN minors' : End(n)' = End(n)
<1>1. \A b : MinorsIn(b)' = MinorsIn(b) \ {m}
  <2>1. DOMAIN minors' = DOMAIN minors \ {m}
    BY FreedMinor
  <2>2. \A n \in DOMAIN minors' : minors'[n].block = minors[n].block
    BY FreedMinorOld
  <2> QED BY <2>1, <2>2 DEF MinorsIn
<1>2. \A n \in DOMAIN minors' : End(n)' = End(n)
  BY FreedMinorOld DEF End
<1>3. ASSUME NEW n \in DOMAIN minors'
      PROVE  minors'[n].block \in DOMAIN majors'
  <2>1. n \in DOMAIN minors /\ n # m /\ minors'[n].block = minors[n].block
    BY FreedMinorOld
  <2>2. minors[n].block \in DOMAIN majors /\ n \in MinorsIn(minors[n].block)
    BY <2>1, MinorFacts
  <2>3. DOMAIN majors' = DOMAIN majors \/ (DOMAIN majors' = DOMAIN majors \ {a} /\ MinorsIn(a) = {m})
    BY FreedMinor
  <2> QED BY <2>1, <2>2, <2>3
<1>4. ASSUME NEW n \in DOMAIN minors' PROVE minors'[n] \in MinorHeader'
  <2>1. minors'[n] \in MinorHeader
    BY FreedMinorOld
  <2> QED BY <2>1, <1>3 DEF MinorHeader, Addresses
<1>5. ASSUME NEW n \in DOMAIN minors', NEW b, b = minors'[n].block
      PROVE  /\ n >= b + MajorSize
             /\ End(n)' <= b + SizeOf(b)'
             /\ \A k \in MinorsIn(b)' : n < k => End(n)' <= k
  <2>1. n \in DOMAIN minors /\ b = minors[n].block
    BY <1>5, FreedMinorOld
  <2>2. /\ b + MajorSize <= n /\ End(n) <= b + SizeOf(b) /\ b \in DOMAIN majors /\ n \in Nat
    BY <2>1, MinorFacts
  <2>3. b \in Nat
    BY <2>2, MajorFacts
  <2>4. SizeOf(b)' = SizeOf(b)
    BY <1>3, <1>5, FreedMajor
  <2>5. \A k \in MinorsIn(b) : n < k => End(n) <= k
    BY <2>1 DEF MinorsPlaced
  <2> QED BY <2>2, <2>3, <2>4, <2>5, <1>1, <1>2, Sizing
<1>6. DOMAIN minors' \subseteq Addresses
  BY FreedMinor DEF MinorsPlaced
<1>7. MinorsPlaced'
  <2> SUFFICES ASSUME NEW n \in DOMAIN minors'
               PROVE  /\ n >= minors'[n].block + MajorSize
                      /\ End(n)' <= minors'[n].block + SizeOf(minors[n].block)'
                      /\ \A k \in MinorsIn(minors[n].block)' : n < k => End(n)' <= k
    BY <1>4, <1>6 DEF MinorsPlaced, Addresses
  <2>1. PICK b : b = minors'[n].block
    OBVIOUS
  <2>2. SizeOf(minors[n].block)' = SizeOf(b)' /\ MinorsIn(minors[n].block)' = MinorsIn(b)'
    BY <2>1 DEF SizeOf, MinorsIn
  <2> QED BY <2>1, <2>2, <1>5
<1> QED BY <1>1, <1>2, <1>7

(* The lists of the minors stay in the order of the addresses.             *)
LEMMA FreeMinorsListed ==
  ASSUME MajorsPlaced, MinorsPlaced, MinorsListed,
         NEW a \in DOMAIN majors, NEW m \in MinorsIn(a),
         majors[a].usage - minors[m].size - MinorSize \in Nat, Freed(a, m)
  PROVE  MinorsListed'
<1>1. \A b : MinorsIn(b)' = MinorsIn(b) \ {m}
  BY FreeMinorsPlaced
<1>2. m \in DOMAIN minors /\ minors[m].block = a /\ m \in Nat
  BY InMajor, MinorFacts
<1>3. \A n \in DOMAIN minors : n \in Nat /\ n # NULL
  BY MinorFacts
<1>4. \A b : \A n \in MinorsIn(b) : n \in DOMAIN minors /\ minors[n].block = b
  BY DEF MinorsIn
<1>5. ASSUME NEW n \in DOMAIN minors, NEW b, b = minors[n].block
      PROVE  /\ n \in MinorsIn(b)
             /\ IF minors[n].next = NULL THEN \A k \in MinorsIn(b) : k <= n
                ELSE /\ minors[n].next \in MinorsIn(b) /\ n < minors[n].next
                     /\ \A k \in MinorsIn(b) : k <= n \/ minors[n].next <= k
             /\ IF minors[n].prev = NULL THEN \A k \in MinorsIn(b) : n <= k
                ELSE /\ minors[n].prev \in MinorsIn(b) /\ minors[n].prev < n
                     /\ \A k \in MinorsIn(b) : k <= minors[n].prev \/ n <= k
  <2>1. n \in MinorsIn(b)
    BY <1>5 DEF MinorsIn
  <2> QED BY <2>1, <1>5 DEF MinorsListed
<1>6. /\ IF minors[m].next = NULL THEN \A k \in MinorsIn(a) : k <= m
         ELSE /\ minors[m].next \in MinorsIn(a) /\ m < minors[m].next
              /\ \A k \in MinorsIn(a) : k <= m \/ minors[m].next <= k
      /\ IF minors[m].prev = NULL THEN \A k \in MinorsIn(a) : m <= k
         ELSE /\ minors[m].prev \in MinorsIn(a) /\ minors[m].prev < m
              /\ \A k \in MinorsIn(a) : k <= minors[m].prev \/ m <= k
  BY <1>2, <1>5
<1>7. ASSUME NEW n \in DOMAIN minors', NEW b, b = minors'[n].block
      PROVE  IF minors'[n].next = NULL THEN \A k \in MinorsIn(b)' : k <= n
             ELSE /\ minors'[n].next \in MinorsIn(b)' /\ n < minors'[n].next
                  /\ \A k \in MinorsIn(b)' : k <= n \/ minors'[n].next <= k
  <2>1. /\ n \in DOMAIN minors /\ n # m /\ b = minors[n].block /\ n \in Nat /\ n # NULL
        /\ minors'[n].next = IF n = minors[m].prev THEN minors[m].next ELSE minors[n].next
    BY <1>3, <1>7, FreedMinorOld
  <2>2. /\ n \in MinorsIn(b)
        /\ IF minors[n].next = NULL THEN \A k \in MinorsIn(b) : k <= n
           ELSE /\ minors[n].next \in MinorsIn(b) /\ n < minors[n].next
                /\ \A k \in MinorsIn(b) : k <= n \/ minors[n].next <= k
    BY <2>1, <1>5
  <2>3. CASE n = minors[m].prev
    <3>1. /\ b = a /\ n < m /\ minors'[n].next = minors[m].next
          /\ \A k \in MinorsIn(a) : k <= n \/ m <= k
      BY <2>1, <2>3, <1>4, <1>6
    <3>2. CASE minors[m].next = NULL
      <4>1. \A k \in MinorsIn(a) \ {m} : k <= n
        <5> SUFFICES ASSUME NEW k \in MinorsIn(a) \ {m} PROVE k <= n
          OBVIOUS
        <5>1. k <= m /\ k # m /\ k \in Nat
          BY <3>2, <1>3, <1>4, <1>6
        <5> QED BY <5>1, <3>1, <1>2
      <4> QED BY <4>1, <3>1, <3>2, <1>1
    <3>3. CASE minors[m].next # NULL
      <4> DEFINE x == minors[m].next
      <4>1. /\ x \in MinorsIn(a) /\ m < x /\ x \in Nat
            /\ \A k \in MinorsIn(a) : k <= m \/ x <= k
        BY <3>3, <1>3, <1>4, <1>6
      <4>2. x # NULL /\ minors'[n].next = x
        BY <3>1, <3>3
      <4> HIDE DEF x
      <4>3. n < x /\ x # m
        BY <4>1, <3>1, <2>1, <1>2
      <4>4. \A k \in MinorsIn(a) \ {m} : k <= n \/ x <= k
        <5> SUFFICES ASSUME NEW k \in MinorsIn(a) \ {m} PROVE k <= n \/ x <= k
          OBVIOUS
        <5>1. k \in Nat /\ k # m /\ (k <= m \/ x <= k) /\ (k <= n \/ m <= k)
          BY <4>1, <3>1, <1>3, <1>4
        <5> QED BY <5>1, <1>2
      <4> QED BY <4>1, <4>2, <4>3, <4>4, <3>1, <1>1
    <3> QED BY <3>2, <3>3
  <2>4. CASE n # minors[m].prev
    <3>1. minors[n].next # m
      <4> SUFFICES ASSUME minors[n].next = m PROVE FALSE
        OBVIOUS
      <4>1. m \in MinorsIn(b) /\ n < m /\ \A k \in MinorsIn(b) : k <= n \/ m <= k
        BY <2>2, <1>2, <1>3
      <4>2. b = a /\ n \in MinorsIn(a)
        BY <4>1, <2>2, <1>2, <1>4
      <4>3. minors[m].prev # NULL
        BY <4>1, <4>2, <2>1, <1>2, <1>6
      <4> DEFINE x == minors[m].prev
      <4>4. /\ x \in MinorsIn(a) /\ x < m /\ x \in Nat /\ x # n
            /\ \A k \in MinorsIn(a) : k <= x \/ m <= k
        BY <4>3, <2>4, <1>3, <1>4, <1>6
      <4> HIDE DEF x
      <4>5. (n <= x \/ m <= n) /\ (x <= n \/ m <= x)
        BY <4>1, <4>2, <4>4
      <4> QED BY <4>1, <4>4, <4>5, <2>1, <1>2
    <3> QED BY <3>1, <2>1, <2>2, <2>4, <1>1
  <2> QED BY <2>3, <2>4
<1>8. ASSUME NEW n \in DOMAIN minors', NEW b, b = minors'[n].block
      PROVE  IF minors'[n].prev = NULL THEN \A k \in MinorsIn(b)' : n <= k
             ELSE /\ minors'[n].prev \in MinorsIn(b)' /\ minors'[n].prev < n
                  /\ \A k \in MinorsIn(b)' : k <= minors'[n].prev \/ n <= k
  <2>1. /\ n \in DOMAIN minors /\ n # m /\ b = minors[n].block /\ n \in Nat /\ n # NULL
        /\ minors'[n].prev = IF n = minors[m].next THEN minors[m].prev ELSE minors[n].prev
    BY <1>3, <1>8, FreedMinorOld
  <2>2. /\ n \in MinorsIn(b)
        /\ IF minors[n].prev = NULL THEN \A k \in MinorsIn(b) : n <= k
           ELSE /\ minors[n].prev \in MinorsIn(b) /\ minors[n].prev < n
                /\ \A k \in MinorsIn(b) : k <= minors[n].prev \/ n <= k
    BY <2>1, <1>5
  <2>3. CASE n = minors[m].next
    <3>1. /\ b = a /\ m < n /\ minors'[n].prev = minors[m].prev
          /\ \A k \in MinorsIn(a) : k <= m \/ n <= k
      BY <2>1, <2>3, <1>4, <1>6
    <3>2. CASE minors[m].prev = NULL
      <4>1. \A k \in MinorsIn(a) \ {m} : n <= k
        <5> SUFFICES ASSUME NEW k \in MinorsIn(a) \ {m} PROVE n <= k
          OBVIOUS
        <5>1. m <= k /\ k # m /\ k \in Nat
          BY <3>2, <1>3, <1>4, <1>6
        <5> QED BY <5>1, <3>1, <1>2
      <4> QED BY <4>1, <3>1, <3>2, <1>1
    <3>3. CASE minors[m].prev # NULL
      <4> DEFINE x == minors[m].prev
      <4>1. /\ x \in MinorsIn(a) /\ x < m /\ x \in Nat
            /\ \A k \in MinorsIn(a) : k <= x \/ m <= k
        BY <3>3, <1>3, <1>4, <1>6
      <4>2. x # NULL /\ minors'[n].prev = x
        BY <3>1, <3>3
      <4> HIDE DEF x
      <4>3. x < n /\ x # m
        BY <4>1, <3>1, <2>1, <1>2
      <4>4. \A k \in MinorsIn(a) \ {m} : k <= x \/ n <= k
        <5> SUFFICES ASSUME NEW k \in MinorsIn(a) \ {m} PROVE k <= x \/ n <= k
          OBVIOUS
        <5>1. k \in Nat /\ k # m /\ (k <= x \/ m <= k) /\ (k <= m \/ n <= k)
          BY <4>1, <3>1, <1>3, <1>4
        <5> QED BY <5>1, <1>2
      <4> QED BY <4>1, <4>2, <4>3, <4>4, <3>1, <1>1
    <3> QED BY <3>2, <3>3
  <2>4. CASE n # minors[m].next
    <3>1. minors[n].prev # m
      <4> SUFFICES ASSUME minors[n].prev = m PROVE FALSE
        OBVIOUS
      <4>1. m \in MinorsIn(b) /\ m < n /\ \A k \in MinorsIn(b) : k <= m \/ n <= k
        BY <2>2, <1>2, <1>3
      <4>2. b = a /\ n \in MinorsIn(a)
        BY <4>1, <2>2, <1>2, <1>4
      <4>3. minors[m].next # NULL
        BY <4>1, <4>2, <2>1, <1>2, <1>6
      <4> DEFINE x == minors[m].next
      <4>4. /\ x \in MinorsIn(a) /\ m < x /\ x \in Nat /\ x # n
            /\ \A k \in MinorsIn(a) : k <= m \/ x <= k
        BY <4>3, <2>4, <1>3, <1>4, <1>6
      <4> HIDE DEF x
      <4>5. (n <= m \/ x <= n) /\ (x <= m \/ n <= x)
        BY <4>1, <4>2, <4>4
      <4> QED BY <4>1, <4>4, <4>5, <2>1, <1>2
    <3> QED BY <3>1, <2>1, <2>2, <2>4, <1>1
  <2> QED BY <2>3, <2>4
<1> SUFFICES ASSUME NEW n \in DOMAIN minors'
             PROVE  /\ IF minors'[n].next = NULL THEN \A k \in MinorsIn(minors[n].block)' : k <= n
                       ELSE /\ minors'[n].next \in MinorsIn(minors[n].block)' /\ n < minors'[n].next
                            /\ \A k \in MinorsIn(minors[n].block)' : k <= n \/ minors'[n].next <= k
                    /\ IF minors'[n].prev = NULL THEN \A k \in MinorsIn(minors[n].block)' : n <= k
                       ELSE /\ minors'[n].prev \in MinorsIn(minors[n].block)' /\ minors'[n].prev < n
                            /\ \A k \in MinorsIn(minors[n].block)' : k <= minors'[n].prev \/ n <= k
  BY DEF MinorsListed
<1>9. PICK b : b = minors'[n].block
  OBVIOUS
<1>10. MinorsIn(minors[n].block)' = MinorsIn(b)'
  BY <1>9 DEF MinorsIn
<1> QED BY <1>7, <1>8, <1>9, <1>10

LEMMA FreeFirstsListed ==
  ASSUME MajorsPlaced, MinorsPlaced, FirstsListed,
         NEW a \in DOMAIN majors, NEW m \in MinorsIn(a),
         majors[a].usage - minors[m].size - MinorSize \in Nat, Freed(a, m)
  PROVE  /\ FirstsListed'
         /\ \A b \in DOMAIN majors' : majors'[b].first = NULL => majors[b].first = NULL /\ b # a
<1>1. \A b : MinorsIn(b)' = MinorsIn(b) \ {m}
  BY FreeMinorsPlaced
<1>2. \A n \in MinorsIn(a) : n # NULL
  BY InMajor, MinorFacts
<1>3. ASSUME NEW b \in DOMAIN majors'
      PROVE  /\ IF majors'[b].first = NULL THEN MinorsIn(b)' = {}
                ELSE /\ majors'[b].first \in MinorsIn(b)'
                     /\ \A n \in MinorsIn(b)' : majors'[b].first <= n
             /\ majors'[b].first = NULL => majors[b].first = NULL /\ b # a
  <2>1. CASE b = a
    <3>1. /\ majors'[b].first \in MinorsIn(a) \ {m}
          /\ \A n \in MinorsIn(a) \ {m} : majors'[b].first <= n
      BY <2>1, FreedMajor
    <3> QED BY <2>1, <3>1, <1>1, <1>2
  <2>2. CASE b # a
    <3>1. majors'[b].first = majors[b].first /\ b \in DOMAIN majors
      BY <2>2, FreedMajor
    <3>2. m \notin MinorsIn(b)
      BY <2>2 DEF MinorsIn
    <3>3. IF majors[b].first = NULL THEN MinorsIn(b) = {}
          ELSE majors[b].first \in MinorsIn(b) /\ \A n \in MinorsIn(b) : majors[b].first <= n
      BY <3>1 DEF FirstsListed
    <3> QED BY <2>2, <3>1, <3>2, <3>3, <1>1
  <2> QED BY <2>1, <2>2
<1> QED BY <1>3 DEF FirstsListed

(* A major that goes leaves the order of the others.                       *)
LEMMA GivesBackOld ==
  ASSUME MajorsPlaced, NEW a \in DOMAIN majors, GivesBack(a), NEW b \in DOMAIN majors'
  PROVE  /\ b \in DOMAIN majors /\ b # a /\ DOMAIN majors' = DOMAIN majors \ {a}
         /\ majors'[b].next = IF b = majors[a].prev THEN majors[a].next ELSE majors[b].next
         /\ majors'[b].prev = IF b = majors[a].next THEN majors[a].prev ELSE majors[b].prev
<1>1. majors' = Unlink(majors, a)
  BY DEF GivesBack
<1>2. b \in DOMAIN majors /\ b # a /\ DOMAIN majors' = DOMAIN majors \ {a}
  BY <1>1 DEF Unlink
<1>3. majors'[b] = [majors[b] EXCEPT
         !.next = IF b = majors[a].prev THEN majors[a].next ELSE majors[b].next,
         !.prev = IF b = majors[a].next THEN majors[a].prev ELSE majors[b].prev]
  BY <1>1, <1>2 DEF Unlink
<1>4. majors[b] \in MajorHeader
  BY <1>2 DEF MajorsPlaced, MajorHeader
<1> QED BY <1>2, <1>3, <1>4 DEF MajorHeader

LEMMA GivesBackListed ==
  ASSUME MajorsPlaced, NEW a \in DOMAIN majors, GivesBack(a),
         NEW ord \in [DOMAIN majors -> Nat], ListedBy(ord)
  PROVE  ListedBy(ord)'
<1>1. DOMAIN majors' = DOMAIN majors \ {a}
  BY DEF GivesBack, Unlink
<1>2. \A b \in DOMAIN majors : ord[b] \in Nat /\ b # NULL
  BY MajorFacts
<1>3. \A b, d \in DOMAIN majors : ord[b] = ord[d] => b = d
  BY DEF ListedBy
<1>4. ASSUME NEW b \in DOMAIN majors
      PROVE  /\ IF majors[b].next = NULL THEN \A d \in DOMAIN majors : ord[d] <= ord[b]
                ELSE /\ majors[b].next \in DOMAIN majors /\ ord[b] < ord[majors[b].next]
                     /\ \A d \in DOMAIN majors : ord[d] <= ord[b] \/ ord[majors[b].next] <= ord[d]
             /\ IF majors[b].prev = NULL THEN \A d \in DOMAIN majors : ord[b] <= ord[d]
                ELSE /\ majors[b].prev \in DOMAIN majors /\ ord[majors[b].prev] < ord[b]
                     /\ \A d \in DOMAIN majors : ord[d] <= ord[majors[b].prev] \/ ord[b] <= ord[d]
  BY DEF ListedBy
<1>5. /\ (l_memRoot = NULL <=> DOMAIN majors = {})
      /\ l_memRoot \in DOMAIN majors /\ \A b \in DOMAIN majors : ord[l_memRoot] <= ord[b]
      /\ l_memRoot' = IF l_memRoot = a THEN majors[a].next ELSE l_memRoot
  BY <1>2 DEF ListedBy, GivesBack, RootWithout
<1>6. /\ (l_memRoot' = NULL <=> DOMAIN majors' = {})
      /\ l_memRoot' # NULL =>
           l_memRoot' \in DOMAIN majors' /\ \A b \in DOMAIN majors' : ord[l_memRoot'] <= ord[b]
  <2>1. CASE l_memRoot # a
    BY <2>1, <1>1, <1>2, <1>5
  <2>2. CASE l_memRoot = a /\ majors[a].next = NULL
    <3>1. \A b \in DOMAIN majors : ord[b] <= ord[a] /\ ord[a] <= ord[b]
      BY <2>2, <1>4, <1>5
    <3>2. \A b \in DOMAIN majors : b = a
      BY <3>1, <1>2, <1>3
    <3> QED BY <2>2, <3>2, <1>1, <1>5
  <2>3. CASE l_memRoot = a /\ majors[a].next # NULL
    <3> DEFINE x == majors[a].next
    <3>1. /\ x \in DOMAIN majors /\ ord[a] < ord[x] /\ x # NULL /\ l_memRoot' = x
          /\ \A d \in DOMAIN majors : ord[d] <= ord[a] \/ ord[x] <= ord[d]
      BY <2>3, <1>4, <1>5
    <3> HIDE DEF x
    <3>2. x \in DOMAIN majors'
      BY <3>1, <1>1, <1>2
    <3>3. \A d \in DOMAIN majors' : ord[x] <= ord[d]
      <4> SUFFICES ASSUME NEW d \in DOMAIN majors' PROVE ord[x] <= ord[d]
        OBVIOUS
      <4>1. d \in DOMAIN majors /\ d # a /\ ord[a] <= ord[d]
        BY <2>3, <1>1, <1>5
      <4>2. ord[d] # ord[a]
        BY <4>1, <1>3
      <4>3. ord[d] <= ord[a] \/ ord[x] <= ord[d]
        BY <4>1, <3>1
      <4> QED BY <4>1, <4>2, <4>3, <1>2
    <3> QED BY <3>1, <3>2, <3>3
  <2> QED BY <2>1, <2>2, <2>3
<1>7. ASSUME NEW b \in DOMAIN majors'
      PROVE  IF majors'[b].next = NULL THEN \A d \in DOMAIN majors' : ord[d] <= ord[b]
             ELSE /\ majors'[b].next \in DOMAIN majors' /\ ord[b] < ord[majors'[b].next]
                  /\ \A d \in DOMAIN majors' : ord[d] <= ord[b] \/ ord[majors'[b].next] <= ord[d]
  <2>1. /\ b \in DOMAIN majors /\ b # a /\ b # NULL
        /\ majors'[b].next = IF b = majors[a].prev THEN majors[a].next ELSE majors[b].next
    BY <1>2, GivesBackOld
  <2>2. CASE b = majors[a].prev
    <3>1. /\ ord[b] < ord[a] /\ majors'[b].next = majors[a].next
          /\ \A d \in DOMAIN majors : ord[d] <= ord[b] \/ ord[a] <= ord[d]
      BY <2>1, <2>2, <1>4
    <3>2. CASE majors[a].next = NULL
      <4>1. \A d \in DOMAIN majors' : ord[d] <= ord[b]
        <5> SUFFICES ASSUME NEW d \in DOMAIN majors' PROVE ord[d] <= ord[b]
          OBVIOUS
        <5>1. d \in DOMAIN majors /\ ord[d] # ord[a] /\ ord[d] <= ord[a]
          BY <3>2, <1>1, <1>3, <1>4
        <5> QED BY <5>1, <3>1, <2>1, <1>2
      <4> QED BY <4>1, <3>1, <3>2
    <3>3. CASE majors[a].next # NULL
      <4> DEFINE x == majors[a].next
      <4>1. /\ x \in DOMAIN majors /\ ord[a] < ord[x] /\ x # NULL /\ majors'[b].next = x
            /\ \A d \in DOMAIN majors : ord[d] <= ord[a] \/ ord[x] <= ord[d]
        BY <3>1, <3>3, <1>4
      <4> HIDE DEF x
      <4>2. x \in DOMAIN majors' /\ ord[b] < ord[x]
        BY <4>1, <3>1, <2>1, <1>1, <1>2
      <4>3. \A d \in DOMAIN majors' : ord[d] <= ord[b] \/ ord[x] <= ord[d]
        <5> SUFFICES ASSUME NEW d \in DOMAIN majors' PROVE ord[d] <= ord[b] \/ ord[x] <= ord[d]
          OBVIOUS
        <5>1. d \in DOMAIN majors /\ ord[d] # ord[a]
          BY <1>1, <1>3
        <5> QED BY <5>1, <4>1, <3>1, <2>1, <1>2
      <4> QED BY <4>1, <4>2, <4>3
    <3> QED BY <3>2, <3>3
  <2>3. CASE b # majors[a].prev
    <3>1. majors[b].next # a
      <4> SUFFICES ASSUME majors[b].next = a PROVE FALSE
        OBVIOUS
      <4>1. ord[b] < ord[a] /\ \A d \in DOMAIN majors : ord[d] <= ord[b] \/ ord[a] <= ord[d]
        BY <2>1, <1>2, <1>4
      <4>2. majors[a].prev # NULL
        BY <4>1, <2>1, <1>2, <1>4
      <4> DEFINE x == majors[a].prev
      <4>3. /\ x \in DOMAIN majors /\ ord[x] < ord[a] /\ x # b
            /\ \A d \in DOMAIN majors : ord[d] <= ord[x] \/ ord[a] <= ord[d]
        BY <4>2, <2>3, <1>4
      <4> HIDE DEF x
      <4>4. (ord[b] <= ord[x] \/ ord[a] <= ord[b]) /\ (ord[x] <= ord[b] \/ ord[a] <= ord[x])
        BY <4>1, <4>3, <2>1
      <4>5. ord[x] = ord[b]
        BY <4>1, <4>3, <4>4, <2>1, <1>2
      <4> QED BY <4>3, <4>5, <2>1, <1>3
    <3> QED BY <3>1, <2>1, <2>3, <1>1, <1>4
  <2> QED BY <2>2, <2>3
<1>8. ASSUME NEW b \in DOMAIN majors'
      PROVE  IF majors'[b].prev = NULL THEN \A d \in DOMAIN majors' : ord[b] <= ord[d]
             ELSE /\ majors'[b].prev \in DOMAIN majors' /\ ord[majors'[b].prev] < ord[b]
                  /\ \A d \in DOMAIN majors' : ord[d] <= ord[majors'[b].prev] \/ ord[b] <= ord[d]
  <2>1. /\ b \in DOMAIN majors /\ b # a /\ b # NULL
        /\ majors'[b].prev = IF b = majors[a].next THEN majors[a].prev ELSE majors[b].prev
    BY <1>2, GivesBackOld
  <2>2. CASE b = majors[a].next
    <3>1. /\ ord[a] < ord[b] /\ majors'[b].prev = majors[a].prev
          /\ \A d \in DOMAIN majors : ord[d] <= ord[a] \/ ord[b] <= ord[d]
      BY <2>1, <2>2, <1>4
    <3>2. CASE majors[a].prev = NULL
      <4>1. \A d \in DOMAIN majors' : ord[b] <= ord[d]
        <5> SUFFICES ASSUME NEW d \in DOMAIN majors' PROVE ord[b] <= ord[d]
          OBVIOUS
        <5>1. d \in DOMAIN majors /\ ord[d] # ord[a] /\ ord[a] <= ord[d]
          BY <3>2, <1>1, <1>3, <1>4
        <5> QED BY <5>1, <3>1, <2>1, <1>2
      <4> QED BY <4>1, <3>1, <3>2
    <3>3. CASE majors[a].prev # NULL
      <4> DEFINE x == majors[a].prev
      <4>1. /\ x \in DOMAIN majors /\ ord[x] < ord[a] /\ x # NULL /\ majors'[b].prev = x
            /\ \A d \in DOMAIN majors : ord[d] <= ord[x] \/ ord[a] <= ord[d]
        BY <3>1, <3>3, <1>4
      <4> HIDE DEF x
      <4>2. x \in DOMAIN majors' /\ ord[x] < ord[b]
        BY <4>1, <3>1, <2>1, <1>1, <1>2
      <4>3. \A d \in DOMAIN majors' : ord[d] <= ord[x] \/ ord[b] <= ord[d]
        <5> SUFFICES ASSUME NEW d \in DOMAIN majors' PROVE ord[d] <= ord[x] \/ ord[b] <= ord[d]
          OBVIOUS
        <5>1. d \in DOMAIN majors /\ ord[d] # ord[a]
          BY <1>1, <1>3
        <5> QED BY <5>1, <4>1, <3>1, <2>1, <1>2
      <4> QED BY <4>1, <4>2, <4>3
    <3> QED BY <3>2, <3>3
  <2>3. CASE b # majors[a].next
    <3>1. majors[b].prev # a
      <4> SUFFICES ASSUME majors[b].prev = a PROVE FALSE
        OBVIOUS
      <4>1. ord[a] < ord[b] /\ \A d \in DOMAIN majors : ord[d] <= ord[a] \/ ord[b] <= ord[d]
        BY <2>1, <1>2, <1>4
      <4>2. majors[a].next # NULL
        BY <4>1, <2>1, <1>2, <1>4
      <4> DEFINE x == majors[a].next
      <4>3. /\ x \in DOMAIN majors /\ ord[a] < ord[x] /\ x # b
            /\ \A d \in DOMAIN majors : ord[d] <= ord[a] \/ ord[x] <= ord[d]
        BY <4>2, <2>3, <1>4
      <4> HIDE DEF x
      <4>4. (ord[b] <= ord[a] \/ ord[x] <= ord[b]) /\ (ord[x] <= ord[a] \/ ord[b] <= ord[x])
        BY <4>1, <4>3, <2>1
      <4>5. ord[x] = ord[b]
        BY <4>1, <4>3, <4>4, <2>1, <1>2
      <4> QED BY <4>3, <4>5, <2>1, <1>3
    <3> QED BY <3>1, <2>1, <2>3, <1>1, <1>4
  <2> QED BY <2>2, <2>3
<1>9. \A b, d \in DOMAIN majors' : ord[b] = ord[d] => b = d
  BY <1>1, <1>3
<1> QED BY <1>6, <1>7, <1>8, <1>9 DEF ListedBy

LEMMA FreeMajorsListed ==
  ASSUME MajorsPlaced, MajorsListed, NEW a \in DOMAIN majors, NEW m \in MinorsIn(a), Freed(a, m),
         pc' = "idle"
  PROVE  MajorsListed'
<1>1. PICK ord \in [DOMAIN majors -> Nat] : ListedBy(ord)
  BY DEF MajorsListed
<1>2. DOMAIN majors' \subseteq DOMAIN majors
  BY DEF Freed, GivesBack, Shrinks, Unlink
<1>3. ListedBy(ord)'
  <2>1. CASE GivesBack(a)
    BY <2>1, <1>1, GivesBackListed
  <2>2. CASE \E left, head : Shrinks(a, left, head)
    <3>1. /\ DOMAIN majors' = DOMAIN majors /\ l_memRoot' = l_memRoot
          /\ \A b \in DOMAIN majors :
               majors'[b].next = majors[b].next /\ majors'[b].prev = majors[b].prev
      <4>1. PICK left, head : majors' = [majors EXCEPT ![a].usage = left, ![a].first = head]
        BY <2>2 DEF Shrinks
      <4>2. \A b \in DOMAIN majors : majors[b] \in MajorHeader
        BY DEF MajorsPlaced, MajorHeader
      <4>3. l_memRoot' = l_memRoot
        BY <2>2 DEF Shrinks
      <4> QED BY <4>1, <4>2, <4>3 DEF MajorHeader
    <3> QED BY <3>1, <1>1, SameOrder
  <2> QED BY <2>1, <2>2 DEF Freed
<1>4. PICK o \in [DOMAIN majors' -> Nat] : \A b \in DOMAIN majors' : o[b] = ord[b]
  <2> DEFINE f == [b \in DOMAIN majors' |-> ord[b]]
  <2>1. f \in [DOMAIN majors' -> Nat] /\ \A b \in DOMAIN majors' : f[b] = ord[b]
    BY <1>2
  <2> QED BY <2>1
<1>5. ListedBy(o)'
  <2>1. /\ l_memRoot' # NULL => l_memRoot' \in DOMAIN majors'
        /\ \A b \in DOMAIN majors' :
             /\ majors'[b].next # NULL => majors'[b].next \in DOMAIN majors'
             /\ majors'[b].prev # NULL => majors'[b].prev \in DOMAIN majors'
    BY <1>3 DEF ListedBy
  <2>2. /\ l_memRoot' = NULL <=> DOMAIN majors' = {}
        /\ l_memRoot' # NULL =>
             l_memRoot' \in DOMAIN majors' /\ \A b \in DOMAIN majors' : o[l_memRoot'] <= o[b]
        /\ \A b, d \in DOMAIN majors' : o[b] = o[d] => b = d
    <3>1. /\ l_memRoot' = NULL <=> DOMAIN majors' = {}
          /\ l_memRoot' # NULL => \A b \in DOMAIN majors' : ord[l_memRoot'] <= ord[b]
          /\ \A b, d \in DOMAIN majors' : ord[b] = ord[d] => b = d
      BY <1>3 DEF ListedBy
    <3> QED BY <2>1, <3>1, <1>4
  <2>3. ASSUME NEW b \in DOMAIN majors'
        PROVE  /\ IF majors'[b].next = NULL THEN \A d \in DOMAIN majors' : o[d] <= o[b]
                  ELSE /\ majors'[b].next \in DOMAIN majors' /\ o[b] < o[majors'[b].next]
                       /\ \A d \in DOMAIN majors' : o[d] <= o[b] \/ o[majors'[b].next] <= o[d]
               /\ IF majors'[b].prev = NULL THEN \A d \in DOMAIN majors' : o[b] <= o[d]
                  ELSE /\ majors'[b].prev \in DOMAIN majors' /\ o[majors'[b].prev] < o[b]
                       /\ \A d \in DOMAIN majors' : o[d] <= o[majors'[b].prev] \/ o[b] <= o[d]
    <3>1. /\ IF majors'[b].next = NULL THEN \A d \in DOMAIN majors' : ord[d] <= ord[b]
             ELSE /\ ord[b] < ord[majors'[b].next]
                  /\ \A d \in DOMAIN majors' : ord[d] <= ord[b] \/ ord[majors'[b].next] <= ord[d]
          /\ IF majors'[b].prev = NULL THEN \A d \in DOMAIN majors' : ord[b] <= ord[d]
             ELSE /\ ord[majors'[b].prev] < ord[b]
                  /\ \A d \in DOMAIN majors' : ord[d] <= ord[majors'[b].prev] \/ ord[b] <= ord[d]
      BY <1>3 DEF ListedBy
    <3> QED BY <2>1, <3>1, <1>4
  <2> QED BY <2>2, <2>3 DEF ListedBy
<1>6. PassedBy(o)'
  BY DEF PassedBy
<1> QED BY <1>4, <1>5, <1>6 DEF MajorsListed

(* The other blocks stay in their minors, and the counters lose what is    *)
(* freed.                                                                  *)
LEMMA FreeBlocksHeld ==
  ASSUME MajorsPlaced, MinorsPlaced, BlocksHeld, NEW p \in DOMAIN held,
         NEW m, m = MinorOf(p), NEW a \in DOMAIN majors, m \in MinorsIn(a),
         majors[a].usage - minors[m].size - MinorSize \in Nat, Freed(a, m),
         held' = [q \in DOMAIN held \ {p} |-> held[q]]
  PROVE  BlocksHeld'
<1>1. DOMAIN held' = DOMAIN held \ {p} /\ \A q \in DOMAIN held' : held'[q] = held[q]
  OBVIOUS
<1>2. \A q \in DOMAIN held' : MinorOf(q)' = MinorOf(q)
  BY <1>1 DEF MinorOf
<1>3. /\ DOMAIN minors = {MinorOf(q) : q \in DOMAIN held}
      /\ \A q, r \in DOMAIN held : MinorOf(q) = MinorOf(r) => q = r
  BY DEF BlocksHeld
<1>4. DOMAIN minors' = DOMAIN minors \ {m}
  BY FreedMinor
<1>5. \A q \in DOMAIN held' : MinorOf(q) \in DOMAIN minors'
  BY <1>1, <1>3, <1>4
<1>6. DOMAIN minors' = {MinorOf(q)' : q \in DOMAIN held'}
  <2>1. ASSUME NEW n \in DOMAIN minors' PROVE \E q \in DOMAIN held' : n = MinorOf(q)'
    <3>1. PICK q \in DOMAIN held : n = MinorOf(q)
      BY <1>3, <1>4
    <3>2. q \in DOMAIN held'
      BY <3>1, <1>1, <1>4
    <3> QED BY <3>1, <3>2, <1>2
  <2>2. ASSUME NEW q \in DOMAIN held' PROVE MinorOf(q)' \in DOMAIN minors'
    BY <1>2, <1>5
  <2> QED BY <2>1, <2>2
<1>7. ASSUME NEW q \in DOMAIN held'
      PROVE  /\ q \in Nat \ {0} /\ q % Alignment = 0
             /\ held'[q] \in AlignInfo .. AlignInfo + Alignment - 1
             /\ q + minors'[MinorOf(q)'].req <= End(MinorOf(q))'
             /\ \A r \in DOMAIN held' : MinorOf(q)' = MinorOf(r)' => q = r
  <2>1. /\ q \in Nat \ {0} /\ q % Alignment = 0
        /\ held[q] \in AlignInfo .. AlignInfo + Alignment - 1
        /\ q + minors[MinorOf(q)].req <= End(MinorOf(q))
    BY <1>1 DEF BlocksHeld
  <2>2. MinorOf(q)' = MinorOf(q)
    BY <1>2
  <2>3. /\ minors'[MinorOf(q)].req = minors[MinorOf(q)].req
        /\ minors'[MinorOf(q)].size = minors[MinorOf(q)].size
    BY <1>5, FreedMinorOld
  <2>4. End(MinorOf(q))' = End(MinorOf(q))
    BY <2>2, <2>3 DEF End
  <2>5. \A r \in DOMAIN held' : MinorOf(q)' = MinorOf(r)' => q = r
    BY <1>1, <1>2, <1>3
  <2> QED BY <2>1, <2>2, <2>3, <2>4, <2>5, <1>1
<1> QED BY <1>6, <1>7 DEF BlocksHeld

LEMMA FreeCounted ==
  ASSUME MajorsPlaced, MinorsPlaced, Counted, NEW a \in DOMAIN majors, NEW m \in MinorsIn(a),
         majors[a].usage - minors[m].size - MinorSize \in Nat, Freed(a, m)
  PROVE  Counted'
<1>1. \A b : MinorsIn(b)' = MinorsIn(b) \ {m}
  BY FreeMinorsPlaced
<1>2. /\ m \in DOMAIN minors /\ minors[m].block = a /\ minors[m].size \in Nat
      /\ DOMAIN minors' = DOMAIN minors \ {m}
  BY InMajor, MinorFacts, FreedMinor
<1>3. \A n \in DOMAIN minors' : minors'[n].size = minors[n].size
  BY FreedMinorOld
<1>4. \A n \in DOMAIN minors : n \in Addresses /\ minors[n].size \in Nat
  BY MinorFacts DEF MinorsPlaced
<1>5. ASSUME NEW b \in DOMAIN majors'
      PROVE  majors'[b].usage = MajorSize + Sum(Bytes(b)')
  <2>1. CASE b = a
    <3>1. Bytes(b)' = Others(a, m)
      BY <2>1, <1>1, <1>3 DEF Bytes, Others, MinorsIn
    <3>2. Sum(Bytes(a)) = Sum(Others(a, m)) + minors[m].size + MinorSize /\ Sum(Others(a, m)) \in Nat
      BY OthersSum
    <3>3. majors[a].usage = MajorSize + Sum(Bytes(a))
      BY DEF Counted
    <3>4. majors'[b].usage = majors[a].usage - minors[m].size - MinorSize
      BY <2>1, FreedMajor
    <3>5. majors'[b].usage = MajorSize + Sum(Others(a, m))
      BY <3>2, <3>3, <3>4, <1>2, Sizing
    <3> QED BY <3>1, <3>5
  <2>2. CASE b # a
    <3>1. b \in DOMAIN majors /\ majors'[b].usage = majors[b].usage
      BY <2>2, FreedMajor
    <3>2. m \notin MinorsIn(b)
      BY <2>2, <1>2 DEF MinorsIn
    <3>3. Bytes(b)' = Bytes(b)
      BY <3>2, <1>1, <1>3 DEF Bytes, MinorsIn
    <3>4. majors[b].usage = MajorSize + Sum(Bytes(b))
      BY <3>1 DEF Counted
    <3> QED BY <3>1, <3>3, <3>4
  <2> QED BY <2>1, <2>2
<1>6. l_inuse' = Sum([n \in DOMAIN minors' |-> minors'[n].size])
  <2> DEFINE f == [n \in DOMAIN minors' |-> minors'[n].size]
             g == [n \in DOMAIN minors |-> minors[n].size]
  <2>1. DOMAIN g = DOMAIN f \cup {m} /\ g[m] = minors[m].size /\ m \notin DOMAIN f
    BY <1>2
  <2>2. \A n \in DOMAIN f : g[n] = f[n] /\ f[n] \in Int
    BY <1>2, <1>3, <1>4
  <2>3. DOMAIN f \subseteq Addresses /\ m \in Addresses
    BY <1>2, <1>4
  <2>4. l_inuse = Sum(g) /\ l_inuse' = l_inuse - minors[m].size
    BY DEF Counted, Freed
  <2> HIDE DEF f, g
  <2>5. g[m] \in Int
    BY <2>1, <1>2
  <2>6. Sum(g) = Sum(f) + g[m] /\ Sum(f) \in Int
    BY <2>1, <2>2, <2>3, <2>5, SumGains
  <2>7. l_inuse' = Sum(f)
    BY <2>1, <2>4, <2>6, <1>2
  <2> QED BY <2>7 DEF f
<1>7. l_allocated' = Sum([b \in DOMAIN majors' |-> SizeOf(b)'])
  <2> DEFINE f == [b \in DOMAIN majors' |-> SizeOf(b)']
             g == [b \in DOMAIN majors |-> SizeOf(b)]
  <2>1. \A b \in DOMAIN majors' : b \in DOMAIN majors /\ SizeOf(b)' = SizeOf(b)
    BY FreedMajor
  <2>2. \A b \in DOMAIN majors : SizeOf(b) \in Nat /\ b \in Addresses
    <3> TAKE b \in DOMAIN majors
    <3>1. b \in Nat /\ SizeOf(b) \in Nat /\ b + SizeOf(b) < WordSize
      BY MajorFacts
    <3> QED BY <3>1, Sizing DEF Addresses
  <2>3. l_allocated = Sum(g)
    BY DEF Counted
  <2>4. CASE GivesBack(a)
    <3>1. DOMAIN majors' = DOMAIN majors \ {a} /\ l_allocated' = l_allocated - SizeOf(a)
      BY <2>4 DEF GivesBack, Unlink
    <3>2. DOMAIN g = DOMAIN f \cup {a} /\ g[a] = SizeOf(a) /\ a \notin DOMAIN f
      BY <3>1
    <3>3. \A b \in DOMAIN f : g[b] = f[b] /\ f[b] \in Int
      BY <2>1, <2>2
    <3>4. DOMAIN f \subseteq Addresses /\ a \in Addresses
      BY <2>1, <2>2
    <3>5. SizeOf(a) \in Nat
      BY <2>2
    <3> HIDE DEF f, g
    <3>6. Sum(g) = Sum(f) + g[a] /\ Sum(f) \in Int
      BY <3>2, <3>3, <3>4, <3>5, SumGains
    <3>7. l_allocated' = Sum(f)
      BY <3>1, <3>2, <3>5, <3>6, <2>3
    <3> QED BY <3>7 DEF f
  <2>5. CASE \E left, head : Shrinks(a, left, head)
    <3>1. DOMAIN majors' = DOMAIN majors /\ l_allocated' = l_allocated
      BY <2>5 DEF Shrinks
    <3>2. f = g
      BY <3>1, <2>1
    <3> QED BY <3>1, <3>2, <2>3
  <2> QED BY <2>4, <2>5 DEF Freed
<1> QED BY <1>5, <1>6, <1>7 DEF Counted

(* All of it: a kfree leaves the heap in order.                            *)
LEMMA FreeKeeps ==
  ASSUME IInv, pc \in {"idle", "copy"}, NEW p \in DOMAIN held, Free(p),
         pc' = "idle", call' = NoCall
  PROVE  IInv'
<1>1. /\ MajorsPlaced /\ MajorsListed /\ MinorsPlaced /\ MinorsListed /\ FirstsListed
      /\ BlocksHeld /\ Counted /\ CallInv
  BY DEF IInv
<1>2. PICK m : m = MinorOf(p)
  OBVIOUS
<1>3. PICK a : a = minors[m].block
  OBVIOUS
<1>4. /\ m \in DOMAIN minors /\ a \in DOMAIN majors /\ m \in MinorsIn(a)
      /\ majors[a].usage - minors[m].size - MinorSize \in Nat
      /\ Freed(a, m)
  BY <1>1, <1>2, <1>3, FreeFacts
<1>5. MajorsPlaced' /\ MinorsPlaced' /\ MinorsListed' /\ Counted'
  BY <1>1, <1>4, FreeMajorsPlaced, FreeMinorsPlaced, FreeMinorsListed, FreeCounted
<1>6. MajorsListed'
  BY <1>1, <1>4, FreeMajorsListed
<1>7. /\ FirstsListed'
      /\ \A b \in DOMAIN majors' : majors'[b].first = NULL => majors[b].first = NULL /\ b # a
  BY <1>1, <1>4, FreeFirstsListed
<1>8. held' = [q \in DOMAIN held \ {p} |-> held[q]]
  BY DEF Free
<1>9. BlocksHeld'
  BY <1>1, <1>2, <1>4, <1>8, FreeBlocksHeld
<1>10. \A b \in DOMAIN majors' : majors'[b].first # NULL
  <2>1. \A b \in DOMAIN majors' : b \in DOMAIN majors
    BY <1>1, <1>4, FreedMajor
  <2>2. \A b \in DOMAIN majors : majors[b].first # NULL
    BY <1>1 DEF CallInv
  <2> QED BY <2>1, <2>2, <1>7
<1>11. l_bestBet' \in DOMAIN majors' \cup {NULL}
  <2>1. l_bestBet \in DOMAIN majors \cup {NULL}
    BY <1>1 DEF CallInv
  <2>2. CASE GivesBack(a)
    BY <2>1, <2>2 DEF GivesBack, BestBetWithout, Unlink
  <2>3. CASE \E left, head : Shrinks(a, left, head)
    BY <2>1, <2>3, <1>4 DEF Shrinks
  <2> QED BY <2>2, <2>3, <1>4 DEF Freed
<1>12. CallInv'
  <2>1. call'.maj = NULL /\ call'.old = NULL /\ call' \in Calls
    BY DEF NoCall, Calls, NULL
  <2> QED BY <2>1, <1>10, <1>11 DEF CallInv
<1> QED BY <1>5, <1>6, <1>7, <1>9, <1>12 DEF IInv

-----------------------------------------------------------------------------
(* The steps that leave the heap alone.                                    *)
SameHeap == UNCHANGED <<majors, minors, l_memRoot, l_allocated, l_inuse, held>>

LEMMA SameHeapKeeps ==
  ASSUME IInv, SameHeap
  PROVE  /\ MajorsPlaced' /\ MinorsPlaced' /\ MinorsListed' /\ FirstsListed'
         /\ BlocksHeld' /\ Counted'
         /\ \A ord : ListedBy(ord) => ListedBy(ord)'
<1> USE DEF SameHeap
<1>1. MajorsPlaced'
  BY DEF IInv, MajorsPlaced, MajorHeader, Addresses, SizeOf, PageAddresses
<1>2. MinorsPlaced'
  BY DEF IInv, MinorsPlaced, MinorHeader, Addresses, SizeOf, End, MinorsIn
<1>3. MinorsListed'
  BY DEF IInv, MinorsListed, MinorsIn
<1>4. FirstsListed'
  BY DEF IInv, FirstsListed, MinorsIn
<1>5. BlocksHeld'
  BY DEF IInv, BlocksHeld, MinorOf, End
<1>6. Counted'
  BY DEF IInv, Counted, Bytes, MinorsIn, SizeOf
<1>7. \A ord : ListedBy(ord) => ListedBy(ord)'
  BY DEF ListedBy
<1> QED BY <1>1, <1>2, <1>3, <1>4, <1>5, <1>6, <1>7

LEMMA SameHeapListed ==
  ASSUME IInv, SameHeap, pc' # "scan" \/ call'.started
  PROVE  MajorsListed'
<1>1. PICK ord \in [DOMAIN majors -> Nat] : ListedBy(ord)
  BY DEF IInv, MajorsListed
<1>2. ListedBy(ord)'
  BY <1>1, SameHeapKeeps
<1>3. PassedBy(ord)'
  BY DEF PassedBy
<1>4. ord \in [DOMAIN majors' -> Nat]
  BY DEF SameHeap
<1> QED BY <1>2, <1>3, <1>4 DEF MajorsListed

(* A new call.                                                             *)
LEMMA BeginKeeps ==
  ASSUME SizesFit, IInv, SameHeap, UNCHANGED l_bestBet, pc = "idle",
         NEW n \in Sizes, NEW old \in DOMAIN held \cup {NULL}, Begin(n, old)
  PROVE  IInv'
<1>1. /\ n \in Nat \ {0} /\ n + Alignment + AlignInfo \in 1 .. WordSize - 1
      /\ n + Alignment + AlignInfo + MajorSize + MinorSize < WordSize
  BY SizesAssumption, Sizing DEF SizesFit
<1>2. Wrap(n + Alignment + AlignInfo) = n + Alignment + AlignInfo
  BY <1>1, NoWrap
<1>3. Request(n) = n /\ SizeFor(n) = n + Alignment + AlignInfo
  BY <1>1, <1>2 DEF Request, SizeFor
<1>4. MajorsListed'
  BY SameHeapListed DEF Begin
<1>5. BlocksHeld /\ CallInv /\ MajorsPlaced /\ MinorsPlaced
  BY DEF IInv
<1>6. old \in Nat
  BY <1>5, HeldFacts DEF NULL
<1>7. /\ pc' = "start" /\ call' \in Calls /\ call'.maj = NULL /\ call'.old = old
      /\ call'.req = n /\ call'.size = n + Alignment + AlignInfo
  <2>1. call' = [size |-> n + Alignment + AlignInfo, req |-> n, maj |-> NULL, best |-> 0,
                 started |-> FALSE, old |-> old, ptr |-> NULL]
    BY <1>3 DEF Begin, NoCall
  <2>2. n + Alignment + AlignInfo \in Nat /\ n \in Nat /\ NULL \in Nat /\ 0 \in Nat
    BY <1>1, Sizing DEF NULL
  <2>3. call' \in Calls
    BY <2>1, <2>2, <1>6 DEF Calls
  <2>4. call'.maj = NULL /\ call'.old = old /\ call'.req = n
        /\ call'.size = n + Alignment + AlignInfo
    BY <2>1
  <2>5. pc' = "start"
    BY DEF Begin
  <2> QED BY <2>3, <2>4, <2>5
<1>8. CallInv'
  <2>1. \A a \in DOMAIN majors' : majors'[a].first # NULL
    BY <1>5 DEF CallInv, SameHeap
  <2>2. l_bestBet' \in DOMAIN majors' \cup {NULL} /\ call'.old \in DOMAIN held' \cup {NULL}
    BY <1>5, <1>7 DEF CallInv, SameHeap
  <2> QED BY <2>1, <2>2, <1>1, <1>7 DEF CallInv
<1> QED BY <1>4, <1>8, SameHeapKeeps DEF IInv

LEMMA KMallocStep ==
  ASSUME SizesFit, IInv, NEW n \in Sizes, KMalloc(n)
  PROVE  IInv'
BY BeginKeeps DEF KMalloc, SameHeap

LEMMA KReallocMoveStep ==
  ASSUME SizesFit, IInv, NEW p \in DOMAIN held, NEW n \in Sizes, KReallocMove(p, n)
  PROVE  IInv'
BY BeginKeeps DEF KReallocMove, SameHeap

(* A call that gets no memory.                                             *)
LEMMA RefusedKeeps ==
  ASSUME IInv, UNCHANGED <<majors, minors, l_memRoot, l_allocated, l_inuse>>,
         Return(NULL, 0), l_bestBet' \in DOMAIN majors \cup {NULL},
         \A a \in DOMAIN majors : majors[a].first # NULL
  PROVE  IInv'
<1>1. SameHeap
  BY DEF Return, SameHeap
<1>2. \/ call.old = NULL /\ pc' = "idle" /\ call' = NoCall
      \/ call.old # NULL /\ pc' = "copy" /\ call' = [call EXCEPT !.ptr = NULL]
  BY DEF Return
<1>3. MajorsListed'
  BY <1>1, <1>2, SameHeapListed
<1>4. /\ call \in Calls /\ call.maj \in DOMAIN majors \cup {NULL}
      /\ call.old \in DOMAIN held \cup {NULL}
  BY DEF IInv, CallInv
<1>5. \A a \in DOMAIN majors' : majors'[a].first # NULL
  OBVIOUS
<1>6. CallInv'
  <2>1. CASE call.old = NULL /\ pc' = "idle" /\ call' = NoCall
    <3>1. call'.maj = NULL /\ call'.old = NULL /\ call' \in Calls
      BY <2>1 DEF NoCall, Calls, NULL
    <3> QED BY <3>1, <2>1, <1>5 DEF CallInv
  <2>2. CASE call.old # NULL /\ pc' = "copy" /\ call' = [call EXCEPT !.ptr = NULL]
    <3>1. call'.maj = call.maj /\ call'.old = call.old /\ call' \in Calls
      BY <2>2, <1>4 DEF Calls, NULL
    <3> QED BY <3>1, <2>2, <1>1, <1>4, <1>5 DEF CallInv, SameHeap
  <2> QED BY <2>1, <2>2, <1>2
<1> QED BY <1>1, <1>3, <1>6, SameHeapKeeps DEF IInv

LEMMA FirstMajorRefusedStep ==
  ASSUME IInv, FirstMajorRefused
  PROVE  IInv'
<1>1. DOMAIN majors = {}
  BY DEF IInv, MajorsListed, ListedBy, FirstMajorRefused
<1>2. l_bestBet \in DOMAIN majors \cup {NULL}
  BY DEF IInv, CallInv
<1> QED BY <1>1, <1>2, RefusedKeeps DEF FirstMajorRefused

(* A turn that finds nothing has looked at a major with a block: one       *)
(* without any has been got for this call and has room for it.             *)
LEMMA TurnEndsInBlock ==
  ASSUME IInv, pc = "scan", Lacks \/ Full
  PROVE  \A a \in DOMAIN majors : majors[a].first # NULL
<1>1. /\ MajorsPlaced /\ MinorsPlaced /\ FirstsListed /\ Counted /\ CallInv
  BY DEF IInv
<1>2. PICK c \in DOMAIN majors : c = call.maj
  BY <1>1 DEF CallInv
<1>3. CallFits /\ call.size \in Nat
  BY <1>1 DEF CallInv, Calls, CallFits
<1> SUFFICES ASSUME NEW a \in DOMAIN majors, majors[a].first = NULL PROVE FALSE
  OBVIOUS
<1>4. a = c /\ SizeOf(c) >= MajorSize + MinorSize + call.size
  BY <1>1, <1>2 DEF CallInv
<1>5. First = NULL
  BY <1>2, <1>4 DEF First
<1>6. Lacks
  BY <1>5 DEF Full
<1>7. MinorsIn(c) = {}
  BY <1>1, <1>2, <1>5 DEF FirstsListed, First
<1>8. Sum(Bytes(c)) = 0
  <2>1. DOMAIN Bytes(c) = {}
    BY <1>7 DEF Bytes
  <2>2. \A n \in Nat : SumBelow(Bytes(c), n) = 0
    BY <2>1, SumOfNothing
  <2> QED BY <2>2, Sizing DEF Sum
<1>9. /\ majors[c].usage = MajorSize + Sum(Bytes(c)) /\ Unused(c) = SizeOf(c) - majors[c].usage
  BY <1>1, UsageFits
<1>10. SizeOf(c) \in Nat /\ Need = call.size + MinorSize
  BY <1>1, <1>3, MajorFacts, NeedIs
<1>11. ~(Unused(c) < Need)
  BY <1>3, <1>4, <1>8, <1>9, <1>10, Sizing
<1> QED BY <1>2, <1>6, <1>11 DEF Lacks

LEMMA RememberBest ==
  ASSUME IInv, pc = "scan", Remember
  PROVE  l_bestBet' \in DOMAIN majors \cup {NULL}
BY DEF IInv, CallInv, Remember

LEMMA GrowRefusedStep ==
  ASSUME IInv, GrowRefused
  PROVE  IInv'
<1>1. \A a \in DOMAIN majors : majors[a].first # NULL
  BY TurnEndsInBlock DEF GrowRefused, AtEnd
<1>2. l_bestBet' \in DOMAIN majors \cup {NULL}
  BY RememberBest DEF GrowRefused, AtEnd
<1> QED BY <1>1, <1>2, RefusedKeeps DEF GrowRefused

-----------------------------------------------------------------------------
(* The steps that put a block in a major.                                  *)
LEMMA LoopFacts ==
  ASSUME IInv, pc \in {"scan", "fresh"}
  PROVE  /\ MajorsPlaced /\ MinorsPlaced /\ MinorsListed /\ FirstsListed /\ Counted
         /\ call.maj \in DOMAIN majors /\ CallFits /\ l_bestBet \in DOMAIN majors \cup {NULL}
         /\ NULL \in Addresses
<1>1. NULL \in Addresses
  BY Sizing DEF NULL, Addresses
<1>2. CallInv
  BY DEF IInv
<1>3. call.size \in Nat
  BY <1>2 DEF CallInv, Calls
<1> QED BY <1>1, <1>2, <1>3 DEF IInv, CallInv, CallFits

LEMMA PlaceFirstStep ==
  ASSUME IInv, PlaceFirst
  PROVE  IInv'
<1>1. pc \in {"scan", "fresh"} /\ First = NULL /\ Place(call.maj + MajorSize, NULL, NULL)
  BY DEF PlaceFirst
<1>2. PICK c \in DOMAIN majors : c = call.maj
  BY <1>1, LoopFacts
<1>3. SizeOf(c) >= MajorSize + MinorSize + call.size
  BY <1>1, <1>2 DEF IInv, CallInv, First
<1>4. Slot(call.maj + MajorSize, NULL, NULL)
  BY <1>1, <1>2, <1>3, LoopFacts, SlotFirst
<1>5. l_bestBet' \in DOMAIN majors \cup {NULL}
  BY <1>1, LoopFacts, RememberBest DEF PlaceFirst
<1> QED BY <1>1, <1>4, <1>5, LoopFacts, PlaceKeeps

LEMMA PlaceInFrontStep ==
  ASSUME IInv, PlaceInFront
  PROVE  IInv'
<1>1. /\ pc = "scan" /\ First # NULL /\ GapInFront >= Need /\ Remember
      /\ Place(call.maj + MajorSize, NULL, First)
  BY DEF PlaceInFront
<1>2. PICK c \in DOMAIN majors : c = call.maj
  BY <1>1, LoopFacts
<1>3. Slot(call.maj + MajorSize, NULL, First)
  BY <1>1, <1>2, LoopFacts, SlotInFront
<1>4. First \in Addresses
  BY <1>1, LoopFacts DEF First, MajorsPlaced, MajorHeader
<1> QED BY <1>1, <1>3, <1>4, LoopFacts, RememberBest, PlaceKeeps

LEMMA PlaceBehindStep ==
  ASSUME IInv, PlaceBehind
  PROVE  IInv'
<1>1. pc = "scan"
  BY DEF PlaceBehind
<1>2. PICK k \in 0 .. Cardinality(DOMAIN minors) :
        /\ Chain[k] # NULL /\ GapBehind(Chain[k]) >= Need /\ Remember
        /\ Place(Chain[k] + MinorSize + minors[Chain[k]].size, Chain[k],
                 minors[Chain[k]].next)
  BY DEF PlaceBehind
<1>3. PICK c \in DOMAIN majors : c = call.maj
  BY <1>1, LoopFacts
<1>4. Chain[k] \in MinorsIn(c)
  <2>1. k \in Nat
    <3>1. IsFiniteSet(Addresses)
      BY FS_Interval, Sizing DEF Addresses
    <3>2. DOMAIN minors \subseteq Addresses
      BY <1>1, LoopFacts DEF MinorsPlaced
    <3>3. Cardinality(DOMAIN minors) \in Nat
      BY <3>1, <3>2, FS_Subset, FS_CardinalityType
    <3> QED BY <3>3
  <2>2. Chain[k] \in MinorsIn(c) \cup {NULL}
    BY <1>1, <1>3, <2>1, LoopFacts, ChainDef DEF ChainFrom
  <2> QED BY <1>2, <2>2
<1> DEFINE p == Chain[k]
           m == p + MinorSize + minors[p].size
<1>5. Slot(m, p, minors[p].next)
  <2> HIDE DEF p
  <2>1. p \in MinorsIn(c) /\ GapBehind(p) >= Need
    BY <1>2, <1>4 DEF p
  <2> QED BY <1>1, <1>3, <2>1, LoopFacts, SlotBehind
<1>6. Place(m, p, minors[p].next) /\ Remember
  BY <1>2
<1>7. p \in Addresses /\ minors[p].next \in Addresses
  <2> HIDE DEF p
  <2>1. p \in DOMAIN minors
    BY <1>4 DEF MinorsIn, p
  <2> QED BY <2>1, <1>1, LoopFacts DEF MinorsPlaced, MinorHeader
<1> HIDE DEF m, p
<1> QED BY <1>1, <1>5, <1>6, <1>7, RememberBest, PlaceKeeps


-----------------------------------------------------------------------------
(* The steps of the loop that put no block anywhere.                       *)
LEMMA CallMoves ==
  ASSUME call \in Calls, NEW x \in Nat, NEW y \in Nat, NEW z \in BOOLEAN,
         \/ call' = [call EXCEPT !.maj = x, !.best = y, !.started = z]
         \/ call' = [call EXCEPT !.maj = x, !.best = y] /\ z = call.started
  PROVE  /\ call' \in Calls /\ call'.maj = x /\ call'.started = z
         /\ call'.size = call.size /\ call'.req = call.req /\ call'.old = call.old
<1>1. CASE call' = [call EXCEPT !.maj = x, !.best = y, !.started = z]
  BY <1>1 DEF Calls
<1>2. CASE call' = [call EXCEPT !.maj = x, !.best = y] /\ z = call.started
  BY <1>2 DEF Calls
<1> QED BY <1>1, <1>2

LEMMA SameRoom ==
  ASSUME UNCHANGED minors, NEW b \in DOMAIN majors, majors'[b].pages = majors[b].pages,
         call'.size = call.size, HasRoom(b, Need)'
  PROVE  HasRoom(b, Need)
BY DEF HasRoom, Need, Wrap, SizeOf, MinorsIn, End

LEMMA BestIsNat == ASSUME IInv, pc = "scan" PROVE Best \in Nat
<1>1. call.best \in Nat
  BY DEF IInv, CallInv, Calls
<1>2. PICK c \in DOMAIN majors : c = call.maj
  BY LoopFacts
<1>3. SizeOf(c) \in Nat /\ majors[c].usage \in Nat
  BY LoopFacts, MajorFacts
<1>4. SizeOf(c) - majors[c].usage \in Int
  BY <1>3
<1>5. Unused(c) \in Nat
  BY <1>4, WrapNat, Sizing DEF Unused
<1> QED BY <1>1, <1>2, <1>5 DEF Best

LEMMA EnterLoopStep ==
  ASSUME IInv, EnterLoop
  PROVE  IInv'
<1> DEFINE best == IF l_bestBet = NULL THEN 0 ELSE Unused(l_bestBet)
           started == l_bestBet # NULL /\ best > Wrap(call.size + MinorSize)
           maj == IF started THEN l_bestBet ELSE l_memRoot
<1>1. /\ pc = "start" /\ pc' = "scan" /\ l_memRoot # NULL /\ SameHeap
      /\ l_bestBet' = l_bestBet
      /\ call' = [call EXCEPT !.maj = maj, !.best = best, !.started = started]
  BY DEF EnterLoop, SameHeap
<1>2. MajorsPlaced /\ CallInv /\ MajorsListed
  BY DEF IInv
<1>3. PICK ord \in [DOMAIN majors -> Nat] : ListedBy(ord)
  BY <1>2 DEF MajorsListed
<1>4. l_memRoot \in DOMAIN majors /\ \A b \in DOMAIN majors : ord[l_memRoot] <= ord[b]
  BY <1>1, <1>3 DEF ListedBy
<1>5. l_bestBet \in DOMAIN majors \cup {NULL} /\ call \in Calls
  BY <1>2 DEF CallInv
<1>6. best \in Nat
  <2>1. CASE l_bestBet = NULL
    BY <2>1
  <2>2. CASE l_bestBet # NULL
    <3>1. l_bestBet \in DOMAIN majors
      BY <1>5, <2>2
    <3>2. SizeOf(l_bestBet) - majors[l_bestBet].usage \in Int
      BY <1>2, <3>1, MajorFacts
    <3> QED BY <2>2, <3>2, WrapNat, Sizing DEF Unused
  <2> QED BY <2>1, <2>2
<1>7. started \in BOOLEAN /\ (started => l_bestBet # NULL)
  OBVIOUS
<1> HIDE DEF best, started
<1>8. maj \in DOMAIN majors /\ (~started => maj = l_memRoot)
  BY <1>4, <1>5, <1>7
<1>9. maj \in Nat
  BY <1>2, <1>8, MajorFacts
<1> HIDE DEF maj
<1>10. /\ call' \in Calls /\ call'.maj = maj /\ call'.started = started
       /\ call'.size = call.size /\ call'.req = call.req /\ call'.old = call.old
  BY <1>1, <1>5, <1>6, <1>7, <1>9, CallMoves
<1>11. MajorsListed'
  <2>1. ListedBy(ord)'
    BY <1>1, <1>3, SameHeapKeeps
  <2>2. PassedBy(ord)'
    <3> SUFFICES ASSUME ~started, NEW b \in DOMAIN majors, ord[b] < ord[maj] PROVE FALSE
      BY <1>1, <1>10 DEF PassedBy, SameHeap
    <3> QED BY <1>4, <1>8
  <2>3. ord \in [DOMAIN majors' -> Nat]
    BY <1>1 DEF SameHeap
  <2> QED BY <2>1, <2>2, <2>3 DEF MajorsListed
<1>12. CallInv'
  <2>1. /\ call.req > 0 /\ call.size = call.req + Alignment + AlignInfo
        /\ call.size + MajorSize + MinorSize < WordSize
        /\ call.old \in DOMAIN held \cup {NULL}
    BY <1>1, <1>2 DEF CallInv
  <2>2. \A a \in DOMAIN majors : majors[a].first = NULL =>
          SizeOf(a) >= MajorSize + MinorSize + call.size /\ a = maj
    <3> TAKE a \in DOMAIN majors
    <3> HAVE majors[a].first = NULL
    <3>1. a = l_memRoot /\ l_bestBet = NULL /\ SizeOf(a) >= MajorSize + MinorSize + call.size
      BY <1>1, <1>2 DEF CallInv
    <3> QED BY <3>1, <1>7, <1>8
  <2>3. \A a \in DOMAIN majors' : majors'[a].first = NULL =>
          SizeOf(a)' >= MajorSize + MinorSize + call'.size /\ a = call'.maj
    BY <2>2, <1>1, <1>10 DEF SameHeap, SizeOf
  <2>4. DOMAIN majors' = DOMAIN majors /\ held' = held
    BY <1>1 DEF SameHeap
  <2> QED BY <2>1, <2>3, <2>4, <1>1, <1>5, <1>8, <1>10 DEF CallInv
<1> QED BY <1>1, <1>11, <1>12, SameHeapKeeps DEF IInv

(* Behind the major that a turn leaves, none has room for the block.       *)
LEMMA TurnPasses ==
  ASSUME IInv, pc = "scan", Lacks \/ Full, ~call.started,
         NEW ord \in [DOMAIN majors -> Nat], ListedBy(ord), PassedBy(ord),
         NEW b \in DOMAIN majors, ord[b] <= ord[call.maj]
  PROVE  ~HasRoom(b, Need)
<1>1. PICK c \in DOMAIN majors : c = call.maj
  BY LoopFacts
<1>2. CASE b = c
  BY <1>1, <1>2, LoopFacts, LacksNoRoom, FullNoRoom
<1>3. CASE b # c
  <2>1. ord[b] # ord[c]
    BY <1>3 DEF ListedBy
  <2>2. ord[b] < ord[call.maj]
    BY <1>1, <2>1
  <2> QED BY <2>2 DEF PassedBy
<1> QED BY <1>2, <1>3

LEMMA HopStep ==
  ASSUME IInv, Hop
  PROVE  IInv'
<1>1. /\ pc = "scan" /\ pc' = pc /\ (Lacks \/ Full) /\ majors[call.maj].next # NULL
      /\ Remember /\ SameHeap
      /\ call' = [call EXCEPT !.maj = majors[call.maj].next, !.best = Best]
  BY DEF Hop, SameHeap
<1>2. PICK c \in DOMAIN majors : c = call.maj
  BY <1>1, LoopFacts
<1>3. CallInv /\ MajorsPlaced /\ MajorsListed
  BY DEF IInv
<1>4. PICK ord \in [DOMAIN majors -> Nat] : ListedBy(ord) /\ PassedBy(ord)
  BY <1>3 DEF MajorsListed
<1>5. PICK x : x = majors[c].next
  OBVIOUS
<1>6. /\ x \in DOMAIN majors
      /\ \A b \in DOMAIN majors : ord[b] <= ord[c] \/ ord[x] <= ord[b]
  BY <1>1, <1>2, <1>4, <1>5 DEF ListedBy
<1>7. x \in Nat /\ Best \in Nat /\ call \in Calls /\ call.started \in BOOLEAN
  BY <1>1, <1>3, <1>6, MajorFacts, BestIsNat DEF CallInv, Calls
<1>8. /\ call' \in Calls /\ call'.maj = x /\ call'.started = call.started
      /\ call'.size = call.size /\ call'.req = call.req /\ call'.old = call.old
  <2>1. call' = [call EXCEPT !.maj = x, !.best = Best]
    BY <1>1, <1>2, <1>5
  <2> QED BY <2>1, <1>7, CallMoves
<1>9. MajorsListed'
  <2>1. ListedBy(ord)'
    BY <1>1, <1>4, SameHeapKeeps
  <2>2. PassedBy(ord)'
    <3> SUFFICES ASSUME ~call.started, NEW b \in DOMAIN majors, ord[b] < ord[x],
                        HasRoom(b, Need)'
                 PROVE  FALSE
      BY <1>1, <1>8 DEF PassedBy, SameHeap
    <3>1. HasRoom(b, Need)
      BY <1>1, <1>8, SameRoom DEF SameHeap
    <3>2. ord[b] <= ord[c]
      BY <1>6
    <3> QED BY <1>1, <1>2, <1>4, <3>1, <3>2, TurnPasses
  <2>3. ord \in [DOMAIN majors' -> Nat]
    BY <1>1 DEF SameHeap
  <2> QED BY <2>1, <2>2, <2>3 DEF MajorsListed
<1>10. CallInv'
  <2>1. /\ call.req > 0 /\ call.size = call.req + Alignment + AlignInfo
        /\ call.size + MajorSize + MinorSize < WordSize
        /\ call.old \in DOMAIN held \cup {NULL}
    BY <1>1, <1>3 DEF CallInv
  <2>2. \A a \in DOMAIN majors' : majors'[a].first # NULL
    BY <1>1, TurnEndsInBlock DEF SameHeap
  <2>3. DOMAIN majors' = DOMAIN majors /\ held' = held
    BY <1>1 DEF SameHeap
  <2>4. l_bestBet' \in DOMAIN majors \cup {NULL}
    BY <1>1, RememberBest
  <2> QED BY <2>1, <2>2, <2>3, <2>4, <1>1, <1>6, <1>8 DEF CallInv
<1> QED BY <1>1, <1>9, <1>10, SameHeapKeeps DEF IInv

LEMMA RestartStep ==
  ASSUME IInv, Restart
  PROVE  IInv'
<1>1. /\ pc = "scan" /\ pc' = pc /\ (Lacks \/ Full) /\ Remember /\ SameHeap
      /\ call' = [call EXCEPT !.maj = l_memRoot, !.best = Best, !.started = FALSE]
  BY DEF Restart, AtEnd, RestartOnce, SameHeap
<1>2. call.maj \in DOMAIN majors
  BY <1>1, LoopFacts
<1>3. CallInv /\ MajorsPlaced /\ MajorsListed
  BY DEF IInv
<1>4. PICK ord \in [DOMAIN majors -> Nat] : ListedBy(ord)
  BY <1>3 DEF MajorsListed
<1>5. l_memRoot \in DOMAIN majors /\ \A b \in DOMAIN majors : ord[l_memRoot] <= ord[b]
  BY <1>2, <1>4 DEF ListedBy
<1>6. l_memRoot \in Nat /\ Best \in Nat /\ call \in Calls
  BY <1>1, <1>3, <1>5, MajorFacts, BestIsNat DEF CallInv
<1>7. /\ call' \in Calls /\ call'.maj = l_memRoot /\ call'.started = FALSE
      /\ call'.size = call.size /\ call'.req = call.req /\ call'.old = call.old
  BY <1>1, <1>6, CallMoves
<1>8. MajorsListed'
  <2>1. ListedBy(ord)'
    BY <1>1, <1>4, SameHeapKeeps
  <2>2. PassedBy(ord)'
    <3> SUFFICES ASSUME NEW b \in DOMAIN majors, ord[b] < ord[l_memRoot] PROVE FALSE
      BY <1>1, <1>7 DEF PassedBy, SameHeap
    <3> QED BY <1>5
  <2>3. ord \in [DOMAIN majors' -> Nat]
    BY <1>1 DEF SameHeap
  <2> QED BY <2>1, <2>2, <2>3 DEF MajorsListed
<1>9. CallInv'
  <2>1. /\ call.req > 0 /\ call.size = call.req + Alignment + AlignInfo
        /\ call.size + MajorSize + MinorSize < WordSize
        /\ call.old \in DOMAIN held \cup {NULL}
    BY <1>1, <1>3 DEF CallInv
  <2>2. \A a \in DOMAIN majors' : majors'[a].first # NULL
    BY <1>1, TurnEndsInBlock DEF SameHeap
  <2>3. DOMAIN majors' = DOMAIN majors /\ held' = held
    BY <1>1 DEF SameHeap
  <2>4. l_bestBet' \in DOMAIN majors \cup {NULL}
    BY <1>1, RememberBest
  <2> QED BY <2>1, <2>2, <2>3, <2>4, <1>1, <1>5, <1>7 DEF CallInv
<1> QED BY <1>1, <1>8, <1>9, SameHeapKeeps DEF IInv


-----------------------------------------------------------------------------
(* The steps that get a new major from the system.                         *)
LEMMA NewPageKeeps ==
  ASSUME MajorsPlaced, MinorsPlaced, MinorsListed, FirstsListed, BlocksHeld, Counted, CallFits,
         NEW a \in PageAddresses, NEW prev \in DOMAIN majors \cup {NULL}, NewPage(a, prev),
         UNCHANGED <<minors, l_inuse, held>>
  PROVE  /\ MajorsPlaced' /\ MinorsPlaced' /\ MinorsListed' /\ FirstsListed'
         /\ BlocksHeld' /\ Counted'
<1>1. MajorsPlaced'
  BY NewPagePlaced
<1>2. MinorsPlaced' /\ MinorsListed' /\ FirstsListed'
  BY NewPageMinors
<1>3. Counted'
  BY NewPageCounted
<1>4. BlocksHeld'
  BY DEF BlocksHeld, MinorOf, End
<1> QED BY <1>1, <1>2, <1>3, <1>4

LEMMA NewPageEmpty ==
  ASSUME MajorsPlaced, CallFits,
         NEW a \in PageAddresses, NEW prev \in DOMAIN majors \cup {NULL}, NewPage(a, prev)
  PROVE  /\ a \in DOMAIN majors' /\ DOMAIN majors' = DOMAIN majors \cup {a}
         /\ a \in Nat \ {0} /\ a \notin DOMAIN majors /\ majors'[a].first = NULL
         /\ SizeOf(a)' >= MajorSize + MinorSize + call.size
<1>1. /\ a \in Nat \ {0} /\ a \notin DOMAIN majors /\ DOMAIN majors' = DOMAIN majors \cup {a}
      /\ majors'[a] = NewMajor(call.size, prev)
      /\ PagesFor(call.size) * PageSize \in Nat
      /\ call.size + MajorSize + MinorSize <= PagesFor(call.size) * PageSize
  BY NewPageFacts
<1>2. majors'[a].first = NULL /\ majors'[a].pages = PagesFor(call.size)
  BY <1>1 DEF NewMajor
<1>3. SizeOf(a)' = PagesFor(call.size) * PageSize
  BY <1>2 DEF SizeOf
<1>4. SizeOf(a)' >= MajorSize + MinorSize + call.size
  BY <1>1, <1>3, Sizing DEF CallFits
<1> QED BY <1>1, <1>2, <1>4

LEMMA FirstMajorStep ==
  ASSUME IInv, FirstMajor
  PROVE  IInv'
<1>1. /\ pc = "start" /\ l_memRoot = NULL
      /\ UNCHANGED <<minors, l_bestBet, l_inuse, held, pc, call>>
  BY DEF FirstMajor
<1>2. PICK a \in PageAddresses : NewPage(a, NULL) /\ l_memRoot' = a
  BY DEF FirstMajor
<1>3. /\ MajorsPlaced /\ MinorsPlaced /\ MinorsListed /\ FirstsListed
      /\ BlocksHeld /\ Counted /\ CallInv /\ MajorsListed
  BY DEF IInv
<1>4. CallFits
  BY <1>1, <1>3 DEF CallInv, Calls, CallFits
<1>5. PICK ord \in [DOMAIN majors -> Nat] : ListedBy(ord)
  BY <1>3 DEF MajorsListed
<1>6. DOMAIN majors = {}
  BY <1>1, <1>5 DEF ListedBy
<1>7. MajorsListed'
  <2>1. PICK o \in [DOMAIN majors' -> Nat] : ListedBy(o)'
    BY <1>1, <1>2, <1>3, <1>4, <1>5, NewPageListed
  <2>2. PassedBy(o)'
    BY <1>1 DEF PassedBy
  <2> QED BY <2>1, <2>2 DEF MajorsListed
<1>8. /\ a \in DOMAIN majors' /\ DOMAIN majors' = DOMAIN majors \cup {a}
      /\ SizeOf(a)' >= MajorSize + MinorSize + call.size
  BY <1>2, <1>3, <1>4, NewPageEmpty
<1>9. CallInv'
  <2>1. \A b \in DOMAIN majors' : majors'[b].first = NULL =>
          b = l_memRoot' /\ SizeOf(b)' >= MajorSize + MinorSize + call.size
    BY <1>2, <1>6, <1>8
  <2>2. l_bestBet = NULL /\ call.maj = NULL
    BY <1>3, <1>6 DEF CallInv
  <2>3. /\ call.req > 0 /\ call.size = call.req + Alignment + AlignInfo
        /\ call.size + MajorSize + MinorSize < WordSize
        /\ call.old \in DOMAIN held \cup {NULL} /\ call \in Calls
    BY <1>1, <1>3 DEF CallInv
  <2> QED BY <2>1, <2>2, <2>3, <1>1 DEF CallInv
<1>10. /\ MajorsPlaced' /\ MinorsPlaced' /\ MinorsListed' /\ FirstsListed'
       /\ BlocksHeld' /\ Counted'
  BY <1>1, <1>2, <1>3, <1>4, NewPageKeeps
<1> QED BY <1>7, <1>9, <1>10 DEF IInv

LEMMA GrowStep ==
  ASSUME IInv, Grow
  PROVE  IInv'
<1>1. /\ pc = "scan" /\ (Lacks \/ Full) /\ majors[call.maj].next = NULL /\ ~call.started
      /\ Remember /\ pc' = (IF Lacks THEN "fresh" ELSE "scan")
      /\ UNCHANGED <<minors, l_memRoot, l_inuse, held>>
  BY DEF Grow, AtEnd, MayGrow
<1>2. PICK a \in PageAddresses :
        NewPage(a, call.maj) /\ call' = [call EXCEPT !.maj = a, !.best = Best]
  BY DEF Grow
<1>3. PICK c \in DOMAIN majors : c = call.maj
  BY <1>1, LoopFacts
<1>4. /\ MajorsPlaced /\ MinorsPlaced /\ MinorsListed /\ FirstsListed
      /\ BlocksHeld /\ Counted /\ CallInv /\ MajorsListed
  BY DEF IInv
<1>5. CallFits /\ c # NULL
  BY <1>1, <1>4, LoopFacts, MajorFacts
<1>6. PICK ord \in [DOMAIN majors -> Nat] : ListedBy(ord) /\ PassedBy(ord)
  BY <1>4 DEF MajorsListed
<1>7. /\ a \in DOMAIN majors' /\ DOMAIN majors' = DOMAIN majors \cup {a}
      /\ a \in Nat \ {0} /\ a \notin DOMAIN majors /\ majors'[a].first = NULL
      /\ SizeOf(a)' >= MajorSize + MinorSize + call.size
  BY <1>2, <1>3, <1>4, <1>5, NewPageEmpty
<1>8. /\ call' \in Calls /\ call'.maj = a /\ call'.started = call.started
      /\ call'.size = call.size /\ call'.req = call.req /\ call'.old = call.old
  <2>1. a \in Nat /\ Best \in Nat /\ call \in Calls /\ call.started \in BOOLEAN
    BY <1>1, <1>4, <1>7, BestIsNat DEF CallInv, Calls
  <2> QED BY <2>1, <1>2, CallMoves
<1>9. \A b \in DOMAIN majors : majors'[b].pages = majors[b].pages
                               /\ majors'[b].first = majors[b].first
  BY <1>2, <1>3, <1>4, <1>5, NewPageOld
<1>10. MajorsListed'
  <2>1. PICK o \in [DOMAIN majors' -> Nat] :
          /\ ListedBy(o)'
          /\ \A b \in DOMAIN majors : o[b] = ord[b] /\ o[b] < o[a]
    BY <1>1, <1>2, <1>3, <1>4, <1>5, <1>6, NewPageListed
  <2>2. PassedBy(o)'
    <3> SUFFICES ASSUME NEW b \in DOMAIN majors', o[b] < o[a], HasRoom(b, Need)'
                 PROVE  FALSE
      BY <1>8 DEF PassedBy
    <3>1. b # a
      BY <2>1, <1>7
    <3>2. b \in DOMAIN majors
      BY <3>1, <1>7
    <3>3. HasRoom(b, Need)
      BY <1>1, <1>8, <1>9, <3>2, SameRoom
    <3>4. ord[b] <= ord[c]
      BY <1>1, <1>3, <1>6, <3>2 DEF ListedBy
    <3> QED BY <1>1, <1>3, <1>6, <3>2, <3>3, <3>4, TurnPasses
  <2> QED BY <2>1, <2>2 DEF MajorsListed
<1>11. CallInv'
  <2>1. /\ call.req > 0 /\ call.size = call.req + Alignment + AlignInfo
        /\ call.size + MajorSize + MinorSize < WordSize
        /\ call.old \in DOMAIN held \cup {NULL}
    BY <1>1, <1>4 DEF CallInv
  <2>2. \A b \in DOMAIN majors : majors[b].first # NULL
    BY <1>1, TurnEndsInBlock
  <2>3. \A b \in DOMAIN majors' : majors'[b].first = NULL => b = a
    BY <2>2, <1>7, <1>9
  <2>4. l_bestBet' \in DOMAIN majors' \cup {NULL}
    BY <1>1, <1>7, RememberBest
  <2>5. First' = NULL
    BY <1>7, <1>8 DEF First
  <2>6. pc' \in {"scan", "fresh"}
    BY <1>1
  <2> QED BY <2>1, <2>3, <2>4, <2>5, <2>6, <1>1, <1>7, <1>8 DEF CallInv
<1>12. /\ MajorsPlaced' /\ MinorsPlaced' /\ MinorsListed' /\ FirstsListed'
       /\ BlocksHeld' /\ Counted'
  BY <1>1, <1>2, <1>3, <1>4, <1>5, NewPageKeeps
<1> QED BY <1>10, <1>11, <1>12 DEF IInv

-----------------------------------------------------------------------------
(* kfree, and krealloc of a block that is large enough.                    *)
LEMMA KFreeStep ==
  ASSUME IInv, NEW p \in DOMAIN held, KFree(p)
  PROVE  IInv'
<1>1. pc' = "idle" /\ call' = NoCall
  BY DEF IInv, CallInv, KFree
<1> QED BY <1>1, FreeKeeps DEF KFree

LEMMA KReallocFreeStep ==
  ASSUME IInv, KReallocFree
  PROVE  IInv'
<1>1. call.old \in DOMAIN held
  BY DEF IInv, CallInv, KReallocFree
<1> QED BY <1>1, FreeKeeps DEF KReallocFree

LEMMA KReallocInPlaceStep ==
  ASSUME IInv, NEW p \in DOMAIN held, NEW n \in Sizes, KReallocInPlace(p, n)
  PROVE  IInv'
<1>1. /\ MajorsPlaced /\ MinorsPlaced /\ MinorsListed /\ FirstsListed
      /\ BlocksHeld /\ Counted /\ CallInv /\ MajorsListed
  BY DEF IInv
<1>2. PICK m \in DOMAIN minors : m = MinorOf(p)
  BY <1>1 DEF BlocksHeld
<1>3. /\ pc = "idle" /\ minors[m].req >= n /\ minors' = [minors EXCEPT ![m].req = n]
      /\ UNCHANGED <<majors, l_memRoot, l_bestBet, l_allocated, l_inuse, held, pc, call>>
  BY <1>2 DEF KReallocInPlace
<1>4. n \in Nat \ {0}
  BY SizesAssumption
<1>5. DOMAIN minors' = DOMAIN minors
  BY <1>3
<1>6. \A k \in DOMAIN minors :
        /\ minors[k] \in MinorHeader
        /\ minors'[k].prev = minors[k].prev /\ minors'[k].next = minors[k].next
        /\ minors'[k].block = minors[k].block /\ minors'[k].size = minors[k].size
        /\ minors'[k].req = (IF k = m THEN n ELSE minors[k].req)
        /\ minors'[k] \in MinorHeader
  <2> TAKE k \in DOMAIN minors
  <2>1. minors[k] \in MinorHeader
    BY <1>1 DEF MinorsPlaced
  <2>2. CASE k = m
    <3>1. minors'[k] = [minors[k] EXCEPT !.req = n]
      BY <1>3, <2>2
    <3> QED BY <3>1, <2>1, <2>2, <1>4 DEF MinorHeader
  <2>3. CASE k # m
    <3>1. minors'[k] = minors[k]
      BY <1>3, <2>3
    <3> QED BY <3>1, <2>1, <2>3
  <2> QED BY <2>2, <2>3
<1>7. MinorHeader' = MinorHeader
  BY <1>3 DEF MinorHeader, Addresses
<1>8. \A b : MinorsIn(b)' = MinorsIn(b)
  BY <1>5, <1>6 DEF MinorsIn
<1>9. \A k \in DOMAIN minors : End(k)' = End(k)
  BY <1>6 DEF End
<1>10. \A b : SizeOf(b)' = SizeOf(b)
  BY <1>3 DEF SizeOf
<1>11. MajorsPlaced'
  BY <1>1, <1>3 DEF MajorsPlaced, MajorHeader, Addresses, SizeOf, PageAddresses
<1>12. MajorsListed'
  <2>1. PICK ord \in [DOMAIN majors -> Nat] : ListedBy(ord)
    BY <1>1 DEF MajorsListed
  <2>2. ListedBy(ord)'
    BY <1>3, <2>1 DEF ListedBy
  <2>3. PassedBy(ord)'
    BY <1>3 DEF PassedBy
  <2> QED BY <1>3, <2>1, <2>2, <2>3 DEF MajorsListed
<1>13. MinorsPlaced'
  <2> SUFFICES ASSUME NEW k \in DOMAIN minors
               PROVE  /\ k \in Addresses /\ minors'[k] \in MinorHeader'
                      /\ k >= minors'[k].block + MajorSize
                      /\ End(k)' <= minors'[k].block + SizeOf(minors[k].block)'
                      /\ \A j \in MinorsIn(minors[k].block)' : k < j => End(k)' <= j
    BY <1>5 DEF MinorsPlaced, Addresses
  <2>1. PICK b : b = minors[k].block
    OBVIOUS
  <2>2. minors'[k].block = b /\ minors'[k] \in MinorHeader' /\ End(k)' = End(k)
    BY <2>1, <1>6, <1>7, <1>9
  <2>3. /\ k \in Addresses /\ k >= b + MajorSize
        /\ End(k) <= b + SizeOf(b)
        /\ \A j \in MinorsIn(b) : k < j => End(k) <= j
    BY <1>1, <2>1 DEF MinorsPlaced
  <2>4. SizeOf(minors[k].block)' = SizeOf(b) /\ MinorsIn(minors[k].block)' = MinorsIn(b)
    <3>1. SizeOf(minors[k].block)' = SizeOf(b)' /\ MinorsIn(minors[k].block)' = MinorsIn(b)'
      BY <2>2 DEF SizeOf, MinorsIn
    <3> QED BY <3>1, <1>8, <1>10
  <2> QED BY <2>2, <2>3, <2>4
<1>14. MinorsListed'
  <2> SUFFICES ASSUME NEW k \in DOMAIN minors
        PROVE  /\ IF minors'[k].next = NULL THEN \A j \in MinorsIn(minors[k].block)' : j <= k
                  ELSE /\ minors'[k].next \in MinorsIn(minors[k].block)' /\ k < minors'[k].next
                       /\ \A j \in MinorsIn(minors[k].block)' : j <= k \/ minors'[k].next <= j
               /\ IF minors'[k].prev = NULL THEN \A j \in MinorsIn(minors[k].block)' : k <= j
                  ELSE /\ minors'[k].prev \in MinorsIn(minors[k].block)' /\ minors'[k].prev < k
                       /\ \A j \in MinorsIn(minors[k].block)' : j <= minors'[k].prev \/ k <= j
    BY <1>5 DEF MinorsListed
  <2>1. PICK b : b = minors[k].block
    OBVIOUS
  <2>2. /\ minors'[k].block = b /\ minors'[k].next = minors[k].next
        /\ minors'[k].prev = minors[k].prev
    BY <2>1, <1>6
  <2>3. MinorsIn(minors[k].block)' = MinorsIn(b)
    <3>1. MinorsIn(minors[k].block)' = MinorsIn(b)'
      BY <2>2 DEF MinorsIn
    <3> QED BY <3>1, <1>8
  <2>4. /\ IF minors[k].next = NULL THEN \A j \in MinorsIn(b) : j <= k
           ELSE /\ minors[k].next \in MinorsIn(b) /\ k < minors[k].next
                /\ \A j \in MinorsIn(b) : j <= k \/ minors[k].next <= j
        /\ IF minors[k].prev = NULL THEN \A j \in MinorsIn(b) : k <= j
           ELSE /\ minors[k].prev \in MinorsIn(b) /\ minors[k].prev < k
                /\ \A j \in MinorsIn(b) : j <= minors[k].prev \/ k <= j
    BY <1>1, <2>1 DEF MinorsListed
  <2> QED BY <2>2, <2>3, <2>4
<1>15. FirstsListed'
  BY <1>1, <1>3, <1>8 DEF FirstsListed
<1>16. BlocksHeld'
  <2>1. \A q : MinorOf(q)' = MinorOf(q)
    BY <1>3 DEF MinorOf
  <2>2. \A q \in DOMAIN held : MinorOf(q) \in DOMAIN minors
    BY <1>1 DEF BlocksHeld
  <2>3. \A q \in DOMAIN held : q + minors'[MinorOf(q)].req <= End(MinorOf(q))'
    <3> TAKE q \in DOMAIN held
    <3>1. q \in Nat /\ q + minors[MinorOf(q)].req <= End(MinorOf(q))
      BY <1>1 DEF BlocksHeld
    <3>2. PICK k \in DOMAIN minors : k = MinorOf(q)
      BY <2>2
    <3>3. minors'[k].req <= minors[k].req /\ minors'[k].req \in Nat /\ minors[k].req \in Nat
      BY <1>3, <1>4, <1>6 DEF MinorHeader
    <3>4. End(k)' = End(k) /\ End(k) \in Nat
      BY <1>1, <1>9, MinorFacts
    <3>5. q + minors'[k].req <= End(k)
      BY <3>1, <3>2, <3>3, <3>4
    <3>6. End(MinorOf(q))' = End(k)'
      BY <2>1, <3>2 DEF End
    <3> QED BY <3>2, <3>4, <3>5, <3>6
  <2>4. held' = held
    BY <1>3
  <2>5. \A q \in DOMAIN held' : q + minors'[MinorOf(q)'].req <= End(MinorOf(q))'
    BY <2>1, <2>3, <2>4
  <2>6. DOMAIN minors' = {MinorOf(q)' : q \in DOMAIN held'}
    BY <1>1, <1>5, <2>1, <2>4 DEF BlocksHeld
  <2>7. \A q \in DOMAIN held' :
          /\ q \in Nat \ {0} /\ q % Alignment = 0
          /\ held'[q] \in AlignInfo .. AlignInfo + Alignment - 1
          /\ \A r \in DOMAIN held' : MinorOf(q)' = MinorOf(r)' => q = r
    BY <1>1, <2>1, <2>4 DEF BlocksHeld
  <2> QED BY <2>5, <2>6, <2>7 DEF BlocksHeld
<1>17. Counted'
  <2>1. \A b : Bytes(b)' = Bytes(b)
    BY <1>6, <1>8 DEF Bytes, MinorsIn
  <2>2. [k \in DOMAIN minors' |-> minors'[k].size] = [k \in DOMAIN minors |-> minors[k].size]
    BY <1>5, <1>6
  <2>3. [b \in DOMAIN majors' |-> SizeOf(b)'] = [b \in DOMAIN majors |-> SizeOf(b)]
    BY <1>3, <1>10
  <2> QED BY <2>1, <2>2, <2>3, <1>1, <1>3 DEF Counted
<1>18. CallInv'
  BY <1>1, <1>3 DEF CallInv, Calls, First, SizeOf
<1> QED BY <1>11, <1>12, <1>13, <1>14, <1>15, <1>16, <1>17, <1>18 DEF IInv


-----------------------------------------------------------------------------
(* The invariant holds.                                                    *)
LEMMA InitHolds == Init => IInv
<1> SUFFICES ASSUME Init PROVE IInv
  OBVIOUS
<1>1. /\ DOMAIN majors = {} /\ DOMAIN minors = {} /\ DOMAIN held = {}
      /\ l_memRoot = NULL /\ l_bestBet = NULL /\ pc = "idle" /\ call = NoCall
      /\ l_allocated = 0 /\ l_inuse = 0
  BY DEF Init
<1>2. MajorsPlaced /\ MinorsPlaced /\ MinorsListed /\ FirstsListed
  BY <1>1 DEF MajorsPlaced, MinorsPlaced, MinorsListed, FirstsListed
<1>3. MajorsListed
  <2> DEFINE ord == [a \in DOMAIN majors |-> 0]
  <2>1. ListedBy(ord) /\ PassedBy(ord)
    BY <1>1 DEF ListedBy, PassedBy
  <2>2. ord \in [DOMAIN majors -> Nat]
    OBVIOUS
  <2> QED BY <2>1, <2>2 DEF MajorsListed
<1>4. BlocksHeld
  BY <1>1 DEF BlocksHeld
<1>5. Counted
  <2>1. ASSUME NEW f, DOMAIN f = {} PROVE Sum(f) = 0
    BY <2>1, SumOfNothing, Sizing DEF Sum
  <2>2. Sum([m \in DOMAIN minors |-> minors[m].size]) = 0
    BY <1>1, <2>1
  <2>3. Sum([a \in DOMAIN majors |-> SizeOf(a)]) = 0
    BY <1>1, <2>1
  <2> QED BY <1>1, <2>2, <2>3 DEF Counted
<1>6. CallInv
  <2>1. call \in Calls /\ call.maj = NULL /\ call.old = NULL
    BY <1>1 DEF NoCall, Calls, NULL
  <2> QED BY <1>1, <2>1 DEF CallInv
<1> QED BY <1>2, <1>3, <1>4, <1>5, <1>6 DEF IInv

LEMMA StutterStep ==
  ASSUME IInv, UNCHANGED vars
  PROVE  IInv'
<1>1. SameHeap /\ pc' = pc /\ call' = call /\ l_bestBet' = l_bestBet
  BY DEF vars, SameHeap
<1>2. MajorsListed'
  <2>1. PICK ord \in [DOMAIN majors -> Nat] : ListedBy(ord) /\ PassedBy(ord)
    BY DEF IInv, MajorsListed
  <2>2. ListedBy(ord)'
    BY <1>1, <2>1, SameHeapKeeps
  <2>3. PassedBy(ord)'
    BY <1>1, <2>1 DEF PassedBy, HasRoom, Need, Wrap, SizeOf, MinorsIn, End, SameHeap
  <2> QED BY <1>1, <2>1, <2>2, <2>3 DEF MajorsListed, SameHeap
<1>3. CallInv'
  BY <1>1 DEF IInv, CallInv, Calls, First, SizeOf, SameHeap
<1> QED BY <1>1, <1>2, <1>3, SameHeapKeeps DEF IInv

LEMMA NextKeeps ==
  ASSUME SizesFit, IInv, [Next]_vars
  PROVE  IInv'
<1>1. CASE UNCHANGED vars
  BY <1>1, StutterStep
<1>2. ASSUME NEW n \in Sizes, KMalloc(n) PROVE IInv'
  BY <1>2, KMallocStep
<1>3. CASE FirstMajor
  BY <1>3, FirstMajorStep
<1>4. CASE FirstMajorRefused
  BY <1>4, FirstMajorRefusedStep
<1>5. CASE EnterLoop
  BY <1>5, EnterLoopStep
<1>6. CASE PlaceFirst
  BY <1>6, PlaceFirstStep
<1>7. CASE PlaceInFront
  BY <1>7, PlaceInFrontStep
<1>8. CASE PlaceBehind
  BY <1>8, PlaceBehindStep
<1>9. CASE Hop
  BY <1>9, HopStep
<1>10. CASE Restart
  BY <1>10, RestartStep
<1>11. CASE Grow
  BY <1>11, GrowStep
<1>12. CASE GrowRefused
  BY <1>12, GrowRefusedStep
<1>13. ASSUME NEW p \in DOMAIN held, KFree(p) PROVE IInv'
  BY <1>13, KFreeStep
<1>14. ASSUME NEW p \in DOMAIN held, NEW n \in Sizes, KReallocInPlace(p, n) PROVE IInv'
  BY <1>14, KReallocInPlaceStep
<1>15. ASSUME NEW p \in DOMAIN held, NEW n \in Sizes, KReallocMove(p, n) PROVE IInv'
  BY <1>15, KReallocMoveStep
<1>16. CASE KReallocFree
  BY <1>16, KReallocFreeStep
<1> QED
  BY <1>1, <1>2, <1>3, <1>4, <1>5, <1>6, <1>7, <1>8, <1>9, <1>10, <1>11, <1>12, <1>13,
     <1>14, <1>15, <1>16
  DEF Next

(* In every reachable state of the heap the majors and the minors lie      *)
(* apart from each other and in order, every minor belongs to a pointer    *)
(* that is held, and the counters are the sums over the lists, whatever    *)
(* the sizes of the pages, the headers and the requests are, as long as no *)
(* request is so large that its size wraps.                                *)
THEOREM LiballocIInv ==
  ASSUME SizesFit
  PROVE  Spec => []IInv
<1>1. Init => IInv
  BY InitHolds
<1>2. IInv /\ [Next]_vars => IInv'
  BY NextKeeps
<1> QED BY <1>1, <1>2, PTL DEF Spec

-----------------------------------------------------------------------------
(* Headers that have an order are linked as lists.                         *)
LEMMA OrderIsLinked ==
  ASSUME NEW S, NEW f, NEW head, NEW ord \in [S -> Nat], NULL \notin S,
         head = NULL <=> S = {},
         head # NULL => head \in S /\ \A y \in S : ord[head] <= ord[y],
         \A x, y \in S : ord[x] = ord[y] => x = y,
         \A x \in S : IF f[x].next = NULL THEN \A y \in S : ord[y] <= ord[x]
                      ELSE /\ f[x].next \in S /\ ord[x] < ord[f[x].next]
                           /\ \A y \in S : ord[y] <= ord[x] \/ ord[f[x].next] <= ord[y],
         \A x \in S : IF f[x].prev = NULL THEN \A y \in S : ord[x] <= ord[y]
                      ELSE /\ f[x].prev \in S /\ ord[f[x].prev] < ord[x]
                           /\ \A y \in S : ord[y] <= ord[f[x].prev] \/ ord[x] <= ord[y]
  PROVE  Linked(f, S, head)
<1>1. ASSUME NEW x \in S PROVE (f[x].prev = NULL) = (x = head)
  <2>1. head \in S /\ \A y \in S : ord[head] <= ord[y]
    OBVIOUS
  <2>2. ASSUME f[x].prev = NULL PROVE x = head
    <3>1. ord[x] <= ord[head] /\ ord[head] <= ord[x]
      BY <2>1, <2>2
    <3> QED BY <2>1, <3>1
  <2>3. ASSUME x = head, f[x].prev # NULL PROVE FALSE
    <3>1. f[x].prev \in S /\ ord[f[x].prev] < ord[x]
      BY <2>3
    <3> QED BY <2>1, <2>3, <3>1
  <2> QED BY <2>2, <2>3
<1>2. ASSUME NEW x \in S, f[x].prev # NULL PROVE f[x].prev \in S /\ f[f[x].prev].next = x
  <2>1. PICK y \in S : /\ y = f[x].prev /\ ord[y] < ord[x]
                       /\ \A z \in S : ord[z] <= ord[y] \/ ord[x] <= ord[z]
    BY <1>2
  <2>2. f[y].next # NULL
    BY <2>1
  <2>3. PICK z \in S : /\ z = f[y].next /\ ord[y] < ord[z]
                       /\ \A w \in S : ord[w] <= ord[y] \/ ord[z] <= ord[w]
    BY <2>2
  <2>4. ord[z] <= ord[x] /\ ord[x] <= ord[z]
    BY <2>1, <2>3
  <2>5. ord[z] = ord[x]
    BY <2>4
  <2>6. z = x
    BY <2>5
  <2> QED BY <2>1, <2>3, <2>6
<1>3. ASSUME NEW x \in S, f[x].next # NULL PROVE f[x].next \in S /\ f[f[x].next].prev = x
  <2>1. PICK y \in S : /\ y = f[x].next /\ ord[x] < ord[y]
                       /\ \A z \in S : ord[z] <= ord[x] \/ ord[y] <= ord[z]
    BY <1>3
  <2>2. f[y].prev # NULL
    BY <2>1
  <2>3. PICK z \in S : /\ z = f[y].prev /\ ord[z] < ord[y]
                       /\ \A w \in S : ord[w] <= ord[z] \/ ord[y] <= ord[w]
    BY <2>2
  <2>4. ord[z] <= ord[x] /\ ord[x] <= ord[z]
    BY <2>1, <2>3
  <2>5. ord[z] = ord[x]
    BY <2>4
  <2>6. z = x
    BY <2>5
  <2> QED BY <2>1, <2>3, <2>6
<1>4. Cardinality({x \in S : f[x].next = NULL}) <= 1
  <2> DEFINE L == {x \in S : f[x].next = NULL}
  <2>1. ASSUME NEW x \in L, NEW y \in L PROVE x = y
    <3>1. ord[x] <= ord[y] /\ ord[y] <= ord[x]
      OBVIOUS
    <3>2. ord[x] = ord[y]
      BY <3>1
    <3> QED BY <3>2
  <2> HIDE DEF L
  <2>2. Cardinality(L) <= 1
    <3>1. CASE L = {}
      BY <3>1, FS_EmptySet
    <3>2. CASE L # {}
      <4>1. PICK x : L = {x}
        BY <2>1, <3>2
      <4>2. Cardinality(L) = 1
        BY <4>1, FS_Singleton
      <4> QED BY <4>2
    <3> QED BY <3>1, <3>2
  <2> QED BY <2>2 DEF L
<1> QED BY <1>1, <1>2, <1>3, <1>4 DEF Linked

LEMMA MajorsLinked ==
  ASSUME MajorsPlaced, MajorsListed
  PROVE  Linked(majors, DOMAIN majors, l_memRoot)
<1>1. PICK ord \in [DOMAIN majors -> Nat] : ListedBy(ord)
  BY DEF MajorsListed
<1>2. NULL \notin DOMAIN majors
  BY NullIsNoHeader
<1> QED BY <1>1, <1>2, OrderIsLinked DEF ListedBy

LEMMA MinorsLinked ==
  ASSUME MajorsPlaced, MinorsPlaced, MinorsListed, FirstsListed, NEW a \in DOMAIN majors
  PROVE  Linked(minors, MinorsIn(a), majors[a].first)
<1> DEFINE S == MinorsIn(a)
           ord == [m \in S |-> m]
           head == majors[a].first
<1>1. \A m \in S : m \in Nat /\ m # NULL /\ minors[m].block = a /\ m \in DOMAIN minors
  BY InMajor, MinorFacts
<1>2. /\ head = NULL <=> S = {}
      /\ head # NULL => head \in S /\ \A y \in S : head <= y
  BY DEF FirstsListed
<1>3. \A x \in S : /\ IF minors[x].next = NULL THEN \A y \in S : y <= x
                      ELSE /\ minors[x].next \in S /\ x < minors[x].next
                           /\ \A y \in S : y <= x \/ minors[x].next <= y
                   /\ IF minors[x].prev = NULL THEN \A y \in S : x <= y
                      ELSE /\ minors[x].prev \in S /\ minors[x].prev < x
                           /\ \A y \in S : y <= minors[x].prev \/ x <= y
  BY <1>1 DEF MinorsListed
<1>4. ord \in [S -> Nat] /\ \A x \in S : ord[x] = x
  <2> HIDE DEF S
  <2> QED BY <1>1
<1> HIDE DEF S, ord, head
<1>5. Linked(minors, S, head)
  BY <1>1, <1>2, <1>3, <1>4, OrderIsLinked
<1> QED BY <1>5 DEF S, head

LEMMA Types ==
  ASSUME IInv
  PROVE  TypeOK
<1>1. /\ MajorsPlaced /\ MinorsPlaced /\ MajorsListed /\ BlocksHeld /\ Counted /\ CallInv
  BY DEF IInv
<1>2. \A a \in DOMAIN majors : SizeOf(a) \in Nat
  BY <1>1, MajorFacts
<1>3. \A m \in DOMAIN minors : minors[m].size \in Nat
  BY <1>1, MinorFacts
<1>4. l_allocated \in Nat
  <2> DEFINE f == [a \in DOMAIN majors |-> SizeOf(a)]
  <2>1. \A k \in DOMAIN f : f[k] \in Nat
    BY <1>2
  <2> HIDE DEF f
  <2>2. Sum(f) \in Nat
    BY <2>1, SumIsNat, Sizing DEF Sum
  <2> QED BY <2>2, <1>1 DEF Counted, f
<1>5. l_inuse \in Nat
  <2> DEFINE f == [m \in DOMAIN minors |-> minors[m].size]
  <2>1. \A k \in DOMAIN f : f[k] \in Nat
    BY <1>3
  <2> HIDE DEF f
  <2>2. Sum(f) \in Nat
    BY <2>1, SumIsNat, Sizing DEF Sum
  <2> QED BY <2>2, <1>1 DEF Counted, f
<1>6. /\ DOMAIN majors \subseteq PageAddresses
      /\ \A a \in DOMAIN majors :
           majors[a] \in [prev : Addresses, next : Addresses, pages : Nat,
                          usage : Nat, first : Addresses]
  BY <1>1 DEF MajorsPlaced, MajorHeader
<1>7. /\ DOMAIN minors \subseteq Addresses
      /\ \A m \in DOMAIN minors :
           minors[m] \in [prev : Addresses, next : Addresses, block : DOMAIN majors,
                          size : Nat, req : Nat \ {0}]
  BY <1>1 DEF MinorsPlaced, MinorHeader
<1>8. l_memRoot \in DOMAIN majors \cup {NULL}
  BY <1>1 DEF MajorsListed, ListedBy
<1>9. \A p \in DOMAIN held : held[p] \in AlignInfo .. AlignInfo + Alignment - 1
  BY <1>1 DEF BlocksHeld
<1>10. pc \in {"idle", "start", "scan", "fresh", "copy"}
  BY <1>1 DEF CallInv
<1> QED BY <1>4, <1>5, <1>6, <1>7, <1>8, <1>9, <1>10 DEF TypeOK

-----------------------------------------------------------------------------
(* No byte of the heap is part of two headers or blocks, and every block   *)
(* kmalloc hands out is aligned and has all the bytes asked for.           *)
THEOREM HeapNeverOverlaps ==
  ASSUME SizesFit
  PROVE  Spec => []NothingOverlaps
<1>1. IInv => NothingOverlaps
  <2> SUFFICES ASSUME IInv PROVE NothingOverlaps
    OBVIOUS
  <2>1. MajorsPlaced /\ MinorsPlaced /\ BlocksHeld
    BY DEF IInv
  <2>2. \A m \in DOMAIN minors : LET a == minors[m].block IN
          /\ m >= a + MajorSize
          /\ End(m) <= a + SizeOf(a)
          /\ \A n \in MinorsIn(a) : m < n => End(m) <= n
    BY <2>1 DEF MinorsPlaced
  <2>3. ASSUME NEW p \in DOMAIN held
        PROVE  LET m == MinorOf(p) IN
                 /\ m \in DOMAIN minors
                 /\ p % Alignment = 0
                 /\ p - AlignInfo >= m + MinorSize
                 /\ p + minors[m].req <= End(m)
                 /\ \A q \in DOMAIN held : p # q => MinorOf(q) # m
    <3>1. /\ p \in Nat /\ held[p] \in AlignInfo .. AlignInfo + Alignment - 1
          /\ p % Alignment = 0 /\ MinorOf(p) \in DOMAIN minors
          /\ p + minors[MinorOf(p)].req <= End(MinorOf(p))
          /\ \A q \in DOMAIN held : p # q => MinorOf(q) # MinorOf(p)
      BY <2>1 DEF BlocksHeld
    <3>2. p - AlignInfo >= MinorOf(p) + MinorSize
      BY <3>1, Sizing DEF MinorOf
    <3> QED BY <3>1, <3>2
  <2> QED BY <2>2, <2>3 DEF NothingOverlaps
<1> QED BY <1>1, LiballocIInv, PTL

(* The lists of the heap are whole and every counter agrees with them.     *)
THEOREM HeapIsSound ==
  ASSUME SizesFit
  PROVE  Spec => []HeapSound
<1>1. IInv => HeapSound
  <2> SUFFICES ASSUME IInv PROVE HeapSound
    OBVIOUS
  <2>1. /\ MajorsPlaced /\ MajorsListed /\ MinorsPlaced /\ MinorsListed /\ FirstsListed
        /\ BlocksHeld /\ Counted /\ CallInv
    BY DEF IInv
  <2>2. TypeOK
    BY Types
  <2>3. /\ Linked(majors, DOMAIN majors, l_memRoot)
        /\ \A a \in DOMAIN majors : Linked(minors, MinorsIn(a), majors[a].first)
    BY <2>1, MajorsLinked, MinorsLinked
  <2>4. \A m \in DOMAIN minors : minors[m].next # NULL => m < minors[m].next
    BY <2>1 DEF MinorsListed
  <2>5. CountersAgree
    <3>1. \A a \in DOMAIN majors : majors[a].usage = MajorSize + Sum(Bytes(a))
      BY <2>1 DEF Counted
    <3>2. /\ l_inuse = Sum([m \in DOMAIN minors |-> minors[m].size])
          /\ l_allocated = Sum([a \in DOMAIN majors |-> SizeOf(a)])
      BY <2>1 DEF Counted
    <3>3. pc = "idle" => \A a \in DOMAIN majors : majors[a].first # NULL
      BY <2>1 DEF CallInv
    <3>4. DOMAIN minors = {MinorOf(p) : p \in DOMAIN held}
      BY <2>1 DEF BlocksHeld
    <3> QED BY <3>1, <3>2, <3>3, <3>4 DEF CountersAgree, Bytes
  <2> QED BY <2>2, <2>3, <2>4, <2>5 DEF HeapSound, ListsSound
<1> QED BY <1>1, LiballocIInv, PTL

(* Neither l_bestBet nor the major that a kmalloc looks at is ever one     *)
(* whose pages kfree has given back.                                       *)
THEOREM BestBetNeverDangles ==
  ASSUME SizesFit
  PROVE  Spec => []NoMajorDangles
<1>1. IInv => NoMajorDangles
  BY DEF IInv, CallInv, NoMajorDangles
<1> QED BY <1>1, LiballocIInv, PTL

(* Only these steps can add a major: no other one does.                    *)
LEMMA WhoGrows ==
  ASSUME [Next]_vars, DOMAIN majors' \ DOMAIN majors # {}
  PROVE  FirstMajor \/ Grow
<1>1. ASSUME NEW m, NEW prev, NEW next, Place(m, prev, next) PROVE DOMAIN majors' = DOMAIN majors
  BY <1>1 DEF Place
<1>2. ASSUME NEW p, Free(p) PROVE DOMAIN majors' \subseteq DOMAIN majors
  BY <1>2 DEF Free, Unlink
<1>3. /\ ~UNCHANGED vars
      /\ \A n \in Sizes : ~KMalloc(n)
      /\ ~FirstMajorRefused /\ ~EnterLoop /\ ~Hop /\ ~Restart /\ ~GrowRefused
      /\ \A p \in DOMAIN held, n \in Sizes : ~KReallocInPlace(p, n) /\ ~KReallocMove(p, n)
  BY DEF vars, KMalloc, FirstMajorRefused, EnterLoop, Hop, Restart, GrowRefused,
         KReallocInPlace, KReallocMove
<1>4. ~PlaceFirst /\ ~PlaceInFront /\ ~PlaceBehind
  BY <1>1 DEF PlaceFirst, PlaceInFront, PlaceBehind
<1>5. (\A p \in DOMAIN held : ~KFree(p)) /\ ~KReallocFree
  BY <1>2 DEF KFree, KReallocFree
<1> QED BY <1>3, <1>4, <1>5 DEF Next

(* kmalloc asks the system for pages only when no major has a gap large    *)
(* enough for the block.                                                   *)
THEOREM GrowsOnlyForNeed ==
  ASSUME SizesFit
  PROVE  Spec => GrowsOnlyWhenFull
<1>1. IInv /\ [Next]_vars =>
        [DOMAIN majors' \ DOMAIN majors # {} => \A a \in DOMAIN majors : ~HasRoom(a, Need)]_vars
  <2> SUFFICES ASSUME IInv, [Next]_vars, DOMAIN majors' \ DOMAIN majors # {},
                      NEW a \in DOMAIN majors
               PROVE  ~HasRoom(a, Need)
    OBVIOUS
  <2>1. PICK ord \in [DOMAIN majors -> Nat] : ListedBy(ord) /\ PassedBy(ord)
    BY DEF IInv, MajorsListed
  <2>2. CASE FirstMajor
    BY <2>1, <2>2 DEF FirstMajor, ListedBy
  <2>3. CASE Grow
    <3>1. /\ pc = "scan" /\ (Lacks \/ Full) /\ majors[call.maj].next = NULL
          /\ ~call.started
      BY <2>3 DEF Grow, AtEnd, MayGrow
    <3>2. PICK c \in DOMAIN majors : c = call.maj
      BY <3>1, LoopFacts
    <3>3. ord[a] <= ord[c]
      BY <2>1, <3>1, <3>2 DEF ListedBy
    <3> QED BY <2>1, <3>1, <3>2, <3>3, TurnPasses
  <2> QED BY <2>2, <2>3, WhoGrows
<1> QED BY <1>1, LiballocIInv, PTL DEF Spec, GrowsOnlyWhenFull

=============================================================================
