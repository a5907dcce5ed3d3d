---------------------------- MODULE MemoryProofs ----------------------------
(***************************************************************************)
(* Proofs about Memory, for every size of the address space, every set of  *)
(* usable frames and every initial content of the page tables; and about   *)
(* Boot, which leaves what Memory starts with.  The two modules share      *)
(* Regions: the bitmap and the region list.                                *)
(***************************************************************************)
EXTENDS Memory, Boot, TLAPS, FiniteSetTheorems, SequenceTheorems, WellFoundedInduction

(***************************************************************************)
(* The arithmetic behind RegionsPartitionHeap.  A region alloc_virtual can *)
(* meet lies in the heap, or is the one page past the end of the address   *)
(* space; any two of them are apart.                                       *)
(***************************************************************************)
InHeap(s) ==
  /\ Quarter <= m_rgns[s].base
  /\ 1 <= m_rgns[s].length
  /\ End(s) <= 2 * Quarter - 1

PastTheEnd(s) ==
  /\ m_rgns[s].type = "free"
  /\ m_rgns[s].base = PageCount
  /\ m_rgns[s].length = 1

RegionsPlaced == \A s \in HeapSlots : InHeap(s) \/ PastTheEnd(s)

RegionsApart ==
  \A s, t \in HeapSlots : s # t => \/ End(s) <= m_rgns[t].base
                                   \/ End(t) <= m_rgns[s].base

HeapCovered ==
  \A p \in Heap : \E s \in HeapSlots : m_rgns[s].base <= p /\ p < End(s)

(* Nobody touches the regions sysinit() has disabled.                      *)
DisabledAsBooted ==
  \A s \in Slots : m_rgns[s].type = "disabled" =>
    /\ s \in {0, 1, 3}
    /\ m_rgns[s].base = BootRegions[s].base
    /\ m_rgns[s].length = BootRegions[s].length

RgnInv ==
  /\ m_rgns \in [Slots -> Region]
  /\ RegionsPlaced
  /\ RegionsApart
  /\ HeapCovered
  /\ DisabledAsBooted

(* The region alloc_virtual settles on is free, large enough, and lies in  *)
(* the heap: a request of two pages or more never gets the region past the *)
(* end of the address space.                                               *)
LEMMA FitsInHeap ==
  ASSUME RgnInv, NEW r \in Slots, NEW n \in Requests, Fits(r, n)
  PROVE  /\ n \in Nat /\ n >= 2
         /\ m_rgns[r].base \in Nat
         /\ m_rgns[r].length \in Nat
         /\ m_rgns[r].type = "free"
         /\ m_rgns[r].length >= n
         /\ InHeap(r)
         /\ r \in HeapSlots
<1>1. n \in Nat /\ n >= 2
  BY RequestAssumption
<1>2. m_rgns[r].type = "free" /\ m_rgns[r].length >= n
  BY DEF Fits, FirstRegion
<1>3. r \in HeapSlots
  BY <1>2 DEF HeapSlots
<1>4. m_rgns[r] \in Region
  BY DEF RgnInv
<1>5. m_rgns[r].base \in Nat /\ m_rgns[r].length \in Nat
  BY <1>4 DEF Region
<1>6. InHeap(r)
  BY <1>1, <1>2, <1>3, <1>5 DEF RgnInv, RegionsPlaced, PastTheEnd
<1> QED
  BY <1>1, <1>2, <1>3, <1>5, <1>6

(* Splitting the region and marking it used keeps the regions in place and *)
(* apart.                                                                  *)
LEMMA TakeRegionKeepsRgnInv ==
  ASSUME RgnInv, NEW r \in Slots, NEW n \in Requests, Fits(r, n),
         TakeRegion(r, n)
  PROVE  /\ RgnInv'
         /\ m_rgns'[r].type = "used"
         /\ m_rgns'[r].base = m_rgns[r].base
         /\ m_rgns'[r].length = n
         /\ \A s \in Slots \ {r} : m_rgns[s].type = "used" =>
              m_rgns'[s] = m_rgns[s]
         /\ \A s \in Slots \ {r} : m_rgns'[s].type = "used" =>
              m_rgns'[s] = m_rgns[s]
<1> USE QuarterAssumption DEF PageCount
<1>1. /\ n \in Nat /\ n >= 2
      /\ m_rgns[r].base \in Nat
      /\ m_rgns[r].length \in Nat /\ m_rgns[r].length >= n
      /\ m_rgns[r].type = "free"
      /\ InHeap(r)
      /\ r \in HeapSlots
  BY FitsInHeap
<1>2. \A s \in Slots : m_rgns[s] \in Region
  BY DEF RgnInv
<1>3. CASE /\ ~MustSplit(r, n)
           /\ m_rgns' = [m_rgns EXCEPT ![r].type = "used"]
  <2>1. m_rgns' \in [Slots -> Region]
    BY <1>2, <1>3 DEF Region, RegionTypes, RgnInv
  <2>2. \A s \in Slots : /\ m_rgns'[s].base = m_rgns[s].base
                         /\ m_rgns'[s].length = m_rgns[s].length
                         /\ s # r => m_rgns'[s] = m_rgns[s]
    BY <1>2, <1>3 DEF Region, RgnInv
  <2>3. m_rgns'[r].type = "used"
    BY <1>2, <1>3 DEF Region, RgnInv
  <2>4. HeapSlots' = HeapSlots
    BY <1>1, <2>2, <2>3 DEF HeapSlots
  <2>5. RegionsPlaced'
    BY <1>1, <2>2, <2>4 DEF RgnInv, RegionsPlaced, InHeap, PastTheEnd, End, HeapSlots
  <2>6. RegionsApart'
    BY <2>2, <2>4 DEF RgnInv, RegionsApart, End, HeapSlots
  <2>7. HeapCovered'
    BY <2>2, <2>4 DEF RgnInv, HeapCovered, End, HeapSlots, Heap
  <2>8. DisabledAsBooted'
    BY <2>2, <2>3 DEF RgnInv, DisabledAsBooted, BootRegions, Rgn, NoRegion
  <2>9. m_rgns[r].length = n
    BY <1>1, <1>3 DEF MustSplit
  <2> QED
    BY <2>1, <2>2, <2>3, <2>5, <2>6, <2>7, <2>8, <2>9 DEF RgnInv
<1>4. CASE /\ MustSplit(r, n)
           /\ \E e \in Slots :
                /\ GetUnused(e)
                /\ m_rgns' = [m_rgns EXCEPT
                     ![e] = Rest(r, n),
                     ![r] = [type |-> "used", base |-> m_rgns[r].base, length |-> n,
                             next |-> e, prev |-> m_rgns[r].prev]]
  <2>1. PICK e \in Slots :
          /\ m_rgns[e].type = "none"
          /\ m_rgns' = [m_rgns EXCEPT
               ![e] = [type |-> "free", base |-> m_rgns[r].base + n,
                       length |-> m_rgns[r].length - n,
                       next |-> m_rgns[r].next, prev |-> r],
               ![r] = [type |-> "used", base |-> m_rgns[r].base, length |-> n,
                       next |-> e, prev |-> m_rgns[r].prev]]
    BY <1>4 DEF GetUnused, Rest
  <2>2. e # r
    BY <1>1, <2>1
  <2>3. m_rgns[r].length - n \in Nat \ {0}
    BY <1>1, <1>4 DEF MustSplit
  <2>4. m_rgns' \in [Slots -> Region]
    BY <1>1, <1>2, <2>1, <2>2, <2>3 DEF Region, RegionTypes, RgnInv
  <2>5. /\ m_rgns'[r].type = "used"
        /\ m_rgns'[r].base = m_rgns[r].base
        /\ m_rgns'[r].length = n
        /\ m_rgns'[e].type = "free"
        /\ m_rgns'[e].base = m_rgns[r].base + n
        /\ m_rgns'[e].length = m_rgns[r].length - n
        /\ \A s \in Slots \ {r, e} : m_rgns'[s] = m_rgns[s]
    BY <2>1, <2>2 DEF RgnInv
  <2>6. HeapSlots' = HeapSlots \cup {e}
    BY <1>1, <2>5 DEF HeapSlots
  <2>7. InHeap(r)' /\ InHeap(e)'
    BY <1>1, <2>3, <2>5 DEF InHeap, End
  <2>8. End(r)' = m_rgns'[e].base /\ End(e)' = End(r)
    BY <1>1, <2>3, <2>5 DEF End
  <2>9. RegionsPlaced'
    <3> SUFFICES ASSUME NEW s \in HeapSlots'
                 PROVE  InHeap(s)' \/ PastTheEnd(s)'
      BY DEF RegionsPlaced
    <3>1. CASE s \in {r, e}
      BY <2>7, <3>1
    <3>2. CASE s \notin {r, e}
      BY <2>5, <2>6, <3>2 DEF RgnInv, RegionsPlaced, InHeap, PastTheEnd, End, HeapSlots
    <3> QED
      BY <3>1, <3>2
  <2>10. RegionsApart'
    <3> SUFFICES ASSUME NEW s \in HeapSlots', NEW t \in HeapSlots', s # t
                 PROVE  \/ End(s)' <= m_rgns'[t].base
                        \/ End(t)' <= m_rgns'[s].base
      BY DEF RegionsApart
    <3>1. \A u \in HeapSlots \ {r} :
            /\ u # e
            /\ m_rgns'[u] = m_rgns[u]
            /\ m_rgns[u].base \in Nat /\ m_rgns[u].length \in Nat
            /\ End(u) <= m_rgns[r].base \/ End(r) <= m_rgns[u].base
      BY <1>1, <1>2, <2>1, <2>5 DEF HeapSlots, Region, RgnInv, RegionsApart
    <3>2. CASE s \in {r, e} /\ t \in {r, e}
      BY <1>1, <2>5, <2>8, <3>2
    <3>3. CASE s \in {r, e} /\ t \notin {r, e}
      <4>1. t \in HeapSlots \ {r}
        BY <2>6, <3>3
      <4>2. End(t)' = End(t)
        BY <3>1, <4>1 DEF End
      <4> QED
        BY <1>1, <2>3, <2>5, <2>8, <3>1, <3>3, <4>1, <4>2 DEF End
    <3>4. CASE s \notin {r, e} /\ t \in {r, e}
      <4>1. s \in HeapSlots \ {r}
        BY <2>6, <3>4
      <4>2. End(s)' = End(s)
        BY <3>1, <4>1 DEF End
      <4> QED
        BY <1>1, <2>3, <2>5, <2>8, <3>1, <3>4, <4>1, <4>2 DEF End
    <3>5. CASE s \notin {r, e} /\ t \notin {r, e}
      BY <2>6, <3>1, <3>5 DEF RgnInv, RegionsApart, End
    <3> QED
      BY <3>2, <3>3, <3>4, <3>5
  <2>11. HeapCovered'
    <3> SUFFICES ASSUME NEW p \in Heap
                 PROVE  \E s \in HeapSlots' : m_rgns'[s].base <= p /\ p < End(s)'
      BY DEF HeapCovered, Heap
    <3>1. PICK s \in HeapSlots : m_rgns[s].base <= p /\ p < End(s)
      BY DEF RgnInv, HeapCovered
    <3>2. CASE s # r
      <4>1. m_rgns'[s] = m_rgns[s]
        BY <2>1, <2>5, <3>2 DEF HeapSlots
      <4> QED
        BY <2>6, <3>1, <4>1 DEF End
    <3>3. CASE s = r
      <4>1. p \in Int /\ m_rgns[r].base + n \in Int
        BY <1>1 DEF Heap
      <4>2. CASE p < m_rgns[r].base + n
        BY <1>1, <2>5, <2>6, <2>8, <3>1, <3>3, <4>2
      <4>3. CASE m_rgns[r].base + n <= p
        BY <1>1, <2>5, <2>6, <2>8, <3>1, <3>3, <4>3
      <4> QED
        BY <4>1, <4>2, <4>3
    <3> QED
      BY <3>2, <3>3
  <2>12. DisabledAsBooted'
    <3> SUFFICES ASSUME NEW s \in Slots, m_rgns'[s].type = "disabled"
                 PROVE  /\ s \in {0, 1, 3}
                        /\ m_rgns'[s].base = BootRegions[s].base
                        /\ m_rgns'[s].length = BootRegions[s].length
      BY DEF DisabledAsBooted, BootRegions, Rgn, NoRegion
    <3>1. s \notin {r, e}
      BY <2>5
    <3> QED
      BY <2>5, <3>1 DEF RgnInv, DisabledAsBooted
  <2> QED
    BY <2>1, <2>4, <2>5, <2>9, <2>10, <2>11, <2>12 DEF RgnInv
<1> QED
  BY <1>3, <1>4 DEF TakeRegion

(* Freeing a region only turns a used region into a free one.              *)
LEMMA FreeKeepsRgnInv ==
  ASSUME RgnInv, NEW r \in Slots, m_rgns[r].type = "used",
         m_rgns' = [m_rgns EXCEPT ![r].type = "free"]
  PROVE  /\ RgnInv'
         /\ m_rgns'[r].type = "free"
         /\ \A s \in Slots : /\ m_rgns'[s].base = m_rgns[s].base
                             /\ m_rgns'[s].length = m_rgns[s].length
                             /\ s # r => m_rgns'[s] = m_rgns[s]
<1>1. \A s \in Slots : m_rgns[s] \in Region
  BY DEF RgnInv
<1>2. m_rgns' \in [Slots -> Region]
  BY <1>1 DEF Region, RegionTypes, RgnInv
<1>3. m_rgns'[r].type = "free"
  BY <1>1 DEF Region, RgnInv
<1>4. \A s \in Slots : /\ m_rgns'[s].base = m_rgns[s].base
                       /\ m_rgns'[s].length = m_rgns[s].length
                       /\ s # r => m_rgns'[s] = m_rgns[s]
  BY <1>1 DEF Region, RgnInv
<1>5. HeapSlots' = HeapSlots
  BY <1>3, <1>4 DEF HeapSlots
<1>6. RegionsPlaced'
  BY <1>3, <1>4, <1>5 DEF RgnInv, RegionsPlaced, InHeap, PastTheEnd, End, HeapSlots
<1>7. RegionsApart'
  BY <1>4, <1>5 DEF RgnInv, RegionsApart, End, HeapSlots
<1>8. HeapCovered'
  BY <1>4, <1>5 DEF RgnInv, HeapCovered, End, HeapSlots, Heap
<1>9. DisabledAsBooted'
  BY <1>3, <1>4 DEF RgnInv, DisabledAsBooted, BootRegions, Rgn, NoRegion
<1> QED
  BY <1>2, <1>3, <1>4, <1>6, <1>7, <1>8, <1>9 DEF RgnInv

(* The regions sysinit() leaves behind satisfy the invariant.              *)
LEMMA InitRgnInv ==
  ASSUME m_rgns = BootRegions
  PROVE  RgnInv /\ \A s \in Slots : m_rgns[s].type # "used"
<1> USE QuarterAssumption DEF PageCount
<1>1. \A s \in Slots :
        /\ BootRegions[s] \in Region
        /\ BootRegions[s].type # "used"
        /\ BootRegions[s].type = "free" => s \in {2, 4}
        /\ BootRegions[s].type = "disabled" => s \in {0, 1, 3}
  BY DEF BootRegions, Rgn, NoRegion, Region, RegionTypes, Slots
<1>2. /\ 2 \in Slots /\ 4 \in Slots
      /\ BootRegions[2].type = "free"
      /\ BootRegions[2].base = Quarter /\ BootRegions[2].length = Quarter - 1
      /\ BootRegions[4].type = "free"
      /\ BootRegions[4].base = PageCount /\ BootRegions[4].length = 1
  BY DEF BootRegions, Rgn, NoRegion, Slots
<1>3. m_rgns \in [Slots -> Region]
  BY <1>1 DEF BootRegions, Rgn, NoRegion
<1>4. HeapSlots = {2, 4}
  BY <1>1, <1>2 DEF HeapSlots
<1>5. RegionsPlaced
  BY <1>2, <1>4 DEF RegionsPlaced, InHeap, PastTheEnd, End
<1>6. RegionsApart
  BY <1>2, <1>4 DEF RegionsApart, End
<1>7. HeapCovered
  BY <1>2, <1>4 DEF HeapCovered, End, Heap
<1>8. DisabledAsBooted
  BY <1>1 DEF DisabledAsBooted
<1> QED
  BY <1>1, <1>3, <1>5, <1>6, <1>7, <1>8 DEF RgnInv

-----------------------------------------------------------------------------
(* Two regions alloc_virtual can meet start at different pages and have no *)
(* page in common.                                                         *)
LEMMA RegionsDiffer ==
  ASSUME RgnInv, NEW s \in HeapSlots, NEW t \in HeapSlots, s # t
  PROVE  /\ m_rgns[s].base # m_rgns[t].base
         /\ PagesOf(s) \cap PagesOf(t) = {}
<1>1. \A u \in HeapSlots : /\ m_rgns[u].base \in Nat
                           /\ m_rgns[u].length \in Nat
                           /\ 1 <= m_rgns[u].length
  BY DEF RgnInv, RegionsPlaced, InHeap, PastTheEnd, HeapSlots, Region
<1>2. End(s) <= m_rgns[t].base \/ End(t) <= m_rgns[s].base
  BY DEF RgnInv, RegionsApart
<1> QED
  BY <1>1, <1>2 DEF PagesOf, End

(* A used region lies in the heap.                                         *)
LEMMA UsedInHeap ==
  ASSUME RgnInv, NEW s \in Slots, m_rgns[s].type = "used"
  PROVE  /\ s \in HeapSlots
         /\ PagesOf(s) \subseteq Heap
         /\ m_rgns[s].base \in Heap
         /\ m_rgns[s].base \in PagesOf(s)
<1>1. s \in HeapSlots
  BY DEF HeapSlots
<1>2. m_rgns[s].base \in Nat /\ m_rgns[s].length \in Nat
  BY DEF RgnInv, Region
<1>3. InHeap(s)
  BY <1>1 DEF RgnInv, RegionsPlaced, PastTheEnd
<1> QED
  BY <1>1, <1>2, <1>3, QuarterAssumption DEF InHeap, End, PagesOf, Heap

LEMMA HeapIsPages == Heap \subseteq Pages
BY QuarterAssumption DEF Heap, Pages, PageCount

(* The free frames are counted by a natural number.                        *)
LEMMA FreeFramesFinite ==
  ASSUME m_pages \subseteq Frames
  PROVE  Cardinality(m_pages) \in Nat
<1>1. IsFiniteSet(Frames)
  BY QuarterAssumption, FS_Interval DEF Frames, PageCount
<1>2. IsFiniteSet(m_pages)
  BY <1>1, FS_Subset
<1> QED
  BY <1>2, FS_CardinalityType

(* The frames map_page hands out one after the other are free, and no two  *)
(* are the same.                                                           *)
LEMMA FramesForDistinct ==
  ASSUME m_pages \subseteq Frames, NEW k \in Nat, NEW f \in FramesFor(k)
  PROVE  /\ f \in [0 .. k - 1 -> m_pages]
         /\ \A i, j \in 0 .. k - 1 : i # j => f[i] # f[j]
<1>1. f \in [0 .. k - 1 -> m_pages]
  BY DEF FramesFor
<1>2. \A i \in 0 .. k - 1 : f[i] \in Int
  <2>1. \A i \in 0 .. k - 1 : f[i] \in m_pages
    BY <1>1
  <2>2. Frames \subseteq Int
    BY DEF Frames
  <2> QED
    BY <2>1, <2>2
<1>3. \A i, j \in 0 .. k - 1 : i < j => f[i] < f[j]
  BY DEF FramesFor
<1> QED
  BY <1>1, <1>2, <1>3

-----------------------------------------------------------------------------
(***************************************************************************)
(* The inductive invariant.  That a block is backed by a region of its own *)
(* and that regions are apart is what keeps an allocation away from the    *)
(* pages of the blocks held.                                               *)
(***************************************************************************)
IInv == TypeOK /\ RgnInv /\ HeldBlocksBacked /\ TlbCoherent

(* What an allocation does to the slots that hold blocks: region r is new. *)
LEMMA TakenRegionIsNew ==
  ASSUME IInv, NEW r \in Slots, NEW n \in Requests, Fits(r, n), TakeRegion(r, n)
  PROVE  /\ r \notin HeldSlots
         /\ m_rgns[r].base \in Heap
         /\ m_rgns[r].base \notin held
         /\ m_rgns[r].base .. (m_rgns[r].base + n - 1) \subseteq Heap
         /\ PagesOf(r)' = m_rgns[r].base .. (m_rgns[r].base + n - 1)
         /\ \A s \in Slots : m_rgns[s].type = "used" =>
              /\ PagesOf(s)' = PagesOf(s)
              /\ PagesOf(s) \cap (m_rgns[r].base .. (m_rgns[r].base + n - 1)) = {}
         /\ held' = held \cup {m_rgns[r].base} => HeldSlots' = HeldSlots \cup {r}
         /\ held' = held => HeldSlots' = HeldSlots
<1> DEFINE b == m_rgns[r].base
<1>1. /\ n \in Nat /\ n >= 2 /\ b \in Nat
      /\ m_rgns[r].length \in Nat /\ m_rgns[r].length >= n
      /\ m_rgns[r].type = "free"
      /\ InHeap(r) /\ r \in HeapSlots
  BY FitsInHeap DEF IInv
<1>2. /\ m_rgns'[r].type = "used"
      /\ m_rgns'[r].base = b
      /\ m_rgns'[r].length = n
      /\ \A s \in Slots \ {r} : m_rgns[s].type = "used" => m_rgns'[s] = m_rgns[s]
      /\ \A s \in Slots \ {r} : m_rgns'[s].type = "used" => m_rgns'[s] = m_rgns[s]
  BY TakeRegionKeepsRgnInv DEF IInv
<1>3. r \notin HeldSlots
  BY <1>1 DEF HeldSlots
<1>4. b \in Heap /\ b .. (b + n - 1) \subseteq Heap
  BY <1>1, QuarterAssumption DEF InHeap, End, Heap
<1>5. b .. (b + n - 1) \subseteq PagesOf(r)
  BY <1>1 DEF PagesOf
<1>6. PagesOf(r)' = b .. (b + n - 1)
  BY <1>2 DEF PagesOf
<1>7. \A s \in Slots : m_rgns[s].type = "used" =>
        /\ s # r
        /\ m_rgns[s].base # b
        /\ PagesOf(s) \cap PagesOf(r) = {}
  BY <1>1, RegionsDiffer, UsedInHeap DEF IInv
<1>8. \A s \in Slots : m_rgns[s].type = "used" =>
        /\ PagesOf(s)' = PagesOf(s)
        /\ PagesOf(s) \cap (b .. (b + n - 1)) = {}
  BY <1>2, <1>5, <1>7 DEF PagesOf
<1>9. b \notin held
  BY <1>7 DEF IInv, HeldBlocksBacked, HeldSlots
<1>10. ASSUME held' = held \cup {b}
       PROVE  HeldSlots' = HeldSlots \cup {r}
  BY <1>2, <1>7, <1>10 DEF HeldSlots
<1>11. ASSUME held' = held
       PROVE  HeldSlots' = HeldSlots
  BY <1>2, <1>7, <1>9, <1>11 DEF HeldSlots
<1> QED
  BY <1>3, <1>4, <1>6, <1>8, <1>9, <1>10, <1>11

(* alloc_virtual that succeeds keeps the invariant, and leaves the page    *)
(* table entries of every used region alone.                               *)
LEMMA AllocVirtualKeepsIInv ==
  ASSUME IInv, NEW n \in Requests, AllocVirtual(n)
  PROVE  /\ IInv'
         /\ \A s \in Slots : m_rgns[s].type = "used" =>
              \A p \in PagesOf(s) : tables'[p] = tables[p]
<1>1. PICK r \in Slots : Fits(r, n) /\ TakeRegion(r, n) /\ AllocVirtual(n)!(r)
  BY DEF AllocVirtual
<1> DEFINE b == m_rgns[r].base
           B == b .. (b + n - 1)
<1>2. PICK f \in FramesFor(n) :
        /\ tables' = MapPages(b, n, f)
        /\ m_pages' = m_pages \ {f[i] : i \in 0 .. n - 1}
        /\ tlb' = FlushPages(B)
        /\ held' = held \cup {b}
        /\ botched' = botched
  BY <1>1
<1>3. n \in Nat /\ n >= 2 /\ b \in Nat
  BY <1>1, FitsInHeap DEF IInv
<1>4. f \in [0 .. n - 1 -> m_pages]
  BY <1>3, FramesForDistinct DEF IInv, TypeOK
<1>5. /\ r \notin HeldSlots
      /\ b \in Heap
      /\ B \subseteq Heap
      /\ PagesOf(r)' = B
      /\ \A s \in Slots : m_rgns[s].type = "used" =>
           PagesOf(s)' = PagesOf(s) /\ PagesOf(s) \cap B = {}
      /\ HeldSlots' = HeldSlots \cup {r}
  BY <1>1, <1>2, TakenRegionIsNew
<1>6. RgnInv'
  BY <1>1, TakeRegionKeepsRgnInv DEF IInv
<1>7. \A p \in Pages : tables'[p] = IF p \in B
                                    THEN [present |-> TRUE, address |-> f[p - b]]
                                    ELSE tables[p]
  BY <1>2 DEF MapPages
<1>8. \A p \in B : p - b \in 0 .. n - 1 /\ f[p - b] \in Frames
  BY <1>3, <1>4 DEF IInv, TypeOK
<1>9. TypeOK'
  <2>1. tables' \in [Pages -> PageTableEntry]
    BY <1>2, <1>7, <1>8 DEF MapPages, PageTableEntry, IInv, TypeOK
  <2> QED
    BY <1>2, <1>5, <1>6, <2>1 DEF IInv, TypeOK, RgnInv, FlushPages
<1>10. \A s \in Slots : m_rgns[s].type = "used" =>
         \A p \in PagesOf(s) : tables'[p] = tables[p]
  BY <1>5, <1>7, HeapIsPages, UsedInHeap DEF IInv
<1>11. HeldBlocksBacked'
  <2> SUFFICES ASSUME NEW a \in held'
               PROVE  \E s \in HeldSlots' : /\ m_rgns'[s].base = a
                                            /\ \A p \in PagesOf(s)' : tables'[p].present
    BY DEF HeldBlocksBacked
  <2>1. CASE a = b
    <3>1. m_rgns'[r].base = b
      BY <1>1, TakeRegionKeepsRgnInv DEF IInv
    <3>2. ASSUME NEW p \in B
          PROVE  tables'[p].present
      <4>1. tables'[p] = [present |-> TRUE, address |-> f[p - b]]
        BY <1>5, <1>7, HeapIsPages
      <4> QED
        BY <4>1
    <3> QED
      BY <1>5, <2>1, <3>1, <3>2
  <2>2. CASE a \in held
    <3>1. PICK s \in HeldSlots :
            m_rgns[s].base = a /\ \A p \in PagesOf(s) : tables[p].present
      BY <2>2 DEF IInv, HeldBlocksBacked
    <3>2. s \in Slots /\ s # r /\ m_rgns[s].type = "used"
      BY <1>5 DEF HeldSlots
    <3>3. m_rgns'[s] = m_rgns[s]
      BY <1>1, <3>2, TakeRegionKeepsRgnInv DEF IInv
    <3> QED
      BY <1>5, <1>10, <3>1, <3>2, <3>3
  <2> QED
    BY <1>2, <2>1, <2>2
<1>12. TlbCoherent'
  BY <1>2, <1>7 DEF IInv, TypeOK, TlbCoherent, FlushPages
<1> QED
  BY <1>6, <1>9, <1>10, <1>11, <1>12 DEF IInv

(* So does alloc_virtual when the frames run out.                          *)
LEMMA AllocOutOfFramesKeepsIInv ==
  ASSUME IInv, NEW n \in Requests, AllocOutOfFrames(n)
  PROVE  /\ IInv'
         /\ HeldSlots' = HeldSlots
         /\ \A s \in Slots : m_rgns[s].type = "used" =>
              /\ PagesOf(s)' = PagesOf(s)
              /\ \A p \in PagesOf(s) : tables'[p] = tables[p]
<1> DEFINE k == Cardinality(m_pages)
<1>1. PICK r \in Slots :
        LET b     == m_rgns[r].base
            stale == tables[b + k].address
        IN
        /\ Fits(r, n)
        /\ TakeRegion(r, n)
        /\ k < n
        /\ \/ /\ k = 0
              /\ UNCHANGED <<tables, m_pages, tlb, botched>>
           \/ /\ k > 0
              /\ \E f \in FramesFor(k) :
                   tables' = [MapPages(b, k, f) EXCEPT ![b + k].present = FALSE]
              /\ m_pages' = {stale}
              /\ tlb' = FlushPages((b .. (b + k - 1)) \cup {stale})
              /\ botched' = TRUE
        /\ held' = held
  BY DEF AllocOutOfFrames
<1> DEFINE b == m_rgns[r].base
           B == b .. (b + n - 1)
           K == b .. (b + k - 1)
           stale == tables[b + k].address
<1>2. n \in Nat /\ n >= 2 /\ b \in Nat
  BY <1>1, FitsInHeap DEF IInv
<1>3. k \in Nat /\ k < n
  BY <1>1, FreeFramesFinite DEF IInv, TypeOK
<1>4. /\ B \subseteq Heap
      /\ \A s \in Slots : m_rgns[s].type = "used" =>
           PagesOf(s)' = PagesOf(s) /\ PagesOf(s) \cap B = {}
      /\ HeldSlots' = HeldSlots
  BY <1>1, TakenRegionIsNew
<1>5. RgnInv'
  BY <1>1, TakeRegionKeepsRgnInv DEF IInv
<1>6. K \subseteq B /\ b + k \in B /\ b + k \in Pages /\ b + k \notin K
  BY <1>2, <1>3, <1>4, HeapIsPages
<1>7. held' = held
  BY <1>1
<1>8. /\ TypeOK'
      /\ TlbCoherent'
      /\ \A p \in Pages \ B : tables'[p] = tables[p]
  <2>1. CASE k = 0 /\ UNCHANGED <<tables, m_pages, tlb, botched>>
    BY <1>5, <1>7, <2>1 DEF IInv, TypeOK, RgnInv, TlbCoherent
  <2>2. CASE /\ k > 0
             /\ \E f \in FramesFor(k) :
                  tables' = [MapPages(b, k, f) EXCEPT ![b + k].present = FALSE]
             /\ m_pages' = {stale}
             /\ tlb' = FlushPages(K \cup {stale})
             /\ botched' = TRUE
    <3>1. PICK f \in FramesFor(k) :
            tables' = [MapPages(b, k, f) EXCEPT ![b + k].present = FALSE]
      BY <2>2
    <3>2. f \in [0 .. k - 1 -> m_pages]
      BY <1>3, FramesForDistinct DEF IInv, TypeOK
    <3>3. \A p \in K : p - b \in 0 .. k - 1 /\ f[p - b] \in Frames
      BY <1>2, <1>3, <3>2 DEF IInv, TypeOK
    <3>4. MapPages(b, k, f) \in [Pages -> PageTableEntry]
      BY <3>3 DEF MapPages, PageTableEntry, IInv, TypeOK
    <3>5. tables' \in [Pages -> PageTableEntry]
      BY <3>1, <3>4 DEF PageTableEntry
    <3>6. /\ tables'[b + k].present = FALSE
          /\ \A p \in Pages \ (K \cup {b + k}) : tables'[p] = tables[p]
      BY <1>6, <3>1, <3>4 DEF MapPages, PageTableEntry
    <3>7. stale \in Frames
      BY <1>6 DEF IInv, TypeOK, PageTableEntry
    <3>8. TypeOK'
      BY <1>5, <1>7, <2>2, <3>5, <3>7 DEF IInv, TypeOK, RgnInv, FlushPages
    <3>9. TlbCoherent'
      <4> SUFFICES ASSUME NEW t \in tlb', tables'[t[1]].present
                   PROVE  t[2] = tables'[t[1]].address
        BY DEF TlbCoherent
      <4>1. t \in tlb /\ t[1] \in Pages /\ t[1] \notin K
        BY <2>2 DEF FlushPages, IInv, TypeOK
      <4>2. tables'[t[1]] = tables[t[1]]
        BY <3>6, <4>1
      <4> QED
        BY <4>1, <4>2 DEF IInv, TlbCoherent
    <3> QED
      BY <1>6, <3>6, <3>8, <3>9
  <2> QED
    BY <1>1, <2>1, <2>2
<1>9. \A s \in Slots : m_rgns[s].type = "used" =>
        \A p \in PagesOf(s) : tables'[p] = tables[p]
  BY <1>4, <1>8, HeapIsPages, UsedInHeap DEF IInv
<1>10. HeldBlocksBacked'
  <2> SUFFICES ASSUME NEW a \in held
               PROVE  \E s \in HeldSlots' : /\ m_rgns'[s].base = a
                                            /\ \A p \in PagesOf(s)' : tables'[p].present
    BY <1>7 DEF HeldBlocksBacked
  <2>1. PICK s \in HeldSlots :
          m_rgns[s].base = a /\ \A p \in PagesOf(s) : tables[p].present
    BY DEF IInv, HeldBlocksBacked
  <2>2. s \in Slots /\ s # r /\ m_rgns[s].type = "used"
    BY <1>1, TakenRegionIsNew DEF HeldSlots
  <2>3. m_rgns'[s] = m_rgns[s]
    BY <1>1, <2>2, TakeRegionKeepsRgnInv DEF IInv
  <2> QED
    BY <1>4, <1>9, <2>1, <2>2, <2>3
<1> QED
  BY <1>4, <1>5, <1>8, <1>9, <1>10 DEF IInv

(* free_virtual keeps the invariant.  The used regions that stay are apart *)
(* from the one freed, and their page table entries are left alone.        *)
LEMMA FreeVirtualKeepsIInv ==
  ASSUME IInv, NEW a \in held, FreeVirtual(a)
  PROVE  /\ IInv'
         /\ \E r \in HeldSlots :
              /\ HeldSlots' = HeldSlots \ {r}
              /\ m_pages' = m_pages \cup {tables[p].address : p \in PagesOf(r)}
              /\ botched' = botched
              /\ \A s \in HeldSlots : PagesOf(s)' = PagesOf(s)
              /\ \A s \in HeldSlots \ {r} :
                   /\ PagesOf(s) \cap PagesOf(r) = {}
                   /\ \A p \in PagesOf(s) : tables'[p] = tables[p]
         /\ \A s \in Slots : (m_rgns[s].type = "used" /\ m_rgns[s].base # a) =>
              \A p \in PagesOf(s) : tables'[p] = tables[p]
<1>1. PICK r \in Slots :
        LET freed == {tables[p].address : p \in PagesOf(r)} IN
        /\ m_rgns[r].base = a
        /\ m_rgns[r].type = "used"
        /\ m_pages' = m_pages \cup freed
        /\ tables' = [p \in Pages |-> IF p \in PagesOf(r)
                                      THEN [tables[p] EXCEPT !.present = FALSE]
                                      ELSE tables[p]]
        /\ tlb' = FlushPages(freed)
        /\ m_rgns' = [m_rgns EXCEPT ![r].type = "free"]
        /\ held' = held \ {a}
        /\ botched' = botched
  BY DEF FreeVirtual, FirstRegion, FramesBehind, UnmapPages
<1>2. r \in HeldSlots /\ r \in HeapSlots /\ PagesOf(r) \subseteq Heap
  BY <1>1, UsedInHeap DEF IInv, HeldSlots
<1>3. /\ RgnInv'
      /\ m_rgns'[r].type = "free"
      /\ \A s \in Slots : /\ m_rgns'[s].base = m_rgns[s].base
                          /\ m_rgns'[s].length = m_rgns[s].length
                          /\ s # r => m_rgns'[s] = m_rgns[s]
  BY <1>1, FreeKeepsRgnInv DEF IInv
<1>4. \A s \in Slots : (m_rgns[s].type = "used" /\ s # r) =>
        m_rgns[s].base # a /\ PagesOf(s) \cap PagesOf(r) = {}
  BY <1>1, <1>2, RegionsDiffer, UsedInHeap DEF IInv
<1>5. HeldSlots' = HeldSlots \ {r}
  BY <1>1, <1>3, <1>4 DEF HeldSlots
<1>6. \A s \in Slots : PagesOf(s)' = PagesOf(s)
  BY <1>3 DEF PagesOf
<1>7. \A p \in Pages :
        /\ p \in PagesOf(r) => /\ tables'[p].present = FALSE
                               /\ tables'[p] \in PageTableEntry
        /\ p \notin PagesOf(r) => tables'[p] = tables[p]
  BY <1>1 DEF IInv, TypeOK, PageTableEntry
<1>8. TypeOK'
  <2>1. tables' \in [Pages -> PageTableEntry]
    BY <1>1, <1>7 DEF IInv, TypeOK
  <2>2. {tables[p].address : p \in PagesOf(r)} \subseteq Frames
    BY <1>2, HeapIsPages DEF IInv, TypeOK, PageTableEntry
  <2> QED
    BY <1>1, <1>3, <2>1, <2>2 DEF IInv, TypeOK, RgnInv, FlushPages
<1>9. \A s \in Slots : (m_rgns[s].type = "used" /\ s # r) =>
        \A p \in PagesOf(s) : tables'[p] = tables[p]
  BY <1>4, <1>7, HeapIsPages, UsedInHeap DEF IInv
<1>10. HeldBlocksBacked'
  <2> SUFFICES ASSUME NEW c \in held'
               PROVE  \E s \in HeldSlots' : /\ m_rgns'[s].base = c
                                            /\ \A p \in PagesOf(s)' : tables'[p].present
    BY DEF HeldBlocksBacked
  <2>1. PICK s \in HeldSlots :
          m_rgns[s].base = c /\ \A p \in PagesOf(s) : tables[p].present
    BY <1>1 DEF IInv, HeldBlocksBacked
  <2>2. s \in Slots /\ s # r /\ m_rgns[s].type = "used"
    BY <1>1, <2>1 DEF HeldSlots
  <2> QED
    BY <1>3, <1>5, <1>6, <1>9, <2>1, <2>2
<1>11. TlbCoherent'
  <2> SUFFICES ASSUME NEW t \in tlb', tables'[t[1]].present
               PROVE  t[2] = tables'[t[1]].address
    BY DEF TlbCoherent
  <2>1. t \in tlb /\ t[1] \in Pages
    BY <1>1 DEF FlushPages, IInv, TypeOK
  <2>2. tables'[t[1]] = tables[t[1]]
    BY <1>7, <2>1
  <2> QED
    BY <2>1, <2>2 DEF IInv, TlbCoherent
<1>12. \A s \in Slots : (m_rgns[s].type = "used" /\ m_rgns[s].base # a) =>
         \A p \in PagesOf(s) : tables'[p] = tables[p]
  BY <1>1, <1>9
<1>13. \A s \in HeldSlots \ {r} : /\ PagesOf(s) \cap PagesOf(r) = {}
                                  /\ \A p \in PagesOf(s) : tables'[p] = tables[p]
  BY <1>4, <1>9 DEF HeldSlots
<1>14. \A s \in HeldSlots : PagesOf(s)' = PagesOf(s)
  BY <1>6 DEF HeldSlots
<1> QED
  BY <1>1, <1>2, <1>3, <1>5, <1>8, <1>10, <1>11, <1>12, <1>13, <1>14 DEF IInv

(* What the CPU does to its TLB, and a stuttering step.                    *)
LEMMA TlbStepsKeepIInv ==
  ASSUME IInv,
         \/ \E p \in Pages : TlbFill(p)
         \/ \E t \in tlb : TlbEvict(t)
         \/ UNCHANGED vars
  PROVE  /\ IInv'
         /\ UNCHANGED <<m_pages, m_rgns, tables, held, botched>>
<1>1. UNCHANGED <<m_pages, m_rgns, tables, held, botched>>
  BY DEF TlbFill, TlbEvict, vars
<1>2. RgnInv' /\ HeldBlocksBacked'
  BY <1>1 DEF IInv, RgnInv, HeldBlocksBacked, HeldSlots, PagesOf, RegionsPlaced,
              RegionsApart, HeapCovered, DisabledAsBooted, HeapSlots, End, InHeap,
              PastTheEnd
<1>3. TypeOK' /\ TlbCoherent'
  <2>1. CASE \E p \in Pages : TlbFill(p)
    BY <1>1, <2>1 DEF TlbFill, IInv, TypeOK, TlbCoherent, PageTableEntry
  <2>2. CASE (\E t \in tlb : TlbEvict(t)) \/ UNCHANGED vars
    BY <1>1, <2>2 DEF TlbEvict, vars, IInv, TypeOK, TlbCoherent
  <2> QED
    BY <2>1, <2>2
<1> QED
  BY <1>1, <1>2, <1>3 DEF IInv

LEMMA InitIInv == Init => IInv
<1> SUFFICES ASSUME Init PROVE IInv
  OBVIOUS
<1>1. RgnInv
  BY InitRgnInv DEF Init
<1>2. TypeOK
  BY <1>1, UsableAssumption, TablesAssumption DEF Init, TypeOK, RgnInv
<1> QED
  BY <1>1, <1>2 DEF Init, IInv, HeldBlocksBacked, TlbCoherent

LEMMA NextKeepsIInv == IInv /\ [Next]_vars => IInv'
<1> SUFFICES ASSUME IInv, [Next]_vars PROVE IInv'
  OBVIOUS
<1>1. CASE \E n \in Requests : AllocVirtual(n)
  BY <1>1, AllocVirtualKeepsIInv
<1>2. CASE \E n \in Requests : AllocOutOfFrames(n)
  BY <1>2, AllocOutOfFramesKeepsIInv
<1>3. CASE \E n \in Requests : AllocNoRegion(n)
  BY <1>3, TlbStepsKeepIInv DEF AllocNoRegion
<1>4. CASE \E a \in held : FreeVirtual(a)
  BY <1>4, FreeVirtualKeepsIInv
<1>5. CASE \/ \E p \in Pages : TlbFill(p)
           \/ \E t \in tlb : TlbEvict(t)
           \/ UNCHANGED vars
  BY <1>5, TlbStepsKeepIInv
<1> QED
  BY <1>1, <1>2, <1>3, <1>4, <1>5 DEF Next

THEOREM InductiveInvariant == Spec => []IInv
BY InitIInv, NextKeepsIInv, PTL DEF Spec

-----------------------------------------------------------------------------
(* The arithmetic of RgnInv says what RegionsPartitionHeap asks.           *)
LEMMA RgnInvPartitions == RgnInv => RegionsPartitionHeap
<1> SUFFICES ASSUME RgnInv PROVE RegionsPartitionHeap
  OBVIOUS
<1> USE QuarterAssumption DEF PageCount
<1>1. \A s \in Slots : /\ m_rgns[s].base \in Nat
                       /\ m_rgns[s].length \in Nat
                       /\ m_rgns[s].type \in RegionTypes
  BY DEF RgnInv, Region
<1>2. ASSUME NEW p \in Heap
      PROVE  \E s \in HeapSlots : p \in PagesOf(s)
  <2>1. PICK s \in HeapSlots : m_rgns[s].base <= p /\ p < End(s)
    BY DEF RgnInv, HeapCovered
  <2> QED
    BY <1>1, <2>1 DEF PagesOf, End, Heap, HeapSlots
<1>3. \A s \in InUse : s \in HeapSlots \/ m_rgns[s].type = "disabled"
  BY <1>1 DEF InUse, HeapSlots, RegionTypes
<1>4. \A s \in Slots : m_rgns[s].type = "disabled" =>
        \/ s = 0 /\ PagesOf(s) = 0 .. Quarter - 2
        \/ s = 1 /\ PagesOf(s) = 2 * Quarter .. 3 * Quarter - 1
        \/ s = 3 /\ PagesOf(s) = 3 * Quarter .. 4 * Quarter - 2
  BY DEF RgnInv, DisabledAsBooted, BootRegions, Rgn, NoRegion, PagesOf
<1>5. \A s \in HeapSlots : \/ PagesOf(s) \subseteq Quarter .. 2 * Quarter - 2
                           \/ PagesOf(s) = {4 * Quarter}
  BY <1>1 DEF RgnInv, RegionsPlaced, InHeap, PastTheEnd, End, PagesOf, HeapSlots
<1>6. ASSUME NEW s \in InUse, NEW t \in InUse, s # t
      PROVE  PagesOf(s) \cap PagesOf(t) = {}
  <2>1. CASE s \in HeapSlots /\ t \in HeapSlots
    BY <1>6, <2>1, RegionsDiffer
  <2>2. CASE s \in HeapSlots /\ m_rgns[t].type = "disabled"
    BY <1>4, <1>5, <2>2 DEF InUse
  <2>3. CASE m_rgns[s].type = "disabled" /\ t \in HeapSlots
    BY <1>4, <1>5, <2>3 DEF InUse
  <2>4. CASE m_rgns[s].type = "disabled" /\ m_rgns[t].type = "disabled"
    BY <1>4, <1>6, <2>4 DEF InUse
  <2> QED
    BY <1>3, <2>1, <2>2, <2>3, <2>4
<1>7. \A s \in InUse : m_rgns[s].type = "used" => PagesOf(s) \subseteq Heap
  BY UsedInHeap DEF InUse
<1> QED
  BY <1>2, <1>6, <1>7 DEF RegionsPartitionHeap

(* The variables always have their types.                                  *)
THEOREM TypeCorrect == Spec => []TypeOK
BY InductiveInvariant, PTL DEF IInv

(* No split of alloc_virtual loses, duplicates or oversteps a page.        *)
THEOREM RegionsPartition == Spec => []RegionsPartitionHeap
<1>1. IInv => RegionsPartitionHeap
  BY RgnInvPartitions DEF IInv
<1> QED
  BY <1>1, InductiveInvariant, PTL

(* Every page of a block that is held is mapped, whatever else has failed. *)
THEOREM BlocksStayBacked == Spec => []HeldBlocksBacked
BY InductiveInvariant, PTL DEF IInv

(* unmap_page's wrong invlpg never makes the TLB disagree with the page    *)
(* table about a page that is mapped.                                      *)
THEOREM TlbCoherence == Spec => []TlbCoherent
BY InductiveInvariant, PTL DEF IInv

(* No step takes a frame away from a block that is held.                   *)
THEOREM MappingsStable == Spec => HeldMappingsStable
<1> DEFINE A == \A a \in held \cap held' : \A s \in Slots :
                  (m_rgns[s].type = "used" /\ m_rgns[s].base = a) =>
                    \A p \in PagesOf(s) : tables'[p] = tables[p]
<1>1. IInv /\ [Next]_vars => [A]_vars
  <2> SUFFICES ASSUME IInv, Next PROVE A
    OBVIOUS
  <2>1. CASE \E n \in Requests : AllocVirtual(n)
    BY <2>1, AllocVirtualKeepsIInv
  <2>2. CASE \E n \in Requests : AllocOutOfFrames(n)
    BY <2>2, AllocOutOfFramesKeepsIInv
  <2>3. CASE \E n \in Requests : AllocNoRegion(n)
    BY <2>3 DEF AllocNoRegion, vars
  <2>4. CASE \E c \in held : FreeVirtual(c)
    <3>1. PICK c \in held : FreeVirtual(c)
      BY <2>4
    <3>2. c \notin held'
      BY <3>1 DEF FreeVirtual
    <3>3. \A s \in Slots : (m_rgns[s].type = "used" /\ m_rgns[s].base # c) =>
            \A p \in PagesOf(s) : tables'[p] = tables[p]
      BY <3>1, FreeVirtualKeepsIInv
    <3> QED
      BY <3>2, <3>3
  <2>5. CASE (\E p \in Pages : TlbFill(p)) \/ (\E t \in tlb : TlbEvict(t))
    BY <2>5, TlbStepsKeepIInv
  <2> QED
    BY <2>1, <2>2, <2>3, <2>4, <2>5 DEF Next
<1> QED
  BY <1>1, InductiveInvariant, PTL DEF Spec, HeldMappingsStable

-----------------------------------------------------------------------------
(***************************************************************************)
(* get_unused never leaves the array.  Were every slot in use, a region of *)
(* the heap could be told by its first page, a disabled one by its slot,   *)
(* and the one past the end is alone: fewer marks than slots.              *)
(***************************************************************************)
LEMMA SomeSlotIsUnused == RgnInv => \E e \in Slots : m_rgns[e].type = "none"
<1> SUFFICES ASSUME RgnInv, \A e \in Slots : m_rgns[e].type # "none"
             PROVE  FALSE
  OBVIOUS
<1> USE QuarterAssumption DEF PageCount
<1> DEFINE mark == [s \in Slots |->
                     IF m_rgns[s].type = "disabled" THEN Quarter - 1 + s
                     ELSE IF m_rgns[s].base = PageCount THEN Quarter + 3
                     ELSE m_rgns[s].base - Quarter]
           Marks == 0 .. Quarter + 3
<1>1. \A s \in Slots : m_rgns[s].type = "disabled" \/ s \in HeapSlots
  BY DEF RgnInv, Region, RegionTypes, HeapSlots
<1>2. ASSUME NEW s \in HeapSlots
      PROVE  /\ s \in Slots
             /\ m_rgns[s].type # "disabled"
             /\ m_rgns[s].base \in Nat
             /\ \/ m_rgns[s].base = PageCount
                \/ m_rgns[s].base \in Quarter .. 2 * Quarter - 2
  BY DEF RgnInv, Region, RegionsPlaced, InHeap, PastTheEnd, End, HeapSlots
<1>3. ASSUME NEW s \in HeapSlots
      PROVE  \/ m_rgns[s].base = PageCount /\ mark[s] = Quarter + 3
             \/ mark[s] \in 0 .. Quarter - 2 /\ mark[s] = m_rgns[s].base - Quarter
  BY <1>2
<1>4. ASSUME NEW s \in Slots, m_rgns[s].type = "disabled"
      PROVE  s \in {0, 1, 3} /\ mark[s] = Quarter - 1 + s
  BY <1>4 DEF RgnInv, DisabledAsBooted
<1> HIDE DEF mark
<1>5. mark \in [Slots -> Marks]
  <2>1. \A s \in Slots : mark[s] \in Marks
    BY <1>1, <1>3, <1>4
  <2> QED
    BY <2>1 DEF mark
<1>6. IsFiniteSet(Slots) /\ Cardinality(Slots) = 4 * Quarter
  <2> DEFINE top == 4 * Quarter - 1
  <2>1. top \in Int /\ 0 <= top /\ top - 0 + 1 = 4 * Quarter /\ Slots = 0 .. top
    BY DEF Slots
  <2> HIDE DEF top
  <2> QED
    BY <2>1, FS_Interval
<1>7. IsFiniteSet(Marks) /\ Cardinality(Marks) = Quarter + 4
  BY FS_Interval
<1>8. PICK s \in Slots, t \in Slots : s # t /\ mark[s] = mark[t]
  BY <1>5, <1>6, <1>7, FS_PigeonHole
<1>9. CASE s \in HeapSlots /\ t \in HeapSlots
  <2>1. m_rgns[s].base = m_rgns[t].base
    BY <1>2, <1>3, <1>8, <1>9
  <2> QED
    BY <1>8, <1>9, <2>1, RegionsDiffer
<1>10. CASE m_rgns[s].type = "disabled" \/ m_rgns[t].type = "disabled"
  BY <1>1, <1>3, <1>4, <1>8, <1>10
<1> QED
  BY <1>1, <1>9, <1>10

(* get_unused always finds a slot.                                         *)
THEOREM UnusedSlotsSuffice == Spec => []UnusedSlotLeft
<1>1. RgnInv => UnusedSlotLeft
  <2> SUFFICES ASSUME RgnInv PROVE UnusedSlotLeft
    OBVIOUS
  <2> DEFINE N == {e \in Slots : m_rgns[e].type = "none"}
  <2>1. N \subseteq Nat /\ N # {}
    BY SomeSlotIsUnused DEF Slots
  <2>2. PICK e \in N : \A y \in N : <<y, e>> \notin OpToRel(<, Nat)
    BY <2>1, NatLessThanWellFounded, WFMin
  <2>3. \A y \in N : ~(y < e)
    BY <2>1, <2>2 DEF OpToRel
  <2> QED
    BY <2>3 DEF UnusedSlotLeft, GetUnused
<1>2. IInv => UnusedSlotLeft
  BY <1>1 DEF IInv
<1> QED
  BY <1>2, InductiveInvariant, PTL

-----------------------------------------------------------------------------
(* A set of natural numbers has a least element: induction, without a      *)
(* predicate as a parameter.                                               *)
LEMMA Least ==
  ASSUME NEW T, T \subseteq Nat, T # {}
  PROVE  \E x \in T : \A y \in T : x <= y
<1>1. IsWellFoundedOn(OpToRel(<, Nat), Nat)
  BY NatLessThanWellFounded
<1>2. PICK x \in T : \A y \in T : ~ (<<y, x>> \in OpToRel(<, Nat))
  <2> HIDE DEF OpToRel, IsWellFoundedOn
  <2> QED BY <1>1, WFMin, Zenon
<1>3. \A y \in T : ~ (y < x)
  BY <1>2 DEF OpToRel
<1> QED BY <1>3


(* A recursive function does what its definition says.                     *)
Iterates(f, x0, g) == f[0] = x0 /\ \A k \in Nat : f[k + 1] = g[k][f[k]]
LEMMA Recursion ==
  ASSUME NEW S, NEW x0 \in S, NEW g \in [Nat -> [S -> S]]
  PROVE  \E f \in [Nat -> S] : Iterates(f, x0, g)
<1> DEFINE Starts(h, n) == h[0] = x0 /\ \A k \in 0 .. n - 1 : h[k + 1] = g[k][h[k]]
           Good(n) == {h \in [0 .. n -> S] : Starts(h, n)}
<1>1. \A n \in Nat : Good(n) # {}
  <2> DEFINE T == {n \in Nat : Good(n) = {}}
  <2> SUFFICES ASSUME T # {} PROVE FALSE
    OBVIOUS
  <2>1. PICK n \in T : \A y \in T : n <= y
    <3> HIDE DEF T
    <3> QED BY Least DEF T
  <2>2. n # 0
    <3>1. [i \in 0 .. 0 |-> x0] \in Good(0)
      OBVIOUS
    <3> QED BY <3>1, <2>1
  <2>3. n - 1 \in Nat /\ n - 1 \notin T
    BY <2>1, <2>2
  <2>4. PICK h : h \in Good(n - 1)
    BY <2>3
  <2> DEFINE j == [i \in 0 .. n |-> IF i < n THEN h[i] ELSE g[n - 1][h[n - 1]]]
  <2>5. h \in [0 .. n - 1 -> S] /\ Starts(h, n - 1)
    BY <2>4
  <2>6. h[n - 1] \in S /\ g[n - 1][h[n - 1]] \in S
    BY <2>3, <2>5
  <2>7. j \in [0 .. n -> S]
    BY <2>5, <2>6, <2>3
  <2>8. Starts(j, n)
    <3>1. j[0] = x0
      BY <2>5, <2>2, <2>3
    <3>2. ASSUME NEW k \in 0 .. n - 1 PROVE j[k + 1] = g[k][j[k]]
      BY <2>5, <2>2, <2>3
    <3> QED BY <3>1, <3>2
  <2> QED BY <2>7, <2>8, <2>1
<1>2. ASSUME NEW m \in Nat, NEW n \in Nat, m <= n, NEW h \in Good(m), NEW j \in Good(n)
      PROVE  \A k \in 0 .. m : h[k] = j[k]
  <2> DEFINE T == {k \in 0 .. m : h[k] # j[k]}
  <2> SUFFICES ASSUME T # {} PROVE FALSE
    OBVIOUS
  <2>1. PICK k \in T : \A y \in T : k <= y
    <3>1. T \subseteq Nat
      OBVIOUS
    <3> HIDE DEF T
    <3> QED BY <3>1, Least
  <2>2. Starts(h, m) /\ Starts(j, n)
    OBVIOUS
  <2>3. k # 0
    BY <2>1, <2>2
  <2>4. k - 1 \in 0 .. m - 1 /\ k - 1 \in 0 .. n - 1 /\ h[k - 1] = j[k - 1]
    BY <2>1, <2>3, <1>2
  <2>5. h[k] = g[k - 1][h[k - 1]] /\ j[k] = g[k - 1][j[k - 1]]
    BY <2>2, <2>4, <2>1
  <2> QED BY <2>1, <2>4, <2>5
<1> DEFINE c(n) == CHOOSE h : h \in Good(n)
           f == [n \in Nat |-> c(n)[n]]
<1>3. \A n \in Nat : c(n) \in Good(n)
  BY <1>1, Zenon
<1>4. f \in [Nat -> S]
  <2> HIDE DEF c
  <2> QED BY <1>3
<1>5. f[0] = x0
  <2> HIDE DEF c
  <2> QED BY <1>3
<1>6. ASSUME NEW k \in Nat PROVE f[k + 1] = g[k][f[k]]
  <2>1. c(k) \in Good(k) /\ c(k + 1) \in Good(k + 1)
    <3> HIDE DEF c, Good
    <3> QED BY <1>3
  <2> HIDE DEF c
  <2>2. c(k)[k] = c(k + 1)[k]
    <3> HIDE DEF Good
    <3> QED BY <2>1, <1>2
  <2>3. c(k + 1)[k + 1] = g[k][c(k + 1)[k]]
    BY <2>1
  <2> QED BY <2>2, <2>3
<1> HIDE DEF f
<1> QED BY <1>4, <1>5, <1>6 DEF Iterates

-----------------------------------------------------------------------------
(***************************************************************************)
(* The list.  The regions in use have different first pages, and next      *)
(* leads from each to the one that follows it in the order of the pages:   *)
(* what is linked behind a region that is split is the rest of it.         *)
(***************************************************************************)
ListInOrder ==
  /\ m_rgns[0].type = "disabled"
  /\ \A s \in InUse :
       IF m_rgns[s].next = NULL THEN \A t \in InUse : m_rgns[t].base <= m_rgns[s].base
       ELSE /\ m_rgns[s].next \in InUse
            /\ m_rgns[s].base < m_rgns[m_rgns[s].next].base
            /\ \A t \in InUse : \/ m_rgns[t].base <= m_rgns[s].base
                                \/ m_rgns[m_rgns[s].next].base <= m_rgns[t].base

(* Where a region in use can be.                                           *)
UsePlaced(s) ==
  \/ /\ s \in HeapSlots
     /\ \/ /\ Quarter <= m_rgns[s].base /\ 1 <= m_rgns[s].length
           /\ m_rgns[s].base + m_rgns[s].length <= 2 * Quarter - 1
        \/ m_rgns[s].base = 4 * Quarter /\ m_rgns[s].length = 1
  \/ /\ s \notin HeapSlots
     /\ \/ s = 0 /\ m_rgns[s].base = 0 /\ m_rgns[s].length = Quarter - 1
        \/ s = 1 /\ m_rgns[s].base = 2 * Quarter /\ m_rgns[s].length = Quarter
        \/ s = 3 /\ m_rgns[s].base = 3 * Quarter /\ m_rgns[s].length = Quarter - 1

LEMMA UseFacts ==
  ASSUME RgnInv, NEW s \in InUse
  PROVE  /\ s \in Slots /\ m_rgns[s].base \in Nat /\ m_rgns[s].length \in Nat
         /\ m_rgns[s].next \in Slots \cup {NULL} /\ m_rgns[s].base <= 4 * Quarter
         /\ 1 <= m_rgns[s].length
         /\ UsePlaced(s)
<1> USE QuarterAssumption DEF PageCount
<1>1. s \in Slots /\ m_rgns[s] \in Region
  BY DEF RgnInv, InUse
<1>2. /\ m_rgns[s].base \in Nat /\ m_rgns[s].length \in Nat
      /\ m_rgns[s].next \in Slots \cup {NULL}
      /\ m_rgns[s].type \in RegionTypes
  BY <1>1 DEF Region
<1>3. s \in HeapSlots \/ m_rgns[s].type = "disabled"
  BY <1>1, <1>2 DEF InUse, HeapSlots, RegionTypes
<1>4. CASE s \in HeapSlots
  BY <1>1, <1>2, <1>4 DEF RgnInv, RegionsPlaced, InHeap, PastTheEnd, End, UsePlaced
<1>5. CASE m_rgns[s].type = "disabled"
  <2>1. s \notin HeapSlots
    BY <1>5 DEF HeapSlots
  <2>2. /\ s \in {0, 1, 3} /\ m_rgns[s].base = BootRegions[s].base
        /\ m_rgns[s].length = BootRegions[s].length
    BY <1>1, <1>5 DEF RgnInv, DisabledAsBooted
  <2>3. /\ 0 \in Slots /\ 1 \in Slots /\ 3 \in Slots
    BY DEF Slots
  <2>4. /\ BootRegions[0].base = 0 /\ BootRegions[0].length = Quarter - 1
        /\ BootRegions[1].base = 2 * Quarter /\ BootRegions[1].length = Quarter
        /\ BootRegions[3].base = 3 * Quarter /\ BootRegions[3].length = Quarter - 1
    BY <2>3 DEF BootRegions, Rgn, NoRegion
  <2> QED BY <1>1, <1>2, <2>1, <2>2, <2>4 DEF UsePlaced
<1> QED BY <1>3, <1>4, <1>5

LEMMA BasesDiffer ==
  ASSUME RgnInv, NEW s \in InUse, NEW t \in InUse, m_rgns[s].base = m_rgns[t].base
  PROVE  s = t
<1>1. CASE s \in HeapSlots /\ t \in HeapSlots
  BY <1>1, RegionsDiffer
<1>2. CASE s \notin HeapSlots \/ t \notin HeapSlots
  <2>1. UsePlaced(s) /\ m_rgns[s].base \in Nat /\ m_rgns[s].length \in Nat
    BY UseFacts
  <2>2. UsePlaced(t) /\ m_rgns[t].base \in Nat /\ m_rgns[t].length \in Nat
    BY UseFacts
  <2> QED BY <1>2, <2>1, <2>2, QuarterAssumption DEF UsePlaced
<1> QED BY <1>1, <1>2

(* A region ends before the next one begins.                               *)
LEMMA EndsBefore ==
  ASSUME RgnInv, NEW s \in InUse, NEW t \in InUse, m_rgns[s].base < m_rgns[t].base
  PROVE  End(s) <= m_rgns[t].base
<1>1. /\ UsePlaced(s) /\ m_rgns[s].base \in Nat /\ m_rgns[s].length \in Nat
      /\ End(s) = m_rgns[s].base + m_rgns[s].length
  BY UseFacts DEF End
<1>2. /\ UsePlaced(t) /\ m_rgns[t].base \in Nat /\ m_rgns[t].length \in Nat
      /\ End(t) = m_rgns[t].base + m_rgns[t].length
  BY UseFacts DEF End
<1>3. CASE s \in HeapSlots /\ t \in HeapSlots
  <2>1. s # t
    BY <1>1, <1>2
  <2>2. End(s) <= m_rgns[t].base \/ End(t) <= m_rgns[s].base
    BY <1>3, <2>1 DEF RgnInv, RegionsApart
  <2> QED BY <1>1, <1>2, <2>2
<1>4. CASE s \notin HeapSlots \/ t \notin HeapSlots
  BY <1>1, <1>2, <1>4, QuarterAssumption DEF UsePlaced
<1> QED BY <1>3, <1>4

LEMMA InitInOrder == m_rgns = BootRegions => ListInOrder
<1> SUFFICES ASSUME m_rgns = BootRegions PROVE ListInOrder
  OBVIOUS
<1> USE QuarterAssumption DEF PageCount
<1>1. 0 \in Slots /\ 1 \in Slots /\ 2 \in Slots /\ 3 \in Slots /\ 4 \in Slots
  BY DEF Slots
<1>2. /\ m_rgns[0].type = "disabled" /\ m_rgns[0].base = 0 /\ m_rgns[0].next = 2
      /\ m_rgns[2].type = "free" /\ m_rgns[2].base = Quarter /\ m_rgns[2].next = 1
      /\ m_rgns[1].type = "disabled" /\ m_rgns[1].base = 2 * Quarter /\ m_rgns[1].next = 3
      /\ m_rgns[3].type = "disabled" /\ m_rgns[3].base = 3 * Quarter /\ m_rgns[3].next = 4
      /\ m_rgns[4].type = "free" /\ m_rgns[4].base = 4 * Quarter /\ m_rgns[4].next = NULL
  BY <1>1 DEF BootRegions, Rgn, NoRegion
<1>3. \A s \in Slots \ {0, 1, 2, 3, 4} : m_rgns[s].type = "none"
  BY DEF BootRegions, Rgn, NoRegion
<1>4. InUse = {0, 1, 2, 3, 4}
  BY <1>1, <1>2, <1>3 DEF InUse
<1>5. 0 # NULL /\ 1 # NULL /\ 2 # NULL /\ 3 # NULL /\ 4 # NULL
  BY <1>1, NullAssumption
<1>6. \A s \in {0, 1, 2, 3, 4} :
        IF m_rgns[s].next = NULL
        THEN \A t \in {0, 1, 2, 3, 4} : m_rgns[t].base <= m_rgns[s].base
        ELSE /\ m_rgns[s].next \in {0, 1, 2, 3, 4}
             /\ m_rgns[s].base < m_rgns[m_rgns[s].next].base
             /\ \A t \in {0, 1, 2, 3, 4} : \/ m_rgns[t].base <= m_rgns[s].base
                                           \/ m_rgns[m_rgns[s].next].base <= m_rgns[t].base
  BY <1>2, <1>5
<1> QED BY <1>2, <1>4, <1>6 DEF ListInOrder

LEMMA RetypedInOrder ==
  ASSUME RgnInv, ListInOrder, NEW r \in Slots, m_rgns[r].type \in {"free", "used"},
         NEW y \in {"free", "used"}, m_rgns' = [m_rgns EXCEPT ![r].type = y]
  PROVE  ListInOrder'
<1>1. \A s \in Slots : /\ m_rgns'[s].base = m_rgns[s].base /\ m_rgns'[s].next = m_rgns[s].next
                       /\ m_rgns'[s].type = IF s = r THEN y ELSE m_rgns[s].type
  BY DEF RgnInv, Region
<1>2. InUse' = InUse
  BY <1>1 DEF InUse
<1>3. m_rgns[0].type = "disabled" /\ 0 \in Slots
  BY QuarterAssumption DEF ListInOrder, Slots, PageCount
<1>4. m_rgns'[0].type = "disabled"
  BY <1>1, <1>3
<1>5. \A s \in InUse : s \in Slots /\ (m_rgns[s].next # NULL => m_rgns[s].next \in Slots)
  BY DEF InUse, ListInOrder
<1> QED BY <1>1, <1>2, <1>4, <1>5 DEF ListInOrder

LEMMA TakeRegionInOrder ==
  ASSUME RgnInv, ListInOrder, NEW r \in Slots, NEW n \in Requests, Fits(r, n),
         TakeRegion(r, n)
  PROVE  ListInOrder'
<1>1. /\ n \in Nat /\ n >= 2 /\ m_rgns[r].base \in Nat /\ m_rgns[r].length \in Nat
      /\ m_rgns[r].type = "free" /\ r \in InUse
  BY FitsInHeap DEF InUse
<1>2. CASE ~MustSplit(r, n) /\ m_rgns' = [m_rgns EXCEPT ![r].type = "used"]
  BY <1>1, <1>2, RetypedInOrder
<1>3. CASE /\ MustSplit(r, n)
           /\ \E e \in Slots :
                /\ GetUnused(e)
                /\ m_rgns' = [m_rgns EXCEPT
                     ![e] = Rest(r, n),
                     ![r] = [type |-> "used", base |-> m_rgns[r].base, length |-> n,
                             next |-> e, prev |-> m_rgns[r].prev]]
  <2>1. PICK e \in Slots :
          /\ m_rgns[e].type = "none"
          /\ m_rgns' = [m_rgns EXCEPT
               ![e] = [type |-> "free", base |-> m_rgns[r].base + n,
                       length |-> m_rgns[r].length - n,
                       next |-> m_rgns[r].next, prev |-> r],
               ![r] = [type |-> "used", base |-> m_rgns[r].base, length |-> n,
                       next |-> e, prev |-> m_rgns[r].prev]]
    BY <1>3 DEF GetUnused, Rest
  <2>2. e # r /\ e \notin InUse /\ e # NULL
    BY <1>1, <2>1, NullAssumption DEF InUse
  <2>3. /\ m_rgns'[r].type = "used" /\ m_rgns'[r].base = m_rgns[r].base
        /\ m_rgns'[r].next = e
        /\ m_rgns'[e].type = "free" /\ m_rgns'[e].base = m_rgns[r].base + n
        /\ m_rgns'[e].next = m_rgns[r].next
        /\ \A s \in Slots \ {r, e} : m_rgns'[s] = m_rgns[s]
    BY <2>1, <2>2 DEF RgnInv
  <2>4. InUse' = InUse \cup {e}
    BY <1>1, <2>3 DEF InUse
  <2>5. m_rgns'[0].type = "disabled"
    <3>1. 0 \in Slots /\ m_rgns[0].type = "disabled"
      BY QuarterAssumption DEF ListInOrder, Slots, PageCount
    <3>2. 0 # r /\ 0 # e
      BY <1>1, <2>1, <3>1
    <3> QED BY <2>3, <3>1, <3>2
  <2> DEFINE B(s) == m_rgns[s].base
             x == m_rgns[r].next
  <2>6. \A s \in InUse : s \in Slots /\ B(s) \in Nat /\ m_rgns'[s].base = B(s) /\ s # e
    BY <2>2, <2>3, UseFacts DEF InUse
  <2>7. \A s \in InUse : B(s) <= B(r) \/ B(r) + n < B(s)
    <3> SUFFICES ASSUME NEW s \in InUse, B(r) < B(s) PROVE B(r) + n < B(s)
      BY <1>1, <2>6
    <3>1. End(r) <= B(s)
      BY <1>1, EndsBefore
    <3> QED BY <1>1, <1>3, <2>6, <3>1 DEF End, MustSplit
  <2>8. \A s \in InUse :
          IF m_rgns[s].next = NULL THEN \A t \in InUse : B(t) <= B(s)
          ELSE /\ m_rgns[s].next \in InUse /\ B(s) < B(m_rgns[s].next)
               /\ \A t \in InUse : B(t) <= B(s) \/ B(m_rgns[s].next) <= B(t)
    BY DEF ListInOrder
  <2> DEFINE C(s) == m_rgns'[s].base
             y(s) == m_rgns'[s].next
  <2>9. \A s \in InUse : C(s) = B(s) /\ C(s) \in Nat
    BY <2>6
  <2>10. C(e) = B(r) + n /\ C(e) \in Nat /\ B(r) \in Nat
    BY <1>1, <2>3
  <2>11. \A s \in InUse \ {r} : y(s) = m_rgns[s].next
    BY <2>3, <2>6
  <2>12. y(r) = e /\ y(e) = m_rgns[r].next
    BY <2>3
  <2> HIDE DEF B, C, y
  <2>13. ASSUME NEW s \in InUse \ {r}
         PROVE  IF y(s) = NULL THEN \A t \in InUse \cup {e} : C(t) <= C(s)
                ELSE /\ y(s) \in InUse \cup {e} /\ C(s) < C(y(s))
                     /\ \A t \in InUse \cup {e} : C(t) <= C(s) \/ C(y(s)) <= C(t)
    <3>1. s # r /\ B(s) # B(r)
      BY <1>1, BasesDiffer DEF B
    <3>2. CASE y(s) = NULL
      <4>1. \A t \in InUse : B(t) <= B(s)
        BY <2>8, <2>11, <3>2
      <4>2. B(r) < B(s)
        BY <1>1, <2>9, <3>1, <4>1
      <4>3. B(r) + n < B(s)
        BY <2>7, <2>9, <2>10, <4>2
      <4> QED BY <2>9, <2>10, <3>2, <4>1, <4>3
    <3>3. CASE y(s) # NULL
      <4>1. PICK z \in InUse : z = y(s) /\ B(s) < B(z)
                               /\ \A t \in InUse : B(t) <= B(s) \/ B(z) <= B(t)
        BY <2>8, <2>11, <3>3
      <4>2. C(e) <= C(s) \/ C(z) <= C(e)
        <5>1. CASE B(z) <= B(r)
          BY <1>1, <2>9, <2>10, <5>1
        <5>2. CASE B(r) <= B(s)
          <6>1. B(r) < B(s)
            BY <3>1, <5>2, <2>9, <2>10
          <6>2. B(r) + n < B(s)
            BY <2>7, <2>9, <2>10, <6>1
          <6> QED BY <2>9, <2>10, <6>2
        <5> QED BY <5>1, <5>2, <4>1, <1>1
      <4> QED BY <2>9, <2>10, <3>3, <4>1, <4>2
    <3> QED BY <3>2, <3>3
  <2>14. /\ y(r) # NULL /\ y(r) \in InUse \cup {e} /\ C(r) < C(y(r))
         /\ \A t \in InUse \cup {e} : C(t) <= C(r) \/ C(y(r)) <= C(t)
    <3>1. C(r) < C(e)
      BY <1>1, <2>9, <2>10
    <3>2. \A t \in InUse : C(t) <= C(r) \/ C(e) <= C(t)
      BY <1>1, <2>7, <2>9, <2>10
    <3> QED BY <2>2, <2>10, <2>12, <3>1, <3>2
  <2>15. IF y(e) = NULL THEN \A t \in InUse \cup {e} : C(t) <= C(e)
         ELSE /\ y(e) \in InUse \cup {e} /\ C(e) < C(y(e))
              /\ \A t \in InUse \cup {e} : C(t) <= C(e) \/ C(y(e)) <= C(t)
    <3>1. CASE y(e) = NULL
      <4>1. \A t \in InUse : B(t) <= B(r)
        BY <1>1, <2>8, <2>12, <3>1
      <4> QED BY <1>1, <2>9, <2>10, <3>1, <4>1
    <3>2. CASE y(e) # NULL
      <4>1. PICK z \in InUse : z = y(e) /\ B(r) < B(z)
                               /\ \A t \in InUse : B(t) <= B(r) \/ B(z) <= B(t)
        BY <1>1, <2>8, <2>12, <3>2
      <4>2. B(r) + n < B(z)
        BY <2>7, <2>9, <2>10, <4>1
      <4> QED BY <1>1, <2>9, <2>10, <3>2, <4>1, <4>2
    <3> QED BY <3>1, <3>2
  <2>16. \A s \in InUse' : IF y(s) = NULL THEN \A t \in InUse' : C(t) <= C(s)
                           ELSE /\ y(s) \in InUse' /\ C(s) < C(y(s))
                                /\ \A t \in InUse' : C(t) <= C(s) \/ C(y(s)) <= C(t)
    BY <2>4, <2>13, <2>14, <2>15
  <2> QED BY <2>5, <2>16 DEF ListInOrder, C, y
<1> QED BY <1>2, <1>3 DEF TakeRegion

LEMMA NextInOrder ==
  ASSUME IInv, ListInOrder, [Next]_vars
  PROVE  ListInOrder'
<1>1. ASSUME NEW n \in Requests, AllocVirtual(n) \/ AllocOutOfFrames(n) PROVE ListInOrder'
  <2>1. PICK r \in Slots : Fits(r, n) /\ TakeRegion(r, n)
    BY <1>1 DEF AllocVirtual, AllocOutOfFrames
  <2> QED BY <2>1, TakeRegionInOrder DEF IInv
<1>2. ASSUME NEW a \in held, FreeVirtual(a) PROVE ListInOrder'
  <2>1. PICK r \in Slots : /\ m_rgns[r].type = "used"
                           /\ m_rgns' = [m_rgns EXCEPT ![r].type = "free"]
    BY <1>2 DEF FreeVirtual, FirstRegion
  <2> QED BY <2>1, RetypedInOrder DEF IInv
<1>3. CASE \/ \E n \in Requests : AllocNoRegion(n)
           \/ \E p \in Pages : TlbFill(p)
           \/ \E t \in tlb : TlbEvict(t)
           \/ UNCHANGED vars
  <2>1. m_rgns' = m_rgns
    BY <1>3 DEF AllocNoRegion, TlbFill, TlbEvict, vars
  <2> QED BY <2>1 DEF ListInOrder, InUse
<1> QED BY <1>1, <1>2, <1>3 DEF Next

-----------------------------------------------------------------------------
(* The regions the walk of alloc_virtual and free_virtual visits.          *)
WalkSteps ==
  /\ Walk[0] = 0
  /\ \A k \in Nat : /\ Walk[k] \in InUse \cup {NULL}
                    /\ Walk[k + 1] = IF Walk[k] = NULL THEN NULL ELSE m_rgns[Walk[k]].next

(* The walk stays in any set that holds the first slot and is closed under *)
(* the next pointers.                                                      *)
LEMMA WalkWithin ==
  ASSUME NEW S, 0 \in S, \A r \in S : r = NULL \/ m_rgns[r].next \in S
  PROVE  /\ Walk[0] = 0
         /\ \A k \in Nat :
              /\ Walk[k] \in S
              /\ Walk[k + 1] = IF Walk[k] = NULL THEN NULL ELSE m_rgns[Walk[k]].next
<1> DEFINE nx == [r \in S |-> IF r = NULL THEN NULL ELSE m_rgns[r].next]
           g == [k \in Nat |-> nx]
           Body(t) == [k \in Nat |->
             IF k = 0 THEN 0
             ELSE LET r == t[k - 1] IN IF r = NULL THEN NULL ELSE m_rgns[r].next]
<1>1. 0 \in S
  OBVIOUS
<1>2. nx \in [S -> S]
  OBVIOUS
<1>3. PICK s \in [Nat -> S] : Iterates(s, 0, g)
  <2>1. g \in [Nat -> [S -> S]]
    BY <1>2
  <2> HIDE DEF g
  <2> QED BY <2>1, <1>1, Recursion
<1>4. s[0] = 0 /\ \A k \in Nat : s[k + 1] = nx[s[k]] /\ s[k] \in S
  BY <1>3 DEF Iterates
<1>5. s = Body(s)
  <2>1. ASSUME NEW k \in Nat PROVE s[k] = Body(s)[k]
    <3>1. CASE k = 0
      BY <3>1, <1>4
    <3>2. CASE k # 0
      <4>1. k - 1 \in Nat /\ k = (k - 1) + 1
        BY <3>2
      <4>2. s[k] = nx[s[k - 1]] /\ s[k - 1] \in S
        BY <4>1, <1>4
      <4> QED BY <4>2, <3>2
    <3> QED BY <3>1, <3>2
  <2> QED BY <2>1
<1>6. Walk = Body(Walk)
  <2>1. Walk = CHOOSE t : t = Body(t)
    BY DEF Walk
  <2> HIDE DEF Body
  <2> QED BY <1>5, <2>1
<1>7. /\ Walk[0] = 0
      /\ \A k \in Nat : Walk[k + 1] = IF Walk[k] = NULL THEN NULL ELSE m_rgns[Walk[k]].next
  <2> DEFINE t == Walk
  <2>1. t = Body(t)
    BY <1>6
  <2> HIDE DEF t
  <2>2. t[0] = 0
    BY <2>1
  <2>3. ASSUME NEW k \in Nat
        PROVE  t[k + 1] = IF t[k] = NULL THEN NULL ELSE m_rgns[t[k]].next
    <3>1. k + 1 \in Nat /\ k + 1 # 0 /\ (k + 1) - 1 = k
      OBVIOUS
    <3> QED BY <2>1, <3>1
  <2> QED BY <2>2, <2>3 DEF t
<1>8. \A k \in Nat : Walk[k] \in S
  <2> DEFINE T == {k \in Nat : Walk[k] \notin S}
  <2> SUFFICES ASSUME T # {} PROVE FALSE
    OBVIOUS
  <2>1. PICK k \in T : \A j \in T : k <= j
    <3> HIDE DEF T
    <3> QED BY Least DEF T
  <2>2. k # 0
    BY <1>1, <1>7, <2>1
  <2>3. k - 1 \in Nat /\ Walk[k - 1] \in S
    BY <2>1, <2>2
  <2>4. Walk[(k - 1) + 1] = nx[Walk[k - 1]]
    BY <1>7, <2>3
  <2> QED BY <1>2, <2>1, <2>3, <2>4
<1> QED BY <1>7, <1>8

(* It visits regions in use only, and steps as the code does.              *)
LEMMA WalkDef == RgnInv /\ ListInOrder => WalkSteps
<1> SUFFICES ASSUME RgnInv, ListInOrder PROVE WalkSteps
  OBVIOUS
<1> DEFINE S == InUse \cup {NULL}
<1>1. 0 \in S
  BY QuarterAssumption DEF ListInOrder, InUse, Slots, PageCount
<1>2. \A r \in S : r = NULL \/ m_rgns[r].next \in S
  BY DEF ListInOrder
<1> HIDE DEF S
<1>3. /\ Walk[0] = 0
      /\ \A k \in Nat : /\ Walk[k] \in S
                        /\ Walk[k + 1] = IF Walk[k] = NULL THEN NULL ELSE m_rgns[Walk[k]].next
  BY <1>1, <1>2, WalkWithin
<1> QED BY <1>3 DEF S, WalkSteps

(* The walk moves up in the address space with every step, so it is over   *)
(* before it has made more steps than there are pages.                     *)
LEMMA WalkClimbs ==
  ASSUME RgnInv, ListInOrder, NEW k \in Nat, Walk[k] # NULL
  PROVE  k <= m_rgns[Walk[k]].base
<1> DEFINE T == {i \in Nat : Walk[i] # NULL /\ ~(i <= m_rgns[Walk[i]].base)}
<1> SUFFICES ASSUME T # {} PROVE FALSE
  OBVIOUS
<1>1. PICK i \in T : \A j \in T : i <= j
  <2> HIDE DEF T
  <2> QED BY Least DEF T
<1>2. WalkSteps
  BY WalkDef
<1>3. \A j \in Nat : Walk[j] # NULL => Walk[j] \in InUse /\ m_rgns[Walk[j]].base \in Nat
  BY <1>2, UseFacts DEF WalkSteps
<1>4. i # 0
  BY <1>1, <1>3
<1>5. /\ i - 1 \in Nat /\ (i - 1) + 1 = i
      /\ Walk[i] = IF Walk[i - 1] = NULL THEN NULL ELSE m_rgns[Walk[i - 1]].next
  BY <1>1, <1>2, <1>4 DEF WalkSteps
<1>6. Walk[i - 1] # NULL /\ i - 1 \notin T
  BY <1>1, <1>5
<1>7. m_rgns[Walk[i - 1]].base < m_rgns[Walk[i]].base
  BY <1>1, <1>3, <1>5, <1>6 DEF ListInOrder
<1> QED BY <1>1, <1>3, <1>5, <1>6, <1>7

(* Every region in use is where the walk first reaches its first page.     *)
LEMMA WalkReaches ==
  ASSUME RgnInv, ListInOrder, NEW s \in InUse
  PROVE  \E k \in 0 .. PageCount : Walk[k] = s
<1> DEFINE T == {k \in Nat : Walk[k] # NULL => m_rgns[s].base <= m_rgns[Walk[k]].base}
<1>1. WalkSteps
  BY WalkDef
<1>2. \A j \in Nat : Walk[j] # NULL => Walk[j] \in InUse /\ m_rgns[Walk[j]].base \in Nat
  BY <1>1, UseFacts DEF WalkSteps
<1>3. m_rgns[s].base \in Nat /\ m_rgns[s].base <= 4 * Quarter
  BY UseFacts
<1>4. m_rgns[s].base \in T
  <2>1. Walk[m_rgns[s].base] # NULL => m_rgns[s].base <= m_rgns[Walk[m_rgns[s].base]].base
    BY <1>3, WalkClimbs
  <2> QED BY <1>3, <2>1
<1>5. PICK k \in T : \A j \in T : k <= j
  <2> HIDE DEF T
  <2> QED BY <1>4, Least DEF T
<1>6. k \in 0 .. PageCount
  BY <1>3, <1>4, <1>5, QuarterAssumption DEF PageCount
<1>7. CASE k = 0
  <2>1. Walk[0] = 0 /\ m_rgns[0].type = "disabled" /\ 0 \in Slots /\ 0 # NULL
    BY <1>1, QuarterAssumption, NullAssumption DEF WalkSteps, ListInOrder,
         Slots, PageCount
  <2>2. 0 \in InUse /\ 0 \notin HeapSlots
    BY <2>1 DEF InUse, HeapSlots
  <2>3. m_rgns[0].base = 0
    BY <2>2, UseFacts DEF UsePlaced
  <2>4. m_rgns[s].base = m_rgns[0].base
    BY <1>3, <1>5, <1>7, <2>1, <2>3
  <2> QED BY <1>6, <1>7, <2>1, <2>2, <2>4, BasesDiffer
<1>8. CASE k # 0
  <2>1. /\ k - 1 \in Nat
        /\ Walk[(k - 1) + 1] = IF Walk[k - 1] = NULL THEN NULL ELSE m_rgns[Walk[k - 1]].next
    BY <1>1, <1>5, <1>8 DEF WalkSteps
  <2>2. (k - 1) + 1 = k /\ k - 1 \notin T
    BY <1>5, <2>1
  <2>3. PICK r \in InUse : r = Walk[k - 1] /\ r # NULL /\ m_rgns[r].base < m_rgns[s].base
    BY <1>2, <1>3, <2>1, <2>2
  <2>4. /\ m_rgns[r].next # NULL /\ m_rgns[r].next \in InUse
        /\ m_rgns[m_rgns[r].next].base <= m_rgns[s].base
    <3>1. m_rgns[r].base \in Nat
      BY <1>2, <2>1, <2>3
    <3> QED BY <1>3, <2>3, <3>1 DEF ListInOrder
  <2>5. PICK x \in InUse : x = m_rgns[r].next /\ x # NULL
    BY <2>4
  <2>6. Walk[k] = x
    BY <2>1, <2>2, <2>3, <2>5
  <2>7. m_rgns[x].base = m_rgns[s].base
    <3>1. m_rgns[s].base <= m_rgns[x].base
      BY <1>5, <2>5, <2>6
    <3>2. m_rgns[x].base \in Nat
      BY UseFacts
    <3> QED BY <1>3, <2>4, <2>5, <3>1, <3>2
  <2> QED BY <1>6, <2>6, <2>7, BasesDiffer
<1> QED BY <1>7, <1>8

LEMMA InOrderReaches == RgnInv /\ ListInOrder => ListReachesEveryRegion
<1> SUFFICES ASSUME RgnInv, ListInOrder PROVE ListReachesEveryRegion
  OBVIOUS
<1>1. ListSlots \subseteq InUse
  BY WalkDef DEF WalkSteps, ListSlots
<1>2. ASSUME NEW s \in InUse PROVE s \in ListSlots
  <2>1. s # NULL
    BY NullAssumption DEF InUse
  <2> QED BY <2>1, WalkReaches DEF ListSlots
<1>3. ASSUME NEW s \in InUse, m_rgns[s].next # NULL
      PROVE  m_rgns[s].base + m_rgns[s].length <= m_rgns[m_rgns[s].next].base
  <2>1. m_rgns[s].next \in InUse /\ m_rgns[s].base < m_rgns[m_rgns[s].next].base
    BY <1>3 DEF ListInOrder
  <2> QED BY <2>1, EndsBefore DEF End
<1> QED BY <1>1, <1>2, <1>3 DEF ListReachesEveryRegion

(* alloc_virtual and free_virtual, which look for a region by walking the  *)
(* list from m_first_rgn, see every region in use; a split loses none.     *)
THEOREM NoRegionIsLost == Spec => []ListReachesEveryRegion
<1>1. Init => ListInOrder
  BY InitInOrder DEF Init
<1>2. IInv /\ ListInOrder /\ [Next]_vars => ListInOrder'
  BY NextInOrder
<1>3. IInv /\ ListInOrder => ListReachesEveryRegion
  BY InOrderReaches DEF IInv
<1> QED BY <1>1, <1>2, <1>3, InductiveInvariant, PTL DEF Spec

-----------------------------------------------------------------------------
(***************************************************************************)
(* Memory implements PageGrants.  Promise!Granted is HeldPages; an         *)
(* allocation that succeeds is a Grant, one that runs out of frames half   *)
(* way is Break, free_virtual is Release, everything else a stutter.       *)
(***************************************************************************)
LEMMA AllocVirtualGrants ==
  ASSUME IInv, NEW n \in Requests, AllocVirtual(n)
  PROVE  Promise!Next
<1>1. PICK r \in Slots : Fits(r, n) /\ TakeRegion(r, n) /\ AllocVirtual(n)!(r)
  BY DEF AllocVirtual
<1>2. PICK b \in Heap : b = m_rgns[r].base
  BY <1>1, TakenRegionIsNew
<1> DEFINE B == b .. (b + n - 1)
<1>3. PICK f \in FramesFor(n) :
        /\ tables' = MapPages(b, n, f)
        /\ m_pages' = m_pages \ {f[i] : i \in 0 .. n - 1}
        /\ held' = held \cup {b}
        /\ botched' = botched
  BY <1>2, <1>1
<1>4. n \in Nat /\ b \in Nat
  BY <1>2, <1>1, FitsInHeap DEF IInv
<1>5. /\ f \in [0 .. n - 1 -> m_pages]
      /\ \A i, j \in 0 .. n - 1 : i # j => f[i] # f[j]
  BY <1>4, FramesForDistinct DEF IInv, TypeOK
<1>6. /\ B \subseteq Heap
      /\ PagesOf(r)' = B
      /\ \A s \in HeldSlots : PagesOf(s)' = PagesOf(s) /\ PagesOf(s) \cap B = {}
      /\ HeldSlots' = HeldSlots \cup {r}
  BY <1>2, <1>1, <1>3, TakenRegionIsNew DEF HeldSlots
<1>7. \A p \in HeldPages : tables'[p] = tables[p]
  BY AllocVirtualKeepsIInv DEF HeldPages, HeldSlots
<1> DEFINE g == [p \in B |-> f[p - b]]
<1>8. /\ g \in [B -> m_pages]
      /\ \A p, q \in B : p # q => g[p] # g[q]
  <2>1. \A p \in B : p \in Int /\ p - b \in 0 .. n - 1 /\ g[p] = f[p - b]
    BY <1>4
  <2>2. g \in [B -> m_pages]
    BY <1>5, <2>1
  <2>3. ASSUME NEW p \in B, NEW q \in B, p # q
        PROVE  g[p] # g[q]
    BY <1>4, <1>5, <2>1, <2>3
  <2> QED
    BY <2>2, <2>3
<1>9. {f[i] : i \in 0 .. n - 1} = {g[p] : p \in B}
  <2>1. ASSUME NEW i \in 0 .. n - 1
        PROVE  b + i \in B /\ g[b + i] = f[i]
    BY <1>4
  <2>2. \A p \in B : p - b \in 0 .. n - 1
    BY <1>4
  <2> QED
    BY <2>1, <2>2
<1>10. \A p \in B : tables'[p].address = g[p]
  <2> SUFFICES ASSUME NEW p \in B PROVE tables'[p].address = g[p]
    OBVIOUS
  <2>1. tables'[p] = [present |-> TRUE, address |-> f[p - b]]
    BY <1>3, <1>6, HeapIsPages DEF MapPages
  <2> QED
    BY <2>1
<1>11. HeldPages' = HeldPages \cup B /\ HeldPages \cap B = {}
  BY <1>6 DEF HeldPages
<1>12. {PagesOf(s) : s \in HeldSlots}' = {PagesOf(s) : s \in HeldSlots} \cup {B}
  BY <1>6
<1>13. [p \in HeldPages |-> tables[p].address]' =
         [p \in HeldPages \cup B |->
            IF p \in B THEN g[p] ELSE [q \in HeldPages |-> tables[q].address][p]]
  BY <1>7, <1>10, <1>11
<1>14. Promise!Grant(B)
  <2> HIDE DEF B, g
  <2> QED
    BY <1>3, <1>8, <1>9, <1>11, <1>12, <1>13
       DEF Promise!Grant, Promise!Granted, HeldPages, HeldGrants, HeldBacking
<1> QED
  BY <1>6, <1>14 DEF Promise!Next

LEMMA AllocOutOfFramesBreaks ==
  ASSUME IInv, NEW n \in Requests, AllocOutOfFrames(n)
  PROVE  Promise!Break \/ UNCHANGED Promise!vars
<1>1. /\ IInv'
      /\ HeldSlots' = HeldSlots
      /\ \A s \in HeldSlots : PagesOf(s)' = PagesOf(s)
      /\ \A p \in HeldPages : tables'[p] = tables[p]
  BY AllocOutOfFramesKeepsIInv DEF HeldSlots, HeldPages
<1>2. HeldPages' = HeldPages
  BY <1>1 DEF HeldPages
<1>3. {PagesOf(s) : s \in HeldSlots}' = {PagesOf(s) : s \in HeldSlots}
  BY <1>1
<1>4. [p \in HeldPages |-> tables[p].address]' = [p \in HeldPages |-> tables[p].address]
  BY <1>1, <1>2
<1>5. botched' = TRUE \/ (m_pages' = m_pages /\ botched' = botched)
  BY DEF AllocOutOfFrames
<1>6. m_pages' \in SUBSET Frames
  BY <1>1 DEF IInv, TypeOK
<1> QED
  BY <1>3, <1>4, <1>5, <1>6 DEF Promise!Break, Promise!vars, HeldGrants, HeldBacking

LEMMA FreeVirtualReleases ==
  ASSUME IInv, NEW a \in held, FreeVirtual(a)
  PROVE  Promise!Next
<1>1. PICK r \in HeldSlots :
        /\ HeldSlots' = HeldSlots \ {r}
        /\ m_pages' = m_pages \cup {tables[p].address : p \in PagesOf(r)}
        /\ botched' = botched
        /\ \A s \in HeldSlots : PagesOf(s)' = PagesOf(s)
        /\ \A s \in HeldSlots \ {r} : /\ PagesOf(s) \cap PagesOf(r) = {}
                                      /\ \A p \in PagesOf(s) : tables'[p] = tables[p]
  BY FreeVirtualKeepsIInv
<1> DEFINE P == PagesOf(r)
<1>2. HeldPages' = HeldPages \ P /\ P \subseteq HeldPages
  BY <1>1 DEF HeldPages
<1>3. \A p \in HeldPages \ P : tables'[p] = tables[p]
  BY <1>1 DEF HeldPages
<1>4. P # {}
  BY UsedInHeap DEF IInv, HeldSlots
<1>5. {PagesOf(s) : s \in HeldSlots}' = {PagesOf(s) : s \in HeldSlots} \ {P}
  <2>1. \A s \in HeldSlots \ {r} : PagesOf(s) # P
    BY <1>1, <1>4
  <2> QED
    BY <1>1, <2>1
<1>6. [p \in HeldPages |-> tables[p].address]' =
        [p \in HeldPages \ P |-> [q \in HeldPages |-> tables[q].address][p]]
  BY <1>2, <1>3
<1>7. {tables[p].address : p \in P} =
        {[q \in HeldPages |-> tables[q].address][p] : p \in P}
  BY <1>2
<1>8. PICK Q \in {PagesOf(s) : s \in HeldSlots} : Q = P
  OBVIOUS
<1>9. Promise!Release(Q)
  BY <1>1, <1>5, <1>6, <1>7, <1>8
     DEF Promise!Release, Promise!Granted, HeldPages, HeldGrants, HeldBacking
<1> QED
  BY <1>8, <1>9 DEF Promise!Next, HeldGrants

LEMMA InitRefines == Init => Promise!Init
<1> SUFFICES ASSUME Init PROVE Promise!Init
  OBVIOUS
<1>1. HeldSlots = {}
  BY InitRgnInv DEF Init, HeldSlots
<1>2. HeldPages = {}
  BY <1>1 DEF HeldPages
<1> QED
  BY <1>1, <1>2 DEF Init, Promise!Init, HeldGrants, HeldBacking

LEMMA NextRefines == IInv /\ [Next]_vars => [Promise!Next]_(Promise!vars)
<1> SUFFICES ASSUME IInv, [Next]_vars
             PROVE  Promise!Next \/ UNCHANGED Promise!vars
  OBVIOUS
<1>1. CASE \E n \in Requests : AllocVirtual(n)
  BY <1>1, AllocVirtualGrants
<1>2. CASE \E n \in Requests : AllocOutOfFrames(n)
  BY <1>2, AllocOutOfFramesBreaks DEF Promise!Next
<1>3. CASE \E a \in held : FreeVirtual(a)
  BY <1>3, FreeVirtualReleases
<1>4. CASE \/ \E n \in Requests : AllocNoRegion(n)
           \/ \E p \in Pages : TlbFill(p)
           \/ \E t \in tlb : TlbEvict(t)
           \/ UNCHANGED vars
  <2>1. UNCHANGED <<m_pages, m_rgns, tables, held, botched>>
    BY <1>4, TlbStepsKeepIInv DEF AllocNoRegion
  <2> QED
    BY <2>1 DEF Promise!vars, HeldPages, HeldSlots, PagesOf, HeldGrants, HeldBacking
<1> QED
  BY <1>1, <1>2, <1>3, <1>4 DEF Next

(* alloc_virtual and free_virtual keep the promise of PageGrants.          *)
THEOREM Refinement == Spec => ImplementsPageGrants
BY InductiveInvariant, InitRefines, NextRefines, PTL
   DEF Spec, ImplementsPageGrants, Promise!Spec

(* What every step of PageGrants preserves, the grants being HeldGrants    *)
(* and the frames behind them HeldBacking.                                 *)
PromiseInv == Promise!TypeOK /\ Promise!GrantsDisjoint /\ Promise!FramesAccounted

LEMMA PromiseInit == Usable \subseteq Frames /\ Promise!Init => PromiseInv
BY DEF Promise!Init, PromiseInv, Promise!TypeOK, Promise!Granted,
     Promise!GrantsDisjoint, Promise!FramesAccounted

LEMMA GrantKeepsPromise ==
  ASSUME PromiseInv, NEW P \in SUBSET Heap, Promise!Grant(P)
  PROVE  PromiseInv'
<1>1. PICK f \in [P -> m_pages] :
        /\ \A p, q \in P : p # q => f[p] # f[q]
        /\ HeldBacking' = [p \in Promise!Granted \cup P |-> IF p \in P THEN f[p] ELSE HeldBacking[p]]
        /\ m_pages' = m_pages \ {f[p] : p \in P}
  BY DEF Promise!Grant
<1>2. P \cap Promise!Granted = {} /\ HeldGrants' = HeldGrants \cup {P} /\ botched' = botched
  BY DEF Promise!Grant
<1>3. Promise!Granted' = Promise!Granted \cup P
  BY <1>2 DEF Promise!Granted
<1>4. /\ \A p \in P : HeldBacking'[p] = f[p] /\ f[p] \in m_pages
      /\ \A p \in Promise!Granted : HeldBacking'[p] = HeldBacking[p]
  BY <1>1, <1>2
<1>5. Promise!TypeOK'
  BY <1>1, <1>2, <1>3 DEF PromiseInv, Promise!TypeOK
<1>6. Promise!GrantsDisjoint'
  BY <1>2 DEF PromiseInv, Promise!GrantsDisjoint, Promise!Granted
<1>7. Promise!FramesAccounted'
  <2> SUFFICES ASSUME ~botched
               PROVE  /\ m_pages' \cup {HeldBacking'[p] : p \in Promise!Granted'} = Usable
                      /\ \A p \in Promise!Granted' : HeldBacking'[p] \notin m_pages'
                      /\ \A p, q \in Promise!Granted' : p # q => HeldBacking'[p] # HeldBacking'[q]
    BY <1>2 DEF Promise!FramesAccounted
  <2>1. /\ m_pages \cup {HeldBacking[p] : p \in Promise!Granted} = Usable
        /\ \A p \in Promise!Granted : HeldBacking[p] \notin m_pages
        /\ \A p, q \in Promise!Granted : p # q => HeldBacking[p] # HeldBacking[q]
    BY DEF PromiseInv, Promise!FramesAccounted
  <2>2. {HeldBacking'[p] : p \in Promise!Granted'} =
          {HeldBacking[p] : p \in Promise!Granted} \cup {f[p] : p \in P}
    BY <1>2, <1>3, <1>4
  <2>3. m_pages' \cup {HeldBacking'[p] : p \in Promise!Granted'} = Usable
    <3>1. {f[p] : p \in P} \subseteq m_pages
      BY <1>4
    <3> QED
      BY <1>1, <2>1, <2>2, <3>1
  <2>4. \A p \in Promise!Granted' : HeldBacking'[p] \notin m_pages'
    BY <1>1, <1>3, <1>4, <2>1
  <2>5. \A p, q \in Promise!Granted' : p # q => HeldBacking'[p] # HeldBacking'[q]
    BY <1>1, <1>3, <1>4, <2>1
  <2> QED
    BY <2>3, <2>4, <2>5
<1> QED
  BY <1>5, <1>6, <1>7 DEF PromiseInv

LEMMA ReleaseKeepsPromise ==
  ASSUME PromiseInv, NEW P \in HeldGrants, Promise!Release(P)
  PROVE  PromiseInv'
<1>1. /\ HeldGrants' = HeldGrants \ {P}
      /\ HeldBacking' = [p \in Promise!Granted \ P |-> HeldBacking[p]]
      /\ m_pages' = m_pages \cup {HeldBacking[p] : p \in P}
      /\ botched' = botched
  BY DEF Promise!Release
<1>2. Promise!Granted' = Promise!Granted \ P
  <2>1. \A Q \in HeldGrants : Q # P => Q \cap P = {}
    BY DEF PromiseInv, Promise!GrantsDisjoint
  <2> QED
    BY <1>1, <2>1 DEF Promise!Granted
<1>3. P \subseteq Promise!Granted
  BY DEF Promise!Granted
<1>4. Promise!TypeOK'
  BY <1>1, <1>2, <1>3 DEF PromiseInv, Promise!TypeOK
<1>5. Promise!GrantsDisjoint'
  BY <1>1 DEF PromiseInv, Promise!GrantsDisjoint
<1>6. Promise!FramesAccounted'
  BY <1>1, <1>2, <1>3 DEF PromiseInv, Promise!FramesAccounted
<1> QED
  BY <1>4, <1>5, <1>6 DEF PromiseInv

LEMMA PromiseStep == PromiseInv /\ [Promise!Next]_(Promise!vars) => PromiseInv'
<1> SUFFICES ASSUME PromiseInv, [Promise!Next]_(Promise!vars) PROVE PromiseInv'
  OBVIOUS
<1>1. CASE \E b \in Heap, n \in Requests :
             b .. (b + n - 1) \subseteq Heap /\ Promise!Grant(b .. (b + n - 1))
  BY <1>1, GrantKeepsPromise
<1>2. CASE \E P \in HeldGrants : Promise!Release(P)
  BY <1>2, ReleaseKeepsPromise
<1>3. CASE Promise!Break
  BY <1>3 DEF Promise!Break, PromiseInv, Promise!TypeOK, Promise!Granted,
       Promise!GrantsDisjoint, Promise!FramesAccounted
<1>4. CASE UNCHANGED Promise!vars
  BY <1>4 DEF Promise!vars, PromiseInv, Promise!TypeOK, Promise!Granted,
       Promise!GrantsDisjoint, Promise!FramesAccounted
<1> QED
  BY <1>1, <1>2, <1>3, <1>4 DEF Promise!Next

(* Whatever keeps the promise of PageGrants accounts for its frames and    *)
(* never grants a page twice.                                              *)
THEOREM PromiseAccounts ==
  ImplementsPageGrants => [](Promise!FramesAccounted /\ Promise!GrantsDisjoint)
<1>1. Promise!Init => PromiseInv
  BY PromiseInit, UsableAssumption
<1>2. PromiseInv => Promise!FramesAccounted /\ Promise!GrantsDisjoint
  BY DEF PromiseInv
<1> QED
  BY <1>1, <1>2, PromiseStep, PTL DEF ImplementsPageGrants, Promise!Spec

(* As long as no allocation has run out of frames half way, no frame is    *)
(* lost and no two pages of blocks share one.                              *)
THEOREM FramesAreAccounted == Spec => []FramesAccounted
<1>1. Promise!FramesAccounted => FramesAccounted
  <2>1. \A p \in HeldPages : HeldBacking[p] = tables[p].address
    BY DEF HeldBacking
  <2>2. {HeldBacking[p] : p \in HeldPages} = {tables[p].address : p \in HeldPages}
    BY <2>1
  <2>3. Promise!Granted = HeldPages
    BY DEF Promise!Granted, HeldGrants, HeldPages
  <2> QED
    BY <2>1, <2>2, <2>3 DEF Promise!FramesAccounted, FramesAccounted
<1> QED
  BY <1>1, Refinement, PromiseAccounts, PTL

-----------------------------------------------------------------------------
(***************************************************************************)
(* Where Memory begins: sysinit() (module Boot) leaves the regions and the *)
(* bitmap that Memory starts with, whatever memory map it is given.        *)
(***************************************************************************)
(* What the division by the size of a page returns.                        *)
LEMMA DivPage ==
  ASSUME NEW p \in Nat \ {0}, NEW v \in Nat
  PROVE  /\ v \div p \in Nat /\ (v % p) \in 0 .. p - 1
         /\ v = (v \div p) * p + (v % p)
OBVIOUS

LEMMA Multiple ==
  ASSUME NEW p \in Nat \ {0}, NEW q \in Nat
  PROVE  ((q * p) % p) = 0 /\ (q * p) \div p = q
OBVIOUS

LEMMA TimesOrder ==
  ASSUME NEW p \in Nat \ {0}, NEW m \in Int, NEW n \in Int
  PROVE  /\ m * p < n * p <=> m < n
         /\ m * p < n * p + p => m <= n
OBVIOUS

LEMMA PagePlus ==
  ASSUME NEW p \in Nat, NEW m \in Int
  PROVE  (m + 1) * p = m * p + p /\ m * p \in Int /\ (m \in Nat => m * p \in Nat)
OBVIOUS

(* The address space in bytes.                                             *)
LEMMA Space ==
         /\ AddressSpace = PageCount * PageSize
         /\ AddressSpace \in Nat \ {0} /\ PageCount \in Nat /\ PageCount >= 12
         /\ PageSize <= AddressSpace
         /\ PageSize \in Nat \ {0}
<1>1. PageCount \in Nat /\ PageCount >= 12 /\ PageSize \in Nat \ {0}
  BY QuarterAssumption, SizesAssumption DEF PageCount
<1>2. AddressSpace = PageCount * PageSize
  BY DEF AddressSpace, PageCount
<1>3. ASSUME NEW n \in Nat, n >= 12, NEW p \in Nat \ {0}
      PROVE  n * p \in Nat \ {0} /\ p <= n * p
  BY <1>3
<1> QED BY <1>1, <1>2, <1>3

(* Additions of uint32_t below and at the end of the address space.        *)
LEMMA WrapIs ==
  ASSUME NEW v \in Nat
  PROVE  /\ v < AddressSpace => Wrap(v) = v
         /\ v = AddressSpace => Wrap(v) = 0
<1>1. ASSUME NEW a \in Nat \ {0}, NEW w \in Nat
      PROVE  (w < a => (w % a) = w) /\ (a % a) = 0
  BY <1>1
<1> QED BY <1>1, Space DEF Wrap

(* An address rounded up to the end of its page, which may be that of the  *)
(* address space.                                                          *)
LEMMA AlignUpIs ==
  ASSUME NEW v \in 0 .. AddressSpace - 1
  PROVE  \E n \in 0 .. PageCount :
            /\ AlignUp(v) = (IF n = PageCount THEN 0 ELSE n * PageSize)
            /\ v <= n * PageSize /\ n * PageSize < v + PageSize
<1> DEFINE q == v \div PageSize
           r == v % PageSize
<1>0. AddressSpace \in Nat /\ v \in Nat
  BY Space
<1>1. q \in Nat /\ r \in 0 .. PageSize - 1 /\ v = q * PageSize + r
  BY <1>0, DivPage, Space
<1>2. q * PageSize \in Nat /\ (q + 1) * PageSize = q * PageSize + PageSize
  BY <1>1, PagePlus, Space
<1>3. q < PageCount
  <2> HIDE DEF q, r
  <2>1. q * PageSize < PageCount * PageSize
    BY <1>0, <1>1, <1>2, Space
  <2> QED BY <1>1, <2>1, TimesOrder, Space
<1>4. AlignUp(v) = IF r = 0 THEN v ELSE Wrap(v - r + PageSize)
  BY DEF AlignUp
<1> HIDE DEF q, r
<1>5. CASE r = 0
  <2>1. v = q * PageSize /\ q # PageCount
    BY <1>1, <1>2, <1>3, <1>5, Space
  <2> QED BY <2>1, <1>1, <1>2, <1>3, <1>4, <1>5, Space
<1>6. CASE r # 0
  <2>1. v - r + PageSize = (q + 1) * PageSize
    BY <1>1, <1>2, <1>0, Space
  <2>2. q + 1 \in 0 .. PageCount
    BY <1>1, <1>3, Space
  <2>3. q + 1 = PageCount => (q + 1) * PageSize = AddressSpace
    BY Space
  <2>4. q + 1 # PageCount => (q + 1) * PageSize < AddressSpace
    BY <1>1, <1>3, TimesOrder, Space
  <2>5. (q + 1) * PageSize \in Nat
    BY <1>2, Space
  <2>6. AlignUp(v) = Wrap((q + 1) * PageSize)
    BY <1>4, <1>6, <2>1
  <2>7. AlignUp(v) = IF q + 1 = PageCount THEN 0 ELSE (q + 1) * PageSize
    BY <2>3, <2>4, <2>5, <2>6, WrapIs
  <2>8. v <= (q + 1) * PageSize /\ (q + 1) * PageSize < v + PageSize
    BY <1>1, <1>2, <1>6, Space
  <2> QED BY <2>2, <2>7, <2>8
<1> QED BY <1>5, <1>6

(* The frames of a range are those with a byte in it, when its end is not  *)
(* in the last page.  In any case they have one.                           *)
Touches(f, base, length) ==
  /\ base < f * PageSize + PageSize
  /\ f * PageSize < base + length

LEMMA FramesTouch ==
  ASSUME NEW base \in Nat, NEW length \in Nat,
         base + length <= AddressSpace, NEW f
  PROVE  /\ f \in FramesOf(base, length) => f \in Frames /\ Touches(f, base, length)
         /\ (base + length <= AddressSpace - PageSize /\ f \in Frames /\ Touches(f, base, length))
              => f \in FramesOf(base, length)
<1> DEFINE first == base \div PageSize
           v == Wrap(base + length)
<1>0. /\ AddressSpace \in Nat \ {0} /\ PageSize \in Nat \ {0}
      /\ PageCount \in Nat /\ PageCount >= 12
  BY Space
<1>1. /\ first \in Nat /\ first * PageSize \in Nat
      /\ first * PageSize <= base /\ base < first * PageSize + PageSize
  <2>1. first \in Nat /\ base % PageSize \in 0 .. PageSize - 1
        /\ base = first * PageSize + (base % PageSize)
    BY <1>0, DivPage
  <2> HIDE DEF first
  <2>2. first * PageSize \in Nat
    BY <1>0, <2>1, PagePlus
  <2> QED BY <1>0, <2>1, <2>2
<1>2. /\ v \in 0 .. AddressSpace - 1
      /\ v = base + length \/ (v = 0 /\ base + length = AddressSpace)
  BY <1>0, WrapIs
<1> HIDE DEF v
<1>3. PICK n \in 0 .. PageCount :
         /\ AlignUp(v) = (IF n = PageCount THEN 0 ELSE n * PageSize)
         /\ v <= n * PageSize /\ n * PageSize < v + PageSize
  BY <1>2, AlignUpIs
<1>4. n * PageSize \in Nat
  BY <1>0, PagePlus
<1>5. FramesOf(base, length) = first .. (IF n = PageCount THEN 0 ELSE n) - 1
  <2>1. AlignUp(v) \div PageSize = IF n = PageCount THEN 0 ELSE n
    <3>1. (n * PageSize) \div PageSize = n
      BY <1>0, Multiple
    <3>2. (0 * PageSize) \div PageSize = 0 /\ 0 * PageSize = 0
      BY <1>0, Multiple
    <3> QED BY <1>3, <3>1, <3>2
  <2> QED BY <2>1 DEF v, first, FramesOf
<1> HIDE DEF first
<1>6. ASSUME f \in FramesOf(base, length)
      PROVE  f \in Frames /\ Touches(f, base, length)
  <2>1. f \in Nat /\ first <= f /\ f < n /\ n # PageCount
    BY <1>0, <1>1, <1>5, <1>6
  <2>2. f \in Frames
    BY <1>0, <2>1 DEF Frames
  <2>3. f * PageSize \in Nat /\ first * PageSize <= f * PageSize
    BY <1>0, <1>1, <2>1, PagePlus, TimesOrder
  <2>4. f * PageSize + PageSize <= n * PageSize
    <3>1. (f + 1) * PageSize = f * PageSize + PageSize /\ n \in Nat
      BY <1>0, <2>1, PagePlus
    <3>2. ~(n * PageSize < (f + 1) * PageSize)
      BY <1>0, <2>1, <3>1, TimesOrder
    <3> QED BY <1>0, <1>4, <2>3, <3>1, <3>2
  <2>5. f * PageSize < v
    BY <1>0, <1>2, <1>3, <1>4, <2>3, <2>4
  <2> QED BY <1>0, <1>1, <1>2, <2>2, <2>3, <2>5 DEF Touches
<1>7. ASSUME base + length <= AddressSpace - PageSize, f \in Frames, Touches(f, base, length)
      PROVE  f \in FramesOf(base, length)
  <2>1. v = base + length /\ f \in Nat /\ f < PageCount
    BY <1>0, <1>2, <1>7 DEF Frames
  <2>2. f * PageSize \in Nat
    BY <1>0, <2>1, PagePlus
  <2>3. first <= f
    BY <1>0, <1>1, <1>7, <2>1, <2>2, TimesOrder DEF Touches
  <2>4. f < n
    <3>1. f * PageSize < n * PageSize
      BY <1>0, <1>3, <1>4, <1>7, <2>1, <2>2 DEF Touches
    <3> QED BY <1>0, <2>1, <3>1, TimesOrder
  <2>5. n # PageCount
    <3>1. PageCount * PageSize = AddressSpace
      BY Space
    <3> QED BY <1>0, <1>3, <1>4, <1>7, <2>1, <3>1
  <2> QED BY <1>0, <1>1, <1>5, <2>1, <2>3, <2>4, <2>5
<1> QED BY <1>6, <1>7

(* What preinit frees of a region has a byte of it, and misses none of its *)
(* frames unless it ends in the last page.                                 *)
Given(b) == FramesOf(b.base, Wrap(Clamped(b)))

LEMMA GivenUsable ==
  ASSUME NEW b \in BiosRegion, Considered(b), NEW f \in Given(b)
  PROVE  f \in Frames /\ BytesOf(f) \cap UsableIn(b) # {}
<1> DEFINE A == AddressSpace
           c == Wrap(Clamped(b))
<1>0. A \in Nat \ {0} /\ PageSize \in Nat \ {0} /\ PageCount \in Nat
  BY Space
<1>1. /\ b.base \in Nat /\ b.length \in Nat /\ b.length # 0 /\ b.type = "usable" /\ b.base <= A - 1
  BY <1>0 DEF Considered, BiosRegion
<1>2. /\ Clamped(b) \in Nat /\ Clamped(b) <= A - b.base
      /\ Clamped(b) <= b.length
  BY <1>0, <1>1 DEF Clamped
<1>3. c \in Nat /\ c <= Clamped(b)
  BY <1>0, <1>1, <1>2, WrapIs
<1> HIDE DEF c, A
<1>4. f \in Frames /\ Touches(f, b.base, c)
  <2>1. b.base + c <= AddressSpace
    BY <1>0, <1>1, <1>2, <1>3 DEF A
  <2> QED BY <1>1, <1>3, <2>1, FramesTouch DEF c, Given
<1>5. f \in Nat /\ f * PageSize \in Nat
  BY <1>0, <1>4, PagePlus DEF Frames
<1>6. PICK x \in Nat : x = IF b.base <= f * PageSize THEN f * PageSize ELSE b.base
  BY <1>1, <1>5
<1>7. x \in BytesOf(f)
  BY <1>0, <1>1, <1>4, <1>5, <1>6 DEF Touches, BytesOf
<1>8. x \in UsableIn(b)
  BY <1>0, <1>1, <1>2, <1>3, <1>4, <1>5, <1>6 DEF Touches, UsableIn
<1> QED BY <1>4, <1>7, <1>8

LEMMA UsableGiven ==
  ASSUME NEW b \in BiosRegion, NEW f \in Frames,
         BytesOf(f) \subseteq UsableIn(b),
         b.base + b.length <= AddressSpace - PageSize
  PROVE  Considered(b) /\ f \in Given(b)
<1> DEFINE A == AddressSpace
<1>0. A \in Nat \ {0} /\ PageSize \in Nat \ {0} /\ PageCount \in Nat
  BY Space
<1>1. /\ b.base \in Nat /\ b.length \in Nat
  BY DEF BiosRegion
<1>2. f \in Nat /\ f * PageSize \in Nat
  BY <1>0, PagePlus DEF Frames
<1>3. f * PageSize \in UsableIn(b)
  BY <1>0, <1>2 DEF BytesOf
<1>4. b.type = "usable" /\ b.base <= f * PageSize /\ f * PageSize < b.base + b.length
  BY <1>1, <1>2, <1>3 DEF UsableIn
<1> HIDE DEF A
<1>5. b.length # 0 /\ b.base <= A - 1
  BY <1>0, <1>1, <1>2, <1>4 DEF A
<1>6. Considered(b)
  BY <1>4, <1>5 DEF A, Considered
<1>7. Clamped(b) = b.length /\ b.length < A
  BY <1>0, <1>1, <1>5 DEF A, Clamped
<1>8. Wrap(b.length) = b.length
  BY <1>1, <1>7, WrapIs DEF A
<1>9. Touches(f, b.base, b.length)
  BY <1>0, <1>1, <1>2, <1>4 DEF Touches
<1>10. f \in FramesOf(b.base, b.length)
  <2>1. b.base + b.length <= AddressSpace
    BY <1>0, <1>1 DEF A
  <2> QED BY <1>1, <1>9, <2>1, FramesTouch
<1> QED BY <1>6, <1>7, <1>8, <1>10 DEF Given

(* disable_physical reserves every frame of the kernel and no other.       *)
LEMMA KernelFrames ==
  ASSUME NEW f \in Frames
  PROVE  f \notin FramesOf(0, KernelSize) <=> NotKernel(f)
<1>0. AddressSpace \in Nat \ {0} /\ PageSize \in Nat \ {0} /\ PageCount \in Nat
  BY Space
<1>1. KernelSize \in Nat /\ KernelSize <= AddressSpace - PageSize
  BY <1>0, SizesAssumption
<1>2. f \in Nat /\ f * PageSize \in Nat
  BY <1>0, PagePlus DEF Frames
<1>3. Touches(f, 0, KernelSize) <=> ~NotKernel(f)
  BY <1>0, <1>1, <1>2 DEF Touches, NotKernel
<1>4. 0 + KernelSize = KernelSize /\ KernelSize <= AddressSpace
  BY <1>0, <1>1
<1> QED BY <1>1, <1>3, <1>4, FramesTouch

(* The bitmap at any step of sysinit().                                    *)
FramesGiven(n) ==
  /\ \A f \in m_pages :
       /\ f \in Frames
       /\ \E k \in 1 .. n : BytesOf(f) \cap UsableIn(bios[k]) # {}
  /\ \A k \in 1 .. n, f \in Frames :
       (/\ BytesOf(f) \subseteq UsableIn(bios[k])
        /\ bios[k].base + bios[k].length <= AddressSpace - PageSize)
       => f \in m_pages

Bitmap ==
  /\ bios \in Seq(BiosRegion)
  /\ pc \in {"preinit", "reserve", "disable", "done"}
  /\ scanned \in 0 .. Len(bios)
  /\ pc \in {"preinit", "reserve"} => FramesGiven(scanned)
  /\ pc # "preinit" => scanned = Len(bios)
  /\ pc \in {"disable", "done"} =>
       m_pages \subseteq Frames /\ FreeFramesAreUsable /\ UsableFramesAreFree

LEMMA BitmapInit == ASSUME BootInit PROVE Bitmap
<1>1. bios \in BiosMaps \/ bios = <<>>
  BY DEF BootInit
<1>2. BiosMaps \subseteq Seq(BiosRegion)
  BY MapsAssumption
<1>3. <<>> \in Seq(BiosRegion) /\ Len(bios) \in Nat
  <2> HIDE DEF BiosRegion
  <2>1. <<>> \in Seq(BiosRegion)
    OBVIOUS
  <2> QED BY <1>1, <1>2, <2>1
<1>4. bios \in Seq(BiosRegion)
  BY <1>1, <1>2, <1>3
<1>5. FramesGiven(0)
  BY DEF BootInit, FramesGiven
<1> QED BY <1>3, <1>4, <1>5 DEF BootInit, Bitmap

LEMMA BitmapPreinit == ASSUME Bitmap, PreinitRegion PROVE Bitmap'
<1> DEFINE n == scanned
           b == bios[n + 1]
<1>1. /\ pc = "preinit" /\ n < Len(bios) /\ UNCHANGED <<pc, bios>> /\ scanned' = n + 1
      /\ m_pages' = IF Considered(b) THEN m_pages \cup Given(b) ELSE m_pages
  BY DEF PreinitRegion, Given
<1>2. Len(bios) \in Nat /\ n \in 0 .. Len(bios) /\ FramesGiven(n)
  BY <1>1 DEF Bitmap
<1>3. b \in BiosRegion
  <2>1. n + 1 \in 1 .. Len(bios)
    BY <1>1, <1>2
  <2> QED BY <2>1 DEF Bitmap
<1>4. FramesGiven(scanned)'
  <2>1. ASSUME NEW f \in m_pages'
        PROVE  /\ f \in Frames
               /\ \E k \in 1 .. n + 1 : BytesOf(f) \cap UsableIn(bios[k]) # {}
    <3>1. CASE f \in m_pages
      BY <1>2, <3>1 DEF FramesGiven
    <3>2. CASE Considered(b) /\ f \in Given(b)
      <4>1. n + 1 \in 1 .. n + 1
        BY <1>2
      <4> QED BY <1>3, <3>2, <4>1, GivenUsable
    <3> QED BY <1>1, <2>1, <3>1, <3>2
  <2>2. ASSUME NEW k \in 1 .. n + 1, NEW f \in Frames,
               BytesOf(f) \subseteq UsableIn(bios[k]),
               bios[k].base + bios[k].length <= AddressSpace - PageSize
        PROVE  f \in m_pages'
    <3>1. CASE k \in 1 .. n
      BY <1>1, <1>2, <2>2, <3>1 DEF FramesGiven
    <3>2. CASE k = n + 1
      <4>1. Considered(b) /\ f \in Given(b)
        BY <1>3, <2>2, <3>2, UsableGiven
      <4> QED BY <1>1, <4>1
    <3> QED BY <1>2, <2>2, <3>1, <3>2
  <2> HIDE DEF b, n
  <2>3. scanned' = n + 1 /\ bios' = bios
    BY <1>1
  <2> QED BY <2>1, <2>2, <2>3 DEF FramesGiven, BytesOf, UsableIn
<1>5. scanned' \in 0 .. Len(bios)
  BY <1>1, <1>2
<1> QED BY <1>1, <1>4, <1>5 DEF Bitmap

LEMMA BitmapReserve == ASSUME Bitmap, Reserve PROVE Bitmap'
<1>1. /\ pc = "reserve" /\ pc' = "disable" /\ UNCHANGED <<bios, scanned>>
      /\ m_pages' = m_pages \ FramesOf(0, KernelSize)
  BY DEF Reserve
<1>2. scanned = Len(bios) /\ FramesGiven(Len(bios))
  BY <1>1 DEF Bitmap
<1>3. \A f \in Frames : f \in m_pages' <=> f \in m_pages /\ NotKernel(f)
  BY <1>1, KernelFrames
<1>4. DOMAIN bios = 1 .. Len(bios)
  BY DEF Bitmap
<1>5. m_pages' \subseteq Frames
  BY <1>1, <1>2 DEF FramesGiven
<1>6. FreeFramesAreUsable'
  <2>1. ASSUME NEW f \in m_pages'
        PROVE  /\ NotKernel(f)
               /\ \E k \in DOMAIN bios : BytesOf(f) \cap UsableIn(bios[k]) # {}
    BY <1>1, <1>2, <1>3, <1>4, <1>5, <2>1 DEF FramesGiven
  <2> QED BY <1>1, <2>1 DEF FreeFramesAreUsable, NotKernel
<1>7. UsableFramesAreFree'
  <2>2. ASSUME NEW k \in DOMAIN bios, NEW f \in Frames,
               BytesOf(f) \subseteq UsableIn(bios[k]), NotKernel(f),
               bios[k].base + bios[k].length <= AddressSpace - PageSize
        PROVE  f \in m_pages'
    <3>1. f \in m_pages
      BY <1>2, <1>4, <2>2 DEF FramesGiven
    <3> QED BY <1>3, <2>2, <3>1
  <2> QED BY <1>1, <2>2 DEF UsableFramesAreFree, NotKernel
<1> QED BY <1>1, <1>2, <1>5, <1>6, <1>7 DEF Bitmap

LEMMA BitmapStep ==
  ASSUME Bitmap, [BootNext]_bootVars PROVE Bitmap'
<1>1. CASE PreinitRegion
  BY <1>1, BitmapPreinit
<1>2. CASE Reserve
  BY <1>2, BitmapReserve
<1>3. CASE PreinitDone
  <2>1. /\ pc = "preinit" /\ pc' = "reserve" /\ scanned = Len(bios)
        /\ UNCHANGED <<bios, scanned, m_pages>>
    BY <1>3 DEF PreinitDone
  <2>2. FramesGiven(scanned)'
    BY <2>1 DEF Bitmap, FramesGiven
  <2> QED BY <2>1, <2>2 DEF Bitmap
<1>4. ASSUME UNCHANGED <<bios, scanned, m_pages>>,
             pc' = pc \/ (pc = "disable" /\ pc' = "done")
      PROVE  Bitmap'
  <2>1. FramesGiven(scanned) => FramesGiven(scanned)'
    BY <1>4 DEF FramesGiven
  <2>2. FreeFramesAreUsable => FreeFramesAreUsable'
    BY <1>4 DEF FreeFramesAreUsable
  <2>3. UsableFramesAreFree => UsableFramesAreFree'
    BY <1>4 DEF UsableFramesAreFree
  <2> QED BY <1>4, <2>1, <2>2, <2>3 DEF Bitmap
<1>5. CASE SkipRegion \/ DisableWhole \/ DisableHead
  BY <1>4, <1>5 DEF SkipRegion, DisableWhole, DisableHead
<1>6. CASE DisableMiddle
  BY <1>4, <1>6 DEF DisableMiddle
<1>7. CASE DisableTail
  BY <1>4, <1>7 DEF DisableTail
<1>8. CASE NextCall \/ Finish
  BY <1>4, <1>8 DEF NextCall, Finish
<1>9. CASE UNCHANGED bootVars
  BY <1>4, <1>9 DEF bootVars
<1> QED BY <1>1, <1>2, <1>3, <1>5, <1>6, <1>7, <1>8, <1>9 DEF BootNext

(***************************************************************************)
(* The array of regions, as the calls of disable_virtual that sysinit()    *)
(* makes leave it one after the other.                                     *)
(***************************************************************************)
OneFree ==
  [s \in Slots |-> IF s = 0 THEN Rgn("free", 0, PageCount, NULL, NULL) ELSE NoRegion]
FirstCut ==
  [s \in Slots |->
    CASE s = 0 -> Rgn("disabled", 0, Quarter - 1, 1, NULL)
      [] s = 1 -> Rgn("free", Quarter, 3 * Quarter, NULL, 0)
      [] OTHER -> NoRegion]
SecondCut ==
  [s \in Slots |->
    CASE s = 0 -> Rgn("disabled", 0, Quarter - 1, 2, NULL)
      [] s = 1 -> Rgn("disabled", 2 * Quarter, Quarter, 3, 2)
      [] s = 2 -> Rgn("free", Quarter, Quarter - 1, 1, 0)
      [] s = 3 -> Rgn("free", 3 * Quarter, Quarter + 1, NULL, 1)
      [] OTHER -> NoRegion]

Carving ==
  \/ call = 0 /\ rgn = NULL /\ m_rgns = OneFree
  \/ call = 1 /\ rgn = 0 /\ m_rgns = OneFree
  \/ call = 1 /\ rgn \in {1, NULL} /\ m_rgns = FirstCut
  \/ call = 2 /\ rgn \in {0, 1} /\ m_rgns = FirstCut
  \/ call = 2 /\ rgn = NULL /\ m_rgns = SecondCut
  \/ call = 3 /\ rgn \in {0, 1, 2, 3} /\ m_rgns = SecondCut
  \/ call = 3 /\ rgn \in {4, NULL} /\ m_rgns = BootRegions

Carved ==
  /\ calls = SysinitCalls
  /\ pc \in {"preinit", "reserve", "disable", "done"}
  /\ pc \in {"preinit", "reserve"} => call = 0 /\ rgn = NULL
  /\ pc = "preinit" => m_rgns = [s \in Slots |-> NoRegion]
  /\ pc = "reserve" => m_rgns = OneFree
  /\ pc = "disable" => Carving
  /\ pc = "done" => call = 3 /\ rgn = NULL /\ m_rgns = BootRegions

(* The five slots that sysinit() fills are slots of the array.             *)
LEMMA SlotFacts ==
  /\ {0, 1, 2, 3, 4} \subseteq Slots /\ Slots \subseteq Nat
  /\ NULL \notin Slots /\ Quarter \in Nat /\ Quarter >= 3
  /\ PageCount = 4 * Quarter
BY QuarterAssumption, NullAssumption DEF Slots, PageCount

(* The pages that a call is for.                                           *)
LEMMA CallFacts ==
  ASSUME calls = SysinitCalls, call \in 1 .. 3
  PROVE  /\ addr = (IF call = 1 THEN 0 ELSE call * Quarter)
         /\ pages = Quarter
         /\ endaddr = addr + Quarter
         /\ Len(calls) = 3
<1> DEFINE x == IF call = 1 THEN 0 ELSE call * Quarter
<1>1. PageSize \in Nat \ {0} /\ Quarter \in Nat /\ x \in Nat
  BY QuarterAssumption, Space
<1>2. calls[call] = <<x * PageSize, Quarter * PageSize>>
  <2>1. calls[call] = <<(IF call = 1 THEN 0 ELSE call) * Quarter * PageSize,
                        Quarter * PageSize>>
    BY Zenon DEF SysinitCalls
  <2>2. (IF call = 1 THEN 0 ELSE call) * Quarter = x
    BY SlotFacts
  <2> QED
    BY <2>1, <2>2, Zenon
<1>3. Len(calls) = 3
  BY DEF SysinitCalls
<1> HIDE DEF x
<1>4. (x * PageSize) \div PageSize = x /\ (Quarter * PageSize) \div PageSize = Quarter
  BY <1>1, Multiple
<1>5. AlignUp(Quarter * PageSize) = Quarter * PageSize
  BY <1>1, Multiple DEF AlignUp
<1>6. addr = x
  BY <1>2, <1>4 DEF addr, addrOf
<1>7. pages = Quarter
  BY <1>2, <1>4, <1>5 DEF pages, pagesOf
<1>8. endaddr = addr + Quarter
  BY <1>7 DEF endaddr
<1> QED BY <1>3, <1>6, <1>7, <1>8 DEF x

LEMMA CallsAligned ==
  ASSUME calls = SysinitCalls, NEW k \in 1 .. 3
  PROVE  (calls[k][1] % PageSize) = 0
<1> DEFINE x == IF k = 1 THEN 0 ELSE k * Quarter
<1>1. PageSize \in Nat \ {0} /\ x \in Nat
  BY QuarterAssumption, Space
<1>2. calls[k][1] = x * PageSize
  BY SlotFacts DEF SysinitCalls
<1> HIDE DEF x
<1> QED BY <1>1, <1>2, Multiple

(* The first call: the head of the one region.                             *)
LEMMA CutsFirst ==
  ASSUME calls = SysinitCalls,
         call = 1, rgn = 0, m_rgns = OneFree,
         DisableHead
  PROVE  rgn' = 1 /\ m_rgns' = FirstCut
<1>1. addr = 0 /\ endaddr = Quarter
  BY CallFacts, SlotFacts
<1>2. /\ m_rgns[0] = Rgn("free", 0, PageCount, NULL, NULL)
      /\ \A s \in Slots \ {0} : m_rgns[s] = NoRegion
  BY SlotFacts DEF OneFree
<1>3. PICK e \in Slots :
       /\ GetUnused(e)
       /\ m_rgns' = LinkBack(
            [m_rgns EXCEPT ![e] = Behind, ![rgn].length = HeadLength,
                           ![rgn].next = e, ![rgn].type = "disabled"],
            m_rgns[rgn].next, e)
       /\ rgn' = e
  BY SlotFacts DEF DisableHead
<1>4. e = 1
  <2>1. e # 0
    BY <1>2, <1>3 DEF GetUnused, Rgn
  <2>2. ~(1 < e)
    BY <1>2, <1>3, SlotFacts DEF GetUnused, Rgn, NoRegion
  <2> QED BY <2>1, <2>2, SlotFacts
<1>5. HeadLength = Quarter - 1
  BY <1>1, <1>2, SlotFacts DEF HeadLength, Rgn
<1>6. Behind = Rgn("free", Quarter, 3 * Quarter, NULL, 0)
  BY <1>1, <1>2, <1>5, SlotFacts DEF Behind, Rgn
<1>7. m_rgns' = [m_rgns EXCEPT ![1] = Rgn("free", Quarter, 3 * Quarter, NULL, 0),
                               ![0].length = Quarter - 1, ![0].next = 1, ![0].type = "disabled"]
  BY <1>2, <1>3, <1>4, <1>5, <1>6 DEF LinkBack, Rgn
<1>8. DOMAIN m_rgns = Slots
  BY DEF OneFree
<1>9. ASSUME NEW s \in Slots PROVE m_rgns'[s] = FirstCut[s]
  <2>1. CASE s = 0
    BY <1>2, <1>7, <1>8, <2>1, SlotFacts DEF FirstCut, Rgn
  <2>2. CASE s = 1
    BY <1>2, <1>7, <1>8, <2>2, SlotFacts DEF FirstCut, Rgn
  <2>3. CASE s \notin {0, 1}
    BY <1>2, <1>7, <1>8, <2>3, SlotFacts DEF FirstCut
  <2> QED BY <2>1, <2>2, <2>3
<1>10. FirstCut = [s \in Slots |-> FirstCut[s]]
  BY DEF FirstCut
<1>11. m_rgns' = [s \in Slots |-> m_rgns'[s]]
  BY <1>7, <1>8
<1> QED BY <1>3, <1>4, <1>9, <1>10, <1>11

LEMMA Rows ==
  /\ OneFree[0] = Rgn("free", 0, PageCount, NULL, NULL)
  /\ FirstCut[0] = Rgn("disabled", 0, Quarter - 1, 1, NULL)
  /\ FirstCut[1] = Rgn("free", Quarter, 3 * Quarter, NULL, 0)
  /\ SecondCut[0] = Rgn("disabled", 0, Quarter - 1, 2, NULL)
  /\ SecondCut[1] = Rgn("disabled", 2 * Quarter, Quarter, 3, 2)
  /\ SecondCut[2] = Rgn("free", Quarter, Quarter - 1, 1, 0)
  /\ SecondCut[3] = Rgn("free", 3 * Quarter, Quarter + 1, NULL, 1)
  /\ BootRegions[4] = Rgn("free", 4 * Quarter, 1, NULL, 3)
  /\ \A s \in Slots \ {0} : OneFree[s] = NoRegion
  /\ \A s \in Slots \ {0, 1} : FirstCut[s] = NoRegion
  /\ \A s \in Slots \ {0, 1, 2, 3} : SecondCut[s] = NoRegion
  /\ DOMAIN OneFree = Slots /\ DOMAIN FirstCut = Slots /\ DOMAIN SecondCut = Slots
<1>1. /\ OneFree[0] = Rgn("free", 0, PageCount, NULL, NULL)
      /\ \A s \in Slots \ {0} : OneFree[s] = NoRegion
  BY SlotFacts DEF OneFree
<1>2. /\ FirstCut[0] = Rgn("disabled", 0, Quarter - 1, 1, NULL)
      /\ FirstCut[1] = Rgn("free", Quarter, 3 * Quarter, NULL, 0)
      /\ \A s \in Slots \ {0, 1} : FirstCut[s] = NoRegion
  BY SlotFacts DEF FirstCut
<1>3. /\ SecondCut[0] = Rgn("disabled", 0, Quarter - 1, 2, NULL)
      /\ SecondCut[1] = Rgn("disabled", 2 * Quarter, Quarter, 3, 2)
      /\ SecondCut[2] = Rgn("free", Quarter, Quarter - 1, 1, 0)
      /\ SecondCut[3] = Rgn("free", 3 * Quarter, Quarter + 1, NULL, 1)
      /\ \A s \in Slots \ {0, 1, 2, 3} : SecondCut[s] = NoRegion
  BY SlotFacts DEF SecondCut
<1>4. BootRegions[4] = Rgn("free", 4 * Quarter, 1, NULL, 3)
  BY SlotFacts DEF BootRegions, Rgn, NoRegion
<1>5. DOMAIN OneFree = Slots /\ DOMAIN FirstCut = Slots /\ DOMAIN SecondCut = Slots
  BY DEF OneFree, FirstCut, SecondCut
<1> QED BY <1>1, <1>2, <1>3, <1>4, <1>5

(* The slots of the array that get_unused returns: the first blank ones.   *)
LEMMA UnusedIs ==
  ASSUME NEW n \in 1 .. 4, NEW e \in Slots, GetUnused(e),
         \A s \in Slots : m_rgns[s].type = "none" <=> s >= n
  PROVE  e = n
<1>1. ~(n < e)
  BY SlotFacts DEF GetUnused
<1> QED BY <1>1, SlotFacts DEF GetUnused

LEMMA UnusedAfterIs ==
  ASSUME NEW n \in 1 .. 3, NEW f \in Slots, UnusedAfter(n, f),
         \A s \in Slots : m_rgns[s].type = "none" <=> s >= n
  PROVE  f = n + 1
<1>1. n + 1 \in Slots
  BY SlotFacts DEF Slots
<1>2. ~(n + 1 < f)
  BY <1>1, SlotFacts DEF UnusedAfter
<1> QED BY <1>2, SlotFacts DEF UnusedAfter

LEMMA SameArray ==
  ASSUME NEW f, NEW g, f = [s \in Slots |-> f[s]], g = [s \in Slots |-> g[s]],
         \A s \in Slots : f[s] = g[s]
  PROVE  f = g
OBVIOUS

(* The second call, in the middle of what the first has left.              *)
LEMMA CutsSecond ==
  ASSUME calls = SysinitCalls,
         call = 2, rgn = 1, m_rgns = FirstCut,
         DisableMiddle
  PROVE  rgn' = NULL /\ m_rgns' = SecondCut
<1> DEFINE before == Rgn("free", Quarter, Quarter - 1, 1, 0)
           after  == Rgn("free", 3 * Quarter, Quarter + 1, NULL, 1)
<1>1. addr = 2 * Quarter /\ endaddr = 3 * Quarter /\ pages = Quarter
  BY CallFacts, SlotFacts
<1>2. /\ m_rgns[1] = Rgn("free", Quarter, 3 * Quarter, NULL, 0)
      /\ End(rgn) = 4 * Quarter
  BY Rows, SlotFacts DEF End, Rgn
<1>3. \A s \in Slots : m_rgns[s].type = "none" <=> s >= 2
  <2>1. m_rgns[0].type = "disabled" /\ m_rgns[1].type = "free"
    BY Rows DEF Rgn
  <2>2. \A s \in Slots \ {0, 1} : m_rgns[s].type = "none"
    BY Rows DEF Rgn, NoRegion
  <2> QED BY <2>1, <2>2, SlotFacts
<1>4. PICK e \in Slots, f \in Slots :
       LET r      == m_rgns[rgn]
           bef    == [type |-> "free", base |-> r.base, length |-> addr - r.base - 1,
                      next |-> rgn, prev |-> r.prev]
           aft    == [type |-> "free", base |-> endaddr,
                      length |-> r.length - pages - bef.length,
                      next |-> r.next, prev |-> rgn]
           cut    == LinkOn([m_rgns EXCEPT ![e] = bef], r.prev, e)
           split  == LinkBack([cut EXCEPT ![f] = aft, ![rgn].next = f], r.next, f)
           rest   == IF End(rgn) > endaddr THEN split ELSE cut
       IN  /\ GetUnused(e) /\ UnusedAfter(e, f)
           /\ m_rgns' = [rest EXCEPT ![rgn].base = r.base + bef.length + 1,
                                     ![rgn].length = pages,
                                     ![rgn].prev = e,
                                     ![rgn].type = "disabled"]
  BY SlotFacts DEF DisableMiddle
<1>5. e = 2 /\ f = 3
  <2>1. GetUnused(e) /\ UnusedAfter(e, f)
    BY <1>4
  <2>2. e = 2
    BY <1>3, <2>1, UnusedIs
  <2>3. UnusedAfter(2, f)
    BY <2>1, <2>2
  <2> QED BY <1>3, <2>2, <2>3, UnusedAfterIs
<1> DEFINE r   == m_rgns[rgn]
           bef == [type |-> "free", base |-> r.base, length |-> addr - r.base - 1,
                   next |-> rgn, prev |-> r.prev]
           aft == [type |-> "free", base |-> endaddr,
                   length |-> r.length - pages - bef.length,
                   next |-> r.next, prev |-> rgn]
<1>6. /\ bef = before /\ aft = after
      /\ r.base + bef.length + 1 = 2 * Quarter
      /\ r.prev = 0 /\ r.next = NULL
  BY <1>1, <1>2, SlotFacts DEF Rgn
<1>7. End(rgn) > endaddr
  BY <1>1, <1>2, SlotFacts
<1> DEFINE cut   == [[m_rgns EXCEPT ![2] = before] EXCEPT ![0].next = 2]
           split == [cut EXCEPT ![3] = after, ![1].next = 3]
<1>8. m_rgns' = [split EXCEPT ![1].base = 2 * Quarter, ![1].length = Quarter,
                             ![1].prev = 2, ![1].type = "disabled"]
  <2>1. m_rgns' =
          [(IF End(rgn) > endaddr
            THEN LinkBack([LinkOn([m_rgns EXCEPT ![e] = bef], r.prev, e)
                                     EXCEPT ![f] = aft, ![rgn].next = f], r.next, f)
            ELSE LinkOn([m_rgns EXCEPT ![e] = bef], r.prev, e))
             EXCEPT ![rgn].base = r.base + bef.length + 1,
                    ![rgn].length = pages, ![rgn].prev = e, ![rgn].type = "disabled"]
    BY <1>4
  <2> HIDE DEF before, after, bef, aft, r
  <2>2. m_rgns' =
          [LinkBack([LinkOn([m_rgns EXCEPT ![2] = before], 0, 2)
                                     EXCEPT ![3] = after, ![1].next = 3], NULL, 3)
             EXCEPT ![1].base = 2 * Quarter, ![1].length = Quarter,
                    ![1].prev = 2, ![1].type = "disabled"]
    <3>1. pages = Quarter
      BY <1>1
    <3> HIDE DEF LinkOn, LinkBack
    <3> QED BY <1>5, <1>6, <1>7, <2>1, <3>1
  <2>3. LinkOn([m_rgns EXCEPT ![2] = before], 0, 2) = cut
    BY SlotFacts DEF LinkOn
  <2>4. LinkBack(split, NULL, 3) = split
    BY DEF LinkBack
  <2> HIDE DEF cut
  <2> QED BY <2>2, <2>3, <2>4
<1>9. DOMAIN m_rgns = Slots
  BY Rows
<1>10. ASSUME NEW s \in Slots PROVE m_rgns'[s] = SecondCut[s]
  <2>1. CASE s = 0
    BY <1>8, <1>9, <2>1, Rows, SlotFacts DEF Rgn
  <2>2. CASE s = 1
    BY <1>8, <1>9, <2>2, Rows, SlotFacts DEF Rgn
  <2>3. CASE s = 2
    BY <1>8, <1>9, <2>3, Rows, SlotFacts DEF Rgn
  <2>4. CASE s = 3
    BY <1>8, <1>9, <2>4, Rows, SlotFacts DEF Rgn
  <2>5. CASE s \notin {0, 1, 2, 3}
    BY <1>8, <1>9, <2>5, Rows, SlotFacts
  <2> QED BY <2>1, <2>2, <2>3, <2>4, <2>5
<1>11. SecondCut = [s \in Slots |-> SecondCut[s]]
  BY DEF SecondCut
<1>12. m_rgns' = [s \in Slots |-> m_rgns'[s]]
  BY <1>8, <1>9
<1>13. m_rgns' = SecondCut
  BY <1>10, <1>11, <1>12, SameArray
<1> QED BY <1>13 DEF DisableMiddle

(* The third call, at the head of what lies behind the second quarter.     *)
LEMMA CutsThird ==
  ASSUME calls = SysinitCalls,
         call = 3, rgn = 3, m_rgns = SecondCut,
         DisableHead
  PROVE  rgn' = 4 /\ m_rgns' = BootRegions
<1>1. addr = 3 * Quarter /\ endaddr = 4 * Quarter
  BY CallFacts, SlotFacts
<1>2. m_rgns[3] = Rgn("free", 3 * Quarter, Quarter + 1, NULL, 1)
  BY Rows
<1>3. \A s \in Slots : m_rgns[s].type = "none" <=> s >= 4
  <2>1. \A s \in {0, 1, 2, 3} : m_rgns[s].type # "none"
    BY Rows DEF Rgn
  <2>2. \A s \in Slots \ {0, 1, 2, 3} : m_rgns[s].type = "none"
    BY Rows DEF Rgn, NoRegion
  <2> QED BY <2>1, <2>2, SlotFacts
<1>4. PICK e \in Slots :
       /\ GetUnused(e)
       /\ m_rgns' = LinkBack(
            [m_rgns EXCEPT ![e] = Behind, ![rgn].length = HeadLength,
                           ![rgn].next = e, ![rgn].type = "disabled"],
            m_rgns[rgn].next, e)
       /\ rgn' = e
  BY SlotFacts DEF DisableHead
<1>5. e = 4
  BY <1>3, <1>4, UnusedIs
<1>6. HeadLength = Quarter - 1
  BY <1>1, <1>2, SlotFacts DEF HeadLength, Rgn
<1>7. Behind = Rgn("free", 4 * Quarter, 1, NULL, 3)
  BY <1>1, <1>2, <1>6, SlotFacts DEF Behind, Rgn
<1>8. m_rgns' = [m_rgns EXCEPT ![4] = Rgn("free", 4 * Quarter, 1, NULL, 3),
                               ![3].length = Quarter - 1, ![3].next = 4, ![3].type = "disabled"]
  BY <1>2, <1>4, <1>5, <1>6, <1>7 DEF LinkBack, Rgn
<1>9. DOMAIN m_rgns = Slots
  BY Rows
<1>10. ASSUME NEW s \in Slots PROVE m_rgns'[s] = BootRegions[s]
  <2>1. CASE s \in {0, 1, 2}
    BY <1>8, <1>9, <2>1, Rows, SlotFacts DEF BootRegions, Rgn, NoRegion
  <2>2. CASE s = 3
    BY <1>8, <1>9, <2>2, Rows, SlotFacts DEF BootRegions, Rgn, NoRegion
  <2>3. CASE s = 4
    BY <1>8, <1>9, <2>3, Rows, SlotFacts DEF BootRegions, Rgn, NoRegion
  <2>4. CASE s \notin {0, 1, 2, 3, 4}
    BY <1>8, <1>9, <2>4, Rows, SlotFacts DEF BootRegions, NoRegion, Rgn
  <2> QED BY <2>1, <2>2, <2>3, <2>4
<1>11. BootRegions = [s \in Slots |-> BootRegions[s]]
  BY DEF BootRegions, Rgn, NoRegion
<1>12. m_rgns' = [s \in Slots |-> m_rgns'[s]]
  BY <1>8, <1>9
<1>13. m_rgns' = BootRegions
  BY <1>10, <1>11, <1>12, SameArray
<1> QED BY <1>4, <1>5, <1>13

(* Where a turn of the loop leads when it leaves the region alone.         *)
LEMMA CarvedSkip ==
  ASSUME Carved, SkipRegion
  PROVE  Carved'
<1>1. /\ pc = "disable" /\ Untouched /\ rgn # NULL
      /\ rgn' = m_rgns[rgn].next /\ UNCHANGED <<pc, calls, call, m_rgns>>
  BY DEF SkipRegion, Disabling
<1>2. Carving /\ calls = SysinitCalls
  BY <1>1 DEF Carved
<1>3. SUFFICES Carving'
  BY <1>1, <1>2 DEF Carved
<1>4. CASE call = 1 /\ rgn = 0 /\ m_rgns = OneFree
  <2>1. addr = 0 /\ endaddr = Quarter
    BY <1>2, <1>4, CallFacts, SlotFacts
  <2> QED BY <1>1, <1>4, <2>1, Rows, SlotFacts DEF Untouched, Rgn
<1>5. CASE call = 1 /\ rgn = 1 /\ m_rgns = FirstCut
  BY <1>1, <1>5, Rows DEF Rgn, Carving
<1>6. CASE call = 2 /\ rgn \in {0, 1} /\ m_rgns = FirstCut
  <2>1. addr = 2 * Quarter /\ endaddr = 3 * Quarter
    BY <1>2, <1>6, CallFacts, SlotFacts
  <2>2. CASE rgn = 0
    BY <1>1, <1>6, <2>2, Rows DEF Rgn, Carving
  <2>3. CASE rgn = 1
    BY <1>1, <1>6, <2>1, <2>3, Rows, SlotFacts DEF Untouched, End, Rgn
  <2> QED BY <1>6, <2>2, <2>3
<1>7. CASE call = 3 /\ rgn \in {0, 1, 2, 3} /\ m_rgns = SecondCut
  <2>1. addr = 3 * Quarter /\ endaddr = 4 * Quarter
    BY <1>2, <1>7, CallFacts, SlotFacts
  <2>2. CASE rgn \in {0, 1, 2}
    BY <1>1, <1>7, <2>2, Rows DEF Rgn, Carving
  <2>3. CASE rgn = 3
    BY <1>1, <1>7, <2>1, <2>3, Rows, SlotFacts DEF Untouched, End, Rgn
  <2> QED BY <1>7, <2>2, <2>3
<1>8. CASE call = 3 /\ rgn = 4 /\ m_rgns = BootRegions
  BY <1>1, <1>8, Rows DEF Rgn, Carving
<1> QED BY <1>1, <1>2, <1>4, <1>5, <1>6, <1>7, <1>8 DEF Carving

(* The three turns that do not.                                            *)
Cuts == \/ call = 1 /\ rgn = 0 /\ m_rgns = OneFree
        \/ call = 2 /\ rgn = 1 /\ m_rgns = FirstCut
        \/ call = 3 /\ rgn = 3 /\ m_rgns = SecondCut

LEMMA TouchedAre ==
  ASSUME Carved, Disabling, ~Untouched
  PROVE  /\ Cuts
         /\ End(rgn) >= endaddr
         /\ m_rgns[rgn].base >= addr <=> call # 2
<1>1. Carving /\ calls = SysinitCalls /\ rgn # NULL
  BY DEF Carved, Disabling
<1>2. CASE call = 1 /\ rgn = 0 /\ m_rgns = OneFree
  <2>1. addr = 0 /\ endaddr = Quarter
    BY <1>1, <1>2, CallFacts, SlotFacts
  <2> QED BY <1>2, <2>1, Rows, SlotFacts DEF Cuts, End, Rgn
<1>3. CASE call = 1 /\ rgn = 1 /\ m_rgns = FirstCut
  <2>1. addr = 0 /\ endaddr = Quarter
    BY <1>1, <1>3, CallFacts, SlotFacts
  <2> QED BY <1>3, <2>1, Rows, SlotFacts DEF Untouched, Rgn
<1>4. CASE call = 2 /\ rgn \in {0, 1} /\ m_rgns = FirstCut
  <2>1. addr = 2 * Quarter /\ endaddr = 3 * Quarter
    BY <1>1, <1>4, CallFacts, SlotFacts
  <2>2. CASE rgn = 0
    BY <1>4, <2>2, Rows DEF Untouched, Rgn
  <2>3. CASE rgn = 1
    BY <1>4, <2>1, <2>3, Rows, SlotFacts DEF Cuts, End, Rgn
  <2> QED BY <1>4, <2>2, <2>3
<1>5. CASE call = 3 /\ rgn \in {0, 1, 2, 3} /\ m_rgns = SecondCut
  <2>1. addr = 3 * Quarter /\ endaddr = 4 * Quarter
    BY <1>1, <1>5, CallFacts, SlotFacts
  <2>2. CASE rgn \in {0, 1}
    BY <1>5, <2>2, Rows DEF Untouched, Rgn
  <2>3. CASE rgn = 2
    BY <1>5, <2>1, <2>3, Rows, SlotFacts DEF Untouched, End, Rgn
  <2>4. CASE rgn = 3
    BY <1>5, <2>1, <2>4, Rows, SlotFacts DEF Cuts, End, Rgn
  <2> QED BY <1>5, <2>2, <2>3, <2>4
<1>6. CASE call = 3 /\ rgn = 4 /\ m_rgns = BootRegions
  <2>1. addr = 3 * Quarter /\ endaddr = 4 * Quarter
    BY <1>1, <1>6, CallFacts, SlotFacts
  <2> QED BY <1>6, <2>1, Rows, SlotFacts DEF Untouched, Rgn
<1> QED BY <1>1, <1>2, <1>3, <1>4, <1>5, <1>6 DEF Carving

LEMMA CarvedInit ==
  ASSUME BootInit, calls = SysinitCalls PROVE Carved
BY SlotFacts DEF BootInit, Carved, NoRegion, Rgn

LEMMA CarvedStep ==
  ASSUME Carved, [BootNext]_bootVars PROVE Carved'
<1>0. calls = SysinitCalls /\ SysinitCalls' = SysinitCalls
  BY DEF Carved, SysinitCalls
<1>1. CASE PreinitRegion
  BY <1>1 DEF PreinitRegion, Carved
<1>2. CASE PreinitDone
  <2>1. /\ pc = "preinit" /\ pc' = "reserve" /\ UNCHANGED <<calls, call, rgn>>
        /\ m_rgns' = [m_rgns EXCEPT ![0].type = "free", ![0].length = PageCount]
        /\ m_rgns = [s \in Slots |-> NoRegion]
    BY <1>2, SlotFacts DEF PreinitDone, Carved
  <2>2. ASSUME NEW s \in Slots PROVE m_rgns'[s] = OneFree[s]
    <3>1. CASE s = 0
      <4>1. m_rgns[0] = NoRegion /\ 0 \in Slots /\ DOMAIN m_rgns = Slots
        BY <2>1, SlotFacts
      <4>2. m_rgns'[0] = [NoRegion EXCEPT !.type = "free", !.length = PageCount]
        BY <2>1, <4>1
      <4> QED BY <3>1, <4>2, Rows DEF NoRegion, Rgn
    <3>2. CASE s # 0
      BY <2>1, <3>2, SlotFacts DEF OneFree
    <3> QED BY <3>1, <3>2
  <2>3. m_rgns' = [s \in Slots |-> m_rgns'[s]]
    BY <2>1
  <2>4. OneFree = [s \in Slots |-> OneFree[s]]
    BY DEF OneFree
  <2>5. m_rgns' = OneFree
    BY <2>2, <2>3, <2>4, SameArray
  <2> QED BY <1>0, <2>1, <2>5 DEF Carved
<1>3. CASE Reserve
  BY <1>3 DEF Reserve, Carved, Carving
<1>4. CASE SkipRegion
  BY <1>4, CarvedSkip
<1>5. CASE DisableWhole \/ DisableTail
  <2>1. /\ Disabling /\ ~Untouched
        /\ End(rgn) < endaddr
    BY <1>5 DEF DisableWhole, DisableTail
  <2>2. Cuts /\ End(rgn) >= endaddr /\ rgn # NULL
    BY <2>1, TouchedAre DEF Disabling
  <2>3. endaddr \in Int
    BY <1>0, <2>2, CallFacts, SlotFacts DEF Cuts
  <2>4. End(rgn) \in Int
    BY <2>2, Rows, SlotFacts DEF Cuts, End, Rgn
  <2> QED BY <2>1, <2>2, <2>3, <2>4
<1>6. CASE DisableHead
  <2>1. /\ Disabling /\ ~Untouched /\ pc = "disable"
        /\ m_rgns[rgn].base >= addr /\ UNCHANGED <<pc, calls, call>>
    BY <1>6 DEF DisableHead, Disabling
  <2>2. Cuts /\ call # 2
    BY <2>1, TouchedAre
  <2>3. CASE call = 1
    BY <1>0, <1>6, <2>1, <2>2, <2>3, CutsFirst DEF Cuts, Carved, Carving
  <2>4. CASE call = 3
    BY <1>0, <1>6, <2>1, <2>2, <2>4, CutsThird DEF Cuts, Carved, Carving
  <2> QED BY <2>2, <2>3, <2>4 DEF Cuts
<1>7. CASE DisableMiddle
  <2>1. /\ Disabling /\ ~Untouched /\ pc = "disable"
        /\ m_rgns[rgn].base < addr /\ UNCHANGED <<pc, calls, call>>
    BY <1>7 DEF DisableMiddle, Disabling
  <2>2. Cuts /\ (m_rgns[rgn].base >= addr <=> call # 2)
    BY <2>1, TouchedAre
  <2>3. addr \in Int /\ m_rgns[rgn].base \in Int
    <3>1. addr \in Int
      BY <1>0, <2>2, CallFacts, SlotFacts DEF Cuts
    <3>2. m_rgns[rgn].base \in Int
      BY <2>2, Rows, SlotFacts DEF Cuts, Rgn
    <3> QED BY <3>1, <3>2
  <2>4. call = 2 /\ rgn = 1 /\ m_rgns = FirstCut
    BY <2>1, <2>2, <2>3 DEF Cuts
  <2>5. rgn' = NULL /\ m_rgns' = SecondCut
    BY <1>0, <1>7, <2>4, CutsSecond
  <2> QED BY <1>0, <2>1, <2>4, <2>5 DEF Carved, Carving
<1>8. CASE NextCall
  <2>1. /\ pc = "disable" /\ rgn = NULL /\ call < Len(calls) /\ call' = call + 1
        /\ rgn' = (IF (calls[call + 1][1] % PageSize) = 0 THEN 0 ELSE NULL)
        /\ UNCHANGED <<pc, calls, m_rgns>>
    BY <1>8 DEF NextCall
  <2>2. Carving /\ Len(calls) = 3
    BY <1>0, <2>1 DEF Carved, SysinitCalls
  <2>3. call \in {0, 1, 2}
    BY <2>1, <2>2 DEF Carving
  <2>4. rgn' = 0
    BY <1>0, <2>1, <2>3, CallsAligned
  <2> QED BY <1>0, <2>1, <2>2, <2>3, <2>4, SlotFacts DEF Carved, Carving
<1>9. CASE Finish
  <2>1. /\ pc = "disable" /\ rgn = NULL /\ call = Len(calls) /\ pc' = "done"
        /\ UNCHANGED <<calls, call, rgn, m_rgns>>
    BY <1>9 DEF Finish
  <2>2. Carving /\ Len(calls) = 3
    BY <1>0, <2>1 DEF Carved, SysinitCalls
  <2> QED BY <1>0, <2>1, <2>2, SlotFacts DEF Carved, Carving
<1>10. CASE UNCHANGED bootVars
  BY <1>10 DEF bootVars, Carved, Carving
<1> QED BY <1>1, <1>2, <1>3, <1>4, <1>5, <1>6, <1>7, <1>8, <1>9, <1>10 DEF BootNext

(* The type of what sysinit() keeps, in the calls that it makes.           *)
LEMMA ArraysTyped ==
  /\ [s \in Slots |-> NoRegion] \in [Slots -> Region]
  /\ OneFree \in [Slots -> Region]
  /\ FirstCut \in [Slots -> Region]
  /\ SecondCut \in [Slots -> Region]
  /\ BootRegions \in [Slots -> Region]
<1>1. \A t \in {"none", "free", "disabled"}, b, l \in Nat, n, p \in Slots \cup {NULL} :
        Rgn(t, b, l, n, p) \in Region
  BY SlotFacts DEF Rgn, Region, RegionTypes
<1>2. /\ 0 \in Nat /\ PageCount \in Nat /\ Quarter \in Nat /\ Quarter - 1 \in Nat
      /\ Quarter + 1 \in Nat /\ 1 \in Nat
      /\ 2 * Quarter \in Nat /\ 3 * Quarter \in Nat /\ 4 * Quarter \in Nat
  BY SlotFacts
<1>3. {0, 1, 2, 3, 4, NULL} \subseteq Slots \cup {NULL}
  BY SlotFacts
<1>4. NoRegion \in Region
  BY <1>1, <1>2, <1>3 DEF NoRegion, Rgn
<1>5. OneFree \in [Slots -> Region]
  BY <1>1, <1>2, <1>3, <1>4 DEF OneFree
<1>6. FirstCut \in [Slots -> Region]
  <2>1. ASSUME NEW s \in Slots PROVE FirstCut[s] \in Region
    <3>1. CASE s \in {0, 1}
      BY <1>2, <1>3, <3>1, Rows DEF Rgn, Region, RegionTypes
    <3>2. CASE s \notin {0, 1}
      BY <1>4, <3>2, Rows
    <3> QED BY <3>1, <3>2
  <2> QED BY <2>1 DEF FirstCut
<1>7. SecondCut \in [Slots -> Region]
  <2>1. ASSUME NEW s \in Slots PROVE SecondCut[s] \in Region
    <3>1. CASE s \in {0, 1, 2, 3}
      BY <1>2, <1>3, <3>1, Rows DEF Rgn, Region, RegionTypes
    <3>2. CASE s \notin {0, 1, 2, 3}
      BY <1>4, <3>2, Rows
    <3> QED BY <3>1, <3>2
  <2> QED BY <2>1 DEF SecondCut
<1>8. BootRegions \in [Slots -> Region]
  <2>1. ASSUME NEW s \in Slots PROVE BootRegions[s] \in Region
    BY <1>2, <1>3, SlotFacts DEF BootRegions, Region, Rgn, NoRegion, RegionTypes
  <2> QED BY <2>1 DEF BootRegions, Rgn, NoRegion
<1> QED BY <1>4, <1>5, <1>6, <1>7, <1>8

LEMMA SysinitTyped ==
  ASSUME Bitmap, Carved PROVE BootTypeOK
<1>1. /\ PageSize \in Nat \ {0} /\ AddressSpace = PageCount * PageSize
      /\ AddressSpace \in Nat
  BY Space
<1>2. calls \in Seq((0 .. AddressSpace - 1) \X (0 .. AddressSpace - 1))
  <2> DEFINE Address == 0 .. AddressSpace - 1
  <2>1. ASSUME NEW x \in Nat, x < PageCount PROVE x * PageSize \in Address
    <3>1. x * PageSize \in Nat
      BY <1>1, <2>1, PagePlus
    <3>2. x * PageSize < PageCount * PageSize
      BY <1>1, <2>1, TimesOrder, SlotFacts
    <3> QED BY <1>1, <3>1, <3>2
  <2>2. ASSUME NEW k \in 1 .. 3
        PROVE  (IF k = 1 THEN 0 ELSE k) * Quarter \in Nat
               /\ (IF k = 1 THEN 0 ELSE k) * Quarter < PageCount
    BY SlotFacts
  <2>3. Quarter * PageSize \in Address
    BY <2>1, SlotFacts
  <2> HIDE DEF Address
  <2>4. SysinitCalls \in [1 .. 3 -> Address \X Address]
    BY <2>1, <2>2, <2>3 DEF SysinitCalls
  <2>5. ASSUME NEW T, NEW f \in [1 .. 3 -> T] PROVE f \in Seq(T)
    BY <2>5, SeqDef
  <2>6. SysinitCalls \in Seq(Address \X Address)
    BY <2>4, <2>5, Zenon
  <2> QED BY <2>6 DEF Address, Carved
<1>3. /\ call \in 0 .. Len(calls) /\ rgn \in Slots \cup {NULL}
      /\ m_rgns \in [Slots -> Region]
  <2>1. Len(calls) = 3
    BY DEF Carved, SysinitCalls
  <2>2. call \in 0 .. 3
    BY DEF Carved, Carving
  <2>3. rgn \in {0, 1, 2, 3, 4, NULL}
    BY DEF Carved, Carving
  <2>4. m_rgns \in [Slots -> Region]
    BY ArraysTyped DEF Carved, Carving
  <2> QED BY <2>1, <2>2, <2>3, <2>4, SlotFacts
<1>4. m_pages \subseteq Frames
  BY DEF Bitmap, FramesGiven, Frames, PageCount
<1> QED BY <1>2, <1>3, <1>4, SlotFacts DEF Bitmap, BootTypeOK

(* No free region in the list has a page of the range.                     *)
LEMMA RangesAre ==
  ASSUME Bitmap, Carved PROVE RangeDisabled
<1>1. BootTypeOK
  BY SysinitTyped
<1>2. ASSUME call > 0, rgn = NULL,
             NEW s \in ListSlots, m_rgns[s].type = "free"
      PROVE  PagesOf(s) \cap (addr .. endaddr - 1) = {}
  <2>1. s \in Slots
    <3>1. m_rgns \in [Slots -> Region]
      BY <1>1, SlotFacts DEF BootTypeOK
    <3>2. \A r \in Slots \cup {NULL} : r = NULL \/ m_rgns[r].next \in Slots \cup {NULL}
      BY <3>1, SlotFacts DEF Region, RegionTypes
    <3>3. \A k \in Nat : Walk[k] \in Slots \cup {NULL}
      <4> DEFINE S == Slots \cup {NULL}
      <4>1. 0 \in S
        BY SlotFacts
      <4>2. \A r \in S : r = NULL \/ m_rgns[r].next \in S
        BY <3>2
      <4> HIDE DEF S
      <4>3. \A k \in Nat : Walk[k] \in S
        BY <4>1, <4>2, WalkWithin
      <4> QED BY <4>3 DEF S
    <3>5. 0 .. PageCount \subseteq Nat
      BY SlotFacts
    <3> QED BY <3>3, <3>5 DEF ListSlots
  <2>2. /\ calls = SysinitCalls
        /\ \/ call = 1 /\ m_rgns = FirstCut
           \/ call = 2 /\ m_rgns = SecondCut
           \/ call = 3 /\ m_rgns = BootRegions
    BY <1>2, SlotFacts DEF Carved, Carving
  <2>3. CASE call = 1 /\ m_rgns = FirstCut
    <3>1. addr = 0 /\ endaddr = Quarter
      BY <2>2, <2>3, CallFacts, SlotFacts
    <3>2. s = 1
      BY <1>2, <2>1, <2>3, Rows DEF Rgn, NoRegion
    <3> QED BY <2>3, <3>1, <3>2, Rows, SlotFacts DEF PagesOf, End, Rgn
  <2>4. CASE call = 2 /\ m_rgns = SecondCut
    <3>1. addr = 2 * Quarter /\ endaddr = 3 * Quarter
      BY <2>2, <2>4, CallFacts, SlotFacts
    <3>2. s \in {2, 3}
      BY <1>2, <2>1, <2>4, Rows DEF Rgn, NoRegion
    <3>3. m_rgns[s].base = (IF s = 2 THEN Quarter ELSE 3 * Quarter)
          /\ m_rgns[s].length = (IF s = 2 THEN Quarter - 1 ELSE Quarter + 1)
      BY <2>4, <3>2, Rows DEF Rgn
    <3> QED BY <3>1, <3>2, <3>3, SlotFacts DEF PagesOf, End
  <2>5. CASE call = 3 /\ m_rgns = BootRegions
    <3>1. addr = 3 * Quarter /\ endaddr = 4 * Quarter
      BY <2>2, <2>5, CallFacts, SlotFacts
    <3>2. s \in {2, 4}
      BY <1>2, <2>1, <2>5, SlotFacts DEF BootRegions, Rgn, NoRegion
    <3>3. m_rgns[s].base = (IF s = 2 THEN Quarter ELSE 4 * Quarter)
          /\ m_rgns[s].length = (IF s = 2 THEN Quarter - 1 ELSE 1)
      BY <2>5, <3>2, SlotFacts DEF BootRegions, Rgn, NoRegion
    <3> QED BY <3>1, <3>2, <3>3, SlotFacts DEF PagesOf, End
  <2> QED BY <2>2, <2>3, <2>4, <2>5
<1> QED BY <1>1, <1>2 DEF RangeDisabled

LEMMA CallsKept ==
  [BootNext]_bootVars => UNCHANGED calls
BY DEF BootNext, bootVars, PreinitRegion, PreinitDone, Reserve, SkipRegion,
     DisableWhole, DisableHead, DisableMiddle, DisableTail, NextCall, Finish

SysinitInv == Bitmap /\ (calls = SysinitCalls => Carved)

LEMMA SysinitInvHolds == BootSpec => []SysinitInv
<1>1. BootInit => SysinitInv
  BY BitmapInit, CarvedInit DEF SysinitInv
<1>2. SysinitInv /\ [BootNext]_bootVars => SysinitInv'
  <2> SUFFICES ASSUME SysinitInv, [BootNext]_bootVars PROVE SysinitInv'
    OBVIOUS
  <2>1. Bitmap'
    BY BitmapStep DEF SysinitInv
  <2>2. ASSUME (calls = SysinitCalls)' PROVE Carved'
    <3>1. calls = SysinitCalls
      BY <2>2, CallsKept DEF SysinitCalls
    <3> QED BY <3>1, CarvedStep DEF SysinitInv
  <2> QED BY <2>1, <2>2 DEF SysinitInv
<1> QED BY <1>1, <1>2, PTL DEF BootSpec

(* sysinit() leaves what Memory starts with: the regions of BootRegions, a *)
(* bitmap without a frame of kernel_data or outside usable memory, and     *)
(* with all others (but of a region that ends in the last page).           *)
THEOREM SysinitReady == BootSpec => []MemoryReady
<1>1. SysinitInv => MemoryReady
  <2> SUFFICES ASSUME SysinitInv, pc = "done"
               PROVE  /\ RegionsReady
                      /\ FreeFramesAreUsable /\ UsableFramesAreFree
    BY DEF MemoryReady
  <2>1. RegionsReady
    BY DEF SysinitInv, Carved, RegionsReady
  <2> QED BY <2>1 DEF SysinitInv, Bitmap
<1> QED BY <1>1, SysinitInvHolds, PTL

(* When one of sysinit()'s calls of disable_virtual returns, no free       *)
(* region that alloc_virtual can find has a page of its range.             *)
THEOREM SysinitDisables ==
  BootSpec /\ calls = SysinitCalls => []RangeDisabled
<1>1. BootSpec /\ calls = SysinitCalls => [](calls = SysinitCalls)
  <2>1. calls = SysinitCalls /\ [BootNext]_bootVars
          => (calls = SysinitCalls)'
    BY CallsKept DEF SysinitCalls
  <2> QED BY <2>1, PTL DEF BootSpec
<1>2. SysinitInv /\ calls = SysinitCalls => RangeDisabled
  BY RangesAre DEF SysinitInv
<1> QED BY <1>1, <1>2, SysinitInvHolds, PTL
=============================================================================
