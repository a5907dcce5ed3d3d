------------------------------- MODULE Memory -------------------------------
(***************************************************************************)
(* The kernel's page allocator (src/memory.cpp): the bitmap of free        *)
(* physical frames and the list of virtual regions (module Regions), the   *)
(* page tables the two are tied together by, and the TLB in front of       *)
(* them.  The specification starts where sysinit() leaves off; module Boot *)
(* models how sysinit() gets there.                                        *)
(*                                                                         *)
(* alloc_virtual and free_virtual run to completion: no interrupt handler  *)
(* of the kernel allocates, so each call is one step.                      *)
(***************************************************************************)
EXTENDS Regions, FiniteSets

CONSTANTS
  Usable,      \* frames whose bit is set in m_pages when sysinit() returns
  Requests,    \* page counts liballoc_alloc is called with
  BootTables,  \* contents the page tables may start with: nothing clears them
  TlbSize      \* bound: how many translations the TLB holds

Pages == 0 .. PageCount - 1

PageTableEntry == [present : BOOLEAN, address : Frames]

ASSUME UsableAssumption == Usable \subseteq Frames

(***************************************************************************)
(* liballoc never asks for less than l_pageCount = 16 pages.  Two is all   *)
(* the model needs: the one-page region past the end of the address space  *)
(* that disable_virtual leaves behind (slot 4 of BootRegions) never fits.  *)
(***************************************************************************)
ASSUME RequestAssumption == Requests \subseteq Nat \ {0, 1}
ASSUME TablesAssumption  == BootTables \subseteq [Pages -> PageTableEntry]
ASSUME TlbAssumption     == TlbSize \in Nat

VARIABLES
  tables,   \* m_paging->tables, one entry per page of the address space
  tlb,      \* translations the CPU has cached, pairs <<page, frame>>
  held,     \* first pages of the blocks callers own: returned and not yet freed
  botched   \* history: an allocation has run out of frames half way

vars == <<m_pages, m_rgns, tables, tlb, held, botched>>

Init ==
  /\ m_pages = Usable
  /\ m_rgns = BootRegions
  /\ tables \in BootTables
  /\ tlb = {}
  /\ held = {}
  /\ botched = FALSE

-----------------------------------------------------------------------------
(* The walks of alloc_virtual and free_virtual: r is the first region of   *)
(* the list that passes the test.                                          *)
FirstRegion(r, Test(_)) ==
  /\ Test(r)
  /\ \E k \in 0 .. PageCount : /\ Walk[k] = r
                               /\ \A j \in 0 .. k - 1 : ~Test(Walk[j])

(* What is left of region r when its first n pages are taken.              *)
RestKeepsLength(r, n) ==  \* mutant
  [type |-> "free", base |-> m_rgns[r].base + n, length |-> m_rgns[r].length,
   next |-> m_rgns[r].next, prev |-> r]
RestLosesList(r, n) ==    \* mutant
  [type |-> "free", base |-> m_rgns[r].base + n, length |-> m_rgns[r].length - n,
   next |-> NULL, prev |-> r]
Rest(r, n) ==
  [type |-> "free", base |-> m_rgns[r].base + n, length |-> m_rgns[r].length - n,
   next |-> m_rgns[r].next, prev |-> r]

MustSplit(r, n) == m_rgns[r].length > n

(* Region r becomes a used region of n pages; what is left over moves to a *)
(* fresh slot, linked behind r.  The old successor keeps its prev pointer. *)
TakeRegion(r, n) ==
  \/ /\ ~MustSplit(r, n)
     /\ m_rgns' = [m_rgns EXCEPT ![r].type = "used"]
  \/ /\ MustSplit(r, n)
     /\ \E e \in Slots :
          /\ GetUnused(e)
          /\ m_rgns' = [m_rgns EXCEPT
               ![e] = Rest(r, n),
               ![r] = [type |-> "used", base |-> m_rgns[r].base, length |-> n,
                       next |-> e, prev |-> m_rgns[r].prev]]

(* What k calls of map_page in a row hand out: each call takes the lowest  *)
(* frame whose bit is set.                                                 *)
FramesFor(k) ==
  {f \in [0 .. k - 1 -> m_pages] :
     /\ \A i, j \in 0 .. k - 1 : i < j => f[i] < f[j]
     /\ \A i \in 0 .. k - 1, g \in m_pages :
          g < f[i] => \E j \in 0 .. k - 1 : f[j] = g}

(* The page tables after map_page has put frame f[i] behind page b + i for *)
(* i < k, and the TLB after the invlpg of each of these pages.             *)
MapPages(b, k, f) ==
  [p \in Pages |-> IF p \in b .. (b + k - 1)
                   THEN [present |-> TRUE, address |-> f[p - b]]
                   ELSE tables[p]]

FlushNothing(P) == tlb  \* mutant
FlushPages(P) == {t \in tlb : t[1] \notin P}

(* What unmap_page does to the frames and the page table entries of the    *)
(* pages P: the frame is given back, the flags are cleared, and the frame  *)
(* number stays in the entry.                                              *)
PageNumbers(P) == P  \* mutant
FramesBehind(P) == {tables[p].address : p \in P}

UnmapOneTooMany(P) ==  \* mutant
  [p \in Pages |-> IF p \in P \/ p - 1 \in P
                   THEN [tables[p] EXCEPT !.present = FALSE]
                   ELSE tables[p]]
UnmapPages(P) ==
  [p \in Pages |-> IF p \in P THEN [tables[p] EXCEPT !.present = FALSE]
                             ELSE tables[p]]

(* The region alloc_virtual settles on for n pages.                        *)
FitsUsed(r, n) ==      \* mutant
  FirstRegion(r, LAMBDA s : /\ m_rgns[s].type # "disabled"
                            /\ m_rgns[s].length >= n)
Fits(r, n) == FirstRegion(r, LAMBDA s : /\ m_rgns[s].type = "free"
                                        /\ m_rgns[s].length >= n)

-----------------------------------------------------------------------------
(* alloc_virtual finds a region, and a frame for every page of it.         *)
AllocVirtual(n) ==
  \E r \in Slots : LET b == m_rgns[r].base IN
    /\ Fits(r, n)
    /\ TakeRegion(r, n)
    /\ n <= Cardinality(m_pages)
    /\ \E f \in FramesFor(n) :
         /\ tables' = MapPages(b, n, f)
         /\ m_pages' = m_pages \ {f[i] : i \in 0 .. n - 1}
    /\ tlb' = FlushPages(b .. (b + n - 1))
    /\ held' = held \cup {b}
    /\ UNCHANGED botched

(***************************************************************************)
(* alloc_virtual finds a region but the frames run out at page b + k.      *)
(* The clean-up loop calls unmap_page(rgn->base + i) where it means        *)
(* rgn->base + j: k times over it clears the entry of the page that was    *)
(* not mapped, sets the bit of whatever frame number that entry still      *)
(* holds, and flushes the page that has this number.  The k mapped pages   *)
(* stay mapped, the region stays used, and the caller gets a null pointer. *)
(***************************************************************************)
AllocOutOfFrames(n) ==
  \E r \in Slots :
    LET b     == m_rgns[r].base
        k     == Cardinality(m_pages)
        stale == tables[b + k].address
    IN
    /\ Fits(r, n)
    /\ TakeRegion(r, n)
    /\ k < n
    /\ \/ /\ k = 0
          /\ UNCHANGED <<tables, m_pages, tlb, botched>>
       \/ /\ k > 0
          /\ \E f \in FramesFor(k) :
               tables' = [MapPages(b, k, f) EXCEPT ![b + k].present = FALSE]
          /\ m_pages' = {stale}
          /\ tlb' = FlushPages((b .. (b + k - 1)) \cup {stale})
          /\ botched' = TRUE
    /\ UNCHANGED held

(* No region of the list is large enough: alloc_virtual returns 0.         *)
AllocNoRegion(n) ==
  /\ ~ \E r \in Slots : Fits(r, n)
  /\ UNCHANGED vars

(***************************************************************************)
(* free_virtual of a block the caller owns.  unmap_page gives the frame    *)
(* back and clears the flags, but invalidates the page whose number is the *)
(* frame's, not the page it unmaps.  Neighbouring free regions are not     *)
(* merged.  (For any other pointer the walk finds nothing and free_virtual *)
(* returns false without a change.)                                        *)
(***************************************************************************)
FreeVirtual(a) ==
  \E r \in Slots : LET P == PagesOf(r) IN
    /\ a \in held
    /\ FirstRegion(r, LAMBDA s : /\ m_rgns[s].base = a
                                 /\ m_rgns[s].type = "used")
    /\ m_pages' = m_pages \cup FramesBehind(P)
    /\ tables' = UnmapPages(P)
    /\ tlb' = FlushPages(FramesBehind(P))
    /\ m_rgns' = [m_rgns EXCEPT ![r].type = "free"]
    /\ held' = held \ {a}
    /\ UNCHANGED botched

(* The CPU caches the translation of a present page, or drops one.         *)
TlbFill(p) ==
  /\ tables[p].present
  /\ \A t \in tlb : t[1] # p
  /\ Cardinality(tlb) < TlbSize
  /\ tlb' = tlb \cup {<<p, tables[p].address>>}
  /\ UNCHANGED <<m_pages, m_rgns, tables, held, botched>>

TlbEvict(t) ==
  /\ tlb' = tlb \ {t}
  /\ UNCHANGED <<m_pages, m_rgns, tables, held, botched>>

Next ==
  \/ \E n \in Requests : AllocVirtual(n) \/ AllocOutOfFrames(n) \/ AllocNoRegion(n)
  \/ \E a \in held : FreeVirtual(a)
  \/ \E p \in Pages : TlbFill(p)
  \/ \E t \in tlb : TlbEvict(t)

Spec == Init /\ [][Next]_vars

-----------------------------------------------------------------------------
Heap      == Quarter .. 2 * Quarter - 2
InUse     == {s \in Slots : m_rgns[s].type # "none"}
HeapSlots == {s \in Slots : m_rgns[s].type \in {"free", "used"}}
HeldSlots == {s \in Slots : m_rgns[s].type = "used" /\ m_rgns[s].base \in held}
HeldPages == UNION {PagesOf(s) : s \in HeldSlots}

(* The type of every variable.                                             *)
TypeOK ==
  /\ m_pages \subseteq Frames
  /\ m_rgns \in [Slots -> Region]
  /\ tables \in [Pages -> PageTableEntry]
  /\ tlb \subseteq Pages \X Frames
  /\ held \subseteq Heap
  /\ botched \in BOOLEAN

(***************************************************************************)
(* The split of alloc_virtual loses and duplicates no page: every page of  *)
(* the heap lies in a used or free region, no page in two regions, and no  *)
(* used region reaches outside the heap.                                   *)
(***************************************************************************)
RegionsPartitionHeap ==
  /\ \A p \in Heap : \E s \in HeapSlots : p \in PagesOf(s)
  /\ \A s, t \in InUse : s # t => PagesOf(s) \cap PagesOf(t) = {}
  /\ \A s \in InUse : m_rgns[s].type = "used" => PagesOf(s) \subseteq Heap

(***************************************************************************)
(* The walk that alloc_virtual and free_virtual do from m_first_rgn sees   *)
(* every region in use once, in the order of the addresses, and ends.      *)
(***************************************************************************)
ListReachesEveryRegion ==
  /\ ListSlots = InUse
  /\ \A s \in InUse : m_rgns[s].next # NULL =>
       m_rgns[s].base + m_rgns[s].length <= m_rgns[m_rgns[s].next].base

(***************************************************************************)
(* A block handed out and not yet freed is a used region whose pages are   *)
(* all mapped, also after some other allocation has run out of frames.     *)
(***************************************************************************)
HeldBlocksBacked ==
  \A a \in held : \E s \in HeldSlots :
    m_rgns[s].base = a /\ \A p \in PagesOf(s) : tables[p].present

(***************************************************************************)
(* unmap_page invalidates the wrong page and leaves the right one cached.  *)
(* The invlpg of map_page makes up for it: of a page that is mapped the    *)
(* TLB never holds another translation than the page table's.              *)
(***************************************************************************)
TlbCoherent ==
  \A t \in tlb : tables[t[1]].present => t[2] = tables[t[1]].address

(***************************************************************************)
(* As long as no allocation has run out of frames half way, no frame is    *)
(* lost or shared: m_pages and the frames of the blocks held make up the   *)
(* frames sysinit() enabled, and no two pages of blocks share a frame.     *)
(***************************************************************************)
FramesAccounted ==
  ~botched =>
    /\ m_pages \cup {tables[p].address : p \in HeldPages} = Usable
    /\ \A p \in HeldPages :
         /\ tables[p].address \notin m_pages
         /\ \A q \in HeldPages : p # q => tables[p].address # tables[q].address

(***************************************************************************)
(* get_unused scans m_rgns with no bound: it stays inside the array only   *)
(* if there always is a slot of type none.                                 *)
(***************************************************************************)
UnusedSlotLeft == \E e \in Slots : GetUnused(e)

(***************************************************************************)
(* No step, a failing allocation included, moves a page of a block that is *)
(* held before and after it to another frame, or takes its mapping away.   *)
(***************************************************************************)
HeldMappingsStable ==
  [][\A a \in held \cap held' : \A s \in Slots :
       (m_rgns[s].type = "used" /\ m_rgns[s].base = a) =>
         \A p \in PagesOf(s) : tables'[p] = tables[p]]_vars

(***************************************************************************)
(* The allocator implements PageGrants: the used regions whose blocks are  *)
(* held are the grants, their page table entries the backing.              *)
(***************************************************************************)
HeldGrants  == {PagesOf(s) : s \in HeldSlots}
HeldBacking == [p \in HeldPages |-> tables[p].address]
Promise == INSTANCE PageGrants WITH
  Sizes   <- Requests,
  grants  <- HeldGrants,
  backing <- HeldBacking,
  free    <- m_pages,
  broken  <- botched
ImplementsPageGrants == Promise!Spec

(***************************************************************************)
(* What malloc_test.inc tests when it fills each block with a key of its   *)
(* own and reports "Memory not consistent" when a key has changed: no two  *)
(* pages of blocks in use share a frame.  The clean-up of an allocation    *)
(* that runs out of frames breaks it.                                      *)
(***************************************************************************)
MemoryConsistent ==
  \A p, q \in HeldPages : p # q => tables[p].address # tables[q].address
=============================================================================
