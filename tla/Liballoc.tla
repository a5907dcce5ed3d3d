------------------------------ MODULE Liballoc ------------------------------
(***************************************************************************)
(* The kernel heap (src/lib/liballoc/liballoc.cpp over                     *)
(* src/liballoc-support.cpp).  Pages come from alloc_virtual in majors; a  *)
(* major holds minors, one per block handed out, in a doubly linked list   *)
(* in the order of their addresses.  Addresses are numbers, and the        *)
(* headers are kept in functions from the address where they lie.  A dead  *)
(* header (LIBALLOC_DEAD) is not kept: callers free what they hold, once.  *)
(*                                                                         *)
(* kmalloc is modelled one turn of its loop at a time.  The lock is a      *)
(* stub that does nothing, but there is only one thread and no interrupt   *)
(* handler allocates: a call ends before the next one begins.              *)
(***************************************************************************)
EXTENDS Integers, FiniteSets

CONSTANTS
  PageSize,    \* l_pageSize
  MinPages,    \* l_pageCount, the least number of pages asked for
  MajorSize,   \* sizeof(struct liballoc_major)
  MinorSize,   \* sizeof(struct liballoc_minor)
  Alignment,   \* ALIGNMENT
  AlignInfo,   \* ALIGN_INFO, the bytes in front of a pointer for its offset
  WordSize,    \* 2^32: sizes and addresses are computed modulo this
  Heap,        \* pages alloc_virtual can hand out
  Sizes        \* sizes the kernel asks for

NULL == 0

ASSUME SizesAssumption ==
  /\ {PageSize, MinPages, MajorSize, MinorSize, Alignment, AlignInfo, WordSize}
       \subseteq Nat \ {0}
  /\ MajorSize + MinorSize < PageSize
  /\ Sizes \subseteq 1 .. WordSize - 1
ASSUME HeapAssumption ==
  /\ Heap \subseteq Nat \ {0}
  /\ \A p \in Heap : (p + 1) * PageSize < WordSize

(* The requests stay below what the sizes of the headers leave of the      *)
(* address space, so that no size wraps: kmalloc does not check.           *)
SizesFit ==
  \A n \in Sizes : n + Alignment + AlignInfo + MajorSize + MinorSize < WordSize

VARIABLES
  majors,       \* the liballoc_major headers, by address
  minors,       \* the liballoc_minor headers, by address
  l_memRoot,
  l_bestBet,
  l_allocated,
  l_inuse,
  held,         \* pointers handed out |-> the offset ALIGN left in front of them
  pc,           \* "idle", or where the call being made is
  call          \* its local variables

vars == <<majors, minors, l_memRoot, l_bestBet, l_allocated, l_inuse, held, pc, call>>

(* old is the pointer krealloc is called with, ptr what its kmalloc gave.  *)
NoCall == [size |-> 0, req |-> 0, maj |-> NULL, best |-> 0, started |-> FALSE,
           old |-> NULL, ptr |-> NULL]

Init ==
  /\ majors = [a \in {} |-> NULL]
  /\ minors = [a \in {} |-> NULL]
  /\ l_memRoot = NULL /\ l_bestBet = NULL
  /\ l_allocated = 0 /\ l_inuse = 0
  /\ held = [p \in {} |-> 0]
  /\ pc = "idle"
  /\ call = NoCall

-----------------------------------------------------------------------------
Wrap(x) == x % WordSize

(* ALIGN: the pointer for a block that begins at q.  UNALIGN goes back by  *)
(* the offset that is kept in held.                                        *)
Aligned(q) == LET a == q + AlignInfo
              IN  a + ((Alignment - (a % Alignment)) % Alignment)
MinorOf(p) == p - held[p] - MinorSize

(* Doubly linked lists of headers, as kept in majors and in minors.        *)
Insert(f, x, r) ==
  [y \in DOMAIN f \cup {x} |->
     IF y = x THEN r
     ELSE [f[y] EXCEPT !.next = IF y = r.prev THEN x ELSE @,
                       !.prev = IF y = r.next THEN x ELSE @]]
UnlinkForwardOnly(f, x) ==  \* mutant
  [y \in DOMAIN f \ {x} |->
     [f[y] EXCEPT !.next = IF y = f[x].prev THEN f[x].next ELSE @]]
Unlink(f, x) ==
  [y \in DOMAIN f \ {x} |->
     [f[y] EXCEPT !.next = IF y = f[x].prev THEN f[x].next ELSE @,
                  !.prev = IF y = f[x].next THEN f[x].prev ELSE @]]

SizeOf(a)  == majors[a].pages * PageSize
Unused(a)  == Wrap(SizeOf(a) - majors[a].usage)
PagesOf(a) == {a \div PageSize + i : i \in 0 .. majors[a].pages - 1}

(* allocate_new_page.                                                      *)
PagesFor(size) ==
  LET st == Wrap(size + MajorSize + MinorSize)
      n  == (st + PageSize - 1) \div PageSize
  IN  IF n < MinPages THEN MinPages ELSE n
Granted(a, size) ==
  LET P == {a \div PageSize + i : i \in 0 .. PagesFor(size) - 1}
  IN  P \subseteq Heap /\ \A b \in DOMAIN majors : P \cap PagesOf(b) = {}
NewMajor(size, prev) ==
  [prev |-> prev, next |-> NULL, pages |-> PagesFor(size),
   usage |-> MajorSize, first |-> NULL]
PageAddresses == {p * PageSize : p \in Heap}

-----------------------------------------------------------------------------
(* kmalloc(n), on its own or for krealloc(old, n).  A size that wraps to   *)
(* nothing is made a request for one byte.                                 *)
Request(n) == IF Wrap(n + Alignment + AlignInfo) = 0 THEN 1 ELSE n
SizeFor(n) == Wrap(Request(n) + Alignment + AlignInfo)

Begin(n, old) ==
  /\ pc' = "start"
  /\ call' = [NoCall EXCEPT !.size = SizeFor(n), !.req = Request(n), !.old = old]

KMalloc(n) ==
  /\ pc = "idle"
  /\ Begin(n, NULL)
  /\ UNCHANGED <<majors, minors, l_memRoot, l_bestBet, l_allocated, l_inuse, held>>

(* What becomes of the pointer kmalloc returns: the caller holds it, or    *)
(* krealloc goes on with it.                                               *)
Return(p, offset) ==
  /\ held' = IF p = NULL THEN held
             ELSE [q \in DOMAIN held \cup {p} |-> IF q = p THEN offset ELSE held[q]]
  /\ \/ /\ call.old = NULL
        /\ pc' = "idle"
        /\ call' = NoCall
     \/ /\ call.old # NULL
        /\ pc' = "copy"
        /\ call' = [call EXCEPT !.ptr = p]

(* allocate_new_page links a major at a behind prev, if alloc_virtual      *)
(* gives the pages.                                                        *)
NewPage(a, prev) ==
  /\ Granted(a, call.size)
  /\ majors' = Insert(majors, a, NewMajor(call.size, prev))
  /\ l_allocated' = l_allocated + PagesFor(call.size) * PageSize

(* The first major; and what the loop begins with.                         *)
FirstMajor ==
  /\ pc = "start"
  /\ l_memRoot = NULL
  /\ \E a \in PageAddresses :
       /\ NewPage(a, NULL)
       /\ l_memRoot' = a
  /\ UNCHANGED <<minors, l_bestBet, l_inuse, held, pc, call>>

FirstMajorRefused ==
  /\ pc = "start"
  /\ l_memRoot = NULL
  /\ Return(NULL, 0)
  /\ UNCHANGED <<majors, minors, l_memRoot, l_bestBet, l_allocated, l_inuse>>

EnterLoop ==
  /\ pc = "start"
  /\ l_memRoot # NULL
  /\ LET best    == IF l_bestBet = NULL THEN 0 ELSE Unused(l_bestBet)
         started == l_bestBet # NULL /\ best > Wrap(call.size + MinorSize)
     IN  call' = [call EXCEPT !.maj = IF started THEN l_bestBet ELSE l_memRoot,
                              !.best = best, !.started = started]
  /\ pc' = "scan"
  /\ UNCHANGED <<majors, minors, l_memRoot, l_bestBet, l_allocated, l_inuse, held>>

-----------------------------------------------------------------------------
(* The loop over the majors.  Every turn first remembers a major with more *)
(* memory than the best bet.                                               *)
Better   == Unused(call.maj) > call.best
Remember == l_bestBet' = IF Better THEN call.maj ELSE l_bestBet
Best     == IF Better THEN Unused(call.maj) ELSE call.best

NeedNoHeader == call.size                \* mutant
Need == Wrap(call.size + MinorSize)

(* Case 1: not enough memory in the major, in one piece or not.            *)
Lacks == Unused(call.maj) < Need

(* Case 3: the gap in front of the first minor.  Case 4: behind minor m.   *)
First         == majors[call.maj].first
GapInFront    == Wrap(First - call.maj - MajorSize)
GapBehind(m)  ==
  LET end == IF minors[m].next = NULL THEN call.maj + SizeOf(call.maj) ELSE minors[m].next
  IN  Wrap(end - m - MinorSize - minors[m].size)

(* The minors of the major, along the next pointers.                       *)
Chain[k \in Nat] ==
  IF k = 0 THEN First
  ELSE LET m == Chain[k - 1] IN IF m = NULL THEN NULL ELSE minors[m].next
OnChain == {Chain[k] : k \in 0 .. Cardinality(DOMAIN minors)} \ {NULL}

(* No case 2, 3 or 4 applies.                                              *)
Full == /\ First # NULL
        /\ GapInFront < Need
        /\ \A m \in OnChain : GapBehind(m) < Need

(* A minor of the size wanted is put at address m.                         *)
UsageNoHeader(u) == u + call.size        \* mutant
UsageWith(u)     == u + call.size + MinorSize

Place(m, prev, next) ==
  /\ minors' = Insert(minors, m, [prev |-> prev, next |-> next, block |-> call.maj,
                                  size |-> call.size, req |-> call.req])
  /\ majors' = [majors EXCEPT
       ![call.maj].usage = UsageWith(@),
       ![call.maj].first = IF prev = NULL THEN m ELSE @]
  /\ l_inuse' = l_inuse + call.size
  /\ Return(Aligned(m + MinorSize), Aligned(m + MinorSize) - m - MinorSize)
  /\ UNCHANGED <<l_memRoot, l_allocated>>

(* Case 2: a brand new block, reached by a turn of its own or, from case   *)
(* 1, in the middle of one ("fresh").                                      *)
PlaceFirst ==
  /\ \/ pc = "scan" /\ ~Lacks /\ Remember
     \/ pc = "fresh" /\ UNCHANGED l_bestBet
  /\ First = NULL
  /\ Place(call.maj + MajorSize, NULL, NULL)

(* Case 3.                                                                 *)
PlaceInFront ==
  /\ pc = "scan" /\ ~Lacks
  /\ First # NULL
  /\ GapInFront >= Need
  /\ Remember
  /\ Place(call.maj + MajorSize, NULL, First)

(* Case 4: behind the first minor with a gap that is large enough.         *)
PlaceBehind ==
  /\ pc = "scan" /\ ~Lacks
  /\ First # NULL
  /\ GapInFront < Need
  /\ \E k \in 0 .. Cardinality(DOMAIN minors) :
       /\ Chain[k] # NULL
       /\ GapBehind(Chain[k]) >= Need
       /\ \A j \in 0 .. k - 1 : GapBehind(Chain[j]) < Need
       /\ Remember
       /\ Place(Chain[k] + MinorSize + minors[Chain[k]].size, Chain[k],
                minors[Chain[k]].next)

(* Cases 1 and 5 when another major follows.                               *)
Hop ==
  /\ pc = "scan"
  /\ Lacks \/ Full
  /\ majors[call.maj].next # NULL
  /\ Remember
  /\ call' = [call EXCEPT !.maj = majors[call.maj].next, !.best = Best]
  /\ UNCHANGED <<majors, minors, l_memRoot, l_allocated, l_inuse, held, pc>>

AtEnd == /\ pc = "scan"
         /\ Lacks \/ Full
         /\ majors[call.maj].next = NULL

(* The walk began at the best bet: start all over again.                   *)
RestartAgain == call' = [call EXCEPT !.maj = l_memRoot, !.best = Best]  \* mutant
RestartOnce  == call' = [call EXCEPT !.maj = l_memRoot, !.best = Best,
                                     !.started = FALSE]
MayGrowAnyTime == TRUE                   \* mutant
MayGrow        == ~call.started

Restart ==
  /\ AtEnd
  /\ call.started
  /\ Remember
  /\ RestartOnce
  /\ UNCHANGED <<majors, minors, l_memRoot, l_allocated, l_inuse, held, pc>>

(* A new major behind the last one.  Case 1 falls through to case 2 with   *)
(* it, case 5 takes another turn.                                          *)
Grow ==
  /\ AtEnd
  /\ MayGrow
  /\ Remember
  /\ \E a \in PageAddresses :
       /\ NewPage(a, call.maj)
       /\ call' = [call EXCEPT !.maj = a, !.best = Best]
  /\ pc' = IF Lacks THEN "fresh" ELSE "scan"
  /\ UNCHANGED <<minors, l_memRoot, l_inuse, held>>

GrowRefused ==
  /\ AtEnd
  /\ MayGrow
  /\ Remember
  /\ Return(NULL, 0)
  /\ UNCHANGED <<majors, minors, l_memRoot, l_allocated, l_inuse>>

-----------------------------------------------------------------------------
(* kfree(p) of a pointer the caller holds.                                 *)
KeepBestBet(a) == l_bestBet              \* mutant
BestBetWithout(a) == IF l_bestBet = a THEN NULL ELSE l_bestBet

RootKept(a) == l_memRoot                 \* mutant
RootWithout(a) == IF l_memRoot = a THEN majors[a].next ELSE l_memRoot

Free(p) ==
  LET m    == MinorOf(p)
      a    == minors[m].block
      left == Wrap(majors[a].usage - minors[m].size - MinorSize)
      head == IF minors[m].prev = NULL THEN minors[m].next ELSE majors[a].first
      free(b) == SizeOf(b) - (IF b = a THEN left ELSE majors[b].usage)
  IN
  /\ minors' = Unlink(minors, m)
  /\ l_inuse' = l_inuse - minors[m].size
  /\ held' = [q \in DOMAIN held \ {p} |-> held[q]]
  /\ \/ /\ head = NULL
        /\ majors' = Unlink(majors, a)
        /\ l_memRoot' = RootWithout(a)
        /\ l_bestBet' = BestBetWithout(a)
        /\ l_allocated' = l_allocated - SizeOf(a)
     \/ /\ head # NULL
        /\ majors' = [majors EXCEPT ![a].usage = left, ![a].first = head]
        /\ l_bestBet' = IF l_bestBet # NULL /\ free(a) > free(l_bestBet) THEN a
                        ELSE l_bestBet
        /\ UNCHANGED <<l_memRoot, l_allocated>>

KFree(p) ==
  /\ pc = "idle"
  /\ Free(p)
  /\ UNCHANGED <<pc, call>>

(* krealloc(p, n) with n > 0 and p held: the same block if the size asked  *)
(* for last is enough, otherwise a kmalloc and then a copy and a kfree.    *)
(* (With n = 0 it is kfree, with a null p it is kmalloc.)                  *)
KReallocInPlace(p, n) ==
  /\ pc = "idle"
  /\ minors[MinorOf(p)].req >= n
  /\ minors' = [minors EXCEPT ![MinorOf(p)].req = n]
  /\ UNCHANGED <<majors, l_memRoot, l_bestBet, l_allocated, l_inuse, held, pc, call>>

KReallocMove(p, n) ==
  /\ pc = "idle"
  /\ minors[MinorOf(p)].req < n
  /\ Begin(n, p)
  /\ UNCHANGED <<majors, minors, l_memRoot, l_bestBet, l_allocated, l_inuse, held>>

(* The old block is copied and freed, also when kmalloc has returned NULL. *)
KReallocFree ==
  /\ pc = "copy"
  /\ Free(call.old)
  /\ pc' = "idle"
  /\ call' = NoCall

Next ==
  \/ \E n \in Sizes : KMalloc(n)
  \/ FirstMajor \/ FirstMajorRefused \/ EnterLoop
  \/ PlaceFirst \/ PlaceInFront \/ PlaceBehind
  \/ Hop \/ Restart \/ Grow \/ GrowRefused
  \/ \E p \in DOMAIN held : KFree(p)
  \/ \E p \in DOMAIN held, n \in Sizes : KReallocInPlace(p, n) \/ KReallocMove(p, n)
  \/ KReallocFree

(* A call that has begun goes on.                                          *)
Step == /\ pc # "idle"
        /\ Next
Spec == Init /\ [][Next]_vars /\ WF_vars(Step)

-----------------------------------------------------------------------------
Addresses == 0 .. WordSize - 1
End(m)    == m + MinorSize + minors[m].size
MinorsIn(a) == {m \in DOMAIN minors : minors[m].block = a}

(* The type of every variable.                                             *)
TypeOK ==
  /\ DOMAIN majors \subseteq PageAddresses
  /\ \A a \in DOMAIN majors :
       majors[a] \in [prev : Addresses, next : Addresses, pages : Nat,
                      usage : Nat, first : Addresses]
  /\ DOMAIN minors \subseteq Addresses
  /\ \A m \in DOMAIN minors :
       minors[m] \in [prev : Addresses, next : Addresses, block : DOMAIN majors,
                      size : Nat, req : Nat \ {0}]
  /\ l_memRoot \in DOMAIN majors \cup {NULL}
  /\ l_allocated \in Nat /\ l_inuse \in Nat
  /\ \A p \in DOMAIN held : held[p] \in AlignInfo .. AlignInfo + Alignment - 1
  /\ pc \in {"idle", "start", "scan", "fresh", "copy"}

(***************************************************************************)
(* Nobody's bytes are in two places.  The minors of a major lie behind its *)
(* header, inside its pages and apart from each other.  Each block handed  *)
(* out has a minor of its own and lies in it, aligned, with all the bytes  *)
(* asked for and the offset of ALIGN in front.                             *)
(***************************************************************************)
NothingOverlaps ==
  /\ \A m \in DOMAIN minors : LET a == minors[m].block IN
       /\ m >= a + MajorSize
       /\ End(m) <= a + SizeOf(a)
       /\ \A n \in MinorsIn(a) : m < n => End(m) <= n
  /\ \A p \in DOMAIN held : LET m == MinorOf(p) IN
       /\ m \in DOMAIN minors
       /\ p % Alignment = 0
       /\ p - AlignInfo >= m + MinorSize
       /\ p + minors[m].req <= End(m)
       /\ \A q \in DOMAIN held : p # q => MinorOf(q) # m

(***************************************************************************)
(* The two kinds of lists.  From l_memRoot the next pointers lead to every *)
(* major, from the first minor of a major to every minor of it, in the     *)
(* order of the addresses, and the prev pointers lead back.                *)
(***************************************************************************)
Linked(f, S, head) ==
  /\ (head = NULL) = (S = {})
  /\ \A x \in S :
       /\ (f[x].prev = NULL) = (x = head)
       /\ f[x].prev # NULL => f[x].prev \in S /\ f[f[x].prev].next = x
       /\ f[x].next # NULL => f[x].next \in S /\ f[f[x].next].prev = x
  /\ Cardinality({x \in S : f[x].next = NULL}) <= 1

ListsSound ==
  /\ TypeOK
  /\ Linked(majors, DOMAIN majors, l_memRoot)
  /\ \A a \in DOMAIN majors : Linked(minors, MinorsIn(a), majors[a].first)
  /\ \A m \in DOMAIN minors : minors[m].next # NULL => m < minors[m].next

(***************************************************************************)
(* The counters agree with the lists.  Between calls no major is kept that *)
(* holds no block: its pages have gone back.                               *)
(***************************************************************************)
SumBelow(f, n) ==
  LET s[x \in Nat] ==
        IF x = 0 THEN 0 ELSE s[x - 1] + (IF x - 1 \in DOMAIN f THEN f[x - 1] ELSE 0)
  IN  s[n]
Sum(f) == SumBelow(f, WordSize)   \* of what is kept at all addresses

CountersAgree ==
  /\ \A a \in DOMAIN majors :
       majors[a].usage = MajorSize + Sum([m \in MinorsIn(a) |-> minors[m].size + MinorSize])
  /\ l_inuse = Sum([m \in DOMAIN minors |-> minors[m].size])
  /\ l_allocated = Sum([a \in DOMAIN majors |-> SizeOf(a)])
  /\ pc = "idle" => \A a \in DOMAIN majors : majors[a].first # NULL
  /\ pc = "idle" => DOMAIN minors = {MinorOf(p) : p \in DOMAIN held}

(* After any sequence of calls, failed ones too, the lists of the heap are *)
(* whole and everything that is counted beside them agrees with them.      *)
HeapSound == ListsSound /\ CountersAgree

(***************************************************************************)
(* kfree gives majors back to the system while l_bestBet remembers one of  *)
(* them: the best bet, and the major a kmalloc looks at, are never gone.   *)
(***************************************************************************)
NoMajorDangles ==
  /\ l_bestBet \in DOMAIN majors \cup {NULL}
  /\ call.maj \in DOMAIN majors \cup {NULL}

(***************************************************************************)
(* kmalloc asks the system for pages only when no major has a gap for the  *)
(* block, wherever in the list the best bet made it begin.                 *)
(***************************************************************************)
HasRoom(a, n) ==
  \E x \in a + MajorSize .. a + SizeOf(a) - n :
    \A m \in MinorsIn(a) : x + n <= m \/ End(m) <= x

GrowsOnlyWhenFull ==
  [][DOMAIN majors' \ DOMAIN majors # {} =>
       \A a \in DOMAIN majors : ~HasRoom(a, Need)]_vars

(* Every call returns: the loop over the majors, with its fresh start at   *)
(* l_memRoot and its new majors, ends.                                     *)
CallsReturn == pc # "idle" ~> pc = "idle"

-----------------------------------------------------------------------------
(***************************************************************************)
(* liballoc.h:77 calls krealloc the standard function, which leaves the    *)
(* block as it was when it cannot get memory.  This one frees it.          *)
(***************************************************************************)
FailedReallocKeepsBlock ==
  [][(pc = "copy" /\ call.ptr = NULL) => call.old \in DOMAIN held']_vars
=============================================================================
