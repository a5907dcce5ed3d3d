-------------------------------- MODULE Boot --------------------------------
(***************************************************************************)
(* How sysinit() (src/init.cpp) sets up the page allocator: preinit turns  *)
(* the BIOS memory map into the bitmap of free frames, disable_physical    *)
(* reserves the frames of kernel_data, and disable_virtual carves the      *)
(* kernel's and the user's quarters out of the one free region.  Addresses *)
(* are 32-bit numbers in the code and numbers modulo AddressSpace here;    *)
(* the BIOS gives 64-bit ones.  Interrupts are off.                        *)
(***************************************************************************)
EXTENDS Regions, Sequences

CONSTANTS
  PageSize,    \* bytes in a page, 0x1000 in the kernel
  KernelSize,  \* sizeof(kernel_data)
  BiosMaps,    \* memory maps the boot loader may have left at 0xa000
  OtherCalls   \* sequences of disable_virtual calls, <<address, length>>, that
               \* sysinit() could make in place of its own

AddressSpace == PageCount * PageSize
BiosTypes    == {"usable", "reserved"}
BiosRegion   == [base : Nat, length : Nat, type : BiosTypes]

ASSUME SizesAssumption ==
  /\ PageSize \in Nat \ {0}
  /\ KernelSize \in 0 .. AddressSpace - PageSize  \* align_up must not wrap
ASSUME MapsAssumption == BiosMaps \subseteq Seq(BiosRegion)
ASSUME CallsAssumption ==
  OtherCalls \subseteq Seq((0 .. AddressSpace - 1) \X (0 .. AddressSpace - 1))

VARIABLES
  pc,       \* where sysinit() is: "preinit", "reserve", "disable" or "done"
  bios,     \* the regions of the memory map
  scanned,  \* how many of them preinit has looked at
  calls,    \* the disable_virtual calls it makes
  call,     \* how many of them it has begun
  rgn       \* the local variable of disable_virtual

bootVars == <<pc, bios, scanned, calls, call, rgn, m_pages, m_rgns>>

(* The calls of sysinit(): all quarters but the second.                    *)
SysinitCalls == [k \in 1 .. 3 |-> <<(IF k = 1 THEN 0 ELSE k) * Quarter * PageSize,
                                   Quarter * PageSize>>]

(* memset has cleared m_pages and m_rgns.                                  *)
BootInit ==
  /\ pc = "preinit"
  /\ \/ bios \in BiosMaps /\ calls = SysinitCalls
     \/ bios = <<>> /\ calls \in OtherCalls
  /\ scanned = 0
  /\ call = 0
  /\ rgn = NULL
  /\ m_pages = {}
  /\ m_rgns = [s \in Slots |-> NoRegion]

-----------------------------------------------------------------------------
(* uint32_t arithmetic.                                                    *)
Wrap(x) == x % AddressSpace

AlignUp(v) == IF v % PageSize = 0 THEN v ELSE Wrap(v - (v % PageSize) + PageSize)

(* The frames from base / 0x1000 up to max_page in enable_physical and     *)
(* disable_physical: rounded outward at both ends.                         *)
FramesOneMore(base, length) ==    \* mutant
  (base \div PageSize) .. (AlignUp(Wrap(base + length)) \div PageSize)
FramesOneLess(base, length) ==    \* mutant
  (base \div PageSize + 1) .. (AlignUp(Wrap(base + length)) \div PageSize - 1)
FramesOf(base, length) ==
  (base \div PageSize) .. (AlignUp(Wrap(base + length)) \div PageSize - 1)

(* The bytes preinit considers of a region that starts below 4 GB.         *)
Clamped(b) == IF b.base + b.length > AddressSpace - 1
              THEN AddressSpace - b.base
              ELSE b.length

Considered(b) == /\ b.type = "usable"
                 /\ b.length # 0
                 /\ b.base <= AddressSpace - 1

(* One turn of the loop of preinit.                                        *)
PreinitRegion ==
  /\ pc = "preinit"
  /\ scanned < Len(bios)
  /\ LET b == bios[scanned + 1] IN
       m_pages' = IF Considered(b)
                  THEN m_pages \cup FramesOf(b.base, Wrap(Clamped(b)))
                  ELSE m_pages
  /\ scanned' = scanned + 1
  /\ UNCHANGED <<pc, bios, calls, call, rgn, m_rgns>>

(* The end of preinit: slot 0 holds the whole address space.               *)
PreinitDone ==
  /\ pc = "preinit"
  /\ scanned = Len(bios)
  /\ m_rgns' = [m_rgns EXCEPT ![0].type = "free", ![0].length = PageCount]
  /\ pc' = "reserve"
  /\ UNCHANGED <<bios, scanned, calls, call, rgn, m_pages>>

(* disable_physical(data, sizeof(kernel_data)), with data = 0.             *)
Reserve ==
  /\ pc = "reserve"
  /\ m_pages' = m_pages \ FramesOf(0, KernelSize)
  /\ pc' = "disable"
  /\ UNCHANGED <<bios, scanned, calls, call, rgn, m_rgns>>

-----------------------------------------------------------------------------
(* disable_virtual, one turn of its loop at a time.                        *)
addrOf(c)  == calls[c][1] \div PageSize
pagesOf(c) == AlignUp(calls[c][2]) \div PageSize
Aligned(c) == calls[c][1] % PageSize = 0
addr       == addrOf(call)
pages      == pagesOf(call)
endaddr    == addr + pages

Disabling == pc = "disable" /\ rgn # NULL

(* The two slots get_unused would return one after the other.              *)
UnusedAfter(e, f) == /\ m_rgns[f].type = "none" /\ e < f
                     /\ \A s \in Slots : (e < s /\ s < f) => m_rgns[s].type # "none"

(* x->next->prev = p.  A null next makes it a write to address 0, into the *)
(* reserved bytes at the start of kernel_data.                             *)
LinkBack(rgns, x, p) == IF x = NULL THEN rgns ELSE [rgns EXCEPT ![x].prev = p]

(* x->prev->next = n, the same way.                                        *)
LinkOn(rgns, x, n) == IF x = NULL THEN rgns ELSE [rgns EXCEPT ![x].next = n]

UntouchedLastPage ==  \* mutant
             \/ m_rgns[rgn].type \in {"disabled", "none"}
             \/ m_rgns[rgn].base >= endaddr - 1
             \/ m_rgns[rgn].base < addr /\ End(rgn) \in 1 .. addr
Untouched == \/ m_rgns[rgn].type \in {"disabled", "none"}
             \/ m_rgns[rgn].base >= endaddr
             \/ m_rgns[rgn].base < addr /\ End(rgn) \in 1 .. addr

SkipRegion ==
  /\ Disabling
  /\ Untouched
  /\ rgn' = m_rgns[rgn].next
  /\ UNCHANGED <<pc, bios, scanned, calls, call, m_pages, m_rgns>>

(* The whole region lies in the range, and the range goes on behind it.    *)
DisableWhole ==
  /\ Disabling /\ ~Untouched
  /\ m_rgns[rgn].base >= addr
  /\ End(rgn) < endaddr
  /\ m_rgns' = [m_rgns EXCEPT ![rgn].type = "disabled"]
  /\ rgn' = m_rgns[rgn].next
  /\ UNCHANGED <<pc, bios, scanned, calls, call, m_pages>>

HeadWholeLength == endaddr - m_rgns[rgn].base  \* mutant
HeadLength      == endaddr - 1 - m_rgns[rgn].base

BehindSelf ==    \* mutant
  [type |-> "free", base |-> endaddr, length |-> m_rgns[rgn].length - HeadLength - 1,
   next |-> rgn, prev |-> rgn]
BehindNoBase ==  \* mutant
  [type |-> "free", base |-> endaddr, length |-> m_rgns[rgn].length - endaddr,
   next |-> m_rgns[rgn].next, prev |-> rgn]
Behind ==
  [type |-> "free", base |-> endaddr, length |-> m_rgns[rgn].length - HeadLength - 1,
   next |-> m_rgns[rgn].next, prev |-> rgn]

(* The range covers the head of the region.  The disabled region ends one  *)
(* page early and the rest is counted from the page it should have had.    *)
DisableHead ==
  /\ Disabling /\ ~Untouched
  /\ m_rgns[rgn].base >= addr
  /\ End(rgn) >= endaddr
  /\ \E e \in Slots :
       /\ GetUnused(e)
       /\ m_rgns' = LinkBack(
            [m_rgns EXCEPT ![e] = Behind, ![rgn].length = HeadLength,
                           ![rgn].next = e, ![rgn].type = "disabled"],
            m_rgns[rgn].next, e)
       /\ rgn' = e
  /\ UNCHANGED <<pc, bios, scanned, calls, call, m_pages>>

(* The range lies inside the region, which is cut in two or three; the     *)
(* loop returns.                                                           *)
DisableMiddle ==
  /\ Disabling /\ ~Untouched
  /\ m_rgns[rgn].base < addr
  /\ End(rgn) >= endaddr
  /\ \E e, f \in Slots :
       LET r      == m_rgns[rgn]
           before == [type |-> "free", base |-> r.base, length |-> addr - r.base - 1,
                      next |-> rgn, prev |-> r.prev]
           after  == [type |-> "free", base |-> endaddr,
                      length |-> r.length - pages - before.length,
                      next |-> r.next, prev |-> rgn]
           cut    == LinkOn([m_rgns EXCEPT ![e] = before], r.prev, e)
           split  == LinkBack([cut EXCEPT ![f] = after, ![rgn].next = f], r.next, f)
           rest   == IF End(rgn) > endaddr THEN split ELSE cut
       IN  /\ GetUnused(e) /\ UnusedAfter(e, f)
           /\ m_rgns' = [rest EXCEPT ![rgn].base = r.base + before.length + 1,
                                     ![rgn].length = pages,
                                     ![rgn].prev = e,
                                     ![rgn].type = "disabled"]
  /\ rgn' = NULL
  /\ UNCHANGED <<pc, bios, scanned, calls, call, m_pages>>

(* The range covers the tail of the region and goes on behind it.  The     *)
(* disabled region keeps the base of the free one in front of it.          *)
DisableTail ==
  /\ Disabling /\ ~Untouched
  /\ m_rgns[rgn].base < addr
  /\ End(rgn) < endaddr
  /\ \E e \in Slots :
       LET r      == m_rgns[rgn]
           before == [type |-> "free", base |-> r.base, length |-> addr - r.base,
                      next |-> rgn, prev |-> r.prev]
       IN  /\ GetUnused(e)
           /\ m_rgns' = [LinkOn([m_rgns EXCEPT ![e] = before], r.prev, e)
                           EXCEPT ![rgn].prev = e,
                                  ![rgn].length = r.length - before.length,
                                  ![rgn].type = "disabled"]
  /\ rgn' = m_rgns[rgn].next
  /\ UNCHANGED <<pc, bios, scanned, calls, call, m_pages>>

(* sysinit() makes the next call.  One for an address inside a page        *)
(* returns at once.                                                        *)
NextCall ==
  /\ pc = "disable" /\ rgn = NULL
  /\ call < Len(calls)
  /\ call' = call + 1
  /\ rgn' = IF calls[call + 1][1] % PageSize = 0 THEN 0 ELSE NULL
  /\ UNCHANGED <<pc, bios, scanned, calls, m_pages, m_rgns>>

Finish ==
  /\ pc = "disable" /\ rgn = NULL
  /\ call = Len(calls)
  /\ pc' = "done"
  /\ UNCHANGED <<bios, scanned, calls, call, rgn, m_pages, m_rgns>>

BootNext ==
  \/ PreinitRegion \/ PreinitDone \/ Reserve
  \/ SkipRegion \/ DisableWhole \/ DisableHead \/ DisableMiddle \/ DisableTail
  \/ NextCall \/ Finish

(* sysinit() runs alone: as long as it has a step to take it takes it.     *)
BootSpec == BootInit /\ [][BootNext]_bootVars /\ WF_bootVars(BootNext)

-----------------------------------------------------------------------------
(* The type of every variable.                                             *)
BootTypeOK ==
  /\ pc \in {"preinit", "reserve", "disable", "done"}
  /\ bios \in Seq(BiosRegion)
  /\ scanned \in 0 .. Len(bios)
  /\ calls \in Seq((0 .. AddressSpace - 1) \X (0 .. AddressSpace - 1))
  /\ call \in 0 .. Len(calls)
  /\ rgn \in Slots \cup {NULL}
  /\ m_pages \subseteq Frames
  /\ m_rgns \in [Slots -> Region]

(***************************************************************************)
(* Whatever ranges it is called for, one after the other, disable_virtual  *)
(* leaves no page of the range in a free region alloc_virtual can find, as *)
(* it returns.  (A later call for the middle of a region may free a page   *)
(* behind that region again: DisableMiddle counts one page too many.)      *)
(***************************************************************************)
RangeDisabled ==
  /\ BootTypeOK
  /\ (call > 0 /\ Aligned(call) /\ rgn = NULL) =>
    \A s \in ListSlots :
      m_rgns[s].type = "free" => PagesOf(s) \cap (addr .. endaddr - 1) = {}

(***************************************************************************)
(* The calls of sysinit() end in the regions Memory starts with: the gaps  *)
(* of one page its off-by-ones leave at the end of three quarters, and the *)
(* region of one page behind the address space, do not reach the heap.     *)
(***************************************************************************)
RegionsReady == calls = SysinitCalls => m_rgns = BootRegions

(***************************************************************************)
(* The bitmap sysinit() ends with.  A free frame holds a byte of a usable  *)
(* region and none of kernel_data; every frame that lies in a usable       *)
(* region from end to end, and not in kernel_data, is free, but for those  *)
(* of a region that ends in the last page, where align_up wraps to 0.      *)
(***************************************************************************)
BytesOf(f)  == f * PageSize .. f * PageSize + PageSize - 1
UsableIn(b) == IF b.type = "usable" THEN b.base .. b.base + b.length - 1 ELSE {}
NotKernel(f) == f * PageSize >= KernelSize

FreeFramesAreUsable ==
  \A f \in m_pages :
    NotKernel(f) /\ \E k \in DOMAIN bios : BytesOf(f) \cap UsableIn(bios[k]) # {}
UsableFramesAreFree ==
  \A k \in DOMAIN bios, f \in Frames :
    (/\ BytesOf(f) \subseteq UsableIn(bios[k]) /\ NotKernel(f)
     /\ bios[k].base + bios[k].length <= AddressSpace - PageSize) => f \in m_pages

(* What Memory takes for granted of the state that sysinit() leaves.       *)
MemoryReady ==
  pc = "done" => RegionsReady /\ FreeFramesAreUsable /\ UsableFramesAreFree

(* sysinit() gets done: no walk of disable_virtual runs in a circle of the *)
(* list it is rewriting.                                                   *)
Terminates == <>(pc = "done")
=============================================================================
