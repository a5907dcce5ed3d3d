------------------------------ MODULE Regions ------------------------------
(***************************************************************************)
(* What module Boot fills and module Memory works on (mem_info in          *)
(* src/include/os/memory.h): the bitmap of free physical frames, and the   *)
(* array of virtual regions with the list that runs through it.            *)
(***************************************************************************)
EXTENDS Integers

CONSTANTS
  Quarter,  \* pages in a quarter of the address space, 0x40000 in the kernel
  NULL      \* the null region pointer

PageCount == 4 * Quarter
Frames    == 0 .. PageCount - 1
Slots     == 0 .. PageCount - 1

ASSUME QuarterAssumption == Quarter \in Nat /\ Quarter >= 3
ASSUME NullAssumption    == NULL \notin Slots

VARIABLES
  m_pages,  \* frames whose bit is set: free to be mapped
  m_rgns    \* the array of mem_virt_rgn

RegionTypes == {"none", "free", "used", "disabled"}
Region == [type : RegionTypes, base : Nat, length : Nat,
           next : Slots \cup {NULL}, prev : Slots \cup {NULL}]

Rgn(t, b, l, n, p) == [type |-> t, base |-> b, length |-> l, next |-> n, prev |-> p]

(* memset has cleared m_rgns.                                              *)
NoRegion == Rgn("none", 0, 0, NULL, NULL)

(***************************************************************************)
(* The region list when sysinit() returns.  Slots are in the order in      *)
(* which get_unused handed them out, not in list order, and the lengths    *)
(* carry the off-by-ones of disable_virtual.                               *)
(***************************************************************************)
BootRegions ==
  [s \in Slots |->
    CASE s = 0 -> Rgn("disabled", 0, Quarter - 1, 2, NULL)
      [] s = 1 -> Rgn("disabled", 2 * Quarter, Quarter, 3, 2)
      [] s = 2 -> Rgn("free", Quarter, Quarter - 1, 1, 0)
      [] s = 3 -> Rgn("disabled", 3 * Quarter, Quarter - 1, 4, 1)
      [] s = 4 -> Rgn("free", 4 * Quarter, 1, NULL, 3)
      [] OTHER -> NoRegion]

End(s)     == m_rgns[s].base + m_rgns[s].length
PagesOf(s) == m_rgns[s].base .. (m_rgns[s].base + m_rgns[s].length - 1)

(* The list, from m_first_rgn (always slot 0) along the next pointers.     *)
Walk[k \in Nat] ==
  IF k = 0 THEN 0
  ELSE LET r == Walk[k - 1] IN IF r = NULL THEN NULL ELSE m_rgns[r].next
ListSlots == {Walk[k] : k \in 0 .. PageCount} \ {NULL}

GetUnusedInQuarter(e) ==  \* mutant
  /\ m_rgns[e].type = "none" /\ e < Quarter
  /\ \A s \in Slots : s < e => m_rgns[s].type # "none"
GetUnused(e) ==
  /\ m_rgns[e].type = "none"
  /\ \A s \in Slots : s < e => m_rgns[s].type # "none"
=============================================================================
