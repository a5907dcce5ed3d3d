----------------------------- MODULE PageGrants -----------------------------
(***************************************************************************)
(* What the page allocator promises to its caller, liballoc: a grant is a  *)
(* set of pages that belongs to the caller from alloc_virtual to           *)
(* free_virtual, every page of it backed by a physical frame.  How regions *)
(* are found, split and linked, and which frames are taken, is left open.  *)
(*                                                                         *)
(* The promise has an end.  When an allocation runs out of frames half     *)
(* way, memory.cpp leaves the set of free frames in an arbitrary state     *)
(* (Break).  From then on a fresh grant may be backed by frames of another *)
(* one, but the grants made before still keep the frames they have.        *)
(***************************************************************************)
EXTENDS Integers

CONSTANTS
  Heap,    \* pages that can be granted
  Usable,  \* frames that can back them
  Frames,  \* all frames, usable or not
  Sizes    \* numbers of pages a caller asks for

VARIABLES
  grants,   \* the page sets granted and not released
  backing,  \* the frame behind each granted page
  free,     \* frames the next grant may take
  broken    \* Break has happened

vars == <<grants, backing, free, broken>>

Granted == UNION grants

(* The type of every variable: each granted page has a frame behind it.    *)
TypeOK ==
  /\ grants \subseteq SUBSET Heap
  /\ backing \in [Granted -> Frames]
  /\ free \subseteq Frames
  /\ broken \in BOOLEAN

Init ==
  /\ grants = {}
  /\ backing = [p \in {} |-> 0]
  /\ free = Usable
  /\ broken = FALSE

(* A grant of pages nobody has, with a frame of its own for each of them.  *)
Grant(P) ==
  /\ P \cap Granted = {}
  /\ grants' = grants \cup {P}
  /\ \E f \in [P -> free] :
       /\ \A p, q \in P : p # q => f[p] # f[q]
       /\ backing' = [p \in Granted \cup P |->
                       IF p \in P THEN f[p] ELSE backing[p]]
       /\ free' = free \ {f[p] : p \in P}
  /\ UNCHANGED broken

Release(P) ==
  /\ grants' = grants \ {P}
  /\ backing' = [p \in Granted \ P |-> backing[p]]
  /\ free' = free \cup {backing[p] : p \in P}
  /\ UNCHANGED broken

Break ==
  /\ free' \in SUBSET Frames
  /\ broken' = TRUE
  /\ UNCHANGED <<grants, backing>>

Next ==
  \/ \E b \in Heap, n \in Sizes :
       b .. (b + n - 1) \subseteq Heap /\ Grant(b .. (b + n - 1))
  \/ \E P \in grants : Release(P)
  \/ Break

Spec == Init /\ [][Next]_vars

-----------------------------------------------------------------------------
(***************************************************************************)
(* The account: until Break, the free frames and those behind grants are   *)
(* the usable ones, each in one place.                                     *)
(***************************************************************************)
FramesAccounted ==
  ~broken =>
    /\ free \cup {backing[p] : p \in Granted} = Usable
    /\ \A p \in Granted : backing[p] \notin free
    /\ \A p, q \in Granted : p # q => backing[p] # backing[q]

(* Two different grants have no page in common.                            *)
GrantsDisjoint == \A P, Q \in grants : P # Q => P \cap Q = {}
=============================================================================
