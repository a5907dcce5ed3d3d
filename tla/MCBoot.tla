------------------------------- MODULE MCBoot -------------------------------
(***************************************************************************)
(* Instances of Boot for TLC: 12 pages of 4 bytes, and a kernel of two.    *)
(* The memory maps are all those of at most two regions that do not        *)
(* overlap, with ends inside a page, at page ends, at the top of the       *)
(* address space and above it.                                             *)
(***************************************************************************)
EXTENDS Boot

MCPageSize == 4
MCQuarter  == 3
MCSpace    == 4 * MCQuarter * MCPageSize

MCBiosRegions ==
  [base : {0, 6, 20, 40, 48}, length : {0, 5, 8, 20, 60}, type : BiosTypes]
Apart(a, b) == a.base + a.length <= b.base \/ b.base + b.length <= a.base
MCBiosMaps ==
  {<<>>} \cup {<<a>> : a \in MCBiosRegions}
    \cup {m \in MCBiosRegions \X MCBiosRegions : Apart(m[1], m[2])}

(* Any three calls for ranges of one, two and four pages, and one for an   *)
(* address inside a page.                                                  *)
MCRanges ==
  {r \in {0, 4, 8, 16, 28, 36, 40, 44} \X {4, 8, 16} : r[1] + r[2] <= MCSpace}
    \cup {<<6, 8>>}
MCAnyCalls == MCRanges \X MCRanges \X MCRanges
=============================================================================
