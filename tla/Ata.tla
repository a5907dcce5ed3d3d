--------------------------------- MODULE Ata ---------------------------------
(***************************************************************************)
(* The ATA driver (src/ata.cpp) and the drive it polls.  A sector is known *)
(* by its number, its LBA.                                                 *)
(*                                                                         *)
(* After a command, and after the last word of a sector, the drive needs   *)
(* up to 400 ns to change its status register; until then the register     *)
(* still says what it said before.  The five io::wait of the driver last   *)
(* longer than that.                                                       *)
(***************************************************************************)
EXTENDS Integers, Sequences

CONSTANT LbaLimit    \* 2^24: the driver sends three bytes of an address

ASSUME LbaAssumption == LbaLimit \in Nat \ {0}

VARIABLES
  status,   \* the drive: "ready", "stale", "bsy", "drq" or "err"
  lba,      \*   the next sector it delivers
  left,     \* the sectors of the command that are still to be read
  at,       \* the driver: "none", or the loop that polls: "bsy", "drq"
  block     \*   the sectors it has stored

drive   == <<status, lba>>
ataVars == <<status, lba, left, at, block>>

Unread == -1   \* what a data register holds that has no data

AtaInit == status = "ready" /\ lba = 0 /\ left = 0 /\ at = "none" /\ block = <<>>

(* A call of read_sectors, for at least one sector, up to the wait.        *)
ReadSectors(count, addr) ==
  /\ at = "none"
  /\ status' = "stale" /\ lba' = addr % LbaLimit
  /\ left' = count
  /\ at' = "bsy"
  /\ block' = <<>>

(* The time of five writes to an unused port has passed.                   *)
NotWaited == TRUE  \* mutant
Waited == status # "stale"

(* while (inb(bus + 7) & 0x80);                                            *)
SeesReady ==
  /\ at = "bsy" /\ Waited
  /\ status # "bsy"
  /\ at' = "drq"
  /\ UNCHANGED <<drive, left, block>>

OneMore    == left >= 1  \* mutant
MoreToRead == left > 1

(* while (!(inb(bus + 7) & 8)); and the 256 words.  A status that is stale *)
(* after a sector has the bit of that sector.                              *)
Transfer ==
  /\ at = "drq"
  /\ status = "drq" \/ (status = "stale" /\ block # <<>>)
  /\ block' = Append(block, IF status = "drq" THEN lba ELSE Unread)
  /\ left' = left - 1
  /\ at' = IF MoreToRead THEN "bsy" ELSE "none"
  /\ lba' = lba + 1
  /\ status' = IF left > 1 THEN "stale" ELSE "ready"

DriveBusy == status = "stale" /\ status' = "bsy" /\ UNCHANGED <<lba, left, at, block>>
DriveData == status = "bsy" /\ status' = "drq" /\ UNCHANGED <<lba, left, at, block>>

(* The sector cannot be read: ERR is set, and DRQ is not.                  *)
DriveFails == status = "bsy" /\ status' = "err" /\ UNCHANGED <<lba, left, at, block>>

AtaNext == SeesReady \/ Transfer \/ DriveBusy \/ DriveData \/ DriveFails

-----------------------------------------------------------------------------
(* A read that is over has stored the sectors from addr on.                *)
Sectors(count, addr) == [j \in 1 .. count |-> addr + j - 1]

(* What it has stored, and what the drive is at, while it goes on.         *)
Stores(count, addr) ==
  /\ at \in {"none", "bsy", "drq"} /\ left \in 0 .. count
  /\ at = "none" <=> left = 0
  /\ at # "none" => lba = addr + count - left
  /\ at = "drq" => status # "stale"
  /\ block = Sectors(count - left, addr)
=============================================================================
