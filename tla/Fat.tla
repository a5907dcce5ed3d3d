--------------------------------- MODULE Fat ---------------------------------
(***************************************************************************)
(* The FAT32 file system (src/include/os/fat.h) on the drive of module Ata,*)
(* and the directory tree that the dirent system call prints               *)
(* (src/syscall.cpp).  The disk does not change.  One step is what one     *)
(* call of read_sectors is waited for, or one turn of a loop.              *)
(*                                                                         *)
(* Sizes are counted in sectors, and the bytes of a sector are its number. *)
(* A name is the sequence of the pieces of 13 characters that its long     *)
(* entries hold: a piece is full or ends with a NUL.  A short name has at  *)
(* most 12 characters, and no NUL.                                         *)
(***************************************************************************)
EXTENDS Ata, SequencesExt

CONSTANTS
  Disks,       \* the contents that the disk may have
  Paths,       \* the sequences of names that are looked for
  Full,        \* the pieces of a name that have no NUL
  Starts,      \* <<s, p>>: the piece p starts with the characters of the short name s
  ORDERS,      \* 19: the pieces that name_buf has room for
  BLOCK_COUNT, \* FAT_BLOCK_COUNT, sectors in the cache
  ENTRIES,     \* FAT_ENTRIES_IN_BLOCK
  EOC,         \* 0x0ffffff8
  PopLimit,    \* 2^32: popularity wraps
  PartStart    \* 4096: where the partition begins

Blocks == 1 .. BLOCK_COUNT
Orders == 1 .. ORDERS

ASSUME CacheAssumption ==
  /\ BLOCK_COUNT \in Nat \ {0} /\ ENTRIES \in Nat \ {0} /\ ORDERS \in Nat \ {0}
  /\ PopLimit \in Nat \ {0} /\ PartStart \in Nat /\ EOC \in Nat

(* Where the FAT, the data and a cluster begin, by the parameter block.     *)
FatStart(b)     == PartStart + b.reserved
DataStart(b)    == FatStart(b) + b.fat_count * b.sectors_per_fat
SectorOf(b, c)  == DataStart(b) + (c - 2) * b.sectors_per_cluster

(* A disk: its parameter block, its FAT, and the entries of the clusters   *)
(* that directories begin with.  An entry is a piece of a long name, or    *)
(* stands for a file or directory, or was one, or is ".", or ends the      *)
(* directory.                                                              *)
EntryKinds == {"lfn", "deleted lfn", "file", "directory", "deleted", "dot", "end"}
Geometry == {"reserved", "fat_count", "sectors_per_fat", "sectors_per_cluster", "root_cluster"}
ASSUME DisksAssumption == \A d \in Disks :
  /\ d.bpb \in [Geometry -> Nat]
  /\ d.bpb.sectors_per_cluster > 0 /\ d.bpb.sectors_per_fat > 0
  /\ PartStart + d.bpb.reserved + d.bpb.sectors_per_fat <= LbaLimit
  /\ DOMAIN d.fat = 0 .. ENTRIES * d.bpb.sectors_per_fat - 1
  /\ \A c \in DOMAIN d.fat :
       /\ d.fat[c] \in 0 .. 2^28 - 1  \* the upper bits are reserved, and no int is negative
       /\ d.fat[c] < EOC => d.fat[c] \in DOMAIN d.fat
  /\ \A c \in DOMAIN d.fat :  \* three bytes are enough for its address
       SectorOf(d.bpb, c) >= 0 /\ SectorOf(d.bpb, c) + d.bpb.sectors_per_cluster <= LbaLimit
  /\ \A c \in DOMAIN d.entries :
       /\ Len(d.entries[c]) \in Nat /\ DOMAIN d.entries[c] = 1 .. Len(d.entries[c])
       /\ \A i \in DOMAIN d.entries[c] :
            LET e == d.entries[c][i] IN
            /\ e.kind \in EntryKinds
            /\ e.kind \in {"file", "directory"} => e.cluster \in DOMAIN d.fat /\ e.size \in Nat
            /\ e.kind = "lfn" => e.order \in Orders

Unset == "unset"   \* a piece of name_buf that nothing was copied to
NoEntry == [kind |-> "file", cluster |-> 0, size |-> 0, name |-> Unset]

VARIABLES
  disk,
  bpb,              \* m_bpb
  m_fat,            \* block -> popularity, index, and the sector in data
  m_cluster_buffer,
  pc, call, goal,   \* the call that runs, and its path
  path,             \* what is left of the path
  dirs,             \* the calls of enumerate_directory, the innermost last
  found_entry,
  cluster, size,    \* read_file's arguments
  out,              \*   and the buffer it has filled
  victim,           \* the block that is being read
  listed            \* what dirent has printed: depth and name, and of what cluster

fileVars == <<cluster, size, out>>
dirVars  == <<path, dirs, found_entry, listed>>
constant == <<disk, bpb, call, goal>>
vars == <<ataVars, disk, bpb, m_fat, m_cluster_buffer, pc, call, goal, dirVars, fileVars, victim>>

-----------------------------------------------------------------------------
(* What the disk holds at a sector.                                        *)
ClusterOf(b, c) == Sectors(b.sectors_per_cluster, SectorOf(b, c))
BpbIn(s) == IF s = PartStart THEN disk.bpb ELSE [g \in Geometry |-> 0]
FatIn(s, k) == disk.fat[(s - FatStart(disk.bpb)) * ENTRIES + k]
EntriesIn(sectors) ==
  IF \E c \in DOMAIN disk.entries : sectors = ClusterOf(disk.bpb, c)
  THEN disk.entries[CHOOSE c \in DOMAIN disk.entries : sectors = ClusterOf(disk.bpb, c)]
  ELSE <<>>

(* A block of the cache: fat_block.                                        *)
Cached(p, i, d) == [popularity |-> p, index |-> i, data |-> d]

-----------------------------------------------------------------------------
(* The constructor reads the parameter block and empties the cache.        *)
Init ==
  /\ AtaInit
  /\ disk \in Disks
  /\ bpb = [g \in Geometry |-> 0]
  /\ m_fat = [b \in Blocks |-> Cached(0, 0, 0)]
  /\ m_cluster_buffer = <<>>
  /\ pc = "new" /\ call = "none" /\ goal = <<>>
  /\ path = <<>> /\ dirs = <<>> /\ found_entry = NoEntry /\ listed = <<>>
  /\ cluster = 0 /\ size = 0 /\ out = <<>> /\ victim = 1

New ==
  /\ pc = "new"
  /\ ReadSectors(1, PartStart)
  /\ pc' = "mount"
  /\ UNCHANGED <<disk, bpb, m_fat, m_cluster_buffer, call, goal, dirVars, fileVars, victim>>

Mount ==
  /\ pc = "mount" /\ at = "none"
  /\ bpb' = BpbIn(block[1])
  /\ m_fat' = [b \in Blocks |-> Cached(0, 0, 0)]
  /\ pc' = "idle"
  /\ UNCHANGED <<ataVars, disk, m_cluster_buffer, call, goal, dirVars, fileVars, victim>>

-----------------------------------------------------------------------------
(* enumerate_directory: read the first cluster of the directory,           *)
Enumerate(c) ==
  /\ ReadSectors(bpb.sectors_per_cluster, SectorOf(bpb, c))
  /\ pc' = "read directory"

(* get_file_size and get_file look for a path from the root,               *)
Search(f, p) ==
  /\ call' = f /\ goal' = p /\ path' = p
  /\ out' = <<>> /\ listed' = <<>>
  /\ Enumerate(bpb.root_cluster)
  /\ UNCHANGED <<disk, bpb, m_fat, m_cluster_buffer, dirs, found_entry, cluster, size, victim>>

(* and syscall_dirent lists the root.                                      *)
Dirent ==
  /\ pc = "idle"
  /\ call' = "dirent" /\ out' = <<>> /\ listed' = <<>>
  /\ Enumerate(bpb.root_cluster)
  /\ UNCHANGED <<disk, bpb, m_fat, m_cluster_buffer, goal, path, dirs, found_entry, cluster, size, victim>>

(* then copy the entries, since a callback reads into the same buffer.     *)
DirectoryRead ==
  /\ pc = "read directory" /\ at = "none"
  /\ m_cluster_buffer' = block
  /\ dirs' = Append(dirs, [entries |-> EntriesIn(block), i |-> 1, has_lfn |-> FALSE,
                           name_buf |-> [o \in Orders |-> Unset]])
  /\ pc' = "scan"
  /\ UNCHANGED <<ataVars, constant, m_fat, path, found_entry, listed, fileVars, victim>>

EntriesInBuffer(d) == EntriesIn(m_cluster_buffer)  \* mutant
EntriesOf(d) == d.entries

-----------------------------------------------------------------------------
(* The loop over the entries of the innermost directory.                   *)
Inner == Last(dirs)
More  == Inner.i <= Len(EntriesOf(Inner))
Entry == EntriesOf(Inner)[Inner.i]

Turn(d)   == [d EXCEPT !.i = @ + 1, !.has_lfn = FALSE]
Inside(d) == Append(Front(dirs), d)

Scan(kinds) == pc = "scan" /\ More /\ Entry.kind \in kinds
scanned == <<ataVars, constant, m_fat, m_cluster_buffer, path, fileVars, victim>>

NextPlace(order) == IF order < ORDERS THEN order + 1 ELSE order  \* mutant
Place(order) == order

LfnEntry ==
  /\ Scan({"lfn"})
  /\ dirs' = Inside([Inner EXCEPT !.i = @ + 1, !.has_lfn = TRUE,
                                  !.name_buf[Place(Entry.order)] = Entry.piece])
  /\ UNCHANGED <<scanned, pc, found_entry, listed>>

DeletedLfn ==
  /\ Scan({"deleted lfn"})
  /\ dirs' = Inside([Inner EXCEPT !.i = @ + 1])
  /\ UNCHANGED <<scanned, pc, found_entry, listed>>

Skipped ==
  /\ Scan({"deleted", "dot"})
  /\ dirs' = Inside(Turn(Inner))
  /\ UNCHANGED <<scanned, pc, found_entry, listed>>

EndOfDirectory ==
  /\ pc = "scan" /\ (More => Entry.kind = "end")
  /\ dirs' = Front(dirs)
  /\ pc' = "enumerated"
  /\ UNCHANGED <<scanned, found_entry, listed>>

(* The name the callback gets is what name_buf holds, or a short name: its *)
(* characters and then, without a NUL, what lay on the stack, such as the  *)
(* end of a name before.  No piece of that is known, but that the first    *)
(* one starts with Entry.name.                                             *)
ActualName == IF Inner.has_lfn THEN Inner.name_buf ELSE [o \in Orders |-> Unset]

(* What printf prints of it: the pieces up to a NUL, and Unset for what is *)
(* not known.                                                              *)
Printed ==
  LET open == {o \in Orders : \A j \in 1 .. o : ActualName[j] \in Full}
      n    == Cardinality(open)
  IN  IF ~Inner.has_lfn THEN <<Entry.name, Unset>>
      ELSE SubSeq(ActualName, 1, IF n < ORDERS THEN n + 1 ELSE n)

(* namecmp: what it may return.  The name that is looked for must end      *)
(* where the other has its NUL.  A short name may go on like any name that *)
(* starts with its characters.                                             *)
namecmp(name, real) ==
  LET n == Len(name) IN
  IF ~Inner.has_lfn /\ <<Entry.name, name[1]>> \notin Starts THEN {FALSE}
  ELSE IF \E o \in 1 .. n : real[o] # Unset /\ real[o] # name[o] THEN {FALSE}
  ELSE IF \E o \in 1 .. n : real[o] = Unset THEN BOOLEAN
  ELSE IF name[n] \notin Full THEN {TRUE}
  ELSE IF n < ORDERS /\ real[n + 1] # Unset THEN {FALSE}
  ELSE BOOLEAN

(* traverse_func, the callback of a search,                                *)
Traversed(found) ==
  /\ Scan({"file", "directory"}) /\ call # "dirent"
  /\ found \in namecmp(Head(path), ActualName)
  /\ IF found
     THEN /\ found_entry' = Entry
          /\ dirs' = Front(dirs)
          /\ pc' = "enumerated"
     ELSE /\ dirs' = Inside(Turn(Inner))
          /\ UNCHANGED <<pc, found_entry>>
  /\ UNCHANGED <<scanned, listed>>

(* and dirent_func, which prints the entry and enumerates a directory.     *)
Listed ==
  /\ Scan({"file", "directory"}) /\ call = "dirent"
  /\ listed' = Append(listed, <<Len(dirs) - 1, Printed, Entry.cluster>>)
  /\ dirs' = Inside(Turn(Inner))
  /\ IF Entry.kind = "directory"
     THEN Enumerate(Entry.cluster)
     ELSE UNCHANGED <<ataVars, pc>>
  /\ UNCHANGED <<constant, m_fat, m_cluster_buffer, path, found_entry, fileVars, victim>>

(* traverse_directory: the next name is looked for in what was found,      *)
NextName ==
  /\ pc = "enumerated" /\ call # "dirent" /\ Len(path) > 1
  /\ path' = Tail(path)
  /\ Enumerate(found_entry.cluster)
  /\ UNCHANGED <<constant, m_fat, m_cluster_buffer, dirs, found_entry, listed, fileVars, victim>>

(* or the search is over,                                                  *)
Idle ==
  /\ pc' = "idle" /\ call' = "none" /\ goal' = <<>> /\ path' = <<>>
  /\ cluster' = 0 /\ size' = 0 /\ UNCHANGED <<disk, bpb>>

Searched ==
  /\ pc = "enumerated" /\ call # "dirent" /\ Len(path) = 1
  /\ IF call = "get_file"
     THEN /\ cluster' = found_entry.cluster
          /\ size' = found_entry.size
          /\ pc' = "read_file"
          /\ UNCHANGED <<path, constant>>
     ELSE Idle
  /\ UNCHANGED <<ataVars, m_fat, m_cluster_buffer, dirs, found_entry, listed, out, victim>>

(* or the listing goes on in the directory outside.                        *)
ListingGoesOn ==
  /\ pc = "enumerated" /\ call = "dirent"
  /\ IF dirs = <<>> THEN Idle ELSE pc' = "scan" /\ UNCHANGED <<constant, path, cluster, size>>
  /\ UNCHANGED <<ataVars, m_fat, m_cluster_buffer, dirs, found_entry, listed, out, victim>>

-----------------------------------------------------------------------------
(* read_file: one cluster ...                                              *)
fileKept == <<disk, bpb, dirs, found_entry, listed>>

ReadCluster ==
  /\ pc = "read_file" /\ cluster < EOC
  /\ ReadSectors(bpb.sectors_per_cluster, SectorOf(bpb, cluster))
  /\ pc' = "read cluster"
  /\ UNCHANGED <<fileKept, call, goal, path, m_fat, m_cluster_buffer, fileVars, victim>>

ChainEnds ==
  /\ pc = "read_file" /\ cluster >= EOC
  /\ Idle
  /\ UNCHANGED <<fileKept, ataVars, m_fat, m_cluster_buffer, out, victim>>

GoesOn(s)  == s > bpb.sectors_per_cluster
Rest(s)   == s - bpb.sectors_per_cluster

CopyCluster ==
  /\ pc = "read cluster" /\ at = "none"
  /\ m_cluster_buffer' = block
  /\ out' = out \o SubSeq(block, 1, IF GoesOn(size) THEN bpb.sectors_per_cluster ELSE size)
  /\ IF GoesOn(size)
     THEN /\ size' = Rest(size)
          /\ pc' = "get_next_cluster"
          /\ UNCHANGED <<call, goal, path, cluster>>
     ELSE Idle
  /\ UNCHANGED <<fileKept, ataVars, m_fat, victim>>

(* ... and get_next_cluster finds the next one in the cache,               *)
index_from_0 == cluster \div ENTRIES  \* mutant
fat_index == cluster \div ENTRIES + 1
NextIn(sector) == FatIn(sector, cluster % ENTRIES)

CacheHit(b) ==
  /\ pc = "get_next_cluster"
  /\ m_fat[b].index = fat_index
  /\ \A c \in Blocks : c < b => m_fat[c].index # fat_index
  /\ m_fat' = [m_fat EXCEPT ![b] = Cached((@.popularity + 1) % PopLimit, @.index, @.data)]
  /\ cluster' = NextIn(m_fat[b].data)
  /\ pc' = "read_file"
  /\ UNCHANGED <<fileKept, ataVars, call, goal, path, m_cluster_buffer, size, out, victim>>

(* or reads it into the first block that is empty, or else the first of    *)
(* the least popular ones.                                                 *)
Empty == {b \in Blocks : m_fat[b].index = 0}
LeastPopular == {b \in Blocks : \A c \in Blocks : m_fat[b].popularity <= m_fat[c].popularity}
Victim ==
  LET candidates == IF Empty # {} THEN Empty ELSE LeastPopular
  IN  CHOOSE b \in candidates : \A c \in candidates : b <= c

NextSector(i) == FatStart(bpb) + i   \* mutant
FatSector(i)  == FatStart(bpb) + i - 1

CacheMiss ==
  /\ pc = "get_next_cluster"
  /\ \A b \in Blocks : m_fat[b].index # fat_index
  /\ victim' = Victim
  /\ m_fat' = [m_fat EXCEPT ![Victim] = Cached(0, fat_index, @.data)]
  /\ ReadSectors(1, FatSector(fat_index))
  /\ pc' = "read fat"
  /\ UNCHANGED <<fileKept, call, goal, path, m_cluster_buffer, fileVars>>

FatRead ==
  /\ pc = "read fat" /\ at = "none"
  /\ m_fat' = [m_fat EXCEPT ![victim] = Cached(@.popularity, @.index, block[1])]
  /\ cluster' = NextIn(block[1])
  /\ pc' = "read_file"
  /\ UNCHANGED <<fileKept, ataVars, call, goal, path, m_cluster_buffer, size, out, victim>>

-----------------------------------------------------------------------------
(* What the disk says, without a word of how it is read: the entries of a  *)
(* directory up to its end, their names, of which a short one is followed  *)
(* by anything, and where a path leads.                                    *)
IsEntry(e) == e.kind \in {"file", "directory"}
Live(es) == {i \in DOMAIN es : \A j \in 1 .. i : es[j].kind # "end"}
Present(es) == {i \in Live(es) : IsEntry(es[i])}
Pieces(es, i) ==
  {m \in 0 .. i - 1 : \A o \in 1 .. m : es[i - o].kind = "lfn" /\ es[i - o].order = o}
NameOf(es, i) ==
  LET m == Max(Pieces(es, i))
  IN  IF m = 0 THEN <<es[i].name, Unset>> ELSE [o \in 1 .. m |-> es[i - o].piece]
Named(es, name) == {i \in Present(es) : Pieces(es, i) # {0} /\ NameOf(es, i) = name}

Root(d) == [kind |-> "directory", cluster |-> d.bpb.root_cluster, size |-> 0, name |-> Unset]
Reached(d, p) ==
  LET at_[k \in Nat] ==
        IF k = 0 THEN Root(d)
        ELSE IF at_[k - 1] = NoEntry \/ at_[k - 1].kind # "directory" THEN NoEntry
        ELSE LET es == d.entries[at_[k - 1].cluster]
                 is == Named(es, p[k])
             IN  IF is = {} THEN NoEntry ELSE es[CHOOSE i \in is : TRUE]
  IN  at_
Resolved(p) == Reached(disk, p)[Len(p)]

(* A name is full but for its last piece.  The pieces of one come last     *)
(* first, in front of its entry, and no two entries of a directory have    *)
(* the same name.                                                          *)
IsName(name) ==
  /\ Len(name) \in Orders /\ name = [o \in 1 .. Len(name) |-> name[o]]
  /\ \A o \in 1 .. Len(name) : name[o] # Unset /\ (o < Len(name) => name[o] \in Full)
InOrder(es, i) ==
  /\ i < Len(es) => IF es[i].order = 1 THEN IsEntry(es[i + 1])
                    ELSE es[i + 1].kind = "lfn" /\ es[i + 1].order = es[i].order - 1
  /\ es[i].piece # Unset
  /\ i > 1 /\ es[i - 1].kind = "lfn" => es[i].piece \in Full
Proper(es) ==
  /\ \A i \in Live(es) : es[i].kind = "lfn" => InOrder(es, i)
  /\ \A i, j \in Present(es) : NameOf(es, i) = NameOf(es, j) => i = j

ASSUME NamesAssumption ==
  /\ \A p \in Paths : /\ Len(p) \in Nat \ {0} /\ p = [k \in 1 .. Len(p) |-> p[k]]
                      /\ \A k \in DOMAIN p : IsName(p[k])
  /\ \A d \in Disks :
       /\ d.bpb.root_cluster \in DOMAIN d.entries /\ DOMAIN d.entries \subseteq DOMAIN d.fat
       /\ \A c \in DOMAIN d.entries :
            /\ Proper(d.entries[c])
            /\ \A i \in Present(d.entries[c]) :
                 d.entries[c][i].kind = "directory" => d.entries[c][i].cluster \in DOMAIN d.entries

(* A short name may pass for any name that starts with its characters: what*)
(* a path leads to is sure to be found unless such an entry stands in      *)
(* front, or a name has no NUL.                                            *)
Mistakable(es, name) ==
  {i \in Present(es) : Pieces(es, i) = {0} /\ <<es[i].name, name[1]>> \in Starts}

(* A name of 13, 26, ... characters has no NUL in its entries.             *)
NamesEnd == \A c \in DOMAIN disk.entries : \A i \in DOMAIN disk.entries[c] :
  LET es == disk.entries[c] IN
  es[i].kind = "lfn" /\ (i > 1 => es[i - 1].kind # "lfn") => es[i].piece \notin Full

Leads ==
  /\ NamesEnd /\ Resolved(goal) # NoEntry
  /\ \A k \in 0 .. Len(goal) - 1 :
       LET es == disk.entries[Reached(disk, goal)[k].cluster]
       IN  \A i \in Mistakable(es, goal[k + 1]), j \in Named(es, goal[k + 1]) : i > j

Deeper(listing) == [k \in DOMAIN listing |-> [listing[k] EXCEPT ![1] = @ + 1]]
Tree ==
  LET tree[c \in DOMAIN disk.entries] ==
        LET es      == disk.entries[c]
            line(i) == <<0, NameOf(es, i), es[i].cluster>>
        IN  FlattenSeq([i \in DOMAIN es |->
              IF i \notin Present(es) THEN <<>>
              ELSE IF es[i].kind = "directory" THEN <<line(i)>> \o Deeper(tree[es[i].cluster])
              ELSE <<line(i)>>])
  IN  tree[disk.bpb.root_cluster]

(* The clusters of a file that begins at c, up to the end of the chain; the *)
(* one that holds its j-th sector; and that sectors are its first ones, or *)
(* all of them: as many as its size n, or as its chain has.                *)
Chain(d, c) ==
  LET chain[k \in Nat] ==
        IF k = 0 THEN c
        ELSE LET before == chain[k - 1] IN IF before >= EOC THEN EOC ELSE d.fat[before]
  IN  chain
ClusterAt(d, c, j) == Chain(d, c)[(j - 1) \div d.bpb.sectors_per_cluster]
Begins(d, sectors, c) == \A j \in 1 .. Len(sectors) :
  /\ ClusterAt(d, c, j) < EOC
  /\ sectors[j] = SectorOf(d.bpb, ClusterAt(d, c, j)) + ((j - 1) % d.bpb.sectors_per_cluster)
Contents(d, sectors, c, n) ==
  /\ Begins(d, sectors, c)
  /\ Len(sectors) <= n
  /\ Len(sectors) < n => ClusterAt(d, c, Len(sectors) + 1) >= EOC

-----------------------------------------------------------------------------
Drive == AtaNext /\ UNCHANGED <<disk, bpb, m_fat, m_cluster_buffer, pc, call, goal,
                                dirVars, fileVars, victim>>

Scanning ==
  \/ LfnEntry \/ DeletedLfn \/ Skipped \/ EndOfDirectory
  \/ (\E found \in BOOLEAN : Traversed(found)) \/ Listed
  \/ NextName \/ Searched \/ ListingGoesOn

Reading ==
  \/ ReadCluster \/ ChainEnds \/ CopyCluster
  \/ (\E b \in Blocks : CacheHit(b)) \/ CacheMiss \/ FatRead

Running == New \/ Mount \/ DirectoryRead \/ Scanning \/ Reading

(* The directories of a path that is looked for exist; its last name may   *)
(* be missing.                                                             *)
Next ==
  \/ \E f \in {"get_file_size", "get_file"}, p \in Paths :
       pc = "idle" /\ Resolved(Front(p)) # NoEntry /\ Search(f, p)
  \/ Dirent
  \/ Running
  \/ Drive

(* The processor goes on, and so does the drive.                           *)
Spec == Init /\ [][Next]_vars /\ WF_vars(Running \/ Drive)

-----------------------------------------------------------------------------
(* The cache: a block that is not being read holds the sector its index    *)
(* names, and no sector is held twice.                                     *)
FatSectorRead(i) == (FatStart(disk.bpb) + i - 1) % LbaLimit
CacheSound ==
  /\ \A b \in Blocks :
       m_fat[b].index # 0 /\ ~(pc = "read fat" /\ b = victim) =>
         m_fat[b].data = FatSectorRead(m_fat[b].index)
  /\ \A b, c \in Blocks : m_fat[b].index = m_fat[c].index /\ m_fat[b].index # 0 => b = c

(* Whatever was cached and evicted before, get_next_cluster returns what   *)
(* the FAT of the disk has for the cluster.                                *)
NextClusterFound ==
  pc \in {"get_next_cluster", "read fat"} /\ pc' = "read_file" /\ cluster \in DOMAIN disk.fat
ChainFollowed == [][NextClusterFound => cluster' = disk.fat[cluster] ]_vars

(* A search for a path that exists finds its entry: not one that was       *)
(* deleted, one behind the end, one of which the name is a piece, or what  *)
(* an earlier search has found.  What exists is what the first cluster of  *)
(* a directory has, which is all that the code reads of it, under a long   *)
(* name.  A short name in front of it that the name starts with may be     *)
(* taken for it, and a search for what is missing returns what was found   *)
(* before: Leads excepts both.                                             *)
SearchFinds == [][Searched /\ Leads => found_entry = Resolved(goal)]_vars

(* get_file fills the buffer with the sectors of the file that was found,  *)
(* in their order, no more than its size and no less unless the chain is   *)
(* shorter, and comes to an end even in a chain that has none.             *)
FileRight ==
  [][call = "get_file" /\ pc' = "idle" =>
       Contents(disk, out', found_entry.cluster, found_entry.size)]_vars

(* dirent prints the name of every entry of the tree once, a directory's   *)
(* behind it and one deeper, although all of them are read into one buffer:*)
(* a long name whole, and a short one's characters with whatever lies on   *)
(* the stack behind them.                                                  *)
TreeListed == [][NamesEnd /\ call = "dirent" /\ pc' = "idle" => listed = Tree]_vars

(* A call returns, unless the drive fails.                                 *)
CallsReturn == pc # "idle" ~> pc = "idle" \/ status = "err"

-----------------------------------------------------------------------------
(* What keeps the cache sound: the parameter block is the disk's, and the  *)
(* driver stores the sector that was asked for, or has stored it.          *)
Wanted == IF pc = "mount" THEN PartStart ELSE FatSectorRead(fat_index)
ReadInv == pc \in {"mount", "read fat"} => Stores(1, Wanted)

CacheInv ==
  /\ disk \in Disks
  /\ pc \notin {"new", "mount"} => bpb = disk.bpb
  /\ pc = "read fat" /\ victim \in Blocks => m_fat[victim].index = fat_index
  /\ DOMAIN m_fat = Blocks
  /\ ReadInv
  /\ CacheSound

(* What is enumerated, and what is found, is on the disk.                  *)
OnDisk == {disk.entries[c] : c \in DOMAIN disk.entries}
NamePieces == {Unset} \cup
  UNION {{es[i].piece : i \in {j \in DOMAIN es : es[j].kind = "lfn"}} : es \in OnDisk}
Enumerations == [entries : OnDisk \cup {<<>>}, i : Nat \ {0}, has_lfn : BOOLEAN,
                 name_buf : [Orders -> NamePieces]]
EntriesInv ==
  /\ dirs \in Seq(Enumerations) /\ (pc = "scan" => dirs # <<>>)
  /\ found_entry.cluster \in DOMAIN disk.fat /\ found_entry.size \in Nat

(* What read_file has copied when it is at its k-th cluster, or, while the *)
(* next one is looked for, at the one before.                              *)
Copied ==
  LET c == found_entry.cluster IN
  /\ Begins(disk, out, c)
  /\ size \in Nat /\ Len(out) + size = found_entry.size
  /\ \E k \in 0 .. Len(out) :
       /\ Len(out) = k * disk.bpb.sectors_per_cluster
       /\ \/ /\ pc \in {"read_file", "read cluster"}
             /\ cluster = Chain(disk, c)[k]
          \/ /\ pc \in {"get_next_cluster", "read fat"} /\ size > 0
             /\ k > 0 /\ cluster = Chain(disk, c)[k - 1] /\ cluster < EOC
  /\ pc = "read cluster" =>
       /\ cluster < EOC
       /\ Stores(disk.bpb.sectors_per_cluster, SectorOf(disk.bpb, cluster))

(* Where a call is, and what the buffer of get_file holds.                 *)
CallInv ==
  /\ out \in Seq(Int)
  /\ \/ /\ pc \in {"new", "mount", "idle"} /\ call = "none"
     \/ /\ pc \in {"read directory", "scan", "enumerated"} /\ out = <<>>
        /\ call \in {"get_file_size", "get_file", "dirent"}
     \/ /\ pc \in {"read_file", "read cluster", "get_next_cluster", "read fat"}
        /\ call = "get_file" /\ Copied

(* What the loop over a directory's entries has seen: no entry of the name *)
(* it looks for, and, if it stands behind long entries, their pieces.      *)
Looked(d, es, name) ==
  LET seen == 1 .. d.i - 1 IN
  /\ d.entries = es
  /\ \A j \in seen : j \in Live(es) /\ j \notin Named(es, name)
  /\ d.has_lfn <=> d.i > 1 /\ es[d.i - 1].kind = "lfn"
  /\ \A j \in seen : (\A l \in j .. d.i - 1 : es[l].kind = "lfn") =>
       es[j].order = es[d.i - 1].order + (d.i - 1 - j) /\ d.name_buf[es[j].order] = es[j].piece

(* Where a search is: in the directory that the names in front of path     *)
(* lead to.                                                                *)
Found(k) ==
  LET here == Reached(disk, goal)[k] IN
  /\ pc = "read directory" =>
       Stores(disk.bpb.sectors_per_cluster, SectorOf(disk.bpb, here.cluster))
  /\ pc = "scan" => Looked(Inner, disk.entries[here.cluster], goal[k + 1])
  /\ pc = "enumerated" => found_entry = Reached(disk, goal)[k + 1]
SearchInv == call # "dirent" =>
  /\ Len(dirs) = IF pc = "scan" THEN 1 ELSE 0
  /\ pc \in {"read directory", "scan", "enumerated"} =>
       /\ goal \in Paths
       /\ \E k \in 0 .. Len(goal) - 1 :
            /\ path = [j \in 1 .. Len(goal) - k |-> goal[k + j]]
            /\ Leads => Found(k)

IInv == CacheInv /\ EntriesInv /\ CallInv /\ SearchInv
=============================================================================
