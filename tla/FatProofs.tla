----------------------------- MODULE FatProofs ------------------------------
(* The cache of FAT sectors is sound, get_next_cluster follows the FAT of  *)
(* the disk, a search finds the entry its path leads to, and get_file reads*)
(* the file that it has found: for every disk, every set of paths and every*)
(* size of the cache.                                                      *)
EXTENDS Fat, SequenceTheorems, WellFoundedInduction, TLAPS

-----------------------------------------------------------------------------
(* Induction.  A set of numbers has a least member; a function defined by  *)
(* iteration exists, which is what a recursive definition needs to mean    *)
(* what it says.                                                           *)
LEMMA Least ==
  ASSUME NEW T, T \subseteq Nat, T # {}
  PROVE  \E x \in T : \A y \in T : x <= y
<1>1. IsWellFoundedOn(OpToRel(<, Nat), Nat)
  BY NatLessThanWellFounded
<1>2. PICK x \in T : \A y \in T : ~ (<<y, x>> \in OpToRel(<, Nat))
  <2> HIDE DEF OpToRel, IsWellFoundedOn
  <2> QED BY <1>1, WFMin, Zenon
<1>3. \A y \in T : ~ (y < x)
  BY <1>2 DEF OpToRel
<1> QED BY <1>3

Iterates(f, x0, g) == f[0] = x0 /\ \A k \in Nat : f[k + 1] = g[k][f[k]]
LEMMA Recursion ==
  ASSUME NEW S, NEW x0 \in S, NEW g \in [Nat -> [S -> S]]
  PROVE  \E f \in [Nat -> S] : Iterates(f, x0, g)
<1> DEFINE Iterated(h, n) == h[0] = x0 /\ \A k \in 0 .. n - 1 : h[k + 1] = g[k][h[k]]
           Good(n) == {h \in [0 .. n -> S] : Iterated(h, n)}
<1>1. \A n \in Nat : Good(n) # {}
  <2> DEFINE T == {n \in Nat : Good(n) = {}}
  <2> SUFFICES ASSUME T # {} PROVE FALSE
    OBVIOUS
  <2>1. PICK n \in T : \A y \in T : n <= y
    <3> HIDE DEF T
    <3> QED BY Least DEF T
  <2>2. n # 0
    <3>1. [i \in 0 .. 0 |-> x0] \in Good(0)
      OBVIOUS
    <3> QED BY <3>1, <2>1
  <2>3. n - 1 \in Nat /\ n - 1 \notin T
    BY <2>1, <2>2
  <2>4. PICK h : h \in Good(n - 1)
    BY <2>3
  <2> DEFINE j == [i \in 0 .. n |-> IF i < n THEN h[i] ELSE g[n - 1][h[n - 1]]]
  <2>5. h \in [0 .. n - 1 -> S] /\ Iterated(h, n - 1)
    BY <2>4
  <2>6. h[n - 1] \in S /\ g[n - 1][h[n - 1]] \in S
    BY <2>3, <2>5
  <2>7. j \in [0 .. n -> S]
    BY <2>5, <2>6, <2>3
  <2>8. Iterated(j, n)
    <3>1. j[0] = x0
      BY <2>5, <2>2, <2>3
    <3>2. ASSUME NEW k \in 0 .. n - 1 PROVE j[k + 1] = g[k][j[k]]
      BY <2>5, <2>2, <2>3
    <3> QED BY <3>1, <3>2
  <2> QED BY <2>7, <2>8, <2>1
<1>2. ASSUME NEW m \in Nat, NEW n \in Nat, m <= n, NEW h \in Good(m), NEW j \in Good(n)
      PROVE  \A k \in 0 .. m : h[k] = j[k]
  <2> DEFINE T == {k \in 0 .. m : h[k] # j[k]}
  <2> SUFFICES ASSUME T # {} PROVE FALSE
    OBVIOUS
  <2>1. PICK k \in T : \A y \in T : k <= y
    <3>1. T \subseteq Nat
      OBVIOUS
    <3> HIDE DEF T
    <3> QED BY <3>1, Least
  <2>2. Iterated(h, m) /\ Iterated(j, n)
    OBVIOUS
  <2>3. k # 0
    BY <2>1, <2>2
  <2>4. k - 1 \in 0 .. m - 1 /\ k - 1 \in 0 .. n - 1 /\ h[k - 1] = j[k - 1]
    BY <2>1, <2>3, <1>2
  <2>5. h[k] = g[k - 1][h[k - 1]] /\ j[k] = g[k - 1][j[k - 1]]
    BY <2>2, <2>4, <2>1
  <2> QED BY <2>1, <2>4, <2>5
<1> DEFINE c(n) == CHOOSE h : h \in Good(n)
           f == [n \in Nat |-> c(n)[n]]
<1>3. \A n \in Nat : c(n) \in Good(n)
  BY <1>1, Zenon
<1>4. f \in [Nat -> S]
  <2> HIDE DEF c
  <2> QED BY <1>3
<1>5. f[0] = x0
  <2> HIDE DEF c
  <2> QED BY <1>3
<1>6. ASSUME NEW k \in Nat PROVE f[k + 1] = g[k][f[k]]
  <2>1. c(k) \in Good(k) /\ c(k + 1) \in Good(k + 1)
    <3> HIDE DEF c, Good
    <3> QED BY <1>3
  <2> HIDE DEF c
  <2>2. c(k)[k] = c(k + 1)[k]
    <3> HIDE DEF Good
    <3> QED BY <2>1, <1>2
  <2>3. c(k + 1)[k + 1] = g[k][c(k + 1)[k]]
    BY <2>1
  <2> QED BY <2>2, <2>3
<1> HIDE DEF f
<1> QED BY <1>4, <1>5, <1>6 DEF Iterates

-----------------------------------------------------------------------------
LEMMA ModSmall == ASSUME NEW m \in Nat \ {0}, NEW n \in Nat, n < m PROVE n % m = n
OBVIOUS

(* What the parameter block of a disk is good for.                         *)
LEMMA DiskFacts ==
  ASSUME NEW d \in Disks
  PROVE  /\ PartStart \in Nat /\ LbaLimit \in Nat \ {0} /\ ENTRIES \in Nat \ {0}
         /\ d.bpb.reserved \in Nat /\ d.bpb.sectors_per_fat \in Nat \ {0}
         /\ FatStart(d.bpb) = PartStart + d.bpb.reserved
         /\ FatStart(d.bpb) + d.bpb.sectors_per_fat <= LbaLimit
         /\ PartStart % LbaLimit = PartStart
         /\ DOMAIN d.fat = 0 .. ENTRIES * d.bpb.sectors_per_fat - 1
<1>1. /\ d.bpb \in [Geometry -> Nat] /\ d.bpb.sectors_per_fat > 0
      /\ PartStart + d.bpb.reserved + d.bpb.sectors_per_fat <= LbaLimit
      /\ DOMAIN d.fat = 0 .. ENTRIES * d.bpb.sectors_per_fat - 1
  BY DisksAssumption
<1>2. d.bpb.reserved \in Nat /\ d.bpb.sectors_per_fat \in Nat \ {0}
  <2>1. "reserved" \in Geometry /\ "sectors_per_fat" \in Geometry
    BY DEF Geometry
  <2> QED
    BY <1>1, <2>1
<1>3. PartStart \in Nat /\ LbaLimit \in Nat \ {0} /\ ENTRIES \in Nat \ {0}
  BY CacheAssumption, LbaAssumption
<1>4. PartStart % LbaLimit = PartStart
  <2>1. PartStart < LbaLimit
    BY <1>1, <1>2, <1>3
  <2> QED
    BY <1>3, <2>1, ModSmall
<1> QED
  BY <1>1, <1>2, <1>3, <1>4 DEF FatStart

-----------------------------------------------------------------------------
(* The driver stores the sectors that the drive was asked for, one by one. *)
LEMMA SectorsMore ==
  ASSUME NEW m \in Nat, NEW a \in Int
  PROVE  /\ Append(Sectors(m, a), a + m) = Sectors(m + 1, a)
         /\ Sectors(m, a) = <<>> <=> m = 0
<1>1. Sectors(m, a) \in Seq(Int) /\ Len(Sectors(m, a)) = m
  BY DEF Sectors
<1> QED
  BY <1>1 DEF Sectors

LEMMA ReadStores ==
  ASSUME NEW n \in Nat \ {0}, NEW b \in Int, ReadSectors(n, b)
  PROVE  Stores(n, b % LbaLimit)'
<1> DEFINE a == b % LbaLimit
<1>1. a \in Int
  BY LbaAssumption
<1>2. /\ at' = "bsy" /\ left' = n /\ lba' = a /\ block' = <<>>
  BY DEF ReadSectors
<1> HIDE DEF a
<1>3. Sectors(n - n, a) = <<>>
  BY DEF Sectors
<1>4. Stores(n, a)'
  BY <1>1, <1>2, <1>3 DEF Stores
<1> QED
  BY <1>4 DEF a

LEMMA DriveStores ==
  ASSUME NEW n \in Nat, NEW a \in Int, Stores(n, a), AtaNext
  PROVE  Stores(n, a)'
<1>1. CASE Transfer
  <2>1. at = "drq" /\ left \in 1 .. n /\ status # "stale"
    BY <1>1 DEF Transfer, Stores
  <2>2. block' = Append(Sectors(n - left, a), a + (n - left)) /\ left' = left - 1
    BY <1>1, <2>1 DEF Transfer, Stores
  <2>3. block' = Sectors(n - left', a)
    <3> DEFINE m == n - left
    <3>1. m \in Nat /\ m + 1 = n - left'
      BY <2>1, <2>2
    <3>2. block' = Append(Sectors(m, a), a + m)
      BY <2>2
    <3> HIDE DEF m
    <3> QED
      BY <3>1, <3>2, SectorsMore
  <2> QED
    BY <1>1, <2>1, <2>2, <2>3 DEF Transfer, Stores, MoreToRead
<1>2. CASE SeesReady
  BY <1>2 DEF SeesReady, Stores, drive, Waited
<1>3. CASE DriveBusy \/ DriveData \/ DriveFails
  BY <1>3 DEF DriveBusy, DriveData, DriveFails, Stores
<1> QED
  BY <1>1, <1>2, <1>3 DEF AtaNext

(* A read that is over.                                                    *)
LEMMA ReadOver ==
  ASSUME NEW n \in Nat, NEW a, Stores(n, a), at = "none"
  PROVE  block = Sectors(n, a)
BY DEF Stores

-----------------------------------------------------------------------------
(* The clusters of a file: the chain does what its definition says, and    *)
(* stays on the disk until it ends.                                        *)
Clusters(d) == DOMAIN d.fat \cup {x \in Nat : x >= EOC}
LEMMA ChainSteps ==
  ASSUME NEW d \in Disks, NEW c \in DOMAIN d.fat
  PROVE  /\ Chain(d, c)[0] = c
         /\ \A k \in Nat : /\ Chain(d, c)[k] \in Clusters(d)
                           /\ Chain(d, c)[k + 1] = IF Chain(d, c)[k] >= EOC THEN EOC
                                               ELSE d.fat[Chain(d, c)[k]]
<1> DEFINE nx == [x \in Clusters(d) |-> IF x >= EOC THEN EOC ELSE d.fat[x]]
           g == [k \in Nat |-> nx]
           Body(t) == [k \in Nat |->
             IF k = 0 THEN c
             ELSE LET before == t[k - 1] IN IF before >= EOC THEN EOC ELSE d.fat[before]]
<1>1. c \in Clusters(d)
  BY DEF Clusters
<1>2. nx \in [Clusters(d) -> Clusters(d)]
  <2>1. EOC \in Nat /\ EOC \in Clusters(d)
    BY CacheAssumption DEF Clusters
  <2>2. ASSUME NEW x \in Clusters(d), ~(x >= EOC) PROVE d.fat[x] \in Clusters(d)
    <3>1. x \in DOMAIN d.fat
      BY <2>2 DEF Clusters
    <3>2. d.fat[x] \in Nat /\ (d.fat[x] < EOC => d.fat[x] \in DOMAIN d.fat)
      BY <3>1, DisksAssumption
    <3> QED BY <2>1, <3>2 DEF Clusters
  <2> QED BY <2>1, <2>2
<1>3. PICK s \in [Nat -> Clusters(d)] : Iterates(s, c, g)
  <2>1. g \in [Nat -> [Clusters(d) -> Clusters(d)]]
    BY <1>2
  <2> HIDE DEF g
  <2> QED BY <2>1, <1>1, Recursion
<1>4. s[0] = c /\ \A k \in Nat : s[k + 1] = nx[s[k]] /\ s[k] \in Clusters(d)
  BY <1>3 DEF Iterates
<1>5. s = Body(s)
  <2>1. ASSUME NEW k \in Nat PROVE s[k] = Body(s)[k]
    <3>1. CASE k = 0
      BY <3>1, <1>4
    <3>2. CASE k # 0
      <4>1. k - 1 \in Nat /\ k = (k - 1) + 1
        BY <3>2
      <4>2. s[k] = nx[s[k - 1]] /\ s[k - 1] \in Clusters(d)
        BY <4>1, <1>4
      <4> QED BY <4>2, <3>2
    <3> QED BY <3>1, <3>2
  <2> QED BY <2>1
<1> DEFINE t == Chain(d, c)
<1>6. t = Body(t)
  <2>1. t = CHOOSE u : u = Body(u)
    BY DEF Chain
  <2> HIDE DEF Body, t
  <2> QED BY <1>5, <2>1
<1> HIDE DEF t
<1>7. t[0] = c
  BY <1>6
<1>8. ASSUME NEW k \in Nat
      PROVE  t[k + 1] = IF t[k] >= EOC THEN EOC ELSE d.fat[t[k]]
  <2>1. k + 1 \in Nat /\ k + 1 # 0 /\ (k + 1) - 1 = k
    OBVIOUS
  <2> QED BY <1>6, <2>1
<1>9. \A k \in Nat : t[k] \in Clusters(d)
  <2> DEFINE T == {k \in Nat : t[k] \notin Clusters(d)}
  <2> SUFFICES ASSUME T # {} PROVE FALSE
    OBVIOUS
  <2>1. PICK k \in T : \A y \in T : k <= y
    <3>1. T \subseteq Nat
      OBVIOUS
    <3> HIDE DEF T
    <3> QED BY <3>1, Least
  <2>2. k # 0
    BY <2>1, <1>1, <1>7
  <2>3. k - 1 \in Nat /\ t[k - 1] \in Clusters(d) /\ k = (k - 1) + 1
    BY <2>1, <2>2
  <2>4. t[k] = nx[t[k - 1]]
    BY <2>3, <1>8
  <2> QED BY <2>1, <2>3, <2>4, <1>2
<1> QED BY <1>7, <1>8, <1>9 DEF t

LEMMA DiskIsOne == ASSUME IInv PROVE disk \in Disks /\ out \in Seq(Int)
BY Zenon DEF IInv, CacheInv, CallInv

(* The cluster that read_file is at, or get_next_cluster is asked for.     *)
ReadPcs == {"read_file", "read cluster", "get_next_cluster", "read fat"}
LEMMA ClusterFacts ==
  ASSUME IInv, pc \in ReadPcs
  PROVE  cluster \in Clusters(disk) /\ (cluster < EOC => cluster \in DOMAIN disk.fat)
<1>1. Copied /\ disk \in Disks /\ found_entry.cluster \in DOMAIN disk.fat
  BY DEF IInv, CallInv, CacheInv, EntriesInv, ReadPcs
<1>2. \E k \in Nat : cluster = Chain(disk, found_entry.cluster)[k]
  <2>1. PICK k \in 0 .. Len(out) :
          \/ pc \in {"read_file", "read cluster"} /\ cluster = Chain(disk, found_entry.cluster)[k]
          \/ k > 0 /\ cluster = Chain(disk, found_entry.cluster)[k - 1]
    BY <1>1 DEF Copied
  <2>2. Len(out) \in Nat
    BY DiskIsOne
  <2>3. k \in Nat /\ (k > 0 => k - 1 \in Nat)
    BY <2>2
  <2> QED BY <2>1, <2>3
<1>3. cluster \in Clusters(disk)
  BY <1>1, <1>2, ChainSteps
<1> QED BY <1>3, CacheAssumption DEF Clusters

LEMMA ClusterIsNat ==
  ASSUME IInv, pc \in ReadPcs PROVE cluster \in Nat
<1>1. cluster \in Clusters(disk)
  BY ClusterFacts
<1>2. DOMAIN disk.fat \subseteq Nat
  <2>1. /\ DOMAIN disk.fat = 0 .. ENTRIES * disk.bpb.sectors_per_fat - 1
        /\ ENTRIES \in Nat /\ disk.bpb.sectors_per_fat \in Nat
    BY DiskIsOne, DiskFacts
  <2> QED BY <2>1
<1> QED BY <1>1, <1>2 DEF Clusters

WantPcs == {"mount", "get_next_cluster", "read fat"}
LEMMA WantedFacts ==
  ASSUME IInv, pc \in WantPcs
  PROVE  Wanted \in Nat /\ Wanted < LbaLimit
<1>1. disk \in Disks
  BY DiskIsOne
<1>2. /\ LbaLimit \in Nat \ {0} /\ PartStart \in Nat /\ PartStart % LbaLimit = PartStart
      /\ FatStart(disk.bpb) \in Nat
  <2>1. disk.bpb.reserved \in Nat /\ FatStart(disk.bpb) = PartStart + disk.bpb.reserved
    BY <1>1, DiskFacts
  <2>2. PartStart \in Nat /\ LbaLimit \in Nat \ {0} /\ PartStart % LbaLimit = PartStart
    BY <1>1, DiskFacts
  <2> QED BY <2>1, <2>2
<1>3. CASE pc = "mount"
  <2>1. (PartStart % LbaLimit) < LbaLimit
    BY <1>2
  <2> QED BY <1>2, <1>3, <2>1 DEF Wanted
<1>4. CASE pc # "mount"
  <2>1. cluster \in Nat
    BY <1>4, ClusterIsNat DEF ReadPcs, WantPcs
  <2>2. fat_index \in Nat
    BY <2>1, CacheAssumption DEF fat_index
  <2> QED BY <1>2, <1>4, <2>2 DEF Wanted, FatSectorRead
<1> QED BY <1>3, <1>4

-----------------------------------------------------------------------------
LEMMA InitCacheInv == Init => CacheInv
<1> SUFFICES ASSUME Init PROVE CacheInv
  OBVIOUS
<1>1. DOMAIN m_fat = Blocks /\ \A b \in Blocks : m_fat[b] = Cached(0, 0, 0)
  BY DEF Init
<1>2. CacheSound
  <2>1. \A b \in Blocks : m_fat[b].index = 0
    BY <1>1 DEF Cached
  <2> QED
    BY <2>1 DEF CacheSound
<1> QED
  BY <1>1, <1>2 DEF Init, CacheInv, ReadInv

(* A step that leaves the cache, the disk and its parameters alone, and    *)
(* neither begins nor ends a read of the FAT.                              *)
LEMMA ElsewhereCacheInv ==
  ASSUME CacheInv, UNCHANGED <<disk, bpb, m_fat>>,
         pc \notin {"new", "mount", "read fat"}, pc' \notin {"new", "mount", "read fat"}
  PROVE  CacheInv'
<1>1. DOMAIN m_fat' = Blocks /\ CacheSound'
  BY DEF CacheInv, CacheSound, FatSectorRead, FatStart
<1> QED
  BY <1>1 DEF CacheInv, ReadInv

LEMMA NewCacheInv == ASSUME IInv, New PROVE CacheInv'
<1>1. DOMAIN m_fat' = Blocks /\ CacheSound'
  BY DEF IInv, CacheInv, CacheSound, FatSectorRead, FatStart, New
<1>2. PartStart % LbaLimit = PartStart
  BY DiskFacts DEF IInv, CacheInv
<1>3. ReadInv'
  <2>1. Stores(1, PartStart % LbaLimit)'
    BY CacheAssumption, ReadStores DEF New
  <2>2. Stores(1, PartStart)'
    BY <1>2, <2>1
  <2> QED
    BY <2>2 DEF ReadInv, New, Wanted
<1> QED
  BY <1>1, <1>3 DEF IInv, CacheInv, New

(* The sector that the constructor reads is the parameter block.           *)
LEMMA MountCacheInv == ASSUME IInv, Mount PROVE CacheInv'
<1>1. bpb' = disk.bpb
  <2>1. block = <<PartStart>>
    <3>1. Stores(1, PartStart) /\ at = "none"
      BY DEF IInv, CacheInv, ReadInv, Mount, Wanted
    <3>2. Sectors(1, PartStart) = <<PartStart>>
      BY CacheAssumption DEF Sectors
    <3> QED
      BY <3>1, <3>2, ReadOver
  <2> QED
    BY <2>1 DEF Mount, BpbIn
<1>2. DOMAIN m_fat' = Blocks
      /\ \A b \in Blocks : m_fat'[b] = Cached(0, 0, 0)
  BY DEF Mount
<1>3. DOMAIN m_fat' = Blocks /\ CacheSound'
  <2>1. \A b \in Blocks : m_fat'[b].index = 0
    BY <1>2 DEF Cached
  <2> QED
    BY <1>2, <2>1 DEF CacheSound
<1> QED
  BY <1>1, <1>2, <1>3 DEF IInv, CacheInv, ReadInv, Mount

(* A hit changes a popularity and nothing else.                            *)
LEMMA HitCacheInv == ASSUME CacheInv, NEW b \in Blocks, CacheHit(b) PROVE CacheInv'
<1>1. /\ DOMAIN m_fat' = Blocks
      /\ \A c \in Blocks : /\ m_fat'[c].index = m_fat[c].index
                           /\ m_fat'[c].data = m_fat[c].data
  BY DEF CacheHit, Cached, IInv, CacheInv
<1>2. DOMAIN m_fat' = Blocks /\ CacheSound'
  BY <1>1 DEF CacheHit, fileKept, IInv, CacheInv, CacheSound, FatSectorRead, FatStart
<1> QED
  BY <1>2 DEF IInv, CacheInv, ReadInv, CacheHit, fileKept

(* A miss gives the victim an index that no other block has, and asks for  *)
(* the sector of that index.                                               *)
LEMMA MissCacheInv == ASSUME IInv, CacheMiss PROVE CacheInv'
<1>1. /\ DOMAIN m_fat' = Blocks
      /\ \A c \in Blocks : /\ m_fat'[c].index = IF c = Victim THEN fat_index ELSE m_fat[c].index
                           /\ m_fat'[c].data = m_fat[c].data
  <2>1. DOMAIN m_fat' = Blocks /\ DOMAIN m_fat = Blocks
    BY DEF CacheMiss, IInv, CacheInv
  <2>2. ASSUME NEW c \in Blocks
        PROVE  m_fat'[c] = IF c = Victim THEN Cached(0, fat_index, m_fat[c].data) ELSE m_fat[c]
    BY <2>1 DEF CacheMiss
  <2>3. ASSUME NEW c \in Blocks
        PROVE  /\ m_fat'[c].index = IF c = Victim THEN fat_index ELSE m_fat[c].index
               /\ m_fat'[c].data = m_fat[c].data
    <3>1. CASE c = Victim
      <4>1. m_fat'[c] = Cached(0, fat_index, m_fat[c].data)
        BY <2>2, <3>1
      <4> QED
        BY <3>1, <4>1 DEF Cached
    <3>2. CASE c # Victim
      BY <2>2, <3>2
    <3> QED
      BY <3>1, <3>2
  <2> QED
    BY <2>1, <2>3
<1>3. CacheSound'
  BY <1>1 DEF CacheMiss, fileKept, IInv, CacheInv, CacheSound, FatSectorRead, FatStart
<1>4. bpb = disk.bpb /\ disk' = disk /\ bpb' = bpb /\ fat_index' = fat_index
  BY DEF CacheMiss, fileKept, fileVars, IInv, CacheInv, fat_index
<1>5. ReadInv'
  <2>1. PICK b \in Int : b = FatStart(disk.bpb) + fat_index - 1
    <3>1. cluster \in Nat
      <4>1. pc \in ReadPcs
        BY DEF CacheMiss, ReadPcs
      <4> QED BY <4>1, ClusterIsNat
    <3>2. fat_index \in Nat
      BY <3>1, CacheAssumption DEF fat_index
    <3>3. FatStart(disk.bpb) \in Nat
      BY DiskIsOne, DiskFacts
    <3> QED BY <3>2, <3>3
  <2>2. ReadSectors(1, b)
    BY <1>4, <2>1 DEF CacheMiss, FatSector
  <2>3. Stores(1, b % LbaLimit)'
    BY <2>2, ReadStores
  <2>4. FatSectorRead(fat_index)' = b % LbaLimit
    BY <1>4, <2>1 DEF FatSectorRead, FatStart
  <2> QED
    BY <2>3, <2>4 DEF CacheMiss, ReadInv, Wanted
<1> QED
  BY <1>1, <1>3, <1>4, <1>5 DEF CacheMiss, fileKept, IInv, CacheInv

(* What was read of the FAT is the sector of the cluster's index.          *)
LEMMA SectorWasRead == ASSUME IInv, FatRead PROVE block[1] = FatSectorRead(fat_index)
<1>1. block = <<Wanted>>
  <2>1. Stores(1, Wanted) /\ at = "none"
    BY DEF FatRead, IInv, CacheInv, ReadInv
  <2>2. Wanted \in Int
    <3>1. pc \in WantPcs
      BY DEF FatRead, WantPcs
    <3>2. Wanted \in Nat
      BY <3>1, WantedFacts
    <3> QED BY <3>2
  <2>3. Sectors(1, Wanted) = <<Wanted>>
    BY <2>2 DEF Sectors
  <2> QED
    BY <2>1, <2>3, ReadOver
<1>2. Wanted = FatSectorRead(fat_index)
  BY DEF FatRead, Wanted
<1> QED
  BY <1>1, <1>2

(* The block that was read holds the sector of its index.                  *)
LEMMA FatReadCacheInv == ASSUME IInv, FatRead PROVE CacheInv'
<1>1. /\ DOMAIN m_fat' = Blocks
      /\ \A c \in Blocks : /\ m_fat'[c].index = m_fat[c].index
                           /\ m_fat'[c].data = IF c = victim THEN block[1] ELSE m_fat[c].data
  <2>1. DOMAIN m_fat' = Blocks /\ DOMAIN m_fat = Blocks
    BY DEF FatRead, IInv, CacheInv
  <2>2. ASSUME NEW c \in Blocks
        PROVE  m_fat'[c] = IF c = victim
                           THEN Cached(m_fat[c].popularity, m_fat[c].index, block[1])
                           ELSE m_fat[c]
    BY <2>1 DEF FatRead
  <2> QED
    BY <2>1, <2>2 DEF Cached
<1>2. block[1] = FatSectorRead(fat_index)
  BY SectorWasRead
<1>3. CacheSound'
  <2>1. disk' = disk /\ pc = "read fat" /\ pc' = "read_file"
    BY DEF FatRead, fileKept
  <2>2. victim \in Blocks => m_fat[victim].index = fat_index
    BY <2>1 DEF IInv, CacheInv
  <2>3. \A b \in Blocks : m_fat'[b].index # 0 => m_fat'[b].data = FatSectorRead(m_fat'[b].index)
    BY <1>1, <1>2, <2>1, <2>2 DEF IInv, CacheInv, CacheSound
  <2> QED
    BY <1>1, <2>1, <2>3 DEF IInv, CacheInv, CacheSound, FatSectorRead, FatStart
<1> QED
  BY <1>1, <1>3 DEF IInv, CacheInv, ReadInv, FatRead, fileKept

(* The driver stores the sector the drive was asked for.                   *)
LEMMA DriveCacheInv == ASSUME IInv, Drive PROVE CacheInv'
<1>1. UNCHANGED <<disk, bpb, m_fat, pc, victim, cluster>>
  BY DEF Drive, fileVars
<1>2. DOMAIN m_fat' = Blocks /\ CacheSound' /\ fat_index' = fat_index /\ Wanted' = Wanted
  BY <1>1 DEF IInv, CacheInv, CacheSound, FatSectorRead, FatStart, fat_index, Wanted
<1>3. ReadInv'
  <2>1. ASSUME pc \in {"mount", "read fat"} PROVE Stores(1, Wanted)'
    <3> DEFINE a == Wanted
    <3>0. pc \in WantPcs
      BY <2>1 DEF WantPcs
    <3>1. a \in Int /\ Stores(1, a) /\ AtaNext
      <4>1. Stores(1, a) /\ AtaNext
        BY <2>1 DEF IInv, CacheInv, ReadInv, Drive
      <4>2. a \in Nat
        BY <3>0, WantedFacts
      <4> QED BY <4>1, <4>2
    <3>2. a' = a
      BY <1>2
    <3> HIDE DEF a
    <3>3. Stores(1, a)'
      BY <3>1, <3>2, DriveStores DEF Stores
    <3> QED
      BY <3>3 DEF a
  <2> QED
    BY <1>1, <2>1 DEF ReadInv
<1> QED
  BY <1>1, <1>2, <1>3 DEF IInv, CacheInv

(* The steps that have nothing to do with the cache.                       *)
LEMMA OtherSteps ==
  ASSUME Next, ~New, ~Mount, ~(\E b \in Blocks : CacheHit(b)), ~CacheMiss, ~FatRead, ~Drive
  PROVE  /\ UNCHANGED <<disk, bpb, m_fat>>
         /\ pc \notin {"new", "mount", "read fat", "get_next_cluster"}
         /\ pc' \notin {"new", "mount", "read fat"}
<1>1. CASE \E f \in {"get_file_size", "get_file"}, p \in Paths :
              pc = "idle" /\ Resolved(Front(p)) # NoEntry /\ Search(f, p)
  BY <1>1 DEF Search, Enumerate
<1>2. CASE Dirent
  BY <1>2 DEF Dirent, Enumerate
<1>3. CASE DirectoryRead
  BY <1>3 DEF DirectoryRead, constant
<1>4. CASE LfnEntry \/ DeletedLfn \/ Skipped \/ EndOfDirectory
  BY <1>4 DEF LfnEntry, DeletedLfn, Skipped, EndOfDirectory, Scan, scanned, constant
<1>5. CASE \E found \in BOOLEAN : Traversed(found)
  BY <1>5 DEF Traversed, Scan, scanned, constant
<1>6. CASE Listed
  BY <1>6 DEF Listed, Scan, Enumerate, constant
<1>7. CASE NextName \/ Searched \/ ListingGoesOn
  BY <1>7 DEF NextName, Searched, ListingGoesOn, Enumerate, Idle, constant
<1>8. CASE ReadCluster \/ ChainEnds \/ CopyCluster
  BY <1>8 DEF ReadCluster, ChainEnds, CopyCluster, Idle, fileKept
<1> QED
  BY <1>1, <1>2, <1>3, <1>4, <1>5, <1>6, <1>7, <1>8 DEF Next, Running, Scanning, Reading

LEMMA CacheInvStep ==
  ASSUME IInv, [Next]_vars PROVE CacheInv'
<1>1. CASE New
  BY <1>1, NewCacheInv
<1>2. CASE Mount
  BY <1>2, MountCacheInv
<1>3. CASE \E b \in Blocks : CacheHit(b)
  BY <1>3, HitCacheInv DEF IInv
<1>4. CASE CacheMiss
  BY <1>4, MissCacheInv
<1>5. CASE FatRead
  BY <1>5, FatReadCacheInv
<1>6. CASE Drive
  BY <1>6, DriveCacheInv
<1>7. CASE Next /\ ~New /\ ~Mount /\ ~(\E b \in Blocks : CacheHit(b)) /\ ~CacheMiss
           /\ ~FatRead /\ ~Drive
  BY <1>7, OtherSteps, ElsewhereCacheInv DEF IInv
<1>8. CASE UNCHANGED vars
  BY <1>8 DEF vars, ataVars, fileVars, dirVars, IInv, CacheInv, ReadInv, Stores, Wanted,
     CacheSound, FatSectorRead, FatStart, fat_index
<1> QED
  BY <1>1, <1>2, <1>3, <1>4, <1>5, <1>6, <1>7, <1>8

-----------------------------------------------------------------------------
(* The entry of a cluster in the sector of its index.                      *)
LEMMA EntryOfCluster ==
  ASSUME CacheInv, cluster \in DOMAIN disk.fat
  PROVE  NextIn(FatSectorRead(fat_index)) = disk.fat[cluster]
<1> DEFINE S == FatStart(disk.bpb)
           n == disk.bpb.sectors_per_fat
           q == cluster \div ENTRIES
<1>1. /\ S \in Nat /\ n \in Nat \ {0} /\ LbaLimit \in Nat \ {0} /\ ENTRIES \in Nat \ {0}
      /\ S + n <= LbaLimit /\ cluster \in 0 .. ENTRIES * n - 1
  <2>1. disk \in Disks
    BY DEF CacheInv
  <2>2. S \in Nat
    BY <2>1, DiskFacts
  <2> QED
    BY <2>1, <2>2, DiskFacts
<1>2. q \in Nat /\ q < n /\ q * ENTRIES + (cluster % ENTRIES) = cluster
  <2> HIDE DEF n, S
  <2>1. cluster \in Nat /\ cluster < ENTRIES * n
    BY <1>1
  <2>2. q \in Nat /\ cluster = ENTRIES * q + (cluster % ENTRIES)
        /\ cluster % ENTRIES \in Nat
    BY <1>1, <2>1
  <2>3. q < n
    <3>1. ASSUME q >= n PROVE FALSE
      <4>1. PICK k \in Nat : q = n + k
        <5>1. q - n \in Nat /\ q = n + (q - n)
          BY <1>1, <2>2, <3>1
        <5> QED
          BY <5>1
      <4>2. ENTRIES * q = ENTRIES * n + ENTRIES * k /\ ENTRIES * k \in Nat /\ ENTRIES * n \in Nat
        BY <1>1, <4>1
      <4> QED
        BY <2>1, <2>2, <4>2
    <3> QED
      BY <1>1, <2>2, <3>1
  <2>4. ENTRIES * q = q * ENTRIES
    BY <1>1, <2>2
  <2> QED
    BY <2>2, <2>3, <2>4
<1>3. FatSectorRead(fat_index) = S + q
  <2>1. S + q \in Nat /\ S + q < LbaLimit /\ S + (q + 1) - 1 = S + q
    BY <1>1, <1>2
  <2>2. (S + q) % LbaLimit = S + q
    BY <1>1, <2>1, ModSmall
  <2> QED
    BY <2>1, <2>2 DEF FatSectorRead, fat_index
<1>4. (S + q) - S = q
  BY <1>1, <1>2
<1> QED
  BY <1>2, <1>3, <1>4 DEF NextIn, FatIn

(* get_next_cluster returns what the FAT has for the cluster, from a block *)
(* that was cached before or from the sector that it reads.                *)
LEMMA NextIsFollowed ==
  ASSUME IInv, [Next]_vars, NextClusterFound
  PROVE  cluster' = disk.fat[cluster]
<1>1. NextIn(FatSectorRead(fat_index)) = disk.fat[cluster]
  BY EntryOfCluster DEF IInv, NextClusterFound
<1>2. CASE \E b \in Blocks : CacheHit(b)
  <2>1. PICK b \in Blocks : CacheHit(b)
    BY <1>2
  <2>2. m_fat[b].index # 0
    <3>1. cluster \in Nat /\ ENTRIES \in Nat \ {0}
      <4>1. disk \in Disks /\ cluster \in DOMAIN disk.fat
        BY DEF IInv, CacheInv, NextClusterFound
      <4>2. DOMAIN disk.fat = 0 .. ENTRIES * disk.bpb.sectors_per_fat - 1
        BY <4>1, DiskFacts
      <4>3. ENTRIES * disk.bpb.sectors_per_fat - 1 \in Int /\ ENTRIES \in Nat \ {0}
        BY <4>1, DiskFacts
      <4> QED
        BY <4>1, <4>2, <4>3
    <3>2. fat_index # 0
      BY <3>1 DEF fat_index
    <3> QED
      BY <2>1, <3>2 DEF CacheHit
  <2>3. m_fat[b].data = FatSectorRead(fat_index)
    BY <2>1, <2>2 DEF CacheHit, IInv, CacheInv, CacheSound
  <2> QED
    BY <1>1, <2>1, <2>3 DEF CacheHit
<1>3. CASE FatRead
  <2>1. block[1] = FatSectorRead(fat_index)
    BY <1>3, SectorWasRead
  <2> QED
    BY <1>1, <1>3, <2>1 DEF FatRead
<1>4. CASE New \/ Mount \/ CacheMiss
  BY <1>4 DEF New, Mount, CacheMiss, NextClusterFound
<1>5. CASE Drive
  BY <1>5 DEF Drive, NextClusterFound
<1>6. CASE UNCHANGED vars
  BY <1>6 DEF vars, NextClusterFound
<1> QED
  BY <1>2, <1>3, <1>4, <1>5, <1>6, OtherSteps DEF NextClusterFound

-----------------------------------------------------------------------------
(* What is enumerated, and what is found, is on the disk.                  *)
LEMMA FrontLast ==
  ASSUME NEW S, NEW s \in Seq(S)
  PROVE  /\ Front(s) \in Seq(S)
         /\ s # <<>> => Last(s) \in S
BY DEF Front, Last

LEMMA EntriesAreOnDisk ==
  ASSUME NEW ss PROVE EntriesIn(ss) \in OnDisk \cup {<<>>}
BY DEF EntriesIn, OnDisk

LEMMA InnerFacts ==
  ASSUME IInv, pc = "scan"
  PROVE  /\ Inner \in Enumerations /\ Front(dirs) \in Seq(Enumerations)
         /\ Inner.i \in Nat \ {0} /\ Inner.entries \in OnDisk \cup {<<>>}
<1>1. dirs \in Seq(Enumerations) /\ dirs # <<>>
  BY DEF IInv, EntriesInv
<1>2. Inner \in Enumerations /\ Front(dirs) \in Seq(Enumerations)
  BY <1>1, FrontLast DEF Inner
<1> QED BY <1>2 DEF Enumerations

(* The entry that is looked at.                                            *)
LEMMA EntryFacts ==
  ASSUME IInv, pc = "scan", More
  PROVE  /\ Inner.entries \in OnDisk /\ Inner.i \in DOMAIN Inner.entries
         /\ Entry = Inner.entries[Inner.i]
         /\ Entry.kind \in {"file", "directory"} =>
              Entry.cluster \in DOMAIN disk.fat /\ Entry.size \in Nat
         /\ Entry.kind = "lfn" => Entry.order \in Orders /\ Entry.piece \in NamePieces
<1>1. Inner.i \in Nat \ {0} /\ Inner.entries \in OnDisk \cup {<<>>}
      /\ Inner.i <= Len(Inner.entries)
  BY InnerFacts DEF More, EntriesOf
<1>2. Inner.entries \in OnDisk
  <2>1. Len(<<>>) = 0
    OBVIOUS
  <2> QED BY <1>1, <2>1
<1>3. PICK c \in DOMAIN disk.entries : Inner.entries = disk.entries[c]
  BY <1>2 DEF OnDisk
<1>4. /\ Len(disk.entries[c]) \in Nat /\ DOMAIN disk.entries[c] = 1 .. Len(disk.entries[c])
      /\ \A i \in DOMAIN disk.entries[c] :
            LET e == disk.entries[c][i] IN
            /\ e.kind \in {"file", "directory"} => e.cluster \in DOMAIN disk.fat /\ e.size \in Nat
            /\ e.kind = "lfn" => e.order \in Orders
  BY DisksAssumption DEF IInv, CacheInv
<1>5. Inner.i \in DOMAIN Inner.entries
  BY <1>1, <1>3, <1>4
<1>6. Entry = Inner.entries[Inner.i]
  BY DEF Entry, EntriesOf
<1>7. Entry.kind = "lfn" => Entry.piece \in NamePieces
  BY <1>2, <1>5, <1>6 DEF NamePieces
<1> QED BY <1>2, <1>3, <1>4, <1>5, <1>6, <1>7

(* The innermost call goes on.                                             *)
LEMMA InsideOf ==
  ASSUME IInv, pc = "scan", NEW d \in Enumerations
  PROVE  Inside(d) \in Seq(Enumerations) /\ Inside(d) # <<>>
<1>1. Front(dirs) \in Seq(Enumerations)
  BY InnerFacts
<1>2. Inside(d) = Append(Front(dirs), d)
  BY DEF Inside
<1> HIDE DEF Inside
<1> QED BY <1>1, <1>2

(* The steps that look at no entry.                                        *)
LEMMA NoEntrySteps ==
  ASSUME [Next]_vars, ~DirectoryRead, ~LfnEntry, ~DeletedLfn, ~Skipped, ~EndOfDirectory,
         ~(\E found \in BOOLEAN : Traversed(found)), ~Listed
  PROVE  UNCHANGED <<disk, dirs, found_entry>> /\ (pc' = "scan" => pc = "scan" \/ dirs # <<>>)
<1>1. CASE \E f \in {"get_file_size", "get_file"}, p \in Paths :
              pc = "idle" /\ Resolved(Front(p)) # NoEntry /\ Search(f, p)
  BY <1>1 DEF Search, Enumerate
<1>2. CASE Dirent
  BY <1>2 DEF Dirent, Enumerate
<1>3. CASE New \/ Mount
  BY <1>3 DEF New, Mount, dirVars
<1>4. CASE NextName \/ Searched \/ ListingGoesOn
  BY <1>4 DEF NextName, Searched, ListingGoesOn, Enumerate, Idle, constant
<1>5. CASE ReadCluster \/ ChainEnds \/ CopyCluster \/ CacheMiss \/ FatRead
           \/ \E b \in Blocks : CacheHit(b)
  BY <1>5 DEF ReadCluster, ChainEnds, CopyCluster, CacheMiss, FatRead, CacheHit, Idle, fileKept
<1>6. CASE Drive
  BY <1>6 DEF Drive, dirVars
<1>7. CASE UNCHANGED vars
  BY <1>7 DEF vars, dirVars
<1> QED
  BY <1>1, <1>2, <1>3, <1>4, <1>5, <1>6, <1>7 DEF Next, Running, Scanning, Reading

LEMMA DiskStays == ASSUME [Next]_vars PROVE disk' = disk
<1>1. CASE DirectoryRead \/ LfnEntry \/ DeletedLfn \/ Skipped \/ EndOfDirectory \/ Listed
           \/ \E found \in BOOLEAN : Traversed(found)
  BY <1>1 DEF DirectoryRead, LfnEntry, DeletedLfn, Skipped, EndOfDirectory, Listed, Traversed,
     scanned, constant
<1> QED BY <1>1, NoEntrySteps

LEMMA SeqOfEnumerations ==
  ASSUME disk' = disk PROVE Enumerations' = Enumerations /\ DOMAIN disk'.fat = DOMAIN disk.fat
BY DEF Enumerations, OnDisk, NamePieces

(* A record that goes on to the next entry keeps its type.                 *)
Rec(E, I, B, N) == [entries : E, i : I, has_lfn : B, name_buf : N]
LEMMA RecTurn ==
  ASSUME NEW E, NEW I, NEW B, NEW N, NEW r \in Rec(E, I, B, N), r.i + 1 \in I,
         NEW h \in B, NEW n \in N
  PROVE  /\ [r EXCEPT !.i = @ + 1] \in Rec(E, I, B, N)
         /\ [r EXCEPT !.i = @ + 1, !.has_lfn = h] \in Rec(E, I, B, N)
         /\ [r EXCEPT !.i = @ + 1, !.has_lfn = h, !.name_buf = n] \in Rec(E, I, B, N)
BY DEF Rec

(* An entry that has been looked at, whatever was made of it.              *)
LEMMA TurnOf ==
  ASSUME IInv, pc = "scan"
  PROVE  /\ Turn(Inner) \in Enumerations
         /\ [Inner EXCEPT !.i = @ + 1] \in Enumerations
         /\ \A n \in [Orders -> NamePieces] :
              [Inner EXCEPT !.i = @ + 1, !.has_lfn = TRUE, !.name_buf = n] \in Enumerations
<1> DEFINE E == OnDisk \cup {<<>>}
           N == [Orders -> NamePieces]
<1>1. Enumerations = Rec(E, Nat \ {0}, BOOLEAN, N)
  BY DEF Enumerations, Rec
<1>2. Inner \in Rec(E, Nat \ {0}, BOOLEAN, N)
  BY <1>1, InnerFacts
<1>3. Inner.i + 1 \in Nat \ {0} /\ Inner.name_buf \in N
  BY <1>2 DEF Rec
<1> HIDE DEF E, N
<1>4. FALSE \in BOOLEAN /\ TRUE \in BOOLEAN
  OBVIOUS
<1>5. Turn(Inner) \in Enumerations /\ [Inner EXCEPT !.i = @ + 1] \in Enumerations
  BY <1>1, <1>2, <1>3, <1>4, RecTurn DEF Turn
<1>6. \A n \in N : [Inner EXCEPT !.i = @ + 1, !.has_lfn = TRUE, !.name_buf = n] \in Enumerations
  BY <1>1, <1>2, <1>3, <1>4, RecTurn
<1> QED BY <1>5, <1>6 DEF N

LEMMA EntriesInvStep ==
  ASSUME IInv, [Next]_vars PROVE EntriesInv'
<1>1. disk' = disk /\ Enumerations' = Enumerations
  BY DiskStays, SeqOfEnumerations
<1>2. /\ dirs \in Seq(Enumerations) /\ (pc = "scan" => dirs # <<>>)
      /\ found_entry.cluster \in DOMAIN disk.fat /\ found_entry.size \in Nat
  BY DEF IInv, EntriesInv
<1>3. CASE DirectoryRead
  <2> DEFINE d == [entries |-> EntriesIn(block), i |-> 1, has_lfn |-> FALSE,
                   name_buf |-> [o \in Orders |-> Unset]]
  <2>1. d \in Enumerations
    <3>1. [o \in Orders |-> Unset] \in [Orders -> NamePieces]
      BY DEF NamePieces
    <3>2. EntriesIn(block) \in OnDisk \cup {<<>>}
      BY EntriesAreOnDisk
    <3> QED BY <3>1, <3>2 DEF Enumerations
  <2>2. dirs' = Append(dirs, d) /\ found_entry' = found_entry
    BY <1>3 DEF DirectoryRead
  <2> HIDE DEF d
  <2>3. dirs' \in Seq(Enumerations) /\ dirs' # <<>>
    BY <1>2, <2>1, <2>2
  <2> QED BY <1>1, <1>2, <2>2, <2>3 DEF EntriesInv
<1>4. CASE LfnEntry
  <2> DEFINE d == [Inner EXCEPT !.i = @ + 1, !.has_lfn = TRUE,
                                !.name_buf[Place(Entry.order)] = Entry.piece]
  <2>1. d \in Enumerations
    <3>1. Inner \in Enumerations /\ Entry.order \in Orders /\ Entry.piece \in NamePieces
      BY <1>4, InnerFacts, EntryFacts DEF LfnEntry, Scan
    <3>2. [Inner.name_buf EXCEPT ![Place(Entry.order)] = Entry.piece] \in [Orders -> NamePieces]
      BY <3>1 DEF Enumerations, Place
    <3> DEFINE n == [Inner.name_buf EXCEPT ![Place(Entry.order)] = Entry.piece]
    <3>3. d = [Inner EXCEPT !.i = @ + 1, !.has_lfn = TRUE, !.name_buf = n]
      BY SMT
    <3>4. pc = "scan" /\ n \in [Orders -> NamePieces]
      BY <1>4, <3>2 DEF LfnEntry, Scan
    <3> HIDE DEF d, n
    <3> QED BY <3>3, <3>4, TurnOf
  <2>2. dirs' = Inside(d) /\ found_entry' = found_entry /\ pc = "scan"
    BY <1>4 DEF LfnEntry, Scan
  <2> HIDE DEF d
  <2>3. dirs' \in Seq(Enumerations) /\ dirs' # <<>>
    BY <2>1, <2>2, InsideOf
  <2> QED BY <1>1, <1>2, <2>2, <2>3 DEF EntriesInv
<1>5. CASE DeletedLfn \/ Skipped \/ Listed
  <2>1. /\ pc = "scan" /\ found_entry' = found_entry
        /\ dirs' = Inside(Turn(Inner)) \/ dirs' = Inside([Inner EXCEPT !.i = @ + 1])
    BY <1>5 DEF DeletedLfn, Skipped, Listed, Scan
  <2>2. dirs' \in Seq(Enumerations) /\ dirs' # <<>>
    BY <2>1, TurnOf, InsideOf
  <2> QED BY <1>1, <1>2, <2>1, <2>2 DEF EntriesInv
<1>6. CASE EndOfDirectory
  <2>1. dirs' = Front(dirs) /\ found_entry' = found_entry /\ pc' = "enumerated"
    BY <1>6 DEF EndOfDirectory
  <2> QED BY <1>1, <1>2, <2>1, FrontLast DEF EntriesInv
<1>7. CASE \E found \in BOOLEAN : Traversed(found)
  <2>1. PICK found \in BOOLEAN : Traversed(found)
    BY <1>7
  <2>2. pc = "scan" /\ More /\ Entry.kind \in {"file", "directory"}
    BY <2>1 DEF Traversed, Scan
  <2>3. CASE found
    <3>1. dirs' = Front(dirs) /\ found_entry' = Entry /\ pc' = "enumerated"
      BY <2>1, <2>3 DEF Traversed
    <3>2. Entry.cluster \in DOMAIN disk.fat /\ Entry.size \in Nat
      BY <2>2, EntryFacts
    <3> QED BY <1>1, <1>2, <3>1, <3>2, FrontLast DEF EntriesInv
  <2>4. CASE ~found
    <3>1. dirs' = Inside(Turn(Inner)) /\ found_entry' = found_entry
      BY <2>1, <2>4 DEF Traversed
    <3>2. dirs' \in Seq(Enumerations) /\ dirs' # <<>>
      BY <2>2, <3>1, TurnOf, InsideOf
    <3> QED BY <1>1, <1>2, <3>1, <3>2 DEF EntriesInv
  <2> QED BY <2>3, <2>4
<1>8. CASE UNCHANGED <<disk, dirs, found_entry>> /\ (pc' = "scan" => pc = "scan" \/ dirs # <<>>)
  BY <1>1, <1>2, <1>8 DEF EntriesInv
<1> QED BY <1>3, <1>4, <1>5, <1>6, <1>7, <1>8, NoEntrySteps

-----------------------------------------------------------------------------
(* The buffer of get_file.  Where a cluster's sectors are, and that three  *)
(* bytes of an address reach them.                                         *)
LEMMA ClusterSectors ==
  ASSUME NEW d \in Disks
  PROVE  /\ d.bpb.sectors_per_cluster \in Nat \ {0}
         /\ \A x \in DOMAIN d.fat : /\ SectorOf(d.bpb, x) \in Int
                                    /\ SectorOf(d.bpb, x) % LbaLimit = SectorOf(d.bpb, x)
<1>1. /\ d.bpb \in [Geometry -> Nat] /\ d.bpb.sectors_per_cluster > 0
      /\ \A x \in DOMAIN d.fat : /\ SectorOf(d.bpb, x) >= 0
                                 /\ SectorOf(d.bpb, x) + d.bpb.sectors_per_cluster <= LbaLimit
  BY DisksAssumption
<1>2. /\ "reserved" \in Geometry /\ "fat_count" \in Geometry /\ "sectors_per_fat" \in Geometry
      /\ "sectors_per_cluster" \in Geometry
  BY DEF Geometry
<1> DEFINE p == d.bpb.sectors_per_cluster
           r == d.bpb.reserved
           f == d.bpb.fat_count
           n == d.bpb.sectors_per_fat
<1>3. p \in Nat \ {0} /\ r \in Nat /\ f \in Nat /\ n \in Nat
  BY <1>1, <1>2
<1>4. ASSUME NEW x \in DOMAIN d.fat
      PROVE  SectorOf(d.bpb, x) \in Int /\ SectorOf(d.bpb, x) % LbaLimit = SectorOf(d.bpb, x)
  <2>1. SectorOf(d.bpb, x) = PartStart + r + f * n + (x - 2) * p
    BY DEF SectorOf, DataStart, FatStart
  <2>2. x \in Int /\ PartStart \in Nat /\ LbaLimit \in Nat \ {0}
    <3>1. DOMAIN d.fat = 0 .. ENTRIES * n - 1 /\ PartStart \in Nat /\ LbaLimit \in Nat \ {0}
      BY DiskFacts
    <3> QED BY <3>1
  <2>3. SectorOf(d.bpb, x) >= 0 /\ SectorOf(d.bpb, x) + p <= LbaLimit
    BY <1>1
  <2> DEFINE s == SectorOf(d.bpb, x)
  <2>4. s \in Int
    <3>1. f * n \in Int /\ (x - 2) * p \in Int
      BY <1>3, <2>2
    <3> HIDE DEF p, r, f, n
    <3> QED BY <1>3, <2>1, <2>2, <3>1
  <2> HIDE DEF s, p
  <2>5. s \in Nat /\ s < LbaLimit
    BY <1>3, <2>2, <2>3, <2>4 DEF s
  <2> QED BY <2>2, <2>4, <2>5, ModSmall DEF s
<1> QED BY <1>3, <1>4

LEMMA DivMod ==
  ASSUME NEW p \in Nat \ {0}, NEW k \in Nat, NEW r \in 0 .. p - 1
  PROVE  (k * p + r) \div p = k /\ (k * p + r) % p = r
OBVIOUS

LEMMA Joined ==
  ASSUME NEW v \in Seq(Int), NEW w \in Seq(Int)
  PROVE  /\ v \o w \in Seq(Int) /\ Len(v \o w) = Len(v) + Len(w) /\ Len(v) \in Nat
         /\ \A j \in 1 .. Len(v) : (v \o w)[j] = v[j]
         /\ \A i \in 1 .. Len(w) : (v \o w)[Len(v) + i] = w[i]
OBVIOUS

LEMMA SectorsPrefix ==
  ASSUME NEW p \in Nat, NEW a \in Int, NEW m \in 0 .. p
  PROVE  /\ SubSeq(Sectors(p, a), 1, m) \in Seq(Int)
         /\ Len(SubSeq(Sectors(p, a), 1, m)) = m
         /\ \A i \in 1 .. m : SubSeq(Sectors(p, a), 1, m)[i] = a + i - 1
<1>1. Sectors(p, a) \in Seq(Int) /\ Len(Sectors(p, a)) = p
      /\ \A i \in 1 .. p : Sectors(p, a)[i] = a + i - 1
  BY DEF Sectors
<1> HIDE DEF Sectors
<1> QED BY <1>1

(* Another cluster, or what the file needs of it, behind k whole ones.     *)
Times(n, k, p)  == n = k * p
CountFrom(w, s) == \A i \in 1 .. Len(w) : w[i] = s + i - 1
Behind(v, w, k, p, s) == \A j \in 1 .. Len(v) + Len(w) : j > Len(v) =>
  (j - 1) \div p = k /\ (v \o w)[j] = s + ((j - 1) % p)
LEMMA SectorsBehind ==
  ASSUME NEW p \in Nat \ {0}, NEW k \in Nat, NEW v \in Seq(Int), Times(Len(v), k, p),
         NEW s \in Int, NEW w \in Seq(Int), CountFrom(w, s), Len(w) <= p
  PROVE  Behind(v, w, k, p, s)
<1> DEFINE n == Len(v)
           m == Len(w)
<1>1. n \in Nat /\ n = k * p /\ m \in 0 .. p
  BY DEF Times
<1>2. \A i \in 1 .. m : (v \o w)[n + i] = w[i]
  BY Joined DEF m
<1> HIDE DEF n, m
<1> SUFFICES ASSUME NEW j \in 1 .. n + m, j > n
             PROVE  (j - 1) \div p = k /\ (v \o w)[j] = s + ((j - 1) % p)
  BY DEF n, m, Behind
<1> DEFINE r == j - 1 - n
<1>3. r \in 0 .. p - 1 /\ j - 1 = n + r /\ r + 1 \in 1 .. m /\ j = n + (r + 1)
  BY <1>1
<1> HIDE DEF r
<1>4. (k * p + r) \div p = k /\ (k * p + r) % p = r
  BY <1>3, DivMod
<1>5. (v \o w)[j] = w[r + 1] /\ w[r + 1] = s + (r + 1) - 1
  BY <1>2, <1>3 DEF CountFrom, m
<1>6. j - 1 = k * p + r
  BY <1>1, <1>3
<1>7. (j - 1) \div p = k /\ (j - 1) % p = r
  BY <1>4, <1>6, Zenon
<1> QED BY <1>3, <1>5, <1>7

InFront(d, v, c, k, x) ==
  Len(v) = k * d.bpb.sectors_per_cluster /\ x = Chain(d, c)[k] /\ x < EOC
PartOf(d, w, m, x) ==
  /\ m \in 0 .. d.bpb.sectors_per_cluster
  /\ w = SubSeq(Sectors(d.bpb.sectors_per_cluster, SectorOf(d.bpb, x)), 1, m)
LEMMA BeginsMore ==
  ASSUME NEW d \in Disks, NEW c \in DOMAIN d.fat, NEW v \in Seq(Int), Begins(d, v, c),
         NEW k \in Nat, NEW x \in DOMAIN d.fat, InFront(d, v, c, k, x),
         NEW m, NEW w, PartOf(d, w, m, x)
  PROVE  v \o w \in Seq(Int) /\ Len(v \o w) = Len(v) + m /\ Begins(d, v \o w, c)
<1> DEFINE p == d.bpb.sectors_per_cluster
           s == SectorOf(d.bpb, x)
<1>0. /\ Len(v) = k * p /\ x = Chain(d, c)[k] /\ x < EOC
      /\ m \in 0 .. p /\ w = SubSeq(Sectors(p, s), 1, m)
  BY DEF InFront, PartOf
<1>1. p \in Nat \ {0} /\ s \in Int
  BY ClusterSectors
<1>2. w \in Seq(Int) /\ Len(w) = m /\ \A i \in 1 .. m : w[i] = s + i - 1
  <2> HIDE DEF p, s
  <2> QED BY <1>0, <1>1, SectorsPrefix
<1>3. v \o w \in Seq(Int) /\ Len(v \o w) = Len(v) + m /\ Len(v) \in Nat
      /\ \A j \in 1 .. Len(v) : (v \o w)[j] = v[j]
  <2>1. v \in Seq(Int) /\ w \in Seq(Int) /\ Len(w) = m
    BY <1>2
  <2> QED BY ONLY <2>1, Joined
<1>4. \A j \in 1 .. Len(v) + m : j > Len(v) =>
        (j - 1) \div p = k /\ (v \o w)[j] = s + ((j - 1) % p)
  <2>1. Len(w) <= p /\ Times(Len(v), k, p)
    BY <1>0, <1>1, <1>2 DEF Times
  <2>2. CountFrom(w, s)
    BY <1>2 DEF CountFrom
  <2> HIDE DEF p, s
  <2>3. p \in Nat \ {0} /\ k \in Nat /\ v \in Seq(Int) /\ s \in Int /\ w \in Seq(Int)
    BY <1>1, <1>2
  <2>4. Behind(v, w, k, p, s)
    BY <2>1, <2>2, <2>3, SectorsBehind
  <2> QED BY <1>2, <2>4 DEF Behind
<1>5. ASSUME NEW j \in 1 .. Len(v) + m
      PROVE  /\ ClusterAt(d, c, j) < EOC
             /\ (v \o w)[j] = SectorOf(d.bpb, ClusterAt(d, c, j)) + ((j - 1) % p)
  <2>1. CASE j <= Len(v)
    <3>1. j \in 1 .. Len(v) /\ (v \o w)[j] = v[j]
      BY <1>3, <2>1
    <3> QED BY <3>1 DEF Begins
  <2>2. CASE j > Len(v)
    <3>1. (j - 1) \div p = k /\ (v \o w)[j] = s + ((j - 1) % p)
      BY <1>4, <2>2
    <3> QED BY <1>0, <3>1 DEF ClusterAt
  <2>3. Len(v) \in Nat /\ m \in Nat
    BY <1>0, <1>1
  <2>4. j \in Nat
    BY <2>3
  <2>5. j <= Len(v) \/ j > Len(v)
    BY <2>3, <2>4
  <2> QED BY <2>1, <2>2, <2>5
<1> QED BY <1>3, <1>5, <1>0 DEF Begins

-----------------------------------------------------------------------------
(* The steps before and behind read_file, and how they leave CallInv.      *)
LookingPcs == {"read directory", "scan", "enumerated"}
RestPcs    == {"new", "mount", "idle"}
SearchCalls == {"get_file_size", "get_file", "dirent"}
LEMMA CallSteps ==
  ASSUME [Next]_vars, ~Searched, ~Drive, ~Reading, ~UNCHANGED vars
  PROVE  \/ pc \in RestPcs /\ pc' \in RestPcs /\ UNCHANGED <<call, out>>
         \/ pc' \in LookingPcs /\ out' = <<>> /\ call' \in SearchCalls
         \/ pc \in LookingPcs /\ pc' \in LookingPcs /\ UNCHANGED <<call, out>>
         \/ pc' \in RestPcs /\ call' = "none" /\ out' = out
<1> USE DEF LookingPcs, RestPcs, SearchCalls
<1>1. CASE \E f \in {"get_file_size", "get_file"}, p \in Paths :
              pc = "idle" /\ Resolved(Front(p)) # NoEntry /\ Search(f, p)
  BY <1>1 DEF Search, Enumerate
<1>2. CASE Dirent
  BY <1>2 DEF Dirent, Enumerate
<1>3. CASE New \/ Mount
  BY <1>3 DEF New, Mount, fileVars
<1>4. CASE DirectoryRead
  BY <1>4 DEF DirectoryRead, fileVars, constant
<1>5. CASE LfnEntry \/ DeletedLfn \/ Skipped \/ EndOfDirectory
  BY <1>5 DEF LfnEntry, DeletedLfn, Skipped, EndOfDirectory, Scan, scanned, constant, fileVars
<1>6. CASE \E found \in BOOLEAN : Traversed(found)
  BY <1>6 DEF Traversed, Scan, scanned, constant, fileVars
<1>7. CASE Listed
  BY <1>7 DEF Listed, Scan, Enumerate, constant, fileVars
<1>8. CASE NextName \/ ListingGoesOn
  BY <1>8 DEF NextName, ListingGoesOn, Enumerate, Idle, constant, fileVars
<1> QED
  BY <1>1, <1>2, <1>3, <1>4, <1>5, <1>6, <1>7, <1>8 DEF Next, Running, Scanning

(* get_file begins at the first cluster of the file with an empty buffer.  *)
LEMMA SearchedCallInv == ASSUME IInv, Searched PROVE CallInv'
<1>1. out = <<>> /\ out' = out /\ disk' = disk /\ found_entry' = found_entry
  BY DEF IInv, CallInv, Searched, Idle, constant
<1>2. CASE call = "get_file"
  <2>1. /\ pc' = "read_file" /\ call' = "get_file"
        /\ cluster' = found_entry.cluster /\ size' = found_entry.size
    BY <1>2 DEF Searched, constant
  <2>2. /\ disk \in Disks /\ found_entry.cluster \in DOMAIN disk.fat
        /\ found_entry.size \in Nat
    BY DEF IInv, CacheInv, EntriesInv
  <2>3. Chain(disk, found_entry.cluster)[0] = found_entry.cluster
    BY <2>2, ChainSteps
  <2>4. disk.bpb.sectors_per_cluster \in Nat
    BY <2>2, ClusterSectors
  <2>5. Len(<<>>) = 0 /\ <<>> \in Seq(Int)
    OBVIOUS
  <2>6. Begins(disk, <<>>, found_entry.cluster)
    BY <2>5 DEF Begins
  <2>7. 0 \in 0 .. 0 /\ 0 = 0 * disk.bpb.sectors_per_cluster
    BY <2>4
  <2>8. Copied'
    BY <1>1, <2>1, <2>2, <2>3, <2>5, <2>6, <2>7 DEF Copied
  <2> QED BY <1>1, <2>1, <2>5, <2>8 DEF CallInv
<1>3. CASE call # "get_file"
  <2>1. pc' = "idle" /\ call' = "none"
    BY <1>3 DEF Searched, Idle
  <2> QED BY <1>1, <2>1 DEF CallInv
<1> QED BY <1>2, <1>3

(* The buffer stays: so does what is known of it.                          *)
LEMMA ReadFacts ==
  ASSUME IInv, pc \in ReadPcs
  PROVE  /\ Copied /\ call = "get_file" /\ out \in Seq(Int) /\ Len(out) \in Nat
         /\ disk \in Disks /\ bpb = disk.bpb /\ found_entry.cluster \in DOMAIN disk.fat
<1>1. Copied /\ call = "get_file"
  BY DEF IInv, CallInv, ReadPcs
<1>2. disk \in Disks /\ bpb = disk.bpb
  BY DEF IInv, CacheInv, ReadPcs
<1>3. out \in Seq(Int)
  BY DiskIsOne
<1>4. found_entry.cluster \in DOMAIN disk.fat
  BY DEF IInv, EntriesInv
<1> QED BY <1>1, <1>2, <1>3, <1>4

LEMMA ReadClusterCallInv == ASSUME IInv, ReadCluster PROVE CallInv'
<1>1. /\ pc = "read_file" /\ pc' = "read cluster" /\ cluster < EOC
      /\ UNCHANGED <<disk, found_entry, out, size, cluster, call>>
      /\ ReadSectors(bpb.sectors_per_cluster, SectorOf(bpb, cluster))
  BY DEF ReadCluster, fileKept, fileVars
<1>2. /\ Copied /\ call = "get_file" /\ out \in Seq(Int)
      /\ disk \in Disks /\ bpb = disk.bpb
  BY <1>1, ReadFacts DEF ReadPcs
<1>3. cluster \in DOMAIN disk.fat
  BY <1>1, ClusterFacts DEF ReadPcs
<1>4. PICK n \in Nat \ {0}, b \in Int :
        /\ n = disk.bpb.sectors_per_cluster /\ b = SectorOf(disk.bpb, cluster)
        /\ b % LbaLimit = b
  BY <1>2, <1>3, ClusterSectors
<1>5. Stores(n, b)'
  <2>1. ReadSectors(n, b)
    BY <1>1, <1>2, <1>4
  <2>2. Stores(n, b % LbaLimit)'
    BY <2>1, ReadStores
  <2> QED BY <1>4, <2>2
<1>6. Stores(disk.bpb.sectors_per_cluster, SectorOf(disk.bpb, cluster))'
  BY <1>1, <1>4, <1>5
<1>7. Copied'
  BY <1>1, <1>2, <1>6 DEF Copied
<1> QED BY <1>1, <1>2, <1>7 DEF CallInv

LEMMA EndCallInv ==
  ASSUME IInv, Idle, out' \in Seq(Int) PROVE CallInv'
BY DEF Idle, CallInv

(* A cluster is copied behind the ones in front of it, and no more of the  *)
(* last one than the file has.                                             *)
Part == IF GoesOn(size) THEN disk.bpb.sectors_per_cluster ELSE size
LEMMA CopiedMore ==
  ASSUME IInv, CopyCluster
  PROVE  /\ out' \in Seq(Int) /\ Begins(disk, out', found_entry.cluster)
         /\ size \in Nat /\ Part \in 0 .. disk.bpb.sectors_per_cluster
         /\ Len(out') = Len(out) + Part /\ Len(out) + size = found_entry.size
         /\ \E k \in Nat : /\ Len(out) = k * disk.bpb.sectors_per_cluster
                           /\ cluster = Chain(disk, found_entry.cluster)[k] /\ cluster < EOC
<1>1. pc = "read cluster" /\ at = "none"
  BY DEF CopyCluster
<1>2. /\ Copied /\ out \in Seq(Int) /\ Len(out) \in Nat
      /\ disk \in Disks /\ bpb = disk.bpb /\ found_entry.cluster \in DOMAIN disk.fat
  BY <1>1, ReadFacts DEF ReadPcs
<1>3. /\ Begins(disk, out, found_entry.cluster)
      /\ size \in Nat /\ Len(out) + size = found_entry.size
      /\ cluster < EOC
      /\ Stores(disk.bpb.sectors_per_cluster, SectorOf(disk.bpb, cluster))
  BY <1>1, <1>2 DEF Copied
<1>4. PICK k \in 0 .. Len(out) :
        /\ Len(out) = k * disk.bpb.sectors_per_cluster
        /\ cluster = Chain(disk, found_entry.cluster)[k]
  BY <1>1, <1>2 DEF Copied
<1>5. k \in Nat
  BY <1>2
<1>6. cluster \in DOMAIN disk.fat
  BY <1>1, <1>3, ClusterFacts DEF ReadPcs
<1>7. disk.bpb.sectors_per_cluster \in Nat
  BY <1>2, ClusterSectors
<1>8. block = Sectors(disk.bpb.sectors_per_cluster, SectorOf(disk.bpb, cluster))
  BY <1>1, <1>3, <1>7, ReadOver
<1>9. Part \in 0 .. disk.bpb.sectors_per_cluster
  <2>1. ~GoesOn(size) => size <= disk.bpb.sectors_per_cluster
    BY <1>2, <1>3, <1>7 DEF GoesOn
  <2> QED BY <1>3, <1>7, <2>1 DEF Part
<1>10. PICK more : more = SubSeq(block, 1, Part)
  OBVIOUS
<1>11. out' = out \o more
  BY <1>2, <1>10 DEF CopyCluster, Part
<1>12. /\ out \o more \in Seq(Int) /\ Len(out \o more) = Len(out) + Part
       /\ Begins(disk, out \o more, found_entry.cluster)
  <2>1. more = SubSeq(Sectors(disk.bpb.sectors_per_cluster, SectorOf(disk.bpb, cluster)), 1, Part)
    BY <1>8, <1>10
  <2>2. PartOf(disk, more, Part, cluster)
    BY <1>9, <2>1 DEF PartOf
  <2>3. InFront(disk, out, found_entry.cluster, k, cluster)
    BY <1>3, <1>4 DEF InFront
  <2> QED BY <1>2, <1>3, <1>5, <1>6, <2>2, <2>3, BeginsMore
<1> QED BY <1>3, <1>4, <1>5, <1>9, <1>11, <1>12

LEMMA CopyCallInv == ASSUME IInv, CopyCluster PROVE CallInv'
<1>1. out' \in Seq(Int)
  BY CopiedMore
<1>2. CASE ~GoesOn(size)
  BY <1>1, <1>2, EndCallInv DEF CopyCluster
<1>3. CASE GoesOn(size)
  <2> DEFINE c == found_entry.cluster
             n == disk.bpb.sectors_per_cluster
  <2>1. pc = "read cluster"
    BY DEF CopyCluster
  <2>2. /\ call = "get_file" /\ Len(out) \in Nat /\ disk \in Disks /\ bpb = disk.bpb
    BY <2>1, ReadFacts DEF ReadPcs
  <2>3. /\ pc' = "get_next_cluster" /\ size' = size - n
        /\ UNCHANGED <<disk, found_entry, call, cluster>>
    BY <1>3, <2>2 DEF CopyCluster, fileKept, Rest
  <2>4. n \in Nat \ {0} /\ size > n
    BY <1>3, <2>2, ClusterSectors DEF GoesOn
  <2>5. /\ Begins(disk, out', c) /\ size \in Nat /\ Len(out') = Len(out) + n
        /\ Len(out) + size = found_entry.size
    BY <1>3, CopiedMore DEF Part
  <2>6. PICK k \in Nat : Len(out) = k * n /\ cluster = Chain(disk, c)[k] /\ cluster < EOC
    BY CopiedMore
  <2>7. size' \in Nat /\ size' > 0 /\ Len(out') + size' = found_entry.size
    <3> HIDE DEF n
    <3> QED BY <2>2, <2>3, <2>4, <2>5
  <2>8. PICK j \in Nat : j = k + 1
    OBVIOUS
  <2>9. j > 0 /\ j - 1 = k
    BY <2>8
  <2>10. Len(out') = j * n
    <3> HIDE DEF n
    <3>1. j * n = k * n + n
      BY <2>4, <2>8
    <3> QED BY <2>5, <2>6, <3>1
  <2>11. j \in 0 .. Len(out')
    <3> HIDE DEF n
    <3>1. j * n >= j /\ j * n \in Nat
      BY <2>4
    <3> QED BY <2>10, <3>1
  <2>12. Copied'
    <3> HIDE DEF n
    <3>1. c' = c /\ n' = n /\ \A i : Chain(disk', c')[i] = Chain(disk, c)[i]
      BY <2>3 DEF n
    <3>2. \E i \in 0 .. Len(out') :
            Len(out') = i * n /\ i > 0 /\ cluster' = Chain(disk, c)[i - 1] /\ cluster' < EOC
      BY <2>3, <2>6, <2>9, <2>10, <2>11
    <3> QED BY <2>3, <2>5, <2>7, <3>1, <3>2 DEF Copied, n
  <2> QED BY <1>1, <2>2, <2>3, <2>12 DEF CallInv
<1> QED BY <1>2, <1>3

(* The next cluster is the next one of the chain.                          *)
LEMMA NextCallInv ==
  ASSUME IInv, [Next]_vars, FatRead \/ \E b \in Blocks : CacheHit(b) PROVE CallInv'
<1> DEFINE c == found_entry.cluster
<1>1. /\ pc \in {"get_next_cluster", "read fat"} /\ pc' = "read_file"
      /\ UNCHANGED <<disk, found_entry, out, size, call>>
  BY DEF FatRead, CacheHit, fileKept
<1>2. /\ Copied /\ call = "get_file" /\ out \in Seq(Int) /\ Len(out) \in Nat
      /\ disk \in Disks /\ c \in DOMAIN disk.fat
  BY <1>1, ReadFacts DEF ReadPcs
<1>3. PICK k \in 0 .. Len(out) :
        /\ Len(out) = k * disk.bpb.sectors_per_cluster
        /\ k > 0 /\ cluster = Chain(disk, c)[k - 1] /\ cluster < EOC
  BY <1>1, <1>2 DEF Copied
<1>4. PICK j \in Nat : k = j + 1 /\ j = k - 1
  <2>1. k \in Nat /\ k > 0
    BY <1>2, <1>3
  <2> QED BY <2>1
<1>5. cluster' = disk.fat[cluster]
  <2>1. cluster \in DOMAIN disk.fat
    BY <1>1, <1>3, ClusterFacts DEF ReadPcs
  <2> QED BY <1>1, <2>1, NextIsFollowed DEF NextClusterFound
<1>6. cluster' = Chain(disk, c)[k]
  <2>1. Chain(disk, c)[j] = cluster /\ Chain(disk, c)[j] \in Clusters(disk)
    BY <1>2, <1>3, <1>4, ChainSteps
  <2>2. Chain(disk, c)[j + 1] = IF Chain(disk, c)[j] >= EOC THEN EOC
                                ELSE disk.fat[Chain(disk, c)[j]]
    BY <1>2, <1>4, ChainSteps
  <2>3. ~(cluster >= EOC)
    <3>1. cluster \in Nat
      BY <1>1, ClusterIsNat DEF ReadPcs
    <3> QED BY <1>3, <3>1, CacheAssumption
  <2> QED BY <1>4, <1>5, <2>1, <2>2, <2>3
<1>7. Copied'
  <2>1. Begins(disk, out, c) /\ size \in Nat /\ Len(out) + size = found_entry.size
    BY <1>2 DEF Copied
  <2> QED BY <1>1, <1>3, <1>6, <2>1 DEF Copied
<1> QED BY <1>1, <1>2, <1>7 DEF CallInv

(* A miss, and the time that the drive takes.                              *)
LEMMA MissCallInv == ASSUME IInv, CacheMiss PROVE CallInv'
<1>1. /\ pc = "get_next_cluster" /\ pc' = "read fat"
      /\ UNCHANGED <<disk, found_entry, out, size, cluster, call>>
  BY DEF CacheMiss, fileKept, fileVars
<1>2. Copied /\ call = "get_file" /\ out \in Seq(Int)
  BY <1>1, ReadFacts DEF ReadPcs
<1>3. Copied'
  BY <1>1, <1>2 DEF Copied
<1> QED BY <1>1, <1>2, <1>3 DEF CallInv

LEMMA DriveCallInv == ASSUME IInv, Drive PROVE CallInv'
<1>1. AtaNext /\ UNCHANGED <<pc, disk, found_entry, out, size, cluster, call>>
  BY DEF Drive, fileVars, dirVars
<1>2. CASE pc # "read cluster"
  <2>1. Copied => Copied'
    BY <1>1, <1>2 DEF Copied
  <2> QED BY <1>1, <2>1 DEF IInv, CallInv
<1>3. CASE pc = "read cluster"
  <2>1. /\ Copied /\ call = "get_file" /\ out \in Seq(Int) /\ disk \in Disks
    BY <1>3, ReadFacts DEF ReadPcs
  <2>2. /\ cluster < EOC
        /\ Stores(disk.bpb.sectors_per_cluster, SectorOf(disk.bpb, cluster))
    BY <1>3, <2>1 DEF Copied
  <2>3. cluster \in DOMAIN disk.fat
    BY <1>3, <2>2, ClusterFacts DEF ReadPcs
  <2>4. PICK n \in Nat, b \in Int :
          n = disk.bpb.sectors_per_cluster /\ b = SectorOf(disk.bpb, cluster)
    BY <2>1, <2>3, ClusterSectors
  <2>5. Stores(n, b)'
    <3>1. Stores(n, b)
      BY <2>2, <2>4
    <3> QED BY <1>1, <3>1, DriveStores
  <2>6. Stores(disk.bpb.sectors_per_cluster, SectorOf(disk.bpb, cluster))'
    BY <1>1, <2>4, <2>5
  <2>7. Copied'
    BY <1>1, <1>3, <2>1, <2>2, <2>6 DEF Copied
  <2> QED BY <1>1, <1>3, <2>1, <2>7 DEF CallInv
<1> QED BY <1>2, <1>3

LEMMA CallInvStep ==
  ASSUME IInv, [Next]_vars PROVE CallInv'
<1>1. CASE Searched
  BY <1>1, SearchedCallInv
<1>2. CASE ReadCluster
  BY <1>2, ReadClusterCallInv
<1>3. CASE ChainEnds
  <2>1. Idle /\ out' \in Seq(Int)
    BY <1>3, DiskIsOne DEF ChainEnds
  <2> QED BY <2>1, EndCallInv
<1>4. CASE CopyCluster
  BY <1>4, CopyCallInv
<1>5. CASE FatRead \/ \E b \in Blocks : CacheHit(b)
  BY <1>5, NextCallInv
<1>6. CASE CacheMiss
  BY <1>6, MissCallInv
<1>7. CASE Drive
  BY <1>7, DriveCallInv
<1>8. CASE UNCHANGED vars
  <2>1. UNCHANGED <<pc, disk, found_entry, out, size, cluster, call, status, lba, left, at, block>>
    BY <1>8 DEF vars, fileVars, dirVars, ataVars
  <2>2. Copied => Copied'
    BY <2>1 DEF Copied, Stores
  <2> QED BY <2>1, <2>2 DEF IInv, CallInv
<1>9. CASE ~Searched /\ ~Drive /\ ~Reading /\ ~UNCHANGED vars
  <2>1. out \in Seq(Int) /\ <<>> \in Seq(Int)
    BY DiskIsOne
  <2>2. CallInv
    BY DEF IInv
  <2>3. pc \in RestPcs => call = "none"
    BY <2>2 DEF CallInv, RestPcs
  <2>4. pc \in LookingPcs => out = <<>> /\ call \in SearchCalls
    BY <2>2, Zenon DEF CallInv, LookingPcs, SearchCalls
  <2> QED BY <1>9, <2>1, <2>3, <2>4, CallSteps DEF CallInv, RestPcs, LookingPcs, SearchCalls
<1> QED
  BY <1>1, <1>2, <1>3, <1>4, <1>5, <1>6, <1>7, <1>8, <1>9 DEF Reading

-----------------------------------------------------------------------------
(* The names of a directory.  A name is what the long entries in front of  *)
(* its entry say, first to last, or the short one.                         *)
LEMMA MaxOf ==
  ASSUME NEW n \in Nat, NEW T, T \subseteq 0 .. n, T # {}
  PROVE  Max(T) \in T /\ \A y \in T : y <= Max(T)
<1> DEFINE U == {n - y : y \in T}
<1>1. PICK u \in U : \A v \in U : u <= v
  <2>1. \A y \in T : n - y \in Nat
    OBVIOUS
  <2>2. U # {}
    OBVIOUS
  <2>3. U \subseteq Nat
    BY <2>1
  <2> HIDE DEF U
  <2> QED BY <2>2, <2>3, Least
<1>2. \E x \in T : \A y \in T : x >= y
  <2>1. n - u \in T
    BY <1>1
  <2>2. \A y \in T : n - u >= y
    BY <1>1
  <2> QED BY <2>1, <2>2
<1>3. Max(T) \in T /\ \A y \in T : Max(T) >= y
  <2>1. Max(T) = CHOOSE x \in T : \A y \in T : x >= y
    BY DEF Max
  <2> QED BY <1>2, <2>1
<1>4. \A y \in T : y <= Max(T)
  <2>1. \A y \in T : y \in Nat
    OBVIOUS
  <2> QED BY <1>3, <2>1
<1> QED BY <1>3, <1>4

(* A directory, and one whose names end before their entries do.           *)
IsDirectory(es) ==
  /\ Len(es) \in Nat /\ DOMAIN es = 1 .. Len(es) /\ Proper(es)
  /\ \A i \in DOMAIN es : es[i].kind = "lfn" => es[i].order \in Orders
NamesEndIn(es) == \A i \in DOMAIN es :
  es[i].kind = "lfn" /\ (i > 1 => es[i - 1].kind # "lfn") => es[i].piece \notin Full
IsLong(es, i) == i > 1 /\ es[i - 1].kind = "lfn"

(* In front of an entry that is alive all are, and a long entry's follower *)
(* is the next piece, or what is named.                                    *)
LEMMA LfnFacts ==
  ASSUME NEW es, IsDirectory(es), NEW i \in Live(es)
  PROVE  /\ i \in Nat /\ i >= 1 /\ i <= Len(es) /\ es[i].kind # "end"
         /\ \A j \in 1 .. i : j \in Live(es)
         /\ es[i].kind = "lfn" => /\ es[i].order \in Orders /\ es[i].piece # Unset
                                  /\ IsLong(es, i) => es[i].piece \in Full
         /\ IsLong(es, i) =>
              /\ i - 1 \in Live(es) /\ es[i - 1].kind = "lfn"
              /\ IF es[i - 1].order = 1 THEN IsEntry(es[i])
                 ELSE es[i].kind = "lfn" /\ es[i].order = es[i - 1].order - 1
<1>1. Len(es) \in Nat /\ i \in 1 .. Len(es) /\ \A j \in 1 .. i : es[j].kind # "end"
  BY DEF Live, IsDirectory
<1>2. i \in Nat /\ i >= 1 /\ i <= Len(es) /\ es[i].kind # "end"
  BY <1>1
<1>3. \A j \in 1 .. i : j \in Live(es)
  BY <1>1 DEF Live, IsDirectory
<1>4. \A j \in Live(es) : es[j].kind = "lfn" => InOrder(es, j)
  BY DEF IsDirectory, Proper
<1>5. ASSUME es[i].kind = "lfn"
      PROVE  /\ es[i].order \in Orders /\ es[i].piece # Unset
             /\ IsLong(es, i) => es[i].piece \in Full
  <2>1. es[i].order \in Orders
    BY <1>5 DEF Live, IsDirectory
  <2> QED BY <1>4, <1>5, <2>1 DEF InOrder, IsLong
<1>6. ASSUME IsLong(es, i)
      PROVE  /\ i - 1 \in Live(es) /\ es[i - 1].kind = "lfn"
             /\ IF es[i - 1].order = 1 THEN IsEntry(es[i])
                ELSE es[i].kind = "lfn" /\ es[i].order = es[i - 1].order - 1
  <2>1. i - 1 \in 1 .. i /\ i - 1 < Len(es) /\ (i - 1) + 1 = i
    BY <1>2, <1>6 DEF IsLong
  <2>2. i - 1 \in Live(es) /\ es[i - 1].kind = "lfn"
    BY <1>3, <1>6, <2>1 DEF IsLong
  <2>3. InOrder(es, i - 1)
    BY <1>4, <2>2
  <2>4. IF es[i - 1].order = 1 THEN IsEntry(es[(i - 1) + 1])
        ELSE es[(i - 1) + 1].kind = "lfn" /\ es[(i - 1) + 1].order = es[i - 1].order - 1
    BY <2>1, <2>3 DEF InOrder
  <2> QED BY <2>1, <2>2, <2>4
<1> QED BY <1>2, <1>3, <1>5, <1>6

LEMMA ShortName ==
  ASSUME NEW es, IsDirectory(es), NEW i \in Present(es), ~IsLong(es, i)
  PROVE  Pieces(es, i) = {0}
<1>1. i \in Nat /\ i >= 1
  BY LfnFacts DEF Present
<1>2. ASSUME NEW m \in Pieces(es, i) PROVE m = 0
  <2>1. m \in 0 .. i - 1 /\ \A o \in 1 .. m : es[i - o].kind = "lfn"
    BY DEF Pieces
  <2>2. ASSUME m >= 1 PROVE FALSE
    <3>1. 1 \in 1 .. m /\ i > 1
      BY <1>1, <2>1, <2>2
    <3> QED BY <2>1, <3>1 DEF IsLong
  <2> QED BY <1>1, <2>1, <2>2
<1>3. 0 \in Pieces(es, i)
  BY <1>1 DEF Pieces
<1> QED BY <1>2, <1>3

(* A long name that begins m entries in front of the entry of its file.    *)
LongName(es, i, m) ==
  /\ m \in Orders /\ m < i
  /\ NameOf(es, i) = [o \in 1 .. m |-> es[i - o].piece]
  /\ \A o \in 1 .. m : /\ es[i - o].kind = "lfn" /\ es[i - o].order = o
                       /\ es[i - o].piece # Unset /\ (o < m => es[i - o].piece \in Full)
  /\ es[i - m].piece \notin Full
LEMMA LongNames ==
  ASSUME NEW es, IsDirectory(es), NamesEndIn(es), NEW i \in Present(es), IsLong(es, i)
  PROVE  Pieces(es, i) # {0} /\ \E m \in Nat : LongName(es, i, m)
<1>1. /\ i \in Live(es) /\ IsEntry(es[i]) /\ i \in Nat /\ i > 1 /\ i <= Len(es) /\ Len(es) \in Nat
      /\ \A j \in 1 .. i : j \in Live(es)
  BY LfnFacts DEF Present, IsLong, IsDirectory
<1>2. es[i].kind # "lfn"
  BY <1>1 DEF IsEntry
<1>3. es[i - 1].kind = "lfn" /\ es[i - 1].order = 1
  BY <1>1, <1>2, LfnFacts
<1> DEFINE T == Pieces(es, i)
           m == Max(T)
<1>4. 1 \in T
  BY <1>1, <1>3 DEF Pieces
<1>5. T \subseteq 0 .. i - 1 /\ i - 1 \in Nat
  BY <1>1 DEF Pieces
<1>6. m \in T /\ \A y \in T : y <= m
  <2> HIDE DEF T
  <2> QED BY <1>4, <1>5, MaxOf
<1>7. m \in 1 .. i - 1 /\ m \in Nat
  <2> HIDE DEF m, T
  <2> QED BY <1>4, <1>5, <1>6, <1>1
<1>8. \A o \in 1 .. m : es[i - o].kind = "lfn" /\ es[i - o].order = o
  BY <1>6 DEF Pieces
<1> HIDE DEF m
<1>9. NameOf(es, i) = [o \in 1 .. m |-> es[i - o].piece]
  BY <1>7 DEF NameOf, m
<1>10. ASSUME NEW o \in 1 .. m
       PROVE  /\ i - o \in Live(es) /\ i - o \in Nat
              /\ es[i - o].order \in Orders /\ es[i - o].piece # Unset
              /\ IsLong(es, i - o) => es[i - o].piece \in Full
  <2>1. i - o \in 1 .. i /\ i - o \in Nat
    BY <1>1, <1>7
  <2>2. i - o \in Live(es) /\ es[i - o].kind = "lfn"
    BY <1>1, <1>8, <2>1
  <2> QED BY <2>1, <2>2, LfnFacts
<1>11. m \in Orders
  BY <1>7, <1>8, <1>10
<1>12. ASSUME NEW o \in 1 .. m, o < m PROVE es[i - o].piece \in Full
  <2>1. o + 1 \in 1 .. m /\ i - (o + 1) = (i - o) - 1 /\ i - o > 1
    BY <1>1, <1>7, <1>12
  <2>2. IsLong(es, i - o)
    BY <1>8, <2>1 DEF IsLong
  <2> QED BY <1>10, <2>2
<1>13. es[i - m].piece \notin Full
  <2> DEFINE t == i - m
  <2>1. t \in Live(es) /\ t \in Nat /\ t >= 1 /\ es[t].kind = "lfn" /\ es[t].order = m
    BY <1>1, <1>7, <1>8, <1>10
  <2>2. ASSUME IsLong(es, t) PROVE FALSE
    <3>1. t > 1 /\ es[t - 1].kind = "lfn" /\ t - 1 \in Live(es)
      BY <2>1, <2>2, LfnFacts DEF IsLong
    <3>2. es[t - 1].order = m + 1
      <4>1. ~IsEntry(es[t])
        BY <2>1 DEF IsEntry
      <4>2. es[t].order = es[t - 1].order - 1
        BY <2>1, <2>2, <4>1, LfnFacts
      <4>3. es[t - 1].order \in Orders
        BY <3>1, LfnFacts
      <4>4. es[t - 1].order \in Int
        BY <4>3, CacheAssumption DEF Orders
      <4> QED BY <2>1, <4>2, <4>4, <1>7
    <3>3. m + 1 \in 0 .. i - 1 /\ i - (m + 1) = t - 1
      BY <1>1, <1>7, <3>1
    <3>4. ASSUME NEW o \in 1 .. m + 1 PROVE es[i - o].kind = "lfn" /\ es[i - o].order = o
      <4>1. o \in 1 .. m \/ o = m + 1
        BY <1>7
      <4> QED BY <1>8, <3>1, <3>2, <3>3, <4>1
    <3>5. m + 1 \in T
      BY <3>3, <3>4 DEF Pieces
    <3>6. m + 1 <= m
      <4> HIDE DEF T
      <4> QED BY <1>6, <3>5
    <3> QED BY <1>7, <3>6
  <2>3. t \in DOMAIN es
    BY <2>1 DEF Live
  <2> QED BY <2>1, <2>2, <2>3 DEF NamesEndIn, IsLong
<1>14. T # {0}
  BY <1>4
<1>15. m < i
  BY <1>1, <1>7
<1>16. LongName(es, i, m)
  BY <1>8, <1>9, <1>10, <1>11, <1>12, <1>13, <1>15 DEF LongName
<1> QED BY <1>7, <1>14, <1>16

(* What namecmp says of a name when the buffer begins with another one, or *)
(* with the same.                                                          *)
LEMMA NameFacts ==
  ASSUME NEW name, IsName(name)
  PROVE  /\ Len(name) \in Orders /\ Len(name) \in Nat /\ Len(name) >= 1
         /\ ORDERS \in Nat /\ Len(name) <= ORDERS
         /\ name = [o \in 1 .. Len(name) |-> name[o]]
         /\ \A o \in 1 .. Len(name) : name[o] # Unset /\ (o < Len(name) => name[o] \in Full)
BY CacheAssumption DEF IsName, Orders

LEMMA SameName ==
  ASSUME NEW name, IsName(name), NEW real, \A o \in 1 .. Len(name) : real[o] = name[o],
         name[Len(name)] \notin Full, Inner.has_lfn
  PROVE  namecmp(name, real) = {TRUE}
<1>1. ~ \E o \in 1 .. Len(name) : real[o] # Unset /\ real[o] # name[o]
  OBVIOUS
<1>2. ~ \E o \in 1 .. Len(name) : real[o] = Unset
  BY NameFacts
<1> QED BY <1>1, <1>2 DEF namecmp

LEMMA OtherName ==
  ASSUME NEW name, IsName(name), NEW real,
         NEW o \in 1 .. Len(name), real[o] # Unset, real[o] # name[o]
  PROVE  namecmp(name, real) = {FALSE}
BY DEF namecmp

LEMMA LongerName ==
  ASSUME NEW name, IsName(name), NEW real, \A o \in 1 .. Len(name) : real[o] = name[o],
         name[Len(name)] \in Full, Inner.has_lfn,
         Len(name) < ORDERS, real[Len(name) + 1] # Unset
  PROVE  namecmp(name, real) = {FALSE}
<1>1. ~ \E o \in 1 .. Len(name) : real[o] # Unset /\ real[o] # name[o]
  OBVIOUS
<1>2. ~ \E o \in 1 .. Len(name) : real[o] = Unset
  BY NameFacts
<1> QED BY <1>1, <1>2 DEF namecmp

(* An entry with a long name that the buffer holds: the answer is right.   *)
Holds(real, es, i, m) == \A o \in 1 .. m : real[o] = es[i - o].piece
LEMMA LongCompared ==
  ASSUME NEW name, IsName(name), NEW es, NEW i \in Nat, NEW m \in Nat, LongName(es, i, m),
         NEW real, Holds(real, es, i, m), Inner.has_lfn
  PROVE  /\ NameOf(es, i) = name => namecmp(name, real) = {TRUE}
         /\ NameOf(es, i) # name => namecmp(name, real) = {FALSE}
<1> DEFINE n == Len(name)
           w == [o \in 1 .. m |-> es[i - o].piece]
<1>1. /\ n \in Nat /\ n >= 1 /\ ORDERS \in Nat /\ n <= ORDERS
      /\ name = [o \in 1 .. n |-> name[o]]
      /\ \A o \in 1 .. n : name[o] # Unset /\ (o < n => name[o] \in Full)
  BY NameFacts
<1>2. /\ NameOf(es, i) = w /\ m \in Nat /\ m >= 1 /\ m <= ORDERS
      /\ \A o \in 1 .. m : w[o] # Unset /\ (o < m => w[o] \in Full) /\ real[o] = w[o]
      /\ w[m] \notin Full
  BY CacheAssumption DEF LongName, Orders, Holds
<1> HIDE DEF w
<1>3. ASSUME w = name PROVE namecmp(name, real) = {TRUE}
  <2>1. Len(name) = m
    <3>1. DOMAIN w = 1 .. m /\ DOMAIN name = 1 .. n
      BY <1>1 DEF w
    <3>2. 1 .. m = 1 .. n
      BY <1>3, <3>1
    <3> HIDE DEF n
    <3>3. m \in 1 .. n /\ n \in 1 .. m
      BY <1>1, <1>2, <3>2
    <3>4. m = n
      BY <1>1, <1>2, <3>3
    <3> QED BY <3>4 DEF n
  <2>2. name[m] \notin Full
    BY <1>2, <1>3
  <2>3. \A o \in 1 .. m : real[o] = name[o]
    BY <1>2, <1>3
  <2> QED BY <2>1, <2>2, <2>3, SameName
<1>4. ASSUME w # name PROVE namecmp(name, real) = {FALSE}
  <2>1. CASE \E o \in 1 .. n : o <= m /\ w[o] # name[o]
    <3>1. PICK o \in 1 .. n : o <= m /\ w[o] # name[o]
      BY <2>1
    <3>2. o \in 1 .. m
      BY <3>1, <1>1, <1>2
    <3>3. real[o] # Unset /\ real[o] # name[o]
      BY <1>2, <3>1, <3>2
    <3> QED BY <3>3, OtherName
  <2>2. CASE \A o \in 1 .. n : o <= m => w[o] = name[o]
    <3>1. ASSUME n = m PROVE FALSE
      <4>1. \A o \in 1 .. n : w[o] = name[o]
        BY <1>1, <1>2, <2>2, <3>1
      <4>2. w = [o \in 1 .. n |-> w[o]]
        BY <3>1 DEF w
      <4>3. w = name
        <5> HIDE DEF n
        <5> QED BY <1>1, <4>1, <4>2
      <4> QED BY <1>4, <4>3
    <3>2. ASSUME m < n PROVE FALSE
      <4>1. m \in 1 .. n /\ m <= m
        BY <1>1, <1>2, <3>2
      <4>2. w[m] = name[m] /\ name[m] \in Full
        BY <1>1, <2>2, <3>2, <4>1
      <4> QED BY <1>2, <4>2
    <3>3. CASE n < m
      <4>1. n \in 1 .. m /\ n \in 1 .. n /\ n <= m /\ n + 1 \in 1 .. m /\ n < ORDERS
        BY <1>1, <1>2, <3>3
      <4>2. name[n] \in Full
        BY <1>2, <2>2, <3>3, <4>1
      <4>3. \A o \in 1 .. n : real[o] = name[o]
        BY <1>1, <1>2, <2>2, <3>3
      <4>4. real[n + 1] # Unset
        BY <1>2, <4>1
      <4> QED BY <4>1, <4>2, <4>3, <4>4, LongerName
    <3>4. n = m \/ m < n \/ n < m
      <4> HIDE DEF n
      <4> QED BY <1>1, <1>2
    <3> QED BY <3>1, <3>2, <3>3, <3>4
  <2> QED BY <2>1, <2>2
<1> QED BY <1>2, <1>3, <1>4

(* The answer for the entry that is looked at.                             *)
LEMMA Compared ==
  ASSUME NEW es, IsDirectory(es), NamesEndIn(es), NEW i \in Present(es),
         Inner.has_lfn <=> IsLong(es, i), Entry = es[i],
         \A j \in 1 .. i - 1 : (\A l \in j .. i - 1 : es[l].kind = "lfn") =>
           Inner.name_buf[es[j].order] = es[j].piece,
         NEW name, IsName(name), i \notin Mistakable(es, name)
  PROVE  /\ i \in Named(es, name) => namecmp(name, ActualName) = {TRUE}
         /\ i \notin Named(es, name) => namecmp(name, ActualName) = {FALSE}
<1>1. i \in Nat
  BY LfnFacts DEF Present
<1>2. CASE IsLong(es, i)
  <2>1. Pieces(es, i) # {0}
    BY <1>2, LongNames
  <2>2. PICK m \in Nat : LongName(es, i, m)
    BY <1>2, LongNames
  <2>3. Inner.has_lfn /\ ActualName = Inner.name_buf
    BY <1>2 DEF ActualName
  <2>4. Holds(ActualName, es, i, m)
    <3>1. SUFFICES ASSUME NEW o \in 1 .. m PROVE ActualName[o] = es[i - o].piece
      BY DEF Holds
    <3>2. m < i /\ \A x \in 1 .. m : es[i - x].kind = "lfn" /\ es[i - x].order = x
      BY <2>2 DEF LongName
    <3>3. i - o \in 1 .. i - 1
      BY <1>1, <3>2
    <3>4. ASSUME NEW l \in i - o .. i - 1 PROVE es[l].kind = "lfn"
      <4>1. i - l \in 1 .. m /\ i - (i - l) = l
        BY <1>1, <3>2
      <4> QED BY <3>2, <4>1
    <3>5. Inner.name_buf[es[i - o].order] = es[i - o].piece
      BY <3>3, <3>4
    <3> QED BY <2>3, <3>2, <3>5
  <2>5. i \in Named(es, name) <=> NameOf(es, i) = name
    BY <2>1 DEF Named
  <2>6. /\ NameOf(es, i) = name => namecmp(name, ActualName) = {TRUE}
        /\ NameOf(es, i) # name => namecmp(name, ActualName) = {FALSE}
    <3>1. PICK real : real = ActualName
      OBVIOUS
    <3>2. i \in Nat /\ m \in Nat /\ IsName(name) /\ LongName(es, i, m) /\ Inner.has_lfn
      BY <1>1, <2>2, <2>3
    <3>3. Holds(real, es, i, m)
      BY <2>4, <3>1
    <3>4. /\ NameOf(es, i) = name => namecmp(name, real) = {TRUE}
          /\ NameOf(es, i) # name => namecmp(name, real) = {FALSE}
      BY <3>2, <3>3, LongCompared
    <3> QED BY <3>1, <3>4
  <2> QED BY <2>5, <2>6
<1>3. CASE ~IsLong(es, i)
  <2>1. Pieces(es, i) = {0}
    BY <1>3, ShortName
  <2>2. i \notin Named(es, name)
    BY <2>1 DEF Named
  <2>3. ~Inner.has_lfn /\ <<Entry.name, name[1]>> \notin Starts
    BY <1>3, <2>1 DEF Mistakable
  <2>4. namecmp(name, ActualName) = {FALSE}
    BY <2>3 DEF namecmp
  <2> QED BY <2>2, <2>4
<1> QED BY <1>2, <1>3

-----------------------------------------------------------------------------
(* Where a path leads, name by name.                                       *)
Step(d, x, name) ==
  IF x = NoEntry \/ x.kind # "directory" THEN NoEntry
  ELSE LET es == d.entries[x.cluster]
           is == Named(es, name)
       IN  IF is = {} THEN NoEntry ELSE es[CHOOSE i \in is : TRUE]
Places(d) == {Root(d), NoEntry} \cup
  UNION {{d.entries[c][i] : i \in Present(d.entries[c])} : c \in DOMAIN d.entries}

LEMMA PlaceFacts ==
  ASSUME NEW d \in Disks, NEW x \in Places(d), x.kind = "directory"
  PROVE  x.cluster \in DOMAIN d.entries
<1>1. CASE x = Root(d)
  BY <1>1, NamesAssumption DEF Root
<1>2. CASE x = NoEntry
  BY <1>2 DEF NoEntry
<1>3. CASE \E c \in DOMAIN d.entries : \E i \in Present(d.entries[c]) : x = d.entries[c][i]
  BY <1>3, NamesAssumption
<1> QED BY <1>1, <1>2, <1>3 DEF Places

LEMMA StepFacts ==
  ASSUME NEW d \in Disks, NEW x \in Places(d), NEW name
  PROVE  Step(d, x, name) \in Places(d)
<1>1. CASE x = NoEntry \/ x.kind # "directory"
  BY <1>1 DEF Step, Places
<1>2. CASE ~(x = NoEntry \/ x.kind # "directory")
  <2> DEFINE es == d.entries[x.cluster]
             is == Named(es, name)
  <2>1. x.cluster \in DOMAIN d.entries
    BY <1>2, PlaceFacts
  <2>2. is \subseteq Present(es)
    BY DEF Named
  <2>3. Step(d, x, name) = IF is = {} THEN NoEntry ELSE es[CHOOSE i \in is : TRUE]
    BY <1>2 DEF Step
  <2>4. CASE is = {}
    BY <2>3, <2>4 DEF Places
  <2>5. CASE is # {}
    <3>1. PICK i \in is : i = CHOOSE j \in is : TRUE
      <4> HIDE DEF is
      <4> QED BY <2>5
    <3>2. Step(d, x, name) = es[i]
      BY <2>3, <2>5, <3>1
    <3>3. i \in Present(es)
      BY <2>2, <3>1
    <3> QED BY <2>1, <3>2, <3>3 DEF Places
  <2> QED BY <2>4, <2>5
<1> QED BY <1>1, <1>2

LEMMA ReachedSteps ==
  ASSUME NEW d \in Disks, NEW p
  PROVE  /\ Reached(d, p)[0] = Root(d)
         /\ \A k \in Nat : /\ Reached(d, p)[k] \in Places(d)
                           /\ Reached(d, p)[k + 1] = Step(d, Reached(d, p)[k], p[k + 1])
<1> DEFINE g == [k \in Nat |-> [x \in Places(d) |-> Step(d, x, p[k + 1])]]
           Body(t) == [k \in Nat |->
             IF k = 0 THEN Root(d)
             ELSE IF t[k - 1] = NoEntry \/ t[k - 1].kind # "directory" THEN NoEntry
             ELSE LET es == d.entries[t[k - 1].cluster]
                      is == Named(es, p[k])
                  IN  IF is = {} THEN NoEntry ELSE es[CHOOSE i \in is : TRUE]]
           Short(t) == [k \in Nat |-> IF k = 0 THEN Root(d) ELSE Step(d, t[k - 1], p[k])]
<1>1. Root(d) \in Places(d)
  BY DEF Places
<1>2. g \in [Nat -> [Places(d) -> Places(d)]]
  BY StepFacts
<1>3. PICK s \in [Nat -> Places(d)] : Iterates(s, Root(d), g)
  <2> HIDE DEF g
  <2> QED BY <1>1, <1>2, Recursion
<1>4. s[0] = Root(d) /\ \A k \in Nat : s[k + 1] = Step(d, s[k], p[k + 1]) /\ s[k] \in Places(d)
  BY <1>3 DEF Iterates
<1>5. \A t : Body(t) = Short(t)
  BY DEF Step
<1> HIDE DEF Body
<1>6. s = Short(s)
  <2>1. ASSUME NEW k \in Nat PROVE s[k] = Short(s)[k]
    <3>1. CASE k = 0
      BY <3>1, <1>4
    <3>2. CASE k # 0
      <4>1. k - 1 \in Nat /\ k = (k - 1) + 1
        BY <3>2
      <4>2. s[k] = Step(d, s[k - 1], p[k])
        BY <4>1, <1>4
      <4> QED BY <4>2, <3>2
    <3> QED BY <3>1, <3>2
  <2> QED BY <2>1
<1> DEFINE t == Reached(d, p)
<1>7. t = Short(t)
  <2>1. t = CHOOSE u : u = Body(u)
    BY DEF Reached, Body
  <2>2. s = Body(s)
    BY <1>5, <1>6
  <2>3. t = Body(t)
    <3> HIDE DEF t
    <3> QED BY <2>1, <2>2
  <2> HIDE DEF t
  <2> QED BY <1>5, <2>3
<1> HIDE DEF t
<1>8. t[0] = Root(d)
  BY <1>7
<1>9. ASSUME NEW k \in Nat PROVE t[k + 1] = Step(d, t[k], p[k + 1])
  <2>1. k + 1 \in Nat /\ k + 1 # 0 /\ (k + 1) - 1 = k
    OBVIOUS
  <2> QED BY <1>7, <2>1
<1>10. \A k \in Nat : t[k] \in Places(d)
  <2> DEFINE T == {k \in Nat : t[k] \notin Places(d)}
  <2> SUFFICES ASSUME T # {} PROVE FALSE
    OBVIOUS
  <2>1. PICK k \in T : \A y \in T : k <= y
    <3>1. T \subseteq Nat
      OBVIOUS
    <3> HIDE DEF T
    <3> QED BY <3>1, Least
  <2>2. k # 0
    BY <2>1, <1>1, <1>8
  <2>3. k - 1 \in Nat /\ t[k - 1] \in Places(d) /\ k = (k - 1) + 1
    BY <2>1, <2>2
  <2>4. t[k] = Step(d, t[k - 1], p[k])
    BY <2>3, <1>9
  <2> QED BY <2>1, <2>3, <2>4, StepFacts
<1> QED BY <1>8, <1>9, <1>10 DEF t

(* A path that leads to the end leads through directories.                 *)
LEMMA OnTheWay ==
  ASSUME NEW d \in Disks, NEW p, NEW n \in Nat, Reached(d, p)[n] # NoEntry,
         NEW k \in Nat, k < n
  PROVE  /\ Reached(d, p)[k].kind = "directory"
         /\ Reached(d, p)[k].cluster \in DOMAIN d.entries
         /\ Reached(d, p)[k + 1] # NoEntry
<1> DEFINE t == Reached(d, p)
           T == {m \in Nat : k <= m /\ m < n /\ t[m + 1] # NoEntry}
<1>1. \A m \in Nat : t[m + 1] = Step(d, t[m], p[m + 1]) /\ t[m] \in Places(d)
  BY ReachedSteps
<1> HIDE DEF t
<1>2. ASSUME NEW m \in Nat, t[m + 1] # NoEntry
      PROVE  t[m] # NoEntry /\ t[m].kind = "directory"
  BY <1>1, <1>2 DEF Step
<1>3. n - 1 \in T
  <2>1. n - 1 \in Nat /\ (n - 1) + 1 = n /\ k <= n - 1
    OBVIOUS
  <2> QED BY <2>1 DEF t
<1>4. PICK m \in T : \A y \in T : m <= y
  <2>1. T \subseteq Nat
    OBVIOUS
  <2> HIDE DEF T
  <2> QED BY <1>3, <2>1, Least
<1>5. m = k
  <2>1. SUFFICES ASSUME m # k PROVE FALSE
    OBVIOUS
  <2>2. m - 1 \in Nat /\ (m - 1) + 1 = m /\ k <= m - 1 /\ m - 1 < n
    BY <1>4, <2>1
  <2>3. t[m] # NoEntry
    BY <1>2, <1>4
  <2>4. m - 1 \in T
    BY <2>2, <2>3
  <2> HIDE DEF T
  <2>5. m <= m - 1
    BY <1>4, <2>4
  <2> QED BY <2>2, <2>5
<1>6. t[k + 1] # NoEntry
  BY <1>4, <1>5
<1> QED BY <1>1, <1>2, <1>6, PlaceFacts DEF t

-----------------------------------------------------------------------------
(* A search.  Its directory is the one that was read: no other has the     *)
(* same sectors.                                                           *)
LEMMA TimesOnce ==
  ASSUME NEW p \in Nat \ {0}, NEW x \in Int, NEW y \in Int, x * p = y * p PROVE x = y
OBVIOUS

LEMMA EntriesRead ==
  ASSUME disk \in Disks, NEW c \in DOMAIN disk.entries
  PROVE  EntriesIn(Sectors(disk.bpb.sectors_per_cluster, SectorOf(disk.bpb, c))) = disk.entries[c]
<1> DEFINE b == disk.bpb
           p == b.sectors_per_cluster
           block_ == Sectors(p, SectorOf(b, c))
<1>1. p \in Nat \ {0} /\ DOMAIN disk.entries \subseteq DOMAIN disk.fat
      /\ \A x \in DOMAIN disk.fat : SectorOf(b, x) \in Int /\ x \in Int
  <2>1. \A x \in DOMAIN disk.fat : x \in Int
    <3>1. DOMAIN disk.fat = 0 .. ENTRIES * disk.bpb.sectors_per_fat - 1
      BY DiskFacts
    <3> QED BY <3>1
  <2> QED BY <2>1, ClusterSectors, NamesAssumption
<1>2. ASSUME NEW e \in DOMAIN disk.entries, block_ = ClusterOf(b, e) PROVE e = c
  <2>1. SectorOf(b, e) \in Int /\ SectorOf(b, c) \in Int /\ e \in Int /\ c \in Int
    BY <1>1
  <2>2. 1 \in 1 .. p
    BY <1>1
  <2>3. SectorOf(b, e) = SectorOf(b, c)
    <3> DEFINE s == SectorOf(b, e)
               t == SectorOf(b, c)
    <3>1. Sectors(p, t) = Sectors(p, s)
      BY <1>2 DEF ClusterOf
    <3> HIDE DEF p, s, t
    <3>2. Sectors(p, t)[1] = t + 1 - 1 /\ Sectors(p, s)[1] = s + 1 - 1
      BY <2>2 DEF Sectors
    <3> QED BY <2>1, <3>1, <3>2 DEF s, t
  <2>4. (e - 2) * p = (c - 2) * p
    <3> DEFINE u == (e - 2) * p
               v == (c - 2) * p
               a == DataStart(b)
    <3>1. u \in Int /\ v \in Int
      BY <1>1, <2>1
    <3>2. a + u = a + v
      BY <2>3 DEF SectorOf
    <3>3. a \in Int
      <4>1. b.reserved \in Nat /\ b.sectors_per_fat \in Nat /\ FatStart(b) = PartStart + b.reserved
            /\ PartStart \in Nat
        BY DiskFacts
      <4>2. b.fat_count \in Nat
        <5>1. b \in [Geometry -> Nat] /\ "fat_count" \in Geometry
          BY DisksAssumption DEF Geometry
        <5> QED BY <5>1
      <4>3. b.fat_count * b.sectors_per_fat \in Nat
        BY <4>1, <4>2
      <4> QED BY <4>1, <4>3 DEF DataStart
    <3> HIDE DEF a, u, v
    <3>4. u = v
      BY <3>1, <3>2, <3>3
    <3> QED BY <3>4 DEF u, v
  <2>5. e - 2 = c - 2
    <3>1. e - 2 \in Int /\ c - 2 \in Int
      BY <2>1
    <3> HIDE DEF p
    <3> QED BY <1>1, <2>4, <3>1, TimesOnce
  <2> QED BY <2>1, <2>5
<1>3. block_ = ClusterOf(b, c)
  BY DEF ClusterOf
<1> HIDE DEF block_
<1>4. (CHOOSE e \in DOMAIN disk.entries : block_ = ClusterOf(disk.bpb, e)) = c
  BY <1>2, <1>3
<1>5. EntriesIn(block_) = disk.entries[c]
  BY <1>3, <1>4 DEF EntriesIn
<1> QED BY <1>5 DEF block_

LEMMA DirectoryOf ==
  ASSUME disk \in Disks, NEW c \in DOMAIN disk.entries
  PROVE  IsDirectory(disk.entries[c]) /\ (NamesEnd => NamesEndIn(disk.entries[c]))
<1>1. /\ Len(disk.entries[c]) \in Nat /\ DOMAIN disk.entries[c] = 1 .. Len(disk.entries[c])
      /\ \A i \in DOMAIN disk.entries[c] :
           disk.entries[c][i].kind = "lfn" => disk.entries[c][i].order \in Orders
  BY DisksAssumption
<1>2. Proper(disk.entries[c])
  BY NamesAssumption
<1> QED BY <1>1, <1>2 DEF IsDirectory, NamesEnd, NamesEndIn

(* The loop over its entries: one that is not the one goes by.             *)
LEMMA LookedBegins ==
  ASSUME NEW d, d.i = 1, d.has_lfn = FALSE, NEW name PROVE Looked(d, d.entries, name)
BY DEF Looked

LEMMA LfnGoesBy ==
  ASSUME NEW d, NEW es, NEW name, IsDirectory(es), Looked(d, es, name),
         d.i \in Live(es), es[d.i].kind = "lfn", DOMAIN d.name_buf = Orders,
         NEW e, e.entries = d.entries, e.i = d.i + 1, e.has_lfn = TRUE,
         e.name_buf = [d.name_buf EXCEPT ![es[d.i].order] = es[d.i].piece]
  PROVE  Looked(e, es, name)
<1> DEFINE i == d.i
<1>1. i \in Nat /\ i >= 1 /\ \A j \in 1 .. i : j \in Live(es)
  BY LfnFacts
<1>2. i \notin Named(es, name)
  BY DEF Named, Present, IsEntry
<1>3. \A j \in 1 .. i : j \in Live(es) /\ j \notin Named(es, name)
  <2>1. \A j \in 1 .. i - 1 : j \in Live(es) /\ j \notin Named(es, name)
    BY DEF Looked
  <2> QED BY <1>1, <1>2, <2>1
<1>4. ASSUME NEW j \in 1 .. i, \A l \in j .. i : es[l].kind = "lfn"
      PROVE  es[j].order = es[i].order + (i - j) /\ e.name_buf[es[j].order] = es[j].piece
  <2>1. es[i].order \in Nat /\ es[i].order \in Orders /\ es[j].order \in Orders
    <3>1. es[j].kind = "lfn" /\ j \in Live(es)
      BY <1>1, <1>4
    <3>2. es[i].order \in Orders /\ es[j].order \in Orders
      BY <3>1, LfnFacts
    <3> QED BY <3>2, CacheAssumption DEF Orders
  <2>2. CASE j = i
    BY <1>1, <2>1, <2>2
  <2>3. CASE j # i
    <3>1. j \in 1 .. i - 1 /\ i > 1 /\ i - 1 \in j .. i
      BY <1>1, <2>3
    <3>2. \A l \in j .. i - 1 : es[l].kind = "lfn"
      BY <1>1, <1>4
    <3>3. es[j].order = es[i - 1].order + (i - 1 - j) /\ d.name_buf[es[j].order] = es[j].piece
      BY <3>1, <3>2 DEF Looked
    <3>4. es[i].order = es[i - 1].order - 1 /\ es[i - 1].order \in Orders
      <4>1. IsLong(es, i) /\ ~IsEntry(es[i])
        BY <1>4, <3>1 DEF IsLong, IsEntry
      <4>2. es[i - 1].kind = "lfn" /\ i - 1 \in Live(es)
        BY <4>1, LfnFacts
      <4>3. es[i - 1].order \in Orders
        BY <4>2, LfnFacts
      <4> QED BY <4>1, <4>3, LfnFacts
    <3>5. es[i - 1].order \in Nat
      BY <3>4, CacheAssumption DEF Orders
    <3> HIDE DEF i
    <3>6. es[j].order = es[i].order + (i - j) /\ es[j].order # es[i].order
      BY <1>1, <2>1, <3>1, <3>3, <3>4, <3>5
    <3> QED BY <2>1, <3>3, <3>6 DEF i
  <2> QED BY <2>2, <2>3
<1>5. e.i - 1 = i /\ (e.i > 1 <=> TRUE)
  BY <1>1
<1> QED BY <1>3, <1>4, <1>5 DEF Looked

LEMMA OtherGoesBy ==
  ASSUME NEW d, NEW es, NEW name, IsDirectory(es), Looked(d, es, name),
         d.i \in Live(es), es[d.i].kind # "lfn", d.i \notin Named(es, name),
         NEW e, e.entries = d.entries, e.i = d.i + 1, ~e.has_lfn
  PROVE  Looked(e, es, name)
<1> DEFINE i == d.i
<1>1. i \in Nat /\ i >= 1
  BY LfnFacts
<1>2. \A j \in 1 .. i : j \in Live(es) /\ j \notin Named(es, name)
  <2>1. \A j \in 1 .. i - 1 : j \in Live(es) /\ j \notin Named(es, name)
    BY DEF Looked
  <2> QED BY <1>1, <2>1
<1>3. e.i - 1 = i /\ e.entries = es
  BY <1>1 DEF Looked
<1>4. \A j \in 1 .. i : i \in j .. i
  BY <1>1
<1> QED BY <1>2, <1>3, <1>4 DEF Looked

(* What is not in use but has been a piece of a name is behind none.       *)
LEMMA NotBehindLfn ==
  ASSUME NEW d, NEW es, NEW name, IsDirectory(es), Looked(d, es, name),
         d.i \in Live(es), ~IsEntry(es[d.i]), es[d.i].kind # "lfn"
  PROVE  ~d.has_lfn
<1>1. ~IsLong(es, d.i)
  BY LfnFacts
<1> QED BY <1>1 DEF Looked, IsLong

(* A path, and what is left of it.                                        *)
LEMMA PathFacts ==
  ASSUME NEW p \in Paths
  PROVE  /\ Len(p) \in Nat \ {0} /\ DOMAIN p = 1 .. Len(p) /\ \A k \in DOMAIN p : IsName(p[k])
         /\ p = [j \in 1 .. Len(p) - 0 |-> p[0 + j]]
         /\ \A k \in 0 .. Len(p) - 1 : \A q : q = [j \in 1 .. Len(p) - k |-> p[k + j]] =>
              /\ q \in Seq({p[j] : j \in DOMAIN p}) /\ Len(q) = Len(p) - k
              /\ \A j \in 1 .. Len(q) : q[j] = p[k + j]
<1>1. Len(p) \in Nat \ {0} /\ p = [k \in 1 .. Len(p) |-> p[k]] /\ \A k \in DOMAIN p : IsName(p[k])
  BY NamesAssumption
<1> DEFINE n == Len(p)
           f == [k \in 1 .. n |-> p[k]]
<1>2. DOMAIN p = 1 .. n
  <2>1. DOMAIN f = 1 .. n
    OBVIOUS
  <2> QED BY <1>1, <2>1
<1>3. p = [j \in 1 .. n - 0 |-> p[0 + j]]
  <2>1. \A j \in 1 .. n : 0 + j = j
    OBVIOUS
  <2>2. n - 0 = n
    BY <1>1
  <2>3. f = [j \in 1 .. n - 0 |-> p[0 + j]]
    BY <2>1, <2>2
  <2> QED BY <1>1, <2>3
<1>4. ASSUME NEW k \in 0 .. n - 1, NEW q, q = [j \in 1 .. n - k |-> p[k + j]]
      PROVE  /\ q \in Seq({p[j] : j \in DOMAIN p}) /\ Len(q) = n - k
             /\ \A j \in 1 .. Len(q) : q[j] = p[k + j]
  <2> DEFINE S == {p[j] : j \in DOMAIN p}
             m == n - k
  <2>1. n \in Nat /\ m \in Nat
    BY <1>1
  <2>2. ASSUME NEW j \in 1 .. m PROVE p[k + j] \in S
    <3>1. k + j \in DOMAIN p
      BY <1>2, <2>1
    <3> QED BY <3>1
  <2> HIDE DEF S
  <2>3. q = [j \in 1 .. m |-> p[k + j]]
    BY <1>4
  <2> HIDE DEF m
  <2>4. q \in [1 .. m -> S]
    BY <2>2, <2>3
  <2>5. q \in Seq(S) /\ Len(q) = m
    BY <2>1, <2>4
  <2>6. \A j \in 1 .. Len(q) : q[j] = p[k + j]
    BY <2>3, <2>5
  <2> QED BY <2>5, <2>6 DEF m, S
<1> QED BY <1>1, <1>2, <1>3, <1>4

(* Where a search leads, and that it says so of every state of the search. *)
Here(k) == Reached(disk, goal)[k]
LEMMA WhereItLeads ==
  ASSUME IInv, goal \in Paths, Leads, NEW k \in 0 .. Len(goal) - 1
  PROVE  /\ Here(k).cluster \in DOMAIN disk.entries
         /\ IsDirectory(disk.entries[Here(k).cluster])
         /\ NamesEndIn(disk.entries[Here(k).cluster])
         /\ IsName(goal[k + 1])
         /\ Named(disk.entries[Here(k).cluster], goal[k + 1]) # {}
         /\ \A i \in Named(disk.entries[Here(k).cluster], goal[k + 1]) :
              /\ disk.entries[Here(k).cluster][i] = Reached(disk, goal)[k + 1]
              /\ \A j \in Mistakable(disk.entries[Here(k).cluster], goal[k + 1]) : j > i
<1> DEFINE x  == Here(k)
           es == disk.entries[x.cluster]
           name == goal[k + 1]
           is == Named(es, name)
<1>1. disk \in Disks
  BY DiskIsOne
<1>2. Len(goal) \in Nat /\ k \in Nat /\ k < Len(goal) /\ k + 1 \in 1 .. Len(goal)
      /\ DOMAIN goal = 1 .. Len(goal)
  BY PathFacts
<1>3. Reached(disk, goal)[Len(goal)] # NoEntry /\ NamesEnd
  BY DEF Leads, Resolved
<1>4. /\ x.kind = "directory" /\ x.cluster \in DOMAIN disk.entries
      /\ Reached(disk, goal)[k + 1] # NoEntry
  BY <1>1, <1>2, <1>3, OnTheWay DEF Here
<1>5. IsDirectory(es) /\ NamesEndIn(es)
  BY <1>1, <1>3, <1>4, DirectoryOf
<1>6. IsName(name)
  BY <1>2, PathFacts
<1>7. Reached(disk, goal)[k + 1] = Step(disk, x, name)
  BY <1>1, <1>2, ReachedSteps DEF Here
<1>8. is # {} /\ Step(disk, x, name) = es[CHOOSE i \in is : TRUE]
  BY <1>4, <1>7 DEF Step
<1>9. ASSUME NEW i \in is PROVE es[i] = Reached(disk, goal)[k + 1]
  <2>1. PICK j \in is : j = CHOOSE m \in is : TRUE
    <3> HIDE DEF is
    <3> QED BY <1>8
  <2>2. i \in Present(es) /\ j \in Present(es) /\ NameOf(es, i) = NameOf(es, j)
    BY DEF Named
  <2>3. i = j
    BY <1>5, <2>2 DEF IsDirectory, Proper
  <2> QED BY <1>7, <1>8, <2>1, <2>3
<1>10. \A i \in is, j \in Mistakable(es, name) : j > i
  BY DEF Leads, Here
<1> QED BY <1>4, <1>5, <1>6, <1>8, <1>9, <1>10

LEMMA SearchFacts ==
  ASSUME IInv, pc \in LookingPcs, call # "dirent"
  PROVE  /\ goal \in Paths /\ Len(dirs) = IF pc = "scan" THEN 1 ELSE 0
         /\ \E k \in 0 .. Len(goal) - 1 :
              /\ path = [j \in 1 .. Len(goal) - k |-> goal[k + j]]
              /\ Len(path) = Len(goal) - k /\ \A j \in 1 .. Len(path) : path[j] = goal[k + j]
              /\ path \in Seq({goal[j] : j \in DOMAIN goal})
              /\ Leads => Found(k)
<1>1. /\ goal \in Paths /\ Len(dirs) = IF pc = "scan" THEN 1 ELSE 0
      /\ \E k \in 0 .. Len(goal) - 1 :
           path = [j \in 1 .. Len(goal) - k |-> goal[k + j]] /\ (Leads => Found(k))
  BY DEF IInv, SearchInv, LookingPcs, Leads
<1>2. PICK k \in 0 .. Len(goal) - 1 :
        path = [j \in 1 .. Len(goal) - k |-> goal[k + j]] /\ (Leads => Found(k))
  BY <1>1
<1>3. /\ path \in Seq({goal[j] : j \in DOMAIN goal}) /\ Len(path) = Len(goal) - k
      /\ \A j \in 1 .. Len(path) : path[j] = goal[k + j]
  BY <1>1, <1>2, PathFacts
<1> QED BY <1>1, <1>2, <1>3

LEMMA LeadsStays ==
  ASSUME disk' = disk, goal' = goal
  PROVE  (Leads' <=> Leads) /\ \A k : Here(k)' = Here(k)
BY DEF Leads, NamesEnd, Resolved, Here

LEMMA SearchStays ==
  ASSUME IInv, pc \in LookingPcs, call # "dirent", pc' \in LookingPcs,
         UNCHANGED <<disk, goal, path>>,
         Len(dirs') = IF pc' = "scan" THEN 1 ELSE 0,
         \A k \in 0 .. Len(goal) - 1 :
           Leads /\ Found(k) /\ Len(path) = Len(goal) - k /\ path[1] = goal[k + 1] => Found(k)'
  PROVE  SearchInv'
<1>1. goal \in Paths
  BY SearchFacts
<1>2. PICK k \in 0 .. Len(goal) - 1 :
        /\ path = [j \in 1 .. Len(goal) - k |-> goal[k + j]]
        /\ Len(path) = Len(goal) - k /\ \A j \in 1 .. Len(path) : path[j] = goal[k + j]
        /\ Leads => Found(k)
  BY SearchFacts
<1>3. Len(goal) \in Nat
  BY <1>1, NamesAssumption
<1>4. path[1] = goal[k + 1]
  <2>1. 1 \in 1 .. Len(path)
    BY <1>2, <1>3
  <2> QED BY <1>2, <2>1
<1>5. Leads' => Found(k)'
  BY <1>2, <1>4, LeadsStays
<1> QED BY <1>1, <1>2, <1>5 DEF SearchInv, Leads

LEMMA SearchOver ==
  ASSUME pc' \notin LookingPcs, Len(dirs') = 0 PROVE SearchInv'
BY DEF SearchInv, LookingPcs

LEMMA FrontLength ==
  ASSUME NEW S, NEW s \in Seq(S), s # <<>> PROVE Len(Front(s)) = Len(s) - 1
<1> DEFINE n == Len(s) - 1
<1>1. n \in Nat
  OBVIOUS
<1>2. Front(s) = SubSeq(s, 1, n)
  BY DEF Front
<1> HIDE DEF n
<1>3. Len(SubSeq(s, 1, n)) = n
  BY <1>1
<1> QED BY <1>2, <1>3 DEF n

(* The call that runs is the innermost, and in a search the only one.      *)
LEMMA InsideIs ==
  ASSUME IInv, pc = "scan", NEW d \in Enumerations
  PROVE  /\ Last(Inside(d)) = d /\ Len(Inside(d)) = Len(dirs)
         /\ Len(Front(dirs)) = Len(dirs) - 1
<1>1. dirs \in Seq(Enumerations) /\ dirs # <<>>
  BY DEF IInv, EntriesInv
<1>2. Front(dirs) \in Seq(Enumerations) /\ Len(Front(dirs)) = Len(dirs) - 1
  BY <1>1, FrontLast, FrontLength
<1>3. Inside(d) = Append(Front(dirs), d)
  BY DEF Inside
<1> DEFINE f == Front(dirs)
<1>4. f \in Seq(Enumerations) /\ Len(f) = Len(dirs) - 1 /\ Len(dirs) \in Nat
  BY <1>1, <1>2
<1> HIDE DEF f
<1>5. Len(Append(f, d)) = Len(f) + 1 /\ Append(f, d)[Len(f) + 1] = d
  BY <1>4
<1>6. Last(Append(f, d)) = d
  BY <1>5 DEF Last
<1> QED BY <1>2, <1>3, <1>4, <1>5, <1>6 DEF f

(* The entry of the loop in a search.                                      *)
LEMMA LookedAt ==
  ASSUME IInv, pc = "scan", More, Entry.kind # "end",
         NEW es, IsDirectory(es), NEW name, Looked(Inner, es, name)
  PROVE  Inner.i \in Live(es) /\ Entry = es[Inner.i] /\ Inner.entries = es
<1>1. Inner.entries = es /\ \A j \in 1 .. Inner.i - 1 : j \in Live(es)
  BY DEF Looked
<1>2. Inner.i \in Nat \ {0} /\ Inner.i \in DOMAIN es /\ Entry = es[Inner.i]
  BY <1>1, InnerFacts, EntryFacts
<1>3. \A j \in 1 .. Inner.i - 1 : es[j].kind # "end"
  BY <1>1, LfnFacts
<1>4. \A j \in 1 .. Inner.i : es[j].kind # "end"
  BY <1>2, <1>3
<1> QED BY <1>1, <1>2, <1>4 DEF Live

-----------------------------------------------------------------------------
(* The steps of a search.                                                  *)
LEMMA EnumerateStores ==
  ASSUME disk \in Disks, bpb = disk.bpb, NEW c \in DOMAIN disk.entries, Enumerate(c)
  PROVE  Stores(disk.bpb.sectors_per_cluster, SectorOf(disk.bpb, c))'
         \/ disk' # disk
<1> SUFFICES ASSUME disk' = disk
             PROVE  Stores(disk.bpb.sectors_per_cluster, SectorOf(disk.bpb, c))'
  OBVIOUS
<1>1. c \in DOMAIN disk.fat
  BY NamesAssumption
<1>2. PICK n \in Nat \ {0}, b \in Int :
        n = disk.bpb.sectors_per_cluster /\ b = SectorOf(disk.bpb, c) /\ b % LbaLimit = b
  BY <1>1, ClusterSectors
<1>3. ReadSectors(n, b)
  BY <1>2 DEF Enumerate
<1>4. Stores(n, b % LbaLimit)'
  BY <1>3, ReadStores
<1>5. Stores(n, b)'
  BY <1>2, <1>4
<1> QED BY <1>2, <1>5

LEMMA BpbIsRead == ASSUME IInv, pc \notin {"new", "mount"} PROVE bpb = disk.bpb
BY DEF IInv, CacheInv

LEMMA NoDirs ==
  ASSUME IInv, call # "dirent", pc # "scan" PROVE dirs = <<>> /\ Len(dirs) = 0
<1>1. Len(dirs) = 0 /\ dirs \in Seq(Enumerations)
  BY DEF IInv, SearchInv, EntriesInv
<1> QED BY <1>1

LEMMA SearchSearchInv ==
  ASSUME IInv, NEW f \in {"get_file_size", "get_file"}, NEW p \in Paths, pc = "idle", Search(f, p)
  PROVE  SearchInv'
<1>1. /\ call' = f /\ goal' = p /\ path' = p /\ pc' = "read directory"
      /\ UNCHANGED <<disk, dirs>> /\ Enumerate(bpb.root_cluster)
  BY DEF Search, Enumerate
<1>2. call = "none"
  BY DEF IInv, CallInv
<1>3. Len(dirs') = 0
  BY <1>1, <1>2, NoDirs
<1>4. Len(p) \in Nat \ {0}
  BY NamesAssumption
<1>5. Found(0)'
  <2>1. PICK c : c = disk.bpb.root_cluster
    OBVIOUS
  <2>2. disk \in Disks /\ bpb = disk.bpb /\ c \in DOMAIN disk.entries
    BY <2>1, DiskIsOne, BpbIsRead, NamesAssumption
  <2>3. Enumerate(c)
    BY <1>1, <2>1, <2>2
  <2>4. Stores(disk.bpb.sectors_per_cluster, SectorOf(disk.bpb, c))'
    BY <1>1, <2>2, <2>3, EnumerateStores
  <2>5. Reached(disk, p)[0] = Root(disk)
    BY <2>2, ReachedSteps
  <2>6. Reached(disk, p)[0].cluster = c
    BY <2>1, <2>5 DEF Root
  <2> QED BY <1>1, <2>4, <2>6 DEF Found
<1>6. 0 \in 0 .. Len(p) - 1 /\ p = [j \in 1 .. Len(p) - 0 |-> p[0 + j]]
  BY <1>4, PathFacts
<1> QED BY <1>1, <1>3, <1>5, <1>6 DEF SearchInv

LEMMA DirectoryReadSearchInv ==
  ASSUME IInv, DirectoryRead PROVE SearchInv'
<1> DEFINE d == [entries |-> EntriesIn(block), i |-> 1, has_lfn |-> FALSE,
                 name_buf |-> [o \in Orders |-> Unset]]
<1>1. /\ pc = "read directory" /\ at = "none" /\ pc' = "scan" /\ dirs' = Append(dirs, d)
      /\ UNCHANGED <<disk, goal, path, call>>
  BY DEF DirectoryRead, constant
<1>2. d.entries = EntriesIn(block) /\ d.i = 1 /\ d.has_lfn = FALSE
  OBVIOUS
<1> HIDE DEF d
<1>3. CASE call = "dirent"
  BY <1>1, <1>3 DEF SearchInv
<1>4. CASE call # "dirent"
  <2>1. dirs = <<>>
    BY <1>1, <1>4, NoDirs
  <2>2. Len(dirs') = 1 /\ Inner' = d
    <3>1. Append(<<>>, d) = <<d>> /\ Len(<<d>>) = 1 /\ <<d>>[1] = d
      OBVIOUS
    <3>2. dirs' = <<d>>
      BY <1>1, <2>1, <3>1
    <3> QED BY <3>1, <3>2 DEF Inner, Last
  <2>3. ASSUME NEW k \in 0 .. Len(goal) - 1, Leads, Found(k) PROVE Found(k)'
    <3>1. goal \in Paths /\ disk \in Disks
      BY <1>1, <1>4, SearchFacts, DiskIsOne DEF LookingPcs
    <3>2. Here(k).cluster \in DOMAIN disk.entries
      BY <2>3, <3>1, WhereItLeads
    <3>3. Stores(disk.bpb.sectors_per_cluster, SectorOf(disk.bpb, Here(k).cluster))
      BY <1>1, <2>3 DEF Found, Here
    <3>4. block = Sectors(disk.bpb.sectors_per_cluster, SectorOf(disk.bpb, Here(k).cluster))
      BY <1>1, <3>1, <3>3, ClusterSectors, ReadOver
    <3>5. d.entries = disk.entries[Here(k).cluster]
      BY <1>2, <3>1, <3>2, <3>4, EntriesRead
    <3>6. Looked(d, d.entries, goal[k + 1])
      BY <1>2, LookedBegins
    <3>7. Looked(d, disk.entries[Here(k).cluster], goal[k + 1])
      BY <3>5, <3>6
    <3> QED BY <1>1, <2>2, <3>7 DEF Found, Here
  <2> QED BY <1>1, <1>4, <2>2, <2>3, SearchStays DEF LookingPcs
<1> QED BY <1>3, <1>4

(* An entry that is passed, in whatever way, leaves the search in place.   *)
LEMMA PassedSearchInv ==
  ASSUME IInv, pc = "scan", call # "dirent", pc' = "scan", UNCHANGED <<disk, goal, path, call>>,
         NEW d, d \in Enumerations, dirs' = Inside(d),
         \A k \in 0 .. Len(goal) - 1 :
           Leads /\ Found(k) /\ path[1] = goal[k + 1] =>
             Looked(d, disk.entries[Here(k).cluster], goal[k + 1])
  PROVE  SearchInv'
<1>1. Inner' = d /\ Len(dirs') = Len(dirs)
  BY InsideIs DEF Inner
<1>2. Len(dirs) = 1
  BY DEF IInv, SearchInv
<1>3. ASSUME NEW k \in 0 .. Len(goal) - 1, Leads, Found(k), path[1] = goal[k + 1]
      PROVE  Found(k)'
  <2>1. Looked(d, disk.entries[Here(k).cluster], goal[k + 1])
    BY <1>3
  <2> QED BY <1>1, <2>1 DEF Found, Here
<1> QED BY <1>1, <1>2, <1>3, SearchStays DEF LookingPcs

LEMMA PassingSearchInv ==
  ASSUME IInv, LfnEntry \/ DeletedLfn \/ Skipped, call # "dirent" PROVE SearchInv'
<1>1. /\ pc = "scan" /\ pc' = "scan" /\ More /\ Entry.kind # "end" /\ ~IsEntry(Entry)
      /\ UNCHANGED <<disk, goal, path, call>>
  BY DEF LfnEntry, DeletedLfn, Skipped, Scan, scanned, constant, IsEntry
<1>2. ASSUME NEW k \in 0 .. Len(goal) - 1, Leads, Found(k)
      PROVE  /\ IsDirectory(disk.entries[Here(k).cluster])
             /\ Looked(Inner, disk.entries[Here(k).cluster], goal[k + 1])
             /\ Inner.i \in Live(disk.entries[Here(k).cluster])
             /\ Entry = disk.entries[Here(k).cluster][Inner.i]
             /\ Inner.i \notin Named(disk.entries[Here(k).cluster], goal[k + 1])
  <2>1. goal \in Paths
    BY <1>1, SearchFacts DEF LookingPcs
  <2>2. IsDirectory(disk.entries[Here(k).cluster])
    BY <1>2, <2>1, WhereItLeads
  <2>3. Looked(Inner, disk.entries[Here(k).cluster], goal[k + 1])
    BY <1>1, <1>2 DEF Found, Here
  <2>4. Inner.i \in Live(disk.entries[Here(k).cluster])
        /\ Entry = disk.entries[Here(k).cluster][Inner.i]
    BY <1>1, <2>2, <2>3, LookedAt
  <2>5. Inner.i \notin Named(disk.entries[Here(k).cluster], goal[k + 1])
    BY <1>1, <2>4 DEF Named, Present
  <2> QED BY <2>2, <2>3, <2>4, <2>5
<1>3. CASE LfnEntry
  <2> DEFINE n == [Inner.name_buf EXCEPT ![Place(Entry.order)] = Entry.piece]
             d == [Inner EXCEPT !.i = @ + 1, !.has_lfn = TRUE, !.name_buf = n]
  <2>1. Inner \in Enumerations /\ Entry.order \in Orders /\ Entry.piece \in NamePieces
    BY <1>1, <1>3, InnerFacts, EntryFacts DEF LfnEntry, Scan
  <2>2. n \in [Orders -> NamePieces] /\ DOMAIN Inner.name_buf = Orders
    BY <2>1 DEF Enumerations, Place
  <2>3. dirs' = Inside(d)
    <3>1. [Inner EXCEPT !.i = @ + 1, !.has_lfn = TRUE,
                        !.name_buf[Place(Entry.order)] = Entry.piece] = d
      BY SMT
    <3> HIDE DEF d
    <3> QED BY <1>3, <3>1 DEF LfnEntry
  <2>4. d \in Enumerations
    <3> HIDE DEF n
    <3> QED BY <1>1, <2>2, TurnOf
  <2>5. /\ d.entries = Inner.entries /\ d.i = Inner.i + 1 /\ d.has_lfn = TRUE
        /\ d.name_buf = [Inner.name_buf EXCEPT ![Entry.order] = Entry.piece]
    BY <2>1 DEF Enumerations, Place
  <2> HIDE DEF d
  <2>6. Entry.kind = "lfn"
    BY <1>3 DEF LfnEntry, Scan
  <2>7. ASSUME NEW k \in 0 .. Len(goal) - 1, Leads, Found(k)
        PROVE  Looked(d, disk.entries[Here(k).cluster], goal[k + 1])
    BY <1>2, <2>2, <2>5, <2>6, <2>7, LfnGoesBy
  <2> QED BY <1>1, <2>3, <2>4, <2>7, PassedSearchInv
<1>4. CASE DeletedLfn \/ Skipped
  <2> DEFINE d == IF DeletedLfn THEN [Inner EXCEPT !.i = @ + 1] ELSE Turn(Inner)
  <2>1. dirs' = Inside(d)
    BY <1>4 DEF DeletedLfn, Skipped
  <2>2. d \in Enumerations
    BY <1>1, TurnOf
  <2>3. /\ d.entries = Inner.entries /\ d.i = Inner.i + 1
        /\ d.has_lfn = FALSE \/ d.has_lfn = Inner.has_lfn
    BY <1>1, InnerFacts DEF Enumerations, Turn
  <2>4. Entry.kind # "lfn"
    BY <1>4 DEF DeletedLfn, Skipped, Scan
  <2> HIDE DEF d
  <2>5. ASSUME NEW k \in 0 .. Len(goal) - 1, Leads, Found(k)
        PROVE  Looked(d, disk.entries[Here(k).cluster], goal[k + 1])
    <3> DEFINE es == disk.entries[Here(k).cluster]
    <3>1. /\ IsDirectory(es) /\ Looked(Inner, es, goal[k + 1]) /\ Inner.i \in Live(es)
          /\ Entry = es[Inner.i] /\ Inner.i \notin Named(es, goal[k + 1])
      BY <1>2, <2>5
    <3> HIDE DEF es
    <3>2. ~Inner.has_lfn
      BY <1>1, <2>4, <3>1, NotBehindLfn
    <3>3. ~d.has_lfn
      BY <2>3, <3>2
    <3> QED BY <2>3, <2>4, <3>1, <3>3, OtherGoesBy DEF es
  <2> QED BY <1>1, <2>1, <2>2, <2>5, PassedSearchInv
<1> QED BY <1>3, <1>4

(* An entry that has a name: it is found if and only if it is the one.     *)
LEMMA TraversedSearchInv ==
  ASSUME IInv, NEW found \in BOOLEAN, Traversed(found) PROVE SearchInv'
<1>1. /\ pc = "scan" /\ call # "dirent" /\ More /\ IsEntry(Entry)
      /\ found \in namecmp(Head(path), ActualName)
      /\ UNCHANGED <<disk, goal, path, call>>
  BY DEF Traversed, Scan, scanned, constant, IsEntry
<1>2. ASSUME NEW k \in 0 .. Len(goal) - 1, Leads, Found(k), path[1] = goal[k + 1]
      PROVE  /\ IsDirectory(disk.entries[Here(k).cluster])
             /\ Looked(Inner, disk.entries[Here(k).cluster], goal[k + 1])
             /\ Inner.i \in Live(disk.entries[Here(k).cluster])
             /\ Entry = disk.entries[Here(k).cluster][Inner.i]
             /\ found <=> Inner.i \in Named(disk.entries[Here(k).cluster], goal[k + 1])
             /\ found => Entry = Reached(disk, goal)[k + 1]
  <2> DEFINE es == disk.entries[Here(k).cluster]
             name == goal[k + 1]
  <2>1. goal \in Paths
    BY <1>1, SearchFacts DEF LookingPcs
  <2>2. /\ IsDirectory(es) /\ NamesEndIn(es) /\ IsName(name) /\ Named(es, name) # {}
        /\ \A i \in Named(es, name) : /\ es[i] = Reached(disk, goal)[k + 1]
                                     /\ \A j \in Mistakable(es, name) : j > i
    BY <1>2, <2>1, WhereItLeads
  <2>3. Looked(Inner, es, name)
    BY <1>1, <1>2 DEF Found, Here
  <2> HIDE DEF es, name
  <2>4. Inner.i \in Live(es) /\ Entry = es[Inner.i]
    <3>1. Entry.kind # "end"
      BY <1>1 DEF IsEntry
    <3> QED BY <1>1, <2>2, <2>3, <3>1, LookedAt
  <2>5. Inner.i \in Present(es)
    BY <1>1, <2>4 DEF Present
  <2>6. /\ Inner.has_lfn <=> IsLong(es, Inner.i)
        /\ \A j \in 1 .. Inner.i - 1 : (\A l \in j .. Inner.i - 1 : es[l].kind = "lfn") =>
             Inner.name_buf[es[j].order] = es[j].piece
    BY <2>3 DEF Looked, IsLong
  <2>7. Inner.i \notin Mistakable(es, name)
    <3>1. PICK j \in Named(es, name) : j \in Live(es)
      BY <2>2 DEF Named, Present
    <3>2. j \in Nat /\ j >= 1 /\ Inner.i \in Nat
      BY <2>2, <2>4, <3>1, LfnFacts
    <3>3. j \notin 1 .. Inner.i - 1
      BY <2>3, <3>1 DEF Looked
    <3>4. ~(Inner.i > j) /\ j >= Inner.i
      BY <3>2, <3>3
    <3>5. Inner.i \in Mistakable(es, name) => Inner.i > j
      BY <2>2, <3>1
    <3> QED BY <3>4, <3>5
  <2>8. /\ Inner.i \in Named(es, name) => namecmp(name, ActualName) = {TRUE}
        /\ Inner.i \notin Named(es, name) => namecmp(name, ActualName) = {FALSE}
    BY <2>2, <2>4, <2>5, <2>6, <2>7, Compared
  <2>9. Head(path) = name
    BY <1>2 DEF name
  <2>10. found <=> Inner.i \in Named(es, name)
    BY <1>1, <2>8, <2>9
  <2> QED BY <2>2, <2>3, <2>4, <2>10 DEF es, name
<1>3. CASE found
  <2>1. pc' = "enumerated" /\ dirs' = Front(dirs) /\ found_entry' = Entry
    BY <1>3 DEF Traversed
  <2>2. Len(dirs') = 0
    <3>1. Len(dirs) = 1
      BY <1>1 DEF IInv, SearchInv
    <3>2. dirs \in Seq(Enumerations) /\ dirs # <<>>
      BY <1>1 DEF IInv, EntriesInv
    <3>3. Len(Front(dirs)) = Len(dirs) - 1
      BY <3>2, FrontLength
    <3> QED BY <2>1, <3>1, <3>3
  <2>3. ASSUME NEW k \in 0 .. Len(goal) - 1, Leads, Found(k), path[1] = goal[k + 1]
        PROVE  Found(k)'
    <3>1. Entry = Reached(disk, goal)[k + 1]
      BY <1>2, <1>3, <2>3
    <3> QED BY <1>1, <2>1, <3>1 DEF Found
  <2> QED BY <1>1, <2>1, <2>2, <2>3, SearchStays DEF LookingPcs
<1>4. CASE ~found
  <2> DEFINE d == Turn(Inner)
  <2>1. pc' = "scan" /\ dirs' = Inside(d)
    BY <1>1, <1>4 DEF Traversed
  <2>2. d \in Enumerations
    BY <1>1, TurnOf
  <2>3. d.entries = Inner.entries /\ d.i = Inner.i + 1 /\ ~d.has_lfn
    BY <1>1, InnerFacts DEF Enumerations, Turn
  <2>4. Entry.kind # "lfn"
    BY <1>1 DEF IsEntry
  <2> HIDE DEF d
  <2>5. ASSUME NEW k \in 0 .. Len(goal) - 1, Leads, Found(k), path[1] = goal[k + 1]
        PROVE  Looked(d, disk.entries[Here(k).cluster], goal[k + 1])
    <3> DEFINE es == disk.entries[Here(k).cluster]
    <3>1. /\ IsDirectory(es) /\ Looked(Inner, es, goal[k + 1]) /\ Inner.i \in Live(es)
          /\ Entry = es[Inner.i] /\ Inner.i \notin Named(es, goal[k + 1])
      BY <1>2, <1>4, <2>5
    <3> HIDE DEF es
    <3> QED BY <2>3, <2>4, <3>1, OtherGoesBy DEF es
  <2> QED BY <1>1, <2>1, <2>2, <2>5, PassedSearchInv
<1> QED BY <1>3, <1>4

(* A search for a name that is there does not come to the end.             *)
LEMMA EndOfDirectorySearchInv ==
  ASSUME IInv, EndOfDirectory, call # "dirent" PROVE SearchInv'
<1>1. /\ pc = "scan" /\ pc' = "enumerated" /\ dirs' = Front(dirs) /\ (More => Entry.kind = "end")
      /\ UNCHANGED <<disk, goal, path, call>>
  BY DEF EndOfDirectory, scanned, constant
<1>2. Len(dirs') = 0
  <2>1. Inner \in Enumerations
    BY <1>1, InnerFacts
  <2>2. Len(Front(dirs)) = Len(dirs) - 1
    BY <1>1, <2>1, InsideIs
  <2>3. Len(dirs) = 1
    BY <1>1, SearchFacts DEF LookingPcs
  <2> QED BY <1>1, <2>2, <2>3
<1>3. ASSUME NEW k \in 0 .. Len(goal) - 1, Leads, Found(k) PROVE FALSE
  <2> DEFINE es == disk.entries[Here(k).cluster]
             name == goal[k + 1]
  <2>1. goal \in Paths
    BY <1>1, SearchFacts DEF LookingPcs
  <2>2. IsDirectory(es) /\ Named(es, name) # {}
    BY <1>3, <2>1, WhereItLeads
  <2>3. Looked(Inner, es, name)
    BY <1>1, <1>3 DEF Found, Here
  <2> HIDE DEF es, name
  <2>4. PICK i \in Named(es, name) : i \in Live(es)
    BY <2>2 DEF Named, Present
  <2>5. i \in Nat /\ i <= Len(es) /\ \A j \in 1 .. i : j \in Live(es)
    BY <2>2, <2>4, LfnFacts
  <2>6. Inner.i \in Nat \ {0} /\ Inner.entries = es
    BY <1>1, <2>3, InnerFacts DEF Looked
  <2>7. Inner.i <= i
    <3>1. i \notin 1 .. Inner.i - 1
      BY <2>3, <2>4 DEF Looked
    <3>2. i >= 1
      BY <2>2, <2>4, LfnFacts
    <3> QED BY <2>5, <2>6, <3>1, <3>2
  <2>8. More /\ Entry = es[Inner.i]
    <3>1. Len(es) \in Nat
      BY <2>2 DEF IsDirectory
    <3> QED BY <2>5, <2>6, <2>7, <3>1 DEF More, Entry, EntriesOf
  <2>9. Inner.i \in Live(es)
    BY <2>5, <2>6, <2>7
  <2>10. es[Inner.i].kind # "end"
    BY <2>2, <2>9, LfnFacts
  <2> QED BY <1>1, <2>8, <2>10
<1> QED BY <1>1, <1>2, <1>3, SearchStays DEF LookingPcs

(* The next name is looked for in what was found.                          *)
LEMMA TailIs ==
  ASSUME NEW S, NEW s \in Seq(S), Len(s) > 1
  PROVE  Tail(s) = [j \in 1 .. Len(s) - 1 |-> s[j + 1]]
<1>1. s # <<>>
  OBVIOUS
<1> DEFINE t == Tail(s)
<1>2. /\ t \in Seq(S) /\ Len(t) = Len(s) - 1
      /\ \A j \in 1 .. Len(t) : t[j] = s[j + 1]
  BY <1>1, HeadTailProperties
<1> HIDE DEF t
<1>3. t \in [1 .. Len(t) -> S]
  BY <1>2
<1>4. t = [j \in 1 .. Len(t) |-> s[j + 1]]
  BY <1>2, <1>3
<1> QED BY <1>2, <1>4 DEF t

LEMMA NextNameSearchInv ==
  ASSUME IInv, NextName PROVE SearchInv'
<1>1. /\ pc = "enumerated" /\ call # "dirent" /\ Len(path) > 1 /\ pc' = "read directory"
      /\ path' = Tail(path) /\ Enumerate(found_entry.cluster)
      /\ UNCHANGED <<disk, goal, dirs, call, found_entry>>
  BY DEF NextName, Enumerate, constant
<1>2. goal \in Paths /\ Len(dirs') = 0
  BY <1>1, SearchFacts DEF LookingPcs
<1>3. PICK k \in 0 .. Len(goal) - 1 :
        /\ Len(path) = Len(goal) - k /\ \A j \in 1 .. Len(path) : path[j] = goal[k + j]
        /\ path \in Seq({goal[j] : j \in DOMAIN goal})
        /\ Leads => Found(k)
  BY <1>1, SearchFacts DEF LookingPcs
<1>4. Len(goal) \in Nat /\ k \in Nat /\ k + 1 \in 0 .. Len(goal) - 1
  <2>1. Len(goal) \in Nat
    BY <1>2, PathFacts
  <2>2. Len(goal) - k > 1
    BY <1>1, <1>3
  <2> QED BY <2>1, <2>2
<1>5. path' = [j \in 1 .. Len(goal) - (k + 1) |-> goal[(k + 1) + j]]
  <2>1. Tail(path) = [j \in 1 .. Len(path) - 1 |-> path[j + 1]]
    BY <1>1, <1>3, TailIs
  <2>2. Len(path) - 1 = Len(goal) - (k + 1)
    BY <1>3, <1>4
  <2>3. ASSUME NEW j \in 1 .. Len(path) - 1 PROVE path[j + 1] = goal[(k + 1) + j]
    <3>1. j + 1 \in 1 .. Len(path) /\ k + (j + 1) = (k + 1) + j
      BY <1>3, <1>4
    <3> QED BY <1>3, <3>1
  <2> QED BY <1>1, <2>1, <2>2, <2>3
<1>6. ASSUME Leads PROVE Found(k + 1)'
  <2>1. found_entry = Here(k + 1)
    BY <1>1, <1>3, <1>6 DEF Found, Here
  <2>2. PICK c : c = Here(k + 1).cluster
    OBVIOUS
  <2>3. c \in DOMAIN disk.entries
    BY <1>2, <1>4, <1>6, <2>2, WhereItLeads
  <2>4. disk \in Disks /\ bpb = disk.bpb /\ Enumerate(c)
    BY <1>1, <2>1, <2>2, DiskIsOne, BpbIsRead
  <2>5. Stores(disk.bpb.sectors_per_cluster, SectorOf(disk.bpb, c))'
    BY <1>1, <2>3, <2>4, EnumerateStores
  <2> QED BY <1>1, <2>2, <2>5 DEF Found, Here
<1>7. Leads' => Found(k + 1)'
  BY <1>1, <1>6, LeadsStays
<1> QED BY <1>1, <1>2, <1>4, <1>5, <1>7 DEF SearchInv, Leads

(* What has no part in a search: a listing, and what is not under way.     *)
LEMMA OtherSearchInv ==
  ASSUME IInv, [Next]_vars, ~UNCHANGED vars, ~DirectoryRead, ~LfnEntry, ~DeletedLfn, ~Skipped,
         ~(EndOfDirectory /\ call # "dirent"), ~(\E found \in BOOLEAN : Traversed(found)),
         ~NextName, ~Drive,
         ~(\E f \in {"get_file_size", "get_file"}, p \in Paths : pc = "idle" /\ Search(f, p))
  PROVE  call' = "dirent" \/ (pc' \notin LookingPcs /\ Len(dirs') = 0)
<1>1. CASE Dirent
  BY <1>1 DEF Dirent
<1>2. CASE New \/ Mount
  <2>1. pc \in RestPcs /\ pc' \notin LookingPcs /\ dirs' = dirs
    BY <1>2 DEF New, Mount, RestPcs, LookingPcs, dirVars
  <2>2. call = "none" /\ pc # "scan"
    BY <2>1 DEF IInv, CallInv, RestPcs
  <2> QED BY <2>1, <2>2, NoDirs
<1>3. CASE EndOfDirectory /\ call = "dirent"
  BY <1>3 DEF EndOfDirectory, scanned, constant
<1>4. CASE Listed
  BY <1>4 DEF Listed, constant
<1>5. CASE Searched
  <2>1. pc' \notin LookingPcs /\ dirs' = dirs /\ pc = "enumerated" /\ call # "dirent"
    BY <1>5 DEF Searched, Idle, LookingPcs
  <2> QED BY <2>1, NoDirs
<1>6. CASE ListingGoesOn
  <2>1. CASE dirs = <<>>
    <3>1. pc' = "idle" /\ dirs' = <<>>
      BY <1>6, <2>1 DEF ListingGoesOn, Idle
    <3>2. Len(<<>>) = 0
      OBVIOUS
    <3> QED BY <3>1, <3>2 DEF LookingPcs
  <2>2. CASE dirs # <<>>
    BY <1>6, <2>2 DEF ListingGoesOn, constant
  <2> QED BY <2>1, <2>2
<1>7. CASE Reading
  <2>1. pc \in ReadPcs /\ pc' \notin LookingPcs /\ dirs' = dirs
    BY <1>7 DEF Reading, ReadCluster, ChainEnds, CopyCluster, CacheHit, CacheMiss, FatRead, Idle,
       fileKept, ReadPcs, LookingPcs
  <2>2. call = "get_file" /\ pc # "scan"
    BY <2>1, ReadFacts DEF ReadPcs
  <2> QED BY <2>1, <2>2, NoDirs
<1> QED
  BY <1>1, <1>2, <1>3, <1>4, <1>5, <1>6, <1>7 DEF Next, Running, Scanning

LEMMA DriveSearchInv == ASSUME IInv, Drive PROVE SearchInv'
<1>1. AtaNext /\ UNCHANGED <<pc, call, disk, dirs, goal, path, found_entry>>
  BY DEF Drive, dirVars
<1>2. CASE call = "dirent"
  BY <1>1, <1>2 DEF SearchInv
<1>3. CASE call # "dirent" /\ pc \notin LookingPcs
  <2>1. pc # "scan"
    BY <1>3 DEF LookingPcs
  <2>2. Len(dirs') = 0
    BY <1>1, <1>3, <2>1, NoDirs
  <2> QED BY <1>1, <1>3, <2>2, SearchOver
<1>4. CASE call # "dirent" /\ pc \in LookingPcs
  <2>1. goal \in Paths /\ disk \in Disks /\ Len(dirs') = IF pc' = "scan" THEN 1 ELSE 0
    BY <1>1, <1>4, SearchFacts, DiskIsOne
  <2>2. ASSUME NEW k \in 0 .. Len(goal) - 1, Leads, Found(k) PROVE Found(k)'
    <3>1. CASE pc # "read directory"
      BY <1>1, <2>2, <3>1 DEF Found, Inner
    <3>2. CASE pc = "read directory"
      <4>1. Here(k).cluster \in DOMAIN disk.entries
        BY <2>1, <2>2, WhereItLeads
      <4>2. Here(k).cluster \in DOMAIN disk.fat
        BY <2>1, <4>1, NamesAssumption
      <4>3. PICK n \in Nat, b \in Int :
              n = disk.bpb.sectors_per_cluster /\ b = SectorOf(disk.bpb, Here(k).cluster)
        BY <2>1, <4>2, ClusterSectors
      <4>4. Stores(n, b)
        BY <2>2, <3>2, <4>3 DEF Found, Here
      <4>5. Stores(n, b)'
        BY <1>1, <4>4, DriveStores
      <4>6. Stores(disk.bpb.sectors_per_cluster, SectorOf(disk.bpb, Here(k).cluster))'
        BY <1>1, <4>3, <4>5 DEF Here
      <4> QED BY <1>1, <3>2, <4>6 DEF Found, Here
    <3> QED BY <3>1, <3>2
  <2> QED BY <1>1, <1>4, <2>1, <2>2, SearchStays
<1> QED BY <1>2, <1>3, <1>4

LEMMA SearchInvStep ==
  ASSUME IInv, [Next]_vars PROVE SearchInv'
<1>1. CASE \E f \in {"get_file_size", "get_file"}, p \in Paths : pc = "idle" /\ Search(f, p)
  BY <1>1, SearchSearchInv
<1>2. CASE DirectoryRead
  BY <1>2, DirectoryReadSearchInv
<1>3. CASE LfnEntry \/ DeletedLfn \/ Skipped
  <2>1. CASE call = "dirent"
    <3>1. call' = "dirent"
      BY <1>3, <2>1 DEF LfnEntry, DeletedLfn, Skipped, scanned, constant
    <3> QED BY <3>1 DEF SearchInv
  <2> QED BY <1>3, <2>1, PassingSearchInv
<1>4. CASE EndOfDirectory /\ call # "dirent"
  BY <1>4, EndOfDirectorySearchInv
<1>5. CASE \E found \in BOOLEAN : Traversed(found)
  BY <1>5, TraversedSearchInv
<1>6. CASE NextName
  BY <1>6, NextNameSearchInv
<1>7. CASE Drive
  BY <1>7, DriveSearchInv
<1>8. CASE UNCHANGED vars
  <2>1. UNCHANGED <<disk, goal, path, dirs, call, pc, found_entry, ataVars>>
    BY <1>8 DEF vars, dirVars
  <2>2. Leads' <=> Leads
    BY <2>1, LeadsStays
  <2>3. \A k : Found(k)' <=> Found(k)
    BY <2>1 DEF Found, Stores, Inner, ataVars
  <2> QED BY <2>1, <2>2, <2>3 DEF IInv, SearchInv
<1>9. CASE call' = "dirent" \/ (pc' \notin LookingPcs /\ Len(dirs') = 0)
  BY <1>9, SearchOver DEF SearchInv
<1> QED
  BY <1>1, <1>2, <1>3, <1>4, <1>5, <1>6, <1>7, <1>8, <1>9, OtherSearchInv

-----------------------------------------------------------------------------
(* For every disk and every cache, what IInv says of the cache, of what is *)
(* on the disk, of the buffer of get_file and of where a search is, is     *)
(* always true (fat.h).                                                    *)
THEOREM FatIInv == Spec => []IInv
<1>1. Init => IInv
  <2> SUFFICES ASSUME Init PROVE IInv
    OBVIOUS
  <2>1. CacheInv
    BY InitCacheInv
  <2>2. EntriesInv
    <3>1. disk \in Disks /\ dirs = <<>> /\ found_entry = NoEntry /\ pc = "new"
      BY DEF Init
    <3>2. 0 \in DOMAIN disk.fat
      <4>1. /\ DOMAIN disk.fat = 0 .. ENTRIES * disk.bpb.sectors_per_fat - 1
            /\ ENTRIES \in Nat \ {0} /\ disk.bpb.sectors_per_fat \in Nat \ {0}
        BY <3>1, DiskFacts
      <4>2. ENTRIES * disk.bpb.sectors_per_fat \in Nat \ {0}
        BY <4>1
      <4> QED BY <4>1, <4>2
    <3> QED BY <3>1, <3>2 DEF EntriesInv, NoEntry
  <2>3. CallInv
    BY DEF Init, CallInv
  <2>4. SearchInv
    <3>1. dirs = <<>> /\ pc = "new" /\ Len(<<>>) = 0
      BY DEF Init
    <3> QED BY <3>1 DEF SearchInv
  <2> QED BY <2>1, <2>2, <2>3, <2>4 DEF IInv
<1>2. IInv /\ [Next]_vars => IInv'
  BY CacheInvStep, EntriesInvStep, CallInvStep, SearchInvStep DEF IInv
<1> QED BY <1>1, <1>2, PTL DEF Spec

(* get_next_cluster returns what the FAT of the disk has for the cluster,  *)
(* whatever was cached and evicted before (fat.h:124).                     *)
THEOREM FatChainFollowed == Spec => ChainFollowed
<1>1. IInv /\ [Next]_vars => [NextClusterFound => cluster' = disk.fat[cluster] ]_vars
  BY NextIsFollowed
<1> QED BY <1>1, FatIInv, PTL DEF Spec, ChainFollowed

(* The two steps that get_file returns with: the chain has ended, or the   *)
(* cluster that was copied has the end of the file.                        *)
LEMMA FileIsRight ==
  ASSUME IInv, [Next]_vars, call = "get_file", pc' = "idle", ~UNCHANGED vars
  PROVE  Contents(disk, out', found_entry.cluster, found_entry.size)
<1> DEFINE c == found_entry.cluster
           n == found_entry.size
           p == disk.bpb.sectors_per_cluster
<1>1. pc \notin RestPcs
  BY DEF IInv, CallInv, RestPcs
<1>2. CASE ChainEnds
  <2>1. pc = "read_file" /\ cluster >= EOC /\ out' = out
    BY <1>2 DEF ChainEnds
  <2>2. /\ Copied /\ Len(out) \in Nat /\ disk \in Disks /\ c \in DOMAIN disk.fat
    BY <2>1, ReadFacts DEF ReadPcs
  <2>3. PICK k \in 0 .. Len(out) : Len(out) = k * p /\ cluster = Chain(disk, c)[k]
    BY <2>1, <2>2 DEF Copied
  <2>4. Begins(disk, out, c) /\ size \in Nat /\ Len(out) + size = n
    BY <2>2 DEF Copied
  <2>5. ClusterAt(disk, c, Len(out) + 1) = cluster
    <3>1. p \in Nat \ {0} /\ k \in Nat
      BY <2>2, ClusterSectors
    <3> HIDE DEF p
    <3>2. 0 \in 0 .. p - 1 /\ Len(out) + 1 - 1 = k * p + 0
      BY <2>3, <3>1
    <3>3. (k * p + 0) \div p = k
      BY <3>1, <3>2, DivMod
    <3>4. (Len(out) + 1 - 1) \div p = k
      BY <3>2, <3>3, Zenon
    <3> QED BY <2>3, <3>4 DEF ClusterAt, p
  <2>6. Len(out) <= n
    BY <2>2, <2>4
  <2> QED BY <2>1, <2>4, <2>5, <2>6 DEF Contents
<1>3. CASE CopyCluster
  <2>1. ~GoesOn(size)
    BY <1>3 DEF CopyCluster
  <2>2. Begins(disk, out', c) /\ Len(out') = Len(out) + size /\ Len(out) + size = n
    BY <1>3, <2>1, CopiedMore DEF Part
  <2>3. Len(out) \in Nat /\ size \in Nat
    BY <1>3, CopiedMore, DiskIsOne
  <2> QED BY <2>2, <2>3 DEF Contents
<1>4. ASSUME Next, ~ChainEnds, ~CopyCluster PROVE FALSE
  BY <1>1, <1>4 DEF Next, Running, Scanning, Reading, RestPcs, Search, Enumerate, Dirent, New,
     Mount, DirectoryRead, LfnEntry, DeletedLfn, Skipped, EndOfDirectory, Traversed, Listed,
     Scan, NextName, Searched, ListingGoesOn, ReadCluster, CacheHit, CacheMiss, FatRead, Drive
<1> QED BY <1>2, <1>3, <1>4

(* What get_file has filled its buffer with when it returns is the file it *)
(* has found: the sectors of its chain, as many as its size or as the      *)
(* chain has (fat.h:152).                                                  *)
THEOREM FatFileRight == Spec => FileRight
<1>1. IInv /\ [Next]_vars =>
        [call = "get_file" /\ pc' = "idle" =>
           Contents(disk, out', found_entry.cluster, found_entry.size)]_vars
  BY FileIsRight
<1> QED BY <1>1, FatIInv, PTL DEF Spec, FileRight

(* When no name is left, what was found is what the path leads to.         *)
LEMMA SearchIsRight ==
  ASSUME IInv, Searched, Leads
  PROVE  found_entry = Resolved(goal)
<1>1. pc = "enumerated" /\ call # "dirent" /\ Len(path) = 1
  BY DEF Searched
<1>2. goal \in Paths
  BY <1>1, SearchFacts DEF LookingPcs
<1>3. PICK k \in 0 .. Len(goal) - 1 : Len(path) = Len(goal) - k /\ (Leads => Found(k))
  BY <1>1, SearchFacts DEF LookingPcs
<1>4. Len(goal) \in Nat
  BY <1>2, PathFacts
<1>5. k + 1 = Len(goal)
  <2>1. Len(goal) - k = 1
    BY <1>1, <1>3
  <2> QED BY <1>4, <2>1
<1>6. found_entry = Reached(disk, goal)[k + 1]
  BY <1>1, <1>3 DEF Found, Leads
<1> QED BY <1>5, <1>6 DEF Resolved

(* A search for a path that exists finds its entry, whatever an earlier    *)
(* search has found: the loop passes the entries of every other name, and  *)
(* stops at the one (fat.h:184, fat.h:239, fat.h:252).                     *)
THEOREM FatSearchFinds == Spec => SearchFinds
<1>1. IInv /\ [Next]_vars =>
        [Searched /\ Leads => found_entry = Resolved(goal)]_vars
  BY SearchIsRight
<1> QED BY <1>1, FatIInv, PTL DEF Spec, SearchFinds

=============================================================================
