-------------------------- MODULE Formatted_proofs --------------------------
(***************************************************************************)
(* What holds of the image that build_image.py and owfs_mkfs.py make         *)
(* together: the firmware reads the loader from the ESP, for sectors, FATs,  *)
(* regions and loaders of any size that fit one another, what was proved of  *)
(* the formatter holds in their composition, and the driver that is started  *)
(* on the image lists and loads the files it was made with.                  *)
(***************************************************************************)
EXTENDS Formatted, Mkfs_proofs

-----------------------------------------------------------------------------
(* Arithmetic of whole and partial sectors. *)
LEMMA CeilingIs ==
  ASSUME NEW m \in Nat, NEW n \in Nat \ {0}, NEW x \in Nat, m * n < x, x <= (m + 1) * n
  PROVE  Ceiling(x, n) = m + 1
  <1> DEFINE y == x + n - 1
             q == y \div n
             r == y % n
  <1>1. y \in Nat
    OBVIOUS
  <1> HIDE DEF y
  <1>2. q \in Int /\ r \in 0 .. n - 1 /\ y = n * q + r
    BY <1>1, DivMod
  <1> HIDE DEF q, r
  <1>3. (m + 1) * n = m * n + n /\ (m + 2) * n = m * n + n + n /\ m * n \in Int
    OBVIOUS
  <1>4. (q + 1) * n = n * q + n /\ n * q = q * n /\ n * q \in Int
    BY <1>2
  <1>5. m * n + n <= y /\ y < m * n + n + n
    BY <1>3 DEF y
  <1>6. (m + 1) * n < (q + 1) * n /\ q * n < (m + 2) * n
    BY <1>2, <1>3, <1>4, <1>5
  <1>7. m + 1 < q + 1 /\ q < m + 2
    BY <1>2, <1>6, LessWhole
  <1> QED
    BY <1>2, <1>7 DEF Ceiling, q, y

LEMMA CeilingFacts ==
  ASSUME NEW n \in Nat \ {0}, NEW x \in Nat \ {0}
  PROVE  /\ Ceiling(x, n) \in Nat \ {0}
         /\ (Ceiling(x, n) - 1) * n < x /\ x <= Ceiling(x, n) * n
  <1> DEFINE y == x - 1
             m == y \div n
             r == y % n
  <1>1. y \in Nat
    OBVIOUS
  <1> HIDE DEF y
  <1>2. m \in Int /\ r \in 0 .. n - 1 /\ y = n * m + r
    BY <1>1, DivMod
  <1> HIDE DEF m, r
  <1>3. (m + 1) * n = n * m + n /\ m * n = n * m /\ n * m \in Int /\ (-1) * n = -n
    BY <1>2
  <1>4. (-1) * n < m * n
    BY <1>1, <1>2, <1>3
  <1>5. m \in Nat
    BY <1>2, <1>4, LessWhole
  <1>6. m * n < x /\ x <= (m + 1) * n
    BY <1>1, <1>2, <1>3 DEF y
  <1>7. Ceiling(x, n) = m + 1
    BY <1>5, <1>6, CeilingIs
  <1> QED
    BY <1>5, <1>6, <1>7

-----------------------------------------------------------------------------
(* The image.  A sector holds what was put there last; the structures do   *)
(* not overlap, so what is written stays.                                    *)
Held(s, x) == s \in DOMAIN disk /\ disk[s] = x

Fats == ESP_LBA + RESERVED              \* where the first FAT starts
Clusters == Ceiling(efi_size, SECTOR)   \* of the file

Gpt == [is |-> "gpt",
        parts |-> <<[first |-> ESP_LBA, last |-> ESP_LBA + ESP_SECTORS - 1],
                    [first |-> OWFS_LBA, last |-> OWFS_LBA + OWFS_SECTORS - 1]>>]
Bpb == [is |-> "bpb", reserved |-> RESERVED, fats |-> NUM_FATS, fat_size |-> FAT_SIZE,
        sectors |-> ESP_SECTORS, root |-> ROOT_CLUSTER]
Dir(es) == [is |-> "dir", entries |-> es]
RootEntries == {DirEntry("EFI", 3, 0)}
EfiEntries  == {DirEntry(".", 3, 0), DirEntry("..", 0, 0), DirEntry("BOOT", 4, 0)}
BootEntries == {DirEntry(".", 4, 0), DirEntry("..", 3, 0),
                DirEntry("BOOTX64.EFI", 5, efi_size)}
Part(at, n) == [is |-> "data", bytes |-> [k \in 1 .. n |-> EfiByte(at + k)]]
PartSize(at) == IF efi_size - at < SECTOR THEN efi_size - at ELSE SECTOR
FatSector(i) == [is |-> "fat", links |-> [l \in 0 .. LINKS - 1 |-> fat[i * LINKS + l]]]

EspTypes ==
  /\ wpc \in {"tables", "boot", "dirs", "file", "written"}
  /\ efi_size \in EfiSizes /\ remaining \in 0 .. efi_size
  /\ cluster \in 5 .. 5 + Clusters
  /\ fat \in [0 .. FAT_SIZE * LINKS - 1 -> Int]

(* How far the file is written, and the chain of its clusters so far. *)
FileSoFar ==
  /\ remaining = IF cluster = 5 + Clusters THEN efi_size ELSE (cluster - 5) * SECTOR
  /\ \A c \in 2 .. 4 : fat[c] = EOC
  /\ \A c \in 5 .. cluster - 1 : fat[c] = IF c = 4 + Clusters THEN EOC ELSE c + 1

SectorsSound ==
  /\ wpc # "tables" => Held(2, Gpt)
  /\ wpc \notin {"tables", "boot"} => Held(ESP_LBA, Bpb)
  /\ wpc \in {"file", "written"} =>
       /\ Held(ClusterAt(2), Dir(RootEntries)) /\ Held(ClusterAt(3), Dir(EfiEntries))
       /\ Held(ClusterAt(4), Dir(BootEntries))
  /\ \A c \in 5 .. cluster - 1 :
       Held(ClusterAt(c), Part((c - 5) * SECTOR, PartSize((c - 5) * SECTOR)))
  /\ wpc = "written" => \A i \in 0 .. FAT_SIZE - 1 : Held(Fats + i, FatSector(i))

Stages == /\ wpc \in {"tables", "boot", "dirs"} => cluster = 5
          /\ wpc = "written" => remaining = efi_size

EspInv == EspTypes /\ FileSoFar /\ SectorsSound /\ Stages

LEMMA Putting ==
  ASSUME NEW STATE sectors, Put(sectors)
  PROVE  /\ \A s \in DOMAIN sectors : s \in DOMAIN disk' /\ disk'[s] = sectors[s]
         /\ \A s, x : s \notin DOMAIN sectors /\ Held(s, x) => (s \in DOMAIN disk' /\ disk'[s] = x)
  BY DEF Put, Held

LEMMA EspSizes ==
  /\ ESP_LBA \in Nat /\ ESP_SECTORS \in Nat /\ RESERVED \in Nat /\ FAT32_LEAST \in Nat
  /\ SECTOR \in Nat \ {0} /\ LINKS \in Nat \ {0} /\ FAT_SIZE \in Nat \ {0}
  /\ DataClusters \in Int /\ FAT_SIZE * LINKS \in Nat
  /\ ESP_LBA > 2 /\ RESERVED > 7
  /\ DataClusters >= FAT32_LEAST /\ DataClusters + 2 <= FAT_SIZE * LINKS
  <1>1. /\ ESP_LBA \in Nat /\ ESP_SECTORS \in Nat /\ RESERVED \in Nat /\ FAT32_LEAST \in Nat
        /\ SECTOR \in Nat \ {0} /\ LINKS \in Nat \ {0} /\ FAT_SIZE \in Nat \ {0}
        /\ ESP_LBA > 2 /\ RESERVED > 7
        /\ DataClusters >= FAT32_LEAST /\ DataClusters + 2 <= FAT_SIZE * LINKS
    BY EspAssumption
  <1>2. DataClusters \in Int
    BY <1>1 DEF DataClusters, NUM_FATS
  <1> QED
    BY <1>1, <1>2

LEMMA FileSizes ==
  ASSUME EspTypes
  PROVE  /\ efi_size \in Nat \ {0} /\ Clusters \in Nat \ {0} /\ 3 + Clusters <= DataClusters
         /\ (Clusters - 1) * SECTOR < efi_size /\ efi_size <= Clusters * SECTOR
  <1>1. efi_size \in Nat \ {0} /\ 3 + Clusters <= DataClusters
    BY EspAssumption DEF EspTypes, Clusters
  <1> QED
    BY <1>1, EspSizes, CeilingFacts DEF Clusters

(* Where the structures lie. *)
LEMMA Places ==
  /\ Fats = ESP_LBA + RESERVED /\ Fats \in Nat
  /\ \A c \in Int : ClusterAt(c) \in Int /\ ClusterAt(c) = Fats + FAT_SIZE + FAT_SIZE + c - 2
  BY EspSizes DEF Fats, ClusterAt, NUM_FATS

LEMMA InitEspInv == EspInit => EspInv
  <1> SUFFICES ASSUME EspInit PROVE EspInv
    OBVIOUS
  <1>1. efi_size \in Nat \ {0} /\ Clusters \in Nat \ {0} /\ 3 + Clusters <= DataClusters
    <2>1. efi_size \in Nat \ {0} /\ 3 + Clusters <= DataClusters
      BY EspAssumption DEF EspInit, Clusters
    <2> QED
      BY <2>1, EspSizes, CeilingFacts DEF Clusters
  <1>2. EspTypes
    BY <1>1, EspSizes DEF EspInit, EspTypes, EOC
  <1>3. FAT_SIZE * LINKS >= 5
    BY <1>1, EspSizes
  <1>4. FileSoFar
    BY <1>1, <1>3, EspSizes DEF EspInit, FileSoFar
  <1> QED
    BY <1>2, <1>4 DEF EspInit, EspInv, SectorsSound, Stages

(* A step that writes none of these sectors leaves them. *)
LEMMA SameFileSoFar ==
  ASSUME EspInv, UNCHANGED <<efi_size, fat, cluster, remaining>>
  PROVE  FileSoFar'
  BY DEF EspInv, FileSoFar, Clusters

LEMMA TablesSound == EspInv /\ WriteTables => EspInv'
  <1> SUFFICES ASSUME EspInv, WriteTables PROVE EspInv'
    OBVIOUS
  <1>1. wpc = "tables" /\ wpc' = "boot" /\ UNCHANGED <<efi_size, fat, cluster, remaining>>
        /\ cluster = 5
    BY DEF WriteTables, EspInv, Stages
  <1>2. Held(2, Gpt)'
    <2> DEFINE sectors == [s \in {0, 2} |->
            IF s = 0 THEN [is |-> "mbr"]
            ELSE [is |-> "gpt",
                  parts |-> <<[first |-> ESP_LBA, last |-> ESP_LBA + ESP_SECTORS - 1],
                              [first |-> OWFS_LBA, last |-> OWFS_LBA + OWFS_SECTORS - 1]>>]]
    <2>1. Put(sectors)
      BY DEF WriteTables
    <2>2. 2 \in DOMAIN sectors /\ sectors[2] = Gpt
      BY DEF Gpt
    <2> HIDE DEF sectors
    <2>3. disk'[2] = Gpt /\ 2 \in DOMAIN disk'
      BY <2>1, <2>2, Putting DEF Held
    <2> QED
      BY <2>3 DEF Held, Gpt
  <1>3. EspTypes' /\ FileSoFar' /\ Stages'
    BY <1>1, SameFileSoFar DEF EspInv, EspTypes, Stages, Clusters
  <1> QED
    BY <1>1, <1>2, <1>3 DEF EspInv, SectorsSound

LEMMA BootSectorsSound == EspInv /\ WriteBootSectors => EspInv'
  <1> SUFFICES ASSUME EspInv, WriteBootSectors PROVE EspInv'
    OBVIOUS
  <1>1. wpc = "boot" /\ wpc' = "dirs" /\ UNCHANGED <<efi_size, fat, cluster, remaining>>
        /\ cluster = 5 /\ Held(2, Gpt)
    BY DEF WriteBootSectors, EspInv, Stages, SectorsSound
  <1>2. Held(ESP_LBA, Bpb)' /\ Held(2, Gpt)'
    <2> DEFINE sectors == [s \in {ESP_LBA + k : k \in {0, 1, 6, 7}} |->
            IF s \in {ESP_LBA, ESP_LBA + 6}
            THEN [is |-> "bpb", reserved |-> RESERVED, fats |-> NUM_FATS, fat_size |-> FAT_SIZE,
                  sectors |-> ESP_SECTORS, root |-> ROOT_CLUSTER]
            ELSE [is |-> "fsinfo"]]
    <2>1. Put(sectors)
      BY DEF WriteBootSectors
    <2>2. ESP_LBA \in DOMAIN sectors /\ sectors[ESP_LBA] = Bpb /\ 2 \notin DOMAIN sectors
      <3>1. ESP_LBA = ESP_LBA + 0 /\ \A k \in {0, 1, 6, 7} : 2 # ESP_LBA + k
        BY EspSizes
      <3>2. ESP_LBA \in {ESP_LBA + k : k \in {0, 1, 6, 7}}
        BY <3>1
      <3> QED
        BY <3>1, <3>2 DEF Bpb
    <2> HIDE DEF sectors
    <2>3. /\ disk'[ESP_LBA] = Bpb /\ ESP_LBA \in DOMAIN disk'
          /\ disk'[2] = Gpt /\ 2 \in DOMAIN disk'
      BY <1>1, <2>1, <2>2, Putting DEF Held
    <2> QED
      BY <2>3 DEF Held, Gpt, Bpb
  <1>3. EspTypes' /\ FileSoFar' /\ Stages'
    BY <1>1, SameFileSoFar DEF EspInv, EspTypes, Stages, Clusters
  <1> QED
    BY <1>1, <1>2, <1>3 DEF EspInv, SectorsSound

LEMMA DirectoriesSound == EspInv /\ WriteDirectories => EspInv'
  <1> SUFFICES ASSUME EspInv, WriteDirectories PROVE EspInv'
    OBVIOUS
  <1>1. wpc = "dirs" /\ wpc' = "file" /\ UNCHANGED <<efi_size, fat, cluster, remaining>>
        /\ cluster = 5 /\ Held(2, Gpt) /\ Held(ESP_LBA, Bpb)
    BY DEF WriteDirectories, EspInv, Stages, SectorsSound
  <1>2. Held(2, Gpt)' /\ Held(ESP_LBA, Bpb)'
        /\ Held(ClusterAt(2), Dir(RootEntries))' /\ Held(ClusterAt(3), Dir(EfiEntries))'
        /\ Held(ClusterAt(4), Dir(BootEntries))'
    <2> DEFINE sectors == [s \in {ClusterAt(c) : c \in 2 .. 4} |->
            [is |-> "dir",
             entries |->
               CASE s = ClusterAt(2) -> {DirEntry("EFI", 3, 0)}
                 [] s = ClusterAt(3) -> {DirEntry(".", 3, 0), DirEntry("..", 0, 0),
                                         DirEntry("BOOT", 4, 0)}
                 [] s = ClusterAt(4) -> {DirEntry(".", 4, 0), DirEntry("..", 3, 0),
                                         DirEntry("BOOTX64.EFI", 5, efi_size)}]]
    <2>1. Put(sectors)
      BY DEF WriteDirectories
    <2>2. /\ ClusterAt(2) # ClusterAt(3) /\ ClusterAt(2) # ClusterAt(4)
          /\ ClusterAt(3) # ClusterAt(4)
          /\ \A c \in 2 .. 4 : ClusterAt(c) # 2 /\ ClusterAt(c) # ESP_LBA
      BY Places, EspSizes
    <2>3. DOMAIN sectors = {ClusterAt(2), ClusterAt(3), ClusterAt(4)}
      OBVIOUS
    <2>4. /\ sectors[ClusterAt(2)] = Dir(RootEntries) /\ sectors[ClusterAt(3)] = Dir(EfiEntries)
          /\ sectors[ClusterAt(4)] = Dir(BootEntries)
      <3> DEFINE es(s) == CASE s = ClusterAt(2) -> {DirEntry("EFI", 3, 0)}
                 [] s = ClusterAt(3) -> {DirEntry(".", 3, 0), DirEntry("..", 0, 0),
                                         DirEntry("BOOT", 4, 0)}
                 [] s = ClusterAt(4) -> {DirEntry(".", 4, 0), DirEntry("..", 3, 0),
                                         DirEntry("BOOTX64.EFI", 5, efi_size)}
      <3>1. /\ es(ClusterAt(2)) = RootEntries /\ es(ClusterAt(3)) = EfiEntries
            /\ es(ClusterAt(4)) = BootEntries
        BY <2>2, Zenon DEF RootEntries, EfiEntries, BootEntries
      <3>2. \A s \in DOMAIN sectors : sectors[s] = [is |-> "dir", entries |-> es(s)]
        OBVIOUS
      <3> HIDE DEF es, sectors
      <3> QED
        BY <2>3, <3>1, <3>2 DEF Dir
    <2> HIDE DEF sectors
    <2>5. /\ \A s \in DOMAIN sectors : s \in DOMAIN disk' /\ disk'[s] = sectors[s]
          /\ disk'[ESP_LBA] = Bpb /\ ESP_LBA \in DOMAIN disk'
          /\ disk'[2] = Gpt /\ 2 \in DOMAIN disk'
      BY <1>1, <2>1, <2>2, <2>3, Putting DEF Held
    <2> QED
      BY <1>1, <2>3, <2>4, <2>5 DEF Held, Gpt, Bpb, Dir, RootEntries, EfiEntries, BootEntries, ClusterAt
  <1>3. EspTypes' /\ FileSoFar' /\ Stages'
    BY <1>1, SameFileSoFar DEF EspInv, EspTypes, Stages, Clusters
  <1> QED
    BY <1>1, <1>2, <1>3 DEF EspInv, SectorsSound

(* The last cluster of the file is the one that Clusters counts to. *)
LEMMA NextCluster ==
  ASSUME EspInv, remaining < efi_size
  PROVE  LET n == PartSize(remaining) IN
         /\ cluster \in 5 .. 4 + Clusters /\ remaining = (cluster - 5) * SECTOR
         /\ n \in 1 .. SECTOR /\ remaining + n \in 1 .. efi_size
         /\ (remaining + n = efi_size) <=> (cluster = 4 + Clusters)
         /\ remaining + n < efi_size => remaining + n = (cluster + 1 - 5) * SECTOR
  <1> DEFINE m == cluster - 5
             n == PartSize(remaining)
  <1>1. /\ efi_size \in Nat \ {0} /\ Clusters \in Nat \ {0} /\ SECTOR \in Nat \ {0}
        /\ (Clusters - 1) * SECTOR < efi_size /\ efi_size <= Clusters * SECTOR
    BY FileSizes, EspSizes DEF EspInv
  <1>2. /\ cluster \in 5 .. 4 + Clusters /\ m \in 0 .. Clusters - 1
        /\ remaining = m * SECTOR /\ remaining \in 0 .. efi_size
    BY <1>1 DEF EspInv, EspTypes, FileSoFar
  <1>3. n \in 1 .. SECTOR /\ remaining + n \in 1 .. efi_size
        /\ remaining + n <= remaining + SECTOR
        /\ (remaining + n < efi_size => n = SECTOR)
    BY <1>1, <1>2 DEF PartSize
  <1>4. m + 1 = cluster + 1 - 5 /\ (m = Clusters - 1 <=> cluster = 4 + Clusters)
    BY <1>1, <1>2
  <1> HIDE DEF m, n
  <1>5. (m + 1) * SECTOR = m * SECTOR + SECTOR /\ m * SECTOR \in Nat
    BY <1>1, <1>2
  <1>6. ASSUME remaining + n = efi_size PROVE m = Clusters - 1
    <2>1. (Clusters - 1) * SECTOR < (m + 1) * SECTOR
      BY <1>1, <1>2, <1>3, <1>5, <1>6
    <2>2. Clusters - 1 < m + 1
      BY <1>1, <1>2, <2>1, LessWhole
    <2> QED
      BY <1>1, <1>2, <2>2
  <1>7. ASSUME remaining + n < efi_size PROVE m < Clusters - 1
    <2>1. (m + 1) * SECTOR < Clusters * SECTOR
      <3>1. Clusters * SECTOR \in Nat
        BY <1>1
      <3> QED
        BY <1>1, <1>2, <1>3, <1>5, <1>7, <3>1
    <2>2. m + 1 < Clusters
      BY <1>1, <1>2, <2>1, LessWhole
    <2> QED
      BY <1>1, <1>2, <2>2
  <1>8. remaining + n < efi_size => remaining + n = (m + 1) * SECTOR
    BY <1>2, <1>3, <1>5
  <1>9. (remaining + n = efi_size) <=> (cluster = 4 + Clusters)
    BY <1>1, <1>2, <1>3, <1>4, <1>6, <1>7
  <1>10. cluster - 5 = m
    BY <1>2 DEF m
  <1> QED
    BY <1>2, <1>3, <1>4, <1>8, <1>9, <1>10 DEF n

LEMMA ClusterSound == EspInv /\ WriteCluster => EspInv'
  <1> SUFFICES ASSUME EspInv, WriteCluster PROVE EspInv'
    OBVIOUS
  <1> DEFINE n == PartSize(remaining)
             sectors == [s \in {ClusterAt(cluster)} |-> Part(remaining, n)]
             link == Link(cluster, efi_size - remaining - n)
  <1>1. /\ wpc = "file" /\ UNCHANGED <<wpc, efi_size>> /\ remaining < efi_size
        /\ Put(sectors) /\ remaining' = remaining + n /\ cluster' = cluster + 1
        /\ fat' = [fat EXCEPT ![cluster] = link]
    BY DEF WriteCluster, PartSize, Part
  <1>2. /\ cluster \in 5 .. 4 + Clusters /\ remaining = (cluster - 5) * SECTOR
        /\ n \in 1 .. SECTOR /\ remaining + n \in 1 .. efi_size
        /\ (remaining + n = efi_size) <=> (cluster = 4 + Clusters)
        /\ remaining + n < efi_size => remaining + n = (cluster + 1 - 5) * SECTOR
    BY <1>1, NextCluster
  <1>3. efi_size \in Nat \ {0} /\ Clusters \in Nat \ {0} /\ 3 + Clusters <= DataClusters
    BY FileSizes DEF EspInv
  <1>4. link = IF cluster = 4 + Clusters THEN EOC ELSE cluster + 1
    BY <1>2, <1>3, EspSizes DEF Link, EspInv, EspTypes
  <1>5. /\ ClusterAt(cluster) \in DOMAIN disk'
        /\ disk'[ClusterAt(cluster)] = Part((cluster - 5) * SECTOR, PartSize((cluster - 5) * SECTOR))
    BY <1>1, <1>2, Putting
  <1>6. \A s, x : s # ClusterAt(cluster) /\ Held(s, x) => (s \in DOMAIN disk' /\ disk'[s] = x)
    BY <1>1, Putting
  <1> HIDE DEF n, sectors, link
  <1>7. /\ \A c \in 2 .. cluster - 1 : ClusterAt(c) # ClusterAt(cluster)
        /\ ClusterAt(cluster) # 2 /\ ClusterAt(cluster) # ESP_LBA
    BY <1>2, <1>3, Places, EspSizes
  <1>8. EspTypes'
    <2>1. link \in Int
      BY <1>2, <1>3, <1>4 DEF EOC
    <2>2. fat' \in [0 .. FAT_SIZE * LINKS - 1 -> Int]
      BY <1>1, <2>1 DEF EspInv, EspTypes
    <2>3. cluster' \in 5 .. 5 + Clusters /\ remaining' \in 0 .. efi_size
      BY <1>1, <1>2, <1>3
    <2> QED
      BY <1>1, <2>2, <2>3 DEF EspInv, EspTypes, Clusters
  <1>9. FileSoFar'
    <2>1. /\ remaining' = IF cluster + 1 = 5 + Clusters THEN efi_size
                          ELSE (cluster + 1 - 5) * SECTOR
      BY <1>1, <1>2, <1>3
    <2>2. cluster \in 0 .. FAT_SIZE * LINKS - 1
      BY <1>2, <1>3, EspSizes
    <2>3. fat \in [0 .. FAT_SIZE * LINKS - 1 -> Int]
      BY DEF EspInv, EspTypes
    <2>4. fat'[cluster] = link /\ \A c \in 2 .. cluster - 1 : fat'[c] = fat[c]
      BY <1>1, <1>2, <1>3, <2>2, <2>3
    <2>5. \A c \in 2 .. 4 : fat'[c] = EOC
      BY <1>2, <1>3, <2>4 DEF EspInv, FileSoFar
    <2>6. ASSUME NEW c \in 5 .. cluster PROVE fat'[c] = IF c = 4 + Clusters THEN EOC ELSE c + 1
      <3>1. c \in 5 .. cluster - 1 \/ c = cluster
        BY <1>2, <1>3
      <3> QED
        BY <1>2, <1>3, <1>4, <2>4, <3>1 DEF EspInv, FileSoFar
    <2>7. cluster' - 1 = cluster /\ Clusters' = Clusters
      BY <1>1, <1>2, <1>3 DEF Clusters
    <2> QED
      BY <1>1, <2>1, <2>5, <2>6, <2>7 DEF FileSoFar
  <1>10. SectorsSound'
    <2>1. ASSUME NEW c \in 5 .. cluster
          PROVE  /\ ClusterAt(c) \in DOMAIN disk'
                 /\ disk'[ClusterAt(c)] = Part((c - 5) * SECTOR, PartSize((c - 5) * SECTOR))
      <3>1. c \in 5 .. cluster - 1 \/ c = cluster
        BY <1>2, <1>3
      <3>2. CASE c \in 5 .. cluster - 1
        <4>1. Held(ClusterAt(c), Part((c - 5) * SECTOR, PartSize((c - 5) * SECTOR)))
          BY <3>2 DEF EspInv, SectorsSound
        <4>2. ClusterAt(c) # ClusterAt(cluster)
          BY <1>2, <1>3, <1>7, <3>2
        <4> QED
          BY <1>6, <4>1, <4>2
      <3> QED
        BY <1>5, <3>1, <3>2
    <2>2. \A c \in 5 .. cluster' - 1 :
            Held(ClusterAt(c), Part((c - 5) * SECTOR, PartSize((c - 5) * SECTOR)))'
      BY <1>1, <1>2, <1>3, <2>1 DEF Held, PartSize, Part, ClusterAt
    <2>3. Held(2, Gpt)' /\ Held(ESP_LBA, Bpb)'
      BY <1>1, <1>6, <1>7 DEF Held, Gpt, Bpb, EspInv, SectorsSound
    <2>4. /\ Held(ClusterAt(2), Dir(RootEntries)) /\ Held(ClusterAt(3), Dir(EfiEntries))
          /\ Held(ClusterAt(4), Dir(BootEntries))
      BY <1>1 DEF EspInv, SectorsSound
    <2>5. \A c \in 2 .. 4 : ClusterAt(c) # ClusterAt(cluster)
      BY <1>2, <1>3, <1>7
    <2>6. /\ Held(ClusterAt(2), Dir(RootEntries))' /\ Held(ClusterAt(3), Dir(EfiEntries))'
          /\ Held(ClusterAt(4), Dir(BootEntries))'
      BY <1>1, <1>6, <2>4, <2>5 DEF Held, Dir, RootEntries, EfiEntries, BootEntries, ClusterAt
    <2> QED
      BY <1>1, <2>2, <2>3, <2>6 DEF SectorsSound
  <1>11. Stages'
    BY <1>1 DEF Stages
  <1> QED
    BY <1>8, <1>9, <1>10, <1>11 DEF EspInv

LEMMA FatsSound == EspInv /\ WriteFats => EspInv'
  <1> SUFFICES ASSUME EspInv, WriteFats PROVE EspInv'
    OBVIOUS
  <1> DEFINE start(k) == ESP_LBA + RESERVED + k * FAT_SIZE
             sectors == [s \in start(0) .. start(2) - 1 |->
               [is |-> "fat", links |-> [l \in 0 .. LINKS - 1 |->
                                           fat[((s - start(0)) % FAT_SIZE) * LINKS + l]]]]
  <1>1. /\ wpc = "file" /\ wpc' = "written" /\ remaining = efi_size
        /\ UNCHANGED <<efi_size, fat, cluster, remaining>> /\ Put(sectors)
    BY DEF WriteFats
  <1>2. start(0) = Fats /\ start(2) = Fats + FAT_SIZE + FAT_SIZE /\ Fats \in Nat
    BY EspSizes, Places
  <1> HIDE DEF start
  <1>3. ASSUME NEW i \in 0 .. FAT_SIZE - 1
        PROVE  Fats + i \in DOMAIN disk' /\ disk'[Fats + i] = FatSector(i)
    <2>1. Fats + i \in start(0) .. start(2) - 1 /\ (Fats + i) - start(0) = i
      BY <1>2, EspSizes
    <2>2. i % FAT_SIZE = i
      <3>1. (0 * FAT_SIZE + i) % FAT_SIZE = i /\ 0 * FAT_SIZE + i = i
        BY EspSizes, DivModIs
      <3> QED
        BY <3>1
    <2>3. Fats + i \in DOMAIN sectors /\ sectors[Fats + i] = FatSector(i)
      BY <2>1, <2>2 DEF FatSector
    <2> HIDE DEF sectors
    <2> QED
      BY <1>1, <2>3, Putting
  <1>4. DOMAIN sectors = Fats .. Fats + FAT_SIZE + FAT_SIZE - 1
    <2>1. DOMAIN sectors = start(0) .. start(2) - 1
      OBVIOUS
    <2>2. start(2) - 1 = Fats + FAT_SIZE + FAT_SIZE - 1
      BY <1>2, EspSizes
    <2> HIDE DEF sectors
    <2> QED
      BY <1>2, <2>1, <2>2
  <1> HIDE DEF sectors
  <1>5. \A s, x : s \notin Fats .. Fats + FAT_SIZE + FAT_SIZE - 1 /\ Held(s, x)
                    => (s \in DOMAIN disk' /\ disk'[s] = x)
    BY <1>1, <1>4, Putting
  <1>6. /\ 2 \notin Fats .. Fats + FAT_SIZE + FAT_SIZE - 1
        /\ ESP_LBA \notin Fats .. Fats + FAT_SIZE + FAT_SIZE - 1
        /\ \A c \in Nat \ {0, 1} : ClusterAt(c) \notin Fats .. Fats + FAT_SIZE + FAT_SIZE - 1
    BY EspSizes, Places
  <1>7. cluster \in Nat
    BY FileSizes DEF EspInv, EspTypes
  <1>8. EspTypes' /\ FileSoFar' /\ Stages'
    BY <1>1, SameFileSoFar DEF EspInv, EspTypes, Stages, Clusters
  <1>9. Held(2, Gpt)' /\ Held(ESP_LBA, Bpb)'
    BY <1>1, <1>5, <1>6 DEF Held, Gpt, Bpb, EspInv, SectorsSound
  <1>10. /\ Held(ClusterAt(2), Dir(RootEntries))' /\ Held(ClusterAt(3), Dir(EfiEntries))'
         /\ Held(ClusterAt(4), Dir(BootEntries))'
    <2>1. /\ Held(ClusterAt(2), Dir(RootEntries)) /\ Held(ClusterAt(3), Dir(EfiEntries))
          /\ Held(ClusterAt(4), Dir(BootEntries))
      BY <1>1 DEF EspInv, SectorsSound
    <2> QED
      BY <1>1, <1>5, <1>6, <2>1 DEF Held, Dir, RootEntries, EfiEntries, BootEntries, ClusterAt
  <1>11. ASSUME NEW c \in 5 .. cluster - 1
         PROVE  /\ ClusterAt(c) \in DOMAIN disk'
                /\ disk'[ClusterAt(c)] = Part((c - 5) * SECTOR, PartSize((c - 5) * SECTOR))
    <2>1. Held(ClusterAt(c), Part((c - 5) * SECTOR, PartSize((c - 5) * SECTOR)))
      BY DEF EspInv, SectorsSound
    <2>2. c \in Nat \ {0, 1}
      BY <1>7
    <2> QED
      BY <1>5, <1>6, <2>1, <2>2
  <1>12. \A c \in 5 .. cluster' - 1 :
            Held(ClusterAt(c), Part((c - 5) * SECTOR, PartSize((c - 5) * SECTOR)))'
    BY <1>1, <1>11 DEF Held, PartSize, Part, ClusterAt
  <1>13. \A i \in 0 .. FAT_SIZE - 1 : Held(Fats + i, FatSector(i))'
    BY <1>1, <1>3 DEF Held, FatSector, Fats
  <1> QED
    BY <1>1, <1>8, <1>9, <1>10, <1>12, <1>13 DEF EspInv, SectorsSound

LEMMA EspRests == EspInv /\ UNCHANGED espVars => EspInv'
  <1> SUFFICES ASSUME EspInv, UNCHANGED espVars PROVE EspInv'
    OBVIOUS
  <1>1. UNCHANGED <<wpc, efi_size, disk, fat, cluster, remaining>>
    BY DEF espVars
  <1>2. EspTypes' /\ FileSoFar' /\ Stages'
    BY <1>1, SameFileSoFar DEF EspInv, EspTypes, Stages, Clusters
  <1>3. \A c \in 5 .. cluster' - 1 :
          Held(ClusterAt(c), Part((c - 5) * SECTOR, PartSize((c - 5) * SECTOR)))'
    BY <1>1 DEF EspInv, SectorsSound, Held, PartSize, Part, ClusterAt
  <1>4. wpc = "written" => \A i \in 0 .. FAT_SIZE - 1 : Held(Fats + i, FatSector(i))'
    BY <1>1 DEF EspInv, SectorsSound, Held, FatSector, Fats
  <1>5. /\ wpc # "tables" => Held(2, Gpt)'
        /\ wpc \notin {"tables", "boot"} => Held(ESP_LBA, Bpb)'
    BY <1>1 DEF EspInv, SectorsSound, Held, Gpt, Bpb
  <1>6. wpc \in {"file", "written"} =>
          /\ Held(ClusterAt(2), Dir(RootEntries))' /\ Held(ClusterAt(3), Dir(EfiEntries))'
          /\ Held(ClusterAt(4), Dir(BootEntries))'
    BY <1>1 DEF EspInv, SectorsSound, Held, Dir, RootEntries, EfiEntries, BootEntries, ClusterAt
  <1> QED
    BY <1>1, <1>2, <1>3, <1>4, <1>5, <1>6 DEF EspInv, SectorsSound

LEMMA EspInvariant == FormattedSpec => []EspInv
  <1>1. FormattedInit => EspInv
    BY InitEspInv DEF FormattedInit
  <1>2. EspInv /\ [FormattedNext]_vars => EspInv'
    <2>1. [FormattedNext]_vars => EspNext \/ UNCHANGED espVars
      BY DEF FormattedNext, vars
    <2> QED
      BY <2>1, TablesSound, BootSectorsSound, DirectoriesSound, ClusterSound, FatsSound, EspRests
         DEF EspNext
  <1> QED
    BY <1>1, <1>2, PTL DEF FormattedSpec

-----------------------------------------------------------------------------
(* The firmware.  Induction up to n, for the length of a chain. *)
LEMMA Upwards ==
  ASSUME NEW n \in Nat, NEW Good, 0 \in Good,
         \A k \in 1 .. n : k - 1 \in Good => k \in Good
  PROVE  \A k \in 0 .. n : k \in Good
  <1> DEFINE Bad == {k \in 0 .. n : k \notin Good}
  <1>1. ASSUME Bad # {} PROVE FALSE
    <2>1. Bad \subseteq Nat
      OBVIOUS
    <2>2. PICK m \in Bad : \A j \in Bad : m <= j
      <3> HIDE DEF Bad
      <3> QED
        BY <1>1, <2>1, LeastElement
    <2>3. m \in 1 .. n /\ m - 1 \in 0 .. n /\ ~(m <= m - 1)
      BY <2>2
    <2> QED
      BY <2>2, <2>3
  <1> QED
    BY <1>1

(* A chain of n clusters that follow one another, the last one the end:    *)
(* after k links the firmware has the first k + 1 of them, or all.          *)
ChainUpto(first, n, k) == [i \in 1 .. (IF k < n THEN k + 1 ELSE n) |-> first + i - 1]

LEMMA ChainIs ==
  ASSUME NEW first \in Nat \ {0, 1}, NEW n \in Nat \ {0}, n <= DataClusters + 1,
         DataClusters \in Nat,
         \A i \in 0 .. n - 2 : Linked(first + i) = first + i + 1,
         Linked(first + n - 1) = EOC
  PROVE  Chain(first) = [i \in 1 .. n |-> first + i - 1]
  <1> DEFINE Step(before) == LET next == Linked(before[Len(before)])
                             IN  IF next < 2 THEN before ELSE Append(before, next)
             IsChain(u) == u = [k \in Nat |-> IF k = 0 THEN <<first>> ELSE Step(u[k - 1])]
             mine == [k \in Nat |-> ChainUpto(first, n, k)]
             upTo == CHOOSE u : IsChain(u)
  <1>1. Chain(first) = upTo[DataClusters]
    BY DEF Chain
  <1>2. ChainUpto(first, n, 0) = <<first>>
    <2>1. ChainUpto(first, n, 0) = [i \in 1 .. 1 |-> first + i - 1]
      BY DEF ChainUpto
    <2> QED
      BY <2>1
  <1>3. ASSUME NEW k \in Nat \ {0}
        PROVE  ChainUpto(first, n, k) = Step(ChainUpto(first, n, k - 1))
    <2> DEFINE before == ChainUpto(first, n, k - 1)
    <2>1. CASE k < n
      <3>1. before = [i \in 1 .. k |-> first + i - 1]
        BY <2>1 DEF ChainUpto
      <3>2. before \in Seq(Nat) /\ Len(before) = k /\ before[k] = first + (k - 1)
        BY <3>1
      <3>3. Linked(before[Len(before)]) = first + k
        <4>1. k - 1 \in 0 .. n - 2 /\ first + (k - 1) + 1 = first + k
          BY <2>1
        <4> QED
          BY <3>2, <4>1
      <3>4. ChainUpto(first, n, k) = [i \in 1 .. k + 1 |-> first + i - 1]
        BY <2>1 DEF ChainUpto
      <3> HIDE DEF before
      <3>5. Step(before) = Append(before, first + k)
        BY <3>3
      <3>6. Append(before, first + k) = [i \in 1 .. k + 1 |-> first + i - 1]
        BY <3>1, <3>2
      <3> QED
        BY <3>4, <3>5, <3>6 DEF before
    <2>2. CASE ~(k < n)
      <3>1. before = [i \in 1 .. n |-> first + i - 1]
        <4>1. (IF k - 1 < n THEN (k - 1) + 1 ELSE n) = n
          BY <2>2
        <4> QED
          BY <4>1 DEF ChainUpto
      <3>2. Len(before) = n /\ before[n] = first + n - 1
        BY <3>1
      <3>3. ChainUpto(first, n, k) = [i \in 1 .. n |-> first + i - 1]
        BY <2>2 DEF ChainUpto
      <3> HIDE DEF before
      <3>4. Step(before) = before
        BY <3>2 DEF EOC
      <3> QED
        BY <3>1, <3>3, <3>4 DEF before
    <2> QED
      BY <2>1, <2>2
  <1> HIDE DEF Step
  <1>4. IsChain(mine)
    <2>1. ASSUME NEW k \in Nat
          PROVE  mine[k] = IF k = 0 THEN <<first>> ELSE Step(mine[k - 1])
      <3>1. k # 0 => k \in Nat \ {0} /\ k - 1 \in Nat
        OBVIOUS
      <3> QED
        BY <1>2, <1>3, <3>1
    <2> QED
      BY <2>1
  <1> HIDE DEF mine
  <1>5. IsChain(upTo)
    BY <1>4
  <1> HIDE DEF upTo
  <1>6. upTo[0] = <<first>> /\ \A k \in Nat \ {0} : upTo[k] = Step(upTo[k - 1])
    BY <1>5
  <1> DEFINE Good == {k \in Nat : upTo[k] = ChainUpto(first, n, k)}
  <1>7. \A k \in 0 .. DataClusters : k \in Good
    <2>1. 0 \in Good
      BY <1>2, <1>6
    <2>2. \A k \in 1 .. DataClusters : k - 1 \in Good => k \in Good
      BY <1>3, <1>6
    <2> HIDE DEF Good
    <2> QED
      BY <2>1, <2>2, Upwards
  <1>8. Chain(first) = ChainUpto(first, n, DataClusters)
    BY <1>1, <1>7
  <1>9. (IF DataClusters < n THEN DataClusters + 1 ELSE n) = n
    OBVIOUS
  <1> QED
    BY <1>8, <1>9 DEF ChainUpto

(* What the firmware takes from the boot sector leads it to what was       *)
(* written.                                                                  *)
LEMMA FirmwareFinds ==
  ASSUME EspInv, wpc = "written"
  PROVE  /\ BootSector.root = 2 /\ IsFat32
         /\ \A c \in Nat \ {0, 1} : Cluster(c) = disk[ClusterAt(c)]
         /\ \A c \in 0 .. FAT_SIZE * LINKS - 1 : Linked(c) = fat[c]
  <1>1. EspStart = ESP_LBA
    BY DEF EspStart, EspInv, SectorsSound, Held, Gpt
  <1>2. BootSector = Bpb
    BY <1>1 DEF BootSector, EspInv, SectorsSound, Held
  <1>3. /\ BootSector.reserved = RESERVED /\ BootSector.fats = 2
        /\ BootSector.fat_size = FAT_SIZE /\ BootSector.sectors = ESP_SECTORS
        /\ BootSector.root = 2
    BY <1>2 DEF Bpb, NUM_FATS, ROOT_CLUSTER
  <1>4. FirstData = Fats + FAT_SIZE + FAT_SIZE
    BY <1>1, <1>3, EspSizes DEF FirstData, Fats
  <1>5. IsFat32
    BY <1>1, <1>3, <1>4, EspSizes DEF IsFat32, DataClusters, NUM_FATS, Fats
  <1>6. ASSUME NEW c \in Nat \ {0, 1} PROVE Cluster(c) = disk[ClusterAt(c)]
    <2>1. FirstData + c - 2 = ClusterAt(c)
      BY <1>4, Places, EspSizes
    <2> QED
      BY <2>1 DEF Cluster
  <1>7. ASSUME NEW c \in 0 .. FAT_SIZE * LINKS - 1 PROVE Linked(c) = fat[c]
    <2> DEFINE q == c \div LINKS
               r == c % LINKS
    <2>1. c \in Nat /\ c < FAT_SIZE * LINKS
      BY EspSizes
    <2>2. q \in Int /\ r \in 0 .. LINKS - 1 /\ c = LINKS * q + r
      BY <2>1, EspSizes, DivMod
    <2>3. Linked(c) = disk[Fats + q].links[r]
      BY <1>1, <1>3 DEF Linked, Fats
    <2> HIDE DEF q, r
    <2>4. /\ (q + 1) * LINKS = LINKS * q + LINKS /\ q * LINKS = LINKS * q /\ LINKS * q \in Int
          /\ 0 * LINKS = 0
      BY <2>2, EspSizes
    <2>5. 0 * LINKS < (q + 1) * LINKS /\ q * LINKS < FAT_SIZE * LINKS
      BY <2>1, <2>2, <2>4, EspSizes
    <2>6. 0 < q + 1 /\ q < FAT_SIZE
      BY <2>2, <2>5, EspSizes, LessWhole
    <2>7. q \in 0 .. FAT_SIZE - 1
      BY <2>2, <2>6, EspSizes
    <2>8. disk[Fats + q] = FatSector(q)
      BY <2>7 DEF EspInv, SectorsSound, Held
    <2>9. FatSector(q).links[r] = fat[q * LINKS + r]
      BY <2>2 DEF FatSector
    <2> QED
      BY <2>2, <2>3, <2>4, <2>8, <2>9
  <1> QED
    BY <1>3, <1>5, <1>6, <1>7

(* A directory is one cluster, and its entries are those in it. *)
LEMMA DirectoryIs ==
  ASSUME EspInv, wpc = "written", NEW c \in 2 .. 4, NEW STATE es, NEW STATE e, e \in es,
         Held(ClusterAt(c), Dir(es))
  PROVE  e \in Find(c, e.name)
  <1>1. fat[c] = EOC /\ c \in 0 .. FAT_SIZE * LINKS - 1 /\ DataClusters \in Nat
    <2>1. FAT_SIZE * LINKS \in Nat /\ FAT_SIZE * LINKS > 4 /\ DataClusters \in Nat
      BY FileSizes, EspSizes DEF EspInv
    <2> QED
      BY <2>1 DEF EspInv, FileSoFar
  <1>2. Linked(c) = EOC
    BY <1>1, FirmwareFinds
  <1>3. Chain(c) = [i \in 1 .. 1 |-> c + i - 1]
    <2>1. /\ c \in Nat \ {0, 1} /\ 1 \in Nat \ {0} /\ 1 <= DataClusters + 1
          /\ \A i \in 0 .. 1 - 2 : Linked(c + i) = c + i + 1
          /\ c + 1 - 1 = c
      BY <1>1
    <2> QED
      BY <1>1, <1>2, <2>1, ChainIs
  <1>4. 1 \in DOMAIN Chain(c) /\ Chain(c)[1] = c
    BY <1>3
  <1>5. Cluster(Chain(c)[1]).entries = es
    <2>1. Cluster(c) = Dir(es)
      BY FirmwareFinds DEF Held
    <2> QED
      BY <1>4, <2>1 DEF Dir
  <1> QED
    BY <1>4, <1>5 DEF Find

(* The chain of the loader has its clusters, and they have its bytes. *)
LEMMA LoaderIsThere ==
  ASSUME EspInv, wpc = "written", NEW STATE e, e.first = 5, e.size = efi_size
  PROVE  /\ Ended(Chain(e.first)) /\ Len(Chain(e.first)) = Ceiling(efi_size, SECTOR)
         /\ FileBytes(e) = [k \in 1 .. efi_size |-> EfiByte(k)]
  <1>1. /\ efi_size \in Nat \ {0} /\ Clusters \in Nat \ {0} /\ 3 + Clusters <= DataClusters
        /\ (Clusters - 1) * SECTOR < efi_size /\ efi_size <= Clusters * SECTOR
        /\ SECTOR \in Nat \ {0} /\ DataClusters \in Int
        /\ DataClusters + 2 <= FAT_SIZE * LINKS /\ FAT_SIZE * LINKS \in Nat
    BY FileSizes, EspSizes DEF EspInv
  <1>2. cluster = 5 + Clusters
    <2>1. remaining = efi_size /\ cluster \in 5 .. 5 + Clusters
      BY DEF EspInv, Stages, EspTypes
    <2>2. CASE cluster # 5 + Clusters
      <3>1. efi_size = (cluster - 5) * SECTOR
        BY <2>1, <2>2 DEF EspInv, FileSoFar
      <3>2. Clusters - 1 < cluster - 5
        BY <1>1, <2>1, <3>1, LessWhole
      <3> QED
        BY <1>1, <2>1, <2>2, <3>2
    <2> QED
      BY <2>2
  <1>3. \A c \in 5 .. 4 + Clusters :
          /\ Linked(c) = IF c = 4 + Clusters THEN EOC ELSE c + 1
          /\ Cluster(c) = Part((c - 5) * SECTOR, PartSize((c - 5) * SECTOR))
    <2> SUFFICES ASSUME NEW c \in 5 .. 4 + Clusters
                 PROVE  /\ Linked(c) = IF c = 4 + Clusters THEN EOC ELSE c + 1
                        /\ Cluster(c) = Part((c - 5) * SECTOR, PartSize((c - 5) * SECTOR))
      OBVIOUS
    <2>1. c \in 5 .. cluster - 1 /\ c \in 0 .. FAT_SIZE * LINKS - 1 /\ c \in Nat \ {0, 1}
      BY <1>1, <1>2
    <2>2. /\ fat[c] = IF c = 4 + Clusters THEN EOC ELSE c + 1
          /\ Held(ClusterAt(c), Part((c - 5) * SECTOR, PartSize((c - 5) * SECTOR)))
      BY <2>1 DEF EspInv, FileSoFar, SectorsSound
    <2> QED
      BY <2>1, <2>2, FirmwareFinds DEF Held
  <1>4. Chain(5) = [i \in 1 .. Clusters |-> 5 + i - 1]
    <2>1. /\ 5 \in Nat \ {0, 1} /\ DataClusters \in Nat /\ Clusters <= DataClusters + 1
          /\ 5 + Clusters - 1 = 4 + Clusters
      BY <1>1
    <2>2. \A i \in 0 .. Clusters - 2 : Linked(5 + i) = 5 + i + 1
      <3> SUFFICES ASSUME NEW i \in 0 .. Clusters - 2 PROVE Linked(5 + i) = 5 + i + 1
        OBVIOUS
      <3>1. 5 + i \in 5 .. 4 + Clusters /\ 5 + i # 4 + Clusters
        BY <1>1
      <3> QED
        BY <1>3, <3>1
    <2>3. Linked(5 + Clusters - 1) = EOC
      BY <1>1, <1>3, <2>1
    <2> QED
      BY <1>1, <2>1, <2>2, <2>3, ChainIs
  <1>5. Len(Chain(5)) = Clusters /\ Chain(5)[Clusters] = 4 + Clusters
    BY <1>1, <1>4
  <1>6. Ended(Chain(5))
    BY <1>1, <1>3, <1>5 DEF Ended
  <1>7. ASSUME NEW k \in 1 .. efi_size
        PROVE  Cluster(Chain(5)[(k - 1) \div SECTOR + 1]).bytes[((k - 1) % SECTOR) + 1] = EfiByte(k)
    <2> DEFINE y == k - 1
               q == y \div SECTOR
               r == y % SECTOR
    <2>1. y \in Nat /\ y < efi_size
      BY <1>1
    <2>2. q \in Int /\ r \in 0 .. SECTOR - 1 /\ y = SECTOR * q + r
      <3> HIDE DEF y
      <3> QED
        BY <1>1, <2>1, DivMod
    <2> HIDE DEF q, r
    <2>3. /\ (q + 1) * SECTOR = SECTOR * q + SECTOR /\ q * SECTOR = SECTOR * q
          /\ SECTOR * q \in Int /\ 0 * SECTOR = 0 /\ Clusters * SECTOR \in Int
      BY <1>1, <2>2
    <2> HIDE DEF y
    <2>4. 0 * SECTOR < (q + 1) * SECTOR /\ q * SECTOR < Clusters * SECTOR
      BY <1>1, <2>1, <2>2, <2>3
    <2>5. 0 < q + 1 /\ q < Clusters
      BY <1>1, <2>2, <2>4, LessWhole
    <2>6. q + 1 \in 1 .. Clusters /\ q + 5 \in 5 .. 4 + Clusters /\ 5 + (q + 1) - 1 = q + 5
          /\ (q + 5) - 5 = q
      BY <1>1, <2>2, <2>5
    <2>7. Chain(5)[q + 1] = q + 5
      BY <1>4, <2>6
    <2>8. Cluster(q + 5) = Part(q * SECTOR, PartSize(q * SECTOR))
      BY <1>3, <2>6
    <2>9. r + 1 \in 1 .. PartSize(q * SECTOR)
      BY <1>1, <2>1, <2>2, <2>3 DEF PartSize
    <2>10. Cluster(q + 5).bytes[r + 1] = EfiByte(q * SECTOR + (r + 1))
      <3>1. \A at, n : \A j \in 1 .. n : Part(at, n).bytes[j] = EfiByte(at + j)
        BY DEF Part
      <3> QED
        BY <2>8, <2>9, <3>1
    <2>11. q * SECTOR + (r + 1) = k
      BY <1>1, <2>2, <2>3 DEF y
    <2>12. (k - 1) \div SECTOR = q /\ (k - 1) % SECTOR = r
      BY DEF q, r, y
    <2> QED
      BY <2>7, <2>10, <2>11, <2>12
  <1>8. FileBytes(e) = [k \in 1 .. efi_size |-> EfiByte(k)]
    BY <1>7, Zenon DEF FileBytes
  <1> QED
    BY <1>5, <1>6, <1>8 DEF Clusters

(* The firmware finds the loader on the ESP and reads it, byte for byte,   *)
(* for any sizes of sectors, tables and regions and any loader that fits    *)
(* (build_image.py:171-311).                                                *)
THEOREM LoaderIsRead == FormattedSpec => []FirmwareReadsLoader
  <1>1. EspInv => FirmwareReadsLoader
    <2> SUFFICES ASSUME EspInv, wpc = "written" PROVE FirmwareReadsLoader
      BY DEF FirmwareReadsLoader
    <2> DEFINE dir  == DirEntry("EFI", 3, 0)
               boot == DirEntry("BOOT", 4, 0)
               file == DirEntry("BOOTX64.EFI", 5, efi_size)
    <2>1. /\ dir.name = "EFI" /\ dir.first = 3 /\ boot.name = "BOOT" /\ boot.first = 4
          /\ file.name = "BOOTX64.EFI" /\ file.first = 5 /\ file.size = efi_size
      BY DEF DirEntry
    <2>2. dir \in RootEntries /\ boot \in EfiEntries /\ file \in BootEntries
      BY DEF RootEntries, EfiEntries, BootEntries
    <2>3. /\ Held(ClusterAt(2), Dir(RootEntries)) /\ Held(ClusterAt(3), Dir(EfiEntries))
          /\ Held(ClusterAt(4), Dir(BootEntries))
      BY DEF EspInv, SectorsSound
    <2> HIDE DEF dir, boot, file
    <2>4. dir \in Find(2, dir.name) /\ boot \in Find(3, boot.name) /\ file \in Find(4, file.name)
      BY <2>2, <2>3, DirectoryIs
    <2>5. BootSector.root = 2 /\ IsFat32
      BY FirmwareFinds
    <2>6. /\ Ended(Chain(file.first)) /\ Len(Chain(file.first)) = Ceiling(efi_size, SECTOR)
          /\ FileBytes(file) = [k \in 1 .. efi_size |-> EfiByte(k)]
      BY <2>1, LoaderIsThere
    <2> QED
      BY <2>1, <2>4, <2>5, <2>6 DEF FirmwareReadsLoader
  <1> QED
    BY <1>1, EspInvariant, PTL

-----------------------------------------------------------------------------
(* build_image.py's main calls the formatter and does nothing of its own   *)
(* to the volume, and the machine only reads it (build_image.py:317-348).   *)
LEMMA FormatterInside == FormattedSpec => Spec
  <1>1. FormattedInit => Init
    BY DEF FormattedInit
  <1>2. [FormattedNext]_vars => [Next]_mkfsVars
    BY DEF FormattedNext, vars
  <1> QED
    BY <1>1, <1>2, PTL DEF FormattedSpec, Spec

(* So the counts, the verdict and the blocks of a volume are right on the  *)
(* image too (owfs_mkfs.py:131-281).                                        *)
THEOREM ImageKeepsVolume ==
  FormattedSpec => [](MkfsTypeOK /\ BlocksAccounted /\ SuperblockCounts /\ FullMeansFull)
  BY FormatterInside, MkfsTypes, BlocksHeldOnce, MkfsSuperblockCounts, MkfsFullMeansFull, PTL

-----------------------------------------------------------------------------
(* The driver on the formatter's volumes.  The theorems of Owfs_proofs are  *)
(* about any set of volumes; these are the ones a formatted image can be.   *)
EntriesOf  == [1 .. BLOCK_SIZE -> [inode_number : Nat, entry_type : SUBSET {"FILE"}, crc : BOOLEAN]]
PointersOf == [1 .. BLOCK_SIZE -> Nat]
FormattedVolumes ==
  [sb : {[magic |-> "OWFS", geometry |-> TRUE, crc |-> TRUE, version_major |-> 1,
          version_minor |-> 2, encrypted |-> FALSE, state_flags |-> {},
          total_inodes |-> TOTAL_INODES]},
   inodes   : [0 .. TOTAL_INODES - 1 -> InodeRecords],
   entries  : UNION {[R -> EntriesOf] : R \in SUBSET Nat},
   pointers : UNION {[R -> PointersOf] : R \in SUBSET (Nat \ {0})}]

Drv == INSTANCE Owfs_proofs WITH Volumes <- FormattedVolumes, image <- loaded,
                                 POINTERS <- BLOCK_SIZE, DiskMayFail <- FALSE

LEMMA DriverAssumed == Drv!OwfsAssumption
  <1>1. ASSUME NEW v \in FormattedVolumes
        PROVE  /\ \A n \in 0 .. v.sb.total_inodes - 1 : v.inodes[n] \in Drv!Inodes
               /\ \A b \in DOMAIN v.entries : v.entries[b] \in Seq(Drv!CatalogEntries)
               /\ DOMAIN v.pointers \subseteq Nat \ {0}
               /\ \A b \in DOMAIN v.pointers : v.pointers[b] \in [1 .. BLOCK_SIZE -> Nat]
    <2>1. \A n \in 0 .. v.sb.total_inodes - 1 : v.inodes[n] \in Drv!Inodes
      <3>1. v.sb.total_inodes = TOTAL_INODES /\ v.inodes \in [0 .. TOTAL_INODES - 1 -> InodeRecords]
        BY DEF FormattedVolumes
      <3>2. InodeRecords = Drv!Inodes
        BY DEF InodeRecords, Drv!Inodes
      <3> QED
        BY <3>1, <3>2
    <2>2. \A b \in DOMAIN v.entries : v.entries[b] \in Seq(Drv!CatalogEntries)
      <3>1. v.entries \in UNION {[R -> EntriesOf] : R \in SUBSET Nat}
        BY DEF FormattedVolumes
      <3>2. PICK R \in SUBSET Nat : v.entries \in [R -> EntriesOf]
        BY <3>1
      <3>3. EntriesOf \subseteq Seq(Drv!CatalogEntries)
        <4>1. BLOCK_SIZE \in Nat
          BY MkfsAssumption
        <4>2. [inode_number : Nat, entry_type : SUBSET {"FILE"}, crc : BOOLEAN]
                \subseteq Drv!CatalogEntries
          BY DEF Drv!CatalogEntries
        <4>3. \A T, U : T \subseteq U => [1 .. BLOCK_SIZE -> T] \subseteq [1 .. BLOCK_SIZE -> U]
          OBVIOUS
        <4>4. \A U : [1 .. BLOCK_SIZE -> U] \subseteq Seq(U)
          BY <4>1
        <4> QED
          BY <4>2, <4>3, <4>4 DEF EntriesOf
      <3> QED
        BY <3>2, <3>3
    <2>3. DOMAIN v.pointers \subseteq Nat \ {0}
          /\ \A b \in DOMAIN v.pointers : v.pointers[b] \in [1 .. BLOCK_SIZE -> Nat]
      <3>1. v.pointers \in UNION {[R -> PointersOf] : R \in SUBSET (Nat \ {0})}
        BY DEF FormattedVolumes
      <3>2. PICK R \in SUBSET (Nat \ {0}) : v.pointers \in [R -> PointersOf]
        BY <3>1
      <3> QED
        BY <3>2 DEF PointersOf
    <2> QED
      BY <2>1, <2>2, <2>3
  <1>2. /\ {DISK_BLOCKS, KERNEL_MIN, KERNEL_MAX} \subseteq Nat
        /\ {BLOCK_SIZE, DIRECT_BLOCKS, BLOCK_SIZE, MENU_MAX, DIAG_MAX} \subseteq Nat \ {0}
        /\ UINT32 \in Nat /\ UINT32 > KERNEL_MAX + BLOCK_SIZE
    BY MkfsAssumption, FormattedAssumption
  <1> QED
    BY <1>1, <1>2 DEF Drv!OwfsAssumption

LEMMA SameCodes ==
  /\ Drv!BanIoError = D!BanIoError
  /\ Drv!BanInodeChecksum = D!BanInodeChecksum
  /\ Drv!SoftBadBlockMap = D!SoftBadBlockMap
  /\ Drv!BanCatalogChecksum = D!BanCatalogChecksum
  /\ Drv!BanLoadFailed = D!BanLoadFailed
  /\ Drv!ComCatalogEnumOk = D!ComCatalogEnumOk
  /\ Drv!ComKernelLoadOk = D!ComKernelLoadOk
  /\ Drv!ComVolumeProbeOk = D!ComVolumeProbeOk
  BY SMT DEF Drv!BanIoError, D!BanIoError,
       Drv!BanInodeChecksum, D!BanInodeChecksum,
       Drv!SoftBadBlockMap, D!SoftBadBlockMap,
       Drv!BanCatalogChecksum, D!BanCatalogChecksum,
       Drv!BanLoadFailed, D!BanLoadFailed,
       Drv!ComCatalogEnumOk, D!ComCatalogEnumOk,
       Drv!ComKernelLoadOk, D!ComKernelLoadOk,
       Drv!ComVolumeProbeOk, D!ComVolumeProbeOk

LEMMA SameReads == \A n : Drv!InodeReads(n) = D!InodeReads(n)
  BY SameCodes DEF Drv!InodeReads, D!InodeReads, Drv!InodeRead, D!InodeRead, Drv!ReadOk,
                 D!ReadOk, Drv!NoInode, D!NoInode

LEMMA SameFetches == \A inode, i : Drv!Fetches(inode, i) = D!Fetches(inode, i)
  BY SameCodes DEF Drv!Fetches, D!Fetches, Drv!BlockMap, D!BlockMap, Drv!Mapped, D!Mapped,
                 Drv!Unreadable, D!Unreadable, Drv!ReadOk, D!ReadOk, Drv!Pointer, D!Pointer,
                 Drv!When, D!When

LEMMA SameScans == \A b : Drv!Scan(Drv!Entries(b), Drv!Room) = D!Scan(D!Entries(b), D!Room)
  BY SameCodes DEF Drv!Scan, D!Scan, Drv!Entries, D!Entries, Drv!Garbage, D!Garbage, Drv!Room,
                 D!Room, Drv!IsListed, D!IsListed, Drv!IsLive, D!IsLive, Drv!Cardinality,
                 D!Cardinality

LEMMA SamePropagated == Drv!Propagated = D!Propagated
  BY SameCodes DEF Drv!Propagated, D!Propagated, Drv!D!Newest, D!D!Newest

LEMMA SameRaise == \A codes : Drv!Raise(codes) <=> D!Raise(codes)
  BY DEF Drv!Raise, D!Raise, Drv!D!Keep, D!D!Keep

LEMMA SameEnumerate == Drv!Enumerate <=> D!Enumerate
  BY SameCodes, SameReads, SameRaise DEF Drv!Enumerate, D!Enumerate, Drv!EnumerateReturns,
       D!EnumerateReturns, Drv!IsSuccess, D!IsSuccess, Drv!ComcodeBlock, D!ComcodeBlock

LEMMA SameEnumerateBlock == Drv!EnumerateBlock <=> D!EnumerateBlock
  BY SameFetches, SameScans, SameRaise DEF Drv!EnumerateBlock, D!EnumerateBlock,
       Drv!EnumerateReturns, D!EnumerateReturns, Drv!NextCatalogBlock, D!NextCatalogBlock

LEMMA SameEnumerateEnd == Drv!EnumerateEnd <=> D!EnumerateEnd
  BY SameCodes, SameRaise DEF Drv!EnumerateEnd, D!EnumerateEnd, Drv!EnumerateReturns,
       D!EnumerateReturns, Drv!When, D!When

LEMMA SameUnloadable ==
  \A inode : /\ Drv!FailedLoadChecks(inode) = D!FailedLoadChecks(inode)
             /\ Drv!Unloadable(inode) = D!Unloadable(inode)
  BY DEF Drv!FailedLoadChecks, D!FailedLoadChecks, Drv!Unloadable, D!Unloadable, Drv!LoadChecks,
       D!LoadChecks, Drv!SoftNotAFile, D!SoftNotAFile, Drv!SoftKernelTooSmall,
       D!SoftKernelTooSmall, Drv!SoftKernelTooLarge, D!SoftKernelTooLarge

LEMMA SameLoadFile == \A n : Drv!LoadFile(n) <=> D!LoadFile(n)
  BY SameReads, SameRaise, SamePropagated, SameUnloadable DEF Drv!LoadFile, D!LoadFile,
       Drv!LoadReturns, D!LoadReturns

LEMMA SameLoadBlock == Drv!LoadBlock <=> D!LoadBlock
  BY SameFetches, SameRaise, SamePropagated DEF Drv!LoadBlock, D!LoadBlock, Drv!LoadReturns,
       D!LoadReturns, Drv!Bytes, D!Bytes, Drv!Copied, D!Copied, Drv!LastBytes, D!LastBytes

LEMMA SameLoadEnd == Drv!LoadEnd <=> D!LoadEnd
  BY SameCodes, SameRaise DEF Drv!LoadEnd, D!LoadEnd, Drv!LoadReturns, D!LoadReturns

LEMMA SameChecks ==
  \A s : /\ Drv!FailedChecks(s) = D!FailedChecks(s)
         /\ Drv!FirstFailed(s) = D!FirstFailed(s)
         /\ Drv!Warnings(s) = D!Warnings(s)
  BY DEF Drv!FailedChecks, D!FailedChecks, Drv!FirstFailed, D!FirstFailed, Drv!ProbeChecks,
       D!ProbeChecks, Drv!Warnings, D!Warnings, Drv!When, D!When, Drv!ComVolumeProbeOk,
       D!ComVolumeProbeOk, Drv!SoftIsUsfs, D!SoftIsUsfs, Drv!SoftNoVolume, D!SoftNoVolume,
       Drv!BanSbMagic, D!BanSbMagic, Drv!BanSbChecksum, D!BanSbChecksum,
       Drv!WarnVersionMismatch, D!WarnVersionMismatch, Drv!SoftEncryptedVolume,
       D!SoftEncryptedVolume, Drv!WarnVolumeDirty, D!WarnVolumeDirty, Drv!WarnVolumeLocked,
       D!WarnVolumeLocked, Drv!WarnStateError, D!WarnStateError

LEMMA SameProbe == Drv!Probe <=> D!Probe
  BY SameCodes, SameRaise, SameChecks DEF Drv!Probe, D!Probe, Drv!ReadOk, D!ReadOk

-----------------------------------------------------------------------------
(* The finished image, decoded. *)
LEMMA TotalGiven == Spec => [](total_blocks \in Totals)
  <1>1. total_blocks \in Totals /\ [Next]_mkfsVars => (total_blocks \in Totals)'
    BY DEF Next, Format, AllocInode, AddIndirect, AddBlock, WriteInode, CatalogInsert,
      WriteSuperblock, mkfsVars
  <1>2. Init => total_blocks \in Totals
    BY DEF Init
  <1> QED
    BY <1>1, <1>2, PTL DEF Spec

Finished == /\ mpc = "done" /\ Whole /\ total_blocks \in Totals
            /\ IInv /\ TInv /\ NInv /\ Accounted /\ Stored

LEMMA FinishedSizes ==
  ASSUME Finished
  PROVE  /\ Running /\ LargeEnough(total_blocks) /\ BLOCK_SIZE \in Nat \ {0}
         /\ DIRECT_BLOCKS \in Nat \ {0}
         /\ DataStart(total_blocks) \in Nat \ {0} /\ DataBlocks(total_blocks) \in Nat
         /\ total_blocks \in Nat /\ total_blocks <= DISK_BLOCKS /\ DISK_BLOCKS \in Nat \ {0}
         /\ total_blocks = DataStart(total_blocks) + DataBlocks(total_blocks)
         /\ Count \in Nat /\ bitmap = 0 .. Count - 1 /\ bitmap \subseteq 0 .. DataBlocks(total_blocks) - 1
         /\ image \in Seq(Cells) /\ Len(image) \in Nat
         /\ Len(image) >= DataBlocks(total_blocks) * BLOCK_SIZE
  <1>1. Running /\ LargeEnough(total_blocks) /\ bitmap \subseteq 0 .. DataBlocks(total_blocks) - 1
    BY DEF Finished, Running, IInv, BitmapSound
  <1>2. /\ BLOCK_SIZE \in Nat \ {0} /\ Count \in Nat /\ bitmap = 0 .. Count - 1
        /\ Len(image) \in Nat /\ image \in Seq(Cells)
    <2>1. IInv /\ TInv /\ mpc # "failed"
      BY DEF Finished
    <2> QED
      BY <2>1, CountIs, MkfsAssumption DEF TInv, Shapes
  <1>3. DataStart(total_blocks) \in Nat \ {0} /\ DataBlocks(total_blocks) \in Nat
    BY <1>1, Layout
  <1>4. total_blocks \in Nat /\ total_blocks >= 2 /\ total_blocks <= DISK_BLOCKS
        /\ DISK_BLOCKS \in Nat /\ DIRECT_BLOCKS \in Nat \ {0}
    <2>1. total_blocks \in Totals
      BY DEF Finished
    <2>2. total_blocks \in Nat /\ OVERHEAD \in Nat /\ total_blocks >= OVERHEAD + 2
      BY <1>1, MkfsAssumption DEF LargeEnough
    <2> QED
      BY <2>1, <2>2, FormattedAssumption, MkfsAssumption
  <1>5. DISK_BLOCKS # 0
    BY <1>4
  <1>6. total_blocks = DataStart(total_blocks) + DataBlocks(total_blocks)
    BY <1>3, <1>4 DEF DataBlocks
  <1> QED
    BY <1>1, <1>2, <1>3, <1>4, <1>5, <1>6 DEF Finished, Whole

(* A block of the data region is in the image. *)
LEMMA RegionIs ==
  ASSUME Finished, NEW b \in DataRegion, NEW k \in 1 .. BLOCK_SIZE
  PROVE  b \in Nat \ {0} /\ b < DISK_BLOCKS /\ At(b, k) \in Cells
  <1> DEFINE s == DataStart(total_blocks)
             d == DataBlocks(total_blocks)
             j == b - s
  <1>1. /\ s \in Nat \ {0} /\ d \in Nat /\ BLOCK_SIZE \in Nat \ {0} /\ image \in Seq(Cells)
        /\ Len(image) \in Nat /\ total_blocks = s + d /\ total_blocks <= DISK_BLOCKS
        /\ DISK_BLOCKS \in Nat /\ Len(image) >= d * BLOCK_SIZE
    BY FinishedSizes
  <1> HIDE DEF s, d
  <1>2. b \in s .. total_blocks - 1
    BY DEF DataRegion, s
  <1>3. b \in Nat \ {0} /\ b < DISK_BLOCKS /\ j \in Nat /\ j < d
    BY <1>1, <1>2
  <1> HIDE DEF j
  <1>4. j * BLOCK_SIZE \in Nat /\ d * BLOCK_SIZE \in Nat
        /\ j * BLOCK_SIZE + BLOCK_SIZE <= d * BLOCK_SIZE
    BY <1>1, <1>3, BlocksApart
  <1>5. PICK o \in Nat : o = j * BLOCK_SIZE
    BY <1>4
  <1>6. PICK e \in Nat : e = d * BLOCK_SIZE
    BY <1>4
  <1>7. o + BLOCK_SIZE <= e /\ e <= Len(image)
    BY <1>1, <1>4, <1>5, <1>6
  <1>8. o + k \in 1 .. Len(image)
    BY <1>1, <1>7
  <1>9. Offset(b) = o
    BY <1>5 DEF Offset, j, s
  <1>10. image[o + k] \in Cells
    BY <1>1, <1>8, ElementOfSeq
  <1> QED
    BY <1>3, <1>9, <1>10 DEF At

LEMMA MarkedIs ==
  ASSUME Finished, NEW b \in Nat, Marked(b)
  PROVE  b \in DataRegion /\ b # 0 /\ b < DISK_BLOCKS
  <1>1. /\ DataStart(total_blocks) \in Nat \ {0} /\ DataBlocks(total_blocks) \in Nat
        /\ total_blocks = DataStart(total_blocks) + DataBlocks(total_blocks)
        /\ total_blocks <= DISK_BLOCKS /\ DISK_BLOCKS \in Nat
        /\ bitmap \subseteq 0 .. DataBlocks(total_blocks) - 1
    BY FinishedSizes
  <1>2. b - DataStart(total_blocks) \in 0 .. DataBlocks(total_blocks) - 1
    BY <1>1 DEF Marked
  <1> QED
    BY <1>1, <1>2 DEF DataRegion

LEMMA WholeStored == Finished => Contents /\ Partition
  <1> SUFFICES ASSUME Finished PROVE Contents /\ Partition
    OBVIOUS
  <1> DEFINE d == DataBlocks(total_blocks)
             c == Count
  <1>1. /\ c \in Nat /\ d \in Nat /\ BLOCK_SIZE \in Nat /\ Len(image) \in Nat
        /\ bitmap = 0 .. c - 1 /\ bitmap \subseteq 0 .. d - 1 /\ Len(image) >= d * BLOCK_SIZE
    BY FinishedSizes
  <1> HIDE DEF c, d
  <1>2. c <= d
    <2>1. c > 0 => c - 1 \in bitmap
      BY <1>1
    <2> QED
      BY <1>1, <2>1
  <1>3. c * BLOCK_SIZE <= d * BLOCK_SIZE /\ c * BLOCK_SIZE \in Nat /\ d * BLOCK_SIZE \in Nat
    BY <1>1, <1>2, Products
  <1>4. Len(image) >= c * BLOCK_SIZE
    BY <1>1, <1>3
  <1>5. Reaches
    BY <1>4 DEF Reaches, c
  <1>6. Running /\ mpc # "failed"
    BY DEF Finished, Running
  <1> QED
    BY <1>5, <1>6 DEF Finished, Stored, Accounted

LEMMA VolumeIs == Finished => Volume \in FormattedVolumes
  <1> SUFFICES ASSUME Finished PROVE Volume \in FormattedVolumes
    OBVIOUS
  <1>1. inodes \in [0 .. TOTAL_INODES - 1 -> InodeRecords]
    BY DEF Finished, NInv
  <1>2. DataRegion \subseteq Nat \ {0}
    <2>1. /\ BLOCK_SIZE \in Nat \ {0} /\ DataStart(total_blocks) \in Nat \ {0}
          /\ total_blocks \in Nat
      BY FinishedSizes
    <2> QED
      BY <2>1 DEF DataRegion
  <1>3. \A b \in DataRegion : \A k \in 1 .. BLOCK_SIZE :
          At(b, k).of \in Nat /\ CatalogEntry(At(b, k)) \in
            [inode_number : Nat, entry_type : SUBSET {"FILE"}, crc : BOOLEAN]
    <2> SUFFICES ASSUME NEW b \in DataRegion, NEW k \in 1 .. BLOCK_SIZE
                 PROVE  At(b, k).of \in Nat /\ CatalogEntry(At(b, k)) \in
                          [inode_number : Nat, entry_type : SUBSET {"FILE"}, crc : BOOLEAN]
      OBVIOUS
    <2>1. PICK x \in Cells : x = At(b, k)
      BY RegionIs
    <2>2. x.of \in Nat
      BY DEF Cells
    <2>3. CatalogEntry(x) \in [inode_number : Nat, entry_type : SUBSET {"FILE"}, crc : BOOLEAN]
      <3>1. CASE x.is = "entry"
        BY <2>2, <3>1 DEF CatalogEntry
      <3>2. CASE x.is = "zero"
        BY <3>2 DEF CatalogEntry
      <3>3. CASE x.is \notin {"entry", "zero"}
        BY <3>3 DEF CatalogEntry
      <3> QED
        BY <3>1, <3>2, <3>3
    <2> QED
      BY <2>1, <2>2, <2>3
  <1>4. Volume.entries \in [DataRegion -> EntriesOf]
    <2>1. \A b \in DataRegion : [k \in 1 .. BLOCK_SIZE |-> CatalogEntry(At(b, k))] \in EntriesOf
      BY <1>3 DEF EntriesOf
    <2> QED
      BY <2>1 DEF Volume
  <1> DEFINE R == {c \in DataRegion : \A k \in 1 .. BLOCK_SIZE : At(c, k).is = "pointer"}
  <1>5. Volume.pointers \in [R -> PointersOf]
    <2>1. \A b \in R : [k \in 1 .. BLOCK_SIZE |-> At(b, k).of] \in PointersOf
      BY <1>3 DEF PointersOf
    <2> QED
      BY <2>1 DEF Volume
  <1>6. Volume.entries \in UNION {[S -> EntriesOf] : S \in SUBSET Nat}
    <2>1. DataRegion \in SUBSET Nat
      BY <1>2
    <2> QED
      BY <1>4, <2>1
  <1>7. Volume.pointers \in UNION {[S -> PointersOf] : S \in SUBSET (Nat \ {0})}
    <2>1. R \in SUBSET (Nat \ {0})
      BY <1>2
    <2> HIDE DEF R
    <2> QED
      BY <1>5, <2>1
  <1> QED
    BY <1>1, <1>6, <1>7 DEF FormattedVolumes, Volume

-----------------------------------------------------------------------------
(* The catalog, as the driver lists it. *)
FilesFrom(o, m) == [k \in 1 .. m |-> [inode |-> o + k, type |-> {"FILE"}]]

LEMMA SelectedOf ==
  ASSUME NEW es \in Seq(Drv!CatalogEntries), NEW o \in Nat, NEW m \in 0 .. Len(es),
         \A k \in 1 .. Len(es) : es[k] = CatalogEntry(IF k <= m THEN Entry(o + k) ELSE Zero)
  PROVE  Drv!Selected(es) = FilesFrom(o, m)
  <1>1. Len(es) \in Nat /\ DOMAIN es = 1 .. Len(es) /\ m \in Nat
    BY LenProperties
  <1>2. \A k \in 1 .. Len(es) : Drv!IsListed(es[k]) <=> k <= m
    <2> SUFFICES ASSUME NEW k \in 1 .. Len(es) PROVE Drv!IsListed(es[k]) <=> k <= m
      OBVIOUS
    <2>1. CASE k <= m
      <3>1. es[k] = [inode_number |-> o + k, entry_type |-> {"FILE"}, crc |-> TRUE]
        BY <2>1 DEF CatalogEntry, Entry, Cell
      <3> QED
        BY <2>1, <3>1 DEF Drv!IsListed, Drv!IsLive
    <2>2. CASE ~(k <= m)
      <3>1. es[k] = [inode_number |-> 0, entry_type |-> {}, crc |-> FALSE]
        BY <2>2 DEF CatalogEntry, Zero, Cell
      <3> QED
        BY <2>2, <3>1 DEF Drv!IsListed, Drv!IsLive
    <2> QED
      BY <2>1, <2>2
  <1>3. Drv!Passing(es) = 1 .. m
    BY <1>1, <1>2 DEF Drv!Passing
  <1>4. /\ Drv!Selected(es) \in Seq(Drv!Listed)
        /\ Len(Drv!Selected(es)) = Cardinality(Drv!Passing(es))
        /\ \A i \in Drv!Passing(es) :
             Drv!Selected(es)[Drv!Rank(Drv!Passing(es), i)] = Drv!View(es[i])
    BY DriverAssumed, Drv!SelectedRanked DEF Drv!Cardinality, Cardinality
  <1>5. Cardinality(1 .. m) = m
    BY <1>1, FS_Interval
  <1>6. \A i \in 1 .. m : Drv!Rank(1 .. m, i) = i
    <2> SUFFICES ASSUME NEW i \in 1 .. m PROVE Drv!Rank(1 .. m, i) = i
      OBVIOUS
    <2>1. {j \in 1 .. m : j <= i} = 1 .. i
      BY <1>1
    <2>2. Cardinality(1 .. i) = i
      BY <1>1, FS_Interval
    <2> QED
      BY <2>1, <2>2 DEF Drv!Rank, Drv!Cardinality, Cardinality
  <1> DEFINE s == Drv!Selected(es)
  <1>7. s \in Seq(Drv!Listed) /\ Len(s) = m
    BY <1>3, <1>4, <1>5
  <1>8. \A i \in 1 .. m : s[i] = [inode |-> o + i, type |-> {"FILE"}]
    <2> SUFFICES ASSUME NEW i \in 1 .. m PROVE s[i] = [inode |-> o + i, type |-> {"FILE"}]
      OBVIOUS
    <2>1. s[i] = Drv!View(es[i])
      BY <1>3, <1>4, <1>6
    <2>2. es[i] = [inode_number |-> o + i, entry_type |-> {"FILE"}, crc |-> TRUE]
      <3>1. i \in 1 .. Len(es) /\ i <= m
        BY <1>1
      <3>2. es[i] = CatalogEntry(Entry(o + i))
        BY <3>1
      <3> QED
        BY <3>2 DEF CatalogEntry, Entry, Cell
    <2> QED
      BY <2>1, <2>2 DEF Drv!View
  <1> HIDE DEF s
  <1>9. s = [k \in 1 .. m |-> s[k]]
    BY <1>7, LenProperties
  <1> QED
    BY <1>8, <1>9 DEF FilesFrom, s

LEMMA FilesJoined ==
  ASSUME NEW o \in Nat, NEW m \in Nat, NEW r \in Nat
  PROVE  LET x == IF m < r THEN m ELSE r
         IN  FilesFrom(0, o) \o Drv!FirstOf(r, FilesFrom(o, m)) = FilesFrom(0, o + x)
  <1> DEFINE x == IF m < r THEN m ELSE r
             T == [inode : Nat, type : {{"FILE"}}]
  <1>1. \A u, v \in Nat : FilesFrom(u, v) \in Seq(T) /\ Len(FilesFrom(u, v)) = v
    BY DEF FilesFrom
  <1>2. Drv!FirstOf(r, FilesFrom(o, m)) = FilesFrom(o, x)
    <2> DEFINE s == FilesFrom(o, m)
    <2>1. s \in Seq(T) /\ Len(s) = m
      BY <1>1
    <2>2. Drv!FirstOf(r, s) = SubSeq(s, 1, x)
      BY <2>1 DEF Drv!FirstOf
    <2>3. SubSeq(s, 1, x) = [k \in 1 .. x |-> s[k]]
      <3> HIDE DEF s
      <3>1. x \in Nat /\ x <= Len(s)
        BY <2>1
      <3> HIDE DEF x
      <3> QED
        BY <2>1, <3>1
    <2>4. x \in Nat /\ x <= m
      OBVIOUS
    <2> HIDE DEF x
    <2>5. \A k \in 1 .. x : s[k] = [inode |-> o + k, type |-> {"FILE"}]
      BY <2>4 DEF FilesFrom
    <2> QED
      BY <2>2, <2>3, <2>5 DEF FilesFrom
  <1>3. x \in Nat
    OBVIOUS
  <1> HIDE DEF x
  <1>4. FilesFrom(0, o) \o FilesFrom(o, x) = FilesFrom(0, o + x)
    <2> DEFINE s == FilesFrom(0, o)
               t == FilesFrom(o, x)
    <2>1. s \in Seq(T) /\ t \in Seq(T) /\ Len(s) = o /\ Len(t) = x
      BY <1>1, <1>3
    <2>2. \A k \in 1 .. o : s[k] = [inode |-> k, type |-> {"FILE"}]
      BY DEF FilesFrom
    <2>3. \A k \in 1 .. x : t[k] = [inode |-> o + k, type |-> {"FILE"}]
      BY DEF FilesFrom
    <2> HIDE DEF s, t
    <2>4. s \o t = [k \in 1 .. o + x |-> IF k <= o THEN s[k] ELSE t[k - o]]
      <3>1. s \o t \in Seq(T) /\ Len(s \o t) = o + x
            /\ \A k \in 1 .. o + x : (s \o t)[k] = IF k <= o THEN s[k] ELSE t[k - o]
        BY <2>1, ConcatProperties
      <3> DEFINE w == s \o t
      <3>2. w = [k \in 1 .. o + x |-> w[k]]
        <4>1. w \in Seq(T) /\ Len(w) = o + x
          BY <3>1
        <4> HIDE DEF w
        <4> QED
          BY <4>1
      <3> QED
        BY <3>1, <3>2
    <2>5. \A k \in 1 .. o + x : (IF k <= o THEN s[k] ELSE t[k - o]) = [inode |-> k, type |-> {"FILE"}]
      <3> SUFFICES ASSUME NEW k \in 1 .. o + x
                   PROVE  (IF k <= o THEN s[k] ELSE t[k - o]) = [inode |-> k, type |-> {"FILE"}]
        OBVIOUS
      <3>1. CASE k <= o
        BY <2>2, <3>1
      <3>2. CASE ~(k <= o)
        <4>1. k - o \in 1 .. x /\ o + (k - o) = k
          BY <1>3, <3>2
        <4> QED
          BY <2>3, <3>2, <4>1
      <3> QED
        BY <3>1, <3>2
    <2>6. FilesFrom(0, o + x) = [k \in 1 .. o + x |-> [inode |-> k, type |-> {"FILE"}]]
      <3>1. \A k \in 1 .. o + x : 0 + k = k
        BY <1>3
      <3> QED
        BY <3>1 DEF FilesFrom
    <2>7. s \o t = FilesFrom(0, o + x)
      BY <2>4, <2>5, <2>6
    <2> QED
      BY <2>7 DEF s, t
  <1> QED
    BY <1>2, <1>4 DEF x

(* A block the device has is fetched. *)
LEMMA DirectFetch ==
  ASSUME NEW inode, NEW i \in Nat, i < DIRECT_BLOCKS,
         inode.direct_blocks[i + 1] \in Nat \ {0}, inode.direct_blocks[i + 1] < DISK_BLOCKS,
         NEW f \in Drv!Fetches(inode, i)
  PROVE  f.block = inode.direct_blocks[i + 1] /\ f.io = FALSE
  <1>1. PICK b : b = inode.direct_blocks[i + 1]
    OBVIOUS
  <1>2. PICK m \in Drv!BlockMap(inode, i) : Drv!FetchOf(m, f)
    BY DriverAssumed, Drv!Fetched
  <1>3. m = Drv!Mapped(b, buf)
    BY <1>1 DEF Drv!BlockMap
  <1>4. m.block = b /\ m.io = FALSE
    BY <1>3 DEF Drv!Mapped
  <1>5. FALSE \notin Drv!ReadOk(b)
    <2>1. ~(b >= DISK_BLOCKS)
      BY <1>1, FormattedAssumption
    <2> QED
      BY <2>1 DEF Drv!ReadOk
  <1>6. f = [m EXCEPT !.buf = m.block]
    BY <1>1, <1>2, <1>4, <1>5 DEF Drv!FetchOf, Drv!Staged
  <1>7. f.block = m.block /\ f.io = m.io
    BY <1>3, <1>6 DEF Drv!Mapped
  <1> QED
    BY <1>1, <1>4, <1>7

-----------------------------------------------------------------------------
(* What the driver's walks go through on a finished image: they read no    *)
(* block that fails, list the files in order and load one of them.          *)
Fewer(a, b) == IF a < b THEN a ELSE b

Base == total_blocks \in Totals /\ IInv /\ TInv /\ NInv /\ Accounted /\ Stored

Machine ==
  /\ dpc = "off" =>
       /\ rc = 0 /\ found = 0 /\ entries = <<>> /\ ino = NoInode /\ idx = 0 /\ buf = 0
       /\ loaded = <<>> /\ size = 0 /\ log = <<>>
  /\ dpc # "off" => mpc = "done" /\ Whole /\ vol = Volume /\ Drv!IInv /\ Drv!DataInv

ListedUpto(e) == e <= MENU_MAX /\ entries = FilesFrom(0, e)
Walk ==
  /\ ioFailed = FALSE
  /\ dpc \in {"start", "probed"} => entries = <<>>
  /\ dpc = "enumerating" => /\ ino = inodes[0] /\ idx \in 0 .. Len(blocks)
                            /\ ListedUpto(Fewer(idx * BLOCK_SIZE, Len(files)))
  /\ dpc \in {"listed", "loading", "loaded"} =>
       found = Fewer(Len(files), MENU_MAX) /\ ListedUpto(found)
  /\ dpc \in {"loading", "loaded"} => \E f \in 1 .. found : ino = inodes[f]

Watching == Base /\ Machine /\ dpc # "off"

LEMMA WatchingIs ==
  ASSUME Watching
  PROVE  /\ Finished /\ vol = Volume /\ Drv!IInv /\ Drv!DataInv
         /\ FilesStored /\ Partition /\ inodes[0] = RootInode(blocks)
         /\ CatalogFits(blocks, Len(files)) /\ CatalogHolds(blocks, Len(files))
         /\ Len(files) \in Nat /\ Len(files) < TOTAL_INODES /\ TOTAL_INODES \in Nat
         /\ InTable = Len(files) /\ blocks \in Seq(Nat) /\ Len(blocks) \in Nat \ {0}
         /\ MENU_MAX \in Nat \ {0}
         /\ \A f \in 1 .. Len(files) : FileStored(f) /\ inodes[f] \in InodeRecords
  <1>1. Finished /\ vol = Volume /\ Drv!IInv /\ Drv!DataInv /\ mpc = "done"
    BY DEF Watching, Base, Machine, Finished
  <1>2. Contents /\ Partition /\ Running
    BY <1>1, WholeStored, FinishedSizes
  <1>3. /\ InTable \in Nat /\ InTable < TOTAL_INODES /\ Len(files) \in Nat
        /\ TOTAL_INODES \in Nat \ {0}
        /\ \A f \in 1 .. InTable : inodes[f] \in InodeRecords
    BY <1>1, <1>2, TableIs DEF Finished
  <1>4. InTable = Len(files) /\ InCatalog = Len(files)
    BY <1>1 DEF InTable, InCatalog
  <1>5. /\ inodes[0] = RootInode(blocks)
        /\ CatalogFits(blocks, Len(files)) /\ CatalogHolds(blocks, Len(files))
    BY <1>2, <1>4 DEF Contents, CatalogStored
  <1>6. blocks \in Seq(Nat)
    BY <1>1 DEF Finished, TInv, Shapes
  <1>7. Len(blocks) \in Nat \ {0}
    <2>1. Len(blocks) \in Nat /\ Len(blocks) >= 1
      BY <1>5, <1>6, LenProperties DEF CatalogFits
    <2> QED
      BY <2>1
  <1>8. MENU_MAX \in Nat \ {0}
    BY FormattedAssumption
  <1> QED
    BY <1>1, <1>2, <1>3, <1>4, <1>5, <1>6, <1>7, <1>8 DEF Contents, FilesStored

(* The inode of the root or of a file is read without a fault. *)
LEMMA ReadIs ==
  ASSUME Watching, NEW n \in 0 .. TOTAL_INODES - 1, inodes[n].entry_type # {},
         inodes[n].crc, NEW r \in Drv!InodeReads(n)
  PROVE  r.outcome = "ok" /\ r.io = FALSE /\ r.inode = inodes[n]
  <1>1. vol.sb.total_inodes = TOTAL_INODES /\ vol.inodes[n] = inodes[n]
    BY WatchingIs DEF Volume
  <1>2. Drv!ReadOk(0) = {TRUE}
    <2>1. DISK_BLOCKS \in Nat \ {0}
      BY WatchingIs, FinishedSizes
    <2>2. 0 < DISK_BLOCKS /\ ~(0 >= DISK_BLOCKS)
      BY <2>1
    <2> QED
      BY <2>2 DEF Drv!ReadOk
  <1>3. r = Drv!InodeRead("ok", <<>>, FALSE, inodes[n])
    BY <1>1, <1>2 DEF Drv!InodeReads
  <1> QED
    BY <1>3 DEF Drv!InodeRead

LEMMA ProbeWalks == Watching /\ Walk /\ Drv!Probe /\ UNCHANGED mkfsVars => Walk'
  <1> SUFFICES ASSUME Watching, Walk, Drv!Probe, UNCHANGED mkfsVars PROVE Walk'
    OBVIOUS
  <1>1. Drv!ReadOk(0) = {TRUE}
    <2>1. DISK_BLOCKS \in Nat \ {0}
      BY WatchingIs, FinishedSizes
    <2>2. 0 < DISK_BLOCKS /\ ~(0 >= DISK_BLOCKS)
      BY <2>1
    <2> QED
      BY <2>2 DEF Drv!ReadOk
  <1>2. dpc = "start" /\ dpc' = "probed" /\ ioFailed' = ioFailed /\ entries' = entries
    BY <1>1 DEF Drv!Probe
  <1> QED
    BY <1>2 DEF Walk

LEMMA EnumerateWalks == Watching /\ Walk /\ Drv!Enumerate /\ UNCHANGED mkfsVars => Walk'
  <1> SUFFICES ASSUME Watching, Walk, Drv!Enumerate, UNCHANGED mkfsVars PROVE Walk'
    OBVIOUS
  <1>1. UNCHANGED <<inodes, blocks, files>> /\ dpc = "probed" /\ entries' = entries
        /\ entries = <<>> /\ ioFailed = FALSE
    BY DEF mkfsVars, Drv!Enumerate, Walk
  <1>2. 0 \in 0 .. TOTAL_INODES - 1 /\ inodes[0].entry_type = {"CATALOG"} /\ inodes[0].crc
    BY WatchingIs DEF RootInode
  <1>3. PICK r \in Drv!InodeReads(0) :
          /\ ino' = r.inode /\ idx' = 0 /\ ioFailed' = (ioFailed \/ r.io)
          /\ r.outcome = "ok" /\ "CATALOG" \in r.inode.entry_type => dpc' = "enumerating"
    BY DEF Drv!Enumerate
  <1>4. r.outcome = "ok" /\ r.io = FALSE /\ r.inode = inodes[0]
    BY <1>2, ReadIs
  <1>5. ino' = inodes[0] /\ idx' = 0 /\ ioFailed' = FALSE /\ dpc' = "enumerating"
    BY <1>1, <1>2, <1>3, <1>4
  <1>6. FilesFrom(0, 0) = <<>> /\ Len(files) \in Nat /\ Len(blocks) \in Nat /\ MENU_MAX \in Nat
    BY WatchingIs DEF FilesFrom
  <1>7. Fewer(idx' * BLOCK_SIZE, Len(files)) = 0
    <2>1. 0 * BLOCK_SIZE = 0
      BY MkfsAssumption
    <2> QED
      BY <1>5, <1>6, <2>1 DEF Fewer
  <1> QED
    BY <1>1, <1>5, <1>6, <1>7 DEF Walk, ListedUpto

(* What a catalog block adds to the list. *)
LEMMA CatalogBlock ==
  ASSUME Watching, NEW i \in Nat, i < Len(blocks), NEW o \in Nat, o = i * BLOCK_SIZE,
         o <= Len(files), NEW b, b = blocks[i + 1]
  PROVE  /\ b \in Nat \ {0} /\ b < DISK_BLOCKS
         /\ Drv!Entries(b) \in Seq(Drv!CatalogEntries)
         /\ Drv!Selected(Drv!Entries(b)) = FilesFrom(o, Fewer(Len(files) - o, BLOCK_SIZE))
  <1>1. /\ Finished /\ vol = Volume /\ blocks \in Seq(Nat) /\ Len(blocks) \in Nat
        /\ CatalogHolds(blocks, Len(files)) /\ Len(files) \in Nat
    BY WatchingIs
  <1>2. BLOCK_SIZE \in Nat \ {0} /\ Running
    BY <1>1, FinishedSizes
  <1>3. PICK j \in 1 .. Len(blocks) : j = i + 1
    BY <1>1
  <1>4. b \in Nat /\ Marked(b)
    BY <1>1, <1>2, <1>3, ElementOfSeq DEF Finished, TInv, MarksSound
  <1>5. b \in DataRegion /\ b # 0 /\ b < DISK_BLOCKS
    BY <1>1, <1>4, MarkedIs
  <1> DEFINE es == Drv!Entries(b)
             m  == Fewer(Len(files) - o, BLOCK_SIZE)
  <1>6. es = [k \in 1 .. BLOCK_SIZE |-> CatalogEntry(At(b, k))]
    BY <1>1, <1>5 DEF Drv!Entries, Volume
  <1>7. \A k \in 1 .. BLOCK_SIZE : At(b, k) = EntryOrZero(Len(files), o + k)
    <2> SUFFICES ASSUME NEW k \in 1 .. BLOCK_SIZE PROVE At(b, k) = EntryOrZero(Len(files), o + k)
      OBVIOUS
    <2>1. CellAt(blocks[j], k) = EntryOrZero(Len(files), (j - 1) * BLOCK_SIZE + k)
      BY <1>1 DEF CatalogHolds
    <2>2. j - 1 = i
      BY <1>3
    <2>3. CellAt(b, k) = EntryOrZero(Len(files), o + k)
      BY <1>3, <2>1, <2>2, Zenon
    <2> QED
      BY <2>3 DEF CellAt, At
  <1>8. es \in Seq(Drv!CatalogEntries)
    <2>1. vol \in FormattedVolumes
      BY <1>1, VolumeIs
    <2> QED
      BY <2>1, DriverAssumed, Drv!EntriesTyped
  <1>9. m \in 0 .. BLOCK_SIZE /\ \A k \in 1 .. BLOCK_SIZE : k <= m <=> o + k <= Len(files)
    BY <1>1, <1>2 DEF Fewer
  <1>10. Len(es) = BLOCK_SIZE
    BY <1>2, <1>6
  <1>11. ASSUME NEW k \in 1 .. BLOCK_SIZE
         PROVE  es[k] = CatalogEntry(IF k <= m THEN Entry(o + k) ELSE Zero)
    <2>1. es[k] = CatalogEntry(At(b, k))
      BY <1>6
    <2>2. At(b, k) = IF k <= m THEN Entry(o + k) ELSE Zero
      BY <1>7, <1>9 DEF EntryOrZero
    <2> QED
      BY <2>1, <2>2
  <1> HIDE DEF es, m
  <1>12. Drv!Selected(es) = FilesFrom(o, m)
    BY <1>8, <1>9, <1>10, <1>11, SelectedOf
  <1> QED
    BY <1>4, <1>5, <1>8, <1>12 DEF es, m

LEMMA EnumerateBlockWalks ==
  Watching /\ Walk /\ Drv!EnumerateBlock /\ UNCHANGED mkfsVars => Walk'
  <1> SUFFICES ASSUME Watching, Walk, Drv!EnumerateBlock, UNCHANGED mkfsVars PROVE Walk'
    OBVIOUS
  <1>1. UNCHANGED <<inodes, blocks, files, ino>> /\ dpc = "enumerating" /\ ioFailed = FALSE
        /\ ino = inodes[0] /\ idx \in 0 .. Len(blocks) /\ idx < ino.block_count
        /\ ListedUpto(Fewer(idx * BLOCK_SIZE, Len(files)))
    BY DEF mkfsVars, Drv!EnumerateBlock, Walk
  <1>2. /\ Finished /\ inodes[0] = RootInode(blocks) /\ blocks \in Seq(Nat) /\ Len(blocks) \in Nat
        /\ CatalogFits(blocks, Len(files)) /\ Len(files) \in Nat /\ MENU_MAX \in Nat \ {0}
        /\ BLOCK_SIZE \in Nat \ {0} /\ DIRECT_BLOCKS \in Nat \ {0}
    BY WatchingIs, FinishedSizes
  <1>3. PICK i \in Nat : i = idx
    BY <1>1
  <1>4. i < Len(blocks)
    BY <1>1, <1>2, <1>3 DEF RootInode
  <1>5. PICK o \in Nat : o = i * BLOCK_SIZE
    BY <1>2
  <1>6. o <= Len(files)
    <2>1. CASE i = 0
      BY <1>2, <1>5, <2>1
    <2>2. CASE i # 0
      <3>1. Len(blocks) > 1 /\ i <= Len(blocks) - 1 /\ Len(blocks) - 1 \in Nat
        BY <1>2, <1>4, <2>2
      <3>2. PICK c \in Nat : c = (Len(blocks) - 1) * BLOCK_SIZE
        BY <1>2, <3>1
      <3>3. c < Len(files)
        BY <1>2, <3>1, <3>2 DEF CatalogFits
      <3>4. o <= c
        <4>1. PICK l \in Nat : l = Len(blocks) - 1
          BY <3>1
        <4>2. i * BLOCK_SIZE <= l * BLOCK_SIZE
          BY <1>2, <3>1, <4>1, Products
        <4> QED
          BY <1>5, <3>2, <4>1, <4>2
      <3> QED
        BY <1>2, <3>2, <3>3, <3>4
    <2> QED
      BY <2>1, <2>2
  <1>7. o <= MENU_MAX /\ entries = FilesFrom(0, o)
    <2>1. Fewer(idx * BLOCK_SIZE, Len(files)) = o
      BY <1>2, <1>3, <1>5, <1>6 DEF Fewer
    <2> QED
      BY <1>1, <2>1 DEF ListedUpto
  <1>8. i < DIRECT_BLOCKS
    <2>1. PICK d \in Nat : d = DIRECT_BLOCKS * BLOCK_SIZE
      BY <1>2
    <2>2. o < d
      BY <1>2, <1>7, <2>1, FormattedAssumption
    <2>3. i * BLOCK_SIZE < DIRECT_BLOCKS * BLOCK_SIZE
      BY <1>5, <2>1, <2>2
    <2> QED
      BY <1>2, <2>3, LessWhole
  <1>9. PICK b : b = blocks[i + 1]
    OBVIOUS
  <1> PICK m : m = Fewer(Len(files) - o, BLOCK_SIZE)
    OBVIOUS
  <1> PICK r : r = MENU_MAX - o
    OBVIOUS
  <1> DEFINE es == Drv!Entries(b)
  <1>10. /\ b \in Nat \ {0} /\ b < DISK_BLOCKS /\ es \in Seq(Drv!CatalogEntries)
         /\ Drv!Selected(es) = FilesFrom(o, m)
    BY <1>2, <1>4, <1>5, <1>6, <1>9, CatalogBlock
  <1>11. b = ino.direct_blocks[i + 1]
    <2>1. i + 1 \in 1 .. DIRECT_BLOCKS /\ i + 1 <= Len(blocks)
      BY <1>2, <1>4, <1>8
    <2> QED
      BY <1>1, <1>2, <1>9, <2>1 DEF RootInode
  <1>12. PICK f \in Drv!Fetches(ino, idx) :
           /\ ioFailed' = (ioFailed \/ f.io)
           /\ f.block # 0 =>
                LET scan == Drv!Scan(Drv!Entries(f.block), Drv!Room) IN
                /\ entries' = entries \o scan.found
                /\ \/ /\ scan.full /\ dpc' = "listed" /\ found' = Len(entries')
                   \/ /\ ~scan.full /\ idx' = idx + 1 /\ UNCHANGED dpc
    BY DEF Drv!EnumerateBlock, Drv!EnumerateReturns, Drv!NextCatalogBlock
  <1>13. f.block = b /\ f.io = FALSE
    <2>1. f \in Drv!Fetches(ino, i)
      BY <1>3, <1>12
    <2>2. ino.direct_blocks[i + 1] \in Nat \ {0} /\ ino.direct_blocks[i + 1] < DISK_BLOCKS
      BY <1>10, <1>11
    <2> QED
      BY <1>8, <1>11, <2>1, <2>2, DirectFetch
  <1>14. m \in Nat /\ m <= BLOCK_SIZE /\ m <= Len(files) - o
         /\ (m = BLOCK_SIZE \/ m = Len(files) - o) /\ r \in Nat
    BY <1>2, <1>6, <1>7 DEF Fewer
  <1>15. \A u, v \in Nat : FilesFrom(u, v) \in Seq([inode : Nat, type : {{"FILE"}}])
                           /\ Len(FilesFrom(u, v)) = v
    BY DEF FilesFrom
  <1>16. Drv!Room = r
    BY <1>7, <1>15 DEF Drv!Room
  <1> DEFINE scan == Drv!Scan(es, r)
  <1>17. scan.found = Drv!FirstOf(r, FilesFrom(o, m)) /\ (scan.full <=> m > r)
    <2>1. r \in Nat
      BY <1>14
    <2> HIDE DEF es
    <2>2. /\ Drv!Scan(es, r).found = Drv!FirstOf(r, Drv!Selected(es))
          /\ Drv!Scan(es, r).full <=> Len(Drv!Selected(es)) > r
      BY <1>10, <2>1, DriverAssumed, Drv!ScanIsFirst
    <2>3. Len(FilesFrom(o, m)) = m
      BY <1>14, <1>15
    <2> QED
      BY <1>10, <2>2, <2>3
  <1>18. /\ ioFailed' = FALSE
         /\ entries' = FilesFrom(0, o) \o scan.found
         /\ \/ scan.full /\ dpc' = "listed" /\ found' = Len(entries')
            \/ ~scan.full /\ idx' = i + 1 /\ dpc' = "enumerating"
    <2> QED
      BY <1>1, <1>3, <1>7, <1>10, <1>12, <1>13, <1>16
  <1> DEFINE x == IF m < r THEN m ELSE r
  <1>19. entries' = FilesFrom(0, o + x) /\ o + x \in Nat /\ Len(entries') = o + x
    <2>1. entries' = FilesFrom(0, o + x)
      <3>1. FilesFrom(0, o) \o Drv!FirstOf(r, FilesFrom(o, m)) = FilesFrom(0, o + x)
        BY <1>14, FilesJoined
      <3>2. scan.found = Drv!FirstOf(r, FilesFrom(o, m)) /\ entries' = FilesFrom(0, o) \o scan.found
        BY <1>17, <1>18
      <3> HIDE DEF scan, x
      <3> QED
        BY <3>1, <3>2
    <2>2. o + x \in Nat
      BY <1>14
    <2> QED
      BY <1>15, <2>1, <2>2
  <1> HIDE DEF scan, es
  <1>20. CASE m > r
    <2>1. dpc' = "listed" /\ found' = o + x
      BY <1>17, <1>18, <1>19, <1>20
    <2>2. o + x = MENU_MAX /\ MENU_MAX < Len(files)
      BY <1>2, <1>14, <1>20
    <2>3. Fewer(Len(files), MENU_MAX) = MENU_MAX
      BY <1>2, <2>2 DEF Fewer
    <2>4. files' = files
      BY <1>1
    <2>5. Fewer(Len(files'), MENU_MAX) = found' /\ found' <= MENU_MAX
          /\ entries' = FilesFrom(0, found')
      BY <1>2, <1>19, <2>1, <2>2, <2>3, <2>4
    <2> QED
      BY <1>18, <2>1, <2>5 DEF Walk, ListedUpto
  <1>21. CASE ~(m > r)
    <2>1. dpc' = "enumerating" /\ idx' = i + 1
      BY <1>17, <1>18, <1>19, <1>21
    <2>2. o + x = o + m /\ o + m <= MENU_MAX
      BY <1>2, <1>14, <1>21
    <2>3. idx' * BLOCK_SIZE = o + BLOCK_SIZE
      BY <1>2, <1>5, <2>1
    <2>4. Fewer(o + BLOCK_SIZE, Len(files)) = o + m
      BY <1>2, <1>14 DEF Fewer
    <2>5. idx' \in 0 .. Len(blocks)
      BY <1>2, <1>4, <2>1
    <2>6. ino' = inodes'[0] /\ blocks' = blocks /\ files' = files
      BY <1>1
    <2> HIDE DEF x
    <2> QED
      BY <1>18, <1>19, <2>1, <2>2, <2>3, <2>4, <2>5, <2>6 DEF Walk, ListedUpto
  <1> QED
    BY <1>20, <1>21

LEMMA EnumerateEndWalks == Watching /\ Walk /\ Drv!EnumerateEnd /\ UNCHANGED mkfsVars => Walk'
  <1> SUFFICES ASSUME Watching, Walk, Drv!EnumerateEnd, UNCHANGED mkfsVars PROVE Walk'
    OBVIOUS
  <1>1. UNCHANGED <<inodes, blocks, files, ino, entries, ioFailed>> /\ dpc = "enumerating"
        /\ dpc' = "listed" /\ found' = Len(entries) /\ ioFailed = FALSE
        /\ ino = inodes[0] /\ idx \in 0 .. Len(blocks) /\ idx >= ino.block_count
        /\ ListedUpto(Fewer(idx * BLOCK_SIZE, Len(files)))
    BY DEF mkfsVars, Drv!EnumerateEnd, Drv!EnumerateReturns, Walk
  <1>2. /\ Finished /\ inodes[0] = RootInode(blocks) /\ blocks \in Seq(Nat) /\ Len(blocks) \in Nat
        /\ CatalogFits(blocks, Len(files)) /\ Len(files) \in Nat /\ MENU_MAX \in Nat \ {0}
        /\ BLOCK_SIZE \in Nat \ {0}
    BY WatchingIs, FinishedSizes
  <1>3. idx = Len(blocks)
    BY <1>1, <1>2 DEF RootInode
  <1>4. Fewer(idx * BLOCK_SIZE, Len(files)) = Len(files)
    <2>1. PICK c \in Nat : c = Len(blocks) * BLOCK_SIZE
      BY <1>2
    <2>2. Len(files) <= c
      BY <1>2, <2>1 DEF CatalogFits
    <2>3. Fewer(c, Len(files)) = Len(files)
      BY <1>2, <2>2 DEF Fewer
    <2> QED
      BY <1>3, <2>1, <2>3
  <1>5. Len(files) <= MENU_MAX /\ entries = FilesFrom(0, Len(files))
    BY <1>1, <1>4 DEF ListedUpto
  <1>6. Len(entries) = Len(files)
    BY <1>2, <1>5 DEF FilesFrom
  <1>7. Fewer(Len(files), MENU_MAX) = Len(files)
    BY <1>2, <1>5 DEF Fewer
  <1> QED
    BY <1>1, <1>5, <1>6, <1>7 DEF Walk, ListedUpto

(* The block that the driver maps an index of a file to is the one that the *)
(* formatter put that part of the file in.                                  *)
LEMMA FileMapped ==
  ASSUME Watching, NEW f \in 1 .. Len(files), NEW j \in 0 .. inodes[f].block_count - 1
  PROVE  /\ Drv!IsMapped(inodes[f], j)
         /\ Drv!BlockOf(inodes[f], j) = BlockNo(inodes[f], j)
         /\ Holding(BlockNo(inodes[f], j), f, j, files[f])
  <1> PICK inode : inode = inodes[f]
    OBVIOUS
  <1> PICK b : b = BlockNo(inode, j)
    OBVIOUS
  <1>1. /\ Finished /\ vol = Volume /\ Partition /\ FileStored(f) /\ inode \in InodeRecords
        /\ InTable = Len(files) /\ f \in 1 .. InTable
    BY WatchingIs
  <1>2. IInv /\ TInv /\ NInv /\ Running
    BY <1>1, FinishedSizes DEF Finished
  <1>3. /\ \A i \in 0 .. inode.block_count - 1 : BlockNo(inode, i) \in Holds(f)
        /\ inode.block_count > DIRECT_BLOCKS => inode.indirect_block \in Holds(f)
        /\ inode.block_count \in Nat /\ DIRECT_BLOCKS \in Nat \ {0} /\ BLOCK_SIZE \in Nat \ {0}
    BY <1>1, <1>2, StoredHeld
  <1>4. /\ inode.block_count <= DIRECT_BLOCKS + BLOCK_SIZE
        /\ Marked(b) /\ Holding(b, f, j, files[f])
        /\ inode.block_count > DIRECT_BLOCKS =>
             \A k \in 1 .. BLOCK_SIZE : CellAt(inode.indirect_block, k).is = "pointer"
    BY <1>1 DEF FileStored, InodeFits, StoredIn
  <1>5. f \in DOMAIN inodes
    BY <1>1, <1>2, TableIs
  <1>6. \A c \in Holds(f) : c \in Nat /\ Marked(c)
    BY <1>1, <1>5 DEF Partition
  <1>7. \A c \in Holds(f) : c \in DataRegion /\ c # 0 /\ c < DISK_BLOCKS /\ c \in Nat
    BY <1>1, <1>6, MarkedIs
  <1>8. b \in Nat /\ b # 0 /\ b < DISK_BLOCKS
    BY <1>3, <1>7
  <1>9. b \in 1 .. DISK_BLOCKS - 1
    BY <1>8, FormattedAssumption
  <1>10. CASE j < DIRECT_BLOCKS
    <2>1. Drv!BlockOf(inode, j) = b
      BY <1>10 DEF Drv!BlockOf, BlockNo
    <2>2. ~(j >= DIRECT_BLOCKS) /\ j < DIRECT_BLOCKS + BLOCK_SIZE
      BY <1>3, <1>10
    <2> QED
      BY <1>4, <1>9, <2>1, <2>2 DEF Drv!IsMapped
  <1>11. CASE ~(j < DIRECT_BLOCKS)
    <2> PICK p : p = inode.indirect_block
      OBVIOUS
    <2>1. /\ inode.block_count > DIRECT_BLOCKS /\ j < DIRECT_BLOCKS + BLOCK_SIZE
          /\ j - DIRECT_BLOCKS + 1 \in 1 .. BLOCK_SIZE
      BY <1>3, <1>4, <1>11
    <2>2. p \in DataRegion /\ \A k \in 1 .. BLOCK_SIZE : At(p, k).is = "pointer"
      BY <1>3, <1>4, <1>7, <2>1 DEF CellAt, At
    <2>3. p \in DOMAIN Volume.pointers
          /\ \A k \in 1 .. BLOCK_SIZE : Volume.pointers[p][k] = At(p, k).of
      BY <2>2 DEF Volume
    <2>4. Volume.pointers[p][j - DIRECT_BLOCKS + 1] = b
      BY <1>11, <2>1, <2>3 DEF BlockNo, CellAt, At
    <2>5. Drv!BlockOf(inode, j) = b
      BY <1>1, <1>11, <2>4 DEF Drv!BlockOf
    <2> QED
      BY <1>1, <1>4, <1>9, <2>1, <2>3, <2>5 DEF Drv!IsMapped
  <1> QED
    BY <1>10, <1>11

(* What the driver fetches of a file is there, and no read fails. *)
LEMMA FileFetch ==
  ASSUME Watching, NEW f \in 1 .. Len(files), NEW j \in 0 .. inodes[f].block_count - 1,
         NEW r \in Drv!Fetches(inodes[f], j)
  PROVE  r.block # 0 /\ r.io = FALSE
  <1> PICK inode : inode = inodes[f]
    OBVIOUS
  <1>1. /\ Finished /\ vol = Volume /\ Drv!IInv /\ Drv!DataInv /\ inode \in InodeRecords
    BY WatchingIs
  <1>2. Drv!IsMapped(inode, j)
    BY FileMapped
  <1>3. PICK b : b = Drv!BlockOf(inode, j)
    OBVIOUS
  <1>4. /\ b \in 1 .. DISK_BLOCKS - 1 /\ j < DIRECT_BLOCKS + BLOCK_SIZE
        /\ j >= DIRECT_BLOCKS => inode.indirect_block \in DOMAIN vol.pointers
    BY <1>2, <1>3 DEF Drv!IsMapped
  <1>5. /\ DIRECT_BLOCKS \in Nat \ {0} /\ DISK_BLOCKS \in Nat /\ j \in Nat
        /\ BLOCK_SIZE \in Nat
    BY <1>1, FinishedSizes DEF InodeRecords
  <1>6. \A c \in Nat : c < DISK_BLOCKS => Drv!ReadOk(c) = {TRUE} /\ FALSE \notin Drv!ReadOk(c)
    <2> SUFFICES ASSUME NEW c \in Nat, c < DISK_BLOCKS
                 PROVE  Drv!ReadOk(c) = {TRUE} /\ FALSE \notin Drv!ReadOk(c)
      OBVIOUS
    <2>1. ~(c >= DISK_BLOCKS)
      BY <1>5
    <2>2. Drv!ReadOk(c) = {TRUE}
      BY <2>1 DEF Drv!ReadOk
    <2>3. FALSE \notin {TRUE}
      OBVIOUS
    <2> QED
      BY <2>2, <2>3
  <1>7. PICK m \in Drv!BlockMap(inode, j) : Drv!FetchOf(m, r)
    BY DriverAssumed, Drv!Fetched
  <1>8. m.block = b /\ m.io = FALSE /\ \A x : [m EXCEPT !.buf = x].io = FALSE
                                            /\ [m EXCEPT !.buf = x].block = b
    <2>1. CASE j < DIRECT_BLOCKS
      <3>1. m = Drv!Mapped(b, buf)
        BY <1>3, <1>7, <2>1 DEF Drv!BlockMap, Drv!BlockOf
      <3> QED
        BY <3>1 DEF Drv!Mapped
    <2>2. CASE ~(j < DIRECT_BLOCKS)
      <3> PICK p : p = inode.indirect_block
        OBVIOUS
      <3>1. p \in DOMAIN Volume.pointers /\ p # 0 /\ p \in Nat /\ p < DISK_BLOCKS
        <4>1. p \in DOMAIN Volume.pointers
          BY <1>1, <1>4, <1>5, <2>2
        <4>2. p \in DataRegion
          BY <4>1 DEF Volume
        <4> QED
          BY <1>1, <4>1, <4>2, RegionIs, FinishedSizes
      <3>2. Drv!ReadOk(p) = {TRUE}
        BY <1>6, <3>1
      <3>3. j - DIRECT_BLOCKS < BLOCK_SIZE
        BY <1>4, <1>5
      <3>4. Drv!Pointer(p, j - DIRECT_BLOCKS) = {vol.pointers[p][j - DIRECT_BLOCKS + 1]}
        BY <1>1, <3>1, <3>3 DEF Drv!Pointer
      <3>5. vol.pointers[p][j - DIRECT_BLOCKS + 1] = b
        BY <1>3, <2>2 DEF Drv!BlockOf
      <3>6. Drv!Pointer(inode.indirect_block, j - DIRECT_BLOCKS) = {b}
            /\ Drv!ReadOk(inode.indirect_block) = {TRUE} /\ inode.indirect_block # 0
        BY <3>1, <3>2, <3>4, <3>5
      <3>7. m = Drv!Mapped(b, p)
        BY <1>7, <2>2, <3>6 DEF Drv!BlockMap
      <3> QED
        BY <3>7 DEF Drv!Mapped
    <2> QED
      BY <2>1, <2>2
  <1>9. b \in Nat /\ b # 0 /\ FALSE \notin Drv!ReadOk(b)
    <2>1. b \in Nat /\ b # 0 /\ b < DISK_BLOCKS
      BY <1>4, <1>5
    <2> QED
      BY <1>6, <2>1
  <1>10. r = [m EXCEPT !.buf = m.block]
    BY <1>7, <1>8, <1>9 DEF Drv!FetchOf, Drv!Staged
  <1> QED
    BY <1>8, <1>9, <1>10

(* A file of a size that the driver takes is one it can load. *)
LEMMA FileWellFormed ==
  ASSUME Watching, NEW f \in 1 .. Len(files)
  PROVE  /\ inodes[f].entry_type = {"FILE"} /\ inodes[f].crc /\ inodes[f].size_bytes = files[f]
         /\ files[f] \in KERNEL_MIN .. KERNEL_MAX => Drv!WellFormedFile(inodes[f])
  <1>1. FileStored(f)
    BY WatchingIs
  <1>2. /\ inodes[f].entry_type = {"FILE"} /\ inodes[f].crc /\ inodes[f].size_bytes = files[f]
        /\ inodes[f].block_count = (files[f] + BLOCK_SIZE - 1) \div BLOCK_SIZE
    BY <1>1 DEF FileStored, InodeFits, BlocksFor
  <1>3. Drv!WellMapped(inodes[f])
    BY FileMapped DEF Drv!WellMapped
  <1> QED
    BY <1>2, <1>3, Zenon DEF Drv!WellFormedFile

(* What is listed are files. *)
LEMMA ListedIs ==
  ASSUME Watching, Walk, dpc \in {"listed", "loading", "loaded"}
  PROVE  /\ found \in Nat /\ found <= Len(files) /\ found \in 0 .. MENU_MAX
         /\ \A i \in 1 .. found : entries[i].inode = i /\ i \in 1 .. Len(files)
  <1>1. found = Fewer(Len(files), MENU_MAX) /\ entries = FilesFrom(0, found)
    BY DEF Walk, ListedUpto
  <1>2. Len(files) \in Nat /\ MENU_MAX \in Nat
    BY WatchingIs
  <1>3. found \in Nat /\ found <= Len(files) /\ found \in 0 .. MENU_MAX
    BY <1>1, <1>2 DEF Fewer
  <1>4. \A i \in 1 .. found : entries[i].inode = 0 + i
    BY <1>1 DEF FilesFrom
  <1> QED
    BY <1>2, <1>3, <1>4

LEMMA LoadFileWalks ==
  Watching /\ Walk /\ (\E i \in 1 .. found : Drv!LoadFile(entries[i].inode)) /\ UNCHANGED mkfsVars
    => Walk'
  <1> SUFFICES ASSUME Watching, Walk, NEW i \in 1 .. found, Drv!LoadFile(entries[i].inode),
                      UNCHANGED mkfsVars
               PROVE  Walk'
    OBVIOUS
  <1>1. UNCHANGED <<inodes, blocks, files, entries, found>> /\ dpc = "listed" /\ ioFailed = FALSE
        /\ found = Fewer(Len(files), MENU_MAX) /\ ListedUpto(found)
    BY DEF mkfsVars, Drv!LoadFile, Walk
  <1>2. entries[i].inode = i /\ i \in 1 .. Len(files)
    BY <1>1, ListedIs
  <1>3. i \in 0 .. TOTAL_INODES - 1 /\ inodes[i].entry_type # {} /\ inodes[i].crc
    <2>1. /\ Len(files) \in Nat /\ Len(files) < TOTAL_INODES /\ TOTAL_INODES \in Nat
      BY WatchingIs
    <2>2. inodes[i].entry_type = {"FILE"} /\ inodes[i].crc
      BY <1>2, FileWellFormed
    <2> QED
      BY <1>2, <2>1, <2>2
  <1>4. PICK r \in Drv!InodeReads(i) : /\ ino' = r.inode /\ ioFailed' = (ioFailed \/ r.io)
                                       /\ dpc' \in {"loading", "loaded"}
    BY <1>2 DEF Drv!LoadFile, Drv!LoadReturns
  <1>5. r.io = FALSE /\ r.inode = inodes[i]
    BY <1>3, ReadIs
  <1>6. ioFailed' = FALSE /\ ino' = inodes'[i] /\ i \in 1 .. found'
    BY <1>1, <1>4, <1>5
  <1> QED
    BY <1>1, <1>4, <1>6 DEF Walk, ListedUpto

LEMMA LoadBlockWalks == Watching /\ Walk /\ Drv!LoadBlock /\ UNCHANGED mkfsVars => Walk'
  <1> SUFFICES ASSUME Watching, Walk, Drv!LoadBlock, UNCHANGED mkfsVars PROVE Walk'
    OBVIOUS
  <1>1. UNCHANGED <<inodes, blocks, files, entries, found, ino>> /\ dpc = "loading"
        /\ idx < ino.block_count /\ ioFailed = FALSE
        /\ found = Fewer(Len(files), MENU_MAX) /\ ListedUpto(found)
    BY DEF mkfsVars, Drv!LoadBlock, Walk
  <1>2. PICK f \in 1 .. found : ino = inodes[f]
    BY <1>1 DEF Walk
  <1>3. f \in 1 .. Len(files)
    BY <1>1, ListedIs
  <1>4. idx \in 0 .. inodes[f].block_count - 1
    <2>1. idx \in Nat
      BY WatchingIs DEF Drv!IInv, Drv!InodeSound
    <2>2. inodes[f].block_count \in Nat
      BY <1>3, WatchingIs DEF InodeRecords
    <2> QED
      BY <1>1, <1>2, <2>1, <2>2
  <1>5. PICK r \in Drv!Fetches(ino, idx) : /\ ioFailed' = (ioFailed \/ r.io)
                                           /\ dpc' \in {"loading", "loaded"}
    BY <1>1 DEF Drv!LoadBlock, Drv!LoadReturns
  <1>6. r.io = FALSE
    BY <1>2, <1>3, <1>4, <1>5, FileFetch
  <1>7. ioFailed' = FALSE /\ ino' = inodes'[f] /\ f \in 1 .. found'
    BY <1>1, <1>2, <1>5, <1>6
  <1> QED
    BY <1>1, <1>5, <1>7 DEF Walk, ListedUpto

LEMMA LoadEndWalks == Watching /\ Walk /\ Drv!LoadEnd /\ UNCHANGED mkfsVars => Walk'
  <1> SUFFICES ASSUME Watching, Walk, Drv!LoadEnd, UNCHANGED mkfsVars PROVE Walk'
    OBVIOUS
  <1>1. UNCHANGED <<inodes, blocks, files, entries, found, ino, ioFailed>> /\ dpc = "loading"
        /\ dpc' = "loaded" /\ ioFailed = FALSE
        /\ found = Fewer(Len(files), MENU_MAX) /\ ListedUpto(found)
    BY DEF mkfsVars, Drv!LoadEnd, Drv!LoadReturns, Walk
  <1>2. PICK f \in 1 .. found : ino = inodes[f]
    BY <1>1 DEF Walk
  <1>3. ino' = inodes'[f] /\ f \in 1 .. found'
    BY <1>1, <1>2
  <1> QED
    BY <1>1, <1>3 DEF Walk, ListedUpto

(* A step of the driver, and its own invariants. *)
DriverStep == \/ Drv!Probe \/ Drv!Enumerate \/ Drv!EnumerateBlock \/ Drv!EnumerateEnd
              \/ (\E i \in 1 .. found : Drv!LoadFile(entries[i].inode))
              \/ Drv!LoadBlock \/ Drv!LoadEnd

LEMMA DriverWalks == Watching /\ Walk /\ DriverStep /\ UNCHANGED mkfsVars => Walk'
  BY ProbeWalks, EnumerateWalks, EnumerateBlockWalks, EnumerateEndWalks, LoadFileWalks,
     LoadBlockWalks, LoadEndWalks DEF DriverStep

LEMMA DriverKeeps ==
  Watching /\ Walk /\ DriverStep
    => Drv!IInv' /\ Drv!DataInv' /\ vol' = vol /\ dpc' # "off"
  <1> SUFFICES ASSUME Watching, Walk, DriverStep
               PROVE  Drv!IInv' /\ Drv!DataInv' /\ vol' = vol /\ dpc' # "off"
    OBVIOUS
  <1>1. Drv!IInv /\ Drv!DataInv
    BY WatchingIs
  <1>2. Drv!IInv' /\ Drv!DataInv'
    <2>1. CASE Drv!Probe
      BY <1>1, <2>1, DriverAssumed, Drv!ProbePreserves, Drv!ProbeData
    <2>2. CASE Drv!Enumerate
      BY <1>1, <2>2, DriverAssumed, Drv!EnumeratePreserves, Drv!EnumerateData
    <2>3. CASE Drv!EnumerateBlock
      BY <1>1, <2>3, DriverAssumed, Drv!EnumerateBlockPreserves, Drv!EnumerateBlockData
    <2>4. CASE Drv!EnumerateEnd
      BY <1>1, <2>4, DriverAssumed, Drv!EnumerateEndPreserves, Drv!EnumerateEndData
    <2>5. ASSUME NEW i \in 1 .. found, Drv!LoadFile(entries[i].inode)
          PROVE  Drv!IInv' /\ Drv!DataInv'
      <3>1. dpc = "listed"
        BY <2>5 DEF Drv!LoadFile
      <3>2. found \notin {-1, -3, -4}
        BY <3>1, ListedIs
      <3>3. Drv!IInv'
        BY <1>1, <2>5, <3>2, DriverAssumed, Drv!LoadFilePreserves
      <3>4. Drv!DataInv'
        BY <1>1, <2>5, DriverAssumed, Drv!LoadFileData
      <3> QED
        BY <3>3, <3>4
    <2>6. CASE Drv!LoadBlock
      BY <1>1, <2>6, DriverAssumed, Drv!LoadBlockPreserves, Drv!LoadBlockData
    <2>7. CASE Drv!LoadEnd
      BY <1>1, <2>7, DriverAssumed, Drv!LoadEndPreserves, Drv!LoadEndData
    <2> QED
      BY <2>1, <2>2, <2>3, <2>4, <2>5, <2>6, <2>7 DEF DriverStep
  <1>3. vol' = vol
    BY DEF DriverStep, Drv!Probe, Drv!Enumerate, Drv!EnumerateBlock, Drv!EnumerateEnd,
           Drv!LoadFile, Drv!LoadBlock, Drv!LoadEnd
  <1>4. dpc' # "off"
    <2>1. dpc' \in {"start", "probed", "enumerating", "listed", "loading", "loaded"}
      BY <1>2 DEF Drv!DataInv, Drv!TypeOK
    <2> QED
      BY <2>1
  <1> QED
    BY <1>2, <1>3, <1>4

-----------------------------------------------------------------------------
(* The machine, from the formatter's first step to the end of a load.       *)
LEMMA VolumeRests == UNCHANGED mkfsVars => Volume' = Volume /\ Whole' = Whole /\ mpc' = mpc
  BY DEF mkfsVars, Volume, Whole, DataRegion, At, Offset, CatalogEntry, DataStart, DataBlocks,
         BitmapBlocks

LEMMA InitLater == Drv!Init' => Drv!IInv' /\ Drv!DataInv'
  BY DriverAssumed, Drv!InitIInv, Drv!InitDataInv, PTL

LEMMA InitMachine == FormattedInit => Machine /\ Walk
  BY DEF FormattedInit, Machine, Walk

LEMMA OffRests ==
  Machine /\ Walk /\ dpc = "off" /\ UNCHANGED owfsVars => Machine' /\ Walk'
  <1> SUFFICES ASSUME Machine, Walk, dpc = "off", UNCHANGED owfsVars PROVE Machine' /\ Walk'
    OBVIOUS
  <1>1. /\ dpc' = "off" /\ ioFailed' = FALSE
        /\ rc' = 0 /\ found' = 0 /\ entries' = <<>> /\ ino' = NoInode /\ idx' = 0 /\ buf' = 0
        /\ loaded' = <<>> /\ size' = 0 /\ log' = <<>>
    BY DEF owfsVars, Machine, Walk
  <1>2. NoInode' = NoInode
    BY DEF NoInode
  <1> QED
    BY <1>1, <1>2 DEF Machine, Walk

LEMMA StartWorks ==
  Base /\ Machine /\ Walk /\ Start /\ UNCHANGED mkfsVars => Machine' /\ Walk'
  <1> SUFFICES ASSUME Base, Machine, Walk, Start, UNCHANGED mkfsVars PROVE Machine' /\ Walk'
    OBVIOUS
  <1>1. /\ mpc = "done" /\ Whole /\ vol' = Volume /\ dpc' = "start" /\ ioFailed' = FALSE
        /\ rc' = 0 /\ found' = 0 /\ entries' = <<>> /\ ino' = NoInode /\ idx' = 0 /\ buf' = 0
        /\ loaded' = <<>> /\ size' = 0 /\ log' = <<>>
    BY DEF Start, Machine, Walk
  <1>2. Volume \in FormattedVolumes
    BY <1>1, VolumeIs DEF Base, Finished
  <1>3. Drv!Init'
    <2>1. NoInode = Drv!NoInode /\ FormattedVolumes' = FormattedVolumes
          /\ Drv!NoInode' = Drv!NoInode
      BY DEF NoInode, Drv!NoInode, FormattedVolumes, EntriesOf, PointersOf, InodeRecords
    <2> QED
      BY <1>1, <1>2, <2>1 DEF Drv!Init
  <1>4. Drv!IInv' /\ Drv!DataInv'
    BY <1>3, InitLater
  <1>5. mpc' = "done" /\ Whole' /\ vol' = Volume'
    BY <1>1, VolumeRests
  <1> QED
    BY <1>1, <1>4, <1>5 DEF Machine, Walk

LEMMA MachineRests ==
  Watching /\ Walk /\ UNCHANGED <<mkfsVars, owfsVars>> => Machine' /\ Walk'
  <1> SUFFICES ASSUME Watching, Walk, UNCHANGED <<mkfsVars, owfsVars>> PROVE Machine' /\ Walk'
    OBVIOUS
  <1>1. Machine /\ dpc # "off"
    BY DEF Watching
  <1>2. UNCHANGED <<vol, dpc, rc, found, entries, ino, idx, buf, loaded, size, log, ioFailed,
                    inodes, blocks, files>>
    BY DEF owfsVars, mkfsVars
  <1>3. Drv!IInv' /\ Drv!DataInv'
    <2>1. UNCHANGED Drv!vars
      BY <1>2 DEF Drv!vars
    <2> QED
      BY <1>1, <2>1, DriverAssumed, Drv!StutterPreserves, Drv!StutterData DEF Machine
  <1>4. Machine'
    BY <1>1, <1>2, <1>3, VolumeRests DEF Machine
  <1>5. Walk'
    BY <1>2 DEF Walk, ListedUpto, Fewer, FilesFrom
  <1> QED
    BY <1>4, <1>5

LEMMA DriverTurn == D!Next => DriverStep
  BY SameProbe, SameEnumerate, SameEnumerateBlock, SameEnumerateEnd, SameLoadFile, SameLoadBlock,
     SameLoadEnd DEF D!Next, D!Step, DriverStep

LEMMA DriverNeedsMachine == DriverStep => dpc # "off"
  BY DEF DriverStep, Drv!Probe, Drv!Enumerate, Drv!EnumerateBlock, Drv!EnumerateEnd,
         Drv!LoadFile, Drv!LoadBlock, Drv!LoadEnd

LEMMA FormatterDone == Next => mpc # "done"
  BY DEF Next, Format, AllocInode, AddIndirect, AddBlock, WriteInode, CatalogInsert,
         WriteSuperblock

LEMMA MachineWorks ==
  Base /\ Machine /\ Walk /\ [FormattedNext]_vars => Machine' /\ Walk'
  <1> SUFFICES ASSUME Base, Machine, Walk, [FormattedNext]_vars PROVE Machine' /\ Walk'
    OBVIOUS
  <1>1. CASE UNCHANGED <<mkfsVars, owfsVars>>
    BY <1>1, OffRests, MachineRests DEF Watching
  <1>2. CASE Next /\ UNCHANGED owfsVars
    <2>1. dpc = "off"
      BY <1>2, FormatterDone DEF Machine
    <2> QED
      BY <1>2, <2>1, OffRests
  <1>3. CASE Start /\ UNCHANGED mkfsVars
    BY <1>3, StartWorks
  <1>4. CASE D!Next /\ UNCHANGED mkfsVars
    <2>1. DriverStep /\ dpc # "off"
      BY <1>4, DriverTurn, DriverNeedsMachine
    <2>2. Watching
      BY <2>1 DEF Watching
    <2>3. Drv!IInv' /\ Drv!DataInv' /\ vol' = vol /\ dpc' # "off"
      BY <2>1, <2>2, DriverKeeps
    <2>4. mpc' = "done" /\ Whole' /\ vol' = Volume'
      BY <1>4, <2>1, <2>3, VolumeRests DEF Machine
    <2>5. Machine'
      BY <2>3, <2>4 DEF Machine
    <2> QED
      BY <1>4, <2>1, <2>2, <2>5, DriverWalks
  <1> QED
    BY <1>1, <1>2, <1>3, <1>4 DEF FormattedNext, vars

LEMMA MachineInvariant == FormattedSpec => [](Base /\ Machine /\ Walk)
  <1>1. FormattedSpec => []Base
    BY FormatterInside, MkfsStored, TotalGiven, PTL DEF Base
  <1>2. Base /\ Machine /\ Walk /\ [FormattedNext]_vars => (Machine /\ Walk)'
    BY MachineWorks
  <1>3. FormattedInit => Machine /\ Walk
    BY InitMachine
  <1> QED
    BY <1>1, <1>2, <1>3, PTL DEF FormattedSpec

(* The menu of a machine that starts on an image lists the files the image  *)
(* was made with, in that order and as many as it takes: every volume the   *)
(* formatter can write, over as many catalog blocks as it needs             *)
(* (owfs_mkfs.py:202-250, owfs.c:230-279).                                   *)
THEOREM MenuListsFiles == FormattedSpec => []CatalogListsFiles
  <1>1. Base /\ Machine /\ Walk => CatalogListsFiles
    <2> SUFFICES ASSUME Base, Machine, Walk, dpc = "listed"
                 PROVE  /\ found = IF Len(files) < MENU_MAX THEN Len(files) ELSE MENU_MAX
                        /\ \A i \in 1 .. found : entries[i].inode = i
      BY DEF CatalogListsFiles
    <2>1. Watching
      BY DEF Watching
    <2> QED
      BY <2>1, ListedIs DEF Walk, Fewer
  <1> QED
    BY <1>1, MachineInvariant, PTL

(* A file of the image that is chosen is loaded byte for byte if the loader *)
(* takes its size, and refused if it does not: direct blocks, the blocks    *)
(* behind the pointer block and the last, partial one are where the driver  *)
(* looks for them (owfs_mkfs.py:217-250, owfs.c:281-338).                    *)
THEOREM MenuLoadsFiles == FormattedSpec => []FilesLoad
  <1>1. Base /\ Machine /\ Walk => FilesLoad
    <2> SUFFICES ASSUME Base, Machine, Walk, dpc = "loaded"
                 PROVE  \E f \in 1 .. found :
                          /\ ino = inodes[entries[f].inode]
                          /\ IF files[f] \in KERNEL_MIN .. KERNEL_MAX
                             THEN /\ rc = D!ComKernelLoadOk /\ size = files[f]
                                  /\ Len(loaded) = files[f]
                                  /\ \A k \in 1 .. files[f] :
                                       At(loaded[k][1], loaded[k][2]) = Data(f, k)
                             ELSE rc # D!ComKernelLoadOk
      BY DEF FilesLoad
    <2>1. Watching
      BY DEF Watching
    <2>2. PICK f \in 1 .. found : ino = inodes[f]
      BY DEF Walk
    <2>3. entries[f].inode = f /\ f \in 1 .. Len(files)
      BY <2>1, ListedIs
    <2>4. /\ ino.size_bytes = files[f] /\ ioFailed = FALSE
          /\ files[f] \in KERNEL_MIN .. KERNEL_MAX => Drv!WellFormedFile(ino)
      BY <2>1, <2>2, <2>3, FileWellFormed DEF Walk
    <2>5. /\ rc = Drv!ComKernelLoadOk => ino.size_bytes \in KERNEL_MIN .. KERNEL_MAX
          /\ Drv!WellFormedFile(ino) => /\ rc = Drv!ComKernelLoadOk
                                        /\ loaded = Drv!Content(ino) /\ size = ino.size_bytes
      <3>1. Drv!IInv /\ Drv!DataInv
        BY <2>1, WatchingIs
      <3>2. Drv!SuccessMeansComplete /\ Drv!LoadedIsFile /\ Drv!WellFormedLoads
        BY <3>1 DEF Drv!IInv, Drv!DataInv
      <3> QED
        BY <2>4, <3>2 DEF Drv!SuccessMeansComplete, Drv!LoadedIsFile, Drv!WellFormedLoads
    <2>6. ASSUME files[f] \in KERNEL_MIN .. KERNEL_MAX
          PROVE  /\ Len(loaded) = files[f]
                 /\ \A k \in 1 .. files[f] : At(loaded[k][1], loaded[k][2]) = Data(f, k)
      <3>1. /\ Drv!WellFormedFile(ino) /\ loaded = Drv!Content(ino) /\ ino.size_bytes = files[f]
            /\ files[f] \in Nat
        BY <2>4, <2>5, <2>6, FormattedAssumption
      <3>2. loaded = [k \in 1 .. files[f] |->
                        <<Drv!BlockOf(ino, (k - 1) \div BLOCK_SIZE), ((k - 1) % BLOCK_SIZE) + 1>>]
        BY <3>1 DEF Drv!Content
      <3>3. Len(loaded) = files[f]
        BY <3>1, <3>2
      <3>4. ASSUME NEW k \in 1 .. files[f]
            PROVE  At(loaded[k][1], loaded[k][2]) = Data(f, k)
        <4> PICK j : j = (k - 1) \div BLOCK_SIZE
          OBVIOUS
        <4> PICK o : o = (k - 1) % BLOCK_SIZE
          OBVIOUS
        <4>1. BLOCK_SIZE \in Nat \ {0} /\ k - 1 \in Nat
          BY <3>1, MkfsAssumption
        <4>2. j \in Int /\ o \in 0 .. BLOCK_SIZE - 1 /\ k - 1 = BLOCK_SIZE * j + o
          BY <4>1, DivMod
        <4>3. j * BLOCK_SIZE = BLOCK_SIZE * j /\ j * BLOCK_SIZE \in Int
          BY <4>1, <4>2
        <4> PICK p \in Int : p = j * BLOCK_SIZE
          BY <4>3
        <4>4. k = p + (o + 1) /\ p <= k - 1 /\ -BLOCK_SIZE < p /\ o + 1 \in 1 .. BLOCK_SIZE
          BY <4>1, <4>2, <4>3
        <4>5. j \in Nat
          <5>1. (-1) * BLOCK_SIZE = -BLOCK_SIZE
            BY <4>1
          <5>2. (-1) * BLOCK_SIZE < j * BLOCK_SIZE
            BY <4>4, <5>1
          <5>3. -1 < j
            BY <4>1, <4>2, <5>2, LessWhole
          <5> QED
            BY <4>2, <5>3
        <4>6. j \in 0 .. inodes[f].block_count - 1
          <5> PICK n : n = inodes[f].block_count
            OBVIOUS
          <5>1. n = (files[f] + BLOCK_SIZE - 1) \div BLOCK_SIZE
            BY <2>2, <3>1 DEF Drv!WellFormedFile
          <5>2. n \in Nat /\ files[f] <= n * BLOCK_SIZE
            BY <3>1, <4>1, <5>1, Drv!BlocksCover, DriverAssumed
          <5>3. PICK q \in Int : q = n * BLOCK_SIZE
            BY <4>1, <5>2
          <5>4. p < q
            BY <3>1, <4>4, <5>2, <5>3
          <5>5. j * BLOCK_SIZE < n * BLOCK_SIZE
            BY <5>3, <5>4
          <5>6. j < n
            BY <4>1, <4>2, <5>2, <5>5, LessWhole
          <5> QED
            BY <4>5, <5>2, <5>6
        <4> PICK b : b = BlockNo(inodes[f], j)
          OBVIOUS
        <4>7. Drv!BlockOf(inodes[f], j) = b /\ Holding(b, f, j, files[f])
          BY <2>1, <2>3, <4>6, FileMapped
        <4>8. loaded[k] = <<b, o + 1>>
          BY <2>2, <3>2, <4>7
        <4>9. CellAt(b, o + 1) = Data(f, k)
          <5>1. j * BLOCK_SIZE + (o + 1) = k /\ k <= files[f]
            BY <3>1, <4>4
          <5> QED
            BY <4>4, <4>7, <5>1 DEF Holding
        <4> QED
          BY <4>8, <4>9 DEF At, CellAt
      <3> QED
        BY <3>3, <3>4
    <2> QED
      BY <2>2, <2>3, <2>4, <2>5, <2>6, SameCodes
  <1> QED
    BY <1>1, MachineInvariant, PTL
=============================================================================
