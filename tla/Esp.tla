--------------------------------- MODULE Esp ---------------------------------
(***************************************************************************)
(* tools/build_image.py: the partition table and the FAT32 file system     *)
(* with the loader in it, one step per structure and per cluster of the     *)
(* file; and the firmware that looks for the loader there.                  *)
(*                                                                         *)
(* The disk is the sectors that were written.  A cluster is one sector, as *)
(* in the code.  Of a structure, the fields the firmware goes by are kept.  *)
(***************************************************************************)
EXTENDS Integers, Sequences

CONSTANTS
  ESP_LBA, ESP_SECTORS, OWFS_SECTORS,
  RESERVED, FAT_SIZE,     \* sectors of the reserved region, and of one FAT
  SECTOR, LINKS,          \* bytes, and links of a FAT, that a sector holds
  FAT32_LEAST,            \* clusters from which a FAT file system is FAT32
  EfiSizes                \* sizes BOOTX64.EFI may have

NUM_FATS == 2
ROOT_CLUSTER == 2
OWFS_LBA == ESP_LBA + ESP_SECTORS
Ceiling(n, d) == (n + d - 1) \div d
DataClusters  == ESP_SECTORS - RESERVED - NUM_FATS * FAT_SIZE

ASSUME EspAssumption ==
  /\ {SECTOR, LINKS, FAT_SIZE} \subseteq Nat \ {0}
  /\ {ESP_LBA, ESP_SECTORS, OWFS_SECTORS, RESERVED, FAT32_LEAST} \subseteq Nat
  /\ ESP_LBA > 2 /\ RESERVED > 7
  /\ DataClusters >= FAT32_LEAST /\ DataClusters + 2 <= FAT_SIZE * LINKS
  /\ EfiSizes \subseteq Nat
  /\ \A n \in EfiSizes : n > 0 /\ 3 + Ceiling(n, SECTOR) <= DataClusters

VARIABLES
  wpc,          \* "tables", "boot", "dirs", "file", "fats" or "written"
  efi_size,     \* len(efi_data)
  disk,         \* the image by sectors, as far as they are written
  fat,          \* the FAT in memory
  cluster,      \* write_fat32_esp's cluster
  remaining     \* the bytes of efi_data before `remaining`

espVars == <<wpc, efi_size, disk, fat, cluster, remaining>>

-----------------------------------------------------------------------------
EOC == -1     \* 0x0FFFFFFF

(* A plausible bug in place of a definition below. *)
Link_AlwaysNext(c, left) == c + 1

EfiByte(k) == <<"efi", k>>
DirEntry(name, first, size) == [name |-> name, first |-> first, size |-> size]

(* get_cluster_offset. *)
ClusterAt(c) == ESP_LBA + RESERVED + NUM_FATS * FAT_SIZE + (c - 2)

(* The link of a cluster with `left` bytes of the file behind it. *)
Link(c, left) == IF left > 0 THEN c + 1 ELSE EOC

Put(sectors) == disk' = [s \in DOMAIN sectors \cup DOMAIN disk |->
                           IF s \in DOMAIN sectors THEN sectors[s] ELSE disk[s]]

EspInit ==
  /\ efi_size \in EfiSizes
  /\ wpc = "tables" /\ disk = <<>> /\ cluster = 5 /\ remaining = 0
  /\ fat = [c \in 0 .. FAT_SIZE * LINKS - 1 |-> IF c \in 0 .. 4 THEN EOC ELSE 0]

(* write_protective_mbr and write_gpt. *)
WriteTables ==
  /\ wpc = "tables" /\ wpc' = "boot"
  /\ Put([s \in {0, 2} |->
            IF s = 0 THEN [is |-> "mbr"]
            ELSE [is |-> "gpt",
                  parts |-> <<[first |-> ESP_LBA, last |-> ESP_LBA + ESP_SECTORS - 1],
                              [first |-> OWFS_LBA, last |-> OWFS_LBA + OWFS_SECTORS - 1]>>]])
  /\ UNCHANGED <<efi_size, fat, cluster, remaining>>

(* write_fat32_esp: the boot sector, the information sector and their      *)
(* copies...                                                                *)
WriteBootSectors ==
  /\ wpc = "boot" /\ wpc' = "dirs"
  /\ Put([s \in {ESP_LBA + k : k \in {0, 1, 6, 7}} |->
            IF s \in {ESP_LBA, ESP_LBA + 6}
            THEN [is |-> "bpb", reserved |-> RESERVED, fats |-> NUM_FATS, fat_size |-> FAT_SIZE,
                  sectors |-> ESP_SECTORS, root |-> ROOT_CLUSTER]
            ELSE [is |-> "fsinfo"]])
  /\ UNCHANGED <<efi_size, fat, cluster, remaining>>

(* ...the directories... *)
WriteDirectories ==
  /\ wpc = "dirs" /\ wpc' = "file"
  /\ Put([s \in {ClusterAt(c) : c \in 2 .. 4} |->
            [is |-> "dir",
             entries |->
               CASE s = ClusterAt(2) -> {DirEntry("EFI", 3, 0)}
                 [] s = ClusterAt(3) -> {DirEntry(".", 3, 0), DirEntry("..", 0, 0),
                                         DirEntry("BOOT", 4, 0)}
                 [] s = ClusterAt(4) -> {DirEntry(".", 4, 0), DirEntry("..", 3, 0),
                                         DirEntry("BOOTX64.EFI", 5, efi_size)}]])
  /\ UNCHANGED <<efi_size, fat, cluster, remaining>>

(* ...a cluster of the file... *)
WriteCluster ==
  /\ wpc = "file" /\ remaining < efi_size
  /\ LET n == IF efi_size - remaining < SECTOR THEN efi_size - remaining ELSE SECTOR IN
     /\ Put([s \in {ClusterAt(cluster)} |->
               [is |-> "data", bytes |-> [k \in 1 .. n |-> EfiByte(remaining + k)]]])
     /\ remaining' = remaining + n
     /\ fat' = [fat EXCEPT ![cluster] = Link(cluster, efi_size - remaining - n)]
  /\ cluster' = cluster + 1
  /\ UNCHANGED <<wpc, efi_size>>

(* ...and the two FATs. *)
WriteFats ==
  /\ wpc = "file" /\ remaining = efi_size /\ wpc' = "written"
  /\ LET start(k) == ESP_LBA + RESERVED + k * FAT_SIZE IN
     Put([s \in start(0) .. start(2) - 1 |->
            [is |-> "fat", links |-> [l \in 0 .. LINKS - 1 |->
                                        fat[((s - start(0)) % FAT_SIZE) * LINKS + l]]]])
  /\ UNCHANGED <<efi_size, fat, cluster, remaining>>

EspNext ==
  WriteTables \/ WriteBootSectors \/ WriteDirectories \/ WriteCluster \/ WriteFats

-----------------------------------------------------------------------------
(* The firmware: the partition, its boot sector, and what follows from it. *)
EspStart   == disk[2].parts[1].first
BootSector == disk[EspStart]
FirstData  == EspStart + BootSector.reserved + BootSector.fats * BootSector.fat_size
IsFat32    == BootSector.sectors - (FirstData - EspStart) >= FAT32_LEAST
Linked(c)  == disk[EspStart + BootSector.reserved + c \div LINKS].links[c % LINKS]
Cluster(c) == disk[FirstData + c - 2]

(* The clusters of a chain, as many as there are at most. *)
Chain(first) ==
  LET upTo[k \in Nat] ==
        IF k = 0 THEN <<first>>
        ELSE LET before == upTo[k - 1]
                 next   == Linked(before[Len(before)])
             IN  IF next < 2 THEN before ELSE Append(before, next)
  IN  upTo[DataClusters]
Ended(chain) == Linked(chain[Len(chain)]) = EOC

Find(first, name) ==
  LET chain == Chain(first)
  IN  {e \in UNION {Cluster(chain[k]).entries : k \in DOMAIN chain} : e.name = name}

FileBytes(e) ==
  LET chain == Chain(e.first)
  IN  [k \in 1 .. e.size |->
         Cluster(chain[(k - 1) \div SECTOR + 1]).bytes[((k - 1) % SECTOR) + 1]]

(* The firmware, from the partition table alone, finds \EFI\BOOT\BOOTX64.EFI *)
(* and reads the loader, byte for byte, over a chain that has its clusters  *)
(* and ends (build_image.py:171-311).                                       *)
FirmwareReadsLoader ==
  wpc = "written" =>
    /\ IsFat32
    /\ \E dir \in Find(BootSector.root, "EFI") : \E boot \in Find(dir.first, "BOOT") :
         \E file \in Find(boot.first, "BOOTX64.EFI") :
           /\ Ended(Chain(file.first))
           /\ Len(Chain(file.first)) = Ceiling(efi_size, SECTOR)
           /\ FileBytes(file) = [k \in 1 .. efi_size |-> EfiByte(k)]
=============================================================================
