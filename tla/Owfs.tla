-------------------------------- MODULE Owfs --------------------------------
(***************************************************************************)
(* The read-only OWFS driver of src/owfs.c on top of src/bios_disk.c:      *)
(* owfs_probe, owfs_enumerate and owfs_load_file, called in the order      *)
(* kmain calls them.  The two loops over blocks take one step per block,   *)
(* and every block read from the disk may fail.                            *)
(*                                                                         *)
(* A volume is what its sectors decode to: a superblock, an inode table    *)
(* and the blocks, which hold file data, catalog entries or block          *)
(* pointers.  A checksum is the flag `crc`: whether it matches.            *)
(***************************************************************************)
EXTENDS Bancode, FiniteSets, SequencesExt

CONSTANTS
  Volumes,           \* the volumes that may be on the disk
  DISK_BLOCKS,       \* blocks the device has after the OWFS partition's start
  DiskMayFail,       \* whether the device may fail a read
  BLOCK_SIZE,        \* OWFS_BLOCK_SIZE
  DIRECT_BLOCKS,     \* OWFS_DIRECT_BLOCKS
  POINTERS,          \* block pointers that fit the staging buffer
  KERNEL_MIN,        \* the literal 16 of owfs_load_file
  KERNEL_MAX,        \* MBL_KERNEL_MAX
  MENU_MAX,          \* the capacity of kmain's entry list
  UINT32,            \* the modulus of a uint32_t
  DIAG_MAX           \* MBL_DIAG_MAX

(* Inodes and catalog entries, by the fields the driver uses. *)
Inodes == [entry_type : SUBSET {"FILE", "CATALOG", "DELETED"}, crc : BOOLEAN,
           size_bytes : Nat, block_count : Nat,
           direct_blocks : [1 .. DIRECT_BLOCKS -> Nat], indirect_block : Nat]
CatalogEntries == [inode_number : Nat, entry_type : SUBSET {"FILE", "CATALOG", "DELETED"},
                   crc : BOOLEAN]

ASSUME OwfsAssumption ==
  /\ \A v \in Volumes :
       /\ \A n \in 0 .. v.sb.total_inodes - 1 : v.inodes[n] \in Inodes
       /\ \A b \in DOMAIN v.entries : v.entries[b] \in Seq(CatalogEntries)
       /\ DOMAIN v.pointers \subseteq Nat \ {0}   \* block 0 is the superblock
       /\ \A b \in DOMAIN v.pointers : v.pointers[b] \in [1 .. POINTERS -> Nat]
  /\ {DISK_BLOCKS, KERNEL_MIN, KERNEL_MAX} \subseteq Nat
  /\ {BLOCK_SIZE, DIRECT_BLOCKS, POINTERS, MENU_MAX, DIAG_MAX} \subseteq Nat \ {0}
  /\ UINT32 \in Nat /\ UINT32 > KERNEL_MAX + BLOCK_SIZE
  /\ DiskMayFail \in BOOLEAN

VARIABLES
  vol,       \* the volume on the disk; never written
  dpc,       \* driver: "start", "probed", "enumerating", "listed", "loading" or "loaded"
  rc,        \* bancode_t last returned by owfs_probe or owfs_load_file
  found,     \* value returned by owfs_enumerate
  entries,   \* g_entries, as far as it is filled
  ino,       \* the inode being walked: root, or ino of owfs_load_file
  idx,       \* loop index of the walk
  buf,       \* the block whose content is in MBL_FS_BUF, 0 for none
  image,     \* bytes copied to the load address
  size,      \* *size_out
  log,       \* recorded diagnostics (DiagLog)
  ioFailed   \* history: some read failed

vars == <<vol, dpc, rc, found, entries, ino, idx, buf, image, size, log, ioFailed>>

D == INSTANCE DiagLog WITH Codes <- MblCodes

NoInode == [entry_type |-> {}, crc |-> FALSE, size_bytes |-> 0, block_count |-> 0,
            direct_blocks |-> [i \in 1 .. DIRECT_BLOCKS |-> 0], indirect_block |-> 0]

Init ==
  /\ vol \in Volumes
  /\ dpc = "start" /\ rc = 0 /\ found = 0 /\ entries = <<>>
  /\ ino = NoInode /\ idx = 0 /\ buf = 0 /\ image = <<>> /\ size = 0
  /\ log = <<>> /\ ioFailed = FALSE

-----------------------------------------------------------------------------
(* The disk. *)

(* The outcomes of disk_read_block: a read past the device always fails. *)
ReadOk(b) == (IF b < DISK_BLOCKS THEN {TRUE} ELSE {})
               \cup (IF DiskMayFail \/ b >= DISK_BLOCKS THEN {FALSE} ELSE {})

(* The three ways the driver looks at a block's 4096 bytes. *)
Bytes(b)    == [k \in 1 .. BLOCK_SIZE |-> <<b, k>>]
Garbage     == [inode_number |-> 0, entry_type |-> {"FILE"}, crc |-> FALSE]
Entries(b)  == IF b \in DOMAIN vol.entries THEN vol.entries[b] ELSE <<Garbage>>
Pointer(b, k) == IF k < POINTERS /\ b \in DOMAIN vol.pointers
                 THEN {vol.pointers[b][k + 1]}
                 ELSE 0 .. DISK_BLOCKS   \* not a pointer block, or past the buffer

-----------------------------------------------------------------------------
(* mbl_diag_raise, once per code. *)
Raise(codes) == log' = D!Keep(log \o codes)
When(condition, code) == IF condition THEN <<code>> ELSE <<>>

(* What mapping an index, or reading the block it maps to, comes to: the   *)
(* block (0 for none), what the staging buffer then holds, what is raised, *)
(* and which of the two steps failed.                                       *)
Mapped(p, b)   == [block |-> p, buf |-> b, at |-> "map", io |-> FALSE,
                   raised |-> When(p = 0, SoftBadBlockMap)]
Unreadable(at) == [block |-> 0, buf |-> 0, at |-> at, io |-> TRUE,
                   raised |-> <<BanIoError>>]

-----------------------------------------------------------------------------
(* Plausible bugs, each in place of a definition of the next sections. *)
ProbeChecks_NoChecksum(sb) ==
  << <<sb.magic = "USFS",    SoftIsUsfs,   SoftIsUsfs>>,
     <<sb.magic # "OWFS",    SoftNoVolume, SoftNoVolume>>,
     <<~sb.geometry,         BanSbMagic,   BanSbMagic>>,
     <<sb.version_major > 1, SoftNoVolume, WarnVersionMismatch>>,
     <<sb.encrypted,         SoftEncryptedVolume, SoftEncryptedVolume>> >>

Room_OneTooMany == MENU_MAX - Len(entries) + 1

IsListed_AnyChecksum(e) == e.entry_type # {} /\ "DELETED" \notin e.entry_type

BlockMap_StaleBuffer(inode, i) ==
  IF i < DIRECT_BLOCKS THEN {Mapped(inode.direct_blocks[i + 1], buf)}
  ELSE {Mapped(p, inode.indirect_block) :
          p \in Pointer(IF i = DIRECT_BLOCKS THEN inode.indirect_block ELSE buf,
                        i - DIRECT_BLOCKS)}

LastBytes_NoRemainder(inode, i) == BLOCK_SIZE

Propagated_PresetResult == ComKernelLoadOk
Propagated_Flattened    == BanLoadFailed

NextCatalogBlock_DirectOnly(i) == (i + 1) % DIRECT_BLOCKS
-----------------------------------------------------------------------------
(* MBL_PROPAGATE: mbl_diag_last()->code, or B+ LOAD_FAILED when there is   *)
(* none.                                                                    *)
Propagated == IF log' = <<>> THEN BanLoadFailed ELSE D!Newest(log')

(* owfs_probe in the order of its checks: what fails, the code returned    *)
(* for it, and the code raised.                                             *)
ProbeChecks(sb) ==
  << <<sb.magic = "USFS",    SoftIsUsfs,   SoftIsUsfs>>,
     <<sb.magic # "OWFS",    SoftNoVolume, SoftNoVolume>>,
     <<~sb.geometry,         BanSbMagic,   BanSbMagic>>,
     <<~sb.crc,              BanSbChecksum, BanSbChecksum>>,
     <<sb.version_major > 1, SoftNoVolume, WarnVersionMismatch>>,
     <<sb.encrypted,         SoftEncryptedVolume, SoftEncryptedVolume>> >>

FailedChecks(sb) == {i \in DOMAIN ProbeChecks(sb) : ProbeChecks(sb)[i][1]}
FirstFailed(sb)  == ProbeChecks(sb)[CHOOSE i \in FailedChecks(sb) :
                                      \A j \in FailedChecks(sb) : i <= j]

(* owfs_warn_volume_condition: telemetry, in the order it is raised. *)
Warnings(sb) ==
  When("DIRTY" \in sb.state_flags, WarnVolumeDirty)
    \o When("LOCKED" \in sb.state_flags, WarnVolumeLocked)
    \o When("ERROR" \in sb.state_flags, WarnStateError)
    \o When(sb.version_major = 1 /\ sb.version_minor # 2, WarnVersionMismatch)

(* owfs_read_inode: the outcomes of reading inode num.  A number past the  *)
(* table and a free inode are reported without a diagnostic.               *)
InodeRead(outcome, raised, io, inode) ==
  [outcome |-> outcome, raised |-> raised, io |-> io, inode |-> inode]
InodeReads(num) ==
  IF num \notin 0 .. vol.sb.total_inodes - 1 THEN {InodeRead("range", <<>>, FALSE, NoInode)}
  ELSE {IF ~ok THEN InodeRead("io", <<BanIoError>>, TRUE, NoInode)
        ELSE IF vol.inodes[num].entry_type = {} THEN InodeRead("free", <<>>, FALSE, NoInode)
        ELSE IF ~vol.inodes[num].crc
             THEN InodeRead("checksum", <<BanInodeChecksum>>, FALSE, NoInode)
        ELSE InodeRead("ok", <<>>, FALSE, vol.inodes[num]) : ok \in ReadOk(0)}

(* owfs_blockmap_get: an index maps to a direct block or, through the      *)
(* staging buffer, to one the indirect block names.                         *)
BlockMap(inode, i) ==
  IF i < DIRECT_BLOCKS THEN {Mapped(inode.direct_blocks[i + 1], buf)}
  ELSE IF inode.indirect_block = 0 THEN {Mapped(0, buf)}
  ELSE UNION {IF ok THEN {Mapped(p, inode.indirect_block) :
                            p \in Pointer(inode.indirect_block, i - DIRECT_BLOCKS)}
              ELSE {Unreadable("map")} : ok \in ReadOk(inode.indirect_block)}

(* What both loops do with index i: map it and read the block it maps to.  *)
Fetches(inode, i) ==
  UNION {IF m.block = 0 THEN {m}
         ELSE {IF ok THEN [m EXCEPT !.buf = m.block] ELSE Unreadable("read") :
                 ok \in ReadOk(m.block)} : m \in BlockMap(inode, i)}

(* One catalog block: the live entries whose checksum matches are listed   *)
(* while there is room; a mismatch is raised and passed over; a live entry *)
(* without room ends the scan where it stands.                              *)
IsLive(e)   == e.entry_type # {} /\ "DELETED" \notin e.entry_type
IsListed(e) == IsLive(e) /\ e.crc
Scan(es, room) ==
  LET good == {i \in DOMAIN es : IsListed(es[i])}
      over == {i \in good : Cardinality({j \in good : j < i}) >= room}
      seen == {i \in DOMAIN es : \A j \in over : i < j}
      bad  == {i \in seen : IsLive(es[i]) /\ ~IsListed(es[i])}
      list == seen \cap good
      nth(k) == CHOOSE i \in list : Cardinality({j \in list : j <= i}) = k
  IN  [found  |-> [k \in 1 .. Cardinality(list) |-> [inode |-> es[nth(k)].inode_number,
                                                    type |-> es[nth(k)].entry_type]],
       raised |-> [i \in 1 .. Cardinality(bad) |-> BanCatalogChecksum],
       full   |-> over # {}]

Room == MENU_MAX - Len(entries)

(* The increment of owfs_enumerate's loop. *)
NextCatalogBlock(i) == i + 1

(* Bytes of block i that are copied: all of them but in the last block,    *)
(* where it is what size_bytes leaves, in 32-bit arithmetic.               *)
LastBytes(inode, i) ==
  LET rem == (inode.size_bytes - i * BLOCK_SIZE) % UINT32
  IN  IF rem < BLOCK_SIZE THEN rem ELSE BLOCK_SIZE
Copied(inode, i) == IF i + 1 = inode.block_count THEN LastBytes(inode, i) ELSE BLOCK_SIZE

-----------------------------------------------------------------------------
(* owfs_probe *)
Probe ==
  /\ dpc = "start"
  /\ dpc' = "probed"
  /\ \E ok \in ReadOk(0) :
       \/ /\ ~ok
          /\ Raise(<<BanIoError>>) /\ rc' = BanIoError
          /\ ioFailed' = TRUE
       \/ /\ ok /\ FailedChecks(vol.sb) # {}
          /\ Raise(<<FirstFailed(vol.sb)[3]>>) /\ rc' = FirstFailed(vol.sb)[2]
          /\ UNCHANGED ioFailed
       \/ /\ ok /\ FailedChecks(vol.sb) = {}
          /\ Raise(Warnings(vol.sb)) /\ rc' = ComVolumeProbeOk
          /\ UNCHANGED ioFailed
  /\ UNCHANGED <<vol, found, entries, ino, idx, buf, image, size>>

-----------------------------------------------------------------------------
(* owfs_enumerate: the root inode... *)
EnumerateReturns(n, codes) ==
  /\ dpc' = "listed" /\ found' = n
  /\ Raise(codes)

Enumerate ==
  /\ dpc = "probed" /\ IsSuccess(rc)
  /\ \E r \in InodeReads(0) :
       /\ ino' = r.inode /\ idx' = 0
       /\ ioFailed' = (ioFailed \/ r.io)
       /\ \/ r.outcome # "ok" /\ EnumerateReturns(-1, r.raised)
          \/ /\ r.outcome = "ok" /\ "CATALOG" \notin r.inode.entry_type
             /\ EnumerateReturns(-2, <<BanInodeChecksum>>)
          \/ /\ r.outcome = "ok" /\ "CATALOG" \in r.inode.entry_type
             /\ dpc' = "enumerating"
             /\ UNCHANGED <<found, log>>
  /\ UNCHANGED <<vol, rc, entries, buf, image, size>>

(* ...then one catalog block after the other... *)
EnumerateBlock ==
  /\ dpc = "enumerating" /\ idx < ino.block_count
  /\ \E f \in Fetches(ino, idx) :
       /\ buf' = f.buf
       /\ ioFailed' = (ioFailed \/ f.io)
       /\ \/ /\ f.block = 0
             /\ EnumerateReturns(IF f.at = "map" THEN -3 ELSE -4, f.raised)
             /\ UNCHANGED <<entries, idx>>
          \/ /\ f.block # 0
             /\ LET scan == Scan(Entries(f.block), Room) IN
                /\ entries' = entries \o scan.found
                /\ \/ /\ scan.full
                      /\ EnumerateReturns(Len(entries'), scan.raised)
                      /\ UNCHANGED idx
                   \/ /\ ~scan.full
                      /\ idx' = NextCatalogBlock(idx)
                      /\ Raise(scan.raised)
                      /\ UNCHANGED <<dpc, found>>
  /\ UNCHANGED <<vol, rc, ino, image, size>>

(* ...to the end. *)
EnumerateEnd ==
  /\ dpc = "enumerating" /\ idx >= ino.block_count
  /\ EnumerateReturns(Len(entries), When(entries # <<>>, ComCatalogEnumOk))
  /\ UNCHANGED <<vol, rc, entries, ino, idx, buf, image, size, ioFailed>>

-----------------------------------------------------------------------------
(* owfs_load_file: the inode and its checks... *)
LoadReturns(code) == dpc' = "loaded" /\ rc' = code

LoadChecks(inode) ==
  << <<"FILE" \notin inode.entry_type,    SoftNotAFile>>,
     <<inode.size_bytes < KERNEL_MIN,     SoftKernelTooSmall>>,
     <<inode.size_bytes > KERNEL_MAX,     SoftKernelTooLarge>> >>
FailedLoadChecks(inode) == {i \in DOMAIN LoadChecks(inode) : LoadChecks(inode)[i][1]}
Unloadable(inode) ==
  LoadChecks(inode)[CHOOSE i \in FailedLoadChecks(inode) :
                      \A j \in FailedLoadChecks(inode) : i <= j][2]

LoadFile(num) ==
  /\ dpc = "listed"
  /\ \E r \in InodeReads(num) :
       /\ ino' = r.inode /\ idx' = 0
       /\ ioFailed' = (ioFailed \/ r.io)
       /\ \/ /\ r.outcome # "ok"
             /\ Raise(r.raised) /\ LoadReturns(Propagated)
          \/ /\ r.outcome = "ok" /\ FailedLoadChecks(r.inode) # {}
             /\ Raise(<<Unloadable(r.inode)>>) /\ LoadReturns(Unloadable(r.inode))
          \/ /\ r.outcome = "ok" /\ FailedLoadChecks(r.inode) = {}
             /\ dpc' = "loading"
             /\ UNCHANGED <<rc, log>>
  /\ UNCHANGED <<vol, found, entries, buf, image, size>>

(* ...then one block after the other is staged and copied... *)
LoadBlock ==
  /\ dpc = "loading" /\ idx < ino.block_count
  /\ \E f \in Fetches(ino, idx) :
       /\ buf' = f.buf
       /\ ioFailed' = (ioFailed \/ f.io)
       /\ \/ /\ f.block = 0
             /\ Raise(f.raised) /\ LoadReturns(Propagated)
             /\ UNCHANGED <<image, idx>>
          \/ /\ f.block # 0
             /\ image' = image \o SubSeq(Bytes(f.buf), 1, Copied(ino, idx))
             /\ idx' = idx + 1
             /\ UNCHANGED <<dpc, rc, log>>
  /\ UNCHANGED <<vol, found, entries, ino, size>>

(* ...to the end. *)
LoadEnd ==
  /\ dpc = "loading" /\ idx >= ino.block_count
  /\ size' = ino.size_bytes
  /\ Raise(<<ComKernelLoadOk>>) /\ LoadReturns(ComKernelLoadOk)
  /\ UNCHANGED <<vol, found, entries, ino, idx, buf, image, ioFailed>>

Step == Probe \/ Enumerate \/ EnumerateBlock \/ EnumerateEnd \/ LoadBlock \/ LoadEnd

(* kmain loads an entry the menu lists, or none. *)
Next == \/ Step
        \/ \E i \in 1 .. found : LoadFile(entries[i].inode)

(* The driver runs to completion: nothing else runs on the machine. *)
Spec == Init /\ [][Next]_vars /\ WF_vars(Step)

-----------------------------------------------------------------------------
(* Reference definitions: what the volume format says, independent of the  *)
(* driver's loops.                                                          *)
BlockOf(inode, j) == IF j < DIRECT_BLOCKS THEN inode.direct_blocks[j + 1]
                     ELSE vol.pointers[inode.indirect_block][j - DIRECT_BLOCKS + 1]

IsMapped(inode, j) ==
  /\ j < DIRECT_BLOCKS + POINTERS
  /\ j >= DIRECT_BLOCKS => inode.indirect_block \in DOMAIN vol.pointers
  /\ BlockOf(inode, j) \in 1 .. DISK_BLOCKS - 1

WellMapped(inode) == \A j \in 0 .. inode.block_count - 1 : IsMapped(inode, j)

(* What the driver takes for pointers are pointers: nothing in the block   *)
(* tells it, and it takes as many as block_count says.                      *)
PointersHeld(inode) ==
  inode.block_count > DIRECT_BLOCKS /\ inode.indirect_block # 0
    => /\ inode.block_count <= DIRECT_BLOCKS + POINTERS
       /\ inode.indirect_block \in DOMAIN vol.pointers

WellFormedFile(inode) ==
  /\ "FILE" \in inode.entry_type /\ inode.crc
  /\ inode.size_bytes \in KERNEL_MIN .. KERNEL_MAX
  /\ inode.block_count = (inode.size_bytes + BLOCK_SIZE - 1) \div BLOCK_SIZE
  /\ WellMapped(inode)

Content(inode) ==
  [k \in 1 .. inode.size_bytes |->
     <<BlockOf(inode, (k - 1) \div BLOCK_SIZE), ((k - 1) % BLOCK_SIZE) + 1>>]

(* The live entries of a block with a matching checksum, and those of the  *)
(* first n blocks, in order.                                                *)
Selected(es) ==
  LET upto[i \in 0 .. Len(es)] ==
        IF i = 0 THEN <<>>
        ELSE IF es[i].crc /\ es[i].entry_type # {} /\ "DELETED" \notin es[i].entry_type
        THEN Append(upto[i - 1], [inode |-> es[i].inode_number, type |-> es[i].entry_type])
        ELSE upto[i - 1]
  IN  upto[Len(es)]

Listing(root, n) == FlattenSeq([j \in 1 .. n |-> Selected(Entries(BlockOf(root, j - 1)))])

FirstOf(n, s) == SubSeq(s, 1, IF Len(s) < n THEN Len(s) ELSE n)

Bootable(sb) == /\ sb.magic = "OWFS" /\ sb.geometry /\ sb.crc
                /\ ~(sb.version_major > 1) /\ ~sb.encrypted

-----------------------------------------------------------------------------
(* Types; the entry list never outgrows kmain's array. *)
TypeOK ==
  /\ dpc \in {"start", "probed", "enumerating", "listed", "loading", "loaded"}
  /\ rc \in MblCodes \cup {0}
  /\ found \in -4 .. MENU_MAX
  /\ entries \in Seq([inode : Nat, type : SUBSET {"FILE", "CATALOG", "DELETED"}])
  /\ Len(entries) <= MENU_MAX
  /\ idx \in Nat
  /\ buf \in 0 .. DISK_BLOCKS
  /\ image \in Seq((0 .. DISK_BLOCKS) \X (1 .. BLOCK_SIZE))
  /\ size \in 0 .. KERNEL_MAX
  /\ log \in Seq(MblCodes) /\ Len(log) <= DIAG_MAX
  /\ ioFailed \in BOOLEAN

(* A load that reports success of a file whose inode is consistent has put *)
(* exactly that file's bytes at the load address, direct and indirect      *)
(* blocks in order and the last one cut to size (owfs.c:311-330), although *)
(* block pointers and file data pass through the same staging buffer.      *)
LoadedIsFile ==
  dpc = "loaded" /\ rc = ComKernelLoadOk /\ WellFormedFile(ino)
    => image = Content(ino) /\ size = ino.size_bytes

(* ...and such a load succeeds unless the disk fails. *)
WellFormedLoads ==
  dpc = "loaded" /\ WellFormedFile(ino) /\ ~ioFailed => rc = ComKernelLoadOk

(* Success is never reported for a walk that was cut short, whatever was   *)
(* raised before: kmain compares the code with C+ KERNEL_LOAD_OK           *)
(* (main.c:105), and a fault returns the code raised last (owfs.c:289-292).*)
SuccessMeansComplete ==
  dpc = "loaded" /\ rc = ComKernelLoadOk
    => /\ "FILE" \in ino.entry_type /\ ino.crc
       /\ ino.size_bytes \in KERNEL_MIN .. KERNEL_MAX
       /\ idx = ino.block_count /\ ~ioFailed

(* The menu lists the live entries of the root catalog with a matching     *)
(* checksum, in order, up to the capacity of the list; a fault part-way    *)
(* never yields a shortened list, only a negative count (owfs.c:230-279):  *)
(* what is listed are all blocks, or those that filled the list.           *)
ListIsCatalog ==
  dpc \in {"listed", "loading", "loaded"} /\ found >= 0
    => LET root == vol.inodes[0] IN
       /\ Len(entries) = found /\ ~(ioFailed /\ dpc = "listed")
       /\ PointersHeld(root) =>
            \E n \in 0 .. root.block_count :
              /\ \A j \in 0 .. n - 1 : IsMapped(root, j)
              /\ entries = FirstOf(MENU_MAX, Listing(root, n))
              /\ n = root.block_count \/ found = MENU_MAX

(* Nothing behind the superblock is read from a volume that is not OWFS,   *)
(* is corrupt, encrypted or of a later major version (owfs.c:135-175).     *)
RefusedVolumeUntouched ==
  dpc \in {"enumerating", "listed", "loading", "loaded"} => Bootable(vol.sb)

(* The code a load returns is the one the fail screen shows, which reads   *)
(* it back with mbl_diag_last (main.c:25-30): helpers' faults are passed   *)
(* on, not flattened (owfs.c:287-288).                                      *)
ReturnedCodeIsShown ==
  dpc = "loaded" => IF log = <<>> THEN rc = BanLoadFailed ELSE rc = D!Newest(log)

(* Both walks end, whatever the inodes say. *)
DriverReturns == /\ dpc = "enumerating" ~> dpc = "listed"
                 /\ dpc = "loading" ~> dpc = "loaded"

(* include/mbl.h:253: the driver "returns MBL_* BANcode codes (C+ on       *)
(* success)": a load that is not a success returns no C+ code.             *)
FailedLoadIsFault == dpc = "loaded" /\ rc # ComKernelLoadOk => ~IsSuccess(rc)
=============================================================================
