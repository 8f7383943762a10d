------------------------------ MODULE Formatted ------------------------------
(***************************************************************************)
(* The formatter (Mkfs) and the loader's driver (Owfs) on the same disk:   *)
(* tools/owfs_mkfs.py writes a volume, src/owfs.c reads it.  The two are   *)
(* written in different languages against one layout; this module decodes  *)
(* what the formatter wrote the way the driver does.  Before it formats the *)
(* volume, tools/build_image.py writes the ESP (Esp) on the same disk.       *)
(***************************************************************************)
EXTENDS Mkfs, Esp

CONSTANTS KERNEL_MIN, KERNEL_MAX, MENU_MAX, UINT32, DIAG_MAX,   \* Owfs
          DISK_BLOCKS

(* The root catalog overruns its direct blocks (32 < 10 * 16 entries) only *)
(* behind what the menu takes; the disk reaches to the volume's end.        *)
ASSUME FormattedAssumption ==
  /\ MENU_MAX < DIRECT_BLOCKS * BLOCK_SIZE
  /\ \A total \in Totals : total <= DISK_BLOCKS
  /\ {KERNEL_MIN, KERNEL_MAX, DISK_BLOCKS, UINT32} \subseteq Nat
  /\ {MENU_MAX, DIAG_MAX} \subseteq Nat \ {0}
  /\ UINT32 > KERNEL_MAX + BLOCK_SIZE

VARIABLES vol, dpc, rc, found, entries, ino, idx, buf, loaded, size, log, ioFailed   \* Owfs

owfsVars == <<vol, dpc, rc, found, entries, ino, idx, buf, loaded, size, log, ioFailed>>
vars     == <<espVars, mkfsVars, owfsVars>>

-----------------------------------------------------------------------------
(* What the sectors of the image decode to. *)
At(b, k) == image[Offset(b) + k]
DataRegion == DataStart(total_blocks) .. total_blocks - 1

CatalogEntry(cell) ==
  CASE cell.is = "entry" -> [inode_number |-> cell.of, entry_type |-> {"FILE"}, crc |-> TRUE]
    [] cell.is = "zero"  -> [inode_number |-> 0, entry_type |-> {}, crc |-> FALSE]
    [] OTHER             -> [inode_number |-> 0, entry_type |-> {"FILE"}, crc |-> FALSE]

Volume ==
  [sb |-> [magic |-> "OWFS", geometry |-> TRUE, crc |-> TRUE, version_major |-> 1,
           version_minor |-> 2, encrypted |-> FALSE, state_flags |-> {},
           total_inodes |-> TOTAL_INODES],
   inodes   |-> inodes,
   entries  |-> [b \in DataRegion |-> [k \in 1 .. BLOCK_SIZE |-> CatalogEntry(At(b, k))]],
   pointers |-> [b \in {c \in DataRegion :
                          \A k \in 1 .. BLOCK_SIZE : At(c, k).is = "pointer"} |->
                   [k \in 1 .. BLOCK_SIZE |-> At(b, k).of]]]

D == INSTANCE Owfs WITH image <- loaded, POINTERS <- BLOCK_SIZE, DiskMayFail <- FALSE,
                        Volumes <- {}

NoVolume == [sb |-> [magic |-> "none"]]

FormattedInit ==
  /\ Init /\ EspInit
  /\ vol = NoVolume
  /\ dpc = "off" /\ rc = 0 /\ found = 0 /\ entries = <<>>
  /\ ino = NoInode /\ idx = 0 /\ buf = 0 /\ loaded = <<>> /\ size = 0
  /\ log = <<>> /\ ioFailed = FALSE

(* The loader starts on the finished image.  An image that lost its last   *)
(* sectors to short slices is not followed further.                         *)
Start ==
  /\ mpc = "done" /\ dpc = "off" /\ Whole
  /\ vol' = Volume /\ dpc' = "start"
  /\ UNCHANGED <<rc, found, entries, ino, idx, buf, loaded, size, log, ioFailed>>

(* build_image.py's main, and the machine that is started on its image.    *)
FormattedNext ==
  \/ EspNext /\ UNCHANGED <<mkfsVars, owfsVars>>
  \/ wpc = "written" /\ Next /\ UNCHANGED <<espVars, owfsVars>>
  \/ (Start \/ D!Next) /\ UNCHANGED <<espVars, mkfsVars>>

FormattedSpec == FormattedInit /\ [][FormattedNext]_vars

-----------------------------------------------------------------------------
(* What the formatter adds the driver lists: every file, in the order the  *)
(* files were added, up to the capacity of the menu (owfs_mkfs.py:202-215, *)
(* owfs.c:230-279).                                                         *)
CatalogListsFiles ==
  dpc = "listed" => LET n == IF Len(files) < MENU_MAX THEN Len(files) ELSE MENU_MAX
                    IN  found = n /\ \A i \in 1 .. n : entries[i].inode = i

(* A file that is added and has a size the loader accepts is loaded byte   *)
(* for byte (owfs_mkfs.py:217-250, owfs.c:281-338): the two sides agree on *)
(* which blocks are direct, on where the pointer block is and on the last  *)
(* block's size.  No other file is loaded.                                  *)
FilesLoad ==
  dpc = "loaded" =>
    \E f \in 1 .. found :
      /\ ino = inodes[entries[f].inode]
      /\ IF files[f] \in KERNEL_MIN .. KERNEL_MAX
         THEN /\ rc = D!ComKernelLoadOk /\ size = files[f]
              /\ Len(loaded) = files[f]
              /\ \A k \in 1 .. files[f] : At(loaded[k][1], loaded[k][2]) = Data(f, k)
         ELSE rc # D!ComKernelLoadOk
=============================================================================
