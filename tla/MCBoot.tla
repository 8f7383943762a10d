------------------------------- MODULE MCBoot -------------------------------
(***************************************************************************)
(* Disks that boot, that are refused, whose catalog is empty or cannot be  *)
(* read to its end, and whose entries cannot be loaded; a menu of at most  *)
(* two entries and a countdown of two seconds; a memory map that grows by  *)
(* as much as fits the extra room and by more.                             *)
(***************************************************************************)
EXTENDS Boot, LoadedImage

MCSb(crc, flags) ==
  [magic |-> "OWFS", geometry |-> TRUE, crc |-> crc, version_major |-> 1,
   version_minor |-> 2, encrypted |-> FALSE, state_flags |-> flags, total_inodes |-> 3]
MCInode(type, bytes, blocks, direct) ==
  [entry_type |-> type, crc |-> TRUE, size_bytes |-> bytes, block_count |-> blocks,
   direct_blocks |-> direct, indirect_block |-> 0]
MCEntry(num) == [inode_number |-> num, entry_type |-> {"FILE"}, crc |-> TRUE]

(* Blocks 1 and 2 hold the catalog, 3 and 4 file data; the device ends     *)
(* before 9, so that a read of it fails.                                    *)
MCVolume(sb, rootBlocks, listed, blk) ==
  [sb      |-> sb,
   inodes  |-> [i \in 0 .. 2 |->
                  CASE i = 0 -> MCInode({"CATALOG"}, 0, rootBlocks, <<1, blk>>)
                    [] i = 1 -> MCInode({"FILE"}, 3, 2, <<3, 4>>)
                    [] i = 2 -> MCInode({"FILE"}, 4, 2, <<4, 0>>)],
   entries |-> [b \in {1, 2} |-> IF b = 1 THEN listed ELSE <<>>],
   pointers |-> [b \in {} |-> <<>>]]

MCVolumes ==
  {MCVolume(MCSb(TRUE, {}), 1, <<MCEntry(2), MCEntry(1)>>, 0),
   MCVolume(MCSb(TRUE, {"DIRTY"}), 2, <<MCEntry(1), MCEntry(3)>>, 2),
   MCVolume(MCSb(TRUE, {}), 2, <<MCEntry(1)>>, 9),
   MCVolume(MCSb(TRUE, {}), 1, <<>>, 0),
   MCVolume(MCSb(FALSE, {}), 1, <<MCEntry(1)>>, 0)}

MCStrokes == {[scan |-> "SCAN_DOWN", char |-> "NUL"], [scan |-> "SCAN_ESC", char |-> "NUL"]}
               \cup {[scan |-> "NULL", char |-> c] : c \in {"CR", "ESC", "s"}}

MCStartSeconds == {58}
MCExitPointers == {"NULL", "Unload", "ExitBootServices"}
MCReadPointers == {FieldRead(10)}   \* what EfiMain does read
MCMapSizes     == {5}
=============================================================================
