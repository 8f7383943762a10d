-------------------------------- MODULE Mkfs --------------------------------
(***************************************************************************)
(* The OWFS formatter tools/owfs_mkfs.py: format_owfs with the methods of  *)
(* Volume, one step per block allocated and per structure written.         *)
(*                                                                         *)
(* The image is modelled behind the inode table: the volume's data region  *)
(* and, for build_image.py, what follows the volume on the disk.  It is a  *)
(* sequence of cells; a cell is whatever a block holds BLOCK_SIZE of: a    *)
(* byte of a file, a catalog entry, a block pointer or a byte of the       *)
(* backup partition table.  Bitmap and inode table are variables.          *)
(***************************************************************************)
EXTENDS Integers, Sequences, FiniteSets

CONSTANTS
  BLOCK_SIZE,      \* cells of a block
  DIRECT_BLOCKS,   \* direct block pointers of an inode
  BITS,            \* bits of a bitmap block
  OVERHEAD,        \* blocks of the volume that hold neither bitmap nor data
  TOTAL_INODES,
  Totals,          \* values of total_blocks
  Tails,           \* cells of the backup partition table behind the volume, or 0
  GAP,             \* cells between the volume and that table
  Sizes            \* sizes of the files to add

ASSUME MkfsAssumption ==
  /\ {BLOCK_SIZE, DIRECT_BLOCKS, BITS, TOTAL_INODES} \subseteq Nat \ {0}
  /\ OVERHEAD \in Nat
  /\ Totals \subseteq Nat /\ Tails \subseteq Nat /\ Sizes \subseteq Nat
  /\ GAP \in Nat /\ GAP >= TOTAL_INODES * (BLOCK_SIZE - 1)

VARIABLES
  total_blocks, tail,         \* the call's arguments
  mpc,                        \* "start", "files", "blocks", "insert", "done" or "failed"
  error,                      \* what was raised, if anything
  image,                      \* the bytearray
  bitmap,                     \* the bits that are set
  free_blocks, free_inodes,   \* self.sb
  sb,                         \* the counts in the superblock written last
  inodes,                     \* the inode table
  blocks,                     \* self.root["blocks"]
  files,                      \* sizes of the files add_file was called with
  num, direct, indirect       \* add_file's locals

mkfsVars == <<total_blocks, tail, mpc, error, image, bitmap, free_blocks, free_inodes, sb,
              inodes, blocks, files, num, direct, indirect>>

-----------------------------------------------------------------------------
(* A plausible bug in place of the next definition. *)
BitmapBlocks_NoRounding(total) == (total - OVERHEAD) \div (BITS + 1)

(* Volume.__init__: where the data region starts, and its size in blocks.  *)
BitmapBlocks(total) == (total - OVERHEAD + BITS) \div (BITS + 1)
DataStart(total)    == OVERHEAD + BitmapBlocks(total)
DataBlocks(total)   == total - DataStart(total)

Least(S) == CHOOSE x \in S : \A y \in S : x <= y

Cell(is, of, at) == [is |-> is, of |-> of, at |-> at]
Zero       == Cell("zero", 0, 0)
Data(f, k) == Cell("data", f, k)     \* byte k of file f
Entry(n)   == Cell("entry", n, 0)    \* a catalog entry of a file, for inode n
Pointer(b) == Cell("pointer", b, 0)
Behind(k)  == Cell("behind", 0, k)

(* Where a block starts in the image. *)
Offset(b) == (b - DataStart(total_blocks)) * BLOCK_SIZE

(* Where build_image.py writes the backup table: the partition that holds  *)
(* the volume is larger than the volume by more than files can be.          *)
BackupAt == DataBlocks(total_blocks) * BLOCK_SIZE + (IF tail = 0 THEN 0 ELSE GAP)

NoInode == [entry_type |-> {}, crc |-> FALSE, size_bytes |-> 0, block_count |-> 0,
            direct_blocks |-> [k \in 1 .. DIRECT_BLOCKS |-> 0], indirect_block |-> 0]

Init ==
  /\ total_blocks \in Totals /\ tail \in Tails
  /\ mpc = "start" /\ error = "none"
  /\ image = [k \in 1 .. BackupAt |-> Zero]
               \o [k \in 1 .. tail |-> Behind(k)]
  /\ bitmap = {} /\ free_blocks = DataBlocks(total_blocks) /\ free_inodes = TOTAL_INODES - 1
  /\ sb = [free_blocks |-> 0, free_inodes |-> 0]
  /\ inodes = [n \in 0 .. TOTAL_INODES - 1 |-> NoInode]
  /\ blocks = <<>> /\ files = <<>>
  /\ num = 0 /\ direct = <<>> /\ indirect = 0

-----------------------------------------------------------------------------
(* image[at:at + n] = cells, with Python's slices: bounds past the end are *)
(* cut to it, and the image changes its length when cells are not n.       *)
Assigned(img, at, n, cells) ==
  LET end(i) == IF i < Len(img) THEN i ELSE Len(img)
  IN  SubSeq(img, 1, end(at)) \o cells \o SubSeq(img, end(at + n) + 1, Len(img))

(* alloc_block: the first clear bit, unless it lies past the data region.  *)
ClearBits == (0 .. BitmapBlocks(total_blocks) * BITS - 1) \ bitmap
HasRoom_AnyClearBit == ClearBits # {}
HasRoom  == ClearBits # {} /\ Least(ClearBits) < DataBlocks(total_blocks)
NewBlock == DataStart(total_blocks) + Least(ClearBits)

(* Plausible bugs, each in place of a definition below. *)
AllocBlock_BitNotSet ==
  HasRoom /\ bitmap' = bitmap /\ free_blocks' = free_blocks - 1
AllocBlock_NotCounted ==
  HasRoom /\ bitmap' = bitmap \cup {Least(ClearBits)} /\ free_blocks' = free_blocks
IsFree_Overwrites(cell, garbage) == cell.is # "data"

AllocBlock ==
  /\ HasRoom
  /\ bitmap' = bitmap \cup {Least(ClearBits)}
  /\ free_blocks' = free_blocks - 1
Raises(what) == mpc' = "failed" /\ error' = what
VolumeFull ==
  /\ ~HasRoom /\ Raises("full")
  /\ UNCHANGED <<bitmap, free_blocks>>

(* write_root_inode: pointers past the direct ones are overwritten by the  *)
(* fields behind them.                                                      *)
RootInode(bs) ==
  [entry_type |-> {"CATALOG"}, crc |-> TRUE, size_bytes |-> 0, block_count |-> Len(bs),
   direct_blocks |-> [k \in 1 .. DIRECT_BLOCKS |-> IF k <= Len(bs) THEN bs[k] ELSE 0],
   indirect_block |-> 0]

(* format_owfs up to the files. *)
Format ==
  /\ mpc = "start"
  /\ \/ /\ total_blocks < OVERHEAD + 2
        /\ Raises("small")
        /\ UNCHANGED <<bitmap, free_blocks, blocks, inodes>>
     \/ /\ total_blocks >= OVERHEAD + 2
        /\ AllocBlock
        /\ blocks' = <<NewBlock>>
        /\ inodes' = [inodes EXCEPT ![0] = RootInode(blocks')]
        /\ mpc' = "files" /\ UNCHANGED error
  /\ UNCHANGED <<total_blocks, tail, image, free_inodes, sb, files, num, direct, indirect>>

-----------------------------------------------------------------------------
(* add_file, begun by alloc_inode for a file of n bytes... *)
FreeInodes == {k \in 0 .. TOTAL_INODES - 1 : inodes[k].entry_type = {}}
AllocInode(n) ==
  /\ mpc = "files"
  /\ files' = Append(files, n)
  /\ direct' = <<>> /\ indirect' = 0
  /\ \/ /\ FreeInodes = {}
        /\ Raises("inodes")
        /\ UNCHANGED <<num, free_inodes>>
     \/ /\ FreeInodes # {}
        /\ num' = Least(FreeInodes) /\ free_inodes' = free_inodes - 1
        /\ mpc' = "blocks" /\ UNCHANGED error
  /\ UNCHANGED <<total_blocks, tail, image, bitmap, free_blocks, sb, inodes, blocks>>

(* ...then its blocks, the pointer block before the first it points to...  *)
FileSize == files[Len(files)]
NBlocks  == (FileSize + BLOCK_SIZE - 1) \div BLOCK_SIZE
NeedsIndirect == Len(direct) >= DIRECT_BLOCKS /\ indirect = 0

AddIndirect ==
  /\ mpc = "blocks" /\ Len(direct) < NBlocks /\ NeedsIndirect
  /\ \/ AllocBlock /\ indirect' = NewBlock /\ UNCHANGED <<mpc, error>>
     \/ VolumeFull /\ UNCHANGED indirect
  /\ UNCHANGED <<total_blocks, tail, image, free_inodes, sb, inodes, blocks, files, num,
                 direct>>

(* data[i * BLOCK:(i + 1) * BLOCK], shorter than a block at the file's end *)
Slice(i) ==
  LET rest == FileSize - i * BLOCK_SIZE
  IN  [k \in 1 .. (IF rest < BLOCK_SIZE THEN rest ELSE BLOCK_SIZE) |->
         Data(Len(files), i * BLOCK_SIZE + k)]

AddBlock ==
  /\ mpc = "blocks" /\ Len(direct) < NBlocks /\ ~NeedsIndirect
  /\ \/ /\ AllocBlock
        /\ image' = Assigned(image, Offset(NewBlock), BLOCK_SIZE, Slice(Len(direct)))
        /\ direct' = Append(direct, NewBlock)
        /\ UNCHANGED <<mpc, error>>
     \/ VolumeFull /\ UNCHANGED <<image, direct>>
  /\ UNCHANGED <<total_blocks, tail, free_inodes, sb, inodes, blocks, files, num, indirect>>

(* ...the pointer block and the inode... *)
Pointers == [k \in 1 .. BLOCK_SIZE |-> IF DIRECT_BLOCKS + k <= Len(direct)
                                       THEN Pointer(direct[DIRECT_BLOCKS + k])
                                       ELSE Pointer(0)]
FileInode_WholeBlocks ==   \* a plausible bug in place of FileInode
  [entry_type |-> {"FILE"}, crc |-> TRUE, size_bytes |-> Len(direct) * BLOCK_SIZE,
   block_count |-> Len(direct),
   direct_blocks |-> [k \in 1 .. DIRECT_BLOCKS |-> IF k <= Len(direct) THEN direct[k] ELSE 0],
   indirect_block |-> indirect]
FileInode ==
  [entry_type |-> {"FILE"}, crc |-> TRUE, size_bytes |-> FileSize, block_count |-> Len(direct),
   direct_blocks |-> [k \in 1 .. DIRECT_BLOCKS |-> IF k <= Len(direct) THEN direct[k] ELSE 0],
   indirect_block |-> indirect]

WriteInode ==
  /\ mpc = "blocks" /\ Len(direct) = NBlocks
  /\ \/ /\ Len(direct) > DIRECT_BLOCKS + BLOCK_SIZE   \* put32 past the pointer block
        /\ Raises("pointers")
        /\ UNCHANGED <<image, inodes>>
     \/ /\ Len(direct) <= DIRECT_BLOCKS + BLOCK_SIZE
        /\ image' = IF indirect = 0 THEN image
                    ELSE Assigned(image, Offset(indirect), BLOCK_SIZE, Pointers)
        /\ inodes' = [inodes EXCEPT ![num] = FileInode]
        /\ mpc' = "insert" /\ UNCHANGED error
  /\ UNCHANGED <<total_blocks, tail, bitmap, free_blocks, free_inodes, sb, blocks, files, num,
                 direct, indirect>>

(* ...and catalog_insert: the first slot of the root's blocks that looks   *)
(* free, or a new block.  A slot that was never written is zero or, in an  *)
(* image that has become too short, has later data in it: that looks free  *)
(* or not.                                                                  *)
Slots == [i \in 1 .. Len(blocks) * BLOCK_SIZE |->
            Offset(blocks[(i - 1) \div BLOCK_SIZE + 1]) + ((i - 1) % BLOCK_SIZE)]
IsFree(cell, garbage) == cell.is = "zero" \/ (cell.is # "entry" /\ garbage)

CatalogInsert ==
  /\ mpc = "insert"
  /\ \E garbage \in BOOLEAN :
       LET ends == {i \in DOMAIN Slots : Slots[i] >= Len(image)
                                           \/ IsFree(image[Slots[i] + 1], garbage)}
       IN  \/ /\ ends # {} /\ Slots[Least(ends)] >= Len(image)
              /\ Raises("index")
              /\ UNCHANGED <<image, bitmap, free_blocks, blocks, inodes>>
           \/ /\ ends # {} /\ Slots[Least(ends)] < Len(image)
              /\ image' = Assigned(image, Slots[Least(ends)], 1, <<Entry(num)>>)
              /\ mpc' = "files"
              /\ UNCHANGED <<error, bitmap, free_blocks, blocks, inodes>>
           \/ /\ ends = {} /\ AllocBlock
              /\ blocks' = Append(blocks, NewBlock)
              /\ image' = Assigned(image, Offset(NewBlock), 1, <<Entry(num)>>)
              /\ inodes' = [inodes EXCEPT ![0] = RootInode(blocks')]
              /\ mpc' = "files" /\ UNCHANGED error
           \/ /\ ends = {} /\ VolumeFull
              /\ UNCHANGED <<image, blocks, inodes>>
  /\ UNCHANGED <<total_blocks, tail, free_inodes, sb, files, num, direct, indirect>>

-----------------------------------------------------------------------------
(* write_superblock, after the last file. *)
WriteSuperblock ==
  /\ mpc = "files"
  /\ sb' = [free_blocks |-> free_blocks, free_inodes |-> free_inodes]
  /\ mpc' = "done"
  /\ UNCHANGED <<total_blocks, tail, error, image, bitmap, free_blocks, free_inodes, inodes,
                 blocks, files, num, direct, indirect>>

Next == \/ Format
        \/ \E n \in Sizes : AllocInode(n)
        \/ AddIndirect \/ AddBlock \/ WriteInode \/ CatalogInsert
        \/ WriteSuperblock

Spec == Init /\ [][Next]_mkfsVars

-----------------------------------------------------------------------------
(* The image still reaches to the volume's end. *)
Whole == Len(image) >= DataBlocks(total_blocks) * BLOCK_SIZE

(* The blocks that inode n stands for, the root's and, while they are being *)
(* written, those of the file that is added included.                       *)
PointedTo(b) == {image[Offset(b) + k].of : k \in 1 .. BLOCK_SIZE} \ {0}
Holds(n) ==
  IF n = 0 THEN {blocks[i] : i \in DOMAIN blocks}
  ELSE IF mpc = "blocks" /\ n = num
  THEN {direct[i] : i \in DOMAIN direct} \cup ({indirect} \ {0})
  ELSE LET inode == inodes[n] IN
       ({inode.direct_blocks[i] : i \in DOMAIN inode.direct_blocks}
          \cup (IF inode.indirect_block = 0 THEN {}
                ELSE {inode.indirect_block} \cup PointedTo(inode.indirect_block))) \ {0}

-----------------------------------------------------------------------------
(* Types. *)
MkfsTypeOK ==
  /\ mpc \in {"start", "files", "blocks", "insert", "done", "failed"}
  /\ error \in {"none", "small", "full", "inodes", "pointers", "index"}
  /\ \A i \in DOMAIN image : image[i].is \in {"zero", "data", "entry", "pointer", "behind"}
  /\ bitmap \subseteq 0 .. DataBlocks(total_blocks) - 1
  /\ free_inodes \in 0 .. TOTAL_INODES - 1
  /\ files \in Seq(Sizes) /\ num \in 0 .. TOTAL_INODES - 1
  /\ \A i \in DOMAIN direct : direct[i] - DataStart(total_blocks) \in bitmap

(* A block is in one place only: what the bitmap marks is what the root, a *)
(* file or the file being added holds, no block is held twice, and every   *)
(* file has all the blocks its inode counts (owfs_mkfs.py:131-147).        *)
BlocksAccounted ==
  mpc \notin {"start", "failed"} /\ Whole
    => /\ {b - DataStart(total_blocks) : b \in UNION {Holds(n) : n \in DOMAIN inodes}} = bitmap
       /\ \A m, n \in DOMAIN inodes : m # n => Holds(m) \cap Holds(n) = {}
       /\ \A n \in DOMAIN inodes \ {0} :
            inodes[n].entry_type # {} =>
              Cardinality(Holds(n)) = inodes[n].block_count
                                        + (IF inodes[n].indirect_block = 0 THEN 0 ELSE 1)

(* The superblock, written last, counts the blocks and the inodes that are *)
(* free in the bitmap and the inode table (owfs_mkfs.py:252-281).          *)
SuperblockCounts ==
  mpc = "done" => /\ sb.free_blocks = DataBlocks(total_blocks) - Cardinality(bitmap)
                  /\ sb.free_inodes = Cardinality(FreeInodes)

(* "OWFS volume is full" is raised only when every data block is taken:    *)
(* the bitmap, whose blocks come off the data region they describe, always *)
(* covers it (owfs_mkfs.py:92, 131-147).                                    *)
FullMeansFull ==
  mpc = "failed" /\ error = "full" => bitmap = 0 .. DataBlocks(total_blocks) - 1

(* memory.md:92-93 and build_image.py:125, 148: the backup partition table *)
(* and header are at their sectors behind the volume in the finished image.*)
BackupInPlace ==
  mpc = "done" => \A k \in 1 .. tail :
    BackupAt + k \in DOMAIN image /\ image[BackupAt + k] = Behind(k)
=============================================================================
