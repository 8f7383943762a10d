---------------------------- MODULE Mkfs_proofs ----------------------------
(***************************************************************************)
(* Proofs about the formatter, for volumes, bitmap blocks, inode tables    *)
(* and files of any size: the bitmap covers the data region it is taken    *)
(* from, a volume is called full only when it is, the superblock counts    *)
(* what is free, every marked block has one holder, and the image holds    *)
(* every file that was added and a catalog of them.                         *)
(***************************************************************************)
EXTENDS Mkfs, TLAPS, FiniteSetTheorems, SequenceTheorems, WellFoundedInduction

(* What format_owfs asks of total_blocks before it goes on. *)
LargeEnough(total) == total \in Nat /\ total >= OVERHEAD + 2

-----------------------------------------------------------------------------
(* Arithmetic of a bitmap that takes its blocks off what it describes. *)
LEMMA DivMod ==
  \A y \in Nat, m \in Nat \ {0} :
    y \div m \in Int /\ y % m \in 0 .. m - 1 /\ y = m * (y \div m) + (y % m)
  OBVIOUS

LEMMA RoundUp ==
  ASSUME NEW x \in Nat, NEW n \in Nat \ {0}
  PROVE  /\ (x + n) \div (n + 1) \in Nat
         /\ (x + n) \div (n + 1) <= x
         /\ ((x + n) \div (n + 1)) * n >= x - (x + n) \div (n + 1)
  <1> DEFINE q == (x + n) \div (n + 1)
             r == (x + n) % (n + 1)
  <1>1. q \in Int /\ r \in 0 .. n /\ x + n = (n + 1) * q + r
    <2> DEFINE y == x + n
               m == n + 1
    <2>1. y \in Nat /\ m \in Nat \ {0} /\ m - 1 = n
      OBVIOUS
    <2> HIDE DEF y, m
    <2>2. y \div m \in Int /\ y % m \in 0 .. m - 1 /\ y = m * (y \div m) + (y % m)
      BY <2>1, DivMod
    <2> QED
      BY <2>1, <2>2 DEF y, m
  <1> HIDE DEF q, r
  <1>2. (n + 1) * q = n * q + q
    BY <1>1
  <1>3. n * q + q >= x
    BY <1>1, <1>2
  <1>4. q >= 0
    <2>1. CASE q <= -1
      <3>1. n * q <= -n
        BY <1>1, <2>1
      <3> QED
        BY <1>1, <1>2, <2>1, <3>1
    <2> QED
      BY <1>1, <2>1
  <1>5. q <= x
    <2>1. CASE q >= x + 1
      <3>1. n * q >= n * (x + 1)
        BY <1>1, <2>1
      <3>2. n * (x + 1) >= n
        OBVIOUS
      <3> QED
        BY <1>1, <1>2, <2>1, <3>1, <3>2
    <2> QED
      BY <1>1, <2>1
  <1> QED
    BY <1>1, <1>3, <1>4, <1>5 DEF q

(* Every data block has its bit in the bitmap (owfs_mkfs.py:92), whatever  *)
(* the size of the volume.                                                  *)
THEOREM BitmapCoversData ==
  ASSUME NEW total, LargeEnough(total)
  PROVE  /\ DataBlocks(total) \in Nat
         /\ BitmapBlocks(total) * BITS \in Nat
         /\ DataBlocks(total) <= BitmapBlocks(total) * BITS
  <1> DEFINE x == total - OVERHEAD
             q == (x + BITS) \div (BITS + 1)
  <1>1. x \in Nat /\ BITS \in Nat \ {0} /\ total = x + OVERHEAD /\ OVERHEAD \in Nat
    BY MkfsAssumption DEF LargeEnough
  <1>2. q \in Nat /\ q <= x /\ q * BITS >= x - q
    <2> HIDE DEF x
    <2> QED BY <1>1, RoundUp
  <1>3. BitmapBlocks(total) = q /\ DataBlocks(total) = total - (OVERHEAD + q)
    BY DEF BitmapBlocks, DataBlocks, DataStart
  <1> HIDE DEF x, q
  <1>4. q * BITS \in Nat
    BY <1>1, <1>2
  <1> QED
    BY <1>1, <1>2, <1>3, <1>4

LEMMA LeastElement ==
  ASSUME NEW S, S \subseteq Nat, S # {}
  PROVE  Least(S) \in S /\ \A y \in S : Least(S) <= y
  <1>1. \E x \in S : \A y \in S : ~(<<y, x>> \in OpToRel(<, Nat))
    BY WFMin, NatLessThanWellFounded
  <1>2. \A x, y \in S : x < y => <<x, y>> \in OpToRel(<, Nat)
    BY DEF OpToRel
  <1>3. \E x \in S : \A y \in S : ~(y < x)
    BY <1>1, <1>2, Zenon
  <1>4. \E x \in S : \A y \in S : x <= y
    BY <1>3
  <1> QED
    BY <1>4 DEF Least

-----------------------------------------------------------------------------
(* The inductive invariant.  Between alloc_inode and write_inode the       *)
(* superblock's count is one ahead of the inode table, for the inode that  *)
(* is being added.                                                          *)
Running == mpc \notin {"start", "failed"}

BitmapSound ==
  /\ mpc = "start" => bitmap = {} /\ free_blocks = DataBlocks(total_blocks)
  /\ Running => /\ LargeEnough(total_blocks)
                /\ bitmap \subseteq 0 .. DataBlocks(total_blocks) - 1
                /\ free_blocks = DataBlocks(total_blocks) - Cardinality(bitmap)

InodesSound ==
  /\ DOMAIN inodes = 0 .. TOTAL_INODES - 1
  /\ mpc = "start" => /\ \A n \in DOMAIN inodes : inodes[n].entry_type = {}
                      /\ free_inodes = TOTAL_INODES - 1
  /\ Running => inodes[0].entry_type # {}
  /\ mpc \in {"files", "insert", "done"} => free_inodes = Cardinality(FreeInodes)
  /\ mpc = "blocks" => num \in FreeInodes /\ free_inodes = Cardinality(FreeInodes) - 1

IInv == /\ total_blocks \in Nat /\ (error # "none" => mpc = "failed")
        /\ BitmapSound /\ InodesSound /\ SuperblockCounts /\ FullMeansFull

(* What an allocation does to the counts. *)
LEMMA Allocated ==
  ASSUME LargeEnough(total_blocks), bitmap \subseteq 0 .. DataBlocks(total_blocks) - 1,
         free_blocks = DataBlocks(total_blocks) - Cardinality(bitmap), AllocBlock
  PROVE  /\ bitmap' \subseteq 0 .. DataBlocks(total_blocks) - 1
         /\ free_blocks' = DataBlocks(total_blocks) - Cardinality(bitmap')
  <1> DEFINE d == DataBlocks(total_blocks)
             b == Least(ClearBits)
  <1>1. d \in Nat /\ BitmapBlocks(total_blocks) * BITS \in Nat
    BY BitmapCoversData
  <1>2. ClearBits \subseteq Nat /\ ClearBits # {} /\ b < d
    BY <1>1 DEF ClearBits, AllocBlock, HasRoom
  <1>3. b \in ClearBits
    BY <1>2, LeastElement
  <1>4. b \in 0 .. d - 1 /\ b \notin bitmap
    BY <1>1, <1>2, <1>3 DEF ClearBits
  <1>5. IsFiniteSet(bitmap)
    <2> HIDE DEF d
    <2>1. IsFiniteSet(0 .. d - 1)
      BY <1>1, FS_Interval
    <2> QED
      BY <2>1, FS_Subset DEF d
  <1>6. Cardinality(bitmap) \in Nat /\ Cardinality(bitmap \cup {b}) = Cardinality(bitmap) + 1
    BY <1>4, <1>5, FS_CardinalityType, FS_AddElement
  <1>7. bitmap' = bitmap \cup {b} /\ free_blocks' = free_blocks - 1
        /\ free_blocks = d - Cardinality(bitmap)
    BY DEF AllocBlock
  <1> HIDE DEF b, d
  <1> QED
    BY <1>1, <1>4, <1>6, <1>7 DEF d

(* A failing alloc_block means that no data block is free. *)
LEMMA FullIsFull ==
  ASSUME LargeEnough(total_blocks), bitmap \subseteq 0 .. DataBlocks(total_blocks) - 1, ~HasRoom
  PROVE  bitmap = 0 .. DataBlocks(total_blocks) - 1
  <1> DEFINE d == DataBlocks(total_blocks)
             w == BitmapBlocks(total_blocks) * BITS
  <1>1. d \in Nat /\ w \in Nat /\ d <= w
    BY BitmapCoversData
  <1>2. ClearBits = (0 .. w - 1) \ bitmap
    BY DEF ClearBits
  <1>3. ClearBits = {} \/ ~(Least(ClearBits) < d)
    BY DEF HasRoom
  <1> HIDE DEF d, w
  <1>4. ASSUME NEW r \in 0 .. d - 1, r \notin bitmap PROVE FALSE
    <2>1. r \in ClearBits
      BY <1>1, <1>2, <1>4
    <2>2. Least(ClearBits) \in Nat /\ Least(ClearBits) <= r
      BY <1>1, <1>2, <2>1, LeastElement
    <2> QED
      BY <1>1, <1>3, <2>1, <2>2
  <1> QED
    BY <1>4 DEF d

LEMMA InitIInv == Init => IInv
  <1> SUFFICES ASSUME Init PROVE IInv
    OBVIOUS
  <1>1. total_blocks \in Nat
    BY MkfsAssumption DEF Init
  <1>2. BitmapSound
    BY DEF Init, BitmapSound, Running
  <1>3. InodesSound
    <2>1. \A n \in 0 .. TOTAL_INODES - 1 : inodes[n].entry_type = {}
      BY DEF Init, NoInode
    <2> QED
      BY <2>1 DEF Init, InodesSound, Running
  <1> QED
    BY <1>1, <1>2, <1>3 DEF Init, IInv, SuperblockCounts, FullMeansFull

(* A step that raises anything but "full" leaves nothing to show. *)
LEMMA RaisedPreserves ==
  ASSUME IInv, NEW what, Raises(what), what # "full", what # "none", UNCHANGED total_blocks,
         DOMAIN inodes' = 0 .. TOTAL_INODES - 1
  PROVE  IInv'
  BY DEF IInv, Raises, BitmapSound, InodesSound, SuperblockCounts, FullMeansFull, Running

(* So does a full volume, but for what "full" claims. *)
LEMMA FullPreserves ==
  ASSUME IInv, Running, VolumeFull, UNCHANGED <<total_blocks, inodes>>
  PROVE  IInv'
  <1>1. bitmap = 0 .. DataBlocks(total_blocks) - 1
    BY FullIsFull DEF IInv, BitmapSound, VolumeFull
  <1>2. FullMeansFull'
    BY <1>1 DEF FullMeansFull, VolumeFull
  <1>3. mpc' = "failed" /\ error' = "full"
    BY DEF VolumeFull, Raises
  <1>4. InodesSound'
    BY <1>3 DEF IInv, InodesSound, Running
  <1> QED
    BY <1>2, <1>3, <1>4 DEF IInv, BitmapSound, SuperblockCounts, Running

(* An allocation keeps the bitmap sound. *)
LEMMA AllocPreserves ==
  ASSUME IInv, Running, AllocBlock, UNCHANGED total_blocks, Running'
  PROVE  BitmapSound'
  <1>1. /\ bitmap' \subseteq 0 .. DataBlocks(total_blocks) - 1
        /\ free_blocks' = DataBlocks(total_blocks) - Cardinality(bitmap')
    BY Allocated DEF IInv, BitmapSound
  <1> QED
    BY <1>1 DEF IInv, BitmapSound, Running

(* A step that writes no inode keeps the inode table sound. *)
LEMMA SameInodes ==
  ASSUME InodesSound, mpc \in {"files", "blocks", "insert"}, UNCHANGED <<inodes, free_inodes, num>>,
         mpc' = mpc \/ (mpc \in {"files", "insert"} /\ mpc' \in {"files", "insert", "done"})
  PROVE  InodesSound'
  BY DEF InodesSound, FreeInodes, Running

LEMMA FormatPreserves == IInv /\ Format => IInv'
  <1> SUFFICES ASSUME IInv, Format PROVE IInv'
    OBVIOUS
  <1>1. mpc = "start" /\ UNCHANGED <<total_blocks, sb, free_inodes, num>>
    BY DEF Format
  <1>2. CASE Raises("small") /\ UNCHANGED <<bitmap, free_blocks, blocks, inodes>>
    BY <1>1, <1>2 DEF IInv, Raises, BitmapSound, InodesSound, SuperblockCounts, FullMeansFull,
       Running
  <1>3. CASE /\ total_blocks >= OVERHEAD + 2 /\ AllocBlock
             /\ inodes' = [inodes EXCEPT ![0] = RootInode(blocks')]
             /\ mpc' = "files" /\ UNCHANGED error
    <2>1. LargeEnough(total_blocks) /\ bitmap = {} /\ free_blocks = DataBlocks(total_blocks)
      BY <1>1, <1>3 DEF IInv, BitmapSound, LargeEnough
    <2>2. Cardinality(bitmap) = 0 /\ DataBlocks(total_blocks) \in Nat
      BY <2>1, FS_EmptySet, BitmapCoversData
    <2>3. BitmapSound'
      BY <1>1, <1>3, <2>1, <2>2, Allocated DEF BitmapSound, Running
    <2>4. TOTAL_INODES \in Nat \ {0}
      BY MkfsAssumption
    <2>5. /\ DOMAIN inodes = 0 .. TOTAL_INODES - 1 /\ free_inodes = TOTAL_INODES - 1
          /\ \A n \in DOMAIN inodes : inodes[n].entry_type = {}
      BY <1>1 DEF IInv, InodesSound
    <2>6. inodes'[0].entry_type # {} /\ DOMAIN inodes' = 0 .. TOTAL_INODES - 1
      BY <1>3, <2>4, <2>5 DEF RootInode
    <2>7. FreeInodes' = 1 .. TOTAL_INODES - 1
      BY <1>3, <2>4, <2>5, <2>6 DEF FreeInodes
    <2>8. Cardinality(1 .. TOTAL_INODES - 1) = TOTAL_INODES - 1
      BY <2>4, FS_Interval
    <2>9. InodesSound'
      BY <1>1, <1>3, <2>5, <2>6, <2>7, <2>8 DEF InodesSound, Running
    <2> QED
      BY <1>1, <1>3, <2>3, <2>9 DEF IInv, SuperblockCounts, FullMeansFull
  <1> QED
    BY <1>2, <1>3 DEF Format

LEMMA AllocInodePreserves == IInv /\ (\E n \in Sizes : AllocInode(n)) => IInv'
  <1> SUFFICES ASSUME IInv, NEW n \in Sizes, AllocInode(n) PROVE IInv'
    OBVIOUS
  <1>1. mpc = "files" /\ UNCHANGED <<total_blocks, bitmap, free_blocks, inodes, sb>>
    BY DEF AllocInode
  <1>2. CASE Raises("inodes")
    BY <1>1, <1>2, RaisedPreserves DEF IInv, InodesSound
  <1>3. CASE /\ FreeInodes # {} /\ num' = Least(FreeInodes)
             /\ free_inodes' = free_inodes - 1 /\ mpc' = "blocks" /\ UNCHANGED error
    <2>1. FreeInodes \subseteq Nat
      BY MkfsAssumption DEF FreeInodes
    <2>2. num' \in FreeInodes
      BY <1>3, <2>1, LeastElement
    <2>3. FreeInodes' = FreeInodes
      BY <1>1 DEF FreeInodes
    <2>4. InodesSound'
      BY <1>1, <1>3, <2>2, <2>3 DEF IInv, InodesSound, Running
    <2>5. BitmapSound'
      BY <1>1, <1>3 DEF IInv, BitmapSound, Running
    <2> QED
      BY <1>1, <1>3, <2>4, <2>5 DEF IInv, SuperblockCounts, FullMeansFull
  <1> QED
    BY <1>2, <1>3 DEF AllocInode

LEMMA BlocksPreserve == IInv /\ (AddIndirect \/ AddBlock) => IInv'
  <1> SUFFICES ASSUME IInv, AddIndirect \/ AddBlock PROVE IInv'
    OBVIOUS
  <1>1. mpc = "blocks" /\ UNCHANGED <<total_blocks, free_inodes, inodes, num, sb>>
    BY DEF AddIndirect, AddBlock
  <1>2. Running
    BY <1>1 DEF Running
  <1>3. CASE AllocBlock /\ UNCHANGED <<mpc, error>>
    <2>1. BitmapSound'
      BY <1>1, <1>2, <1>3, AllocPreserves DEF Running
    <2>2. InodesSound'
      BY <1>1, <1>3, SameInodes DEF IInv
    <2> QED
      BY <1>1, <1>3, <2>1, <2>2 DEF IInv, SuperblockCounts, FullMeansFull
  <1>4. CASE VolumeFull
    BY <1>1, <1>2, <1>4, FullPreserves
  <1> QED
    BY <1>3, <1>4 DEF AddIndirect, AddBlock

LEMMA WriteInodePreserves == IInv /\ WriteInode => IInv'
  <1> SUFFICES ASSUME IInv, WriteInode PROVE IInv'
    OBVIOUS
  <1>1. mpc = "blocks" /\ UNCHANGED <<total_blocks, bitmap, free_blocks, free_inodes, num, sb>>
    BY DEF WriteInode
  <1>2. CASE Raises("pointers") /\ UNCHANGED inodes
    BY <1>1, <1>2, RaisedPreserves DEF IInv, InodesSound
  <1>3. CASE /\ inodes' = [inodes EXCEPT ![num] = FileInode]
             /\ mpc' = "insert" /\ UNCHANGED error
    <2>1. /\ DOMAIN inodes = 0 .. TOTAL_INODES - 1 /\ inodes[0].entry_type # {}
          /\ num \in FreeInodes /\ free_inodes = Cardinality(FreeInodes) - 1
      BY <1>1 DEF IInv, InodesSound, Running
    <2>2. num # 0 /\ num \in 0 .. TOTAL_INODES - 1
      BY <2>1 DEF FreeInodes
    <2>3. FileInode.entry_type # {}
      BY DEF FileInode
    <2>4. DOMAIN inodes' = DOMAIN inodes /\ inodes'[0].entry_type # {}
      BY <1>3, <2>1, <2>2
    <2>5. FreeInodes' = FreeInodes \ {num}
      BY <1>3, <2>1, <2>2, <2>3 DEF FreeInodes
    <2>6. IsFiniteSet(FreeInodes)
      <3>1. FreeInodes \subseteq 0 .. TOTAL_INODES - 1
        BY DEF FreeInodes
      <3>2. IsFiniteSet(0 .. TOTAL_INODES - 1)
        BY MkfsAssumption, FS_Interval
      <3> QED
        BY <3>1, <3>2, FS_Subset
    <2>7. Cardinality(FreeInodes') = Cardinality(FreeInodes) - 1
      BY <2>1, <2>5, <2>6, FS_RemoveElement
    <2>8. InodesSound'
      BY <1>1, <1>3, <2>1, <2>4, <2>7 DEF InodesSound, Running
    <2>9. BitmapSound'
      BY <1>1, <1>3 DEF IInv, BitmapSound, Running
    <2> QED
      BY <1>1, <1>3, <2>8, <2>9 DEF IInv, SuperblockCounts, FullMeansFull
  <1> QED
    BY <1>2, <1>3 DEF WriteInode

LEMMA CatalogInsertPreserves == IInv /\ CatalogInsert => IInv'
  <1> SUFFICES ASSUME IInv, CatalogInsert PROVE IInv'
    OBVIOUS
  <1>1. mpc = "insert" /\ UNCHANGED <<total_blocks, free_inodes, num, sb>>
    BY DEF CatalogInsert
  <1>2. Running
    BY <1>1 DEF Running
  <1>3. CASE Raises("index") /\ UNCHANGED inodes
    BY <1>1, <1>3, RaisedPreserves DEF IInv, InodesSound
  <1>4. CASE mpc' = "files" /\ UNCHANGED <<error, bitmap, free_blocks, inodes>>
    <2>1. InodesSound'
      BY <1>1, <1>4, SameInodes DEF IInv
    <2>2. BitmapSound'
      BY <1>1, <1>4 DEF IInv, BitmapSound, Running
    <2> QED
      BY <1>1, <1>4, <2>1, <2>2 DEF IInv, SuperblockCounts, FullMeansFull
  <1>5. CASE /\ AllocBlock /\ inodes' = [inodes EXCEPT ![0] = RootInode(blocks')]
             /\ mpc' = "files" /\ UNCHANGED error
    <2>1. BitmapSound'
      BY <1>1, <1>2, <1>5, AllocPreserves DEF Running
    <2>2. DOMAIN inodes = 0 .. TOTAL_INODES - 1 /\ inodes[0].entry_type # {}
      BY <1>2 DEF IInv, InodesSound
    <2>3. RootInode(blocks').entry_type # {}
      BY DEF RootInode
    <2>4. FreeInodes' = FreeInodes
      BY <1>5, <2>2, <2>3 DEF FreeInodes
    <2>5. 0 \in DOMAIN inodes
      BY <2>2, MkfsAssumption
    <2>6. DOMAIN inodes' = DOMAIN inodes /\ inodes'[0].entry_type # {}
      BY <1>5, <2>3, <2>5
    <2>7. InodesSound'
      BY <1>1, <1>5, <2>2, <2>4, <2>6 DEF IInv, InodesSound, Running
    <2> QED
      BY <1>1, <1>5, <2>1, <2>7 DEF IInv, SuperblockCounts, FullMeansFull
  <1>6. CASE VolumeFull /\ UNCHANGED inodes
    BY <1>1, <1>2, <1>6, FullPreserves
  <1> QED
    BY <1>3, <1>4, <1>5, <1>6 DEF CatalogInsert

LEMMA WriteSuperblockPreserves == IInv /\ WriteSuperblock => IInv'
  <1> SUFFICES ASSUME IInv, WriteSuperblock PROVE IInv'
    OBVIOUS
  <1>1. /\ mpc = "files" /\ mpc' = "done"
        /\ sb' = [free_blocks |-> free_blocks, free_inodes |-> free_inodes]
        /\ UNCHANGED <<total_blocks, error, bitmap, free_blocks, free_inodes, inodes, num>>
    BY DEF WriteSuperblock
  <1>2. InodesSound'
    BY <1>1, SameInodes DEF IInv
  <1>3. BitmapSound'
    BY <1>1 DEF IInv, BitmapSound, Running
  <1>4. SuperblockCounts'
    BY <1>1, <1>2, <1>3 DEF SuperblockCounts, InodesSound, BitmapSound, Running
  <1> QED
    BY <1>1, <1>2, <1>3, <1>4 DEF IInv, FullMeansFull

LEMMA StutterPreserves == IInv /\ UNCHANGED mkfsVars => IInv'
  BY DEF mkfsVars, IInv, BitmapSound, InodesSound, SuperblockCounts, FullMeansFull, Running,
         FreeInodes

(* The invariant holds of every state of the formatter. *)
THEOREM MkfsInvariant == Spec => []IInv
  <1>1. IInv /\ [Next]_mkfsVars => IInv'
    BY FormatPreserves, AllocInodePreserves, BlocksPreserve, WriteInodePreserves,
       CatalogInsertPreserves, WriteSuperblockPreserves, StutterPreserves DEF Next
  <1> QED
    BY <1>1, InitIInv, PTL DEF Spec

-----------------------------------------------------------------------------
(* A volume is reported full only when every data block is taken, whatever *)
(* its size and the files (owfs_mkfs.py:92, 131-147).                      *)
THEOREM MkfsFullMeansFull == Spec => []FullMeansFull
  BY MkfsInvariant, PTL DEF IInv

(* The superblock written last counts the free blocks and inodes           *)
(* (owfs_mkfs.py:131-147, 168-175, 252-281).                               *)
THEOREM MkfsSuperblockCounts == Spec => []SuperblockCounts
  BY MkfsInvariant, PTL DEF IInv

-----------------------------------------------------------------------------
(* Slice assignment: what is in front, what was assigned, what is behind. *)
End(img, x) == IF x < Len(img) THEN x ELSE Len(img)

IsAssigned(w, img, at, n, cells) ==
  /\ Len(w) = End(img, at) + Len(cells) + (Len(img) - End(img, at + n))
  /\ \A k \in 1 .. End(img, at) : w[k] = img[k]
  /\ \A k \in 1 .. Len(cells) : w[End(img, at) + k] = cells[k]
  /\ \A k \in 1 .. Len(img) - End(img, at + n) :
       w[End(img, at) + Len(cells) + k] = img[End(img, at + n) + k]

LEMMA AssignedIs ==
  ASSUME NEW S, NEW img \in Seq(S), NEW cells \in Seq(S), NEW at \in Nat, NEW n \in Nat
  PROVE  /\ Assigned(img, at, n, cells) \in Seq(S)
         /\ IsAssigned(Assigned(img, at, n, cells), img, at, n, cells)
  <1> DEFINE a    == End(img, at)
             b    == End(img, at + n)
             l    == Len(img)
             pre  == SubSeq(img, 1, a)
             post == SubSeq(img, b + 1, l)
             m    == Len(cells)
  <1>1. l \in Nat /\ m \in Nat /\ a \in 0 .. l /\ b \in 0 .. l
    <2>1. l \in Nat /\ m \in Nat
      BY LenProperties
    <2> QED
      BY <2>1 DEF End
  <1>2. Assigned(img, at, n, cells) = (pre \o cells) \o post
    BY DEF Assigned, End
  <1> HIDE DEF a, b
  <1>3. \A k \in 1 .. l : img[k] \in S
    BY ElementOfSeq
  <1>4. pre \in Seq(S) /\ Len(pre) = a /\ \A k \in 1 .. a : pre[k] = img[k]
    <2>1. \A k \in 1 .. a : img[k] \in S
      BY <1>1, <1>3
    <2>2. /\ pre \in Seq(S) /\ Len(pre) = (IF 1 <= a THEN a - 1 + 1 ELSE 0)
          /\ \A k \in 1 .. a - 1 + 1 : pre[k] = img[1 + k - 1]
      BY <1>1, <2>1, SubSeqProperties
    <2>3. a - 1 + 1 = a /\ \A k \in 1 .. a : 1 + k - 1 = k
      BY <1>1
    <2> QED
      BY <1>1, <2>2, <2>3
  <1>5. post \in Seq(S) /\ Len(post) = l - b /\ \A k \in 1 .. l - b : post[k] = img[b + k]
    <2>1. \A k \in b + 1 .. l : img[k] \in S
      BY <1>1, <1>3
    <2>2. b + 1 \in Int /\ l \in Int
      BY <1>1
    <2>3. /\ post \in Seq(S) /\ Len(post) = (IF b + 1 <= l THEN l - (b + 1) + 1 ELSE 0)
          /\ \A k \in 1 .. l - (b + 1) + 1 : post[k] = img[b + 1 + k - 1]
      BY <2>1, <2>2, SubSeqProperties
    <2>4. l - (b + 1) + 1 = l - b /\ \A k \in 1 .. l - b : b + 1 + k - 1 = b + k
      BY <1>1
    <2>5. Len(post) = l - b
      BY <1>1, <2>3
    <2> QED
      BY <2>3, <2>4, <2>5
  <1> HIDE DEF pre, post, l, m
  <1>6. /\ pre \o cells \in Seq(S) /\ Len(pre \o cells) = a + m
        /\ \A k \in 1 .. a : (pre \o cells)[k] = img[k]
        /\ \A k \in 1 .. m : (pre \o cells)[a + k] = cells[k]
    <2>1. /\ pre \o cells \in Seq(S) /\ Len(pre \o cells) = Len(pre) + Len(cells)
          /\ \A i \in 1 .. Len(pre) + Len(cells) :
               (pre \o cells)[i] = IF i <= Len(pre) THEN pre[i] ELSE cells[i - Len(pre)]
      BY <1>4, ConcatProperties
    <2>2. \A k \in 1 .. m : a + k \in 1 .. a + m /\ ~(a + k <= a) /\ a + k - a = k
      BY <1>1
    <2>3. \A k \in 1 .. a : k \in 1 .. a + m /\ k <= a
      BY <1>1
    <2> QED
      BY <1>4, <2>1, <2>2, <2>3 DEF m
  <1> DEFINE front == pre \o cells
             all   == front \o post
  <1> HIDE DEF front
  <1>7. /\ all \in Seq(S) /\ Len(all) = a + m + (l - b)
        /\ \A k \in 1 .. a : all[k] = img[k]
        /\ \A k \in 1 .. m : all[a + k] = cells[k]
        /\ \A k \in 1 .. l - b : all[a + m + k] = img[b + k]
    <2>0. front \in Seq(S) /\ Len(front) = a + m
      BY <1>6 DEF front
    <2>1. /\ all \in Seq(S) /\ Len(all) = Len(front) + Len(post)
          /\ \A i \in 1 .. Len(front) + Len(post) :
               all[i] = IF i <= Len(front) THEN front[i] ELSE post[i - Len(front)]
      BY <1>5, <2>0, ConcatProperties
    <2>2. \A k \in 1 .. l - b : /\ a + m + k \in 1 .. a + m + (l - b) /\ ~(a + m + k <= a + m)
                                /\ a + m + k - (a + m) = k
      BY <1>1
    <2>3. \A k \in 1 .. a : k \in 1 .. a + m + (l - b) /\ k <= a + m
      BY <1>1
    <2>4. \A k \in 1 .. m : a + k \in 1 .. a + m + (l - b) /\ a + k <= a + m
      BY <1>1
    <2>5. \A k \in 1 .. l - b : all[a + m + k] = post[k]
      BY <1>5, <2>0, <2>1, <2>2
    <2>6. (\A k \in 1 .. a : all[k] = front[k]) /\ \A k \in 1 .. m : all[a + k] = front[a + k]
      BY <1>5, <2>0, <2>1, <2>3, <2>4
    <2> HIDE DEF all
    <2>7. (\A k \in 1 .. a : all[k] = img[k]) /\ \A k \in 1 .. m : all[a + k] = cells[k]
      BY <1>6, <2>6 DEF front
    <2>8. all \in Seq(S) /\ Len(all) = a + m + (l - b)
      BY <1>5, <2>0, <2>1
    <2> QED
      BY <1>5, <2>5, <2>7, <2>8
  <1> QED
    BY <1>2, <1>7 DEF IsAssigned, a, b, l, m, front

(* Where blocks are. *)
LEMMA BlocksApart ==
  ASSUME NEW size \in Nat, NEW j \in Nat, NEW k \in Nat, j < k
  PROVE  j * size \in Nat /\ k * size \in Nat /\ j * size + size <= k * size
  <1>1. j * size \in Nat /\ k * size \in Nat
    OBVIOUS
  <1>2. (j + 1) * size <= k * size
    <2>1. k = (j + 1) + (k - j - 1) /\ k - j - 1 \in Nat
      OBVIOUS
    <2>2. k * size = (j + 1) * size + (k - j - 1) * size
      BY <2>1
    <2>3. (k - j - 1) * size \in Nat
      BY <2>1
    <2>4. (j + 1) * size \in Nat
      OBVIOUS
    <2> QED
      BY <2>2, <2>3, <2>4
  <1>3. (j + 1) * size = j * size + size
    OBVIOUS
  <1> QED
    BY <1>1, <1>2, <1>3

Spot(c, k) == c * BLOCK_SIZE + k

LEMMA SpotsApart ==
  ASSUME NEW i \in Nat, NEW j \in Nat, i # j, NEW x \in 1 .. BLOCK_SIZE, NEW y \in 1 .. BLOCK_SIZE
  PROVE  Spot(i, x) # Spot(j, y) /\ Spot(i, x) \in Nat
  <1>1. BLOCK_SIZE \in Nat \ {0}
    BY MkfsAssumption
  <1>2. i * BLOCK_SIZE \in Nat /\ j * BLOCK_SIZE \in Nat
    BY <1>1
  <1>3. CASE i < j
    BY <1>1, <1>2, <1>3, BlocksApart DEF Spot
  <1>4. CASE j < i
    BY <1>1, <1>2, <1>4, BlocksApart DEF Spot
  <1> QED
    BY <1>3, <1>4

(* A volume that is large enough has a data region, behind block 0. *)
LEMMA Layout ==
  ASSUME LargeEnough(total_blocks)
  PROVE  /\ DataStart(total_blocks) \in Nat \ {0} /\ DataBlocks(total_blocks) \in Nat
         /\ BitmapBlocks(total_blocks) \in Nat /\ BITS \in Nat
  <1>1. OVERHEAD \in Nat /\ BITS \in Nat \ {0} /\ total_blocks \in Nat
        /\ total_blocks >= OVERHEAD + 2
    BY MkfsAssumption DEF LargeEnough
  <1> DEFINE x == total_blocks - OVERHEAD
             q == (x + BITS) \div (BITS + 1)
  <1>2. x \in Nat /\ x >= 2
    BY <1>1
  <1>3. q \in Nat /\ q * BITS >= x - q
    <2> HIDE DEF x
    <2> QED BY <1>1, <1>2, RoundUp
  <1>4. BitmapBlocks(total_blocks) = q /\ DataStart(total_blocks) = OVERHEAD + q
    BY DEF BitmapBlocks, DataStart
  <1> HIDE DEF x, q
  <1>5. q # 0
    BY <1>1, <1>2, <1>3
  <1> QED
    BY <1>1, <1>3, <1>4, <1>5, BitmapCoversData

-----------------------------------------------------------------------------
(* Blocks are allocated one after the other. *)
Count == Cardinality(bitmap)

LEMMA FirstClear ==
  ASSUME NEW c \in Nat, NEW w \in Nat, NEW b \in (0 .. w - 1) \ (0 .. c - 1),
         \A y \in (0 .. w - 1) \ (0 .. c - 1) : b <= y
  PROVE  b = c /\ (0 .. c - 1) \cup {b} = 0 .. c
  <1>1. b \in 0 .. w - 1 /\ b >= c
    OBVIOUS
  <1>2. c \in (0 .. w - 1) \ (0 .. c - 1)
    BY <1>1
  <1>3. b = c
    BY <1>1, <1>2
  <1> QED
    BY <1>3

LEMMA NextBlock ==
  ASSUME LargeEnough(total_blocks), bitmap \subseteq 0 .. DataBlocks(total_blocks) - 1,
         bitmap = 0 .. Count - 1, AllocBlock, UNCHANGED total_blocks
  PROVE  /\ Count \in Nat /\ Count < DataBlocks(total_blocks)
         /\ NewBlock = DataStart(total_blocks) + Count /\ NewBlock \in Nat \ {0}
         /\ Offset(NewBlock) = Count * BLOCK_SIZE
         /\ bitmap' = bitmap \cup {Count} /\ bitmap' = 0 .. Count' - 1 /\ Count' = Count + 1
  <1> DEFINE d == DataBlocks(total_blocks)
             w == BitmapBlocks(total_blocks) * BITS
             b == Least(ClearBits)
             c == Count
  <1>1. d \in Nat /\ w \in Nat /\ d <= w
    BY BitmapCoversData
  <1>2. DataStart(total_blocks) \in Nat \ {0}
    BY Layout
  <1>3. ClearBits = (0 .. w - 1) \ bitmap /\ ClearBits # {} /\ b < d
        /\ bitmap' = bitmap \cup {b}
    <2>1. ClearBits # {} /\ b < d /\ bitmap' = bitmap \cup {b}
      BY DEF AllocBlock, HasRoom
    <2>2. ClearBits = (0 .. w - 1) \ bitmap
      BY DEF ClearBits
    <2> QED
      BY <2>1, <2>2
  <1>4. c \in Nat
    <2>1. bitmap \subseteq 0 .. d - 1
      OBVIOUS
    <2> HIDE DEF d
    <2>2. IsFiniteSet(0 .. d - 1)
      BY <1>1, FS_Interval
    <2>3. IsFiniteSet(bitmap)
      BY <2>1, <2>2, FS_Subset
    <2> QED
      BY <2>3, FS_CardinalityType DEF Count
  <1>5. bitmap = 0 .. c - 1
    OBVIOUS
  <1> HIDE DEF w, c
  <1>6. ClearBits \subseteq Nat
    BY <1>1, <1>3
  <1>7. b \in ClearBits /\ \A y \in ClearBits : b <= y
    BY <1>3, <1>6, LeastElement
  <1> HIDE DEF b, d
  <1>8. b = c /\ (0 .. c - 1) \cup {b} = 0 .. c
    <2>1. ClearBits = (0 .. w - 1) \ (0 .. c - 1)
      BY <1>3, <1>5, Zenon
    <2> QED
      BY <1>1, <1>4, <1>7, <2>1, FirstClear
  <1>9. bitmap' = 0 .. c
    BY <1>3, <1>5, <1>8, Zenon
  <1>10. Cardinality(0 .. c) = c + 1
    BY <1>4, FS_Interval
  <1>11. Count' = c + 1
    BY <1>9, <1>10 DEF Count
  <1>12. NewBlock = DataStart(total_blocks) + c
    BY <1>8 DEF NewBlock, b
  <1>13. Offset(NewBlock) = c * BLOCK_SIZE
    <2>1. NewBlock - DataStart(total_blocks) = c
      BY <1>2, <1>4, <1>12
    <2> QED
      BY <2>1 DEF Offset
  <1>14. bitmap' = 0 .. Count' - 1
    BY <1>4, <1>9, <1>11
  <1> QED
    BY <1>2, <1>3, <1>4, <1>8, <1>11, <1>12, <1>13, <1>14 DEF c, d

-----------------------------------------------------------------------------
(* What is assigned to the image has the shape of its cells. *)
Cells == [is : {"zero", "data", "entry", "pointer", "behind"}, of : Nat, at : Nat]

LEMMA CellsMade ==
  ASSUME NEW f \in Nat, NEW k \in Nat
  PROVE  /\ Zero \in Cells /\ Data(f, k) \in Cells /\ Entry(f) \in Cells
         /\ Pointer(f) \in Cells /\ Behind(k) \in Cells
  BY DEF Cells, Cell, Zero, Data, Entry, Pointer, Behind

LEMMA OneCell == ASSUME NEW e \in Cells PROVE <<e>> \in Seq(Cells) /\ Len(<<e>>) = 1 /\ <<e>>[1] = e
  OBVIOUS

LEMMA SliceIs ==
  ASSUME files \in Seq(Sizes), Len(files) > 0, NEW i \in Nat
  PROVE  Slice(i) \in Seq(Cells) /\ Len(Slice(i)) <= BLOCK_SIZE
  <1> DEFINE rest == FileSize - i * BLOCK_SIZE
             w    == IF rest < BLOCK_SIZE THEN rest ELSE BLOCK_SIZE
             f    == Len(files)
  <1>1. BLOCK_SIZE \in Nat \ {0} /\ Sizes \subseteq Nat
    BY MkfsAssumption
  <1>2. f \in Nat /\ FileSize \in Nat
    <2>1. f \in Nat /\ f \in 1 .. Len(files)
      BY LenProperties
    <2>2. files[f] \in Sizes
      BY <2>1, ElementOfSeq
    <2> QED
      BY <1>1, <2>1, <2>2 DEF FileSize
  <1>3. rest \in Int /\ i * BLOCK_SIZE \in Nat
    BY <1>1, <1>2
  <1>4. w \in Int /\ w <= BLOCK_SIZE
    <2> HIDE DEF rest
    <2> QED BY <1>1, <1>3
  <1>5. Slice(i) = [k \in 1 .. w |-> Data(f, i * BLOCK_SIZE + k)]
    BY DEF Slice
  <1>6. \A k \in 1 .. w : Data(f, i * BLOCK_SIZE + k) \in Cells
    <2> TAKE k \in 1 .. w
    <2>1. i * BLOCK_SIZE + k \in Nat
      BY <1>3, <1>4
    <2> QED
      BY <1>2, <2>1, CellsMade
  <1> HIDE DEF w
  <1> DEFINE v == IF w < 0 THEN 0 ELSE w
  <1>7. v \in Nat /\ 1 .. w = 1 .. v /\ v <= BLOCK_SIZE
    BY <1>1, <1>4
  <1> HIDE DEF v
  <1>8. Slice(i) = [k \in 1 .. v |-> Data(f, i * BLOCK_SIZE + k)]
    BY <1>5, <1>7
  <1>9. Len(Slice(i)) = v
    BY <1>7, <1>8
  <1>10. Slice(i) \in Seq(Cells)
    <2> DEFINE e(k) == Data(f, i * BLOCK_SIZE + k)
    <2>1. \A k \in 1 .. v : e(k) \in Cells
      BY <1>6, <1>7
    <2>2. Slice(i) = [k \in 1 .. v |-> e(k)]
      BY <1>8
    <2> HIDE DEF e
    <2> QED
      BY <1>7, <2>1, <2>2
  <1> QED
    BY <1>7, <1>9, <1>10

LEMMA PointersIs ==
  ASSUME direct \in Seq(Nat)
  PROVE  /\ Pointers \in Seq(Cells) /\ Len(Pointers) = BLOCK_SIZE
         /\ \A k \in 1 .. BLOCK_SIZE :
              Pointers[k].of = IF DIRECT_BLOCKS + k <= Len(direct)
                               THEN direct[DIRECT_BLOCKS + k] ELSE 0
  <1> DEFINE p(k) == IF DIRECT_BLOCKS + k <= Len(direct) THEN direct[DIRECT_BLOCKS + k] ELSE 0
  <1>1. BLOCK_SIZE \in Nat /\ DIRECT_BLOCKS \in Nat /\ Len(direct) \in Nat
    BY MkfsAssumption, LenProperties
  <1>2. ASSUME NEW k \in 1 .. BLOCK_SIZE PROVE p(k) \in Nat
    <2>1. CASE DIRECT_BLOCKS + k <= Len(direct)
      <3>1. DIRECT_BLOCKS + k \in 1 .. Len(direct)
        BY <1>1, <2>1
      <3> QED
        BY <2>1, <3>1, ElementOfSeq
    <2> QED
      BY <2>1
  <1>3. Pointers = [k \in 1 .. BLOCK_SIZE |-> Pointer(p(k))]
    BY DEF Pointers
  <1> HIDE DEF p
  <1>4. \A k \in 1 .. BLOCK_SIZE : Pointer(p(k)) \in Cells /\ Pointer(p(k)).of = p(k)
    BY <1>2, CellsMade DEF Pointer, Cell
  <1>5. Pointers \in Seq(Cells) /\ Len(Pointers) = BLOCK_SIZE
    BY <1>1, <1>3, <1>4
  <1>6. \A k \in 1 .. BLOCK_SIZE : Pointers[k].of = p(k)
    BY <1>3, <1>4
  <1> QED
    BY <1>5, <1>6 DEF p

(* A place of the catalog is in one of its blocks. *)
LEMMA SlotIs ==
  ASSUME blocks \in Seq(Nat), NEW i \in DOMAIN Slots
  PROVE  \E b \in 1 .. Len(blocks) : \E r \in 0 .. BLOCK_SIZE - 1 :
           Slots[i] = Offset(blocks[b]) + r
  <1> DEFINE l == Len(blocks)
             s == BLOCK_SIZE
             q == (i - 1) \div s
             r == (i - 1) % s
  <1>1. l \in Nat /\ s \in Nat \ {0}
    BY MkfsAssumption, LenProperties
  <1>2. DOMAIN Slots = 1 .. l * s /\ \A j \in 1 .. l * s :
          Slots[j] = Offset(blocks[(j - 1) \div s + 1]) + ((j - 1) % s)
    BY DEF Slots
  <1> HIDE DEF l, s
  <1>3. l * s \in Nat
    BY <1>1
  <1>4. i - 1 \in Nat /\ i - 1 < l * s
    BY <1>2, <1>3
  <1>5. q \in Int /\ r \in 0 .. s - 1 /\ i - 1 = s * q + r
    <2> DEFINE y == i - 1
    <2>1. y \in Nat
      BY <1>4
    <2> HIDE DEF y
    <2>2. y \div s \in Int /\ y % s \in 0 .. s - 1 /\ y = s * (y \div s) + (y % s)
      BY <1>1, <2>1, DivMod
    <2> QED
      BY <2>2 DEF y
  <1>6. Slots[i] = Offset(blocks[q + 1]) + r
    BY <1>2
  <1> HIDE DEF q, r
  <1>7. q \in Nat
    <2>1. CASE q <= -1
      <3>1. s * q <= -s
        BY <1>1, <1>5, <2>1
      <3> QED
        BY <1>1, <1>4, <1>5, <3>1
    <2> QED
      BY <1>5, <2>1
  <1>8. q < l
    <2>1. CASE q = l
      <3>1. s * q = l * s
        BY <1>1, <1>7, <2>1
      <3> QED
        BY <1>3, <1>4, <1>5, <3>1
    <2>2. CASE l < q
      <3>1. l * s + s <= q * s /\ q * s \in Nat
        BY <1>1, <1>7, <2>2, BlocksApart
      <3>2. q * s = s * q
        BY <1>1, <1>7
      <3> QED
        BY <1>1, <1>3, <1>4, <1>5, <3>1, <3>2
    <2> QED
      BY <1>1, <1>7, <2>1, <2>2
  <1>9. q + 1 \in 1 .. l
    BY <1>1, <1>7, <1>8
  <1> QED
    BY <1>5, <1>6, <1>9 DEF l, s

-----------------------------------------------------------------------------
(* Shapes of the variables, and the blocks that are marked: one after the  *)
(* other, those of the root and of the file being added among them, and    *)
(* behind its pointer block one of its data blocks when it has them all.   *)
Shapes ==
  /\ image \in Seq(Cells) /\ blocks \in Seq(Nat) /\ direct \in Seq(Nat) /\ indirect \in Nat
  /\ files \in Seq(Sizes) /\ num \in 0 .. TOTAL_INODES - 1
  /\ free_inodes \in 0 .. TOTAL_INODES - 1
  /\ mpc \in {"start", "files", "blocks", "insert", "done", "failed"}
  /\ error \in {"none", "small", "full", "inodes", "pointers", "index"}

Marked(b) == b - DataStart(total_blocks) \in bitmap

AddedSound ==
  /\ \A i \in 1 .. Len(direct) : Marked(direct[i])
  /\ indirect # 0 => Marked(indirect)
  /\ mpc = "blocks" =>
       /\ Len(files) > 0
       /\ indirect = 0 => Len(direct) <= DIRECT_BLOCKS
       /\ indirect # 0 => \/ Len(direct) < NBlocks
                          \/ indirect - DataStart(total_blocks) + 1 < Count

MarksSound ==
  /\ bitmap \subseteq 0 .. DataBlocks(total_blocks) - 1
  /\ Running => bitmap = 0 .. Count - 1
  /\ Running => \A i \in 1 .. Len(blocks) : Marked(blocks[i])
  /\ mpc # "failed" => \A n \in FreeInodes : inodes[n] = NoInode

TInv == Shapes /\ AddedSound /\ MarksSound

LEMMA MarkedSpot ==
  ASSUME IInv, Running, TInv, NEW b \in Nat, Marked(b)
  PROVE  /\ b - DataStart(total_blocks) \in 0 .. Count - 1 /\ Count \in Nat
         /\ Offset(b) = (b - DataStart(total_blocks)) * BLOCK_SIZE /\ Offset(b) \in Nat
         /\ Offset(b) + BLOCK_SIZE <= Count * BLOCK_SIZE /\ Count * BLOCK_SIZE \in Nat
  <1> DEFINE j == b - DataStart(total_blocks)
             c == Count
             d == DataBlocks(total_blocks)
  <1>1. bitmap = 0 .. c - 1 /\ bitmap \subseteq 0 .. d - 1 /\ LargeEnough(total_blocks)
    BY DEF TInv, MarksSound, IInv, BitmapSound
  <1>2. d \in Nat /\ BLOCK_SIZE \in Nat \ {0}
    BY <1>1, Layout, MkfsAssumption
  <1>3. c \in Nat
    <2> HIDE DEF d
    <2>2. IsFiniteSet(0 .. d - 1)
      BY <1>2, FS_Interval
    <2>3. IsFiniteSet(bitmap)
      BY <1>1, <2>2, FS_Subset
    <2> QED
      BY <2>3, FS_CardinalityType DEF Count
  <1>4. j \in 0 .. c - 1
    BY <1>1 DEF Marked
  <1>5. Offset(b) = j * BLOCK_SIZE
    BY DEF Offset
  <1> HIDE DEF j, c
  <1>6. j \in Nat /\ j < c
    BY <1>3, <1>4
  <1>7. j * BLOCK_SIZE \in Nat /\ c * BLOCK_SIZE \in Nat /\ j * BLOCK_SIZE + BLOCK_SIZE <= c * BLOCK_SIZE
    BY <1>2, <1>3, <1>6, BlocksApart
  <1> QED
    BY <1>3, <1>4, <1>5, <1>7 DEF j, c

LEMMA InitTInv == Init => TInv
  <1> SUFFICES ASSUME Init PROVE TInv
    OBVIOUS
  <1>1. /\ TOTAL_INODES \in Nat \ {0} /\ BLOCK_SIZE \in Nat /\ GAP \in Nat
        /\ tail \in Nat /\ total_blocks \in Nat /\ BITS \in Nat \ {0} /\ OVERHEAD \in Nat
    BY MkfsAssumption DEF Init
  <1>2. image \in Seq(Cells)
    <2> DEFINE a == [k \in 1 .. BackupAt |-> Zero]
               b == [k \in 1 .. tail |-> Behind(k)]
    <2>1. BackupAt \in Int
      <3> DEFINE q == (total_blocks - OVERHEAD + BITS) \div (BITS + 1)
      <3>1. q \in Int
        BY <1>1
      <3>2. DataBlocks(total_blocks) = total_blocks - (OVERHEAD + q)
        BY DEF DataBlocks, DataStart, BitmapBlocks
      <3> HIDE DEF q
      <3>3. DataBlocks(total_blocks) \in Int
        BY <1>1, <3>1, <3>2
      <3> QED
        BY <1>1, <3>3 DEF BackupAt
    <2>2. a \in Seq(Cells)
      <3> DEFINE v == IF BackupAt < 0 THEN 0 ELSE BackupAt
      <3>1. v \in Nat /\ 1 .. BackupAt = 1 .. v
        BY <2>1
      <3>2. a = [k \in 1 .. v |-> Zero]
        BY <3>1
      <3>3. Zero \in Cells
        BY CellsMade
      <3> HIDE DEF v, a
      <3> QED
        BY <3>1, <3>2, <3>3
    <2>3. b \in Seq(Cells)
      <3>1. \A k \in 1 .. tail : Behind(k) \in Cells
        BY <1>1, CellsMade
      <3> QED
        BY <1>1, <3>1
    <2>4. image = a \o b
      BY DEF Init
    <2> HIDE DEF a, b
    <2> QED
      BY <2>2, <2>3, <2>4, ConcatProperties
  <1>3. Shapes
    BY <1>1, <1>2 DEF Init, Shapes
  <1>4. AddedSound
    BY DEF Init, AddedSound
  <1>5. MarksSound
    <2>1. \A n \in FreeInodes : inodes[n] = NoInode
      BY DEF Init, FreeInodes
    <2> QED
      BY <2>1 DEF Init, MarksSound, Running
  <1> QED
    BY <1>3, <1>4, <1>5 DEF TInv

LEMMA MoreMarked ==
  ASSUME UNCHANGED total_blocks, bitmap \subseteq bitmap', NEW b, Marked(b)
  PROVE  b - DataStart(total_blocks') \in bitmap'
  BY DEF Marked, DataStart, BitmapBlocks

(* An allocation in a state of the formatter. *)
LEMMA AllocMarks ==
  ASSUME IInv, TInv, Running, AllocBlock, UNCHANGED total_blocks
  PROVE  /\ NewBlock \in Nat \ {0} /\ NewBlock - DataStart(total_blocks') \in bitmap'
         /\ Offset(NewBlock) = Count * BLOCK_SIZE /\ Offset(NewBlock) \in Nat
         /\ NewBlock = DataStart(total_blocks) + Count /\ Count \in Nat
         /\ bitmap' = bitmap \cup {Count} /\ bitmap' = 0 .. Count' - 1 /\ Count' = Count + 1
         /\ bitmap' \subseteq 0 .. DataBlocks(total_blocks') - 1
  <1>1. LargeEnough(total_blocks) /\ bitmap \subseteq 0 .. DataBlocks(total_blocks) - 1
        /\ bitmap = 0 .. Count - 1
    BY DEF IInv, BitmapSound, TInv, MarksSound
  <1>2. /\ Count \in Nat /\ Count < DataBlocks(total_blocks)
        /\ NewBlock = DataStart(total_blocks) + Count /\ NewBlock \in Nat \ {0}
        /\ Offset(NewBlock) = Count * BLOCK_SIZE
        /\ bitmap' = bitmap \cup {Count} /\ bitmap' = 0 .. Count' - 1 /\ Count' = Count + 1
    BY <1>1, NextBlock
  <1>3. DataStart(total_blocks) \in Nat /\ DataBlocks(total_blocks) \in Nat /\ BLOCK_SIZE \in Nat
    BY <1>1, Layout, MkfsAssumption
  <1>4. DataStart(total_blocks') = DataStart(total_blocks)
        /\ DataBlocks(total_blocks') = DataBlocks(total_blocks)
    OBVIOUS
  <1>5. NewBlock - DataStart(total_blocks') \in bitmap'
    <2>1. NewBlock - DataStart(total_blocks) = Count
      BY <1>2, <1>3
    <2> QED
      BY <1>2, <1>4, <2>1
  <1>6. Count * BLOCK_SIZE \in Nat
    BY <1>2, <1>3
  <1>7. bitmap' \subseteq 0 .. DataBlocks(total_blocks') - 1
    BY <1>1, <1>2, <1>3, <1>4
  <1> QED
    BY <1>2, <1>5, <1>6, <1>7

LEMMA FormatTyped == IInv /\ TInv /\ Format => TInv'
  <1> SUFFICES ASSUME IInv, TInv, Format PROVE TInv'
    OBVIOUS
  <1>1. /\ mpc = "start"
        /\ UNCHANGED <<total_blocks, tail, image, free_inodes, sb, files, num, direct, indirect>>
    BY DEF Format
  <1>2. CASE Raises("small") /\ UNCHANGED <<bitmap, free_blocks, blocks, inodes>>
    <2>1. Shapes'
      BY <1>1, <1>2 DEF TInv, Shapes, Raises
    <2>2. AddedSound'
      BY <1>1, <1>2 DEF TInv, AddedSound, Raises, Marked
    <2>3. MarksSound'
      BY <1>1, <1>2 DEF TInv, MarksSound, Raises, Running
    <2> QED
      BY <2>1, <2>2, <2>3 DEF TInv
  <1>3. CASE /\ total_blocks >= OVERHEAD + 2 /\ AllocBlock /\ blocks' = <<NewBlock>>
             /\ inodes' = [inodes EXCEPT ![0] = RootInode(blocks')]
             /\ mpc' = "files" /\ UNCHANGED error
    <2>1. LargeEnough(total_blocks) /\ bitmap = {} /\ DOMAIN inodes = 0 .. TOTAL_INODES - 1
      BY <1>1, <1>3 DEF IInv, BitmapSound, InodesSound, LargeEnough
    <2>2. bitmap \subseteq 0 .. DataBlocks(total_blocks) - 1 /\ bitmap = 0 .. Count - 1
      <3>1. Count = 0
        BY <2>1, FS_EmptySet DEF Count
      <3> QED
        BY <2>1, <3>1
    <2>3. /\ Count \in Nat /\ Count < DataBlocks(total_blocks)
          /\ NewBlock = DataStart(total_blocks) + Count /\ NewBlock \in Nat \ {0}
          /\ bitmap' = bitmap \cup {Count} /\ bitmap' = 0 .. Count' - 1 /\ Count' = Count + 1
      BY <1>1, <1>3, <2>1, <2>2, NextBlock
    <2>4. DataStart(total_blocks) \in Nat /\ DataBlocks(total_blocks) \in Nat
      BY <2>1, Layout
    <2>5. Shapes'
      <3>1. blocks' \in Seq(Nat)
        BY <1>3, <2>3
      <3> QED
        BY <1>1, <1>3, <3>1 DEF TInv, Shapes
    <2>6. AddedSound'
      <3>1. \A i \in 1 .. Len(direct) : Marked(direct[i])'
        BY <1>1, <2>3, MoreMarked DEF TInv, AddedSound, Marked
      <3>2. indirect # 0 => Marked(indirect)'
        BY <1>1, <2>3, MoreMarked DEF TInv, AddedSound, Marked
      <3> QED
        BY <1>1, <1>3, <3>1, <3>2 DEF AddedSound, Marked
    <2>7. MarksSound'
      <3>1. (bitmap \subseteq 0 .. DataBlocks(total_blocks) - 1)'
        BY <1>1, <2>2, <2>3, <2>4
      <3>2. (\A i \in 1 .. Len(blocks) : Marked(blocks[i]))'
        <4>1. Len(blocks') = 1 /\ blocks'[1] = NewBlock
          BY <1>3
        <4>2. NewBlock - DataStart(total_blocks') = Count
          BY <1>1, <2>3, <2>4
        <4>3. \A i \in 1 .. Len(blocks') : i = 1
          BY <4>1
        <4> QED
          BY <2>3, <4>1, <4>2, <4>3 DEF Marked
      <3>3. (\A n \in FreeInodes : inodes[n] = NoInode)'
        <4>1. \A n \in DOMAIN inodes : inodes'[n] = IF n = 0 THEN RootInode(blocks') ELSE inodes[n]
          BY <1>3
        <4>2. RootInode(blocks').entry_type # {}
          BY DEF RootInode
        <4>3. \A n \in FreeInodes : inodes[n] = NoInode
          BY <1>1 DEF TInv, MarksSound
        <4> QED
          BY <2>1, <4>1, <4>2, <4>3 DEF FreeInodes
      <3> QED
        BY <2>3, <3>1, <3>2, <3>3 DEF MarksSound
    <2> QED
      BY <2>5, <2>6, <2>7 DEF TInv
  <1> QED
    BY <1>2, <1>3 DEF Format

(* A step that marks no block and writes neither image nor inode. *)
LEMMA UnmarkedTyped ==
  ASSUME TInv, Shapes', UNCHANGED <<total_blocks, bitmap, blocks, inodes>>, mpc # "start",
         AddedSound', Running' => Running, mpc' # "failed" => mpc # "failed"
  PROVE  TInv'
  BY DEF TInv, MarksSound, Marked, FreeInodes, Count

(* A failure of the formatter. *)
LEMMA FailureTyped ==
  ASSUME TInv, mpc' = "failed", error' \in {"small", "full", "inodes", "pointers", "index"},
         UNCHANGED <<total_blocks, image, bitmap, blocks, direct, indirect, free_inodes, num>>,
         files' = files \/ \E n \in Sizes : files' = Append(files, n)
  PROVE  TInv'
  <1>1. files' \in Seq(Sizes)
    <2>1. files \in Seq(Sizes)
      BY DEF TInv, Shapes
    <2>2. ASSUME NEW n \in Sizes PROVE Append(files, n) \in Seq(Sizes)
      BY <2>1
    <2> QED
      BY <2>1, <2>2, Zenon
  <1>2. Shapes'
    BY <1>1 DEF TInv, Shapes
  <1>3. AddedSound'
    BY DEF TInv, AddedSound, Marked
  <1>4. MarksSound'
    BY DEF TInv, MarksSound, Running
  <1> QED
    BY <1>2, <1>3, <1>4 DEF TInv

LEMMA AllocInodeTyped == IInv /\ TInv /\ (\E n \in Sizes : AllocInode(n)) => TInv'
  <1> SUFFICES ASSUME IInv, TInv, NEW n \in Sizes, AllocInode(n) PROVE TInv'
    OBVIOUS
  <1>1. /\ mpc = "files" /\ files' = Append(files, n) /\ direct' = <<>> /\ indirect' = 0
        /\ UNCHANGED <<total_blocks, tail, image, bitmap, free_blocks, sb, inodes, blocks>>
    BY DEF AllocInode
  <1>2. CASE Raises("inodes") /\ UNCHANGED <<num, free_inodes>>
    <2>1. Shapes'
      BY <1>1, <1>2 DEF TInv, Shapes, Raises
    <2>2. AddedSound'
      BY <1>1, <1>2 DEF AddedSound, Raises
    <2> QED
      BY <1>1, <1>2, <2>1, <2>2, UnmarkedTyped DEF Raises, Running
  <1>3. CASE /\ FreeInodes # {} /\ num' = Least(FreeInodes)
             /\ free_inodes' = free_inodes - 1 /\ mpc' = "blocks" /\ UNCHANGED error
    <2>1. TOTAL_INODES \in Nat \ {0} /\ DIRECT_BLOCKS \in Nat
      BY MkfsAssumption
    <2>2. FreeInodes \subseteq 0 .. TOTAL_INODES - 1 /\ FreeInodes \subseteq Nat
      BY <2>1 DEF FreeInodes
    <2>3. num' \in 0 .. TOTAL_INODES - 1
      BY <1>3, <2>2, LeastElement
    <2>4. free_inodes = Cardinality(FreeInodes)
      BY <1>1 DEF IInv, InodesSound
    <2>5. free_inodes' \in 0 .. TOTAL_INODES - 1
      <3>1. IsFiniteSet(0 .. TOTAL_INODES - 1)
        BY <2>1, FS_Interval
      <3>2. IsFiniteSet(FreeInodes)
        BY <2>2, <3>1, FS_Subset
      <3>3. Cardinality(FreeInodes) \in Nat /\ Cardinality(FreeInodes) # 0
        BY <1>3, <3>2, FS_CardinalityType, FS_EmptySet
      <3>4. free_inodes \in 0 .. TOTAL_INODES - 1
        BY DEF TInv, Shapes
      <3> QED
        BY <1>3, <2>1, <2>4, <3>3, <3>4
    <2>6. files' \in Seq(Sizes) /\ Len(files') > 0
      <3>1. files \in Seq(Sizes)
        BY DEF TInv, Shapes
      <3> QED
        BY <1>1, <3>1
    <2>7. Shapes'
      BY <1>1, <1>3, <2>3, <2>5, <2>6 DEF TInv, Shapes
    <2>8. AddedSound'
      BY <1>1, <2>1, <2>6 DEF AddedSound
    <2> QED
      BY <1>1, <1>3, <2>7, <2>8, UnmarkedTyped DEF Running
  <1> QED
    BY <1>2, <1>3 DEF AllocInode

LEMMA AddIndirectTyped == IInv /\ TInv /\ AddIndirect => TInv'
  <1> SUFFICES ASSUME IInv, TInv, AddIndirect PROVE TInv'
    OBVIOUS
  <1>1. /\ mpc = "blocks" /\ Running /\ Len(direct) < NBlocks /\ indirect = 0
        /\ UNCHANGED <<total_blocks, image, free_inodes, inodes, blocks, files, num, direct>>
    BY DEF AddIndirect, NeedsIndirect, Running
  <1>2. CASE AllocBlock /\ indirect' = NewBlock /\ UNCHANGED <<mpc, error>>
    <2>1. /\ NewBlock \in Nat \ {0} /\ NewBlock - DataStart(total_blocks') \in bitmap'
          /\ bitmap' = bitmap \cup {Count} /\ bitmap' = 0 .. Count' - 1
          /\ bitmap' \subseteq 0 .. DataBlocks(total_blocks') - 1
      BY <1>1, <1>2, AllocMarks
    <2>2. Shapes'
      BY <1>1, <1>2, <2>1 DEF TInv, Shapes
    <2>3. AddedSound'
      <3>1. \A i \in 1 .. Len(direct) : Marked(direct[i])'
        BY <1>1, <2>1, MoreMarked DEF TInv, AddedSound, Marked
      <3>2. Marked(indirect)'
        BY <1>2, <2>1 DEF Marked
      <3>3. Len(direct') < NBlocks'
        BY <1>1 DEF NBlocks, FileSize
      <3> QED
        BY <1>1, <1>2, <2>1, <3>1, <3>2, <3>3 DEF TInv, AddedSound, Marked
    <2>4. MarksSound'
      <3>1. \A i \in 1 .. Len(blocks) : Marked(blocks[i])'
        BY <1>1, <2>1, MoreMarked DEF TInv, MarksSound, Marked
      <3> QED
        BY <1>1, <1>2, <2>1, <3>1 DEF TInv, MarksSound, Marked, FreeInodes
    <2> QED
      BY <2>2, <2>3, <2>4 DEF TInv
  <1>3. CASE VolumeFull /\ UNCHANGED indirect
    BY <1>1, <1>3, FailureTyped DEF VolumeFull, Raises
  <1> QED
    BY <1>2, <1>3 DEF AddIndirect

LEMMA AddBlockTyped == IInv /\ TInv /\ AddBlock => TInv'
  <1> SUFFICES ASSUME IInv, TInv, AddBlock PROVE TInv'
    OBVIOUS
  <1>1. /\ mpc = "blocks" /\ Running /\ Len(direct) < NBlocks /\ ~NeedsIndirect
        /\ UNCHANGED <<total_blocks, free_inodes, inodes, blocks, files, num, indirect>>
    BY DEF AddBlock, Running
  <1>2. CASE /\ AllocBlock /\ direct' = Append(direct, NewBlock)
             /\ image' = Assigned(image, Offset(NewBlock), BLOCK_SIZE, Slice(Len(direct)))
             /\ UNCHANGED <<mpc, error>>
    <2>1. /\ NewBlock \in Nat \ {0} /\ NewBlock - DataStart(total_blocks') \in bitmap'
          /\ Offset(NewBlock) \in Nat /\ Count \in Nat /\ Count' = Count + 1
          /\ bitmap' = bitmap \cup {Count} /\ bitmap' = 0 .. Count' - 1
          /\ bitmap' \subseteq 0 .. DataBlocks(total_blocks') - 1
      BY <1>1, <1>2, AllocMarks
    <2>2. direct \in Seq(Nat) /\ Len(direct) \in Nat /\ BLOCK_SIZE \in Nat /\ DIRECT_BLOCKS \in Nat
          /\ files \in Seq(Sizes) /\ Len(files) > 0 /\ image \in Seq(Cells)
      BY <1>1, MkfsAssumption, LenProperties DEF TInv, Shapes, AddedSound
    <2>3. image' \in Seq(Cells)
      BY <1>2, <2>1, <2>2, SliceIs, AssignedIs
    <2>4. /\ direct' \in Seq(Nat) /\ Len(direct') = Len(direct) + 1
          /\ direct'[Len(direct) + 1] = NewBlock
          /\ \A i \in 1 .. Len(direct) : direct'[i] = direct[i]
      BY <1>2, <2>1, <2>2, AppendProperties
    <2>5. Shapes'
      BY <1>1, <1>2, <2>3, <2>4 DEF TInv, Shapes
    <2>6. AddedSound'
      <3>1. ASSUME NEW i \in 1 .. Len(direct) + 1
            PROVE  direct'[i] - DataStart(total_blocks') \in bitmap'
        <4>1. CASE i = Len(direct) + 1
          BY <2>1, <2>4, <4>1
        <4>2. CASE i # Len(direct) + 1
          <5>1. i \in 1 .. Len(direct)
            BY <2>2, <4>2
          <5>2. Marked(direct[i])
            BY <5>1 DEF TInv, AddedSound
          <5>3. direct'[i] = direct[i]
            BY <2>4, <5>1
          <5> QED
            BY <1>1, <2>1, <5>2, <5>3, MoreMarked
        <4> QED
          BY <4>1, <4>2
      <3>2. (\A i \in 1 .. Len(direct) : Marked(direct[i]))'
        BY <2>4, <3>1 DEF Marked
      <3>3. indirect # 0 => Marked(indirect)'
        BY <1>1, <2>1, MoreMarked DEF TInv, AddedSound, Marked
      <3>4. indirect # 0 => indirect - DataStart(total_blocks) + 1 < Count'
        <4> SUFFICES ASSUME indirect # 0
                     PROVE  indirect - DataStart(total_blocks) + 1 < Count'
          OBVIOUS
        <4>1. indirect - DataStart(total_blocks) \in 0 .. Count - 1
          BY <1>1 DEF TInv, AddedSound, MarksSound, Marked
        <4> QED
          BY <2>1, <4>1
      <3>5. indirect = 0 => Len(direct') <= DIRECT_BLOCKS
        BY <1>1, <2>2, <2>4 DEF NeedsIndirect
      <3> QED
        BY <1>1, <1>2, <2>2, <3>2, <3>3, <3>4, <3>5 DEF AddedSound, Marked
    <2>7. MarksSound'
      <3>1. \A i \in 1 .. Len(blocks) : Marked(blocks[i])'
        BY <1>1, <2>1, MoreMarked DEF TInv, MarksSound, Marked
      <3> QED
        BY <1>1, <1>2, <2>1, <3>1 DEF TInv, MarksSound, Marked, FreeInodes
    <2> QED
      BY <2>5, <2>6, <2>7 DEF TInv
  <1>3. CASE VolumeFull /\ UNCHANGED <<image, direct>>
    BY <1>1, <1>3, FailureTyped DEF VolumeFull, Raises
  <1> QED
    BY <1>2, <1>3 DEF AddBlock

LEMMA WriteInodeTyped == IInv /\ TInv /\ WriteInode => TInv'
  <1> SUFFICES ASSUME IInv, TInv, WriteInode PROVE TInv'
    OBVIOUS
  <1>1. /\ mpc = "blocks" /\ Running
        /\ UNCHANGED <<total_blocks, bitmap, free_inodes, blocks, files, num, direct, indirect>>
    BY DEF WriteInode, Running
  <1>2. CASE Raises("pointers") /\ UNCHANGED <<image, inodes>>
    BY <1>1, <1>2, FailureTyped DEF Raises
  <1>3. CASE /\ image' = IF indirect = 0 THEN image
                         ELSE Assigned(image, Offset(indirect), BLOCK_SIZE, Pointers)
             /\ inodes' = [inodes EXCEPT ![num] = FileInode]
             /\ mpc' = "insert" /\ UNCHANGED error
    <2>1. image \in Seq(Cells) /\ direct \in Seq(Nat) /\ indirect \in Nat /\ BLOCK_SIZE \in Nat
      BY MkfsAssumption DEF TInv, Shapes
    <2>2. image' \in Seq(Cells)
      <3>1. CASE indirect = 0
        BY <1>3, <2>1, <3>1
      <3>2. CASE indirect # 0
        <4>1. Marked(indirect)
          BY <3>2 DEF TInv, AddedSound
        <4>2. Offset(indirect) \in Nat
          BY <1>1, <2>1, <4>1, MarkedSpot
        <4> QED
          BY <1>3, <2>1, <3>2, <4>2, PointersIs, AssignedIs
      <3> QED
        BY <3>1, <3>2
    <2>3. Shapes'
      BY <1>1, <1>3, <2>2 DEF TInv, Shapes
    <2>4. AddedSound'
      BY <1>1, <1>3 DEF TInv, AddedSound, Marked
    <2>5. MarksSound'
      <3>1. \A n \in FreeInodes : inodes[n] = NoInode
        BY <1>1 DEF TInv, MarksSound
      <3>2. DOMAIN inodes = 0 .. TOTAL_INODES - 1
        BY DEF IInv, InodesSound
      <3>3. FileInode.entry_type # {}
        BY DEF FileInode
      <3>4. \A n \in DOMAIN inodes : inodes'[n] = IF n = num THEN FileInode ELSE inodes[n]
        BY <1>3
      <3>5. (\A n \in FreeInodes : inodes[n] = NoInode)'
        BY <3>1, <3>2, <3>3, <3>4 DEF FreeInodes
      <3> QED
        BY <1>1, <1>3, <3>5 DEF TInv, MarksSound, Marked, Running, Count
    <2> QED
      BY <2>3, <2>4, <2>5 DEF TInv
  <1> QED
    BY <1>2, <1>3 DEF WriteInode

(* A place of the catalog is inside the marked blocks. *)
LEMMA SlotMarked ==
  ASSUME IInv, TInv, Running, NEW i \in DOMAIN Slots
  PROVE  /\ Slots[i] \in Nat
         /\ \E b \in 1 .. Len(blocks) : \E r \in 0 .. BLOCK_SIZE - 1 :
              /\ Slots[i] = Offset(blocks[b]) + r
              /\ blocks[b] \in Nat /\ Marked(blocks[b]) /\ Offset(blocks[b]) \in Nat
  <1>1. blocks \in Seq(Nat)
    BY DEF TInv, Shapes
  <1>2. PICK b \in 1 .. Len(blocks) : \E r \in 0 .. BLOCK_SIZE - 1 :
           Slots[i] = Offset(blocks[b]) + r
    BY <1>1, SlotIs
  <1>3. PICK r \in 0 .. BLOCK_SIZE - 1 : Slots[i] = Offset(blocks[b]) + r
    BY <1>2
  <1>4. blocks[b] \in Nat /\ Marked(blocks[b])
    BY <1>1, ElementOfSeq DEF TInv, MarksSound
  <1>5. Offset(blocks[b]) \in Nat
    BY <1>4, MarkedSpot
  <1> QED
    BY <1>3, <1>4, <1>5

LEMMA CatalogInsertTyped == IInv /\ TInv /\ CatalogInsert => TInv'
  <1> SUFFICES ASSUME IInv, TInv, CatalogInsert PROVE TInv'
    OBVIOUS
  <1>1. /\ mpc = "insert" /\ Running
        /\ UNCHANGED <<total_blocks, free_inodes, files, num, direct, indirect>>
    BY DEF CatalogInsert, Running
  <1>2. image \in Seq(Cells) /\ blocks \in Seq(Nat) /\ Entry(num) \in Cells
    BY CellsMade DEF TInv, Shapes
  <1>3. CASE Raises("index") /\ UNCHANGED <<image, bitmap, blocks>>
    BY <1>1, <1>3, FailureTyped DEF Raises
  <1>4. CASE VolumeFull /\ UNCHANGED <<image, blocks>>
    BY <1>1, <1>4, FailureTyped DEF Raises, VolumeFull
  <1>5. ASSUME NEW i \in DOMAIN Slots, image' = Assigned(image, Slots[i], 1, <<Entry(num)>>),
               mpc' = "files", UNCHANGED <<error, bitmap, blocks, inodes>>
        PROVE  TInv'
    <2>1. image' \in Seq(Cells)
      <3>1. Slots[i] \in Nat
        BY <1>1, SlotMarked
      <3> QED
        BY <1>2, <1>5, <3>1, OneCell, AssignedIs
    <2>2. Shapes'
      BY <1>1, <1>5, <2>1 DEF TInv, Shapes
    <2>3. AddedSound'
      BY <1>1, <1>5 DEF TInv, AddedSound, Marked
    <2> QED
      BY <1>1, <1>5, <2>2, <2>3, UnmarkedTyped
  <1>6. CASE /\ AllocBlock /\ blocks' = Append(blocks, NewBlock)
             /\ image' = Assigned(image, Offset(NewBlock), 1, <<Entry(num)>>)
             /\ inodes' = [inodes EXCEPT ![0] = RootInode(blocks')]
             /\ mpc' = "files" /\ UNCHANGED error
    <2>1. /\ NewBlock \in Nat \ {0} /\ NewBlock - DataStart(total_blocks') \in bitmap'
          /\ Offset(NewBlock) \in Nat
          /\ bitmap' = bitmap \cup {Count} /\ bitmap' = 0 .. Count' - 1
          /\ bitmap' \subseteq 0 .. DataBlocks(total_blocks') - 1
      BY <1>1, <1>6, AllocMarks
    <2>2. image' \in Seq(Cells)
      BY <1>2, <1>6, <2>1, OneCell, AssignedIs
    <2>3. /\ blocks' \in Seq(Nat) /\ Len(blocks') = Len(blocks) + 1 /\ Len(blocks) \in Nat
          /\ blocks'[Len(blocks) + 1] = NewBlock
          /\ \A i \in 1 .. Len(blocks) : blocks'[i] = blocks[i]
      BY <1>2, <1>6, <2>1, AppendProperties, LenProperties
    <2>4. Shapes'
      BY <1>1, <1>6, <2>2, <2>3 DEF TInv, Shapes
    <2>5. AddedSound'
      <3>1. \A i \in 1 .. Len(direct) : Marked(direct[i])'
        BY <1>1, <2>1, MoreMarked DEF TInv, AddedSound, Marked
      <3>2. indirect # 0 => Marked(indirect)'
        BY <1>1, <2>1, MoreMarked DEF TInv, AddedSound, Marked
      <3> QED
        BY <1>1, <1>6, <3>1, <3>2 DEF AddedSound, Marked
    <2>6. MarksSound'
      <3>1. ASSUME NEW i \in 1 .. Len(blocks) + 1
            PROVE  blocks'[i] - DataStart(total_blocks') \in bitmap'
        <4>1. CASE i = Len(blocks) + 1
          BY <2>1, <2>3, <4>1
        <4>2. CASE i # Len(blocks) + 1
          <5>1. i \in 1 .. Len(blocks)
            BY <2>3, <4>2
          <5>2. Marked(blocks[i]) /\ blocks'[i] = blocks[i]
            BY <1>1, <2>3, <5>1 DEF TInv, MarksSound
          <5> QED
            BY <1>1, <2>1, <5>2, MoreMarked
        <4> QED
          BY <4>1, <4>2
      <3>2. (\A n \in FreeInodes : inodes[n] = NoInode)'
        <4>1. 0 \in 0 .. TOTAL_INODES - 1 /\ DOMAIN inodes = 0 .. TOTAL_INODES - 1
          BY MkfsAssumption DEF IInv, InodesSound
        <4>2. \A n \in DOMAIN inodes : inodes'[n] = IF n = 0 THEN RootInode(blocks') ELSE inodes[n]
          BY <1>6
        <4>3. RootInode(blocks').entry_type # {}
          BY DEF RootInode
        <4>4. \A n \in FreeInodes : inodes[n] = NoInode
          BY <1>1 DEF TInv, MarksSound
        <4> QED
          BY <4>1, <4>2, <4>3, <4>4 DEF FreeInodes
      <3> QED
        BY <2>1, <2>3, <3>1, <3>2 DEF MarksSound, Marked
    <2> QED
      BY <2>4, <2>5, <2>6 DEF TInv
  <1> QED
    <2>1. PICK garbage \in BOOLEAN :
            LET ends == {i \in DOMAIN Slots : Slots[i] >= Len(image)
                                                \/ IsFree(image[Slots[i] + 1], garbage)}
            IN  \/ Raises("index") /\ UNCHANGED <<image, bitmap, blocks>>
                \/ /\ ends # {} /\ image' = Assigned(image, Slots[Least(ends)], 1, <<Entry(num)>>)
                   /\ mpc' = "files" /\ UNCHANGED <<error, bitmap, blocks, inodes>>
                \/ /\ AllocBlock /\ blocks' = Append(blocks, NewBlock)
                   /\ image' = Assigned(image, Offset(NewBlock), 1, <<Entry(num)>>)
                   /\ inodes' = [inodes EXCEPT ![0] = RootInode(blocks')]
                   /\ mpc' = "files" /\ UNCHANGED error
                \/ VolumeFull /\ UNCHANGED <<image, blocks>>
      BY DEF CatalogInsert
    <2> DEFINE ends == {i \in DOMAIN Slots : Slots[i] >= Len(image)
                                                \/ IsFree(image[Slots[i] + 1], garbage)}
    <2>2. ends # {} => Least(ends) \in DOMAIN Slots
      <3>1. DOMAIN Slots \subseteq Nat
        BY DEF Slots
      <3>2. ends \subseteq Nat /\ ends \subseteq DOMAIN Slots
        BY <3>1
      <3> HIDE DEF ends
      <3> QED
        BY <3>2, LeastElement
    <2> QED
      BY <1>3, <1>4, <1>5, <1>6, <2>1, <2>2

LEMMA WriteSuperblockTyped == TInv /\ WriteSuperblock => TInv'
  <1> SUFFICES ASSUME TInv, WriteSuperblock PROVE TInv'
    OBVIOUS
  <1>1. /\ mpc = "files" /\ mpc' = "done"
        /\ UNCHANGED <<total_blocks, error, image, bitmap, free_inodes, inodes, blocks, files, num,
                       direct, indirect>>
    BY DEF WriteSuperblock
  <1>2. Shapes' /\ AddedSound'
    BY <1>1 DEF TInv, Shapes, AddedSound, Marked
  <1> QED
    BY <1>1, <1>2, UnmarkedTyped DEF Running

LEMMA StutterTyped == TInv /\ UNCHANGED mkfsVars => TInv'
  BY DEF mkfsVars, TInv, Shapes, AddedSound, MarksSound, Marked, Running, FreeInodes, Count,
         NBlocks, FileSize

LEMMA MkfsTyped == Spec => [](IInv /\ TInv)
  <1>1. IInv /\ TInv /\ [Next]_mkfsVars => TInv'
    BY FormatTyped, AllocInodeTyped, AddIndirectTyped, AddBlockTyped, WriteInodeTyped,
       CatalogInsertTyped, WriteSuperblockTyped, StutterTyped DEF Next
  <1> QED
    BY <1>1, InitTInv, MkfsInvariant, PTL DEF Spec

(* Types: the formatter's state has its types, whatever the sizes           *)
(* (owfs_mkfs.py:86-250).                                                    *)
THEOREM MkfsTypes == Spec => []MkfsTypeOK
  <1>1. IInv /\ TInv => MkfsTypeOK
    <2> SUFFICES ASSUME TInv PROVE MkfsTypeOK
      OBVIOUS
    <2>1. \A i \in DOMAIN image : image[i].is \in {"zero", "data", "entry", "pointer", "behind"}
      <3> TAKE i \in DOMAIN image
      <3>1. image[i] \in Cells
        BY ElementOfSeq, LenProperties DEF TInv, Shapes
      <3> QED
        BY <3>1 DEF Cells
    <2>2. \A i \in DOMAIN direct : direct[i] - DataStart(total_blocks) \in bitmap
      <3>1. DOMAIN direct = 1 .. Len(direct)
        BY LenProperties DEF TInv, Shapes
      <3> QED
        BY <3>1 DEF TInv, AddedSound, Marked
    <2> QED
      BY <2>1, <2>2 DEF TInv, Shapes, MarksSound, MkfsTypeOK
  <1> QED
    BY <1>1, MkfsTyped, PTL

-----------------------------------------------------------------------------
(* Which blocks are whose.  An image that still reaches to the last marked *)
(* block has not been cut so far, and its pointer blocks are where they     *)
(* were written.                                                            *)
Reaches == Len(image) >= Count * BLOCK_SIZE

Partition ==
  /\ \A n \in DOMAIN inodes : \A b \in Holds(n) : b \in Nat /\ Marked(b)
  /\ \A k \in bitmap : \E n \in DOMAIN inodes : DataStart(total_blocks) + k \in Holds(n)
  /\ \A m, n \in DOMAIN inodes : m # n => Holds(m) \cap Holds(n) = {}

Counted ==
  /\ \A n \in DOMAIN inodes \ {0} : inodes[n].entry_type # {} =>
       Cardinality(Holds(n)) = inodes[n].block_count
                                 + (IF inodes[n].indirect_block = 0 THEN 0 ELSE 1)
  /\ mpc = "blocks" =>
       Cardinality(Holds(num)) = Len(direct) + (IF indirect = 0 THEN 0 ELSE 1)

Accounted == mpc # "failed" /\ Reaches => Partition /\ Counted

LEMMA CountIs ==
  ASSUME IInv, TInv, mpc # "failed"
  PROVE  /\ Count \in Nat /\ bitmap = 0 .. Count - 1
         /\ BLOCK_SIZE \in Nat \ {0} /\ Count * BLOCK_SIZE \in Nat
         /\ Len(image) \in Nat
  <1>1. Count \in Nat /\ bitmap = 0 .. Count - 1
    <2>1. CASE mpc = "start"
      <3>1. bitmap = {}
        BY <2>1 DEF IInv, BitmapSound
      <3>2. Count = 0
        BY <3>1, FS_EmptySet DEF Count
      <3> QED
        BY <3>1, <3>2
    <2>2. CASE mpc # "start"
      <3>1. Running
        BY <2>2 DEF Running
      <3>2. bitmap = 0 .. Count - 1 /\ bitmap \subseteq 0 .. DataBlocks(total_blocks) - 1
            /\ DataBlocks(total_blocks) \in Nat
        BY <3>1, Layout DEF TInv, MarksSound, IInv, BitmapSound
      <3>3. IsFiniteSet(bitmap)
        <4> DEFINE d == DataBlocks(total_blocks)
        <4>1. d \in Nat /\ bitmap \subseteq 0 .. d - 1
          BY <3>2
        <4> HIDE DEF d
        <4>2. IsFiniteSet(0 .. d - 1)
          BY <4>1, FS_Interval
        <4> QED
          BY <4>1, <4>2, FS_Subset
      <3> QED
        BY <3>2, <3>3, FS_CardinalityType DEF Count
    <2> QED
      BY <2>1, <2>2
  <1>2. BLOCK_SIZE \in Nat \ {0} /\ Len(image) \in Nat
    BY MkfsAssumption, LenProperties DEF TInv, Shapes
  <1> QED
    BY <1>1, <1>2

(* An allocation gives its block to one holder. *)
LEMMA Grown ==
  ASSUME Partition, NEW m \in DOMAIN inodes, DOMAIN inodes' = DOMAIN inodes,
         UNCHANGED total_blocks, DataStart(total_blocks) \in Nat,
         Count \in Nat, bitmap = 0 .. Count - 1, bitmap' = bitmap \cup {Count},
         NewBlock = DataStart(total_blocks) + Count,
         Holds(m)' = Holds(m) \cup {NewBlock},
         \A n \in DOMAIN inodes : n # m => Holds(n)' = Holds(n)
  PROVE  /\ Partition'
         /\ Cardinality(Holds(m)') = Cardinality(Holds(m)) + 1
         /\ Cardinality(Holds(m)) \in Nat
  <1> DEFINE s == DataStart(total_blocks)
             x == NewBlock
             c == Count
  <1>1. s \in Nat /\ c \in Nat /\ x = s + c /\ DataStart(total_blocks') = s
    OBVIOUS
  <1>2. \A n \in DOMAIN inodes : \A b \in Holds(n) : b \in Nat /\ b - s \in bitmap
    BY DEF Partition, Marked
  <1>3. bitmap = 0 .. c - 1 /\ bitmap' = bitmap \cup {c}
    OBVIOUS
  <1> HIDE DEF s, x, c
  <1>4. \A n \in DOMAIN inodes : Holds(n) \subseteq s .. s + c - 1 /\ x \notin Holds(n)
    <2> TAKE n \in DOMAIN inodes
    <2>1. ASSUME NEW b \in Holds(n) PROVE b \in s .. s + c - 1 /\ b # x
      <3>1. b \in Nat /\ b - s \in 0 .. c - 1
        BY <1>2, <1>3
      <3> QED
        BY <1>1, <3>1
    <2> QED
      BY <2>1
  <1>5. x \in Nat /\ x - s = c
    BY <1>1
  <1>6. \A n \in DOMAIN inodes : \A b \in Holds(n)' : b \in Nat /\ b - s \in bitmap'
    <2> TAKE n \in DOMAIN inodes
    <2>1. CASE n = m
      BY <1>2, <1>3, <1>5, <2>1 DEF x
    <2>2. CASE n # m
      BY <1>2, <1>3, <2>2
    <2> QED
      BY <2>1, <2>2
  <1>7. \A k \in bitmap' : \E n \in DOMAIN inodes : s + k \in Holds(n)'
    <2> TAKE k \in bitmap'
    <2>1. CASE k = c
      BY <1>1, <2>1 DEF x
    <2>2. CASE k \in bitmap
      <3>1. PICK n \in DOMAIN inodes : s + k \in Holds(n)
        BY <2>2 DEF Partition, s
      <3> QED
        BY <3>1
    <2> QED
      BY <1>3, <2>1, <2>2
  <1>8. ASSUME NEW p \in DOMAIN inodes, NEW q \in DOMAIN inodes, p # q
        PROVE  Holds(p)' \cap Holds(q)' = {}
    <2>1. Holds(p) \cap Holds(q) = {}
      BY <1>8 DEF Partition
    <2>2. x \notin Holds(p) /\ x \notin Holds(q)
      BY <1>4
    <2>3. CASE p = m
      BY <1>8, <2>1, <2>2, <2>3 DEF x
    <2>4. CASE q = m
      BY <1>8, <2>1, <2>2, <2>4 DEF x
    <2>5. CASE p # m /\ q # m
      BY <2>1, <2>5
    <2> QED
      BY <2>3, <2>4, <2>5
  <1>9. Partition'
    BY <1>1, <1>6, <1>7, <1>8 DEF Partition, Marked
  <1>10. IsFiniteSet(Holds(m))
    <2>1. IsFiniteSet(s .. s + c - 1)
      BY <1>1, FS_Interval
    <2> QED
      BY <1>4, <2>1, FS_Subset
  <1>11. Cardinality(Holds(m)) \in Nat
         /\ Cardinality(Holds(m) \cup {x}) = Cardinality(Holds(m)) + 1
    BY <1>4, <1>10, FS_CardinalityType, FS_AddElement
  <1> QED
    BY <1>9, <1>11 DEF x

(* A step that marks no block and leaves every block its holder. *)
LEMMA SameHolders ==
  ASSUME Partition, DOMAIN inodes' = DOMAIN inodes, UNCHANGED <<total_blocks, bitmap>>,
         \A n \in DOMAIN inodes : Holds(n)' = Holds(n)
  PROVE  Partition'
  BY DEF Partition, Marked

(* The blocks of a file whose inode and pointer block are not written. *)
LEMMA SameFile ==
  ASSUME IInv, TInv, Running, Reaches, Partition, UNCHANGED total_blocks,
         NEW n \in DOMAIN inodes, n # 0, inodes'[n] = inodes[n],
         ~(mpc = "blocks" /\ n = num), ~(mpc' = "blocks" /\ n = num'),
         \A b \in Holds(n) : \A k \in 1 .. BLOCK_SIZE :
            image'[Offset(b) + k] = image[Offset(b) + k]
  PROVE  Holds(n)' = Holds(n)
  <1>1. PICK b : b = inodes[n].indirect_block
    OBVIOUS
  <1>2. CASE b = 0
    BY <1>1, <1>2 DEF Holds
  <1>3. CASE b # 0
    <2>1. b \in Holds(n)
      BY <1>1, <1>3 DEF Holds
    <2>2. PointedTo(b)' = PointedTo(b)
      BY <2>1 DEF PointedTo, Offset
    <2> QED
      BY <1>1, <1>3, <2>2 DEF Holds
  <1> QED
    BY <1>2, <1>3

LEMMA FreeHolds ==
  ASSUME NEW n \in DOMAIN inodes, n # 0, inodes[n] = NoInode, ~(mpc = "blocks" /\ n = num)
  PROVE  Holds(n) = {}
  <1>1. /\ inodes[n].direct_blocks = [k \in 1 .. DIRECT_BLOCKS |-> 0]
        /\ inodes[n].indirect_block = 0
    BY DEF NoInode
  <1>2. {inodes[n].direct_blocks[i] : i \in DOMAIN inodes[n].direct_blocks} \subseteq {0}
    BY <1>1
  <1> QED
    BY <1>1, <1>2 DEF Holds

LEMMA InitAccounted == Init => Accounted
  <1> SUFFICES ASSUME Init PROVE Partition /\ Counted
    BY DEF Accounted
  <1>1. /\ bitmap = {} /\ blocks = <<>> /\ mpc = "start"
        /\ \A n \in DOMAIN inodes : inodes[n] = NoInode
    BY DEF Init
  <1>2. \A n \in DOMAIN inodes : Holds(n) = {}
    <2> TAKE n \in DOMAIN inodes
    <2>1. CASE n = 0
      BY <1>1, <2>1 DEF Holds
    <2>2. CASE n # 0
      BY <1>1, <2>2, FreeHolds
    <2> QED
      BY <2>1, <2>2
  <1>3. Partition
    BY <1>1, <1>2 DEF Partition
  <1>4. Counted
    BY <1>1 DEF Counted, NoInode
  <1> QED
    BY <1>3, <1>4

LEMMA FormatAccounts == IInv /\ TInv /\ Accounted /\ Format => Accounted'
  <1> SUFFICES ASSUME IInv, TInv, Accounted, Format, mpc' # "failed", Reaches'
               PROVE  Partition' /\ Counted'
    BY DEF Accounted
  <1>1. /\ mpc = "start" /\ mpc' = "files" /\ total_blocks >= OVERHEAD + 2 /\ AllocBlock
        /\ blocks' = <<NewBlock>> /\ inodes' = [inodes EXCEPT ![0] = RootInode(blocks')]
        /\ UNCHANGED <<total_blocks, tail, image, free_inodes, sb, files, num, direct, indirect>>
    BY DEF Format, Raises
  <1>2. LargeEnough(total_blocks) /\ DOMAIN inodes = 0 .. TOTAL_INODES - 1
        /\ \A n \in DOMAIN inodes : inodes[n].entry_type = {}
    BY <1>1 DEF IInv, InodesSound, LargeEnough
  <1>3. Count \in Nat /\ bitmap = 0 .. Count - 1
    BY <1>1, CountIs
  <1>4. /\ Count' = Count + 1 /\ NewBlock = DataStart(total_blocks) + Count
        /\ bitmap' = bitmap \cup {Count} /\ DataStart(total_blocks) \in Nat
    BY <1>1, <1>2, <1>3, NextBlock, Layout DEF TInv, MarksSound
  <1>5. bitmap = {} /\ Count = 0
    <2>1. bitmap = {}
      BY <1>1 DEF IInv, BitmapSound
    <2> QED
      BY <2>1, FS_EmptySet DEF Count
  <1>6. 0 \in DOMAIN inodes
    BY <1>2, MkfsAssumption
  <1>7. DOMAIN inodes' = DOMAIN inodes
        /\ \A n \in DOMAIN inodes : n # 0 => inodes'[n] = inodes[n]
    BY <1>1
  <1>8. ASSUME NEW n \in DOMAIN inodes, n # 0 PROVE inodes'[n] = NoInode /\ Holds(n)' = {}
    <2>1. n \in FreeInodes
      BY <1>2 DEF FreeInodes
    <2>2. inodes[n] = NoInode
      BY <1>1, <2>1 DEF TInv, MarksSound
    <2>3. inodes'[n] = NoInode
      BY <1>7, <1>8, <2>2
    <2>4. /\ \A i \in DOMAIN inodes'[n].direct_blocks : inodes'[n].direct_blocks[i] = 0
          /\ inodes'[n].indirect_block = 0
      BY <2>3 DEF NoInode
    <2> QED
      BY <1>1, <1>8, <2>3, <2>4 DEF Holds
  <1>9. Holds(0)' = {NewBlock}
    <2>1. DOMAIN blocks' = {1} /\ blocks'[1] = NewBlock
      BY <1>1
    <2> QED
      BY <2>1 DEF Holds
  <1>10. Partition'
    <2>1. NewBlock \in Nat /\ NewBlock - DataStart(total_blocks') \in bitmap'
          /\ bitmap' = {0} /\ NewBlock = DataStart(total_blocks') + 0
      BY <1>1, <1>4, <1>5
    <2>2. \A n \in DOMAIN inodes : Holds(n)' = IF n = 0 THEN {NewBlock} ELSE {}
      BY <1>8, <1>9
    <2> QED
      BY <1>6, <1>7, <2>1, <2>2 DEF Partition, Marked
  <1>11. Counted'
    <2>1. \A n \in DOMAIN inodes \ {0} : inodes'[n].entry_type = {}
      BY <1>8 DEF NoInode
    <2> QED
      BY <1>1, <1>7, <2>1 DEF Counted
  <1> QED
    BY <1>10, <1>11

(* An inode is free until it is written, and not the root's. *)
LEMMA AddedInode ==
  ASSUME IInv, mpc = "blocks"
  PROVE  num # 0 /\ num \in DOMAIN inodes /\ num \in FreeInodes
  BY DEF IInv, InodesSound, FreeInodes, Running

LEMMA AllocInodeAccounts ==
  IInv /\ TInv /\ Accounted /\ (\E n \in Sizes : AllocInode(n)) => Accounted'
  <1> SUFFICES ASSUME IInv, TInv, Accounted, NEW size \in Sizes, AllocInode(size),
                      mpc' # "failed", Reaches'
               PROVE  Partition' /\ Counted'
    BY DEF Accounted
  <1>1. /\ mpc = "files" /\ mpc' = "blocks" /\ FreeInodes # {} /\ num' = Least(FreeInodes)
        /\ direct' = <<>> /\ indirect' = 0
        /\ UNCHANGED <<total_blocks, image, bitmap, inodes, blocks>>
    BY DEF AllocInode, Raises
  <1>2. FreeInodes \subseteq Nat
    BY MkfsAssumption DEF FreeInodes
  <1>3. PICK m \in FreeInodes : m = num'
    BY <1>1, <1>2, LeastElement
  <1>4. Reaches /\ Running
    BY <1>1 DEF Reaches, Count, Running
  <1>5. Partition /\ Counted
    BY <1>1, <1>4 DEF Accounted
  <1>6. m # 0 /\ m \in DOMAIN inodes /\ inodes[m] = NoInode
    BY <1>1, <1>3, <1>4 DEF IInv, InodesSound, FreeInodes, TInv, MarksSound, Running
  <1>7. Holds(m) = {} /\ Holds(m)' = {}
    <2>1. Holds(m) = {}
      BY <1>1, <1>6, FreeHolds
    <2>2. Holds(m)' = {}
      BY <1>1, <1>3, <1>6 DEF Holds
    <2> QED
      BY <2>1, <2>2
  <1>8. ASSUME NEW n \in DOMAIN inodes PROVE Holds(n)' = Holds(n)
    <2>1. CASE n = 0
      BY <1>1, <2>1 DEF Holds
    <2>2. CASE n = m
      BY <1>7, <2>2
    <2>3. CASE n # 0 /\ n # m
      BY <1>1, <1>3, <1>4, <1>5, <2>3, SameFile
    <2> QED
      BY <2>1, <2>2, <2>3
  <1>9. Partition'
    BY <1>1, <1>5, <1>8, SameHolders
  <1>10. Counted'
    <2>1. Cardinality(Holds(m)') = 0 /\ Len(direct') = 0
      BY <1>1, <1>7, FS_EmptySet
    <2>2. Cardinality(Holds(num))' = 0
      BY <1>3, <2>1
    <2> QED
      BY <1>1, <1>5, <1>8, <2>1, <2>2 DEF Counted
  <1> QED
    BY <1>9, <1>10

LEMMA AddIndirectAccounts == IInv /\ TInv /\ Accounted /\ AddIndirect => Accounted'
  <1> SUFFICES ASSUME IInv, TInv, Accounted, AddIndirect, mpc' # "failed", Reaches'
               PROVE  Partition' /\ Counted'
    BY DEF Accounted
  <1>1. /\ mpc = "blocks" /\ mpc' = "blocks" /\ Running /\ indirect = 0
        /\ AllocBlock /\ indirect' = NewBlock
        /\ UNCHANGED <<total_blocks, image, inodes, blocks, num, direct>>
    BY DEF AddIndirect, NeedsIndirect, Running, VolumeFull, Raises
  <1>2. /\ NewBlock \in Nat \ {0} /\ NewBlock = DataStart(total_blocks) + Count /\ Count \in Nat
        /\ bitmap' = bitmap \cup {Count} /\ Count' = Count + 1
    BY <1>1, AllocMarks
  <1>3. bitmap = 0 .. Count - 1 /\ BLOCK_SIZE \in Nat /\ Count * BLOCK_SIZE \in Nat
        /\ Len(image) \in Nat /\ DataStart(total_blocks) \in Nat
    BY <1>1, CountIs, Layout DEF IInv, BitmapSound
  <1>4. Reaches
    <2>1. Len(image) >= (Count + 1) * BLOCK_SIZE
      BY <1>1, <1>2 DEF Reaches
    <2>2. (Count + 1) * BLOCK_SIZE = Count * BLOCK_SIZE + BLOCK_SIZE
      BY <1>2, <1>3
    <2> QED
      BY <1>3, <2>1, <2>2 DEF Reaches
  <1>5. Partition /\ Counted
    BY <1>1, <1>4 DEF Accounted
  <1>6. PICK m \in DOMAIN inodes : m = num /\ m # 0
    BY <1>1, AddedInode
  <1>7. Holds(m)' = Holds(m) \cup {NewBlock}
    BY <1>1, <1>2, <1>6 DEF Holds
  <1>8. ASSUME NEW n \in DOMAIN inodes, n # m PROVE Holds(n)' = Holds(n)
    <2>1. CASE n = 0
      BY <1>1, <2>1 DEF Holds
    <2>2. CASE n # 0
      BY <1>1, <1>4, <1>5, <1>6, <1>8, <2>2, SameFile
    <2> QED
      BY <2>1, <2>2
  <1>9. Partition' /\ Cardinality(Holds(m)') = Cardinality(Holds(m)) + 1
        /\ Cardinality(Holds(m)) \in Nat
    BY <1>1, <1>2, <1>3, <1>5, <1>7, <1>8, Grown
  <1>10. Counted'
    <2>1. Cardinality(Holds(m)) = Len(direct) + 0 /\ Len(direct) \in Nat
      BY <1>1, <1>5, <1>6, LenProperties DEF Counted, TInv, Shapes
    <2>2. Cardinality(Holds(num))' = Len(direct') + (IF indirect' = 0 THEN 0 ELSE 1)
      BY <1>1, <1>2, <1>6, <1>9, <2>1
    <2>3. ASSUME NEW n \in DOMAIN inodes' \ {0}, inodes'[n].entry_type # {}
          PROVE  Cardinality(Holds(n)') = inodes'[n].block_count
                                            + (IF inodes'[n].indirect_block = 0 THEN 0 ELSE 1)
      <3>1. n # m
        BY <1>1, <1>6, <2>3, AddedInode DEF FreeInodes
      <3> QED
        BY <1>1, <1>5, <1>8, <2>3, <3>1 DEF Counted
    <2> QED
      BY <2>2, <2>3 DEF Counted
  <1> QED
    BY <1>9, <1>10

(* What writes behind all marked blocks leaves them as they are, and shows  *)
(* that the image reached there.                                            *)
LEMMA WrittenBehind ==
  ASSUME IInv, TInv, Running, AllocBlock, UNCHANGED total_blocks, Reaches',
         NEW n \in 1 .. BLOCK_SIZE, NEW cells \in Seq(Cells), Len(cells) <= n,
         image' = Assigned(image, Offset(NewBlock), n, cells)
  PROVE  /\ Reaches
         /\ \A b \in Nat : Marked(b) =>
              \A k \in 1 .. BLOCK_SIZE : image'[Offset(b) + k] = image[Offset(b) + k]
  <1> DEFINE at == Offset(NewBlock)
             l  == Len(image)
             m  == Len(cells)
             c  == Count
             s  == BLOCK_SIZE
  <1>1. /\ at = c * s /\ at \in Nat /\ c \in Nat /\ Count' = c + 1
    BY AllocMarks
  <1>2. l \in Nat /\ m \in Nat /\ s \in Nat \ {0} /\ c * s \in Nat /\ image \in Seq(Cells)
    BY CountIs, LenProperties DEF Running, TInv, Shapes
  <1>3. /\ Len(image') = End(image, at) + m + (l - End(image, at + n))
        /\ \A k \in 1 .. End(image, at) : image'[k] = image[k]
    <2>1. n \in Nat
      BY <1>2
    <2>2. IsAssigned(image', image, at, n, cells)
      BY <1>1, <1>2, <2>1, AssignedIs
    <2> QED
      BY <2>2 DEF IsAssigned
  <1>4. Len(image') >= (c + 1) * s /\ (c + 1) * s = c * s + s
    BY <1>1, <1>2 DEF Reaches
  <1>5. End(image, at) = (IF at < l THEN at ELSE l)
        /\ End(image, at + n) = (IF at + n < l THEN at + n ELSE l)
    BY DEF End
  <1> HIDE DEF at, l, m, c
  <1>6. l >= c * s
    <2>1. ASSUME l < at PROVE FALSE
      <3>1. End(image, at) = l /\ End(image, at + n) = l
        BY <1>1, <1>2, <1>5, <2>1
      <3>2. Len(image') = l + m
        BY <1>2, <1>3, <3>1
      <3>3. m <= s
        BY <1>2 DEF m
      <3> QED
        BY <1>1, <1>2, <1>4, <2>1, <3>2, <3>3
    <2> QED
      BY <1>1, <1>2, <2>1
  <1>7. End(image, at) = at
    BY <1>1, <1>2, <1>5, <1>6
  <1>8. ASSUME NEW b \in Nat, Marked(b), NEW k \in 1 .. s
        PROVE  image'[Offset(b) + k] = image[Offset(b) + k]
    <2>1. Offset(b) \in Nat /\ Offset(b) + s <= c * s
      BY <1>8, MarkedSpot DEF c
    <2>2. Offset(b) + k \in 1 .. at
      BY <1>1, <1>2, <2>1
    <2> QED
      BY <1>3, <1>7, <2>2
  <1> QED
    BY <1>6, <1>8 DEF Reaches, l, c

(* What is written over as many cells changes those only. *)
IsWrittenOver(w, img, at, cells) ==
  /\ Len(w) = Len(img)
  /\ \A k \in 1 .. Len(cells) : w[at + k] = cells[k]
  /\ \A k \in 1 .. Len(img) : k <= at \/ k > at + Len(cells) => w[k] = img[k]

LEMMA WrittenOver ==
  ASSUME NEW S, NEW img \in Seq(S), NEW cells \in Seq(S), NEW at \in Nat,
         at + Len(cells) <= Len(img)
  PROVE  IsWrittenOver(Assigned(img, at, Len(cells), cells), img, at, cells)
  <1> DEFINE n == Len(cells)
             l == Len(img)
             w == Assigned(img, at, n, cells)
  <1>1. n \in Nat /\ l \in Nat
    BY LenProperties
  <1>2. End(img, at) = at /\ End(img, at + n) = at + n
    BY <1>1 DEF End
  <1>3. /\ Len(w) = End(img, at) + n + (l - End(img, at + n))
        /\ \A k \in 1 .. End(img, at) : w[k] = img[k]
        /\ \A k \in 1 .. n : w[End(img, at) + k] = cells[k]
        /\ \A k \in 1 .. l - End(img, at + n) :
             w[End(img, at) + n + k] = img[End(img, at + n) + k]
    <2>1. IsAssigned(w, img, at, n, cells)
      BY <1>1, AssignedIs
    <2> HIDE DEF w
    <2> QED
      BY <2>1 DEF IsAssigned
  <1> HIDE DEF w
  <1>4. /\ Len(w) = at + n + (l - (at + n))
        /\ \A k \in 1 .. at : w[k] = img[k]
        /\ \A k \in 1 .. n : w[at + k] = cells[k]
        /\ \A k \in 1 .. l - (at + n) : w[at + n + k] = img[at + n + k]
    BY <1>2, <1>3
  <1> HIDE DEF n, l
  <1>5. Len(w) = l
    BY <1>1, <1>4
  <1>6. ASSUME NEW k \in 1 .. l, k <= at \/ k > at + n PROVE w[k] = img[k]
    <2>1. CASE k <= at
      BY <1>1, <1>4, <2>1
    <2>2. CASE k > at + n
      <3>1. k - (at + n) \in 1 .. l - (at + n) /\ at + n + (k - (at + n)) = k
        BY <1>1, <2>2
      <3> QED
        BY <1>4, <3>1
    <2> QED
      BY <1>6, <2>1, <2>2
  <1> QED
    BY <1>4, <1>5, <1>6 DEF IsWrittenOver, n, l, w

LEMMA AddBlockAccounts == IInv /\ TInv /\ Accounted /\ AddBlock => Accounted'
  <1> SUFFICES ASSUME IInv, TInv, Accounted, AddBlock, mpc' # "failed", Reaches'
               PROVE  Partition' /\ Counted'
    BY DEF Accounted
  <1>1. /\ mpc = "blocks" /\ mpc' = "blocks" /\ Running
        /\ AllocBlock /\ direct' = Append(direct, NewBlock)
        /\ image' = Assigned(image, Offset(NewBlock), BLOCK_SIZE, Slice(Len(direct)))
        /\ UNCHANGED <<total_blocks, inodes, blocks, num, indirect>>
    BY DEF AddBlock, Running, VolumeFull, Raises
  <1>2. /\ NewBlock \in Nat \ {0} /\ NewBlock = DataStart(total_blocks) + Count /\ Count \in Nat
        /\ bitmap' = bitmap \cup {Count} /\ Count' = Count + 1
    BY <1>1, AllocMarks
  <1>3. bitmap = 0 .. Count - 1 /\ BLOCK_SIZE \in Nat \ {0} /\ DataStart(total_blocks) \in Nat
    BY <1>1, CountIs, Layout DEF IInv, BitmapSound
  <1>4. direct \in Seq(Nat) /\ Len(direct) \in Nat /\ files \in Seq(Sizes) /\ Len(files) > 0
    BY <1>1, LenProperties DEF TInv, Shapes, AddedSound
  <1>5. /\ Reaches
        /\ \A b \in Nat : Marked(b) =>
             \A k \in 1 .. BLOCK_SIZE : image'[Offset(b) + k] = image[Offset(b) + k]
    <2>1. Slice(Len(direct)) \in Seq(Cells) /\ Len(Slice(Len(direct))) <= BLOCK_SIZE
      BY <1>4, SliceIs
    <2>2. BLOCK_SIZE \in 1 .. BLOCK_SIZE
      BY <1>3
    <2> QED
      BY <1>1, <2>1, <2>2, WrittenBehind
  <1>6. Partition /\ Counted
    BY <1>1, <1>5 DEF Accounted
  <1>7. PICK m \in DOMAIN inodes : m = num /\ m # 0
    BY <1>1, AddedInode
  <1>8. Holds(m)' = Holds(m) \cup {NewBlock} /\ Len(direct') = Len(direct) + 1
    <2>1. /\ DOMAIN direct = 1 .. Len(direct) /\ DOMAIN direct' = 1 .. Len(direct) + 1
          /\ direct'[Len(direct) + 1] = NewBlock
          /\ \A i \in 1 .. Len(direct) : direct'[i] = direct[i]
          /\ Len(direct') = Len(direct) + 1
      BY <1>1, <1>2, <1>4, AppendProperties, LenProperties
    <2>2. 1 .. Len(direct) + 1 = (1 .. Len(direct)) \cup {Len(direct) + 1}
      BY <1>4
    <2>3. {direct'[i] : i \in DOMAIN direct'} = {direct[i] : i \in DOMAIN direct} \cup {NewBlock}
      BY <2>1, <2>2
    <2>4. Holds(m) = {direct[i] : i \in DOMAIN direct} \cup ({indirect} \ {0})
      BY <1>1, <1>7 DEF Holds
    <2>5. Holds(m)' = {direct'[i] : i \in DOMAIN direct'} \cup ({indirect} \ {0})
      BY <1>1, <1>7 DEF Holds
    <2> QED
      BY <2>1, <2>3, <2>4, <2>5
  <1>9. ASSUME NEW n \in DOMAIN inodes, n # m PROVE Holds(n)' = Holds(n)
    <2>1. CASE n = 0
      BY <1>1, <2>1 DEF Holds
    <2>2. CASE n # 0
      <3>1. \A b \in Holds(n) : \A k \in 1 .. BLOCK_SIZE :
              image'[Offset(b) + k] = image[Offset(b) + k]
        BY <1>5, <1>6 DEF Partition
      <3> QED
        BY <1>1, <1>5, <1>6, <1>7, <1>9, <2>2, <3>1, SameFile
    <2> QED
      BY <2>1, <2>2
  <1>10. Partition' /\ Cardinality(Holds(m)') = Cardinality(Holds(m)) + 1
         /\ Cardinality(Holds(m)) \in Nat
    BY <1>1, <1>2, <1>3, <1>6, <1>8, <1>9, Grown
  <1>11. Counted'
    <2>1. Cardinality(Holds(m)) = Len(direct) + (IF indirect = 0 THEN 0 ELSE 1)
      BY <1>1, <1>6, <1>7 DEF Counted
    <2>2. Cardinality(Holds(num))' = Len(direct') + (IF indirect' = 0 THEN 0 ELSE 1)
      <3>1. Cardinality(Holds(num))' = Cardinality(Holds(m)')
        BY <1>1, <1>7
      <3>2. Cardinality(Holds(m)') = Len(direct) + 1 + (IF indirect = 0 THEN 0 ELSE 1)
        BY <1>4, <1>10, <2>1
      <3> QED
        BY <1>1, <1>8, <3>1, <3>2
    <2>3. ASSUME NEW n \in DOMAIN inodes' \ {0}, inodes'[n].entry_type # {}
          PROVE  Cardinality(Holds(n)') = inodes'[n].block_count
                                            + (IF inodes'[n].indirect_block = 0 THEN 0 ELSE 1)
      <3>1. n # m
        BY <1>1, <1>7, <2>3, AddedInode DEF FreeInodes
      <3> QED
        BY <1>1, <1>6, <1>9, <2>3, <3>1 DEF Counted
    <2> QED
      BY <2>2, <2>3 DEF Counted
  <1> QED
    BY <1>10, <1>11

(* The pointer block is written between blocks that stay as they are. *)
LEMMA PointersWritten ==
  ASSUME IInv, TInv, Running, mpc = "blocks", indirect # 0, Len(direct) = NBlocks,
         UNCHANGED <<total_blocks, bitmap>>, Reaches',
         image' = Assigned(image, Offset(indirect), BLOCK_SIZE, Pointers)
  PROVE  /\ Reaches
         /\ \A k \in 1 .. BLOCK_SIZE : image'[Offset(indirect) + k] = Pointers[k]
         /\ \A b \in Nat : Marked(b) /\ b # indirect =>
              \A k \in 1 .. BLOCK_SIZE : image'[Offset(b) + k] = image[Offset(b) + k]
  <1> DEFINE at == Offset(indirect)
             l  == Len(image)
             c  == Count
             s  == BLOCK_SIZE
             j  == indirect - DataStart(total_blocks)
  <1>1. /\ l \in Nat /\ s \in Nat \ {0} /\ c \in Nat /\ c * s \in Nat /\ image \in Seq(Cells)
        /\ direct \in Seq(Nat) /\ indirect \in Nat /\ Marked(indirect) /\ Len(direct) \in Nat
    BY CountIs, LenProperties DEF Running, TInv, Shapes, AddedSound
  <1>2. j \in 0 .. c - 1 /\ at = j * s /\ at \in Nat
    BY <1>1, MarkedSpot
  <1>3. j + 1 < c
    BY <1>1 DEF TInv, AddedSound
  <1>4. Pointers \in Seq(Cells) /\ Len(Pointers) = s
    BY <1>1, PointersIs
  <1>5. at + s + s <= c * s
    <2> HIDE DEF j, c, s, at
    <2>1. j \in Nat /\ j + 1 \in Nat
      BY <1>1, <1>2
    <2>2. (j + 1) * s + s <= c * s /\ j * s + s <= (j + 1) * s /\ (j + 1) * s \in Nat
      BY <1>1, <1>3, <2>1, BlocksApart
    <2> QED
      BY <1>1, <1>2, <2>2
  <1>6. Len(image') = End(image, at) + s + (l - End(image, at + s))
    <2>1. IsAssigned(image', image, at, s, Pointers)
      BY <1>1, <1>2, <1>4, AssignedIs
    <2> QED
      BY <1>4, <2>1 DEF IsAssigned
  <1>7. End(image, at) = (IF at < l THEN at ELSE l)
        /\ End(image, at + s) = (IF at + s < l THEN at + s ELSE l)
    BY DEF End
  <1>8. Len(image') >= c * s
    BY DEF Reaches, Count
  <1> HIDE DEF at, l, c, s
  <1>9. at \in Nat /\ s \in Nat \ {0} /\ l \in Nat
    BY <1>1, <1>2
  <1>10. l >= c * s
    <2>1. CASE l < at
      <3>1. End(image, at) = l /\ End(image, at + s) = l
        BY <1>1, <1>2, <1>7, <2>1
      <3> QED
        BY <1>1, <1>2, <1>5, <1>6, <1>8, <2>1, <3>1
    <2>2. CASE at <= l /\ l < at + s
      <3>1. End(image, at) = at /\ End(image, at + s) = l
        BY <1>1, <1>2, <1>7, <2>2
      <3> QED
        BY <1>1, <1>2, <1>5, <1>6, <1>8, <2>2, <3>1
    <2>3. CASE at + s <= l
      <3>1. at < l
        BY <1>9, <2>3
      <3>2. End(image, at) = at
        BY <1>7, <3>1
      <3>3. End(image, at + s) = at + s
        BY <1>7, <1>9, <2>3
      <3> QED
        BY <1>1, <1>2, <1>6, <1>8, <3>2, <3>3
    <2> QED
      BY <1>1, <1>2, <2>1, <2>2, <2>3
  <1>11. at + s <= l
    BY <1>1, <1>2, <1>5, <1>10
  <1>12. /\ \A k \in 1 .. s : image'[at + k] = Pointers[k]
         /\ \A k \in 1 .. l : k <= at \/ k > at + s => image'[k] = image[k]
    <2>1. at + Len(Pointers) <= Len(image) /\ image' = Assigned(image, at, Len(Pointers), Pointers)
      BY <1>4, <1>11 DEF l, at, s
    <2>2. IsWrittenOver(image', image, at, Pointers)
      BY <1>1, <1>2, <1>4, <2>1, WrittenOver
    <2> QED
      BY <1>4, <2>2 DEF IsWrittenOver, l
  <1>13. ASSUME NEW b \in Nat, Marked(b), b # indirect, NEW k \in 1 .. s
         PROVE  image'[Offset(b) + k] = image[Offset(b) + k]
    <2> DEFINE i == b - DataStart(total_blocks)
    <2>1. i \in 0 .. c - 1 /\ Offset(b) = i * s /\ Offset(b) \in Nat /\ Offset(b) + s <= c * s
      BY <1>13, MarkedSpot DEF c, s
    <2>2. i # j
      <3>1. DataStart(total_blocks) \in Nat
        BY Layout DEF IInv, BitmapSound
      <3> QED
        BY <1>1, <1>13, <3>1
    <2> HIDE DEF i, j
    <2>3. Offset(b) + k \in 1 .. l
      <3>1. c * s \in Nat
        BY <1>1, <1>9
      <3>2. Offset(b) + s <= l /\ Offset(b) \in Nat
        BY <1>1, <1>10, <2>1, <3>1
      <3> QED
        BY <1>1, <1>13, <3>2
    <2>4. i \in Nat /\ j \in Nat
      BY <1>1, <1>2, <2>1
    <2>5. CASE i < j
      <3>1. i * s + s <= j * s
        BY <1>1, <2>4, <2>5, BlocksApart
      <3>2. Offset(b) + s <= at
        BY <1>2, <2>1, <3>1
      <3>3. Offset(b) \in Nat
        BY <2>1
      <3>4. Offset(b) + k <= at
        BY <1>9, <3>2, <3>3
      <3> QED
        BY <1>12, <2>3, <3>4
    <2>6. CASE j < i
      <3>1. j * s + s <= i * s
        BY <1>1, <2>4, <2>6, BlocksApart
      <3>2. Offset(b) + k > at + s
        BY <1>1, <1>2, <2>1, <3>1
      <3> QED
        BY <1>12, <2>3, <3>2
    <2> QED
      BY <2>2, <2>4, <2>5, <2>6
  <1>14. Reaches
    BY <1>10 DEF Reaches, l, c, s
  <1> QED
    BY <1>12, <1>13, <1>14 DEF at, s

(* The inode that is written, and its pointer block, hold what was          *)
(* allocated for the file.                                                  *)
LEMMA InodeHolds ==
  ASSUME IInv, TInv, mpc = "blocks", Partition, NEW m \in DOMAIN inodes, m = num, m # 0,
         mpc' = "insert", UNCHANGED <<total_blocks, num>>, inodes'[m] = FileInode,
         Len(direct) <= DIRECT_BLOCKS + BLOCK_SIZE,
         indirect # 0 => \A k \in 1 .. BLOCK_SIZE : image'[Offset(indirect) + k] = Pointers[k]
  PROVE  Holds(m)' = Holds(m)
  <1> DEFINE db   == FileInode.direct_blocks
             last == Len(direct)
             here == {image'[Offset(indirect) + k].of : k \in 1 .. BLOCK_SIZE} \ {0}
             new  == ({db[i] : i \in DOMAIN db}
                        \cup (IF indirect = 0 THEN {} ELSE {indirect} \cup here)) \ {0}
  <1>1. Holds(m) = {direct[i] : i \in DOMAIN direct} \cup ({indirect} \ {0})
    BY DEF Holds
  <1>2. Holds(m)' = new
    BY DEF Holds, PointedTo, Offset, FileInode
  <1>3. /\ direct \in Seq(Nat) /\ last \in Nat /\ DOMAIN direct = 1 .. last
        /\ DIRECT_BLOCKS \in Nat /\ BLOCK_SIZE \in Nat
        /\ indirect = 0 => last <= DIRECT_BLOCKS
    BY LenProperties, MkfsAssumption DEF TInv, Shapes, AddedSound
  <1>4. DOMAIN db = 1 .. DIRECT_BLOCKS
        /\ \A i \in 1 .. DIRECT_BLOCKS : db[i] = IF i <= last THEN direct[i] ELSE 0
    BY DEF FileInode
  <1>5. \A k \in 1 .. BLOCK_SIZE : indirect # 0 =>
          image'[Offset(indirect) + k].of
            = IF DIRECT_BLOCKS + k <= last THEN direct[DIRECT_BLOCKS + k] ELSE 0
    BY <1>3, PointersIs
  <1>6. \A i \in 1 .. last : direct[i] # 0
    <2> TAKE i \in 1 .. last
    <2>1. direct[i] \in Nat /\ Marked(direct[i])
      BY <1>1, <1>3 DEF Partition
    <2>2. bitmap = 0 .. Count - 1 /\ Count \in Nat /\ DataStart(total_blocks) \in Nat \ {0}
      BY CountIs, Layout DEF IInv, BitmapSound, Running
    <2> QED
      BY <2>1, <2>2 DEF Marked
  <1> HIDE DEF db, last
  <1>7. new \subseteq Holds(m)
    <2> SUFFICES ASSUME NEW x \in new PROVE x \in Holds(m)
      OBVIOUS
    <2>1. x # 0
      OBVIOUS
    <2>2. CASE x \in {db[i] : i \in DOMAIN db}
      <3>1. PICK i \in 1 .. DIRECT_BLOCKS : x = db[i]
        BY <1>4, <2>2
      <3>2. i <= last /\ x = direct[i]
        BY <1>4, <2>1, <3>1
      <3>3. i \in 1 .. last
        BY <1>3, <3>2
      <3> QED
        BY <1>1, <1>3, <3>2, <3>3
    <2>3. CASE indirect # 0 /\ x = indirect
      BY <1>1, <2>3
    <2>4. CASE indirect # 0 /\ x \in here
      <3>1. PICK k \in 1 .. BLOCK_SIZE : x = image'[Offset(indirect) + k].of
        BY <2>4
      <3>2. DIRECT_BLOCKS + k <= last /\ x = direct[DIRECT_BLOCKS + k]
        BY <1>5, <2>1, <2>4, <3>1
      <3>3. DIRECT_BLOCKS + k \in 1 .. last
        BY <1>3, <3>2
      <3> QED
        BY <1>1, <1>3, <3>2, <3>3
    <2> QED
      BY <2>2, <2>3, <2>4
  <1>8. Holds(m) \subseteq new
    <2> SUFFICES ASSUME NEW x \in Holds(m) PROVE x \in new
      OBVIOUS
    <2>1. CASE x \in {direct[i] : i \in DOMAIN direct}
      <3>1. PICK i \in 1 .. last : x = direct[i]
        BY <1>3, <2>1
      <3>2. x # 0
        BY <1>6, <3>1
      <3>3. CASE i <= DIRECT_BLOCKS
        <4>1. i \in 1 .. DIRECT_BLOCKS /\ i <= last
          BY <1>3, <3>3
        <4>2. x = db[i] /\ i \in DOMAIN db
          BY <1>4, <3>1, <4>1
        <4> QED
          BY <3>2, <4>2
      <3>4. CASE i > DIRECT_BLOCKS
        <4>1. indirect # 0
          BY <1>3, <3>4
        <4>2. i - DIRECT_BLOCKS \in 1 .. BLOCK_SIZE /\ DIRECT_BLOCKS + (i - DIRECT_BLOCKS) = i
              /\ i <= last
          BY <1>3, <3>4 DEF last
        <4>3. image'[Offset(indirect) + (i - DIRECT_BLOCKS)].of = x
          BY <1>5, <3>1, <4>1, <4>2
        <4>4. x \in here
          BY <3>2, <4>2, <4>3
        <4> QED
          BY <3>2, <4>1, <4>4
      <3> QED
        BY <1>3, <3>3, <3>4
    <2>2. CASE indirect # 0 /\ x = indirect
      BY <2>2
    <2> QED
      BY <1>1, <2>1, <2>2
  <1> QED
    BY <1>2, <1>7, <1>8

LEMMA WriteInodeAccounts == IInv /\ TInv /\ Accounted /\ WriteInode => Accounted'
  <1> SUFFICES ASSUME IInv, TInv, Accounted, WriteInode, mpc' # "failed", Reaches'
               PROVE  Partition' /\ Counted'
    BY DEF Accounted
  <1>1. /\ mpc = "blocks" /\ mpc' = "insert" /\ Running /\ Len(direct) = NBlocks
        /\ Len(direct) <= DIRECT_BLOCKS + BLOCK_SIZE
        /\ image' = IF indirect = 0 THEN image
                    ELSE Assigned(image, Offset(indirect), BLOCK_SIZE, Pointers)
        /\ inodes' = [inodes EXCEPT ![num] = FileInode]
        /\ UNCHANGED <<total_blocks, bitmap, blocks, num, direct, indirect>>
    BY DEF WriteInode, Running, Raises
  <1>2. PICK m \in DOMAIN inodes : m = num /\ m # 0
    BY <1>1, AddedInode
  <1>3. /\ DOMAIN inodes' = DOMAIN inodes /\ inodes'[m] = FileInode
        /\ \A n \in DOMAIN inodes : n # m => inodes'[n] = inodes[n]
    BY <1>1, <1>2
  <1>4. /\ Reaches
        /\ indirect # 0 => \A k \in 1 .. BLOCK_SIZE : image'[Offset(indirect) + k] = Pointers[k]
        /\ \A b \in Nat : Marked(b) /\ (indirect # 0 => b # indirect) =>
             \A k \in 1 .. BLOCK_SIZE : image'[Offset(b) + k] = image[Offset(b) + k]
    <2>1. CASE indirect = 0
      BY <1>1, <2>1 DEF Reaches, Count
    <2>2. CASE indirect # 0
      BY <1>1, <2>2, PointersWritten
    <2> QED
      BY <2>1, <2>2
  <1>5. Partition /\ Counted
    BY <1>1, <1>4 DEF Accounted
  <1>6. Holds(m)' = Holds(m)
    BY <1>1, <1>2, <1>3, <1>4, <1>5, InodeHolds
  <1>7. ASSUME NEW n \in DOMAIN inodes PROVE Holds(n)' = Holds(n)
    <2>1. CASE n = 0
      BY <1>1, <2>1 DEF Holds
    <2>2. CASE n = m
      BY <1>6, <2>2
    <2>3. CASE n # 0 /\ n # m
      <3>1. ASSUME NEW b \in Holds(n), NEW k \in 1 .. BLOCK_SIZE
            PROVE  image'[Offset(b) + k] = image[Offset(b) + k]
        <4>1. b \in Nat /\ Marked(b) /\ b \notin Holds(m)
          BY <1>5, <2>3, <3>1 DEF Partition
        <4>2. indirect # 0 => indirect \in Holds(m)
          BY <1>1, <1>2 DEF Holds
        <4> QED
          BY <1>4, <4>1, <4>2
      <3> QED
        BY <1>1, <1>2, <1>3, <1>4, <1>5, <2>3, <3>1, SameFile
    <2> QED
      BY <2>1, <2>2, <2>3
  <1>8. Partition'
    BY <1>1, <1>3, <1>5, <1>7, SameHolders
  <1>9. Counted'
    <2>1. Cardinality(Holds(m)) = Len(direct) + (IF indirect = 0 THEN 0 ELSE 1)
      BY <1>1, <1>2, <1>5 DEF Counted
    <2>2. ASSUME NEW n \in DOMAIN inodes \ {0}, inodes'[n].entry_type # {}
          PROVE  Cardinality(Holds(n)') = inodes'[n].block_count
                                            + (IF inodes'[n].indirect_block = 0 THEN 0 ELSE 1)
      <3>1. CASE n = m
        BY <1>3, <1>6, <2>1, <3>1 DEF FileInode
      <3>2. CASE n # m
        BY <1>3, <1>5, <1>7, <2>2, <3>2 DEF Counted
      <3> QED
        BY <3>1, <3>2
    <2> QED
      BY <1>1, <1>3, <2>2 DEF Counted
  <1> QED
    BY <1>8, <1>9

(* A catalog entry is written into a block of the root: no other changes. *)
LEMMA EntryWritten ==
  ASSUME IInv, TInv, Running, Partition, UNCHANGED <<total_blocks, bitmap>>, Reaches',
         NEW i \in DOMAIN Slots, Slots[i] < Len(image),
         image' = Assigned(image, Slots[i], 1, <<Entry(num)>>)
  PROVE  /\ Reaches
         /\ \A n \in DOMAIN inodes \ {0} : \A b \in Holds(n) : \A k \in 1 .. BLOCK_SIZE :
              image'[Offset(b) + k] = image[Offset(b) + k]
  <1> DEFINE e == <<Entry(num)>>
             l == Len(image)
  <1>1. /\ e \in Seq(Cells) /\ Len(e) = 1 /\ image \in Seq(Cells) /\ l \in Nat
        /\ bitmap = 0 .. Count - 1 /\ Count \in Nat /\ Count * BLOCK_SIZE \in Nat
        /\ BLOCK_SIZE \in Nat \ {0} /\ DataStart(total_blocks) \in Nat
    BY CellsMade, OneCell, CountIs, Layout DEF TInv, Shapes, Running, IInv, BitmapSound
  <1>2. Slots[i] \in Nat
    BY SlotMarked
  <1>3. PICK a : a = Slots[i]
    OBVIOUS
  <1> HIDE DEF e, l
  <1>4. IsWrittenOver(image', image, a, e)
    <2>1. a + Len(e) <= Len(image) /\ image' = Assigned(image, a, Len(e), e)
      BY <1>1, <1>2, <1>3 DEF e, l
    <2> QED
      BY <1>1, <1>2, <1>3, <2>1, WrittenOver
  <1>5. Len(image') = l /\ \A k \in 1 .. l : k # a + 1 => image'[k] = image[k]
    <2>1. \A k \in 1 .. l : k # a + 1 => k <= a \/ k > a + 1
      BY <1>1, <1>2, <1>3
    <2> QED
      BY <1>1, <1>4, <2>1 DEF IsWrittenOver, l
  <1>6. Reaches /\ l >= Count * BLOCK_SIZE
    BY <1>5 DEF Reaches, Count, l
  <1>7. PICK b \in 1 .. Len(blocks) : \E r \in 0 .. BLOCK_SIZE - 1 :
           /\ a = Offset(blocks[b]) + r /\ blocks[b] \in Nat /\ Marked(blocks[b])
           /\ Offset(blocks[b]) \in Nat
    BY <1>3, SlotMarked
  <1>8. PICK r \in 0 .. BLOCK_SIZE - 1 : a = Offset(blocks[b]) + r
    BY <1>7
  <1>9. blocks[b] \in Holds(0) /\ 0 \in DOMAIN inodes
    <2>1. b \in DOMAIN blocks
      BY LenProperties DEF TInv, Shapes
    <2> QED
      BY <2>1, MkfsAssumption DEF Holds, IInv, InodesSound
  <1>10. ASSUME NEW n \in DOMAIN inodes \ {0}, NEW c \in Holds(n), NEW k \in 1 .. BLOCK_SIZE
         PROVE  image'[Offset(c) + k] = image[Offset(c) + k]
    <2>1. c \in Nat /\ Marked(c) /\ c # blocks[b]
      BY <1>9 DEF Partition
    <2> DEFINE x == c - DataStart(total_blocks)
               y == blocks[b] - DataStart(total_blocks)
    <2>2. /\ x \in 0 .. Count - 1 /\ Offset(c) = x * BLOCK_SIZE /\ Offset(c) \in Nat
          /\ Offset(c) + BLOCK_SIZE <= Count * BLOCK_SIZE
      BY <2>1, MarkedSpot
    <2>3. y \in 0 .. Count - 1 /\ Offset(blocks[b]) = y * BLOCK_SIZE
      BY <1>7, MarkedSpot
    <2>4. x # y
      BY <1>1, <1>7, <2>1
    <2> HIDE DEF x, y
    <2>5. x \in Nat /\ y \in Nat /\ r + 1 \in 1 .. BLOCK_SIZE
      BY <1>1, <1>8, <2>2, <2>3
    <2>6. Spot(x, k) # Spot(y, r + 1)
      BY <2>4, <2>5, SpotsApart
    <2>7. Offset(c) + k # a + 1
      <3>1. Spot(x, k) = Offset(c) + k /\ Spot(y, r + 1) = Offset(blocks[b]) + (r + 1)
        BY <2>2, <2>3 DEF Spot
      <3>2. Offset(blocks[b]) + (r + 1) = a + 1
        BY <1>7, <1>8
      <3> QED
        BY <2>6, <3>1, <3>2
    <2>8. Offset(c) + k \in 1 .. l
      <3>1. Offset(c) \in Nat /\ Offset(c) + BLOCK_SIZE <= l
        BY <1>1, <1>6, <2>2
      <3> QED
        BY <1>1, <3>1
    <2> QED
      BY <1>5, <2>7, <2>8
  <1> QED
    BY <1>6, <1>10

LEMMA CatalogInsertAccounts == IInv /\ TInv /\ Accounted /\ CatalogInsert => Accounted'
  <1> SUFFICES ASSUME IInv, TInv, Accounted, CatalogInsert, mpc' # "failed", Reaches'
               PROVE  Partition' /\ Counted'
    BY DEF Accounted
  <1>1. mpc = "insert" /\ Running /\ UNCHANGED <<total_blocks, num, direct, indirect>>
    BY DEF CatalogInsert, Running
  <1>2. DOMAIN inodes = 0 .. TOTAL_INODES - 1 /\ 0 \in DOMAIN inodes
    BY MkfsAssumption DEF IInv, InodesSound
  <1>3. ASSUME NEW i \in DOMAIN Slots, Slots[i] < Len(image),
               image' = Assigned(image, Slots[i], 1, <<Entry(num)>>),
               mpc' = "files", UNCHANGED <<bitmap, blocks, inodes>>
        PROVE  Partition' /\ Counted'
    <2>1. Len(image') = Len(image)
      <3>1. /\ <<Entry(num)>> \in Seq(Cells) /\ Len(<<Entry(num)>>) = 1 /\ image \in Seq(Cells)
            /\ Slots[i] \in Nat /\ Len(image) \in Nat
        BY <1>1, CellsMade, OneCell, SlotMarked, LenProperties DEF TInv, Shapes
      <3> DEFINE e == <<Entry(num)>>
      <3>2. /\ e \in Seq(Cells) /\ Slots[i] + Len(e) <= Len(image)
            /\ image' = Assigned(image, Slots[i], Len(e), e)
        BY <1>3, <3>1
      <3> HIDE DEF e
      <3>3. IsWrittenOver(image', image, Slots[i], e)
        BY <3>1, <3>2, WrittenOver
      <3> QED
        BY <3>3 DEF IsWrittenOver
    <2>2. Reaches
      BY <1>3, <2>1 DEF Reaches, Count
    <2>3. Partition /\ Counted
      BY <1>1, <2>2 DEF Accounted
    <2>4. \A n \in DOMAIN inodes \ {0} : \A b \in Holds(n) : \A k \in 1 .. BLOCK_SIZE :
            image'[Offset(b) + k] = image[Offset(b) + k]
      BY <1>1, <1>3, <2>3, EntryWritten
    <2>5. ASSUME NEW n \in DOMAIN inodes PROVE Holds(n)' = Holds(n)
      <3>1. CASE n = 0
        BY <1>3, <3>1 DEF Holds
      <3>2. CASE n # 0
        BY <1>1, <1>3, <2>2, <2>3, <2>4, <3>2, SameFile
      <3> QED
        BY <3>1, <3>2
    <2>6. Partition'
      BY <1>1, <1>3, <2>3, <2>5, SameHolders
    <2>7. Counted'
      BY <1>1, <1>3, <2>3, <2>5 DEF Counted
    <2> QED
      BY <2>6, <2>7
  <1>4. CASE /\ AllocBlock /\ blocks' = Append(blocks, NewBlock)
             /\ image' = Assigned(image, Offset(NewBlock), 1, <<Entry(num)>>)
             /\ inodes' = [inodes EXCEPT ![0] = RootInode(blocks')]
             /\ mpc' = "files" /\ UNCHANGED error
    <2>1. /\ NewBlock \in Nat \ {0} /\ NewBlock = DataStart(total_blocks) + Count /\ Count \in Nat
          /\ bitmap' = bitmap \cup {Count} /\ Count' = Count + 1
      BY <1>1, <1>4, AllocMarks
    <2>2. bitmap = 0 .. Count - 1 /\ BLOCK_SIZE \in Nat \ {0} /\ DataStart(total_blocks) \in Nat
      BY <1>1, CountIs, Layout DEF IInv, BitmapSound
    <2>3. /\ Reaches
          /\ \A b \in Nat : Marked(b) =>
               \A k \in 1 .. BLOCK_SIZE : image'[Offset(b) + k] = image[Offset(b) + k]
      <3>1. <<Entry(num)>> \in Seq(Cells) /\ Len(<<Entry(num)>>) = 1
        BY CellsMade, OneCell DEF TInv, Shapes
      <3>2. 1 \in 1 .. BLOCK_SIZE
        BY <2>2
      <3> DEFINE e == <<Entry(num)>>
      <3>3. e \in Seq(Cells) /\ Len(e) <= 1 /\ image' = Assigned(image, Offset(NewBlock), 1, e)
        BY <1>4, <3>1
      <3> HIDE DEF e
      <3> QED
        BY <1>1, <1>4, <3>2, <3>3, WrittenBehind
    <2>4. Partition /\ Counted
      BY <1>1, <2>3 DEF Accounted
    <2>5. DOMAIN inodes' = DOMAIN inodes /\ \A n \in DOMAIN inodes : n # 0 => inodes'[n] = inodes[n]
      BY <1>2, <1>4
    <2>6. Holds(0)' = Holds(0) \cup {NewBlock}
      <3>1. blocks \in Seq(Nat) /\ Len(blocks) \in Nat
        BY LenProperties DEF TInv, Shapes
      <3>2. /\ DOMAIN blocks = 1 .. Len(blocks) /\ DOMAIN blocks' = 1 .. Len(blocks) + 1
            /\ blocks'[Len(blocks) + 1] = NewBlock
            /\ \A i \in 1 .. Len(blocks) : blocks'[i] = blocks[i]
        BY <1>4, <2>1, <3>1, AppendProperties, LenProperties
      <3>3. 1 .. Len(blocks) + 1 = (1 .. Len(blocks)) \cup {Len(blocks) + 1}
        BY <3>1
      <3>4. {blocks'[i] : i \in DOMAIN blocks'} = {blocks[i] : i \in DOMAIN blocks} \cup {NewBlock}
        BY <3>2, <3>3
      <3> QED
        BY <3>4 DEF Holds
    <2>7. ASSUME NEW n \in DOMAIN inodes, n # 0 PROVE Holds(n)' = Holds(n)
      <3>1. \A b \in Holds(n) : \A k \in 1 .. BLOCK_SIZE :
              image'[Offset(b) + k] = image[Offset(b) + k]
        BY <2>3, <2>4 DEF Partition
      <3> QED
        BY <1>1, <1>4, <2>3, <2>4, <2>5, <2>7, <3>1, SameFile
    <2>8. Partition'
      BY <1>1, <1>2, <1>4, <2>1, <2>2, <2>4, <2>5, <2>6, <2>7, Grown
    <2>9. Counted'
      BY <1>1, <1>4, <2>4, <2>5, <2>7 DEF Counted
    <2> QED
      BY <2>8, <2>9
  <1> QED
    <2>1. PICK garbage \in BOOLEAN :
            LET ends == {i \in DOMAIN Slots : Slots[i] >= Len(image)
                                                \/ IsFree(image[Slots[i] + 1], garbage)}
            IN  \/ /\ ends # {} /\ Slots[Least(ends)] < Len(image)
                   /\ image' = Assigned(image, Slots[Least(ends)], 1, <<Entry(num)>>)
                   /\ mpc' = "files" /\ UNCHANGED <<bitmap, blocks, inodes>>
                \/ /\ AllocBlock /\ blocks' = Append(blocks, NewBlock)
                   /\ image' = Assigned(image, Offset(NewBlock), 1, <<Entry(num)>>)
                   /\ inodes' = [inodes EXCEPT ![0] = RootInode(blocks')]
                   /\ mpc' = "files" /\ UNCHANGED error
      BY DEF CatalogInsert, Raises, VolumeFull
    <2> DEFINE ends == {i \in DOMAIN Slots : Slots[i] >= Len(image)
                                                \/ IsFree(image[Slots[i] + 1], garbage)}
    <2>2. ends # {} => Least(ends) \in DOMAIN Slots
      <3>1. DOMAIN Slots \subseteq Nat
        BY DEF Slots
      <3>2. ends \subseteq Nat /\ ends \subseteq DOMAIN Slots
        BY <3>1
      <3> HIDE DEF ends
      <3> QED
        BY <3>2, LeastElement
    <2> QED
      BY <1>3, <1>4, <2>1, <2>2

(* A step of the formatter that changes nothing of this. *)
LEMMA IdleAccounts ==
  ASSUME Accounted, mpc # "failed",
         UNCHANGED <<total_blocks, image, bitmap, inodes, blocks, num, direct, indirect>>,
         mpc' = mpc \/ (mpc = "files" /\ mpc' = "done")
  PROVE  Accounted'
  <1> SUFFICES ASSUME Reaches' PROVE Partition' /\ Counted'
    BY DEF Accounted
  <1>1. Partition /\ Counted
    BY DEF Accounted, Reaches, Count
  <1>2. \A n \in DOMAIN inodes : Holds(n)' = Holds(n)
    BY DEF Holds, PointedTo, Offset
  <1>3. Partition'
    BY <1>1, <1>2, SameHolders
  <1>4. Counted'
    <2>1. mpc' = "blocks" => Holds(num)' = Holds(num)
      BY DEF Holds, PointedTo, Offset
    <2> QED
      BY <1>1, <1>2, <2>1 DEF Counted
  <1> QED
    BY <1>3, <1>4

LEMMA MkfsAccounted == Spec => [](IInv /\ TInv /\ Accounted)
  <1>1. Accounted /\ UNCHANGED mkfsVars => Accounted'
    <2> SUFFICES ASSUME Accounted, UNCHANGED mkfsVars PROVE Accounted'
      OBVIOUS
    <2>1. CASE mpc = "failed"
      BY <2>1 DEF Accounted, mkfsVars
    <2>2. CASE mpc # "failed"
      BY <2>2, IdleAccounts DEF mkfsVars
    <2> QED
      BY <2>1, <2>2
  <1>2. Accounted /\ WriteSuperblock => Accounted'
    BY IdleAccounts DEF WriteSuperblock
  <1>3. IInv /\ TInv /\ Accounted /\ [Next]_mkfsVars => Accounted'
    BY FormatAccounts, AllocInodeAccounts, AddIndirectAccounts, AddBlockAccounts,
       WriteInodeAccounts, CatalogInsertAccounts, <1>1, <1>2 DEF Next
  <1> QED
    BY <1>3, InitAccounted, MkfsTyped, PTL DEF Spec

(* What the bitmap marks is what the root and the files hold, no block is   *)
(* held twice, and every file has the blocks its inode counts: for volumes, *)
(* files and blocks of any size (owfs_mkfs.py:131-147, 177-250).            *)
THEOREM BlocksHeldOnce == Spec => []BlocksAccounted
  <1>1. IInv /\ TInv /\ Accounted => BlocksAccounted
    <2> SUFFICES ASSUME IInv, TInv, Accounted, mpc \notin {"start", "failed"}, Whole
                 PROVE  BlocksAccounted
      BY DEF BlocksAccounted
    <2> DEFINE s == DataStart(total_blocks)
               d == DataBlocks(total_blocks)
               c == Count
    <2>1. /\ LargeEnough(total_blocks) /\ s \in Nat /\ d \in Nat /\ c \in Nat
          /\ bitmap = 0 .. c - 1 /\ bitmap \subseteq 0 .. d - 1
          /\ BLOCK_SIZE \in Nat /\ Len(image) \in Nat
      BY CountIs, Layout DEF IInv, BitmapSound, Running, TInv, MarksSound
    <2>2. Len(image) >= d * BLOCK_SIZE
      BY DEF Whole
    <2> HIDE DEF s, d, c
    <2>3. c <= d
      <3>1. CASE c = 0
        BY <2>1, <3>1
      <3>2. CASE c > 0
        <4>1. c - 1 \in 0 .. c - 1
          BY <2>1, <3>2
        <4>2. c - 1 \in 0 .. d - 1
          BY <2>1, <4>1
        <4> QED
          BY <2>1, <4>2
      <3> QED
        BY <2>1, <3>1, <3>2
    <2>4. Len(image) >= c * BLOCK_SIZE
      <3>1. c = d \/ c < d
        BY <2>1, <2>3
      <3>2. CASE c < d
        <4>1. c * BLOCK_SIZE \in Nat /\ d * BLOCK_SIZE \in Nat
              /\ c * BLOCK_SIZE + BLOCK_SIZE <= d * BLOCK_SIZE
          BY <2>1, <3>2, BlocksApart
        <4> QED
          BY <2>1, <2>2, <4>1
      <3> QED
        BY <2>2, <3>1, <3>2
    <2>5. Partition /\ Counted
      BY <2>4 DEF Accounted, Reaches, c
    <2>6. {b - s : b \in UNION {Holds(n) : n \in DOMAIN inodes}} = bitmap
      <3>1. ASSUME NEW n \in DOMAIN inodes, NEW b \in Holds(n) PROVE b - s \in bitmap
        BY <2>5 DEF Partition, Marked, s
      <3>2. ASSUME NEW k \in bitmap
            PROVE  \E b \in UNION {Holds(n) : n \in DOMAIN inodes} : b - s = k
        <4>1. PICK n \in DOMAIN inodes : s + k \in Holds(n)
          BY <2>5 DEF Partition, s
        <4>2. (s + k) - s = k
          BY <2>1
        <4> QED
          BY <4>1, <4>2
      <3> QED
        BY <3>1, <3>2
    <2> QED
      BY <2>5, <2>6 DEF BlocksAccounted, Partition, Counted, s
  <1> QED
    BY <1>1, MkfsAccounted, PTL

-----------------------------------------------------------------------------
(* Files are numbered in the order they are added: the n-th has inode n.   *)
(* One that is being added has its inode when its blocks are written, and  *)
(* its entry in the catalog when its inode is.                              *)
InTable   == IF mpc = "blocks" THEN Len(files) - 1 ELSE Len(files)
InCatalog == IF mpc \in {"blocks", "insert"} THEN Len(files) - 1 ELSE Len(files)

InodeRecords ==
  [entry_type : SUBSET {"FILE", "CATALOG", "DELETED"}, crc : BOOLEAN, size_bytes : Nat,
   block_count : Nat, direct_blocks : [1 .. DIRECT_BLOCKS -> Nat], indirect_block : Nat]

Numbered ==
  mpc # "failed" =>
    /\ Len(files) < TOTAL_INODES
    /\ mpc = "start" => files = <<>>
    /\ mpc \in {"blocks", "insert"} => num = Len(files) /\ Len(files) > 0
    /\ Running => FreeInodes = InTable + 1 .. TOTAL_INODES - 1

NInv == inodes \in [0 .. TOTAL_INODES - 1 -> InodeRecords] /\ Numbered

LEMMA RootTyped == ASSUME NEW bs \in Seq(Nat) PROVE RootInode(bs) \in InodeRecords
  <1>1. Len(bs) \in Nat /\ \A k \in 1 .. Len(bs) : bs[k] \in Nat
    OBVIOUS
  <1>2. [k \in 1 .. DIRECT_BLOCKS |-> IF k <= Len(bs) THEN bs[k] ELSE 0]
          \in [1 .. DIRECT_BLOCKS -> Nat]
    BY <1>1, MkfsAssumption
  <1> QED
    BY <1>1, <1>2 DEF RootInode, InodeRecords

LEMMA FileSizeIs ==
  ASSUME TInv, Len(files) > 0
  PROVE  FileSize \in Nat /\ FileSize = files[Len(files)] /\ FileSize \in Sizes
  <1>1. files \in Seq(Sizes) /\ Len(files) \in Nat /\ Sizes \subseteq Nat
    BY MkfsAssumption, LenProperties DEF TInv, Shapes
  <1>2. Len(files) \in 1 .. Len(files)
    BY <1>1
  <1>3. files[Len(files)] \in Sizes
    BY <1>1, <1>2, ElementOfSeq
  <1> QED
    BY <1>1, <1>3 DEF FileSize

LEMMA FileTyped == ASSUME TInv, Len(files) > 0 PROVE FileInode \in InodeRecords
  <1>1. direct \in Seq(Nat) /\ indirect \in Nat /\ FileSize \in Nat
    BY FileSizeIs DEF TInv, Shapes
  <1>2. Len(direct) \in Nat /\ \A k \in 1 .. Len(direct) : direct[k] \in Nat
    BY <1>1
  <1>3. [k \in 1 .. DIRECT_BLOCKS |-> IF k <= Len(direct) THEN direct[k] ELSE 0]
          \in [1 .. DIRECT_BLOCKS -> Nat]
    BY <1>2, MkfsAssumption
  <1> QED
    BY <1>1, <1>2, <1>3 DEF FileInode, InodeRecords

LEMMA InitNInv == Init => NInv
  <1> SUFFICES ASSUME Init PROVE NInv
    OBVIOUS
  <1>1. NoInode \in InodeRecords
    BY DEF NoInode, InodeRecords
  <1>2. inodes \in [0 .. TOTAL_INODES - 1 -> InodeRecords]
    BY <1>1 DEF Init
  <1> QED
    BY <1>2, MkfsAssumption DEF Init, NInv, Numbered, Running

LEMMA FormatNumbers == IInv /\ TInv' /\ NInv /\ Format => NInv'
  <1> SUFFICES ASSUME IInv, TInv', NInv, Format PROVE NInv'
    OBVIOUS
  <1>1. mpc = "start" /\ UNCHANGED <<files, num>>
    BY DEF Format
  <1>2. CASE Raises("small") /\ UNCHANGED inodes
    BY <1>2 DEF NInv, Numbered, Raises, Running
  <1>3. CASE inodes' = [inodes EXCEPT ![0] = RootInode(blocks')] /\ mpc' = "files"
    <2>1. RootInode(blocks') \in InodeRecords
      BY RootTyped DEF TInv, Shapes
    <2>2. inodes' \in [0 .. TOTAL_INODES - 1 -> InodeRecords]
      BY <1>3, <2>1 DEF NInv
    <2>3. \A n \in 0 .. TOTAL_INODES - 1 : inodes[n].entry_type = {}
      BY <1>1 DEF IInv, InodesSound
    <2>4. RootInode(blocks').entry_type # {}
      BY DEF RootInode
    <2>5. TOTAL_INODES \in Nat \ {0}
      BY MkfsAssumption
    <2>6. FreeInodes' = 1 .. TOTAL_INODES - 1
      BY <1>3, <2>3, <2>4, <2>5 DEF FreeInodes, NInv
    <2>7. files' = <<>> /\ Len(files') = 0 /\ InTable' = 0
      BY <1>1, <1>3 DEF NInv, Numbered, InTable
    <2> QED
      BY <1>3, <2>2, <2>5, <2>6, <2>7 DEF NInv, Numbered
  <1> QED
    BY <1>2, <1>3 DEF Format

LEMMA AllocInodeNumbers == TInv /\ NInv /\ (\E n \in Sizes : AllocInode(n)) => NInv'
  <1> SUFFICES ASSUME TInv, NInv, NEW n \in Sizes, AllocInode(n) PROVE NInv'
    OBVIOUS
  <1>1. mpc = "files" /\ files' = Append(files, n) /\ UNCHANGED inodes
    BY DEF AllocInode
  <1>2. CASE Raises("inodes")
    BY <1>1, <1>2 DEF NInv, Numbered, Raises, Running
  <1>3. CASE FreeInodes # {} /\ num' = Least(FreeInodes) /\ mpc' = "blocks"
    <2>1. files \in Seq(Sizes) /\ Len(files) \in Nat /\ TOTAL_INODES \in Nat \ {0}
      BY MkfsAssumption, LenProperties DEF TInv, Shapes
    <2>2. Len(files') = Len(files) + 1
      BY <1>1, <2>1, AppendProperties
    <2>3. FreeInodes = Len(files) + 1 .. TOTAL_INODES - 1
      BY <1>1 DEF NInv, Numbered, Running, InTable
    <2>4. FreeInodes \subseteq Nat
      BY <2>1, <2>3
    <2>5. Least(FreeInodes) \in FreeInodes /\ \A y \in FreeInodes : Least(FreeInodes) <= y
      BY <1>3, <2>4, LeastElement
    <2>6. Len(files) + 1 \in FreeInodes
      BY <2>1, <2>3, <2>5
    <2>7. num' = Len(files) + 1
      BY <1>3, <2>1, <2>3, <2>5, <2>6
    <2>8. FreeInodes' = FreeInodes /\ InTable' = Len(files)
      BY <1>1, <1>3, <2>1, <2>2 DEF FreeInodes, InTable
    <2> QED
      BY <1>1, <1>3, <2>1, <2>2, <2>3, <2>6, <2>7, <2>8 DEF NInv, Numbered
  <1> QED
    BY <1>2, <1>3 DEF AllocInode

LEMMA SameNumbers ==
  ASSUME NInv, UNCHANGED <<files, num, inodes>>, Running' => Running,
         mpc' = mpc \/ mpc' = "failed" \/ (mpc \in {"files", "insert"} /\ mpc' \in {"files", "done"})
  PROVE  NInv'
  <1>1. FreeInodes' = FreeInodes
    BY DEF FreeInodes
  <1> QED
    BY <1>1 DEF NInv, Numbered, InTable, Running

LEMMA WriteInodeNumbers == TInv /\ NInv /\ WriteInode => NInv'
  <1> SUFFICES ASSUME TInv, NInv, WriteInode PROVE NInv'
    OBVIOUS
  <1>1. mpc = "blocks" /\ UNCHANGED <<files, num>>
    BY DEF WriteInode
  <1>2. CASE Raises("pointers") /\ UNCHANGED inodes
    BY <1>1, <1>2, SameNumbers DEF Raises, Running
  <1>3. CASE inodes' = [inodes EXCEPT ![num] = FileInode] /\ mpc' = "insert"
    <2>1. Len(files) \in Nat /\ TOTAL_INODES \in Nat \ {0}
      BY MkfsAssumption, LenProperties DEF TInv, Shapes
    <2>2. /\ num = Len(files) /\ Len(files) > 0 /\ Len(files) < TOTAL_INODES
          /\ FreeInodes = Len(files) .. TOTAL_INODES - 1
      BY <1>1, <2>1 DEF NInv, Numbered, InTable, Running
    <2>3. FileInode \in InodeRecords
      BY <2>2, FileTyped
    <2>4. inodes' \in [0 .. TOTAL_INODES - 1 -> InodeRecords]
      BY <1>3, <2>3 DEF NInv
    <2>5. FileInode.entry_type # {}
      BY DEF FileInode
    <2>6. FreeInodes' = FreeInodes \ {num}
      BY <1>3, <2>1, <2>2, <2>5 DEF FreeInodes, NInv
    <2>7. FreeInodes' = Len(files) + 1 .. TOTAL_INODES - 1
      BY <2>1, <2>2, <2>6
    <2> QED
      BY <1>1, <1>3, <2>2, <2>4, <2>7 DEF NInv, Numbered, InTable
  <1> QED
    BY <1>2, <1>3 DEF WriteInode

LEMMA CatalogInsertNumbers == TInv' /\ NInv /\ CatalogInsert => NInv'
  <1> SUFFICES ASSUME TInv', NInv, CatalogInsert PROVE NInv'
    OBVIOUS
  <1>1. mpc = "insert" /\ UNCHANGED <<files, num>>
    BY DEF CatalogInsert
  <1>2. CASE UNCHANGED inodes /\ (mpc' = "failed" \/ mpc' = "files")
    BY <1>1, <1>2, SameNumbers DEF Running
  <1>3. CASE inodes' = [inodes EXCEPT ![0] = RootInode(blocks')] /\ mpc' = "files"
    <2>1. RootInode(blocks') \in InodeRecords
      BY RootTyped DEF TInv, Shapes
    <2>2. inodes' \in [0 .. TOTAL_INODES - 1 -> InodeRecords]
      BY <1>3, <2>1 DEF NInv
    <2>3. Len(files) \in Nat /\ TOTAL_INODES \in Nat \ {0}
      BY <1>1, MkfsAssumption, LenProperties DEF TInv, Shapes
    <2>4. RootInode(blocks').entry_type # {}
      BY DEF RootInode
    <2>5. FreeInodes = Len(files) + 1 .. TOTAL_INODES - 1 /\ Len(files) < TOTAL_INODES
      BY <1>1 DEF NInv, Numbered, InTable, Running
    <2>6. 0 \notin FreeInodes
      BY <2>3, <2>5
    <2>7. FreeInodes' = FreeInodes
      BY <1>3, <2>3, <2>4, <2>6 DEF FreeInodes, NInv
    <2> QED
      BY <1>1, <1>3, <2>2, <2>5, <2>7 DEF NInv, Numbered, InTable
  <1> QED
    BY <1>2, <1>3 DEF CatalogInsert, Raises, VolumeFull

LEMMA MkfsNumbered == Spec => [](IInv /\ TInv /\ Accounted /\ NInv)
  <1>1. IInv /\ TInv /\ TInv' /\ NInv /\ [Next]_mkfsVars => NInv'
    <2> SUFFICES ASSUME IInv, TInv, TInv', NInv, [Next]_mkfsVars PROVE NInv'
      OBVIOUS
    <2>1. CASE AddIndirect \/ AddBlock \/ WriteSuperblock \/ UNCHANGED mkfsVars
      BY <2>1, SameNumbers DEF AddIndirect, AddBlock, WriteSuperblock, mkfsVars, VolumeFull, Raises,
         Running
    <2> QED
      BY <2>1, FormatNumbers, AllocInodeNumbers, WriteInodeNumbers, CatalogInsertNumbers DEF Next
  <1> QED
    BY <1>1, InitNInv, MkfsAccounted, PTL DEF Spec

-----------------------------------------------------------------------------
(* Arithmetic of block numbers and what is in them. *)
LEMMA LessWhole ==
  ASSUME NEW a \in Int, NEW b \in Int, NEW n \in Nat \ {0}
  PROVE  a * n < b * n <=> a < b
  <1>1. ASSUME b <= a PROVE b * n <= a * n
    <2>1. PICK d \in Nat : a = b + d
      BY <1>1
    <2>2. a * n = b * n + d * n /\ d * n >= 0
      BY <2>1
    <2> QED
      BY <2>2
  <1>2. ASSUME a < b PROVE a * n < b * n
    <2>1. PICK d \in Nat \ {0} : b = a + d
      <3>1. b - a \in Nat \ {0} /\ b = a + (b - a)
        BY <1>2
      <3> QED
        BY <3>1
    <2>2. b * n = a * n + d * n
      BY <2>1
    <2>3. d * n > 0
      OBVIOUS
    <2>4. a * n \in Int /\ d * n \in Int
      OBVIOUS
    <2> QED
      BY <2>2, <2>3, <2>4
  <1>3. a * n \in Int /\ b * n \in Int
    OBVIOUS
  <1> QED
    BY <1>1, <1>2, <1>3

(* Division and remainder of a number put together from both. *)
LEMMA DivModIs ==
  ASSUME NEW n \in Nat \ {0}, NEW q \in Nat, NEW r \in 0 .. n - 1
  PROVE  (q * n + r) \div n = q /\ (q * n + r) % n = r
  <1> DEFINE y == q * n + r
             d == y \div n
             e == y % n
  <1>1. y \in Nat /\ y = q * n + r /\ q * n \in Nat
    OBVIOUS
  <1> HIDE DEF y
  <1>2. d \in Int /\ e \in 0 .. n - 1 /\ y = n * d + e
    BY <1>1, DivMod
  <1> HIDE DEF d, e
  <1>3. n * d = d * n /\ (d + 1) * n = d * n + n /\ (q + 1) * n = q * n + n /\ d * n \in Int
    BY <1>2
  <1>4. q * n < (d + 1) * n /\ d * n < (q + 1) * n
    BY <1>1, <1>2, <1>3
  <1>5. q < d + 1 /\ d < q + 1
    BY <1>2, <1>4, LessWhole
  <1>6. d = q
    BY <1>2, <1>5
  <1>7. e = r
    BY <1>1, <1>2, <1>3, <1>6
  <1> QED
    BY <1>6, <1>7 DEF d, e, y

(* Block numbers times the block size, without their products. *)
LEMMA Products ==
  ASSUME NEW a \in Nat, NEW b \in Nat, NEW n \in Nat, a <= b
  PROVE  a * n \in Nat /\ b * n \in Nat /\ a * n <= b * n /\ (a + 1) * n = a * n + n
  <1>1. a * n \in Nat /\ b * n \in Nat /\ (b - a) * n \in Nat
    <2>1. \A x \in Nat : x * n \in Nat
      OBVIOUS
    <2> QED
      BY <2>1
  <1>2. b * n = a * n + (b - a) * n
    OBVIOUS
  <1>3. (a + 1) * n = a * n + n
    OBVIOUS
  <1> QED
    BY <1>1, <1>2, <1>3

(* A file's blocks: how many, and what the i-th holds. *)
BlocksFor(n) == (n + BLOCK_SIZE - 1) \div BLOCK_SIZE

LEMMA BlocksForIs ==
  ASSUME NEW n \in Nat
  PROVE  /\ BlocksFor(n) \in Nat
         /\ \A i \in Nat : i < BlocksFor(n) => i * BLOCK_SIZE < n
         /\ \A i \in Nat : i + 1 < BlocksFor(n) => (i + 1) * BLOCK_SIZE < n
         /\ n <= BlocksFor(n) * BLOCK_SIZE
  <1> DEFINE s == BLOCK_SIZE
             y == n + s - 1
             q == y \div s
             r == y % s
  <1>1. s \in Nat \ {0} /\ y \in Nat
    BY MkfsAssumption
  <1>2. q \in Int /\ r \in 0 .. s - 1 /\ y = s * q + r
    <2> HIDE DEF s, y
    <2> QED
      BY <1>1, DivMod
  <1>3. BlocksFor(n) = q
    BY DEF BlocksFor
  <1> HIDE DEF s, q, r
  <1>4. q >= 0
    <2>1. CASE q <= -1
      <3>1. s * q <= -s
        BY <1>1, <1>2, <2>1
      <3> QED
        BY <1>1, <1>2, <3>1
    <2> QED
      BY <1>2, <2>1
  <1>5. s * q <= n + s - 1 /\ n <= s * q /\ s * q \in Nat
    <2>1. s * q \in Int
      BY <1>1, <1>2
    <2>2. \A z \in Int : y = z + r => z <= n + s - 1 /\ n <= z
      BY <1>1, <1>2
    <2> QED
      BY <1>1, <1>2, <2>1, <2>2
  <1>6. ASSUME NEW i \in Nat, i < q PROVE i * s < n
    <2>1. (i + 1) * s <= q * s /\ (i + 1) * s = i * s + s /\ i * s \in Nat
      <3>1. i + 1 \in Nat /\ q \in Nat /\ i + 1 <= q
        BY <1>2, <1>4, <1>6
      <3> QED
        BY <1>1, <3>1, Products
    <2>2. q * s = s * q
      BY <1>1, <1>2
    <2>3. \A z \in Nat : i * s + s <= z /\ z <= n + s - 1 => i * s < n
      BY <1>1, <2>1
    <2> QED
      BY <1>5, <2>1, <2>2, <2>3
  <1>7. q * s = s * q
    BY <1>1, <1>2
  <1>8. \A i \in Nat : i + 1 < q => (i + 1) * s < n
    BY <1>6
  <1> QED
    BY <1>2, <1>3, <1>4, <1>5, <1>6, <1>7, <1>8 DEF s

CellAt(b, k) == image[Offset(b) + k]

(* A write at the end of what is written: what it puts there, and what it  *)
(* leaves behind that.                                                      *)
IsWrittenAt(w, img, at, n, cells) ==
  LET m == Len(cells) IN
  /\ Len(w) \in Nat /\ Len(w) >= Len(img) - (n - m)
  /\ \A k \in 1 .. m : w[at + k] = cells[k]
  /\ \A p \in at + m + 1 .. Len(w) : p + (n - m) <= Len(img) /\ w[p] = img[p + (n - m)]
  /\ at + m < Len(w) => Len(w) = Len(img) - (n - m)

LEMMA WrittenAt ==
  ASSUME NEW S, NEW img \in Seq(S), NEW cells \in Seq(S), NEW at \in Nat, NEW n \in Nat,
         at <= Len(img), Len(cells) <= n
  PROVE  IsWrittenAt(Assigned(img, at, n, cells), img, at, n, cells)
  <1> DEFINE w == Assigned(img, at, n, cells)
             l == Len(img)
             m == Len(cells)
             e == End(img, at + n)
  <1>1. l \in Nat /\ m \in Nat /\ w \in Seq(S)
    BY LenProperties, AssignedIs
  <1>2. Len(w) \in Nat
    BY <1>1, LenProperties
  <1>3. End(img, at) = at /\ (at + n <= l => e = at + n) /\ (at + n > l => e = l)
    BY <1>1 DEF End
  <1>4. /\ Len(w) = at + m + (l - e)
        /\ \A k \in 1 .. m : w[at + k] = cells[k]
        /\ \A k \in 1 .. l - e : w[at + m + k] = img[e + k]
    <2>1. IsAssigned(w, img, at, n, cells)
      BY AssignedIs
    <2> HIDE DEF w
    <2> QED
      BY <1>3, <2>1 DEF IsAssigned
  <1> HIDE DEF w, l, m, e
  <1>5. Len(w) >= l - (n - m) /\ (at + m < Len(w) => Len(w) = l - (n - m))
    BY <1>1, <1>3, <1>4
  <1>6. ASSUME NEW p \in at + m + 1 .. Len(w)
        PROVE  p + (n - m) <= l /\ w[p] = img[p + (n - m)]
    <2>1. p \in Nat /\ p - at - m \in 1 .. l - e /\ at + n <= l /\ e = at + n
      BY <1>1, <1>2, <1>3, <1>4
    <2>2. PICK k \in 1 .. l - e : k = p - at - m
      BY <2>1
    <2>3. p = at + m + k /\ e + k = p + (n - m) /\ p + (n - m) <= l
      BY <1>1, <2>1, <2>2
    <2> QED
      BY <1>4, <2>3
  <1>7. \A k \in 1 .. m : w[at + k] = cells[k]
    BY <1>4
  <1>8. IsWrittenAt(w, img, at, n, cells)
    BY <1>2, <1>5, <1>6, <1>7, Zenon DEF IsWrittenAt, l, m
  <1> QED
    BY <1>8 DEF w

(* Behind what is written the image is as it was created, and the backup   *)
(* table has not moved into the volume: every file shortens the image by    *)
(* less than a block, once.                                                 *)
Short == IF mpc = "blocks" /\ Len(direct) < NBlocks THEN Len(files) - 1 ELSE Len(files)
Untouched ==
  /\ tail \in Nat
  /\ \A p \in Nat : Count * BLOCK_SIZE < p /\ p <= Len(image) - tail => image[p] = Zero
  /\ tail # 0 => Len(image) >= BackupAt + tail - Short * (BLOCK_SIZE - 1)

LEMMA RoomBehind ==
  ASSUME TInv, Numbered, mpc # "failed", Untouched, LargeEnough(total_blocks)
  PROVE  /\ tail # 0 => Len(image) - tail >= DataBlocks(total_blocks) * BLOCK_SIZE
         /\ DataBlocks(total_blocks) * BLOCK_SIZE \in Nat
  <1> DEFINE d == DataBlocks(total_blocks)
             s == BLOCK_SIZE
             x == s - 1
             u == d * s
             v == Short * x
             z == TOTAL_INODES * x
  <1>1. d \in Nat /\ s \in Nat \ {0} /\ TOTAL_INODES \in Nat \ {0} /\ GAP \in Nat
    BY Layout, MkfsAssumption
  <1>2. Len(files) \in Nat /\ Len(image) \in Nat /\ (mpc = "blocks" => Len(files) > 0)
    BY LenProperties DEF TInv, Shapes, AddedSound
  <1>3. Short \in Nat /\ Short <= TOTAL_INODES
    BY <1>1, <1>2 DEF Short, Numbered
  <1>4. x \in Nat
    BY <1>1
  <1>5. GAP >= z
    BY MkfsAssumption
  <1>6. tail # 0 => Len(image) >= u + GAP + tail - v
    BY DEF Untouched, BackupAt
  <1>7. u \in Nat
    BY <1>1, Products
  <1>8. v <= z /\ v \in Nat /\ z \in Nat
    <2> HIDE DEF x
    <2> QED
      BY <1>1, <1>3, <1>4, Products
  <1> HIDE DEF u, v, z
  <1>9. tail \in Nat
    BY DEF Untouched
  <1>10. tail # 0 => Len(image) - tail >= u
    BY <1>1, <1>2, <1>5, <1>6, <1>7, <1>8, <1>9
  <1> QED
    BY <1>7, <1>10 DEF u

(* The next block to be allocated is clean. *)
LEMMA CleanBlock ==
  ASSUME TInv, Numbered, mpc # "failed", Untouched, LargeEnough(total_blocks),
         Count \in Nat, Count < DataBlocks(total_blocks),
         NEW k \in 1 .. BLOCK_SIZE, Count * BLOCK_SIZE + k <= Len(image)
  PROVE  image[Count * BLOCK_SIZE + k] = Zero
  <1> DEFINE d == DataBlocks(total_blocks)
             s == BLOCK_SIZE
             c == Count
             u == d * s
             v == c * s
  <1>1. d \in Nat /\ s \in Nat \ {0} /\ Len(image) \in Nat
    BY Layout, MkfsAssumption, LenProperties DEF TInv, Shapes
  <1>2. v \in Nat /\ u \in Nat /\ v + s <= u
    BY <1>1, BlocksApart
  <1>3. (tail # 0 => Len(image) - tail >= u) /\ tail \in Nat
    BY RoomBehind DEF Untouched
  <1>4. v + k \in Nat /\ v < v + k
    BY <1>1, <1>2
  <1>5. v + k <= Len(image) - tail
    <2> HIDE DEF u, v
    <2> QED
      BY <1>1, <1>2, <1>3 DEF v
  <1> QED
    BY <1>4, <1>5 DEF Untouched

(* What a write at the end does to what is behind it. *)
LEMMA UntouchedBehind ==
  ASSUME NEW img \in Seq(Cells), NEW w \in Seq(Cells), NEW at \in Nat, NEW n \in Nat,
         NEW cells \in Seq(Cells), Len(cells) <= n, NEW t \in Nat,
         IsWrittenAt(w, img, at, n, cells),
         \A p \in Nat : at < p /\ p <= Len(img) - t => img[p] = Zero
  PROVE  \A p \in Nat : at + Len(cells) < p /\ p <= Len(w) - t => w[p] = Zero
  <1> DEFINE m == Len(cells)
             l == Len(img)
             x == Len(w)
  <1> SUFFICES ASSUME NEW p \in Nat, at + m < p, p <= x - t PROVE w[p] = Zero
    OBVIOUS
  <1>1. m \in Nat /\ l \in Nat /\ x \in Nat /\ m <= n
    BY LenProperties
  <1>2. /\ \A y \in at + m + 1 .. x : y + (n - m) <= l /\ w[y] = img[y + (n - m)]
        /\ at + m < x => x = l - (n - m)
    BY DEF IsWrittenAt
  <1> HIDE DEF m, l, x
  <1>3. p \in at + m + 1 .. x /\ x = l - (n - m)
    BY <1>1, <1>2
  <1>4. w[p] = img[p + (n - m)] /\ p + (n - m) \in Nat /\ at < p + (n - m)
        /\ p + (n - m) <= l - t
    BY <1>1, <1>2, <1>3
  <1> QED
    BY <1>4 DEF l

-----------------------------------------------------------------------------
(* What the image holds.  Every file that has its inode is stored where    *)
(* the inode says, the one that is being added as far as it has come, the   *)
(* catalog has the entries of the files in order, and the rest is clean.    *)
BlockNo(inode, j) == IF j < DIRECT_BLOCKS THEN inode.direct_blocks[j + 1]
                     ELSE CellAt(inode.indirect_block, j - DIRECT_BLOCKS + 1).of
Holding(b, f, j, n) ==
  \A k \in 1 .. BLOCK_SIZE : j * BLOCK_SIZE + k <= n => CellAt(b, k) = Data(f, j * BLOCK_SIZE + k)

InodeFits(inode, n) ==
  /\ inode.entry_type = {"FILE"} /\ inode.crc /\ inode.size_bytes = n
  /\ inode.block_count = BlocksFor(n) /\ inode.block_count <= DIRECT_BLOCKS + BLOCK_SIZE
StoredIn(inode, f, n) ==
  /\ \A j \in 0 .. inode.block_count - 1 :
       Marked(BlockNo(inode, j)) /\ Holding(BlockNo(inode, j), f, j, n)
  /\ inode.block_count > DIRECT_BLOCKS =>
       /\ inode.indirect_block # 0
       /\ \A k \in 1 .. BLOCK_SIZE : CellAt(inode.indirect_block, k).is = "pointer"
FileStored(f) == InodeFits(inodes[f], files[f]) /\ StoredIn(inodes[f], f, files[f])

BeingStored ==
  mpc = "blocks" =>
    /\ Len(direct) <= NBlocks
    /\ \A i \in 1 .. Len(direct) :
         Holding(direct[i], Len(files), i - 1, FileSize) /\ direct[i] # indirect

CatalogFits(bs, n) ==
  /\ Len(bs) >= 1 /\ \A i, j \in 1 .. Len(bs) : bs[i] = bs[j] => i = j
  /\ n <= Len(bs) * BLOCK_SIZE /\ (Len(bs) > 1 => (Len(bs) - 1) * BLOCK_SIZE < n)
EntryOrZero(n, i) == IF i <= n THEN Entry(i) ELSE Zero
CatalogHolds(bs, n) ==
  \A i \in 1 .. Len(bs) : \A k \in 1 .. BLOCK_SIZE :
    CellAt(bs[i], k) = EntryOrZero(n, (i - 1) * BLOCK_SIZE + k)
CatalogStored ==
  Running => /\ inodes[0] = RootInode(blocks)
             /\ CatalogFits(blocks, InCatalog) /\ CatalogHolds(blocks, InCatalog)

FilesStored == \A f \in 1 .. InTable : FileStored(f)
Contents    == FilesStored /\ BeingStored /\ CatalogStored /\ Untouched
Stored      == mpc # "failed" /\ Reaches => Contents

LEMMA TableIs ==
  ASSUME TInv, NInv, Running
  PROVE  /\ InTable \in Nat /\ InCatalog \in Nat /\ InTable < TOTAL_INODES /\ Len(files) \in Nat
         /\ InCatalog <= InTable /\ InTable <= Len(files)
         /\ DOMAIN inodes = 0 .. TOTAL_INODES - 1 /\ TOTAL_INODES \in Nat \ {0}
         /\ \A f \in 1 .. InTable : /\ f \in DOMAIN inodes \ {0} /\ inodes[f] \in InodeRecords
                                    /\ ~(mpc = "blocks" /\ f = num)
  <1>1. Len(files) \in Nat /\ TOTAL_INODES \in Nat \ {0}
    BY MkfsAssumption, LenProperties DEF TInv, Shapes
  <1>2. /\ Len(files) < TOTAL_INODES /\ mpc # "failed"
        /\ mpc \in {"blocks", "insert"} => num = Len(files) /\ Len(files) > 0
    BY DEF NInv, Numbered, Running
  <1>3. /\ InTable = IF mpc = "blocks" THEN Len(files) - 1 ELSE Len(files)
        /\ InCatalog = IF mpc \in {"blocks", "insert"} THEN Len(files) - 1 ELSE Len(files)
    BY DEF InTable, InCatalog
  <1>4. inodes \in [0 .. TOTAL_INODES - 1 -> InodeRecords]
    BY DEF NInv
  <1>5. DOMAIN inodes = 0 .. TOTAL_INODES - 1
    BY <1>4
  <1>6. /\ InTable \in Nat /\ InCatalog \in Nat /\ InTable < TOTAL_INODES
        /\ InCatalog <= InTable /\ InTable <= Len(files)
        /\ mpc = "blocks" => InTable < num
    BY <1>1, <1>2, <1>3
  <1>7. ASSUME NEW f \in 1 .. InTable
        PROVE  /\ f \in DOMAIN inodes \ {0} /\ inodes[f] \in InodeRecords
               /\ ~(mpc = "blocks" /\ f = num)
    <2>1. f \in 0 .. TOTAL_INODES - 1 /\ f # 0 /\ ~(mpc = "blocks" /\ f = num)
      BY <1>1, <1>2, <1>6
    <2> QED
      BY <1>4, <1>5, <2>1
  <1> QED
    BY <1>1, <1>5, <1>6, <1>7

(* The blocks a stored file is in are those that its inode holds. *)
LEMMA StoredHeld ==
  ASSUME IInv, TInv, NInv, Running, NEW f \in 1 .. InTable, FileStored(f)
  PROVE  /\ \A j \in 0 .. inodes[f].block_count - 1 : BlockNo(inodes[f], j) \in Holds(f)
         /\ inodes[f].block_count > DIRECT_BLOCKS => inodes[f].indirect_block \in Holds(f)
         /\ inodes[f].block_count \in Nat /\ DIRECT_BLOCKS \in Nat \ {0} /\ BLOCK_SIZE \in Nat \ {0}
  <1>1. PICK inode : inode = inodes[f]
    OBVIOUS
  <1>2. /\ f # 0 /\ ~(mpc = "blocks" /\ f = num) /\ inode \in InodeRecords
    BY <1>1, TableIs
  <1>3. /\ inode.block_count \in Nat /\ inode.direct_blocks \in [1 .. DIRECT_BLOCKS -> Nat]
        /\ inode.indirect_block \in Nat /\ DIRECT_BLOCKS \in Nat \ {0} /\ BLOCK_SIZE \in Nat \ {0}
    BY <1>2, MkfsAssumption DEF InodeRecords
  <1>4. Holds(f) = ({inode.direct_blocks[i] : i \in DOMAIN inode.direct_blocks}
                      \cup (IF inode.indirect_block = 0 THEN {}
                            ELSE {inode.indirect_block} \cup PointedTo(inode.indirect_block))) \ {0}
    BY <1>1, <1>2 DEF Holds
  <1>5. inode.block_count <= DIRECT_BLOCKS + BLOCK_SIZE
    BY <1>1 DEF FileStored, InodeFits
  <1>6. inode.block_count > DIRECT_BLOCKS => inode.indirect_block # 0
    BY <1>1 DEF FileStored, StoredIn
  <1>7. ASSUME NEW j \in 0 .. inode.block_count - 1 PROVE BlockNo(inode, j) \in Holds(f)
    <2>1. Marked(BlockNo(inode, j))
      BY <1>1 DEF FileStored, StoredIn
    <2>2. BlockNo(inode, j) # 0
      <3>1. DataStart(total_blocks) \in Nat \ {0} /\ bitmap \subseteq Nat
        <4>1. LargeEnough(total_blocks) /\ bitmap \subseteq 0 .. DataBlocks(total_blocks) - 1
          BY DEF IInv, BitmapSound
        <4> QED
          BY <4>1, Layout
      <3> QED
        BY <2>1, <3>1 DEF Marked
    <2>3. CASE j < DIRECT_BLOCKS
      <3>1. j + 1 \in DOMAIN inode.direct_blocks /\ BlockNo(inode, j) = inode.direct_blocks[j + 1]
        BY <1>3, <2>3 DEF BlockNo
      <3> QED
        BY <1>4, <2>2, <3>1
    <2>4. CASE ~(j < DIRECT_BLOCKS)
      <3>1. j - DIRECT_BLOCKS + 1 \in 1 .. BLOCK_SIZE /\ inode.block_count > DIRECT_BLOCKS
        BY <1>3, <1>5, <2>4
      <3>2. BlockNo(inode, j) \in PointedTo(inode.indirect_block)
        BY <2>2, <2>4, <3>1 DEF BlockNo, CellAt, PointedTo
      <3> QED
        BY <1>4, <1>6, <2>2, <3>1, <3>2
    <2> QED
      BY <2>3, <2>4
  <1>8. inode.block_count > DIRECT_BLOCKS => inode.indirect_block \in Holds(f)
    BY <1>4, <1>6
  <1> QED
    BY <1>1, <1>3, <1>7, <1>8

(* A file stays stored as long as its inode and its blocks are left alone. *)
LEMMA StoredStays ==
  ASSUME IInv, TInv, NInv, Running, NEW f \in 1 .. InTable, FileStored(f),
         UNCHANGED total_blocks, bitmap \subseteq bitmap',
         inodes'[f] = inodes[f], files'[f] = files[f],
         \A b \in Holds(f) : \A k \in 1 .. BLOCK_SIZE :
            image'[Offset(b) + k] = image[Offset(b) + k]
  PROVE  FileStored(f)'
  <1>1. PICK inode, n : inode = inodes[f] /\ n = files[f]
    OBVIOUS
  <1>2. /\ \A j \in 0 .. inode.block_count - 1 : BlockNo(inode, j) \in Holds(f)
        /\ inode.block_count > DIRECT_BLOCKS => inode.indirect_block \in Holds(f)
        /\ inode.block_count \in Nat /\ DIRECT_BLOCKS \in Nat \ {0} /\ BLOCK_SIZE \in Nat \ {0}
    BY <1>1, StoredHeld
  <1>3. InodeFits(inode, n) /\ StoredIn(inode, f, n)
    BY <1>1 DEF FileStored
  <1>4. \A b \in Holds(f) : \A k \in 1 .. BLOCK_SIZE : CellAt(b, k)' = CellAt(b, k)
    BY DEF CellAt, Offset
  <1>5. ASSUME NEW j \in 0 .. inode.block_count - 1
        PROVE  BlockNo(inode, j)' = BlockNo(inode, j)
    <2>1. CASE j < DIRECT_BLOCKS
      BY <2>1 DEF BlockNo
    <2>2. CASE ~(j < DIRECT_BLOCKS)
      <3>1. j - DIRECT_BLOCKS + 1 \in 1 .. BLOCK_SIZE /\ inode.block_count > DIRECT_BLOCKS
        BY <1>2, <1>3, <2>2 DEF InodeFits
      <3>2. CellAt(inode.indirect_block, j - DIRECT_BLOCKS + 1)'
              = CellAt(inode.indirect_block, j - DIRECT_BLOCKS + 1)
        BY <1>2, <1>4, <3>1
      <3> QED
        BY <2>2, <3>2 DEF BlockNo
    <2> QED
      BY <2>1, <2>2
  <1>6. ASSUME NEW j \in 0 .. inode.block_count - 1
        PROVE  Marked(BlockNo(inode, j))' /\ Holding(BlockNo(inode, j), f, j, n)'
    <2>1. PICK b : b = BlockNo(inode, j)
      OBVIOUS
    <2>2. b \in Holds(f) /\ Marked(b) /\ Holding(b, f, j, n)
      BY <1>2, <1>3, <2>1 DEF StoredIn
    <2>3. Marked(b)' /\ Holding(b, f, j, n)'
      BY <1>4, <2>2 DEF Marked, Holding
    <2>4. BlockNo(inode, j)' = b
      BY <1>5, <2>1
    <2> QED
      BY <2>3, <2>4 DEF Marked, Holding, CellAt, Offset
  <1>7. inode.block_count > DIRECT_BLOCKS =>
          /\ inode.indirect_block # 0
          /\ \A k \in 1 .. BLOCK_SIZE : CellAt(inode.indirect_block, k)'.is = "pointer"
    BY <1>2, <1>3, <1>4 DEF StoredIn
  <1>8. StoredIn(inode, f, n)'
    BY <1>6, <1>7 DEF StoredIn
  <1>9. inodes'[f] = inode /\ files'[f] = n
    BY <1>1
  <1> QED
    BY <1>3, <1>8, <1>9 DEF FileStored, StoredIn, InodeFits, Holding, BlockNo, Marked, CellAt, Offset

(* So does the catalog. *)
LEMMA CatalogStays ==
  ASSUME CatalogStored, Running, UNCHANGED <<total_blocks, blocks>>, inodes'[0] = inodes[0],
         InCatalog' = InCatalog,
         \A i \in 1 .. Len(blocks) : \A k \in 1 .. BLOCK_SIZE :
            image'[Offset(blocks[i]) + k] = image[Offset(blocks[i]) + k]
  PROVE  CatalogStored'
  <1>1. \A i \in 1 .. Len(blocks) : \A k \in 1 .. BLOCK_SIZE :
          CellAt(blocks[i], k)' = CellAt(blocks[i], k)
    BY DEF CellAt, Offset
  <1>2. inodes[0] = RootInode(blocks) /\ CatalogFits(blocks, InCatalog)
        /\ CatalogHolds(blocks, InCatalog)
    BY DEF CatalogStored
  <1>3. CatalogFits(blocks, InCatalog)' /\ RootInode(blocks)' = RootInode(blocks)
    BY <1>2 DEF CatalogFits, RootInode
  <1>4. CatalogHolds(blocks, InCatalog)'
    BY <1>1, <1>2 DEF CatalogHolds
  <1> QED
    BY <1>2, <1>3, <1>4 DEF CatalogStored

(* Both stay when what is marked keeps what it holds. *)
LEMMA MarkedStays ==
  ASSUME IInv, TInv, NInv, Running, Partition, FilesStored,
         UNCHANGED total_blocks, bitmap \subseteq bitmap',
         \A b \in Nat : Marked(b) => \A k \in 1 .. BLOCK_SIZE :
            image'[Offset(b) + k] = image[Offset(b) + k]
  PROVE  /\ \A f \in 1 .. InTable :
              inodes'[f] = inodes[f] /\ files'[f] = files[f] => FileStored(f)'
         /\ \A i \in 1 .. Len(blocks) : \A k \in 1 .. BLOCK_SIZE :
              image'[Offset(blocks[i]) + k] = image[Offset(blocks[i]) + k]
  <1>1. ASSUME NEW f \in 1 .. InTable, inodes'[f] = inodes[f], files'[f] = files[f]
        PROVE  FileStored(f)'
    <2>1. f \in DOMAIN inodes
      BY TableIs
    <2>2. \A b \in Holds(f) : b \in Nat /\ Marked(b)
      BY <2>1 DEF Partition
    <2>3. FileStored(f)
      BY DEF FilesStored
    <2> QED
      BY <1>1, <2>2, <2>3, StoredStays
  <1>2. ASSUME NEW i \in 1 .. Len(blocks) PROVE blocks[i] \in Nat /\ Marked(blocks[i])
    <2>1. blocks \in Seq(Nat)
      BY DEF TInv, Shapes
    <2> QED
      BY <2>1, ElementOfSeq DEF TInv, MarksSound
  <1> QED
    BY <1>1, <1>2

LEMMA BackupIs == total_blocks \in Nat => BackupAt \in Int
  <1> SUFFICES ASSUME total_blocks \in Nat PROVE BackupAt \in Int
    OBVIOUS
  <1> DEFINE u == DataBlocks(total_blocks) * BLOCK_SIZE
             y == total_blocks - OVERHEAD + BITS
             m == BITS + 1
  <1>1. y \in Int /\ m \in Nat \ {0} /\ OVERHEAD \in Nat /\ GAP \in Nat
        /\ BLOCK_SIZE \in Nat
    BY MkfsAssumption
  <1>2. DataBlocks(total_blocks) \in Int
    <2> HIDE DEF y, m
    <2>1. y \div m \in Int
      BY <1>1
    <2>2. BitmapBlocks(total_blocks) = y \div m
      BY DEF BitmapBlocks, y, m
    <2> QED
      BY <1>1, <2>1, <2>2 DEF DataBlocks, DataStart
  <1>3. u \in Int
    BY <1>1, <1>2
  <1> HIDE DEF u
  <1> QED
    BY <1>1, <1>3 DEF BackupAt, u

LEMMA InitStored == Init => Stored
  <1> SUFFICES ASSUME Init PROVE Contents
    BY DEF Stored
  <1>1. /\ mpc = "start" /\ bitmap = {} /\ files = <<>> /\ tail \in Nat /\ total_blocks \in Nat
        /\ image = [k \in 1 .. BackupAt |-> Zero] \o [k \in 1 .. tail |-> Behind(k)]
    BY MkfsAssumption DEF Init
  <1>2. Count = 0 /\ BLOCK_SIZE \in Nat \ {0} /\ Count * BLOCK_SIZE = 0
    BY <1>1, FS_EmptySet, MkfsAssumption DEF Count
  <1>3. Untouched
    <2> DEFINE n == BackupAt
    <2>1. n \in Int
      BY <1>1, BackupIs
    <2>2. n = BackupAt
      OBVIOUS
    <2> HIDE DEF n
    <2> DEFINE a == [k \in 1 .. n |-> Zero]
               b == [k \in 1 .. tail |-> Behind(k)]
               w == IF n < 0 THEN 0 ELSE n
    <2>3. a \in Seq(Cells) /\ Len(a) = w /\ b \in Seq(Cells) /\ Len(b) = tail /\ w \in Nat
      <3>1. Zero \in Cells /\ \A k \in 1 .. tail : Behind(k) \in Cells
        BY CellsMade
      <3>2. w \in Nat /\ 1 .. n = 1 .. w
        BY <2>1
      <3>3. a = [k \in 1 .. w |-> Zero]
        BY <3>2
      <3> HIDE DEF w
      <3>4. a \in Seq(Cells) /\ Len(a) = w
        <4>1. \A m \in Nat : /\ [k \in 1 .. m |-> Zero] \in Seq(Cells)
                              /\ Len([k \in 1 .. m |-> Zero]) = m
          BY <3>1
        <4> HIDE DEF a
        <4> QED
          BY <3>2, <3>3, <4>1, Zenon
      <3>5. b \in Seq(Cells) /\ Len(b) = tail
        BY <1>1, <3>1
      <3> QED
        BY <3>2, <3>4, <3>5
    <2>4. image = a \o b
      BY <1>1, <2>2
    <2>5. Len(image) = w + tail
      <3> HIDE DEF a, b, w
      <3> QED
        BY <2>3, <2>4
    <2>6. ASSUME NEW p \in Nat, Count * BLOCK_SIZE < p, p <= Len(image) - tail
          PROVE  image[p] = Zero
      <3> HIDE DEF a, b, w
      <3>0. p <= w + tail - tail /\ 0 < p
        <4>1. Count * BLOCK_SIZE < p /\ p <= Len(image) - tail
          BY <2>6
        <4>2. 0 < p
          <5> DEFINE c == Count * BLOCK_SIZE
          <5>1. c = 0 /\ c < p
            BY <1>2, <4>1
          <5> HIDE DEF c
          <5> QED
            BY <5>1
        <4>3. p <= w + tail - tail
          <5>1. p <= Len(image) - tail /\ tail \in Nat /\ w \in Nat
            BY <1>1, <2>3, <4>1
          <5> QED
            BY <2>5, <5>1
        <4> QED
          BY <4>2, <4>3
      <3>3. p \in 1 .. w
        BY <1>1, <2>3, <3>0
      <3>1. p \in 1 .. w /\ p \in 1 .. n /\ w = n
        BY <2>1, <2>3, <3>3 DEF w
      <3>2. image[p] = a[p]
        BY <2>3, <2>4, <3>1
      <3> QED
        BY <3>1, <3>2 DEF a
    <2>7. Short = 0
      <3>1. Short = Len(files)
        BY <1>1, Zenon DEF Short
      <3> QED
        BY <1>1, <3>1
    <2>8. Len(image) >= BackupAt + tail - Short * (BLOCK_SIZE - 1)
      <3>1. Short * (BLOCK_SIZE - 1) = 0
        BY <1>2, <2>7
      <3>2. w + tail >= n + tail - 0
        BY <1>1, <2>1
      <3> HIDE DEF w
      <3> QED
        BY <2>2, <2>5, <3>1, <3>2, Zenon
    <2> QED
      BY <1>1, <2>6, <2>8 DEF Untouched
  <1>4. FilesStored
    BY <1>1 DEF FilesStored, InTable
  <1>5. BeingStored /\ CatalogStored
    BY <1>1 DEF BeingStored, CatalogStored, Running
  <1> QED
    BY <1>3, <1>4, <1>5 DEF Contents

LEMMA UntouchedStays ==
  ASSUME IInv, TInv, Untouched, UNCHANGED <<total_blocks, tail>>, Len(image') = Len(image),
         \A p \in Nat : Count * BLOCK_SIZE < p /\ p <= Len(image) => image'[p] = image[p],
         Count \in Nat, Count' \in Nat, Count <= Count',
         Short \in Nat, Short' \in Nat, Short <= Short'
  PROVE  Untouched'
  <1> DEFINE c == Count * BLOCK_SIZE
             d == Count' * BLOCK_SIZE
             x == BLOCK_SIZE - 1
             u == Short * x
             v == Short' * x
  <1>1. x \in Nat /\ BLOCK_SIZE \in Nat \ {0}
    BY MkfsAssumption
  <1>2. c \in Nat /\ d \in Nat /\ c <= d
    BY <1>1, Products
  <1>3. u \in Nat /\ v \in Nat /\ u <= v
    <2> HIDE DEF x
    <2> QED
      BY <1>1, Products
  <1>4. BackupAt' = BackupAt /\ tail' = tail /\ tail \in Nat
    BY DEF BackupAt, Untouched
  <1>5. \A p \in Nat : c < p /\ p <= Len(image) - tail => image[p] = Zero
    BY DEF Untouched
  <1>6. tail # 0 => Len(image) >= BackupAt + tail - u
    BY DEF Untouched
  <1>7. \A p \in Nat : d < p /\ p <= Len(image) - tail => image'[p] = Zero
    <2>1. \A p \in Nat : c < p /\ p <= Len(image) => image'[p] = image[p]
      OBVIOUS
    <2> HIDE DEF c, d
    <2>2. Len(image) \in Nat /\ tail \in Nat
      <3>1. image \in Seq(Cells)
        BY DEF TInv, Shapes
      <3> QED
        BY <1>4, <3>1
    <2> QED
      BY <1>2, <1>5, <2>1, <2>2
  <1> HIDE DEF c, d
  <1>8. BackupAt \in Int => (tail # 0 => Len(image) >= BackupAt + tail - v)
    <2> HIDE DEF u, v
    <2> SUFFICES ASSUME BackupAt \in Int, tail # 0 PROVE Len(image) >= BackupAt + tail - v
      OBVIOUS
    <2>1. Len(image) >= BackupAt + tail - u
      BY <1>6
    <2>2. Len(image) \in Nat
      <3>1. image \in Seq(Cells)
        BY DEF TInv, Shapes
      <3> QED
        BY <3>1
    <2> QED
      BY <1>3, <1>4, <2>1, <2>2
  <1>9. BackupAt \in Int
    BY BackupIs DEF IInv
  <1> HIDE DEF u, v
  <1>10. /\ tail' \in Nat
         /\ \A p \in Nat : d < p /\ p <= Len(image') - tail' => image'[p] = Zero
         /\ tail' # 0 => Len(image') >= BackupAt' + tail' - v
    BY <1>4, <1>7, <1>8, <1>9
  <1> QED
    BY <1>10, Zenon DEF Untouched, d, v, x

(* Sizes of the file that is being added. *)
LEMMA AddedSize ==
  TInv /\ Len(files) > 0 =>
    /\ FileSize \in Nat /\ NBlocks = BlocksFor(FileSize) /\ NBlocks \in Nat
    /\ direct \in Seq(Nat) /\ Len(direct) \in Nat
  <1> SUFFICES ASSUME TInv, Len(files) > 0
               PROVE  /\ FileSize \in Nat /\ NBlocks = BlocksFor(FileSize) /\ NBlocks \in Nat
                      /\ direct \in Seq(Nat) /\ Len(direct) \in Nat
    OBVIOUS
  <1>1. FileSize \in Nat
    BY FileSizeIs
  <1>2. NBlocks = BlocksFor(FileSize)
    BY DEF NBlocks, BlocksFor
  <1>3. direct \in Seq(Nat) /\ Len(direct) \in Nat
    BY LenProperties DEF TInv, Shapes
  <1> QED
    BY <1>1, <1>2, <1>3, BlocksForIs

LEMMA ShortIs ==
  TInv /\ NInv /\ mpc # "failed" =>
    /\ Len(files) \in Nat /\ Short \in Nat /\ Short <= Len(files)
    /\ mpc # "blocks" => Short = Len(files)
    /\ mpc = "blocks" => Len(files) > 0 /\ Len(files) - 1 <= Short
  <1> SUFFICES ASSUME TInv, NInv, mpc # "failed"
               PROVE  /\ Len(files) \in Nat /\ Short \in Nat /\ Short <= Len(files)
                      /\ mpc # "blocks" => Short = Len(files)
                      /\ mpc = "blocks" => Len(files) > 0 /\ Len(files) - 1 <= Short
    OBVIOUS
  <1>1. Len(files) \in Nat
    BY LenProperties DEF TInv, Shapes
  <1>2. mpc = "blocks" => Len(files) > 0
    BY DEF TInv, AddedSound
  <1>3. CASE mpc = "blocks" /\ Len(direct) < NBlocks
    <2>1. Short = Len(files) - 1
      BY <1>3 DEF Short
    <2> QED
      BY <1>1, <1>2, <1>3, <2>1
  <1>4. CASE ~(mpc = "blocks" /\ Len(direct) < NBlocks)
    <2>1. Short = Len(files)
      BY <1>4 DEF Short
    <2> QED
      BY <1>1, <1>2, <2>1
  <1> QED
    BY <1>3, <1>4

(* The catalog of a volume is empty at first. *)
LEMMA FormatStores ==
  IInv /\ TInv /\ TInv' /\ NInv /\ NInv' /\ Stored /\ Format => Stored'
  <1> SUFFICES ASSUME IInv, TInv, TInv', NInv, NInv', Stored, Format, mpc' # "failed", Reaches'
               PROVE  Contents'
    BY DEF Stored
  <1>1. /\ mpc = "start" /\ mpc' = "files" /\ LargeEnough(total_blocks) /\ AllocBlock
        /\ blocks' = <<NewBlock>> /\ inodes' = [inodes EXCEPT ![0] = RootInode(blocks')]
        /\ UNCHANGED <<total_blocks, tail, image, files>>
    BY DEF Format, Raises, LargeEnough, IInv
  <1>2. bitmap = {} /\ Count = 0 /\ files = <<>>
    <2>1. bitmap = {} /\ files = <<>>
      BY <1>1 DEF IInv, BitmapSound, NInv, Numbered
    <2> QED
      BY <2>1, FS_EmptySet DEF Count
  <1>3. BLOCK_SIZE \in Nat \ {0} /\ Len(image) \in Nat /\ image \in Seq(Cells)
        /\ TOTAL_INODES \in Nat \ {0}
    BY MkfsAssumption, LenProperties DEF TInv, Shapes
  <1>4. Reaches
    <2>1. Count * BLOCK_SIZE = 0
      BY <1>2, <1>3
    <2> QED
      BY <1>3, <2>1 DEF Reaches
  <1>5. Untouched
    BY <1>1, <1>4 DEF Stored, Contents
  <1>6. /\ NewBlock = DataStart(total_blocks) + Count /\ NewBlock \in Nat \ {0}
        /\ Offset(NewBlock) = Count * BLOCK_SIZE /\ Count' = Count + 1
        /\ Count < DataBlocks(total_blocks)
    <2>1. bitmap = 0 .. Count - 1
      BY <1>2
    <2>2. bitmap \subseteq 0 .. DataBlocks(total_blocks) - 1
      BY <1>2
    <2> QED
      BY <1>1, <2>1, <2>2, NextBlock
  <1>7. FilesStored' /\ BeingStored'
    <2>1. InTable' = 0
      BY <1>1, <1>2 DEF InTable
    <2> QED
      BY <1>1, <2>1 DEF FilesStored, BeingStored
  <1>8. CatalogStored'
    <2>1. InCatalog' = 0
      BY <1>1, <1>2 DEF InCatalog
    <2>2. CatalogFits(blocks', 0)
      <3>1. Len(blocks') = 1 /\ 0 <= 1 * BLOCK_SIZE
        BY <1>1, <1>3
      <3> QED
        BY <3>1 DEF CatalogFits
    <2>3. ASSUME NEW k \in 1 .. BLOCK_SIZE PROVE image'[Offset(NewBlock) + k] = Zero
      <3>1. Count * BLOCK_SIZE = 0 /\ Count' * BLOCK_SIZE = BLOCK_SIZE
        BY <1>2, <1>3, <1>6
      <3>2. Len(image) >= BLOCK_SIZE
        BY <1>1, <3>1 DEF Reaches
      <3>3. Count * BLOCK_SIZE + k <= Len(image)
        BY <1>3, <3>1, <3>2
      <3> QED
        BY <1>1, <1>2, <1>5, <1>6, <3>3, CleanBlock DEF NInv
    <2>4. PICK bs : bs = blocks' /\ bs = <<NewBlock>>
      BY <1>1
    <2>6. CatalogHolds(bs, 0)'
      <3> SUFFICES ASSUME NEW i \in 1 .. Len(bs), NEW k \in 1 .. BLOCK_SIZE
                   PROVE  CellAt(bs[i], k)' = EntryOrZero(0, (i - 1) * BLOCK_SIZE + k)
        BY DEF CatalogHolds
      <3>1. i = 1 /\ bs[i] = NewBlock
        BY <2>4
      <3>2. (i - 1) * BLOCK_SIZE + k = k
        BY <1>3, <3>1
      <3>3. EntryOrZero(0, (i - 1) * BLOCK_SIZE + k) = Zero
        BY <1>3, <3>2 DEF EntryOrZero
      <3>4. PICK c : c = NewBlock
        OBVIOUS
      <3>5. CellAt(c, k)' = image'[Offset(c) + k]
        BY <1>1 DEF CellAt, Offset
      <3> QED
        BY <2>3, <3>1, <3>3, <3>4, <3>5
    <2>5. inodes'[0] = RootInode(blocks')
      <3>1. 0 \in DOMAIN inodes
        BY <1>3 DEF NInv
      <3> QED
        BY <1>1, <3>1
    <2> QED
      BY <2>1, <2>2, <2>4, <2>5, <2>6
         DEF CatalogStored, CatalogHolds, CatalogFits, EntryOrZero, RootInode, CellAt, Offset
  <1>9. Untouched'
    <2>1. Short = Len(files) /\ Short \in Nat
      BY <1>1, ShortIs
    <2>2. Short' = Short
      BY <1>1, <2>1 DEF Short
    <2>3. Count \in Nat /\ Count' \in Nat /\ Count <= Count'
      BY <1>2, <1>6
    <2> QED
      BY <1>1, <1>5, <2>1, <2>2, <2>3, UntouchedStays
  <1> QED
    BY <1>7, <1>8, <1>9 DEF Contents

(* A step that writes nothing to the image keeps what is in it. *)
LEMMA SameImage ==
  ASSUME IInv, TInv, NInv, Running, Accounted, Stored, mpc # "failed", Reaches,
         UNCHANGED <<total_blocks, image, inodes, blocks>>, bitmap \subseteq bitmap',
         InTable' = InTable, InCatalog' = InCatalog,
         \A f \in 1 .. InTable : files'[f] = files[f]
  PROVE  FilesStored' /\ CatalogStored'
  <1>1. Partition /\ FilesStored /\ CatalogStored
    BY DEF Accounted, Stored, Contents
  <1>2. /\ \A f \in 1 .. InTable : inodes'[f] = inodes[f] /\ files'[f] = files[f] => FileStored(f)'
        /\ \A i \in 1 .. Len(blocks) : \A k \in 1 .. BLOCK_SIZE :
             image'[Offset(blocks[i]) + k] = image[Offset(blocks[i]) + k]
    BY <1>1, MarkedStays
  <1>3. FilesStored'
    BY <1>2 DEF FilesStored
  <1> QED
    BY <1>1, <1>2, <1>3, CatalogStays

LEMMA AllocInodeStores ==
  /\ IInv /\ TInv /\ TInv' /\ NInv /\ NInv' /\ Accounted /\ Stored
  /\ (\E n \in Sizes : AllocInode(n))
  => Stored'
  <1> SUFFICES ASSUME IInv, TInv, TInv', NInv, NInv', Accounted, Stored,
                      NEW n \in Sizes, AllocInode(n), mpc' # "failed", Reaches'
               PROVE  Contents'
    BY DEF Stored
  <1>1. /\ mpc = "files" /\ mpc' = "blocks" /\ files' = Append(files, n) /\ direct' = <<>>
        /\ UNCHANGED <<total_blocks, tail, image, bitmap, inodes, blocks>> /\ Running
    BY DEF AllocInode, Raises, Running
  <1>2. Reaches /\ Count' = Count /\ Count \in Nat
    BY <1>1, CountIs DEF Reaches, Count
  <1>3. /\ files \in Seq(Sizes) /\ Len(files) \in Nat /\ Len(files') = Len(files) + 1
        /\ \A f \in 1 .. Len(files) : files'[f] = files[f]
    <2>1. files \in Seq(Sizes)
      BY DEF TInv, Shapes
    <2> QED
      BY <1>1, <2>1, AppendProperties, LenProperties
  <1>4. /\ InTable = Len(files) /\ InCatalog = Len(files)
        /\ InTable' = Len(files) /\ InCatalog' = Len(files)
    BY <1>1, <1>3 DEF InTable, InCatalog
  <1>5. FilesStored' /\ CatalogStored'
    BY <1>1, <1>2, <1>3, <1>4, SameImage
  <1>6. NBlocks' \in Nat /\ Len(direct') = 0
    <2>1. Len(files') > 0
      BY <1>3
    <2>2. (TInv /\ Len(files) > 0 =>
             /\ FileSize \in Nat /\ NBlocks = BlocksFor(FileSize) /\ NBlocks \in Nat
             /\ direct \in Seq(Nat) /\ Len(direct) \in Nat)'
      BY AddedSize, PTL
    <2> QED
      BY <1>1, <2>1, <2>2
  <1>7. BeingStored'
    BY <1>1, <1>6 DEF BeingStored
  <1>8. Untouched'
    <2>1. Short = Len(files) /\ Short \in Nat
      BY <1>1, ShortIs
    <2>2. Len(files') - 1 <= Short' /\ Short' \in Nat
      <3>1. (TInv /\ NInv /\ mpc # "failed" =>
               /\ Len(files) \in Nat /\ Short \in Nat /\ Short <= Len(files)
               /\ mpc # "blocks" => Short = Len(files)
               /\ mpc = "blocks" => Len(files) > 0 /\ Len(files) - 1 <= Short)'
        BY ShortIs, PTL
      <3> QED
        BY <1>1, <3>1
    <2>3. Short <= Short'
      BY <1>3, <2>1, <2>2
    <2>4. Untouched
      BY <1>1, <1>2 DEF Stored, Contents
    <2>5. Count <= Count' /\ Count' \in Nat
      BY <1>2
    <2> QED
      BY <1>1, <1>2, <2>1, <2>2, <2>3, <2>4, <2>5, UntouchedStays
  <1> QED
    BY <1>5, <1>7, <1>8 DEF Contents

LEMMA AddIndirectStores ==
  IInv /\ TInv /\ TInv' /\ NInv /\ NInv' /\ Accounted /\ Stored /\ AddIndirect => Stored'
  <1> SUFFICES ASSUME IInv, TInv, TInv', NInv, NInv', Accounted, Stored, AddIndirect,
                      mpc' # "failed", Reaches'
               PROVE  Contents'
    BY DEF Stored
  <1>1. /\ mpc = "blocks" /\ mpc' = "blocks" /\ AllocBlock /\ Running /\ indirect' = NewBlock
        /\ UNCHANGED <<total_blocks, tail, image, inodes, blocks, files, direct>>
    BY DEF AddIndirect, Raises, VolumeFull, Running
  <1>2. /\ NewBlock = DataStart(total_blocks) + Count /\ Count \in Nat
        /\ bitmap' = bitmap \cup {Count} /\ Count' = Count + 1
    BY <1>1, AllocMarks
  <1>3. bitmap = 0 .. Count - 1 /\ BLOCK_SIZE \in Nat /\ Len(image) \in Nat
        /\ DataStart(total_blocks) \in Nat
    BY <1>1, CountIs, Layout DEF IInv, BitmapSound
  <1>4. Reaches
    <2>1. Len(image) >= (Count + 1) * BLOCK_SIZE
      BY <1>1, <1>2 DEF Reaches
    <2>2. (Count + 1) * BLOCK_SIZE = Count * BLOCK_SIZE + BLOCK_SIZE /\ Count * BLOCK_SIZE \in Nat
      BY <1>2, <1>3
    <2> QED
      BY <1>3, <2>1, <2>2 DEF Reaches
  <1>5. /\ InTable = Len(files) - 1 /\ InCatalog = Len(files) - 1
        /\ InTable' = InTable /\ InCatalog' = InCatalog
    BY <1>1 DEF InTable, InCatalog
  <1>6. FilesStored' /\ CatalogStored'
    <2>1. bitmap \subseteq bitmap'
      BY <1>2
    <2> QED
      BY <1>1, <1>4, <1>5, <2>1, SameImage
  <1>7. BeingStored /\ Untouched
    BY <1>1, <1>4 DEF Stored, Contents
  <1>8. FileSize' = FileSize /\ NBlocks' = NBlocks
    BY <1>1 DEF FileSize, NBlocks
  <1>9. ASSUME NEW i \in 1 .. Len(direct)
        PROVE  Holding(direct[i], Len(files), i - 1, FileSize)' /\ direct[i] # NewBlock
    <2>1. Marked(direct[i]) /\ Holding(direct[i], Len(files), i - 1, FileSize)
      BY <1>1, <1>7 DEF TInv, AddedSound, BeingStored
    <2>2. direct[i] # NewBlock
      BY <1>2, <1>3, <2>1 DEF Marked
    <2> QED
      BY <1>1, <1>8, <2>1, <2>2 DEF Holding, CellAt, Offset
  <1>10. BeingStored'
    BY <1>1, <1>7, <1>8, <1>9 DEF BeingStored
  <1>11. Untouched'
    <2>1. Short' = Short /\ Short \in Nat
      <3>1. Short' = Short
        BY <1>1, <1>8 DEF Short
      <3> QED
        BY <1>1, <3>1, ShortIs
    <2>2. Count <= Count' /\ Count' \in Nat
      BY <1>2
    <2> QED
      BY <1>1, <1>2, <1>7, <2>1, <2>2, UntouchedStays
  <1> QED
    BY <1>6, <1>10, <1>11 DEF Contents

(* A slice that starts inside the file has its bytes, as many as fit. *)
LEMMA SliceHas ==
  ASSUME files \in Seq(Sizes), Len(files) > 0, NEW i \in Nat, i * BLOCK_SIZE < FileSize
  PROVE  /\ Slice(i) \in Seq(Cells) /\ Len(Slice(i)) \in 1 .. BLOCK_SIZE
         /\ \A k \in 1 .. BLOCK_SIZE : i * BLOCK_SIZE + k <= FileSize =>
              k <= Len(Slice(i)) /\ Slice(i)[k] = Data(Len(files), i * BLOCK_SIZE + k)
         /\ (i + 1) * BLOCK_SIZE < FileSize => Len(Slice(i)) = BLOCK_SIZE
  <1> DEFINE at == i * BLOCK_SIZE
             w  == IF FileSize - at < BLOCK_SIZE THEN FileSize - at ELSE BLOCK_SIZE
             f  == Len(files)
  <1>1. BLOCK_SIZE \in Nat \ {0} /\ Sizes \subseteq Nat
    BY MkfsAssumption
  <1>2. f \in Nat /\ FileSize \in Nat
    <2>1. f \in Nat /\ f \in 1 .. Len(files)
      BY LenProperties
    <2>2. files[f] \in Sizes
      BY <2>1, ElementOfSeq
    <2> QED
      BY <1>1, <2>1, <2>2 DEF FileSize
  <1>3. at \in Nat /\ at < FileSize /\ (i + 1) * BLOCK_SIZE = at + BLOCK_SIZE
    BY <1>1
  <1>4. Slice(i) = [k \in 1 .. w |-> Data(f, at + k)]
    BY DEF Slice
  <1> HIDE DEF at, f
  <1>5. w \in 1 .. BLOCK_SIZE /\ \A k \in 1 .. BLOCK_SIZE : at + k <= FileSize => k \in 1 .. w
    BY <1>1, <1>2, <1>3
  <1>6. at + BLOCK_SIZE < FileSize => w = BLOCK_SIZE
    BY <1>1, <1>2, <1>3
  <1> HIDE DEF w
  <1>7. w \in Nat /\ Len(Slice(i)) = w /\ \A k \in 1 .. w : Slice(i)[k] = Data(f, at + k)
    BY <1>1, <1>4, <1>5
  <1>8. Slice(i) \in Seq(Cells)
    BY SliceIs
  <1> QED
    BY <1>3, <1>5, <1>6, <1>7, <1>8 DEF at, f

(* A block of the file holds its bytes, and no other block changes. *)
LEMMA AddBlockStores ==
  IInv /\ TInv /\ TInv' /\ NInv /\ NInv' /\ Accounted /\ Stored /\ AddBlock => Stored'
  <1> SUFFICES ASSUME IInv, TInv, TInv', NInv, NInv', Accounted, Stored, AddBlock,
                      mpc' # "failed", Reaches'
               PROVE  Contents'
    BY DEF Stored
  <1> DEFINE l     == Len(direct)
             cells == Slice(l)
             at    == Offset(NewBlock)
  <1>1. /\ mpc = "blocks" /\ mpc' = "blocks" /\ AllocBlock /\ Running /\ l < NBlocks
        /\ direct' = Append(direct, NewBlock)
        /\ image' = Assigned(image, at, BLOCK_SIZE, cells)
        /\ UNCHANGED <<total_blocks, tail, inodes, blocks, files, indirect>>
    BY DEF AddBlock, Raises, VolumeFull, Running
  <1>2. /\ NewBlock \in Nat \ {0} /\ NewBlock = DataStart(total_blocks) + Count /\ Count \in Nat
        /\ at = Count * BLOCK_SIZE /\ at \in Nat
        /\ bitmap' = bitmap \cup {Count} /\ Count' = Count + 1
    BY <1>1, AllocMarks
  <1>3. bitmap = 0 .. Count - 1 /\ BLOCK_SIZE \in Nat \ {0} /\ Len(image) \in Nat
        /\ DataStart(total_blocks) \in Nat
    BY <1>1, CountIs, Layout DEF IInv, BitmapSound
  <1>4. /\ files \in Seq(Sizes) /\ Len(files) > 0 /\ image \in Seq(Cells) /\ Len(files) \in Nat
        /\ image' \in Seq(Cells)
    BY <1>1, LenProperties DEF TInv, Shapes, AddedSound
  <1>5. /\ FileSize \in Nat /\ NBlocks = BlocksFor(FileSize) /\ NBlocks \in Nat
        /\ direct \in Seq(Nat) /\ l \in Nat
    BY <1>4, AddedSize
  <1>6. /\ l * BLOCK_SIZE < FileSize
        /\ l + 1 < NBlocks => (l + 1) * BLOCK_SIZE < FileSize
    BY <1>1, <1>5, BlocksForIs
  <1>7. /\ cells \in Seq(Cells) /\ Len(cells) \in 1 .. BLOCK_SIZE
        /\ \A k \in 1 .. BLOCK_SIZE : l * BLOCK_SIZE + k <= FileSize =>
             k <= Len(cells) /\ cells[k] = Data(Len(files), l * BLOCK_SIZE + k)
        /\ l + 1 < NBlocks => Len(cells) = BLOCK_SIZE
    BY <1>4, <1>5, <1>6, SliceHas
  <1> HIDE DEF cells
  <1>8. /\ Reaches
        /\ \A b \in Nat : Marked(b) =>
             \A k \in 1 .. BLOCK_SIZE : image'[Offset(b) + k] = image[Offset(b) + k]
    <2>1. BLOCK_SIZE \in 1 .. BLOCK_SIZE /\ Len(cells) <= BLOCK_SIZE
      BY <1>3, <1>7
    <2> QED
      BY <1>1, <1>7, <2>1, WrittenBehind
  <1>9. Partition /\ FilesStored /\ BeingStored /\ CatalogStored /\ Untouched
    BY <1>1, <1>8 DEF Accounted, Stored, Contents
  <1>10. FilesStored' /\ CatalogStored'
    <2>1. InTable' = InTable /\ InCatalog' = InCatalog /\ bitmap \subseteq bitmap'
      BY <1>1, <1>2 DEF InTable, InCatalog
    <2>2. /\ \A f \in 1 .. InTable : inodes'[f] = inodes[f] /\ files'[f] = files[f] => FileStored(f)'
          /\ \A i \in 1 .. Len(blocks) : \A k \in 1 .. BLOCK_SIZE :
               image'[Offset(blocks[i]) + k] = image[Offset(blocks[i]) + k]
      BY <1>1, <1>8, <1>9, <2>1, MarkedStays
    <2>3. FilesStored'
      BY <1>1, <2>1, <2>2 DEF FilesStored
    <2> QED
      BY <1>1, <1>9, <2>1, <2>2, <2>3, CatalogStays
  <1>11. IsWrittenAt(image', image, at, BLOCK_SIZE, cells)
    <2>1. at <= Len(image) /\ Len(cells) <= BLOCK_SIZE /\ BLOCK_SIZE \in Nat
      BY <1>2, <1>3, <1>7, <1>8 DEF Reaches
    <2> QED
      BY <1>1, <1>2, <1>4, <1>7, <2>1, WrittenAt
  <1>12. FileSize' = FileSize /\ NBlocks' = NBlocks
    BY <1>1 DEF FileSize, NBlocks
  <1>13. /\ Len(direct') = l + 1 /\ direct'[l + 1] = NewBlock
         /\ \A i \in 1 .. l : direct'[i] = direct[i]
    BY <1>1, <1>2, <1>5, AppendProperties
  <1>14. PICK c, j : c = NewBlock /\ j = l
    OBVIOUS
  <1>15. BeingStored'
    <2>1. ASSUME NEW i \in 1 .. l
          PROVE  Holding(direct[i], Len(files), i - 1, FileSize)' /\ direct'[i] # indirect
      <3>1. PICK b : b = direct[i]
        OBVIOUS
      <3>2. b \in Nat /\ Marked(b) /\ b # indirect /\ Holding(b, Len(files), i - 1, FileSize)
        BY <1>1, <1>5, <1>9, <3>1, ElementOfSeq DEF TInv, AddedSound, BeingStored
      <3>3. \A k \in 1 .. BLOCK_SIZE : CellAt(b, k)' = CellAt(b, k)
        BY <1>1, <1>8, <3>2 DEF CellAt, Offset
      <3>4. Holding(b, Len(files), i - 1, FileSize)'
        BY <1>1, <1>12, <3>2, <3>3 DEF Holding
      <3>5. direct'[i] = b
        BY <1>13, <3>1
      <3>6. Holding(direct[i], Len(files), i - 1, FileSize)'
        BY <3>4, <3>5, Zenon DEF Holding, CellAt
      <3> QED
        BY <3>2, <3>5, <3>6
    <2>2. Holding(c, Len(files), j, FileSize)'
      <3>1. \A k \in 1 .. Len(cells) : image'[at + k] = cells[k]
        BY <1>11 DEF IsWrittenAt
      <3>2. \A k \in 1 .. BLOCK_SIZE : CellAt(c, k)' = image'[at + k]
        BY <1>1, <1>14 DEF CellAt, Offset
      <3> QED
        BY <1>1, <1>7, <1>12, <1>14, <3>1, <3>2 DEF Holding
    <2>3. NewBlock # indirect
      <3>1. indirect # 0 => Marked(indirect)
        BY DEF TInv, AddedSound
      <3> QED
        BY <1>2, <1>3, <3>1 DEF Marked
    <2>4. l + 1 <= NBlocks
      BY <1>1, <1>5
    <2>5. ASSUME NEW i \in 1 .. l + 1
          PROVE  Holding(direct[i], Len(files), i - 1, FileSize)' /\ direct'[i] # indirect'
      <3>1. CASE i \in 1 .. l
        BY <1>1, <2>1, <3>1
      <3>2. CASE i = l + 1
        <4>1. direct'[i] = c /\ i - 1 = l
          BY <1>5, <1>13, <1>14, <3>2
        <4>3. direct'[i] # indirect'
          BY <1>1, <1>14, <2>3, <4>1
        <4>4. Holding(direct[i], Len(files), i - 1, FileSize)'
          <5>1. direct'[i] = c /\ i - 1 = j
            BY <1>14, <4>1
          <5> HIDE DEF l
          <5> QED
            BY <2>2, <5>1, Zenon DEF Holding, CellAt
        <4> QED
          BY <4>3, <4>4
      <3> QED
        BY <1>5, <3>1, <3>2
    <2> QED
      BY <1>12, <1>13, <2>4, <2>5 DEF BeingStored
  <1>16. Untouched'
    <2> DEFINE m == Len(cells)
               x == BLOCK_SIZE - 1
    <2>1. tail \in Nat /\ x \in Nat /\ m \in 1 .. BLOCK_SIZE /\ Len(image') \in Nat
      BY <1>3, <1>4, <1>7, <1>9 DEF Untouched
    <2>2. \A p \in Nat : at < p /\ p <= Len(image) - tail => image[p] = Zero
      BY <1>2, <1>9 DEF Untouched
    <2>3. \A p \in Nat : at + m < p /\ p <= Len(image') - tail => image'[p] = Zero
      <3>1. m <= BLOCK_SIZE /\ BLOCK_SIZE \in Nat
        BY <1>3, <2>1
      <3> QED
        BY <1>2, <1>4, <1>7, <1>11, <2>1, <2>2, <3>1, UntouchedBehind
    <2>4. Count' * BLOCK_SIZE = at + BLOCK_SIZE
      BY <1>2, <1>3
    <2>5. \A p \in Nat : Count' * BLOCK_SIZE < p /\ p <= Len(image') - tail => image'[p] = Zero
      <3> HIDE DEF at, m
      <3> QED
        BY <1>2, <1>3, <2>1, <2>3, <2>4
    <2>6. Len(image') >= Len(image) - (BLOCK_SIZE - m)
      BY <1>11 DEF IsWrittenAt
    <2>7. /\ Short = Len(files) - 1
          /\ Short' = IF l + 1 < NBlocks THEN Len(files) - 1 ELSE Len(files)
      BY <1>1, <1>12, <1>13 DEF Short
    <2>8. BackupAt' = BackupAt /\ BackupAt \in Int
      BY <1>1, BackupIs DEF BackupAt, IInv
    <2>9. tail # 0 => Len(image) >= BackupAt + tail - Short * x
      BY <1>9 DEF Untouched
    <2> HIDE DEF m
    <2>10. tail # 0 => Len(image') >= BackupAt + tail - Short' * x
      <3>1. Short \in Nat /\ Short * x \in Nat /\ (Short + 1) * x = Short * x + x
        <4>1. Short \in Nat
          BY <1>4, <2>7
        <4> QED
          BY <2>1, <4>1
      <3>2. CASE l + 1 < NBlocks
        <4>1. m = BLOCK_SIZE /\ Short' = Short
          BY <1>7, <2>7, <3>2 DEF m
        <4> HIDE DEF x
        <4>2. Len(image') >= Len(image)
          BY <1>3, <2>1, <2>6, <4>1
        <4>3. \A z \in Nat : Len(image) >= BackupAt + tail - z => Len(image') >= BackupAt + tail - z
          BY <1>3, <2>1, <2>8, <4>2
        <4> QED
          BY <2>9, <3>1, <4>1, <4>3
      <3>3. CASE ~(l + 1 < NBlocks)
        <4>1. Short' = Short + 1
          BY <1>4, <2>7, <3>3
        <4>2. Len(image') >= Len(image) - x
          BY <1>3, <2>1, <2>6
        <4> HIDE DEF x
        <4>3. \A z \in Nat : Len(image) >= BackupAt + tail - z
                               => Len(image') >= BackupAt + tail - (z + x)
          BY <1>3, <2>1, <2>8, <4>2
        <4> QED
          BY <2>9, <3>1, <4>1, <4>3
      <3> QED
        BY <3>2, <3>3
    <2>11. /\ tail' \in Nat
           /\ \A p \in Nat : Count' * BLOCK_SIZE < p /\ p <= Len(image') - tail' => image'[p] = Zero
           /\ tail' # 0 => Len(image') >= BackupAt' + tail' - Short' * x
      BY <1>1, <2>1, <2>5, <2>8, <2>10, Zenon
    <2> QED
      BY <2>11, Zenon DEF Untouched, x
  <1> QED
    BY <1>10, <1>15, <1>16 DEF Contents

(* The inode of the file that was added has its blocks. *)
LEMMA WriteInodeStores ==
  IInv /\ TInv /\ TInv' /\ NInv /\ NInv' /\ Accounted /\ Stored /\ WriteInode => Stored'
  <1> SUFFICES ASSUME IInv, TInv, TInv', NInv, NInv', Accounted, Stored, WriteInode,
                      mpc' # "failed", Reaches'
               PROVE  Contents'
    BY DEF Stored
  <1> DEFINE l == Len(direct)
  <1>1. /\ mpc = "blocks" /\ mpc' = "insert" /\ Running
        /\ l = NBlocks /\ l <= DIRECT_BLOCKS + BLOCK_SIZE
        /\ inodes' = [inodes EXCEPT ![num] = FileInode]
        /\ image' = IF indirect = 0 THEN image
                    ELSE Assigned(image, Offset(indirect), BLOCK_SIZE, Pointers)
        /\ UNCHANGED <<total_blocks, tail, bitmap, blocks, files, num, direct, indirect>>
    BY DEF WriteInode, Raises, Running
  <1>2. Count' = Count /\ Count \in Nat /\ BLOCK_SIZE \in Nat \ {0} /\ Len(image) \in Nat
        /\ Count * BLOCK_SIZE \in Nat
    BY <1>1, CountIs DEF Count
  <1>3. /\ Len(files) > 0 /\ Len(files) \in Nat /\ num = Len(files) /\ image \in Seq(Cells)
        /\ num \in DOMAIN inodes /\ num # 0 /\ indirect \in Nat /\ DIRECT_BLOCKS \in Nat \ {0}
    BY <1>1, AddedInode, LenProperties, MkfsAssumption
       DEF TInv, Shapes, AddedSound, NInv, Numbered
  <1>4. /\ FileSize \in Nat /\ NBlocks = BlocksFor(FileSize) /\ direct \in Seq(Nat) /\ l \in Nat
    BY <1>3, AddedSize
  <1>5. /\ Pointers \in Seq(Cells) /\ Len(Pointers) = BLOCK_SIZE
        /\ \A k \in 1 .. BLOCK_SIZE :
             /\ Pointers[k].is = "pointer"
             /\ DIRECT_BLOCKS + k <= l => Pointers[k].of = direct[DIRECT_BLOCKS + k]
    <2>1. \A k \in 1 .. BLOCK_SIZE : Pointers[k].is = "pointer"
      BY DEF Pointers, Pointer, Cell
    <2> QED
      BY <1>4, <2>1, PointersIs
  <1>6. /\ Reaches
        /\ indirect # 0 => \A k \in 1 .. BLOCK_SIZE : image'[Offset(indirect) + k] = Pointers[k]
        /\ \A b \in Nat : Marked(b) /\ (indirect # 0 => b # indirect) =>
             \A k \in 1 .. BLOCK_SIZE : image'[Offset(b) + k] = image[Offset(b) + k]
    <2>1. CASE indirect = 0
      BY <1>1, <1>2, <2>1 DEF Reaches
    <2>2. CASE indirect # 0
      BY <1>1, <2>2, PointersWritten
    <2> QED
      BY <2>1, <2>2
  <1>7. /\ Len(image') = Len(image)
        /\ \A p \in Nat : Count * BLOCK_SIZE < p /\ p <= Len(image) => image'[p] = image[p]
    <2>1. CASE indirect = 0
      BY <1>1, <2>1
    <2>2. CASE indirect # 0
      <3>1. /\ Offset(indirect) \in Nat
            /\ Offset(indirect) + BLOCK_SIZE <= Count * BLOCK_SIZE
        <4>1. Marked(indirect)
          BY <2>2 DEF TInv, AddedSound
        <4> QED
          BY <1>1, <1>3, <4>1, MarkedSpot
      <3>2. Len(image) >= Count * BLOCK_SIZE
        BY <1>6 DEF Reaches
      <3> DEFINE at == Offset(indirect)
                 c  == Count * BLOCK_SIZE
      <3>3. at \in Nat /\ c \in Nat /\ at + BLOCK_SIZE <= c /\ at + BLOCK_SIZE <= Len(image)
        <4> HIDE DEF at
        <4>1. at \in Nat /\ c \in Nat /\ at + BLOCK_SIZE <= c /\ c <= Len(image)
          BY <1>2, <3>1, <3>2 DEF at
        <4> HIDE DEF c
        <4> QED
          BY <1>2, <4>1
      <3> HIDE DEF at, c
      <3>4. IsWrittenOver(image', image, at, Pointers)
        BY <1>1, <1>3, <1>5, <2>2, <3>3, WrittenOver DEF at
      <3>5. ASSUME NEW p \in Nat, c < p, p <= Len(image) PROVE image'[p] = image[p]
        <4>1. p \in 1 .. Len(image) /\ p > at + Len(Pointers)
          BY <1>2, <1>5, <3>3, <3>5
        <4> QED
          BY <3>4, <4>1 DEF IsWrittenOver
      <3> QED
        BY <3>4, <3>5 DEF IsWrittenOver, c
    <2> QED
      BY <2>1, <2>2
  <1>8. Partition /\ FilesStored /\ BeingStored /\ CatalogStored /\ Untouched
    BY <1>1, <1>6 DEF Accounted, Stored, Contents
  <1>9. /\ InTable = Len(files) - 1 /\ InTable' = Len(files) /\ InCatalog' = InCatalog
    BY <1>1 DEF InTable, InCatalog
  <1>10. ASSUME NEW n \in DOMAIN inodes, n # num
         PROVE  \A b \in Holds(n) : \A k \in 1 .. BLOCK_SIZE :
                  image'[Offset(b) + k] = image[Offset(b) + k]
    <2>1. \A b \in Holds(n) : b \in Nat /\ Marked(b)
      BY <1>8 DEF Partition
    <2>2. indirect # 0 => indirect \in Holds(num)
      BY <1>1, <1>3 DEF Holds
    <2>3. Holds(n) \cap Holds(num) = {}
      BY <1>3, <1>8, <1>10 DEF Partition
    <2> QED
      BY <1>6, <2>1, <2>2, <2>3
  <1>11. ASSUME NEW f \in 1 .. InTable PROVE FileStored(f)'
    <2>1. f \in DOMAIN inodes /\ f # num
      <3>1. f \in DOMAIN inodes
        BY <1>1, TableIs
      <3>2. f # num
        BY <1>3, <1>9
      <3> QED
        BY <3>1, <3>2
    <2>2. inodes'[f] = inodes[f] /\ files'[f] = files[f]
      BY <1>1, <2>1
    <2>3. FileStored(f)
      BY <1>8 DEF FilesStored
    <2> QED
      BY <1>1, <1>10, <2>1, <2>2, <2>3, StoredStays
  <1>12. CatalogStored'
    <2>1. 0 \in DOMAIN inodes /\ 0 # num
      BY <1>1, <1>3, TableIs
    <2>2. \A i \in 1 .. Len(blocks) : blocks[i] \in Holds(0)
      <3>1. DOMAIN blocks = 1 .. Len(blocks)
        BY LenProperties DEF TInv, Shapes
      <3> QED
        BY <3>1 DEF Holds
    <2>3. \A i \in 1 .. Len(blocks) : \A k \in 1 .. BLOCK_SIZE :
            image'[Offset(blocks[i]) + k] = image[Offset(blocks[i]) + k]
      BY <1>10, <2>1, <2>2
    <2>4. inodes'[0] = inodes[0]
      BY <1>1, <2>1
    <2> QED
      BY <1>1, <1>8, <1>9, <2>3, <2>4, CatalogStays
  <1>13. PICK inode, f, n, u :
           inode = FileInode /\ f = num /\ n = FileSize /\ u = direct
    OBVIOUS
  <1>14. /\ inode.entry_type = {"FILE"} /\ inode.crc /\ inode.size_bytes = n
         /\ inode.block_count = l /\ inode.indirect_block = indirect
         /\ \A j \in 1 .. DIRECT_BLOCKS : j <= l => inode.direct_blocks[j] = direct[j]
    BY <1>13 DEF FileInode
  <1>15. InodeFits(inode, n)
    BY <1>1, <1>4, <1>13, <1>14 DEF InodeFits
  <1>16. l > DIRECT_BLOCKS =>
           /\ indirect # 0
           /\ \A k \in 1 .. BLOCK_SIZE : CellAt(inode.indirect_block, k)' = Pointers[k]
    <2>1. l > DIRECT_BLOCKS => indirect # 0
      BY <1>1, <1>3, <1>4 DEF TInv, AddedSound
    <2>2. inode.indirect_block = indirect
      BY <1>14
    <2> QED
      BY <1>1, <1>6, <2>1, <2>2 DEF CellAt, Offset
  <1>17. ASSUME NEW j \in 0 .. l - 1
         PROVE  Marked(BlockNo(inode, j))' /\ Holding(BlockNo(inode, j), f, j, n)'
    <2>1. j \in Nat /\ j + 1 \in 1 .. l
      BY <1>4
    <2>2. PICK b : b = direct[j + 1]
      OBVIOUS
    <2>3. b \in Nat /\ Marked(b) /\ b # indirect /\ Holding(b, f, j, n)
      <3>1. j + 1 - 1 = j
        BY <2>1
      <3>2. Holding(direct[j + 1], Len(files), j + 1 - 1, FileSize) /\ direct[j + 1] # indirect
        BY <1>1, <1>8, <2>1 DEF BeingStored
      <3>3. direct[j + 1] \in Nat /\ Marked(direct[j + 1])
        BY <1>4, <2>1, ElementOfSeq DEF TInv, AddedSound
      <3> QED
        BY <1>3, <1>13, <2>2, <3>1, <3>2, <3>3
    <2>4. \A k \in 1 .. BLOCK_SIZE : CellAt(b, k)' = CellAt(b, k)
      BY <1>1, <1>6, <2>3 DEF CellAt, Offset
    <2>5. Marked(b)' /\ Holding(b, f, j, n)'
      BY <1>1, <2>3, <2>4 DEF Marked, Holding
    <2>6. BlockNo(inode, j)' = b
      <3>1. CASE j < DIRECT_BLOCKS
        <4>1. j + 1 \in 1 .. DIRECT_BLOCKS /\ j + 1 <= l
          BY <1>3, <2>1, <3>1
        <4> QED
          BY <1>14, <2>2, <3>1, <4>1 DEF BlockNo
      <3>2. CASE ~(j < DIRECT_BLOCKS)
        <4> DEFINE k == j - DIRECT_BLOCKS + 1
        <4>1. k \in 1 .. BLOCK_SIZE /\ DIRECT_BLOCKS + k = j + 1 /\ l > DIRECT_BLOCKS
              /\ DIRECT_BLOCKS + k <= l
          <5>1. l <= DIRECT_BLOCKS + BLOCK_SIZE /\ l \in Nat /\ BLOCK_SIZE \in Nat
            BY <1>1, <1>2, <1>4
          <5> HIDE DEF l
          <5> QED
            BY <1>3, <2>1, <3>2, <5>1
        <4>2. CellAt(inode.indirect_block, k)' = Pointers[k]
          BY <1>16, <4>1
        <4>3. Pointers[k].of = direct[j + 1]
          BY <1>5, <4>1
        <4>4. BlockNo(inode, j)' = CellAt(inode.indirect_block, k)'.of
          BY <3>2 DEF BlockNo
        <4> QED
          BY <2>2, <4>2, <4>3, <4>4
      <3> QED
        BY <3>1, <3>2
    <2> QED
      BY <2>5, <2>6 DEF Marked, Holding, CellAt, Offset
  <1>18. StoredIn(inode, f, n)'
    <2>1. inode.block_count = l
      BY <1>14
    <2>2. inode.block_count > DIRECT_BLOCKS =>
            /\ inode.indirect_block # 0
            /\ \A k \in 1 .. BLOCK_SIZE : CellAt(inode.indirect_block, k)'.is = "pointer"
      <3>1. inode.indirect_block = indirect
        BY <1>14
      <3> QED
        BY <1>5, <1>16, <2>1, <3>1
    <2> HIDE DEF l
    <2>3. \A j \in 0 .. inode.block_count - 1 :
            Marked(BlockNo(inode, j))' /\ Holding(BlockNo(inode, j), f, j, n)'
      BY <1>17, <2>1
    <2> QED
      BY <2>2, <2>3 DEF StoredIn
  <1>19. FileStored(f)'
    <2>1. inodes'[f] = inode /\ files'[f] = n
      BY <1>1, <1>3, <1>13 DEF FileSize
    <2> QED
      BY <1>15, <1>18, <2>1
         DEF FileStored, StoredIn, InodeFits, Holding, BlockNo, Marked, CellAt, Offset
  <1>20. FilesStored'
    <2>1. \A g \in 1 .. InTable' : g \in 1 .. InTable \/ g = f
      BY <1>3, <1>9, <1>13
    <2> QED
      BY <1>11, <1>19, <2>1 DEF FilesStored
  <1>21. BeingStored'
    BY <1>1 DEF BeingStored
  <1>22. Untouched'
    <2>1. Short = Len(files) /\ Short' = Len(files)
      BY <1>1, <1>4 DEF Short
    <2>2. Count <= Count' /\ Count' \in Nat /\ Short \in Nat /\ Short <= Short' /\ Short' \in Nat
      BY <1>2, <1>3, <2>1
    <2> QED
      BY <1>1, <1>2, <1>7, <1>8, <2>2, UntouchedStays
  <1> QED
    BY <1>12, <1>20, <1>21, <1>22 DEF Contents

(* The places of the catalog, block after block. *)
LEMMA SlotsAre ==
  ASSUME blocks \in Seq(Nat)
  PROVE  /\ DOMAIN Slots = 1 .. Len(blocks) * BLOCK_SIZE /\ Len(blocks) * BLOCK_SIZE \in Nat
         /\ \A b \in 1 .. Len(blocks), k \in 1 .. BLOCK_SIZE :
              /\ Spot(b - 1, k) \in DOMAIN Slots
              /\ Slots[Spot(b - 1, k)] = Offset(blocks[b]) + (k - 1)
         /\ \A i \in DOMAIN Slots : \E b \in 1 .. Len(blocks), k \in 1 .. BLOCK_SIZE :
              i = Spot(b - 1, k)
  <1> DEFINE l == Len(blocks)
             s == BLOCK_SIZE
  <1>1. l \in Nat /\ s \in Nat \ {0}
    BY MkfsAssumption, LenProperties
  <1>2. DOMAIN Slots = 1 .. l * s /\ \A j \in 1 .. l * s :
          Slots[j] = Offset(blocks[(j - 1) \div s + 1]) + ((j - 1) % s)
    BY DEF Slots
  <1> HIDE DEF l, s
  <1>3. l * s \in Nat
    BY <1>1
  <1>4. ASSUME NEW b \in 1 .. l, NEW k \in 1 .. s
        PROVE  /\ (b - 1) * s + k \in 1 .. l * s
               /\ Slots[(b - 1) * s + k] = Offset(blocks[b]) + (k - 1)
    <2> DEFINE q == b - 1
               r == k - 1
    <2>1. q \in Nat /\ r \in 0 .. s - 1 /\ q + 1 <= l /\ q + 1 = b
      BY <1>1
    <2> HIDE DEF q, r
    <2>2. (q + 1) * s <= l * s /\ (q + 1) * s = q * s + s /\ q * s \in Nat
      BY <1>1, <2>1, Products
    <2>3. (q * s + r) \div s = q /\ (q * s + r) % s = r
      BY <1>1, <2>1, DivModIs
    <2>4. PICK j : j = q * s + k
      OBVIOUS
    <2>5. j \in 1 .. l * s /\ j - 1 = q * s + r
      <3> DEFINE v == q * s
                 w == l * s
      <3>1. v \in Nat /\ w \in Nat /\ v + s <= w /\ j = v + k
        BY <1>3, <2>2, <2>4
      <3> HIDE DEF v, w
      <3>2. j \in 1 .. w /\ j - 1 = v + (k - 1)
        BY <1>1, <3>1
      <3> QED
        BY <3>2 DEF v, w, r
    <2>6. (j - 1) \div s = q /\ (j - 1) % s = r
      BY <2>3, <2>5, Zenon
    <2>7. Slots[j] = Offset(blocks[q + 1]) + r
      BY <1>2, <2>5, <2>6
    <2>8. q * s + k \in 1 .. l * s /\ Slots[q * s + k] = Offset(blocks[b]) + r
      BY <2>1, <2>4, <2>5, <2>7
    <2> QED
      BY <2>8 DEF q, r
  <1>5. ASSUME NEW i \in 1 .. l * s
        PROVE  \E b \in 1 .. l, k \in 1 .. s : i = (b - 1) * s + k
    <2> DEFINE y == i - 1
               q == y \div s
               r == y % s
    <2>1. y \in Nat /\ y < l * s
      BY <1>3
    <2>2. q \in Int /\ r \in 0 .. s - 1 /\ y = s * q + r
      <3> HIDE DEF y
      <3> QED
        BY <1>1, <2>1, DivMod
    <2> HIDE DEF q, r
    <2>3. /\ (q + 1) * s = s * q + s /\ q * s = s * q /\ s * q \in Int /\ 0 * s = 0
      BY <1>1, <2>2
    <2> HIDE DEF y
    <2>4. 0 * s < (q + 1) * s /\ q * s < l * s
      BY <1>1, <1>3, <2>1, <2>2, <2>3
    <2>5. 0 < q + 1 /\ q < l
      BY <1>1, <2>2, <2>4, LessWhole
    <2>6. q + 1 \in 1 .. l /\ r + 1 \in 1 .. s /\ (q + 1) - 1 = q
      BY <1>1, <2>2, <2>5
    <2>7. i = q * s + (r + 1)
      BY <1>1, <2>2, <2>3 DEF y
    <2> QED
      BY <2>6, <2>7
  <1> QED
    BY <1>2, <1>3, <1>4, <1>5 DEF l, s, Spot

(* What the catalog holds is what is in its places. *)
LEMMA SlotCells ==
  ASSUME IInv, TInv, Running, Reaches, NEW n, CatalogHolds(blocks, n), NEW i \in DOMAIN Slots
  PROVE  /\ Slots[i] \in Nat /\ Slots[i] + 1 <= Count * BLOCK_SIZE /\ Slots[i] < Len(image)
         /\ image[Slots[i] + 1] = EntryOrZero(n, i)
  <1>1. blocks \in Seq(Nat)
    BY DEF TInv, Shapes
  <1>2. PICK b \in 1 .. Len(blocks), k \in 1 .. BLOCK_SIZE :
          i = Spot(b - 1, k) /\ Slots[i] = Offset(blocks[b]) + (k - 1)
    BY <1>1, SlotsAre
  <1>3. blocks[b] \in Nat /\ Marked(blocks[b])
    BY <1>1, ElementOfSeq DEF TInv, MarksSound
  <1>4. /\ Offset(blocks[b]) \in Nat /\ Offset(blocks[b]) + BLOCK_SIZE <= Count * BLOCK_SIZE
        /\ Count * BLOCK_SIZE \in Nat
    BY <1>3, MarkedSpot
  <1>5. Len(image) >= Count * BLOCK_SIZE /\ Len(image) \in Nat /\ BLOCK_SIZE \in Nat
    BY CountIs DEF Reaches, Running
  <1>6. Slots[i] \in Nat /\ Slots[i] + 1 <= Count * BLOCK_SIZE /\ Slots[i] < Len(image)
        /\ Slots[i] + 1 = Offset(blocks[b]) + k
    <2> DEFINE u == Offset(blocks[b])
               c == Count * BLOCK_SIZE
    <2>1. u \in Nat /\ u + BLOCK_SIZE <= c /\ c \in Nat /\ Len(image) >= c /\ Slots[i] = u + (k - 1)
      BY <1>2, <1>4, <1>5
    <2> HIDE DEF u, c
    <2>2. /\ Slots[i] \in Nat /\ Slots[i] + 1 <= c /\ Slots[i] < Len(image)
          /\ Slots[i] + 1 = u + k
      BY <1>5, <2>1
    <2> QED
      BY <2>2 DEF u, c
  <1>7. CellAt(blocks[b], k) = EntryOrZero(n, i)
    BY <1>2 DEF CatalogHolds, Spot
  <1> QED
    BY <1>6, <1>7 DEF CellAt

(* So the place an entry is put in is the one behind the last entry. *)
LEMMA EndsAre ==
  ASSUME IInv, TInv, Running, Reaches, NEW n \in Nat, CatalogHolds(blocks, n), NEW garbage
  PROVE  {i \in DOMAIN Slots : Slots[i] >= Len(image) \/ IsFree(image[Slots[i] + 1], garbage)}
           = {i \in DOMAIN Slots : i > n}
  <1>1. ASSUME NEW i \in DOMAIN Slots
        PROVE  (Slots[i] >= Len(image) \/ IsFree(image[Slots[i] + 1], garbage)) <=> i > n
    <2>1. DOMAIN Slots \subseteq Nat /\ Len(image) \in Nat
      BY LenProperties DEF TInv, Shapes, Slots
    <2>2. ~(Slots[i] >= Len(image))
      <3>1. Slots[i] \in Nat /\ Slots[i] < Len(image)
        BY SlotCells
      <3> QED
        BY <2>1, <3>1
    <2>3. image[Slots[i] + 1] = EntryOrZero(n, i)
      BY SlotCells
    <2>4. \A m : ~IsFree(Entry(m), garbage)
      BY DEF IsFree, Entry, Cell
    <2>5. IsFree(Zero, garbage)
      BY DEF IsFree, Zero, Cell
    <2>6. CASE i <= n
      <3>1. image[Slots[i] + 1] = Entry(i)
        BY <2>3, <2>6 DEF EntryOrZero
      <3> QED
        BY <2>1, <2>2, <2>4, <2>6, <3>1
    <2>7. CASE ~(i <= n)
      <3>1. image[Slots[i] + 1] = Zero
        BY <2>3, <2>7 DEF EntryOrZero
      <3> QED
        BY <2>1, <2>5, <2>7, <3>1
    <2> QED
      BY <2>6, <2>7
  <1> QED
    BY <1>1

(* An entry in that place. *)
LEMMA EntryStored ==
  ASSUME IInv, TInv, Running, UNCHANGED <<total_blocks, bitmap, blocks>>, Reaches',
         NEW n \in Nat, CatalogHolds(blocks, n), n + 1 \in DOMAIN Slots,
         \A i, j \in 1 .. Len(blocks) : blocks[i] = blocks[j] => i = j,
         num = n + 1, Slots[n + 1] < Len(image),
         image' = Assigned(image, Slots[n + 1], 1, <<Entry(num)>>)
  PROVE  /\ CatalogHolds(blocks, n + 1)'
         /\ Reaches /\ Len(image') = Len(image)
         /\ \A p \in Nat : Count * BLOCK_SIZE < p /\ p <= Len(image) => image'[p] = image[p]
  <1> DEFINE e == <<Entry(num)>>
             l == Len(image)
             c == Count * BLOCK_SIZE
  <1>1. PICK a : a = Slots[n + 1]
    OBVIOUS
  <1>2. /\ e \in Seq(Cells) /\ Len(e) = 1 /\ e[1] = Entry(n + 1)
        /\ image \in Seq(Cells) /\ l \in Nat /\ blocks \in Seq(Nat)
        /\ c \in Nat /\ BLOCK_SIZE \in Nat \ {0} /\ DataStart(total_blocks) \in Nat
    BY CellsMade, OneCell, CountIs, Layout DEF TInv, Shapes, Running, IInv, BitmapSound
  <1>3. a \in Nat /\ a < l /\ image' = Assigned(image, a, Len(e), e)
    BY <1>1, <1>2, SlotMarked
  <1> HIDE DEF e, l, c
  <1>4. IsWrittenOver(image', image, a, e)
    <2>1. a + Len(e) <= Len(image)
      BY <1>2, <1>3 DEF l
    <2>2. IsWrittenOver(Assigned(image, a, Len(e), e), image, a, e)
      BY <1>2, <1>3, <2>1, WrittenOver
    <2> QED
      BY <1>3, <2>2
  <1>5. /\ Len(image') = l /\ image'[a + 1] = Entry(n + 1)
        /\ \A k \in 1 .. l : k # a + 1 => image'[k] = image[k]
    <2>1. \A k \in 1 .. l : k # a + 1 => k <= a \/ k > a + 1
      BY <1>2, <1>3
    <2>2. Len(image') = l /\ \A k \in 1 .. l : k <= a \/ k > a + 1 => image'[k] = image[k]
      BY <1>2, <1>4 DEF IsWrittenOver, l
    <2>3. image'[a + 1] = e[1]
      BY <1>2, <1>4 DEF IsWrittenOver
    <2> QED
      BY <1>2, <2>1, <2>2, <2>3
  <1>6. Reaches
    BY <1>5 DEF Reaches, Count, l
  <1>7. a + 1 <= c
    BY <1>1, <1>6, SlotCells DEF c
  <1>8. ASSUME NEW p \in Nat, c < p, p <= l PROVE image'[p] = image[p]
    <2>1. p \in 1 .. l /\ p # a + 1
      <3> QED
        BY <1>2, <1>3, <1>7, <1>8
    <2> QED
      BY <1>5, <2>1
  <1>9. PICK d \in 1 .. Len(blocks), x \in 1 .. BLOCK_SIZE :
          n + 1 = Spot(d - 1, x) /\ a = Offset(blocks[d]) + (x - 1)
    <2>1. PICK d \in 1 .. Len(blocks), x \in 1 .. BLOCK_SIZE : n + 1 = Spot(d - 1, x)
      BY <1>2, SlotsAre
    <2>2. Slots[Spot(d - 1, x)] = Offset(blocks[d]) + (x - 1)
      BY <1>2, SlotsAre
    <2> QED
      BY <1>1, <2>1, <2>2
  <1>10. ASSUME NEW b \in 1 .. Len(blocks), NEW k \in 1 .. BLOCK_SIZE
        PROVE  CellAt(blocks[b], k)' = EntryOrZero(n + 1, (b - 1) * BLOCK_SIZE + k)
    <2> DEFINE i == Spot(b - 1, k)
    <2>1. i \in DOMAIN Slots /\ Slots[i] = Offset(blocks[b]) + (k - 1) /\ i \in Nat
      <3>1. DOMAIN Slots \subseteq Nat
        BY DEF Slots
      <3> QED
        BY <1>2, <3>1, SlotsAre
    <2>2. Slots[i] \in Nat /\ Slots[i] < l /\ image[Slots[i] + 1] = EntryOrZero(n, i)
      BY <1>6, <2>1, SlotCells DEF l
    <2>3. blocks[b] \in Nat /\ Marked(blocks[b]) /\ blocks[d] \in Nat /\ Marked(blocks[d])
      BY <1>2, ElementOfSeq DEF TInv, MarksSound
    <2>4. /\ Offset(blocks[b]) = (blocks[b] - DataStart(total_blocks)) * BLOCK_SIZE
          /\ blocks[b] - DataStart(total_blocks) \in 0 .. Count - 1
          /\ Offset(blocks[d]) = (blocks[d] - DataStart(total_blocks)) * BLOCK_SIZE
          /\ blocks[d] - DataStart(total_blocks) \in 0 .. Count - 1
          /\ Offset(blocks[b]) \in Nat /\ Offset(blocks[d]) \in Nat /\ Count \in Nat
      BY <2>3, MarkedSpot
    <2>5. i # n + 1 => Slots[i] # a
      <3> SUFFICES ASSUME Slots[i] = a PROVE i = n + 1
        OBVIOUS
      <3> DEFINE y == blocks[b] - DataStart(total_blocks)
                 z == blocks[d] - DataStart(total_blocks)
                 u == Offset(blocks[b])
                 v == Offset(blocks[d])
      <3>0. u + (k - 1) = v + (x - 1) /\ u \in Nat /\ v \in Nat
        BY <1>9, <2>1, <2>4
      <3> HIDE DEF u, v
      <3>1. u + k = v + x /\ (u = v => k = x)
        BY <1>2, <3>0
      <3>2. y \in Nat /\ z \in Nat /\ Spot(y, k) = Spot(z, x)
        <4>1. u = y * BLOCK_SIZE /\ v = z * BLOCK_SIZE /\ y \in Nat /\ z \in Nat
          BY <2>4 DEF u, v
        <4> QED
          BY <3>1, <4>1, Zenon DEF Spot
      <3>3. y = z => blocks[b] = blocks[d]
        BY <1>2, <2>3
      <3> HIDE DEF y, z
      <3>4. y = z
        BY <3>2, SpotsApart
      <3>5. b = d
        BY <3>3, <3>4
      <3>6. k = x
        BY <3>1, <3>5 DEF u, v
      <3> QED
        BY <1>9, <3>5, <3>6
    <2>6. CellAt(blocks[b], k)' = image'[Slots[i] + 1]
      <3>1. Slots[i] + 1 = Offset(blocks[b]) + k
        BY <2>1, <2>4
      <3> QED
        BY <3>1 DEF CellAt, Offset
    <2>7. image'[Slots[i] + 1] = EntryOrZero(n + 1, i)
      <3> HIDE DEF i
      <3>1. CASE i = n + 1
        <4>1. image'[Slots[i] + 1] = Entry(i) /\ i <= n + 1
          BY <1>1, <1>5, <2>1, <3>1
        <4> QED
          BY <4>1 DEF EntryOrZero
      <3>2. CASE i # n + 1
        <4>1. Slots[i] + 1 \in 1 .. l /\ Slots[i] + 1 # a + 1
          <5>1. Slots[i] # a /\ Slots[i] \in Nat /\ Slots[i] < l
            BY <2>2, <2>5, <3>2
          <5>2. \A w \in Nat : w < l /\ w # a => w + 1 \in 1 .. l /\ w + 1 # a + 1
            BY <1>2, <1>3
          <5> QED
            BY <5>1, <5>2
        <4>2. image'[Slots[i] + 1] = EntryOrZero(n, i)
          BY <1>5, <2>2, <4>1
        <4>3. i <= n <=> i <= n + 1
          BY <2>1, <3>2
        <4> QED
          BY <4>2, <4>3 DEF EntryOrZero
      <3> QED
        BY <3>1, <3>2
    <2> QED
      BY <2>6, <2>7 DEF Spot
  <1>11. CatalogHolds(blocks, n + 1)'
    BY <1>10 DEF CatalogHolds
  <1> QED
    BY <1>5, <1>6, <1>8, <1>11 DEF c, l

(* An entry in the block that the catalog is extended by. *)
LEMMA EntryAppended ==
  ASSUME IInv, TInv, NInv, Running, Untouched, mpc = "insert", AllocBlock,
         UNCHANGED <<total_blocks, tail, files>>, mpc' = "files", TInv', NInv', Reaches',
         blocks' = Append(blocks, NewBlock),
         image' = Assigned(image, Offset(NewBlock), 1, <<Entry(num)>>),
         NEW n \in Nat, n = Len(blocks) * BLOCK_SIZE, num = n + 1,
         CatalogFits(blocks, n), CatalogHolds(blocks, n)
  PROVE  Reaches /\ CatalogFits(blocks, n + 1)' /\ CatalogHolds(blocks, n + 1)' /\ Untouched'
  <1> DEFINE e  == <<Entry(num)>>
             at == Offset(NewBlock)
             l  == Len(blocks)
  <1>1. /\ e \in Seq(Cells) /\ Len(e) = 1 /\ e[1] = Entry(n + 1)
        /\ image \in Seq(Cells) /\ image' \in Seq(Cells) /\ Len(image) \in Nat
        /\ Len(image') \in Nat
        /\ blocks \in Seq(Nat) /\ l \in Nat
        /\ bitmap = 0 .. Count - 1 /\ BLOCK_SIZE \in Nat \ {0} /\ DataStart(total_blocks) \in Nat
    <2>1. e \in Seq(Cells) /\ Len(e) = 1 /\ e[1] = Entry(n + 1)
      BY CellsMade, OneCell
    <2>2. image \in Seq(Cells) /\ blocks \in Seq(Nat) /\ image' \in Seq(Cells)
      BY DEF TInv, Shapes
    <2>3. bitmap = 0 .. Count - 1 /\ BLOCK_SIZE \in Nat \ {0} /\ DataStart(total_blocks) \in Nat
      BY CountIs, Layout DEF Running, IInv, BitmapSound
    <2> QED
      BY <2>1, <2>2, <2>3, LenProperties
  <1>2. /\ NewBlock \in Nat \ {0} /\ NewBlock = DataStart(total_blocks) + Count /\ Count \in Nat
        /\ at = Count * BLOCK_SIZE /\ at \in Nat
        /\ bitmap' = bitmap \cup {Count} /\ Count' = Count + 1
    BY AllocMarks
  <1>3. Count < DataBlocks(total_blocks) /\ LargeEnough(total_blocks)
    <2>1. LargeEnough(total_blocks) /\ bitmap \subseteq 0 .. DataBlocks(total_blocks) - 1
      BY DEF IInv, BitmapSound
    <2> QED
      BY <1>1, <2>1, NextBlock
  <1> HIDE DEF e
  <1>4. /\ Reaches
        /\ \A b \in Nat : Marked(b) =>
             \A k \in 1 .. BLOCK_SIZE : image'[Offset(b) + k] = image[Offset(b) + k]
    <2>1. 1 \in 1 .. BLOCK_SIZE /\ Len(e) <= 1
      BY <1>1
    <2>2. image' = Assigned(image, Offset(NewBlock), 1, e)
      BY DEF e
    <2> QED
      BY <1>1, <2>1, <2>2, WrittenBehind
  <1>5. IsWrittenAt(image', image, at, 1, e)
    <2>1. at <= Len(image) /\ Len(e) <= 1
      BY <1>1, <1>2, <1>4 DEF Reaches
    <2>2. image' = Assigned(image, at, 1, e)
      BY DEF e
    <2> HIDE DEF at
    <2> QED
      BY <1>1, <1>2, <2>1, <2>2, WrittenAt
  <1>6. /\ image'[at + 1] = Entry(n + 1) /\ Len(image') >= Len(image)
        /\ \A p \in at + 1 + 1 .. Len(image') : p <= Len(image) /\ image'[p] = image[p]
    <2> HIDE DEF at
    <2>1. /\ Len(image') >= Len(image) - (1 - 1)
          /\ \A k \in 1 .. 1 : image'[at + k] = e[k]
          /\ \A p \in at + 1 + 1 .. Len(image') :
               p + (1 - 1) <= Len(image) /\ image'[p] = image[p + (1 - 1)]
      BY <1>1, <1>5 DEF IsWrittenAt
    <2>2. \A p \in at + 1 + 1 .. Len(image') : p + (1 - 1) = p
      BY <1>1, <1>2
    <2>3. image'[at + 1] = e[1]
      BY <2>1
    <2>4. Len(image) - (1 - 1) = Len(image)
      BY <1>1
    <2> QED
      BY <1>1, <2>1, <2>2, <2>3, <2>4
  <1>7. ASSUME NEW k \in 2 .. BLOCK_SIZE PROVE image'[at + k] = Zero
    <2>1. Len(image') >= at + BLOCK_SIZE
      <3>1. Len(image') >= (Count + 1) * BLOCK_SIZE
        BY <1>2 DEF Reaches
      <3>2. (Count + 1) * BLOCK_SIZE = Count * BLOCK_SIZE + BLOCK_SIZE
        BY <1>1, <1>2
      <3> QED
        BY <1>2, <3>1, <3>2
    <2>2. at + k \in at + 1 + 1 .. Len(image')
      <3> HIDE DEF at
      <3> QED
        BY <1>1, <1>2, <2>1
    <2>3. image'[at + k] = image[at + k] /\ at + k <= Len(image)
      BY <1>6, <2>2
    <2>4. k \in 1 .. BLOCK_SIZE /\ Count * BLOCK_SIZE + k <= Len(image)
      BY <1>1, <1>2, <2>3
    <2>5. image[Count * BLOCK_SIZE + k] = Zero
      BY <1>2, <1>3, <2>4, CleanBlock DEF NInv
    <2> QED
      BY <1>2, <2>3, <2>5, Zenon
  <1>8. /\ Len(blocks') = l + 1 /\ blocks'[l + 1] = NewBlock
        /\ \A i \in 1 .. l : blocks'[i] = blocks[i]
    BY <1>1, <1>2, AppendProperties
  <1>9. \A i \in 1 .. l : blocks[i] \in Nat /\ Marked(blocks[i]) /\ blocks[i] # NewBlock
    <2>1. ASSUME NEW i \in 1 .. l PROVE blocks[i] \in Nat /\ Marked(blocks[i]) /\ blocks[i] # NewBlock
      <3>1. blocks[i] \in Nat /\ Marked(blocks[i])
        BY <1>1, ElementOfSeq DEF TInv, MarksSound
      <3>2. ~Marked(NewBlock)
        <4>1. bitmap = 0 .. Count - 1 /\ Count \in Nat /\ DataStart(total_blocks) \in Nat
              /\ NewBlock = DataStart(total_blocks) + Count
          BY <1>1, <1>2
        <4> QED
          BY <4>1 DEF Marked
      <3> QED
        BY <3>1, <3>2
    <2> QED
      BY <2>1
  <1>10. (l + 1) * BLOCK_SIZE = n + BLOCK_SIZE /\ l + 1 - 1 = l
    BY <1>1
  <1>11. CatalogFits(blocks, n + 1)'
    <2>1. \A i, j \in 1 .. l + 1 : blocks'[i] = blocks'[j] => i = j
      <3> SUFFICES ASSUME NEW i \in 1 .. l + 1, NEW j \in 1 .. l + 1, blocks'[i] = blocks'[j]
                   PROVE  i = j
        OBVIOUS
      <3> HIDE DEF l
      <3>1. i \in 1 .. l \/ i = l + 1
        BY <1>1
      <3>2. j \in 1 .. l \/ j = l + 1
        BY <1>1
      <3>3. \A u, v \in 1 .. l : blocks[u] = blocks[v] => u = v
        BY DEF CatalogFits, l
      <3> QED
        BY <1>8, <1>9, <3>1, <3>2, <3>3
    <2>2. l >= 1
      BY DEF CatalogFits
    <2>3. n + 1 <= n + BLOCK_SIZE /\ n < n + 1
      BY <1>1
    <2>4. /\ Len(blocks') >= 1 /\ n + 1 <= Len(blocks') * BLOCK_SIZE
          /\ (Len(blocks') - 1) * BLOCK_SIZE < n + 1
      <3>1. (l + 1 - 1) * BLOCK_SIZE = n /\ l + 1 >= 1
        BY <1>1, <1>10, <2>2
      <3> QED
        BY <1>8, <1>10, <2>3, <3>1
    <2> QED
      BY <1>8, <2>1, <2>4 DEF CatalogFits
  <1>12. PICK bs, m : bs = blocks' /\ m = l
    OBVIOUS
  <1>13. CatalogHolds(bs, n + 1)'
    <2> SUFFICES ASSUME NEW i \in 1 .. Len(bs), NEW k \in 1 .. BLOCK_SIZE
                 PROVE  CellAt(bs[i], k)' = EntryOrZero(n + 1, (i - 1) * BLOCK_SIZE + k)
      BY DEF CatalogHolds
    <2>1. PICK b : b = bs[i]
      OBVIOUS
    <2>2. CellAt(b, k)' = image'[Offset(b) + k]
      BY DEF CellAt, Offset
    <2>3. Len(bs) = l + 1
      BY <1>8, <1>12
    <2>4. CASE i \in 1 .. l
      <3>1. b = blocks[i]
        BY <1>8, <1>12, <2>1, <2>4
      <3>2. image'[Offset(b) + k] = CellAt(blocks[i], k)
        BY <1>4, <1>9, <2>4, <3>1 DEF CellAt
      <3>3. CellAt(blocks[i], k) = EntryOrZero(n, (i - 1) * BLOCK_SIZE + k)
        BY <2>4 DEF CatalogHolds
      <3>4. (i - 1) * BLOCK_SIZE + k <= n /\ (i - 1) * BLOCK_SIZE + k \in Nat
        <4>1. (i - 1) + 1 <= l /\ i - 1 \in Nat
          BY <1>1, <2>4
        <4>2. ((i - 1) + 1) * BLOCK_SIZE <= l * BLOCK_SIZE /\ (i - 1) * BLOCK_SIZE \in Nat
              /\ ((i - 1) + 1) * BLOCK_SIZE = (i - 1) * BLOCK_SIZE + BLOCK_SIZE
          <5>1. (i - 1) + 1 \in Nat
            BY <4>1
          <5> HIDE DEF l
          <5> QED
            BY <1>1, <4>1, <5>1, Products
        <4> DEFINE v == (i - 1) * BLOCK_SIZE
        <4>3. v \in Nat /\ v + BLOCK_SIZE <= n
          BY <4>2
        <4> HIDE DEF v
        <4>4. v + k <= n /\ v + k \in Nat
          BY <1>1, <4>3
        <4> QED
          BY <4>4 DEF v
      <3> DEFINE q == (i - 1) * BLOCK_SIZE + k
      <3>5. q <= n /\ q \in Nat
        BY <3>4
      <3> HIDE DEF q
      <3>6. EntryOrZero(n, q) = EntryOrZero(n + 1, q)
        BY <3>5 DEF EntryOrZero
      <3> QED
        BY <2>1, <2>2, <3>2, <3>3, <3>6, Zenon DEF q
    <2>5. CASE i = l + 1
      <3>1. b = NewBlock /\ (i - 1) * BLOCK_SIZE = n
        BY <1>1, <1>8, <1>10, <1>12, <2>1, <2>5
      <3>2. (i - 1) * BLOCK_SIZE + k = n + k
        BY <3>1
      <3>3. image'[Offset(b) + k] = image'[at + k]
        BY <3>1
      <3>4. image'[at + k] = EntryOrZero(n + 1, n + k)
        <4>1. CASE k = 1
          BY <1>6, <4>1 DEF EntryOrZero
        <4>2. CASE k # 1
          <5>1. k \in 2 .. BLOCK_SIZE /\ ~(n + k <= n + 1)
            BY <1>1, <4>2
          <5> QED
            BY <1>7, <5>1 DEF EntryOrZero
        <4> QED
          BY <4>1, <4>2
      <3> QED
        BY <2>1, <2>2, <3>2, <3>3, <3>4
    <2> QED
      <3> HIDE DEF l
      <3>1. i \in 1 .. l \/ i = l + 1
        BY <1>1, <2>3 DEF l
      <3> QED
        BY <2>4, <2>5, <3>1 DEF l
  <1>14. CatalogHolds(blocks, n + 1)'
    BY <1>12, <1>13 DEF CatalogHolds, CellAt, Offset
  <1>15. Untouched'
    <2> DEFINE x == BLOCK_SIZE - 1
    <2>1. tail \in Nat
      BY DEF Untouched
    <2>2. \A p \in Nat : at < p /\ p <= Len(image) - tail => image[p] = Zero
      BY <1>2 DEF Untouched
    <2>3. \A p \in Nat : at + 1 < p /\ p <= Len(image') - tail => image'[p] = Zero
      <3>1. Len(e) <= 1 /\ 1 \in Nat
        BY <1>1
      <3>2. \A p \in Nat : at + Len(e) < p /\ p <= Len(image') - tail => image'[p] = Zero
        <4>1. PICK a \in Nat : a = at
          BY <1>2
        <4>2. /\ IsWrittenAt(image', image, a, 1, e)
              /\ \A p \in Nat : a < p /\ p <= Len(image) - tail => image[p] = Zero
          BY <4>1, <1>5, <2>2
        <4>3. image \in Seq(Cells) /\ image' \in Seq(Cells) /\ e \in Seq(Cells)
          BY <1>1
        <4> HIDE DEF at
        <4>4. PICK img, w, c, t : img = image /\ w = image' /\ c = e /\ t = tail
          OBVIOUS
        <4>5. /\ IsWrittenAt(w, img, a, 1, c)
              /\ \A p \in Nat : a < p /\ p <= Len(img) - t => img[p] = Zero
          BY <4>2, <4>4
        <4>6. img \in Seq(Cells) /\ w \in Seq(Cells) /\ c \in Seq(Cells) /\ t \in Nat /\ Len(c) <= 1
          BY <4>3, <4>4, <2>1, <3>1
        <4>7. \A p \in Nat : a + Len(c) < p /\ p <= Len(w) - t => w[p] = Zero
          BY <4>5, <4>6, <3>1, UntouchedBehind
        <4> QED
          BY <4>1, <4>4, <4>7
      <3> QED
        BY <1>1, <3>2
    <2>4. Count' * BLOCK_SIZE = at + BLOCK_SIZE
      BY <1>1, <1>2
    <2>5. \A p \in Nat : Count' * BLOCK_SIZE < p /\ p <= Len(image') - tail => image'[p] = Zero
      <3>1. BLOCK_SIZE \in Nat \ {0} /\ at \in Nat
        BY <1>1, <1>2
      <3> HIDE DEF at
      <3> DEFINE d == Count' * BLOCK_SIZE
      <3>2. d = at + BLOCK_SIZE
        BY <2>4
      <3> HIDE DEF d
      <3>3. \A p \in Nat : d < p => at + 1 < p
        BY <3>1, <3>2
      <3> QED
        BY <2>3, <3>3 DEF d
    <2>6. Short = Len(files) /\ Short' = Len(files)
      BY DEF Short
    <2>7. Len(files) \in Nat /\ x \in Nat
      BY <1>1, LenProperties DEF TInv, Shapes
    <2>8. BackupAt' = BackupAt /\ BackupAt \in Int
      BY BackupIs DEF BackupAt, IInv
    <2> DEFINE z == Short * x
    <2>9. z \in Nat /\ Short' * x = z
      <3> HIDE DEF x
      <3> QED
        BY <2>6, <2>7
    <2>10. tail # 0 => Len(image) >= BackupAt + tail - z
      BY DEF Untouched
    <2> HIDE DEF z
    <2>11. tail # 0 => Len(image') >= BackupAt + tail - z
      BY <1>1, <1>6, <2>1, <2>8, <2>9, <2>10
    <2> HIDE DEF x
    <2>12. /\ tail' \in Nat
           /\ \A p \in Nat : Count' * BLOCK_SIZE < p /\ p <= Len(image') - tail' => image'[p] = Zero
           /\ tail' # 0 => Len(image') >= BackupAt' + tail' - Short' * x
      BY <2>1, <2>5, <2>8, <2>9, <2>11, Zenon
    <2> QED
      BY <2>12, Zenon DEF Untouched, x
  <1> QED
    BY <1>4, <1>11, <1>14, <1>15

(* A slot's entry leaves the image as long as it was. *)
LEMMA SlotLength ==
  ASSUME IInv, TInv, Running, UNCHANGED <<total_blocks, bitmap>>, NEW i \in DOMAIN Slots,
         Slots[i] < Len(image), image' = Assigned(image, Slots[i], 1, <<Entry(num)>>)
  PROVE  Len(image') = Len(image) /\ (Reaches' => Reaches)
  <1> DEFINE e == <<Entry(num)>>
  <1>1. /\ e \in Seq(Cells) /\ Len(e) = 1 /\ image \in Seq(Cells)
        /\ Slots[i] \in Nat /\ Len(image) \in Nat
    BY CellsMade, OneCell, SlotMarked, LenProperties DEF TInv, Shapes
  <1>2. Slots[i] + Len(e) <= Len(image) /\ image' = Assigned(image, Slots[i], Len(e), e)
    BY <1>1
  <1> HIDE DEF e
  <1>3. IsWrittenOver(image', image, Slots[i], e)
    BY <1>1, <1>2, WrittenOver
  <1> QED
    BY <1>3 DEF IsWrittenOver, Reaches, Count

(* The entry of a file goes behind those of the files before it. *)
LEMMA SlotFilled ==
  ASSUME IInv, TInv, TInv', NInv, NInv', Accounted, Stored, mpc = "insert", mpc' = "files",
         Reaches', UNCHANGED <<total_blocks, tail, files, num, bitmap, blocks, inodes>>,
         NEW garbage,
         NEW ends, ends = {i \in DOMAIN Slots : Slots[i] >= Len(image)
                                                  \/ IsFree(image[Slots[i] + 1], garbage)},
         ends # {}, Slots[Least(ends)] < Len(image),
         image' = Assigned(image, Slots[Least(ends)], 1, <<Entry(num)>>)
  PROVE  Contents'
  <1> PICK n : n = Len(files) - 1
    OBVIOUS
  <1>1. Running /\ mpc # "failed" /\ mpc' # "failed" /\ DOMAIN Slots \subseteq Nat
    <2>1. DOMAIN Slots \subseteq Nat
      <3>1. blocks \in Seq(Nat)
        BY DEF TInv, Shapes
      <3> QED
        BY <3>1, SlotsAre
    <2> QED
      BY <2>1 DEF Running
  <1>2. ends \subseteq Nat /\ ends \subseteq DOMAIN Slots
    BY <1>1
  <1>3. Least(ends) \in ends /\ \A y \in ends : Least(ends) <= y
    BY <1>2, LeastElement
  <1>4. PICK s : s = Least(ends)
    OBVIOUS
  <1>5. /\ s \in DOMAIN Slots /\ s \in ends /\ \A y \in ends : s <= y
        /\ Slots[s] < Len(image) /\ image' = Assigned(image, Slots[s], 1, <<Entry(num)>>)
    BY <1>2, <1>3, <1>4
  <1>6. Reaches /\ Len(image') = Len(image)
    BY <1>1, <1>5, SlotLength
  <1>7. FilesStored /\ CatalogStored /\ Untouched /\ Partition
    BY <1>1, <1>6 DEF Stored, Contents, Accounted
  <1>8. /\ Len(files) \in Nat /\ n \in Nat /\ num = n + 1 /\ n + 1 = Len(files)
        /\ InCatalog = n /\ InTable = Len(files) /\ InTable' = Len(files) /\ InCatalog' = n + 1
    <2>1. num = Len(files) /\ Len(files) > 0 /\ Len(files) \in Nat
      BY <1>1, TableIs DEF NInv, Numbered
    <2> QED
      BY <2>1 DEF InCatalog, InTable
  <1>9. inodes[0] = RootInode(blocks) /\ CatalogFits(blocks, n) /\ CatalogHolds(blocks, n)
    BY <1>1, <1>7, <1>8 DEF CatalogStored
  <1>10. ends = {i \in DOMAIN Slots : i > n}
    BY <1>1, <1>6, <1>8, <1>9, EndsAre
  <1>11. s = n + 1
    <2>1. DOMAIN Slots = 1 .. Len(blocks) * BLOCK_SIZE /\ Len(blocks) * BLOCK_SIZE \in Nat
      <3>1. blocks \in Seq(Nat)
        BY DEF TInv, Shapes
      <3> QED
        BY <3>1, SlotsAre
    <2>2. PICK c \in Nat : c = Len(blocks) * BLOCK_SIZE
      BY <2>1
    <2>3. s \in 1 .. c /\ s > n /\ DOMAIN Slots = 1 .. c
      BY <1>5, <1>10, <2>1, <2>2
    <2>4. n + 1 \in 1 .. c
      BY <1>8, <2>3
    <2>5. s <= n + 1
      BY <1>5, <1>8, <1>10, <2>3, <2>4
    <2> QED
      BY <1>8, <2>3, <2>5
  <1>12. /\ CatalogHolds(blocks, n + 1)'
         /\ \A p \in Nat : Count * BLOCK_SIZE < p /\ p <= Len(image) => image'[p] = image[p]
    <2>1. \A i, j \in 1 .. Len(blocks) : blocks[i] = blocks[j] => i = j
      BY <1>9 DEF CatalogFits
    <2>2. /\ n + 1 \in DOMAIN Slots /\ Slots[n + 1] < Len(image)
          /\ image' = Assigned(image, Slots[n + 1], 1, <<Entry(num)>>)
      BY <1>5, <1>11
    <2> QED
      BY <1>1, <1>8, <1>9, <2>1, <2>2, EntryStored
  <1>13. FilesStored'
    <2>1. \A m \in DOMAIN inodes \ {0} : \A b \in Holds(m) : \A k \in 1 .. BLOCK_SIZE :
            image'[Offset(b) + k] = image[Offset(b) + k]
      BY <1>1, <1>5, <1>7, EntryWritten
    <2>2. \A f \in 1 .. InTable : f \in DOMAIN inodes \ {0}
      BY <1>1, TableIs
    <2>3. ASSUME NEW f \in 1 .. InTable PROVE FileStored(f)'
      <3>1. \A b \in Holds(f) : \A k \in 1 .. BLOCK_SIZE :
              image'[Offset(b) + k] = image[Offset(b) + k]
        BY <2>1, <2>2, <2>3
      <3>2. FileStored(f) /\ bitmap \subseteq bitmap' /\ inodes'[f] = inodes[f]
            /\ files'[f] = files[f]
        BY <1>7, <2>3 DEF FilesStored
      <3> QED
        BY <1>1, <2>3, <3>1, <3>2, StoredStays
    <2>4. InTable' = InTable
      BY <1>8
    <2> QED
      BY <2>3, <2>4 DEF FilesStored
  <1>14. CatalogStored'
    <2>1. CatalogFits(blocks, n + 1)'
      <3>1. PICK c \in Nat : c = Len(blocks) * BLOCK_SIZE /\ DOMAIN Slots = 1 .. c
        <4>1. blocks \in Seq(Nat)
          BY DEF TInv, Shapes
        <4> QED
          BY <4>1, SlotsAre
      <3>2. n + 1 <= c
        BY <1>5, <1>11, <3>1
      <3>3. PICK d : d = (Len(blocks) - 1) * BLOCK_SIZE
        OBVIOUS
      <3>4. Len(blocks) > 1 => d \in Int /\ d < n + 1
        <4>1. BLOCK_SIZE \in Nat /\ Len(blocks) \in Nat
          BY <1>1, CountIs, LenProperties DEF TInv, Shapes
        <4>2. Len(blocks) > 1 => d < n
          BY <1>9, <3>3 DEF CatalogFits
        <4>3. d \in Int
          BY <3>3, <4>1
        <4> QED
          BY <1>8, <4>2, <4>3
      <3> QED
        BY <1>9, <3>1, <3>2, <3>3, <3>4 DEF CatalogFits
    <2>2. inodes'[0] = RootInode(blocks')
      BY <1>9
    <2> QED
      BY <1>8, <1>12, <2>1, <2>2 DEF CatalogStored
  <1>15. Untouched'
    <2>1. Short = Len(files) /\ Short \in Nat
      BY <1>1, ShortIs
    <2>2. Short' = Len(files)
      BY DEF Short
    <2>3. Count' = Count /\ Count \in Nat
      BY <1>1, CountIs DEF Count
    <2>4. Short <= Short' /\ Short' \in Nat /\ Count <= Count' /\ Count' \in Nat
      BY <1>8, <2>1, <2>2, <2>3
    <2> QED
      BY <1>6, <1>7, <1>12, <2>1, <2>3, <2>4, UntouchedStays
  <1>16. BeingStored'
    BY DEF BeingStored
  <1> QED
    BY <1>13, <1>14, <1>15, <1>16 DEF Contents

LEMMA CatalogExtended ==
  ASSUME IInv, TInv, TInv', NInv, NInv', Accounted, Stored, mpc = "insert", mpc' = "files",
         Reaches', UNCHANGED <<total_blocks, tail, files, num>>, AllocBlock, NEW garbage,
         {i \in DOMAIN Slots : Slots[i] >= Len(image)
                                 \/ IsFree(image[Slots[i] + 1], garbage)} = {},
         blocks' = Append(blocks, NewBlock), inodes' = [inodes EXCEPT ![0] = RootInode(blocks')],
         image' = Assigned(image, Offset(NewBlock), 1, <<Entry(num)>>)
  PROVE  Contents'
  <1> PICK n : n = Len(files) - 1
    OBVIOUS
  <1> DEFINE e == <<Entry(num)>>
  <1>1. Running /\ mpc # "failed" /\ mpc' # "failed"
    BY DEF Running
  <1>2. /\ Reaches
        /\ \A b \in Nat : Marked(b) =>
             \A k \in 1 .. BLOCK_SIZE : image'[Offset(b) + k] = image[Offset(b) + k]
    <2>1. e \in Seq(Cells) /\ Len(e) <= 1 /\ image' = Assigned(image, Offset(NewBlock), 1, e)
      BY CellsMade, OneCell DEF TInv, Shapes
    <2>2. 1 \in 1 .. BLOCK_SIZE
      BY MkfsAssumption
    <2> HIDE DEF e
    <2> QED
      BY <1>1, <2>1, <2>2, WrittenBehind
  <1>3. FilesStored /\ CatalogStored /\ Untouched /\ Partition
    BY <1>1, <1>2 DEF Stored, Contents, Accounted
  <1>4. /\ Len(files) \in Nat /\ n \in Nat /\ num = n + 1 /\ n + 1 = Len(files)
        /\ InCatalog = n /\ InTable = Len(files) /\ InTable' = Len(files) /\ InCatalog' = n + 1
    <2>1. num = Len(files) /\ Len(files) > 0 /\ Len(files) \in Nat
      BY <1>1, TableIs DEF NInv, Numbered
    <2> QED
      BY <2>1 DEF InCatalog, InTable
  <1>5. CatalogFits(blocks, n) /\ CatalogHolds(blocks, n)
    BY <1>1, <1>3, <1>4 DEF CatalogStored
  <1>6. n = Len(blocks) * BLOCK_SIZE
    <2>1. {i \in DOMAIN Slots : i > n} = {}
      BY <1>1, <1>2, <1>4, <1>5, EndsAre
    <2>2. PICK c \in Nat : c = Len(blocks) * BLOCK_SIZE /\ DOMAIN Slots = 1 .. c
      <3>1. blocks \in Seq(Nat)
        BY DEF TInv, Shapes
      <3> QED
        BY <3>1, SlotsAre
    <2>3. n <= c
      BY <1>5, <2>2 DEF CatalogFits
    <2>4. ~(n < c)
      <3>1. n < c => c \in DOMAIN Slots /\ c > n
        BY <1>4, <2>2
      <3> QED
        BY <2>1, <3>1
    <2> QED
      BY <1>4, <2>2, <2>3, <2>4
  <1>7. CatalogFits(blocks, n + 1)' /\ CatalogHolds(blocks, n + 1)' /\ Untouched'
    BY <1>1, <1>3, <1>4, <1>5, <1>6, EntryAppended
  <1>8. bitmap \subseteq bitmap'
    BY DEF AllocBlock
  <1>9. inodes'[0] = RootInode(blocks') /\ \A f \in DOMAIN inodes \ {0} : inodes'[f] = inodes[f]
    <2>1. DOMAIN inodes = 0 .. TOTAL_INODES - 1 /\ TOTAL_INODES \in Nat \ {0}
      BY <1>1, TableIs
    <2>2. 0 \in DOMAIN inodes
      BY <2>1
    <2> QED
      BY <2>2
  <1>10. CatalogStored'
    BY <1>4, <1>7, <1>9 DEF CatalogStored
  <1>11. FilesStored'
    <2>1. \A f \in 1 .. InTable :
              inodes'[f] = inodes[f] /\ files'[f] = files[f] => FileStored(f)'
      BY <1>1, <1>2, <1>3, <1>8, MarkedStays
    <2>2. \A f \in 1 .. InTable : f \in DOMAIN inodes \ {0}
      BY <1>1, TableIs
    <2>3. InTable' = InTable
      BY <1>4
    <2> QED
      BY <1>9, <2>1, <2>2, <2>3 DEF FilesStored
  <1>12. BeingStored'
    BY DEF BeingStored
  <1> QED
    BY <1>7, <1>10, <1>11, <1>12 DEF Contents

LEMMA CatalogInsertStores ==
  IInv /\ TInv /\ TInv' /\ NInv /\ NInv' /\ Accounted /\ Stored /\ CatalogInsert => Stored'
  <1> SUFFICES ASSUME IInv, TInv, TInv', NInv, NInv', Accounted, Stored, CatalogInsert,
                      mpc' # "failed", Reaches'
               PROVE  Contents'
    BY DEF Stored
  <1>1. mpc = "insert" /\ UNCHANGED <<total_blocks, tail, files, num>>
    BY DEF CatalogInsert
  <1>2. PICK garbage \in BOOLEAN :
          LET ends == {i \in DOMAIN Slots : Slots[i] >= Len(image)
                                              \/ IsFree(image[Slots[i] + 1], garbage)}
          IN  \/ /\ ends # {} /\ Slots[Least(ends)] < Len(image)
                 /\ image' = Assigned(image, Slots[Least(ends)], 1, <<Entry(num)>>)
                 /\ mpc' = "files" /\ UNCHANGED <<bitmap, blocks, inodes>>
              \/ /\ ends = {} /\ AllocBlock /\ blocks' = Append(blocks, NewBlock)
                 /\ image' = Assigned(image, Offset(NewBlock), 1, <<Entry(num)>>)
                 /\ inodes' = [inodes EXCEPT ![0] = RootInode(blocks')]
                 /\ mpc' = "files"
    BY DEF CatalogInsert, Raises, VolumeFull
  <1>3. PICK ends : ends = {i \in DOMAIN Slots : Slots[i] >= Len(image)
                                                   \/ IsFree(image[Slots[i] + 1], garbage)}
    OBVIOUS
  <1>4. CASE /\ ends # {} /\ Slots[Least(ends)] < Len(image)
             /\ image' = Assigned(image, Slots[Least(ends)], 1, <<Entry(num)>>)
             /\ mpc' = "files" /\ UNCHANGED <<bitmap, blocks, inodes>>
    BY <1>1, <1>3, <1>4, SlotFilled
  <1>5. CASE /\ ends = {} /\ AllocBlock /\ blocks' = Append(blocks, NewBlock)
             /\ image' = Assigned(image, Offset(NewBlock), 1, <<Entry(num)>>)
             /\ inodes' = [inodes EXCEPT ![0] = RootInode(blocks')]
             /\ mpc' = "files"
    BY <1>1, <1>3, <1>5, CatalogExtended
  <1> QED
    BY <1>2, <1>3, <1>4, <1>5

LEMMA QuietStores ==
  NInv /\ NInv' /\ Stored /\ (WriteSuperblock \/ UNCHANGED mkfsVars) => Stored'
  <1> SUFFICES ASSUME NInv, NInv', Stored, WriteSuperblock \/ UNCHANGED mkfsVars,
                      mpc' # "failed", Reaches'
               PROVE  Contents'
    BY DEF Stored
  <1>1. /\ UNCHANGED <<total_blocks, tail, image, bitmap, inodes, blocks, files, direct, indirect>>
        /\ mpc' = mpc \/ (mpc = "files" /\ mpc' = "done")
    BY DEF WriteSuperblock, mkfsVars
  <1>2. mpc # "failed" /\ Reaches
    BY <1>1 DEF Reaches, Count
  <1>3. Contents
    BY <1>2 DEF Stored
  <1>4. InTable' = InTable /\ InCatalog' = InCatalog /\ (Running' => Running)
    BY <1>1 DEF InTable, InCatalog, Running
  <1>5. FilesStored'
    BY <1>1, <1>3, <1>4 DEF Contents, FilesStored, FileStored, StoredIn, InodeFits, Holding,
      BlockNo, CellAt, Offset, Marked
  <1>6. BeingStored'
    BY <1>1, <1>3 DEF Contents, BeingStored, Holding, CellAt, Offset, FileSize, NBlocks
  <1>7. CatalogStored'
    BY <1>1, <1>3, <1>4 DEF Contents, CatalogStored, CatalogHolds, CatalogFits, CellAt, Offset
  <1>8. Untouched'
    <2>1. Short' = Short /\ Count' = Count /\ BackupAt' = BackupAt
      BY <1>1 DEF Short, Count, BackupAt, NBlocks, FileSize
    <2> QED
      BY <1>1, <1>3, <2>1 DEF Contents, Untouched
  <1> QED
    BY <1>5, <1>6, <1>7, <1>8 DEF Contents

(* What add_file is given is what the image holds: after every step that    *)
(* has not failed, and as long as the image still reaches over what is      *)
(* allocated, every file's bytes are in the blocks its inode counts, behind  *)
(* a pointer block where there are more than the direct ones, and the       *)
(* catalog has one entry per file, in order (owfs_mkfs.py:177-250).         *)
THEOREM MkfsStored == Spec => [](IInv /\ TInv /\ Accounted /\ NInv /\ Stored)
  <1>1. IInv /\ TInv /\ TInv' /\ NInv /\ NInv' /\ Accounted /\ Stored /\ [Next]_mkfsVars => Stored'
    BY FormatStores, AllocInodeStores, AddIndirectStores, AddBlockStores, WriteInodeStores,
       CatalogInsertStores, QuietStores DEF Next
  <1> QED
    BY <1>1, InitStored, MkfsNumbered, PTL DEF Spec
=============================================================================
