------------------------------- MODULE MCOwfs -------------------------------
(***************************************************************************)
(* Volumes of ten two-byte blocks.  Inodes have two direct blocks and a    *)
(* pointer block of two, so the catalog and a file each can need the       *)
(* indirect block; the entry list holds three.  The volumes vary one part  *)
(* at a time: the superblock, the root inode with its catalog, or a file.  *)
(***************************************************************************)
EXTENDS Owfs

Sb(magic, geometry, crc, major, minor, encrypted, flags) ==
  [magic |-> magic, geometry |-> geometry, crc |-> crc, version_major |-> major,
   version_minor |-> minor, encrypted |-> encrypted, state_flags |-> flags,
   total_inodes |-> 4]
GoodSb == Sb("OWFS", TRUE, TRUE, 1, 2, FALSE, {})

Inode(type, crc, bytes, blocks, direct, indirect) ==
  [entry_type |-> type, crc |-> crc, size_bytes |-> bytes, block_count |-> blocks,
   direct_blocks |-> direct, indirect_block |-> indirect]
Entry(num, type, crc) == [inode_number |-> num, entry_type |-> type, crc |-> crc]

(* Blocks 1, 2 and 7 hold the catalog, 3 points to 7 and 2; blocks 4, 5, 6 *)
(* and 9 hold file data, 8 points to 6 and 9.  Block 10 is past the end.   *)
Root(blocks) == Inode({"CATALOG"}, TRUE, 0, blocks, <<1, 2>>, 3)
File(bytes)  == Inode({"FILE"}, TRUE, bytes, (bytes + 1) \div 2, <<4, 5>>, 8)

Volume(sb, root, file, first, second, ptrs) ==
  [sb      |-> sb,
   inodes  |-> [i \in 0 .. 3 |-> CASE i = 0 -> root
                                   [] i = 1 -> file
                                   [] i = 2 -> Inode({"CATALOG"}, TRUE, 0, 0, <<0, 0>>, 0)
                                   [] i = 3 -> NoInode],
   entries |-> [b \in {1, 2, 7} |-> CASE b = 1 -> first
                                      [] b = 2 -> second
                                      [] b = 7 -> <<Entry(2, {"CATALOG"}, TRUE),
                                                    Entry(4, {"FILE"}, TRUE)>>],
   pointers |-> [b \in {3, 8} |-> IF b = 3 THEN <<7, 2>> ELSE ptrs]]

Kinds == {Entry(1, {"FILE"}, TRUE), Entry(1, {"FILE"}, FALSE), Entry(3, {"FILE"}, TRUE),
          Entry(1, {"FILE", "DELETED"}, TRUE), Entry(0, {}, FALSE)}
Plain == <<Entry(1, {"FILE"}, TRUE), Entry(0, {}, FALSE)>>

SuperblockVolumes ==
  {Volume(Sb(m, g, c, v, 2, e, {}), Root(1), File(3), Plain, Plain, <<6, 9>>) :
     m \in {"OWFS", "USFS", "other"}, g \in BOOLEAN, c \in BOOLEAN, v \in {1, 2},
     e \in BOOLEAN}
    \cup {Volume(Sb("OWFS", TRUE, TRUE, v[1], v[2], FALSE, f), Root(1), File(3), Plain,
                 Plain, <<6, 9>>) :
            v \in {<<0, 9>>, <<1, 2>>, <<1, 1>>}, f \in SUBSET {"DIRTY", "LOCKED", "ERROR"}}

CatalogVolumes ==
  {Volume(GoodSb, Root(n), File(3), <<a, b>>, <<c, d>>, <<6, 9>>) :
     n \in 0 .. 4, a \in Kinds, b \in Kinds, c \in Kinds, d \in {Plain[1], Plain[2]}}
    \cup {Volume(GoodSb, r, File(3), Plain, Plain, <<6, 9>>) :
            r \in {[Root(3) EXCEPT !.entry_type = t] : t \in {{}, {"FILE"}}}
                    \cup {[Root(3) EXCEPT !.crc = FALSE],
                          [Root(3) EXCEPT !.indirect_block = 0],
                          [Root(3) EXCEPT !.indirect_block = 4], Root(5),
                          [Root(3) EXCEPT !.indirect_block = 10],
                          [Root(2) EXCEPT !.direct_blocks = <<1, 0>>],
                          [Root(2) EXCEPT !.direct_blocks = <<1, 10>>]}}

FileVolumes ==
  {Volume(GoodSb, Root(1), [File(s) EXCEPT !.block_count = n], Plain, Plain, <<6, 9>>) :
     s \in 0 .. 9, n \in 0 .. 5}
    \cup {Volume(GoodSb, Root(1), [File(s) EXCEPT !.direct_blocks = d, !.indirect_block = x],
                 Plain, Plain, p) :
            s \in {4, 7, 8}, d \in {<<4, 5>>, <<0, 5>>, <<4, 10>>}, x \in {0, 8, 4, 10},
            p \in {<<6, 9>>, <<6, 0>>, <<10, 9>>}}
    \cup {Volume(GoodSb, Root(1), [File(4) EXCEPT !.entry_type = t, !.crc = c],
                 Plain, Plain, <<6, 9>>) :
            t \in {{}, {"CATALOG"}, {"FILE"}}, c \in BOOLEAN}

MCVolumes == SuperblockVolumes \cup CatalogVolumes \cup FileVolumes
=============================================================================
