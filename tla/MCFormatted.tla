----------------------------- MODULE MCFormatted -----------------------------
(***************************************************************************)
(* Volumes of 3 to 15 blocks of two cells with bitmaps of one to three     *)
(* blocks of four bits, two direct pointers and a pointer block of two;    *)
(* as many files as six inodes allow, of sizes on both sides of the block  *)
(* boundaries and one more block than an inode can point to; an image that *)
(* ends with the volume or goes on behind it.  The loader takes a part of a *)
(* cluster, two clusters, or the four that are left in the ESP.             *)
(***************************************************************************)
EXTENDS Formatted
=============================================================================
