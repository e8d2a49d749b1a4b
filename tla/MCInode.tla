------------------------------ MODULE MCInode -------------------------------
(***************************************************************************)
(* Instances of Inode: a sector of 2 bytes and an inode with one direct,   *)
(* one indirect and one doubly indirect slot, 1 + 3 + 9 data sectors.      *)
(***************************************************************************)
EXTENDS Inode

CONSTANTS a, b, f
=============================================================================
