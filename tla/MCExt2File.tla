----------------------------- MODULE MCExt2File -----------------------------
(***************************************************************************)
(* Instances of Ext2File for TLC: blocks of 4 bytes, 3 direct blocks.      *)
(***************************************************************************)
EXTENDS Ext2File

\* Files up to the first size that is not supported and one block beyond it.
MCFileSizes == 0 .. (DirectBlocks + 1) * BlockSize

\* Counts up to more than the largest file.
MCCounts == 0 .. (DirectBlocks + 1) * BlockSize + 1

=============================================================================
