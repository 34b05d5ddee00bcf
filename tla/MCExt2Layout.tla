---------------------------- MODULE MCExt2Layout ----------------------------
(***************************************************************************)
(* Instances of Ext2Layout for TLC: small disks of every block size, and   *)
(* disks beyond the limits of the driver; words of 24 bits.                *)
(***************************************************************************)
EXTENDS Ext2Layout

\* Disks of 1 to 3 groups, complete or not, and one that is not ext2.
SmallDisks ==
  [ext2 : {TRUE}, log2_block_size : 0 .. 3, total_blocks : {64, 65, 100, 128, 192},
   blocks_per_group : {64}, inodes_per_group : {8, 32, 40}, first_table : {5}]

OtherDisk ==
  [ext2 |-> FALSE, log2_block_size |-> 0, total_blocks |-> 0,
   blocks_per_group |-> 0, inodes_per_group |-> 0, first_table |-> 0]

\* Small blocks and so many groups that load_bgdt reads descriptors of others.
OffsetDisks ==
  [ext2 : {TRUE}, log2_block_size : 0 .. 1, total_blocks : {4480},
   blocks_per_group : {64}, inodes_per_group : {8}, first_table : {5}]

\* More sectors of descriptors than a byte can count.
ManyGroups ==
  [ext2 |-> TRUE, log2_block_size |-> 2, total_blocks |-> 4112 * 64,
   blocks_per_group |-> 64, inodes_per_group |-> 8, first_table |-> 5]

\* A disk that is larger than WordMod.
LargeDisk ==
  [ext2 |-> TRUE, log2_block_size |-> 3, total_blocks |-> 3072,
   blocks_per_group |-> 1024, inodes_per_group |-> 128, first_table |-> 5]

\* All inodes of the disks but ManyGroups, whose 17th group is the first that fails.
MCAsked == 1 .. 600

MCDisks == SmallDisks \cup OffsetDisks \cup {OtherDisk, ManyGroups, LargeDisk}

=============================================================================
