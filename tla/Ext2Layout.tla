----------------------------- MODULE Ext2Layout -----------------------------
(***************************************************************************)
(* Where the ext2 driver looks for things on the disk: load_superblock,    *)
(* load_bgdt and read_inode of src/fs/ext2.c, against where an ext2 disk   *)
(* has them.  What is read is represented by the address it is read from,  *)
(* in bytes from the start of the disk, or by Garbage if it comes from     *)
(* memory that was not filled from the disk.                               *)
(***************************************************************************)
EXTENDS Integers

CONSTANTS
  WordMod,  \* number of values of a uint32_t or a size_t, 2^32
  Disks,    \* disks the kernel may find: see Disk
  Asked     \* bound of the run: inode numbers that are asked for

SECTOR_SIZE       == 512
SUPERBLOCK_OFFSET == 1024
SUPERBLOCK_LENGTH == 1024
INODE_SIZE        == 128
BGD_SIZE          == 32     \* sizeof(BGD)

\* The fields of the superblock the driver uses, and the block where the inode
\* table of group 0 starts, each further one blocks_per_group blocks later.
Disk == [ext2 : BOOLEAN, log2_block_size : Nat, total_blocks : Nat,
         blocks_per_group : Nat, inodes_per_group : Nat, first_table : Nat]

ASSUME WordAssumption ==
  /\ WordMod \in Nat /\ WordMod > 256 * SECTOR_SIZE
  /\ WordMod % SECTOR_SIZE = 0

\* No group of an ext2 file system is empty, a word holds the size of a block, and
\* as the bitmap of a group is one block, 64 groups of small blocks are less than
\* 4GiB.  The power of two is one: the provers know no exponentiation.
ASSUME DiskAssumption ==
  /\ Disks \subseteq Disk
  /\ \A d \in Disks : /\ 2 ^ d.log2_block_size \in Nat \ {0, 3}
                      /\ 1024 * 2 ^ d.log2_block_size < WordMod
  /\ \A d \in Disks : d.ext2 =>
       /\ d.blocks_per_group # 0 /\ d.inodes_per_group # 0
       /\ 2 ^ d.log2_block_size < 4 =>
            64 * d.blocks_per_group * (1024 * 2 ^ d.log2_block_size) < WordMod

Garbage == -1

VARIABLES
  disk,        \* the disk
  stage,       \* "superblock", "bgdt", "ready" or "halt"
  block_size,  \* block_size
  num_groups,  \* num_groups
  bgdt,        \* where bgdt was read from, and how many bytes the disk filled
  inode_num,   \* the inode read last, 0 if none
  inode        \* where it was read from

layoutVars == <<disk, stage, block_size, num_groups, bgdt, inode_num, inode>>

-----------------------------------------------------------------------------
(***************************************************************************)
(* The disk: what an ext2 file system has and where.                       *)
(***************************************************************************)

BytesPerBlock(d) == 1024 * 2 ^ d.log2_block_size

\* The block of the superblock is the first data block: with blocks of 1KiB
\* the boot sector has a block of its own.
FirstDataBlock(d) == IF BytesPerBlock(d) = 1024 THEN 1 ELSE 0

\* The last group may be shorter than the others.
GroupCount(d) ==
  (d.total_blocks - FirstDataBlock(d) + d.blocks_per_group - 1)
    \div d.blocks_per_group

InodeTable(d, g) == d.first_table + g * d.blocks_per_group

\* The descriptor table follows the block of the superblock.
DescriptorAt(d, g) == (FirstDataBlock(d) + 1) * BytesPerBlock(d) + g * BGD_SIZE

InodeAt(d, n) ==
  InodeTable(d, (n - 1) \div d.inodes_per_group) * BytesPerBlock(d)
    + ((n - 1) % d.inodes_per_group) * INODE_SIZE

Inodes(d) == 1 .. GroupCount(d) * d.inodes_per_group

-----------------------------------------------------------------------------
(***************************************************************************)
(* The driver.                                                             *)
(***************************************************************************)

\* read_abs_sectors takes the number of sectors as a uint8_t.
ToByte(n) == n % 256

\* Sums and products of the driver are words.
Word(n) == n % WordMod

LayoutInit ==
  /\ disk \in Disks
  /\ stage = "superblock"
  /\ block_size = 0 /\ num_groups = 0
  /\ bgdt = [at |-> Garbage, bytes |-> 0]
  /\ inode_num = 0 /\ inode = Garbage

\* The signature is checked after the figures are calculated; either the
\* division by zero or the ASSERT stops the kernel on another disk.
LoadSuperblock ==
  /\ stage = "superblock"
  /\ \/ /\ ~ disk.ext2
        /\ stage' = "halt"
        /\ UNCHANGED <<block_size, num_groups>>
     \/ /\ disk.ext2
        /\ stage' = "bgdt"
        /\ block_size' = 1024 * 2 ^ disk.log2_block_size
        /\ num_groups' = disk.total_blocks \div disk.blocks_per_group
  /\ UNCHANGED <<disk, bgdt, inode_num, inode>>

\* The block behind the superblock, as load_bgdt computes it.
BgdtBlock == (SUPERBLOCK_OFFSET + SUPERBLOCK_LENGTH) \div block_size + 1

BgdtSectors == Word(BGD_SIZE * num_groups) \div SECTOR_SIZE + 1

LoadBgdt ==
  /\ stage = "bgdt" /\ stage' = "ready"
  /\ bgdt' = [at    |-> (Word(BgdtBlock * block_size) \div SECTOR_SIZE)
                           * SECTOR_SIZE,
              bytes |-> ToByte(BgdtSectors) * SECTOR_SIZE]
  /\ UNCHANGED <<disk, block_size, num_groups, inode_num, inode>>

\* bgdt[g]: the table in memory has num_groups entries.
Descriptor(g) ==
  IF g < num_groups /\ (g + 1) * BGD_SIZE <= bgdt.bytes
  THEN bgdt.at + g * BGD_SIZE
  ELSE Garbage

\* inode_table_addr of a descriptor read from there.
TableAddr(at) ==
  LET g == (at - DescriptorAt(disk, 0)) \div BGD_SIZE
  IN  IF at # Garbage /\ g \in 0 .. GroupCount(disk) - 1
                      /\ DescriptorAt(disk, g) = at
      THEN InodeTable(disk, g)
      ELSE Garbage

\* Fault: inode numbers are taken to start at 0.
ZeroBasedFault(n) == n

\* "inode numbers start at 1, change to 0-based index"
ZeroBased(n) == n - 1

\* The address of the inode that read_inode copies.  It reads the first
\* sectors of a block and takes the inode at its offset in the block.
InodeSource(n) ==
  LET group           == ZeroBased(n) \div disk.inodes_per_group
      i_table_block   == TableAddr(Descriptor(group))
      index           == ZeroBased(n) % disk.inodes_per_group
      block_offset    == Word(index * INODE_SIZE) \div block_size
      offset_in_block == Word(index * INODE_SIZE) % block_size
      block           == Word(i_table_block + block_offset)
      num_sectors     == INODE_SIZE \div SECTOR_SIZE + 1
  IN  IF \/ i_table_block = Garbage
         \/ offset_in_block + INODE_SIZE > num_sectors * SECTOR_SIZE
      THEN Garbage
      ELSE (Word(block * block_size) \div SECTOR_SIZE) * SECTOR_SIZE
             + offset_in_block

ReadInode ==
  /\ stage = "ready"
  /\ \E n \in Inodes(disk) \cap Asked : inode_num' = n /\ inode' = InodeSource(n)
  /\ UNCHANGED <<disk, stage, block_size, num_groups, bgdt>>

Stopped == stage = "halt" /\ UNCHANGED layoutVars

LayoutNext == LoadSuperblock \/ LoadBgdt \/ ReadInode \/ Stopped

LayoutSpec == LayoutInit /\ [][LayoutNext]_layoutVars

-----------------------------------------------------------------------------
(***************************************************************************)
(* Properties.                                                             *)
(***************************************************************************)

\* The inode lies where read_inode can find it: blocks of 4KiB or more, a complete
\* group whose descriptor is in the sectors load_bgdt read, the first sector of its
\* block, and the first 4GiB of the disk.
Findable(n) ==
  LET group == (n - 1) \div disk.inodes_per_group
      index == (n - 1) % disk.inodes_per_group
  IN  /\ block_size >= 4096
      /\ group < disk.total_blocks \div disk.blocks_per_group
      /\ (group + 1) * BGD_SIZE <= ToByte(BgdtSectors) * SECTOR_SIZE
      /\ (index * INODE_SIZE) % block_size < SECTOR_SIZE
      /\ InodeAt(disk, n) < WordMod

\* read_inode returns the inode asked for if and only if it is findable: within the
\* limits group, index, block and offset are those of the file system, and each limit
\* is real.  A block size below 4KiB, a group cut short, a sector count or a byte
\* address that wraps, or an inode behind the first sector of its block, always ends
\* with the wrong bytes, never by luck with the right ones.
InodeFound ==
  inode_num # 0 => (inode = InodeAt(disk, inode_num) <=> Findable(inode_num))

=============================================================================
