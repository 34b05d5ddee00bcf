--------------------------- MODULE Ext2Proofs ---------------------------
(***************************************************************************)
(* An open ext2 file is a stream: the refinement of FileStream by Ext2File *)
(* and the invariant it rests on, for every block size, number of direct   *)
(* blocks, set of file sizes and set of counts that do not overflow        *)
(* size_t.  And the driver finds the inodes: the invariant of Ext2Layout,  *)
(* for every disk.                                                         *)
(***************************************************************************)
EXTENDS Ext2File, Ext2Layout, TLAPS

\* file->pos + count does not overflow, whatever file is read.
NoWrap == \A s \in FileSizes, n \in Counts : s + n < SizeMod

\* The values the reader's call and the handle have in the loop.
HandleOK ==
  /\ pc \in {"closed", "idle", "copy", "panic"}
  /\ size \in Nat /\ pos \in Nat /\ start \in Nat /\ asked \in Nat
  /\ size < SizeMod
  /\ block_index \in Nat /\ curr_block_pos \in Nat /\ loaded \in Nat
  /\ pos <= size

Placed ==
  pc \in {"idle", "copy"} =>
    /\ size \in FileSizes
    /\ pos = block_index * BlockSize + curr_block_pos
    /\ loaded = block_index
    /\ curr_block_pos < BlockSize
    /\ block_index < DirectBlocks

\* What ext2_read has done so far: count - bytes_left bytes, in order.
Partial ==
  pc = "copy" =>
    /\ asked \in Counts
    /\ count \in Nat /\ bytes_left \in Nat
    /\ bytes_left <= count
    /\ start <= size
    /\ count = IF asked <= size - start THEN asked ELSE size - start
    /\ pos = start + (count - bytes_left)
    /\ buf = [k \in 0 .. count - 1 |-> buf[k]]
    /\ \A k \in 0 .. count - bytes_left - 1 : buf[k] = start + k

FileInv == HandleOK /\ Placed /\ Partial

-----------------------------------------------------------------------------
(***************************************************************************)
(* The arithmetic of one iteration.                                        *)
(***************************************************************************)

\* A block further is BlockSize bytes further.
LEMMA NextBlock ==
  ASSUME NEW b \in Nat
  PROVE  (b + 1) * BlockSize = b * BlockSize + BlockSize
  BY FileAssumption

\* A block starts at or after the start of the file.
LEMMA BlockStart ==
  ASSUME NEW b \in Nat
  PROVE  b * BlockSize \in Nat
  BY FileAssumption

\* Inside the loop no sum of positions overflows, the number of bytes copied is
\* at most what is left of the request and of the block, and the block is left
\* exactly when it is used up.
LEMMA Iteration ==
  ASSUME NoWrap, FileInv, pc = "copy", bytes_left > 0
  PROVE  /\ ToCopy \in 1 .. bytes_left
         /\ curr_block_pos + ToCopy <= BlockSize
         /\ NewBlock <=> curr_block_pos + ToCopy = BlockSize
         /\ SizeT(pos + ToCopy) = pos + ToCopy
         /\ SizeT(curr_block_pos + ToCopy) = curr_block_pos + ToCopy
         /\ pos + ToCopy <= size
<1>1. /\ pos \in Nat /\ curr_block_pos \in Nat /\ block_index \in Nat
      /\ count \in Nat /\ bytes_left \in Nat /\ start \in Nat /\ size \in Nat
      /\ size < SizeMod
      /\ curr_block_pos < BlockSize
      /\ bytes_left <= count
      /\ pos = start + (count - bytes_left)
      /\ pos = block_index * BlockSize + curr_block_pos
  BY DEF FileInv, HandleOK, Placed, Partial
<1>2. start + count <= size
  BY <1>1, SMTT(30) DEF FileInv, Partial, HandleOK
<1>3. curr_block_pos <= pos
  BY <1>1, BlockStart
<1>4. curr_block_pos + bytes_left < SizeMod /\ pos + bytes_left <= size
  BY <1>1, <1>2, <1>3, FileAssumption
<1>5. NewBlock <=> curr_block_pos + bytes_left >= BlockSize
  BY <1>1, <1>4, FileAssumption DEF NewBlock, SizeT
<1>6. /\ ToCopy \in 1 .. bytes_left
      /\ curr_block_pos + ToCopy <= BlockSize
      /\ NewBlock <=> curr_block_pos + ToCopy = BlockSize
  BY <1>1, <1>5, FileAssumption DEF ToCopy
<1>7. QED
  BY <1>1, <1>3, <1>4, <1>6, FileAssumption DEF SizeT

\* One iteration extends what the caller's buffer holds by the next bytes of
\* the file.
LEMMA CopiedInOrder ==
  ASSUME NoWrap, FileInv, pc = "copy", bytes_left > 0
  PROVE  /\ Copied(ToCopy) = [k \in 0 .. count - 1 |-> Copied(ToCopy)[k]]
         /\ \A k \in 0 .. count - bytes_left + ToCopy - 1 :
              Copied(ToCopy)[k] = start + k
<1>1. /\ pos \in Nat /\ curr_block_pos \in Nat /\ block_index \in Nat
      /\ count \in Nat /\ bytes_left \in Nat /\ start \in Nat
      /\ bytes_left <= count
      /\ loaded = block_index
      /\ pos = start + (count - bytes_left)
      /\ pos = block_index * BlockSize + curr_block_pos
      /\ \A k \in 0 .. count - bytes_left - 1 : buf[k] = start + k
  BY DEF FileInv, HandleOK, Placed, Partial
<1>2. ToCopy \in 1 .. bytes_left /\ curr_block_pos + ToCopy <= BlockSize
  BY Iteration
<1>3. ASSUME NEW k \in 0 .. count - bytes_left + ToCopy - 1
      PROVE  Copied(ToCopy)[k] = start + k
  <2>1. k \in 0 .. count - 1
    BY <1>1, <1>2
  <2>2. CASE k < count - bytes_left
    BY <1>1, <1>2, <2>1, <2>2 DEF Copied
  <2>3. CASE k >= count - bytes_left
    <3>1. Copied(ToCopy)[k]
            = Buffered(curr_block_pos + (k - (count - bytes_left)))
      BY <1>1, <1>2, <2>1, <2>3 DEF Copied
    <3>2. curr_block_pos + (k - (count - bytes_left)) < BlockSize
      BY <1>1, <1>2, FileAssumption
    <3>3. Copied(ToCopy)[k]
            = block_index * BlockSize
                + (curr_block_pos + (k - (count - bytes_left)))
      BY <1>1, <3>1, <3>2 DEF Buffered
    <3>4. block_index * BlockSize \in Nat
      BY <1>1, BlockStart
    <3>5. QED
      BY <1>1, <3>3, <3>4
  <2>4. QED
    BY <1>1, <2>2, <2>3
<1>4. Copied(ToCopy) = [k \in 0 .. count - 1 |-> Copied(ToCopy)[k]]
  BY DEF Copied
<1>5. QED
  BY <1>3, <1>4

-----------------------------------------------------------------------------
(***************************************************************************)
(* The invariant.                                                          *)
(***************************************************************************)

\* A handle starts, and is opened, at the start of its file.
LEMMA FileInvInit == Init => FileInv
  BY FileAssumption
     DEF Init, FileInv, HandleOK, Placed, Partial

LEMMA FileInvOpen == ASSUME FileInv, OpenInode PROVE FileInv'
<1>1. 0 = 0 * BlockSize + 0
  BY FileAssumption
<1>2. QED
  BY <1>1, FileAssumption
     DEF FileInv, OpenInode, HandleOK, Placed, Partial

\* The clipping of count.
LEMMA FileInvRead == ASSUME NoWrap, FileInv, ReadCall PROVE FileInv'
<1>1. PICK n \in Counts : /\ asked' = n
                          /\ count' = Clipped(n)
                          /\ bytes_left' = Clipped(n)
                          /\ buf' = Fresh(Clipped(n))
  BY DEF ReadCall
<1>2. /\ pc = "idle" /\ pc' = "copy" /\ start' = pos
      /\ UNCHANGED <<size, pos, block_index, curr_block_pos, loaded>>
  BY DEF ReadCall, handle
<1>3. size \in FileSizes /\ size \in Nat /\ pos \in Nat /\ pos <= size
  BY <1>2 DEF FileInv, HandleOK, Placed
<1>4. n \in Nat /\ n < SizeMod /\ SizeMod \in Nat /\ size < SizeMod
      /\ size + n < SizeMod
  BY <1>3, FileAssumption DEF NoWrap
<1>5. Clipped(n) = IF n <= size - pos THEN n ELSE size - pos
  BY <1>3, <1>4 DEF Clipped, SizeT
<1>6. Clipped(n) \in Nat
  BY <1>3, <1>4, <1>5
<1>7. HandleOK' /\ Placed'
  BY <1>1, <1>2, <1>4 DEF FileInv, HandleOK, Placed
<1>8. buf' = [k \in 0 .. count' - 1 |-> buf'[k]]
  BY <1>1 DEF Fresh
<1>9. \A k \in 0 .. count' - bytes_left' - 1 : buf'[k] = start' + k
  BY <1>1, <1>6
<1>10. Partial'
  BY <1>1, <1>2, <1>3, <1>5, <1>6, <1>8, <1>9 DEF Partial
<1>11. QED
  BY <1>7, <1>10 DEF FileInv

\* One iteration of the loop of ext2_read.
LEMMA FileInvCopy == ASSUME NoWrap, FileInv, CopyStep PROVE FileInv'
<1>1. pc = "copy" /\ bytes_left > 0
  BY DEF CopyStep
<1>2. /\ ToCopy \in 1 .. bytes_left
      /\ curr_block_pos + ToCopy <= BlockSize
      /\ NewBlock <=> curr_block_pos + ToCopy = BlockSize
      /\ SizeT(pos + ToCopy) = pos + ToCopy
      /\ SizeT(curr_block_pos + ToCopy) = curr_block_pos + ToCopy
      /\ pos + ToCopy <= size
  BY <1>1, Iteration
<1>3. /\ Copied(ToCopy) = [k \in 0 .. count - 1 |-> Copied(ToCopy)[k]]
      /\ \A k \in 0 .. count - bytes_left + ToCopy - 1 :
           Copied(ToCopy)[k] = start + k
  BY <1>1, CopiedInOrder
<1>4. /\ buf' = Copied(ToCopy)
      /\ pos' = pos + ToCopy
      /\ bytes_left' = bytes_left - ToCopy
      /\ UNCHANGED <<size, asked, start, count>>
  BY <1>2 DEF CopyStep
<1>5. /\ pos \in Nat /\ curr_block_pos \in Nat /\ block_index \in Nat
      /\ loaded \in Nat /\ size \in Nat /\ start \in Nat /\ asked \in Nat
      /\ size < SizeMod
      /\ size \in FileSizes
      /\ loaded = block_index
      /\ curr_block_pos < BlockSize
      /\ block_index < DirectBlocks
      /\ pos = block_index * BlockSize + curr_block_pos
  BY <1>1 DEF FileInv, HandleOK, Placed
<1>6. /\ asked \in Counts
      /\ count \in Nat /\ bytes_left \in Nat
      /\ bytes_left <= count
      /\ start <= size
      /\ count = IF asked <= size - start THEN asked ELSE size - start
      /\ pos = start + (count - bytes_left)
  BY <1>1 DEF FileInv, Partial
<1>7. block_index * BlockSize \in Nat
  BY <1>5, BlockStart
<1>8. \/ /\ NewBlock
         /\ curr_block_pos' = 0 /\ block_index' = block_index + 1
         /\ \/ /\ block_index + 1 < DirectBlocks
               /\ loaded' = block_index + 1 /\ pc' = "copy"
            \/ /\ block_index + 1 >= DirectBlocks
               /\ loaded' = loaded /\ pc' = "panic"
      \/ /\ ~ NewBlock
         /\ curr_block_pos' = curr_block_pos + ToCopy
         /\ UNCHANGED <<pc, block_index, loaded>>
  BY <1>2 DEF CopyStep, Advance
<1>9. HandleOK'
  BY <1>1, <1>2, <1>4, <1>5, <1>8 DEF HandleOK
<1>10. Placed'
  <2>1. CASE NewBlock
    <3>1. curr_block_pos' = 0 /\ block_index' = block_index + 1
      BY <1>8, <2>1
    <3>2. pos' = block_index * BlockSize + BlockSize
      BY <1>2, <1>4, <1>5, <1>7, <2>1, FileAssumption
    <3>3. pos' = block_index' * BlockSize + curr_block_pos'
      BY <1>5, <1>7, <3>1, <3>2, NextBlock, FileAssumption
    <3>4. QED
      BY <1>4, <1>5, <1>8, <2>1, <3>1, <3>3, FileAssumption DEF Placed
  <2>2. CASE ~ NewBlock
    <3>1. pos' = block_index * BlockSize + (curr_block_pos + ToCopy)
      BY <1>2, <1>4, <1>5, <1>7
    <3>2. /\ curr_block_pos' = curr_block_pos + ToCopy
          /\ curr_block_pos + ToCopy < BlockSize
          /\ UNCHANGED <<pc, block_index, loaded, size>>
      BY <1>2, <1>4, <1>5, <1>8, <2>2, FileAssumption
    <3>3. QED
      BY <1>5, <3>1, <3>2 DEF Placed
  <2>3. QED
    BY <2>1, <2>2
<1>11. Partial'
  <2>1. buf' = [k \in 0 .. count' - 1 |-> buf'[k]]
    BY <1>3, <1>4
  <2>2. \A k \in 0 .. count' - bytes_left' - 1 : buf'[k] = start' + k
    <3>1. count' - bytes_left' - 1 = count - bytes_left + ToCopy - 1
      BY <1>2, <1>4, <1>6
    <3>2. QED
      BY <1>3, <1>4, <3>1
  <2>3. /\ bytes_left' \in Nat /\ bytes_left' <= count'
        /\ pos' = start' + (count' - bytes_left')
    BY <1>2, <1>4, <1>5, <1>6
  <2>4. QED
    BY <1>4, <1>6, <2>1, <2>2, <2>3 DEF Partial
<1>12. QED
  BY <1>9, <1>10, <1>11 DEF FileInv

\* Every step preserves the invariant.
LEMMA FileInvNext == ASSUME NoWrap, FileInv, [Next]_vars PROVE FileInv'
<1>1. CASE OpenInode
  BY <1>1, FileInvOpen
<1>2. CASE Close
  BY <1>2 DEF Close, handle, FileInv, HandleOK, Placed, Partial
<1>3. CASE ReadCall
  BY <1>3, FileInvRead
<1>4. CASE SeekPanics
  BY <1>4, FileAssumption
     DEF SeekPanics, handle, FileInv, HandleOK, Placed, Partial
<1>5. CASE CopyStep
  BY <1>5, FileInvCopy
<1>6. CASE Return
  BY <1>6 DEF Return, handle, call, FileInv, HandleOK, Placed, Partial
<1>7. CASE UNCHANGED vars
  BY <1>7 DEF vars, FileInv, HandleOK, Placed, Partial
<1>8. QED
  BY <1>1, <1>2, <1>3, <1>4, <1>5, <1>6, <1>7 DEF Next, Halted

LEMMA FileInvariant == ASSUME NoWrap PROVE Spec => []FileInv
<1>1. FileInv /\ [Next]_vars => FileInv'
  BY FileInvNext
<1>2. QED
  BY FileInvInit, <1>1, PTL DEF Spec

-----------------------------------------------------------------------------
(***************************************************************************)
(* Theorems.                                                               *)
(***************************************************************************)

\* The offset, the block index, the offset in the block and the block in the
\* buffer of a handle agree: ext2_read moves all of them together.
THEOREM HandleConsistent == ASSUME NoWrap PROVE Spec => []PositionsAgree
<1>1. FileInv => PositionsAgree
  BY DEF FileInv, Placed, PositionsAgree
<1>2. QED
  BY <1>1, FileInvariant, PTL

\* ext2_read never moves a handle past the end of its file.
THEOREM StaysInFile == ASSUME NoWrap PROVE Spec => []ReadsStayInFile
<1>1. FileInv => ReadsStayInFile
  BY DEF FileInv, HandleOK, ReadsStayInFile
<1>2. QED
  BY <1>1, FileInvariant, PTL

\* The loop of ext2_read stops at an indirect block only.
LEMMA PanicStep ==
  ASSUME NoWrap, FileInv, FileInv', CopyStep, pc' = "panic"
  PROVE  size >= DirectBlocks * BlockSize
<1>1. pc = "copy" /\ bytes_left > 0
  BY DEF CopyStep
<1>2. /\ NewBlock <=> curr_block_pos + ToCopy = BlockSize
      /\ pos + ToCopy <= size
      /\ ToCopy \in 1 .. bytes_left
  BY <1>1, Iteration
<1>3. NewBlock /\ block_index + 1 >= DirectBlocks
  BY <1>1 DEF CopyStep, Advance
<1>4. /\ pos \in Nat /\ curr_block_pos \in Nat /\ block_index \in Nat
      /\ size \in Nat /\ bytes_left \in Nat
      /\ block_index < DirectBlocks
      /\ pos = block_index * BlockSize + curr_block_pos
  BY <1>1 DEF FileInv, HandleOK, Placed, Partial
<1>5. block_index + 1 = DirectBlocks
  BY <1>3, <1>4, FileAssumption
<1>6. block_index * BlockSize + BlockSize <= size
  BY <1>2, <1>3, <1>4, BlockStart, FileAssumption
<1>7. DirectBlocks * BlockSize = block_index * BlockSize + BlockSize
  BY <1>4, <1>5, NextBlock
<1>8. QED
  BY <1>6, <1>7

\* A file of fewer than DirectBlocks blocks is never refused by ext2_read.
THEOREM SmallFilesNeverPanic == ASSUME NoWrap PROVE Spec => SmallFilesReadable
<1>1. ASSUME FileInv, FileInv', [Next]_vars, pc = "copy", pc' = "panic"
      PROVE  size >= DirectBlocks * BlockSize
  <2>1. CopyStep
    BY <1>1 DEF Next, vars, OpenInode, Close, ReadCall, SeekPanics, Return,
                Halted
  <2>2. QED
    BY <1>1, <2>1, PanicStep
<1>2. FileInv /\ FileInv' /\ [Next]_vars
        => [pc = "copy" /\ pc' = "panic"
              => size >= DirectBlocks * BlockSize]_vars
  BY <1>1
<1>3. QED
  BY <1>2, FileInvariant, PTL DEF Spec, SmallFilesReadable

\* One step of ext2_read is a step of the stream, or none.
LEMMA StreamStep ==
  ASSUME NoWrap, FileInv, FileInv', [Next]_vars
  PROVE  [Stream!Next]_(Stream!streamVars)
<1> USE DEF NoBytes, Stream!NoBytes
<1>1. CASE OpenInode
  <2>1. Stream!Open
    BY <1>1 DEF OpenInode, Stream!Open
  <2>2. QED
    BY <2>1 DEF Stream!Next
<1>2. CASE Close
  <2>1. Stream!Close
    BY <1>2 DEF Close, handle, Stream!Close
  <2>2. QED
    BY <2>1 DEF Stream!Next
<1>3. CASE ReadCall
  <2>1. Stream!Call
    BY <1>3 DEF ReadCall, handle, Stream!Call
  <2>2. QED
    BY <2>1 DEF Stream!Next
<1>4. CASE SeekPanics
  <2>1. Stream!SeekRefused
    BY <1>4 DEF SeekPanics, handle, Stream!SeekRefused
  <2>2. QED
    BY <2>1 DEF Stream!Next
<1>5. CASE CopyStep
  <2>1. pc = "copy" /\ UNCHANGED <<size, asked, start>>
    BY <1>5 DEF CopyStep
  <2>2. pc' \in {"copy", "panic"}
    BY <1>5 DEF CopyStep, Advance
  <2>3. CASE pc' = "copy"
    BY <2>1, <2>3 DEF Stream!streamVars
  <2>4. CASE pc' = "panic"
    <3>1. size >= DirectBlocks * BlockSize
      BY <1>5, <2>4, PanicStep
    <3>2. Stream!TooLarge
      BY <2>1, <2>4, <3>1 DEF Stream!TooLarge
    <3>3. QED
      BY <3>2 DEF Stream!Next
  <2>5. QED
    BY <2>2, <2>3, <2>4
<1>6. CASE Return
  <2>1. /\ pc = "copy" /\ pc' = "idle" /\ bytes_left = 0
        /\ UNCHANGED <<size, pos, asked, start, count, buf>>
    BY <1>6 DEF Return, handle, call
  <2>2. /\ count \in Nat /\ start \in Nat
        /\ count = IF asked <= size - start THEN asked ELSE size - start
        /\ pos = start + count
        /\ buf = [k \in 0 .. count - 1 |-> buf[k]]
        /\ \A k \in 0 .. count - 1 : buf[k] = start + k
    BY <2>1 DEF FileInv, Partial, HandleOK
  <2>3. buf = [k \in 0 .. count - 1 |-> start + k]
    BY <2>2
  <2>4. Stream!Available(asked) = count
    BY <2>1, <2>2 DEF Stream!Available
  <2>5. Stream!Answer
    BY <2>1, <2>2, <2>3, <2>4 DEF Stream!Answer
  <2>6. QED
    BY <2>5 DEF Stream!Next
<1>7. CASE UNCHANGED vars
  BY <1>7 DEF vars, Stream!streamVars
<1>8. QED
  BY <1>1, <1>2, <1>3, <1>4, <1>5, <1>6, <1>7 DEF Next, Halted

\* ext2_read implements the stream: the reader of a handle gets the bytes of
\* the file in order, each once, clipped to the end of the file.
THEOREM FileIsStream == ASSUME NoWrap PROVE Spec => RefinesStream
<1>1. Init => Stream!Init
  BY DEF Init, Stream!Init, NoBytes, Stream!NoBytes
<1>2. FileInv /\ FileInv' /\ [Next]_vars => [Stream!Next]_(Stream!streamVars)
  BY StreamStep
<1>3. QED
  BY <1>1, <1>2, FileInvariant, PTL DEF Spec, RefinesStream, Stream!Spec

-----------------------------------------------------------------------------
(***************************************************************************)
(* Where inodes are found.                                                 *)
(***************************************************************************)

\* What the driver has calculated and read, and what the inode it read last
\* depends on.
LayoutInv ==
  /\ disk \in Disks
  /\ stage \in {"bgdt", "ready"} =>
       /\ disk.ext2
       /\ block_size = BytesPerBlock(disk)
       /\ num_groups = disk.total_blocks \div disk.blocks_per_group
  /\ stage = "ready" =>
       /\ bgdt.at = (Word(BgdtBlock * block_size) \div SECTOR_SIZE) * SECTOR_SIZE
       /\ bgdt.bytes = ToByte(BgdtSectors) * SECTOR_SIZE
  /\ inode_num # 0 =>
       /\ stage = "ready"
       /\ inode_num \in Inodes(disk)
       /\ inode = InodeSource(inode_num)

LEMMA LayoutStep == LayoutInv /\ [LayoutNext]_layoutVars => LayoutInv'
<1> SUFFICES ASSUME LayoutInv, [LayoutNext]_layoutVars PROVE LayoutInv'
  OBVIOUS
<1>1. CASE LoadSuperblock
  BY <1>1 DEF LoadSuperblock, LayoutInv, BytesPerBlock
<1>2. CASE LoadBgdt
  <2>1. /\ stage = "bgdt" /\ stage' = "ready"
        /\ bgdt'.at = (Word(BgdtBlock * block_size) \div SECTOR_SIZE) * SECTOR_SIZE
        /\ bgdt'.bytes = ToByte(BgdtSectors) * SECTOR_SIZE
        /\ UNCHANGED <<disk, block_size, num_groups, inode_num, inode>>
    BY <1>2 DEF LoadBgdt
  <2>2. BgdtBlock' = BgdtBlock /\ BgdtSectors' = BgdtSectors
    BY <2>1 DEF BgdtBlock, BgdtSectors
  <2>3. QED
    BY <2>1, <2>2 DEF LayoutInv
<1>3. CASE ReadInode
  <2>1. UNCHANGED <<disk, stage, block_size, num_groups, bgdt>> /\ stage = "ready"
    BY <1>3 DEF ReadInode
  <2>2. inode_num' \in Inodes(disk) /\ inode' = InodeSource(inode_num')
    BY <1>3 DEF ReadInode
  <2>3. BgdtBlock' = BgdtBlock /\ BgdtSectors' = BgdtSectors
    BY <2>1 DEF BgdtBlock, BgdtSectors
  <2>4. InodeSource(inode_num)' = InodeSource(inode_num')
    BY <2>1, Zenon DEF InodeSource, TableAddr, Descriptor
  <2>5. QED
    BY <2>1, <2>2, <2>3, <2>4 DEF LayoutInv
<1>4. CASE UNCHANGED layoutVars
  BY <1>4
  DEF layoutVars, LayoutInv, BgdtBlock, BgdtSectors, InodeSource, TableAddr, Descriptor
<1>5. QED
  BY <1>1, <1>2, <1>3, <1>4 DEF LayoutNext, Stopped

\* Dividing by a positive number.
LEMMA Division ==
  ASSUME NEW a \in Nat, NEW b \in Nat \ {0}
  PROVE  /\ a \div b \in Nat /\ a % b \in Nat
         /\ a = (a \div b) * b + (a % b)
  OBVIOUS

LEMMA Quotient ==
  ASSUME NEW a \in Nat, NEW b \in Nat \ {0}
  PROVE  \E q \in Nat, r \in Nat : r = a % b /\ a = q * b + r
  BY Division, Zenon

\* Rounding up is not rounding down to less.
LEMMA RoundedUp ==
  ASSUME NEW a \in Nat, NEW b \in Nat \ {0}
  PROVE  /\ a \div b <= (a - 0 + b - 1) \div b
         /\ (a - 0 + b - 1) \div b \in Int
<1>1. a - 0 + b - 1 \in Int
  OBVIOUS
<1> QED
  BY <1>1

\* Words: what does not wrap, what wraps once, and whole sectors.
LEMMA WordModFacts ==
  WordMod \in Nat /\ WordMod > 131072
  BY WordAssumption DEF SECTOR_SIZE

LEMMA WordRange ==
  ASSUME NEW n \in Nat
  PROVE  Word(n) \in Nat /\ Word(n) \in 0 .. WordMod - 1
  BY WordModFacts DEF Word

LEMMA WordSame ==
  ASSUME NEW n \in Nat, n < WordMod
  PROVE  Word(n) = n
  BY WordModFacts DEF Word

LEMMA WordOver ==
  ASSUME NEW n \in Nat, WordMod <= n, n < 2 * WordMod
  PROVE  Word(n) = n - WordMod
<1> DEFINE d == n - WordMod
<1>1. d \in 0 .. WordMod - 1 /\ d \in Int /\ n = d + WordMod
  BY WordModFacts
<1> HIDE DEF d
<1>2. (d + WordMod) % WordMod = d
  BY <1>1, WordModFacts
<1> QED
  BY <1>1, <1>2 DEF d, Word

LEMMA SectorFacts ==
  ASSUME NEW w \in Nat
  PROVE  /\ (w \div 512) * 512 \in Nat /\ (w \div 512) * 512 <= w
         /\ \A m \in Nat : w = 1024 * m => (w \div 512) * 512 = w
  OBVIOUS

\* The sector of a word ends within the first WordMod bytes.
LEMMA SectorInRange ==
  ASSUME NEW w \in 0 .. WordMod - 1
  PROVE  (w \div 512) * 512 + 512 <= WordMod
<1>1. WordMod \in Nat /\ WordMod % 512 = 0
  BY WordAssumption DEF SECTOR_SIZE
<1>2. PICK m \in Int : WordMod = 512 * m
  BY <1>1
<1> QED
  BY <1>1, <1>2

\* A remainder of a multiple of 128 that is below 512 is below it by 128.
LEMMA RemainderBelow ==
  ASSUME NEW i \in Nat, NEW k \in Nat, NEW q \in Nat, NEW r \in Nat,
         i * 128 = q * (k * 1024) + r, r < 512
  PROVE  r + 128 <= 512
<1>1. q * k \in Nat /\ q * (k * 1024) = 1024 * (q * k)
  OBVIOUS
<1>2. r = 128 * (i - 8 * (q * k))
  BY <1>1
<1>3. QED
  BY <1>1, <1>2

LEMMA Remainder ==
  ASSUME NEW i \in Nat, NEW k \in Nat, NEW a \in Nat, NEW b \in Nat \ {0},
         a = i * 128, b = k * 1024, a % b < 512
  PROVE  (a % b) + 128 <= 512
<1>1. PICK q \in Nat, r \in Nat : r = a % b /\ a = q * b + r
  BY Quotient, SMTT(30)
<1>2. i * 128 = q * (k * 1024) + r /\ r < 512
  BY <1>1
<1>3. r + 128 <= 512
  BY <1>2, RemainderBelow
<1>4. QED
  BY <1>1, <1>3

\* What read_inode calculates with.
LEMMA LayoutFacts ==
  ASSUME LayoutInv, inode_num # 0
  PROVE  /\ disk \in Disk /\ disk \in Disks /\ disk.ext2
         /\ 2 ^ disk.log2_block_size \in Nat \ {0, 3}
         /\ block_size = 1024 * 2 ^ disk.log2_block_size
         /\ block_size = BytesPerBlock(disk)
         /\ block_size \in Nat /\ block_size < WordMod
         /\ disk.inodes_per_group \in Nat \ {0}
         /\ disk.blocks_per_group \in Nat \ {0}
         /\ disk.total_blocks \in Nat /\ disk.first_table \in Nat
         /\ num_groups = disk.total_blocks \div disk.blocks_per_group
         /\ num_groups \in Nat
         /\ (inode_num - 1) \div disk.inodes_per_group \in Nat
         /\ (inode_num - 1) % disk.inodes_per_group \in Nat
         /\ bgdt.at = (Word(BgdtBlock * block_size) \div SECTOR_SIZE) * SECTOR_SIZE
         /\ bgdt.bytes = ToByte(BgdtSectors) * SECTOR_SIZE
         /\ inode = InodeSource(inode_num)
<1>1. /\ disk \in Disk /\ disk \in Disks /\ disk.ext2
      /\ 2 ^ disk.log2_block_size \in Nat \ {0, 3}
      /\ 1024 * 2 ^ disk.log2_block_size < WordMod
      /\ disk.inodes_per_group \in Nat \ {0} /\ disk.blocks_per_group \in Nat \ {0}
      /\ disk.total_blocks \in Nat /\ disk.first_table \in Nat
  BY DiskAssumption DEF LayoutInv, Disk
<1>2. /\ block_size = BytesPerBlock(disk)
      /\ num_groups = disk.total_blocks \div disk.blocks_per_group
      /\ bgdt.at = (Word(BgdtBlock * block_size) \div SECTOR_SIZE) * SECTOR_SIZE
      /\ bgdt.bytes = ToByte(BgdtSectors) * SECTOR_SIZE
      /\ inode_num \in Inodes(disk) /\ inode = InodeSource(inode_num)
  BY DEF LayoutInv
<1>3. block_size = 1024 * 2 ^ disk.log2_block_size
  BY <1>2 DEF BytesPerBlock
<1>4. block_size \in Nat /\ block_size < WordMod
  BY <1>1, <1>3
<1>5. inode_num - 1 \in Nat
  BY <1>2 DEF Inodes
<1>6. /\ (inode_num - 1) \div disk.inodes_per_group \in Nat
      /\ (inode_num - 1) % disk.inodes_per_group \in Nat
  BY <1>1, <1>5, Division, Zenon
<1>7. num_groups \in Nat
  BY <1>1, <1>2, Division, Zenon
<1> QED
  BY <1>1, <1>2, <1>3, <1>4, <1>6, <1>7

\* The descriptor of group g, if it is in the table at all, is that of group h, shift
\* groups further on.
LEMMA TableFound ==
  ASSUME LayoutInv, inode_num # 0, NEW g \in Nat, NEW shift \in Nat,
         bgdt.at = DescriptorAt(disk, 0) + shift * 32,
         DescriptorAt(disk, 0) \in Nat,
         \A h \in Nat : DescriptorAt(disk, h) = DescriptorAt(disk, 0) + h * 32
  PROVE  TableAddr(Descriptor(g)) =
           IF g < num_groups /\ (g + 1) * 32 <= bgdt.bytes
                             /\ g + shift < GroupCount(disk)
           THEN InodeTable(disk, g + shift) ELSE Garbage
<1> DEFINE base == DescriptorAt(disk, 0)
           n == GroupCount(disk)
           f == g + shift
           read == g < num_groups /\ (g + 1) * 32 <= bgdt.bytes
<1>1. Descriptor(g) = IF read THEN base + f * 32 ELSE Garbage
  BY DEF Descriptor, BGD_SIZE
<1>2. n \in Int
  BY LayoutFacts DEF GroupCount, FirstDataBlock
<1>3. DescriptorAt(disk, f) = base + f * 32 /\ base + f * 32 # Garbage /\ f \in Nat
  BY DEF Garbage
<1> HIDE DEF base, n, f, read
<1>4. (base + f * 32 - base) \div 32 = f
  <2>1. base \in Nat
    BY DEF base
  <2> QED
    BY <1>3, <2>1
<1>5. f \in 0 .. n - 1 <=> f < n
  BY <1>2, <1>3
<1>6. CASE read
  <2>1. Descriptor(g) = base + f * 32
    BY <1>1, <1>6
  <2>2. TableAddr(base + f * 32) = IF f < n THEN InodeTable(disk, f) ELSE Garbage
    BY <1>3, <1>4, <1>5 DEF TableAddr, BGD_SIZE, base, n
  <2> QED
    BY <1>6, <2>1, <2>2 DEF read, f, n
<1>7. CASE ~ read
  <2>1. Descriptor(g) = Garbage
    BY <1>1, <1>7
  <2>2. TableAddr(Garbage) = Garbage
    BY DEF TableAddr
  <2> QED
    BY <1>7, <2>1, <2>2 DEF read
<1> QED
  BY <1>6, <1>7

\* The bytes read_inode copies, given the block it takes for the inode table.
CopiedAt(t, index) ==
  LET offset == Word(index * 128) % block_size
      block  == Word(t + Word(index * 128) \div block_size)
  IN  IF offset + 128 > 512 THEN Garbage
      ELSE (Word(block * block_size) \div 512) * 512 + offset

LEMMA SourceFacts ==
  ASSUME LayoutInv, inode_num # 0, NEW t,
         t = TableAddr(Descriptor((inode_num - 1) \div disk.inodes_per_group))
  PROVE  InodeSource(inode_num) =
           IF t = Garbage THEN Garbage
           ELSE CopiedAt(t, (inode_num - 1) % disk.inodes_per_group)
<1>1. (INODE_SIZE \div SECTOR_SIZE + 1) * SECTOR_SIZE = 512
  BY DEF INODE_SIZE, SECTOR_SIZE
<1>2. INODE_SIZE = 128 /\ SECTOR_SIZE = 512
  BY DEF INODE_SIZE, SECTOR_SIZE
<1> QED
  BY <1>1, <1>2 DEF InodeSource, CopiedAt, ZeroBased

LEMMA BlockSizeFacts ==
  ASSUME LayoutInv, inode_num # 0
  PROVE  /\ block_size \in Nat \ {0}
         /\ \E p \in Nat \ {0} : block_size = 1024 * p
<1>1. /\ 2 ^ disk.log2_block_size \in Nat \ {0}
      /\ block_size = 1024 * 2 ^ disk.log2_block_size
  BY LayoutFacts
<1> QED
  BY <1>1

\* No inode is copied from behind the first WordMod bytes.
LEMMA CopiedInRange ==
  ASSUME LayoutInv, inode_num # 0, NEW t \in Nat, NEW index \in Nat
  PROVE  CopiedAt(t, index) \in Int /\ CopiedAt(t, index) < WordMod
<1>1. block_size \in Nat \ {0} /\ WordMod \in Nat
  BY BlockSizeFacts, WordModFacts
<1> DEFINE x == Word(index * 128)
<1>2. index * 128 \in Nat
  OBVIOUS
<1>3. x \in Nat
  BY <1>2, WordRange, Zenon
<1> HIDE DEF x
<1> DEFINE o == x % block_size
           y == x \div block_size
<1>4. o \in Nat /\ y \in Nat
  BY <1>1, <1>3, Division, Zenon
<1> HIDE DEF o, y
<1> DEFINE z == Word(t + y)
<1>5. z \in Nat
  <2>1. t + y \in Nat
    BY <1>4
  <2> QED
    BY <2>1, WordRange, Zenon
<1> HIDE DEF z
<1> DEFINE w == Word(z * block_size)
<1>6. z * block_size \in Nat
  BY <1>1, <1>5
<1>7. w \in 0 .. WordMod - 1 /\ w \in Nat
  BY <1>6, WordRange, Zenon
<1> HIDE DEF w
<1>8. (w \div 512) * 512 + 512 <= WordMod /\ (w \div 512) * 512 \in Nat
  BY <1>7, SectorInRange, SectorFacts
<1>9. CopiedAt(t, index) = IF o + 128 > 512 THEN Garbage ELSE (w \div 512) * 512 + o
  BY DEF CopiedAt, o, y, z, w, x
<1> QED
  BY <1>1, <1>4, <1>8, <1>9 DEF Garbage

\* Where the table is within the first WordMod bytes, nothing wraps but what is added
\* to it: u blocks for a table u blocks too far.
LEMMA CopiedFrom ==
  ASSUME LayoutInv, inode_num # 0, NEW t \in Nat, NEW u \in Nat, NEW index \in Nat,
         t * block_size + index * 128 < WordMod, u * block_size < WordMod
  PROVE  LET r == (index * 128) % block_size
         IN  /\ r \in Nat
             /\ r + 128 > 512 => CopiedAt(t + u, index) = Garbage
             /\ r + 128 <= 512 =>
                  (CopiedAt(t + u, index) = t * block_size + index * 128 <=> u = 0)
<1>0. PICK p \in Nat \ {0} : block_size = 1024 * p
  BY BlockSizeFacts
<1>1. /\ block_size \in Nat \ {0} /\ WordMod \in Nat /\ WordMod > 131072
      /\ p \in Nat /\ block_size = 1024 * p
  BY <1>0, WordModFacts
<1>b. block_size \in Nat \ {0}
  BY <1>1
<1> DEFINE a == index * 128
<1>2. a \in Nat /\ t * block_size \in Nat /\ u * block_size \in Nat
  BY <1>1
<1>3. a < WordMod
  BY <1>1, <1>2
<1>4. Word(a) = a
  BY <1>2, <1>3, WordSame, Zenon
<1> HIDE DEF a
<1> DEFINE q == a \div block_size
           r == a % block_size
<1>5. q \in Nat /\ r \in Nat /\ a = q * block_size + r
  <2>1. a \in Nat
    BY <1>2
  <2> QED
    BY <1>b, <2>1, Division, Zenon
<1> HIDE DEF q, r
<1> DEFINE y == t + q
<1>6. y \in Nat /\ y * block_size = t * block_size + q * block_size
  BY <1>1, <1>5
<1>7. q * block_size \in Nat /\ y * block_size \in Nat
  BY <1>1, <1>5, <1>6
<1>8. y * block_size + r = t * block_size + a
  BY <1>2, <1>5, <1>6, <1>7
<1>9. y * block_size < WordMod
  BY <1>1, <1>2, <1>5, <1>7, <1>8 DEF a
<1> HIDE DEF y
<1>10. Word(y + u) = y + u
  <2>1. ASSUME NEW b \in Nat, NEW k \in Nat, b = 1024 * k, k # 0
        PROVE  \A x \in Nat : 1024 * x <= x * b
    BY <2>1
  <2>2. p # 0
    BY <1>0
  <2>3. 1024 * y <= y * block_size /\ 1024 * u <= u * block_size
    BY <1>1, <1>6, <2>1, <2>2
  <2>4. y + u \in Nat /\ y + u < WordMod
    BY <1>1, <1>2, <1>6, <1>7, <1>9, <2>3
  <2> QED
    BY <2>4, WordSame, Zenon
<1> DEFINE w == Word((y + u) * block_size)
<1>11. (y + u) * block_size = y * block_size + u * block_size
  BY <1>1, <1>6
<1>12. CopiedAt(t + u, index) = IF r + 128 > 512 THEN Garbage ELSE (w \div 512) * 512 + r
  <2>1. t + u + q = y + u
    BY <1>5, <1>6 DEF y
  <2> QED
    BY <1>4, <1>10, <2>1 DEF CopiedAt, a, q, r
<1>13. u = 0 => (w \div 512) * 512 = y * block_size
  <2>1. SUFFICES ASSUME u = 0 PROVE (w \div 512) * 512 = y * block_size
    OBVIOUS
  <2>2. w = y * block_size
    <3>1. (y + u) * block_size = y * block_size
      BY <1>6, <2>1
    <3> QED
      BY <1>7, <1>9, <3>1, WordSame, Zenon
  <2> HIDE DEF w
  <2>3. w = 1024 * (y * p) /\ y * p \in Nat /\ w \in Nat
    BY <1>1, <1>6, <1>7, <2>2
  <2> QED
    BY <2>2, <2>3, SectorFacts
<1>14. u # 0 => (w \div 512) * 512 # y * block_size
  <2>1. SUFFICES ASSUME u # 0 PROVE (w \div 512) * 512 # y * block_size
    OBVIOUS
  <2> DEFINE Y == y * block_size
             U == u * block_size
  <2>2. u * p \in Nat /\ u * p # 0 /\ U = 1024 * (u * p)
    BY <1>0, <1>1, <2>1
  <2>3. U \in Nat /\ U >= 1024 /\ U < WordMod /\ Y \in Nat /\ Y < WordMod
    BY <1>2, <1>7, <1>9, <2>2
  <2>4. w = Word(Y + U)
    BY <1>11
  <2> HIDE DEF w, Y, U
  <2>5. CASE Y + U < WordMod
    <3>0. Y + U \in Nat
      BY <2>3
    <3>1. w = Y + U /\ w \in Nat
      BY <2>4, <2>5, <3>0, WordSame, Zenon
    <3>2. (w \div 512) * 512 + 512 > w
      BY <3>1
    <3> QED
      BY <2>3, <3>1, <3>2 DEF Y
  <2>6. CASE ~ (Y + U < WordMod)
    <3>1. Y + U \in Nat /\ WordMod <= Y + U /\ Y + U < 2 * WordMod
      BY <1>1, <2>3, <2>6
    <3>2. w = (Y + U) - WordMod /\ w \in Nat
      <4>1. w = (Y + U) - WordMod
        BY <2>4, <3>1, WordOver, Zenon
      <4> QED
        BY <1>1, <2>3, <3>1, <4>1
    <3>3. (w \div 512) * 512 <= w
      BY <3>2, SectorFacts
    <3> QED
      BY <1>1, <2>3, <3>2, <3>3 DEF Y
  <2> QED
    BY <2>5, <2>6
<1> HIDE DEF w
<1>15. ASSUME r + 128 <= 512
       PROVE  CopiedAt(t + u, index) = t * block_size + a <=> u = 0
  <2>1. (w \div 512) * 512 \in Int
    <3>1. w \in Nat
      <4>1. (y + u) * block_size \in Nat
        BY <1>1, <1>6
      <4> QED
        BY <4>1, WordRange, Zenon DEF w
    <3> QED
      BY <3>1, SectorFacts
  <2>2. CopiedAt(t + u, index) = (w \div 512) * 512 + r
    BY <1>5, <1>12, <1>15
  <2> QED
    BY <1>5, <1>7, <1>8, <1>13, <1>14, <2>1, <2>2
<1>16. r + 128 > 512 => CopiedAt(t + u, index) = Garbage
  BY <1>12
<1> QED
  BY <1>5, <1>15, <1>16 DEF a, r

\* With blocks of 4KiB or more the descriptor table is read from where it is.
LEMMA LargeBlocks ==
  ASSUME LayoutInv, inode_num # 0, block_size >= 4096
  PROVE  /\ bgdt.at = DescriptorAt(disk, 0) + 0 * 32
         /\ DescriptorAt(disk, 0) \in Nat
         /\ \A h \in Nat : DescriptorAt(disk, h) = DescriptorAt(disk, 0) + h * 32
         /\ num_groups <= GroupCount(disk) /\ GroupCount(disk) \in Int
<1> DEFINE p == 2 ^ disk.log2_block_size
<1>1. /\ block_size = 1024 * p /\ p \in Nat /\ block_size < WordMod
      /\ BytesPerBlock(disk) = block_size
      /\ bgdt.at = (Word(BgdtBlock * block_size) \div SECTOR_SIZE) * SECTOR_SIZE
      /\ disk.blocks_per_group \in Nat \ {0} /\ disk.total_blocks \in Nat
      /\ num_groups = disk.total_blocks \div disk.blocks_per_group
  BY LayoutFacts
<1> HIDE DEF p
<1>2. BgdtBlock = 1
  BY <1>1 DEF BgdtBlock, SUPERBLOCK_OFFSET, SUPERBLOCK_LENGTH
<1>3. Word(1 * block_size) = block_size
  BY <1>1, WordSame
<1>4. (block_size \div 512) * 512 = block_size
  BY <1>1
<1>5. FirstDataBlock(disk) = 0
  BY <1>1 DEF FirstDataBlock
<1>6. \A h \in Nat : DescriptorAt(disk, h) = block_size + h * 32
  BY <1>1, <1>5 DEF DescriptorAt, BGD_SIZE
<1>7. GroupCount(disk)
        = (disk.total_blocks - 0 + disk.blocks_per_group - 1) \div disk.blocks_per_group
  BY <1>5 DEF GroupCount
<1>8. num_groups <= GroupCount(disk) /\ GroupCount(disk) \in Int
  <2>1. disk.total_blocks \in Nat /\ disk.blocks_per_group \in Nat \ {0}
    BY <1>1
  <2>2. num_groups = disk.total_blocks \div disk.blocks_per_group
    BY <1>1
  <2> DEFINE a == disk.total_blocks
             b == disk.blocks_per_group
  <2>3. GroupCount(disk) = (a - 0 + b - 1) \div b /\ num_groups = a \div b
    BY <1>7, <2>2
  <2> HIDE DEF a, b
  <2>4. /\ a \div b <= (a - 0 + b - 1) \div b
        /\ (a - 0 + b - 1) \div b \in Int
    <3>1. a \in Nat /\ b \in Nat \ {0}
      BY <2>1 DEF a, b
    <3> QED
      BY <3>1, RoundedUp
  <2> QED
    BY <2>3, <2>4
<1> QED
  BY <1>1, <1>2, <1>3, <1>4, <1>6, <1>8 DEF SECTOR_SIZE

\* With smaller ones it is read from a block or 2KiB further on.
LEMMA SmallBlocks ==
  ASSUME LayoutInv, inode_num # 0, ~ (block_size >= 4096)
  PROVE  \E shift \in {32, 64} :
           /\ bgdt.at = DescriptorAt(disk, 0) + shift * 32
           /\ DescriptorAt(disk, 0) \in Nat
           /\ \A h \in Nat : DescriptorAt(disk, h) = DescriptorAt(disk, 0) + h * 32
<1> DEFINE p == 2 ^ disk.log2_block_size
<1>1. /\ block_size = 1024 * p /\ p \in Nat \ {0, 3}
      /\ BytesPerBlock(disk) = block_size
      /\ bgdt.at = (Word(BgdtBlock * block_size) \div SECTOR_SIZE) * SECTOR_SIZE
  BY LayoutFacts
<1> HIDE DEF p
<1>2. p = 1 \/ p = 2
  BY <1>1
<1>3. CASE p = 1
  <2>1. BgdtBlock * block_size = 3072
    BY <1>1, <1>3 DEF BgdtBlock, SUPERBLOCK_OFFSET, SUPERBLOCK_LENGTH
  <2>2. Word(3072) = 3072
    BY WordModFacts, WordSame
  <2>3. bgdt.at = 3072
    BY <1>1, <2>1, <2>2 DEF SECTOR_SIZE
  <2>4. \A h \in Nat : DescriptorAt(disk, h) = 2048 + h * 32
    BY <1>1, <1>3 DEF DescriptorAt, FirstDataBlock, BGD_SIZE
  <2> QED
    BY <2>3, <2>4
<1>4. CASE p = 2
  <2>1. BgdtBlock * block_size = 4096
    BY <1>1, <1>4 DEF BgdtBlock, SUPERBLOCK_OFFSET, SUPERBLOCK_LENGTH
  <2>2. Word(4096) = 4096
    BY WordModFacts, WordSame
  <2>3. bgdt.at = 4096
    BY <1>1, <2>1, <2>2 DEF SECTOR_SIZE
  <2>4. \A h \in Nat : DescriptorAt(disk, h) = 2048 + h * 32
    BY <1>1, <1>4 DEF DescriptorAt, FirstDataBlock, BGD_SIZE
  <2> QED
    BY <2>3, <2>4
<1> QED
  BY <1>2, <1>3, <1>4

\* The inode that read_inode copies is the one it was asked for, if it is findable and
\* only then.
LEMMA SourceIsInode ==
  ASSUME LayoutInv, inode_num # 0
  PROVE  inode = InodeAt(disk, inode_num) <=> Findable(inode_num)
<1> DEFINE ipg   == disk.inodes_per_group
           group == (inode_num - 1) \div ipg
           index == (inode_num - 1) % ipg
           table == InodeTable(disk, group)
           t     == TableAddr(Descriptor(group))
           A     == table * block_size + index * 128
           r     == (index * 128) % block_size
           read  == group < num_groups /\ (group + 1) * 32 <= bgdt.bytes
           big   == block_size >= 4096
           first == r < 512
<1>1. /\ block_size \in Nat \ {0} /\ block_size = BytesPerBlock(disk)
      /\ disk.blocks_per_group \in Nat \ {0} /\ disk.first_table \in Nat
      /\ num_groups = disk.total_blocks \div disk.blocks_per_group
      /\ num_groups \in Nat /\ group \in Nat /\ index \in Nat
      /\ bgdt.bytes = ToByte(BgdtSectors) * SECTOR_SIZE
      /\ inode = InodeSource(inode_num)
  BY LayoutFacts
<1>2. inode = IF t = Garbage THEN Garbage ELSE CopiedAt(t, index)
  BY <1>1, SourceFacts
<1>3. InodeAt(disk, inode_num) = A
  BY <1>1 DEF InodeAt, INODE_SIZE
<1>4. Findable(inode_num) <=>
        big /\ read /\ first /\ A < WordMod
  BY <1>1, <1>3 DEF Findable, BGD_SIZE, INODE_SIZE, SECTOR_SIZE
<1> HIDE DEF group, index
<1>5. /\ table \in Nat
      /\ \A s \in Nat : InodeTable(disk, group + s) = table + s * disk.blocks_per_group
  BY <1>1 DEF InodeTable
<1> HIDE DEF table
<1>6. A \in Nat /\ A # Garbage
  <2>1. table * block_size \in Nat
    BY <1>1, <1>5
  <2> QED
    BY <1>1, <2>1 DEF Garbage
<1>7. \E u \in Nat : /\ t = Garbage \/ t = table + u
                     /\ big => u = 0
                     /\ read /\ big => t # Garbage
                     /\ big /\ t # Garbage => read
                     /\ ~ big => u # 0
                     /\ u * block_size < WordMod
  <2>1. CASE big
    <3>1. /\ bgdt.at = DescriptorAt(disk, 0) + 0 * 32
          /\ DescriptorAt(disk, 0) \in Nat
          /\ \A h \in Nat : DescriptorAt(disk, h) = DescriptorAt(disk, 0) + h * 32
          /\ num_groups <= GroupCount(disk) /\ GroupCount(disk) \in Int
      BY <2>1, LargeBlocks DEF big
    <3>2. t = IF group < num_groups /\ (group + 1) * 32 <= bgdt.bytes
                                    /\ group + 0 < GroupCount(disk)
              THEN InodeTable(disk, group + 0) ELSE Garbage
      <4>1. 0 \in Nat /\ group \in Nat
        BY <1>1
      <4> QED
        BY <3>1, <4>1, TableFound
    <3>3. read => group + 0 < GroupCount(disk)
      BY <1>1, <3>1 DEF read
    <3>4. InodeTable(disk, group + 0) = table
      <4>1. 0 * disk.blocks_per_group = 0
        BY <1>1
      <4>2. InodeTable(disk, group + 0) = table + 0 * disk.blocks_per_group
        BY <1>5
      <4> QED
        BY <1>5, <4>1, <4>2
    <3>5. table # Garbage /\ table + 0 = table
      BY <1>5 DEF Garbage
    <3>6. t = Garbage \/ t = table
      BY <3>2, <3>4
    <3>7. read => t # Garbage
      BY <3>2, <3>3, <3>4, <3>5 DEF read
    <3>8. t # Garbage => read
      BY <3>2 DEF read
    <3>9. 0 * block_size < WordMod /\ 0 \in Nat
      BY <1>1, WordModFacts
    <3> HIDE DEF t, table, read, big
    <3> QED
      BY <2>1, <3>5, <3>6, <3>7, <3>8, <3>9, Zenon
  <2>2. CASE ~ big
    <3>1. PICK s \in {32, 64} :
                 /\ bgdt.at = DescriptorAt(disk, 0) + s * 32
                 /\ DescriptorAt(disk, 0) \in Nat
                 /\ \A h \in Nat : DescriptorAt(disk, h) = DescriptorAt(disk, 0) + h * 32
      BY <2>2, SmallBlocks DEF big
    <3>2. s \in Nat
      OBVIOUS
    <3>3. t = IF group < num_groups /\ (group + 1) * 32 <= bgdt.bytes
                                    /\ group + s < GroupCount(disk)
              THEN InodeTable(disk, group + s) ELSE Garbage
      <4>1. group \in Nat
        BY <1>1
      <4> QED
        BY <3>1, <3>2, <4>1, TableFound
    <3> DEFINE b == disk.blocks_per_group
               u == s * b
    <3>4. t = Garbage \/ t = table + u
      <4>1. InodeTable(disk, group + s) = table + u
        BY <1>5, <3>2
      <4> QED
        BY <3>3, <4>1
    <3>5. b \in Nat \ {0} /\ block_size \in Nat
      BY <1>1
    <3> HIDE DEF t, b
    <3>6. u \in Nat /\ u # 0
      BY <3>5
    <3>7. u * block_size < WordMod
      <4>1. 64 * b * block_size < WordMod
        <5>1. /\ disk \in Disks /\ disk.ext2
              /\ block_size = 1024 * 2 ^ disk.log2_block_size
              /\ 2 ^ disk.log2_block_size \in Nat
          BY LayoutFacts
        <5>2. 2 ^ disk.log2_block_size < 4
          BY <2>2, <5>1 DEF big
        <5> QED
          BY <5>1, <5>2, DiskAssumption DEF b
      <4>2. b * block_size \in Nat /\ 64 * b * block_size = 64 * (b * block_size)
        BY <3>5
      <4>3. u * block_size = s * (b * block_size)
        BY <3>2, <3>5
      <4> HIDE DEF u
      <4> QED
        BY <4>1, <4>2, <4>3, WordModFacts
    <3> HIDE DEF u, big, table, read
    <3> QED
      BY <2>2, <3>4, <3>6, <3>7, Zenon
  <2> QED
    BY <2>1, <2>2
<1> HIDE DEF t, read, big
<1>8. PICK u \in Nat : /\ t = Garbage \/ t = table + u
                       /\ big => u = 0
                       /\ read /\ big => t # Garbage
                       /\ big /\ t # Garbage => read
                       /\ ~ big => u # 0
                       /\ u * block_size < WordMod
  BY <1>7, Zenon
<1>9. /\ first => r + 128 <= 512
      /\ ~ first => r + 128 > 512
  <2> DEFINE a == index * 128
             p == 2 ^ disk.log2_block_size
  <2>1. a \in Nat /\ p \in Nat /\ block_size = p * 1024
    BY <1>1, LayoutFacts
  <2> HIDE DEF a, p
  <2>2. a % block_size \in Nat
    BY <1>1, <2>1
  <2>3. a % block_size < 512 => (a % block_size) + 128 <= 512
    BY <1>1, <2>1, Remainder DEF a
  <2>4. r = a % block_size
    BY DEF a
  <2> QED
    BY <2>2, <2>3, <2>4
<1> HIDE DEF first
<1>10. CASE t = Garbage
  <2>1. inode = Garbage
    BY <1>2, <1>10, Zenon
  <2> HIDE DEF A
  <2> QED
    BY <1>3, <1>4, <1>6, <1>8, <1>10, <2>1, Zenon
<1>11. CASE t # Garbage /\ ~ (A < WordMod)
  <2>1. t \in Nat
    <3>1. t = table + u
      BY <1>8, <1>11, Zenon
    <3> QED
      BY <1>5, <3>1
  <2>2. inode = CopiedAt(t, index)
    BY <1>2, <1>11, Zenon
  <2>3. inode < WordMod
    BY <1>1, <2>1, <2>2, CopiedInRange
  <2> HIDE DEF A
  <2> QED
    BY <1>3, <1>4, <1>11, <2>3, Zenon
<1>12. CASE t # Garbage /\ A < WordMod
  <2>1. t = table + u
    BY <1>8, <1>12, Zenon
  <2>2. inode = CopiedAt(table + u, index)
    BY <1>2, <1>12, <2>1, Zenon
  <2>3. /\ ~ first => inode = Garbage
        /\ first => (inode = A <=> u = 0)
    <3>1. table * block_size + index * 128 < WordMod
      BY <1>12
    <3>2. u * block_size < WordMod /\ u \in Nat /\ table \in Nat /\ index \in Nat
      BY <1>1, <1>5, <1>8, Zenon
    <3>3. /\ r + 128 > 512 => CopiedAt(table + u, index) = Garbage
          /\ r + 128 <= 512 => (CopiedAt(table + u, index) = A <=> u = 0)
      BY <3>1, <3>2, CopiedFrom
    <3> HIDE DEF A, r
    <3> QED
      BY <1>9, <2>2, <3>3
  <2> HIDE DEF A
  <2>4. CASE first
    BY <1>3, <1>4, <1>8, <1>12, <2>3, <2>4, Zenon
  <2>5. CASE ~ first
    BY <1>3, <1>4, <1>6, <2>3, <2>5, Zenon
  <2> QED
    BY <2>4, <2>5, Zenon
<1> QED
  BY <1>10, <1>11, <1>12, Zenon

\* On every disk read_inode returns the inode that was asked for if it is findable, and
\* other bytes if it is not.
THEOREM InodesFound == LayoutSpec => []InodeFound
<1>1. LayoutInit => LayoutInv
  BY DEF LayoutInit, LayoutInv
<1>2. LayoutInv => InodeFound
  BY SourceIsInode DEF LayoutInv, InodeFound
<1>3. QED
  BY <1>1, <1>2, LayoutStep, PTL DEF LayoutSpec

=============================================================================
