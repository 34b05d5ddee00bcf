------------------------------ MODULE Ext2File ------------------------------
(***************************************************************************)
(* An open ext2 file: ext2_open_inode and ext2_read of src/fs/ext2.c, and  *)
(* the open, read and close of src/fs/ext2_vfs.c that wrap them.  A read   *)
(* copies from the buffer of the current block and loads the next block    *)
(* when it reaches the end of the buffer; one step is one iteration of     *)
(* that loop.                                                              *)
(*                                                                         *)
(* The byte at offset o of the file is represented by o, so a buffer holds *)
(* offsets.  size_t is an integer modulo SizeMod.                          *)
(***************************************************************************)
EXTENDS Integers

CONSTANTS
  BlockSize,     \* block_size
  DirectBlocks,  \* entries of dbp, 12
  SizeMod,       \* 2^32, what size_t arithmetic is modulo of
  FileSizes,     \* sizes of the files on the disk
  Counts         \* counts a caller may pass

ASSUME FileAssumption ==
  /\ BlockSize \in Nat \ {0}
  /\ DirectBlocks \in Nat \ {0}
  /\ SizeMod \in Nat \ {0}
  /\ FileSizes \subseteq Nat
  /\ Counts \subseteq Nat
  /\ \A s \in FileSizes : s < SizeMod
  /\ \A n \in Counts : n < SizeMod

VARIABLES
  pc,              \* "closed", "idle", "copy" (the loop of ext2_read), "panic"
  size,            \* inode.size
  pos,             \* file->pos
  block_index,     \* file->block_index
  curr_block_pos,  \* file->curr_block_pos
  loaded,          \* the block of the file that file->buf holds
  asked,           \* count as the caller passed it
  start,           \* file->pos when ext2_read was called
  count,           \* count, clipped to the file
  bytes_left,      \* bytes_left
  buf              \* the caller's buffer

handle == <<size, pos, block_index, curr_block_pos, loaded>>
call   == <<asked, start, count, bytes_left, buf>>
vars   == <<pc, size, pos, block_index, curr_block_pos, loaded, asked, start,
            count, bytes_left, buf>>

\* What lies behind the end of file->buf.
Stray == -1

\* A sum or a difference of two values of size_t, as size_t.
SizeT(n) == IF n >= SizeMod THEN n - SizeMod
            ELSE IF n < 0 THEN n + SizeMod ELSE n

NoBytes == [k \in {} |-> 0]

\* A buffer of n bytes nobody wrote yet.
Fresh(n) == [k \in 0 .. n - 1 |-> Stray]

-----------------------------------------------------------------------------

Init ==
  /\ pc = "closed"
  /\ size = 0 /\ pos = 0 /\ block_index = 0 /\ curr_block_pos = 0
  /\ loaded = 0
  /\ asked = 0 /\ start = 0 /\ count = 0 /\ bytes_left = 0
  /\ buf = NoBytes

\* ext2_open_inode: the first block is read immediately.
OpenInode ==
  /\ pc = "closed" /\ pc' = "idle"
  /\ size' \in FileSizes
  /\ pos' = 0 /\ block_index' = 0 /\ curr_block_pos' = 0
  /\ loaded' = 0
  /\ asked' = 0 /\ start' = 0 /\ count' = 0 /\ bytes_left' = 0
  /\ buf' = NoBytes

\* ext2_vfs_close frees the handle; the next open makes a new one.
Close ==
  /\ pc = "idle" /\ pc' = "closed"
  /\ buf' = NoBytes
  /\ UNCHANGED handle
  /\ UNCHANGED <<asked, start, count, bytes_left>>

\* Fault: the end of the file is not checked.
ClippedNever(n) == n

\* The check against the end of the file, in the arithmetic of size_t.
Clipped(n) == IF SizeT(pos + n) > size
              THEN SizeT(size - pos)
              ELSE n

\* ext2_read up to its loop.
ReadCall ==
  /\ pc = "idle" /\ pc' = "copy"
  /\ \E n \in Counts :
       /\ asked' = n
       /\ count' = Clipped(n)
       /\ bytes_left' = Clipped(n)
       /\ buf' = Fresh(Clipped(n))
  /\ start' = pos
  /\ UNCHANGED handle

\* ext2_vfs_read of an offset that is not the position of the handle.
SeekPanics ==
  /\ pc = "idle" /\ pc' = "panic"
  /\ start' = pos
  /\ asked' \in Counts
  /\ UNCHANGED handle
  /\ UNCHANGED <<count, bytes_left, buf>>

\* The read goes to the end of file->buf, or beyond it.
NewBlock == SizeT(curr_block_pos + bytes_left) >= BlockSize

ToCopy == IF NewBlock THEN BlockSize - curr_block_pos ELSE bytes_left

\* Byte k of file->buf.
Buffered(k) == IF k < BlockSize THEN loaded * BlockSize + k ELSE Stray

\* Fault: every iteration copies to the front of the caller's buffer.
CopiedToFront(n) ==
  [k \in 0 .. count - 1 |->
     IF k \in 0 .. n - 1 THEN Buffered(curr_block_pos + k) ELSE buf[k]]

\* memcpy(buf + (count - bytes_left), file->buf + curr_block_pos, to_copy)
Copied(n) ==
  LET done == count - bytes_left IN
  [k \in 0 .. count - 1 |->
     IF k \in done .. done + n - 1
     THEN Buffered(curr_block_pos + (k - done))
     ELSE buf[k]]

\* Fault: the next block is not read into the buffer.
AdvanceStale ==
  /\ curr_block_pos' = 0
  /\ block_index' = block_index + 1
  /\ loaded' = loaded
  /\ pc' = IF block_index + 1 >= DirectBlocks THEN "panic" ELSE "copy"

\* Fault: the last entry of dbp is taken for an indirect block.
AdvanceEarly ==
  /\ curr_block_pos' = 0
  /\ block_index' = block_index + 1
  /\ loaded' = loaded + 1
  /\ pc' = IF block_index + 1 >= DirectBlocks - 1 THEN "panic" ELSE "copy"

\* The block is used up: load the next one, if dbp has it.
Advance ==
  /\ curr_block_pos' = 0
  /\ block_index' = block_index + 1
  /\ \/ /\ block_index + 1 < DirectBlocks
        /\ loaded' = block_index + 1
        /\ pc' = "copy"
     \/ /\ block_index + 1 >= DirectBlocks
        /\ loaded' = loaded
        /\ pc' = "panic"

\* One iteration of the loop of ext2_read.
CopyStep ==
  /\ pc = "copy" /\ bytes_left > 0
  /\ buf' = Copied(ToCopy)
  /\ pos' = SizeT(pos + ToCopy)
  /\ bytes_left' = bytes_left - ToCopy
  /\ \/ NewBlock /\ Advance
     \/ /\ ~ NewBlock
        /\ curr_block_pos' = SizeT(curr_block_pos + ToCopy)
        /\ UNCHANGED <<pc, block_index, loaded>>
  /\ UNCHANGED <<size, asked, start, count>>

\* Fault: the loop runs while bytes_left >= 0, which size_t always is.
ReturnNever ==
  /\ pc = "copy" /\ bytes_left = 0
  /\ UNCHANGED vars

Return ==
  /\ pc = "copy" /\ bytes_left = 0
  /\ pc' = "idle"
  /\ UNCHANGED handle
  /\ UNCHANGED call

\* PANIC loops forever.
Halted == pc = "panic" /\ UNCHANGED vars

Next == \/ OpenInode \/ Close \/ ReadCall \/ SeekPanics \/ CopyStep \/ Return
        \/ Halted

\* The kernel has one thread: it runs the loop until it is through.
Fairness == WF_vars(CopyStep) /\ WF_vars(Return)

Spec == Init /\ [][Next]_vars /\ Fairness

-----------------------------------------------------------------------------
(***************************************************************************)
(* Properties.                                                             *)
(***************************************************************************)

\* The three positions of a handle (the offset in the file, the index of the
\* current block and the offset in it) and the block in its buffer agree
\* whenever ext2_read reaches its loop or returns, so that the next read
\* continues where this one ended.
PositionsAgree ==
  pc \in {"idle", "copy"} =>
    /\ pos = block_index * BlockSize + curr_block_pos
    /\ loaded = block_index

\* The position of a handle never passes the end of its file: the clipping of
\* count leaves nothing behind the last byte to be read.
ReadsStayInFile == pos <= size

\* The handle reads files of fewer than DirectBlocks blocks without PANIC
\* (ext2.h: "we only support files < 12 * block_size bytes"), whatever the
\* sequence of counts: only a seek stops the kernel.
SmallFilesReadable ==
  [][pc = "copy" /\ pc' = "panic" => size >= DirectBlocks * BlockSize]_vars

\* Every call of ext2_read returns or stops the kernel: each iteration makes
\* progress, also where a block ends exactly at the end of the request.
ReadReturns == pc = "copy" ~> pc # "copy"

\* The handle seen by its reader: a stream that hands over the bytes of the
\* file in order.  Between call and return the reader sees neither the
\* position nor the buffer.
Stream ==
  INSTANCE FileStream WITH
    Limit  <- DirectBlocks * BlockSize,
    status <- CASE pc = "copy" -> "reading" [] pc = "panic" -> "halted"
                [] OTHER -> pc,
    pos    <- IF pc \in {"copy", "panic"} THEN start ELSE pos,
    buf    <- IF pc = "idle" THEN buf ELSE NoBytes

\* ext2_read hands over exactly the bytes [pos, pos + n) of the file, n the
\* count asked for or what is left of the file.
RefinesStream == Stream!Spec

=============================================================================
