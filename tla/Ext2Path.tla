------------------------------ MODULE Ext2Path ------------------------------
(***************************************************************************)
(* Looking up names on an ext2 disk: ext2_next_dirent, ext2_find_in_dir    *)
(* and ext2_look_up_path of src/fs/ext2.c, called by open and find_dir of  *)
(* src/fs/ext2_vfs.c.  ext2_read is used as FileStream describes it: it    *)
(* returns the next count bytes, or those that are left, and panics if     *)
(* they reach the end of the blocks the inode points to directly.          *)
(*                                                                         *)
(* A directory is the sequence of its entries; each occupies total_len     *)
(* bytes of the directory file, its header and name first, from an offset  *)
(* on that the driver never sees but arrives at.  A path is the            *)
(* sequence of the components between its slashes.  The names that         *)
(* ext2_next_dirent allocates, and never frees, are left out.              *)
(***************************************************************************)
EXTENDS Integers, Sequences

CONSTANTS
  READ_SIZE,   \* bytes of an Ext2_dirent without its name, 8
  ROOT_INODE,  \* 2
  DirectBytes, \* bytes in the blocks an inode points to directly, 12 * block_size
  Empty,       \* the name between two slashes, or behind the last one
  Trees,       \* file systems: see IsTree
  Paths,       \* absolute paths: sequences of at least one component
  MaxLookUps   \* bound on the number of calls

\* An inode number of no file, and the error value of the look-ups.
NONE == 0

Entry == [offset : Nat, inode_num : Nat, total_len : Nat, name_len : Nat,
          name : STRING]

\* The entries lie one behind the other from the start of the file.
IsListing(es) ==
  /\ es \in Seq(Entry)
  /\ \A k \in DOMAIN es :
       /\ es[k].total_len >= READ_SIZE + es[k].name_len
       /\ k = 1 => es[k].offset = 0
       /\ k > 1 => es[k].offset = es[k - 1].offset + es[k - 1].total_len
       /\ \A j \in 1 .. k - 1 : es[j].offset + es[j].total_len <= es[k].offset

\* entries[i] is what reading inode i as a directory yields, and dirs are the
\* inodes that are directories.
IsTree(t) ==
  /\ ROOT_INODE \in t.dirs
  /\ t.dirs \subseteq DOMAIN t.entries
  /\ NONE \notin DOMAIN t.entries
  /\ \A d \in DOMAIN t.entries :
       /\ IsListing(t.entries[d])
       /\ \A k \in DOMAIN t.entries[d] :
            t.entries[d][k].inode_num \in {NONE} \cup DOMAIN t.entries

ASSUME TreeAssumption ==
  /\ READ_SIZE \in Nat \ {0} /\ MaxLookUps \in Nat
  /\ DirectBytes \in Nat \ {0}
  /\ \A t \in Trees : IsTree(t)
  /\ \A p \in Paths : p \in Seq(STRING) /\ p # <<>>

Components == UNION {{p[k] : k \in DOMAIN p} : p \in Paths}

\* What the look-up relies on and does not check: a deleted entry does not have
\* the name of a live one, a file that is not a directory does not look like one
\* with an entry of a name looked for, and there are no empty components.
ASSUME PathAssumption ==
  /\ Empty \notin Components
  /\ \A t \in Trees :
       /\ \A d \in t.dirs : \A j, k \in DOMAIN t.entries[d] :
            t.entries[d][j].name = t.entries[d][k].name
              => t.entries[d][j].inode_num = t.entries[d][k].inode_num
       /\ \A f \in DOMAIN t.entries \ t.dirs : \A k \in DOMAIN t.entries[f] :
            t.entries[f][k].name \notin Components

VARIABLES
  tree,            \* the file system
  pc,              \* "idle", "open", "scan", "cleanup", "return" or "halt"
  path,            \* the components of the path
  from,            \* where the look-up started
  at,              \* the component the pointer path is at
  cut,             \* the '/' behind that component is overwritten with '\0'
  curr_dir_inode,  \* the directory searched
  pos,             \* dir.pos: position in its file
  inode,           \* the inode found in it
  bufs,            \* block buffers allocated and not freed
  result,          \* what the last call returned
  calls            \* number of calls so far

vars == <<tree, pc, path, from, at, cut, curr_dir_inode, pos, inode, bufs,
          result, calls>>

-----------------------------------------------------------------------------

\* Bytes of a directory's file: up to the end of its last entry.
Size(es) ==
  IF es = <<>> THEN 0 ELSE es[Len(es)].offset + es[Len(es)].total_len

Current == tree.entries[curr_dir_inode]

\* The entry whose bytes start at p.
EntryAt(p) == Current[CHOOSE k \in DOMAIN Current : Current[k].offset = p]

\* ext2_read of n bytes at p returns this many.
ReadLength(p, n) ==
  IF n <= Size(Current) - p THEN n ELSE Size(Current) - p

\* ext2_next_dirent returns true: header and name could be read.
HasNext ==
  /\ ReadLength(pos, READ_SIZE) = READ_SIZE
  /\ LET e == EntryAt(pos) IN
     ReadLength(pos + READ_SIZE, e.name_len) = e.name_len

\* Fault: the padding behind a name is not skipped.
AfterNameOnly(e) == pos + READ_SIZE + e.name_len

\* Fault: the entry is read without moving the position.
AfterNothing(e) == pos

\* The position ext2_next_dirent leaves: "Read up to the next entry".
AfterEntry(e) ==
  LET read == pos + READ_SIZE + e.name_len
      left == e.total_len - (READ_SIZE + e.name_len)
  IN  read + ReadLength(read, left)

\* One of the reads of this entry gets to the end of the twelfth block.
TooFar == HasNext /\ AfterEntry(EntryAt(pos)) >= DirectBytes

-----------------------------------------------------------------------------

Init ==
  /\ tree \in Trees
  /\ pc = "idle"
  /\ path = <<Empty>> /\ from = ROOT_INODE /\ at = 1 /\ cut = FALSE
  /\ curr_dir_inode = ROOT_INODE /\ pos = 0 /\ inode = NONE
  /\ bufs = 0
  /\ result = NONE /\ calls = 0

\* ext2_look_up_path of a path that is not absolute.
LookUpRelative ==
  /\ pc = "idle" /\ calls < MaxLookUps
  /\ result' = NONE
  /\ path' = <<>> /\ at' = 1
  /\ calls' = calls + 1
  /\ UNCHANGED <<tree, pc, from, cut, curr_dir_inode, pos, inode, bufs>>

\* ext2_look_up_path of an absolute path, as ext2_vfs_open calls it.
LookUp ==
  /\ pc = "idle" /\ calls < MaxLookUps
  /\ path' \in Paths
  /\ pc' = "open"
  /\ from' = ROOT_INODE /\ curr_dir_inode' = ROOT_INODE
  /\ at' = 1
  /\ calls' = calls + 1
  /\ UNCHANGED <<tree, cut, pos, inode, bufs, result>>

\* ext2_vfs_find_dir: ext2_find_in_dir of one name in an open directory.
FindDir ==
  /\ pc = "idle" /\ calls < MaxLookUps
  /\ \E p \in Paths : path' = <<p[1]>>
  /\ pc' = "open"
  /\ \E d \in tree.dirs : from' = d /\ curr_dir_inode' = d
  /\ at' = 1
  /\ calls' = calls + 1
  /\ UNCHANGED <<tree, cut, pos, inode, bufs, result>>

\* The component ends where the next '/' is overwritten, and ext2_find_in_dir
\* opens the directory.
OpenDir ==
  /\ pc = "open" /\ pc' = "scan"
  /\ cut' = (at < Len(path))
  /\ pos' = 0
  /\ bufs' = bufs + 1
  /\ UNCHANGED <<tree, path, from, at, curr_dir_inode, inode, result, calls>>

\* One iteration of the loop of ext2_find_in_dir.
NextDirent ==
  /\ pc = "scan"
  /\ HasNext /\ ~ TooFar
  /\ LET e == EntryAt(pos) IN
     /\ pos' = AfterEntry(e)
     /\ \/ /\ e.name = path[at]
           /\ inode' = e.inode_num
           /\ pc' = "cleanup"
        \/ /\ e.name # path[at]
           /\ UNCHANGED <<inode, pc>>
  /\ UNCHANGED <<tree, path, from, at, cut, curr_dir_inode, bufs, result, calls>>

\* "Indirect block pointers are currently unsupported": the PANIC of ext2_read.
ScanPanics ==
  /\ pc = "scan" /\ pc' = "halt"
  /\ TooFar
  /\ UNCHANGED <<tree, path, from, at, cut, curr_dir_inode, pos, inode, bufs,
                 result, calls>>

NotFound ==
  /\ pc = "scan" /\ pc' = "cleanup"
  /\ ~ HasNext
  /\ inode' = NONE
  /\ UNCHANGED <<tree, path, from, at, cut, curr_dir_inode, pos, bufs, result,
                 calls>>

\* Fault: the buffer is freed only if the name was found.
CleanupFound ==
  /\ pc = "cleanup" /\ pc' = "return"
  /\ bufs' = IF inode = NONE THEN bufs ELSE bufs - 1
  /\ UNCHANGED <<tree, path, from, at, cut, curr_dir_inode, pos, inode, result,
                 calls>>

\* The label cleanup of ext2_find_in_dir.
Cleanup ==
  /\ pc = "cleanup" /\ pc' = "return"
  /\ bufs' = bufs - 1
  /\ UNCHANGED <<tree, path, from, at, cut, curr_dir_inode, pos, inode, result,
                 calls>>

\* Fault: the look-up goes on in the directory it is in.
DescendStays ==
  /\ pc = "return" /\ at < Len(path)
  /\ cut' = FALSE
  /\ inode # NONE
  /\ at' = at + 1
  /\ pc' = "open"
  /\ UNCHANGED <<tree, path, from, curr_dir_inode, pos, inode, bufs, result,
                 calls>>

\* A component with a '/' behind it was found: its inode is searched next.
Descend ==
  /\ pc = "return" /\ at < Len(path)
  /\ cut' = FALSE
  /\ inode # NONE
  /\ curr_dir_inode' = inode
  /\ at' = at + 1
  /\ pc' = "open"
  /\ UNCHANGED <<tree, path, from, pos, inode, bufs, result, calls>>

\* The last component was looked up, or a directory before it is missing.
Return ==
  /\ pc = "return" /\ pc' = "idle"
  /\ at = Len(path) \/ inode = NONE
  /\ cut' = FALSE
  /\ curr_dir_inode' = inode
  /\ result' = inode
  /\ UNCHANGED <<tree, path, from, at, pos, inode, bufs, calls>>

\* The bound on the calls is reached.
Done ==
  /\ pc = "idle" /\ calls = MaxLookUps
  /\ UNCHANGED vars

\* The kernel has panicked.
Halted == pc = "halt" /\ UNCHANGED vars

Next == \/ LookUpRelative \/ LookUp \/ FindDir \/ OpenDir \/ NextDirent
        \/ ScanPanics \/ NotFound \/ Cleanup \/ Descend \/ Return
        \/ Done \/ Halted

\* A look-up runs on the kernel's only thread, and is not left halfway.
Fairness ==
  WF_vars(OpenDir \/ NextDirent \/ ScanPanics \/ NotFound \/ Cleanup \/ Descend
            \/ Return)

Spec == Init /\ [][Next]_vars /\ Fairness

-----------------------------------------------------------------------------
(***************************************************************************)
(* Properties.                                                             *)
(***************************************************************************)

\* The inode a name has in a directory: that of its live entry.  The name
\* between two slashes is the directory itself.
Child(d, name) ==
  IF name = Empty THEN d
  ELSE IF d \notin tree.dirs THEN NONE
  ELSE LET live == {k \in DOMAIN tree.entries[d] :
                      /\ tree.entries[d][k].name = name
                      /\ tree.entries[d][k].inode_num # NONE}
       IN  IF live = {} THEN NONE
           ELSE tree.entries[d][CHOOSE k \in live : TRUE].inode_num

Inodes == {NONE} \cup DOMAIN tree.entries

\* The inodes on the way from directory d along the first n components of p; what
\* is missing has no children.
IsTrail(w, d, p, n) ==
  /\ w \in [1 .. n + 1 -> Inodes]
  /\ w[1] = d
  /\ \A k \in 1 .. n :
       w[k + 1] = IF w[k] = NONE THEN NONE ELSE Child(w[k], p[k])

\* Inode i is what path p names from directory d, by the rules of path names.
Names(d, p, i) ==
  \E w \in [1 .. Len(p) + 1 -> Inodes] :
    IsTrail(w, d, p, Len(p)) /\ w[Len(p) + 1] = i

\* ext2_look_up_path returns the inode that the path names, and 0 if it names
\* none: "Return the inode corrsponding to the absolute pathname" (ext2.c).
LookUpCorrect ==
  pc = "idle" /\ calls > 0 =>
    IF path = <<>> THEN result = NONE ELSE Names(from, path, result)

\* While a directory is searched, its position is at the start of an entry or
\* at the end: the padding of every entry before it was skipped.
AtEntryBoundary ==
  pc = "scan" =>
    \/ pos = Size(Current)
    \/ \E k \in DOMAIN Current : Current[k].offset = pos

\* A look-up leaves nothing behind on any of its exits: the caller's path has
\* all its slashes again and the block buffer of every directory is freed.
NothingLeftBehind == pc = "idle" => bufs = 0 /\ ~ cut

\* Every file that may be searched ends before the direct blocks do.
DirectTree ==
  \A d \in DOMAIN tree.entries : Size(tree.entries[d]) < DirectBytes

\* On a disk whose files end before the twelfth block does, every look-up
\* returns: no scan reaches the PANIC of ext2_read, and none goes round for ever.
LookUpReturns == DirectTree /\ pc # "idle" ~> pc = "idle"

=============================================================================
