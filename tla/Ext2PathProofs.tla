--------------------------- MODULE Ext2PathProofs ---------------------------
(***************************************************************************)
(* Looking up a path on an ext2 disk is correct, keeps to the boundaries   *)
(* of directory entries and leaves nothing behind, for every tree of       *)
(* directories, every layout of their entries and every set of paths that  *)
(* satisfies the assumptions.                                              *)
(***************************************************************************)
EXTENDS Ext2Path, TLAPS

-----------------------------------------------------------------------------
(***************************************************************************)
(* Listings.                                                               *)
(***************************************************************************)

\* An entry ends before the end of the file, or at it.
LEMMA EntryInFile ==
  ASSUME NEW es, IsListing(es), NEW k \in DOMAIN es
  PROVE  /\ es[k] \in Entry
         /\ es[k].total_len >= READ_SIZE + es[k].name_len
         /\ es[k].offset + es[k].total_len <= Size(es)
<1>1. es \in Seq(Entry) /\ k \in 1 .. Len(es) /\ Len(es) \in Nat
  BY DEF IsListing
<1>2. es # <<>> /\ Len(es) \in DOMAIN es
  BY <1>1
<1>3. es[k] \in Entry /\ es[Len(es)] \in Entry
  BY <1>1, <1>2
<1>4. es[Len(es)].total_len \in Nat /\ es[Len(es)].offset \in Nat
  BY <1>3 DEF Entry
<1>5. CASE k = Len(es)
  BY <1>2, <1>3, <1>4, <1>5 DEF IsListing, Size, Entry
<1>6. CASE k < Len(es)
  <2>1. es[k].offset + es[k].total_len <= es[Len(es)].offset
    BY <1>1, <1>2, <1>6 DEF IsListing
  <2>2. es[k].offset \in Nat /\ es[k].total_len \in Nat
    BY <1>3 DEF Entry
  <2>3. QED
    BY <1>2, <1>3, <1>4, <2>1, <2>2 DEF IsListing, Size
<1>7. QED
  BY <1>1, <1>5, <1>6

\* The end of an entry is where the next one starts, or the end of the file, and
\* every entry that starts before it is this one or starts before this one.
LEMMA EntryEnds ==
  ASSUME NEW es, IsListing(es), NEW k \in DOMAIN es
  PROVE  LET end == es[k].offset + es[k].total_len IN
         /\ end = Size(es) \/ \E j \in DOMAIN es : es[j].offset = end
         /\ \A j \in DOMAIN es :
              es[j].offset < end => j = k \/ es[j].offset < es[k].offset
<1>1. es \in Seq(Entry) /\ k \in 1 .. Len(es) /\ Len(es) \in Nat
  BY DEF IsListing
<1>2. \A j \in DOMAIN es : es[j].offset \in Nat /\ es[j].total_len \in Nat
                           /\ es[j].total_len > 0
  <2> SUFFICES ASSUME NEW j \in DOMAIN es
               PROVE  /\ es[j].offset \in Nat /\ es[j].total_len \in Nat
                      /\ es[j].total_len > 0
    OBVIOUS
  <2>1. es[j] \in Entry /\ es[j].total_len >= READ_SIZE + es[j].name_len
    BY EntryInFile
  <2>2. QED
    BY <2>1, TreeAssumption DEF Entry
<1> DEFINE end == es[k].offset + es[k].total_len
<1>3. end = Size(es) \/ \E j \in DOMAIN es : es[j].offset = end
  <2>1. CASE k = Len(es)
    BY <1>1, <2>1 DEF Size
  <2>2. CASE k < Len(es)
    <3>1. k + 1 \in DOMAIN es /\ k + 1 > 1 /\ (k + 1) - 1 = k
      BY <1>1, <2>2
    <3>2. es[k + 1].offset = es[(k + 1) - 1].offset + es[(k + 1) - 1].total_len
      BY <3>1 DEF IsListing
    <3>3. QED
      BY <3>1, <3>2
  <2>3. QED
    BY <1>1, <2>1, <2>2
<1>4. ASSUME NEW j \in DOMAIN es, es[j].offset < end, j # k
      PROVE  es[j].offset < es[k].offset
  <2>1. j \in 1 .. Len(es)
    BY <1>1
  <2>2. CASE j < k
    <3>1. es[j].offset + es[j].total_len <= es[k].offset
      BY <1>1, <2>1, <2>2 DEF IsListing
    <3>2. QED
      BY <1>2, <3>1
  <2>3. CASE k < j
    <3>1. end <= es[j].offset
      BY <1>1, <2>1, <2>3 DEF IsListing
    <3>2. QED
      BY <1>2, <1>4, <3>1
  <2>4. QED
    BY <1>1, <1>4, <2>1, <2>2, <2>3
<1>5. QED
  BY <1>3, <1>4

\* The first entry, if there is one, is at the start of the file.
LEMMA StartOfListing ==
  ASSUME NEW es, IsListing(es)
  PROVE  /\ 0 = Size(es) \/ \E k \in DOMAIN es : es[k].offset = 0
         /\ \A k \in DOMAIN es : ~ es[k].offset < 0
<1>1. es \in Seq(Entry)
  BY DEF IsListing
<1>2. CASE es = <<>>
  BY <1>2 DEF Size
<1>3. CASE es # <<>>
  <2>1. 1 \in DOMAIN es
    BY <1>1, <1>3
  <2>2. es[1].offset = 0
    BY <2>1 DEF IsListing
  <2>3. QED
    BY <2>1, <2>2, EntryInFile DEF Entry
<1>4. QED
  BY <1>2, <1>3

-----------------------------------------------------------------------------
(***************************************************************************)
(* The invariant.                                                          *)
(***************************************************************************)

Busy == {"open", "scan", "cleanup", "return"}

\* Where the look-up is.
CallInv ==
  /\ tree \in Trees
  /\ pc \in {"idle", "halt"} \cup Busy
  /\ calls \in Nat
  /\ pc \in Busy =>
       /\ calls > 0
       /\ path \in Seq(STRING) /\ at \in 1 .. Len(path)
       /\ \A k \in 1 .. Len(path) : path[k] \in Components
       /\ from \in DOMAIN tree.entries /\ curr_dir_inode \in DOMAIN tree.entries

\* A directory is open only while it is searched, and a slash is overwritten
\* only then and until its result is looked at.
CleanInv ==
  /\ bufs = IF pc \in {"scan", "cleanup", "halt"} THEN 1 ELSE 0
  /\ pc \in {"idle", "open"} => ~ cut

\* The search is at an entry, and none of those before it has the name.
ScanInv ==
  pc = "scan" =>
    /\ \/ pos = Size(Current)
       \/ \E k \in DOMAIN Current : Current[k].offset = pos
    /\ \A k \in DOMAIN Current :
         Current[k].offset < pos => Current[k].name # path[at]

\* The search of one directory ends with the right inode.
FoundInv ==
  pc \in {"cleanup", "return"} => inode = Child(curr_dir_inode, path[at])

\* The directories searched so far are those on the way along the path.
TrailInv ==
  /\ pc \in Busy => \E w : IsTrail(w, from, path, at - 1) /\ w[at] = curr_dir_inode
  /\ LookUpCorrect

PathInv == CallInv /\ CleanInv /\ ScanInv /\ FoundInv /\ TrailInv

-----------------------------------------------------------------------------
(***************************************************************************)
(* Facts about one state.                                                  *)
(***************************************************************************)

\* The directory searched is a listing.
LEMMA CurrentListing ==
  ASSUME CallInv, pc \in Busy
  PROVE  /\ IsListing(Current)
         /\ \A k \in DOMAIN Current : Current[k].inode_num \in Inodes
  BY TreeAssumption DEF CallInv, Current, IsTree, Inodes

\* At an entry, ext2_next_dirent reads it and moves to its end; at the end of
\* the file it reads nothing.
LEMMA NextEntry ==
  ASSUME CallInv, ScanInv, pc = "scan"
  PROVE  \/ /\ pos = Size(Current) /\ ~ HasNext
         \/ /\ HasNext
            /\ \E k \in DOMAIN Current :
                 /\ Current[k].offset = pos
                 /\ EntryAt(pos) = Current[k]
                 /\ AfterEntry(EntryAt(pos)) = pos + Current[k].total_len
<1>1. IsListing(Current)
  BY CurrentListing DEF Busy
<1>2. CASE pos = Size(Current)
  <2>1. Size(Current) \in Nat
    <3>1. Current \in Seq(Entry)
      BY <1>1 DEF IsListing
    <3>2. CASE Current # <<>>
      <4>1. Len(Current) \in DOMAIN Current
        BY <3>1, <3>2
      <4>2. Current[Len(Current)] \in Entry
        BY <1>1, <4>1, EntryInFile
      <4>3. QED
        BY <3>2, <4>2 DEF Size, Entry
    <3>3. QED
      BY <3>2 DEF Size
  <2>2. ReadLength(pos, READ_SIZE) = 0
    BY <1>2, <2>1, TreeAssumption DEF ReadLength
  <2>3. QED
    BY <1>2, <2>2, TreeAssumption DEF HasNext
<1>3. CASE \E k \in DOMAIN Current : Current[k].offset = pos
  <2> DEFINE k == CHOOSE k \in DOMAIN Current : Current[k].offset = pos
  <2>1. k \in DOMAIN Current /\ Current[k].offset = pos
    BY <1>3
  <2>2. EntryAt(pos) = Current[k]
    BY DEF EntryAt
  <2> HIDE DEF k
  <2>3. /\ Current[k] \in Entry
        /\ Current[k].total_len >= READ_SIZE + Current[k].name_len
        /\ Current[k].offset + Current[k].total_len <= Size(Current)
    BY <1>1, <2>1, EntryInFile
  <2>4. /\ pos \in Nat /\ Current[k].total_len \in Nat
        /\ Current[k].name_len \in Nat /\ READ_SIZE \in Nat
    BY <2>1, <2>3, TreeAssumption DEF Entry
  <2>5. Size(Current) \in Int
    <3>1. Current \in Seq(Entry) /\ Len(Current) \in DOMAIN Current /\ Current # <<>>
      BY <1>1, <2>1 DEF IsListing
    <3>2. Current[Len(Current)] \in Entry
      BY <1>1, <3>1, EntryInFile
    <3>3. QED
      BY <3>1, <3>2 DEF Size, Entry
  <2>6. HasNext
    BY <2>1, <2>2, <2>3, <2>4, <2>5 DEF HasNext, ReadLength
  <2>7. AfterEntry(EntryAt(pos)) = pos + Current[k].total_len
    BY <2>1, <2>2, <2>3, <2>4, <2>5 DEF AfterEntry, ReadLength
  <2>8. QED
    BY <2>1, <2>2, <2>6, <2>7
<1>4. QED
  BY <1>2, <1>3 DEF ScanInv

\* An entry that has the name looked for has the inode looked for.
LEMMA EntryIsChild ==
  ASSUME CallInv, pc \in Busy, NEW k \in DOMAIN Current, Current[k].name = path[at]
  PROVE  Current[k].inode_num = Child(curr_dir_inode, path[at])
<1>1. path[at] \in Components /\ path[at] # Empty
  BY PathAssumption DEF CallInv
<1>2. curr_dir_inode \in tree.dirs
  BY <1>1, PathAssumption DEF CallInv, Current
<1> DEFINE live == {j \in DOMAIN Current : /\ Current[j].name = path[at]
                                           /\ Current[j].inode_num # NONE}
<1>3. Child(curr_dir_inode, path[at])
        = IF live = {} THEN NONE ELSE Current[CHOOSE j \in live : TRUE].inode_num
  BY <1>1, <1>2 DEF Child, Current
<1>4. \A j \in live : Current[j].inode_num = Current[k].inode_num
  BY <1>2, PathAssumption DEF CallInv, Current
<1>5. CASE live = {}
  <2>1. Current[k].inode_num = NONE
    BY <1>5
  <2>2. QED
    BY <1>3, <1>5, <2>1
<1>6. CASE live # {}
  <2>1. (CHOOSE j \in live : TRUE) \in live
    BY <1>6
  <2> HIDE DEF live
  <2>2. QED
    BY <1>3, <1>4, <1>6, <2>1
<1>7. QED
  BY <1>5, <1>6

\* Where no entry has the name looked for, nothing has it.
LEMMA NoEntryNoChild ==
  ASSUME CallInv, pc \in Busy, \A k \in DOMAIN Current : Current[k].name # path[at]
  PROVE  Child(curr_dir_inode, path[at]) = NONE
<1>1. path[at] # Empty
  BY PathAssumption DEF CallInv
<1>2. {k \in DOMAIN tree.entries[curr_dir_inode] :
         /\ tree.entries[curr_dir_inode][k].name = path[at]
         /\ tree.entries[curr_dir_inode][k].inode_num # NONE} = {}
  BY DEF Current
<1>3. QED
  BY <1>1, <1>2 DEF Child

\* The result of a search is an inode of the tree or none.
LEMMA ChildType ==
  ASSUME CallInv, pc \in Busy
  PROVE  Child(curr_dir_inode, path[at]) \in Inodes
<1>1. CASE \E k \in DOMAIN Current : Current[k].name = path[at]
  BY <1>1, EntryIsChild, CurrentListing
<1>2. CASE \A k \in DOMAIN Current : Current[k].name # path[at]
  BY <1>2, NoEntryNoChild DEF Inodes
<1>3. QED
  BY <1>1, <1>2

\* A trail can be followed by one more component.
LEMMA TrailGrows ==
  ASSUME NEW w, NEW d, NEW p, NEW n \in Nat, NEW i \in Inodes,
         IsTrail(w, d, p, n),
         i = IF w[n + 1] = NONE THEN NONE ELSE Child(w[n + 1], p[n + 1])
  PROVE  \E v : IsTrail(v, d, p, n + 1) /\ v[n + 2] = i
<1> DEFINE v == [k \in 1 .. n + 2 |-> IF k = n + 2 THEN i ELSE w[k]]
<1>1. v \in [1 .. (n + 1) + 1 -> Inodes]
  BY DEF IsTrail
<1>2. v[1] = d /\ v[n + 2] = i
  BY DEF IsTrail
<1>3. ASSUME NEW k \in 1 .. n + 1
      PROVE  v[k + 1] = IF v[k] = NONE THEN NONE ELSE Child(v[k], p[k])
  <2>1. CASE k = n + 1
    BY <2>1
  <2>2. CASE k \in 1 .. n
    BY <2>2 DEF IsTrail
  <2>3. QED
    BY <2>1, <2>2
<1>4. QED
  BY <1>1, <1>2, <1>3 DEF IsTrail

\* A trail that has come to nothing stays there to the end of the path.
LEMMA TrailOfNothing ==
  ASSUME NEW w, NEW d, NEW p, NEW n \in Nat, NEW m \in Nat, n <= m,
         IsTrail(w, d, p, n), w[n + 1] = NONE
  PROVE  \E v : IsTrail(v, d, p, m) /\ v[m + 1] = NONE
<1> DEFINE v == [k \in 1 .. m + 1 |-> IF k <= n + 1 THEN w[k] ELSE NONE]
<1>1. v \in [1 .. m + 1 -> Inodes]
  BY DEF IsTrail, Inodes
<1>2. v[1] = d /\ v[m + 1] = NONE
  BY DEF IsTrail
<1>3. ASSUME NEW k \in 1 .. m
      PROVE  v[k + 1] = IF v[k] = NONE THEN NONE ELSE Child(v[k], p[k])
  <2>1. CASE k \in 1 .. n
    BY <2>1 DEF IsTrail
  <2>2. CASE k > n
    BY <2>2
  <2>3. QED
    BY <2>1, <2>2
<1>4. QED
  BY <1>1, <1>2, <1>3 DEF IsTrail

-----------------------------------------------------------------------------
(***************************************************************************)
(* The steps.                                                              *)
(***************************************************************************)

\* The tree does not change, so a trail of the next state's path is one.
LEMMA SameTree ==
  ASSUME tree' = tree
  PROVE  /\ \A w : IsTrail(w, from', path', at' - 1) => IsTrail(w, from, path, at - 1)'
         /\ Child(curr_dir_inode', path'[at']) = Child(curr_dir_inode, path[at])'
         /\ Names(from', path', result') => Names(from, path, result)'
<1>1. Inodes' = Inodes /\ \A i, c : Child(i, c)' = Child(i, c)
  BY DEF Inodes, Child
<1>2. Child(curr_dir_inode', path'[at']) = Child(curr_dir_inode, path[at])'
  BY DEF Child
<1>3. ASSUME NEW w, IsTrail(w, from', path', at' - 1)
      PROVE  IsTrail(w, from, path, at - 1)'
  BY <1>1, <1>3 DEF IsTrail
<1>4. ASSUME Names(from', path', result')
      PROVE  Names(from, path, result)'
  BY <1>1, <1>4 DEF Names, IsTrail
<1>5. QED
  BY <1>2, <1>3, <1>4

\* A call that begins has the trail of its first directory only.
LEMMA TrailStarts ==
  ASSUME CallInv, tree' = tree, at' = 1, curr_dir_inode' = from',
         from' \in DOMAIN tree.entries
  PROVE  \E w : IsTrail(w, from, path, at - 1)' /\ w[at'] = curr_dir_inode'
<1>1. PICK w : w = [k \in 1 .. 1 |-> from']
  OBVIOUS
<1>2. IsTrail(w, from', path', at' - 1) /\ w[at'] = curr_dir_inode'
  BY <1>1 DEF IsTrail, Inodes
<1>3. IsTrail(w, from, path, at - 1)'
  BY <1>2, SameTree
<1>4. QED
  BY <1>2, <1>3

LEMMA PathInit == Init => PathInv
<1> SUFFICES ASSUME Init
             PROVE  PathInv
  OBVIOUS
<1> USE DEF Init, Busy
<1>1. CallInv /\ CleanInv /\ ScanInv /\ FoundInv
  BY DEF CallInv, CleanInv, ScanInv, FoundInv
<1>2. TrailInv
  BY DEF TrailInv, LookUpCorrect
<1>3. QED
  BY <1>1, <1>2 DEF PathInv

\* A call begins.
LEMMA BeginStep ==
  ASSUME PathInv, LookUp \/ FindDir
  PROVE  PathInv'
<1> USE DEF Busy
<1>1. /\ tree' = tree /\ pc' = "open" /\ at' = 1 /\ curr_dir_inode' = from'
      /\ pc = "idle" /\ calls' = calls + 1 /\ UNCHANGED <<cut, bufs>>
  BY DEF LookUp, FindDir
<1>2. CallInv /\ CleanInv
  BY DEF PathInv
<1>3. IsTree(tree)
  BY <1>2, TreeAssumption DEF CallInv
<1>4. from' \in DOMAIN tree.entries
  BY <1>3 DEF LookUp, FindDir, IsTree
<1>5. /\ path' \in Seq(STRING) /\ 1 \in 1 .. Len(path')
      /\ \A k \in 1 .. Len(path') : path'[k] \in Components
  <2>1. CASE LookUp
    <3>1. path' \in Paths
      BY <2>1 DEF LookUp
    <3>2. path' \in Seq(STRING) /\ path' # <<>>
      BY <3>1, TreeAssumption
    <3>3. QED
      BY <3>1, <3>2 DEF Components
  <2>2. CASE FindDir
    <3>1. PICK p \in Paths : path' = <<p[1]>>
      BY <2>2 DEF FindDir
    <3>2. p \in Seq(STRING) /\ p # <<>>
      BY <3>1, TreeAssumption
    <3>3. 1 \in DOMAIN p /\ p[1] \in STRING
      BY <3>2
    <3>4. p[1] \in Components
      BY <3>1, <3>3 DEF Components
    <3>5. path' \in Seq(STRING) /\ Len(path') = 1 /\ path'[1] = p[1]
      BY <3>1, <3>3
    <3>6. QED
      BY <3>4, <3>5
  <2>3. QED
    BY <2>1, <2>2
<1>6. CallInv'
  BY <1>1, <1>2, <1>4, <1>5 DEF CallInv
<1>7. CleanInv' /\ ScanInv' /\ FoundInv'
  BY <1>1, <1>2 DEF CleanInv, ScanInv, FoundInv
<1>8. \E w : IsTrail(w, from, path, at - 1)' /\ w[at'] = curr_dir_inode'
  BY <1>1, <1>2, <1>4, TrailStarts
<1>9. TrailInv'
  BY <1>1, <1>8 DEF TrailInv, LookUpCorrect
<1>10. QED
  BY <1>6, <1>7, <1>9 DEF PathInv

\* The steps in which the look-up stays in its directory keep its trail.
LEMMA SameTrail ==
  ASSUME PathInv, pc \in Busy, pc' \in Busy,
         UNCHANGED <<tree, path, from, at, curr_dir_inode, result, calls>>
  PROVE  CallInv' /\ TrailInv'
<1>1. CallInv /\ TrailInv
  BY DEF PathInv
<1>2. CallInv'
  BY <1>1 DEF CallInv, Busy
<1>3. PICK w : IsTrail(w, from, path, at - 1) /\ w[at] = curr_dir_inode
  BY <1>1 DEF TrailInv
<1>4. IsTrail(w, from, path, at - 1)' /\ w[at'] = curr_dir_inode'
  BY <1>3, SameTree
<1>5. TrailInv'
  BY <1>4 DEF TrailInv, LookUpCorrect, Busy
<1>6. QED
  BY <1>2, <1>5

LEMMA OpenStep ==
  ASSUME PathInv, OpenDir
  PROVE  PathInv'
<1>1. /\ pc = "open" /\ pc' = "scan" /\ pos' = 0 /\ bufs' = bufs + 1
      /\ UNCHANGED <<tree, path, from, at, curr_dir_inode, result, calls>>
  BY DEF OpenDir
<1>2. CallInv' /\ TrailInv'
  BY <1>1, SameTrail DEF Busy
<1>3. IsListing(Current)
  BY <1>1, CurrentListing DEF PathInv, Busy
<1>4. Current' = Current
  BY <1>1 DEF Current
<1>5. ScanInv'
  BY <1>1, <1>3, <1>4, StartOfListing DEF ScanInv
<1>6. CleanInv' /\ FoundInv'
  BY <1>1 DEF PathInv, CleanInv, FoundInv
<1>7. QED
  BY <1>2, <1>5, <1>6 DEF PathInv

LEMMA ScanStep ==
  ASSUME PathInv, NextDirent
  PROVE  PathInv'
<1>1. /\ pc = "scan" /\ pos' = AfterEntry(EntryAt(pos)) /\ HasNext
      /\ \/ /\ EntryAt(pos).name = path[at] /\ inode' = EntryAt(pos).inode_num
            /\ pc' = "cleanup"
         \/ EntryAt(pos).name # path[at] /\ UNCHANGED <<inode, pc>>
      /\ UNCHANGED <<tree, path, from, at, curr_dir_inode, cut, bufs, result, calls>>
  BY DEF NextDirent
<1>2. pc' \in {"scan", "cleanup"}
  BY <1>1
<1>3. CallInv' /\ TrailInv'
  BY <1>1, <1>2, SameTrail DEF Busy
<1>4. CallInv /\ ScanInv /\ pc \in Busy
  BY <1>1 DEF PathInv, Busy
<1>5. PICK k \in DOMAIN Current :
        /\ Current[k].offset = pos
        /\ EntryAt(pos) = Current[k]
        /\ AfterEntry(EntryAt(pos)) = pos + Current[k].total_len
  BY <1>1, <1>4, NextEntry
<1>6. IsListing(Current) /\ Current' = Current
  BY <1>1, <1>4, CurrentListing DEF Current
<1>7. CleanInv'
  BY <1>1, <1>2 DEF PathInv, CleanInv
<1>8. ScanInv'
  <2>1. CASE pc' = "scan"
    <3>1. Current[k].name # path[at]
      BY <1>1, <1>5, <2>1
    <3>2. /\ pos' = Size(Current) \/ \E j \in DOMAIN Current : Current[j].offset = pos'
          /\ \A j \in DOMAIN Current :
               Current[j].offset < pos' => j = k \/ Current[j].offset < pos
      BY <1>1, <1>5, <1>6, EntryEnds
    <3>3. \A j \in DOMAIN Current :
            Current[j].offset < pos' => Current[j].name # path[at]
      BY <1>1, <1>4, <3>1, <3>2 DEF ScanInv
    <3>4. QED
      BY <1>1, <1>6, <3>2, <3>3 DEF ScanInv
  <2>2. QED
    BY <1>2, <2>1 DEF ScanInv
<1>9. FoundInv'
  <2>1. CASE pc' = "cleanup"
    <3>1. inode' = Current[k].inode_num /\ Current[k].name = path[at]
      BY <1>1, <1>5, <2>1
    <3>2. inode' = Child(curr_dir_inode, path[at])
      BY <1>4, <3>1, EntryIsChild
    <3>3. QED
      BY <1>1, <3>2, SameTree DEF FoundInv
  <2>2. QED
    BY <1>2, <2>1 DEF FoundInv
<1>10. QED
  BY <1>3, <1>7, <1>8, <1>9 DEF PathInv

LEMMA PanicStep ==
  ASSUME PathInv, ScanPanics
  PROVE  PathInv'
<1>1. /\ pc = "scan" /\ pc' = "halt"
      /\ UNCHANGED <<tree, path, from, at, curr_dir_inode, cut, bufs, result, calls>>
  BY DEF ScanPanics
<1>2. CallInv' /\ CleanInv' /\ ScanInv' /\ FoundInv'
  BY <1>1 DEF PathInv, CallInv, CleanInv, ScanInv, FoundInv, Busy
<1>3. TrailInv'
  BY <1>1 DEF TrailInv, LookUpCorrect, Busy
<1>4. QED
  BY <1>2, <1>3 DEF PathInv

LEMMA NotFoundStep ==
  ASSUME PathInv, NotFound
  PROVE  PathInv'
<1>1. /\ pc = "scan" /\ pc' = "cleanup" /\ ~ HasNext /\ inode' = NONE
      /\ UNCHANGED <<tree, path, from, at, curr_dir_inode, cut, bufs, result, calls>>
  BY DEF NotFound
<1>2. CallInv' /\ TrailInv'
  BY <1>1, SameTrail DEF Busy
<1>3. CallInv /\ ScanInv /\ pc \in Busy
  BY <1>1 DEF PathInv, Busy
<1>4. pos = Size(Current)
  BY <1>1, <1>3, NextEntry
<1>5. \A k \in DOMAIN Current : Current[k].offset < pos
  <2>1. IsListing(Current)
    BY <1>3, CurrentListing
  <2> SUFFICES ASSUME NEW k \in DOMAIN Current
               PROVE  Current[k].offset < pos
    OBVIOUS
  <2>2. /\ Current[k] \in Entry
        /\ Current[k].total_len >= READ_SIZE + Current[k].name_len
        /\ Current[k].offset + Current[k].total_len <= Size(Current)
    BY <2>1, EntryInFile
  <2>3. Len(Current) \in DOMAIN Current /\ Current # <<>>
    BY <2>1 DEF IsListing
  <2>4. Size(Current) \in Nat
    BY <2>1, <2>3, EntryInFile DEF Size, Entry
  <2>5. QED
    BY <1>4, <2>2, <2>4, TreeAssumption DEF Entry
<1>6. Child(curr_dir_inode, path[at]) = NONE
  BY <1>1, <1>3, <1>5, NoEntryNoChild DEF ScanInv
<1>7. FoundInv'
  BY <1>1, <1>6, SameTree DEF FoundInv
<1>8. CleanInv' /\ ScanInv'
  BY <1>1 DEF PathInv, CleanInv, ScanInv
<1>9. QED
  BY <1>2, <1>7, <1>8 DEF PathInv

LEMMA CleanupStep ==
  ASSUME PathInv, Cleanup
  PROVE  PathInv'
<1>1. /\ pc = "cleanup" /\ pc' = "return" /\ bufs' = bufs - 1
      /\ UNCHANGED <<tree, path, from, at, curr_dir_inode, cut, inode, result, calls>>
  BY DEF Cleanup
<1>2. CallInv' /\ TrailInv'
  BY <1>1, SameTrail DEF Busy
<1>3. FoundInv'
  BY <1>1, SameTree DEF PathInv, FoundInv
<1>4. CleanInv' /\ ScanInv'
  BY <1>1 DEF PathInv, CleanInv, ScanInv
<1>5. QED
  BY <1>2, <1>3, <1>4 DEF PathInv

LEMMA DescendStep ==
  ASSUME PathInv, Descend
  PROVE  PathInv'
<1>1. /\ pc = "return" /\ at < Len(path) /\ ~ cut' /\ inode # NONE
      /\ curr_dir_inode' = inode /\ at' = at + 1 /\ pc' = "open"
      /\ UNCHANGED <<tree, path, from, bufs, result, calls>>
  BY DEF Descend
<1>2. CallInv /\ FoundInv /\ TrailInv /\ pc \in Busy
  BY <1>1 DEF PathInv, Busy
<1>3. inode = Child(curr_dir_inode, path[at])
  BY <1>1, <1>2 DEF FoundInv
<1>4. inode \in Inodes /\ inode \in DOMAIN tree.entries
  BY <1>1, <1>2, <1>3, ChildType DEF Inodes
<1>5. CallInv'
  BY <1>1, <1>2, <1>4 DEF CallInv, Busy
<1>6. CleanInv' /\ ScanInv' /\ FoundInv'
  BY <1>1 DEF PathInv, CleanInv, ScanInv, FoundInv
<1>7. PICK w : IsTrail(w, from, path, at - 1) /\ w[at] = curr_dir_inode
  BY <1>2 DEF TrailInv
<1>8. at \in Nat \ {0} /\ (at - 1) + 1 = at /\ (at - 1) + 2 = at + 1
  BY <1>2 DEF CallInv
<1>9. curr_dir_inode # NONE
  BY <1>2, TreeAssumption DEF CallInv, IsTree
<1>10. \E v : IsTrail(v, from, path, (at - 1) + 1) /\ v[(at - 1) + 2] = inode
  <2>1. inode = IF w[(at - 1) + 1] = NONE THEN NONE
                ELSE Child(w[(at - 1) + 1], path[(at - 1) + 1])
    BY <1>3, <1>7, <1>8, <1>9
  <2>2. at - 1 \in Nat
    BY <1>8
  <2>3. QED
    BY <1>4, <1>7, <2>1, <2>2, TrailGrows
<1>11. PICK v : IsTrail(v, from, path, at) /\ v[at + 1] = inode
  BY <1>8, <1>10
<1>12. at' - 1 = at
  BY <1>1, <1>8
<1>13. IsTrail(v, from, path, at - 1)' /\ v[at'] = curr_dir_inode'
  BY <1>1, <1>11, <1>12, SameTree
<1>14. TrailInv'
  BY <1>1, <1>13 DEF TrailInv, LookUpCorrect, Busy
<1>15. QED
  BY <1>5, <1>6, <1>14 DEF PathInv

LEMMA ReturnStep ==
  ASSUME PathInv, Return
  PROVE  PathInv'
<1>1. /\ pc = "return" /\ pc' = "idle"
      /\ at = Len(path) \/ inode = NONE
      /\ ~ cut' /\ result' = inode
      /\ UNCHANGED <<tree, path, from, bufs, calls>>
  BY DEF Return
<1>2. CallInv /\ FoundInv /\ TrailInv /\ pc \in Busy
  BY <1>1 DEF PathInv, Busy
<1>3. inode = Child(curr_dir_inode, path[at])
  BY <1>1, <1>2 DEF FoundInv
<1>4. inode \in Inodes
  BY <1>2, <1>3, ChildType
<1>5. CallInv' /\ CleanInv' /\ ScanInv' /\ FoundInv'
  BY <1>1 DEF PathInv, CallInv, CleanInv, ScanInv, FoundInv, Busy
<1>6. PICK w : IsTrail(w, from, path, at - 1) /\ w[at] = curr_dir_inode
  BY <1>2 DEF TrailInv
<1>7. /\ at \in Nat \ {0} /\ (at - 1) + 1 = at /\ (at - 1) + 2 = at + 1
      /\ Len(path) \in Nat /\ at <= Len(path)
  BY <1>2 DEF CallInv
<1>8. curr_dir_inode # NONE
  BY <1>2, TreeAssumption DEF CallInv, IsTree
<1>9. \E v : IsTrail(v, from, path, (at - 1) + 1) /\ v[(at - 1) + 2] = inode
  <2>1. inode = IF w[(at - 1) + 1] = NONE THEN NONE
                ELSE Child(w[(at - 1) + 1], path[(at - 1) + 1])
    BY <1>3, <1>6, <1>7, <1>8
  <2>2. at - 1 \in Nat
    BY <1>7
  <2>3. QED
    BY <1>4, <1>6, <2>1, <2>2, TrailGrows
<1>10. PICK v : IsTrail(v, from, path, at) /\ v[at + 1] = inode
  BY <1>7, <1>9
<1>11. \E u : IsTrail(u, from, path, Len(path)) /\ u[Len(path) + 1] = inode
  <2>1. CASE at = Len(path)
    BY <1>10, <2>1
  <2>2. CASE inode = NONE
    BY <1>7, <1>10, <2>2, TrailOfNothing
  <2>3. QED
    BY <1>1, <2>1, <2>2
<1>12. Names(from, path, inode)
  BY <1>11 DEF Names, IsTrail
<1>13. Names(from, path, result)'
  BY <1>1, <1>12, SameTree
<1>14. path # <<>>
  BY <1>7
<1>15. TrailInv'
  BY <1>1, <1>13, <1>14 DEF TrailInv, LookUpCorrect, Busy
<1>16. QED
  BY <1>5, <1>15 DEF PathInv

LEMMA RelativeStep ==
  ASSUME PathInv, LookUpRelative
  PROVE  PathInv'
<1>1. /\ pc = "idle" /\ pc' = pc /\ result' = NONE /\ path' = <<>>
      /\ calls' = calls + 1 /\ UNCHANGED <<tree, cut, bufs>>
  BY DEF LookUpRelative
<1>2. CallInv' /\ CleanInv' /\ ScanInv' /\ FoundInv'
  BY <1>1 DEF PathInv, CallInv, CleanInv, ScanInv, FoundInv, Busy
<1>3. TrailInv'
  BY <1>1 DEF TrailInv, LookUpCorrect, Busy
<1>4. QED
  BY <1>2, <1>3 DEF PathInv

LEMMA StutterStep ==
  ASSUME PathInv, UNCHANGED vars
  PROVE  PathInv'
<1>1. UNCHANGED <<tree, pc, path, from, at, cut, curr_dir_inode, pos, inode, bufs,
                  result, calls>>
  BY DEF vars
<1>2. CallInv' /\ CleanInv' /\ ScanInv'
  BY <1>1 DEF PathInv, CallInv, CleanInv, ScanInv, Current
<1>3. FoundInv'
  BY <1>1, SameTree DEF PathInv, FoundInv
<1>4. TrailInv'
  <2>1. LookUpCorrect'
    BY <1>1, SameTree DEF PathInv, TrailInv, LookUpCorrect
  <2>2. CASE pc \in Busy
    <3>1. PICK w : IsTrail(w, from, path, at - 1) /\ w[at] = curr_dir_inode
      BY <2>2 DEF PathInv, TrailInv
    <3>2. IsTrail(w, from, path, at - 1)' /\ w[at'] = curr_dir_inode'
      BY <1>1, <3>1, SameTree
    <3>3. QED
      BY <2>1, <3>2 DEF TrailInv
  <2>3. QED
    BY <1>1, <2>1, <2>2 DEF TrailInv
<1>5. QED
  BY <1>2, <1>3, <1>4 DEF PathInv

LEMMA PathStep == PathInv /\ [Next]_vars => PathInv'
  BY BeginStep, OpenStep, ScanStep, PanicStep, NotFoundStep, CleanupStep, DescendStep,
     ReturnStep, RelativeStep, StutterStep
  DEF Next, Done, Halted

LEMMA PathInvariant == Spec => []PathInv
  BY PathInit, PathStep, PTL DEF Spec

-----------------------------------------------------------------------------

\* ext2_look_up_path returns the inode the path names, or 0, in every tree and for
\* every path the assumptions allow.
THEOREM LookUpsAreCorrect == Spec => []LookUpCorrect
<1>1. PathInv => LookUpCorrect
  BY DEF PathInv, TrailInv
<1>2. QED
  BY <1>1, PathInvariant, PTL

\* The scan of ext2_next_dirent never leaves the boundaries of entries, however
\* long names and paddings are.
THEOREM ScansAtBoundaries == Spec => []AtEntryBoundary
<1>1. PathInv => AtEntryBoundary
  BY DEF PathInv, ScanInv, AtEntryBoundary
<1>2. QED
  BY <1>1, PathInvariant, PTL

\* Every exit of ext2_look_up_path restores the path and has the buffer freed.
THEOREM LeavesNothingBehind == Spec => []NothingLeftBehind
<1>1. PathInv => NothingLeftBehind
  BY DEF PathInv, CleanInv, NothingLeftBehind
<1>2. QED
  BY <1>1, PathInvariant, PTL

=============================================================================
