----------------------------- MODULE VfsProofs ------------------------------
(***************************************************************************)
(* An open node of the virtual filesystem has an Ext2_file of its own, for *)
(* every volume and every set of clients.  A ramdisk that was begun and    *)
(* not finished shows no file; in one that was finished, every file is     *)
(* counted and reads as the source file does, for every source directory.  *)
(***************************************************************************)
EXTENDS Vfs, FiniteSetTheorems, SequenceTheorems, TLAPS

-----------------------------------------------------------------------------
(***************************************************************************)
(* The nodes and the Ext2_files.                                           *)
(***************************************************************************)

\* Ext2_files are those of the volume, and are where kmalloc can put them; the
\* client opens its own nodes.
FilesInv ==
  /\ nodes \in [Clients -> [inode : Nat, impl : Nat]]
  /\ files \in [DOMAIN files -> [inode : Nat, pos : Int]]
  /\ opened \in [DOMAIN opened -> Int]
  /\ DOMAIN opened \subseteq Clients
  /\ DOMAIN files \subseteq Addrs
  /\ \A a \in DOMAIN files : \E p \in DOMAIN Volume : Volume[p].inode = files[a].inode

HandleInv == FilesInv /\ HandleOfFile

LEMMA AdvanceType ==
  ASSUME NEW f \in [inode : Nat, pos : Int], NEW size \in Nat,
         \E p \in DOMAIN Volume : Volume[p].inode = f.inode
  PROVE  Advance(f, size) \in Int
<1> DEFINE path == CHOOSE p \in DOMAIN Volume : Volume[p].inode = f.inode
           S    == {size, Volume[path].length - f.pos}
<1>1. path \in DOMAIN Volume
  OBVIOUS
<1>2. Volume[path].length - f.pos \in Int
  BY <1>1, VfsAssumption
<1>3. \E x \in S : \A y \in S : x <= y
  BY <1>2
<1>4. Min(S) \in S
  BY <1>3, Zenon DEF Min
<1>5. QED
  BY <1>2, <1>4 DEF Advance

\* A call that moves the position of an open file by d.
LEMMA MovesHandle ==
  ASSUME HandleInv, NEW n \in DOMAIN opened, NEW d \in Int,
         files' = [files EXCEPT ![nodes[n].impl].pos = @ + d],
         opened' = [opened EXCEPT ![n] = @ + d],
         UNCHANGED nodes
  PROVE  HandleInv'
<1> DEFINE a == nodes[n].impl
<1>1. a \in DOMAIN files /\ files[a] = [inode |-> nodes[n].inode, pos |-> opened[n]]
  BY DEF HandleInv, HandleOfFile
<1>2. /\ DOMAIN files' = DOMAIN files /\ DOMAIN opened' = DOMAIN opened
      /\ files'[a] = [inode |-> nodes[n].inode, pos |-> opened[n] + d]
      /\ opened'[n] = opened[n] + d
      /\ \A b \in DOMAIN files \ {a} : files'[b] = files[b]
      /\ \A m \in DOMAIN opened \ {n} : opened'[m] = opened[m]
  BY <1>1 DEF HandleInv, FilesInv
<1>3. FilesInv'
  BY <1>1, <1>2 DEF HandleInv, FilesInv
<1>4. HandleOfFile'
  BY <1>1, <1>2 DEF HandleInv, HandleOfFile
<1>5. QED
  BY <1>3, <1>4 DEF HandleInv

LEMMA OpenKeepsHandles ==
  ASSUME HandleInv, NEW n \in Clients, NEW path \in Paths, Open(n, path)
  PROVE  HandleInv'
<1>1. CASE LookUp(path) = 0
  <2>1. /\ nodes' = [nodes EXCEPT ![n].inode = 0] /\ UNCHANGED <<files, opened>>
        /\ n \notin DOMAIN opened
    BY <1>1 DEF Open
  <2>2. FilesInv'
    BY <2>1 DEF HandleInv, FilesInv
  <2>3. HandleOfFile'
    BY <2>1 DEF HandleInv, FilesInv, HandleOfFile
  <2>4. QED
    BY <2>2, <2>3 DEF HandleInv
<1>2. CASE LookUp(path) # 0
  <2> DEFINE inode == LookUp(path)
  <2>1. path \in DOMAIN Volume /\ inode = Volume[path].inode /\ inode \in Nat
    BY <1>2, VfsAssumption DEF LookUp
  <2>2. PICK a \in Addrs \ DOMAIN files :
          /\ nodes' = [nodes EXCEPT ![n] = [inode |-> inode, impl |-> a]]
          /\ files' = Extended(files, a, [inode |-> inode, pos |-> 0])
    BY <1>2 DEF Open, Impls
  <2>3. opened' = Extended(opened, n, 0) /\ n \notin DOMAIN opened
    BY <1>2 DEF Open
  <2>4. /\ DOMAIN files' = DOMAIN files \cup {a}
        /\ files'[a] = [inode |-> inode, pos |-> 0]
        /\ \A b \in DOMAIN files : files'[b] = files[b]
        /\ files' \in [DOMAIN files' -> [inode : Nat, pos : Int]]
    BY <2>1, <2>2 DEF HandleInv, FilesInv, Extended
  <2>5. /\ DOMAIN opened' = DOMAIN opened \cup {n}
        /\ opened'[n] = 0
        /\ \A m \in DOMAIN opened : opened'[m] = opened[m]
        /\ opened' \in [DOMAIN opened' -> Int]
    BY <2>3 DEF HandleInv, FilesInv, Extended
  <2>6. FilesInv'
    BY <2>1, <2>2, <2>4, <2>5, VfsAssumption DEF HandleInv, FilesInv
  <2>7. HandleOfFile'
    <3>1. /\ nodes'[n].impl = a /\ nodes'[n].inode = inode
          /\ \A m \in DOMAIN opened : nodes'[m] = nodes[m]
      BY <2>2, <2>3 DEF HandleInv, FilesInv
    <3>2. \A m \in DOMAIN opened :
            /\ nodes[m].impl \in DOMAIN files /\ nodes[m].impl # a
            /\ files[nodes[m].impl] = [inode |-> nodes[m].inode, pos |-> opened[m]]
            /\ \A l \in DOMAIN opened \ {m} : nodes[l].impl # nodes[m].impl
      BY DEF HandleInv, HandleOfFile
    <3> HIDE DEF inode
    <3> DEFINE Handle(m) ==
                 /\ nodes'[m].impl \in DOMAIN files'
                 /\ files'[nodes'[m].impl]
                      = [inode |-> nodes'[m].inode, pos |-> opened'[m]]
                 /\ \A l \in DOMAIN opened' \ {m} : nodes'[l].impl # nodes'[m].impl
    <3>3. Handle(n)
      <4>1. \A l \in DOMAIN opened : nodes'[l].impl # a
        BY <3>1, <3>2
      <4>2. QED
        BY <2>3, <2>4, <2>5, <3>1, <4>1
    <3>4. ASSUME NEW m \in DOMAIN opened PROVE Handle(m)
      <4>1. nodes'[m] = nodes[m] /\ nodes[m].impl \in DOMAIN files /\ m # n
        BY <2>3, <3>1, <3>2
      <4>2. files'[nodes'[m].impl] = files[nodes[m].impl]
        BY <2>4, <4>1
      <4>3. \A l \in DOMAIN opened' \ {m} : nodes'[l].impl # nodes'[m].impl
        <5>1. \A l \in DOMAIN opened \ {m} : nodes'[l].impl # nodes'[m].impl
          BY <3>1, <3>2, <4>1
        <5>2. nodes'[n].impl # nodes'[m].impl
          BY <3>1, <4>1
        <5>3. QED
          BY <2>5, <5>1, <5>2
      <4>4. QED
        BY <2>4, <2>5, <3>2, <4>1, <4>2, <4>3
    <3>5. \A m \in DOMAIN opened' : Handle(m)
      BY <2>5, <3>3, <3>4
    <3>6. QED
      BY <3>5, Zenon DEF HandleOfFile
  <2>8. QED
    BY <2>6, <2>7 DEF HandleInv
<1>3. QED
  BY <1>1, <1>2

LEMMA CloseKeepsHandles ==
  ASSUME HandleInv, NEW n \in Clients, Close(n)
  PROVE  HandleInv'
<1> DEFINE a == nodes[n].impl
<1>1. /\ n \in DOMAIN opened /\ UNCHANGED nodes
      /\ files' = [b \in DOMAIN files \ {a} |-> files[b]]
      /\ opened' = [m \in DOMAIN opened \ {n} |-> opened[m]]
  BY DEF Close, Restrict
<1>2. FilesInv'
  BY <1>1 DEF HandleInv, FilesInv
<1>3. HandleOfFile'
  BY <1>1 DEF HandleInv, HandleOfFile
<1>4. QED
  BY <1>2, <1>3 DEF HandleInv

LEMMA ReadsKeepHandles ==
  ASSUME HandleInv, NEW n \in Clients,
         \/ ReadDir(n)
         \/ \E offset \in 0 .. MaxLength, size \in 1 .. MaxLength : Read(n, offset, size)
  PROVE  HandleInv'
<1> DEFINE f == files[nodes[n].impl]
<1>1. n \in DOMAIN opened /\ UNCHANGED nodes
  BY DEF ReadDir, Read
<1>2. /\ f \in [inode : Nat, pos : Int]
      /\ \E p \in DOMAIN Volume : Volume[p].inode = f.inode
  BY <1>1 DEF HandleInv, FilesInv, HandleOfFile
<1>3. CASE ReadDir(n)
  <2>1. Advance(f, 1) \in Int
    BY <1>2, AdvanceType
  <2>2. QED
    BY <1>1, <1>3, <2>1, MovesHandle DEF ReadDir
<1>4. ASSUME NEW offset \in 0 .. MaxLength, NEW size \in 1 .. MaxLength,
             Read(n, offset, size)
      PROVE  HandleInv'
  <2>1. CASE offset # f.pos
    <3>1. UNCHANGED <<files, opened, nodes>>
      BY <1>4, <2>1 DEF Read
    <3>2. QED
      BY <3>1 DEF HandleInv, FilesInv, HandleOfFile
  <2>2. CASE offset = f.pos
    <3>1. size \in Nat
      OBVIOUS
    <3>2. Advance(f, size) \in Int
      BY <1>2, <3>1, AdvanceType
    <3>3. QED
      BY <1>1, <1>4, <2>2, <3>2, MovesHandle DEF Read
  <2>3. QED
    BY <2>1, <2>2
<1>5. QED
  BY <1>3, <1>4

LEMMA HandleStep == HandleInv /\ [Next]_vars => HandleInv'
<1> SUFFICES ASSUME HandleInv, [Next]_vars PROVE HandleInv'
  OBVIOUS
<1>1. CASE UNCHANGED <<nodes, files, opened>>
  BY <1>1 DEF HandleInv, FilesInv, HandleOfFile
<1>2. ASSUME NEW n \in Clients, NEW path \in Paths, Open(n, path) PROVE HandleInv'
  BY <1>2, OpenKeepsHandles
<1>3. ASSUME NEW n \in Clients, Close(n) PROVE HandleInv'
  BY <1>3, CloseKeepsHandles
<1>4. ASSUME NEW n \in Clients,
             \/ ReadDir(n)
             \/ \E offset \in 0 .. MaxLength, size \in 1 .. MaxLength :
                  Read(n, offset, size)
      PROVE  HandleInv'
  BY <1>4, ReadsKeepHandles
<1>5. CASE Next
  <2>1. CASE InitrdNext /\ UNCHANGED extVars
    BY <1>1, <2>1 DEF extVars
  <2>2. CASE \E node \in {devNode} \cup FileNodes : Mount(node)
    BY <1>1, <2>2 DEF Mount
  <2>3. CASE \E n \in Clients : WriteNode(n)
    BY <1>1, <2>3 DEF WriteNode, extVars
  <2>4. QED
    BY <1>2, <1>3, <1>4, <1>5, <2>1, <2>2, <2>3 DEF Next
<1>6. CASE UNCHANGED vars
  BY <1>1, <1>6 DEF vars, extVars
<1>7. QED
  BY <1>5, <1>6

\* Nodes opened through open_fs_node have Ext2_files of their own, those of the
\* paths looked up, at the positions their reads left them.
THEOREM HandlesAreOfFiles == Spec => []HandleOfFile
<1>1. Init => HandleInv
  <2> SUFFICES ASSUME Init PROVE HandleInv
    OBVIOUS
  <2>1. /\ nodes = [n \in Clients |-> [inode |-> 2, impl |-> 0]]
        /\ files = <<>> /\ opened = <<>>
    BY DEF Init, ROOT_INODE, NULL
  <2>2. DOMAIN files = {} /\ DOMAIN opened = {}
    BY <2>1
  <2>3. QED
    BY <2>1, <2>2 DEF HandleInv, FilesInv, HandleOfFile
<1>2. HandleInv => HandleOfFile
  BY DEF HandleInv
<1>3. QED
  BY <1>1, <1>2, HandleStep, PTL DEF Spec

-----------------------------------------------------------------------------
(***************************************************************************)
(* The ramdisk.                                                            *)
(***************************************************************************)

\* The number of files stays 0 in the image while make_initrd works, because
\* headers and data lie behind it; the kernel starts when it is through.
ImageInv ==
  /\ dir \in Directories /\ at \in Nat \ {0}
  /\ header_pos \in Nat \ {0} /\ end \in Nat \ {0}
  /\ DOMAIN image = 0 .. ImageSize - 1
  /\ phase = "off" /\ tool # "done" => image[0] = 0
  /\ phase # "off" => tool # "run"

RamdiskInv == ImageInv /\ AllOrNothing

LEMMA FirstByteKept ==
  ASSUME NEW img, NEW offset \in Nat \ {0}, NEW cells, Len(cells) \in Nat,
         0 \in DOMAIN img
  PROVE  /\ DOMAIN WriteAt(img, offset, cells) = DOMAIN img
         /\ WriteAt(img, offset, cells)[0] = img[0]
  BY DEF WriteAt

LEMMA AddFileKeepsImage ==
  ASSUME RamdiskInv, AddFile,
         UNCHANGED <<phase, root_nodes, dir_entry, index, count, fresh>>
  PROVE  RamdiskInv'
<1> DEFINE header == Header(Entry.name, end, Len(Entry.data))
           img    == WriteAt(image, header_pos, header)
<1>1. /\ tool = "run" /\ at \in 1 .. Len(dir) /\ at \in DOMAIN dir /\ at' = at + 1
      /\ image' = WriteAt(img, end, Entry.data)
      /\ header_pos' = header_pos + HeaderSize /\ end' = end + Len(Entry.data)
      /\ UNCHANGED <<dir, tool>>
  <2>1. dir \in Seq(DirEntry)
    BY InitrdAssumption DEF RamdiskInv, ImageInv
  <2>2. QED
    BY <2>1 DEF AddFile, Reading, WriteFile, RamdiskInv, ImageInv
<1>2. Len(Entry.data) \in Nat
  <2>1. dir \in Seq(DirEntry)
    BY InitrdAssumption DEF RamdiskInv, ImageInv
  <2>2. dir[at] \in DirEntry
    BY <1>1, <2>1
  <2>3. Entry.data \in Seq(Nat)
    BY <2>2 DEF Entry, DirEntry
  <2>4. QED
    BY <2>3
<1>3. HeaderSize \in Nat
  BY InitrdAssumption DEF HeaderSize
<1>4. Len(header) \in Nat
  <2> DEFINE h(k) == CASE k <= NameLen     -> HostName(Entry.name)[k - 1]
                       [] k = NameLen + 1 -> end
                       [] k = NameLen + 2 -> Len(Entry.data)
  <2>1. header = [k \in 1 .. HeaderSize |-> h(k)]
    BY DEF Header
  <2> HIDE DEF h
  <2>2. [k \in 1 .. HeaderSize |-> h(k)] \in Seq({h(k) : k \in 1 .. HeaderSize})
    BY <1>3
  <2>3. header \in Seq({h(k) : k \in 1 .. HeaderSize})
    BY <2>1, <2>2
  <2> HIDE DEF header
  <2>4. QED
    BY <2>3
<1>5. 0 \in DOMAIN image
  BY InitrdAssumption DEF RamdiskInv, ImageInv
<1> HIDE DEF header
<1>6. DOMAIN img = DOMAIN image /\ img[0] = image[0]
  BY <1>4, <1>5, FirstByteKept DEF RamdiskInv, ImageInv
<1> HIDE DEF img
<1>7. DOMAIN image' = DOMAIN image /\ image'[0] = image[0]
  BY <1>1, <1>2, <1>5, <1>6, FirstByteKept, ZenonT(60) DEF RamdiskInv, ImageInv
<1>8. ImageInv'
  BY <1>1, <1>2, <1>3, <1>7 DEF RamdiskInv, ImageInv
<1>9. AllOrNothing'
  BY <1>1 DEF RamdiskInv, ImageInv, AllOrNothing
<1>10. QED
  BY <1>8, <1>9 DEF RamdiskInv

LEMMA InitInitrdShowsNothing ==
  ASSUME RamdiskInv, InitInitrd
  PROVE  RamdiskInv'
<1>1. /\ phase = "off" /\ tool # "run" /\ phase' = "count"
      /\ UNCHANGED <<dir, at, header_pos, end, tool>>
      /\ DOMAIN root_nodes' = 0 .. image[0] - 1
      /\ DOMAIN image' = DOMAIN image
  BY DEF InitInitrd
<1>2. tool = "failed" => DOMAIN root_nodes' = {}
  <2> SUFFICES ASSUME tool = "failed" PROVE DOMAIN root_nodes' = {}
    OBVIOUS
  <2>1. image[0] = 0
    BY <1>1 DEF RamdiskInv, ImageInv
  <2>2. QED
    BY <1>1, <2>1
<1>3. QED
  BY <1>1, <1>2 DEF RamdiskInv, ImageInv, AllOrNothing

LEMMA InitInitrdEmptyKeepsImage ==
  ASSUME RamdiskInv, InitInitrdEmpty
  PROVE  RamdiskInv'
<1>1. /\ phase = "off" /\ tool # "run" /\ phase' = "lost" /\ EmptyFile
      /\ UNCHANGED <<dir, at, image, header_pos, end, num_files, tool>>
  BY DEF InitInitrdEmpty, toolVars
<1>2. ImageInv'
  BY <1>1 DEF RamdiskInv, ImageInv
<1>3. AllOrNothing'
  BY <1>1 DEF AllOrNothing, EmptyFile
<1>4. QED
  BY <1>2, <1>3 DEF RamdiskInv

LEMMA RamdiskStep == RamdiskInv /\ [Next]_vars => RamdiskInv'
<1> SUFFICES ASSUME RamdiskInv, [Next]_vars PROVE RamdiskInv'
  OBVIOUS
<1>1. ASSUME UNCHANGED <<dir, at, image, header_pos, end, tool, root_nodes>>,
             num_files' = num_files,
             \/ UNCHANGED phase
             \/ phase # "off" /\ phase' # "off"
      PROVE  RamdiskInv'
  BY <1>1 DEF RamdiskInv, ImageInv, AllOrNothing, EmptyFile
<1>2. CASE MakeInitrd
  <2>1. UNCHANGED <<phase, root_nodes, dir_entry, index, count, fresh>>
    BY <1>2 DEF MakeInitrd
  <2>2. CASE AddFile
    BY <2>1, <2>2, AddFileKeepsImage
  <2>3. CASE SkipEntry
    BY <2>1, <2>3 DEF SkipEntry, Reading, RamdiskInv, ImageInv, AllOrNothing
  <2>4. CASE Abandon
    BY <2>1, <2>4 DEF Abandon, RamdiskInv, ImageInv, AllOrNothing
  <2>5. CASE Finish
    <3>1. /\ tool = "run" /\ tool' = "done" /\ DOMAIN image' = DOMAIN image
          /\ UNCHANGED <<dir, at, header_pos, end>>
      BY <2>5 DEF Finish, WriteAt
    <3>2. QED
      BY <2>1, <3>1 DEF RamdiskInv, ImageInv, AllOrNothing
  <2>6. QED
    BY <1>2, <2>2, <2>3, <2>4, <2>5 DEF MakeInitrd, OpenFails, Killed
<1>3. CASE InitInitrd \/ InitInitrdEmpty
  BY <1>3, InitInitrdShowsNothing, InitInitrdEmptyKeepsImage
<1>4. CASE CountEntry
  BY <1>1, <1>4 DEF CountEntry, toolVars
<1>5. CASE CountDone
  BY <1>1, <1>5 DEF CountDone, toolVars
<1>6. ASSUME Call, phase' \in {phase, "halted"} PROVE RamdiskInv'
  BY <1>1, <1>6 DEF Call, toolVars
<1>7. CASE UNCHANGED vars
  BY <1>1, <1>7 DEF vars, initrdVars, toolVars
<1>8. CASE Next
  <2>1. CASE InitrdNext
    BY <1>2, <1>3, <1>4, <1>5, <2>1 DEF InitrdNext
  <2>2. ASSUME NEW node, Mount(node) PROVE RamdiskInv'
    BY <1>6, <2>2 DEF Mount, Panic
  <2>3. ASSUME NEW n, \/ \E path \in Paths : Open(n, path)
                      \/ Close(n) \/ ReadDir(n) \/ WriteNode(n)
        PROVE  RamdiskInv'
    BY <1>6, <2>3 DEF Open, Close, ReadDir, WriteNode, Panic
  <2>4. ASSUME NEW n, NEW offset, NEW size, Read(n, offset, size) PROVE RamdiskInv'
    BY <1>6, <2>4 DEF Read, Panic
  <2>5. QED
    BY <1>8, <2>1, <2>2, <2>3, <2>4 DEF Next
<1>9. QED
  BY <1>7, <1>8

LEMMA ImageInit == Init => RamdiskInv
<1> SUFFICES ASSUME Init PROVE RamdiskInv
  OBVIOUS
<1>1. HeaderAt(MaxFiles) \in Nat \ {0}
  BY InitrdAssumption DEF HeaderAt, HeaderSize
<1>2. QED
  BY <1>1, InitrdAssumption
  DEF Init, InitrdInit, RamdiskInv, ImageInv, AllOrNothing

\* A ramdisk image that make_initrd began to write and did not finish shows no file
\* in the kernel.
THEOREM RamdiskIsAllOrNothing == Spec => []AllOrNothing
<1>1. RamdiskInv => AllOrNothing
  BY DEF RamdiskInv
<1>2. QED
  BY <1>1, ImageInit, RamdiskStep, PTL DEF Spec

-----------------------------------------------------------------------------
(***************************************************************************)
(* The inductive invariant of the files of the ramdisk.                    *)
(***************************************************************************)

\* A name in an array that was clear before.
Padded(name) == [k \in 0 .. NameLen - 1 |-> IF k < Len(name) THEN name[k + 1] ELSE NUL]

\* Header k of the image is that of the entry e, whose data lie from start on; the
\* header says so with start moved along.
Holds(img, k, e, start, moved) ==
  /\ \A j \in 0 .. NameLen - 1 : img[HeaderAt(k) + j] = HostName(e.name)[j]
  /\ img[StartAt(k)] = start + moved
  /\ img[LengthAt(k)] = Len(e.data)
  /\ \A j \in 1 .. Len(e.data) : img[start + j - 1] = e.data[j]

\* The regular entries of d before the a-th have their headers in order, and their
\* data between the headers and to.
AllHeld(d, a, img, to, moved) ==
  \A i \in Regular(d) : i < a =>
    \E start \in Nat :
      /\ HeaderAt(MaxFiles) <= start /\ start + Len(d[i].data) <= to
      /\ Holds(img, Place(d, i) - 1, d[i], start, moved)

\* The first n numbers are those of regular entries before the a-th.
AllFound(d, a, n) ==
  \A k \in 0 .. n - 1 : \E i \in Regular(d) : i < a /\ Place(d, i) = k + 1

\* init_initrd makes the starts of the files it finds addresses.
Offset == IF phase = "off" \/ tool # "done" THEN 0 ELSE Location

\* What write_initrd has done so far.
WrittenInv ==
  /\ at <= Len(dir) + 1 /\ num_files = Place(dir, at - 1)
  /\ header_pos = HeaderAt(num_files) /\ HeaderAt(MaxFiles) <= end
  /\ num_files # 0 => end <= ImageSize
  /\ AllFound(dir, at, num_files)
  /\ FilesFit => AllHeld(dir, at, image, end, Offset)

\* The first byte and the nodes are those of the entries.
NodesInv ==
  /\ tool = "done" => at = Len(dir) + 1
  /\ tool = "done" /\ phase = "off" => image[0] = num_files % 256
  /\ tool = "done" /\ phase # "off" /\ FilesFit =>
       /\ DOMAIN root_nodes = 0 .. num_files - 1
       /\ \A k \in 0 .. num_files - 1 : root_nodes[k].inode = k
       /\ fresh = NUL =>
            \A i \in Regular(dir) : root_nodes[Place(dir, i) - 1].name = Padded(dir[i].name)

\* file_count has counted every entry but "dev" so far.
CountInv ==
  /\ phase = "off" => index = 0
  /\ index = 0 => count = 0 /\ dir_entry = Filled(NUL)
  /\ tool = "done" /\ FilesFit /\ NamesFit =>
       /\ index = 1 => dir_entry = Padded(dev)
       /\ index > 1 => \E i \in Regular(dir) :
            Place(dir, i) = index - 1 /\ dir_entry = Padded(dir[i].name)
       /\ index > 0 => count = index - 1 /\ index - 1 <= num_files
       /\ Booted => index > 0 /\ index - 1 = num_files

ContentInv == index \in Nat /\ WrittenInv /\ NodesInv /\ CountInv

-----------------------------------------------------------------------------
(***************************************************************************)
(* Counting the regular entries.                                           *)
(***************************************************************************)

Among(d, j) == {i \in 1 .. j : d[i].kind = "reg"}

LEMMA AmongFinite ==
  ASSUME NEW d, NEW j \in Nat
  PROVE  /\ IsFiniteSet(Among(d, j))
         /\ Place(d, j) = Cardinality(Among(d, j)) /\ Place(d, j) \in Nat
<1>1. IsFiniteSet(1 .. j)
  BY FS_Interval
<1>2. Among(d, j) \in SUBSET (1 .. j)
  BY DEF Among
<1>3. IsFiniteSet(Among(d, j))
  BY <1>1, <1>2, FS_Subset
<1>4. QED
  BY <1>3, FS_CardinalityType DEF Place, Among

LEMMA PlaceZero ==
  ASSUME NEW d
  PROVE  Place(d, 0) = 0
<1>1. Among(d, 0) = {}
  BY DEF Among
<1>2. QED
  BY <1>1, FS_EmptySet DEF Place, Among

LEMMA PlaceNext ==
  ASSUME NEW d, NEW j \in Nat
  PROVE  /\ d[j + 1].kind = "reg" => Place(d, j + 1) = Place(d, j) + 1
         /\ d[j + 1].kind # "reg" => Place(d, j + 1) = Place(d, j)
<1>1. d[j + 1].kind = "reg" => Among(d, j + 1) = Among(d, j) \cup {j + 1}
  BY DEF Among
<1>2. d[j + 1].kind # "reg" => Among(d, j + 1) = Among(d, j)
  BY DEF Among
<1>3. j + 1 \notin Among(d, j)
  BY DEF Among
<1>4. Cardinality(Among(d, j) \cup {j + 1}) = Cardinality(Among(d, j)) + 1
  BY <1>3, AmongFinite, FS_AddElement
<1>5. Place(d, j) = Cardinality(Among(d, j)) /\ Place(d, j + 1) = Cardinality(Among(d, j + 1))
  BY DEF Place, Among
<1>6. QED
  BY <1>1, <1>2, <1>4, <1>5, Zenon

LEMMA PlaceGrows ==
  ASSUME NEW d, NEW i \in Nat, NEW j \in Nat, i <= j
  PROVE  Place(d, i) <= Place(d, j)
<1>1. Among(d, i) \in SUBSET Among(d, j)
  BY DEF Among
<1>2. QED
  BY <1>1, AmongFinite, FS_Subset

LEMMA PlaceAfter ==
  ASSUME NEW d, NEW i \in Nat, NEW j \in Nat, i < j, d[j].kind = "reg"
  PROVE  Place(d, i) < Place(d, j)
<1>1. j - 1 \in Nat /\ i <= j - 1 /\ (j - 1) + 1 = j
  OBVIOUS
<1>2. Place(d, i) <= Place(d, j - 1) /\ Place(d, j) = Place(d, j - 1) + 1
  BY <1>1, PlaceGrows, PlaceNext
<1>3. QED
  BY <1>1, <1>2, AmongFinite

\* The regular entries have numbers from 1 on, no two the same.
LEMMA Places ==
  ASSUME NEW d \in Directories, NEW i \in Regular(d)
  PROVE  /\ i \in Nat \ {0} /\ i <= Len(d) /\ Len(d) \in Nat
         /\ Place(d, i) \in Nat \ {0} /\ Place(d, i) <= Place(d, Len(d))
         /\ \A j \in Regular(d) : (Place(d, i) < Place(d, j) <=> i < j)
<1>1. d \in Seq(DirEntry)
  BY InitrdAssumption
<1>2. \A j \in Regular(d) : j \in Nat \ {0} /\ j <= Len(d) /\ d[j].kind = "reg"
  BY <1>1 DEF Regular
<1>3. Len(d) \in Nat
  BY <1>1
<1>4. Place(d, i) \in Nat \ {0}
  BY <1>2, PlaceZero, PlaceAfter, AmongFinite
<1>5. Place(d, i) <= Place(d, Len(d))
  BY <1>2, <1>3, PlaceGrows
<1>6. ASSUME NEW j \in Regular(d) PROVE Place(d, i) < Place(d, j) <=> i < j
  <2>1. i < j => Place(d, i) < Place(d, j)
    BY <1>2, PlaceAfter
  <2>2. ~ (i < j) => Place(d, j) <= Place(d, i)
    BY <1>2, PlaceGrows
  <2>3. Place(d, i) \in Nat /\ Place(d, j) \in Nat
    BY <1>2, AmongFinite
  <2>4. QED
    BY <2>1, <2>2, <2>3
<1>7. QED
  BY <1>2, <1>3, <1>4, <1>5, <1>6

-----------------------------------------------------------------------------
(***************************************************************************)
(* Headers and what is written into the image.                             *)
(***************************************************************************)

LEMMA Sizes ==
  /\ MaxFiles \in Nat /\ MaxFiles < 256 /\ ImageSize \in Nat /\ NameLen \in Nat
  /\ Location \in Nat
  BY InitrdAssumption

LEMMA Multiples ==
  ASSUME NEW h \in Nat, NEW k \in Nat, NEW m \in Nat, k < m
  PROVE  h * k + h <= h * m
<1>1. PICK d \in Nat : m = k + 1 + d
  <2>1. m - k - 1 \in Nat /\ m = k + 1 + (m - k - 1)
    OBVIOUS
  <2>2. QED
    BY <2>1
<1>2. h * m = h * k + h + h * d /\ h * d \in Nat /\ h * k \in Nat
  BY <1>1
<1>3. QED
  BY <1>2

LEMMA HeadersOrdered ==
  /\ HeaderSize \in Nat /\ HeaderSize = NameLen + 2
  /\ \A k \in Nat : HeaderAt(k) \in Nat \ {0} /\ HeaderAt(k + 1) = HeaderAt(k) + HeaderSize
  /\ \A k, m \in Nat : k < m => HeaderAt(k) + HeaderSize <= HeaderAt(m)
<1>1. HeaderSize \in Nat /\ HeaderSize = NameLen + 2
  BY InitrdAssumption DEF HeaderSize
<1> DEFINE h == HeaderSize
<1>2. h \in Nat
  BY <1>1
<1> HIDE DEF h
<1>3. \A k \in Nat : h * k \in Nat /\ h * (k + 1) = h * k + h
  BY <1>2
<1>4. \A k, m \in Nat : k < m => h * k + h <= h * m
  BY <1>2, Multiples
<1>5. \A k \in Nat : HeaderAt(k) = 1 + h * k
  BY DEF HeaderAt, h
<1>6. \A k \in Nat : HeaderAt(k) \in Nat \ {0} /\ HeaderAt(k + 1) = HeaderAt(k) + h
  BY <1>2, <1>3, <1>5
<1>7. \A k, m \in Nat : k < m => HeaderAt(k) + h <= HeaderAt(m)
  BY <1>2, <1>3, <1>4, <1>5
<1>8. QED
  BY <1>1, <1>6, <1>7 DEF h

\* A header as the sequence that is written.
IsHeader(header, name, start, length) ==
  /\ Len(header) = HeaderSize
  /\ \A j \in 0 .. NameLen - 1 : header[j + 1] = HostName(name)[j]
  /\ header[NameLen + 1] = start /\ header[NameLen + 2] = length

LEMMA HeaderCells ==
  ASSUME NEW name, NEW start, NEW length
  PROVE  IsHeader(Header(name, start, length), name, start, length)
<1> DEFINE header == Header(name, start, length)
<1> DEFINE h(k) == CASE k <= NameLen     -> HostName(name)[k - 1]
                     [] k = NameLen + 1 -> start
                     [] k = NameLen + 2 -> length
<1>1. HeaderSize \in Nat /\ NameLen \in Nat /\ HeaderSize = NameLen + 2
  BY HeadersOrdered, InitrdAssumption
<1>2. header = [k \in 1 .. HeaderSize |-> h(k)]
  BY DEF Header
<1>3. \A j \in 0 .. NameLen - 1 : j + 1 \in 1 .. HeaderSize /\ h(j + 1) = HostName(name)[j]
  BY <1>1
<1>4. h(NameLen + 1) = start /\ h(NameLen + 2) = length
  BY <1>1
<1> HIDE DEF h
<1>5. [k \in 1 .. HeaderSize |-> h(k)] \in Seq({h(k) : k \in 1 .. HeaderSize})
  BY <1>1
<1>6. header \in Seq({h(k) : k \in 1 .. HeaderSize}) /\ DOMAIN header = 1 .. HeaderSize
  BY <1>2, <1>5
<1>7. Len(header) = HeaderSize
  BY <1>1, <1>6
<1>8. NameLen + 1 \in 1 .. HeaderSize /\ NameLen + 2 \in 1 .. HeaderSize
  BY <1>1
<1>9. \A k \in 1 .. HeaderSize : header[k] = h(k)
  BY <1>2, Zenon
<1> HIDE DEF header
<1>10. IsHeader(header, name, start, length)
  BY <1>3, <1>4, <1>7, <1>8, <1>9, Zenon DEF IsHeader
<1>11. QED
  BY <1>10 DEF header

\* A file stays in the image as long as its cells do.
LEMMA HoldsKept ==
  ASSUME NEW img, NEW img2, NEW k \in Nat, NEW e \in DirEntry, NEW start \in Nat,
         NEW moved, Holds(img, k, e, start, moved),
         \A o \in Nat : \/ HeaderAt(k) <= o /\ o < HeaderAt(k) + HeaderSize
                        \/ start <= o /\ o < start + Len(e.data)
                        => img2[o] = img[o]
  PROVE  Holds(img2, k, e, start, moved)
<1>1. /\ HeaderAt(k) \in Nat /\ NameLen \in Nat /\ HeaderSize = NameLen + 2
      /\ Len(e.data) \in Nat
  BY HeadersOrdered, InitrdAssumption DEF DirEntry
<1>2. ASSUME NEW j \in 0 .. NameLen - 1
      PROVE  img2[HeaderAt(k) + j] = img[HeaderAt(k) + j]
  BY <1>1
<1>3. img2[StartAt(k)] = img[StartAt(k)] /\ img2[LengthAt(k)] = img[LengthAt(k)]
  BY <1>1 DEF StartAt, LengthAt
<1>4. ASSUME NEW j \in 1 .. Len(e.data)
      PROVE  img2[start + j - 1] = img[start + j - 1]
  BY <1>1
<1>5. QED
  BY <1>2, <1>3, <1>4, Zenon DEF Holds

\* The cells after a write.
Overwritten(new, img, offset, cells) ==
  /\ DOMAIN new = 0 .. ImageSize - 1
  /\ \A o \in 0 .. ImageSize - 1 :
       o < offset \/ o >= offset + Len(cells) => new[o] = img[o]
  /\ \A j \in 1 .. Len(cells) : offset + j <= ImageSize => new[offset + j - 1] = cells[j]

LEMMA WrittenCells ==
  ASSUME NEW img, DOMAIN img = 0 .. ImageSize - 1, NEW offset \in Nat, NEW cells,
         Len(cells) \in Nat
  PROVE  Overwritten(WriteAt(img, offset, cells), img, offset, cells)
<1> DEFINE new == WriteAt(img, offset, cells)
<1>1. ImageSize \in Nat
  BY InitrdAssumption
<1>2. DOMAIN new = 0 .. ImageSize - 1
  BY DEF WriteAt
<1>3. \A o \in 0 .. ImageSize - 1 :
        new[o] = IF o \in offset .. offset + Len(cells) - 1
                 THEN cells[o - offset + 1] ELSE img[o]
  BY Zenon DEF WriteAt
<1> HIDE DEF new
<1>4. ASSUME NEW o \in 0 .. ImageSize - 1, o < offset \/ o >= offset + Len(cells)
      PROVE  new[o] = img[o]
  <2>1. o \notin offset .. offset + Len(cells) - 1
    BY <1>1, <1>4
  <2>2. QED
    BY <1>3, <2>1, Zenon
<1>5. ASSUME NEW j \in 1 .. Len(cells), offset + j <= ImageSize
      PROVE  new[offset + j - 1] = cells[j]
  <2>1. PICK o \in 0 .. ImageSize - 1 :
          o = offset + j - 1 /\ o \in offset .. offset + Len(cells) - 1
          /\ o - offset + 1 = j
    BY <1>1, <1>5
  <2>2. QED
    BY <1>3, <2>1, Zenon
<1>6. QED
  <2>1. Overwritten(new, img, offset, cells)
    BY <1>2, <1>4, <1>5, Zenon DEF Overwritten
  <2>2. QED
    BY <2>1 DEF new

\* write_file puts a file into the image and leaves the others alone.
Added(new, img, n, e, to) ==
  /\ Holds(new, n, e, to, 0)
  /\ \A o \in Nat :
       /\ o < ImageSize
       /\ o < HeaderAt(n) \/ o >= HeaderAt(n) + HeaderSize
       /\ o < to \/ o >= to + Len(e.data)
       => new[o] = img[o]

LEMMA FileWritten ==
  ASSUME NEW img, DOMAIN img = 0 .. ImageSize - 1, NEW n \in Nat, n < MaxFiles,
         NEW e \in DirEntry, NEW to \in Nat, HeaderAt(MaxFiles) <= to,
         to + Len(e.data) <= ImageSize, NEW new,
         new = WriteAt(WriteAt(img, HeaderAt(n), Header(e.name, to, Len(e.data))),
                       to, e.data)
  PROVE  Added(new, img, n, e, to)
<1> DEFINE header == Header(e.name, to, Len(e.data))
           mid    == WriteAt(img, HeaderAt(n), header)
           length == Len(e.data)
<1>0. header = Header(e.name, to, length) /\ mid = WriteAt(img, HeaderAt(n), header)
  OBVIOUS
<1>1. /\ ImageSize \in Nat /\ NameLen \in Nat /\ HeaderSize = NameLen + 2
      /\ HeaderAt(n) \in Nat /\ length \in Nat
      /\ HeaderAt(n) + HeaderSize <= HeaderAt(MaxFiles) /\ HeaderAt(MaxFiles) \in Nat
      /\ to + length <= ImageSize
  BY HeadersOrdered, InitrdAssumption DEF DirEntry
<1>3. new = WriteAt(mid, to, e.data)
  OBVIOUS
<1> HIDE DEF header, mid, length
<1>2. /\ Len(header) = HeaderSize
      /\ \A j \in 0 .. NameLen - 1 : header[j + 1] = HostName(e.name)[j]
      /\ header[NameLen + 1] = to /\ header[NameLen + 2] = length
  <2>1. IsHeader(header, e.name, to, length)
    BY <1>0, HeaderCells, Zenon
  <2>2. QED
    BY <2>1, Zenon DEF IsHeader
<1>4. /\ DOMAIN mid = 0 .. ImageSize - 1
      /\ \A o \in 0 .. ImageSize - 1 :
           o < HeaderAt(n) \/ o >= HeaderAt(n) + HeaderSize => mid[o] = img[o]
      /\ \A j \in 1 .. HeaderSize :
           HeaderAt(n) + j <= ImageSize => mid[HeaderAt(n) + j - 1] = header[j]
  <2>1. Len(header) \in Nat
    BY <1>1, <1>2
  <2>2. Overwritten(mid, img, HeaderAt(n), header)
    BY <1>0, <1>1, <2>1, WrittenCells, Zenon
  <2>3. QED
    BY <1>2, <2>2, Zenon DEF Overwritten
<1>5. /\ \A o \in 0 .. ImageSize - 1 :
           o < to \/ o >= to + length => new[o] = mid[o]
      /\ \A j \in 1 .. length : to + j <= ImageSize => new[to + j - 1] = e.data[j]
  <2>1. Len(e.data) \in Nat
    BY <1>1 DEF length
  <2>2. Overwritten(new, mid, to, e.data)
    BY <1>3, <1>4, <2>1, WrittenCells, Zenon
  <2>3. QED
    BY <2>2, Zenon DEF Overwritten, length
<1>6. ASSUME NEW j \in 1 .. HeaderSize
      PROVE  new[HeaderAt(n) + j - 1] = header[j]
  <2>1. /\ HeaderAt(n) + j <= ImageSize
        /\ HeaderAt(n) + j - 1 \in 0 .. ImageSize - 1 /\ HeaderAt(n) + j - 1 < to
    BY <1>1
  <2>2. QED
    BY <1>4, <1>5, <2>1, Zenon
<1>7. ASSUME NEW j \in 0 .. NameLen - 1
      PROVE  new[HeaderAt(n) + j] = HostName(e.name)[j]
  <2>1. j + 1 \in 1 .. HeaderSize /\ HeaderAt(n) + (j + 1) - 1 = HeaderAt(n) + j
    BY <1>1
  <2>2. QED
    BY <1>2, <1>6, <2>1, Zenon
<1>8. new[StartAt(n)] = to /\ new[LengthAt(n)] = length
  <2>1. /\ NameLen + 1 \in 1 .. HeaderSize /\ NameLen + 2 \in 1 .. HeaderSize
        /\ HeaderAt(n) + (NameLen + 1) - 1 = StartAt(n)
        /\ HeaderAt(n) + (NameLen + 2) - 1 = LengthAt(n)
    BY <1>1 DEF StartAt, LengthAt
  <2>2. QED
    BY <1>2, <1>6, <2>1, Zenon
<1>9. ASSUME NEW j \in 1 .. length PROVE new[to + j - 1] = e.data[j]
  BY <1>1, <1>5
<1>10. to + 0 = to
  OBVIOUS
<1>11. Holds(new, n, e, to, 0)
  BY <1>7, <1>8, <1>9, <1>10, Zenon DEF Holds, length
<1>12. ASSUME NEW o \in Nat, o < ImageSize,
              o < HeaderAt(n) \/ o >= HeaderAt(n) + HeaderSize, o < to \/ o >= to + length
       PROVE  new[o] = img[o]
  BY <1>1, <1>4, <1>5, <1>12
<1>13. QED
  BY <1>11, <1>12, Zenon DEF length, Added

\* init_initrd changes the starts, which are no part of a name, length or data.
LEMMA HoldsMoved ==
  ASSUME NEW img, DOMAIN img = 0 .. ImageSize - 1, NEW n \in Nat, n <= MaxFiles, NEW new,
         new = [o \in DOMAIN img |-> IF \E m \in 0 .. n - 1 : o = StartAt(m)
                                     THEN img[o] + Location ELSE img[o]],
         NEW k \in 0 .. n - 1, NEW e \in DirEntry, NEW start \in Nat,
         HeaderAt(MaxFiles) <= start, start + Len(e.data) <= ImageSize,
         Holds(img, k, e, start, 0)
  PROVE  Holds(new, k, e, start, Location)
<1> DEFINE Start(o) == \E m \in 0 .. n - 1 : o = StartAt(m)
<1>1. /\ ImageSize \in Nat /\ NameLen \in Nat /\ HeaderSize = NameLen + 2 /\ Location \in Nat
      /\ Len(e.data) \in Nat /\ MaxFiles \in Nat /\ k \in Nat
      /\ \A m \in 0 .. n - 1 : m \in Nat /\ m < MaxFiles
  <2>1. Len(e.data) \in Nat
    BY DEF DirEntry
  <2>2. /\ ImageSize \in Nat /\ NameLen \in Nat /\ HeaderSize = NameLen + 2
        /\ Location \in Nat /\ MaxFiles \in Nat
    BY HeadersOrdered, InitrdAssumption
  <2>3. k \in Nat /\ \A m \in 0 .. n - 1 : m \in Nat /\ m < MaxFiles
    BY <2>2
  <2>4. QED
    BY <2>1, <2>2, <2>3
<1>2. /\ \A m \in 0 .. n - 1 : /\ HeaderAt(m) \in Nat /\ StartAt(m) = HeaderAt(m) + NameLen
                               /\ LengthAt(m) = HeaderAt(m) + NameLen + 1
                               /\ HeaderAt(m) + HeaderSize <= HeaderAt(MaxFiles)
                               /\ m < k => HeaderAt(m) + HeaderSize <= HeaderAt(k)
                               /\ k < m => HeaderAt(k) + HeaderSize <= HeaderAt(m)
      /\ HeaderAt(MaxFiles) \in Nat
  BY <1>1, HeadersOrdered DEF StartAt, LengthAt
<1>0. /\ HeaderAt(k) \in Nat /\ StartAt(k) = HeaderAt(k) + NameLen
      /\ LengthAt(k) = HeaderAt(k) + NameLen + 1
      /\ HeaderAt(k) + HeaderSize <= HeaderAt(MaxFiles) /\ HeaderAt(MaxFiles) \in Nat
  BY <1>2, Zenon
<1>3. \A o \in 0 .. ImageSize - 1 : new[o] = IF Start(o) THEN img[o] + Location ELSE img[o]
  BY Zenon
<1> HIDE DEF Start
<1>4. ASSUME NEW j \in 0 .. NameLen - 1
      PROVE  new[HeaderAt(k) + j] = img[HeaderAt(k) + j]
  <2>1. HeaderAt(k) + j \in 0 .. ImageSize - 1
    BY <1>0, <1>1, SMTT(30)
  <2>2. ~ Start(HeaderAt(k) + j)
    <3>1. SUFFICES ASSUME NEW m \in 0 .. n - 1, HeaderAt(k) + j = StartAt(m) PROVE FALSE
      BY Zenon DEF Start
    <3>2. m < k \/ m = k \/ k < m
      BY <1>1
    <3>3. /\ HeaderAt(m) \in Nat /\ StartAt(m) = HeaderAt(m) + NameLen
          /\ HeaderAt(m) + HeaderSize <= HeaderAt(MaxFiles)
          /\ m < k => HeaderAt(m) + HeaderSize <= HeaderAt(k)
          /\ k < m => HeaderAt(k) + HeaderSize <= HeaderAt(m)
      BY <1>2, Zenon
    <3>4. QED
      BY <1>0, <1>1, <3>1, <3>2, <3>3, SMTT(30)
  <2>3. QED
    BY <1>3, <2>1, <2>2, Zenon
<1>5. new[LengthAt(k)] = img[LengthAt(k)]
  <2>1. LengthAt(k) \in 0 .. ImageSize - 1
    BY <1>0, <1>1
  <2>2. ~ Start(LengthAt(k))
    <3>1. SUFFICES ASSUME NEW m \in 0 .. n - 1, LengthAt(k) = StartAt(m) PROVE FALSE
      BY Zenon DEF Start
    <3>2. m < k \/ m = k \/ k < m
      BY <1>1
    <3>3. /\ HeaderAt(m) \in Nat /\ StartAt(m) = HeaderAt(m) + NameLen
          /\ HeaderAt(m) + HeaderSize <= HeaderAt(MaxFiles)
          /\ m < k => HeaderAt(m) + HeaderSize <= HeaderAt(k)
          /\ k < m => HeaderAt(k) + HeaderSize <= HeaderAt(m)
      BY <1>2, Zenon
    <3>4. QED
      BY <1>0, <1>1, <3>1, <3>2, <3>3, SMTT(30)
  <2>3. QED
    BY <1>3, <2>1, <2>2, Zenon
<1>6. ASSUME NEW j \in 1 .. Len(e.data)
      PROVE  new[start + j - 1] = img[start + j - 1]
  <2>1. start + j - 1 \in 0 .. ImageSize - 1
    BY <1>0, <1>1
  <2>2. ~ Start(start + j - 1)
    <3>1. SUFFICES ASSUME NEW m \in 0 .. n - 1, start + j - 1 = StartAt(m) PROVE FALSE
      BY Zenon DEF Start
    <3>2. /\ HeaderAt(m) \in Nat /\ StartAt(m) = HeaderAt(m) + NameLen
          /\ HeaderAt(m) + HeaderSize <= HeaderAt(MaxFiles)
      BY <1>2, Zenon
    <3>3. QED
      BY <1>0, <1>1, <3>1, <3>2
  <2>3. QED
    BY <1>3, <2>1, <2>2, Zenon
<1>7. new[StartAt(k)] = start + Location
  <2>1. StartAt(k) \in 0 .. ImageSize - 1
    BY <1>0, <1>1
  <2>2. Start(StartAt(k))
    BY Zenon DEF Start
  <2>3. new[StartAt(k)] = img[StartAt(k)] + Location
    BY <1>3, <2>1, <2>2, Zenon
  <2>4. img[StartAt(k)] = start
    BY DEF Holds
  <2>5. QED
    BY <2>3, <2>4
<1>8. QED
  BY <1>4, <1>5, <1>6, <1>7, Zenon DEF Holds

-----------------------------------------------------------------------------
(***************************************************************************)
(* Names.                                                                  *)
(***************************************************************************)

Names == {name \in Seq(Nat \ {0}) : Len(name) + 1 < NameLen}

LEMMA MinIs ==
  ASSUME NEW S, S \subseteq Int, NEW m \in S, \A x \in S : m <= x
  PROVE  Min(S) = m
<1>1. Min(S) \in S /\ \A x \in S : Min(S) <= x
  BY Zenon DEF Min
<1>2. Min(S) \in Int /\ m \in Int /\ Min(S) <= m /\ m <= Min(S)
  BY <1>1
<1>3. QED
  BY <1>2

LEMMA MinOfTwo ==
  ASSUME NEW a \in Nat, NEW b \in Nat
  PROVE  (a <= b => Min({a, b}) = a) /\ (a > b => Min({a, b}) = b)
<1> DEFINE S == {a, b}
<1>1. S \subseteq Int /\ a \in S /\ b \in S
  OBVIOUS
<1>2. a <= b => \A x \in S : a <= x
  OBVIOUS
<1>3. a > b => \A x \in S : b <= x
  OBVIOUS
<1> HIDE DEF S
<1>4. a <= b => Min(S) = a
  BY <1>1, <1>2, MinIs
<1>5. a > b => Min(S) = b
  BY <1>1, <1>3, MinIs
<1>6. QED
  BY <1>4, <1>5, Zenon DEF S

\* The array holds the name and its terminator.
Spells(a, name) ==
  /\ DOMAIN a = 0 .. NameLen - 1
  /\ \A k \in 0 .. Len(name) - 1 : a[k] = name[k + 1]
  /\ a[Len(name)] = NUL

LEMMA NameType ==
  ASSUME NEW name \in Names
  PROVE  /\ Len(name) \in Nat /\ NameLen \in Nat /\ Len(name) \in 0 .. NameLen - 1
         /\ \A k \in 0 .. Len(name) - 1 :
              k \in 0 .. NameLen - 1 /\ k + 1 \in 1 .. Len(name) /\ name[k + 1] # NUL
<1>1. Len(name) \in Nat /\ NameLen \in Nat /\ Len(name) + 1 < NameLen
  BY InitrdAssumption DEF Names
<1>2. ASSUME NEW k \in 1 .. Len(name) PROVE name[k] \in Nat \ {0}
  BY DEF Names
<1>3. QED
  BY <1>1, <1>2 DEF NUL

LEMMA BothSpell ==
  ASSUME NEW name \in Names
  PROVE  Spells(HostName(name), name) /\ Spells(Padded(name), name)
<1>1. /\ Len(name) \in 0 .. NameLen - 1 /\ ~ (Len(name) < Len(name))
      /\ \A k \in 0 .. Len(name) - 1 : k \in 0 .. NameLen - 1 /\ k < Len(name)
  BY NameType
<1>2. Spells(HostName(name), name)
  BY <1>1, Zenon DEF Spells, HostName
<1>3. Spells(Padded(name), name)
  BY <1>1, Zenon DEF Spells, Padded
<1>4. QED
  BY <1>2, <1>3

LEMMA LengthIs ==
  ASSUME NEW name \in Names, NEW a, Spells(a, name)
  PROVE  Length(a) = Len(name)
<1> DEFINE S == {k \in DOMAIN a : a[k] = NUL} \cup {NameLen}
<1>1. DOMAIN a = 0 .. NameLen - 1 /\ a[Len(name)] = NUL
  BY DEF Spells
<1>2. S \subseteq Int /\ Len(name) \in S
  BY <1>1, NameType
<1>3. ASSUME NEW x \in S PROVE Len(name) <= x
  <2>1. CASE x = NameLen
    BY <2>1, NameType
  <2>2. CASE x \in 0 .. NameLen - 1 /\ a[x] = NUL
    <3>1. x \notin 0 .. Len(name) - 1
      BY <2>2, NameType, Zenon DEF Spells
    <3>2. QED
      BY <2>2, <3>1, NameType
  <2>3. QED
    BY <1>1, <1>3, <2>1, <2>2
<1> HIDE DEF S
<1>4. Min(S) = Len(name)
  BY <1>2, <1>3, MinIs
<1>5. QED
  BY <1>4 DEF Length, S

\* strcpy is right where the array is clear from the end of the name on.
LEMMA Copies ==
  ASSUME NEW name \in Names, NEW src, Spells(src, name),
         NEW dest, DOMAIN dest = 0 .. NameLen - 1,
         \A k \in 0 .. NameLen - 1 : k >= Len(name) => dest[k] = NUL
  PROVE  strcpy(dest, src) = Padded(name)
<1>1. Length(src) = Len(name)
  BY LengthIs
<1>2. strcpy(dest, src)
        = [k \in 0 .. NameLen - 1 |-> IF k < Len(name) THEN src[k]
                                      ELSE IF k = Len(name) + 1 THEN NUL ELSE dest[k]]
  BY <1>1, Zenon DEF strcpy
<1>3. ASSUME NEW k \in 0 .. NameLen - 1
      PROVE  /\ k < Len(name) => src[k] = name[k + 1]
             /\ ~ (k < Len(name)) => dest[k] = NUL
  <2>1. k < Len(name) => k \in 0 .. Len(name) - 1
    BY NameType
  <2>2. ~ (k < Len(name)) => k >= Len(name)
    BY NameType
  <2>3. QED
    BY <2>1, <2>2, Zenon DEF Spells
<1>4. QED
  BY <1>2, <1>3, Zenon DEF Padded

\* strcmp of two names.
LEMMA SameNames ==
  ASSUME NEW n \in Names, NEW m \in Names, NEW a, Spells(a, n), NEW b, Spells(b, m)
  PROVE  Same(a, b) <=> n = m
<1>1. Length(a) = Len(n) /\ Length(b) = Len(m)
  BY LengthIs
<1>2. ASSUME n = m PROVE Same(a, b)
  BY <1>1, <1>2, Zenon DEF Same, Spells
<1>3. ASSUME Same(a, b) PROVE n = m
  <2>1. Len(n) = Len(m) /\ \A k \in 0 .. Len(n) - 1 : n[k + 1] = m[k + 1]
    BY <1>1, <1>3, Zenon DEF Same, Spells
  <2>2. ASSUME NEW k \in 1 .. Len(n) PROVE n[k] = m[k]
    <3>1. k - 1 \in 0 .. Len(n) - 1 /\ (k - 1) + 1 = k
      BY NameType
    <3>2. QED
      BY <2>1, <3>1, Zenon
  <2>3. n \in [1 .. Len(n) -> Nat \ {0}] /\ m \in [1 .. Len(n) -> Nat \ {0}]
    BY <2>1 DEF Names
  <2>4. /\ n = [k \in 1 .. Len(n) |-> n[k]]
        /\ m = [k \in 1 .. Len(n) |-> m[k]]
    BY <2>3, Zenon
  <2>5. [k \in 1 .. Len(n) |-> n[k]] = [k \in 1 .. Len(n) |-> m[k]]
    BY <2>2, Zenon
  <2>6. QED
    BY <2>4, <2>5, Zenon
<1>4. QED
  BY <1>2, <1>3

LEMMA DevIsName == dev \in Names /\ Len(dev) = 3
<1>1. dev \in Seq(Nat \ {0}) /\ Len(dev) = 3
  BY DEF dev
<1>2. NameLen \in Nat /\ NameLen > 4
  BY InitrdAssumption
<1>3. Len(dev) + 1 < NameLen
  BY <1>1, <1>2
<1>4. QED
  BY <1>1, <1>3, Zenon DEF Names

-----------------------------------------------------------------------------
(***************************************************************************)
(* make_initrd keeps the invariant.                                        *)
(***************************************************************************)

LEMMA EntryType ==
  ASSUME NEW d \in Directories, NEW i \in 1 .. Len(d)
  PROVE  d[i] \in DirEntry /\ Len(d[i].data) \in Nat /\ d[i].name \in Names
<1>1. d \in Seq(DirEntry) /\ \A k \in DOMAIN d : Len(d[k].name) + 1 < NameLen
  BY InitrdAssumption
<1>2. d[i] \in DirEntry /\ i \in DOMAIN d
  BY <1>1
<1>3. d[i].name \in Seq(Nat \ {0}) /\ d[i].data \in Seq(Nat)
  BY <1>2 DEF DirEntry
<1>4. Len(d[i].name) + 1 < NameLen
  BY <1>1, <1>2, Zenon
<1>5. Len(d[i].data) \in Nat
  BY <1>3
<1>6. QED
  BY <1>2, <1>3, <1>4, <1>5, Zenon DEF Names

LEMMA AddedHeld ==
  ASSUME NEW d \in Directories, NEW a \in 1 .. Len(d), d[a].kind = "reg",
         Place(d, Len(d)) <= MaxFiles,
         NEW img, DOMAIN img = 0 .. ImageSize - 1, NEW to \in Nat, HeaderAt(MaxFiles) <= to,
         to + Len(d[a].data) <= ImageSize, AllHeld(d, a, img, to, 0), NEW new,
         new = WriteAt(WriteAt(img, HeaderAt(Place(d, a - 1)),
                               Header(d[a].name, to, Len(d[a].data))), to, d[a].data)
  PROVE  AllHeld(d, a + 1, new, to + Len(d[a].data), 0)
<1> DEFINE n == Place(d, a - 1)
           e == d[a]
<1>1. a \in Regular(d) /\ Len(d) \in Nat
  <2>1. d \in Seq(DirEntry)
    BY InitrdAssumption
  <2>2. QED
    BY <2>1 DEF Regular
<1>2. n \in Nat /\ Place(d, a) = n + 1 /\ n < MaxFiles /\ a - 1 \in Nat
  <2>1. a - 1 \in Nat /\ (a - 1) + 1 = a /\ a \in Nat
    BY <1>1
  <2>2. n \in Nat /\ Place(d, a) = n + 1
    BY <2>1, PlaceNext, AmongFinite
  <2>3. Place(d, a) <= Place(d, Len(d)) /\ Place(d, Len(d)) \in Nat
    BY <1>1, <2>1, PlaceGrows, AmongFinite
  <2>4. MaxFiles \in Nat
    BY Sizes
  <2>5. QED
    BY <2>1, <2>2, <2>3, <2>4
<1>3. e \in DirEntry /\ Len(e.data) \in Nat
  BY EntryType
<1> HIDE DEF n, e
<1>4. new = WriteAt(WriteAt(img, HeaderAt(n), Header(e.name, to, Len(e.data))), to, e.data)
      /\ to + Len(e.data) <= ImageSize
  BY DEF n, e
<1>5. /\ Holds(new, n, e, to, 0)
      /\ \A o \in Nat :
           /\ o < ImageSize
           /\ o < HeaderAt(n) \/ o >= HeaderAt(n) + HeaderSize
           /\ o < to \/ o >= to + Len(e.data)
           => new[o] = img[o]
  <2>1. Added(new, img, n, e, to)
    BY <1>2, <1>3, <1>4, FileWritten
  <2>2. QED
    BY <2>1, Zenon DEF Added
<1>6. ASSUME NEW i \in Regular(d), i < a + 1
      PROVE  \E start \in Nat :
               /\ HeaderAt(MaxFiles) <= start /\ start + Len(d[i].data) <= to + Len(e.data)
               /\ Holds(new, Place(d, i) - 1, d[i], start, 0)
  <2>1. CASE i = a
    <3>1. Place(d, i) - 1 = n /\ d[i] = e
      BY <1>2, <2>1 DEF e
    <3>2. to + Len(d[i].data) <= to + Len(e.data)
      BY <1>3, <3>1
    <3>3. QED
      BY <1>5, <3>1, <3>2
  <2>2. CASE i # a
    <3>1. i \in 1 .. Len(d) /\ i \in Nat /\ i < a /\ i <= a - 1 /\ Place(d, i) \in Nat \ {0}
      <4>1. i \in Nat \ {0} /\ i <= Len(d) /\ Place(d, i) \in Nat \ {0}
        BY Places, Zenon
      <4>2. QED
        BY <1>1, <1>6, <2>2, <4>1
    <3>2. d[i] \in DirEntry /\ Len(d[i].data) \in Nat
      BY <3>1, EntryType
    <3>3. PICK start \in Nat :
            /\ HeaderAt(MaxFiles) <= start /\ start + Len(d[i].data) <= to
            /\ Holds(img, Place(d, i) - 1, d[i], start, 0)
      BY <3>1, Zenon DEF AllHeld
    <3>4. PICK k \in Nat : k = Place(d, i) - 1 /\ k < n
      BY <1>2, <3>1, PlaceGrows DEF n
    <3>5. /\ HeaderAt(k) + HeaderSize <= HeaderAt(n)
          /\ HeaderAt(n) + HeaderSize <= HeaderAt(MaxFiles)
          /\ HeaderAt(k) \in Nat /\ HeaderAt(n) \in Nat /\ HeaderAt(MaxFiles) \in Nat
          /\ HeaderSize \in Nat /\ ImageSize \in Nat
      BY <1>2, <3>4, HeadersOrdered, InitrdAssumption
    <3>6. ASSUME NEW o \in Nat,
                 \/ HeaderAt(k) <= o /\ o < HeaderAt(k) + HeaderSize
                 \/ start <= o /\ o < start + Len(d[i].data)
          PROVE  new[o] = img[o]
      <4>1. o < to /\ (o < HeaderAt(n) \/ o >= HeaderAt(n) + HeaderSize) /\ o < ImageSize
        <5>1. to <= ImageSize
          BY <1>3, <1>4, <3>5
        <5>2. CASE HeaderAt(k) <= o /\ o < HeaderAt(k) + HeaderSize
          BY <3>5, <5>1, <5>2, SMTT(30)
        <5>3. CASE start <= o /\ o < start + Len(d[i].data)
          <6>1. o < to
            BY <3>2, <3>3, <5>3
          <6>2. HeaderAt(n) + HeaderSize <= start
            BY <3>3, <3>5
          <6>3. QED
            BY <3>5, <5>1, <5>3, <6>1, <6>2
        <5>4. QED
          BY <3>6, <5>2, <5>3
      <4>2. QED
        BY <1>5, <4>1, Zenon
    <3>7. Holds(new, k, d[i], start, 0)
      BY <3>2, <3>3, <3>4, <3>6, HoldsKept
    <3>8. start + Len(d[i].data) <= to + Len(e.data)
      BY <1>3, <3>2, <3>3
    <3>9. QED
      BY <3>3, <3>4, <3>7, <3>8
  <2>3. QED
    BY <2>1, <2>2
<1>7. QED
  BY <1>6, Zenon DEF AllHeld, e

LEMMA AddFileKeepsFiles ==
  ASSUME RamdiskInv, ContentInv, AddFile,
         UNCHANGED <<phase, root_nodes, dir_entry, index, count, fresh>>
  PROVE  ContentInv'
<1>1. /\ dir \in Directories /\ Len(dir) \in Nat /\ at \in 1 .. Len(dir)
      /\ dir[at].kind = "reg" /\ tool = "run" /\ at' = at + 1
      /\ end + Len(dir[at].data) <= ImageSize
      /\ image' = WriteFile(image, dir[at])
      /\ header_pos' = header_pos + HeaderSize
      /\ end' = end + Len(dir[at].data) /\ num_files' = num_files + 1
      /\ UNCHANGED <<dir, tool>>
  <2>1. dir \in Directories /\ at \in Nat \ {0}
    BY DEF RamdiskInv, ImageInv
  <2>2. Len(dir) \in Nat
    BY <2>1, InitrdAssumption
  <2>3. QED
    BY <2>1, <2>2 DEF AddFile, Reading, Entry
<1>2. phase = "off" /\ phase' = "off" /\ tool' = "run"
  BY <1>1 DEF RamdiskInv, ImageInv
<1>3. Offset = 0 /\ Offset' = 0 /\ (FilesFit' <=> FilesFit)
  BY <1>1, <1>2 DEF Offset, FilesFit
<1>4. /\ num_files = Place(dir, at - 1) /\ header_pos = HeaderAt(num_files)
      /\ HeaderAt(MaxFiles) <= end /\ AllFound(dir, at, num_files)
      /\ FilesFit => AllHeld(dir, at, image, end, 0)
      /\ DOMAIN image = 0 .. ImageSize - 1 /\ end \in Nat
  BY <1>3 DEF ContentInv, WrittenInv, RamdiskInv, ImageInv
<1>5. /\ num_files \in Nat /\ Place(dir, at) = num_files + 1 /\ at' - 1 = at
      /\ at \in Regular(dir) /\ Len(dir[at].data) \in Nat
  <2>1. at - 1 \in Nat /\ (at - 1) + 1 = at /\ (at + 1) - 1 = at
    BY <1>1
  <2>2. at \in Regular(dir)
    <3>1. dir \in Seq(DirEntry)
      BY <1>1, InitrdAssumption
    <3>2. QED
      BY <1>1, <3>1 DEF Regular
  <2>3. num_files \in Nat /\ Place(dir, at) = num_files + 1
    BY <1>1, <1>4, <2>1, PlaceNext, AmongFinite
  <2>4. QED
    BY <1>1, <2>1, <2>2, <2>3, EntryType
<1>6. AllFound(dir, at + 1, num_files + 1)
  <2>1. SUFFICES ASSUME NEW k \in 0 .. (num_files + 1) - 1
                 PROVE  \E i \in Regular(dir) : i < at + 1 /\ Place(dir, i) = k + 1
    BY Zenon DEF AllFound
  <2>2. CASE k = num_files
    BY <1>1, <1>5, <2>2
  <2>3. CASE k # num_files
    <3>1. k \in 0 .. num_files - 1
      BY <1>5, <2>3
    <3>2. PICK i \in Regular(dir) : i < at /\ Place(dir, i) = k + 1
      BY <1>4, <3>1, Zenon DEF AllFound
    <3>3. i < at + 1
      BY <1>1, <3>2, Places
    <3>4. QED
      BY <3>2, <3>3
  <2>4. QED
    BY <2>2, <2>3
<1>7. FilesFit => AllHeld(dir, at + 1, image', end', 0)
  <2>1. SUFFICES ASSUME FilesFit PROVE AllHeld(dir, at + 1, image', end', 0)
    OBVIOUS
  <2>2. image' = WriteAt(WriteAt(image, HeaderAt(Place(dir, at - 1)),
                                 Header(dir[at].name, end, Len(dir[at].data))),
                         end, dir[at].data)
    BY <1>1, <1>4 DEF WriteFile
  <2>3. QED
    BY <1>1, <1>4, <2>1, <2>2, AddedHeld, Zenon DEF FilesFit
<1>8. HeaderAt(num_files + 1) = header_pos' /\ HeaderAt(MaxFiles) <= end' /\ end' <= ImageSize
  <2>1. HeaderAt(num_files + 1) = HeaderAt(num_files) + HeaderSize
    BY <1>5, HeadersOrdered
  <2>2. HeaderAt(MaxFiles) \in Nat
    BY HeadersOrdered, Sizes
  <2>3. QED
    BY <1>1, <1>4, <1>5, <2>1, <2>2
<1>9. WrittenInv'
  <2>1. at' <= Len(dir') + 1 /\ num_files' = Place(dir', at' - 1)
    BY <1>1, <1>5
  <2>2. AllFound(dir', at', num_files') /\ (FilesFit' => AllHeld(dir', at', image', end', Offset'))
    BY <1>1, <1>3, <1>6, <1>7
  <2>3. QED
    BY <1>1, <1>8, <2>1, <2>2 DEF WrittenInv
<1>10. NodesInv' /\ CountInv' /\ index' \in Nat
  BY <1>1, <1>2 DEF ContentInv, NodesInv, CountInv
<1>11. QED
  BY <1>9, <1>10 DEF ContentInv

LEMMA DirType ==
  ASSUME RamdiskInv
  PROVE  dir \in Directories /\ dir \in Seq(DirEntry) /\ Len(dir) \in Nat /\ at \in Nat \ {0}
<1>1. dir \in Directories /\ at \in Nat \ {0}
  BY DEF RamdiskInv, ImageInv
<1>2. dir \in Seq(DirEntry)
  BY <1>1, InitrdAssumption
<1>3. QED
  BY <1>1, <1>2

\* An entry that was read has one of the first numbers, and then the image is
\* large enough.
LEMMA Numbered ==
  ASSUME RamdiskInv, ContentInv, NEW i \in Regular(dir), i < at
  PROVE  /\ i \in 1 .. Len(dir) /\ Place(dir, i) \in 1 .. num_files /\ num_files \in Nat
         /\ end \in Nat /\ end <= ImageSize
<1>1. i \in Nat \ {0} /\ i <= Len(dir) /\ Place(dir, i) \in Nat \ {0}
  BY DirType, Places, Zenon
<1>2. at - 1 \in Nat /\ i <= at - 1
  BY <1>1, DirType
<1>3. num_files = Place(dir, at - 1) /\ (num_files # 0 => end <= ImageSize) /\ end \in Nat
  BY DEF ContentInv, WrittenInv, RamdiskInv, ImageInv
<1>4. num_files \in Nat /\ Place(dir, i) <= num_files
  BY <1>1, <1>2, <1>3, PlaceGrows, AmongFinite
<1>5. QED
  BY <1>1, <1>3, <1>4, DirType

\* The files stay when the first byte changes.
LEMMA HeldKept ==
  ASSUME RamdiskInv, ContentInv, FilesFit, NEW new,
         \A o \in Nat : 0 < o /\ o < ImageSize => new[o] = image[o]
  PROVE  AllHeld(dir, at, new, end, Offset)
<1>1. SUFFICES ASSUME NEW i \in Regular(dir), i < at
               PROVE  \E start \in Nat :
                        /\ HeaderAt(MaxFiles) <= start
                        /\ start + Len(dir[i].data) <= end
                        /\ Holds(new, Place(dir, i) - 1, dir[i], start, Offset)
  BY Zenon DEF AllHeld
<1>2. PICK start \in Nat :
        /\ HeaderAt(MaxFiles) <= start /\ start + Len(dir[i].data) <= end
        /\ Holds(image, Place(dir, i) - 1, dir[i], start, Offset)
  BY <1>1, Zenon DEF ContentInv, WrittenInv, AllHeld
<1>3. /\ i \in 1 .. Len(dir) /\ Place(dir, i) \in 1 .. num_files /\ num_files \in Nat
      /\ end \in Nat /\ end <= ImageSize
  BY <1>1, Numbered, Zenon
<1>4. dir[i] \in DirEntry /\ Len(dir[i].data) \in Nat
  BY <1>3, DirType, EntryType
<1>5. Place(dir, i) <= MaxFiles
  <2>1. Place(dir, i) <= Place(dir, Len(dir)) /\ Place(dir, Len(dir)) \in Nat
    BY <1>3, DirType, PlaceGrows, AmongFinite
  <2>2. QED
    BY <1>1, <1>3, <2>1, Sizes DEF FilesFit
<1>6. PICK k \in Nat : k = Place(dir, i) - 1 /\ k < MaxFiles
  BY <1>3, <1>5, Sizes
<1>7. /\ HeaderAt(k) \in Nat \ {0} /\ HeaderAt(k) + HeaderSize <= HeaderAt(MaxFiles)
      /\ HeaderAt(MaxFiles) \in Nat \ {0} /\ HeaderSize \in Nat
  BY <1>6, HeadersOrdered, Sizes
<1>8. ASSUME NEW o \in Nat,
             \/ HeaderAt(k) <= o /\ o < HeaderAt(k) + HeaderSize
             \/ start <= o /\ o < start + Len(dir[i].data)
      PROVE  new[o] = image[o]
  <2>1. start + Len(dir[i].data) <= ImageSize /\ HeaderAt(MaxFiles) <= start
    BY <1>2, <1>3, <1>4, Sizes
  <2>2. 0 < o /\ o < ImageSize
    BY <1>4, <1>7, <1>8, <2>1, Sizes
  <2>3. QED
    BY <2>2, Zenon
<1>9. Holds(new, k, dir[i], start, Offset)
  BY <1>2, <1>4, <1>6, <1>8, HoldsKept
<1>10. QED
  BY <1>2, <1>6, <1>9, Zenon

LEMMA SkipEntryKeepsFiles ==
  ASSUME RamdiskInv, ContentInv, SkipEntry,
         UNCHANGED <<phase, root_nodes, dir_entry, index, count, fresh>>
  PROVE  ContentInv'
<1>1. /\ at \in 1 .. Len(dir) /\ dir[at].kind # "reg" /\ tool = "run" /\ at' = at + 1
      /\ UNCHANGED <<dir, image, header_pos, end, num_files, tool>>
  BY DirType DEF SkipEntry, Reading, Entry
<1>2. phase = "off"
  BY <1>1 DEF RamdiskInv, ImageInv
<1>3. Offset' = Offset /\ (FilesFit' <=> FilesFit)
  BY <1>1 DEF Offset, FilesFit
<1>4. \A i \in Regular(dir) : i < at + 1 <=> i < at
  <2>1. SUFFICES ASSUME NEW i \in Regular(dir) PROVE i < at + 1 <=> i < at
    OBVIOUS
  <2>2. i \in Nat \ {0} /\ i # at
    BY <1>1, DirType, Places DEF Regular
  <2>3. QED
    BY <2>2, DirType
<1>5. Place(dir, at) = Place(dir, at - 1) /\ (at + 1) - 1 = at
  <2>1. at - 1 \in Nat /\ (at - 1) + 1 = at /\ (at + 1) - 1 = at
    BY DirType
  <2>2. QED
    BY <1>1, <2>1, PlaceNext
<1>6. WrittenInv'
  <2>1. at' <= Len(dir') + 1 /\ num_files' = Place(dir', at' - 1)
    BY <1>1, <1>5, DirType DEF ContentInv, WrittenInv
  <2>2. AllFound(dir, at + 1, num_files)
    BY <1>4, Zenon DEF ContentInv, WrittenInv, AllFound
  <2>3. FilesFit => AllHeld(dir, at + 1, image, end, Offset)
    BY <1>4, Zenon DEF ContentInv, WrittenInv, AllHeld
  <2>4. /\ header_pos' = HeaderAt(num_files') /\ HeaderAt(MaxFiles) <= end'
        /\ num_files' # 0 => end' <= ImageSize
    BY <1>1, Zenon DEF ContentInv, WrittenInv
  <2>5. QED
    BY <1>1, <1>3, <2>1, <2>2, <2>3, <2>4, Zenon DEF WrittenInv
<1>7. NodesInv' /\ CountInv' /\ index' \in Nat
  BY <1>1, <1>2 DEF ContentInv, NodesInv, CountInv
<1>8. QED
  BY <1>6, <1>7 DEF ContentInv

LEMMA AbandonKeepsFiles ==
  ASSUME RamdiskInv, ContentInv, Abandon,
         UNCHANGED <<phase, root_nodes, dir_entry, index, count, fresh>>
  PROVE  ContentInv'
<1>1. /\ tool = "run" /\ tool' = "failed"
      /\ UNCHANGED <<dir, at, image, header_pos, end, num_files>>
  BY DEF Abandon
<1>2. phase = "off"
  BY <1>1 DEF RamdiskInv, ImageInv
<1>3. Offset' = Offset /\ (FilesFit' <=> FilesFit)
  BY <1>1, <1>2 DEF Offset, FilesFit
<1>4. WrittenInv'
  BY <1>1, <1>3, Zenon DEF ContentInv, WrittenInv
<1>5. NodesInv' /\ CountInv' /\ index' \in Nat
  BY <1>1, <1>2 DEF ContentInv, NodesInv, CountInv
<1>6. QED
  BY <1>4, <1>5 DEF ContentInv

LEMMA FinishKeepsFiles ==
  ASSUME RamdiskInv, ContentInv, Finish,
         UNCHANGED <<phase, root_nodes, dir_entry, index, count, fresh>>
  PROVE  ContentInv'
<1> DEFINE byte == <<num_files % 256>>
<1>1. /\ tool = "run" /\ tool' = "done" /\ at > Len(dir)
      /\ image' = WriteAt(image, 0, byte)
      /\ UNCHANGED <<dir, at, header_pos, end, num_files>>
  BY DEF Finish
<1>2. Len(byte) = 1 /\ byte[1] = num_files % 256 /\ Len(byte) \in Nat
  OBVIOUS
<1> HIDE DEF byte
<1>3. phase = "off" /\ DOMAIN image = 0 .. ImageSize - 1 /\ 0 \in Nat
  BY <1>1 DEF RamdiskInv, ImageInv
<1>4. Offset' = Offset /\ (FilesFit' <=> FilesFit)
  BY <1>1, <1>3 DEF Offset, FilesFit
<1>5. Overwritten(image', image, 0, byte)
  BY <1>1, <1>2, <1>3, WrittenCells, Zenon
<1>6. \A o \in Nat : 0 < o /\ o < ImageSize => image'[o] = image[o]
  <2>1. SUFFICES ASSUME NEW o \in Nat, 0 < o, o < ImageSize PROVE image'[o] = image[o]
    OBVIOUS
  <2>2. o \in 0 .. ImageSize - 1 /\ o >= 0 + Len(byte)
    BY <1>2, <2>1, Sizes
  <2>3. QED
    BY <1>5, <2>2, Zenon DEF Overwritten
<1>7. image'[0] = num_files % 256
  <2>1. 1 \in 1 .. Len(byte) /\ 0 + 1 <= ImageSize /\ 0 + 1 - 1 = 0
    BY <1>2, InitrdAssumption
  <2>2. image'[0 + 1 - 1] = byte[1]
    BY <1>5, <2>1, Zenon DEF Overwritten
  <2>3. QED
    BY <1>2, <2>1, <2>2, Zenon
<1>8. FilesFit => AllHeld(dir, at, image', end, Offset)
  BY <1>6, HeldKept
<1>9. WrittenInv'
  BY <1>1, <1>4, <1>8, Zenon DEF ContentInv, WrittenInv
<1>10. at = Len(dir) + 1
  BY <1>1, DirType DEF ContentInv, WrittenInv
<1>11. NodesInv'
  BY <1>1, <1>3, <1>7, <1>10 DEF NodesInv
<1>12. CountInv' /\ index' \in Nat
  BY <1>3 DEF ContentInv, CountInv, Booted
<1>13. QED
  BY <1>9, <1>11, <1>12 DEF ContentInv

-----------------------------------------------------------------------------
(***************************************************************************)
(* init_initrd and file_count keep the invariant.                          *)
(***************************************************************************)

\* The image is complete when the kernel starts.
LEMMA Complete ==
  ASSUME RamdiskInv, ContentInv, tool = "done", FilesFit
  PROVE  /\ at = Len(dir) + 1 /\ num_files = Place(dir, Len(dir))
         /\ num_files \in Nat /\ num_files <= MaxFiles
         /\ \A i \in Regular(dir) : i < at
         /\ phase = "off" => image[0] = num_files
<1>1. at = Len(dir) + 1 /\ num_files = Place(dir, at - 1)
  BY DEF ContentInv, NodesInv, WrittenInv
<1>2. num_files = Place(dir, Len(dir)) /\ num_files \in Nat /\ num_files <= MaxFiles
  <2>1. at - 1 = Len(dir)
    BY <1>1, DirType
  <2>2. QED
    BY <1>1, <2>1, DirType, AmongFinite DEF FilesFit
<1>3. ASSUME NEW i \in Regular(dir) PROVE i < at
  BY <1>1, DirType, Places
<1>4. ASSUME phase = "off" PROVE image[0] = num_files
  <2>1. image[0] = num_files % 256
    BY <1>4 DEF ContentInv, NodesInv
  <2>2. num_files % 256 = num_files
    BY <1>2, Sizes
  <2>3. QED
    BY <2>1, <2>2
<1>5. QED
  BY <1>1, <1>2, <1>3, <1>4

\* What holds of a file in the image, the image being complete.
LEMMA FileInImage ==
  ASSUME RamdiskInv, ContentInv, tool = "done", FilesFit, NEW i \in Regular(dir)
  PROVE  /\ dir[i] \in DirEntry /\ Len(dir[i].data) \in Nat /\ dir[i].name \in Names
         /\ Place(dir, i) - 1 \in 0 .. num_files - 1
         /\ \E start \in Nat :
              /\ HeaderAt(MaxFiles) <= start /\ start + Len(dir[i].data) <= ImageSize
              /\ start + Len(dir[i].data) <= end
              /\ Holds(image, Place(dir, i) - 1, dir[i], start, Offset)
<1>1. i < at
  BY Complete
<1>2. /\ i \in 1 .. Len(dir) /\ Place(dir, i) \in 1 .. num_files /\ num_files \in Nat
      /\ end \in Nat /\ end <= ImageSize
  BY <1>1, Numbered, Zenon
<1>3. dir[i] \in DirEntry /\ Len(dir[i].data) \in Nat /\ dir[i].name \in Names
  BY <1>2, DirType, EntryType
<1>4. PICK start \in Nat :
        /\ HeaderAt(MaxFiles) <= start /\ start + Len(dir[i].data) <= end
        /\ Holds(image, Place(dir, i) - 1, dir[i], start, Offset)
  BY <1>1, Zenon DEF ContentInv, WrittenInv, AllHeld
<1>5. start + Len(dir[i].data) <= ImageSize
  BY <1>2, <1>3, <1>4, Sizes
<1>6. Place(dir, i) - 1 \in 0 .. num_files - 1
  BY <1>2
<1>7. QED
  BY <1>3, <1>4, <1>5, <1>6, Zenon

LEMMA InitInitrdKeepsFiles ==
  ASSUME RamdiskInv, ContentInv, InitInitrd
  PROVE  ContentInv'
<1>1. /\ phase = "off" /\ tool # "run" /\ phase' = "count"
      /\ image' = [o \in DOMAIN image |->
                     IF \E k \in 0 .. image[0] - 1 : o = StartAt(k)
                     THEN image[o] + Location ELSE image[o]]
      /\ root_nodes' = [k \in 0 .. image[0] - 1 |->
                          [name   |-> strcpy(Filled(fresh), NameAt(k)),
                           length |-> image[LengthAt(k)], inode |-> k]]
      /\ UNCHANGED <<dir, at, header_pos, end, num_files, tool>>
      /\ UNCHANGED <<dir_entry, index, count, fresh>>
  BY DEF InitInitrd
<1>2. Offset = 0 /\ (FilesFit' <=> FilesFit) /\ DOMAIN image = 0 .. ImageSize - 1
  BY <1>1 DEF Offset, FilesFit, RamdiskInv, ImageInv
<1>3. CASE tool # "done"
  <2>1. image[0] = 0
    BY <1>1, <1>3 DEF RamdiskInv, ImageInv
  <2>2. \A k \in 0 .. image[0] - 1 : FALSE
    BY <2>1
  <2>3. image' = [o \in DOMAIN image |-> image[o]]
    BY <1>1, <2>2, Zenon
  <2>4. \A o \in Nat : o < ImageSize => image'[o] = image[o]
    BY <1>2, <2>3, Sizes
  <2>5. FilesFit => AllHeld(dir, at, image', end, 0)
    BY <1>2, <2>4, HeldKept
  <2>6. Offset' = 0
    BY <1>1, <1>3 DEF Offset
  <2>7. WrittenInv'
    BY <1>1, <1>2, <2>5, <2>6, Zenon DEF ContentInv, WrittenInv
  <2>8. NodesInv' /\ CountInv' /\ index' \in Nat
    BY <1>1, <1>3 DEF ContentInv, NodesInv, CountInv
  <2>9. QED
    BY <2>7, <2>8 DEF ContentInv
<1>4. CASE tool = "done"
  <2>1. Offset' = Location
    BY <1>1, <1>4 DEF Offset
  <2>2. ASSUME FilesFit PROVE AllHeld(dir, at, image', end, Location)
    <3>1. SUFFICES ASSUME NEW i \in Regular(dir), i < at
                   PROVE  \E start \in Nat :
                            /\ HeaderAt(MaxFiles) <= start
                            /\ start + Len(dir[i].data) <= end
                            /\ Holds(image', Place(dir, i) - 1, dir[i], start, Location)
      BY Zenon DEF AllHeld
    <3>2. dir[i] \in DirEntry /\ Place(dir, i) - 1 \in 0 .. num_files - 1
      BY <1>4, <2>2, FileInImage, Zenon
    <3>3. PICK start \in Nat :
            /\ HeaderAt(MaxFiles) <= start /\ start + Len(dir[i].data) <= ImageSize
            /\ start + Len(dir[i].data) <= end
            /\ Holds(image, Place(dir, i) - 1, dir[i], start, 0)
      BY <1>2, <1>4, <2>2, FileInImage, Zenon
    <3>4. /\ num_files \in Nat /\ num_files <= MaxFiles
          /\ image' = [o \in DOMAIN image |->
                         IF \E m \in 0 .. num_files - 1 : o = StartAt(m)
                         THEN image[o] + Location ELSE image[o]]
      BY <1>1, <1>4, <2>2, Complete, Zenon
    <3>5. Holds(image', Place(dir, i) - 1, dir[i], start, Location)
      BY <1>2, <3>2, <3>3, <3>4, HoldsMoved
    <3>6. QED
      BY <3>3, <3>5, Zenon
  <2>3. WrittenInv'
    BY <1>1, <1>2, <2>1, <2>2, Zenon DEF ContentInv, WrittenInv
  <2>4. ASSUME FilesFit
        PROVE  /\ DOMAIN root_nodes' = 0 .. num_files - 1
               /\ \A k \in 0 .. num_files - 1 : root_nodes'[k].inode = k
               /\ fresh = NUL => \A i \in Regular(dir) :
                    root_nodes'[Place(dir, i) - 1].name = Padded(dir[i].name)
    <3>1. root_nodes' = [k \in 0 .. num_files - 1 |->
                          [name   |-> strcpy(Filled(fresh), NameAt(k)),
                           length |-> image[LengthAt(k)], inode |-> k]]
      BY <1>1, <1>4, <2>4, Complete, Zenon
    <3>2. DOMAIN root_nodes' = 0 .. num_files - 1
      BY <3>1
    <3>3. \A k \in 0 .. num_files - 1 : root_nodes'[k].inode = k
      BY <3>1
    <3>4. ASSUME fresh = NUL, NEW i \in Regular(dir)
          PROVE  root_nodes'[Place(dir, i) - 1].name = Padded(dir[i].name)
      <4>1. dir[i].name \in Names /\ Place(dir, i) - 1 \in 0 .. num_files - 1
        BY <1>4, <2>4, FileInImage, Zenon
      <4>2. NameAt(Place(dir, i) - 1) = HostName(dir[i].name)
        <5>1. PICK start \in Nat : Holds(image, Place(dir, i) - 1, dir[i], start, Offset)
          BY <1>4, <2>4, FileInImage, Zenon
        <5>2. \A j \in 0 .. NameLen - 1 :
                image[HeaderAt(Place(dir, i) - 1) + j] = HostName(dir[i].name)[j]
          BY <5>1 DEF Holds
        <5>3. NameAt(Place(dir, i) - 1)
                = [j \in 0 .. NameLen - 1 |-> HostName(dir[i].name)[j]]
          BY <5>2, Zenon DEF NameAt
        <5>4. HostName(dir[i].name)
                = [j \in 0 .. NameLen - 1 |-> HostName(dir[i].name)[j]]
          BY Zenon DEF HostName
        <5>5. QED
          BY <5>3, <5>4, Zenon
      <4>3. /\ DOMAIN Filled(NUL) = 0 .. NameLen - 1
            /\ \A k \in 0 .. NameLen - 1 : Filled(NUL)[k] = NUL
        BY DEF Filled
      <4>4. strcpy(Filled(NUL), HostName(dir[i].name)) = Padded(dir[i].name)
        BY <4>1, <4>3, BothSpell, Copies, Zenon
      <4>5. root_nodes'[Place(dir, i) - 1].name
              = strcpy(Filled(fresh), NameAt(Place(dir, i) - 1))
        BY <3>1, <4>1
      <4>6. QED
        BY <3>4, <4>2, <4>4, <4>5, Zenon
    <3>5. QED
      BY <3>2, <3>3, <3>4
  <2>5. at = Len(dir) + 1
    BY <1>4 DEF ContentInv, NodesInv
  <2>6. NodesInv'
    BY <1>1, <1>2, <2>4, <2>5, Zenon DEF NodesInv
  <2>7. CountInv' /\ index' \in Nat
    <3>1. index = 0
      BY <1>1 DEF ContentInv, CountInv
    <3>2. QED
      BY <1>1, <3>1 DEF ContentInv, CountInv, Booted
  <2>8. QED
    BY <2>3, <2>6, <2>7 DEF ContentInv
<1>5. QED
  BY <1>3, <1>4

LEMMA NumberOfNodes ==
  ASSUME RamdiskInv, ContentInv, tool = "done", FilesFit, phase # "off"
  PROVE  /\ DOMAIN root_nodes = 0 .. num_files - 1 /\ num_files \in Nat
         /\ \A n : EndOfDir(n) <=> n >= num_files
<1>1. DOMAIN root_nodes = 0 .. num_files - 1
  BY DEF ContentInv, NodesInv
<1>2. num_files \in Nat
  BY Complete
<1>3. Cardinality(0 .. num_files - 1) = num_files
  <2>1. 0 \in Int /\ num_files - 1 \in Int
    BY <1>2
  <2>2. Cardinality(0 .. num_files - 1)
          = IF 0 > num_files - 1 THEN 0 ELSE (num_files - 1) - 0 + 1
    BY <2>1, FS_Interval
  <2>3. QED
    BY <1>2, <2>2
<1>4. QED
  BY <1>1, <1>2, <1>3 DEF EndOfDir

\* The first call of initrd_read_dir gives "dev", which is a directory.
LEMMA DevCounted ==
  ASSUME dir_entry = Filled(NUL), index = 0, CountEntry
  PROVE  dir_entry' = Padded(dev) /\ count' = count
<1>1. dir_entry' = strcpy(Filled(NUL), HostName(dev))
  BY DEF CountEntry, ReadDirName
<1>2. /\ DOMAIN Filled(NUL) = 0 .. NameLen - 1
      /\ \A k \in 0 .. NameLen - 1 : Filled(NUL)[k] = NUL
  BY DEF Filled
<1>3. dir_entry' = Padded(dev)
  BY <1>1, <1>2, DevIsName, BothSpell, Copies, Zenon
<1>4. Same(dir_entry', HostName(dev))
  BY <1>3, DevIsName, BothSpell, SameNames, Zenon
<1>5. FindDir(dir_entry') = "dir"
  BY <1>4 DEF FindDir
<1>6. QED
  BY <1>3, <1>5 DEF CountEntry

\* Every other call gives the name of a file, which is found.
LEMMA FileCounted ==
  ASSUME RamdiskInv, ContentInv, tool = "done", FilesFit, NamesFit, CountEntry,
         NEW i \in Regular(dir), index \in Nat \ {0}, Place(dir, i) = index
  PROVE  dir_entry' = Padded(dir[i].name) /\ count' = count + 1
<1> DEFINE name == dir[i].name
<1>1. name \in Names /\ index - 1 \in DOMAIN root_nodes
      /\ root_nodes[index - 1].name = Padded(name)
  <2>1. name \in Names /\ Place(dir, i) - 1 \in 0 .. num_files - 1
    BY FileInImage, Zenon
  <2>2. phase = "count" /\ fresh = NUL
    BY DEF CountEntry, NamesFit
  <2>3. /\ DOMAIN root_nodes = 0 .. num_files - 1
        /\ root_nodes[Place(dir, i) - 1].name = Padded(name)
    BY <2>2, Zenon DEF ContentInv, NodesInv
  <2>4. QED
    BY <2>1, <2>3, Zenon
<1>2. \E prev \in Names : Len(prev) <= Len(name) /\ dir_entry = Padded(prev)
  <2>1. CASE index = 1
    <3>1. dir_entry = Padded(dev)
      BY <2>1 DEF ContentInv, CountInv
    <3>2. Len(name) >= Len(dev)
      BY DEF NamesFit
    <3>3. Len(dev) <= Len(name)
      BY <1>1, <3>2, DevIsName, NameType
    <3>4. QED
      BY <3>1, <3>3, DevIsName, Zenon
  <2>2. CASE index # 1
    <3>1. index > 1
      BY <2>2
    <3>2. PICK j \in Regular(dir) :
            Place(dir, j) = index - 1 /\ dir_entry = Padded(dir[j].name)
      BY <3>1, Zenon DEF ContentInv, CountInv
    <3>3. Place(dir, j) < Place(dir, i)
      BY <3>2
    <3>4. j < i
      BY <3>3, DirType, Places
    <3>5. Len(dir[j].name) <= Len(name)
      BY <3>4, Zenon DEF NamesFit
    <3>6. dir[j].name \in Names
      BY FileInImage, Zenon
    <3>7. QED
      BY <3>2, <3>5, <3>6, Zenon
  <2>3. QED
    BY <2>1, <2>2
<1>3. PICK prev \in Names : Len(prev) <= Len(name) /\ dir_entry = Padded(prev)
  BY <1>2
<1> HIDE DEF name
<1>4. dir_entry' = strcpy(dir_entry, Padded(name))
  BY <1>1 DEF CountEntry, ReadDirName
<1>5. /\ DOMAIN dir_entry = 0 .. NameLen - 1
      /\ \A k \in 0 .. NameLen - 1 : k >= Len(name) => dir_entry[k] = NUL
  <2>1. DOMAIN dir_entry = 0 .. NameLen - 1
    BY <1>3 DEF Padded
  <2>2. ASSUME NEW k \in 0 .. NameLen - 1, k >= Len(name) PROVE dir_entry[k] = NUL
    <3>1. ~ (k < Len(prev))
      BY <1>1, <1>3, <2>2, NameType
    <3>2. QED
      BY <1>3, <3>1, Zenon DEF Padded
  <2>3. QED
    BY <2>1, <2>2
<1>6. dir_entry' = Padded(name)
  BY <1>1, <1>4, <1>5, BothSpell, Copies, Zenon
<1>7. name # dev
  BY DEF NamesFit, name
<1>8. ~ Same(dir_entry', HostName(dev))
  BY <1>1, <1>6, <1>7, DevIsName, BothSpell, SameNames, Zenon
<1>9. Same(dir_entry', root_nodes[index - 1].name)
  <2>1. Spells(Padded(name), name)
    BY <1>1, BothSpell
  <2>2. Same(Padded(name), Padded(name))
    BY <1>1, <2>1, SameNames
  <2>3. QED
    BY <1>1, <1>6, <2>2, Zenon
<1>10. FindDir(dir_entry') = "file"
  BY <1>1, <1>8, <1>9, Zenon DEF FindDir
<1>11. QED
  BY <1>6, <1>10 DEF CountEntry, name

LEMMA CountEntryKeepsFiles ==
  ASSUME RamdiskInv, ContentInv, CountEntry
  PROVE  ContentInv'
<1>1. /\ phase = "count" /\ phase' = "count" /\ index' = index + 1 /\ index \in Nat
      /\ index > 0 => ~ EndOfDir(index - 1)
      /\ UNCHANGED <<dir, at, image, header_pos, end, num_files, tool, root_nodes, fresh>>
  BY DEF CountEntry, toolVars, ContentInv
<1>2. Offset' = Offset /\ (FilesFit' <=> FilesFit) /\ (NamesFit' <=> NamesFit)
  BY <1>1 DEF Offset, FilesFit, NamesFit
<1>3. WrittenInv' /\ NodesInv'
  BY <1>1, <1>2, Zenon DEF ContentInv, WrittenInv, NodesInv
<1>4. ASSUME tool = "done", FilesFit, NamesFit
      PROVE  /\ index' = 1 => dir_entry' = Padded(dev)
             /\ index' > 1 => \E i \in Regular(dir) :
                  Place(dir, i) = index' - 1 /\ dir_entry' = Padded(dir[i].name)
             /\ count' = index' - 1 /\ index' - 1 <= num_files
  <2>1. num_files \in Nat
    BY <1>4, Complete
  <2>2. CASE index = 0
    <3>1. dir_entry' = Padded(dev) /\ count' = 0
      BY <2>2, DevCounted DEF ContentInv, CountInv
    <3>2. QED
      BY <1>1, <2>1, <2>2, <3>1
  <2>3. CASE index # 0
    <3>1. index - 1 \in 0 .. num_files - 1
      BY <1>1, <1>4, <2>3, NumberOfNodes
    <3>2. PICK i \in Regular(dir) : Place(dir, i) = (index - 1) + 1
      BY <3>1, Zenon DEF ContentInv, WrittenInv, AllFound
    <3>3. Place(dir, i) = index
      BY <1>1, <3>2
    <3>4. dir_entry' = Padded(dir[i].name) /\ count' = count + 1
      BY <1>1, <1>4, <2>3, <3>3, FileCounted
    <3>5. count = index - 1
      BY <1>1, <1>4, <2>3 DEF ContentInv, CountInv
    <3>6. QED
      BY <1>1, <2>1, <2>3, <3>1, <3>3, <3>4, <3>5
  <2>4. QED
    BY <2>2, <2>3
<1>5. index' # 0 /\ index' \in Nat /\ ~ Booted'
  BY <1>1 DEF Booted
<1>6. CountInv'
  BY <1>1, <1>2, <1>4, <1>5, Zenon DEF CountInv
<1>7. QED
  BY <1>3, <1>5, <1>6 DEF ContentInv

LEMMA InitInitrdEmptyKeepsFiles ==
  ASSUME RamdiskInv, ContentInv, InitInitrdEmpty
  PROVE  ContentInv'
<1>1. /\ phase = "off" /\ phase' = "lost" /\ tool # "done" /\ tool' # "done"
      /\ UNCHANGED <<dir, at, image, header_pos, end, num_files, tool,
                     dir_entry, index, count, fresh>>
  BY DEF InitInitrdEmpty, EmptyFile, toolVars
<1>2. Offset' = Offset /\ (FilesFit' <=> FilesFit)
  BY <1>1 DEF Offset, FilesFit
<1>3. WrittenInv'
  BY <1>1, <1>2, Zenon DEF ContentInv, WrittenInv
<1>4. NodesInv' /\ CountInv'
  BY <1>1 DEF ContentInv, NodesInv, CountInv
<1>5. QED
  BY <1>1, <1>3, <1>4 DEF ContentInv

LEMMA CountDoneKeepsFiles ==
  ASSUME RamdiskInv, ContentInv, CountDone
  PROVE  ContentInv'
<1>1. /\ phase = "count" /\ phase' = "ready" /\ index > 0 /\ EndOfDir(index - 1)
      /\ UNCHANGED <<dir, at, image, header_pos, end, num_files, tool, root_nodes,
                     dir_entry, index, count, fresh>>
  BY DEF CountDone, toolVars
<1>2. Offset' = Offset /\ (FilesFit' <=> FilesFit) /\ (NamesFit' <=> NamesFit)
  BY <1>1 DEF Offset, FilesFit, NamesFit
<1>3. WrittenInv' /\ NodesInv'
  BY <1>1, <1>2, Zenon DEF ContentInv, WrittenInv, NodesInv
<1>4. ASSUME tool = "done", FilesFit, NamesFit PROVE index - 1 = num_files
  <2>1. index - 1 >= num_files /\ num_files \in Nat
    BY <1>1, <1>4, NumberOfNodes
  <2>2. index - 1 <= num_files /\ index \in Nat
    BY <1>1, <1>4 DEF ContentInv, CountInv
  <2>3. QED
    BY <2>1, <2>2
<1>5. CountInv'
  BY <1>1, <1>2, <1>4, Zenon DEF ContentInv, CountInv
<1>6. QED
  BY <1>1, <1>3, <1>5 DEF ContentInv

-----------------------------------------------------------------------------
(***************************************************************************)
(* The theorems about the files of the ramdisk.                            *)
(***************************************************************************)

LEMMA ContentStep == RamdiskInv /\ ContentInv /\ [Next]_vars => ContentInv'
<1> SUFFICES ASSUME RamdiskInv, ContentInv, [Next]_vars PROVE ContentInv'
  OBVIOUS
<1>1. ASSUME UNCHANGED <<dir, at, image, header_pos, end, num_files, tool, root_nodes,
                         dir_entry, index, count, fresh>>,
             phase' = phase \/ (phase = "ready" /\ phase' = "halted")
      PROVE  ContentInv'
  <2>1. /\ Offset' = Offset /\ (FilesFit' <=> FilesFit) /\ (NamesFit' <=> NamesFit)
        /\ (phase' = "off" <=> phase = "off") /\ (Booted' <=> Booted)
    BY <1>1 DEF Offset, FilesFit, NamesFit, Booted
  <2>2. WrittenInv' /\ NodesInv'
    BY <1>1, <2>1, Zenon DEF ContentInv, WrittenInv, NodesInv
  <2>3. CountInv'
    BY <1>1, <2>1, Zenon DEF ContentInv, CountInv
  <2>4. QED
    BY <1>1, <2>2, <2>3 DEF ContentInv
<1>2. CASE MakeInitrd
  BY <1>2, AddFileKeepsFiles, SkipEntryKeepsFiles, AbandonKeepsFiles, FinishKeepsFiles
  DEF MakeInitrd, OpenFails, Killed
<1>3. CASE InitrdNext
  BY <1>2, <1>3, InitInitrdKeepsFiles, InitInitrdEmptyKeepsFiles, CountEntryKeepsFiles,
     CountDoneKeepsFiles
  DEF InitrdNext
<1>4. ASSUME Call, phase' \in {phase, "halted"} PROVE ContentInv'
  BY <1>1, <1>4 DEF Call, toolVars
<1>5. CASE UNCHANGED vars
  BY <1>1, <1>5 DEF vars, initrdVars, toolVars
<1>6. CASE Next
  <2>1. ASSUME NEW node, Mount(node) PROVE ContentInv'
    BY <1>4, <2>1 DEF Mount, Panic
  <2>2. ASSUME NEW n, \/ \E path \in Paths : Open(n, path)
                      \/ Close(n) \/ ReadDir(n) \/ WriteNode(n)
        PROVE  ContentInv'
    BY <1>4, <2>2 DEF Open, Close, ReadDir, WriteNode, Panic
  <2>3. ASSUME NEW n, NEW offset, NEW size, Read(n, offset, size) PROVE ContentInv'
    BY <1>4, <2>3 DEF Read, Panic
  <2>4. QED
    BY <1>3, <1>6, <2>1, <2>2, <2>3 DEF Next
<1>7. QED
  BY <1>5, <1>6

LEMMA RamdiskInit == Init => RamdiskInv /\ ContentInv
<1> SUFFICES ASSUME Init PROVE RamdiskInv /\ ContentInv
  OBVIOUS
<1>1. HeaderAt(MaxFiles) \in Nat \ {0}
  BY HeadersOrdered, Sizes
<1>2. RamdiskInv
  BY ImageInit
<1>3. /\ at = 1 /\ num_files = 0 /\ header_pos = 1 /\ end = HeaderAt(MaxFiles)
      /\ tool = "run" /\ phase = "off" /\ index = 0 /\ count = 0
      /\ dir_entry = Filled(NUL)
  BY DEF Init, InitrdInit
<1>4. Place(dir, 0) = 0 /\ HeaderAt(0) = 1 /\ Len(dir) \in Nat
  <2>1. HeaderAt(0) = 1
    BY HeadersOrdered DEF HeaderAt
  <2>2. QED
    BY <1>2, <2>1, PlaceZero, DirType
<1>5. AllFound(dir, 1, 0)
  BY DEF AllFound
<1>6. AllHeld(dir, 1, image, end, Offset)
  <2>1. ASSUME NEW i \in Regular(dir) PROVE ~ (i < 1)
    BY <1>2, DirType, Places
  <2>2. QED
    BY <2>1, Zenon DEF AllHeld
<1>7. WrittenInv
  <2>1. at <= Len(dir) + 1 /\ num_files = Place(dir, at - 1)
    BY <1>3, <1>4
  <2>2. header_pos = HeaderAt(num_files) /\ HeaderAt(MaxFiles) <= end
    BY <1>1, <1>3, <1>4
  <2>3. QED
    BY <1>3, <1>5, <1>6, <2>1, <2>2, Zenon DEF WrittenInv
<1>8. NodesInv /\ CountInv /\ index \in Nat
  BY <1>3 DEF NodesInv, CountInv
<1>9. QED
  BY <1>2, <1>7, <1>8 DEF ContentInv

\* The number of files the kernel prints is that of the regular files of the
\* source directory, whatever else the directory holds.
THEOREM EveryFileIsCounted == Spec => []FilesCounted
<1>1. RamdiskInv /\ ContentInv => FilesCounted
  <2>1. SUFFICES ASSUME RamdiskInv, ContentInv, Booted, tool = "done", FilesFit, NamesFit
                 PROVE  count = Place(dir, Len(dir))
    BY DEF FilesCounted
  <2>2. index > 0 /\ count = index - 1 /\ index - 1 = num_files
    BY <2>1 DEF ContentInv, CountInv
  <2>3. num_files = Place(dir, Len(dir))
    BY <2>1, Complete
  <2>4. QED
    BY <2>2, <2>3
<1>2. QED
  BY <1>1, RamdiskInit, RamdiskStep, ContentStep, PTL DEF Spec

\* A part of a sequence, entry by entry.
LEMMA SubSeqIs ==
  ASSUME NEW s \in Seq(Nat), NEW m \in Nat, NEW n \in Nat, m <= n, n <= Len(s)
  PROVE  SubSeq(s, m + 1, n) = [j \in 1 .. n - m |-> s[m + j]]
<1> DEFINE t == SubSeq(s, m + 1, n)
<1>1. \A i \in m + 1 .. n : s[i] \in Nat
  OBVIOUS
<1>2. m + 1 \in Int /\ n \in Int
  OBVIOUS
<1>3. /\ t \in Seq(Nat) /\ Len(t) = IF m + 1 <= n THEN n - (m + 1) + 1 ELSE 0
      /\ \A i \in 1 .. n - (m + 1) + 1 : t[i] = s[(m + 1) + i - 1]
  BY <1>1, <1>2, SubSeqProperties
<1> HIDE DEF t
<1>4. Len(t) = n - m
  BY <1>3
<1>5. ASSUME NEW j \in 1 .. n - m PROVE t[j] = s[m + j]
  <2>1. j \in 1 .. n - (m + 1) + 1 /\ (m + 1) + j - 1 = m + j
    OBVIOUS
  <2>2. QED
    BY <1>3, <2>1, Zenon
<1>6. t = [j \in 1 .. n - m |-> t[j]]
  BY <1>3, <1>4
<1>7. QED
  BY <1>5, <1>6, Zenon DEF t

\* initrd_read returns what the source file has there.
LEMMA ReadIsRight ==
  ASSUME RamdiskInv, ContentInv, Booted, tool = "done", FilesFit, NEW i \in Regular(dir),
         NEW offset \in Nat, NEW size \in Nat, offset + size < SizeMod
  PROVE  InitrdRead(Place(dir, i) - 1, offset, size)
           = SubSeq(dir[i].data, offset + 1, Min({offset + size, Len(dir[i].data)}))
<1> DEFINE k == Place(dir, i) - 1
           data == dir[i].data
           length == Len(data)
           last == Min({offset + size, length})
<1>1. dir[i] \in DirEntry /\ length \in Nat /\ k \in 0 .. num_files - 1
  BY FileInImage, Zenon
<1>2. phase # "off" /\ Offset = Location
  BY DEF Booted, Offset
<1>3. PICK start \in Nat :
        start + length <= ImageSize /\ Holds(image, k, dir[i], start, Location)
  BY <1>2, FileInImage, Zenon
<1>4. /\ root_nodes[k].inode = k
      /\ image[StartAt(k)] = start + Location /\ image[LengthAt(k)] = length
      /\ \A j \in 1 .. length : image[start + j - 1] = data[j]
  BY <1>1, <1>2, <1>3, Zenon DEF Holds, ContentInv, NodesInv
<1>5. data \in Seq(Nat)
  BY <1>1 DEF DirEntry
<1>6. /\ offset + size <= length => last = offset + size
      /\ offset + size > length => last = length
  <2>1. offset + size \in Nat
    OBVIOUS
  <2>2. QED
    BY <1>1, <2>1, MinOfTwo
<1> HIDE DEF k, data, length, last
<1>7. InitrdRead(k, offset, size)
        = IF offset > length THEN <<>>
          ELSE [j \in 1 .. Clipped(length, offset, size) |->
                  Memory((start + Location) + offset + j - 1)]
  BY <1>4, Zenon DEF InitrdRead
<1>8. CASE offset > length
  <2>1. last = length /\ length < offset + 1 /\ offset + 1 \in Int /\ length \in Int
    BY <1>1, <1>6, <1>8
  <2>2. SubSeq(data, offset + 1, last) = <<>>
    BY <2>1, SubSeqEmpty
  <2>3. InitrdRead(k, offset, size) = SubSeq(data, offset + 1, last)
    BY <1>7, <1>8, <2>2, Zenon
  <2>4. QED
    BY <2>3, Zenon DEF k, data, length, last
<1>9. CASE offset <= length
  <2>1. last \in Nat /\ offset <= last /\ last <= length
    BY <1>1, <1>6, <1>9
  <2>2. Clipped(length, offset, size) = last - offset
    <3>1. (offset + size) % SizeMod = offset + size
      BY InitrdAssumption
    <3>2. QED
      BY <1>1, <1>6, <3>1 DEF Clipped
  <2>3. ASSUME NEW j \in 1 .. last - offset
        PROVE  Memory((start + Location) + offset + j - 1) = data[offset + j]
    <3>1. /\ ((start + Location) + offset + j - 1) - Location = start + (offset + j) - 1
          /\ offset + j \in 1 .. length
          /\ start + (offset + j) - 1 \in 0 .. ImageSize - 1
      BY <1>1, <1>3, <2>1, Sizes
    <3>2. DOMAIN image = 0 .. ImageSize - 1
      BY DEF RamdiskInv, ImageInv
    <3>3. QED
      BY <1>4, <3>1, <3>2, Zenon DEF Memory
  <2>4. SubSeq(data, offset + 1, last) = [j \in 1 .. last - offset |-> data[offset + j]]
    BY <1>5, <2>1, SubSeqIs DEF length
  <2>5. ~ (offset > length)
    BY <1>1, <1>9
  <2>6. InitrdRead(k, offset, size) = SubSeq(data, offset + 1, last)
    BY <1>7, <2>2, <2>3, <2>4, <2>5, Zenon
  <2>7. QED
    BY <2>6, Zenon DEF k, data, length, last
<1>10. offset > length \/ offset <= length
  BY <1>1
<1>11. QED
  BY <1>8, <1>9, <1>10, Zenon

\* Reading a file of the ramdisk gives the bytes of the source file, for every
\* file, offset and size.
THEOREM RamdiskReadsRight == Spec => []ReadsRight
<1>1. RamdiskInv /\ ContentInv => ReadsRight
  <2>1. \A x \in 0 .. SizeMod - 1 : x \in Nat
    OBVIOUS
  <2>2. QED
    BY <2>1, ReadIsRight, Zenon DEF ReadsRight
<1>2. QED
  BY <1>1, RamdiskInit, RamdiskStep, ContentStep, PTL DEF Spec

=============================================================================
