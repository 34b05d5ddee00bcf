------------------------------- MODULE Initrd -------------------------------
(***************************************************************************)
(* The initial ramdisk: tools/make_initrd.c writes it on the build host,   *)
(* src/fs/initrd.c presents it in the kernel and file_count of src/main.c  *)
(* walks through it, with the string functions of src/lib/string.c.        *)
(*                                                                         *)
(* The image is a function from offsets to cells: a byte, or a size_t.     *)
(* size_t is taken to be as wide on the host as in the kernel.             *)
(***************************************************************************)
EXTENDS Integers, Sequences, FiniteSets, FiniteSetsExt

CONSTANTS
  MaxFiles,    \* MAX_FILES, 64
  NameLen,     \* MAX_NAME_LENGTH, 128
  SizeMod,     \* 2^32, what size_t wraps at
  ImageSize,   \* a bound on the image
  Location,    \* where the boot loader puts the image
  Junk,        \* what memory may hold that nobody wrote
  Directories  \* source directories

\* An entry of a directory: a regular file, something else, or a file that cannot
\* be opened.  A name has no terminator in it.
DirEntry ==
  [kind : {"reg", "other", "unreadable"}, name : Seq(Nat \ {0}), data : Seq(Nat)]

\* The number of files is a byte in the image.
ASSUME InitrdAssumption ==
  /\ MaxFiles \in 0 .. 255 /\ Location \in Nat
  /\ NameLen \in Nat /\ NameLen > 4
  /\ ImageSize \in Nat \ {0} /\ SizeMod \in Nat \ {0}
  /\ Directories \subseteq Seq(DirEntry)
  /\ \A d \in Directories : \A k \in DOMAIN d : Len(d[k].name) + 1 < NameLen

NUL == 0
dev == <<4, 5, 22>>

VARIABLES
  dir,         \* the directory make_initrd reads
  at,          \* the entry readdir returns next
  image,       \* the file, and later the memory it is loaded to
  header_pos,  \* the position of the next header
  end,         \* end
  num_files,   \* num_files
  tool,        \* "run", "failed" or "done"
  phase,       \* of the kernel: "off", "count" (file_count), "ready", "halted", "lost"
  root_nodes,  \* root_nodes
  dir_entry,   \* the name in the static dir_entry
  index,       \* i of file_count
  count,       \* count of file_count
  fresh        \* what kmalloc's memory holds

toolVars   == <<dir, at, image, header_pos, end, num_files, tool>>
initrdVars == <<toolVars, phase, root_nodes, dir_entry, index, count, fresh>>

-----------------------------------------------------------------------------
(***************************************************************************)
(* Names, in arrays of NameLen characters.                                 *)
(***************************************************************************)

Filled(c) == [k \in 0 .. NameLen - 1 |-> c]

\* strcpy of the host's library into an array with old content.
HostName(name) ==
  [k \in 0 .. NameLen - 1 |->
     IF k < Len(name) THEN name[k + 1] ELSE IF k = Len(name) THEN NUL ELSE Junk]

Length(a) == Min({k \in DOMAIN a : a[k] = NUL} \cup {NameLen})

\* strcpy: the terminator goes one character too far, behind whatever was there.
strcpy(dest, src) ==
  [k \in DOMAIN dest |-> IF k < Length(src) THEN src[k]
                         ELSE IF k = Length(src) + 1 THEN NUL ELSE dest[k]]

\* strcmp(a, b) == 0
Same(a, b) == Length(a) = Length(b) /\ \A k \in 0 .. Length(a) - 1 : a[k] = b[k]

-----------------------------------------------------------------------------
(***************************************************************************)
(* write_initrd, on the host.                                              *)
(***************************************************************************)

\* sizeof(File_header): a name, start and length.
HeaderSize == NameLen + 2

HeaderAt(k) == 1 + HeaderSize * k

Header(name, start, length) ==
  [k \in 1 .. HeaderSize |-> CASE k <= NameLen     -> HostName(name)[k - 1]
                               [] k = NameLen + 1 -> start
                               [] k = NameLen + 2 -> length]

\* lseek to an offset and write.
WriteAt(img, offset, cells) ==
  [o \in DOMAIN img |-> IF o \in offset .. offset + Len(cells) - 1
                        THEN cells[o - offset + 1] ELSE img[o]]

\* Fault: the number of files is kept up to date in the image.
WriteFileCounted(img, e) ==
  WriteAt(WriteAt(WriteAt(img, header_pos, Header(e.name, end, Len(e.data))),
                  end, e.data), 0, <<num_files + 1>>)

\* write_file: the header, then the data behind all headers.
WriteFile(img, e) ==
  WriteAt(WriteAt(img, header_pos, Header(e.name, end, Len(e.data))), end, e.data)

Entry == dir[at]

Reading == tool = "run" /\ at <= Len(dir) /\ at' = at + 1

\* ImageSize bounds the model.
AddFile ==
  /\ Reading /\ Entry.kind = "reg" /\ end + Len(Entry.data) <= ImageSize
  /\ image' = WriteFile(image, Entry)
  /\ header_pos' = header_pos + HeaderSize
  /\ end' = end + Len(Entry.data)
  /\ num_files' = num_files + 1
  /\ UNCHANGED <<dir, tool>>

\* Not a regular file, as "." and "..".
SkipEntry ==
  /\ Reading /\ Entry.kind = "other"
  /\ UNCHANGED <<dir, image, header_pos, end, num_files, tool>>

\* open or fstat failed: the image stays as it is by now.  The same if the
\* program is killed.
Abandon ==
  /\ tool = "run"
  /\ tool' = "failed"
  /\ UNCHANGED <<dir, at, image, header_pos, end, num_files>>

OpenFails == Abandon /\ at <= Len(dir) /\ Entry.kind = "unreadable"
Killed    == Abandon

\* The first byte is the number of files.
Finish ==
  /\ tool = "run" /\ at > Len(dir)
  /\ image' = WriteAt(image, 0, <<num_files % 256>>)
  /\ tool' = "done"
  /\ UNCHANGED <<dir, at, header_pos, end, num_files>>

MakeInitrd ==
  /\ (AddFile \/ SkipEntry \/ OpenFails \/ Killed \/ Finish)
  /\ UNCHANGED <<phase, root_nodes, dir_entry, index, count, fresh>>

-----------------------------------------------------------------------------
(***************************************************************************)
(* The kernel.                                                             *)
(***************************************************************************)

NameAt(k)   == [j \in 0 .. NameLen - 1 |-> image[HeaderAt(k) + j]]
StartAt(k)  == HeaderAt(k) + NameLen
LengthAt(k) == HeaderAt(k) + NameLen + 1

\* make_initrd has opened the file and written nothing yet.
EmptyFile == num_files = 0 /\ tool # "done"

\* init_initrd; an image that make did not finish is there all the same.
InitInitrd ==
  /\ phase = "off" /\ tool # "run" /\ ~ EmptyFile
  /\ LET files == 0 .. image[0] - 1 IN
     /\ image' = [o \in DOMAIN image |->
                    IF \E k \in files : o = StartAt(k) THEN image[o] + Location
                    ELSE image[o]]
     /\ root_nodes' = [k \in files |-> [name   |-> strcpy(Filled(fresh), NameAt(k)),
                                        length |-> image[LengthAt(k)], inode |-> k]]
  /\ phase' = "count"
  /\ UNCHANGED <<dir, at, header_pos, end, num_files, tool>>
  /\ UNCHANGED <<dir_entry, index, count, fresh>>

\* The first byte of the bitmap of frames: the first eight are in use.
FirstFrames == 255

\* An empty file ends where it starts, so that is where init_paging, called
\* before, has put the bitmap.  init_initrd takes its first byte for the number of
\* files and adds Location to words of the page directory and tables behind it:
\* what the kernel does then is not modelled.
InitInitrdEmpty ==
  /\ phase = "off" /\ tool # "run" /\ EmptyFile
  /\ root_nodes' = [k \in 0 .. FirstFrames - 1 |->
                      [name |-> Filled(Junk), length |-> Junk, inode |-> k]]
  /\ phase' = "lost"
  /\ UNCHANGED <<toolVars, dir_entry, index, count, fresh>>

\* Fault: one entry fewer is found.
EndOfDirShort(n) == n + 1 >= Cardinality(DOMAIN root_nodes)

\* index >= num_root_nodes
EndOfDir(n) == n >= Cardinality(DOMAIN root_nodes)

\* initrd_read_dir of the root directory: "dev", and then the files.
ReadDirName(n) ==
  strcpy(dir_entry, IF n = 0 THEN HostName(dev) ELSE root_nodes[n - 1].name)

\* initrd_find_dir: the types of the nodes a name may stand for; the first one
\* of that name counts, and none is the null pointer.
FindDir(name) ==
  IF Same(name, HostName(dev)) THEN "dir"
  ELSE IF \E k \in DOMAIN root_nodes : Same(name, root_nodes[k].name) THEN "file"
  ELSE "null"

\* One iteration of file_count.  It takes the type of a null pointer, too.
CountEntry ==
  /\ phase = "count"
  /\ index > 0 => ~ EndOfDir(index - 1)
  /\ dir_entry' = ReadDirName(index)
  /\ index' = index + 1
  /\ CASE FindDir(dir_entry') = "file" -> count' = count + 1
       [] FindDir(dir_entry') = "dir"  -> count' = count
       [] FindDir(dir_entry') = "null" -> count' \in {count, count + 1}
  /\ UNCHANGED <<toolVars, phase, root_nodes, fresh>>

CountDone ==
  /\ phase = "count" /\ index > 0 /\ EndOfDir(index - 1)
  /\ phase' = "ready"
  /\ UNCHANGED <<toolVars, root_nodes, dir_entry, index, count, fresh>>

Memory(addr) == IF addr - Location \in DOMAIN image THEN image[addr - Location]
                ELSE Junk

\* Fault: the length of the file is not looked at.
ClippedNot(length, offset, size) == size

\* The size of a read, cut off at the end of the file; the sum may wrap.
Clipped(length, offset, size) ==
  IF (offset + size) % SizeMod > length THEN length - offset ELSE size

\* initrd_read of node k
InitrdRead(k, offset, size) ==
  LET inode  == root_nodes[k].inode
      length == image[LengthAt(inode)]
  IN  IF offset > length THEN <<>>
      ELSE [j \in 1 .. Clipped(length, offset, size) |->
              Memory(image[StartAt(inode)] + offset + j - 1)]

InitrdInit ==
  /\ dir \in Directories /\ at = 1
  /\ image = [o \in 0 .. ImageSize - 1 |-> 0]
  /\ header_pos = 1 /\ end = HeaderAt(MaxFiles)
  /\ num_files = 0 /\ tool = "run"
  /\ phase = "off" /\ root_nodes = <<>> /\ dir_entry = Filled(NUL)
  /\ index = 0 /\ count = 0 /\ fresh \in {NUL, Junk}

InitrdNext ==
  MakeInitrd \/ InitInitrd \/ InitInitrdEmpty \/ CountEntry \/ CountDone

-----------------------------------------------------------------------------
(***************************************************************************)
(* Properties.                                                             *)
(***************************************************************************)

Booted == phase \in {"ready", "halted"}

Regular(d) == {i \in DOMAIN d : d[i].kind = "reg"}

\* The number of regular files among the first j entries of a directory.
Place(d, j) == Cardinality({i \in 1 .. j : d[i].kind = "reg"})

\* make_initrd does not check that MAX_FILES headers are enough.
FilesFit == Place(dir, Len(dir)) <= MaxFiles

\* What strcpy needs to end names where it should: clear memory, and in the one
\* dir_entry no name that is shorter than one before.  "dev" is taken.
NamesFit ==
  /\ fresh = NUL
  /\ \A i \in Regular(dir) :
       /\ Len(dir[i].name) >= Len(dev) /\ dir[i].name # dev
       /\ \A j \in Regular(dir) : i < j => Len(dir[i].name) <= Len(dir[j].name)

\* A make_initrd that wrote something and did not come to its end leaves an image
\* that shows no file at all in the kernel, because the number of files is written
\* last, in front of the first thing that was written.
AllOrNothing ==
  phase # "off" /\ tool = "failed" /\ ~ EmptyFile => DOMAIN root_nodes = {}

\* The "Found %u file(s)" of kernel_main is the number of regular files in the
\* source directory: each is listed by initrd_read_dir and found by its name.
FilesCounted ==
  Booted /\ tool = "done" /\ FilesFit /\ NamesFit => count = Place(dir, Len(dir))

\* Whatever part of a file is read through its node, initrd_read returns the
\* bytes the source file has there, and none that lie behind its end.
ReadsRight ==
  Booted /\ tool = "done" /\ FilesFit =>
    \A i \in Regular(dir) : \A offset, size \in 0 .. SizeMod - 1 :
      offset + size < SizeMod =>
        InitrdRead(Place(dir, i) - 1, offset, size)
          = SubSeq(dir[i].data, offset + 1, Min({offset + size, Len(dir[i].data)}))

=============================================================================
