--------------------------------- MODULE Vfs --------------------------------
(***************************************************************************)
(* The virtual filesystem: the calls of src/fs/vfs.c through the functions *)
(* of a node, and the ext2 nodes of src/fs/ext2_vfs.c, mounted on the      *)
(* ramdisk of Initrd.                                                      *)
(*                                                                         *)
(* Nothing in the kernel uses a mounted volume yet.  The client here       *)
(* copies the root node of the volume, gives the copy a path and opens it; *)
(* it takes an inode of 0 for a failure, reads and closes only what it has *)
(* opened, and opens again only what it has closed.                        *)
(***************************************************************************)
EXTENDS Initrd, Functions

CONSTANTS
  Clients,  \* nodes of the client
  Paths,    \* paths it may open
  Volume,   \* the files of the volume: path to [inode, length]
  Addrs     \* where kmalloc may put an Ext2_file; a bound on open files

ASSUME VfsAssumption ==
  /\ Volume \in [DOMAIN Volume -> [inode : Nat \ {0}, length : Nat]]
  /\ DOMAIN Volume \subseteq Paths
  /\ Addrs \subseteq Nat \ {0}

FILE_NODE       == 1
DIR_NODE        == 2
MOUNTPOINT_NODE == 8
ROOT_INODE      == 2
NULL            == 0

MaxLength == Max({Volume[p].length : p \in DOMAIN Volume})

VARIABLES
  devNode,  \* type and node_ptr of initrd_dev
  nodes,    \* inode and impl of the client's nodes
  files,    \* the Ext2_files that are allocated: address to [inode, pos]
  opened    \* the client's nodes that it has open, and how much it has read

extVars == <<devNode, nodes, files, opened>>
vars    == <<initrdVars, extVars>>

-----------------------------------------------------------------------------

\* A call from the client.
Call == phase = "ready"
        /\ UNCHANGED <<toolVars, root_nodes, dir_entry, index, count, fresh>>

Panic == phase' = "halted"

\* type & flag
HasFlag(type, flag) == (type \div flag) % 2 = 1

\* ext2_mount: a volume is mounted on a directory where none is mounted.
Mount(node) ==
  /\ Call
  /\ IF /\ node.node_ptr = NULL /\ ~ HasFlag(node.type, MOUNTPOINT_NODE)
        /\ HasFlag(node.type, DIR_NODE)
     THEN /\ devNode' = [type |-> node.type + MOUNTPOINT_NODE, node_ptr |-> 1]
          /\ UNCHANGED phase
     ELSE Panic /\ UNCHANGED devNode
  /\ UNCHANGED <<nodes, files, opened>>

\* ext2_look_up_path
LookUp(path) == IF path \in DOMAIN Volume THEN Volume[path].inode ELSE 0

\* Fault: an impl that is there already is used again.
ImplsKept(n) ==
  IF nodes[n].impl = NULL THEN Addrs \ DOMAIN files ELSE {nodes[n].impl}

\* What kmalloc may return for the Ext2_file of a node: also where one was freed.
Impls(n) == Addrs \ DOMAIN files

\* The function f with a new argument.
Extended(f, a, v) == [b \in DOMAIN f \cup {a} |-> IF b = a THEN v ELSE f[b]]

\* open_fs_node and ext2_vfs_open, which leaves impl alone when the path is not
\* found.
Open(n, path) ==
  /\ Call /\ devNode.node_ptr # NULL /\ n \notin DOMAIN opened
  /\ LET inode == LookUp(path) IN
     IF inode = 0
     THEN nodes' = [nodes EXCEPT ![n].inode = 0] /\ UNCHANGED <<files, opened>>
     ELSE /\ \E a \in Impls(n) :
               /\ nodes' = [nodes EXCEPT ![n] = [inode |-> inode, impl |-> a]]
               /\ files' = Extended(files, a, [inode |-> inode, pos |-> 0])
          /\ opened' = Extended(opened, n, 0)
  /\ UNCHANGED <<phase, devNode>>

\* close_fs_node and ext2_vfs_close, which frees impl and leaves the pointer.
Close(n) ==
  /\ Call /\ n \in DOMAIN opened
  /\ files' = Restrict(files, DOMAIN files \ {nodes[n].impl})
  /\ opened' = Restrict(opened, DOMAIN opened \ {n})
  /\ UNCHANGED <<phase, devNode, nodes>>

\* How far ext2_read and ext2_next_dirent go in a file.
Advance(f, size) ==
  LET path == CHOOSE p \in DOMAIN Volume : Volume[p].inode = f.inode
  IN  Min({size, Volume[path].length - f.pos})

\* read_fs_node and ext2_vfs_read: no seeking.
Read(n, offset, size) ==
  /\ Call /\ n \in DOMAIN opened
  /\ LET f == files[nodes[n].impl] IN
     IF offset # f.pos THEN Panic /\ UNCHANGED <<files, opened>>
     ELSE /\ files' = [files EXCEPT ![nodes[n].impl].pos = @ + Advance(f, size)]
          /\ opened' = [opened EXCEPT ![n] = @ + Advance(f, size)]
          /\ UNCHANGED phase
  /\ UNCHANGED <<devNode, nodes>>

\* read_dir_node and ext2_vfs_read_dir: the next entry, here of length 1,
\* whatever index is asked for.
ReadDir(n) ==
  /\ Call /\ n \in DOMAIN opened
  /\ LET f == files[nodes[n].impl] IN
     /\ files' = [files EXCEPT ![nodes[n].impl].pos = @ + Advance(f, 1)]
     /\ opened' = [opened EXCEPT ![n] = @ + Advance(f, 1)]
  /\ UNCHANGED <<phase, devNode, nodes>>

\* write_fs_node and ext2_vfs_write
WriteNode(n) == Call /\ n \in DOMAIN opened /\ Panic /\ UNCHANGED extVars

Init ==
  /\ InitrdInit
  /\ devNode = [type |-> DIR_NODE, node_ptr |-> NULL]
  /\ nodes = [n \in Clients |-> [inode |-> ROOT_INODE, impl |-> NULL]]
  /\ files = <<>> /\ opened = <<>>

\* The node_ptr of a file of the ramdisk is never written.
FileNodes == [type : {FILE_NODE}, node_ptr : {NULL, 1}]

Next ==
  \/ InitrdNext /\ UNCHANGED extVars
  \/ \E node \in {devNode} \cup FileNodes : Mount(node)
  \/ \E n \in Clients :
       \/ \E path \in Paths : Open(n, path)
       \/ \E offset \in 0 .. MaxLength, size \in 1 .. MaxLength : Read(n, offset, size)
       \/ Close(n) \/ ReadDir(n) \/ WriteNode(n)

Spec == Init /\ [][Next]_vars

\* A node that was opened leads to an Ext2_file of its own that is allocated, is
\* the file's whose path was looked up, and stands where the reads through this
\* node left it, after failed opens and freed handles before.
HandleOfFile ==
  \A n \in DOMAIN opened :
    /\ nodes[n].impl \in DOMAIN files
    /\ files[nodes[n].impl] = [inode |-> nodes[n].inode, pos |-> opened[n]]
    /\ \A m \in DOMAIN opened \ {n} : nodes[m].impl # nodes[n].impl

=============================================================================
