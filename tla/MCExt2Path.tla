----------------------------- MODULE MCExt2Path -----------------------------
(***************************************************************************)
(* Instances of Ext2Path for TLC: inode 2 is the root, 3 a directory, 4 a  *)
(* regular file.                                                           *)
(***************************************************************************)
EXTENDS Ext2Path, SequencesExt

MCNames == {"a", "b", "c"}

MCEmpty == ""

\* An entry with a name of one character, and pad bytes of padding.
File(i, name, pad) ==
  [inode_num |-> i, total_len |-> READ_SIZE + 1 + pad, name_len |-> 1,
   name |-> name]

\* Entries put one behind the other.
Laid(es) ==
  [k \in DOMAIN es |->
     "offset" :> FoldLeft(LAMBDA n, e : n + e.total_len, 0, SubSeq(es, 1, k - 1))
       @@ es[k]]

MCTree(root, dir, data) ==
  [dirs |-> {2, 3}, entries |-> 2 :> Laid(root) @@ 3 :> Laid(dir) @@ 4 :> Laid(data)]

\* Entries of a directory: distinct live names, in any order, with and without
\* padding, and a deleted entry whose name is not used again.
Listings ==
  {<<File(3, "a", 0), File(4, "b", 2)>>, <<File(4, "b", 1), File(3, "a", 0)>>,
   <<File(NONE, "c", 0), File(3, "a", 1), File(4, "b", 0)>>,
   <<File(4, "a", 3)>>, <<>>}

\* What the bytes of a regular file look like as directory entries.
Contents == {<<>>, <<File(NONE, "", 1)>>}

MCTrees == {MCTree(r, d, f) : r \in Listings, d \in Listings, f \in Contents}

MCPaths == SeqOf(MCNames, 3) \ {<<>>}

=============================================================================
