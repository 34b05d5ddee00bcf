------------------------------- MODULE MCVfs --------------------------------
(***************************************************************************)
(* An instance of Vfs for TLC: directories of up to three entries in a     *)
(* ramdisk for two files.                                                  *)
(***************************************************************************)
EXTENDS Vfs

F(name, data) == [kind |-> "reg", name |-> name, data |-> data]

MCEntries ==
  {[kind |-> "other", name |-> <<46>>, data |-> <<>>],
   [kind |-> "unreadable", name |-> <<9, 9, 9>>, data |-> <<>>],
   F(<<1, 2, 3>>, <<11, 12, 13>>), F(<<1, 2, 3, 4>>, <<14>>), F(<<7>>, <<>>), F(dev, <<15, 16>>)}

\* No two files of a directory have the same name.
MCDirectories ==
  UNION {{d \in [1 .. n -> MCEntries] :
            \A j, k \in 1 .. n : j # k => d[j].name # d[k].name} : n \in 0 .. 3}

MCVolume == [p \in {"a", "b"} |-> [inode |-> IF p = "a" THEN 11 ELSE 12, length |-> 2]]

=============================================================================
