------------------------------ MODULE MCPaging ------------------------------
(***************************************************************************)
(* Instances of Paging for TLC: pages of 8 bytes, 24 frames, words of the  *)
(* bitset of 2 bytes of 4 bits, tables of 4 entries.                       *)
(***************************************************************************)
EXTENDS Paging

\* The memory behind the bytes init_paging clears: clear or full.
MCGarbage == {{}, Frames}

=============================================================================
