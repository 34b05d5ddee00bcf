------------------------------- MODULE MCPata -------------------------------
(***************************************************************************)
(* Instances of Pata for TLC: addresses of 4 bits in 4 registers.          *)
(***************************************************************************)
EXTENDS Pata

\* Every combination of drives, on buses that do not float or both do.
MCMachines ==
  {m \in Machine : m.bad \in {{}, {2}} /\ m.floating = {}}
    \cup {[kind |-> [k \in Drives |-> "none"], floating |-> {1, 2}, bad |-> {}]}

\* One bus has a drive, the other one floats.
MCHalfMachines ==
  {[kind |-> [k \in Drives |-> IF k = n THEN "ata" ELSE "none"],
    floating |-> {3 - Bus(n)}, bad |-> {}] : n \in Drives}

MCRequests == {<<0, 1>>, <<1, 3>>, <<5, 3>>, <<9, 3>>, <<16, 1>>}

=============================================================================
