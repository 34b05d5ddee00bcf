----------------------------- MODULE FileStream -----------------------------
(***************************************************************************)
(* What an open file promises its reader: a call for n bytes hands over    *)
(* the next n bytes of the file, or as many as are left, in order and each *)
(* once.  The kernel may stop instead of answering only where the file is  *)
(* too large for the implementation, or where the reader asks to seek.     *)
(*                                                                         *)
(* A byte of the file is represented by its offset.                        *)
(***************************************************************************)
EXTENDS Integers

CONSTANTS
  FileSizes,  \* sizes a file may have
  Counts,     \* counts a reader may ask for
  Limit       \* smallest size of a file that may be refused

VARIABLES
  status,  \* "closed", "idle", "reading" or "halted"
  size,    \* size of the open file
  pos,     \* offset of the next byte
  asked,   \* count of the call being answered
  buf      \* the reader's buffer: buf[k] is the offset of the byte in it

streamVars == <<status, size, pos, asked, buf>>

NoBytes == [k \in {} |-> 0]

\* Bytes a call for n bytes gets.
Available(n) == IF n <= size - pos THEN n ELSE size - pos

Init ==
  /\ status = "closed"
  /\ size = 0 /\ pos = 0 /\ asked = 0
  /\ buf = NoBytes

Open ==
  /\ status = "closed" /\ status' = "idle"
  /\ size' \in FileSizes
  /\ pos' = 0 /\ asked' = 0
  /\ buf' = NoBytes

Call ==
  /\ status = "idle" /\ status' = "reading"
  /\ asked' \in Counts
  /\ buf' = NoBytes
  /\ UNCHANGED <<size, pos>>

Answer ==
  /\ status = "reading" /\ status' = "idle"
  /\ buf' = [k \in 0 .. Available(asked) - 1 |-> pos + k]
  /\ pos' = pos + Available(asked)
  /\ UNCHANGED <<size, asked>>

TooLarge ==
  /\ status = "reading" /\ status' = "halted"
  /\ size >= Limit
  /\ UNCHANGED <<size, pos, asked, buf>>

SeekRefused ==
  /\ status = "idle" /\ status' = "halted"
  /\ asked' \in Counts
  /\ buf' = NoBytes
  /\ UNCHANGED <<size, pos>>

Close ==
  /\ status = "idle" /\ status' = "closed"
  /\ buf' = NoBytes
  /\ UNCHANGED <<size, pos, asked>>

Next == Open \/ Call \/ Answer \/ TooLarge \/ SeekRefused \/ Close

Spec == Init /\ [][Next]_streamVars

=============================================================================
