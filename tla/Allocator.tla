----------------------------- MODULE Allocator -----------------------------
(***************************************************************************)
(* What kmalloc and kfree promise their callers: a block given out is      *)
(* disjoint from every other block in use, and the words of a block in use *)
(* change only when its owner writes them.                                 *)
(***************************************************************************)
EXTENDS Integers

CONSTANTS
  Address,  \* addresses a block may occupy
  Sizes     \* sizes a caller may ask for

VARIABLES
  blocks,   \* the blocks in use: [ptr, size]
  data,     \* the words at every address
  request   \* the size being asked for, 0 if none

allocVars == <<blocks, data, request>>

Span(b) == b.ptr .. b.ptr + b.size - 1

\* The words of a block are what they were.
Kept(b) == \A a \in Span(b) : data'[a] = data[a]

Init ==
  /\ blocks = {}
  /\ request = 0

Ask ==
  /\ request = 0
  /\ request' \in Sizes
  /\ UNCHANGED <<blocks, data>>

\* Words that are in no block may change: they are the allocator's.
Give ==
  /\ request # 0 /\ request' = 0
  /\ \E ptr \in Address :
       LET b == [ptr |-> ptr, size |-> request] IN
       /\ blocks' = blocks \cup {b}
       /\ Span(b) \subseteq Address
       /\ \A c \in blocks : Span(b) \cap Span(c) = {}
  /\ \A c \in blocks : Kept(c)

Prepare ==
  /\ request # 0
  /\ \A c \in blocks : Kept(c)
  /\ UNCHANGED <<blocks, request>>

Write ==
  /\ request = 0
  /\ \E b \in blocks : \A c \in blocks \ {b} : Kept(c)
  /\ UNCHANGED <<blocks, request>>

Release ==
  /\ request = 0
  /\ \E b \in blocks : blocks' = blocks \ {b}
  /\ \A c \in blocks' : Kept(c)
  /\ UNCHANGED request

Next == Ask \/ Prepare \/ Give \/ Write \/ Release

Spec == Init /\ [][Next]_allocVars

=============================================================================
