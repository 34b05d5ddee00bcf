---------------------------- MODULE PagingProofs ----------------------------
(***************************************************************************)
(* Proofs about Paging, for every size of memory, page, table and heap.    *)
(***************************************************************************)
EXTENDS Paging, TLAPS

\* align_up returns an address at or above its argument.
LEMMA AlignUpType ==
  ASSUME NEW a \in Nat
  PROVE  /\ AlignUp(a) \in Nat
         /\ AlignUp(a) >= a
<1>1. PageSize \in Nat /\ PageSize > 0
  BY PagingAssumption
<1>2. a % PageSize \in 0 .. PageSize - 1
  BY <1>1
<1> QED
  BY <1>1, <1>2 DEF AlignUp

\* Addresses of pages are ordered as the pages are.
LEMMA PageOrder ==
  ASSUME NEW p \in Nat, NEW q \in Nat, p <= q
  PROVE  p * PageSize <= q * PageSize
<1>1. PageSize \in Nat
  BY PagingAssumption
<1> QED
  BY <1>1

\* The types of the constants that the proofs use, without the bit arithmetic.
LEMMA ConstantTypes ==
  /\ PageSize \in Nat /\ PageSize > 0
  /\ HeapPage \in Nat /\ HeapBase \in Nat /\ HeapLimit \in Nat
  /\ HeapPage > 0 /\ HeapPage < HeapBase
  /\ HeapInitPages \in Nat /\ HeapMinPages \in Nat /\ HeapMinPages > 0
  /\ HeapBase + HeapMinPages <= HeapPage + HeapInitPages
  /\ HeapPage + HeapInitPages <= HeapLimit
  /\ NumFrames \in Nat /\ 0 \in Frames
  /\ BitmapBytes \in Nat /\ ZeroedFrames \in Nat /\ ZeroedFrames <= NumFrames
  /\ InitrdEnd \in Nat /\ InitrdEnd > 0 /\ DirSize \in Nat
  /\ HeapStructSize \in Nat /\ HeapStructSize <= PageSize
<1>1. BitmapBytes \in Nat /\ ZeroedFrames \in Nat /\ ZeroedFrames <= NumFrames
  BY PagingAssumption, BitmapAssumption DEF Frames
<1>2. 0 \in Frames
  BY PagingAssumption DEF Frames
<1> QED
  BY <1>1, <1>2, PagingAssumption DEF HeapBase, HeapLimit

-----------------------------------------------------------------------------
(***************************************************************************)
(* The type invariant needs to know where the loop variable may be.        *)
(***************************************************************************)

\* Where heap_end and the loop variable are, in each place of the program.
LoopRange ==
  /\ pc \in {"run", "expand", "contract"}
       => heap_end >= HeapBase + HeapMinPages
  /\ pc \in {"heap_tables", "heap_frames"} => i >= HeapPage
  /\ pc = "expand" => i >= heap_end /\ target > heap_end
  /\ pc = "contract" => target >= HeapBase + HeapMinPages /\ i < HeapLimit
  /\ placement_addr > 0

TypeInv == TypeOK /\ LoopRange

\* What alloc_frame does to the types of the bitset and of the page entries.
LEMMA AllocFrameType ==
  ASSUME TypeOK, NEW p, NEW f \in Frames, AllocFrame(p, f, FALSE, FALSE)
  PROVE  /\ frames' \in [Frames -> BOOLEAN]
         /\ entry' \in [Pages -> PageEntry]
<1>1. [present |-> TRUE, rw |-> FALSE, user |-> ~ FALSE, frame |-> f] \in PageEntry
  BY DEF PageEntry
<1> QED
  BY <1>1 DEF AllocFrame, TypeOK

\* What get_page does to the types of the tables while the kernel boots.
LEMMA GetPageAtBootType ==
  ASSUME TypeOK, placement_addr > 0, NEW p, GetPageAtBoot(p)
  PROVE  /\ tables' \in [TableIndexes -> Nat]
         /\ tables_physical' \in [TableIndexes -> Nat]
         /\ placement_addr' \in Nat
         /\ placement_addr' >= placement_addr
<1> DEFINE a == AlignUp(placement_addr)
<1>1. a \in Nat /\ a >= placement_addr
  BY AlignUpType DEF TypeOK
<1>2. CASE tables[TableOf(p)] # 0
  BY <1>2 DEF GetPageAtBoot, TypeOK
<1>3. CASE tables[TableOf(p)] = 0
  <2>1. placement_addr' = a + PageSize
    BY <1>3 DEF GetPageAtBoot, PlacementAlloc
  <2>2. /\ tables' = [tables EXCEPT ![TableOf(p)] = a]
        /\ tables_physical' = [tables_physical EXCEPT ![TableOf(p)] = a]
    BY <1>3 DEF GetPageAtBoot
  <2> HIDE DEF a
  <2>3. tables' \in [TableIndexes -> Nat] /\ tables_physical' \in [TableIndexes -> Nat]
    BY <1>1, <2>2 DEF TypeOK
  <2>4. placement_addr' \in Nat /\ placement_addr' >= placement_addr
    BY <1>1, <2>1, ConstantTypes DEF TypeOK
  <2> QED
    BY <2>3, <2>4
<1> QED
  BY <1>2, <1>3

\* Initially the type invariant holds.
LEMMA TypeInit == Init => TypeInv
<1> SUFFICES ASSUME Init PROVE TypeInv
  OBVIOUS
<1>1. EmptyEntry \in PageEntry
  BY ConstantTypes DEF EmptyEntry, PageEntry
<1>2. frames \in [Frames -> BOOLEAN] /\ paging \in BOOLEAN /\ kheap \in BOOLEAN
  BY DEF Init
<1>3. entry \in [Pages -> PageEntry]
  BY <1>1 DEF Init
<1>4. /\ tables \in [TableIndexes -> Nat]
      /\ tables_physical \in [TableIndexes -> Nat]
  BY DEF Init
<1>5. /\ placement_addr \in Nat
      /\ heap_end \in 0 .. HeapLimit
      /\ pc \in Locations
      /\ i \in Nat
      /\ target \in 0 .. HeapLimit
      /\ LoopRange
  BY ConstantTypes DEF Init, LoopRange, Locations
<1> QED
  BY <1>2, <1>3, <1>4, <1>5 DEF TypeInv, TypeOK

\* Every step keeps the type invariant.
LEMMA TypeStep == TypeInv /\ [Next]_vars => TypeInv'
<1> SUFFICES ASSUME TypeInv, [Next]_vars PROVE TypeInv'
  OBVIOUS
<1> USE ConstantTypes DEF TypeInv
<1>1. CASE InitBitmap
  BY <1>1 DEF InitBitmap, PlacementAlloc, TypeOK, LoopRange, Locations
<1>2. CASE InitDir
  <2>1. AlignUp(placement_addr) \in Nat /\ AlignUp(placement_addr) >= placement_addr
    BY AlignUpType DEF TypeOK
  <2> QED
    BY <1>2, <2>1 DEF InitDir, PlacementAlloc, TypeOK, LoopRange, Locations
<1>3. CASE MapHeapTables
  <2>1. CASE i < HeapPage + HeapInitPages
    <3>1. GetPageAtBoot(i) /\ i' = i + 1 /\ pc' = "heap_tables"
      BY <1>3, <2>1 DEF MapHeapTables
    <3>2. /\ tables' \in [TableIndexes -> Nat]
          /\ tables_physical' \in [TableIndexes -> Nat]
          /\ placement_addr' \in Nat
          /\ placement_addr' >= placement_addr
      BY <3>1, GetPageAtBootType DEF LoopRange
    <3> QED
      BY <1>3, <2>1, <3>1, <3>2 DEF MapHeapTables, TypeOK, LoopRange, Locations
  <2>2. CASE ~ (i < HeapPage + HeapInitPages)
    BY <1>3, <2>2 DEF MapHeapTables, TypeOK, LoopRange, Locations
  <2> QED
    BY <2>1, <2>2
<1>4. CASE MapIdentity
  <2>1. CASE i * PageSize < IdentityEnd
    <3>1. PICK f \in Frames : /\ GetPageAtBoot(i)
                              /\ AllocFrame(i, f, FALSE, FALSE)
                              /\ i' = i + 1
                              /\ pc' = IF f = NO_FRAME THEN "halt" ELSE pc
      BY <1>4, <2>1 DEF MapIdentity
    <3>2. pc' = "identity"
      BY <1>4, <3>1 DEF MapIdentity, Frames, NO_FRAME
    <3>3. /\ tables' \in [TableIndexes -> Nat]
          /\ tables_physical' \in [TableIndexes -> Nat]
          /\ placement_addr' \in Nat
          /\ placement_addr' >= placement_addr
      BY <3>1, GetPageAtBootType DEF LoopRange
    <3>4. frames' \in [Frames -> BOOLEAN] /\ entry' \in [Pages -> PageEntry]
      BY <3>1, AllocFrameType
    <3> QED
      BY <1>4, <3>1, <3>2, <3>3, <3>4
      DEF MapIdentity, TypeOK, LoopRange, Locations
  <2>2. CASE ~ (i * PageSize < IdentityEnd)
    BY <1>4, <2>2 DEF MapIdentity, TypeOK, LoopRange, Locations
  <2> QED
    BY <2>1, <2>2
<1>5. CASE MapHeapFrames
  <2>1. CASE i < HeapPage + HeapInitPages
    <3>1. PICK f \in Frames : /\ GetPageAtBoot(i)
                              /\ AllocFrame(i, f, FALSE, FALSE)
                              /\ i' = i + 1
                              /\ pc' = IF f = NO_FRAME THEN "halt" ELSE pc
      BY <1>5, <2>1 DEF MapHeapFrames
    <3>2. pc' = "heap_frames"
      BY <1>5, <3>1 DEF MapHeapFrames, Frames, NO_FRAME
    <3>3. /\ tables' \in [TableIndexes -> Nat]
          /\ tables_physical' \in [TableIndexes -> Nat]
          /\ placement_addr' \in Nat
          /\ placement_addr' >= placement_addr
      BY <3>1, GetPageAtBootType DEF LoopRange
    <3>4. frames' \in [Frames -> BOOLEAN] /\ entry' \in [Pages -> PageEntry]
      BY <3>1, AllocFrameType
    <3> QED
      BY <1>5, <3>1, <3>2, <3>3, <3>4
      DEF MapHeapFrames, TypeOK, LoopRange, Locations
  <2>2. CASE ~ (i < HeapPage + HeapInitPages)
    BY <1>5, <2>2 DEF MapHeapFrames, TypeOK, LoopRange, Locations
  <2> QED
    BY <2>1, <2>2
<1>6. CASE SwitchPageDir
  BY <1>6 DEF SwitchPageDir, TypeOK, LoopRange, Locations
<1>7. CASE CreateHeap
  BY <1>7 DEF CreateHeap, PlacementAlloc, TypeOK, LoopRange, Locations
<1>8. ASSUME NEW n \in HeapBase .. HeapLimit + 1, CallExpand(n)
      PROVE  TypeInv'
  BY <1>8 DEF CallExpand, TypeOK, LoopRange, Locations
<1>9. ASSUME NEW n \in HeapBase .. HeapLimit + 1, CallContract(n)
      PROVE  TypeInv'
  <2>1. target' \in 0 .. HeapLimit /\ target' >= HeapBase + HeapMinPages
    BY <1>9 DEF CallContract, TypeOK, LoopRange
  <2>2. i' \in Nat /\ i' < HeapLimit
    BY <1>9 DEF CallContract, TypeOK, LoopRange
  <2> QED
    BY <1>9, <2>1, <2>2 DEF CallContract, TypeOK, LoopRange, Locations
<1>10. CASE ExpandStep
  <2>1. CASE i < target
    <3>1. PICK f \in Frames, q \in HeapBase .. heap_end - 1 :
                 /\ GetPageFromHeap(i, q)
                 /\ AllocFrame(i, f, FALSE, FALSE)
                 /\ i' = i + 1
                 /\ pc' = IF f = NO_FRAME THEN "halt" ELSE pc
                 /\ UNCHANGED heap_end
      BY <1>10, <2>1 DEF ExpandStep
    <3>2. pc' = "expand"
      BY <1>10, <3>1 DEF ExpandStep, Frames, NO_FRAME
    <3>3. frames' \in [Frames -> BOOLEAN] /\ entry' \in [Pages -> PageEntry]
      BY <3>1, AllocFrameType
    <3>4. q * PageSize \in Nat /\ entry[q].frame * PageSize \in Nat
      <4>1. q \in Pages /\ q \in Nat
        BY <3>1 DEF TypeOK, Pages
      <4>2. entry[q].frame \in Nat
        BY <4>1 DEF TypeOK, PageEntry, Frames
      <4> QED
        BY <4>1, <4>2
    <3>5. tables' \in [TableIndexes -> Nat] /\ tables_physical' \in [TableIndexes -> Nat]
      BY <3>1, <3>4 DEF GetPageFromHeap, TypeOK
    <3>6. i' \in Nat /\ i' >= heap_end /\ heap_end' = heap_end
      BY <1>10, <3>1 DEF ExpandStep, TypeOK, LoopRange
    <3>7. /\ placement_addr' = placement_addr /\ paging' = paging
          /\ kheap' = kheap /\ target' = target
      BY <1>10 DEF ExpandStep
    <3> QED
      BY <1>10, <3>2, <3>3, <3>5, <3>6, <3>7 DEF ExpandStep, TypeOK, LoopRange, Locations
  <2>2. CASE ~ (i < target)
    <3>1. heap_end' = target /\ pc' = "run" /\ i' = i /\ target' = target
      BY <1>10, <2>2 DEF ExpandStep
    <3> QED
      BY <1>10, <2>2, <3>1 DEF ExpandStep, TypeOK, LoopRange, Locations
  <2> QED
    BY <2>1, <2>2
<1>11. CASE ExpandRecurses
  BY <1>11 DEF ExpandRecurses, TypeOK, LoopRange, Locations
<1>12. CASE ContractStep
  <2>1. CASE i > target
    <3>1. i \in Pages /\ i' = i - 1 /\ FreeFrame(i)
      BY <1>12, <2>1 DEF ContractStep, TypeOK, LoopRange, Pages
    <3>2. frames' \in [Frames -> BOOLEAN] /\ entry' \in [Pages -> PageEntry]
      <4>1. entry[i] \in PageEntry
        BY <3>1 DEF TypeOK
      <4>2. [entry[i] EXCEPT !.frame = 0] \in PageEntry
        BY <4>1 DEF PageEntry
      <4>3. CASE entry[i].frame = 0
        BY <3>1, <4>3 DEF FreeFrame, TypeOK
      <4>4. CASE entry[i].frame # 0
        <5>1. /\ frames' = [frames EXCEPT ![ClearedBit(entry[i].frame)] = FALSE]
              /\ entry' = [entry EXCEPT ![i] = [entry[i] EXCEPT !.frame = 0]]
          BY <3>1, <4>4 DEF FreeFrame
        <5> QED
          BY <4>2, <5>1 DEF TypeOK
      <4> QED
        BY <4>3, <4>4
    <3> QED
      BY <1>12, <2>1, <3>1, <3>2 DEF ContractStep, TypeOK, LoopRange, Locations
  <2>2. CASE ~ (i > target)
    BY <1>12, <2>2 DEF ContractStep, TypeOK, LoopRange, Locations
  <2> QED
    BY <2>1, <2>2
<1>13. CASE Halted \/ Recursing
  BY <1>13 DEF Halted, Recursing, vars, TypeOK, LoopRange
<1>14. CASE UNCHANGED vars
  BY <1>14 DEF vars, TypeOK, LoopRange
<1> QED
  BY <1>1, <1>2, <1>3, <1>4, <1>5, <1>6, <1>7, <1>8, <1>9, <1>10, <1>11,
     <1>12, <1>13, <1>14 DEF Next, BootStep

\* The kernel's page structures have their types in every reachable state: no
\* entry names a frame outside physical memory and the heap keeps to its range.
THEOREM TypeCorrect == Spec => []TypeOK
<1>1. TypeInv => TypeOK
  BY DEF TypeInv
<1> QED
  BY <1>1, TypeInit, TypeStep, PTL DEF Spec

-----------------------------------------------------------------------------
(***************************************************************************)
(* Frames are exclusive.  The invariant is not inductive by itself: that   *)
(* first_frame's answer is new follows from the bits of the frames in use  *)
(* being set.                                                              *)
(***************************************************************************)

\* The bit of a mapped frame is set, unless free_frame may have cleared it.
Held ==
  \A p \in Pages :
    (entry[p].present /\ entry[p].frame \notin Reusable)
      => frames[entry[p].frame]

\* Nothing is mapped before the bitset is cleared.
NothingMapped == pc = "bitmap" => \A p \in Pages : ~ entry[p].present

FrameInv == TypeInv /\ Held /\ NothingMapped /\ ExclusiveFrames

\* alloc_frame gives a page a frame no other page has, or a reusable one.
LEMMA AllocFrameExclusive ==
  ASSUME TypeOK, Held, ExclusiveFrames,
         NEW p, NEW f \in Frames, FirstFrame(f), AllocFrame(p, f, FALSE, FALSE)
  PROVE  Held' /\ ExclusiveFrames'
<1>1. CASE entry[p].frame # 0
  BY <1>1 DEF AllocFrame, Held, ExclusiveFrames
<1>2. CASE entry[p].frame = 0
  <2>1. /\ frames' = [frames EXCEPT ![f] = TRUE]
        /\ entry' = [entry EXCEPT ![p] = [present |-> TRUE, rw |-> FALSE,
                                          user |-> ~ FALSE, frame |-> f]]
    BY <1>2 DEF AllocFrame
  <2>2. ~ frames[f] \/ f \in Reusable
    BY DEF FirstFrame, Reusable
  <2>3. \A g \in Frames : frames[g] => frames'[g]
    BY <2>1 DEF TypeOK
  <2>4. frames'[f]
    BY <2>1 DEF TypeOK
  <2>5. \A q \in Pages : q # p => entry'[q] = entry[q]
    BY <2>1 DEF TypeOK
  <2>6. p \in Pages => entry'[p].frame = f
    BY <2>1 DEF TypeOK
  <2>7. \A q \in Pages : entry[q].frame \in Frames
    BY DEF TypeOK, PageEntry
  <2>8. Held'
    BY <2>3, <2>4, <2>5, <2>6, <2>7 DEF Held, Reusable
  <2>9. \A q \in Pages : (q # p /\ entry[q].present /\ entry[q].frame = f)
                           => f \in Reusable
    BY <2>2 DEF Held
  <2>10. ASSUME NEW q \in Pages, NEW r \in Pages, q # r,
                entry'[q].present, entry'[r].present,
                entry'[q].frame = entry'[r].frame
         PROVE  entry'[q].frame \in Reusable
    <3>1. CASE q = p
      BY <2>5, <2>6, <2>9, <2>10, <3>1
    <3>2. CASE r = p
      BY <2>5, <2>6, <2>9, <2>10, <3>2
    <3>3. CASE q # p /\ r # p
      BY <2>5, <2>10, <3>3 DEF ExclusiveFrames
    <3> QED
      BY <3>1, <3>2, <3>3
  <2> QED
    BY <2>8, <2>10 DEF ExclusiveFrames, Reusable
<1> QED
  BY <1>1, <1>2

\* free_frame only clears bits of reusable frames and only maps frame 0.
LEMMA FreeFrameExclusive ==
  ASSUME TypeOK, Held, ExclusiveFrames, NEW p \in Pages, FreeFrame(p)
  PROVE  Held' /\ ExclusiveFrames'
<1>1. CASE entry[p].frame = 0
  BY <1>1 DEF FreeFrame, Held, ExclusiveFrames
<1>2. CASE entry[p].frame # 0
  <2> DEFINE c == ClearedBit(entry[p].frame)
  <2>1. /\ frames' = [frames EXCEPT ![c] = FALSE]
        /\ entry' = [entry EXCEPT ![p].frame = 0]
    BY <1>2 DEF FreeFrame
  <2>2. \A q \in Pages : entry[q].frame \in Frames
    BY DEF TypeOK, PageEntry
  <2>3. c \in Reusable /\ 0 \in Reusable
    BY <2>2 DEF Reusable
  <2> HIDE DEF c
  <2>4. \A g \in Frames : g \notin Reusable => frames'[g] = frames[g]
    BY <2>1, <2>3 DEF TypeOK
  <2>5. \A q \in Pages : q # p => entry'[q] = entry[q]
    BY <2>1 DEF TypeOK
  <2>6. entry'[p].frame = 0
    BY <2>1 DEF TypeOK, PageEntry
  <2>7. Held'
    BY <2>2, <2>3, <2>4, <2>5, <2>6 DEF Held, Reusable
  <2>8. ExclusiveFrames'
    BY <2>3, <2>5, <2>6 DEF ExclusiveFrames, Reusable
  <2> QED
    BY <2>7, <2>8
<1> QED
  BY <1>1, <1>2

\* Every step keeps the frames exclusive.
LEMMA FrameStep == FrameInv /\ [Next]_vars => FrameInv'
<1> SUFFICES ASSUME FrameInv, [Next]_vars PROVE FrameInv'
  OBVIOUS
<1>1. TypeOK /\ TypeInv'
  BY TypeStep DEF FrameInv, TypeInv
<1>2. CASE InitBitmap
  BY <1>1, <1>2 DEF InitBitmap, FrameInv, Held, NothingMapped, ExclusiveFrames
<1>3. CASE UNCHANGED <<frames, entry>> /\ pc' # "bitmap"
  BY <1>1, <1>3 DEF FrameInv, Held, NothingMapped, ExclusiveFrames
<1>4. CASE MapIdentity \/ MapHeapFrames \/ ExpandStep
  <2>1. pc' # "bitmap"
    BY <1>4 DEF MapIdentity, MapHeapFrames, ExpandStep
  <2>2. CASE \E f \in Frames : FirstFrame(f) /\ AllocFrame(i, f, FALSE, FALSE)
    BY <1>1, <2>1, <2>2, AllocFrameExclusive DEF FrameInv, NothingMapped
  <2>3. CASE UNCHANGED <<frames, entry>>
    BY <1>3, <2>1, <2>3
  <2> QED
    BY <1>4, <2>2, <2>3 DEF MapIdentity, MapHeapFrames, ExpandStep
<1>5. CASE ContractStep
  <2>1. pc' # "bitmap"
    BY <1>5 DEF ContractStep
  <2>2. CASE i > target
    <3>1. i \in Pages /\ FreeFrame(i)
      BY <1>1, <1>5, <2>2, ConstantTypes
      DEF ContractStep, FrameInv, TypeInv, TypeOK, LoopRange, Pages
    <3> QED
      BY <1>1, <2>1, <3>1, FreeFrameExclusive DEF FrameInv, NothingMapped
  <2>3. CASE ~ (i > target)
    BY <1>3, <1>5, <2>1, <2>3 DEF ContractStep
  <2> QED
    BY <2>2, <2>3
<1>6. CASE Halted \/ Recursing \/ UNCHANGED vars
  BY <1>1, <1>6
  DEF Halted, Recursing, vars, FrameInv, Held, NothingMapped, ExclusiveFrames
<1>7. CASE InitDir \/ MapHeapTables \/ SwitchPageDir \/ CreateHeap \/ ExpandRecurses
  BY <1>3, <1>7
  DEF InitDir, MapHeapTables, SwitchPageDir, CreateHeap, ExpandRecurses
<1>8. ASSUME NEW n \in HeapBase .. HeapLimit + 1, CallExpand(n) \/ CallContract(n)
      PROVE  FrameInv'
  BY <1>3, <1>8 DEF CallExpand, CallContract
<1> QED
  BY <1>2, <1>4, <1>5, <1>6, <1>7, <1>8 DEF Next, BootStep

\* However often the heap grows and shrinks, and whatever the unset part of the
\* bitset held, two mapped pages share a frame only if it is one of the few low
\* frames whose bits free_frame clears or that first_frame returns when full.
THEOREM FramesAreExclusive == Spec => []ExclusiveFrames
<1>1. Init => FrameInv
  <2> SUFFICES ASSUME Init PROVE FrameInv
    OBVIOUS
  <2>1. \A p \in Pages : ~ entry[p].present
    BY DEF Init, EmptyEntry
  <2> QED
    BY <2>1, TypeInit DEF FrameInv, Held, NothingMapped, ExclusiveFrames
<1>2. FrameInv => ExclusiveFrames
  BY DEF FrameInv
<1> QED
  BY <1>1, <1>2, FrameStep, PTL DEF Spec

-----------------------------------------------------------------------------
(***************************************************************************)
(* The kernel stays identity mapped.  While the second loop of init_paging *)
(* runs, first_frame's answer is the page itself because the loop has      *)
(* taken exactly the frames below; the third loop must not move            *)
(* placement_addr any more, which it does not because the first one made   *)
(* the tables it needs.                                                    *)
(***************************************************************************)

IsIdentity(p) == entry[p].present /\ entry[p].frame = p

\* Until the second loop no page has a frame and the cleared bits are clear.
NoFramesYet ==
  /\ pc \in {"bitmap", "dir", "heap_tables"}
       => \A p \in Pages : entry[p].frame = 0
  /\ pc \in {"dir", "heap_tables"}
       => \A f \in Frames : f < ZeroedFrames => ~ frames[f]

\* The second loop has mapped the pages below i, and taken the frames below i.
IdentityLoop ==
  pc = "identity" =>
    /\ \A p \in LowPages : p >= i => entry[p].frame = 0
    /\ \A p \in LowPages : (p < i /\ p < ZeroedFrames) => IsIdentity(p)
    /\ \A f \in Frames : (f \in LowPages /\ f < ZeroedFrames)
                           => (frames[f] <=> f < i)

\* The first loop makes the tables of the initial heap, up to page n.
HeapTablesUpTo(n) ==
  \A p \in HeapPage .. HeapPage + HeapInitPages - 1 :
    p < n => tables[TableOf(p)] # 0

HeapTables ==
  /\ pc = "heap_tables" => HeapTablesUpTo(i)
  /\ pc \in {"identity", "heap_frames"} => HeapTablesUpTo(HeapLimit)

\* After the second loop one more page than placement_addr needs is mapped.
IdentityDone ==
  /\ pc \in {"heap_frames", "switch", "create_heap"} =>
       \A p \in LowPages :
         (p * PageSize < placement_addr + PageSize /\ p < ZeroedFrames)
           => IsIdentity(p)
  /\ pc \in {"run", "expand", "contract", "recurse", "halt"} =>
       \A p \in LowPages :
         (p * PageSize < placement_addr /\ p < ZeroedFrames) => IsIdentity(p)
  /\ paging => pc \in {"create_heap", "run", "expand", "contract", "recurse",
                        "halt"}

IdentityInv ==
  TypeInv /\ NoFramesYet /\ IdentityLoop /\ HeapTables /\ IdentityDone

\* The table of a page is in the directory.
LEMMA TableOfType ==
  ASSUME NEW p \in Pages
  PROVE  TableOf(p) \in TableIndexes
  BY DEF TableIndexes

\* get_page never takes a table away, and the page it was asked for has one.
LEMMA GetPageAtBootTables ==
  ASSUME TypeInv, NEW p \in Pages, GetPageAtBoot(p)
  PROVE  /\ tables'[TableOf(p)] # 0
         /\ \A t \in TableIndexes : tables[t] # 0 => tables'[t] # 0
<1>1. AlignUp(placement_addr) \in Nat /\ AlignUp(placement_addr) # 0
  BY AlignUpType DEF TypeInv, TypeOK, LoopRange
<1>2. TableOf(p) \in TableIndexes
  BY TableOfType
<1>3. CASE tables[TableOf(p)] # 0
  BY <1>3 DEF GetPageAtBoot
<1>4. CASE tables[TableOf(p)] = 0
  <2>1. tables' = [tables EXCEPT ![TableOf(p)] = AlignUp(placement_addr)]
    BY <1>4 DEF GetPageAtBoot
  <2> QED
    BY <1>1, <1>2, <2>1 DEF TypeInv, TypeOK
<1> QED
  BY <1>3, <1>4

\* One iteration of the second loop.
LEMMA IdentityIteration ==
  ASSUME IdentityInv, pc = "identity", NEW f \in Frames, FirstFrame(f),
         AllocFrame(i, f, FALSE, FALSE), i' = i + 1, pc' = "identity"
  PROVE  IdentityLoop'
<1> USE ConstantTypes
<1>1. /\ i \in Nat
      /\ entry \in [Pages -> PageEntry] /\ frames \in [Frames -> BOOLEAN]
      /\ LowPages \subseteq Pages
  BY DEF IdentityInv, TypeInv, TypeOK, LowPages, Pages
<1>2. /\ \A p \in LowPages : p >= i => entry[p].frame = 0
      /\ \A p \in LowPages : (p < i /\ p < ZeroedFrames) => IsIdentity(p)
      /\ \A g \in Frames : (g \in LowPages /\ g < ZeroedFrames)
                             => (frames[g] <=> g < i)
  BY DEF IdentityInv, IdentityLoop
<1>3. \A p \in Pages : p # i => entry'[p] = entry[p]
  BY <1>1 DEF AllocFrame
<1>4. \A g \in Frames : frames[g] => frames'[g]
  BY <1>1 DEF AllocFrame
<1>5. \A g \in Frames : g # f => frames'[g] = frames[g]
  BY <1>1 DEF AllocFrame
<1>6. CASE i \in LowPages /\ i < ZeroedFrames
  <2>1. i \in Frames /\ ~ frames[i]
    BY <1>1, <1>2, <1>6 DEF Frames
  <2>2. f = i
    <3>1. ~ frames[f] /\ \A g \in 0 .. f - 1 : frames[g]
      BY <2>1 DEF FirstFrame
    <3>2. ~ (f < i)
      BY <1>1, <1>2, <1>6, <3>1 DEF LowPages, Frames
    <3>3. ~ (i < f)
      BY <1>1, <2>1, <3>1 DEF Frames
    <3> QED
      BY <1>1, <3>2, <3>3 DEF Frames
  <2>3. entry'[i].present /\ entry'[i].frame = i /\ frames'[i]
    BY <1>1, <1>2, <1>6, <2>1, <2>2 DEF AllocFrame
  <2> QED
    BY <1>1, <1>2, <1>3, <1>4, <1>5, <1>6, <2>2, <2>3
    DEF IdentityLoop, IsIdentity, LowPages
<1>7. CASE ~ (i \in LowPages /\ i < ZeroedFrames)
  <2>1. \A p \in LowPages : (p < i + 1 /\ p < ZeroedFrames) <=> (p < i /\ p < ZeroedFrames)
    BY <1>1, <1>7 DEF LowPages
  <2>2. \A p \in LowPages : (p < i /\ p < ZeroedFrames) => entry'[p] = entry[p]
    BY <1>1, <1>3 DEF LowPages
  <2>3. \A p \in LowPages : p >= i + 1 => entry'[p].frame = 0
    BY <1>1, <1>2, <1>3 DEF LowPages
  <2>4. \A g \in Frames : (g \in LowPages /\ g < ZeroedFrames) => g < i \/ frames'[g] = frames[g]
    <3>1. SUFFICES ASSUME NEW g \in Frames, g \in LowPages, g < ZeroedFrames, ~ (g < i)
                   PROVE  FALSE
      OBVIOUS
    <3> QED
      BY <1>1, <1>7, <3>1 DEF LowPages
  <2>5. \A g \in Frames : (g \in LowPages /\ g < ZeroedFrames) => (frames'[g] <=> g < i + 1)
    BY <1>1, <1>2, <1>4, <1>7, <2>1, <2>4 DEF LowPages
  <2> QED
    BY <1>2, <2>1, <2>2, <2>3, <2>5 DEF IdentityLoop, IsIdentity
<1> QED
  BY <1>6, <1>7

\* Growing and shrinking the heap, and mapping it, leaves the low pages alone.
LEMMA HighPagesOnly ==
  ASSUME TypeOK, i \notin LowPages,
         \/ \E f \in Frames : AllocFrame(i, f, FALSE, FALSE)
         \/ FreeFrame(i)
         \/ UNCHANGED entry
  PROVE  \A p \in LowPages : entry'[p] = entry[p]
<1>1. LowPages \subseteq Pages
  BY ConstantTypes DEF LowPages, Pages
<1> QED
  BY <1>1 DEF AllocFrame, FreeFrame, TypeOK

\* Every step keeps the invariant.
LEMMA IdentityStep == IdentityInv /\ [Next]_vars => IdentityInv'
<1> SUFFICES ASSUME IdentityInv, [Next]_vars PROVE IdentityInv'
  OBVIOUS
<1>0. TypeInv /\ TypeOK /\ TypeInv'
  BY TypeStep DEF IdentityInv, TypeInv
<1> USE ConstantTypes
<1>1. CASE InitBitmap
  <2>1. \A f \in Frames : f < ZeroedFrames => ~ frames'[f]
    <3>1. PICK g \in Garbage :
                 frames' = [f \in Frames |-> f >= ZeroedFrames /\ f \in g]
      BY <1>1 DEF InitBitmap
    <3>2. \A f \in Frames : frames'[f] = (f >= ZeroedFrames /\ f \in g)
      BY <3>1, Zenon
    <3>3. \A f \in Frames : f < ZeroedFrames => ~ (f >= ZeroedFrames)
      BY DEF Frames
    <3> QED
      BY <3>2, <3>3, Zenon
  <2>2. pc = "bitmap" /\ pc' = "dir" /\ entry' = entry /\ paging' = paging
    BY <1>1 DEF InitBitmap
  <2>3. \A p \in Pages : entry'[p].frame = 0
    BY <2>2 DEF IdentityInv, NoFramesYet
  <2>4. ~ paging'
    BY <2>2 DEF IdentityInv, IdentityDone
  <2>5. NoFramesYet'
    BY <2>1, <2>2, <2>3 DEF NoFramesYet
  <2>6. IdentityLoop' /\ HeapTables' /\ IdentityDone'
    BY <2>2, <2>4 DEF IdentityLoop, HeapTables, IdentityDone
  <2> QED
    BY <1>0, <2>5, <2>6 DEF IdentityInv
<1>2. CASE InitDir
  BY <1>0, <1>2
  DEF InitDir, IdentityInv, NoFramesYet, IdentityLoop, HeapTables,
      HeapTablesUpTo, IdentityDone
<1>3. CASE MapHeapTables
  <2>1. NoFramesYet' /\ IdentityDone'
    BY <1>3 DEF MapHeapTables, IdentityInv, NoFramesYet, IdentityDone
  <2>2. IdentityLoop'
    BY <1>3 DEF MapHeapTables, IdentityInv, NoFramesYet, IdentityLoop, LowPages, Pages
  <2>3. HeapTables'
    <3>1. CASE i < HeapPage + HeapInitPages
      <4>1. GetPageAtBoot(i) /\ i' = i + 1 /\ pc' = "heap_tables" /\ i \in Pages /\ i \in Nat
        BY <1>0, <1>3, <3>1 DEF MapHeapTables, TypeOK, Pages
      <4>2. /\ tables'[TableOf(i)] # 0
            /\ \A t \in TableIndexes : tables[t] # 0 => tables'[t] # 0
        BY <1>0, <4>1, GetPageAtBootTables
      <4>3. HeapTablesUpTo(i)
        BY <1>3 DEF MapHeapTables, IdentityInv, HeapTables
      <4>4. \A p \in HeapPage .. HeapPage + HeapInitPages - 1 : p \in Pages /\ TableOf(p) \in TableIndexes
        BY TableOfType DEF Pages
      <4> QED
        BY <4>1, <4>2, <4>3, <4>4 DEF HeapTables, HeapTablesUpTo
    <3>2. CASE ~ (i < HeapPage + HeapInitPages)
      BY <1>0, <1>3, <3>2
      DEF MapHeapTables, IdentityInv, HeapTables, HeapTablesUpTo, TypeOK
    <3> QED
      BY <3>1, <3>2
  <2> QED
    BY <1>0, <2>1, <2>2, <2>3 DEF IdentityInv
<1>4. CASE MapIdentity
  <2>1. CASE i * PageSize < IdentityEnd
    <3>1. PICK f \in Frames : /\ FirstFrame(f)
                              /\ GetPageAtBoot(i)
                              /\ AllocFrame(i, f, FALSE, FALSE)
                              /\ i' = i + 1
                              /\ pc' = IF f = NO_FRAME THEN "halt" ELSE pc
      BY <1>4, <2>1 DEF MapIdentity
    <3>2. pc = "identity" /\ pc' = "identity" /\ paging' = paging
      BY <1>4, <3>1 DEF MapIdentity, Frames, NO_FRAME
    <3>3. IdentityLoop'
      BY <3>1, <3>2, IdentityIteration
    <3>4. HeapTables'
      <4>1. \A t \in TableIndexes : tables[t] # 0 => tables'[t] # 0
        <5>1. AlignUp(placement_addr) # 0
          BY <1>0, AlignUpType DEF TypeInv, TypeOK, LoopRange
        <5> QED
          BY <1>0, <3>1, <5>1 DEF GetPageAtBoot, TypeOK
      <4>2. \A p \in HeapPage .. HeapPage + HeapInitPages - 1 : p \in Pages /\ TableOf(p) \in TableIndexes
        BY TableOfType DEF Pages
      <4> QED
        BY <3>2, <4>1, <4>2 DEF IdentityInv, HeapTables, HeapTablesUpTo
    <3> QED
      BY <1>0, <3>2, <3>3, <3>4 DEF IdentityInv, NoFramesYet, IdentityDone
  <2>2. CASE ~ (i * PageSize < IdentityEnd)
    <3>1. pc = "identity" /\ pc' = "heap_frames" /\ UNCHANGED <<entry, placement_addr, paging, tables>>
      BY <1>4, <2>2 DEF MapIdentity
    <3>2. \A p \in LowPages : p * PageSize < placement_addr + PageSize => p < i
      <4>1. SUFFICES ASSUME NEW p \in LowPages, p * PageSize < placement_addr + PageSize, i <= p
                     PROVE  FALSE
        BY <1>0 DEF TypeOK, LowPages
      <4>2. p \in Nat /\ i \in Nat /\ placement_addr \in Nat
        BY <1>0 DEF TypeOK, LowPages
      <4>3. i * PageSize <= p * PageSize /\ i * PageSize \in Nat /\ p * PageSize \in Nat
        BY <4>1, <4>2, PageOrder
      <4> QED
        BY <2>2, <4>1, <4>2, <4>3 DEF IdentityEnd
    <3> QED
      BY <1>0, <3>1, <3>2
      DEF IdentityInv, NoFramesYet, IdentityLoop, HeapTables, HeapTablesUpTo,
          IdentityDone, IsIdentity
  <2> QED
    BY <2>1, <2>2
<1>5. CASE MapHeapFrames
  <2>1. CASE i < HeapPage + HeapInitPages
    <3>1. PICK f \in Frames : /\ GetPageAtBoot(i)
                              /\ AllocFrame(i, f, FALSE, FALSE)
                              /\ pc' = IF f = NO_FRAME THEN "halt" ELSE pc
      BY <1>5, <2>1 DEF MapHeapFrames
    <3>2. pc = "heap_frames" /\ pc' = "heap_frames" /\ paging' = paging
      BY <1>5, <3>1 DEF MapHeapFrames, Frames, NO_FRAME
    <3>3. i \in HeapPage .. HeapPage + HeapInitPages - 1 /\ i < HeapLimit /\ i \notin LowPages
      BY <1>0, <2>1, <3>2 DEF TypeInv, TypeOK, LoopRange, LowPages
    <3>4. tables[TableOf(i)] # 0
      BY <3>2, <3>3 DEF IdentityInv, HeapTables, HeapTablesUpTo
    <3>5. UNCHANGED <<tables, placement_addr>>
      BY <3>1, <3>4 DEF GetPageAtBoot
    <3>6. \A p \in LowPages : entry'[p] = entry[p]
      BY <1>0, <3>1, <3>3, HighPagesOnly
    <3> QED
      BY <1>0, <3>2, <3>5, <3>6
      DEF IdentityInv, NoFramesYet, IdentityLoop, HeapTables, HeapTablesUpTo,
          IdentityDone, IsIdentity
  <2>2. CASE ~ (i < HeapPage + HeapInitPages)
    BY <1>0, <1>5, <2>2
    DEF MapHeapFrames, IdentityInv, NoFramesYet, IdentityLoop, HeapTables,
        IdentityDone, IsIdentity
  <2> QED
    BY <2>1, <2>2
<1>6. CASE SwitchPageDir
  BY <1>0, <1>6
  DEF SwitchPageDir, IdentityInv, NoFramesYet, IdentityLoop, HeapTables,
      IdentityDone, IsIdentity
<1>7. CASE CreateHeap
  <2>1. /\ pc = "create_heap" /\ pc' = "run" /\ entry' = entry /\ paging' = paging
        /\ placement_addr' = placement_addr + HeapStructSize
    BY <1>7 DEF CreateHeap, PlacementAlloc
  <2>2. \A p \in LowPages : p * PageSize < placement_addr' => p * PageSize < placement_addr + PageSize
    BY <1>0, <2>1 DEF TypeOK, LowPages
  <2> QED
    BY <1>0, <2>1, <2>2
    DEF IdentityInv, NoFramesYet, IdentityLoop, HeapTables, IdentityDone, IsIdentity
<1>8. ASSUME \/ ExpandStep
             \/ ExpandRecurses
             \/ ContractStep
             \/ \E n \in HeapBase .. HeapLimit + 1 : CallExpand(n) \/ CallContract(n)
      PROVE  IdentityInv'
  <2>1. /\ pc \in {"run", "expand", "contract"}
        /\ pc' \in {"run", "expand", "contract", "recurse", "halt"}
        /\ placement_addr' = placement_addr
        /\ paging' = paging
    BY <1>8 DEF ExpandStep, ExpandRecurses, ContractStep, CallExpand, CallContract
  <2>2. \A p \in LowPages : entry'[p] = entry[p]
    <3>1. CASE ExpandStep
      <4>1. i \notin LowPages
        BY <1>0, <3>1 DEF ExpandStep, TypeInv, TypeOK, LoopRange, LowPages
      <4> QED
        BY <1>0, <3>1, <4>1, HighPagesOnly DEF ExpandStep
    <3>2. CASE ContractStep
      <4>1. CASE i > target
        <5>1. i \notin LowPages
          BY <1>0, <3>2, <4>1 DEF ContractStep, TypeInv, TypeOK, LoopRange, LowPages
        <5> QED
          BY <1>0, <3>2, <5>1, HighPagesOnly DEF ContractStep
      <4>2. CASE ~ (i > target)
        BY <3>2, <4>2 DEF ContractStep
      <4> QED
        BY <4>1, <4>2
    <3> QED
      BY <1>8, <3>1, <3>2 DEF ExpandRecurses, CallExpand, CallContract
  <2> QED
    BY <1>0, <2>1, <2>2
    DEF IdentityInv, NoFramesYet, IdentityLoop, HeapTables, IdentityDone, IsIdentity
<1>9. CASE Halted \/ Recursing \/ UNCHANGED vars
  BY <1>0, <1>9
  DEF Halted, Recursing, vars, IdentityInv, NoFramesYet, IdentityLoop, HeapTables,
      HeapTablesUpTo, IdentityDone, IsIdentity
<1> QED
  BY <1>1, <1>2, <1>3, <1>4, <1>5, <1>6, <1>7, <1>8, <1>9 DEF Next, BootStep

LEMMA IdentityInit == Init => IdentityInv
<1> SUFFICES ASSUME Init PROVE IdentityInv
  OBVIOUS
<1>1. \A p \in Pages : entry[p].frame = 0
  BY DEF Init, EmptyEntry
<1> QED
  BY <1>1, TypeInit
  DEF Init, IdentityInv, NoFramesYet, IdentityLoop, HeapTables, IdentityDone

LEMMA IdentityMapped == IdentityInv => KernelIdentityMapped
<1> SUFFICES ASSUME IdentityInv, paging, NEW p \in LowPages,
                    p * PageSize < placement_addr, p < ZeroedFrames
             PROVE  IsIdentity(p)
  BY DEF KernelIdentityMapped, IsIdentity
<1>1. p * PageSize < placement_addr + PageSize
  BY ConstantTypes DEF IdentityInv, TypeInv, TypeOK, LowPages
<1> QED
  BY <1>1 DEF IdentityInv, IdentityDone

\* Switching paging on never pulls the ground from under the kernel: every page
\* it occupies is mapped to itself from switch_page_dir on and for ever.
THEOREM KernelStaysMapped == Spec => []KernelIdentityMapped
  BY IdentityInit, IdentityMapped, IdentityStep, PTL DEF Spec

-----------------------------------------------------------------------------
(***************************************************************************)
(* The tables the kernel edits are the tables the CPU walks.  A table of   *)
(* the placement allocator is where it seems to be because the kernel is   *)
(* identity mapped.  A table of the heap was translated when get_page made *)
(* it, and its page must keep that frame: expand maps pages at the end of  *)
(* the heap and behind, and contract unmaps none that holds a table.       *)
(***************************************************************************)

\* Table t lies in page p, below what the placement allocator has given out.
PlacedAt(t, p) ==
  /\ tables[t] = p * PageSize
  /\ tables_physical[t] = p * PageSize
  /\ tables[t] < placement_addr

\* Table t lies in page q of the heap and was translated with q's frame.
TranslatedAt(t, q) ==
  /\ tables[t] = q * PageSize
  /\ tables_physical[t] = entry[q].frame * PageSize

\* During boot every table comes from the placement allocator.
PlacedTables ==
  \A t \in TableIndexes : tables[t] = 0 \/ \E p \in Nat : PlacedAt(t, p)

Tables ==
  \A t \in TableIndexes :
    \/ tables[t] = 0
    \/ \E p \in Nat : PlacedAt(t, p)
    \/ \E q \in HeapBase .. heap_end - 1 : TranslatedAt(t, q)

\* The boot and the heap.  No table lies in the pages contract gives back.
TranslateInv ==
  /\ IdentityInv
  /\ pc \notin {"run", "expand", "contract", "recurse", "halt"} => PlacedTables
  /\ pc \in {"run", "expand", "contract", "recurse", "halt"} => Tables
  /\ pc = "contract" => \A t \in TableIndexes : tables[t] < target * PageSize

\* align_up returns a multiple of the page size.
LEMMA AlignUpPage ==
  ASSUME NEW a \in Nat
  PROVE  \E p \in Nat : AlignUp(a) = p * PageSize
<1>1. PageSize \in Nat /\ PageSize > 0
  BY PagingAssumption
<1> DEFINE d == a \div PageSize
           r == a % PageSize
<1>2. a = d * PageSize + r /\ d \in Nat /\ r \in 0 .. PageSize - 1
  BY <1>1
<1>3. (d + 1) * PageSize = d * PageSize + PageSize
  BY <1>1, <1>2
<1>4. AlignUp(a) = IF r = 0 THEN a ELSE a - r + PageSize
  BY DEF AlignUp
<1> HIDE DEF d, r
<1>5. d * PageSize \in Nat
  BY <1>1, <1>2
<1>6. CASE r = 0
  BY <1>2, <1>4, <1>5, <1>6
<1>7. CASE r # 0
  <2>1. AlignUp(a) = (d + 1) * PageSize
    BY <1>1, <1>2, <1>3, <1>4, <1>5, <1>7
  <2>2. d + 1 \in Nat
    BY <1>2
  <2> QED
    BY <2>1, <2>2
<1> QED
  BY <1>6, <1>7

LEMMA PageAddressType == ASSUME NEW p \in Nat PROVE p * PageSize \in Nat
<1>1. PageSize \in Nat
  BY PagingAssumption
<1> QED
  BY <1>1

\* The page of an address at the start of a page.
LEMMA PageAddress ==
  ASSUME NEW p \in Nat
  PROVE  (p * PageSize) \div PageSize = p
<1>1. PageSize \in Nat /\ PageSize > 0
  BY PagingAssumption
<1> QED
  BY <1>1

\* Addresses of pages are ordered as the pages are, strictly.
LEMMA PageBelow ==
  ASSUME NEW p \in Nat, NEW q \in Nat, p * PageSize < q * PageSize
  PROVE  p < q
<1>1. PageSize \in Nat /\ q * PageSize \in Nat /\ p * PageSize \in Nat
  BY PagingAssumption
<1>2. CASE q <= p
  <2>1. q * PageSize <= p * PageSize
    BY <1>2, PageOrder
  <2> QED
    BY <1>1, <2>1
<1> QED
  BY <1>2

\* get_page makes a table in a page of its own, at boot.
LEMMA GetPageAtBootPlaced ==
  ASSUME TypeInv, PlacedTables, NEW p \in Nat, GetPageAtBoot(p)
  PROVE  PlacedTables'
<1> USE ConstantTypes
<1>1. /\ placement_addr \in Nat /\ placement_addr > 0
      /\ tables \in [TableIndexes -> Nat] /\ tables_physical \in [TableIndexes -> Nat]
  BY DEF TypeInv, TypeOK, LoopRange
<1>2. CASE tables[TableOf(p)] # 0
  BY <1>2 DEF GetPageAtBoot, PlacedTables, PlacedAt
<1>3. CASE tables[TableOf(p)] = 0
  <2> DEFINE a == AlignUp(placement_addr)
  <2>1. a \in Nat /\ a >= placement_addr
    BY <1>1, AlignUpType
  <2>2. PICK q \in Nat : a = q * PageSize
    BY <1>1, AlignUpPage
  <2>3. /\ placement_addr' = a + PageSize
        /\ tables' = [tables EXCEPT ![TableOf(p)] = a]
        /\ tables_physical' = [tables_physical EXCEPT ![TableOf(p)] = a]
    BY <1>3 DEF GetPageAtBoot, PlacementAlloc
  <2> HIDE DEF a
  <2>4. SUFFICES ASSUME NEW t \in TableIndexes
                 PROVE  tables'[t] = 0 \/ \E n \in Nat : PlacedAt(t, n)'
    BY DEF PlacedTables
  <2>5. a < placement_addr' /\ placement_addr < placement_addr'
    BY <1>1, <2>1, <2>3
  <2>6. CASE t = TableOf(p)
    <3>1. tables'[t] = a /\ tables_physical'[t] = a
      BY <1>1, <2>3, <2>6
    <3>2. PlacedAt(t, q)'
      BY <2>2, <2>5, <3>1 DEF PlacedAt
    <3> QED
      BY <3>2
  <2>7. CASE t # TableOf(p)
    <3>1. tables'[t] = tables[t] /\ tables_physical'[t] = tables_physical[t]
      BY <1>1, <2>3, <2>7
    <3>2. CASE tables[t] = 0
      BY <3>1, <3>2
    <3>3. ASSUME NEW n \in Nat, PlacedAt(t, n) PROVE PlacedAt(t, n)'
      BY <1>1, <2>1, <2>3, <2>5, <3>1, <3>3 DEF PlacedAt
    <3> QED
      BY <3>2, <3>3 DEF PlacedTables
  <2> QED
    BY <2>6, <2>7
<1> QED
  BY <1>2, <1>3

\* A table stays where the placement allocator put it.
LEMMA PlacedStays ==
  ASSUME TypeInv, TypeInv', placement_addr' >= placement_addr,
         UNCHANGED <<tables, tables_physical>>,
         NEW t \in TableIndexes, NEW p \in Nat, PlacedAt(t, p)
  PROVE  PlacedAt(t, p)'
  BY DEF PlacedAt, TypeInv, TypeOK

\* The steps of init_paging.
LEMMA BootTables ==
  ASSUME TypeInv, TypeInv', PlacedTables, BootStep
  PROVE  PlacedTables'
<1> USE ConstantTypes
<1>1. i \in Nat /\ placement_addr \in Nat
  BY DEF TypeInv, TypeOK
<1>2. ASSUME placement_addr' >= placement_addr, UNCHANGED <<tables, tables_physical>>
      PROVE  PlacedTables'
  <2>1. SUFFICES ASSUME NEW t \in TableIndexes
                 PROVE  tables[t] = 0 \/ \E p \in Nat : PlacedAt(t, p)'
    BY <1>2 DEF PlacedTables
  <2>2. CASE tables[t] = 0
    BY <2>2
  <2>3. ASSUME NEW p \in Nat, PlacedAt(t, p) PROVE PlacedAt(t, p)'
    BY <1>2, <2>3, PlacedStays
  <2> QED
    BY <2>2, <2>3 DEF PlacedTables
<1>3. CASE GetPageAtBoot(i)
  BY <1>1, <1>3, GetPageAtBootPlaced
<1>4. CASE InitBitmap
  BY <1>1, <1>2, <1>4 DEF InitBitmap, PlacementAlloc
<1>5. CASE InitDir
  <2>1. AlignUp(placement_addr) \in Nat /\ AlignUp(placement_addr) >= placement_addr
    BY <1>1, AlignUpType
  <2>2. placement_addr' = AlignUp(placement_addr) + DirSize
    BY <1>5 DEF InitDir, PlacementAlloc
  <2>3. UNCHANGED <<tables, tables_physical>>
    BY <1>5 DEF InitDir
  <2>4. placement_addr' >= placement_addr
    BY <1>1, <2>1, <2>2
  <2> QED
    BY <1>2, <2>3, <2>4
<1>6. CASE MapHeapTables
  BY <1>1, <1>2, <1>3, <1>6 DEF MapHeapTables
<1>7. CASE MapIdentity
  <2>1. \/ GetPageAtBoot(i)
        \/ UNCHANGED <<tables, tables_physical, placement_addr>>
    BY <1>7, Zenon DEF MapIdentity
  <2> QED
    BY <1>1, <1>2, <1>3, <2>1
<1>8. CASE MapHeapFrames
  <2>1. \/ GetPageAtBoot(i)
        \/ UNCHANGED <<tables, tables_physical, placement_addr>>
    BY <1>8, Zenon DEF MapHeapFrames
  <2> QED
    BY <1>1, <1>2, <1>3, <2>1
<1>9. CASE SwitchPageDir
  BY <1>1, <1>2, <1>9 DEF SwitchPageDir
<1>10. CASE CreateHeap
  BY <1>1, <1>2, <1>10 DEF CreateHeap, PlacementAlloc
<1> QED
  BY <1>4, <1>5, <1>6, <1>7, <1>8, <1>9, <1>10 DEF BootStep

LEMMA InRange ==
  ASSUME NEW a \in Int, NEW b \in Int, NEW c \in Int, NEW q \in a .. b - 1, q < c
  PROVE  q \in a .. c - 1
  OBVIOUS

\* As long as the pages of its tables keep their frames, a heap that grows or
\* shrinks keeps the translations of the tables that were there before.
LEMMA TablesStay ==
  ASSUME TypeInv, TypeInv', Tables, UNCHANGED placement_addr,
         NEW t \in TableIndexes,
         tables'[t] = tables[t], tables_physical'[t] = tables_physical[t],
         \A q \in HeapBase .. heap_end - 1 :
           tables[t] = q * PageSize => q < heap_end' /\ entry'[q] = entry[q]
  PROVE  \/ tables'[t] = 0
         \/ \E p \in Nat : PlacedAt(t, p)'
         \/ \E q \in HeapBase .. heap_end' - 1 : TranslatedAt(t, q)'
<1>1. CASE tables[t] = 0
  BY <1>1
<1>2. ASSUME NEW p \in Nat, PlacedAt(t, p) PROVE PlacedAt(t, p)'
  BY <1>2 DEF PlacedAt
<1>3. ASSUME NEW q \in HeapBase .. heap_end - 1, TranslatedAt(t, q)
      PROVE  q \in HeapBase .. heap_end' - 1 /\ TranslatedAt(t, q)'
  <2>1. q < heap_end' /\ entry'[q] = entry[q]
    BY <1>3 DEF TranslatedAt
  <2>2. heap_end \in Int /\ heap_end' \in Int /\ HeapBase \in Int
    BY ConstantTypes DEF TypeInv, TypeOK
  <2>3. q \in HeapBase .. heap_end' - 1
    BY <2>1, <2>2, InRange
  <2>4. TranslatedAt(t, q)'
    BY <1>3, <2>1 DEF TranslatedAt
  <2> QED
    BY <2>3, <2>4
<1> QED
  BY <1>1, <1>2, <1>3 DEF Tables

\* One page more at the end of the heap, and perhaps a table for it.
LEMMA ExpandTables ==
  ASSUME TypeInv, TypeInv', Tables, ExpandStep
  PROVE  Tables'
<1> USE ConstantTypes
<1>1. /\ i \in Nat /\ heap_end \in Nat /\ target \in Nat /\ pc = "expand"
      /\ i >= heap_end /\ target > heap_end
      /\ entry \in [Pages -> PageEntry]
      /\ tables \in [TableIndexes -> Nat] /\ tables_physical \in [TableIndexes -> Nat]
      /\ UNCHANGED placement_addr
  BY DEF TypeInv, TypeOK, LoopRange, ExpandStep
<1>2. SUFFICES ASSUME NEW t \in TableIndexes
               PROVE  \/ tables'[t] = 0
                      \/ \E p \in Nat : PlacedAt(t, p)'
                      \/ \E q \in HeapBase .. heap_end' - 1 : TranslatedAt(t, q)'
  BY DEF Tables
<1>3. CASE i < target
  <2>1. PICK f \in Frames, n \in HeapBase .. heap_end - 1 :
          /\ GetPageFromHeap(i, n)
          /\ AllocFrame(i, f, FALSE, FALSE)
          /\ UNCHANGED heap_end
    BY <1>3 DEF ExpandStep
  <2>2. \A q \in HeapBase .. heap_end - 1 : q < heap_end' /\ entry'[q] = entry[q]
    <3>1. \A q \in HeapBase .. heap_end - 1 : q # i /\ q < heap_end' /\ q \in Pages
      BY <1>1, <2>1 DEF Pages, TypeInv, TypeOK
    <3> QED
      BY <1>1, <2>1, <3>1 DEF AllocFrame
  <2>3. CASE tables'[t] = tables[t] /\ tables_physical'[t] = tables_physical[t]
    BY <1>1, <2>2, <2>3, TablesStay
  <2>4. CASE ~ (tables'[t] = tables[t] /\ tables_physical'[t] = tables_physical[t])
    <3>1. tables'[t] = n * PageSize /\ tables_physical'[t] = entry[n].frame * PageSize
      BY <1>1, <2>1, <2>4 DEF GetPageFromHeap
    <3>2. TranslatedAt(t, n)' /\ n \in HeapBase .. heap_end' - 1
      BY <2>1, <2>2, <3>1 DEF TranslatedAt
    <3> QED
      BY <3>2
  <2> QED
    BY <2>3, <2>4
<1>4. CASE ~ (i < target)
  <2>1. heap_end' = target /\ UNCHANGED <<entry, tables, tables_physical>>
    BY <1>4 DEF ExpandStep
  <2>2. \A q \in HeapBase .. heap_end - 1 : q < heap_end' /\ entry'[q] = entry[q]
    BY <1>1, <2>1
  <2> QED
    BY <1>1, <2>1, <2>2, TablesStay
<1> QED
  BY <1>3, <1>4

\* A page given back at the end of the heap, behind every table.
LEMMA ContractTables ==
  ASSUME TypeInv, TypeInv', Tables, ContractStep,
         \A t \in TableIndexes : tables[t] < target * PageSize
  PROVE  Tables'
<1> USE ConstantTypes
<1>1. /\ i \in Nat /\ heap_end \in Nat /\ target \in Nat /\ target <= HeapLimit
      /\ entry \in [Pages -> PageEntry]
      /\ UNCHANGED <<placement_addr, tables, tables_physical>>
  BY DEF TypeInv, TypeOK, ContractStep
<1>2. SUFFICES ASSUME NEW t \in TableIndexes
               PROVE  \/ tables'[t] = 0
                      \/ \E p \in Nat : PlacedAt(t, p)'
                      \/ \E q \in HeapBase .. heap_end' - 1 : TranslatedAt(t, q)'
  BY DEF Tables
<1>3. ASSUME NEW q \in HeapBase .. heap_end - 1, tables[t] = q * PageSize
      PROVE  q < heap_end' /\ entry'[q] = entry[q]
  <2>1. q \in Nat /\ q < heap_end
    BY <1>1
  <2>2. q < target
    BY <1>1, <1>3, <2>1, PageBelow
  <2>3. q \in Pages
    BY <1>1, <2>1, <2>2 DEF Pages
  <2>4. CASE i > target
    <3>1. q # i /\ UNCHANGED heap_end /\ FreeFrame(i)
      BY <1>1, <2>1, <2>2, <2>4 DEF ContractStep
    <3>2. entry'[q] = entry[q]
      BY <1>1, <2>3, <3>1 DEF FreeFrame
    <3> QED
      BY <2>1, <3>1, <3>2
  <2>5. CASE ~ (i > target)
    BY <2>2, <2>5 DEF ContractStep
  <2> QED
    BY <2>4, <2>5
<1> QED
  BY <1>1, <1>3, TablesStay

\* Every step keeps the invariant.
LEMMA TranslateStep == TranslateInv /\ [Next]_vars => TranslateInv'
<1> SUFFICES ASSUME TranslateInv, [Next]_vars PROVE TranslateInv'
  OBVIOUS
<1>0. IdentityInv /\ TypeInv /\ TypeInv' /\ IdentityInv'
  BY IdentityStep, TypeStep DEF TranslateInv, IdentityInv
<1> DEFINE heap == {"run", "expand", "contract", "recurse", "halt"}
<1>1. CASE BootStep
  <2>1. pc \notin heap /\ pc' # "contract"
    BY <1>1
    DEF BootStep, InitBitmap, InitDir, MapHeapTables, MapIdentity, MapHeapFrames,
        SwitchPageDir, CreateHeap
  <2>2. PlacedTables'
    BY <1>0, <1>1, <2>1, BootTables DEF TranslateInv
  <2>3. Tables'
    BY <2>2 DEF PlacedTables, Tables
  <2> QED
    BY <1>0, <2>1, <2>2, <2>3 DEF TranslateInv
<1>2. CASE ExpandStep
  <2>1. pc = "expand" /\ pc' \in heap /\ pc' # "contract"
    BY <1>2 DEF ExpandStep
  <2>2. Tables'
    BY <1>0, <1>2, <2>1, ExpandTables DEF TranslateInv
  <2> QED
    BY <1>0, <2>1, <2>2 DEF TranslateInv
<1>3. CASE ContractStep
  <2>1. pc = "contract" /\ pc' \in {"contract", "run"} /\ UNCHANGED <<tables, target>>
    BY <1>3 DEF ContractStep
  <2>2. \A t \in TableIndexes : tables[t] < target * PageSize
    BY <2>1 DEF TranslateInv
  <2>3. Tables'
    BY <1>0, <1>3, <2>1, <2>2, ContractTables DEF TranslateInv
  <2>4. \A t \in TableIndexes : tables'[t] < target' * PageSize
    BY <2>1, <2>2
  <2> QED
    BY <1>0, <2>1, <2>3, <2>4 DEF TranslateInv
<1>4. ASSUME NEW n \in HeapBase .. HeapLimit + 1, CallContract(n)
      PROVE  TranslateInv'
  <2>1. /\ pc = "run" /\ pc' = "contract"
        /\ UNCHANGED <<entry, tables, tables_physical, placement_addr, heap_end>>
        /\ \A t \in TableIndexes : tables[t] < n * PageSize
    BY <1>4 DEF CallContract
  <2>2. Tables'
    BY <2>1 DEF TranslateInv, Tables, PlacedAt, TranslatedAt
  <2>3. n \in Nat /\ target' \in Nat /\ n <= target'
    BY <1>4, ConstantTypes DEF CallContract
  <2>4. n * PageSize <= target' * PageSize
    BY <2>3, PageOrder
  <2>5. n * PageSize \in Nat /\ target' * PageSize \in Nat
    BY <2>3, PageAddressType
  <2>6. \A t \in TableIndexes : tables'[t] < target' * PageSize
    BY <1>0, <2>1, <2>4, <2>5 DEF TypeInv, TypeOK
  <2> QED
    BY <1>0, <2>1, <2>2, <2>6 DEF TranslateInv
<1>5. ASSUME NEW n \in HeapBase .. HeapLimit + 1, CallExpand(n)
      PROVE  TranslateInv'
  <2>1. /\ pc = "run" /\ pc' \in {"expand", "halt"}
        /\ UNCHANGED <<entry, tables, tables_physical, placement_addr, heap_end>>
    BY <1>5 DEF CallExpand
  <2> QED
    BY <1>0, <2>1 DEF TranslateInv, Tables, PlacedAt, TranslatedAt
<1>6. CASE ExpandRecurses
  <2>1. /\ pc = "expand" /\ pc' = "recurse"
        /\ UNCHANGED <<entry, tables, tables_physical, placement_addr, heap_end>>
    BY <1>6 DEF ExpandRecurses
  <2> QED
    BY <1>0, <2>1 DEF TranslateInv, Tables, PlacedAt, TranslatedAt
<1>7. CASE Halted \/ Recursing \/ UNCHANGED vars
  BY <1>0, <1>7
  DEF Halted, Recursing, vars, TranslateInv, PlacedTables, Tables, PlacedAt, TranslatedAt
<1> QED
  BY <1>1, <1>2, <1>3, <1>4, <1>5, <1>6, <1>7 DEF Next

\* Every page table the kernel writes is the one the CPU walks, whether init_paging
\* placed it or expand took it out of the heap it was growing.
THEOREM TablesAreTranslated == Spec => []TablesTranslate
<1>1. Init => TranslateInv
  <2> SUFFICES ASSUME Init PROVE TranslateInv
    OBVIOUS
  <2>1. IdentityInv
    BY IdentityInit
  <2>2. pc = "bitmap" /\ \A t \in TableIndexes : tables[t] = 0
    BY DEF Init
  <2> QED
    BY <2>1, <2>2 DEF TranslateInv, PlacedTables
<1>2. TranslateInv => TablesTranslate
  <2> SUFFICES ASSUME TranslateInv, paging, NEW t \in TableIndexes,
                      \/ tables[t] \in 1 .. ZeroedFrames * PageSize - 1
                      \/ tables[t] >= placement_addr
               PROVE  tables_physical[t] = entry[tables[t] \div PageSize].frame * PageSize
    BY DEF TablesTranslate
  <2> USE ConstantTypes
  <2>1. /\ placement_addr \in Nat /\ placement_addr > 0 /\ tables[t] \in Nat
        /\ heap_end \in Nat
    BY DEF TranslateInv, IdentityInv, TypeInv, TypeOK, LoopRange
  <2>2. tables[t] # 0
    BY <2>1
  <2>3. \/ \E p \in Nat : PlacedAt(t, p)
        \/ \E q \in HeapBase .. heap_end - 1 : TranslatedAt(t, q)
    BY <2>2 DEF TranslateInv, PlacedTables, Tables
  <2>4. ASSUME NEW p \in Nat, PlacedAt(t, p)
        PROVE  tables_physical[t] = entry[tables[t] \div PageSize].frame * PageSize
    <3>1. tables[t] = p * PageSize /\ tables_physical[t] = p * PageSize
      BY <2>4 DEF PlacedAt
    <3>2. p * PageSize < placement_addr /\ p * PageSize < ZeroedFrames * PageSize
      <4>1. tables[t] < placement_addr
        BY <2>4 DEF PlacedAt
      <4>2. ZeroedFrames * PageSize \in Nat
        OBVIOUS
      <4> QED
        BY <2>1, <3>1, <4>1, <4>2
    <3>3. p < ZeroedFrames
      BY <3>2, PageBelow
    <3>4. p \in LowPages
      BY <3>3, HeapAssumption DEF LowPages
    <3>5. entry[p].frame = p
      BY <3>2, <3>3, <3>4, IdentityMapped DEF KernelIdentityMapped, TranslateInv
    <3> QED
      BY <3>1, <3>5, PageAddress
  <2>5. ASSUME NEW q \in HeapBase .. heap_end - 1, TranslatedAt(t, q)
        PROVE  tables_physical[t] = entry[tables[t] \div PageSize].frame * PageSize
    <3>1. q \in Nat
      BY <2>1
    <3> QED
      BY <2>5, <3>1, PageAddress DEF TranslatedAt
  <2> QED
    BY <2>3, <2>4, <2>5
<1> QED
  BY <1>1, <1>2, TranslateStep, PTL DEF Spec

=============================================================================
