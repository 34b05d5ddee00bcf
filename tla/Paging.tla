------------------------------- MODULE Paging -------------------------------
(***************************************************************************)
(* Physical frames, page entries and page tables of the kernel address     *)
(* space: init_paging, alloc_frame, free_frame and get_page of             *)
(* src/mem/page.c, the placement allocator of src/mem/kmalloc.c that feeds *)
(* them during boot, and the loops of expand and contract in               *)
(* src/mem/heap.c that map and unmap the pages of the kernel heap.         *)
(*                                                                         *)
(* Addresses are bytes, pages and frames are numbered.  The loops of the   *)
(* code are loops of the model: one step is one iteration, and pc says     *)
(* which loop the (single) kernel thread is in.                            *)
(***************************************************************************)
EXTENDS Integers

CONSTANTS
  PageSize,       \* PAGE_SIZE
  ByteBits,       \* bits of a byte, 8 in BIT_INDEX
  WordBytes,      \* bytes of a uint32_t, 4 in BIT_INDEX
  NumFrames,      \* num_frames, phys_mem_size / PAGE_SIZE
  PagesPerTable,  \* entries of a Page_table, 1024
  InitrdEnd,      \* placement_addr when init_paging is called
  DirSize,        \* sizeof(Page_dir), more than two pages
  HeapStructSize, \* sizeof(Heap)
  HeapPage,       \* page of HEAP_START
  IndexPages,     \* pages of the hole index, start_addr is behind them
  HeapInitPages,  \* HEAP_INIT_SIZE
  HeapMinPages,   \* HEAP_MIN_SIZE
  HeapMaxPages,   \* HEAP_MAX_SIZE
  Garbage         \* sets of bits that may be set in memory nobody cleared

WordBits == ByteBits * WordBytes

\* BIT_INDEX: the word of the bitset that holds bit n.
BitIndex(n) == n \div WordBits

Frames == 0 .. NumFrames - 1

\* init_paging passes BIT_INDEX(num_frames), a number of words, to kmalloc and
\* to memset as a number of bytes.
BitmapBytes == BitIndex(NumFrames)

\* The bits inside those bytes; the words behind them hold what memory held.
ZeroedFrames == BitmapBytes * ByteBits

HeapBase  == HeapPage + IndexPages         \* page of heap->start_addr
HeapLimit == HeapPage + HeapMaxPages       \* page of heap->max_addr

Pages    == 0 .. HeapLimit - 1
LowPages == 0 .. HeapPage - 1

\* Index of the table that holds the entry of a page.
TableOf(p) == p \div PagesPerTable

TableIndexes == {TableOf(p) : p \in Pages}

\* (uint32_t)-1, which alloc_frame takes for "no free frame".
NO_FRAME == -1

ASSUME PagingAssumption ==
  /\ PageSize \in Nat \ {0}
  /\ ByteBits \in Nat \ {0}
  /\ WordBytes \in Nat \ {0}
  /\ NumFrames \in Nat \ {0}
  /\ PagesPerTable \in Nat \ {0}
  /\ InitrdEnd \in Nat \ {0}
  /\ DirSize \in Nat \ {0}
  /\ HeapStructSize \in 1 .. PageSize
  /\ HeapPage \in Nat \ {0}
  /\ IndexPages \in Nat \ {0}
  /\ HeapMinPages \in Nat \ {0}
  /\ HeapInitPages \in Nat
  /\ IndexPages + HeapMinPages <= HeapInitPages
  /\ HeapMaxPages \in Nat
  /\ HeapInitPages <= HeapMaxPages
  /\ Garbage \subseteq SUBSET Frames

\* 64MB fill whole words of the bitset, and a byte has at most as many bits as
\* a word.
ASSUME BitmapAssumption ==
  /\ NumFrames % WordBits = 0
  /\ BitmapBytes \in Frames
  /\ ZeroedFrames \in 0 .. NumFrames

\* HEAP_START, 0xC0000000, is above the memory whose bits are cleared.
ASSUME HeapAssumption == ZeroedFrames <= HeapPage

VARIABLES
  frames,          \* the bitset: frames[f] is the bit of frame f
  entry,           \* the Page_entry of every page (of kernel_dir)
  tables,          \* kernel_dir->tables: address of each page table, 0 if none
  tables_physical, \* kernel_dir->tables_physical
  placement_addr,  \* top of the placement allocator
  paging,          \* CR0.PG: switch_page_dir has run
  kheap,           \* kheap # NULL
  heap_end,        \* page of heap->end_addr
  pc,              \* where the kernel is
  i,               \* loop variable, a page
  target           \* page of the new end of the heap, in expand and contract

vars == <<frames, entry, tables, tables_physical, placement_addr, paging,
          kheap, heap_end, pc, i, target>>

PageEntry == [present : BOOLEAN, rw : BOOLEAN, user : BOOLEAN, frame : Frames]

EmptyEntry == [present |-> FALSE, rw |-> FALSE, user |-> FALSE, frame |-> 0]

Locations == {"bitmap", "dir", "heap_tables", "identity", "heap_frames",
              "switch", "create_heap", "run", "expand", "contract", "recurse",
              "halt"}

-----------------------------------------------------------------------------
(***************************************************************************)
(* Helpers of page.c.                                                      *)
(***************************************************************************)

AlignUp(a) == IF a % PageSize = 0 THEN a ELSE a - (a % PageSize) + PageSize

\* set_frame and first_frame use all the words of the bitset, more than the bytes
\* allocated for it, and the page directory is the next allocation.  The initrd is
\* taken to end where the alignment of the directory leaves room for the rest;
\* elsewhere the bits of the high frames are entries of kernel_dir->tables.
ASSUME BitsetAssumption ==
  InitrdEnd + NumFrames \div ByteBits <= AlignUp(InitrdEnd + BitmapBytes)

\* first_frame: the lowest clear bit; if all are set the loop ends with
\* i = BIT_INDEX(num_frames), and that is returned.
FirstFrame(f) ==
  \/ /\ ~ frames[f]
     /\ \A g \in 0 .. f - 1 : frames[g]
  \/ /\ \A g \in Frames : frames[g]
     /\ f = BitIndex(NumFrames)

\* alloc_frame(page, kernel, writeable), given what first_frame returned.
AllocFrame(p, f, kernel, writeable) ==
  IF entry[p].frame # 0
  THEN UNCHANGED <<frames, entry>>
  ELSE /\ frames' = [frames EXCEPT ![f] = TRUE]
       /\ entry'  = [entry EXCEPT ![p] = [present |-> TRUE, rw |-> writeable,
                                          user |-> ~ kernel, frame |-> f]]

\* clear_frame takes an address and divides it by PAGE_SIZE; free_frame gives
\* it a frame number.  This is the bit that free_frame really clears.
ClearedBit(f) == f \div PageSize

\* Fault: the page keeps the frame whose bit is cleared.
FreeFrameKept(p) ==
  IF entry[p].frame = 0
  THEN UNCHANGED <<frames, entry>>
  ELSE /\ frames' = [frames EXCEPT ![entry[p].frame] = FALSE]
       /\ UNCHANGED entry

\* free_frame: the entry stays present.
FreeFrame(p) ==
  IF entry[p].frame = 0
  THEN UNCHANGED <<frames, entry>>
  ELSE /\ frames' = [frames EXCEPT ![ClearedBit(entry[p].frame)] = FALSE]
       /\ entry'  = [entry EXCEPT ![p].frame = 0]

\* kmalloc_aux before there is a heap.
PlacementAlloc(size, align, addr) ==
  /\ addr = IF align THEN AlignUp(placement_addr) ELSE placement_addr
  /\ placement_addr' = addr + size

\* get_page(p, true) during boot: a missing table comes from the placement
\* allocator, whose addresses are physical ones.
GetPageAtBoot(p) ==
  IF tables[TableOf(p)] # 0
  THEN UNCHANGED <<tables, tables_physical, placement_addr>>
  ELSE LET a == AlignUp(placement_addr) IN
       /\ PlacementAlloc(PageSize, TRUE, a)
       /\ tables'          = [tables EXCEPT ![TableOf(p)] = a]
       /\ tables_physical' = [tables_physical EXCEPT ![TableOf(p)] = a]

\* Fault: the virtual address of the table is taken for its physical one.
GetPageUntranslated(p, q) ==
  IF tables[TableOf(p)] # 0
  THEN UNCHANGED <<tables, tables_physical>>
  ELSE /\ \A t \in TableIndexes : tables[t] # q * PageSize
       /\ tables' = [tables EXCEPT ![TableOf(p)] = q * PageSize]
       /\ tables_physical' = [tables_physical EXCEPT ![TableOf(p)] = q * PageSize]

\* get_page(p, true) once the heap exists: kmalloc_ap takes a page-aligned
\* block of the heap (page q) and looks its physical address up.
GetPageFromHeap(p, q) ==
  IF tables[TableOf(p)] # 0
  THEN UNCHANGED <<tables, tables_physical>>
  ELSE /\ \A t \in TableIndexes : tables[t] # q * PageSize
       /\ tables' = [tables EXCEPT ![TableOf(p)] = q * PageSize]
       /\ tables_physical' =
            [tables_physical EXCEPT ![TableOf(p)] = entry[q].frame * PageSize]

-----------------------------------------------------------------------------
(***************************************************************************)
(* init_paging, in the order of its statements.                            *)
(***************************************************************************)

Init ==
  /\ frames = [f \in Frames |-> FALSE]
  /\ entry = [p \in Pages |-> EmptyEntry]
  /\ tables = [t \in TableIndexes |-> 0]
  /\ tables_physical = [t \in TableIndexes |-> 0]
  /\ placement_addr = InitrdEnd
  /\ paging = FALSE
  /\ kheap = FALSE
  /\ heap_end = 0
  /\ pc = "bitmap"
  /\ i = 0
  /\ target = 0

\* frames = kmalloc(...), memset(frames, 0, ...).
InitBitmap ==
  /\ pc = "bitmap"
  /\ PlacementAlloc(BitmapBytes, FALSE, placement_addr)
  /\ \E g \in Garbage :
       frames' = [f \in Frames |-> f >= ZeroedFrames /\ f \in g]
  /\ pc' = "dir"
  /\ UNCHANGED <<entry, tables, tables_physical, paging, kheap, heap_end, i,
                 target>>

\* kernel_dir = kmalloc_a(sizeof(Page_dir)), cleared.
InitDir ==
  /\ pc = "dir"
  /\ PlacementAlloc(DirSize, TRUE, AlignUp(placement_addr))
  /\ pc' = "heap_tables"
  /\ i' = HeapPage
  /\ UNCHANGED <<frames, entry, tables, tables_physical, paging, kheap,
                 heap_end, target>>

\* Fault: the loop variable does not advance.
MapHeapTablesStuck ==
  /\ pc = "heap_tables"
  /\ GetPageAtBoot(i)
  /\ UNCHANGED <<frames, entry, paging, kheap, heap_end, pc, i, target>>

\* "Map some kernel heap pages": only the tables.
MapHeapTables ==
  /\ pc = "heap_tables"
  /\ IF i < HeapPage + HeapInitPages
     THEN /\ GetPageAtBoot(i)
          /\ i' = i + 1
          /\ pc' = pc
     ELSE /\ UNCHANGED <<tables, tables_physical, placement_addr>>
          /\ i' = 0
          /\ pc' = "identity"
  /\ UNCHANGED <<frames, entry, paging, kheap, heap_end, target>>

\* Fault: no extra page behind placement_addr.
IdentityEndExact == placement_addr

\* The first address MapIdentity leaves unmapped.
IdentityEnd == placement_addr + PageSize

\* "Allocate an extra page for the kernel heap": map everything up to one
\* page behind placement_addr, which get_page may move meanwhile.
MapIdentity ==
  /\ pc = "identity"
  /\ IF i * PageSize < IdentityEnd
     THEN \E f \in Frames :
            /\ FirstFrame(f)
            /\ GetPageAtBoot(i)
            /\ AllocFrame(i, f, FALSE, FALSE)
            /\ i' = i + 1
            /\ pc' = IF f = NO_FRAME THEN "halt" ELSE pc
     ELSE /\ UNCHANGED <<frames, entry, tables, tables_physical,
                         placement_addr>>
          /\ i' = HeapPage
          /\ pc' = "heap_frames"
  /\ UNCHANGED <<paging, kheap, heap_end, target>>

\* "Allocate those pages from earlier".
MapHeapFrames ==
  /\ pc = "heap_frames"
  /\ IF i < HeapPage + HeapInitPages
     THEN \E f \in Frames :
            /\ FirstFrame(f)
            /\ GetPageAtBoot(i)
            /\ AllocFrame(i, f, FALSE, FALSE)
            /\ i' = i + 1
            /\ pc' = IF f = NO_FRAME THEN "halt" ELSE pc
     ELSE /\ UNCHANGED <<frames, entry, tables, tables_physical,
                         placement_addr, i>>
          /\ pc' = "switch"
  /\ UNCHANGED <<paging, kheap, heap_end, target>>

SwitchPageDir ==
  /\ pc = "switch"
  /\ paging' = TRUE
  /\ pc' = "create_heap"
  /\ UNCHANGED <<frames, entry, tables, tables_physical, placement_addr,
                 kheap, heap_end, i, target>>

\* create_heap: the Heap structure is the last placement allocation.
CreateHeap ==
  /\ pc = "create_heap"
  /\ PlacementAlloc(HeapStructSize, FALSE, placement_addr)
  /\ kheap' = TRUE
  /\ heap_end' = HeapPage + HeapInitPages
  /\ pc' = "run"
  /\ UNCHANGED <<frames, entry, tables, tables_physical, paging, i, target>>

-----------------------------------------------------------------------------
(***************************************************************************)
(* expand and contract (heap.c), called by the allocator while it runs.    *)
(***************************************************************************)

\* Fault: max_addr is not checked.
CallExpandUnchecked(n) ==
  /\ pc = "run"
  /\ n > heap_end
  /\ pc' = "expand"
  /\ i' = heap_end
  /\ target' = n
  /\ UNCHANGED <<frames, entry, tables, tables_physical, placement_addr,
                 paging, kheap, heap_end>>

\* expand: the new size is rounded up to page n; ASSERT it is below max_addr.
CallExpand(n) ==
  /\ pc = "run"
  /\ n > heap_end
  /\ IF n <= HeapLimit
     THEN /\ pc' = "expand"
          /\ i' = heap_end
          /\ target' = n
     ELSE /\ pc' = "halt"
          /\ UNCHANGED <<i, target>>
  /\ UNCHANGED <<frames, entry, tables, tables_physical, placement_addr,
                 paging, kheap, heap_end>>

\* One iteration of expand.  alloc_frame's second and third parameters are
\* called kernel and writeable; expand gives it heap->supervisor and
\* heap->readonly, both false for the kernel heap.
ExpandStep ==
  /\ pc = "expand"
  /\ IF i < target
     THEN \E f \in Frames, q \in HeapBase .. heap_end - 1 :
            /\ FirstFrame(f)
            /\ GetPageFromHeap(i, q)
            /\ AllocFrame(i, f, FALSE, FALSE)
            /\ i' = i + 1
            /\ pc' = IF f = NO_FRAME THEN "halt" ELSE pc
            /\ UNCHANGED heap_end
     ELSE /\ heap_end' = target
          /\ pc' = "run"
          /\ UNCHANGED <<frames, entry, tables, tables_physical, i>>
  /\ UNCHANGED <<placement_addr, paging, kheap, target>>

\* expand is on the stack of alloc when get_page asks alloc for a page table.
\* If no hole takes one, alloc calls expand again for the same page, whose table
\* is still missing, and so on.
ExpandRecurses ==
  /\ pc = "expand"
  /\ i < target
  /\ tables[TableOf(i)] = 0
  /\ pc' = "recurse"
  /\ UNCHANGED <<frames, entry, tables, tables_physical, placement_addr,
                 paging, kheap, heap_end, i, target>>

\* Every further call of expand, get_page, kmalloc_ap and alloc leads to the next
\* with nothing changed but the stack; none of them returns.
Recursing ==
  /\ pc = "recurse"
  /\ UNCHANGED vars

\* contract: the new size is rounded up to page n and raised to HEAP_MIN_SIZE.
\* Page tables are never freed, so none lies in the pages given back.
CallContract(n) ==
  /\ pc = "run"
  /\ n \in HeapBase .. heap_end
  /\ \A t \in TableIndexes : tables[t] < n * PageSize
  /\ LET new == IF n < HeapBase + HeapMinPages
                THEN HeapBase + HeapMinPages ELSE n
     IN  target' = new
  /\ i' = heap_end - 1
  /\ pc' = "contract"
  /\ UNCHANGED <<frames, entry, tables, tables_physical, placement_addr,
                 paging, kheap, heap_end>>

\* Fault: a page that has no frame is skipped without moving on.
ContractStepStuck ==
  /\ pc = "contract"
  /\ IF i > target
     THEN /\ FreeFrame(i)
          /\ i' = IF entry[i].frame = 0 THEN i ELSE i - 1
          /\ UNCHANGED <<pc, heap_end>>
     ELSE /\ heap_end' = target
          /\ pc' = "run"
          /\ UNCHANGED <<frames, entry, i>>
  /\ UNCHANGED <<tables, tables_physical, placement_addr, paging, kheap,
                 target>>

\* One iteration of contract; the loop stops at i > new_size, so the page at
\* the new end keeps its frame.
ContractStep ==
  /\ pc = "contract"
  /\ IF i > target
     THEN /\ FreeFrame(i)
          /\ i' = i - 1
          /\ UNCHANGED <<pc, heap_end>>
     ELSE /\ heap_end' = target
          /\ pc' = "run"
          /\ UNCHANGED <<frames, entry, i>>
  /\ UNCHANGED <<tables, tables_physical, placement_addr, paging, kheap,
                 target>>

\* A failed ASSERT and a PANIC spin for ever.
Halted ==
  /\ pc = "halt"
  /\ UNCHANGED vars

BootStep ==
  \/ InitBitmap
  \/ InitDir
  \/ MapHeapTables
  \/ MapIdentity
  \/ MapHeapFrames
  \/ SwitchPageDir
  \/ CreateHeap

Next ==
  \/ BootStep
  \/ \E n \in HeapBase .. HeapLimit + 1 : CallExpand(n) \/ CallContract(n)
  \/ ExpandStep
  \/ ExpandRecurses
  \/ Recursing
  \/ ContractStep
  \/ Halted

\* One CPU runs boot and the loops to their end; whether the heap is asked to
\* grow or shrink again is up to its users.
Fairness == WF_vars(BootStep) /\ WF_vars(ExpandStep) /\ WF_vars(ContractStep)

Spec == Init /\ [][Next]_vars /\ Fairness

-----------------------------------------------------------------------------
(***************************************************************************)
(* Properties.                                                             *)
(***************************************************************************)

\* Every variable has its type: page entries hold frame numbers of physical
\* memory, and heap->end_addr never leaves the heap's address range.
TypeOK ==
  /\ frames \in [Frames -> BOOLEAN]
  /\ entry \in [Pages -> PageEntry]
  /\ tables \in [TableIndexes -> Nat]
  /\ tables_physical \in [TableIndexes -> Nat]
  /\ placement_addr \in Nat
  /\ paging \in BOOLEAN
  /\ kheap \in BOOLEAN
  /\ heap_end \in 0 .. HeapLimit
  /\ pc \in Locations
  /\ i \in Nat
  /\ target \in 0 .. HeapLimit

\* Once paging is on, every page the kernel, the initrd and the placement
\* allocator occupy is mapped to the frame of the same number (init_paging's
\* loop runs up to a placement_addr that get_page moves; create_heap allocates
\* once more behind it), and no later growing or shrinking of the heap undoes it.
KernelIdentityMapped ==
  paging =>
    \A p \in LowPages :
      (p * PageSize < placement_addr /\ p < ZeroedFrames)
        => entry[p].present /\ entry[p].frame = p

\* The page table the CPU walks (tables_physical) is the one the kernel edits
\* (tables), also for the tables get_page takes from the heap, behind all that the
\* placement allocator gave out: its virtual address translates to the physical one.
TablesTranslate ==
  paging =>
    \A t \in TableIndexes :
      (tables[t] \in 1 .. ZeroedFrames * PageSize - 1
         \/ tables[t] >= placement_addr)
        => tables_physical[t] = entry[tables[t] \div PageSize].frame * PageSize

\* The frames alloc_frame can hand out twice: the ones whose bits free_frame
\* clears by mistake, and the one first_frame returns when memory is exhausted.
Reusable == {ClearedBit(f) : f \in Frames} \cup {0, BitIndex(NumFrames)}

\* No two mapped pages share a frame, through any sequence of alloc_frame and
\* free_frame calls by init_paging, expand and contract, except one of the few
\* low frames above.
ExclusiveFrames ==
  \A p, q \in Pages :
    (p # q /\ entry[p].present /\ entry[q].present
       /\ entry[p].frame = entry[q].frame)
      => entry[p].frame \in Reusable

\* The loops of init_paging end, although the body of the second one moves the
\* bound it runs up to: the heap is there in the end.
BootCompletes == <>kheap

\* A call of contract returns, and so does a call of expand once the page tables
\* of the pages that are left to map exist, whatever earlier calls did to frames
\* and entries.  With a table missing it may be that expand never returns: see
\* ExpandRecurses.
ResizeReturns ==
  (\/ pc = "contract"
   \/ pc = "expand" /\ \A p \in i .. target - 1 : tables[TableOf(p)] # 0)
    ~> pc = "run"

\* What "Free an allocated frame" (page.c) says: the frame of the page is free
\* after free_frame.
FreedFrameIsFree ==
  [][pc = "contract" /\ i > target /\ entry[i].frame # 0
       => ~ frames'[entry[i].frame]]_vars

=============================================================================
