-------------------------------- MODULE Heap --------------------------------
(***************************************************************************)
(* The kernel heap: alloc, make_space, unify_left, unify_right and free of *)
(* src/mem/alloc.c, the helpers of src/mem/heap.c they use, and the hole   *)
(* index, an ordered array of src/misc/ordered_array.c.                    *)
(*                                                                         *)
(* Memory is an array of words: a header takes three of them and a footer  *)
(* two, as in heap.h.  Block metadata lives in that memory, next to the    *)
(* callers' data, so that the code reads and writes what really lies at    *)
(* the addresses it computes.  Machine arithmetic is modulo W.             *)
(*                                                                         *)
(* expand is one step here and the pages it maps have their page tables;   *)
(* Paging models its loop, and what happens when get_page has to ask this  *)
(* very heap for a table.                                                  *)
(***************************************************************************)
EXTENDS Integers, Sequences, FiniteSets, Functions

CONSTANTS
  W,           \* number of values of a word
  PageWords,   \* PAGE_SIZE
  StartAddr,   \* heap->start_addr
  InitPages,   \* pages between start_addr and end_addr at first
  MinPages,    \* HEAP_MIN_SIZE
  MaxPages,    \* pages up to heap->max_addr
  LowWords,    \* words of low memory, from address 0, that are modelled
  HEAP_MAGIC,
  NullSizes,   \* what the word at NULL->size, in low memory, may hold
  Sizes,       \* sizes callers ask for
  Alignments,  \* values of kmalloc's align flag that callers use
  Values,      \* words callers write
  IndexBound,  \* bound of the run: calls stop before the index is this long
  WithinLimits, \* callers stay within HoleSuits, GrowthSuits, FreeSuits
  FreeRule     \* when callers free a block, see MayFree

HEADER == 3    \* words of a Header
FOOTER == 2    \* words of a Footer

NULL == 0

Word == 0 .. W - 1

EndInit   == StartAddr + InitPages * PageWords
MaxAddr   == StartAddr + MaxPages * PageWords
MinLength == MinPages * PageWords

\* Low memory, the end of the hole index in front of the heap, and the heap.
Memory == (0 .. LowWords - 1) \cup (StartAddr - HEADER .. MaxAddr + HEADER - 1)

ASSUME HeapAssumption ==
  /\ W \in Nat
  /\ PageWords \in Nat \ {0} /\ PageWords > HEADER + FOOTER
  /\ StartAddr \in Nat /\ StartAddr % PageWords = 0
  /\ InitPages \in Nat \ {0} /\ MinPages \in 1 .. InitPages
  /\ MaxPages \in Nat /\ MaxPages >= InitPages
  /\ LowWords \in HEADER .. StartAddr - HEADER
  /\ MaxAddr + HEADER < W
  /\ HEAP_MAGIC \in Word \ Memory
  /\ NullSizes \subseteq Word /\ Values \subseteq Word
  /\ Sizes \subseteq Nat \ {0}
  /\ Alignments \subseteq BOOLEAN
  /\ WithinLimits \in BOOLEAN
  /\ FreeRule \in {"any", "written", "clean"}

VARIABLES
  mem,       \* the memory
  index,     \* heap->index: block headers, in order of size
  end_addr,  \* heap->end_addr
  top,       \* end of the pages that have ever been mapped
  live,      \* the blocks callers hold: [ptr, size, written]
  request,   \* the call of alloc in progress: [size, align], size 0 if none
  status     \* "run", or how the kernel stopped: "assert", "fault"

vars == <<mem, index, end_addr, top, live, request, status>>

NoRequest == [size |-> 0, align |-> FALSE]

-----------------------------------------------------------------------------
(***************************************************************************)
(* Machine and memory.                                                     *)
(***************************************************************************)

Minus(a, b) == (a - b) % W
Plus(a, b)  == (a + b) % W

Aligned(a) == a % PageWords = 0
AlignUp(a) == IF Aligned(a) THEN a ELSE a - (a % PageWords) + PageWords

\* A page that contract gave back stays present, so it does not fault.
Mapped(a) == a \in 0 .. LowWords - 1 \/ a \in StartAddr - HEADER .. top - 1

\* The fields of a Header at h and of a Footer at f.
Magic(m, h)    == m[h]
IsHole(m, h)   == m[h + 1] # 0
SizeOf(m, h)   == m[h + 2]
HeaderOf(m, f) == m[f + 1]

MakeHeader(m, loc, size, is_hole) ==
  [m EXCEPT ![loc] = HEAP_MAGIC, ![loc + 1] = IF is_hole THEN 1 ELSE 0,
            ![loc + 2] = size % W]

MakeFooter(m, loc, header) ==
  [m EXCEPT ![loc] = HEAP_MAGIC, ![loc + 1] = header]

AssocFooter(m, h) == h + SizeOf(m, h) - FOOTER

\* header->size = size.
Resize(m, h, size) == [m EXCEPT ![h + 2] = size]

-----------------------------------------------------------------------------
(***************************************************************************)
(* The ordered array.  Behind its size it holds zeros.                     *)
(***************************************************************************)

\* The least of a set of positions: the one a loop from the front comes to.
First(S) == CHOOSE j \in S : \A k \in S : j <= k

\* Fault: the shift starts one entry late, which is then there twice.
ArrayInsertShifted(m, s, item) ==
  IF s = <<>> THEN <<item>> ELSE <<item, s[1]>> \o s

\* ordered_array_insert, with header_comparer: before the first header that is
\* not smaller, or at the end.
InsertPosition(m, s, item) ==
  LET at == {j \in 1 .. Len(s) : SizeOf(m, s[j]) >= SizeOf(m, item)}
  IN  First(at \cup {Len(s) + 1})

ArrayInsert(m, s, item) ==
  LET j == InsertPosition(m, s, item)
  IN  [k \in 1 .. Len(s) + 1 |->
         IF k < j THEN s[k] ELSE IF k = j THEN item ELSE s[k - 1]]

\* Fault: nothing moves up.
ArrayRemoveKeeps(s, i) == s \o <<NULL>>

\* ordered_array_remove: the entries behind i move up, and size grows by one.
ArrayRemove(s, i) ==
  [k \in 1 .. Len(s) + 1 |->
     IF k < i THEN s[k] ELSE IF k < Len(s) THEN s[k + 1] ELSE NULL]

\* find_header_index: 0 if it is not there.
FindHeaderIndex(s, header) ==
  LET at == {j \in 1 .. Len(s) : s[j] = header}
  IN  IF at = {} THEN 0 ELSE First(at)

-----------------------------------------------------------------------------
(***************************************************************************)
(* alloc.                                                                  *)
(***************************************************************************)

\* Fault: the header itself is aligned, not the block behind it.
AlignedHeaderPos(h) == h + PageWords - (h % PageWords)

\* Where the header of an aligned block goes, in the hole at h.
AlignedPos(h) == h + PageWords - (h % PageWords) - HEADER

\* Words from a hole's header up to the place where a page-aligned block's
\* header goes.
AlignOffset(h) ==
  IF Aligned(h + HEADER) THEN 0 ELSE PageWords - ((h + HEADER) % PageWords)

\* The test of find_smallest_hole.
Fits(h, total, align) ==
  IF align THEN Minus(SizeOf(mem, h), AlignOffset(h)) >= total
  ELSE SizeOf(mem, h) >= total

Fitting(total, align) == {j \in 1 .. Len(index) : Fits(index[j], total, align)}

\* find_smallest_hole: the first in the index that fits.
SmallestHole(total, align) == First(Fitting(total, align))

TotalSize(size) == size + HEADER + FOOTER

Running == status = "run"

\* Bound of the run: there is room in the index for one more call.
IndexHasRoom == Len(index) + 3 <= IndexBound

\* The gap in front of an aligned block is large enough for a hole of its own, and
\* the header of the hole it is cut from does not cross a page.
GapSuits(h, gap) ==
  gap >= HEADER + FOOTER /\ (h % PageWords) + HEADER <= PageWords

\* What the code needs to hold for a call to go well: the hole it picks is one
\* of the heap's and, if the block needs a gap in front of it, the gap suits and
\* what is left behind the block is large enough for a hole.
HoleSuits(size, align) ==
  LET h    == index[SmallestHole(TotalSize(size), align)]
      gap  == IF align THEN AlignOffset(h) ELSE 0
      rest == SizeOf(mem, h) - gap - TotalSize(size)
  IN  /\ h # NULL
      /\ gap # 0 => GapSuits(h, gap) /\ rest >= HEADER + FOOTER

\* The loop of make_space that looks for the last header: header_index goes up
\* by one whenever an entry is above all before it.
LastHeaderIndex(s) ==
  Cardinality({j \in 1 .. Len(s) :
                 s[j] # NULL /\ \A k \in 1 .. j - 1 : s[k] < s[j]})

\* Fault: make_space forgets the header and the footer.
ExpandedLengthBare(size) == AlignUp(end_addr - StartAddr + size)

\* expand rounds the new length of the heap up to pages.
ExpandedLength(size) == AlignUp(end_addr - StartAddr + TotalSize(size))

\* What an aligned block leaves behind it of the last hole, once that has grown.
GrownRest(h, size) ==
  (StartAddr + ExpandedLength(size)) - h - AlignOffset(h) - TotalSize(size)

\* What the code needs to hold when no hole fits: the heap may grow that far, the
\* header make_space takes for the last one is the last of the heap, and an aligned
\* block does not leave a rest too small for a hole.  If no hole is left, the new
\* one begins a page: the gap in front of an aligned block uses up what the heap
\* grew by, and a second make_space takes the NULL at the front of the index for a
\* header.
GrowthSuits(size, align) ==
  LET j   == LastHeaderIndex(index)
      h   == index[j]
      gap == AlignOffset(h)
  IN  /\ StartAddr + ExpandedLength(size) <= MaxAddr
      /\ align => j # 0
      /\ j # 0 => /\ h # NULL
                  /\ h + SizeOf(mem, h) = end_addr
                  /\ (align /\ gap # 0) =>
                       /\ GapSuits(h, gap)
                       /\ GrownRest(h, size) \notin 0 .. HEADER + FOOTER - 1

\* A caller calls kmalloc.
Kmalloc(size, align) ==
  /\ Running /\ request = NoRequest /\ IndexHasRoom
  /\ WithinLimits =>
       IF Fitting(TotalSize(size), align) = {}
       THEN GrowthSuits(size, align)
       ELSE HoleSuits(size, align)
  /\ request' = [size |-> size, align |-> align]
  /\ UNCHANGED <<mem, index, end_addr, top, live, status>>

\* alloc from "Uh oh" on did not apply: a hole fits.
AllocFromHole ==
  /\ Running /\ request # NoRequest
  /\ Fitting(TotalSize(request.size), request.align) # {}
  /\ LET i    == SmallestHole(TotalSize(request.size), request.align)
         hole == index[i]
         size == SizeOf(mem, hole)
         want == TotalSize(request.size)
         \* "Don't split the hole if the other half wouldn't be big enough"
         total == IF Minus(size, want) < HEADER + FOOTER THEN size ELSE want
         gap  == request.align /\ ~ Aligned(hole + HEADER)
         \* "create a new hole in the gap"
         pos  == IF gap THEN AlignedPos(hole) ELSE hole
         m1   == IF gap
                 THEN MakeFooter(MakeHeader(mem, hole, Minus(pos, hole), TRUE),
                                 pos - FOOTER, hole)
                 ELSE mem
         left == IF gap THEN Minus(size, SizeOf(m1, hole)) ELSE size
         s1   == IF gap THEN index ELSE ArrayRemove(index, i)
         \* the block
         last == pos + total - FOOTER
         m2   == MakeFooter(MakeHeader(m1, pos, total, FALSE), last, pos)
         \* "If necessary, split the block in two"
         split == left > total
         next == pos + total
         foot == Plus(next, left - total) - FOOTER
         m3   == IF split THEN MakeHeader(m2, next, left - total, TRUE) ELSE m2
         m4   == IF split /\ foot + FOOTER < end_addr
                 THEN MakeFooter(m3, foot, next) ELSE m3
         touched == {pos, pos + HEADER - 1, last, last + 1}
                      \cup (IF split THEN {next, next + HEADER - 1} ELSE {})
     IN  IF \A a \in touched : Mapped(a)
         THEN /\ mem' = m4
              /\ index' = IF split THEN ArrayInsert(m4, s1, next) ELSE s1
              /\ live' = live \cup {[ptr |-> pos + HEADER,
                                     size |-> request.size, written |-> FALSE]}
              /\ request' = NoRequest
              /\ UNCHANGED status
         ELSE /\ status' = "fault"
              /\ UNCHANGED <<mem, index, live, request>>
  /\ UNCHANGED <<end_addr, top>>

\* make_space, with expand; alloc tries again after it.
MakeSpace ==
  /\ Running /\ request # NoRequest
  /\ Fitting(TotalSize(request.size), request.align) = {}
  /\ LET length == ExpandedLength(request.size)
         grown  == StartAddr + length - end_addr
         j      == LastHeaderIndex(index)
         header == IF j = 0 THEN end_addr ELSE index[j]
         m1     == IF j = 0 THEN MakeHeader(mem, end_addr, grown, TRUE)
                   ELSE Resize(mem, header, Plus(SizeOf(mem, header), grown))
         m2     == MakeFooter(m1, AssocFooter(m1, header), header)
     IN  IF StartAddr + length > MaxAddr
         THEN status' = "assert" /\ UNCHANGED <<mem, index, end_addr, top>>
         ELSE /\ end_addr' = StartAddr + length
              /\ top' = IF end_addr' > top THEN end_addr' ELSE top
              /\ mem' = m2
              /\ index' = IF j = 0 THEN ArrayInsert(m2, index, header) ELSE index
              /\ UNCHANGED status
  /\ UNCHANGED <<live, request>>

-----------------------------------------------------------------------------
(***************************************************************************)
(* free.                                                                   *)
(***************************************************************************)

\* unify_left looks sizeof(Header) in front of the block for a Footer.
PotentialFooter(h) == h - HEADER

\* unify_left: the header of the hole the block becomes part of.
LeftHeader(m, h) ==
  LET f == PotentialFooter(h)
  IN  IF Magic(m, f) = HEAP_MAGIC /\ IsHole(m, HeaderOf(m, f))
      THEN HeaderOf(m, f) ELSE h

\* Fault: is_hole is not looked at.
RightIsBlock(m, f) == Magic(m, f + FOOTER) = HEAP_MAGIC

\* unify_right: is there a hole behind the footer?
RightIsHole(m, f) ==
  Magic(m, f + FOOTER) = HEAP_MAGIC /\ IsHole(m, f + FOOTER)

\* How free ends: the ASSERTs and the reads of unmapped memory, in the order
\* of the code.
FreeOutcome(header) ==
  LET footer == AssocFooter(mem, header)
      left   == PotentialFooter(header)
  IN  CASE ~ (Mapped(footer) /\ Mapped(footer + 1)) -> "fault"
        [] HeaderOf(mem, footer) # header
           \/ Magic(mem, header) # HEAP_MAGIC
           \/ Magic(mem, footer) # HEAP_MAGIC -> "assert"
        [] ~ Mapped(left) -> "fault"
        [] Magic(mem, left) = HEAP_MAGIC
           /\ ~ Mapped(HeaderOf(mem, left) + 1) -> "fault"
        [] ~ Mapped(footer + FOOTER) -> "fault"
        [] RightIsHole(mem, footer)
           /\ FindHeaderIndex(index, footer + FOOTER) = 0 -> "assert"
        [] OTHER -> "run"

\* contract: the new length of the heap.
ContractedLength(length) ==
  IF AlignUp(length) < MinLength THEN MinLength ELSE AlignUp(length)

\* What free does when it runs to its end.
FreeBlock(orig) ==
  LET foot0  == AssocFooter(mem, orig)
      m0     == [mem EXCEPT ![orig + 1] = 1]
      \* unify_left
      header == LeftHeader(m0, orig)
      m1     == IF header = orig THEN m0
                ELSE Resize([m0 EXCEPT ![foot0 + 1] = header], header,
                            Plus(SizeOf(m0, header), SizeOf(m0, orig)))
      \* unify_right
      right  == foot0 + FOOTER
      merge  == RightIsHole(m1, foot0)
      m2     == IF merge
                THEN Resize(m1, header, Plus(SizeOf(m1, header), SizeOf(m1, right)))
                ELSE m1
      footer == IF merge THEN AssocFooter(m1, right) ELSE foot0
      s1     == IF merge THEN ArrayRemove(index, FindHeaderIndex(index, right))
                ELSE index
      \* "We can contract the heap if this hole is at the end"
      atEnd  == footer + FOOTER = end_addr
      length == ContractedLength(header - StartAddr)
      cut    == end_addr - StartAddr - length
      stays  == SizeOf(m2, header) > cut
      m3     == IF atEnd /\ stays
                THEN Resize(m2, header, SizeOf(m2, header) - cut) ELSE m2
      m4     == IF atEnd /\ stays
                THEN MakeFooter(m3, AssocFooter(m3, header), header) ELSE m3
      dead   == FindHeaderIndex(s1, header)
      s2     == IF atEnd /\ ~ stays /\ dead # 0 THEN ArrayRemove(s1, dead) ELSE s1
  IN  /\ mem' = m4
      /\ end_addr' = IF atEnd THEN StartAddr + length ELSE end_addr
      /\ index' = IF header = orig THEN ArrayInsert(m4, s2, header) ELSE s2

\* What the code needs to hold for free to go well: if the block is the last of
\* the heap, the page behind it has been mapped before and holds no header that
\* contract left there, and if the heap is contracted, what stays of the hole has
\* room for its header and footer.
FreeSuits(orig) ==
  LET right == orig + SizeOf(mem, orig)
      end   == IF Mapped(right) /\ RightIsHole(mem, right - FOOTER)
               THEN right + SizeOf(mem, right) ELSE right
  IN  /\ Mapped(right)
      /\ right = end_addr => ~ RightIsHole(mem, right - FOOTER)
      /\ end = end_addr =>
           StartAddr + ContractedLength(orig - StartAddr)
             >= orig + HEADER + FOOTER

\* Callers free whenever they like, or only when every block in use has been
\* written, or only when unify_left does not find the magic number in front of
\* the block.
MayFree(b) ==
  /\ WithinLimits => FreeSuits(b.ptr - HEADER)
  /\ \/ FreeRule = "any"
     \/ FreeRule = "written" /\ \A c \in live : c.written
     \/ FreeRule = "clean"
        /\ Magic(mem, PotentialFooter(b.ptr - HEADER)) # HEAP_MAGIC

Kfree(b) ==
  /\ Running /\ request = NoRequest /\ IndexHasRoom
  /\ MayFree(b)
  /\ status' = FreeOutcome(b.ptr - HEADER)
  /\ IF status' = "run" THEN FreeBlock(b.ptr - HEADER)
     ELSE UNCHANGED <<mem, index, end_addr>>
  /\ live' = live \ {b}
  /\ UNCHANGED <<top, request>>

\* A caller writes its block.
WriteBlock(b, v) ==
  /\ Running /\ request = NoRequest
  /\ mem' = [a \in DOMAIN mem |->
               IF a \in b.ptr .. b.ptr + b.size - 1 THEN v ELSE mem[a]]
  /\ live' = (live \ {b}) \cup {[b EXCEPT !.written = TRUE]}
  /\ UNCHANGED <<index, end_addr, top, request, status>>

-----------------------------------------------------------------------------
\* create_heap: one hole; its footer is not written.  The rest of memory is
\* zero, but for the word at NULL->size.
Init ==
  /\ \E n \in NullSizes :
       mem = MakeHeader([a \in Memory |-> IF a = NULL + 2 THEN n ELSE 0],
                        StartAddr, EndInit - StartAddr, TRUE)
  /\ index = <<StartAddr>>
  /\ end_addr = EndInit
  /\ top = EndInit
  /\ live = {}
  /\ request = NoRequest
  /\ status = "run"

\* The kernel has stopped, or nobody calls the heap.
Rest ==
  /\ ~ Running \/ request = NoRequest
  /\ UNCHANGED vars

Next ==
  \/ \E size \in Sizes, align \in Alignments : Kmalloc(size, align)
  \/ AllocFromHole
  \/ MakeSpace
  \/ \E b \in live : Kfree(b)
  \/ \E b \in live, v \in Values : WriteBlock(b, v)
  \/ Rest

Spec == Init /\ [][Next]_vars

-----------------------------------------------------------------------------
(***************************************************************************)
(* Properties.                                                             *)
(***************************************************************************)

Holes == Range(index) \ {NULL}

Taken == {b.ptr - HEADER : b \in live}

\* The holes of the index and the blocks in use tile the heap from start_addr to
\* end_addr without gap or overlap, whatever alloc split and free merged and cut
\* off: each begins with its header, and the next one begins where it ends.  No
\* hole is in the index twice: alloc could give it out twice.  The heap stays
\* between its least and its greatest size.
HeapTiled ==
  LET heads == Holes \cup Taken
  IN  /\ end_addr \in StartAddr + MinLength .. MaxAddr
      /\ StartAddr \in heads
      /\ Holes \cap Taken = {}
      /\ \A h \in heads :
           /\ Magic(mem, h) = HEAP_MAGIC
           /\ IsHole(mem, h) <=> h \in Holes
           /\ SizeOf(mem, h) >= HEADER + FOOTER
           /\ h + SizeOf(mem, h) \in heads \cup {end_addr}
           /\ ~ \E g \in heads : g \in h + 1 .. h + SizeOf(mem, h) - 1
      /\ \A j, k \in 1 .. Len(index) :
           (index[j] = index[k] /\ index[j] # NULL) => j = k

\* No ASSERT of alloc.c and heap.c fails and no unmapped word is touched.
NeverStops == status = "run"

Abs == INSTANCE Allocator WITH
         Address <- StartAddr .. MaxAddr - 1,
         blocks  <- {[ptr |-> b.ptr, size |-> b.size] : b \in live},
         data    <- mem,
         request <- request.size

\* The heap does what kmalloc and kfree promise: blocks in use are disjoint, and
\* no header, footer or split hole is ever written into a block in use.
RefinesAllocator == Abs!Spec

\* When make_space has run, alloc finds a hole ("Now we have enough space. Try
\* again."), so its recursion ends: the hole at the end of the heap, old or new, has
\* grown by what was missing, rounded up to pages, and the index leads to it.
GrowthSuffices ==
  [][request # NoRequest /\ end_addr' > end_addr
       => (Fitting(TotalSize(request.size), request.align) # {})']_vars

\* A block asked for with align begins a page: get_page gives it to the CPU as a
\* page table.
AlignedAsAsked ==
  [][\A b \in live' : (request.align /\ b \notin live) => Aligned(b.ptr)]_vars

\* What main.c says, "a & b should have been merged": no two holes lie side by
\* side once kfree has returned.
HolesMerged ==
  \A h \in Holes : h + SizeOf(mem, h) \notin Holes

=============================================================================
