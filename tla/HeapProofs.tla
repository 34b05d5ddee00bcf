----------------------------- MODULE HeapProofs -----------------------------
(***************************************************************************)
(* The heap stays tiled by its holes and blocks, never stops, and is an    *)
(* implementation of Allocator, for every size of word, page and heap and  *)
(* every sequence of calls within the limits that Heap states.             *)
(***************************************************************************)
EXTENDS Heap, WellFoundedInduction, FiniteSetTheorems, TLAPS

\* Callers stay within the limits, and free as the run of the heap does.
Careful == WithinLimits /\ FreeRule = "clean"

LEMMA ConstantTypes ==
  /\ W \in Nat /\ PageWords \in Nat /\ PageWords >= 6
  /\ StartAddr \in Nat /\ StartAddr >= 6 /\ MaxAddr \in Nat /\ MaxAddr + 3 < W
  /\ LowWords \in Nat /\ LowWords >= 3 /\ LowWords <= StartAddr - 3
  /\ MinLength \in Nat /\ MinLength > 0
  /\ EndInit \in Nat /\ StartAddr + MinLength <= EndInit /\ EndInit <= MaxAddr
  /\ HEAP_MAGIC \in Int
<1> USE HeapAssumption DEF HEADER, FOOTER
<1>1. /\ W \in Nat /\ PageWords \in Nat /\ PageWords >= 6 /\ HEAP_MAGIC \in Int
      /\ LowWords \in Nat /\ LowWords >= 3 /\ StartAddr \in Nat
      /\ LowWords <= StartAddr - 3
  BY DEF Word
<1>2. /\ MinPages \in Nat /\ InitPages \in Nat /\ MaxPages \in Nat
      /\ MinPages > 0 /\ MinPages <= InitPages /\ InitPages <= MaxPages
  OBVIOUS
<1>3. MaxAddr + 3 < W
  OBVIOUS
<1>4. ASSUME NEW m \in Nat, NEW n \in Nat, m <= n
      PROVE  m * PageWords <= n * PageWords /\ m * PageWords \in Nat
  BY <1>1, <1>4
<1>5. MinPages * PageWords <= InitPages * PageWords /\ MinPages * PageWords \in Nat
  BY <1>2, <1>4
<1>6. InitPages * PageWords <= MaxPages * PageWords /\ InitPages * PageWords \in Nat
  BY <1>2, <1>4
<1>7. MaxPages * PageWords \in Nat
  BY <1>1, <1>2
<1>8. MinPages * PageWords > 0
  BY <1>1, <1>2
<1> QED
  BY <1>1, <1>3, <1>5, <1>6, <1>7, <1>8 DEF MinLength, EndInit, MaxAddr

-----------------------------------------------------------------------------
(***************************************************************************)
(* Pages.                                                                  *)
(***************************************************************************)

LEMMA PageFacts ==
  PageWords \in Nat /\ PageWords >= 6
  BY ConstantTypes

LEMMA ModUnique ==
  ASSUME NEW q \in Int, NEW r \in 0 .. PageWords - 1
  PROVE  (PageWords * q + r) % PageWords = r
  BY PageFacts

LEMMA ModFacts ==
  ASSUME NEW a \in Int
  PROVE  /\ a % PageWords \in 0 .. PageWords - 1
         /\ \E q \in Int : a = PageWords * q + (a % PageWords)
<1>1. a % PageWords \in 0 .. PageWords - 1
  BY PageFacts
<1>2. a \div PageWords \in Int
  BY PageFacts
<1>3. a = PageWords * (a \div PageWords) + (a % PageWords)
  BY PageFacts
<1> QED
  BY <1>1, <1>2, <1>3

\* Rounding up to pages.
LEMMA AlignUpFacts ==
  ASSUME NEW a \in Int
  PROVE  /\ AlignUp(a) \in Int /\ a <= AlignUp(a) /\ AlignUp(a) % PageWords = 0
         /\ \A b \in Int : a <= b /\ b % PageWords = 0 => AlignUp(a) <= b
<1> DEFINE r == a % PageWords
<1>1. PICK q \in Int : a = PageWords * q + r
  BY ModFacts
<1>2. r \in 0 .. PageWords - 1
  BY ModFacts
<1>3. AlignUp(a) = IF r = 0 THEN a ELSE a - r + PageWords
  BY DEF AlignUp, Aligned
<1> HIDE DEF r
<1>4. CASE r = 0
  <2>1. AlignUp(a) = a
    BY <1>3, <1>4
  <2>2. a % PageWords = 0
    BY <1>4 DEF r
  <2> QED
    BY <2>1, <2>2
<1>5. CASE r # 0
  <2>1. AlignUp(a) = PageWords * (q + 1) + 0
    BY <1>1, <1>2, <1>3, <1>5, PageFacts
  <2>2. q + 1 \in Int /\ 0 \in 0 .. PageWords - 1
    BY PageFacts
  <2>3. AlignUp(a) % PageWords = 0
    BY <2>1, <2>2, ModUnique
  <2>4. AlignUp(a) \in Int /\ a <= AlignUp(a)
    BY <1>2, <1>3, <1>5, PageFacts
  <2>5. ASSUME NEW b \in Int, a <= b, b % PageWords = 0 PROVE AlignUp(a) <= b
    <3>1. PICK p \in Int : b = PageWords * p + (b % PageWords)
      BY ModFacts
    <3>2. b = PageWords * p
      BY <2>5, <3>1, PageFacts
    <3>3. PageWords * (p - q) > 0
      BY <1>1, <1>2, <1>5, <2>5, <3>2, PageFacts
    <3>4. p - q > 0
      BY <3>3, PageFacts
    <3>5. PageWords * (p - (q + 1)) >= 0
      BY <3>4, PageFacts
    <3> QED
      BY <2>1, <3>2, <3>5, PageFacts
  <2> QED
    BY <2>3, <2>4, <2>5
<1> QED
  BY <1>4, <1>5

\* The block behind a gap begins a page; the gap is as long as find_smallest_hole
\* takes it to be if the header in front of it does not cross a page.
LEMMA AlignedPosFacts ==
  ASSUME NEW h \in Int
  PROVE  /\ AlignedPos(h) \in Int /\ AlignOffset(h) \in Int
         /\ Aligned(AlignedPos(h) + 3)
         /\ (h % PageWords) + 3 <= PageWords /\ ~ Aligned(h + 3)
              => AlignedPos(h) = h + AlignOffset(h)
<1> DEFINE r == h % PageWords
           o == (h + 3) % PageWords
<1>1. PICK q \in Int : h = PageWords * q + r
  BY ModFacts
<1>2. r \in 0 .. PageWords - 1
  BY ModFacts
<1>3. o \in 0 .. PageWords - 1
  BY PageFacts
<1>4. AlignedPos(h) = h + PageWords - r - 3
  BY DEF AlignedPos, HEADER
<1>5. AlignOffset(h) = (IF o = 0 THEN 0 ELSE PageWords - o) /\ (Aligned(h + 3) <=> o = 0)
  BY DEF AlignOffset, HEADER, Aligned
<1> HIDE DEF r
<1>6. AlignedPos(h) + 3 = PageWords * (q + 1) + 0
  BY <1>1, <1>2, <1>4, PageFacts
<1>7. Aligned(AlignedPos(h) + 3)
  <2>1. q + 1 \in Int /\ 0 \in 0 .. PageWords - 1
    BY PageFacts
  <2>2. (PageWords * (q + 1) + 0) % PageWords = 0
    BY <2>1, ModUnique
  <2> QED
    BY <1>6, <2>2 DEF Aligned
<1>8. ASSUME r + 3 <= PageWords, o # 0 PROVE o = r + 3
  <2>1. CASE r + 3 = PageWords
    <3>1. h + 3 = PageWords * (q + 1) + 0
      BY <1>1, <1>2, <2>1, PageFacts
    <3>2. q + 1 \in Int /\ 0 \in 0 .. PageWords - 1
      BY PageFacts
    <3>3. (PageWords * (q + 1) + 0) % PageWords = 0
      BY <3>2, ModUnique
    <3> QED
      BY <1>8, <3>1, <3>3
  <2>2. CASE r + 3 < PageWords
    <3>1. h + 3 = PageWords * q + (r + 3)
      BY <1>1, <1>2, PageFacts
    <3>2. r + 3 \in 0 .. PageWords - 1
      BY <1>2, <2>2, PageFacts
    <3>3. (PageWords * q + (r + 3)) % PageWords = r + 3
      BY <3>2, ModUnique
    <3> QED
      BY <3>1, <3>3
  <2> QED
    BY <1>2, <1>8, <2>1, <2>2, PageFacts
<1> HIDE DEF o
<1>9. AlignedPos(h) \in Int /\ AlignOffset(h) \in Int
  BY <1>2, <1>3, <1>4, <1>5, PageFacts
<1>10. (r + 3 <= PageWords /\ o # 0) => AlignedPos(h) = h + AlignOffset(h)
  BY <1>2, <1>3, <1>4, <1>5, <1>8, PageFacts
<1> QED
  BY <1>5, <1>7, <1>9, <1>10 DEF r

-----------------------------------------------------------------------------
(***************************************************************************)
(* The index.                                                              *)
(***************************************************************************)

\* A set of positions has a least one.
LEMMA FirstIsLeast ==
  ASSUME NEW S \in SUBSET Nat, S # {}
  PROVE  First(S) \in S /\ \A k \in S : First(S) <= k
<1> DEFINE R == {p \in Nat \X Nat : p[1] < p[2]}
<1>1. IsWellFoundedOn(R, Nat)
  BY NatLessThanWellFounded DEF OpToRel
<1> HIDE DEF R
<1>2. PICK j \in S : \A k \in S : ~ (<<k, j>> \in R)
  BY <1>1, WFMin
<1>3. \A k \in S : ~ (k < j)
  BY <1>2 DEF R
<1>4. \A k \in S : j <= k
  BY <1>3
<1> QED
  BY <1>4 DEF First

\* No header is in the index twice.
Unique(s) ==
  \A j, k \in 1 .. Len(s) : (s[j] = s[k] /\ s[j] # NULL) => j = k

LEMMA InsertFacts ==
  ASSUME NEW m, NEW s \in Seq(Int), NEW item \in Int
  PROVE  LET r == ArrayInsert(m, s, item)
         IN  /\ r \in Seq(Int)
             /\ Range(r) = Range(s) \cup {item}
             /\ Unique(s) /\ item \notin Range(s) => Unique(r)
<1> DEFINE j == InsertPosition(m, s, item)
           r == ArrayInsert(m, s, item)
           n == Len(s)
<1>1. n \in Nat /\ DOMAIN s = 1 .. n /\ \A k \in 1 .. n : s[k] \in Int
  OBVIOUS
<1>2. j \in 1 .. n + 1
  <2> DEFINE at == {k \in 1 .. Len(s) : SizeOf(m, s[k]) >= SizeOf(m, item)}
                     \cup {Len(s) + 1}
  <2>1. at \in SUBSET Nat /\ at # {} /\ at \subseteq 1 .. n + 1
    BY <1>1
  <2>2. First(at) \in at
    BY <2>1, FirstIsLeast
  <2>3. j = First(at)
    BY DEF InsertPosition
  <2> QED
    BY <2>1, <2>2, <2>3
<1> HIDE DEF j
<1>3. r = [k \in 1 .. n + 1 |->
             IF k < j THEN s[k] ELSE IF k = j THEN item ELSE s[k - 1]]
  BY DEF ArrayInsert, j
<1> HIDE DEF r, n
<1>4. DOMAIN r = 1 .. n + 1 /\ \A k \in 1 .. n + 1 : r[k] \in Int
  BY <1>1, <1>2, <1>3
<1>5. r \in Seq(Int) /\ Len(r) = n + 1
  <2>1. r \in [1 .. n + 1 -> Int]
    BY <1>3, <1>4
  <2> QED
    BY <1>1, <2>1
<1>6. r[j] = item
  BY <1>2, <1>3
<1>7. \A k \in 1 .. n : IF k < j THEN r[k] = s[k] ELSE r[k + 1] = s[k]
  BY <1>1, <1>2, <1>3
<1>8. \A k \in 1 .. n + 1 : k # j => IF k < j THEN k \in 1 .. n /\ r[k] = s[k]
                                     ELSE k - 1 \in 1 .. n /\ r[k] = s[k - 1]
  BY <1>1, <1>2, <1>3
<1>9. Range(r) = Range(s) \cup {item}
  <2>1. ASSUME NEW v \in Range(r) PROVE v \in Range(s) \cup {item}
    BY <1>1, <1>4, <1>6, <1>8 DEF Range
  <2>2. ASSUME NEW v \in Range(s) PROVE v \in Range(r)
    <3>1. PICK k \in 1 .. n : v = s[k]
      BY <1>1 DEF Range
    <3>2. k \in 1 .. n + 1 /\ k + 1 \in 1 .. n + 1
      BY <1>1
    <3> QED
      BY <1>4, <1>7, <3>1, <3>2 DEF Range
  <2>3. item \in Range(r)
    BY <1>2, <1>4, <1>6 DEF Range
  <2> QED
    BY <2>1, <2>2, <2>3
<1>10. ASSUME Unique(s), item \notin Range(s) PROVE Unique(r)
  <2>1. \A k \in 1 .. n : s[k] # item
    BY <1>1, <1>10 DEF Range
  <2>2. \A k, l \in 1 .. n : (s[k] = s[l] /\ s[k] # NULL) => k = l
    BY <1>10 DEF Unique, n
  <2>3. SUFFICES ASSUME NEW k \in 1 .. n + 1, NEW l \in 1 .. n + 1,
                        r[k] = r[l], r[k] # NULL
                 PROVE  k = l
    BY <1>5 DEF Unique
  <2> QED
    BY <1>1, <1>2, <1>6, <1>8, <2>1, <2>2, <2>3, SMTT(30)
<1> QED
  BY <1>5, <1>9, <1>10 DEF r

LEMMA RemoveFacts ==
  ASSUME NEW s \in Seq(Int), NEW i \in 1 .. Len(s), Unique(s), s[i] # NULL
  PROVE  LET r == ArrayRemove(s, i)
         IN  /\ r \in Seq(Int)
             /\ Range(r) \ {NULL} = (Range(s) \ {NULL}) \ {s[i]}
             /\ Unique(r)
<1> DEFINE r == ArrayRemove(s, i)
           n == Len(s)
<1>1. n \in Nat /\ DOMAIN s = 1 .. n /\ \A k \in 1 .. n : s[k] \in Int
  OBVIOUS
<1>2. r = [k \in 1 .. n + 1 |->
             IF k < i THEN s[k] ELSE IF k < n THEN s[k + 1] ELSE NULL]
  BY DEF ArrayRemove
<1>3. i \in 1 .. n
  OBVIOUS
<1>4. \A k, l \in 1 .. n : (s[k] = s[l] /\ s[k] # NULL) => k = l
  BY DEF Unique
<1> HIDE DEF r, n
<1>5. DOMAIN r = 1 .. n + 1 /\ \A k \in 1 .. n + 1 : r[k] \in Int
  BY <1>1, <1>2, <1>3 DEF NULL
<1>6. r \in Seq(Int) /\ Len(r) = n + 1
  <2>1. r \in [1 .. n + 1 -> Int]
    BY <1>2, <1>5
  <2> QED
    BY <1>1, <2>1
<1>7. \A k \in 1 .. n + 1 :
        \/ r[k] = NULL
        \/ k < i /\ k \in 1 .. n /\ r[k] = s[k]
        \/ k >= i /\ k + 1 \in 1 .. n /\ r[k] = s[k + 1]
  BY <1>1, <1>2, <1>3
<1>8. \A k \in 1 .. n : k # i => IF k < i THEN r[k] = s[k] ELSE r[k - 1] = s[k]
  BY <1>1, <1>2, <1>3
<1>9. Range(r) \ {NULL} = (Range(s) \ {NULL}) \ {s[i]}
  <2>1. ASSUME NEW v \in Range(r), v # NULL PROVE v \in Range(s) /\ v # s[i]
    <3>1. PICK k \in 1 .. n + 1 : v = r[k]
      BY <1>5 DEF Range
    <3>2. PICK l \in 1 .. n : l # i /\ v = s[l]
      BY <1>1, <1>3, <1>7, <2>1, <3>1
    <3> QED
      BY <1>1, <1>3, <1>4, <2>1, <3>2 DEF Range
  <2>2. ASSUME NEW v \in Range(s), v # s[i] PROVE v \in Range(r)
    <3>1. PICK k \in 1 .. n : v = s[k]
      BY <1>1 DEF Range
    <3>2. k # i
      BY <2>2, <3>1
    <3>3. k \in 1 .. n + 1 /\ (k >= i => k - 1 \in 1 .. n + 1)
      BY <1>1, <1>3, <3>2
    <3>4. \E l \in 1 .. n + 1 : r[l] = v
      BY <1>1, <1>3, <1>8, <3>1, <3>2, <3>3, SMTT(30)
    <3> QED
      BY <1>5, <3>4 DEF Range
  <2> QED
    BY <2>1, <2>2
<1>10. Unique(r)
  <2>1. SUFFICES ASSUME NEW k \in 1 .. n + 1, NEW l \in 1 .. n + 1,
                        r[k] = r[l], r[k] # NULL
                 PROVE  k = l
    BY <1>6 DEF Unique
  <2> QED
    BY <1>1, <1>3, <1>4, <1>7, <2>1
<1> QED
  BY <1>6, <1>9, <1>10 DEF r

\* find_header_index finds what is there.
LEMMA FindFacts ==
  ASSUME NEW s \in Seq(Int), NEW h \in Range(s)
  PROVE  FindHeaderIndex(s, h) \in 1 .. Len(s) /\ s[FindHeaderIndex(s, h)] = h
<1> DEFINE at == {j \in 1 .. Len(s) : s[j] = h}
<1>1. Len(s) \in Nat /\ DOMAIN s = 1 .. Len(s)
  OBVIOUS
<1>2. at \in SUBSET Nat /\ at # {}
  BY <1>1 DEF Range
<1>3. First(at) \in at
  BY <1>2, FirstIsLeast
<1>4. FindHeaderIndex(s, h) = First(at)
  BY <1>2 DEF FindHeaderIndex
<1> QED
  BY <1>3, <1>4

-----------------------------------------------------------------------------
(***************************************************************************)
(* The memory.                                                             *)
(***************************************************************************)

\* A header whose is_hole has the value v.
HeaderAt(m, loc, size, v) ==
  [m EXCEPT ![loc] = HEAP_MAGIC, ![loc + 1] = v, ![loc + 2] = size]

LEMMA HeaderValue ==
  ASSUME NEW m, NEW loc, NEW size \in 0 .. W - 1
  PROVE  /\ MakeHeader(m, loc, size, TRUE) = HeaderAt(m, loc, size, 1)
         /\ MakeHeader(m, loc, size, FALSE) = HeaderAt(m, loc, size, 0)
<1>1. size % W = size
  BY ConstantTypes
<1> QED
  BY <1>1 DEF MakeHeader, HeaderAt

LEMMA HeaderFacts ==
  ASSUME NEW m \in [Memory -> Int], NEW loc \in Int, NEW size \in Int, NEW v \in Int,
         loc \in Memory, loc + 1 \in Memory, loc + 2 \in Memory
  PROVE  LET r == HeaderAt(m, loc, size, v)
         IN  /\ r \in [Memory -> Int]
             /\ r[loc] = HEAP_MAGIC /\ r[loc + 1] = v /\ r[loc + 2] = size
             /\ \A a \in Memory : a \notin loc .. loc + 2 => r[a] = m[a]
<1> DEFINE r == HeaderAt(m, loc, size, v)
<1>1. HEAP_MAGIC \in Int
  BY ConstantTypes
<1>2. r \in [Memory -> Int] /\ r[loc] = HEAP_MAGIC /\ r[loc + 1] = v /\ r[loc + 2] = size
  BY <1>1 DEF HeaderAt
<1>3. \A a \in Memory : a \notin loc .. loc + 2 => r[a] = m[a]
  BY DEF HeaderAt
<1> QED
  BY <1>2, <1>3

LEMMA FooterFacts ==
  ASSUME NEW m \in [Memory -> Int], NEW loc \in Int, NEW header \in Int,
         loc \in Memory, loc + 1 \in Memory
  PROVE  LET r == MakeFooter(m, loc, header)
         IN  /\ r \in [Memory -> Int]
             /\ r[loc] = HEAP_MAGIC /\ r[loc + 1] = header
             /\ \A a \in Memory : a \notin loc .. loc + 1 => r[a] = m[a]
  BY ConstantTypes DEF MakeFooter

LEMMA ResizeFacts ==
  ASSUME NEW m \in [Memory -> Int], NEW h \in Int, NEW size \in Int, h + 2 \in Memory
  PROVE  LET r == Resize(m, h, size)
         IN  /\ r \in [Memory -> Int]
             /\ r[h + 2] = size
             /\ \A a \in Memory : a # h + 2 => r[a] = m[a]
  BY DEF Resize

\* The words of the heap, and the one behind it that a header may take.
LEMMA HeapWords ==
  ASSUME NEW a \in Int, StartAddr - 3 <= a, a < MaxAddr + 3
  PROVE  a \in Memory
  BY ConstantTypes DEF Memory, HEADER

-----------------------------------------------------------------------------
(***************************************************************************)
(* Tilings: a set H of headers, the function s of their sizes, the end e.  *)
(***************************************************************************)

Tiling(H, s, e) ==
  /\ StartAddr \in H
  /\ \A h \in H :
       /\ StartAddr <= h /\ s[h] >= 5 /\ h + s[h] <= e
       /\ h + s[h] \in H \/ h + s[h] = e
  /\ \A g, h \in H : g < h => g + s[g] <= h

\* The sizes s and t, of which t may differ at h.
Resized(H, s, t, e, h) ==
  /\ H \in SUBSET Int /\ s \in [Int -> Int] /\ t \in [Int -> Int] /\ e \in Int
  /\ Tiling(H, s, e)
  /\ h \in H
  /\ \A g \in H : g # h => t[g] = s[g]

\* A tile is split in two.
Split(H, s, t, e, h, q) ==
  /\ Resized(H, s, t, e, h)
  /\ q \in Int /\ h + 5 <= q /\ q + 5 <= h + s[h]
  /\ t[h] = q - h /\ t[q] = h + s[h] - q

LEMMA SplitTiling ==
  ASSUME NEW H, NEW s, NEW t, NEW e, NEW h, NEW q, Split(H, s, t, e, h, q)
  PROVE  q \notin H /\ Tiling(H \cup {q}, t, e)
<1> USE DEF Resized, Split
<1>0. StartAddr \in Int
  BY ConstantTypes
<1> USE <1>0
<1>1. \A g \in H : StartAddr <= g /\ s[g] >= 5 /\ g + s[g] <= e
  BY DEF Tiling
<1>next. ASSUME NEW g \in H PROVE g + s[g] \in H \/ g + s[g] = e
  BY DEF Tiling
<1>2. \A f, g \in H : f < g => f + s[f] <= g
  BY DEF Tiling
<1>3. q \notin H
  <2>1. SUFFICES ASSUME q \in H PROVE FALSE
    OBVIOUS
  <2>2. h + s[h] <= q
    BY <1>1, <1>2, <2>1
  <2> QED
    BY <1>1, <2>2
<1>4. StartAddr \in H \cup {q}
  BY DEF Tiling
<1>5. ASSUME NEW g \in H \cup {q}
      PROVE  /\ StartAddr <= g /\ t[g] >= 5 /\ g + t[g] <= e
             /\ g + t[g] \in H \cup {q} \/ g + t[g] = e
  <2>1. CASE g = q
    <3>1. g + t[g] = h + s[h]
      BY <1>1, <2>1
    <3>2. h + s[h] \in H \/ h + s[h] = e
      BY <1>next
    <3> QED
      BY <1>1, <2>1, <3>1, <3>2
  <2>2. CASE g = h
    BY <1>1, <2>2
  <2>3. CASE g \in H /\ g # h
    <3>1. g + s[g] \in H \/ g + s[g] = e
      BY <1>next, <2>3
    <3> QED
      BY <1>1, <2>3, <3>1
  <2> QED
    BY <2>1, <2>2, <2>3
<1>6. ASSUME NEW f \in H \cup {q}, NEW g \in H \cup {q}, f < g
      PROVE  f + t[f] <= g
  <2>1. CASE f = q
    <3>1. g \in H /\ h < g
      BY <1>1, <1>6, <2>1
    <3>2. h + s[h] <= g
      BY <1>2, <3>1
    <3> QED
      BY <1>1, <2>1, <3>2
  <2>2. CASE f \in H /\ g \in H
    <3>1. f + s[f] <= g
      BY <1>2, <1>6, <2>2
    <3> QED
      BY <1>1, <2>2, <3>1
  <2>3. CASE f \in H /\ g = q
    <3>1. CASE f = h
      BY <1>1, <2>3, <3>1
    <3>2. CASE f < h
      <4>1. f + s[f] <= h /\ t[f] = s[f]
        BY <1>1, <1>2, <2>3, <3>2
      <4> QED
        BY <1>1, <2>3, <4>1
    <3>3. CASE h < f
      <4>1. h + s[h] <= f
        BY <1>2, <2>3, <3>3
      <4> QED
        BY <1>1, <1>6, <2>3, <4>1
    <3> QED
      BY <1>1, <2>3, <3>1, <3>2, <3>3
  <2> QED
    BY <2>1, <2>2, <2>3
<1> QED
  BY <1>3, <1>4, <1>5, <1>6 DEF Tiling

\* A tile takes in the one behind it.
Merge(H, s, t, e, h) ==
  /\ Resized(H, s, t, e, h)
  /\ h + s[h] \in H
  /\ t[h] = s[h] + s[h + s[h]]

LEMMA MergeTiling ==
  ASSUME NEW H, NEW s, NEW t, NEW e, NEW h, Merge(H, s, t, e, h)
  PROVE  Tiling(H \ {h + s[h]}, t, e)
<1> USE DEF Resized, Merge
<1> DEFINE r == h + s[h]
<1>0. StartAddr \in Int
  BY ConstantTypes
<1> USE <1>0
<1>1. \A g \in H : StartAddr <= g /\ s[g] >= 5 /\ g + s[g] <= e
  BY DEF Tiling
<1>next. ASSUME NEW g \in H PROVE g + s[g] \in H \/ g + s[g] = e
  BY DEF Tiling
<1>2. \A f, g \in H : f < g => f + s[f] <= g
  BY DEF Tiling
<1>3. r \in H /\ r \in Int /\ r > h /\ t[h] = s[h] + s[r] /\ r = h + s[h]
  BY <1>1
<1> HIDE DEF r
<1>4. StartAddr \in H \ {r}
  BY <1>1, <1>3, ConstantTypes DEF Tiling
<1>5. ASSUME NEW g \in H \ {r}
      PROVE  /\ StartAddr <= g /\ t[g] >= 5 /\ g + t[g] <= e
             /\ g + t[g] \in H \ {r} \/ g + t[g] = e
  <2>1. CASE g = h
    <3>1. g + t[g] = r + s[r]
      BY <1>1, <1>3, <2>1
    <3>2. r + s[r] # r
      BY <1>1, <1>3
    <3>3. r + s[r] \in H \/ r + s[r] = e
      BY <1>3, <1>next
    <3> QED
      BY <1>1, <1>3, <2>1, <3>1, <3>2, <3>3
  <2>2. CASE g # h
    <3>1. t[g] = s[g]
      BY <2>2
    <3>2. g + s[g] # r
      <4>1. CASE g < h
        BY <1>1, <1>2, <1>3, <4>1
      <4>2. CASE h < g
        <5>1. r <= g
          BY <1>2, <1>3, <4>2
        <5> QED
          BY <1>1, <1>3, <5>1
      <4> QED
        BY <1>1, <2>2, <4>1, <4>2
    <3>3. g + s[g] \in H \/ g + s[g] = e
      BY <1>next
    <3> QED
      BY <1>1, <3>1, <3>2, <3>3
  <2> QED
    BY <2>1, <2>2
<1>6. ASSUME NEW f \in H \ {r}, NEW g \in H \ {r}, f < g
      PROVE  f + t[f] <= g
  <2>1. CASE f = h
    <3>1. r <= g
      BY <1>2, <1>3, <1>6, <2>1
    <3>2. r < g
      BY <1>1, <1>3, <3>1
    <3>3. r + s[r] <= g
      BY <1>2, <1>3, <3>2
    <3> QED
      BY <1>1, <1>3, <2>1, <3>3
  <2>2. CASE f # h
    BY <1>2, <1>6, <2>2
  <2> QED
    BY <2>1, <2>2
<1> QED
  BY <1>4, <1>5, <1>6 DEF Tiling, r

\* The last tile grows or shrinks with the heap.
LastTile(H, s, t, e, h, n) ==
  /\ Resized(H, s, t, e, h)
  /\ h + s[h] = e
  /\ n \in Int /\ n >= 5 /\ t[h] = n

LEMMA LastTiling ==
  ASSUME NEW H, NEW s, NEW t, NEW e, NEW h, NEW n, LastTile(H, s, t, e, h, n)
  PROVE  Tiling(H, t, h + n)
<1> USE DEF Resized, LastTile
<1>0. StartAddr \in Int
  BY ConstantTypes
<1> USE <1>0
<1>1. \A g \in H : StartAddr <= g /\ s[g] >= 5 /\ g + s[g] <= e
  BY DEF Tiling
<1>next. ASSUME NEW g \in H PROVE g + s[g] \in H \/ g + s[g] = e
  BY DEF Tiling
<1>2. \A f, g \in H : f < g => f + s[f] <= g
  BY DEF Tiling
<1>3. \A g \in H : g # h => g + s[g] <= h
  <2>1. SUFFICES ASSUME NEW g \in H, h < g PROVE FALSE
    BY <1>1, <1>2
  <2>2. e <= g
    BY <1>2, <2>1
  <2> QED
    BY <1>1, <2>2
<1>4. ASSUME NEW g \in H
      PROVE  /\ StartAddr <= g /\ t[g] >= 5 /\ g + t[g] <= h + n
             /\ g + t[g] \in H \/ g + t[g] = h + n
  <2>1. CASE g = h
    BY <1>1, <2>1
  <2>2. CASE g # h
    <3>1. g + s[g] <= h /\ t[g] = s[g]
      BY <1>3, <2>2
    <3>2. g + s[g] \in H \/ g + s[g] = e
      BY <1>next
    <3> QED
      BY <1>1, <3>1, <3>2
  <2> QED
    BY <2>1, <2>2
<1>5. ASSUME NEW f \in H, NEW g \in H, f < g PROVE f + t[f] <= g
  <2>1. CASE f = h
    <3>1. g + s[g] <= h
      BY <1>1, <1>3, <1>5, <2>1
    <3> QED
      BY <1>1, <1>5, <2>1, <3>1
  <2>2. CASE f # h
    BY <1>2, <1>5, <2>2
  <2> QED
    BY <2>1, <2>2
<1> QED
  BY <1>4, <1>5 DEF Tiling

\* A tile is added at the end.
Appending(H, s, t, e, n) ==
  /\ H \in SUBSET Int /\ s \in [Int -> Int] /\ t \in [Int -> Int] /\ e \in Int
  /\ Tiling(H, s, e)
  /\ n \in Int /\ n >= 5 /\ t[e] = n
  /\ \A g \in H : t[g] = s[g]

LEMMA AppendTiling ==
  ASSUME NEW H, NEW s, NEW t, NEW e, NEW n, Appending(H, s, t, e, n)
  PROVE  e \notin H /\ Tiling(H \cup {e}, t, e + n)
<1> USE DEF Appending
<1>0. StartAddr \in Int
  BY ConstantTypes
<1> USE <1>0
<1>1. \A g \in H : StartAddr <= g /\ s[g] >= 5 /\ g + s[g] <= e
  BY DEF Tiling
<1>next. ASSUME NEW g \in H PROVE g + s[g] \in H \/ g + s[g] = e
  BY DEF Tiling
<1>2. \A f, g \in H : f < g => f + s[f] <= g
  BY DEF Tiling
<1>3. e \notin H /\ StartAddr \in H /\ StartAddr <= e
  BY <1>1, ConstantTypes DEF Tiling
<1>4. ASSUME NEW g \in H \cup {e}
      PROVE  /\ StartAddr <= g /\ t[g] >= 5 /\ g + t[g] <= e + n
             /\ g + t[g] \in H \cup {e} \/ g + t[g] = e + n
  <2>1. CASE g = e
    BY <1>3, <2>1
  <2>2. CASE g \in H
    <3>1. g + s[g] \in H \/ g + s[g] = e
      BY <1>next, <2>2
    <3> QED
      BY <1>1, <2>2, <3>1
  <2> QED
    BY <2>1, <2>2
<1>5. ASSUME NEW f \in H \cup {e}, NEW g \in H \cup {e}, f < g PROVE f + t[f] <= g
  <2>1. f \in H
    BY <1>1, <1>5
  <2>2. CASE g = e
    BY <1>1, <2>1, <2>2
  <2>3. CASE g \in H
    BY <1>2, <1>5, <2>1, <2>3
  <2> QED
    BY <2>2, <2>3
<1> QED
  BY <1>3, <1>4, <1>5 DEF Tiling

\* Only the sizes of the tiles matter.
LEMMA SameTiling ==
  ASSUME NEW H \in SUBSET Int, NEW s \in [Int -> Int], NEW t \in [Int -> Int],
         NEW e \in Int, Tiling(H, s, e), \A g \in H : t[g] = s[g]
  PROVE  Tiling(H, t, e)
<1>1. \A g \in H : StartAddr <= g /\ t[g] >= 5 /\ g + t[g] <= e
  BY DEF Tiling
<1>2. ASSUME NEW g \in H PROVE g + t[g] \in H \/ g + t[g] = e
  BY DEF Tiling
<1>3. \A f, g \in H : f < g => f + t[f] <= g
  BY DEF Tiling
<1> QED
  BY <1>1, <1>2, <1>3 DEF Tiling

-----------------------------------------------------------------------------
(***************************************************************************)
(* A memory m tiled by the holes F and the blocks T up to the end e.       *)
(***************************************************************************)

SizesIn(m) == [h \in Int |-> IF h + 2 \in Memory THEN m[h + 2] ELSE 0]

Tiled(m, F, T, e) ==
  /\ Tiling(F \cup T, SizesIn(m), e)
  /\ F \cap T = {}
  /\ \A h \in F \cup T : m[h] = HEAP_MAGIC /\ (m[h + 1] # 0 <=> h \in F)
  /\ \A h \in T : /\ m[h + m[h + 2] - 2] = HEAP_MAGIC
                  /\ m[h + m[h + 2] - 1] = h

LEMMA SizesType ==
  ASSUME NEW m \in [Memory -> Int]
  PROVE  SizesIn(m) \in [Int -> Int]
  BY DEF SizesIn

\* Where the tiles are, in the words of the memory.
LEMMA TileFacts ==
  ASSUME NEW m \in [Memory -> Int], NEW F \in SUBSET Int, NEW T \in SUBSET Int,
         NEW e \in Int, e <= MaxAddr, Tiled(m, F, T, e)
  PROVE  /\ \A h \in F \cup T :
              /\ SizesIn(m)[h] = m[h + 2] /\ m[h + 2] \in Int
              /\ StartAddr <= h /\ m[h + 2] >= 5 /\ h + m[h + 2] <= e
         /\ \A g, h \in F \cup T : g < h => g + m[g + 2] <= h
<1> DEFINE H == F \cup T
           s == SizesIn(m)
<1>1. H \in SUBSET Int /\ s \in [Int -> Int] /\ Tiling(H, s, e)
  BY SizesType DEF Tiled
<1> HIDE DEF H, s
<1>2. StartAddr \in Int /\ MaxAddr \in Int
  BY ConstantTypes
<1>3. \A h \in H : StartAddr <= h /\ s[h] >= 5 /\ h + s[h] <= e
  BY <1>1 DEF Tiling
<1>4. \A h \in H : h + 2 \in Memory
  <2>1. SUFFICES ASSUME NEW h \in H PROVE h + 2 \in Memory
    OBVIOUS
  <2>2. h \in Int /\ h + 2 \in Int /\ StartAddr - 3 <= h + 2 /\ h + 2 < MaxAddr + 3
    BY <1>1, <1>2, <1>3
  <2> QED
    BY <2>2, HeapWords
<1>5. \A h \in H : s[h] = m[h + 2] /\ m[h + 2] \in Int
  BY <1>1, <1>4 DEF s, SizesIn
<1>6. \A g, h \in H : g < h => g + s[g] <= h
  BY <1>1 DEF Tiling
<1>7. \A h \in H : /\ s[h] = m[h + 2] /\ m[h + 2] \in Int
                    /\ StartAddr <= h /\ m[h + 2] >= 5 /\ h + m[h + 2] <= e
  BY <1>3, <1>5
<1>8. \A g, h \in H : g < h => g + m[g + 2] <= h
  BY <1>5, <1>6
<1> QED
  BY <1>7, <1>8 DEF H, s

\* The memory r differs from m in the tile at h only.
WrittenInside(m, r, h) ==
  \A a \in Memory : a \notin h .. h + m[h + 2] - 1 => r[a] = m[a]

\* A write inside one tile leaves the words of the others alone.
LEMMA OtherTiles ==
  ASSUME NEW m \in [Memory -> Int], NEW F \in SUBSET Int, NEW T \in SUBSET Int,
         NEW e \in Int, e <= MaxAddr, Tiled(m, F, T, e),
         NEW h \in F \cup T, NEW r,
         WrittenInside(m, r, h),
         NEW g \in F \cup T, g # h
  PROVE  /\ r[g] = m[g] /\ r[g + 1] = m[g + 1] /\ r[g + 2] = m[g + 2]
         /\ r[g + m[g + 2] - 2] = m[g + m[g + 2] - 2]
         /\ r[g + m[g + 2] - 1] = m[g + m[g + 2] - 1]
<1>1. /\ m[g + 2] \in Int /\ StartAddr <= g /\ m[g + 2] >= 5 /\ g + m[g + 2] <= e
      /\ m[h + 2] \in Int /\ StartAddr <= h /\ m[h + 2] >= 5 /\ h + m[h + 2] <= e
      /\ g < h => g + m[g + 2] <= h
      /\ h < g => h + m[h + 2] <= g
  BY TileFacts
<1>2. g \in Int /\ h \in Int /\ StartAddr \in Int /\ MaxAddr \in Int
  BY ConstantTypes
<1> DEFINE n == m[g + 2]
           k == m[h + 2]
<1> HIDE DEF n, k
<1>3. ASSUME NEW a \in Int, g <= a, a < g + n PROVE r[a] = m[a]
  <2>1. StartAddr - 3 <= a /\ a < MaxAddr + 3
    BY <1>1, <1>2, <1>3 DEF n
  <2>2. a \in Memory
    BY <2>1, HeapWords
  <2>3. a \notin h .. h + k - 1
    BY <1>1, <1>2, <1>3 DEF n, k
  <2> QED
    BY <2>2, <2>3 DEF k, WrittenInside
<1>4. n \in Int /\ n >= 5
  BY <1>1 DEF n
<1>5. r[g] = m[g] /\ r[g + 1] = m[g + 1] /\ r[g + 2] = m[g + 2]
  BY <1>2, <1>3, <1>4
<1>6. r[g + n - 2] = m[g + n - 2] /\ r[g + n - 1] = m[g + n - 1]
  <2>1. g + n - 2 \in Int /\ g <= g + n - 2 /\ g + n - 2 < g + n
    BY <1>2, <1>4
  <2>2. g + n - 1 \in Int /\ g <= g + n - 1 /\ g + n - 1 < g + n
    BY <1>2, <1>4
  <2> QED
    BY <1>3, <2>1, <2>2
<1> QED
  BY <1>5, <1>6 DEF n

\* The parts of a hole of n words: a hole, a block and a hole.
Parts(n, G, B, R) ==
  /\ G + B + R = n
  /\ G = 0 \/ G >= 5
  /\ B >= 5
  /\ R = 0 \/ R >= 5

\* alloc: a block of B words is carved out of a hole, behind a hole of G words
\* and in front of one of R words, either of which may be missing.
Carving(H, s, t, e, h, G, B, R, P, Q) ==
  /\ Resized(H, s, t, e, h)
  /\ G \in Int /\ B \in Int /\ R \in Int /\ Parts(s[h], G, B, R)
  /\ P = h + G /\ Q = P + B
  /\ t[P] = B
  /\ G # 0 => t[h] = G
  /\ R # 0 => t[Q] = R

CarvedUp(H, t, e, G, R, P, Q) ==
  /\ G # 0 => P \notin H
  /\ R = 0 => Tiling(H \cup {P}, t, e)
  /\ R # 0 => /\ Q \notin H \cup {P}
              /\ Tiling(H \cup {P} \cup {Q}, t, e)

LEMMA CarvedTiling ==
  ASSUME NEW H, NEW s, NEW t, NEW e, NEW h, NEW G, NEW B, NEW R, NEW P, NEW Q,
         Carving(H, s, t, e, h, G, B, R, P, Q)
  PROVE  CarvedUp(H, t, e, G, R, P, Q)
<1> USE DEF CarvedUp
<1> DEFINE u == [g \in Int |-> IF g = P THEN B + R ELSE IF g = h THEN G ELSE s[g]]
<1>0. /\ Resized(H, s, t, e, h)
      /\ G \in Int /\ B \in Int /\ R \in Int /\ Parts(s[h], G, B, R)
      /\ P = h + G /\ Q = P + B
      /\ t[P] = B
      /\ G # 0 => t[h] = G
      /\ R # 0 => t[Q] = R
  BY DEF Carving
<1> USE <1>0 DEF Resized
<1>1. h \in Int /\ P \in Int /\ Q \in Int
  OBVIOUS
<1>2. u \in [Int -> Int] /\ u[P] = B + R
  BY <1>1
<1>3. G # 0 => P \notin H
  <2>1. SUFFICES ASSUME G # 0, P \in H PROVE FALSE
    OBVIOUS
  <2>2. h < P
    BY <1>1, <2>1 DEF Parts
  <2>3. h + s[h] <= P
    BY <2>1, <2>2 DEF Tiling
  <2> QED
    BY <1>1, <2>3 DEF Parts
<1>4. \A g \in H : g # P => u[g] = (IF g = h THEN G ELSE s[g])
  OBVIOUS
<1>5. \A g \in H \cup {P} : g # P => t[g] = u[g]
  BY <1>1, <1>4
<1> HIDE DEF u
<1>6. Tiling(H \cup {P}, u, e)
  <2>1. CASE G = 0
    <3>1. P = h /\ H \cup {P} = H
      BY <1>1, <2>1
    <3>2. \A g \in H : u[g] = s[g]
      BY <1>2, <1>4, <2>1, <3>1 DEF Parts
    <3>3. Tiling(H, u, e)
      BY <1>2, <3>2, SameTiling
    <3> QED
      BY <3>1, <3>3
  <2>2. CASE G # 0
    <3>1. h + 5 <= P /\ P + 5 <= h + s[h] /\ u[h] = P - h /\ u[P] = h + s[h] - P
      BY <1>1, <1>2, <1>4, <2>2 DEF Parts
    <3>2. \A g \in H : g # h => u[g] = s[g]
      BY <1>3, <1>4, <2>2
    <3>3. P \notin H /\ Tiling(H \cup {P}, u, e)
      <4>1. Split(H, s, u, e, h, P)
        BY <1>2, <3>1, <3>2 DEF Resized, Split
      <4> QED
        BY <4>1, SplitTiling
    <3> QED
      BY <3>3
  <2> QED
    BY <2>1, <2>2
<1> DEFINE K == H \cup {P}
<1>7. K \in SUBSET Int /\ P \in K /\ Tiling(K, u, e) /\ \A g \in K : g # P => t[g] = u[g]
  BY <1>1, <1>5, <1>6
<1> HIDE DEF K
<1>8. CASE R = 0
  <2>1. \A g \in K : t[g] = u[g]
    <3>1. t[P] = u[P]
      BY <1>2, <1>8
    <3> QED
      BY <1>7, <3>1
  <2>2. Tiling(K, t, e)
    BY <1>2, <1>7, <2>1, SameTiling
  <2> QED
    BY <1>3, <1>8, <2>2 DEF K
<1>9. CASE R # 0
  <2>1. P + 5 <= Q /\ Q + 5 <= P + u[P] /\ t[P] = Q - P /\ t[Q] = P + u[P] - Q
    BY <1>2, <1>9 DEF Parts
  <2>2. Q \notin K /\ Tiling(K \cup {Q}, t, e)
    <3>1. Split(K, u, t, e, P, Q)
      BY <1>2, <1>7, <2>1 DEF Resized, Split
    <3> QED
      BY <3>1, SplitTiling
  <2> QED
    BY <1>3, <1>9, <2>2 DEF K
<1> QED
  BY <1>8, <1>9

CarvedHeap(m, F, T, e, h, G, B, R, r, F2, T2) ==
  /\ m \in [Memory -> Int] /\ F \in SUBSET Int /\ T \in SUBSET Int
  /\ e \in Int /\ e <= MaxAddr /\ Tiled(m, F, T, e)
  /\ h \in F /\ G \in Int /\ B \in Int /\ R \in Int /\ Parts(m[h + 2], G, B, R)
  /\ r \in [Memory -> Int] /\ WrittenInside(m, r, h)
  /\ r[h + G] = HEAP_MAGIC /\ r[h + G + 1] = 0 /\ r[h + G + 2] = B
  /\ r[h + G + B - 2] = HEAP_MAGIC /\ r[h + G + B - 1] = h + G
  /\ G # 0 => r[h] = HEAP_MAGIC /\ r[h + 1] # 0 /\ r[h + 2] = G
  /\ R # 0 => /\ r[h + G + B] = HEAP_MAGIC /\ r[h + G + B + 1] # 0
              /\ r[h + G + B + 2] = R
  /\ F2 = (IF G = 0 THEN F \ {h} ELSE F) \cup (IF R = 0 THEN {} ELSE {h + G + B})
  /\ T2 = T \cup {h + G}

\* The headers of the parts were none before.
NewHeads(F, T, h, G, B, R) ==
  /\ G # 0 => h + G \notin F \cup T
  /\ R # 0 => h + G + B \notin F \cup T

LEMMA Carved ==
  ASSUME NEW m, NEW F, NEW T, NEW e, NEW h, NEW G, NEW B, NEW R, NEW r, NEW F2, NEW T2,
         CarvedHeap(m, F, T, e, h, G, B, R, r, F2, T2)
  PROVE  NewHeads(F, T, h, G, B, R) /\ Tiled(r, F2, T2, e)
<1>a. /\ m \in [Memory -> Int] /\ F \in SUBSET Int /\ T \in SUBSET Int
      /\ e \in Int /\ e <= MaxAddr /\ Tiled(m, F, T, e)
      /\ h \in F /\ G \in Int /\ B \in Int /\ R \in Int /\ Parts(m[h + 2], G, B, R)
      /\ r \in [Memory -> Int] /\ WrittenInside(m, r, h)
      /\ r[h + G] = HEAP_MAGIC /\ r[h + G + 1] = 0 /\ r[h + G + 2] = B
      /\ r[h + G + B - 2] = HEAP_MAGIC /\ r[h + G + B - 1] = h + G
      /\ G # 0 => r[h] = HEAP_MAGIC /\ r[h + 1] # 0 /\ r[h + 2] = G
      /\ R # 0 => /\ r[h + G + B] = HEAP_MAGIC /\ r[h + G + B + 1] # 0
                  /\ r[h + G + B + 2] = R
      /\ F2 = (IF G = 0 THEN F \ {h} ELSE F) \cup (IF R = 0 THEN {} ELSE {h + G + B})
      /\ T2 = T \cup {h + G}
  BY DEF CarvedHeap
<1> USE <1>a
<1> DEFINE P == h + G
           Q == h + G + B
           H == F \cup T \cup {P}
<1>0. (G # 0 => r[h + 2] = G) /\ (R # 0 => r[h + G + B + 2] = R)
  OBVIOUS
<1>1. /\ G # 0 => h + G \notin F \cup T
      /\ R = 0 => Tiling(F \cup T \cup {h + G}, SizesIn(r), e)
      /\ R # 0 => /\ h + G + B \notin F \cup T \cup {h + G}
                  /\ Tiling(F \cup T \cup {h + G} \cup {h + G + B}, SizesIn(r), e)
  <2> DEFINE K == F \cup T
             s == SizesIn(m)
             t == SizesIn(r)
  <2>1. K \in SUBSET Int /\ h \in K /\ s \in [Int -> Int] /\ t \in [Int -> Int]
        /\ Tiling(K, s, e)
    BY SizesType DEF Tiled
  <2>2. \A g \in K : /\ s[g] = m[g + 2] /\ m[g + 2] \in Int
                      /\ StartAddr <= g /\ m[g + 2] >= 5 /\ g + m[g + 2] <= e
    BY TileFacts
  <2>3. \A g \in K : g # h => r[g + 2] = m[g + 2]
    BY OtherTiles
  <2>4. StartAddr \in Int /\ MaxAddr \in Int
    BY ConstantTypes
  <2>5. ASSUME NEW g \in Int, StartAddr <= g, g + 5 <= e PROVE t[g] = r[g + 2]
    <3>1. g + 2 \in Int /\ StartAddr - 3 <= g + 2 /\ g + 2 < MaxAddr + 3
      BY <2>4, <2>5
    <3>2. g + 2 \in Memory
      BY <3>1, HeapWords
    <3> QED
      BY <3>2 DEF SizesIn
  <2> HIDE DEF K, s, t
  <2>6. Parts(s[h], G, B, R) /\ h \in Int /\ StartAddr <= h /\ h + G + B + R <= e
    BY <2>1, <2>2 DEF Parts
  <2>p. P \in Int /\ P = h + G /\ Q \in Int /\ Q = P + B
    BY <2>6
  <2>7. t[P] = B
    BY <2>4, <2>5, <2>6 DEF Parts
  <2>8. G # 0 => t[h] = G
    BY <1>0, <2>4, <2>5, <2>6 DEF Parts
  <2>9. R # 0 => t[Q] = R
    BY <1>0, <2>4, <2>5, <2>6 DEF Parts
  <2>10. \A g \in K : g # h => t[g] = s[g]
    <3>0. SUFFICES ASSUME NEW g \in K, g # h PROVE t[g] = s[g]
      OBVIOUS
    <3>1. g \in Int /\ StartAddr <= g /\ g + 5 <= e
      BY <2>1, <2>2, <2>4
    <3>2. t[g] = r[g + 2]
      BY <2>5, <3>1
    <3> QED
      BY <2>2, <2>3, <3>0, <3>2
  <2> HIDE DEF P, Q
  <2>11. /\ G # 0 => P \notin K
         /\ R = 0 => Tiling(K \cup {P}, t, e)
         /\ R # 0 => /\ Q \notin K \cup {P}
                     /\ Tiling(K \cup {P} \cup {Q}, t, e)
    <3>1. Carving(K, s, t, e, h, G, B, R, P, Q)
      BY <2>1, <2>6, <2>7, <2>8, <2>9, <2>10, <2>p DEF Carving, Resized
    <3>2. CarvedUp(K, t, e, G, R, P, Q)
      BY <3>1, CarvedTiling
    <3> QED
      BY <3>2 DEF CarvedUp
  <2> QED
    BY <2>11 DEF K, t, P, Q
<1>2. \A g \in F \cup T : g # h =>
        /\ r[g] = m[g] /\ r[g + 1] = m[g + 1] /\ r[g + 2] = m[g + 2]
        /\ r[g + m[g + 2] - 2] = m[g + m[g + 2] - 2]
        /\ r[g + m[g + 2] - 1] = m[g + m[g + 2] - 1]
  BY OtherTiles
<1>3. F \cap T = {} /\ h \notin T /\ h \in Int
  BY DEF Tiled
<1> USE DEF Parts
<1>4. G = 0 => P = h
  BY <1>3
<1>5. P # Q /\ h # Q
  BY <1>3
<1>t. /\ G # 0 => P \notin F \cup T
      /\ R # 0 => Q \notin H
      /\ R = 0 => Tiling(H, SizesIn(r), e)
      /\ R # 0 => Tiling(H \cup {Q}, SizesIn(r), e)
  BY <1>1
<1>f. F2 = (IF G = 0 THEN F \ {h} ELSE F) \cup (IF R = 0 THEN {} ELSE {Q})
  OBVIOUS
<1>g. T2 = T \cup {P}
  OBVIOUS
<1> HIDE DEF P, Q
<1>6. F2 \cup T2 = IF R = 0 THEN H ELSE H \cup {Q}
  BY <1>4, <1>f, <1>g
<1>7. F2 \cap T2 = {}
  <2>1. CASE G = 0
    BY <1>t, <1>3, <1>4, <1>5, <1>f, <1>g, <2>1
  <2>2. CASE G # 0
    BY <1>t, <1>3, <1>5, <1>f, <1>g, <2>2
  <2> QED
    BY <2>1, <2>2
<1>8. ASSUME NEW x \in F2 \cup T2
      PROVE  r[x] = HEAP_MAGIC /\ (r[x + 1] # 0 <=> x \in F2)
  <2>1. CASE x = P
    <3>1. x \notin F2
      BY <1>7, <1>g, <2>1
    <3> QED
      BY <2>1, <3>1 DEF P
  <2>2. CASE x = Q /\ x # P
    <3>1. R # 0 \/ x \in F \cup T
      BY <1>8, <1>f, <1>g, <2>2
    <3>2. CASE R # 0
      BY <2>2, <3>2 DEF Q
    <3>3. CASE R = 0 /\ x # h
      <4>1. x \in F \cup T
        BY <1>8, <1>f, <1>g, <2>2, <3>3
      <4>2. x \in F2 <=> x \in F
        BY <1>f, <2>2, <3>3
      <4>3. m[x] = HEAP_MAGIC /\ (m[x + 1] # 0 <=> x \in F)
        BY <4>1 DEF Tiled
      <4> QED
        BY <1>2, <3>3, <4>1, <4>2, <4>3
    <3> QED
      BY <1>5, <2>2, <3>2, <3>3
  <2>3. CASE x = h /\ x # P
    BY <1>4, <2>3
  <2>4. CASE x # P /\ x # Q /\ x # h
    <3>1. x \in F \cup T /\ (x \in F2 <=> x \in F)
      BY <1>8, <1>f, <1>g, <2>4
    <3>2. m[x] = HEAP_MAGIC /\ (m[x + 1] # 0 <=> x \in F)
      BY <3>1 DEF Tiled
    <3> QED
      BY <1>2, <2>4, <3>1, <3>2
  <2> QED
    BY <2>1, <2>2, <2>3, <2>4
<1>9. ASSUME NEW x \in T2
      PROVE  r[x + r[x + 2] - 2] = HEAP_MAGIC /\ r[x + r[x + 2] - 1] = x
  <2>1. CASE x = P
    BY <2>1 DEF P
  <2>2. CASE x # P
    <3>1. x \in T /\ x # h
      BY <1>3, <1>9, <1>g, <2>2
    <3>2. m[x + m[x + 2] - 2] = HEAP_MAGIC /\ m[x + m[x + 2] - 1] = x
      BY <3>1 DEF Tiled
    <3> QED
      BY <1>2, <3>1, <3>2
  <2> QED
    BY <2>1, <2>2
<1>10. Tiled(r, F2, T2, e)
  <2>1. Tiling(F2 \cup T2, SizesIn(r), e)
    BY <1>t, <1>6
  <2> QED
    BY <1>7, <1>8, <1>9, <2>1 DEF Tiled
<1> QED
  BY <1>1, <1>10 DEF NewHeads

\* A tile in front of lo, or behind hi, does not see a write between them.
KeptTile(m, r, g) ==
  /\ r[g] = m[g] /\ r[g + 1] = m[g + 1] /\ r[g + 2] = m[g + 2]
  /\ r[g + m[g + 2] - 2] = m[g + m[g + 2] - 2]
  /\ r[g + m[g + 2] - 1] = m[g + m[g + 2] - 1]

WrittenBetween(m, r, lo, hi) ==
  \A a \in Memory : a \notin lo .. hi - 1 => r[a] = m[a]

LEMMA Apart ==
  ASSUME NEW m \in [Memory -> Int], NEW F \in SUBSET Int, NEW T \in SUBSET Int,
         NEW e \in Int, e <= MaxAddr, Tiled(m, F, T, e), NEW r,
         NEW lo \in Int, NEW hi \in Int, WrittenBetween(m, r, lo, hi),
         NEW g \in F \cup T, g + m[g + 2] <= lo \/ hi <= g
  PROVE  KeptTile(m, r, g)
<1> DEFINE n == m[g + 2]
<1>1. n \in Int /\ StartAddr <= g /\ n >= 5 /\ g + n <= e /\ (g + n <= lo \/ hi <= g)
  BY TileFacts
<1>2. g \in Int /\ StartAddr \in Int /\ MaxAddr \in Int
  BY ConstantTypes
<1> HIDE DEF n
<1>3. ASSUME NEW a \in Int, g <= a, a < g + n PROVE r[a] = m[a]
  <2>1. StartAddr - 3 <= a /\ a < MaxAddr + 3
    BY <1>1, <1>2, <1>3
  <2>2. a \in Memory
    BY <2>1, HeapWords
  <2>3. a \notin lo .. hi - 1
    BY <1>1, <1>2, <1>3
  <2> QED
    BY <2>2, <2>3 DEF WrittenBetween
<1>4. r[g] = m[g] /\ r[g + 1] = m[g + 1] /\ r[g + 2] = m[g + 2]
  BY <1>1, <1>2, <1>3
<1>5. r[g + n - 2] = m[g + n - 2] /\ r[g + n - 1] = m[g + n - 1]
  <2>1. g + n - 2 \in Int /\ g <= g + n - 2 /\ g + n - 2 < g + n
    BY <1>1, <1>2
  <2>2. g + n - 1 \in Int /\ g <= g + n - 1 /\ g + n - 1 < g + n
    BY <1>1, <1>2
  <2> QED
    BY <1>3, <2>1, <2>2
<1> QED
  BY <1>4, <1>5 DEF n, KeptTile

\* Tiles that are kept, and one at h that is now a hole of n words.
LEMMA Retiled ==
  ASSUME NEW m \in [Memory -> Int], NEW F, NEW T, NEW e, Tiled(m, F, T, e),
         NEW r, NEW F2, NEW T2, NEW e2, NEW h \in F2, h \notin T2,
         Tiling(F2 \cup T2, SizesIn(r), e2),
         r[h] = HEAP_MAGIC, r[h + 1] # 0,
         F2 \ {h} \subseteq F, T2 \subseteq T,
         \A g \in F2 \cup T2 : g # h => KeptTile(m, r, g)
  PROVE  Tiled(r, F2, T2, e2)
<1>1. F2 \cap T2 = {}
  BY DEF Tiled
<1>2. ASSUME NEW g \in F2 \cup T2
      PROVE  r[g] = HEAP_MAGIC /\ (r[g + 1] # 0 <=> g \in F2)
  <2>1. CASE g = h
    BY <2>1
  <2>2. CASE g # h
    <3>1. g \in F \cup T /\ (g \in F2 <=> g \in F)
      BY <1>1, <2>2 DEF Tiled
    <3>2. m[g] = HEAP_MAGIC /\ (m[g + 1] # 0 <=> g \in F)
      BY <3>1 DEF Tiled
    <3>3. r[g] = m[g] /\ r[g + 1] = m[g + 1]
      BY <2>2 DEF KeptTile
    <3> QED
      BY <3>1, <3>2, <3>3
  <2> QED
    BY <2>1, <2>2
<1>3. ASSUME NEW g \in T2
      PROVE  r[g + r[g + 2] - 2] = HEAP_MAGIC /\ r[g + r[g + 2] - 1] = g
  <2>1. KeptTile(m, r, g)
    OBVIOUS
  <2>2. m[g + m[g + 2] - 2] = HEAP_MAGIC /\ m[g + m[g + 2] - 1] = g
    BY DEF Tiled
  <2> QED
    BY <2>1, <2>2 DEF KeptTile
<1> QED
  BY <1>1, <1>2, <1>3 DEF Tiled

\* free: the block at h becomes a hole, to which the hole behind it is added if
\* there is one, k words together; if it ends the heap the heap may be cut, to n
\* words of it.
FreedHeap(m, F, T, e, h, k, n, e2, r, F2, T2) ==
  /\ m \in [Memory -> Int] /\ F \in SUBSET Int /\ T \in SUBSET Int
  /\ e \in Int /\ e <= MaxAddr /\ Tiled(m, F, T, e)
  /\ h \in T /\ k \in Int /\ n \in Int /\ 5 <= n /\ n <= k
  /\ k = IF h + m[h + 2] \in F THEN m[h + 2] + m[h + m[h + 2] + 2] ELSE m[h + 2]
  /\ IF h + k = e THEN e2 = h + n ELSE e2 = e /\ n = k
  /\ r \in [Memory -> Int] /\ WrittenBetween(m, r, h, h + k)
  /\ r[h] = HEAP_MAGIC /\ r[h + 1] # 0 /\ r[h + 2] = n
  /\ F2 = (F \ {h + m[h + 2]}) \cup {h}
  /\ T2 = T \ {h}

LEMMA Freed ==
  ASSUME NEW m, NEW F, NEW T, NEW e, NEW h, NEW k, NEW n, NEW e2, NEW r,
         NEW F2, NEW T2, FreedHeap(m, F, T, e, h, k, n, e2, r, F2, T2)
  PROVE  Tiled(r, F2, T2, e2) /\ \A g \in T2 : r[g + 2] = m[g + 2]
<1>a. /\ m \in [Memory -> Int] /\ F \in SUBSET Int /\ T \in SUBSET Int
      /\ e \in Int /\ e <= MaxAddr /\ Tiled(m, F, T, e)
      /\ h \in T /\ k \in Int /\ n \in Int /\ 5 <= n /\ n <= k
      /\ IF h + k = e THEN e2 = h + n ELSE e2 = e /\ n = k
      /\ r \in [Memory -> Int] /\ WrittenBetween(m, r, h, h + k)
      /\ r[h] = HEAP_MAGIC /\ r[h + 1] # 0 /\ r[h + 2] = n
      /\ T2 = T \ {h}
  BY DEF FreedHeap
<1> USE <1>a
<1> DEFINE q == h + m[h + 2]
           M == q \in F
           s == SizesIn(m)
           t == SizesIn(r)
           H == F \cup T
           H2 == F2 \cup T2
<1>b. /\ M => q \in F /\ k = m[h + 2] + m[q + 2]
      /\ ~ M => k = m[h + 2]
      /\ F2 = (IF M THEN F \ {q} ELSE F) \cup {h}
  BY DEF FreedHeap
<1>1. H \in SUBSET Int /\ h \in H /\ s \in [Int -> Int] /\ t \in [Int -> Int]
      /\ Tiling(H, s, e)
  BY SizesType DEF Tiled
<1>2. \A g \in H : /\ s[g] = m[g + 2] /\ m[g + 2] \in Int
                    /\ StartAddr <= g /\ m[g + 2] >= 5 /\ g + m[g + 2] <= e
  BY TileFacts
<1>3. \A f, g \in H : f < g => f + m[f + 2] <= g
  BY TileFacts
<1>4. h \in Int /\ StartAddr \in Int /\ MaxAddr \in Int /\ F \cap T = {}
  BY ConstantTypes DEF Tiled
<1> HIDE DEF q, M, s, t, H, H2
<1>5. q = h + m[h + 2] /\ q = h + s[h] /\ q \in Int /\ h < q
  BY <1>1, <1>2, <1>4 DEF q
<1>6. h + k <= e /\ h + n <= e
  BY <1>1, <1>2, <1>4, <1>5, <1>b DEF H
<1>7. H2 = IF M THEN H \ {q} ELSE H
  <2>1. h \notin F
    BY <1>4
  <2> QED
    BY <1>4, <1>5, <1>b DEF H, H2
<1>8. \A g \in H2 : g # h => KeptTile(m, r, g)
  <2>1. SUFFICES ASSUME NEW g \in H2, g # h PROVE KeptTile(m, r, g)
    OBVIOUS
  <2>2. g \in H /\ g \in Int /\ (M => g # q)
    BY <1>1, <1>7
  <2>3. g + m[g + 2] <= h \/ h + k <= g
    <3>1. CASE g < h
      BY <1>1, <1>3, <2>2, <3>1
    <3>2. CASE h < g
      <4>1. q <= g
        BY <1>1, <1>3, <1>5, <2>2, <3>2
      <4>2. CASE ~ M
        BY <1>2, <1>1, <1>4, <1>5, <1>b, <4>1, <4>2
      <4>3. CASE M
        <5>1. q < g /\ q \in H
          BY <1>5, <1>b, <2>2, <4>1, <4>3 DEF H
        <5>2. q + m[q + 2] <= g
          BY <1>3, <2>2, <5>1
        <5> QED
          BY <1>1, <1>2, <1>4, <1>5, <1>b, <4>3, <5>1, <5>2
      <4> QED
        BY <4>2, <4>3
    <3> QED
      BY <1>4, <2>1, <2>2, <3>1, <3>2
  <2>4. h + k \in Int /\ g \in F \cup T
    BY <1>4, <2>2 DEF H
  <2> QED
    BY <1>4, <2>3, <2>4, Apart
<1>9. ASSUME NEW g \in Int, StartAddr <= g, g + 5 <= e PROVE t[g] = r[g + 2]
  <2>1. g + 2 \in Int /\ StartAddr - 3 <= g + 2 /\ g + 2 < MaxAddr + 3
    BY <1>4, <1>9
  <2>2. g + 2 \in Memory
    BY <2>1, HeapWords
  <2> QED
    BY <2>2 DEF t, SizesIn
<1>10. t[h] = n
  BY <1>1, <1>2, <1>4, <1>6, <1>9
<1>11. \A g \in H2 : g # h => t[g] = s[g]
  <2>1. SUFFICES ASSUME NEW g \in H2, g # h PROVE t[g] = s[g]
    OBVIOUS
  <2>2. g \in H /\ g \in Int
    BY <1>1, <1>7
  <2>3. StartAddr <= g /\ g + 5 <= e
    BY <1>2, <1>4, <2>2
  <2>4. t[g] = r[g + 2]
    BY <1>9, <2>2, <2>3
  <2>5. r[g + 2] = m[g + 2]
    BY <1>8, <2>1 DEF KeptTile
  <2> QED
    BY <1>2, <2>2, <2>4, <2>5
<1> DEFINE u == [g \in Int |-> IF g = h THEN k ELSE s[g]]
<1>12. u \in [Int -> Int] /\ u[h] = k /\ \A g \in Int : g # h => u[g] = s[g]
  BY <1>1, <1>4
<1> HIDE DEF u
<1>13. Tiling(H2, u, e)
  <2>1. CASE M
    <3>1. h + s[h] \in H /\ u[h] = s[h] + s[h + s[h]]
      BY <1>1, <1>2, <1>5, <1>12, <1>b, <2>1 DEF H
    <3>2. \A g \in H : g # h => u[g] = s[g]
      BY <1>1, <1>12
    <3>3. Tiling(H \ {h + s[h]}, u, e)
      <4>1. Merge(H, s, u, e, h)
        BY <1>1, <1>12, <3>1, <3>2 DEF Merge, Resized
      <4> QED
        BY <4>1, MergeTiling
    <3> QED
      BY <1>5, <1>7, <2>1, <3>3
  <2>2. CASE ~ M
    <3>1. \A g \in H : u[g] = s[g]
      BY <1>1, <1>2, <1>12, <1>b, <2>2
    <3> QED
      BY <1>1, <1>7, <1>12, <2>2, <3>1, SameTiling
  <2> QED
    BY <2>1, <2>2
<1>14. H2 \in SUBSET Int /\ h \in H2
  <2>1. h \in F2
    BY <1>b
  <2>2. H2 \subseteq H
    BY <1>7
  <2> QED
    BY <1>1, <2>1, <2>2 DEF H2
<1>15. Tiling(H2, t, e2)
  <2>1. \A g \in H2 : g # h => t[g] = u[g]
    BY <1>11, <1>12, <1>14
  <2>2. CASE h + k = e
    <3>1. LastTile(H2, u, t, e, h, n)
      BY <1>1, <1>10, <1>12, <1>13, <1>14, <2>1, <2>2 DEF LastTile, Resized
    <3>2. Tiling(H2, t, h + n)
      BY <3>1, LastTiling
    <3> QED
      BY <2>2, <3>2
  <2>3. CASE h + k # e
    <3>1. e2 = e /\ n = k
      BY <2>3
    <3>2. \A g \in H2 : t[g] = u[g]
      BY <1>10, <1>12, <2>1, <3>1
    <3>3. Tiling(H2, t, e)
      BY <1>1, <1>12, <1>13, <1>14, <3>2, SameTiling
    <3> QED
      BY <3>1, <3>3
  <2> QED
    BY <2>2, <2>3
<1>16. h \in F2 /\ h \notin T2 /\ F2 \ {h} \subseteq F /\ T2 \subseteq T
  BY <1>b
<1>17. Tiling(F2 \cup T2, SizesIn(r), e2) /\ \A g \in F2 \cup T2 : g # h => KeptTile(m, r, g)
  BY <1>8, <1>15 DEF H2, t
<1>18. Tiled(r, F2, T2, e2)
  BY <1>16, <1>17, Retiled, ZenonT(60)
<1> QED
  BY <1>16, <1>17, <1>18 DEF KeptTile

\* make_space: the hole at h, the last of the heap, grows to n words.
GrownHeap(m, F, T, e, h, n, r) ==
  /\ m \in [Memory -> Int] /\ F \in SUBSET Int /\ T \in SUBSET Int
  /\ e \in Int /\ e <= MaxAddr /\ Tiled(m, F, T, e)
  /\ h \in F /\ n \in Int /\ h + m[h + 2] = e /\ e <= h + n /\ h + n <= MaxAddr
  /\ r \in [Memory -> Int] /\ WrittenBetween(m, r, h, h + n)
  /\ r[h] = m[h] /\ r[h + 1] = m[h + 1] /\ r[h + 2] = n

LEMMA Grown ==
  ASSUME NEW m, NEW F, NEW T, NEW e, NEW h, NEW n, NEW r,
         GrownHeap(m, F, T, e, h, n, r)
  PROVE  Tiled(r, F, T, h + n) /\ \A g \in T : r[g + 2] = m[g + 2]
<1>a. /\ m \in [Memory -> Int] /\ F \in SUBSET Int /\ T \in SUBSET Int
      /\ e \in Int /\ e <= MaxAddr /\ Tiled(m, F, T, e)
      /\ h \in F /\ n \in Int /\ h + m[h + 2] = e /\ e <= h + n /\ h + n <= MaxAddr
      /\ r \in [Memory -> Int] /\ WrittenBetween(m, r, h, h + n)
      /\ r[h] = m[h] /\ r[h + 1] = m[h + 1] /\ r[h + 2] = n
  BY DEF GrownHeap
<1> USE <1>a
<1> DEFINE s == SizesIn(m)
           t == SizesIn(r)
           H == F \cup T
<1>1. H \in SUBSET Int /\ h \in H /\ s \in [Int -> Int] /\ t \in [Int -> Int]
      /\ Tiling(H, s, e)
  BY SizesType DEF Tiled
<1>2. \A g \in H : /\ s[g] = m[g + 2] /\ m[g + 2] \in Int
                    /\ StartAddr <= g /\ m[g + 2] >= 5 /\ g + m[g + 2] <= e
  BY TileFacts
<1>3. \A f, g \in H : f < g => f + m[f + 2] <= g
  BY TileFacts
<1>4. h \in Int /\ StartAddr \in Int /\ MaxAddr \in Int /\ F \cap T = {}
  BY ConstantTypes DEF Tiled
<1> HIDE DEF s, t, H
<1>5. \A g \in H : g # h => KeptTile(m, r, g)
  <2>1. SUFFICES ASSUME NEW g \in H, g # h PROVE KeptTile(m, r, g)
    OBVIOUS
  <2>2. g \in Int
    BY <1>1
  <2>3. ~ (h < g)
    BY <1>1, <1>2, <1>3, <1>4, <2>2
  <2>4. g + m[g + 2] <= h
    BY <1>1, <1>3, <1>4, <2>1, <2>2, <2>3
  <2>5. h + n \in Int /\ g \in F \cup T
    BY <1>4 DEF H
  <2> QED
    BY <1>4, <2>4, <2>5, Apart
<1>6. ASSUME NEW g \in H PROVE t[g] = r[g + 2]
  <2>0. g \in Int
    BY <1>1
  <2>1. g + 2 \in Int /\ StartAddr - 3 <= g + 2 /\ g + 2 < MaxAddr + 3
    BY <1>2, <1>4, <2>0
  <2>2. g + 2 \in Memory
    BY <2>1, HeapWords
  <2> QED
    BY <2>0, <2>2 DEF t, SizesIn
<1>7. t[h] = n /\ n >= 5
  BY <1>1, <1>2, <1>4, <1>6
<1>8. \A g \in H : g # h => t[g] = s[g]
  BY <1>2, <1>5, <1>6 DEF KeptTile
<1>9. LastTile(H, s, t, e, h, n)
  BY <1>1, <1>2, <1>7, <1>8 DEF LastTile, Resized
<1>10. Tiling(F \cup T, SizesIn(r), h + n)
  BY <1>9, LastTiling DEF H, t
<1>11. /\ h \notin T /\ r[h] = HEAP_MAGIC /\ r[h + 1] # 0 /\ F \ {h} \subseteq F
       /\ T \subseteq T /\ \A g \in F \cup T : g # h => KeptTile(m, r, g)
  BY <1>4, <1>5 DEF H, Tiled
<1>12. Tiled(r, F, T, h + n)
  BY <1>10, <1>11, Retiled, ZenonT(60)
<1> QED
  BY <1>11, <1>12 DEF KeptTile

\* make_space: a hole of n words is added at the end.
AppendedHeap(m, F, T, e, n, r) ==
  /\ m \in [Memory -> Int] /\ F \in SUBSET Int /\ T \in SUBSET Int
  /\ e \in Int /\ e <= MaxAddr /\ Tiled(m, F, T, e)
  /\ n \in Int /\ n >= 5 /\ e + n <= MaxAddr
  /\ r \in [Memory -> Int] /\ WrittenBetween(m, r, e, e + n)
  /\ r[e] = HEAP_MAGIC /\ r[e + 1] # 0 /\ r[e + 2] = n

HoleAdded(m, F, T, e, n, r) ==
  /\ e \notin F \cup T /\ Tiled(r, F \cup {e}, T, e + n)
  /\ \A g \in T : r[g + 2] = m[g + 2]

LEMMA Appended ==
  ASSUME NEW m, NEW F, NEW T, NEW e, NEW n, NEW r, AppendedHeap(m, F, T, e, n, r)
  PROVE  HoleAdded(m, F, T, e, n, r)
<1>a. /\ m \in [Memory -> Int] /\ F \in SUBSET Int /\ T \in SUBSET Int
      /\ e \in Int /\ e <= MaxAddr /\ Tiled(m, F, T, e)
      /\ n \in Int /\ n >= 5 /\ e + n <= MaxAddr
      /\ r \in [Memory -> Int] /\ WrittenBetween(m, r, e, e + n)
      /\ r[e] = HEAP_MAGIC /\ r[e + 1] # 0 /\ r[e + 2] = n
  BY DEF AppendedHeap
<1> USE <1>a
<1> DEFINE s == SizesIn(m)
           t == SizesIn(r)
           H == F \cup T
<1>1. H \in SUBSET Int /\ s \in [Int -> Int] /\ t \in [Int -> Int] /\ Tiling(H, s, e)
  BY SizesType DEF Tiled
<1>2. \A g \in H : /\ s[g] = m[g + 2] /\ m[g + 2] \in Int
                    /\ StartAddr <= g /\ m[g + 2] >= 5 /\ g + m[g + 2] <= e
  BY TileFacts
<1>4. StartAddr \in Int /\ MaxAddr \in Int /\ F \cap T = {} /\ StartAddr \in H
  BY ConstantTypes DEF Tiled, Tiling
<1> HIDE DEF s, t, H
<1>5. \A g \in H : KeptTile(m, r, g)
  <2>1. SUFFICES ASSUME NEW g \in H PROVE KeptTile(m, r, g)
    OBVIOUS
  <2>2. g + m[g + 2] <= e
    BY <1>2
  <2>3. e + n \in Int /\ g \in F \cup T
    BY DEF H
  <2> QED
    BY <2>2, <2>3, Apart
<1>6. ASSUME NEW g \in Int, StartAddr <= g, g + 5 <= MaxAddr PROVE t[g] = r[g + 2]
  <2>1. g + 2 \in Int /\ StartAddr - 3 <= g + 2 /\ g + 2 < MaxAddr + 3
    BY <1>4, <1>6
  <2>2. g + 2 \in Memory
    BY <2>1, HeapWords
  <2> QED
    BY <2>2 DEF t, SizesIn
<1>7. StartAddr <= e
  BY <1>1, <1>2, <1>4
<1>8. t[e] = n
  BY <1>4, <1>6, <1>7
<1>9. \A g \in H : t[g] = s[g]
  <2>1. SUFFICES ASSUME NEW g \in H PROVE t[g] = s[g]
    OBVIOUS
  <2>2. g \in Int /\ StartAddr <= g /\ g + 5 <= MaxAddr
    BY <1>1, <1>2, <1>4
  <2>3. t[g] = r[g + 2]
    BY <1>6, <2>2
  <2> QED
    BY <1>2, <1>5, <2>3 DEF KeptTile
<1>10. e \notin H /\ Tiling(H \cup {e}, t, e + n)
  <2>1. Appending(H, s, t, e, n)
    BY <1>1, <1>8, <1>9 DEF Appending
  <2> QED
    BY <2>1, AppendTiling
<1> DEFINE F2 == F \cup {e}
<1>11. Tiling(F2 \cup T, SizesIn(r), e + n)
  <2>1. F2 \cup T = H \cup {e}
    BY DEF H
  <2> QED
    BY <1>10, <2>1 DEF t
<1>12. /\ e \in F2 /\ e \notin T /\ F2 \ {e} \subseteq F /\ T \subseteq T
       /\ \A g \in F2 \cup T : g # e => KeptTile(m, r, g)
  BY <1>5, <1>10 DEF H
<1> HIDE DEF F2
<1>13. Tiled(r, F2, T, e + n)
  BY <1>11, <1>12, Retiled
<1> QED
  BY <1>5, <1>10, <1>13 DEF KeptTile, H, F2, HoleAdded

-----------------------------------------------------------------------------
(***************************************************************************)
(* What alloc writes.                                                      *)
(***************************************************************************)

\* A block, or a hole, of n words at h is written with its header and footer.
Written(m, h, n, v) == MakeFooter(HeaderAt(m, h, n, v), h + n - 2, h)

InHeap(h, n) == h \in Int /\ n \in Int /\ StartAddr <= h /\ n >= 5 /\ h + n <= MaxAddr

LEMMA InHeapWords ==
  ASSUME NEW h, NEW n, InHeap(h, n)
  PROVE  /\ n \in 0 .. W - 1
         /\ h \in Memory /\ h + 1 \in Memory /\ h + 2 \in Memory
         /\ h + n - 2 \in Memory /\ h + n - 1 \in Memory
<1> USE ConstantTypes DEF InHeap
<1>1. h \in Memory /\ h + 1 \in Memory /\ h + 2 \in Memory
  BY HeapWords
<1>2. h + n - 2 \in Memory /\ h + n - 1 \in Memory
  BY HeapWords
<1> QED
  BY <1>1, <1>2

LEMMA WrittenFacts ==
  ASSUME NEW m \in [Memory -> Int], NEW h, NEW n, InHeap(h, n), NEW v \in Int
  PROVE  LET r == Written(m, h, n, v)
         IN  /\ r \in [Memory -> Int] /\ WrittenBetween(m, r, h, h + n)
             /\ r[h] = HEAP_MAGIC /\ r[h + 1] = v /\ r[h + 2] = n
             /\ r[h + n - 2] = HEAP_MAGIC /\ r[h + n - 1] = h
<1> DEFINE k == HeaderAt(m, h, n, v)
           r == MakeFooter(k, h + n - 2, h)
<1>1. /\ n \in 0 .. W - 1 /\ h \in Int /\ n \in Int /\ n >= 5
      /\ h \in Memory /\ h + 1 \in Memory /\ h + 2 \in Memory
      /\ h + n - 2 \in Memory /\ h + n - 1 \in Memory
  BY InHeapWords DEF InHeap
<1>2. /\ k \in [Memory -> Int]
      /\ k[h] = HEAP_MAGIC /\ k[h + 1] = v /\ k[h + 2] = n
      /\ \A a \in Memory : a \notin h .. h + 2 => k[a] = m[a]
  BY <1>1, HeaderFacts
<1> HIDE DEF k
<1> DEFINE f == h + n - 2
<1>3. f \in Int /\ f \in Memory /\ f + 1 \in Memory /\ f + 1 = h + n - 1 /\ h + 2 < f
  BY <1>1
<1> HIDE DEF f
<1> DEFINE g == MakeFooter(k, f, h)
<1>4. /\ g \in [Memory -> Int]
      /\ g[f] = HEAP_MAGIC /\ g[f + 1] = h
      /\ \A a \in Memory : a \notin f .. f + 1 => g[a] = k[a]
  BY <1>1, <1>2, <1>3, FooterFacts
<1>5. r = g
  BY DEF f
<1> HIDE DEF r, g
<1>6. g[h] = k[h] /\ g[h + 1] = k[h + 1] /\ g[h + 2] = k[h + 2]
  BY <1>1, <1>3, <1>4
<1>7. WrittenBetween(m, g, h, h + n)
  <2>1. SUFFICES ASSUME NEW a \in Memory, a \notin h .. h + n - 1 PROVE g[a] = m[a]
    BY <1>1 DEF WrittenBetween
  <2>2. a \in Int
    BY ConstantTypes DEF Memory, HEADER
  <2>3. a \notin h .. h + 2 /\ a \notin f .. f + 1
    BY <1>1, <1>3, <2>1, <2>2
  <2> QED
    BY <1>2, <1>4, <2>3
<1>8. /\ g \in [Memory -> Int] /\ WrittenBetween(m, g, h, h + n)
      /\ g[h] = HEAP_MAGIC /\ g[h + 1] = v /\ g[h + 2] = n
      /\ g[h + n - 2] = HEAP_MAGIC /\ g[h + n - 1] = h
  BY <1>2, <1>3, <1>4, <1>6, <1>7 DEF f
<1> QED
  BY <1>5, <1>8 DEF r, k, Written

\* The hole behind the block: its footer is missing if it ends the heap.
Rested(m, h, n, e) ==
  IF h + n < e THEN Written(m, h, n, 1) ELSE HeaderAt(m, h, n, 1)

LEMMA RestedFacts ==
  ASSUME NEW m \in [Memory -> Int], NEW h, NEW n, InHeap(h, n), NEW e
  PROVE  LET r == Rested(m, h, n, e)
         IN  /\ r \in [Memory -> Int] /\ WrittenBetween(m, r, h, h + n)
             /\ r[h] = HEAP_MAGIC /\ r[h + 1] # 0 /\ r[h + 2] = n
<1>1. CASE h + n < e
  <2>1. Rested(m, h, n, e) = Written(m, h, n, 1)
    BY <1>1 DEF Rested
  <2> QED
    BY <2>1, WrittenFacts
<1>2. CASE ~ (h + n < e)
  <2> DEFINE r == HeaderAt(m, h, n, 1)
  <2>1. Rested(m, h, n, e) = r
    BY <1>2 DEF Rested
  <2>2. n \in 0 .. W - 1 /\ h \in Memory /\ h + 1 \in Memory /\ h + 2 \in Memory
        /\ h \in Int /\ n >= 5
    BY InHeapWords DEF InHeap
  <2>3. /\ r \in [Memory -> Int]
        /\ r[h] = HEAP_MAGIC /\ r[h + 1] # 0 /\ r[h + 2] = n
        /\ \A a \in Memory : a \notin h .. h + 2 => r[a] = m[a]
    BY <2>2, HeaderFacts DEF InHeap
  <2> HIDE DEF r
  <2>4. WrittenBetween(m, r, h, h + n)
    BY <2>2, <2>3, ConstantTypes DEF WrittenBetween, Memory, HEADER
  <2> QED
    BY <2>1, <2>3, <2>4
<1> QED
  BY <1>1, <1>2

\* The memory after alloc: the gap, the block and the rest of the hole at h.
AllocMemory(m, h, G, B, R, e) ==
  LET m1 == IF G # 0 THEN Written(m, h, G, 1) ELSE m
      m2 == Written(m1, h + G, B, 0)
  IN  IF R # 0 THEN Rested(m2, h + G + B, R, e) ELSE m2

Allocation(m, h, G, B, R, n) ==
  /\ m \in [Memory -> Int] /\ h \in Int /\ G \in Int /\ B \in Int /\ R \in Int
  /\ n \in Int /\ Parts(n, G, B, R) /\ StartAddr <= h /\ h + n <= MaxAddr

AllocWritten(m, h, G, B, R, n, r) ==
  /\ r \in [Memory -> Int] /\ WrittenBetween(m, r, h, h + n)
  /\ r[h + G] = HEAP_MAGIC /\ r[h + G + 1] = 0 /\ r[h + G + 2] = B
  /\ r[h + G + B - 2] = HEAP_MAGIC /\ r[h + G + B - 1] = h + G
  /\ G # 0 => r[h] = HEAP_MAGIC /\ r[h + 1] # 0 /\ r[h + 2] = G
  /\ R # 0 => /\ r[h + G + B] = HEAP_MAGIC /\ r[h + G + B + 1] # 0
              /\ r[h + G + B + 2] = R

LEMMA AllocWrites ==
  ASSUME NEW m, NEW h, NEW G, NEW B, NEW R, NEW n, NEW e, Allocation(m, h, G, B, R, n)
  PROVE  AllocWritten(m, h, G, B, R, n, AllocMemory(m, h, G, B, R, e))
<1>a. /\ m \in [Memory -> Int] /\ h \in Int /\ G \in Int /\ B \in Int /\ R \in Int
      /\ n \in Int /\ Parts(n, G, B, R) /\ StartAddr <= h /\ h + n <= MaxAddr
  BY DEF Allocation
<1> USE <1>a DEF AllocWritten
<1> DEFINE P == h + G
           Q == h + G + B
           m1 == IF G # 0 THEN Written(m, h, G, 1) ELSE m
           m2 == Written(m1, P, B, 0)
           r == IF R # 0 THEN Rested(m2, Q, R, e) ELSE m2
<1>0. /\ P \in Int /\ Q \in Int /\ P = h + G /\ Q = P + B /\ Q + R = h + n
      /\ G >= 0 /\ (G = 0 \/ G >= 5) /\ B >= 5 /\ R >= 0 /\ (R = 0 \/ R >= 5)
      /\ StartAddr \in Int /\ MaxAddr \in Int /\ Memory \subseteq Int
  BY ConstantTypes DEF Parts, Memory, HEADER
<1>1. AllocMemory(m, h, G, B, R, e) = r
  BY DEF AllocMemory
<1> HIDE DEF P, Q
<1>2. (G # 0 => InHeap(h, G)) /\ InHeap(P, B) /\ (R # 0 => InHeap(Q, R))
  BY <1>0 DEF InHeap
<1>3. /\ m1 \in [Memory -> Int] /\ WrittenBetween(m, m1, h, P)
      /\ G # 0 => m1[h] = HEAP_MAGIC /\ m1[h + 1] # 0 /\ m1[h + 2] = G
  <2>1. CASE G = 0
    BY <2>1 DEF WrittenBetween
  <2>2. CASE G # 0
    BY <1>0, <1>2, <2>2, WrittenFacts DEF P
  <2> QED
    BY <2>1, <2>2
<1> HIDE DEF m1
<1>4. /\ m2 \in [Memory -> Int] /\ WrittenBetween(m1, m2, P, Q)
      /\ m2[P] = HEAP_MAGIC /\ m2[P + 1] = 0 /\ m2[P + 2] = B
      /\ m2[P + B - 2] = HEAP_MAGIC /\ m2[P + B - 1] = P
  <2>1. /\ m2 \in [Memory -> Int] /\ WrittenBetween(m1, m2, P, P + B)
        /\ m2[P] = HEAP_MAGIC /\ m2[P + 1] = 0 /\ m2[P + 2] = B
        /\ m2[P + B - 2] = HEAP_MAGIC /\ m2[P + B - 1] = P
    <3>1. m1 \in [Memory -> Int] /\ InHeap(P, B) /\ 0 \in Int
      BY <1>2, <1>3
    <3> QED
      BY ONLY <3>1, WrittenFacts
  <2> QED
    BY <1>0, <2>1
<1> HIDE DEF m2
<1>5. /\ r \in [Memory -> Int] /\ WrittenBetween(m2, r, Q, Q + R)
      /\ R # 0 => r[Q] = HEAP_MAGIC /\ r[Q + 1] # 0 /\ r[Q + 2] = R
  <2>1. CASE R = 0
    BY <1>4, <2>1 DEF WrittenBetween
  <2>2. CASE R # 0
    BY <1>0, <1>2, <1>4, <2>2, RestedFacts
  <2> QED
    BY <2>1, <2>2
<1> HIDE DEF r
<1>6. ASSUME NEW a \in Memory, a < Q PROVE r[a] = m2[a]
  BY <1>0, <1>5, <1>6 DEF WrittenBetween
<1>7. ASSUME NEW a \in Memory, a < P PROVE m2[a] = m1[a]
  BY <1>0, <1>4, <1>7 DEF WrittenBetween
<1>8. /\ P \in Memory /\ P + 1 \in Memory /\ P + 2 \in Memory
      /\ P + B - 2 \in Memory /\ P + B - 1 \in Memory
  BY <1>2, InHeapWords
<1>9. /\ r[P] = HEAP_MAGIC /\ r[P + 1] = 0 /\ r[P + 2] = B
      /\ r[P + B - 2] = HEAP_MAGIC /\ r[P + B - 1] = P
  <2>1. r[P] = m2[P] /\ r[P + 1] = m2[P + 1] /\ r[P + 2] = m2[P + 2]
    BY <1>0, <1>6, <1>8
  <2>2. r[P + B - 2] = m2[P + B - 2]
    BY <1>0, <1>6, <1>8
  <2>3. r[P + B - 1] = m2[P + B - 1]
    BY <1>0, <1>6, <1>8
  <2> QED
    BY <1>4, <2>1, <2>2, <2>3
<1>10. ASSUME G # 0 PROVE r[h] = HEAP_MAGIC /\ r[h + 1] # 0 /\ r[h + 2] = G
  <2>1. h \in Memory /\ h + 1 \in Memory /\ h + 2 \in Memory /\ h + 2 < P
    BY <1>0, <1>2, <1>10, InHeapWords
  <2>2. r[h] = m2[h] /\ r[h + 1] = m2[h + 1] /\ r[h + 2] = m2[h + 2]
    BY <1>0, <1>6, <2>1
  <2>3. m2[h] = m1[h] /\ m2[h + 1] = m1[h + 1] /\ m2[h + 2] = m1[h + 2]
    BY <1>0, <1>7, <2>1
  <2> QED
    BY <1>3, <1>10, <2>2, <2>3
<1>11. WrittenBetween(m, r, h, h + n)
  <2>1. SUFFICES ASSUME NEW a \in Memory, a \notin h .. h + n - 1 PROVE r[a] = m[a]
    BY <1>0 DEF WrittenBetween
  <2>2. a \notin h .. P - 1 /\ a \notin P .. Q - 1 /\ a \notin Q .. Q + R - 1
    BY <1>0, <2>1
  <2>3. r[a] = m2[a]
    BY <1>0, <1>5, <2>2 DEF WrittenBetween
  <2>4. m2[a] = m1[a]
    BY <1>0, <1>4, <2>2 DEF WrittenBetween
  <2>5. m1[a] = m[a]
    BY <1>0, <1>3, <2>2 DEF WrittenBetween
  <2> QED
    BY <2>3, <2>4, <2>5
<1> QED
  BY <1>0, <1>1, <1>5, <1>9, <1>10, <1>11 DEF P, Q

-----------------------------------------------------------------------------
(***************************************************************************)
(* The invariant.                                                          *)
(***************************************************************************)

TypeInv ==
  /\ mem \in [Memory -> Int] /\ index \in Seq(Int)
  /\ end_addr \in Int /\ top \in Int
  /\ live \in SUBSET [ptr : Int, size : Nat, written : BOOLEAN]
  /\ request \in [size : Nat, align : BOOLEAN]

\* The heap is a whole number of pages and it is tiled; what free reads, the
\* footers of the blocks in use, is there.
ShapeInv ==
  /\ StartAddr + MinLength <= end_addr /\ end_addr <= top /\ top <= MaxAddr
  /\ (end_addr - StartAddr) % PageWords = 0
  /\ Tiled(mem, Holes, Taken, end_addr)
  /\ Unique(index)

\* What a caller may write ends in front of its block's footer.
LiveInv ==
  /\ \A b \in live : b.size + 5 <= mem[b.ptr - 1]
  /\ \A b, c \in live : b.ptr = c.ptr => b = c

\* The call in progress is within the limits, also after make_space.
RequestInv ==
  request # NoRequest =>
    /\ request.size \in Sizes
    /\ IF Fitting(TotalSize(request.size), request.align) = {}
       THEN GrowthSuits(request.size, request.align)
       ELSE HoleSuits(request.size, request.align)

HeapInv == TypeInv /\ ShapeInv /\ LiveInv /\ RequestInv /\ status = "run"

\* What the steps use of it.
LEMMA InvFacts ==
  ASSUME HeapInv
  PROVE  /\ mem \in [Memory -> Int] /\ index \in Seq(Int)
         /\ Holes \in SUBSET Int /\ Taken \in SUBSET Int
         /\ end_addr \in Int /\ end_addr <= MaxAddr /\ end_addr <= top /\ top \in Int
         /\ Tiled(mem, Holes, Taken, end_addr)
         /\ \A b \in live : /\ b.ptr \in Int /\ b.size \in Nat /\ b.ptr - 3 \in Taken
                            /\ b = [ptr |-> b.ptr, size |-> b.size, written |-> b.written]
<1> USE DEF HeapInv, TypeInv, ShapeInv
<1>1. Holes \in SUBSET Int
  BY DEF Holes, Range
<1>2. \A b \in live : /\ b.ptr \in Int /\ b.size \in Nat
                      /\ b = [ptr |-> b.ptr, size |-> b.size, written |-> b.written]
  OBVIOUS
<1>3. Taken \in SUBSET Int /\ \A b \in live : b.ptr - 3 \in Taken
  BY <1>2 DEF Taken, HEADER
<1>4. top \in Int /\ end_addr \in Int /\ end_addr <= MaxAddr
  BY ConstantTypes
<1> QED
  BY <1>1, <1>2, <1>3, <1>4

LEMMA InvInit ==
  ASSUME Init
  PROVE  HeapInv
<1>1. PICK n \in NullSizes :
        mem = MakeHeader([a \in Memory |-> IF a = NULL + 2 THEN n ELSE 0],
                         StartAddr, EndInit - StartAddr, TRUE)
  BY DEF Init
<1>0. /\ index = <<StartAddr>> /\ end_addr = EndInit /\ top = EndInit /\ live = {}
      /\ request = NoRequest /\ status = "run"
  BY DEF Init
<1> DEFINE z == [a \in Memory |-> IF a = NULL + 2 THEN n ELSE 0]
           k == EndInit - StartAddr
<1>2. z \in [Memory -> Int]
  BY HeapAssumption DEF Word
<1>3. (EndInit - StartAddr) % PageWords = 0 /\ EndInit - StartAddr >= 6
  <2>1. InitPages \in Nat /\ InitPages > 0 /\ PageWords \in Nat /\ PageWords >= 6
    BY HeapAssumption, PageFacts
  <2>2. InitPages * PageWords >= 6
    BY <2>1
  <2>3. EndInit - StartAddr = PageWords * InitPages + 0
    BY <2>1, ConstantTypes DEF EndInit
  <2>4. 0 \in 0 .. PageWords - 1 /\ InitPages \in Int
    BY <2>1
  <2>5. (PageWords * InitPages + 0) % PageWords = 0
    BY <2>4, ModUnique
  <2> QED
    BY <2>1, <2>2, <2>3, <2>5
<1>4. k \in 0 .. W - 1 /\ k >= 6 /\ StartAddr + k = EndInit /\ StartAddr \in Int
  BY <1>3, ConstantTypes
<1>5. mem = HeaderAt(z, StartAddr, k, 1)
  BY <1>1, <1>4, HeaderValue
<1> HIDE DEF z, k
<1>6. InHeap(StartAddr, k)
  BY <1>4, ConstantTypes DEF InHeap
<1>7. /\ mem \in [Memory -> Int] /\ StartAddr + 2 \in Memory
      /\ mem[StartAddr] = HEAP_MAGIC /\ mem[StartAddr + 1] = 1 /\ mem[StartAddr + 2] = k
  <2>1. StartAddr \in Memory /\ StartAddr + 1 \in Memory /\ StartAddr + 2 \in Memory
    BY <1>6, InHeapWords
  <2>2. k \in Int /\ 1 \in Int
    BY <1>4
  <2> QED
    BY <1>2, <1>4, <1>5, <2>1, <2>2, HeaderFacts
<1>8. TypeInv
  <2>1. index \in Seq(Int)
    BY <1>0, <1>4
  <2>2. request \in [size : Nat, align : BOOLEAN]
    BY <1>0 DEF NoRequest
  <2>3. end_addr \in Int /\ top \in Int
    BY <1>0, ConstantTypes
  <2>4. live \in SUBSET [ptr : Int, size : Nat, written : BOOLEAN]
    BY <1>0
  <2> QED
    BY <1>7, <2>1, <2>2, <2>3, <2>4 DEF TypeInv
<1>9. Holes = {StartAddr} /\ Taken = {}
  <2>1. Range(index) = {StartAddr}
    BY <1>0 DEF Range
  <2> QED
    BY <1>0, <2>1, ConstantTypes DEF Holes, Taken, NULL
<1>10. Tiled(mem, {StartAddr}, {}, EndInit)
  <2>1. SizesIn(mem)[StartAddr] = k
    BY <1>4, <1>7 DEF SizesIn
  <2>2. Tiling({StartAddr}, SizesIn(mem), EndInit)
    <3> DEFINE t == SizesIn(mem)
    <3>1. k \in Int /\ t[StartAddr] = k /\ EndInit \in Int
      BY <1>4, <2>1, ConstantTypes
    <3> HIDE DEF t
    <3>2. Tiling({StartAddr}, t, EndInit)
      BY <1>4, <3>1 DEF Tiling
    <3> QED
      BY <3>2 DEF t
  <2>3. {StartAddr} \cup {} = {StartAddr} /\ {StartAddr} \cap {} = {}
    OBVIOUS
  <2> QED
    BY <1>7, <2>2, <2>3 DEF Tiled
<1>11. Unique(index)
  BY <1>0 DEF Unique
<1>12. ShapeInv
  BY <1>0, <1>3, <1>9, <1>10, <1>11, ConstantTypes DEF ShapeInv
<1> QED
  BY <1>0, <1>8, <1>12 DEF HeapInv, LiveInv, RequestInv

LEMMA KmallocInv ==
  ASSUME Careful, HeapInv, NEW size \in Sizes, NEW align \in Alignments,
         Kmalloc(size, align)
  PROVE  HeapInv'
<1> USE DEF HeapInv, Kmalloc
<1>1. Holes' = Holes /\ Taken' = Taken
  BY DEF Holes, Taken
<1>2. size \in Nat /\ align \in BOOLEAN
  BY HeapAssumption
<1>3. TypeInv'
  BY <1>2 DEF TypeInv
<1>4. ShapeInv' /\ LiveInv'
  BY <1>1 DEF ShapeInv, LiveInv
<1>5. RequestInv'
  <2>1. request'.size = size /\ request'.align = align
    OBVIOUS
  <2>2. Fitting(TotalSize(size), align)' = Fitting(TotalSize(size), align)
    BY DEF Fitting, Fits
  <2>3. GrowthSuits(size, align)' <=> GrowthSuits(size, align)
    BY DEF GrowthSuits, GrownRest, ExpandedLength
  <2>4. HoleSuits(size, align)' <=> HoleSuits(size, align)
    BY <2>2 DEF HoleSuits, SmallestHole
  <2>5. IF Fitting(TotalSize(size), align) = {}
        THEN GrowthSuits(size, align)
        ELSE HoleSuits(size, align)
    BY DEF Careful
  <2>6. IF Fitting(TotalSize(size), align)' = {}
        THEN GrowthSuits(size, align)'
        ELSE HoleSuits(size, align)'
    BY <2>2, <2>3, <2>4, <2>5
  <2> QED
    BY <2>1, <2>6 DEF RequestInv
<1> QED
  BY <1>3, <1>4, <1>5

-----------------------------------------------------------------------------
(***************************************************************************)
(* alloc keeps the invariant.                                              *)
(***************************************************************************)

LEMMA FittingFacts ==
  ASSUME NEW total, NEW align, index \in Seq(Int), Fitting(total, align) # {}
  PROVE  /\ SmallestHole(total, align) \in 1 .. Len(index)
         /\ Fits(index[SmallestHole(total, align)], total, align)
<1>1. Fitting(total, align) \in SUBSET Nat
  BY DEF Fitting
<1>2. SmallestHole(total, align) \in Fitting(total, align)
  BY <1>1, FirstIsLeast DEF SmallestHole
<1> QED
  BY <1>2 DEF Fitting

\* Machine arithmetic that does not wrap.
LEMMA NoWrap ==
  ASSUME NEW a \in Int, NEW b \in Int
  PROVE  /\ a - b \in 0 .. W - 1 => Minus(a, b) = a - b
         /\ a + b \in 0 .. W - 1 => Plus(a, b) = a + b
<1>1. ASSUME NEW c \in 0 .. W - 1 PROVE c % W = c
  BY ConstantTypes
<1> QED
  BY <1>1 DEF Minus, Plus

\* The hole alloc takes, and the gap, the block and the rest it makes of it.
Choice(h, i, G, B, R) ==
  /\ i \in 1 .. Len(index) /\ h = index[i] /\ h \in Holes
  /\ G \in Int /\ B \in Int /\ R \in Int /\ Parts(mem[h + 2], G, B, R)
  /\ request.size + 5 <= B
  /\ request.align => Aligned(h + G + 3)

\* What alloc does with them.
AllocStep(h, i, G, B, R) ==
  /\ mem' = AllocMemory(mem, h, G, B, R, end_addr)
  /\ LET s1 == IF G # 0 THEN index ELSE ArrayRemove(index, i)
     IN  index' = IF R # 0 THEN ArrayInsert(mem', s1, h + G + B) ELSE s1
  /\ live' = live \cup {[ptr |-> h + G + 3, size |-> request.size, written |-> FALSE]}
  /\ request' = NoRequest /\ status' = status /\ end_addr' = end_addr /\ top' = top

LEMMA AllocShape ==
  ASSUME HeapInv, AllocFromHole
  PROVE  \E h, i, G, B, R : Choice(h, i, G, B, R) /\ AllocStep(h, i, G, B, R)
<1> DEFINE i == SmallestHole(TotalSize(request.size), request.align)
           h == index[i]
           size == mem[h + 2]
           want == TotalSize(request.size)
           gap == request.align /\ ~ Aligned(h + HEADER)
           G == IF gap THEN AlignOffset(h) ELSE 0
<1>1. /\ request # NoRequest /\ Fitting(TotalSize(request.size), request.align) # {}
      /\ end_addr' = end_addr /\ top' = top
  BY DEF AllocFromHole
<1>2. /\ request.size \in Nat /\ want = request.size + 5 /\ request.align \in BOOLEAN
      /\ index \in Seq(Int) /\ mem \in [Memory -> Int]
  BY DEF HeapInv, TypeInv, TotalSize, HEADER, FOOTER
<1>3. HoleSuits(request.size, request.align)
  BY <1>1 DEF HeapInv, RequestInv
<1>4. i \in 1 .. Len(index) /\ Fits(h, want, request.align)
  BY <1>1, <1>2, FittingFacts
<1>5. h \in Holes /\ h \in Int
  <2>1. h # NULL
    BY <1>3 DEF HoleSuits
  <2> QED
    BY <1>2, <1>4, <2>1 DEF Holes, Range
<1>6. /\ size \in Int /\ StartAddr <= h /\ size >= 5 /\ h + size <= end_addr
      /\ end_addr \in Int /\ end_addr <= MaxAddr /\ end_addr <= top /\ top \in Int
      /\ StartAddr \in Int /\ StartAddr >= 6 /\ MaxAddr \in Int /\ W \in Int
      /\ MaxAddr + 3 < W
  <2>1. /\ mem \in [Memory -> Int] /\ Holes \in SUBSET Int /\ Taken \in SUBSET Int
        /\ end_addr \in Int /\ end_addr <= MaxAddr /\ end_addr <= top /\ top \in Int
        /\ Tiled(mem, Holes, Taken, end_addr)
    BY InvFacts
  <2>2. size \in Int /\ StartAddr <= h /\ size >= 5 /\ h + size <= end_addr
    BY <1>5, <2>1, TileFacts
  <2> QED
    BY <2>1, <2>2, ConstantTypes
<1> HIDE DEF i, h, size, want, gap, G
<1>7. /\ gap => /\ G = AlignOffset(h) /\ G >= 5 /\ size - G - want >= 5
                /\ (h % PageWords) + 3 <= PageWords
      /\ ~ gap => G = 0
      /\ G \in Int
  <2>1. AlignOffset(h) \in Int
    BY <1>5, AlignedPosFacts
  <2>2. CASE gap
    <3>1. AlignOffset(h) # 0
      <4>1. AlignOffset(h) = PageWords - ((h + HEADER) % PageWords)
        BY <2>2 DEF AlignOffset, gap
      <4>2. (h + HEADER) % PageWords \in 0 .. PageWords - 1
        BY <1>5, ModFacts DEF HEADER
      <4> QED
        BY <4>1, <4>2, PageFacts
    <3> DEFINE o == IF request.align THEN AlignOffset(h) ELSE 0
    <3>2. o # 0 => /\ o >= HEADER + FOOTER
                   /\ SizeOf(mem, h) - o - want >= HEADER + FOOTER
                   /\ (h % PageWords) + HEADER <= PageWords
      BY <1>3 DEF HoleSuits, GapSuits, h, i, want
    <3>3. o = AlignOffset(h) /\ G = AlignOffset(h)
      BY <2>2 DEF gap, G
    <3> HIDE DEF o
    <3>4. SizeOf(mem, h) = size
      BY DEF SizeOf, size
    <3> QED
      BY <2>1, <2>2, <3>1, <3>2, <3>3, <3>4 DEF HEADER, FOOTER
  <2>3. CASE ~ gap
    BY <2>3 DEF G
  <2> QED
    BY <2>1, <2>2, <2>3
<1>8. size >= want /\ size - G >= want
  <2>1. CASE gap
    BY <1>2, <1>6, <1>7, <2>1
  <2>2. CASE ~ gap
    <3>1. CASE request.align
      <4>1. AlignOffset(h) = 0
        BY <2>2, <3>1 DEF AlignOffset, gap
      <4>2. Minus(size, 0) >= want
        BY <1>4, <3>1, <4>1 DEF Fits, SizeOf, size
      <4>3. Minus(size, 0) = size
        BY <1>5, <1>6, NoWrap
      <4> QED
        BY <1>2, <1>6, <1>7, <2>2, <4>2, <4>3
    <3>2. CASE ~ request.align
      BY <1>4, <1>6, <1>7, <2>2, <3>2 DEF Fits, SizeOf, size
    <3> QED
      BY <3>1, <3>2
  <2> QED
    BY <2>1, <2>2
<1> DEFINE total == IF Minus(size, want) < HEADER + FOOTER THEN size ELSE want
           R == size - G - total
<1>9. /\ total \in Int /\ R \in Int /\ Parts(size, G, total, R) /\ want <= total
  <2>0. size - want \in 0 .. W - 1 /\ want \in Int
    BY <1>2, <1>5, <1>6, <1>8
  <2>1. Minus(size, want) = size - want
    BY <1>6, <2>0, NoWrap
  <2>2. total = IF size - want < 5 THEN size ELSE want
    BY <2>1 DEF HEADER, FOOTER
  <2> HIDE DEF total
  <2>3. CASE gap
    <3>1. total = want /\ size - G - want >= 5 /\ G >= 5
      BY <1>6, <1>7, <2>0, <2>2, <2>3
    <3>2. R = size - G - want
      BY <3>1
    <3> HIDE DEF R
    <3>3. R \in Int /\ R >= 5 /\ G + want + R = size
      BY <1>6, <1>7, <2>0, <3>1, <3>2
    <3>4. want >= 5
      BY <1>2
    <3> QED
      BY <2>0, <3>1, <3>3, <3>4 DEF Parts
  <2>4. CASE ~ gap
    <3>1. G = 0 /\ R = size - total
      <4>1. G = 0
        BY <1>7, <2>4
      <4> QED
        BY <1>6, <4>1
    <3>2. total \in Int /\ want <= total /\ (total = size \/ size - total >= 5)
      BY <1>6, <1>8, <2>0, <2>2
    <3> HIDE DEF R
    <3> QED
      BY <1>2, <1>6, <1>8, <2>0, <2>2, <3>1, <3>2, SMTT(30) DEF Parts
  <2> QED
    BY <2>3, <2>4
<1> DEFINE pos  == IF gap THEN AlignedPos(h) ELSE h
<1>10. pos = h + G /\ (request.align => Aligned(h + G + 3))
  <2>1. CASE gap
    <3>1. /\ Aligned(AlignedPos(h) + 3) /\ AlignedPos(h) \in Int
          /\ (h % PageWords) + 3 <= PageWords /\ ~ Aligned(h + 3)
                => AlignedPos(h) = h + AlignOffset(h)
      BY <1>5, AlignedPosFacts
    <3> QED
      BY <1>7, <2>1, <3>1 DEF HEADER, gap
  <2>2. CASE ~ gap
    <3>1. G = 0 /\ h + G = h /\ h + G + 3 = h + 3
      BY <1>5, <1>7, <2>2
    <3> QED
      BY <2>2, <3>1 DEF HEADER, gap
  <2> QED
    BY <2>1, <2>2
<1>11. Choice(h, i, G, total, R)
  BY <1>2, <1>4, <1>5, <1>7, <1>9, <1>10 DEF Choice, h, size
<1> DEFINE m1   == IF gap
                   THEN MakeFooter(MakeHeader(mem, h, Minus(pos, h), TRUE),
                                   pos - FOOTER, h)
                   ELSE mem
           left == IF gap THEN Minus(size, SizeOf(m1, h)) ELSE size
           s1   == IF gap THEN index ELSE ArrayRemove(index, i)
           last == pos + total - FOOTER
           m2   == MakeFooter(MakeHeader(m1, pos, total, FALSE), last, pos)
           split == left > total
           next == pos + total
           foot == Plus(next, left - total) - FOOTER
           m3   == IF split THEN MakeHeader(m2, next, left - total, TRUE) ELSE m2
           m4   == IF split /\ foot + FOOTER < end_addr
                   THEN MakeFooter(m3, foot, next) ELSE m3
           touched == {pos, pos + HEADER - 1, last, last + 1}
                        \cup (IF split THEN {next, next + HEADER - 1} ELSE {})
<1>12. IF \A a \in touched : Mapped(a)
       THEN /\ mem' = m4
            /\ index' = IF split THEN ArrayInsert(m4, s1, next) ELSE s1
            /\ live' = live \cup {[ptr |-> pos + HEADER,
                                   size |-> request.size, written |-> FALSE]}
            /\ request' = NoRequest
            /\ UNCHANGED status
       ELSE /\ status' = "fault"
            /\ UNCHANGED <<mem, index, live, request>>
  BY DEF AllocFromHole, SizeOf, i, h, size, want, gap
<1> HIDE DEF total, R, pos, m1, left, s1, last, m2, split,
             next, foot, m3, m4, touched
<1>13. (gap <=> G # 0) /\ G >= 0 /\ total >= 5 /\ R >= 0 /\ (R = 0 \/ R >= 5)
       /\ G + total + R = size /\ pos \in Int
  BY <1>5, <1>7, <1>9, <1>10 DEF Parts
<1>14. m1 = IF G # 0 THEN Written(mem, h, G, 1) ELSE mem
  <2>1. CASE gap
    <3>1. G \in 0 .. W - 1 /\ pos - h = G
      BY <1>5, <1>6, <1>7, <1>9, <1>10, <1>13
    <3>2. Minus(pos, h) = G
      BY <1>5, <1>13, <3>1, NoWrap
    <3>3. m1 = MakeFooter(MakeHeader(mem, h, G, TRUE), pos - 2, h)
      BY <2>1, <3>2 DEF m1, FOOTER
    <3>4. MakeHeader(mem, h, G, TRUE) = HeaderAt(mem, h, G, 1)
      BY <3>1, HeaderValue
    <3>5. pos - 2 = h + G - 2
      BY <1>5, <1>7, <1>10
    <3> QED
      BY <1>13, <2>1, <3>3, <3>4, <3>5 DEF Written
  <2>2. CASE ~ gap
    BY <1>13, <2>2 DEF m1
  <2> QED
    BY <2>1, <2>2
<1>15. left = size - G
  <2>1. CASE gap
    <3>1. InHeap(h, G) /\ 1 \in Int
      BY <1>5, <1>6, <1>7, <1>9, <1>13, <2>1 DEF InHeap
    <3>2. m1[h + 2] = G
      BY <1>2, <1>13, <1>14, <2>1, <3>1, WrittenFacts
    <3>3. left = Minus(size, G)
      BY <2>1, <3>2 DEF left, SizeOf
    <3>4. size - G \in 0 .. W - 1
      BY <1>5, <1>6, <1>7, <1>9, <1>13
    <3> QED
      BY <1>6, <1>7, <3>3, <3>4, NoWrap
  <2>2. CASE ~ gap
    BY <1>6, <1>7, <2>2 DEF left
  <2> QED
    BY <2>1, <2>2
<1>16. (split <=> R # 0) /\ left - total = R
  BY <1>6, <1>7, <1>9, <1>13, <1>15 DEF split, R
<1>17. total \in 0 .. W - 1 /\ R \in 0 .. W - 1
  BY <1>5, <1>6, <1>7, <1>9, <1>13
<1>18. m2 = Written(m1, h + G, total, 0)
  <2>1. MakeHeader(m1, pos, total, FALSE) = HeaderAt(m1, pos, total, 0)
    BY <1>17, HeaderValue
  <2> QED
    BY <1>10, <2>1 DEF m2, last, Written, FOOTER
<1>19. next = h + G + total /\ next \in Int /\ next + R = h + size
  BY <1>5, <1>6, <1>7, <1>9, <1>10, <1>13 DEF next
<1>20. foot = next + R - 2 /\ (foot + 2 < end_addr <=> next + R < end_addr)
  <2>1. next + R \in 0 .. W - 1
    BY <1>5, <1>6, <1>9, <1>19
  <2>2. Plus(next, R) = next + R
    BY <1>9, <1>19, <2>1, NoWrap
  <2> QED
    BY <1>6, <1>9, <1>16, <1>19, <2>2 DEF foot, FOOTER
<1>21. m4 = AllocMemory(mem, h, G, total, R, end_addr)
  <2>1. AllocMemory(mem, h, G, total, R, end_addr)
          = IF R # 0 THEN Rested(m2, next, R, end_addr) ELSE m2
    BY <1>14, <1>18, <1>19 DEF AllocMemory
  <2>2. m3 = IF R # 0 THEN HeaderAt(m2, next, R, 1) ELSE m2
    BY <1>16, <1>17, HeaderValue DEF m3
  <2>3. m4 = IF R # 0 /\ next + R < end_addr
             THEN MakeFooter(m3, next + R - 2, next) ELSE m3
    BY <1>16, <1>20 DEF m4, FOOTER
  <2> QED
    BY <2>1, <2>2, <2>3 DEF Rested, Written
<1>22. \A a \in touched : Mapped(a)
  <2>1. touched = {pos, pos + 2, pos + total - 2, pos + total - 2 + 1}
                    \cup (IF R # 0 THEN {next, next + 2} ELSE {})
    BY <1>9, <1>13, <1>16, <1>19 DEF touched, last, HEADER, FOOTER
  <2>2. ASSUME NEW a \in touched PROVE a \in Int /\ StartAddr <= a /\ a < end_addr
    BY <1>5, <1>6, <1>7, <1>9, <1>10, <1>13, <1>19, <2>1, <2>2
  <2>3. ASSUME NEW a \in touched PROVE a \in StartAddr - HEADER .. top - 1
    BY <1>6, <2>2, <2>3 DEF HEADER
  <2> QED
    BY <2>3 DEF Mapped
<1>23. AllocStep(h, i, G, total, R)
  <2>1. s1 = IF G # 0 THEN index ELSE ArrayRemove(index, i)
    BY <1>13 DEF s1
  <2>2. index' = IF R # 0 THEN ArrayInsert(mem', s1, h + G + total) ELSE s1
    BY <1>12, <1>16, <1>19, <1>22
  <2>3. live' = live \cup {[ptr |-> h + G + 3, size |-> request.size, written |-> FALSE]}
    BY <1>10, <1>12, <1>22 DEF HEADER
  <2> QED
    BY <1>1, <1>12, <1>21, <1>22, <2>1, <2>2, <2>3 DEF AllocStep
<1> QED
  BY <1>11, <1>23

LEMMA AllocInv ==
  ASSUME HeapInv, AllocFromHole
  PROVE  HeapInv'
<1>1. PICK h, i, G, B, R : Choice(h, i, G, B, R) /\ AllocStep(h, i, G, B, R)
  BY AllocShape
<1>2. /\ i \in 1 .. Len(index) /\ h = index[i] /\ h \in Holes
      /\ G \in Int /\ B \in Int /\ R \in Int /\ Parts(mem[h + 2], G, B, R)
      /\ request.size + 5 <= B
  BY <1>1 DEF Choice
<1> DEFINE P == h + G
           Q == h + G + B
           s1 == IF G # 0 THEN index ELSE ArrayRemove(index, i)
           F2 == (IF G = 0 THEN Holes \ {h} ELSE Holes)
                   \cup (IF R = 0 THEN {} ELSE {h + G + B})
           T2 == Taken \cup {h + G}
           nb == [ptr |-> h + G + 3, size |-> request.size, written |-> FALSE]
<1>3. /\ mem' = AllocMemory(mem, h, G, B, R, end_addr)
      /\ index' = IF R # 0 THEN ArrayInsert(mem', s1, Q) ELSE s1
      /\ live' = live \cup {nb}
      /\ request' = NoRequest /\ status' = status /\ end_addr' = end_addr /\ top' = top
  BY <1>1 DEF AllocStep
<1>4. /\ mem \in [Memory -> Int] /\ index \in Seq(Int)
      /\ Holes \in SUBSET Int /\ Taken \in SUBSET Int
      /\ end_addr \in Int /\ end_addr <= MaxAddr /\ end_addr <= top /\ top \in Int
      /\ Tiled(mem, Holes, Taken, end_addr)
  BY InvFacts
<1>5. /\ mem[h + 2] \in Int /\ StartAddr <= h /\ h + mem[h + 2] <= end_addr /\ h \in Int
      /\ mem[h + 2] >= 5
  BY <1>2, <1>4, TileFacts, SMTT(30)
<1>6. StartAddr \in Int /\ StartAddr >= 6 /\ MaxAddr \in Int
  BY ConstantTypes
<1>7. /\ mem' \in [Memory -> Int] /\ WrittenBetween(mem, mem', h, h + mem[h + 2])
      /\ mem'[h + G] = HEAP_MAGIC /\ mem'[h + G + 1] = 0 /\ mem'[h + G + 2] = B
      /\ mem'[h + G + B - 2] = HEAP_MAGIC /\ mem'[h + G + B - 1] = h + G
      /\ G # 0 => mem'[h] = HEAP_MAGIC /\ mem'[h + 1] # 0 /\ mem'[h + 2] = G
      /\ R # 0 => /\ mem'[h + G + B] = HEAP_MAGIC /\ mem'[h + G + B + 1] # 0
                  /\ mem'[h + G + B + 2] = R
  <2>1. h + mem[h + 2] <= MaxAddr
    BY <1>4, <1>5, <1>6
  <2> DEFINE n == mem[h + 2]
             r == AllocMemory(mem, h, G, B, R, end_addr)
  <2>2. n \in Int /\ Parts(n, G, B, R) /\ h + n <= MaxAddr
    BY <1>2, <1>5, <2>1
  <2> HIDE DEF n
  <2>3. AllocWritten(mem, h, G, B, R, n, r)
    <3>1. Allocation(mem, h, G, B, R, n)
      BY <1>2, <1>4, <1>5, <2>2 DEF Allocation
    <3> QED
      BY <3>1, AllocWrites
  <2>4. mem' = r
    BY <1>3
  <2> HIDE DEF r
  <2> QED
    BY <2>3, <2>4 DEF n, AllocWritten
<1>8. WrittenInside(mem, mem', h)
  BY <1>5, <1>7 DEF WrittenInside, WrittenBetween
<1>9. NewHeads(Holes, Taken, h, G, B, R) /\ Tiled(mem', F2, T2, end_addr)
  <2>1. CarvedHeap(mem, Holes, Taken, end_addr, h, G, B, R, mem', F2, T2)
    BY <1>2, <1>4, <1>7, <1>8 DEF CarvedHeap
  <2> QED
    BY <2>1, Carved
<1>10. /\ P \in Int /\ Q \in Int /\ P # NULL /\ Q # NULL /\ h # NULL
       /\ (G = 0 => P = h) /\ P + 3 = h + G + 3
  <2>1. G >= 0 /\ B >= 5
    BY <1>2 DEF Parts
  <2> QED
    BY <1>2, <1>5, <1>6, <2>1, SMTT(30) DEF NULL
<1>11. P \notin Taken /\ (R # 0 => Q \notin Holes) /\ h \notin Taken
  <2>1. h \notin Taken
    BY <1>2, <1>4 DEF Tiled
  <2> QED
    BY <1>9, <1>10, <2>1 DEF NewHeads
<1>12. /\ s1 \in Seq(Int) /\ Unique(s1)
       /\ Range(s1) \ {NULL} = IF G = 0 THEN Holes \ {h} ELSE Holes
  <2>1. Unique(index)
    BY DEF HeapInv, ShapeInv
  <2>2. CASE G # 0
    BY <1>4, <2>1, <2>2 DEF Holes
  <2>3. CASE G = 0
    <3>1. s1 = ArrayRemove(index, i) /\ index[i] # NULL /\ index[i] = h
      BY <1>2, <1>10, <2>3
    <3> HIDE DEF s1
    <3> QED
      BY <1>2, <1>4, <2>1, <2>3, <3>1, RemoveFacts DEF Holes
  <2> QED
    BY <2>2, <2>3
<1> HIDE DEF s1
<1>13. index' \in Seq(Int) /\ Unique(index)' /\ Holes' = F2
  <2>1. CASE R = 0
    BY <1>3, <1>12, <2>1 DEF Holes
  <2>2. CASE R # 0
    <3>1. Q \notin Range(s1)
      BY <1>10, <1>11, <1>12, <2>2
    <3>2. /\ index' \in Seq(Int) /\ Range(index') = Range(s1) \cup {Q} /\ Unique(index')
      BY <1>3, <1>10, <1>12, <2>2, <3>1, InsertFacts, SMTT(30)
    <3>3. Holes' = Range(index') \ {NULL}
      BY DEF Holes
    <3> QED
      BY <1>10, <1>12, <2>2, <3>2, <3>3
  <2> QED
    BY <2>1, <2>2
<1>14. /\ nb.ptr = P + 3 /\ nb.size = request.size /\ request.size \in Nat
       /\ nb \in [ptr : Int, size : Nat, written : BOOLEAN]
  BY <1>10 DEF HeapInv, TypeInv
<1>15. Taken' = T2
  <2>1. Taken' = {b.ptr - HEADER : b \in live'}
    BY DEF Taken
  <2>2. nb.ptr - HEADER = h + G
    BY <1>10, <1>14 DEF HEADER
  <2> HIDE DEF nb
  <2>3. {b.ptr - HEADER : b \in live \cup {nb}} = Taken \cup {nb.ptr - HEADER}
    BY DEF Taken
  <2> QED
    BY <1>3, <2>1, <2>2, <2>3
<1> HIDE DEF nb, F2, T2
<1>16. TypeInv'
  BY <1>3, <1>4, <1>7, <1>13, <1>14 DEF HeapInv, TypeInv, NoRequest
<1>17. ShapeInv'
  BY <1>3, <1>9, <1>13, <1>15 DEF HeapInv, ShapeInv
<1>18. ASSUME NEW b \in live
       PROVE  /\ mem'[b.ptr - 1] = mem[b.ptr - 1] /\ b.ptr # nb.ptr
  <2>1. b.ptr \in Int /\ b.ptr - 3 \in Taken
    BY InvFacts
  <2>2. b.ptr # nb.ptr
    <3>1. CASE b.ptr = nb.ptr
      <4>1. b.ptr - 3 = P
        BY <1>10, <1>14, <2>1, <3>1
      <4> QED
        BY <1>11, <2>1, <4>1
    <3> QED
      BY <3>1
  <2> DEFINE g == b.ptr - 3
  <2>3. g \in Taken /\ g # h /\ g + 2 = b.ptr - 1
    BY <1>11, <2>1
  <2> HIDE DEF g
  <2>4. mem'[g + 2] = mem[g + 2]
    <3>1. g \in Holes \cup Taken /\ h \in Holes \cup Taken
      BY <1>2, <2>3
    <3> QED
      BY <1>4, <1>8, <2>3, <3>1, OtherTiles
  <2> QED
    BY <2>2, <2>3, <2>4
<1>19. LiveInv'
  <2>1. mem'[nb.ptr - 1] = B /\ nb.size + 5 <= B
    <3>1. nb.ptr - 1 = h + G + 2
      BY <1>10, <1>14
    <3> QED
      BY <1>2, <1>7, <1>14, <3>1
  <2>2. \A b \in live' : b.size + 5 <= mem'[b.ptr - 1]
    BY <1>3, <1>18, <2>1 DEF HeapInv, LiveInv
  <2>3. \A b, c \in live' : b.ptr = c.ptr => b = c
    BY <1>3, <1>18 DEF HeapInv, LiveInv
  <2> QED
    BY <2>2, <2>3 DEF LiveInv
<1>20. RequestInv'
  BY <1>3 DEF RequestInv
<1> QED
  BY <1>3, <1>16, <1>17, <1>19, <1>20 DEF HeapInv

-----------------------------------------------------------------------------
(***************************************************************************)
(* make_space keeps the invariant, and makes space.                        *)
(***************************************************************************)

LEMMA LastHeaderFacts ==
  ASSUME NEW s \in Seq(Int)
  PROVE  LastHeaderIndex(s) \in 0 .. Len(s)
<1> DEFINE S == {j \in 1 .. Len(s) :
                   s[j] # NULL /\ \A k \in 1 .. j - 1 : s[k] < s[j]}
<1>1. Len(s) \in Nat /\ S \subseteq 1 .. Len(s) /\ LastHeaderIndex(s) = Cardinality(S)
  BY DEF LastHeaderIndex
<1> HIDE DEF S
<1>2. IsFiniteSet(1 .. Len(s)) /\ Cardinality(1 .. Len(s)) = Len(s)
  <2> DEFINE n == Len(s)
  <2>1. n \in Nat /\ n \in Int /\ 1 \in Int
    BY <1>1
  <2> HIDE DEF n
  <2>2. IsFiniteSet(1 .. n) /\ Cardinality(1 .. n) = IF 1 > n THEN 0 ELSE n - 1 + 1
    BY <2>1, FS_Interval
  <2>3. Cardinality(1 .. n) = n
    BY <2>1, <2>2
  <2> QED
    BY <2>2, <2>3 DEF n
<1>3. IsFiniteSet(S) /\ Cardinality(S) <= Cardinality(1 .. Len(s))
  BY <1>1, <1>2, FS_Subset
<1>4. Cardinality(S) \in Nat
  BY <1>3, FS_CardinalityType
<1> QED
  BY <1>1, <1>2, <1>3, <1>4

\* With n words at h, the last hole, an aligned block leaves room for the holes in
\* front of it and behind it.
AlignedRoom(h, n) ==
  /\ h \in Holes /\ h + mem[h + 2] = end_addr /\ index' = index
  /\ AlignOffset(h) # 0 =>
       /\ AlignOffset(h) >= 5
       /\ n - AlignOffset(h) - TotalSize(request.size) \notin 0 .. 4
       /\ (h % PageWords) + 3 <= PageWords

\* The heap grows by k words to e2; n words at h, a hole of the index already or
\* else a new one, are the hole at its end.
SpaceStep(h, n, k, e2) ==
  /\ k \in Int /\ k >= TotalSize(request.size)
  /\ e2 \in Int /\ e2 = end_addr + k /\ e2 <= MaxAddr /\ (e2 - StartAddr) % PageWords = 0
  /\ h \in Int /\ n \in Int /\ h + n = e2
  /\ mem' \in [Memory -> Int]
  /\ mem'[h + 2] = n /\ n >= k
  /\ WrittenBetween(mem, mem', h, e2) /\ StartAddr <= h
  /\ \/ /\ h \in Holes /\ h + mem[h + 2] = end_addr /\ index' = index
        /\ mem'[h] = mem[h] /\ mem'[h + 1] = mem[h + 1]
     \/ /\ h = end_addr /\ index' = ArrayInsert(mem', index, h)
        /\ mem'[h] = HEAP_MAGIC /\ mem'[h + 1] = 1
  /\ end_addr' = e2 /\ top' \in Int /\ top' >= e2 /\ top' <= MaxAddr
  /\ live' = live /\ request' = request /\ status' = status
  /\ request.align => AlignedRoom(h, n)

LEMMA GrowthFacts ==
  ASSUME NEW size, NEW align, align, GrowthSuits(size, align),
         NEW g, g = index[LastHeaderIndex(index)], AlignOffset(g) # 0
  PROVE  /\ GapSuits(g, AlignOffset(g))
         /\ GrownRest(g, size) \notin 0 .. HEADER + FOOTER - 1
  BY DEF GrowthSuits

LEMMA SpaceShape ==
  ASSUME HeapInv, MakeSpace
  PROVE  \E h, n, k, e2 : SpaceStep(h, n, k, e2)
<1> DEFINE length == ExpandedLength(request.size)
           e2 == StartAddr + length
           k == StartAddr + length - end_addr
           j == LastHeaderIndex(index)
           h == IF j = 0 THEN end_addr ELSE index[j]
           m1 == IF j = 0 THEN MakeHeader(mem, end_addr, k, TRUE)
                 ELSE Resize(mem, h, Plus(SizeOf(mem, h), k))
           m2 == MakeFooter(m1, AssocFooter(m1, h), h)
<1>1. /\ request # NoRequest /\ live' = live /\ request' = request
      /\ Fitting(TotalSize(request.size), request.align) = {}
  BY DEF MakeSpace
<1>2. ASSUME ~ (e2 > MaxAddr)
      PROVE  /\ end_addr' = e2
             /\ top' = IF end_addr' > top THEN end_addr' ELSE top
             /\ mem' = m2
             /\ index' = IF j = 0 THEN ArrayInsert(m2, index, h) ELSE index
             /\ status' = status
  BY <1>2 DEF MakeSpace
<1>3. /\ e2 <= MaxAddr
      /\ j # 0 => index[j] # NULL /\ index[j] + mem[index[j] + 2] = end_addr
      /\ request.align => j # 0
      /\ request.align /\ AlignOffset(h) # 0 =>
           /\ AlignOffset(h) >= 5
           /\ e2 - h - AlignOffset(h) - TotalSize(request.size) \notin 0 .. 4
           /\ (h % PageWords) + 3 <= PageWords
  <2>1. GrowthSuits(request.size, request.align)
    BY <1>1 DEF HeapInv, RequestInv
  <2>2. /\ e2 <= MaxAddr
        /\ j # 0 => index[j] # NULL /\ index[j] + mem[index[j] + 2] = end_addr
        /\ request.align => j # 0
    BY <2>1 DEF GrowthSuits, SizeOf
  <2>3. ASSUME request.align, AlignOffset(h) # 0
        PROVE  /\ AlignOffset(h) >= 5
               /\ e2 - h - AlignOffset(h) - TotalSize(request.size) \notin 0 .. 4
               /\ (h % PageWords) + 3 <= PageWords
    <3>1. h = index[j] /\ j # 0
      BY <2>2, <2>3
    <3>2. /\ AlignOffset(h) >= HEADER + FOOTER
          /\ e2 - h - AlignOffset(h) - TotalSize(request.size)
               \notin 0 .. HEADER + FOOTER - 1
          /\ (h % PageWords) + HEADER <= PageWords
      <4>1. /\ GapSuits(h, AlignOffset(h))
            /\ GrownRest(h, request.size) \notin 0 .. HEADER + FOOTER - 1
        <5>1. h = index[LastHeaderIndex(index)]
          BY <3>1
        <5> HIDE DEF j, h
        <5> QED
          BY <2>1, <2>3, <5>1, GrowthFacts
      <4>2. GrownRest(h, request.size) = e2 - h - AlignOffset(h) - TotalSize(request.size)
        <5> HIDE DEF h, j
        <5> QED
          BY DEF GrownRest
      <4> QED
        BY <4>1, <4>2 DEF GapSuits
    <3>3. HEADER = 3 /\ HEADER + FOOTER = 5 /\ HEADER + FOOTER - 1 = 4
      BY DEF HEADER, FOOTER
    <3> QED
      BY <3>2, <3>3
  <2> QED
    BY <2>2, <2>3
<1>4. /\ mem \in [Memory -> Int] /\ index \in Seq(Int)
      /\ Holes \in SUBSET Int /\ Taken \in SUBSET Int
      /\ end_addr \in Int /\ end_addr <= MaxAddr /\ end_addr <= top /\ top \in Int
      /\ Tiled(mem, Holes, Taken, end_addr)
  BY InvFacts
<1>5. /\ request.size \in Nat /\ StartAddr <= end_addr /\ top <= MaxAddr
      /\ StartAddr \in Int /\ MaxAddr \in Int /\ W \in Int /\ MaxAddr + 3 < W /\ StartAddr >= 6
  BY ConstantTypes DEF HeapInv, TypeInv, ShapeInv
<1>6. /\ length \in Int /\ length % PageWords = 0
      /\ end_addr - StartAddr + request.size + 5 <= length
  <2> DEFINE x == end_addr - StartAddr + TotalSize(request.size)
  <2>1. x \in Int /\ x = end_addr - StartAddr + request.size + 5
    BY <1>4, <1>5 DEF TotalSize, HEADER, FOOTER
  <2>2. length = AlignUp(x)
    BY DEF ExpandedLength
  <2> HIDE DEF x, length
  <2>3. AlignUp(x) \in Int /\ x <= AlignUp(x) /\ AlignUp(x) % PageWords = 0
    BY <2>1, AlignUpFacts
  <2> QED
    BY <2>1, <2>2, <2>3
<1> HIDE DEF length
<1>7. /\ k \in Int /\ k >= request.size + 5 /\ e2 \in Int /\ e2 = end_addr + k
      /\ e2 - StartAddr = length
  BY <1>4, <1>5, <1>6
<1>8. /\ end_addr' = e2 /\ status' = status
      /\ top' \in Int /\ top' >= e2 /\ top' <= MaxAddr
      /\ mem' = m2 /\ index' = IF j = 0 THEN ArrayInsert(m2, index, h) ELSE index
  <2>1. ~ (e2 > MaxAddr)
    BY <1>3, <1>5, <1>7
  <2>2. top' = IF e2 > top THEN e2 ELSE top
    BY <1>2, <2>1
  <2>3. top' \in Int /\ top' >= e2 /\ top' <= MaxAddr
    BY <1>3, <1>4, <1>5, <1>7, <2>2
  <2> QED
    BY <1>2, <2>1, <2>3
<1> HIDE DEF e2, k
<1> DEFINE n == e2 - h
<1>9. CASE j = 0
  <2>1. h = end_addr /\ n = k /\ InHeap(end_addr, k) /\ k \in 0 .. W - 1
    BY <1>3, <1>4, <1>5, <1>7, <1>9 DEF InHeap
  <2>2. m1 = HeaderAt(mem, end_addr, k, 1)
    BY <1>9, <2>1, HeaderValue
  <2> HIDE DEF m1
  <2>3. m1[end_addr + 2] = k
    <3>1. /\ end_addr \in Memory /\ end_addr + 1 \in Memory /\ end_addr + 2 \in Memory
          /\ 1 \in Int
      BY <2>1, InHeapWords
    <3> QED
      BY <1>4, <1>7, <2>2, <3>1, HeaderFacts
  <2>4. mem' = Written(mem, end_addr, k, 1)
    BY <1>8, <2>1, <2>2, <2>3 DEF AssocFooter, SizeOf, FOOTER, Written
  <2>5. /\ mem' \in [Memory -> Int] /\ WrittenBetween(mem, mem', end_addr, end_addr + k)
        /\ mem'[end_addr] = HEAP_MAGIC /\ mem'[end_addr + 1] = 1
        /\ mem'[end_addr + 2] = k
    <3>1. 1 \in Int
      OBVIOUS
    <3> QED
      BY ONLY <1>4, <2>1, <2>4, <3>1, WrittenFacts
  <2>6. index' = ArrayInsert(mem', index, h)
    BY <1>8, <1>9
  <2> HIDE DEF j, h, m2, n
  <2>a. /\ k >= TotalSize(request.size) /\ (e2 - StartAddr) % PageWords = 0
    BY <1>5, <1>6, <1>7 DEF TotalSize, HEADER, FOOTER
  <2>b. /\ h \in Int /\ n \in Int /\ h + n = e2 /\ mem'[h + 2] = n /\ n >= k
        /\ WrittenBetween(mem, mem', h, e2) /\ StartAddr <= h
    BY <1>4, <1>5, <1>7, <2>1, <2>5
  <2>c. /\ h = end_addr /\ index' = ArrayInsert(mem', index, h)
        /\ mem'[h] = HEAP_MAGIC /\ mem'[h + 1] = 1
    BY <2>1, <2>5, <2>6
  <2>d. ~ request.align
    BY <1>3, <1>9
  <2>7. SpaceStep(h, n, k, e2)
    BY <1>1, <1>3, <1>7, <1>8, <2>5, <2>a, <2>b, <2>c, <2>d DEF SpaceStep
  <2> QED
    BY <2>7
<1>10. CASE j # 0
  <2>1. j \in 1 .. Len(index)
    BY <1>4, <1>10, LastHeaderFacts
  <2>2. h = index[j] /\ h \in Holes /\ h \in Int /\ h + mem[h + 2] = end_addr
    BY <1>3, <1>4, <1>10, <2>1 DEF Holes, Range
  <2>3. /\ mem[h + 2] \in Int /\ mem[h + 2] >= 5 /\ StartAddr <= h
    BY <1>4, <2>2, TileFacts
  <2>4. m1 = Resize(mem, h, Plus(mem[h + 2], k))
    BY <1>10 DEF SizeOf
  <2> HIDE DEF j, h, m1
  <2>5. /\ n \in Int /\ mem[h + 2] + k = n /\ InHeap(h, n) /\ n \in 0 .. W - 1
        /\ h + n = e2 /\ n >= k
    <3> DEFINE z == mem[h + 2]
    <3>1. z \in Int /\ z >= 5 /\ h + z = end_addr /\ h \in Int /\ StartAddr <= h
      BY <2>2, <2>3
    <3> HIDE DEF z
    <3>2. n \in Int /\ n = z + k /\ h + n = e2 /\ n >= k
      BY <1>4, <1>5, <1>7, <3>1
    <3> HIDE DEF n
    <3>3. InHeap(h, n) /\ n \in 0 .. W - 1
      BY <1>3, <1>4, <1>5, <1>7, <3>1, <3>2 DEF InHeap
    <3> QED
      BY <3>2, <3>3 DEF z
  <2> HIDE DEF n
  <2>6. m1 = Resize(mem, h, n)
    BY <1>7, <2>3, <2>4, <2>5, NoWrap
  <2>7. /\ h \in Memory /\ h + 1 \in Memory /\ h + 2 \in Memory
        /\ h + n - 2 \in Memory /\ h + n - 1 \in Memory
    BY <2>5, InHeapWords
  <2>8. /\ m1 \in [Memory -> Int] /\ m1[h + 2] = n
        /\ \A a \in Memory : a # h + 2 => m1[a] = mem[a]
    <3>1. mem \in [Memory -> Int] /\ h \in Int /\ n \in Int /\ h + 2 \in Memory
      BY <1>4, <2>2, <2>5, <2>7
    <3> QED
      BY ONLY <2>6, <3>1, ResizeFacts
  <2> DEFINE f == h + n - 2
  <2>9. mem' = MakeFooter(m1, f, h)
    BY <1>8, <2>8 DEF AssocFooter, SizeOf, FOOTER
  <2>10. f \in Int /\ f \in Memory /\ f + 1 \in Memory /\ h + 2 < f /\ f + 1 < e2
    BY <2>2, <2>5, <2>7 DEF InHeap
  <2> HIDE DEF f, m2
  <2>11. /\ mem' \in [Memory -> Int]
         /\ \A a \in Memory : a \notin f .. f + 1 => mem'[a] = m1[a]
    BY <2>2, <2>8, <2>9, <2>10, FooterFacts
  <2>12. mem'[h] = mem[h] /\ mem'[h + 1] = mem[h + 1] /\ mem'[h + 2] = n
    BY <2>2, <2>7, <2>8, <2>10, <2>11
  <2>13. WrittenBetween(mem, mem', h, e2)
    <3>1. SUFFICES ASSUME NEW a \in Memory, a \notin h .. e2 - 1 PROVE mem'[a] = mem[a]
      BY <1>7 DEF WrittenBetween
    <3>2. a \in Int
      BY ConstantTypes DEF Memory, HEADER
    <3>3. a # h + 2 /\ a \notin f .. f + 1
      BY <1>7, <2>2, <2>10, <3>1, <3>2
    <3> QED
      BY <2>8, <2>11, <3>3
  <2>14. index' = index
    BY <1>8, <1>10
  <2>a. /\ k >= TotalSize(request.size) /\ (e2 - StartAddr) % PageWords = 0
    BY <1>5, <1>6, <1>7 DEF TotalSize, HEADER, FOOTER
  <2>b. request.align => AlignedRoom(h, n)
    <3>1. n = e2 - h
      BY DEF n
    <3> QED
      BY <1>3, <2>2, <2>14, <3>1 DEF AlignedRoom
  <2>15. SpaceStep(h, n, k, e2)
    BY <2>b, <1>1, <1>3, <1>7, <1>8, <2>2, <2>3, <2>5, <2>11, <2>12, <2>13, <2>14, <2>a
       DEF SpaceStep
  <2> QED
    BY <2>15
<1> QED
  BY <1>9, <1>10

\* A hole that no aligned block of total words fits into is not smaller than the gap
\* in front of the block: the difference would wrap and pass for a large hole.
LEMMA GapFits ==
  ASSUME NEW z \in Int, NEW g \in Int, NEW k \in Int, NEW total \in Int,
         z >= 0, 0 <= g, g < PageWords, total >= 0, total <= k,
         StartAddr + PageWords + k <= MaxAddr, z + k < W,
         ~ (Minus(z, g) >= total)
  PROVE  /\ Minus(z + k, g) = z + k - g
         /\ z + k - g >= total
<1>1. /\ W \in Nat /\ PageWords \in Nat /\ MaxAddr \in Nat /\ StartAddr \in Nat
      /\ MaxAddr + 3 < W
  BY ConstantTypes
<1>2. z >= g
  <2>1. SUFFICES ASSUME z < g PROVE FALSE
    OBVIOUS
  <2>2. z - g + W \in 0 .. W - 1 /\ z - g + W >= total
    BY <1>1, <2>1
  <2>3. (z - g) % W = z - g + W
    <3> DEFINE d == z - g + W
    <3>1. d \in 0 .. W - 1 /\ z - g = d - W /\ d \in Int
      BY <1>1, <2>2
    <3> HIDE DEF d
    <3>2. (d - W) % W = d
      BY <1>1, <3>1
    <3> QED
      BY <3>1, <3>2 DEF d
  <2> QED
    BY <2>2, <2>3 DEF Minus
<1>3. z + k - g \in 0 .. W - 1 /\ z + k - g >= total /\ z + k \in Int
  BY <1>1, <1>2
<1> QED
  BY <1>3, NoWrap

LEMMA AlignOffsetRange ==
  ASSUME NEW h \in Int
  PROVE  AlignOffset(h) \in Int /\ 0 <= AlignOffset(h) /\ AlignOffset(h) < PageWords
<1>1. (h + HEADER) % PageWords \in 0 .. PageWords - 1
  BY PageFacts DEF HEADER
<1> QED
  BY <1>1, PageFacts DEF AlignOffset, Aligned

\* After make_space for an aligned block the last hole, and no other, fits.
LEMMA AlignedSpace ==
  ASSUME HeapInv, MakeSpace, request.align, NEW h, NEW n, NEW k, NEW e2,
         SpaceStep(h, n, k, e2)
  PROVE  /\ Fitting(TotalSize(request.size), request.align)' # {}
         /\ HoleSuits(request.size, request.align)'
<1> DEFINE total == TotalSize(request.size)
           z == mem[h + 2]
           g == AlignOffset(h)
<1>1. /\ k \in Int /\ k >= total /\ e2 \in Int /\ e2 = end_addr + k /\ e2 <= MaxAddr
      /\ h \in Int /\ n \in Int /\ h + n = e2 /\ mem'[h + 2] = n
      /\ WrittenBetween(mem, mem', h, e2) /\ StartAddr <= h /\ request' = request
  BY DEF SpaceStep
<1>2. /\ h \in Holes /\ h + z = end_addr /\ index' = index
      /\ g # 0 => /\ g >= 5 /\ n - g - total \notin 0 .. 4
                  /\ (h % PageWords) + 3 <= PageWords
  BY DEF SpaceStep, AlignedRoom
<1>3. /\ mem \in [Memory -> Int] /\ index \in Seq(Int)
      /\ Holes \in SUBSET Int /\ Taken \in SUBSET Int
      /\ end_addr \in Int /\ end_addr <= MaxAddr
      /\ Tiled(mem, Holes, Taken, end_addr)
  BY InvFacts
<1>4. /\ request.size \in Nat /\ total = request.size + 5 /\ StartAddr + MinLength <= end_addr
      /\ StartAddr \in Int /\ MaxAddr \in Int /\ W \in Int /\ MaxAddr + 3 < W
      /\ StartAddr >= 6 /\ LowWords \in Int /\ LowWords >= 3 /\ PageWords \in Int
      /\ MinLength \in Int
  BY ConstantTypes DEF HeapInv, TypeInv, ShapeInv, TotalSize, HEADER, FOOTER
<1>5. MinLength >= PageWords
  <2>1. MinPages \in Nat /\ MinPages >= 1 /\ PageWords \in Nat
    BY HeapAssumption
  <2>2. MinPages * PageWords >= PageWords
    BY <2>1
  <2> QED
    BY <2>2 DEF MinLength
<1>6. z \in Int /\ z >= 5
  BY <1>2, <1>3, TileFacts
<1>7. g \in Int /\ 0 <= g /\ g < PageWords
  BY <1>1, AlignOffsetRange
<1>8. Fitting(total, request.align) = {}
  BY DEF MakeSpace
<1> HIDE DEF g, z, total
<1>9. ASSUME NEW j \in 1 .. Len(index)
      PROVE  ~ (Minus(mem[index[j] + 2], AlignOffset(index[j])) >= total)
  BY <1>8, <1>9 DEF Fitting, Fits, SizeOf
<1>10. Fitting(total, request.align)' =
         {j \in 1 .. Len(index) : Minus(mem'[index[j] + 2], AlignOffset(index[j])) >= total}
  <2>1. request'.align = TRUE /\ total' = total
    BY <1>1 DEF total, TotalSize
  <2> QED
    BY <1>2, <2>1 DEF Fitting, Fits, SizeOf
<1>11. PICK i \in 1 .. Len(index) : index[i] = h
  BY <1>2, <1>3 DEF Holes, Range
<1>12. Minus(n, g) = n - g /\ n - g >= total
  <2>1. ~ (Minus(z, g) >= total)
    BY <1>9, <1>11 DEF g, z
  <2>2. n = z + k /\ StartAddr + PageWords + k <= MaxAddr /\ z + k < W /\ total >= 0
    BY <1>1, <1>2, <1>3, <1>4, <1>5, <1>6
  <2>3. total \in Int /\ z >= 0
    BY <1>4, <1>6
  <2>4. Minus(z + k, g) = z + k - g /\ z + k - g >= total
    BY <1>1, <1>6, <1>7, <2>1, <2>2, <2>3, GapFits
  <2> QED
    BY <1>1, <1>6, <1>7, <2>2, <2>3, <2>4
<1>13. i \in Fitting(total, request.align)'
  <2>1. Minus(mem'[index[i] + 2], AlignOffset(index[i])) >= total
    BY <1>1, <1>11, <1>12 DEF g
  <2> QED
    BY <1>10, <2>1
<1>14. ASSUME NEW j \in Fitting(total, request.align)' PROVE index[j] = h
  <2>1. SUFFICES ASSUME index[j] # h PROVE FALSE
    OBVIOUS
  <2>2. /\ j \in 1 .. Len(index) /\ index[j] \in Int
        /\ Minus(mem'[index[j] + 2], AlignOffset(index[j])) >= total
    BY <1>3, <1>10
  <2> DEFINE a == index[j]
  <2>a. a \in Int /\ a # h
    BY <2>1, <2>2
  <2>b. a # NULL => a \in Holes
    BY <1>3, <2>2 DEF Holes, Range
  <2> HIDE DEF a
  <2>3. a + 2 \in Memory /\ a + 2 \notin h .. e2 - 1
    <3>1. CASE a = NULL
      BY <1>1, <1>4, <3>1 DEF Memory, NULL
    <3>2. CASE a # NULL
      <4>1. a \in Holes
        BY <2>b, <3>2
      <4>2. mem[a + 2] \in Int /\ mem[a + 2] >= 5 /\ StartAddr <= a /\ a + mem[a + 2] <= end_addr
        BY <1>3, <4>1, TileFacts
      <4>3. a < h => a + mem[a + 2] <= h
        BY <1>2, <1>3, <4>1, TileFacts
      <4>4. h < a => h + mem[h + 2] <= a
        BY <1>2, <1>3, <4>1, TileFacts
      <4>5. a + 2 < h
        BY <1>1, <1>2, <1>3, <2>a, <4>2, <4>3, <4>4 DEF z
      <4>6. a + 2 \in Memory
        BY <1>1, <1>3, <1>4, <2>a, <4>2 DEF Memory, HEADER
      <4> QED
        BY <1>1, <2>a, <4>5, <4>6
    <3> QED
      BY <3>1, <3>2
  <2>4. mem'[a + 2] = mem[a + 2]
    BY <1>1, <2>3 DEF WrittenBetween
  <2> QED
    BY <1>9, <2>2, <2>4 DEF a
<1>15. index'[SmallestHole(total, request.align)'] = h
  <2> DEFINE Fit2 == Fitting(total, request.align)'
  <2>1. Fit2 \in SUBSET Nat
    BY <1>10
  <2>2. SmallestHole(total, request.align)' = First(Fit2)
    BY DEF SmallestHole
  <2>3. Fit2 # {}
    BY <1>13
  <2> HIDE DEF Fit2
  <2>4. First(Fit2) \in Fit2
    BY <2>1, <2>3, FirstIsLeast
  <2> QED
    BY <1>2, <1>14, <2>2, <2>4 DEF Fit2
<1>16. HoleSuits(request.size, request.align)'
  <2>1. h # NULL
    BY <1>1, <1>4 DEF NULL
  <2>2. g # 0 => /\ g >= 5 /\ n - g - total >= 5 /\ (h % PageWords) + 3 <= PageWords
    <3>1. total \in Int
      BY <1>4
    <3> QED
      BY <1>1, <1>2, <1>7, <1>12, <3>1
  <2>3. request'.align = TRUE /\ request'.size = request.size
    BY <1>1
  <2>4. index'[SmallestHole(TotalSize(request.size), request.align)'] = h
    BY <1>15 DEF total
  <2>5. mem'[h + 2] = n
    BY <1>1
  <2> QED
    BY <2>1, <2>2, <2>3, <2>4, <2>5 DEF HoleSuits, GapSuits, SizeOf, HEADER, FOOTER, g, total
<1> QED
  BY <1>13, <1>16 DEF total

\* After make_space a hole of the heap fits, and the one alloc picks is one.
SpaceMade ==
  LET total == TotalSize(request.size)
  IN  /\ Fitting(total, request.align)' # {}
      /\ HoleSuits(request.size, request.align)'

LEMMA SpaceInv ==
  ASSUME HeapInv, MakeSpace
  PROVE  HeapInv' /\ SpaceMade
<1>1. PICK h, n, k, e2 : SpaceStep(h, n, k, e2)
  BY SpaceShape
<1>2. /\ k \in Int /\ k >= TotalSize(request.size)
      /\ e2 \in Int /\ e2 = end_addr + k /\ e2 <= MaxAddr
      /\ (e2 - StartAddr) % PageWords = 0
      /\ h \in Int /\ n \in Int /\ h + n = e2
      /\ mem' \in [Memory -> Int]
      /\ mem'[h + 2] = n /\ n >= k
      /\ WrittenBetween(mem, mem', h, e2) /\ StartAddr <= h
      /\ end_addr' = e2 /\ top' \in Int /\ top' >= e2 /\ top' <= MaxAddr
      /\ live' = live /\ request' = request /\ status' = status
  BY <1>1 DEF SpaceStep
<1>3. \/ /\ h \in Holes /\ h + mem[h + 2] = end_addr /\ index' = index
         /\ mem'[h] = mem[h] /\ mem'[h + 1] = mem[h + 1]
      \/ /\ h = end_addr /\ index' = ArrayInsert(mem', index, h)
         /\ mem'[h] = HEAP_MAGIC /\ mem'[h + 1] = 1
  BY <1>1 DEF SpaceStep
<1>4. /\ mem \in [Memory -> Int] /\ index \in Seq(Int)
      /\ Holes \in SUBSET Int /\ Taken \in SUBSET Int
      /\ end_addr \in Int /\ end_addr <= MaxAddr /\ end_addr <= top /\ top \in Int
      /\ Tiled(mem, Holes, Taken, end_addr)
  BY InvFacts
<1>5. /\ request.size \in Nat /\ StartAddr + MinLength <= end_addr /\ Unique(index)
      /\ StartAddr \in Int /\ MaxAddr \in Int /\ StartAddr >= 6 /\ MinLength \in Int
      /\ MinLength > 0 /\ LowWords \in Int /\ LowWords >= 3 /\ LowWords <= StartAddr - 3
  BY ConstantTypes DEF HeapInv, TypeInv, ShapeInv
<1>6. TotalSize(request.size) = request.size + 5
  BY <1>5 DEF TotalSize, HEADER, FOOTER
<1>7. request # NoRequest /\ Fitting(TotalSize(request.size), request.align) = {}
  BY DEF MakeSpace
<1>8. request.size \in Sizes /\ request.align \in BOOLEAN
  BY <1>7 DEF HeapInv, RequestInv, TypeInv
<1>9. h # NULL
  BY <1>2, <1>5 DEF NULL
<1>10. /\ index' \in Seq(Int) /\ Unique(index') /\ h \in Range(index')
       /\ Range(index') \ {NULL} = Holes \cup {h}
       /\ Tiled(mem', Holes \cup {h}, Taken, e2)
       /\ \A g \in Taken : mem'[g + 2] = mem[g + 2]
       /\ NULL \in Range(index') => NULL \in Range(index)
  <2>1. CASE /\ h \in Holes /\ h + mem[h + 2] = end_addr /\ index' = index
             /\ mem'[h] = mem[h] /\ mem'[h + 1] = mem[h + 1]
    <3>1. GrownHeap(mem, Holes, Taken, end_addr, h, n, mem')
      <4>1. end_addr <= h + n /\ h + n <= MaxAddr /\ WrittenBetween(mem, mem', h, h + n)
        <5>1. end_addr <= e2
          BY <1>2, <1>4, <1>5, <1>6
        <5> QED
          BY <1>2, <5>1
      <4> QED
        BY <1>2, <1>4, <2>1, <4>1 DEF GrownHeap
    <3>2. Tiled(mem', Holes, Taken, e2) /\ \A g \in Taken : mem'[g + 2] = mem[g + 2]
      BY <1>2, <3>1, Grown
    <3>3. Holes \cup {h} = Holes /\ Range(index) \ {NULL} = Holes /\ h \in Range(index)
      BY <2>1 DEF Holes
    <3> QED
      BY <1>4, <1>5, <2>1, <3>2, <3>3
  <2>2. CASE /\ h = end_addr /\ index' = ArrayInsert(mem', index, h)
             /\ mem'[h] = HEAP_MAGIC /\ mem'[h + 1] = 1
    <3>1. AppendedHeap(mem, Holes, Taken, end_addr, n, mem')
      <4>1. /\ n >= 5 /\ end_addr + n <= MaxAddr
            /\ WrittenBetween(mem, mem', end_addr, end_addr + n)
            /\ mem'[end_addr + 1] # 0 /\ mem'[end_addr] = HEAP_MAGIC
            /\ mem'[end_addr + 2] = n
        BY <1>2, <1>4, <1>5, <1>6, <2>2
      <4> QED
        BY <1>2, <1>4, <4>1 DEF AppendedHeap
    <3>2. /\ h \notin Holes \cup Taken /\ Tiled(mem', Holes \cup {h}, Taken, e2)
          /\ \A g \in Taken : mem'[g + 2] = mem[g + 2]
      <4>1. /\ end_addr \notin Holes \cup Taken
            /\ Tiled(mem', Holes \cup {end_addr}, Taken, end_addr + n)
            /\ \A g \in Taken : mem'[g + 2] = mem[g + 2]
        <5>1. HoleAdded(mem, Holes, Taken, end_addr, n, mem')
          BY <3>1, Appended
        <5> QED
          BY <5>1 DEF HoleAdded
      <4>2. end_addr + n = e2
        BY <1>2, <2>2
      <4> QED
        BY <2>2, <4>1, <4>2
    <3>3. h \notin Range(index)
      BY <1>9, <3>2 DEF Holes
    <3>4. /\ index' \in Seq(Int) /\ Unique(index')
          /\ Range(index') = Range(index) \cup {h}
      BY <1>2, <1>4, <1>5, <2>2, <3>3, InsertFacts
    <3> QED
      BY <1>9, <3>2, <3>4 DEF Holes
  <2> QED
    BY <1>3, <2>1, <2>2
<1>11. Holes' = Holes \cup {h} /\ Taken' = Taken
  BY <1>2, <1>10 DEF Holes, Taken
<1>12. TypeInv'
  BY <1>2, <1>10 DEF HeapInv, TypeInv
<1>13. ShapeInv'
  <2>1. StartAddr + MinLength <= e2
    BY <1>2, <1>4, <1>5, <1>6
  <2> QED
    BY <1>2, <1>10, <1>11, <2>1 DEF ShapeInv
<1>14. LiveInv'
  <2>1. ASSUME NEW b \in live PROVE mem'[b.ptr - 1] = mem[b.ptr - 1]
    <3>1. b.ptr \in Int /\ b.ptr - 3 \in Taken
      BY InvFacts
    <3>2. b.ptr - 3 + 2 = b.ptr - 1
      BY <3>1
    <3>3. mem'[(b.ptr - 3) + 2] = mem[(b.ptr - 3) + 2]
      BY <1>10, <3>1
    <3> QED
      BY <3>1, <3>2, <3>3
  <2> QED
    BY <1>2, <2>1 DEF HeapInv, LiveInv
<1>15. ASSUME request.align
       PROVE  /\ Fitting(TotalSize(request.size), request.align)' # {}
              /\ HoleSuits(request.size, request.align)'
  BY <1>1, <1>15, AlignedSpace
<1>16. ASSUME ~ request.align
       PROVE  /\ Fitting(TotalSize(request.size), request.align)' # {}
              /\ HoleSuits(request.size, request.align)'
  <2> DEFINE total == TotalSize(request.size)
             Fit2 == Fitting(total, request.align)'
  <2>1. Fit2 = {j \in 1 .. Len(index') : mem'[index'[j] + 2] >= total}
    BY <1>2, <1>16 DEF Fitting, Fits, SizeOf
  <2>2. ASSUME NEW v \in Range(index') PROVE \E j \in 1 .. Len(index') : index'[j] = v
    BY <1>10 DEF Range
  <2>3. Fit2 # {}
    <3>1. PICK j \in 1 .. Len(index') : index'[j] = h
      BY <1>10, <2>2
    <3>2. mem'[index'[j] + 2] >= total
      <4>1. n >= total
        BY <1>2, <1>5, <1>6, SMTT(30)
      <4> HIDE DEF total
      <4> QED
        BY <1>2, <3>1, <4>1
    <3> QED
      BY <2>1, <3>1, <3>2
  <2>4. mem'[NULL + 2] = mem[NULL + 2]
    <3>1. 2 \in Memory /\ 2 \in Int /\ NULL + 2 = 2
      BY <1>5 DEF Memory, NULL
    <3>2. 2 \notin h .. e2 - 1
      BY <1>2, <1>5
    <3> QED
      BY <3>1, <3>2, <1>2 DEF WrittenBetween
  <2>5. ASSUME NEW j \in Fit2 PROVE index'[j] # NULL
    <3>1. SUFFICES ASSUME index'[j] = NULL PROVE FALSE
      OBVIOUS
    <3>2. j \in 1 .. Len(index') /\ mem'[index'[j] + 2] >= total
      BY <2>1
    <3>3. NULL \in Range(index')
      BY <1>10, <3>1, <3>2 DEF Range
    <3>4. NULL \in Range(index)
      BY <1>10, <3>3
    <3>5. PICK i \in 1 .. Len(index) : index[i] = NULL
      BY <1>4, <3>4 DEF Range
    <3>6. mem[index[i] + 2] >= total
      BY <2>4, <3>1, <3>2, <3>5
    <3>7. i \in Fitting(total, request.align)
      BY <1>16, <3>6 DEF Fitting, Fits, SizeOf
    <3> QED
      BY <1>7, <3>7
  <2>6. SmallestHole(total, request.align)' \in Fit2
    <3>1. Fit2 \in SUBSET Nat
      BY <2>1
    <3>2. SmallestHole(total, request.align)' = First(Fit2)
      BY DEF SmallestHole
    <3> HIDE DEF Fit2
    <3>3. First(Fit2) \in Fit2
      BY <2>3, <3>1, FirstIsLeast
    <3> QED
      BY <3>2, <3>3
  <2>7. HoleSuits(request.size, request.align)'
    <3>1. index'[SmallestHole(total, request.align)'] # NULL
      BY <2>5, <2>6
    <3>2. request'.align = request.align
      BY <1>2
    <3> QED
      BY <1>16, <3>1, <3>2 DEF HoleSuits
  <2> QED
    BY <2>3, <2>7
<1>17. /\ Fitting(TotalSize(request.size), request.align)' # {}
       /\ HoleSuits(request.size, request.align)'
  BY <1>15, <1>16
<1>18. RequestInv'
  BY <1>2, <1>8, <1>17 DEF RequestInv
<1>19. HeapInv'
  BY <1>2, <1>12, <1>13, <1>14, <1>18 DEF HeapInv
<1> QED
  BY <1>17, <1>19 DEF SpaceMade

-----------------------------------------------------------------------------
(***************************************************************************)
(* free keeps the invariant, and no check of it fails.                     *)
(***************************************************************************)

\* contract does not cut more than what lies behind the hole, and keeps the least
\* size of the heap.
LEMMA ContractedFacts ==
  ASSUME NEW a \in Int, NEW l \in Int, a <= l, MinLength <= l, l % PageWords = 0
  PROVE  /\ ContractedLength(a) \in Int /\ ContractedLength(a) <= l
         /\ MinLength <= ContractedLength(a) /\ ContractedLength(a) % PageWords = 0
<1>1. AlignUp(a) \in Int /\ AlignUp(a) % PageWords = 0 /\ AlignUp(a) <= l
  BY AlignUpFacts
<1>2. MinLength \in Int
  BY ConstantTypes
<1>3. MinLength % PageWords = 0
  <2>1. MinPages \in Int /\ PageWords \in Int /\ 0 \in 0 .. PageWords - 1
    BY HeapAssumption, PageFacts
  <2>2. MinLength = PageWords * MinPages + 0
    BY <2>1 DEF MinLength
  <2>3. (PageWords * MinPages + 0) % PageWords = 0
    BY <2>1, ModUnique
  <2> QED
    BY <2>2, <2>3
<1> QED
  BY <1>1, <1>2, <1>3 DEF ContractedLength

\* What free finds at a block in use, h of z words, in front of the tile q.
LEMMA BlockFacts ==
  ASSUME HeapInv, NEW b \in live
  PROVE  LET h == b.ptr - HEADER
             z == mem[h + 2]
             q == h + z
         IN  /\ h \in Taken /\ h \in Int /\ z \in Int /\ z >= 5
             /\ StartAddr <= h /\ q <= end_addr
             /\ mem[h] = HEAP_MAGIC /\ mem[q - 2] = HEAP_MAGIC /\ mem[q - 1] = h
             /\ q \in Holes \cup Taken \/ q = end_addr
             /\ q \in Holes =>
                  /\ mem[q] = HEAP_MAGIC /\ mem[q + 1] # 0
                  /\ mem[q + 2] \in Int /\ mem[q + 2] >= 5 /\ q + mem[q + 2] <= end_addr
             /\ q \in Taken => mem[q + 1] = 0
<1> DEFINE h == b.ptr - HEADER
           z == mem[h + 2]
           q == h + z
<1>1. /\ mem \in [Memory -> Int] /\ Holes \in SUBSET Int /\ Taken \in SUBSET Int
      /\ end_addr \in Int /\ end_addr <= MaxAddr /\ Tiled(mem, Holes, Taken, end_addr)
      /\ h \in Taken
  BY InvFacts DEF HEADER
<1> HIDE DEF h
<1>2. /\ SizesIn(mem)[h] = z /\ z \in Int /\ z >= 5 /\ StartAddr <= h /\ q <= end_addr
  BY <1>1, TileFacts
<1>3. /\ mem[h] = HEAP_MAGIC /\ mem[h + mem[h + 2] - 2] = HEAP_MAGIC
      /\ mem[h + mem[h + 2] - 1] = h
  BY <1>1 DEF Tiled
<1>4. q \in Holes \cup Taken \/ q = end_addr
  <2>1. Tiling(Holes \cup Taken, SizesIn(mem), end_addr) /\ h \in Holes \cup Taken
    BY <1>1 DEF Tiled
  <2>2. h + SizesIn(mem)[h] \in Holes \cup Taken \/ h + SizesIn(mem)[h] = end_addr
    BY <2>1 DEF Tiling
  <2> QED
    BY <1>2, <2>2
<1>5. h \in Int
  BY <1>1
<1>6. mem[q - 2] = HEAP_MAGIC /\ mem[q - 1] = h
  <2>1. q - 2 = h + mem[h + 2] - 2 /\ q - 1 = h + mem[h + 2] - 1
    BY <1>2, <1>5
  <2> QED
    BY <1>3, <2>1
<1> HIDE DEF z, q
<1>7. ASSUME q \in Holes
      PROVE  /\ mem[q] = HEAP_MAGIC /\ mem[q + 1] # 0
             /\ mem[q + 2] \in Int /\ mem[q + 2] >= 5 /\ q + mem[q + 2] <= end_addr
  <2>1. mem[q] = HEAP_MAGIC /\ mem[q + 1] # 0
    BY <1>1, <1>7 DEF Tiled
  <2> QED
    BY <1>1, <1>7, <2>1, TileFacts
<1>8. ASSUME q \in Taken PROVE mem[q + 1] = 0
  BY <1>1, <1>8 DEF Tiled
<1> QED
  BY <1>1, <1>2, <1>3, <1>4, <1>5, <1>6, <1>7, <1>8 DEF h, z, q

\* free goes well: k words become a hole, of which n stay in the heap.
FreeStep(h, k, n, e2) ==
  /\ k \in Int /\ n \in Int /\ 5 <= n /\ n <= k
  /\ k = IF h + mem[h + 2] \in Holes THEN mem[h + 2] + mem[h + mem[h + 2] + 2]
         ELSE mem[h + 2]
  /\ IF h + k = end_addr THEN e2 = h + n ELSE e2 = end_addr /\ n = k
  /\ e2 \in Int /\ StartAddr + MinLength <= e2 /\ e2 <= end_addr
  /\ (e2 - StartAddr) % PageWords = 0
  /\ mem' \in [Memory -> Int] /\ WrittenBetween(mem, mem', h, h + k)
  /\ mem'[h] = HEAP_MAGIC /\ mem'[h + 1] # 0 /\ mem'[h + 2] = n
  /\ LET q  == h + mem[h + 2]
         s1 == IF q \in Holes THEN ArrayRemove(index, FindHeaderIndex(index, q))
               ELSE index
     IN  index' = ArrayInsert(mem', s1, h)
  /\ end_addr' = e2

\* The hole behind a block is found by its header, and a block or a header that
\* contract left behind the end is not taken for one.
LEMMA RightFacts ==
  ASSUME HeapInv, NEW b \in live, FreeSuits(b.ptr - HEADER)
  PROVE  LET h == b.ptr - HEADER
             q == h + mem[h + 2]
             k == IF q \in Holes THEN mem[h + 2] + mem[q + 2] ELSE mem[h + 2]
         IN  /\ Mapped(q)
             /\ mem[q] = HEAP_MAGIC /\ mem[q + 1] # 0 <=> q \in Holes
             /\ h + k = end_addr =>
                  StartAddr + ContractedLength(h - StartAddr) >= h + 5
<1> DEFINE h == b.ptr - HEADER
           z == mem[h + 2]
           q == h + z
           k == IF q \in Holes THEN z + mem[q + 2] ELSE z
<1>1. /\ h \in Int /\ z \in Int
      /\ q \in Holes \cup Taken \/ q = end_addr
      /\ q \in Holes => /\ mem[q] = HEAP_MAGIC /\ mem[q + 1] # 0
                        /\ mem[q + 2] \in Int
      /\ q \in Taken => mem[q + 1] = 0
  BY BlockFacts
<1>2. /\ Mapped(q)
      /\ q = end_addr => ~ RightIsHole(mem, q - FOOTER)
      /\ (IF Mapped(q) /\ RightIsHole(mem, q - FOOTER) THEN q + mem[q + 2] ELSE q) = end_addr
           => StartAddr + ContractedLength(h - StartAddr) >= h + HEADER + FOOTER
  BY DEF FreeSuits, SizeOf
<1> HIDE DEF h, z, q
<1>3. q \in Int /\ q = h + z
  BY <1>1 DEF q
<1>4. RightIsHole(mem, q - FOOTER) <=> mem[q] = HEAP_MAGIC /\ mem[q + 1] # 0
  <2>1. q - 2 + 2 = q
    BY <1>3
  <2> QED
    BY <2>1 DEF RightIsHole, Magic, IsHole, FOOTER
<1>5. mem[q] = HEAP_MAGIC /\ mem[q + 1] # 0 <=> q \in Holes
  BY <1>1, <1>2, <1>4
<1>6. ASSUME h + k = end_addr
      PROVE  StartAddr + ContractedLength(h - StartAddr) >= h + 5
  <2>1. h + k = IF q \in Holes THEN q + mem[q + 2] ELSE q
    BY <1>1, <1>3
  <2>2. h + HEADER + FOOTER = h + 5
    BY <1>1 DEF HEADER, FOOTER
  <2> QED
    BY <1>2, <1>4, <1>5, <1>6, <2>1, <2>2
<1> QED
  BY <1>2, <1>5, <1>6 DEF h, z, q

LEMMA FreeRuns ==
  ASSUME HeapInv, NEW b \in live, FreeSuits(b.ptr - HEADER),
         Magic(mem, PotentialFooter(b.ptr - HEADER)) # HEAP_MAGIC
  PROVE  FreeOutcome(b.ptr - HEADER) = "run"
<1> DEFINE h == b.ptr - HEADER
           z == mem[h + 2]
           q == h + z
           f == AssocFooter(mem, h)
           left == PotentialFooter(h)
<1>1. /\ h \in Int /\ z \in Int /\ z >= 5 /\ StartAddr <= h /\ q <= end_addr
      /\ mem[h] = HEAP_MAGIC /\ mem[q - 2] = HEAP_MAGIC /\ mem[q - 1] = h
  BY BlockFacts
<1>2. /\ Mapped(q)
      /\ mem[q] = HEAP_MAGIC /\ mem[q + 1] # 0 <=> q \in Holes
  BY RightFacts
<1>3. /\ index \in Seq(Int) /\ end_addr \in Int /\ end_addr <= top /\ top \in Int
      /\ StartAddr \in Int
  BY InvFacts, ConstantTypes
<1> HIDE DEF h, z, q
<1>4. q \in Int /\ q = h + z
  BY <1>1 DEF q
<1>5. f = q - 2 /\ f + 1 = q - 1 /\ f + FOOTER = q /\ f + FOOTER + 1 = q + 1
  BY <1>1, <1>4 DEF AssocFooter, SizeOf, FOOTER, z
<1> HIDE DEF f
<1>6. Mapped(f) /\ Mapped(f + 1)
  BY <1>1, <1>3, <1>4, <1>5 DEF Mapped, HEADER
<1>7. HeaderOf(mem, f) = h /\ Magic(mem, h) = HEAP_MAGIC /\ Magic(mem, f) = HEAP_MAGIC
  BY <1>1, <1>5 DEF HeaderOf, Magic
<1>8. Mapped(left) /\ Magic(mem, left) # HEAP_MAGIC
  <2>1. left \in StartAddr - HEADER .. top - 1
    BY <1>1, <1>3, <1>4 DEF PotentialFooter, HEADER
  <2> QED
    BY <2>1 DEF Mapped, h
<1>9. RightIsHole(mem, f) => FindHeaderIndex(index, f + FOOTER) # 0
  <2>1. SUFFICES ASSUME RightIsHole(mem, f) PROVE FindHeaderIndex(index, f + FOOTER) # 0
    OBVIOUS
  <2>2. q \in Range(index)
    BY <1>2, <1>5, <2>1 DEF RightIsHole, Magic, IsHole, Holes
  <2>3. FindHeaderIndex(index, q) \in 1 .. Len(index)
    BY <1>3, <2>2, FindFacts
  <2> QED
    BY <1>5, <2>3
<1>10. Mapped(f + FOOTER)
  BY <1>2, <1>5
<1> HIDE DEF left
<1>11. FreeOutcome(h) =
         CASE ~ (Mapped(f) /\ Mapped(f + 1)) -> "fault"
           [] HeaderOf(mem, f) # h
              \/ Magic(mem, h) # HEAP_MAGIC
              \/ Magic(mem, f) # HEAP_MAGIC -> "assert"
           [] ~ Mapped(left) -> "fault"
           [] Magic(mem, left) = HEAP_MAGIC
              /\ ~ Mapped(HeaderOf(mem, left) + 1) -> "fault"
           [] ~ Mapped(f + FOOTER) -> "fault"
           [] RightIsHole(mem, f)
              /\ FindHeaderIndex(index, f + FOOTER) = 0 -> "assert"
           [] OTHER -> "run"
  BY DEF FreeOutcome, f, left
<1>12. FreeOutcome(h) = "run"
  BY <1>6, <1>7, <1>8, <1>9, <1>10, <1>11
<1> QED
  BY <1>12 DEF h

LEMMA FreeShape ==
  ASSUME HeapInv, NEW b \in live, FreeSuits(b.ptr - HEADER),
         Magic(mem, PotentialFooter(b.ptr - HEADER)) # HEAP_MAGIC,
         FreeBlock(b.ptr - HEADER)
  PROVE  \E k, n, e2 : FreeStep(b.ptr - HEADER, k, n, e2)
<1> DEFINE h == b.ptr - HEADER
           z == mem[h + 2]
           q == h + z
           x == mem[q + 2]
           k == IF q \in Holes THEN z + x ELSE z
<1>1. /\ h \in Taken /\ h \in Int /\ z \in Int /\ z >= 5
      /\ StartAddr <= h /\ q <= end_addr /\ mem[h] = HEAP_MAGIC
      /\ q \in Holes => x \in Int /\ x >= 5 /\ q + x <= end_addr
  BY BlockFacts
<1>2. /\ mem[q] = HEAP_MAGIC /\ mem[q + 1] # 0 <=> q \in Holes
      /\ h + k = end_addr => StartAddr + ContractedLength(h - StartAddr) >= h + 5
  BY RightFacts
<1>3. /\ mem \in [Memory -> Int] /\ index \in Seq(Int)
      /\ end_addr \in Int /\ end_addr <= MaxAddr
  BY InvFacts
<1>4. /\ StartAddr + MinLength <= end_addr /\ (end_addr - StartAddr) % PageWords = 0
      /\ StartAddr \in Int /\ StartAddr >= 6 /\ MaxAddr \in Int /\ W \in Int /\ MaxAddr + 3 < W
      /\ MinLength \in Int
  BY ConstantTypes DEF HeapInv, ShapeInv
<1>5. Magic(mem, h - HEADER) # HEAP_MAGIC /\ FreeBlock(h)
  BY DEF PotentialFooter
<1> HIDE DEF h
<1> DEFINE foot0 == AssocFooter(mem, h)
           m0 == [mem EXCEPT ![h + 1] = 1]
           header == LeftHeader(m0, h)
           m1 == IF header = h THEN m0
                 ELSE Resize([m0 EXCEPT ![foot0 + 1] = header], header,
                             Plus(SizeOf(m0, header), SizeOf(m0, h)))
           right == foot0 + FOOTER
           merge == RightIsHole(m1, foot0)
           m2 == IF merge
                 THEN Resize(m1, header, Plus(SizeOf(m1, header), SizeOf(m1, right)))
                 ELSE m1
           footer == IF merge THEN AssocFooter(m1, right) ELSE foot0
           s1 == IF merge THEN ArrayRemove(index, FindHeaderIndex(index, right))
                 ELSE index
           atEnd == footer + FOOTER = end_addr
           length == ContractedLength(header - StartAddr)
           cut == end_addr - StartAddr - length
           stays == SizeOf(m2, header) > cut
           m3 == IF atEnd /\ stays
                 THEN Resize(m2, header, SizeOf(m2, header) - cut) ELSE m2
           m4 == IF atEnd /\ stays
                 THEN MakeFooter(m3, AssocFooter(m3, header), header) ELSE m3
           dead == FindHeaderIndex(s1, header)
           s2 == IF atEnd /\ ~ stays /\ dead # 0 THEN ArrayRemove(s1, dead) ELSE s1
<1>6. /\ mem' = m4
      /\ end_addr' = IF atEnd THEN StartAddr + length ELSE end_addr
      /\ index' = IF header = h THEN ArrayInsert(m4, s2, header) ELSE s2
  BY <1>5 DEF FreeBlock
<1> HIDE DEF foot0, m0, header, m1, right, merge, m2, footer, s1, atEnd, length, cut,
             stays, m3, m4, dead, s2
<1>7. q \in Int /\ q = h + z /\ StartAddr + 5 <= q
  BY <1>1, <1>4
<1> HIDE DEF z, q, x
<1>8. h + 1 \in Memory /\ h - 3 \in Memory /\ h \in Memory /\ h + 2 \in Memory
      /\ q \in Memory /\ q + 1 \in Memory /\ q + 2 \in Memory
  BY <1>1, <1>3, <1>4, <1>7, HeapWords
<1>9. /\ m0 \in [Memory -> Int] /\ m0[h + 1] = 1
      /\ \A a \in Memory : a # h + 1 => m0[a] = mem[a]
  BY <1>1, <1>3, <1>8 DEF m0
<1>10. /\ m0[h - 3] = mem[h - 3] /\ m0[h] = mem[h] /\ m0[h + 2] = z
       /\ m0[q] = mem[q] /\ m0[q + 1] = mem[q + 1] /\ m0[q + 2] = x
  BY <1>1, <1>7, <1>8, <1>9 DEF z, x
<1>11. header = h /\ m1 = m0
  <2>1. header = h
    BY <1>5, <1>10 DEF header, LeftHeader, PotentialFooter, Magic, HEADER
  <2> QED
    BY <2>1 DEF m1
<1>12. foot0 = q - 2 /\ right = q
  BY <1>1, <1>7 DEF foot0, right, AssocFooter, SizeOf, FOOTER, z
<1>13. merge <=> q \in Holes
  <2>1. foot0 + FOOTER = q /\ foot0 + FOOTER + 1 = q + 1
    BY <1>7, <1>12 DEF FOOTER
  <2> QED
    BY <1>2, <1>10, <1>11, <2>1 DEF merge, RightIsHole, Magic, IsHole
<1>14. k \in Int /\ z <= k /\ h + k <= end_addr /\ k >= 5 /\ k \in 0 .. W - 1
  BY <1>1, <1>3, <1>4, <1>7
<1>15. m2 = IF q \in Holes THEN Resize(m0, h, k) ELSE m0
  <2>1. CASE q \in Holes
    <3>1. m2 = Resize(m0, h, Plus(z, x))
      BY <1>10, <1>11, <1>12, <1>13, <2>1 DEF m2, SizeOf
    <3>2. Plus(z, x) = k
      BY <1>1, <1>14, <2>1, NoWrap
    <3> QED
      BY <2>1, <3>1, <3>2
  <2>2. CASE q \notin Holes
    BY <1>11, <1>13, <2>2 DEF m2
  <2> QED
    BY <2>1, <2>2
<1>16. /\ m2 \in [Memory -> Int] /\ m2[h + 2] = k
       /\ \A a \in Memory : a # h + 2 => m2[a] = m0[a]
  <2>1. CASE q \in Holes
    <3>1. m2 = Resize(m0, h, k) /\ k \in Int
      BY <1>14, <1>15, <2>1
    <3> HIDE DEF k
    <3> QED
      BY <1>1, <1>8, <1>9, <3>1, ResizeFacts
  <2>2. CASE q \notin Holes
    BY <1>9, <1>10, <1>15, <2>2
  <2> QED
    BY <2>1, <2>2
<1>17. footer + FOOTER = h + k
  <2>1. CASE q \in Holes
    BY <1>1, <1>7, <1>10, <1>11, <1>12, <1>13, <2>1 DEF footer, AssocFooter, SizeOf, FOOTER
  <2>2. CASE q \notin Holes
    BY <1>1, <1>7, <1>12, <1>13, <2>2 DEF footer, FOOTER
  <2> QED
    BY <2>1, <2>2
<1>18. atEnd <=> h + k = end_addr
  BY <1>17 DEF atEnd
<1> HIDE DEF k
<1>19. s1 = IF q \in Holes THEN ArrayRemove(index, FindHeaderIndex(index, q)) ELSE index
  BY <1>12, <1>13 DEF s1
<1>20. /\ length = ContractedLength(h - StartAddr) /\ length \in Int
       /\ StartAddr + length <= end_addr /\ StartAddr + MinLength <= StartAddr + length
       /\ length % PageWords = 0
  <2> DEFINE a == h - StartAddr
             l == end_addr - StartAddr
  <2>1. a \in Int /\ l \in Int /\ a <= l /\ MinLength <= l /\ l % PageWords = 0
    BY <1>1, <1>3, <1>4, <1>7
  <2>2. length = ContractedLength(a)
    BY <1>11 DEF length
  <2> HIDE DEF a, l
  <2>3. /\ ContractedLength(a) \in Int /\ ContractedLength(a) <= l
        /\ MinLength <= ContractedLength(a) /\ ContractedLength(a) % PageWords = 0
    BY <2>1, ContractedFacts
  <2>4. StartAddr + length <= end_addr /\ StartAddr + MinLength <= StartAddr + length
    BY <1>3, <1>4, <2>2, <2>3 DEF l
  <2> QED
    BY <2>2, <2>3, <2>4 DEF a
<1> DEFINE n == IF h + k = end_addr THEN StartAddr + length - h ELSE k
           e2 == IF h + k = end_addr THEN StartAddr + length ELSE end_addr
<1>21. CASE h + k = end_addr
  <2>1. n = StartAddr + length - h /\ e2 = StartAddr + length
    BY <1>21
  <2> HIDE DEF n, e2
  <2>2. /\ n \in Int /\ n >= 5 /\ n <= k /\ h + n = e2 /\ InHeap(h, n)
        /\ e2 - StartAddr = length
    <3>1. StartAddr + length >= h + 5
      BY <1>2, <1>20, <1>21
    <3>2. h \in Int /\ StartAddr <= h
      BY <1>1
    <3>3. length \in Int /\ StartAddr + length <= end_addr
      BY <1>20
    <3> QED
      BY <1>3, <1>4, <1>14, <1>21, <2>1, <3>1, <3>2, <3>3 DEF InHeap
  <2>3. k - cut = n /\ k > cut
    <3>1. h \in Int /\ length \in Int /\ k \in Int /\ StartAddr \in Int
      BY <1>1, <1>4, <1>14, <1>20
    <3>2. cut = end_addr - StartAddr - length /\ n = StartAddr + length - h /\ n >= 5
      BY <2>1, <2>2 DEF cut
    <3>3. k = end_addr - h
      BY <1>21, <3>1
    <3> QED
      BY <1>3, <3>1, <3>2, <3>3
  <2>4. stays /\ SizeOf(m2, header) = k
    BY <1>11, <1>16, <2>3 DEF stays, SizeOf
  <2>5. m3 = Resize(m2, h, n) /\ m4 = MakeFooter(m3, AssocFooter(m3, h), h) /\ s2 = s1
    BY <1>11, <1>18, <1>21, <2>3, <2>4 DEF m3, m4, s2
  <2>6. /\ m3 \in [Memory -> Int] /\ m3[h + 2] = n
        /\ \A a \in Memory : a # h + 2 => m3[a] = m2[a]
    <3>1. m2 \in [Memory -> Int] /\ h \in Int /\ n \in Int /\ h + 2 \in Memory
      BY <1>1, <1>8, <1>16, <2>2
    <3> QED
      BY ONLY <2>5, <3>1, ResizeFacts
  <2> DEFINE f == h + n - 2
  <2>7. mem' = MakeFooter(m3, f, h)
    BY <1>6, <2>5, <2>6 DEF AssocFooter, SizeOf, FOOTER
  <2>8. f \in Int /\ f \in Memory /\ f + 1 \in Memory /\ h + 2 < f /\ f + 1 < h + n
    <3>1. h + n - 2 \in Memory /\ h + n - 1 \in Memory
      BY <2>2, InHeapWords
    <3> QED
      BY <1>1, <2>2, <3>1
  <2> HIDE DEF f
  <2>9. /\ mem' \in [Memory -> Int]
        /\ \A a \in Memory : a \notin f .. f + 1 => mem'[a] = m3[a]
    BY <1>1, <2>6, <2>7, <2>8, FooterFacts
  <2>10. mem'[h] = HEAP_MAGIC /\ mem'[h + 1] # 0 /\ mem'[h + 2] = n
    <3>1. mem'[h] = m3[h] /\ mem'[h + 1] = m3[h + 1] /\ mem'[h + 2] = m3[h + 2]
      BY <1>1, <1>8, <2>8, <2>9
    <3>2. m3[h] = m2[h] /\ m3[h + 1] = m2[h + 1] /\ m2[h] = m0[h] /\ m2[h + 1] = m0[h + 1]
      BY <1>1, <1>8, <1>16, <2>6
    <3> QED
      BY <1>1, <1>9, <1>10, <2>6, <3>1, <3>2
  <2>11. WrittenBetween(mem, mem', h, h + k)
    <3>1. SUFFICES ASSUME NEW a \in Memory, a \notin h .. h + k - 1 PROVE mem'[a] = mem[a]
      BY <1>1, <1>14 DEF WrittenBetween
    <3>2. a \in Int
      BY ConstantTypes DEF Memory, HEADER
    <3>3. a # h + 2 /\ a # h + 1 /\ a \notin f .. f + 1
      BY <1>1, <1>14, <2>2, <2>8, <3>1, <3>2
    <3> QED
      BY <1>9, <1>16, <2>6, <2>9, <3>3
  <2>12. index' = ArrayInsert(mem', s1, h) /\ end_addr' = e2
    BY <1>6, <1>11, <1>18, <1>21, <2>1, <2>5
  <2>13. FreeStep(h, k, n, e2)
    <3>1. /\ IF h + k = end_addr THEN e2 = h + n ELSE e2 = end_addr /\ n = k
          /\ e2 \in Int /\ StartAddr + MinLength <= e2 /\ e2 <= end_addr
      BY <1>1, <1>4, <1>20, <1>21, <2>1, <2>2
    <3>2. (e2 - StartAddr) % PageWords = 0
      BY <1>20, <2>2
    <3>3. k \in Int /\ n \in Int /\ 5 <= n /\ n <= k
      BY <1>14, <2>2
    <3> QED
      BY <1>19, <2>9, <2>10, <2>11, <2>12, <3>1, <3>2, <3>3 DEF FreeStep, k, q, z, x
  <2> QED
    BY <2>13 DEF h
<1>22. CASE h + k # end_addr
  <2>1. n = k /\ e2 = end_addr
    BY <1>22
  <2> HIDE DEF n, e2
  <2>2. m4 = m2 /\ s2 = s1
    BY <1>18, <1>22 DEF m4, m3, s2
  <2>3. /\ mem' \in [Memory -> Int] /\ mem'[h] = HEAP_MAGIC /\ mem'[h + 1] # 0
        /\ mem'[h + 2] = n
    <3>1. m2[h] = m0[h] /\ m2[h + 1] = m0[h + 1]
      BY <1>1, <1>8, <1>16
    <3> QED
      BY <1>1, <1>6, <1>9, <1>10, <1>16, <2>1, <2>2, <3>1
  <2>4. WrittenBetween(mem, mem', h, h + k)
    <3>1. SUFFICES ASSUME NEW a \in Memory, a \notin h .. h + k - 1 PROVE mem'[a] = mem[a]
      BY <1>1, <1>14 DEF WrittenBetween
    <3>2. a \in Int
      BY ConstantTypes DEF Memory, HEADER
    <3>3. a # h + 2 /\ a # h + 1
      BY <1>1, <1>14, <3>1, <3>2
    <3> QED
      BY <1>6, <1>9, <1>16, <2>2, <3>3
  <2>5. index' = ArrayInsert(mem', s1, h) /\ end_addr' = e2
    BY <1>6, <1>11, <1>18, <1>22, <2>1, <2>2
  <2>a. k \in Int /\ n \in Int /\ 5 <= n /\ n <= k /\ e2 \in Int /\ e2 <= end_addr
    BY <1>3, <1>14, <2>1
  <2>6. FreeStep(h, k, n, e2)
    <3>1. /\ IF h + k = end_addr THEN e2 = h + n ELSE e2 = end_addr /\ n = k
          /\ StartAddr + MinLength <= e2 /\ (e2 - StartAddr) % PageWords = 0
      BY <1>4, <1>22, <2>1
    <3> QED
      BY <1>19, <2>3, <2>4, <2>5, <2>a, <3>1 DEF FreeStep, k, q, z, x
  <2> QED
    BY <2>6 DEF h
<1> QED
  BY <1>21, <1>22

LEMMA KfreeInv ==
  ASSUME Careful, HeapInv, NEW b \in live, Kfree(b)
  PROVE  HeapInv'
<1> DEFINE h == b.ptr - HEADER
           z == mem[h + 2]
           q == h + z
<1>1. /\ FreeSuits(h) /\ Magic(mem, PotentialFooter(h)) # HEAP_MAGIC
      /\ request = NoRequest /\ request' = request /\ top' = top /\ live' = live \ {b}
      /\ status' = FreeOutcome(h)
      /\ status' = "run" => FreeBlock(h)
  BY DEF Kfree, MayFree, Careful
<1>2. status' = "run" /\ FreeBlock(h)
  BY <1>1, FreeRuns
<1>3. PICK k, n, e2 : FreeStep(h, k, n, e2)
  BY <1>1, <1>2, FreeShape
<1> DEFINE s1 == IF q \in Holes THEN ArrayRemove(index, FindHeaderIndex(index, q)) ELSE index
           F2 == (Holes \ {q}) \cup {h}
           T2 == Taken \ {h}
<1>4. /\ k \in Int /\ n \in Int /\ 5 <= n /\ n <= k
      /\ k = IF h + mem[h + 2] \in Holes THEN mem[h + 2] + mem[h + mem[h + 2] + 2]
             ELSE mem[h + 2]
      /\ IF h + k = end_addr THEN e2 = h + n ELSE e2 = end_addr /\ n = k
      /\ e2 \in Int /\ StartAddr + MinLength <= e2 /\ e2 <= end_addr
      /\ (e2 - StartAddr) % PageWords = 0
      /\ mem' \in [Memory -> Int] /\ WrittenBetween(mem, mem', h, h + k)
      /\ mem'[h] = HEAP_MAGIC /\ mem'[h + 1] # 0 /\ mem'[h + 2] = n
      /\ index' = ArrayInsert(mem', s1, h)
      /\ end_addr' = e2
  BY <1>3 DEF FreeStep
<1>5. /\ mem \in [Memory -> Int] /\ index \in Seq(Int)
      /\ Holes \in SUBSET Int /\ Taken \in SUBSET Int
      /\ end_addr \in Int /\ end_addr <= MaxAddr /\ end_addr <= top /\ top \in Int
      /\ Tiled(mem, Holes, Taken, end_addr)
  BY InvFacts
<1>6. h \in Taken /\ h \in Int /\ StartAddr <= h /\ StartAddr \in Int /\ StartAddr >= 6
  BY BlockFacts, ConstantTypes
<1>7. Unique(index) /\ Holes \cap Taken = {} /\ h # NULL /\ top <= MaxAddr
  BY <1>5, <1>6 DEF HeapInv, ShapeInv, Tiled, NULL
<1>8. Tiled(mem', F2, T2, e2) /\ \A g \in T2 : mem'[g + 2] = mem[g + 2]
  <2> HIDE DEF h
  <2>1. FreedHeap(mem, Holes, Taken, end_addr, h, k, n, e2, mem', F2, T2)
    BY <1>4, <1>5, <1>6 DEF FreedHeap
  <2> QED
    BY <2>1, Freed
<1> HIDE DEF h, z, q
<1>9. s1 \in Seq(Int) /\ Unique(s1) /\ Range(s1) \ {NULL} = Holes \ {q}
  <2>1. CASE q \in Holes
    <3> DEFINE i == FindHeaderIndex(index, q)
    <3>1. q \in Range(index) /\ q # NULL
      BY <2>1 DEF Holes
    <3>2. i \in 1 .. Len(index) /\ index[i] = q
      BY <1>5, <3>1, FindFacts
    <3>3. s1 = ArrayRemove(index, i)
      BY <2>1
    <3> HIDE DEF i, s1
    <3> QED
      BY <1>5, <1>7, <3>1, <3>2, <3>3, RemoveFacts DEF Holes
  <2>2. CASE q \notin Holes
    BY <1>5, <1>7, <2>2 DEF Holes
  <2> QED
    BY <2>1, <2>2
<1> HIDE DEF s1
<1>10. h \notin Range(s1)
  BY <1>6, <1>7, <1>9
<1>11. index' \in Seq(Int) /\ Unique(index') /\ Range(index') = Range(s1) \cup {h}
  BY <1>4, <1>6, <1>9, <1>10, InsertFacts
<1>12. Holes' = F2
  BY <1>7, <1>9, <1>11 DEF Holes
<1>13. ASSUME NEW c \in live, c # b PROVE c.ptr - HEADER # h /\ c.ptr - HEADER \in Taken
  <2>1. c.ptr # b.ptr
    BY <1>13 DEF HeapInv, LiveInv
  <2>2. c.ptr \in Int /\ b.ptr \in Int
    BY InvFacts
  <2> QED
    BY <2>1, <2>2 DEF h, HEADER, Taken
<1>14. Taken' = T2
  <2>1. Taken' = {c.ptr - HEADER : c \in live \ {b}}
    BY <1>1 DEF Taken
  <2>2. ASSUME NEW g \in T2 PROVE g \in Taken'
    <3>1. PICK c \in live : g = c.ptr - HEADER
      BY DEF Taken
    <3>2. c # b
      BY <3>1 DEF h
    <3> QED
      BY <2>1, <3>1, <3>2
  <2>3. ASSUME NEW g \in Taken' PROVE g \in T2
    <3>1. PICK c \in live \ {b} : g = c.ptr - HEADER
      BY <2>1
    <3> QED
      BY <1>13, <3>1
  <2> QED
    BY <2>2, <2>3
<1> HIDE DEF F2
<1>15. TypeInv'
  BY <1>1, <1>4, <1>5, <1>11 DEF HeapInv, TypeInv
<1>16. ShapeInv'
  <2>1. e2 <= top
    BY <1>4, <1>5
  <2> QED
    BY <1>1, <1>4, <1>7, <1>8, <1>11, <1>12, <1>14, <2>1 DEF ShapeInv
<1>17. LiveInv'
  <2>1. ASSUME NEW c \in live \ {b} PROVE mem'[c.ptr - 1] = mem[c.ptr - 1]
    <3>1. c.ptr \in Int
      BY InvFacts
    <3>2. c.ptr - HEADER \in T2
      BY <1>13
    <3>3. (c.ptr - HEADER) + 2 = c.ptr - 1
      BY <3>1 DEF HEADER
    <3>4. mem'[(c.ptr - HEADER) + 2] = mem[(c.ptr - HEADER) + 2]
      BY <1>8, <3>2
    <3> QED
      BY <3>3, <3>4
  <2> QED
    BY <1>1, <2>1 DEF HeapInv, LiveInv
<1>18. RequestInv'
  BY <1>1 DEF RequestInv
<1> QED
  BY <1>2, <1>15, <1>16, <1>17, <1>18 DEF HeapInv

\* A caller that writes its block leaves header and footers alone.
LEMMA WriteBlockInv ==
  ASSUME HeapInv, NEW b \in live, NEW v \in Values, WriteBlock(b, v)
  PROVE  HeapInv'
<1> DEFINE h == b.ptr - HEADER
           z == mem[h + 2]
           c == [b EXCEPT !.written = TRUE]
<1>1. /\ request = NoRequest /\ request' = request /\ status' = status
      /\ index' = index /\ end_addr' = end_addr /\ top' = top
      /\ live' = (live \ {b}) \cup {c}
  BY DEF WriteBlock
<1>2. mem' = [a \in DOMAIN mem |->
               IF a \in b.ptr .. b.ptr + b.size - 1 THEN v ELSE mem[a]]
  BY DEF WriteBlock
<1>3. /\ mem \in [Memory -> Int] /\ Holes \in SUBSET Int /\ Taken \in SUBSET Int
      /\ end_addr \in Int /\ end_addr <= MaxAddr /\ Tiled(mem, Holes, Taken, end_addr)
      /\ b.ptr \in Int /\ b.size \in Nat
  BY InvFacts
<1>4. /\ h \in Taken /\ h \in Int /\ z \in Int /\ z >= 5 /\ StartAddr <= h
      /\ h + z <= end_addr
  BY BlockFacts
<1>5. b.ptr = h + 3 /\ b.size + 5 <= z
  <2>1. b.size + 5 <= mem[b.ptr - 1]
    BY DEF HeapInv, LiveInv
  <2>2. b.ptr = h + 3 /\ b.ptr - 1 = h + 2
    BY <1>3 DEF HEADER
  <2> QED
    BY <2>1, <2>2
<1> HIDE DEF h
<1>6. /\ c.ptr = b.ptr /\ c.size = b.size
      /\ c \in [ptr : Int, size : Nat, written : BOOLEAN]
  BY DEF HeapInv, TypeInv
<1> HIDE DEF c
<1>7. mem' \in [Memory -> Int] /\ \A a \in Memory : a \notin h + 3 .. h + z - 3 => mem'[a] = mem[a]
  <2>1. v \in Int
    BY HeapAssumption DEF Word
  <2>2. mem' \in [Memory -> Int]
    BY <1>2, <1>3, <2>1
  <2>3. ASSUME NEW a \in Memory, a \notin h + 3 .. h + z - 3 PROVE mem'[a] = mem[a]
    <3>1. a \in Int
      BY ConstantTypes DEF Memory, HEADER
    <3>2. a \notin b.ptr .. b.ptr + b.size - 1
      BY <1>3, <1>4, <1>5, <2>3, <3>1
    <3> QED
      BY <1>2, <1>3, <3>2
  <2> QED
    BY <2>2, <2>3
<1>8. ASSUME NEW g \in Holes \cup Taken PROVE KeptTile(mem, mem', g)
  <2>1. CASE g = h
    <3>1. InHeap(h, z)
      BY <1>3, <1>4, ConstantTypes DEF InHeap
    <3>2. /\ h \in Memory /\ h + 1 \in Memory /\ h + 2 \in Memory
          /\ h + z - 2 \in Memory /\ h + z - 1 \in Memory
      BY <3>1, InHeapWords
    <3>3. mem'[h] = mem[h] /\ mem'[h + 1] = mem[h + 1] /\ mem'[h + 2] = mem[h + 2]
      BY <1>4, <1>7, <3>2
    <3> HIDE DEF z
    <3>4. mem'[h + z - 2] = mem[h + z - 2] /\ mem'[h + z - 1] = mem[h + z - 1]
      <4>1. h + z - 2 \notin h + 3 .. h + z - 3 /\ h + z - 1 \notin h + 3 .. h + z - 3
        BY <1>4
      <4> QED
        BY <1>7, <3>2, <4>1
    <3> QED
      BY <2>1, <3>3, <3>4 DEF KeptTile, z
  <2>2. CASE g # h
    <3>1. WrittenInside(mem, mem', h)
      <4>1. SUFFICES ASSUME NEW a \in Memory, a \notin h .. h + z - 1 PROVE mem'[a] = mem[a]
        BY <1>4 DEF WrittenInside
      <4>2. a \in Int
        BY ConstantTypes DEF Memory, HEADER
      <4>3. a \notin h + 3 .. h + z - 3
        BY <1>4, <4>1, <4>2
      <4> QED
        BY <1>7, <4>3
    <3>2. h \in Holes \cup Taken
      BY <1>4
    <3> QED
      BY <1>3, <2>2, <3>1, <3>2, OtherTiles DEF KeptTile
  <2> QED
    BY <2>1, <2>2
<1>9. Tiled(mem', Holes, Taken, end_addr)
  <2> DEFINE H == Holes \cup Taken
             s == SizesIn(mem)
             t == SizesIn(mem')
  <2>1. /\ H \in SUBSET Int /\ s \in [Int -> Int] /\ t \in [Int -> Int]
        /\ Tiling(H, s, end_addr)
    BY <1>3, <1>7, SizesType DEF Tiled
  <2>2. \A g \in H : t[g] = s[g]
    BY <1>3, <1>8 DEF KeptTile, SizesIn
  <2> HIDE DEF H, s, t
  <2>3. Tiling(H, t, end_addr)
    BY <1>3, <2>1, <2>2, SameTiling
  <2>4. \A g \in Holes \cup Taken : mem'[g] = HEAP_MAGIC /\ (mem'[g + 1] # 0 <=> g \in Holes)
    BY <1>3, <1>8 DEF KeptTile, Tiled
  <2>5. \A g \in Taken : /\ mem'[g + mem'[g + 2] - 2] = HEAP_MAGIC
                         /\ mem'[g + mem'[g + 2] - 1] = g
    BY <1>3, <1>8 DEF KeptTile, Tiled
  <2>6. Holes \cap Taken = {}
    BY <1>3 DEF Tiled
  <2> QED
    BY <2>3, <2>4, <2>5, <2>6 DEF Tiled, H, t
<1>10. Holes' = Holes
  BY <1>1 DEF Holes
<1>11. Taken' = Taken
  <2>1. Taken' = {d.ptr - HEADER : d \in (live \ {b}) \cup {c}}
    BY <1>1 DEF Taken
  <2>2. ASSUME NEW g \in Taken PROVE g \in Taken'
    <3>1. PICK d \in live : g = d.ptr - HEADER
      BY DEF Taken
    <3> QED
      BY <1>6, <2>1, <3>1
  <2>3. ASSUME NEW g \in Taken' PROVE g \in Taken
    <3>1. PICK d \in (live \ {b}) \cup {c} : g = d.ptr - HEADER
      BY <2>1
    <3> QED
      BY <1>6, <3>1 DEF Taken
  <2> QED
    BY <2>2, <2>3
<1>12. TypeInv'
  BY <1>1, <1>6, <1>7 DEF HeapInv, TypeInv
<1>13. ShapeInv'
  BY <1>1, <1>9, <1>10, <1>11 DEF HeapInv, ShapeInv
<1>14. LiveInv'
  <2>1. ASSUME NEW d \in live PROVE mem'[d.ptr - 1] = mem[d.ptr - 1]
    <3>1. d.ptr \in Int /\ d.ptr - 3 \in Taken
      BY InvFacts
    <3>2. (d.ptr - 3) + 2 = d.ptr - 1
      BY <3>1
    <3>3. mem'[(d.ptr - 3) + 2] = mem[(d.ptr - 3) + 2]
      BY <1>8, <3>1 DEF KeptTile
    <3> QED
      BY <3>2, <3>3
  <2>2. \A d \in live : d.size + 5 <= mem'[d.ptr - 1]
    BY <2>1 DEF HeapInv, LiveInv
  <2>3. \A d \in live' : d.size + 5 <= mem'[d.ptr - 1]
    BY <1>1, <1>6, <2>2
  <2>4. \A d, e \in live' : d.ptr = e.ptr => d = e
    BY <1>1, <1>6 DEF HeapInv, LiveInv
  <2> QED
    BY <2>3, <2>4 DEF LiveInv
<1>15. RequestInv'
  BY <1>1 DEF RequestInv
<1> QED
  BY <1>1, <1>12, <1>13, <1>14, <1>15 DEF HeapInv

-----------------------------------------------------------------------------
(***************************************************************************)
(* The theorems.                                                           *)
(***************************************************************************)

\* Nothing happens.
LEMMA StutterInv ==
  ASSUME HeapInv, UNCHANGED vars
  PROVE  HeapInv'
<1> USE DEF vars
<1>1. Holes' = Holes /\ Taken' = Taken
  BY DEF Holes, Taken
<1>2. TypeInv'
  BY DEF HeapInv, TypeInv
<1>3. ShapeInv' /\ LiveInv'
  BY <1>1 DEF HeapInv, ShapeInv, LiveInv
<1>4. RequestInv'
  <2> DEFINE size == request.size
             align == request.align
  <2>1. Fitting(TotalSize(size), align)' = Fitting(TotalSize(size), align)
    BY DEF Fitting, Fits
  <2>2. GrowthSuits(size, align)' <=> GrowthSuits(size, align)
    BY DEF GrowthSuits, GrownRest, ExpandedLength
  <2>3. HoleSuits(size, align)' <=> HoleSuits(size, align)
    BY <2>1 DEF HoleSuits, SmallestHole
  <2>4. request' = request /\ RequestInv
    BY DEF HeapInv
  <2> QED
    BY <2>1, <2>2, <2>3, <2>4 DEF RequestInv
<1> QED
  BY <1>2, <1>3, <1>4 DEF HeapInv

LEMMA NextInv ==
  ASSUME Careful, HeapInv, [Next]_vars
  PROVE  HeapInv'
<1>1. CASE \E size \in Sizes, align \in Alignments : Kmalloc(size, align)
  BY <1>1, KmallocInv
<1>2. CASE AllocFromHole
  BY <1>2, AllocInv
<1>3. CASE MakeSpace
  BY <1>3, SpaceInv
<1>4. CASE \E b \in live : Kfree(b)
  BY <1>4, KfreeInv
<1>5. CASE \E b \in live, v \in Values : WriteBlock(b, v)
  BY <1>5, WriteBlockInv
<1>6. CASE Rest \/ UNCHANGED vars
  BY <1>6, StutterInv DEF Rest
<1> QED
  BY <1>1, <1>2, <1>3, <1>4, <1>5, <1>6 DEF Next

LEMMA HeapInvariant == ASSUME Careful PROVE Spec => []HeapInv
<1>1. Init => HeapInv
  BY InvInit
<1>2. HeapInv /\ [Next]_vars => HeapInv'
  BY NextInv
<1> QED
  BY <1>1, <1>2, PTL DEF Spec

LEMMA InvTiled ==
  ASSUME HeapInv
  PROVE  HeapTiled
<1> DEFINE heads == Holes \cup Taken
           s == SizesIn(mem)
<1>1. /\ mem \in [Memory -> Int] /\ Holes \in SUBSET Int /\ Taken \in SUBSET Int
      /\ end_addr \in Int /\ end_addr <= MaxAddr /\ Tiled(mem, Holes, Taken, end_addr)
  BY InvFacts
<1>2. StartAddr \in Int /\ MinLength \in Int /\ MaxAddr \in Int
  BY ConstantTypes
<1>3. end_addr \in StartAddr + MinLength .. MaxAddr /\ Unique(index)
  BY <1>1, <1>2 DEF HeapInv, ShapeInv
<1>4. StartAddr \in heads /\ Holes \cap Taken = {}
  BY <1>1 DEF Tiled, Tiling
<1>5. ASSUME NEW h \in heads
      PROVE  /\ Magic(mem, h) = HEAP_MAGIC
             /\ IsHole(mem, h) <=> h \in Holes
             /\ SizeOf(mem, h) >= HEADER + FOOTER
             /\ h + SizeOf(mem, h) \in heads \cup {end_addr}
             /\ ~ \E g \in heads : g \in h + 1 .. h + SizeOf(mem, h) - 1
  <2>1. mem[h] = HEAP_MAGIC /\ (mem[h + 1] # 0 <=> h \in Holes)
    BY <1>1 DEF Tiled
  <2>2. s[h] = mem[h + 2] /\ mem[h + 2] \in Int /\ mem[h + 2] >= 5
    BY <1>1, TileFacts
  <2>3. h + mem[h + 2] \in heads \cup {end_addr}
    <3>1. Tiling(heads, s, end_addr)
      BY <1>1 DEF Tiled
    <3> HIDE DEF heads, s
    <3>2. h + s[h] \in heads \/ h + s[h] = end_addr
      BY <3>1 DEF Tiling
    <3> QED
      BY <2>2, <3>2
  <2>4. ASSUME NEW g \in heads PROVE g \notin h + 1 .. h + mem[h + 2] - 1
    <3>1. h < g => h + mem[h + 2] <= g
      BY <1>1, TileFacts
    <3>2. g \in Int /\ h \in Int
      BY <1>1
    <3> QED
      BY <2>2, <3>1, <3>2
  <2> QED
    BY <2>1, <2>2, <2>3, <2>4 DEF Magic, IsHole, SizeOf, HEADER, FOOTER
<1> QED
  BY <1>3, <1>4, <1>5 DEF HeapTiled, Unique

\* Holes and blocks in use tile the heap from start_addr to end_addr, whatever
\* alloc split and free merged and cut off, for every word, page and heap size
\* and every sequence of calls within the limits.
THEOREM HeapStaysTiled == ASSUME Careful PROVE Spec => []HeapTiled
<1>1. HeapInv => HeapTiled
  BY InvTiled
<1> QED
  BY <1>1, HeapInvariant, PTL

\* Within the limits no ASSERT of alloc.c and heap.c fails and alloc and free
\* touch no unmapped word.
THEOREM HeapNeverStops == ASSUME Careful PROVE Spec => []NeverStops
<1>1. HeapInv => NeverStops
  BY DEF HeapInv, NeverStops
<1> QED
  BY <1>1, HeapInvariant, PTL

\* When make_space has made the heap longer, find_smallest_hole finds a hole, so
\* that alloc calls itself once.
THEOREM GrowthIsEnough == ASSUME Careful PROVE Spec => GrowthSuffices
<1> DEFINE Enough == request # NoRequest /\ end_addr' > end_addr
                       => (Fitting(TotalSize(request.size), request.align) # {})'
<1>1. HeapInv /\ [Next]_vars => [Enough]_vars
  <2>1. SUFFICES ASSUME HeapInv, Next, request # NoRequest, end_addr' > end_addr
                 PROVE  (Fitting(TotalSize(request.size), request.align) # {})'
    OBVIOUS
  <2>2. end_addr \in Int
    BY <2>1, InvFacts
  <2>3. end_addr' # end_addr
    BY <2>1, <2>2
  <2>4. MakeSpace
    BY <2>1, <2>3 DEF Next, Kmalloc, AllocFromHole, Kfree, WriteBlock, Rest, vars
  <2>5. SpaceMade /\ request' = request
    BY <2>1, <2>4, SpaceInv DEF MakeSpace
  <2> QED
    BY <2>5 DEF SpaceMade
<1> QED
  BY <1>1, HeapInvariant, PTL DEF Spec, GrowthSuffices

\* A block asked for with align begins a page, whether alloc leaves a gap in front
\* of it or the hole was in the right place already.
THEOREM BlocksAreAligned == ASSUME Careful PROVE Spec => AlignedAsAsked
<1> DEFINE Right == \A b \in live' : (request.align /\ b \notin live) => Aligned(b.ptr)
<1>1. HeapInv /\ [Next]_vars => [Right]_vars
  <2>1. SUFFICES ASSUME HeapInv, Next, NEW b \in live', request.align, b \notin live
                 PROVE  Aligned(b.ptr)
    OBVIOUS
  <2>2. request # NoRequest
    BY <2>1 DEF NoRequest
  <2>3. AllocFromHole
    BY <2>1, <2>2 DEF Next, Kmalloc, MakeSpace, Kfree, WriteBlock, Rest, vars
  <2>4. PICK h, i, G, B, R : Choice(h, i, G, B, R) /\ AllocStep(h, i, G, B, R)
    BY <2>1, <2>3, AllocShape
  <2>5. b.ptr = h + G + 3
    BY <2>1, <2>4 DEF AllocStep
  <2>6. Aligned(h + G + 3)
    BY <2>1, <2>4 DEF Choice
  <2> QED
    BY <2>5, <2>6
<1> QED
  BY <1>1, HeapInvariant, PTL DEF Spec, AlignedAsAsked

-----------------------------------------------------------------------------
(***************************************************************************)
(* The heap implements the allocator.                                      *)
(***************************************************************************)

\* The words a caller may write lie inside the block's tile.
LEMMA SpanFacts ==
  ASSUME HeapInv, NEW b \in live, NEW a \in Abs!Span(b)
  PROVE  /\ a \in Int /\ a \in Memory /\ StartAddr <= a /\ a < end_addr
         /\ \A h \in Holes \cup Taken :
              h # b.ptr - 3 => (a < h \/ h + mem[h + 2] <= a)
<1> DEFINE g == b.ptr - HEADER
           z == mem[g + 2]
<1>1. /\ mem \in [Memory -> Int] /\ Holes \in SUBSET Int /\ Taken \in SUBSET Int
      /\ end_addr \in Int /\ end_addr <= MaxAddr /\ Tiled(mem, Holes, Taken, end_addr)
      /\ b.ptr \in Int /\ b.size \in Nat
  BY InvFacts
<1>2. /\ g \in Taken /\ g \in Int /\ z \in Int /\ z >= 5 /\ StartAddr <= g
      /\ g + z <= end_addr
  BY BlockFacts
<1>3. b.ptr = g + 3 /\ b.size + 5 <= z
  <2>1. b.size + 5 <= mem[b.ptr - 1]
    BY DEF HeapInv, LiveInv
  <2>2. b.ptr = g + 3 /\ b.ptr - 1 = g + 2
    BY <1>1 DEF HEADER
  <2> QED
    BY <2>1, <2>2
<1>4. a \in Int /\ b.ptr <= a /\ a < b.ptr + b.size
  BY <1>1 DEF Abs!Span
<1>5. StartAddr \in Int /\ MaxAddr \in Int
  BY ConstantTypes
<1> HIDE DEF g
<1>6. StartAddr <= a /\ a < end_addr /\ g <= a /\ a < g + z
  BY <1>1, <1>2, <1>3, <1>4, <1>5
<1>7. a \in Memory
  BY <1>1, <1>4, <1>5, <1>6, HeapWords
<1>8. ASSUME NEW h \in Holes \cup Taken, h # b.ptr - 3
      PROVE  a < h \/ h + mem[h + 2] <= a
  <2>1. h \in Int /\ h # g
    BY <1>1, <1>3, <1>8, <1>2
  <2>2. g \in Holes \cup Taken
    BY <1>2
  <2>3. (g < h => g + z <= h) /\ (h < g => h + mem[h + 2] <= g) /\ mem[h + 2] \in Int
    BY <1>1, <2>2, TileFacts
  <2> QED
    BY <1>2, <1>4, <1>6, <2>1, <2>3
<1> QED
  BY <1>4, <1>6, <1>7, <1>8

\* A write to the words from lo up to hi keeps a block that has none of them.
LEMMA SpanKept ==
  ASSUME HeapInv, NEW b \in live, NEW lo \in Int, NEW hi \in Int,
         WrittenBetween(mem, mem', lo, hi),
         \A a \in Abs!Span(b) : a < lo \/ hi <= a
  PROVE  \A a \in Abs!Span(b) : mem'[a] = mem[a]
<1>1. SUFFICES ASSUME NEW a \in Abs!Span(b) PROVE mem'[a] = mem[a]
  OBVIOUS
<1>2. a \in Int /\ a \in Memory
  BY SpanFacts
<1>3. a \notin lo .. hi - 1
  BY <1>2
<1> QED
  BY <1>2, <1>3 DEF WrittenBetween

\* The block as the allocator sees it.
Seen(b) == [ptr |-> b.ptr, size |-> b.size]

LEMMA SeenSpan ==
  ASSUME NEW b
  PROVE  Abs!Span(Seen(b)) = Abs!Span(b)
  BY DEF Seen, Abs!Span

\* What it is for the words of the blocks in use to be kept, in the heap's terms.
LEMMA KeptSeen ==
  ASSUME NEW L, \A b \in L : \A a \in Abs!Span(b) : mem'[a] = mem[a]
  PROVE  \A c \in {Seen(b) : b \in L} : Abs!Kept(c)
<1>1. SUFFICES ASSUME NEW b \in L PROVE Abs!Kept(Seen(b))
  OBVIOUS
<1> QED
  BY SeenSpan DEF Abs!Kept

LEMMA AllocGives ==
  ASSUME HeapInv, AllocFromHole
  PROVE  Abs!Give
<1>1. PICK h, i, G, B, R : Choice(h, i, G, B, R) /\ AllocStep(h, i, G, B, R)
  BY AllocShape
<1>2. /\ h \in Holes
      /\ G \in Int /\ B \in Int /\ R \in Int /\ Parts(mem[h + 2], G, B, R)
      /\ request.size + 5 <= B
  BY <1>1 DEF Choice
<1> DEFINE n == mem[h + 2]
           ptr == h + G + 3
           nb == [ptr |-> ptr, size |-> request.size, written |-> FALSE]
<1>3. /\ mem' = AllocMemory(mem, h, G, B, R, end_addr)
      /\ live' = live \cup {nb} /\ request' = NoRequest
  BY <1>1 DEF AllocStep
<1>4. /\ mem \in [Memory -> Int] /\ Holes \in SUBSET Int /\ Taken \in SUBSET Int
      /\ end_addr \in Int /\ end_addr <= MaxAddr
      /\ Tiled(mem, Holes, Taken, end_addr)
  BY InvFacts
<1>5. n \in Int /\ StartAddr <= h /\ h + n <= end_addr /\ h \in Int /\ n >= 5
  BY <1>2, <1>4, TileFacts
<1>6. /\ StartAddr \in Int /\ MaxAddr \in Int
      /\ request.size \in Nat /\ request.size # 0 /\ NoRequest.size = 0
  <2>1. request # NoRequest
    BY DEF AllocFromHole
  <2> QED
    BY <2>1, ConstantTypes, HeapAssumption DEF HeapInv, TypeInv, RequestInv, NoRequest
<1> HIDE DEF n
<1>7. WrittenBetween(mem, mem', h, h + n)
  <2>1. h + n <= MaxAddr
    BY <1>4, <1>5, <1>6
  <2>2. Allocation(mem, h, G, B, R, n)
    BY <1>2, <1>4, <1>5, <2>1 DEF Allocation, n
  <2> QED
    BY <1>3, <2>2, AllocWrites DEF AllocWritten
<1>8. ASSUME NEW b \in live, NEW a \in Abs!Span(b) PROVE a < h \/ h + n <= a
  <2>1. b.ptr - 3 \in Taken
    BY InvFacts
  <2>2. h # b.ptr - 3
    BY <1>2, <1>4, <2>1 DEF Tiled
  <2> QED
    BY <1>2, <2>2, SpanFacts DEF n
<1>9. \A c \in {Seen(b) : b \in live} : Abs!Kept(c)
  <2>1. h + n \in Int
    BY <1>5
  <2>2. \A b \in live : \A a \in Abs!Span(b) : mem'[a] = mem[a]
    BY <1>5, <1>7, <1>8, <2>1, SpanKept
  <2> QED
    BY <2>2, KeptSeen
<1>10. ASSUME NEW a \in Abs!Span(Seen(nb))
       PROVE  a \in Int /\ h <= a /\ a < h + n
  <2>1. a \in ptr .. ptr + request.size - 1
    BY DEF Abs!Span, Seen
  <2>2. 0 <= G /\ 0 <= R /\ G + B + R = n
    BY <1>2 DEF Parts, n
  <2> QED
    BY <1>2, <1>5, <1>6, <2>1, <2>2
<1>11. ptr \in StartAddr .. MaxAddr - 1
  <2>1. 0 <= G /\ 0 <= R /\ G + B + R = n
    BY <1>2 DEF Parts, n
  <2> QED
    BY <1>2, <1>4, <1>5, <1>6, <2>1
<1> DEFINE span == Abs!Span(Seen(nb))
<1>a. \A a \in span : a \in Int /\ h <= a /\ a < h + n
  BY <1>10
<1> HIDE DEF span
<1>12. span \subseteq StartAddr .. MaxAddr - 1
  BY <1>4, <1>5, <1>6, <1>a
<1>13. \A c \in {Seen(b) : b \in live} : span \cap Abs!Span(c) = {}
  <2>1. SUFFICES ASSUME NEW b \in live, NEW a \in span, a \in Abs!Span(b)
                 PROVE  FALSE
    BY SeenSpan
  <2>2. a < h \/ h + n <= a
    BY <1>8, <2>1
  <2> QED
    BY <1>5, <1>a, <2>2
<1>14. {Seen(b) : b \in live'} = {Seen(b) : b \in live} \cup {Seen(nb)}
  BY <1>3
<1>15. Seen(nb) = [ptr |-> ptr, size |-> request.size]
  BY DEF Seen
<1> HIDE DEF nb, ptr
<1> QED
  BY <1>3, <1>6, <1>9, <1>11, <1>12, <1>13, <1>14, <1>15 DEF Abs!Give, Seen, span

LEMMA SpacePrepares ==
  ASSUME HeapInv, MakeSpace
  PROVE  Abs!Prepare
<1>1. PICK h, n, k, e2 : SpaceStep(h, n, k, e2)
  BY SpaceShape
<1>2. /\ h \in Int /\ e2 \in Int /\ WrittenBetween(mem, mem', h, e2)
      /\ live' = live /\ request' = request
      /\ (h \in Holes /\ h + mem[h + 2] = end_addr) \/ h = end_addr
  BY <1>1 DEF SpaceStep
<1>3. ASSUME NEW b \in live, NEW a \in Abs!Span(b) PROVE a < h
  <2>1. b.ptr - 3 \in Taken /\ Tiled(mem, Holes, Taken, end_addr) /\ end_addr \in Int
    BY InvFacts
  <2>2. h \in Holes => h # b.ptr - 3
    BY <2>1 DEF Tiled
  <2>3. a \in Int /\ a < end_addr /\ (h \in Holes => (a < h \/ h + mem[h + 2] <= a))
    BY <2>2, SpanFacts
  <2> QED
    BY <1>2, <2>1, <2>3
<1>4. \A c \in {Seen(b) : b \in live} : Abs!Kept(c)
  <2>1. \A b \in live : \A a \in Abs!Span(b) : mem'[a] = mem[a]
    BY <1>2, <1>3, SpanKept
  <2> QED
    BY <2>1, KeptSeen
<1>5. request.size # 0
  <2>1. request # NoRequest
    BY DEF MakeSpace
  <2> QED
    BY <2>1, HeapAssumption DEF HeapInv, RequestInv
<1> QED
  BY <1>2, <1>4, <1>5 DEF Abs!Prepare, Seen

LEMMA FreeReleases ==
  ASSUME Careful, HeapInv, NEW b \in live, Kfree(b)
  PROVE  Abs!Release
<1> DEFINE h == b.ptr - HEADER
           q == h + mem[h + 2]
<1>1. /\ FreeSuits(h) /\ Magic(mem, PotentialFooter(h)) # HEAP_MAGIC
      /\ request = NoRequest /\ request' = request /\ live' = live \ {b}
      /\ status' = FreeOutcome(h)
      /\ status' = "run" => FreeBlock(h)
  BY DEF Kfree, MayFree, Careful
<1>2. FreeBlock(h)
  BY <1>1, FreeRuns
<1>3. PICK k, n, e2 : FreeStep(h, k, n, e2)
  BY <1>1, <1>2, FreeShape
<1>4. /\ k \in Int /\ WrittenBetween(mem, mem', h, h + k)
      /\ k = IF q \in Holes THEN mem[h + 2] + mem[q + 2] ELSE mem[h + 2]
  BY <1>3 DEF FreeStep
<1>5. /\ h \in Taken /\ h \in Int /\ mem[h + 2] \in Int
      /\ q \in Holes => mem[q + 2] \in Int
  BY BlockFacts
<1> HIDE DEF h
<1>6. ASSUME NEW c \in live, c # b, NEW a \in Abs!Span(c) PROVE a < h \/ h + k <= a
  <2>1. c.ptr # b.ptr
    BY <1>6 DEF HeapInv, LiveInv
  <2>2. /\ c.ptr \in Int /\ b.ptr \in Int /\ c.ptr - 3 \in Taken
        /\ Tiled(mem, Holes, Taken, end_addr)
    BY InvFacts
  <2>3. h # c.ptr - 3 /\ (q \in Holes => q # c.ptr - 3)
    BY <2>1, <2>2 DEF h, HEADER, Tiled
  <2>4. /\ a \in Int /\ (a < h \/ q <= a)
        /\ q \in Holes => (a < q \/ q + mem[q + 2] <= a)
    BY <1>5, <2>3, SpanFacts
  <2> QED
    BY <1>4, <1>5, <2>4
<1>7. \A c \in {Seen(d) : d \in live \ {b}} : Abs!Kept(c)
  <2>1. h + k \in Int
    BY <1>4, <1>5
  <2>2. \A d \in live \ {b} : \A a \in Abs!Span(d) : mem'[a] = mem[a]
    BY <1>4, <1>5, <1>6, <2>1, SpanKept
  <2> QED
    BY <2>2, KeptSeen
<1>8. {Seen(d) : d \in live \ {b}} = {Seen(d) : d \in live} \ {Seen(b)}
  <2>1. ASSUME NEW d \in live, d # b PROVE Seen(d) # Seen(b)
    <3>1. d.ptr # b.ptr
      BY <2>1 DEF HeapInv, LiveInv
    <3>2. Seen(d).ptr = d.ptr /\ Seen(b).ptr = b.ptr
      BY DEF Seen
    <3> QED
      BY <3>1, <3>2
  <2> QED
    BY <2>1
<1>9. {Seen(d) : d \in live'} = {Seen(d) : d \in live \ {b}}
  BY <1>1
<1>10. Seen(b) \in {Seen(d) : d \in live}
  OBVIOUS
<1>11. request.size = 0
  BY <1>1 DEF NoRequest
<1> QED
  BY <1>1, <1>7, <1>8, <1>9, <1>10, <1>11 DEF Abs!Release, Seen

LEMMA WriteWrites ==
  ASSUME HeapInv, NEW b \in live, NEW v \in Values, WriteBlock(b, v)
  PROVE  Abs!Write
<1> DEFINE c == [b EXCEPT !.written = TRUE]
<1>1. request' = request /\ live' = (live \ {b}) \cup {c}
  BY DEF WriteBlock
<1>2. mem' = [a \in DOMAIN mem |->
               IF a \in b.ptr .. b.ptr + b.size - 1 THEN v ELSE mem[a]]
  BY DEF WriteBlock
<1>3. /\ mem \in [Memory -> Int] /\ b.ptr \in Int /\ b.size \in Nat
      /\ Tiled(mem, Holes, Taken, end_addr)
  BY InvFacts
<1>4. c.ptr = b.ptr /\ c.size = b.size
  BY DEF HeapInv, TypeInv
<1> HIDE DEF c
<1>5. ASSUME NEW d \in live, d # b, NEW a \in Abs!Span(d) PROVE mem'[a] = mem[a]
  <2>1. d.ptr # b.ptr
    BY <1>5 DEF HeapInv, LiveInv
  <2>2. d.ptr \in Int /\ d.ptr - 3 # b.ptr - 3 /\ d.ptr - 3 \in Taken
    BY <1>3, <2>1, InvFacts
  <2>3. a \in Memory
    BY SpanFacts
  <2>4. a \notin Abs!Span(b)
    <3>1. SUFFICES ASSUME a \in Abs!Span(b) PROVE FALSE
      OBVIOUS
    <3>2. b.ptr - 3 \in Holes \cup Taken /\ b.ptr - 3 # d.ptr - 3
      BY <2>2, InvFacts
    <3>3. a \in Int /\ (a < b.ptr - 3 \/ (b.ptr - 3) + mem[(b.ptr - 3) + 2] <= a)
      BY <3>2, SpanFacts
    <3>4. b.ptr <= a /\ a < b.ptr + b.size
      BY <1>3, <3>1 DEF Abs!Span
    <3>5. b.size + 5 <= mem[b.ptr - 1] /\ (b.ptr - 3) + 2 = b.ptr - 1
      BY <1>3 DEF HeapInv, LiveInv
    <3>6. mem[b.ptr - 1] \in Int
      <4>1. mem[(b.ptr - HEADER) + 2] \in Int /\ (b.ptr - HEADER) + 2 = b.ptr - 1
        BY <1>3, BlockFacts DEF HEADER
      <4> QED
        BY <4>1
    <3> QED
      BY <1>3, <3>3, <3>4, <3>5, <3>6
  <2> QED
    BY <1>2, <1>3, <2>3, <2>4 DEF Abs!Span
<1>6. {Seen(d) : d \in live'} = {Seen(d) : d \in live}
  <2>1. Seen(c) = Seen(b)
    BY <1>4 DEF Seen
  <2> QED
    BY <1>1, <2>1
<1>7. \A d \in {Seen(e) : e \in live} \ {Seen(b)} : Abs!Kept(d)
  <2>1. \A d \in {Seen(e) : e \in live \ {b}} : Abs!Kept(d)
    BY <1>5, KeptSeen
  <2> QED
    BY <2>1
<1>8. Seen(b) \in {Seen(e) : e \in live}
  OBVIOUS
<1>9. request.size = 0
  BY DEF WriteBlock, NoRequest
<1> QED
  BY <1>1, <1>6, <1>7, <1>8, <1>9 DEF Abs!Write, Seen

LEMMA NextAllocates ==
  ASSUME Careful, HeapInv, [Next]_vars
  PROVE  [Abs!Next]_(Abs!allocVars)
<1>1. CASE \E size \in Sizes, align \in Alignments : Kmalloc(size, align)
  <2>1. Abs!Ask
    BY <1>1 DEF Kmalloc, Abs!Ask, NoRequest
  <2> QED
    BY <2>1 DEF Abs!Next
<1>2. CASE AllocFromHole
  BY <1>2, AllocGives DEF Abs!Next
<1>3. CASE MakeSpace
  BY <1>3, SpacePrepares DEF Abs!Next
<1>4. CASE \E b \in live : Kfree(b)
  BY <1>4, FreeReleases DEF Abs!Next
<1>5. CASE \E b \in live, v \in Values : WriteBlock(b, v)
  BY <1>5, WriteWrites DEF Abs!Next
<1>6. CASE Rest \/ UNCHANGED vars
  <2>1. UNCHANGED <<mem, live, request>>
    BY <1>6 DEF Rest, vars
  <2> QED
    BY <2>1 DEF Abs!allocVars
<1> QED
  BY <1>1, <1>2, <1>3, <1>4, <1>5, <1>6 DEF Next

\* The heap does what kmalloc and kfree promise, for every sequence of calls
\* within the limits: a block that alloc carves out of a hole shares no word with a
\* block in use, and no header, footer, split, merge or contraction changes one.
THEOREM HeapIsAllocator == ASSUME Careful PROVE Spec => RefinesAllocator
<1>1. Init => Abs!Init
  BY DEF Init, Abs!Init, NoRequest
<1>2. HeapInv /\ [Next]_vars => [Abs!Next]_(Abs!allocVars)
  BY NextAllocates
<1> QED
  BY <1>1, <1>2, HeapInvariant, PTL DEF Spec, RefinesAllocator, Abs!Spec

=============================================================================
