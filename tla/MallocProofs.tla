----------------------------- MODULE MallocProofs -----------------------------
(***************************************************************************)
(* Proofs about Malloc, for any sizes of a header, any heap and any        *)
(* requests: until its first fault the allocator keeps a heap that is      *)
(* tiled by its blocks and a list of all that are free, in order.          *)
(***************************************************************************)
EXTENDS Malloc, FiniteSetTheorems, WellFoundedInduction, TLAPS

-----------------------------------------------------------------------------
\* Numbers.

\* A free block's header: size, prev and next, one after another; an allocated block's
\* header is its size, and sizeDiff is the rest.
LEMMA Offsets ==
  /\ PREV_POINTER_OFFSET \in Nat /\ NEXT_POINTER_OFFSET \in Nat
  /\ EMPTY_DATA_OFFSET \in Nat /\ PUBLIC_POINTER_OFFSET \in Nat
  /\ 0 < PREV_POINTER_OFFSET /\ PREV_POINTER_OFFSET < NEXT_POINTER_OFFSET
  /\ NEXT_POINTER_OFFSET < EMPTY_DATA_OFFSET
  /\ 0 < PUBLIC_POINTER_OFFSET
  /\ sizeDiff \in Nat /\ PUBLIC_POINTER_OFFSET + sizeDiff = EMPTY_DATA_OFFSET
  /\ Base \in Nat /\ 0 < Base /\ HeapLimit \in Nat
  BY SizesAssumption
     DEF PREV_POINTER_OFFSET, NEXT_POINTER_OFFSET, EMPTY_DATA_OFFSET,
         PUBLIC_POINTER_OFFSET, sizeDiff, externalSizeOfFreeBlock,
         externalSizeOfUnfreeBlock

LEMMA AddressesAre == Addresses = Base .. HeapLimit + EMPTY_DATA_OFFSET
  BY SizesAssumption DEF Addresses, EMPTY_DATA_OFFSET

\* A set of numbers that is not empty has a least one.
LEMMA Least ==
  ASSUME NEW T, T \subseteq Nat, T # {}
  PROVE  Min(T) \in T /\ \A y \in T : Min(T) <= y
  <1> DEFINE R == {ss \in Nat \X Nat : ss[1] < ss[2]}
  <1>1. IsWellFoundedOn(R, Nat)
    BY NatLessThanWellFounded DEF OpToRel
  <1>2. PICK x \in T : \A y \in T : <<y, x>> \notin R
    <2> HIDE DEF R
    <2> QED  BY <1>1, WFMin
  <1>3. \A y \in T : ~(y < x)
    BY <1>2
  <1>4. \A y \in T : x <= y
    BY <1>3
  <1> HIDE DEF R
  <1> QED  BY <1>4 DEF Min

\* A set of numbers that has a bound and is not empty has a greatest one.
LEMMA Greatest ==
  ASSUME NEW T, NEW bound \in Int, T \subseteq Int, T # {},
         \A y \in T : y <= bound
  PROVE  Max(T) \in T /\ \A y \in T : y <= Max(T)
  <1> DEFINE U == {bound - y : y \in T}
  <1>1. U \subseteq Nat /\ U # {}
    <2>1. \A y \in T : bound - y \in Nat
      OBVIOUS
    <2>2. \A u \in U : u \in Nat
      BY <2>1
    <2> QED  BY <2>2
  <1>2. PICK u \in U : \A v \in U : u <= v
    BY <1>1, Least
  <1>3. PICK x \in T : u = bound - x
    BY <1>2
  <1>4. \A y \in T : y <= x
    <2> SUFFICES ASSUME NEW y \in T PROVE y <= x
      OBVIOUS
    <2>1. u <= bound - y
      BY <1>2
    <2>2. x \in Int /\ y \in Int
      OBVIOUS
    <2> HIDE DEF U
    <2> QED  BY <1>3, <2>1, <2>2
  <1> QED  BY <1>4 DEF Max

-----------------------------------------------------------------------------
\* Memory.

\* What a write to memory leaves alone.
SameVariables(h, k) ==
    /\ k.top = h.top /\ k.fault = h.fault /\ k.first = h.first /\ k.last = h.last
    /\ k.my_brk = h.my_brk /\ k.heap_end = h.heap_end

\* Each of the blocks has room for a free block's header, in the heap and before
\* the next block.
Roomy(h, blocks) ==
    /\ h.top \in Nat /\ h.top <= HeapLimit /\ blocks \subseteq Nat
    /\ \A b \in blocks : Base <= b /\ b + EMPTY_DATA_OFFSET <= h.top
    /\ \A b, c \in blocks : b < c => b + EMPTY_DATA_OFFSET <= c

LEMMA LoadIsTyped ==
  ASSUME NEW h \in Heaps, NEW a
  PROVE  Load(h, a) \in Int
  BY DEF Load, Heaps

LEMMA StoreIsTyped ==
  ASSUME NEW h \in Heaps, NEW a, NEW v \in Int
  PROVE  Store(h, a, v) \in Heaps
  <1>1. [h EXCEPT !.word[a] = v] \in Heaps
    BY DEF Heaps
  <1>2. [h EXCEPT !.fault = TRUE] \in Heaps
    BY DEF Heaps
  <1> QED  BY <1>1, <1>2 DEF Store

\* A write to an address of the heap changes that word and nothing else.
LEMMA StoreWrites ==
  ASSUME NEW h \in Heaps, h.top <= HeapLimit, NEW a \in Int, Base <= a, a < h.top,
         NEW v \in Int
  PROVE  /\ SameVariables(h, Store(h, a, v))
         /\ \A x : Load(Store(h, a, v), x) = IF x = a THEN v ELSE Load(h, x)
  <1> DEFINE k == [h EXCEPT !.word[a] = v]
  <1>1. Store(h, a, v) = k
    BY DEF Store, Mapped
  <1>2. h.word \in [Addresses -> Int] /\ h.top \in Int
    BY DEF Heaps
  <1>3. a \in Addresses
    BY <1>2, Offsets, AddressesAre
  <1>4. k.word = [h.word EXCEPT ![a] = v]
    BY DEF Heaps
  <1>5. SameVariables(h, k)
    BY DEF SameVariables, Heaps
  <1> HIDE DEF k
  <1>6. \A x : Load(k, x) = IF x = a THEN v ELSE Load(h, x)
    BY <1>2, <1>3, <1>4 DEF Load
  <1> QED  BY <1>1, <1>5, <1>6

\* The words of two blocks' headers do not overlap.
LEMMA HeadersAreApart ==
  ASSUME NEW h \in Heaps, NEW blocks, Roomy(h, blocks), NEW b \in blocks, NEW c \in blocks
  PROVE  /\ b + PREV_POINTER_OFFSET # c /\ b + NEXT_POINTER_OFFSET # c
         /\ b + PREV_POINTER_OFFSET # c + NEXT_POINTER_OFFSET
         /\ b # c => /\ b + PREV_POINTER_OFFSET # c + PREV_POINTER_OFFSET
                     /\ b + NEXT_POINTER_OFFSET # c + NEXT_POINTER_OFFSET
  <1>1. b \in Nat /\ c \in Nat
    BY DEF Roomy
  <1>2. CASE b = c
    BY <1>1, <1>2, Offsets
  <1>3. CASE b < c
    <2>1. b + EMPTY_DATA_OFFSET <= c
      BY <1>3 DEF Roomy
    <2> QED  BY <1>1, <2>1, Offsets
  <1>4. CASE c < b
    <2>1. c + EMPTY_DATA_OFFSET <= b
      BY <1>4 DEF Roomy
    <2> QED  BY <1>1, <2>1, Offsets
  <1> QED  BY <1>1, <1>2, <1>3, <1>4

\* The three words of a header, in the heap k, are those in h but for block b's.
SizeWritten(h, k, blocks, b, v) ==
    /\ k \in Heaps /\ SameVariables(h, k) /\ Roomy(k, blocks)
    /\ \A c \in blocks : /\ InternalSize(k, c) = IF c = b THEN v ELSE InternalSize(h, c)
                         /\ PrevOf(k, c) = PrevOf(h, c) /\ NextOf(k, c) = NextOf(h, c)
PrevWritten(h, k, blocks, b, v) ==
    /\ k \in Heaps /\ SameVariables(h, k) /\ Roomy(k, blocks)
    /\ \A c \in blocks : /\ PrevOf(k, c) = IF c = b THEN v ELSE PrevOf(h, c)
                         /\ InternalSize(k, c) = InternalSize(h, c)
                         /\ NextOf(k, c) = NextOf(h, c)
NextWritten(h, k, blocks, b, v) ==
    /\ k \in Heaps /\ SameVariables(h, k) /\ Roomy(k, blocks)
    /\ \A c \in blocks : /\ NextOf(k, c) = IF c = b THEN v ELSE NextOf(h, c)
                         /\ InternalSize(k, c) = InternalSize(h, c)
                         /\ PrevOf(k, c) = PrevOf(h, c)

LEMMA HeaderIsWritten ==
  ASSUME NEW h \in Heaps, NEW blocks, Roomy(h, blocks), NEW b \in blocks, NEW v \in Int
  PROVE  /\ SizeWritten(h, setInternalSize(h, b, v), blocks, b, v)
         /\ PrevWritten(h, setPrev(h, b, v), blocks, b, v)
         /\ NextWritten(h, setNext(h, b, v), blocks, b, v)
  <1>1. \A c \in blocks : /\ c \in Nat /\ Base <= c /\ c + EMPTY_DATA_OFFSET <= h.top
                          /\ h.top \in Nat /\ h.top <= HeapLimit
    BY DEF Roomy
  <1>2. \A k \in Heaps : SameVariables(h, k) => Roomy(k, blocks)
    BY DEF SameVariables, Roomy
  <1>3. SizeWritten(h, setInternalSize(h, b, v), blocks, b, v)
    <2> DEFINE k == Store(h, b, v)
    <2>1. b < h.top /\ Base <= b /\ b \in Int /\ h.top <= HeapLimit
      BY <1>1, Offsets
    <2>2. k \in Heaps /\ SameVariables(h, k)
      BY <2>1, StoreIsTyped, StoreWrites
    <2>3. \A x : Load(k, x) = IF x = b THEN v ELSE Load(h, x)
      BY <2>1, StoreWrites
    <2> HIDE DEF k
    <2>4. \A c \in blocks : /\ InternalSize(k, c) = IF c = b THEN v ELSE InternalSize(h, c)
                            /\ PrevOf(k, c) = PrevOf(h, c) /\ NextOf(k, c) = NextOf(h, c)
      BY <2>3, HeadersAreApart DEF InternalSize, PrevOf, NextOf
    <2>5. SizeWritten(h, k, blocks, b, v)
      BY <1>2, <2>2, <2>4 DEF SizeWritten
    <2> QED  BY <2>5 DEF k, setInternalSize
  <1>4. PrevWritten(h, setPrev(h, b, v), blocks, b, v)
    <2> DEFINE p == b + PREV_POINTER_OFFSET
               k == Store(h, p, v)
    <2>1. p < h.top /\ Base <= p /\ p \in Int /\ h.top <= HeapLimit
      BY <1>1, Offsets
    <2>2. k \in Heaps /\ SameVariables(h, k)
      BY <2>1, StoreIsTyped, StoreWrites
    <2>3. \A x : Load(k, x) = IF x = p THEN v ELSE Load(h, x)
      BY <2>1, StoreWrites
    <2> HIDE DEF k
    <2>4. \A c \in blocks : /\ PrevOf(k, c) = IF c = b THEN v ELSE PrevOf(h, c)
                            /\ InternalSize(k, c) = InternalSize(h, c)
                            /\ NextOf(k, c) = NextOf(h, c)
      BY <2>3, HeadersAreApart DEF InternalSize, PrevOf, NextOf
    <2>5. PrevWritten(h, k, blocks, b, v)
      BY <1>2, <2>2, <2>4 DEF PrevWritten
    <2> QED  BY <2>5 DEF k, setPrev
  <1>5. NextWritten(h, setNext(h, b, v), blocks, b, v)
    <2> DEFINE p == b + NEXT_POINTER_OFFSET
               k == Store(h, p, v)
    <2>1. p < h.top /\ Base <= p /\ p \in Int /\ h.top <= HeapLimit
      BY <1>1, Offsets
    <2>2. k \in Heaps /\ SameVariables(h, k)
      BY <2>1, StoreIsTyped, StoreWrites
    <2>3. \A x : Load(k, x) = IF x = p THEN v ELSE Load(h, x)
      BY <2>1, StoreWrites
    <2> HIDE DEF k
    <2>4. \A c \in blocks : /\ NextOf(k, c) = IF c = b THEN v ELSE NextOf(h, c)
                            /\ InternalSize(k, c) = InternalSize(h, c)
                            /\ PrevOf(k, c) = PrevOf(h, c)
      BY <2>3, HeadersAreApart DEF InternalSize, PrevOf, NextOf
    <2>5. NextWritten(h, k, blocks, b, v)
      BY <1>2, <2>2, <2>4 DEF NextWritten
    <2> QED  BY <2>5 DEF k, setNext
  <1> QED  BY <1>3, <1>4, <1>5

-----------------------------------------------------------------------------
\* Walking the list.

\* No more than MaxBlocks free blocks' headers fit below HeapLimit.
LEMMA BlocksThatFit ==
  MaxBlocks \in Nat /\ HeapLimit < MaxBlocks * EMPTY_DATA_OFFSET + EMPTY_DATA_OFFSET
  <1> DEFINE E == EMPTY_DATA_OFFSET
             H == HeapLimit
             q == H \div E
             r == H % E
  <1>1. E \in Nat \ {0} /\ H \in Nat
    BY Offsets
  <1> HIDE DEF E, H
  <1>2. q \in Int /\ r \in 0 .. E - 1 /\ H = E * q + r
    BY <1>1
  <1>3. q \in Nat
    BY <1>1
  <1> HIDE DEF q, r
  <1>4. H < q * E + E
    BY <1>1, <1>2
  <1> QED  BY <1>3, <1>4 DEF q, H, E, MaxBlocks

\* The recursive function Walk is what its definition says.
LEMMA WalkUnfolds ==
  ASSUME NEW h
  PROVE  /\ DOMAIN Walk(h) = 1 .. MaxBlocks + 1
         /\ \A k \in 1 .. MaxBlocks + 1 :
                Walk(h)[k] = IF k = 1 THEN h.first
                             ELSE IF Walk(h)[k - 1] = NULL THEN NULL
                             ELSE NextOf(h, Walk(h)[k - 1])
  <1> DEFINE Then(a) == IF a = NULL THEN NULL ELSE NextOf(h, a)
             Is(f, n) == f = [k \in 1 .. n |-> IF k = 1 THEN h.first ELSE Then(f[k - 1])]
  <1>1. Walk(h) = CHOOSE f : Is(f, MaxBlocks + 1)
    BY DEF Walk
  <1>2. \A n \in Nat : \E f : Is(f, n + 1)
    <2> DEFINE Bad == {n \in Nat : ~\E f : Is(f, n + 1)}
    <2>1. \E f : Is(f, 0 + 1)
      <3> DEFINE f == [k \in 1 .. 0 + 1 |-> h.first]
      <3>1. Is(f, 0 + 1)
        OBVIOUS
      <3> QED  BY <3>1
    <2>2. ASSUME NEW n \in Nat, NEW f, Is(f, n + 1)
          PROVE  \E g : Is(g, n + 1 + 1)
      <3> DEFINE g == [k \in 1 .. n + 1 + 1 |-> IF k <= n + 1 THEN f[k] ELSE Then(f[n + 1])]
      <3> HIDE DEF Then
      <3>1. \A k \in 1 .. n + 1 + 1 : g[k] = IF k = 1 THEN h.first ELSE Then(g[k - 1])
        <4> TAKE k \in 1 .. n + 1 + 1
        <4>1. CASE k = 1
          BY <2>2, <4>1
        <4>2. CASE k \in 2 .. n + 1
          <5>1. k - 1 \in 1 .. n + 1 /\ k \in 1 .. n + 1
            BY <4>2
          <5>2. g[k] = f[k] /\ g[k - 1] = f[k - 1]
            BY <5>1
          <5> HIDE DEF g
          <5> QED  BY <2>2, <4>2, <5>1, <5>2
        <4>3. CASE k = n + 1 + 1
          <5>1. g[k - 1] = f[n + 1] /\ g[k] = Then(f[n + 1]) /\ k # 1
            BY <4>3
          <5> HIDE DEF g
          <5> QED  BY <5>1
        <4> QED  BY <4>1, <4>2, <4>3
      <3>2. g = [k \in 1 .. n + 1 + 1 |-> g[k]]
        OBVIOUS
      <3> HIDE DEF g
      <3>3. Is(g, n + 1 + 1)
        BY <3>1, <3>2
      <3> QED  BY <3>3
    <2> HIDE DEF Is
    <2>3. CASE Bad # {}
      <3>1. PICK n \in Bad : \A y \in Bad : n <= y
        BY <2>3, Least
      <3>2. n \in Nat \ {0} /\ n - 1 \notin Bad
        BY <2>1, <3>1
      <3>3. n - 1 \in Nat /\ n - 1 + 1 = n
        BY <3>2
      <3> QED  BY <2>2, <3>1, <3>2, <3>3
    <2> QED  BY <2>3
  <1> DEFINE f == CHOOSE g : Is(g, MaxBlocks + 1)
  <1>3. Is(f, MaxBlocks + 1)
    BY <1>2, BlocksThatFit
  <1> HIDE DEF f
  <1>4. /\ DOMAIN f = 1 .. MaxBlocks + 1
        /\ \A k \in 1 .. MaxBlocks + 1 : f[k] = IF k = 1 THEN h.first ELSE Then(f[k - 1])
    BY <1>3
  <1>5. Walk(h) = f
    BY <1>1 DEF f
  <1> QED  BY <1>4, <1>5

LEMMA WalkIsTyped ==
  ASSUME NEW h \in Heaps
  PROVE  \A k \in 1 .. MaxBlocks + 1 : Walk(h)[k] \in Int
  <1> DEFINE Bad == {k \in 1 .. MaxBlocks + 1 : Walk(h)[k] \notin Int}
  <1> SUFFICES ASSUME Bad # {} PROVE FALSE
    OBVIOUS
  <1>1. PICK k \in Bad : \A y \in Bad : k <= y
    <2>1. Bad \subseteq Nat
      BY BlocksThatFit
    <2> QED  BY <2>1, Least
  <1>2. k # 1
    BY <1>1, WalkUnfolds DEF Heaps
  <1>3. Walk(h)[k] = IF Walk(h)[k - 1] = NULL THEN NULL ELSE NextOf(h, Walk(h)[k - 1])
    BY <1>1, <1>2, WalkUnfolds
  <1> QED  BY <1>1, <1>3, LoadIsTyped DEF NextOf, NULL

LEMMA FirstInIsTyped ==
  ASSUME NEW h \in Heaps, NEW blocks
  PROVE  FirstIn(h, blocks) \in Int
  <1> DEFINE list == FreeBlocks(h)
             spots == {k \in DOMAIN list : list[k] \in blocks}
  <1>1. \A k \in DOMAIN list : k \in Nat /\ list[k] \in Int
    BY WalkIsTyped, WalkUnfolds, BlocksThatFit DEF FreeBlocks
  <1> HIDE DEF list
  <1>2. spots \subseteq Nat
    BY <1>1
  <1>3. spots # {} => list[Min(spots)] \in Int
    BY <1>1, <1>2, Least
  <1>4. FirstIn(h, blocks) = IF spots = {} THEN NULL ELSE list[Min(spots)]
    BY DEF FirstIn, list
  <1> QED  BY <1>3, <1>4 DEF NULL

\* Block a is the last of the free blocks before address b.
Precedes(free, a, b) == /\ a \in free /\ a < b
                        /\ \A c \in free : c <= a \/ b <= c

\* If a free block lies before an address, one of them is the last that does.
LEMMA SomethingPrecedes ==
  ASSUME NEW free, free \subseteq Nat, NEW b \in Nat, NEW a \in free, a < b
  PROVE  \E p \in free : Precedes(free, p, b)
  <1> DEFINE T == {c \in free : c < b}
  <1>1. a \in T /\ b \in Int
    OBVIOUS
  <1>2. T \subseteq Int /\ \A y \in T : y <= b
    <2>1. \A y \in T : y \in Nat /\ y < b
      OBVIOUS
    <2> HIDE DEF T
    <2> QED  BY <2>1
  <1>3. PICK p \in T : \A y \in T : y <= p
    <2> HIDE DEF T
    <2> QED  BY <1>1, <1>2, Greatest
  <1>4. \A c \in free : c <= p \/ b <= c
    BY <1>3
  <1> QED  BY <1>3, <1>4 DEF Precedes

\* In a list that is linked, the next pointer of a block's predecessor is that block.
LEMMA NextFollows ==
  ASSUME NEW h, NEW free, free \subseteq Nat, Linked(h, free),
         NEW a \in free, NEW b \in free, Precedes(free, a, b)
  PROVE  a # h.last /\ NextOf(h, a) = b
  <1>1. a # h.last
    BY DEF Precedes, Linked
  <1>2. /\ NextOf(h, a) \in free /\ a < NextOf(h, a)
        /\ b <= a \/ NextOf(h, a) <= b
    BY <1>1 DEF Linked
  <1>3. NextOf(h, a) <= a \/ b <= NextOf(h, a)
    BY <1>2 DEF Precedes
  <1>4. a \in Nat /\ b \in Nat /\ NextOf(h, a) \in Nat /\ a < b
    BY <1>2 DEF Precedes
  <1> QED  BY <1>1, <1>2, <1>3, <1>4

LEMMA NextIsPreceded ==
  ASSUME NEW h, NEW free, free \subseteq Nat, Linked(h, free),
         NEW a \in free, NEW b \in free, NextOf(h, a) = b, NULL \notin free
  PROVE  Precedes(free, a, b)
  <1>1. a # h.last
    BY DEF Linked
  <1> QED  BY <1>1 DEF Linked, Precedes

LEMMA NullIsNoBlock ==
  ASSUME NEW h, NEW free, Roomy(h, free)
  PROVE  NULL \notin free
  BY Offsets DEF Roomy, NULL

\* The walk stays in the list, goes up, and ends: a list that goes up can be no longer
\* than the blocks that fit in the heap.
LEMMA WalkStaysInList ==
  ASSUME NEW h \in Heaps, NEW free, Roomy(h, free), Linked(h, free)
  PROVE  /\ \A k \in 1 .. MaxBlocks + 1 : Walk(h)[k] = NULL \/ Walk(h)[k] \in free
         /\ \A k \in 1 .. MaxBlocks : Walk(h)[k] # NULL /\ Walk(h)[k + 1] # NULL
                                         => Walk(h)[k] < Walk(h)[k + 1]
         /\ WalkEnds(h)
  <1> DEFINE at == Walk(h)
             E == EMPTY_DATA_OFFSET
             M == MaxBlocks
             Fine(k) == at[k] = NULL \/ (at[k] \in free /\ k * E <= at[k] + E - 1)
             Bad == {k \in 1 .. M + 1 : ~Fine(k)}
  <1>1. /\ \A k \in 1 .. M + 1 : at[k] = IF k = 1 THEN h.first
                                         ELSE IF at[k - 1] = NULL THEN NULL
                                         ELSE NextOf(h, at[k - 1])
        /\ M \in Nat /\ HeapLimit < M * E + E
    BY WalkUnfolds, BlocksThatFit
  <1>2. E \in Nat \ {0} /\ HeapLimit \in Nat /\ NULL \notin free
    BY Offsets, NullIsNoBlock
  <1>3. h.first = NULL \/ h.first \in free
    BY DEF Linked
  <1>4. \A b \in free : NextOf(h, b) = NULL \/ (NextOf(h, b) \in free /\ b < NextOf(h, b))
    BY DEF Linked
  <1>5. \A b \in free : b \in Nat /\ 1 <= b /\ b + E <= HeapLimit
    BY Offsets DEF Roomy
  <1>6. \A b, c \in free : b < c => b + E <= c
    BY DEF Roomy
  <1> HIDE DEF at, E, M
  <1>7. \A k \in 1 .. M + 1 : Fine(k)
    <2> SUFFICES ASSUME Bad # {} PROVE FALSE
      OBVIOUS
    <2>1. PICK k \in Bad : \A y \in Bad : k <= y
      <3>1. Bad \subseteq Nat
        BY <1>1
      <3> HIDE DEF Bad
      <3> QED  BY <3>1, Least
    <2>2. k \in 1 .. M + 1 /\ ~Fine(k)
      BY <2>1
    <2>3. CASE k = 1
      <3>1. at[k] = NULL \/ (at[k] \in free /\ 1 <= at[k] /\ at[k] \in Nat)
        BY <1>1, <1>3, <1>5, <2>2, <2>3
      <3> QED  BY <1>2, <2>2, <2>3, <3>1
    <2>4. CASE k # 1
      <3> DEFINE j == k - 1
      <3>1. j \in 1 .. M + 1 /\ j \in Nat /\ k = j + 1
        BY <1>1, <2>2, <2>4
      <3>2. Fine(j)
        BY <2>1, <3>1
      <3>3. at[k] = IF at[j] = NULL THEN NULL ELSE NextOf(h, at[j])
        BY <1>1, <2>2, <2>4
      <3> HIDE DEF j
      <3>4. CASE at[j] = NULL
        BY <2>2, <3>3, <3>4
      <3>5. CASE at[j] # NULL
        <4>1. at[j] \in free /\ j * E <= at[j] + E - 1
          BY <3>2, <3>5
        <4>2. at[k] = NULL \/ (at[k] \in free /\ at[j] < at[k])
          BY <1>4, <3>3, <3>5, <4>1
        <4>3. at[k] # NULL
          BY <2>2
        <4>4. at[j] + E <= at[k] /\ at[j] \in Nat /\ at[k] \in Nat
          BY <1>5, <1>6, <4>1, <4>2, <4>3
        <4>5. k * E = j * E + E
          BY <1>2, <3>1
        <4>6. k * E <= at[k] + E - 1
          <5> DEFINE z == j * E
          <5>1. z \in Nat
            BY <1>2, <3>1
          <5> HIDE DEF z
          <5>2. z <= at[j] + E - 1 /\ k * E = z + E
            BY <4>1, <4>5 DEF z
          <5> QED  BY <1>2, <4>4, <5>1, <5>2
        <4> QED  BY <2>2, <4>2, <4>3, <4>6
      <3> QED  BY <3>4, <3>5
    <2> QED  BY <2>3, <2>4
  <1>8. at[M + 1] = NULL
    <2> SUFFICES ASSUME at[M + 1] # NULL PROVE FALSE
      OBVIOUS
    <2>1. at[M + 1] \in free /\ (M + 1) * E <= at[M + 1] + E - 1
      BY <1>1, <1>7
    <2>2. (M + 1) * E = M * E + E /\ M * E \in Nat
      BY <1>1, <1>2
    <2> DEFINE z == M * E
    <2> HIDE DEF z
    <2>3. z \in Nat /\ HeapLimit < z + E /\ z + E <= at[M + 1] + E - 1
      BY <1>1, <2>1, <2>2 DEF z
    <2> QED  BY <1>2, <1>5, <2>1, <2>3
  <1>9. \A k \in 1 .. M : at[k] # NULL /\ at[k + 1] # NULL => at[k] < at[k + 1]
    <2> TAKE k \in 1 .. M
    <2>1. k \in 1 .. M + 1 /\ k + 1 \in 1 .. M + 1 /\ k + 1 # 1 /\ k + 1 - 1 = k
      BY <1>1
    <2>2. at[k + 1] = IF at[k] = NULL THEN NULL ELSE NextOf(h, at[k])
      BY <1>1, <2>1
    <2> QED  BY <1>4, <1>7, <2>1, <2>2
  <1> QED  BY <1>7, <1>8, <1>9 DEF at, M, WalkEnds

\* The positions of the walk before its end are the first ones.
LEMMA WalkFillsABeginning ==
  ASSUME NEW h
  PROVE  \E m \in 0 .. MaxBlocks + 1 :
            {k \in 1 .. MaxBlocks + 1 : Walk(h)[k] # NULL} = 1 .. m
  <1> DEFINE at == Walk(h)
             M == MaxBlocks
             Gap(k) == at[k] # NULL /\ \E j \in 1 .. k - 1 : at[j] = NULL
             Bad == {k \in 1 .. M + 1 : Gap(k)}
             Filled == {k \in 1 .. M + 1 : at[k] # NULL}
  <1>1. /\ \A k \in 1 .. M + 1 : k # 1 /\ at[k] # NULL => at[k - 1] # NULL
        /\ M \in Nat
    BY WalkUnfolds, BlocksThatFit
  <1> HIDE DEF at, M
  <1>2. \A k \in 1 .. M + 1 : ~Gap(k)
    <2> SUFFICES ASSUME Bad # {} PROVE FALSE
      OBVIOUS
    <2>1. PICK k \in Bad : \A y \in Bad : k <= y
      <3>1. Bad \subseteq Nat
        BY <1>1
      <3> HIDE DEF Bad
      <3> QED  BY <3>1, Least
    <2>2. k \in 1 .. M + 1 /\ at[k] # NULL
      BY <2>1
    <2>3. PICK j \in 1 .. k - 1 : at[j] = NULL
      BY <2>1
    <2>4. k # 1 /\ k - 1 \in 1 .. M + 1 /\ at[k - 1] # NULL
      BY <1>1, <2>2, <2>3
    <2>5. j # k - 1 /\ j \in 1 .. (k - 1) - 1
      BY <1>1, <2>2, <2>3, <2>4
    <2>6. k - 1 \in Bad
      BY <2>3, <2>4, <2>5
    <2>7. k <= k - 1
      BY <2>1, <2>6
    <2> QED  BY <1>1, <2>2, <2>7
  <1>3. CASE Filled = {}
    <2>1. Filled = 1 .. 0
      BY <1>3
    <2> HIDE DEF Filled
    <2>2. \E m \in 0 .. M + 1 : Filled = 1 .. m
      BY <1>1, <2>1
    <2> QED  BY <2>2 DEF at, M, Filled
  <1>4. CASE Filled # {}
    <2>1. Filled \subseteq Int /\ M + 1 \in Int /\ \A y \in Filled : y <= M + 1
      BY <1>1
    <2>2. PICK m \in Filled : \A y \in Filled : y <= m
      <3> HIDE DEF Filled
      <3> QED  BY <1>4, <2>1, Greatest
    <2>3. m \in 1 .. M + 1 /\ at[m] # NULL
      BY <2>2
    <2>4. \A k \in 1 .. m : k \in Filled
      <3> TAKE k \in 1 .. m
      <3>1. k \in 1 .. M + 1
        BY <1>1, <2>3
      <3>2. k = m \/ k \in 1 .. m - 1
        BY <1>1, <2>3
      <3> QED  BY <1>2, <2>3, <3>1, <3>2
    <2>5. \A k \in Filled : k \in 1 .. m
      BY <1>1, <2>2
    <2>6. Filled = 1 .. m
      BY <2>4, <2>5
    <2> HIDE DEF Filled
    <2>7. \E n \in 0 .. M + 1 : Filled = 1 .. n
      BY <1>1, <2>3, <2>6
    <2> QED  BY <2>7 DEF at, M, Filled
  <1> QED  BY <1>3, <1>4

\* The walk meets every free block and no other.
LEMMA WalkMeetsAll ==
  ASSUME NEW h \in Heaps, NEW free, Roomy(h, free), Linked(h, free)
  PROVE  /\ ToSet(FreeBlocks(h)) = free
         /\ \A b \in free : \E k \in 1 .. MaxBlocks : Walk(h)[k] = b
  <1> DEFINE at == Walk(h)
             M == MaxBlocks
             Met(b) == \E k \in 1 .. M : at[k] = b
             Bad == {b \in free : ~Met(b)}
  <1>1. /\ \A k \in 1 .. M + 1 : at[k] = IF k = 1 THEN h.first
                                         ELSE IF at[k - 1] = NULL THEN NULL
                                         ELSE NextOf(h, at[k - 1])
        /\ M \in Nat
    BY WalkUnfolds, BlocksThatFit
  <1>2. /\ \A k \in 1 .. M + 1 : at[k] = NULL \/ at[k] \in free
        /\ at[M + 1] = NULL
    BY WalkStaysInList DEF WalkEnds
  <1>3. NULL \notin free /\ free \subseteq Nat
    BY NullIsNoBlock DEF Roomy
  <1>4. /\ DOMAIN FreeBlocks(h) = {k \in 1 .. M + 1 : at[k] # NULL}
        /\ \A k \in 1 .. M + 1 : at[k] # NULL => FreeBlocks(h)[k] = at[k]
    BY WalkUnfolds DEF FreeBlocks
  <1>5. \A b \in free : h.first \in free /\ h.first <= b
    BY DEF Linked
  <1> HIDE DEF at, M
  <1>6. \A b \in free : Met(b)
    <2> SUFFICES ASSUME Bad # {} PROVE FALSE
      OBVIOUS
    <2>1. PICK b \in Bad : \A y \in Bad : b <= y
      <3>1. Bad \subseteq Nat
        BY <1>3
      <3> HIDE DEF Bad
      <3> QED  BY <3>1, Least
    <2>2. b \in free /\ b \in Nat /\ ~Met(b)
      BY <1>3, <2>1
    <2>3. at[1] = h.first /\ at[1] # NULL
      BY <1>1, <1>3, <1>5, <2>2
    <2>4. 1 \in 1 .. M
      BY <1>1, <1>2, <2>3
    <2>5. b # h.first
      BY <2>2, <2>3, <2>4
    <2>6. h.first \in Nat /\ h.first < b
      <3>1. h.first \in Nat /\ h.first <= b
        BY <1>3, <1>5, <2>2
      <3> QED  BY <2>2, <2>5, <3>1
    <2>7. PICK p \in free : Precedes(free, p, b)
      BY <1>3, <1>5, <2>2, <2>6, SomethingPrecedes
    <2>8. p < b /\ NextOf(h, p) = b /\ p # NULL /\ p \in Nat
      BY <1>3, <2>2, <2>7, NextFollows DEF Precedes
    <2>9. Met(p)
      <3>1. p \notin Bad
        BY <2>1, <2>2, <2>8
      <3> QED  BY <3>1
    <2>10. PICK k \in 1 .. M : at[k] = p
      BY <2>9
    <2>11. k + 1 \in 1 .. M + 1 /\ k + 1 # 1 /\ k + 1 - 1 = k
      BY <1>1
    <2>12. at[k + 1] = b
      BY <1>1, <2>8, <2>10, <2>11
    <2>13. k + 1 # M + 1
      BY <1>2, <1>3, <2>2, <2>12
    <2>14. k + 1 \in 1 .. M
      BY <1>1, <2>11, <2>13
    <2> QED  BY <2>2, <2>12, <2>14
  <1>7. ToSet(FreeBlocks(h)) \subseteq free
    BY <1>2, <1>4 DEF ToSet
  <1>8. free \subseteq ToSet(FreeBlocks(h))
    <2> SUFFICES ASSUME NEW b \in free PROVE b \in ToSet(FreeBlocks(h))
      OBVIOUS
    <2>1. PICK k \in 1 .. M : at[k] = b
      BY <1>6
    <2>2. k \in DOMAIN FreeBlocks(h) /\ FreeBlocks(h)[k] = b
      BY <1>1, <1>3, <1>4, <2>1
    <2> QED  BY <2>2 DEF ToSet
  <1> QED  BY <1>6, <1>7, <1>8 DEF at, M

\* FirstIn finds a block of the list if one of those asked for is there.
LEMMA FirstInIsIn ==
  ASSUME NEW h \in Heaps, NEW free, Roomy(h, free), Linked(h, free), NEW blocks \in SUBSET free
  PROVE  IF blocks = {} THEN FirstIn(h, blocks) = NULL ELSE FirstIn(h, blocks) \in blocks
  <1> DEFINE list == FreeBlocks(h)
             spots == {k \in DOMAIN list : list[k] \in blocks}
  <1>1. DOMAIN list \subseteq Nat
    BY WalkUnfolds, BlocksThatFit DEF FreeBlocks
  <1>2. ToSet(list) = free
    BY WalkMeetsAll
  <1>3. FirstIn(h, blocks) = IF spots = {} THEN NULL ELSE list[Min(spots)]
    BY DEF FirstIn
  <1> HIDE DEF list
  <1>4. spots \subseteq Nat
    BY <1>1
  <1>5. spots # {} => list[Min(spots)] \in blocks
    BY <1>4, Least
  <1>6. blocks # {} => spots # {}
    BY <1>2 DEF ToSet
  <1>7. blocks = {} => spots = {}
    OBVIOUS
  <1> QED  BY <1>3, <1>5, <1>6, <1>7

-----------------------------------------------------------------------------
\* Tilings.

LEMMA TilingOfSameEnds ==
  ASSUME NEW blocks, NEW end, NEW top, Tiling(blocks, end, top),
         NEW f, \A c \in blocks : f[c] = end[c]
  PROVE  Tiling(blocks, f, top)
  BY DEF Tiling

\* A block is split in two.
LEMMA TilingAfterSplit ==
  ASSUME NEW blocks \in SUBSET Nat, NEW top \in Nat, NEW end, Tiling(blocks, end, top),
         \A c \in blocks : end[c] \in Nat,
         NEW b \in blocks, NEW x \in Nat, b < x, x < end[b],
         NEW f, f[b] = x, f[x] = end[b], \A c \in blocks : c # b => f[c] = end[c]
  PROVE  x \notin blocks /\ Tiling(blocks \cup {x}, f, top)
  <1>1. \A c \in blocks : c < b \/ c = b \/ end[b] <= c
    BY DEF Tiling
  <1>2. \A c \in blocks : c < b => end[c] <= b
    BY DEF Tiling
  <1>3. x \notin blocks
    BY <1>1
  <1>4. top = Base \/ Base \in blocks \cup {x}
    BY DEF Tiling
  <1>5. ASSUME NEW c \in blocks \cup {x}
        PROVE  /\ Base <= c /\ c < f[c] /\ f[c] <= top
               /\ f[c] = top \/ f[c] \in blocks \cup {x}
               /\ \A d \in blocks \cup {x} : c < d => f[c] <= d
    <2>1. CASE c = b
      <3>1. Base <= c /\ c < f[c] /\ f[c] = x /\ end[b] <= top
        BY <2>1 DEF Tiling
      <3>2. x <= top
        BY <3>1
      <3>3. \A d \in blocks \cup {x} : b < d => x <= d
        BY <1>1
      <3> QED  BY <2>1, <3>1, <3>2, <3>3
    <2>2. CASE c = x
      <3>1. f[c] = end[b] /\ Base <= b /\ end[b] <= top /\ (end[b] = top \/ end[b] \in blocks)
        BY <2>2 DEF Tiling
      <3>2. \A d \in blocks \cup {x} : x < d => end[b] <= d
        BY <1>1
      <3>3. Base <= x
        BY <3>1, Offsets
      <3> QED  BY <2>2, <3>1, <3>2, <3>3
    <2>3. CASE c \in blocks /\ c # b
      <3>1. f[c] = end[c] /\ Base <= c /\ c < end[c] /\ end[c] <= top
        BY <2>3 DEF Tiling
      <3>2. end[c] = top \/ end[c] \in blocks
        BY <2>3 DEF Tiling
      <3>3. \A d \in blocks : c < d => end[c] <= d
        BY <2>3 DEF Tiling
      <3>4. c < x => end[c] <= x
        <4>1. c < x => c < b
          BY <1>1, <2>3
        <4> QED  BY <1>2, <2>3, <4>1
      <3> QED  BY <3>1, <3>2, <3>3, <3>4
    <2> QED  BY <2>1, <2>2, <2>3
  <1> QED  BY <1>3, <1>4, <1>5 DEF Tiling

\* A block absorbs the one that starts where it ends.
LEMMA TilingAfterMerge ==
  ASSUME NEW blocks \in SUBSET Nat, NEW top \in Nat, NEW end, Tiling(blocks, end, top),
         \A c \in blocks : end[c] \in Nat,
         NEW a \in blocks, NEW b \in blocks, end[a] = b,
         NEW f, f[a] = end[b], \A c \in blocks \ {a, b} : f[c] = end[c]
  PROVE  Tiling(blocks \ {b}, f, top)
  <1>1. a < b /\ b < end[b]
    BY DEF Tiling
  <1>2. \A c \in blocks : c <= a \/ b <= c
    BY DEF Tiling
  <1>3. \A c \in blocks : b < c => end[b] <= c
    BY DEF Tiling
  <1>4. top = Base \/ Base \in blocks \ {b}
    <2>1. Base <= a
      BY DEF Tiling
    <2> QED  BY <1>1, <2>1, Offsets DEF Tiling
  <1>5. ASSUME NEW c \in blocks \ {b}
        PROVE  /\ Base <= c /\ c < f[c] /\ f[c] <= top
               /\ f[c] = top \/ f[c] \in blocks \ {b}
               /\ \A d \in blocks \ {b} : c < d => f[c] <= d
    <2>1. CASE c = a
      <3>1. f[c] = end[b] /\ Base <= c /\ end[b] <= top /\ (end[b] = top \/ end[b] \in blocks)
        BY <2>1 DEF Tiling
      <3>2. c < end[b] /\ end[b] # b
        BY <1>1, <2>1
      <3>3. \A d \in blocks \ {b} : a < d => end[b] <= d
        BY <1>2, <1>3
      <3> QED  BY <2>1, <3>1, <3>2, <3>3
    <2>2. CASE c # a
      <3>1. f[c] = end[c] /\ Base <= c /\ c < end[c] /\ end[c] <= top
        BY <2>2 DEF Tiling
      <3>2. end[c] = top \/ end[c] \in blocks
        BY DEF Tiling
      <3>3. \A d \in blocks : c < d => end[c] <= d
        BY DEF Tiling
      <3>4. end[c] # b
        <4>1. CASE c < a
          <5>1. end[c] <= a
            BY <3>3, <4>1
          <5> QED  BY <1>1, <5>1
        <4>2. CASE b <= c
          BY <3>1, <4>2
        <4> QED  BY <1>2, <2>2, <4>1, <4>2
      <3> QED  BY <3>1, <3>2, <3>3, <3>4
    <2> QED  BY <2>1, <2>2
  <1> QED  BY <1>4, <1>5 DEF Tiling

\* A block is added at the end.
LEMMA TilingAfterGrowth ==
  ASSUME NEW blocks \in SUBSET Nat, NEW top \in Nat, NEW end, Tiling(blocks, end, top),
         \A c \in blocks : end[c] \in Nat, Base <= top,
         NEW newTop \in Nat, top < newTop,
         NEW f, f[top] = newTop, \A c \in blocks : f[c] = end[c]
  PROVE  top \notin blocks /\ Tiling(blocks \cup {top}, f, newTop)
  <1>1. \A c \in blocks : /\ Base <= c /\ c < end[c] /\ end[c] <= top
                          /\ end[c] = top \/ end[c] \in blocks
                          /\ \A d \in blocks : c < d => end[c] <= d
    BY DEF Tiling
  <1>2. \A c \in blocks : c < top
    BY <1>1
  <1>3. top \notin blocks
    BY <1>2
  <1>4. \A c \in blocks \cup {top} : /\ Base <= c /\ c < f[c] /\ f[c] <= newTop
                                     /\ f[c] = newTop \/ f[c] \in blocks \cup {top}
                                     /\ \A d \in blocks \cup {top} : c < d => f[c] <= d
    BY <1>1, <1>2
  <1>5. newTop = Base \/ Base \in blocks \cup {top}
    BY DEF Tiling
  <1> QED  BY <1>3, <1>4, <1>5 DEF Tiling

\* The last block is taken off.
LEMMA TilingAfterCut ==
  ASSUME NEW blocks \in SUBSET Nat, NEW top \in Nat, NEW end, Tiling(blocks, end, top),
         \A c \in blocks : end[c] \in Nat,
         NEW b \in blocks, end[b] = top, NEW f, \A c \in blocks \ {b} : f[c] = end[c]
  PROVE  Tiling(blocks \ {b}, f, b)
  <1>1. \A c \in blocks : /\ Base <= c /\ c < end[c] /\ end[c] <= top
                          /\ end[c] = top \/ end[c] \in blocks
                          /\ \A d \in blocks : c < d => end[c] <= d
    BY DEF Tiling
  <1>2. ASSUME NEW c \in blocks \ {b}
        PROVE  c < b /\ end[c] <= b /\ end[c] \in blocks
    <2>1. ~(b < c)
      BY <1>1
    <2>2. c < b
      BY <2>1
    <2>3. end[c] <= b /\ b < top
      BY <1>1, <2>2
    <2> QED  BY <1>1, <2>2, <2>3
  <1>3. b = Base \/ Base \in blocks \ {b}
    <2>1. top # Base
      BY <1>1, Offsets
    <2> QED  BY <2>1 DEF Tiling
  <1>4. \A c \in blocks \ {b} : /\ Base <= c /\ c < f[c] /\ f[c] <= b
                                /\ f[c] = b \/ f[c] \in blocks \ {b}
                                /\ \A d \in blocks \ {b} : c < d => f[c] <= d
    BY <1>1, <1>2
  <1> QED  BY <1>3, <1>4 DEF Tiling

\* A block is the last one if all that start after it end before top.
LEMMA TilingReachesTop ==
  ASSUME NEW blocks \in SUBSET Nat, NEW top \in Nat, NEW end, Tiling(blocks, end, top),
         \A c \in blocks : end[c] \in Nat,
         NEW b \in blocks, \A c \in blocks : b < c => end[c] < top
  PROVE  end[b] = top
  <1>1. \A c \in blocks : c <= top
    BY DEF Tiling
  <1>2. PICK m \in blocks : \A y \in blocks : y <= m
    <2>1. blocks \subseteq Int /\ top \in Int
      OBVIOUS
    <2> QED  BY <1>1, <2>1, Greatest
  <1>3. end[m] = top
    <2>1. m < end[m] /\ (end[m] = top \/ end[m] \in blocks)
      BY DEF Tiling
    <2> QED  BY <1>2, <2>1
  <1>4. b = m
    <2>1. b <= m /\ ~(b < m)
      BY <1>2, <1>3
    <2> QED  BY <2>1
  <1> QED  BY <1>3, <1>4

\* Every address is in one block and in no other.
LEMMA TilingCovers ==
  ASSUME NEW blocks \in SUBSET Nat, NEW top \in Nat, NEW end, Tiling(blocks, end, top),
         \A c \in blocks : end[c] \in Nat, NEW a \in Base .. top - 1
  PROVE  \E b \in blocks : /\ b <= a /\ a < end[b]
                           /\ \A c \in blocks : c <= a /\ a < end[c] => c = b
  <1>1. \A c \in blocks : /\ Base <= c /\ c < end[c] /\ end[c] <= top
                          /\ end[c] = top \/ end[c] \in blocks
                          /\ \A d \in blocks : c < d => end[c] <= d
    BY DEF Tiling
  <1>2. a \in Nat /\ Base <= a /\ a < top /\ Base \in Nat
    BY Offsets
  <1>3. Base \in blocks
    BY <1>2 DEF Tiling
  <1> DEFINE T == {c \in blocks : c <= a}
  <1>4. PICK b \in T : \A y \in T : y <= b
    <2>1. Base \in T
      BY <1>2, <1>3
    <2>2. (\A y \in T : y \in Nat /\ y <= a) /\ a \in Int
      BY <1>2
    <2>3. T \subseteq Int
      <3> HIDE DEF T
      <3> QED  BY <2>2
    <2> HIDE DEF T
    <2> QED  BY <2>1, <2>2, <2>3, Greatest
  <1>5. b \in blocks /\ b <= a
    BY <1>4
  <1>6. a < end[b]
    <2>1. end[b] \in Nat /\ b < end[b] /\ (end[b] = top \/ end[b] \in blocks)
      BY <1>1, <1>5
    <2>2. ASSUME end[b] <= a PROVE FALSE
      <3>1. end[b] \in T
        BY <1>2, <2>1, <2>2
      <3> QED  BY <1>4, <1>5, <2>1, <3>1
    <2> QED  BY <1>2, <2>1, <2>2
  <1>7. ASSUME NEW c \in blocks, c <= a, a < end[c] PROVE c = b
    <2>1. c <= b /\ c \in Nat /\ b \in Nat /\ end[c] \in Nat
      BY <1>4, <1>5, <1>7
    <2>2. ~(c < b)
      BY <1>1, <1>2, <1>5, <1>7, <2>1
    <2> QED  BY <2>1, <2>2
  <1> QED  BY <1>5, <1>6, <1>7

-----------------------------------------------------------------------------
\* The list with a block less, and with a block more.

LEMMA LinkedWithout ==
  ASSUME NEW free \in SUBSET Nat, NULL \notin free, NEW h, NEW k, Linked(h, free),
         NEW b \in free, NEW p, b # h.first => Precedes(free, p, b),
         k.first = IF b # h.first THEN h.first
                   ELSE IF b = h.last THEN NULL ELSE NextOf(h, b),
         k.last = IF b # h.last THEN h.last ELSE IF b = h.first THEN NULL ELSE p,
         \A c \in free \ {b} : NextOf(k, c) = IF c = p /\ b # h.first THEN NextOf(h, b)
                                              ELSE NextOf(h, c)
  PROVE  Linked(k, free \ {b})
  <1>1. /\ h.first \in free /\ h.last \in free
        /\ h.first \in Nat /\ h.last \in Nat
        /\ \A c \in free : /\ c \in Nat /\ h.first <= c /\ c <= h.last
                           /\ c = h.last => NextOf(h, c) = NULL
                           /\ c # h.last => /\ NextOf(h, c) \in free /\ c < NextOf(h, c)
                                            /\ \A d \in free : d <= c \/ NextOf(h, c) <= d
    BY DEF Linked
  <1>2. CASE b = h.first /\ b = h.last
    <2>1. free \ {b} = {} /\ k.first = NULL /\ k.last = NULL
      <3>1. \A c \in free : c = b
        BY <1>1, <1>2
      <3> QED  BY <1>2, <3>1
    <2> QED  BY <2>1 DEF Linked
  <1>3. CASE b = h.first /\ b # h.last
    <2> DEFINE s == NextOf(h, b)
    <2>1. s \in free /\ b < s /\ \A d \in free : d <= b \/ s <= d
      BY <1>1, <1>3
    <2>2. k.first = s /\ k.last = h.last /\ \A c \in free \ {b} : NextOf(k, c) = NextOf(h, c)
      BY <1>3
    <2> HIDE DEF s
    <2>3. \A c \in free \ {b} : b < c
      BY <1>1, <1>3
    <2>4. \A c \in free \ {b} : s <= c /\ c <= h.last
      BY <1>1, <2>1, <2>3
    <2>5. \A c \in free \ {b} : c # h.last => NextOf(h, c) # b
      BY <1>1, <2>3
    <2> QED  BY <1>1, <1>3, <2>1, <2>2, <2>4, <2>5 DEF Linked
  <1>4. CASE b # h.first
    <2>1. p \in free /\ p < b /\ \A c \in free : c <= p \/ b <= c
      BY <1>4 DEF Precedes
    <2>2. NextOf(h, p) = b /\ p # h.last
      <3>1. p \in Nat /\ b \in Nat /\ b <= h.last
        BY <1>1, <2>1
      <3>2. p # h.last
        BY <1>1, <2>1, <3>1
      <3>3. /\ NextOf(h, p) \in free /\ NextOf(h, p) \in Nat /\ p < NextOf(h, p)
            /\ NextOf(h, p) <= b
        <4>1. NextOf(h, p) \in free /\ p < NextOf(h, p)
          BY <1>1, <2>1, <3>2
        <4>2. b <= p \/ NextOf(h, p) <= b
          BY <1>1, <2>1, <3>2
        <4>3. NextOf(h, p) \in Nat
          BY <1>1, <4>1
        <4> QED  BY <2>1, <3>1, <4>1, <4>2, <4>3
      <3>4. NextOf(h, p) <= p \/ b <= NextOf(h, p)
        BY <2>1, <3>3
      <3> QED  BY <3>1, <3>2, <3>3, <3>4
    <2>3. k.first = h.first /\ h.first \in free \ {b}
      BY <1>1, <1>4
    <2>4. \A c \in free \ {b, p} : NextOf(k, c) = NextOf(h, c)
      BY <1>4
    <2>5. \A c \in free \ {b, p} : c # h.last => NextOf(h, c) # b
      BY <1>1, <2>1
    <2>6. NextOf(k, p) = NextOf(h, b)
      BY <1>4, <2>1
    <2>7. CASE b = h.last
      <3>1. k.last = p /\ NextOf(k, p) = NULL
        BY <1>1, <1>4, <2>6, <2>7
      <3>2. \A c \in free \ {b} : c <= p /\ c # h.last
        BY <1>1, <2>1, <2>7
      <3> QED  BY <1>1, <2>1, <2>3, <2>4, <2>5, <3>1, <3>2 DEF Linked
    <2>8. CASE b # h.last
      <3>1. k.last = h.last /\ NextOf(k, p) \in free /\ b < NextOf(k, p)
        BY <1>1, <2>6, <2>8
      <3>2. \A d \in free \ {b} : d <= p \/ NextOf(k, p) <= d
        BY <1>1, <2>1, <2>6, <2>8
      <3>3. NextOf(k, p) \in free \ {b} /\ p < NextOf(k, p)
        <4>1. p \in Nat /\ b \in Nat /\ NextOf(k, p) \in Nat
          BY <1>1, <2>1, <3>1
        <4> QED  BY <2>1, <3>1, <4>1
      <3> QED  BY <1>1, <2>1, <2>2, <2>3, <2>4, <2>5, <2>8, <3>1, <3>2, <3>3 DEF Linked
    <2> QED  BY <2>7, <2>8
  <1> QED  BY <1>2, <1>3, <1>4

LEMMA LinkedWith ==
  ASSUME NEW free \in SUBSET Nat, NULL \notin free, NEW h, NEW k, Linked(h, free),
         NEW x \in Nat \ {NULL}, x \notin free,
         NEW p, free # {} /\ h.first < x => Precedes(free, p, x),
         k.first = IF free = {} \/ x < h.first THEN x ELSE h.first,
         k.last = IF free = {} \/ h.last < x THEN x ELSE h.last,
         NextOf(k, x) = IF free = {} \/ h.last < x THEN NULL
                        ELSE IF x < h.first THEN h.first ELSE NextOf(h, p),
         \A c \in free : NextOf(k, c) = IF h.first < x /\ c = p THEN x ELSE NextOf(h, c)
  PROVE  Linked(k, free \cup {x})
  <1>1. CASE free = {}
    <2>1. k.first = x /\ k.last = x /\ NextOf(k, x) = NULL
      BY <1>1
    <2> QED  BY <1>1, <2>1 DEF Linked
  <1>2. CASE free # {}
    <2>1. /\ h.first \in free /\ h.last \in free
          /\ h.first \in Nat /\ h.last \in Nat /\ x \in Nat
          /\ \A c \in free : /\ c \in Nat /\ h.first <= c /\ c <= h.last
                             /\ c = h.last => NextOf(h, c) = NULL
                             /\ c # h.last => /\ NextOf(h, c) \in free /\ c < NextOf(h, c)
                                              /\ \A d \in free : d <= c \/ NextOf(h, c) <= d
      BY <1>2 DEF Linked
    <2>2. CASE x < h.first
      <3>1. k.first = x /\ k.last = h.last /\ NextOf(k, x) = h.first
        BY <1>2, <2>1, <2>2
      <3>2. \A c \in free : NextOf(k, c) = NextOf(h, c)
        BY <2>1, <2>2
      <3>3. \A c \in free : x < c
        BY <2>1, <2>2
      <3> QED  BY <1>2, <2>1, <3>1, <3>2, <3>3 DEF Linked
    <2>3. CASE h.first < x
      <3>1. p \in free /\ p < x /\ \A c \in free : c <= p \/ x <= c
        BY <1>2, <2>3 DEF Precedes
      <3>2. NextOf(k, p) = x /\ \A c \in free \ {p} : NextOf(k, c) = NextOf(h, c)
        BY <2>3, <3>1
      <3>3. k.first = h.first
        BY <1>2, <2>1, <2>3
      <3>4. CASE h.last < x
        <4>1. k.last = x /\ NextOf(k, x) = NULL
          BY <3>4
        <4>2. p = h.last /\ \A c \in free : c < x
          BY <2>1, <3>1, <3>4
        <4>3. \A c \in free : c <= x /\ (c # p => c # h.last)
          BY <2>1, <4>2
        <4>4. ASSUME NEW c \in free, c # p
              PROVE  /\ NextOf(k, c) = NextOf(h, c) /\ NextOf(h, c) \in free
                     /\ c < NextOf(h, c)
                     /\ \A d \in free \cup {x} : d <= c \/ NextOf(h, c) <= d
          BY <2>1, <3>2, <4>2, <4>3, <4>4
        <4>5. h.first <= x
          BY <2>1, <2>3
        <4> QED  BY <2>1, <3>1, <3>2, <3>3, <4>1, <4>2, <4>3, <4>4, <4>5 DEF Linked
      <3>5. CASE x < h.last
        <4>1. p # h.last
          BY <3>1, <3>5
        <4> DEFINE n == NextOf(h, p)
        <4>2. n \in free /\ p < n /\ \A d \in free : d <= p \/ n <= d
          BY <2>1, <3>1, <4>1
        <4>3. k.last = h.last /\ NextOf(k, x) = n
          BY <1>2, <2>1, <2>3, <3>5
        <4> HIDE DEF n
        <4>4. x < n /\ \A d \in free : d <= x \/ n <= d
          BY <3>1, <4>2
        <4>5. ASSUME NEW c \in free \ {p}, c # h.last
              PROVE  x <= c \/ NextOf(h, c) <= x
          <5>1. c \in Nat /\ p \in Nat /\ NextOf(h, c) \in Nat /\ p < x
            BY <2>1, <3>1, <4>5
          <5>2. (c <= p \/ x <= c) /\ (p <= c \/ NextOf(h, c) <= p)
            BY <2>1, <3>1, <4>5
          <5>3. CASE c <= p
            BY <4>5, <5>1, <5>2, <5>3
          <5> QED  BY <5>2, <5>3
        <4>6. \A c \in free \ {p} :
                  c # h.last => \A d \in free \cup {x} : d <= c \/ NextOf(h, c) <= d
          BY <2>1, <4>5
        <4> QED  BY <2>1, <2>3, <3>1, <3>2, <3>3, <3>5, <4>1, <4>2, <4>3, <4>4, <4>6 DEF Linked
      <3> QED  BY <2>1, <3>4, <3>5
    <2> QED  BY <2>1, <2>2, <2>3
  <1> QED  BY <1>1, <1>2

-----------------------------------------------------------------------------
\* What the list's functions leave in memory.

\* Heap k has the memory of h and these ends of the list.
Renamed(h, k, first, last) ==
    /\ k \in Heaps /\ k.top = h.top /\ k.fault = h.fault
    /\ k.first = first /\ k.last = last /\ \A a : Load(k, a) = Load(h, a)

LEMMA EndsAreRenamed ==
  ASSUME NEW h \in Heaps, NEW x \in Int, NEW y \in Int
  PROVE  /\ Renamed(h, [h EXCEPT !.first = x], x, h.last)
         /\ Renamed(h, [h EXCEPT !.last = x], h.first, x)
         /\ Renamed(h, [h EXCEPT !.first = x, !.last = y], x, y)
  <1>1. \A k : k.word = h.word => \A a : Load(k, a) = Load(h, a)
    BY DEF Load
  <1>2. Renamed(h, [h EXCEPT !.first = x], x, h.last)
    <2> DEFINE k == [h EXCEPT !.first = x]
    <2>1. k \in Heaps /\ k.word = h.word
      BY DEF Heaps
    <2>2. k.top = h.top /\ k.fault = h.fault /\ k.first = x /\ k.last = h.last
      BY DEF Heaps
    <2> HIDE DEF k
    <2>3. Renamed(h, k, x, h.last)
      BY <1>1, <2>1, <2>2 DEF Renamed
    <2> QED  BY <2>3 DEF k
  <1>3. Renamed(h, [h EXCEPT !.last = x], h.first, x)
    <2> DEFINE k == [h EXCEPT !.last = x]
    <2>1. k \in Heaps /\ k.word = h.word
      BY DEF Heaps
    <2>2. k.top = h.top /\ k.fault = h.fault /\ k.first = h.first /\ k.last = x
      BY DEF Heaps
    <2> HIDE DEF k
    <2>3. Renamed(h, k, h.first, x)
      BY <1>1, <2>1, <2>2 DEF Renamed
    <2> QED  BY <2>3 DEF k
  <1>4. Renamed(h, [h EXCEPT !.first = x, !.last = y], x, y)
    <2> DEFINE k == [h EXCEPT !.first = x, !.last = y]
    <2>1. k \in Heaps /\ k.word = h.word
      BY DEF Heaps
    <2>2. k.top = h.top /\ k.fault = h.fault /\ k.first = x /\ k.last = y
      BY DEF Heaps
    <2> HIDE DEF k
    <2>3. Renamed(h, k, x, y)
      BY <1>1, <2>1, <2>2 DEF Renamed
    <2> QED  BY <2>3 DEF k
  <1> QED  BY <1>2, <1>3, <1>4

LEMMA RenamedIsTheSame ==
  ASSUME NEW h \in Heaps, NEW k, NEW first, NEW last, Renamed(h, k, first, last),
         NEW blocks, Roomy(h, blocks)
  PROVE  /\ Roomy(k, blocks)
         /\ \A b : /\ InternalSize(k, b) = InternalSize(h, b)
                   /\ PrevOf(k, b) = PrevOf(h, b) /\ NextOf(k, b) = NextOf(h, b)
  BY DEF Renamed, Roomy, InternalSize, PrevOf, NextOf

\* Removing block b does not lead astray: its prev pointer is not read, or is what it
\* should be.
NotStale(h, free, b) ==
    h.first = h.last \/ b = h.first \/ Precedes(free, PrevOf(h, b), b)

\* The test the model makes is enough.
LEMMA NotStaleUnlessFollowed ==
  ASSUME NEW h \in Heaps, NEW free, Roomy(h, free), Linked(h, free), NEW b \in free,
         ~FollowsStalePrev(h, b)
  PROVE  NotStale(h, free, b)
  <1> SUFFICES ASSUME h.first # h.last, b # h.first
               PROVE  Precedes(free, PrevOf(h, b), b)
    BY DEF NotStale
  <1> DEFINE before == {a \in free : NextOf(h, a) = b}
  <1>1. free \subseteq Nat /\ NULL \notin free
    BY NullIsNoBlock DEF Roomy
  <1>2. h.first \in free /\ h.first <= b
    BY DEF Linked
  <1>3. h.first < b
    <2>1. h.first \in Nat /\ b \in Nat
      BY <1>1, <1>2
    <2> QED  BY <1>2, <2>1
  <1>4. PICK p \in free : Precedes(free, p, b)
    BY <1>1, <1>2, <1>3, SomethingPrecedes
  <1>5. p \in before
    BY <1>1, <1>4, NextFollows
  <1>6. Min(before) \in before
    <2>1. before \subseteq Nat
      BY <1>1
    <2> HIDE DEF before
    <2> QED  BY <1>5, <2>1, Least
  <1>7. PrevOf(h, b) = Min(before)
    <2>1. PrevOf(h, b) = ListPrev(h, b)
      BY DEF FollowsStalePrev
    <2>2. ToSet(FreeBlocks(h)) = free
      BY WalkMeetsAll
    <2>3. ListPrev(h, b) = IF before = {} THEN NULL ELSE Min(before)
      BY <2>2 DEF ListPrev
    <2> QED  BY <1>5, <2>1, <2>3
  <1>8. Min(before) \in free /\ NextOf(h, Min(before)) = b
    BY <1>6
  <1> QED  BY <1>1, <1>7, <1>8, NextIsPreceded

\* The words that are the same in both heaps, and the variables.
SameSizes(h, k, blocks) ==
    /\ k \in Heaps /\ k.top = h.top /\ k.fault = h.fault /\ Roomy(k, blocks)
    /\ \A c \in blocks : InternalSize(k, c) = InternalSize(h, c)

\* Removing a block by a right prev pointer takes it off the list and leaves the sizes alone.
LEMMA BlockIsRemoved ==
  ASSUME NEW h \in Heaps, NEW free \in SUBSET Nat, NULL \notin free, Linked(h, free),
         NEW blocks, Roomy(h, blocks), NEW b \in free, free \ {b} \subseteq blocks,
         NotStale(h, free, b)
  PROVE  /\ SameSizes(h, FreeBlockList_remove(h, b), blocks)
         /\ Linked(FreeBlockList_remove(h, b), free \ {b})
  <1> DEFINE k == FreeBlockList_remove(h, b)
  <1>0. /\ h.first \in free /\ h.last \in free
        /\ \A c \in free : /\ c \in Nat /\ h.first <= c /\ c <= h.last
                           /\ c = h.last => NextOf(h, c) = NULL
                           /\ c # h.last => NextOf(h, c) \in free /\ c < NextOf(h, c)
    BY DEF Linked
  <1>1. CASE h.first = h.last
    <2> DEFINE g == [h EXCEPT !.first = NULL, !.last = NULL]
    <2>1. Renamed(h, g, NULL, NULL)
      <3>1. NULL \in Int
        BY DEF NULL
      <3> QED  BY <3>1, EndsAreRenamed
    <2>2. k = g
      BY <1>1 DEF FreeBlockList_remove
    <2> HIDE DEF g
    <2>3. \A c \in free : c = b
      <3>1. h.first \in Nat /\ h.last \in Nat
        BY <1>0
      <3> QED  BY <1>0, <1>1, <3>1
    <2>4. free \ {b} = {}
      BY <2>3
    <2>5. Linked(g, free \ {b})
      BY <2>1, <2>4 DEF Linked, Renamed
    <2>6. SameSizes(h, g, blocks)
      BY <2>1, RenamedIsTheSame DEF Renamed, SameSizes
    <2> QED  BY <2>2, <2>5, <2>6
  <1>2. CASE h.first # h.last /\ b = h.first
    <2> DEFINE s == NextOf(h, b)
               g == [h EXCEPT !.first = s]
    <2>1. s \in free \ {b} /\ s \in Int
      <3>1. b # h.last /\ b \in Nat
        BY <1>0, <1>2
      <3>2. s \in free /\ b < s
        BY <1>0, <3>1
      <3>3. s \in Nat
        BY <1>0, <3>2
      <3> QED  BY <3>1, <3>2, <3>3
    <2>2. k = setPrev(g, s, NULL)
      BY <1>2 DEF FreeBlockList_remove
    <2>3. Renamed(h, g, s, h.last)
      BY <2>1, EndsAreRenamed
    <2> HIDE DEF g, k
    <2>4. /\ g \in Heaps /\ Roomy(g, blocks)
          /\ \A c : /\ InternalSize(g, c) = InternalSize(h, c)
                    /\ NextOf(g, c) = NextOf(h, c)
      BY <2>3, RenamedIsTheSame DEF Renamed
    <2>5. PrevWritten(g, k, blocks, s, NULL)
      BY <2>1, <2>2, <2>4, HeaderIsWritten DEF NULL
    <2>6. SameSizes(h, k, blocks)
      BY <2>3, <2>4, <2>5 DEF PrevWritten, SameVariables, SameSizes, Renamed
    <2>7. k.first = s /\ k.last = h.last /\ \A c \in free \ {b} : NextOf(k, c) = NextOf(h, c)
      BY <2>3, <2>4, <2>5 DEF PrevWritten, SameVariables, Renamed
    <2>8. Linked(k, free \ {b})
      BY <1>2, <2>7, LinkedWithout
    <2> QED  BY <2>6, <2>8 DEF k
  <1>3. CASE h.first # h.last /\ b # h.first
    <2> DEFINE p == PrevOf(h, b)
    <2>1. Precedes(free, p, b) /\ p \in free \ {b}
      <3>1. Precedes(free, p, b)
        BY <1>3 DEF NotStale
      <3> QED  BY <1>0, <3>1 DEF Precedes
    <2>2. p \in Int /\ p \in blocks
      <3> HIDE DEF p
      <3> QED  BY <1>0, <2>1
    <2>3. CASE b = h.last
      <3> DEFINE g == [h EXCEPT !.last = p]
      <3>1. k = setNext(g, p, NULL)
        BY <1>3, <2>3 DEF FreeBlockList_remove
      <3>2. Renamed(h, g, h.first, p)
        BY <2>2, EndsAreRenamed
      <3> HIDE DEF g, k, p
      <3>3. /\ g \in Heaps /\ Roomy(g, blocks)
            /\ \A c : /\ InternalSize(g, c) = InternalSize(h, c)
                      /\ NextOf(g, c) = NextOf(h, c)
        BY <3>2, RenamedIsTheSame DEF Renamed
      <3>4. NextWritten(g, k, blocks, p, NULL)
        BY <2>2, <3>1, <3>3, HeaderIsWritten DEF NULL
      <3>5. SameSizes(h, k, blocks)
        BY <3>2, <3>3, <3>4 DEF NextWritten, SameVariables, SameSizes, Renamed
      <3>6. NextOf(h, b) = NULL
        BY <1>0, <2>3
      <3>7. /\ k.first = h.first /\ k.last = p
            /\ \A c \in free \ {b} : NextOf(k, c) = IF c = p THEN NextOf(h, b)
                                                    ELSE NextOf(h, c)
        BY <3>2, <3>3, <3>4, <3>6 DEF NextWritten, SameVariables, Renamed
      <3>8. Linked(k, free \ {b})
        BY <1>3, <2>1, <2>3, <3>7, LinkedWithout
      <3> QED  BY <3>5, <3>8 DEF k
    <2>4. CASE b # h.last
      <3> DEFINE n == NextOf(h, b)
                 g == setNext(h, p, n)
      <3>1. n \in free \ {b} /\ n \in Int
        <4>1. b \in Nat /\ n \in free /\ b < n
          BY <1>0, <2>4
        <4>2. n \in Nat
          BY <1>0, <4>1
        <4> QED  BY <4>1, <4>2
      <3>2. k = setPrev(g, n, p)
        BY <1>3, <2>4 DEF FreeBlockList_remove
      <3>3. NextWritten(h, g, blocks, p, n)
        BY <2>2, <3>1, HeaderIsWritten
      <3> HIDE DEF g, k, p
      <3>4. g \in Heaps /\ Roomy(g, blocks) /\ n \in blocks
        BY <3>1, <3>3 DEF NextWritten
      <3> HIDE DEF n
      <3>5. PrevWritten(g, k, blocks, n, p)
        BY <2>2, <3>2, <3>4, HeaderIsWritten
      <3>6. SameSizes(h, k, blocks)
        BY <3>3, <3>5 DEF NextWritten, PrevWritten, SameVariables, SameSizes
      <3>7. /\ k.first = h.first /\ k.last = h.last
            /\ \A c \in free \ {b} : NextOf(k, c) = IF c = p THEN NextOf(h, b)
                                                    ELSE NextOf(h, c)
        BY <3>3, <3>5 DEF NextWritten, PrevWritten, SameVariables, n
      <3>8. Linked(k, free \ {b})
        BY <1>3, <2>1, <2>4, <3>7, LinkedWithout
      <3> QED  BY <3>6, <3>8 DEF k
    <2> QED  BY <2>3, <2>4
  <1> QED  BY <1>1, <1>2, <1>3

\* The loop of insertSomeWhereInList finds the predecessor of a block that lies between
\* the ends of the list.
LEMMA EnclosingBlockIsFound ==
  ASSUME NEW h \in Heaps, NEW free, Roomy(h, free), Linked(h, free),
         NEW x \in Nat, x \notin free, h.first < x, x < h.last, free # {}
  PROVE  LET current == FirstIn(h, {b \in ToSet(FreeBlocks(h)) : b < x /\ NextOf(h, b) > x})
         IN  /\ current # NULL /\ current \in free /\ Precedes(free, current, x)
             /\ NextOf(h, current) \in free
  <1> DEFINE T == {b \in free : b < x /\ NextOf(h, b) > x}
             current == FirstIn(h, {b \in ToSet(FreeBlocks(h)) : b < x /\ NextOf(h, b) > x})
  <1>1. /\ h.first \in free /\ h.last \in free
        /\ \A c \in free : /\ c \in Nat /\ h.first <= c /\ c <= h.last
                           /\ c = h.last => NextOf(h, c) = NULL
                           /\ c # h.last => /\ NextOf(h, c) \in free /\ c < NextOf(h, c)
                                            /\ \A d \in free : d <= c \/ NextOf(h, c) <= d
    BY DEF Linked, Roomy
  <1>2. current = FirstIn(h, T)
    BY WalkMeetsAll
  <1>3. PICK p \in free : Precedes(free, p, x)
    <2>1. free \subseteq Nat
      BY <1>1
    <2> QED  BY <1>1, <2>1, SomethingPrecedes
  <1>4. p \in T
    <2>1. p < x /\ \A c \in free : c <= p \/ x <= c
      BY <1>3 DEF Precedes
    <2>2. h.last \in Nat /\ p # h.last
      BY <1>1, <2>1
    <2>3. NextOf(h, p) \in free /\ p < NextOf(h, p)
      BY <1>1, <2>2
    <2>4. NextOf(h, p) \in Nat /\ p \in Nat
      BY <1>1, <2>3
    <2>5. x <= NextOf(h, p) /\ x # NextOf(h, p)
      BY <2>1, <2>3, <2>4
    <2>6. NextOf(h, p) > x
      BY <2>4, <2>5
    <2> QED  BY <2>1, <2>6
  <1>5. current \in T
    <2>1. T \in SUBSET free /\ T # {}
      BY <1>4
    <2> HIDE DEF T, current
    <2> QED  BY <1>2, <2>1, FirstInIsIn
  <1> HIDE DEF current
  <1>6. current \in free /\ current < x /\ NextOf(h, current) > x
    BY <1>5
  <1>7. current # h.last /\ current \in Nat
    <2>1. current = h.last => NextOf(h, current) = NULL
      BY <1>1, <1>6
    <2> QED  BY <1>1, <1>6, <2>1 DEF NULL
  <1>8. /\ NextOf(h, current) \in free
        /\ \A d \in free : d <= current \/ NextOf(h, current) <= d
    BY <1>1, <1>6, <1>7
  <1>9. \A d \in free : d <= current \/ x <= d
    <2>1. NextOf(h, current) \in Nat
      BY <1>1, <1>8
    <2> QED  BY <1>1, <1>6, <1>8, <2>1
  <1>10. current # NULL
    BY <1>6, NullIsNoBlock
  <1> QED  BY <1>6, <1>8, <1>9, <1>10 DEF Precedes, current

\* Inserting a block puts it in its place in the list, with its prev pointer right, and leaves
\* the sizes alone.
LEMMA BlockIsInserted ==
  ASSUME NEW h \in Heaps, NEW free \in SUBSET Nat, Linked(h, free),
         NEW blocks, Roomy(h, blocks), free \subseteq blocks,
         NEW x \in blocks, x \notin free
  PROVE  LET k == FreeBlockList_insert(h, x)
         IN  /\ SameSizes(h, k, blocks) /\ Linked(k, free \cup {x})
             /\ \/ PrevOf(k, x) = NULL /\ \A c \in free : x < c
                \/ Precedes(free, PrevOf(k, x), x)
  <1> DEFINE k == FreeBlockList_insert(h, x)
  <1>0. /\ NULL \in Int /\ NULL \notin blocks /\ NULL \notin free
        /\ \A c \in blocks : c \in Nat
    <2>1. NULL \in Int
      BY DEF NULL
    <2>2. NULL \notin blocks
      BY NullIsNoBlock
    <2>3. \A c \in blocks : c \in Nat
      BY DEF Roomy
    <2> QED  BY <2>1, <2>2, <2>3
  <1>1. Roomy(h, free)
    BY DEF Roomy
  <1>2. x \in Nat \ {NULL} /\ x \in Int
    BY <1>0
  <1>7. free # {} => /\ h.first \in free /\ h.last \in free
                     /\ h.first \in blocks /\ h.last \in blocks
                     /\ h.first \in Nat /\ h.last \in Nat
                     /\ \A c \in free : c \in Nat /\ h.first <= c /\ c <= h.last
    BY DEF Linked
  <1>3. CASE free = {}
    <2> DEFINE g == [h EXCEPT !.first = x, !.last = x]
               n == setNext(g, x, NULL)
    <2>1. k = setPrev(n, x, NULL)
      BY <1>3 DEF FreeBlockList_insert, insertOnly, Linked
    <2>2. Renamed(h, g, x, x)
      BY <1>2, EndsAreRenamed
    <2> HIDE DEF g, k
    <2>3. /\ g \in Heaps /\ Roomy(g, blocks)
          /\ \A c : InternalSize(g, c) = InternalSize(h, c)
      BY <2>2, RenamedIsTheSame DEF Renamed
    <2>4. NextWritten(g, n, blocks, x, NULL)
      BY <1>0, <2>3, HeaderIsWritten
    <2> HIDE DEF n
    <2>5. PrevWritten(n, k, blocks, x, NULL)
      BY <1>0, <2>1, <2>4, HeaderIsWritten DEF NextWritten
    <2>6. SameSizes(h, k, blocks)
      BY <2>2, <2>3, <2>4, <2>5 DEF NextWritten, PrevWritten, SameVariables, SameSizes, Renamed
    <2>7. k.first = x /\ k.last = x /\ NextOf(k, x) = NULL /\ PrevOf(k, x) = NULL
      BY <2>2, <2>4, <2>5 DEF NextWritten, PrevWritten, SameVariables, Renamed
    <2>8. Linked(k, free \cup {x})
      BY <1>0, <1>2, <1>3, <2>7, LinkedWith
    <2> QED  BY <1>3, <2>6, <2>7, <2>8 DEF k
  <1>4. CASE free # {} /\ x < h.first
    <2> DEFINE f == h.first
               n == setNext(h, x, f)
               m == setPrev(n, x, NULL)
               g == setPrev(m, f, x)
    <2>0. f \in free /\ f \in blocks /\ f \in Int /\ \A c \in free : c \in Nat /\ f <= c
      BY <1>4, <1>7
    <2>1. k = [g EXCEPT !.first = x]
      BY <1>0, <1>4, <2>0 DEF FreeBlockList_insert, insertBeginning
    <2>2. NextWritten(h, n, blocks, x, f)
      BY <2>0, HeaderIsWritten
    <2> HIDE DEF n, k
    <2>3. PrevWritten(n, m, blocks, x, NULL)
      BY <1>0, <2>2, HeaderIsWritten DEF NextWritten
    <2> HIDE DEF m
    <2>4. PrevWritten(m, g, blocks, f, x)
      BY <1>2, <2>0, <2>3, HeaderIsWritten DEF PrevWritten
    <2> HIDE DEF g
    <2>5. Renamed(g, k, x, g.last) /\ Roomy(g, blocks) /\ g \in Heaps
      BY <1>2, <2>1, <2>4, EndsAreRenamed DEF PrevWritten
    <2>6. /\ Roomy(k, blocks)
          /\ \A c : /\ InternalSize(k, c) = InternalSize(g, c)
                    /\ PrevOf(k, c) = PrevOf(g, c) /\ NextOf(k, c) = NextOf(g, c)
      BY <2>5, RenamedIsTheSame
    <2>7. SameSizes(h, k, blocks)
      BY <2>2, <2>3, <2>4, <2>5, <2>6
         DEF NextWritten, PrevWritten, SameVariables, SameSizes, Renamed
    <2>8. /\ k.first = x /\ k.last = h.last /\ NextOf(k, x) = f
          /\ \A c \in free : NextOf(k, c) = NextOf(h, c)
      BY <2>2, <2>3, <2>4, <2>5, <2>6 DEF NextWritten, PrevWritten, SameVariables, Renamed
    <2>9. PrevOf(k, x) = NULL
      BY <2>0, <2>3, <2>4, <2>6 DEF PrevWritten
    <2>10. (\A c \in free : x < c) /\ ~(h.last < x) /\ ~(h.first < x)
      <3>1. \A c \in free : x < c
        BY <1>2, <1>4, <2>0
      <3>2. h.last \in free /\ h.first \in free
        BY <1>4, <1>7
      <3>3. h.last \in Nat /\ h.first \in Nat /\ x < h.last /\ x < h.first
        BY <1>4, <1>7, <3>1, <3>2
      <3> QED  BY <1>2, <3>1, <3>3
    <2>11. Linked(k, free \cup {x})
      BY <1>0, <1>2, <1>4, <2>8, <2>10, LinkedWith
    <2> QED  BY <2>7, <2>9, <2>10, <2>11 DEF k
  <1>5. CASE free # {} /\ x > h.last
    <2> DEFINE l == h.last
               n == setPrev(h, x, l)
               m == setNext(n, x, NULL)
               g == setNext(m, l, x)
    <2>0. l \in free /\ l \in blocks /\ l \in Int /\ \A c \in free : c \in Nat /\ c <= l
      BY <1>5, <1>7
    <2>1. h.first \in free /\ h.first < x /\ l < x /\ ~(x < h.first)
      <3>1. h.first \in free /\ h.first \in Nat /\ h.first <= l
        BY <1>5, <1>7
      <3>2. l \in Nat /\ l < x
        BY <1>5, <1>7
      <3> QED  BY <1>2, <3>1, <3>2
    <2>2. k = [g EXCEPT !.last = x]
      BY <1>0, <1>5, <2>0, <2>1 DEF FreeBlockList_insert, insertEnd
    <2>3. PrevWritten(h, n, blocks, x, l)
      BY <2>0, HeaderIsWritten
    <2> HIDE DEF n, k
    <2>4. NextWritten(n, m, blocks, x, NULL)
      BY <1>0, <2>3, HeaderIsWritten DEF PrevWritten
    <2> HIDE DEF m
    <2>5. NextWritten(m, g, blocks, l, x)
      BY <1>2, <2>0, <2>4, HeaderIsWritten DEF NextWritten
    <2> HIDE DEF g
    <2>6. Renamed(g, k, g.first, x) /\ Roomy(g, blocks) /\ g \in Heaps
      BY <1>2, <2>2, <2>5, EndsAreRenamed DEF NextWritten
    <2>7. /\ Roomy(k, blocks)
          /\ \A c : /\ InternalSize(k, c) = InternalSize(g, c)
                    /\ PrevOf(k, c) = PrevOf(g, c) /\ NextOf(k, c) = NextOf(g, c)
      BY <2>6, RenamedIsTheSame
    <2>8. SameSizes(h, k, blocks)
      BY <2>3, <2>4, <2>5, <2>6, <2>7
         DEF NextWritten, PrevWritten, SameVariables, SameSizes, Renamed
    <2>9. /\ k.first = h.first /\ k.last = x /\ NextOf(k, x) = NULL
          /\ \A c \in free : NextOf(k, c) = IF c = l THEN x ELSE NextOf(h, c)
      BY <2>0, <2>3, <2>4, <2>5, <2>6, <2>7
         DEF NextWritten, PrevWritten, SameVariables, Renamed
    <2>10. PrevOf(k, x) = l
      BY <2>3, <2>4, <2>5, <2>7 DEF NextWritten, PrevWritten
    <2>11. Precedes(free, l, x)
      BY <2>0, <2>1 DEF Precedes
    <2>12. Linked(k, free \cup {x})
      <3>1. x > h.last <=> h.last < x
        BY <1>2, <2>0
      <3> HIDE DEF l
      <3>2. free \in SUBSET Nat /\ NULL \notin free /\ x \in Nat \ {NULL} /\ x \notin free
        BY <1>0, <1>2
      <3>3. /\ k.first = IF free = {} \/ x < h.first THEN x ELSE h.first
            /\ k.last = IF free = {} \/ h.last < x THEN x ELSE h.last
            /\ NextOf(k, x) = IF free = {} \/ h.last < x THEN NULL
                              ELSE IF x < h.first THEN h.first ELSE NextOf(h, l)
        BY <1>5, <2>1, <2>9 DEF l
      <3>4. \A c \in free : NextOf(k, c) = IF h.first < x /\ c = l THEN x ELSE NextOf(h, c)
        BY <2>1, <2>9
      <3> QED  BY <2>11, <3>2, <3>3, <3>4, LinkedWith
    <2> QED  BY <2>8, <2>10, <2>11, <2>12 DEF k
  <1>6. CASE free # {} /\ ~(x < h.first) /\ ~(x > h.last)
    <2> DEFINE c0 == FirstIn(h, {b \in ToSet(FreeBlocks(h)) : b < x /\ NextOf(h, b) > x})
               y == NextOf(h, c0)
               n == setPrev(h, x, c0)
               m == setNext(n, x, y)
               g == setNext(m, c0, x)
    <2>0. h.first < x /\ x < h.last
      <3>1. h.first \in free /\ h.last \in free
        BY <1>6 DEF Linked
      <3>2. h.first \in Nat /\ h.last \in Nat /\ h.first # x /\ h.last # x
        BY <1>0, <3>1
      <3> QED  BY <1>2, <1>6, <3>2
    <2>1. c0 # NULL /\ c0 \in free /\ Precedes(free, c0, x) /\ y \in free
      BY <1>1, <1>2, <1>6, <2>0, EnclosingBlockIsFound
    <2>2. k = setPrev(g, y, x)
      <3>1. h.first # NULL
        BY <1>0, <1>6 DEF Linked
      <3> QED  BY <1>6, <2>1, <3>1 DEF FreeBlockList_insert, insertSomeWhereInList
    <2> HIDE DEF c0
    <2>3. c0 \in blocks /\ c0 \in Int /\ y \in blocks /\ y \in Int /\ c0 # x /\ y # x
      <3> HIDE DEF y
      <3> QED  BY <1>0, <2>1
    <2>4. PrevWritten(h, n, blocks, x, c0)
      BY <2>3, HeaderIsWritten
    <2> HIDE DEF n, k
    <2>5. NextWritten(n, m, blocks, x, y)
      BY <2>3, <2>4, HeaderIsWritten DEF PrevWritten
    <2> HIDE DEF m
    <2>6. NextWritten(m, g, blocks, c0, x)
      BY <1>2, <2>3, <2>5, HeaderIsWritten DEF NextWritten
    <2> HIDE DEF g
    <2>7. PrevWritten(g, k, blocks, y, x)
      BY <1>2, <2>2, <2>3, <2>6, HeaderIsWritten DEF NextWritten
    <2>8. SameSizes(h, k, blocks)
      BY <2>4, <2>5, <2>6, <2>7 DEF NextWritten, PrevWritten, SameVariables, SameSizes
    <2>9. /\ k.first = h.first /\ k.last = h.last /\ NextOf(k, x) = NextOf(h, c0)
          /\ \A c \in free : NextOf(k, c) = IF c = c0 THEN x ELSE NextOf(h, c)
      BY <2>3, <2>4, <2>5, <2>6, <2>7 DEF NextWritten, PrevWritten, SameVariables
    <2>10. PrevOf(k, x) = c0
      BY <2>3, <2>4, <2>5, <2>6, <2>7 DEF NextWritten, PrevWritten
    <2>11. ~(h.last < x) /\ ~(x < h.first)
      BY <1>6
    <2>12. Linked(k, free \cup {x})
      BY <1>0, <1>2, <1>6, <2>0, <2>1, <2>9, <2>11, LinkedWith
    <2> QED  BY <2>1, <2>8, <2>10, <2>12 DEF k
  <1> QED  BY <1>3, <1>4, <1>5, <1>6

-----------------------------------------------------------------------------
\* A sound heap, and what the allocator's functions make of it.

LEMMA EndsAre ==
  ASSUME NEW h \in Heaps, NEW b \in Int
  PROVE  /\ InternalSize(h, b) \in Int
         /\ ExternalSize(h, b) = EMPTY_DATA_OFFSET + InternalSize(h, b)
         /\ NextContiguousBlock(h, b) = b + EMPTY_DATA_OFFSET + InternalSize(h, b)
         /\ BlockEnd(h, b) = b + PUBLIC_POINTER_OFFSET + InternalSize(h, b)
  <1>1. InternalSize(h, b) \in Int
    BY LoadIsTyped DEF InternalSize
  <1>2. ExternalSize(h, b) = EMPTY_DATA_OFFSET + InternalSize(h, b)
    BY DEF ExternalSize, externalSizeOfFreeBlock
  <1>3. NextContiguousBlock(h, b) = b + (EMPTY_DATA_OFFSET + InternalSize(h, b))
    BY <1>2 DEF NextContiguousBlock
  <1>4. BlockEnd(h, b) = b + (PUBLIC_POINTER_OFFSET + InternalSize(h, b))
    BY DEF BlockEnd, externalSizeOfUnfreeBlock
  <1> QED  BY <1>1, <1>2, <1>3, <1>4, Offsets

\* Where the blocks of a sound heap lie.
WellPlaced(h, free, held) ==
    /\ h.top \in Nat /\ Base <= h.top /\ h.top <= HeapLimit
    /\ free \cup held \in SUBSET Nat /\ NULL \notin free \cup held
    /\ \A b \in free : /\ InternalSize(h, b) \in Nat /\ EndOf(h, free, b) \in Nat
                       /\ EndOf(h, free, b) = b + EMPTY_DATA_OFFSET + InternalSize(h, b)
    /\ \A b \in held : /\ InternalSize(h, b) \in Nat /\ EndOf(h, free, b) \in Nat
                       /\ InternalSize(h, b) >= sizeDiff
                       /\ EndOf(h, free, b) = b + PUBLIC_POINTER_OFFSET + InternalSize(h, b)
    /\ \A b \in free \cup held : /\ b + EMPTY_DATA_OFFSET <= EndOf(h, free, b)
                                 /\ EndOf(h, free, b) <= h.top
    /\ Roomy(h, free \cup held) /\ Roomy(h, free)

LEMMA SoundIsWellPlaced ==
  ASSUME NEW h \in Heaps, NEW free, NEW held, SoundHeap(h, free, held)
  PROVE  WellPlaced(h, free, held)
  <1> DEFINE blocks == free \cup held
             end == [b \in blocks |-> EndOf(h, free, b)]
  <1>1. h.top \in Nat /\ Base <= h.top /\ h.top <= HeapLimit
    BY Offsets DEF SoundHeap
  <1>2. blocks \in SUBSET Nat /\ free \cap held = {}
    BY DEF SoundHeap
  <1>3. \A b \in free : /\ InternalSize(h, b) \in Nat /\ EndOf(h, free, b) \in Nat
                        /\ EndOf(h, free, b) = b + EMPTY_DATA_OFFSET + InternalSize(h, b)
    <2> SUFFICES ASSUME NEW b \in free
                 PROVE  /\ InternalSize(h, b) \in Nat /\ EndOf(h, free, b) \in Nat
                        /\ EndOf(h, free, b) = b + EMPTY_DATA_OFFSET + InternalSize(h, b)
      OBVIOUS
    <2>1. b \in Nat /\ InternalSize(h, b) >= 0
      BY DEF SoundHeap
    <2>2. EndOf(h, free, b) = NextContiguousBlock(h, b)
      BY DEF EndOf
    <2> QED  BY <2>1, <2>2, EndsAre, Offsets
  <1>4. \A b \in held : /\ InternalSize(h, b) \in Nat /\ EndOf(h, free, b) \in Nat
                        /\ InternalSize(h, b) >= sizeDiff
                        /\ EndOf(h, free, b) = b + PUBLIC_POINTER_OFFSET + InternalSize(h, b)
    <2> SUFFICES ASSUME NEW b \in held
                 PROVE  /\ InternalSize(h, b) \in Nat /\ EndOf(h, free, b) \in Nat
                        /\ InternalSize(h, b) >= sizeDiff
                        /\ EndOf(h, free, b) = b + PUBLIC_POINTER_OFFSET + InternalSize(h, b)
      OBVIOUS
    <2>1. b \in Nat /\ InternalSize(h, b) >= sizeDiff /\ b \notin free
      BY DEF SoundHeap
    <2>2. EndOf(h, free, b) = BlockEnd(h, b)
      BY <2>1 DEF EndOf
    <2> QED  BY <2>1, <2>2, EndsAre, Offsets
  <1>5. Tiling(blocks, end, h.top)
    BY DEF SoundHeap
  <1>6. \A b \in blocks : end[b] = EndOf(h, free, b)
    OBVIOUS
  <1> HIDE DEF end
  <1>7. \A b \in blocks : b + EMPTY_DATA_OFFSET <= EndOf(h, free, b)
    BY <1>2, <1>3, <1>4, Offsets
  <1>8. \A b \in blocks : /\ Base <= b /\ EndOf(h, free, b) <= h.top
                          /\ \A c \in blocks : b < c => EndOf(h, free, b) <= c
    BY <1>5, <1>6 DEF Tiling
  <1>9. Roomy(h, blocks)
    <2>1. \A b \in blocks : b \in Nat /\ EndOf(h, free, b) \in Nat
      BY <1>2, <1>3, <1>4
    <2>2. \A b \in blocks : b + EMPTY_DATA_OFFSET <= h.top
      BY <1>1, <1>7, <1>8, <2>1, Offsets
    <2>3. \A b, c \in blocks : b < c => b + EMPTY_DATA_OFFSET <= c
      BY <1>7, <1>8, <2>1, Offsets
    <2> QED  BY <1>1, <1>2, <1>8, <2>2, <2>3 DEF Roomy
  <1>10. Roomy(h, free)
    BY <1>9 DEF Roomy
  <1>11. NULL \notin blocks
    BY <1>9, NullIsNoBlock
  <1> QED  BY <1>1, <1>2, <1>3, <1>4, <1>7, <1>8, <1>9, <1>10, <1>11 DEF WellPlaced

\* The heap with these blocks is sound if its sizes and its list are, and its blocks end
\* where the blocks of a tiling do.
LEMMA SoundBySizes ==
  ASSUME NEW k \in Heaps, NEW free, NEW held, free \cup held \subseteq Nat,
         free \cap held = {}, k.top \in Base .. HeapLimit, ~k.fault,
         \A b \in free : InternalSize(k, b) >= 0,
         \A b \in held : InternalSize(k, b) >= sizeDiff,
         Linked(k, free), NEW end, Tiling(free \cup held, end, k.top),
         \A b \in free : end[b] = b + EMPTY_DATA_OFFSET + InternalSize(k, b),
         \A b \in held : end[b] = b + PUBLIC_POINTER_OFFSET + InternalSize(k, b)
  PROVE  SoundHeap(k, free, held)
  <1> DEFINE f == [b \in free \cup held |-> EndOf(k, free, b)]
  <1>1. \A b \in free \cup held : f[b] = end[b]
    <2>1. \A b \in free : EndOf(k, free, b) = NextContiguousBlock(k, b) /\ b \in Int
      BY DEF EndOf
    <2>2. \A b \in held : EndOf(k, free, b) = BlockEnd(k, b) /\ b \in Int
      BY DEF EndOf
    <2> QED  BY <2>1, <2>2, EndsAre
  <1> HIDE DEF f
  <1>2. Tiling(free \cup held, f, k.top)
    BY <1>1, TilingOfSameEnds
  <1> QED  BY <1>2 DEF f, SoundHeap

\* The ends of the blocks, as a function.
EndsOf(h, free, held, end) ==
    /\ Tiling(free \cup held, end, h.top)
    /\ \A b \in free \cup held : end[b] \in Nat /\ b + EMPTY_DATA_OFFSET <= end[b]
    /\ \A b \in free : end[b] = b + EMPTY_DATA_OFFSET + InternalSize(h, b)
    /\ \A b \in held : end[b] = b + PUBLIC_POINTER_OFFSET + InternalSize(h, b)

LEMMA SoundEnds ==
  ASSUME NEW h \in Heaps, NEW free, NEW held, SoundHeap(h, free, held)
  PROVE  \E end : EndsOf(h, free, held, end)
  <1> DEFINE end == [b \in free \cup held |-> EndOf(h, free, b)]
  <1>1. Tiling(free \cup held, end, h.top)
    BY DEF SoundHeap
  <1>2. \A b \in free \cup held : end[b] = EndOf(h, free, b)
    OBVIOUS
  <1> HIDE DEF end
  <1>3. /\ \A b \in free : /\ EndOf(h, free, b) \in Nat
                           /\ EndOf(h, free, b) = b + EMPTY_DATA_OFFSET + InternalSize(h, b)
        /\ \A b \in held : /\ EndOf(h, free, b) \in Nat
                           /\ EndOf(h, free, b)
                                 = b + PUBLIC_POINTER_OFFSET + InternalSize(h, b)
        /\ \A b \in free \cup held : b + EMPTY_DATA_OFFSET <= EndOf(h, free, b)
    <2>1. WellPlaced(h, free, held)
      BY SoundIsWellPlaced
    <2> QED  BY <2>1 DEF WellPlaced
  <1>4. \A b \in free \cup held : end[b] \in Nat /\ b + EMPTY_DATA_OFFSET <= end[b]
    BY <1>2, <1>3
  <1>5. \A b \in free : end[b] = b + EMPTY_DATA_OFFSET + InternalSize(h, b)
    BY <1>2, <1>3
  <1>6. \A b \in held : end[b] = b + PUBLIC_POINTER_OFFSET + InternalSize(h, b)
    BY <1>2, <1>3
  <1> QED  BY <1>1, <1>4, <1>5, <1>6 DEF EndsOf

LEMMA RoomyByTiling ==
  ASSUME NEW h, h.top \in Nat, h.top <= HeapLimit, NEW blocks \in SUBSET Nat, NEW end,
         Tiling(blocks, end, h.top),
         \A c \in blocks : end[c] \in Nat /\ c + EMPTY_DATA_OFFSET <= end[c]
  PROVE  Roomy(h, blocks)
  <1>1. \A b \in blocks : /\ b \in Nat /\ Base <= b /\ end[b] <= h.top
                          /\ \A c \in blocks : b < c => end[b] <= c
    BY DEF Tiling
  <1>2. \A b \in blocks : b + EMPTY_DATA_OFFSET <= h.top
    BY <1>1, Offsets
  <1>3. \A b, c \in blocks : b < c => b + EMPTY_DATA_OFFSET <= c
    BY <1>1, Offsets
  <1> QED  BY <1>1, <1>2, <1>3 DEF Roomy

\* A free block gives its high end to a new block.
LEMMA ResizeIsSound ==
  ASSUME NEW h \in Heaps, NEW free, NEW held, SoundHeap(h, free, held), NEW b \in free,
         NEW amount \in Nat, sizeDiff <= amount,
         ~(InternalSize(h, b) <= externalSizeOfUnfreeBlock(amount))
  PROVE  LET r == FreeBlock_resize(h, b, amount)
         IN  /\ r.heap \in Heaps /\ r.block \in Nat /\ r.block \notin free \cup held
             /\ SoundHeap(r.heap, free, held \cup {r.block})
             /\ InternalSize(r.heap, r.block) = amount
             /\ \A c \in held : InternalSize(r.heap, c) = InternalSize(h, c)
  <1> DEFINE blocks == free \cup held
             size == InternalSize(h, b)
             less == size - externalSizeOfUnfreeBlock(amount)
             s == setInternalSize(h, b, less)
             x == NextContiguousBlock(s, b)
             k == setInternalSize(s, x, amount)
  <1>1. WellPlaced(h, free, held)
    BY SoundIsWellPlaced
  <1>0. PICK end : EndsOf(h, free, held, end)
    BY SoundEnds
  <1>2. /\ Tiling(blocks, end, h.top)
        /\ \A c \in blocks : end[c] \in Nat
        /\ \A c \in free : end[c] = c + EMPTY_DATA_OFFSET + InternalSize(h, c)
        /\ \A c \in held : end[c] = c + PUBLIC_POINTER_OFFSET + InternalSize(h, c)
    BY <1>0 DEF EndsOf
  <1>3. /\ externalSizeOfUnfreeBlock(amount) = PUBLIC_POINTER_OFFSET + amount
        /\ size \in Nat /\ less \in Nat /\ 0 < less
        /\ less = size - PUBLIC_POINTER_OFFSET - amount
    <2>1. externalSizeOfUnfreeBlock(amount) = PUBLIC_POINTER_OFFSET + amount
      BY DEF externalSizeOfUnfreeBlock
    <2>2. size \in Nat
      BY <1>1 DEF WellPlaced
    <2> QED  BY <2>1, <2>2, Offsets
  <1>4. FreeBlock_resize(h, b, amount) = [heap |-> k, block |-> x]
    BY DEF FreeBlock_resize
  <1>5. Roomy(h, blocks) /\ b \in blocks /\ blocks \in SUBSET Nat /\ b \in Nat
    BY <1>1 DEF WellPlaced
  <1> HIDE DEF size, less
  <1>6. SizeWritten(h, s, blocks, b, less)
    BY <1>3, <1>5, HeaderIsWritten
  <1> HIDE DEF s
  <1>7. s \in Heaps /\ s.top = h.top /\ InternalSize(s, b) = less
    BY <1>5, <1>6 DEF SizeWritten, SameVariables
  <1>8. x = b + EMPTY_DATA_OFFSET + less
    BY <1>5, <1>7, EndsAre
  <1>9. end[b] = b + EMPTY_DATA_OFFSET + size /\ end[b] \in Nat
    BY <1>2 DEF size
  <1>10. /\ x \in Nat /\ b < x /\ x < end[b] /\ x + PUBLIC_POINTER_OFFSET + amount = end[b]
         /\ b + EMPTY_DATA_OFFSET <= x /\ x + EMPTY_DATA_OFFSET <= end[b]
    BY <1>3, <1>5, <1>8, <1>9, Offsets
  <1> HIDE DEF x
  <1> DEFINE f == [c \in blocks \cup {x} |-> IF c = b THEN x ELSE IF c = x THEN end[b]
                                            ELSE end[c]]
  <1>11. f[b] = x /\ f[x] = end[b] /\ \A c \in blocks : c # b => (c = x \/ f[c] = end[c])
    BY <1>5, <1>10
  <1> HIDE DEF f
  <1>12. x \notin blocks
    <2>1. \A c \in blocks : c < b \/ c = b \/ end[b] <= c
      BY <1>2, <1>5 DEF Tiling
    <2> QED  BY <1>5, <1>9, <1>10, <2>1
  <1>13. \A c \in blocks : c # b => f[c] = end[c]
    BY <1>11, <1>12
  <1>14. Tiling(blocks \cup {x}, f, h.top)
    <2>1. h.top \in Nat
      BY <1>1 DEF WellPlaced
    <2> QED  BY <1>2, <1>5, <1>10, <1>11, <1>13, <2>1, TilingAfterSplit
  <1>15. /\ blocks \cup {x} \in SUBSET Nat
         /\ \A c \in blocks \cup {x} : f[c] \in Nat /\ c + EMPTY_DATA_OFFSET <= f[c]
    <2>1. \A c \in blocks : c + EMPTY_DATA_OFFSET <= end[c]
      BY <1>0 DEF EndsOf
    <2> QED  BY <1>2, <1>5, <1>10, <1>11, <1>13, <2>1
  <1>16. Roomy(s, blocks \cup {x})
    <2>1. s.top \in Nat /\ s.top <= HeapLimit
      BY <1>1, <1>7 DEF WellPlaced
    <2>2. Tiling(blocks \cup {x}, f, s.top)
      BY <1>7, <1>14
    <2> QED  BY <1>15, <2>1, <2>2, RoomyByTiling
  <1>17. SizeWritten(s, k, blocks \cup {x}, x, amount)
    BY <1>7, <1>16, HeaderIsWritten
  <1> HIDE DEF k
  <1>18. /\ k \in Heaps /\ SameVariables(h, k) /\ InternalSize(k, x) = amount
         /\ InternalSize(k, b) = less
         /\ \A c \in blocks : c # b => InternalSize(k, c) = InternalSize(h, c)
         /\ \A c \in blocks : NextOf(k, c) = NextOf(h, c)
    BY <1>5, <1>6, <1>12, <1>17 DEF SizeWritten, SameVariables
  <1>19. Linked(k, free)
    <2>1. Linked(h, free)
      BY DEF SoundHeap
    <2>2. k.first = h.first /\ k.last = h.last /\ \A c \in free : NextOf(k, c) = NextOf(h, c)
      BY <1>18 DEF SameVariables
    <2> QED  BY <2>1, <2>2 DEF Linked
  <1>20. \A c \in held : c # b
    BY DEF SoundHeap
  <1>21. SoundHeap(k, free, held \cup {x})
    <2>1. \A c \in free : /\ f[c] = c + EMPTY_DATA_OFFSET + InternalSize(k, c)
                          /\ InternalSize(k, c) >= 0
      <3>1. \A c \in free : InternalSize(h, c) \in Nat
        BY <1>1 DEF WellPlaced
      <3>2. \A c \in free : InternalSize(k, c) >= 0
        BY <1>3, <1>18, <3>1
      <3>3. f[b] = b + EMPTY_DATA_OFFSET + InternalSize(k, b)
        BY <1>8, <1>11, <1>18 DEF x
      <3>4. \A c \in free : c # b => f[c] = c + EMPTY_DATA_OFFSET + InternalSize(k, c)
        BY <1>2, <1>13, <1>18
      <3> QED  BY <3>2, <3>3, <3>4
    <2>2. \A c \in held \cup {x} : /\ f[c] = c + PUBLIC_POINTER_OFFSET + InternalSize(k, c)
                                   /\ InternalSize(k, c) >= sizeDiff
      <3>1. \A c \in held : InternalSize(h, c) >= sizeDiff
        BY <1>1 DEF WellPlaced
      <3>2. InternalSize(k, x) >= sizeDiff
        BY <1>18, Offsets
      <3>3. f[x] = x + PUBLIC_POINTER_OFFSET + InternalSize(k, x)
        BY <1>10, <1>11, <1>18
      <3> QED  BY <1>2, <1>13, <1>18, <1>20, <3>1, <3>2, <3>3
    <2>3. /\ free \cup (held \cup {x}) \subseteq Nat /\ free \cap (held \cup {x}) = {}
          /\ free \cup (held \cup {x}) = blocks \cup {x}
      BY <1>5, <1>10, <1>12 DEF SoundHeap
    <2>4. k.top \in Base .. HeapLimit /\ ~k.fault /\ k.top = h.top
      BY <1>18 DEF SoundHeap, SameVariables
    <2> QED  BY <1>14, <1>18, <1>19, <2>1, <2>2, <2>3, <2>4, SoundBySizes
  <1> QED  BY <1>4, <1>10, <1>12, <1>18, <1>20, <1>21

\* A free block becomes a block that is held.
LEMMA TakingIsSound ==
  ASSUME NEW h \in Heaps, NEW free, NEW held, SoundHeap(h, free, held), NEW b \in free,
         NotStale(h, free, b)
  PROVE  LET k == makeUnfree(h, b)
         IN  /\ k \in Heaps /\ SoundHeap(k, free \ {b}, held \cup {b})
             /\ InternalSize(k, b) = InternalSize(h, b) + sizeDiff
             /\ \A c \in held : InternalSize(k, c) = InternalSize(h, c)
  <1> DEFINE blocks == free \cup held
             r == FreeBlockList_remove(h, b)
             k == setInternalSize(r, b, InternalSize(r, b) + sizeDiff)
  <1>1. WellPlaced(h, free, held)
    BY SoundIsWellPlaced
  <1>0. PICK end : EndsOf(h, free, held, end)
    BY SoundEnds
  <1>2. /\ Tiling(blocks, end, h.top)
        /\ \A c \in blocks : end[c] \in Nat
        /\ \A c \in free : end[c] = c + EMPTY_DATA_OFFSET + InternalSize(h, c)
        /\ \A c \in held : end[c] = c + PUBLIC_POINTER_OFFSET + InternalSize(h, c)
    BY <1>0 DEF EndsOf
  <1>3. makeUnfree(h, b) = k
    BY DEF makeUnfree
  <1>4. /\ Roomy(h, blocks) /\ b \in blocks /\ blocks \in SUBSET Nat /\ free \in SUBSET Nat
        /\ NULL \notin free /\ free \ {b} \subseteq blocks
    BY <1>1 DEF WellPlaced
  <1>5. SameSizes(h, r, blocks) /\ Linked(r, free \ {b})
    <2>1. Linked(h, free)
      BY DEF SoundHeap
    <2> QED  BY <1>4, <2>1, BlockIsRemoved
  <1> HIDE DEF r
  <1>6. /\ InternalSize(h, b) \in Nat
        /\ InternalSize(r, b) = InternalSize(h, b) /\ InternalSize(r, b) + sizeDiff \in Int
    BY <1>1, <1>4, <1>5, Offsets DEF WellPlaced, SameSizes
  <1>7. SizeWritten(r, k, blocks, b, InternalSize(r, b) + sizeDiff)
    BY <1>4, <1>5, <1>6, HeaderIsWritten DEF SameSizes
  <1> HIDE DEF k
  <1>8. /\ k \in Heaps /\ k.top = h.top /\ k.fault = h.fault
        /\ InternalSize(k, b) = InternalSize(h, b) + sizeDiff
        /\ \A c \in blocks : c # b => InternalSize(k, c) = InternalSize(h, c)
    BY <1>4, <1>5, <1>6, <1>7 DEF SizeWritten, SameSizes, SameVariables
  <1>9. Linked(k, free \ {b})
    <2>1. /\ k.first = r.first /\ k.last = r.last
          /\ \A c \in free \ {b} : NextOf(k, c) = NextOf(r, c)
      BY <1>4, <1>7 DEF SizeWritten, SameVariables
    <2> QED  BY <1>5, <2>1 DEF Linked
  <1>10. \A c \in held : c # b
    BY DEF SoundHeap
  <1>11. SoundHeap(k, free \ {b}, held \cup {b})
    <2>1. \A c \in free \ {b} : /\ end[c] = c + EMPTY_DATA_OFFSET + InternalSize(k, c)
                                /\ InternalSize(k, c) >= 0
      BY <1>1, <1>2, <1>8 DEF WellPlaced
    <2>2. \A c \in held : /\ end[c] = c + PUBLIC_POINTER_OFFSET + InternalSize(k, c)
                          /\ InternalSize(k, c) >= sizeDiff
      BY <1>1, <1>2, <1>8, <1>10 DEF WellPlaced
    <2>3. /\ end[b] = b + PUBLIC_POINTER_OFFSET + InternalSize(k, b)
          /\ InternalSize(k, b) >= sizeDiff
      BY <1>2, <1>4, <1>6, <1>8, Offsets
    <2>4. /\ (free \ {b}) \cup (held \cup {b}) = blocks
          /\ (free \ {b}) \cap (held \cup {b}) = {}
      BY <1>10 DEF SoundHeap
    <2>5. k.top \in Base .. HeapLimit /\ ~k.fault
      BY <1>8 DEF SoundHeap
    <2>6. Tiling((free \ {b}) \cup (held \cup {b}), end, k.top)
      BY <1>2, <1>8, <2>4
    <2>7. (free \ {b}) \cup (held \cup {b}) \subseteq Nat
      BY <1>4, <2>4
    <2> QED  BY <1>8, <1>9, <2>1, <2>2, <2>3, <2>4, <2>5, <2>6, <2>7, SoundBySizes
  <1> QED  BY <1>3, <1>8, <1>10, <1>11

LEMMA HeaderIsConstructed ==
  ASSUME NEW h \in Heaps, NEW blocks, Roomy(h, blocks), NEW b \in blocks,
         NEW size \in Int, NEW prev \in Int, NEW next \in Int
  PROVE  LET k == FreeBlock_construct(h, b, size, prev, next)
         IN  /\ k \in Heaps /\ SameVariables(h, k) /\ Roomy(k, blocks)
             /\ InternalSize(k, b) = size
             /\ \A c \in blocks : c # b => /\ InternalSize(k, c) = InternalSize(h, c)
                                           /\ NextOf(k, c) = NextOf(h, c)
  <1> DEFINE s == setInternalSize(h, b, size)
             p == setPrev(s, b, prev)
             k == setNext(p, b, next)
  <1>1. SizeWritten(h, s, blocks, b, size)
    BY HeaderIsWritten
  <1> HIDE DEF s
  <1>2. PrevWritten(s, p, blocks, b, prev)
    BY <1>1, HeaderIsWritten DEF SizeWritten
  <1> HIDE DEF p
  <1>3. NextWritten(p, k, blocks, b, next)
    BY <1>2, HeaderIsWritten DEF PrevWritten
  <1> HIDE DEF k
  <1>4. /\ k \in Heaps /\ SameVariables(h, k) /\ Roomy(k, blocks)
        /\ InternalSize(k, b) = size
        /\ \A c \in blocks : c # b => /\ InternalSize(k, c) = InternalSize(h, c)
                                      /\ NextOf(k, c) = NextOf(h, c)
    BY <1>1, <1>2, <1>3 DEF SizeWritten, PrevWritten, NextWritten, SameVariables
  <1>5. FreeBlock_construct(h, b, size, prev, next) = k
    BY DEF FreeBlock_construct, k, p, s
  <1> QED  BY <1>4, <1>5

\* The list before block b in its address: none, or the block its prev pointer says.
PrevIsRight(k, free, b) == \/ PrevOf(k, b) = NULL /\ \A c \in free : b <= c
                           \/ Precedes(free, PrevOf(k, b), b)

\* A block that was held becomes a free one.
LEMMA InsertingIsSound ==
  ASSUME NEW h \in Heaps, NEW free, NEW held, SoundHeap(h, free, held), NEW b \in held
  PROVE  LET k == FreeBlockList_insert(
                      FreeBlock_construct(h, b, InternalSize(h, b) - sizeDiff, NULL, NULL), b)
         IN  /\ k \in Heaps /\ SoundHeap(k, free \cup {b}, held \ {b})
             /\ \A c \in held \ {b} : InternalSize(k, c) = InternalSize(h, c)
             /\ InternalSize(k, b) = InternalSize(h, b) - sizeDiff
             /\ PrevIsRight(k, free, b)
  <1> DEFINE blocks == free \cup held
             size == InternalSize(h, b) - sizeDiff
             g == FreeBlock_construct(h, b, size, NULL, NULL)
             k == FreeBlockList_insert(g, b)
  <1>1. WellPlaced(h, free, held)
    BY SoundIsWellPlaced
  <1>0. PICK end : EndsOf(h, free, held, end)
    BY SoundEnds
  <1>2. /\ Tiling(blocks, end, h.top)
        /\ \A c \in blocks : end[c] \in Nat
        /\ \A c \in free : end[c] = c + EMPTY_DATA_OFFSET + InternalSize(h, c)
        /\ \A c \in held : end[c] = c + PUBLIC_POINTER_OFFSET + InternalSize(h, c)
    BY <1>0 DEF EndsOf
  <1>3. /\ Roomy(h, blocks) /\ b \in blocks /\ blocks \in SUBSET Nat /\ free \in SUBSET Nat
        /\ free \subseteq blocks /\ b \notin free /\ b \in Nat
    BY <1>1 DEF WellPlaced, SoundHeap
  <1>4. size \in Nat /\ InternalSize(h, b) = size + sizeDiff /\ NULL \in Int
    <2>1. InternalSize(h, b) \in Nat /\ InternalSize(h, b) >= sizeDiff
      BY <1>1 DEF WellPlaced
    <2> QED  BY <2>1, Offsets DEF NULL
  <1> HIDE DEF size
  <1>5. /\ g \in Heaps /\ SameVariables(h, g) /\ Roomy(g, blocks) /\ InternalSize(g, b) = size
        /\ \A c \in blocks : c # b => /\ InternalSize(g, c) = InternalSize(h, c)
                                      /\ NextOf(g, c) = NextOf(h, c)
    BY <1>3, <1>4, HeaderIsConstructed
  <1> HIDE DEF g
  <1>6. Linked(g, free)
    <2>1. Linked(h, free)
      BY DEF SoundHeap
    <2>2. g.first = h.first /\ g.last = h.last /\ \A c \in free : NextOf(g, c) = NextOf(h, c)
      BY <1>3, <1>5 DEF SameVariables
    <2> QED  BY <2>1, <2>2 DEF Linked
  <1>7. SameSizes(g, k, blocks) /\ Linked(k, free \cup {b}) /\ PrevIsRight(k, free, b)
    <2>1. /\ SameSizes(g, k, blocks) /\ Linked(k, free \cup {b})
          /\ \/ PrevOf(k, b) = NULL /\ \A c \in free : b < c
             \/ Precedes(free, PrevOf(k, b), b)
      BY <1>3, <1>5, <1>6, BlockIsInserted
    <2> HIDE DEF k
    <2> QED  BY <1>3, <2>1 DEF PrevIsRight
  <1> HIDE DEF k
  <1>8. /\ k \in Heaps /\ k.top = h.top /\ k.fault = h.fault /\ InternalSize(k, b) = size
        /\ \A c \in blocks : c # b => InternalSize(k, c) = InternalSize(h, c)
    BY <1>3, <1>5, <1>7 DEF SameSizes, SameVariables
  <1>9. SoundHeap(k, free \cup {b}, held \ {b})
    <2>1. \A c \in free : /\ end[c] = c + EMPTY_DATA_OFFSET + InternalSize(k, c)
                          /\ InternalSize(k, c) >= 0
      BY <1>1, <1>2, <1>3, <1>8 DEF WellPlaced
    <2>2. \A c \in held \ {b} : /\ end[c] = c + PUBLIC_POINTER_OFFSET + InternalSize(k, c)
                                /\ InternalSize(k, c) >= sizeDiff
      BY <1>1, <1>2, <1>8 DEF WellPlaced
    <2>3. end[b] = b + EMPTY_DATA_OFFSET + InternalSize(k, b) /\ InternalSize(k, b) >= 0
      BY <1>2, <1>3, <1>4, <1>8, Offsets
    <2>4. /\ (free \cup {b}) \cup (held \ {b}) = blocks
          /\ (free \cup {b}) \cap (held \ {b}) = {}
      BY DEF SoundHeap
    <2>5. k.top \in Base .. HeapLimit /\ ~k.fault
      BY <1>8 DEF SoundHeap
    <2>6. Tiling((free \cup {b}) \cup (held \ {b}), end, k.top)
      BY <1>2, <1>8, <2>4
    <2>7. (free \cup {b}) \cup (held \ {b}) \subseteq Nat
      BY <1>3, <2>4
    <2> QED  BY <1>7, <1>8, <2>1, <2>2, <2>3, <2>4, <2>5, <2>6, <2>7, SoundBySizes
  <1>10. \A c \in held \ {b} : InternalSize(k, c) = InternalSize(h, c)
    BY <1>8
  <1> QED  BY <1>7, <1>8, <1>9, <1>10 DEF k, g, size

\* A free block absorbs the free block that follows it in memory.
LEMMA AbsorbingIsSound ==
  ASSUME NEW h \in Heaps, NEW free, NEW held, SoundHeap(h, free, held),
         NEW a \in free, NEW b \in free, NextOf(h, a) = b, NextContiguousBlock(h, a) = b
  PROVE  LET k == Absorb(h, a, b)
         IN  /\ k \in Heaps /\ SoundHeap(k, free \ {b}, held)
             /\ \A c \in held : InternalSize(k, c) = InternalSize(h, c)
             /\ \A c \in free \ {a, b} : InternalSize(k, c) = InternalSize(h, c)
             /\ NextContiguousBlock(k, a) = NextContiguousBlock(h, b)
             /\ \A c \in free : PrevOf(k, c) = PrevOf(h, c)
             /\ NextOf(k, a) = NextOf(h, b) /\ a < b
  <1> DEFINE blocks == free \cup held
             n == setNext(h, a, NextOf(h, b))
             size == InternalSize(n, a) + externalSizeOfFreeBlock(InternalSize(n, b))
             g == setInternalSize(n, a, size)
             k == IF g.last = b THEN [g EXCEPT !.last = a] ELSE g
  <1>1. WellPlaced(h, free, held)
    BY SoundIsWellPlaced
  <1>0. PICK end : EndsOf(h, free, held, end)
    BY SoundEnds
  <1>2. /\ Tiling(blocks, end, h.top)
        /\ \A c \in blocks : end[c] \in Nat
        /\ \A c \in free : end[c] = c + EMPTY_DATA_OFFSET + InternalSize(h, c)
        /\ \A c \in held : end[c] = c + PUBLIC_POINTER_OFFSET + InternalSize(h, c)
    BY <1>0 DEF EndsOf
  <1>3. /\ Roomy(h, blocks) /\ a \in blocks /\ b \in blocks /\ blocks \in SUBSET Nat
        /\ free \in SUBSET Nat /\ a \in Nat /\ b \in Nat /\ NULL \notin free
        /\ InternalSize(h, a) \in Nat /\ InternalSize(h, b) \in Nat
    BY <1>1 DEF WellPlaced
  <1>4. /\ NextContiguousBlock(h, a) = end[a] /\ NextContiguousBlock(h, b) = end[b]
        /\ end[a] = b /\ a < b /\ b < end[b]
    BY <1>2, <1>3, EndsAre DEF Tiling
  <1>5. NextOf(h, b) \in Int
    BY LoadIsTyped DEF NextOf
  <1>6. NextWritten(h, n, blocks, a, NextOf(h, b))
    BY <1>3, <1>5, HeaderIsWritten
  <1> HIDE DEF n
  <1>7. /\ InternalSize(n, a) = InternalSize(h, a) /\ InternalSize(n, b) = InternalSize(h, b)
        /\ n \in Heaps /\ Roomy(n, blocks)
    BY <1>3, <1>6 DEF NextWritten
  <1>8. size = InternalSize(h, a) + EMPTY_DATA_OFFSET + InternalSize(h, b) /\ size \in Nat
    BY <1>3, <1>7, Offsets DEF externalSizeOfFreeBlock
  <1> HIDE DEF size
  <1>9. SizeWritten(n, g, blocks, a, size)
    BY <1>3, <1>7, <1>8, HeaderIsWritten
  <1> HIDE DEF g
  <1>10. g \in Heaps /\ Roomy(g, blocks) /\ SameVariables(h, g)
    BY <1>6, <1>9 DEF NextWritten, SizeWritten, SameVariables
  <1>11. /\ k \in Heaps /\ k.top = g.top /\ k.fault = g.fault /\ k.first = g.first
         /\ k.last = IF g.last = b THEN a ELSE g.last
         /\ \A c : /\ InternalSize(k, c) = InternalSize(g, c)
                   /\ PrevOf(k, c) = PrevOf(g, c) /\ NextOf(k, c) = NextOf(g, c)
    <2>1. CASE g.last = b
      <3> DEFINE m == [g EXCEPT !.last = a]
      <3>0. g \in Heaps /\ a \in Int
        BY <1>3, <1>10
      <3>1. Renamed(g, m, g.first, a)
        BY ONLY <3>0, EndsAreRenamed
      <3> HIDE DEF m
      <3>2. \A c : /\ InternalSize(m, c) = InternalSize(g, c)
                   /\ PrevOf(m, c) = PrevOf(g, c) /\ NextOf(m, c) = NextOf(g, c)
        BY <1>10, <3>1, RenamedIsTheSame
      <3>3. k = m
        BY <2>1 DEF m
      <3> HIDE DEF k
      <3> QED  BY <2>1, <3>1, <3>2, <3>3 DEF Renamed
    <2>2. CASE g.last # b
      BY <1>10, <2>2
    <2> QED  BY <2>1, <2>2
  <1>12. Absorb(h, a, b) = k
    BY DEF Absorb, k, g, size, n
  <1> HIDE DEF k
  <1>13. /\ k.top = h.top /\ k.fault = h.fault /\ k.first = h.first
         /\ k.last = IF h.last = b THEN a ELSE h.last
         /\ InternalSize(k, a) = size
         /\ \A c \in blocks : c # a => InternalSize(k, c) = InternalSize(h, c)
         /\ \A c \in blocks : /\ PrevOf(k, c) = PrevOf(h, c)
                              /\ NextOf(k, c) = IF c = a THEN NextOf(h, b) ELSE NextOf(h, c)
    BY <1>3, <1>6, <1>9, <1>10, <1>11 DEF NextWritten, SizeWritten, SameVariables
  <1>14. Linked(k, free \ {b})
    <2>1. Linked(h, free)
      BY DEF SoundHeap
    <2>2. Precedes(free, a, b)
      BY <1>3, <2>1, NextIsPreceded
    <2>3. b # h.first
      <3>1. h.first <= a /\ h.first \in free
        BY <2>1 DEF Linked
      <3> QED  BY <1>3, <1>4, <3>1
    <2>4. \A c \in free \ {b} : NextOf(k, c) = IF c = a /\ b # h.first THEN NextOf(h, b)
                                               ELSE NextOf(h, c)
      BY <1>13, <2>3
    <2>5. k.last = IF b # h.last THEN h.last ELSE IF b = h.first THEN NULL ELSE a
      BY <1>13, <2>3
    <2>6. k.first = IF b # h.first THEN h.first ELSE IF b = h.last THEN NULL ELSE NextOf(h, b)
      BY <1>13, <2>3
    <2>7. free \in SUBSET Nat /\ NULL \notin free /\ b \in free
      BY <1>3
    <2>8. b # h.first => Precedes(free, a, b)
      BY <2>2
    <2> QED  BY ONLY <2>1, <2>4, <2>5, <2>6, <2>7, <2>8, LinkedWithout
  <1> DEFINE f == [c \in blocks |-> IF c = a THEN end[b] ELSE end[c]]
  <1>15. f[a] = end[b] /\ \A c \in blocks : c # a => f[c] = end[c]
    BY <1>3
  <1> HIDE DEF f
  <1>16. Tiling(blocks \ {b}, f, h.top)
    <2> DEFINE top == h.top
    <2>1. top \in Nat
      BY <1>1 DEF WellPlaced
    <2>2. /\ blocks \in SUBSET Nat /\ a \in blocks /\ b \in blocks /\ end[a] = b
          /\ Tiling(blocks, end, top) /\ \A c \in blocks : end[c] \in Nat
          /\ f[a] = end[b] /\ \A c \in blocks \ {a, b} : f[c] = end[c]
      BY <1>2, <1>3, <1>4, <1>15
    <2> HIDE DEF blocks, top
    <2>3. Tiling(blocks \ {b}, f, top)
      BY ONLY <2>1, <2>2, TilingAfterMerge
    <2> QED  BY <2>3 DEF top
  <1>17. end[b] = a + EMPTY_DATA_OFFSET + size
    <2>1. b = a + EMPTY_DATA_OFFSET + InternalSize(h, a)
      BY <1>2, <1>4
    <2>2. end[b] = b + EMPTY_DATA_OFFSET + InternalSize(h, b)
      BY <1>2
    <2> QED  BY <1>3, <1>8, <2>1, <2>2, Offsets
  <1>18. \A c \in held : c # a /\ c # b
    BY DEF SoundHeap
  <1>19. SoundHeap(k, free \ {b}, held)
    <2>1. \A c \in free \ {a, b} : /\ f[c] = c + EMPTY_DATA_OFFSET + InternalSize(k, c)
                                   /\ InternalSize(k, c) >= 0
      BY <1>1, <1>2, <1>13, <1>15 DEF WellPlaced
    <2>2. f[a] = a + EMPTY_DATA_OFFSET + InternalSize(k, a) /\ InternalSize(k, a) >= 0
      BY <1>8, <1>13, <1>15, <1>17
    <2>3. \A c \in held : /\ f[c] = c + PUBLIC_POINTER_OFFSET + InternalSize(k, c)
                          /\ InternalSize(k, c) >= sizeDiff
      BY <1>1, <1>2, <1>13, <1>15, <1>18 DEF WellPlaced
    <2>4. /\ (free \ {b}) \cup held = blocks \ {b} /\ (free \ {b}) \cap held = {}
          /\ (free \ {b}) \cup held \subseteq Nat
      BY <1>3, <1>18 DEF SoundHeap
    <2>5. k.top \in Base .. HeapLimit /\ ~k.fault
      BY <1>13 DEF SoundHeap
    <2>6. Tiling((free \ {b}) \cup held, f, k.top)
      BY <1>13, <1>16, <2>4
    <2>7. \A c \in free \ {b} : /\ f[c] = c + EMPTY_DATA_OFFSET + InternalSize(k, c)
                                /\ InternalSize(k, c) >= 0
      BY <2>1, <2>2
    <2> QED  BY <1>11, <1>14, <2>3, <2>4, <2>5, <2>6, <2>7, SoundBySizes
  <1>20. NextContiguousBlock(k, a) = NextContiguousBlock(h, b)
    BY <1>3, <1>4, <1>11, <1>13, <1>17, EndsAre
  <1>21. /\ \A c \in held : InternalSize(k, c) = InternalSize(h, c)
         /\ \A c \in free \ {a, b} : InternalSize(k, c) = InternalSize(h, c)
         /\ \A c \in free : PrevOf(k, c) = PrevOf(h, c)
         /\ NextOf(k, a) = NextOf(h, b)
    BY <1>3, <1>13, <1>18
  <1> QED  BY <1>4, <1>11, <1>12, <1>19, <1>20, <1>21

\* Growing the heap leaves a sound one, with a new block for the list at its old top if
\* it has grown.
LEMMA GrowingIsSound ==
  ASSUME NEW h \in Heaps, NEW free, NEW held, SoundHeap(h, free, held), NEW size \in Nat
  PROVE  LET r == grow_heap_size(h, size)
         IN  /\ r.heap \in Heaps /\ r.grown \in BOOLEAN
             /\ \A c \in held : InternalSize(r.heap, c) = InternalSize(h, c)
             /\ ~r.grown => SoundHeap(r.heap, free, held)
             /\ r.grown => /\ h.top \in Nat /\ h.top \notin free \cup held
                           /\ SoundHeap(r.heap, free \cup {h.top}, held)
                           /\ InternalSize(r.heap, h.top) = size * 2 + GROW_EXTRA
  <1> DEFINE blocks == free \cup held
             x == h.top
             more == size * 2 + GROW_EXTRA
             started == IF h.heap_end = NULL THEN [h EXCEPT !.heap_end = h.top] ELSE h
             newTop == h.top + externalSizeOfFreeBlock(more)
             moved == [started EXCEPT !.top = newTop, !.my_brk = h.top]
             g == FreeBlock_construct(moved, x, more, NULL, NULL)
             k == FreeBlockList_insert(g, x)
  <1>1. WellPlaced(h, free, held)
    BY SoundIsWellPlaced
  <1>0. PICK end : EndsOf(h, free, held, end)
    BY SoundEnds
  <1>2. /\ Tiling(blocks, end, h.top)
        /\ \A c \in blocks : end[c] \in Nat
        /\ \A c \in free : end[c] = c + EMPTY_DATA_OFFSET + InternalSize(h, c)
        /\ \A c \in held : end[c] = c + PUBLIC_POINTER_OFFSET + InternalSize(h, c)
    BY <1>0 DEF EndsOf
  <1>3. grow_heap_size(h, size) = IF newTop > HeapLimit THEN [heap |-> started, grown |-> FALSE]
                                  ELSE [heap |-> k, grown |-> TRUE]
    BY DEF grow_heap_size
  <1>4. /\ blocks \in SUBSET Nat /\ free \in SUBSET Nat /\ x \in Nat /\ Base <= x
        /\ x <= HeapLimit
    BY <1>1 DEF WellPlaced
  <1>5. more \in Nat /\ NULL \in Int
    BY RequestsAssumption DEF NULL
  <1>6. newTop = x + EMPTY_DATA_OFFSET + more /\ newTop \in Nat
    BY <1>4, <1>5, Offsets DEF externalSizeOfFreeBlock
  <1> HIDE DEF more
  <1>7. /\ started \in Heaps /\ started.top = h.top /\ started.fault = h.fault
        /\ started.first = h.first /\ started.last = h.last /\ started.word = h.word
    BY <1>4 DEF Heaps
  <1> HIDE DEF started, newTop
  <1>8. /\ moved \in Heaps /\ moved.top = newTop /\ moved.fault = h.fault
        /\ moved.first = h.first /\ moved.last = h.last /\ moved.word = h.word
    <2> HIDE DEF g, k
    <2> DEFINE lifted == [started EXCEPT !.top = newTop]
    <2>1. /\ lifted \in Heaps /\ lifted.top = newTop /\ lifted.fault = h.fault
          /\ lifted.first = h.first /\ lifted.last = h.last /\ lifted.word = h.word
      BY ONLY <1>6, <1>7 DEF Heaps
    <2>2. moved = [lifted EXCEPT !.my_brk = x]
      BY ONLY <1>7 DEF Heaps
    <2> HIDE DEF lifted, moved, x
    <2> QED  BY ONLY <1>4, <2>1, <2>2 DEF Heaps
  <1> HIDE DEF moved
  <1>9. ASSUME newTop > HeapLimit
        PROVE  /\ SoundHeap(started, free, held)
               /\ \A c \in held : InternalSize(started, c) = InternalSize(h, c)
    <2>1. \A c : /\ InternalSize(started, c) = InternalSize(h, c)
                 /\ NextOf(started, c) = NextOf(h, c)
      BY <1>7 DEF InternalSize, NextOf, Load
    <2>2. Linked(started, free)
      <3>1. Linked(h, free)
        BY DEF SoundHeap
      <3> QED  BY <1>7, <2>1, <3>1 DEF Linked
    <2>3. /\ started.top \in Base .. HeapLimit /\ ~started.fault
          /\ blocks \subseteq Nat /\ free \cap held = {}
      BY <1>7 DEF SoundHeap
    <2>4. /\ \A c \in free : InternalSize(started, c) >= 0
          /\ \A c \in held : InternalSize(started, c) >= sizeDiff
      BY <2>1 DEF SoundHeap
    <2>5. /\ Tiling(blocks, end, started.top)
          /\ \A c \in free : end[c] = c + EMPTY_DATA_OFFSET + InternalSize(started, c)
          /\ \A c \in held : end[c] = c + PUBLIC_POINTER_OFFSET + InternalSize(started, c)
      BY <1>2, <1>7, <2>1
    <2> QED  BY <1>7, <2>1, <2>2, <2>3, <2>4, <2>5, SoundBySizes
  <1>10. ASSUME ~(newTop > HeapLimit)
         PROVE  /\ k \in Heaps /\ x \notin blocks
                /\ SoundHeap(k, free \cup {x}, held)
                /\ InternalSize(k, x) = more
                /\ \A c \in held : InternalSize(k, c) = InternalSize(h, c)
    <2> DEFINE f == [c \in blocks \cup {x} |-> IF c = x THEN newTop ELSE end[c]]
               all == blocks \cup {x}
    <2>1. \A c \in blocks : c < x /\ c + EMPTY_DATA_OFFSET <= x
      <3>1. \A c \in blocks : /\ c + EMPTY_DATA_OFFSET <= EndOf(h, free, c)
                              /\ EndOf(h, free, c) <= h.top /\ EndOf(h, free, c) \in Nat
        BY <1>1 DEF WellPlaced
      <3> QED  BY <1>4, <3>1, Offsets
    <2>2. x \notin blocks
      BY <1>4, <2>1
    <2>3. f[x] = newTop /\ \A c \in blocks : f[c] = end[c]
      BY <2>2
    <2> HIDE DEF f
    <2>4. Tiling(all, f, newTop)
      <3>1. x < newTop
        BY <1>4, <1>5, <1>6, Offsets
      <3> QED  BY <1>2, <1>4, <1>6, <2>3, <3>1, TilingAfterGrowth
    <2>5. all \in SUBSET Nat /\ \A c \in all : f[c] \in Nat /\ c + EMPTY_DATA_OFFSET <= f[c]
      <3>1. \A c \in blocks : c + EMPTY_DATA_OFFSET <= end[c]
        BY <1>0 DEF EndsOf
      <3>2. x + EMPTY_DATA_OFFSET <= newTop
        BY <1>4, <1>5, <1>6, Offsets
      <3> QED  BY <1>2, <1>4, <1>6, <2>3, <3>1, <3>2
    <2>6. Roomy(moved, all)
      <3>1. moved.top \in Nat /\ moved.top <= HeapLimit
        BY <1>6, <1>8, <1>10, Offsets
      <3>2. Tiling(all, f, moved.top)
        BY <1>8, <2>4
      <3> QED  BY <2>5, <3>1, <3>2, RoomyByTiling
    <2>7. /\ g \in Heaps /\ SameVariables(moved, g) /\ Roomy(g, all)
          /\ InternalSize(g, x) = more
          /\ \A c \in all : c # x => /\ InternalSize(g, c) = InternalSize(moved, c)
                                     /\ NextOf(g, c) = NextOf(moved, c)
      BY <1>5, <1>8, <2>6, HeaderIsConstructed
    <2> HIDE DEF g
    <2>8. /\ \A c \in blocks : /\ InternalSize(g, c) = InternalSize(h, c)
                               /\ NextOf(g, c) = NextOf(h, c)
          /\ g.top = newTop /\ g.fault = h.fault /\ g.first = h.first /\ g.last = h.last
      <3>1. \A c : /\ InternalSize(moved, c) = InternalSize(h, c)
                   /\ NextOf(moved, c) = NextOf(h, c)
        BY <1>8 DEF InternalSize, NextOf, Load
      <3> QED  BY <1>8, <2>2, <2>7, <3>1 DEF SameVariables
    <2>9. Linked(g, free)
      <3>1. Linked(h, free)
        BY DEF SoundHeap
      <3> QED  BY <2>8, <3>1 DEF Linked
    <2>10. SameSizes(g, k, all) /\ Linked(k, free \cup {x})
      <3>1. free \subseteq all /\ x \in all /\ x \notin free
        BY <2>2
      <3> QED  BY <1>4, <2>7, <2>9, <3>1, BlockIsInserted
    <2> HIDE DEF k
    <2>11. /\ k \in Heaps /\ k.top = newTop /\ k.fault = h.fault /\ InternalSize(k, x) = more
           /\ \A c \in blocks : InternalSize(k, c) = InternalSize(h, c)
      BY <2>7, <2>8, <2>10 DEF SameSizes
    <2>12. SoundHeap(k, free \cup {x}, held)
      <3>1. \A c \in free : /\ f[c] = c + EMPTY_DATA_OFFSET + InternalSize(k, c)
                            /\ InternalSize(k, c) >= 0
        BY <1>1, <1>2, <2>3, <2>11 DEF WellPlaced
      <3>2. f[x] = x + EMPTY_DATA_OFFSET + InternalSize(k, x) /\ InternalSize(k, x) >= 0
        BY <1>5, <1>6, <2>3, <2>11
      <3>3. \A c \in held : /\ f[c] = c + PUBLIC_POINTER_OFFSET + InternalSize(k, c)
                            /\ InternalSize(k, c) >= sizeDiff
        BY <1>1, <1>2, <2>3, <2>11 DEF WellPlaced
      <3>4. /\ (free \cup {x}) \cup held = all /\ (free \cup {x}) \cap held = {}
            /\ (free \cup {x}) \cup held \subseteq Nat
        BY <1>4, <2>2 DEF SoundHeap
      <3>5. k.top \in Base .. HeapLimit /\ ~k.fault
        BY <1>4, <1>5, <1>6, <1>10, <2>11, Offsets DEF SoundHeap
      <3>6. Tiling((free \cup {x}) \cup held, f, k.top)
        BY <2>4, <2>11, <3>4
      <3>7. \A c \in free \cup {x} : /\ f[c] = c + EMPTY_DATA_OFFSET + InternalSize(k, c)
                                     /\ InternalSize(k, c) >= 0
        BY <3>1, <3>2
      <3> QED  BY <2>10, <2>11, <3>3, <3>4, <3>5, <3>6, <3>7, SoundBySizes
    <2> QED  BY <2>2, <2>11, <2>12
  <1> HIDE DEF k
  <1>11. CASE newTop > HeapLimit
    BY <1>3, <1>7, <1>9, <1>11
  <1>12. CASE ~(newTop > HeapLimit)
    BY <1>3, <1>4, <1>10, <1>12 DEF more
  <1> QED  BY <1>11, <1>12

-----------------------------------------------------------------------------
\* Freeing.

\* A free block ends before the next block starts.
LEMMA FreeBlocksAreApart ==
  ASSUME NEW h \in Heaps, NEW free, NEW held, SoundHeap(h, free, held), NEW a \in free
  PROVE  /\ a \in Nat /\ NextContiguousBlock(h, a) \in Nat /\ a < NextContiguousBlock(h, a)
         /\ NextContiguousBlock(h, a) <= h.top
         /\ \A c \in free \cup held : c \in Nat /\ (a < c => NextContiguousBlock(h, a) <= c)
  <1>1. WellPlaced(h, free, held)
    BY SoundIsWellPlaced
  <1>2. PICK end : EndsOf(h, free, held, end)
    BY SoundEnds
  <1>3. /\ Tiling(free \cup held, end, h.top)
        /\ end[a] = a + EMPTY_DATA_OFFSET + InternalSize(h, a)
    BY <1>2 DEF EndsOf
  <1>4. a \in Nat /\ free \cup held \subseteq Nat
    BY <1>1 DEF WellPlaced
  <1>5. NextContiguousBlock(h, a) = end[a] /\ end[a] \in Nat
    BY <1>2, <1>3, <1>4, EndsAre DEF EndsOf
  <1> QED  BY <1>3, <1>4, <1>5 DEF Tiling

\* Heap k is h with block b merged with the free block after it, if one lies there.
RightMerged(h, k, free, held, b, left) ==
    /\ k \in Heaps /\ SoundHeap(k, left, held) /\ left \subseteq free /\ b \in left
    /\ \A c \in held : InternalSize(k, c) = InternalSize(h, c)
    /\ PrevOf(k, b) = PrevOf(h, b) /\ NextContiguousBlock(h, b) \notin left
    /\ \A c \in free \ left : b < c

\* Merging to the right leaves no free block where the block ended.
LEMMA MergingRightIsSound ==
  ASSUME NEW h \in Heaps, NEW free, NEW held, SoundHeap(h, free, held), NEW b \in free
  PROVE  \E left : RightMerged(h, mergeContiguousBlockRight(h, b), free, held, b, left)
  <1> DEFINE right == NextOf(h, b)
             e == NextContiguousBlock(h, b)
             k == mergeContiguousBlockRight(h, b)
  <1>1. WellPlaced(h, free, held)
    BY SoundIsWellPlaced
  <1>2. /\ Roomy(h, free) /\ free \in SUBSET Nat /\ b \in Nat /\ NULL \notin free
        /\ Linked(h, free)
    BY <1>1 DEF WellPlaced, SoundHeap
  <1>3. e \in Nat /\ b < e /\ \A c \in free : b < c => e <= c
    BY FreeBlocksAreApart
  <1> HIDE DEF e
  <1>4. e \in free => right = e
    <2> SUFFICES ASSUME e \in free PROVE right = e
      OBVIOUS
    <2>1. Precedes(free, b, e)
      BY <1>2, <1>3 DEF Precedes
    <2> HIDE DEF right
    <2> QED  BY <1>2, <2>1, NextFollows DEF right
  <1>5. right # NULL => right \in free
    BY <1>2 DEF Linked
  <1>6. CASE right # NULL /\ e = right
    <2>1. right \in free /\ NextOf(h, b) = right /\ NextContiguousBlock(h, b) = right
      BY <1>5, <1>6 DEF e
    <2> DEFINE g == Absorb(h, b, right)
    <2>2. k = g
      BY <1>6 DEF mergeContiguousBlockRight, e
    <2> HIDE DEF right
    <2>3. /\ g \in Heaps /\ SoundHeap(g, free \ {right}, held)
          /\ \A c \in held : InternalSize(g, c) = InternalSize(h, c)
          /\ PrevOf(g, b) = PrevOf(h, b) /\ b < right
      BY <2>1, AbsorbingIsSound
    <2> HIDE DEF g, k
    <2>4. RightMerged(h, k, free, held, b, free \ {right})
      BY <1>2, <1>6, <2>2, <2>3 DEF RightMerged, e
    <2> QED  BY <2>4 DEF k
  <1>7. CASE ~(right # NULL /\ e = right)
    <2>1. k = h
      BY <1>7 DEF mergeContiguousBlockRight, e
    <2>2. e \notin free
      BY <1>2, <1>4, <1>7
    <2> HIDE DEF k
    <2>3. RightMerged(h, k, free, held, b, free)
      BY <2>1, <2>2 DEF RightMerged, e
    <2> QED  BY <2>3 DEF k
  <1> QED  BY <1>6, <1>7

\* Heap k is h with block b merged with the free block before it, if one lies there.
LeftMerged(h, k, free, held, b, left) ==
    /\ k \in Heaps /\ SoundHeap(k, left, held) /\ left \subseteq free
    /\ \A c \in held : InternalSize(k, c) = InternalSize(h, c)
    /\ b \in left => \A f \in left : NextContiguousBlock(k, f) # b

\* Merging to the left leaves no free block that ends where the block starts.
LEMMA MergingLeftIsSound ==
  ASSUME NEW h \in Heaps, NEW free, NEW held, SoundHeap(h, free, held), NEW b \in free,
         PrevIsRight(h, free, b)
  PROVE  \E left : LeftMerged(h, mergeContiguousBlockLeft(h, b), free, held, b, left)
  <1> DEFINE prev == PrevOf(h, b)
             k == mergeContiguousBlockLeft(h, b)
  <1>1. WellPlaced(h, free, held)
    BY SoundIsWellPlaced
  <1>2. /\ Roomy(h, free) /\ free \in SUBSET Nat /\ b \in Nat /\ NULL \notin free
        /\ Linked(h, free)
    BY <1>1 DEF WellPlaced, SoundHeap
  <1>3. prev # NULL => Precedes(free, prev, b)
    BY DEF PrevIsRight
  <1>4. ASSUME NEW f \in free, NextContiguousBlock(h, f) = b
        PROVE  prev # NULL /\ prev = f
    <2>1. f \in Nat /\ f < b
      BY <1>4, FreeBlocksAreApart
    <2>2. Precedes(free, prev, b)
      BY <1>2, <2>1 DEF PrevIsRight
    <2> HIDE DEF prev
    <2>3. prev \in free /\ prev \in Nat /\ prev < b /\ f <= prev
      BY <1>2, <2>1, <2>2 DEF Precedes
    <2>4. f < prev => b <= prev
      BY <1>4, <2>3, FreeBlocksAreApart
    <2> QED  BY <1>2, <2>1, <2>3, <2>4
  <1>5. CASE prev # NULL /\ NextContiguousBlock(h, prev) = b
    <2> DEFINE g == Absorb(h, prev, b)
    <2>1. k = g
      BY <1>5 DEF mergeContiguousBlockLeft
    <2>2. prev \in free /\ NextOf(h, prev) = b
      <3>1. prev \in free /\ Precedes(free, prev, b)
        BY <1>3, <1>5 DEF Precedes
      <3> HIDE DEF prev
      <3> QED  BY <1>2, <3>1, NextFollows
    <2> HIDE DEF prev
    <2>3. /\ g \in Heaps /\ SoundHeap(g, free \ {b}, held)
          /\ \A c \in held : InternalSize(g, c) = InternalSize(h, c)
      BY <1>5, <2>2, AbsorbingIsSound
    <2> HIDE DEF g, k
    <2>4. LeftMerged(h, k, free, held, b, free \ {b})
      BY <2>1, <2>3 DEF LeftMerged
    <2> QED  BY <2>4 DEF k
  <1>6. CASE ~(prev # NULL /\ NextContiguousBlock(h, prev) = b)
    <2>1. k = h
      BY <1>6 DEF mergeContiguousBlockLeft
    <2>2. \A f \in free : NextContiguousBlock(h, f) # b
      BY <1>4, <1>6
    <2> HIDE DEF k
    <2>3. LeftMerged(h, k, free, held, b, free)
      BY <2>1, <2>2 DEF LeftMerged
    <2> QED  BY <2>3 DEF k
  <1> QED  BY <1>5, <1>6

\* Heap k is h with block b freed: block b and the free blocks right before it and right
\* after it, if any, are one.
FreedSoundly(h, k, free, held, b) ==
    /\ k \in Heaps /\ SoundHeap(k, free, held \ {b})
    /\ \A c \in held \ {b} : InternalSize(k, c) = InternalSize(h, c)
    /\ b \in free => \A f \in free : NextContiguousBlock(k, f) # b
    /\ BlockEnd(h, b) \notin free

\* Freeing a block leaves a sound heap in which it has joined its free neighbours.
LEMMA FreeingIsSound ==
  ASSUME NEW h \in Heaps, NEW free, NEW held, SoundHeap(h, free, held), NEW b \in held
  PROVE  \E left : FreedSoundly(h, Freed(h, b), left, held, b)
  <1> DEFINE g == FreeBlockList_insert(
                      FreeBlock_construct(h, b, InternalSize(h, b) - sizeDiff, NULL, NULL), b)
             r == mergeContiguousBlockRight(g, b)
             k == mergeContiguousBlockLeft(r, b)
             all == free \cup {b}
             rest == held \ {b}
  <1>1. /\ g \in Heaps /\ SoundHeap(g, all, rest)
        /\ \A c \in rest : InternalSize(g, c) = InternalSize(h, c)
        /\ InternalSize(g, b) = InternalSize(h, b) - sizeDiff
        /\ PrevIsRight(g, free, b)
    BY InsertingIsSound
  <1>2. Freed(h, b) = k
    BY DEF Freed, mergeContiguousBlocks
  <1>3. WellPlaced(h, free, held) /\ b \in Nat /\ InternalSize(h, b) \in Nat /\ b \notin free
    <2>1. WellPlaced(h, free, held)
      BY SoundIsWellPlaced
    <2> QED  BY <2>1 DEF WellPlaced, SoundHeap
  <1> HIDE DEF g
  <1>4. NextContiguousBlock(g, b) = BlockEnd(h, b)
    <2>1. NextContiguousBlock(g, b) = b + EMPTY_DATA_OFFSET + InternalSize(g, b)
      BY <1>1, <1>3, EndsAre
    <2>2. BlockEnd(h, b) = b + PUBLIC_POINTER_OFFSET + InternalSize(h, b)
      BY <1>3, EndsAre
    <2> QED  BY <1>1, <1>3, <2>1, <2>2, Offsets
  <1>5. PICK some : RightMerged(g, r, all, rest, b, some)
    BY <1>1, MergingRightIsSound
  <1> HIDE DEF r
  <1>6. /\ r \in Heaps /\ SoundHeap(r, some, rest) /\ some \subseteq all /\ b \in some
        /\ \A c \in rest : InternalSize(r, c) = InternalSize(g, c)
        /\ PrevOf(r, b) = PrevOf(g, b) /\ BlockEnd(h, b) \notin some
        /\ \A c \in all \ some : b < c
    BY <1>4, <1>5 DEF RightMerged
  <1>7. PrevIsRight(r, some, b)
    <2>1. \A c \in some : c = b \/ c \in free
      BY <1>6
    <2>2. free \subseteq Nat
      BY <1>3 DEF WellPlaced
    <2>3. CASE PrevOf(g, b) = NULL /\ \A c \in free : b <= c
      BY <1>3, <1>6, <2>1, <2>3 DEF PrevIsRight
    <2>4. CASE Precedes(free, PrevOf(g, b), b)
      <3> DEFINE p == PrevOf(g, b)
      <3>1. p \in free /\ p < b /\ \A c \in free : c <= p \/ b <= c
        BY <2>4 DEF Precedes
      <3>2. PrevOf(r, b) = p
        BY <1>6
      <3> HIDE DEF p
      <3>3. p \in Nat /\ p \in some
        BY <1>3, <1>6, <2>2, <3>1
      <3>4. \A c \in some : c <= p \/ b <= c
        BY <1>3, <2>1, <3>1
      <3>5. Precedes(some, p, b)
        BY <3>1, <3>3, <3>4 DEF Precedes
      <3> QED  BY <3>2, <3>5 DEF PrevIsRight
    <2> QED  BY <1>1, <2>3, <2>4 DEF PrevIsRight
  <1>8. PICK left : LeftMerged(r, k, some, rest, b, left)
    BY <1>6, <1>7, MergingLeftIsSound
  <1> HIDE DEF k
  <1>9. FreedSoundly(h, k, left, held, b)
    BY <1>1, <1>6, <1>8 DEF LeftMerged, FreedSoundly
  <1> QED  BY <1>2, <1>9

\* Giving the last free block back to the system leaves a sound heap, if it cuts no block
\* that is held and the block is removed by a right prev pointer.
LEMMA ShrinkingIsSound ==
  ASSUME NEW h \in Heaps, NEW free, NEW held, SoundHeap(h, free, held), h.last # NULL,
         \A c \in held : BlockEnd(h, c) <= Lowered(h).top, ~FollowsStalePrev(h, h.last)
  PROVE  LET k == FreeBlockList_remove(Lowered(h), h.last)
         IN  /\ k \in Heaps /\ SoundHeap(k, free \ {h.last}, held)
             /\ \A c \in held : InternalSize(k, c) = InternalSize(h, c)
             /\ \A c \in free \ {h.last} : InternalSize(k, c) = InternalSize(h, c)
  <1> DEFINE x == h.last
             all == free \cup held
             blocks == all \ {x}
             low == Lowered(h)
             k == FreeBlockList_remove(low, x)
  <1>1. WellPlaced(h, free, held)
    BY SoundIsWellPlaced
  <1>0. PICK end : EndsOf(h, free, held, end)
    BY SoundEnds
  <1>2. /\ Tiling(all, end, h.top)
        /\ \A c \in all : end[c] \in Nat
        /\ \A c \in free : end[c] = c + EMPTY_DATA_OFFSET + InternalSize(h, c)
        /\ \A c \in held : end[c] = c + PUBLIC_POINTER_OFFSET + InternalSize(h, c)
    BY <1>0 DEF EndsOf
  <1>3. Linked(h, free) /\ x \in free
    BY DEF SoundHeap, Linked
  <1>4. /\ all \in SUBSET Nat /\ free \in SUBSET Nat /\ NULL \notin free
        /\ x \in Nat /\ x \in all /\ h.top \in Nat /\ h.top <= HeapLimit
        /\ InternalSize(h, x) \in Nat /\ Roomy(h, free)
    BY <1>1, <1>3 DEF WellPlaced
  <1>5. /\ ExternalSize(h, x) = EMPTY_DATA_OFFSET + InternalSize(h, x)
        /\ ExternalSize(h, x) \in Nat /\ 0 < ExternalSize(h, x)
    BY <1>4, Offsets, EndsAre
  <1>6. /\ low \in Heaps /\ low.top = h.top - ExternalSize(h, x)
        /\ low.fault = h.fault /\ low.first = h.first /\ low.last = h.last
        /\ low.word = h.word
    <2> DEFINE cut == h.top - ExternalSize(h, x)
               m == [h EXCEPT !.top = cut]
    <2>0. cut \in Int
      BY <1>4, <1>5
    <2>1. low = [m EXCEPT !.my_brk = cut]
      BY DEF Lowered, Heaps
    <2> HIDE DEF cut, k
    <2>2. /\ m \in Heaps /\ m.top = cut /\ m.fault = h.fault /\ m.first = h.first
          /\ m.last = h.last /\ m.word = h.word
      BY <2>0 DEF Heaps
    <2> HIDE DEF m, low
    <2>3. /\ low \in Heaps /\ low.top = cut /\ low.fault = h.fault /\ low.first = h.first
          /\ low.last = h.last /\ low.word = h.word
      BY ONLY <2>0, <2>1, <2>2 DEF Heaps
    <2> QED  BY <2>3 DEF cut
  <1>7. end[x] = h.top
    <2>1. \A c \in all : x < c => end[c] < h.top
      <3> SUFFICES ASSUME NEW c \in all, x < c PROVE end[c] < h.top
        OBVIOUS
      <3>1. c \in held
        <4>1. c \in free => c <= x
          BY <1>3 DEF Linked
        <4> QED  BY <1>4, <4>1
      <3>2. end[c] = BlockEnd(h, c) /\ end[c] \in Nat
        <4>1. c \in Int
          BY <1>4
        <4>2. BlockEnd(h, c) = c + PUBLIC_POINTER_OFFSET + InternalSize(h, c)
          BY <4>1, EndsAre
        <4> QED  BY <1>2, <3>1, <4>2
      <3>3. BlockEnd(h, c) <= low.top
        BY <3>1
      <3> HIDE DEF low
      <3> QED  BY <1>4, <1>5, <1>6, <3>2, <3>3
    <2> DEFINE top == h.top
    <2>2. /\ x \in all /\ all \in SUBSET Nat /\ top \in Nat
          /\ Tiling(all, end, top) /\ \A c \in all : end[c] \in Nat
          /\ \A c \in all : x < c => end[c] < top
      BY <1>2, <1>4, <2>1
    <2> HIDE DEF all, x, low, k, top
    <2>3. end[x] = top
      BY ONLY <2>2, TilingReachesTop
    <2> QED  BY <2>3 DEF top
  <1>8. low.top = x
    <2> HIDE DEF low
    <2>1. end[x] = x + EMPTY_DATA_OFFSET + InternalSize(h, x)
      BY <1>2, <1>3
    <2> QED  BY <1>4, <1>5, <1>6, <1>7, <2>1, Offsets
  <1> HIDE DEF low
  <1>9. Tiling(blocks, end, x)
    BY <1>2, <1>4, <1>7, TilingAfterCut
  <1>10. \A c : /\ InternalSize(low, c) = InternalSize(h, c)
                /\ NextOf(low, c) = NextOf(h, c) /\ PrevOf(low, c) = PrevOf(h, c)
    BY <1>6 DEF InternalSize, NextOf, PrevOf, Load
  <1>11. Linked(low, free)
    BY <1>3, <1>6, <1>10 DEF Linked
  <1>12. NotStale(low, free, x)
    <2>1. NotStale(h, free, x)
      BY <1>3, <1>4, NotStaleUnlessFollowed
    <2> QED  BY <1>6, <1>10, <2>1 DEF NotStale
  <1>13. Roomy(low, blocks)
    <2>1. \A c \in blocks : end[c] \in Nat /\ c + EMPTY_DATA_OFFSET <= end[c]
      BY <1>0 DEF EndsOf
    <2>2. low.top \in Nat /\ low.top <= HeapLimit
      <3>1. x < h.top
        BY <1>2, <1>4, <1>7 DEF Tiling
      <3> QED  BY <1>4, <1>8, <3>1, Offsets
    <2>3. Tiling(blocks, end, low.top) /\ blocks \in SUBSET Nat
      BY <1>4, <1>8, <1>9
    <2> QED  BY <2>1, <2>2, <2>3, RoomyByTiling
  <1>14. SameSizes(low, k, blocks) /\ Linked(k, free \ {x})
    <2>1. free \ {x} \subseteq blocks
      OBVIOUS
    <2> QED  BY <1>3, <1>4, <1>6, <1>11, <1>12, <1>13, <2>1, BlockIsRemoved
  <1> HIDE DEF k
  <1>15. /\ k \in Heaps /\ k.top = x /\ k.fault = h.fault
         /\ \A c \in blocks : InternalSize(k, c) = InternalSize(h, c)
    BY <1>6, <1>8, <1>10, <1>14 DEF SameSizes
  <1>16. x \notin held
    BY <1>3 DEF SoundHeap
  <1>17. SoundHeap(k, free \ {x}, held)
    <2>1. /\ \A c \in free \ {x} : /\ InternalSize(k, c) >= 0
                                   /\ end[c] = c + EMPTY_DATA_OFFSET + InternalSize(k, c)
          /\ \A c \in held : /\ InternalSize(k, c) >= sizeDiff
                             /\ end[c] = c + PUBLIC_POINTER_OFFSET + InternalSize(k, c)
      <3>1. \A c \in free : InternalSize(h, c) >= 0
        BY DEF SoundHeap
      <3>2. \A c \in held : InternalSize(h, c) >= sizeDiff /\ c \in blocks
        BY <1>16 DEF SoundHeap
      <3> QED  BY <1>2, <1>15, <3>1, <3>2
    <2>2. /\ (free \ {x}) \cup held = blocks /\ (free \ {x}) \cap held = {}
          /\ (free \ {x}) \cup held \subseteq Nat
      BY <1>4, <1>16 DEF SoundHeap
    <2>3. k.top \in Base .. HeapLimit /\ ~k.fault
      <3>1. Base <= x /\ x < end[x]
        BY <1>2, <1>4 DEF Tiling
      <3> QED  BY <1>4, <1>7, <1>15, <3>1, Offsets DEF SoundHeap
    <2>4. Tiling((free \ {x}) \cup held, end, k.top)
      BY <1>9, <1>15, <2>2
    <2> QED  BY <1>14, <1>15, <2>1, <2>2, <2>3, <2>4, SoundBySizes
  <1> QED  BY <1>15, <1>16, <1>17 DEF k, low

-----------------------------------------------------------------------------
\* Allocating.

LEMMA FreeSetIs ==
  ASSUME NEW h \in Heaps, NEW free, NEW held, SoundHeap(h, free, held)
  PROVE  ToSet(FreeBlocks(h)) = free /\ WalkEnds(h)
  <1>1. Roomy(h, free) /\ Linked(h, free)
    BY SoundIsWellPlaced DEF WellPlaced, SoundHeap
  <1> QED  BY <1>1, WalkMeetsAll, WalkStaysInList

\* If a free block is large enough, either policy finds one.
LEMMA AvailableIsFound ==
  ASSUME NEW h \in Heaps, NEW free, NEW held, SoundHeap(h, free, held), NEW size \in Nat,
         NEW b \in free, InternalSize(h, b) >= size
  PROVE  /\ Available(h, size) \in free
         /\ InternalSize(h, Available(h, size)) + sizeDiff >= size
  <1> DEFINE ext == externalSizeOfUnfreeBlock(size)
             fits == BigEnough(h, ext)
             best == {x \in fits : \A c \in fits : ExternalSize(h, x) <= ExternalSize(h, c)}
  <1>1. WellPlaced(h, free, held)
    BY SoundIsWellPlaced
  <1>2. Roomy(h, free) /\ Linked(h, free) /\ ToSet(FreeBlocks(h)) = free
    BY <1>1, FreeSetIs DEF WellPlaced, SoundHeap
  <1>3. \A c \in free : /\ c \in Nat /\ InternalSize(h, c) \in Nat
                        /\ ExternalSize(h, c) = EMPTY_DATA_OFFSET + InternalSize(h, c)
                        /\ ExternalSize(h, c) \in Nat
    <2> SUFFICES ASSUME NEW c \in free
                 PROVE  /\ c \in Nat /\ InternalSize(h, c) \in Nat
                        /\ ExternalSize(h, c) = EMPTY_DATA_OFFSET + InternalSize(h, c)
                        /\ ExternalSize(h, c) \in Nat
      OBVIOUS
    <2>1. c \in Nat /\ InternalSize(h, c) \in Nat
      BY <1>1 DEF WellPlaced
    <2>2. ExternalSize(h, c) = EMPTY_DATA_OFFSET + InternalSize(h, c)
      BY <2>1, EndsAre
    <2> QED  BY <2>1, <2>2, Offsets
  <1>4. fits = {c \in free : ExternalSize(h, c) >= ext}
    BY <1>2 DEF BigEnough
  <1>5. ext = PUBLIC_POINTER_OFFSET + size /\ ext \in Nat
    BY Offsets DEF externalSizeOfUnfreeBlock
  <1>6. b \in fits /\ fits \in SUBSET free
    BY <1>3, <1>4, <1>5, Offsets
  <1>7. best \in SUBSET free /\ best \in SUBSET fits /\ best # {}
    <2> DEFINE sizes == {ExternalSize(h, c) : c \in fits}
               m == Min(sizes)
    <2>1. sizes \subseteq Nat /\ sizes # {}
      BY <1>3, <1>6
    <2> HIDE DEF sizes
    <2>2. m \in sizes /\ \A y \in sizes : m <= y
      BY <2>1, Least
    <2> HIDE DEF m
    <2>3. PICK x \in fits : ExternalSize(h, x) = m
      BY <2>2 DEF sizes
    <2>4. x \in best
      BY <2>2, <2>3 DEF sizes
    <2> QED  BY <1>6, <2>4
  <1> HIDE DEF best, fits
  <1>8. FirstIn(h, fits) \in fits /\ FirstIn(h, best) \in best
    <2>1. FirstIn(h, fits) \in fits
      BY <1>2, <1>6, FirstInIsIn
    <2>2. FirstIn(h, best) \in best
      BY <1>2, <1>7, FirstInIsIn
    <2> QED  BY <2>1, <2>2
  <1>9. Available(h, size) \in fits
    <2>1. Available(h, size) = FirstIn(h, fits) \/ Available(h, size) = FirstIn(h, best)
      BY DEF Available, getSmallestAvailable, getFirstAvailable, fits, best, ext
    <2> QED  BY <1>7, <1>8, <2>1
  <1> HIDE DEF ext
  <1>10. \A c \in fits : c \in free /\ InternalSize(h, c) + sizeDiff >= size
    BY <1>3, <1>4, <1>5, Offsets
  <1> QED  BY <1>9, <1>10

\* The heap that my_malloc takes a block from: sound, and with a free block that is large
\* enough unless it could not grow.
GrownSoundly(h, r, free, held, size) ==
    /\ r.heap \in Heaps /\ r.grown \in BOOLEAN /\ SoundHeap(r.heap, free, held)
    /\ \A c \in held : InternalSize(r.heap, c) = InternalSize(h, c)
    /\ r.grown => \E b \in free : InternalSize(r.heap, b) >= size

\* When the largest free block is not too small, there is one that is not.
LEMMA LargestIsLargeEnough ==
  ASSUME NEW h \in Heaps, NEW free, NEW held, SoundHeap(h, free, held), NEW size \in Nat \ {0},
         ~(getLargestBlockSize(h) < size)
  PROVE  \E b \in free : InternalSize(h, b) >= size
  <1> DEFINE sizes == {0} \cup {InternalSize(h, b) : b \in free}
             m == Max(sizes)
  <1>1. WellPlaced(h, free, held)
    BY SoundIsWellPlaced
  <1>2. \A b \in free : InternalSize(h, b) \in Nat /\ InternalSize(h, b) <= h.top
    BY <1>1, Offsets DEF WellPlaced
  <1>3. sizes \subseteq Int /\ sizes # {} /\ h.top \in Int /\ \A y \in sizes : y <= h.top
    <2>1. h.top \in Nat
      BY <1>1 DEF WellPlaced
    <2> QED  BY <1>2, <2>1
  <1>4. getLargestBlockSize(h) = m
    BY FreeSetIs DEF getLargestBlockSize
  <1> HIDE DEF sizes
  <1>5. m \in sizes
    BY <1>3, Greatest
  <1> HIDE DEF m
  <1>6. m # 0 /\ m >= size
    BY <1>3, <1>4, <1>5
  <1> QED  BY <1>5, <1>6 DEF sizes

\* my_malloc's growing leaves a sound heap, with a large enough free block unless it fails.
LEMMA GrownIsSound ==
  ASSUME NEW h \in Heaps, NEW free, NEW held, SoundHeap(h, free, held), NEW size \in Nat \ {0}
  PROVE  \E all : GrownSoundly(h, Grown(h, size), all, held, size)
  <1> DEFINE r == grow_heap_size(h, size)
             kept == [heap |-> h, grown |-> TRUE]
  <1>1. CASE h.my_brk = NULL \/ h.first = NULL \/ getLargestBlockSize(h) < size
    <2>1. Grown(h, size) = r
      BY <1>1 DEF Grown
    <2>2. /\ r.heap \in Heaps /\ r.grown \in BOOLEAN
          /\ \A c \in held : InternalSize(r.heap, c) = InternalSize(h, c)
          /\ ~r.grown => SoundHeap(r.heap, free, held)
          /\ r.grown => /\ h.top \in Nat /\ h.top \notin free \cup held
                        /\ SoundHeap(r.heap, free \cup {h.top}, held)
                        /\ InternalSize(r.heap, h.top) = size * 2 + GROW_EXTRA
      BY GrowingIsSound
    <2> HIDE DEF r
    <2>3. CASE r.grown
      <3>1. size * 2 + GROW_EXTRA >= size
        BY RequestsAssumption
      <3>2. InternalSize(r.heap, h.top) >= size
        BY <2>2, <2>3, <3>1
      <3>3. GrownSoundly(h, r, free \cup {h.top}, held, size)
        BY <2>2, <2>3, <3>2 DEF GrownSoundly
      <3> QED  BY <2>1, <3>3
    <2>4. CASE ~r.grown
      <3>1. GrownSoundly(h, r, free, held, size)
        BY <2>2, <2>4 DEF GrownSoundly
      <3> QED  BY <2>1, <3>1
    <2> QED  BY <2>3, <2>4
  <1>2. CASE ~(h.my_brk = NULL \/ h.first = NULL \/ getLargestBlockSize(h) < size)
    <2>1. Grown(h, size) = kept
      BY <1>2 DEF Grown
    <2>2. \E b \in free : InternalSize(h, b) >= size
      BY <1>2, LargestIsLargeEnough
    <2>3. GrownSoundly(h, kept, free, held, size)
      BY <2>2 DEF GrownSoundly
    <2> QED  BY <2>1, <2>3
  <1> QED  BY <1>1, <1>2

\* Heap k is h with a new block that is held.
SplitSoundly(h, n, free, held, size) ==
    /\ n.heap \in Heaps /\ n.block \in Nat \ {NULL} /\ n.block \notin held
    /\ SoundHeap(n.heap, free, held \cup {n.block}) /\ InternalSize(n.heap, n.block) >= size
    /\ \A c \in held : InternalSize(n.heap, c) = InternalSize(h, c)

\* Splitting a free block that is large enough gives away memory that nobody holds.
LEMMA SplittingIsSound ==
  ASSUME NEW h \in Heaps, NEW free, NEW held, SoundHeap(h, free, held), NEW b \in free,
         NEW size \in Nat, sizeDiff <= size, InternalSize(h, b) + sizeDiff >= size,
         FreeBlock_split(h, b, size).block = b => ~FollowsStalePrev(h, b)
  PROVE  \E left : SplitSoundly(h, FreeBlock_split(h, b, size), left, held, size)
  <1> DEFINE n == FreeBlock_split(h, b, size)
  <1>1. WellPlaced(h, free, held)
    BY SoundIsWellPlaced
  <1>2. b \in Nat /\ b # NULL /\ Roomy(h, free) /\ Linked(h, free) /\ b \notin held
    BY <1>1 DEF WellPlaced, SoundHeap
  <1>3. CASE InternalSize(h, b) <= externalSizeOfUnfreeBlock(size)
    <2> DEFINE k == makeUnfree(h, b)
    <2>1. n = [heap |-> k, block |-> b]
      BY <1>2, <1>3 DEF FreeBlock_split
    <2>2. NotStale(h, free, b)
      BY <1>2, <2>1, NotStaleUnlessFollowed
    <2>3. /\ k \in Heaps /\ SoundHeap(k, free \ {b}, held \cup {b})
          /\ InternalSize(k, b) = InternalSize(h, b) + sizeDiff
          /\ \A c \in held : InternalSize(k, c) = InternalSize(h, c)
      <3>1. h \in Heaps /\ SoundHeap(h, free, held) /\ b \in free /\ NotStale(h, free, b)
        BY <2>2
      <3> QED  BY ONLY <3>1, TakingIsSound
    <2> HIDE DEF k, n
    <2>4. SplitSoundly(h, n, free \ {b}, held, size)
      BY <1>2, <2>1, <2>3 DEF SplitSoundly
    <2> QED  BY <2>4 DEF n
  <1>4. CASE ~(InternalSize(h, b) <= externalSizeOfUnfreeBlock(size))
    <2> DEFINE r == FreeBlock_resize(h, b, size)
    <2>1. n = r
      BY <1>2, <1>4 DEF FreeBlock_split
    <2>2. /\ r.heap \in Heaps /\ r.block \in Nat /\ r.block \notin free \cup held
          /\ SoundHeap(r.heap, free, held \cup {r.block})
          /\ InternalSize(r.heap, r.block) = size
          /\ \A c \in held : InternalSize(r.heap, c) = InternalSize(h, c)
      <3>1. /\ h \in Heaps /\ SoundHeap(h, free, held) /\ b \in free /\ size \in Nat
            /\ sizeDiff <= size /\ ~(InternalSize(h, b) <= externalSizeOfUnfreeBlock(size))
        BY <1>4
      <3> QED  BY ONLY <3>1, ResizeIsSound
    <2> HIDE DEF r, n
    <2>3. r.block # NULL
      <3>1. WellPlaced(r.heap, free, held \cup {r.block})
        BY <2>2, SoundIsWellPlaced
      <3> QED  BY <3>1 DEF WellPlaced
    <2>4. SplitSoundly(h, n, free, held, size)
      BY <2>1, <2>2, <2>3 DEF SplitSoundly
    <2> QED  BY <2>4 DEF n
  <1> QED  BY <1>3, <1>4

-----------------------------------------------------------------------------
\* Every function leaves a heap of its type, whatever it is called with.

LEMMA HeadersAreTyped ==
  ASSUME NEW h \in Heaps, NEW b
  PROVE  /\ InternalSize(h, b) \in Int /\ PrevOf(h, b) \in Int /\ NextOf(h, b) \in Int
         /\ ExternalSize(h, b) \in Int
  <1>1. InternalSize(h, b) \in Int /\ PrevOf(h, b) \in Int /\ NextOf(h, b) \in Int
    BY LoadIsTyped DEF InternalSize, PrevOf, NextOf
  <1>2. ExternalSize(h, b) \in Int
    BY <1>1, Offsets DEF ExternalSize, externalSizeOfFreeBlock
  <1> QED  BY <1>1, <1>2

LEMMA WordsAreTyped ==
  ASSUME NEW h \in Heaps, NEW b, NEW v \in Int
  PROVE  /\ setInternalSize(h, b, v) \in Heaps /\ setPrev(h, b, v) \in Heaps
         /\ setNext(h, b, v) \in Heaps
  BY StoreIsTyped DEF setInternalSize, setPrev, setNext

LEMMA VariablesAreTyped ==
  ASSUME NEW h \in Heaps
  PROVE  /\ h.first \in Int /\ h.last \in Int /\ h.top \in Int /\ h.my_brk \in Int
         /\ h.fault \in BOOLEAN /\ [h EXCEPT !.fault = TRUE] \in Heaps /\ NULL \in Int
  <1>1. [h EXCEPT !.fault = TRUE] \in Heaps
    BY DEF Heaps
  <1>2. NULL \in Int
    BY DEF NULL
  <1> QED  BY <1>1, <1>2 DEF Heaps

LEMMA EndsAreTyped ==
  ASSUME NEW h \in Heaps, NEW x \in Int, NEW y \in Int
  PROVE  /\ [h EXCEPT !.first = x] \in Heaps /\ [h EXCEPT !.last = x] \in Heaps
         /\ [h EXCEPT !.first = x, !.last = y] \in Heaps
         /\ [h EXCEPT !.top = x, !.my_brk = y] \in Heaps
         /\ [h EXCEPT !.heap_end = x] \in Heaps
  <1>1. /\ [h EXCEPT !.first = x] \in Heaps /\ [h EXCEPT !.last = x] \in Heaps
        /\ [h EXCEPT !.heap_end = x] \in Heaps
    BY DEF Heaps
  <1> DEFINE g == [h EXCEPT !.first = x]
             m == [h EXCEPT !.top = x]
  <1>2. [h EXCEPT !.first = x, !.last = y] = [g EXCEPT !.last = y]
    BY DEF Heaps
  <1>3. [h EXCEPT !.top = x, !.my_brk = y] = [m EXCEPT !.my_brk = y]
    BY DEF Heaps
  <1>4. g \in Heaps /\ m \in Heaps
    BY DEF Heaps
  <1> HIDE DEF g, m
  <1>5. [g EXCEPT !.last = y] \in Heaps /\ [m EXCEPT !.my_brk = y] \in Heaps
    BY <1>4 DEF Heaps
  <1> QED  BY <1>1, <1>2, <1>3, <1>5

LEMMA ConstructIsTyped ==
  ASSUME NEW h \in Heaps, NEW b, NEW size \in Int, NEW prev \in Int, NEW next \in Int
  PROVE  FreeBlock_construct(h, b, size, prev, next) \in Heaps
  BY WordsAreTyped DEF FreeBlock_construct

LEMMA MergingIsTyped ==
  ASSUME NEW h \in Heaps, NEW a \in Int, NEW b \in Int
  PROVE  Absorb(h, a, b) \in Heaps /\ mergeContiguousBlocks(h, a) \in Heaps
  <1>1. ASSUME NEW g \in Heaps, NEW x \in Int, NEW y \in Int
        PROVE  Absorb(g, x, y) \in Heaps
    <2> DEFINE linked == setNext(g, x, NextOf(g, y))
               size == InternalSize(linked, x)
                          + externalSizeOfFreeBlock(InternalSize(linked, y))
               k == setInternalSize(linked, x, size)
    <2>1. linked \in Heaps
      BY <1>1, HeadersAreTyped, WordsAreTyped
    <2> HIDE DEF linked
    <2>2. size \in Int
      BY <1>1, <2>1, HeadersAreTyped, Offsets DEF externalSizeOfFreeBlock
    <2> HIDE DEF size
    <2>3. k \in Heaps
      BY <1>1, <2>1, <2>2, WordsAreTyped
    <2>4. Absorb(g, x, y) = IF k.last = y THEN [k EXCEPT !.last = x] ELSE k
      BY DEF Absorb, k, size, linked
    <2> HIDE DEF k
    <2> QED  BY <1>1, <2>3, <2>4, EndsAreTyped
  <1>2. ASSUME NEW g \in Heaps
        PROVE  /\ mergeContiguousBlockLeft(g, a) \in Heaps
               /\ mergeContiguousBlockRight(g, a) \in Heaps
    <2>1. PrevOf(g, a) \in Int /\ NextOf(g, a) \in Int
      BY <1>2, LoadIsTyped DEF PrevOf, NextOf
    <2>2. Absorb(g, PrevOf(g, a), a) \in Heaps /\ Absorb(g, a, NextOf(g, a)) \in Heaps
      BY <1>1, <1>2, <2>1
    <2> QED  BY <1>2, <2>2 DEF mergeContiguousBlockLeft, mergeContiguousBlockRight
  <1> QED  BY <1>1, <1>2 DEF mergeContiguousBlocks

LEMMA RemovingIsTyped ==
  ASSUME NEW h \in Heaps, NEW b
  PROVE  FreeBlockList_remove(h, b) \in Heaps
  <1>1. NULL \in Int /\ PrevOf(h, b) \in Int /\ NextOf(h, b) \in Int
    BY LoadIsTyped DEF NULL, PrevOf, NextOf
  <1>2. [h EXCEPT !.first = NULL, !.last = NULL] \in Heaps
    BY <1>1, EndsAreTyped
  <1>3. setPrev([h EXCEPT !.first = NextOf(h, b)], NextOf(h, b), NULL) \in Heaps
    <2>1. [h EXCEPT !.first = NextOf(h, b)] \in Heaps
      BY <1>1, EndsAreTyped
    <2> QED  BY <1>1, <2>1, WordsAreTyped
  <1>4. setNext([h EXCEPT !.last = PrevOf(h, b)], PrevOf(h, b), NULL) \in Heaps
    <2>1. [h EXCEPT !.last = PrevOf(h, b)] \in Heaps
      BY <1>1, EndsAreTyped
    <2> QED  BY <1>1, <2>1, WordsAreTyped
  <1>5. setPrev(setNext(h, PrevOf(h, b), NextOf(h, b)), NextOf(h, b), PrevOf(h, b)) \in Heaps
    <2>1. setNext(h, PrevOf(h, b), NextOf(h, b)) \in Heaps
      BY <1>1, WordsAreTyped
    <2> QED  BY <1>1, <2>1, WordsAreTyped
  <1> QED  BY <1>2, <1>3, <1>4, <1>5 DEF FreeBlockList_remove

LEMMA InsertingIsTyped ==
  ASSUME NEW h \in Heaps, NEW b \in Int
  PROVE  FreeBlockList_insert(h, b) \in Heaps
  <1>1. NULL \in Int /\ h.first \in Int /\ h.last \in Int
    BY VariablesAreTyped
  <1>2. insertOnly(h, b) \in Heaps
    <2> DEFINE g == [h EXCEPT !.first = b, !.last = b]
               n == setNext(g, b, NULL)
    <2>1. g \in Heaps
      BY EndsAreTyped
    <2> HIDE DEF g
    <2>2. n \in Heaps
      BY <1>1, <2>1, WordsAreTyped
    <2> HIDE DEF n
    <2>3. setPrev(n, b, NULL) \in Heaps
      BY <1>1, <2>2, WordsAreTyped
    <2> QED  BY <2>3 DEF insertOnly, n, g
  <1>3. insertBeginning(h, b) \in Heaps
    <2> DEFINE n == setNext(h, b, h.first)
               p == setPrev(n, b, NULL)
               q == setPrev(p, h.first, b)
    <2>1. n \in Heaps
      BY <1>1, WordsAreTyped
    <2> HIDE DEF n
    <2>2. p \in Heaps
      BY <1>1, <2>1, WordsAreTyped
    <2> HIDE DEF p
    <2>3. q \in Heaps
      BY <1>1, <2>2, WordsAreTyped
    <2> HIDE DEF q
    <2>4. [q EXCEPT !.first = b] \in Heaps
      BY <2>3, EndsAreTyped
    <2> QED  BY <2>4 DEF insertBeginning, q, p, n
  <1>4. insertEnd(h, b) \in Heaps
    <2> DEFINE p == setPrev(h, b, h.last)
               n == setNext(p, b, NULL)
               q == setNext(n, h.last, b)
    <2>1. p \in Heaps
      BY <1>1, WordsAreTyped
    <2> HIDE DEF p
    <2>2. n \in Heaps
      BY <1>1, <2>1, WordsAreTyped
    <2> HIDE DEF n
    <2>3. q \in Heaps
      BY <1>1, <2>2, WordsAreTyped
    <2> HIDE DEF q
    <2>4. [q EXCEPT !.last = b] \in Heaps
      BY <2>3, EndsAreTyped
    <2> QED  BY <2>4 DEF insertEnd, q, p, n
  <1>5. insertSomeWhereInList(h, b) \in Heaps
    <2> DEFINE current == FirstIn(h, {c \in ToSet(FreeBlocks(h)) : c < b /\ NextOf(h, c) > b})
               next == NextOf(h, current)
               p == setPrev(h, b, current)
               n == setNext(p, b, next)
               m == setNext(n, current, b)
               q == setPrev(m, next, b)
    <2>1. current \in Int
      BY FirstInIsTyped
    <2> HIDE DEF current
    <2>2. next \in Int
      BY LoadIsTyped DEF NextOf
    <2> HIDE DEF next
    <2>3. p \in Heaps
      BY <2>1, WordsAreTyped
    <2> HIDE DEF p
    <2>4. n \in Heaps
      BY <2>2, <2>3, WordsAreTyped
    <2> HIDE DEF n
    <2>5. m \in Heaps
      BY <2>4, WordsAreTyped
    <2> HIDE DEF m
    <2>6. q \in Heaps
      BY <2>5, WordsAreTyped
    <2>7. insertSomeWhereInList(h, b) = IF current = NULL THEN h ELSE q
      BY DEF insertSomeWhereInList, q, m, n, p, next, current
    <2> QED  BY <2>6, <2>7
  <1> QED  BY <1>2, <1>3, <1>4, <1>5 DEF FreeBlockList_insert

LEMMA SplittingIsTyped ==
  ASSUME NEW h \in Heaps, NEW b \in Int, NEW size \in Nat
  PROVE  /\ FreeBlock_split(h, b, size).heap \in Heaps
         /\ FreeBlock_split(h, b, size).block \in Int
  <1>1. CASE b = NULL
    <2> DEFINE g == [h EXCEPT !.fault = TRUE]
    <2>1. g \in Heaps /\ NULL \in Int
      BY VariablesAreTyped
    <2>2. FreeBlock_split(h, b, size) = [heap |-> g, block |-> NULL]
      BY <1>1 DEF FreeBlock_split
    <2> HIDE DEF g
    <2> QED  BY <2>1, <2>2
  <1>2. makeUnfree(h, b) \in Heaps
    <2> DEFINE r == FreeBlockList_remove(h, b)
               more == InternalSize(r, b) + sizeDiff
    <2>1. r \in Heaps
      BY RemovingIsTyped
    <2> HIDE DEF r
    <2>2. more \in Int
      BY <2>1, HeadersAreTyped, Offsets
    <2> HIDE DEF more
    <2>3. setInternalSize(r, b, more) \in Heaps
      BY <2>1, <2>2, WordsAreTyped
    <2> QED  BY <2>3 DEF makeUnfree, more, r
  <1>3. /\ FreeBlock_resize(h, b, size).heap \in Heaps
        /\ FreeBlock_resize(h, b, size).block \in Int
    <2> DEFINE less == InternalSize(h, b) - externalSizeOfUnfreeBlock(size)
               s == setInternalSize(h, b, less)
               x == NextContiguousBlock(s, b)
               k == setInternalSize(s, x, size)
    <2>1. less \in Int
      BY HeadersAreTyped, Offsets DEF externalSizeOfUnfreeBlock
    <2>2. FreeBlock_resize(h, b, size) = [heap |-> k, block |-> x]
      BY DEF FreeBlock_resize
    <2> HIDE DEF less
    <2>3. s \in Heaps
      BY <2>1, WordsAreTyped
    <2> HIDE DEF s
    <2>4. x \in Int
      BY <2>3, HeadersAreTyped DEF NextContiguousBlock
    <2> HIDE DEF x
    <2>5. k \in Heaps
      BY <2>3, WordsAreTyped
    <2> HIDE DEF k
    <2> QED  BY <2>2, <2>4, <2>5
  <1>4. CASE b # NULL
    BY <1>2, <1>3, <1>4 DEF FreeBlock_split
  <1> QED  BY <1>1, <1>4

LEMMA GrowingIsTyped ==
  ASSUME NEW h \in Heaps, NEW size \in Nat
  PROVE  Grown(h, size).heap \in Heaps
  <1> DEFINE more == size * 2 + GROW_EXTRA
             started == IF h.heap_end = NULL THEN [h EXCEPT !.heap_end = h.top] ELSE h
             newTop == h.top + externalSizeOfFreeBlock(more)
             moved == [started EXCEPT !.top = newTop, !.my_brk = h.top]
             g == FreeBlock_construct(moved, h.top, more, NULL, NULL)
             k == FreeBlockList_insert(g, h.top)
             r == grow_heap_size(h, size)
  <1>1. r = IF newTop > HeapLimit THEN [heap |-> started, grown |-> FALSE]
            ELSE [heap |-> k, grown |-> TRUE]
    BY DEF grow_heap_size
  <1>2. more \in Int /\ h.top \in Int /\ NULL \in Int
    <2>1. h.top \in Int /\ NULL \in Int
      BY VariablesAreTyped
    <2> QED  BY <2>1, RequestsAssumption
  <1>3. newTop \in Int
    BY <1>2, Offsets DEF externalSizeOfFreeBlock
  <1> HIDE DEF more, newTop
  <1>4. started \in Heaps
    BY <1>2, EndsAreTyped
  <1> HIDE DEF started
  <1>5. moved \in Heaps
    BY <1>2, <1>3, <1>4, EndsAreTyped
  <1> HIDE DEF moved
  <1>6. g \in Heaps
    BY <1>2, <1>5, ConstructIsTyped
  <1> HIDE DEF g
  <1>7. k \in Heaps
    BY <1>2, <1>6, InsertingIsTyped
  <1> HIDE DEF k, r
  <1>8. r.heap \in Heaps
    BY <1>1, <1>4, <1>7
  <1> QED  BY <1>8 DEF Grown, r

LEMMA FreeingIsTyped ==
  ASSUME NEW h \in Heaps, NEW b \in Int
  PROVE  Freed(h, b) \in Heaps
  <1> DEFINE size == InternalSize(h, b) - sizeDiff
             g == FreeBlock_construct(h, b, size, NULL, NULL)
             k == FreeBlockList_insert(g, b)
  <1>1. size \in Int /\ NULL \in Int
    BY HeadersAreTyped, Offsets DEF NULL
  <1> HIDE DEF size
  <1>2. g \in Heaps
    BY <1>1, ConstructIsTyped
  <1> HIDE DEF g
  <1>3. k \in Heaps
    BY <1>2, InsertingIsTyped
  <1> HIDE DEF k
  <1>4. mergeContiguousBlocks(k, b) \in Heaps
    BY <1>3, MergingIsTyped
  <1> QED  BY <1>4 DEF Freed, k, g, size

LEMMA LoweringIsTyped ==
  ASSUME NEW h \in Heaps
  PROVE  Lowered(h) \in Heaps
  <1> DEFINE cut == h.top - ExternalSize(h, h.last)
  <1>1. cut \in Int
    <2>1. h.top \in Int
      BY VariablesAreTyped
    <2>2. ExternalSize(h, h.last) \in Int
      BY HeadersAreTyped
    <2> QED  BY <2>1, <2>2
  <1>2. Lowered(h) = [h EXCEPT !.top = cut, !.my_brk = cut]
    BY DEF Lowered
  <1> HIDE DEF cut
  <1>3. [h EXCEPT !.top = cut, !.my_brk = cut] \in Heaps
    BY <1>1, EndsAreTyped
  <1> QED  BY <1>2, <1>3

-----------------------------------------------------------------------------
\* The inductive invariant.

\* What my_malloc adds to a request is room for a free block's header.
LEMMA PaddingIsEnough ==
  ASSUME NEW size \in Requests
  PROVE  /\ size \in Nat /\ Padded(size) \in Nat \ {0}
         /\ size <= Padded(size) /\ sizeDiff <= Padded(size)
  <1>1. size \in Nat \ {0}
    BY RequestsAssumption
  <1>2. sizeDiff = 2 * PTR_SIZE
    BY SizesAssumption
       DEF sizeDiff, externalSizeOfFreeBlock, externalSizeOfUnfreeBlock, EMPTY_DATA_OFFSET,
           PUBLIC_POINTER_OFFSET
  <1> QED  BY <1>1, <1>2, SizesAssumption DEF Padded

LEMMA IndInvFromHeap ==
  ASSUME TypeOK',
         Faultless' => /\ \E free : SoundHeap(heap', free, DOMAIN live')
                       /\ \A b \in DOMAIN live' : live'[b] <= InternalSize(heap', b)
  PROVE  IndInv'
  <1>1. ASSUME Faultless' PROVE SoundHeap(heap', FreeSet', DOMAIN live')
    <2>1. PICK free : SoundHeap(heap', free, DOMAIN live')
      BY <1>1
    <2>2. heap' \in Heaps
      BY DEF TypeOK
    <2>3. ToSet(FreeBlocks(heap')) = free
      BY <2>1, <2>2, FreeSetIs
    <2>4. FreeSet' = free
      BY <2>3 DEF FreeSet
    <2> QED  BY <2>1, <2>4
  <1> QED  BY <1>1 DEF IndInv

LEMMA InitIsSound == Init => IndInv
  <1> SUFFICES ASSUME Init PROVE IndInv
    OBVIOUS
  <1>1. /\ heap.word = [a \in Addresses |-> 0] /\ heap.first = NULL /\ heap.last = NULL
        /\ heap.top = Base /\ heap.fault = FALSE /\ heap \in Heaps
    <2>1. Base \in Int /\ NULL \in Int
      BY Offsets DEF NULL
    <2> QED  BY <2>1 DEF Init, EmptyHeap, Heaps
  <1>2. DOMAIN live = {}
    BY DEF Init
  <1>3. TypeOK
    BY <1>1, <1>2 DEF Init, TypeOK
  <1>4. SoundHeap(heap, {}, DOMAIN live)
    <2>1. heap.top \in Base .. HeapLimit
      BY <1>1, SizesAssumption
    <2>2. Linked(heap, {})
      BY <1>1 DEF Linked
    <2>3. Tiling({} \cup DOMAIN live, [b \in {} \cup DOMAIN live |-> EndOf(heap, {}, b)],
                 heap.top)
      BY <1>1, <1>2 DEF Tiling
    <2> QED  BY <1>1, <1>2, <2>1, <2>2, <2>3 DEF SoundHeap
  <1>5. FreeSet = {}
    BY <1>1, <1>4, FreeSetIs DEF FreeSet
  <1> QED  BY <1>2, <1>3, <1>4, <1>5 DEF IndInv

LEMMA FailingIsSound ==
  ASSUME IndInv, NEW size \in Requests, my_malloc_Fails(size)
  PROVE  IndInv' /\ (faults' = {} => ~heap.fault')
  <1> DEFINE p == Padded(size)
             r == Grown(heap, p)
  <1>1. /\ heap' = r.heap /\ live' = live /\ faults' = faults /\ ~heap.fault
        /\ allocationPolicy' = allocationPolicy
    BY DEF my_malloc_Fails, Running
  <1>2. p \in Nat \ {0} /\ heap \in Heaps
    BY PaddingIsEnough DEF IndInv, TypeOK
  <1> HIDE DEF p
  <1>3. TypeOK'
    <2>1. heap' \in Heaps
      BY <1>1, <1>2, GrowingIsTyped
    <2> QED  BY <1>1, <2>1 DEF IndInv, TypeOK
  <1>4. ASSUME faults' = {}
        PROVE  /\ \E free : SoundHeap(heap', free, DOMAIN live')
               /\ \A b \in DOMAIN live' : live'[b] <= InternalSize(heap', b)
    <2>1. Faultless
      BY <1>1, <1>4 DEF Faultless
    <2>2. /\ SoundHeap(heap, FreeSet, DOMAIN live)
          /\ \A b \in DOMAIN live : live[b] <= InternalSize(heap, b)
      BY <2>1 DEF IndInv
    <2>3. PICK free : GrownSoundly(heap, r, free, DOMAIN live, p)
      BY <1>2, <2>2, GrownIsSound
    <2> HIDE DEF r
    <2> QED  BY <1>1, <2>2, <2>3 DEF GrownSoundly
  <1> QED  BY <1>3, <1>4, IndInvFromHeap DEF SoundHeap, Faultless

LEMMA SucceedingIsSound ==
  ASSUME IndInv, NEW size \in Requests, my_malloc_Succeeds(size)
  PROVE  IndInv' /\ (faults' = {} => ~heap.fault')
  <1> DEFINE p == Padded(size)
             r == Grown(heap, p)
             found == Available(r.heap, p)
             n == FreeBlock_split(r.heap, found, p)
             held == DOMAIN live
  <1>1. /\ heap' = n.heap /\ ~heap.fault /\ r.grown
        /\ live' = IF n.heap.fault THEN live
                   ELSE [b \in held \cup {n.block} |->
                            IF b = n.block THEN size ELSE live[b]]
        /\ faults' = IF n.block = found /\ FollowsStalePrev(r.heap, found)
                     THEN faults \cup {"stale"} ELSE faults
        /\ allocationPolicy' = allocationPolicy
    BY DEF my_malloc_Succeeds, Running
  <1>2. /\ p \in Nat \ {0} /\ size \in Nat /\ size <= p /\ sizeDiff <= p /\ heap \in Heaps
        /\ held \subseteq Int
    BY PaddingIsEnough DEF IndInv, TypeOK
  <1> HIDE DEF p
  <1>3. r.heap \in Heaps
    BY <1>2, GrowingIsTyped
  <1> HIDE DEF r
  <1>4. TypeOK'
    <2>1. found \in Int
      BY <1>3, FirstInIsTyped DEF Available, getFirstAvailable, getSmallestAvailable
    <2> HIDE DEF found
    <2>2. n.heap \in Heaps /\ n.block \in Int
      BY <1>2, <1>3, <2>1, SplittingIsTyped
    <2> HIDE DEF n
    <2>3. faults \subseteq {"stale", "cut"} /\ \A b \in held : live[b] \in Requests
      BY DEF IndInv, TypeOK
    <2>4. ~n.heap.fault =>
              /\ DOMAIN live' = held \cup {n.block}
              /\ \A b \in DOMAIN live' : live'[b] = IF b = n.block THEN size ELSE live[b]
      BY <1>1
    <2>5. faults' \subseteq {"stale", "cut"}
      BY <1>1, <2>3
    <2>6. allocationPolicy' \in {BEST_FIT_POLICY, FIRST_FIT_POLICY}
      BY <1>1 DEF IndInv, TypeOK
    <2>7. DOMAIN live' \subseteq Int /\ \A b \in DOMAIN live' : live'[b] \in Requests
      <3>1. CASE n.heap.fault
        BY <1>1, <1>2, <2>3, <3>1
      <3>2. CASE ~n.heap.fault
        BY <1>2, <2>2, <2>3, <2>4, <3>2
      <3> QED  BY <3>1, <3>2
    <2> QED  BY <1>1, <2>2, <2>5, <2>6, <2>7 DEF TypeOK
  <1>5. ASSUME faults' = {}
        PROVE  /\ \E free : SoundHeap(heap', free, DOMAIN live')
               /\ \A b \in DOMAIN live' : live'[b] <= InternalSize(heap', b)
    <2>1. Faultless /\ ~(n.block = found /\ FollowsStalePrev(r.heap, found))
      BY <1>1, <1>5 DEF Faultless
    <2>2. /\ SoundHeap(heap, FreeSet, held)
          /\ \A b \in held : live[b] <= InternalSize(heap, b)
      BY <2>1 DEF IndInv
    <2>3. PICK all : GrownSoundly(heap, r, all, held, p)
      BY <1>2, <2>2, GrownIsSound DEF r
    <2>4. /\ SoundHeap(r.heap, all, held)
          /\ \A b \in held : InternalSize(r.heap, b) = InternalSize(heap, b)
      BY <2>3 DEF GrownSoundly
    <2>5. PICK b \in all : InternalSize(r.heap, b) >= p
      BY <1>1, <2>3 DEF GrownSoundly
    <2>6. found \in all /\ InternalSize(r.heap, found) + sizeDiff >= p
      BY <1>2, <1>3, <2>4, <2>5, AvailableIsFound
    <2> HIDE DEF found
    <2>7. PICK left : SplitSoundly(r.heap, n, left, held, p)
      <3>1. n.block = found => ~FollowsStalePrev(r.heap, found)
        BY <2>1
      <3>2. p \in Nat
        BY <1>2
      <3> QED  BY <1>2, <1>3, <2>4, <2>6, <3>1, <3>2, SplittingIsSound
    <2> HIDE DEF n
    <2>8. /\ n.block \in Nat \ {NULL} /\ n.block \notin held /\ n.heap \in Heaps
          /\ SoundHeap(n.heap, left, held \cup {n.block})
          /\ InternalSize(n.heap, n.block) >= p
          /\ \A c \in held : InternalSize(n.heap, c) = InternalSize(r.heap, c)
      BY <2>7 DEF SplitSoundly
    <2>9. ~n.heap.fault
      BY <2>8 DEF SoundHeap
    <2>10. /\ DOMAIN live' = held \cup {n.block}
           /\ \A c \in DOMAIN live' : live'[c] = IF c = n.block THEN size ELSE live[c]
      BY <1>1, <2>9
    <2>11. InternalSize(n.heap, n.block) \in Int
      BY <2>8, HeadersAreTyped
    <2>12. size <= InternalSize(n.heap, n.block)
      BY <1>2, <2>8, <2>11
    <2>13. \A c \in DOMAIN live' : live'[c] <= InternalSize(heap', c)
      BY <1>1, <2>2, <2>4, <2>8, <2>10, <2>12
    <2> QED  BY <1>1, <2>8, <2>10, <2>13
  <1> QED  BY <1>4, <1>5, IndInvFromHeap DEF SoundHeap, Faultless

LEMMA KeepingJoins ==
  ASSUME IndInv, NEW block \in DOMAIN live, my_free_Keeps(block), faults' = {}
  PROVE  \E left : FreedSoundly(heap, heap', left, DOMAIN live, block)
  <1>1. Faultless /\ heap' = Freed(heap, block)
    BY DEF my_free_Keeps, Running, Faultless
  <1>2. SoundHeap(heap, FreeSet, DOMAIN live) /\ heap \in Heaps
    BY <1>1 DEF IndInv, TypeOK
  <1> QED  BY <1>1, <1>2, FreeingIsSound

LEMMA ShrinkingJoins ==
  ASSUME IndInv, NEW block \in DOMAIN live, my_free_Shrinks(block), faults' = {},
         heap.fault' => ~ReadsReleased(Freed(heap, block))
  PROVE  \E left : FreedSoundly(heap, heap', left, DOMAIN live, block)
  <1> DEFINE freed == Freed(heap, block)
             lowered == Lowered(freed)
             removed == FreeBlockList_remove(lowered, freed.last)
             held == DOMAIN live
             rest == held \ {block}
             broken == [removed EXCEPT !.fault = TRUE]
  <1>1. /\ heap' = removed \/ (ReadsReleased(freed) /\ heap' = broken)
        /\ ~heap.fault /\ ShrinksHeap(freed)
        /\ faults' = faults
               \cup (IF FollowsStalePrev(freed, freed.last) THEN {"stale"} ELSE {})
               \cup (IF \E b \in rest : BlockEnd(heap, b) > lowered.top
                     THEN {"cut"} ELSE {})
    BY DEF my_free_Shrinks, Running
  <1>2. block \in Int /\ heap \in Heaps
    BY DEF IndInv, TypeOK
  <1>3. freed \in Heaps
    BY <1>2, FreeingIsTyped
  <1>4. /\ Faultless /\ ~FollowsStalePrev(freed, freed.last)
        /\ \A b \in rest : ~(BlockEnd(heap, b) > lowered.top)
    BY <1>1 DEF Faultless
  <1>5. SoundHeap(heap, FreeSet, held)
    BY <1>4 DEF IndInv
  <1>6. PICK left : FreedSoundly(heap, freed, left, held, block)
    BY <1>2, <1>5, FreeingIsSound
  <1> HIDE DEF freed
  <1>7. lowered \in Heaps
    BY <1>3, LoweringIsTyped
  <1>8. heap' = removed
    <2> HIDE DEF lowered
    <2>1. removed \in Heaps
      BY <1>7, RemovingIsTyped
    <2> HIDE DEF removed
    <2>2. broken.fault = TRUE
      BY <2>1 DEF Heaps
    <2>3. heap' = broken => ~ReadsReleased(freed)
      BY <2>2 DEF freed
    <2> QED  BY <1>1, <2>3
  <1>9. /\ SoundHeap(freed, left, rest) /\ freed.last # NULL
        /\ \A b \in rest : InternalSize(freed, b) = InternalSize(heap, b)
    BY <1>1, <1>6 DEF FreedSoundly, ShrinksHeap
  <1>10. \A b \in rest : BlockEnd(freed, b) <= lowered.top
    <2> SUFFICES ASSUME NEW b \in rest PROVE BlockEnd(freed, b) <= lowered.top
      OBVIOUS
    <2>1. b \in Int
      BY DEF IndInv, TypeOK
    <2>2. BlockEnd(freed, b) = BlockEnd(heap, b)
      BY <1>2, <1>3, <1>9, <2>1, EndsAre
    <2>3. BlockEnd(heap, b) \in Int /\ lowered.top \in Int
      <3>1. InternalSize(heap, b) \in Int /\ PUBLIC_POINTER_OFFSET \in Nat
        BY <1>2, HeadersAreTyped, Offsets
      <3>2. BlockEnd(heap, b) \in Int
        BY <1>2, <2>1, <3>1, EndsAre
      <3> HIDE DEF lowered
      <3> QED  BY <1>7, <3>2, VariablesAreTyped
    <2> HIDE DEF lowered
    <2> QED  BY <1>4, <2>2, <2>3
  <1>11. /\ removed \in Heaps /\ SoundHeap(removed, left \ {freed.last}, rest)
         /\ \A b \in rest : InternalSize(removed, b) = InternalSize(freed, b)
         /\ \A b \in left \ {freed.last} : InternalSize(removed, b) = InternalSize(freed, b)
    BY <1>3, <1>4, <1>9, <1>10, ShrinkingIsSound
  <1> HIDE DEF removed
  <1>12. \A f \in left \ {freed.last} :
             NextContiguousBlock(removed, f) = NextContiguousBlock(freed, f)
    <2> SUFFICES ASSUME NEW f \in left \ {freed.last}
                 PROVE  NextContiguousBlock(removed, f) = NextContiguousBlock(freed, f)
      OBVIOUS
    <2>1. f \in Nat
      BY <1>9 DEF SoundHeap
    <2> QED  BY <1>3, <1>11, <2>1, EndsAre
  <1>13. FreedSoundly(heap, removed, left \ {freed.last}, held, block)
    BY <1>6, <1>9, <1>11, <1>12 DEF FreedSoundly
  <1> QED  BY <1>8, <1>13

LEMMA FreeingKeepsTypes ==
  ASSUME TypeOK, NEW block \in DOMAIN live, my_free(block)
  PROVE  TypeOK' /\ live' = [b \in DOMAIN live \ {block} |-> live[b]]
  <1> DEFINE freed == Freed(heap, block)
             lowered == Lowered(freed)
             removed == FreeBlockList_remove(lowered, freed.last)
  <1>1. /\ heap' = freed \/ heap' = removed \/ heap' = [removed EXCEPT !.fault = TRUE]
        /\ live' = [b \in DOMAIN live \ {block} |-> live[b]]
        /\ faults' \subseteq faults \cup {"stale", "cut"}
        /\ allocationPolicy' = allocationPolicy
    BY DEF my_free, my_free_Keeps, my_free_Shrinks
  <1>2. freed \in Heaps
    BY FreeingIsTyped DEF TypeOK
  <1> HIDE DEF freed
  <1>3. lowered \in Heaps
    BY <1>2, LoweringIsTyped
  <1> HIDE DEF lowered
  <1>4. removed \in Heaps
    BY <1>3, RemovingIsTyped
  <1> HIDE DEF removed
  <1>5. heap' \in Heaps
    BY <1>1, <1>2, <1>4, VariablesAreTyped
  <1> QED  BY <1>1, <1>5 DEF TypeOK

LEMMA FreeingJoins ==
  ASSUME IndInv, NEW block \in DOMAIN live, my_free(block), faults' = {},
         heap.fault' => ~ReadsReleased(Freed(heap, block))
  PROVE  \E left : FreedSoundly(heap, heap', left, DOMAIN live, block)
  BY KeepingJoins, ShrinkingJoins DEF my_free

LEMMA FreeingStepIsSound ==
  ASSUME IndInv, NEW block \in DOMAIN live, my_free(block)
  PROVE  IndInv'
  <1>1. TypeOK' /\ live' = [b \in DOMAIN live \ {block} |-> live[b]]
    BY FreeingKeepsTypes DEF IndInv
  <1>2. ASSUME Faultless'
        PROVE  /\ \E free : SoundHeap(heap', free, DOMAIN live')
               /\ \A b \in DOMAIN live' : live'[b] <= InternalSize(heap', b)
    <2>1. PICK left : FreedSoundly(heap, heap', left, DOMAIN live, block)
      BY <1>2, FreeingJoins DEF Faultless
    <2>2. Faultless
      BY <1>2 DEF Faultless, my_free, my_free_Keeps, my_free_Shrinks, Running
    <2>3. \A b \in DOMAIN live : live[b] <= InternalSize(heap, b)
      BY <2>2 DEF IndInv
    <2> QED  BY <1>1, <2>1, <2>3 DEF FreedSoundly
  <1> QED  BY <1>1, <1>2, IndInvFromHeap

LEMMA StepIsSound == IndInv /\ [Next]_vars => IndInv'
  <1> SUFFICES ASSUME IndInv, [Next]_vars PROVE IndInv'
    OBVIOUS
  <1>1. ASSUME NEW size \in Requests, my_malloc(size) PROVE IndInv'
    BY <1>1, FailingIsSound, SucceedingIsSound DEF my_malloc
  <1>2. ASSUME NEW block \in DOMAIN live, my_free(block) PROVE IndInv'
    BY <1>2, FreeingStepIsSound
  <1>3. ASSUME NEW policy \in 0 .. 2, my_mallopt(policy) PROVE IndInv'
    <2>1. heap' = heap /\ live' = live /\ faults' = faults
      BY <1>3 DEF my_mallopt
    <2>2. allocationPolicy' \in {BEST_FIT_POLICY, FIRST_FIT_POLICY}
      BY <1>3 DEF my_mallopt
    <2>3. TypeOK'
      BY <2>1, <2>2 DEF IndInv, TypeOK
    <2> QED  BY <2>1, <2>3 DEF IndInv, Faultless, FreeSet
  <1>4. CASE UNCHANGED vars
    BY <1>4 DEF vars, IndInv, TypeOK, Faultless, FreeSet
  <1> QED  BY <1>1, <1>2, <1>3, <1>4 DEF Next

-----------------------------------------------------------------------------
\* The theorems.

\* Until its first fault the allocator's heap is sound, whatever the sizes of the headers,
\* the heap and the requests are: its blocks tile it, its free list has the blocks that
\* nobody holds in order, and every block that is held is as large as was asked for.
THEOREM MallocInvariant == Spec => []IndInv
  <1> QED  BY InitIsSound, StepIsSound, PTL DEF Spec

\* No call of my_malloc, my_free and my_mallopt leaves a variable or a word of memory
\* without its type, faults or not.
THEOREM MallocIsTyped == Spec => []TypeOK
  <1>1. IndInv => TypeOK
    BY DEF IndInv
  <1> QED  BY <1>1, MallocInvariant, PTL

\* Every address between the first program break and the present one is in one block, free
\* or held, until the first fault: my_malloc gives away no address twice and my_free
\* forgets none.
THEOREM MallocTilesTheHeap == Spec => []BlocksTileTheHeap
  <1>1. IndInv => BlocksTileTheHeap
    <2> SUFFICES ASSUME IndInv, Faultless
                 PROVE  /\ FreeSet \cap DOMAIN live = {}
                        /\ \A a \in Base .. heap.top - 1 :
                               Cardinality({b \in FreeSet \cup DOMAIN live :
                                                a \in Extent(b)}) = 1
                        /\ \A b \in FreeSet \cup DOMAIN live :
                               Extent(b) \subseteq Base .. heap.top - 1
      BY DEF BlocksTileTheHeap
    <2> DEFINE blocks == FreeSet \cup DOMAIN live
    <2>1. heap \in Heaps /\ SoundHeap(heap, FreeSet, DOMAIN live)
      BY DEF IndInv, TypeOK
    <2>2. PICK end : EndsOf(heap, FreeSet, DOMAIN live, end)
      BY <2>1, SoundEnds
    <2>3. blocks \in SUBSET Nat /\ heap.top \in Nat
      BY <2>1, SoundIsWellPlaced DEF WellPlaced
    <2>4. FreeSet \cap DOMAIN live = {}
      BY <2>1 DEF SoundHeap
    <2>5. Tiling(blocks, end, heap.top) /\ \A b \in blocks : end[b] \in Nat
      BY <2>2 DEF EndsOf
    <2>6. \A b \in blocks : Extent(b) = b .. end[b] - 1
      <3> SUFFICES ASSUME NEW b \in blocks PROVE Extent(b) = b .. end[b] - 1
        OBVIOUS
      <3>1. b \in Int
        BY <2>3
      <3>2. CASE b \in FreeSet
        <4>1. end[b] = b + EMPTY_DATA_OFFSET + InternalSize(heap, b)
          BY <2>2, <3>2 DEF EndsOf
        <4>2. NextContiguousBlock(heap, b) = end[b]
          BY <2>1, <3>1, <4>1, EndsAre
        <4>3. b + ExternalSize(heap, b) = end[b]
          BY <4>2 DEF NextContiguousBlock
        <4>4. Extent(b) = b .. b + ExternalSize(heap, b) - 1
          BY <3>2 DEF Extent
        <4>5. ExternalSize(heap, b) \in Int /\ end[b] \in Int
          BY <2>1, <2>5, HeadersAreTyped
        <4> QED  BY <3>1, <4>3, <4>4, <4>5
      <3>3. CASE b \notin FreeSet
        <4>1. end[b] = b + PUBLIC_POINTER_OFFSET + InternalSize(heap, b)
          BY <2>2, <3>3 DEF EndsOf
        <4>2. BlockEnd(heap, b) = end[b]
          BY <2>1, <3>1, <4>1, EndsAre
        <4> QED  BY <3>3, <4>2 DEF Extent
      <3> QED  BY <3>2, <3>3
    <2>7. \A b \in blocks : Extent(b) \subseteq Base .. heap.top - 1
      <3>1. \A b \in blocks : b \in Nat /\ Base <= b /\ end[b] <= heap.top /\ end[b] \in Nat
        BY <2>3, <2>5 DEF Tiling
      <3> QED  BY <2>3, <2>6, <3>1, Offsets
    <2> HIDE DEF blocks
    <2>8. ASSUME NEW a \in Base .. heap.top - 1
          PROVE  Cardinality({b \in blocks : a \in Extent(b)}) = 1
      <3>1. PICK x \in blocks : /\ x <= a /\ a < end[x]
                                /\ \A c \in blocks : c <= a /\ a < end[c] => c = x
        BY <2>3, <2>5, TilingCovers
      <3>2. a \in Int
        BY <2>3, Offsets
      <3>3. \A c \in blocks : a \in Extent(c) <=> c <= a /\ a < end[c]
        <4>1. \A c \in blocks : c \in Nat /\ end[c] \in Nat
          BY <2>3, <2>5
        <4> QED  BY <2>6, <3>2, <4>1
      <3>4. {b \in blocks : a \in Extent(b)} = {x}
        BY <3>1, <3>3
      <3> QED  BY <3>4, FS_Singleton
    <2> QED  BY <2>4, <2>7, <2>8 DEF blocks
  <1> QED  BY <1>1, MallocInvariant, PTL

\* Until the first fault every block that is held is as large as its caller asked for and has
\* room for the header it gets when it is freed.
THEOREM MallocBlocksAreLargeEnough == Spec => []BlocksAreLargeEnough
  <1>1. IndInv => BlocksAreLargeEnough
    <2> SUFFICES ASSUME IndInv, Faultless, NEW b \in DOMAIN live
                 PROVE  InternalSize(heap, b) >= live[b] /\ InternalSize(heap, b) >= sizeDiff
      BY DEF BlocksAreLargeEnough
    <2>1. /\ heap \in Heaps /\ SoundHeap(heap, FreeSet, DOMAIN live)
          /\ live[b] <= InternalSize(heap, b) /\ live[b] \in Requests
      BY DEF IndInv, TypeOK
    <2>2. InternalSize(heap, b) >= sizeDiff
      BY <2>1 DEF SoundHeap
    <2>3. InternalSize(heap, b) \in Int /\ live[b] \in Nat
      BY <2>1, HeadersAreTyped, RequestsAssumption
    <2> QED  BY <2>1, <2>2, <2>3
  <1> QED  BY <1>1, MallocInvariant, PTL

\* The free list as a sequence: in the order of the addresses, and lastFreeBlock is its end.
SortedList(h) ==
    LET list == FreeBlocks(h)
    IN  /\ WalkEnds(h)
        /\ \A i \in 1 .. Len(list) - 1 : list[i] < list[i + 1]
        /\ h.last = IF list = <<>> THEN NULL ELSE Last(list)

LEMMA ListIsInOrder ==
  ASSUME NEW h \in Heaps, NEW free, NEW held, SoundHeap(h, free, held)
  PROVE  SortedList(h)
  <1> DEFINE at == Walk(h)
             list == FreeBlocks(h)
  <1>1. Roomy(h, free) /\ Linked(h, free) /\ NULL \notin free
    BY SoundIsWellPlaced DEF WellPlaced, SoundHeap
  <1>2. /\ \A k \in 1 .. MaxBlocks + 1 : at[k] = NULL \/ at[k] \in free
        /\ \A k \in 1 .. MaxBlocks : at[k] # NULL /\ at[k + 1] # NULL => at[k] < at[k + 1]
        /\ WalkEnds(h)
    BY <1>1, WalkStaysInList
  <1>3. PICK m \in 0 .. MaxBlocks + 1 : {k \in 1 .. MaxBlocks + 1 : at[k] # NULL} = 1 .. m
    BY WalkFillsABeginning
  <1>4. /\ DOMAIN at = 1 .. MaxBlocks + 1
        /\ \A k \in 1 .. MaxBlocks + 1 :
               at[k] = IF k = 1 THEN h.first ELSE IF at[k - 1] = NULL THEN NULL
                       ELSE NextOf(h, at[k - 1])
    BY WalkUnfolds
  <1>5. MaxBlocks \in Nat
    BY BlocksThatFit
  <1>6. at[MaxBlocks + 1] = NULL
    BY <1>2 DEF WalkEnds
  <1> HIDE DEF at
  <1>7. list = [k \in 1 .. m |-> at[k]]
    <2>1. list = [k \in {n \in DOMAIN at : at[n] # NULL} |-> at[k]]
      BY DEF FreeBlocks, at
    <2> QED  BY <1>3, <1>4, <2>1
  <1> HIDE DEF list
  <1>8. \A k \in 1 .. m : k \in 1 .. MaxBlocks + 1 /\ at[k] # NULL /\ at[k] \in free
    BY <1>2, <1>3
  <1>9. m \in Nat /\ m <= MaxBlocks
    <2>1. m # MaxBlocks + 1
      BY <1>3, <1>5, <1>6
    <2> QED  BY <1>5, <2>1
  <1>10. at[m + 1] = NULL
    <2>1. m + 1 \in 1 .. MaxBlocks + 1 /\ m + 1 \notin 1 .. m
      BY <1>5, <1>9
    <2> QED  BY <1>3, <2>1
  <1>11. list \in Seq(free) /\ Len(list) = m
    <2>1. \A k \in 1 .. m : at[k] \in free
      BY <1>8
    <2> QED  BY <1>7, <1>9, <2>1
  <1>12. \A i \in 1 .. Len(list) - 1 : list[i] < list[i + 1]
    <2> SUFFICES ASSUME NEW i \in 1 .. m - 1 PROVE list[i] < list[i + 1]
      BY <1>11
    <2>1. i \in 1 .. m /\ i + 1 \in 1 .. m /\ i \in 1 .. MaxBlocks
      BY <1>5, <1>9
    <2>2. at[i] < at[i + 1]
      BY <1>2, <1>8, <2>1
    <2> QED  BY <1>7, <2>1, <2>2
  <1>13. h.last = IF list = <<>> THEN NULL ELSE Last(list)
    <2>1. CASE m = 0
      <3>1. list = <<>>
        BY <1>11, <2>1
      <3>2. h.first = NULL
        BY <1>4, <1>5, <1>10, <2>1
      <3>3. h.last = NULL
        BY <1>1, <3>2 DEF Linked
      <3> QED  BY <3>1, <3>3
    <2>2. CASE m # 0
      <3>1. m \in 1 .. m /\ m + 1 \in 1 .. MaxBlocks + 1 /\ m + 1 # 1 /\ (m + 1) - 1 = m
        BY <1>5, <1>9, <2>2
      <3>2. NextOf(h, at[m]) = NULL /\ at[m] \in free
        BY <1>4, <1>8, <1>10, <3>1
      <3>3. at[m] = h.last
        BY <1>1, <3>2 DEF Linked
      <3>4. list # <<>> /\ Last(list) = at[m]
        BY <1>7, <1>11, <2>2, <3>1 DEF Last
      <3> QED  BY <3>3, <3>4
    <2> QED  BY <2>1, <2>2
  <1> QED  BY <1>2, <1>12, <1>13 DEF SortedList, list

\* Until the first fault the free list is in the order of the addresses, ends, and ends with
\* lastFreeBlock: what insert, remove, the merges and the growth of the heap each keep.
THEOREM MallocListIsSorted == Spec => []ListIsSorted
  <1>1. IndInv => ListIsSorted
    <2> SUFFICES ASSUME IndInv, Faultless PROVE SortedList(heap)
      BY DEF ListIsSorted, SortedList
    <2>1. heap \in Heaps /\ SoundHeap(heap, FreeSet, DOMAIN live)
      BY DEF IndInv, TypeOK
    <2> QED  BY <2>1, ListIsInOrder
  <1> QED  BY <1>1, MallocInvariant, PTL

\* A block that is freed has joined the free blocks right before it and right after it, until
\* the first fault: mergeContiguousBlocks leaves no seam at either end of it.
THEOREM MallocFreeingMerges == Spec => FreeingMerges
  <1> DEFINE Merges == \A b \in DOMAIN live \ DOMAIN live' : \A a \in {b, BlockEnd(heap, b)} :
                           Faultless' => ~MeetAt(a)'
  <1>1. IndInv /\ [Next]_vars => [Merges]_vars
    <2> SUFFICES ASSUME IndInv, Next, Faultless',
                        NEW b \in DOMAIN live \ DOMAIN live', NEW a \in {b, BlockEnd(heap, b)}
                 PROVE  ~MeetAt(a)'
      OBVIOUS
    <2>1. CASE my_free(b)
      <3>1. PICK left : FreedSoundly(heap, heap', left, DOMAIN live, b)
        BY <2>1, FreeingJoins DEF Faultless
      <3>2. FreeSet' = left
        <4>1. ToSet(FreeBlocks(heap')) = left
          BY <3>1, FreeSetIs DEF FreedSoundly
        <4> QED  BY <4>1 DEF FreeSet
      <3>3. ~\E f, g \in left : g = a /\ NextContiguousBlock(heap', f) = g
        BY <3>1 DEF FreedSoundly
      <3> QED  BY <3>2, <3>3 DEF MeetAt
    <2>2. ASSUME NEW size \in Requests, my_malloc_Succeeds(size) PROVE FALSE
      <3>1. Faultless
        <4>1. ~heap.fault
          BY <2>2 DEF my_malloc_Succeeds, Running
        <4>2. faults \subseteq faults'
          BY <2>2 DEF my_malloc_Succeeds
        <4> QED  BY <4>1, <4>2 DEF Faultless
      <3>2. NULL \notin DOMAIN live
        <4>1. heap \in Heaps /\ SoundHeap(heap, FreeSet, DOMAIN live)
          BY <3>1 DEF IndInv, TypeOK
        <4> QED  BY <4>1, SoundIsWellPlaced DEF WellPlaced
      <3>3. DOMAIN live \subseteq DOMAIN live'
        BY <2>2, <3>2 DEF my_malloc_Succeeds
      <3> QED  BY <3>3
    <2>3. ASSUME NEW size \in Requests, my_malloc_Fails(size) PROVE FALSE
      BY <2>3 DEF my_malloc_Fails
    <2>4. ASSUME NEW policy \in 0 .. 2, my_mallopt(policy) PROVE FALSE
      BY <2>4 DEF my_mallopt
    <2>5. ASSUME NEW block \in DOMAIN live, my_free(block), block # b PROVE FALSE
      BY <2>5 DEF my_free, my_free_Keeps, my_free_Shrinks
    <2> QED  BY <2>1, <2>2, <2>3, <2>4, <2>5 DEF Next, my_malloc
  <1> QED  BY <1>1, MallocInvariant, PTL DEF Spec, FreeingMerges

\* Until a stale prev pointer was followed or the heap cut under a held block, every call
\* stays in the heap, for any sizes, but for my_free's read of the block it has given back.
THEOREM MallocStaysInTheHeap == Spec => StaysInTheHeap
  <1> DEFINE Leaves == \E block \in DOMAIN live \ DOMAIN live' :
                           ReadsReleased(Freed(heap, block))
             Stays == heap.fault' /\ faults' = {} => Leaves
  <1>1. IndInv /\ [Next]_vars => [Stays]_vars
    <2> SUFFICES ASSUME IndInv, Next, heap.fault', faults' = {} PROVE Leaves
      OBVIOUS
    <2>1. ASSUME NEW size \in Requests, my_malloc(size) PROVE FALSE
      BY <2>1, FailingIsSound, SucceedingIsSound DEF my_malloc
    <2>2. ASSUME NEW block \in DOMAIN live, my_free(block) PROVE Leaves
      <3>1. block \in DOMAIN live \ DOMAIN live'
        BY <2>2, FreeingKeepsTypes DEF IndInv
      <3>2. CASE ReadsReleased(Freed(heap, block))
        BY <3>1, <3>2
      <3>3. CASE ~ReadsReleased(Freed(heap, block))
        <4>1. PICK left : FreedSoundly(heap, heap', left, DOMAIN live, block)
          BY <2>2, <3>3, FreeingJoins
        <4> QED  BY <4>1 DEF FreedSoundly, SoundHeap
      <3> QED  BY <3>2, <3>3
    <2>3. ASSUME NEW policy \in 0 .. 2, my_mallopt(policy) PROVE FALSE
      BY <2>3 DEF my_mallopt, Running
    <2> QED  BY <2>1, <2>2, <2>3 DEF Next
  <1> QED  BY <1>1, MallocInvariant, PTL DEF Spec, StaysInTheHeap
===============================================================================
