------------------------------- MODULE Malloc -------------------------------
(***************************************************************************)
(* The public functions of assignment 4's allocator (malloc/malloc.c):     *)
(* my_malloc, my_free and my_mallopt, called one after another by a        *)
(* program that frees only what it was given, and once.  FreeBlockList has *)
(* the memory and the list.                                                *)
(*                                                                         *)
(* What a caller writes in its block is left out: nothing reads it as long *)
(* as no stale pointer is followed.  A size that is not positive and a     *)
(* NULL pointer only set my_malloc_error and are left out as well.         *)
(***************************************************************************)
EXTENDS FreeBlockList

CONSTANTS Requests,         \* the sizes the program asks for
          GROW_EXTRA,       \* the 64 of grow_heap_size
          SHRINK_THRESHOLD, \* the 128000 of my_free
          StopAtFault       \* bound: no call after the first fault

ASSUME RequestsAssumption == /\ Requests \subseteq Nat \ {0}
                             /\ GROW_EXTRA \in Nat
                             /\ SHRINK_THRESHOLD \in Nat

BEST_FIT_POLICY  == 1
FIRST_FIT_POLICY == 0

VARIABLES heap,              \* memory and the allocator's variables
          allocationPolicy,
          live,              \* history: the blocks the program holds, by
                             \* address, and the size it asked for
          faults             \* history: what went wrong in the allocator

vars == <<heap, allocationPolicy, live, faults>>

Init == /\ heap = EmptyHeap
        /\ allocationPolicy = FIRST_FIT_POLICY
        /\ live = <<>>
        /\ faults = {}

Running == /\ ~heap.fault /\ WalkEnds(heap)
           /\ StopAtFault => faults = {}

-----------------------------------------------------------------------------
\* Growing.

grow_heap_size(h, size) ==
    LET freeBlockSize == size * 2 + GROW_EXTRA
        started == IF h.heap_end = NULL THEN [h EXCEPT !.heap_end = h.top] ELSE h
        newTop  == h.top + externalSizeOfFreeBlock(freeBlockSize)
        moved   == [started EXCEPT !.top = newTop, !.my_brk = h.top]
    IN  IF newTop > HeapLimit
        THEN [heap |-> started, grown |-> FALSE]
        ELSE [heap |-> FreeBlockList_insert(
                           FreeBlock_construct(moved, h.top, freeBlockSize,
                                               NULL, NULL), h.top),
              grown |-> TRUE]

\* A little is added to every request, so that the block can hold a free
\* block's header when it is freed.
Padded_ByTooLittle(size) == size
Padded(size) == size + 2 * PTR_SIZE + 1

Grown_WhenEmpty(h, size) ==
    IF h.my_brk = NULL \/ h.first = NULL THEN grow_heap_size(h, size)
                                          ELSE [heap |-> h, grown |-> TRUE]
Grown(h, size) ==
    IF h.my_brk = NULL \/ h.first = NULL \/ getLargestBlockSize(h) < size
    THEN grow_heap_size(h, size)
    ELSE [heap |-> h, grown |-> TRUE]

Available(h, size) ==
    IF allocationPolicy = BEST_FIT_POLICY
    THEN getSmallestAvailable(h, externalSizeOfUnfreeBlock(size))
    ELSE getFirstAvailable(h, externalSizeOfUnfreeBlock(size))

\* The list as its next pointers have it, and the prev pointer that agrees.
ListPrev(h, b) == LET before == {a \in ToSet(FreeBlocks(h)) : NextOf(h, a) = b}
                  IN  IF before = {} THEN NULL ELSE Min(before)

\* FreeBlockList_remove(h, b) would follow a prev pointer that a merge left
\* behind.
FollowsStalePrev(h, b) == /\ h.first # h.last /\ b # h.first
                          /\ PrevOf(h, b) # ListPrev(h, b)

-----------------------------------------------------------------------------
\* my_malloc.

my_malloc_Fails(size) ==
    LET grown == Grown(heap, Padded(size))
    IN  /\ Running
        /\ ~grown.grown
        /\ heap' = grown.heap
        /\ UNCHANGED <<allocationPolicy, live, faults>>

my_malloc_Succeeds(size) ==
    LET padded == Padded(size)
        grown  == Grown(heap, padded)
        found  == Available(grown.heap, padded)
        new    == FreeBlock_split(grown.heap, found, padded)
    IN  /\ Running
        /\ grown.grown
        /\ heap' = new.heap
        /\ live' = IF new.heap.fault THEN live
                   ELSE [b \in DOMAIN live \cup {new.block} |->
                            IF b = new.block THEN size ELSE live[b]]
        /\ faults' = IF new.block = found /\ FollowsStalePrev(grown.heap, found)
                     THEN faults \cup {"stale"} ELSE faults
        /\ UNCHANGED allocationPolicy

my_malloc(size) == my_malloc_Fails(size) \/ my_malloc_Succeeds(size)

-----------------------------------------------------------------------------
\* my_free.

Freed(h, block) ==
    LET constructed == FreeBlock_construct(h, block,
                           InternalSize(h, block) - sizeDiff, NULL, NULL)
    IN  mergeContiguousBlocks(FreeBlockList_insert(constructed, block), block)

ShrinksHeap(h) == /\ h.last # NULL
                  /\ ExternalSize(h, h.last) > SHRINK_THRESHOLD
                  /\ h.last = h.my_brk

\* The heap is cut by the size of the last free block, wherever it lies.
Lowered(h) == LET newTop == h.top - ExternalSize(h, h.last)
              IN  [h EXCEPT !.top = newTop, !.my_brk = newTop]

\* The block is removed from the list after its memory is given back: when the
\* list has another block its prev pointer is read there, which may work.
ReadsReleased(h) == /\ ShrinksHeap(h) /\ h.first # h.last
                    /\ ~Mapped(Lowered(h), h.last + PREV_POINTER_OFFSET)

BlockEnd(h, b) == b + externalSizeOfUnfreeBlock(InternalSize(h, b))

my_free_Keeps(block) ==
    LET freed == Freed(heap, block)
    IN  /\ Running
        /\ ~ShrinksHeap(freed)
        /\ heap' = freed
        /\ live' = [b \in DOMAIN live \ {block} |-> live[b]]
        /\ UNCHANGED <<allocationPolicy, faults>>

my_free_Shrinks(block) ==
    LET freed   == Freed(heap, block)
        lowered == Lowered(freed)
        removed == FreeBlockList_remove(lowered, freed.last)
        held    == DOMAIN live \ {block}
    IN  /\ Running
        /\ ShrinksHeap(freed)
        /\ \/ heap' = removed
           \/ ReadsReleased(freed) /\ heap' = [removed EXCEPT !.fault = TRUE]
        /\ live' = [b \in held |-> live[b]]
        /\ faults' = faults
               \cup (IF FollowsStalePrev(freed, freed.last) THEN {"stale"} ELSE {})
               \cup (IF \E b \in held : BlockEnd(heap, b) > lowered.top
                     THEN {"cut"} ELSE {})
        /\ UNCHANGED allocationPolicy

my_free(block) == my_free_Keeps(block) \/ my_free_Shrinks(block)

my_mallopt_Unchecked(policy) == /\ Running
                                /\ allocationPolicy' = policy
                                /\ UNCHANGED <<heap, live, faults>>

\* Any policy but best fit is taken as first fit.
my_mallopt(policy) ==
    /\ Running
    /\ allocationPolicy' = IF policy = BEST_FIT_POLICY THEN BEST_FIT_POLICY
                                                       ELSE FIRST_FIT_POLICY
    /\ UNCHANGED <<heap, live, faults>>

Next == \/ \E size \in Requests : my_malloc(size)
        \/ \E block \in Addresses : block \in DOMAIN live /\ my_free(block)
        \/ \E policy \in 0 .. 2 : my_mallopt(policy)

Spec == Init /\ [][Next]_vars

-----------------------------------------------------------------------------
\* Properties.

TypeOK == /\ heap \in Heaps
          /\ allocationPolicy \in {BEST_FIT_POLICY, FIRST_FIT_POLICY}
          /\ DOMAIN live \subseteq Int
          /\ \A b \in DOMAIN live : live[b] \in Requests
          /\ faults \subseteq {"stale", "cut"}

\* The addresses a block takes up: the caller's part and the size before it.
Held(asked, b) == b .. b + externalSizeOfUnfreeBlock(asked[b]) - 1

\* "Check that none of the values have been corrupted by subsequent
\* my_malloc() calls" (README.txt): my_malloc returns memory that nobody holds.
ReturnsFreshMemory ==
    [][\A new \in DOMAIN live' \ DOMAIN live, b \in DOMAIN live :
           Held(live', new) \cap Held(live, b) = {}]_vars

\* "Finally, I test that growing and then shrinking the heap doesn't break
\* anything" (README.txt): the memory a caller holds stays in the heap.
LiveBlocksStayInHeap ==
    \A b \in DOMAIN live : Held(live, b) \subseteq Base .. heap.top - 1

\* Until the allocator has gone wrong in one of these ways:
Faultless == faults = {} /\ ~heap.fault

\* every address of the heap is in one block, free or held, and no block
\* reaches past the heap;
FreeSet == ToSet(FreeBlocks(heap))
Extent(b) == IF b \in FreeSet THEN b .. b + ExternalSize(heap, b) - 1
                              ELSE b .. BlockEnd(heap, b) - 1
BlocksTileTheHeap ==
    Faultless => /\ FreeSet \cap DOMAIN live = {}
                 /\ \A a \in Base .. heap.top - 1 :
                        Cardinality({b \in FreeSet \cup DOMAIN live :
                                         a \in Extent(b)}) = 1
                 /\ \A b \in FreeSet \cup DOMAIN live :
                        Extent(b) \subseteq Base .. heap.top - 1

\* every block is as large as its caller asked for, and large enough to be
\* freed: a free block's header fits in it;
BlocksAreLargeEnough ==
    Faultless => \A b \in DOMAIN live :
                     /\ InternalSize(heap, b) >= live[b]
                     /\ InternalSize(heap, b) >= sizeDiff

\* the free list is in the order of the addresses, from first to last;
ListIsSorted ==
    Faultless =>
        LET list == FreeBlocks(heap)
        IN  /\ WalkEnds(heap)
            /\ \A i \in 1 .. Len(list) - 1 : list[i] < list[i + 1]
            /\ heap.last = IF list = <<>> THEN NULL ELSE Last(list)

\* and a freed block has joined the free blocks that lie right before it and right
\* after it ("if they are contiguous, then I merge them", README.txt).  What has
\* become one block may lie next to another free one still: grow_heap_size does
\* not merge the block it adds.
MeetAt(a) == \E f, g \in FreeSet : g = a /\ NextContiguousBlock(heap, f) = g
FreeingMerges ==
    [][\A b \in DOMAIN live \ DOMAIN live' : \A a \in {b, BlockEnd(heap, b)} :
           Faultless' => ~MeetAt(a)']_vars

\* Until a stale prev pointer was followed or the heap cut under a held block, no
\* call follows a pointer out of the heap or through NULL, also when the heap
\* fills up and shrinks, but for one read: that of the block which my_free has
\* just given back.
StaysInTheHeap ==
    [][heap.fault' /\ faults' = {} =>
          \E block \in DOMAIN live \ DOMAIN live' :
              ReadsReleased(Freed(heap, block))]_vars

-----------------------------------------------------------------------------
\* The inductive invariant.

EndOf(h, free, b) == IF b \in free THEN NextContiguousBlock(h, b)
                                   ELSE BlockEnd(h, b)

\* Blocks with these ends follow one another from Base to top.
Tiling(blocks, end, top) ==
    /\ top = Base \/ Base \in blocks
    /\ \A b \in blocks : /\ Base <= b /\ b < end[b] /\ end[b] <= top
                         /\ end[b] = top \/ end[b] \in blocks
                         /\ \A c \in blocks : b < c => end[b] <= c

\* The list has the free blocks in the order of their addresses; what their prev
\* pointers are is left open.
Linked(h, free) ==
    /\ free = {} => h.first = NULL /\ h.last = NULL
    /\ free # {} => h.first \in free /\ h.last \in free
    /\ \A b \in free :
           /\ h.first <= b /\ b <= h.last
           /\ b = h.last => NextOf(h, b) = NULL
           /\ b # h.last => /\ NextOf(h, b) \in free /\ b < NextOf(h, b)
                            /\ \A c \in free : c <= b \/ NextOf(h, b) <= c

SoundHeap(h, free, held) ==
    /\ h.top \in Base .. HeapLimit /\ ~h.fault
    /\ free \cup held \subseteq Nat /\ free \cap held = {}
    /\ \A b \in free : InternalSize(h, b) >= 0
    /\ \A b \in held : InternalSize(h, b) >= sizeDiff
    /\ Tiling(free \cup held, [b \in free \cup held |-> EndOf(h, free, b)], h.top)
    /\ Linked(h, free)

IndInv == /\ TypeOK
          /\ Faultless => /\ SoundHeap(heap, FreeSet, DOMAIN live)
                          /\ \A b \in DOMAIN live : live[b] <= InternalSize(heap, b)
=============================================================================
