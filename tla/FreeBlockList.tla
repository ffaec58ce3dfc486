--------------------------- MODULE FreeBlockList ---------------------------
(***************************************************************************)
(* The free list of assignment 4's allocator (malloc/structs and the       *)
(* private functions of malloc/malloc.c) as operators on a heap: what each *)
(* function of the code leaves in memory.                                  *)
(*                                                                         *)
(* A heap h is a record:                                                   *)
(*   word   what the memory at each address holds: a size or an address    *)
(*   first  firstFreeBlock                                                 *)
(*   last   lastFreeBlock                                                  *)
(*   my_brk, heap_end   the code's variables of these names                *)
(*   top    the program break: addresses from heap_end below it exist      *)
(*   fault  an access outside the heap has killed the program              *)
(* A free block starts with its size, prev and next; an allocated one with *)
(* its size, and its caller's data lie where prev and next were.           *)
(***************************************************************************)
EXTENDS Integers, Sequences, SequencesExt, FiniteSetsExt

CONSTANTS INT_SIZE, PTR_SIZE,  \* sizeof(int) and sizeof(void*)
          Base,                \* the program break before the first call
          HeapLimit            \* bound: sbrk fails past this address

\* The scale of the addresses is free; INT_SIZE = PTR_SIZE on the machine the
\* program was written for, where EMPTY_DATA_OFFSET is 12 and sizeDiff 8.  The
\* header of a block at NULL lies below the heap: to write it kills the program.
ASSUME SizesAssumption == /\ INT_SIZE \in Nat \ {0} /\ PTR_SIZE \in Nat \ {0}
                          /\ Base \in Nat /\ HeapLimit \in Nat
                          /\ INT_SIZE + PTR_SIZE < Base /\ Base < HeapLimit

NULL == 0
Addresses == Base .. HeapLimit + INT_SIZE + 2 * PTR_SIZE

PREV_POINTER_OFFSET   == INT_SIZE
NEXT_POINTER_OFFSET   == INT_SIZE + PTR_SIZE
EMPTY_DATA_OFFSET     == INT_SIZE + 2 * PTR_SIZE
PUBLIC_POINTER_OFFSET == INT_SIZE

externalSizeOfFreeBlock(innerSize)      == EMPTY_DATA_OFFSET + innerSize
externalSizeOfUnfreeBlock(internalSize) == PUBLIC_POINTER_OFFSET + internalSize
sizeDiff == externalSizeOfFreeBlock(0) - externalSizeOfUnfreeBlock(0)

Heaps == [word : [Addresses -> Int], first : Int, last : Int,
          my_brk : Int, heap_end : Int, top : Int, fault : BOOLEAN]

EmptyHeap == [word |-> [a \in Addresses |-> 0], first |-> NULL, last |-> NULL,
              my_brk |-> NULL, heap_end |-> NULL, top |-> Base,
              fault |-> FALSE]

-----------------------------------------------------------------------------
\* Memory.

Mapped(h, a) == Base <= a /\ a < h.top
Load(h, a)   == IF a \in Addresses THEN h.word[a] ELSE 0
Store(h, a, v) == IF Mapped(h, a) THEN [h EXCEPT !.word[a] = v]
                                  ELSE [h EXCEPT !.fault = TRUE]

InternalSize(h, b) == Load(h, b)
ExternalSize(h, b) == externalSizeOfFreeBlock(InternalSize(h, b))
PrevOf(h, b) == Load(h, b + PREV_POINTER_OFFSET)
NextOf(h, b) == Load(h, b + NEXT_POINTER_OFFSET)
NextContiguousBlock(h, b) == b + ExternalSize(h, b)

setInternalSize(h, b, size) == Store(h, b, size)
setPrev(h, b, v) == Store(h, b + PREV_POINTER_OFFSET, v)
setNext(h, b, v) == Store(h, b + NEXT_POINTER_OFFSET, v)
FreeBlock_construct(h, b, size, prev, next) ==
    setNext(setPrev(setInternalSize(h, b, size), b, prev), b, next)

-----------------------------------------------------------------------------
\* Walking the list: from first along the next pointers.

\* A block takes at least EMPTY_DATA_OFFSET addresses, so a walk that passes
\* more of them than fit never ends: the code's loops end at NULL only.
MaxBlocks == HeapLimit \div EMPTY_DATA_OFFSET
Walk(h) ==
    LET at[k \in 1 .. MaxBlocks + 1] ==
            IF k = 1 THEN h.first
            ELSE IF at[k - 1] = NULL THEN NULL ELSE NextOf(h, at[k - 1])
    IN  at
FreeBlocks(h) == LET at == Walk(h)
                 IN  [k \in {n \in DOMAIN at : at[n] # NULL} |-> at[k]]
WalkEnds(h) == Walk(h)[MaxBlocks + 1] = NULL

getLargestBlockSize(h) ==
    Max({0} \cup {InternalSize(h, b) : b \in ToSet(FreeBlocks(h))})

\* The first block of the list that is in a set; NULL if none is.
FirstIn(h, blocks) ==
    LET list == FreeBlocks(h)
        spots == {k \in DOMAIN list : list[k] \in blocks}
    IN  IF spots = {} THEN NULL ELSE list[Min(spots)]

BigEnough(h, externalSize) ==
    {b \in ToSet(FreeBlocks(h)) : ExternalSize(h, b) >= externalSize}

getFirstAvailable(h, externalSize) == FirstIn(h, BigEnough(h, externalSize))

\* The first in the list of those of the smallest size.
getSmallestAvailable(h, externalSize) ==
    LET fits == BigEnough(h, externalSize)
    IN  FirstIn(h, {b \in fits : \A c \in fits :
                                   ExternalSize(h, b) <= ExternalSize(h, c)})

-----------------------------------------------------------------------------
\* Merging.  Neither function updates the prev pointer of the block that now
\* follows the merged one.

\* The block at a absorbs the block at b that follows it.
Absorb(h, a, b) ==
    LET linked == setNext(h, a, NextOf(h, b))
        grown  == setInternalSize(linked, a,
                      InternalSize(linked, a)
                        + externalSizeOfFreeBlock(InternalSize(linked, b)))
    IN  IF grown.last = b THEN [grown EXCEPT !.last = a] ELSE grown

mergeContiguousBlockLeft(h, block) ==
    LET left == PrevOf(h, block)
    IN  IF left # NULL /\ NextContiguousBlock(h, left) = block
        THEN Absorb(h, left, block) ELSE h

mergeContiguousBlockRight(h, block) ==
    LET right == NextOf(h, block)
    IN  IF right # NULL /\ NextContiguousBlock(h, block) = right
        THEN Absorb(h, block, right) ELSE h

mergeContiguousBlocks_RightOnly(h, block) == mergeContiguousBlockRight(h, block)
mergeContiguousBlocks(h, block) ==
    mergeContiguousBlockLeft(mergeContiguousBlockRight(h, block), block)

-----------------------------------------------------------------------------
\* Removing and inserting.

FreeBlockList_remove(h, block) ==
    IF h.first = h.last
    THEN [h EXCEPT !.first = NULL, !.last = NULL]
    ELSE IF block = h.first
    THEN LET second == NextOf(h, block)
         IN  setPrev([h EXCEPT !.first = second], second, NULL)
    ELSE IF block = h.last
    THEN LET before == PrevOf(h, block)
         IN  setNext([h EXCEPT !.last = before], before, NULL)
    ELSE LET prev == PrevOf(h, block)
             next == NextOf(h, block)
         IN  setPrev(setNext(h, prev, next), next, prev)

insertBeginning(h, newBlock) ==
    LET linked == setPrev(setNext(h, newBlock, h.first), newBlock, NULL)
    IN  [setPrev(linked, h.first, newBlock) EXCEPT !.first = newBlock]

insertEnd(h, newBlock) ==
    LET linked == setNext(setPrev(h, newBlock, h.last), newBlock, NULL)
    IN  [setNext(linked, h.last, newBlock) EXCEPT !.last = newBlock]

insertOnly(h, newBlock) ==
    setPrev(setNext([h EXCEPT !.first = newBlock, !.last = newBlock],
                    newBlock, NULL), newBlock, NULL)

\* Between the first two neighbours that enclose it; nowhere if there are none.
insertSomeWhereInList(h, newBlock) ==
    LET current == FirstIn(h, {b \in ToSet(FreeBlocks(h)) :
                                   b < newBlock /\ NextOf(h, b) > newBlock})
        next    == NextOf(h, current)
        linked  == setNext(setPrev(h, newBlock, current), newBlock, next)
    IN  IF current = NULL THEN h
        ELSE setPrev(setNext(linked, current, newBlock), next, newBlock)

FreeBlockList_insert_AtEnds(h, newBlock) ==
    IF h.first = NULL /\ h.last = NULL THEN insertOnly(h, newBlock)
    ELSE IF newBlock < h.first THEN insertBeginning(h, newBlock)
    ELSE insertEnd(h, newBlock)

FreeBlockList_insert(h, newBlock) ==
    IF h.first = NULL /\ h.last = NULL THEN insertOnly(h, newBlock)
    ELSE IF newBlock < h.first THEN insertBeginning(h, newBlock)
    ELSE IF newBlock > h.last THEN insertEnd(h, newBlock)
    ELSE insertSomeWhereInList(h, newBlock)

-----------------------------------------------------------------------------
\* Taking memory from a free block: a heap and the address of the new block.

makeUnfree(h, block) ==
    LET removed == FreeBlockList_remove(h, block)
    IN  setInternalSize(removed, block, InternalSize(removed, block) + sizeDiff)

FreeBlock_resize_HeaderForgotten(h, block, amountToRemove) ==
    LET shrunk == setInternalSize(h, block,
                      InternalSize(h, block) - amountToRemove)
        newUnfreeBlock == NextContiguousBlock(shrunk, block)
    IN  [heap  |-> setInternalSize(shrunk, newUnfreeBlock, amountToRemove),
         block |-> newUnfreeBlock]

\* The free block keeps its low end; the new block is its high end.
FreeBlock_resize(h, block, amountToRemove) ==
    LET shrunk == setInternalSize(h, block,
                      InternalSize(h, block)
                        - externalSizeOfUnfreeBlock(amountToRemove))
        newUnfreeBlock == NextContiguousBlock(shrunk, block)
    IN  [heap  |-> setInternalSize(shrunk, newUnfreeBlock, amountToRemove),
         block |-> newUnfreeBlock]

\* The caller passes NULL when no block is large enough.
FreeBlock_split(h, block, newBlockSize) ==
    IF block = NULL THEN [heap |-> [h EXCEPT !.fault = TRUE], block |-> NULL]
    ELSE IF InternalSize(h, block) <= externalSizeOfUnfreeBlock(newBlockSize)
    THEN [heap |-> makeUnfree(h, block), block |-> block]
    ELSE FreeBlock_resize(h, block, newBlockSize)
=============================================================================
