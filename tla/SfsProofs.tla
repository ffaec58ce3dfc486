------------------------------ MODULE SfsProofs ------------------------------
(***************************************************************************)
(* Proofs about SimpleFileSystem, for any sizes of the tables and the      *)
(* disk, any calls, mounts and crashes: its inductive invariant and what   *)
(* follows from it.                                                        *)
(***************************************************************************)
EXTENDS SfsPromises, WellFoundedInduction, TLAPS

-----------------------------------------------------------------------------
\* Numbers.

LEMMA Sizes ==
  /\ I_NODE_COUNT \in Nat \ {0} /\ FILE_DESCRIPTOR_TABLE_SIZE \in Nat \ {0}
  /\ BLOCKS_PER_I_NODE \in Nat \ {0} /\ DISK_BLOCK_SIZE \in Nat \ {0}
  /\ DATA_BLOCK_COUNT \in Nat \ {0}
  BY SizesAssumption

\* A set of numbers that is not empty has a least one.
LEMMA Least ==
  ASSUME NEW T, T \subseteq Nat, T # {}
  PROVE  Min(T) \in T /\ \A y \in T : Min(T) <= y
  <1> DEFINE R == {ss \in Nat \X Nat : ss[1] < ss[2]}
  <1>1. IsWellFoundedOn(R, Nat)
    BY NatLessThanWellFounded DEF OpToRel
  <1>2. PICK x \in T : \A y \in T : <<y, x>> \notin R
    <2> HIDE DEF R
    <2> QED  BY <1>1, WFMin
  <1>3. \A y \in T : ~(y < x)
    BY <1>2
  <1>4. \A y \in T : x <= y
    BY <1>3
  <1> HIDE DEF R
  <1> QED  BY <1>4 DEF Min

LEMMA FirstOfIsFirst ==
  ASSUME NEW S, S \subseteq Nat
  PROVE  \/ S = {} /\ FirstOf(S) = -1
         \/ FirstOf(S) \in S /\ \A y \in S : FirstOf(S) <= y
  BY Least DEF FirstOf

LEMMA BlocksOfPlaces ==
  ASSUME NEW a \in Nat, NEW b \in Nat, a <= b
  PROVE  BlockOf(a) \in Nat /\ BlockOf(b) \in Nat /\ BlockOf(a) <= BlockOf(b)
  <1> DEFINE D == DISK_BLOCK_SIZE
  <1>1. D \in Nat \ {0}
    BY Sizes
  <1> HIDE DEF D
  <1>2. a \div D \in Nat /\ b \div D \in Nat
    BY <1>1
  <1>3. a \div D <= b \div D
    BY <1>1, <1>2
  <1> QED  BY <1>2, <1>3 DEF BlockOf, D

-----------------------------------------------------------------------------
\* The turns of sfs_fwrite.

\* What holds of the state that a write begins with and is kept by each turn
\* holds of every state that the turns leave.
LEMMA TurnsStayIn ==
  ASSUME NEW iNode, NEW place, NEW buf, NEW turns \in Nat, NEW Good,
         Unwritten(iNode, place) \in Good,
         \A s \in Good, k \in 1 .. turns :
            WriteBlock(s, BlockOf(place) + k - 1, place, buf) \in Good
  PROVE  Turned(iNode, place, buf, turns) \subseteq Good
  <1> DEFINE After(S, k) ==
               {WriteBlock(s, BlockOf(place) + k - 1, place, buf) : s \in S}
             Is(g, n) == g = [k \in 0 .. n |-> IF k = 0 THEN {Unwritten(iNode, place)}
                                               ELSE After(g[k - 1], k)]
  <1>1. Turned(iNode, place, buf, turns) = (CHOOSE g : Is(g, turns))[turns]
    BY DEF Turned
  <1>2. \A n \in Nat : \E g : Is(g, n)
    <2> DEFINE Bad == {n \in Nat : ~\E g : Is(g, n)}
    <2>1. Is([k \in 0 .. 0 |-> {Unwritten(iNode, place)}], 0)
      OBVIOUS
    <2>2. ASSUME NEW n \in Nat, NEW g, Is(g, n)
          PROVE  \E h : Is(h, n + 1)
      <3> DEFINE h == [k \in 0 .. n + 1 |-> IF k <= n THEN g[k] ELSE After(g[n], n + 1)]
      <3> HIDE DEF After
      <3>1. \A k \in 0 .. n + 1 : h[k] = IF k = 0 THEN {Unwritten(iNode, place)}
                                         ELSE After(h[k - 1], k)
        <4> TAKE k \in 0 .. n + 1
        <4>1. CASE k = 0
          BY <2>2, <4>1
        <4>2. CASE k \in 1 .. n
          <5>1. k - 1 \in 0 .. n /\ k \in 0 .. n
            BY <4>2
          <5>2. h[k] = g[k] /\ h[k - 1] = g[k - 1]
            BY <5>1
          <5> HIDE DEF h
          <5> QED  BY <2>2, <4>2, <5>1, <5>2
        <4>3. CASE k = n + 1
          <5>1. h[k - 1] = g[n] /\ h[k] = After(g[n], n + 1)
            BY <4>3
          <5> HIDE DEF h
          <5> QED  BY <4>3, <5>1
        <4> QED  BY <4>1, <4>2, <4>3
      <3>2. h = [k \in 0 .. n + 1 |-> h[k]]
        OBVIOUS
      <3> HIDE DEF h
      <3>3. Is(h, n + 1)
        BY <3>1, <3>2
      <3> QED  BY <3>3
    <2> HIDE DEF Is
    <2>3. CASE Bad # {}
      <3>1. PICK n \in Bad : \A y \in Bad : n <= y
        BY <2>3, Least
      <3>2. n \in Nat \ {0} /\ n - 1 \notin Bad
        BY <2>1, <3>1
      <3> QED  BY <2>2, <3>1, <3>2
    <2> QED  BY <2>3
  <1> DEFINE g == CHOOSE h : Is(h, turns)
  <1>3. Is(g, turns)
    BY <1>2
  <1> HIDE DEF g
  <1>4. \A k \in 0 .. turns : g[k] = IF k = 0 THEN {Unwritten(iNode, place)}
                                     ELSE After(g[k - 1], k)
    BY <1>3
  <1>5. \A k \in 0 .. turns : g[k] \subseteq Good
    <2> DEFINE Bad == {k \in 0 .. turns : ~(g[k] \subseteq Good)}
    <2> SUFFICES ASSUME Bad # {} PROVE FALSE
      OBVIOUS
    <2>1. PICK k \in Bad : \A y \in Bad : k <= y
      <3>1. Bad \subseteq Nat
        OBVIOUS
      <3> QED  BY <3>1, Least
    <2>2. k # 0
      BY <1>4, <2>1
    <2>3. k \in 1 .. turns /\ k - 1 \in 0 .. turns /\ g[k - 1] \subseteq Good
      BY <2>1, <2>2
    <2>4. g[k] = After(g[k - 1], k)
      BY <1>4, <2>2, <2>3
    <2>5. g[k] \subseteq Good
      BY <2>3, <2>4
    <2> QED  BY <2>1, <2>5
  <1>6. Turned(iNode, place, buf, turns) = g[turns]
    BY <1>1 DEF g
  <1> QED  BY <1>5, <1>6

-----------------------------------------------------------------------------
\* What a write does to a file.

\* The indirect block that a write begins with.
FirstIndirect(iNode) == IF NeedsIndirect(iNode) THEN EmptyBlock ELSE IndirectOf(iNode)

WriteStates == [free : SUBSET Blocks, iNode : INodes, ind : [Cells -> Nat],
                data : DataBlocks, at : Nat, full : BOOLEAN]

\* A write in any of its turns: the file is sound, what it has more than before
\* was free, and no other data has changed.
SpaceIsTaken(iNode, s) ==
    /\ s.free \subseteq freeBitMap /\ 0 \notin s.free
    /\ IF NeedsIndirect(iNode) THEN s.iNode.ind_pointer \in freeBitMap
                               ELSE s.iNode.ind_pointer = iNode.ind_pointer
PointersGrow(iNode, s) ==
    \A j \in Direct : \/ s.iNode.pointer[j] = iNode.pointer[j]
                      \/ iNode.pointer[j] = -1 /\ s.iNode.pointer[j] \in freeBitMap
CellsGrow(iNode, s) ==
    \A c \in Cells : \/ s.ind[c] = FirstIndirect(iNode)[c]
                     \/ s.ind[c] \in freeBitMap \ s.free
OthersAreKept(s) ==
    \A b \in Blocks : \/ s.data[b] = disk.data[b]
                      \/ b \in DirectBlocks(s.iNode) \cup IndirectBlocks(s.ind)

WriteIsSound(iNode, s) ==
    /\ FileIsSound(s.iNode, s.ind, s.free)
    /\ SpaceIsTaken(iNode, s)
    /\ PointersGrow(iNode, s) /\ CellsGrow(iNode, s)
    /\ OthersAreKept(s)

\* What a write may be asked for.
WriteIsPossible(iNode) ==
    /\ iNode \in INodes /\ freeBitMap \in SUBSET Blocks /\ disk.data \in DataBlocks
    /\ FileIsSound(iNode, IndirectOf(iNode), freeBitMap)
    /\ NeedsIndirect(iNode) => freeBitMap # {}

\* Blocks are numbers.
LEMMA BlocksAreNumbers == Blocks \subseteq Nat /\ -1 \notin Blocks
  BY Sizes DEF Blocks

\* A pointer that gets a block, of a direct pointer or in the indirect block.
LEMMA PointerTakes ==
  ASSUME NEW iNode \in INodes, NEW slot \in Direct, NEW d \in Blocks,
         iNode.pointer[slot] = -1,
         NEW n, n.pointer = [iNode.pointer EXCEPT ![slot] = d]
  PROVE  DirectBlocks(n) = DirectBlocks(iNode) \cup {d}
  <1>1. \A j \in Direct : n.pointer[j] = IF j = slot THEN d ELSE iNode.pointer[j]
    BY DEF INodes
  <1>2. d # -1
    BY BlocksAreNumbers
  <1> QED  BY <1>1, <1>2 DEF DirectBlocks

LEMMA CellTakes ==
  ASSUME NEW ind \in [Cells -> Nat], NEW slot \in Cells, NEW d, d # 0, ind[slot] = 0
  PROVE  IndirectBlocks([ind EXCEPT ![slot] = d]) = IndirectBlocks(ind) \cup {d}
  BY DEF IndirectBlocks

LEMMA WriteBegins ==
  ASSUME NEW iNode, WriteIsPossible(iNode), NEW place \in Nat
  PROVE  LET s == Unwritten(iNode, place) IN s \in WriteStates /\ WriteIsSound(iNode, s)
  <1> DEFINE s == Unwritten(iNode, place)
             new == FirstOf(freeBitMap)
  <1>1. EmptyBlock \in [Cells -> Nat] /\ IndirectOf(iNode) \in [Cells -> Nat]
    BY BlocksAreNumbers DEF WriteIsPossible, EmptyBlock, IndirectOf, IndirectIn,
       read_data_block, DataBlocks, INodes
  <1>2. IndirectBlocks(EmptyBlock) = {} /\ \A c \in Cells : EmptyBlock[c] = 0
    BY DEF IndirectBlocks, EmptyBlock
  <1>3. CASE NeedsIndirect(iNode)
    <2>1. new \in freeBitMap /\ new \in Blocks /\ \A b \in freeBitMap : new <= b
      BY <1>3, FirstOfIsFirst, BlocksAreNumbers DEF WriteIsPossible
    <2>2. 0 \notin freeBitMap \ {new}
      <3>1. freeBitMap \subseteq Nat
        BY BlocksAreNumbers DEF WriteIsPossible
      <3>2. new \in Nat
        BY <2>1, <3>1
      <3>3. 0 \in freeBitMap => new <= 0
        BY <2>1
      <3> HIDE DEF new
      <3> QED  BY <3>2, <3>3
    <2>3. /\ s.free = freeBitMap \ {new} /\ s.ind = EmptyBlock
          /\ s.data = disk.data /\ s.at = place /\ s.full = FALSE
          /\ s.iNode = [iNode EXCEPT !.ind_pointer = new]
      BY <1>3 DEF Unwritten, FreeBitMap_getFreeBit
    <2>4. /\ s.iNode \in INodes /\ s.iNode.ind_pointer = new
          /\ s.iNode.pointer = iNode.pointer
      BY <2>1, <2>3 DEF WriteIsPossible, INodes
    <2>5. s \in WriteStates
      BY <1>1, <1>3, <2>1, <2>4 DEF Unwritten, FreeBitMap_getFreeBit, WriteStates, WriteIsPossible
    <2>6. DirectBlocks(s.iNode) = DirectBlocks(iNode)
      BY <2>4 DEF DirectBlocks
    <2> HIDE DEF s, new
    <2>7. FileIsSound(s.iNode, s.ind, s.free)
      BY <1>2, <2>1, <2>2, <2>3, <2>4, <2>6
         DEF WriteIsPossible, FileIsSound, OwnBlocksDiffer, BlocksOf
    <2> QED  BY <1>2, <1>3, <2>1, <2>2, <2>3, <2>4, <2>5, <2>7
             DEF WriteIsSound, SpaceIsTaken, PointersGrow, CellsGrow, OthersAreKept,
                 FirstIndirect, s
  <1>4. CASE ~NeedsIndirect(iNode)
    <2>1. /\ s.free = freeBitMap /\ s.ind = IndirectOf(iNode) /\ s.iNode = iNode
          /\ s.data = disk.data /\ s.at = place /\ s.full = FALSE
      BY <1>4 DEF Unwritten
    <2>2. s \in WriteStates
      BY <1>1, <1>4 DEF Unwritten, WriteStates, WriteIsPossible
    <2>3. 0 \notin freeBitMap
      BY <1>4 DEF WriteIsPossible, FileIsSound, Blank, NeedsIndirect
    <2> HIDE DEF s
    <2> QED  BY <1>4, <2>1, <2>2, <2>3
             DEF WriteIsSound, SpaceIsTaken, PointersGrow, CellsGrow, OthersAreKept,
                 FirstIndirect, WriteIsPossible, s
  <1> QED  BY <1>3, <1>4

LEMMA WriteGoesOn ==
  ASSUME NEW iNode, WriteIsPossible(iNode), NEW s \in WriteStates,
         WriteIsSound(iNode, s), NEW place \in Nat, NEW buf \in Seq(Nat),
         NEW b \in 0 .. BLOCKS_PER_I_NODE + DISK_BLOCK_SIZE - 1
  PROVE  LET t == WriteBlock(s, b, place, buf) IN t \in WriteStates /\ WriteIsSound(iNode, t)
  <1> DEFINE t == WriteBlock(s, b, place, buf)
             indirect == isIndexInIndirectBlock(b)
             slot  == IF indirect THEN indirectBlockIndex(b) ELSE b
             had   == IF indirect THEN s.ind[slot] ELSE s.iNode.pointer[slot]
             isNew == IF indirect THEN had <= 0 ELSE had < 0
             d     == IF isNew THEN FreeBitMap_getFreeBit(s.free) ELSE had
             old   == OldBlock(isNew, s.data, d)
             at    == Min({(b + 1) * DISK_BLOCK_SIZE, EndOf(place, buf)})
             block == [c \in Cells |->
                          LET k == b * DISK_BLOCK_SIZE + c - place
                          IN  IF k \in 0 .. Len(buf) - 1 THEN buf[k + 1] ELSE old[c]]
             iNode2 == [s.iNode EXCEPT
                          !.size    = LastOf(@, at),
                          !.pointer = IF indirect THEN @ ELSE [@ EXCEPT ![slot] = d]]
             free2 == IF isNew THEN s.free \ {d} ELSE s.free
             ind2  == IF indirect THEN [s.ind EXCEPT ![slot] = d] ELSE s.ind
  <1> SUFFICES t \in WriteStates /\ WriteIsSound(iNode, t)
    OBVIOUS
  <1>1. t = IF s.full \/ d = -1
            THEN [s EXCEPT !.full = TRUE]
            ELSE [s EXCEPT !.free = free2, !.iNode = iNode2, !.ind = ind2,
                           !.data = write_data_block(@, d, block), !.at = at]
    BY DEF WriteBlock
  <1>2. CASE s.full \/ d = -1
    <2>1. t = [s EXCEPT !.full = TRUE]
      BY <1>1, <1>2
    <2> HIDE DEF t, d
    <2> QED  BY <2>1 DEF WriteStates, WriteIsSound, SpaceIsTaken, PointersGrow,
                         CellsGrow, OthersAreKept, t
  <1>3. CASE ~(s.full \/ d = -1)
    <2> DEFINE data2 == write_data_block(s.data, d, block)
    <2>1. t = [s EXCEPT !.free = free2, !.iNode = iNode2, !.ind = ind2,
                        !.data = data2, !.at = at]
      BY <1>1, <1>3
    <2>2. /\ indirect <=> b >= BLOCKS_PER_I_NODE
          /\ indirect => slot \in Cells
          /\ ~indirect => slot \in Direct
      BY Sizes DEF isIndexInIndirectBlock, indirectBlockIndex, Cells, Direct
    <2>3. at \in Nat
      <3>1. (b + 1) * DISK_BLOCK_SIZE \in Nat /\ EndOf(place, buf) \in Nat
        BY Sizes DEF EndOf
      <3> DEFINE T == {(b + 1) * DISK_BLOCK_SIZE, EndOf(place, buf)}
      <3>2. T \subseteq Nat /\ T # {}
        BY <3>1
      <3> HIDE DEF T
      <3>3. Min(T) \in Nat
        BY <3>2, Least
      <3> QED  BY <3>3 DEF T
    <2>4. /\ s.iNode \in INodes /\ s.ind \in [Cells -> Nat] /\ s.data \in DataBlocks
          /\ s.free \in SUBSET Blocks /\ s.full \in BOOLEAN
      BY DEF WriteStates
    <2>5. isNew => d \in s.free
      <3>1. s.free \subseteq Nat
        BY <2>4, BlocksAreNumbers
      <3>2. FirstOf(s.free) \in s.free \/ FirstOf(s.free) = -1
        BY <3>1, FirstOfIsFirst
      <3> QED  BY <1>3, <3>2 DEF FreeBitMap_getFreeBit
    <2>6. /\ ~isNew /\ indirect => d = s.ind[slot] /\ d > 0
          /\ ~isNew /\ ~indirect => d = s.iNode.pointer[slot] /\ d # -1
      BY <1>3, <2>2, <2>4
    <2>7. /\ isNew /\ indirect => s.ind[slot] = 0
          /\ isNew /\ ~indirect => s.iNode.pointer[slot] = -1
      <3>1. CASE isNew /\ ~indirect
        <4> DEFINE p == s.iNode.pointer[slot]
        <4>1. p < 0 /\ p \in Blocks \cup {-1}
          BY <2>2, <2>4, <3>1 DEF INodes
        <4> HIDE DEF p
        <4>2. p = -1
          BY <4>1, BlocksAreNumbers
        <4> HIDE DEF slot, isNew, indirect
        <4> QED  BY <3>1, <4>2 DEF p
      <3>2. CASE isNew /\ indirect
        <4>1. s.ind[slot] <= 0 /\ s.ind[slot] \in Nat
          BY <2>2, <2>4, <3>2
        <4> HIDE DEF slot, isNew, indirect
        <4> QED  BY <3>2, <4>1
      <3> QED  BY <3>1, <3>2
    <2>8. d \in Blocks /\ d # 0
      <3>1. CASE isNew
        BY <2>4, <2>5, <3>1 DEF WriteIsSound, SpaceIsTaken
      <3>2. CASE ~isNew /\ indirect
        <4>1. d = s.ind[slot] /\ d # 0 /\ slot \in Cells
          BY <2>2, <2>6, <3>2
        <4> HIDE DEF d, slot
        <4>2. d \in IndirectBlocks(s.ind)
          BY <4>1 DEF IndirectBlocks
        <4> QED  BY <4>1, <4>2 DEF WriteIsSound, FileIsSound, BlocksOf
      <3>3. CASE ~isNew /\ ~indirect
        <4>1. d = s.iNode.pointer[slot] /\ d # -1 /\ slot \in Direct
          BY <2>2, <2>6, <3>3
        <4> HIDE DEF d, slot
        <4>2. d \in DirectBlocks(s.iNode)
          BY <4>1 DEF DirectBlocks
        <4> QED  BY <4>2 DEF WriteIsSound, FileIsSound, BlocksOf
      <3> QED  BY <3>1, <3>2, <3>3
    <2>9. data2 \in DataBlocks /\ \A x \in Blocks : data2[x] = s.data[x] \/ x = d
      <3>1. old \in [Cells -> Nat]
        BY <2>4, <2>8 DEF OldBlock, read_data_block, EmptyBlock, DataBlocks
      <3>2. block \in [Cells -> Nat]
        <4> HIDE DEF old
        <4>1. ASSUME NEW c \in Cells PROVE block[c] \in Nat
          <5> DEFINE k == b * DISK_BLOCK_SIZE + c - place
          <5>1. block[c] = IF k \in 0 .. Len(buf) - 1 THEN buf[k + 1] ELSE old[c]
            OBVIOUS
          <5>2. k \in 0 .. Len(buf) - 1 => buf[k + 1] \in Nat
            <6> HIDE DEF k
            <6> QED  OBVIOUS
          <5> HIDE DEF k, block
          <5> QED  BY <3>1, <5>1, <5>2
        <4> QED  BY <4>1
      <3> HIDE DEF block, d
      <3> QED  BY <2>4, <2>8, <3>2 DEF DataBlocks, write_data_block
    <2>10. iNode2 \in INodes /\ iNode2.ind_pointer = s.iNode.ind_pointer
      <3>1. LastOf(s.iNode.size, at) \in Nat
        BY <2>3, <2>4 DEF LastOf, INodes
      <3>2. ~indirect => slot \in Direct
        BY <2>2
      <3> HIDE DEF at, d, slot
      <3> QED  BY <2>4, <2>8, <3>1, <3>2 DEF INodes
    <2>11. /\ indirect  => iNode2.pointer = s.iNode.pointer
           /\ ~indirect => iNode2.pointer = [s.iNode.pointer EXCEPT ![slot] = d]
      BY <2>4 DEF INodes
    <2>12. ind2 \in [Cells -> Nat]
      <3>1. d \in Nat /\ (indirect => slot \in Cells)
        BY <2>2, <2>8, BlocksAreNumbers
      <3> HIDE DEF d, slot
      <3> QED  BY <2>4, <3>1
    <2>13. /\ t \in WriteStates
           /\ t.free = free2 /\ t.iNode = iNode2 /\ t.ind = ind2 /\ t.data = data2
      <3>1. free2 \in SUBSET Blocks
        BY <2>4
      <3> HIDE DEF t, d, slot, at, block, free2, ind2, iNode2, data2, isNew, indirect
      <3> QED  BY <2>1, <2>3, <2>4, <2>9, <2>10, <2>12, <3>1 DEF WriteStates
    <2> HIDE DEF t, at, block, data2, iNode2, had, d, isNew, slot, indirect
    <2>14. CASE ~isNew
      <3>1. DirectBlocks(iNode2) = DirectBlocks(s.iNode) /\ iNode2.pointer = s.iNode.pointer
        <4>1. iNode2.pointer = s.iNode.pointer
          BY <2>2, <2>4, <2>6, <2>11, <2>14 DEF INodes
        <4> QED  BY <4>1 DEF DirectBlocks
      <3>2. ind2 = s.ind
        BY <2>2, <2>4, <2>6, <2>14
      <3>3. d \in DirectBlocks(s.iNode) \cup IndirectBlocks(s.ind)
        BY <2>2, <2>6, <2>8, <2>14 DEF DirectBlocks, IndirectBlocks
      <3> HIDE DEF ind2
      <3>4. FileIsSound(iNode2, s.ind, s.free)
        BY <2>10, <3>1 DEF WriteIsSound, FileIsSound, OwnBlocksDiffer, BlocksOf, Blank
      <3>5. t.free = s.free /\ t.iNode = iNode2 /\ t.ind = s.ind /\ t.data = data2
        BY <2>13, <2>14, <3>2
      <3>6. OthersAreKept(t)
        BY <2>9, <3>1, <3>3, <3>5 DEF WriteIsSound, OthersAreKept
      <3> HIDE DEF free2
      <3>7. SpaceIsTaken(iNode, t) /\ PointersGrow(iNode, t) /\ CellsGrow(iNode, t)
        BY <2>10, <3>1, <3>5
           DEF WriteIsSound, SpaceIsTaken, PointersGrow, CellsGrow
      <3> QED  BY <2>13, <3>4, <3>5, <3>6, <3>7 DEF WriteIsSound
    <2>15. CASE isNew
      <3>1. d \notin BlocksOf(s.iNode, s.ind) /\ d \in s.free /\ t.free = s.free \ {d}
        BY <2>5, <2>13, <2>15 DEF WriteIsSound, FileIsSound
      <3>0. SpaceIsTaken(iNode, t)
        BY <2>10, <2>13, <3>1 DEF WriteIsSound, SpaceIsTaken
      <3>4. d \in freeBitMap \ t.free /\ t.free \subseteq s.free
        BY <3>1 DEF WriteIsSound, SpaceIsTaken
      <3>2. CASE indirect
        <4>1. s.ind[slot] = 0 /\ slot \in Cells /\ t.ind = [s.ind EXCEPT ![slot] = d]
          BY <2>2, <2>7, <2>13, <2>15, <3>2
        <4>2. IndirectBlocks(t.ind) = IndirectBlocks(s.ind) \cup {d}
          <5>1. IndirectBlocks([s.ind EXCEPT ![slot] = d]) = IndirectBlocks(s.ind) \cup {d}
            BY <2>4, <2>8, <4>1, CellTakes
          <5> QED  BY <4>1, <5>1
        <4>3. t.iNode.pointer = s.iNode.pointer
          BY <2>11, <2>13, <3>2
        <4>4. DirectBlocks(t.iNode) = DirectBlocks(s.iNode)
          BY <4>3 DEF DirectBlocks
        <4> HIDE DEF ind2, free2
        <4>5. OwnBlocksDiffer(t.iNode, t.ind)
          <5>1. d \notin IndirectBlocks(s.ind) /\ d \notin DirectBlocks(s.iNode)
                /\ d # s.iNode.ind_pointer
            BY <2>8, <3>1, BlocksAreNumbers DEF BlocksOf
          <5>2. \A c \in Cells : t.ind[c] = IF c = slot THEN d ELSE s.ind[c]
            BY <2>4, <4>1
          <5>3. \A c \in Cells : s.ind[c] # d
            BY <2>8, <5>1 DEF IndirectBlocks
          <5>4. \A c, e \in Cells : t.ind[c] = t.ind[e] => c = e \/ t.ind[c] = 0
            BY <5>2, <5>3 DEF WriteIsSound, FileIsSound, OwnBlocksDiffer
          <5> QED  BY <2>10, <2>13, <4>2, <4>3, <4>4, <5>1, <5>4
                   DEF WriteIsSound, FileIsSound, OwnBlocksDiffer
        <4>6. FileIsSound(t.iNode, t.ind, t.free)
          BY <2>8, <2>10, <2>13, <3>0, <3>1, <4>2, <4>4, <4>5
             DEF WriteIsSound, SpaceIsTaken, FileIsSound, BlocksOf
        <4>7. PointersGrow(iNode, t) /\ CellsGrow(iNode, t)
          <5>1. \A c \in Cells : t.ind[c] = IF c = slot THEN d ELSE s.ind[c]
            BY <2>4, <4>1
          <5> QED  BY <3>4, <4>3, <5>1 DEF WriteIsSound, PointersGrow, CellsGrow
        <4>8. OthersAreKept(t)
          BY <2>9, <2>13, <4>2, <4>4 DEF WriteIsSound, OthersAreKept
        <4> QED  BY <2>13, <3>0, <4>6, <4>7, <4>8 DEF WriteIsSound
      <3>3. CASE ~indirect
        <4>1. /\ s.iNode.pointer[slot] = -1 /\ slot \in Direct /\ t.ind = s.ind
              /\ t.iNode.pointer = [s.iNode.pointer EXCEPT ![slot] = d]
          BY <2>2, <2>7, <2>11, <2>13, <2>15, <3>3
        <4>2. DirectBlocks(t.iNode) = DirectBlocks(s.iNode) \cup {d}
          BY <2>4, <2>8, <4>1, PointerTakes
        <4>3. \A j \in Direct : t.iNode.pointer[j] = IF j = slot THEN d
                                                     ELSE s.iNode.pointer[j]
          BY <2>4, <4>1 DEF INodes
        <4> HIDE DEF ind2, free2
        <4>4. OwnBlocksDiffer(t.iNode, t.ind)
          <5>1. d \notin IndirectBlocks(s.ind) /\ d \notin DirectBlocks(s.iNode)
                /\ d # s.iNode.ind_pointer /\ d # -1
            BY <2>8, <3>1, BlocksAreNumbers DEF BlocksOf
          <5>2. \A j \in Direct : s.iNode.pointer[j] # d
            BY <5>1 DEF DirectBlocks
          <5>3. \A j, k \in Direct : t.iNode.pointer[j] = t.iNode.pointer[k]
                                         => j = k \/ t.iNode.pointer[j] = -1
            BY <4>3, <5>2 DEF WriteIsSound, FileIsSound, OwnBlocksDiffer
          <5> QED  BY <2>10, <2>13, <4>1, <4>2, <5>1, <5>3
                   DEF WriteIsSound, FileIsSound, OwnBlocksDiffer
        <4>5. FileIsSound(t.iNode, t.ind, t.free)
          BY <2>8, <2>10, <2>13, <3>0, <3>1, <4>1, <4>2, <4>4
             DEF WriteIsSound, SpaceIsTaken, FileIsSound, BlocksOf
        <4>6. PointersGrow(iNode, t) /\ CellsGrow(iNode, t)
          <5>1. iNode.pointer[slot] = -1
            BY <4>1, BlocksAreNumbers DEF WriteIsSound, PointersGrow, WriteIsPossible
          <5> QED  BY <3>4, <4>1, <4>3, <5>1 DEF WriteIsSound, PointersGrow, CellsGrow
        <4>7. OthersAreKept(t)
          BY <2>9, <2>13, <4>1, <4>2 DEF WriteIsSound, OthersAreKept
        <4> QED  BY <2>13, <3>0, <4>5, <4>6, <4>7 DEF WriteIsSound
      <3> QED  BY <3>2, <3>3
    <2> QED  BY <2>14, <2>15
  <1> QED  BY <1>2, <1>3

LEMMA WriteTurns ==
  ASSUME NEW iNode, WriteIsPossible(iNode), NEW place \in Nat, NEW buf \in Seq(Nat),
         Len(buf) > 0, FitsINode(place, buf)
  PROVE  \A turns \in 0 .. TurnsOf(place, buf) :
            \A s \in Turned(iNode, place, buf, turns) :
               s \in WriteStates /\ WriteIsSound(iNode, s)
  <1> DEFINE Good == {s \in WriteStates : WriteIsSound(iNode, s)}
             first == BlockOf(place)
             last  == BlockOf(EndOf(place, buf) - 1)
  <1>1. first \in Nat /\ last \in Nat /\ first <= last
    <2>1. EndOf(place, buf) - 1 \in Nat /\ place <= EndOf(place, buf) - 1
      BY DEF EndOf
    <2> QED  BY <2>1, BlocksOfPlaces
  <1>2. TurnsOf(place, buf) = last - first + 1
    BY DEF TurnsOf
  <1>3. last < BLOCKS_PER_I_NODE + DISK_BLOCK_SIZE
    BY DEF FitsINode, INDIRECT_BLOCK_POINTER_SIZE
  <1>4. Unwritten(iNode, place) \in Good
    BY WriteBegins
  <1>5. \A s \in Good, b \in 0 .. BLOCKS_PER_I_NODE + DISK_BLOCK_SIZE - 1 :
           WriteBlock(s, b, place, buf) \in Good
    BY WriteGoesOn
  <1> SUFFICES ASSUME NEW turns \in 0 .. TurnsOf(place, buf)
               PROVE  Turned(iNode, place, buf, turns) \subseteq Good
    OBVIOUS
  <1> HIDE DEF Good, first, last
  <1>6. turns \in Nat
    BY <1>1, <1>2
  <1>7. \A k \in 1 .. turns : first + k - 1 \in 0 .. BLOCKS_PER_I_NODE + DISK_BLOCK_SIZE - 1
    BY <1>1, <1>2, <1>3, Sizes
  <1>8. \A s \in Good, k \in 1 .. turns :
           WriteBlock(s, BlockOf(place) + k - 1, place, buf) \in Good
    BY <1>5, <1>7 DEF first
  <1> QED  BY <1>4, <1>6, <1>8, TurnsStayIn

\* The write is over when its indirect block has been written too.
FileIsWritten(iNode, s) ==
    /\ s \in WriteStates
    /\ FileIsSound(s.iNode, s.ind, s.free)
    /\ SpaceIsTaken(iNode, s)
    /\ PointersGrow(iNode, s) /\ CellsGrow(iNode, s)
    /\ s.iNode.ind_pointer \in Blocks /\ s.data[s.iNode.ind_pointer] = s.ind
    /\ \A b \in Blocks : \/ s.data[b] = disk.data[b]
                         \/ b \in BlocksOf(s.iNode, s.ind)

LEMMA WriteEnds ==
  ASSUME NEW iNode, WriteIsPossible(iNode), NEW place \in Nat, NEW buf \in Seq(Nat),
         Len(buf) > 0, FitsINode(place, buf)
  PROVE  \A s \in Written(iNode, place, buf) : FileIsWritten(iNode, s)
  <1> SUFFICES ASSUME NEW t \in Written(iNode, place, buf)
               PROVE  FileIsWritten(iNode, t)
    OBVIOUS
  <1>1. PICK s \in Turned(iNode, place, buf, TurnsOf(place, buf)) :
           t = [s EXCEPT !.data = write_data_block(@, s.iNode.ind_pointer, s.ind)]
    BY DEF Written
  <1>2. TurnsOf(place, buf) \in 0 .. TurnsOf(place, buf)
    <2>1. EndOf(place, buf) - 1 \in Nat /\ place <= EndOf(place, buf) - 1
      BY DEF EndOf
    <2>2. /\ BlockOf(place) \in Nat /\ BlockOf(EndOf(place, buf) - 1) \in Nat
          /\ BlockOf(place) <= BlockOf(EndOf(place, buf) - 1)
      BY <2>1, BlocksOfPlaces
    <2> HIDE DEF BlockOf
    <2> QED  BY <2>2 DEF TurnsOf
  <1>3. s \in WriteStates /\ WriteIsSound(iNode, s)
    BY <1>2, WriteTurns
  <1> DEFINE p == s.iNode.ind_pointer
  <1>4. p \in Blocks
    <2>1. iNode.ind_pointer \in Blocks \cup {-1}
      BY DEF WriteIsPossible, INodes
    <2>2. CASE NeedsIndirect(iNode)
      BY <1>3, <2>2 DEF WriteIsSound, SpaceIsTaken, WriteIsPossible
    <2>3. CASE ~NeedsIndirect(iNode)
      <3>1. iNode.ind_pointer # -1
        BY <2>3 DEF NeedsIndirect
      <3> QED  BY <1>3, <2>1, <2>3, <3>1 DEF WriteIsSound, SpaceIsTaken
    <2> QED  BY <2>2, <2>3
  <1> HIDE DEF p
  <1>5. t = [s EXCEPT !.data = [s.data EXCEPT ![p] = s.ind]]
    BY <1>1, <1>4 DEF write_data_block, p
  <1>6. /\ t \in WriteStates /\ t.free = s.free /\ t.iNode = s.iNode /\ t.ind = s.ind
        /\ t.data = [s.data EXCEPT ![p] = s.ind]
    BY <1>3, <1>4, <1>5 DEF WriteStates, DataBlocks
  <1>7. t.data[p] = s.ind /\ \A b \in Blocks : b = p \/ t.data[b] = s.data[b]
    BY <1>3, <1>4, <1>6 DEF WriteStates, DataBlocks
  <1>8. p \in BlocksOf(s.iNode, s.ind)
    BY <1>4, BlocksAreNumbers DEF BlocksOf, p
  <1>9. \A b \in Blocks : t.data[b] = disk.data[b] \/ b \in BlocksOf(s.iNode, s.ind)
    BY <1>3, <1>7, <1>8 DEF WriteIsSound, OthersAreKept, BlocksOf
  <1>10. SpaceIsTaken(iNode, t) /\ PointersGrow(iNode, t) /\ CellsGrow(iNode, t)
    BY <1>3, <1>6 DEF WriteIsSound, SpaceIsTaken, PointersGrow, CellsGrow
  <1> QED  BY <1>3, <1>4, <1>6, <1>7, <1>9, <1>10 DEF WriteIsSound, FileIsWritten, p

-----------------------------------------------------------------------------
\* Files on the disk and in memory.

\* One file and its blocks change, and blocks that were free: the files stay apart.
LEMMA ChangeOneFile ==
  ASSUME NEW nodes \in [Spots -> INodes], NEW data \in DataBlocks, NEW free \in SUBSET Blocks,
         NEW data2 \in DataBlocks, NEW free2 \in SUBSET Blocks,
         NEW i \in Spots, NEW n \in INodes,
         FilesAreApart(nodes, data, free),
         FileIsSound(n, IndirectIn(data2, n), free2),
         LET mine == BlocksOf(nodes[i], IndirectIn(data, nodes[i])) \cup free
         IN  /\ BlocksOf(n, IndirectIn(data2, n)) \subseteq mine
             /\ free2 \subseteq mine
             /\ \A b \in Blocks : data2[b] = data[b] \/ b \in mine,
         0 \in free2 => 0 \in free
  PROVE  FilesAreApart([nodes EXCEPT ![i] = n], data2, free2)
  <1> DEFINE Ind(j) == IndirectIn(data, nodes[j])
             Old(j) == BlocksOf(nodes[j], Ind(j))
             nodes2 == [nodes EXCEPT ![i] = n]
             Ind2(j) == IndirectIn(data2, nodes2[j])
             New(j) == BlocksOf(nodes2[j], Ind2(j))
  <1>1. nodes2[i] = n /\ \A j \in Spots \ {i} : nodes2[j] = nodes[j]
    OBVIOUS
  <1>2. ASSUME NEW j \in Spots \ {i}
        PROVE  /\ Ind2(j) = Ind(j) /\ New(j) = Old(j)
               /\ Old(j) \cap (Old(i) \cup free) = {}
               /\ FileIsSound(nodes[j], Ind(j), free2)
    <2>1. FileIsSound(nodes[j], Ind(j), free) /\ Old(j) \cap Old(i) = {}
      BY DEF FilesAreApart
    <2>2. Old(j) \subseteq Blocks \ free
      BY <2>1 DEF FileIsSound
    <2>3. Old(j) \cap (Old(i) \cup free) = {}
      BY <2>1, <2>2
    <2>4. Ind2(j) = Ind(j)
      <3>1. nodes[j].ind_pointer \in Blocks \cup {-1}
        BY DEF INodes
      <3>2. CASE nodes[j].ind_pointer = -1
        BY <1>1, <3>2 DEF IndirectIn
      <3>3. CASE nodes[j].ind_pointer \in Blocks
        <4>1. nodes[j].ind_pointer \in Old(j)
          BY <3>3, BlocksAreNumbers DEF BlocksOf
        <4>2. data2[nodes[j].ind_pointer] = data[nodes[j].ind_pointer]
          BY <2>3, <3>3, <4>1
        <4> QED  BY <1>1, <3>3, <4>2 DEF IndirectIn, read_data_block
      <3> QED  BY <3>1, <3>2, <3>3
    <2>5. New(j) = Old(j)
      BY <1>1, <2>4
    <2>6. FileIsSound(nodes[j], Ind(j), free2)
      <3>1. Old(j) \subseteq Blocks \ free2
        BY <2>2, <2>3
      <3> HIDE DEF Ind
      <3> QED  BY <2>1, <3>1 DEF FileIsSound
    <2> QED  BY <2>3, <2>4, <2>5, <2>6
  <1>3. New(i) \subseteq Old(i) \cup free
    BY <1>1
  <1>4. FileIsSound(nodes2[i], Ind2(i), free2)
    BY <1>1
  <1>5. \A j \in Spots : FileIsSound(nodes2[j], Ind2(j), free2)
    BY <1>1, <1>2, <1>4
  <1>6. ASSUME NEW j \in Spots, NEW k \in Spots, j # k
        PROVE  New(j) \cap New(k) = {}
    <2>1. CASE j # i /\ k # i
      <3>1. Old(j) \cap Old(k) = {}
        BY <1>6 DEF FilesAreApart
      <3> HIDE DEF New, Old, Ind, Ind2
      <3> QED  BY <1>2, <2>1, <3>1
    <2>2. CASE j = i
      <3> HIDE DEF New, Old, Ind, Ind2
      <3> QED  BY <1>2, <1>3, <1>6, <2>2
    <2>3. CASE k = i
      <3> HIDE DEF New, Old, Ind, Ind2
      <3> QED  BY <1>2, <1>3, <1>6, <2>3
    <2> QED  BY <2>1, <2>2, <2>3
  <1> QED  BY <1>5, <1>6 DEF FilesAreApart

\* Free blocks change and the data of one file, other than its indirect block.
LEMMA KeepINodes ==
  ASSUME NEW nodes \in [Spots -> INodes], NEW data \in DataBlocks, NEW free \in SUBSET Blocks,
         NEW data2 \in DataBlocks, NEW free2 \in SUBSET free, NEW i \in Spots,
         FilesAreApart(nodes, data, free),
         LET mine == BlocksOf(nodes[i], IndirectIn(data, nodes[i])) \cup free
         IN  \A b \in Blocks : data2[b] = data[b] \/ b \in mine \ {nodes[i].ind_pointer}
  PROVE  FilesAreApart(nodes, data2, free2)
  <1>1. nodes[i].ind_pointer \in Blocks \cup {-1}
    BY DEF INodes
  <1>2. IndirectIn(data2, nodes[i]) = IndirectIn(data, nodes[i])
    <2>1. nodes[i].ind_pointer \in Blocks =>
             data2[nodes[i].ind_pointer] = data[nodes[i].ind_pointer]
      OBVIOUS
    <2> QED  BY <1>1, <2>1 DEF IndirectIn, read_data_block
  <1>3. FileIsSound(nodes[i], IndirectIn(data, nodes[i]), free)
    BY DEF FilesAreApart
  <1> DEFINE mine == BlocksOf(nodes[i], IndirectIn(data, nodes[i])) \cup free
  <1>4. FileIsSound(nodes[i], IndirectIn(data2, nodes[i]), free2)
    BY <1>2, <1>3 DEF FileIsSound
  <1>5. /\ BlocksOf(nodes[i], IndirectIn(data2, nodes[i])) \subseteq mine
        /\ free2 \subseteq mine /\ (0 \in free2 => 0 \in free) /\ free2 \in SUBSET Blocks
        /\ \A b \in Blocks : data2[b] = data[b] \/ b \in mine
    BY <1>2
  <1>6. nodes[i] \in INodes /\ [nodes EXCEPT ![i] = nodes[i]] = nodes
    OBVIOUS
  <1> DEFINE n == nodes[i]
  <1>7. FilesAreApart([nodes EXCEPT ![i] = n], data2, free2)
    BY <1>4, <1>5, <1>6, ChangeOneFile
  <1> QED  BY <1>6, <1>7

\* What memory has of a file is a part of what the disk has.
LEMMA MemoryIsPart ==
  ASSUME TypeOK, DiskIsSound, MemoryFollowsDisk, NEW i \in Spots
  PROVE  LET iNode == iNodeTable.i_node[i]
             saved == disk.iNodeTable.i_node[i]
             ind   == IndirectOf(iNode)
             data  == DirectBlocks(iNode) \cup IndirectBlocks(ind)
         IN  /\ FileIsSound(iNode, ind, freeBitMap)
             /\ BlocksOf(iNode, ind) \subseteq BlocksOf(saved, IndirectOf(saved))
             /\ saved.ind_pointer \notin data \cup freeBitMap
             /\ ~NeedsIndirect(iNode) => /\ saved.ind_pointer = iNode.ind_pointer
                                         /\ saved.pointer = iNode.pointer
             /\ FileIsSound(saved, IndirectOf(saved), freeBitMap)
  <1> DEFINE iNode == iNodeTable.i_node[i]
             saved == disk.iNodeTable.i_node[i]
  <1>1. iNode \in INodes /\ saved \in INodes
    BY DEF TypeOK, Disks, INodeTables
  <1>2. FileIsSound(saved, IndirectOf(saved), freeBitMap)
    BY DEF DiskIsSound, MemoryFollowsDisk, FilesAreApart, IndirectOf
  <1>3. \/ Blank(iNode)
        \/ iNode.pointer = saved.pointer /\ iNode.ind_pointer \in {-1, saved.ind_pointer}
    BY DEF MemoryFollowsDisk
  <1>4. IndirectBlocks(EmptyBlock) = {} /\ \A c \in Cells : EmptyBlock[c] = 0
    BY DEF IndirectBlocks, EmptyBlock
  <1>5. iNode.ind_pointer = -1 => IndirectOf(iNode) = EmptyBlock
    BY DEF IndirectOf, IndirectIn
  <1>6. saved.ind_pointer \notin freeBitMap
    BY <1>1, <1>2, BlocksAreNumbers DEF FileIsSound, BlocksOf, TypeOK
  <1>7. iNode.ind_pointer # -1 => ~Blank(iNode)
    BY DEF Blank
  <1>8. \A j \in Direct : iNode.pointer[j] # -1 => iNode.pointer[j] \in DirectBlocks(iNode)
    BY DEF DirectBlocks
  <1> HIDE DEF iNode, saved
  <1>9. CASE Blank(iNode)
    <2>1. iNode.ind_pointer = -1 /\ IndirectOf(iNode) = EmptyBlock /\ DirectBlocks(iNode) = {}
      BY <1>5, <1>9 DEF Blank
    <2>2. BlocksOf(iNode, EmptyBlock) = {}
      BY <1>4, <2>1 DEF BlocksOf
    <2>3. OwnBlocksDiffer(iNode, EmptyBlock)
      <3>1. \A j \in Direct : iNode.pointer[j] = -1
        BY <1>8, <2>1
      <3> QED  BY <1>4, <2>1, <3>1 DEF OwnBlocksDiffer
    <2> QED  BY <1>2, <1>4, <1>6, <1>9, <2>1, <2>2, <2>3
             DEF FileIsSound, NeedsIndirect, iNode, saved
  <1>10. CASE ~Blank(iNode)
    <2>1. iNode.pointer = saved.pointer /\ DirectBlocks(iNode) = DirectBlocks(saved)
      BY <1>3, <1>10 DEF DirectBlocks
    <2>2. CASE iNode.ind_pointer = saved.ind_pointer
      <3>1. IndirectOf(iNode) = IndirectOf(saved)
        BY <2>2 DEF IndirectOf, IndirectIn
      <3> QED  BY <1>2, <1>6, <2>1, <2>2, <3>1
               DEF FileIsSound, BlocksOf, OwnBlocksDiffer, Blank, iNode, saved
    <2>3. CASE iNode.ind_pointer = -1
      <3>1. IndirectOf(iNode) = EmptyBlock
        BY <1>5, <2>3
      <3>2. OwnBlocksDiffer(iNode, EmptyBlock)
        BY <1>2, <1>4, <2>1, <2>3 DEF FileIsSound, OwnBlocksDiffer, DirectBlocks
      <3>3. BlocksOf(iNode, EmptyBlock) \subseteq BlocksOf(saved, IndirectOf(saved))
        BY <1>4, <2>1, <2>3 DEF BlocksOf
      <3> QED  BY <1>2, <1>4, <1>6, <1>10, <2>1, <2>3, <3>1, <3>2, <3>3
               DEF FileIsSound, OwnBlocksDiffer, Blank, NeedsIndirect, iNode, saved
    <2> QED  BY <1>3, <1>10, <2>2, <2>3
  <1> QED  BY <1>9, <1>10

LEMMA MemoryIsApart ==
  ASSUME TypeOK, DiskIsSound, MemoryFollowsDisk
  PROVE  FilesAreApart(iNodeTable.i_node, disk.data, freeBitMap)
  <1> DEFINE nodes == iNodeTable.i_node
             saved == disk.iNodeTable.i_node
             Of(i) == BlocksOf(nodes[i], IndirectOf(nodes[i]))
             SavedOf(i) == BlocksOf(saved[i], IndirectOf(saved[i]))
  <1>1. \A i \in Spots : /\ FileIsSound(nodes[i], IndirectOf(nodes[i]), freeBitMap)
                         /\ Of(i) \subseteq SavedOf(i)
    BY MemoryIsPart
  <1>2. \A i, j \in Spots : i = j \/ SavedOf(i) \cap SavedOf(j) = {}
    BY DEF DiskIsSound, FilesAreApart, IndirectOf
  <1>3. \A i, j \in Spots : i = j \/ Of(i) \cap Of(j) = {}
    <2> HIDE DEF Of, SavedOf
    <2> QED  BY <1>1, <1>2
  <1> QED  BY <1>1, <1>3 DEF FilesAreApart, IndirectOf

\* An indirect pointer leads to the indirect block.
LEMMA IndirectIsThere ==
  ASSUME NEW data, NEW iNode, iNode.ind_pointer \in Blocks
  PROVE  IndirectIn(data, iNode) = data[iNode.ind_pointer]
  <1>1. iNode.ind_pointer > -1
    <2>1. iNode.ind_pointer \in Nat
      BY BlocksAreNumbers
    <2> QED  BY <2>1
  <1> QED  BY <1>1 DEF IndirectIn, read_data_block

\* What a write adds to a file was free.
LEMMA WriteTakesFree ==
  ASSUME NEW iNode, NEW s, PointersGrow(iNode, s), CellsGrow(iNode, s)
  PROVE  DirectBlocks(s.iNode) \cup IndirectBlocks(s.ind)
             \subseteq DirectBlocks(iNode) \cup IndirectBlocks(IndirectOf(iNode)) \cup freeBitMap
  <1>1. ASSUME NEW b \in DirectBlocks(s.iNode)
        PROVE  b \in DirectBlocks(iNode) \cup freeBitMap
    BY DEF DirectBlocks, PointersGrow
  <1>2. ASSUME NEW b \in IndirectBlocks(s.ind)
        PROVE  b \in IndirectBlocks(IndirectOf(iNode)) \cup freeBitMap
    <2>1. PICK c \in Cells : b = s.ind[c] /\ b # 0
      BY DEF IndirectBlocks
    <2>2. CASE s.ind[c] = FirstIndirect(iNode)[c]
      <3>1. NeedsIndirect(iNode) => s.ind[c] = 0
        BY <2>2 DEF FirstIndirect, EmptyBlock
      <3>2. s.ind[c] = IndirectOf(iNode)[c]
        BY <2>1, <2>2, <3>1 DEF FirstIndirect
      <3> QED  BY <2>1, <3>2 DEF IndirectBlocks
    <2>3. CASE s.ind[c] # FirstIndirect(iNode)[c]
      BY <2>1, <2>3 DEF CellsGrow
    <2> QED  BY <2>2, <2>3
  <1> QED  BY <1>1, <1>2

\* A write that was left in the middle of its turns has changed nothing that the
\* tables on the disk speak of.
LEMMA TurnsKeepDisk ==
  ASSUME TypeOK, DiskIsSound, MemoryFollowsDisk, NEW i \in Spots,
         NEW s \in WriteStates, WriteIsSound(iNodeTable.i_node[i], s)
  PROVE  FilesAreApart(disk.iNodeTable.i_node, s.data, freeBitMap)
  <1> DEFINE iNode == iNodeTable.i_node[i]
             nodes == disk.iNodeTable.i_node
             mine  == BlocksOf(nodes[i], IndirectIn(disk.data, nodes[i])) \cup freeBitMap
  <1>1. /\ nodes \in [Spots -> INodes] /\ disk.data \in DataBlocks
        /\ freeBitMap \in SUBSET Blocks /\ s.data \in DataBlocks
    BY DEF TypeOK, Disks, INodeTables, WriteStates
  <1>2. FilesAreApart(nodes, disk.data, freeBitMap)
    BY DEF DiskIsSound, MemoryFollowsDisk
  <1>3. DirectBlocks(s.iNode) \cup IndirectBlocks(s.ind)
           \subseteq DirectBlocks(iNode) \cup IndirectBlocks(IndirectOf(iNode)) \cup freeBitMap
    BY WriteTakesFree DEF WriteIsSound
  <1>4. DirectBlocks(s.iNode) \cup IndirectBlocks(s.ind) \subseteq mine \ {nodes[i].ind_pointer}
    <2>1. /\ BlocksOf(iNode, IndirectOf(iNode)) \subseteq mine
          /\ nodes[i].ind_pointer \notin
                 DirectBlocks(iNode) \cup IndirectBlocks(IndirectOf(iNode)) \cup freeBitMap
      BY MemoryIsPart DEF IndirectOf
    <2> HIDE DEF iNode, nodes
    <2> QED  BY <1>3, <2>1 DEF BlocksOf
  <1>5. \A b \in Blocks : s.data[b] = disk.data[b] \/ b \in mine \ {nodes[i].ind_pointer}
    BY <1>4 DEF WriteIsSound, OthersAreKept
  <1> HIDE DEF nodes
  <1>6. FilesAreApart(nodes, s.data, freeBitMap)
    BY <1>1, <1>2, <1>5, KeepINodes
  <1> QED  BY <1>6 DEF nodes

\* The data of a write that is over fit the i-nodes with the new one among them,
\* those that the disk had before with the new bitmap, and, outside the window
\* of fwrite_Crashes, those with the old bitmap.
LEMMA WriteFits ==
  ASSUME TypeOK, DiskIsSound, MemoryFollowsDisk, NEW i \in Spots,
         NEW s, FileIsWritten(iNodeTable.i_node[i], s)
  PROVE  /\ FilesAreApart([iNodeTable.i_node EXCEPT ![i] = s.iNode], s.data, s.free)
         /\ FilesAreApart(disk.iNodeTable.i_node, s.data, s.free)
         /\ NeedsIndirect(iNodeTable.i_node[i]) \/ s.free = freeBitMap =>
               FilesAreApart(disk.iNodeTable.i_node, s.data, freeBitMap)
  <1> DEFINE iNode == iNodeTable.i_node[i]
             nodes == disk.iNodeTable.i_node
             saved == nodes[i]
             mine  == BlocksOf(saved, IndirectIn(disk.data, saved)) \cup freeBitMap
             took  == BlocksOf(iNode, IndirectOf(iNode)) \cup freeBitMap
  <1>1. /\ nodes \in [Spots -> INodes] /\ iNodeTable.i_node \in [Spots -> INodes]
        /\ disk.data \in DataBlocks /\ freeBitMap \in SUBSET Blocks
        /\ s.data \in DataBlocks /\ s.free \in SUBSET Blocks /\ s.iNode \in INodes
        /\ iNode \in INodes /\ saved \in INodes /\ s.ind \in [Cells -> Nat]
    BY DEF TypeOK, Disks, INodeTables, FileIsWritten, WriteStates
  <1>2. FilesAreApart(nodes, disk.data, freeBitMap)
    BY DEF DiskIsSound, MemoryFollowsDisk
  <1>3. /\ FileIsSound(s.iNode, s.ind, s.free) /\ SpaceIsTaken(iNode, s)
        /\ s.iNode.ind_pointer \in Blocks /\ s.data[s.iNode.ind_pointer] = s.ind
        /\ \A b \in Blocks : s.data[b] = disk.data[b] \/ b \in BlocksOf(s.iNode, s.ind)
        /\ PointersGrow(iNode, s) /\ CellsGrow(iNode, s)
    BY DEF FileIsWritten
  <1>4. /\ BlocksOf(iNode, IndirectOf(iNode)) \subseteq BlocksOf(saved, IndirectOf(saved))
        /\ saved.ind_pointer \notin
              DirectBlocks(iNode) \cup IndirectBlocks(IndirectOf(iNode)) \cup freeBitMap
        /\ ~NeedsIndirect(iNode) => /\ saved.ind_pointer = iNode.ind_pointer
                                    /\ saved.pointer = iNode.pointer
    BY MemoryIsPart
  <1>5. DirectBlocks(s.iNode) \cup IndirectBlocks(s.ind)
           \subseteq DirectBlocks(iNode) \cup IndirectBlocks(IndirectOf(iNode)) \cup freeBitMap
    BY <1>3, WriteTakesFree
  <1> HIDE DEF iNode, nodes, saved
  <1>6. s.iNode.ind_pointer \in took
    BY <1>3, BlocksAreNumbers DEF SpaceIsTaken, BlocksOf
  <1>7. BlocksOf(s.iNode, s.ind) \subseteq took
    BY <1>5, <1>6 DEF BlocksOf
  <1>8. took \subseteq mine
    BY <1>4 DEF IndirectOf
  <1>9. IndirectIn(s.data, s.iNode) = s.ind
    BY <1>3, IndirectIsThere
  <1>10. s.free \subseteq freeBitMap /\ 0 \notin s.free
    BY <1>3 DEF SpaceIsTaken
  <1>11. FilesAreApart([iNodeTable.i_node EXCEPT ![i] = s.iNode], s.data, s.free)
    <2>1. FilesAreApart(iNodeTable.i_node, disk.data, freeBitMap)
      BY MemoryIsApart
    <2>2. FileIsSound(s.iNode, IndirectIn(s.data, s.iNode), s.free)
      BY <1>3, <1>9
    <2> DEFINE n == s.iNode
    <2>3. n \in INodes /\ FileIsSound(n, IndirectIn(s.data, n), s.free)
      BY <1>1, <2>2
    <2>4. /\ BlocksOf(n, IndirectIn(s.data, n)) \subseteq took
          /\ s.free \subseteq took
          /\ \A b \in Blocks : s.data[b] = disk.data[b] \/ b \in took
      BY <1>3, <1>7, <1>9, <1>10
    <2>5. took = BlocksOf(iNodeTable.i_node[i], IndirectIn(disk.data, iNodeTable.i_node[i]))
                    \cup freeBitMap
      BY DEF IndirectOf, iNode
    <2> HIDE DEF n, took
    <2>6. FilesAreApart([iNodeTable.i_node EXCEPT ![i] = n], s.data, s.free)
      BY <1>1, <1>10, <2>1, <2>3, <2>4, <2>5, ChangeOneFile
    <2> QED  BY <2>6 DEF n
  <1>12. ASSUME NeedsIndirect(iNode) \/ s.ind = IndirectOf(iNode)
         PROVE  \A b \in Blocks : s.data[b] = disk.data[b] \/ b \in mine \ {saved.ind_pointer}
    <2> SUFFICES ASSUME NEW b \in Blocks, s.data[b] # disk.data[b]
                 PROVE  b \in mine \ {saved.ind_pointer}
      OBVIOUS
    <2>1. b \in BlocksOf(s.iNode, s.ind) /\ b \in mine
      BY <1>3, <1>7, <1>8
    <2>2. CASE NeedsIndirect(iNode)
      <3>1. s.iNode.ind_pointer \in freeBitMap
        BY <1>3, <2>2 DEF SpaceIsTaken
      <3> QED  BY <1>4, <1>5, <2>1, <3>1 DEF BlocksOf
    <2>3. CASE ~NeedsIndirect(iNode)
      <3>1. s.iNode.ind_pointer = saved.ind_pointer /\ s.ind = IndirectOf(iNode)
        BY <1>3, <1>4, <1>12, <2>3 DEF SpaceIsTaken
      <3>2. IndirectOf(iNode) = disk.data[saved.ind_pointer]
        BY <1>3, <1>4, <2>3, <3>1, IndirectIsThere DEF IndirectOf
      <3>3. b # saved.ind_pointer
        BY <1>3, <3>1, <3>2
      <3> QED  BY <2>1, <3>3
    <2> QED  BY <2>2, <2>3
  <1>13. FilesAreApart(nodes, s.data, s.free)
    <2>1. CASE NeedsIndirect(iNode)
      BY <1>1, <1>2, <1>10, <1>12, <2>1, KeepINodes DEF saved
    <2>2. CASE ~NeedsIndirect(iNode)
      <3>1. s.iNode.ind_pointer = saved.ind_pointer /\ iNode.pointer = saved.pointer
        BY <1>3, <1>4, <2>2 DEF SpaceIsTaken
      <3>2. IndirectIn(s.data, saved) = s.ind
        BY <1>9, <3>1 DEF IndirectIn
      <3>3. \A j \in Direct : saved.pointer[j] = s.iNode.pointer[j] \/ saved.pointer[j] = -1
        BY <1>3, <3>1 DEF PointersGrow
      <3>4. DirectBlocks(saved) \subseteq DirectBlocks(s.iNode)
        BY <3>3 DEF DirectBlocks
      <3>5. BlocksOf(saved, s.ind) \subseteq BlocksOf(s.iNode, s.ind)
        BY <3>1, <3>4 DEF BlocksOf
      <3>6. OwnBlocksDiffer(saved, s.ind)
        BY <1>3, <3>1, <3>3, <3>4 DEF FileIsSound, OwnBlocksDiffer
      <3>7. FileIsSound(saved, IndirectIn(s.data, saved), s.free)
        BY <1>3, <1>10, <3>2, <3>4, <3>5, <3>6 DEF FileIsSound
      <3>8. /\ BlocksOf(saved, IndirectIn(s.data, saved)) \subseteq mine
            /\ s.free \subseteq mine
            /\ \A b \in Blocks : s.data[b] = disk.data[b] \/ b \in mine
        BY <1>3, <1>7, <1>8, <1>10, <3>2, <3>5
      <3>9. FilesAreApart([nodes EXCEPT ![i] = saved], s.data, s.free)
        BY <1>1, <1>2, <1>10, <3>7, <3>8, ChangeOneFile DEF saved
      <3>10. [nodes EXCEPT ![i] = saved] = nodes
        BY <1>1 DEF saved
      <3> QED  BY <3>9, <3>10
    <2> QED  BY <2>1, <2>2
  <1>14. ASSUME NeedsIndirect(iNode) \/ s.free = freeBitMap
         PROVE  FilesAreApart(nodes, s.data, freeBitMap)
    <2>1. NeedsIndirect(iNode) \/ s.ind = IndirectOf(iNode)
      <3> SUFFICES ASSUME ~NeedsIndirect(iNode) PROVE s.ind = IndirectOf(iNode)
        OBVIOUS
      <3>1. \A c \in Cells : s.ind[c] = IndirectOf(iNode)[c]
        BY <1>3, <1>14 DEF CellsGrow, FirstIndirect
      <3>2. IndirectOf(iNode) \in [Cells -> Nat]
        BY <1>1 DEF IndirectOf, IndirectIn, read_data_block, EmptyBlock, DataBlocks
      <3> QED  BY <1>1, <3>1, <3>2
    <2>2. \A b \in Blocks : s.data[b] = disk.data[b] \/ b \in mine \ {saved.ind_pointer}
      BY <1>12, <2>1
    <2> QED  BY <1>1, <1>2, <2>2, KeepINodes DEF saved
  <1> QED  BY <1>11, <1>13, <1>14 DEF iNode, nodes

LEMMA BlankIsSound ==
  /\ INode_new \in INodes /\ Blank(INode_new)
  /\ BlocksOf(INode_new, EmptyBlock) = {}
  /\ \A free : FileIsSound(INode_new, EmptyBlock, free)
  /\ \A data : IndirectIn(data, INode_new) = EmptyBlock
  <1>1. INode_new.ind_pointer = -1 /\ \A j \in Direct : INode_new.pointer[j] = -1
    BY DEF INode_new
  <1>2. INode_new \in INodes
    BY DEF INode_new, INodes
  <1>3. DirectBlocks(INode_new) = {}
    BY <1>1 DEF DirectBlocks
  <1>4. IndirectBlocks(EmptyBlock) = {} /\ \A c \in Cells : EmptyBlock[c] = 0
    BY DEF IndirectBlocks, EmptyBlock
  <1>5. OwnBlocksDiffer(INode_new, EmptyBlock)
    BY <1>1, <1>3, <1>4 DEF OwnBlocksDiffer
  <1>6. \A data : IndirectIn(data, INode_new) = EmptyBlock
    BY <1>1 DEF IndirectIn
  <1>7. BlocksOf(INode_new, EmptyBlock) = {}
    BY <1>1, <1>3, <1>4 DEF BlocksOf
  <1> QED  BY <1>1, <1>2, <1>3, <1>5, <1>6, <1>7 DEF FileIsSound, Blank

\* A removal frees the data blocks of one file: what it leaves fits the i-nodes
\* without that file, and those that the disk had before with the old bitmap.
LEMMA RemovalFits ==
  ASSUME TypeOK, DiskIsSound, MemoryFollowsDisk, NEW spot \in Spots
  PROVE  LET r == Removed(spot)
         IN  /\ r.free \in SUBSET Blocks /\ r.table \in INodeTables /\ r.data \in DataBlocks
             /\ r.table.open = iNodeTable.open
             /\ FilesAreApart(r.table.i_node, r.data, r.free)
             /\ FilesAreApart(disk.iNodeTable.i_node, r.data, freeBitMap)
  <1> DEFINE r     == Removed(spot)
             i     == Entry(spot).i_node_index
             iNode == iNodeTable.i_node[i]
             nodes == disk.iNodeTable.i_node
             freed == FreedBlocks(iNode)
             took  == BlocksOf(iNode, IndirectOf(iNode)) \cup freeBitMap
  <1>1. i \in Spots
    BY DEF TypeOK, Directories, Entry
  <1>2. /\ nodes \in [Spots -> INodes] /\ iNodeTable.i_node \in [Spots -> INodes]
        /\ disk.data \in DataBlocks /\ freeBitMap \in SUBSET Blocks
        /\ iNodeTable.open \in SUBSET Spots
    BY DEF TypeOK, Disks, INodeTables
  <1>3. freed = DirectBlocks(iNode) \cup IndirectBlocks(IndirectOf(iNode))
    BY DEF FreedBlocks, DataBlocksOf, Listed
  <1>4. /\ FileIsSound(iNode, IndirectOf(iNode), freeBitMap)
        /\ BlocksOf(iNode, IndirectOf(iNode)) \subseteq BlocksOf(nodes[i], IndirectOf(nodes[i]))
        /\ nodes[i].ind_pointer \notin freed
    BY <1>1, <1>3, MemoryIsPart
  <1>5. freed \subseteq Blocks /\ 0 \notin freed /\ freed \subseteq took
    BY <1>3, <1>4 DEF FileIsSound, BlocksOf, IndirectBlocks
  <1>6. /\ r.free = freeBitMap \cup freed
        /\ r.table = [i_node |-> [iNodeTable.i_node EXCEPT ![i] = INode_new],
                      open   |-> iNodeTable.open]
        /\ r.data = [b \in Blocks |-> IF b \in freed THEN EmptyBlock ELSE disk.data[b]]
    <2>1. r.table = [iNodeTable EXCEPT !.i_node[i] = INode_new]
      BY DEF Removed, INodeTable_deleteINode
    <2>2. iNodeTable = [i_node |-> iNodeTable.i_node, open |-> iNodeTable.open]
      BY DEF TypeOK, INodeTables
    <2> HIDE DEF i, iNode, nodes, freed, took
    <2>3. r.free = freeBitMap \cup freed
      BY DEF Removed, i, iNode, freed
    <2>4. r.data = [b \in Blocks |-> IF b \in freed THEN EmptyBlock ELSE disk.data[b]]
      BY DEF Removed, i, iNode, freed
    <2> HIDE DEF r
    <2> QED  BY <2>1, <2>2, <2>3, <2>4
  <1> HIDE DEF r, i, freed
  <1>7. EmptyBlock \in [Cells -> Nat]
    BY DEF EmptyBlock
  <1>8. r.data \in DataBlocks /\ \A b \in Blocks : r.data[b] = disk.data[b] \/ b \in freed
    BY <1>2, <1>6, <1>7 DEF DataBlocks
  <1>9. r.table \in INodeTables /\ r.free \in SUBSET Blocks
    BY <1>1, <1>2, <1>5, <1>6, BlankIsSound DEF INodeTables
  <1>10. FilesAreApart(r.table.i_node, r.data, r.free)
    <2>1. FilesAreApart(iNodeTable.i_node, disk.data, freeBitMap)
      BY MemoryIsApart
    <2> DEFINE n == INode_new
    <2>2. n \in INodes /\ FileIsSound(n, IndirectIn(r.data, n), r.free)
      BY BlankIsSound
    <2>3. /\ BlocksOf(n, IndirectIn(r.data, n)) \subseteq took
          /\ r.free \subseteq took
          /\ \A b \in Blocks : r.data[b] = disk.data[b] \/ b \in took
      BY <1>5, <1>6, <1>8, BlankIsSound
    <2>4. took = BlocksOf(iNodeTable.i_node[i], IndirectIn(disk.data, iNodeTable.i_node[i]))
                    \cup freeBitMap
      BY DEF IndirectOf
    <2>5. 0 \in r.free => 0 \in freeBitMap
      BY <1>5, <1>6
    <2> HIDE DEF n, took, iNode
    <2>6. FilesAreApart([iNodeTable.i_node EXCEPT ![i] = n], r.data, r.free)
      BY <1>1, <1>2, <1>8, <1>9, <2>1, <2>2, <2>3, <2>4, <2>5, ChangeOneFile
    <2> QED  BY <1>6, <2>6 DEF n
  <1>11. FilesAreApart(nodes, r.data, freeBitMap)
    <2> DEFINE mine == BlocksOf(nodes[i], IndirectIn(disk.data, nodes[i])) \cup freeBitMap
    <2>1. \A b \in Blocks : r.data[b] = disk.data[b] \/ b \in mine \ {nodes[i].ind_pointer}
      BY <1>4, <1>5, <1>8 DEF IndirectOf
    <2>2. FilesAreApart(nodes, disk.data, freeBitMap)
      BY DEF DiskIsSound, MemoryFollowsDisk
    <2> HIDE DEF nodes
    <2> QED  BY <1>1, <1>2, <1>8, <2>1, <2>2, KeepINodes
  <1> QED  BY <1>6, <1>8, <1>9, <1>10, <1>11 DEF r

-----------------------------------------------------------------------------
\* What the tables come to: from the disk, to the disk, and in an open.

LEMMA EmptyDiskIsSound ==
  /\ FreshDisk \in Disks
  /\ FilesAreApart(FreshDisk.iNodeTable.i_node, FreshDisk.data, FreshDisk.freeBitMap)
  /\ EntriesAreSound(FreshDisk.directoryCache.entry, FreshDisk.iNodeTable.open)
  <1>1. /\ FreshDisk.freeBitMap = Blocks
        /\ FreshDisk.iNodeTable = [i_node |-> [i \in Spots |-> INode_new], open |-> Spots]
        /\ FreshDisk.directoryCache = [entry |-> [i \in Spots |-> NoEntry], readIndex |-> 0]
        /\ FreshDisk.data = [b \in Blocks |-> EmptyBlock]
        /\ FreshDisk.iNodeTable.i_node = [i \in Spots |-> INode_new]
        /\ FreshDisk.directoryCache.entry = [i \in Spots |-> NoEntry]
    BY DEF FreshDisk, EmptyINodes, EmptyDirectory
  <1>2. NoEntry.name = NoName /\ NoEntry.open = TRUE
    BY DEF NoEntry
  <1>3. NoEntry \in [name : Names \cup {NoName}, i_node_index : Spots, open : BOOLEAN]
    BY Sizes DEF NoEntry, Spots
  <1>4. EmptyBlock \in [Cells -> Nat]
    BY DEF EmptyBlock
  <1>5. 0 \in 0 .. I_NODE_COUNT
    BY Sizes
  <1>6. FreshDisk \in Disks
    <2>1. FreshDisk.iNodeTable \in INodeTables
      BY <1>1, BlankIsSound DEF INodeTables
    <2>2. FreshDisk.directoryCache \in Directories
      BY <1>1, <1>3, <1>5 DEF Directories
    <2>3. FreshDisk.data \in DataBlocks
      BY <1>1, <1>4 DEF DataBlocks
    <2> QED  BY <1>1, <2>1, <2>2, <2>3 DEF FreshDisk, Disks
  <1>7. FilesAreApart(FreshDisk.iNodeTable.i_node, FreshDisk.data, FreshDisk.freeBitMap)
    BY <1>1, BlankIsSound DEF FilesAreApart
  <1>8. EntriesAreSound(FreshDisk.directoryCache.entry, FreshDisk.iNodeTable.open)
    BY <1>1, <1>2 DEF EntriesAreSound
  <1> QED  BY <1>6, <1>7, <1>8

LEMMA NoneIsInUse ==
  /\ EmptyFds \in Descriptors
  /\ \A f \in Fds : EmptyFds[f].i_node_number = 0 /\ EmptyFds[f].in_use = FALSE
  <1>1. 0 \in Spots
    BY Sizes DEF Spots
  <1>2. NotInUse \in [i_node_number : Spots, read_write_pointer : Nat, in_use : BOOLEAN]
    BY <1>1 DEF NotInUse
  <1> QED  BY <1>2 DEF EmptyFds, Descriptors, NotInUse

\* A mount of a sound disk.
LEMMA MountIsSound ==
  ASSUME (disk \in Disks)', DiskIsSound', LoadedFrom(disk')
  PROVE  IndInv'
  <1>1. /\ directoryCache' = disk'.directoryCache /\ iNodeTable' = disk'.iNodeTable
        /\ freeBitMap' = disk'.freeBitMap /\ fileDescriptorTable' = EmptyFds
    BY DEF LoadedFrom
  <1>2. TypeOK'
    BY <1>1, NoneIsInUse DEF TypeOK, Disks
  <1>3. MemoryFollowsDisk'
    BY <1>1 DEF MemoryFollowsDisk
  <1>4. EntriesAreSound(directoryCache.entry, iNodeTable.open)'
    BY <1>1 DEF DiskIsSound
  <1>5. DescriptorsAreSound'
    BY <1>1, NoneIsInUse DEF DescriptorsAreSound, InUse
  <1> QED  BY <1>2, <1>3, <1>4, <1>5 DEF IndInv

\* A save that is over.
LEMMA SaveIsSound ==
  ASSUME (directoryCache \in Directories)', (iNodeTable \in INodeTables)',
         (freeBitMap \in SUBSET Blocks)', NEW data \in DataBlocks,
         disk' = Saved(freeBitMap', iNodeTable', directoryCache', data, AllWrites),
         FilesAreApart(iNodeTable'.i_node, data, freeBitMap'),
         EntriesAreSound(directoryCache'.entry, iNodeTable'.open)
  PROVE  (disk \in Disks)' /\ DiskIsSound' /\ MemoryFollowsDisk'
  <1>1. disk' = [freeBitMap |-> freeBitMap', iNodeTable |-> iNodeTable',
                 directoryCache |-> directoryCache', data |-> data]
    BY DEF Saved, AllWrites
  <1> QED  BY <1>1 DEF Disks, DiskIsSound, MemoryFollowsDisk

\* A program that dies in the middle of a save.
LEMMA CrashIsSound ==
  ASSUME IndInv, NEW free \in SUBSET Blocks, NEW table \in INodeTables,
         NEW directory, NEW data \in DataBlocks, NEW writes \in 0 .. AllWrites - 1,
         CrashedWith(free, table, directory, data, writes),
         table.open \subseteq disk.iNodeTable.open,
         FilesAreApart(IF writes >= 2 THEN table.i_node ELSE disk.iNodeTable.i_node, data,
                       IF writes >= 1 THEN free ELSE freeBitMap)
  PROVE  IndInv'
  <1>1. writes \in Int /\ ~(writes >= 3)
    BY DEF AllWrites
  <1>2. disk' = [freeBitMap     |-> IF writes >= 1 THEN free ELSE disk.freeBitMap,
                 iNodeTable     |-> IF writes >= 2 THEN table ELSE disk.iNodeTable,
                 directoryCache |-> disk.directoryCache,
                 data           |-> data]
    BY <1>1 DEF CrashedWith, Saved
  <1>3. disk \in Disks /\ freeBitMap = disk.freeBitMap
        /\ EntriesAreSound(disk.directoryCache.entry, disk.iNodeTable.open)
    BY DEF IndInv, TypeOK, DiskIsSound, MemoryFollowsDisk
  <1>4. (disk \in Disks)'
    BY <1>2, <1>3 DEF Disks
  <1>5. EntriesAreSound(disk.directoryCache.entry, table.open)
    BY <1>3 DEF EntriesAreSound
  <1>6. DiskIsSound'
    BY <1>2, <1>3, <1>5 DEF DiskIsSound
  <1>7. LoadedFrom(disk')
    BY DEF CrashedWith
  <1> QED  BY <1>4, <1>6, <1>7, MountIsSound

\* The descriptor that an open gives out.
LEMMA DescribedIsSound ==
  ASSUME fileDescriptorTable \in Descriptors, DescriptorsAreSound,
         NEW i \in Spots, NEW size \in Nat, FdFor(i) # -1,
         fileDescriptorTable' = Described(i, size),
         iNodeTable'.open \subseteq iNodeTable.open, i \notin iNodeTable'.open
  PROVE  (fileDescriptorTable \in Descriptors)' /\ DescriptorsAreSound'
  <1> DEFINE having == {f \in Fds : fileDescriptorTable[f].i_node_number = i}
             idle   == {f \in Fds : ~fileDescriptorTable[f].in_use}
             old(f) == fileDescriptorTable[f].i_node_number
             new(f) == fileDescriptorTable'[f].i_node_number
  <1>1. Fds \subseteq Nat /\ -1 \notin Fds
    BY Sizes DEF Fds
  <1>2. \/ having = {} /\ FirstOf(having) = -1
        \/ FirstOf(having) \in having /\ FirstOf(having) # -1
    BY <1>1, FirstOfIsFirst
  <1>3. \/ idle = {} /\ FirstOf(idle) = -1
        \/ FirstOf(idle) \in idle
    BY <1>1, FirstOfIsFirst
  <1>4. FdFor(i) = IF FirstOf(having) # -1 THEN FirstOf(having) ELSE FirstOf(idle)
    BY DEF FdFor, FileDescriptorTable_getIndexOfInode, FileDescriptorTable_getOpenIndex
  <1>5. fileDescriptorTable' =
           IF FirstOf(having) # -1
           THEN [fileDescriptorTable EXCEPT ![FdFor(i)].in_use = TRUE]
           ELSE [fileDescriptorTable EXCEPT ![FdFor(i)] =
                    [i_node_number |-> i, read_write_pointer |-> size, in_use |-> TRUE]]
    BY DEF Described, FileDescriptorTable_getIndexOfInode
  <1>6. PICK d \in Fds :
           \/ /\ old(d) = i
              /\ fileDescriptorTable' = [fileDescriptorTable EXCEPT ![d].in_use = TRUE]
           \/ /\ \A f \in Fds : old(f) # i
              /\ fileDescriptorTable' = [fileDescriptorTable EXCEPT ![d] =
                    [i_node_number |-> i, read_write_pointer |-> size, in_use |-> TRUE]]
    <2>1. CASE FirstOf(having) # -1
      <3>1. FdFor(i) \in having
        BY <1>2, <1>4, <2>1
      <3> QED  BY <1>5, <2>1, <3>1
    <2>2. CASE FirstOf(having) = -1
      <3>1. FdFor(i) \in Fds /\ having = {}
        BY <1>2, <1>3, <1>4, <2>2
      <3> QED  BY <1>5, <2>2, <3>1
    <2> QED  BY <2>1, <2>2
  <1>7. /\ (fileDescriptorTable \in Descriptors)'
        /\ new(d) = i /\ fileDescriptorTable'[d].in_use = TRUE
        /\ \A f \in Fds \ {d} : fileDescriptorTable'[f] = fileDescriptorTable[f]
    <2> DEFINE fd == [i_node_number |-> i, read_write_pointer |-> size, in_use |-> TRUE]
    <2>1. CASE /\ old(d) = i
               /\ fileDescriptorTable' = [fileDescriptorTable EXCEPT ![d].in_use = TRUE]
      BY <2>1 DEF Descriptors
    <2>2. CASE fileDescriptorTable' = [fileDescriptorTable EXCEPT ![d] = fd]
      <3>1. /\ fd \in [i_node_number : Spots, read_write_pointer : Nat, in_use : BOOLEAN]
            /\ fd.i_node_number = i /\ fd.in_use = TRUE
        OBVIOUS
      <3> HIDE DEF fd
      <3>2. fileDescriptorTable'[d] = fd
        BY <2>2 DEF Descriptors
      <3> QED  BY <2>2, <3>1, <3>2 DEF Descriptors
    <2> QED  BY <1>6, <2>1, <2>2
  <1>8. ASSUME NEW f \in Fds
        PROVE  IF fileDescriptorTable'[f].in_use THEN new(f) \notin iNodeTable'.open
                                                 ELSE new(f) = 0
    <2>1. CASE f = d
      BY <1>7, <2>1
    <2>2. CASE f # d
      BY <1>7, <2>2 DEF DescriptorsAreSound, InUse
    <2> QED  BY <2>1, <2>2
  <1>9. ASSUME NEW f \in Fds, NEW g \in Fds, f # g, new(f) # 0
        PROVE  new(g) # new(f)
    <2>1. \A h, k \in Fds : h # k /\ old(h) # 0 => old(k) # old(h)
      BY DEF DescriptorsAreSound
    <2>2. \A h \in Fds \ {d} : new(h) = old(h)
      BY <1>7
    <2>3. CASE old(d) = i
      <3>1. \A h \in Fds : new(h) = old(h)
        BY <1>7, <2>2, <2>3
      <3> HIDE DEF old, new
      <3> QED  BY <1>9, <2>1, <3>1
    <2>4. CASE \A h \in Fds : old(h) # i
      <3> HIDE DEF old, new
      <3> QED  BY <1>7, <1>9, <2>1, <2>2, <2>4
    <2> QED  BY <1>6, <2>3, <2>4
  <1> QED  BY <1>7, <1>8, <1>9 DEF DescriptorsAreSound, InUse

\* A descriptor of which only the pointer moves.
LEMMA PointerMoves ==
  ASSUME fileDescriptorTable \in Descriptors, DescriptorsAreSound,
         NEW f \in Fds, NEW at \in Nat,
         fileDescriptorTable' = [fileDescriptorTable EXCEPT ![f].read_write_pointer = at],
         iNodeTable'.open = iNodeTable.open
  PROVE  (fileDescriptorTable \in Descriptors)' /\ DescriptorsAreSound'
  <1>1. (fileDescriptorTable \in Descriptors)'
    BY DEF Descriptors
  <1>2. \A g \in Fds : /\ fileDescriptorTable'[g].i_node_number
                              = fileDescriptorTable[g].i_node_number
                       /\ fileDescriptorTable'[g].in_use = fileDescriptorTable[g].in_use
    BY DEF Descriptors
  <1> QED  BY <1>1, <1>2 DEF DescriptorsAreSound, InUse

-----------------------------------------------------------------------------
\* Every call keeps the invariant.

LEMMA NameIndexIsThere ==
  ASSUME TypeOK, EntriesAreSound(directoryCache.entry, iNodeTable.open), NEW name \in Names
  PROVE  \/ /\ DirectoryCache_getNameIndex(name) = -1
            /\ \A i \in Spots : Entry(i).name # name
         \/ /\ DirectoryCache_getNameIndex(name) # -1
            /\ DirectoryCache_getNameIndex(name) \in Spots
            /\ Entry(DirectoryCache_getNameIndex(name)).i_node_index \in Spots \ iNodeTable.open
            /\ ~Entry(DirectoryCache_getNameIndex(name)).open
  <1> DEFINE S == {i \in Spots : Entry(i).name = name}
             spot == DirectoryCache_getNameIndex(name)
  <1>1. Spots \subseteq Nat /\ -1 \notin Spots
    BY Sizes DEF Spots
  <1>2. spot = FirstOf(S)
    BY DEF DirectoryCache_getNameIndex
  <1>3. (S = {} /\ spot = -1) \/ spot \in S
    BY <1>1, <1>2, FirstOfIsFirst
  <1>4. CASE S = {} /\ spot = -1
    BY <1>4
  <1>5. CASE spot \in S
    <2>1. spot \in Spots /\ spot # -1 /\ Entry(spot).name = name
      BY <1>1, <1>5
    <2> HIDE DEF spot
    <2>2. name # NoName
      BY SizesAssumption
    <2>3. ~Entry(spot).open /\ Entry(spot).i_node_index \notin iNodeTable.open
      BY <2>1, <2>2 DEF EntriesAreSound, Entry
    <2>4. Entry(spot).i_node_index \in Spots
      BY <2>1 DEF TypeOK, Directories, Entry
    <2> QED  BY <2>1, <2>3, <2>4 DEF spot
  <1> QED  BY <1>3, <1>4, <1>5

LEMMA OpenExistingKeeps ==
  ASSUME IndInv, NEW name \in Names, fopen_Existing(name)
  PROVE  IndInv'
  <1> USE DEF IndInv
  <1> DEFINE i == INodeOf(name)
             size == iNodeTable.i_node[i].size
  <1>1. i \in Spots \ iNodeTable.open
    BY NameIndexIsThere DEF fopen_Existing, INodeOf
  <1>2. size \in Nat
    BY <1>1 DEF TypeOK, INodeTables, INodes
  <1>3. fileDescriptorTable' = Described(i, size) /\ FdFor(i) # -1
    BY DEF fopen_Existing, CanOpen
  <1>4. UNCHANGED <<directoryCache, iNodeTable, freeBitMap, disk>>
    BY DEF fopen_Existing, memory
  <1> HIDE DEF i, size
  <1>5. (fileDescriptorTable \in Descriptors)' /\ DescriptorsAreSound'
    BY <1>1, <1>2, <1>3, <1>4, DescribedIsSound DEF TypeOK
  <1> QED  BY <1>4, <1>5 DEF TypeOK, DiskIsSound, MemoryFollowsDisk

LEMMA OpenNewKeeps ==
  ASSUME IndInv, NEW name \in Names, fopen_New(name)
  PROVE  IndInv'
  <1> USE DEF IndInv
  <1> DEFINE spot == DirectoryCache_getOpenIndex
             i == INodeOf(name)
             e == [name |-> name, i_node_index |-> i, open |-> FALSE]
             entry == directoryCache.entry
  <1>1. DirectoryCache_getNameIndex(name) = -1 /\ CanOpen(name)
    BY DEF fopen_New
  <1>2. \A k \in Spots : entry[k].name # name
    BY <1>1, NameIndexIsThere DEF Entry
  <1>3. Spots \subseteq Nat /\ -1 \notin Spots /\ -1 \notin Fds
    BY Sizes DEF Spots, Fds
  <1>4. i \in iNodeTable.open /\ i \in Spots
    <2>1. iNodeTable.open \subseteq Spots
      BY DEF TypeOK, INodeTables
    <2>2. i = FirstOf(iNodeTable.open) /\ i # -1
      BY <1>1 DEF INodeOf, CanOpen, INodeTable_getOpenIndex
    <2> HIDE DEF i
    <2> QED  BY <1>3, <2>1, <2>2, FirstOfIsFirst
  <1>5. spot \in Spots
    <2> DEFINE S == {k \in Spots : DirectoryCache_isOpen(directoryCache.readIndex + k)}
    <2>1. spot = FirstOf(S) /\ spot # -1
      BY <1>1 DEF DirectoryCache_getOpenIndex, CanOpen
    <2>2. S \subseteq Nat /\ S \subseteq Spots
      BY <1>3
    <2> HIDE DEF spot, S
    <2> QED  BY <2>1, <2>2, FirstOfIsFirst
  <1>6. FdFor(i) # -1
    BY <1>1 DEF CanOpen, FdFor
  <1>7. /\ directoryCache' = [directoryCache EXCEPT !.entry[spot] = e]
        /\ iNodeTable' = [i_node |-> [iNodeTable.i_node EXCEPT ![i] = INode_new],
                          open   |-> iNodeTable.open \ {i}]
        /\ fileDescriptorTable' = Described(i, 0)
        /\ UNCHANGED <<freeBitMap, disk>>
    BY DEF fopen_New
  <1>8. name \in Names \cup {NoName} /\ name # NoName
    BY SizesAssumption
  <1>9. /\ e \in [name : Names \cup {NoName}, i_node_index : Spots, open : BOOLEAN]
        /\ e.name = name /\ e.i_node_index = i /\ e.open = FALSE
    BY <1>4, <1>8
  <1> HIDE DEF spot, i, e, entry
  <1>10. (directoryCache \in Directories)' /\ (iNodeTable \in INodeTables)'
    BY <1>4, <1>5, <1>7, <1>9, BlankIsSound DEF TypeOK, Directories, INodeTables
  <1>11. \A k \in Spots : directoryCache'.entry[k] = IF k = spot THEN e ELSE entry[k]
    BY <1>5, <1>7 DEF TypeOK, Directories, entry
  <1>12. EntriesAreSound(directoryCache'.entry, iNodeTable'.open)
    <2>1. EntriesAreSound(entry, iNodeTable.open)
      BY DEF entry
    <2>2. iNodeTable'.open = iNodeTable.open \ {i}
      BY <1>7
    <2>3. \A k \in Spots : entry[k].open \/ entry[k].i_node_index # i
      BY <1>4, <2>1 DEF EntriesAreSound
    <2>4. \A k \in Spots : directoryCache'.entry[k].open <=> directoryCache'.entry[k].name = NoName
      BY <1>8, <1>9, <1>11, <2>1 DEF EntriesAreSound
    <2>5. \A k \in Spots : \/ directoryCache'.entry[k].open
                           \/ directoryCache'.entry[k].i_node_index \notin iNodeTable'.open
      BY <1>9, <1>11, <2>1, <2>2 DEF EntriesAreSound
    <2>6. ASSUME NEW k \in Spots, NEW m \in Spots, k # m,
                 ~directoryCache'.entry[k].open, ~directoryCache'.entry[m].open
          PROVE  /\ directoryCache'.entry[k].name # directoryCache'.entry[m].name
                 /\ directoryCache'.entry[k].i_node_index # directoryCache'.entry[m].i_node_index
      <3>1. CASE k # spot /\ m # spot
        BY <1>11, <2>1, <2>6, <3>1 DEF EntriesAreSound
      <3>2. CASE k = spot
        BY <1>2, <1>9, <1>11, <2>3, <2>6, <3>2
      <3>3. CASE m = spot
        BY <1>2, <1>9, <1>11, <2>3, <2>6, <3>3
      <3> QED  BY <3>1, <3>2, <3>3
    <2> QED  BY <2>4, <2>5, <2>6 DEF EntriesAreSound
  <1>13. MemoryFollowsDisk'
    <2>1. iNodeTable'.i_node[i] = INode_new
          /\ \A k \in Spots \ {i} : iNodeTable'.i_node[k] = iNodeTable.i_node[k]
      BY <1>4, <1>7 DEF TypeOK, INodeTables
    <2>2. iNodeTable'.open \subseteq iNodeTable.open
      BY <1>7
    <2> QED  BY <1>7, <2>1, <2>2, BlankIsSound DEF MemoryFollowsDisk
  <1>14. (fileDescriptorTable \in Descriptors)' /\ DescriptorsAreSound'
    <2>1. iNodeTable'.open \subseteq iNodeTable.open /\ i \notin iNodeTable'.open
      BY <1>7
    <2> DEFINE size == 0
    <2>2. size \in Nat /\ fileDescriptorTable' = Described(i, size)
      BY <1>7
    <2> HIDE DEF size
    <2> QED  BY <1>4, <1>6, <2>1, <2>2, DescribedIsSound DEF TypeOK
  <1>15. TypeOK'
    BY <1>7, <1>10, <1>14 DEF TypeOK
  <1>16. DiskIsSound'
    BY <1>7 DEF DiskIsSound
  <1> QED  BY <1>12, <1>13, <1>14, <1>15, <1>16

LEMMA CloseKeeps ==
  ASSUME IndInv, NEW f \in Fds, sfs_fclose(f)
  PROVE  IndInv'
  <1> USE DEF IndInv
  <1>1. /\ fileDescriptorTable' = [fileDescriptorTable EXCEPT ![f] = NotInUse]
        /\ UNCHANGED <<directoryCache, iNodeTable, freeBitMap, disk>>
    BY DEF sfs_fclose, memory
  <1>2. 0 \in Spots
    BY Sizes DEF Spots
  <1>3. /\ NotInUse \in [i_node_number : Spots, read_write_pointer : Nat, in_use : BOOLEAN]
        /\ NotInUse.i_node_number = 0 /\ NotInUse.in_use = FALSE
    BY <1>2 DEF NotInUse
  <1>4. /\ (fileDescriptorTable \in Descriptors)'
        /\ \A g \in Fds : fileDescriptorTable'[g] = IF g = f THEN NotInUse
                                                    ELSE fileDescriptorTable[g]
    BY <1>1, <1>3 DEF TypeOK, Descriptors
  <1>5. DescriptorsAreSound'
    BY <1>1, <1>3, <1>4 DEF DescriptorsAreSound, InUse
  <1> QED  BY <1>1, <1>4, <1>5 DEF TypeOK, DiskIsSound, MemoryFollowsDisk

LEMMA SeekKeeps ==
  ASSUME IndInv, NEW f \in Fds, NEW loc \in Places, sfs_fseek(f, loc)
  PROVE  IndInv'
  <1> USE DEF IndInv
  <1>1. /\ fileDescriptorTable' = [fileDescriptorTable EXCEPT ![f].read_write_pointer = loc]
        /\ UNCHANGED <<directoryCache, iNodeTable, freeBitMap, disk>>
    BY DEF sfs_fseek, memory
  <1>2. loc \in Nat
    BY SizesAssumption
  <1>3. (fileDescriptorTable \in Descriptors)' /\ DescriptorsAreSound'
    BY <1>1, <1>2, PointerMoves DEF TypeOK
  <1> QED  BY <1>1, <1>3 DEF TypeOK, DiskIsSound, MemoryFollowsDisk

LEMMA ReadKeeps ==
  ASSUME IndInv, NEW f \in Fds, NEW length \in Lengths, sfs_fread(f, length)
  PROVE  IndInv'
  <1> USE DEF IndInv
  <1> DEFINE place == fileDescriptorTable[f].read_write_pointer
             iNode == iNodeTable.i_node[fileDescriptorTable[f].i_node_number]
             at == place + AmountToRead(iNode, place, length)
  <1>1. /\ fileDescriptorTable' = [fileDescriptorTable EXCEPT ![f].read_write_pointer = at]
        /\ UNCHANGED <<directoryCache, iNodeTable, freeBitMap, disk>>
    BY DEF sfs_fread, memory
  <1>2. at \in Nat
    <2>1. place \in Nat /\ iNode.size \in Nat /\ length \in Nat
      BY SizesAssumption DEF TypeOK, Descriptors, INodeTables, INodes
    <2> HIDE DEF place, iNode
    <2> QED  BY <2>1 DEF AmountToRead
  <1> HIDE DEF at
  <1>3. (fileDescriptorTable \in Descriptors)' /\ DescriptorsAreSound'
    BY <1>1, <1>2, PointerMoves DEF TypeOK
  <1> QED  BY <1>1, <1>3 DEF TypeOK, DiskIsSound, MemoryFollowsDisk

LEMMA ListKeeps ==
  ASSUME IndInv, sfs_getnextfilename
  PROVE  IndInv'
  <1> USE DEF IndInv
  <1>1. /\ directoryCache' = [directoryCache EXCEPT !.readIndex = ReadIndexAfter(NextNames)]
        /\ UNCHANGED <<iNodeTable, freeBitMap, fileDescriptorTable, disk>>
    BY DEF sfs_getnextfilename
  <1>2. ReadIndexAfter(NextNames) \in 0 .. I_NODE_COUNT
    <2>1. directoryCache.readIndex \in 0 .. I_NODE_COUNT
      BY DEF TypeOK, Directories
    <2>2. NextNames # {} => directoryCache.readIndex < I_NODE_COUNT
      BY <2>1, Sizes DEF NextNames, Spots
    <2> QED  BY <2>1, <2>2, Sizes DEF ReadIndexAfter
  <1>3. (directoryCache \in Directories)' /\ directoryCache'.entry = directoryCache.entry
    BY <1>1, <1>2 DEF TypeOK, Directories
  <1> QED  BY <1>1, <1>3 DEF TypeOK, DiskIsSound, MemoryFollowsDisk, DescriptorsAreSound, InUse

LEMMA NoSpaceKeeps ==
  ASSUME IndInv, NEW f \in Fds, fwrite_NoSpace(f)
  PROVE  IndInv'
  <1> USE DEF IndInv
  <1> DEFINE i == fileDescriptorTable[f].i_node_number
             n == [iNodeTable.i_node[i] EXCEPT !.ind_pointer = -1]
  <1>1. /\ iNodeTable' = [iNodeTable EXCEPT !.i_node[i].ind_pointer = -1]
        /\ UNCHANGED <<directoryCache, freeBitMap, fileDescriptorTable, disk>>
    BY DEF fwrite_NoSpace
  <1>2. i \in Spots /\ iNodeTable.i_node[i] \in INodes
    BY DEF TypeOK, Descriptors, INodeTables
  <1>3. n \in INodes /\ n.ind_pointer = -1 /\ n.pointer = iNodeTable.i_node[i].pointer
    BY <1>2 DEF INodes
  <1> HIDE DEF i
  <1>4. /\ (iNodeTable \in INodeTables)' /\ iNodeTable'.open = iNodeTable.open
        /\ \A k \in Spots : iNodeTable'.i_node[k] = IF k = i THEN n ELSE iNodeTable.i_node[k]
    BY <1>1, <1>2, <1>3 DEF TypeOK, INodeTables
  <1> HIDE DEF n
  <1>5. Blank(iNodeTable.i_node[i]) => Blank(n)
    BY <1>3 DEF Blank, DirectBlocks
  <1>6. MemoryFollowsDisk'
    BY <1>1, <1>2, <1>3, <1>4, <1>5 DEF MemoryFollowsDisk
  <1> QED  BY <1>1, <1>4, <1>6 DEF TypeOK, DiskIsSound, DescriptorsAreSound, InUse

LEMMA NothingKeeps ==
  ASSUME IndInv, NEW f \in Fds, fwrite_Nothing(f)
  PROVE  IndInv'
  <1> USE DEF IndInv
  <1> DEFINE data == disk.data
  <1>1. /\ disk' = Saved(freeBitMap', iNodeTable', directoryCache', data, AllWrites)
        /\ UNCHANGED <<directoryCache, iNodeTable, freeBitMap, fileDescriptorTable>>
    BY DEF fwrite_Nothing, memory
  <1>2. FilesAreApart(iNodeTable'.i_node, data, freeBitMap')
    BY <1>1, MemoryIsApart
  <1>3. data \in DataBlocks
    BY DEF TypeOK, Disks
  <1> HIDE DEF data
  <1>4. (disk \in Disks)' /\ DiskIsSound' /\ MemoryFollowsDisk'
    BY <1>1, <1>2, <1>3, SaveIsSound DEF TypeOK
  <1> QED  BY <1>1, <1>4 DEF TypeOK, DescriptorsAreSound, InUse

\* What fwrite_Saves and fwrite_Crashes write to can be written to.
LEMMA BuffersAreWritten ==
  ASSUME NEW v \in Bytes, NEW length \in Lengths
  PROVE  Buffer(v, length) \in Seq(Nat) /\ Len(Buffer(v, length)) > 0
  <1>1. v \in Nat /\ length \in Nat \ {0}
    BY SizesAssumption
  <1>2. Buffer(v, length) \in [1 .. length -> Nat]
    BY <1>1 DEF Buffer
  <1> HIDE DEF Buffer
  <1>3. Buffer(v, length) \in Seq(Nat) /\ Len(Buffer(v, length)) = length
    BY <1>1, <1>2
  <1> QED  BY <1>1, <1>3

LEMMA WrittenCan ==
  ASSUME IndInv, NEW f \in Fds,
         NeedsIndirect(iNodeTable.i_node[fileDescriptorTable[f].i_node_number])
             => freeBitMap # {}
  PROVE  /\ fileDescriptorTable[f].i_node_number \in Spots
         /\ fileDescriptorTable[f].read_write_pointer \in Nat
         /\ WriteIsPossible(iNodeTable.i_node[fileDescriptorTable[f].i_node_number])
  <1> DEFINE i == fileDescriptorTable[f].i_node_number
  <1>1. i \in Spots /\ fileDescriptorTable[f].read_write_pointer \in Nat
    BY DEF IndInv, TypeOK, Descriptors
  <1>2. FileIsSound(iNodeTable.i_node[i], IndirectOf(iNodeTable.i_node[i]), freeBitMap)
    BY <1>1, MemoryIsPart DEF IndInv
  <1>3. /\ iNodeTable.i_node[i] \in INodes /\ freeBitMap \in SUBSET Blocks
        /\ disk.data \in DataBlocks
    BY <1>1 DEF IndInv, TypeOK, Disks, INodeTables
  <1> QED  BY <1>1, <1>2, <1>3 DEF WriteIsPossible

LEMMA SavesKeeps ==
  ASSUME IndInv, NEW f \in Fds, NEW v \in Bytes, NEW length \in Lengths,
         fwrite_Saves(f, Buffer(v, length))
  PROVE  IndInv'
  <1> DEFINE i == fileDescriptorTable[f].i_node_number
             iNode == iNodeTable.i_node[i]
             place == fileDescriptorTable[f].read_write_pointer
             buf == Buffer(v, length)
  <1>1. /\ NeedsIndirect(iNode) => freeBitMap # {}
        /\ FitsINode(place, buf) /\ UNCHANGED directoryCache
    BY DEF fwrite_Saves
  <1>2. i \in Spots /\ place \in Nat /\ WriteIsPossible(iNode)
    BY <1>1, WrittenCan
  <1>3. PICK s \in Written(iNode, place, buf) :
           /\ freeBitMap' = s.free
           /\ iNodeTable' = [iNodeTable EXCEPT !.i_node[i] = s.iNode]
           /\ fileDescriptorTable' =
                  [fileDescriptorTable EXCEPT ![f].read_write_pointer = s.at]
           /\ disk' = Saved(freeBitMap', iNodeTable', directoryCache, s.data, AllWrites)
    BY DEF fwrite_Saves
  <1>4. buf \in Seq(Nat) /\ Len(buf) > 0
    BY BuffersAreWritten
  <1> HIDE DEF buf
  <1>5. FileIsWritten(iNode, s)
    BY <1>1, <1>2, <1>3, <1>4, WriteEnds
  <1>6. s.free \in SUBSET Blocks /\ s.iNode \in INodes /\ s.data \in DataBlocks /\ s.at \in Nat
    BY <1>5 DEF FileIsWritten, WriteStates
  <1>7. FilesAreApart([iNodeTable.i_node EXCEPT ![i] = s.iNode], s.data, s.free)
    BY <1>2, <1>5, WriteFits DEF IndInv
  <1> HIDE DEF i, iNode, place
  <1> USE DEF IndInv
  <1>8. /\ (iNodeTable \in INodeTables)' /\ iNodeTable'.open = iNodeTable.open
        /\ iNodeTable'.i_node = [iNodeTable.i_node EXCEPT ![i] = s.iNode]
    BY <1>2, <1>3, <1>6 DEF TypeOK, INodeTables
  <1>9. (fileDescriptorTable \in Descriptors)' /\ DescriptorsAreSound'
    <2> DEFINE at == s.at
    <2>1. at \in Nat
          /\ fileDescriptorTable' = [fileDescriptorTable EXCEPT ![f].read_write_pointer = at]
      BY <1>3, <1>6
    <2> HIDE DEF at
    <2> QED  BY <1>8, <2>1, PointerMoves DEF TypeOK
  <1>10. EntriesAreSound(directoryCache'.entry, iNodeTable'.open)
    BY <1>1, <1>8
  <1>11. (disk \in Disks)' /\ DiskIsSound' /\ MemoryFollowsDisk'
    <2> DEFINE data == s.data
    <2>1. /\ data \in DataBlocks /\ FilesAreApart(iNodeTable'.i_node, data, freeBitMap')
          /\ disk' = Saved(freeBitMap', iNodeTable', directoryCache', data, AllWrites)
      BY <1>1, <1>3, <1>6, <1>7, <1>8
    <2>2. (directoryCache \in Directories)' /\ (freeBitMap \in SUBSET Blocks)'
      BY <1>1, <1>3, <1>6 DEF TypeOK
    <2> HIDE DEF data
    <2> QED  BY <1>8, <1>10, <2>1, <2>2, SaveIsSound
  <1> QED  BY <1>1, <1>3, <1>6, <1>8, <1>9, <1>10, <1>11 DEF TypeOK

LEMMA DirectoryAfterRemoval ==
  ASSUME IndInv, NEW spot \in Spots
  PROVE  LET d == DirectoryCache_deleteIndex(directoryCache, spot)
         IN  d \in Directories /\ EntriesAreSound(d.entry, iNodeTable.open)
  <1> DEFINE d == DirectoryCache_deleteIndex(directoryCache, spot)
             entry == directoryCache.entry
  <1>1. /\ directoryCache \in Directories
        /\ EntriesAreSound(entry, iNodeTable.open)
    BY DEF IndInv, TypeOK
  <1>2. /\ NoEntry \in [name : Names \cup {NoName}, i_node_index : Spots, open : BOOLEAN]
        /\ NoEntry.name = NoName /\ NoEntry.open = TRUE
    BY Sizes DEF NoEntry, Spots
  <1>3. d.entry = [entry EXCEPT ![spot] = NoEntry]
    BY DEF DirectoryCache_deleteIndex
  <1>4. d.readIndex \in 0 .. I_NODE_COUNT
    <2>1. spot + 1 \in Nat /\ I_NODE_COUNT \in Nat \ {0} /\ spot + 1 <= I_NODE_COUNT
      BY Sizes DEF Spots
    <2>2. (spot + 1) % I_NODE_COUNT \in 0 .. I_NODE_COUNT
      BY <2>1
    <2>3. directoryCache.readIndex \in 0 .. I_NODE_COUNT
      BY <1>1 DEF Directories
    <2> QED  BY <2>2, <2>3 DEF DirectoryCache_deleteIndex
  <1>5. /\ \A k \in Spots : d.entry[k] = IF k = spot THEN NoEntry ELSE entry[k]
        /\ d.entry \in [Spots -> [name : Names \cup {NoName}, i_node_index : Spots,
                                  open : BOOLEAN]]
    BY <1>1, <1>2, <1>3 DEF Directories
  <1>6. d = [entry |-> d.entry, readIndex |-> d.readIndex]
    BY DEF DirectoryCache_deleteIndex
  <1> HIDE DEF d, entry
  <1>7. d \in Directories
    BY <1>4, <1>5, <1>6 DEF Directories
  <1>8. EntriesAreSound(d.entry, iNodeTable.open)
    <2>1. \A k \in Spots : d.entry[k].open <=> d.entry[k].name = NoName
      BY <1>1, <1>2, <1>5 DEF EntriesAreSound
    <2>2. \A k \in Spots : \/ d.entry[k].open
                           \/ d.entry[k].i_node_index \notin iNodeTable.open
      BY <1>1, <1>2, <1>5 DEF EntriesAreSound
    <2>3. ASSUME NEW k \in Spots, NEW m \in Spots, k # m, ~d.entry[k].open, ~d.entry[m].open
          PROVE  /\ d.entry[k].name # d.entry[m].name
                 /\ d.entry[k].i_node_index # d.entry[m].i_node_index
      <3>1. d.entry[k] = entry[k] /\ d.entry[m] = entry[m]
        BY <1>2, <1>5, <2>3
      <3> QED  BY <1>1, <2>3, <3>1 DEF EntriesAreSound
    <2> QED  BY <2>1, <2>2, <2>3 DEF EntriesAreSound
  <1> QED  BY <1>7, <1>8 DEF d

LEMMA RemovedSpotIsThere ==
  ASSUME IndInv, NEW name \in Names, DirectoryCache_getNameIndex(name) # -1
  PROVE  DirectoryCache_getNameIndex(name) \in Spots
  BY NameIndexIsThere DEF IndInv

LEMMA RemoveKeeps ==
  ASSUME IndInv, NEW name \in Names, sfs_remove(name)
  PROVE  IndInv'
  <1> DEFINE spot == DirectoryCache_getNameIndex(name)
             r == Removed(spot)
  <1>1. spot \in Spots
    BY RemovedSpotIsThere DEF sfs_remove
  <1>2. /\ freeBitMap' = r.free /\ iNodeTable' = r.table /\ directoryCache' = r.directory
        /\ disk' = Saved(r.free, r.table, r.directory, r.data, AllWrites)
        /\ UNCHANGED fileDescriptorTable
    BY DEF sfs_remove
  <1>3. /\ r.free \in SUBSET Blocks /\ r.table \in INodeTables /\ r.data \in DataBlocks
        /\ r.table.open = iNodeTable.open
        /\ FilesAreApart(r.table.i_node, r.data, r.free)
    BY <1>1, RemovalFits DEF IndInv
  <1>4. r.directory = DirectoryCache_deleteIndex(directoryCache, spot)
    BY DEF Removed
  <1>5. r.directory \in Directories /\ EntriesAreSound(r.directory.entry, iNodeTable.open)
    BY <1>1, <1>4, DirectoryAfterRemoval
  <1> DEFINE data == r.data
  <1>6. disk' = Saved(freeBitMap', iNodeTable', directoryCache', data, AllWrites)
    BY <1>2
  <1>7. /\ (directoryCache \in Directories)' /\ (iNodeTable \in INodeTables)'
        /\ (freeBitMap \in SUBSET Blocks)' /\ data \in DataBlocks
        /\ FilesAreApart(iNodeTable'.i_node, data, freeBitMap')
        /\ EntriesAreSound(directoryCache'.entry, iNodeTable'.open)
    BY <1>2, <1>3, <1>5
  <1> HIDE DEF data
  <1>8. (disk \in Disks)' /\ DiskIsSound' /\ MemoryFollowsDisk'
    BY <1>6, <1>7, SaveIsSound
  <1>9. iNodeTable'.open = iNodeTable.open
    BY <1>2, <1>3
  <1> HIDE DEF r
  <1>10. DescriptorsAreSound'
    BY <1>2, <1>9 DEF IndInv, DescriptorsAreSound, InUse
  <1> QED  BY <1>2, <1>7, <1>8, <1>10 DEF IndInv, TypeOK

LEMMA MountKeeps ==
  ASSUME IndInv, mksfs \/ mksfs_Fresh
  PROVE  IndInv'
  <1>1. CASE mksfs
    <2>1. disk' = disk /\ LoadedFrom(disk')
      BY <1>1 DEF mksfs
    <2>2. (disk \in Disks)' /\ DiskIsSound'
      BY <2>1 DEF IndInv, TypeOK, DiskIsSound
    <2> QED  BY <2>1, <2>2, MountIsSound
  <1>2. CASE mksfs_Fresh
    <2>1. disk' = FreshDisk /\ LoadedFrom(disk')
      BY <1>2 DEF mksfs_Fresh
    <2>2. (disk \in Disks)' /\ DiskIsSound'
      BY <2>1, EmptyDiskIsSound DEF DiskIsSound
    <2> QED  BY <2>1, <2>2, MountIsSound
  <1> QED  BY <1>1, <1>2

LEMMA WriteCrashKeeps ==
  ASSUME IndInv, NEW f \in Fds, NEW v \in Bytes, NEW length \in Lengths,
         fwrite_Crashes(f, Buffer(v, length))
  PROVE  IndInv'
  <1> DEFINE i == fileDescriptorTable[f].i_node_number
             iNode == iNodeTable.i_node[i]
             place == fileDescriptorTable[f].read_write_pointer
             buf == Buffer(v, length)
             table(s) == [iNodeTable EXCEPT !.i_node[i] = s.iNode]
             nodes == disk.iNodeTable.i_node
  <1>1. /\ NeedsIndirect(iNode) => freeBitMap # {}
        /\ FitsINode(place, buf)
    BY DEF fwrite_Crashes
  <1>2. i \in Spots /\ place \in Nat /\ WriteIsPossible(iNode)
    BY <1>1, WrittenCan
  <1>3. \/ \E turns \in 1 .. TurnsOf(place, buf) :
              \E s \in Turned(iNode, place, buf, turns) :
                 CrashedWith(s.free, table(s), directoryCache, s.data, 0)
        \/ \E s \in Written(iNode, place, buf), writes \in 0 .. AllWrites - 1 :
              /\ writes = 0 => NeedsIndirect(iNode) \/ s.free = freeBitMap
              /\ CrashedWith(s.free, table(s), directoryCache, s.data, writes)
    BY DEF fwrite_Crashes
  <1>4. buf \in Seq(Nat) /\ Len(buf) > 0
    BY BuffersAreWritten
  <1>5. TypeOK /\ DiskIsSound /\ MemoryFollowsDisk
    BY DEF IndInv
  <1>6. \A s : s.iNode \in INodes =>
           /\ table(s) \in INodeTables /\ table(s).open \subseteq disk.iNodeTable.open
           /\ table(s).i_node = [iNodeTable.i_node EXCEPT ![i] = s.iNode]
    <2>1. iNodeTable \in INodeTables /\ iNodeTable.open \subseteq disk.iNodeTable.open
      BY <1>5 DEF TypeOK, MemoryFollowsDisk
    <2> HIDE DEF i
    <2> QED  BY <1>2, <2>1 DEF INodeTables
  <1> HIDE DEF buf, place
  <1>7. CASE \E turns \in 1 .. TurnsOf(place, buf) :
                \E s \in Turned(iNode, place, buf, turns) :
                   CrashedWith(s.free, table(s), directoryCache, s.data, 0)
    <2>0. PICK turns \in 1 .. TurnsOf(place, buf) :
             \E s \in Turned(iNode, place, buf, turns) :
                CrashedWith(s.free, table(s), directoryCache, s.data, 0)
      BY <1>7
    <2>1. turns \in 0 .. TurnsOf(place, buf)
      OBVIOUS
    <2>2. PICK s \in Turned(iNode, place, buf, turns) :
             CrashedWith(s.free, table(s), directoryCache, s.data, 0)
      BY <2>0
    <2>3. s \in WriteStates /\ WriteIsSound(iNode, s)
      BY <1>1, <1>2, <1>4, <2>1, <2>2, WriteTurns
    <2>4. FilesAreApart(nodes, s.data, freeBitMap)
      BY <1>2, <1>5, <2>3, TurnsKeepDisk
    <2> DEFINE free == s.free
               tables == table(s)
               data == s.data
               writes == 0
    <2>5. /\ free \in SUBSET Blocks /\ data \in DataBlocks
          /\ tables \in INodeTables /\ tables.open \subseteq disk.iNodeTable.open
          /\ writes \in 0 .. AllWrites - 1
          /\ CrashedWith(free, tables, directoryCache, data, writes)
      BY <1>6, <2>2, <2>3 DEF WriteStates, AllWrites
    <2>6. FilesAreApart(IF writes >= 2 THEN tables.i_node ELSE nodes, data,
                        IF writes >= 1 THEN free ELSE freeBitMap)
      BY <2>4
    <2> HIDE DEF free, tables, data, writes
    <2> QED  BY <2>5, <2>6, CrashIsSound
  <1>8. CASE \E s \in Written(iNode, place, buf), writes \in 0 .. AllWrites - 1 :
                /\ writes = 0 => NeedsIndirect(iNode) \/ s.free = freeBitMap
                /\ CrashedWith(s.free, table(s), directoryCache, s.data, writes)
    <2>1. PICK s \in Written(iNode, place, buf), writes \in 0 .. AllWrites - 1 :
                /\ writes = 0 => NeedsIndirect(iNode) \/ s.free = freeBitMap
                /\ CrashedWith(s.free, table(s), directoryCache, s.data, writes)
      BY <1>8
    <2>2. FileIsWritten(iNode, s)
      BY <1>1, <1>2, <1>4, WriteEnds
    <2>3. /\ FilesAreApart([iNodeTable.i_node EXCEPT ![i] = s.iNode], s.data, s.free)
          /\ FilesAreApart(nodes, s.data, s.free)
          /\ NeedsIndirect(iNode) \/ s.free = freeBitMap =>
                FilesAreApart(nodes, s.data, freeBitMap)
      BY <1>2, <1>5, <2>2, WriteFits
    <2> DEFINE free == s.free
               tables == table(s)
               data == s.data
    <2>4. /\ free \in SUBSET Blocks /\ data \in DataBlocks
          /\ tables \in INodeTables /\ tables.open \subseteq disk.iNodeTable.open
          /\ tables.i_node = [iNodeTable.i_node EXCEPT ![i] = s.iNode]
          /\ CrashedWith(free, tables, directoryCache, data, writes)
      BY <1>6, <2>1, <2>2 DEF FileIsWritten, WriteStates
    <2>5. writes \in {0, 1, 2}
      BY DEF AllWrites
    <2>6. FilesAreApart(IF writes >= 2 THEN tables.i_node ELSE nodes, data,
                        IF writes >= 1 THEN free ELSE freeBitMap)
      <3>1. CASE writes = 0
        BY <2>1, <2>3, <3>1
      <3>2. CASE writes = 1
        BY <2>3, <3>2
      <3>3. CASE writes = 2
        BY <2>3, <2>4, <3>3
      <3> QED  BY <2>5, <3>1, <3>2, <3>3
    <2> HIDE DEF free, tables, data
    <2> QED  BY <2>4, <2>6, CrashIsSound
  <1> QED  BY <1>3, <1>7, <1>8

LEMMA RemoveCrashKeeps ==
  ASSUME IndInv, NEW name \in Names, sfs_remove_Crashes(name)
  PROVE  IndInv'
  <1> DEFINE spot == DirectoryCache_getNameIndex(name)
             r == Removed(spot)
             nodes == disk.iNodeTable.i_node
  <1>1. spot \in Spots
    BY RemovedSpotIsThere DEF sfs_remove_Crashes
  <1>2. PICK writes \in 0 .. AllWrites - 1 :
           /\ writes = 1 => r.free = freeBitMap
           /\ CrashedWith(r.free, r.table, r.directory, r.data, writes)
    BY DEF sfs_remove_Crashes
  <1>3. /\ r.free \in SUBSET Blocks /\ r.table \in INodeTables /\ r.data \in DataBlocks
        /\ r.table.open = iNodeTable.open
        /\ FilesAreApart(r.table.i_node, r.data, r.free)
        /\ FilesAreApart(nodes, r.data, freeBitMap)
    BY <1>1, RemovalFits DEF IndInv
  <1> DEFINE free == r.free
             table == r.table
             directory == r.directory
             data == r.data
  <1>4. table.open \subseteq disk.iNodeTable.open
    BY <1>3 DEF IndInv, MemoryFollowsDisk
  <1>5. writes \in {0, 1, 2}
    BY DEF AllWrites
  <1>6. FilesAreApart(IF writes >= 2 THEN table.i_node ELSE nodes, data,
                      IF writes >= 1 THEN free ELSE freeBitMap)
    <2>1. CASE writes = 0
      BY <1>3, <2>1
    <2>2. CASE writes = 1
      BY <1>2, <1>3, <2>2
    <2>3. CASE writes = 2
      BY <1>3, <2>3
    <2> QED  BY <1>5, <2>1, <2>2, <2>3
  <1>7. /\ free \in SUBSET Blocks /\ table \in INodeTables /\ data \in DataBlocks
        /\ CrashedWith(free, table, directory, data, writes)
    BY <1>2, <1>3
  <1> HIDE DEF free, table, directory, data
  <1> QED  BY <1>4, <1>6, <1>7, CrashIsSound

LEMMA NothingCrashKeeps ==
  ASSUME IndInv, NEW writes \in 0 .. AllWrites - 1,
         CrashedWith(freeBitMap, iNodeTable, directoryCache, disk.data, writes)
  PROVE  IndInv'
  <1> DEFINE data == disk.data
             table == iNodeTable
             free == freeBitMap
  <1>1. /\ free \in SUBSET Blocks /\ table \in INodeTables /\ data \in DataBlocks
        /\ table.open \subseteq disk.iNodeTable.open
        /\ CrashedWith(free, table, directoryCache, data, writes)
    BY DEF IndInv, TypeOK, Disks, MemoryFollowsDisk
  <1>2. /\ FilesAreApart(table.i_node, data, free)
        /\ FilesAreApart(disk.iNodeTable.i_node, data, free)
    BY MemoryIsApart DEF IndInv, DiskIsSound, MemoryFollowsDisk
  <1>3. FilesAreApart(IF writes >= 2 THEN table.i_node ELSE disk.iNodeTable.i_node, data,
                      IF writes >= 1 THEN free ELSE freeBitMap)
    BY <1>2
  <1> HIDE DEF data, table, free
  <1> QED  BY <1>1, <1>3, CrashIsSound

LEMMA InitHolds == Init => IndInv
  <1> SUFFICES ASSUME Init PROVE IndInv
    OBVIOUS
  <1>1. /\ disk = FreshDisk /\ directoryCache = disk.directoryCache
        /\ iNodeTable = disk.iNodeTable /\ freeBitMap = disk.freeBitMap
        /\ fileDescriptorTable = EmptyFds
    BY DEF Init, FreshDisk
  <1>2. TypeOK
    BY <1>1, EmptyDiskIsSound, NoneIsInUse DEF TypeOK, Disks
  <1>3. DiskIsSound
    BY <1>1, EmptyDiskIsSound DEF DiskIsSound
  <1>4. MemoryFollowsDisk
    BY <1>1 DEF MemoryFollowsDisk
  <1>5. EntriesAreSound(directoryCache.entry, iNodeTable.open)
    BY <1>1, <1>3 DEF DiskIsSound
  <1>6. DescriptorsAreSound
    BY <1>1, NoneIsInUse DEF DescriptorsAreSound, InUse
  <1> QED  BY <1>2, <1>3, <1>4, <1>5, <1>6 DEF IndInv

LEMMA CallsKeep ==
  ASSUME IndInv, Next
  PROVE  IndInv'
  <1>1. CASE \E name \in Names : sfs_fopen(name) \/ sfs_remove(name)
    BY <1>1, OpenExistingKeeps, OpenNewKeeps, RemoveKeeps DEF sfs_fopen
  <1>2. ASSUME NEW f \in Fds,
               \/ sfs_fclose(f)
               \/ \E loc \in Places : sfs_fseek(f, loc)
               \/ \E length \in Lengths : sfs_fread(f, length)
               \/ \E v \in Bytes, length \in Lengths : sfs_fwrite(f, Buffer(v, length))
               \/ fwrite_Nothing(f)
        PROVE  IndInv'
    BY <1>2, CloseKeeps, SeekKeeps, ReadKeeps, NoSpaceKeeps, SavesKeeps, NothingKeeps
       DEF sfs_fwrite
  <1>3. CASE sfs_getnextfilename
    BY <1>3, ListKeeps
  <1>4. CASE mksfs \/ mksfs_Fresh
    BY <1>4, MountKeeps
  <1> QED  BY <1>1, <1>2, <1>3, <1>4 DEF Next

LEMMA CrashesKeep ==
  ASSUME IndInv, Crash
  PROVE  IndInv'
  BY RemoveCrashKeeps, WriteCrashKeeps, NothingCrashKeeps DEF Crash

LEMMA StutteringKeeps ==
  ASSUME IndInv, UNCHANGED vars
  PROVE  IndInv'
  BY DEF IndInv, TypeOK, DiskIsSound, MemoryFollowsDisk, DescriptorsAreSound, InUse,
         vars, memory

-----------------------------------------------------------------------------
\* The theorems.

\* Whatever calls a program makes, with open handles or closed ones, however often
\* it mounts the disk or formats it, and wherever it dies outside the two windows
\* that the crash actions leave out, the disk and the tables in memory stay sound.
THEOREM SfsInvariant == CrashSpec => []IndInv
  <1>1. IndInv /\ [Next \/ Crash]_vars => IndInv'
    BY CallsKeep, CrashesKeep, StutteringKeeps
  <1> QED  BY InitHolds, <1>1, PTL DEF CrashSpec

\* The tables, the descriptors and the data blocks keep their form: no write, no
\* removal and no full disk puts anything into a field that does not belong there,
\* and a listing, which moves readIndex past used entries and over gaps, and a
\* removal, which moves it too, never let it run away.
THEOREM SfsIsTyped == CrashSpec => []TypeOK
  <1>1. IndInv => TypeOK
    BY DEF IndInv
  <1> QED  BY <1>1, SfsInvariant, PTL

\* A reference of an i-node and where it leads.
LEMMA ReferencesLead ==
  ASSUME NEW i \in Spots, NEW r \in References(i)
  PROVE  LET iNode == iNodeTable.i_node[i]
             ind   == IndirectOf(iNode)
         IN  \/ \E j \in Direct : /\ r = <<"direct", i, j>>
                                  /\ Referred(r) = iNode.pointer[j]
                                  /\ iNode.pointer[j] \in DirectBlocks(iNode)
             \/ \E c \in Cells : /\ r = <<"indirect", i, c>>
                                 /\ Referred(r) = ind[c]
                                 /\ ind[c] \in IndirectBlocks(ind)
             \/ /\ r = <<"pointer", i, 0>>
                /\ Referred(r) = iNode.ind_pointer /\ iNode.ind_pointer # -1
  <1> DEFINE iNode == iNodeTable.i_node[i]
             ind   == IndirectOf(iNode)
  <1>1. CASE \E j \in Direct : r = <<"direct", i, j>> /\ iNode.pointer[j] # -1
    <2>1. PICK j \in Direct : r = <<"direct", i, j>> /\ iNode.pointer[j] # -1
      BY <1>1
    <2>2. r[1] = "direct" /\ r[2] = i /\ r[3] = j
      BY <2>1
    <2>3. Referred(r) = iNode.pointer[j]
      BY <2>2 DEF Referred
    <2> QED  BY <2>1, <2>3 DEF DirectBlocks
  <1>2. CASE \E c \in Cells : r = <<"indirect", i, c>> /\ ind[c] # 0
    <2>1. PICK c \in Cells : r = <<"indirect", i, c>> /\ ind[c] # 0
      BY <1>2
    <2>2. r[1] = "indirect" /\ r[2] = i /\ r[3] = c
      BY <2>1
    <2>3. Referred(r) = ind[c]
      BY <2>2 DEF Referred
    <2> QED  BY <2>1, <2>3 DEF IndirectBlocks
  <1>3. CASE r = <<"pointer", i, 0>> /\ iNode.ind_pointer # -1
    <2>1. r[1] = "pointer" /\ r[2] = i /\ r[3] = 0
      BY <1>3
    <2>2. Referred(r) = iNode.ind_pointer
      BY <2>1 DEF Referred
    <2> QED  BY <1>3, <2>2
  <1> QED  BY <1>1, <1>2, <1>3 DEF References

LEMMA FilesApartShareNothing == IndInv => NoBlockShared /\ ZeroIsNoDataBlock
  <1> SUFFICES ASSUME IndInv PROVE NoBlockShared /\ ZeroIsNoDataBlock
    OBVIOUS
  <1> DEFINE node(i) == iNodeTable.i_node[i]
             ind(i)  == IndirectOf(node(i))
             Of(i)   == BlocksOf(node(i), ind(i))
  <1>1. /\ \A i \in Spots : FileIsSound(node(i), ind(i), freeBitMap)
        /\ \A i, j \in Spots : i = j \/ Of(i) \cap Of(j) = {}
    BY MemoryIsApart DEF IndInv, FilesAreApart, IndirectOf
  <1>2. ASSUME NEW i \in Spots, NEW r \in References(i)
        PROVE  Referred(r) \in Of(i)
    BY <1>2, ReferencesLead DEF BlocksOf
  <1>3. ASSUME NEW r \in AllReferences
        PROVE  Referred(r) \in Blocks \ freeBitMap
    <2>1. PICK i \in Spots : r \in References(i)
      BY DEF AllReferences
    <2> QED  BY <1>1, <1>2, <2>1 DEF FileIsSound
  <1>4. ASSUME NEW i \in Spots, NEW r \in References(i), NEW q \in References(i),
               Referred(r) = Referred(q)
        PROVE  r = q
    <2>1. OwnBlocksDiffer(node(i), ind(i))
      BY <1>1 DEF FileIsSound
    <2>2. \A j, k \in Direct : /\ node(i).pointer[j] = node(i).pointer[k]
                               /\ node(i).pointer[j] \in DirectBlocks(node(i))
                               => j = k
      BY <2>1 DEF OwnBlocksDiffer, DirectBlocks
    <2>3. \A c, d \in Cells : /\ ind(i)[c] = ind(i)[d]
                              /\ ind(i)[c] \in IndirectBlocks(ind(i))
                              => c = d
      BY <2>1 DEF OwnBlocksDiffer, IndirectBlocks
    <2>4. /\ DirectBlocks(node(i)) \cap IndirectBlocks(ind(i)) = {}
          /\ node(i).ind_pointer \notin DirectBlocks(node(i)) \cup IndirectBlocks(ind(i))
      BY <2>1 DEF OwnBlocksDiffer
    <2> DEFINE IsDirect(x, j) == /\ x = <<"direct", i, j>>
                                 /\ Referred(x) = node(i).pointer[j]
                                 /\ node(i).pointer[j] \in DirectBlocks(node(i))
               IsCell(x, c) == /\ x = <<"indirect", i, c>> /\ Referred(x) = ind(i)[c]
                               /\ ind(i)[c] \in IndirectBlocks(ind(i))
               IsPointer(x) == x = <<"pointer", i, 0>> /\ Referred(x) = node(i).ind_pointer
    <2>5. \/ \E j \in Direct : IsDirect(r, j)
          \/ \E c \in Cells : IsCell(r, c)
          \/ IsPointer(r)
      BY ReferencesLead
    <2>6. \/ \E j \in Direct : IsDirect(q, j)
          \/ \E c \in Cells : IsCell(q, c)
          \/ IsPointer(q)
      BY ReferencesLead
    <2> HIDE DEF node, ind
    <2>7. CASE \E j \in Direct : IsDirect(r, j)
      BY <1>4, <2>2, <2>4, <2>6, <2>7
    <2>8. CASE \E c \in Cells : IsCell(r, c)
      BY <1>4, <2>3, <2>4, <2>6, <2>8
    <2>9. CASE IsPointer(r)
      BY <1>4, <2>4, <2>6, <2>9
    <2> QED  BY <2>5, <2>7, <2>8, <2>9
  <1>5. ASSUME NEW r \in AllReferences, NEW q \in AllReferences, Referred(r) = Referred(q)
        PROVE  r = q
    <2>1. PICK i \in Spots : r \in References(i)
      BY DEF AllReferences
    <2>2. PICK j \in Spots : q \in References(j)
      BY DEF AllReferences
    <2>3. Referred(r) \in Of(i) /\ Referred(q) \in Of(j)
      BY <1>2, <2>1, <2>2
    <2>4. i = j
      BY <1>1, <1>5, <2>3
    <2> QED  BY <1>4, <1>5, <2>1, <2>2, <2>4
  <1>6. ASSUME NEW r \in AllReferences, r[1] = "direct"
        PROVE  Referred(r) # 0
    <2>1. PICK i \in Spots : r \in References(i)
      BY DEF AllReferences
    <2>2. Referred(r) \in DirectBlocks(node(i))
      <3>1. \A c \in Cells : r # <<"indirect", i, c>>
        BY <1>6
      <3>2. r # <<"pointer", i, 0>>
        BY <1>6
      <3> QED  BY <2>1, <3>1, <3>2, ReferencesLead
    <2> QED  BY <1>1, <2>2 DEF FileIsSound
  <1> QED  BY <1>3, <1>5, <1>6 DEF NoBlockShared, ZeroIsNoDataBlock

\* No block belongs to two places of files and none that belongs to one is free,
\* for all sizes of the disk and its tables: what sfs_fwrite takes from the bitmap
\* and what sfs_remove gives back to it never meet, also when the disk fills up
\* in the middle of a write or the program dies between two writes to the disk
\* outside the two windows that the crash actions leave out.
THEOREM SfsSharesNoBlock == CrashSpec => []NoBlockShared
  <1>1. IndInv => NoBlockShared
    BY FilesApartShareNothing
  <1> QED  BY <1>1, SfsInvariant, PTL

\* An entry of 0 in an indirect block, which sfs_fwrite and sfs_remove take for
\* no block, is never a block of data: block 0 is the first that is ever taken,
\* for an indirect block, and sfs_remove, which frees no indirect block, keeps it.
THEOREM SfsZeroIsNoData == CrashSpec => []ZeroIsNoDataBlock
  <1>1. IndInv => ZeroIsNoDataBlock
    BY FilesApartShareNothing
  <1> QED  BY <1>1, SfsInvariant, PTL

\* Two used entries of the directory have different names and different i-nodes,
\* whichever entries sfs_fopen wrote over, and neither a name nor an open
\* descriptor leads to an i-node that the next new file could get.
THEOREM SfsDirectoryIsSound == CrashSpec => []DirectoryIsSound
  <1>1. IndInv => DirectoryIsSound
    BY DEF IndInv, DirectoryIsSound, EntriesAreSound, DescriptorsAreSound, Entry, InUse
  <1> QED  BY <1>1, SfsInvariant, PTL

\* Two open descriptors are never on the same file, but for the file at i-node 0,
\* however descriptors were opened and closed.
THEOREM SfsOneFdPerFile == CrashSpec => []OneFdPerFile
  <1>1. IndInv => OneFdPerFile
    BY DEF IndInv, OneFdPerFile, DescriptorsAreSound
  <1> QED  BY <1>1, SfsInvariant, PTL

\* The programs of the other specifications do less than those of CrashSpec:
\* what is proved of CrashSpec holds of a program that uses open handles only,
\* and of the calls until the first that goes wrong.
THEOREM OthersAllowLess ==
  /\ Spec => CrashSpec
  /\ OpenHandlesSpec => CrashSpec
  /\ SoundSpec => CrashSpec
  <1>1. [Next]_vars => [Next \/ Crash]_vars
    OBVIOUS
  <1>2. [Next /\ "closed" \notin faults']_vars => [Next \/ Crash]_vars
    OBVIOUS
  <1>3. [Next /\ faults' = {}]_vars => [Next \/ Crash]_vars
    OBVIOUS
  <1>4. Spec => CrashSpec
    BY <1>1, PTL DEF Spec, CrashSpec
  <1>5. OpenHandlesSpec => CrashSpec
    BY <1>2, PTL DEF OpenHandlesSpec, CrashSpec
  <1>6. SoundSpec => CrashSpec
    BY <1>3, PTL DEF SoundSpec, CrashSpec
  <1> QED  BY <1>4, <1>5, <1>6
=============================================================================
