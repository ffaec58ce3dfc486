-------------------------- MODULE SimpleFileSystem --------------------------
(***************************************************************************)
(* The file system of assignment 3 (sfs_api.c and data_structures): one    *)
(* directory of files on an emulated disk, with the directory, the i-nodes *)
(* and the bitmap of free blocks cached in memory and written back whole   *)
(* by sfs_fwrite and sfs_remove.  A program calls it one call after        *)
(* another, with handles it got from sfs_fopen, and mounts it again at any *)
(* time.  A call that returns an error changes nothing and is not an       *)
(* action, but for the one that does.                                      *)
(*                                                                         *)
(* A block is an array of cells: a cell is a byte of a file or, in an      *)
(* indirect block, an index (sizeof(int) is 1 at this scale).  The mode,   *)
(* owner and link count of an i-node are never read and left out, and so   *)
(* are the superblock, which nobody reads, and the check of a name's form. *)
(***************************************************************************)
EXTENDS Integers, Sequences, FiniteSetsExt

CONSTANTS Names, NoName,               \* valid names, and the empty one
          I_NODE_COUNT,
          FILE_DESCRIPTOR_TABLE_SIZE,
          BLOCKS_PER_I_NODE,
          DISK_BLOCK_SIZE,
          DATA_BLOCK_COUNT,            \* the blocks after the tables
          Bytes, Lengths, Places       \* what programs write, how much, and
                                       \* where they seek

ASSUME SizesAssumption ==
    /\ \A n \in {I_NODE_COUNT, FILE_DESCRIPTOR_TABLE_SIZE, BLOCKS_PER_I_NODE,
                 DISK_BLOCK_SIZE, DATA_BLOCK_COUNT} : n \in Nat \ {0}
    /\ Lengths \subseteq Nat \ {0} /\ Places \subseteq Nat /\ Bytes \subseteq Nat
    /\ NoName \notin Names

VARIABLES directoryCache,       \* entries with name, i_node_index and open
                                \* ("this spot is free"), and readIndex
          iNodeTable,           \* i-nodes, and which spots are open
          freeBitMap,           \* the free blocks
          fileDescriptorTable,
          disk,                 \* the saved tables, and the data blocks
          result,               \* what the last call gave back
          faults                \* history: what went wrong

memory == <<directoryCache, iNodeTable, freeBitMap>>
vars   == <<memory, fileDescriptorTable, disk, result, faults>>

Spots  == 0 .. I_NODE_COUNT - 1
Fds    == 0 .. FILE_DESCRIPTOR_TABLE_SIZE - 1
Blocks == 0 .. DATA_BLOCK_COUNT - 1
Cells  == 0 .. DISK_BLOCK_SIZE - 1
Direct == 0 .. BLOCKS_PER_I_NODE - 1
INDIRECT_BLOCK_POINTER_SIZE == DISK_BLOCK_SIZE

-----------------------------------------------------------------------------
\* The tables.

EmptyBlock == [c \in Cells |-> 0]
INode_new  == [size |-> 0, ind_pointer |-> -1, pointer |-> [j \in Direct |-> -1]]
NoEntry    == [name |-> NoName, i_node_index |-> 0, open |-> TRUE]
NotInUse   == [i_node_number |-> 0, read_write_pointer |-> 0, in_use |-> FALSE]

EmptyDirectory == [entry |-> [i \in Spots |-> NoEntry], readIndex |-> 0]
EmptyINodes    == [i_node |-> [i \in Spots |-> INode_new], open |-> Spots]
EmptyFds       == [f \in Fds |-> NotInUse]

\* mksfs(1).
FreshDisk == [freeBitMap |-> Blocks, iNodeTable |-> EmptyINodes,
              directoryCache |-> EmptyDirectory,
              data |-> [b \in Blocks |-> EmptyBlock]]

Init == /\ directoryCache = EmptyDirectory
        /\ iNodeTable = EmptyINodes
        /\ freeBitMap = Blocks
        /\ fileDescriptorTable = EmptyFds
        /\ disk = FreshDisk
        /\ result = <<>>
        /\ faults = {}

FirstOf(S) == IF S = {} THEN -1 ELSE Min(S)

Entry(i) == directoryCache.entry[i]
DirectoryCache_getNameIndex(name) == FirstOf({i \in Spots : Entry(i).name = name})

\* The spots are tried from readIndex on, but what is returned is how many were
\* tried.  Past the last spot the test reads the bytes of readIndex.
DirectoryCache_isOpen(i) == IF i \in Spots THEN Entry(i).open
                                           ELSE i > I_NODE_COUNT
DirectoryCache_getOpenIndex ==
    FirstOf({i \in Spots : DirectoryCache_isOpen(directoryCache.readIndex + i)})

INodeTable_getOpenIndex == FirstOf(iNodeTable.open)

FileDescriptorTable_getOpenIndex ==
    FirstOf({f \in Fds : ~fileDescriptorTable[f].in_use})

\* The descriptors not in use are searched as well.
FileDescriptorTable_getIndexOfInode_FirstOnly(i) ==
    IF fileDescriptorTable[0].i_node_number = i THEN 0 ELSE -1
FileDescriptorTable_getIndexOfInode(i) ==
    FirstOf({f \in Fds : fileDescriptorTable[f].i_node_number = i})

FreeBitMap_getFreeBit(free) == FirstOf(free)

\* Out of the data blocks there is only the empty block before them.
read_data_block(data, b) == IF b \in Blocks THEN data[b] ELSE EmptyBlock
write_data_block(data, b, block) ==
    IF b \in Blocks THEN [data EXCEPT ![b] = block] ELSE data

\* save_local_file_system_to_disk, in the order of its writes: the first of
\* them have been done.
Saved_INodesFirst(free, table, directory, data, writes) ==
    [freeBitMap     |-> IF writes >= 2 THEN free ELSE disk.freeBitMap,
     iNodeTable     |-> IF writes >= 1 THEN table ELSE disk.iNodeTable,
     directoryCache |-> IF writes >= 3 THEN directory ELSE disk.directoryCache,
     data           |-> data]
Saved(free, table, directory, data, writes) ==
    [freeBitMap     |-> IF writes >= 1 THEN free ELSE disk.freeBitMap,
     iNodeTable     |-> IF writes >= 2 THEN table ELSE disk.iNodeTable,
     directoryCache |-> IF writes >= 3 THEN directory ELSE disk.directoryCache,
     data           |-> data]

AllWrites == 3

-----------------------------------------------------------------------------
\* sfs_getfilesize and sfs_fopen.

sfs_getfilesize(name) ==
    LET spot == DirectoryCache_getNameIndex(name)
    IN  IF spot = -1 THEN -1 ELSE iNodeTable.i_node[Entry(spot).i_node_index].size

\* The descriptor an open gives out for i-node i: one that has that i-node number
\* is taken as it is.
FdFor(i) == IF FileDescriptorTable_getIndexOfInode(i) # -1
            THEN FileDescriptorTable_getIndexOfInode(i)
            ELSE FileDescriptorTable_getOpenIndex

\* The descriptor table with a descriptor for i-node i, given its size.
Described(i, size) ==
    IF FileDescriptorTable_getIndexOfInode(i) # -1
    THEN [fileDescriptorTable EXCEPT ![FdFor(i)].in_use = TRUE]
    ELSE [fileDescriptorTable EXCEPT ![FdFor(i)] =
             [i_node_number |-> i, read_write_pointer |-> size, in_use |-> TRUE]]

\* The i-node of a name, or the one it gets if it is new.
INodeOf(name) ==
    LET spot == DirectoryCache_getNameIndex(name)
    IN  IF spot = -1 THEN INodeTable_getOpenIndex ELSE Entry(spot).i_node_index

CanOpen(name) ==
    IF DirectoryCache_getNameIndex(name) # -1 THEN FdFor(INodeOf(name)) # -1
    ELSE -1 \notin {INodeTable_getOpenIndex, FileDescriptorTable_getOpenIndex,
                    DirectoryCache_getOpenIndex}

fopen_Existing(name) ==
    LET i == INodeOf(name)
    IN  /\ DirectoryCache_getNameIndex(name) # -1 /\ CanOpen(name)
        /\ fileDescriptorTable' = Described(i, iNodeTable.i_node[i].size)
        /\ result' = <<>>
        /\ UNCHANGED <<memory, disk, faults>>

fopen_New(name) ==
    LET spot == DirectoryCache_getOpenIndex
        i    == INodeOf(name)
    IN  /\ DirectoryCache_getNameIndex(name) = -1 /\ CanOpen(name)
        /\ directoryCache' =
               [directoryCache EXCEPT !.entry[spot] =
                    [name |-> name, i_node_index |-> i, open |-> FALSE]]
        /\ iNodeTable' = [i_node |-> [iNodeTable.i_node EXCEPT ![i] = INode_new],
                          open   |-> iNodeTable.open \ {i}]
        /\ fileDescriptorTable' = Described(i, 0)
        /\ result' = <<>>
        /\ faults' = IF Entry(spot).open THEN faults
                                         ELSE faults \cup {"overwritten"}
        /\ UNCHANGED <<freeBitMap, disk>>

sfs_fopen(name) == fopen_Existing(name) \/ fopen_New(name)

-----------------------------------------------------------------------------
\* sfs_fclose, sfs_fseek and sfs_getnextfilename.

InUse(f) == fileDescriptorTable[f].in_use

sfs_fclose(f) == /\ InUse(f)
                 /\ fileDescriptorTable' =
                        [fileDescriptorTable EXCEPT ![f] = NotInUse]
                 /\ result' = <<>>
                 /\ UNCHANGED <<memory, disk, faults>>

\* It does not ask whether the descriptor is in use.
sfs_fseek(f, loc) ==
    /\ fileDescriptorTable' =
           [fileDescriptorTable EXCEPT ![f].read_write_pointer = loc]
    /\ faults' = IF InUse(f) THEN faults ELSE faults \cup {"closed"}
    /\ result' = <<>>
    /\ UNCHANGED <<memory, disk>>

NextNames == {i \in Spots : i >= directoryCache.readIndex /\ ~Entry(i).open}

\* Where readIndex goes: up by one, wherever the name was found.
ReadIndexAfter_Stays(next) == IF next = {} THEN 0 ELSE directoryCache.readIndex
ReadIndexAfter_NoReset(next) == directoryCache.readIndex + 1
ReadIndexAfter(next) == IF next = {} THEN 0 ELSE directoryCache.readIndex + 1

sfs_getnextfilename ==
    /\ directoryCache' = [directoryCache EXCEPT !.readIndex = ReadIndexAfter(NextNames)]
    /\ result' = IF NextNames = {} THEN <<>> ELSE <<Entry(Min(NextNames)).name>>
    /\ UNCHANGED <<iNodeTable, freeBitMap, fileDescriptorTable, disk, faults>>

-----------------------------------------------------------------------------
\* sfs_fread.

isIndexInIndirectBlock(index) == index >= BLOCKS_PER_I_NODE
indirectBlockIndex(index) == index - BLOCKS_PER_I_NODE

BlockOf(place) == place \div DISK_BLOCK_SIZE
IndirectIn(data, iNode) == IF iNode.ind_pointer > -1
                           THEN read_data_block(data, iNode.ind_pointer)
                           ELSE EmptyBlock
IndirectOf(iNode) == IndirectIn(disk.data, iNode)

\* The disk block that holds a place of a file.
DiskBlock(iNode, place) ==
    IF isIndexInIndirectBlock(BlockOf(place))
    THEN IndirectOf(iNode)[indirectBlockIndex(BlockOf(place))]
    ELSE iNode.pointer[BlockOf(place)]

ByteAt(iNode, place) ==
    read_data_block(disk.data, DiskBlock(iNode, place))[place % DISK_BLOCK_SIZE]

\* A block never written: a direct pointer of -1, which reads as zeroes, or an
\* indirect one of 0, which is a block like any other.
InIndirectGap(iNode, place) == /\ isIndexInIndirectBlock(BlockOf(place))
                               /\ DiskBlock(iNode, place) = 0

AmountToRead(iNode, place, length) ==
    IF place + length + 1 > iNode.size
    THEN IF iNode.size > place THEN iNode.size - place ELSE 0
    ELSE length

sfs_fread(f, length) ==
    LET fd     == fileDescriptorTable[f]
        iNode  == iNodeTable.i_node[fd.i_node_number]
        place  == fd.read_write_pointer
        amount == AmountToRead(iNode, place, length)
    IN  /\ InUse(f)
        /\ result' = [k \in 1 .. amount |-> ByteAt(iNode, place + k - 1)]
        /\ fileDescriptorTable' =
               [fileDescriptorTable EXCEPT ![f].read_write_pointer = place + amount]
        /\ faults' = IF \E k \in 1 .. amount : InIndirectGap(iNode, place + k - 1)
                     THEN faults \cup {"gap"} ELSE faults
        /\ UNCHANGED <<memory, disk>>

-----------------------------------------------------------------------------
\* sfs_fwrite.  It does not ask whether the descriptor is in use.

Buffer(v, length) == [j \in 1 .. length |-> v + j]

EndOf(place, buf) == place + Len(buf)
LastOf(a, b) == IF a > b THEN a ELSE b

\* A new indirect block is taken when there is none, or when it is block 0.
NeedsIndirect(iNode) == iNode.ind_pointer <= 0

\* What a write leaves, so far: the free blocks, the i-node, its indirect block,
\* the data blocks, the place reached and whether no free block was found.
Unwritten(iNode, place) ==
    LET new == FreeBitMap_getFreeBit(freeBitMap)
        taken == NeedsIndirect(iNode)
    IN  [free  |-> IF taken THEN freeBitMap \ {new} ELSE freeBitMap,
         iNode |-> IF taken THEN [iNode EXCEPT !.ind_pointer = new] ELSE iNode,
         ind   |-> IF taken THEN EmptyBlock ELSE IndirectOf(iNode),
         data  |-> disk.data,
         at    |-> place,
         full  |-> FALSE]

\* A block that is written in part keeps the rest of what it held.
OldBlock_Forgotten(isNew, data, d) == EmptyBlock
OldBlock(isNew, data, d) == IF isNew THEN EmptyBlock ELSE read_data_block(data, d)

\* One turn of the loop: block b of the file gets its part of buf, which goes to
\* place of the file.
WriteBlock(s, b, place, buf) ==
    LET indirect == isIndexInIndirectBlock(b)
        slot  == IF indirect THEN indirectBlockIndex(b) ELSE b
        had   == IF indirect THEN s.ind[slot] ELSE s.iNode.pointer[slot]
        isNew == IF indirect THEN had <= 0 ELSE had < 0
        d     == IF isNew THEN FreeBitMap_getFreeBit(s.free) ELSE had
        old   == OldBlock(isNew, s.data, d)
        at    == Min({(b + 1) * DISK_BLOCK_SIZE, EndOf(place, buf)})
        block == [c \in Cells |->
                      LET k == b * DISK_BLOCK_SIZE + c - place
                      IN  IF k \in 0 .. Len(buf) - 1 THEN buf[k + 1] ELSE old[c]]
        iNode == [s.iNode EXCEPT
                     !.size    = LastOf(@, at),
                     !.pointer = IF indirect THEN @ ELSE [@ EXCEPT ![slot] = d]]
    IN  IF s.full \/ d = -1
        THEN [s EXCEPT !.full = TRUE]
        ELSE [s EXCEPT
                 !.free  = IF isNew THEN @ \ {d} ELSE @,
                 !.iNode = iNode,
                 !.ind   = IF indirect THEN [@ EXCEPT ![slot] = d] ELSE @,
                 !.data  = write_data_block(@, d, block),
                 !.at    = at]

\* What the first of the turns leave; and all of them, with the indirect block
\* written after them.  Each is a set of one outcome.
TurnsOf(place, buf) == BlockOf(EndOf(place, buf) - 1) - BlockOf(place) + 1
Turned(iNode, place, buf, turns) ==
    LET after[k \in 0 .. turns] ==
            IF k = 0 THEN {Unwritten(iNode, place)}
            ELSE {WriteBlock(s, BlockOf(place) + k - 1, place, buf) : s \in after[k - 1]}
    IN  after[turns]
Written(iNode, place, buf) ==
    {[s EXCEPT !.data = write_data_block(@, s.iNode.ind_pointer, s.ind)] :
        s \in Turned(iNode, place, buf, TurnsOf(place, buf))}

\* The bound on files: what an i-node and its indirect block can hold.
FitsINode(place, buf) ==
    BlockOf(EndOf(place, buf) - 1)
        < BLOCKS_PER_I_NODE + INDIRECT_BLOCK_POINTER_SIZE

\* The blocks that the indirect block of an i-node lists.
IndirectBlocks(ind) == {ind[c] : c \in Cells} \ {0}
Listed(iNode) == IndirectBlocks(IndirectOf(iNode))

WriteFaults(f, iNode) ==
    (IF InUse(f) THEN {} ELSE {"closed"}) \cup
    (IF NeedsIndirect(iNode) /\ Listed(iNode) # {} THEN {"rewrote"} ELSE {})

\* No block for the indirect block: an error, but the pointer is overwritten.
fwrite_NoSpace(f) ==
    LET i == fileDescriptorTable[f].i_node_number
        iNode == iNodeTable.i_node[i]
    IN  /\ NeedsIndirect(iNode) /\ freeBitMap = {}
        /\ iNodeTable' = [iNodeTable EXCEPT !.i_node[i].ind_pointer = -1]
        /\ faults' = faults \cup WriteFaults(f, iNode)
        /\ result' = <<>>
        /\ UNCHANGED <<directoryCache, freeBitMap, fileDescriptorTable, disk>>

fwrite_Saves(f, buf) ==
    LET fd == fileDescriptorTable[f]
        iNode == iNodeTable.i_node[fd.i_node_number]
    IN  /\ NeedsIndirect(iNode) => freeBitMap # {}
        /\ FitsINode(fd.read_write_pointer, buf)
        /\ \E s \in Written(iNode, fd.read_write_pointer, buf) :
              /\ freeBitMap' = s.free
              /\ iNodeTable' = [iNodeTable EXCEPT !.i_node[fd.i_node_number] = s.iNode]
              /\ fileDescriptorTable' =
                     [fileDescriptorTable EXCEPT ![f].read_write_pointer = s.at]
              /\ disk' = Saved(freeBitMap', iNodeTable', directoryCache, s.data, AllWrites)
        /\ faults' = faults \cup WriteFaults(f, iNode)
        /\ result' = <<>>
        /\ UNCHANGED directoryCache

\* A write of no bytes saves the tables.
fwrite_Nothing(f) ==
    /\ disk' = Saved(freeBitMap, iNodeTable, directoryCache, disk.data, AllWrites)
    /\ faults' = IF InUse(f) THEN faults ELSE faults \cup {"closed"}
    /\ result' = <<>>
    /\ UNCHANGED <<memory, fileDescriptorTable>>

sfs_fwrite(f, buf) == fwrite_NoSpace(f) \/ fwrite_Saves(f, buf)

-----------------------------------------------------------------------------
\* sfs_remove: the descriptors that are open on the file are left as they are,
\* the block of the indirect pointer is not marked free and, other than the
\* comment says, the spot of the i-node is not marked open.

INodeTable_deleteINode_Opened(table, i) ==
    [i_node |-> [table.i_node EXCEPT ![i] = INode_new], open |-> table.open \cup {i}]
INodeTable_deleteINode(table, i) == [table EXCEPT !.i_node[i] = INode_new]

DirectoryCache_deleteIndex(cache, spot) ==
    [entry     |-> [cache.entry EXCEPT ![spot] = NoEntry],
     readIndex |-> IF cache.readIndex = spot THEN (spot + 1) % I_NODE_COUNT
                                             ELSE cache.readIndex]

DirectBlocks(iNode) == {iNode.pointer[j] : j \in Direct} \ {-1}
DataBlocksOf(iNode) == DirectBlocks(iNode) \cup Listed(iNode)
FreedBlocks_Indirect(iNode) == DataBlocksOf(iNode) \cup ({iNode.ind_pointer} \ {-1})
FreedBlocks(iNode) == DataBlocksOf(iNode)

\* What a removal leaves in the tables and on the data blocks.
Removed(spot) ==
    LET i     == Entry(spot).i_node_index
        freed == FreedBlocks(iNodeTable.i_node[i])
    IN  [free      |-> freeBitMap \cup freed,
         table     |-> INodeTable_deleteINode(iNodeTable, i),
         directory |-> DirectoryCache_deleteIndex(directoryCache, spot),
         data      |-> [b \in Blocks |-> IF b \in freed THEN EmptyBlock
                                                        ELSE disk.data[b]]]

sfs_remove(name) ==
    LET spot == DirectoryCache_getNameIndex(name)
        r == Removed(spot)
    IN  /\ spot # -1
        /\ freeBitMap' = r.free
        /\ iNodeTable' = r.table
        /\ directoryCache' = r.directory
        /\ disk' = Saved(r.free, r.table, r.directory, r.data, AllWrites)
        /\ result' = <<>>
        /\ UNCHANGED <<fileDescriptorTable, faults>>

-----------------------------------------------------------------------------
\* mksfs(1), mksfs(0), and the crash of the program between two writes to the disk.

LoadedFrom(d) == /\ directoryCache' = d.directoryCache
                 /\ iNodeTable' = d.iNodeTable
                 /\ freeBitMap' = d.freeBitMap
                 /\ fileDescriptorTable' = EmptyFds
                 /\ result' = <<>>

mksfs_Fresh == LoadedFrom(FreshDisk) /\ disk' = FreshDisk /\ UNCHANGED faults
mksfs == LoadedFrom(disk) /\ UNCHANGED <<disk, faults>>

\* The tables have been saved up to some write when the program dies; it is
\* started again and mounts what is there.
CrashedWith(free, table, directory, data, writes) ==
    /\ disk' = Saved(free, table, directory, data, writes)
    /\ LoadedFrom(disk')

\* Before the indirect block is written, or after it.  Left out: an indirect block
\* that was there before has been written, and the saved bitmap still calls
\* blocks that it now lists free.
fwrite_Crashes(f, buf) ==
    LET fd == fileDescriptorTable[f]
        iNode == iNodeTable.i_node[fd.i_node_number]
        place == fd.read_write_pointer
        Dies(s, data, writes) ==
            CrashedWith(s.free, [iNodeTable EXCEPT !.i_node[fd.i_node_number] = s.iNode],
                        directoryCache, data, writes)
    IN  /\ NeedsIndirect(iNode) => freeBitMap # {}
        /\ FitsINode(place, buf)
        /\ \/ \E turns \in 1 .. TurnsOf(place, buf) :
                 \E s \in Turned(iNode, place, buf, turns) : Dies(s, s.data, 0)
           \/ \E s \in Written(iNode, place, buf), writes \in 0 .. AllWrites - 1 :
                 /\ writes = 0 => NeedsIndirect(iNode) \/ s.free = freeBitMap
                 /\ Dies(s, s.data, writes)
        /\ UNCHANGED faults

\* Left out: the blocks of the file have been marked free, and its i-node has not
\* been cleared.
sfs_remove_Crashes(name) ==
    LET spot == DirectoryCache_getNameIndex(name)
        r == Removed(spot)
    IN  /\ spot # -1
        /\ \E writes \in 0 .. AllWrites - 1 :
              /\ writes = 1 => r.free = freeBitMap
              /\ CrashedWith(r.free, r.table, r.directory, r.data, writes)
        /\ UNCHANGED faults

Next == \/ \E name \in Names : sfs_fopen(name) \/ sfs_remove(name)
        \/ \E f \in Fds : \/ sfs_fclose(f)
                          \/ \E loc \in Places : sfs_fseek(f, loc)
                          \/ \E length \in Lengths : sfs_fread(f, length)
                          \/ \E v \in Bytes, length \in Lengths :
                                sfs_fwrite(f, Buffer(v, length))
                          \/ fwrite_Nothing(f)
        \/ sfs_getnextfilename
        \/ mksfs \/ mksfs_Fresh

Spec == Init /\ [][Next]_vars

\* The program may die in the middle of the calls that write to the disk.
Crash == \/ \E name \in Names : sfs_remove_Crashes(name)
         \/ \E f \in Fds, v \in Bytes, length \in Lengths :
               fwrite_Crashes(f, Buffer(v, length))
         \/ /\ \E writes \in 0 .. AllWrites - 1 :
                  CrashedWith(freeBitMap, iNodeTable, directoryCache, disk.data, writes)
            /\ UNCHANGED faults  \* a write of no bytes

CrashSpec == Init /\ [][Next \/ Crash]_vars

\* The calls of a program that uses a handle only while it is open.
OpenHandlesSpec == Init /\ [][Next /\ "closed" \notin faults']_vars

\* The calls until the first of them that goes wrong.
SoundSpec == Init /\ [][Next /\ faults' = {}]_vars

-----------------------------------------------------------------------------
\* The state of the program: the tables and the data keep their form.
INodes == [size : Nat, ind_pointer : Blocks \cup {-1},
           pointer : [Direct -> Blocks \cup {-1}]]
INodeTables == [i_node : [Spots -> INodes], open : SUBSET Spots]
Directories == [entry : [Spots -> [name : Names \cup {NoName},
                                   i_node_index : Spots, open : BOOLEAN]],
                readIndex : 0 .. I_NODE_COUNT]
Descriptors == [Fds -> [i_node_number : Spots, read_write_pointer : Nat,
                        in_use : BOOLEAN]]
DataBlocks == [Blocks -> [Cells -> Nat]]
Disks == [freeBitMap : SUBSET Blocks, iNodeTable : INodeTables,
          directoryCache : Directories, data : DataBlocks]

TypeOK == /\ directoryCache \in Directories
          /\ iNodeTable \in INodeTables
          /\ freeBitMap \in SUBSET Blocks
          /\ fileDescriptorTable \in Descriptors
          /\ disk \in Disks

\* Where an i-node names a block: directly, in its indirect block, or as its
\* indirect block.
References(i) ==
    LET iNode == iNodeTable.i_node[i]
    IN  {<<"direct", i, j>> : j \in {k \in Direct : iNode.pointer[k] # -1}} \cup
        {<<"indirect", i, c>> : c \in {d \in Cells : IndirectOf(iNode)[d] # 0}} \cup
        (IF iNode.ind_pointer = -1 THEN {} ELSE {<<"pointer", i, 0>>})

Referred(r) ==
    LET iNode == iNodeTable.i_node[r[2]]
    IN  CASE r[1] = "direct"   -> iNode.pointer[r[3]]
          [] r[1] = "indirect" -> IndirectOf(iNode)[r[3]]
          [] OTHER             -> iNode.ind_pointer

AllReferences == UNION {References(i) : i \in Spots}

\* No block belongs to two places of files, and none that belongs to a file is
\* free: what sfs_fwrite takes and what sfs_remove frees never meet, over any
\* calls and remounts, and over crashes but for two windows, which fwrite_Crashes
\* and sfs_remove_Crashes leave out: the writes of an indirect block before its
\* bitmap (sfs_api.c:430) and a removal's save of the bitmap before its i-nodes
\* (sfs_api.c:503).
NoBlockShared ==
    /\ \A r \in AllReferences : Referred(r) \in Blocks \ freeBitMap
    /\ \A r, q \in AllReferences : Referred(r) = Referred(q) => r = q

\* An entry of 0 in an indirect block stands for no block, which sfs_fwrite and
\* sfs_remove may believe only because block 0 never holds the data of a file:
\* it is the first block ever taken, for an indirect block, and is never freed.
ZeroIsNoDataBlock ==
    \A r \in AllReferences : r[1] = "direct" => Referred(r) # 0

\* The directory: a used entry has a name and an i-node of its own, and that
\* i-node's spot is taken, whichever entries sfs_fopen wrote over.
DirectoryIsSound ==
    LET used == {i \in Spots : ~Entry(i).open}
    IN  /\ \A i \in used : /\ Entry(i).name # NoName
                           /\ Entry(i).i_node_index \notin iNodeTable.open
        /\ \A i, j \in used : \/ i = j
                              \/ /\ Entry(i).name # Entry(j).name
                                 /\ Entry(i).i_node_index # Entry(j).i_node_index
        /\ \A f \in Fds : InUse(f) =>
              fileDescriptorTable[f].i_node_number \notin iNodeTable.open

\* The bytes of a file.
Contents(i) ==
    LET iNode == iNodeTable.i_node[i]
    IN  [k \in 1 .. iNode.size |->
            IF InIndirectGap(iNode, k - 1) THEN 0 ELSE ByteAt(iNode, k - 1)]

-----------------------------------------------------------------------------
\* The inductive invariant behind the safety properties.  All of it is about
\* the disk, which a mount may load at any time, and how memory differs from it.

BlocksOf(iNode, ind) == DirectBlocks(iNode) \cup IndirectBlocks(ind)
                            \cup ({iNode.ind_pointer} \ {-1})

\* No block belongs to two places of one file.
OwnBlocksDiffer(iNode, ind) ==
    /\ \A j, k \in Direct : iNode.pointer[j] = iNode.pointer[k]
                                => j = k \/ iNode.pointer[j] = -1
    /\ \A c, d \in Cells : ind[c] = ind[d] => c = d \/ ind[c] = 0
    /\ DirectBlocks(iNode) \cap IndirectBlocks(ind) = {}
    /\ iNode.ind_pointer \notin DirectBlocks(iNode) \cup IndirectBlocks(ind)

Blank(iNode) == iNode.ind_pointer = -1 /\ DirectBlocks(iNode) = {}

\* A file has blocks of its own, none of which is free.  Block 0 is taken before
\* all others and never holds a file's data.
FileIsSound(iNode, ind, free) ==
    /\ OwnBlocksDiffer(iNode, ind)
    /\ BlocksOf(iNode, ind) \subseteq Blocks \ free
    /\ 0 \notin DirectBlocks(iNode)
    /\ 0 \in free => Blank(iNode)

\* So have all of them, and no block belongs to two.
FilesAreApart(nodes, data, free) ==
    LET Ind(i) == IndirectIn(data, nodes[i])
    IN  /\ \A i \in Spots : FileIsSound(nodes[i], Ind(i), free)
        /\ \A i, j \in Spots :
              i = j \/ BlocksOf(nodes[i], Ind(i)) \cap BlocksOf(nodes[j], Ind(j)) = {}

\* An entry has a name if it is used, and then an i-node of its own.
EntriesAreSound(entry, open) ==
    /\ \A i \in Spots : entry[i].open <=> entry[i].name = NoName
    /\ \A i \in Spots : entry[i].open \/ entry[i].i_node_index \notin open
    /\ \A i, j \in Spots : \/ i = j \/ entry[i].open \/ entry[j].open
                           \/ /\ entry[i].name # entry[j].name
                              /\ entry[i].i_node_index # entry[j].i_node_index

DiskIsSound ==
    /\ FilesAreApart(disk.iNodeTable.i_node, disk.data, disk.freeBitMap)
    /\ EntriesAreSound(disk.directoryCache.entry, disk.iNodeTable.open)

\* Memory is ahead of the disk by new files, which are blank, and by indirect
\* pointers that a full disk took away.
MemoryFollowsDisk ==
    /\ freeBitMap = disk.freeBitMap
    /\ iNodeTable.open \subseteq disk.iNodeTable.open
    /\ \A i \in Spots :
          LET iNode == iNodeTable.i_node[i]
              saved == disk.iNodeTable.i_node[i]
          IN  \/ Blank(iNode)
              \/ /\ iNode.pointer = saved.pointer
                 /\ iNode.ind_pointer \in {-1, saved.ind_pointer}

\* A descriptor that is not in use looks like one on i-node 0; the others are on
\* different files, which are not on an open spot.
DescriptorsAreSound ==
    /\ \A f \in Fds : LET i == fileDescriptorTable[f].i_node_number
                      IN  IF InUse(f) THEN i \notin iNodeTable.open ELSE i = 0
    /\ \A f, g \in Fds :
          LET i == fileDescriptorTable[f].i_node_number
          IN  f # g /\ i # 0 => fileDescriptorTable[g].i_node_number # i

IndInv == /\ TypeOK
          /\ DiskIsSound
          /\ MemoryFollowsDisk
          /\ EntriesAreSound(directoryCache.entry, iNodeTable.open)
          /\ DescriptorsAreSound
=============================================================================
