----------------------------- MODULE SfsPromises -----------------------------
(***************************************************************************)
(* What the simple file system promises: that until a call first goes      *)
(* wrong it is the file store of module FileStore, and what its comments   *)
(* and tests say of single calls.                                          *)
(***************************************************************************)
EXTENDS SimpleFileSystem

NamedSpots == {i \in Spots : ~Entry(i).open}
SpotOf(name) == CHOOSE i \in NamedSpots : Entry(i).name = name

\* The file store: an i-node is a file, whether or not a name leads to it.
names    == [n \in {Entry(i).name : i \in NamedSpots} |-> Entry(SpotOf(n)).i_node_index]
contents == [i \in Spots |-> Contents(i)]
handles  == [f \in Fds |->
                IF InUse(f) THEN [file |-> fileDescriptorTable[f].i_node_number,
                                  at |-> fileDescriptorTable[f].read_write_pointer]
                ELSE [file |-> -1, at |-> 0]]

Store == INSTANCE FileStore
             WITH Files <- Spots, NoFile <- -1, Handles <- Fds,
                  Buffers <- {Buffer(v, length) : v \in Bytes, length \in Lengths}

\* Every call that does not go wrong does what a file store does: bytes written
\* through any handle, over any blocks, are the bytes read through any other and
\* after a remount; a full disk keeps the beginning of a write; a removed file
\* frees its name at once; no call disturbs another file.
IsFileStore == Store!Spec

-----------------------------------------------------------------------------
\* Said of single calls.

\* "file %s was opened twice" (sfs_test.c): a file has one descriptor, whatever was
\* opened, closed and created before.
NoFileOpenedTwice ==
    \A f, g \in {fd \in Fds : InUse(fd)} :
        f # g => fileDescriptorTable[f].i_node_number
                     # fileDescriptorTable[g].i_node_number

\* This much of it holds: the file at i-node 0, which a closed descriptor looks like
\* one on, is the only file with two.
OneFdPerFile ==
    \A f, g \in {fd \in Fds : InUse(fd)} :
        LET i == fileDescriptorTable[f].i_node_number
        IN  f # g /\ i # 0 => fileDescriptorTable[g].i_node_number # i

\* "There already is an ind pointer, so we load from disk" (sfs_api.c): a write
\* changes no byte of the file before the place where it begins.
ContentsKept ==
    [][\A f \in Fds, v \in Bytes, length \in Lengths :
          LET i == fileDescriptorTable[f].i_node_number
              place == fileDescriptorTable[f].read_write_pointer
          IN  sfs_fwrite(f, Buffer(v, length)) =>
                  \A k \in 1 .. place :
                      k <= Len(Contents(i)) => Contents(i)'[k] = Contents(i)[k]]_vars

\* "No spot open... error" (directory_cache.h): the spot a new file gets was
\* open.
CreateKeepsOthers ==
    [][\A name \in Names, i \in Spots :
          sfs_fopen(name) /\ ~Entry(i).open => Entry(i)' = Entry(i)]_vars
=============================================================================
