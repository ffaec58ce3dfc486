------------------------------ MODULE FileStore ------------------------------
(***************************************************************************)
(* What the simple file system of assignment 3 promises to the program     *)
(* that calls it, with the i-nodes, the blocks and the disk left out: a    *)
(* directory of named files, each a sequence of bytes, and handles with a  *)
(* position each.  A call either fails and changes nothing, or does one of *)
(* the actions below; result is the bytes a read returns, or the name a    *)
(* listing returns.                                                        *)
(*                                                                         *)
(* A removed file that is still open keeps its identity, so that a later   *)
(* file is never written through an old handle.                            *)
(***************************************************************************)
EXTENDS FileBytes

CONSTANTS Names,    \* the names a file may have
          Files,    \* the identities of files
          NoFile,   \* what a closed handle is open on
          Handles,
          Buffers,  \* what programs write
          Lengths,  \* how much they read
          Places    \* where they seek

VARIABLES names,     \* the directory: a file for each name in use
          contents,  \* the bytes of every file
          handles,   \* the file each handle is open on, and its position
          result

vars == <<names, contents, handles, result>>

Closed == [file |-> NoFile, at |-> 0]
IsOpen(h) == handles[h] # Closed
InUse == {names[n] : n \in DOMAIN names} \cup {handles[h].file : h \in Handles}

Init == /\ names = <<>>
        /\ contents = [f \in Files |-> <<>>]
        /\ handles = [h \in Handles |-> Closed]
        /\ result = <<>>

\* A file that is open already may be given its handle again.  A new handle
\* stands at the end of the file, or at its beginning.
Open(n) ==
    /\ n \in DOMAIN names
    /\ \/ \E h \in Handles : handles[h].file = names[n] /\ UNCHANGED handles
       \/ \E h \in Handles, at \in {0, Len(contents[names[n]])} :
             /\ ~IsOpen(h)
             /\ handles' = [handles EXCEPT ![h] = [file |-> names[n], at |-> at]]
    /\ result' = <<>>
    /\ UNCHANGED <<names, contents>>

Create(n) ==
    /\ n \notin DOMAIN names
    /\ \E f \in Files \ InUse, h \in Handles :
          /\ ~IsOpen(h)
          /\ names' = [m \in DOMAIN names \cup {n} |->
                           IF m = n THEN f ELSE names[m]]
          /\ contents' = [contents EXCEPT ![f] = <<>>]
          /\ handles' = [handles EXCEPT ![h] = [file |-> f, at |-> 0]]
    /\ result' = <<>>

Close(h) == /\ IsOpen(h)
            /\ handles' = [handles EXCEPT ![h] = Closed]
            /\ result' = <<>>
            /\ UNCHANGED <<names, contents>>

Seek(h, at) == /\ IsOpen(h)
               /\ handles' = [handles EXCEPT ![h].at = at]
               /\ result' = <<>>
               /\ UNCHANGED <<names, contents>>

Read(h, n) ==
    /\ IsOpen(h)
    /\ result' = Slice(contents[handles[h].file], handles[h].at, n)
    /\ handles' = [handles EXCEPT ![h].at = @ + Len(result')]
    /\ UNCHANGED <<names, contents>>

\* When the disk is full only the beginning of the data is written.
Write(h, data) ==
    /\ IsOpen(h)
    /\ \E n \in 1 .. Len(data) :
          /\ contents' = [contents EXCEPT ![handles[h].file] =
                              Overlay(@, handles[h].at, SubSeq(data, 1, n))]
          /\ handles' = [handles EXCEPT ![h].at = @ + n]
    /\ result' = <<>>
    /\ UNCHANGED names

Remove(n) == /\ n \in DOMAIN names
             /\ names' = [m \in DOMAIN names \ {n} |-> names[m]]
             /\ contents' = [contents EXCEPT ![names[n]] = <<>>]
             /\ result' = <<>>
             /\ UNCHANGED handles

List == /\ \E n \in DOMAIN names : result' = <<n>>
        /\ UNCHANGED <<names, contents, handles>>

\* A call that fails or has nothing to do.
Decline == result' = <<>> /\ UNCHANGED <<names, contents, handles>>

\* The file system is mounted again: nothing stays open, and no file that has
\* anything in it is lost.
Remount ==
    /\ \E kept \in SUBSET DOMAIN names :
          /\ \A n \in DOMAIN names \ kept : contents[names[n]] = <<>>
          /\ names' = [n \in kept |-> names[n]]
    /\ handles' = [h \in Handles |-> Closed]
    /\ result' = <<>>
    /\ UNCHANGED contents

Format == /\ names' = <<>> /\ contents' = [f \in Files |-> <<>>]
          /\ handles' = [h \in Handles |-> Closed]
          /\ result' = <<>>

Next == \/ \E n \in Names : Open(n) \/ Create(n) \/ Remove(n)
        \/ \E h \in Handles : \/ Close(h)
                              \/ \E at \in Places : Seek(h, at)
                              \/ \E n \in Lengths : Read(h, n)
                              \/ \E data \in Buffers : Write(h, data)
        \/ List \/ Decline \/ Remount \/ Format

Spec == Init /\ [][Next]_vars
=============================================================================
