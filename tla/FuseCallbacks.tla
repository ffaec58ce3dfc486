---------------------------- MODULE FuseCallbacks ----------------------------
(***************************************************************************)
(* The callbacks of fuse_wrappers.c, which run on the threads of libfuse   *)
(* and share the tables of the simple file system: each is a sequence of   *)
(* calls of the interface, and between two of them other threads make      *)
(* theirs.  A call of the interface is one step.  The program formats the  *)
(* disk when it starts (mksfs(1)).                                         *)
(*                                                                         *)
(* The kernel opens, reads and writes what a getattr found and creates     *)
(* what it did not find.  access and mknod do nothing.  A callback that    *)
(* fails answers -errno, whatever errno is: the number is left out.        *)
(***************************************************************************)
EXTENDS SfsPromises, SequencesExt

CONSTANT Threads

VARIABLES doing,    \* for each thread its request and where it is in it
          trouble   \* history: what went wrong in a callback

fuseVars == <<vars, doing, trouble>>

Request(op, name, at, buf) == [op |-> op, name |-> name, at |-> at, buf |-> buf]

\* What the kernel asks.  buf is what is written, or the room for what is read.
Requests ==
    {Request(op, name, 0, <<>>) : name \in Names,
         op \in {"getattr", "open", "create", "truncate", "unlink"}} \cup
    {Request(op, name, at, Buffer(v, length)) : op \in {"read", "write"},
         name \in Names, at \in Places, v \in Bytes, length \in Lengths} \cup
    {Request("readdir", NoName, 0, <<>>)}

NoRequest == Request("none", NoName, 0, <<>>)
Idle == [asked |-> NoRequest, step |-> "idle", fd |-> -1, got |-> <<>>, seen |-> {}]

FuseInit == Init /\ doing = [t \in Threads |-> Idle] /\ trouble = {}

\* The system is followed until something goes wrong.
Sound == faults = {} /\ trouble = {}

FirstStep(op) == CASE op = "getattr" -> "stat"
                   [] op = "readdir" -> "list"
                   [] op \in {"unlink", "truncate"} -> "remove"
                   [] OTHER -> "open"

Begin(t, r) ==
    /\ Sound /\ doing[t] = Idle
    /\ r.op \in {"open", "read", "write"} => sfs_getfilesize(r.name) # -1
    /\ r.op = "create" => sfs_getfilesize(r.name) = -1
    /\ doing' = [doing EXCEPT ![t].asked = r, ![t].step = FirstStep(r.op)]
    /\ trouble' = IF r.op = "readdir" /\ directoryCache.readIndex # 0
                  THEN {"late"} ELSE {}
    /\ UNCHANGED vars

At(t, step) == Sound /\ doing[t].step = step
Op(t)   == doing[t].asked.op
Name(t) == doing[t].asked.name
Fd(t)   == doing[t].fd

Goes(t, step) == doing' = [doing EXCEPT ![t].step = step] /\ UNCHANGED trouble
Answers(t, step, got) ==
    doing' = [doing EXCEPT ![t].step = step, ![t].got = got] /\ UNCHANGED trouble
Fails(t, what) == doing' = [doing EXCEPT ![t].step = "return"] /\ trouble' = what

Stat(t) ==
    /\ At(t, "stat")
    /\ LET size == sfs_getfilesize(Name(t))
       IN  Answers(t, "return", IF size = -1 THEN <<>> ELSE <<size>>)
    /\ UNCHANGED vars

AfterOpen_NoSeek(op) == IF op \in {"read", "write"} THEN "io" ELSE "close"
AfterOpen(op) == IF op \in {"read", "write"} THEN "seek" ELSE "close"

\* create and truncate do not look at the answer: when the open fails they close
\* -1, which does nothing, and report success.
Open(t) ==
    /\ At(t, "open")
    /\ \/ /\ doing' = [doing EXCEPT ![t].step = AfterOpen(Op(t)),
                                    ![t].fd = FdFor(INodeOf(Name(t)))]
          /\ sfs_fopen(Name(t)) /\ UNCHANGED trouble
       \/ /\ ~CanOpen(Name(t)) /\ UNCHANGED vars
          /\ Fails(t, IF Op(t) \in {"create", "truncate"} THEN {"vanished"} ELSE {})

Seek(t) == At(t, "seek") /\ Goes(t, "io") /\ sfs_fseek(Fd(t), doing[t].asked.at)

Read(t) == /\ At(t, "io") /\ Op(t) = "read"
           /\ sfs_fread(Fd(t), Len(doing[t].asked.buf))
           /\ Answers(t, "close", result')

\* A write that fails does not close its descriptor.
Write(t) ==
    LET at == fileDescriptorTable[Fd(t)].read_write_pointer
    IN  /\ At(t, "io") /\ Op(t) = "write"
        /\ \/ /\ fwrite_Saves(Fd(t), doing[t].asked.buf)
              /\ Answers(t, "close",
                         <<fileDescriptorTable'[Fd(t)].read_write_pointer - at>>)
           \/ fwrite_NoSpace(Fd(t)) /\ Fails(t, {"leaked"})

Leaves(t) == doing' = [doing EXCEPT ![t] = Idle] /\ UNCHANGED trouble

Close_Forgotten(t) == At(t, "close") /\ UNCHANGED vars /\ Leaves(t)
Close(t) == At(t, "close") /\ Leaves(t) /\ sfs_fclose(Fd(t))

\* truncate removes the file, whatever the size asked for, and opens a new one.
Unlink(t) ==
    /\ At(t, "remove")
    /\ \/ /\ Goes(t, IF Op(t) = "truncate" THEN "open" ELSE "return")
          /\ sfs_remove(Name(t))
       \/ /\ DirectoryCache_getNameIndex(Name(t)) = -1
          /\ Fails(t, {}) /\ UNCHANGED vars

List(t) == /\ At(t, "list") /\ sfs_getnextfilename
           /\ IF NextNames = {} THEN Goes(t, "return")
              ELSE /\ doing' = [doing EXCEPT ![t].seen = @ \cup ToSet(result')]
                   /\ UNCHANGED trouble

\* The end of the callbacks that close nothing.
Return(t) == At(t, "return") /\ UNCHANGED vars /\ Leaves(t)

Step(t) == \/ Stat(t) \/ Open(t) \/ Seek(t) \/ Read(t) \/ Write(t) \/ Close(t)
           \/ Unlink(t) \/ List(t) \/ Return(t)

FuseNext == \E t \in Threads : Step(t) \/ \E r \in Requests : Begin(t, r)

Busy(t) == doing[t] # Idle

\* Callbacks that are in progress together are about different files, and none
\* lists the directory while another changes or lists it; a getattr may come
\* between any calls but those of a truncate of its file.
Separate(t, u) == /\ Name(t) # Name(u)
                  /\ \A op \in {Op(t), Op(u)} :
                        op \in {"create", "truncate", "unlink"}
                            => "readdir" \notin {Op(t), Op(u)}
LooksAt(t, u) == Op(t) = "getattr" /\ Op(u) # "truncate"
Apart == \A t, u \in Threads : t # u /\ Busy(t) /\ Busy(u) =>
                                   Separate(t, u) \/ LooksAt(t, u) \/ LooksAt(u, t)

\* Weak fairness of Step(t), which is enabled where the thread is in a callback
\* and nothing has gone wrong: none of its steps waits for another thread.
Scheduled(t) == []<>~(Busy(t) /\ Sound) \/ []<><<Step(t)>>_fuseVars

FuseSpec == /\ FuseInit /\ [][FuseNext /\ Apart']_fuseVars
            /\ \A t \in Threads : Scheduled(t)

-----------------------------------------------------------------------------
\* Properties.

\* The store of paths: a file that truncate has removed and not yet created again
\* is an empty one.
Emptied == {Name(t) : t \in {u \in Threads : At(u, "open") /\ Op(u) = "truncate"}}
files == [n \in DOMAIN names \cup Emptied |->
             IF n \in DOMAIN names THEN contents[names[n]] ELSE <<>>]

\* A create, a read or a write has happened when its descriptor is to be closed.
Happened(t) == \/ doing[t].step \in {"close", "return"}
               \/ doing[t].step = "open" /\ Op(t) = "truncate"
calls == [t \in Threads |->
             IF Happened(t)
             THEN [asked |-> doing[t].asked, done |-> TRUE,
                   got |-> doing[t].got, seen |-> doing[t].seen]
             ELSE [asked |-> doing[t].asked, done |-> FALSE, got |-> <<>>, seen |-> {}]]

Paths == INSTANCE PathStore

\* Callbacks on different files do not disturb each other: each takes effect as a
\* whole, once, between its request and its return, and answers what a store of
\* files under their paths answers then, although they share the descriptors,
\* the i-nodes and the disk, which may fill up.
ActsOnPaths == Paths!Init /\ [][Paths!Next \/ ~Sound']_<<files, calls>>

\* Between its open and its close a callback holds its descriptor.
Holds(t) == doing[t].step \in {"seek", "io", "close"}

\* Whatever order callbacks on different files run in, a descriptor in use is that
\* of one callback which is between its open and its close, and two threads never
\* have the same.  This lasts until a write fails, which leaves its descriptor
\* behind, or an open writes over an entry; two callbacks on one file would have
\* the same descriptor.
EveryFdIsHeld ==
    Sound => /\ \A f \in Fds : InUse(f) <=> \E t \in Threads : Holds(t) /\ Fd(t) = f
             /\ \A t, u \in Threads : t # u /\ Holds(t) /\ Holds(u) => Fd(t) # Fd(u)

\* A callback returns, the loop over the directory too, unless one goes wrong.
EveryCallbackReturns == \A t \in Threads : Busy(t) ~> ~Busy(t) \/ ~Sound

-----------------------------------------------------------------------------
\* The inductive invariant behind EveryFdIsHeld.

StepsOf(op) ==
    CASE op = "none"     -> {"idle"}
      [] op = "getattr"  -> {"stat", "return"}
      [] op = "readdir"  -> {"list", "return"}
      [] op = "unlink"   -> {"remove", "return"}
      [] op = "truncate" -> {"remove", "open", "close", "return"}
      [] op \in {"open", "create"} -> {"open", "close", "return"}
      [] OTHER           -> {"open", "seek", "io", "close", "return"}

\* A thread is idle or in a step of what it was asked for.
EveryThreadIsInStep ==
    /\ DOMAIN doing = Threads
    /\ \A t \in Threads :
          /\ DOMAIN doing[t] = {"asked", "step", "fd", "got", "seen"}
          /\ doing[t].asked \in Requests \cup {NoRequest}
          /\ doing[t].step \in StepsOf(Op(t))

\* The descriptor of a callback is on the file that has the callback's name.
HoldsItsFile(t) ==
    /\ Fd(t) \in Fds
    /\ \E i \in NamedSpots :
          /\ Entry(i).name = Name(t)
          /\ Entry(i).i_node_index = fileDescriptorTable[Fd(t)].i_node_number

FuseInv == /\ IndInv
           /\ EveryThreadIsInStep
           /\ Apart
           /\ EveryFdIsHeld
           /\ Sound => \A t \in Threads : Holds(t) => HoldsItsFile(t)
=============================================================================
