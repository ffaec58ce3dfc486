----------------------------- MODULE FuseProofs -----------------------------
(***************************************************************************)
(* Proofs about the FUSE callbacks: which descriptors their threads hold.  *)
(***************************************************************************)
EXTENDS FuseCallbacks, SfsProofs

-----------------------------------------------------------------------------
\* The threads.

\* What a thread was asked, from where it is in it.
LEMMA ThreadIsInStep ==
  ASSUME EveryThreadIsInStep, NEW t \in Threads
  PROVE  /\ doing[t].step \in StepsOf(Op(t))
         /\ Op(t) \in {"none", "getattr", "open", "create", "truncate", "unlink", "read",
                       "write", "readdir"}
         /\ Op(t) \notin {"none", "readdir"} => Name(t) \in Names
         /\ Op(t) \in {"read", "write"} =>
               /\ doing[t].asked.at \in Places
               /\ \E v \in Bytes, length \in Lengths :
                     doing[t].asked.buf = Buffer(v, length)
  <1> DEFINE r == doing[t].asked
  <1>1. r \in Requests \cup {NoRequest} /\ doing[t].step \in StepsOf(r.op)
    BY DEF EveryThreadIsInStep, Op
  <1> HIDE DEF r
  <1>2. CASE r = NoRequest
    BY <1>1, <1>2 DEF NoRequest, Request, Op, Name, r
  <1>3. CASE \E name \in Names, op \in {"getattr", "open", "create", "truncate", "unlink"} :
                r = Request(op, name, 0, <<>>)
    BY <1>1, <1>3 DEF Request, Op, Name, r
  <1>4. CASE \E op \in {"read", "write"}, name \in Names, at \in Places,
                v \in Bytes, length \in Lengths :
                r = Request(op, name, at, Buffer(v, length))
    BY <1>1, <1>4 DEF Request, Op, Name, r
  <1>5. CASE r = Request("readdir", NoName, 0, <<>>)
    BY <1>1, <1>5 DEF Request, Op, Name, r
  <1> QED  BY <1>1, <1>2, <1>3, <1>4, <1>5 DEF Requests


\* Only one thread moves: what it was asked stays, and where it goes.
Moves(t, step, fd) ==
  /\ DOMAIN doing' = Threads
  /\ \A u \in Threads \ {t} : doing'[u] = doing[u]
  /\ DOMAIN doing'[t] = {"asked", "step", "fd", "got", "seen"}
  /\ doing'[t].asked = doing[t].asked
  /\ doing'[t].step = step /\ doing'[t].fd = fd

LEMMA ThreadMoves ==
  ASSUME EveryThreadIsInStep, NEW t \in Threads, NEW step, NEW x
  PROVE  /\ doing' = [doing EXCEPT ![t].step = step] => Moves(t, step, Fd(t))
         /\ doing' = [doing EXCEPT ![t].step = step, ![t].got = x] => Moves(t, step, Fd(t))
         /\ doing' = [doing EXCEPT ![t].step = step, ![t].fd = x] => Moves(t, step, x)
         /\ doing' = [doing EXCEPT ![t].seen = x] => Moves(t, doing[t].step, Fd(t))
  <1>1. /\ DOMAIN doing = Threads
        /\ DOMAIN doing[t] = {"asked", "step", "fd", "got", "seen"}
    BY DEF EveryThreadIsInStep
  <1>2. ASSUME doing' = [doing EXCEPT ![t].step = step]
        PROVE  Moves(t, step, Fd(t))
    BY <1>1, <1>2 DEF Moves, Fd
  <1>3. ASSUME doing' = [doing EXCEPT ![t].step = step, ![t].got = x]
        PROVE  Moves(t, step, Fd(t))
    BY <1>1, <1>3 DEF Moves, Fd
  <1>4. ASSUME doing' = [doing EXCEPT ![t].step = step, ![t].fd = x]
        PROVE  Moves(t, step, x)
    BY <1>1, <1>4 DEF Moves
  <1>5. ASSUME doing' = [doing EXCEPT ![t].seen = x]
        PROVE  Moves(t, doing[t].step, Fd(t))
    BY <1>1, <1>5 DEF Moves, Fd
  <1> QED  BY <1>2, <1>3, <1>4, <1>5

LEMMA MovesToAStep ==
  ASSUME EveryThreadIsInStep, NEW t \in Threads, NEW step, NEW fd, Moves(t, step, fd),
         step \in StepsOf(Op(t))
  PROVE  EveryThreadIsInStep'
  <1> SUFFICES ASSUME NEW u \in Threads
               PROVE  /\ DOMAIN doing'[u] = {"asked", "step", "fd", "got", "seen"}
                      /\ doing'[u].asked \in Requests \cup {NoRequest}
                      /\ doing'[u].step \in StepsOf(doing'[u].asked.op)
    BY DEF EveryThreadIsInStep, Moves, Op
  <1>1. CASE u = t
    BY <1>1 DEF EveryThreadIsInStep, Moves, Op
  <1>2. CASE u # t
    BY <1>2 DEF EveryThreadIsInStep, Moves, Op
  <1> QED  BY <1>1, <1>2

-----------------------------------------------------------------------------
\* Who holds which descriptor.

HoldersAreSound == /\ EveryFdIsHeld
                   /\ Sound => \A t \in Threads : Holds(t) => HoldsItsFile(t)

\* What the holders rely on: which descriptors are in use, on which files, and the
\* names of these.
KeepsFds == \A f \in Fds :
  /\ fileDescriptorTable'[f].in_use = fileDescriptorTable[f].in_use
  /\ fileDescriptorTable'[f].i_node_number = fileDescriptorTable[f].i_node_number
KeepsEntries == directoryCache'.entry = directoryCache.entry

\* One thread moves, and neither takes nor leaves a descriptor.
LEMMA OthersStillHold ==
  ASSUME HoldersAreSound, Sound, NEW t \in Threads, KeepsFds, KeepsEntries,
         \A u \in Threads \ {t} : doing'[u] = doing[u],
         Holds(t)' <=> Holds(t),
         Holds(t) => doing'[t].fd = Fd(t) /\ doing'[t].asked = doing[t].asked
  PROVE  HoldersAreSound'
  <1>1. \A u \in Threads : /\ Holds(u)' <=> Holds(u)
                           /\ Holds(u) => Fd(u)' = Fd(u) /\ Name(u)' = Name(u)
    BY DEF Holds, Fd, Name
  <1>2. /\ \A f \in Fds : InUse(f)' <=> InUse(f)
        /\ \A i \in Spots : Entry(i)' = Entry(i)
        /\ NamedSpots' = NamedSpots
    BY DEF KeepsFds, KeepsEntries, InUse, Entry, NamedSpots
  <1>3. /\ \A f \in Fds : InUse(f) <=> \E u \in Threads : Holds(u) /\ Fd(u) = f
        /\ \A u, v \in Threads : u # v /\ Holds(u) /\ Holds(v) => Fd(u) # Fd(v)
        /\ \A u \in Threads : Holds(u) => HoldsItsFile(u)
    BY DEF HoldersAreSound, EveryFdIsHeld
  <1>4. EveryFdIsHeld'
    BY <1>1, <1>2, <1>3 DEF EveryFdIsHeld
  <1>5. ASSUME NEW u \in Threads, Holds(u)
        PROVE  HoldsItsFile(u)'
    <2>1. /\ Fd(u) \in Fds
          /\ \E i \in NamedSpots :
                /\ Entry(i).name = Name(u)
                /\ Entry(i).i_node_index = fileDescriptorTable[Fd(u)].i_node_number
      BY <1>3, <1>5 DEF HoldsItsFile
    <2>2. /\ Fd(u)' = Fd(u) /\ Name(u)' = Name(u)
          /\ fileDescriptorTable'[Fd(u)].i_node_number
                = fileDescriptorTable[Fd(u)].i_node_number
      BY <1>1, <1>5, <2>1 DEF KeepsFds
    <2> QED  BY <1>2, <2>1, <2>2 DEF HoldsItsFile, NamedSpots
  <1> QED  BY <1>1, <1>4, <1>5 DEF HoldersAreSound


-----------------------------------------------------------------------------
\* The descriptor that an open gives out.

LEMMA FdForIsThere ==
  ASSUME fileDescriptorTable \in Descriptors, NEW i \in Spots, NEW size, FdFor(i) # -1,
         fileDescriptorTable' = Described(i, size)
  PROVE  /\ FdFor(i) \in Fds
         /\ InUse(FdFor(i)) => fileDescriptorTable[FdFor(i)].i_node_number = i
         /\ fileDescriptorTable'[FdFor(i)].i_node_number = i
         /\ fileDescriptorTable'[FdFor(i)].in_use = TRUE
         /\ \A f \in Fds \ {FdFor(i)} : fileDescriptorTable'[f] = fileDescriptorTable[f]
  <1> DEFINE having == {f \in Fds : fileDescriptorTable[f].i_node_number = i}
             idle   == {f \in Fds : ~fileDescriptorTable[f].in_use}
             fd     == FdFor(i)
  <1>1. Fds \subseteq Nat /\ -1 \notin Fds
    BY Sizes DEF Fds
  <1>2. \/ having = {} /\ FirstOf(having) = -1
        \/ FirstOf(having) \in having /\ FirstOf(having) # -1
    BY <1>1, FirstOfIsFirst
  <1>3. (idle = {} /\ FirstOf(idle) = -1) \/ FirstOf(idle) \in idle
    BY <1>1, FirstOfIsFirst
  <1>4. /\ fd = IF FirstOf(having) # -1 THEN FirstOf(having) ELSE FirstOf(idle)
        /\ fileDescriptorTable' =
              IF FirstOf(having) # -1
              THEN [fileDescriptorTable EXCEPT ![fd].in_use = TRUE]
              ELSE [fileDescriptorTable EXCEPT ![fd] =
                      [i_node_number |-> i, read_write_pointer |-> size, in_use |-> TRUE]]
    BY DEF FdFor, Described, FileDescriptorTable_getIndexOfInode,
           FileDescriptorTable_getOpenIndex
  <1>5. CASE FirstOf(having) # -1
    <2>1. fd \in having
      BY <1>2, <1>4, <1>5
    <2>2. fd \in Fds /\ fileDescriptorTable[fd].i_node_number = i
      BY <2>1
    <2>3. fileDescriptorTable' = [fileDescriptorTable EXCEPT ![fd].in_use = TRUE]
      BY <1>4, <1>5
    <2> HIDE DEF fd, having, idle
    <2>4. /\ fileDescriptorTable'[fd].i_node_number = i
          /\ fileDescriptorTable'[fd].in_use = TRUE
          /\ \A f \in Fds \ {fd} : fileDescriptorTable'[f] = fileDescriptorTable[f]
      BY <2>2, <2>3 DEF Descriptors
    <2> QED  BY <2>2, <2>4 DEF fd
  <1>6. CASE FirstOf(having) = -1
    <2>1. fd \in idle /\ fd # -1
      BY <1>3, <1>4, <1>6
    <2>2. fd \in Fds /\ ~InUse(fd)
      BY <2>1 DEF InUse
    <2>3. fileDescriptorTable' = [fileDescriptorTable EXCEPT ![fd] =
              [i_node_number |-> i, read_write_pointer |-> size, in_use |-> TRUE]]
      BY <1>4, <1>6
    <2> HIDE DEF fd, having, idle
    <2>4. /\ fileDescriptorTable'[fd].i_node_number = i
          /\ fileDescriptorTable'[fd].in_use = TRUE
          /\ \A f \in Fds \ {fd} : fileDescriptorTable'[f] = fileDescriptorTable[f]
      BY <2>2, <2>3 DEF Descriptors
    <2> QED  BY <2>2, <2>4 DEF fd
  <1> QED  BY <1>5, <1>6

\* A file that is opened has the i-node its name leads to, which is taken, or the
\* one that a new name gets, which was not; and no used entry is lost unless that
\* is noted as a fault.
Opens(name, i) ==
  /\ FdFor(i) # -1
  /\ \E size : fileDescriptorTable' = Described(i, size)
  /\ \E e \in Spots : /\ ~directoryCache'.entry[e].open
                      /\ directoryCache'.entry[e].name = name
                      /\ directoryCache'.entry[e].i_node_index = i
  /\ \/ i \in iNodeTable.open
     \/ \E e \in Spots : ~Entry(e).open /\ Entry(e).name = name /\ Entry(e).i_node_index = i
  /\ faults' = {} => \A e \in NamedSpots : directoryCache'.entry[e] = Entry(e)

LEMMA OpenOpens ==
  ASSUME IndInv, NEW name \in Names, sfs_fopen(name)
  PROVE  INodeOf(name) \in Spots /\ Opens(name, INodeOf(name))
  <1> DEFINE i == INodeOf(name)
  <1>1. TypeOK /\ EntriesAreSound(directoryCache.entry, iNodeTable.open)
    BY DEF IndInv
  <1>2. CASE fopen_Existing(name)
    <2> DEFINE spot == DirectoryCache_getNameIndex(name)
    <2>1. spot # -1 /\ CanOpen(name)
      BY <1>2 DEF fopen_Existing
    <2>2. /\ spot \in Spots /\ Entry(spot).i_node_index \in Spots \ iNodeTable.open
          /\ ~Entry(spot).open
      BY <1>1, <2>1, NameIndexIsThere
    <2>3. i = Entry(spot).i_node_index /\ FdFor(i) # -1
      BY <2>1 DEF INodeOf, CanOpen
    <2>4. Entry(spot).name = name
      <3> DEFINE T == {k \in Spots : Entry(k).name = name}
      <3>1. T \subseteq Nat
        BY Sizes DEF Spots
      <3>2. spot = FirstOf(T)
        BY DEF DirectoryCache_getNameIndex
      <3> HIDE DEF T, spot
      <3>3. spot \in T
        BY <2>1, <3>1, <3>2, FirstOfIsFirst
      <3> QED  BY <3>3 DEF T
    <2>5. /\ fileDescriptorTable' = Described(i, iNodeTable.i_node[i].size)
          /\ directoryCache' = directoryCache
      BY <1>2 DEF fopen_Existing, memory
    <2> HIDE DEF spot, i
    <2>6. directoryCache'.entry[spot] = Entry(spot)
      BY <2>5 DEF Entry
    <2>7. \E e \in Spots : /\ ~directoryCache'.entry[e].open
                           /\ directoryCache'.entry[e].name = name
                           /\ directoryCache'.entry[e].i_node_index = i
      BY <2>2, <2>3, <2>4, <2>6
    <2>8. \A e \in NamedSpots : directoryCache'.entry[e] = Entry(e)
      BY <2>5 DEF Entry
    <2>9. Opens(name, i)
      BY <2>2, <2>3, <2>4, <2>5, <2>7, <2>8 DEF Opens
    <2> QED  BY <2>2, <2>3, <2>9 DEF i
  <1>3. CASE fopen_New(name)
    <2> DEFINE spot == DirectoryCache_getOpenIndex
               e == [name |-> name, i_node_index |-> i, open |-> FALSE]
    <2>1. DirectoryCache_getNameIndex(name) = -1 /\ CanOpen(name)
      BY <1>3 DEF fopen_New
    <2>2. Spots \subseteq Nat /\ -1 \notin Spots
      BY Sizes DEF Spots
    <2>3. i \in iNodeTable.open /\ i \in Spots
      <3>1. iNodeTable.open \subseteq Spots
        BY <1>1 DEF TypeOK, INodeTables
      <3>2. i = FirstOf(iNodeTable.open) /\ i # -1
        BY <2>1 DEF INodeOf, CanOpen, INodeTable_getOpenIndex
      <3> HIDE DEF i
      <3> QED  BY <2>2, <3>1, <3>2, FirstOfIsFirst
    <2>4. spot \in Spots
      <3> DEFINE S == {k \in Spots : DirectoryCache_isOpen(directoryCache.readIndex + k)}
      <3>1. spot = FirstOf(S) /\ spot # -1
        BY <2>1 DEF DirectoryCache_getOpenIndex, CanOpen
      <3>2. S \subseteq Nat /\ S \subseteq Spots
        BY <2>2
      <3> HIDE DEF spot, S
      <3> QED  BY <3>1, <3>2, FirstOfIsFirst
    <2>5. FdFor(i) # -1
      BY <2>1 DEF CanOpen, FdFor
    <2>6. /\ directoryCache' = [directoryCache EXCEPT !.entry[spot] = e]
          /\ fileDescriptorTable' = Described(i, 0)
          /\ faults' = IF Entry(spot).open THEN faults ELSE faults \cup {"overwritten"}
      BY <1>3 DEF fopen_New
    <2>7. e.name = name /\ e.i_node_index = i /\ e.open = FALSE
      OBVIOUS
    <2> HIDE DEF spot, e, i
    <2>8. \A k \in Spots : directoryCache'.entry[k] = IF k = spot THEN e ELSE Entry(k)
      BY <1>1, <2>4, <2>6 DEF TypeOK, Directories, Entry
    <2>9. ASSUME faults' = {}, NEW k \in NamedSpots
          PROVE  directoryCache'.entry[k] = Entry(k)
      BY <2>6, <2>8, <2>9 DEF NamedSpots
    <2>10. \E k \in Spots : /\ ~directoryCache'.entry[k].open
                            /\ directoryCache'.entry[k].name = name
                            /\ directoryCache'.entry[k].i_node_index = i
      BY <2>4, <2>7, <2>8
    <2>11. Opens(name, i)
      BY <2>3, <2>5, <2>6, <2>9, <2>10 DEF Opens
    <2> QED  BY <2>3, <2>11 DEF i
  <1> QED  BY <1>2, <1>3 DEF sfs_fopen


\* The file that one callback opens is not the one that another holds.
LEMMA HoldersDiffer ==
  ASSUME EveryThreadIsInStep, Apart, NEW t \in Threads, NEW u \in Threads, t # u,
         Holds(u), doing[t].step \in {"open", "remove", "seek", "io", "close"}
  PROVE  Name(u) # Name(t)
  <1>1. Op(t) # "getattr" /\ doing[t] # Idle
    <2>1. doing[t].step \in StepsOf(Op(t)) /\ Idle.step = "idle"
      BY ThreadIsInStep DEF Idle
    <2> QED  BY <2>1 DEF StepsOf
  <1>2. Op(u) # "getattr" /\ doing[u] # Idle
    <2>1. doing[u].step \in StepsOf(Op(u)) /\ Idle.step = "idle"
      BY ThreadIsInStep DEF Idle
    <2> QED  BY <2>1 DEF StepsOf, Holds
  <1> QED  BY <1>1, <1>2 DEF Apart, Busy, LooksAt, Separate

LEMMA OpenTakes ==
  ASSUME IndInv, EveryThreadIsInStep, Apart, HoldersAreSound, Sound, faults' = {},
         NEW t \in Threads, doing[t].step = "open", NEW i \in Spots, Opens(Name(t), i),
         NEW step \in {"seek", "close"}, Moves(t, step, FdFor(i))
  PROVE  HoldersAreSound'
  <1> DEFINE fd == FdFor(i)
             number(f) == fileDescriptorTable[f].i_node_number
  <1>1. /\ \A f \in Fds : InUse(f) <=> \E u \in Threads : Holds(u) /\ Fd(u) = f
        /\ \A u, v \in Threads : u # v /\ Holds(u) /\ Holds(v) => Fd(u) # Fd(v)
        /\ \A u \in Threads : Holds(u) => HoldsItsFile(u)
    BY DEF HoldersAreSound, EveryFdIsHeld
  <1>2. /\ fd \in Fds
        /\ InUse(fd) => number(fd) = i
        /\ fileDescriptorTable'[fd].i_node_number = i
        /\ fileDescriptorTable'[fd].in_use = TRUE
        /\ \A f \in Fds \ {fd} : fileDescriptorTable'[f] = fileDescriptorTable[f]
    BY FdForIsThere DEF IndInv, TypeOK, Opens
  <1>3. /\ ~Holds(t) /\ Holds(t)' /\ Fd(t)' = fd /\ Name(t)' = Name(t)
        /\ \A u \in Threads \ {t} : /\ Holds(u)' <=> Holds(u)
                                    /\ Fd(u)' = Fd(u) /\ Name(u)' = Name(u)
    BY DEF Moves, Holds, Fd, Name
  <1>4. /\ EntriesAreSound(directoryCache.entry, iNodeTable.open)
        /\ DescriptorsAreSound
    BY DEF IndInv
  <1> HIDE DEF fd
  <1>5. ~InUse(fd)
    <2> SUFFICES ASSUME InUse(fd)
                 PROVE  FALSE
      OBVIOUS
    <2>1. PICK u \in Threads : Holds(u) /\ Fd(u) = fd
      BY <1>1, <1>2
    <2>2. u # t
      BY <1>3, <2>1
    <2>3. PICK s \in NamedSpots : /\ Entry(s).name = Name(u)
                                  /\ Entry(s).i_node_index = number(fd)
      BY <1>1, <2>1 DEF HoldsItsFile
    <2>4. Name(u) # Name(t)
      BY <2>1, <2>2, HoldersDiffer
    <2>5. number(fd) = i /\ i \notin iNodeTable.open
      BY <1>2, <1>4 DEF DescriptorsAreSound
    <2>6. PICK e \in Spots : /\ ~Entry(e).open /\ Entry(e).name = Name(t)
                             /\ Entry(e).i_node_index = i
      BY <2>5 DEF Opens
    <2>7. e = s
      BY <1>4, <2>3, <2>5, <2>6 DEF EntriesAreSound, NamedSpots, Entry
    <2> QED  BY <2>3, <2>4, <2>6, <2>7
  <1>6. \A f \in Fds : InUse(f)' <=> InUse(f) \/ f = fd
    BY <1>2 DEF InUse
  <1>7. EveryFdIsHeld'
    <2>1. \A f \in Fds : InUse(f)' <=> \E u \in Threads : Holds(u)' /\ Fd(u)' = f
      <3> SUFFICES ASSUME NEW f \in Fds
                   PROVE  InUse(f)' <=> \E u \in Threads : Holds(u)' /\ Fd(u)' = f
        OBVIOUS
      <3>1. CASE f = fd
        BY <1>3, <1>6, <3>1
      <3>2. CASE f # fd
        BY <1>1, <1>3, <1>6, <3>2
      <3> QED  BY <3>1, <3>2
    <2>2. \A u \in Threads \ {t} : Holds(u) => Fd(u) # fd
      BY <1>1, <1>2, <1>5
    <2>3. ASSUME NEW u \in Threads, NEW v \in Threads, u # v, Holds(u)', Holds(v)'
          PROVE  Fd(u)' # Fd(v)'
      <3>1. CASE u = t
        BY <1>3, <2>2, <2>3, <3>1
      <3>2. CASE v = t
        BY <1>3, <2>2, <2>3, <3>2
      <3>3. CASE u # t /\ v # t
        BY <1>1, <1>3, <2>3, <3>3
      <3> QED  BY <3>1, <3>2, <3>3
    <2> QED  BY <2>1, <2>3 DEF EveryFdIsHeld
  <1>8. ASSUME NEW u \in Threads, Holds(u)'
        PROVE  HoldsItsFile(u)'
    <2>1. CASE u = t
      <3>1. PICK e \in Spots : /\ ~directoryCache'.entry[e].open
                               /\ directoryCache'.entry[e].name = Name(t)
                               /\ directoryCache'.entry[e].i_node_index = i
        BY DEF Opens
      <3> QED  BY <1>2, <1>3, <2>1, <3>1 DEF HoldsItsFile, NamedSpots, Entry
    <2>2. CASE u # t
      <3>1. Holds(u) /\ HoldsItsFile(u) /\ Fd(u)' = Fd(u) /\ Name(u)' = Name(u)
        BY <1>1, <1>3, <1>8, <2>2
      <3>2. PICK s \in NamedSpots : Entry(s).name = Name(u)
                                    /\ Entry(s).i_node_index = number(Fd(u))
        BY <3>1 DEF HoldsItsFile
      <3>3. Fd(u) \in Fds \ {fd}
        BY <1>1, <1>2, <1>5, <3>1 DEF HoldsItsFile
      <3>4. directoryCache'.entry[s] = Entry(s)
        BY DEF Opens
      <3>5. fileDescriptorTable'[Fd(u)].i_node_number = number(Fd(u))
        BY <1>2, <3>3
      <3> QED  BY <3>1, <3>2, <3>3, <3>4, <3>5 DEF HoldsItsFile, NamedSpots, Entry
    <2> QED  BY <2>1, <2>2
  <1> QED  BY <1>7, <1>8 DEF HoldersAreSound

LEMMA CloseLeaves ==
  ASSUME IndInv, HoldersAreSound, Sound, NEW t \in Threads, doing[t].step = "close",
         sfs_fclose(Fd(t)), \A u \in Threads \ {t} : doing'[u] = doing[u],
         doing'[t].step = "idle"
  PROVE  HoldersAreSound'
  <1>1. /\ \A f \in Fds : InUse(f) <=> \E u \in Threads : Holds(u) /\ Fd(u) = f
        /\ \A u, v \in Threads : u # v /\ Holds(u) /\ Holds(v) => Fd(u) # Fd(v)
        /\ \A u \in Threads : Holds(u) => HoldsItsFile(u)
    BY DEF HoldersAreSound, EveryFdIsHeld
  <1>2. /\ Holds(t) /\ Fd(t) \in Fds /\ ~Holds(t)'
        /\ \A u \in Threads \ {t} : /\ Holds(u)' <=> Holds(u)
                                    /\ Fd(u)' = Fd(u) /\ Name(u)' = Name(u)
    BY <1>1 DEF Holds, Fd, Name, HoldsItsFile
  <1>3. /\ fileDescriptorTable' = [fileDescriptorTable EXCEPT ![Fd(t)] = NotInUse]
        /\ directoryCache' = directoryCache
    BY DEF sfs_fclose, memory
  <1>4. /\ \A f \in Fds \ {Fd(t)} : fileDescriptorTable'[f] = fileDescriptorTable[f]
        /\ ~fileDescriptorTable'[Fd(t)].in_use
    BY <1>2, <1>3 DEF IndInv, TypeOK, Descriptors, NotInUse
  <1>5. \A f \in Fds : InUse(f)' <=> InUse(f) /\ f # Fd(t)
    BY <1>4 DEF InUse
  <1>6. EveryFdIsHeld'
    BY <1>1, <1>2, <1>5 DEF EveryFdIsHeld
  <1>7. ASSUME NEW u \in Threads, Holds(u)'
        PROVE  HoldsItsFile(u)'
    <2>1. /\ u # t /\ Holds(u) /\ HoldsItsFile(u) /\ Fd(u) # Fd(t)
          /\ Fd(u)' = Fd(u) /\ Name(u)' = Name(u)
      BY <1>1, <1>2, <1>7
    <2>2. fileDescriptorTable'[Fd(u)] = fileDescriptorTable[Fd(u)]
      BY <1>4, <2>1 DEF HoldsItsFile
    <2> QED  BY <1>3, <2>1, <2>2 DEF HoldsItsFile, NamedSpots, Entry
  <1> QED  BY <1>6, <1>7 DEF HoldersAreSound

LEMMA RemovalLeaves ==
  ASSUME IndInv, EveryThreadIsInStep, Apart, HoldersAreSound, Sound,
         NEW t \in Threads, doing[t].step = "remove", Name(t) \in Names,
         sfs_remove(Name(t)), NEW step \in {"open", "return"}, Moves(t, step, Fd(t))
  PROVE  HoldersAreSound'
  <1> DEFINE spot == DirectoryCache_getNameIndex(Name(t))
  <1>1. /\ \A f \in Fds : InUse(f) <=> \E u \in Threads : Holds(u) /\ Fd(u) = f
        /\ \A u, v \in Threads : u # v /\ Holds(u) /\ Holds(v) => Fd(u) # Fd(v)
        /\ \A u \in Threads : Holds(u) => HoldsItsFile(u)
    BY DEF HoldersAreSound, EveryFdIsHeld
  <1>2. /\ ~Holds(t) /\ ~Holds(t)'
        /\ \A u \in Threads \ {t} : /\ Holds(u)' <=> Holds(u)
                                    /\ Fd(u)' = Fd(u) /\ Name(u)' = Name(u)
    BY DEF Moves, Holds, Fd, Name
  <1>3. spot # -1 /\ fileDescriptorTable' = fileDescriptorTable
        /\ directoryCache' = DirectoryCache_deleteIndex(directoryCache, spot)
    BY DEF sfs_remove, Removed
  <1>4. spot \in Spots /\ Entry(spot).name = Name(t)
    <2> DEFINE T == {k \in Spots : Entry(k).name = Name(t)}
    <2>1. T \subseteq Nat
      BY Sizes DEF Spots
    <2>2. spot = FirstOf(T) /\ spot # -1
      BY <1>3 DEF DirectoryCache_getNameIndex
    <2> HIDE DEF T, spot
    <2>3. spot \in T
      BY <2>1, <2>2, FirstOfIsFirst
    <2> QED  BY <2>3 DEF T
  <1> HIDE DEF spot
  <1>5. \A k \in Spots \ {spot} : directoryCache'.entry[k] = Entry(k)
    BY <1>3, <1>4 DEF DirectoryCache_deleteIndex, IndInv, TypeOK, Directories, Entry
  <1>6. EveryFdIsHeld'
    <2>1. \A f \in Fds : InUse(f)' <=> InUse(f)
      BY <1>3 DEF InUse
    <2> QED  BY <1>1, <1>2, <2>1 DEF EveryFdIsHeld
  <1>7. ASSUME NEW u \in Threads, Holds(u)'
        PROVE  HoldsItsFile(u)'
    <2>1. u # t /\ Holds(u) /\ HoldsItsFile(u) /\ Fd(u)' = Fd(u) /\ Name(u)' = Name(u)
      BY <1>1, <1>2, <1>7
    <2>2. Name(u) # Name(t)
      BY <2>1, HoldersDiffer
    <2>3. PICK s \in NamedSpots :
             /\ Entry(s).name = Name(u)
             /\ Entry(s).i_node_index = fileDescriptorTable[Fd(u)].i_node_number
      BY <2>1 DEF HoldsItsFile
    <2>4. directoryCache'.entry[s] = Entry(s)
      BY <1>4, <1>5, <2>2, <2>3 DEF NamedSpots
    <2> QED  BY <1>3, <2>1, <2>3, <2>4 DEF HoldsItsFile, NamedSpots, Entry
  <1> QED  BY <1>6, <1>7 DEF HoldersAreSound


-----------------------------------------------------------------------------
\* The steps of a callback.

\* What a step has to keep: the other part of FuseInv is asked of it by FuseSpec.
Kept == IndInv /\ EveryThreadIsInStep /\ HoldersAreSound

LEMMA KeptMakesInv == FuseInv <=> Kept /\ Apart
  BY DEF FuseInv, Kept, HoldersAreSound

\* A step of a callback that leaves the file system alone.
LEMMA TurnKeeps ==
  ASSUME Kept, Sound, NEW t \in Threads, NEW step, Moves(t, step, Fd(t)),
         step \in StepsOf(Op(t)), ~Holds(t), step \notin {"seek", "io", "close"}, IndInv',
         KeepsFds, KeepsEntries
  PROVE  Kept'
  <1>1. EveryThreadIsInStep'
    BY MovesToAStep DEF Kept
  <1>2. \A u \in Threads \ {t} : doing'[u] = doing[u]
    BY DEF Moves
  <1>3. Holds(t)' <=> Holds(t)
    BY DEF Moves, Holds
  <1>4. HoldersAreSound'
    BY <1>2, <1>3, OthersStillHold DEF Kept
  <1> QED  BY <1>1, <1>4 DEF Kept

\* A step of a callback that holds a descriptor and goes on with it.
LEMMA GoingOnKeeps ==
  ASSUME Kept, Sound, NEW t \in Threads, NEW step \in {"io", "close"},
         Moves(t, step, Fd(t)), step \in StepsOf(Op(t)), Holds(t), IndInv',
         KeepsFds, KeepsEntries
  PROVE  Kept'
  <1>1. EveryThreadIsInStep'
    BY MovesToAStep DEF Kept
  <1>2. \A u \in Threads \ {t} : doing'[u] = doing[u]
    BY DEF Moves
  <1>3. Holds(t)' <=> Holds(t)
    BY DEF Moves, Holds
  <1>4. doing'[t].fd = Fd(t) /\ doing'[t].asked = doing[t].asked
    BY DEF Moves
  <1>5. HoldersAreSound'
    BY <1>2, <1>3, <1>4, OthersStillHold DEF Kept
  <1> QED  BY <1>1, <1>5 DEF Kept

\* A step after which the system is not followed any more.
LEMMA TroubleKeeps ==
  ASSUME Kept, NEW t \in Threads, NEW step, NEW fd, Moves(t, step, fd),
         step \in StepsOf(Op(t)), IndInv', ~Sound'
  PROVE  Kept'
  <1>1. EveryThreadIsInStep'
    BY MovesToAStep DEF Kept
  <1> QED  BY <1>1 DEF Kept, HoldersAreSound, EveryFdIsHeld

LEMMA UnchangedKeepsIndInv ==
  ASSUME IndInv, UNCHANGED vars
  PROVE  IndInv' /\ KeepsFds /\ KeepsEntries
  <1>1. IndInv'
    BY StutteringKeeps
  <1> QED  BY <1>1 DEF vars, memory, KeepsFds, KeepsEntries

LEMMA BeginKeeps ==
  ASSUME Kept, NEW t \in Threads, NEW r \in Requests, Begin(t, r)
  PROVE  Kept'
  <1>1. /\ Sound /\ doing[t] = Idle /\ UNCHANGED vars
        /\ doing' = [doing EXCEPT ![t].asked = r, ![t].step = FirstStep(r.op)]
    BY DEF Begin
  <1>2. DOMAIN doing = Threads
        /\ DOMAIN doing[t] = {"asked", "step", "fd", "got", "seen"}
    BY DEF Kept, EveryThreadIsInStep
  <1>3. /\ DOMAIN doing' = Threads
        /\ DOMAIN doing'[t] = {"asked", "step", "fd", "got", "seen"}
        /\ doing'[t].asked = r /\ doing'[t].step = FirstStep(r.op)
        /\ \A u \in Threads \ {t} : doing'[u] = doing[u]
    BY <1>1, <1>2
  <1>4. r.op \in {"getattr", "open", "create", "truncate", "unlink", "read", "write",
                  "readdir"}
    BY DEF Requests, Request
  <1>5. FirstStep(r.op) \in StepsOf(r.op) \ {"seek", "io", "close"}
    BY <1>4 DEF FirstStep, StepsOf
  <1>6. EveryThreadIsInStep'
    <2> SUFFICES ASSUME NEW u \in Threads
                 PROVE  /\ DOMAIN doing'[u] = {"asked", "step", "fd", "got", "seen"}
                        /\ doing'[u].asked \in Requests \cup {NoRequest}
                        /\ doing'[u].step \in StepsOf(doing'[u].asked.op)
      BY <1>3 DEF EveryThreadIsInStep, Op
    <2>1. CASE u = t
      BY <1>3, <1>5, <2>1
    <2>2. CASE u # t
      BY <1>3, <2>2 DEF Kept, EveryThreadIsInStep, Op
    <2> QED  BY <2>1, <2>2
  <1>7. ~Holds(t) /\ ~Holds(t)'
    BY <1>1, <1>3, <1>5 DEF Holds, Idle
  <1>8. IndInv' /\ KeepsFds /\ KeepsEntries
    BY <1>1, UnchangedKeepsIndInv DEF Kept
  <1>9. HoldersAreSound'
    BY <1>1, <1>3, <1>7, <1>8, OthersStillHold DEF Kept
  <1> QED  BY <1>6, <1>8, <1>9 DEF Kept

LEMMA StatKeeps ==
  ASSUME Kept, NEW t \in Threads, Stat(t)
  PROVE  Kept'
  <1>1. Sound /\ doing[t].step = "stat" /\ UNCHANGED vars
    BY DEF Stat, At
  <1>2. PICK x : doing' = [doing EXCEPT ![t].step = "return", ![t].got = x]
    BY DEF Stat, Answers
  <1>3. Moves(t, "return", Fd(t))
    BY <1>2, ThreadMoves DEF Kept
  <1>4. "return" \in StepsOf(Op(t)) /\ ~Holds(t)
    BY <1>1, ThreadIsInStep DEF Kept, StepsOf, Holds
  <1> QED  BY <1>1, <1>3, <1>4, TurnKeeps, UnchangedKeepsIndInv DEF Kept

LEMMA OpenKeeps ==
  ASSUME Kept, Apart, NEW t \in Threads, Open(t)
  PROVE  Kept'
  <1>1. Sound /\ doing[t].step = "open"
    BY DEF Open, At
  <1>2. /\ Op(t) \in {"truncate", "open", "create", "read", "write"} /\ Name(t) \in Names
        /\ AfterOpen(Op(t)) \in StepsOf(Op(t)) \cap {"seek", "close"}
        /\ "return" \in StepsOf(Op(t)) /\ ~Holds(t)
    BY <1>1, ThreadIsInStep DEF Kept, StepsOf, Holds, AfterOpen
  <1>3. CASE /\ doing' = [doing EXCEPT ![t].step = AfterOpen(Op(t)),
                                       ![t].fd = FdFor(INodeOf(Name(t)))]
             /\ sfs_fopen(Name(t))
    <2>1. IndInv'
      BY <1>2, <1>3, OpenExistingKeeps, OpenNewKeeps DEF Kept, sfs_fopen
    <2>2. INodeOf(Name(t)) \in Spots /\ Opens(Name(t), INodeOf(Name(t)))
      BY <1>2, <1>3, OpenOpens DEF Kept
    <2>3. Moves(t, AfterOpen(Op(t)), FdFor(INodeOf(Name(t))))
      BY <1>3, ThreadMoves DEF Kept
    <2>4. CASE Sound'
      <3>1. HoldersAreSound'
        BY <1>1, <1>2, <2>2, <2>3, <2>4, OpenTakes DEF Kept, Sound
      <3>2. EveryThreadIsInStep'
        BY <1>2, <2>3, MovesToAStep DEF Kept
      <3> QED  BY <2>1, <3>1, <3>2 DEF Kept
    <2>5. CASE ~Sound'
      BY <1>2, <2>1, <2>3, <2>5, TroubleKeeps
    <2> QED  BY <2>4, <2>5
  <1>4. CASE UNCHANGED vars /\ doing' = [doing EXCEPT ![t].step = "return"]
    <2>1. Moves(t, "return", Fd(t))
      BY <1>4, ThreadMoves DEF Kept
    <2> QED  BY <1>1, <1>2, <1>4, <2>1, TurnKeeps, UnchangedKeepsIndInv DEF Kept
  <1> QED  BY <1>3, <1>4 DEF Open, Fails

LEMMA PointerKeepsFds ==
  ASSUME IndInv, NEW f \in Fds, NEW at,
         fileDescriptorTable' = [fileDescriptorTable EXCEPT ![f].read_write_pointer = at]
  PROVE  KeepsFds
  BY DEF IndInv, TypeOK, Descriptors, KeepsFds

\* A callback that holds a descriptor holds one that there is.
LEMMA HeldIsThere ==
  ASSUME Kept, Sound, NEW t \in Threads, Holds(t)
  PROVE  Fd(t) \in Fds
  BY DEF Kept, HoldersAreSound, HoldsItsFile

LEMMA SeekStepKeeps ==
  ASSUME Kept, NEW t \in Threads, Seek(t)
  PROVE  Kept'
  <1>1. /\ Sound /\ doing[t].step = "seek"
        /\ doing' = [doing EXCEPT ![t].step = "io"]
        /\ sfs_fseek(Fd(t), doing[t].asked.at)
    BY DEF Seek, At, Goes
  <1>2. Holds(t) /\ "io" \in StepsOf(Op(t)) /\ Op(t) \in {"read", "write"}
    BY <1>1, ThreadIsInStep DEF Kept, StepsOf, Holds
  <1>3. Fd(t) \in Fds /\ doing[t].asked.at \in Places
    BY <1>1, <1>2, HeldIsThere, ThreadIsInStep DEF Kept
  <1>4. IndInv'
    BY <1>1, <1>3, SeekKeeps DEF Kept
  <1>5. KeepsFds /\ KeepsEntries
    BY <1>1, <1>3, PointerKeepsFds DEF Kept, sfs_fseek, memory, KeepsEntries
  <1>6. Moves(t, "io", Fd(t))
    BY <1>1, ThreadMoves DEF Kept
  <1> QED  BY <1>1, <1>2, <1>4, <1>5, <1>6, GoingOnKeeps

LEMMA ReadStepKeeps ==
  ASSUME Kept, NEW t \in Threads, Read(t)
  PROVE  Kept'
  <1>1. /\ Sound /\ doing[t].step = "io" /\ Op(t) = "read"
        /\ doing' = [doing EXCEPT ![t].step = "close", ![t].got = result']
        /\ sfs_fread(Fd(t), Len(doing[t].asked.buf))
    BY DEF Read, At, Answers
  <1>2. Holds(t) /\ "close" \in StepsOf(Op(t))
    BY <1>1 DEF StepsOf, Holds
  <1>3. Fd(t) \in Fds
    BY <1>1, <1>2, HeldIsThere
  <1>4. Len(doing[t].asked.buf) \in Lengths
    <2>1. PICK v \in Bytes, length \in Lengths : doing[t].asked.buf = Buffer(v, length)
      BY <1>1, ThreadIsInStep DEF Kept
    <2>2. length \in Nat /\ v \in Nat
      BY SizesAssumption
    <2>3. Buffer(v, length) = [j \in 1 .. length |-> v + j]
          /\ Buffer(v, length) \in Seq(Nat)
      BY BuffersAreWritten DEF Buffer
    <2> QED  BY <2>1, <2>2, <2>3
  <1>5. IndInv'
    BY <1>1, <1>3, <1>4, ReadKeeps DEF Kept
  <1>6. KeepsFds /\ KeepsEntries
    BY <1>1, <1>3, PointerKeepsFds DEF Kept, sfs_fread, memory, KeepsEntries
  <1>7. Moves(t, "close", Fd(t))
    BY <1>1, ThreadMoves DEF Kept
  <1> QED  BY <1>1, <1>2, <1>5, <1>6, <1>7, GoingOnKeeps

LEMMA WriteStepKeeps ==
  ASSUME Kept, NEW t \in Threads, Write(t)
  PROVE  Kept'
  <1>1. Sound /\ doing[t].step = "io" /\ Op(t) = "write"
    BY DEF Write, At
  <1>2. Holds(t) /\ "close" \in StepsOf(Op(t)) /\ "return" \in StepsOf(Op(t))
    BY <1>1 DEF StepsOf, Holds
  <1>3. Fd(t) \in Fds
    BY <1>1, <1>2, HeldIsThere
  <1>4. PICK v \in Bytes, length \in Lengths : doing[t].asked.buf = Buffer(v, length)
    BY <1>1, ThreadIsInStep DEF Kept
  <1>5. CASE /\ fwrite_Saves(Fd(t), doing[t].asked.buf)
             /\ \E x : doing' = [doing EXCEPT ![t].step = "close", ![t].got = x]
    <2>1. IndInv'
      BY <1>3, <1>4, <1>5, SavesKeeps DEF Kept
    <2>2. PICK at : fileDescriptorTable' =
                       [fileDescriptorTable EXCEPT ![Fd(t)].read_write_pointer = at]
      BY <1>5 DEF fwrite_Saves
    <2>3. KeepsFds
      BY <1>3, <2>2, PointerKeepsFds DEF Kept
    <2>4. KeepsEntries
      BY <1>5 DEF fwrite_Saves, KeepsEntries
    <2>5. Moves(t, "close", Fd(t))
      BY <1>5, ThreadMoves DEF Kept
    <2> QED  BY <1>1, <1>2, <2>1, <2>3, <2>4, <2>5, GoingOnKeeps
  <1>6. CASE fwrite_NoSpace(Fd(t)) /\ Fails(t, {"leaked"})
    <2>1. IndInv'
      BY <1>3, <1>6, NoSpaceKeeps DEF Kept
    <2>2. doing' = [doing EXCEPT ![t].step = "return"] /\ ~Sound'
      BY <1>6 DEF Fails, Sound
    <2>3. Moves(t, "return", Fd(t))
      BY <2>2, ThreadMoves DEF Kept
    <2> QED  BY <1>2, <2>1, <2>2, <2>3, TroubleKeeps
  <1> QED  BY <1>5, <1>6 DEF Write, Answers

\* A callback that leaves is idle.
LEMMA LeavingIsAStep ==
  ASSUME EveryThreadIsInStep, NEW t \in Threads, Leaves(t)
  PROVE  /\ EveryThreadIsInStep' /\ doing'[t].step = "idle"
         /\ \A u \in Threads \ {t} : doing'[u] = doing[u]
  <1>1. /\ DOMAIN doing' = Threads /\ doing'[t] = Idle
        /\ \A u \in Threads \ {t} : doing'[u] = doing[u]
    BY DEF Leaves, EveryThreadIsInStep
  <1>2. /\ DOMAIN Idle = {"asked", "step", "fd", "got", "seen"}
        /\ Idle.asked = NoRequest /\ Idle.step = "idle"
        /\ NoRequest.op = "none" /\ "idle" \in StepsOf("none")
    BY DEF Idle, NoRequest, Request, StepsOf
  <1> SUFFICES ASSUME NEW u \in Threads
               PROVE  /\ DOMAIN doing'[u] = {"asked", "step", "fd", "got", "seen"}
                      /\ doing'[u].asked \in Requests \cup {NoRequest}
                      /\ doing'[u].step \in StepsOf(doing'[u].asked.op)
    BY <1>1, <1>2 DEF EveryThreadIsInStep, Op
  <1>3. CASE u = t
    BY <1>1, <1>2, <1>3
  <1>4. CASE u # t
    BY <1>1, <1>4 DEF EveryThreadIsInStep, Op
  <1> QED  BY <1>3, <1>4

LEMMA CloseStepKeeps ==
  ASSUME Kept, NEW t \in Threads, Close(t)
  PROVE  Kept'
  <1>1. Sound /\ doing[t].step = "close" /\ Leaves(t) /\ sfs_fclose(Fd(t))
    BY DEF Close, At
  <1>2. Fd(t) \in Fds
    BY <1>1, HeldIsThere DEF Holds
  <1>3. IndInv'
    BY <1>1, <1>2, CloseKeeps DEF Kept
  <1>4. /\ EveryThreadIsInStep' /\ doing'[t].step = "idle"
        /\ \A u \in Threads \ {t} : doing'[u] = doing[u]
    BY <1>1, LeavingIsAStep DEF Kept
  <1>5. HoldersAreSound'
    BY <1>1, <1>4, CloseLeaves DEF Kept
  <1> QED  BY <1>3, <1>4, <1>5 DEF Kept

LEMMA ReturnKeeps ==
  ASSUME Kept, NEW t \in Threads, Return(t)
  PROVE  Kept'
  <1>1. Sound /\ doing[t].step = "return" /\ Leaves(t) /\ UNCHANGED vars
    BY DEF Return, At
  <1>2. IndInv' /\ KeepsFds /\ KeepsEntries
    BY <1>1, UnchangedKeepsIndInv DEF Kept
  <1>3. /\ EveryThreadIsInStep' /\ doing'[t].step = "idle"
        /\ \A u \in Threads \ {t} : doing'[u] = doing[u]
    BY <1>1, LeavingIsAStep DEF Kept
  <1>4. ~Holds(t) /\ ~Holds(t)'
    BY <1>1, <1>3 DEF Holds
  <1>5. HoldersAreSound'
    BY <1>1, <1>2, <1>3, <1>4, OthersStillHold DEF Kept
  <1> QED  BY <1>2, <1>3, <1>5 DEF Kept

LEMMA UnlinkKeeps ==
  ASSUME Kept, Apart, NEW t \in Threads, Unlink(t)
  PROVE  Kept'
  <1>1. Sound /\ doing[t].step = "remove"
    BY DEF Unlink, At
  <1>2. /\ Op(t) \in {"unlink", "truncate"} /\ Name(t) \in Names
        /\ "return" \in StepsOf(Op(t)) /\ ~Holds(t)
        /\ Op(t) = "truncate" => "open" \in StepsOf(Op(t))
    BY <1>1, ThreadIsInStep DEF Kept, StepsOf, Holds
  <1>3. CASE sfs_remove(Name(t)) /\ Goes(t, IF Op(t) = "truncate" THEN "open" ELSE "return")
    <2> DEFINE step == IF Op(t) = "truncate" THEN "open" ELSE "return"
    <2>1. step \in {"open", "return"} /\ step \in StepsOf(Op(t))
      BY <1>2
    <2>2. IndInv'
      BY <1>2, <1>3, RemoveKeeps DEF Kept
    <2>3. doing' = [doing EXCEPT ![t].step = step]
      BY <1>3 DEF Goes
    <2> HIDE DEF step
    <2>4. Moves(t, step, Fd(t))
      BY <2>3, ThreadMoves DEF Kept
    <2>5. HoldersAreSound'
      BY <1>1, <1>2, <1>3, <2>1, <2>4, RemovalLeaves DEF Kept
    <2>6. EveryThreadIsInStep'
      BY <2>1, <2>4, MovesToAStep DEF Kept
    <2> QED  BY <2>2, <2>5, <2>6 DEF Kept
  <1>4. CASE Fails(t, {}) /\ UNCHANGED vars
    <2>1. Moves(t, "return", Fd(t))
      BY <1>4, ThreadMoves DEF Kept, Fails
    <2> QED  BY <1>1, <1>2, <1>4, <2>1, TurnKeeps, UnchangedKeepsIndInv DEF Kept
  <1> QED  BY <1>3, <1>4 DEF Unlink

LEMMA ListStepKeeps ==
  ASSUME Kept, NEW t \in Threads, List(t)
  PROVE  Kept'
  <1>1. Sound /\ doing[t].step = "list" /\ sfs_getnextfilename
    BY DEF List, At
  <1>2. /\ doing[t].step \in StepsOf(Op(t)) /\ "return" \in StepsOf(Op(t)) /\ ~Holds(t)
    BY <1>1, ThreadIsInStep DEF Kept, StepsOf, Holds
  <1>3. IndInv'
    BY <1>1, ListKeeps DEF Kept
  <1>4. KeepsFds /\ KeepsEntries
    <2>1. /\ directoryCache' = [directoryCache EXCEPT
                                   !.readIndex = ReadIndexAfter(NextNames)]
          /\ fileDescriptorTable' = fileDescriptorTable
      BY <1>1 DEF sfs_getnextfilename
    <2> QED  BY <2>1 DEF KeepsFds, KeepsEntries, Kept, IndInv, TypeOK, Directories
  <1>5. PICK step \in {"list", "return"} : Moves(t, step, Fd(t))
    <2>1. CASE Goes(t, "return")
      <3>1. Moves(t, "return", Fd(t))
        BY <2>1, ThreadMoves DEF Kept, Goes
      <3> QED  BY <3>1
    <2>2. CASE \E x : doing' = [doing EXCEPT ![t].seen = x]
      <3>1. Moves(t, "list", Fd(t))
        BY <1>1, <2>2, ThreadMoves DEF Kept
      <3> QED  BY <3>1
    <2>3. \/ Goes(t, "return")
          \/ doing' = [doing EXCEPT ![t].seen = doing[t].seen \cup ToSet(result')]
      BY DEF List, Kept, EveryThreadIsInStep
    <2> QED  BY <2>1, <2>2, <2>3
  <1> QED  BY <1>1, <1>2, <1>3, <1>4, <1>5, TurnKeeps


LEMMA StepsKeep ==
  ASSUME FuseInv, NEW t \in Threads, Step(t)
  PROVE  Kept'
  <1>1. Kept /\ Apart
    BY KeptMakesInv
  <1>2. CASE Stat(t)
    BY <1>1, <1>2, StatKeeps
  <1>3. CASE Open(t)
    BY <1>1, <1>3, OpenKeeps
  <1>4. CASE Seek(t)
    BY <1>1, <1>4, SeekStepKeeps
  <1>5. CASE Read(t)
    BY <1>1, <1>5, ReadStepKeeps
  <1>6. CASE Write(t)
    BY <1>1, <1>6, WriteStepKeeps
  <1>7. CASE Close(t)
    BY <1>1, <1>7, CloseStepKeeps
  <1>8. CASE Unlink(t)
    BY <1>1, <1>8, UnlinkKeeps
  <1>9. CASE List(t)
    BY <1>1, <1>9, ListStepKeeps
  <1>10. CASE Return(t)
    BY <1>1, <1>10, ReturnKeeps
  <1> QED  BY <1>2, <1>3, <1>4, <1>5, <1>6, <1>7, <1>8, <1>9, <1>10 DEF Step

LEMMA FuseBegins == FuseInit => FuseInv
  <1> SUFFICES ASSUME FuseInit
               PROVE  FuseInv
    OBVIOUS
  <1>1. IndInv
    BY InitHolds DEF FuseInit
  <1>2. /\ DOMAIN Idle = {"asked", "step", "fd", "got", "seen"}
        /\ Idle.asked = NoRequest /\ Idle.step = "idle"
        /\ NoRequest.op = "none" /\ "idle" \in StepsOf("none")
    BY DEF Idle, NoRequest, Request, StepsOf
  <1>3. DOMAIN doing = Threads /\ \A t \in Threads : doing[t] = Idle
    BY DEF FuseInit
  <1>4. EveryThreadIsInStep
    BY <1>2, <1>3 DEF EveryThreadIsInStep, Op
  <1>5. Apart
    BY <1>3 DEF Apart, Busy
  <1>6. \A t \in Threads : ~Holds(t)
    BY <1>2, <1>3 DEF Holds
  <1>7. \A f \in Fds : ~InUse(f)
    BY NoneIsInUse DEF FuseInit, Init, InUse
  <1>8. HoldersAreSound
    BY <1>6, <1>7 DEF HoldersAreSound, EveryFdIsHeld
  <1> QED  BY <1>1, <1>4, <1>5, <1>8, KeptMakesInv DEF Kept

LEMMA FuseStutters ==
  ASSUME FuseInv, UNCHANGED fuseVars
  PROVE  FuseInv'
  <1>1. UNCHANGED vars /\ UNCHANGED <<doing, trouble>>
    BY DEF fuseVars
  <1>2. IndInv' /\ KeepsFds /\ KeepsEntries
    BY <1>1, UnchangedKeepsIndInv DEF FuseInv
  <1>3. EveryThreadIsInStep' /\ Apart'
    BY <1>1 DEF FuseInv, EveryThreadIsInStep, Apart, Busy, LooksAt, Separate, Op, Name
  <1>4. HoldersAreSound'
    <2>1. UNCHANGED <<faults, fileDescriptorTable, directoryCache>>
      BY <1>1 DEF vars, memory
    <2> QED  BY <1>1, <2>1 DEF FuseInv, HoldersAreSound, EveryFdIsHeld, HoldsItsFile,
                              Holds, Fd, Name, Sound, InUse, NamedSpots, Entry
  <1> QED  BY <1>2, <1>3, <1>4 DEF FuseInv, HoldersAreSound

\* Over any threads, files and disks the callbacks keep the file system sound
\* and each holds a descriptor on the file it was asked about, from its open to
\* its close: the file of a name stays what it was for as long as a callback on
\* that name is in progress.
THEOREM FuseInvariant == FuseSpec => []FuseInv
  <1>1. FuseInit => FuseInv
    BY FuseBegins
  <1>2. FuseInv /\ [FuseNext /\ Apart']_fuseVars => FuseInv'
    <2> SUFFICES ASSUME FuseInv, [FuseNext /\ Apart']_fuseVars
                 PROVE  FuseInv'
      OBVIOUS
    <2>1. CASE UNCHANGED fuseVars
      BY <2>1, FuseStutters
    <2>2. CASE FuseNext /\ Apart'
      <3>1. Kept'
        <4>1. Kept
          BY KeptMakesInv
        <4>2. PICK t \in Threads : Step(t) \/ \E r \in Requests : Begin(t, r)
          BY <2>2 DEF FuseNext
        <4>3. CASE Step(t)
          BY <4>3, StepsKeep
        <4>4. CASE \E r \in Requests : Begin(t, r)
          BY <4>1, <4>4, BeginKeeps
        <4> QED  BY <4>2, <4>3, <4>4
      <3>2. Apart'
        BY <2>2
      <3> QED  BY <3>1, <3>2 DEF FuseInv, Kept, HoldersAreSound
    <2> QED  BY <2>1, <2>2
  <1>3. FuseSpec => FuseInit /\ [][FuseNext /\ Apart']_fuseVars
    BY DEF FuseSpec
  <1> QED  BY <1>1, <1>2, <1>3, PTL

\* Whatever order the callbacks of however many threads on different files run in, a
\* descriptor in use is that of exactly one of them, between its open and its close,
\* until a write finds the disk full or an open writes over an entry.
THEOREM FuseHoldsEveryFd == FuseSpec => []EveryFdIsHeld
  <1>1. FuseInv => EveryFdIsHeld
    BY DEF FuseInv
  <1> QED  BY <1>1, FuseInvariant, PTL
=============================================================================
