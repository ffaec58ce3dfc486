----------------------------- MODULE ShellProofs -----------------------------
(***************************************************************************)
(* Proofs about the shell, for any words, any pids, a ring of any length   *)
(* and a list of jobs of any length.                                       *)
(***************************************************************************)
EXTENDS Shell, SequenceTheorems, WellFoundedInduction, TLAPS

-----------------------------------------------------------------------------
\* Going round a ring.

\* One step on, or back, goes round at the end.
LEMMA StepsRound ==
  ASSUME NEW n \in Nat \ {0}, NEW i \in 0 .. n - 1
  PROVE  /\ modular_increment(i, n) = IF i = n - 1 THEN 0 ELSE i + 1
         /\ modular_decriment(i, n) = IF i = 0 THEN n - 1 ELSE i - 1
  <1>1. (i + n - 1) % n = IF i = 0 THEN n - 1 ELSE i - 1
    <2>1. CASE i = 0
      BY <2>1, SMT
    <2>2. CASE i > 0
      BY <2>2, SMT
    <2> QED  BY <2>1, <2>2
  <1>2. (i + n + 1) % n = IF i = n - 1 THEN 0 ELSE i + 1
    <2>1. CASE i = n - 1
      <3>1. i + n + 1 = 2 * n /\ (2 * n) % n = 0
        BY <2>1, Z3
      <3> QED  BY <2>1, <3>1
    <2>2. CASE i < n - 1
      BY <2>2, SMT
    <2> QED  BY <2>1, <2>2
  <1> QED  BY <1>1, <1>2 DEF modular_increment, modular_decriment

\* Both lists have a first spot.
LEMMA FirstSpots ==
  /\ HISTORY_SIZE \in Nat \ {0} /\ 0 \in Ring
  /\ PROCESS_LIST_SIZE \in Nat \ {0} /\ 0 \in Jobs
  <1>1. HISTORY_SIZE \in Nat \ {0} /\ PROCESS_LIST_SIZE \in Nat \ {0}
    BY SizesAssumption
  <1> QED  BY <1>1 DEF Ring, Jobs

\* The spots from an index on, round the ring.
LEMMA SpotsFrom ==
  ASSUME NEW n \in Nat \ {0}, NEW x \in 0 .. n - 1, NEW i \in 1 .. n
  PROVE  (x + i - 1) % n = IF x + i - 1 < n THEN x + i - 1 ELSE x + i - 1 - n
  <1>1. CASE x + i - 1 < n
    BY <1>1, SMT
  <1>2. CASE x + i - 1 >= n
    BY <1>2, SMT
  <1> QED  BY <1>1, <1>2

LEMMA SpotsAre ==
  ASSUME TypeOK
  PROVE  \A i \in 1 .. HISTORY_SIZE :
            Spot(i) = IF index + i - 1 < HISTORY_SIZE THEN index + i - 1
                      ELSE index + i - 1 - HISTORY_SIZE
  <1>1. HISTORY_SIZE \in Nat \ {0} /\ index \in 0 .. HISTORY_SIZE - 1
    BY SizesAssumption DEF TypeOK, Ring
  <1> QED  BY <1>1, SpotsFrom DEF Spot

-----------------------------------------------------------------------------
\* The history.

LEMMA NullAndJunk == NULL.word = "" /\ Junk.word = "?" /\ {NULL, Junk} \subseteq Commands
  BY DEF NULL, Junk, Commands

LEMMA CutIsACommand ==
  ASSUME NEW c \in Commands
  PROVE  /\ Cut(c) \in Commands
         /\ Cut(c).word = c.word
         /\ Cut(c) = NULL <=> c = NULL
  <1>1. CASE c \in [word : Words \cup {"r"}, whole : BOOLEAN]
    <2>1. c.word # ""
      BY <1>1, SizesAssumption
    <2>2. Cut(c) \in [word : Words \cup {"r"}, whole : BOOLEAN]
      BY <1>1 DEF Cut
    <2>3. Cut(c).word = c.word
      BY <1>1 DEF Cut
    <2>4. Cut(c) # NULL /\ c # NULL
      BY <2>1, <2>3, NullAndJunk
    <2> QED  BY <2>2, <2>3, <2>4 DEF Commands
  <1>2. CASE c = NULL \/ c = Junk
    <2>1. c.word \in {"", "?"}
      BY <1>2, NullAndJunk
    <2>2. Cut(c) = c
      BY <2>1 DEF Cut
    <2> QED  BY <2>2
  <1> QED  BY <1>1, <1>2 DEF Commands

\* The ring holds a list of commands, from the index on, and then nothing.
Holds(ring, list) ==
    /\ Len(list) = totalCount
    /\ \A i \in 1 .. HISTORY_SIZE :
          ring[Spot(i)] = IF i <= totalCount THEN list[i] ELSE NULL

LEMMA HoldsTheRecent ==
  ASSUME TypeOK
  PROVE  HistoryIsRecent /\ RestIsEmpty <=> Holds(commands, recent)
  <1>1. totalCount \in 0 .. HISTORY_SIZE /\ HISTORY_SIZE \in Nat
    BY SizesAssumption DEF TypeOK
  <1> QED  BY <1>1 DEF HistoryIsRecent, RestIsEmpty, Holds

\* A push onto a ring that holds a list leaves one that holds the list with the
\* command before it.
LEMMA PushKeepsTheLatest ==
  ASSUME TypeOK, NEW ring \in [Ring -> Commands], NEW list \in Seq(Commands),
         NEW c \in Commands, Holds(ring, list),
         command_buffer_push(ring, c), recent' = Latest(<<c>> \o list)
  PROVE  /\ commands' \in [Ring -> Commands] /\ index' \in Ring
         /\ totalCount' \in 0 .. HISTORY_SIZE /\ recent' \in Seq(Commands)
         /\ HistoryIsRecent' /\ RestIsEmpty'
         /\ recent'[1] = c
  <1>1. /\ HISTORY_SIZE \in Nat \ {0} /\ index \in 0 .. HISTORY_SIZE - 1
        /\ totalCount \in 0 .. HISTORY_SIZE /\ Len(list) = totalCount
    BY SizesAssumption DEF TypeOK, Ring, Holds
  <1>2. /\ index' = IF index = 0 THEN HISTORY_SIZE - 1 ELSE index - 1
        /\ index' \in Ring
    BY <1>1, StepsRound DEF command_buffer_push, Ring
  <1>3. /\ totalCount' = IF totalCount < HISTORY_SIZE THEN totalCount + 1 ELSE totalCount
        /\ totalCount' \in 1 .. HISTORY_SIZE
    BY <1>1 DEF command_buffer_push
  <1>4. commands' = [ring EXCEPT ![index'] = c]
    BY DEF command_buffer_push
  <1>5. \A i \in 1 .. HISTORY_SIZE :
           Spot(i)' = IF index' + i - 1 < HISTORY_SIZE THEN index' + i - 1
                      ELSE index' + i - 1 - HISTORY_SIZE
    BY <1>1, <1>2, SpotsFrom DEF Spot, Ring
  <1>6. /\ Spot(1)' = index'
        /\ \A i \in 2 .. HISTORY_SIZE : /\ Spot(i)' = Spot(i - 1)
                                        /\ Spot(i)' # index' /\ Spot(i)' \in Ring
    <2>1. \A i \in 2 .. HISTORY_SIZE :
             Spot(i - 1) = IF index + (i - 1) - 1 < HISTORY_SIZE
                           THEN index + (i - 1) - 1
                           ELSE index + (i - 1) - 1 - HISTORY_SIZE
      BY <1>1, SpotsAre
    <2> QED  BY <1>1, <1>2, <1>5, <2>1 DEF Ring
  <1>7. /\ recent' \in Seq(Commands) /\ Len(recent') = totalCount'
        /\ recent'[1] = c
        /\ \A i \in 2 .. totalCount' : recent'[i] = list[i - 1]
    <2>1. /\ <<c>> \o list \in Seq(Commands)
          /\ Len(<<c>> \o list) = totalCount + 1
          /\ (<<c>> \o list)[1] = c
          /\ \A i \in 2 .. totalCount + 1 : (<<c>> \o list)[i] = list[i - 1]
      BY <1>1, ConcatProperties
    <2>2. recent' = SubSeq(<<c>> \o list, 1, totalCount')
      BY <1>1, <1>3, <2>1 DEF Latest
    <2>3. \A i \in 1 .. totalCount' : (<<c>> \o list)[i] \in Commands
      BY <1>1, <1>3, <2>1
    <2>4. /\ recent' \in Seq(Commands) /\ Len(recent') = totalCount'
          /\ \A i \in 1 .. totalCount' : recent'[i] = (<<c>> \o list)[i]
      BY <1>1, <1>3, <2>2, <2>3, SubSeqProperties
    <2> QED  BY <1>1, <1>3, <2>1, <2>4
  <1>8. commands' \in [Ring -> Commands]
    BY <1>2, <1>4
  <1>9. /\ commands'[Spot(1)'] = c
        /\ \A i \in 2 .. HISTORY_SIZE :
              commands'[Spot(i)'] = IF i - 1 <= totalCount THEN list[i - 1] ELSE NULL
    <2>1. \A i \in 2 .. HISTORY_SIZE :
             ring[Spot(i - 1)] = IF i - 1 <= totalCount THEN list[i - 1] ELSE NULL
      BY <1>1 DEF Holds
    <2> QED  BY <1>2, <1>4, <1>6, <2>1
  <1>10. \A i \in 1 .. HISTORY_SIZE :
            commands'[Spot(i)'] = IF i <= totalCount' THEN recent'[i] ELSE NULL
    <2>1. \A i \in 2 .. HISTORY_SIZE : i - 1 <= totalCount <=> i <= totalCount'
      BY <1>1, <1>3
    <2> QED  BY <1>1, <1>3, <1>7, <1>9, <2>1
  <1>11. /\ \A i \in 1 .. totalCount' : commands'[Spot(i)'] = recent'[i]
         /\ \A i \in totalCount' + 1 .. HISTORY_SIZE : commands'[Spot(i)'] = NULL
    BY <1>1, <1>3, <1>10
  <1>12. HistoryIsRecent' /\ RestIsEmpty'
    BY <1>7, <1>11 DEF HistoryIsRecent, RestIsEmpty
  <1> QED  BY <1>2, <1>3, <1>7, <1>8, <1>12
-----------------------------------------------------------------------------
\* The scan.

\* A set of numbers has a least one.
LEMMA Least ==
  ASSUME NEW T, T \subseteq Nat, T # {}
  PROVE  \E x \in T : \A y \in T : x <= y
  <1> DEFINE R == {ss \in Nat \X Nat : ss[1] < ss[2]}
  <1>1. IsWellFoundedOn(R, Nat)
    BY NatLessThanWellFounded DEF OpToRel
  <1>2. PICK x \in T : \A y \in T : <<y, x>> \notin R
    <2> HIDE DEF R
    <2> QED  BY <1>1, WFMin
  <1>3. \A y \in T : ~(y < x)
    BY <1>2
  <1> QED  BY <1>3

\* Where a spot is in the ring says how old its command is.
LEMMA AgeOfASpot ==
  ASSUME NEW n \in Nat \ {0}, NEW x \in 0 .. n - 1, NEW i \in 1 .. n,
         NEW s, s = IF x + i - 1 < n THEN x + i - 1 ELSE x + i - 1 - n
  PROVE  ((s + n - x) % n) + 1 = i
  <1>1. CASE x + i - 1 < n
    <2>1. s + n - x = n + (i - 1)
      BY <1>1
    <2>2. (n + (i - 1)) % n = i - 1
      BY SMT
    <2> QED  BY <2>1, <2>2
  <1>2. CASE x + i - 1 >= n
    <2>1. s + n - x = i - 1
      BY <1>2
    <2>2. (i - 1) % n = i - 1
      BY SMT
    <2> QED  BY <2>1, <2>2
  <1> QED  BY <1>1, <1>2

\* The scan looks at every spot: at the newest command's, then at the others from
\* the oldest command's on.
LEMMA ScansEverySpot ==
  ASSUME TypeOK
  PROVE  /\ \A i \in 1 .. HISTORY_SIZE :
               Scanned[i] = IF i = 1 THEN Spot(1) ELSE Spot(HISTORY_SIZE + 2 - i)
         /\ \A k \in 1 .. HISTORY_SIZE : \E i \in 1 .. HISTORY_SIZE :
               Scanned[i] = Spot(k)
         /\ Spot(1) = index
  <1>1. HISTORY_SIZE \in Nat \ {0} /\ index \in 0 .. HISTORY_SIZE - 1
    BY SizesAssumption DEF TypeOK, Ring
  <1>2. \A i \in 1 .. HISTORY_SIZE :
           Spot(i) = IF index + i - 1 < HISTORY_SIZE THEN index + i - 1
                     ELSE index + i - 1 - HISTORY_SIZE
    BY SpotsAre
  <1>3. ASSUME NEW i \in 1 .. HISTORY_SIZE
        PROVE  Scanned[i] = IF i = 1 THEN Spot(1) ELSE Spot(HISTORY_SIZE + 2 - i)
    <2>1. Scanned[i] = (index + HISTORY_SIZE - (i - 1)) % HISTORY_SIZE
      BY DEF Scanned
    <2>2. CASE i - 1 <= index
      <3>1. (index + HISTORY_SIZE - (i - 1)) % HISTORY_SIZE = index - (i - 1)
        <4>1. index + HISTORY_SIZE - (i - 1) = HISTORY_SIZE + (index - (i - 1))
          BY <1>1
        <4>2. (HISTORY_SIZE + (index - (i - 1))) % HISTORY_SIZE = index - (i - 1)
          BY <1>1, <2>2, SMT
        <4> QED  BY <4>1, <4>2
      <3>2. CASE i = 1
        BY <1>1, <1>2, <2>1, <3>1, <3>2
      <3>3. CASE i # 1
        <4>1. HISTORY_SIZE + 2 - i \in 1 .. HISTORY_SIZE
          BY <1>1, <3>3
        <4>2. Spot(HISTORY_SIZE + 2 - i) = index - (i - 1)
          BY <1>1, <1>2, <2>2, <4>1
        <4> QED  BY <2>1, <3>1, <3>3, <4>2
      <3> QED  BY <3>2, <3>3
    <2>3. CASE i - 1 > index
      <3>1. (index + HISTORY_SIZE - (i - 1)) % HISTORY_SIZE
               = index + HISTORY_SIZE - (i - 1)
        BY <1>1, <2>3, SMT
      <3>2. HISTORY_SIZE + 2 - i \in 1 .. HISTORY_SIZE /\ i # 1
        BY <1>1, <2>3
      <3>3. Spot(HISTORY_SIZE + 2 - i) = index + HISTORY_SIZE - (i - 1)
        BY <1>1, <1>2, <2>3, <3>2
      <3> QED  BY <2>1, <3>1, <3>2, <3>3
    <2> QED  BY <1>1, <2>2, <2>3
  <1>4. ASSUME NEW k \in 1 .. HISTORY_SIZE
        PROVE  \E i \in 1 .. HISTORY_SIZE : Scanned[i] = Spot(k)
    <2>1. CASE k = 1
      <3>1. 1 \in 1 .. HISTORY_SIZE
        BY <1>1
      <3> QED  BY <1>3, <2>1, <3>1
    <2>2. CASE k # 1
      <3>1. /\ HISTORY_SIZE + 2 - k \in 1 .. HISTORY_SIZE
            /\ HISTORY_SIZE + 2 - k # 1
            /\ HISTORY_SIZE + 2 - (HISTORY_SIZE + 2 - k) = k
        BY <1>1, <2>2
      <3>2. Scanned[HISTORY_SIZE + 2 - k] = Spot(k)
        BY <1>3, <3>1
      <3> QED  BY <3>1, <3>2
    <2> QED  BY <2>1, <2>2
  <1>5. Spot(1) = index
    BY <1>1, <1>2
  <1> QED  BY <1>3, <1>4, <1>5

\* What the scan finds: a spot with a command of that letter, which is the newest of
\* the history if that has the letter, and the oldest that has it otherwise.
LEMMA ScanFinds ==
  ASSUME IndInv, NEW letter \in Words, Hits(letter) # {}
  PROVE  \E k \in 1 .. totalCount :
            /\ command_buffer_scan(letter) = Spot(k)
            /\ commands[Spot(k)] = recent[k] /\ recent[k].word = letter
            /\ NewestOrOldest(k, Matches(letter))
  <1> DEFINE h == CHOOSE i \in Hits(letter) : \A j \in Hits(letter) : i <= j
             f == command_buffer_scan(letter)
  <1>0. /\ TypeOK /\ HISTORY_SIZE \in Nat \ {0} /\ totalCount \in 0 .. HISTORY_SIZE
        /\ \A i \in 1 .. totalCount : commands[Spot(i)] = recent[i]
        /\ \A i \in totalCount + 1 .. HISTORY_SIZE : commands[Spot(i)] = NULL
    BY SizesAssumption DEF IndInv, TypeOK, HistoryIsRecent, RestIsEmpty
  <1>1. h \in Hits(letter) /\ \A j \in Hits(letter) : h <= j
    <2>1. Hits(letter) \subseteq Nat
      BY DEF Hits
    <2>2. \E i \in Hits(letter) : \A j \in Hits(letter) : i <= j
      BY <2>1, Least
    <2> QED  BY <2>2
  <1>2. h \in 1 .. HISTORY_SIZE /\ f = Scanned[h] /\ commands[f].word = letter
    <2>1. f = Scanned[h]
      BY DEF command_buffer_scan
    <2> HIDE DEF f, h
    <2> QED  BY <1>1, <2>1 DEF Hits
  <1> HIDE DEF f, h
  <1>3. PICK k \in 1 .. HISTORY_SIZE :
           f = Spot(k) /\ k = IF h = 1 THEN 1 ELSE HISTORY_SIZE + 2 - h
    <2>1. CASE h = 1
      <3>1. f = Spot(1) /\ 1 \in 1 .. HISTORY_SIZE
        BY <1>0, <1>2, <2>1, ScansEverySpot
      <3> QED  BY <2>1, <3>1
    <2>2. CASE h # 1
      <3>1. /\ HISTORY_SIZE + 2 - h \in 1 .. HISTORY_SIZE
            /\ HISTORY_SIZE + 2 - h # 1
        BY <1>0, <1>2, <2>2
      <3>2. f = Spot(HISTORY_SIZE + 2 - h)
        BY <1>0, <1>2, <2>2, ScansEverySpot
      <3> QED  BY <2>2, <3>1, <3>2
    <2> QED  BY <2>1, <2>2
  <1>4. letter # ""
    BY SizesAssumption
  <1>5. k \in 1 .. totalCount
    <2>1. CASE k \in totalCount + 1 .. HISTORY_SIZE
      BY <1>0, <1>2, <1>3, <1>4, <2>1, NullAndJunk
    <2> QED  BY <1>0, <2>1
  <1>6. DOMAIN recent = 1 .. totalCount
    BY <1>0 DEF IndInv, TypeOK, HistoryIsRecent
  <1>7. ASSUME NEW j \in Matches(letter)
        PROVE  (IF j = 1 THEN 1 ELSE HISTORY_SIZE + 2 - j) \in Hits(letter)
    <2>1. j \in 1 .. totalCount /\ j \in 1 .. HISTORY_SIZE /\ recent[j].word = letter
      BY <1>0, <1>6 DEF Matches
    <2>2. commands[Spot(j)].word = letter
      BY <1>0, <2>1
    <2>3. CASE j = 1
      <3>1. Scanned[1] = Spot(1) /\ 1 \in 1 .. HISTORY_SIZE
        BY <1>0, ScansEverySpot
      <3> QED  BY <2>2, <2>3, <3>1 DEF Hits
    <2>4. CASE j # 1
      <3>1. /\ HISTORY_SIZE + 2 - j \in 1 .. HISTORY_SIZE /\ HISTORY_SIZE + 2 - j # 1
            /\ HISTORY_SIZE + 2 - (HISTORY_SIZE + 2 - j) = j
        BY <1>0, <2>1, <2>4
      <3>2. Scanned[HISTORY_SIZE + 2 - j] = Spot(j)
        BY <1>0, <3>1, ScansEverySpot
      <3> QED  BY <2>2, <2>4, <3>1, <3>2 DEF Hits
    <2> QED  BY <2>3, <2>4
  <1>8. k \in Matches(letter)
    BY <1>0, <1>2, <1>3, <1>5, <1>6 DEF Matches
  <1>9. ASSUME 1 \in Matches(letter) PROVE k = 1
    <2>1. 1 \in Hits(letter)
      BY <1>7, <1>9
    <2> QED  BY <1>1, <1>2, <1>3, <2>1
  <1>10. ASSUME 1 \notin Matches(letter), NEW j \in Matches(letter) PROVE j <= k
    <2>1. HISTORY_SIZE + 2 - j \in Hits(letter)
      BY <1>7, <1>10
    <2>2. h <= HISTORY_SIZE + 2 - j
      BY <1>1, <2>1
    <2>3. k # 1 /\ k = HISTORY_SIZE + 2 - h
      BY <1>3, <1>8, <1>10
    <2>4. j \in 1 .. totalCount
      BY <1>6 DEF Matches
    <2> QED  BY <1>0, <1>2, <2>2, <2>3, <2>4
  <1>11. NewestOrOldest(k, Matches(letter))
    BY <1>8, <1>9, <1>10 DEF NewestOrOldest
  <1> QED  BY <1>0, <1>2, <1>3, <1>5, <1>11 DEF f

\* Where the scan finds nothing, no command of the history has the letter.
LEMMA ScanMisses ==
  ASSUME IndInv, NEW letter \in Words, Hits(letter) = {}
  PROVE  \A i \in DOMAIN recent : recent[i].word # letter
  <1>1. /\ TypeOK /\ HistoryIsRecent /\ recent \in Seq(Commands)
        /\ totalCount \in 0 .. HISTORY_SIZE /\ HISTORY_SIZE \in Nat
    BY SizesAssumption DEF IndInv, TypeOK
  <1>2. /\ DOMAIN recent = 1 .. totalCount
        /\ \A i \in 1 .. totalCount : commands[Spot(i)] = recent[i]
    BY <1>1 DEF HistoryIsRecent
  <1>3. \A i \in 1 .. HISTORY_SIZE : commands[Scanned[i]].word # letter
    BY DEF Hits
  <1> SUFFICES ASSUME NEW k \in 1 .. totalCount
               PROVE  recent[k].word # letter
    BY <1>2
  <1>4. PICK i \in 1 .. HISTORY_SIZE : Scanned[i] = Spot(k)
    BY <1>1, ScansEverySpot
  <1> QED  BY <1>2, <1>3, <1>4

-----------------------------------------------------------------------------
\* The parts of the inductive invariant, and what leaves each of them alone.

HistoryInv == /\ commands \in [Ring -> Commands] /\ index \in Ring
              /\ totalCount \in 0 .. HISTORY_SIZE /\ recent \in Seq(Commands)
              /\ HistoryIsRecent /\ RestIsEmpty
ControlTyped == /\ pc \in {"prompt", "execute", "wait", "flush", "gone"}
                /\ running \in Commands /\ bg \in BOOLEAN /\ save \in BOOLEAN
                /\ waitsFor \in Pids \cup {0, -1} /\ slot \in Jobs
                /\ due \subseteq Pids
JobsTyped == pids \in [Jobs -> Pids \cup {0, -1}] /\ jobsIndex \in Jobs
KernelTyped == /\ process \in [Pids -> States]
               /\ background \subseteq Children /\ dropped \subseteq Pids

LEMMA PartsOfIndInv ==
  IndInv <=> /\ HistoryInv /\ ControlTyped /\ JobsTyped /\ KernelTyped
             /\ JobsAreListed /\ DeadAreRemoved /\ SecondShellIsAwaited
  BY DEF IndInv, TypeOK, HistoryInv, ControlTyped, JobsTyped, KernelTyped

LEMMA PartsAfterAStep ==
  IndInv' <=> /\ HistoryInv' /\ ControlTyped' /\ JobsTyped' /\ KernelTyped'
              /\ JobsAreListed' /\ DeadAreRemoved' /\ SecondShellIsAwaited'
  BY PartsOfIndInv, PTL

LEMMA HistoryUntouched ==
  ASSUME HistoryInv, UNCHANGED history
  PROVE  HistoryInv'
  BY DEF HistoryInv, HistoryIsRecent, RestIsEmpty, Spot, history

LEMMA JobsUntouched ==
  ASSUME JobsTyped, UNCHANGED jobs
  PROVE  JobsTyped'
  BY DEF JobsTyped, jobs

LEMMA KernelUntouched ==
  ASSUME KernelTyped, UNCHANGED kernel
  PROVE  KernelTyped'
  BY DEF KernelTyped, kernel, Children

LEMMA ListingUntouched ==
  ASSUME JobsAreListed, UNCHANGED <<jobs, kernel>>
  PROVE  JobsAreListed'
  BY DEF JobsAreListed, Listed, jobs, kernel

\* A step that leaves the children alone, and does not end a wait.
LEMMA AwaitedUntouched ==
  ASSUME SecondShellIsAwaited, UNCHANGED kernel,
         pc = "wait" => pc' = "wait" /\ waitsFor' = waitsFor
  PROVE  SecondShellIsAwaited'
  BY DEF SecondShellIsAwaited, kernel

\* The end of a command keeps the history, whether it saves the command or not.
LEMMA FinishKeeps ==
  ASSUME IndInv, NEW saves \in BOOLEAN, Finish(saves)
  PROVE  /\ HistoryInv' /\ ControlTyped' /\ DeadAreRemoved' /\ pc' = "prompt"
  <1>1. TypeOK /\ HistoryInv /\ running \in Commands /\ recent \in Seq(Commands)
    BY PartsOfIndInv DEF IndInv, TypeOK
  <1>2. HistoryInv'
    <2>1. CASE saves
      <3>1. command_buffer_push(commands, running) /\ recent' = Latest(<<running>> \o recent)
        BY <2>1 DEF Finish
      <3>2. Holds(commands, recent) /\ commands \in [Ring -> Commands]
        BY <1>1, HoldsTheRecent DEF HistoryInv
      <3> QED  BY <1>1, <3>1, <3>2, PushKeepsTheLatest DEF HistoryInv
    <2>2. CASE ~saves
      BY <1>1, <2>2, HistoryUntouched DEF Finish
    <2> QED  BY <2>1, <2>2
  <1>3. ControlTyped'
    BY FirstSpots, NullAndJunk DEF Finish, ControlTyped
  <1> QED  BY <1>2, <1>3 DEF Finish, DeadAreRemoved

\* A line that was read is to be executed.
LEMMA BeginKeeps ==
  ASSUME IndInv, NEW command \in Commands, NEW ampersand \in BOOLEAN,
         NEW saves \in BOOLEAN, Begin(command, ampersand, saves), HistoryInv'
  PROVE  IndInv'
  <1>1. /\ ControlTyped /\ JobsTyped /\ KernelTyped /\ JobsAreListed
        /\ SecondShellIsAwaited
    BY PartsOfIndInv
  <1>2. /\ pc = "prompt" /\ pc' = "execute" /\ running' = command /\ save' = saves
        /\ bg' \in BOOLEAN /\ UNCHANGED <<jobs, kernel, waitsFor, slot, due>>
    BY DEF Begin
  <1>3. ControlTyped'
    BY <1>1, <1>2 DEF ControlTyped
  <1>4. JobsTyped' /\ KernelTyped' /\ JobsAreListed'
    BY <1>1, <1>2, JobsUntouched, KernelUntouched, ListingUntouched
  <1>5. SecondShellIsAwaited'
    BY <1>1, <1>2, AwaitedUntouched
  <1>6. DeadAreRemoved'
    BY <1>2 DEF DeadAreRemoved
  <1> QED  BY <1>3, <1>4, <1>5, <1>6, PartsAfterAStep

LEMMA ExitKeeps ==
  ASSUME IndInv, exit
  PROVE  IndInv'
  <1>1. ControlTyped
    BY PartsOfIndInv
  <1>2. /\ pc' = "gone" /\ commands' = [i \in Ring |-> NULL] /\ index' = 0
        /\ totalCount' = 0 /\ pids' = [i \in Jobs |-> 0] /\ jobsIndex' = 0
        /\ process' = [p \in Pids |-> "free"] /\ recent' = <<>>
        /\ background' = {} /\ dropped' = {}
        /\ UNCHANGED <<running, bg, save, waitsFor, slot, due>>
    BY DEF exit
  <1>3. HistoryInv'
    <2>1. \A i \in 1 .. HISTORY_SIZE : Spot(i)' \in Ring
      BY <1>2, FirstSpots, SpotsFrom DEF Spot, Ring
    <2>2. HistoryIsRecent' /\ RestIsEmpty'
      BY <1>2, <2>1, FirstSpots DEF HistoryIsRecent, RestIsEmpty
    <2>3. commands' \in [Ring -> Commands]
      BY <1>2, NullAndJunk
    <2>4. /\ index' \in Ring /\ totalCount' \in 0 .. HISTORY_SIZE
          /\ recent' \in Seq(Commands)
      BY <1>2, FirstSpots
    <2> QED  BY <2>2, <2>3, <2>4 DEF HistoryInv
  <1>4. ControlTyped'
    BY <1>1, <1>2 DEF ControlTyped
  <1>5. JobsTyped' /\ KernelTyped'
    BY <1>2, FirstSpots DEF JobsTyped, KernelTyped, States
  <1>6. JobsAreListed' /\ DeadAreRemoved' /\ SecondShellIsAwaited'
    BY <1>2 DEF JobsAreListed, DeadAreRemoved, SecondShellIsAwaited
  <1> QED  BY <1>3, <1>4, <1>5, <1>6, PartsAfterAStep

-----------------------------------------------------------------------------
\* The commands that read or write the history.

LEMMA GetcmdKeeps ==
  ASSUME IndInv, NEW word \in Words, NEW ampersand \in BOOLEAN,
         getcmd(word, ampersand)
  PROVE  IndInv'
  <1>1. Typed(word) \in Commands
    BY DEF Typed, Commands
  <1>2. Begin(Typed(word), ampersand, TRUE) /\ HistoryInv'
    BY PartsOfIndInv, HistoryUntouched DEF getcmd
  <1> QED  BY <1>1, <1>2, BeginKeeps

LEMMA FailedRKeeps ==
  ASSUME IndInv, NEW letter \in Words, NEW ampersand \in BOOLEAN,
         r_Fails(letter, ampersand)
  PROVE  IndInv'
  <1>1. Typed("r") \in Commands
    BY DEF Typed, Commands
  <1>2. Begin(Typed("r"), ampersand, FALSE) /\ HistoryInv'
    BY PartsOfIndInv, HistoryUntouched DEF r_Fails
  <1> QED  BY <1>1, <1>2, BeginKeeps

\* Taking the string found apart where it is changes the same command in the ring
\* and in the history.
LEMMA CutInBoth ==
  ASSUME TypeOK, HistoryIsRecent, RestIsEmpty,
         NEW k \in 1 .. totalCount, NEW c \in Commands
  PROVE  Holds([commands EXCEPT ![Spot(k)] = c], [recent EXCEPT ![k] = c])
  <1> DEFINE ring == [commands EXCEPT ![Spot(k)] = c]
             list == [recent EXCEPT ![k] = c]
  <1>1. /\ HISTORY_SIZE \in Nat \ {0} /\ index \in 0 .. HISTORY_SIZE - 1
        /\ totalCount \in 0 .. HISTORY_SIZE /\ commands \in [Ring -> Commands]
        /\ recent \in Seq(Commands) /\ Len(recent) = totalCount
    BY FirstSpots DEF TypeOK, Ring, HistoryIsRecent
  <1>2. Holds(commands, recent)
    BY HoldsTheRecent
  <1>3. /\ \A i \in 1 .. HISTORY_SIZE : Spot(i) \in Ring
        /\ \A i, j \in 1 .. HISTORY_SIZE : Spot(i) = Spot(j) => i = j
    BY <1>1, SpotsAre DEF Ring
  <1>4. /\ Len(list) = totalCount
        /\ \A i \in 1 .. totalCount : list[i] = IF i = k THEN c ELSE recent[i]
    BY <1>1, ExceptSeq
  <1>5. ASSUME NEW i \in 1 .. HISTORY_SIZE
        PROVE  ring[Spot(i)] = IF i <= totalCount THEN list[i] ELSE NULL
    <2>1. ring[Spot(i)] = IF i = k THEN c ELSE commands[Spot(i)]
      BY <1>1, <1>3
    <2>2. commands[Spot(i)] = IF i <= totalCount THEN recent[i] ELSE NULL
      BY <1>2 DEF Holds
    <2> HIDE DEF ring, list
    <2> QED  BY <1>1, <1>4, <2>1, <2>2
  <1> HIDE DEF ring, list
  <1>6. Holds(ring, list)
    BY <1>4, <1>5 DEF Holds
  <1> QED  BY <1>6 DEF ring, list

\* What r does when it finds a command that the push leaves alone: the command is
\* one of the history, and is put before the others.
LEMMA RerunPushes ==
  ASSUME IndInv, NEW letter \in Words, NEW ampersand \in BOOLEAN,
         r_Runs(letter, ampersand)
  PROVE  /\ HistoryInv'
         /\ \E k \in 1 .. totalCount :
               /\ NewestOrOldest(k, Matches(letter))
               /\ recent[k] \in Commands
               /\ Begin(recent[k], ampersand, FALSE)
               /\ recent'[1] = recent[k]
  <1> DEFINE found == command_buffer_scan(letter)
             command == commands[found]
             age == ((found + HISTORY_SIZE - index) % HISTORY_SIZE) + 1
             ring == [commands EXCEPT ![found] = Cut(command)]
             list == [recent EXCEPT ![age] = Cut(command)]
  <1>1. /\ Hits(letter) # {} /\ Begin(command, ampersand, FALSE)
        /\ command_buffer_push(ring, command)
        /\ recent' = Latest(<<command>> \o list)
    BY DEF r_Runs
  <1>2. /\ TypeOK /\ HistoryIsRecent /\ RestIsEmpty
        /\ HISTORY_SIZE \in Nat \ {0} /\ index \in 0 .. HISTORY_SIZE - 1
        /\ totalCount \in 0 .. HISTORY_SIZE /\ recent \in Seq(Commands)
        /\ Len(recent) = totalCount /\ commands \in [Ring -> Commands]
    BY FirstSpots DEF IndInv, TypeOK, Ring, HistoryIsRecent
  <1>3. PICK k \in 1 .. totalCount :
           /\ found = Spot(k) /\ commands[Spot(k)] = recent[k]
           /\ NewestOrOldest(k, Matches(letter))
    BY <1>1, ScanFinds
  <1>4. age = k
    <2>1. k \in 1 .. HISTORY_SIZE
      BY <1>2
    <2>2. found = IF index + k - 1 < HISTORY_SIZE THEN index + k - 1
                  ELSE index + k - 1 - HISTORY_SIZE
      BY <1>2, <1>3, <2>1, SpotsAre
    <2> HIDE DEF found
    <2> QED  BY <1>2, <2>1, <2>2, AgeOfASpot
  <1> HIDE DEF age
  <1>5. command = recent[k] /\ recent[k] \in Commands
    BY <1>2, <1>3
  <1>6. Cut(command) \in Commands
    BY <1>5, CutIsACommand
  <1> HIDE DEF found, command
  <1>7. Holds(ring, list)
    BY <1>2, <1>3, <1>4, <1>6, CutInBoth
  <1>8. ring \in [Ring -> Commands] /\ list \in Seq(Commands)
    BY <1>2, <1>4, <1>6, ExceptSeq
  <1> HIDE DEF ring, list
  <1>9. HistoryInv' /\ recent'[1] = command
    BY <1>1, <1>2, <1>5, <1>7, <1>8, PushKeepsTheLatest DEF HistoryInv
  <1> QED  BY <1>1, <1>3, <1>5, <1>9

\* What r does when it finds the oldest command of a full ring, short of ending the
\* shell.
LEMMA RerunOfTheFreed ==
  ASSUME IndInv, NEW letter \in Words, NEW ampersand \in BOOLEAN,
         r_RunsFreed(letter, ampersand), ~exit
  PROVE  IndInv'
  <1> DEFINE found == command_buffer_scan(letter)
  <1>1. PICK left \in {commands[found], Junk} : \E kept \in {left, Cut(left)} :
           /\ Begin(left, ampersand, FALSE)
           /\ command_buffer_push(commands, kept)
           /\ recent' = Latest(<<kept>> \o recent)
    BY DEF r_RunsFreed
  <1>2. PICK kept \in {left, Cut(left)} :
           /\ Begin(left, ampersand, FALSE)
           /\ command_buffer_push(commands, kept)
           /\ recent' = Latest(<<kept>> \o recent)
    BY <1>1
  <1>3. /\ TypeOK /\ HistoryIsRecent /\ RestIsEmpty
        /\ HISTORY_SIZE \in Nat \ {0} /\ recent \in Seq(Commands)
        /\ totalCount \in 0 .. HISTORY_SIZE
        /\ commands \in [Ring -> Commands]
    BY FirstSpots DEF IndInv, TypeOK
  <1>4. found \in Ring
    <2>1. PICK k \in 1 .. totalCount : found = Spot(k)
      <3>1. Hits(letter) # {}
        BY DEF r_RunsFreed
      <3> QED  BY <3>1, ScanFinds
    <2>2. /\ k \in 1 .. HISTORY_SIZE
          /\ Spot(k) = IF index + k - 1 < HISTORY_SIZE THEN index + k - 1
                       ELSE index + k - 1 - HISTORY_SIZE
      BY <1>3, SpotsAre
    <2>3. index \in 0 .. HISTORY_SIZE - 1
      BY <1>3 DEF TypeOK, Ring
    <2> HIDE DEF found
    <2> QED  BY <1>3, <2>1, <2>2, <2>3 DEF Ring
  <1> HIDE DEF found
  <1>5. left \in Commands /\ kept \in Commands
    <2>1. left \in Commands
      BY <1>3, <1>4, NullAndJunk
    <2> QED  BY <2>1, CutIsACommand
  <1>6. HistoryInv'
    <2>1. Holds(commands, recent)
      BY <1>3, HoldsTheRecent
    <2> QED  BY <1>2, <1>3, <1>5, <2>1, PushKeepsTheLatest DEF HistoryInv
  <1> QED  BY <1>2, <1>5, <1>6, BeginKeeps

LEMMA RKeeps ==
  ASSUME IndInv, NEW letter \in Words, NEW ampersand \in BOOLEAN,
         r(letter, ampersand)
  PROVE  IndInv'
  <1>1. CASE r_Fails(letter, ampersand)
    BY <1>1, FailedRKeeps
  <1>2. CASE r_Runs(letter, ampersand)
    <2>1. HistoryInv' /\ \E c \in Commands : Begin(c, ampersand, FALSE)
      BY <1>2, RerunPushes
    <2> QED  BY <2>1, BeginKeeps
  <1>3. CASE r_RunsFreed(letter, ampersand)
    BY <1>3, RerunOfTheFreed, ExitKeeps
  <1> QED  BY <1>1, <1>2, <1>3 DEF r

-----------------------------------------------------------------------------
\* The commands that wait for a child or look at all of them.

\* A step that ends a command outside a wait, with the children as they are.
LEMMA IdleFinishKeeps ==
  ASSUME IndInv, NEW saves \in BOOLEAN, Finish(saves), pc # "wait",
         UNCHANGED <<jobs, kernel>>
  PROVE  IndInv'
  <1>1. HistoryInv' /\ ControlTyped' /\ DeadAreRemoved'
    BY FinishKeeps
  <1>2. JobsTyped' /\ KernelTyped' /\ JobsAreListed' /\ SecondShellIsAwaited'
    BY PartsOfIndInv, JobsUntouched, KernelUntouched, ListingUntouched,
       AwaitedUntouched
  <1> QED  BY <1>1, <1>2, PartsAfterAStep

LEMMA CdKeeps ==
  ASSUME IndInv, cd
  PROVE  IndInv'
  <1>1. PICK ok \in BOOLEAN : Finish(save /\ ok)
    BY DEF cd
  <1>2. (save /\ ok) \in BOOLEAN
    OBVIOUS
  <1>3. pc # "wait" /\ UNCHANGED <<jobs, kernel>>
    BY DEF cd, Executing
  <1> QED  BY <1>1, <1>2, <1>3, IdleFinishKeeps

\* Whoever begins to wait changes nothing else.
LEMMA WaitForKeeps ==
  ASSUME IndInv, NEW pid \in Pids \cup {0, -1}, pc = "execute", WaitFor(pid)
  PROVE  HistoryInv' /\ ControlTyped' /\ DeadAreRemoved'
  <1>1. HistoryInv /\ ControlTyped
    BY PartsOfIndInv
  <1>2. HistoryInv'
    BY <1>1, HistoryUntouched DEF WaitFor
  <1> QED  BY <1>1, <1>2 DEF WaitFor, ControlTyped, DeadAreRemoved

LEMMA FgKeeps ==
  ASSUME IndInv, fg
  PROVE  IndInv'
  <1>1. pc = "execute" /\ UNCHANGED <<jobs, kernel>> /\ save \in BOOLEAN
    BY PartsOfIndInv DEF fg, Executing, ControlTyped
  <1>2. CASE \E pid \in Pids \cup {0} : WaitFor(pid)
    <2>1. PICK pid \in Pids \cup {0} : WaitFor(pid)
      BY <1>2
    <2>2. HistoryInv' /\ ControlTyped' /\ DeadAreRemoved'
      BY <1>1, <2>1, WaitForKeeps
    <2>3. JobsTyped' /\ KernelTyped' /\ JobsAreListed' /\ SecondShellIsAwaited'
      BY <1>1, PartsOfIndInv, JobsUntouched, KernelUntouched, ListingUntouched,
         AwaitedUntouched
    <2> QED  BY <2>2, <2>3, PartsAfterAStep
  <1>3. CASE Finish(save)
    BY <1>1, <1>3, IdleFinishKeeps
  <1> QED  BY <1>2, <1>3 DEF fg

LEMMA JobsCommandKeeps ==
  ASSUME IndInv, jobs_Command
  PROVE  IndInv'
  <1>1. /\ pc = "execute" /\ pc' = "flush" /\ slot' = 0
        /\ due' = {p \in Pids : /\ \E i \in Jobs : pids[i] = p
                                /\ process[p] \in {"ended", "free"}}
        /\ UNCHANGED <<history, jobs, kernel, running, bg, save, waitsFor>>
    BY DEF jobs_Command, Executing
  <1>2. HistoryInv'
    BY <1>1, PartsOfIndInv, HistoryUntouched
  <1>3. ControlTyped'
    BY <1>1, PartsOfIndInv, FirstSpots DEF ControlTyped
  <1>4. JobsTyped' /\ KernelTyped' /\ JobsAreListed' /\ SecondShellIsAwaited'
    BY <1>1, PartsOfIndInv, JobsUntouched, KernelUntouched, ListingUntouched,
       AwaitedUntouched
  <1>5. DeadAreRemoved'
    <2>1. pids' = pids /\ process' = process
      BY <1>1 DEF jobs, kernel
    <2>2. \A i \in Jobs : 0 <= i
      BY DEF Jobs
    <2> QED  BY <1>1, <2>1, <2>2 DEF DeadAreRemoved, Listed
  <1> QED  BY <1>2, <1>3, <1>4, <1>5, PartsAfterAStep

-----------------------------------------------------------------------------
\* The children that the shell makes.

\* A push puts the pid in one spot, over an entry that is no process or is the one
\* to be overwritten.
LEMMA PushLists ==
  ASSUME JobsTyped, NEW pid \in Pids \cup {0, -1}, process_list_push(pid)
  PROVE  /\ JobsTyped'
         /\ \E j \in Jobs : /\ pids' = [pids EXCEPT ![j] = pid]
                            /\ pids[j] \in Pids => pids[j] \in Overwritten
  <1> DEFINE at(i) == (jobsIndex + i) % PROCESS_LIST_SIZE
             empty == {i \in Jobs : pids[at(i)] = 0}
             first == CHOOSE i \in empty : \A j \in empty : i <= j
  <1>1. PROCESS_LIST_SIZE \in Nat \ {0} /\ jobsIndex \in 0 .. PROCESS_LIST_SIZE - 1
    BY FirstSpots DEF JobsTyped, Jobs
  <1>2. \A i \in Jobs : at(i) = IF jobsIndex + i < PROCESS_LIST_SIZE
                                THEN jobsIndex + i
                                ELSE jobsIndex + i - PROCESS_LIST_SIZE
    <2> SUFFICES ASSUME NEW i \in 0 .. PROCESS_LIST_SIZE - 1
                 PROVE  at(i) = IF jobsIndex + i < PROCESS_LIST_SIZE
                                THEN jobsIndex + i
                                ELSE jobsIndex + i - PROCESS_LIST_SIZE
      BY DEF Jobs
    <2>1. CASE jobsIndex + i < PROCESS_LIST_SIZE
      BY <1>1, <2>1, SMT
    <2>2. CASE jobsIndex + i >= PROCESS_LIST_SIZE
      BY <1>1, <2>2, SMT
    <2> QED  BY <1>1, <2>1, <2>2
  <1> HIDE DEF at
  <1>3. CASE empty # {}
    <2>1. first \in Jobs /\ pids[at(first)] = 0
      <3>1. \E i \in empty : \A j \in empty : i <= j
        <4>1. empty \subseteq Nat
          BY DEF Jobs
        <4> HIDE DEF empty
        <4> QED  BY <1>3, <4>1, Least
      <3> QED  BY <3>1
    <2>2. pids' = [pids EXCEPT ![at(first)] = pid] /\ UNCHANGED jobsIndex
      BY <1>3 DEF process_list_push, at
    <2> HIDE DEF first
    <2>3. at(first) \in Jobs
      BY <1>1, <1>2, <2>1 DEF Jobs
    <2>4. 0 \notin Pids
      BY SizesAssumption
    <2>5. JobsTyped'
      BY <2>2, <2>3 DEF JobsTyped
    <2> QED  BY <2>1, <2>2, <2>3, <2>4, <2>5
  <1>4. CASE empty = {}
    <2> DEFINE next == modular_increment(jobsIndex, PROCESS_LIST_SIZE)
    <2>1. pids' = [pids EXCEPT ![next] = pid] /\ jobsIndex' = next
      BY <1>4 DEF process_list_push, at
    <2>2. next \in Jobs
      BY <1>1, StepsRound DEF Jobs
    <2> HIDE DEF next
    <2>3. \A j \in Jobs : pids[j] # 0
      <3> SUFFICES ASSUME NEW j \in Jobs
                   PROVE  pids[j] # 0
        OBVIOUS
      <3>1. PICK i \in Jobs : at(i) = j
        <4>1. CASE j >= jobsIndex
          <5>1. j - jobsIndex \in Jobs /\ at(j - jobsIndex) = j
            BY <1>1, <1>2, <4>1 DEF Jobs
          <5> QED  BY <5>1
        <4>2. CASE j < jobsIndex
          <5>1. /\ j - jobsIndex + PROCESS_LIST_SIZE \in Jobs
                /\ at(j - jobsIndex + PROCESS_LIST_SIZE) = j
            BY <1>1, <1>2, <4>2 DEF Jobs
          <5> QED  BY <5>1
        <4> QED  BY <1>1, <4>1, <4>2 DEF Jobs
      <3> QED  BY <1>4, <3>1
    <2>4. Overwritten = {pids[next]} \cap Pids
      BY <2>3 DEF Overwritten, next
    <2>5. JobsTyped'
      BY <2>1, <2>2 DEF JobsTyped
    <2> QED  BY <2>1, <2>2, <2>4, <2>5
  <1> QED  BY <1>3, <1>4

\* A background command that has its process keeps the others listed.
LEMMA ForkInBackgroundKeeps ==
  ASSUME IndInv, NEW p \in Pids \ Children, NEW execvp \in {"runs", "shell"},
         pc = "execute", process' = [process EXCEPT ![p] = execvp],
         background' = background \cup {p},
         dropped' = (dropped \cup Overwritten) \ {p},
         process_list_push(p), Finish(save)
  PROVE  IndInv'
  <1>1. /\ KernelTyped /\ JobsTyped /\ JobsAreListed /\ SecondShellIsAwaited
        /\ save \in BOOLEAN
    BY PartsOfIndInv DEF ControlTyped
  <1>2. HistoryInv' /\ ControlTyped' /\ DeadAreRemoved'
    BY <1>1, FinishKeeps
  <1>3. JobsTyped'
    BY <1>1, PushLists
  <1>4. PICK j \in Jobs : /\ pids' = [pids EXCEPT ![j] = p]
                          /\ pids[j] \in Pids => pids[j] \in Overwritten
    BY <1>1, PushLists
  <1>5. \A q \in Pids : process'[q] = IF q = p THEN execvp ELSE process[q]
    BY <1>1 DEF KernelTyped
  <1>6. KernelTyped'
    <2>1. process' \in [Pids -> States]
      BY <1>1 DEF KernelTyped, States
    <2>2. background' \subseteq Children'
      BY <1>1, <1>5 DEF KernelTyped, Children
    <2>3. dropped' \subseteq Pids
      BY <1>1 DEF KernelTyped, Overwritten
    <2> QED  BY <2>1, <2>2, <2>3 DEF KernelTyped
  <1>7. JobsAreListed'
    <2> SUFFICES ASSUME NEW q \in background', q \notin dropped',
                        process'[q] \in {"runs", "shell", "stopped", "told"}
                 PROVE  q \in Listed'
      BY DEF JobsAreListed
    <2>1. pids \in [Jobs -> Pids \cup {0, -1}] /\ q \in Pids
      BY <1>1 DEF JobsTyped, KernelTyped, Children
    <2>2. CASE q = p
      BY <1>4, <2>1, <2>2 DEF Listed
    <2>3. CASE q # p
      <3>1. /\ q \in background /\ q \notin dropped /\ q \notin Overwritten
            /\ process[q] \in {"runs", "shell", "stopped", "told"}
        BY <1>5, <2>1, <2>3
      <3>2. PICK i \in Jobs : pids[i] = q
        BY <1>1, <3>1 DEF JobsAreListed, Listed
      <3>3. i # j
        BY <1>4, <2>1, <3>1, <3>2
      <3>4. pids'[i] = q
        BY <1>4, <2>1, <3>2, <3>3
      <3> QED  BY <2>1, <3>4 DEF Listed
    <2> QED  BY <2>2, <2>3
  <1>8. SecondShellIsAwaited'
    BY <1>1, <1>5 DEF SecondShellIsAwaited
  <1> QED  BY <1>2, <1>3, <1>6, <1>7, <1>8, PartsAfterAStep

\* A foreground command that has its process is waited for.
LEMMA ForkInForegroundKeeps ==
  ASSUME IndInv, NEW p \in Pids \ Children, NEW execvp \in {"runs", "shell"},
         pc = "execute", process' = [process EXCEPT ![p] = execvp],
         UNCHANGED <<background, dropped, jobs>>, WaitFor(p)
  PROVE  IndInv'
  <1>1. KernelTyped /\ JobsTyped /\ JobsAreListed /\ SecondShellIsAwaited
    BY PartsOfIndInv
  <1>2. HistoryInv' /\ ControlTyped' /\ DeadAreRemoved' /\ JobsTyped'
    BY <1>1, WaitForKeeps, JobsUntouched
  <1>3. \A q \in Pids : process'[q] = IF q = p THEN execvp ELSE process[q]
    BY <1>1 DEF KernelTyped
  <1>4. KernelTyped'
    <2>1. process' \in [Pids -> States]
      BY <1>1 DEF KernelTyped, States
    <2>2. background' \subseteq Children'
      BY <1>1, <1>3 DEF KernelTyped, Children
    <2> QED  BY <1>1, <2>1, <2>2 DEF KernelTyped
  <1>5. JobsAreListed'
    <2>1. \A q \in background : q \in Pids /\ q # p
      BY <1>1 DEF KernelTyped, Children
    <2> QED  BY <1>1, <1>3, <2>1 DEF JobsAreListed, Listed, jobs
  <1>6. SecondShellIsAwaited'
    BY <1>1, <1>3 DEF SecondShellIsAwaited, WaitFor
  <1> QED  BY <1>2, <1>4, <1>5, <1>6, PartsAfterAStep

LEMMA ForkKeeps ==
  ASSUME IndInv, fork
  PROVE  IndInv'
  <1>1. pc = "execute" /\ bg \in BOOLEAN
    BY PartsOfIndInv DEF fork, Executing, ControlTyped
  <1>2. PICK p \in Pids \ Children, execvp \in {"runs", "shell"} :
           /\ process' = [process EXCEPT ![p] = execvp]
           /\ background' = IF bg THEN background \cup {p} ELSE background
           /\ dropped' = IF bg THEN (dropped \cup Overwritten) \ {p} ELSE dropped
           /\ Program(p)
    BY DEF fork
  <1>3. CASE bg
    BY <1>1, <1>2, <1>3, ForkInBackgroundKeeps DEF Program
  <1>4. CASE ~bg
    BY <1>1, <1>2, <1>4, ForkInForegroundKeeps DEF Program, Foreground
  <1> QED  BY <1>1, <1>3, <1>4

LEMMA FailedForkKeeps ==
  ASSUME IndInv, fork_Fails
  PROVE  IndInv'
  <1>1. /\ pc = "execute" /\ bg \in BOOLEAN /\ save \in BOOLEAN
        /\ KernelTyped /\ JobsTyped /\ JobsAreListed /\ SecondShellIsAwaited
    BY PartsOfIndInv DEF fork_Fails, Executing, ControlTyped
  <1>2. /\ dropped' = IF bg THEN dropped \cup Overwritten ELSE dropped
        /\ UNCHANGED <<process, background>> /\ Program(-1)
    BY DEF fork_Fails
  <1>3. KernelTyped'
    BY <1>1, <1>2 DEF KernelTyped, Children, Overwritten
  <1>4. SecondShellIsAwaited'
    BY <1>1, <1>2 DEF SecondShellIsAwaited
  <1>5. CASE bg
    <2>1. process_list_push(-1) /\ Finish(save)
      BY <1>2, <1>5 DEF Program
    <2>2. HistoryInv' /\ ControlTyped' /\ DeadAreRemoved'
      BY <1>1, <2>1, FinishKeeps
    <2>3. JobsTyped'
      BY <1>1, <2>1, PushLists
    <2>4. PICK j \in Jobs : /\ pids' = [pids EXCEPT ![j] = -1]
                            /\ pids[j] \in Pids => pids[j] \in Overwritten
      BY <1>1, <2>1, PushLists
    <2>5. JobsAreListed'
      <3> SUFFICES ASSUME NEW q \in background, q \notin dropped, q \notin Overwritten,
                          process[q] \in {"runs", "shell", "stopped", "told"}
                   PROVE  q \in Listed'
        BY <1>2, <1>5 DEF JobsAreListed
      <3>1. pids \in [Jobs -> Pids \cup {0, -1}] /\ q \in Pids
        BY <1>1 DEF JobsTyped, KernelTyped, Children
      <3>2. PICK i \in Jobs : pids[i] = q
        BY <1>1 DEF JobsAreListed, Listed
      <3>3. i # j
        BY <2>4, <3>1, <3>2
      <3>4. pids'[i] = q
        BY <2>4, <3>1, <3>2, <3>3
      <3> QED  BY <3>1, <3>4 DEF Listed
    <2> QED  BY <1>3, <1>4, <2>2, <2>3, <2>5, PartsAfterAStep
  <1>6. CASE ~bg
    <2>1. WaitFor(-1) /\ UNCHANGED <<jobs, dropped>>
      BY <1>2, <1>6 DEF Program, Foreground
    <2>2. HistoryInv' /\ ControlTyped' /\ DeadAreRemoved' /\ JobsTyped'
      BY <1>1, <2>1, WaitForKeeps, JobsUntouched
    <2>3. JobsAreListed'
      BY <1>1, <1>2, <2>1 DEF JobsAreListed, Listed, jobs
    <2> QED  BY <1>3, <1>4, <2>2, <2>3, PartsAfterAStep
  <1> QED  BY <1>1, <1>5, <1>6

-----------------------------------------------------------------------------
\* The children that the kernel reports.

\* The end of a wait: a second shell that was waited for has ended.
LEMMA WaitKeeps ==
  ASSUME IndInv, wait
  PROVE  IndInv'
  <1>1. /\ KernelTyped /\ JobsTyped /\ JobsAreListed /\ SecondShellIsAwaited
        /\ save \in BOOLEAN
    BY PartsOfIndInv DEF ControlTyped
  <1>2. pc = "wait" /\ Finish(save) /\ UNCHANGED jobs
    BY DEF wait
  <1>3. HistoryInv' /\ ControlTyped' /\ DeadAreRemoved' /\ JobsTyped'
    BY <1>1, <1>2, FinishKeeps, JobsUntouched
  <1>4. CASE Selected(waitsFor) = {} /\ UNCHANGED kernel
    <2>1. KernelTyped' /\ JobsAreListed'
      BY <1>1, <1>2, <1>4, KernelUntouched, ListingUntouched
    <2>2. \A q \in Pids \ background : process[q] # "shell"
      BY <1>1, <1>4 DEF SecondShellIsAwaited, Selected, Children
    <2>3. SecondShellIsAwaited'
      BY <1>4, <2>2 DEF SecondShellIsAwaited, kernel
    <2> QED  BY <1>3, <2>1, <2>3, PartsAfterAStep
  <1>5. ASSUME NEW p \in Selected(waitsFor), process[p] = "ended", Reap(p)
        PROVE  IndInv'
    <2>1. /\ process' = [process EXCEPT ![p] = "free"]
          /\ background' = background \ {p} /\ dropped' = dropped \ {p}
      BY <1>5 DEF Reap
    <2>2. p \in Pids /\ (waitsFor \in Pids => p = waitsFor)
      BY DEF Selected, Children
    <2>3. \A q \in Pids : process'[q] = IF q = p THEN "free" ELSE process[q]
      BY <1>1, <2>1 DEF KernelTyped
    <2>4. KernelTyped'
      <3>1. process' \in [Pids -> States]
        BY <1>1, <2>1 DEF KernelTyped, States
      <3>2. background' \subseteq Children' /\ dropped' \subseteq Pids
        BY <1>1, <2>1, <2>3 DEF KernelTyped, Children
      <3> QED  BY <3>1, <3>2 DEF KernelTyped
    <2>5. JobsAreListed'
      <3>1. background \subseteq Pids
        BY <1>1 DEF KernelTyped, Children
      <3> QED  BY <1>1, <1>2, <2>1, <2>3, <3>1 DEF JobsAreListed, Listed, jobs
    <2>6. SecondShellIsAwaited'
      BY <1>1, <1>5, <2>1, <2>2, <2>3 DEF SecondShellIsAwaited
    <2> QED  BY <1>3, <2>4, <2>5, <2>6, PartsAfterAStep
  <1> QED  BY <1>4, <1>5 DEF wait

\* What one look of flush_completed_processes does: to the child it is told of, and
\* to the spot it looks at.
LEMMA LookTells ==
  ASSUME KernelTyped, JobsTyped, slot \in Jobs, flush_Look
  PROVE  /\ process' \in [Pids -> States]
         /\ \A q \in Pids :
               \/ process'[q] = process[q]
               \/ process[q] = "ended" /\ process'[q] = "free" /\ q \notin background'
               \/ process[q] = "stopped" /\ process'[q] = "told"
         /\ background' \subseteq background
         /\ \A q \in background : q \in background' \/ process'[q] = "free"
         /\ dropped' \subseteq Pids
         /\ \A q \in background' : q \in dropped => q \in dropped'
         /\ pids' = pids \/ pids' = [pids EXCEPT ![slot] = 0]
         /\ pids[slot] \in Pids =>
               CASE process[pids[slot]] = "free" -> pids'[slot] = 0
                 [] process[pids[slot]] = "ended" ->
                       pids'[slot] = 0 /\ process'[pids[slot]] = "free"
                 [] process[pids[slot]] = "stopped" ->
                       pids[slot] \in dropped'
                 [] OTHER -> pids' = pids
  <1> DEFINE pid == pids[slot]
             news == {p \in Selected(pid) : process[p] \in {"ended", "stopped"}}
             status == IF Selected(pid) = {} THEN -1 ELSE IF news = {} THEN 0 ELSE 1
  <1>1. /\ process \in [Pids -> States] /\ background \subseteq Children
        /\ dropped \subseteq Pids /\ pids \in [Jobs -> Pids \cup {0, -1}]
    BY DEF KernelTyped, JobsTyped
  <1>2. /\ \/ news = {} /\ UNCHANGED kernel
           \/ \E p \in news :
                 IF process[p] = "ended" THEN Reap(p)
                 ELSE /\ process' = [process EXCEPT ![p] = "told"]
                      /\ dropped' = dropped \cup ({p} \cap {pid})
                      /\ UNCHANGED background
        /\ pids' = IF StatusOf(status) THEN [pids EXCEPT ![slot] = 0] ELSE pids
    BY DEF flush_Look
  <1>3. \A p \in news : p \in Pids /\ process[p] \in {"ended", "stopped"}
    BY DEF Selected, Children
  <1>4. pid \in Pids => /\ process[pid] = "free" => Selected(pid) = {}
                        /\ process[pid] # "free" => Selected(pid) = {pid}
    BY DEF Selected, Children
  <1>5. /\ Selected(pid) = {} => pids' = [pids EXCEPT ![slot] = 0]
        /\ news # {} => pids' = [pids EXCEPT ![slot] = 0]
        /\ Selected(pid) # {} /\ news = {} => pids' = pids
        /\ pids' = pids \/ pids' = [pids EXCEPT ![slot] = 0]
    BY <1>2 DEF StatusOf
  <1> DEFINE Told(q) ==
               \/ process'[q] = process[q]
               \/ process[q] = "ended" /\ process'[q] = "free" /\ q \notin background'
               \/ process[q] = "stopped" /\ process'[q] = "told"
  <1>6. CASE news = {} /\ UNCHANGED kernel
    <2>1. process' = process /\ background' = background /\ dropped' = dropped
      BY <1>6 DEF kernel
    <2>2. pid \in Pids => CASE process[pid] = "free" -> pids'[slot] = 0
                            [] process[pid] = "ended" -> FALSE
                            [] process[pid] = "stopped" -> FALSE
                            [] OTHER -> pids' = pids
      <3> HIDE DEF status
      <3>1. pid \in Pids /\ process[pid] # "free" =>
               process[pid] \notin {"ended", "stopped"} /\ pids' = pids
        BY <1>4, <1>5, <1>6
      <3>2. pid \in Pids /\ process[pid] = "free" => pids'[slot] = 0
        BY <1>1, <1>4, <1>5
      <3> QED  BY <3>1, <3>2
    <2> QED  BY <1>1, <1>5, <2>1, <2>2
  <1>7. ASSUME NEW p \in news, process[p] = "ended", Reap(p)
        PROVE  /\ process' \in [Pids -> States]
               /\ \A q \in Pids : Told(q)
               /\ background' \subseteq background /\ dropped' \subseteq Pids
               /\ \A q \in background : q \in background' \/ process'[q] = "free"
               /\ \A q \in background' : q \in dropped => q \in dropped'
               /\ pid \in Pids => p = pid /\ process'[pid] = "free"
    <2>1. /\ process' = [process EXCEPT ![p] = "free"]
          /\ background' = background \ {p} /\ dropped' = dropped \ {p}
      BY <1>7 DEF Reap
    <2>2. p \in Pids /\ (pid \in Pids => p = pid)
      BY <1>3, <1>4, <1>7
    <2> HIDE DEF news, pid
    <2> QED  BY <1>1, <1>7, <2>1, <2>2 DEF States
  <1>8. ASSUME NEW p \in news, process[p] # "ended",
               process' = [process EXCEPT ![p] = "told"],
               dropped' = dropped \cup ({p} \cap {pid}), UNCHANGED background
        PROVE  /\ process' \in [Pids -> States]
               /\ \A q \in Pids : Told(q)
               /\ background' \subseteq background /\ dropped' \subseteq Pids
               /\ \A q \in background : q \in background' \/ process'[q] = "free"
               /\ \A q \in background' : q \in dropped => q \in dropped'
               /\ pid \in Pids => p = pid /\ process[pid] = "stopped" /\ pid \in dropped'
    <2>1. p \in Pids /\ (pid \in Pids => p = pid) /\ process[p] = "stopped"
      BY <1>3, <1>4, <1>8
    <2> HIDE DEF news, pid
    <2> QED  BY <1>1, <1>8, <2>1 DEF States
  <1>9. news # {} => pids'[slot] = 0
    BY <1>1, <1>5
  <1> HIDE DEF news, status
  <1> QED  BY <1>1, <1>2, <1>5, <1>6, <1>7, <1>8, <1>9

\* A look keeps the living listed and the dead on their way off the list: behind
\* the spot looked at there are none.
LEMMA LookKeeps ==
  ASSUME IndInv, pc = "flush", flush_Look
  PROVE  /\ KernelTyped' /\ JobsTyped' /\ JobsAreListed'
         /\ \A q \in Pids \ background' : process'[q] # "shell"
         /\ \A q \in due : /\ process'[q] \in {"ended", "free"}
                           /\ \A i \in Jobs : pids'[i] = q => slot < i
                           /\ q \notin Listed' => process'[q] = "free"
  <1>1. /\ KernelTyped /\ JobsTyped /\ JobsAreListed /\ DeadAreRemoved
        /\ SecondShellIsAwaited /\ slot \in Jobs /\ due \subseteq Pids
    BY PartsOfIndInv DEF ControlTyped
  <1>2. /\ process' \in [Pids -> States]
        /\ \A q \in Pids :
              \/ process'[q] = process[q]
              \/ process[q] = "ended" /\ process'[q] = "free" /\ q \notin background'
              \/ process[q] = "stopped" /\ process'[q] = "told"
        /\ background' \subseteq background /\ dropped' \subseteq Pids
        /\ \A q \in background : q \in background' \/ process'[q] = "free"
        /\ \A q \in background' : q \in dropped => q \in dropped'
        /\ pids' = pids \/ pids' = [pids EXCEPT ![slot] = 0]
    BY <1>1, LookTells
  <1>3. pids[slot] \in Pids =>
           CASE process[pids[slot]] = "free" -> pids'[slot] = 0
             [] process[pids[slot]] = "ended" ->
                   pids'[slot] = 0 /\ process'[pids[slot]] = "free"
             [] process[pids[slot]] = "stopped" -> pids[slot] \in dropped'
             [] OTHER -> pids' = pids
    BY <1>1, LookTells
  <1>4. /\ pids \in [Jobs -> Pids \cup {0, -1}] /\ background \subseteq Children
        /\ 0 \notin Pids /\ slot \in Nat /\ \A i \in Jobs : i \in Nat
    <2>1. 0 \notin Pids
      BY SizesAssumption
    <2> QED  BY <1>1, <2>1 DEF JobsTyped, KernelTyped, Jobs
  <1>5. UNCHANGED jobsIndex /\ jobsIndex \in Jobs
    BY <1>1 DEF flush_Look, JobsTyped
  <1>6. KernelTyped'
    BY <1>2, <1>4 DEF KernelTyped, Children
  <1>7. JobsTyped'
    BY <1>1, <1>2, <1>4, <1>5 DEF JobsTyped
  <1>8. JobsAreListed'
    <2> SUFFICES ASSUME NEW q \in background', q \notin dropped',
                        process'[q] \in {"runs", "shell", "stopped", "told"}
                 PROVE  q \in Listed'
      BY DEF JobsAreListed
    <2>1. /\ q \in background /\ q \notin dropped /\ q \in Pids
          /\ process[q] \in {"runs", "shell", "stopped", "told"}
      BY <1>2, <1>4 DEF Children
    <2>2. PICK i \in Jobs : pids[i] = q
      BY <1>1, <2>1 DEF JobsAreListed, Listed
    <2>3. pids'[i] = q
      <3>1. CASE i = slot
        BY <1>3, <2>1, <2>2, <3>1
      <3>2. CASE i # slot
        BY <1>2, <1>4, <2>2, <3>2
      <3> QED  BY <3>1, <3>2
    <2> QED  BY <2>1, <2>3 DEF Listed
  <1>9. \A q \in Pids \ background' : process'[q] # "shell"
    <2>1. \A q \in Pids \ background : process[q] # "shell"
      BY <1>1 DEF SecondShellIsAwaited
    <2> QED  BY <1>2, <2>1
  <1>10. ASSUME NEW q \in due
         PROVE  /\ process'[q] \in {"ended", "free"}
                /\ \A i \in Jobs : pids'[i] = q => slot < i
                /\ q \notin Listed' => process'[q] = "free"
    <2>1. /\ q \in Pids /\ process[q] \in {"ended", "free"}
          /\ \A i \in Jobs : pids[i] = q => slot <= i
          /\ q \notin Listed => process[q] = "free"
      BY <1>1 DEF DeadAreRemoved
    <2>2. /\ process'[q] \in {"ended", "free"}
          /\ process[q] = "free" => process'[q] = "free"
      BY <1>2, <2>1
    <2>3. pids[slot] = q => pids'[slot] = 0 /\ process'[q] = "free"
      BY <1>3, <2>1, <2>2
    <2>4. \A i \in Jobs : i # slot => pids'[i] = pids[i]
      BY <1>2, <1>4
    <2>5. pids'[slot] # q
      BY <1>2, <1>4, <2>1, <2>3
    <2>6. \A i \in Jobs : pids'[i] = q => slot < i
      BY <1>4, <2>1, <2>4, <2>5
    <2>7. ASSUME q \notin Listed'
          PROVE  process'[q] = "free"
      <3>1. CASE q \in Listed
        <4>1. PICK i \in Jobs : pids[i] = q
          BY <3>1 DEF Listed
        <4>2. i = slot
          BY <2>1, <2>4, <2>7, <4>1 DEF Listed
        <4> QED  BY <2>3, <4>1, <4>2
      <3>2. CASE q \notin Listed
        BY <2>1, <2>2, <3>2
      <3> QED  BY <3>1, <3>2
    <2> QED  BY <2>2, <2>6, <2>7
  <1> QED  BY <1>6, <1>7, <1>8, <1>9, <1>10

LEMMA FlushKeeps ==
  ASSUME IndInv, flush_completed_processes
  PROVE  IndInv'
  <1>1. /\ HistoryInv /\ ControlTyped /\ slot \in Jobs /\ save \in BOOLEAN
        /\ pc = "flush" /\ flush_Look
    BY PartsOfIndInv DEF flush_completed_processes, ControlTyped
  <1>2. /\ KernelTyped' /\ JobsTyped' /\ JobsAreListed'
        /\ \A q \in Pids \ background' : process'[q] # "shell"
        /\ \A q \in due : /\ process'[q] \in {"ended", "free"}
                          /\ \A i \in Jobs : pids'[i] = q => slot < i
                          /\ q \notin Listed' => process'[q] = "free"
    BY <1>1, LookKeeps
  <1>3. SecondShellIsAwaited'
    BY <1>2 DEF SecondShellIsAwaited
  <1>4. CASE slot + 1 \in Jobs
    <2>1. /\ slot' = slot + 1
          /\ UNCHANGED <<history, pc, running, bg, save, waitsFor, due>>
      BY <1>4 DEF flush_completed_processes
    <2>2. HistoryInv' /\ ControlTyped'
      BY <1>1, <1>4, <2>1, HistoryUntouched DEF ControlTyped
    <2>3. \A i \in Jobs : slot < i => slot + 1 <= i
      BY <1>1 DEF Jobs
    <2>4. DeadAreRemoved'
      BY <1>2, <2>1, <2>3 DEF DeadAreRemoved
    <2> QED  BY <1>2, <1>3, <2>2, <2>4, PartsAfterAStep
  <1>5. CASE slot + 1 \notin Jobs
    <2>1. Finish(save)
      BY <1>5 DEF flush_completed_processes
    <2>2. HistoryInv' /\ ControlTyped' /\ DeadAreRemoved'
      BY <1>1, <2>1, FinishKeeps
    <2> QED  BY <1>2, <1>3, <2>2, PartsAfterAStep
  <1> QED  BY <1>4, <1>5

\* A child stops, goes on or ends.
LEMMA ChildKeeps ==
  ASSUME IndInv, NEW p \in Pids, Child(p)
  PROVE  IndInv'
  <1>1. /\ KernelTyped /\ JobsTyped /\ JobsAreListed /\ DeadAreRemoved
        /\ SecondShellIsAwaited /\ HistoryInv /\ ControlTyped
    BY PartsOfIndInv
  <1>2. UNCHANGED <<history, jobs, control, background, dropped>>
    BY DEF Child, Becomes
  <1>3. /\ process' \in [Pids -> States]
        /\ \A q \in Pids :
              \/ process'[q] = process[q]
              \/ /\ process[q] \in {"runs", "shell", "stopped", "told"}
                 /\ process'[q] \in {"ended", "stopped", "runs"}
    BY <1>1 DEF Child, Becomes, KernelTyped, States
  <1>4. HistoryInv' /\ JobsTyped' /\ ControlTyped'
    BY <1>1, <1>2, HistoryUntouched, JobsUntouched DEF ControlTyped, control
  <1>5. background \subseteq Pids /\ due \subseteq Pids
    BY <1>1 DEF KernelTyped, Children, ControlTyped
  <1>6. KernelTyped'
    BY <1>1, <1>2, <1>3 DEF KernelTyped, Children
  <1>7. JobsAreListed'
    BY <1>1, <1>2, <1>3, <1>5 DEF JobsAreListed, Listed, jobs
  <1>8. DeadAreRemoved'
    BY <1>1, <1>2, <1>3, <1>5 DEF DeadAreRemoved, Listed, jobs, control
  <1>9. SecondShellIsAwaited'
    BY <1>1, <1>2, <1>3 DEF SecondShellIsAwaited, control
  <1> QED  BY <1>4, <1>6, <1>7, <1>8, <1>9, PartsAfterAStep

-----------------------------------------------------------------------------
\* The theorems.

LEMMA InitHolds == Init => IndInv
  <1> SUFFICES ASSUME Init
               PROVE  IndInv
    OBVIOUS
  <1>1. HistoryInv
    <2>1. \A i \in 1 .. HISTORY_SIZE : Spot(i) \in Ring
      BY FirstSpots, SpotsFrom DEF Init, Spot, Ring
    <2>2. HistoryIsRecent /\ RestIsEmpty
      BY <2>1, FirstSpots DEF Init, HistoryIsRecent, RestIsEmpty
    <2>3. commands \in [Ring -> Commands]
      BY NullAndJunk DEF Init
    <2>4. index \in Ring /\ totalCount \in 0 .. HISTORY_SIZE /\ recent \in Seq(Commands)
      BY FirstSpots DEF Init
    <2> QED  BY <2>2, <2>3, <2>4 DEF HistoryInv
  <1>2. ControlTyped
    BY FirstSpots, NullAndJunk DEF Init, ControlTyped
  <1>3. JobsTyped /\ KernelTyped
    BY FirstSpots DEF Init, JobsTyped, KernelTyped, States
  <1>4. JobsAreListed /\ DeadAreRemoved /\ SecondShellIsAwaited
    BY DEF Init, JobsAreListed, DeadAreRemoved, SecondShellIsAwaited
  <1> QED  BY <1>1, <1>2, <1>3, <1>4, PartsOfIndInv

LEMMA NextKeeps == IndInv /\ [Next]_vars => IndInv'
  <1> SUFFICES ASSUME IndInv, [Next]_vars
               PROVE  IndInv'
    OBVIOUS
  <1>1. ASSUME NEW word \in Words, NEW ampersand \in BOOLEAN, getcmd(word, ampersand)
        PROVE  IndInv'
    BY <1>1, GetcmdKeeps
  <1>2. ASSUME NEW letter \in Words, NEW ampersand \in BOOLEAN, r(letter, ampersand)
        PROVE  IndInv'
    BY <1>2, RKeeps
  <1>3. CASE exit
    BY <1>3, ExitKeeps
  <1>4. CASE cd
    BY <1>4, CdKeeps
  <1>5. CASE fg
    BY <1>5, FgKeeps
  <1>6. CASE jobs_Command
    BY <1>6, JobsCommandKeeps
  <1>7. CASE fork
    BY <1>7, ForkKeeps
  <1>8. CASE fork_Fails
    BY <1>8, FailedForkKeeps
  <1>9. CASE wait
    BY <1>9, WaitKeeps
  <1>10. CASE flush_completed_processes
    BY <1>10, FlushKeeps
  <1>11. ASSUME NEW p \in Pids, Child(p)
         PROVE  IndInv'
    BY <1>11, ChildKeeps
  <1>12. CASE UNCHANGED vars
    <2>1. UNCHANGED <<history, jobs, kernel, control>>
      BY <1>12 DEF vars
    <2>2. ControlTyped' /\ DeadAreRemoved' /\ SecondShellIsAwaited'
      BY <2>1, PartsOfIndInv
         DEF ControlTyped, DeadAreRemoved, SecondShellIsAwaited, Listed, control,
             jobs, kernel
    <2> QED  BY <2>1, <2>2, PartsOfIndInv, PartsAfterAStep, HistoryUntouched,
                JobsUntouched, KernelUntouched, ListingUntouched
  <1> QED  BY <1>1, <1>2, <1>3, <1>4, <1>5, <1>6, <1>7, <1>8, <1>9, <1>10, <1>11,
              <1>12 DEF Next, ShellStep

\* The invariant from which the others follow.
THEOREM ShellInvariant == Spec => []IndInv
  BY InitHolds, NextKeeps, PTL DEF Spec

\* The shell keeps its lists and its indexes within their arrays, and only has pids
\* of children that the kernel still keeps among its background jobs.
THEOREM ShellIsTyped == Spec => []TypeOK
  <1>1. IndInv => TypeOK
    BY DEF IndInv
  <1> QED  BY <1>1, ShellInvariant, PTL

\* The ring gives the latest commands in order, whatever r does to its strings.
THEOREM ShellHistoryIsRecent == Spec => []HistoryIsRecent
  <1>1. IndInv => HistoryIsRecent
    BY DEF IndInv
  <1> QED  BY <1>1, ShellInvariant, PTL

\* Background children that live are in the list, but for those whose entry a full list
\* gave to another and those that jobs found stopped.
THEOREM ShellJobsAreListed == Spec => []JobsAreListed
  <1>1. IndInv => JobsAreListed
    BY DEF IndInv
  <1> QED  BY <1>1, ShellInvariant, PTL

\* The prompt is not shown while the second shell of a foreground command lives.
THEOREM ShellOneReader == Spec => []OneReader
  <1>1. IndInv => OneReader
    BY DEF IndInv, SecondShellIsAwaited, OneReader
  <1> QED  BY <1>1, ShellInvariant, PTL

\* r runs the newest command if it has the letter and otherwise the oldest that has it,
\* whole as the history has it, and makes it the newest; it leaves the history alone if no
\* command has the letter.  If that is the oldest command of a full ring, what runs is that
\* command or what free and malloc left of its string, or the shell ends.
THEOREM ShellRerunsTheHistory == Spec => RerunsTheHistory
  <1> DEFINE Reruns(letter) ==
               \/ Matches(letter) = {} /\ running' = Typed("r") /\ recent' = recent
               \/ \E i \in DOMAIN recent :
                     /\ NewestOrOldest(i, Matches(letter))
                     /\ IF i < HISTORY_SIZE
                        THEN running' = recent[i] /\ recent'[1] = recent[i]
                        ELSE running' \in {recent[i], Junk} \/ pc' = "gone"
  <1>1. ASSUME IndInv, NEW letter \in Words, NEW ampersand \in BOOLEAN,
               r(letter, ampersand)
        PROVE  Reruns(letter)
    <2>0. DOMAIN recent = 1 .. totalCount
      BY <1>1 DEF IndInv, TypeOK, HistoryIsRecent
    <2>1. CASE r_Fails(letter, ampersand)
      <3>1. Matches(letter) = {}
        BY <1>1, <2>1, ScanMisses DEF r_Fails, Matches
      <3> QED  BY <2>1, <3>1 DEF r_Fails, Begin, history
    <2>2. CASE r_Runs(letter, ampersand)
      <3>1. PICK k \in 1 .. totalCount :
               /\ NewestOrOldest(k, Matches(letter))
               /\ recent[k] \in Commands
               /\ Begin(recent[k], ampersand, FALSE)
               /\ recent'[1] = recent[k]
        BY <1>1, <2>2, RerunPushes
      <3> QED  BY <2>0, <3>1 DEF Begin
    <2>3. CASE r_RunsFreed(letter, ampersand)
      <3>1. PICK k \in 1 .. totalCount :
               /\ command_buffer_scan(letter) = Spot(k)
               /\ commands[Spot(k)] = recent[k]
               /\ NewestOrOldest(k, Matches(letter))
        BY <1>1, <2>3, ScanFinds DEF r_RunsFreed
      <3>2. /\ TypeOK /\ HISTORY_SIZE \in Nat \ {0} /\ totalCount \in 0 .. HISTORY_SIZE
            /\ index \in 0 .. HISTORY_SIZE - 1
        BY <1>1, FirstSpots DEF IndInv, TypeOK, Ring
      <3>3. k \in 1 .. HISTORY_SIZE
        BY <3>2
      <3>4. Spot(k) = IF index = 0 THEN HISTORY_SIZE - 1 ELSE index - 1
        BY <2>3, <3>1, <3>2, StepsRound DEF r_RunsFreed
      <3>5. Spot(k) = IF index + k - 1 < HISTORY_SIZE THEN index + k - 1
                      ELSE index + k - 1 - HISTORY_SIZE
        BY <3>2, <3>3, SpotsAre
      <3>6. k = HISTORY_SIZE
        BY <3>2, <3>3, <3>4, <3>5
      <3>7. running' \in {recent[k], Junk} \/ pc' = "gone"
        BY <2>3, <3>1 DEF r_RunsFreed, Begin, exit
      <3>8. ~(k < HISTORY_SIZE)
        BY <3>2, <3>6
      <3> QED  BY <2>0, <3>1, <3>7, <3>8
    <2> QED  BY <1>1, <2>1, <2>2, <2>3 DEF r
  <1>2. IndInv /\ IndInv' => [\A letter \in Words :
                                pc' # "prompt" /\ r(letter, bg') => Reruns(letter)]_vars
    <2>1. IndInv' => bg' \in BOOLEAN
      BY DEF IndInv, TypeOK
    <2> QED  BY <1>1, <2>1
  <1> QED  BY <1>2, ShellInvariant, PTL DEF RerunsTheHistory

\* What was dead when jobs was typed is off the list and reaped when it has printed.
THEOREM ShellJobsRemovesTheDead == Spec => JobsRemovesTheDead
  <1>1. ASSUME IndInv, Next, pc = "flush", pc' # "flush"
        PROVE  \A p \in due : p \notin Listed' /\ process'[p] = "free"
    <2>1. flush_completed_processes
      BY <1>1 DEF Next, ShellStep, getcmd, r, r_Fails, r_Runs, r_RunsFreed, Begin,
                  exit, cd, fg, jobs_Command, fork, fork_Fails, Executing, wait,
                  Child, Becomes, control
    <2>2. slot + 1 \notin Jobs /\ flush_Look /\ slot \in Jobs
      BY <1>1, <2>1, PartsOfIndInv DEF flush_completed_processes, ControlTyped
    <2>3. \A i \in Jobs : ~(slot < i)
      BY <2>2, FirstSpots DEF Jobs
    <2>4. \A q \in due : /\ \A i \in Jobs : pids'[i] = q => slot < i
                         /\ q \notin Listed' => process'[q] = "free"
      BY <1>1, <2>2, LookKeeps
    <2>5. \A q \in due : q \notin Listed'
      BY <2>3, <2>4 DEF Listed
    <2> QED  BY <2>4, <2>5
  <1>2. IndInv /\ [Next]_vars =>
           [pc = "flush" /\ pc' # "flush" =>
               \A p \in due : p \notin Listed' /\ process'[p] = "free"]_vars
    BY <1>1
  <1> QED  BY <1>2, ShellInvariant, PTL DEF Spec, JobsRemovesTheDead
=============================================================================
