----------------------- MODULE SpoolerLifecycleProofs -----------------------
(***************************************************************************)
(* Proofs about SpoolerLifecycle, for any clients, any buffer size and any *)
(* number of restarts: what a boot and a kill leave of the spooler's       *)
(* invariant.                                                              *)
(***************************************************************************)
EXTENDS SpoolerLifecycle, PrintSpoolerProofs

USE SizeAssumption, ClientsAssumption, BootsAssumption

-----------------------------------------------------------------------------
\* Types.

\* Of the memory and the processes, whatever tokens are lost or made up: an
\* index stays inside the buffer, which it moves in only if it has a slot.
LEMMA ClientKeepsTypes ==
  ASSUME TypeOK, NoSlotNoJob, NEW c \in Clients, put_a_job(c)
  PROVE  TypeOK' /\ NoSlotNoJob'
  <1> USE DEF Early
  <1>0. \A d \in Clients : cpc'[d] = IF d = c THEN cpc'[c] ELSE cpc[d]
    BY DEF put_a_job, PutCheck, PutWaitEmpty, PutWaitMutex, PushStore,
           PushAdvance, PutPostMutex, PutPostFull, ClientAt, TypeOK
  <1>1. CASE PutCheck(c)
    BY <1>1 DEF PutCheck, ClientAt, TypeOK, NoSlotNoJob, ClientLabels, buffer,
                semaphore, server, willSemaphoreWait
  <1>2. CASE PutWaitEmpty(c)
    BY <1>2 DEF PutWaitEmpty, ClientAt, TypeOK, NoSlotNoJob, ClientLabels,
                buffer, server, sem_wait
  <1>3. CASE PutWaitMutex(c)
    BY <1>3 DEF PutWaitMutex, ClientAt, TypeOK, NoSlotNoJob, ClientLabels,
                buffer, server, sem_wait
  <1>4. CASE PushStore(c)
    BY <1>4 DEF PushStore, ClientAt, TypeOK, NoSlotNoJob, ClientLabels,
                semaphore, server
  <1>5. CASE PushAdvance(c)
    <2>1. bufferSize > 0 /\ cpc[c] = "advance"
      BY <1>5 DEF PushAdvance, ClientAt, NoSlotNoJob
    <2>2. tailIndex' \in Nat /\ tailIndex' < bufferSize
      <3>1. tailIndex \in Nat /\ tailIndex < bufferSize /\ bufferSize \in Nat
        BY <2>1 DEF TypeOK
      <3>2. tailIndex' = Following(tailIndex)
        BY <1>5 DEF PushAdvance
      <3> QED  BY <2>1, <3>1, <3>2, FollowingWraps
    <2>3. accepted' \in Seq(Clients)
      BY <1>5 DEF PushAdvance, TypeOK
    <2> QED  BY <1>5, <2>1, <2>2, <2>3
             DEF PushAdvance, ClientAt, TypeOK, NoSlotNoJob, ClientLabels,
                 semaphore, server
  <1>6. CASE PutPostMutex(c)
    BY <1>6 DEF PutPostMutex, ClientAt, TypeOK, NoSlotNoJob, ClientLabels,
                buffer, server, sem_post
  <1>7. CASE PutPostFull(c)
    BY <1>7 DEF PutPostFull, ClientAt, TypeOK, NoSlotNoJob, ClientLabels,
                buffer, server, sem_post
  <1> QED  BY <1>1, <1>2, <1>3, <1>4, <1>5, <1>6, <1>7 DEF put_a_job

LEMMA PrinterKeepsTypes ==
  ASSUME TypeOK, NoSlotNoJob, Printer
  PROVE  TypeOK' /\ NoSlotNoJob'
  <1>1. CASE TakeCheck
    BY <1>1 DEF TakeCheck, ServerAt, TypeOK, NoSlotNoJob, ServerLabels, buffer,
                semaphore, client, willSemaphoreWait
  <1>2. CASE TakeWaitFull
    BY <1>2 DEF TakeWaitFull, ServerAt, TypeOK, NoSlotNoJob, ServerLabels,
                buffer, client, sem_wait
  <1>3. CASE TakeWaitMutex
    BY <1>3 DEF TakeWaitMutex, ServerAt, TypeOK, NoSlotNoJob, ServerLabels,
                buffer, client, sem_wait
  <1>4. CASE PopRead
    <2>1. bufferSize > 0 /\ headIndex \in Slots
      BY <1>4 DEF PopRead, ServerAt, TypeOK, NoSlotNoJob, Slots
    <2>2. job' \in Clients \cup {NoJob}
      BY <1>4, <2>1 DEF PopRead, TypeOK
    <2> QED  BY <1>4, <2>1, <2>2 DEF PopRead, ServerAt, TypeOK, NoSlotNoJob,
                                     ServerLabels, buffer, semaphore, client
  <1>5. CASE PopAdvance
    <2>1. bufferSize > 0
      BY <1>5 DEF PopAdvance, ServerAt, TypeOK, NoSlotNoJob
    <2>2. headIndex' \in Nat /\ headIndex' < bufferSize
      BY <1>5, <2>1, FollowingWraps DEF PopAdvance, TypeOK
    <2> QED  BY <1>5, <2>1, <2>2 DEF PopAdvance, ServerAt, TypeOK, NoSlotNoJob,
                                     ServerLabels, semaphore, client
  <1>6. CASE TakePostMutex
    BY <1>6 DEF TakePostMutex, ServerAt, TypeOK, NoSlotNoJob, ServerLabels,
                buffer, client, sem_post
  <1>7. CASE TakePostEmpty
    BY <1>7 DEF TakePostEmpty, ServerAt, TypeOK, NoSlotNoJob, ServerLabels,
                buffer, client, sem_post
  <1>8. CASE go_sleep
    <2>1. printed' \in Seq(Clients \cup {NoJob})
      BY <1>8 DEF go_sleep, TypeOK
    <2> QED  BY <1>8, <2>1 DEF go_sleep, ServerAt, TypeOK, NoSlotNoJob,
                               ServerLabels, buffer, semaphore, client
  <1> QED  BY <1>1, <1>2, <1>3, <1>4, <1>5, <1>6, <1>7, <1>8
           DEF Printer, take_a_job


\* Every step keeps the types.
LEMMA TypesKept ==
  ASSUME LifeTypeOK, NoSlotNoJob, [LifeNext]_lifeVars
  PROVE  LifeTypeOK' /\ NoSlotNoJob'
  <1> USE DEF Early
  <1>1. CASE setup_shared_mem
    <2>1. boots' \in 0 .. MaxBoots
      BY <1>1 DEF setup_shared_mem, LifeTypeOK
    <2>2. TypeOK' /\ NoSlotNoJob'
      BY <1>1 DEF setup_shared_mem, LifeTypeOK, TypeOK, NoSlotNoJob,
                  ServerLabels, memory, buffer, semaphore, client
    <2> QED  BY <1>1, <2>1, <2>2 DEF setup_shared_mem, LifeTypeOK, Phases
  <1>2. CASE Boots
    <2>1. /\ UNCHANGED <<spc, job, announced, didWait, segment, boots,
                         attached, refused, killed>>
          /\ phase' \in Phases /\ dirty' \in BOOLEAN
          /\ mutex' \in Nat /\ empty' \in Nat /\ full' \in Nat
          /\ bufferSize = 0 => empty' = 0 /\ full' = 0
          /\ lost' \subseteq attached
      <3>1. CASE attach_shared_mem
        BY <3>1 DEF attach_shared_mem, Boot, LifeTypeOK, TypeOK, NoSlotNoJob,
                    Phases, server, semaphore
      <3>2. CASE init_semaphore
        <4>1. \A v, l : Reinit(v, l) => lost' \subseteq attached
          BY DEF Reinit, Using, LifeTypeOK
        <4>2. /\ UNCHANGED <<spc, job, announced, didWait, segment, boots,
                             attached, refused, killed>>
              /\ phase' \in Phases /\ dirty' \in BOOLEAN
          <5>1. \E a \in Phases, b \in Phases : Boot(a, b)
            BY <3>2 DEF init_semaphore, InitMutex, InitEmpty, InitFull, Phases
          <5> QED  BY <5>1 DEF Boot, server
        <4>3. CASE InitMutex
          BY <4>1, <4>2, <4>3 DEF InitMutex, LifeTypeOK, TypeOK, NoSlotNoJob
        <4>4. CASE InitEmpty
          BY <4>1, <4>2, <4>4 DEF InitEmpty, LifeTypeOK, TypeOK, NoSlotNoJob
        <4>5. CASE InitFull
          BY <4>2, <4>5 DEF InitFull, LifeTypeOK, TypeOK, NoSlotNoJob
        <4> QED  BY <3>2, <4>3, <4>4, <4>5 DEF init_semaphore
      <3> QED  BY <1>2, <3>1, <3>2 DEF Boots
    <2>2. /\ elements' \in [Slots -> Clients \cup {NoJob}]
          /\ headIndex' \in Nat /\ (bufferSize > 0 => headIndex' < bufferSize)
          /\ tailIndex' \in Nat /\ (bufferSize > 0 => tailIndex' < bufferSize)
          /\ cpc' \in [Clients -> ClientLabels]
          /\ \A c \in Clients : cpc'[c] \in {cpc[c], "done"}
          /\ accepted' \in Seq(Clients)
          /\ printed' \in Seq(Clients \cup {NoJob})
      <3>1. CASE attach_shared_mem
        <4>1. cpc' = [c \in Clients |-> IF c \in killed THEN "done" ELSE cpc[c]]
          BY <3>1 DEF attach_shared_mem
        <4>2. /\ cpc' \in [Clients -> ClientLabels]
              /\ \A c \in Clients : cpc'[c] \in {cpc[c], "done"}
          BY <4>1 DEF LifeTypeOK, TypeOK, ClientLabels
        <4> QED  BY <3>1, <4>2 DEF attach_shared_mem
      <3>2. CASE init_semaphore
        BY <3>2 DEF init_semaphore, InitMutex, InitEmpty, InitFull, LifeTypeOK,
                    TypeOK, buffer
      <3> QED  BY <1>2, <3>1, <3>2 DEF Boots
    <2> QED  BY <2>1, <2>2 DEF LifeTypeOK, TypeOK, NoSlotNoJob
  <1>3. CASE KillServer
    <2>1. UNCHANGED vars /\ phase' \in Phases
      BY <1>3 DEF KillServer, Phases
    <2> QED  BY <1>3, <2>1 DEF KillServer, LifeTypeOK, TypeOK, NoSlotNoJob,
                               vars, buffer, semaphore, client, server
  <1>4. CASE ServerRuns
    BY <1>4, PrinterKeepsTypes DEF ServerRuns, LifeTypeOK, life
  <1>5. ASSUME NEW c \in Clients, attach_share_mem(c)
        PROVE  LifeTypeOK' /\ NoSlotNoJob'
    <2>1. UNCHANGED vars /\ attached \subseteq attached'
      BY <1>5 DEF attach_share_mem
    <2>2. TypeOK' /\ NoSlotNoJob'
      BY <2>1 DEF LifeTypeOK, TypeOK, NoSlotNoJob, vars, buffer, semaphore,
                  client, server
    <2> QED  BY <1>5, <2>1, <2>2 DEF attach_share_mem, LifeTypeOK
  <1>6. ASSUME NEW c \in Clients, KillClient(c)
        PROVE  LifeTypeOK' /\ NoSlotNoJob'
    <2>1. UNCHANGED vars /\ killed' \subseteq attached
      BY <1>6 DEF KillClient, Using, LifeTypeOK
    <2> QED  BY <1>6, <2>1 DEF KillClient, LifeTypeOK, TypeOK, NoSlotNoJob,
                               vars, buffer, semaphore, client, server
  <1>7. ASSUME NEW c \in Clients, ClientRuns(c)
        PROVE  LifeTypeOK' /\ NoSlotNoJob'
    BY <1>7, ClientKeepsTypes DEF ClientRuns, LifeTypeOK
  <1>8. CASE UNCHANGED lifeVars
    BY <1>8 DEF LifeTypeOK, TypeOK, NoSlotNoJob, lifeVars, life, vars, buffer,
                semaphore, client, server
  <1> QED  BY <1>1, <1>2, <1>3, <1>4, <1>5, <1>6, <1>7, <1>8 DEF LifeNext

-----------------------------------------------------------------------------
\* The spooler at rest.

\* Nothing is counted there: no process holds a token and no job is waiting.
NothingCounted == /\ InTheMutex = 0 /\ Occupied = 0 /\ InTransit = 0
                  /\ Count = 0 /\ Taken = 0
                  /\ \A c \in Clients : cpc[c] # "advance"

LEMMA NothingAtRest == AtRest => NothingCounted
  <1> SUFFICES ASSUME AtRest
               PROVE  NothingCounted
    OBVIOUS
  <1>1. /\ ClientsAt(ClientInside) = {} /\ ClientsAt(Claiming) = {}
        /\ ClientsAt(Announcing) = {}
        /\ \A c \in Clients : cpc[c] # "advance"
    BY DEF AtRest, Early, ClientsAt, ClientInside, Claiming, Announcing
  <1>2. /\ NServer(ServerInside) = 0 /\ NServer(Returning) = 0
        /\ NServer(Fetching) = 0 /\ NServer(InHand) = 0
    BY DEF AtRest, NServer, ServerInside, Returning, Fetching, InHand
  <1>3. Len(accepted) = 0 /\ Len(printed) = 0
    BY DEF AtRest
  <1>4. Taken = 0 /\ Count = 0
    BY <1>2, <1>3 DEF Taken, Count
  <1>5. NClients(ClientInside) = 0 /\ NClients(Claiming) = 0
                                   /\ NClients(Announcing) = 0
    BY <1>1, FS_EmptySet DEF NClients
  <1> QED  BY <1>1, <1>2, <1>4, <1>5 DEF NothingCounted, InTheMutex, Occupied,
                                         InTransit

\* At rest the spooler is sound whatever the semaphores hold, up to what a boot
\* gives them, and has its invariant once they hold that.
RestIsSound ==
    TypeOK /\ AtRest /\ mutex <= 1 /\ empty <= bufferSize /\ full = 0
        => /\ SoundInv
           /\ mutex = 1 /\ empty = bufferSize => IndInv

LEMMA SoundAtRest == RestIsSound
  <1> SUFFICES ASSUME TypeOK, AtRest, mutex <= 1, empty <= bufferSize, full = 0
               PROVE  /\ SoundInv
                      /\ mutex = 1 /\ empty = bufferSize => IndInv
    BY DEF RestIsSound
  <1>1. NothingCounted
    BY NothingAtRest
  <1>2. mutex \in Nat /\ empty \in Nat /\ bufferSize \in Nat
    BY DEF TypeOK
  <1>3. RingHoldsTheJobs
    BY <1>1, <1>2 DEF NothingCounted, AtRest, RingHoldsTheJobs, SlotOf, InHand
  <1>4. PrintedInOrder
    BY DEF AtRest, PrintedInOrder
  <1>5. NoTokenMadeUp
    BY <1>1, <1>2 DEF NothingCounted, NoTokenMadeUp
  <1>6. mutex = 1 /\ empty = bufferSize => TokensAccountedFor
    BY <1>1, <1>2 DEF NothingCounted, TokensAccountedFor
  <1> QED  BY <1>3, <1>4, <1>5, <1>6 DEF SoundInv, IndInv


\* The same after a step.
LEMMA SoundAtRestNext == RestIsSound'
  BY SoundAtRest, PTL

\* A step of the spooler's processes, or of none of them, keeps what is sound.
LEMMA StepKeepsSound ==
  ASSUME SoundInv, [Next]_vars
  PROVE  SoundInv'
  BY ClientStepKeepsInvariant, ServerStepKeepsInvariant, StutterKeepsInvariant
  DEF Next

\* At rest, with no slot to be had, a client gets no further than its first
\* sem_wait.
LEMMA NobodyGetsASlot ==
  ASSUME TypeOK, AtRest, empty = 0, full = 0, NEW c \in Clients, put_a_job(c)
  PROVE  AtRest' /\ empty' = 0 /\ full' = 0 /\ mutex' = mutex
  <1>1. cpc[c] \in Early
    BY DEF AtRest
  <1>2. PutCheck(c)
    BY <1>1 DEF put_a_job, PutCheck, PutWaitEmpty, PutWaitMutex, PushStore,
                PushAdvance, PutPostMutex, PutPostFull, ClientAt, Early,
                sem_wait, TypeOK
  <1>3. \A d \in Clients : cpc'[d] \in Early
    BY <1>2 DEF PutCheck, ClientAt, AtRest, Early, TypeOK
  <1> QED  BY <1>2, <1>3 DEF PutCheck, AtRest, buffer, semaphore, server

-----------------------------------------------------------------------------
\* The first server.

\* A step that changes neither the memory nor the processes, nor how far the
\* boot is.
LEMMA FirstBootFrame ==
  ASSUME FirstBoot, UNCHANGED <<vars, boots>>,
         boots' = 0 => phase' = "off",
         \/ phase' = phase
         \/ boots # 0 /\ phase' \notin {"attach", "mutex", "empty"}
  PROVE  FirstBoot'
  <1> SUFFICES ASSUME boots <= 1, boots' <= 1
               PROVE  FirstBoot'
    BY DEF FirstBoot
  <1>1. SoundInv'
    BY StepKeepsSound DEF FirstBoot
  <1>2. AtRest => AtRest'
    BY DEF AtRest, vars, buffer, client, server
  <1>3. mutex' = mutex /\ empty' = empty /\ full' = full
    BY DEF vars, semaphore
  <1> QED  BY <1>1, <1>2, <1>3 DEF FirstBoot

LEMMA FirstBootKept ==
  ASSUME LifeInv, LifeTypeOK', [LifeNext]_lifeVars
  PROVE  FirstBoot'
  <1> USE DEF LifeInv
  <1> SUFFICES ASSUME boots' <= 1
               PROVE  FirstBoot'
    BY DEF FirstBoot
  <1>0. boots \in Nat /\ bufferSize \in Nat /\ TypeOK /\ TypeOK'
    BY DEF LifeTypeOK
  <1>1. CASE setup_shared_mem
    <2>1. boots = 0 /\ boots' = 1 /\ phase' = "attach"
      BY <1>0, <1>1 DEF setup_shared_mem
    <2>2. AtRest /\ empty = 0 /\ full = 0 /\ mutex = 0
      BY <2>1 DEF FirstBoot
    <2>3. AtRest' /\ empty' = 0 /\ full' = 0 /\ mutex' = 0
      BY <1>1, <2>2 DEF setup_shared_mem, AtRest, memory, buffer, semaphore,
                        client
    <2>4. SoundInv'
      BY <1>0, <2>3, SoundAtRestNext DEF RestIsSound
    <2> QED  BY <2>1, <2>3, <2>4 DEF FirstBoot
  <1>2. CASE attach_shared_mem
    <2>1. /\ boots' = boots /\ phase = "attach" /\ phase' = "mutex"
          /\ boots # 0 /\ boots <= 1
      BY <1>0, <1>2 DEF attach_shared_mem, Boot, FirstBoot
    <2>2. AtRest /\ empty = 0 /\ full = 0 /\ mutex = 0
      BY <2>1 DEF FirstBoot
    <2>3. \A c \in Clients : cpc'[c] \in Early
      BY <1>2, <2>2 DEF attach_shared_mem, AtRest, Early
    <2>4. AtRest' /\ empty' = 0 /\ full' = 0 /\ mutex' = 0
      BY <1>2, <2>2, <2>3 DEF attach_shared_mem, Boot, AtRest, semaphore, server
    <2>5. SoundInv'
      BY <1>0, <2>4, SoundAtRestNext DEF RestIsSound
    <2> QED  BY <2>1, <2>4, <2>5 DEF FirstBoot
  <1>3. CASE InitMutex
    <2>1. /\ boots' = boots /\ phase = "mutex" /\ phase' = "empty"
          /\ boots # 0 /\ boots <= 1
      BY <1>0, <1>3 DEF InitMutex, Boot, FirstBoot
    <2>2. AtRest /\ empty = 0 /\ full = 0
      BY <2>1 DEF FirstBoot
    <2>3. AtRest' /\ empty' = 0 /\ full' = 0 /\ mutex' = 1
      BY <1>3, <2>2 DEF InitMutex, Boot, AtRest, buffer, server
    <2>4. SoundInv'
      BY <1>0, <2>3, SoundAtRestNext DEF RestIsSound
    <2> QED  BY <2>1, <2>3, <2>4 DEF FirstBoot
  <1>4. CASE InitEmpty
    <2>1. /\ boots' = boots /\ phase = "empty" /\ phase' = "full"
          /\ boots # 0 /\ boots <= 1
      BY <1>0, <1>4 DEF InitEmpty, Boot, FirstBoot
    <2>2. AtRest /\ full = 0 /\ mutex <= 1
      <3>1. SoundInv /\ AtRest /\ full = 0
        BY <2>1 DEF FirstBoot
      <3>2. mutex <= 1
        BY <1>0, <3>1, NothingAtRest
        DEF SoundInv, NoTokenMadeUp, NothingCounted, TypeOK
      <3> QED  BY <3>1, <3>2
    <2>3. AtRest' /\ empty' = bufferSize /\ full' = 0 /\ mutex' <= 1
      BY <1>4, <2>2 DEF InitEmpty, Boot, AtRest, buffer, server
    <2>4. SoundInv'
      BY <1>0, <2>3, SoundAtRestNext DEF RestIsSound
    <2> QED  BY <2>1, <2>4 DEF FirstBoot
  <1>5. CASE InitFull
    <2>1. /\ boots' = boots /\ phase' = "run" /\ boots # 0 /\ boots <= 1
          /\ SoundInv
      BY <1>0, <1>5 DEF InitFull, Boot, FirstBoot
    <2>2. /\ UNCHANGED <<elements, headIndex, tailIndex, mutex, empty, cpc, spc,
                         job, announced, accepted, printed>>
          /\ full' = 0
      BY <1>5 DEF InitFull, Boot, buffer, server
    <2>3. RingHoldsTheJobs' /\ PrintedInOrder' /\ Count' = Count
      BY <2>1, <2>2, RingUntouched DEF buffer
    <2>4. InTheMutex' = InTheMutex /\ Occupied' = Occupied
                                   /\ InTransit' = InTransit
      BY <2>2, <2>3 DEF InTheMutex, Occupied, InTransit, NClients, NServer,
                        ClientsAt
    <2>5. 0 + InTransit <= Count
      <3>1. InTransit \in Nat /\ Count \in Nat /\ full \in Nat
        BY <2>1, CountsAreNumbers
      <3> QED  BY <2>1, <3>1 DEF SoundInv, NoTokenMadeUp
    <2>6. SoundInv'
      BY <1>0, <2>1, <2>2, <2>3, <2>4, <2>5 DEF SoundInv, NoTokenMadeUp
    <2> QED  BY <2>1, <2>6 DEF FirstBoot
  <1>6. CASE KillServer
    <2>1. /\ UNCHANGED <<vars, boots>> /\ boots # 0
          /\ phase' \in {"killed", "off"}
      BY <1>0, <1>6 DEF KillServer, FirstBoot
    <2> QED  BY <1>0, <2>1, FirstBootFrame
  <1>7. CASE ServerRuns
    <2>1. /\ UNCHANGED <<phase, boots>> /\ Printer /\ phase = "run"
          /\ boots # 0 /\ boots <= 1 /\ SoundInv
      BY <1>0, <1>7 DEF ServerRuns, life, FirstBoot
    <2> QED  BY <2>1, StepKeepsSound DEF FirstBoot, Next
  <1>8. ASSUME NEW c \in Clients, attach_share_mem(c) \/ KillClient(c)
        PROVE  FirstBoot'
    <2>1. UNCHANGED <<vars, boots, phase>>
      BY <1>8 DEF attach_share_mem, KillClient
    <2> QED  BY <2>1, FirstBootFrame DEF FirstBoot
  <1>9. ASSUME NEW c \in Clients, ClientRuns(c)
        PROVE  FirstBoot'
    <2>1. UNCHANGED <<boots, phase>> /\ put_a_job(c) /\ SoundInv
      BY <1>9 DEF ClientRuns, FirstBoot
    <2>2. SoundInv'
      BY <2>1, StepKeepsSound DEF Next
    <2> QED  BY <1>0, <2>1, <2>2, NobodyGetsASlot DEF FirstBoot
  <1>10. CASE UNCHANGED lifeVars
    <2>1. UNCHANGED <<vars, boots, phase>>
      BY <1>10 DEF lifeVars, life
    <2> QED  BY <2>1, FirstBootFrame DEF FirstBoot
  <1> QED  BY <1>1, <1>2, <1>3, <1>4, <1>5, <1>6, <1>7, <1>8, <1>9, <1>10
           DEF LifeNext, Boots, init_semaphore


-----------------------------------------------------------------------------
\* A clean boot.

\* A step that changes neither the memory nor the processes, nor how far the
\* boot is, and does not forget that the boot was disturbed.
LEMMA CleanBootFrame ==
  ASSUME CleanBoot, UNCHANGED <<vars, dirty>>, attached \subseteq attached',
         \/ phase' = phase
         \/ phase' = "off"
         \/ phase = "run" /\ phase' = "killed"
  PROVE  CleanBoot'
  <1>1. \A c \in Clients \ attached' : cpc'[c] = "check"
    BY DEF CleanBoot, vars, client
  <1>2. spc' = spc /\ job' = job /\ mutex' = mutex /\ empty' = empty
    BY DEF vars, server, semaphore
  <1>3. AtRest => AtRest'
    BY DEF AtRest, vars, buffer, client, server
  <1>4. IndInv => IndInv'
    BY StepKeepsAccount
  <1> QED  BY <1>1, <1>2, <1>3, <1>4 DEF CleanBoot

LEMMA CleanBootKept ==
  ASSUME LifeInv, LifeTypeOK', [LifeNext]_lifeVars
  PROVE  CleanBoot'
  <1> USE DEF LifeInv
  <1>0. bufferSize \in Nat /\ TypeOK /\ TypeOK' /\ killed \subseteq attached
    BY DEF LifeTypeOK
  <1>1. CASE setup_shared_mem
    BY <1>1 DEF setup_shared_mem, CleanBoot, client
  <1>2. CASE attach_shared_mem
    <2>1. /\ phase = "attach" /\ phase' = "mutex" /\ attached' = attached
          /\ dirty' = (dirty \/ \E c \in Clients : Using(c))
          /\ UNCHANGED <<spc, job>>
          /\ headIndex' = 0 /\ tailIndex' = 0
          /\ accepted' = <<>> /\ printed' = <<>>
          /\ cpc' = [c \in Clients |-> IF c \in killed THEN "done" ELSE cpc[c]]
      BY <1>2 DEF attach_shared_mem, Boot, server
    <2>2. \A c \in Clients \ attached' : cpc'[c] = "check"
      BY <1>0, <2>1 DEF CleanBoot
    <2>3. ASSUME ~dirty'
          PROVE  AtRest'
      <3>1. \A c \in Clients : ~Using(c)
        BY <2>1, <2>3
      <3>2. \A c \in Clients : cpc'[c] \in Early
        BY <2>1, <2>2, <3>1 DEF Using, Early
      <3> QED  BY <2>1, <3>2 DEF AtRest, CleanBoot
    <2> QED  BY <2>1, <2>2, <2>3 DEF CleanBoot
  <1>3. CASE init_semaphore
    <2>1. /\ UNCHANGED <<cpc, attached, headIndex, tailIndex, spc, job,
                         accepted, printed>>
          /\ ~dirty' => ~dirty
          /\ \/ phase = "mutex" /\ phase' = "empty" /\ mutex' = 1
             \/ phase = "empty" /\ phase' = "full" /\ empty' = bufferSize
                                                    /\ mutex' = mutex
             \/ phase = "full" /\ phase' = "run" /\ full' = 0
                                /\ mutex' = mutex /\ empty' = empty
      BY <1>3 DEF init_semaphore, InitMutex, InitEmpty, InitFull, Boot, buffer,
                  server
    <2>2. AtRest => AtRest'
      BY <2>1 DEF AtRest
    <2>3. ASSUME phase' = "run", ~dirty'
          PROVE  IndInv'
      <3>1. AtRest' /\ mutex' = 1 /\ empty' = bufferSize /\ full' = 0
        BY <2>1, <2>2, <2>3 DEF CleanBoot
      <3> QED  BY <1>0, <3>1, SoundAtRestNext DEF RestIsSound
    <2> QED  BY <2>1, <2>2, <2>3 DEF CleanBoot
  <1>4. CASE KillServer
    <2>1. /\ UNCHANGED <<vars, dirty, attached>>
          /\ \/ phase' = "off"
             \/ phase = "run" /\ phase' = "killed"
      BY <1>4 DEF KillServer
    <2> QED  BY <2>1, CleanBootFrame
  <1>5. CASE ServerRuns
    <2>1. /\ phase = "run" /\ UNCHANGED <<phase, dirty, attached, cpc>>
          /\ Printer
      BY <1>5 DEF ServerRuns, life, Printer, take_a_job, TakeCheck,
                  TakeWaitFull, TakeWaitMutex, PopRead, PopAdvance,
                  TakePostMutex, TakePostEmpty, go_sleep, client
    <2>2. ~dirty => IndInv'
      BY <2>1, StepKeepsAccount DEF CleanBoot, Next
    <2> QED  BY <2>1, <2>2 DEF CleanBoot
  <1>6. ASSUME NEW c \in Clients, attach_share_mem(c) \/ KillClient(c)
        PROVE  CleanBoot'
    <2>1. UNCHANGED <<vars, dirty, phase>> /\ attached \subseteq attached'
      BY <1>6 DEF attach_share_mem, KillClient
    <2> QED  BY <2>1, CleanBootFrame
  <1>7. ASSUME NEW c \in Clients, ClientRuns(c)
        PROVE  CleanBoot'
    <2>1. /\ put_a_job(c) /\ c \in attached /\ UNCHANGED <<phase, attached>>
          /\ ~dirty' => ~dirty /\ phase \notin {"mutex", "empty", "full"}
      BY <1>7 DEF ClientRuns, Using
    <2>2. \A d \in Clients \ attached' : cpc'[d] = "check"
      BY <1>0, <2>1 DEF CleanBoot, put_a_job, PutCheck, PutWaitEmpty,
                        PutWaitMutex, PushStore, PushAdvance, PutPostMutex,
                        PutPostFull, ClientAt, TypeOK
    <2>3. UNCHANGED <<spc, job>>
      BY <2>1 DEF put_a_job, PutCheck, PutWaitEmpty, PutWaitMutex, PushStore,
                  PushAdvance, PutPostMutex, PutPostFull, server
    <2>4. IndInv => IndInv'
      BY <2>1, StepKeepsAccount DEF Next
    <2> QED  BY <2>1, <2>2, <2>3, <2>4 DEF CleanBoot
  <1>8. CASE UNCHANGED lifeVars
    <2>1. UNCHANGED <<vars, dirty, phase, attached>>
      BY <1>8 DEF lifeVars, life
    <2> QED  BY <2>1, CleanBootFrame
  <1> QED  BY <1>1, <1>2, <1>3, <1>4, <1>5, <1>6, <1>7, <1>8 DEF LifeNext, Boots

-----------------------------------------------------------------------------
\* The theorems.

\* Whoever attaches, boots, is killed or is started again, in whatever order:
\* types hold, the first server's spooler makes up no token, and a boot nobody
\* disturbed has the spooler's invariant.
THEOREM LifecycleInvariant == LifeSpec => []LifeInv
  <1>1. LifeInit => LifeInv
    <2> SUFFICES ASSUME LifeInit
                 PROVE  LifeInv
      OBVIOUS
    <2> USE DEF LifeInit
    <2>1. TypeOK
      <3>1. /\ elements \in [Slots -> Clients \cup {NoJob}]
            /\ cpc \in [Clients -> ClientLabels]
            /\ didWait \in [Clients -> BOOLEAN]
            /\ spc \in ServerLabels
        BY DEF ClientLabels, ServerLabels
      <3>2. accepted \in Seq(Clients) /\ printed \in Seq(Clients \cup {NoJob})
        OBVIOUS
      <3>3. bufferSize \in Nat
        OBVIOUS
      <3> QED  BY <3>1, <3>2, <3>3 DEF TypeOK
    <2>2. AtRest
      BY DEF AtRest, Early
    <2>3. SoundInv
      BY <2>1, <2>2, SoundAtRest DEF RestIsSound, TypeOK
    <2>4. LifeTypeOK
      <3>1. boots \in 0 .. MaxBoots
        OBVIOUS
      <3>2. /\ segment \in BOOLEAN /\ dirty \in BOOLEAN /\ phase \in Phases
            /\ attached \subseteq Clients /\ refused \subseteq Clients
            /\ attached \cap refused = {}
            /\ killed \subseteq attached /\ lost \subseteq attached
        BY DEF Phases
      <3> HIDE DEF LifeInit
      <3> QED  BY <2>1, <3>1, <3>2 DEF LifeTypeOK
    <2>5. NoSlotNoJob
      BY DEF NoSlotNoJob, Early
    <2> QED  BY <2>2, <2>3, <2>4, <2>5 DEF LifeInv, FirstBoot, CleanBoot
  <1>2. LifeInv /\ [LifeNext]_lifeVars => LifeInv'
    <2> SUFFICES ASSUME LifeInv, [LifeNext]_lifeVars
                 PROVE  LifeInv'
      OBVIOUS
    <2>1. LifeTypeOK' /\ NoSlotNoJob'
      BY TypesKept DEF LifeInv
    <2> QED  BY <2>1, FirstBootKept, CleanBootKept DEF LifeInv
  <1> QED  BY <1>1, <1>2, PTL DEF LifeSpec

\* Types.
THEOREM LifecycleIsTyped == LifeSpec => []LifeTypeOK
  <1>1. LifeInv => LifeTypeOK
    BY DEF LifeInv
  <1> QED  BY <1>1, LifecycleInvariant, PTL

\* As long as the server is not started again, no client that attaches while
\* it boots and nobody's death puts two processes in the critical section, or
\* has a job overwritten, taken before it is there, or printed out of order.
THEOREM FirstServerKeepsSafe == LifeSpec => []FirstServerIsSafe
  <1>1. LifeInv => FirstServerIsSafe
    BY SoundConsequences DEF LifeInv, FirstBoot, FirstServerIsSafe, SoundInv
  <1> QED  BY <1>1, LifecycleInvariant, PTL

\* Nor is a job announced that is not in the buffer.
THEOREM FirstServerAnnouncesJobs == LifeSpec => []NoPhantomJob
  <1>1. LifeInv => NoPhantomJob
    BY DEF LifeInv, FirstBoot, NoPhantomJob, SoundInv, NoTokenMadeUp
  <1> QED  BY <1>1, LifecycleInvariant, PTL

\* A server that finds nobody at the segment while it resets it restores the
\* whole invariant, after any number of earlier servers and killed clients.
THEOREM CleanBootRestores == LifeSpec => []CleanBootIsSound
  <1>1. LifeInv => CleanBootIsSound
    BY DEF LifeInv, CleanBoot, CleanBootIsSound
  <1> QED  BY <1>1, LifecycleInvariant, PTL
=============================================================================
