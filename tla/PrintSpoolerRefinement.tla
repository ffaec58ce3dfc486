----------------------- MODULE PrintSpoolerRefinement -----------------------
(***************************************************************************)
(* The spooler implements the bounded queue of SpoolQueue: every step of a *)
(* client or of the printer is a step of the queue or leaves it alone.     *)
(* The queue's progress, which is about fairness, is left to TLC.          *)
(***************************************************************************)
EXTENDS PrintSpoolerProofs, SequenceTheorems

-----------------------------------------------------------------------------
\* Jobs are accepted once.

\* Where a client has put its job in the buffer.
Accepted == {"post_mutex", "post_full", "done"}

\* A step that accepts no job, and takes no client over the border between those
\* whose job is accepted and the others, keeps each job accepted once.
LEMMA AcceptedOnceFrame ==
  ASSUME AcceptedOnce, UNCHANGED accepted,
         \A c \in Clients : cpc'[c] \in Accepted <=> cpc[c] \in Accepted
  PROVE  AcceptedOnce'
  BY DEF AcceptedOnce, Accepted

\* Each client's job is accepted once, and from the moment on at which the client
\* has moved the tail of the ring.
THEOREM SpoolerAcceptsOnce == Safety => []AcceptedOnce
  <1>1. Init => AcceptedOnce
    BY DEF Init, AcceptedOnce
  <1>2. IndInv /\ AcceptedOnce /\ [Next]_vars => AcceptedOnce'
    <2> SUFFICES ASSUME IndInv, AcceptedOnce, [Next]_vars
                 PROVE  AcceptedOnce'
      OBVIOUS
    <2> USE DEF Accepted
    <2>0. cpc \in [Clients -> ClientLabels] /\ accepted \in Seq(Clients)
      BY DEF IndInv, TypeOK
    <2>1. ASSUME NEW c \in Clients, put_a_job(c), ~PushAdvance(c)
          PROVE  AcceptedOnce'
      <3>1. UNCHANGED accepted
        BY <2>1 DEF put_a_job, PutCheck, PutWaitEmpty, PutWaitMutex, PushStore,
                    PutPostMutex, PutPostFull
      <3>2. \A d \in Clients : cpc'[d] \in Accepted <=> cpc[d] \in Accepted
        BY <2>0, <2>1 DEF put_a_job, PutCheck, PutWaitEmpty, PutWaitMutex,
                          PushStore, PutPostMutex, PutPostFull, ClientAt
      <3> QED  BY <3>1, <3>2, AcceptedOnceFrame
    <2>2. ASSUME NEW c \in Clients, PushAdvance(c)
          PROVE  AcceptedOnce'
      <3>1. /\ cpc[c] = "advance" /\ cpc' = [cpc EXCEPT ![c] = "post_mutex"]
            /\ accepted' = Append(accepted, c)
        BY <2>2 DEF PushAdvance, ClientAt
      <3>2. /\ DOMAIN accepted = 1 .. Len(accepted) /\ Len(accepted) \in Nat
            /\ DOMAIN accepted' = 1 .. Len(accepted) + 1
            /\ accepted'[Len(accepted) + 1] = c
            /\ \A i \in 1 .. Len(accepted) : accepted'[i] = accepted[i]
        BY <2>0, <3>1
      <3>3. \A i \in 1 .. Len(accepted) : accepted[i] # c
        BY <3>1, <3>2 DEF AcceptedOnce
      <3>4. \A i, j \in DOMAIN accepted' : accepted'[i] = accepted'[j] => i = j
        BY <3>2, <3>3 DEF AcceptedOnce
      <3>5. \A d \in Clients : (\E i \in DOMAIN accepted' : accepted'[i] = d)
                <=> d = c \/ \E i \in DOMAIN accepted : accepted[i] = d
        BY <3>2
      <3>6. \A d \in Clients : cpc'[d] \in Accepted <=> d = c \/ cpc[d] \in Accepted
        BY <2>0, <3>1
      <3> QED  BY <3>4, <3>5, <3>6 DEF AcceptedOnce
    <2>3. ASSUME Printer
          PROVE  AcceptedOnce'
      <3>1. UNCHANGED <<accepted, cpc>>
        BY <2>3 DEF Printer, take_a_job, TakeCheck, TakeWaitFull, TakeWaitMutex,
                    PopRead, PopAdvance, TakePostMutex, TakePostEmpty, go_sleep,
                    client
      <3> QED  BY <3>1, AcceptedOnceFrame
    <2>4. CASE UNCHANGED vars
      BY <2>4, AcceptedOnceFrame DEF vars, client
    <2> QED  BY <2>1, <2>2, <2>3, <2>4 DEF Next
  <1> QED  BY <1>1, <1>2, SpoolerInvariant, PTL DEF Safety

-----------------------------------------------------------------------------
\* The queue in the ring.

\* The jobs in the ring are those accepted and not yet taken, in order.
QueueHoldsTheRest ==
    /\ QueueInRing \in Seq(Clients) /\ Len(QueueInRing) = Count
    /\ \A i \in 1 .. Count : QueueInRing[i] = accepted[Taken + i]
    /\ \A i \in 1 .. Count : Taken + i \in DOMAIN accepted
    /\ DOMAIN accepted = 1 .. Taken + Count
    /\ Count \in Nat /\ Taken \in Nat

LEMMA QueueIsWhatIsAccepted == IndInv => QueueHoldsTheRest
  <1> SUFFICES ASSUME IndInv
               PROVE  QueueHoldsTheRest
    OBVIOUS
  <1>1. /\ Count \in Nat /\ Taken \in Nat /\ Count <= bufferSize
        /\ bufferSize \in Nat /\ Len(accepted) = Taken + Count
    BY AccountedIsSound, CountsAreNumbers
  <1>2. /\ accepted \in Seq(Clients) /\ DOMAIN accepted = 1 .. Taken + Count
    BY <1>1 DEF IndInv, TypeOK
  <1>3. \A i \in 1 .. Count : elements[SlotOf(i - 1)] = accepted[Taken + i]
    <2> SUFFICES ASSUME NEW i \in 1 .. Count
                 PROVE  elements[SlotOf(i - 1)] = accepted[Taken + i]
      OBVIOUS
    <2>1. i - 1 \in 0 .. Count - 1 /\ Taken + 1 + (i - 1) = Taken + i
      BY <1>1
    <2>2. elements[SlotOf(i - 1)] = accepted[Taken + 1 + (i - 1)]
      BY <2>1 DEF IndInv, RingHoldsTheJobs
    <2> QED  BY <2>1, <2>2
  <1>4. \A i \in 1 .. Count : /\ Taken + i \in DOMAIN accepted
                              /\ accepted[Taken + i] \in Clients
    BY <1>1, <1>2
  <1>5. QueueInRing = [i \in 1 .. Count |-> accepted[Taken + i]]
    BY <1>3 DEF QueueInRing
  <1> QED  BY <1>1, <1>2, <1>4, <1>5 DEF QueueHoldsTheRest

\* The same after a step.
LEMMA QueueAfterAStep == IndInv' => QueueHoldsTheRest'
  BY QueueIsWhatIsAccepted, PTL

\* A step that accepts no job and takes none leaves the queue as it is.
LEMMA QueueUntouched ==
  ASSUME IndInv, IndInv', UNCHANGED accepted, Taken' = Taken
  PROVE  QueueInRing' = QueueInRing
  <1>1. Count' = Count
    BY DEF Count
  <1>2. QueueHoldsTheRest /\ QueueHoldsTheRest'
    BY QueueIsWhatIsAccepted, QueueAfterAStep
  <1> QED  BY <1>1, <1>2, SeqEqual DEF QueueHoldsTheRest

\* A job is in the list of those printed or in the printer's hand, or it is in the
\* queue; a client about to be accepted is in neither.
LEMMA NotSubmittedYet ==
  ASSUME IndInv, AcceptedOnce, NEW c \in Clients, cpc[c] = "advance"
  PROVE  c \notin Q!Listed(QueueInRing)
                    \cup {IF spc \in InHand THEN job ELSE NoJob}
                    \cup Q!Listed(printed)
  <1>1. \A i \in DOMAIN accepted : accepted[i] # c
    BY DEF AcceptedOnce
  <1>2. /\ \A i \in 1 .. Count : QueueInRing[i] = accepted[Taken + i]
        /\ \A i \in 1 .. Count : Taken + i \in DOMAIN accepted
        /\ DOMAIN accepted = 1 .. Taken + Count
        /\ Count \in Nat /\ Taken \in Nat
        /\ DOMAIN QueueInRing = 1 .. Count
    BY QueueIsWhatIsAccepted DEF QueueHoldsTheRest
  <1>3. c \notin Q!Listed(QueueInRing)
    BY <1>1, <1>2 DEF Q!Listed
  <1>4. Len(printed) \in Nat /\ DOMAIN printed = 1 .. Len(printed)
    BY DEF IndInv, TypeOK
  <1>5. c # IF spc \in InHand THEN job ELSE NoJob
    <2>1. ASSUME spc \in InHand
          PROVE  Taken \in DOMAIN accepted /\ job = accepted[Taken]
      BY <1>2, <1>4, <2>1 DEF IndInv, RingHoldsTheJobs, Taken, NServer
    <2>2. c \in Clients /\ NoJob \notin Clients
      BY ClientsAssumption
    <2> QED  BY <1>1, <2>1, <2>2
  <1>6. c \notin Q!Listed(printed)
    <2>1. \A i \in 1 .. Len(printed) : i \in DOMAIN accepted /\ printed[i] = accepted[i]
      BY <1>2, <1>4 DEF IndInv, PrintedInOrder, Taken, NServer
    <2> QED  BY <1>1, <1>4, <2>1 DEF Q!Listed
  <1> QED  BY <1>3, <1>5, <1>6

-----------------------------------------------------------------------------
\* Every step is one of the queue.

\* Moving the tail is the submission of the client's job.
LEMMA AdvanceSubmits ==
  ASSUME IndInv, IndInv', AcceptedOnce, NEW c \in Clients, PushAdvance(c)
  PROVE  Q!Submit(c)
  <1>1. /\ cpc[c] = "advance" /\ accepted' = Append(accepted, c)
        /\ UNCHANGED <<spc, job, printed>>
    BY DEF PushAdvance, ClientAt, server
  <1>2. /\ QueueInRing \in Seq(Clients) /\ Len(QueueInRing) = Count
        /\ \A i \in 1 .. Count : QueueInRing[i] = accepted[Taken + i]
        /\ DOMAIN accepted = 1 .. Taken + Count
        /\ Count \in Nat /\ Taken \in Nat
        /\ QueueInRing' \in Seq(Clients) /\ Len(QueueInRing') = Count'
        /\ \A i \in 1 .. Count' : QueueInRing'[i] = accepted'[Taken' + i]
    BY QueueIsWhatIsAccepted, QueueAfterAStep DEF QueueHoldsTheRest
  <1>3. accepted \in Seq(Clients) /\ Len(accepted) = Taken + Count
    BY AccountedIsSound, CountsAreNumbers DEF IndInv, TypeOK
  <1>4. Taken' = Taken /\ Count' = Count + 1
    <2>1. Taken' = Taken
      BY <1>1 DEF Taken, NServer
    <2>2. Len(accepted') = Len(accepted) + 1
      BY <1>1, <1>3, AppendProperties
    <2> QED  BY <1>2, <1>3, <2>1, <2>2 DEF Count
  <1>5. /\ \A i \in 1 .. Count : accepted'[Taken + i] = accepted[Taken + i]
        /\ accepted'[Taken + (Count + 1)] = c
    BY <1>1, <1>2, <1>3, AppendProperties
  <1>6. QueueInRing' = Append(QueueInRing, c)
    <2>1. /\ Append(QueueInRing, c) \in Seq(Clients)
          /\ Len(Append(QueueInRing, c)) = Count + 1
          /\ \A i \in 1 .. Count : Append(QueueInRing, c)[i] = QueueInRing[i]
          /\ Append(QueueInRing, c)[Count + 1] = c
      BY <1>2, AppendProperties
    <2>2. \A i \in 1 .. Count + 1 : QueueInRing'[i] = Append(QueueInRing, c)[i]
      BY <1>2, <1>4, <1>5, <2>1
    <2> QED  BY <1>2, <1>4, <2>1, <2>2, SeqEqual
  <1>7. Len(QueueInRing) < bufferSize
    BY <1>1, <1>2, InvariantConsequences DEF NoOverrun
  <1>8. UNCHANGED <<IF spc \in InHand THEN job ELSE NoJob, printed>>
    BY <1>1
  <1> QED  BY <1>1, <1>6, <1>7, <1>8, NotSubmittedYet DEF Q!Submit

\* Moving the head is the start of the oldest job.
LEMMA AdvanceStarts ==
  ASSUME IndInv, IndInv', PopAdvance
  PROVE  Q!Start
  <1>1. /\ spc = "advance" /\ spc' = "post_mutex"
        /\ UNCHANGED <<job, accepted, printed>>
    BY DEF PopAdvance, ServerAt
  <1>2. /\ QueueInRing \in Seq(Clients) /\ Len(QueueInRing) = Count
        /\ \A i \in 1 .. Count : QueueInRing[i] = accepted[Taken + i]
        /\ Count \in Nat /\ Taken \in Nat
        /\ QueueInRing' \in Seq(Clients) /\ Len(QueueInRing') = Count'
        /\ \A i \in 1 .. Count' : QueueInRing'[i] = accepted'[Taken' + i]
    BY QueueIsWhatIsAccepted, QueueAfterAStep DEF QueueHoldsTheRest
  <1>3. Count > 0
    BY <1>1, InvariantConsequences DEF NoOverrun
  <1>4. Taken' = Taken + 1 /\ Count' = Count - 1
    <2>1. Len(accepted) \in Nat /\ Len(printed) \in Nat
      BY DEF IndInv, TypeOK
    <2> QED  BY <1>1, <2>1 DEF Taken, Count, NServer, InHand
  <1>5. QueueInRing # <<>>
    BY <1>2, <1>3
  <1>6. Head(QueueInRing) = job
    <2>1. QueueInRing[1] = accepted[Taken + 1]
      BY <1>2, <1>3
    <2>2. job = accepted[Taken + 1]
      BY <1>1 DEF IndInv, RingHoldsTheJobs
    <2> QED  BY <2>1, <2>2
  <1>7. QueueInRing' = Tail(QueueInRing)
    <2>1. /\ Tail(QueueInRing) \in Seq(Clients)
          /\ Len(Tail(QueueInRing)) = Count - 1
          /\ \A i \in 1 .. Count - 1 : Tail(QueueInRing)[i] = QueueInRing[i + 1]
      BY <1>2, <1>5, HeadTailProperties
    <2>2. \A i \in 1 .. Count - 1 : QueueInRing'[i] = QueueInRing[i + 1]
      <3> SUFFICES ASSUME NEW i \in 1 .. Count - 1
                   PROVE  QueueInRing'[i] = QueueInRing[i + 1]
        OBVIOUS
      <3>1. /\ i + 1 \in 1 .. Count /\ (Taken + 1) + i = Taken + (i + 1)
            /\ i \in 1 .. Count'
        BY <1>2, <1>4
      <3>2. QueueInRing'[i] = accepted[(Taken + 1) + i]
        BY <1>1, <1>2, <1>4, <3>1
      <3>3. QueueInRing[i + 1] = accepted[Taken + (i + 1)]
        BY <1>2, <3>1
      <3> QED  BY <3>1, <3>2, <3>3
    <2> QED  BY <1>2, <1>4, <2>1, <2>2, SeqEqual
  <1> QED  BY <1>1, <1>5, <1>6, <1>7 DEF Q!Start, InHand

\* The end of the sleep is the end of the job in hand.
LEMMA SleepFinishes ==
  ASSUME IndInv, IndInv', go_sleep
  PROVE  Q!Finish
  <1>1. /\ spc = "print" /\ spc' = "check" /\ printed' = Append(printed, job)
        /\ UNCHANGED <<job, accepted>>
    BY DEF go_sleep, ServerAt
  <1>2. Taken' = Taken
    <2>1. printed \in Seq(Clients \cup {NoJob}) /\ job \in Clients \cup {NoJob}
      BY DEF IndInv, TypeOK
    <2>2. Len(printed') = Len(printed) + 1 /\ Len(printed) \in Nat
      BY <1>1, <2>1
    <2> QED  BY <1>1, <2>2 DEF Taken, NServer, InHand
  <1>3. QueueInRing' = QueueInRing
    BY <1>1, <1>2, QueueUntouched
  <1>4. job # NoJob
    <2>1. Taken \in DOMAIN accepted
      <3>1. DOMAIN accepted = 1 .. Taken + Count /\ Count \in Nat
        BY QueueIsWhatIsAccepted DEF QueueHoldsTheRest
      <3>2. Taken \in Nat /\ Taken > 0
        BY <1>1 DEF IndInv, TypeOK, Taken, NServer, InHand
      <3> QED  BY <3>1, <3>2
    <2>2. job = accepted[Taken] /\ accepted \in Seq(Clients)
      BY <1>1 DEF IndInv, TypeOK, RingHoldsTheJobs, InHand
    <2>3. accepted[Taken] \in Clients
      BY <2>1, <2>2
    <2> QED  BY <2>2, <2>3, ClientsAssumption
  <1> QED  BY <1>1, <1>3, <1>4 DEF Q!Finish, InHand

\* All other steps happen inside the spooler.
LEMMA OthersStutter ==
  ASSUME IndInv, IndInv', UNCHANGED <<accepted, printed>>,
         \/ UNCHANGED <<spc, job>>
         \/ spc \notin InHand /\ spc' \notin InHand
         \/ spc \in InHand /\ spc' \in InHand /\ UNCHANGED job
  PROVE  UNCHANGED Q!vars
  <1>1. Taken' = Taken
    BY DEF Taken, NServer
  <1>2. QueueInRing' = QueueInRing
    BY <1>1, QueueUntouched
  <1> QED  BY <1>2 DEF Q!vars

\* Every behaviour of the spooler, for any clients and any buffer size, is one
\* of the queue: jobs enter it once each and only while there is room, and
\* leave it from its head, one at a time.
THEOREM SpoolerImplementsQueue == Safety => Q!Safety
  <1>1. Init => Q!Init
    BY DEF Init, Q!Init, QueueInRing, Count, Taken, NServer, InHand
  <1>2. IndInv /\ IndInv' /\ AcceptedOnce /\ [Next]_vars => [Q!Next]_(Q!vars)
    <2> SUFFICES ASSUME IndInv, IndInv', AcceptedOnce, [Next]_vars
                 PROVE  [Q!Next]_(Q!vars)
      OBVIOUS
    <2>1. ASSUME NEW c \in Clients, put_a_job(c), ~PushAdvance(c)
          PROVE  UNCHANGED Q!vars
      <3>1. UNCHANGED <<accepted, printed, spc, job>>
        BY <2>1 DEF put_a_job, PutCheck, PutWaitEmpty, PutWaitMutex, PushStore,
                    PutPostMutex, PutPostFull, server
      <3> QED  BY <3>1, OthersStutter
    <2>2. ASSUME NEW c \in Clients, PushAdvance(c)
          PROVE  Q!Next
      BY <2>2, AdvanceSubmits DEF Q!Next
    <2>3. ASSUME take_a_job, ~PopAdvance
          PROVE  UNCHANGED Q!vars
      <3>1. /\ UNCHANGED <<accepted, printed>>
            /\ \/ spc \notin InHand /\ spc' \notin InHand
               \/ spc \in InHand /\ spc' \in InHand /\ UNCHANGED job
        BY <2>3 DEF take_a_job, TakeCheck, TakeWaitFull, TakeWaitMutex, PopRead,
                    TakePostMutex, TakePostEmpty, ServerAt, InHand
      <3> QED  BY <3>1, OthersStutter
    <2>4. CASE PopAdvance
      BY <2>4, AdvanceStarts DEF Q!Next
    <2>5. CASE go_sleep
      BY <2>5, SleepFinishes DEF Q!Next
    <2>6. CASE UNCHANGED vars
      <3>1. UNCHANGED <<accepted, printed, spc, job>>
        BY <2>6 DEF vars, server
      <3> QED  BY <3>1, OthersStutter
    <2> QED  BY <2>1, <2>2, <2>3, <2>4, <2>5, <2>6 DEF Next, Printer
  <1> QED  BY <1>1, <1>2, SpoolerInvariant, SpoolerAcceptsOnce, PTL
           DEF Safety, Q!Safety
=============================================================================
