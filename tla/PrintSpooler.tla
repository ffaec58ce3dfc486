---------------------------- MODULE PrintSpooler ----------------------------
(***************************************************************************)
(* The print spooler of assignment 2: one printer process                  *)
(* (assignment-2-server.c) and any number of client processes              *)
(* (assignment-2-client.c) that share a ring buffer of print jobs, guarded *)
(* by the POSIX semaphores mutex, empty and full.                          *)
(*                                                                         *)
(* Every process moves by the steps another process can observe: each      *)
(* semaphore call is a step, and so is each of the two memory accesses of  *)
(* pushFifoBuffer and popFifoBuffer, so that the steps of two processes    *)
(* interleave inside the critical sections unless the mutex keeps them     *)
(* apart.  A client runs put_a_job once and exits; the printer runs        *)
(* take_a_job and go_sleep for ever.                                       *)
(*                                                                         *)
(* A print job is the client that submits it: the id, the pages and the    *)
(* duration are data the program copies and never decides on.  The server  *)
(* has booted (attach_shared_mem and init_semaphore have returned) before  *)
(* the first client attaches, as test-solution.sh sees to;                 *)
(* SpoolerLifecycle models the other cases.                                *)
(***************************************************************************)
EXTENDS Integers, Sequences, FiniteSets

CONSTANTS Clients,          \* the client processes
          MAX_BUFFER_SIZE,  \* the length of the array of jobs
          bufferSize,       \* the server's argument: the slots in use
          NoJob             \* the zeroed record an unused slot holds

\* main rejects a bufferSize outside 0..MAX_BUFFER_SIZE.
ASSUME SizeAssumption == /\ MAX_BUFFER_SIZE \in Nat
                         /\ bufferSize \in 0 .. MAX_BUFFER_SIZE
ASSUME ClientsAssumption == IsFiniteSet(Clients) /\ NoJob \notin Clients

VARIABLES elements, headIndex, tailIndex,  \* sharedMemory->buffer
          mutex, empty, full,              \* sharedMemory's semaphores
          cpc, didWait,                    \* where each client is, its local
          spc, job, announced,             \* where the printer is, its local,
                                           \* and whether it said it sleeps
          accepted, printed                \* history: the jobs put in the
                                           \* buffer and those printed, in order

buffer    == <<elements, headIndex, tailIndex>>
semaphore == <<mutex, empty, full>>
client    == <<cpc, didWait>>
server    == <<spc, job, announced>>
vars      == <<buffer, semaphore, client, server, accepted, printed>>

Slots == 0 .. MAX_BUFFER_SIZE - 1

ClientLabels == {"check", "wait_empty", "wait_mutex", "store", "advance",
                 "post_mutex", "post_full", "done"}
ServerLabels == {"check", "wait_full", "wait_mutex", "read", "advance",
                 "post_mutex", "post_empty", "print"}

-----------------------------------------------------------------------------
\* The semaphore calls.  A process blocked in sem_wait is one whose step is
\* not enabled; nothing is assumed on the order in which waiters are woken.

sem_wait(s) == s > 0 /\ s' = s - 1
sem_post(s) == s' = s + 1

\* The value is sampled: nothing keeps it until the caller uses the answer.
willSemaphoreWait_OffByOne(s) == s < 0
willSemaphoreWait(s) == s < 1

\* The index after i: (index + 1) % buffer->size.
Following_NoWrap(i) == i + 1
Following(i) == (i + 1) % bufferSize

\* attach_shared_mem resets the buffer, then init_semaphore the semaphores.
Init == /\ elements = [i \in Slots |-> NoJob]
        /\ headIndex = 0
        /\ tailIndex = 0
        /\ mutex = 1
        /\ empty = bufferSize
        /\ full = 0
        /\ cpc = [c \in Clients |-> "check"]
        /\ didWait = [c \in Clients |-> FALSE]
        /\ spc = "check"
        /\ job = NoJob
        /\ announced = FALSE
        /\ accepted = <<>>
        /\ printed = <<>>

-----------------------------------------------------------------------------
\* A client: put_a_job.

ClientAt(c, here, there) == cpc[c] = here /\ cpc' = [cpc EXCEPT ![c] = there]

PutCheck(c) == /\ ClientAt(c, "check", "wait_empty")
               /\ didWait' = [didWait EXCEPT ![c] = willSemaphoreWait(empty)]
               /\ UNCHANGED <<buffer, semaphore, server, accepted, printed>>

PutWaitEmpty_Unguarded(c) ==
    /\ ClientAt(c, "wait_empty", "wait_mutex")
    /\ empty' = IF empty > 0 THEN empty - 1 ELSE 0
    /\ UNCHANGED <<buffer, mutex, full, didWait, server, accepted, printed>>

PutWaitEmpty_GivesUp(c) ==
    /\ ClientAt(c, "wait_empty", IF empty > 0 THEN "wait_mutex" ELSE "done")
    /\ empty' = IF empty > 0 THEN empty - 1 ELSE 0
    /\ UNCHANGED <<buffer, mutex, full, didWait, server, accepted, printed>>

PutWaitEmpty(c) ==
    /\ ClientAt(c, "wait_empty", "wait_mutex")
    /\ sem_wait(empty)
    /\ UNCHANGED <<buffer, mutex, full, didWait, server, accepted, printed>>

PutWaitMutex_Unguarded(c) ==
    /\ ClientAt(c, "wait_mutex", "store")
    /\ mutex' = IF mutex > 0 THEN mutex - 1 ELSE 0
    /\ UNCHANGED <<buffer, empty, full, didWait, server, accepted, printed>>

PutWaitMutex(c) ==
    /\ ClientAt(c, "wait_mutex", "store")
    /\ sem_wait(mutex)
    /\ UNCHANGED <<buffer, empty, full, didWait, server, accepted, printed>>

\* pushFifoBuffer writes the job at the tail, then moves the tail.
PushStore(c) ==
    /\ ClientAt(c, "store", "advance")
    /\ elements' = [elements EXCEPT ![tailIndex] = c]
    /\ UNCHANGED <<headIndex, tailIndex, semaphore, didWait, server,
                   accepted, printed>>

PushAdvance(c) ==
    /\ ClientAt(c, "advance", "post_mutex")
    /\ tailIndex' = Following(tailIndex)
    /\ accepted' = Append(accepted, c)
    /\ UNCHANGED <<elements, headIndex, semaphore, didWait, server, printed>>

PutPostMutex(c) ==
    /\ ClientAt(c, "post_mutex", "post_full")
    /\ sem_post(mutex)
    /\ UNCHANGED <<buffer, empty, full, didWait, server, accepted, printed>>

PutPostFull_Dropped(c) ==
    /\ ClientAt(c, "post_full", "done")
    /\ UNCHANGED <<buffer, semaphore, didWait, server, accepted, printed>>

\* The client then detaches the segment and exits.
PutPostFull(c) ==
    /\ ClientAt(c, "post_full", "done")
    /\ sem_post(full)
    /\ UNCHANGED <<buffer, mutex, empty, didWait, server, accepted, printed>>

put_a_job(c) == \/ PutCheck(c) \/ PutWaitEmpty(c) \/ PutWaitMutex(c)
                \/ PushStore(c) \/ PushAdvance(c)
                \/ PutPostMutex(c) \/ PutPostFull(c)

-----------------------------------------------------------------------------
\* The printer: take_a_job, then go_sleep.

ServerAt(here, there) == spc = here /\ spc' = there

TakeCheck == /\ ServerAt("check", "wait_full")
             /\ announced' = willSemaphoreWait(full)
             /\ UNCHANGED <<buffer, semaphore, client, job, accepted, printed>>

TakeWaitFull ==
    /\ ServerAt("wait_full", "wait_mutex")
    /\ sem_wait(full)
    /\ UNCHANGED <<buffer, mutex, empty, client, job, announced,
                   accepted, printed>>

TakeWaitMutex ==
    /\ ServerAt("wait_mutex", "read")
    /\ sem_wait(mutex)
    /\ UNCHANGED <<buffer, empty, full, client, job, announced,
                   accepted, printed>>

PopRead_AtTail ==
    /\ ServerAt("read", "advance")
    /\ job' = elements[tailIndex]
    /\ UNCHANGED <<buffer, semaphore, client, announced, accepted, printed>>

\* popFifoBuffer reads the job at the head, then moves the head.
PopRead ==
    /\ ServerAt("read", "advance")
    /\ job' = elements[headIndex]
    /\ UNCHANGED <<buffer, semaphore, client, announced, accepted, printed>>

PopAdvance ==
    /\ ServerAt("advance", "post_mutex")
    /\ headIndex' = Following(headIndex)
    /\ UNCHANGED <<elements, tailIndex, semaphore, client, job, announced,
                   accepted, printed>>

TakePostMutex ==
    /\ ServerAt("post_mutex", "post_empty")
    /\ sem_post(mutex)
    /\ UNCHANGED <<buffer, empty, full, client, job, announced,
                   accepted, printed>>

TakePostEmpty_Dropped ==
    /\ ServerAt("post_empty", "print")
    /\ UNCHANGED <<buffer, semaphore, client, job, announced,
                   accepted, printed>>

TakePostEmpty ==
    /\ ServerAt("post_empty", "print")
    /\ sem_post(empty)
    /\ UNCHANGED <<buffer, mutex, full, client, job, announced,
                   accepted, printed>>

\* The printer sleeps for the job's duration, from the "starts printing" line
\* to the "finishes printing" line; the main loop comes round again.
go_sleep == /\ ServerAt("print", "check")
            /\ printed' = Append(printed, job)
            /\ UNCHANGED <<buffer, semaphore, client, job, announced, accepted>>

take_a_job == \/ TakeCheck \/ TakeWaitFull \/ TakeWaitMutex
              \/ PopRead \/ PopAdvance \/ TakePostMutex \/ TakePostEmpty

-----------------------------------------------------------------------------
Printer == take_a_job \/ go_sleep

Next == \/ \E c \in Clients : put_a_job(c)
        \/ Printer

\* The scheduler runs every process that can run: weak fairness for each.
\* sem_wait promises no order among its waiters and none is assumed.
Fairness == /\ \A c \in Clients : WF_vars(put_a_job(c))
            /\ WF_vars(Printer)

Safety == Init /\ [][Next]_vars
Spec   == Safety /\ Fairness

-----------------------------------------------------------------------------
\* Vocabulary for the properties.

TypeOK == /\ elements \in [Slots -> Clients \cup {NoJob}]
          /\ headIndex \in Nat /\ (bufferSize > 0 => headIndex < bufferSize)
          /\ tailIndex \in Nat /\ (bufferSize > 0 => tailIndex < bufferSize)
          /\ mutex \in Nat /\ empty \in Nat /\ full \in Nat
          /\ cpc \in [Clients -> ClientLabels]
          /\ didWait \in [Clients -> BOOLEAN]
          /\ spc \in ServerLabels
          /\ job \in Clients \cup {NoJob}
          /\ announced \in BOOLEAN
          /\ accepted \in Seq(Clients)
          /\ printed \in Seq(Clients \cup {NoJob})

\* Where a process is between its sem_wait(mutex) and its sem_post(mutex).
ClientInside == {"store", "advance", "post_mutex"}
ServerInside == {"read", "advance", "post_mutex"}

\* Where a client has claimed a slot it has not filled, and where it has
\* filled one and not announced it.
Claiming   == {"wait_mutex", "store", "advance"}
Announcing == {"post_mutex", "post_full"}

\* Where the printer has claimed a job it has not taken, where it has emptied
\* a slot it has not given back, and where it has a job in hand.
Fetching  == {"wait_mutex", "read", "advance"}
Returning == {"post_mutex", "post_empty"}
InHand    == {"post_mutex", "post_empty", "print"}

ClientsAt(labels) == {c \in Clients : cpc[c] \in labels}
NClients(labels)  == Cardinality(ClientsAt(labels))
NServer(labels)   == IF spc \in labels THEN 1 ELSE 0

\* How many jobs have left the buffer, and how many are in it.
Taken == Len(printed) + NServer(InHand)
Count == Len(accepted) - Taken

\* The slot i places after the head, round the ring.
SlotOf(i) == IF headIndex + i < bufferSize THEN headIndex + i
                                           ELSE headIndex + i - bufferSize

-----------------------------------------------------------------------------
\* Properties.

\* At most one process is between its sem_wait(mutex) and its
\* sem_post(mutex): "This operation must happen in a mutex"
\* (fifo_buffer_ops.h), although that file takes none.
MutualExclusion ==
    /\ \A c, d \in ClientsAt(ClientInside) : c = d
    /\ spc \in ServerInside => ClientsAt(ClientInside) = {}

\* A client about to store finds a slot whose job the printer has taken, and
\* a printer about to read finds a job it has not taken: the two counting
\* semaphores keep head and tail from passing one another.
NoOverrun ==
    /\ \A c \in Clients : cpc[c] \in {"store", "advance"} => Count < bufferSize
    /\ spc \in {"read", "advance"} => Count > 0

\* Jobs are printed in the order in which clients put them in the buffer,
\* each once, none lost and none made up: what the printer has printed is the
\* beginning of what it was given.
PrintedInOrder ==
    /\ Len(printed) <= Len(accepted)
    /\ \A i \in 1 .. Len(printed) : printed[i] = accepted[i]

\* A client's job is in the buffer's history once, and from the moment the client
\* has moved the tail: no job is put in twice, and no client goes on without
\* having put its job in.
AcceptedOnce ==
    /\ \A i, j \in DOMAIN accepted : accepted[i] = accepted[j] => i = j
    /\ \A c \in Clients :
          cpc[c] \in {"post_mutex", "post_full", "done"}
              <=> \E i \in DOMAIN accepted : accepted[i] = c

\* No token is ever lost: when no process can take a step, every client has
\* put its job in the buffer, the printer has printed them all, and it waits
\* for the next one.
ClientBlocked(c) == \/ cpc[c] = "done"
                    \/ cpc[c] = "wait_empty" /\ empty = 0
                    \/ cpc[c] = "wait_mutex" /\ mutex = 0
ServerBlocked == \/ spc = "wait_full" /\ full = 0
                 \/ spc = "wait_mutex" /\ mutex = 0
StopsOnlyWhenDone ==
    (bufferSize > 0 /\ ServerBlocked /\ \A c \in Clients : ClientBlocked(c))
        => /\ \A c \in Clients : cpc[c] = "done"
           /\ Len(printed) = Len(accepted)
           /\ spc = "wait_full"

\* If the printer did not announce that it sleeps, it does not block: it is
\* the only process that takes from full, so the value it sampled can only
\* have grown.  (A client has no such guarantee: another
\* client may take the last slot after it looked.)
QuietPrinterNeverBlocks == spc = "wait_full" /\ ~announced => full > 0

\* Every job is printed in the end, whatever the interleaving.
EveryJobIsPrinted ==
    \A c \in Clients : <>(\E i \in DOMAIN printed : printed[i] = c)

-----------------------------------------------------------------------------
\* The inductive invariant behind the properties above.

\* Every semaphore token is accounted for: the mutex is free or one process
\* is inside; a slot is free, claimed by a client, holds a job, or is about to
\* be given back; a job in the buffer is announced by full, about to be, or
\* claimed by the printer.
InTheMutex == NClients(ClientInside) + NServer(ServerInside)
Occupied   == NClients(Claiming) + Count + NServer(Returning)
InTransit  == NClients(Announcing) + NServer(Fetching)
TokensAccountedFor == /\ mutex + InTheMutex = 1
                      /\ empty + Occupied = bufferSize
                      /\ full + InTransit = Count

\* The ring holds, from the head on, the jobs accepted and not yet taken.
RingHoldsTheJobs ==
    /\ Count \in 0 .. bufferSize
    /\ bufferSize > 0 => tailIndex = SlotOf(Count)
    /\ \A i \in 0 .. Count - 1 : elements[SlotOf(i)] = accepted[Taken + 1 + i]
    /\ \A c \in Clients : cpc[c] = "advance" => elements[tailIndex] = c
    /\ spc = "advance" => job = accepted[Taken + 1]
    /\ spc \in InHand => job = accepted[Taken]

IndInv == /\ TypeOK
          /\ TokensAccountedFor
          /\ RingHoldsTheJobs
          /\ PrintedInOrder

\* What is left of it when a token may be lost with the process that held it:
\* none is ever made up.
NoTokenMadeUp == /\ mutex + InTheMutex <= 1
                 /\ empty + Occupied <= bufferSize
                 /\ full + InTransit <= Count
SoundInv == /\ TypeOK
            /\ NoTokenMadeUp
            /\ RingHoldsTheJobs
            /\ PrintedInOrder

-----------------------------------------------------------------------------
\* The spooler implements the queue of SpoolQueue: the jobs in the ring are
\* the queue, and the moves of tail and head are the steps that change it.
QueueInRing == [i \in 1 .. Count |-> elements[SlotOf(i - 1)]]
Q == INSTANCE SpoolQueue WITH
         Capacity <- bufferSize,
         queue    <- QueueInRing,
         active   <- IF spc \in InHand THEN job ELSE NoJob
\* Every behaviour of the spooler is one of the queue, progress included.
ImplementsQueue == Q!Spec
=============================================================================
