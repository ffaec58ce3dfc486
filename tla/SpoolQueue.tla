----------------------------- MODULE SpoolQueue -----------------------------
(***************************************************************************)
(* What the print spooler promises, with the shared memory, the ring       *)
(* buffer and the semaphores left out: a bounded first-in first-out queue  *)
(* of print jobs, a printer that works on one job at a time, and the list  *)
(* of the jobs it has finished.  A job is named by the client that         *)
(* submits it; every client submits one.                                   *)
(***************************************************************************)
EXTENDS Integers, Sequences

CONSTANTS Clients,   \* the clients, each with the one job it submits
          Capacity,  \* how many jobs may wait
          NoJob      \* the printer is not working on a job

VARIABLES queue,     \* the jobs waiting, oldest first
          active,    \* the job being printed, or NoJob
          printed    \* the jobs printed, in the order they were finished

vars == <<queue, active, printed>>

Listed(seq) == {seq[i] : i \in DOMAIN seq}

Init == /\ queue = <<>>
        /\ active = NoJob
        /\ printed = <<>>

\* A client's job enters the queue, once and only when there is room.
Submit(c) == /\ Len(queue) < Capacity
             /\ c \notin Listed(queue) \cup {active} \cup Listed(printed)
             /\ queue' = Append(queue, c)
             /\ UNCHANGED <<active, printed>>

\* The printer starts on the oldest job.
Start == /\ active = NoJob
         /\ queue # <<>>
         /\ active' = Head(queue)
         /\ queue' = Tail(queue)
         /\ UNCHANGED printed

\* The printer finishes the job it is working on.
Finish == /\ active # NoJob
          /\ printed' = Append(printed, active)
          /\ active' = NoJob
          /\ UNCHANGED queue

Next == \/ \E c \in Clients : Submit(c)
        \/ Start
        \/ Finish

Safety == Init /\ [][Next]_vars

\* No client waits for ever and the printer never stops while a job waits.
Spec == /\ Safety
        /\ \A c \in Clients : WF_vars(Submit(c))
        /\ WF_vars(Start)
        /\ WF_vars(Finish)
=============================================================================
