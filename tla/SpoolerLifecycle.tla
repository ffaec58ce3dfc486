-------------------------- MODULE SpoolerLifecycle --------------------------
(***************************************************************************)
(* The print spooler when processes come and go: the shared segment is     *)
(* made by the first server and outlives it (nothing removes it), a server *)
(* boots in several steps, clients attach at any moment after the segment  *)
(* exists, and any process may be killed (neither program handles a        *)
(* signal).  Between these events the processes do what PrintSpooler says. *)
(*                                                                         *)
(* A server is restarted with the bufferSize it had.  A segment is created *)
(* full of zeroes, in which sem_wait blocks.  Initialising a semaphore on  *)
(* which a process waits is undefined: the waiter may never be woken.      *)
(***************************************************************************)
EXTENDS PrintSpooler

CONSTANT MaxBoots  \* bound: how many times the server is started
ASSUME BootsAssumption == MaxBoots \in Nat

VARIABLES segment,   \* the shared segment exists
          phase,     \* what the server process is about to do
          boots,     \* how many servers have been started
          attached,  \* the clients that found the segment
          refused,   \* the clients that did not, and gave up
          killed,    \* the clients killed after they attached
          lost,      \* the clients asleep on a semaphore made anew
          dirty      \* history: a client used the segment while this server
                     \* was resetting it

life     == <<segment, phase, boots, attached, refused, killed, lost, dirty>>
lifeVars == <<vars, life>>
memory   == <<buffer, semaphore>>

Phases == {"off", "attach", "mutex", "empty", "full", "run", "killed"}

Using(c) == c \in attached \ killed /\ cpc[c] # "done"

LifeInit == /\ elements = [i \in Slots |-> NoJob]
            /\ headIndex = 0 /\ tailIndex = 0
            /\ mutex = 0 /\ empty = 0 /\ full = 0
            /\ cpc = [c \in Clients |-> "check"]
            /\ didWait = [c \in Clients |-> FALSE]
            /\ spc = "check" /\ job = NoJob /\ announced = FALSE
            /\ accepted = <<>> /\ printed = <<>>
            /\ segment = FALSE /\ phase = "off" /\ boots = 0
            /\ attached = {} /\ refused = {} /\ killed = {} /\ lost = {}
            /\ dirty = FALSE

-----------------------------------------------------------------------------
\* The server boots.

\* shmget with IPC_CREAT: the segment of an earlier server is found again.
setup_shared_mem ==
    /\ phase \in {"off", "killed"} /\ boots < MaxBoots
    /\ phase' = "attach" /\ boots' = boots + 1 /\ segment' = TRUE
    /\ spc' = "check" /\ job' = NoJob /\ announced' = FALSE
    /\ dirty' = FALSE
    /\ UNCHANGED <<memory, client, accepted, printed, attached, refused,
                   killed, lost>>

\* A step of the boot that overwrites part of the segment.
Boot(here, there) ==
    /\ phase = here /\ phase' = there
    /\ dirty' = (dirty \/ \E c \in Clients : Using(c))
    /\ UNCHANGED <<server, didWait, segment, boots, attached, refused, killed>>

attach_shared_mem_KeepsTail ==
    /\ Boot("attach", "mutex")
    /\ elements' = [i \in Slots |-> NoJob]
    /\ headIndex' = 0 /\ UNCHANGED tailIndex
    /\ accepted' = <<>> /\ printed' = <<>>
    /\ cpc' = [c \in Clients |-> IF c \in killed THEN "done" ELSE cpc[c]]
    /\ UNCHANGED <<semaphore, lost>>

\* The jobs in the buffer are gone; what a killed client held no longer counts.
attach_shared_mem ==
    /\ Boot("attach", "mutex")
    /\ elements' = [i \in Slots |-> NoJob]
    /\ headIndex' = 0 /\ tailIndex' = 0
    /\ accepted' = <<>> /\ printed' = <<>>
    /\ cpc' = [c \in Clients |-> IF c \in killed THEN "done" ELSE cpc[c]]
    /\ UNCHANGED <<semaphore, lost>>

\* sem_destroy and sem_init of a semaphore with this value: of the clients
\* that wait on it, some are never woken.
Reinit(value, label) ==
    \E asleep \in SUBSET {c \in Clients : /\ Using(c) /\ cpc[c] = label
                                          /\ value = 0} :
        lost' = lost \cup asleep

InitMutex_Counting ==
    /\ Boot("mutex", "empty")
    /\ mutex' = bufferSize /\ Reinit(mutex, "wait_mutex")
    /\ UNCHANGED <<buffer, empty, full, cpc, accepted, printed>>

InitMutex_Locked ==
    /\ Boot("mutex", "empty")
    /\ mutex' = 0 /\ Reinit(mutex, "wait_mutex")
    /\ UNCHANGED <<buffer, empty, full, cpc, accepted, printed>>

InitMutex == /\ Boot("mutex", "empty")
             /\ mutex' = 1 /\ Reinit(mutex, "wait_mutex")
             /\ UNCHANGED <<buffer, empty, full, cpc, accepted, printed>>

InitEmpty == /\ Boot("empty", "full")
             /\ empty' = bufferSize /\ Reinit(empty, "wait_empty")
             /\ UNCHANGED <<buffer, mutex, full, cpc, accepted, printed>>

InitFull_Swapped == /\ Boot("full", "run")
                    /\ full' = bufferSize
                    /\ UNCHANGED <<buffer, mutex, empty, cpc, lost, accepted,
                                   printed>>

InitFull == /\ Boot("full", "run")
            /\ full' = 0
            /\ UNCHANGED <<buffer, mutex, empty, cpc, lost, accepted, printed>>

init_semaphore == InitMutex \/ InitEmpty \/ InitFull

-----------------------------------------------------------------------------
\* Clients attach; processes are killed.

\* "Cannot start client": only a segment that was never made stops a client.
attach_share_mem(c) ==
    /\ c \notin attached \cup refused
    /\ IF segment THEN attached' = attached \cup {c} /\ UNCHANGED refused
                  ELSE refused' = refused \cup {c} /\ UNCHANGED attached
    /\ UNCHANGED <<vars, segment, phase, boots, killed, lost, dirty>>

KillClient(c) == /\ Using(c)
                 /\ killed' = killed \cup {c}
                 /\ UNCHANGED <<vars, segment, phase, boots, attached, refused,
                                lost, dirty>>

\* A server killed while it boots leaves the segment as it is.
KillServer == /\ phase \notin {"off", "killed"}
              /\ phase' = IF phase = "run" THEN "killed" ELSE "off"
              /\ UNCHANGED <<vars, segment, boots, attached, refused, killed,
                             lost, dirty>>

ClientRuns(c) ==
    /\ Using(c) /\ c \notin lost
    /\ put_a_job(c)
    /\ dirty' = (dirty \/ phase \in {"mutex", "empty", "full"})
    /\ UNCHANGED <<segment, phase, boots, attached, refused, killed, lost>>
ServerRuns    == phase = "run" /\ Printer /\ UNCHANGED life
Boots         == attach_shared_mem \/ init_semaphore

LifeNext == \/ setup_shared_mem \/ Boots
            \/ KillServer
            \/ ServerRuns
            \/ \E c \in Clients : \/ attach_share_mem(c)
                                  \/ KillClient(c)
                                  \/ ClientRuns(c)

\* Who starts or kills a process is not part of the system: no fairness there.
LifeSpec == /\ LifeInit /\ [][LifeNext]_lifeVars
            /\ WF_lifeVars(Boots)
            /\ WF_lifeVars(ServerRuns)
            /\ \A c \in Clients : WF_lifeVars(ClientRuns(c))

-----------------------------------------------------------------------------
\* Properties.

LifeTypeOK == /\ TypeOK
              /\ segment \in BOOLEAN /\ dirty \in BOOLEAN
              /\ phase \in Phases /\ boots \in 0 .. MaxBoots
              /\ attached \subseteq Clients /\ refused \subseteq Clients
              /\ attached \cap refused = {}
              /\ killed \subseteq attached /\ lost \subseteq attached

\* A server that resets the segment while nobody uses it finds it as the first
\* server did: from then on every token is accounted for, whoever was killed
\* before, and whoever is killed later takes only his own tokens with him.
CleanBootIsSound == phase \in {"run", "killed"} /\ ~dirty => IndInv

\* As long as the server is not restarted, neither a client that attaches
\* while it boots nor a kill at any point lets two processes in the critical
\* section, lets head and tail pass one another, or makes the printer take a
\* job that was not put in the buffer.
FirstServerIsSafe == boots <= 1 => MutualExclusion /\ NoOverrun /\ PrintedInOrder

\* The boot may wipe out the announcement of a job put in the buffer during
\* it, but announces none that is not there.
NoPhantomJob == boots <= 1 => full + InTransit <= Count

\* A client is served, unless someone was killed or the server found the
\* segment in use when it booted.
Disturbed == dirty \/ killed # {} \/ phase # "run"
ServedUnlessDisturbed ==
    \A c \in Clients : Using(c) ~> (cpc[c] = "done" \/ Disturbed)

-----------------------------------------------------------------------------
\* The inductive invariant behind the safety properties.

\* Where a client is that never got a slot, or has left.
Early == {"check", "wait_empty", "done"}

\* With no slot in use no token is ever posted, and nobody gets past its first
\* sem_wait: the indices are never moved.
NoSlotNoJob ==
    bufferSize = 0 => /\ empty = 0 /\ full = 0
                      /\ \A c \in Clients : cpc[c] \in Early
                      /\ spc \in {"check", "wait_full"}

\* Nobody has put a job in the buffer or taken one out since it was reset.
AtRest == /\ \A c \in Clients : cpc[c] \in Early
          /\ headIndex = 0 /\ tailIndex = 0
          /\ spc = "check" /\ job = NoJob
          /\ accepted = <<>> /\ printed = <<>>

\* The first server finds the segment full of zeroes, in which nobody gets a
\* slot; from then on tokens are lost at most, with those who held them.
FirstBoot ==
    boots <= 1 =>
       /\ SoundInv
       /\ boots = 0 => phase = "off"
       /\ boots = 0 \/ phase \in {"attach", "mutex", "empty"} =>
             AtRest /\ empty = 0 /\ full = 0
       /\ boots = 0 \/ phase \in {"attach", "mutex"} => mutex = 0

\* A boot that nobody disturbs brings the spooler to its initial state.
CleanBoot ==
    /\ \A c \in Clients \ attached : cpc[c] = "check"
    /\ phase = "attach" => spc = "check" /\ job = NoJob
    /\ ~dirty => /\ phase \in {"mutex", "empty", "full"} => AtRest
                 /\ phase \in {"empty", "full"} => mutex = 1
                 /\ phase = "full" => empty = bufferSize
                 /\ phase \in {"run", "killed"} => IndInv

LifeInv == LifeTypeOK /\ NoSlotNoJob /\ FirstBoot /\ CleanBoot
=============================================================================
