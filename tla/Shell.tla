-------------------------------- MODULE Shell --------------------------------
(***************************************************************************)
(* The shell of assignment 1 (oscode.c): its ring of past commands, the r  *)
(* command that runs one of them again, its list of background jobs, and   *)
(* the child processes it forks and waits for, which run, stop, go on and  *)
(* end between any two of its system calls.                                *)
(*                                                                         *)
(* A command is its first word, which stands for its first letter too, and *)
(* whether its arguments are still there.  pwd changes nothing, as a cd    *)
(* that succeeds; history only prints.  A child whose execvp fails goes on *)
(* as a second shell on the same terminal: it has copies of the lists and  *)
(* children of its own, and is modelled as the process it is for the first *)
(* shell.  The pid of a child that was reaped may be given out again.      *)
(* Empty lines and lines longer than the buffers are left out.             *)
(***************************************************************************)
EXTENDS Integers, Sequences

CONSTANTS Words,               \* the first words of the lines users type
          Pids,                \* the pids the kernel gives to children
          HISTORY_SIZE,
          PROCESS_LIST_SIZE

ASSUME SizesAssumption == /\ HISTORY_SIZE \in Nat \ {0}
                          /\ PROCESS_LIST_SIZE \in Nat \ {0}
                          /\ Pids \cap {0, -1} = {}
                          /\ Words \cap {"", "r"} = {}

VARIABLES commands, index, totalCount, \* command_history
          pids, jobsIndex,             \* jobs
          pc,                          \* what the shell is doing,
          running, bg, save,           \* the command, whether it had an &, and
                                       \* whether it goes into the history,
          waitsFor, slot,              \* and what it waits for or looks at
          process,                     \* the kernel: the state of every pid
          recent,      \* history: the latest commands, the newest first
          background,  \* history: the children started with an &, and
          dropped,     \* those of them whose entry made room for another or
                       \* was removed while they were stopped
          due          \* history: the dead that jobs has to remove

history == <<commands, index, totalCount, recent>>
jobs    == <<pids, jobsIndex>>
control == <<pc, running, bg, save, waitsFor, slot, due>>
kernel  == <<process, background, dropped>>
vars    == <<history, jobs, control, kernel>>

modular_increment(i, size) == (i + size + 1) % size
modular_decriment_Past(i, size) == (i + size) % (size + 1)
modular_decriment(i, size) == (i + size - 1) % size

Ring == 0 .. HISTORY_SIZE - 1
Jobs == 0 .. PROCESS_LIST_SIZE - 1

NULL == [word |-> "", whole |-> FALSE]
Junk == [word |-> "?", whole |-> FALSE]  \* what free and malloc left of a string
Typed(word) == [word |-> word, whole |-> TRUE]

Builtin  == {"cd", "fg", "jobs"}
Programs == (Words \cup {"r", Junk.word}) \ Builtin

\* What parseCmd leaves of the string it takes apart: the first word.  Whether
\* others are there matters to fg only: chdir may fail in any case.
Cut(command) == IF command.word = "fg" THEN [command EXCEPT !.whole = FALSE]
                                       ELSE command

Init == /\ commands = [i \in Ring |-> NULL] /\ index = 0 /\ totalCount = 0
        /\ pids = [i \in Jobs |-> 0] /\ jobsIndex = 0
        /\ pc = "prompt" /\ running = NULL /\ bg = FALSE /\ save = FALSE
        /\ waitsFor = 0 /\ slot = 0 /\ due = {}
        /\ process = [p \in Pids |-> "free"]
        /\ recent = <<>> /\ background = {} /\ dropped = {}

-----------------------------------------------------------------------------
\* The history.

Latest(list) == SubSeq(list, 1, IF Len(list) < HISTORY_SIZE THEN Len(list)
                                                            ELSE HISTORY_SIZE)

command_buffer_push_InPlace(ring, command) ==
    /\ index' = IF totalCount = 0 THEN modular_decriment(index, HISTORY_SIZE) ELSE index
    /\ commands' = [ring EXCEPT ![index'] = command]
    /\ totalCount' = IF totalCount < HISTORY_SIZE THEN totalCount + 1 ELSE totalCount

\* Onto a ring.  The total is counted up to HISTORY_SIZE, past which it is only
\* printed.
command_buffer_push(ring, command) ==
    /\ index' = modular_decriment(index, HISTORY_SIZE)
    /\ commands' = [ring EXCEPT ![index'] = command]
    /\ totalCount' = IF totalCount < HISTORY_SIZE THEN totalCount + 1 ELSE totalCount

\* The spots are tried from the newest command on and then backwards, which is
\* from the oldest one on: the first that begins with the letter.
Scanned_OldestFirst ==
    [i \in 1 .. HISTORY_SIZE |-> (index + HISTORY_SIZE - i) % HISTORY_SIZE]
Scanned == [i \in 1 .. HISTORY_SIZE |-> (index + HISTORY_SIZE - (i - 1)) % HISTORY_SIZE]
Hits(letter) == {i \in 1 .. HISTORY_SIZE : commands[Scanned[i]].word = letter}
command_buffer_scan(letter) ==
    Scanned[CHOOSE i \in Hits(letter) : \A j \in Hits(letter) : i <= j]

\* The command has been executed.
Finish(saves) ==
    /\ pc' = "prompt" /\ running' = NULL /\ bg' = FALSE /\ save' = FALSE
    /\ waitsFor' = 0 /\ slot' = 0 /\ due' = {}
    /\ IF saves THEN /\ command_buffer_push(commands, running)
                     /\ recent' = Latest(<<running>> \o recent)
                ELSE UNCHANGED history

-----------------------------------------------------------------------------
\* A line is read.

\* The lists are gone with the shell, and its children are another process's.
exit == /\ pc = "prompt" /\ pc' = "gone"
        /\ commands' = [i \in Ring |-> NULL] /\ index' = 0 /\ totalCount' = 0
        /\ pids' = [i \in Jobs |-> 0] /\ jobsIndex' = 0
        /\ process' = [p \in Pids |-> "free"]
        /\ recent' = <<>> /\ background' = {} /\ dropped' = {}
        /\ UNCHANGED <<running, bg, save, waitsFor, slot, due>>

Begin(command, ampersand, saves) ==
    /\ pc = "prompt" /\ pc' = "execute"
    /\ running' = command /\ save' = saves
    /\ bg' = (ampersand /\ command.word \notin Builtin)  \* nothing else looks at it
    /\ UNCHANGED <<jobs, kernel, waitsFor, slot, due>>

getcmd(word, ampersand) == Begin(Typed(word), ampersand, TRUE) /\ UNCHANGED history

\* No letter, or none of that letter: r itself is run, as a program.
r_Fails(letter, ampersand) == /\ Hits(letter) = {}
                              /\ Begin(Typed("r"), ampersand, FALSE)
                              /\ UNCHANGED history

\* The string found is pushed, and then taken apart where it is.
r_Runs(letter, ampersand) ==
    LET found   == command_buffer_scan(letter)
        command == commands[found]
        age     == ((found + HISTORY_SIZE - index) % HISTORY_SIZE) + 1
    IN  /\ Hits(letter) # {}
        /\ found # modular_decriment(index, HISTORY_SIZE)
        /\ Begin(command, ampersand, FALSE)
        /\ command_buffer_push([commands EXCEPT ![found] = Cut(command)], command)
        /\ recent' = Latest(<<command>> \o [recent EXCEPT ![age] = Cut(command)])

\* The string found is in the spot that the push frees: what is copied from it is
\* what free and malloc made of it.  An empty string ends the shell.
r_RunsFreed(letter, ampersand) ==
    LET found == command_buffer_scan(letter)
    IN  /\ Hits(letter) # {}
        /\ found = modular_decriment(index, HISTORY_SIZE)
        /\ \/ \E left \in {commands[found], Junk} : \E kept \in {left, Cut(left)} :
                 /\ Begin(left, ampersand, FALSE)
                 /\ command_buffer_push(commands, kept)
                 /\ recent' = Latest(<<kept>> \o recent)
           \/ exit

r(letter, ampersand) == /\ pc = "prompt"
                        /\ \/ r_Fails(letter, ampersand)
                           \/ r_Runs(letter, ampersand)
                           \/ r_RunsFreed(letter, ampersand)

-----------------------------------------------------------------------------
\* System calls.

Children == {p \in Pids : process[p] # "free"}

\* The children a pid given to waitpid selects: 0 and -1 select them all.
Selected(pid) == IF pid \in Pids THEN {pid} \cap Children ELSE Children

Reap(p) == /\ process' = [process EXCEPT ![p] = "free"]
           /\ background' = background \ {p}
           /\ dropped' = dropped \ {p}

\* The list with one process more.
process_list_push_Next(pid) ==
    /\ jobsIndex' = modular_increment(jobsIndex, PROCESS_LIST_SIZE)
    /\ pids' = [pids EXCEPT ![jobsIndex'] = pid]
process_list_push(pid) ==
    LET at(i) == (jobsIndex + i) % PROCESS_LIST_SIZE
        empty == {i \in Jobs : pids[at(i)] = 0}
    IN  IF empty # {}
        THEN /\ pids' = [pids EXCEPT ![at(CHOOSE i \in empty : \A j \in empty : i <= j)] = pid]
             /\ UNCHANGED jobsIndex
        ELSE /\ jobsIndex' = modular_increment(jobsIndex, PROCESS_LIST_SIZE)
             /\ pids' = [pids EXCEPT ![jobsIndex'] = pid]

\* The entry that a push writes over when the list is full.
Overwritten == IF \E i \in Jobs : pids[i] = 0 THEN {}
               ELSE {pids[modular_increment(jobsIndex, PROCESS_LIST_SIZE)]} \cap Pids

-----------------------------------------------------------------------------
\* executeCommand.

Executing(words) == pc = "execute" /\ running.word \in words

cd == /\ Executing({"cd"})
      /\ \E ok \in BOOLEAN : Finish(save /\ ok)
      /\ UNCHANGED <<jobs, kernel>>

WaitFor(pid) == /\ pc' = "wait" /\ waitsFor' = pid
                /\ UNCHANGED <<history, running, bg, save, slot, due>>

\* What is not a number is 0 for atoi.
fg == /\ Executing({"fg"})
      /\ IF running.whole THEN \E pid \in Pids \cup {0} : WaitFor(pid)
                          ELSE Finish(save)
      /\ UNCHANGED <<jobs, kernel>>

jobs_Command == /\ Executing({"jobs"})
                /\ pc' = "flush" /\ slot' = 0
                /\ due' = {p \in Pids : /\ \E i \in Jobs : pids[i] = p
                                        /\ process[p] \in {"ended", "free"}}
                /\ UNCHANGED <<history, jobs, kernel, running, bg, save, waitsFor>>

Foreground_NotAwaited(pid) == Finish(save) /\ UNCHANGED jobs
Foreground(pid) == WaitFor(pid) /\ UNCHANGED jobs

\* The child goes into the list or is waited for.
Program(pid) == IF bg THEN process_list_push(pid) /\ Finish(save)
                      ELSE Foreground(pid)

\* execvp makes a program of the child, or fails and leaves a second shell.
fork == /\ Executing(Programs)
        /\ \E p \in Pids \ Children, execvp \in {"runs", "shell"} :
              /\ process' = [process EXCEPT ![p] = execvp]
              /\ background' = IF bg THEN background \cup {p} ELSE background
              /\ dropped' = IF bg THEN (dropped \cup Overwritten) \ {p} ELSE dropped
              /\ Program(p)

\* There can be no other process: the pid is -1.
fork_Fails == /\ Executing(Programs) /\ Pids = Children
              /\ dropped' = IF bg THEN dropped \cup Overwritten ELSE dropped
              /\ UNCHANGED <<process, background>>
              /\ Program(-1)

\* waitpid without options: it returns when a child selected has ended, or when
\* there is none to wait for.
wait == /\ pc = "wait"
        /\ \/ Selected(waitsFor) = {} /\ UNCHANGED kernel
           \/ \E p \in Selected(waitsFor) : process[p] = "ended" /\ Reap(p)
        /\ Finish(save)
        /\ UNCHANGED jobs

\* One waitpid of flush_completed_processes, which does not wait, tells of a
\* stopped child as well, once, and fails when no child is selected.  A status
\* other than 0 clears the spot.
StatusOf_PositiveOnly(told) == told > 0
StatusOf(told) == told # 0

flush_Look ==
    LET pid == pids[slot]
        gone(p) == process[p] = "ended"
        news == {p \in Selected(pid) : process[p] \in {"ended", "stopped"}}
        status == IF Selected(pid) = {} THEN -1 ELSE IF news = {} THEN 0 ELSE 1
    IN  /\ \/ news = {} /\ UNCHANGED kernel
           \/ \E p \in news :
                 IF gone(p) THEN Reap(p)
                 ELSE /\ process' = [process EXCEPT ![p] = "told"]
                      /\ dropped' = dropped \cup ({p} \cap {pid})
                      /\ UNCHANGED background
        /\ pids' = IF StatusOf(status) THEN [pids EXCEPT ![slot] = 0] ELSE pids
        /\ UNCHANGED jobsIndex

flush_completed_processes ==
    /\ pc = "flush"
    /\ flush_Look
    /\ IF slot + 1 \in Jobs
       THEN /\ slot' = slot + 1
            /\ UNCHANGED <<history, pc, running, bg, save, waitsFor, due>>
       ELSE Finish(save)

ShellStep == \/ \E word \in Words, ampersand \in BOOLEAN : getcmd(word, ampersand)
             \/ \E letter \in Words, ampersand \in BOOLEAN : r(letter, ampersand)
             \/ exit \/ cd \/ fg \/ jobs_Command \/ fork \/ fork_Fails
             \/ wait \/ flush_completed_processes

-----------------------------------------------------------------------------
\* The children.

Becomes(p, here, there) == /\ process[p] \in here
                           /\ process' = [process EXCEPT ![p] = there]
                           /\ UNCHANGED <<history, jobs, control, background, dropped>>

Child(p) == \/ Becomes(p, {"runs", "shell", "stopped", "told"}, "ended")
            \/ Becomes(p, {"runs"}, "stopped")
            \/ Becomes(p, {"stopped", "told"}, "runs")

Next == ShellStep \/ \E p \in Pids : Child(p)

Spec == Init /\ [][Next]_vars

-----------------------------------------------------------------------------
\* Properties.

Commands == [word : Words \cup {"r"}, whole : BOOLEAN] \cup {NULL, Junk}
States   == {"free", "runs", "shell", "stopped", "told", "ended"}

TypeOK == /\ commands \in [Ring -> Commands] /\ index \in Ring
          /\ totalCount \in 0 .. HISTORY_SIZE
          /\ pids \in [Jobs -> Pids \cup {0, -1}] /\ jobsIndex \in Jobs
          /\ pc \in {"prompt", "execute", "wait", "flush", "gone"}
          /\ running \in Commands /\ bg \in BOOLEAN /\ save \in BOOLEAN
          /\ waitsFor \in Pids \cup {0, -1} /\ slot \in Jobs
          /\ process \in [Pids -> States]
          /\ recent \in Seq(Commands) /\ due \subseteq Pids
          /\ background \subseteq Children /\ dropped \subseteq Pids

\* "Print out the 10 most recent commands": read forwards from index, as
\* print_history does, the ring gives the commands in the order in which they
\* were saved or run again, the newest first, although r writes into the
\* strings of the ring and the ring overwrites itself.
Spot(i) == (index + i - 1) % HISTORY_SIZE
HistoryIsRecent ==
    /\ Len(recent) = totalCount
    /\ \A i \in 1 .. totalCount : commands[Spot(i)] = recent[i]

\* r runs the newest command if it has the letter, and the oldest that has it
\* otherwise, with the arguments it has in the history, and makes it the newest;
\* without one r itself is run and the history stays.  The push frees the string
\* of the oldest command of a full ring: what is run in its place is that command
\* still, or what free and malloc left of it, if that does not end the shell.
\* (bg' is whether an & was typed.)
Matches(letter) == {i \in DOMAIN recent : recent[i].word = letter}
NewestOrOldest(i, matches) == /\ i \in matches
                              /\ IF 1 \in matches THEN i = 1
                                 ELSE \A j \in matches : j <= i
RerunsTheHistory ==
    [][\A letter \in Words :
          pc' # "prompt" /\ r(letter, bg') =>
              \/ Matches(letter) = {} /\ running' = Typed("r") /\ recent' = recent
              \/ \E i \in DOMAIN recent :
                    /\ NewestOrOldest(i, Matches(letter))
                    /\ IF i < HISTORY_SIZE
                       THEN running' = recent[i] /\ recent'[1] = recent[i]
                       ELSE running' \in {recent[i], Junk} \/ pc' = "gone"]_vars

\* A background child that lives is in the list unless its entry was written over
\* ("There are no free spots, so we will force push one") or cleared while the
\* child was stopped: no wait for another child, no fork that fails and no pid
\* given out again takes it off, and a job that was told of as stopped and goes
\* on is still there.
Listed == {pids[i] : i \in Jobs} \cap Pids
JobsAreListed ==
    \A p \in background \ dropped :
        process[p] \in {"runs", "shell", "stopped", "told"} => p \in Listed

\* "Remove completed processes from the process buffer": what had ended
\* before jobs was typed is off the list and reaped when it has printed, also
\* what fg or a look at an empty spot has reaped before.
JobsRemovesTheDead ==
    [][pc = "flush" /\ pc' # "flush" =>
          \A p \in due : p \notin Listed' /\ process'[p] = "free"]_vars

\* The shell reads the terminal together with a second shell only if that one is
\* what became of a background command: of a foreground command it awaits the
\* end, whatever else is forked, stopped or reaped meanwhile.
OneReader == pc = "prompt" =>
                 \A p \in Pids \ background : process[p] # "shell"

-----------------------------------------------------------------------------
\* The inductive invariant behind the properties above.

\* The spots of the ring that hold no recent command hold none at all, so that no
\* letter finds them.
RestIsEmpty == \A i \in totalCount + 1 .. HISTORY_SIZE : commands[Spot(i)] = NULL

\* What jobs has to remove stays dead, is off the list up to the spot looked at,
\* and is reaped when it is off the list.
DeadAreRemoved ==
    pc = "flush" =>
        \A p \in due :
           /\ process[p] \in {"ended", "free"}
           /\ \A i \in Jobs : pids[i] = p => slot <= i
           /\ p \notin Listed => process[p] = "free"

\* A second shell made of a foreground command is the process waited for.
SecondShellIsAwaited ==
    \A p \in Pids \ background :
        process[p] = "shell" => pc = "wait" /\ waitsFor = p

IndInv == /\ TypeOK
          /\ HistoryIsRecent /\ RestIsEmpty
          /\ JobsAreListed
          /\ DeadAreRemoved
          /\ SecondShellIsAwaited
=============================================================================
