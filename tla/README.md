# Verification of the COMP 310 assignments

The repository holds four C programs that share no code: a shell
(assignment 1), a print spooler of one server and many clients (assignment 2),
a simple file system on an emulated disk (assignment 3) and a memory allocator
(assignment 4). This directory holds TLA+ models of them, TLC configurations
that check the models on small instances, and proofs that TLAPS checks for
every instance.

    tlc -workers 2 -config PrintSpooler.cfg PrintSpooler    # one run
    tlapm PrintSpoolerProofs.tla                            # one module's proofs

`PROJECT.json` lists the components, the runs, for every property a mutated
definition that breaks it, the source lines of every definition, the findings,
the hazards of the code and the theorems. In the modules a definition whose name
ends in `_Something` (`PopRead_AtTail`, `Padded_ByTooLittle`) and that nothing
uses is such a mutated definition; it stands before the faithful one. Definitions
that the source has no name for but that split one of its functions have such a
name too (`r_Fails`, `fork_Fails`, `fwrite_Saves`): those are used.

Contents: 1 inventory, 2 plan, 3 modules, 4 runs and bounds, 5 fairness,
6 proofs, 7 what disagrees with the code's own words, 8 what is not modelled.

## 1. Inventory

### Assignment 2: print spooler (`src/assignment-2/src`)

| part | state | operations | interacts with |
|---|---|---|---|
| server (`assignment-2-server.c`) | its program counter, the job in hand | `setup_shared_mem`, `attach_shared_mem`, `init_semaphore`, then for ever `take_a_job`, `go_sleep` | creates the shared segment, resets it, consumes jobs |
| client (`assignment-2-client.c`) | its program counter, `didWait` | `attach_share_mem`, `put_a_job`, `release_share_mem` | finds the segment, produces one job, exits |
| ring and semaphores (`fifo_buffer*.h`, `shared_mem.h`) | `elements`, `headIndex`, `tailIndex`, `mutex`, `empty`, `full` | `pushFifoBuffer`, `popFifoBuffer`, `willSemaphoreWait` | the shared segment itself |

Hard: many processes interleave at every semaphore call and memory access;
clients block; a client samples a semaphore and acts on the answer later;
processes are killed while they hold tokens; a server restarts on a segment in
which clients still wait. Correct means: one process in the critical section,
no job lost, overwritten, made up or printed out of order, nobody blocked for
ever while work can be done.

### Assignment 4: allocator (`src/assignment-4/src/malloc`)

| part | state | operations |
|---|---|---|
| interface (`malloc.c`) | `my_brk`, `heap_end`, `allocationPolicy`, the program break | `my_malloc`, `my_free`, `my_mallopt` (`my_mallinfo` only prints) |
| free list (`structs/*.h`, private functions of `malloc.c`) | size, prev and next words of the free blocks, `firstFreeBlock`, `lastFreeBlock` | insert, remove, merge, split, resize |

Sequential. Hard: a long sequence of legal calls that leaves a pointer stale;
the sizes of the two kinds of header at the boundary between splitting a block
and handing it out whole; shrinking the heap. Correct means: blocks tile the
heap, no two held blocks overlap, a held block stays in the heap, the free list
is sorted and complete, a freed block joins its free neighbours. (That is all the
merging there is: `grow_heap_size` does not join the block it adds to a free one
below it.)

### Assignment 3: simple file system (`src/assignment-3/src`)

| part | state | operations |
|---|---|---|
| interface (`sfs_api.c`) | none of its own: the four tables below and the disk | `mksfs`, `sfs_fopen`, `sfs_fclose`, `sfs_fseek`, `sfs_fread`, `sfs_fwrite`, `sfs_remove`, `sfs_getnextfilename`, `sfs_getfilesize` |
| directory (`directory_cache.h`) | the entries, `readIndex` | find a name, find an open spot, next name, delete |
| i-nodes (`i_node_table.h`, `i_node.h`) | size, direct pointers and indirect pointer of each; which spots are open | find an open spot, delete |
| free blocks (`free_bit_map.h`) | one bit for each data block | find a free bit, mark |
| descriptors (`file_descriptor_table.h`) | i-node number, position, in use | find, allocate |
| saving (`helpers/disk_access.h`) | the copies on the disk | save the three tables, load them, read or write a data block |
| disk (`disk_emu.c`) | a file of blocks | vendored |
| callbacks (`fuse_wrappers.c`) | none, but the local variables of each thread of libfuse | getattr, readdir, unlink, open, read, write, truncate, create |

The tables live in memory; `sfs_fwrite` and `sfs_remove` write all of them back,
one after another, `sfs_fopen` writes nothing. FUSE calls the callbacks, and
each makes several calls of the interface (open, seek, read, close). Hard: a
long sequence of calls reaches an odd table (a directory with gaps, a listing
half done, handles on removed files); block 0 and i-node 0 are ordinary members
that some tests take for "none"; the disk fills up in the middle of a write; the
program dies between two writes to the disk; the callbacks of several threads
interleave between their calls and share the descriptors. Correct means: no block
in two files, or in a file and free; bytes written are the bytes read, through any
handle and after a remount; the directory names each file once; a callback takes
effect as a whole on the file under its path, returns, and keeps no descriptor.

### Assignment 1: shell (`src/assignment-1/oscode.c`)

| part | state | operations |
|---|---|---|
| history | a ring of 10 commands | push, scan by first letter, print |
| jobs | a list of process ids | push, flush with `waitpid` |
| main loop | the command read | built-in commands, `r`, fork and `execvp`, wait or not |

Interacts with the kernel only: children end at any moment. Hard: the `r`
command pushes a string that lives in the ring it pushes to and takes it apart
there; children that stop, go on and end between any two looks at the list; a
`waitpid` for an empty spot, which selects every child; a pid that is given out
again; an `execvp` that fails in the child; a `fork` that fails. Correct means:
the ring holds the latest commands, `r` runs the command it found, the job list
holds the children that live, one shell reads the input.

## 2. Plan

The order puts first what runs concurrently, then what keeps data.

| # | module | composes | state |
|---|---|---|---|
| 1 | `PrintSpooler`, `SpoolQueue` (abstract) | the spooler implements the queue | done |
| 2 | `PrintSpoolerProofs` | inductive invariant, safety theorems | done |
| 3 | `SpoolerLifecycle` | extends `PrintSpooler` by boots, attaching, kills | done |
| 4 | `FreeBlockList`, `Malloc` | the allocator on the list | done |
| 5 | `SimpleFileSystem`, `FileStore` (abstract), `SfsPromises` | the file system implements the store | done |
| 6 | `FuseCallbacks`, `PathStore` (abstract) | callbacks as threads over `SimpleFileSystem`; they implement the store of paths | done |
| 7 | `Shell` | history ring, job list, children | done |
| 8 | `PrintSpoolerRefinement` | the steps of the spooler are steps of the queue | done |
| 9 | `SpoolerLifecycleProofs` | on `PrintSpoolerProofs`: what boots and kills leave of the spooler's invariant | done |
| 10 | `ShellProofs` | ring and job list, for every size and any words | done |
| 11 | `SfsProofs` | tables and disk, over mounts and crashes | done |
| 12 | `FuseProofs` | on `SfsProofs`: which thread holds which descriptor | done |
| 13 | `MallocProofs` | lemmas on the list operators; the heap under every call | done |
| 14 | proofs about `SfsPromises` | `SoundSpec` implies the steps of `FileStore` | next |
| 15 | proofs about `FuseCallbacks` | `ActsOnPaths`, which needs 14 | after it |

## 3. Modules

### `SpoolQueue`

What a user of the spooler is promised: a bounded queue, one job printed at a
time, the list of what was printed. Actions `Submit`, `Start`, `Finish`.

### `PrintSpooler`

`elements`, `headIndex`, `tailIndex` are the ring in the shared segment, `mutex`,
`empty`, `full` its semaphores; `cpc` and `spc` say where each process is in
`put_a_job` or `take_a_job`; `didWait` and `announced` are the values of
`willSemaphoreWait` that the code keeps or prints. One action stands for one
thing another process can observe: a semaphore call (`PutWaitEmpty`,
`TakePostMutex`, ...), the sample of a semaphore (`PutCheck`, `TakeCheck`), and
each of the two memory accesses of a push (`PushStore`, `PushAdvance`) and a pop
(`PopRead`, `PopAdvance`), so that the mutex is what keeps pushes and pops
apart, and not the grain of the model. A blocked `sem_wait` is an action that
is not enabled. `accepted` and `printed` are history. A job is the client that
submits it: nothing in the code decides on what a job carries. `IndInv` is the
inductive invariant; `SoundInv` is what is left of it when a killed process takes a
token with it.

### `SpoolerLifecycle`

Extends `PrintSpooler` by what happens around it. `setup_shared_mem`,
`attach_shared_mem` and the three `sem_init` of `init_semaphore` are steps of
their own, between which clients attach and run; any process may be killed and
takes with it what it holds; a later server finds the segment of the earlier
one. Initialising a semaphore on which a process sleeps is undefined, and the
model leaves open which of the sleepers are never woken (`lost`). A reset
restarts the history of accepted and printed jobs. `LifeInv` is the inductive
invariant.

### `FreeBlockList`, `Malloc` and `MCMalloc`

`FreeBlockList` has a memory of words and the list operations as operators on
it: a block's size, prev and next are words at its address, and a held block
covers them with its data, so that a stale pointer leads where it does in the
code. `Malloc` has the public calls: `my_malloc` (pads the size, grows the heap
when no block is large enough, splits or hands out whole), `my_free` (makes the
block free, inserts, merges, shrinks the heap), `my_mallopt`. `live` is what the
caller holds, `faults` what went wrong: `"stale"` when the removal of a block
uses a prev pointer that a merge left behind, `"cut"` when the break is lowered
below a held block. The invariants speak of the states before the first fault,
and the violation runs show the faults themselves. An access outside the
heap kills the program (`heap.fault`), also one through `NULL`: `Base` is above
every offset in a block's header, so that the header of a block at `NULL` is never
in the heap. `my_free_Shrinks` leaves open whether the read of the block it has just
given back (`ReadsReleased`) kills the program, which depends on where the page ends;
`StaysInTheHeap` says that nothing else does before the first fault. The list is walked by
recursive functions, not by recursive operators, so that `MallocProofs` can be
about the same definitions.

`MCMalloc` gives TLC a `VIEW`: the words that are not in the header of a block are
left out of it. What an earlier block left there is never read before a header is
written over it, until the first fault, where the model stops.

### `FileStore`, `FileBytes`

What a program that calls the file system is promised: names of files, their
bytes, handles with a position. A call does one of the actions or declines. A
write stores a beginning of its data, not an empty one; a remount may forget
files that have nothing in them (`sfs_fopen` does not save); `Format` empties the
store. `FileBytes` says what a read returns and what a write leaves of a sequence
of bytes; both abstract stores use it.

### `SimpleFileSystem`

The four tables and the disk are variables; each public call is an action that
does all of what the call does, the saves included: `mksfs` mounts again and
`mksfs_Fresh` formats, at any time, and `fwrite_Nothing` is a write of length 0,
which saves the tables. `Turned` is the loop of
`sfs_fwrite`, block by block: which blocks it takes, what it keeps of a block
written in part, where it stops when the disk is full. The oddities are those of
the code: the search for an open spot adds `readIndex` and returns without it,
a removed file's i-node stays taken, its indirect block is not freed, block 0 and
entry 0 are taken for "none". `faults` records the first time a call does what no
document promises or a finding covers: a file created over another's entry
(`"overwritten"`), indirect blocks dropped (`"rewrote"`), a gap read from block 0
(`"gap"`), a write or a seek on a closed handle (`"closed"`).

Four specifications share the actions: `Spec`, every call; `CrashSpec`, with
crashes; `OpenHandlesSpec`, whose program uses only open handles; `SoundSpec`,
which ends where a call first goes wrong. `IndInv` is the inductive invariant of
`CrashSpec`, and so of all four.

A crash is a step that does a beginning of what `sfs_fwrite` or `sfs_remove`
writes and then mounts what is there. Two windows are left out, because the code
is not safe in them and no document says it is:

- `sfs_fwrite` writes an indirect block that is in use before it saves the
  bitmap (`sfs_api.c:430`): a crash between the two leaves blocks in the file
  that the bitmap calls free;
- `sfs_remove` saves the bitmap before the i-nodes (`sfs_api.c:503`): a crash
  between the two leaves an i-node that points to free blocks.

`CrashSpec` shows that these are all: with a crash anywhere else no block is
shared.

### `SfsPromises`

Maps the tables to `FileStore` (a file is an i-node, with or without a name) and
states what comments and tests say of single calls.

### `PathStore`

What the callbacks promise to the kernel: files under their names, and for each
thread a call that takes effect as a whole, at one moment between its request
and its return, and has its answer from that moment. There are no handles in it.

### `FuseCallbacks`

Extends `SfsPromises` by threads. `doing` says for each thread what it was asked
and where in its callback it is: `Open`, `Seek`, `Read`, `Write`, `Close`,
`Unlink`, `List` and `Stat` are one call of the interface each, with what the
callback makes of its answer, and any other thread may come between two of them.
`fuse_open` and `fuse_create` are an open and a close; `fuse_truncate` is a
removal, an open and a close, whatever size was asked for; `fuse_readdir` is a
loop. A call of the interface is one step: the data races inside single calls,
which nothing locks, are left out. `calls` and `files` map a thread to
`PathStore`: a create, a read or a write has happened when only its close is left,
a truncate when it has removed the file, a listing when it has got its last name.

Two things bound what is checked. Callbacks that are in progress together are
`Apart`: about different files, and no listing while the directory changes.
Without that they do disturb each other, by construction: two threads on one file
get the same descriptor from `sfs_fopen`, and one moves its pointer or closes it
under the other. A getattr may come between any calls, but those of a truncate of
its file, where it finds no file. And the system is followed until something goes
wrong (`Sound`), in a call (`faults`) or a callback (`trouble`): a write that found
no block returns without closing its descriptor (`"leaked"`), a create or a
truncate reports success although the open failed (`"vanished"`), a listing begins
where an earlier removal has left `readIndex` and omits a file (`"late"`).
`FuseInv` is the inductive invariant of `FuseSpec`.

### `Shell`

`commands`, `index` and `totalCount` are the ring of `command_circular_buffer`,
`pids` and `jobsIndex` the list of `pid_circular_buffer`; `pc` says where the shell
is in its loop: at the prompt, in `executeCommand`, in a `waitpid`, or at one
`slot` of `flush_completed_processes`. `process` is the kernel's view of each pid:
free, or a child that runs, is a second shell because its `execvp` failed, is
stopped (and told of, once), or has ended and waits to be reaped. Children change
state between any two steps of the shell. A command is its first word, and whether
its arguments are still there: `parseCmd` cuts the string it takes apart, which for
`r` is the one in the ring. `r_RunsFreed` is the case in which the push frees the
string it is to copy: what is run and what is kept is then any outcome of `free`
and `malloc` (the old text, other bytes, or an empty string, which ends the shell).
`recent`, `background`, `dropped` and `due` are history: what the properties say
the ring, the list and a `jobs` command should be. `IndInv` is the inductive
invariant.

### The proof modules

`PrintSpoolerProofs`, `PrintSpoolerRefinement`, `SpoolerLifecycleProofs`,
`ShellProofs`, `SfsProofs`, `FuseProofs` and `MallocProofs` add no definition of the
system; section 6 says what they prove and how.

## 4. Runs and bounds

| run | module, configuration | bounds | shows |
|---|---|---|---|
| `spooler` | `PrintSpooler`, `PrintSpooler.cfg` | 4 clients, 2 of 3 slots | the inductive invariant; one process in the mutex; head and tail never pass; printed in order; a job accepted once; a stop only when all is done; a printer that did not announce a wait does not wait; the spooler implements `SpoolQueue` with its fairness; every job is printed |
| `spooler_lifecycle` | `SpoolerLifecycle`, `SpoolerLifecycle.cfg` | 2 clients, 2 slots, 2 boots | attaching during a boot, kills, a restart |
| `malloc` | `MCMalloc`, `Malloc.cfg` | 36 words, requests of 1 and 6, stops at a fault; states that differ outside the blocks' headers are one | blocks tile the heap and hold what was asked; the list is sorted; a freed block joins its free neighbours; no access leaves the heap but the one of section 7 |
| `malloc_corrupts`, `malloc_shrinks` | `Malloc` | 26 words, goes on after a fault | the two findings about the allocator |
| `sfs` | `MCSimpleFileSystem`, `SimpleFileSystem.cfg` | 2 names (interchangeable), 2 i-nodes, 1 descriptor, 1 direct block and 2 in the indirect one, blocks of 2 cells, 4 data blocks, writes of 3 bytes; crashes | no block shared or free while in use; block 0 never holds data; the directory stays sound |
| `sfs_store` | `SfsPromises`, `SfsStore.cfg` | the same with 2 descriptors, 5 data blocks, seeks to 0; no crash | the file system implements `FileStore` until a call goes wrong; a file has one descriptor |
| `sfs_rewrite`, `sfs_create`, `sfs_twice` | `SfsPromises` | as `sfs_store`, open handles | the three findings about the file system |
| `fuse` | `FuseCallbacks`, `Fuse.cfg` | 2 threads, 2 names, 3 i-nodes, 2 descriptors, 5 data blocks, reads and writes of 3 bytes at 0 | until something goes wrong, callbacks on different files implement `PathStore`, every descriptor in use is that of one callback, and every callback returns |
| `shell` | `MCShell`, `Shell.cfg` | a ring of 3, a list of 2, 2 pids (interchangeable), the words ls, cd, fg, jobs; where in the array the ring begins is left out of the view | the ring holds the latest commands, and which of them `r` runs; the list holds the background children that live; `jobs` removes and reaps those that had ended; the shell reads alone while a foreground command lives |

Why they are enough. Spooler: more clients than slots, so that clients wait for
a slot, for the mutex and for each other at once, and the ring wraps twice; the
array is longer than the ring, so that an index that does not wrap at
`bufferSize` shows. The safety properties are proved for any size (section 6).
Lifecycle: one client to be killed or disturbed and one to suffer from it; a
second boot is the only kind of boot after the first. Allocator: room for two small
chunks and a large one, so that chunks are split and joined again, a chunk is added
next to a free block, a large request outgrows what is free, the heap fills, and a
threshold low enough for it to shrink; the pointer and the size take one word each,
which keeps the code's relations between the two header sizes. File system: a
write of three bytes into blocks of two always ends in the middle of a block and
reaches the indirect block, where the next write begins; the blocks run out within
one file (`sfs`) or two (`sfs_store`); two i-nodes are used up by creations, since
none is given back; one descriptor is closed and used again. Callbacks: two
threads are all that is needed for one to come between the calls of another; they
share two descriptors (a third open never happens), and the i-nodes and blocks,
which run out in truncates and writes; the third i-node lets a file be truncated
while both files exist. Shell: the third entry overflows the list (a fork fails when
both pids are taken, which puts -1 into it), and a reaped pid is given out to a later
child. Between the newest of three commands and the oldest there is one that the scan meets
after the oldest, and with three spots a step on and a step back differ; fg has
arguments that matter, which `parseCmd` cuts off in the ring. The ring is the one part
of a state that its view turns: no definition depends on where it begins. `sfs` checks only
invariants over interchangeable names, `shell` only invariants and action
properties over interchangeable pids: symmetry is sound for them.

Deadlock is checked in the file system's runs, where a remount is always
possible. The spooler may stop (all clients have exited), the allocator's model
stops at a fault, when the program has died, or at a list that does not end, the
callbacks stop when something has gone wrong, and the shell may exit.

## 5. Fairness

`PrintSpooler!Spec` has weak fairness for each client and for the printer: each is
an operating-system process that the scheduler runs when it can run. A client that
waits in `sem_wait` needs no more, although POSIX promises no order among the
waiters: there are finitely many clients, each submits one job, so that a client
overtaken by all others is the last one left. In `SpoolerLifecycle` boot steps,
the running server and the running clients are fair; starting, attaching and
killing are not, as nobody must do them.

`FuseCallbacks!FuseSpec` is fair to each thread of libfuse while it serves a
request: `Scheduled(t)` is weak fairness of `Step(t)` with `ENABLED` written out.
A thread in a callback can always take its next step, as no call of the interface
waits for anything, so that `Step(t)` is enabled where the thread is busy and
nothing has gone wrong; TLC evaluates that much faster than `ENABLED`, and agrees
with `WF_fuseVars(Step(t))` in its place (tried with blocks for one file less).
The kernel need not ask for anything. The other models are sequential, or check
safety only: a shell waits for ever for a foreground command that does not end.

## 6. Proofs

TLC checks each property on one small instance, TLAPS proves it for every value of
the constants that satisfies the assumptions. Every invariant the runs check and the
action properties of the allocator and the shell are proved, and one of the three
refinements:

| theorem | says |
|---|---|
| `PrintSpoolerProofs` | for any finite set of clients and any `bufferSize` from 0 to `MAX_BUFFER_SIZE` |
| `SpoolerInvariant` | `Safety => []IndInv` |
| `SpoolerMutualExclusion`, `SpoolerNoOverrun`, `SpoolerPrintsInOrder`, `SpoolerStopsOnlyWhenDone`, `SpoolerQuietPrinter` | `MutualExclusion`, `NoOverrun`, `PrintedInOrder`, `StopsOnlyWhenDone`, `QuietPrinterNeverBlocks` |
| `PrintSpoolerRefinement` | the same |
| `SpoolerAcceptsOnce` | `Safety => []AcceptedOnce` |
| `SpoolerImplementsQueue` | `Safety => Q!Safety`: every step is one of `SpoolQueue` or stutters |
| `SpoolerLifecycleProofs` | the same, for any number of restarts |
| `LifecycleInvariant` | `LifeSpec => []LifeInv` |
| `LifecycleIsTyped`, `FirstServerKeepsSafe`, `FirstServerAnnouncesJobs`, `CleanBootRestores` | `LifeTypeOK`, `FirstServerIsSafe`, `NoPhantomJob`, `CleanBootIsSound` |
| `ShellProofs` | for any words, any pids, a ring and a list of any length |
| `ShellInvariant` | `Spec => []IndInv` |
| `ShellIsTyped`, `ShellHistoryIsRecent`, `ShellJobsAreListed`, `ShellOneReader` | `TypeOK`, `HistoryIsRecent`, `JobsAreListed`, `OneReader` |
| `ShellRerunsTheHistory`, `ShellJobsRemovesTheDead` | the action properties `RerunsTheHistory`, `JobsRemovesTheDead` |
| `SfsProofs` | for any names, any sizes of the tables, the blocks and the disk, any writes |
| `SfsInvariant` | `CrashSpec => []IndInv` |
| `SfsIsTyped`, `SfsSharesNoBlock`, `SfsZeroIsNoData`, `SfsDirectoryIsSound`, `SfsOneFdPerFile` | `TypeOK`, `NoBlockShared`, `ZeroIsNoDataBlock`, `DirectoryIsSound`, `OneFdPerFile` |
| `OthersAllowLess` | `Spec`, `OpenHandlesSpec` and `SoundSpec` imply `CrashSpec`: the above holds of them, too |
| `FuseProofs` | the same, for any set of threads |
| `FuseInvariant` | `FuseSpec => []FuseInv` |
| `FuseHoldsEveryFd` | `EveryFdIsHeld` |
| `MallocProofs` | for any sizes of an int and a pointer, any heap, any requests and any of the constants of `malloc.c` |
| `MallocInvariant` | `Spec => []IndInv` |
| `MallocIsTyped`, `MallocTilesTheHeap`, `MallocBlocksAreLargeEnough`, `MallocListIsSorted` | `TypeOK`, `BlocksTileTheHeap`, `BlocksAreLargeEnough`, `ListIsSorted` |
| `MallocFreeingMerges`, `MallocStaysInTheHeap` | the action properties `FreeingMerges`, `StaysInTheHeap` |

### What is assumed

- Spooler: `SizeAssumption`, which is the server's check of its argument,
  `ClientsAssumption` (finitely many clients, none of them is `NoJob`) and
  `BootsAssumption` (the bound on restarts is a number).
- Shell: its `SizesAssumption`: the ring and the list have a spot, 0 and -1 are no
  pids, and the words users type do not include the empty one and `r`, which have
  actions of their own.
- File system: its `SizesAssumption`: no table, block or disk has size 0; lengths are
  positive (a write of length 0 is an action of its own), places and bytes are
  numbers; `NoName` is no name. The callbacks assume nothing else; that callbacks in
  progress are `Apart` is part of `FuseSpec`, a restriction of what the kernel asks for
  together (section 3).
- Allocator: `SizesAssumption` (an int and a pointer have a size; neither address 0,
  which is `NULL`, nor the header of a block there is in the heap), `RequestsAssumption` (requests are positive).

### The inductive invariants

None of the properties is inductive alone.

*Spooler.* `IndInv` adds to the types that every token of every semaphore is
accounted for (`TokensAccountedFor`: the mutex and the processes inside make one;
`empty` and the slots claimed, filled or about to be given back make `bufferSize`;
`full` and the jobs about to be announced or claimed make the number of jobs in the
ring) and that the ring holds from the head on what was accepted and not yet taken
(`RingHoldsTheJobs`). The first gives mutual exclusion and the bounds on the ring,
hence that a push and a pop meet the slots they should; the second, with it, gives
the order of printing. The proof has a lemma for what a step of a client or the
printer does to the counts (`ClientMoves`, `ServerMoves`, over `CountAfterMove`, which
is about cardinalities), one for the steps that leave the ring alone (`ClientFrame`,
`ServerFrame`), and one case for each action. `SpoolerQuietPrinter` has an invariant of
its own: the sample of `full` bounds it from below because the printer alone takes
from it. The refinement maps the ring, read from its head, to the queue; the moves of
tail and head are `Submit` and `Start`, and that a client submits only once is
`AcceptedOnce`.

*Life cycle.* A kill loses tokens, so that with one server only `SoundInv` survives: no
token is made up (`NoTokenMadeUp`, with at most where `IndInv` has equal), which is
what exclusion, the bounds of the ring and the order need. A second server resets
semaphores under running clients, and then only the types are left, unless it found
nobody at the segment: `CleanBoot` says, phase by phase, what the boot has brought back
to its initial value. `NoSlotNoJob` is there because an index modulo `bufferSize` has no
value if that is 0: no process gets so far.

*Shell.* The ring is right if the spots it has not used hold nothing (`RestIsEmpty`).
A living child stays listed (`JobsAreListed`), but for one whose entry a full list gave
to another or whose entry `jobs` cleared because it was stopped; it may be listed twice,
when its pid is that of a dead child whose entry is still there. What `jobs` is to
remove stays dead, is listed only from the spot on that is looked at next, and is reaped if it is not listed (`DeadAreRemoved`); a second
shell made of a foreground command is the child awaited (`SecondShellIsAwaited`). That
the scan for `r` looks at every spot of the ring is `ScansEverySpot`, and that it finds
the newest command if it has the letter and else the oldest that has it, is `ScanFinds`.

*File system.* A mount may load the disk at any time, so that the invariant is about
the disk (`DiskIsSound`: every file has blocks of its own, none free, none of them block
0 for data) and what memory may have beyond it (`MemoryFollowsDisk`: new files, which
are blank, and indirect pointers a full disk took away). With the latter a crash between
two saves leaves a disk that is sound. The loop of `sfs_fwrite` has an invariant of its
own, over its turns (`WriteTurns`): the blocks it has taken are different, were free and
are not any more. `DescriptorsAreSound` is why one file has one descriptor, except the
file at i-node 0, which every closed descriptor looks like.

*Callbacks.* `EveryFdIsHeld` needs that the descriptor a thread holds is on the file
with the name the thread was asked for (`HoldsItsFile`): two threads then hold
different ones, since they are on different files (`Apart`) and files have different
entries. No other thread can take the name or the entry away meanwhile. Each call of
the interface is used by what it keeps of the descriptors and entries of others
(`KeepsFds`, `KeepsEntries`), not by its definition.

*Allocator.* `IndInv` says, until the first fault (`SoundHeap`): the free and the held
blocks follow one another from `Base` to the break (`Tiling`); the next pointers go from
each free block to the next higher one (`Linked`), prev pointers being left open, as a
merge leaves them stale; every block has room for a free block's header. The proof has
layers. Numbers and memory: headers of blocks that do not overlap are written apart
(`HeadersAreApart`, `HeaderIsWritten`). The walk: over a linked list it meets every free
block and no other (`WalkMeetsAll`), as the lowest block it would not meet
has one before it that it meets. Tilings
after a block is split or resized, two are joined, one is added on top or cut off
(`TilingAfterSplit`, ..., `TilingAfterCut`). The list with a block less or one more
(`LinkedWithout`, `LinkedWith`; `BlockIsRemoved`, `BlockIsInserted` for the code).
Then each function of `malloc.c`: if it makes no fault it takes a sound heap to a sound
heap (`GrowingIsSound`, `SplittingIsSound`, `InsertingIsSound`, `MergingLeftIsSound`,
...). Types hold after a fault, too, when nothing is known of the list, and are proved
apart from it (`GrowingIsTyped`, ...). That no call makes a fault of its own accord
(`MallocStaysInTheHeap`) follows from the same lemmas: the heap after a call is sound, and
a sound heap has none. TLC had checked each of these invariants on the
instance of its run before it was proved.

### What is only model-checked

- Liveness, which is beyond the prover: `EveryJobIsPrinted`, `ServedUnlessDisturbed`,
  `EveryCallbackReturns`, and the fairness part of `ImplementsQueue`.
- The refinements `IsFileStore` and `ActsOnPaths`, planned in section 2. They are about
  the bytes of files, which the invariants above leave aside.
- The findings (section 7), which are counterexamples.

What recursive definitions compute (the walk along the list, the turns of `sfs_fwrite`)
is proved here without the induction rules of the library, which take an operator as a
parameter: a lemma unfolds the definition for one step more (`WalkUnfolds`,
`WriteGoesOn`), and the proofs take the least number that would be a counterexample,
which exists because the order of the numbers is well founded (`Least`, over
`NatLessThanWellFounded`).

## 7. Findings

Each has a run that TLC finds violated.

- `malloc.c:131`: a merge leaves the prev pointer of the block that follows it
  stale; removing that block later makes `my_malloc` hand out held memory.
- `malloc.c:380`: the break is lowered by the last free block's size although
  held blocks may lie above that block.
- `sfs_api.c:334`: block 0 is taken for no indirect block, so that the second
  write to the first file of a disk drops its indirect blocks.
- `directory_cache.h:30`: the spot tested is not the spot returned; a file
  created during a listing may take another's entry, and so may one created after
  the removal of the file in spot 0, which moves `readIndex` to 1.
- `file_descriptor_table.h:41`: a closed descriptor has i-node number 0 and matches
  the file at i-node 0, which can be open twice ("file %s was opened twice",
  `sfs_test.c:93`); `OneFdPerFile` holds of every other file.

Seen while modelling, and in the models, without a run that fails.

Allocator:

- `malloc.c:384`: the last free block is removed from the list after its memory was
  given back; if another block is in the list its prev pointer is read there, which
  kills the program when the break is at the end of a page (`ReadsReleased`).

File system and callbacks:

- `i_node_table.h:39`: `INodeTable_isOpen` is called for its effect, which it
  does not have ("Mark the spot open", line 38): the i-node of a removed file is never
  used again. `DirectoryIsSound` holds because of it: an old handle on a removed
  file never meets a new one.
- `sfs_api.c:198`: the file at i-node 0, reopened, is at position 0 and not at its end
  ("Open in append mode", `sfs_api.c:194`), as a closed descriptor looks like one on
  it. `FileStore!Open` allows both.
- A listing over gaps gives a name twice, because `readIndex` moves up by one
  wherever the name was found, and a listing after the removal of the file in spot
  0 can omit a file, where `sfs_api.c:89` says "Once all the files have been
  returned" (`FileStore!List` promises only some name, or none).
- A write that finds no block for the indirect block overwrites the pointer by -1.
- `fuse_truncate` ignores the size asked for and, as `fuse_create`, reports success
  when the open failed; a write that fails leaks its descriptor; a callback that
  fails answers `-errno`, which no call of the interface sets and which may be 0,
  success.
- Two threads on one file share one descriptor; a getattr in the middle of a
  truncate finds no file.

Spooler: a client's sample of `empty` may be stale when it waits, so that it may
wait without having said so; a client starts on a segment whose server has gone,
and waits.

Shell:

- `oscode.c:333`: `r` pushes a string of the ring; if that is the oldest of a full
  ring the push frees it before it copies it, and the command may be lost
  (`r_RunsFreed`; `RerunsTheHistory` says what may come of it, and that it happens in
  no other case).
- "No error, so push to history" (`oscode.c:344`): the parent pushes a command whose
  `execvp` failed in the child just as well.
- "The job has terminated" (`oscode.c:105`): a stopped job is taken off the list,
  too; it goes on living (`dropped`).
- An empty spot is a `waitpid` with pid 0, which reaps any child; the entry of that
  child is removed only when its own spot is looked at. A `fork` that fails is put
  into the list, or waited for, as pid -1, which stands for any child.
- The scan for `r` looks at the newest command and then goes on from the oldest
  (`RerunsTheHistory` says so); it cuts the arguments off the entry it found; without a
  match the shell runs a program named r.
- The branch of `fg` for an error is never taken.

## 8. Not modelled

- Data races inside one call of the file system's interface: each call is one step
  of `FuseCallbacks`. What a torn table would hold is not determined by the code.
- Callbacks in progress on one file, or a listing while the directory changes
  (`Apart`): they disturb each other, and no document says they may not.
- Two windows for a crash in `sfs_fwrite` and `sfs_remove` (section 3).
- Files longer than the indirect block can list (`FitsINode`): the code indexes
  past a local array, and what it finds there is not determined.
- The disk emulator, vendored: blocks are written whole and in order. A save of a
  table is one write, though a table may take several blocks.
- In the shell, what only prints (`history`, `pwd`, the list that `jobs` prints),
  an empty line, which the code dereferences NULL for, and lines longer than its
  buffers. A second shell is modelled as a process of the first one only: its own
  copies of the lists behave as the first one's do.
- Calls that only print (`my_mallinfo`), names that `isFileNameValid` refuses,
  requests that overflow an `int`.
- The test programs: what they claim is stated in `SfsPromises`.
- A server restarted with another buffer size; the semaphores' upper limits.
