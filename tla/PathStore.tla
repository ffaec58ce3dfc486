------------------------------ MODULE PathStore ------------------------------
(***************************************************************************)
(* What the callbacks of fuse_wrappers.c promise to the kernel: named      *)
(* files of bytes and, for each thread, a call that takes effect as a      *)
(* whole at one moment between its request and its return.  No handle is   *)
(* left of it.                                                             *)
(***************************************************************************)
EXTENDS FileBytes

CONSTANTS Threads, Requests, NoRequest

VARIABLES files,  \* the bytes of every file, by name
          calls   \* for each thread what was asked, whether it has taken
                  \* effect, the numbers it answers and the names it lists

vars == <<files, calls>>

NoCall == [asked |-> NoRequest, done |-> FALSE, got |-> <<>>, seen |-> {}]

Init == files = <<>> /\ calls = [t \in Threads |-> NoCall]

Exists(r) == r.name \in DOMAIN files

Call(t) == /\ calls[t] = NoCall
           /\ \E r \in Requests : calls' = [calls EXCEPT ![t].asked = r]
           /\ UNCHANGED files

Return(t) == calls[t].done /\ calls' = [calls EXCEPT ![t] = NoCall] /\ UNCHANGED files

\* The request of t takes effect and has its answer.
Becomes(name, bytes) ==
    files' = [n \in DOMAIN files \cup {name} |-> IF n = name THEN bytes ELSE files[n]]

Open(r, got) == Exists(r) /\ got = <<>> /\ UNCHANGED files
Create(r, got) == ~Exists(r) /\ got = <<>> /\ Becomes(r.name, <<>>)
Stat(r, got) == /\ got = IF Exists(r) THEN <<Len(files[r.name])>> ELSE <<>>
                /\ UNCHANGED files
Read(r, got) == /\ Exists(r) /\ got = Slice(files[r.name], r.at, Len(r.buf))
                /\ UNCHANGED files
\* A full disk keeps the beginning, and the answer says how much.
Write(r, got) ==
    /\ Exists(r)
    /\ \E n \in 0 .. Len(r.buf) :
          /\ got = <<n>>
          /\ Becomes(r.name, IF n = 0 THEN files[r.name]
                             ELSE Overlay(files[r.name], r.at, SubSeq(r.buf, 1, n)))
Truncate(r, got) == /\ got = <<>>
                    /\ IF Exists(r) THEN Becomes(r.name, <<>>) ELSE UNCHANGED files
Unlink(r, got) == /\ got = <<>>
                  /\ files' = [n \in DOMAIN files \ {r.name} |-> files[n]]
List(got) == got = <<>> /\ UNCHANGED files

Effect(t) ==
    LET r == calls[t].asked
        got == calls'[t].got
    IN  /\ calls[t] # NoCall /\ ~calls[t].done
        /\ calls' = [calls EXCEPT ![t] =
               [asked |-> r, done |-> TRUE, got |-> got,
                seen |-> IF r.op = "readdir" THEN DOMAIN files ELSE {}]]
        /\ \/ r.op = "open" /\ Open(r, got)
           \/ r.op = "create" /\ Create(r, got)
           \/ r.op = "getattr" /\ Stat(r, got)
           \/ r.op = "read" /\ Read(r, got)
           \/ r.op = "write" /\ Write(r, got)
           \/ r.op = "truncate" /\ Truncate(r, got)
           \/ r.op = "unlink" /\ Unlink(r, got)
           \/ r.op = "readdir" /\ List(got)

Next == \E t \in Threads : Call(t) \/ Effect(t) \/ Return(t)

Spec == Init /\ [][Next]_vars
=============================================================================
