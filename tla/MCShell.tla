------------------------------- MODULE MCShell -------------------------------
(***************************************************************************)
(* An instance of Shell whose pids are interchangeable: no definition      *)
(* prefers one pid to another, and the run checks no liveness, so that     *)
(* symmetry is sound.  Nor does anything depend on where in the array the  *)
(* ring of commands begins: two states are one if they agree when the ring *)
(* is read from its newest command on.                                     *)
(***************************************************************************)
EXTENDS Shell, TLC

PidSymmetry == Permutations(Pids)

View == <<[i \in 1 .. HISTORY_SIZE |-> commands[Spot(i)]], totalCount, recent,
          jobs, control, kernel>>
=============================================================================
