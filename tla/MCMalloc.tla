------------------------------ MODULE MCMalloc ------------------------------
(***************************************************************************)
(* The allocator for TLC.  What earlier blocks left in memory tells states *)
(* apart that behave alike until the first fault: two states are one if    *)
(* the words of their blocks' headers agree.                               *)
(***************************************************************************)
EXTENDS Malloc

Headers == DOMAIN live \cup UNION {{b, b + PREV_POINTER_OFFSET, b + NEXT_POINTER_OFFSET} :
                                       b \in FreeSet}
View == <<[heap EXCEPT !.word = [a \in Headers |-> Load(heap, a)]],
          allocationPolicy, live, faults>>
=============================================================================
