------------------------- MODULE MCSimpleFileSystem -------------------------
(***************************************************************************)
(* An instance of SimpleFileSystem whose names are interchangeable: no     *)
(* definition prefers one name to another, and the run checks invariants   *)
(* only, so that symmetry is sound.                                        *)
(***************************************************************************)
EXTENDS SimpleFileSystem, TLC

NameSymmetry == Permutations(Names)
=============================================================================
