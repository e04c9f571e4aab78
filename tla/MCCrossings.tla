---------------------------- MODULE MCCrossings -----------------------------
(***************************************************************************)
(* Small instances of Crossings for TLC.                                   *)
(***************************************************************************)
EXTENDS Crossings, TLC

Interchangeable == Permutations(Workers) \cup Permutations(Projects) \cup Permutations(Payments)
                     \cup Permutations(Threads)
=============================================================================
