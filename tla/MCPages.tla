------------------------------ MODULE MCPages -------------------------------
(***************************************************************************)
(* Small instances of Pages for TLC.                                       *)
(***************************************************************************)
EXTENDS Pages, TLC

Interchangeable == Permutations(Workers) \cup Permutations(Projects) \cup Permutations(Payments)
                     \cup Permutations(Expenses)
=============================================================================
