----------------------------- MODULE MCRequests -----------------------------
(***************************************************************************)
(* Small instances of Requests for TLC.                                    *)
(***************************************************************************)
EXTENDS Requests, TLC

Interchangeable == Permutations(Workers) \cup Permutations(Projects) \cup Permutations(Payments)
                     \cup Permutations(Threads)
=============================================================================
