----------------------------- MODULE MCAccounts -----------------------------
(***************************************************************************)
(* Small instances of Accounts for TLC.                                    *)
(***************************************************************************)
EXTENDS Accounts, TLC

\* That of an older program, without users (test_smoke.py:211), and those of schema.sql with
\* their administrator.
MCFiles ==
    {[user |-> EmptyTable, issued |-> {}, auto |-> FALSE]}
    \cup {[user |-> u :> [name |-> DefaultName, role |-> "admin", active |-> TRUE],
           issued |-> {u}, auto |-> TRUE] : u \in Users}

Interchangeable == Permutations(Users) \cup Permutations(Browsers) \cup Permutations(Threads)
=============================================================================
