------------------------------ MODULE MCLedger ------------------------------
(***************************************************************************)
(* Small instances of Ledger for TLC.                                      *)
(***************************************************************************)
EXTENDS Ledger, TLC

Half == 50 * PercentUnit

HalfOnly == {Half}

\* Ids of one table, and the two workers, are interchangeable.
Interchangeable == Permutations(Workers) \cup Permutations(Projects) \cup Permutations(Payments)
                     \cup Permutations(Expenses) \cup Permutations(Receipts)

\* SumOf, which the proofs use, is the sum the community modules define.
ASSUME SumIsTheFold ==
    \A S \in SUBSET Workers : \A f \in [S -> 0 .. 4] : SumOf(S, f) = SumFunction(f)
=============================================================================
