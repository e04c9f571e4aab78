------------------------------- MODULE Tables -------------------------------
(***************************************************************************)
(* What the SQL engine gives every statement of the program: tables, the   *)
(* rows a statement adds, replaces or removes, and SUM over a column.      *)
(*                                                                         *)
(* A table is a function from the primary keys it holds to their rows.     *)
(* SQLite is not in the repository: this module is modelled from how       *)
(* src/payroll uses it.                                                    *)
(***************************************************************************)
EXTENDS Integers, FiniteSets, Functions

\* t holds rows of type Row under keys taken from Keys.
IsTable(t, Keys, Row) == /\ DOMAIN t \subseteq Keys
                         /\ t \in [DOMAIN t -> Row]

EmptyTable == [k \in {} |-> k]

\* INSERT of new rows, or UPDATE of rows already there.
Upsert(t, rows) ==
    [k \in DOMAIN t \cup DOMAIN rows |-> IF k \in DOMAIN rows THEN rows[k] ELSE t[k]]

Put(t, key, row) == Upsert(t, [k \in {key} |-> row])

\* DELETE of the rows under the keys in gone.
Without(t, gone) == Restrict(t, DOMAIN t \ gone)

(***************************************************************************)
(* SUM of a column of natural numbers over the rows in S: its units laid   *)
(* out one by one and counted.  Written without recursion so that TLAPS    *)
(* can reason about it through cardinalities; a run checks that it equals  *)
(* the fold of the community modules (SumFunction).                        *)
(***************************************************************************)
Units(S, column) == UNION {{k} \X (1 .. column[k]) : k \in S}

SumOf(S, column) == Cardinality(Units(S, column))

\* The amount column of a table whose rows carry one.
AmountOf(t) == [k \in DOMAIN t |-> t[k].amount]
=============================================================================
