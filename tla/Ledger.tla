------------------------------- MODULE Ledger -------------------------------
(***************************************************************************)
(* The request handlers that touch money, run one at a time: each reads    *)
(* the tables, decides, and writes one transaction, with nothing between.  *)
(* This is what the code promises its users; Requests runs the same        *)
(* handlers in threads.                                                    *)
(*                                                                         *)
(* A request that is refused (a guard that is false) or that fails leaves  *)
(* the tables alone and is not a step here.                                *)
(***************************************************************************)
EXTENDS Queries

workers_create(active)  == InsertWorker(active)
workers_edit(w, active) == UpdateWorker(w, active)

\* A worker that has a share in a project is kept, to keep the records.
workers_delete(w) == SharesOfWorker(w) = {} /\ DeleteWorker(w)

projects_create(form)           == InsertProject(form)
projects_edit(p, form)          == UpdateProject(p, form)
projects_set_status(p, status)  == SetStatus(p, status)
projects_delete(p)              == DeleteProject(p)

\* No payment above the balance unless the warning is confirmed.
payments_create(w, p, amount, confirm) ==
    /\ amount <= Balance(w) \/ confirm
    /\ InsertPayment(w, p, amount)

\* What if the edited amount were held against all that was ever earned.
payments_edit_within_share(i, amount, confirm) ==
    /\ i \in DOMAIN payment
    /\ amount <= Earned(payment[i].worker) \/ confirm
    /\ UpdatePayment(i, amount)

\* The balance is taken without the payment that is being edited.
payments_edit(i, amount, confirm) ==
    /\ i \in DOMAIN payment
    /\ amount <= Balance(payment[i].worker) + payment[i].amount \/ confirm
    /\ UpdatePayment(i, amount)

payments_delete(i) == DeletePayment(i)

\* What if settling paid the whole share again.
settle_all_share(w) == InsertPayment(w, NoProject, Earned(w))

\* One payment equal to the whole balance, for no project in particular.
settle_all(w) == InsertPayment(w, NoProject, Balance(w))

expenses_create(p, amount) == InsertExpense(p, amount)
expenses_delete(i)         == DeleteExpense(i)
customer_create(p, amount) == InsertReceipt(p, amount)
customer_delete(i)         == DeleteReceipt(i)

-----------------------------------------------------------------------------
LedgerNext ==
    \/ \E active \in Flags : workers_create(active)
    \/ \E w \in Workers, active \in Flags : workers_edit(w, active)
    \/ \E w \in Workers : workers_delete(w)
    \/ \E form \in Forms : projects_create(form)
    \/ \E p \in Projects, form \in Forms : projects_edit(p, form)
    \/ \E p \in Projects, status \in Statuses : projects_set_status(p, status)
    \/ \E p \in Projects : projects_delete(p)
    \/ \E w \in Workers, p \in Projects \cup {NoProject}, amount \in Amounts, confirm \in BOOLEAN :
          payments_create(w, p, amount, confirm)
    \/ \E i \in Payments, amount \in Amounts, confirm \in BOOLEAN : payments_edit(i, amount, confirm)
    \/ \E i \in Payments : payments_delete(i)
    \/ \E w \in Workers : settle_all(w)
    \/ \E p \in Projects, amount \in Amounts : expenses_create(p, amount)
    \/ \E i \in Expenses : expenses_delete(i)
    \/ \E p \in Projects, amount \in Amounts : customer_create(p, amount)
    \/ \E i \in Receipts : customer_delete(i)

LedgerSpec == Init /\ [][LedgerNext]_tables
-----------------------------------------------------------------------------
(***************************************************************************)
(* A payment entered or raised without the confirmation never leaves its   *)
(* worker with a negative balance, however the shares were changed before. *)
(***************************************************************************)
UnconfirmedIsCovered ==
    /\ \A w \in Workers, p \in Projects \cup {NoProject}, amount \in Amounts :
          payments_create(w, p, amount, FALSE) => Balance(w)' >= 0
    /\ \A i \in DOMAIN payment, amount \in Amounts, w \in Workers :
          payments_edit(i, amount, FALSE) /\ payment[i].worker = w => Balance(w)' >= 0

\* No unconfirmed payment takes its worker's balance below zero.
UnconfirmedNeverOverpays == [][UnconfirmedIsCovered]_payment

\* Settling everything leaves the worker with nothing owed either way, and
\* leaves every other worker's balance as it was.
SettlingLeavesZero ==
    \A w \in Workers : settle_all(w) =>
        /\ Balance(w)' = 0
        /\ \A v \in Workers \ {w} : Balance(v)' = Balance(v)

\* "Settle everything" leaves exactly nothing owed.
SettleClears == [][SettlingLeavesZero]_payment
=============================================================================
