------------------------------ MODULE Database ------------------------------
(***************************************************************************)
(* The money tables of payroll/schema.sql and the write transactions the   *)
(* request handlers run on them.                                           *)
(*                                                                         *)
(* sqlite3 opens a transaction at a connection's first INSERT, UPDATE or   *)
(* DELETE, takes the write lock and keeps it until commit(): what a        *)
(* handler writes is one step here, and an integrity error undoes all of   *)
(* it (the request ends in an error page and the tables stay as they       *)
(* were, a step this module does not need to name).  Saves takes the one   *)
(* transaction of several statements apart.  What a handler READ before    *)
(* that point is not part of the transaction: it is modelled in Ledger     *)
(* (handlers one at a time) and in Requests (handlers in threads).         *)
(*                                                                         *)
(* Left out: names, notes, dates and payment methods (no rule depends on   *)
(* them) and the columns mode and percent of project_workers, which the    *)
(* schema declares for display only (share_amount is what is summed).      *)
(***************************************************************************)
EXTENDS Tables, Shares

CONSTANTS
    Workers, Projects, Payments,   \* the ids AUTOINCREMENT may issue, by table
    Expenses, Receipts,
    NoProject,                     \* NULL in payments.project_id
    Blank,                         \* an empty field of a form
    Flags,                         \* what the "active" box of a worker form may carry
    Statuses,                      \* the keys of STATUS_LABELS
    Amounts,                       \* the amounts a form may carry (parse_amount)
    Totals,                        \* what the customer-total field of a form may carry
    PaidAmounts,                   \* the amounts a payment may have: settle_all pays a
                                   \* balance, which need not be one a form carries
    Percents                       \* the percents a form may carry (parse_percent)

ASSUME SentinelAssumption == NoProject \notin Projects /\ Blank \notin Nat
ASSUME AmountAssumption   == Amounts \subseteq PaidAmounts /\ PaidAmounts \subseteq Nat
ASSUME TotalAssumption    == Totals \subseteq Amounts \cup {Blank}
ASSUME FlagAssumption     == Flags \subseteq BOOLEAN
ASSUME PercentAssumption  == Percents \subseteq 0 .. Hundred
ASSUME FiniteAssumption   == IsFiniteSet(Workers) /\ IsFiniteSet(Projects) /\ IsFiniteSet(Payments)

VARIABLES
    worker,     \* workers:           id -> is_active
    project,    \* projects:          id -> labor_amount, customer_total, status
    share,      \* project_workers:   <<project, worker>> -> share_amount
    payment,    \* payments:          id -> worker, project or NULL, amount
    expense,    \* expenses:          id -> project, amount
    receipt,    \* customer_payments: id -> project, amount
    issued      \* sqlite_sequence:   the ids given out, which are never given again

tables == <<worker, project, share, payment, expense, receipt, issued>>

ProjectRow  == [labor : Nat, customer_total : Nat, status : Statuses]
PaymentRow  == [worker : Workers, project : Projects \cup {NoProject}, amount : Nat \ {0}]
ProjectItem == [project : Projects, amount : Nat \ {0}]    \* an expense or a receipt

Ids == Workers \cup Projects \cup Payments \cup Expenses \cup Receipts

-----------------------------------------------------------------------------
(***************************************************************************)
(* The project form, after its fields are parsed.  rows has an entry for   *)
(* every ticked worker.  A form that fails FormValid is shown again and    *)
(* nothing is written.                                                     *)
(***************************************************************************)
Forms == [labor : Amounts, customer_total : Totals, status : Statuses,
          rows : UNION {[S -> Entries(Percents, Amounts)] : S \in SUBSET Workers}]

FormShares(form) == [w \in DOMAIN form.rows |-> row_share(form.labor, form.rows[w])]

\* The shares together may not exceed the labor amount.
FormValid(form) == SumOf(DOMAIN form.rows, FormShares(form)) <= form.labor

\* An empty customer total stands for the labor amount.
FormProject(form) ==
    [labor |-> form.labor,
     customer_total |-> IF form.customer_total = Blank THEN form.labor ELSE form.customer_total,
     status |-> form.status]

FormRows(p, form) == [r \in {p} \X (DOMAIN form.rows) |-> FormShares(form)[r[2]]]

SharesOfProject(p) == {r \in DOMAIN share : r[1] = p}
SharesOfWorker(w)  == {r \in DOMAIN share : r[2] = w}
-----------------------------------------------------------------------------
Init ==
    /\ worker = EmptyTable
    /\ project = EmptyTable
    /\ share = EmptyTable
    /\ payment = EmptyTable
    /\ expense = EmptyTable
    /\ receipt = EmptyTable
    /\ issued = {}

\* What if it were a plain INTEGER PRIMARY KEY: the id of a deleted row may come again.
NewIdOfNoRow(id) ==
    /\ id \notin DOMAIN worker \cup DOMAIN project \cup DOMAIN payment \cup DOMAIN expense
                   \cup DOMAIN receipt
    /\ issued' = issued \cup {id}

\* AUTOINCREMENT: the new row gets an id that no row of the table ever had.
NewId(id) == id \notin issued /\ issued' = issued \cup {id}

InsertWorker(active) ==
    /\ \E w \in Workers : NewId(w) /\ worker' = Put(worker, w, active)
    /\ UNCHANGED <<project, share, payment, expense, receipt>>

UpdateWorker(w, active) ==
    /\ w \in DOMAIN worker
    /\ worker' = Put(worker, w, active)
    /\ UNCHANGED <<project, share, payment, expense, receipt, issued>>

\* What if payments had no cascade: the worker goes and its payments stay.
DeleteWorkerNotPayments(w) ==
    /\ w \in DOMAIN worker
    /\ worker' = Without(worker, {w})
    /\ share' = Without(share, SharesOfWorker(w))
    /\ UNCHANGED <<project, payment, expense, receipt, issued>>

\* ON DELETE CASCADE takes the worker's shares and payments along.
DeleteWorker(w) ==
    /\ w \in DOMAIN worker
    /\ worker' = Without(worker, {w})
    /\ share' = Without(share, SharesOfWorker(w))
    /\ payment' = Without(payment, {i \in DOMAIN payment : payment[i].worker = w})
    /\ UNCHANGED <<project, expense, receipt, issued>>

\* The worker rows must satisfy their foreign key or the whole save is undone.
InsertProject(form) ==
    /\ FormValid(form)
    /\ DOMAIN form.rows \subseteq DOMAIN worker
    /\ \E p \in Projects :
          /\ NewId(p)
          /\ project' = Put(project, p, FormProject(form))
          /\ share' = Upsert(share, FormRows(p, form))
    /\ UNCHANGED <<worker, payment, expense, receipt>>

\* What if a save added the form's worker rows to the ones that were there.
UpdateProjectKeepingRows(p, form) ==
    /\ FormValid(form)
    /\ p \in DOMAIN project
    /\ DOMAIN form.rows \subseteq DOMAIN worker
    /\ project' = Put(project, p, FormProject(form))
    /\ share' = Upsert(share, FormRows(p, form))
    /\ UNCHANGED <<worker, payment, expense, receipt, issued>>

\* The old worker rows are deleted and the form's are inserted.  On a project
\* that is gone the UPDATE matches no row and the save changes nothing.
UpdateProject(p, form) ==
    /\ FormValid(form)
    /\ p \in DOMAIN project
    /\ DOMAIN form.rows \subseteq DOMAIN worker
    /\ project' = Put(project, p, FormProject(form))
    /\ share' = Upsert(Without(share, SharesOfProject(p)), FormRows(p, form))
    /\ UNCHANGED <<worker, payment, expense, receipt, issued>>

SetStatus(p, status) ==
    /\ p \in DOMAIN project
    /\ project' = Put(project, p, [project[p] EXCEPT !.status = status])
    /\ UNCHANGED <<worker, share, payment, expense, receipt, issued>>

\* What if everything that belongs to it stayed behind.
DeleteProjectAlone(p) ==
    /\ p \in DOMAIN project
    /\ project' = Without(project, {p})
    /\ UNCHANGED <<worker, share, payment, expense, receipt, issued>>

\* Shares, expenses and receipts go with the project (CASCADE); its payments
\* stay and lose their project (SET NULL).
DeleteProject(p) ==
    /\ p \in DOMAIN project
    /\ project' = Without(project, {p})
    /\ share' = Without(share, SharesOfProject(p))
    /\ payment' = [i \in DOMAIN payment |->
                     IF payment[i].project = p THEN [payment[i] EXCEPT !.project = NoProject]
                                               ELSE payment[i]]
    /\ expense' = Without(expense, {i \in DOMAIN expense : expense[i].project = p})
    /\ receipt' = Without(receipt, {i \in DOMAIN receipt : receipt[i].project = p})
    /\ UNCHANGED <<worker, issued>>

\* What if a payment of nothing, or of less, were entered.
InsertPaymentOfAnything(w, p, amount) ==
    /\ w \in DOMAIN worker
    /\ p \in DOMAIN project \cup {NoProject}
    /\ \E i \in Payments :
          /\ NewId(i)
          /\ payment' = Put(payment, i, [worker |-> w, project |-> p, amount |-> amount])
    /\ UNCHANGED <<worker, project, share, expense, receipt>>

InsertPayment(w, p, amount) ==
    /\ amount > 0
    /\ w \in DOMAIN worker
    /\ p \in DOMAIN project \cup {NoProject}
    /\ \E i \in Payments :
          /\ NewId(i)
          /\ payment' = Put(payment, i, [worker |-> w, project |-> p, amount |-> amount])
    /\ UNCHANGED <<worker, project, share, expense, receipt>>

UpdatePayment(i, amount) ==
    /\ amount > 0
    /\ i \in DOMAIN payment
    /\ payment' = Put(payment, i, [payment[i] EXCEPT !.amount = amount])
    /\ UNCHANGED <<worker, project, share, expense, receipt, issued>>

DeletePayment(i) ==
    /\ i \in DOMAIN payment
    /\ payment' = Without(payment, {i})
    /\ UNCHANGED <<worker, project, share, expense, receipt, issued>>

InsertExpense(p, amount) ==
    /\ amount > 0
    /\ p \in DOMAIN project
    /\ \E i \in Expenses : NewId(i) /\ expense' = Put(expense, i, [project |-> p, amount |-> amount])
    /\ UNCHANGED <<worker, project, share, payment, receipt>>

DeleteExpense(i) ==
    /\ i \in DOMAIN expense
    /\ expense' = Without(expense, {i})
    /\ UNCHANGED <<worker, project, share, payment, receipt, issued>>

InsertReceipt(p, amount) ==
    /\ amount > 0
    /\ p \in DOMAIN project
    /\ \E i \in Receipts : NewId(i) /\ receipt' = Put(receipt, i, [project |-> p, amount |-> amount])
    /\ UNCHANGED <<worker, project, share, payment, expense>>

DeleteReceipt(i) ==
    /\ i \in DOMAIN receipt
    /\ receipt' = Without(receipt, {i})
    /\ UNCHANGED <<worker, project, share, payment, expense, issued>>
-----------------------------------------------------------------------------
Next ==
    \/ \E active \in Flags : InsertWorker(active)
    \/ \E w \in Workers, active \in Flags : UpdateWorker(w, active)
    \/ \E w \in Workers : DeleteWorker(w)
    \/ \E form \in Forms : InsertProject(form)
    \/ \E p \in Projects, form \in Forms : UpdateProject(p, form)
    \/ \E p \in Projects, status \in Statuses : SetStatus(p, status)
    \/ \E p \in Projects : DeleteProject(p)
    \/ \E w \in Workers, p \in Projects \cup {NoProject}, amount \in PaidAmounts :
          InsertPayment(w, p, amount)
    \/ \E i \in Payments, amount \in PaidAmounts : UpdatePayment(i, amount)
    \/ \E i \in Payments : DeletePayment(i)
    \/ \E p \in Projects, amount \in Amounts : InsertExpense(p, amount)
    \/ \E i \in Expenses : DeleteExpense(i)
    \/ \E p \in Projects, amount \in Amounts : InsertReceipt(p, amount)
    \/ \E i \in Receipts : DeleteReceipt(i)

Spec == Init /\ [][Next]_tables
-----------------------------------------------------------------------------
\* The rows of each table are well formed and under ids that were issued.
TypeOK ==
    /\ issued \subseteq Ids
    /\ IsTable(worker, Workers \cap issued, BOOLEAN)
    /\ IsTable(project, Projects \cap issued, ProjectRow)
    /\ IsTable(share, Projects \X Workers, Nat)
    /\ IsTable(payment, Payments \cap issued, PaymentRow)
    /\ IsTable(expense, Expenses \cap issued, ProjectItem)
    /\ IsTable(receipt, Receipts \cap issued, ProjectItem)

\* No row points at a row that is gone, whatever deletions and saves cross:
\* the schema's REFERENCES clauses with the pragma get_db switches on.
ForeignKeys ==
    /\ DOMAIN share \subseteq (DOMAIN project) \X (DOMAIN worker)
    /\ \A i \in DOMAIN payment : /\ payment[i].worker \in DOMAIN worker
                                 /\ payment[i].project \in DOMAIN project \cup {NoProject}
    /\ \A i \in DOMAIN expense : expense[i].project \in DOMAIN project
    /\ \A i \in DOMAIN receipt : receipt[i].project \in DOMAIN project

\* On every project the shares together stay within the labor amount, so the
\* shop's part (labor less shares) is never negative: _save_project checks the
\* form, and labor and shares must then always come from the same save.
LaborCap ==
    \A p \in DOMAIN project : SumOf(SharesOfProject(p), share) <= project[p].labor
=============================================================================
