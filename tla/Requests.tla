------------------------------ MODULE Requests ------------------------------
(***************************************************************************)
(* The money handlers served in threads (run.py and desktop.py start a     *)
(* threaded server, db.get_db gives every request its own connection).     *)
(*                                                                         *)
(* A SELECT outside a transaction reads the tables as they are at that     *)
(* moment and holds no lock afterwards: every read is a step of its own,   *)
(* and other requests may commit between two reads and before the write.   *)
(* The write transaction is one step: all but one are a single statement,  *)
(* and Saves shows it of the save of a project.  A handler that decides    *)
(* nothing from what it read is a single step.                             *)
(*                                                                         *)
(* A thread is idle, or at the step "load", "share", "paid" or "write" of  *)
(* the handler its job names.                                              *)
(*                                                                         *)
(* Expenses and receipts are left to Ledger: their handlers decide nothing *)
(* from what they read, and none of these reads what they write.           *)
(***************************************************************************)
EXTENDS Ledger

CONSTANTS Threads, None

VARIABLES
    pc,      \* thread -> the step it is at
    job,     \* thread -> the request it serves, None when idle
    seen     \* thread -> what its SELECTs returned

threadVars == <<pc, job, seen>>
vars == <<tables, threadVars>>

Jobs ==
    [op : {"payments.create"}, worker : Workers, project : Projects \cup {NoProject},
     amount : Amounts \ {0}, confirm : BOOLEAN]
    \cup [op : {"payments.edit"}, payment : Payments, amount : Amounts \ {0}, confirm : BOOLEAN]
    \cup [op : {"settle_all", "workers.delete"}, worker : Workers]
    \cup [op : {"workers.edit"}, worker : Workers, active : Flags]
    \cup [op : {"projects.edit"}, project : Projects, form : {f \in Forms : FormValid(f)}]

ASSUME NoneAssumption == None \notin Jobs

FirstStep(op) == IF op \in {"payments.create", "settle_all"} THEN "share" ELSE "load"

\* What a thread has read and still needs: the payment being edited and the
\* worker's total share while the balance is worked out, then the amount that
\* settle_all will pay.
NothingSeen == [row |-> None, share |-> 0, amount |-> 0]

RequestsInit ==
    /\ Init
    /\ pc = [t \in Threads |-> "idle"]
    /\ job = [t \in Threads |-> None]
    /\ seen = [t \in Threads |-> NothingSeen]
-----------------------------------------------------------------------------
\* The worker whose balance thread t is working out.
Payee(t) == IF job[t].op = "payments.edit" THEN seen[t].row.worker ELSE job[t].worker

GoTo(t, step) == pc' = [pc EXCEPT ![t] = step] /\ UNCHANGED job

Answer(t) ==
    /\ pc' = [pc EXCEPT ![t] = "idle"]
    /\ job' = [job EXCEPT ![t] = None]
    /\ seen' = [seen EXCEPT ![t] = NothingSeen]

\* The ids in a request come from a page that showed them.
NamesIssuedIds(j) ==
    \A field \in {"worker", "project", "payment"} \cap DOMAIN j :
        j[field] \in issued \cup {NoProject}

Arrive(t, j) ==
    /\ pc[t] = "idle"
    /\ NamesIssuedIds(j)
    /\ pc' = [pc EXCEPT ![t] = FirstStep(j.op)]
    /\ job' = [job EXCEPT ![t] = j]
    /\ UNCHANGED <<tables, seen>>

(***************************************************************************)
(* The first SELECT of the handlers that look up what they work on.  When  *)
(* it is not there (or, for workers.delete, still has shares) the request  *)
(* is answered with a message.                                             *)
(***************************************************************************)
LoadPayment(t) ==
    /\ pc[t] = "load" /\ job[t].op = "payments.edit"
    /\ IF job[t].payment \in DOMAIN payment
         THEN /\ seen' = [seen EXCEPT ![t].row = payment[job[t].payment]]
              /\ GoTo(t, "share")
         ELSE Answer(t)
    /\ UNCHANGED tables

\* The row the handler looks up allows it to go on.
LookupPasses(j) ==
    CASE j.op = "workers.edit"   -> j.worker \in DOMAIN worker
      [] j.op = "workers.delete" -> SharesOfWorker(j.worker) = {}
      [] j.op = "projects.edit"  -> j.project \in DOMAIN project

LookUp(t) ==
    /\ pc[t] = "load" /\ job[t].op \in {"workers.edit", "workers.delete", "projects.edit"}
    /\ IF LookupPasses(job[t]) THEN GoTo(t, "write") /\ UNCHANGED seen
                               ELSE Answer(t)
    /\ UNCHANGED tables

\* worker_totals: the SUM over project_workers ...
ReadShare(t) ==
    /\ pc[t] = "share"
    /\ seen' = [seen EXCEPT ![t].share = Earned(Payee(t))]
    /\ GoTo(t, "paid")
    /\ UNCHANGED tables

\* What the handler decides once it has the balance.
MayWrite(j, balance) ==
    IF j.op = "settle_all" THEN balance > 0
                           ELSE j.amount <= balance \/ j.confirm

\* What if the new amount of an edited payment were added to the balance, not the old.
ReadPaidNewAmount(t) ==
    LET own     == IF job[t].op = "payments.edit" THEN job[t].amount ELSE 0
        balance == seen[t].share - Paid(Payee(t)) + own
    IN  /\ pc[t] = "paid"
        /\ IF MayWrite(job[t], balance)
             THEN /\ seen' = [seen EXCEPT ![t] =
                                [NothingSeen EXCEPT !.amount =
                                   IF job[t].op = "settle_all" THEN balance ELSE 0]]
                  /\ GoTo(t, "write")
             ELSE Answer(t)
        /\ UNCHANGED tables

\* ... then, in a second statement, the SUM over payments, and the decision.
ReadPaid(t) ==
    LET own     == IF job[t].op = "payments.edit" THEN seen[t].row.amount ELSE 0
        balance == seen[t].share - Paid(Payee(t)) + own
    IN  /\ pc[t] = "paid"
        /\ IF MayWrite(job[t], balance)
             THEN /\ seen' = [seen EXCEPT ![t] =
                                [NothingSeen EXCEPT !.amount =
                                   IF job[t].op = "settle_all" THEN balance ELSE 0]]
                  /\ GoTo(t, "write")
             ELSE Answer(t)
        /\ UNCHANGED tables

(***************************************************************************)
(* The write transaction.  A foreign key that no longer holds undoes it,   *)
(* and an UPDATE or DELETE may find no row: the tables are then unchanged. *)
(***************************************************************************)
Transaction(t) ==
    LET j == job[t]
    IN  CASE j.op = "payments.create" -> InsertPayment(j.worker, j.project, j.amount)
          [] j.op = "payments.edit"   -> UpdatePayment(j.payment, j.amount)
          [] j.op = "settle_all"      -> InsertPayment(j.worker, NoProject, seen[t].amount)
          [] j.op = "workers.edit"    -> UpdateWorker(j.worker, j.active)
          [] j.op = "workers.delete"  -> DeleteWorker(j.worker)
          [] j.op = "projects.edit"   -> UpdateProject(j.project, j.form)

Write(t) ==
    /\ pc[t] = "write"
    /\ Transaction(t)
    /\ Answer(t)

\* Nothing is written: an integrity error, no row to change, a write lock that
\* did not come free in time, or the process dying before the commit.
Fail(t) ==
    /\ pc[t] # "idle"
    /\ Answer(t)
    /\ UNCHANGED tables

\* The handlers that read nothing they depend on, and write one statement.
OneStatementHandler ==
    \/ \E active \in Flags : workers_create(active)
    \/ \E p \in Projects, status \in Statuses : projects_set_status(p, status)
    \/ \E p \in Projects : projects_delete(p)
    \/ \E i \in Payments : payments_delete(i)

OneStepHandler == OneStatementHandler \/ \E form \in Forms : projects_create(form)

ServeAtOnce(t) ==
    /\ pc[t] = "idle"
    /\ OneStepHandler
    /\ UNCHANGED threadVars

Step(t) == LoadPayment(t) \/ LookUp(t) \/ ReadShare(t) \/ ReadPaid(t) \/ Write(t) \/ Fail(t)

RequestsNext ==
    \E t \in Threads :
        \/ \E j \in Jobs : Arrive(t, j)
        \/ Step(t)
        \/ ServeAtOnce(t)

RequestsSpec == RequestsInit /\ [][RequestsNext]_vars
-----------------------------------------------------------------------------
\* The tables are well typed, and every thread that is not idle serves a request.
RequestsTypeOK ==
    /\ TypeOK
    /\ pc \in [Threads -> {"idle", "load", "share", "paid", "write"}]
    /\ job \in [Threads -> Jobs \cup {None}]
    /\ seen \in [Threads -> [row : PaymentRow \cup {None}, share : Nat, amount : Nat]]
    /\ \A t \in Threads : job[t] = None <=> pc[t] = "idle"

\* What Ledger does in one step for the request j.
AtOnce(j) ==
    CASE j.op = "payments.create" -> payments_create(j.worker, j.project, j.amount, j.confirm)
      [] j.op = "payments.edit"   -> payments_edit(j.payment, j.amount, j.confirm)
      [] j.op = "settle_all"      -> settle_all(j.worker)
      [] j.op = "workers.edit"    -> workers_edit(j.worker, j.active)
      [] j.op = "workers.delete"  -> workers_delete(j.worker)
      [] j.op = "projects.edit"   -> projects_edit(j.project, j.form)

\* A thread commits: its handler ends and the tables have changed.
Writes(t) == pc[t] = "write" /\ pc'[t] = "idle" /\ tables' # tables

\* The worker whom the payment that t writes goes to.
PaidWorker(t) ==
    IF job[t].op = "payments.edit" THEN payment[job[t].payment].worker ELSE job[t].worker

\* README.md:36 "preventing a payment above the balance unless the warning is
\* confirmed", of a request as its user sees it.
NoOverpayUnlessConfirmed ==
    [][\A t \in Threads, w \in Workers :
          (/\ Writes(t)
           /\ job[t].op \in {"payments.create", "payments.edit"}
           /\ ~job[t].confirm
           /\ PaidWorker(t) = w) => Balance(w)' >= 0]_vars
=============================================================================
