------------------------------- MODULE Pages --------------------------------
(***************************************************************************)
(* The pages that show money: the dashboard, the page of a project and the *)
(* settlement page of a worker.  Each is put together from many SELECTs,   *)
(* and every SELECT reads the database as it is at that moment: the server *)
(* answers in threads and a view that only reads opens no transaction, so  *)
(* other requests may commit between any two of them.                      *)
(*                                                                         *)
(* One page is read at a time (readers do not affect one another); the     *)
(* commits in between are any that Database allows.  The lists that no     *)
(* figure goes with (recent and unsettled projects) are left out, and so   *)
(* is the printed project, which reads like its page.                      *)
(***************************************************************************)
EXTENDS Queries

CONSTANTS
    NoPage,        \* nobody reads
    MaxCommits     \* how many commits may fall into the reading of one page

\* The id in an address may be one that is gone, or never was.
Addresses == [kind : {"dashboard"}, id : {NoProject}] \cup [kind : {"project"}, id : Projects]
               \cup [kind : {"settlement"}, id : Workers]

ASSUME PagesAssumption == MaxCommits \in Nat /\ NoPage \notin Addresses

VARIABLES
    page,      \* the page being read: its kind and the id in its address
    results,   \* <<SELECT, the id it asks for>> -> what it returned
    commits    \* how many transactions committed since its first SELECT

pageVars == <<tables, page, results, commits>>

-----------------------------------------------------------------------------
\* The SELECTs of each page, in their order.
Selects ==
    [dashboard  |-> <<"count", "labor", "shares", "paid", "unsettled", "expenses", "totals",
                      "received", "debts">>,
     project    |-> <<"project", "workers", "worker_paid", "payments", "expense_list",
                      "receipt_list", "project_again", "workers_share", "project_expenses",
                      "project_received", "workers_paid">>,
     settlement |-> <<"worker", "projects", "worker_payments", "worker_share", "worker_total">>]

\* What if the settlement page listed only the payments that have a project.
PaymentListJoined(w) == {i \in PaymentsOfWorker(w) : payment[i].project \in DOMAIN project}

\* The settlement page's list of payments: a LEFT JOIN, so one without a project stays.
PaymentList(w) == PaymentsOfWorker(w)

PaidOn(p, w) == SumOf(PaymentsOfWorker(w) \cap PaymentsOfProject(p), AmountOf(payment))

\* What every SELECT returns for the id x at this moment.  A list, and the row
\* of an id, is the part of the table that its WHERE and JOIN clauses let through.
Answers(x) ==
    [count       |-> Cardinality(DOMAIN project),
     labor       |-> SumOf(DOMAIN project, LaborOf),
     shares      |-> SumOf(DOMAIN share, share),
     paid        |-> SumOf(DOMAIN payment, AmountOf(payment)),
     unsettled   |-> Cardinality({p \in DOMAIN project : project[p].status # "settled"}),
     expenses    |-> SumOf(DOMAIN expense, AmountOf(expense)),
     totals      |-> SumOf(DOMAIN project, TotalOf),
     received    |-> SumOf(DOMAIN receipt, AmountOf(receipt)),
     debts       |-> [w \in {v \in DOMAIN worker : Balance(v) # 0} |-> Balance(w)],
     project          |-> Restrict(project, {x} \cap DOMAIN project),
     workers          |-> Restrict(share, {r \in SharesOfProject(x) : r[2] \in DOMAIN worker}),
     worker_paid      |-> PaidOn(page.id, x),
     payments         |-> Restrict(payment, {i \in PaymentsOfProject(x) :
                                               payment[i].worker \in DOMAIN worker}),
     expense_list     |-> Restrict(expense, {i \in DOMAIN expense : expense[i].project = x}),
     receipt_list     |-> Restrict(receipt, {i \in DOMAIN receipt : receipt[i].project = x}),
     project_again    |-> Restrict(project, {x} \cap DOMAIN project),
     workers_share    |-> SumOf(SharesOfProject(x), share),
     project_expenses |-> ItemsOf(x, expense),
     project_received |-> ItemsOf(x, receipt),
     workers_paid     |-> SumOf(PaymentsOfProject(x), AmountOf(payment)),
     worker           |-> Restrict(worker, {x} \cap DOMAIN worker),
     projects         |-> [r \in {s \in SharesOfWorker(x) : s[1] \in DOMAIN project} |->
                             [share_amount |-> share[r], paid_on_project |-> PaidOn(r[1], x)]],
     worker_payments  |-> Restrict(payment, PaymentList(x)),
     worker_share     |-> Earned(x),
     worker_total     |-> Paid(x)]

-----------------------------------------------------------------------------
PagesInit == Init /\ page = NoPage /\ results = EmptyTable /\ commits = 0

Asked(name) == page # NoPage /\ <<name, page.id>> \in DOMAIN results

Shown(name) == IF Asked(name) THEN results[<<name, page.id>>] ELSE EmptyTable

\* One SELECT runs once for every worker that the page lists.
Subjects(name) ==
    IF name = "worker_paid" THEN {r[2] : r \in DOMAIN Shown("workers")} ELSE {page.id}

Unread(n) == ({Selects[page.kind][n]} \X Subjects(Selects[page.kind][n])) \ DOMAIN results

\* fetchone() returned no row: the view redirects, or fails if it was the second look.
NotFound(name) == Asked(name) /\ DOMAIN Shown(name) = {}

Redirected == NotFound("project") \/ NotFound("worker")
Broken     == NotFound("project_again")

Complete ==
    /\ page # NoPage
    /\ ~Redirected /\ ~Broken
    /\ \A n \in DOMAIN Selects[page.kind] : Unread(n) = {}

OpenPage ==
    /\ page = NoPage
    /\ page' \in Addresses
    /\ UNCHANGED <<tables, results, commits>>

ReadNext ==
    /\ page # NoPage
    /\ ~Redirected /\ ~Broken
    /\ \E n \in DOMAIN Selects[page.kind] :
          /\ \A m \in 1 .. n - 1 : Unread(m) = {}
          /\ \E q \in Unread(n) : results' = Put(results, q, Answers(q[2])[q[1]])
    /\ UNCHANGED <<tables, page, commits>>

ClosePage ==
    /\ Complete \/ Redirected \/ Broken
    /\ page' = NoPage /\ results' = EmptyTable /\ commits' = 0
    /\ UNCHANGED tables

Commit ==
    /\ Next
    /\ commits < MaxCommits
    /\ commits' = IF results = EmptyTable THEN 0 ELSE commits + 1
    /\ UNCHANGED <<page, results>>

PagesNext == OpenPage \/ ReadNext \/ ClosePage \/ Commit

PagesSpec == PagesInit /\ [][PagesNext]_pageVars
-----------------------------------------------------------------------------
\* What has been read belongs to the page that is being read, and nothing is
\* read, or counted, for no page.
PagesTypeOK ==
    /\ page \in Addresses \cup {NoPage}
    /\ commits \in 0 .. MaxCommits
    /\ page = NoPage => results = EmptyTable
    /\ results = EmptyTable => commits = 0
    /\ page # NoPage => \A q \in DOMAIN results :
          \E n \in DOMAIN Selects[page.kind] : q[1] = Selects[page.kind][n]

\* A list of amounts and a figure beside it.
ListAddsUp(list, figure) == SumOf(DOMAIN list, AmountOf(list)) = figure

DashboardAddsUp ==
    /\ Shown("shares") - Shown("paid")
         = SumFunction(Shown("debts"))
    /\ Shown("shares") <= Shown("labor")

ProjectAddsUp ==
    LET workers  == Shown("workers")
        payments == Shown("payments")
    IN  /\ SumOf(DOMAIN workers, workers) = Shown("workers_share")
        /\ Shown("workers_share") <= Shown("project_again")[page.id].labor
        /\ \A r \in DOMAIN workers :
              results[<<"worker_paid", r[2]>>]
                = SumOf({i \in DOMAIN payments : payments[i].worker = r[2]}, AmountOf(payments))
        /\ ListAddsUp(payments, Shown("workers_paid"))
        /\ ListAddsUp(Shown("expense_list"), Shown("project_expenses"))
        /\ ListAddsUp(Shown("receipt_list"), Shown("project_received"))

SettlementAddsUp ==
    LET projects == Shown("projects")
        payments == Shown("worker_payments")
    IN  /\ SumOf(DOMAIN projects, [r \in DOMAIN projects |-> projects[r].share_amount])
             = Shown("worker_share")
        /\ \A r \in DOMAIN projects :
              projects[r].paid_on_project
                = SumOf({i \in DOMAIN payments : payments[i].project = r[1]}, AmountOf(payments))
        /\ ListAddsUp(payments, Shown("worker_total"))

(***************************************************************************)
(* Unless a commit fell between its SELECTs, a page is consistent: every   *)
(* total is the sum of the rows listed with it, what is paid per project   *)
(* or worker is what the listed payments say, the dashboard's debt is that *)
(* of the workers it names, and no page shows a negative part of the shop. *)
(***************************************************************************)
PagesAddUp ==
    Complete /\ commits = 0 =>
        /\ page.kind = "dashboard"  => DashboardAddsUp
        /\ page.kind = "project"    => ProjectAddsUp
        /\ page.kind = "settlement" => SettlementAddsUp

(***************************************************************************)
(* A project's page fails (its figures are looked up under an id it has    *)
(* already found) only when the project was deleted while the page was     *)
(* read; and as ids are not given again, trying again never shows another  *)
(* project in its place.                                                   *)
(***************************************************************************)
BreaksOnlyOnDeletion == Broken => commits > 0 /\ page.id \in issued \ DOMAIN project
=============================================================================
