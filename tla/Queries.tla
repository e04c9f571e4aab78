------------------------------ MODULE Queries -------------------------------
(***************************************************************************)
(* The figures the pages show (payroll/queries.py and the reports of       *)
(* blueprints/reports.py without a date range), each computed from the     *)
(* tables as one moment shows them, and how those figures must relate to   *)
(* one another.                                                            *)
(***************************************************************************)
EXTENDS Database

\* worker_totals: what a worker earned, was paid, and is still owed.
PaymentsOfWorkerInProjects(w) ==      \* what if a settlement of everything were left out
    {i \in DOMAIN payment : payment[i].worker = w /\ payment[i].project # NoProject}
PaymentsOfWorker(w)  == {i \in DOMAIN payment : payment[i].worker = w}
PaymentsOfProject(p) == {i \in DOMAIN payment : payment[i].project = p}

Earned(w)  == SumOf(SharesOfWorker(w), share)
Paid(w)    == SumOf(PaymentsOfWorker(w), AmountOf(payment))
Balance(w) == Earned(w) - Paid(w)

\* A table of expenses or receipts, summed over one project.
ItemsOf(p, items) == SumOf({i \in DOMAIN items : items[i].project = p}, AmountOf(items))

project_financials(p) ==
    LET shop == project[p].labor - SumOf(SharesOfProject(p), share)
        got  == ItemsOf(p, receipt)
    IN  [workers_paid         |-> SumOf(PaymentsOfProject(p), AmountOf(payment)),
         shop_before_expenses |-> shop,
         shop_after_expenses  |-> shop - ItemsOf(p, expense),
         customer_balance     |-> project[p].customer_total - got,
         customer_status      |-> customer_status(project[p].customer_total, got)]

LaborOf == [p \in DOMAIN project |-> project[p].labor]
TotalOf == [p \in DOMAIN project |-> project[p].customer_total]

\* Every figure is the SUM or COUNT of one whole table: no join.
dashboard_stats ==
    LET labor     == SumOf(DOMAIN project, LaborOf)
        shares    == SumOf(DOMAIN share, share)
        paid      == SumOf(DOMAIN payment, AmountOf(payment))
        shop      == labor - shares
    IN  [total_workers_share |-> shares,
         total_paid          |-> paid,
         total_debt          |-> shares - paid,
         unsettled_count     |-> Cardinality({p \in DOMAIN project : project[p].status # "settled"}),
         shop_real           |-> shop - SumOf(DOMAIN expense, AmountOf(expense)),
         customer_receivable |-> SumOf(DOMAIN project, TotalOf)
                                   - SumOf(DOMAIN receipt, AmountOf(receipt))]

-----------------------------------------------------------------------------
\* workers_with_balances(only_debt): the rows with something left to pay.
IndebtedWorkers == {w \in DOMAIN worker : Balance(w) > 0}

\* report projects: one row per project.
report_projects ==
    [p \in DOMAIN project |->
        LET shares == SumOf(SharesOfProject(p), share)
        IN  [workers_share |-> shares, shop |-> project[p].labor - shares]]

\* project_workers JOIN projects JOIN workers.
JoinedShares == {r \in DOMAIN share : r[1] \in DOMAIN project /\ r[2] \in DOMAIN worker}

\* reports workers_share and worker_performance: a row for every worker that has
\* a joined share; the balance is that of all his projects and payments.
report_worker_performance ==
    [w \in {r[2] : r \in JoinedShares} |->
        [share |-> SumOf({r \in JoinedShares : r[2] = w}, share), balance |-> Balance(w)]]

\* report worker_debt: only positive balances enter its total.
ReportedDebt == SumFunction([w \in IndebtedWorkers |-> Balance(w)])

\* report shop_profit: shares and expenses that JOIN a project.
ReportedProfit ==
    SumOf(DOMAIN project, LaborOf)
      - SumOf({r \in DOMAIN share : r[1] \in DOMAIN project}, share)
      - SumOf({i \in DOMAIN expense : expense[i].project \in DOMAIN project}, AmountOf(expense))

\* report customer_unpaid: only projects with something left to receive.
ReportedReceivable ==
    LET left == [p \in DOMAIN project |-> project_financials(p).customer_balance]
    IN  SumFunctionOnSet(left, {p \in DOMAIN project : left[p] > 0})

-----------------------------------------------------------------------------
(***************************************************************************)
(* What workers earned, three ways: the dashboard's SUM of one table, the  *)
(* projects report's rows and the performance report's joined rows add up  *)
(* to the same, and nobody who is still owed money is left out of the      *)
(* latter.                                                                 *)
(***************************************************************************)
WagesAgree ==
    /\ dashboard_stats.total_workers_share
         = SumFunction([p \in DOMAIN project |-> report_projects[p].workers_share])
    /\ dashboard_stats.total_workers_share
         = SumFunction([w \in DOMAIN report_worker_performance |->
                          report_worker_performance[w].share])
    /\ \A w \in IndebtedWorkers :
          w \in DOMAIN report_worker_performance /\ report_worker_performance[w].balance > 0

(***************************************************************************)
(* Money owed to workers, three ways: the dashboard subtracts two whole    *)
(* tables, the list of workers joins them to the workers that exist, the   *)
(* report keeps only the positive rows.  Dashboard and list must agree to  *)
(* the toman, and the report may exceed them only by what was overpaid.    *)
(***************************************************************************)
DebtAgrees ==
    /\ dashboard_stats.total_debt = SumFunction([w \in DOMAIN worker |-> Balance(w)])
    /\ ReportedDebt - dashboard_stats.total_debt
         = SumFunction([w \in DOMAIN worker \ IndebtedWorkers |-> Paid(w) - Earned(w)])

(***************************************************************************)
(* What is left to the shop: the dashboard's figure, the profit report's   *)
(* and the project pages' "real remainder" added up are the same number.   *)
(***************************************************************************)
ShopAgrees ==
    /\ dashboard_stats.shop_real = ReportedProfit
    /\ dashboard_stats.shop_real
         = SumFunction([p \in DOMAIN project |-> project_financials(p).shop_after_expenses])

(***************************************************************************)
(* What customers still owe: the dashboard's figure is the sum of the      *)
(* project pages' balances, the report never shows less, and a project it  *)
(* lists is never one its own page calls fully received.                   *)
(***************************************************************************)
ReceivableAgrees ==
    /\ dashboard_stats.customer_receivable
         = SumFunction([p \in DOMAIN project |-> project_financials(p).customer_balance])
    /\ ReportedReceivable >= dashboard_stats.customer_receivable
    /\ \A p \in DOMAIN project :
          project_financials(p).customer_balance > 0
             => project_financials(p).customer_status # "received"

\* All figures of the workers agree, on the dashboard, the lists and in the reports.
WorkersFiguresAgree == WagesAgree /\ DebtAgrees

\* And all figures of the shop and its customers.
ShopFiguresAgree == ShopAgrees /\ ReceivableAgrees
=============================================================================
