# A verification project for Persian Payroll

The program (a Flask application over one SQLite file, `src/payroll`) keeps the
books of a shop that installs things: workers earn a share of a project's labor
amount, are paid in instalments, projects have expenses and money received from
customers, and reports add it all up. This directory holds TLA+ models of that
program, the TLC configurations that check them and TLAPS proofs about them.

## 1. The system

The server is threaded (`desktop.py:41` says so, `run.py` and `run_web.py` use
Flask's default, which is the same). Every request opens its own connection
(`db.py:15`) with foreign keys switched on. Python's `sqlite3` begins a
transaction at the first INSERT, UPDATE or DELETE and not at a SELECT. A handler
is therefore a number of separate reads followed by one atomic write
transaction, and two requests interleave at every SELECT. That is the fact most
of what follows rests on.

| Component | State | Operations | What makes it hard, what makes it right |
|---|---|---|---|
| Money tables (`schema.sql`, the write part of the blueprints) | `workers`, `projects`, `project_workers`, `payments`, `expenses`, `customer_payments` | one transaction per handler, cascades | no dangling row; shares within the labor amount; deletions in any order |
| Share arithmetic (`utils.py`, `app.js`) | none | percent and fixed shares, rounding | rounding against the cap; page and server round differently |
| Queries and reports (`queries.py`, `reports.py`) | none | balances, dashboard, reports | different pages must show the same money |
| Money handlers (`payments.py`, `settlement.py`, `workers.py`, `projects.py`, ...) | per request: what it has read | check, then write | the check may be stale by the time of the write |
| Project form (`projects.py`, `form.html`, `app.js`) | the form in the browser | fill, submit, show again after an error | what was stored must survive an edit that changes nothing |
| Start-up (`create_app`, `db.py`) | database file, columns, default rows | import legacy file, create tables, back up, migrate | a crash between any two; idempotence |
| Backups and restore (`db.py`, `settings.py`) | files in `backups/` | create, prune, restore | names by the second; copying over a live file |
| Users and sessions (`auth.py`, `settings.py`) | `users`, signed cookies | sign in and out, toggle, delete, idle time-out; a restore or an import exchanges the table | somebody must be able to sign in; late responses; ids that are given again |
| Settings (`settings.py`) | `settings` | save | six transactions for one operation |
| Calendar (`jalali.py`, date ranges of `reports.py`) | none | Jalali to Gregorian and back, selecting by date | month lengths, leap years, a typed day 31 |
| Desktop shell (`desktop.py`) | port, server thread | prepare the database, pick a port, wait for the server, open a window | two launches at once; time of check, time of use; users who delete and restore while others start |
| Demo data (`demo.py`) | none | a command that fills the tables | not modelled, see the end |
| Pages, packaging, smoke test | none | rendering, build scripts | not modelled: no state of their own |

The components talk through the database file only: handlers read and write
tables, pages read them, start-up and restore replace the file under them.

## 2. The modules

```
Tables   Shares ------------------------------------------- DataTheorems
    \    /
   Database ------- what a write transaction may do         MoneyProofs
       |                                                    (all seven)
    Queries ------- the figures the pages show
       |    \------ Pages: the pages, SELECT by SELECT
    Ledger -------- the handlers, one at a time
       |
   Requests ------- the handlers in threads, read by read
       |
     Saves -------- a save, statement by statement
       |            (implements Requests)
   Crossings ------ Saves with a history variable

   ProjectForm ---- the page of one project                 FormProofs
                    (uses Tables, Shares)
   Accounts ------- users, sessions, the idle lock          AccountsProofs
                    (uses Tables)
   Books ---------- what a start promises for the projects  (uses Tables)
   Startup -------- a start on any files, with crashes      StartupProofs
                    (implements Books; uses Tables)
   Backups -------- backups, restores and their settings    BackupsProofs
                    (uses Tables)
   Launches ------- several desktop programs at once        LaunchesProofs
   Calendar ------- dates and date ranges                   CalendarProofs
```

* **Tables** is what SQLite gives the program: a table is a function from keys
  to rows; `Upsert`, `Put`, `Without`, and `SumOf` for `SUM(...)`. `SumOf` counts
  units instead of recursing, so that it can be reasoned about with
  cardinalities; the assumption `SumIsTheFold` of `MCLedger` checks that it
  equals the community modules' sum, and the lemma `TotalIsSum` proves it.
* **Shares** is `utils.py`'s arithmetic. A percent is a whole number of
  1/10000 of a percent (`parse_percent` keeps four decimals), and `round()` is
  modelled as rounding half to even, `Math.round` as half up. Binary floating
  point is taken as exact, which it is for amounts far below 2^53.
* **Database** has one variable per table and `issued`, the ids AUTOINCREMENT
  has given out. Each action is one transaction with its cascades. `Forms` is
  the parsed project form: labor amount, customer total or `Blank`, status, and
  for every ticked worker a percent or a fixed amount. `FormValid` is the check
  of `_save_project`.
* **Queries** computes balances, `project_financials`, `dashboard_stats` and
  reports from the tables at one moment. Reports are taken without a date range;
  Calendar has what a range selects.
* **Pages** puts the dashboard, the page of a project and the settlement page
  together SELECT by SELECT, in the order of `Selects`. `Answers` is what each
  would return now, `ReadNext` takes one answer down in `results`, and any commit of
  Database may come between two (`Commit`, counted in `commits`). A page ends
  when it is complete, when the row it is about is not found (a redirect), or
  when `project_financials` no longer finds the project (an error page).
* **Ledger** adds what each handler checks before it writes. It is the
  specification of the server as its users see it: one request after another.
* **Requests** gives each of `Threads` a step (`pc`), the request it serves
  (`job`) and what it has read (`seen`). `LoadPayment`, `LookUp`, `ReadShare`,
  `ReadPaid` and `Write` are the statements of the handlers that decide
  something; `Fail` is an integrity error, a lock time-out or a dying process;
  the handlers that decide nothing are one step. The handlers of expenses and
  receipts are in Ledger only: they decide nothing from what they read, and
  nothing here reads what they write.
* **Saves** takes the one handler that writes several statements apart:
  `_save_project` puts the project, removes its worker rows, inserts one row for
  each ticked worker and commits. `draft` is the open transaction: who has the
  write lock, what the connection sees of the tables and which rows it still has
  to insert. Everybody else goes on reading what was last committed and writes
  nothing meanwhile. The save may fail, be closed or die at any point (`UndoSave`).
  `RequestsImplemented` says that it is nevertheless done in one moment or not at all.
* **Crossings** remembers which threads had another request commit during their handler.
* **Accounts** has the `users` table, a cookie per browser, a request per
  thread and the clock. A request is let in (`LoadAccepted`, `LoadRefused`:
  `load_logged_in_user`, then the decorators), reads, writes and answers in
  separate steps, and its answer may be late or lost. Because the session is a
  cookie, each answer brings its browser the session as the request saw it.
  The whole table can be exchanged while cookies live on: an administrator
  restores a file (`act.op = "restore"`, checks and copy as far as users can tell), and a
  start imports an older installation's file (`Restart`), of this program or of a
  second one beside it. A file's table may have ids of its own and, when it is
  older than `schema.sql`, a plain key that gives a deleted user's id again
  (`auto`, `UnusedIds`). The fields `owner` and `file` of a session are not in the
  program: they record whose name signed in and in which table, so that
  `OwnSession` can compare.
* **ProjectForm** has one page (`page`: the fields as texts, or `Closed`) and
  the stored project. `OpenPage` is what `create` and `edit` put into the form,
  `Fill` is one change by hand as the page allows it, `Submit` is
  `_save_project` with `_rerender_form` after a refusal. Amounts are grouped and
  parsed without loss, so a field is a number or `Empty`; percents pass through
  `format_percent` (six digits), may be typed in Persian digits, which the live
  calculation of `app.js` does not read, or may be no number (`Bad`). Other
  pages change the project and the workers meanwhile. `meant` and `dropped` are
  history variables: what the page was opened with and its user changed, and
  whose rows a refusal left out.
* **Books** is the abstract specification of a start: users change the projects
  while the program runs; while it does not, only an import into an empty
  database may happen, and totals may be given to all old projects or to none.
* **Startup** follows one process through `create_app`. `step` names what it
  does next; a crash may come between any two steps, and whoever wants to work
  launches again. A file is reduced to what a start reads or changes: tables,
  later columns, customer totals, whether there are users, the backup switch.
  `before` and `meant` are history variables. `AsBooks` maps it to Books.
* **Backups** reduces a database to the number of the commit that made its
  records and the two settings about backups. A restore is four steps of a
  thread (`Restore` with its checks and the name of the safety copy,
  `RestoreSaves`, `CopyTruncates`, `CopyEnds`), a backup two, a settings save
  two commits, a start four. Anything may happen between two steps: other
  requests, a copy into the file somebody is writing, the end of the process,
  the clock going on or being set back. A backup's name is its prefix and the
  second.
* **Launches** has several processes of `desktop.py`, with the main thread (`pc`)
  and the server's thread (`server`) apart, the ports with whoever listens on
  them, and the shared database as far as two processes can disturb each other.
  Users of the windows save and delete records (`Work`), down to none, which
  makes a later start import once more, and restore files (`Restore`). `met` is a history
  variable: what of the others a process met since its launch, which is a launch
  that overlapped its own, any other process of the program, another program on
  its port, or an exchange of the file.
  Copying a file is one step here; Startup has the detail of one process.
  `PortsShared` covers a system on which a port can be bound twice (Windows).
* **Calendar** is the passing of days in both calendars, with `_g2j` and `_j2g`
  translated line by line as arithmetic. The calendars themselves are external:
  the Gregorian rules, and Jalali leap years by the 33-year cycle.
  `normalize_jalali` and the date clause of the reports work on the three numbers
  of a date. The optional package `jdatetime`, which is not in `requirements.txt`,
  is not modelled.

Definitions named `...Unchecked`, `...OffByOne`, `...Always` and the like, each with a
comment that begins "What if", are not part of any specification: they are the
code with a plausible mistake, and each property is known to fail for one of
them (`PROJECT.json`, `mutants`).

## 3. What the runs show

| Run | Shows |
|---|---|
| `ledger` | `TypeOK`, `ForeignKeys`, `LaborCap`; `WorkersFiguresAgree`, `ShopFiguresAgree` (dashboard, lists and reports give the same money: the debt to workers, the shop's remainder, the customers' debt); `UnconfirmedNeverOverpays`, `SettleClears` |
| `pages` | unless a commit fell between its SELECTs, a page adds up (`PagesAddUp`); a project's page fails only when the project was deleted meanwhile, and then its id stays gone (`BreaksOnlyOnDeletion`) |
| `crossings` | two threads, saves taken apart into statements: a save is done in one moment or not at all (`RequestsImplemented`), so that nobody sees the labor amount of one with the shares of another (`LaborCap`); and a commit departs from Ledger only when another commit crossed its handler (`SequentialUnlessCrossed`). With one thread nothing is ever crossed: splitting the handlers into statements adds nothing by itself |
| `form` | what is stored is what was shown and typed (`SavesWhatWasMeant`), the page does not promise what the server refuses (`AcceptedUnlessWarned`), and an unedited form is refused only for a fixed share of zero and fails only over a worker who was taken out of the project and deleted on other pages (`UneditedAccepted`) |
| `accounts` | as long as the table that issued it is there and does not reuse ids, an id in a cookie never comes to mean somebody else (`OwnSession`); the last administrator is lost only with the whole table, or to a request whose own actor was removed after it was let in (`LostOnlyToTheRemoved`); no order of responses brings an idle session back (`IdleLock`) |
| `start` | through crashes and relaunches: `BooksImplemented`, `ServesCurrent`, `UnfilledOnlyAfterCrash`, `ReplacedIsKept`, `BackupBeforeChange`, `CurrentIsLeftAlone`, `StartAdvances` (each step leaves fewer to take, and only half a file makes a start give up), and `ServesUnlessTorn` (liveness) |
| `backups` | what a restore replaces stays in a backup (`ReplacedIsKeptUnlessCrossed`) and what it brings is what was chosen (`RestoresTheChosen`), unless something crossed it; pruning takes old automatic backups only (`OnlyOldAutoPruned`); a start leaves a backup of what it found (`BackedUpOnStart`) |
| `launches` | a launch that no other overlapped opens its own window unless another program takes its port (`OwnWindow`), never fails over the database and shows all its columns until the file is exchanged (`LoneMigration`); apart from what users delete and restore, records vanish only in the copy of a process that ran beside another (`RecordsStay`); every launch comes to a window or an error (`LaunchEnds`, liveness) |
| `days` | day by day both conversions agree with the calendars (`ConvertsBothWays`), every accepted day is a date (`TypedAreDates`), and a report from the 1st to the 31st has exactly its month and the days a typed 31 adds (`MonthReport`) |
| `requests_overpay` | counterexample: a payment passes the check of the balance, a deletion of the project commits and takes the share it was for, then the payment is written: overpaid, and nobody confirmed it. Two payments that both pass the check do the same in a longer trace |
| `start_torn` | counterexample: after a crash during the legacy import no start succeeds |
| `form_inactive` | counterexample: a form refused once and sent again drops the share of a deactivated worker |

The three counterexamples are disagreements between the code and its own
documentation, comments or messages; `PROJECT.json` quotes the lines. Other ways
in which the code falls short of what one might expect are spelled out as the
exceptions of properties that hold, so that each property says exactly how far
the code goes:

* A worker can be deleted although a share of his was saved meanwhile, and a payment
  settled twice: the crossed commits of `SequentialUnlessCrossed`.
* Two administrators can delete each other at the same time, and nobody remains
  until the next start seeds the table: `LostOnlyToTheRemoved` names the one way.
* A restore or an import may give the id in a cookie to somebody else, and an older
  file's table (`users(id INTEGER PRIMARY KEY)`, `test_smoke.py:211`) gives the id of
  a deleted user to the next: `auto` and `s.file = files` in `OwnSession`.
* An upgrade turns customer totals that were typed as zero into the labor amount
  (`TEST_CHECKLIST.md:240` wants earlier data untouched): `Filled` in Books.
* A crash between the last ALTER TABLE and the UPDATE leaves old projects
  without a total for good: `UnfilledOnlyAfterCrash`.
* Two restores within a second, or a commit between the safety copy and the copy
  over the live file, lose what was replaced: `ReplacedIsKeptUnlessCrossed`.
* With a clock set back a start prunes the backup it has just made, and two starts
  in one second make one backup: `misnamed` in `BackedUpOnStart`.
* Two launches that overlap can end one of them with "duplicate column name":
  `LoneMigration`.
* A launch beside another process of the program can copy the older installation
  over records saved after it counted them (`RecordsStay`), and take the later
  columns away under the other's window (`LoneMigration`). The two need not
  overlap: it is enough that all records had been deleted in the first window.
* The form fails with an error page, not with a message, when a worker it names
  was taken out of the project and then deleted on other pages: `UneditedAccepted`.
* A page that is read while others write can show figures from before and after
  a commit side by side, or fail although the project was found at first:
  `commits = 0` in `PagesAddUp`, and `BreaksOnlyOnDeletion`.
* A stored zero is an empty field of the form: a customer total of zero becomes
  the labor amount with the next save, a fixed share of zero is refused
  (`SavesWhatWasMeant`, `UneditedAccepted`).
* Day 31 is accepted in every month: `TypedAreDates`, `MonthReport`.

Two more disagreements between the program and its own words were met; no
run or property is about them:

* The page of a project announces that deleting it deletes its payments
  (`templates/projects/detail.html:12`, «پرداخت‌ها»). `schema.sql:70` keeps them
  (`ON DELETE SET NULL`), `DeleteProject` says so too, and they go on counting against a
  share that is gone.
* `README.md:189` and `README.md:214` to `216` promise a backup before every change of the
  structure, new tables included. `init_db` adds the tables an old file lacks
  before `auto_backup` runs (`__init__.py:42`, `43`; `Schema` before
  `AutoBackup` in Startup). `BackupBeforeChange` covers what `migrate` does: the columns and the totals.

### Bounds

Money modules. Ids: one or two workers, one or two projects, up to two payments,
one expense and one receipt. An id is issued once, so this also bounds how many
rows are ever created, and behaviours are finite. The hazards here need at most
two payments of one worker (overpaying, settling twice), two workers on one
project (shares that must not mix), or two projects (sums that must not mix).
Amounts are 0, 1 and 2 (1 and 2 in the thread runs); two shares or two payments
then already reach every relation between labor, shares and payments: below,
equal, above. `PaidAmounts` goes to 4 because settling pays a balance, which may
exceed what a form carries. The only percent is 50 %, in `ledger`, where
an odd labor amount makes rounding matter; in the other runs a share is what
counts and not where it came from. Customer totals are left blank, which makes
them the labor amount: 0 or more, below or above what was received. Two threads are enough to cross a handler with any
other.

`crossings` has one worker, one project and two payments (1.4 million states): a save then
is a project row and one worker row, which is enough for the labor amount to
be separated from the share it was checked with. Rows of several workers are left to the
theorem `SavesImplementRequests`.

`ledger` has two workers on one project with two payments, an expense and a
receipt (18 thousand states, up to the symmetry of the ids). `pages` has one
worker, two projects, a payment and an expense: rows that must be counted for one
project and not for the other, and a payment that no project lists. Two commits may
fall into the reading of one page, so that a row can come and go between two
SELECTs; any number comes before. Amounts are 0 and 1 there (0.4 million states).
Receipts are read like expenses. Two workers on one page, and lists of more rows,
are left to the theorem `UninterruptedAddUp`.

`accounts` has two users and two names, one browser that both threads' requests
come from (so that their responses can arrive in either order), and a clock of
two ticks with a time-out of zero: any tick is too long, which is all the
comparison can tell apart. The table is exchanged at most once, for an older
file's without users or for one of `schema.sql` with an administrator whose id may be
one that is in use (1.1 million states).

`start` has two projects, one in the target and one in the legacy file; of the
columns `migrate` adds, three stand for all (`customer_total` first, as in the
code); the target is missing, of the first version, of an intermediate one with
a total of zero or another, or current with and without projects. `Keep` is 1,
the smallest the settings allow, where pruning is most likely to hurt. Two
crashes cut two starts short one after the other; a third start then has
nothing new to find (1.2 million states).

`form` has two workers, labor amounts 0 and 4, fixed amounts 0 and 1, a total of
0, and percents with decimals whose shares of 4 are ties: 62.5 % is 2.5, which the server
rounds to 2 and the page to 3, and the default of 87.5 % is 3.5, 4 for
both. So the two disagree on what a row is worth and on whether two shares fit,
and every zero the page shows as an empty field occurs (1.9 million states). Two changes
by hand before the page is left, with any number of refusals in between, are
enough to spoil a field and mend it.

`backups` has two threads (one restores, the other crosses it; or two restore),
four requests, two seconds of a clock that can go back, and at most two
automatic backups: the least with which a name can repeat, come out of order or
be pruned while another is kept (4.6 million states).

`launches` has two launches, the preferred port and three others, another
program that may hold or take any of them, and two of the tables to which
columns are added, one of them with two. Ports may be bound twice there, which
includes every outcome in which they may not. A launch, a deletion of all records, a
second launch and a save all fit, in any order (0.6 million states).

`days` walks forty Jalali years from each of three first days: around 2000 (a leap
year that ends a century), around 2100 (none), and from the year the program
counts from. That is more than one 33-year cycle, and a theorem covers the rest.

Users, ids, workers and threads are symmetric where no liveness is
checked; `start` and `launches` use no symmetry.

Deadlock is checked for Accounts, Startup and Launches. It is not for the money
modules, where a server that has issued all its ids and serves no request rightly
does nothing (or, in Pages, could only commit more than the bound while a page
waits to be read); nor for the form of a deleted project, for Backups after `MaxRequests`
with a torn file, or at the end of the walk of Calendar.

### Fairness

The money modules, ProjectForm, Accounts, Backups and Calendar assume none and
claim no liveness: a handler waits for nothing but the write lock, whose
time-out is part of `Fail`.

Launches assumes weak fairness of each process's preparation, of its main thread
after that and of its server thread, which the system schedules: none of them is
switched off by another once it is enabled, and the wait for the server has a
deadline. Launching, working and closing a window are up to the user.

Startup assumes weak fairness of `Launch` and of `StartStep`. `create_app` runs in
one thread and waits for nobody, so a step that is enabled is taken unless the
process dies; and `Launch` is the user who starts the program again. Crashes are
bounded by `MaxCrashes`: no start survives being killed for ever.

## 4. What is proved

Every safety property of the passing runs is also a theorem of its
specification, for every value of the constants. The type invariants of Requests,
Pages, Accounts and Launches are theorems only: no run repeats them. The proofs
use the assumptions the modules name (`...Assumption`: sentinels are no values, amounts are natural
numbers, percents lie between 0 and 100, ...), which TLC evaluates in the runs;
and where a theorem says so, that `PaidAmounts` is `Nat`: settling must be able
to pay any balance. The bounds that keep TLC's state space finite (`MaxCrashes`,
`MaxClock`, `MaxRequests`, `MaxEdits`, `MaxCommits`, `Years`) may have any value there. An
invariant is seldom inductive as it stands; each paragraph says what had to be
added to it.

**Money** (MoneyProofs: Database, Queries, Ledger, Requests, Crossings, Pages)

* `TypeCorrect`, `KeysHold`, `CapHolds`: `Spec => []TypeOK`, `[]ForeignKeys`,
  `[]LaborCap`. `TypeOK` is inductive. `ForeignKeys` is inductive relative to it:
  each delete must take exactly the rows that point at what it removes.
  `LaborCap` is inductive relative to both; the interesting steps are the
  saves, where the rows of the project after the step are the form's and
  `FormValid` bounds their sum, and a worker's deletion, where a sum over fewer
  rows can only shrink.
* `WorkersFiguresHold`, `ShopFiguresHold`: the pages show the same money. These
  are facts about one state: `ForeignKeys` puts every share, payment, expense
  and receipt into the group of an existing worker or project, and then the sums
  of the groups are the sum of the table (`TotalByGroup`). The invariant is
  `Sound`: the two above and that finitely many ids have been issued.
* `LedgerImplementsDatabase`: `LedgerSpec => Spec`; `LedgerKeepsTables` carries the
  invariants and the figures over to the handlers.
* `NoSilentOverpay`, `SettlingClears`: `LedgerSpec` implies
  `UnconfirmedNeverOverpays` and `SettleClears`, by computing the balance after
  an insert and an update.
* `RequestsTyped`, `RequestsKeepTables`: for any number of threads the server keeps
  `RequestsTypeOK`, for what a thread has read stays of its type however stale it gets; so
  whatever it writes is one of the database's transactions (the lemma
  `RequestsImplementDatabase`), and the keys, the cap and the figures carry over.
* `SavesImplementRequests`, `SavesKeepTables`: `SavesSpec => RequestsImplemented`.
  The invariant is `DraftSound`: what the connection sees is the committed tables
  with the project put, the old rows gone and the rows inserted so far
  (`OldProjectSoFar`, `NewProjectSoFar`), which holds because nobody else writes
  while the lock is held. After the last row this view is what `UpdateProject` or
  `InsertProject` makes of the tables in one step, and a commit is that step; when the project is
  gone and no worker is ticked the commit changes nothing, and Requests calls it `Fail`.
* `SequentialWhenUncrossed`: `CrossingsSpec => SequentialUnlessCrossed`. The
  invariant, `UncrossedReadsHold`, says for every step of every handler what it
  knows of the tables by then, as long as no other commit has crossed it.
* `PagesTyped`: readers move no table, so `Sound` and `LaborCap` hold whenever a
  SELECT is made, and what has been read belongs to the page that is read.
* `UninterruptedAddUp`: `PagesSpec => []PagesAddUp`. The invariant is `Fresh`: as
  long as no commit fell into the page, every result is what its SELECT would
  return now. When the page is complete, adding up is then a fact about one state,
  for each page (`DashboardAtOnce`, `ProjectAtOnce`, `SettlementAtOnce`). Two of them rest on
  the money invariants: the dashboard names every worker something is owed to
  only because no share or payment is without a worker (`DebtsNamed`), and the
  shop's part is not negative because of `LaborCap` (`SharesWithinLabor`).
* `BrokenMeansDeleted`: `PagesSpec => []BreaksOnlyOnDeletion`, from `LooksTwice`:
  the project that was found first is there, or its id is one that has been
  issued, and such an id stays gone (`ProjectIdsStayGone`).
* `LedgerImplementsDatabase`, `LedgerKeepsTables`, `NoSilentOverpay`,
  `SettlingClears` and the theorems about threads and saves assume `PaidAmounts = Nat`.

**The form** (FormProofs, from the invariant `FormInv`)

* `FormTyped`, `SavedIsMeant`, `UnwarnedIsAccepted`, `UneditedIsAccepted`:
  `FormSpec` implies `[]FormTypeOK`, `SavesWhatWasMeant`, `AcceptedUnlessWarned`
  and `UneditedAccepted`. `Well` adds to the types that a share stored with a
  percent is the one this percent gives. That a form which nobody edited fails only over
  a deleted worker is `FailedByWorker`. `AsMeant` says that the fields of the page
  are what is meant, except those that cannot be read and the rows a
  refusal dropped; it must survive a refusal, whose page is written from the
  parsed values. `AsOpened` says that until something is typed the page is the
  stored project, whose shares fit its labor amount, or there is a share of
  zero. That the page's rounding and the server's agree on what is refused rests
  on `LiveShareCloseToServer`: the page may be one toman above, never below.

**Accounts** (AccountsProofs)

* `AccountsTyped`, `SessionsTheirOwn`: `[]AccountsTypeOK` and `[]OwnSession`.
  `OwnSession` is not inductive: the id of a deleted user is in no row, and
  might be given to a new one. `Inv` adds that a session's id has been
  issued in its table (`Owned`), hence is never issued again there when the key is
  AUTOINCREMENT, and that only the users page and a restore write. `NamesKept` is what every step keeps:
  in a table that stays, an issued id never comes to name somebody else.
* `AdminLostOnlyToTheRemoved`, `IdleMustSignIn`: `LostOnlyToTheRemoved` and
  `IdleLock`. `SoundInv` adds to `Inv` that a request about to write never targets
  its own actor (`NeverOneself`), and that no session, in a cookie or in a
  response under way, is fresher than the last time its browser was let in
  (`LastIsHeard`): a response that comes late cannot bring a session back.

**Start-up** (StartupProofs, for every list of columns, set of projects and
number of crashes)

* `RunningIsCurrent`, `NothingLost`: `[]ServesCurrent` and `StartLosesNothing`.
  `ServesCurrent` says nothing until the program runs. `StepsInOrder` adds what
  each step may rely on from the ones before it (in "copy", that the target has
  no projects; in "migrate", that the columns before `at` are there; ...), and
  holds again after every relaunch because it asks nothing of a file at "bootstrap".
* `StartupTyped`: `[]StartupTypeOK`, where pruning must leave a sequence of backups.
* `StartupImplementsBooks`: `StartupSpec => BooksImplemented`. The invariants are
  `StepsInOrder` and `Fits` (the totals of a file are those of its
  version); a lemma for each operation on a file says what it does to the
  totals, and each step then is a step of Books or leaves its variables alone.
* `ReplacedWasSaved`: `ReplacedIsKept`, from `CopySaved`: two steps lead to the
  copy, one that finds no file and one that saves it, and nothing touches the
  target in between.
* `StartIsIdempotent`: `CurrentIsLeftAlone`, from `CurrentAsBefore`: while a start
  goes on that found a current database with projects, the file is as it was,
  since each step's condition finds nothing to do.
* `ChangesAreBackedUp`: `BackupBeforeChange`, from `BackedUp`: from the automatic
  backup on, the newest backup has the same projects, each with its total or from
  before there were any, and none of the new columns.
* `OldProjectsFilled`: `[]UnfilledOnlyAfterCrash`, from `OldProjects`: while no
  start was cut short, a project whose total nobody typed has none, the
  default zero while `changed` promises the UPDATE, or the labor amount; and the
  projects of the legacy file, which an import may still bring, have none.

* `StartComesToItsEnd`: `StartAdvances`. `StepsLeft` counts down through the whole
  start, the tables that are still missing and the columns not yet looked at
  included (`TablesCounted`). With the fairness of `StartStep`, which is beyond
  the prover, this is why a start that is not cut short ends; `ServesUnlessTorn`
  is checked by TLC.

**Backups** (BackupsProofs, from the invariant `BackupsInv`)

* `BackupsTyped`, `ReplacedStaysKept`, `ChosenIsRestored`, `StartLeavesBackup`,
  `OnlyOldArePruned`: `BackupsSpec` implies the five properties of the run, for any
  number of threads and requests and whatever is typed as the number to keep.
  `Ordered` says that a start has the file to itself and that a copy in progress
  leaves no readable one. `Named` says that a file in use is there under a name of
  its kind, which no pruning and no other thread touches. `Uncrossed` says what a
  restore relies on at each step until something crosses it: its source is still
  what was chosen, its safety copy what is about to be replaced. `InTime`
  says that while the clock goes forward the backup of a start is the latest.

**Launches** (LaunchesProofs, from the invariant `LaunchesInv`)

* `LaunchesTyped`, `WindowIsOwn`, `LoneLaunchMigrates`, `LaunchKeepsRecords`:
  `[]LaunchesTypeOK`, `[]OwnWindow`, `[]LoneMigration` and `RecordsStay`, for any
  number of processes and ports and any list of columns. The core is
  `AloneWhileBusy`: while a process that met no other launch is on its way to its window,
  no other is. From it follow that its port is no other launch's between the check and the
  bind and after (`OwnPort`), and that the columns it found or added are still there until the
  file is exchanged (`Migrated`). `RecordsStay` rests on `OnlyProcess` and `CopyOverNothing`: a
  process that met no other is the only one, and what it counted as empty is still empty when it copies.

**Calendar** (CalendarProofs, without the bound `Years`)

* `AlwaysConverts`: `[]ConvertsBothWays`. The inductive invariant `SameDay` says
  that today is a date in both calendars and that the program's two day counts
  differ by 79, which `FirstDaysAssumption` asks of the first days; the lemmas
  show that each count grows by one with a day, and that each decoder inverts
  the encoder of its calendar.
* `TypedBecomeDates`, `ReportHasItsMonth`: `[]TypedAreDates` and `[]MonthReport`.
  They need that every day count has a date (`EveryDayHasDate`, by counting up
  from the first) and only one, that the texts SQLite compares are in the order
  of the days (`TextsInOrder`), and where a day that is one or two too many for
  its month ends up (`DayTooMany`).

**Data** (DataTheorems: what the others cite)

* Facts about `SumOf`, `Upsert`, `Put` and `Without`; about the community
  modules' `SumFunctionOnSet`, whose fold is unfolded once through the function it
  chooses (`TotalIsNet`) and is from then on a difference of two cardinalities;
  and about rounding: `RoundingNearest`, `ShareWithinLabor` (a
  percent share never exceeds the labor amount), `LiveShareCloseToServer`.
* The library's induction theorems take an operator as a parameter, which the
  provers cannot instantiate. `SetInduction` and `CountingInduction` (CalendarProofs)
  say the same with a set in place of the predicate, by a smallest counterexample.

**Only model-checked**: the two liveness properties, `ServesUnlessTorn` and
`LaunchEnds`, whose fairness is beyond the prover; and the three
counterexamples. `SumIsTheFold` of `MCLedger` is checked as an assumption; it is also
the lemma `TotalIsSum`.

## 5. Plan

Done: Database, Ledger, Requests, Saves, Crossings, ProjectForm, Accounts, Startup
against Books, Backups, Launches, Calendar and Pages, each with its theorems. What
would come next:

1. A restored file of an older version, served until the next start migrates it:
   Backups with the columns of Startup.
2. An abstract specification of the backups (what is replaced is kept), which
   Backups implements while nothing crosses.

### Not modelled

* The SELECTs of a report and of the printed project one by one: both read like
  the pages of Pages. Queries has what they show at one moment.
* `demo.py`: a command line tool that fills an empty database with examples, by the
  same statements as the handlers; nothing else depends on it.
* Passwords and `user_password`; currency, shop name and default percent, which only
  change what pages show; the choice of the data folder and the secret key.
* Restoring from a path outside the backups (a backup that no pruning removes) and
  downloading one (a read).
* A form that names one worker twice, which no page sends: `UNIQUE` would undo the save, as a
  foreign key does (`UndoSave`).
* In Accounts the records, which decide whether a start imports and whether a restore
  is refused: both may happen, or not, at any time.
* Rendering, styles, the xlsx writer, packaging and the smoke test: no state of
  their own.
* `parse_amount` on 'nan', 'inf' and amounts beyond 64 bits: an error page that
  leaves the tables alone, outside the natural numbers of the models.
