------------------------------ MODULE Startup -------------------------------
(***************************************************************************)
(* The start of the program on whatever files it finds: create_app         *)
(* (payroll/__init__.py) and bootstrap_database, init_db, auto_backup and  *)
(* migrate of payroll/db.py, with a crash between any two of their steps.  *)
(*                                                                         *)
(* Of a database file only what a start reads or changes is kept: its      *)
(* tables, its later columns, the customer total of each project, whether  *)
(* it has users, and the switch of the automatic backup.  Every project    *)
(* has a positive labor amount: on the others migrate does nothing.        *)
(* "projects" stands for the tables of the first version.                  *)
(*                                                                         *)
(* One process: a second one started at the same time is not modelled.     *)
(* Automatic backups are ordered by their names, and no two starts fall    *)
(* in the same second.                                                     *)
(***************************************************************************)
EXTENDS Tables, SequencesExt

CONSTANTS
    Projects,           \* ids
    Additions,          \* migrate's list of columns, in its order
    Keep,               \* auto_backup_keep
    MaxCrashes,         \* bound on crashes during a start
    InitialTargets, InitialLegacies,    \* the files the program may find
    Missing, Torn       \* no file; half a file, which SQLite calls malformed

Columns    == ToSet(Additions)
Totals     == {"none", "zero", "labor", "other"}    \* "none": there is no such column
SchemaList == <<"users", "projects", "expenses">>   \* the order of schema.sql
SchemaTables == ToSet(SchemaList)

\* A database that SQLite can open; one without tables may be a file of no bytes.
Databases ==
    [tables : SUBSET SchemaTables, columns : SUBSET Columns,
     total : UNION {[D -> Totals] : D \in SUBSET Projects}, users : BOOLEAN, auto : BOOLEAN]

Files == Databases \cup {Missing, Torn}

EmptyDatabase ==
    [tables |-> {}, columns |-> {}, total |-> EmptyTable, users |-> FALSE, auto |-> TRUE]

IsDatabase(f)  == f \notin {Missing, Torn}

ASSUME AdditionsAssumption == Additions \in Seq(Columns) /\ "customer_total" \in Columns
ASSUME KeepAssumption      == Keep \in Nat \ {0} /\ MaxCrashes \in Nat
ASSUME SentinelAssumption  == {Missing, Torn} \cap Databases = {}

\* Projects are rows of their table, and have customer totals if that has the column.
TotalsFitColumns(f) ==
    IsDatabase(f) =>
        \A p \in DOMAIN f.total :
            /\ "projects" \in f.tables
            /\ f.total[p] = "none" <=> "customer_total" \notin f.columns

ASSUME VersionsAssumption  == \A f \in InitialTargets \cup InitialLegacies : TotalsFitColumns(f)
ASSUME FilesAssumption     ==
    InitialTargets \subseteq Files /\ InitialLegacies \subseteq Databases \cup {Missing}

VARIABLES
    target,     \* the file DATABASE
    legacy,     \* the file of an older installation, beside the program
    backups,    \* auto_backup_*.db, newest first
    saved,      \* pre_import_*.db
    step,       \* what the process does next; "off" when there is none
    at,         \* index into Additions
    changed,    \* migrate's local variable
    crashes,
    before,     \* target when the program was launched (history)
    meant       \* project -> the total its user typed last, "none" if never (history)

vars == <<target, legacy, backups, saved, step, at, changed, crashes, before, meant>>

Steps == {"off", "bootstrap", "import_backup", "copy", "copying", "schema", "seed",
          "auto_backup", "migrate", "backfill", "running"}

HasRealData(f) == IsDatabase(f) /\ DOMAIN f.total # {}
IsCurrent(d)   == d.tables = SchemaTables /\ d.columns = Columns /\ d.users

TotalsOf(f) == IF IsDatabase(f) THEN f.total ELSE EmptyTable

StartupInit ==
    /\ target \in InitialTargets
    /\ legacy \in InitialLegacies
    /\ DOMAIN TotalsOf(target) \cap DOMAIN TotalsOf(legacy) = {}
    /\ backups = << >> /\ saved = {}
    /\ step = "off" /\ at = 1 /\ changed = FALSE /\ crashes = 0
    /\ before = target
    /\ meant = Upsert(TotalsOf(legacy), TotalsOf(target))
-----------------------------------------------------------------------------
Launch ==
    /\ step = "off"
    /\ step' = "bootstrap" /\ before' = target
    /\ at' = 1 /\ changed' = FALSE
    /\ UNCHANGED <<target, legacy, backups, saved, crashes, meant>>

\* The exception leaves create_app: the program ends.
Raise == step' = "off" /\ UNCHANGED <<target, saved, backups>>

\* What if the target were not asked for its data.
BootstrapUnasked ==
    /\ step = "bootstrap"
    /\ step' = IF ~HasRealData(legacy) THEN "schema"
               ELSE IF target = Missing THEN "copy" ELSE "import_backup"
    /\ UNCHANGED <<target, legacy, backups, saved, at, changed, crashes, before, meant>>

\* What if a target without data were not worth a backup.
BootstrapNoBackup ==
    /\ step = "bootstrap"
    /\ step' = IF HasRealData(target) \/ ~HasRealData(legacy) THEN "schema" ELSE "copy"
    /\ UNCHANGED <<target, legacy, backups, saved, at, changed, crashes, before, meant>>

\* bootstrap_database: the files are counted, and a legacy one with data goes to a
\* target without.
Bootstrap ==
    /\ step = "bootstrap"
    /\ step' = IF HasRealData(target) \/ ~HasRealData(legacy) THEN "schema"
               ELSE IF target = Missing THEN "copy" ELSE "import_backup"
    /\ UNCHANGED <<target, legacy, backups, saved, at, changed, crashes, before, meant>>

\* _backup_file(target, "pre_import"): SQLite cannot read half a file.
ImportBackup ==
    /\ step = "import_backup"
    /\ IF target = Torn
         THEN Raise
         ELSE step' = "copy" /\ saved' = saved \cup {target} /\ UNCHANGED <<target, backups>>
    /\ UNCHANGED <<legacy, at, changed, crashes, before, meant>>

\* shutil.copy2: the target is truncated, then written piece by piece.
CopyTruncates ==
    /\ step = "copy"
    /\ step' = "copying" /\ target' = EmptyDatabase
    /\ UNCHANGED <<legacy, backups, saved, at, changed, crashes, before, meant>>

CopyWrites ==
    /\ step = "copying" /\ target # Torn
    /\ target' = Torn
    /\ UNCHANGED <<legacy, backups, saved, step, at, changed, crashes, before, meant>>

CopyEnds ==
    /\ step = "copying"
    /\ target' = legacy /\ step' = "schema"
    /\ UNCHANGED <<legacy, backups, saved, at, changed, crashes, before, meant>>
-----------------------------------------------------------------------------
Opened == IF target = Missing THEN EmptyDatabase ELSE target

\* What if the script ran on a new database only.
SchemaOnNewOnly ==
    /\ step = "schema"
    /\ IF target = Torn THEN Raise
       ELSE /\ target' = IF Opened.tables # {} THEN Opened
                         ELSE [Opened EXCEPT !.tables = {Head(SchemaList)}]
            /\ step' = "seed"
            /\ UNCHANGED <<saved, backups>>
    /\ UNCHANGED <<legacy, at, changed, crashes, before, meant>>

\* executescript(schema.sql): CREATE TABLE IF NOT EXISTS, each committed by itself, a new
\* table with all its columns; or, when none is missing, on to the default rows.
Schema ==
    /\ step = "schema"
    /\ \/ target = Torn /\ Raise
       \/ /\ target # Torn
          /\ \/ \E i \in DOMAIN SchemaList :
                   /\ SchemaList[i] \notin Opened.tables
                   /\ \A k \in 1 .. i - 1 : SchemaList[k] \in Opened.tables
                   /\ target' = [Opened EXCEPT
                         !.tables = @ \cup {SchemaList[i]},
                         !.columns = IF SchemaList[i] = "projects" THEN Columns ELSE @]
                   /\ UNCHANGED step
             \/ /\ SchemaTables \subseteq Opened.tables
                /\ target' = Opened
                /\ step' = "seed"
          /\ UNCHANGED <<saved, backups>>
    /\ UNCHANGED <<legacy, at, changed, crashes, before, meant>>

\* What if the backup were left out of the start.
SeedThenMigrate ==
    /\ step = "seed"
    /\ target' = [target EXCEPT !.users = TRUE]
    /\ step' = "migrate"
    /\ UNCHANGED <<legacy, backups, saved, at, changed, crashes, before, meant>>

\* _seed_defaults, one transaction: an administrator if there is no user.
Seed ==
    /\ step = "seed"
    /\ target' = [target EXCEPT !.users = TRUE]
    /\ step' = "auto_backup"
    /\ UNCHANGED <<legacy, backups, saved, at, changed, crashes, before, meant>>

\* What if one more backup were kept.
PrunedOffByOne(bs) == SubSeq(bs, 1, IF Len(bs) <= Keep THEN Len(bs) ELSE Keep + 1)

\* prune_backups: the last Keep by name.
Pruned(bs) == SubSeq(bs, 1, IF Len(bs) < Keep THEN Len(bs) ELSE Keep)

AutoBackup ==
    /\ step = "auto_backup"
    /\ backups' = IF target.auto THEN Pruned(<<target>> \o backups) ELSE backups
    /\ step' = "migrate"
    /\ UNCHANGED <<target, legacy, saved, at, changed, crashes, before, meant>>
-----------------------------------------------------------------------------
\* ALTER TABLE ADD COLUMN commits by itself; existing rows get the default.
WithColumn(d, c) ==
    [d EXCEPT !.columns = @ \cup {c},
              !.total = IF c = "customer_total" THEN [p \in DOMAIN @ |-> "zero"] ELSE @]

\* What if the column were added without looking for it first.
AddColumnUnchecked ==
    /\ step = "migrate" /\ at <= Len(Additions)
    /\ IF Additions[at] \in target.columns
         THEN Raise /\ UNCHANGED <<at, changed>>
         ELSE /\ target' = WithColumn(target, Additions[at]) /\ changed' = TRUE
              /\ at' = at + 1
              /\ UNCHANGED <<step, saved, backups>>
    /\ UNCHANGED <<legacy, crashes, before, meant>>

\* What if the columns were gone through again after each one that was added.
AddColumnAgain ==
    /\ step = "migrate" /\ at <= Len(Additions)
    /\ IF Additions[at] \in target.columns
         THEN at' = at + 1 /\ UNCHANGED <<target, changed>>
         ELSE at' = 1 /\ target' = WithColumn(target, Additions[at]) /\ changed' = TRUE
    /\ UNCHANGED <<legacy, backups, saved, step, crashes, before, meant>>

AddColumn ==
    /\ step = "migrate" /\ at <= Len(Additions)
    /\ IF Additions[at] \in target.columns
         THEN UNCHANGED <<target, changed>>
         ELSE target' = WithColumn(target, Additions[at]) /\ changed' = TRUE
    /\ at' = at + 1
    /\ UNCHANGED <<legacy, backups, saved, step, crashes, before, meant>>

ColumnsDone ==
    /\ step = "migrate" /\ at > Len(Additions)
    /\ step' = "backfill"
    /\ UNCHANGED <<target, legacy, backups, saved, at, changed, crashes, before, meant>>

\* What if the UPDATE looked for projects whose column is NULL.
FilledNulls(total) == [p \in DOMAIN total |-> IF total[p] = "none" THEN "labor" ELSE total[p]]

\* The totals the UPDATE leaves: those of zero become the labor amount.
Filled(total) == [p \in DOMAIN total |-> IF total[p] = "zero" THEN "labor" ELSE total[p]]

\* What if the totals were filled in at every start.
BackfillAlways ==
    /\ step = "backfill"
    /\ target' = [target EXCEPT !.total = Filled(@)]
    /\ step' = "running"
    /\ UNCHANGED <<legacy, backups, saved, at, changed, crashes, before, meant>>

Backfill ==
    /\ step = "backfill"
    /\ target' = IF changed THEN [target EXCEPT !.total = Filled(@)] ELSE target
    /\ step' = "running"
    /\ UNCHANGED <<legacy, backups, saved, at, changed, crashes, before, meant>>
-----------------------------------------------------------------------------
\* The process dies during a start, after whatever it has done.
Crash ==
    /\ step \notin {"off", "running"}
    /\ crashes < MaxCrashes
    /\ crashes' = crashes + 1 /\ step' = "off"
    /\ UNCHANGED <<target, legacy, backups, saved, at, changed, before, meant>>

Quit ==
    /\ step = "running"
    /\ step' = "off"
    /\ UNCHANGED <<target, legacy, backups, saved, at, changed, crashes, before, meant>>

(***************************************************************************)
(* What users do meanwhile: a project is saved with its total (a blank     *)
(* one is the labor amount) or deleted, the automatic backup switched.     *)
(***************************************************************************)
SaveProject(p, t) ==
    /\ p \in DOMAIN target.total \/ p \notin DOMAIN meant
    /\ target' = [target EXCEPT !.total = Put(@, p, t)]
    /\ meant' = Put(meant, p, t)

DeleteProject(p) ==
    /\ p \in DOMAIN target.total
    /\ target' = [target EXCEPT !.total = Without(@, {p})]
    /\ UNCHANGED meant

Use ==
    /\ step = "running"
    /\ \/ \E p \in Projects, t \in Totals \ {"none"} : SaveProject(p, t)
       \/ \E p \in Projects : DeleteProject(p)
       \/ target' = [target EXCEPT !.auto = ~@] /\ UNCHANGED meant
    /\ UNCHANGED <<legacy, backups, saved, step, at, changed, crashes, before>>

StartStep ==
    \/ Bootstrap \/ ImportBackup \/ CopyTruncates \/ CopyWrites \/ CopyEnds
    \/ Schema \/ Seed \/ AutoBackup \/ AddColumn \/ ColumnsDone \/ Backfill

StartupNext == Launch \/ StartStep \/ Crash \/ Quit \/ Use

\* A start waits for nothing, and whoever wants to work launches the program again.
StartupSpec == StartupInit /\ [][StartupNext]_vars /\ WF_vars(Launch) /\ WF_vars(StartStep)
-----------------------------------------------------------------------------
\* Files and the process are of their types.
StartupTypeOK ==
    /\ target \in Files /\ legacy \in Files /\ before \in Files
    /\ backups \in Seq(Databases) /\ Len(backups) <= Keep
    /\ saved \in SUBSET Databases
    /\ step \in Steps /\ at \in 1 .. Len(Additions) + 1
    /\ changed \in BOOLEAN /\ crashes \in 0 .. MaxCrashes
    /\ meant \in UNION {[D -> Totals] : D \in SUBSET Projects}

\* Whatever crashes went before, a program that runs has every table and column, and
\* somebody who can sign in.
ServesCurrent == step = "running" => IsDatabase(target) /\ IsCurrent(target)

\* A start takes no project away: all the target had are there until a user deletes one
\* (db.py:155 "real data is never overwritten").
StartLosesNothing ==
    [][step # "running" => DOMAIN TotalsOf(target) \subseteq DOMAIN TotalsOf(target')]_target

\* A database is replaced by a legacy one only when a copy of it was kept (db.py:158), a
\* crash halfway included.
ReplacedIsKept ==
    [][step = "copy" => target \in saved \cup {Missing}]_target

(***************************************************************************)
(* auto_backup before migrate: with the automatic backup on, migrate adds  *)
(* a column and fills in a total only when a backup without that column,   *)
(* or with the total as it was, has all the projects.  After crashes and   *)
(* pruning too.  It says nothing of the tables that init_db adds to an old *)
(* file: they come before the backup.                                      *)
(***************************************************************************)
BackupBeforeChange ==
    [][(step \in {"migrate", "backfill"} /\ target.auto) =>
         \E i \in DOMAIN backups :
            /\ target'.columns \cap backups[i].columns \subseteq target.columns
            /\ DOMAIN backups[i].total = DOMAIN target.total
            /\ \A p \in DOMAIN target.total :
                  backups[i].total[p] \in {"none", target.total[p]}]_target

\* A start on a current database changes nothing of it (db.py:53 "idempotent").
CurrentIsLeftAlone ==
    [][step = "backfill" /\ step' = "running" /\ HasRealData(before) /\ IsCurrent(before)
         => target' = before]_step

\* How many steps a start still takes, at most.
TablesLeft == IF target = Torn THEN 0 ELSE Cardinality(SchemaTables \ Opened.tables)

StepsLeft ==
    LET columns == Len(Additions)
        copied  == columns + 6 + Len(SchemaList)
    IN  [off |-> 0, running |-> 0, backfill |-> 1, migrate |-> columns + 3 - at,
         auto_backup |-> columns + 3, seed |-> columns + 4, schema |-> columns + 5 + TablesLeft,
         copying |-> IF target = Torn THEN copied ELSE copied + 1,
         copy |-> copied + 2, import_backup |-> copied + 3, bootstrap |-> copied + 4][step]

\* A start that is not cut short comes to its end, and gives up only on half a file: it
\* depends on nothing else it may find.
StartAdvances ==
    [][StartStep => StepsLeft' < StepsLeft /\ (step' = "off" => target = Torn)]_vars

\* However often a start is cut short, the program can be used in the end, unless a crash
\* left half a file.
ServesUnlessTorn == step # "running" ~> step = "running" \/ target = Torn

\* __init__.py:34 "safe set-up of the database in every run": it can always be used in the end.
ServesEventually == step # "running" ~> step = "running"

(***************************************************************************)
(* db.py:155 "real data is never overwritten", db.py:53 "idempotent":      *)
(* through every start, crash, relaunch and hour of work the projects and  *)
(* their totals change as Books says and in no other way.                  *)
(***************************************************************************)
AsBooks == INSTANCE Books WITH
    books <- TotalsOf(target), old <- TotalsOf(legacy), open <- step = "running"

BooksImplemented == AsBooks!BooksSpec

\* db.py:82: projects from before there were customer totals get the labor amount, if no
\* start was ever cut short: the UPDATE is not made up for.
UnfilledOnlyAfterCrash ==
    step = "running" /\ crashes = 0
        => \A p \in DOMAIN target.total : meant[p] = "none" => target.total[p] = "labor"
=============================================================================
