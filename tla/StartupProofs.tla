---------------------------- MODULE StartupProofs ---------------------------
(***************************************************************************)
(* What holds of the start for every set of projects, list of columns and  *)
(* number of crashes: a program that runs has a current database, no start *)
(* takes a project away, and to the projects happens only what Books says. *)
(***************************************************************************)
EXTENDS Startup, DataTheorems

\* What each step may rely on, because of the steps before it.  A relaunch comes back to
\* it from any file.
StepsInOrder ==
    /\ target \in Files
    /\ legacy \in Files
    /\ step \in Steps
    /\ at \in Nat \ {0}
    /\ step \in {"import_backup", "copy", "copying"} => ~HasRealData(target) /\ HasRealData(legacy)
    /\ step \in {"seed", "auto_backup", "migrate", "backfill", "running"} =>
          IsDatabase(target) /\ target.tables = SchemaTables
    /\ step \in {"auto_backup", "migrate", "backfill", "running"} => target.users
    /\ step = "migrate" => \A i \in DOMAIN Additions : i < at => Additions[i] \in target.columns
    /\ step \in {"auto_backup", "bootstrap", "seed", "schema", "copy", "copying", "import_backup"} => at = 1
    /\ step \in {"backfill", "running"} => target.columns = Columns

\* What is no sentinel is a database.
LEMMA DatabaseFiles ==
    ASSUME NEW f \in Files
    PROVE  IsDatabase(f) <=> f \in Databases
BY SentinelAssumption DEF Files, IsDatabase

\* The totals of a database are a table.
LEMMA TotalsTable ==
    \A t : t \in UNION {[D -> Totals] : D \in SUBSET Projects} <=> IsTable(t, Projects, Totals)
BY SMTT(60) DEF IsTable

\* The tables and the columns of a database are replaced within their types.
LEMMA DatabaseType ==
    ASSUME NEW d \in Databases
    PROVE  /\ \A T \in SUBSET SchemaTables, C \in SUBSET Columns :
                 [d EXCEPT !.tables = T, !.columns = C] \in Databases
           /\ \A C \in SUBSET Columns, t \in UNION {[D -> Totals] : D \in SUBSET Projects} :
                 [d EXCEPT !.columns = C, !.total = t] \in Databases
           /\ \A b \in BOOLEAN : [d EXCEPT !.users = b] \in Databases /\ [d EXCEPT !.auto = b] \in Databases
           /\ \A t \in UNION {[D -> Totals] : D \in SUBSET Projects} : [d EXCEPT !.total = t] \in Databases
BY DEF Databases

\* The file SQLite creates is a database.
LEMMA EmptyDatabaseType == EmptyDatabase \in Databases
<1>1. EmptyTable \in [{} -> Totals]
  BY DEF EmptyTable
<1> QED
  BY <1>1 DEF EmptyDatabase, Databases

\* The file SQLite opens: a missing one is created empty.
LEMMA OpenedType ==
    ASSUME target \in Files, target # Torn
    PROVE  /\ Opened \in Databases
           /\ DOMAIN Opened.total = DOMAIN TotalsOf(target)
           /\ IsDatabase(Opened)
<1>1. CASE target = Missing
  <2>1. Opened = EmptyDatabase
    BY <1>1 DEF Opened
  <2>2. TotalsOf(target) = EmptyTable /\ EmptyDatabase.total = EmptyTable
    BY <1>1 DEF TotalsOf, IsDatabase, EmptyDatabase
  <2>3. IsDatabase(EmptyDatabase)
    BY EmptyDatabaseType, DatabaseFiles DEF Files
  <2> QED
    BY <2>1, <2>2, <2>3, EmptyDatabaseType
<1>2. CASE target # Missing
  BY <1>2, DatabaseFiles DEF Opened, TotalsOf, IsDatabase
<1> QED
  BY <1>1, <1>2

\* Every step of the program finds and leaves the files as StepsInOrder says.
LEMMA OrderKept == StepsInOrder /\ [StartupNext]_vars => StepsInOrder'
<1> SUFFICES ASSUME StepsInOrder, [StartupNext]_vars PROVE StepsInOrder'
  OBVIOUS
<1> USE DEF Steps
<1>1. CASE Launch
  BY <1>1 DEF Launch, StepsInOrder
<1>2. CASE Bootstrap
  BY <1>2 DEF Bootstrap, StepsInOrder
<1>3. CASE ImportBackup
  BY <1>3 DEF ImportBackup, Raise, StepsInOrder
<1>4. CASE CopyTruncates
  <2>1. EmptyDatabase \in Files /\ ~HasRealData(EmptyDatabase)
    BY EmptyDatabaseType DEF Files, HasRealData, EmptyDatabase, EmptyTable
  <2> QED
    BY <1>4, <2>1 DEF CopyTruncates, StepsInOrder
<1>5. CASE CopyWrites
  <2>1. Torn \in Files /\ ~HasRealData(Torn)
    BY DEF Files, HasRealData, IsDatabase
  <2> QED
    BY <1>5, <2>1 DEF CopyWrites, StepsInOrder
<1>6. CASE CopyEnds
  BY <1>6 DEF CopyEnds, StepsInOrder
<1>7. CASE Schema
  <2>1. CASE target = Torn /\ Raise
    BY <1>7, <2>1 DEF Schema, Raise, StepsInOrder
  <2>2. ASSUME NEW i \in DOMAIN SchemaList,
               target' = [Opened EXCEPT
                  !.tables = @ \cup {SchemaList[i]},
                  !.columns = IF SchemaList[i] = "projects" THEN Columns ELSE @],
               target # Torn, UNCHANGED <<step, legacy, at>>
        PROVE  StepsInOrder'
    <3>1. SchemaList[i] \in SchemaTables
      BY DEF SchemaTables, ToSet
    <3>2. Opened \in Databases
      BY <2>2, OpenedType DEF StepsInOrder
    <3>3. Opened.tables \in SUBSET SchemaTables /\ Opened.columns \in SUBSET Columns
      BY <3>2 DEF Databases
    <3>4. target' \in Databases
      BY <2>2, <3>1, <3>2, <3>3, DatabaseType
    <3> QED
      BY <1>7, <2>2, <3>4 DEF Schema, Files, StepsInOrder
  <2>3. CASE /\ target # Torn
             /\ SchemaTables \subseteq Opened.tables
             /\ target' = Opened
             /\ step' = "seed"
             /\ UNCHANGED <<legacy, at>>
    <3>1. Opened \in Databases /\ IsDatabase(Opened)
      BY <2>3, OpenedType DEF StepsInOrder
    <3>2. Opened.tables = SchemaTables
      BY <2>3, <3>1 DEF Databases
    <3> QED
      BY <1>7, <2>3, <3>1, <3>2 DEF Schema, Files, StepsInOrder
  <2> QED
    BY <1>7, <2>1, <2>2, <2>3 DEF Schema
<1>8. CASE Seed
  <2>1. target \in Databases
    BY <1>8, DatabaseFiles DEF Seed, StepsInOrder
  <2>2. target' \in Databases /\ target'.tables = target.tables /\ target'.users
    BY <1>8, <2>1, DatabaseType, ZenonT(60) DEF Seed, Databases
  <2>3. IsDatabase(target') /\ target' \in Files
    BY <2>2, DatabaseFiles DEF Files
  <2> QED
    BY <1>8, <2>2, <2>3 DEF Seed, StepsInOrder
<1>9. CASE AutoBackup
  BY <1>9, AdditionsAssumption DEF AutoBackup, StepsInOrder
<1>10. CASE AddColumn
  <2>1. target \in Databases
    BY <1>10, DatabaseFiles DEF AddColumn, StepsInOrder
  <2>2. at \in DOMAIN Additions /\ Additions[at] \in Columns
    <3>1. at \in DOMAIN Additions
      BY <1>10, AdditionsAssumption DEF AddColumn, StepsInOrder
    <3> QED
      BY <3>1, AdditionsAssumption
  <2>3. /\ target' \in Databases
        /\ target'.tables = target.tables /\ target'.users = target.users
        /\ target'.columns = target.columns \cup {Additions[at]}
    <3>1. CASE Additions[at] \in target.columns
      BY <1>10, <2>1, <3>1 DEF AddColumn
    <3>2. CASE Additions[at] \notin target.columns
      <4> DEFINE C == target.columns \cup {Additions[at]}
                 t == IF Additions[at] = "customer_total"
                        THEN [p \in DOMAIN target.total |-> "zero"] ELSE target.total
      <4>1. target.columns \subseteq Columns
            /\ target.total \in UNION {[D -> Totals] : D \in SUBSET Projects}
        BY <2>1 DEF Databases
      <4>2. t \in UNION {[D -> Totals] : D \in SUBSET Projects}
        BY <4>1 DEF Totals
      <4>3. target' = [target EXCEPT !.columns = C, !.total = t]
        BY <1>10, <3>2 DEF AddColumn, WithColumn
      <4> HIDE DEF t
      <4>4. target' \in Databases
        BY <2>1, <2>2, <4>1, <4>2, <4>3, DatabaseType
      <4> QED
        BY <2>1, <4>3, <4>4 DEF Databases
    <3> QED
      BY <3>1, <3>2
  <2>4. IsDatabase(target') /\ target' \in Files
    BY <2>3, DatabaseFiles DEF Files
  <2>5. at' = at + 1 /\ UNCHANGED <<legacy, step>> /\ step = "migrate"
    BY <1>10 DEF AddColumn
  <2>6. \A i \in DOMAIN Additions : i < at' => Additions[i] \in target'.columns
    BY <2>3, <2>5, AdditionsAssumption DEF StepsInOrder
  <2> QED
    BY <2>3, <2>4, <2>5, <2>6 DEF StepsInOrder
<1>11. CASE ColumnsDone
  <2>1. target \in Databases
    BY <1>11, DatabaseFiles DEF ColumnsDone, StepsInOrder
  <2>2. \A i \in DOMAIN Additions : i < at
    BY <1>11, AdditionsAssumption DEF ColumnsDone, StepsInOrder
  <2>3. target.columns = Columns
    BY <1>11, <2>1, <2>2 DEF ColumnsDone, StepsInOrder, Columns, ToSet, Databases
  <2> QED
    BY <1>11, <2>3 DEF ColumnsDone, StepsInOrder
<1>12. CASE Backfill
  <2>1. target \in Databases
    BY <1>12, DatabaseFiles DEF Backfill, StepsInOrder
  <2>2. /\ target' \in Databases
        /\ target'.tables = target.tables /\ target'.users = target.users
        /\ target'.columns = target.columns
    <3> DEFINE t == Filled(target.total)
    <3>1. target.total \in UNION {[D -> Totals] : D \in SUBSET Projects}
      BY <2>1 DEF Databases
    <3>2. t \in UNION {[D -> Totals] : D \in SUBSET Projects}
      BY <3>1 DEF Filled, Totals
    <3>3. target' = target \/ target' = [target EXCEPT !.total = t]
      BY <1>12 DEF Backfill
    <3> HIDE DEF t
    <3>4. CASE target' = target
      BY <2>1, <3>4
    <3>5. CASE target' = [target EXCEPT !.total = t]
      <4>1. target' \in Databases
        BY <2>1, <3>2, <3>5, DatabaseType
      <4> QED
        BY <2>1, <3>5, <4>1 DEF Databases
    <3> QED
      BY <3>3, <3>4, <3>5
  <2>3. IsDatabase(target') /\ target' \in Files
    BY <2>2, DatabaseFiles DEF Files
  <2> QED
    BY <1>12, <2>2, <2>3 DEF Backfill, StepsInOrder
<1>13. CASE Crash \/ Quit
  BY <1>13 DEF Crash, Quit, StepsInOrder
<1>14. CASE Use
  <2>1. target \in Databases
    BY <1>14, DatabaseFiles DEF Use, StepsInOrder
  <2>2. /\ target' \in Databases
        /\ target'.tables = target.tables /\ target'.users = target.users
        /\ target'.columns = target.columns
    <3>1. target.total \in UNION {[D -> Totals] : D \in SUBSET Projects} /\ target.auto \in BOOLEAN
      BY <2>1 DEF Databases
    <3>2. ASSUME NEW p \in Projects, NEW x \in Totals
          PROVE  Put(target.total, p, x) \in UNION {[D -> Totals] : D \in SUBSET Projects}
      BY <3>1, TotalsTable, PutTable
    <3>3. ASSUME NEW p \in Projects
          PROVE  Without(target.total, {p}) \in UNION {[D -> Totals] : D \in SUBSET Projects}
      BY <3>1, TotalsTable, WithoutTable
    <3>4. CASE \E t \in UNION {[D -> Totals] : D \in SUBSET Projects} :
                  target' = [target EXCEPT !.total = t]
      <4>1. target' \in Databases
        BY <2>1, <3>4, DatabaseType
      <4> QED
        BY <2>1, <3>4, <4>1 DEF Databases
    <3>5. CASE target' = [target EXCEPT !.auto = ~@]
      <4>1. target' \in Databases
        BY <2>1, <3>1, <3>5, DatabaseType
      <4> QED
        BY <2>1, <3>5, <4>1 DEF Databases
    <3>6. ASSUME NEW p \in Projects, NEW x \in Totals, SaveProject(p, x)
          PROVE  \E t \in UNION {[D -> Totals] : D \in SUBSET Projects} :
                    target' = [target EXCEPT !.total = t]
      BY <3>2, <3>6 DEF SaveProject
    <3>7. ASSUME NEW p \in Projects, DeleteProject(p)
          PROVE  \E t \in UNION {[D -> Totals] : D \in SUBSET Projects} :
                    target' = [target EXCEPT !.total = t]
      BY <3>3, <3>7 DEF DeleteProject
    <3> QED
      BY <1>14, <3>4, <3>5, <3>6, <3>7 DEF Use
  <2>3. IsDatabase(target') /\ target' \in Files
    BY <2>2, DatabaseFiles DEF Files
  <2> QED
    BY <1>14, <2>2, <2>3 DEF Use, StepsInOrder
<1>15. CASE UNCHANGED vars
  BY <1>15 DEF vars, StepsInOrder
<1> QED
  BY <1>1, <1>2, <1>3, <1>4, <1>5, <1>6, <1>7, <1>8, <1>9, <1>10, <1>11, <1>12, <1>13, <1>14,
     <1>15 DEF StartupNext, StartStep

\* In every reachable state.
LEMMA OrderHolds == StartupSpec => []StepsInOrder
<1>1. StartupInit => StepsInOrder
  BY FilesAssumption DEF StartupInit, StepsInOrder, Steps, Files
<1> QED
  BY <1>1, OrderKept, PTL DEF StartupSpec
-----------------------------------------------------------------------------
\* However many starts were cut short, and on whatever files, a program that runs has
\* every table, every column and a user.
THEOREM RunningIsCurrent == StartupSpec => []ServesCurrent
<1>1. StepsInOrder => ServesCurrent
  BY DEF StepsInOrder, ServesCurrent, IsCurrent
<1> QED
  BY <1>1, OrderHolds, PTL

\* No step of a start, and no crash, takes a project away from the target.
THEOREM NothingLost == StartupSpec => StartLosesNothing
<1> DEFINE Kept == step # "running" => DOMAIN TotalsOf(target) \subseteq DOMAIN TotalsOf(target')
<1>1. ASSUME StepsInOrder, StepsInOrder', StartupNext, target' # target, step # "running"
      PROVE  DOMAIN TotalsOf(target) \subseteq DOMAIN TotalsOf(target')
  <2>1. CASE step \in {"copy", "copying"}
    BY <1>1, <2>1 DEF StepsInOrder, HasRealData, TotalsOf, EmptyTable
  <2>2. CASE Schema
    <3>1. target # Torn
      BY <1>1, <2>2 DEF Schema, Raise
    <3>2. IsDatabase(target') /\ target'.total = Opened.total
      <4>1. Opened \in Databases
        BY <1>1, <3>1, OpenedType DEF StepsInOrder
      <4>2. target'.total = Opened.total
        BY <2>2, <3>1, <4>1 DEF Schema, Databases
      <4>3. target' \in Databases
        <5>1. CASE target' = Opened
          BY <4>1, <5>1
        <5>2. CASE target' # Opened
          <6>1. PICK i \in DOMAIN SchemaList :
                   target' = [Opened EXCEPT
                      !.tables = @ \cup {SchemaList[i]},
                      !.columns = IF SchemaList[i] = "projects" THEN Columns ELSE @]
            BY <2>2, <3>1, <5>2 DEF Schema
          <6>2. SchemaList[i] \in SchemaTables
            BY DEF SchemaTables, ToSet
          <6>3. Opened.tables \in SUBSET SchemaTables /\ Opened.columns \in SUBSET Columns
            BY <4>1 DEF Databases
          <6> QED
            BY <4>1, <6>1, <6>2, <6>3, DatabaseType
        <5> QED
          BY <5>1, <5>2
      <4> QED
        BY <4>2, <4>3, DatabaseFiles DEF Files
    <3> QED
      BY <1>1, <3>1, <3>2, OpenedType DEF StepsInOrder, TotalsOf
  <2>3. CASE Seed \/ AddColumn \/ Backfill
    <3>1. target \in Databases /\ IsDatabase(target)
      BY <2>3, <1>1, DatabaseFiles DEF Seed, AddColumn, Backfill, StepsInOrder
    <3>2. IsDatabase(target')
      BY <2>3, <1>1 DEF Seed, AddColumn, Backfill, StepsInOrder
    <3>3. DOMAIN target'.total = DOMAIN target.total
      <4>1. CASE Seed
        BY <3>1, <4>1 DEF Seed, Databases
      <4>2. CASE AddColumn
        <5>1. target' = WithColumn(target, Additions[at])
          BY <1>1, <4>2 DEF AddColumn
        <5> QED
          BY <3>1, <5>1 DEF WithColumn, Databases
      <4>3. CASE Backfill
        <5>1. target' = [target EXCEPT !.total = Filled(target.total)]
          BY <1>1, <4>3 DEF Backfill
        <5> QED
          BY <3>1, <5>1 DEF Filled, Databases
      <4> QED
        BY <2>3, <4>1, <4>2, <4>3
    <3> QED
      BY <3>1, <3>2, <3>3 DEF TotalsOf
  <2>4. \/ step \in {"copy", "copying"} \/ Schema \/ Seed \/ AddColumn \/ Backfill
    BY <1>1 DEF StartupNext, StartStep, Launch, Bootstrap, ImportBackup, Raise, CopyTruncates,
       CopyWrites, CopyEnds, AutoBackup, ColumnsDone, Crash, Quit, Use
  <2> QED
    BY <2>1, <2>2, <2>3, <2>4
<1>2. StepsInOrder /\ StepsInOrder' /\ [StartupNext]_vars => [Kept]_target
  BY <1>1 DEF vars
<1> QED
  BY <1>2, OrderHolds, PTL DEF StartupSpec, StartLosesNothing
-----------------------------------------------------------------------------
\* What the copy is about to replace has been saved, or is no file at all.
CopySaved == step = "copy" => target \in saved \cup {Missing}

\* The copy begins in two ways only, and nothing but its first step touches the target.
LEMMA CopySavedKept == CopySaved /\ [StartupNext]_vars => CopySaved'
<1> SUFFICES ASSUME CopySaved, [StartupNext]_vars, step' = "copy"
             PROVE  target' \in saved' \cup {Missing}
  BY DEF CopySaved
<1>1. CASE Bootstrap
  BY <1>1 DEF Bootstrap
<1>2. CASE ImportBackup
  BY <1>2 DEF ImportBackup, Raise
<1>3. CASE UNCHANGED vars
  BY <1>3 DEF vars, CopySaved
<1>4. CASE ~(Bootstrap \/ ImportBackup \/ UNCHANGED vars)
  BY <1>4 DEF StartupNext, StartStep, Launch, CopyTruncates, CopyWrites, CopyEnds, Schema, Raise,
     Seed, AutoBackup, AddColumn, ColumnsDone, Backfill, Crash, Quit, Use
<1> QED
  BY <1>1, <1>2, <1>3, <1>4

\* However often a start is cut short, what a legacy database replaces was saved before.
THEOREM ReplacedWasSaved == StartupSpec => ReplacedIsKept
<1>1. StartupInit => CopySaved
  BY DEF StartupInit, CopySaved
<1>2. CopySaved => [step = "copy" => target \in saved \cup {Missing}]_target
  BY DEF CopySaved
<1> QED
  BY <1>1, <1>2, CopySavedKept, PTL DEF StartupSpec, ReplacedIsKept
-----------------------------------------------------------------------------
\* While a start goes on, a database that was current at its launch is as it was.
CurrentAsBefore ==
    step \notin {"off", "running"} /\ HasRealData(before) /\ IsCurrent(before) =>
        /\ target = before /\ before \in Databases
        /\ step \notin {"import_backup", "copy", "copying"}
        /\ changed = FALSE

\* No step of a start finds anything to do on such a database.
LEMMA CurrentKept == StepsInOrder /\ CurrentAsBefore /\ [StartupNext]_vars => CurrentAsBefore'
<1> SUFFICES ASSUME StepsInOrder, CurrentAsBefore, [StartupNext]_vars,
                    step' \notin {"off", "running"}, HasRealData(before'), IsCurrent(before')
             PROVE  /\ target' = before' /\ before' \in Databases
                    /\ step' \notin {"import_backup", "copy", "copying"}
                    /\ changed' = FALSE
  BY DEF CurrentAsBefore, HasRealData, IsCurrent, IsDatabase
<1>1. CASE Launch
  <2>1. target \in Databases
    BY <1>1, DatabaseFiles DEF Launch, HasRealData, StepsInOrder
  <2> QED
    BY <1>1, <2>1 DEF Launch
<1>2. CASE step \notin {"off", "running"} /\ UNCHANGED before
  <2>1. /\ target = before /\ before \in Databases /\ changed = FALSE
        /\ step \notin {"import_backup", "copy", "copying"}
        /\ HasRealData(before) /\ IsCurrent(before)
    BY <1>2 DEF CurrentAsBefore
  <2>2. CASE Bootstrap
    BY <1>2, <2>1, <2>2 DEF Bootstrap
  <2>3. CASE Schema
    BY <1>2, <2>1, <2>3, SentinelAssumption
       DEF Schema, Opened, IsCurrent, HasRealData, IsDatabase, SchemaTables, ToSet, Raise
  <2>4. CASE Seed
    BY <1>2, <2>1, <2>4 DEF Seed, IsCurrent, Databases
  <2>5. CASE AddColumn
    <3>1. Additions[at] \in Columns
      BY <2>5, AdditionsAssumption DEF AddColumn, StepsInOrder
    <3> QED
      BY <1>2, <2>1, <2>5, <3>1 DEF AddColumn, IsCurrent
  <2>6. CASE AutoBackup \/ ColumnsDone \/ UNCHANGED vars
    BY <1>2, <2>1, <2>6 DEF AutoBackup, ColumnsDone, vars
  <2> QED
    BY <1>2, <2>1, <2>2, <2>3, <2>4, <2>5, <2>6
       DEF StartupNext, StartStep, Launch, ImportBackup, CopyTruncates, CopyWrites, CopyEnds,
           Backfill, Crash, Quit, Use
<1> QED
  BY <1>1, <1>2 DEF StartupNext, StartStep, Bootstrap, ImportBackup, CopyTruncates, CopyWrites,
     CopyEnds, Schema, Seed, AutoBackup, AddColumn, ColumnsDone, Backfill, Crash, Quit, Use,
     vars

\* A start on a current database with projects leaves it exactly as it was.
THEOREM StartIsIdempotent == StartupSpec => CurrentIsLeftAlone
<1>1. StartupInit => CurrentAsBefore
  BY DEF StartupInit, CurrentAsBefore
<1>2. CurrentAsBefore /\ [StartupNext]_vars =>
        [step = "backfill" /\ step' = "running" /\ HasRealData(before) /\ IsCurrent(before)
           => target' = before]_step
  <2> SUFFICES ASSUME CurrentAsBefore, [StartupNext]_vars, step = "backfill",
                      step' = "running", HasRealData(before), IsCurrent(before)
               PROVE  target' = before
    OBVIOUS
  <2>1. target = before /\ changed = FALSE
    BY DEF CurrentAsBefore
  <2>2. Backfill
    BY DEF StartupNext, StartStep, Launch, Bootstrap, ImportBackup, Raise, CopyTruncates,
       CopyWrites, CopyEnds, Schema, Seed, AutoBackup, AddColumn, ColumnsDone, Crash, Quit, Use, vars
  <2> QED
    BY <2>1, <2>2 DEF Backfill
<1> QED
  BY <1>1, <1>2, CurrentKept, OrderHolds, PTL DEF StartupSpec, CurrentIsLeftAlone
-----------------------------------------------------------------------------
\* A database without the column of customer totals has none: of both files, always.
Fits == TotalsFitColumns(target) /\ TotalsFitColumns(legacy)

\* The totals of any file are a table.
LEMMA TotalsOfType == \A f \in Files : IsTable(TotalsOf(f), Projects, Totals)
<1> SUFFICES ASSUME NEW f \in Files PROVE IsTable(TotalsOf(f), Projects, Totals)
  OBVIOUS
<1>1. CASE IsDatabase(f)
  <2>1. f.total \in UNION {[D -> Totals] : D \in SUBSET Projects}
    BY <1>1, DatabaseFiles DEF Databases
  <2> QED
    BY <1>1, <2>1, TotalsTable DEF TotalsOf
<1>2. CASE ~IsDatabase(f)
  <2>1. EmptyTable \in [{} -> Totals]
    BY DEF EmptyTable
  <2> QED
    BY <1>2, <2>1 DEF TotalsOf, IsTable
<1> QED
  BY <1>1, <1>2

\* The table without rows is one.
LEMMA NoTotals == \A t : IsTable(t, Projects, Totals) /\ DOMAIN t = {} => t = EmptyTable
BY DEF IsTable, EmptyTable

\* SQLite opens a missing file as one without totals.
LEMMA OpenedTotals ==
    ASSUME StepsInOrder, target # Torn
    PROVE  /\ Opened \in Databases
           /\ Opened.total = TotalsOf(target)
           /\ TotalsFitColumns(target) => TotalsFitColumns(Opened)
<1>1. Opened \in Databases /\ IsDatabase(Opened)
  BY OpenedType DEF StepsInOrder
<1>2. CASE target = Missing
  <2>1. Opened = EmptyDatabase /\ Opened.total = EmptyTable /\ TotalsOf(target) = EmptyTable
    BY <1>2 DEF Opened, EmptyDatabase, TotalsOf, IsDatabase
  <2>2. DOMAIN Opened.total = {}
    BY <2>1 DEF EmptyTable
  <2> QED
    BY <1>1, <2>1, <2>2 DEF TotalsFitColumns
<1>3. CASE target # Missing
  BY <1>1, <1>3 DEF Opened, TotalsOf, IsDatabase
<1> QED
  BY <1>2, <1>3

\* The script changes no total, and a database it gives columns fits them.
LEMMA SchemaTotals ==
    ASSUME StepsInOrder, TotalsFitColumns(target), Schema
    PROVE  TotalsOf(target') = TotalsOf(target) /\ TotalsFitColumns(target')
<1>1. CASE target = Torn
  BY <1>1 DEF Schema, Raise
<1>2. CASE target # Torn
  <2>1. Opened \in Databases /\ Opened.total = TotalsOf(target) /\ TotalsFitColumns(Opened)
    BY <1>2, OpenedTotals
  <2>2. IsDatabase(Opened)
    BY <2>1, DatabaseFiles DEF Files
  <2>3. CASE target' = Opened
    BY <2>1, <2>2, <2>3 DEF TotalsOf
  <2>4. CASE target' # Opened
    <3>1. PICK i \in DOMAIN SchemaList :
             /\ SchemaList[i] \notin Opened.tables
             /\ target' = [Opened EXCEPT
                   !.tables = @ \cup {SchemaList[i]},
                   !.columns = IF SchemaList[i] = "projects" THEN Columns ELSE @]
      BY <1>2, <2>4 DEF Schema
    <3> DEFINE T == Opened.tables \cup {SchemaList[i]}
               C == IF SchemaList[i] = "projects" THEN Columns ELSE Opened.columns
    <3>2. target' = [Opened EXCEPT !.tables = T, !.columns = C]
      BY <3>1
    <3>3. T \in SUBSET SchemaTables /\ C \in SUBSET Columns
      BY <2>1 DEF Databases, SchemaTables, ToSet
    <3>4. /\ Opened.tables \subseteq T
          /\ C = Opened.columns \/ "projects" \notin Opened.tables
      BY <3>1
    <3> HIDE DEF T, C
    <3>5. target' \in Databases
      BY <2>1, <3>2, <3>3, DatabaseType
    <3>6. target'.total = Opened.total /\ target'.columns = C /\ target'.tables = T
      BY <2>1, <3>2 DEF Databases
    <3>7. IsDatabase(target')
      BY <3>5, DatabaseFiles DEF Files
    <3>8. TotalsFitColumns(target')
      BY <2>1, <2>2, <3>4, <3>6 DEF TotalsFitColumns
    <3> QED
      BY <2>1, <3>6, <3>7, <3>8 DEF TotalsOf
  <2> QED
    BY <2>3, <2>4
<1> QED
  BY <1>1, <1>2

\* The default rows change neither totals nor columns.
LEMMA SeedTotals ==
    ASSUME StepsInOrder, Seed
    PROVE  /\ TotalsOf(target') = TotalsOf(target)
           /\ TotalsFitColumns(target) => TotalsFitColumns(target')
<1>1. target \in Databases /\ IsDatabase(target)
  BY DatabaseFiles DEF Seed, StepsInOrder
<1>2. target' = [target EXCEPT !.users = TRUE]
  BY DEF Seed
<1>3. /\ target' \in Databases /\ target'.total = target.total
      /\ target'.columns = target.columns /\ target'.tables = target.tables
  BY <1>1, <1>2, DatabaseType, ZenonT(60) DEF Databases
<1>4. IsDatabase(target')
  BY <1>3, DatabaseFiles DEF Files
<1> QED
  BY <1>1, <1>3, <1>4 DEF TotalsOf, TotalsFitColumns

\* A column is added: that of the totals gives each project the default, and gives it to
\* projects that had none.
LEMMA AddColumnTotals ==
    ASSUME StepsInOrder, StepsInOrder', TotalsFitColumns(target), AddColumn
    PROVE  /\ \/ TotalsOf(target') = TotalsOf(target)
              \/ /\ \A p \in DOMAIN TotalsOf(target) : TotalsOf(target)[p] = "none"
                 /\ TotalsOf(target') = [p \in DOMAIN TotalsOf(target) |-> "zero"]
           /\ TotalsFitColumns(target')
<1>1. target \in Databases /\ IsDatabase(target) /\ IsDatabase(target')
  BY DatabaseFiles DEF AddColumn, StepsInOrder
<1>2. CASE Additions[at] \in target.columns
  BY <1>2 DEF AddColumn
<1>3. CASE Additions[at] \notin target.columns
  <2> DEFINE C == target.columns \cup {Additions[at]}
             t == IF Additions[at] = "customer_total"
                    THEN [p \in DOMAIN target.total |-> "zero"] ELSE target.total
  <2>1. target' = [target EXCEPT !.columns = C, !.total = t]
    BY <1>3 DEF AddColumn, WithColumn
  <2>2. target'.columns = C /\ target'.total = t /\ target'.tables = target.tables
    BY <1>1, <2>1 DEF Databases
  <2>3. CASE Additions[at] = "customer_total"
    BY <1>1, <1>3, <2>2, <2>3 DEF TotalsOf, TotalsFitColumns
  <2>4. CASE Additions[at] # "customer_total"
    BY <1>1, <2>2, <2>4 DEF TotalsOf, TotalsFitColumns
  <2> QED
    BY <2>3, <2>4
<1> QED
  BY <1>2, <1>3

\* The UPDATE fills all totals in, or none.
LEMMA BackfillTotals ==
    ASSUME StepsInOrder, StepsInOrder', TotalsFitColumns(target), Backfill
    PROVE  /\ TotalsOf(target') = TotalsOf(target) \/ TotalsOf(target') = Filled(TotalsOf(target))
           /\ TotalsFitColumns(target')
<1>1. target \in Databases /\ IsDatabase(target) /\ IsDatabase(target')
  BY DatabaseFiles DEF Backfill, StepsInOrder
<1>2. target'.columns = Columns /\ target.columns = Columns /\ target'.tables = SchemaTables
  BY DEF Backfill, StepsInOrder
<1>3. target'.total = target.total \/ target'.total = Filled(target.total)
  BY <1>1 DEF Backfill, Databases
<1>4. \A p \in DOMAIN target.total : target.total[p] # "none"
  BY <1>1, <1>2, AdditionsAssumption DEF TotalsFitColumns
<1>5. \A p \in DOMAIN target'.total : target'.total[p] # "none"
  BY <1>3, <1>4 DEF Filled
<1>6. TotalsFitColumns(target')
  BY <1>2, <1>5, AdditionsAssumption DEF TotalsFitColumns, SchemaTables, ToSet, SchemaList
<1> QED
  BY <1>1, <1>3, <1>6 DEF TotalsOf

\* A user changes the total of one project, or nothing of the totals.
LEMMA UseTotals ==
    ASSUME StepsInOrder, StepsInOrder', TotalsFitColumns(target), Use
    PROVE  /\ \/ TotalsOf(target') = TotalsOf(target)
              \/ \E p \in Projects :
                    \/ \E x \in Totals \ {"none"} : TotalsOf(target') = Put(TotalsOf(target), p, x)
                    \/ TotalsOf(target') = Without(TotalsOf(target), {p})
           /\ TotalsFitColumns(target')
<1>1. target \in Databases /\ IsDatabase(target) /\ IsDatabase(target')
  BY DatabaseFiles DEF Use, StepsInOrder
<1>2. target'.columns = Columns /\ target.columns = Columns /\ target'.tables = SchemaTables
  BY DEF Use, StepsInOrder
<1>3. \/ target'.total = target.total
      \/ \E p \in Projects :
            \/ \E x \in Totals \ {"none"} : target'.total = Put(target.total, p, x)
            \/ target'.total = Without(target.total, {p})
  BY <1>1 DEF Use, SaveProject, DeleteProject, Databases
<1>4. \A p \in DOMAIN target.total : target.total[p] # "none"
  BY <1>1, <1>2, AdditionsAssumption DEF TotalsFitColumns
<1>5. \A p \in DOMAIN target'.total : target'.total[p] # "none"
  BY <1>3, <1>4 DEF Put, Upsert, Without, Restrict
<1>6. TotalsFitColumns(target')
  BY <1>2, <1>5, AdditionsAssumption DEF TotalsFitColumns, SchemaTables, ToSet, SchemaList
<1> QED
  BY <1>1, <1>3, <1>6 DEF TotalsOf
-----------------------------------------------------------------------------
\* Databases go on fitting their columns.
LEMMA FitsKept ==
    ASSUME StepsInOrder, StepsInOrder', Fits, [StartupNext]_vars
    PROVE  Fits'
<1>1. legacy' = legacy
  BY DEF StartupNext, StartStep, Launch, Bootstrap, ImportBackup, Raise, CopyTruncates,
     CopyWrites, CopyEnds, Schema, Seed, AutoBackup, AddColumn, ColumnsDone, Backfill, Crash, Quit,
     Use, vars
<1>2. TotalsFitColumns(target')
  <2>1. CASE CopyTruncates \/ CopyWrites
    BY <2>1 DEF CopyTruncates, CopyWrites, TotalsFitColumns, IsDatabase, EmptyDatabase, EmptyTable
  <2>2. CASE CopyEnds
    BY <2>2 DEF CopyEnds, Fits
  <2>3. CASE Schema \/ Seed \/ AddColumn \/ Backfill \/ Use
    BY <2>3, SchemaTotals, SeedTotals, AddColumnTotals, BackfillTotals, UseTotals DEF Fits
  <2>4. CASE target' = target
    BY <2>4 DEF Fits
  <2> QED
    BY <2>1, <2>2, <2>3, <2>4 DEF StartupNext, StartStep, Launch, Bootstrap, ImportBackup, Raise,
       AutoBackup, ColumnsDone, Crash, Quit, vars
<1> QED
  BY <1>1, <1>2 DEF Fits

\* Databases fit their columns in every reachable state.
LEMMA FitsHolds == StartupSpec => []Fits
<1>1. StartupInit => Fits
  BY VersionsAssumption DEF StartupInit, Fits
<1> QED
  BY <1>1, FitsKept, OrderHolds, PTL DEF StartupSpec

\* Books takes its tables from the same module.
LEMMA SameTables ==
    /\ \A t, key, row : AsBooks!Put(t, key, row) = Put(t, key, row)
    /\ \A t, gone : AsBooks!Without(t, gone) = Without(t, gone)
    /\ \A t, Keys, Row : AsBooks!IsTable(t, Keys, Row) <=> IsTable(t, Keys, Row)
BY DEF AsBooks!Put, Put, AsBooks!Upsert, Upsert, AsBooks!Without, Without, AsBooks!Restrict,
   Restrict, AsBooks!IsTable, IsTable

\* Every step of the program is a step of Books, or changes nothing Books knows of.
LEMMA StepOfBooks ==
    ASSUME StepsInOrder, StepsInOrder', Fits, [StartupNext]_vars
    PROVE  [AsBooks!BooksNext]_(AsBooks!booksVars)
<1> DEFINE now == TotalsOf(target)
           next == TotalsOf(target')
           Same == next = now /\ UNCHANGED <<TotalsOf(legacy), step = "running">>
<1> USE DEF AsBooks!booksVars
<1>1. IsTable(now, Projects, Totals) /\ IsTable(next, Projects, Totals)
  BY TotalsOfType DEF StepsInOrder
<1>2. Same => UNCHANGED AsBooks!booksVars
  OBVIOUS
<1>3. CASE Launch \/ Bootstrap \/ ImportBackup \/ AutoBackup \/ ColumnsDone
  BY <1>2, <1>3 DEF Launch, Bootstrap, ImportBackup, Raise, AutoBackup, ColumnsDone
<1>4. CASE CopyTruncates \/ CopyWrites
  <2>1. DOMAIN now = {} /\ DOMAIN next = {}
    BY <1>4 DEF CopyTruncates, CopyWrites, StepsInOrder, HasRealData, TotalsOf, EmptyDatabase,
       EmptyTable, IsDatabase
  <2>2. next = now
    BY <1>1, <2>1, NoTotals
  <2> QED
    BY <1>2, <1>4, <2>2 DEF CopyTruncates, CopyWrites
<1>5. CASE CopyEnds
  <2>1. DOMAIN now = {}
    BY <1>5 DEF CopyEnds, StepsInOrder, HasRealData, TotalsOf, EmptyTable
  <2>2. AsBooks!Import
    BY <1>5, <2>1, SMTT(60) DEF CopyEnds, AsBooks!Import
  <2> QED
    BY <2>2 DEF AsBooks!BooksNext
<1>6. CASE Schema
  BY <1>2, <1>6, SchemaTotals DEF Schema, Raise, Fits
<1>7. CASE Seed
  BY <1>2, <1>7, SeedTotals DEF Seed
<1>8. CASE AddColumn
  <2>1. CASE next = now
    BY <1>2, <1>8, <2>1 DEF AddColumn
  <2>2. CASE next # now
    <3>1. AsBooks!GiveTotals
      BY <1>8, <2>2, AddColumnTotals DEF AddColumn, Fits, AsBooks!GiveTotals
    <3> QED
      BY <3>1 DEF AsBooks!BooksNext
  <2> QED
    BY <2>1, <2>2
<1>9. CASE Backfill
  <2>1. Filled(now) = AsBooks!Filled(now)
    BY DEF Filled, AsBooks!Filled
  <2>2. AsBooks!OpenBooks
    BY <1>9, <2>1, BackfillTotals DEF Backfill, Fits, AsBooks!OpenBooks
  <2> QED
    BY <2>2 DEF AsBooks!BooksNext
<1>10. CASE Crash
  BY <1>2, <1>10 DEF Crash
<1>11. CASE Quit
  <2>1. AsBooks!CloseBooks
    BY <1>11 DEF Quit, AsBooks!CloseBooks
  <2> QED
    BY <2>1 DEF AsBooks!BooksNext
<1>12. CASE Use
  <2>1. CASE next = now
    BY <1>2, <1>12, <2>1 DEF Use
  <2>2. CASE next # now
    <3>1. AsBooks!Change
      BY <1>12, <2>2, UseTotals, SameTables DEF Use, Fits, AsBooks!Change
    <3> QED
      BY <3>1 DEF AsBooks!BooksNext
  <2> QED
    BY <2>1, <2>2
<1>13. CASE UNCHANGED vars
  BY <1>2, <1>13 DEF vars
<1> QED
  BY <1>3, <1>4, <1>5, <1>6, <1>7, <1>8, <1>9, <1>10, <1>11, <1>12, <1>13 DEF StartupNext, StartStep

\* A start keeps what Books promises, whatever files it finds and wherever it is cut short:
\* projects are neither lost nor changed but by their users, by one import into an empty
\* database, and by the totals given to old projects, to all of them or to none.
THEOREM StartupImplementsBooks == StartupSpec => BooksImplemented
<1>1. StartupInit => AsBooks!BooksInit
  <2>1. StartupInit => target \in Files /\ legacy \in Files
    BY FilesAssumption DEF StartupInit, Files
  <2> QED
    BY <2>1, TotalsOfType, SameTables DEF StartupInit, AsBooks!BooksInit
<1> QED
  BY <1>1, FitsHolds, StepOfBooks, OrderHolds, PTL
     DEF StartupSpec, BooksImplemented, AsBooks!BooksSpec
-----------------------------------------------------------------------------
\* What else there is has its type: only readable files are copied, and no more kept than said.
RestTyped ==
    /\ before \in Files /\ backups \in Seq(Databases) /\ Len(backups) <= Keep
    /\ saved \subseteq Databases /\ at <= Len(Additions) + 1
    /\ changed \in BOOLEAN /\ crashes \in 0 .. MaxCrashes
    /\ IsTable(meant, Projects, Totals)
    /\ step = "import_backup" => target # Missing

\* Pruning keeps the newest, and at most so many as it is told.
LEMMA PrunedType ==
    ASSUME NEW d \in Databases, NEW bs \in Seq(Databases)
    PROVE  /\ Pruned(<<d>> \o bs) \in Seq(Databases) /\ Len(Pruned(<<d>> \o bs)) <= Keep
           /\ Pruned(<<d>> \o bs) # << >> /\ Pruned(<<d>> \o bs)[1] = d
<1> DEFINE all == <<d>> \o bs
           n == IF Len(all) < Keep THEN Len(all) ELSE Keep
<1>1. all \in Seq(Databases) /\ Len(all) >= 1 /\ all[1] = d
  OBVIOUS
<1> HIDE DEF all
<1>2. n \in 1 .. Len(all) /\ n <= Keep
  BY <1>1, KeepAssumption
<1> HIDE DEF n
<1>3. /\ SubSeq(all, 1, n) \in Seq(Databases) /\ Len(SubSeq(all, 1, n)) = n
      /\ SubSeq(all, 1, n)[1] = all[1]
  BY <1>1, <1>2
<1>4. Pruned(all) = SubSeq(all, 1, n)
  BY DEF Pruned, n
<1>5. n >= 1 /\ n \in Nat
  BY <1>1, <1>2
<1>6. /\ Pruned(all) \in Seq(Databases) /\ Len(Pruned(all)) <= Keep
      /\ Len(Pruned(all)) # 0 /\ Pruned(all)[1] = d
  BY <1>1, <1>2, <1>3, <1>4, <1>5, KeepAssumption
<1>7. Pruned(all) # << >>
  BY <1>6
<1> QED
  BY <1>6, <1>7 DEF all

\* What a user does leaves a table of what was typed.
LEMMA MeantType ==
    ASSUME IsTable(meant, Projects, Totals), Use
    PROVE  IsTable(meant', Projects, Totals)
<1>1. CASE meant' = meant
  BY <1>1
<1>2. CASE \E p \in Projects, t \in Totals \ {"none"} : meant' = Put(meant, p, t)
  <2>1. PICK p \in Projects, t \in Totals : meant' = Put(meant, p, t)
    BY <1>2
  <2> QED
    BY <2>1, PutTable
<1>3. CASE UNCHANGED meant \/ \E p \in Projects, t \in Totals \ {"none"} : SaveProject(p, t)
  BY <1>1, <1>2, <1>3 DEF SaveProject
<1> QED
  BY <1>3 DEF Use, DeleteProject

\* Every step keeps those types.
LEMMA RestTypedKept == StepsInOrder /\ RestTyped /\ [StartupNext]_vars => RestTyped'
<1> SUFFICES ASSUME StepsInOrder, RestTyped, [StartupNext]_vars PROVE RestTyped'
  OBVIOUS
<1>0. Len(Additions) \in Nat
  BY AdditionsAssumption
<1>1. CASE Launch
  <2>1. at' = 1 /\ changed' = FALSE /\ before' = target /\ step' = "bootstrap"
    BY <1>1 DEF Launch
  <2>2. at' <= Len(Additions) + 1
    BY <1>0, <2>1
  <2>3. before' \in Files
    BY <2>1 DEF StepsInOrder
  <2> QED
    BY <1>1, <2>1, <2>2, <2>3 DEF Launch, RestTyped
<1>2. CASE Bootstrap
  BY <1>2 DEF Bootstrap, RestTyped
<1>3. CASE ImportBackup
  <2>1. target = Torn \/ target \in Databases
    BY <1>3 DEF ImportBackup, RestTyped, StepsInOrder, Files
  <2> QED
    BY <1>3, <2>1 DEF ImportBackup, Raise, RestTyped
<1>4. CASE CopyTruncates \/ CopyWrites \/ CopyEnds \/ ColumnsDone \/ Seed \/ Backfill \/ Quit
  BY <1>4 DEF CopyTruncates, CopyWrites, CopyEnds, ColumnsDone, Seed, Backfill, Quit, RestTyped
<1>5. CASE Schema
  BY <1>5 DEF Schema, Raise, RestTyped
<1>6. CASE AutoBackup
  <2>1. target \in Databases
    BY <1>6, DatabaseFiles DEF AutoBackup, StepsInOrder
  <2>2. backups' \in Seq(Databases) /\ Len(backups') <= Keep
    BY <1>6, <2>1, PrunedType DEF AutoBackup, RestTyped
  <2> QED
    BY <1>6, <2>2 DEF AutoBackup, RestTyped
<1>7. CASE AddColumn
  <2>1. at + 1 <= Len(Additions) + 1 /\ changed' \in BOOLEAN
    <3>1. at + 1 <= Len(Additions) + 1
      BY <1>0, <1>7 DEF AddColumn, StepsInOrder
    <3>2. changed' \in BOOLEAN
      BY <1>7 DEF AddColumn, RestTyped
    <3> QED
      BY <3>1, <3>2
  <2> QED
    BY <1>7, <2>1 DEF AddColumn, RestTyped
<1>8. CASE Crash
  <2>1. crashes' \in 0 .. MaxCrashes
    BY <1>8, KeepAssumption DEF Crash, RestTyped
  <2> QED
    BY <1>8, <2>1 DEF Crash, RestTyped
<1>9. CASE Use
  BY <1>9, MeantType DEF Use, RestTyped
<1>10. CASE UNCHANGED vars
  BY <1>10 DEF vars, RestTyped
<1> QED
  BY <1>1, <1>2, <1>3, <1>4, <1>5, <1>6, <1>7, <1>8, <1>9, <1>10 DEF StartupNext, StartStep

\* What the program finds is of its types.
LEMMA RestTypedInit == StartupInit => RestTyped
<1> SUFFICES ASSUME StartupInit PROVE RestTyped
  OBVIOUS
<1>1. target \in Files /\ legacy \in Files
  BY FilesAssumption DEF StartupInit, Files
<1>2. IsTable(meant, Projects, Totals)
  BY <1>1, TotalsOfType, UpsertTable DEF StartupInit
<1>3. backups = << >> /\ backups \in Seq(Databases) /\ Len(backups) = 0
  BY DEF StartupInit
<1>4. Len(Additions) \in Nat /\ Keep \in Nat /\ MaxCrashes \in Nat
  BY AdditionsAssumption, KeepAssumption
<1>5. /\ saved = {} /\ at = 1 /\ changed = FALSE /\ crashes = 0 /\ before = target
      /\ step = "off"
  BY DEF StartupInit
<1>6. at <= Len(Additions) + 1 /\ crashes \in 0 .. MaxCrashes /\ Len(backups) <= Keep
  BY <1>3, <1>4, <1>5
<1> QED
  BY <1>1, <1>2, <1>3, <1>5, <1>6 DEF RestTyped

\* In every reachable state.
LEMMA RestTypedHolds == StartupSpec => []RestTyped
BY RestTypedInit, RestTypedKept, OrderHolds, PTL DEF StartupSpec

(***************************************************************************)
(* create_app: wherever starts are cut short and whatever files they find, *)
(* no more automatic backups are kept than the settings say, and all of    *)
(* them and of the copies before an import are whole databases.            *)
(***************************************************************************)
THEOREM StartupTyped == StartupSpec => []StartupTypeOK
<1>1. StepsInOrder /\ RestTyped => StartupTypeOK
  BY TotalsTable, AdditionsAssumption DEF StepsInOrder, RestTyped, StartupTypeOK
<1> QED
  BY <1>1, OrderHolds, RestTypedHolds, PTL
-----------------------------------------------------------------------------
\* A backup from which what this start does to the database can be undone: it has the same
\* projects, each with its total or from before there were any, and none of the new columns.
Undoes(b) ==
    /\ b.columns \subseteq target.columns
    /\ DOMAIN b.total = DOMAIN target.total
    /\ \A p \in DOMAIN target.total : b.total[p] \in {"none", target.total[p]}

\* Once the automatic backup is made, the newest is such a one.
BackedUp == step \in {"migrate", "backfill"} /\ target.auto => backups # << >> /\ Undoes(backups[1])

\* Adding a column leaves the backup of this start good: totals are given to projects that
\* had none.
LEMMA BackedUpKept ==
    ASSUME StepsInOrder, RestTyped, Fits, BackedUp, [StartupNext]_vars
    PROVE  BackedUp'
<1> SUFFICES ASSUME step' \in {"migrate", "backfill"}, target'.auto
             PROVE  backups' # << >> /\ Undoes(backups[1])'
  BY DEF BackedUp
<1>1. CASE AutoBackup
  <2>1. target \in Databases /\ target' = target /\ target.auto
    BY <1>1, DatabaseFiles DEF AutoBackup, StepsInOrder
  <2>2. backups' = Pruned(<<target>> \o backups)
    BY <1>1, <2>1 DEF AutoBackup
  <2>3. backups' # << >> /\ backups'[1] = target
    BY <2>1, <2>2, PrunedType DEF RestTyped
  <2> QED
    BY <2>1, <2>3 DEF Undoes
<1>2. CASE AddColumn
  <2>1. target \in Databases /\ step = "migrate" /\ backups' = backups
    BY <1>2, DatabaseFiles DEF AddColumn, StepsInOrder
  <2>2. CASE target' = target
    BY <2>1, <2>2 DEF BackedUp, Undoes
  <2>3. CASE target' # target
    <3> DEFINE c == Additions[at]
               t == IF c = "customer_total"
                      THEN [p \in DOMAIN target.total |-> "zero"] ELSE target.total
    <3>1. c \notin target.columns
          /\ target' = [target EXCEPT !.columns = target.columns \cup {c}, !.total = t]
      BY <1>2, <2>3 DEF AddColumn, WithColumn
    <3>2. /\ target'.columns = target.columns \cup {c} /\ target'.total = t
          /\ target'.auto = target.auto
      BY <2>1, <3>1 DEF Databases
    <3>3. backups # << >> /\ Undoes(backups[1])
      BY <2>1, <3>2 DEF BackedUp
    <3>4. CASE c = "customer_total"
      <4>1. \A p \in DOMAIN target.total : target.total[p] = "none"
        BY <2>1, <3>1, <3>4, DatabaseFiles DEF Fits, TotalsFitColumns, Files
      <4> QED
        BY <2>1, <3>2, <3>3, <3>4, <4>1 DEF Undoes
    <3>5. CASE c # "customer_total"
      BY <2>1, <3>2, <3>3, <3>5 DEF Undoes
    <3> QED
      BY <3>4, <3>5
  <2> QED
    BY <2>2, <2>3
<1>3. CASE ColumnsDone \/ UNCHANGED vars
  <2>1. step \in {"migrate", "backfill"} /\ target' = target /\ backups' = backups
    BY <1>3 DEF ColumnsDone, vars
  <2> QED
    BY <2>1 DEF BackedUp, Undoes
<1> QED
  BY <1>1, <1>2, <1>3 DEF StartupNext, StartStep, Launch, Bootstrap, ImportBackup, Raise,
     CopyTruncates, CopyWrites, CopyEnds, Schema, Seed, Backfill, Crash, Quit, Use

(***************************************************************************)
(* auto_backup before migrate: with the automatic backup on, every change  *)
(* that migrate makes to the database can be undone from the newest        *)
(* backup, whatever crashes and prunings went before.                      *)
(***************************************************************************)
THEOREM ChangesAreBackedUp == StartupSpec => BackupBeforeChange
<1>1. StartupInit => BackedUp
  BY DEF StartupInit, BackedUp
<1>2. ASSUME StepsInOrder, RestTyped, BackedUp, [StartupNext]_vars,
             step \in {"migrate", "backfill"}, target.auto, target' # target
      PROVE  \E i \in DOMAIN backups :
                /\ target'.columns \cap backups[i].columns \subseteq target.columns
                /\ DOMAIN backups[i].total = DOMAIN target.total
                /\ \A p \in DOMAIN target.total :
                      backups[i].total[p] \in {"none", target.total[p]}
  <2>1. backups # << >> /\ Undoes(backups[1])
    BY <1>2 DEF BackedUp
  <2>2. 1 \in DOMAIN backups
    BY <2>1 DEF RestTyped
  <2> QED
    BY <2>1, <2>2 DEF Undoes
<1>3. StepsInOrder /\ RestTyped /\ BackedUp /\ [StartupNext]_vars =>
        [(step \in {"migrate", "backfill"} /\ target.auto) =>
            \E i \in DOMAIN backups :
               /\ target'.columns \cap backups[i].columns \subseteq target.columns
               /\ DOMAIN backups[i].total = DOMAIN target.total
               /\ \A p \in DOMAIN target.total :
                     backups[i].total[p] \in {"none", target.total[p]}]_target
  BY <1>2
<1> QED
  BY <1>1, <1>3, BackedUpKept, FitsHolds, OrderHolds, RestTypedHolds, PTL
     DEF StartupSpec, BackupBeforeChange
-----------------------------------------------------------------------------
\* How far a project without a typed total can be, while no start was cut short.
FilledUpTo(p) ==
    \/ TotalsOf(target)[p] \in {"none", "labor"}
    \/ TotalsOf(target)[p] = "zero" /\ changed /\ step \in {"migrate", "backfill"}

\* No total was ever typed for the old projects of either file.
OldProjects ==
    /\ DOMAIN TotalsOf(target) \cup DOMAIN TotalsOf(legacy) \subseteq DOMAIN meant
    /\ \A p \in DOMAIN TotalsOf(legacy) : meant[p] = "none" => TotalsOf(legacy)[p] = "none"
    /\ crashes = 0 => \A p \in DOMAIN TotalsOf(target) : meant[p] = "none" => FilledUpTo(p)

\* The program only reads the legacy file.
LEMMA LegacyStays == [StartupNext]_vars => legacy' = legacy
BY DEF StartupNext, StartStep, Launch, Bootstrap, ImportBackup, Raise, CopyTruncates, CopyWrites,
   CopyEnds, Schema, Seed, AutoBackup, AddColumn, ColumnsDone, Backfill, Crash, Quit, Use, vars

\* A project whose total was never typed gets no other one than a start gives it.
LEMMA OldProjectsKept ==
    ASSUME StepsInOrder, StepsInOrder', RestTyped, Fits, OldProjects, [StartupNext]_vars
    PROVE  OldProjects'
<1> DEFINE now == TotalsOf(target)
           next == TotalsOf(target')
<1>0. legacy' = legacy /\ IsTable(now, Projects, Totals)
  BY LegacyStays, TotalsOfType DEF StepsInOrder
<1>1. ASSUME next = now, UNCHANGED meant, crashes' = 0 => crashes = 0,
             crashes' = 0 /\ changed /\ step \in {"migrate", "backfill"} =>
                changed' /\ step' \in {"migrate", "backfill"}
      PROVE  OldProjects'
  BY <1>0, <1>1 DEF OldProjects, FilledUpTo
<1>2. CASE Launch \/ Bootstrap \/ ImportBackup \/ AutoBackup
  BY <1>1, <1>2 DEF Launch, Bootstrap, ImportBackup, AutoBackup, Raise
<1>3. CASE Quit \/ ColumnsDone \/ UNCHANGED vars
  BY <1>1, <1>3 DEF Quit, ColumnsDone, vars
<1>4. CASE Crash
  <2>1. crashes' # 0
    BY <1>4 DEF Crash, RestTyped
  <2> QED
    BY <1>1, <1>4, <2>1 DEF Crash
<1>5. CASE Schema
  <2>1. next = now
    BY <1>5, SchemaTotals DEF Fits
  <2> QED
    BY <1>1, <1>5, <2>1 DEF Schema, Raise
<1>6. CASE Seed
  BY <1>1, <1>6, SeedTotals DEF Seed
<1>7. CASE CopyTruncates \/ CopyWrites
  <2>1. DOMAIN next = {}
    BY <1>7 DEF CopyTruncates, CopyWrites, TotalsOf, EmptyDatabase, EmptyTable, IsDatabase
  <2> QED
    BY <1>0, <1>7, <2>1 DEF OldProjects, CopyTruncates, CopyWrites
<1>8. CASE CopyEnds
  <2>1. next = TotalsOf(legacy)
    BY <1>8 DEF CopyEnds
  <2> QED
    BY <1>0, <1>8, <2>1 DEF OldProjects, FilledUpTo, CopyEnds
<1>9. CASE AddColumn
  <2>1. CASE next = now
    BY <1>1, <1>9, <2>1 DEF AddColumn
  <2>2. CASE next # now
    <3>1. next = [p \in DOMAIN now |-> "zero"]
      BY <1>9, <2>2, AddColumnTotals DEF Fits
    <3>2. changed' = TRUE /\ step = "migrate" /\ UNCHANGED <<step, meant, crashes>>
      BY <1>9, <2>2 DEF AddColumn
    <3> QED
      BY <1>0, <3>1, <3>2 DEF OldProjects, FilledUpTo
  <2> QED
    BY <2>1, <2>2
<1>10. CASE Backfill
  <2>1. step = "backfill" /\ step' = "running" /\ UNCHANGED <<meant, crashes>>
    BY <1>10 DEF Backfill
  <2>2. IF changed THEN next = Filled(now) ELSE next = now
    <3>1. target \in Databases /\ IsDatabase(target) /\ IsDatabase(target')
      BY <1>10, DatabaseFiles DEF Backfill, StepsInOrder
    <3>2. IF changed THEN target'.total = Filled(target.total) ELSE target' = target
      BY <1>10, <3>1 DEF Backfill, Databases
    <3> QED
      BY <3>1, <3>2 DEF TotalsOf
  <2>3. DOMAIN next = DOMAIN now
    BY <2>2 DEF Filled
  <2>4. ASSUME NEW p \in DOMAIN now, FilledUpTo(p) PROVE next[p] \in {"none", "labor"}
    BY <2>2, <2>4 DEF FilledUpTo, Filled
  <2> QED
    BY <1>0, <2>1, <2>3, <2>4 DEF OldProjects, FilledUpTo
<1>11. CASE Use
  <2>1. target \in Databases /\ IsDatabase(target) /\ IsDatabase(target') /\ step = "running"
    BY <1>11, DatabaseFiles DEF Use, StepsInOrder
  <2>2. CASE \E p \in Projects, t \in Totals \ {"none"} : SaveProject(p, t)
    <3>1. PICK p \in Projects, t \in Totals \ {"none"} : SaveProject(p, t)
      BY <2>2
    <3>2. target'.total = Put(target.total, p, t) /\ meant' = Put(meant, p, t)
      BY <2>1, <3>1 DEF SaveProject, Databases
    <3>3. next = Put(now, p, t)
      BY <2>1, <3>2 DEF TotalsOf
    <3>4. /\ DOMAIN next = DOMAIN now \cup {p} /\ DOMAIN meant' = DOMAIN meant \cup {p}
          /\ meant'[p] = t
          /\ \A q \in DOMAIN now \ {p} : next[q] = now[q]
          /\ \A q \in DOMAIN meant \ {p} : meant'[q] = meant[q]
      BY <3>2, <3>3 DEF Put, Upsert
    <3>5. crashes' = crashes /\ step' = "running"
      BY <1>11, <2>1 DEF Use
    <3>6. ASSUME NEW q \in DOMAIN next, meant'[q] = "none", crashes = 0
          PROVE  next[q] \in {"none", "labor"}
      BY <2>1, <3>4, <3>6 DEF OldProjects, FilledUpTo
    <3> QED
      BY <1>0, <3>4, <3>5, <3>6 DEF OldProjects, FilledUpTo
  <2>3. CASE \E p \in Projects : DeleteProject(p)
    <3>1. PICK p \in Projects : DeleteProject(p)
      BY <2>3
    <3>2. target'.total = Without(target.total, {p})
      BY <2>1, <3>1 DEF DeleteProject, Databases
    <3>3. next = Without(now, {p})
      BY <2>1, <3>2 DEF TotalsOf
    <3>4. DOMAIN next \subseteq DOMAIN now /\ \A q \in DOMAIN next : next[q] = now[q]
      BY <3>3 DEF Without, Restrict
    <3>5. crashes' = crashes /\ step' = "running" /\ meant' = meant
      BY <1>11, <2>1, <3>1 DEF Use, DeleteProject
    <3> QED
      BY <1>0, <2>1, <3>4, <3>5 DEF OldProjects, FilledUpTo
  <2>4. CASE target' = [target EXCEPT !.auto = ~@] /\ UNCHANGED meant
    <3>1. target'.total = target.total
      BY <2>1, <2>4 DEF Databases
    <3>2. next = now
      BY <2>1, <3>1 DEF TotalsOf
    <3> QED
      BY <1>1, <1>11, <2>4, <3>2 DEF Use
  <2> QED
    BY <1>11, <2>2, <2>3, <2>4 DEF Use
<1> QED
  BY <1>2, <1>3, <1>4, <1>5, <1>6, <1>7, <1>8, <1>9, <1>10, <1>11 DEF StartupNext, StartStep

(***************************************************************************)
(* migrate: if no start was ever cut short, a program that runs has given  *)
(* every project that never had a customer total its labor amount.         *)
(***************************************************************************)
THEOREM OldProjectsFilled == StartupSpec => []UnfilledOnlyAfterCrash
<1>1. StartupInit => OldProjects
  <2> SUFFICES ASSUME StartupInit PROVE OldProjects
    OBVIOUS
  <2>1. target \in Files /\ legacy \in Files
    BY FilesAssumption DEF StartupInit, Files
  <2>2. /\ meant = Upsert(TotalsOf(legacy), TotalsOf(target))
        /\ DOMAIN TotalsOf(target) \cap DOMAIN TotalsOf(legacy) = {}
    BY DEF StartupInit
  <2>3. /\ DOMAIN meant = DOMAIN TotalsOf(target) \cup DOMAIN TotalsOf(legacy)
        /\ \A p \in DOMAIN TotalsOf(target) : meant[p] = TotalsOf(target)[p]
        /\ \A p \in DOMAIN TotalsOf(legacy) : meant[p] = TotalsOf(legacy)[p]
    BY <2>2 DEF Upsert
  <2> QED
    BY <2>3 DEF OldProjects, FilledUpTo
<1>2. StartupSpec => []OldProjects
  BY <1>1, OldProjectsKept, FitsHolds, OrderHolds, RestTypedHolds, PTL DEF StartupSpec
<1>3. ASSUME StepsInOrder, Fits, OldProjects PROVE UnfilledOnlyAfterCrash
  <2> SUFFICES ASSUME step = "running", crashes = 0, NEW p \in DOMAIN target.total,
                      meant[p] = "none"
               PROVE  target.total[p] = "labor"
    BY DEF UnfilledOnlyAfterCrash
  <2>1. IsDatabase(target) /\ target.columns = Columns /\ TotalsOf(target) = target.total
    BY <1>3 DEF StepsInOrder, TotalsOf
  <2>2. target.total[p] # "none"
    BY <1>3, <2>1, AdditionsAssumption DEF Fits, TotalsFitColumns
  <2> QED
    BY <1>3, <2>1, <2>2 DEF OldProjects, FilledUpTo
<1> QED
  BY <1>2, <1>3, FitsHolds, OrderHolds, PTL
-----------------------------------------------------------------------------
\* The script makes no more tables than it names, and one that it makes is one less to make.
LEMMA TablesCounted ==
    ASSUME NEW T \in SUBSET SchemaTables
    PROVE  /\ Cardinality(SchemaTables \ T) \in 0 .. Len(SchemaList)
           /\ \A t \in SchemaTables \ T :
                 Cardinality(SchemaTables \ (T \cup {t})) = Cardinality(SchemaTables \ T) - 1
<1>1. SchemaTables = {"users", "projects", "expenses"} /\ Len(SchemaList) = 3
  BY DEF SchemaTables, SchemaList, ToSet
<1>2. IsFiniteSet({"users"}) /\ Cardinality({"users"}) = 1
  BY FS_Singleton
<1>3. IsFiniteSet({"users"} \cup {"projects"}) /\ Cardinality({"users"} \cup {"projects"}) = 2
  BY <1>2, FS_AddElement
<1>4. /\ IsFiniteSet(({"users"} \cup {"projects"}) \cup {"expenses"})
      /\ Cardinality(({"users"} \cup {"projects"}) \cup {"expenses"}) = 3
  BY <1>3, FS_AddElement
<1>5. SchemaTables = ({"users"} \cup {"projects"}) \cup {"expenses"}
  BY <1>1
<1>6. IsFiniteSet(SchemaTables) /\ Cardinality(SchemaTables) = 3
  BY <1>4, <1>5
<1> DEFINE S == SchemaTables \ T
<1>7. IsFiniteSet(S) /\ Cardinality(S) <= 3 /\ Cardinality(S) \in Nat
  BY <1>6, FS_Subset, FS_CardinalityType
<1>8. ASSUME NEW t \in S PROVE Cardinality(S \ {t}) = Cardinality(S) - 1
  BY <1>7, FS_RemoveElement
<1>9. \A t : SchemaTables \ (T \cup {t}) = S \ {t}
  OBVIOUS
<1> QED
  BY <1>1, <1>7, <1>8, <1>9

\* In a file that SQLite opens there are not more tables to make than the script names.
LEMMA TablesLeftType == target \in Files => TablesLeft \in 0 .. Len(SchemaList)
<1> SUFFICES ASSUME target \in Files PROVE TablesLeft \in 0 .. Len(SchemaList)
  OBVIOUS
<1>1. CASE target = Torn
  BY <1>1 DEF TablesLeft, SchemaList
<1>2. CASE target # Torn
  <2>1. Opened.tables \in SUBSET SchemaTables
    BY <1>2, OpenedType DEF Databases
  <2> QED
    BY <1>2, <2>1, TablesCounted DEF TablesLeft
<1> QED
  BY <1>1, <1>2

\* How many steps each point of a start is from its end.
LEMMA StepsLeftAt ==
    LET columns == Len(Additions)
        copied  == Len(Additions) + 9
    IN  /\ step \in {"off", "running"} => StepsLeft = 0
        /\ step = "backfill" => StepsLeft = 1
        /\ step = "migrate" => StepsLeft = columns + 3 - at
        /\ step = "auto_backup" => StepsLeft = columns + 3
        /\ step = "seed" => StepsLeft = columns + 4
        /\ step = "schema" => StepsLeft = columns + 5 + TablesLeft
        /\ step = "copying" => StepsLeft = IF target = Torn THEN copied ELSE copied + 1
        /\ step = "copy" => StepsLeft = copied + 2
        /\ step = "import_backup" => StepsLeft = copied + 3
        /\ step = "bootstrap" => StepsLeft = copied + 4
<1>1. Len(SchemaList) = 3 /\ Len(Additions) \in Nat
  BY AdditionsAssumption DEF SchemaList
<1> QED
  BY <1>1 DEF StepsLeft

(***************************************************************************)
(* create_app: every step of a start, from any file and after any crash,   *)
(* leaves fewer steps to take, and a start gives up only on half a file.   *)
(* So a start that is not cut short ends after at most StepsLeft steps.    *)
(***************************************************************************)
THEOREM StartComesToItsEnd == StartupSpec => StartAdvances
<1>1. ASSUME StepsInOrder, StepsInOrder', RestTyped, StartStep
      PROVE  StepsLeft' < StepsLeft /\ (step' = "off" => target = Torn)
  <2>1. /\ Len(SchemaList) = 3 /\ Len(Additions) \in Nat /\ Len(Additions)' = Len(Additions)
        /\ Len(SchemaList)' = 3 /\ at \in Nat /\ at <= Len(Additions) + 1
    BY <1>1, AdditionsAssumption DEF SchemaList, StepsInOrder, RestTyped
  <2>2. TablesLeft \in 0 .. 3 /\ TablesLeft' \in 0 .. 3
    <3>1. (target \in Files => TablesLeft \in 0 .. Len(SchemaList))'
      BY TablesLeftType, PTL
    <3> QED
      BY <1>1, <2>1, <3>1, TablesLeftType DEF StepsInOrder
  <2>3. /\ step' \in {"off", "running"} => StepsLeft' = 0
        /\ step' = "backfill" => StepsLeft' = 1
        /\ step' = "migrate" => StepsLeft' = Len(Additions) + 3 - at'
        /\ step' = "auto_backup" => StepsLeft' = Len(Additions) + 3
        /\ step' = "seed" => StepsLeft' = Len(Additions) + 4
        /\ step' = "schema" => StepsLeft' = Len(Additions) + 5 + TablesLeft'
        /\ step' = "copying" =>
              StepsLeft' = IF target' = Torn THEN Len(Additions) + 9 ELSE Len(Additions) + 10
        /\ step' = "copy" => StepsLeft' = Len(Additions) + 11
        /\ step' = "import_backup" => StepsLeft' = Len(Additions) + 12
    BY <2>1, StepsLeftAt DEF StepsLeft
  <2>4. CASE Bootstrap
    BY <2>1, <2>2, <2>3, <2>4, StepsLeftAt DEF Bootstrap
  <2>5. CASE ImportBackup
    BY <2>1, <2>3, <2>5, StepsLeftAt DEF ImportBackup, Raise
  <2>6. CASE CopyTruncates
    BY <2>1, <2>3, <2>6, StepsLeftAt DEF CopyTruncates
  <2>7. CASE CopyWrites
    BY <2>1, <2>3, <2>7, StepsLeftAt DEF CopyWrites
  <2>8. CASE CopyEnds
    BY <2>1, <2>2, <2>3, <2>8, StepsLeftAt DEF CopyEnds
  <2>9. CASE Schema
    <3>1. CASE target = Torn
      BY <2>1, <2>2, <2>3, <2>9, <3>1, StepsLeftAt DEF Schema, Raise
    <3>2. CASE target # Torn /\ target' = Opened /\ step' = "seed"
      BY <2>1, <2>2, <2>3, <2>9, <3>2, StepsLeftAt DEF Schema
    <3>3. ASSUME NEW i \in DOMAIN SchemaList, SchemaList[i] \notin Opened.tables,
                 target # Torn, UNCHANGED step,
                 target' = [Opened EXCEPT
                    !.tables = @ \cup {SchemaList[i]},
                    !.columns = IF SchemaList[i] = "projects" THEN Columns ELSE @]
          PROVE  StepsLeft' < StepsLeft /\ step' # "off"
      <4>1. Opened \in Databases /\ SchemaList[i] \in SchemaTables \ Opened.tables
        BY <1>1, <3>3, OpenedType DEF StepsInOrder, SchemaTables, ToSet
      <4>2. target'.tables = Opened.tables \cup {SchemaList[i]} /\ target' \in Databases
        <5>1. Opened.tables \in SUBSET SchemaTables /\ Opened.columns \in SUBSET Columns
          BY <4>1 DEF Databases
        <5> QED
          BY <3>3, <4>1, <5>1, DatabaseType DEF Databases
      <4>3. Opened' = target' /\ target' # Torn
        BY <4>2, SentinelAssumption DEF Opened
      <4>4. TablesLeft' = TablesLeft - 1
        <5>1. Opened.tables \in SUBSET SchemaTables
          BY <4>1 DEF Databases
        <5> QED
          BY <3>3, <4>1, <4>2, <4>3, <5>1, TablesCounted DEF TablesLeft, SchemaTables
      <4>5. step = "schema" /\ step' = "schema"
        BY <2>9, <3>3 DEF Schema
      <4> QED
        BY <2>1, <2>2, <2>3, <4>4, <4>5, StepsLeftAt
    <3> QED
      BY <2>9, <3>1, <3>2, <3>3 DEF Schema
  <2>10. CASE Seed
    BY <2>1, <2>3, <2>10, StepsLeftAt DEF Seed
  <2>11. CASE AutoBackup
    BY <1>1, <2>1, <2>3, <2>11, StepsLeftAt DEF AutoBackup, StepsInOrder
  <2>12. CASE AddColumn
    BY <2>1, <2>3, <2>12, StepsLeftAt DEF AddColumn
  <2>13. CASE ColumnsDone
    BY <2>1, <2>3, <2>13, StepsLeftAt DEF ColumnsDone
  <2>14. CASE Backfill
    BY <2>1, <2>3, <2>14, StepsLeftAt DEF Backfill
  <2> QED
    BY <1>1, <2>4, <2>5, <2>6, <2>7, <2>8, <2>9, <2>10, <2>11, <2>12, <2>13, <2>14 DEF StartStep
<1> QED
  BY <1>1, OrderHolds, RestTypedHolds, PTL DEF StartAdvances
=============================================================================
