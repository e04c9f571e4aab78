------------------------------ MODULE Backups -------------------------------
(***************************************************************************)
(* Backups and restores: _backup_file, restore_database, create_backup,    *)
(* prune_backups and auto_backup of payroll/db.py, and the handlers of     *)
(* blueprints/settings.py that call them or change their settings.         *)
(*                                                                         *)
(* The server answers in threads that share one directory of backups and   *)
(* one live file.  Of a database are kept the number of the commit that    *)
(* produced its records, 0 being without any, and its two settings about   *)
(* backups.  A backup is named by its prefix and the second of the local   *)
(* clock, which can be set back.                                           *)
(***************************************************************************)
EXTENDS Tables

CONSTANTS
    Threads,
    Torn,       \* a file that is being written, or was left half written
    Void,       \* a file of no bytes, as sqlite3.connect creates it
    KeepsTyped, \* what may be typed as the number of automatic backups
    MostKept,   \* the largest number that is accepted (500)
    MaxClock, MaxRequests   \* bounds: seconds, and requests

VARIABLES
    clock,      \* the second that datetime.now shows
    live,       \* the database the program works on
    dir,        \* the backups: name -> contents
    boot,       \* how far the process is
    jobs,       \* what each thread is doing
    requests,   \* how many so far
    replaced,   \* the databases that restores wrote over (history)
    crossed,    \* a commit, or a backup of the same name, came in the way of a restore (history)
    misnamed    \* the clock went back, or two starts fell in one second (history)

vars == <<clock, live, dir, boot, jobs, requests, replaced, crossed, misnamed>>

Databases == [data : 0 .. MaxRequests, enabled : BOOLEAN, keep : 1 .. MostKept]
Names     == {"auto_backup", "payroll_backup", "pre_restore"} \X (0 .. MaxClock)

ASSUME BackupsAssumption ==
    /\ KeepsTyped \subseteq Int /\ MostKept \in Nat \ {0}
    /\ MaxClock \in Nat /\ MaxRequests \in Nat
    /\ Torn # Void /\ {Torn, Void} \cap Databases = {}

IsDatabase(file) == file \notin {Torn, Void}
HasData(file)    == IsDatabase(file) /\ file.data > 0

Idle == [at |-> "idle"]

Jobs ==
    {Idle}
    \cup [at : {"backup"}, name : Names]
    \cup [at : {"saving", "saved", "copying"}, name : Names, source : Names, chosen : Databases,
          allow_empty : BOOLEAN, mixed : BOOLEAN]
    \cup [at : {"setting"}, keep : KeepsTyped]

Boots == [at : {"off", "creates", "prunes", "up"}] \cup [at : {"fills"}, name : Names]

Become(t, job) == jobs' = [jobs EXCEPT ![t] = job]
Finish(t)      == Become(t, Idle)
Reached(job, step) == [job EXCEPT !.at = step]
At(t, step)    == boot.at = "up" /\ jobs[t].at = step

\* A request begins by reading its user from the live file.
Begins(t) ==
    /\ At(t, "idle") /\ live # Torn
    /\ requests < MaxRequests /\ requests' = requests + 1

BackupsInit ==
    /\ clock = 0 /\ dir = EmptyTable
    /\ live = [data |-> 0, enabled |-> TRUE, keep |-> MostKept]
    /\ boot = [at |-> "off"]
    /\ jobs = [t \in Threads |-> Idle]
    /\ requests = 0 /\ replaced = {} /\ crossed = FALSE /\ misnamed = FALSE
-----------------------------------------------------------------------------
(***************************************************************************)
(* A start, of which Startup has the rest: the automatic backup and the    *)
(* pruning.  SQLite cannot read a torn file: no start gets that far.       *)
(***************************************************************************)
Start ==
    /\ boot.at = "off" /\ live # Torn
    /\ boot' = [at |-> IF live.enabled THEN "creates" ELSE "up"]
    /\ UNCHANGED <<clock, live, dir, jobs, requests, replaced, crossed, misnamed>>

\* create_backup: a file of this second, if there is one, is taken for the backup.
AutoCreate ==
    /\ boot.at = "creates"
    /\ LET name == <<"auto_backup", clock>> IN
         IF name \in DOMAIN dir
           THEN boot' = [at |-> "prunes"] /\ misnamed' = TRUE /\ UNCHANGED dir
           ELSE /\ boot' = [at |-> "fills", name |-> name]
                /\ dir' = Put(dir, name, Void) /\ UNCHANGED misnamed
    /\ UNCHANGED <<clock, live, jobs, requests, replaced, crossed>>

AutoFill ==
    /\ boot.at = "fills"
    /\ dir' = Put(dir, boot.name, live)
    /\ boot' = [at |-> "prunes"]
    /\ UNCHANGED <<clock, live, jobs, requests, replaced, crossed, misnamed>>

\* What if the oldest were kept.
StaleNewest(prefix) ==
    {n \in DOMAIN dir : n[1] = prefix
        /\ Cardinality({m \in DOMAIN dir : m[1] = prefix /\ m[2] < n[2]}) >= live.keep}

\* What if every backup counted, whatever its prefix.
StaleOfAny(prefix) ==
    {n \in DOMAIN dir : Cardinality({m \in DOMAIN dir : m[2] > n[2]}) >= live.keep}

\* prune_backups: those of the prefix with at least "keep" later names.
Stale(prefix) ==
    {n \in DOMAIN dir : n[1] = prefix
        /\ Cardinality({m \in DOMAIN dir : m[1] = prefix /\ m[2] > n[2]}) >= live.keep}

AutoPrune ==
    /\ boot.at = "prunes"
    /\ dir' = Without(dir, Stale("auto_backup"))
    /\ boot' = [at |-> "up"]
    /\ UNCHANGED <<clock, live, jobs, requests, replaced, crossed, misnamed>>
-----------------------------------------------------------------------------
\* backup_now: create_backup under the prefix of manual backups.
BackupNow(t) ==
    /\ Begins(t)
    /\ LET name == <<"payroll_backup", clock>> IN
         /\ name \notin DOMAIN dir
         /\ dir' = Put(dir, name, Void)
         /\ Become(t, [at |-> "backup", name |-> name])
    /\ UNCHANGED <<clock, live, boot, replaced, crossed, misnamed>>

\* The copy by SQLite's backup API is one transaction; a torn file ends in an error page.
BackupFill(t) ==
    /\ At(t, "backup")
    /\ dir' = IF live = Torn THEN dir ELSE Put(dir, jobs[t].name, live)
    /\ Finish(t)
    /\ UNCHANGED <<clock, live, boot, requests, replaced, crossed, misnamed>>

\* What if an empty database could replace one with data.
MayReplaceAlways(source, allow_empty) == IsDatabase(dir[source])

\* restore_database: a valid database, and no empty one over data unless that is allowed.
MayReplace(source, allow_empty) ==
    IsDatabase(dir[source]) /\ (HasData(dir[source]) \/ ~HasData(live) \/ allow_empty)

\* restore: the checks, then _backup_file names its file and connects to it.
Restore(t) ==
    /\ Begins(t)
    /\ \E source \in DOMAIN dir, allow_empty \in BOOLEAN :
          /\ MayReplace(source, allow_empty)
          /\ LET name == <<"pre_restore", clock>> IN
               /\ Become(t, [at |-> "saving", name |-> name, source |-> source,
                             chosen |-> dir[source], allow_empty |-> allow_empty,
                             mixed |-> FALSE])
               /\ dir' = IF name \in DOMAIN dir THEN dir ELSE Put(dir, name, Void)
    /\ UNCHANGED <<clock, live, boot, replaced, crossed, misnamed>>

\* What if no backup were made before a restore.
RestoreSavesNothing(t) ==
    /\ At(t, "saving")
    /\ Become(t, Reached(jobs[t], "saved"))
    /\ UNCHANGED <<clock, live, dir, boot, requests, replaced, crossed, misnamed>>

\* The backup before the restore replaces whatever has its name.
RestoreSaves(t) ==
    /\ At(t, "saving")
    /\ IF live = Torn
         THEN Finish(t) /\ UNCHANGED <<dir, crossed>>
         ELSE /\ dir' = Put(dir, jobs[t].name, live)
              /\ Become(t, Reached(jobs[t], "saved"))
              /\ crossed' = (crossed \/ dir[jobs[t].name] \notin {Void, live})
    /\ UNCHANGED <<clock, live, boot, requests, replaced, misnamed>>

\* Has a restore among these made its checks and not begun to copy?
Crossing(threads) == \E r \in threads : jobs[r].at \in {"saving", "saved"}

Copying == {t \in Threads : jobs[t].at = "copying"}

\* What these threads copy is mixed up with something else.
MixUp(threads, js) ==
    [t \in Threads |-> IF t \in threads THEN [js[t] EXCEPT !.mixed = TRUE] ELSE js[t]]

\* shutil.copy2 truncates the live file, which another copy may be writing ...
CopyTruncates(t) ==
    /\ At(t, "saved")
    /\ live' = Torn
    /\ replaced' = replaced \cup ({live} \ {Torn})
    /\ jobs' = MixUp(IF Copying = {} THEN {} ELSE Copying \cup {t},
                     [jobs EXCEPT ![t] = Reached(jobs[t], "copying")])
    /\ crossed' = (crossed \/ live = Torn \/ Crossing(Threads \ {t}))
    /\ UNCHANGED <<clock, dir, boot, requests, misnamed>>

\* ... and writes it.
CopyEnds(t) ==
    /\ At(t, "copying")
    /\ \/ Copying = {t} /\ live' = dir[jobs[t].source]
       \/ jobs[t].mixed /\ live' = Torn
    /\ Finish(t)
    /\ UNCHANGED <<clock, dir, boot, requests, replaced, crossed, misnamed>>

\* A request of another kind commits.
Work(t) ==
    /\ Begins(t)
    /\ live' = [live EXCEPT !.data = requests']
    /\ crossed' = (crossed \/ Crossing(Threads))
    /\ UNCHANGED <<clock, dir, boot, jobs, replaced, misnamed>>

\* A request that has the file open commits while it is copied over: that fails, or its
\* pages end up in the copy.
WorkInCopy(t) ==
    /\ At(t, "idle") /\ Copying # {}
    /\ jobs' = MixUp(Copying, jobs)
    /\ crossed' = TRUE
    /\ UNCHANGED <<clock, live, dir, boot, requests, replaced, misnamed>>
-----------------------------------------------------------------------------
\* What if the number could be none.
ClampedToNone(keep) == IF keep < 0 THEN 0 ELSE IF keep > MostKept THEN MostKept ELSE keep

\* max(1, min(keep, 500))
Clamped(keep) == IF keep < 1 THEN 1 ELSE IF keep > MostKept THEN MostKept ELSE keep

\* settings.index, POST: each set_setting commits by itself.
SetEnabled(t) ==
    /\ Begins(t)
    /\ \E enabled \in BOOLEAN, keep \in KeepsTyped :
          /\ live' = [live EXCEPT !.enabled = enabled]
          /\ Become(t, [at |-> "setting", keep |-> keep])
    /\ crossed' = (crossed \/ Crossing(Threads))
    /\ UNCHANGED <<clock, dir, boot, replaced, misnamed>>

SetKeep(t) ==
    /\ At(t, "setting")
    /\ live' = IF live = Torn THEN Torn ELSE [live EXCEPT !.keep = Clamped(jobs[t].keep)]
    /\ Finish(t)
    /\ crossed' = (crossed \/ Crossing(Threads))
    /\ UNCHANGED <<clock, dir, boot, requests, replaced, misnamed>>

\* The process ends, or dies, wherever it is.
Stop ==
    /\ boot.at # "off"
    /\ boot' = [at |-> "off"] /\ jobs' = [t \in Threads |-> Idle]
    /\ UNCHANGED <<clock, live, dir, requests, replaced, crossed, misnamed>>

Tick ==
    /\ clock < MaxClock /\ clock' = clock + 1
    /\ UNCHANGED <<live, dir, boot, jobs, requests, replaced, crossed, misnamed>>

SetBack ==
    /\ clock > 0 /\ clock' = clock - 1 /\ misnamed' = TRUE
    /\ UNCHANGED <<live, dir, boot, jobs, requests, replaced, crossed>>

Boot == Start \/ AutoCreate \/ AutoFill \/ AutoPrune

Request(t) ==
    \/ BackupNow(t) \/ BackupFill(t) \/ Work(t) \/ WorkInCopy(t)
    \/ Restore(t) \/ RestoreSaves(t) \/ CopyTruncates(t) \/ CopyEnds(t)
    \/ SetEnabled(t) \/ SetKeep(t)

BackupsNext == Boot \/ (\E t \in Threads : Request(t)) \/ Stop \/ Tick \/ SetBack

BackupsSpec == BackupsInit /\ [][BackupsNext]_vars
-----------------------------------------------------------------------------
\* The files, the process and its threads are of their types.
BackupsTypeOK ==
    /\ clock \in 0 .. MaxClock /\ requests \in 0 .. MaxRequests
    /\ live \in Databases \cup {Torn}
    /\ IsTable(dir, Names, Databases \cup {Void})
    /\ boot \in Boots /\ jobs \in [Threads -> Jobs]
    /\ replaced \subseteq Databases /\ crossed \in BOOLEAN /\ misnamed \in BOOLEAN

Kept == {dir[n] : n \in DOMAIN dir}

\* README.md:235, db.py:225: whatever a restore replaces is in a backup made before it.
ReplacedIsKept == replaced \subseteq Kept

(***************************************************************************)
(* That, however restores, starts and prunings interleave and wherever the *)
(* process dies, unless a commit or a backup of the same name came in the  *)
(* way of a restore.                                                       *)
(***************************************************************************)
ReplacedIsKeptUnlessCrossed == crossed \/ ReplacedIsKept

\* README.md:191: pruning removes automatic backups only, and at most so many that as many
\* later ones remain as the settings say.
OnlyOldAutoPruned ==
    [][\A n \in DOMAIN dir \ DOMAIN dir' :
          /\ n[1] = "auto_backup"
          /\ Cardinality({m \in DOMAIN dir' : m[1] = "auto_backup" /\ m[2] > n[2]}) = live.keep
      ]_dir

(***************************************************************************)
(* README.md:189: a start with the automatic backup on leaves one of the   *)
(* database as it found it, unless names were repeated or out of order.    *)
(***************************************************************************)
BackedUpOnStart ==
    [][boot.at = "prunes" /\ boot'.at = "up" /\ ~misnamed =>
          \E n \in DOMAIN dir' : n[1] = "auto_backup" /\ dir'[n] = live]_boot

Ends(t) == jobs[t].at = "copying" /\ jobs'[t] = Idle /\ boot'.at = "up"

(***************************************************************************)
(* A restore that nothing crossed leaves the database its user chose, and  *)
(* no empty one over data unless he allowed it (db.py:223).                *)
(***************************************************************************)
RestoresTheChosen ==
    [][\A t \in Threads : Ends(t) /\ ~crossed =>
          /\ live' = jobs[t].chosen
          /\ jobs[t].allow_empty \/ HasData(live') \/ ~HasData(dir[jobs[t].name])
      ]_vars
=============================================================================
