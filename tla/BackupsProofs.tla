--------------------------- MODULE BackupsProofs ----------------------------
(***************************************************************************)
(* What holds of backups, restores and prunings, for any number of threads *)
(* and requests, however they interleave, wherever the process dies and    *)
(* whatever is typed as the number to keep.                                *)
(*                                                                         *)
(* The three history variables say what must not have happened; the        *)
(* invariant says what a restore and a start may rely on until it does:    *)
(* that the file under the name they keep is still the one they wrote.     *)
(***************************************************************************)
EXTENDS Backups, DataTheorems

\* A thread in the middle of a restore.
Restoring(t) == jobs[t].at \in {"saving", "saved", "copying"}

Autos == {n \in DOMAIN dir : n[1] = "auto_backup"}

\* The start has the file to itself, and a copy in progress leaves no readable one.
Ordered ==
    /\ BackupsTypeOK
    /\ boot.at # "up" => \A t \in Threads : jobs[t] = Idle
    /\ boot.at \in {"creates", "fills", "prunes"} => live # Torn
    /\ (\E t \in Threads : jobs[t].at = "copying") => live = Torn

\* A manual backup in progress is an empty file under its name.
BackupNamed(t) ==
    jobs[t].at = "backup" =>
        /\ jobs[t].name[1] = "payroll_backup" /\ jobs[t].name \in DOMAIN dir
        /\ dir[jobs[t].name] = Void

\* The file that a restore keeps and the one it restores are there.
RestoreNamed(t) ==
    Restoring(t) =>
        /\ jobs[t].name[1] = "pre_restore" /\ jobs[t].name \in DOMAIN dir
        /\ jobs[t].source \in DOMAIN dir /\ dir[jobs[t].source] \in Databases

\* The automatic backup in progress is an empty file under its name.
StartNamed ==
    boot.at = "fills" =>
        boot.name[1] = "auto_backup" /\ boot.name \in DOMAIN dir /\ dir[boot.name] = Void

\* Every file in use is there under a name of its kind; no two threads fill the same.
Named ==
    /\ \A t \in Threads : BackupNamed(t) /\ RestoreNamed(t)
    /\ \A t, u \in Threads : jobs[t].at = "backup" /\ jobs[u].at = "backup" /\ t # u
          => jobs[t].name # jobs[u].name
    /\ StartNamed

\* The restore of t may replace this file: no empty database over data unless allowed.
Allowed(t, file) == jobs[t].allow_empty \/ HasData(jobs[t].chosen) \/ ~HasData(file)

\* What a restore relies on at each step, while nothing has come in its way.
RestoreRelies(t) ==
    /\ Restoring(t) => ~jobs[t].mixed /\ dir[jobs[t].source] = jobs[t].chosen
    /\ jobs[t].at = "saving" => live # Torn /\ Allowed(t, live)
    /\ jobs[t].at = "saved" => dir[jobs[t].name] = live /\ Allowed(t, live)
    /\ jobs[t].at = "copying" => Allowed(t, dir[jobs[t].name])

\* What was replaced is in one of the backups that restores make: no pruning takes those.
KeptByRestores == replaced \subseteq {dir[n] : n \in {m \in DOMAIN dir : m[1] = "pre_restore"}}

Uncrossed == ~crossed => KeptByRestores /\ \A t \in Threads : RestoreRelies(t)

\* While the clock only goes forward, the backup of a start is the latest automatic one.
InTime ==
    ~misnamed =>
        /\ \A n \in DOMAIN dir : n[2] <= clock
        /\ boot.at = "fills" => \A n \in Autos : n[2] <= boot.name[2]
        /\ boot.at = "prunes" =>
              \E n \in Autos : dir[n] = live /\ \A m \in Autos : m[2] <= n[2]

BackupsInv == Ordered /\ Named /\ Uncrossed /\ InTime
-----------------------------------------------------------------------------
RestoreJobs ==
    [at : {"saving", "saved", "copying"}, name : Names, source : Names, chosen : Databases,
     allow_empty : BOOLEAN, mixed : BOOLEAN]

\* What a thread keeps, by what it is at.
LEMMA JobFields ==
    ASSUME NEW j \in Jobs
    PROVE  /\ j.at \in {"idle", "backup", "saving", "saved", "copying", "setting"}
           /\ j.at = "idle" => j = Idle
           /\ j.at = "backup" => j.name \in Names
           /\ j.at \in {"saving", "saved", "copying"} => j \in RestoreJobs
           /\ j.at = "setting" => j.keep \in KeepsTyped
BY DEF Jobs, Idle, RestoreJobs

\* A restore that gets a step further changes nothing but that.
LEMMA ReachedJob ==
    ASSUME NEW j \in RestoreJobs, NEW step \in {"saved", "copying"}
    PROVE  /\ Reached(j, step) \in RestoreJobs /\ Reached(j, step) \in Jobs
           /\ Reached(j, step).at = step
           /\ Reached(j, step).name = j.name /\ Reached(j, step).source = j.source
           /\ Reached(j, step).chosen = j.chosen /\ Reached(j, step).mixed = j.mixed
           /\ Reached(j, step).allow_empty = j.allow_empty
           /\ j.name \in Names /\ j.source \in Names /\ j.chosen \in Databases
BY DEF Jobs, RestoreJobs, Reached

\* Restores that are mixed up with something else change nothing but that.
LEMMA MixedUpJobs ==
    ASSUME NEW js \in [Threads -> Jobs], NEW T, \A t \in T \cap Threads : js[t] \in RestoreJobs
    PROVE  /\ MixUp(T, js) \in [Threads -> Jobs]
           /\ \A t \in Threads \ T : MixUp(T, js)[t] = js[t]
           /\ \A t \in Threads :
                 /\ MixUp(T, js)[t].at = js[t].at
                 /\ MixUp(T, js)[t].at \in {"saving", "saved", "copying"} =>
                       /\ MixUp(T, js)[t].name = js[t].name
                       /\ MixUp(T, js)[t].source = js[t].source
                       /\ MixUp(T, js)[t].chosen = js[t].chosen
                       /\ MixUp(T, js)[t].allow_empty = js[t].allow_empty
<1> DEFINE M(j) == [j EXCEPT !.mixed = TRUE]
<1>1. ASSUME NEW j \in RestoreJobs
      PROVE  /\ M(j) \in Jobs /\ M(j).at = j.at /\ M(j).name = j.name /\ M(j).source = j.source
             /\ M(j).chosen = j.chosen /\ M(j).allow_empty = j.allow_empty
  BY DEF Jobs, RestoreJobs
<1>2. MixUp(T, js) = [t \in Threads |-> IF t \in T THEN M(js[t]) ELSE js[t]]
  BY DEF MixUp
<1> HIDE DEF M
<1>3. \A t \in Threads : MixUp(T, js)[t] = IF t \in T THEN M(js[t]) ELSE js[t]
  BY <1>2
<1>4. \A t \in Threads : MixUp(T, js)[t] \in Jobs
  BY <1>1, <1>3
<1>5. MixUp(T, js) \in [Threads -> Jobs]
  BY <1>2, <1>4
<1> QED
  BY <1>1, <1>3, <1>5

\* The restore of a thread goes on: its file, its source and what was allowed stay.
GoesOn(t) ==
    /\ jobs[t] \in RestoreJobs /\ jobs'[t] \in RestoreJobs
    /\ jobs'[t].name = jobs[t].name /\ jobs'[t].source = jobs[t].source
    /\ jobs'[t].chosen = jobs[t].chosen /\ jobs'[t].allow_empty = jobs[t].allow_empty

\* A restore whose copy is made, whose own or another's copying begins, or that is written
\* into, goes on; the other threads are left alone.
LEMMA RestoreSteps ==
    ASSUME BackupsTypeOK, NEW t \in Threads,
           (RestoreSaves(t) /\ live # Torn) \/ CopyTruncates(t) \/ WorkInCopy(t)
    PROVE  /\ jobs' \in [Threads -> Jobs]
           /\ \A r \in Threads : jobs'[r] = jobs[r] \/ GoesOn(r)
           /\ \A r \in Threads \ {t} : jobs'[r].at = jobs[r].at
           /\ RestoreSaves(t) =>
                 /\ GoesOn(t) /\ jobs'[t].at = "saved" /\ jobs'[t].mixed = jobs[t].mixed
                 /\ \A r \in Threads \ {t} : jobs'[r] = jobs[r]
           /\ CopyTruncates(t) =>
                 /\ GoesOn(t) /\ jobs'[t].at = "copying"
                 /\ Copying = {} =>
                       /\ jobs'[t].mixed = jobs[t].mixed
                       /\ \A r \in Threads \ {t} : jobs'[r] = jobs[r]
           /\ WorkInCopy(t) => jobs'[t].at = jobs[t].at
<1> USE DEF BackupsTypeOK
<1>1. ASSUME RestoreSaves(t), live # Torn
      PROVE  /\ jobs' \in [Threads -> Jobs]
             /\ GoesOn(t) /\ jobs'[t].at = "saved" /\ jobs'[t].mixed = jobs[t].mixed
             /\ \A r \in Threads \ {t} : jobs'[r] = jobs[r]
             /\ jobs[t].at = "saving"
  <2>1. jobs[t].at = "saving" /\ jobs' = [jobs EXCEPT ![t] = Reached(jobs[t], "saved")]
    BY <1>1 DEF RestoreSaves, At, Become
  <2>2. jobs[t] \in RestoreJobs
    BY <2>1, JobFields
  <2> QED
    BY <2>1, <2>2, ReachedJob DEF GoesOn
<1>2. \A r \in Threads : r \in Copying => jobs[r] \in RestoreJobs
  BY JobFields DEF Copying
<1>3. ASSUME CopyTruncates(t)
      PROVE  /\ jobs' \in [Threads -> Jobs]
             /\ \A r \in Threads : jobs'[r] = jobs[r] \/ GoesOn(r)
             /\ \A r \in Threads \ {t} : jobs'[r].at = jobs[r].at
             /\ GoesOn(t) /\ jobs'[t].at = "copying" /\ jobs[t].at = "saved"
             /\ Copying = {} =>
                   /\ jobs'[t].mixed = jobs[t].mixed
                   /\ \A r \in Threads \ {t} : jobs'[r] = jobs[r]
  <2> DEFINE js == [jobs EXCEPT ![t] = Reached(jobs[t], "copying")]
             T == IF Copying = {} THEN {} ELSE Copying \cup {t}
  <2>1. jobs[t].at = "saved" /\ jobs' = MixUp(T, js)
    BY <1>3 DEF CopyTruncates, At
  <2>2. jobs[t] \in RestoreJobs
    BY <2>1, JobFields
  <2>3. /\ js \in [Threads -> Jobs] /\ js[t] = Reached(jobs[t], "copying")
        /\ \A r \in Threads \ {t} : js[r] = jobs[r]
    BY <2>2, ReachedJob
  <2>4. T \subseteq Copying \cup {t} /\ (Copying = {} => T = {})
    OBVIOUS
  <2> HIDE DEF js, T
  <2>5. \A r \in T \cap Threads : js[r] \in RestoreJobs
    BY <1>2, <2>2, <2>3, <2>4, ReachedJob
  <2>6. /\ jobs' \in [Threads -> Jobs]
        /\ \A r \in Threads \ T : jobs'[r] = js[r]
        /\ \A r \in Threads :
              /\ jobs'[r].at = js[r].at
              /\ jobs'[r].at \in {"saving", "saved", "copying"} =>
                    /\ jobs'[r].name = js[r].name /\ jobs'[r].source = js[r].source
                    /\ jobs'[r].chosen = js[r].chosen
                    /\ jobs'[r].allow_empty = js[r].allow_empty
    BY <2>1, <2>3, <2>5, MixedUpJobs
  <2>7. GoesOn(t) /\ jobs'[t].at = "copying"
    <3>1. jobs'[t].at = "copying"
      BY <2>2, <2>3, <2>6, ReachedJob
    <3>2. jobs'[t] \in RestoreJobs
      BY <2>6, <3>1, JobFields
    <3> QED
      BY <2>2, <2>3, <2>6, <3>1, <3>2, ReachedJob DEF GoesOn
  <2>8. ASSUME NEW r \in Threads \ {t} PROVE jobs'[r] = jobs[r] \/ GoesOn(r)
    <3>1. CASE r \in T
      <4>1. jobs[r].at = "copying" /\ jobs[r] \in RestoreJobs
        BY <1>2, <2>4, <3>1 DEF Copying
      <4>2. jobs'[r].at = "copying"
        BY <2>3, <2>6, <4>1
      <4>3. jobs'[r] \in RestoreJobs
        BY <2>6, <4>2, JobFields
      <4> QED
        BY <2>3, <2>6, <4>1, <4>2, <4>3 DEF GoesOn
    <3>2. CASE r \notin T
      BY <2>3, <2>6, <3>2
    <3> QED
      BY <3>1, <3>2
  <2>9. Copying = {} =>
           jobs'[t].mixed = jobs[t].mixed /\ \A r \in Threads \ {t} : jobs'[r] = jobs[r]
    BY <2>2, <2>3, <2>4, <2>6, ReachedJob
  <2> QED
    BY <2>1, <2>3, <2>6, <2>7, <2>8, <2>9
<1>4. ASSUME WorkInCopy(t)
      PROVE  /\ jobs' \in [Threads -> Jobs]
             /\ \A r \in Threads : jobs'[r] = jobs[r] \/ GoesOn(r)
             /\ \A r \in Threads : jobs'[r].at = jobs[r].at
             /\ jobs[t].at = "idle"
  <2>1. jobs' = MixUp(Copying, jobs) /\ jobs[t].at = "idle"
    BY <1>4 DEF WorkInCopy, At
  <2>2. /\ jobs' \in [Threads -> Jobs]
        /\ \A r \in Threads \ Copying : jobs'[r] = jobs[r]
        /\ \A r \in Threads :
              /\ jobs'[r].at = jobs[r].at
              /\ jobs'[r].at \in {"saving", "saved", "copying"} =>
                    /\ jobs'[r].name = jobs[r].name /\ jobs'[r].source = jobs[r].source
                    /\ jobs'[r].chosen = jobs[r].chosen
                    /\ jobs'[r].allow_empty = jobs[r].allow_empty
    BY <1>2, <2>1, MixedUpJobs
  <2>3. ASSUME NEW r \in Copying PROVE GoesOn(r)
    <3>1. jobs[r].at = "copying" /\ jobs[r] \in RestoreJobs /\ r \in Threads
      BY <1>2 DEF Copying
    <3>2. jobs'[r] \in RestoreJobs
      BY <2>2, <3>1, JobFields
    <3> QED
      BY <2>2, <3>1, <3>2 DEF GoesOn
  <2> QED
    BY <2>1, <2>2, <2>3
<1>5. \A step \in {"saving", "saved", "idle"} : jobs[t].at = step =>
         /\ RestoreSaves(t) => step = "saving"
         /\ CopyTruncates(t) => step = "saved"
         /\ WorkInCopy(t) => step = "idle"
  BY <1>4, <1>3 DEF RestoreSaves, At
<1>6. CASE RestoreSaves(t) /\ live # Torn
  <2>1. ~CopyTruncates(t) /\ ~WorkInCopy(t)
    BY <1>1, <1>5, <1>6
  <2> QED
    BY <1>1, <1>6, <2>1
<1>7. CASE CopyTruncates(t)
  <2>1. ~RestoreSaves(t) /\ ~WorkInCopy(t)
    BY <1>3, <1>5, <1>7
  <2> QED
    BY <1>3, <1>7, <2>1
<1>8. CASE WorkInCopy(t)
  <2>1. ~CopyTruncates(t) /\ ~RestoreSaves(t)
    BY <1>4, <1>5, <1>8
  <2> QED
    BY <1>4, <1>8, <2>1
<1> QED
  BY <1>6, <1>7, <1>8

\* A database with one of its fields changed is a database.
LEMMA DatabaseFields ==
    ASSUME NEW d \in Databases
    PROVE  /\ \A n \in 0 .. MaxRequests : [d EXCEPT !.data = n] \in Databases
           /\ \A e \in BOOLEAN : [d EXCEPT !.enabled = e] \in Databases
           /\ \A k \in KeepsTyped : [d EXCEPT !.keep = Clamped(k)] \in Databases
<1>1. \A k \in KeepsTyped : Clamped(k) \in 1 .. MostKept
  BY BackupsAssumption DEF Clamped
<1> QED
  BY <1>1 DEF Databases

\* The files, the process and its threads stay of their types, a start has the file to
\* itself, and while a copy is written there is no readable live file.
LEMMA OrderedKept == Ordered /\ Named /\ [BackupsNext]_vars => Ordered'
<1> SUFFICES ASSUME Ordered, Named, [BackupsNext]_vars PROVE Ordered'
  OBVIOUS
<1> USE DEF Ordered, BackupsTypeOK
<1>0. /\ Torn \notin Databases /\ Void \notin Databases
      /\ Idle \in Jobs /\ Idle.at = "idle"
      /\ \A c \in 0 .. MaxClock : \A k \in {"auto_backup", "payroll_backup", "pre_restore"} :
            <<k, c>> \in Names
  BY BackupsAssumption DEF Jobs, Names, Idle
<1>1. CASE Start
  <2>1. boot' \in Boots /\ boot.at = "off" /\ boot'.at # "fills"
    BY <1>1 DEF Start, Boots
  <2> QED
    BY <1>1, <2>1 DEF Start
<1>2. CASE AutoCreate
  <2> DEFINE name == <<"auto_backup", clock>>
  <2>1. CASE name \in DOMAIN dir
    BY <1>2, <2>1 DEF AutoCreate, Boots
  <2>2. CASE name \notin DOMAIN dir
    <3>1. boot' = [at |-> "fills", name |-> name] /\ dir' = Put(dir, name, Void)
      BY <1>2, <2>2 DEF AutoCreate
    <3>2. name \in Names
      BY <1>0
    <3>3. IsTable(dir', Names, Databases \cup {Void})
      BY <3>1, <3>2, PutTable
    <3>4. boot' \in Boots /\ boot'.at = "fills"
      BY <3>1, <3>2 DEF Boots
    <3> QED
      BY <1>2, <3>3, <3>4, <2>2 DEF AutoCreate
  <2> QED
    BY <2>1, <2>2
<1>3. CASE AutoFill
  <2>1. boot.name \in Names /\ live \in Databases
    BY <1>3 DEF AutoFill, Boots
  <2>2. IsTable(dir', Names, Databases \cup {Void})
    BY <1>3, <2>1, PutTable DEF AutoFill
  <2> QED
    BY <1>3, <2>2 DEF AutoFill, Boots
<1>4. CASE AutoPrune
  <2>1. IsTable(dir', Names, Databases \cup {Void})
    BY <1>4, WithoutTable DEF AutoPrune
  <2> QED
    BY <1>4, <2>1 DEF AutoPrune, Boots
<1>5. ASSUME NEW t \in Threads, BackupNow(t) PROVE Ordered'
  <2> DEFINE name == <<"payroll_backup", clock>>
  <2>1. name \in Names /\ [at |-> "backup", name |-> name] \in Jobs
    BY <1>0 DEF Jobs
  <2>2. IsTable(dir', Names, Databases \cup {Void})
    BY <1>5, <2>1, PutTable DEF BackupNow
  <2> HIDE DEF name
  <2>3. jobs' = [jobs EXCEPT ![t] = [at |-> "backup", name |-> name]]
    BY <1>5 DEF BackupNow, Become, name
  <2>4. requests' \in 0 .. MaxRequests
    BY <1>5, BackupsAssumption DEF BackupNow, Begins
  <2> QED
    BY <1>5, <2>1, <2>2, <2>3, <2>4 DEF BackupNow, Begins, At
<1>6. ASSUME NEW t \in Threads, BackupFill(t) PROVE Ordered'
  <2>1. jobs[t].name \in Names
    BY <1>6, JobFields DEF BackupFill, At
  <2>2. IsTable(dir', Names, Databases \cup {Void})
    BY <1>6, <2>1, PutTable DEF BackupFill
  <2> QED
    BY <1>0, <1>6, <2>2 DEF BackupFill, Finish, Become, At
<1>7. ASSUME NEW t \in Threads, Restore(t) PROVE Ordered'
  <2> DEFINE name == <<"pre_restore", clock>>
  <2>1. PICK source \in DOMAIN dir, allow_empty \in BOOLEAN :
           /\ MayReplace(source, allow_empty)
           /\ jobs' = [jobs EXCEPT ![t] =
                         [at |-> "saving", name |-> name, source |-> source,
                          chosen |-> dir[source], allow_empty |-> allow_empty, mixed |-> FALSE]]
           /\ dir' = IF name \in DOMAIN dir THEN dir ELSE Put(dir, name, Void)
    BY <1>7 DEF Restore, Become
  <2>2. name \in Names /\ source \in Names /\ dir[source] \in Databases
    BY <1>0, <2>1 DEF MayReplace, IsDatabase, IsTable
  <2> HIDE DEF name
  <2>3. IsTable(dir', Names, Databases \cup {Void})
    BY <2>1, <2>2, PutTable
  <2>4. [at |-> "saving", name |-> name, source |-> source, chosen |-> dir[source],
         allow_empty |-> allow_empty, mixed |-> FALSE] \in Jobs
    BY <2>2 DEF Jobs
  <2>5. requests' \in 0 .. MaxRequests
    BY <1>7, BackupsAssumption DEF Restore, Begins
  <2> QED
    BY <1>7, <2>1, <2>3, <2>4, <2>5 DEF Restore, Begins, At
<1>8. ASSUME NEW t \in Threads, RestoreSaves(t) PROVE Ordered'
  <2>1. jobs[t] \in RestoreJobs /\ jobs[t].at = "saving" /\ boot.at = "up"
    BY <1>8, JobFields DEF RestoreSaves, At
  <2>2. CASE live = Torn
    BY <1>0, <1>8, <2>1, <2>2 DEF RestoreSaves, Finish, Become
  <2>3. CASE live # Torn
    <3>1. /\ jobs' \in [Threads -> Jobs] /\ jobs'[t].at = "saved"
          /\ \A r \in Threads \ {t} : jobs'[r] = jobs[r]
      BY <1>8, <2>3, RestoreSteps
    <3>2. IsTable(dir', Names, Databases \cup {Void}) /\ crossed' \in BOOLEAN
      <4>1. dir' = Put(dir, jobs[t].name, live) /\ crossed' \in BOOLEAN
        BY <1>8, <2>3 DEF RestoreSaves
      <4>2. jobs[t].name \in Names /\ live \in Databases
        BY <2>1, <2>3, ReachedJob
      <4> QED
        BY <4>1, <4>2, PutTable
    <3>3. UNCHANGED <<clock, live, boot, requests, replaced, misnamed>>
      BY <1>8 DEF RestoreSaves
    <3> QED
      BY <2>1, <2>3, <3>1, <3>2, <3>3
  <2> QED
    BY <2>2, <2>3
<1>9. ASSUME NEW t \in Threads, CopyTruncates(t) PROVE Ordered'
  <2>1. boot.at = "up"
    BY <1>9 DEF CopyTruncates, At
  <2>2. jobs' \in [Threads -> Jobs]
    BY <1>9, RestoreSteps
  <2>3. live' = Torn /\ replaced' = replaced \cup ({live} \ {Torn})
        /\ UNCHANGED <<clock, dir, boot, requests, misnamed>>
    BY <1>9 DEF CopyTruncates
  <2>4. crossed' \in BOOLEAN
    BY <1>9 DEF CopyTruncates
  <2> QED
    BY <2>1, <2>2, <2>3, <2>4
<1>10. ASSUME NEW t \in Threads, CopyEnds(t) PROVE Ordered'
  <2>1. jobs' = [jobs EXCEPT ![t] = Idle] /\ jobs[t].at = "copying" /\ boot.at = "up"
    BY <1>10 DEF CopyEnds, Finish, Become, At
  <2>2. dir[jobs[t].source] \in Databases
    BY <2>1 DEF Named, RestoreNamed, Restoring
  <2>3. Copying = {t} => \A r \in Threads : jobs'[r].at # "copying"
    BY <1>0, <2>1 DEF Copying
  <2> QED
    BY <1>0, <1>10, <2>1, <2>2, <2>3 DEF CopyEnds
<1>11. ASSUME NEW t \in Threads, Work(t) PROVE Ordered'
  <2>1. requests' \in 0 .. MaxRequests /\ live \in Databases
    BY <1>11, BackupsAssumption DEF Work, Begins
  <2>2. live' \in Databases
    BY <1>11, <2>1, DatabaseFields DEF Work
  <2> QED
    BY <1>11, <2>1, <2>2 DEF Work, Begins, At
<1>12. ASSUME NEW t \in Threads, WorkInCopy(t) PROVE Ordered'
  <2>1. boot.at = "up" /\ crossed' = TRUE
        /\ UNCHANGED <<clock, live, dir, boot, requests, replaced, misnamed>>
    BY <1>12 DEF WorkInCopy, At
  <2>2. jobs' \in [Threads -> Jobs] /\ \A r \in Threads : jobs'[r].at = jobs[r].at
    BY <1>12, RestoreSteps
  <2> QED
    BY <2>1, <2>2
<1>13. ASSUME NEW t \in Threads, SetEnabled(t) PROVE Ordered'
  <2>1. PICK enabled \in BOOLEAN, keep \in KeepsTyped :
           /\ live' = [live EXCEPT !.enabled = enabled]
           /\ jobs' = [jobs EXCEPT ![t] = [at |-> "setting", keep |-> keep]]
    BY <1>13 DEF SetEnabled, Become
  <2>2. [at |-> "setting", keep |-> keep] \in Jobs
    BY DEF Jobs
  <2>3. live' \in Databases /\ live # Torn
    BY <1>13, <2>1, DatabaseFields DEF SetEnabled, Begins
  <2>4. requests' \in 0 .. MaxRequests
    BY <1>13, BackupsAssumption DEF SetEnabled, Begins
  <2> QED
    BY <1>13, <2>1, <2>2, <2>3, <2>4 DEF SetEnabled, Begins, At
<1>14. ASSUME NEW t \in Threads, SetKeep(t) PROVE Ordered'
  <2>1. jobs[t].keep \in KeepsTyped /\ jobs[t].at = "setting" /\ boot.at = "up"
    BY <1>14, JobFields DEF SetKeep, At
  <2>2. live' \in Databases \cup {Torn} /\ (live = Torn => live' = Torn)
    BY <1>14, <2>1, DatabaseFields DEF SetKeep
  <2> QED
    BY <1>0, <1>14, <2>1, <2>2 DEF SetKeep, Finish, Become
<1>15. CASE Stop
  <2>1. boot' \in Boots /\ boot'.at = "off"
    BY <1>15 DEF Stop, Boots
  <2> QED
    BY <1>0, <1>15, <2>1 DEF Stop
<1>16. CASE Tick \/ SetBack
  <2>1. clock' \in 0 .. MaxClock
    BY <1>16, BackupsAssumption DEF Tick, SetBack
  <2>2. misnamed' \in BOOLEAN /\ UNCHANGED <<live, dir, boot, jobs, requests, replaced, crossed>>
    BY <1>16 DEF Tick, SetBack
  <2> QED
    BY <2>1, <2>2
<1>17. CASE UNCHANGED vars
  BY <1>17 DEF vars
<1> QED
  BY <1>1, <1>2, <1>3, <1>4, <1>5, <1>6, <1>7, <1>8, <1>9, <1>10, <1>11, <1>12, <1>13, <1>14,
     <1>15, <1>16, <1>17 DEF BackupsNext, Boot, Request

\* The file whose contents a request is about to write: that of its backup or its restore.
Fills(t, n) ==
    /\ live # Torn /\ n = jobs[t].name
    /\ jobs[t].at = "saving" \/ (jobs[t].at = "backup" /\ dir[n] = Void)

\* Requests remove no file, write over none but their own, and new files are those that
\* they have yet to write, under the second of the clock.
LEMMA RequestFiles ==
    ASSUME BackupsTypeOK, Named, NEW t \in Threads, Request(t)
    PROVE  /\ boot.at = "up" /\ boot' = boot /\ UNCHANGED <<clock, misnamed>>
           /\ DOMAIN dir \subseteq DOMAIN dir'
           /\ \A n \in DOMAIN dir : dir'[n] = dir[n] \/ (Fills(t, n) /\ dir'[n] = live)
           /\ \A n \in DOMAIN dir' \ DOMAIN dir :
                 /\ n[1] \in {"payroll_backup", "pre_restore"} /\ n[2] = clock
                 /\ dir'[n] = Void
<1>0. ASSUME dir' = dir
      PROVE  /\ DOMAIN dir \subseteq DOMAIN dir' /\ \A n \in DOMAIN dir : dir'[n] = dir[n]
             /\ DOMAIN dir' \ DOMAIN dir = {}
  BY <1>0
<1>1. CASE BackupNow(t)
  <2> DEFINE name == <<"payroll_backup", clock>>
  <2>1. name \notin DOMAIN dir /\ dir' = Put(dir, name, Void)
    BY <1>1 DEF BackupNow
  <2>2. name[1] = "payroll_backup" /\ name[2] = clock
    OBVIOUS
  <2> HIDE DEF name
  <2>3. /\ DOMAIN dir' = DOMAIN dir \cup {name} /\ dir'[name] = Void
        /\ \A n \in DOMAIN dir : dir'[n] = dir[n]
    BY <2>1 DEF Put, Upsert
  <2>4. boot.at = "up" /\ UNCHANGED <<boot, clock, misnamed>>
    BY <1>1 DEF BackupNow, Begins, At
  <2> QED
    BY <2>2, <2>3, <2>4
<1>2. CASE BackupFill(t)
  <2>1. boot.at = "up" /\ jobs[t].at = "backup" /\ UNCHANGED <<boot, clock, misnamed>>
    BY <1>2 DEF BackupFill, At
  <2>2. CASE live = Torn
    BY <1>0, <1>2, <2>1, <2>2 DEF BackupFill
  <2>3. CASE live # Torn
    <3>1. dir' = Put(dir, jobs[t].name, live)
      BY <1>2, <2>3 DEF BackupFill
    <3>2. jobs[t].name \in DOMAIN dir /\ dir[jobs[t].name] = Void
      BY <2>1 DEF Named, BackupNamed
    <3>3. /\ DOMAIN dir' = DOMAIN dir /\ dir'[jobs[t].name] = live
          /\ \A n \in DOMAIN dir \ {jobs[t].name} : dir'[n] = dir[n]
      BY <3>1, <3>2 DEF Put, Upsert
    <3>4. Fills(t, jobs[t].name)
      BY <2>1, <2>3, <3>2 DEF Fills
    <3> QED
      BY <2>1, <3>3, <3>4
  <2> QED
    BY <2>2, <2>3
<1>3. CASE Restore(t)
  <2> DEFINE name == <<"pre_restore", clock>>
  <2>1. dir' = IF name \in DOMAIN dir THEN dir ELSE Put(dir, name, Void)
    BY <1>3 DEF Restore
  <2>2. name[1] = "pre_restore" /\ name[2] = clock
    OBVIOUS
  <2> HIDE DEF name
  <2>3. /\ DOMAIN dir' = DOMAIN dir \cup {name} /\ (name \notin DOMAIN dir => dir'[name] = Void)
        /\ \A n \in DOMAIN dir : dir'[n] = dir[n]
    BY <2>1 DEF Put, Upsert
  <2>4. boot.at = "up" /\ UNCHANGED <<boot, clock, misnamed>>
    BY <1>3 DEF Restore, Begins, At
  <2> QED
    BY <2>2, <2>3, <2>4
<1>4. CASE RestoreSaves(t)
  <2>1. boot.at = "up" /\ jobs[t].at = "saving" /\ UNCHANGED <<boot, clock, misnamed>>
    BY <1>4 DEF RestoreSaves, At
  <2>2. CASE live = Torn
    BY <1>0, <1>4, <2>1, <2>2 DEF RestoreSaves
  <2>3. CASE live # Torn
    <3>1. dir' = Put(dir, jobs[t].name, live)
      BY <1>4, <2>3 DEF RestoreSaves
    <3>2. jobs[t].name \in DOMAIN dir
      BY <2>1 DEF Named, RestoreNamed, Restoring
    <3>3. /\ DOMAIN dir' = DOMAIN dir /\ dir'[jobs[t].name] = live
          /\ \A n \in DOMAIN dir \ {jobs[t].name} : dir'[n] = dir[n]
      BY <3>1, <3>2 DEF Put, Upsert
    <3>4. Fills(t, jobs[t].name)
      BY <2>1, <2>3 DEF Fills
    <3> QED
      BY <2>1, <3>3, <3>4
  <2> QED
    BY <2>2, <2>3
<1>5. CASE CopyTruncates(t)
  BY <1>0, <1>5 DEF CopyTruncates, At
<1>6. CASE CopyEnds(t)
  BY <1>0, <1>6 DEF CopyEnds, At
<1>7. CASE Work(t)
  BY <1>0, <1>7 DEF Work, Begins, At
<1>8. CASE WorkInCopy(t)
  BY <1>0, <1>8 DEF WorkInCopy, At
<1>9. CASE SetEnabled(t)
  BY <1>0, <1>9 DEF SetEnabled, Begins, At
<1>10. CASE SetKeep(t)
  BY <1>0, <1>10 DEF SetKeep, At
<1> QED
  BY <1>1, <1>2, <1>3, <1>4, <1>5, <1>6, <1>7, <1>8, <1>9, <1>10 DEF Request

\* What a request leaves of the threads: the others' jobs, but for a copy being mixed up, and
\* its own after a step: a backup begun, a restore begun or carried on, or nothing of these.
LEMMA RequestJobs ==
    ASSUME BackupsTypeOK, NEW t \in Threads, Request(t)
    PROVE  /\ \A r \in Threads \ {t} : jobs'[r] = jobs[r] \/ GoesOn(r)
           /\ \/ jobs'[t].at \in {"idle", "setting"}
              \/ GoesOn(t)
              \/ /\ BackupNow(t) /\ jobs'[t].at = "backup" /\ jobs'[t].name[1] = "payroll_backup"
                 /\ jobs'[t].name \in DOMAIN dir' \ DOMAIN dir
              \/ /\ Restore(t) /\ jobs'[t].at = "saving" /\ jobs'[t].mixed = FALSE
                 /\ jobs'[t].name[1] = "pre_restore" /\ jobs'[t].name \in DOMAIN dir'
                 /\ jobs'[t].source \in DOMAIN dir
                 /\ jobs'[t].chosen = dir[jobs'[t].source]
                 /\ MayReplace(jobs'[t].source, jobs'[t].allow_empty)
<1> USE DEF BackupsTypeOK
<1>0. ASSUME NEW job, Become(t, job)
      PROVE  jobs'[t] = job /\ \A r \in Threads \ {t} : jobs'[r] = jobs[r]
  BY <1>0 DEF Become
<1>1. CASE BackupNow(t)
  <2> DEFINE name == <<"payroll_backup", clock>>
  <2>1. /\ name \notin DOMAIN dir /\ dir' = Put(dir, name, Void)
        /\ Become(t, [at |-> "backup", name |-> name])
    BY <1>1 DEF BackupNow
  <2>2. name \in DOMAIN dir'
    BY <2>1 DEF Put, Upsert
  <2> QED
    BY <1>0, <1>1, <2>1, <2>2
<1>2. CASE BackupFill(t) \/ CopyEnds(t) \/ SetKeep(t)
  BY <1>0, <1>2 DEF BackupFill, CopyEnds, SetKeep, Finish, Idle
<1>3. CASE Restore(t)
  <2> DEFINE name == <<"pre_restore", clock>>
  <2>1. PICK source \in DOMAIN dir, allow_empty \in BOOLEAN :
           /\ MayReplace(source, allow_empty)
           /\ Become(t, [at |-> "saving", name |-> name, source |-> source,
                         chosen |-> dir[source], allow_empty |-> allow_empty, mixed |-> FALSE])
           /\ dir' = IF name \in DOMAIN dir THEN dir ELSE Put(dir, name, Void)
    BY <1>3 DEF Restore
  <2>2. name \in DOMAIN dir'
    BY <2>1 DEF Put, Upsert
  <2> QED
    BY <1>0, <1>3, <2>1, <2>2
<1>4. CASE RestoreSaves(t) /\ live = Torn
  BY <1>0, <1>4 DEF RestoreSaves, Finish, Idle
<1>5. CASE (RestoreSaves(t) /\ live # Torn) \/ CopyTruncates(t)
  BY <1>5, RestoreSteps
<1>6. CASE Work(t)
  BY <1>6 DEF Work, Begins, At
<1>7. CASE WorkInCopy(t)
  <2>1. jobs[t].at = "idle"
    BY <1>7 DEF WorkInCopy, At
  <2> QED
    BY <1>7, <2>1, RestoreSteps
<1>8. CASE SetEnabled(t)
  <2>1. PICK keep \in KeepsTyped : Become(t, [at |-> "setting", keep |-> keep])
    BY <1>8 DEF SetEnabled
  <2> QED
    BY <1>0, <2>1
<1> QED
  BY <1>1, <1>2, <1>3, <1>4, <1>5, <1>6, <1>7, <1>8 DEF Request

\* Restoring, by the type of the job.
LEMMA RestoringJobs ==
    ASSUME BackupsTypeOK, NEW t \in Threads
    PROVE  /\ Restoring(t) <=> jobs[t] \in RestoreJobs
           /\ GoesOn(t) => Restoring(t) /\ Restoring(t)'
<1>1. Restoring(t) => jobs[t] \in RestoreJobs
  BY JobFields DEF Restoring, BackupsTypeOK
<1>2. jobs[t] \in RestoreJobs => Restoring(t)
  BY DEF RestoreJobs, Restoring
<1>3. jobs'[t] \in RestoreJobs => Restoring(t)'
  BY DEF RestoreJobs, Restoring
<1> QED
  BY <1>1, <1>2, <1>3 DEF GoesOn

\* The files in use stay where they are, each with one writer.
LEMMA NamedKept == Ordered /\ Named /\ [BackupsNext]_vars => Named'
<1> SUFFICES ASSUME Ordered, Named, [BackupsNext]_vars PROVE Named'
  OBVIOUS
<1> USE DEF Ordered
<1>0. Torn \notin Databases /\ Void \notin Databases /\ Idle.at = "idle"
  BY BackupsAssumption DEF Idle
<1>1. ASSUME NEW t \in Threads, Request(t) PROVE Named'
  <2>1. /\ boot.at = "up" /\ boot' = boot
        /\ DOMAIN dir \subseteq DOMAIN dir'
        /\ \A n \in DOMAIN dir : dir'[n] = dir[n] \/ (Fills(t, n) /\ dir'[n] = live)
        /\ \A n \in DOMAIN dir' \ DOMAIN dir : dir'[n] = Void
    BY <1>1, RequestFiles
  <2>2. live # Torn => live \in Databases
    BY DEF BackupsTypeOK
  <2>3. ASSUME NEW n \in DOMAIN dir, dir[n] \in Databases PROVE dir'[n] \in Databases
    BY <2>1, <2>2, <2>3 DEF Fills
  <2>4. ASSUME NEW r \in Threads \ {t}, jobs[r].at = "backup"
        PROVE  dir'[jobs[r].name] = Void
    <3>1. jobs[r].name \in DOMAIN dir /\ dir[jobs[r].name] = Void
          /\ jobs[r].name[1] = "payroll_backup"
      BY <2>4 DEF Named, BackupNamed
    <3>2. ~Fills(t, jobs[r].name)
      BY <2>4, <3>1 DEF Fills, Named, RestoreNamed, Restoring
    <3> QED
      BY <2>1, <3>1, <3>2
  <2>5. ASSUME NEW r \in Threads, jobs'[r] = jobs[r], jobs[r].at = "backup" => r # t
        PROVE  BackupNamed(r)' /\ RestoreNamed(r)'
    BY <2>1, <2>3, <2>4, <2>5 DEF Named, BackupNamed, RestoreNamed, Restoring
  <2>6. ASSUME NEW r \in Threads, GoesOn(r)
        PROVE  BackupNamed(r)' /\ RestoreNamed(r)'
    <3>1. Restoring(r) /\ Restoring(r)'
      BY <2>6, RestoringJobs
    <3> QED
      BY <2>1, <2>3, <2>6, <3>1 DEF Named, GoesOn, BackupNamed, RestoreNamed, Restoring
  <2>7. ASSUME NEW r \in Threads \ {t} PROVE BackupNamed(r)' /\ RestoreNamed(r)'
    <3>1. jobs'[r] = jobs[r] \/ GoesOn(r)
      BY <1>1, RequestJobs
    <3> QED
      BY <2>5, <2>6, <3>1
  <2>8. BackupNamed(t)' /\ RestoreNamed(t)'
    <3>1. CASE jobs'[t].at \in {"idle", "setting"}
      BY <3>1 DEF BackupNamed, RestoreNamed, Restoring
    <3>2. CASE GoesOn(t)
      BY <2>6, <3>2
    <3>3. CASE /\ jobs'[t].at = "backup" /\ jobs'[t].name[1] = "payroll_backup"
               /\ jobs'[t].name \in DOMAIN dir' \ DOMAIN dir
      BY <2>1, <3>3 DEF BackupNamed, RestoreNamed, Restoring
    <3>4. CASE /\ jobs'[t].at = "saving" /\ jobs'[t].name[1] = "pre_restore"
               /\ jobs'[t].name \in DOMAIN dir' /\ jobs'[t].source \in DOMAIN dir
               /\ MayReplace(jobs'[t].source, jobs'[t].allow_empty)
      <4>1. dir[jobs'[t].source] \in Databases
        BY <3>4 DEF MayReplace, IsDatabase, BackupsTypeOK, IsTable
      <4>2. jobs'[t].source \in DOMAIN dir' /\ dir'[jobs'[t].source] \in Databases
        BY <2>1, <2>3, <3>4, <4>1
      <4> QED
        BY <3>4, <4>2 DEF BackupNamed, RestoreNamed
    <3> QED
      BY <1>1, <3>1, <3>2, <3>3, <3>4, RequestJobs
  <2>9. ASSUME NEW r \in Threads, NEW u \in Threads, r # u,
               jobs'[r].at = "backup", jobs'[u].at = "backup"
        PROVE  jobs'[r].name # jobs'[u].name
    <3>1. ASSUME NEW v \in Threads, jobs'[v].at = "backup"
          PROVE  \/ v # t /\ jobs'[v] = jobs[v] /\ jobs'[v].name \in DOMAIN dir
                 \/ v = t /\ jobs'[v].name \notin DOMAIN dir
      <4>1. ~GoesOn(v)
        BY <3>1 DEF GoesOn, RestoreJobs
      <4>2. CASE v = t
        BY <1>1, <3>1, <4>1, <4>2, RequestJobs
      <4>3. CASE v # t
        <5>1. jobs'[v] = jobs[v]
          BY <1>1, <4>1, <4>3, RequestJobs
        <5> QED
          BY <3>1, <4>3, <5>1 DEF Named, BackupNamed
      <4> QED
        BY <4>2, <4>3
    <3> QED
      BY <2>9, <3>1 DEF Named
  <2>10. StartNamed'
    BY <2>1 DEF StartNamed
  <2> QED
    BY <2>7, <2>8, <2>9, <2>10 DEF Named
<1>2. ASSUME \A t \in Threads : jobs'[t].at = "idle", StartNamed'
      PROVE  Named'
  BY <1>2 DEF Named, BackupNamed, RestoreNamed, Restoring
<1>3. CASE AutoCreate
  <2> DEFINE name == <<"auto_backup", clock>>
  <2>1. \A t \in Threads : jobs'[t].at = "idle"
    BY <1>0, <1>3 DEF AutoCreate
  <2>2. CASE name \in DOMAIN dir
    <3>1. StartNamed'
      BY <1>3, <2>2 DEF AutoCreate, StartNamed
    <3> QED
      BY <1>2, <2>1, <3>1
  <2>3. CASE name \notin DOMAIN dir
    <3>1. boot' = [at |-> "fills", name |-> name] /\ dir' = Put(dir, name, Void)
      BY <1>3, <2>3 DEF AutoCreate
    <3>2. name \in DOMAIN dir' /\ dir'[name] = Void /\ boot'.name = name
      BY <3>1 DEF Put, Upsert
    <3>3. StartNamed'
      BY <3>2 DEF StartNamed
    <3> QED
      BY <1>2, <2>1, <3>3
  <2> QED
    BY <2>2, <2>3
<1>4. CASE AutoFill \/ AutoPrune
  <2>1. \A t \in Threads : jobs'[t].at = "idle"
    BY <1>0, <1>4 DEF AutoFill, AutoPrune
  <2>2. StartNamed'
    BY <1>4 DEF AutoFill, AutoPrune, StartNamed
  <2> QED
    BY <1>2, <2>1, <2>2
<1>5. CASE Stop
  <2>1. \A t \in Threads : jobs'[t].at = "idle"
    BY <1>0, <1>5 DEF Stop
  <2>2. StartNamed'
    BY <1>5 DEF Stop, StartNamed
  <2> QED
    BY <1>2, <2>1, <2>2
<1>6. CASE Start
  <2>1. \A t \in Threads : jobs'[t].at = "idle"
    BY <1>0, <1>6 DEF Start
  <2>2. StartNamed'
    BY <1>6 DEF Start, StartNamed
  <2> QED
    BY <1>2, <2>1, <2>2
<1>7. CASE Tick \/ SetBack \/ UNCHANGED vars
  <2>1. UNCHANGED <<dir, boot, jobs>>
    BY <1>7 DEF Tick, SetBack, vars
  <2> QED
    BY <2>1 DEF Named, BackupNamed, RestoreNamed, Restoring, StartNamed
<1> QED
  BY <1>1, <1>3, <1>4, <1>5, <1>6, <1>7 DEF BackupsNext, Boot

\* Unless something comes in the way of a restore, no request writes over a database.
LEMMA NoneOverwritten ==
    ASSUME BackupsTypeOK, Named, NEW t \in Threads, Request(t), ~crossed'
    PROVE  \A n \in DOMAIN dir : dir[n] \in Databases => dir'[n] = dir[n]
<1> SUFFICES ASSUME NEW n \in DOMAIN dir, dir[n] \in Databases, Fills(t, n), dir'[n] = live
             PROVE  dir'[n] = dir[n]
  BY RequestFiles
<1>0. Void \notin Databases
  BY BackupsAssumption
<1>1. jobs[t].at = "saving" /\ n = jobs[t].name /\ live # Torn
  BY <1>0 DEF Fills
<1>2. RestoreSaves(t)
  BY <1>1 DEF Request, BackupNow, BackupFill, Restore, CopyTruncates, CopyEnds, Work, WorkInCopy,
              SetEnabled, SetKeep, Begins, At
<1>3. dir[n] \in {Void, live}
  BY <1>1, <1>2 DEF RestoreSaves
<1> QED
  BY <1>0, <1>3

\* What was replaced stays kept while no backup of a restore is lost or written over.
LEMMA StillKept ==
    ASSUME KeptByRestores, replaced \subseteq Databases,
           \A n \in DOMAIN dir : n[1] = "pre_restore" =>
              n \in DOMAIN dir' /\ (dir[n] \in Databases => dir'[n] = dir[n]),
           \A d \in replaced' \ replaced :
              d \in Databases /\ \E n \in DOMAIN dir : n[1] = "pre_restore" /\ dir[n] = d
    PROVE  KeptByRestores'
<1> SUFFICES ASSUME NEW d \in replaced'
             PROVE  \E n \in DOMAIN dir' : n[1] = "pre_restore" /\ dir'[n] = d
  BY DEF KeptByRestores
<1>1. PICK n \in DOMAIN dir : n[1] = "pre_restore" /\ dir[n] = d
  BY DEF KeptByRestores
<1>2. d \in Databases
  OBVIOUS
<1> QED
  BY <1>1, <1>2

\* Until something comes in their way, restores keep what they replace and know what they
\* will leave.
LEMMA UncrossedKept ==
    Ordered /\ Named /\ Uncrossed /\ [BackupsNext]_vars => Uncrossed'
<1> SUFFICES ASSUME Ordered, Named, Uncrossed, [BackupsNext]_vars, ~crossed'
             PROVE  KeptByRestores' /\ \A r \in Threads : RestoreRelies(r)'
  BY DEF Uncrossed
<1> USE DEF Ordered
<1>0. Torn \notin Databases /\ Void \notin Databases /\ Torn # Void /\ Idle.at = "idle"
  BY BackupsAssumption DEF Idle
<1>1. CASE \E t \in Threads : Request(t)
  <2>0. PICK t \in Threads : Request(t)
    BY <1>1
  <2>1. /\ \A n \in DOMAIN dir : n \in DOMAIN dir' /\ (dir[n] \in Databases => dir'[n] = dir[n])
        /\ live = Torn => \A n \in DOMAIN dir : dir'[n] = dir[n]
    BY <2>0, NoneOverwritten, RequestFiles DEF Fills
  <2>2. crossed' = FALSE => crossed = FALSE
    BY <2>0 DEF Request, BackupNow, BackupFill, Restore, RestoreSaves, CopyTruncates, CopyEnds,
                Work, WorkInCopy, SetEnabled, SetKeep, BackupsTypeOK
  <2>3. KeptByRestores /\ \A r \in Threads : RestoreRelies(r)
    BY <2>2 DEF Uncrossed, BackupsTypeOK
  <2>4. ASSUME replaced' = replaced PROVE KeptByRestores'
    BY <2>1, <2>3, <2>4, StillKept DEF BackupsTypeOK
  <2>5. ASSUME NEW r \in Threads, jobs'[r].at \notin {"saving", "saved", "copying"}
        PROVE  RestoreRelies(r)'
    BY <2>5 DEF RestoreRelies, Restoring
  <2>6. ASSUME NEW r \in Threads, jobs'[r] = jobs[r], Restoring(r),
               live' = live \/ jobs[r].at = "copying"
        PROVE  RestoreRelies(r)'
    <3>1. /\ jobs[r].source \in DOMAIN dir /\ dir[jobs[r].source] \in Databases
          /\ jobs[r].name \in DOMAIN dir
      BY <2>6 DEF Named, RestoreNamed
    <3>2. ~jobs[r].mixed /\ dir'[jobs[r].source] = jobs[r].chosen
      BY <2>1, <2>3, <2>6, <3>1 DEF RestoreRelies
    <3>3. CASE jobs[r].at = "saving"
      BY <2>3, <2>6, <3>2, <3>3 DEF RestoreRelies, Restoring, Allowed
    <3>4. CASE jobs[r].at = "saved"
      <4>1. dir[jobs[r].name] = live /\ Allowed(r, live) /\ live' = live
        BY <2>3, <2>6, <3>4 DEF RestoreRelies
      <4>2. live \in Databases
        BY <1>0, <3>1, <4>1 DEF BackupsTypeOK, IsTable
      <4>3. dir'[jobs[r].name] = live
        BY <2>1, <3>1, <4>1, <4>2
      <4> QED
        BY <2>6, <3>2, <3>4, <4>1, <4>3 DEF RestoreRelies, Restoring, Allowed
    <3>5. CASE jobs[r].at = "copying"
      <4>1. dir'[jobs[r].name] = dir[jobs[r].name] /\ Allowed(r, dir[jobs[r].name])
        BY <2>1, <2>3, <3>1, <3>5 DEF RestoreRelies
      <4> QED
        BY <2>6, <3>2, <3>5, <4>1 DEF RestoreRelies, Restoring, Allowed
    <3> QED
      BY <2>6, <3>3, <3>4, <3>5 DEF Restoring
  <2>7. ASSUME NEW r \in Threads \ {t}, jobs'[r] = jobs[r],
               live' = live \/ jobs[r].at \notin {"saving", "saved"}
        PROVE  RestoreRelies(r)'
    BY <2>5, <2>6, <2>7 DEF Restoring
  <2>8. CASE BackupNow(t) \/ BackupFill(t) \/ Restore(t)
    <3>1. live' = live /\ replaced' = replaced
      BY <2>8 DEF BackupNow, BackupFill, Restore
    <3>2. \A r \in Threads \ {t} : jobs'[r] = jobs[r]
      BY <2>8 DEF BackupNow, BackupFill, Restore, Finish, Become, BackupsTypeOK
    <3>3. CASE BackupNow(t) \/ BackupFill(t)
      <4>1. jobs'[t].at \in {"backup", "idle"}
        BY <1>0, <3>3 DEF BackupNow, BackupFill, Finish, Become, BackupsTypeOK
      <4> QED
        BY <2>4, <2>5, <2>7, <3>1, <3>2, <4>1
    <3>4. CASE Restore(t)
      <4>1. /\ jobs'[t].at = "saving" /\ jobs'[t].mixed = FALSE
            /\ jobs'[t].source \in DOMAIN dir
            /\ jobs'[t].chosen = dir[jobs'[t].source]
            /\ MayReplace(jobs'[t].source, jobs'[t].allow_empty)
        <5>1. PICK source \in DOMAIN dir, allow_empty \in BOOLEAN :
                 /\ MayReplace(source, allow_empty)
                 /\ Become(t, [at |-> "saving", name |-> <<"pre_restore", clock>>,
                               source |-> source, chosen |-> dir[source],
                               allow_empty |-> allow_empty, mixed |-> FALSE])
          BY <3>4 DEF Restore
        <5> QED
          BY <5>1 DEF Become, BackupsTypeOK
      <4>2. live # Torn
        BY <3>4 DEF Restore, Begins
      <4>3. dir[jobs'[t].source] \in Databases
        BY <4>1 DEF MayReplace, IsDatabase, BackupsTypeOK, IsTable
      <4>4. dir'[jobs'[t].source] = jobs'[t].chosen
        BY <2>1, <4>1, <4>3
      <4>5. Allowed(t, live)'
        BY <3>1, <4>1 DEF MayReplace, Allowed
      <4>6. RestoreRelies(t)'
        BY <3>1, <4>1, <4>2, <4>4, <4>5 DEF RestoreRelies, Restoring, Allowed
      <4> QED
        BY <2>4, <2>7, <3>1, <3>2, <4>6
    <3> QED
      BY <2>8, <3>3, <3>4
  <2>9. CASE RestoreSaves(t)
    <3>1. live' = live /\ replaced' = replaced /\ jobs[t].at = "saving"
      BY <2>9 DEF RestoreSaves, At
    <3>2. CASE live = Torn
      <4>1. jobs'[t].at = "idle" /\ \A r \in Threads \ {t} : jobs'[r] = jobs[r]
        BY <1>0, <2>9, <3>2 DEF RestoreSaves, Finish, Become, BackupsTypeOK
      <4> QED
        BY <2>4, <2>5, <2>7, <3>1, <4>1
    <3>3. CASE live # Torn
      <4>1. /\ GoesOn(t) /\ jobs'[t].at = "saved" /\ jobs'[t].mixed = jobs[t].mixed
            /\ \A r \in Threads \ {t} : jobs'[r] = jobs[r]
        BY <2>9, <3>3, RestoreSteps
      <4>2. jobs[t].source \in DOMAIN dir /\ dir[jobs[t].source] \in Databases
        BY <3>1 DEF Named, RestoreNamed, Restoring
      <4>3. ~jobs[t].mixed /\ dir[jobs[t].source] = jobs[t].chosen /\ Allowed(t, live)
        BY <2>3, <3>1 DEF RestoreRelies, Restoring
      <4>4. dir' = Put(dir, jobs[t].name, live)
        BY <2>9, <3>3 DEF RestoreSaves
      <4>5. dir'[jobs[t].name] = live
        BY <4>4 DEF Put, Upsert
      <4>6. RestoreRelies(t)'
        BY <2>1, <3>1, <4>1, <4>2, <4>3, <4>5 DEF RestoreRelies, Restoring, Allowed, GoesOn
      <4> QED
        BY <2>4, <2>7, <3>1, <4>1, <4>6
    <3> QED
      BY <3>2, <3>3
  <2>10. CASE CopyTruncates(t)
    <3>1. /\ jobs[t].at = "saved" /\ live # Torn /\ ~Crossing(Threads \ {t}) /\ dir' = dir
          /\ replaced' = replaced \cup {live}
      BY <2>10 DEF CopyTruncates, At
    <3>2. live \in Databases /\ Copying = {}
      BY <3>1 DEF BackupsTypeOK, Copying
    <3>3. /\ GoesOn(t) /\ jobs'[t].at = "copying" /\ jobs'[t].mixed = jobs[t].mixed
          /\ \A r \in Threads \ {t} : jobs'[r] = jobs[r]
      BY <2>10, <3>2, RestoreSteps
    <3>4. /\ dir[jobs[t].name] = live /\ Allowed(t, live) /\ ~jobs[t].mixed
          /\ dir[jobs[t].source] = jobs[t].chosen
      BY <2>3, <3>1 DEF RestoreRelies, Restoring
    <3>5. RestoreRelies(t)'
      BY <3>1, <3>3, <3>4 DEF RestoreRelies, Restoring, Allowed, GoesOn
    <3>6. \A r \in Threads \ {t} : jobs[r].at \notin {"saving", "saved"}
      BY <3>1 DEF Crossing
    <3>7. KeptByRestores'
      <4>1. jobs[t].name \in DOMAIN dir /\ jobs[t].name[1] = "pre_restore"
        BY <3>1 DEF Named, RestoreNamed, Restoring
      <4>2. \A d \in replaced' \ replaced :
               d \in Databases /\ \E n \in DOMAIN dir : n[1] = "pre_restore" /\ dir[n] = d
        BY <3>1, <3>2, <3>4, <4>1
      <4> QED
        BY <2>1, <2>3, <4>2, StillKept DEF BackupsTypeOK
    <3> QED
      BY <2>7, <3>3, <3>5, <3>6, <3>7
  <2>11. CASE CopyEnds(t)
    <3>1. jobs[t].at = "copying" /\ replaced' = replaced /\ live = Torn
      BY <2>11 DEF CopyEnds, At
    <3>2. jobs'[t].at = "idle" /\ \A r \in Threads \ {t} : jobs'[r] = jobs[r]
      BY <1>0, <2>11 DEF CopyEnds, Finish, Become, BackupsTypeOK
    <3>3. ASSUME NEW r \in Threads PROVE jobs[r].at \notin {"saving", "saved"}
      <4>1. jobs[r].at # "saving"
        BY <2>3, <3>1 DEF RestoreRelies
      <4>2. ASSUME jobs[r].at = "saved" PROVE FALSE
        <5>1. jobs[r].name \in DOMAIN dir /\ dir[jobs[r].name] = Torn
          BY <2>3, <3>1, <4>2 DEF RestoreRelies, Named, RestoreNamed, Restoring
        <5> QED
          BY <1>0, <5>1 DEF BackupsTypeOK, IsTable
      <4> QED
        BY <4>1, <4>2
    <3> QED
      BY <2>4, <2>5, <2>7, <3>1, <3>2, <3>3
  <2>12. CASE Work(t) \/ SetEnabled(t) \/ SetKeep(t)
    <3>1. ~Crossing(Threads) /\ replaced' = replaced
      BY <2>12 DEF Work, SetEnabled, SetKeep
    <3>2. \A r \in Threads : jobs[r].at \notin {"saving", "saved"}
      BY <3>1 DEF Crossing
    <3>3. \A r \in Threads \ {t} : jobs'[r] = jobs[r]
      BY <2>12 DEF Work, SetEnabled, SetKeep, Finish, Become, BackupsTypeOK
    <3>4. jobs'[t].at \in {"idle", "setting"}
      BY <1>0, <2>12 DEF Work, SetEnabled, SetKeep, Begins, At, Finish, Become, BackupsTypeOK
    <3> QED
      BY <2>4, <2>5, <2>7, <3>1, <3>2, <3>3, <3>4
  <2>13. CASE WorkInCopy(t)
    BY <2>13 DEF WorkInCopy
  <2> QED
    BY <2>0, <2>8, <2>9, <2>10, <2>11, <2>12, <2>13 DEF Request
<1>2. CASE AutoCreate \/ AutoFill \/ AutoPrune \/ Start \/ Stop
  <2>1. \A t \in Threads : jobs'[t].at = "idle"
    BY <1>0, <1>2 DEF AutoCreate, AutoFill, AutoPrune, Start, Stop
  <2>2. UNCHANGED <<crossed, replaced>>
    BY <1>2 DEF AutoCreate, AutoFill, AutoPrune, Start, Stop
  <2>3. \A n \in DOMAIN dir : n[1] = "pre_restore" => n \in DOMAIN dir' /\ dir'[n] = dir[n]
    <3>1. CASE AutoCreate
      <4>1. <<"auto_backup", clock>>[1] = "auto_backup"
        OBVIOUS
      <4> HIDE <1>2
      <4> QED
        BY <3>1, <4>1 DEF AutoCreate, Put, Upsert
    <3>2. CASE AutoFill
      <4>1. dir' = Put(dir, boot.name, live) /\ boot.name[1] = "auto_backup"
        BY <3>2 DEF AutoFill, Named, StartNamed
      <4> QED
        BY <4>1 DEF Put, Upsert
    <3>3. CASE AutoPrune
      BY <3>3 DEF AutoPrune, Without, Restrict, Stale
    <3>4. CASE Start \/ Stop
      BY <3>4 DEF Start, Stop
    <3> QED
      BY <1>2, <3>1, <3>2, <3>3, <3>4
  <2>4. KeptByRestores'
    BY <2>2, <2>3, StillKept DEF Uncrossed, BackupsTypeOK
  <2> QED
    BY <2>1, <2>4 DEF RestoreRelies, Restoring
<1>3. CASE Tick \/ SetBack \/ UNCHANGED vars
  <2>1. UNCHANGED <<live, dir, jobs, replaced, crossed>>
    BY <1>3 DEF Tick, SetBack, vars
  <2> QED
    BY <2>1 DEF Uncrossed, KeptByRestores, RestoreRelies, Restoring, Allowed
<1> QED
  BY <1>1, <1>2, <1>3 DEF BackupsNext, Boot

\* Names are pairs of a prefix and a second.
LEMMA NameParts ==
    ASSUME BackupsTypeOK
    PROVE  /\ clock \in Int
           /\ \A n \in DOMAIN dir : n = <<n[1], n[2]>> /\ n[2] \in Nat
           /\ boot.at = "fills" => boot.name[2] \in Nat
BY BackupsAssumption DEF BackupsTypeOK, IsTable, Names, Boots

\* The latest automatic backup of a start stays that until the start is over.
LEMMA InTimeKept ==
    Ordered /\ Named /\ InTime /\ [BackupsNext]_vars => InTime'
<1> SUFFICES ASSUME Ordered, Named, InTime, [BackupsNext]_vars, ~misnamed'
             PROVE  /\ \A n \in DOMAIN dir' : n[2] <= clock'
                    /\ boot'.at = "fills" => \A n \in Autos' : n[2] <= boot'.name[2]
                    /\ boot'.at = "prunes" =>
                          \E n \in Autos' : dir'[n] = live' /\ \A m \in Autos' : m[2] <= n[2]
  BY DEF InTime
<1> USE DEF Ordered
<1>0. /\ clock \in Int /\ \A n \in DOMAIN dir : n[2] \in Nat
      /\ boot.at = "fills" => boot.name[2] \in Nat
  BY NameParts
<1>1. ~misnamed
  BY DEF BackupsNext, Boot, Start, AutoCreate, AutoFill, AutoPrune, Request, BackupNow,
         BackupFill, Restore, RestoreSaves, CopyTruncates, CopyEnds, Work, WorkInCopy, SetEnabled,
         SetKeep, Stop, Tick, SetBack, vars
<1>2. /\ \A n \in DOMAIN dir : n[2] <= clock
      /\ boot.at = "fills" => \A n \in Autos : n[2] <= boot.name[2]
      /\ boot.at = "prunes" => \E n \in Autos : dir[n] = live /\ \A m \in Autos : m[2] <= n[2]
  BY <1>1 DEF InTime
<1>3. CASE \E t \in Threads : Request(t)
  <2>1. PICK t \in Threads : Request(t)
    BY <1>3
  <2>2. /\ boot.at = "up" /\ boot' = boot /\ clock' = clock
        /\ \A n \in DOMAIN dir' \ DOMAIN dir : n[2] = clock
    BY <2>1, RequestFiles
  <2> QED
    BY <1>0, <1>2, <2>2
<1>4. CASE AutoCreate
  <2> DEFINE name == <<"auto_backup", clock>>
  <2>1. name \notin DOMAIN dir
    BY <1>4 DEF AutoCreate
  <2>2. /\ boot' = [at |-> "fills", name |-> name] /\ dir' = Put(dir, name, Void)
        /\ clock' = clock
    BY <1>4, <2>1 DEF AutoCreate
  <2>3. DOMAIN dir' = DOMAIN dir \cup {name}
    BY <2>2 DEF Put, Upsert
  <2>4. \A n \in DOMAIN dir' : n[2] <= clock
    BY <1>0, <1>2, <2>3
  <2>5. boot'.at = "fills" /\ boot'.name[2] = clock
    BY <2>2
  <2> QED
    BY <2>2, <2>4, <2>5 DEF Autos
<1>5. CASE AutoFill
  <2>1. boot.at = "fills" /\ boot'.at = "prunes" /\ UNCHANGED <<clock, live>>
        /\ dir' = Put(dir, boot.name, live)
    BY <1>5 DEF AutoFill
  <2>2. boot.name \in Autos
    BY <2>1 DEF Named, StartNamed, Autos
  <2>3. DOMAIN dir' = DOMAIN dir /\ dir'[boot.name] = live
    BY <2>1, <2>2 DEF Put, Upsert, Autos
  <2>4. Autos' = Autos
    BY <2>3 DEF Autos
  <2> QED
    BY <1>2, <2>1, <2>2, <2>3, <2>4
<1>6. CASE AutoPrune
  <2>1. boot'.at = "up" /\ clock' = clock /\ DOMAIN dir' \subseteq DOMAIN dir
    BY <1>6 DEF AutoPrune, Without, Restrict
  <2> QED
    BY <1>2, <2>1
<1>7. CASE Start \/ Stop
  <2>1. boot'.at \in {"off", "creates", "up"} /\ UNCHANGED <<clock, dir>>
    BY <1>7 DEF Start, Stop
  <2> QED
    BY <1>2, <2>1
<1>8. CASE Tick
  <2>1. clock' = clock + 1 /\ UNCHANGED <<live, dir, boot>>
    BY <1>8 DEF Tick
  <2>2. Autos' = Autos
    BY <2>1 DEF Autos
  <2> QED
    BY <1>0, <1>2, <2>1, <2>2
<1>9. CASE SetBack
  BY <1>9 DEF SetBack
<1>10. CASE UNCHANGED vars
  <2>1. Autos' = Autos /\ UNCHANGED <<clock, live, dir, boot>>
    BY <1>10 DEF vars, Autos
  <2> QED
    BY <1>2, <2>1
<1> QED
  BY <1>3, <1>4, <1>5, <1>6, <1>7, <1>8, <1>9, <1>10 DEF BackupsNext, Boot

\* An empty directory and no request satisfy all of it.
LEMMA BackupsInvInit == BackupsInit => BackupsInv
<1> SUFFICES ASSUME BackupsInit PROVE BackupsInv
  OBVIOUS
<1> USE DEF BackupsInit
<1>1. /\ DOMAIN dir = {} /\ IsTable(dir, Names, Databases \cup {Void})
  BY EmptyIsTable
<1>2. live \in Databases
  BY BackupsAssumption DEF Databases
<1>3. Ordered
  <2>1. live # Torn
    BY <1>2, BackupsAssumption
  <2>2. boot \in Boots /\ boot.at = "off"
    BY DEF Boots
  <2>3. jobs \in [Threads -> Jobs] /\ \A t \in Threads : jobs[t] = Idle /\ jobs[t].at = "idle"
    BY DEF Jobs, Idle
  <2>4. clock \in 0 .. MaxClock /\ requests \in 0 .. MaxRequests
    BY BackupsAssumption
  <2>5. replaced \subseteq Databases /\ crossed \in BOOLEAN /\ misnamed \in BOOLEAN
    OBVIOUS
  <2> HIDE DEF BackupsInit
  <2>6. BackupsTypeOK
    BY <1>1, <1>2, <2>2, <2>3, <2>4, <2>5 DEF BackupsTypeOK
  <2> QED
    BY <2>1, <2>2, <2>3, <2>6 DEF Ordered
<1>4. Named
  BY <1>1 DEF Named, BackupNamed, RestoreNamed, StartNamed, Restoring, Idle
<1>5. Uncrossed
  BY <1>1 DEF Uncrossed, KeptByRestores, RestoreRelies, Restoring, Idle
<1>6. InTime
  BY <1>1 DEF InTime, Autos
<1> QED
  BY <1>3, <1>4, <1>5, <1>6 DEF BackupsInv

\* The invariant holds of every behaviour.
LEMMA BackupsInvHolds == BackupsSpec => []BackupsInv
<1>1. BackupsInv /\ [BackupsNext]_vars => BackupsInv'
  BY OrderedKept, NamedKept, UncrossedKept, InTimeKept DEF BackupsInv
<1> QED
  BY BackupsInvInit, <1>1, PTL DEF BackupsSpec

(***************************************************************************)
(* The files, the process and its threads keep their types: no torn file   *)
(* ever gets among the backups, and the settings stay within their bounds. *)
(***************************************************************************)
THEOREM BackupsTyped == BackupsSpec => []BackupsTypeOK
<1>1. BackupsInv => BackupsTypeOK
  BY DEF BackupsInv, Ordered
<1> QED
  BY <1>1, BackupsInvHolds, PTL

(***************************************************************************)
(* restore_database: whatever restores wrote over is in a backup made      *)
(* before, however many requests, starts, prunings and crashes went        *)
(* between, unless a commit or a backup of the same name came in the way.  *)
(***************************************************************************)
THEOREM ReplacedStaysKept == BackupsSpec => []ReplacedIsKeptUnlessCrossed
<1>1. BackupsInv => ReplacedIsKeptUnlessCrossed
  <2> SUFFICES ASSUME BackupsInv, ~crossed, NEW d \in replaced PROVE d \in Kept
    BY DEF ReplacedIsKeptUnlessCrossed, ReplacedIsKept
  <2>1. KeptByRestores
    BY DEF BackupsInv, Uncrossed
  <2> QED
    BY <2>1 DEF KeptByRestores, Kept
<1> QED
  BY <1>1, BackupsInvHolds, PTL

(***************************************************************************)
(* restore_database: a restore that nothing crossed ends with the database *)
(* that its user chose, and with an empty one over data only if he allowed *)
(* it, whatever the other threads did meanwhile.                           *)
(***************************************************************************)
THEOREM ChosenIsRestored == BackupsSpec => RestoresTheChosen
<1>1. ASSUME BackupsInv, [BackupsNext]_vars, NEW t \in Threads, Ends(t), ~crossed
      PROVE  /\ live' = jobs[t].chosen
             /\ jobs[t].allow_empty \/ HasData(live') \/ ~HasData(dir[jobs[t].name])
  <2>1. jobs[t].at = "copying" /\ jobs'[t] = Idle /\ boot'.at = "up" /\ BackupsTypeOK
    BY <1>1 DEF Ends, BackupsInv, Ordered
  <2>2. boot.at = "up" /\ jobs'[t].at = "idle"
    BY <1>1, <2>1 DEF BackupsInv, Ordered, Idle
  <2>3. CopyEnds(t)
    <3>1. CASE \E u \in Threads : Request(u)
      <4>1. PICK u \in Threads : Request(u)
        BY <3>1
      <4>2. u = t
        <5>1. ~GoesOn(t) /\ jobs'[t] # jobs[t]
          BY <2>1, <2>2 DEF GoesOn, RestoreJobs
        <5> QED
          BY <2>1, <4>1, <5>1, RequestJobs
      <4> QED
        BY <2>1, <4>1, <4>2 DEF Request, BackupNow, BackupFill, Restore, RestoreSaves,
           CopyTruncates, Work, WorkInCopy, SetEnabled, SetKeep, Begins, At
    <3>2. CASE Boot \/ Stop
      BY <2>1, <2>2, <3>2 DEF Boot, Start, AutoCreate, AutoFill, AutoPrune, Stop
    <3>3. CASE Tick \/ SetBack \/ UNCHANGED vars
      BY <2>1, <2>2, <3>3 DEF Tick, SetBack, vars
    <3> QED
      BY <1>1, <3>1, <3>2, <3>3 DEF BackupsNext
  <2>4. ~jobs[t].mixed /\ dir[jobs[t].source] = jobs[t].chosen /\ Allowed(t, dir[jobs[t].name])
    BY <1>1, <2>1 DEF BackupsInv, Uncrossed, RestoreRelies, Restoring
  <2>5. live' = jobs[t].chosen
    BY <2>3, <2>4 DEF CopyEnds
  <2> QED
    BY <2>4, <2>5 DEF Allowed
<1>2. BackupsInv /\ [BackupsNext]_vars =>
         [\A t \in Threads : Ends(t) /\ ~crossed =>
             /\ live' = jobs[t].chosen
             /\ jobs[t].allow_empty \/ HasData(live') \/ ~HasData(dir[jobs[t].name])]_vars
  BY <1>1
<1> QED
  BY <1>2, BackupsInvHolds, PTL DEF BackupsSpec, RestoresTheChosen

(***************************************************************************)
(* auto_backup: a start with the automatic backup on ends with a backup of *)
(* the database it found, which its own pruning does not remove, unless    *)
(* the clock went back or two starts fell in one second.                   *)
(***************************************************************************)
THEOREM StartLeavesBackup == BackupsSpec => BackedUpOnStart
<1>1. ASSUME BackupsInv, [BackupsNext]_vars, boot.at = "prunes", boot'.at = "up", ~misnamed
      PROVE  \E n \in DOMAIN dir' : n[1] = "auto_backup" /\ dir'[n] = live
  <2>1. BackupsTypeOK /\ InTime /\ live # Torn
    BY <1>1 DEF BackupsInv, Ordered
  <2>2. AutoPrune
    <3>1. ASSUME NEW t \in Threads, Request(t) PROVE FALSE
      BY <1>1, <3>1, RequestFiles DEF BackupsInv, Ordered
    <3>2. boot'.at # boot.at
      BY <1>1
    <3> QED
      BY <1>1, <3>1, <3>2 DEF BackupsNext, Boot, Start, AutoCreate, AutoFill, Stop, Tick, SetBack,
         vars
  <2>3. PICK n \in Autos : dir[n] = live /\ \A m \in Autos : m[2] <= n[2]
    BY <1>1, <2>1 DEF InTime
  <2>4. n \notin Stale("auto_backup")
    <3>1. {m \in DOMAIN dir : m[1] = "auto_backup" /\ m[2] > n[2]} = {}
      BY <2>1, <2>3, NameParts DEF Autos
    <3>2. live.keep >= 1
      BY <2>1, BackupsAssumption DEF BackupsTypeOK, Databases
    <3>3. Cardinality({m \in DOMAIN dir : m[1] = "auto_backup" /\ m[2] > n[2]}) = 0
      BY <3>1, FS_EmptySet
    <3>4. ~(0 >= live.keep)
      BY <2>1, <3>2, BackupsAssumption DEF BackupsTypeOK, Databases
    <3> QED
      BY <3>3, <3>4 DEF Stale
  <2>5. dir' = Without(dir, Stale("auto_backup"))
    BY <2>2 DEF AutoPrune
  <2> QED
    BY <2>3, <2>4, <2>5 DEF Without, Restrict, Autos
<1>2. BackupsInv /\ [BackupsNext]_vars =>
         [boot.at = "prunes" /\ boot'.at = "up" /\ ~misnamed =>
             \E n \in DOMAIN dir' : n[1] = "auto_backup" /\ dir'[n] = live]_boot
  BY <1>1
<1> QED
  BY <1>2, BackupsInvHolds, PTL DEF BackupsSpec, BackedUpOnStart

\* The names among these with a later second.
Later(names, n) == {m \in names : m[2] > n[2]}

\* Of at least k names of different seconds, exactly k have fewer than k later ones.
LEMMA TheLatest ==
    ASSUME NEW names, IsFiniteSet(names), NEW k \in Nat, k <= Cardinality(names),
           \A n \in names : n[2] \in Int,
           \A m, n \in names : m[2] = n[2] => m = n
    PROVE  Cardinality({n \in names : Cardinality(Later(names, n)) < k}) = k
<1> DEFINE count == Cardinality(names)
           rank == [n \in names |-> Cardinality(Later(names, n))]
           latest == {n \in names : Cardinality(Later(names, n)) < k}
           ranked == [n \in latest |-> rank[n]]
<1>0. count \in Nat
  BY FS_CardinalityType
<1>1. ASSUME NEW n \in names PROVE rank[n] \in 0 .. count - 1 /\ IsFiniteSet(Later(names, n))
  <2>1. Later(names, n) \in SUBSET (names \ {n})
    BY DEF Later
  <2>2. IsFiniteSet(names \ {n}) /\ Cardinality(names \ {n}) = count - 1
    BY FS_RemoveElement
  <2>3. /\ IsFiniteSet(Later(names, n)) /\ Cardinality(Later(names, n)) <= count - 1
        /\ Cardinality(Later(names, n)) \in Nat
    BY <2>1, <2>2, FS_Subset, FS_CardinalityType
  <2> QED
    BY <1>0, <2>3
<1>2. ASSUME NEW m \in names, NEW n \in names, m[2] < n[2] PROVE rank[n] < rank[m]
  <2>1. Later(names, n) \in SUBSET Later(names, m) /\ n \in Later(names, m) \ Later(names, n)
    BY <1>2 DEF Later
  <2>2. Cardinality(Later(names, n)) <= Cardinality(Later(names, m))
    BY <1>1, <2>1, FS_Subset
  <2>3. Cardinality(Later(names, n)) # Cardinality(Later(names, m))
    BY <1>1, <2>1, FS_Subset
  <2>4. Cardinality(Later(names, n)) \in Int /\ Cardinality(Later(names, m)) \in Int
    BY <1>1, FS_CardinalityType
  <2> QED
    BY <2>2, <2>3, <2>4
<1> HIDE DEF count
<1>3. rank \in Injection(names, 0 .. count - 1)
  <2>1. rank \in [names -> 0 .. count - 1]
    BY <1>1
  <2>2. ASSUME NEW m \in names, NEW n \in names, rank[m] = rank[n] PROVE m = n
    <3>1. ~(m[2] < n[2]) /\ ~(n[2] < m[2])
      <4>1. rank[m] \in Int /\ rank[n] \in Int
        BY <1>0, <1>1
      <4> HIDE DEF rank
      <4> QED
        BY <1>2, <2>2, <4>1
    <3> QED
      BY <3>1
  <2> HIDE DEF rank
  <2> QED
    BY <2>1, <2>2, Fun_IsInj
<1>4. IsFiniteSet(0 .. count - 1) /\ Cardinality(0 .. count - 1) = count
  BY <1>0, FS_Interval
<1>5. rank \in Surjection(names, 0 .. count - 1)
  <2> HIDE DEF rank
  <2> QED
    BY <1>3, <1>4, FS_Injection DEF count
<1>6. ranked \in Bijection(latest, 0 .. k - 1)
  <2>1. \A n \in latest : n \in names /\ rank[n] \in 0 .. k - 1
    <3>1. ASSUME NEW n \in latest PROVE n \in names /\ rank[n] < k /\ rank[n] \in Nat
      BY <1>0, <1>1
    <3> HIDE DEF rank, latest
    <3> QED
      BY <3>1
  <2>2. ASSUME NEW r \in 0 .. k - 1 PROVE \E n \in latest : rank[n] = r
    <3>1. r \in 0 .. count - 1
      BY <1>0 DEF count
    <3>2. PICK n \in names : rank[n] = r
      <4> HIDE DEF rank
      <4>1. \A i \in 0 .. count - 1 : \E n \in names : rank[n] = i
        BY <1>5 DEF Surjection
      <4> QED
        BY <3>1, <4>1
    <3> QED
      BY <3>2
  <2>3. \A m, n \in names : rank[m] = rank[n] => m = n
    <3> HIDE DEF rank
    <3> QED
      BY <1>3, Fun_InjectionProperties
  <2> HIDE DEF rank, latest
  <2>4. ranked \in [latest -> 0 .. k - 1]
    BY <2>1
  <2>5. \A m, n \in latest : ranked[m] = ranked[n] => m = n
    BY <2>1, <2>3
  <2>6. \A r \in 0 .. k - 1 : \E n \in latest : ranked[n] = r
    BY <2>2
  <2> HIDE DEF ranked
  <2> QED
    BY <2>4, <2>5, <2>6, Fun_IsBij
<1>7. IsFiniteSet(latest)
  BY FS_Subset
<1>8. Cardinality(0 .. k - 1) = Cardinality(latest)
  <2> HIDE DEF latest, ranked
  <2>1. ExistsBijection(latest, 0 .. k - 1)
    BY <1>6, Fun_ExistsBij
  <2> QED
    BY <1>7, <2>1, FS_Bijection
<1>9. Cardinality(0 .. k - 1) = k
  BY FS_Interval
<1> QED
  BY <1>8, <1>9

\* The names of the files are finitely many, and one for each prefix and second.
LEMMA AutosAreFinite ==
    ASSUME BackupsTypeOK
    PROVE  /\ IsFiniteSet(Autos)
           /\ \A n \in Autos : n[2] \in Int
           /\ \A m, n \in Autos : m[2] = n[2] => m = n
<1>1. \A m, n \in Autos : n[2] \in Int /\ (m[2] = n[2] => m = n)
  BY NameParts DEF Autos
<1>2. IsFiniteSet(0 .. MaxClock)
  BY BackupsAssumption, FS_Interval
<1> DEFINE f == [n \in Autos |-> n[2]]
<1>3. f \in [Autos -> 0 .. MaxClock]
  BY DEF Autos, BackupsTypeOK, IsTable, Names
<1>4. \A m, n \in Autos : f[m] = f[n] => m = n
  BY <1>1
<1> HIDE DEF f
<1>5. f \in Injection(Autos, 0 .. MaxClock)
  BY <1>3, <1>4, Fun_IsInj
<1>6. IsFiniteSet(Autos)
  BY <1>2, <1>5, FS_Injection
<1> QED
  BY <1>1, <1>6

(***************************************************************************)
(* prune_backups: of the backups only automatic ones ever disappear, and   *)
(* after each pruning there are exactly as many later automatic ones as    *)
(* the settings say, however they were named, made and pruned before.      *)
(***************************************************************************)
THEOREM OnlyOldArePruned == BackupsSpec => OnlyOldAutoPruned
<1>1. ASSUME BackupsInv, [BackupsNext]_vars, NEW n \in DOMAIN dir \ DOMAIN dir'
      PROVE  /\ n[1] = "auto_backup"
             /\ Cardinality({m \in DOMAIN dir' : m[1] = "auto_backup" /\ m[2] > n[2]})
                   = live.keep
  <2>1. BackupsTypeOK /\ Named /\ (boot.at = "prunes" => live # Torn)
    BY <1>1 DEF BackupsInv, Ordered
  <2>2. AutoPrune
    <3>1. ASSUME NEW t \in Threads, Request(t) PROVE FALSE
      BY <1>1, <2>1, <3>1, RequestFiles
    <3>2. DOMAIN dir' # DOMAIN dir
      OBVIOUS
    <3>3. ~AutoCreate /\ ~AutoFill
      <4>1. ASSUME NEW name, NEW file, dir' = Put(dir, name, file) PROVE FALSE
        BY <4>1 DEF Put, Upsert
      <4> QED
        BY <3>2, <4>1 DEF AutoCreate, AutoFill
    <3> QED
      BY <1>1, <3>1, <3>2, <3>3 DEF BackupsNext, Boot, Start, Stop, Tick, SetBack, vars
  <2> DEFINE k == live.keep
             latest == {m \in Autos : Cardinality(Later(Autos, m)) < k}
  <2>3. \A m \in DOMAIN dir :
           {x \in DOMAIN dir : x[1] = "auto_backup" /\ x[2] > m[2]} = Later(Autos, m)
    BY DEF Autos, Later
  <2>4. Stale("auto_backup") = {m \in Autos : Cardinality(Later(Autos, m)) >= k}
    BY <2>3 DEF Stale, Autos
  <2>5. DOMAIN dir' = DOMAIN dir \ Stale("auto_backup")
    BY <2>2 DEF AutoPrune, Without, Restrict
  <2>6. /\ IsFiniteSet(Autos) /\ \A m \in Autos : m[2] \in Int
        /\ \A m, x \in Autos : m[2] = x[2] => m = x
    BY <2>1, AutosAreFinite
  <2>7. k \in Nat
    BY <2>1, <2>2, BackupsAssumption DEF AutoPrune, BackupsTypeOK, Databases
  <2>8. n \in Autos /\ n[1] = "auto_backup" /\ Cardinality(Later(Autos, n)) >= k
    BY <2>4, <2>5 DEF Autos
  <2>9. ASSUME NEW m \in Autos
        PROVE  /\ IsFiniteSet(Later(Autos, m)) /\ Cardinality(Later(Autos, m)) \in Nat
               /\ Cardinality(Later(Autos, m)) <= Cardinality(Autos)
    BY <2>6, FS_Subset, FS_CardinalityType DEF Later
  <2>10. Cardinality(latest) = k
    <3>1. k <= Cardinality(Autos)
      BY <2>6, <2>7, <2>8, <2>9, FS_CardinalityType
    <3> HIDE DEF k
    <3> QED
      BY <2>6, <2>7, <3>1, TheLatest
  <2>11. \A m \in latest : m[2] > n[2]
    <3>1. SUFFICES ASSUME NEW m \in Autos, ~(m[2] > n[2])
                   PROVE  Cardinality(Later(Autos, m)) >= k
      BY <2>9, <2>7
    <3>2. Later(Autos, n) \in SUBSET Later(Autos, m)
      BY <2>6, <2>8, <3>1 DEF Later
    <3>3. Cardinality(Later(Autos, n)) <= Cardinality(Later(Autos, m))
      BY <2>9, <3>2, FS_Subset
    <3> QED
      BY <2>7, <2>8, <2>9, <3>3
  <2>12. {m \in DOMAIN dir' : m[1] = "auto_backup" /\ m[2] > n[2]} = latest
    <3>1. ASSUME NEW m
          PROVE  m \in DOMAIN dir' /\ m[1] = "auto_backup" <=> m \in latest
      BY <2>4, <2>5, <2>7, <2>9 DEF Autos
    <3> HIDE DEF latest
    <3> QED
      BY <2>11, <3>1
  <2> QED
    BY <2>8, <2>10, <2>12
<1>2. BackupsInv /\ [BackupsNext]_vars =>
         [\A n \in DOMAIN dir \ DOMAIN dir' :
             /\ n[1] = "auto_backup"
             /\ Cardinality({m \in DOMAIN dir' : m[1] = "auto_backup" /\ m[2] > n[2]})
                   = live.keep]_dir
  BY <1>1
<1> QED
  BY <1>2, BackupsInvHolds, PTL DEF BackupsSpec, OnlyOldAutoPruned
=============================================================================
