-------------------------------- MODULE Saves --------------------------------
(***************************************************************************)
(* Requests with the save of a project taken apart (_save_project): one    *)
(* statement for the project, one for the worker rows that go, one for     *)
(* each that comes, and the commit.                                        *)
(*                                                                         *)
(* The first statement of a connection opens a transaction and takes the   *)
(* write lock: until it ends nobody else writes, everybody reads what was  *)
(* last committed, and the statements work on the connection's own view    *)
(* of the tables.  The transaction is undone when a statement fails, when  *)
(* the connection is closed without a commit (db.close_db) and when the    *)
(* process dies.  Every other handler of Requests writes one statement.    *)
(***************************************************************************)
EXTENDS Requests

CONSTANT NoDraft

VARIABLE draft     \* the open transaction of a save, NoDraft when there is none

saveVars == <<vars, draft>>

Locked    == draft # NoDraft
Saving(t) == Locked /\ draft.thread = t

SavesInit == RequestsInit /\ draft = NoDraft
-----------------------------------------------------------------------------
\* INSERT INTO projects: a thread that serves the form of a new project.
InsertProjectRow(t, form) ==
    /\ pc[t] = "idle" /\ ~Locked /\ FormValid(form)
    /\ \E p \in Projects \ issued :
          draft' = [thread |-> t, id |-> p, form |-> form, new |-> TRUE, next |-> "insert",
                    project |-> Put(project, p, FormProject(form)), share |-> share,
                    issued |-> issued \cup {p}, left |-> DOMAIN form.rows]
    /\ UNCHANGED vars

\* What if it were committed at once.
UpdateProjectRowCommitted(t) ==
    LET p    == job[t].project
        form == job[t].form
        rows == IF p \in DOMAIN project THEN Put(project, p, FormProject(form)) ELSE project
    IN  /\ pc[t] = "write" /\ job[t].op = "projects.edit" /\ ~Locked
        /\ draft' = [thread |-> t, id |-> p, form |-> form, new |-> FALSE, next |-> "delete",
                     project |-> rows, share |-> share, issued |-> issued,
                     left |-> DOMAIN form.rows]
        /\ project' = rows
        /\ UNCHANGED <<worker, share, payment, expense, receipt, issued, threadVars>>

\* UPDATE projects: it matches no row when the project is gone.
UpdateProjectRow(t) ==
    LET p    == job[t].project
        form == job[t].form
    IN  /\ pc[t] = "write" /\ job[t].op = "projects.edit" /\ ~Locked
        /\ draft' = [thread |-> t, id |-> p, form |-> form, new |-> FALSE, next |-> "delete",
                     project |-> IF p \in DOMAIN project THEN Put(project, p, FormProject(form))
                                                         ELSE project,
                     share |-> share, issued |-> issued, left |-> DOMAIN form.rows]
        /\ UNCHANGED vars

\* DELETE FROM project_workers, of this project.
DeleteWorkerRows(t) ==
    /\ Saving(t) /\ draft.next = "delete"
    /\ draft' = [draft EXCEPT
                   !.share = Without(@, {r \in DOMAIN @ : r[1] = draft.id}), !.next = "insert"]
    /\ UNCHANGED vars

\* INSERT INTO project_workers of one ticked worker; both its foreign keys are checked.
InsertWorkerRow(t, w) ==
    /\ Saving(t) /\ draft.next = "insert" /\ w \in draft.left
    /\ w \in DOMAIN worker /\ draft.id \in DOMAIN draft.project
    /\ draft' = [draft EXCEPT
                   !.share = Put(@, <<draft.id, w>>, FormShares(draft.form)[w]),
                   !.left = @ \ {w}]
    /\ UNCHANGED vars

\* The request ends, if it is one that looked up what it works on.
Answered(t) == IF pc[t] = "idle" THEN UNCHANGED threadVars ELSE Answer(t)

\* The view of the connection becomes everybody's.
CommitSave(t) ==
    /\ Saving(t) /\ draft.next = "insert" /\ draft.left = {}
    /\ project' = draft.project /\ share' = draft.share /\ issued' = draft.issued
    /\ UNCHANGED <<worker, payment, expense, receipt>>
    /\ draft' = NoDraft /\ Answered(t)

\* What if a connection that is closed committed what it had done.
UndoSaveCommits(t) ==
    /\ Saving(t)
    /\ project' = draft.project /\ share' = draft.share /\ issued' = draft.issued
    /\ UNCHANGED <<worker, payment, expense, receipt>>
    /\ draft' = NoDraft /\ Answered(t)

\* A statement fails, the connection is closed or the process dies before the commit.
UndoSave(t) ==
    /\ Saving(t)
    /\ draft' = NoDraft /\ Answered(t)
    /\ UNCHANGED tables

SaveStep(t) ==
    \/ \E form \in Forms : InsertProjectRow(t, form)
    \/ UpdateProjectRow(t) \/ DeleteWorkerRows(t)
    \/ \E w \in Workers : InsertWorkerRow(t, w)
    \/ CommitSave(t) \/ UndoSave(t)
-----------------------------------------------------------------------------
\* What a thread does without the write lock, whoever has it.
ReadingStep(t) ==
    /\ ~Saving(t)
    /\ \/ \E j \in Jobs : Arrive(t, j)
       \/ LoadPayment(t) \/ LookUp(t) \/ ReadShare(t) \/ ReadPaid(t) \/ Fail(t)
    /\ UNCHANGED draft

\* A transaction of one statement.
WritingStep(t) ==
    /\ ~Locked
    /\ \/ job[t] # None /\ job[t].op # "projects.edit" /\ Write(t)
       \/ pc[t] = "idle" /\ OneStatementHandler /\ UNCHANGED threadVars
    /\ UNCHANGED draft

SavesNext == \E t \in Threads : ReadingStep(t) \/ WritingStep(t) \/ SaveStep(t)

SavesSpec == SavesInit /\ [][SavesNext]_saveVars
-----------------------------------------------------------------------------
\* However the statements of the saves fall between the reads and commits of the other
\* threads, and wherever a save stops: each is done in one moment or not at all.
RequestsImplemented == RequestsSpec
=============================================================================
