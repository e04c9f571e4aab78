----------------------------- MODULE Crossings ------------------------------
(***************************************************************************)
(* Saves with a history variable: which threads had another request commit *)
(* while they were between their first read and their write.  It says how  *)
(* far the threaded server may depart from Ledger, the handlers run one at *)
(* a time.                                                                 *)
(***************************************************************************)
EXTENDS Saves

VARIABLE crossed     \* thread -> another request committed during its handler

CrossingsInit == SavesInit /\ crossed = [t \in Threads |-> FALSE]

CrossingsNext ==
    /\ SavesNext
    /\ crossed' = [t \in Threads |->
                     /\ pc[t] # "idle" /\ pc'[t] # "idle"
                     /\ crossed[t] \/ tables' # tables]

CrossingsSpec == CrossingsInit /\ [][CrossingsNext]_<<saveVars, crossed>>

(***************************************************************************)
(* A commit is what Ledger does for its request, unless it ends a handler  *)
(* that another commit crossed: the checks of payments.py, settlement.py   *)
(* and workers.py go wrong in no other way.                                *)
(***************************************************************************)
SequentialUnlessCrossed ==
    [][\A t \in Threads : Writes(t) /\ ~crossed[t] => AtOnce(job[t])]_tables
=============================================================================
