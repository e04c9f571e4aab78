------------------------------ MODULE Launches ------------------------------
(***************************************************************************)
(* The desktop program started more than once (desktop.py): main builds    *)
(* the application, which prepares the shared database (create_app, here   *)
(* only what two processes can do to each other), picks a port, serves on  *)
(* it from a daemon thread, waits for the port to answer and opens its     *)
(* window on it.                                                           *)
(*                                                                         *)
(* Startup has the same preparation of one process in full, with crashes.  *)
(***************************************************************************)
EXTENDS Integers, Sequences, FiniteSets, SequencesExt

CONSTANTS
    Processes,
    Foreign,        \* another program of this computer that listens on ports
    Preferred,      \* port 5000
    Ephemeral,      \* the ports the system gives out
    NoPort,
    PortsShared,    \* may a second program bind a port that is listened on (Windows)?
    Additions       \* migrate's columns, table by table

Ports   == Ephemeral \cup {Preferred}
Columns == UNION ToSet(Additions)

ASSUME LaunchesAssumption ==
    /\ Foreign \notin Processes /\ NoPort \notin Ports /\ Preferred \notin Ephemeral
    /\ PortsShared \in BOOLEAN /\ Additions \in Seq(SUBSET Columns)

VARIABLES
    pc,         \* what the main thread of a process does next; "off" when there is none
    server,     \* its daemon thread: "none", "binds", "serves" or "dead"
    port,       \* the port it picked
    listeners,  \* port -> the programs that listen on it
    tables,     \* does the database have the tables of the first version?
    columns,    \* the later columns it has
    records,    \* those in it: "entered", and "legacy" for those of the older installation
    legacy,     \* is there an older installation with records?
    at, missing,    \* migrate's table, and the columns it did not find in it
    met         \* what of the others a process has met since its launch (history)

vars == <<pc, server, port, listeners, tables, columns, records, legacy, at, missing, met>>

database == <<tables, columns, records>>
network  == <<server, port, listeners>>

Steps == {"off", "decide", "copy", "schema", "look", "add", "pick", "serve", "wait",
          "window", "crashed", "late"}

\* A launch that overlaps, any other process of this program, another program that takes
\* the picked port, an exchange of the database file.
Meetings == {"launch", "process", "program", "file"}

Go(p, step) == pc' = [pc EXCEPT ![p] = step]

\* Every process of S meets m.
Meet(S, m) == met' = [q \in Processes |-> IF q \in S THEN met[q] \cup {m} ELSE met[q]]

Others(p) == {q \in Processes \ {p} : pc[q] # "off"}

\* The system never runs out of ports to give out.
PortsLeft(ls) == Cardinality({q \in Ephemeral : Foreign \notin ls[q]}) >= Cardinality(Processes)

LaunchesInit ==
    /\ pc = [p \in Processes |-> "off"]
    /\ server = [p \in Processes |-> "none"]
    /\ port = [p \in Processes |-> NoPort]
    /\ listeners \in [Ports -> {{}, {Foreign}}]
    /\ PortsLeft(listeners)
    /\ tables \in BOOLEAN
    /\ columns \in IF tables THEN {{}, Columns} ELSE {{}}
    /\ records \in IF tables THEN {{}, {"entered"}} ELSE {{}}
    /\ legacy \in BOOLEAN
    /\ at = [p \in Processes |-> 1]
    /\ missing = [p \in Processes |-> {}]
    /\ met = [p \in Processes |-> {}]

\* On its way, or with a daemon thread that has yet to bind its port.
Busy(q) == pc[q] \notin {"off", "window"} \/ server[q] = "binds"

\* What a launch and the others that run meet in one another: two overlap when the second
\* begins before the first has its window and knows whether it can serve it, or has ended.
MetBy(q) == {"process"} \cup IF Busy(q) THEN {"launch"} ELSE {}

Launch(p) ==
    /\ pc[p] = "off"
    /\ Go(p, "decide")
    /\ met' = [q \in Processes |->
                 IF q = p THEN UNION {MetBy(r) : r \in Others(p)}
                          ELSE met[q] \cup IF q \in Others(p) THEN MetBy(q) ELSE {}]
    /\ at' = [at EXCEPT ![p] = 1]
    /\ UNCHANGED <<network, database, legacy, missing>>
-----------------------------------------------------------------------------
\* What if the database were not asked for its records.
DecideUnasked(p) ==
    /\ pc[p] = "decide"
    /\ Go(p, IF legacy THEN "copy" ELSE "schema")
    /\ UNCHANGED <<network, database, legacy, at, missing, met>>

\* bootstrap_database: count the records, then copy the older file over one without any.
Decide(p) ==
    /\ pc[p] = "decide"
    /\ Go(p, IF records = {} /\ legacy THEN "copy" ELSE "schema")
    /\ UNCHANGED <<network, database, legacy, at, missing, met>>

Copy(p) ==
    /\ pc[p] = "copy"
    /\ tables' = TRUE /\ columns' = {} /\ records' = {"legacy"}
    /\ Go(p, "schema")
    /\ Meet(Others(p), "file")
    /\ UNCHANGED <<network, legacy, at, missing>>

\* init_db: new tables have all columns.
Schema(p) ==
    /\ pc[p] = "schema"
    /\ tables' = TRUE /\ columns' = IF tables THEN columns ELSE Columns
    /\ Go(p, "look")
    /\ UNCHANGED <<network, records, legacy, at, missing, met>>

\* migrate: _table_columns of the next table.
Look(p) ==
    /\ pc[p] = "look"
    /\ IF at[p] > Len(Additions)
         THEN Go(p, "pick") /\ UNCHANGED <<at, missing>>
         ELSE /\ missing' = [missing EXCEPT ![p] = Additions[at[p]] \ columns]
              /\ at' = [at EXCEPT ![p] = @ + 1]
              /\ Go(p, "add")
    /\ UNCHANGED <<network, database, legacy, met>>

\* What if the process went on with the next table after adding one column.
AddFirst(p) ==
    /\ pc[p] = "add"
    /\ IF missing[p] = {}
         THEN UNCHANGED <<columns, missing>>
         ELSE \E c \in missing[p] : /\ columns' = columns \cup {c}
                                    /\ missing' = [missing EXCEPT ![p] = {}]
    /\ Go(p, "look")
    /\ UNCHANGED <<network, tables, records, legacy, at, met>>

\* ALTER TABLE ADD COLUMN, one by one: "duplicate column name" ends create_app.
Add(p) ==
    /\ pc[p] = "add"
    /\ IF missing[p] = {}
         THEN Go(p, "look") /\ UNCHANGED <<columns, missing>>
         ELSE \E c \in missing[p] :
                /\ missing' = [missing EXCEPT ![p] = @ \ {c}]
                /\ columns' = columns \cup {c}
                /\ IF c \in columns THEN Go(p, "crashed") ELSE UNCHANGED pc
    /\ UNCHANGED <<network, tables, records, legacy, at, met>>
-----------------------------------------------------------------------------
\* What if the preferred port were taken without trying it.
PickPreferred(p) ==
    /\ pc[p] = "pick"
    /\ port' = [port EXCEPT ![p] = Preferred]
    /\ Go(p, "serve")
    /\ UNCHANGED <<server, listeners, database, legacy, at, missing, met>>

\* pick_port: the preferred one if nothing answers there, or one the system has free.
Pick(p) ==
    /\ pc[p] = "pick"
    /\ \E q \in Ports :
          /\ listeners[q] = {}
          /\ (q = Preferred) = (listeners[Preferred] = {})
          /\ port' = [port EXCEPT ![p] = q]
    /\ Go(p, "serve")
    /\ UNCHANGED <<server, listeners, database, legacy, at, missing, met>>

\* start_server
Serve(p) ==
    /\ pc[p] = "serve"
    /\ server' = [server EXCEPT ![p] = "binds"]
    /\ Go(p, "wait")
    /\ UNCHANGED <<port, listeners, database, legacy, at, missing, met>>

\* app.run in the daemon thread: when the port cannot be bound only the thread ends.
Bind(p) ==
    /\ server[p] = "binds"
    /\ \/ /\ listeners[port[p]] = {} \/ PortsShared
          /\ listeners' = [listeners EXCEPT ![port[p]] = @ \cup {p}]
          /\ server' = [server EXCEPT ![p] = "serves"]
       \/ /\ listeners[port[p]] # {}
          /\ server' = [server EXCEPT ![p] = "dead"]
          /\ UNCHANGED listeners
    /\ UNCHANGED <<pc, port, database, legacy, at, missing, met>>

\* What if the wait had no deadline.
WaitForever(p) ==
    /\ pc[p] = "wait" /\ listeners[port[p]] # {}
    /\ Go(p, "window")
    /\ UNCHANGED <<network, database, legacy, at, missing, met>>

\* wait_until_up: somebody answers on the port, or 20 seconds pass.
Wait(p) ==
    /\ pc[p] = "wait"
    /\ Go(p, IF listeners[port[p]] # {} THEN "window" ELSE "late")
    /\ UNCHANGED <<network, database, legacy, at, missing, met>>

\* The window is closed, or run reports the error: the process ends and its thread with it.
End(p) ==
    /\ pc[p] \in {"window", "crashed", "late"}
    /\ Go(p, "off")
    /\ server' = [server EXCEPT ![p] = "none"]
    /\ port' = [port EXCEPT ![p] = NoPort]
    /\ listeners' = [q \in Ports |-> listeners[q] \ {p}]
    /\ missing' = [missing EXCEPT ![p] = {}]
    /\ met' = [met EXCEPT ![p] = {}]
    /\ UNCHANGED <<database, legacy, at>>

\* A window is of use as long as one of these programs answers in it.
Served(p) == pc[p] = "window" /\ listeners[port[p]] \cap Processes # {}

\* The user of a window saves, and deletes, records.
Work(p) ==
    /\ Served(p)
    /\ records' \in SUBSET (records \cup {"entered"})
    /\ UNCHANGED <<pc, network, tables, columns, legacy, at, missing, met>>

\* Or restores a file: of this version or an older one, with other records or without any.
Restore(p) ==
    /\ Served(p)
    /\ tables' = TRUE /\ columns' \in {{}, Columns} /\ records' \in {{}, {"entered"}}
    /\ Meet(Others(p) \cup {p}, "file")
    /\ UNCHANGED <<pc, network, legacy, at, missing>>

\* Another program takes a port, perhaps one that was just found free.
ForeignBinds ==
    /\ \E q \in Ports :
          /\ listeners[q] = {}
          /\ listeners' = [listeners EXCEPT ![q] = {Foreign}]
          /\ Meet({p \in Processes : port[p] = q}, "program")
    /\ PortsLeft(listeners')
    /\ UNCHANGED <<pc, server, port, database, legacy, at, missing>>

Prepare(p) == Decide(p) \/ Copy(p) \/ Schema(p) \/ Look(p) \/ Add(p)
Open(p)    == Pick(p) \/ Serve(p) \/ Wait(p)

LaunchesNext ==
    \/ \E p \in Processes :
          Launch(p) \/ Prepare(p) \/ Open(p) \/ Bind(p) \/ End(p) \/ Work(p)
          \/ Restore(p)
    \/ ForeignBinds

\* A thread of a process goes on; only its user decides when to launch, work and close.
LaunchesSpec ==
    /\ LaunchesInit /\ [][LaunchesNext]_vars
    /\ \A p \in Processes : WF_vars(Prepare(p)) /\ WF_vars(Open(p)) /\ WF_vars(Bind(p))
-----------------------------------------------------------------------------
\* Processes, ports and the database are of their types, and who listens is who serves.
LaunchesTypeOK ==
    /\ pc \in [Processes -> Steps]
    /\ port \in [Processes -> Ports \cup {NoPort}]
    /\ listeners \in [Ports -> SUBSET (Processes \cup {Foreign})]
    /\ \A p \in Processes, q \in Ports : p \in listeners[q] <=> server[p] = "serves" /\ port[p] = q
    /\ columns \subseteq Columns /\ records \subseteq {"entered", "legacy"}
    /\ met \in [Processes -> SUBSET Meetings]

(***************************************************************************)
(* A launch that no other one overlapped opens its own window, unless      *)
(* another program takes the port it picked: the one of an earlier launch  *)
(* never answers in it, and closing that one does not leave it without a   *)
(* server.                                                                 *)
(***************************************************************************)
OwnWindow ==
    \A p \in Processes : pc[p] = "window" /\ met[p] \cap {"launch", "program"} = {} =>
        listeners[port[p]] = {p}

(***************************************************************************)
(* It never fails over the database, and its window shows one with all the *)
(* columns until the file is exchanged: by a user who restores another     *)
(* one, or, once users deleted all records, by a later launch that imports *)
(* the older installation's.                                               *)
(***************************************************************************)
LoneMigration ==
    \A p \in Processes : met[p] \cap {"launch", "file"} = {} =>
       pc[p] # "crashed" /\ (pc[p] \in {"pick", "serve", "wait", "window"} => columns = Columns)

(***************************************************************************)
(* db.py:155 "real data is never overwritten", by a start that is the only *)
(* process of this program: apart from what users delete and restore,      *)
(* records vanish only when an older file is copied by a process that ran  *)
(* beside another, which saved after the records were counted.             *)
(***************************************************************************)
RecordsStay ==
    [][\/ records \subseteq records'
       \/ \E p \in Processes : \/ Work(p) \/ Restore(p)
                               \/ pc[p] = "copy" /\ pc'[p] # "copy" /\ "process" \in met[p]]_records

\* Every launch comes to a window or to an error message.
LaunchEnds ==
    \A p \in Processes : pc[p] = "decide" ~> pc[p] \in {"window", "crashed", "late"}
=============================================================================
