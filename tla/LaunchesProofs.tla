--------------------------- MODULE LaunchesProofs ---------------------------
(***************************************************************************)
(* What holds of the desktop program when any number of its processes are  *)
(* launched, in any order, beside other programs that take ports.          *)
(*                                                                         *)
(* A process that no other launch overlapped is the only busy one while it *)
(* prepares the database and until it serves: that is what makes its port  *)
(* its own, unless another program takes it, and its migration succeed,    *)
(* until the file is exchanged.  One that runs beside no other process at  *)
(* all copies the older file over nothing, whatever users deleted before.  *)
(***************************************************************************)
EXTENDS Launches, TLAPS

\* What holds of all processes, whether they overlap or not.
InOrder ==
    /\ LaunchesTypeOK
    /\ server \in [Processes -> {"none", "binds", "serves", "dead"}]
    /\ at \in [Processes -> Nat \ {0}]
    /\ missing \in [Processes -> SUBSET Columns]
    /\ \A p \in Processes :
          /\ pc[p] \notin {"wait", "window", "late"} => server[p] = "none"
          /\ pc[p] \in {"serve", "wait", "window", "late"} => port[p] \in Ports

\* While a process that no launch overlapped is busy, no other is.
AloneWhileBusy ==
    \A p, q \in Processes : "launch" \notin met[p] /\ Busy(p) /\ q # p => ~Busy(q)

\* A process that met no other is the only one.
OnlyProcess ==
    \A p, q \in Processes : "process" \notin met[p] /\ pc[p] # "off" /\ q # p => pc[q] = "off"

\* When such a process is about to copy the older file there are no records.
CopyOverNothing ==
    \A p \in Processes : "process" \notin met[p] /\ pc[p] = "copy" => records = {}

\* The port of a process that no launch overlapped and no other program disturbed is nobody
\* else's, and nobody is about to bind it.
OwnPort ==
    \A p \in Processes : met[p] \cap {"launch", "program"} = {}
                         /\ pc[p] \in {"serve", "wait", "window"} =>
        /\ listeners[port[p]] \subseteq {p}
        /\ pc[p] = "window" => p \in listeners[port[p]]
        /\ \A q \in Processes \ {p} :
              port[q] = port[p] => pc[q] # "serve" /\ server[q] # "binds"

\* The tables that migrate has been through in process p have their columns.
MigratedSoFar(p) ==
    /\ pc[p] # "crashed"
    /\ pc[p] \in {"decide", "copy", "schema"} => at[p] = 1
    /\ pc[p] \in {"look", "add"} => at[p] - 1 <= Len(Additions)
    /\ pc[p] = "look" => \A i \in 1 .. at[p] - 1 : Additions[i] \subseteq columns
    /\ pc[p] = "add" =>
          /\ \A i \in 1 .. at[p] - 1 : Additions[i] \subseteq columns \cup missing[p]
          /\ missing[p] \cap columns = {}
    /\ pc[p] \in {"pick", "serve", "wait", "window"} => columns = Columns

\* No launch overlapped it, and the file was not exchanged under it.
Undisturbed(p) == met[p] \cap {"launch", "file"} = {}

\* That is so of every such process.
Migrated == \A p \in Processes : Undisturbed(p) => MigratedSoFar(p)

LaunchesInv ==
    InOrder /\ AloneWhileBusy /\ OnlyProcess /\ CopyOverNothing /\ OwnPort /\ Migrated
-----------------------------------------------------------------------------
\* What is met is kept, and those who meet something know it.
LEMMA MeetKeeps ==
    ASSUME met \in [Processes -> SUBSET Meetings], NEW S, NEW m \in Meetings, Meet(S, m)
    PROVE  /\ met' \in [Processes -> SUBSET Meetings]
           /\ \A q \in Processes : met[q] \subseteq met'[q] /\ (q \in S => m \in met'[q])
BY DEF Meet

\* A launch and every process that runs meet one another, and overlap when that one is busy.
LEMMA LaunchMeets ==
    ASSUME met \in [Processes -> SUBSET Meetings], NEW p \in Processes, Launch(p)
    PROVE  /\ met' \in [Processes -> SUBSET Meetings]
           /\ \A q \in Processes \ {p} :
                 /\ met[q] \subseteq met'[q]
                 /\ pc[q] # "off" => "process" \in met'[q] \cap met'[p]
                 /\ pc[q] # "off" /\ Busy(q) => "launch" \in met'[q] \cap met'[p]
<1> DEFINE M == UNION {MetBy(r) : r \in Others(p)}
<1>1. \A q : MetBy(q) \subseteq Meetings /\ "process" \in MetBy(q)
               /\ (Busy(q) => "launch" \in MetBy(q))
  BY DEF MetBy, Meetings
<1>2. \A q \in Others(p) : MetBy(q) \subseteq M
  OBVIOUS
<1>3. M \subseteq Meetings
  BY <1>1
<1> HIDE DEF M
<1>4. met' = [q \in Processes |->
                IF q = p THEN M ELSE met[q] \cup IF q \in Others(p) THEN MetBy(q) ELSE {}]
  BY DEF Launch, M
<1>5. ASSUME NEW q \in Processes PROVE met'[q] \subseteq Meetings
  BY <1>1, <1>3, <1>4
<1>6. ASSUME NEW q \in Processes \ {p}
      PROVE  /\ met[q] \subseteq met'[q]
             /\ pc[q] # "off" => "process" \in met'[q] \cap met'[p]
             /\ pc[q] # "off" /\ Busy(q) => "launch" \in met'[q] \cap met'[p]
  <2>1. met'[q] = met[q] \cup (IF q \in Others(p) THEN MetBy(q) ELSE {}) /\ met'[p] = M
    BY <1>4
  <2>2. pc[q] # "off" => q \in Others(p)
    BY DEF Others
  <2> QED
    BY <1>1, <1>2, <2>1, <2>2
<1>7. met' \in [Processes -> SUBSET Meetings]
  BY <1>4, <1>5
<1> QED
  BY <1>6, <1>7

\* Whatever the processes do, their steps, threads, ports and listeners fit together.
LEMMA InOrderKept == InOrder /\ [LaunchesNext]_vars => InOrder'
<1> SUFFICES ASSUME InOrder, [LaunchesNext]_vars PROVE InOrder'
  OBVIOUS
<1> USE DEF InOrder, LaunchesTypeOK, network, database, Go, Steps
<1>1. ASSUME NEW p \in Processes, Launch(p) PROVE InOrder'
  <2>1. met' \in [Processes -> SUBSET Meetings]
    BY <1>1, LaunchMeets
  <2> QED
    BY <1>1, <2>1 DEF Launch
<1>2. ASSUME NEW p \in Processes, Decide(p) PROVE InOrder'
  BY <1>2 DEF Decide
<1>3. ASSUME NEW p \in Processes, Copy(p) PROVE InOrder'
  <2>1. met' \in [Processes -> SUBSET Meetings]
    BY <1>3, MeetKeeps DEF Copy, Meetings
  <2>2. /\ pc[p] = "copy" /\ pc' = [pc EXCEPT ![p] = "schema"]
        /\ columns' = {} /\ records' = {"legacy"}
        /\ UNCHANGED <<server, port, listeners, at, missing>>
    BY <1>3 DEF Copy
  <2> QED
    BY <2>1, <2>2
<1>4. ASSUME NEW p \in Processes, Schema(p) PROVE InOrder'
  BY <1>4 DEF Schema
<1>5. ASSUME NEW p \in Processes, Look(p) PROVE InOrder'
  <2>1. CASE at[p] > Len(Additions)
    <3>1. pc[p] = "look" /\ pc' = [pc EXCEPT ![p] = "pick"] /\ UNCHANGED <<at, missing>>
      BY <1>5, <2>1 DEF Look
    <3> QED
      BY <1>5, <3>1 DEF Look
  <2>2. CASE ~(at[p] > Len(Additions))
    <3>1. at[p] \in DOMAIN Additions
      BY <2>2, LaunchesAssumption
    <3>2. Additions[at[p]] \subseteq Columns
      BY <3>1, LaunchesAssumption
    <3>3. /\ pc[p] = "look" /\ pc' = [pc EXCEPT ![p] = "add"]
          /\ missing' = [missing EXCEPT ![p] = Additions[at[p]] \ columns]
          /\ at' = [at EXCEPT ![p] = @ + 1]
      BY <1>5, <2>2 DEF Look
    <3>4. missing' \in [Processes -> SUBSET Columns] /\ at' \in [Processes -> Nat \ {0}]
      BY <3>2, <3>3
    <3>5. UNCHANGED <<server, port, listeners, columns, records, met>>
      BY <1>5 DEF Look
    <3> QED
      BY <3>3, <3>4, <3>5
  <2> QED
    BY <2>1, <2>2
<1>6. ASSUME NEW p \in Processes, Add(p) PROVE InOrder'
  <2>1. CASE missing[p] = {}
    BY <1>6, <2>1 DEF Add
  <2>2. CASE missing[p] # {}
    <3>1. PICK c \in missing[p] :
             /\ missing' = [missing EXCEPT ![p] = @ \ {c}]
             /\ columns' = columns \cup {c}
             /\ IF c \in columns THEN Go(p, "crashed") ELSE UNCHANGED pc
      BY <1>6, <2>2 DEF Add
    <3> QED
      BY <1>6, <3>1 DEF Add
  <2> QED
    BY <2>1, <2>2
<1>7. ASSUME NEW p \in Processes, Pick(p) PROVE InOrder'
  BY <1>7 DEF Pick
<1>8. ASSUME NEW p \in Processes, Serve(p) PROVE InOrder'
  BY <1>8 DEF Serve
<1>9. ASSUME NEW p \in Processes, Wait(p) PROVE InOrder'
  BY <1>9 DEF Wait
<1>10. ASSUME NEW p \in Processes, Bind(p) PROVE InOrder'
  BY <1>10 DEF Bind
<1>11. ASSUME NEW p \in Processes, End(p) PROVE InOrder'
  BY <1>11, LaunchesAssumption DEF End
<1>12. ASSUME NEW p \in Processes, Work(p) PROVE InOrder'
  BY <1>12 DEF Work
<1>15. ASSUME NEW p \in Processes, Restore(p) PROVE InOrder'
  <2>1. met' \in [Processes -> SUBSET Meetings]
    BY <1>15, MeetKeeps DEF Restore, Meetings
  <2> QED
    BY <1>15, <2>1 DEF Restore
<1>13. ASSUME ForeignBinds PROVE InOrder'
  <2>1. met' \in [Processes -> SUBSET Meetings]
    BY <1>13, MeetKeeps DEF ForeignBinds, Meetings
  <2> QED
    BY <1>13, <2>1, LaunchesAssumption DEF ForeignBinds
<1>14. CASE UNCHANGED vars
  BY <1>14 DEF vars
<1> QED
  BY <1>1, <1>2, <1>3, <1>4, <1>5, <1>6, <1>7, <1>8, <1>9, <1>10, <1>11, <1>12, <1>13, <1>14, <1>15
     DEF LaunchesNext, Prepare, Open

\* A launch that begins while another is busy is met by it, and meets it.
LEMMA AloneKept == InOrder /\ AloneWhileBusy /\ [LaunchesNext]_vars => AloneWhileBusy'
<1> SUFFICES ASSUME InOrder, AloneWhileBusy, [LaunchesNext]_vars PROVE AloneWhileBusy'
  OBVIOUS
<1> USE DEF InOrder, LaunchesTypeOK, network, database, Go, Steps, AloneWhileBusy, Busy
<1>1. ASSUME NEW p \in Processes, Launch(p) PROVE AloneWhileBusy'
  <2> SUFFICES ASSUME NEW r \in Processes, NEW q \in Processes, q # r,
                      "launch" \notin met'[r], Busy(r)', Busy(q)'
               PROVE  FALSE
    BY DEF AloneWhileBusy
  <2>1. \A x \in Processes \ {p} : Busy(x)' => Busy(x) /\ pc[x] # "off"
    BY <1>1 DEF Launch
  <2>2. \A x \in Processes \ {p} :
          met[x] \subseteq met'[x] /\ (Busy(x)' => "launch" \in met'[x] \cap met'[p])
    BY <1>1, <2>1, LaunchMeets
  <2> HIDE DEF Busy
  <2> QED
    BY <2>2
<1>2. ASSUME NEW p \in Processes, Decide(p) PROVE AloneWhileBusy'
  BY <1>2 DEF Decide
<1>3. ASSUME NEW p \in Processes, Copy(p) PROVE AloneWhileBusy'
  <2>1. \A q \in Processes : met[q] \subseteq met'[q]
    BY <1>3, MeetKeeps DEF Copy, Meetings
  <2> QED
    BY <1>3, <2>1 DEF Copy
<1>4. ASSUME NEW p \in Processes, Schema(p) PROVE AloneWhileBusy'
  BY <1>4 DEF Schema
<1>5. ASSUME NEW p \in Processes, Look(p) PROVE AloneWhileBusy'
  <2>1. pc[p] = "look" /\ (pc' = [pc EXCEPT ![p] = "pick"] \/ pc' = [pc EXCEPT ![p] = "add"])
    BY <1>5 DEF Look
  <2>2. server' = server /\ met' = met
    BY <1>5 DEF Look
  <2>3. \A q \in Processes : pc'[q] \notin {"off", "window"} => pc[q] \notin {"off", "window"}
    BY <2>1
  <2> QED
    BY <2>2, <2>3
<1>6. ASSUME NEW p \in Processes, Add(p) PROVE AloneWhileBusy'
  BY <1>6 DEF Add
<1>7. ASSUME NEW p \in Processes, Pick(p) PROVE AloneWhileBusy'
  BY <1>7 DEF Pick
<1>8. ASSUME NEW p \in Processes, Serve(p) PROVE AloneWhileBusy'
  BY <1>8 DEF Serve
<1>9. ASSUME NEW p \in Processes, Wait(p) PROVE AloneWhileBusy'
  BY <1>9 DEF Wait
<1>10. ASSUME NEW p \in Processes, Bind(p) PROVE AloneWhileBusy'
  BY <1>10 DEF Bind
<1>11. ASSUME NEW p \in Processes, End(p) PROVE AloneWhileBusy'
  BY <1>11 DEF End
<1>12. ASSUME NEW p \in Processes, Work(p) PROVE AloneWhileBusy'
  BY <1>12 DEF Work
<1>15. ASSUME NEW p \in Processes, Restore(p) PROVE AloneWhileBusy'
  <2>1. \A q \in Processes : met[q] \subseteq met'[q]
    BY <1>15, MeetKeeps DEF Restore, Meetings
  <2> QED
    BY <1>15, <2>1 DEF Restore
<1>13. ASSUME ForeignBinds PROVE AloneWhileBusy'
  <2>1. \A q \in Processes : met[q] \subseteq met'[q]
    BY <1>13, MeetKeeps DEF ForeignBinds, Meetings
  <2> QED
    BY <1>13, <2>1 DEF ForeignBinds
<1>14. CASE UNCHANGED vars
  BY <1>14 DEF vars
<1> QED
  BY <1>1, <1>2, <1>3, <1>4, <1>5, <1>6, <1>7, <1>8, <1>9, <1>10, <1>11, <1>12, <1>13, <1>14, <1>15
     DEF LaunchesNext, Prepare, Open

\* A process that no launch has met is the only one, whatever the others did before.
LEMMA OnlyKept == InOrder /\ OnlyProcess /\ [LaunchesNext]_vars => OnlyProcess'
<1> SUFFICES ASSUME InOrder, OnlyProcess, [LaunchesNext]_vars PROVE OnlyProcess'
  OBVIOUS
<1>1. ASSUME NEW p \in Processes, Launch(p) PROVE OnlyProcess'
  <2> SUFFICES ASSUME NEW r \in Processes, NEW q \in Processes, q # r,
                      "process" \notin met'[r], pc'[r] # "off", pc'[q] # "off"
               PROVE  FALSE
    BY DEF OnlyProcess
  <2>1. \A x \in Processes \ {p} : pc'[x] = pc[x]
    BY <1>1 DEF Launch, Go, InOrder, LaunchesTypeOK
  <2>2. \A x \in Processes \ {p} : pc[x] # "off" => "process" \in met'[x] \cap met'[p]
    BY <1>1, LaunchMeets DEF InOrder, LaunchesTypeOK
  <2>3. \A x \in Processes \ {p} : met[x] \subseteq met'[x]
    BY <1>1, LaunchMeets DEF InOrder, LaunchesTypeOK
  <2> QED
    BY <2>1, <2>2, <2>3 DEF OnlyProcess
<1>2. ASSUME NEW p \in Processes, Prepare(p) \/ Open(p) \/ Bind(p) \/ End(p) \/ Work(p) \/ Restore(p)
      PROVE  OnlyProcess'
  <2>1. \A q \in Processes : pc'[q] # "off" => pc[q] # "off" /\ met[q] \subseteq met'[q]
    <3> USE DEF InOrder, LaunchesTypeOK, Go, Steps
    <3>1. CASE Copy(p) \/ Restore(p)
      <4>1. \A q \in Processes : met[q] \subseteq met'[q]
        BY <3>1, MeetKeeps DEF Copy, Restore, Meetings
      <4> QED
        BY <3>1, <4>1 DEF Copy, Restore
    <3>2. CASE End(p)
      BY <3>2 DEF End
    <3>3. CASE Decide(p) \/ Schema(p) \/ Look(p)
      BY <3>3 DEF Decide, Schema, Look
    <3>4. CASE Add(p)
      BY <3>4 DEF Add
    <3>5. CASE Open(p) \/ Bind(p) \/ Work(p)
      BY <3>5 DEF Open, Pick, Serve, Wait, Bind, Work
    <3> QED
      BY <1>2, <3>1, <3>2, <3>3, <3>4, <3>5 DEF Prepare
  <2> QED
    BY <2>1 DEF OnlyProcess
<1>3. ASSUME ForeignBinds PROVE OnlyProcess'
  <2>1. pc' = pc /\ \A q \in Processes : met[q] \subseteq met'[q]
    BY <1>3, MeetKeeps DEF ForeignBinds, Meetings, InOrder, LaunchesTypeOK
  <2> QED
    BY <2>1 DEF OnlyProcess
<1>4. CASE UNCHANGED vars
  BY <1>4 DEF vars, OnlyProcess
<1> QED
  BY <1>1, <1>2, <1>3, <1>4 DEF LaunchesNext

\* What such a process has counted stays: there is nobody to save anything.
LEMMA CopyKept ==
    InOrder /\ OnlyProcess /\ CopyOverNothing /\ [LaunchesNext]_vars => CopyOverNothing'
<1> SUFFICES ASSUME InOrder, OnlyProcess, CopyOverNothing, [LaunchesNext]_vars,
                    NEW r \in Processes, "process" \notin met'[r], pc'[r] = "copy"
             PROVE  records' = {}
  BY DEF CopyOverNothing
<1> USE DEF InOrder, LaunchesTypeOK, network, database, Go, Steps
<1>1. ASSUME NEW p \in Processes, Launch(p) PROVE records' = {}
  <2>1. r # p /\ pc[r] = "copy" /\ met[r] \subseteq met'[r]
    BY <1>1, LaunchMeets DEF Launch
  <2> QED
    BY <1>1, <2>1 DEF Launch, CopyOverNothing
<1>2. ASSUME NEW p \in Processes, Decide(p) PROVE records' = {}
  BY <1>2 DEF Decide, CopyOverNothing
<1>3. ASSUME NEW p \in Processes, Copy(p) \/ Work(p) \/ Restore(p) PROVE records' = {}
  <2>1. r # p /\ pc[r] = "copy" /\ pc[p] # "off"
    BY <1>3 DEF Copy, Work, Restore, Served
  <2>2. met[r] \subseteq met'[r]
    BY <1>3, MeetKeeps DEF Copy, Work, Restore, Meetings
  <2> QED
    BY <2>1, <2>2 DEF OnlyProcess
<1>4. ASSUME NEW p \in Processes, Schema(p) \/ Look(p) PROVE records' = {}
  <2>1. UNCHANGED <<records, met>> /\ pc[r] = "copy"
    <3>1. CASE Schema(p)
      BY <3>1 DEF Schema
    <3>2. CASE Look(p)
      BY <3>2 DEF Look
    <3> QED
      BY <1>4, <3>1, <3>2
  <2> QED
    BY <2>1 DEF CopyOverNothing
<1>5. ASSUME NEW p \in Processes, Add(p) PROVE records' = {}
  BY <1>5 DEF Add, CopyOverNothing
<1>6. ASSUME NEW p \in Processes, Open(p) \/ Bind(p) \/ End(p) PROVE records' = {}
  <2>1. records' = records /\ pc[r] = "copy" /\ met'[r] = met[r]
    <3>1. CASE End(p)
      BY <3>1 DEF End
    <3>2. CASE Bind(p)
      BY <3>2 DEF Bind
    <3>3. CASE Open(p)
      BY <3>3 DEF Open, Pick, Serve, Wait
    <3> QED
      BY <1>6, <3>1, <3>2, <3>3
  <2> QED
    BY <2>1 DEF CopyOverNothing
<1>7. ASSUME ForeignBinds PROVE records' = {}
  <2>1. UNCHANGED <<pc, records>> /\ \A q \in Processes : met[q] \subseteq met'[q]
    BY <1>7, MeetKeeps DEF ForeignBinds, Meetings
  <2> QED
    BY <2>1 DEF CopyOverNothing
<1>8. CASE UNCHANGED vars
  BY <1>8 DEF vars, CopyOverNothing
<1> QED
  BY <1>1, <1>2, <1>3, <1>4, <1>5, <1>6, <1>7, <1>8 DEF LaunchesNext, Prepare

\* Nobody comes to listen on the port of a process that none met.
LEMMA OwnPortKept == InOrder /\ AloneWhileBusy /\ OwnPort /\ [LaunchesNext]_vars => OwnPort'
<1> SUFFICES ASSUME InOrder, AloneWhileBusy, OwnPort, [LaunchesNext]_vars PROVE OwnPort'
  OBVIOUS
<1> USE DEF InOrder, LaunchesTypeOK, network, database, Go, Steps, AloneWhileBusy, Busy, OwnPort
<1>1. ASSUME NEW p \in Processes, Launch(p) PROVE OwnPort'
  <2>1. \A q \in Processes \ {p} : met[q] \subseteq met'[q]
    BY <1>1, LaunchMeets
  <2> QED
    BY <1>1, <2>1 DEF Launch
<1>2. ASSUME NEW p \in Processes, Decide(p) PROVE OwnPort'
  BY <1>2 DEF Decide
<1>3. ASSUME NEW p \in Processes, Copy(p) PROVE OwnPort'
  <2>1. \A q \in Processes : met[q] \subseteq met'[q]
    BY <1>3, MeetKeeps DEF Copy, Meetings
  <2> QED
    BY <1>3, <2>1 DEF Copy
<1>4. ASSUME NEW p \in Processes, Schema(p) PROVE OwnPort'
  BY <1>4 DEF Schema
<1>5. ASSUME NEW p \in Processes, Look(p) PROVE OwnPort'
  BY <1>5, SMTT(60) DEF Look
<1>6. ASSUME NEW p \in Processes, Add(p) PROVE OwnPort'
  BY <1>6 DEF Add
<1>7. ASSUME NEW p \in Processes, Pick(p) PROVE OwnPort'
  BY <1>7 DEF Pick
<1>8. ASSUME NEW p \in Processes, Serve(p) PROVE OwnPort'
  BY <1>8 DEF Serve
<1>9. ASSUME NEW p \in Processes, Wait(p) PROVE OwnPort'
  BY <1>9 DEF Wait
<1>10. ASSUME NEW p \in Processes, Bind(p) PROVE OwnPort'
  BY <1>10 DEF Bind
<1>11. ASSUME NEW p \in Processes, End(p) PROVE OwnPort'
  BY <1>11 DEF End
<1>12. ASSUME NEW p \in Processes, Work(p) PROVE OwnPort'
  BY <1>12 DEF Work
<1>15. ASSUME NEW p \in Processes, Restore(p) PROVE OwnPort'
  <2>1. \A q \in Processes : met[q] \subseteq met'[q]
    BY <1>15, MeetKeeps DEF Restore, Meetings
  <2> QED
    BY <1>15, <2>1 DEF Restore
<1>13. ASSUME ForeignBinds PROVE OwnPort'
  <2>1. PICK q \in Ports :
           /\ listeners' = [listeners EXCEPT ![q] = {Foreign}]
           /\ Meet({p \in Processes : port[p] = q}, "program")
    BY <1>13, ZenonT(60) DEF ForeignBinds
  <2>2. \A p \in Processes : met[p] \subseteq met'[p] /\ (port[p] = q => "program" \in met'[p])
    BY <2>1, MeetKeeps DEF Meetings
  <2>3. ASSUME NEW p \in Processes, met'[p] \cap {"launch", "program"} = {},
               pc[p] \in {"serve", "wait", "window"}
        PROVE  /\ met[p] \cap {"launch", "program"} = {}
               /\ port[p] \in Ports /\ listeners'[port[p]] = listeners[port[p]]
    BY <2>1, <2>2, <2>3
  <2> QED
    BY <1>13, <2>3, SMTT(60) DEF ForeignBinds
<1>14. CASE UNCHANGED vars
  BY <1>14 DEF vars
<1> QED
  BY <1>1, <1>2, <1>3, <1>4, <1>5, <1>6, <1>7, <1>8, <1>9, <1>10, <1>11, <1>12, <1>13, <1>14, <1>15
     DEF LaunchesNext, Prepare, Open

\* The columns of the tables that migrate has been through stay: only a busy process could
\* take them away or add one that is about to be added.
LEMMA MigratedKept ==
    InOrder /\ AloneWhileBusy /\ Migrated /\ [LaunchesNext]_vars => Migrated'
<1> SUFFICES ASSUME InOrder, AloneWhileBusy, Migrated, [LaunchesNext]_vars PROVE Migrated'
  OBVIOUS
<1> USE DEF InOrder, LaunchesTypeOK, network, database, Go, Steps
<1>1. ASSUME NEW p \in Processes, Launch(p) PROVE Migrated'
  <2>1. \A q \in Processes \ {p} : met[q] \subseteq met'[q]
    BY <1>1, LaunchMeets
  <2> QED
    BY <1>1, <2>1 DEF Launch, Migrated, Undisturbed, MigratedSoFar
<1>2. ASSUME NEW p \in Processes, Decide(p) PROVE Migrated'
  BY <1>2 DEF Decide, Migrated, Undisturbed, MigratedSoFar
<1>3. ASSUME NEW p \in Processes, Copy(p) PROVE Migrated'
  <2>1. /\ \A q \in Processes : met[q] \subseteq met'[q]
        /\ \A q \in Processes \ {p} : pc[q] # "off" => "file" \in met'[q]
    BY <1>3, MeetKeeps DEF Copy, Meetings, Others
  <2>2. ASSUME NEW q \in Processes \ {p}, Undisturbed(q)' PROVE MigratedSoFar(q)'
    <3>1. pc[q] = "off" /\ pc'[q] = "off"
      BY <1>3, <2>1, <2>2 DEF Copy, Undisturbed
    <3> QED
      BY <3>1 DEF MigratedSoFar
  <2>3. ASSUME Undisturbed(p)' PROVE MigratedSoFar(p)'
    <3>1. pc[p] = "copy" /\ pc'[p] = "schema" /\ at' = at
      BY <1>3 DEF Copy
    <3>2. Undisturbed(p)
      BY <2>1, <2>3 DEF Undisturbed
    <3>3. at[p] = 1
      BY <3>1, <3>2 DEF Migrated, MigratedSoFar
    <3> QED
      BY <3>1, <3>3 DEF MigratedSoFar
  <2> QED
    BY <2>2, <2>3 DEF Migrated
<1>4. ASSUME NEW p \in Processes, Schema(p) PROVE Migrated'
  <2>1. /\ pc[p] = "schema" /\ pc' = [pc EXCEPT ![p] = "look"]
        /\ columns' = (IF tables THEN columns ELSE Columns)
        /\ UNCHANGED <<at, missing, met>>
    BY <1>4 DEF Schema
  <2>2. ASSUME Undisturbed(p) PROVE MigratedSoFar(p)'
    <3>1. at[p] = 1 /\ pc'[p] = "look"
      BY <2>1, <2>2 DEF Migrated, MigratedSoFar
    <3>2. 1 .. at'[p] - 1 = {} /\ at'[p] - 1 <= Len(Additions)
      BY <2>1, <3>1, LaunchesAssumption
    <3> QED
      BY <3>1, <3>2 DEF MigratedSoFar
  <2>3. ASSUME NEW q \in Processes \ {p}, Undisturbed(q) PROVE MigratedSoFar(q)'
    <3>1. pc[q] \in {"off", "window"} /\ pc'[q] = pc[q] /\ at'[q] = at[q]
      BY <2>1, <2>3 DEF AloneWhileBusy, Undisturbed, Busy
    <3>2. pc[q] = "window" => columns' = Columns
      BY <2>1, <2>3 DEF Migrated, MigratedSoFar
    <3> QED
      BY <3>1, <3>2 DEF MigratedSoFar
  <2> QED
    BY <2>1, <2>2, <2>3 DEF Migrated, Undisturbed
<1>5. ASSUME NEW p \in Processes, Look(p) PROVE Migrated'
  <2>1. pc[p] = "look" /\ columns' = columns /\ met' = met
    BY <1>5 DEF Look
  <2>2. ASSUME NEW q \in Processes \ {p}, Undisturbed(q) PROVE MigratedSoFar(q)'
    <3>1. pc'[q] = pc[q] /\ at'[q] = at[q] /\ missing'[q] = missing[q]
      BY <1>5 DEF Look
    <3> QED
      BY <2>1, <2>2, <3>1 DEF Migrated, MigratedSoFar
  <2>3. ASSUME Undisturbed(p) PROVE MigratedSoFar(p)'
    <3> DEFINE n == at[p]
    <3>1. /\ \A i \in 1 .. n - 1 : Additions[i] \subseteq columns
          /\ n - 1 <= Len(Additions)
      BY <2>1, <2>3 DEF Migrated, MigratedSoFar
    <3>2. CASE n > Len(Additions)
      <4>1. pc'[p] = "pick"
        BY <1>5, <3>2 DEF Look
      <4>2. 1 .. n - 1 = DOMAIN Additions
        BY <3>1, <3>2, LaunchesAssumption
      <4>3. Columns \subseteq columns
        BY <3>1, <4>2 DEF Columns, ToSet
      <4> QED
        BY <2>1, <4>1, <4>3 DEF MigratedSoFar
    <3>3. CASE ~(n > Len(Additions))
      <4>1. /\ pc'[p] = "add" /\ at'[p] = n + 1
            /\ missing'[p] = Additions[n] \ columns
        BY <1>5, <3>3 DEF Look
      <4>2. at'[p] - 1 <= Len(Additions) /\ 1 .. at'[p] - 1 = (1 .. n - 1) \cup {n}
        BY <3>3, <4>1, LaunchesAssumption
      <4>3. \A i \in 1 .. at'[p] - 1 : Additions[i] \subseteq columns \cup missing'[p]
        BY <3>1, <4>1, <4>2
      <4> QED
        BY <2>1, <4>1, <4>2, <4>3 DEF MigratedSoFar
    <3> QED
      BY <3>2, <3>3
  <2> QED
    BY <2>1, <2>2, <2>3 DEF Migrated, Undisturbed
<1>6. ASSUME NEW p \in Processes, Add(p) PROVE Migrated'
  <2>1. pc[p] = "add" /\ met' = met /\ at' = at
    BY <1>6 DEF Add
  <2>2. ASSUME NEW q \in Processes \ {p}, Undisturbed(q) PROVE MigratedSoFar(q)'
    <3>1. pc[q] \in {"off", "window"} /\ pc'[q] = pc[q]
      BY <1>6, <2>1, <2>2 DEF Add, AloneWhileBusy, Undisturbed, Busy
    <3>2. columns \subseteq columns' /\ columns' \subseteq Columns
      BY <1>6 DEF Add
    <3>3. pc[q] = "window" => columns = Columns
      BY <2>2 DEF Migrated, MigratedSoFar
    <3>4. pc[q] = "window" => columns' = Columns
      BY ONLY <3>2, <3>3
    <3> QED
      BY <3>1, <3>4 DEF MigratedSoFar
  <2>3. ASSUME Undisturbed(p) PROVE MigratedSoFar(p)'
    <3>1. /\ \A i \in 1 .. at[p] - 1 : Additions[i] \subseteq columns \cup missing[p]
          /\ missing[p] \cap columns = {}
          /\ at[p] - 1 <= Len(Additions)
      BY <2>1, <2>3 DEF Migrated, MigratedSoFar
    <3>2. CASE missing[p] = {}
      <4>1. pc'[p] = "look" /\ columns' = columns
        BY <1>6, <3>2 DEF Add
      <4> QED
        BY <2>1, <3>1, <3>2, <4>1 DEF MigratedSoFar
    <3>3. CASE missing[p] # {}
      <4>1. PICK c \in missing[p] :
               /\ missing' = [missing EXCEPT ![p] = @ \ {c}]
               /\ columns' = columns \cup {c}
               /\ IF c \in columns THEN Go(p, "crashed") ELSE UNCHANGED pc
        BY <1>6, <3>3 DEF Add
      <4>2. pc'[p] = "add" /\ missing'[p] = missing[p] \ {c}
        BY <2>1, <3>1, <4>1
      <4>3. /\ columns' \cup missing'[p] = columns \cup missing[p]
            /\ missing'[p] \cap columns' = {}
        BY <3>1, <4>1, <4>2
      <4> QED
        BY <2>1, <3>1, <4>2, <4>3 DEF MigratedSoFar
    <3> QED
      BY <3>2, <3>3
  <2> QED
    BY <2>1, <2>2, <2>3 DEF Migrated, Undisturbed
<1>7. ASSUME NEW p \in Processes, Pick(p) PROVE Migrated'
  BY <1>7 DEF Pick, Migrated, Undisturbed, MigratedSoFar
<1>8. ASSUME NEW p \in Processes, Serve(p) PROVE Migrated'
  BY <1>8 DEF Serve, Migrated, Undisturbed, MigratedSoFar
<1>9. ASSUME NEW p \in Processes, Wait(p) PROVE Migrated'
  BY <1>9 DEF Wait, Migrated, Undisturbed, MigratedSoFar
<1>10. ASSUME NEW p \in Processes, Bind(p) PROVE Migrated'
  BY <1>10 DEF Bind, Migrated, Undisturbed, MigratedSoFar
<1>11. ASSUME NEW p \in Processes, End(p) PROVE Migrated'
  BY <1>11 DEF End, Migrated, Undisturbed, MigratedSoFar
<1>12. ASSUME NEW p \in Processes, Work(p) PROVE Migrated'
  BY <1>12 DEF Work, Migrated, Undisturbed, MigratedSoFar
<1>15. ASSUME NEW p \in Processes, Restore(p) PROVE Migrated'
  <2>1. \A q \in Processes : pc[q] # "off" => "file" \in met'[q]
    BY <1>15, MeetKeeps DEF Restore, Meetings, Others
  <2>2. UNCHANGED <<pc, at>> /\ \A q \in Processes : met[q] \subseteq met'[q]
    BY <1>15, MeetKeeps DEF Restore, Meetings
  <2> QED
    BY <2>1, <2>2 DEF Migrated, Undisturbed, MigratedSoFar
<1>13. ASSUME ForeignBinds PROVE Migrated'
  <2>1. \A q \in Processes : met[q] \subseteq met'[q]
    BY <1>13, MeetKeeps DEF ForeignBinds, Meetings
  <2>2. UNCHANGED <<pc, at, missing, columns>>
    BY <1>13 DEF ForeignBinds
  <2> QED
    BY <2>1, <2>2 DEF Migrated, Undisturbed, MigratedSoFar
<1>14. CASE UNCHANGED vars
  BY <1>14 DEF vars, Migrated, Undisturbed, MigratedSoFar
<1> QED
  BY <1>1, <1>2, <1>3, <1>4, <1>5, <1>6, <1>7, <1>8, <1>9, <1>10, <1>11, <1>12, <1>13, <1>14, <1>15
     DEF LaunchesNext, Prepare, Open
-----------------------------------------------------------------------------
\* The invariant holds at first and at every step.
LEMMA LaunchesInvHolds == LaunchesSpec => []LaunchesInv
<1>1. LaunchesInit => LaunchesInv
  <2> SUFFICES ASSUME LaunchesInit PROVE LaunchesInv
    OBVIOUS
  <2> USE DEF LaunchesInit
  <2>1. InOrder
    BY LaunchesAssumption DEF InOrder, LaunchesTypeOK, Steps
  <2>2. AloneWhileBusy /\ OnlyProcess /\ CopyOverNothing /\ OwnPort
    BY DEF AloneWhileBusy, Busy, OnlyProcess, CopyOverNothing, OwnPort
  <2>3. Migrated
    BY DEF Migrated, MigratedSoFar
  <2> QED
    BY <2>1, <2>2, <2>3 DEF LaunchesInv
<1>2. LaunchesInv /\ [LaunchesNext]_vars => LaunchesInv'
  BY InOrderKept, AloneKept, OnlyKept, CopyKept, OwnPortKept, MigratedKept DEF LaunchesInv
<1> QED
  BY <1>1, <1>2, PTL DEF LaunchesSpec

\* Processes, ports and the database are of their types, and who listens is who serves.
THEOREM LaunchesTyped == LaunchesSpec => []LaunchesTypeOK
<1>1. LaunchesInv => LaunchesTypeOK
  BY DEF LaunchesInv, InOrder
<1> QED
  BY <1>1, LaunchesInvHolds, PTL

\* The window of a launch that no other one overlapped is served by that launch and by
\* nobody else until another program takes its port, for any number of launches.
THEOREM WindowIsOwn == LaunchesSpec => []OwnWindow
<1>1. LaunchesInv => OwnWindow
  BY DEF LaunchesInv, OwnPort, OwnWindow
<1> QED
  BY <1>1, LaunchesInvHolds, PTL

\* Such a launch never fails over the database, and serves it with all its columns until a
\* user or a later launch exchanges the file, for any columns that migrate may add.
THEOREM LoneLaunchMigrates == LaunchesSpec => []LoneMigration
<1>1. LaunchesInv => LoneMigration
  BY DEF LaunchesInv, Migrated, Undisturbed, MigratedSoFar, LoneMigration
<1> QED
  BY <1>1, LaunchesInvHolds, PTL

\* bootstrap_database: but for what users delete and restore, records vanish only in a copy
\* by a process that ran beside another one, with any number of processes.
THEOREM LaunchKeepsRecords == LaunchesSpec => RecordsStay
<1>1. LaunchesInv /\ [LaunchesNext]_vars
        => [\/ records \subseteq records'
            \/ \E p \in Processes :
                  \/ Work(p) \/ Restore(p)
                  \/ pc[p] = "copy" /\ pc'[p] # "copy" /\ "process" \in met[p]]_records
  <2> SUFFICES ASSUME LaunchesInv, LaunchesNext, records' # records,
                      ~\E p \in Processes : Work(p) \/ Restore(p)
               PROVE  \/ records \subseteq records'
                      \/ \E p \in Processes :
                            pc[p] = "copy" /\ pc'[p] # "copy" /\ "process" \in met[p]
    BY DEF vars
  <2>1. PICK p \in Processes : Copy(p)
    BY DEF LaunchesNext, Prepare, Open, Launch, Decide, Schema, Look, Add, Pick, Serve, Wait, Bind,
           End, ForeignBinds, database
  <2>2. pc[p] = "copy" /\ pc'[p] = "schema"
    BY <2>1 DEF Copy, Go, LaunchesInv, InOrder, LaunchesTypeOK
  <2>3. "process" \notin met[p] => records = {}
    BY <2>2 DEF LaunchesInv, CopyOverNothing
  <2> QED
    BY <2>2, <2>3
<1> QED
  BY <1>1, LaunchesInvHolds, PTL DEF LaunchesSpec, RecordsStay
=============================================================================
