------------------------------ MODULE Accounts ------------------------------
(***************************************************************************)
(* The users of the panel and their sessions: payroll/auth.py and the user *)
(* handlers of blueprints/settings.py, served in threads.                  *)
(*                                                                         *)
(* The session is a signed cookie: the server keeps nothing, a request     *)
(* carries the cookie its browser had when it was sent, and the response   *)
(* brings back the one the browser will have.  Cookies outlive a restart,  *)
(* because the signing key is kept on disk (config.py).                    *)
(*                                                                         *)
(* The whole table can be exchanged: an administrator restores a file, or  *)
(* a start imports an older installation's.  Cookies do not notice.        *)
(*                                                                         *)
(* Passwords are left out: a sign-in that names a user has the right one   *)
(* (a wrong one changes nothing), and user_password changes no more.  So   *)
(* are the records, which decide whether a start imports and may make      *)
(* restore_database refuse, and the time a copy takes (see Backups).       *)
(***************************************************************************)
EXTENDS Tables

CONSTANTS
    Users,          \* the ids of users
    Names,          \* user names
    DefaultName,    \* DEFAULT_ADMIN_USERNAME
    Browsers, Threads,
    None,
    Files,          \* the users tables of the files a restore or an import may bring
    Timeout,        \* session_timeout_minutes, which nobody changes
    MaxClock,       \* bound on the clock
    MaxFiles        \* bound on the exchanges of the table

ASSUME NameAssumption  == DefaultName \in Names
ASSUME ClockAssumption == Timeout \in Nat /\ MaxClock \in Nat /\ MaxFiles \in Nat
ASSUME NobodyAssumption == None \notin Users

VARIABLES
    user,       \* users: id -> name, role, active
    issued,     \* the ids given out in this table
    auto,       \* is its key AUTOINCREMENT, as in schema.sql, or that of an older file?
    files,      \* how often the table was exchanged (history)
    cookie,     \* browser -> its session: who signed in and when last active
    request,    \* thread -> the request it serves
    heard,      \* browser -> when a request of its was last let in (history)
    clock       \* time.time(), in the units of the time-out

table == <<user, issued, auto, files>>
vars  == <<table, cookie, request, heard, clock>>

Roles    == {"admin", "user"}
UserRow  == [name : Names, role : Roles, active : BOOLEAN]
Time     == 0 .. MaxClock

\* Two fields are not in the cookie: whose name signed in, and in which table.
Sessions == [user : Users, owner : Names, file : 0 .. MaxFiles, last : Time]

\* What is exchanged, and what a file brings.
IsFile(f) ==
    /\ f = [user |-> f.user, issued |-> f.issued, auto |-> f.auto]
    /\ IsTable(f.user, f.issued, UserRow) /\ f.issued \subseteq Users /\ f.auto \in BOOLEAN

ASSUME FileAssumption == \A f \in Files : IsFile(f)

Acts ==
    [op : {"page", "logout"}]
    \cup [op : {"login"}, name : Names]
    \cup [op : {"user_toggle", "user_delete"}, target : Users]
    \cup [op : {"user_create"}, name : Names, role : Roles]
    \cup [op : {"restore"}, file : Files]

\* A request on the server: its step, the session it will answer with, whether the
\* answer sets the cookie, the user it acts for (g.user), and is_active as read.
Requests ==
    [browser : Browsers, act : Acts, step : {"load", "read", "write", "respond"},
     session : Sessions \cup {None}, touched : BOOLEAN, actor : Users \cup {None}, found : BOOLEAN]

IsActive(u)    == u \in DOMAIN user /\ user[u].active
ActiveAdmin(u) == IsActive(u) /\ user[u].role = "admin"
-----------------------------------------------------------------------------
\* What if the id of a deleted user could be given out again.
UnusedIdsOfNoRow(f) == Users \ DOMAIN f.user

\* AUTOINCREMENT never gives an id twice; a plain INTEGER PRIMARY KEY, which CREATE TABLE
\* IF NOT EXISTS leaves in a file that has it, may give the id of a deleted row again.
UnusedIds(f) == Users \ IF f.auto THEN f.issued ELSE DOMAIN f.user

\* The table f with one more user.
WithUser(f, u, name, role) ==
    [user   |-> Put(f.user, u, [name |-> name, role |-> role, active |-> TRUE]),
     issued |-> f.issued \cup {u},
     auto   |-> f.auto]

\* _seed_defaults: the default administrator of a table without users.
Seeded(f) ==
    IF f.user = EmptyTable THEN {WithUser(f, u, DefaultName, "admin") : u \in UnusedIds(f)}
                           ELSE {f}

Current == [user |-> user, issued |-> issued, auto |-> auto]

Become(f) == user' = f.user /\ issued' = f.issued /\ auto' = f.auto

\* Another file's table takes the place of this one.
Exchange(f) == files < MaxFiles /\ files' = files + 1 /\ Become(f)

\* username is UNIQUE.
InsertUser(name, role) ==
    /\ \A u \in DOMAIN user : user[u].name # name
    /\ \E u \in UnusedIds(Current) : Become(WithUser(Current, u, name, role))
    /\ UNCHANGED files

\* The table of schema.sql, after its first start.
AccountsInit ==
    /\ \E f \in Seeded([user |-> EmptyTable, issued |-> {}, auto |-> TRUE]) :
          user = f.user /\ issued = f.issued /\ auto = f.auto
    /\ files = 0
    /\ cookie = [b \in Browsers |-> None]
    /\ request = [t \in Threads |-> None]
    /\ heard = [b \in Browsers |-> 0]
    /\ clock = 0
-----------------------------------------------------------------------------
\* A request leaves its browser with the cookie of that moment; what it asks for is not
\* looked at, and not chosen here, before the session is.
Send(t, b) ==
    /\ request[t] = None
    /\ request' = [request EXCEPT ![t] =
          [browser |-> b, act |-> [op |-> "page"], step |-> "load", session |-> cookie[b],
           touched |-> FALSE, actor |-> None, found |-> FALSE]]
    /\ UNCHANGED <<table, cookie, heard, clock>>

\* The response is on its way: of the request only the session it carries matters now.
Answer(r) ==
    [r EXCEPT !.step = "respond", !.act = [op |-> "page"], !.actor = None, !.found = FALSE]

\* What if one's own account were no exception.
MayAdministerAnybody(u, act) == ActiveAdmin(u)

AdminActs == {"user_toggle", "user_delete", "user_create", "restore"}

\* These handlers are for administrators, and two of them not for one's own account.
MayAdminister(u, act) ==
    /\ ActiveAdmin(u)
    /\ act.op \in {"user_toggle", "user_delete"} => act.target # u

\* The request goes on as the user u: what the view decides before any further read.
EnterAs(u, r) ==
    CASE r.act.op = "login" /\ u = None -> [r EXCEPT !.step = "read"]
      [] r.act.op = "logout"            -> Answer([r EXCEPT !.session = None, !.touched = TRUE])
      [] r.act.op \in AdminActs /\ MayAdminister(u, r.act)
                                        -> [r EXCEPT !.step = "read", !.actor = u]
      [] OTHER                          -> Answer(r)

\* What if last_active were renewed before it is compared.
NeverTooOld(s) == FALSE

TooOld(s) == clock - s.last > Timeout

\* A session that was not idle for too long, of an active user.
LetsIn(s) == s # None /\ ~TooOld(s) /\ IsActive(s.user)

(***************************************************************************)
(* load_logged_in_user, which runs before every view.  The page with the   *)
(* button that was pressed may have listed another table's users.          *)
(***************************************************************************)
LoadAccepted(t, act) ==
    LET r == request[t]
    IN  /\ r # None
        /\ r.step = "load"
        /\ LetsIn(r.session)
        /\ request' = [request EXCEPT ![t] =
              EnterAs(r.session.user,
                      [r EXCEPT !.act = act, !.session.last = clock, !.touched = TRUE])]
        /\ heard' = [heard EXCEPT ![r.browser] = clock]
        /\ UNCHANGED <<table, cookie, clock>>

\* There is no session, or one that is dropped: idle too long (answered at once, unless it
\* is for the sign-in page) or of a user who is gone or inactive.
LoadRefused(t, act) ==
    LET r       == request[t]
        idle    == r.session # None /\ TooOld(r.session)
        dropped == [r EXCEPT !.act = act, !.session = None, !.touched = r.session # None]
    IN  /\ r # None
        /\ r.step = "load"
        /\ ~LetsIn(r.session)
        /\ request' = [request EXCEPT ![t] =
              IF idle /\ act.op # "login" THEN Answer(dropped)
                                            ELSE EnterAs(None, dropped)]
        /\ UNCHANGED <<table, cookie, heard, clock>>
-----------------------------------------------------------------------------
\* The view's SELECT.
ReadLogin(t) ==
    LET r == request[t]
    IN  /\ r # None
        /\ r.step = "read" /\ r.act.op = "login"
        /\ \/ \E u \in DOMAIN user :
                 /\ user[u].name = r.act.name /\ user[u].active
                 /\ request' = [request EXCEPT ![t] =
                       Answer([r EXCEPT !.touched = TRUE,
                                        !.session = [user |-> u, owner |-> r.act.name,
                                                     file |-> files, last |-> clock]])]
                 /\ heard' = [heard EXCEPT ![r.browser] = clock]
           \/ /\ \A u \in DOMAIN user : user[u].name # r.act.name \/ ~user[u].active
              /\ request' = [request EXCEPT ![t] = Answer([r EXCEPT !.touched = TRUE])]
              /\ UNCHANGED heard
        /\ UNCHANGED <<table, cookie, clock>>

\* What the handler's SELECT must show for it to write.  What restore_database asks of a
\* file is about its records: see WriteNothing for its refusals.
ReadPasses(act) ==
    CASE act.op = "user_toggle" -> act.target \in DOMAIN user
      [] act.op = "user_delete" -> Cardinality(DOMAIN user) > 1
      [] act.op = "user_create" -> \A u \in DOMAIN user : user[u].name # act.name
      [] act.op = "restore"     -> TRUE

ReadUsers(t) ==
    LET r == request[t]
    IN  /\ r # None
        /\ r.step = "read" /\ r.act.op \in AdminActs
        /\ request' = [request EXCEPT ![t] =
              IF ReadPasses(r.act)
                THEN [r EXCEPT !.step = "write",
                               !.found = r.act.op = "user_toggle" /\ user[r.act.target].active]
                ELSE Answer(r)]
        /\ UNCHANGED <<table, cookie, heard, clock>>

\* The write: UPDATE and DELETE may find no row, INSERT may break UNIQUE.
ApplyWrite(r) ==
    CASE r.act.op = "user_toggle" ->
            /\ r.act.target \in DOMAIN user
            /\ user' = Put(user, r.act.target, [user[r.act.target] EXCEPT !.active = ~r.found])
            /\ UNCHANGED <<issued, auto, files>>
      [] r.act.op = "user_delete" ->
            /\ r.act.target \in DOMAIN user
            /\ user' = Without(user, {r.act.target})
            /\ UNCHANGED <<issued, auto, files>>
      [] r.act.op = "user_create" -> InsertUser(r.act.name, r.act.role)
      [] r.act.op = "restore"     -> Exchange(r.act.file)

Write(t) ==
    /\ request[t] # None
    /\ request[t].step = "write"
    /\ ApplyWrite(request[t])
    /\ request' = [request EXCEPT ![t] = Answer(request[t])]
    /\ UNCHANGED <<cookie, heard, clock>>

\* Nothing written: no such row, a name that is taken, a file that is refused, an error.
\* The response still carries the session.
WriteNothing(t) ==
    /\ request[t] # None
    /\ request[t].step = "write"
    /\ request' = [request EXCEPT ![t] = Answer(request[t])]
    /\ UNCHANGED <<table, cookie, heard, clock>>

Respond(t) ==
    LET r == request[t]
    IN  /\ r # None
        /\ r.step = "respond"
        /\ cookie' = IF r.touched THEN [cookie EXCEPT ![r.browser] = r.session] ELSE cookie
        /\ request' = [request EXCEPT ![t] = None]
        /\ UNCHANGED <<table, heard, clock>>

\* The browser went away, or the connection broke: the cookie stays what it was.
LoseResponse(t) ==
    /\ request[t] # None
    /\ request[t].step = "respond"
    /\ request' = [request EXCEPT ![t] = None]
    /\ UNCHANGED <<table, cookie, heard, clock>>

(***************************************************************************)
(* The program starts: this server once more, or a second program beside   *)
(* it.  bootstrap_database first exchanges a database without records for  *)
(* that of an older installation; init_db then seeds it.                   *)
(***************************************************************************)
Restart ==
    /\ request' \in {request, [t \in Threads |-> None]}
    /\ \/ (\E f \in Seeded(Current) : Become(f)) /\ UNCHANGED files
       \/ \E older \in Files : \E f \in Seeded(older) : Exchange(f)
    /\ UNCHANGED <<cookie, heard, clock>>

Tick ==
    /\ clock < MaxClock
    /\ clock' = clock + 1
    /\ UNCHANGED <<table, cookie, request, heard>>

AccountsNext ==
    \/ \E t \in Threads :
          \/ \E b \in Browsers : Send(t, b)
          \/ \E act \in Acts : LoadAccepted(t, act) \/ LoadRefused(t, act)
          \/ ReadLogin(t) \/ ReadUsers(t)
          \/ Write(t) \/ WriteNothing(t)
          \/ Respond(t) \/ LoseResponse(t)
    \/ Restart
    \/ Tick

AccountsSpec == AccountsInit /\ [][AccountsNext]_vars
-----------------------------------------------------------------------------
\* Users, cookies and requests are of their types.
AccountsTypeOK ==
    /\ IsFile(Current)
    /\ files \in 0 .. MaxFiles
    /\ cookie \in [Browsers -> Sessions \cup {None}]
    /\ request \in [Threads -> Requests \cup {None}]
    /\ heard \in [Browsers -> Time]
    /\ clock \in Time

\* Somebody can administer the panel.
AdminRemains == \E u \in DOMAIN user : ActiveAdmin(u)

(***************************************************************************)
(* Nothing counts the administrators, but whoever removes one is another:  *)
(* the last is lost only with the whole table, to a file that has none, or *)
(* to a request whose own actor was removed, or deactivated, after it was  *)
(* let in; to user requests one at a time, never.                          *)
(***************************************************************************)
LostOnlyToTheRemoved ==
    [][AdminRemains /\ ~AdminRemains' =>
          \/ files' # files
          \/ \E t \in Threads : /\ request[t] # None /\ request[t].step = "write"
                               /\ request'[t] # request[t]
                               /\ ~ActiveAdmin(request[t].actor)]_user

AllSessions ==
    {cookie[b] : b \in Browsers} \cup {request[t].session : t \in {x \in Threads : request[x] # None}}

(***************************************************************************)
(* As long as the table it was issued from is there and is one of          *)
(* schema.sql, a session is never taken for another user's: the id that a  *)
(* cookie or a request still holds is either gone or belongs to the name   *)
(* that signed in, whatever was deleted, created and started meanwhile.    *)
(* After a restore or an import it may mean anybody, and so it may in an   *)
(* older file's table, whose plain key gives a deleted user's id again.    *)
(***************************************************************************)
OwnSession ==
    auto => \A s \in AllSessions :
        s # None /\ s.file = files /\ s.user \in DOMAIN user => user[s.user].name = s.owner

\* A browser that the server has not let in for longer than the time-out must sign
\* in again, in whatever order its responses arrived and whatever was restored.
IdleLock ==
    [][\A b \in Browsers :
          /\ clock - heard[b] > Timeout
          /\ heard'[b] # heard[b]
          => \E t \in Threads : request[t] # None /\ request[t].browser = b /\ request[t].act.op = "login"]_heard
=============================================================================
