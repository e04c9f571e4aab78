--------------------------- MODULE AccountsProofs ---------------------------
(***************************************************************************)
(* As long as its table stays, a session never becomes another user's; the *)
(* last administrator is lost only with the table, or to a request whose   *)
(* own actor was removed meanwhile; and who was silent for too long must   *)
(* sign in again: for any number of users, browsers, threads and files,    *)
(* any time-out and any clock.                                             *)
(*                                                                         *)
(* OwnSession is not inductive: an id that is in no row now might be given *)
(* out again, and a session might be from a table yet to come.  The        *)
(* invariant adds that the id of a session of this table has been issued   *)
(* (and is therefore never issued again), that none is of a later table,   *)
(* and that a request that writes is one of the four that do.  The two     *)
(* action properties need more: a request about to write never targets its *)
(* actor, and no session, in a cookie or under way, is fresher than the    *)
(* time its browser was heard.                                             *)
(***************************************************************************)
EXTENDS Accounts, DataTheorems

\* A session of the table t, the n-th, has a taken id, and while that is in the table it
\* belongs to the owner.
OwnedIn(s, t, ids, a, n) ==
    s # None => /\ s.file <= n
                /\ s.file = n => /\ s.user \in ids
                                 /\ a /\ s.user \in DOMAIN t => t[s.user].name = s.owner

Owned(s) == OwnedIn(s, user, issued, auto, files)

\* Every cookie and the session of every request mean their owner, or nobody.
SessionsOwned ==
    /\ \A b \in Browsers : Owned(cookie[b])
    /\ \A t \in Threads : request[t] # None => Owned(request[t].session)

\* Only the operations of an administrator get to a write.
WritersWrite ==
    \A t \in Threads : request[t] # None /\ request[t].step = "write" =>
        request[t].act.op \in AdminActs

\* The inductive invariant.
Inv == AccountsTypeOK /\ SessionsOwned /\ WritersWrite

\* The users are a table under issued ids.
UsersType ==
    /\ IsTable(user, issued, UserRow) /\ issued \subseteq Users /\ auto \in BOOLEAN
    /\ files \in 0 .. MaxFiles

\* What no step does to a table of schema.sql: give an issued id to somebody else.
NamesKept ==
    \/ /\ files' = files /\ auto' = auto /\ issued \subseteq issued'
       /\ auto => \A u \in issued : u \in DOMAIN user' =>
                     u \in DOMAIN user /\ user'[u].name = user[u].name
    \/ files' = files + 1

\* Whoever is about to switch or delete a user is another one.
OtherThanSelf(r) ==
    r.step \in {"read", "write"} /\ r.act.op \in {"user_toggle", "user_delete"} =>
        r.act.target # r.actor

NeverOneself == \A t \in Threads : request[t] # None => OtherThanSelf(request[t])

\* A session was last active no later than at the time h.
LastBy(s, h) == s # None => s.last <= h

\* No session is fresher than the last time its browser was let in.
LastIsHeard ==
    /\ \A b \in Browsers : heard[b] <= clock /\ LastBy(cookie[b], heard[b])
    /\ \A t \in Threads :
          request[t] # None => LastBy(request[t].session, heard[request[t].browser])

\* What the two action properties rest on.
SoundInv == Inv /\ NeverOneself /\ LastIsHeard

-----------------------------------------------------------------------------
\* What a form that creates a user carries.
LEMMA CreateAct ==
    ASSUME NEW a \in Acts, a.op = "user_create"
    PROVE  a.name \in Names /\ a.role \in Roles
BY DEF Acts

\* What a file brings, part by part.
LEMMA FileParts ==
    ASSUME NEW t, NEW ids, NEW a
    PROVE  IsFile([user |-> t, issued |-> ids, auto |-> a])
             <=> IsTable(t, ids, UserRow) /\ ids \subseteq Users /\ a \in BOOLEAN
BY DEF IsFile

\* The users are such a file.
LEMMA UsersAreFile == ASSUME UsersType PROVE IsFile(Current)
BY FileParts DEF UsersType, Current

\* One more user leaves a table of users.
LEMMA OneMoreUser ==
    ASSUME NEW f, IsFile(f), NEW u \in Users, NEW n \in Names, NEW r \in Roles
    PROVE  /\ IsFile(WithUser(f, u, n, r))
           /\ WithUser(f, u, n, r).auto = f.auto
           /\ WithUser(f, u, n, r).issued = f.issued \cup {u}
           /\ WithUser(f, u, n, r).user
                = Put(f.user, u, [name |-> n, role |-> r, active |-> TRUE])
<1> DEFINE row == [name |-> n, role |-> r, active |-> TRUE]
           t   == Put(f.user, u, row)
           ids == f.issued \cup {u}
<1>1. row \in UserRow
  BY DEF UserRow
<1> HIDE DEF row
<1>2. /\ f = [user |-> f.user, issued |-> f.issued, auto |-> f.auto]
      /\ IsTable(f.user, f.issued, UserRow) /\ f.issued \subseteq Users /\ f.auto \in BOOLEAN
  BY DEF IsFile
<1>3. WithUser(f, u, n, r) = [user |-> t, issued |-> ids, auto |-> f.auto]
  BY DEF WithUser, row
<1>4. IsTable(t, ids, UserRow)
  <2>1. IsTable(f.user, ids, UserRow) /\ u \in ids
    BY <1>2, MoreKeys
  <2> QED
    BY <1>1, <2>1, PutTable
<1> HIDE DEF t, ids
<1>5. IsFile(WithUser(f, u, n, r))
  BY <1>2, <1>3, <1>4, FileParts DEF ids
<1> QED
  BY <1>3, <1>5 DEF t, ids, row

\* A row under a new id, or one with the name that is there already.
LEMMA PutKeeps ==
    ASSUME UsersType, NEW ids, issued \subseteq ids, ids \subseteq Users,
           NEW u \in ids, auto /\ u \in issued => u \in DOMAIN user,
           NEW row \in UserRow, auto /\ u \in issued => row.name = user[u].name,
           user' = Put(user, u, row), issued' = ids, UNCHANGED <<auto, files>>
    PROVE  UsersType' /\ NamesKept
<1>1. IsTable(user, ids, UserRow)
  BY MoreKeys DEF UsersType
<1>2. /\ IsTable(Put(user, u, row), ids, UserRow)
      /\ DOMAIN Put(user, u, row) = DOMAIN user \cup {u}
      /\ Put(user, u, row)[u] = row
      /\ \A k \in DOMAIN user \ {u} : Put(user, u, row)[k] = user[k]
  BY <1>1 DEF IsTable, Put, Upsert
<1> QED
  BY <1>2 DEF UsersType, NamesKept

\* A new user has an id that was never issued in a table of schema.sql.
LEMMA InsertKeeps ==
    ASSUME UsersType, NEW n \in Names, NEW r \in Roles, NEW u \in UnusedIds(Current),
           Become(WithUser(Current, u, n, r)), UNCHANGED files
    PROVE  UsersType' /\ NamesKept
<1> DEFINE row == [name |-> n, role |-> r, active |-> TRUE]
<1>1. u \in Users /\ (auto => u \notin issued)
  BY DEF UnusedIds, Current
<1>2. user' = Put(user, u, row) /\ issued' = issued \cup {u} /\ auto' = auto
  BY <1>1, UsersAreFile, OneMoreUser DEF Become, Current
<1>3. row \in UserRow
  BY DEF UserRow
<1> HIDE DEF row
<1> QED
  BY <1>1, <1>2, <1>3, PutKeeps DEF UsersType

\* A user who is switched on or off keeps the name.
LEMMA ToggleKeeps ==
    ASSUME UsersType, NEW u \in DOMAIN user, NEW a \in BOOLEAN,
           user' = Put(user, u, [user[u] EXCEPT !.active = a]), UNCHANGED <<issued, auto, files>>
    PROVE  UsersType' /\ NamesKept
<1> DEFINE row == [user[u] EXCEPT !.active = a]
<1>1. user[u] \in UserRow /\ u \in issued
  BY DEF UsersType, IsTable
<1>2. row \in UserRow /\ row.name = user[u].name
  BY <1>1 DEF UserRow
<1>3. user' = Put(user, u, row)
  OBVIOUS
<1> HIDE DEF row
<1> QED
  BY <1>1, <1>2, <1>3, PutKeeps DEF UsersType

\* A deletion changes nobody else.
LEMMA DeleteKeeps ==
    ASSUME UsersType, NEW u, user' = Without(user, {u}), UNCHANGED <<issued, auto, files>>
    PROVE  UsersType' /\ NamesKept
<1>1. /\ IsTable(user', issued, UserRow)
      /\ DOMAIN user' = DOMAIN user \ {u}
      /\ \A k \in DOMAIN user \ {u} : user'[k] = user[k]
  BY WithoutTable DEF UsersType
<1> QED
  BY <1>1 DEF UsersType, NamesKept

\* Another file's table is a table.
LEMMA ExchangeKeeps ==
    ASSUME UsersType, NEW f, IsFile(f), Exchange(f)
    PROVE  UsersType' /\ NamesKept
BY ClockAssumption DEF UsersType, NamesKept, Exchange, Become, IsFile

\* What init_db makes of a table is one, too.
LEMMA SeededIsFile ==
    ASSUME NEW f, IsFile(f), NEW g \in Seeded(f)
    PROVE  IsFile(g)
<1>1. CASE g = f
  BY <1>1
<1>2. CASE g # f
  <2>1. PICK u \in UnusedIds(f) : g = WithUser(f, u, DefaultName, "admin")
    BY <1>2 DEF Seeded
  <2>2. u \in Users /\ "admin" \in Roles
    BY DEF UnusedIds, Roles
  <2> QED
    BY <2>1, <2>2, NameAssumption, OneMoreUser
<1> QED
  BY <1>1, <1>2

\* A start adds an administrator to a table without users, and leaves another one alone.
LEMMA SeedKeeps ==
    ASSUME UsersType, NEW g \in Seeded(Current), Become(g), UNCHANGED files
    PROVE  UsersType' /\ NamesKept
<1>1. CASE user = EmptyTable
  <2>1. PICK u \in UnusedIds(Current) : g = WithUser(Current, u, DefaultName, "admin")
    BY <1>1 DEF Seeded, Current
  <2>2. "admin" \in Roles
    BY DEF Roles
  <2> QED
    BY <2>1, <2>2, NameAssumption, InsertKeeps
<1>2. CASE user # EmptyTable
  <2>1. g = Current
    BY <1>2 DEF Seeded, Current
  <2>2. UNCHANGED <<user, issued, auto>>
    BY <2>1 DEF Current, Become
  <2> QED
    BY <2>2 DEF UsersType, NamesKept, IsTable
<1> QED
  BY <1>1, <1>2

\* Whatever a handler writes.
LEMMA WriteKeeps ==
    ASSUME UsersType, NEW r \in Requests, ApplyWrite(r), r.act.op \in AdminActs
    PROVE  UsersType' /\ NamesKept
<1>1. r.act \in Acts /\ r.found \in BOOLEAN
  BY DEF Requests
<1>2. CASE r.act.op = "user_toggle"
  <2>1. /\ r.act.target \in DOMAIN user
        /\ user' = Put(user, r.act.target, [user[r.act.target] EXCEPT !.active = ~r.found])
        /\ UNCHANGED <<issued, auto, files>>
    BY <1>2 DEF ApplyWrite
  <2> QED
    BY <1>1, <2>1, ToggleKeeps
<1>3. CASE r.act.op = "user_delete"
  <2>1. user' = Without(user, {r.act.target}) /\ UNCHANGED <<issued, auto, files>>
    BY <1>3 DEF ApplyWrite
  <2> QED
    BY <2>1, DeleteKeeps
<1>4. CASE r.act.op = "user_create"
  <2>1. InsertUser(r.act.name, r.act.role)
    BY <1>4 DEF ApplyWrite
  <2>2. PICK u \in UnusedIds(Current) : Become(WithUser(Current, u, r.act.name, r.act.role))
    BY <2>1 DEF InsertUser
  <2>3. UNCHANGED files
    BY <2>1 DEF InsertUser
  <2> QED
    BY <1>1, <1>4, <2>2, <2>3, CreateAct, InsertKeeps
<1>5. CASE r.act.op = "restore"
  <2>1. Exchange(r.act.file) /\ r.act.file \in Files
    BY <1>1, <1>5 DEF ApplyWrite, Acts
  <2> QED
    BY <2>1, FileAssumption, ExchangeKeeps
<1> QED
  BY <1>2, <1>3, <1>4, <1>5 DEF AdminActs

\* A step that keeps the names keeps every session with its owner.
LEMMA OwnedKept ==
    ASSUME UsersType, NamesKept, NEW s \in Sessions \cup {None}, Owned(s)
    PROVE  OwnedIn(s, user', issued', auto', files')
<1>1. CASE files' = files + 1
  BY <1>1, ClockAssumption DEF Owned, OwnedIn, UsersType, Sessions
<1>2. CASE files' # files + 1
  BY <1>2 DEF NamesKept, Owned, OwnedIn
<1> QED
  BY <1>1, <1>2

\* A response carries the session of its request, and writes no more.
LEMMA AnswerKeeps ==
    ASSUME NEW r \in Requests
    PROVE  /\ Answer(r) \in Requests
           /\ Answer(r).session = r.session
           /\ Answer(r).browser = r.browser
           /\ Answer(r).step = "respond"
           /\ OtherThanSelf(Answer(r))
<1>1. [op |-> "page"] \in Acts
  BY DEF Acts
<1> DEFINE a == [op |-> "page"]
<1>2. Answer(r) = [r EXCEPT !.step = "respond", !.act = a, !.actor = None, !.found = FALSE]
  BY DEF Answer
<1> HIDE DEF a
<1>3. /\ Answer(r) \in Requests
      /\ Answer(r).session = r.session
      /\ Answer(r).browser = r.browser
      /\ Answer(r).step = "respond"
  BY <1>1, <1>2 DEF Requests, a
<1> QED
  BY <1>3 DEF OtherThanSelf

\* Going on as a user, or as nobody, keeps the browser, changes what of the session is kept
\* at most to none, and lets only an administrator other than the target come to read.
LEMMA EnterKeeps ==
    ASSUME NEW u \in Users \cup {None}, NEW r \in Requests, r.step = "load"
    PROVE  /\ EnterAs(u, r) \in Requests
           /\ EnterAs(u, r).session \in {r.session, None}
           /\ EnterAs(u, r).browser = r.browser
           /\ EnterAs(u, r).step # "write"
           /\ OtherThanSelf(EnterAs(u, r))
<1>1. CASE r.act.op = "login" /\ u = None
  BY <1>1 DEF EnterAs, Requests, OtherThanSelf
<1>2. CASE ~(r.act.op = "login" /\ u = None) /\ r.act.op = "logout"
  <2> DEFINE q == [r EXCEPT !.session = None, !.touched = TRUE]
  <2>1. EnterAs(u, r) = Answer(q)
    BY <1>2 DEF EnterAs, AdminActs
  <2>2. q \in Requests /\ q.session = None /\ q.browser = r.browser
    BY DEF Requests
  <2> HIDE DEF q
  <2> QED
    BY <2>1, <2>2, AnswerKeeps
<1>3. CASE /\ ~(r.act.op = "login" /\ u = None) /\ r.act.op # "logout"
           /\ r.act.op \in AdminActs /\ MayAdminister(u, r.act)
  <2>1. EnterAs(u, r) = [r EXCEPT !.step = "read", !.actor = u]
    BY <1>3 DEF EnterAs
  <2> QED
    BY <1>3, <2>1 DEF Requests, OtherThanSelf, MayAdminister
<1>4. CASE /\ ~(r.act.op = "login" /\ u = None) /\ r.act.op # "logout"
           /\ ~(r.act.op \in AdminActs /\ MayAdminister(u, r.act))
  <2>1. EnterAs(u, r) = Answer(r)
    BY <1>4 DEF EnterAs
  <2> QED
    BY <2>1, AnswerKeeps
<1> QED
  BY <1>1, <1>2, <1>3, <1>4
-----------------------------------------------------------------------------
\* The database a first start leaves, with one administrator and no session.
LEMMA InvFirst == AccountsInit => Inv
<1> SUFFICES ASSUME AccountsInit PROVE Inv
  OBVIOUS
<1> DEFINE e == [user |-> EmptyTable, issued |-> {}, auto |-> TRUE]
<1>1. PICK f \in Seeded(e) : user = f.user /\ issued = f.issued /\ auto = f.auto
  BY DEF AccountsInit
<1>2. IsFile(e)
  BY EmptyIsTable, FileParts
<1> HIDE DEF e
<1>3. IsFile(f)
  BY <1>1, <1>2, SeededIsFile
<1>4. IsTable(user, issued, UserRow) /\ issued \subseteq Users /\ auto \in BOOLEAN
  BY <1>1, <1>3 DEF IsFile
<1>5. IsFile(Current)
  BY <1>4, FileParts DEF Current
<1>6. AccountsTypeOK
  BY <1>5, ClockAssumption DEF AccountsInit, AccountsTypeOK, Time
<1> QED
  BY <1>6 DEF AccountsInit, Inv, SessionsOwned, Owned, OwnedIn, WritersWrite

\* The users are a table in every state of the right types.
LEMMA TypedUsers == ASSUME AccountsTypeOK PROVE UsersType
BY FileParts DEF AccountsTypeOK, UsersType, Current

(***************************************************************************)
(* What every step of a request comes to: the thread's request is replaced *)
(* by one with the same session or none, or ends.                          *)
(***************************************************************************)
LEMMA RequestKeeps ==
    ASSUME Inv, UsersType', NamesKept, NEW t \in Threads, NEW r \in Requests \cup {None},
           request' = [request EXCEPT ![t] = r],
           r # None => Owned(r.session) /\ (r.step = "write" => r.act.op \in AdminActs),
           heard' \in [Browsers -> Time], clock' \in Time,
           cookie' \in [Browsers -> Sessions \cup {None}],
           \A b \in Browsers : Owned(cookie'[b])
    PROVE  Inv'
<1>0. UsersType
  BY TypedUsers DEF Inv
<1>1. AccountsTypeOK'
  <2>1. IsFile(Current)'
    BY FileParts DEF UsersType, Current
  <2> QED
    BY <2>1 DEF Inv, AccountsTypeOK, UsersType
<1>2. ASSUME NEW b \in Browsers PROVE OwnedIn(cookie'[b], user', issued', auto', files')
  BY <1>0, OwnedKept
<1>3. ASSUME NEW x \in Threads, request'[x] # None
      PROVE  OwnedIn(request'[x].session, user', issued', auto', files')
  <2>1. Owned(request'[x].session) /\ request'[x].session \in Sessions \cup {None}
    BY <1>3 DEF Inv, SessionsOwned, AccountsTypeOK, Requests
  <2> QED
    BY <1>0, <2>1, OwnedKept
<1>5. SessionsOwned'
  BY <1>2, <1>3 DEF SessionsOwned, Owned
<1>4. WritersWrite'
  BY DEF Inv, WritersWrite, AccountsTypeOK
<1> QED
  BY <1>1, <1>4, <1>5 DEF Inv

\* Most steps leave the users alone.
LEMMA UsersAlone ==
    ASSUME Inv, UNCHANGED table PROVE UsersType' /\ NamesKept
<1>1. UsersType
  BY TypedUsers DEF Inv
<1> QED
  BY <1>1 DEF table, UsersType, NamesKept, IsTable

\* What a thread serves, and what is known of it.
LEMMA Served ==
    ASSUME Inv, NEW t \in Threads, request[t] # None
    PROVE  /\ request[t] \in Requests /\ request[t].browser \in Browsers
           /\ request[t].session \in Sessions \cup {None} /\ Owned(request[t].session)
           /\ request[t].step = "write" => request[t].act.op \in AdminActs
BY DEF Inv, AccountsTypeOK, SessionsOwned, WritersWrite, Requests

\* A session that is renewed stays its owner's.
LEMMA Renewed ==
    ASSUME NEW r \in Requests, r.session \in Sessions, r.session # None, Owned(r.session),
           clock \in Time, NEW act \in Acts
    PROVE  LET s == [r EXCEPT !.act = act, !.session.last = clock, !.touched = TRUE]
           IN  /\ s \in Requests /\ Owned(s.session) /\ s.step = r.step
               /\ s.browser = r.browser /\ s.session.last = clock
<1> DEFINE s == [r EXCEPT !.act = act, !.session.last = clock, !.touched = TRUE]
<1>1. /\ s.session = [r.session EXCEPT !.last = clock] /\ s.step = r.step
      /\ s.browser = r.browser
  BY DEF Requests
<1>2. /\ s.session \in Sessions /\ s.session.user = r.session.user
      /\ s.session.owner = r.session.owner /\ s.session.file = r.session.file
      /\ s.session.last = clock
  BY <1>1 DEF Sessions
<1>3. s \in Requests
  BY <1>2 DEF Requests
<1>4. Owned(s.session)
  BY <1>2 DEF Owned, OwnedIn
<1> QED
  BY <1>1, <1>2, <1>3, <1>4

\* A session that is dropped is nobody's.
LEMMA Dropped ==
    ASSUME NEW r \in Requests, NEW act \in Acts
    PROVE  LET s == [r EXCEPT !.act = act, !.session = None, !.touched = r.session # None]
           IN  s \in Requests /\ s.session = None /\ s.step = r.step /\ s.browser = r.browser
<1> DEFINE f == r.session # None
           s == [r EXCEPT !.act = act, !.session = None, !.touched = f]
<1>1. f \in BOOLEAN
  OBVIOUS
<1> HIDE DEF f
<1>2. s \in Requests /\ s.session = None /\ s.step = r.step /\ s.browser = r.browser
  BY <1>1 DEF Requests
<1> QED
  BY <1>2 DEF f

\* Every step of a thread, a browser, the server or the clock keeps the invariant.
LEMMA InvStep == Inv /\ [AccountsNext]_vars => Inv'
<1> SUFFICES ASSUME Inv, [AccountsNext]_vars PROVE Inv'
  OBVIOUS
<1>0. UsersType /\ clock \in Time /\ heard \in [Browsers -> Time]
      /\ cookie \in [Browsers -> Sessions \cup {None}]
      /\ \A b \in Browsers : Owned(cookie[b])
  BY TypedUsers DEF Inv, AccountsTypeOK, SessionsOwned
<1>1. ASSUME NEW t \in Threads, NEW b \in Browsers, Send(t, b)
      PROVE  Inv'
  <2> DEFINE a == [op |-> "page"]
             r == [browser |-> b, act |-> a, step |-> "load", session |-> cookie[b],
                   touched |-> FALSE, actor |-> None, found |-> FALSE]
  <2>0. a \in Acts
    BY DEF Acts
  <2> HIDE DEF a
  <2>1. r \in Requests /\ r.step # "write" /\ r.session = cookie[b]
    BY <1>0, <2>0 DEF Requests
  <2>2. request' = [request EXCEPT ![t] = r] /\ UNCHANGED <<table, cookie, heard, clock>>
    BY <1>1 DEF Send, a
  <2> HIDE DEF r
  <2> QED
    BY <1>0, <2>1, <2>2, UsersAlone, RequestKeeps
<1>2. ASSUME NEW t \in Threads, NEW act \in Acts, LoadAccepted(t, act) PROVE Inv'
  <2> DEFINE s == [request[t] EXCEPT !.act = act, !.session.last = clock, !.touched = TRUE]
             u == request[t].session.user
  <2>1. /\ request[t] # None /\ request[t].step = "load" /\ request[t].session # None
        /\ request' = [request EXCEPT ![t] = EnterAs(u, s)]
        /\ heard' = [heard EXCEPT ![request[t].browser] = clock]
        /\ UNCHANGED <<table, cookie, clock>>
    BY <1>2 DEF LoadAccepted, LetsIn
  <2>2. request[t].session \in Sessions /\ u \in Users
    BY <2>1, Served DEF Sessions
  <2>3. s \in Requests /\ Owned(s.session) /\ s.step = "load"
    BY <1>0, <2>1, <2>2, Served, Renewed
  <2> HIDE DEF s, u
  <2>4. EnterAs(u, s) \in Requests /\ EnterAs(u, s).session \in {s.session, None}
        /\ EnterAs(u, s).step # "write"
    BY <2>2, <2>3, EnterKeeps
  <2>5. Owned(EnterAs(u, s).session)
    BY <2>3, <2>4 DEF Owned, OwnedIn
  <2>6. heard' \in [Browsers -> Time]
    BY <1>0, <2>1
  <2> QED
    BY <1>0, <2>1, <2>4, <2>5, <2>6, UsersAlone, RequestKeeps
<1>3. ASSUME NEW t \in Threads, NEW act \in Acts, LoadRefused(t, act) PROVE Inv'
  <2> DEFINE s == [request[t] EXCEPT !.act = act, !.session = None,
                                      !.touched = request[t].session # None]
             i == request[t].session # None /\ TooOld(request[t].session)
             q == IF i /\ act.op # "login" THEN Answer(s) ELSE EnterAs(None, s)
  <2>1. /\ request[t] # None /\ request[t].step = "load"
        /\ request' = [request EXCEPT ![t] = q]
        /\ UNCHANGED <<table, cookie, heard, clock>>
    BY <1>3 DEF LoadRefused
  <2>2. s \in Requests /\ s.session = None /\ s.step = "load"
    BY <2>1, Served, Dropped
  <2> HIDE DEF s
  <2>3. Answer(s) \in Requests /\ Answer(s).session = None /\ Answer(s).step = "respond"
    BY <2>2, AnswerKeeps
  <2>4. EnterAs(None, s) \in Requests /\ EnterAs(None, s).session = None
        /\ EnterAs(None, s).step # "write"
    BY <2>2, EnterKeeps
  <2>5. q \in Requests /\ q.session = None /\ q.step # "write"
    BY <2>3, <2>4
  <2> HIDE DEF q
  <2>6. Owned(q.session)
    BY <2>5, SMTT(60) DEF Owned, OwnedIn
  <2> QED
    BY <1>0, <2>1, <2>5, <2>6, UsersAlone, RequestKeeps
<1>4. ASSUME NEW t \in Threads, ReadLogin(t) PROVE Inv'
  <2>1. /\ request[t] # None /\ request[t].step = "read"
        /\ UNCHANGED <<table, cookie, clock>>
    BY <1>4 DEF ReadLogin
  <2> DEFINE New(u) == [user |-> u, owner |-> request[t].act.name, file |-> files,
                        last |-> clock]
             q(u)   == [request[t] EXCEPT !.touched = TRUE, !.session = New(u)]
             n      == [request[t] EXCEPT !.touched = TRUE]
  <2>2. CASE \E u \in DOMAIN user :
               /\ user[u].name = request[t].act.name
               /\ request' = [request EXCEPT ![t] = Answer(q(u))]
               /\ heard' = [heard EXCEPT ![request[t].browser] = clock]
    <3>1. PICK u \in DOMAIN user :
            /\ user[u].name = request[t].act.name
            /\ request' = [request EXCEPT ![t] = Answer(q(u))]
            /\ heard' = [heard EXCEPT ![request[t].browser] = clock]
      BY <2>2
    <3>2. u \in issued /\ u \in Users /\ user[u].name \in Names
      BY <1>0 DEF UsersType, IsTable, UserRow
    <3>3. New(u) \in Sessions
      BY <1>0, <3>1, <3>2 DEF Sessions, UsersType
    <3>4. Owned(New(u))
      BY <1>0, <3>1, <3>2, ClockAssumption DEF Owned, OwnedIn, UsersType
    <3> HIDE DEF New
    <3>5. q(u) \in Requests /\ q(u).session = New(u)
      BY <2>1, <3>3, Served DEF Requests
    <3> HIDE DEF q
    <3>6. /\ Answer(q(u)) \in Requests /\ Answer(q(u)).session = New(u)
          /\ Answer(q(u)).step = "respond"
      BY <3>5, AnswerKeeps
    <3>7. heard' \in [Browsers -> Time]
      BY <1>0, <3>1
    <3> QED
      BY <1>0, <2>1, <3>1, <3>4, <3>6, <3>7, UsersAlone, RequestKeeps
  <2>3. CASE request' = [request EXCEPT ![t] = Answer(n)] /\ UNCHANGED heard
    <3>1. n \in Requests /\ n.session = request[t].session
      BY <2>1, Served, ZenonT(60) DEF Requests
    <3> HIDE DEF n
    <3>2. /\ Answer(n) \in Requests /\ Answer(n).session = request[t].session
          /\ Answer(n).step = "respond"
      BY <3>1, AnswerKeeps
    <3> QED
      BY <1>0, <2>1, <2>3, <3>2, Served, UsersAlone, RequestKeeps
  <2> QED
    BY <1>4, <2>2, <2>3, ZenonT(60) DEF ReadLogin
<1>5. ASSUME NEW t \in Threads, ReadUsers(t) PROVE Inv'
  <2> DEFINE f == request[t].act.op = "user_toggle" /\ user[request[t].act.target].active
             w == [request[t] EXCEPT !.step = "write", !.found = f]
             n == Answer(request[t])
             q == IF ReadPasses(request[t].act) THEN w ELSE n
  <2>1. /\ request[t] # None
        /\ request[t].act.op \in AdminActs
        /\ request' = [request EXCEPT ![t] = q]
        /\ UNCHANGED <<table, cookie, heard, clock>>
    BY <1>5 DEF ReadUsers
  <2>2. n \in Requests /\ n.session = request[t].session /\ n.step = "respond"
    BY <2>1, Served, AnswerKeeps
  <2>3. f \in BOOLEAN
    BY Zenon
  <2> HIDE DEF f
  <2>4. w \in Requests /\ w.session = request[t].session /\ w.act = request[t].act
    BY <2>1, <2>3, Served DEF Requests
  <2> HIDE DEF w, n
  <2>5. /\ q \in Requests /\ q.session = request[t].session
        /\ q.step = "write" => q.act.op \in AdminActs
    BY <2>1, <2>2, <2>4
  <2> HIDE DEF q
  <2>6. Owned(q.session)
    BY <2>1, <2>5, Served
  <2> QED
    BY <1>0, <2>1, <2>5, <2>6, UsersAlone, RequestKeeps
<1>6. ASSUME NEW t \in Threads, Write(t) \/ WriteNothing(t) PROVE Inv'
  <2> DEFINE q == Answer(request[t])
  <2>1. /\ request[t] # None /\ request[t].step = "write"
        /\ request' = [request EXCEPT ![t] = q]
        /\ UNCHANGED <<cookie, heard, clock>>
        /\ ApplyWrite(request[t]) \/ UNCHANGED table
    BY <1>6 DEF Write, WriteNothing
  <2>2. q \in Requests /\ q.session = request[t].session /\ q.step = "respond"
    BY <2>1, Served, AnswerKeeps
  <2> HIDE DEF q
  <2>4. Owned(q.session)
    BY <2>1, <2>2, Served
  <2>5. UsersType' /\ NamesKept
    BY <1>0, <2>1, Served, WriteKeeps, UsersAlone
  <2> QED
    BY <1>0, <2>1, <2>2, <2>4, <2>5, RequestKeeps
<1>7. ASSUME NEW t \in Threads, Respond(t) \/ LoseResponse(t) PROVE Inv'
  <2>1. /\ request[t] # None
        /\ request' = [request EXCEPT ![t] = None]
        /\ UNCHANGED <<table, heard, clock>>
        /\ cookie' \in {cookie, [cookie EXCEPT ![request[t].browser] = request[t].session]}
    BY <1>7 DEF Respond, LoseResponse
  <2>2. /\ cookie' \in [Browsers -> Sessions \cup {None}]
        /\ \A b \in Browsers : cookie'[b] = cookie[b] \/ cookie'[b] = request[t].session
    BY <1>0, <2>1, Served
  <2>3. \A b \in Browsers : Owned(cookie'[b])
    BY <1>0, <2>1, <2>2, Served
  <2> QED
    BY <1>0, <2>1, <2>2, <2>3, UsersAlone, RequestKeeps
<1>8. ASSUME Restart PROVE Inv'
  <2>1. UsersType' /\ NamesKept
    <3>1. CASE (\E f \in Seeded(Current) : Become(f)) /\ UNCHANGED files
      BY <1>0, <3>1, SeedKeeps
    <3>2. CASE \E older \in Files : \E f \in Seeded(older) : Exchange(f)
      BY <1>0, <3>2, FileAssumption, SeededIsFile, ExchangeKeeps
    <3> QED
      BY <1>8, <3>1, <3>2 DEF Restart
  <2>2. /\ request' \in {request, [t \in Threads |-> None]}
        /\ UNCHANGED <<cookie, heard, clock>>
    BY <1>8 DEF Restart
  <2>3. \A b \in Browsers : OwnedIn(cookie'[b], user', issued', auto', files')
    BY <1>0, <2>1, <2>2, OwnedKept
  <2>4. \A t \in Threads : request'[t] # None =>
            /\ request'[t] = request[t]
            /\ OwnedIn(request'[t].session, user', issued', auto', files')
    BY <1>0, <2>1, <2>2, Served, OwnedKept
  <2>5. IsFile(Current)'
    BY <2>1, FileParts DEF UsersType, Current
  <2>6. request' \in [Threads -> Requests \cup {None}]
    BY <2>2 DEF Inv, AccountsTypeOK
  <2> QED
    BY <1>0, <2>1, <2>2, <2>3, <2>4, <2>5, <2>6
       DEF Inv, AccountsTypeOK, UsersType, SessionsOwned, Owned, WritersWrite
<1>9. CASE Tick
  <2>1. clock' \in Time /\ UNCHANGED <<table, cookie, request, heard>>
    BY <1>0, <1>9, ClockAssumption DEF Tick, Time
  <2> QED
    BY <2>1 DEF table, Inv, AccountsTypeOK, Current, SessionsOwned, Owned, OwnedIn,
                WritersWrite, IsFile, IsTable
<1>10. CASE UNCHANGED vars
  BY <1>10 DEF vars, table, Inv, AccountsTypeOK, Current, SessionsOwned, Owned, OwnedIn,
               WritersWrite, IsFile, IsTable
<1> QED
  BY <1>1, <1>2, <1>3, <1>4, <1>5, <1>6, <1>7, <1>8, <1>9, <1>10 DEF AccountsNext

\* The invariant holds in every reachable state.
LEMMA InvHolds == AccountsSpec => []Inv
BY InvFirst, InvStep, PTL DEF AccountsSpec

\* Users, cookies and requests stay of their types, with any number of threads.
THEOREM AccountsTyped == AccountsSpec => []AccountsTypeOK
BY InvHolds, PTL DEF Inv

(***************************************************************************)
(* However users are created, switched and deleted while responses are     *)
(* late, lost and reordered, tables restored and imported, and programs    *)
(* started: while the table that issued it is there, and its key is        *)
(* AUTOINCREMENT, a session never comes to mean somebody else.             *)
(***************************************************************************)
THEOREM SessionsTheirOwn == AccountsSpec => []OwnSession
<1>1. ASSUME Inv, auto, NEW s \in AllSessions, s # None, s.file = files, s.user \in DOMAIN user
      PROVE  user[s.user].name = s.owner
  <2>1. Owned(s)
    BY <1>1 DEF AllSessions, Inv, SessionsOwned
  <2> QED
    BY <1>1, <2>1 DEF Owned, OwnedIn
<1>2. Inv => OwnSession
  BY <1>1 DEF OwnSession
<1> QED
  BY <1>2, InvHolds, PTL
-----------------------------------------------------------------------------
\* Nobody is heard less by going on.
HeardLater == \A b \in Browsers : heard[b] <= heard'[b] /\ heard'[b] <= clock'

(***************************************************************************)
(* What every step of a request comes to: the request is replaced by one   *)
(* that is as sound, or ends.                                              *)
(***************************************************************************)
LEMMA RequestSound ==
    ASSUME SoundInv, Inv', HeardLater, NEW t \in Threads, NEW r \in Requests \cup {None},
           request' = [request EXCEPT ![t] = r],
           r # None => OtherThanSelf(r) /\ LastBy(r.session, heard'[r.browser]),
           \A b \in Browsers : cookie'[b] = cookie[b] \/ LastBy(cookie'[b], heard'[b])
    PROVE  SoundInv'
<1>0. /\ request \in [Threads -> Requests \cup {None}]
      /\ cookie \in [Browsers -> Sessions \cup {None}]
      /\ heard \in [Browsers -> Time] /\ heard' \in [Browsers -> Time] /\ Time \subseteq Int
  BY ClockAssumption DEF SoundInv, Inv, AccountsTypeOK, Time
<1>1. \A x \in Threads : request'[x] = IF x = t THEN r ELSE request[x]
  BY <1>0
<1>2. NeverOneself'
  BY <1>1 DEF SoundInv, NeverOneself
<1>3. ASSUME NEW s \in Sessions \cup {None}, NEW b \in Browsers, LastBy(s, heard[b])
      PROVE  LastBy(s, heard'[b])
  <2>1. CASE s = None
    BY <2>1 DEF LastBy
  <2>2. CASE s # None
    <3>1. s.last \in Int /\ s.last <= heard[b]
      BY <1>0, <1>3, <2>2 DEF Sessions, LastBy
    <3>2. heard[b] \in Int /\ heard'[b] \in Int /\ heard[b] <= heard'[b]
      BY <1>0 DEF HeardLater
    <3>3. s.last <= heard'[b]
      BY <3>1, <3>2
    <3> QED
      BY <3>3 DEF LastBy
  <2> QED
    BY <2>1, <2>2
<1>4. ASSUME NEW b \in Browsers PROVE heard'[b] <= clock' /\ LastBy(cookie'[b], heard'[b])
  BY <1>0, <1>3 DEF SoundInv, LastIsHeard, HeardLater
<1>5. ASSUME NEW x \in Threads, request'[x] # None
      PROVE  LastBy(request'[x].session, heard'[request'[x].browser])
  <2>1. CASE x = t
    BY <1>1, <1>5, <2>1
  <2>2. CASE x # t
    <3>1. request'[x] = request[x] /\ request[x] \in Requests
      BY <1>0, <1>1, <1>5, <2>2
    <3>2. /\ request[x].session \in Sessions \cup {None} /\ request[x].browser \in Browsers
          /\ LastBy(request[x].session, heard[request[x].browser])
      BY <1>5, <3>1 DEF Requests, SoundInv, LastIsHeard
    <3> QED
      BY <1>3, <3>1, <3>2
  <2> QED
    BY <2>1, <2>2
<1>6. LastIsHeard'
  BY <1>4, <1>5 DEF LastIsHeard
<1> QED
  BY <1>2, <1>6 DEF SoundInv

\* Where the times are, so that they can be compared.
LEMMA Times ==
    ASSUME Inv
    PROVE  /\ clock \in Int /\ Timeout \in Int
           /\ \A b \in Browsers : heard[b] \in Int
           /\ \A b \in Browsers : cookie[b] # None => cookie[b].last \in Int
           /\ \A t \in Threads :
                 request[t] # None /\ request[t].session # None => request[t].session.last \in Int
BY ClockAssumption DEF Inv, AccountsTypeOK, Requests, Sessions, Time

\* A step that leaves the clock and who was heard leaves all that is known of them.
LEMMA HeardStill ==
    ASSUME SoundInv, UNCHANGED <<heard, clock>>
    PROVE  HeardLater
BY Times DEF SoundInv, LastIsHeard, HeardLater

\* What is known of the request a thread serves.
LEMMA ServedSound ==
    ASSUME SoundInv, NEW t \in Threads, request[t] # None
    PROVE  /\ request[t] \in Requests /\ request[t].browser \in Browsers
           /\ request[t].session \in Sessions \cup {None}
           /\ OtherThanSelf(request[t])
           /\ LastBy(request[t].session, heard[request[t].browser])
BY Served DEF SoundInv, NeverOneself, LastIsHeard

\* A request that is let in has not been silent for longer than the time-out, and goes on
\* with a session that was active just now.
LEMMA LoadSound ==
    ASSUME SoundInv, NEW t \in Threads, NEW act \in Acts, LoadAccepted(t, act)
    PROVE  /\ clock - heard[request[t].browser] <= Timeout
           /\ heard' = [heard EXCEPT ![request[t].browser] = clock]
           /\ UNCHANGED <<table, cookie, clock>>
           /\ \E r \in Requests : /\ request' = [request EXCEPT ![t] = r]
                                 /\ r.browser = request[t].browser
                                 /\ OtherThanSelf(r)
                                 /\ LastBy(r.session, clock)
<1> DEFINE s == [request[t] EXCEPT !.act = act, !.session.last = clock, !.touched = TRUE]
           u == request[t].session.user
<1>1. /\ request[t] # None /\ request[t].session # None /\ request[t].step = "load"
      /\ ~(clock - request[t].session.last > Timeout)
      /\ request' = [request EXCEPT ![t] = EnterAs(u, s)]
      /\ heard' = [heard EXCEPT ![request[t].browser] = clock]
      /\ UNCHANGED <<table, cookie, clock>>
  BY DEF LoadAccepted, LetsIn, TooOld
<1>2. /\ request[t] \in Requests /\ request[t].browser \in Browsers
      /\ request[t].session \in Sessions
      /\ request[t].session.last <= heard[request[t].browser]
  BY <1>1, ServedSound DEF LastBy
<1>3. clock - heard[request[t].browser] <= Timeout
  <2>1. /\ clock \in Int /\ Timeout \in Int /\ heard[request[t].browser] \in Int
        /\ request[t].session.last \in Int
    BY <1>1, <1>2, Times DEF SoundInv
  <2> QED
    BY <1>1, <1>2, <2>1
<1>4. u \in Users /\ clock \in Time /\ Owned(request[t].session)
  BY <1>1, <1>2, Served DEF Sessions, SoundInv, Inv, AccountsTypeOK
<1>5. /\ s \in Requests /\ s.step = "load" /\ s.browser = request[t].browser
      /\ s.session.last = clock
  BY <1>1, <1>2, <1>4, Renewed
<1> HIDE DEF s, u
<1>8. /\ EnterAs(u, s) \in Requests /\ EnterAs(u, s).session \in {s.session, None}
      /\ EnterAs(u, s).browser = s.browser /\ OtherThanSelf(EnterAs(u, s))
  BY <1>4, <1>5, EnterKeeps
<1>9. LastBy(EnterAs(u, s).session, clock)
  <2>1. clock \in Int
    BY Times, SMTT(60) DEF SoundInv
  <2> QED
    BY <1>5, <1>8, <2>1 DEF LastBy
<1> QED
  BY <1>1, <1>3, <1>5, <1>8, <1>9

\* A sign-in gives a session of this moment, or changes nothing.
LEMMA LoginSound ==
    ASSUME SoundInv, NEW t \in Threads, ReadLogin(t)
    PROVE  /\ request[t] # None /\ request[t].act.op = "login"
           /\ heard' \in {heard, [heard EXCEPT ![request[t].browser] = clock]}
           /\ UNCHANGED <<table, cookie, clock>>
           /\ \E r : /\ request' = [request EXCEPT ![t] = r]
                     /\ r.browser = request[t].browser
                     /\ OtherThanSelf(r)
                     /\ LastBy(r.session, heard'[request[t].browser])
<1>1. /\ request[t] # None /\ request[t].act.op = "login"
      /\ UNCHANGED <<table, cookie, clock>>
  BY DEF ReadLogin
<1>2. /\ request[t] \in Requests /\ request[t].browser \in Browsers
      /\ LastBy(request[t].session, heard[request[t].browser])
  BY <1>1, ServedSound
<1>3. heard \in [Browsers -> Time] /\ clock \in Int
  BY Times DEF SoundInv, Inv, AccountsTypeOK
<1> DEFINE New(u) == [user |-> u, owner |-> request[t].act.name, file |-> files,
                      last |-> clock]
           q(u)   == [request[t] EXCEPT !.touched = TRUE, !.session = New(u)]
           n      == [request[t] EXCEPT !.touched = TRUE]
<1>4. CASE \E u \in DOMAIN user :
             /\ user[u].name = request[t].act.name
             /\ request' = [request EXCEPT ![t] = Answer(q(u))]
             /\ heard' = [heard EXCEPT ![request[t].browser] = clock]
  <2>1. PICK u \in DOMAIN user :
          /\ user[u].name = request[t].act.name
          /\ request' = [request EXCEPT ![t] = Answer(q(u))]
          /\ heard' = [heard EXCEPT ![request[t].browser] = clock]
    BY <1>4
  <2>2. New(u) \in Sessions /\ New(u).last = clock
    BY <2>1 DEF Sessions, SoundInv, Inv, AccountsTypeOK, IsFile, Current, IsTable, UserRow
  <2> HIDE DEF New
  <2>3. q(u) \in Requests /\ q(u).session = New(u) /\ q(u).browser = request[t].browser
    BY <1>2, <2>2 DEF Requests
  <2> HIDE DEF q
  <2>4. heard'[request[t].browser] = clock
    BY <1>2, <1>3, <2>1
  <2>5. /\ Answer(q(u)).browser = request[t].browser /\ OtherThanSelf(Answer(q(u)))
        /\ Answer(q(u)).session = New(u)
    BY <2>3, AnswerKeeps
  <2>6. LastBy(Answer(q(u)).session, heard'[request[t].browser])
    BY <1>3, <2>2, <2>4, <2>5 DEF LastBy
  <2> QED
    BY <1>1, <2>1, <2>5, <2>6
<1>5. CASE request' = [request EXCEPT ![t] = Answer(n)] /\ UNCHANGED heard
  <2>1. n \in Requests /\ n.browser = request[t].browser /\ n.session = request[t].session
    BY <1>2 DEF Requests
  <2> HIDE DEF n
  <2>2. /\ Answer(n).browser = request[t].browser /\ OtherThanSelf(Answer(n))
        /\ Answer(n).session = request[t].session
    BY <2>1, AnswerKeeps
  <2> QED
    BY <1>1, <1>2, <1>5, <2>2
<1> QED
  BY <1>4, <1>5, ZenonT(60) DEF ReadLogin

\* Nobody has been heard before a first start.
LEMMA SoundFirst == AccountsInit => SoundInv
<1> SUFFICES ASSUME AccountsInit PROVE SoundInv
  OBVIOUS
<1>1. NeverOneself
  BY DEF AccountsInit, NeverOneself
<1>2. LastIsHeard
  BY DEF AccountsInit, LastIsHeard, LastBy
<1> QED
  BY <1>1, <1>2, InvFirst DEF SoundInv

\* Every step keeps what the two action properties rest on.
LEMMA SoundStep == SoundInv /\ [AccountsNext]_vars => SoundInv'
<1> SUFFICES ASSUME SoundInv, [AccountsNext]_vars PROVE SoundInv'
  OBVIOUS
<1>0. /\ Inv' /\ request \in [Threads -> Requests \cup {None}]
      /\ request' \in [Threads -> Requests \cup {None}]
      /\ cookie \in [Browsers -> Sessions \cup {None}] /\ heard \in [Browsers -> Time]
      /\ \A b \in Browsers : LastBy(cookie[b], heard[b])
  BY InvStep DEF SoundInv, Inv, AccountsTypeOK, LastIsHeard
<1>1. ASSUME NEW t \in Threads, NEW b \in Browsers, Send(t, b)
      PROVE  SoundInv'
  <2> DEFINE a == [op |-> "page"]
             r == [browser |-> b, act |-> a, step |-> "load", session |-> cookie[b],
                   touched |-> FALSE, actor |-> None, found |-> FALSE]
  <2>0. a \in Acts
    BY DEF Acts
  <2> HIDE DEF a
  <2>1. r \in Requests /\ r.step = "load" /\ r.session = cookie[b] /\ r.browser = b
    BY <1>0, <2>0 DEF Requests
  <2>2. request' = [request EXCEPT ![t] = r] /\ UNCHANGED <<table, cookie, heard, clock>>
    BY <1>1 DEF Send, a
  <2> HIDE DEF r
  <2>3. OtherThanSelf(r) /\ LastBy(r.session, heard'[r.browser])
    BY <1>0, <2>1, <2>2 DEF OtherThanSelf
  <2> QED
    BY <1>0, <2>1, <2>2, <2>3, HeardStill, RequestSound
<1>2. ASSUME NEW t \in Threads, NEW act \in Acts, LoadAccepted(t, act) PROVE SoundInv'
  <2>1. request[t] # None /\ request[t].browser \in Browsers
    BY <1>2, ServedSound DEF LoadAccepted
  <2>2. PICK r \in Requests : /\ request' = [request EXCEPT ![t] = r]
                              /\ r.browser = request[t].browser
                              /\ OtherThanSelf(r)
                              /\ LastBy(r.session, clock)
    BY <1>2, LoadSound
  <2>3. /\ heard' = [heard EXCEPT ![request[t].browser] = clock]
        /\ UNCHANGED <<table, cookie, clock>>
    BY <1>2, LoadSound
  <2>4. HeardLater
    BY <1>0, <2>3, Times DEF SoundInv, LastIsHeard, HeardLater
  <2>5. LastBy(r.session, heard'[r.browser])
    BY <1>0, <2>1, <2>2, <2>3
  <2> QED
    BY <1>0, <2>2, <2>3, <2>4, <2>5, RequestSound
<1>3. ASSUME NEW t \in Threads, NEW act \in Acts, LoadRefused(t, act) PROVE SoundInv'
  <2> DEFINE s == [request[t] EXCEPT !.act = act, !.session = None,
                                      !.touched = request[t].session # None]
             i == request[t].session # None /\ TooOld(request[t].session)
             q == IF i /\ act.op # "login" THEN Answer(s) ELSE EnterAs(None, s)
  <2>1. /\ request[t] # None /\ request[t].step = "load"
        /\ request' = [request EXCEPT ![t] = q]
        /\ UNCHANGED <<table, cookie, heard, clock>>
    BY <1>3 DEF LoadRefused
  <2>2. s \in Requests /\ s.session = None /\ s.step = "load"
    BY <2>1, ServedSound, Dropped
  <2> HIDE DEF s
  <2>3. Answer(s) \in Requests /\ Answer(s).session = None /\ OtherThanSelf(Answer(s))
    BY <2>2, AnswerKeeps
  <2>4. /\ EnterAs(None, s) \in Requests /\ EnterAs(None, s).session = None
        /\ OtherThanSelf(EnterAs(None, s))
    BY <2>2, EnterKeeps
  <2>6. q \in Requests /\ q.session = None /\ OtherThanSelf(q)
    BY <2>3, <2>4
  <2> HIDE DEF q
  <2>7. LastBy(q.session, heard'[q.browser])
    BY <2>6 DEF LastBy
  <2> QED
    BY <1>0, <2>1, <2>6, <2>7, HeardStill, RequestSound
<1>4. ASSUME NEW t \in Threads, ReadLogin(t) PROVE SoundInv'
  <2>1. request[t] # None /\ request[t].browser \in Browsers
    BY <1>4, ServedSound DEF ReadLogin
  <2>2. PICK r : /\ request' = [request EXCEPT ![t] = r]
                 /\ r.browser = request[t].browser
                 /\ OtherThanSelf(r)
                 /\ LastBy(r.session, heard'[request[t].browser])
    BY <1>4, LoginSound
  <2>3. r \in Requests \cup {None}
    BY <1>0, <2>2
  <2>4. /\ heard' \in {heard, [heard EXCEPT ![request[t].browser] = clock]}
        /\ UNCHANGED <<table, cookie, clock>>
    BY <1>4, LoginSound
  <2>5. HeardLater
    BY <1>0, <2>4, Times DEF SoundInv, LastIsHeard, HeardLater
  <2> QED
    BY <1>0, <2>2, <2>3, <2>4, <2>5, RequestSound
<1>5. ASSUME NEW t \in Threads, ReadUsers(t) PROVE SoundInv'
  <2> DEFINE f == request[t].act.op = "user_toggle" /\ user[request[t].act.target].active
             w == [request[t] EXCEPT !.step = "write", !.found = f]
             n == Answer(request[t])
             q == IF ReadPasses(request[t].act) THEN w ELSE n
  <2>1. /\ request[t] # None /\ request[t].step = "read"
        /\ request' = [request EXCEPT ![t] = q]
        /\ UNCHANGED <<table, cookie, heard, clock>>
    BY <1>5 DEF ReadUsers
  <2>2. /\ request[t] \in Requests /\ OtherThanSelf(request[t])
        /\ LastBy(request[t].session, heard[request[t].browser])
    BY <2>1, ServedSound
  <2>3. /\ n.session = request[t].session /\ n.browser = request[t].browser
        /\ OtherThanSelf(n)
    BY <2>2, AnswerKeeps
  <2> HIDE DEF f
  <2>4. /\ w.session = request[t].session /\ w.browser = request[t].browser
        /\ w.act = request[t].act /\ w.actor = request[t].actor
    BY <2>2 DEF Requests
  <2> HIDE DEF w, n
  <2>5. OtherThanSelf(w)
    BY <2>1, <2>2, <2>4 DEF OtherThanSelf
  <2>6. /\ q.session = request[t].session /\ q.browser = request[t].browser
        /\ OtherThanSelf(q)
    BY <2>3, <2>4, <2>5
  <2> HIDE DEF q
  <2>7. q \in Requests \cup {None} /\ LastBy(q.session, heard'[q.browser])
    BY <1>0, <2>1, <2>2, <2>6
  <2> QED
    BY <1>0, <2>1, <2>6, <2>7, HeardStill, RequestSound
<1>6. ASSUME NEW t \in Threads, Write(t) \/ WriteNothing(t) PROVE SoundInv'
  <2> DEFINE q == Answer(request[t])
  <2>1. /\ request[t] # None
        /\ request' = [request EXCEPT ![t] = q]
        /\ UNCHANGED <<cookie, heard, clock>>
    BY <1>6 DEF Write, WriteNothing
  <2>2. request[t] \in Requests /\ LastBy(request[t].session, heard[request[t].browser])
    BY <2>1, ServedSound
  <2>3. /\ q.session = request[t].session /\ q.browser = request[t].browser
        /\ q \in Requests /\ OtherThanSelf(q)
    BY <2>2, AnswerKeeps
  <2> HIDE DEF q
  <2>5. /\ q \in Requests \cup {None} /\ OtherThanSelf(q)
        /\ LastBy(q.session, heard'[q.browser])
    BY <2>1, <2>2, <2>3
  <2> QED
    BY <1>0, <2>1, <2>5, HeardStill, RequestSound
<1>7. ASSUME NEW t \in Threads, Respond(t) \/ LoseResponse(t) PROVE SoundInv'
  <2>1. /\ request[t] # None
        /\ request' = [request EXCEPT ![t] = None]
        /\ UNCHANGED <<table, heard, clock>>
        /\ cookie' \in {cookie, [cookie EXCEPT ![request[t].browser] = request[t].session]}
    BY <1>7 DEF Respond, LoseResponse
  <2>2. /\ request[t].browser \in Browsers
        /\ LastBy(request[t].session, heard[request[t].browser])
    BY <2>1, ServedSound
  <2>3. \A b \in Browsers : cookie'[b] = cookie[b] \/ LastBy(cookie'[b], heard'[b])
    BY <1>0, <2>1, <2>2
  <2> QED
    BY <1>0, <2>1, <2>3, HeardStill, RequestSound
<1>8. ASSUME Restart PROVE SoundInv'
  <2>1. /\ request' \in {request, [t \in Threads |-> None]}
        /\ UNCHANGED <<cookie, heard, clock>>
    BY <1>8 DEF Restart
  <2>2. \A t \in Threads : request'[t] # None => request'[t] = request[t]
    BY <2>1
  <2> QED
    BY <1>0, <2>1, <2>2 DEF SoundInv, NeverOneself, LastIsHeard
<1>9. CASE Tick
  <2>1. clock' = clock + 1 /\ UNCHANGED <<cookie, request, heard>>
    BY <1>9 DEF Tick
  <2>2. \A b \in Browsers : heard[b] <= clock'
    BY <2>1, Times DEF SoundInv, LastIsHeard
  <2> QED
    BY <1>0, <2>1, <2>2 DEF SoundInv, NeverOneself, LastIsHeard
<1>10. CASE UNCHANGED vars
  BY <1>0, <1>10 DEF vars, SoundInv, NeverOneself, LastIsHeard
<1> QED
  BY <1>1, <1>2, <1>3, <1>4, <1>5, <1>6, <1>7, <1>8, <1>9, <1>10 DEF AccountsNext

\* What the two action properties rest on holds in every reachable state.
LEMMA SoundHolds == AccountsSpec => []SoundInv
BY SoundFirst, SoundStep, PTL DEF AccountsSpec

\* A write by somebody who is still an administrator leaves that one in place, unless it
\* exchanges the table.
LEMMA WriterStays ==
    ASSUME SoundInv, NEW t \in Threads, Write(t), ActiveAdmin(request[t].actor),
           UNCHANGED files
    PROVE  AdminRemains'
<1> DEFINE r == request[t]
<1>1. /\ r # None /\ r.step = "write" /\ ApplyWrite(r)
      /\ r.act.op \in AdminActs
      /\ OtherThanSelf(r)
  BY Served, ServedSound DEF Write, SoundInv
<1>2. /\ r.actor \in DOMAIN user /\ user[r.actor].active /\ user[r.actor].role = "admin"
      /\ DOMAIN user \subseteq issued /\ UsersType
  BY TypedUsers DEF ActiveAdmin, IsActive, SoundInv, Inv, UsersType, IsTable
<1> HIDE DEF r
<1>3. r.actor \in DOMAIN user' /\ user'[r.actor] = user[r.actor]
  <2>1. CASE r.act.op = "user_toggle"
    <3>1. user' = Put(user, r.act.target, [user[r.act.target] EXCEPT !.active = ~r.found])
      BY <1>1, <2>1 DEF ApplyWrite
    <3>2. r.act.target # r.actor
      BY <1>1, <2>1 DEF OtherThanSelf
    <3> QED
      BY <1>2, <3>1, <3>2 DEF Put, Upsert
  <2>2. CASE r.act.op = "user_delete"
    <3>1. user' = Without(user, {r.act.target})
      BY <1>1, <2>2 DEF ApplyWrite
    <3>2. r.act.target # r.actor
      BY <1>1, <2>2 DEF OtherThanSelf
    <3>3. /\ DOMAIN user' = DOMAIN user \ {r.act.target}
          /\ \A k \in DOMAIN user \ {r.act.target} : user'[k] = user[k]
      <4>1. IsTable(user, issued, UserRow)
        BY <1>2 DEF UsersType
      <4> QED
        BY ONLY <3>1, <4>1, WithoutTable, ZenonT(60)
    <3> QED
      BY <1>2, <3>2, <3>3
  <2>3. CASE r.act.op = "user_create"
    <3>1. InsertUser(r.act.name, r.act.role)
      BY <1>1, <2>3 DEF ApplyWrite
    <3> DEFINE row == [name |-> r.act.name, role |-> r.act.role, active |-> TRUE]
    <3>2. PICK u \in UnusedIds(Current) : Become(WithUser(Current, u, r.act.name, r.act.role))
      BY <3>1 DEF InsertUser
    <3>3. u \notin DOMAIN user
      BY <1>2 DEF UnusedIds, Current
    <3>4. user' = Put(user, u, row)
      BY <3>2 DEF Become, WithUser, Current
    <3> HIDE DEF row
    <3> QED
      BY <1>2, <3>3, <3>4 DEF Put, Upsert
  <2>4. CASE r.act.op = "restore"
    <3>1. files' = files + 1
      BY <1>1, <2>4 DEF ApplyWrite, Exchange
    <3> QED
      BY <1>2, <3>1, ClockAssumption DEF UsersType
  <2> QED
    BY <1>1, <2>1, <2>2, <2>3, <2>4 DEF AdminActs
<1> QED
  BY <1>2, <1>3 DEF AdminRemains, ActiveAdmin, IsActive

(***************************************************************************)
(* user_toggle, user_delete, restore: nothing counts the administrators,   *)
(* and still the last one is lost only with the whole table, or to a       *)
(* request whose own actor was removed or deactivated since it was let in, *)
(* with any number of users and threads.                                   *)
(***************************************************************************)
THEOREM AdminLostOnlyToTheRemoved == AccountsSpec => LostOnlyToTheRemoved
<1>1. ASSUME SoundInv, [AccountsNext]_vars, AdminRemains, ~AdminRemains', user' # user,
             files' = files
      PROVE  \E t \in Threads : /\ request[t] # None /\ request[t].step = "write"
                                /\ request'[t] # request[t]
                                /\ ~ActiveAdmin(request[t].actor)
  <2>1. ~Restart
    <3> SUFFICES ASSUME Restart PROVE FALSE
      OBVIOUS
    <3>1. user # EmptyTable
      BY <1>1 DEF AdminRemains, EmptyTable
    <3>2. ~\E f \in Files : Exchange(f)
      BY <1>1, ClockAssumption DEF SoundInv, Inv, AccountsTypeOK, Exchange
    <3>3. files' # files + 1
      BY <1>1, ClockAssumption DEF SoundInv, Inv, AccountsTypeOK
    <3>4. \E f \in Seeded(Current) : Become(f)
      BY <3>3 DEF Restart, Exchange
    <3>5. user' = user
      BY <3>1, <3>4 DEF Seeded, Current, Become
    <3> QED
      BY <1>1, <3>5
  <2>2. PICK t \in Threads : Write(t)
    BY <1>1, <2>1, ZenonT(60) DEF AccountsNext, vars, table, Send, LoadAccepted, LoadRefused,
                      ReadLogin, ReadUsers, WriteNothing, Respond, LoseResponse, Tick
  <2>3. request[t] # None /\ request[t].step = "write" /\ request[t] \in Requests
    BY <1>1, <2>2, ServedSound DEF Write
  <2>4. request'[t] = Answer(request[t])
    BY <1>1, <2>2 DEF Write, SoundInv, Inv, AccountsTypeOK
  <2>5. request'[t] # request[t]
    BY <2>3, <2>4, AnswerKeeps
  <2>6. ~ActiveAdmin(request[t].actor)
    BY <1>1, <2>2, WriterStays
  <2> QED
    BY <2>3, <2>5, <2>6
<1>2. SoundInv /\ [AccountsNext]_vars =>
        [AdminRemains /\ ~AdminRemains' =>
           \/ files' # files
           \/ \E t \in Threads : /\ request[t] # None /\ request[t].step = "write"
                                /\ request'[t] # request[t]
                                /\ ~ActiveAdmin(request[t].actor)]_user
  BY <1>1
<1> QED
  BY <1>2, SoundHolds, PTL DEF AccountsSpec, LostOnlyToTheRemoved

(***************************************************************************)
(* load_logged_in_user: a browser that was not let in for longer than the  *)
(* time-out is next let in by a sign-in, although every cookie it holds    *)
(* comes from a response that may have been late, lost or overtaken.       *)
(***************************************************************************)
THEOREM IdleMustSignIn == AccountsSpec => IdleLock
<1>1. ASSUME SoundInv, [AccountsNext]_vars, NEW b \in Browsers,
             clock - heard[b] > Timeout, heard'[b] # heard[b]
      PROVE  \E t \in Threads : /\ request[t] # None /\ request[t].browser = b
                                /\ request[t].act.op = "login"
  <2>1. heard \in [Browsers -> Time] /\ clock \in Int /\ Timeout \in Int /\ heard[b] \in Int
    BY <1>1, Times, SMTT(60) DEF SoundInv, Inv, AccountsTypeOK
  <2>2. PICK t \in Threads : (\E act \in Acts : LoadAccepted(t, act)) \/ ReadLogin(t)
    BY <1>1 DEF AccountsNext, vars, Send, LoadRefused, ReadUsers, Write, WriteNothing,
                Respond, LoseResponse, Restart, Tick
  <2>3. ~\E act \in Acts : LoadAccepted(t, act)
    <3> SUFFICES ASSUME NEW act \in Acts, LoadAccepted(t, act) PROVE FALSE
      OBVIOUS
    <3>1. /\ clock - heard[request[t].browser] <= Timeout
          /\ heard' = [heard EXCEPT ![request[t].browser] = clock]
      BY <1>1, LoadSound
    <3>2. request[t].browser = b
      BY <1>1, <2>1, <3>1
    <3>3. clock - heard[b] <= Timeout
      BY <3>1, <3>2
    <3> QED
      BY <1>1, <2>1, <3>3
  <2>4. /\ request[t] # None /\ request[t].act.op = "login"
        /\ heard' \in {heard, [heard EXCEPT ![request[t].browser] = clock]}
    BY <1>1, <2>2, <2>3, LoginSound
  <2>5. request[t].browser = b
    BY <1>1, <2>1, <2>4
  <2> QED
    BY <2>4, <2>5
<1>2. SoundInv /\ [AccountsNext]_vars =>
        [\A b \in Browsers :
           /\ clock - heard[b] > Timeout
           /\ heard'[b] # heard[b]
           => \E t \in Threads :
                 request[t] # None /\ request[t].browser = b /\ request[t].act.op = "login"]_heard
  BY <1>1
<1> QED
  BY <1>2, SoundHolds, PTL DEF AccountsSpec, IdleLock
=============================================================================
