--------------------------- MODULE SessionsProofs ---------------------------
(***************************************************************************)
(* Theorems about Sessions, for any number of requests, users and tokens.   *)
(***************************************************************************)
EXTENDS Sessions, TableLemmas

-----------------------------------------------------------------------------
(* What the locals l of a request are at each label: the statements between  *)
(* the arrival and the answer neither forget nor invent a credential.       *)
LocalsAt(label, l) ==
    /\ label \in {"check", "insert"} =>
          l.op = "register" /\ l.name \in Names /\ l.email \in Emails
    /\ label = "user" => l.op = "login" /\ l.name \in Names
    /\ label = "session" =>
          /\ l.op \in {"register", "login"} /\ l.new \in issued
          /\ l.op = "register" =>
                l.email \in Emails /\ l.name \in DOMAIN users /\ users[l.name] = l.email
    /\ label \in {"find", "name", "update"} => l.old \in issued /\ l.name = l.old.user
    /\ label = "update" => l.new \in issued /\ l.new.user = l.old.user
    /\ label = "delete" => l.old \in issued

LocalsInv == \A r \in Requests : LocalsAt(pc[r], req[r])

(* What is stored or held was issued, and a refresh token is issued once. *)
IssuedInv ==
    /\ sessions \subseteq issued
    /\ held \subseteq issued
    /\ \A c, d \in issued : c.refresh = d.refresh => c = d

(* As long as requests took turns, one is in flight at most, the row that a  *)
(* refresh has found is there until it is written, and credentials that no   *)
(* others equal are stored.                                                 *)
Alone(c) == \A d \in issued : d.token = c.token => d = c
TurnsInv ==
    ~ overlapped =>
        /\ \A r, s \in Requests : pc[r] # "idle" /\ pc[s] # "idle" => r = s
        /\ \A r \in Requests : pc[r] \in {"name", "update"} => req[r].old \in sessions
        /\ \A c \in held : ReadExpiry(c) >= now /\ Alone(c) => c \in sessions

(* The whole inductive invariant. *)
IInv ==
    TypeOK /\ LocalsInv /\ IssuedInv /\ TurnsInv /\ ToldIsRegistered /\ EverySessionIsHeld

-----------------------------------------------------------------------------
(* The locals of a request that is over are locals. *)
LEMMA NoLocalsType == NoLocals \in Locals
BY DEF NoLocals, Locals

(* Nobody has an account, a session or a request at first. *)
LEMMA InitInv == Init => IInv
<1> SUFFICES ASSUME Init PROVE IInv
    OBVIOUS
<1>1. TypeOK
    <2>1. users \in Tables(Names, Emails)
        BY NoRowsIsTable DEF Init
    <2>2. now \in 0 .. MaxTime
        BY TimeAssumption DEF Init
    <2> QED
        BY <2>1, <2>2, NoLocalsType DEF Init, TypeOK
<1>2. LocalsInv
    BY DEF Init, LocalsInv, LocalsAt
<1> QED
    BY <1>1, <1>2 DEF Init, IInv, IssuedInv, TurnsInv, ToldIsRegistered, EverySessionIsHeld

(* A request arrives: nothing of the tables changes. *)
LEMMA BeginInv ==
    ASSUME IInv, NEW r \in Requests, NEW label, NEW locals \in Locals,
           label \in {"check", "user", "find", "delete"},
           Begin(r, label, locals), LocalsAt(label, locals)
    PROVE  IInv'
<1> USE DEF IInv
<1>1. TypeOK'
    BY DEF TypeOK, Begin
<1>2. LocalsInv'
    BY DEF TypeOK, Begin, LocalsInv, LocalsAt
<1>3. TurnsInv'
    BY DEF TypeOK, Begin, TurnsInv, ReadExpiry, Alone
<1> QED
    BY <1>1, <1>2, <1>3 DEF Begin, IssuedInv, ToldIsRegistered, EverySessionIsHeld

(* A client registers, logs in, refreshes or logs out. *)
LEMMA ArriveInv ==
    ASSUME IInv, NEW r \in Requests, Arrive(r)
    PROVE  IInv'
<1>1. CASE \E u \in Names, e \in Emails : Register(r, u, e)
    <2> PICK u \in Names, e \in Emails : Register(r, u, e)
        BY <1>1
    <2> DEFINE locals == [NoLocals EXCEPT !.op = "register", !.name = u, !.email = e]
    <2>1. locals \in Locals /\ LocalsAt("check", locals)
        BY DEF Locals, NoLocals, LocalsAt
    <2> QED
        BY <2>1, BeginInv DEF Register
<1>2. CASE \E u \in Names : Login(r, u)
    <2> PICK u \in Names : Login(r, u)
        BY <1>2
    <2> DEFINE locals == [NoLocals EXCEPT !.op = "login", !.name = u]
    <2>1. locals \in Locals /\ LocalsAt("user", locals)
        BY DEF Locals, NoLocals, LocalsAt
    <2> QED
        BY <2>1, BeginInv DEF Login
<1>3. CASE \E c \in held : Refresh(r, c) \/ Logout(r, c)
    <2> PICK c \in held : Refresh(r, c) \/ Logout(r, c)
        BY <1>3
    <2> DEFINE Of(op) == [NoLocals EXCEPT !.op = op, !.name = c.user, !.old = c]
    <2>1. c \in Session /\ c \in issued
        BY DEF IInv, TypeOK, IssuedInv
    <2>2. Of("refresh") \in Locals /\ LocalsAt("find", Of("refresh"))
        BY <2>1 DEF Locals, NoLocals, LocalsAt, Session
    <2>3. Of("logout") \in Locals /\ LocalsAt("delete", Of("logout"))
        BY <2>1 DEF Locals, NoLocals, LocalsAt, Session
    <2> QED
        BY <2>2, <2>3, BeginInv DEF Refresh, Logout
<1> QED
    BY <1>1, <1>2, <1>3 DEF Arrive

(* A request that is over has no claims on the tables. *)
LEMMA EndKeeps ==
    ASSUME IInv, NEW r \in Requests, End(r), users' = users, issued' = issued
    PROVE  LocalsInv'
BY DEF IInv, TypeOK, End, LocalsInv, LocalsAt

(* A request ends without having written. *)
LEMMA EndInv ==
    ASSUME IInv, NEW r \in Requests, End(r),
           UNCHANGED <<now, users, sessions, issued, told, held>>
    PROVE  IInv'
<1> USE DEF IInv
<1>1. TypeOK'
    BY NoLocalsType DEF TypeOK, End
<1>2. LocalsInv'
    BY EndKeeps
<1>3. TurnsInv'
    BY DEF TypeOK, End, TurnsInv, ReadExpiry, Alone
<1> QED
    BY <1>1, <1>2, <1>3 DEF End, IssuedInv, ToldIsRegistered, EverySessionIsHeld

(* A request goes on with the locals it has. *)
LEMMA ContinueInv ==
    ASSUME IInv, NEW r \in Requests, NEW label,
           label \in {"insert", "name"}, pc[r] # "idle",
           Continue(r, label), LocalsAt(label, req[r]),
           ~ overlapped /\ label = "name" => req[r].old \in sessions,
           UNCHANGED <<now, users, sessions, issued, told, held, req>>
    PROVE  IInv'
<1> USE DEF IInv
<1>1. TypeOK'
    BY DEF TypeOK, Continue
<1>2. LocalsInv'
    BY DEF TypeOK, Continue, LocalsInv, LocalsAt
<1>3. TurnsInv'
    BY DEF TypeOK, Continue, TurnsInv, ReadExpiry, Alone
<1> QED
    BY <1>1, <1>2, <1>3 DEF Continue, IssuedInv, ToldIsRegistered, EverySessionIsHeld

(* The check of a registration, which another may overtake. *)
LEMMA CheckUserInv ==
    ASSUME IInv, NEW r \in Requests, CheckUser(r)
    PROVE  IInv'
<1>1. LocalsAt("insert", req[r])
    BY DEF IInv, LocalsInv, LocalsAt, CheckUser
<1> QED
    BY <1>1, ContinueInv, EndInv DEF CheckUser

(* A refresh finds a row: it is the one of the credentials that were sent,   *)
(* since a refresh token is issued once.                                    *)
LEMMA FindSessionInv ==
    ASSUME IInv, NEW r \in Requests, FindSession(r)
    PROVE  IInv'
<1>1. LocalsAt("name", req[r])
    BY DEF IInv, LocalsInv, LocalsAt, FindSession
<1>2. Valid(r) => req[r].old \in sessions
    BY DEF IInv, LocalsInv, LocalsAt, IssuedInv, FindSession, Valid
<1> QED
    BY <1>1, <1>2, ContinueInv, EndInv DEF FindSession

(* New credentials are those of a user, and of no others.                   *)
LEMMA IssueFacts ==
    ASSUME IInv, NEW r \in Requests, NEW label, label \in {"session", "update"},
           req[r].name \in Names, Issue(r, label)
    PROVE  \E c \in Session \ issued :
              /\ issued' = issued \cup {c} /\ c.user = req[r].name
              /\ \A d \in issued : d.refresh # c.refresh
              /\ req' = [req EXCEPT ![r].new = c]
              /\ pc' = [pc EXCEPT ![r] = label]
              /\ overlapped' = overlapped
<1> PICK refresh \in RefreshTokens \ {c.refresh : c \in issued} :
        /\ issued' = issued \cup {Credentials(req[r].name, refresh)}
        /\ req' = [req EXCEPT ![r].new = Credentials(req[r].name, refresh)]
    BY DEF Issue
<1> DEFINE c == Credentials(req[r].name, refresh)
<1>1. c \in Session /\ c.user = req[r].name /\ c.refresh = refresh
    BY TimeAssumption DEF IInv, TypeOK, Credentials, Session, Token
<1>2. \A d \in issued : d.refresh # c.refresh
    BY <1>1
<1> QED
    BY <1>1, <1>2 DEF Issue, Continue

(* Credentials are made in a step that changes no row but one of users. *)
LEMMA IssueInv ==
    ASSUME IInv, NEW r \in Requests, NEW label, label \in {"session", "update"},
           pc[r] # "idle", req[r].name \in Names, Issue(r, label),
           label = "session" =>
              /\ req[r].op \in {"register", "login"}
              /\ req[r].op = "register" =>
                    /\ req[r].email \in Emails /\ req[r].name \in DOMAIN users'
                    /\ users'[req[r].name] = req[r].email,
           label = "update" =>
              /\ req[r].old \in issued /\ req[r].name = req[r].old.user
              /\ ~ overlapped => req[r].old \in sessions,
           users' \in Tables(Names, Emails),
           \A u \in DOMAIN users : u \in DOMAIN users' /\ users'[u] = users[u],
           UNCHANGED <<now, sessions, told, held>>
    PROVE  IInv'
<1> USE DEF IInv
<1> PICK c \in Session \ issued :
        /\ issued' = issued \cup {c} /\ c.user = req[r].name
        /\ \A d \in issued : d.refresh # c.refresh
        /\ req' = [req EXCEPT ![r].new = c]
        /\ pc' = [pc EXCEPT ![r] = label]
        /\ overlapped' = overlapped
    BY IssueFacts
<1>0. /\ req'[r] = [req[r] EXCEPT !.new = c]
      /\ \A s \in Requests \ {r} : req'[s] = req[s]
      /\ pc'[r] = label /\ \A s \in Requests \ {r} : pc'[s] = pc[s]
    BY DEF TypeOK
<1>1. TypeOK'
    BY DEF TypeOK, Locals
<1>2. LocalsInv'
    <2>1. LocalsAt(pc[r], req[r])'
        BY <1>0 DEF TypeOK, LocalsAt, Locals
    <2>2. \A s \in Requests \ {r} : LocalsAt(pc[s], req[s])'
        BY <1>0 DEF LocalsInv, LocalsAt
    <2> QED
        BY <1>0, <2>1, <2>2 DEF LocalsInv
<1>3. IssuedInv'
    BY DEF IssuedInv
<1>4. TurnsInv'
    <2>1. req'[r].old = req[r].old
        BY <1>0 DEF TypeOK, Locals
    <2>2. \A d \in held : Alone(d)' => Alone(d)
        BY DEF Alone
    <2> QED
        BY <1>0, <2>1, <2>2 DEF TurnsInv
<1>5. ToldIsRegistered'
    BY DEF ToldIsRegistered
<1>6. EverySessionIsHeld'
    BY DEF EverySessionIsHeld
<1> QED
    BY <1>1, <1>2, <1>3, <1>4, <1>5, <1>6

(* The row of a new user keeps the rows that are there. *)
LEMMA InsertUserInv ==
    ASSUME IInv, NEW r \in Requests, InsertUser(r)
    PROVE  IInv'
<1> DEFINE u == req[r].name  e == req[r].email
<1>1. u \in Names /\ e \in Emails /\ req[r].op = "register"
    BY DEF IInv, LocalsInv, LocalsAt, InsertUser
<1>2. users' \in Tables(Names, Emails)
    BY <1>1, OneRow, Overlay DEF IInv, TypeOK, InsertUser
<1>3. DOMAIN Row(u, e) = {u} /\ Row(u, e)[u] = e /\ users' = Row(u, e) \oplus users
    BY DEF Row, InsertUser
<1>4. \A v \in DOMAIN users : v \in DOMAIN users' /\ users'[v] = users[v]
    BY <1>3 DEF \oplus, InsertUser, Taken
<1>5. u \in DOMAIN users' /\ users'[u] = e
    BY <1>3 DEF \oplus
<1> QED
    BY <1>1, <1>2, <1>4, <1>5, IssueInv DEF InsertUser

(* A login makes credentials for the user it names. *)
LEMMA SelectUserInv ==
    ASSUME IInv, NEW r \in Requests, SelectUser(r)
    PROVE  IInv'
<1>1. req[r].name \in Names /\ req[r].op = "login"
    BY DEF IInv, LocalsInv, LocalsAt, SelectUser
<1>2. users \in Tables(Names, Emails)
    BY DEF IInv, TypeOK
<1> QED
    BY <1>1, <1>2, IssueInv DEF SelectUser

(* A refresh makes credentials for the user of those that were sent. *)
LEMMA SelectNameInv ==
    ASSUME IInv, NEW r \in Requests, SelectName(r)
    PROVE  IInv'
<1>1. req[r].old \in issued /\ req[r].name = req[r].old.user
    BY DEF IInv, LocalsInv, LocalsAt, SelectName
<1>2. req[r].name \in Names
    BY <1>1 DEF IInv, TypeOK, Session
<1>3. ~ overlapped => req[r].old \in sessions
    BY DEF IInv, TurnsInv, SelectName
<1>4. users \in Tables(Names, Emails)
    BY DEF IInv, TypeOK
<1> QED
    BY <1>1, <1>2, <1>3, <1>4, IssueInv DEF SelectName

(* The answer of a registration or a login: told only what is in the table,  *)
(* and stored unless another session has the same token.                    *)
LEMMA InsertSessionInv ==
    ASSUME IInv, NEW r \in Requests, InsertSession(r)
    PROVE  IInv'
<1> USE DEF IInv
<1> DEFINE c == req[r].new
<1>1. /\ c \in issued /\ c \in Session
      /\ req[r].op = "register" =>
            /\ req[r].email \in Emails /\ req[r].name \in DOMAIN users
            /\ users[req[r].name] = req[r].email
    BY DEF LocalsInv, LocalsAt, InsertSession, TypeOK
<1>2. sessions' \subseteq sessions \cup {c} /\ sessions \subseteq sessions'
    BY DEF InsertSession
<1>3. TypeOK'
    <2>1. DOMAIN users \subseteq Names
        BY TableIsFunction DEF TypeOK
    <2>2. told' \subseteq Names \X Emails
        BY <1>1, <2>1 DEF TypeOK, InsertSession
    <2> QED
        BY <1>1, <1>2, <2>2, NoLocalsType DEF TypeOK, InsertSession, End
<1>4. LocalsInv'
    BY EndKeeps DEF InsertSession
<1>5. IssuedInv'
    BY <1>1, <1>2 DEF IssuedInv, InsertSession
<1>6. TurnsInv'
    <2>1. Alone(c) => c \in sessions'
        BY DEF Alone, IssuedInv, InsertSession
    <2> QED
        BY <1>2, <2>1 DEF TypeOK, TurnsInv, ReadExpiry, Alone, InsertSession, End
<1>7. ToldIsRegistered'
    BY <1>1 DEF ToldIsRegistered, InsertSession
<1>8. EverySessionIsHeld'
    BY <1>2 DEF EverySessionIsHeld, InsertSession
<1> QED
    BY <1>3, <1>4, <1>5, <1>6, <1>7, <1>8

(* The UPDATE of a refresh: it writes the row of the credentials that were   *)
(* sent, or none, and makes it the row of the new ones.                     *)
LEMMA UpdateSessionInv ==
    ASSUME IInv, NEW r \in Requests, UpdateSession(r)
    PROVE  IInv'
<1> USE DEF IInv
<1> DEFINE old == req[r].old  new == req[r].new
<1>1. old \in issued /\ new \in issued /\ new.user = old.user
    BY DEF LocalsInv, LocalsAt, UpdateSession
<1>2. old \in Session /\ new \in Session
    BY <1>1 DEF TypeOK
<1>3. \A s \in sessions : s.refresh = old.refresh <=> s = old
    BY <1>1 DEF IssuedInv
<1>4. SessionOf(r, old) = new
    BY <1>1, <1>2 DEF SessionOf, Session
<1>5. sessions' = (sessions \ {old}) \cup (IF old \in sessions THEN {new} ELSE {})
    <2>1. Refreshed(r) = IF old \in sessions THEN {old} ELSE {}
        BY <1>3 DEF Refreshed
    <2> QED
        BY <1>4, <2>1 DEF UpdateSession
<1>6. TypeOK'
    BY <1>2, <1>5, NoLocalsType DEF TypeOK, UpdateSession, End
<1>7. LocalsInv'
    BY EndKeeps DEF UpdateSession
<1>8. IssuedInv'
    BY <1>1, <1>5 DEF IssuedInv, UpdateSession
<1>9. TurnsInv'
    BY <1>5 DEF TypeOK, TurnsInv, ReadExpiry, Alone, UpdateSession, End
<1>10. EverySessionIsHeld'
    <2> SUFFICES ASSUME NEW s \in sessions'
                 PROVE  \E c \in held' : c.token = s.token /\ c.refresh = s.refresh
        BY DEF EverySessionIsHeld
    <2>1. CASE s = new
        BY <2>1 DEF UpdateSession
    <2>2. CASE s \in sessions /\ s # old
        <3> PICK c \in held : c.token = s.token /\ c.refresh = s.refresh
            BY <2>2 DEF EverySessionIsHeld
        <3>1. c # old
            BY <1>3, <2>2
        <3> QED
            BY <3>1 DEF UpdateSession
    <2> QED
        BY <1>5, <2>1, <2>2
<1> QED
    BY <1>6, <1>7, <1>8, <1>9, <1>10 DEF ToldIsRegistered, UpdateSession

(* A logout deletes the row of a token, and its client forgets it. *)
LEMMA DeleteSessionInv ==
    ASSUME IInv, NEW r \in Requests, DeleteSession(r)
    PROVE  IInv'
<1> USE DEF IInv
<1>1. TypeOK'
    BY NoLocalsType DEF TypeOK, DeleteSession, End
<1>2. LocalsInv'
    BY EndKeeps DEF DeleteSession
<1>3. IssuedInv'
    BY DEF IssuedInv, DeleteSession
<1>4. TurnsInv'
    BY DEF TypeOK, TurnsInv, ReadExpiry, Alone, DeleteSession, End
<1>5. EverySessionIsHeld'
    BY DEF EverySessionIsHeld, DeleteSession
<1> QED
    BY <1>1, <1>2, <1>3, <1>4, <1>5 DEF ToldIsRegistered, DeleteSession

(* A second goes by: credentials may expire. *)
LEMMA TickInv == ASSUME IInv, Tick PROVE IInv'
<1> USE DEF IInv
<1>1. TypeOK'
    BY TimeAssumption DEF TypeOK, Tick
<1>2. LocalsInv'
    BY DEF LocalsInv, LocalsAt, Tick
<1>3. TurnsInv'
    <2>1. \A c \in held : ReadExpiry(c)' >= now' => ReadExpiry(c) >= now
        BY TimeAssumption, ZoneAssumption DEF TypeOK, Session, Tick, ReadExpiry
    <2> QED
        BY <2>1 DEF TurnsInv, ReadExpiry, Alone, Tick
<1> QED
    BY <1>1, <1>2, <1>3 DEF IssuedInv, ToldIsRegistered, EverySessionIsHeld, Tick

(* Every step keeps the invariant. *)
LEMMA NextInv == IInv /\ [Next]_vars => IInv'
<1> SUFFICES ASSUME IInv, [Next]_vars PROVE IInv'
    OBVIOUS
<1>1. CASE UNCHANGED vars
    BY <1>1 DEF vars, IInv, TypeOK, LocalsInv, LocalsAt, IssuedInv, TurnsInv, ReadExpiry, Alone,
                ToldIsRegistered, EverySessionIsHeld
<1>2. ASSUME NEW r \in Requests, Step(r) PROVE IInv'
    BY <1>2, CheckUserInv, InsertUserInv, EndInv, SelectUserInv, InsertSessionInv,
       FindSessionInv, SelectNameInv, UpdateSessionInv, DeleteSessionInv
       DEF Step, InsertUserConflict, Fail
<1> QED
    BY <1>1, <1>2, TickInv, ArriveInv DEF Next

-----------------------------------------------------------------------------
(* The inductive invariant holds in every reachable state of Sessions: the   *)
(* handlers of authentication.cc, however they interleave and fail.         *)
THEOREM Invariance == Spec => []IInv
<1> QED
    BY InitInv, NextInv, PTL DEF Spec

(* Every variable holds rows, credentials, locals and labels of its kind. *)
THEOREM TypeCorrect == Spec => []TypeOK
<1>1. IInv => TypeOK
    BY DEF IInv
<1> QED
    BY <1>1, Invariance, PTL

(* Whoever register_user told that he is registered is, under that name and  *)
(* that email.                                                              *)
THEOREM TheToldAreRegistered == Spec => []ToldIsRegistered
<1>1. IInv => ToldIsRegistered
    BY DEF IInv
<1> QED
    BY <1>1, Invariance, PTL

(* No row of user_sessions is left that no client can refresh and end. *)
THEOREM SessionsAreHeld == Spec => []EverySessionIsHeld
<1>1. IInv => EverySessionIsHeld
    BY DEF IInv
<1> QED
    BY <1>1, Invariance, PTL

(* As long as no two requests overlapped, the credentials a client was given *)
(* can be refreshed until their expiry as it is read back, but for those     *)
(* that share a token.                                                      *)
THEOREM TheHeldCanBeRefreshed == Spec => []HeldCanBeRefreshed
<1>1. IInv => HeldCanBeRefreshed
    BY DEF IInv, TurnsInv, ReadExpiry, Alone, HeldCanBeRefreshed
<1> QED
    BY <1>1, Invariance, PTL

=============================================================================
