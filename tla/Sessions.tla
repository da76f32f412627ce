------------------------------ MODULE Sessions ------------------------------
(***************************************************************************)
(* Accounts and sessions: controllers/authentication.cc over the tables     *)
(* users and user_sessions.  Every statement commits on its own.            *)
(*                                                                         *)
(* An access token names its user and the second it was issued at, so two   *)
(* made in one second are the same token; a refresh token is random.  The   *)
(* password is abstracted: a login that gets it wrong changes nothing.      *)
(***************************************************************************)
EXTENDS Integers, FiniteSets, Tables

CONSTANTS Requests,      \* the requests the server may have in flight
          Names,         \* usernames
          Emails,        \* email addresses
          RefreshTokens, \* bound: the random refresh tokens
          Lifetime,      \* how long a session can be refreshed (a week)
          TokenLifetime, \* how long an access token is accepted (an hour)
          Zone,          \* how far the time zone of the database is ahead of UTC
          MaxTime,       \* bound: the last second
          None           \* the value of a local that is not set

ASSUME TimeAssumption == Lifetime \in Nat /\ TokenLifetime \in 0 .. Lifetime /\ MaxTime \in Nat
ASSUME ZoneAssumption == Zone \in Int
ASSUME NoneAssumption == None \notin Names \cup Emails \cup RefreshTokens

VARIABLES now,      \* the second of the clock
          users,    \* the users table: the email of each username
          sessions, \* the user_sessions table
          issued,   \* the credentials generated so far
          told,     \* the registrations that were answered with success
          held,     \* the credentials clients were given and still use
          pc, req,  \* the next statement and the locals of each request
          overlapped \* have two requests ever been in flight together? (history)

vars == <<now, users, sessions, issued, told, held, pc, req, overlapped>>

-----------------------------------------------------------------------------
Token == [user : Names, at : 0 .. MaxTime]
Session == [user : Names, token : Token, refresh : RefreshTokens,
            expires : 0 .. MaxTime + Lifetime]

Locals == [op : {"none", "register", "login", "refresh", "logout"},
           name : Names \cup {None}, email : Emails \cup {None},
           old : Session \cup {None},  \* the credentials the client sent
           new : Session \cup {None}]  \* the credentials to store and answer
NoLocals == [op |-> "none", name |-> None, email |-> None, old |-> None, new |-> None]

(* generate_jwt, generate_refresh_token and the expiry. *)
Credentials(u, refresh) ==
    [user |-> u, token |-> [user |-> u, at |-> now], refresh |-> refresh,
     expires |-> now + Lifetime]

(* AuthMiddleware accepts a token by its signature and its age alone, whether *)
(* or not there still is a session.                                          *)
Authorized(token) == now <= token.at + TokenLifetime

Begin(r, label, locals) ==
    /\ pc[r] = "idle"
    /\ pc' = [pc EXCEPT ![r] = label]
    /\ req' = [req EXCEPT ![r] = locals]
    /\ overlapped' = (overlapped \/ \E s \in Requests : pc[s] # "idle")
    /\ UNCHANGED <<now, users, sessions, issued, told, held>>

Continue(r, label) == /\ pc' = [pc EXCEPT ![r] = label]
                      /\ UNCHANGED overlapped
End(r) == /\ pc' = [pc EXCEPT ![r] = "idle"]
          /\ req' = [req EXCEPT ![r] = NoLocals]
          /\ UNCHANGED overlapped

Register(r, u, e) ==
    Begin(r, "check", [NoLocals EXCEPT !.op = "register", !.name = u, !.email = e])
Login(r, u) ==
    Begin(r, "user", [NoLocals EXCEPT !.op = "login", !.name = u])
Refresh(r, c) ==
    Begin(r, "find", [NoLocals EXCEPT !.op = "refresh", !.name = c.user, !.old = c])
(* An expired token is refused: it has to be refreshed before a logout. *)
Logout(r, c) ==
    /\ Authorized(c.token)
    /\ Begin(r, "delete", [NoLocals EXCEPT !.op = "logout", !.name = c.user, !.old = c])

-----------------------------------------------------------------------------
(* The token is made when the statement before its INSERT or UPDATE is done. *)
Issue(r, label) ==
    /\ \E refresh \in RefreshTokens \ {c.refresh : c \in issued} :
          LET c == Credentials(req[r].name, refresh) IN
          /\ issued' = issued \cup {c}
          /\ req' = [req EXCEPT ![r].new = c]
    /\ Continue(r, label)

Taken(u, e) == \E v \in DOMAIN users : v = u \/ users[v] = e

CheckUser(r) ==
    /\ pc[r] = "check"
    /\ \/ ~ Taken(req[r].name, req[r].email) /\ Continue(r, "insert") /\ UNCHANGED req
       \/ Taken(req[r].name, req[r].email) /\ End(r)
    /\ UNCHANGED <<now, users, sessions, issued, told, held>>

(* Mutation: ON CONFLICT (username) DO UPDATE SET email. *)
UpsertUser(r) ==
    /\ pc[r] = "insert"
    /\ users' = Row(req[r].name, req[r].email) \oplus users
    /\ Issue(r, "session")
    /\ UNCHANGED <<now, sessions, told, held>>

(* The UNIQUE constraints answer two registrations that both passed the check. *)
InsertUser(r) ==
    /\ pc[r] = "insert" /\ ~ Taken(req[r].name, req[r].email)
    /\ users' = Row(req[r].name, req[r].email) \oplus users
    /\ Issue(r, "session")
    /\ UNCHANGED <<now, sessions, told, held>>

InsertUserConflict(r) ==
    /\ pc[r] = "insert" /\ Taken(req[r].name, req[r].email)
    /\ End(r)
    /\ UNCHANGED <<now, users, sessions, issued, told, held>>

(* Mutation: the credentials are stored before they are made. *)
SelectUserOnly(r) ==
    /\ pc[r] = "user" /\ req[r].name \in DOMAIN users
    /\ Continue(r, "session")
    /\ UNCHANGED <<now, users, sessions, issued, told, held, req>>

SelectUser(r) ==
    /\ pc[r] = "user" /\ req[r].name \in DOMAIN users
    /\ Issue(r, "session")
    /\ UNCHANGED <<now, users, sessions, told, held>>

(* ON CONFLICT (token) DO NOTHING: the answer is the same when nothing was   *)
(* inserted.                                                                *)
InsertSession(r) ==
    LET c == req[r].new IN
    /\ pc[r] = "session"
    /\ sessions' = IF \E s \in sessions : s.token = c.token THEN sessions
                   ELSE sessions \cup {c}
    /\ held' = held \cup {c}
    /\ told' = IF req[r].op = "register"
               THEN told \cup {<<req[r].name, req[r].email>>} ELSE told
    /\ End(r)
    /\ UNCHANGED <<now, users, issued>>

-----------------------------------------------------------------------------
(* to_timestamp puts the expiry into a TIMESTAMP, as the local time of the   *)
(* database, and what is read of it is taken for UTC.                       *)
ReadExpiry(s) == s.expires + Zone

Valid(r) == \E s \in sessions : s.refresh = req[r].old.refresh /\ ReadExpiry(s) >= now

FindSession(r) ==
    /\ pc[r] = "find"
    /\ \/ Valid(r) /\ Continue(r, "name") /\ UNCHANGED req
       \/ ~ Valid(r) /\ End(r)
    /\ UNCHANGED <<now, users, sessions, issued, told, held>>

SelectName(r) ==
    /\ pc[r] = "name"
    /\ Issue(r, "update")
    /\ UNCHANGED <<now, users, sessions, told, held>>

(* The rows the UPDATE names, and the row it makes of one. *)
Refreshed(r) == {s \in sessions : s.refresh = req[r].old.refresh}

(* Mutation: the refresh token is not written. *)
KeepRefreshToken(r, s) ==
    [s EXCEPT !.token = req[r].new.token, !.expires = req[r].new.expires]
SessionOf(r, s) ==
    [s EXCEPT !.token = req[r].new.token, !.refresh = req[r].new.refresh,
              !.expires = req[r].new.expires]

TokenTaken(r) ==
    Refreshed(r) # {} /\ \E s \in sessions \ Refreshed(r) : s.token = req[r].new.token

(* Mutation: the session is deleted and its successor forgotten. *)
DropSession(r) ==
    /\ pc[r] = "update" /\ ~ TokenTaken(r)
    /\ sessions' = sessions \ Refreshed(r)
    /\ held' = (held \ {req[r].old}) \cup {req[r].new}
    /\ End(r)
    /\ UNCHANGED <<now, users, issued, told>>

(* Nobody looks at how many rows the UPDATE wrote. *)
UpdateSession(r) ==
    /\ pc[r] = "update" /\ ~ TokenTaken(r)
    /\ sessions' = (sessions \ Refreshed(r)) \cup {SessionOf(r, s) : s \in Refreshed(r)}
    /\ held' = (held \ {req[r].old}) \cup {req[r].new}
    /\ End(r)
    /\ UNCHANGED <<now, users, issued, told>>

DeleteSession(r) ==
    LET token == req[r].old.token IN
    /\ pc[r] = "delete"
    /\ sessions' = {s \in sessions : s.token # token}
    /\ held' = {c \in held : c.token # token}
    /\ End(r)
    /\ UNCHANGED <<now, users, issued, told>>

(* A statement fails, the UPDATE that meets a taken token among them, or a   *)
(* login names no user.                                                     *)
Fail(r) ==
    /\ pc[r] # "idle"
    /\ End(r)
    /\ UNCHANGED <<now, users, sessions, issued, told, held>>

Tick ==
    /\ now < MaxTime
    /\ now' = now + 1
    /\ UNCHANGED <<users, sessions, issued, told, held, pc, req, overlapped>>

-----------------------------------------------------------------------------
Init ==
    /\ now = 0
    /\ users = NoRows
    /\ sessions = {}
    /\ issued = {}
    /\ told = {}
    /\ held = {}
    /\ pc = [r \in Requests |-> "idle"]
    /\ req = [r \in Requests |-> NoLocals]
    /\ overlapped = FALSE

Arrive(r) ==
    \/ \E u \in Names, e \in Emails : Register(r, u, e)
    \/ \E u \in Names : Login(r, u)
    \/ \E c \in held : Refresh(r, c) \/ Logout(r, c)

Step(r) ==
    \/ CheckUser(r) \/ InsertUser(r) \/ InsertUserConflict(r)
    \/ SelectUser(r) \/ InsertSession(r)
    \/ FindSession(r) \/ SelectName(r) \/ UpdateSession(r)
    \/ DeleteSession(r) \/ Fail(r)

Next == Tick \/ \E r \in Requests : Arrive(r) \/ Step(r)

Spec == Init /\ [][Next]_vars

-----------------------------------------------------------------------------
(* Every variable holds rows, credentials, locals and labels of its kind. *)
TypeOK ==
    /\ now \in 0 .. MaxTime
    /\ users \in Tables(Names, Emails)
    /\ sessions \subseteq Session
    /\ issued \subseteq Session
    /\ told \subseteq Names \X Emails
    /\ held \subseteq Session
    /\ pc \in [Requests -> {"idle", "check", "insert", "user", "session", "find",
                            "name", "update", "delete"}]
    /\ req \in [Requests -> Locals]
    /\ overlapped \in BOOLEAN

(* Whoever was told that he is registered is: the name and the email are     *)
(* his, whatever other registrations passed the check at the same time.      *)
ToldIsRegistered ==
    \A t \in told : t[1] \in DOMAIN users /\ users[t[1]] = t[2]

(* Every session was given to a client, who can refresh it and end it: none  *)
(* is left behind by requests of one client that race.                       *)
EverySessionIsHeld ==
    \A s \in sessions : \E c \in held : c.token = s.token /\ c.refresh = s.refresh

(* As long as no two requests were in flight together, the credentials a    *)
(* client was given can be refreshed until their expiry, as it is read back  *)
(* from the time zone of the database, whatever logins, refreshes, logouts   *)
(* and failures there were; but for credentials made in one second for one   *)
(* user, which share an access token and so a row.                          *)
HeldCanBeRefreshed ==
    \A c \in held :
        /\ ~ overlapped
        /\ ReadExpiry(c) >= now
        /\ \A d \in issued : d.token = c.token => d = c
        => \E s \in sessions : s.refresh = c.refresh /\ s.user = c.user
                               /\ ReadExpiry(s) >= now

=============================================================================
