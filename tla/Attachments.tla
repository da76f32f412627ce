----------------------------- MODULE Attachments -----------------------------
(***************************************************************************)
(* The requests that attach media to a row in a transaction of their own:   *)
(* create_post and update_post of controllers/community.cc, create_offer    *)
(* and update_offer of controllers/offers.cc, send_message of               *)
(* controllers/chats.cc, with process_media_attachments of                  *)
(* controllers/scenario_specific_utils.hpp, the object store they ask and   *)
(* the pool of database connections they share.                             *)
(*                                                                         *)
(* A transaction holds a connection from its first statement until its      *)
(* last reference dies, which is when it commits: after the answer.  An SQL *)
(* error rolls it back at once.  Each element of Requests is one request.   *)
(***************************************************************************)
EXTENDS Naturals, Sequences, FiniteSets, Tables

CONSTANTS Requests,   \* the requests
          Operations, \* the operations they may ask for
          Posts, Offers, Messages, \* bound: the ids of the rows
          Existing,   \* the posts and offers there from the start
          Keys,       \* the object keys a client may name
          MaxKeys,    \* bound: the keys of one request (MAX_MEDIA_SIZE)
          PoolSize,   \* number_of_connections
          Faults,     \* whether statements, connections and the process may fail
          None

Owners == Posts \cup Offers \cup Messages
AllOperations == {"create_post", "update_post", "create_offer", "update_offer",
                  "send_message"}

ASSUME OperationsAssumption == Operations \subseteq AllOperations
ASSUME OwnersAssumption == /\ Existing \subseteq Posts \cup Offers
                           /\ Posts \cap Offers = {}
                           /\ Messages \cap (Posts \cup Offers) = {}
ASSUME BoundsAssumption == /\ MaxKeys \in Nat /\ PoolSize \in Nat \ {0}
                           /\ Faults \in BOOLEAN
ASSUME NoneAssumption == None \notin Requests \cup Owners

VARIABLES uploaded, \* the keys of the objects in the bucket
          stored,   \* posts, offers and messages: who wrote each row last
          media,    \* the keys of the media table
          links,    \* post_media, offer_media, message_media: who linked what
          notes,    \* offer_notifications: the offers the owner of the post is told of
          pc,       \* the next statement of each request
          req,      \* the locals of each request
          tx,       \* what the open transaction of each request has written
          holding   \* the requests that hold a connection

db == <<stored, media, links, notes>>
vars == <<uploaded, stored, media, links, notes, pc, req, tx, holding>>

-----------------------------------------------------------------------------
Writer == Requests \cup {None}
KeyLists == UNION {[1..n -> Keys] : n \in 0..MaxKeys}
NamedBy(keys) == {keys[i] : i \in DOMAIN keys}

Locals == [op : AllOperations \cup {"none"}, owner : Owners \cup {None},
           keys : KeyLists, left : KeyLists, processed : 0..MaxKeys,
           answer : {"none", "success", "failed"}]
NoLocals == [op |-> "none", owner |-> None, keys |-> <<>>, left |-> <<>>,
             processed |-> 0, answer |-> "none"]
NoWrites == [stored |-> NoRows, media |-> {}, links |-> NoRows, notes |-> {}]

Rows(op) == CASE op \in {"create_post", "update_post"} -> Posts
              [] op \in {"create_offer", "update_offer"} -> Offers
              [] OTHER -> Messages
Updates == {"update_post", "update_offer"}

FreeConnection == Cardinality(holding) < PoolSize

(* An id is taken from the sequence of its table, committed or not. *)
Taken == DOMAIN stored \cup UNION {DOMAIN tx[r].stored : r \in Requests}

-----------------------------------------------------------------------------
Goto(r, label) == pc' = [pc EXCEPT ![r] = label]
Set(r, field, value) == req' = [req EXCEPT ![r][field] = value]

(* The connection of a transaction that is over goes back to the pool. *)
Release(r) == /\ holding' = holding \ {r}
              /\ tx' = [tx EXCEPT ![r] = NoWrites]

RolledBack(r, answer) == /\ Release(r)
                         /\ Set(r, "answer", answer)
                         /\ Goto(r, "done")
                         /\ UNCHANGED <<uploaded, db>>

(* The process stops: requests end unanswered, the server takes the rest. *)
Crash ==
    /\ pc' = [r \in Requests |-> IF pc[r] = "idle" THEN "idle" ELSE "done"]
    /\ tx' = [r \in Requests |-> NoWrites]
    /\ holding' = {}
    /\ UNCHANGED <<uploaded, db, req>>

-----------------------------------------------------------------------------
(* The client puts the object with the URL get_upload_url signed for it. *)
Upload(k) == /\ k \notin uploaded
             /\ uploaded' = uploaded \cup {k}
             /\ UNCHANGED <<db, pc, req, tx, holding>>

(* create_post alone reads nothing before it opens its transaction. *)
Arrive(r, op, owner, keys) ==
    /\ pc[r] = "idle"
    /\ req' = [req EXCEPT ![r] = [NoLocals EXCEPT !.op = op, !.owner = owner,
                                                  !.keys = keys, !.left = keys]]
    /\ Goto(r, IF op = "create_post" THEN "begin" ELSE "check")
    /\ UNCHANGED <<uploaded, db, tx, holding>>

(* The SELECT of the row to update, or of what is written under; whose it is *)
(* and its status are left to OfferWorkflow and Conversations.               *)
Check(r) ==
    /\ pc[r] = "check" /\ FreeConnection
    /\ \/ /\ req[r].op \in Updates => req[r].owner \in DOMAIN stored
          /\ Goto(r, "begin")
          /\ UNCHANGED req
       \/ /\ req[r].op \in Updates /\ req[r].owner \notin DOMAIN stored
          /\ Goto(r, "done")
          /\ Set(r, "answer", "failed")
    /\ UNCHANGED <<uploaded, db, tx, holding>>

(* An update of a post that names no media and no field: "No fields to      *)
(* update".  update_offer opens its transaction all the same.               *)
NothingToUpdate(r) ==
    /\ pc[r] = "check" /\ FreeConnection
    /\ req[r].op = "update_post" /\ req[r].keys = <<>>
    /\ req[r].owner \in DOMAIN stored
    /\ Set(r, "answer", "success")
    /\ Goto(r, "done")
    /\ UNCHANGED <<uploaded, db, tx, holding>>

BeginTransaction(r) ==
    /\ pc[r] = "begin" /\ FreeConnection
    /\ holding' = holding \cup {r}
    /\ Goto(r, "write")
    /\ UNCHANGED <<uploaded, db, req, tx>>

(* Mutation: the id the statement returns is not kept. *)
InsertRowOnly(r) ==
    /\ pc[r] = "write" /\ req[r].op \notin Updates
    /\ \E o \in Rows(req[r].op) \ Taken : tx' = [tx EXCEPT ![r].stored = Row(o, r)]
    /\ Goto(r, "media")
    /\ UNCHANGED <<uploaded, db, req, holding>>
InsertRow(r) ==
    /\ pc[r] = "write" /\ req[r].op \notin Updates
    /\ \E o \in Rows(req[r].op) \ Taken :
          /\ Set(r, "owner", o)
          /\ tx' = [tx EXCEPT ![r].stored = Row(o, r)]
    /\ Goto(r, "media")
    /\ UNCHANGED <<uploaded, db, holding>>

(* The lock of a row another transaction has updated. *)
RowLocked(r) == \E s \in Requests \ {r} : req[r].owner \in DOMAIN tx[s].stored

UpdatePost(r) ==
    /\ pc[r] = "write" /\ req[r].op = "update_post" /\ ~RowLocked(r)
    /\ tx' = [tx EXCEPT ![r].stored = Row(req[r].owner, r)]
    /\ Goto(r, "media")
    /\ UNCHANGED <<uploaded, db, req, holding>>

(* update_offer updates through the client, not through the transaction it *)
(* holds: the statement takes another connection and commits on its own.   *)
UpdateOffer(r) ==
    /\ pc[r] = "write" /\ req[r].op = "update_offer" /\ FreeConnection
    /\ stored' = Row(req[r].owner, r) \oplus stored
    /\ Goto(r, "media")
    /\ UNCHANGED <<uploaded, media, links, notes, req, tx, holding>>

-----------------------------------------------------------------------------
(* process_media_attachments: per key a request to the store, an upsert of  *)
(* the media row and an insert of the link.                                 *)

Key(r) == Head(req[r].left)

(* A HeadObject that fails returns no etag, as one that finds no object. *)
GetMediaInfo(r) ==
    /\ pc[r] = "media" /\ req[r].left # <<>>
    /\ \/ /\ Key(r) \in uploaded
          /\ Goto(r, "upsert")
          /\ UNCHANGED req
       \/ /\ Key(r) \notin uploaded \/ Faults
          /\ Set(r, "left", Tail(req[r].left))
          /\ UNCHANGED pc
    /\ UNCHANGED <<uploaded, db, tx, holding>>

(* The row of a key is locked by the transaction that wrote it. *)
WaitsFor(r, s) == /\ r # s
                  /\ pc[r] = "upsert"
                  /\ Key(r) \in tx[s].media

UpsertMedia(r) ==
    /\ pc[r] = "upsert" /\ \A s \in Requests : ~WaitsFor(r, s)
    /\ tx' = [tx EXCEPT ![r].media = @ \cup {Key(r)}]
    /\ Goto(r, "link")
    /\ UNCHANGED <<uploaded, db, req, holding>>

(* An error in the statements of the media: the transaction is rolled back *)
(* and the caller gets an error string instead of the media.               *)
SqlError(r) == /\ Release(r)
               /\ Goto(r, "unexpected")
               /\ UNCHANGED <<uploaded, db, req>>

InsertLink(r) ==
    LET link == <<req[r].owner, Key(r)>> IN
    /\ pc[r] = "link"
    /\ link \notin DOMAIN links \cup DOMAIN tx[r].links
    /\ tx' = [tx EXCEPT ![r].links = Row(link, r) \oplus @]
    /\ req' = [req EXCEPT ![r].left = Tail(@), ![r].processed = @ + 1]
    /\ Goto(r, "media")
    /\ UNCHANGED <<uploaded, db, holding>>

(* The primary key of the link table: named twice, or attached before. *)
LinkExists(r) ==
    /\ pc[r] = "link"
    /\ <<req[r].owner, Key(r)>> \in DOMAIN links \cup DOMAIN tx[r].links
    /\ SqlError(r)

(* A cycle of waits ends when the database aborts one of its members. *)
InCycle(r) ==
    \E C \in SUBSET Requests :
        /\ r \in C
        /\ \A s \in C : \E t \in C : WaitsFor(s, t)

DeadlockVictim(r) == InCycle(r) /\ SqlError(r)

-----------------------------------------------------------------------------
(* Mutation: what was processed is enough. *)
AnyProcessed(r) == req[r].left = <<>>
AllProcessed(r) == req[r].left = <<>> /\ req[r].processed = Len(req[r].keys)

(* create_offer tells the owner of the post in the same transaction. *)
NotifyOwner(r) ==
    /\ pc[r] = "media" /\ AllProcessed(r) /\ req[r].op = "create_offer"
    /\ tx' = [tx EXCEPT ![r].notes = {req[r].owner}]
    /\ Goto(r, "answer")
    /\ UNCHANGED <<uploaded, db, req, holding>>

Answer(r) ==
    /\ \/ pc[r] = "media" /\ AllProcessed(r) /\ req[r].op # "create_offer"
       \/ pc[r] = "answer"
    /\ Set(r, "answer", "success")
    /\ Goto(r, "commit")
    /\ UNCHANGED <<uploaded, db, tx, holding>>

(* Mutation: the answer says failed and the transaction commits. *)
SomeMissingCommits(r) ==
    /\ pc[r] = "media" /\ req[r].left = <<>> /\ ~AllProcessed(r)
    /\ Set(r, "answer", "failed")
    /\ Goto(r, "commit")
    /\ UNCHANGED <<uploaded, db, tx, holding>>
(* Mutation: the transaction of a refused request is never let go. *)
SomeMissingForgets(r) ==
    /\ pc[r] = "media" /\ req[r].left = <<>> /\ ~AllProcessed(r)
    /\ Set(r, "answer", "failed")
    /\ Goto(r, "done")
    /\ UNCHANGED <<uploaded, db, tx, holding>>
SomeMissing(r) ==
    /\ pc[r] = "media" /\ req[r].left = <<>> /\ ~AllProcessed(r)
    /\ RolledBack(r, "failed")

(* Every caller reads the vector of a result that has none, which is not    *)
(* defined.  create_post does so to decide: what it finds in the place of a *)
(* size is as good as never smaller than the number of keys, and it answers *)
(* that the post is created.  The others know, and read it to name the      *)
(* media that were processed.  Or the process stops, with or without Faults.*)
Unexpected(r) ==
    /\ pc[r] = "unexpected"
    /\ \/ RolledBack(r, IF req[r].op = "create_post" THEN "success" ELSE "failed")
       \/ Crash

(* The coroutine ends and the last reference to the transaction dies. *)
Commit(r) ==
    /\ pc[r] = "commit"
    /\ stored' = tx[r].stored \oplus stored
    /\ media' = media \cup tx[r].media
    /\ links' = tx[r].links \oplus links
    /\ notes' = notes \cup tx[r].notes
    /\ Release(r)
    /\ Goto(r, "done")
    /\ UNCHANGED <<uploaded, req>>

(* A statement or a connection fails: an exception of the statement of the  *)
(* row, an error of those of the media, a commit nobody is told about.      *)
Fail(r) ==
    /\ Faults
    /\ \/ pc[r] \in {"check", "begin", "write"} /\ RolledBack(r, "failed")
       \/ pc[r] = "media" /\ AllProcessed(r) /\ req[r].op = "create_offer"
             /\ RolledBack(r, "failed")
       \/ pc[r] \in {"upsert", "link"} /\ SqlError(r)
       \/ pc[r] = "commit" /\ RolledBack(r, req[r].answer)

-----------------------------------------------------------------------------
Init ==
    /\ uploaded \in SUBSET Keys
    /\ stored = [o \in Existing |-> None]
    /\ media = {}
    /\ links = NoRows
    /\ notes = {}
    /\ pc = [r \in Requests |-> "idle"]
    /\ req = [r \in Requests |-> NoLocals]
    /\ tx = [r \in Requests |-> NoWrites]
    /\ holding = {}

NewRequest(r) == \E op \in Operations, keys \in KeyLists :
    \/ op \in Updates /\ \E o \in Rows(op) : Arrive(r, op, o, keys)
    \/ op \notin Updates /\ Arrive(r, op, None, keys)

Step(r) ==
    \/ Check(r) \/ NothingToUpdate(r) \/ BeginTransaction(r) \/ InsertRow(r)
    \/ UpdatePost(r) \/ UpdateOffer(r) \/ GetMediaInfo(r) \/ UpsertMedia(r) \/ InsertLink(r)
    \/ LinkExists(r) \/ NotifyOwner(r) \/ Answer(r) \/ SomeMissing(r) \/ Unexpected(r) \/ Commit(r)

Next ==
    \/ \E k \in Keys : Upload(k)
    \/ \E r \in Requests :
          NewRequest(r) \/ Step(r) \/ DeadlockVictim(r) \/ Fail(r)
    \/ Faults /\ Crash

Spec == Init /\ [][Next]_vars

(* A request is never passed over for ever: statements and transactions get *)
(* the connections and the row locks in the order in which they ask.        *)
FairSpec == /\ Spec
            /\ \A r \in Requests : SF_vars(Step(r)) /\ WF_vars(DeadlockVictim(r))

-----------------------------------------------------------------------------
(* Every variable holds rows, locals and labels of its kind. *)
TypeOK ==
    /\ uploaded \subseteq Keys
    /\ stored \in Tables(Owners, Writer)
    /\ media \subseteq Keys
    /\ links \in Tables(Owners \X Keys, Requests)
    /\ notes \subseteq Offers
    /\ pc \in [Requests -> {"idle", "check", "begin", "write", "media", "upsert",
                            "link", "unexpected", "answer", "commit", "done"}]
    /\ req \in [Requests -> Locals]
    /\ tx \in [Requests -> [stored : Tables(Owners, Requests), media : SUBSET Keys,
                            links : Tables(Owners \X Keys, Requests),
                            notes : SUBSET Offers]]
    /\ holding \subseteq Requests

(* The links r asked for. *)
LinksOf(r) == {<<req[r].owner, k>> : k \in NamedBy(req[r].keys)}

(* Every change of the committed tables is the whole of one request: its    *)
(* row with all the media it names and, for an offer, the notification of    *)
(* the owner of the post, however requests that share keys or rows           *)
(* interleave and wherever they fail or the process stops.  The row of        *)
(* update_offer, which it writes on another connection, is a change by        *)
(* itself; its media are all there or none.                                 *)
WholeRequests == [][\E r \in Requests :
    LET row == Row(req[r].owner, r) \oplus stored
        apart == req[r].op = "update_offer"
    IN  \/ apart /\ stored' = row /\ UNCHANGED <<media, links, notes>>
        \/ /\ stored' = IF apart THEN stored ELSE row
           /\ media' = media \cup NamedBy(req[r].keys)
           /\ links' = [link \in LinksOf(r) |-> r] \oplus links
           /\ notes' = notes \cup
                  (IF req[r].op = "create_offer" THEN {req[r].owner} ELSE {})]_db

(* A request that was answered with an error has written nothing, but for    *)
(* the row of update_offer.                                                 *)
FailedLeavesNoTrace == \A r \in Requests :
    req[r].answer = "failed" =>
        /\ \A o \in DOMAIN stored : stored[o] = r => req[r].op = "update_offer"
        /\ \A link \in DOMAIN links : links[link] # r

(* Every request ends, though requests wait for connections and for each    *)
(* other's rows.                                                            *)
EveryRequestEnds == \A r \in Requests : pc[r] # "idle" ~> pc[r] = "done"

=============================================================================
