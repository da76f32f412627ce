--------------------------- MODULE OfferWorkflow ---------------------------
(***************************************************************************)
(* The offer workflow of controllers/offers.cc and the negotiate_offer     *)
(* handler of controllers/offers_negotiation.cc, as requests that run      *)
(* concurrently against PostgreSQL at its default isolation level (READ    *)
(* COMMITTED).                                                             *)
(*                                                                         *)
(* Every handler is a coroutine that is suspended at each SQL statement,   *)
(* so one SQL statement is one step.  A statement of a transaction writes  *)
(* rows into the write set w[r] of its request; the rows of a write set    *)
(* are locked against the writes of every other request, and become the    *)
(* tables when the transaction commits.  A statement given to the database *)
(* client itself commits on its own.                                       *)
(***************************************************************************)
EXTENDS Naturals, Tables

CONSTANTS Requests,         \* the requests the server may have in flight
          Users,            \* the authenticated users
          PostIds,          \* the posts
          PostOwner,        \* the user who created each post
          OfferIds,         \* the ids the offers table may hand out
          MaxNegotiations,  \* bound: negotiations ever begun at one time
          Prices,           \* the prices users name
          NoOffer,          \* "no offer" in the locals of a request
          NoPrice           \* "no price" in the locals of a request

ASSUME PostOwnerAssumption == PostOwner \in [PostIds -> Users]
ASSUME BoundAssumption == MaxNegotiations \in Nat
ASSUME NullAssumption == NoOffer \notin OfferIds /\ NoPrice \notin Prices

VARIABLES posts,         \* posts.request_status, by post id
          offers,        \* the offers table, a function on the ids in it
          negotiations,  \* the price_negotiations table
          messages,      \* metadata.offer_status of the message that carries
                         \* a negotiation, by negotiation id
          pc,            \* the next statement of each request
          req,           \* the locals of each request
          w,             \* the uncommitted rows of each request
          sent           \* what the last step published

tables == <<posts, offers, negotiations, messages>>
vars == <<posts, offers, negotiations, messages, pc, req, w, sent>>

-----------------------------------------------------------------------------
(* Rows.  created_at is NOW(), the start of the inserting transaction: the *)
(* number of a negotiation is its rank in that order.                      *)

NegotiationIds == 1 .. MaxNegotiations
Status == {"pending", "accepted", "rejected"}
OfferRow == [post : PostIds, user : Users, price : Prices, status : Status,
             negotiation_status : {"none", "in_progress", "completed"}]
NegotiationRow == [offer : OfferIds, price : Prices, status : Status]
RequestStatus == {"open", "fulfilled"}

WriteSets == [posts : Tables(PostIds, RequestStatus),
              offers : Tables(OfferIds, OfferRow),
              negotiations : Tables(NegotiationIds, NegotiationRow),
              messages : Tables(NegotiationIds, Status)]

NoWrites == [posts |-> NoRows, offers |-> NoRows,
             negotiations |-> NoRows, messages |-> NoRows]
AcceptOps == {"accept_offer", "accept_counter_offer"}
Ops == AcceptOps \cup {"create_offer", "update_offer", "reject_offer",
                       "negotiate_offer"}
Locals == [op : Ops \cup {"none"}, offer : OfferIds \cup {NoOffer},
           neg : 0 .. MaxNegotiations, price : Prices \cup {NoPrice},
           seen : SUBSET (OfferIds \cup NegotiationIds)]
NoLocals == [op |-> "none", offer |-> NoOffer, neg |-> 0, price |-> NoPrice, seen |-> {}]
Events == [type : {"offer_created", "offer_updated", "offer_accepted",
                   "offer_rejected"},
           message : {"New Offer", "Offer updated", "Offer was accepted",
                      "Offer was rejected", "New Negotiation"},
           id : OfferIds]
Labels == {"idle", "update", "reject", "negotiate", "insert",
           "accept", "pick", "pick_counter", "accept_counter", "accept_neg",
           "reject_negs", "see_rivals", "reject_rivals", "see_others_negs",
           "reject_others_negs", "fulfil", "publish", "commit"}

-----------------------------------------------------------------------------
(* What the WHERE clauses select among the committed rows. *)
(* Mutation: the filter on the status is dropped. *)
PendingOfAnyStatus(o) == {n \in DOMAIN negotiations : negotiations[n].offer = o}

PendingOf(o) == {n \in DOMAIN negotiations :
                    negotiations[n].offer = o /\ negotiations[n].status = "pending"}
(* Mutation: ORDER BY created_at without DESC. *)
IsOldest(n, S) == n \in S /\ \A m \in S : n <= m
IsLatest(n, S) == n \in S /\ \A m \in S : m <= n
(* Mutation: the filter on the status is dropped. *)
RivalsAnyStatus(o) ==
    {x \in DOMAIN offers : offers[x].post = offers[o].post /\ x # o}
(* Mutation: AND id != $2 is dropped. *)
RivalsAndItself(o) ==
    {x \in DOMAIN offers : /\ offers[x].post = offers[o].post
                           /\ offers[x].status = "pending"}
Rivals(o) == {x \in DOMAIN offers :
                 /\ offers[x].post = offers[o].post
                 /\ x # o
                 /\ offers[x].status = "pending"}
(* Mutation: o.id = $2 for o.id != $2. *)
OwnPending(o) == {n \in DOMAIN negotiations :
                     /\ negotiations[n].status = "pending"
                     /\ negotiations[n].offer = o}
OthersPending(o) == {n \in DOMAIN negotiations :
                        /\ negotiations[n].status = "pending"
                        /\ negotiations[n].offer # o
                        /\ offers[negotiations[n].offer].post = offers[o].post}
MessagesOf(S) == {n \in DOMAIN messages : negotiations[n].offer \in S}

(* The rows an UPDATE writes are those its snapshot has and that match its   *)
(* WHERE clause when it holds their locks.                                  *)
RivalsSeen(r) == req[r].seen \cap Rivals(req[r].offer)
OthersSeen(r) == req[r].seen \cap OthersPending(req[r].offer)

-----------------------------------------------------------------------------
(* Row locks: the rows the next statement of r writes, those it inserts     *)
(* left out; a row another transaction has written makes it wait.           *)

Needs(r) ==
    LET o == req[r].offer
        None == [posts |-> {}, offers |-> {}, negotiations |-> {}, messages |-> {}]
    IN  CASE pc[r] \in {"negotiate", "update", "reject", "accept"} ->
               [None EXCEPT !.offers = {o}]
          [] pc[r] = "accept_counter" ->
               [None EXCEPT !.offers = {o}, !.messages = MessagesOf({o})]
          [] pc[r] = "accept_neg" ->
               [None EXCEPT !.negotiations = {req[r].neg}, !.messages = {req[r].neg}]
          [] pc[r] = "reject_negs" ->
               [None EXCEPT !.negotiations = PendingOf(o) \ {req[r].neg},
                            !.messages = PendingOf(o) \ {req[r].neg}]
          [] pc[r] = "reject_rivals" ->
               [None EXCEPT !.offers = RivalsSeen(r), !.messages = MessagesOf(RivalsSeen(r))]
          [] pc[r] = "reject_others_negs" ->
               [None EXCEPT !.negotiations = OthersSeen(r), !.messages = OthersSeen(r)]
          [] pc[r] = "fulfil" -> [None EXCEPT !.posts = {offers[o].post}]
          [] OTHER -> None

WaitsFor(r, s) ==
    /\ s # r
    /\ \/ Needs(r).posts \cap DOMAIN w[s].posts # {}
       \/ Needs(r).offers \cap DOMAIN w[s].offers # {}
       \/ Needs(r).negotiations \cap DOMAIN w[s].negotiations # {}
       \/ Needs(r).messages \cap DOMAIN w[s].messages # {}

(* Mutation: no row is locked. *)
AlwaysGranted(r) == r \in Requests
Granted(r) == \A s \in Requests : ~ WaitsFor(r, s)

-----------------------------------------------------------------------------
(* How a step ends. *)

Begin(r, label, locals) ==
    /\ pc[r] = "idle"
    /\ pc' = [pc EXCEPT ![r] = label]
    /\ req' = [req EXCEPT ![r] = locals]
    /\ sent' = {}
    /\ UNCHANGED <<posts, offers, negotiations, messages, w>>

(* A statement of an open transaction: nobody else sees what it writes. *)
Then(r, label) ==
    /\ pc' = [pc EXCEPT ![r] = label]
    /\ sent' = {}
    /\ UNCHANGED tables

(* The coroutine returns, and its transaction, if it has one, is gone. *)
End(r) ==
    /\ pc' = [pc EXCEPT ![r] = "idle"]
    /\ req' = [req EXCEPT ![r] = NoLocals]
    /\ w' = [w EXCEPT ![r] = NoWrites]

-----------------------------------------------------------------------------
(* create_offer: one's own post is refused; a media item that is missing   *)
(* makes the transaction fail (Fail below).                                *)

CreateOffer(r, o, p, u, price) ==
    /\ pc[r] = "idle"
    /\ u # PostOwner[p]
    /\ o \notin DOMAIN offers
    /\ \A s \in Requests : req[s].offer # o
    /\ req' = [req EXCEPT ![r] = [op |-> "create_offer", offer |-> o, neg |-> 0,
                                  price |-> price, seen |-> {}]]
    /\ w' = [w EXCEPT ![r].offers =
                Row(o, [post |-> p, user |-> u, price |-> price,
                        status |-> "pending", negotiation_status |-> "none"])]
    /\ Then(r, "publish")

-----------------------------------------------------------------------------
(* negotiate_offer: no condition on the status of the offer. *)

NegotiationsBegun ==
    DOMAIN negotiations \cup {req[s].neg : s \in Requests}

NegotiateStart(r, o, u, price, n) ==
    /\ u \in {offers[o].user, PostOwner[offers[o].post]}
    /\ \A m \in NegotiationsBegun : m < n
    /\ n - 1 \in NegotiationsBegun
    /\ Begin(r, "negotiate", [op |-> "negotiate_offer", offer |-> o,
                              neg |-> n, price |-> price, seen |-> {}])

NegotiateUpdateOffer(r) ==
    LET o == req[r].offer IN
    /\ pc[r] = "negotiate"
    /\ Granted(r)
    /\ w' = [w EXCEPT ![r].offers =
                Row(o, [offers[o] EXCEPT !.negotiation_status = "in_progress"])]
    /\ Then(r, "insert")
    /\ UNCHANGED req

NegotiateInsert(r) ==
    LET n == req[r].neg IN
    /\ pc[r] = "insert"
    /\ w' = [w EXCEPT
                ![r].negotiations = Row(n, [offer |-> req[r].offer,
                                            price |-> req[r].price,
                                            status |-> "pending"]),
                ![r].messages = Row(n, "pending")]
    /\ Then(r, "publish")
    /\ UNCHANGED req

-----------------------------------------------------------------------------
(* The checks the other handlers make, on the database client and outside  *)
(* any transaction, before they write.  A refusal (400, 403, 404) changes  *)
(* nothing.                                                                *)

(* Mutation: the status is not checked. *)
CheckNothing(r, o, op, label) ==
    Begin(r, label, [op |-> op, offer |-> o, neg |-> 0, price |-> NoPrice, seen |-> {}])

CheckPending(r, o, op, label) ==
    /\ offers[o].status = "pending"
    /\ Begin(r, label, [op |-> op, offer |-> o, neg |-> 0, price |-> NoPrice, seen |-> {}])

UpdateOfferCheck(r, o, u) ==
    u = offers[o].user /\ CheckPending(r, o, "update_offer", "update")
RejectOfferCheck(r, o, u) ==
    u = PostOwner[offers[o].post] /\ CheckPending(r, o, "reject_offer", "reject")
AcceptOfferCheck(r, o, u) ==
    u = PostOwner[offers[o].post] /\ CheckPending(r, o, "accept_offer", "accept")
AcceptCounterCheck(r, o, u) ==
    u = offers[o].user /\ CheckPending(r, o, "accept_counter_offer", "pick_counter")

(* update_offer writes on the database client, not on its transaction: the *)
(* new price is there for good, whatever becomes of the media that follow. *)
UpdateOffer(r) ==
    LET o == req[r].offer IN
    /\ pc[r] = "update"
    /\ Granted(r)
    /\ \E price \in Prices : offers' = [offers EXCEPT ![o].price = price]
    /\ pc' = [pc EXCEPT ![r] = "publish"]
    /\ sent' = {}
    /\ UNCHANGED <<posts, negotiations, messages, req, w>>

RejectOffer(r) ==
    LET o == req[r].offer IN
    /\ pc[r] = "reject"
    /\ Granted(r)
    /\ offers' = [offers EXCEPT ![o].status = "rejected",
                                ![o].negotiation_status = "completed"]
    /\ pc' = [pc EXCEPT ![r] = "publish"]
    /\ sent' = {}
    /\ UNCHANGED <<posts, negotiations, messages, req, w>>

-----------------------------------------------------------------------------
(* accept_offer and accept_counter_offer.  The first UPDATE names the row  *)
(* by its id alone.  update_message_metadata is queued on the transaction  *)
(* right behind the statement it follows, and is part of its step.         *)

(* Mutation: the price of the negotiation is not written. *)
AcceptedRowOldPrice(o, price) ==
    [offers[o] EXCEPT !.status = "accepted", !.negotiation_status = "completed"]

AcceptedRow(o, price) ==
    [offers[o] EXCEPT !.status = "accepted", !.price = price,
                      !.negotiation_status = "completed"]

AcceptOffer(r) ==
    LET o == req[r].offer IN
    /\ pc[r] = "accept"
    /\ Granted(r)
    /\ w' = [w EXCEPT ![r].offers = Row(o, AcceptedRow(o, offers[o].price))]
    /\ Then(r, "pick")
    /\ UNCHANGED req

PickLatest(r) ==
    /\ pc[r] = "pick"
    /\ \/ \E n \in PendingOf(req[r].offer) :
            /\ IsLatest(n, PendingOf(req[r].offer))
            /\ req' = [req EXCEPT ![r].neg = n]
            /\ Then(r, "accept_neg")
       \/ /\ PendingOf(req[r].offer) = {}
          /\ Then(r, "see_rivals")
          /\ UNCHANGED req
    /\ UNCHANGED w

(* Mutation: nothing is answered when there is no pending negotiation. *)
PickCounterUnanswered(r) ==
    /\ pc[r] = "pick_counter"
    /\ \E n \in PendingOf(req[r].offer) :
          /\ IsLatest(n, PendingOf(req[r].offer))
          /\ req' = [req EXCEPT ![r].neg = n, ![r].price = negotiations[n].price]
          /\ Then(r, "accept_counter")
          /\ UNCHANGED w

PickCounter(r) ==
    /\ pc[r] = "pick_counter"
    /\ \/ \E n \in PendingOf(req[r].offer) :
            /\ IsLatest(n, PendingOf(req[r].offer))
            /\ req' = [req EXCEPT ![r].neg = n,
                                  ![r].price = negotiations[n].price]
            /\ Then(r, "accept_counter")
            /\ UNCHANGED w
       \/ /\ PendingOf(req[r].offer) = {}
          /\ End(r)
          /\ sent' = {}
          /\ UNCHANGED tables

AcceptCounter(r) ==
    LET o == req[r].offer
        msgs == MessagesOf({o}) IN
    /\ pc[r] = "accept_counter"
    /\ Granted(r)
    /\ w' = [w EXCEPT ![r].offers = Row(o, AcceptedRow(o, req[r].price)),
                      ![r].messages = [n \in msgs |-> "accepted"]]
    /\ Then(r, "accept_neg")
    /\ UNCHANGED req

(* Mutation: the message of the accepted negotiation is forgotten. *)
AcceptNegotiationSilently(r) ==
    LET n == req[r].neg IN
    /\ pc[r] = "accept_neg"
    /\ Granted(r)
    /\ w' = [w EXCEPT
                ![r].negotiations = Row(n, [negotiations[n] EXCEPT !.status = "accepted"])]
    /\ Then(r, "reject_negs")
    /\ UNCHANGED req

(* Names the negotiation by its id alone. *)
AcceptNegotiation(r) ==
    LET n == req[r].neg IN
    /\ pc[r] = "accept_neg"
    /\ Granted(r)
    /\ w' = [w EXCEPT
                ![r].negotiations = Row(n, [negotiations[n] EXCEPT !.status = "accepted"]),
                ![r].messages = Row(n, "accepted") \oplus @]
    /\ Then(r, "reject_negs")
    /\ UNCHANGED req

(* Mutation: the messages of the rejected negotiations are forgotten. *)
RejectSilently(r, S, label) ==
    /\ Granted(r)
    /\ w' = [w EXCEPT
                ![r].negotiations =
                    [n \in S |-> [negotiations[n] EXCEPT !.status = "rejected"]] \oplus @]
    /\ Then(r, label)
    /\ UNCHANGED req

RejectNegotiations(r, S, label) ==
    /\ Granted(r)
    /\ w' = [w EXCEPT
                ![r].negotiations =
                    [n \in S |-> [negotiations[n] EXCEPT !.status = "rejected"]] \oplus @,
                ![r].messages = [n \in S |-> "rejected"] \oplus @]
    /\ Then(r, label)
    /\ UNCHANGED req

RejectOtherNegotiations(r) ==
    /\ pc[r] = "reject_negs"
    /\ RejectNegotiations(r, PendingOf(req[r].offer) \ {req[r].neg},
                          "see_rivals")

(* The statements about the rest of the post take their snapshot as they     *)
(* start, and may then wait for rows that others hold: an offer or a          *)
(* negotiation that is committed meanwhile they pass over.                   *)
See(r, S, label) ==
    /\ req' = [req EXCEPT ![r].seen = S]
    /\ Then(r, label)
    /\ UNCHANGED w

SeeRivals(r) ==
    /\ pc[r] = "see_rivals"
    /\ See(r, Rivals(req[r].offer), "reject_rivals")

SeeOthersNegotiations(r) ==
    /\ pc[r] = "see_others_negs"
    /\ See(r, OthersPending(req[r].offer), "reject_others_negs")

(* Without a pending negotiation, accept_offer takes the branch that leaves *)
(* the negotiation_status of the rejected offers as it is.                  *)
RejectRivals(r) ==
    LET rivals == RivalsSeen(r)
        msgs == MessagesOf(rivals)
        done(x) == IF req[r].neg # 0 THEN "completed" ELSE offers[x].negotiation_status
    IN
    /\ pc[r] = "reject_rivals"
    /\ Granted(r)
    /\ w' = [w EXCEPT
                ![r].offers = [x \in rivals |->
                    [offers[x] EXCEPT !.status = "rejected",
                                      !.negotiation_status = done(x)]] \oplus @,
                ![r].messages = [n \in msgs |-> "rejected"] \oplus @]
    /\ Then(r, "see_others_negs")
    /\ UNCHANGED req

RejectOthersNegotiations(r) ==
    /\ pc[r] = "reject_others_negs"
    /\ RejectNegotiations(r, OthersSeen(r), "fulfil")

(* Mutation: the post stays open. *)
LeavePostOpen(r) ==
    /\ pc[r] = "fulfil"
    /\ Granted(r)
    /\ Then(r, "publish")
    /\ UNCHANGED <<req, w>>

FulfilPost(r) ==
    LET p == offers[req[r].offer].post IN
    /\ pc[r] = "fulfil"
    /\ Granted(r)
    /\ w' = [w EXCEPT ![r].posts = Row(p, "fulfilled")]
    /\ Then(r, "publish")
    /\ UNCHANGED req

-----------------------------------------------------------------------------
(* Every handler publishes before its transaction, if it has one, commits: *)
(* the COMMIT is sent when the last reference to the transaction dies, as  *)
(* the coroutine returns.                                                  *)

Event(type, message, id) == [type |-> type, message |-> message, id |-> id]

Published(r) ==
    LET o == req[r].offer IN
    CASE req[r].op = "create_offer" ->
            {Event("offer_created", "New Offer", o)}
      [] req[r].op = "update_offer" ->
            {Event("offer_updated", "Offer updated", o)}
      [] req[r].op = "negotiate_offer" ->
            {Event("offer_accepted", "New Negotiation", o)}
      [] req[r].op = "reject_offer" ->
            {Event("offer_rejected", "Offer was rejected", o)}
      [] req[r].op \in AcceptOps ->
            {Event("offer_accepted", "Offer was accepted", o)}
               \cup {Event("offer_rejected", "Offer was rejected", x) :
                        x \in DOMAIN w[r].offers \ {o}}

Publish(r) ==
    /\ pc[r] = "publish"
    /\ sent' = Published(r)
    /\ pc' = [pc EXCEPT ![r] = "commit"]
    /\ UNCHANGED <<posts, offers, negotiations, messages, req, w>>

Commit(r) ==
    /\ pc[r] = "commit"
    /\ posts' = w[r].posts \oplus posts
    /\ offers' = w[r].offers \oplus offers
    /\ negotiations' = w[r].negotiations \oplus negotiations
    /\ messages' = w[r].messages \oplus messages
    /\ sent' = {}
    /\ End(r)

(* A statement, or the COMMIT, fails: a missing media item, the victim of a *)
(* deadlock, a lost connection, a crash.  The transaction is rolled back.   *)
Fail(r) ==
    /\ pc[r] # "idle"
    /\ End(r)
    /\ sent' = {}
    /\ UNCHANGED tables

-----------------------------------------------------------------------------
Init ==
    /\ posts = [p \in PostIds |-> "open"]
    /\ offers = NoRows
    /\ negotiations = NoRows
    /\ messages = NoRows
    /\ pc = [r \in Requests |-> "idle"]
    /\ req = [r \in Requests |-> NoLocals]
    /\ w = [r \in Requests |-> NoWrites]
    /\ sent = {}

Arrive(r) ==
    \/ \E o \in OfferIds, p \in PostIds, u \in Users, price \in Prices :
          CreateOffer(r, o, p, u, price)
    \/ \E o \in DOMAIN offers, u \in Users :
          \/ \E price \in Prices, n \in NegotiationIds :
                NegotiateStart(r, o, u, price, n)
          \/ UpdateOfferCheck(r, o, u) \/ RejectOfferCheck(r, o, u)
          \/ AcceptOfferCheck(r, o, u) \/ AcceptCounterCheck(r, o, u)

Step(r) ==
    \/ NegotiateUpdateOffer(r) \/ NegotiateInsert(r)
    \/ UpdateOffer(r) \/ RejectOffer(r)
    \/ AcceptOffer(r) \/ PickLatest(r) \/ PickCounter(r) \/ AcceptCounter(r)
    \/ AcceptNegotiation(r) \/ RejectOtherNegotiations(r) \/ SeeRivals(r)
    \/ RejectRivals(r) \/ SeeOthersNegotiations(r) \/ RejectOthersNegotiations(r)
    \/ FulfilPost(r)
    \/ Publish(r) \/ Commit(r)

Next == \E r \in Requests : Arrive(r) \/ Step(r) \/ Fail(r)

Spec == Init /\ [][Next]_vars

(* Fairness.  A coroutine whose statement can run is resumed (the event     *)
(* loop), a row lock is handed to the waiting statements in turn (strong    *)
(* fairness), and PostgreSQL aborts a member of every cycle of waits.       *)
DeadlockVictim(r) ==
    /\ \E S \in SUBSET Requests :
          r \in S /\ \A s \in S : \E t \in S : WaitsFor(s, t)
    /\ Fail(r)

FairSpec ==
    /\ Spec
    /\ \A r \in Requests : SF_vars(Step(r)) /\ WF_vars(DeadlockVictim(r))

-----------------------------------------------------------------------------
(* Properties of every interleaving.                                       *)

(* Every variable holds rows, locals and labels of the kinds above. *)
TypeOK ==
    /\ posts \in [PostIds -> RequestStatus]
    /\ offers \in Tables(OfferIds, OfferRow)
    /\ negotiations \in Tables(NegotiationIds, NegotiationRow)
    /\ messages \in Tables(NegotiationIds, Status)
    /\ pc \in [Requests -> Labels]
    /\ req \in [Requests -> Locals]
    /\ w \in [Requests -> WriteSets]
    /\ sent \subseteq Events

PostOf(n) == offers[negotiations[n].offer].post

(* A committed acceptance, of an offer or of a negotiation, is never seen   *)
(* without the fulfilment of its post: the statements of accept_offer and   *)
(* accept_counter_offer take effect together or not at all, and nothing     *)
(* reopens a post, however the requests interleave and fail.                *)
DealClosesPost ==
    /\ \A o \in DOMAIN offers :
        offers[o].status = "accepted" => posts[offers[o].post] = "fulfilled"
    /\ \A n \in DOMAIN negotiations :
        negotiations[n].status = "accepted" => posts[PostOf(n)] = "fulfilled"

(* An accepted negotiation is never rejected, re-priced or lost by a later  *)
(* or a concurrent decision: the rejections filter on status = 'pending'    *)
(* when they hold the row, whatever was read before.                        *)
AcceptedNegotiationIsFinal ==
    [][\A n \in DOMAIN negotiations :
        negotiations[n].status = "accepted" =>
            n \in DOMAIN negotiations' /\ negotiations'[n] = negotiations[n]]_vars

(* The commit of an accept_counter_offer leaves its offer accepted at the   *)
(* price of the negotiation it accepts, although that price was read before *)
(* the row of the offer was locked, and the status of the offer before that.*)
CounterPriceAgreed ==
    [][\A r \in Requests :
        LET o == req[r].offer
            n == req[r].neg
        IN  (/\ req[r].op = "accept_counter_offer"
             /\ pc[r] = "commit" /\ pc'[r] = "idle"
             /\ ~ UNCHANGED tables)
            => /\ offers'[o].status = "accepted"
               /\ negotiations'[n].status = "accepted"
               /\ offers'[o].price = negotiations'[n].price]_vars

(* The offer_status a message shows never promises a negotiation that is    *)
(* closed: an accepted negotiation shows accepted, and a message that shows *)
(* pending belongs to a pending negotiation.                                *)
MessageKeepsUp ==
    \A n \in DOMAIN negotiations :
        /\ n \in DOMAIN messages
        /\ negotiations[n].status = "accepted" => messages[n] = "accepted"
        /\ messages[n] = "pending" => negotiations[n].status = "pending"

(* The effect of every request on the committed tables is one step of        *)
(* OfferLedger: what a transaction read and wrote along its statements is    *)
(* what it could have read and written at its commit.                       *)
Ledger == INSTANCE OfferLedger WITH
              posts <- posts, offers <- offers, negotiations <- negotiations
RefinesLedger == Ledger!Spec

(* Every request ends, although requests wait for the rows of each other,   *)
(* in cycles too.                                                           *)
EveryRequestEnds == \A r \in Requests : pc[r] # "idle" ~> pc[r] = "idle"

-----------------------------------------------------------------------------
(* What the repository says of itself, and the handlers do not do.          *)

(* accept_counter_offer: "notify accepted offer only after a successful      *)
(* commit".                                                                 *)
NotifiedAfterCommit ==
    \A r \in Requests, e \in sent :
        /\ req[r].op = "accept_counter_offer" /\ pc[r] = "commit"
        /\ e.message = "Offer was accepted" /\ e.id = req[r].offer
        => offers[e.id].status = "accepted"

-----------------------------------------------------------------------------
(* The inductive invariant behind the first properties: DealClosesPost,     *)
(* AcceptedNegotiationIsFinal and CounterPriceAgreed.                       *)

Negotiating(r) == req[r].op = "negotiate_offer"
Creating(r) == req[r].op = "create_offer"
AcceptLabels == {"accept", "pick", "pick_counter", "accept_counter",
                 "accept_neg", "reject_negs", "see_rivals", "reject_rivals",
                 "see_others_negs", "reject_others_negs", "fulfil"}

(* The locals fit the label, and name rows that are there. *)
LocalsInv(r) ==
    /\ pc[r] = "idle" => req[r] = NoLocals /\ w[r] = NoWrites
    /\ pc[r] # "idle" => req[r].op \in Ops /\ req[r].offer \in OfferIds
    /\ pc[r] \in {"negotiate", "insert"} => Negotiating(r)
    /\ pc[r] \in AcceptLabels => req[r].op \in AcceptOps
    /\ pc[r] \in {"accept", "pick"} => req[r].op = "accept_offer"
    /\ pc[r] \in {"pick_counter", "accept_counter"} => req[r].op = "accept_counter_offer"
    /\ pc[r] \in {"accept_neg", "reject_negs"} => req[r].neg # 0
    /\ pc[r] \in {"update", "reject"} => req[r].op \in {"update_offer", "reject_offer"}
    /\ req[r].op \in Ops \ {"create_offer"} => req[r].offer \in DOMAIN offers
    /\ req[r].op \in AcceptOps /\ req[r].neg # 0 =>
          /\ req[r].neg \in DOMAIN negotiations
          /\ negotiations[req[r].neg].offer = req[r].offer
    /\ Negotiating(r) => /\ req[r].neg \in NegotiationIds \ DOMAIN negotiations
                         /\ req[r].price \in Prices
    /\ Creating(r) => req[r].offer \notin DOMAIN offers

(* Ids are handed out once. *)
FreshIds ==
    \A r, s \in Requests : r # s =>
        /\ Negotiating(r) /\ Negotiating(s) => req[r].neg # req[s].neg
        /\ Creating(r) => req[s].offer # req[r].offer

(* What a request is about to commit, against what is committed. *)
OfferWritesInv(r) ==
    \A o \in DOMAIN w[r].offers :
        LET row == w[r].offers[o] IN
        /\ o \in DOMAIN offers => row.post = offers[o].post
        /\ o \notin DOMAIN offers => Creating(r) /\ o = req[r].offer
        /\ row.status = "accepted" =>
              \/ posts[row.post] = "fulfilled"
              \/ req[r].op \in AcceptOps /\ o = req[r].offer

NegotiationWritesInv(r) ==
    \A n \in DOMAIN w[r].negotiations :
        LET row == w[r].negotiations[n] IN
        /\ row.offer \in DOMAIN offers
        /\ n \in DOMAIN negotiations =>
              /\ row.offer = negotiations[n].offer
              /\ row.price = negotiations[n].price
              /\ row.status = "accepted" \/ negotiations[n].status = "pending"
        /\ n \notin DOMAIN negotiations => Negotiating(r) /\ n = req[r].neg
        /\ row.status = "accepted" =>
              req[r].op \in AcceptOps /\ row.offer = req[r].offer

PostWritesInv(r) ==
    /\ \A p \in DOMAIN w[r].posts : w[r].posts[p] = "fulfilled"
    /\ req[r].op \in AcceptOps /\ pc[r] \in {"publish", "commit"} =>
          offers[req[r].offer].post \in DOMAIN w[r].posts

(* The row lock of a negotiation has one holder. *)
NegotiationLocks ==
    \A r, s \in Requests : r # s =>
        DOMAIN w[r].negotiations \cap DOMAIN w[s].negotiations = {}

(* The price accept_counter_offer read stays that of the negotiation. *)
CounterInv(r) ==
    LET o == req[r].offer
        n == req[r].neg
    IN  req[r].op = "accept_counter_offer" /\ pc[r] # "pick_counter" =>
          /\ n # 0
          /\ req[r].price = negotiations[n].price
          /\ pc[r] # "accept_counter" =>
                /\ o \in DOMAIN w[r].offers
                /\ w[r].offers[o].status = "accepted"
                /\ w[r].offers[o].price = req[r].price
          /\ pc[r] \notin {"accept_counter", "accept_neg"} =>
                /\ n \in DOMAIN w[r].negotiations
                /\ w[r].negotiations[n].status = "accepted"

NegotiationsHaveOffers ==
    \A n \in DOMAIN negotiations : negotiations[n].offer \in DOMAIN offers

IInv ==
    /\ TypeOK
    /\ \A r \in Requests : /\ LocalsInv(r)
                           /\ OfferWritesInv(r)
                           /\ NegotiationWritesInv(r)
                           /\ PostWritesInv(r)
                           /\ CounterInv(r)
    /\ FreshIds
    /\ NegotiationLocks
    /\ NegotiationsHaveOffers
    /\ DealClosesPost

=============================================================================
