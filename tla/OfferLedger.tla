---------------------------- MODULE OfferLedger ----------------------------
(***************************************************************************)
(* What the offer workflow promises about its committed tables, without    *)
(* requests, transactions or locks: each operation is one step that reads  *)
(* and writes the tables as they are at that moment.  OfferWorkflow        *)
(* implements it, although its handlers read long before they commit.      *)
(*                                                                         *)
(* The promise is as strong as the code's checks.  Those of update_offer,  *)
(* reject_offer and of the offer being accepted may be stale, so these     *)
(* steps take an offer in any state; the rows an acceptance rejects are    *)
(* pending when it commits.                                                *)
(***************************************************************************)
EXTENDS Tables

CONSTANTS Users, PostIds, PostOwner, OfferIds, NegotiationIds, Prices

VARIABLES posts, offers, negotiations

ledger == <<posts, offers, negotiations>>

Pending(t, x) == x \in DOMAIN t /\ t[x].status = "pending"

Rejected(t, S) == [x \in S |-> [t[x] EXCEPT !.status = "rejected"]]

Init ==
    /\ posts = [p \in PostIds |-> "open"]
    /\ offers = NoRows
    /\ negotiations = NoRows

Create(o, p, u, price) ==
    /\ o \notin DOMAIN offers
    /\ u # PostOwner[p]
    /\ offers' = Row(o, [post |-> p, user |-> u, price |-> price,
                          status |-> "pending", negotiation_status |-> "none"])
                    \oplus offers
    /\ UNCHANGED <<posts, negotiations>>

Update(o, price) ==
    /\ offers' = [offers EXCEPT ![o].price = price]
    /\ UNCHANGED <<posts, negotiations>>

Reject(o) ==
    /\ offers' = [offers EXCEPT ![o].status = "rejected",
                                ![o].negotiation_status = "completed"]
    /\ UNCHANGED <<posts, negotiations>>

Negotiate(o, n, price) ==
    /\ n \notin DOMAIN negotiations
    /\ offers' = [offers EXCEPT ![o].negotiation_status = "in_progress"]
    /\ negotiations' = Row(n, [offer |-> o, price |-> price,
                                status |-> "pending"]) \oplus negotiations
    /\ UNCHANGED posts

(* What an acceptance of o rejects: other offers of the post that are       *)
(* pending, and pending negotiations of the post.                           *)
Rejectable(o, R, N) ==
    /\ \A x \in R : Pending(offers, x) /\ x # o /\ offers[x].post = offers[o].post
    /\ \A n \in N : /\ Pending(negotiations, n)
                    /\ offers[negotiations[n].offer].post = offers[o].post

(* No negotiation is pending: the offer is accepted at its price.           *)
Accept(o, R, N) ==
    /\ Rejectable(o, R, N)
    /\ offers' = Row(o, [offers[o] EXCEPT !.status = "accepted",
                                           !.negotiation_status = "completed"])
                    \oplus Rejected(offers, R) \oplus offers
    /\ negotiations' = Rejected(negotiations, N) \oplus negotiations
    /\ posts' = [posts EXCEPT ![offers[o].post] = "fulfilled"]

(* The negotiation n is accepted with its offer; accept_counter_offer makes *)
(* its price the price of the offer, accept_offer does not.                 *)
AcceptProposal(o, n, price, R, N) ==
    /\ negotiations[n].offer = o
    /\ price \in {offers[o].price, negotiations[n].price}
    /\ n \notin N
    /\ Rejectable(o, R, N)
    /\ offers' = Row(o, [offers[o] EXCEPT !.status = "accepted", !.price = price,
                                           !.negotiation_status = "completed"])
                    \oplus [x \in R |-> [offers[x] EXCEPT
                                        !.status = "rejected",
                                        !.negotiation_status = "completed"]]
                    \oplus offers
    /\ negotiations' = Row(n, [negotiations[n] EXCEPT !.status = "accepted"])
                          \oplus Rejected(negotiations, N) \oplus negotiations
    /\ posts' = [posts EXCEPT ![offers[o].post] = "fulfilled"]

Next ==
    \/ \E o \in OfferIds, p \in PostIds, u \in Users, price \in Prices :
          Create(o, p, u, price)
    \/ \E o \in DOMAIN offers :
          \/ Reject(o)
          \/ \E price \in Prices : Update(o, price)
          \/ \E n \in NegotiationIds, price \in Prices : Negotiate(o, n, price)
          \/ \E R \in SUBSET DOMAIN offers, N \in SUBSET DOMAIN negotiations :
                \/ Accept(o, R, N)
                \/ \E n \in DOMAIN negotiations, price \in Prices :
                      AcceptProposal(o, n, price, R, N)

Spec == Init /\ [][Next]_ledger

=============================================================================
