---------------------------- MODULE OfferHistory ----------------------------
(***************************************************************************)
(* OfferWorkflow with a history variable: whether two requests were ever in *)
(* flight together.  Until then the checks of a handler and its writes are  *)
(* not separated by another request, and more can be said of the tables     *)
(* than what the locks of the rows protect.                                 *)
(***************************************************************************)
EXTENDS OfferWorkflow

VARIABLE overlapped   \* were two requests ever in flight together?

historyVars == <<vars, overlapped>>

Overlap == \E r, s \in Requests : r # s /\ pc[r] # "idle" /\ pc[s] # "idle"

HistoryInit == Init /\ overlapped = FALSE
HistoryNext == Next /\ overlapped' = (overlapped \/ Overlap')
HistorySpec == HistoryInit /\ [][HistoryNext]_historyVars

-----------------------------------------------------------------------------
(* The message of a negotiation shows exactly the status of the negotiation, *)
(* through all the metadata updates of the accepting handlers.              *)
MessageMirrorsNegotiation ==
    ~ overlapped =>
        /\ DOMAIN messages = DOMAIN negotiations
        /\ \A n \in DOMAIN negotiations : messages[n] = negotiations[n].status

(* No offer is settled twice: at most one of its negotiations is accepted.  *)
OneAcceptedNegotiation ==
    ~ overlapped =>
        \A n, m \in DOMAIN negotiations :
            /\ negotiations[n].offer = negotiations[m].offer
            /\ negotiations[n].status = "accepted"
            /\ negotiations[m].status = "accepted"
            => n = m

(* A fulfilled post has an offer that is accepted: the deal that closed the *)
(* post is not undone.                                                      *)
FulfilledPostHasDeal ==
    ~ overlapped =>
        \A p \in PostIds : posts[p] = "fulfilled" =>
            \E o \in DOMAIN offers : offers[o].post = p /\ offers[o].status = "accepted"

(* accept_offer, reject_offer and accept_counter_offer refuse an offer that *)
(* is not pending: once decided, an offer keeps its decision.               *)
DecisionIsFinal ==
    [][~ overlapped' =>
        \A o \in DOMAIN offers : offers[o].status # "pending" =>
            offers'[o].status = offers[o].status]_historyVars

(* The commit that accepts an offer leaves no other offer of the post       *)
(* pending and no negotiation of the post pending.                          *)
AcceptanceClosesRivals ==
    [][~ overlapped' =>
        \A o \in DOMAIN offers :
            offers[o].status = "pending" /\ offers'[o].status = "accepted" =>
                /\ \A x \in DOMAIN offers :
                    offers[x].post = offers[o].post => offers'[x].status # "pending"
                /\ \A n \in DOMAIN negotiations :
                    PostOf(n) = offers[o].post => negotiations'[n].status # "pending"]_historyVars

(* The negotiation that is accepted is the newest proposal on the table. *)
NewestProposalWins ==
    [][~ overlapped' =>
        \A n \in DOMAIN negotiations :
            negotiations[n].status # "accepted" /\ negotiations'[n].status = "accepted"
                => \A m \in PendingOf(negotiations[n].offer) : m <= n]_historyVars

=============================================================================
