---------------------------- MODULE Conversations ----------------------------
(***************************************************************************)
(* Conversations between two users: controllers/chats.cc, and the handlers  *)
(* of controllers/offers_negotiation.cc that find or open the conversation  *)
(* of an offer to tell of a proof, an escrow or a negotiation.              *)
(*                                                                         *)
(* But for send_message and negotiate_offer, which write in a transaction,  *)
(* every statement commits on its own: a request that fails leaves what its *)
(* earlier statements wrote.  Looking for a conversation and opening it are *)
(* statements apart, and no constraint of the schema forbids a second one.  *)
(***************************************************************************)
EXTENDS Naturals, Sequences, Tables

CONSTANTS Requests,    \* the requests the server may have in flight
          Users,       \* the authenticated users
          Offers,      \* the offers; they and their posts are not written here
          Buyer,       \* the owner of the post of each offer
          Seller,      \* the creator of each offer
          ConvIds,     \* bound: the ids of conversations
          ProofIds,    \* bound: the ids of product_proofs
          EscrowIds,   \* bound: the ids of escrow_transactions
          MaxMessages, \* bound: messages ever sent
          None         \* the value of a local that is not set

ASSUME PartiesAssumption ==
    /\ Buyer \in [Offers -> Users]
    /\ Seller \in [Offers -> Users]
    /\ \A o \in Offers : Buyer[o] # Seller[o]
ASSUME NoneAssumption ==
    /\ ProofIds \cap EscrowIds = {}
    /\ None \notin Users \cup Offers \cup ConvIds \cup ProofIds \cup EscrowIds

VARIABLES participants, \* conversation_participants, by conversation
          messages,     \* the messages table, in the order of insertion
          proofs,       \* the product_proofs table
          escrows,      \* the offer of each row of escrow_transactions
          pc,           \* the next statement of each request
          req,          \* the locals of each request
          overlapped,   \* have two requests ever been in flight together? (history)
          failed        \* what stands, and its request failed to tell of (history)

db == <<participants, messages, proofs, escrows>>
vars == <<participants, messages, proofs, escrows, pc, req, overlapped, failed>>

-----------------------------------------------------------------------------
Parties(o) == {Buyer[o], Seller[o]}

ProofOps == {"request_proof", "submit_proof", "approve_proof", "reject_proof"}
OfferOps == ProofOps \cup {"create_escrow", "negotiate_offer"}
ChatOps == {"conversation", "send_message", "mark_messages_as_read"}
WritingOps == {"submit_proof", "approve_proof", "reject_proof", "create_escrow"}

Proof == [offer : Offers, status : {"pending", "approved", "rejected"}]
(* op stands for the context_type, about for the context_id.                *)
Message == [op : OfferOps \cup ChatOps, conv : ConvIds, sender : Users,
            offer : Offers \cup {None}, about : ProofIds \cup EscrowIds \cup {None},
            read : BOOLEAN]
Locals == [op : OfferOps \cup ChatOps \cup {"none"}, user : Users \cup {None},
           other : Users \cup {None}, offer : Offers \cup {None},
           conv : ConvIds \cup {None},
           about : ProofIds \cup EscrowIds \cup {None}]
NoLocals == [op |-> "none", user |-> None, other |-> None, offer |-> None,
             conv |-> None, about |-> None]

(* Mutation: one of the two users is enough. *)
WithEither(u, v) == {c \in DOMAIN participants : participants[c] \cap {u, v} # {}}
(* The conversations the SELECT with the two joins may return (LIMIT 1). *)
Between(u, v) == {c \in DOMAIN participants : {u, v} \subseteq participants[c]}

-----------------------------------------------------------------------------
Begin(r, label, locals) ==
    /\ pc[r] = "idle"
    /\ pc' = [pc EXCEPT ![r] = label]
    /\ req' = [req EXCEPT ![r] = locals]
    /\ overlapped' = (overlapped \/ \E s \in Requests : pc[s] # "idle")
    /\ UNCHANGED <<db, failed>>

Proceed(r, label) ==
    /\ pc' = [pc EXCEPT ![r] = label]
    /\ UNCHANGED overlapped

Continue(r, label) == Proceed(r, label) /\ UNCHANGED failed

Leave(r) ==
    /\ pc' = [pc EXCEPT ![r] = "idle"]
    /\ req' = [req EXCEPT ![r] = NoLocals]
    /\ UNCHANGED overlapped

End(r) == Leave(r) /\ UNCHANGED failed

(* create_conversation and get_conversation_by_offer check and then run the   *)
(* same statements.  The other user of the former is any id, one's own too.   *)
CreateConversation(r, u, v) ==
    Begin(r, "find", [NoLocals EXCEPT !.op = "conversation", !.user = u, !.other = v])

(* Mutation: the request of a stranger is not refused. *)
AnyoneMay(u, o) == u \in Users
MayTalkAbout(u, o) == u \in Parties(o)

ConversationByOffer(r, u, o) ==
    /\ MayTalkAbout(u, o)
    /\ \E v \in Parties(o) \ {u} :
          Begin(r, "find", [NoLocals EXCEPT !.op = "conversation",
                                            !.user = u, !.other = v])

SendMessage(r, u, c) ==
    /\ u \in participants[c]
    /\ Begin(r, "tell", [NoLocals EXCEPT !.op = "send_message", !.user = u,
                                         !.conv = c])

MarkRead(r, u, c) ==
    /\ u \in participants[c]
    /\ Begin(r, "mark", [NoLocals EXCEPT !.op = "mark_messages_as_read",
                                         !.user = u, !.conv = c])

(* The handlers about an offer check who asks; none reads the status of the *)
(* offer or of the proof.                                                   *)
AboutOffer(r, op, label, u, v, o, id) ==
    Begin(r, label, [NoLocals EXCEPT !.op = op, !.user = u, !.other = v,
                                     !.offer = o, !.about = id])

RequestProof(r, o) ==
    AboutOffer(r, "request_proof", "find", Buyer[o], Seller[o], o, None)
SubmitProof(r, o) ==
    AboutOffer(r, "submit_proof", "insert", Seller[o], Buyer[o], o, None)
DecideProof(r, o, op, p) ==
    AboutOffer(r, op, "update", Buyer[o], Seller[o], o, p)
CreateEscrow(r, o) ==
    AboutOffer(r, "create_escrow", "insert", Buyer[o], Seller[o], o, None)
NegotiateOffer(r, o) ==
    \E u \in Parties(o) : \E v \in Parties(o) \ {u} :
        AboutOffer(r, "negotiate_offer", "find", u, v, o, None)

-----------------------------------------------------------------------------
(* The row the message tells of is written, and stays, before the message. *)

InsertProof(r) ==
    /\ pc[r] = "insert" /\ req[r].op = "submit_proof"
    /\ \E p \in ProofIds \ DOMAIN proofs :
          /\ proofs' = Row(p, [offer |-> req[r].offer, status |-> "pending"])
                          \oplus proofs
          /\ req' = [req EXCEPT ![r].about = p]
    /\ Continue(r, "find")
    /\ UNCHANGED <<participants, messages, escrows>>

InsertEscrow(r) ==
    /\ pc[r] = "insert" /\ req[r].op = "create_escrow"
    /\ \E e \in EscrowIds \ DOMAIN escrows :
          /\ escrows' = Row(e, req[r].offer) \oplus escrows
          /\ req' = [req EXCEPT ![r].about = e]
    /\ Continue(r, "find")
    /\ UNCHANGED <<participants, messages, proofs>>

Decisions == {"approve_proof", "reject_proof"}
Decision(op) == IF op = "approve_proof" THEN "approved" ELSE "rejected"

(* Mutation: AND offer_id = $2 is dropped. *)
DecideAnyProof(r) ==
    LET p == req[r].about IN
    /\ pc[r] = "update"
    /\ p \in DOMAIN proofs
    /\ proofs' = [proofs EXCEPT ![p].status = Decision(req[r].op)]
    /\ Continue(r, "find")
    /\ UNCHANGED <<participants, messages, escrows, req>>

UpdateProof(r) ==
    LET p == req[r].about IN
    /\ pc[r] = "update"
    /\ p \in DOMAIN proofs /\ proofs[p].offer = req[r].offer
    /\ proofs' = [proofs EXCEPT ![p].status = Decision(req[r].op)]
    /\ Proceed(r, "find")
    /\ failed' = failed \ ({p} \X Decisions)
    /\ UNCHANGED <<participants, messages, escrows, req>>

ProofNotFound(r) ==
    LET p == req[r].about IN
    /\ pc[r] = "update"
    /\ ~ (p \in DOMAIN proofs /\ proofs[p].offer = req[r].offer)
    /\ End(r)
    /\ UNCHANGED db

-----------------------------------------------------------------------------
(* create_or_get_conversation, and its two inlined copies in chats.cc.      *)

Tells(r) == req[r].op \in OfferOps

Found(r, c) ==
    /\ pc[r] = "find" /\ c \in Between(req[r].user, req[r].other)
    /\ \/ /\ Tells(r)
          /\ req' = [req EXCEPT ![r].conv = c]
          /\ Continue(r, "tell")
       \/ ~ Tells(r) /\ End(r)
    /\ UNCHANGED db

(* Mutation: a conversation is opened although there is one. *)
NotFoundUnchecked(r) ==
    /\ pc[r] = "find"
    /\ Continue(r, IF req[r].op = "negotiate_offer" THEN "tell" ELSE "open")
    /\ UNCHANGED <<db, req>>

(* The transaction of negotiate_offer opens the conversation as it commits. *)
NotFound(r) ==
    /\ pc[r] = "find" /\ Between(req[r].user, req[r].other) = {}
    /\ Continue(r, IF req[r].op = "negotiate_offer" THEN "tell" ELSE "open")
    /\ UNCHANGED <<db, req>>

OpenConversation(r) ==
    /\ pc[r] = "open"
    /\ \E c \in ConvIds \ DOMAIN participants :
          /\ participants' = Row(c, {}) \oplus participants
          /\ req' = [req EXCEPT ![r].conv = c]
    /\ Continue(r, "join")
    /\ UNCHANGED <<messages, proofs, escrows>>

(* Mutation: the id of the conversation just opened is not returned. *)
JoinAndLeave(r) ==
    /\ pc[r] = "join" /\ req[r].user # req[r].other
    /\ participants' = [participants EXCEPT ![req[r].conv] = {req[r].user, req[r].other}]
    /\ End(r)
    /\ UNCHANGED <<messages, proofs, escrows>>

(* The primary key of conversation_participants refuses the same user twice. *)
Join(r) ==
    LET both == {req[r].user, req[r].other} IN
    /\ pc[r] = "join" /\ req[r].user # req[r].other
    /\ participants' = [participants EXCEPT ![req[r].conv] = both]
    /\ \/ Tells(r) /\ Continue(r, "tell") /\ UNCHANGED req
       \/ ~ Tells(r) /\ End(r)
    /\ UNCHANGED <<messages, proofs, escrows>>

(* Mutation: the id of a conversation opened in a transaction is not used. *)
MessageOfLocals(r, c) ==
    [op |-> req[r].op, conv |-> req[r].conv, sender |-> req[r].user, offer |-> req[r].offer,
     about |-> req[r].about, read |-> FALSE]

MessageOf(r, c) ==
    [op |-> req[r].op, conv |-> c, sender |-> req[r].user, offer |-> req[r].offer,
     about |-> req[r].about, read |-> FALSE]

Tell(r) ==
    /\ pc[r] = "tell" /\ Len(messages) < MaxMessages
    /\ \/ /\ req[r].conv # None
          /\ messages' = Append(messages, MessageOf(r, req[r].conv))
          /\ UNCHANGED participants
       \/ /\ req[r].conv = None
          /\ \E c \in ConvIds \ DOMAIN participants :
                /\ participants' = Row(c, {req[r].user, req[r].other}) \oplus participants
                /\ messages' = Append(messages, MessageOf(r, c))
    /\ End(r)
    /\ UNCHANGED <<proofs, escrows>>

(* Mutation: AND sender_id != $2 is dropped. *)
ToMarkAll(r, m) == m.conv = req[r].conv
ToMark(r, m) == m.conv = req[r].conv /\ m.sender # req[r].user

Mark(r) ==
    /\ pc[r] = "mark"
    /\ messages' = [i \in DOMAIN messages |->
                       IF ToMark(r, messages[i])
                       THEN [messages[i] EXCEPT !.read = TRUE] ELSE messages[i]]
    /\ End(r)
    /\ UNCHANGED <<participants, proofs, escrows>>

(* Has the request written its row, or its decision, and not told of it yet? *)
ToTell(r, id, op) ==
    /\ pc[r] \in {"find", "open", "join", "tell"}
    /\ req[r].about = id /\ req[r].op = op

(* Is it what the row says still?  A later decision takes its place. *)
Stands(id, op) == op \in Decisions => proofs[id].status = Decision(op)

(* A statement fails, and what the request wrote before it stays. *)
Fail(r) ==
    /\ pc[r] # "idle"
    /\ failed' = failed \cup
          {w \in (ProofIds \cup EscrowIds) \X WritingOps :
              ToTell(r, w[1], w[2]) /\ Stands(w[1], w[2])}
    /\ Leave(r)
    /\ UNCHANGED db

-----------------------------------------------------------------------------
Init ==
    /\ participants = NoRows
    /\ messages = <<>>
    /\ proofs = NoRows
    /\ escrows = NoRows
    /\ pc = [r \in Requests |-> "idle"]
    /\ req = [r \in Requests |-> NoLocals]
    /\ overlapped = FALSE
    /\ failed = {}

(* Bound: who could not speak any more does not begin to. *)
Arrive(r) ==
    \/ \E u \in Users, c \in DOMAIN participants : MarkRead(r, u, c)
    \/ /\ Len(messages) < MaxMessages
       /\ \/ \E u, v \in Users : CreateConversation(r, u, v)
          \/ \E u \in Users, c \in DOMAIN participants : SendMessage(r, u, c)
          \/ \E o \in Offers :
                \/ \E u \in Users : ConversationByOffer(r, u, o)
                \/ RequestProof(r, o) \/ SubmitProof(r, o) \/ CreateEscrow(r, o)
                \/ NegotiateOffer(r, o)
                \/ \E op \in Decisions, p \in ProofIds : DecideProof(r, o, op, p)

Step(r) ==
    \/ InsertProof(r) \/ InsertEscrow(r) \/ UpdateProof(r) \/ ProofNotFound(r)
    \/ \E c \in DOMAIN participants : Found(r, c)
    \/ NotFound(r) \/ OpenConversation(r) \/ Join(r) \/ Tell(r) \/ Mark(r)

Next == \E r \in Requests : Arrive(r) \/ Step(r) \/ Fail(r)

Spec == Init /\ [][Next]_vars

-----------------------------------------------------------------------------
(* Properties of every interleaving.                                        *)

(* Every variable holds rows, locals and labels of the kinds above. *)
TypeOK ==
    /\ participants \in Tables(ConvIds, SUBSET Users)
    /\ messages \in Seq(Message)
    /\ proofs \in Tables(ProofIds, Proof)
    /\ escrows \in Tables(EscrowIds, Offers)
    /\ pc \in [Requests -> {"idle", "find", "open", "join", "insert", "update",
                            "tell", "mark"}]
    /\ req \in [Requests -> Locals]
    /\ overlapped \in BOOLEAN
    /\ failed \subseteq (ProofIds \cup EscrowIds) \X WritingOps

(* What is said about an offer is said between its buyer and its seller, and *)
(* whoever speaks in a conversation takes part in it: no race between two    *)
(* requests that look for a conversation puts a message where a stranger     *)
(* reads it or where its sender does not.                                    *)
SaidBetweenTheParties ==
    \A i \in DOMAIN messages :
        LET m == messages[i] IN
        /\ m.conv \in DOMAIN participants
        /\ m.sender \in participants[m.conv]
        /\ m.offer # None => participants[m.conv] = Parties(m.offer)

(* A message never tells of a proof or an escrow of another offer, nor of   *)
(* one that is not there, although the row and the message are written in   *)
(* statements apart.                                                        *)
TellsOfItsOffer ==
    \A i \in DOMAIN messages :
        LET m == messages[i] IN
        /\ m.about \in ProofIds =>
              m.about \in DOMAIN proofs /\ proofs[m.about].offer = m.offer
        /\ m.about \in EscrowIds =>
              m.about \in DOMAIN escrows /\ escrows[m.about] = m.offer

(* What is done is told, and told of the kind it is: a proof that stands, the *)
(* decision that stands on it, whichever of the racing ones was written last, *)
(* and an escrow each have their message, or the request that wrote them is   *)
(* still on its way to it, or it failed in between.  No branch of finding,    *)
(* opening and joining a conversation, and no request that takes another one  *)
(* along it, lets a request end in silence; and no message tells a decision   *)
(* on a proof that is still pending.                                         *)
Told(id, op) == \E i \in DOMAIN messages : messages[i].about = id /\ messages[i].op = op
Accounted(id, op) ==
    Told(id, op) \/ <<id, op>> \in failed \/ \E r \in Requests : ToTell(r, id, op)
WhatIsDoneIsTold ==
    /\ \A p \in DOMAIN proofs :
          /\ Accounted(p, "submit_proof")
          /\ \A op \in Decisions :
                /\ proofs[p].status = Decision(op) => Accounted(p, op)
                /\ Told(p, op) => proofs[p].status # "pending"
    /\ \A e \in DOMAIN escrows : Accounted(e, "create_escrow")

(* A message turns read only at the request of the other user of its        *)
(* conversation, never of its sender, although it may be inserted between    *)
(* the check of the reader and his UPDATE.                                  *)
ReadByTheOther ==
    [][\A i \in DOMAIN messages :
        messages'[i].read /\ ~ messages[i].read =>
            \E r \in Requests :
                /\ req[r].op = "mark_messages_as_read"
                /\ req[r].user \in participants[messages[i].conv] \ {messages[i].sender}]_vars

-----------------------------------------------------------------------------
(* Properties of requests that never overlapped: what the handlers promise  *)
(* when nothing happens between their checks and their writes.              *)

(* Two users have at most one conversation, whoever opens it, through        *)
(* whichever handler, and however often opening it failed before.            *)
OneConversation ==
    \A c, d \in DOMAIN participants :
        /\ ~ overlapped
        /\ participants[c] = participants[d] /\ participants[c] # {}
        => c = d

=============================================================================
