------------------------ MODULE ConversationsProofs ------------------------
(***************************************************************************)
(* Theorems about Conversations, for any number of requests, users, offers  *)
(* and conversations.                                                       *)
(***************************************************************************)
EXTENDS Conversations, TableLemmas

-----------------------------------------------------------------------------
(* What the locals l of a request are at each label, by the conversations    *)
(* ps, the proofs pr and the escrows es: whom it is about, what it has       *)
(* written and which conversation it has found outlast the statements of     *)
(* the other requests.                                                      *)
LocalsAt(label, l, ps, pr, es) ==
    /\ label = "idle" => l = NoLocals
    /\ label # "idle" =>
          /\ l.user \in Users
          /\ l.op \in OfferOps =>
                l.other \in Users /\ l.offer \in Offers
                /\ {l.user, l.other} = Parties(l.offer) /\ l.user # l.other
          /\ l.op \notin OfferOps => l.offer = None /\ l.about = None
    /\ label \in {"find", "open", "join"} =>
          l.op \in OfferOps \cup {"conversation"} /\ l.other \in Users
    /\ label \in {"find", "open", "insert", "update"} => l.conv = None
    /\ label = "insert" => l.op \in {"submit_proof", "create_escrow"}
    /\ label = "update" => l.op \in Decisions /\ l.about \in ProofIds
    /\ label \in {"find", "open", "join", "tell"} =>
          /\ l.op \in Decisions => l.about \in ProofIds /\ pr[l.about].status # "pending"
          /\ l.about \in ProofIds => l.about \in DOMAIN pr /\ pr[l.about].offer = l.offer
          /\ l.about \in EscrowIds => l.about \in DOMAIN es /\ es[l.about] = l.offer
    /\ label = "join" => l.conv \in DOMAIN ps /\ ps[l.conv] = {}
    /\ label = "tell" =>
          /\ l.op \in OfferOps \cup {"send_message"}
          /\ l.conv = None => l.op = "negotiate_offer"
          /\ l.conv # None =>
                /\ l.conv \in DOMAIN ps /\ l.user \in ps[l.conv]
                /\ l.op \in OfferOps => ps[l.conv] = Parties(l.offer)
    /\ label = "mark" =>
          l.op = "mark_messages_as_read" /\ l.conv \in DOMAIN ps /\ l.user \in ps[l.conv]

LocalsInv == \A r \in Requests : LocalsAt(pc[r], req[r], participants, proofs, escrows)

(* A conversation that nobody has joined is joined by the one request that   *)
(* opened it; one that is joined has the two users who met in it.           *)
PairsInv ==
    /\ \A r, s \in Requests :
          pc[r] = "join" /\ pc[s] = "join" /\ req[r].conv = req[s].conv => r = s
    /\ \A c \in DOMAIN participants :
          participants[c] = {} \/ \E u, v \in Users : participants[c] = {u, v}

(* As long as requests took turns, one is in flight at most, and the two     *)
(* users it did not find a conversation of have none yet.                   *)
Missed(label, l) == label \in {"open", "join"} \/ (label = "tell" /\ l.conv = None)
TurnsInv ==
    ~ overlapped =>
        /\ \A r, s \in Requests : pc[r] # "idle" /\ pc[s] # "idle" => r = s
        /\ \A r \in Requests :
              Missed(pc[r], req[r]) => Between(req[r].user, req[r].other) = {}

(* The whole inductive invariant. *)
IInv ==
    /\ TypeOK /\ LocalsInv /\ PairsInv /\ TurnsInv
    /\ SaidBetweenTheParties /\ TellsOfItsOffer /\ WhatIsDoneIsTold /\ OneConversation

-----------------------------------------------------------------------------
(* How the statements of all requests change the tables: rows stay, nobody   *)
(* leaves a conversation, a proof stays with its offer, and stays decided.  *)
Kept(ps, pr, es, ps2, pr2, es2) ==
    /\ \A c \in DOMAIN ps : c \in DOMAIN ps2 /\ (ps[c] # {} => ps2[c] = ps[c])
    /\ \A p \in DOMAIN pr :
          /\ p \in DOMAIN pr2 /\ pr2[p].offer = pr[p].offer
          /\ pr[p].status # "pending" => pr2[p].status # "pending"
    /\ \A e \in DOMAIN es : e \in DOMAIN es2 /\ es2[e] = es[e]

(* What one message tells, by the tables. *)
Honest(m, ps, pr, es) ==
    /\ m.conv \in DOMAIN ps
    /\ m.sender \in ps[m.conv]
    /\ m.offer # None => ps[m.conv] = Parties(m.offer)
    /\ m.about \in ProofIds => m.about \in DOMAIN pr /\ pr[m.about].offer = m.offer
    /\ m.about \in EscrowIds => m.about \in DOMAIN es /\ es[m.about] = m.offer

(* No message is worse than honest. *)
LEMMA AllHonest ==
    SaidBetweenTheParties /\ TellsOfItsOffer <=>
        \A i \in DOMAIN messages : Honest(messages[i], participants, proofs, escrows)
BY DEF SaidBetweenTheParties, TellsOfItsOffer, Honest

(* A message stays honest. *)
LEMMA HonestKept ==
    ASSUME NEW ps, NEW pr, NEW es, NEW ps2, NEW pr2, NEW es2, NEW m,
           Kept(ps, pr, es, ps2, pr2, es2), Honest(m, ps, pr, es)
    PROVE  Honest(m, ps2, pr2, es2)
BY DEF Kept, Honest

(* What a request knows stays true, but for the conversation it is to join. *)
LEMMA LocalsKept ==
    ASSUME NEW ps, NEW pr, NEW es, NEW ps2, NEW pr2, NEW es2, NEW label, NEW l,
           Kept(ps, pr, es, ps2, pr2, es2), LocalsAt(label, l, ps, pr, es),
           label = "join" => ps2[l.conv] = {}
    PROVE  LocalsAt(label, l, ps2, pr2, es2)
<1>1. CASE label = "idle"
    BY <1>1 DEF LocalsAt
<1>2. CASE label # "idle"
    BY <1>2 DEF Kept, LocalsAt
<1> QED
    BY <1>1, <1>2

(* The step of one request leaves the others with what they know. *)
LEMMA OthersKept ==
    ASSUME IInv, NEW r \in Requests, NEW label, NEW locals,
           Kept(participants, proofs, escrows, participants', proofs', escrows'),
           pc' = [pc EXCEPT ![r] = label], req' = [req EXCEPT ![r] = locals],
           \A s \in Requests \ {r} :
              pc[s] = "join" => participants'[req[s].conv] = {},
           LocalsAt(label, locals, participants', proofs', escrows')
    PROVE  LocalsInv'
<1> SUFFICES ASSUME NEW s \in Requests
             PROVE  LocalsAt(pc'[s], req'[s], participants', proofs', escrows')
    BY DEF LocalsInv
<1>1. CASE s = r
    BY <1>1 DEF IInv, TypeOK
<1>2. CASE s # r
    <2>1. pc'[s] = pc[s] /\ req'[s] = req[s]
        BY <1>2 DEF IInv, TypeOK
    <2>2. LocalsAt(pc[s], req[s], participants, proofs, escrows)
        BY DEF IInv, LocalsInv
    <2> QED
        BY <1>2, <2>1, <2>2, LocalsKept
<1> QED
    BY <1>1, <1>2

(* As long as messages do not change, they tell what they told. *)
LEMMA MessagesKept ==
    ASSUME IInv, messages' = messages,
           Kept(participants, proofs, escrows, participants', proofs', escrows')
    PROVE  SaidBetweenTheParties' /\ TellsOfItsOffer'
<1>1. \A i \in DOMAIN messages : Honest(messages[i], participants, proofs, escrows)
    BY AllHonest DEF IInv
<1>2. \A i \in DOMAIN messages : Honest(messages[i], participants', proofs', escrows')
    BY <1>1, HonestKept
<1> QED
    BY <1>2 DEF SaidBetweenTheParties, TellsOfItsOffer, Honest

(* A request on its way to its message. *)
Going(label, l, id, op) ==
    label \in {"find", "open", "join", "tell"} /\ l.about = id /\ l.op = op

(* What is accounted for stays so: the message stays, the failure stays, and *)
(* the request goes on, tells or fails.                                     *)
LEMMA AccountedKept ==
    ASSUME IInv, NEW r \in Requests, NEW label, NEW locals,
           pc' = [pc EXCEPT ![r] = label], req' = [req EXCEPT ![r] = locals],
           NEW id, NEW op, Accounted(id, op),
           <<id, op>> \in failed => <<id, op>> \in failed',
           Told(id, op) => Told(id, op)',
           ToTell(r, id, op) =>
              Told(id, op)' \/ <<id, op>> \in failed' \/ Going(label, locals, id, op)
    PROVE  Accounted(id, op)'
<1>1. CASE Told(id, op) \/ <<id, op>> \in failed
    BY <1>1 DEF Accounted
<1>2. ASSUME NEW s \in Requests, s # r, ToTell(s, id, op)
      PROVE  Accounted(id, op)'
    <2>1. pc'[s] = pc[s] /\ req'[s] = req[s]
        BY <1>2 DEF IInv, TypeOK
    <2>2. ToTell(s, id, op)'
        BY <1>2, <2>1 DEF ToTell
    <2> QED
        BY <2>2 DEF Accounted
<1>3. CASE ToTell(r, id, op)
    <2>1. pc'[r] = label /\ req'[r] = locals
        BY DEF IInv, TypeOK
    <2>2. CASE Going(label, locals, id, op)
        <3>1. ToTell(r, id, op)'
            BY <2>1, <2>2 DEF ToTell, Going
        <3> QED
            BY <3>1 DEF Accounted
    <2> QED
        BY <1>3, <2>2 DEF Accounted
<1> QED
    BY <1>1, <1>2, <1>3 DEF Accounted

(* A step that writes neither proofs nor escrows keeps what is told. *)
LEMMA ToldKept ==
    ASSUME IInv, NEW r \in Requests, NEW label, NEW locals,
           pc' = [pc EXCEPT ![r] = label], req' = [req EXCEPT ![r] = locals],
           failed \subseteq failed', UNCHANGED <<proofs, escrows>>,
           \A id \in ProofIds \cup EscrowIds, op \in WritingOps :
              Told(id, op) => Told(id, op)',
           \A p \in DOMAIN proofs, op \in Decisions :
              Told(p, op)' => proofs[p].status # "pending",
           \A id \in ProofIds \cup EscrowIds, op \in WritingOps :
              ToTell(r, id, op) /\ Stands(id, op) =>
                 Told(id, op)' \/ <<id, op>> \in failed' \/ Going(label, locals, id, op)
    PROVE  WhatIsDoneIsTold'
<1>1. DOMAIN proofs \subseteq ProofIds /\ DOMAIN escrows \subseteq EscrowIds
    BY TableIsFunction DEF IInv, TypeOK
<1>2. \A id \in ProofIds \cup EscrowIds, op \in WritingOps :
          Accounted(id, op) /\ Stands(id, op) => Accounted(id, op)'
    BY AccountedKept
<1>3. \A p \in DOMAIN proofs :
          /\ Accounted(p, "submit_proof")'
          /\ \A op \in Decisions :
                /\ proofs'[p].status = Decision(op) => Accounted(p, op)'
                /\ Told(p, op)' => proofs'[p].status # "pending"
    BY <1>1, <1>2 DEF IInv, WhatIsDoneIsTold, WritingOps, Decisions, Stands
<1>4. \A e \in DOMAIN escrows : Accounted(e, "create_escrow")'
    BY <1>1, <1>2 DEF IInv, WhatIsDoneIsTold, WritingOps, Decisions, Stands
<1> QED
    BY <1>3, <1>4 DEF WhatIsDoneIsTold, Decisions

(* Nothing is told and nothing fails: the request goes on, or had nothing to *)
(* tell.                                                                    *)
LEMMA SilenceKept ==
    ASSUME IInv, NEW r \in Requests, NEW label, NEW locals,
           pc' = [pc EXCEPT ![r] = label], req' = [req EXCEPT ![r] = locals],
           UNCHANGED <<messages, proofs, escrows, failed>>,
           \A id \in ProofIds \cup EscrowIds, op \in WritingOps :
              ToTell(r, id, op) => Going(label, locals, id, op)
    PROVE  WhatIsDoneIsTold'
<1>1. \A id, op : Told(id, op)' <=> Told(id, op)
    BY DEF Told
<1>2. \A p \in DOMAIN proofs, op \in Decisions :
          Told(p, op) => proofs[p].status # "pending"
    BY DEF IInv, WhatIsDoneIsTold, Decisions
<1> QED
    BY <1>1, <1>2, ToldKept

(* Tables that do not change keep their rows. *)
LEMMA NothingWritten ==
    ASSUME UNCHANGED <<participants, proofs, escrows>>
    PROVE  Kept(participants, proofs, escrows, participants', proofs', escrows')
BY DEF Kept

-----------------------------------------------------------------------------
(* The locals of a request that is over are locals. *)
LEMMA NoLocalsType == NoLocals \in Locals
BY DEF NoLocals, Locals

(* Nobody has a conversation or a request at first. *)
LEMMA InitInv == Init => IInv
<1> SUFFICES ASSUME Init PROVE IInv
    OBVIOUS
<1>1. TypeOK
    <2>1. participants \in Tables(ConvIds, SUBSET Users)
        BY NoRowsIsTable DEF Init
    <2>2. proofs \in Tables(ProofIds, Proof)
        BY NoRowsIsTable DEF Init
    <2>3. escrows \in Tables(EscrowIds, Offers)
        BY NoRowsIsTable DEF Init
    <2>4. messages \in Seq(Message)
        BY DEF Init
    <2>5. pc \in [Requests -> {"idle"}] /\ req \in [Requests -> Locals]
        BY NoLocalsType DEF Init
    <2>6. failed \subseteq (ProofIds \cup EscrowIds) \X WritingOps
        BY DEF Init
    <2> QED
        BY <2>1, <2>2, <2>3, <2>4, <2>5, <2>6 DEF Init, TypeOK
<1>2. LocalsInv
    BY DEF Init, LocalsInv, LocalsAt
<1>3. PairsInv /\ TurnsInv /\ OneConversation
    BY NoRowsIsTable DEF Init, PairsInv, TurnsInv, Missed, OneConversation
<1>4. SaidBetweenTheParties /\ TellsOfItsOffer
    BY DEF Init, SaidBetweenTheParties, TellsOfItsOffer
<1>5. WhatIsDoneIsTold
    BY NoRowsIsTable DEF Init, WhatIsDoneIsTold
<1> QED
    BY <1>1, <1>2, <1>3, <1>4, <1>5 DEF IInv

(* A request arrives with locals that fit its label, and writes nothing. *)
LEMMA BeginInv ==
    ASSUME IInv, NEW r \in Requests, NEW label, NEW locals \in Locals,
           label \in {"find", "insert", "update", "tell", "mark"},
           label = "find" => locals.op \notin Decisions,
           label = "tell" => locals.op \notin Decisions /\ locals.conv # None,
           Begin(r, label, locals),
           LocalsAt(label, locals, participants, proofs, escrows)
    PROVE  IInv'
<1> USE DEF IInv
<1>1. UNCHANGED <<participants, messages, proofs, escrows, failed>>
    BY DEF Begin, db
<1>2. TypeOK'
    BY <1>1 DEF TypeOK, Begin
<1>3. Kept(participants, proofs, escrows, participants', proofs', escrows')
    BY <1>1, NothingWritten
<1>4. LocalsInv'
    <2>1. \A s \in Requests : pc[s] = "join" => participants'[req[s].conv] = {}
        BY <1>1 DEF LocalsInv, LocalsAt
    <2> QED
        BY <1>1, <1>3, <2>1, OthersKept DEF Begin
<1>5. PairsInv'
    BY <1>1 DEF TypeOK, Begin, PairsInv
<1>6. TurnsInv'
    BY <1>1 DEF TypeOK, Begin, TurnsInv, Missed, Between
<1>7. OneConversation'
    BY <1>1 DEF OneConversation, Begin
<1>8. WhatIsDoneIsTold'
    BY <1>1, SilenceKept DEF Begin, ToTell
<1> QED
    BY <1>1, <1>2, <1>3, <1>4, <1>5, <1>6, <1>7, <1>8, MessagesKept

(* A user asks for a conversation. *)
LEMMA AskInv ==
    ASSUME IInv, NEW r \in Requests, NEW u \in Users, NEW v \in Users,
           Begin(r, "find", [NoLocals EXCEPT !.op = "conversation",
                                             !.user = u, !.other = v])
    PROVE  IInv'
<1> DEFINE locals == [NoLocals EXCEPT !.op = "conversation", !.user = u, !.other = v]
<1>1. locals \in Locals /\ locals.op \notin Decisions
    BY DEF Locals, NoLocals, ChatOps, Decisions
<1>2. LocalsAt("find", locals, participants, proofs, escrows)
    BY NoneAssumption DEF NoLocals, LocalsAt, OfferOps, ProofOps, Decisions
<1> QED
    BY <1>1, <1>2, BeginInv

(* A participant sends a message or reads the others'. *)
LEMMA ChatInv ==
    ASSUME IInv, NEW r \in Requests, NEW u \in Users, NEW c \in DOMAIN participants,
           SendMessage(r, u, c) \/ MarkRead(r, u, c)
    PROVE  IInv'
<1> DEFINE Of(op) == [NoLocals EXCEPT !.op = op, !.user = u, !.conv = c]
<1>1. c \in ConvIds /\ c # None
    BY NoneAssumption, TableIsFunction DEF IInv, TypeOK
<1>2. CASE SendMessage(r, u, c)
    <2>1. Of("send_message") \in Locals /\ Of("send_message").op \notin Decisions
          /\ Of("send_message").conv # None
        BY <1>1 DEF Locals, NoLocals, ChatOps, Decisions
    <2>2. LocalsAt("tell", Of("send_message"), participants, proofs, escrows)
        BY <1>1, <1>2, NoneAssumption
        DEF NoLocals, LocalsAt, OfferOps, ProofOps, Decisions, SendMessage
    <2> QED
        BY <1>2, <2>1, <2>2, BeginInv DEF SendMessage
<1>3. CASE MarkRead(r, u, c)
    <2>1. Of("mark_messages_as_read") \in Locals
        BY <1>1 DEF Locals, NoLocals, ChatOps
    <2>2. LocalsAt("mark", Of("mark_messages_as_read"), participants, proofs, escrows)
        BY <1>1, <1>3 DEF NoLocals, LocalsAt, OfferOps, ProofOps, Decisions, MarkRead
    <2> QED
        BY <1>3, <2>1, <2>2, BeginInv DEF MarkRead
<1> QED
    BY <1>2, <1>3

(* One party of an offer asks, submits, decides, secures or negotiates. *)
LEMMA AboutOfferInv ==
    ASSUME IInv, NEW r \in Requests, NEW op \in OfferOps, NEW label,
           NEW o \in Offers, NEW u \in Users, NEW v \in Users, {u, v} = Parties(o),
           NEW id \in ProofIds \cup {None}, AboutOffer(r, op, label, u, v, o, id),
           \/ label = "find" /\ op \notin Decisions /\ id = None
           \/ label = "insert" /\ op \in {"submit_proof", "create_escrow"}
           \/ label = "update" /\ op \in Decisions /\ id \in ProofIds
    PROVE  IInv'
<1> DEFINE locals == [NoLocals EXCEPT !.op = op, !.user = u, !.other = v,
                                      !.offer = o, !.about = id]
<1>1. locals \in Locals
    BY DEF Locals, NoLocals
<1>2. u # v
    BY PartiesAssumption DEF Parties
<1>3. LocalsAt(label, locals, participants, proofs, escrows)
    BY <1>2, NoneAssumption DEF NoLocals, LocalsAt, Decisions
<1>4. locals.op = op
    BY DEF NoLocals
<1> QED
    BY <1>1, <1>3, <1>4, BeginInv DEF AboutOffer

(* A request arrives. *)
LEMMA ArriveInv ==
    ASSUME IInv, NEW r \in Requests, Arrive(r)
    PROVE  IInv'
<1>1. CASE \E u, v \in Users : CreateConversation(r, u, v)
    BY <1>1, AskInv DEF CreateConversation
<1>2. CASE \E u \in Users, c \in DOMAIN participants :
              SendMessage(r, u, c) \/ MarkRead(r, u, c)
    BY <1>2, ChatInv
<1>3. ASSUME NEW o \in Offers,
             \/ \E u \in Users : ConversationByOffer(r, u, o)
             \/ RequestProof(r, o) \/ SubmitProof(r, o) \/ CreateEscrow(r, o)
             \/ NegotiateOffer(r, o)
             \/ \E op \in Decisions, p \in ProofIds :
                   DecideProof(r, o, op, p)
      PROVE  IInv'
    <2> USE DEF OfferOps, ProofOps, Decisions
    <2>1. Buyer[o] \in Users /\ Seller[o] \in Users /\ Parties(o) = {Buyer[o], Seller[o]}
          /\ Parties(o) = {Seller[o], Buyer[o]} /\ Buyer[o] # Seller[o]
        BY PartiesAssumption DEF Parties
    <2>2. CASE \E u \in Users : ConversationByOffer(r, u, o)
        <3> PICK u \in Users : \E v \in Parties(o) \ {u} :
                Begin(r, "find", [NoLocals EXCEPT !.op = "conversation",
                                                  !.user = u, !.other = v])
            BY <2>2 DEF ConversationByOffer
        <3> Parties(o) \subseteq Users
            BY <2>1
        <3> QED
            BY AskInv
    <2>3. CASE RequestProof(r, o)
        BY <2>1, <2>3, AboutOfferInv DEF RequestProof
    <2>4. CASE SubmitProof(r, o)
        BY <2>1, <2>4, AboutOfferInv DEF SubmitProof
    <2>5. CASE CreateEscrow(r, o)
        BY <2>1, <2>5, AboutOfferInv DEF CreateEscrow
    <2>6. CASE NegotiateOffer(r, o)
        <3> PICK u \in Parties(o) : \E v \in Parties(o) \ {u} :
                AboutOffer(r, "negotiate_offer", "find", u, v, o, None)
            BY <2>6 DEF NegotiateOffer
        <3> PICK v \in Parties(o) \ {u} :
                AboutOffer(r, "negotiate_offer", "find", u, v, o, None)
            OBVIOUS
        <3> u \in Users /\ v \in Users /\ {u, v} = Parties(o)
            BY <2>1
        <3> QED
            BY AboutOfferInv
    <2>7. CASE \E op \in Decisions, p \in ProofIds :
                  DecideProof(r, o, op, p)
        BY <2>1, <2>7, AboutOfferInv DEF DecideProof
    <2> QED
        BY <1>3, <2>2, <2>3, <2>4, <2>5, <2>6, <2>7
<1> QED
    BY <1>1, <1>2, <1>3 DEF Arrive

(* A request leaves, and what stands and it had to tell counts as failed. *)
LEMMA LeaveInv ==
    ASSUME IInv, NEW r \in Requests, Leave(r),
           UNCHANGED <<participants, messages, proofs, escrows>>,
           failed \subseteq failed',
           failed' \subseteq (ProofIds \cup EscrowIds) \X WritingOps,
           \A id \in ProofIds \cup EscrowIds, op \in WritingOps :
              ToTell(r, id, op) /\ Stands(id, op) => <<id, op>> \in failed'
    PROVE  IInv'
<1> USE DEF IInv
<1>1. TypeOK'
    BY NoLocalsType DEF TypeOK, Leave
<1>2. Kept(participants, proofs, escrows, participants', proofs', escrows')
    BY NothingWritten
<1>3. LocalsInv'
    <2>1. \A s \in Requests : pc[s] = "join" => participants'[req[s].conv] = {}
        BY DEF LocalsInv, LocalsAt
    <2>2. LocalsAt("idle", NoLocals, participants', proofs', escrows')
        BY DEF LocalsAt
    <2> QED
        BY <1>2, <2>1, <2>2, OthersKept DEF Leave
<1>4. PairsInv'
    BY DEF TypeOK, Leave, PairsInv
<1>5. TurnsInv'
    BY DEF TypeOK, Leave, TurnsInv, Missed, Between
<1>6. OneConversation'
    BY DEF OneConversation, Leave
<1>7. WhatIsDoneIsTold'
    <2>1. \A id, op : Told(id, op)' <=> Told(id, op)
        BY DEF Told
    <2>2. \A p \in DOMAIN proofs, op \in Decisions :
              Told(p, op) => proofs[p].status # "pending"
        BY DEF WhatIsDoneIsTold, Decisions
    <2> QED
        BY <2>1, <2>2, ToldKept DEF Leave
<1> QED
    BY <1>1, <1>2, <1>3, <1>4, <1>5, <1>6, <1>7, MessagesKept

(* A request that has nothing to tell is over. *)
LEMMA EndInv ==
    ASSUME IInv, NEW r \in Requests, End(r),
           UNCHANGED <<participants, messages, proofs, escrows>>,
           \A id \in ProofIds \cup EscrowIds, op \in WritingOps : ~ ToTell(r, id, op)
    PROVE  IInv'
BY LeaveInv DEF End, IInv, TypeOK

(* A statement fails. *)
LEMMA FailInv ==
    ASSUME IInv, NEW r \in Requests, Fail(r)
    PROVE  IInv'
<1>1. /\ Leave(r) /\ UNCHANGED <<participants, messages, proofs, escrows>>
      /\ failed' = failed \cup
            {w \in (ProofIds \cup EscrowIds) \X WritingOps :
                ToTell(r, w[1], w[2]) /\ Stands(w[1], w[2])}
    BY DEF Fail, db
<1>2. failed' \subseteq (ProofIds \cup EscrowIds) \X WritingOps
    BY <1>1 DEF IInv, TypeOK
<1>3. \A id \in ProofIds \cup EscrowIds, op \in WritingOps :
          ToTell(r, id, op) /\ Stands(id, op) => <<id, op>> \in failed'
    BY <1>1
<1> QED
    BY <1>1, <1>2, <1>3, LeaveInv

-----------------------------------------------------------------------------
(* A request that has written its row or its decision is on its way. *)
LEMMA AccountedWhenWritten ==
    ASSUME IInv, NEW r \in Requests, pc[r] \in {"insert", "update"}, NEW about,
           UNCHANGED messages, pc' = [pc EXCEPT ![r] = "find"],
           req' = [req EXCEPT ![r] = [req[r] EXCEPT !.about = about]]
    PROVE  /\ \A id, op :
                 /\ <<id, op>> \in failed => <<id, op>> \in failed'
                 /\ Accounted(id, op)
                 => Accounted(id, op)'
           /\ Accounted(about, req[r].op)'
<1>1. \A id, op : ~ ToTell(r, id, op) /\ (Told(id, op) => Told(id, op)')
    BY DEF ToTell, Told
<1>2. \A id, op :
          /\ <<id, op>> \in failed => <<id, op>> \in failed'
          /\ Accounted(id, op)
          => Accounted(id, op)'
    BY <1>1, AccountedKept
<1>3. pc'[r] = "find" /\ req'[r].about = about /\ req'[r].op = req[r].op
    BY DEF IInv, TypeOK, Locals
<1>4. ToTell(r, about, req[r].op)'
    BY <1>3 DEF ToTell
<1> QED
    BY <1>2, <1>4 DEF Accounted

(* The row a request tells of is written before it looks for whom to tell. *)
LEMMA WrittenInv ==
    ASSUME IInv, NEW r \in Requests, pc[r] \in {"insert", "update"},
           NEW about \in ProofIds \cup EscrowIds,
           pc' = [pc EXCEPT ![r] = "find"],
           req' = [req EXCEPT ![r] = [req[r] EXCEPT !.about = about]],
           UNCHANGED <<participants, messages, overlapped>>, failed' \subseteq failed, WhatIsDoneIsTold',
           proofs' \in Tables(ProofIds, Proof), escrows' \in Tables(EscrowIds, Offers),
           Kept(participants, proofs, escrows, participants', proofs', escrows'),
           about \in ProofIds =>
              about \in DOMAIN proofs' /\ proofs'[about].offer = req[r].offer,
           about \in EscrowIds =>
              about \in DOMAIN escrows' /\ escrows'[about] = req[r].offer,
           req[r].op \in Decisions =>
              about \in ProofIds /\ proofs'[about].status = Decision(req[r].op)
    PROVE  IInv'
<1> USE DEF IInv
<1> DEFINE locals == [req[r] EXCEPT !.about = about]
<1>1. req[r] \in Locals /\ locals \in Locals
    BY DEF TypeOK, Locals
<1>2. TypeOK'
    BY <1>1 DEF TypeOK
<1>3. LocalsAt(pc[r], req[r], participants, proofs, escrows)
    BY DEF LocalsInv
<1>4. LocalsInv'
    <2>1. \A s \in Requests : pc[s] = "join" => participants'[req[s].conv] = {}
        BY DEF LocalsInv, LocalsAt
    <2>2. LocalsAt("find", locals, participants', proofs', escrows')
        BY <1>1, <1>3 DEF LocalsAt, Locals, OfferOps, ProofOps, Decisions, Decision
    <2> QED
        BY <2>1, <2>2, OthersKept
<1>5. PairsInv'
    BY DEF TypeOK, PairsInv
<1>6. TurnsInv'
    <2> SUFFICES ASSUME ~ overlapped PROVE TurnsInv'
        BY DEF TurnsInv
    <2>1. \A s \in Requests : s # r => pc'[s] = "idle"
        BY DEF TurnsInv, TypeOK
    <2>2. pc'[r] = "find" /\ req'[r] = locals
        BY DEF TypeOK
    <2> QED
        BY <2>1, <2>2 DEF TurnsInv, Missed
<1>7. OneConversation'
    BY DEF OneConversation
<1> QED
    BY <1>2, <1>4, <1>5, <1>6, <1>7, MessagesKept

(* submit_proof inserts its proof. *)
LEMMA InsertProofInv ==
    ASSUME IInv, NEW r \in Requests, InsertProof(r)
    PROVE  IInv'
<1> USE DEF IInv
<1> PICK p \in ProofIds \ DOMAIN proofs :
        /\ proofs' = Row(p, [offer |-> req[r].offer, status |-> "pending"]) \oplus proofs
        /\ req' = [req EXCEPT ![r].about = p]
    BY DEF InsertProof
<1> DEFINE row == [offer |-> req[r].offer, status |-> "pending"]
<1>1. pc[r] = "insert" /\ req[r].op = "submit_proof"
      /\ UNCHANGED <<participants, messages, escrows, overlapped, failed>>
      /\ pc' = [pc EXCEPT ![r] = "find"]
    BY DEF InsertProof, Continue, Proceed
<1>2. req[r].offer \in Offers /\ row \in Proof
    BY <1>1 DEF LocalsInv, LocalsAt, OfferOps, ProofOps, Proof
<1>3. proofs' \in Tables(ProofIds, Proof)
    BY <1>2, OneRow, Overlay DEF TypeOK
<1>4. DOMAIN Row(p, row) = {p} /\ Row(p, row)[p] = row /\ proofs' = Row(p, row) \oplus proofs
    BY DEF Row
<1>5. \A q \in DOMAIN proofs : q \in DOMAIN proofs' /\ proofs'[q] = proofs[q]
    BY <1>4 DEF \oplus
<1>6. p \in DOMAIN proofs' /\ proofs'[p] = row
    BY <1>4 DEF \oplus
<1>10. proofs'[p].offer = req[r].offer /\ escrows' \in Tables(EscrowIds, Offers)
    BY <1>1, <1>6 DEF TypeOK
<1>7. Kept(participants, proofs, escrows, participants', proofs', escrows')
    BY <1>1, <1>5 DEF Kept
<1>8. p \notin EscrowIds /\ req[r].op \notin Decisions
    BY <1>1, NoneAssumption DEF Decisions
<1>9. req' = [req EXCEPT ![r] = [req[r] EXCEPT !.about = p]]
    BY DEF TypeOK
<1>11. WhatIsDoneIsTold'
    <2>1. \A id, op : Accounted(id, op) => Accounted(id, op)'
        BY <1>1, <1>9, AccountedWhenWritten
    <2>2. Accounted(p, "submit_proof")'
        <3>1. Accounted(p, req[r].op)'
            BY <1>1, <1>9, AccountedWhenWritten
        <3> QED
            BY <1>1, <3>1 DEF Accounted, Told, ToTell
    <2>3. \A op \in Decisions : ~ Told(p, op)'
        BY <1>1 DEF Told, TellsOfItsOffer
    <2>4. \A q \in DOMAIN proofs', op \in Decisions :
              Told(q, op)' => q \in DOMAIN proofs /\ Told(q, op)
        BY <1>1, <1>4, <2>3 DEF Told, \oplus
    <2>5. proofs'[p].status = "pending" /\ DOMAIN proofs' = DOMAIN proofs \cup {p}
        BY <1>4, <1>6 DEF \oplus
    <2> QED
        BY <1>1, <1>5, <2>1, <2>2, <2>4, <2>5 DEF WhatIsDoneIsTold, Decisions, Decision
<1> QED
    BY <1>1, <1>3, <1>6, <1>7, <1>8, <1>9, <1>10, <1>11, WrittenInv

(* create_escrow inserts its escrow. *)
LEMMA InsertEscrowInv ==
    ASSUME IInv, NEW r \in Requests, InsertEscrow(r)
    PROVE  IInv'
<1> USE DEF IInv
<1> PICK e \in EscrowIds \ DOMAIN escrows :
        /\ escrows' = Row(e, req[r].offer) \oplus escrows
        /\ req' = [req EXCEPT ![r].about = e]
    BY DEF InsertEscrow
<1> DEFINE row == req[r].offer
<1>1. pc[r] = "insert" /\ req[r].op = "create_escrow"
      /\ UNCHANGED <<participants, messages, proofs, overlapped, failed>>
      /\ pc' = [pc EXCEPT ![r] = "find"]
    BY DEF InsertEscrow, Continue, Proceed
<1>2. row \in Offers
    BY <1>1 DEF LocalsInv, LocalsAt, OfferOps, ProofOps
<1>3. escrows' \in Tables(EscrowIds, Offers)
    BY <1>2, OneRow, Overlay DEF TypeOK
<1>4. DOMAIN Row(e, row) = {e} /\ Row(e, row)[e] = row /\ escrows' = Row(e, row) \oplus escrows
    BY DEF Row
<1>5. \A q \in DOMAIN escrows : q \in DOMAIN escrows' /\ escrows'[q] = escrows[q]
    BY <1>4 DEF \oplus
<1>6. e \in DOMAIN escrows' /\ escrows'[e] = row
    BY <1>4 DEF \oplus
<1>7. Kept(participants, proofs, escrows, participants', proofs', escrows')
    BY <1>1, <1>5 DEF Kept
<1>8. e \notin ProofIds /\ req[r].op \notin Decisions
    BY <1>1, NoneAssumption DEF Decisions
<1>9. req' = [req EXCEPT ![r] = [req[r] EXCEPT !.about = e]]
    BY DEF TypeOK
<1>10. WhatIsDoneIsTold'
    <2>1. \A id, op : Accounted(id, op) => Accounted(id, op)'
        BY <1>1, <1>9, AccountedWhenWritten
    <2>2. Accounted(e, "create_escrow")'
        <3>1. Accounted(e, req[r].op)'
            BY <1>1, <1>9, AccountedWhenWritten
        <3> QED
            BY <1>1, <3>1 DEF Accounted, Told, ToTell
    <2>3. \A id, op : Told(id, op)' <=> Told(id, op)
        BY <1>1 DEF Told
    <2>4. DOMAIN escrows' = DOMAIN escrows \cup {e}
        BY <1>4 DEF \oplus
    <2> QED
        BY <1>1, <2>1, <2>2, <2>3, <2>4 DEF WhatIsDoneIsTold
<1> QED
    BY <1>1, <1>3, <1>6, <1>7, <1>8, <1>9, <1>10, WrittenInv DEF TypeOK

(* approve_proof and reject_proof write their decision. *)
LEMMA UpdateProofInv ==
    ASSUME IInv, NEW r \in Requests, UpdateProof(r)
    PROVE  IInv'
<1> USE DEF IInv
<1> DEFINE p == req[r].about  row == [proofs[p] EXCEPT !.status = Decision(req[r].op)]
<1>1. /\ pc[r] = "update" /\ p \in DOMAIN proofs /\ proofs[p].offer = req[r].offer
      /\ UNCHANGED <<participants, messages, escrows, overlapped, req>>
      /\ failed' = failed \ ({p} \X Decisions)
      /\ pc' = [pc EXCEPT ![r] = "find"]
      /\ proofs' = [proofs EXCEPT ![p].status = Decision(req[r].op)]
    BY DEF UpdateProof, Continue, Proceed
<1>2. req[r].op \in Decisions /\ p \in ProofIds /\ p \notin EscrowIds
    BY <1>1, NoneAssumption DEF LocalsInv, LocalsAt
<1>3. proofs[p] \in Proof
    BY <1>1, TableIsFunction DEF TypeOK
<1>4. row \in Proof /\ row.offer = proofs[p].offer /\ row.status = Decision(req[r].op)
    BY <1>3 DEF Proof, Decision
<1>5. proofs' = [proofs EXCEPT ![p] = row]
    BY <1>1
<1>6. proofs' \in Tables(ProofIds, Proof)
    <2>1. proofs \in Tables(ProofIds, Proof)
        BY DEF TypeOK
    <2>2. DOMAIN proofs \subseteq ProofIds /\ proofs \in [DOMAIN proofs -> Proof]
        BY <2>1, TableIsFunction
    <2>3. proofs' \in [DOMAIN proofs -> Proof] /\ DOMAIN proofs' = DOMAIN proofs
        BY <1>4, <1>5, <2>2
    <2> QED
        BY <2>2, <2>3, TableIsFunction
<1>7. \A q \in DOMAIN proofs :
          /\ q \in DOMAIN proofs' /\ proofs'[q].offer = proofs[q].offer
          /\ proofs[q].status # "pending" => proofs'[q].status # "pending"
    BY <1>4, <1>5 DEF Decision
<1>8. proofs'[p] = row /\ p \in DOMAIN proofs'
    BY <1>1, <1>5
<1>9. Kept(participants, proofs, escrows, participants', proofs', escrows')
    BY <1>1, <1>7 DEF Kept
<1>10. req' = [req EXCEPT ![r] = [req[r] EXCEPT !.about = p]]
    BY <1>1 DEF TypeOK, Locals
<1>11. WhatIsDoneIsTold'
    <2>1. \A id, op :
              Accounted(id, op) /\ (id # p \/ op \notin Decisions) => Accounted(id, op)'
        BY <1>1, <1>10, AccountedWhenWritten
    <2>2. Accounted(p, req[r].op)'
        BY <1>1, <1>10, AccountedWhenWritten
    <2>3. \A id, op : Told(id, op)' <=> Told(id, op)
        BY <1>1 DEF Told
    <2>4. /\ DOMAIN proofs' = DOMAIN proofs
          /\ \A q \in DOMAIN proofs : q # p => proofs'[q] = proofs[q]
        BY <1>1
    <2>5. \A op \in Decisions : proofs'[p].status = Decision(op) => op = req[r].op
        BY <1>2, <1>4, <1>8 DEF Decision, Decisions
    <2>6. proofs'[p].status # "pending"
        BY <1>4, <1>8 DEF Decision
    <2>7. \A q \in DOMAIN proofs' :
              /\ Accounted(q, "submit_proof")'
              /\ \A op \in Decisions :
                    /\ proofs'[q].status = Decision(op) => Accounted(q, op)'
                    /\ Told(q, op)' => proofs'[q].status # "pending"
        <3> TAKE q \in DOMAIN proofs'
        <3>1. CASE q = p
            <4>1. Accounted(q, "submit_proof")'
                BY <1>1, <2>1, <3>1 DEF WhatIsDoneIsTold, Decisions
            <4> QED
                BY <1>1, <2>2, <2>5, <2>6, <3>1, <4>1
        <3>2. CASE q # p
            BY <2>1, <2>3, <2>4, <3>2 DEF WhatIsDoneIsTold, Decisions
        <3> QED
            BY <3>1, <3>2
    <2>8. \A e \in DOMAIN escrows' : Accounted(e, "create_escrow")'
        BY <1>1, <2>1 DEF WhatIsDoneIsTold, Decisions
    <2> QED
        BY <2>7, <2>8 DEF WhatIsDoneIsTold, Decisions
<1> QED
    BY <1>1, <1>2, <1>4, <1>6, <1>8, <1>9, <1>10, <1>11, WrittenInv DEF TypeOK

-----------------------------------------------------------------------------
(* As long as requests took turns, the others are idle. *)
LEMMA OthersIdle ==
    ASSUME IInv, NEW r \in Requests, pc[r] # "idle", ~ overlapped
    PROVE  \A s \in Requests \ {r} : pc[s] = "idle"
BY DEF IInv, TurnsInv

(* The conversation is found: it is that of the two. *)
LEMMA FoundInv ==
    ASSUME IInv, NEW r \in Requests, NEW c \in DOMAIN participants, Found(r, c)
    PROVE  IInv'
<1> USE DEF IInv
<1> DEFINE locals == [req[r] EXCEPT !.conv = c]
<1>1. pc[r] = "find" /\ {req[r].user, req[r].other} \subseteq participants[c]
      /\ UNCHANGED <<participants, messages, proofs, escrows>>
    BY DEF Found, Between, db
<1>2. CASE ~ Tells(r)
    <2>1. \A id : \A op \in WritingOps : ~ ToTell(r, id, op)
        BY <1>2 DEF Tells, ToTell, WritingOps, OfferOps, ProofOps
    <2> QED
        BY <1>1, <1>2, <2>1, EndInv DEF Found
<1>3. CASE Tells(r)
    <2>1. /\ req' = [req EXCEPT ![r].conv = c] /\ pc' = [pc EXCEPT ![r] = "tell"]
          /\ UNCHANGED <<overlapped, failed>> /\ req[r].op \in OfferOps
        BY <1>3 DEF Found, Tells, Continue, Proceed
    <2>2. c \in ConvIds /\ c # None
        BY NoneAssumption, TableIsFunction DEF TypeOK
    <2>3. req[r] \in Locals /\ locals \in Locals /\ req' = [req EXCEPT ![r] = locals]
        BY <2>1, <2>2 DEF TypeOK, Locals
    <2>4. LocalsAt("find", req[r], participants, proofs, escrows)
        BY <1>1 DEF LocalsInv
    <2>5. req[r].user # req[r].other
          /\ {req[r].user, req[r].other} = Parties(req[r].offer)
        BY <2>1, <2>4 DEF LocalsAt
    <2>6. participants[c] = Parties(req[r].offer)
        <3>1. PICK u, v \in Users : participants[c] = {u, v}
            BY <1>1 DEF PairsInv
        <3> QED
            BY <1>1, <2>5, <3>1
    <2>7. /\ locals.op = req[r].op /\ locals.user = req[r].user
          /\ locals.other = req[r].other /\ locals.offer = req[r].offer
          /\ locals.about = req[r].about /\ locals.conv = c
        BY <2>3 DEF Locals
    <2>8. pc[r] # "idle" /\ LocalsAt("tell", locals, participants', proofs', escrows')
        BY <1>1, <2>1, <2>2, <2>4, <2>6, <2>7 DEF LocalsAt
    <2>9. Kept(participants, proofs, escrows, participants', proofs', escrows')
        BY <1>1, NothingWritten
    <2>10. LocalsInv'
        <3>1. \A s \in Requests : pc[s] = "join" => participants'[req[s].conv] = {}
            BY <1>1 DEF LocalsInv, LocalsAt
        <3> QED
            BY <2>1, <2>3, <2>8, <2>9, <3>1, OthersKept
    <2>11. TypeOK'
        BY <1>1, <2>1, <2>3 DEF TypeOK
    <2>12. PairsInv'
        BY <1>1, <2>1, <2>3 DEF TypeOK, PairsInv
    <2>13. TurnsInv'
        <3> SUFFICES ASSUME ~ overlapped PROVE TurnsInv'
            BY <2>1 DEF TurnsInv
        <3>1. \A s \in Requests : s # r => pc'[s] = "idle"
            BY <1>1, <2>1, OthersIdle DEF TypeOK
        <3>2. pc'[r] = "tell" /\ req'[r] = locals
            BY <2>1, <2>3 DEF TypeOK
        <3>3. \A s \in Requests : ~ Missed(pc'[s], req'[s])
            BY <2>2, <2>7, <3>1, <3>2 DEF Missed
        <3> QED
            BY <3>1, <3>3 DEF TurnsInv
    <2>14. WhatIsDoneIsTold'
        <3>1. \A id \in ProofIds \cup EscrowIds, op \in WritingOps :
                  ToTell(r, id, op) => Going("tell", locals, id, op)
            BY <2>7 DEF ToTell, Going
        <3> HIDE DEF locals
        <3> QED
            BY <1>1, <2>1, <2>3, <3>1, SilenceKept
    <2> QED
        BY <1>1, <2>1, <2>9, <2>10, <2>11, <2>12, <2>13, <2>14, MessagesKept
        DEF OneConversation
<1> QED
    BY <1>2, <1>3

(* There is none: it is opened, by negotiate_offer together with its message. *)
LEMMA NotFoundInv ==
    ASSUME IInv, NEW r \in Requests, NotFound(r)
    PROVE  IInv'
<1> USE DEF IInv
<1> DEFINE label == IF req[r].op = "negotiate_offer" THEN "tell" ELSE "open"
<1>1. /\ pc[r] = "find" /\ Between(req[r].user, req[r].other) = {}
      /\ UNCHANGED <<participants, messages, proofs, escrows, req, overlapped, failed>>
      /\ pc' = [pc EXCEPT ![r] = label]
    BY DEF NotFound, Continue, Proceed, db
<1>2. LocalsAt("find", req[r], participants, proofs, escrows)
    BY <1>1 DEF LocalsInv
<1>3. LocalsAt(label, req[r], participants, proofs, escrows)
    BY <1>2 DEF LocalsAt, OfferOps, ProofOps, Decisions
<1>4. Kept(participants, proofs, escrows, participants', proofs', escrows')
    BY <1>1, NothingWritten
<1>5. LocalsInv'
    <2>1. \A s \in Requests : pc[s] = "join" => participants'[req[s].conv] = {}
        BY <1>1 DEF LocalsInv, LocalsAt
    <2>2. req' = [req EXCEPT ![r] = req[r]]
        BY <1>1 DEF TypeOK
    <2> QED
        BY <1>1, <1>3, <1>4, <2>1, <2>2, OthersKept
<1>6. TypeOK'
    BY <1>1 DEF TypeOK
<1>7. PairsInv'
    BY <1>1 DEF TypeOK, PairsInv
<1>8. TurnsInv'
    <2> SUFFICES ASSUME ~ overlapped PROVE TurnsInv'
        BY <1>1 DEF TurnsInv
    <2>1. \A s \in Requests : s # r => pc'[s] = "idle"
        BY <1>1, OthersIdle DEF TypeOK
    <2> QED
        BY <1>1, <2>1 DEF TurnsInv, Missed, Between
<1>9. WhatIsDoneIsTold'
    <2>1. req' = [req EXCEPT ![r] = req[r]]
        BY <1>1 DEF TypeOK
    <2>2. \A id \in ProofIds \cup EscrowIds, op \in WritingOps :
              ToTell(r, id, op) => Going(label, req[r], id, op)
        BY DEF ToTell, Going
    <2> HIDE DEF label
    <2> QED
        BY <1>1, <2>1, <2>2, SilenceKept
<1> QED
    BY <1>1, <1>4, <1>5, <1>6, <1>7, <1>8, <1>9, MessagesKept DEF OneConversation

(* A conversation is opened, for nobody yet. *)
LEMMA OpenConversationInv ==
    ASSUME IInv, NEW r \in Requests, OpenConversation(r)
    PROVE  IInv'
<1> USE DEF IInv
<1> PICK c \in ConvIds \ DOMAIN participants :
        /\ participants' = Row(c, {}) \oplus participants
        /\ req' = [req EXCEPT ![r].conv = c]
    BY DEF OpenConversation
<1> DEFINE locals == [req[r] EXCEPT !.conv = c]
<1>1. /\ pc[r] = "open" /\ UNCHANGED <<messages, proofs, escrows, overlapped, failed>>
      /\ pc' = [pc EXCEPT ![r] = "join"]
    BY DEF OpenConversation, Continue, Proceed
<1>2. req[r] \in Locals /\ locals \in Locals /\ req' = [req EXCEPT ![r] = locals]
    BY DEF TypeOK, Locals
<1>3. participants' \in Tables(ConvIds, SUBSET Users)
    <2>1. {} \in SUBSET Users
        OBVIOUS
    <2> QED
        BY <2>1, OneRow, Overlay DEF TypeOK
<1>4. DOMAIN participants' = DOMAIN participants \cup {c}
    BY DEF Row, \oplus
<1>5. participants'[c] = {}
    BY DEF Row, \oplus
<1>6. \A d \in DOMAIN participants : participants'[d] = participants[d]
    BY DEF Row, \oplus
<1>7. Kept(participants, proofs, escrows, participants', proofs', escrows')
    BY <1>1, <1>4, <1>6 DEF Kept
<1>8. /\ locals.op = req[r].op /\ locals.user = req[r].user
      /\ locals.other = req[r].other /\ locals.offer = req[r].offer
      /\ locals.about = req[r].about /\ locals.conv = c
    BY <1>2 DEF Locals
<1>9. \A s \in Requests : pc[s] = "join" =>
          req[s].conv \in DOMAIN participants /\ participants[req[s].conv] = {}
    BY DEF LocalsInv, LocalsAt
<1>10. LocalsInv'
    <2>1. \A s \in Requests : pc[s] = "join" => participants'[req[s].conv] = {}
        BY <1>6, <1>9
    <2>2. LocalsAt("open", req[r], participants, proofs, escrows)
        BY <1>1 DEF LocalsInv
    <2>3. LocalsAt("join", locals, participants', proofs', escrows')
        BY <1>1, <1>4, <1>5, <1>8, <2>2 DEF LocalsAt
    <2> QED
        BY <1>1, <1>2, <1>7, <2>1, <2>3, OthersKept
<1>11. TypeOK'
    BY <1>1, <1>2, <1>3 DEF TypeOK
<1>12. PairsInv'
    <2>1. \A s \in Requests : s # r => pc'[s] = pc[s] /\ req'[s] = req[s]
        BY <1>1, <1>2 DEF TypeOK
    <2>2. req'[r].conv = c
        BY <1>2, <1>8 DEF TypeOK
    <2> QED
        BY <1>4, <1>5, <1>6, <1>9, <2>1, <2>2 DEF PairsInv
<1>13. TurnsInv'
    <2> SUFFICES ASSUME ~ overlapped PROVE TurnsInv'
        BY <1>1 DEF TurnsInv
    <2>1. \A s \in Requests : s # r => pc'[s] = "idle"
        BY <1>1, OthersIdle DEF TypeOK
    <2>2. pc'[r] = "join" /\ req'[r] = locals
        BY <1>1, <1>2 DEF TypeOK
    <2>3. Between(req[r].user, req[r].other) = {}
        BY <1>1 DEF TurnsInv, Missed
    <2>4. Between(locals.user, locals.other)' = {}
        BY <1>4, <1>5, <1>6, <1>8, <2>2, <2>3 DEF Between
    <2> QED
        BY <1>1, <1>8, <2>1, <2>2, <2>4 DEF TurnsInv, Missed, Between
<1>14. OneConversation'
    BY <1>1, <1>4, <1>5, <1>6 DEF OneConversation
<1>15. WhatIsDoneIsTold'
    <2>1. \A id \in ProofIds \cup EscrowIds, op \in WritingOps :
              ToTell(r, id, op) => Going("join", locals, id, op)
        BY <1>8 DEF ToTell, Going
    <2> HIDE DEF locals
    <2> QED
        BY <1>1, <1>2, <2>1, SilenceKept
<1> QED
    BY <1>1, <1>7, <1>10, <1>11, <1>12, <1>13, <1>14, <1>15, MessagesKept

(* The two users join the conversation; a request that tells nothing is over. *)
LEMMA JoinInv ==
    ASSUME IInv, NEW r \in Requests, Join(r)
    PROVE  IInv'
<1> USE DEF IInv
<1> DEFINE both == {req[r].user, req[r].other}
           conv == req[r].conv
           label == IF Tells(r) THEN "tell" ELSE "idle"
           locals == IF Tells(r) THEN req[r] ELSE NoLocals
<1>1. /\ pc[r] = "join" /\ req[r].user # req[r].other
      /\ participants' = [participants EXCEPT ![conv] = both]
      /\ UNCHANGED <<messages, proofs, escrows, overlapped, failed>>
      /\ pc' = [pc EXCEPT ![r] = label]
    BY DEF Join, Continue, Proceed, End, Leave
<1>2. req' = [req EXCEPT ![r] = locals] /\ req[r] \in Locals /\ locals \in Locals
    BY NoLocalsType DEF Join, Continue, Proceed, End, Leave, TypeOK
<1>3. LocalsAt("join", req[r], participants, proofs, escrows)
    BY <1>1 DEF LocalsInv
<1>4. /\ conv \in DOMAIN participants /\ participants[conv] = {}
      /\ req[r].user \in Users /\ req[r].other \in Users
    BY <1>3 DEF LocalsAt
<1>5. conv \in ConvIds /\ conv # None
    BY <1>4, NoneAssumption, TableIsFunction DEF TypeOK
<1>6. /\ DOMAIN participants' = DOMAIN participants /\ participants'[conv] = both
      /\ \A c \in DOMAIN participants : c # conv => participants'[c] = participants[c]
    BY <1>1, <1>4
<1>7. participants' \in Tables(ConvIds, SUBSET Users)
    <2>1. participants \in Tables(ConvIds, SUBSET Users)
        BY DEF TypeOK
    <2>2. participants \in [DOMAIN participants -> SUBSET Users]
          /\ DOMAIN participants \subseteq ConvIds
        BY <2>1, TableIsFunction
    <2>3. participants' \in [DOMAIN participants -> SUBSET Users]
        BY <1>1, <1>4, <2>2
    <2> QED
        BY <1>6, <2>2, <2>3, TableIsFunction
<1>8. Kept(participants, proofs, escrows, participants', proofs', escrows')
    BY <1>1, <1>4, <1>6 DEF Kept
<1>9. LocalsInv'
    <2>1. \A s \in Requests \ {r} : pc[s] = "join" => participants'[req[s].conv] = {}
        BY <1>1, <1>6 DEF LocalsInv, LocalsAt, PairsInv
    <2>2. LocalsAt(label, locals, participants', proofs', escrows')
        <3>1. CASE Tells(r)
            BY <1>1, <1>2, <1>3, <1>4, <1>5, <1>6, <3>1 DEF LocalsAt, Tells
        <3>2. CASE ~ Tells(r)
            BY <3>2 DEF LocalsAt
        <3> QED
            BY <3>1, <3>2
    <2> QED
        BY <1>1, <1>2, <1>8, <2>1, <2>2, OthersKept
<1>10. TypeOK'
    BY <1>1, <1>2, <1>7 DEF TypeOK
<1>11. PairsInv'
    <2>1. \A s \in Requests : pc'[s] = "join" => s # r /\ pc[s] = "join" /\ req'[s] = req[s]
        BY <1>1, <1>2 DEF TypeOK
    <2>2. \A c \in DOMAIN participants' :
              participants'[c] = {} \/ \E u, v \in Users : participants'[c] = {u, v}
        BY <1>4, <1>6 DEF PairsInv
    <2> QED
        BY <2>1, <2>2 DEF PairsInv
<1>12. TurnsInv'
    <2> SUFFICES ASSUME ~ overlapped PROVE TurnsInv'
        BY <1>1 DEF TurnsInv
    <2>1. \A s \in Requests : s # r => pc'[s] = "idle"
        BY <1>1, OthersIdle DEF TypeOK
    <2>2. pc'[r] = label /\ req'[r] = locals
        BY <1>1, <1>2 DEF TypeOK
    <2>3. \A s \in Requests : ~ Missed(pc'[s], req'[s])
        BY <1>5, <2>1, <2>2 DEF Missed
    <2> QED
        BY <2>1, <2>3 DEF TurnsInv
<1>13. OneConversation'
    <2>1. ~ overlapped => \A c \in DOMAIN participants : ~ (both \subseteq participants[c])
        BY <1>1 DEF TurnsInv, Missed, Between
    <2> QED
        BY <1>1, <1>6, <2>1 DEF OneConversation
<1>14. WhatIsDoneIsTold'
    <2>1. ~ Tells(r) => \A id : \A op \in WritingOps : ~ ToTell(r, id, op)
        BY DEF Tells, ToTell, WritingOps, OfferOps, ProofOps
    <2>2. \A id \in ProofIds \cup EscrowIds, op \in WritingOps :
              ToTell(r, id, op) => Going(label, locals, id, op)
        <3>1. CASE Tells(r)
            BY <3>1 DEF ToTell, Going
        <3>2. CASE ~ Tells(r)
            BY <2>1, <3>2
        <3> QED
            BY <3>1, <3>2
    <2> HIDE DEF label, locals
    <2> QED
        BY <1>1, <1>2, <2>2, SilenceKept
<1> QED
    BY <1>1, <1>8, <1>9, <1>10, <1>11, <1>12, <1>13, <1>14, MessagesKept

(* A message is sent: it is as honest as what its request knows. *)
LEMMA SaidInv ==
    ASSUME IInv, NEW m \in Message, messages' = Append(messages, m),
           Kept(participants, proofs, escrows, participants', proofs', escrows'),
           Honest(m, participants', proofs', escrows')
    PROVE  messages' \in Seq(Message) /\ SaidBetweenTheParties' /\ TellsOfItsOffer'
<1>1. messages \in Seq(Message)
    BY DEF IInv, TypeOK
<1>2. /\ messages' \in Seq(Message) /\ DOMAIN messages' = 1 .. (Len(messages) + 1)
      /\ DOMAIN messages = 1 .. Len(messages) /\ Len(messages) \in Nat
      /\ messages'[Len(messages) + 1] = m
      /\ \A i \in DOMAIN messages : messages'[i] = messages[i]
    BY <1>1
<1>3. \A i \in DOMAIN messages : Honest(messages[i], participants', proofs', escrows')
    <2>1. \A i \in DOMAIN messages : Honest(messages[i], participants, proofs, escrows)
        BY AllHonest DEF IInv
    <2> QED
        BY <2>1, HonestKept
<1>4. \A i \in DOMAIN messages' : Honest(messages'[i], participants', proofs', escrows')
    <2> TAKE i \in DOMAIN messages'
    <2>1. CASE i = Len(messages) + 1
        BY <1>2, <2>1
    <2>2. CASE i \in DOMAIN messages
        BY <1>2, <1>3, <2>2
    <2> QED
        BY <1>2, <2>1, <2>2
<1> QED
    BY <1>2, <1>4 DEF SaidBetweenTheParties, TellsOfItsOffer, Honest

(* What a request tells is what it knows. *)
LEMMA MessageOfHonest ==
    ASSUME IInv, NEW r \in Requests, pc[r] = "tell", NEW c \in ConvIds,
           NEW ps, Kept(participants, proofs, escrows, ps, proofs, escrows),
           \/ c = req[r].conv
           \/ req[r].conv = None /\ c \in DOMAIN ps /\ ps[c] = {req[r].user, req[r].other}
    PROVE  MessageOf(r, c) \in Message /\ Honest(MessageOf(r, c), ps, proofs, escrows)
<1> DEFINE m == MessageOf(r, c)
<1>1. LocalsAt("tell", req[r], participants, proofs, escrows) /\ req[r] \in Locals
    BY DEF IInv, LocalsInv, TypeOK
<1>2. req[r].user \in Users /\ req[r].op \in OfferOps \cup ChatOps
    BY <1>1 DEF LocalsAt, ChatOps
<1>3. /\ m \in Message /\ m.conv = c /\ m.sender = req[r].user
      /\ m.offer = req[r].offer /\ m.about = req[r].about
    BY <1>1, <1>2 DEF MessageOf, Message, Locals
<1>4. LocalsAt("tell", req[r], ps, proofs, escrows)
    BY <1>1, LocalsKept
<1>5. /\ c \in DOMAIN ps /\ req[r].user \in ps[c]
      /\ req[r].offer # None => ps[c] = Parties(req[r].offer)
    <2>1. CASE c = req[r].conv
        <3>1. c # None
            BY NoneAssumption
        <3> QED
            BY <1>4, <2>1, <3>1 DEF LocalsAt
    <2>2. CASE req[r].conv = None /\ c \in DOMAIN ps /\ ps[c] = {req[r].user, req[r].other}
        BY <1>4, <2>2 DEF LocalsAt, OfferOps
    <2> QED
        BY <2>1, <2>2
<1>6. /\ m.about \in ProofIds => m.about \in DOMAIN proofs /\ proofs[m.about].offer = m.offer
      /\ m.about \in EscrowIds => m.about \in DOMAIN escrows /\ escrows[m.about] = m.offer
    BY <1>3, <1>4 DEF LocalsAt
<1> QED
    BY <1>3, <1>5, <1>6 DEF Honest

(* The message is sent, and negotiate_offer's conversation opened with it. *)
LEMMA TellInv ==
    ASSUME IInv, NEW r \in Requests, Tell(r)
    PROVE  IInv'
<1> USE DEF IInv
<1> DEFINE both == {req[r].user, req[r].other}
<1>1. /\ pc[r] = "tell" /\ UNCHANGED <<proofs, escrows, overlapped, failed>>
      /\ pc' = [pc EXCEPT ![r] = "idle"] /\ req' = [req EXCEPT ![r] = NoLocals]
    BY DEF Tell, End, Leave
<1>2. LocalsAt("tell", req[r], participants, proofs, escrows)
    BY <1>1 DEF LocalsInv
<1>3. PICK c \in ConvIds :
         /\ messages' = Append(messages, MessageOf(r, c))
         /\ \/ /\ c = req[r].conv /\ UNCHANGED participants
            \/ /\ req[r].conv = None /\ c \notin DOMAIN participants
               /\ participants' = Row(c, both) \oplus participants
    <2>1. CASE req[r].conv # None
        <3>1. req[r].conv \in ConvIds
            BY <2>1 DEF TypeOK, Locals
        <3> QED
            BY <2>1, <3>1 DEF Tell
    <2>2. CASE req[r].conv = None
        BY <2>2 DEF Tell
    <2> QED
        BY <2>1, <2>2
<1>4. \/ c = req[r].conv /\ UNCHANGED participants
      \/ /\ req[r].conv = None /\ c \notin DOMAIN participants
         /\ DOMAIN participants' = DOMAIN participants \cup {c} /\ participants'[c] = both
         /\ \A d \in DOMAIN participants : participants'[d] = participants[d]
         /\ participants' \in Tables(ConvIds, SUBSET Users)
         /\ both \in SUBSET Users /\ both # {}
    <2>1. CASE c = req[r].conv /\ UNCHANGED participants
        BY <2>1
    <2>2. CASE /\ req[r].conv = None /\ c \notin DOMAIN participants
               /\ participants' = Row(c, both) \oplus participants
        <3>1. both \in SUBSET Users
            BY <1>2, <2>2 DEF LocalsAt, OfferOps
        <3>2. participants' \in Tables(ConvIds, SUBSET Users)
            BY <2>2, <3>1, OneRow, Overlay DEF TypeOK
        <3>3. DOMAIN participants' = DOMAIN participants \cup {c}
            BY <2>2 DEF Row, \oplus
        <3>4. participants'[c] = both
            BY <2>2 DEF Row, \oplus
        <3>5. \A d \in DOMAIN participants : participants'[d] = participants[d]
            BY <2>2 DEF Row, \oplus
        <3> QED
            BY <2>2, <3>1, <3>2, <3>3, <3>4, <3>5
    <2> QED
        BY <1>3, <2>1, <2>2
<1>5. Kept(participants, proofs, escrows, participants', proofs', escrows')
    BY <1>1, <1>4 DEF Kept
<1>6. messages' \in Seq(Message) /\ SaidBetweenTheParties' /\ TellsOfItsOffer'
    <2>1. MessageOf(r, c) \in Message
          /\ Honest(MessageOf(r, c), participants', proofs', escrows')
        BY <1>1, <1>4, <1>5, MessageOfHonest
    <2> QED
        BY <1>3, <1>5, <2>1, SaidInv
<1>7. participants' \in Tables(ConvIds, SUBSET Users)
    BY <1>4 DEF TypeOK
<1>8. TypeOK'
    BY <1>1, <1>6, <1>7, NoLocalsType DEF TypeOK
<1>9. LocalsInv'
    <2>1. \A s \in Requests \ {r} : pc[s] = "join" => participants'[req[s].conv] = {}
        BY <1>4 DEF LocalsInv, LocalsAt
    <2>2. LocalsAt("idle", NoLocals, participants', proofs', escrows')
        BY DEF LocalsAt
    <2> QED
        BY <1>1, <1>5, <2>1, <2>2, OthersKept
<1>10. PairsInv'
    <2>1. \A s \in Requests : pc'[s] = "join" => s # r /\ pc[s] = "join" /\ req'[s] = req[s]
        BY <1>1 DEF TypeOK
    <2>2. \A d \in DOMAIN participants' :
              participants'[d] = {} \/ \E u, v \in Users : participants'[d] = {u, v}
        BY <1>4 DEF PairsInv
    <2> QED
        BY <2>1, <2>2 DEF PairsInv
<1>11. TurnsInv'
    <2> SUFFICES ASSUME ~ overlapped PROVE TurnsInv'
        BY <1>1 DEF TurnsInv
    <2>1. \A s \in Requests : pc'[s] = "idle"
        BY <1>1, OthersIdle DEF TypeOK
    <2> QED
        BY <2>1 DEF TurnsInv, Missed
<1>12. OneConversation'
    <2>1. ~ overlapped /\ req[r].conv = None =>
              \A d \in DOMAIN participants : ~ (both \subseteq participants[d])
        BY <1>1 DEF TurnsInv, Missed, Between
    <2> QED
        BY <1>1, <1>4, <2>1 DEF OneConversation
<1>13. WhatIsDoneIsTold'
    <2>1. /\ DOMAIN messages' = DOMAIN messages \cup {Len(messages) + 1}
          /\ messages'[Len(messages) + 1] = MessageOf(r, c)
          /\ \A i \in DOMAIN messages : messages'[i] = messages[i]
        BY <1>3 DEF TypeOK
    <2>2. MessageOf(r, c).about = req[r].about /\ MessageOf(r, c).op = req[r].op
        BY DEF MessageOf
    <2>3. \A id, op : Told(id, op)' <=> Told(id, op) \/ (req[r].about = id /\ req[r].op = op)
        BY <2>1, <2>2 DEF Told
    <2>4. \A id, op : ToTell(r, id, op) => Told(id, op)'
        BY <2>3 DEF ToTell
    <2>5. \A p \in DOMAIN proofs, op \in Decisions :
              Told(p, op)' => proofs[p].status # "pending"
        BY <1>2, <2>3 DEF WhatIsDoneIsTold, Decisions, LocalsAt
    <2> QED
        BY <1>1, <2>3, <2>4, <2>5, ToldKept
<1> QED
    BY <1>6, <1>8, <1>9, <1>10, <1>11, <1>12, <1>13

(* The messages of the others are read. *)
LEMMA MarkInv ==
    ASSUME IInv, NEW r \in Requests, Mark(r)
    PROVE  IInv'
<1> USE DEF IInv
<1>1. /\ UNCHANGED <<participants, proofs, escrows, overlapped, failed>>
      /\ pc[r] = "mark" /\ Leave(r)
      /\ messages' = [i \in DOMAIN messages |->
                         IF ToMark(r, messages[i])
                         THEN [messages[i] EXCEPT !.read = TRUE] ELSE messages[i]]
    BY DEF Mark, End, Leave
<1>2. messages \in Seq(Message) /\ DOMAIN messages' = DOMAIN messages
    BY <1>1 DEF TypeOK
<1>3. \A i \in DOMAIN messages :
          /\ messages'[i] \in Message
          /\ messages'[i].conv = messages[i].conv /\ messages'[i].sender = messages[i].sender
          /\ messages'[i].offer = messages[i].offer /\ messages'[i].about = messages[i].about
          /\ messages'[i].op = messages[i].op
    <2> TAKE i \in DOMAIN messages
    <2>1. messages[i] \in Message
        BY <1>2
    <2> QED
        BY <1>1, <2>1 DEF Message
<1>4. messages' \in Seq(Message)
    <2>1. Len(messages) \in Nat /\ DOMAIN messages = 1 .. Len(messages)
        BY <1>2
    <2>2. messages' = [i \in 1 .. Len(messages) |-> messages'[i]]
        BY <1>1, <2>1
    <2>3. messages' \in [1 .. Len(messages) -> Message]
        BY <1>3, <2>1, <2>2
    <2> QED
        BY <2>1, <2>3
<1>5. SaidBetweenTheParties' /\ TellsOfItsOffer'
    BY <1>1, <1>2, <1>3 DEF SaidBetweenTheParties, TellsOfItsOffer
<1>6. TypeOK'
    BY <1>1, <1>4, NoLocalsType DEF TypeOK, Leave
<1>7. Kept(participants, proofs, escrows, participants', proofs', escrows')
    BY <1>1, NothingWritten
<1>8. LocalsInv'
    <2>1. \A s \in Requests : pc[s] = "join" => participants'[req[s].conv] = {}
        BY <1>1 DEF LocalsInv, LocalsAt
    <2>2. LocalsAt("idle", NoLocals, participants', proofs', escrows')
        BY DEF LocalsAt
    <2> QED
        BY <1>1, <1>7, <2>1, <2>2, OthersKept DEF Leave
<1>9. PairsInv'
    BY <1>1 DEF TypeOK, Leave, PairsInv
<1>10. TurnsInv'
    BY <1>1 DEF TypeOK, Leave, TurnsInv, Missed, Between
<1>11. OneConversation'
    BY <1>1 DEF OneConversation
<1>12. WhatIsDoneIsTold'
    <2>1. \A id, op : Told(id, op)' <=> Told(id, op)
        BY <1>2, <1>3 DEF Told
    <2>2. \A p \in DOMAIN proofs, op \in Decisions :
              Told(p, op) => proofs[p].status # "pending"
        BY DEF WhatIsDoneIsTold, Decisions
    <2> QED
        BY <1>1, <2>1, <2>2, ToldKept DEF Leave, ToTell
<1> QED
    BY <1>5, <1>6, <1>8, <1>9, <1>10, <1>11, <1>12

-----------------------------------------------------------------------------
(* Every step keeps the invariant. *)
LEMMA NextInv ==
    ASSUME IInv, [Next]_vars
    PROVE  IInv'
<1>1. CASE UNCHANGED vars
    <2>1. UNCHANGED <<participants, messages, proofs, escrows, pc, req, overlapped, failed>>
        BY <1>1 DEF vars
    <2>2. TypeOK' /\ LocalsInv' /\ PairsInv'
        BY <2>1 DEF IInv, TypeOK, LocalsInv, PairsInv
    <2>3. TurnsInv' /\ OneConversation'
        BY <2>1 DEF IInv, TurnsInv, Missed, Between, OneConversation
    <2>4. SaidBetweenTheParties' /\ TellsOfItsOffer'
        BY <2>1 DEF IInv, SaidBetweenTheParties, TellsOfItsOffer
    <2>5. WhatIsDoneIsTold'
        BY <2>1 DEF IInv, WhatIsDoneIsTold, Accounted, Told, ToTell
    <2> QED
        BY <2>2, <2>3, <2>4, <2>5 DEF IInv
<1>2. ASSUME NEW r \in Requests, Step(r)
      PROVE  IInv'
    <2>1. ASSUME ProofNotFound(r) PROVE IInv'
        BY <2>1, EndInv DEF ProofNotFound, db, ToTell
    <2> QED
        BY <1>2, <2>1, InsertProofInv, InsertEscrowInv, UpdateProofInv, FoundInv,
           NotFoundInv, OpenConversationInv, JoinInv, TellInv, MarkInv DEF Step
<1>3. ASSUME NEW r \in Requests, Fail(r)
      PROVE  IInv'
    BY <1>3, FailInv
<1> QED
    BY <1>1, <1>2, <1>3, ArriveInv DEF Next

-----------------------------------------------------------------------------
(* The inductive invariant holds in every reachable state of Conversations:  *)
(* the handlers of chats.cc and offers_negotiation.cc, however their         *)
(* statements interleave and wherever they fail.                            *)
THEOREM Invariance == Spec => []IInv
<1> QED
    BY InitInv, NextInv, PTL DEF Spec

(* Every variable holds rows, messages, locals and labels of its kind. *)
THEOREM TypeCorrect == Spec => []TypeOK
<1>1. IInv => TypeOK
    BY DEF IInv
<1> QED
    BY <1>1, Invariance, PTL

(* send_message and create_or_get_conversation never put a message about an  *)
(* offer before anybody but its buyer and its seller, nor a message into a   *)
(* conversation its sender is not in.                                       *)
THEOREM MessagesStayBetweenTheParties == Spec => []SaidBetweenTheParties
<1>1. IInv => SaidBetweenTheParties
    BY DEF IInv
<1> QED
    BY <1>1, Invariance, PTL

(* What submit_proof, approve_proof, reject_proof and create_escrow say is   *)
(* about a row of their own offer that is there.                            *)
THEOREM MessagesTellOfTheirOffer == Spec => []TellsOfItsOffer
<1>1. IInv => TellsOfItsOffer
    BY DEF IInv
<1> QED
    BY <1>1, Invariance, PTL

(* submit_proof, approve_proof, reject_proof and create_escrow, which write   *)
(* and tell in statements apart, never end in silence unless a statement of   *)
(* theirs fails: whatever races them, the proof, the decision that stands on  *)
(* it and the escrow are told, or about to be.                               *)
THEOREM WhatIsWrittenIsTold == Spec => []WhatIsDoneIsTold
<1>1. IInv => WhatIsDoneIsTold
    BY DEF IInv
<1> QED
    BY <1>1, Invariance, PTL

(* Requests that take turns never open a second conversation of two users,   *)
(* although no constraint of the schema forbids one.                        *)
THEOREM OneConversationOfTwo == Spec => []OneConversation
<1>1. IInv => OneConversation
    BY DEF IInv
<1> QED
    BY <1>1, Invariance, PTL

(* The steps that write messages, and what they write. *)
LEMMA Writers ==
    ASSUME IInv, [Next]_vars
    PROVE  \/ messages' = messages
           \/ \E r \in Requests : Mark(r)
           \/ \E r \in Requests :
                 Tell(r) /\ \A i \in DOMAIN messages : messages'[i] = messages[i]
<1>1. CASE UNCHANGED vars
    BY <1>1 DEF vars
<1>2. ASSUME NEW r \in Requests, Arrive(r) \/ Fail(r)
      PROVE  messages' = messages
    BY <1>2 DEF Arrive, Fail, CreateConversation, ConversationByOffer, SendMessage, MarkRead,
       RequestProof, SubmitProof, CreateEscrow, NegotiateOffer, DecideProof, AboutOffer,
       Begin, db
<1>3. ASSUME NEW r \in Requests, Step(r)
      PROVE  messages' = messages \/ Tell(r) \/ Mark(r)
    BY <1>3 DEF Step, InsertProof, InsertEscrow, UpdateProof, ProofNotFound, Found,
       NotFound, OpenConversation, Join, db
<1>4. ASSUME NEW r \in Requests, Tell(r)
      PROVE  \A i \in DOMAIN messages : messages'[i] = messages[i]
    <2>1. messages \in Seq(Message)
        BY DEF IInv, TypeOK
    <2>2. \E m : messages' = Append(messages, m)
        BY <1>4 DEF Tell
    <2> QED
        BY <2>1, <2>2
<1> QED
    BY <1>1, <1>2, <1>3, <1>4 DEF Next

(* mark_messages_as_read, which checks its user and updates in statements     *)
(* apart, never marks a message for its own sender nor for a stranger.       *)
THEOREM OnlyTheOtherReads == Spec => ReadByTheOther
<1>1. ASSUME IInv, [Next]_vars, NEW i \in DOMAIN messages,
             messages'[i].read, ~ messages[i].read
      PROVE  \E r \in Requests :
                /\ req[r].op = "mark_messages_as_read"
                /\ req[r].user \in participants[messages[i].conv] \ {messages[i].sender}
    <2>1. PICK r \in Requests : Mark(r)
        BY <1>1, Writers
    <2>2. ToMark(r, messages[i])
        BY <1>1, <2>1 DEF Mark
    <2>3. LocalsAt("mark", req[r], participants, proofs, escrows)
        BY <1>1, <2>1 DEF IInv, LocalsInv, Mark
    <2> QED
        BY <2>2, <2>3 DEF ToMark, LocalsAt
<1>2. IInv /\ [Next]_vars =>
          [\A i \in DOMAIN messages :
              messages'[i].read /\ ~ messages[i].read =>
                  \E r \in Requests :
                      /\ req[r].op = "mark_messages_as_read"
                      /\ req[r].user \in participants[messages[i].conv]
                                            \ {messages[i].sender}]_vars
    BY <1>1
<1> QED
    BY <1>2, Invariance, PTL DEF Spec, ReadByTheOther

=============================================================================
