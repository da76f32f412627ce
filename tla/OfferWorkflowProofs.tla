------------------------ MODULE OfferWorkflowProofs ------------------------
(***************************************************************************)
(* What OfferWorkflow and OfferHistory guarantee for every number of        *)
(* requests, users, posts, offers, negotiations and prices, in three parts: *)
(*   - IInv, the invariant of the locals and the locks, and the properties  *)
(*     of every interleaving that follow from it;                           *)
(*   - LedgerInv, what every write set holds at every label, and from it    *)
(*     MessageKeepsUp and the refinement of OfferLedger;                    *)
(*   - Undisturbed, what more there is as long as no two requests overlap,  *)
(*     and from it the properties of OfferHistory.                          *)
(***************************************************************************)
EXTENDS OfferHistory, TableLemmas

-----------------------------------------------------------------------------
(* The kinds of the rows a request reads and writes. *)

LEMMA Kinds ==
    ASSUME TypeOK
    PROVE  /\ DOMAIN offers \subseteq OfferIds
           /\ \A o \in DOMAIN offers : offers[o] \in OfferRow
           /\ DOMAIN negotiations \subseteq NegotiationIds
           /\ \A n \in DOMAIN negotiations : negotiations[n] \in NegotiationRow
           /\ DOMAIN messages \subseteq NegotiationIds
           /\ \A r \in Requests :
                /\ pc[r] \in Labels
                /\ req[r] \in Locals
                /\ w[r] \in WriteSets
                /\ w[r].posts \in Tables(PostIds, RequestStatus)
                /\ w[r].offers \in Tables(OfferIds, OfferRow)
                /\ w[r].negotiations \in Tables(NegotiationIds, NegotiationRow)
                /\ w[r].messages \in Tables(NegotiationIds, Status)
                /\ DOMAIN w[r].offers \subseteq OfferIds
                /\ \A o \in DOMAIN w[r].offers : w[r].offers[o] \in OfferRow
                /\ DOMAIN w[r].negotiations \subseteq NegotiationIds
                /\ \A n \in DOMAIN w[r].negotiations :
                      w[r].negotiations[n] \in NegotiationRow
                /\ DOMAIN w[r].posts \subseteq PostIds
<1>1. /\ offers \in Tables(OfferIds, OfferRow)
      /\ negotiations \in Tables(NegotiationIds, NegotiationRow)
      /\ messages \in Tables(NegotiationIds, Status)
    BY DEF TypeOK
<1>2. ASSUME NEW r \in Requests
      PROVE  /\ pc[r] \in Labels
             /\ req[r] \in Locals
             /\ w[r] \in WriteSets
             /\ w[r].posts \in Tables(PostIds, RequestStatus)
             /\ w[r].offers \in Tables(OfferIds, OfferRow)
             /\ w[r].negotiations \in Tables(NegotiationIds, NegotiationRow)
             /\ w[r].messages \in Tables(NegotiationIds, Status)
    BY DEF TypeOK, WriteSets
<1>3. QED
    BY <1>1, <1>2, TableIsFunction

(* A statement that writes nothing to the tables disturbs only what is said *)
(* of its own request.                                                      *)
LEMMA PrivateStep ==
    ASSUME IInv, NEW r \in Requests, UNCHANGED tables,
           pc' \in [Requests -> Labels],
           req' \in [Requests -> Locals],
           w' \in [Requests -> WriteSets],
           sent' \subseteq Events,
           \A s \in Requests \ {r} : /\ pc'[s] = pc[s]
                                     /\ req'[s] = req[s]
                                     /\ w'[s] = w[s],
           LocalsInv(r)', OfferWritesInv(r)', NegotiationWritesInv(r)',
           PostWritesInv(r)', CounterInv(r)',
           \A s \in Requests \ {r} :
              /\ Negotiating(r)' /\ Negotiating(s) => req'[r].neg # req[s].neg
              /\ Creating(r)' => req[s].offer # req'[r].offer
              /\ Creating(s) => req'[r].offer # req[s].offer
              /\ DOMAIN w'[r].negotiations \cap DOMAIN w[s].negotiations = {}
    PROVE  IInv'
<1>1. TypeOK'
    BY DEF IInv, TypeOK, tables
<1>2. ASSUME NEW s \in Requests
      PROVE  LocalsInv(s)' /\ OfferWritesInv(s)' /\ NegotiationWritesInv(s)'
                /\ PostWritesInv(s)' /\ CounterInv(s)'
  <2>1. CASE s = r
      BY <2>1
  <2>2. CASE s # r
    <3>1. pc'[s] = pc[s] /\ req'[s] = req[s] /\ w'[s] = w[s]
        BY <2>2
    <3>2. LocalsInv(s) /\ OfferWritesInv(s) /\ NegotiationWritesInv(s)
             /\ PostWritesInv(s) /\ CounterInv(s)
        BY DEF IInv
    <3>3. LocalsInv(s)'
        BY <3>1, <3>2 DEF LocalsInv, Negotiating, Creating, tables
    <3>4. OfferWritesInv(s)'
        BY <3>1, <3>2 DEF OfferWritesInv, Creating, tables
    <3>5. NegotiationWritesInv(s)'
        BY <3>1, <3>2 DEF NegotiationWritesInv, Negotiating, tables
    <3>6. PostWritesInv(s)' /\ CounterInv(s)'
        BY <3>1, <3>2 DEF PostWritesInv, CounterInv, tables
    <3>7. QED
        BY <3>3, <3>4, <3>5, <3>6
  <2>3. QED
      BY <2>1, <2>2
<1>3. FreshIds'
    BY DEF IInv, FreshIds, Negotiating, Creating
<1>4. NegotiationLocks'
    BY DEF IInv, NegotiationLocks
<1>5. NegotiationsHaveOffers' /\ DealClosesPost'
    BY DEF IInv, NegotiationsHaveOffers, DealClosesPost, PostOf, tables
<1>6. QED
    BY <1>1, <1>2, <1>3, <1>4, <1>5 DEF IInv

-----------------------------------------------------------------------------
(* Where a behaviour starts. *)

LEMMA InitInv == Init => IInv
<1> SUFFICES ASSUME Init PROVE IInv
    OBVIOUS
<1>1. NoWrites \in WriteSets /\ NoLocals \in Locals
    BY NoRowsIsTable, BoundAssumption DEF NoWrites, WriteSets, NoLocals, Locals
<1>2. TypeOK
    BY <1>1, NoRowsIsTable DEF Init, TypeOK, RequestStatus, Labels
<1>3. ASSUME NEW r \in Requests
      PROVE  LocalsInv(r) /\ OfferWritesInv(r) /\ NegotiationWritesInv(r)
                /\ PostWritesInv(r) /\ CounterInv(r)
  <2>1. pc[r] = "idle" /\ req[r] = NoLocals /\ w[r] = NoWrites /\ req[r].op = "none"
      BY DEF Init, NoLocals
  <2>2. DOMAIN w[r].offers = {} /\ DOMAIN w[r].negotiations = {} /\ DOMAIN w[r].posts = {}
      BY <2>1 DEF NoWrites, NoRows
  <2>3. QED
      BY <2>1, <2>2 DEF LocalsInv, OfferWritesInv, NegotiationWritesInv, PostWritesInv,
         CounterInv, Negotiating, Creating, Ops, AcceptOps, AcceptLabels
<1>4. FreshIds /\ NegotiationLocks
    BY DEF Init, FreshIds, NegotiationLocks, Negotiating, Creating, NoLocals,
       NoWrites, NoRows
<1>5. NegotiationsHaveOffers /\ DealClosesPost
    BY DEF Init, NegotiationsHaveOffers, DealClosesPost, NoRows
<1>6. QED
    BY <1>2, <1>3, <1>4, <1>5 DEF IInv

(* A request under way keeps its handler and its offer from one statement to *)
(* the next, and a negotiation keeps the id it was given: only the rows it   *)
(* locks have to be told apart from those of the others.                     *)
LEMMA StatementStep ==
    ASSUME IInv, NEW r \in Requests, UNCHANGED tables, sent' \subseteq Events,
           pc' \in [Requests -> Labels],
           req' \in [Requests -> Locals],
           w' \in [Requests -> WriteSets],
           \A s \in Requests \ {r} : /\ pc'[s] = pc[s]
                                     /\ req'[s] = req[s]
                                     /\ w'[s] = w[s],
           req'[r].op = req[r].op, req'[r].offer = req[r].offer,
           Negotiating(r) => req'[r].neg = req[r].neg,
           \A s \in Requests \ {r} :
              DOMAIN w'[r].negotiations \cap DOMAIN w[s].negotiations = {},
           LocalsInv(r)', OfferWritesInv(r)', NegotiationWritesInv(r)',
           PostWritesInv(r)', CounterInv(r)'
    PROVE  IInv'
<1>1. FreshIds
    BY DEF IInv
<1>2. ASSUME NEW s \in Requests \ {r}
      PROVE  /\ Negotiating(r)' /\ Negotiating(s) => req'[r].neg # req[s].neg
             /\ Creating(r)' => req[s].offer # req'[r].offer
             /\ Creating(s) => req'[r].offer # req[s].offer
    BY <1>1 DEF FreshIds, Negotiating, Creating
<1>3. QED
    BY <1>2, PrivateStep

(* A statement of r that writes no negotiation, and leaves its locals alone. *)
LEMMA WriteStep ==
    ASSUME IInv, NEW r \in Requests, UNCHANGED <<tables, req>>, sent' \subseteq Events,
           NEW label \in Labels, pc' = [pc EXCEPT ![r] = label],
           w' \in [Requests -> WriteSets],
           \A s \in Requests \ {r} : w'[s] = w[s],
           \A s \in Requests \ {r} :
              DOMAIN w'[r].negotiations \cap DOMAIN w[s].negotiations = {},
           LocalsInv(r)', OfferWritesInv(r)', NegotiationWritesInv(r)',
           PostWritesInv(r)', CounterInv(r)'
    PROVE  IInv'
<1>1. TypeOK
    BY DEF IInv
<1>2. pc' \in [Requests -> Labels] /\ req' \in [Requests -> Locals]
    BY <1>1 DEF TypeOK
<1>3. \A s \in Requests \ {r} : pc'[s] = pc[s] /\ req'[s] = req[s]
    BY <1>1 DEF TypeOK
<1>4. QED
    BY <1>2, <1>3, StatementStep

(* The write set of r after it has written the row of one offer. *)
LEMMA OneOffer ==
    ASSUME TypeOK, NEW r \in Requests, NEW o \in OfferIds, NEW row \in OfferRow,
           w' = [w EXCEPT ![r].offers = Row(o, row)]
    PROVE  /\ w' \in [Requests -> WriteSets]
           /\ \A s \in Requests \ {r} : w'[s] = w[s]
           /\ DOMAIN w'[r].offers = {o}
           /\ w'[r].offers[o] = row
           /\ w'[r].negotiations = w[r].negotiations
           /\ w'[r].posts = w[r].posts
<1>1. /\ Row(o, row) \in Tables(OfferIds, OfferRow)
      /\ DOMAIN Row(o, row) = {o}
      /\ Row(o, row)[o] = row
    BY OneRow
<1>2. QED
    BY <1>1 DEF TypeOK, WriteSets

LEMMA OfferWritten ==
    ASSUME TypeOK, NEW r \in Requests, NEW o, NEW row,
           w' = [w EXCEPT ![r].offers = Row(o, row)]
    PROVE  w'[r].offers = Row(o, row) /\ w'[r].messages = w[r].messages
BY DEF TypeOK, WriteSets

(* The write set of r after it has written one negotiation and its message. *)
LEMMA OneNegotiation ==
    ASSUME TypeOK, NEW r \in Requests, NEW n \in NegotiationIds,
           NEW row \in NegotiationRow,
           NEW shown, shown \in Tables(NegotiationIds, Status),
           w' = [w EXCEPT ![r].negotiations = Row(n, row), ![r].messages = shown]
    PROVE  /\ w' \in [Requests -> WriteSets]
           /\ \A s \in Requests \ {r} : w'[s] = w[s]
           /\ DOMAIN w'[r].negotiations = {n}
           /\ w'[r].negotiations[n] = row
           /\ w'[r].offers = w[r].offers
           /\ w'[r].posts = w[r].posts
<1>1. /\ Row(n, row) \in Tables(NegotiationIds, NegotiationRow)
      /\ DOMAIN Row(n, row) = {n}
      /\ Row(n, row)[n] = row
    BY OneRow
<1>2. QED
    BY <1>1 DEF TypeOK, WriteSets

LEMMA NegotiationWritten ==
    ASSUME TypeOK, NEW r \in Requests, NEW n, NEW row, NEW shown,
           w' = [w EXCEPT ![r].negotiations = Row(n, row), ![r].messages = shown]
    PROVE  w'[r].negotiations = Row(n, row) /\ w'[r].messages = shown
BY DEF TypeOK, WriteSets

-----------------------------------------------------------------------------
(* The steps that begin a request. *)

LEMMA CreateOfferInv ==
    ASSUME IInv, NEW r \in Requests, NEW o \in OfferIds, NEW p \in PostIds,
           NEW u \in Users, NEW price \in Prices, CreateOffer(r, o, p, u, price)
    PROVE  IInv'
<1> DEFINE row == [post |-> p, user |-> u, price |-> price,
                   status |-> "pending", negotiation_status |-> "none"]
<1>1. TypeOK /\ LocalsInv(r) /\ FreshIds
    BY DEF IInv
<1>2. pc[r] = "idle" /\ o \notin DOMAIN offers /\ \A s \in Requests : req[s].offer # o
    BY DEF CreateOffer
<1>3. w[r] = NoWrites
    BY <1>1, <1>2 DEF LocalsInv
<1>4. UNCHANGED tables /\ sent' = {} /\ pc' = [pc EXCEPT ![r] = "publish"]
    BY DEF CreateOffer, Then
<1>5. req' = [req EXCEPT ![r] = [op |-> "create_offer", offer |-> o,
                                 neg |-> 0, price |-> price, seen |-> {}]]
    BY DEF CreateOffer
<1>6. w' = [w EXCEPT ![r].offers = Row(o, row)]
    BY DEF CreateOffer
<1>7. row \in OfferRow
    BY DEF OfferRow, Status
<1> HIDE DEF row
<1>8. /\ w' \in [Requests -> WriteSets]
      /\ \A s \in Requests \ {r} : w'[s] = w[s]
      /\ DOMAIN w'[r].offers = {o}
      /\ w'[r].offers[o] = row
      /\ w'[r].negotiations = w[r].negotiations
      /\ w'[r].posts = w[r].posts
    BY <1>1, <1>6, <1>7, OneOffer
<1>8a. DOMAIN w'[r].negotiations = {} /\ DOMAIN w'[r].posts = {}
    BY <1>3, <1>8, NoRowsIsTable DEF NoWrites
<1>9. /\ req'[r] = [op |-> "create_offer", offer |-> o, neg |-> 0, price |-> price,
                      seen |-> {}]
      /\ pc'[r] = "publish"
      /\ req' \in [Requests -> Locals]
      /\ pc' \in [Requests -> Labels]
      /\ \A s \in Requests \ {r} : req'[s] = req[s] /\ pc'[s] = pc[s]
    BY <1>1, <1>4, <1>5, BoundAssumption DEF TypeOK, Locals, Ops, Labels
<1>10. LocalsInv(r)' /\ CounterInv(r)'
    BY <1>2, <1>4, <1>9 DEF LocalsInv, CounterInv, Negotiating, Creating, Ops, AcceptOps,
       AcceptLabels, tables
<1>11. OfferWritesInv(r)'
    BY <1>2, <1>4, <1>8, <1>9 DEF OfferWritesInv, Creating, tables, row
<1>12. NegotiationWritesInv(r)' /\ PostWritesInv(r)'
    BY <1>8a, <1>9 DEF NegotiationWritesInv, PostWritesInv, AcceptOps
<1>13. ASSUME NEW s \in Requests \ {r}
       PROVE  /\ ~ Negotiating(r)'
              /\ Creating(r)' => req[s].offer # req'[r].offer
              /\ Creating(s) => req'[r].offer # req[s].offer
              /\ DOMAIN w'[r].negotiations \cap DOMAIN w[s].negotiations = {}
    BY <1>2, <1>8a, <1>9 DEF Negotiating
<1>14. QED
    BY <1>4, <1>8, <1>9, <1>10, <1>11, <1>12, <1>13, PrivateStep

LEMMA NegotiateStartInv ==
    ASSUME IInv, NEW r \in Requests, NEW o \in DOMAIN offers, NEW u \in Users,
           NEW price \in Prices, NEW n \in NegotiationIds,
           NegotiateStart(r, o, u, price, n)
    PROVE  IInv'
<1> DEFINE locals == [op |-> "negotiate_offer", offer |-> o, neg |-> n, price |-> price,
                      seen |-> {}]
<1>1. TypeOK /\ LocalsInv(r)
    BY DEF IInv
<1>2. /\ pc[r] = "idle"
      /\ pc' = [pc EXCEPT ![r] = "negotiate"]
      /\ req' = [req EXCEPT ![r] = locals]
      /\ sent' = {}
      /\ UNCHANGED tables
      /\ UNCHANGED w
    BY DEF NegotiateStart, Begin, tables
<1>3. n \notin DOMAIN negotiations /\ \A s \in Requests : req[s].neg # n
    BY DEF NegotiateStart, NegotiationsBegun, NegotiationIds
<1>4. o \in OfferIds
    BY <1>1, Kinds
<1>5. locals \in Locals
    BY <1>4 DEF Locals, Ops, NegotiationIds
<1>5a. /\ locals.op = "negotiate_offer" /\ locals.offer = o /\ locals.neg = n
       /\ locals.price = price
    OBVIOUS
<1> HIDE DEF locals
<1>6. /\ req'[r] = locals
      /\ pc'[r] = "negotiate"
      /\ w'[r] = NoWrites
      /\ req' \in [Requests -> Locals]
      /\ pc' \in [Requests -> Labels]
      /\ w' \in [Requests -> WriteSets]
      /\ \A s \in Requests \ {r} : req'[s] = req[s] /\ pc'[s] = pc[s] /\ w'[s] = w[s]
    BY <1>1, <1>2, <1>5 DEF TypeOK, LocalsInv, Labels
<1>7. /\ DOMAIN w'[r].posts = {}
      /\ DOMAIN w'[r].offers = {}
      /\ DOMAIN w'[r].negotiations = {}
    BY <1>6, NoRowsIsTable DEF NoWrites
<1>8. LocalsInv(r)'
    BY <1>2, <1>3, <1>4, <1>5a, <1>6 DEF LocalsInv, Negotiating, Creating, Ops, AcceptOps,
       AcceptLabels, tables
<1>9. OfferWritesInv(r)' /\ NegotiationWritesInv(r)'
    BY <1>7 DEF OfferWritesInv, NegotiationWritesInv
<1>10. PostWritesInv(r)' /\ CounterInv(r)'
    BY <1>5a, <1>6, <1>7 DEF PostWritesInv, CounterInv, AcceptOps
<1>11. ASSUME NEW s \in Requests \ {r}
       PROVE  /\ req'[r].neg # req[s].neg
              /\ ~ Creating(r)'
              /\ Creating(s) => req'[r].offer # req[s].offer
  <2>1. LocalsInv(s)
      BY DEF IInv
  <2>2. QED
      BY <1>3, <1>5a, <1>6, <2>1 DEF LocalsInv, Creating
<1>11a. DOMAIN w'[r].negotiations = {} /\ sent' \subseteq Events
    BY <1>2, <1>7
<1>12. QED
    BY <1>2, <1>6, <1>8, <1>9, <1>10, <1>11, <1>11a, PrivateStep

LEMMA CheckPendingInv ==
    ASSUME IInv, NEW r \in Requests, NEW o \in DOMAIN offers, NEW op, NEW label,
           CheckPending(r, o, op, label),
           \/ op = "update_offer" /\ label = "update"
           \/ op = "reject_offer" /\ label = "reject"
           \/ op = "accept_offer" /\ label = "accept"
           \/ op = "accept_counter_offer" /\ label = "pick_counter"
    PROVE  IInv'
<1> DEFINE locals == [op |-> op, offer |-> o, neg |-> 0, price |-> NoPrice,
                      seen |-> {}]
<1>1. TypeOK /\ LocalsInv(r)
    BY DEF IInv
<1>2. /\ pc[r] = "idle"
      /\ pc' = [pc EXCEPT ![r] = label]
      /\ req' = [req EXCEPT ![r] = locals]
      /\ sent' = {}
      /\ UNCHANGED tables
      /\ UNCHANGED w
    BY DEF CheckPending, Begin, tables
<1>3. o \in OfferIds
    BY <1>1, Kinds
<1>4. locals \in Locals /\ label \in Labels
    BY <1>3, BoundAssumption DEF Locals, Ops, AcceptOps, Labels
<1>5. /\ req'[r] = locals
      /\ pc'[r] = label
      /\ w'[r] = NoWrites
      /\ req' \in [Requests -> Locals]
      /\ pc' \in [Requests -> Labels]
      /\ w' \in [Requests -> WriteSets]
      /\ \A s \in Requests \ {r} : req'[s] = req[s] /\ pc'[s] = pc[s] /\ w'[s] = w[s]
    BY <1>1, <1>2, <1>4 DEF TypeOK, LocalsInv
<1>6. /\ DOMAIN w'[r].posts = {}
      /\ DOMAIN w'[r].offers = {}
      /\ DOMAIN w'[r].negotiations = {}
    BY <1>5, NoRowsIsTable DEF NoWrites
<1>7. LocalsInv(r)'
    BY <1>2, <1>3, <1>5 DEF LocalsInv, Negotiating, Creating, Ops, AcceptOps,
       AcceptLabels, tables
<1>8. OfferWritesInv(r)' /\ NegotiationWritesInv(r)'
    BY <1>6 DEF OfferWritesInv, NegotiationWritesInv
<1>9. PostWritesInv(r)' /\ CounterInv(r)'
    BY <1>5, <1>6 DEF PostWritesInv, CounterInv
<1>10. ASSUME NEW s \in Requests \ {r}
       PROVE  /\ ~ Negotiating(r)'
              /\ ~ Creating(r)'
              /\ Creating(s) => req'[r].offer # req[s].offer
  <2>1. LocalsInv(s)
      BY DEF IInv
  <2>2. QED
      BY <1>5, <2>1 DEF LocalsInv, Creating, Negotiating
<1>11. QED
    BY <1>2, <1>5, <1>6, <1>7, <1>8, <1>9, <1>10, PrivateStep


-----------------------------------------------------------------------------
(* The statements of negotiate_offer. *)

LEMMA NegotiateUpdateOfferInv ==
    ASSUME IInv, NEW r \in Requests, NegotiateUpdateOffer(r)
    PROVE  IInv'
<1> DEFINE o == req[r].offer
           row == [offers[o] EXCEPT !.negotiation_status = "in_progress"]
<1>1. /\ TypeOK /\ LocalsInv(r) /\ NegotiationWritesInv(r) /\ PostWritesInv(r)
      /\ DealClosesPost /\ NegotiationLocks
    BY DEF IInv
<1>2. /\ pc[r] = "negotiate" /\ pc' = [pc EXCEPT ![r] = "insert"]
      /\ sent' = {} /\ UNCHANGED <<tables, req>>
      /\ w' = [w EXCEPT ![r].offers = Row(o, row)]
    BY DEF NegotiateUpdateOffer, Then
<1>3. req[r].op = "negotiate_offer" /\ o \in DOMAIN offers
    BY <1>1, <1>2 DEF LocalsInv, Negotiating, Ops
<1>4. o \in OfferIds /\ offers[o] \in OfferRow
    BY <1>1, <1>3, Kinds
<1>5. row \in OfferRow
    BY <1>4 DEF OfferRow
<1>6. row.post = offers[o].post /\ row.status = offers[o].status
    BY <1>4 DEF OfferRow
<1> HIDE DEF row
<1>7. /\ w' \in [Requests -> WriteSets]
      /\ \A s \in Requests \ {r} : w'[s] = w[s]
      /\ DOMAIN w'[r].offers = {o}
      /\ w'[r].offers[o] = row
      /\ w'[r].negotiations = w[r].negotiations
      /\ w'[r].posts = w[r].posts
    BY <1>1, <1>2, <1>4, <1>5, OneOffer
<1>8. pc'[r] = "insert"
    BY <1>1, <1>2 DEF TypeOK
<1>9. LocalsInv(r)' /\ PostWritesInv(r)' /\ CounterInv(r)'
    BY <1>1, <1>2, <1>3, <1>7, <1>8 DEF LocalsInv, PostWritesInv, CounterInv, Negotiating,
       Creating, AcceptLabels, AcceptOps, Ops, tables
<1>10. OfferWritesInv(r)'
    BY <1>1, <1>2, <1>3, <1>6, <1>7, <1>8 DEF OfferWritesInv, DealClosesPost, tables
<1>11. NegotiationWritesInv(r)'
    BY <1>1, <1>2, <1>7, <1>8 DEF NegotiationWritesInv, Negotiating, tables
<1>12. \A s \in Requests \ {r} :
          DOMAIN w'[r].negotiations \cap DOMAIN w[s].negotiations = {}
    BY <1>1, <1>7 DEF NegotiationLocks
<1>13. "insert" \in Labels
    BY DEF Labels
<1>14. QED
    BY <1>2, <1>7, <1>9, <1>10, <1>11, <1>12, <1>13, WriteStep


LEMMA NegotiateInsertInv ==
    ASSUME IInv, NEW r \in Requests, NegotiateInsert(r)
    PROVE  IInv'
<1> DEFINE o == req[r].offer
           n == req[r].neg
           row == [offer |-> o, price |-> req[r].price, status |-> "pending"]
<1>1. /\ TypeOK /\ LocalsInv(r) /\ OfferWritesInv(r) /\ PostWritesInv(r)
    BY DEF IInv
<1>2. /\ pc[r] = "insert" /\ pc' = [pc EXCEPT ![r] = "publish"]
      /\ sent' = {} /\ UNCHANGED <<tables, req>>
      /\ w' = [w EXCEPT ![r].negotiations = Row(n, row), ![r].messages = Row(n, "pending")]
    BY DEF NegotiateInsert, Then
<1>3. /\ req[r].op = "negotiate_offer" /\ o \in DOMAIN offers
      /\ n \notin DOMAIN negotiations /\ req[r].price \in Prices
    BY <1>1, <1>2 DEF LocalsInv, Negotiating, Ops
<1>4. n \in NegotiationIds
    BY <1>1, <1>2 DEF LocalsInv, Negotiating
<1>5. o \in OfferIds
    BY <1>1, <1>3, Kinds
<1>6. row \in NegotiationRow
    BY <1>3, <1>5 DEF NegotiationRow, Status
<1>7. row.offer = o /\ row.status = "pending"
    OBVIOUS
<1> HIDE DEF row
<1>8. Row(n, "pending") \in Tables(NegotiationIds, Status)
    BY <1>4, OneRow DEF Status
<1>9. /\ w' \in [Requests -> WriteSets]
      /\ \A s \in Requests \ {r} : w'[s] = w[s]
      /\ DOMAIN w'[r].negotiations = {n}
      /\ w'[r].negotiations[n] = row
      /\ w'[r].offers = w[r].offers
      /\ w'[r].posts = w[r].posts
    BY <1>1, <1>2, <1>4, <1>6, <1>8, OneNegotiation
<1>10. pc'[r] = "publish"
    BY <1>1, <1>2 DEF TypeOK
<1>11. LocalsInv(r)' /\ PostWritesInv(r)' /\ CounterInv(r)'
    BY <1>1, <1>2, <1>3, <1>9, <1>10 DEF LocalsInv, PostWritesInv, CounterInv, Negotiating,
       Creating, AcceptLabels, AcceptOps, Ops, tables
<1>12. OfferWritesInv(r)'
    BY <1>1, <1>2, <1>9 DEF OfferWritesInv, Creating, tables
<1>13. NegotiationWritesInv(r)'
    BY <1>2, <1>3, <1>7, <1>9 DEF NegotiationWritesInv, Negotiating, tables
<1>14. ASSUME NEW s \in Requests \ {r}
       PROVE  DOMAIN w'[r].negotiations \cap DOMAIN w[s].negotiations = {}
  <2>1. NegotiationWritesInv(s) /\ FreshIds
      BY DEF IInv
  <2>2. n \notin DOMAIN w[s].negotiations
      BY <1>3, <2>1 DEF NegotiationWritesInv, FreshIds, Negotiating
  <2>3. QED
      BY <1>9, <2>2
<1>15. "publish" \in Labels
    BY DEF Labels
<1>16. QED
    BY <1>2, <1>9, <1>11, <1>12, <1>13, <1>14, <1>15, WriteStep

-----------------------------------------------------------------------------
(* The statements of accept_offer and accept_counter_offer. *)

LEMMA AcceptOfferInv ==
    ASSUME IInv, NEW r \in Requests, AcceptOffer(r)
    PROVE  IInv'
<1> DEFINE o == req[r].offer
           row == AcceptedRow(o, offers[o].price)
<1>1. /\ TypeOK /\ LocalsInv(r) /\ NegotiationWritesInv(r) /\ PostWritesInv(r)
      /\ CounterInv(r) /\ NegotiationLocks
    BY DEF IInv
<1>2. /\ pc[r] = "accept" /\ pc' = [pc EXCEPT ![r] = "pick"]
      /\ sent' = {} /\ UNCHANGED <<tables, req>>
      /\ w' = [w EXCEPT ![r].offers = Row(o, row)]
    BY DEF AcceptOffer, Then
<1>3. req[r].op \in AcceptOps /\ o \in DOMAIN offers
    BY <1>1, <1>2 DEF LocalsInv, AcceptLabels, AcceptOps, Ops
<1>4. o \in OfferIds /\ offers[o] \in OfferRow
    BY <1>1, <1>3, Kinds
<1>5. row \in OfferRow
    BY <1>4 DEF OfferRow, AcceptedRow, Status
<1>6. row.post = offers[o].post
    BY <1>4 DEF OfferRow, AcceptedRow
<1> HIDE DEF row
<1>7. /\ w' \in [Requests -> WriteSets]
      /\ \A s \in Requests \ {r} : w'[s] = w[s]
      /\ DOMAIN w'[r].offers = {o}
      /\ w'[r].offers[o] = row
      /\ w'[r].negotiations = w[r].negotiations
      /\ w'[r].posts = w[r].posts
    BY <1>1, <1>2, <1>4, <1>5, OneOffer
<1>8. pc'[r] = "pick"
    BY <1>1, <1>2 DEF TypeOK
<1>9. LocalsInv(r)' /\ PostWritesInv(r)'
    BY <1>1, <1>2, <1>3, <1>7, <1>8 DEF LocalsInv, PostWritesInv, Negotiating,
       Creating, AcceptLabels, AcceptOps, Ops, tables
<1>10. OfferWritesInv(r)'
    BY <1>1, <1>2, <1>3, <1>6, <1>7, <1>8 DEF OfferWritesInv, tables
<1>11. NegotiationWritesInv(r)'
    BY <1>1, <1>2, <1>7, <1>8 DEF NegotiationWritesInv, Negotiating, tables
<1>12. CounterInv(r)'
    BY <1>1, <1>2, <1>8 DEF CounterInv, LocalsInv
<1>13. \A s \in Requests \ {r} :
          DOMAIN w'[r].negotiations \cap DOMAIN w[s].negotiations = {}
    BY <1>1, <1>7 DEF NegotiationLocks
<1>14. "pick" \in Labels
    BY DEF Labels
<1>15. QED
    BY <1>2, <1>7, <1>9, <1>10, <1>11, <1>12, <1>13, <1>14, WriteStep

(* A request that ends without a COMMIT. *)
LEMMA EndInv ==
    ASSUME IInv, NEW r \in Requests, End(r), sent' = {}, UNCHANGED tables
    PROVE  IInv'
<1>1. TypeOK
    BY DEF IInv
<1>2. NoLocals \in Locals /\ NoWrites \in WriteSets
    BY NoRowsIsTable, BoundAssumption DEF NoLocals, Locals, NoWrites, WriteSets
<1>3. /\ pc' \in [Requests -> Labels]
      /\ req' \in [Requests -> Locals]
      /\ w' \in [Requests -> WriteSets]
      /\ pc'[r] = "idle" /\ req'[r] = NoLocals /\ w'[r] = NoWrites
      /\ \A s \in Requests \ {r} : pc'[s] = pc[s] /\ req'[s] = req[s] /\ w'[s] = w[s]
    BY <1>1, <1>2 DEF End, TypeOK, Labels
<1>4. /\ DOMAIN w'[r].posts = {}
      /\ DOMAIN w'[r].offers = {}
      /\ DOMAIN w'[r].negotiations = {}
      /\ req'[r].op = "none"
    BY <1>3, NoRowsIsTable DEF NoWrites, NoLocals
<1>5. LocalsInv(r)' /\ CounterInv(r)'
    BY <1>3, <1>4 DEF LocalsInv, CounterInv, Negotiating, Creating, Ops, AcceptOps,
       AcceptLabels
<1>6. OfferWritesInv(r)' /\ NegotiationWritesInv(r)' /\ PostWritesInv(r)'
    BY <1>3, <1>4 DEF OfferWritesInv, NegotiationWritesInv, PostWritesInv, AcceptOps
<1>7. ASSUME NEW s \in Requests \ {r}
      PROVE  /\ ~ Negotiating(r)' /\ ~ Creating(r)'
             /\ Creating(s) => req'[r].offer # req[s].offer
  <2>1. LocalsInv(s)
      BY DEF IInv
  <2>2. Creating(s) => req[s].offer \in OfferIds
      BY <2>1, <1>1 DEF LocalsInv, Creating, TypeOK, Ops, NoLocals
  <2>3. QED
      BY <1>3, <1>4, <2>2, NullAssumption DEF Negotiating, Creating, NoLocals
<1>8. QED
    BY <1>3, <1>4, <1>5, <1>6, <1>7, PrivateStep

LEMMA PickLatestInv ==
    ASSUME IInv, NEW r \in Requests, PickLatest(r)
    PROVE  IInv'
<1>1. /\ TypeOK /\ LocalsInv(r) /\ OfferWritesInv(r) /\ NegotiationWritesInv(r)
      /\ PostWritesInv(r) /\ CounterInv(r) /\ NegotiationLocks
    BY DEF IInv
<1>2. /\ pc[r] = "pick" /\ UNCHANGED <<tables, w>> /\ sent' = {}
    BY DEF PickLatest, Then
<1>3. /\ w' \in [Requests -> WriteSets]
      /\ \A s \in Requests \ {r} :
          DOMAIN w'[r].negotiations \cap DOMAIN w[s].negotiations = {}
    BY <1>1, <1>2 DEF TypeOK, NegotiationLocks
<1>4. CASE \E n \in PendingOf(req[r].offer) :
              req' = [req EXCEPT ![r].neg = n] /\ Then(r, "accept_neg")
  <2>1. PICK n \in PendingOf(req[r].offer) :
              req' = [req EXCEPT ![r].neg = n] /\ Then(r, "accept_neg")
      BY <1>4
  <2>2. n \in DOMAIN negotiations /\ negotiations[n].offer = req[r].offer
      BY <2>1 DEF PendingOf
  <2>3. n \in 1 .. MaxNegotiations
      BY <1>1, <2>2, Kinds DEF NegotiationIds
  <2>4. req[r] \in Locals
      BY <1>1 DEF TypeOK
  <2>5. /\ req' = [req EXCEPT ![r] = [req[r] EXCEPT !.neg = n]]
        /\ [req[r] EXCEPT !.neg = n] \in Locals
      BY <1>1, <2>1, <2>3, <2>4, BoundAssumption DEF TypeOK, Locals
  <2>6. /\ req' \in [Requests -> Locals]
        /\ \A s \in Requests \ {r} : req'[s] = req[s]
        /\ req'[r].op = req[r].op /\ req'[r].offer = req[r].offer
        /\ req'[r].neg = n
      BY <1>1, <2>4, <2>5 DEF TypeOK, Locals
  <2>7. /\ pc' \in [Requests -> Labels] /\ pc'[r] = "accept_neg"
        /\ \A s \in Requests \ {r} : pc'[s] = pc[s]
      BY <1>1, <2>1 DEF TypeOK, Then, Labels
  <2>8. req[r].op = "accept_offer"
      BY <1>1, <1>2 DEF LocalsInv
  <2>9. LocalsInv(r)' /\ CounterInv(r)'
      BY <1>1, <1>2, <2>2, <2>3, <2>6, <2>7, <2>8 DEF LocalsInv, CounterInv, Negotiating,
         Creating, AcceptLabels, AcceptOps, Ops, tables
  <2>10. OfferWritesInv(r)' /\ NegotiationWritesInv(r)' /\ PostWritesInv(r)'
      BY <1>1, <1>2, <2>6, <2>7, <2>8 DEF OfferWritesInv, NegotiationWritesInv, PostWritesInv,
         Negotiating, Creating, AcceptOps, tables
  <2>11. QED
      BY <1>2, <1>3, <2>6, <2>7, <2>8, <2>9, <2>10, StatementStep DEF Negotiating
<1>5. CASE Then(r, "see_rivals") /\ UNCHANGED req
  <2>1. pc' = [pc EXCEPT ![r] = "see_rivals"] /\ pc'[r] = "see_rivals"
      BY <1>1, <1>5 DEF Then, TypeOK
  <2>2. LocalsInv(r)' /\ CounterInv(r)'
      BY <1>1, <1>2, <1>5, <2>1 DEF LocalsInv, CounterInv, Negotiating,
         Creating, AcceptLabels, AcceptOps, Ops, tables
  <2>3. OfferWritesInv(r)' /\ NegotiationWritesInv(r)' /\ PostWritesInv(r)'
      BY <1>1, <1>2, <1>5, <2>1 DEF OfferWritesInv, NegotiationWritesInv, PostWritesInv,
         Negotiating, Creating, tables
  <2>4. "see_rivals" \in Labels
      BY DEF Labels
  <2>5. QED
      BY <1>2, <1>3, <1>5, <2>1, <2>2, <2>3, <2>4, WriteStep
<1>6. QED
    BY <1>4, <1>5 DEF PickLatest

LEMMA AcceptCounterInv ==
    ASSUME IInv, NEW r \in Requests, AcceptCounter(r)
    PROVE  IInv'
<1> DEFINE o == req[r].offer
           row == AcceptedRow(o, req[r].price)
           shown == [n \in MessagesOf({o}) |-> "accepted"]
<1>1. /\ TypeOK /\ LocalsInv(r) /\ NegotiationWritesInv(r) /\ PostWritesInv(r)
      /\ CounterInv(r) /\ NegotiationLocks /\ NegotiationsHaveOffers
    BY DEF IInv
<1>2. /\ pc[r] = "accept_counter" /\ pc' = [pc EXCEPT ![r] = "accept_neg"]
      /\ sent' = {} /\ UNCHANGED <<tables, req>>
      /\ w' = [w EXCEPT ![r].offers = Row(o, row), ![r].messages = shown]
    BY DEF AcceptCounter, Then
<1>3. req[r].op = "accept_counter_offer" /\ o \in DOMAIN offers
    BY <1>1, <1>2 DEF LocalsInv, AcceptLabels, AcceptOps, Ops
<1>4. req[r].neg # 0 /\ req[r].price = negotiations[req[r].neg].price
    BY <1>1, <1>2, <1>3 DEF CounterInv
<1>5. req[r].neg \in DOMAIN negotiations
    BY <1>1, <1>3, <1>4 DEF LocalsInv, AcceptOps
<1>6. o \in OfferIds /\ offers[o] \in OfferRow /\ negotiations[req[r].neg] \in NegotiationRow
    BY <1>1, <1>3, <1>5, Kinds
<1>7. req[r].price \in Prices
    BY <1>4, <1>6 DEF NegotiationRow
<1>8. row \in OfferRow
    BY <1>6, <1>7 DEF OfferRow, AcceptedRow, Status
<1>9. row.post = offers[o].post /\ row.status = "accepted" /\ row.price = req[r].price
    BY <1>6 DEF OfferRow, AcceptedRow
<1> HIDE DEF row
<1>10. shown \in Tables(NegotiationIds, Status)
  <2>1. DOMAIN messages \subseteq NegotiationIds
      BY <1>1, Kinds
  <2>2. shown \in [MessagesOf({o}) -> Status] /\ MessagesOf({o}) \subseteq NegotiationIds
      BY <2>1 DEF Status, MessagesOf
  <2>3. QED
      BY <2>2 DEF Tables
<1> HIDE DEF shown
<1>11. /\ Row(o, row) \in Tables(OfferIds, OfferRow)
       /\ DOMAIN Row(o, row) = {o}
       /\ Row(o, row)[o] = row
    BY <1>6, <1>8, OneRow
<1>12. /\ w' \in [Requests -> WriteSets]
       /\ \A s \in Requests \ {r} : w'[s] = w[s]
       /\ w'[r].offers = Row(o, row)
       /\ w'[r].negotiations = w[r].negotiations
       /\ w'[r].posts = w[r].posts
    BY <1>1, <1>2, <1>10, <1>11 DEF TypeOK, WriteSets
<1>13. pc'[r] = "accept_neg"
    BY <1>1, <1>2 DEF TypeOK
<1>14. LocalsInv(r)' /\ PostWritesInv(r)'
    BY <1>1, <1>2, <1>3, <1>4, <1>12, <1>13 DEF LocalsInv, PostWritesInv, Negotiating,
       Creating, AcceptLabels, AcceptOps, Ops, tables
<1>15. OfferWritesInv(r)'
    BY <1>1, <1>2, <1>3, <1>9, <1>11, <1>12, <1>13 DEF OfferWritesInv, AcceptOps, tables
<1>16. NegotiationWritesInv(r)'
    BY <1>1, <1>2, <1>12, <1>13 DEF NegotiationWritesInv, Negotiating, tables
<1>17. CounterInv(r)'
    BY <1>1, <1>2, <1>4, <1>9, <1>11, <1>12, <1>13 DEF CounterInv, tables
<1>18. \A s \in Requests \ {r} :
          DOMAIN w'[r].negotiations \cap DOMAIN w[s].negotiations = {}
    BY <1>1, <1>12 DEF NegotiationLocks
<1>19. "accept_neg" \in Labels
    BY DEF Labels
<1>20. QED
    BY <1>2, <1>12, <1>14, <1>15, <1>16, <1>17, <1>18, <1>19, WriteStep

LEMMA PickCounterInv ==
    ASSUME IInv, NEW r \in Requests, PickCounter(r)
    PROVE  IInv'
<1>1. /\ TypeOK /\ LocalsInv(r) /\ OfferWritesInv(r) /\ NegotiationWritesInv(r)
      /\ PostWritesInv(r) /\ NegotiationLocks
    BY DEF IInv
<1>2. pc[r] = "pick_counter" /\ UNCHANGED tables /\ sent' = {}
    BY DEF PickCounter, Then
<1>3. CASE \E n \in PendingOf(req[r].offer) :
              /\ req' = [req EXCEPT ![r].neg = n, ![r].price = negotiations[n].price]
              /\ Then(r, "accept_counter")
              /\ UNCHANGED w
  <2>1. PICK n \in PendingOf(req[r].offer) :
              /\ req' = [req EXCEPT ![r].neg = n, ![r].price = negotiations[n].price]
              /\ Then(r, "accept_counter")
              /\ UNCHANGED w
      BY <1>3
  <2>2. n \in DOMAIN negotiations /\ negotiations[n].offer = req[r].offer
      BY <2>1 DEF PendingOf
  <2>3. n \in 1 .. MaxNegotiations /\ negotiations[n] \in NegotiationRow
      BY <1>1, <2>2, Kinds DEF NegotiationIds
  <2>4. req[r] \in Locals /\ negotiations[n].price \in Prices
      BY <1>1, <2>3 DEF TypeOK, NegotiationRow
  <2>5. ASSUME NEW price \in Prices
        PROVE  [req[r] EXCEPT !.neg = n, !.price = price] \in Locals
    <3>1. n \in 0 .. MaxNegotiations /\ price \in Prices \cup {NoPrice}
        BY <2>3, BoundAssumption
    <3>2. QED
        BY <2>4, <3>1 DEF Locals
  <2>6. /\ req' \in [Requests -> Locals]
        /\ \A s \in Requests \ {r} : req'[s] = req[s]
        /\ req'[r] = [req[r] EXCEPT !.neg = n, !.price = negotiations[n].price]
      BY <1>1, <2>1, <2>4, <2>5 DEF TypeOK
  <2>6a. /\ req'[r].op = req[r].op /\ req'[r].offer = req[r].offer
         /\ req'[r].neg = n /\ req'[r].price = negotiations[n].price
      BY <2>4, <2>6 DEF Locals
  <2>7. /\ pc' \in [Requests -> Labels] /\ pc'[r] = "accept_counter"
        /\ \A s \in Requests \ {r} : pc'[s] = pc[s]
      BY <1>1, <2>1 DEF TypeOK, Then, Labels
  <2>8. req[r].op = "accept_counter_offer"
      BY <1>1, <1>2 DEF LocalsInv
  <2>9. LocalsInv(r)' /\ CounterInv(r)'
      BY <1>1, <1>2, <2>2, <2>3, <2>6a, <2>7, <2>8 DEF LocalsInv, CounterInv, Negotiating,
         Creating, AcceptLabels, AcceptOps, Ops, tables
  <2>10. OfferWritesInv(r)' /\ NegotiationWritesInv(r)' /\ PostWritesInv(r)'
      BY <1>1, <1>2, <2>1, <2>6a, <2>7, <2>8 DEF OfferWritesInv, NegotiationWritesInv,
         PostWritesInv, Negotiating, Creating, AcceptOps, tables
  <2>11. /\ w' \in [Requests -> WriteSets]
         /\ \A s \in Requests \ {r} :
             DOMAIN w'[r].negotiations \cap DOMAIN w[s].negotiations = {}
      BY <1>1, <2>1 DEF TypeOK, NegotiationLocks
  <2>12. QED
      BY <1>2, <2>1, <2>6, <2>6a, <2>7, <2>8, <2>9, <2>10, <2>11, StatementStep DEF Negotiating
<1>4. CASE End(r)
    BY <1>2, <1>4, EndInv
<1>5. QED
    BY <1>3, <1>4 DEF PickCounter

LEMMA AcceptNegotiationInv ==
    ASSUME IInv, NEW r \in Requests, AcceptNegotiation(r)
    PROVE  IInv'
<1> DEFINE n == req[r].neg
           row == [negotiations[n] EXCEPT !.status = "accepted"]
           shown == Row(n, "accepted") \oplus w[r].messages
<1>1. /\ TypeOK /\ LocalsInv(r) /\ OfferWritesInv(r) /\ PostWritesInv(r)
      /\ CounterInv(r) /\ NegotiationsHaveOffers
    BY DEF IInv
<1>2. /\ pc[r] = "accept_neg" /\ pc' = [pc EXCEPT ![r] = "reject_negs"]
      /\ sent' = {} /\ UNCHANGED <<tables, req>> /\ Granted(r)
    BY DEF AcceptNegotiation, Then
<1>3. req[r].op \in AcceptOps /\ n # 0
    BY <1>1, <1>2 DEF LocalsInv, AcceptLabels
<1>4. n \in DOMAIN negotiations /\ negotiations[n].offer = req[r].offer
    BY <1>1, <1>3 DEF LocalsInv
<1>5. n \in NegotiationIds /\ negotiations[n] \in NegotiationRow
    BY <1>1, <1>4, Kinds
<1>6. row \in NegotiationRow
    BY <1>5 DEF NegotiationRow, Status
<1>7. row.offer = negotiations[n].offer /\ row.price = negotiations[n].price
         /\ row.status = "accepted"
    BY <1>5 DEF NegotiationRow
<1>8. shown \in Tables(NegotiationIds, Status)
  <2>1. w[r].messages \in Tables(NegotiationIds, Status)
      BY <1>1, Kinds
  <2>2. Row(n, "accepted") \in Tables(NegotiationIds, Status)
      BY <1>5, OneRow DEF Status
  <2>3. QED
      BY <2>1, <2>2, Overlay
<1>9. w' = [w EXCEPT ![r].negotiations = Row(n, row), ![r].messages = shown]
    BY <1>1 DEF AcceptNegotiation, TypeOK, WriteSets
<1> HIDE DEF row, shown
<1>10. /\ w' \in [Requests -> WriteSets]
       /\ \A s \in Requests \ {r} : w'[s] = w[s]
       /\ DOMAIN w'[r].negotiations = {n}
       /\ w'[r].negotiations[n] = row
       /\ w'[r].offers = w[r].offers
       /\ w'[r].posts = w[r].posts
    BY <1>1, <1>5, <1>6, <1>8, <1>9, OneNegotiation
<1>11. pc'[r] = "reject_negs"
    BY <1>1, <1>2 DEF TypeOK
<1>12. LocalsInv(r)' /\ PostWritesInv(r)'
    BY <1>1, <1>2, <1>3, <1>10, <1>11 DEF LocalsInv, PostWritesInv, Negotiating,
       Creating, AcceptLabels, AcceptOps, Ops, tables
<1>13. OfferWritesInv(r)'
    BY <1>1, <1>2, <1>10 DEF OfferWritesInv, Creating, tables
<1>14. NegotiationWritesInv(r)'
    BY <1>1, <1>2, <1>3, <1>4, <1>7, <1>10
       DEF NegotiationWritesInv, NegotiationsHaveOffers, tables
<1>15. CounterInv(r)'
    BY <1>1, <1>2, <1>7, <1>10, <1>11 DEF CounterInv, tables
<1>16. \A s \in Requests \ {r} :
          DOMAIN w'[r].negotiations \cap DOMAIN w[s].negotiations = {}
    BY <1>2, <1>10 DEF Granted, WaitsFor, Needs
<1>17. "reject_negs" \in Labels
    BY DEF Labels
<1>18. QED
    BY <1>2, <1>10, <1>12, <1>13, <1>14, <1>15, <1>16, <1>17, WriteStep


(* The rejected rows of a set of negotiations, laid over those written before. *)
LEMMA ManyNegotiations ==
    ASSUME TypeOK, NEW r \in Requests, NEW S, S \subseteq DOMAIN negotiations,
           NEW label, RejectNegotiations(r, S, label)
    PROVE  /\ w' \in [Requests -> WriteSets]
           /\ \A s \in Requests \ {r} : w'[s] = w[s]
           /\ DOMAIN w'[r].negotiations = S \cup DOMAIN w[r].negotiations
           /\ \A n \in S : w'[r].negotiations[n] =
                              [negotiations[n] EXCEPT !.status = "rejected"]
           /\ \A n \in DOMAIN w[r].negotiations \ S :
                  w'[r].negotiations[n] = w[r].negotiations[n]
           /\ DOMAIN w'[r].messages = S \cup DOMAIN w[r].messages
           /\ \A n \in S : w'[r].messages[n] = "rejected"
           /\ \A n \in DOMAIN w[r].messages \ S : w'[r].messages[n] = w[r].messages[n]
           /\ w'[r].offers = w[r].offers
           /\ w'[r].posts = w[r].posts
<1> DEFINE N == [n \in S |-> [negotiations[n] EXCEPT !.status = "rejected"]]
           M == [n \in S |-> "rejected"]
<1>1. S \subseteq NegotiationIds /\ \A n \in S : negotiations[n] \in NegotiationRow
    BY Kinds
<1>2. \A n \in S : [negotiations[n] EXCEPT !.status = "rejected"] \in NegotiationRow
    BY <1>1 DEF NegotiationRow, Status
<1>3. N \in Tables(NegotiationIds, NegotiationRow) /\ DOMAIN N = S
  <2>1. N \in [S -> NegotiationRow]
      BY <1>2
  <2>2. QED
      BY <1>1, <2>1 DEF Tables
<1>4. /\ M \in Tables(NegotiationIds, Status) /\ DOMAIN M = S
      /\ \A n \in S : M[n] = "rejected"
  <2>1. M \in [S -> Status]
      BY DEF Status
  <2>2. QED
      BY <1>1, <2>1 DEF Tables
<1>5. \A n \in S : N[n] = [negotiations[n] EXCEPT !.status = "rejected"]
    OBVIOUS
<1>6. /\ w[r].negotiations \in Tables(NegotiationIds, NegotiationRow)
      /\ w[r].messages \in Tables(NegotiationIds, Status)
    BY Kinds
<1>7. w' = [w EXCEPT ![r].negotiations = N \oplus w[r].negotiations,
                     ![r].messages = M \oplus w[r].messages]
    BY DEF RejectNegotiations, TypeOK, WriteSets
<1> HIDE DEF N, M
<1>8. /\ N \oplus w[r].negotiations \in Tables(NegotiationIds, NegotiationRow)
      /\ DOMAIN (N \oplus w[r].negotiations) = S \cup DOMAIN w[r].negotiations
      /\ \A n \in S : (N \oplus w[r].negotiations)[n] = N[n]
      /\ \A n \in DOMAIN w[r].negotiations \ S :
             (N \oplus w[r].negotiations)[n] = w[r].negotiations[n]
  <2>1. N \oplus w[r].negotiations \in Tables(NegotiationIds, NegotiationRow)
      BY <1>3, <1>6, Overlay
  <2>2. QED
      BY <1>3, <2>1, OverlayRows
<1>9. /\ M \oplus w[r].messages \in Tables(NegotiationIds, Status)
      /\ DOMAIN (M \oplus w[r].messages) = S \cup DOMAIN w[r].messages
      /\ \A n \in S : (M \oplus w[r].messages)[n] = "rejected"
      /\ \A n \in DOMAIN w[r].messages \ S :
             (M \oplus w[r].messages)[n] = w[r].messages[n]
  <2>1. M \oplus w[r].messages \in Tables(NegotiationIds, Status)
      BY <1>4, <1>6, Overlay
  <2>2. /\ DOMAIN (M \oplus w[r].messages) = S \cup DOMAIN w[r].messages
        /\ \A n \in S : (M \oplus w[r].messages)[n] = M[n]
        /\ \A n \in DOMAIN w[r].messages \ S :
               (M \oplus w[r].messages)[n] = w[r].messages[n]
      BY <1>4, OverlayRows
  <2>3. QED
      BY <1>4, <2>1, <2>2
<1>10. /\ w' \in [Requests -> WriteSets]
       /\ \A s \in Requests \ {r} : w'[s] = w[s]
       /\ w'[r].negotiations = N \oplus w[r].negotiations
       /\ w'[r].messages = M \oplus w[r].messages
       /\ w'[r].offers = w[r].offers
       /\ w'[r].posts = w[r].posts
  <2>1. ASSUME NEW X \in Tables(NegotiationIds, NegotiationRow),
               NEW Y \in Tables(NegotiationIds, Status),
               w' = [w EXCEPT ![r].negotiations = X, ![r].messages = Y]
        PROVE  /\ w' \in [Requests -> WriteSets]
               /\ \A s \in Requests \ {r} : w'[s] = w[s]
               /\ w'[r].negotiations = X
               /\ w'[r].messages = Y
               /\ w'[r].offers = w[r].offers
               /\ w'[r].posts = w[r].posts
      BY <2>1 DEF TypeOK, WriteSets
  <2>2. QED
      BY <1>7, <1>8, <1>9, <2>1
<1>11. QED
    BY <1>5, <1>8, <1>9, <1>10

LEMMA RejectNegotiationsInv ==
    ASSUME IInv, NEW r \in Requests, NEW S, NEW label,
           \/ pc[r] = "reject_negs" /\ label = "see_rivals"
           \/ pc[r] = "reject_others_negs" /\ label = "fulfil",
           S \subseteq DOMAIN negotiations, req[r].neg \notin S,
           \A n \in S : negotiations[n].status = "pending",
           Granted(r) => \A s \in Requests \ {r} : S \cap DOMAIN w[s].negotiations = {},
           RejectNegotiations(r, S, label)
    PROVE  IInv'
<1>1. /\ TypeOK /\ LocalsInv(r) /\ OfferWritesInv(r) /\ NegotiationWritesInv(r)
      /\ PostWritesInv(r) /\ CounterInv(r) /\ NegotiationLocks /\ NegotiationsHaveOffers
    BY DEF IInv
<1>2. /\ pc' = [pc EXCEPT ![r] = label]
      /\ sent' = {} /\ UNCHANGED <<tables, req>> /\ Granted(r)
    BY DEF RejectNegotiations, Then
<1>3. \A n \in S : negotiations[n] \in NegotiationRow
    BY <1>1, Kinds
<1>4. /\ w' \in [Requests -> WriteSets]
      /\ \A s \in Requests \ {r} : w'[s] = w[s]
      /\ DOMAIN w'[r].negotiations = S \cup DOMAIN w[r].negotiations
      /\ \A n \in S : w'[r].negotiations[n] =
                         [negotiations[n] EXCEPT !.status = "rejected"]
      /\ \A n \in DOMAIN w[r].negotiations \ S :
             w'[r].negotiations[n] = w[r].negotiations[n]
      /\ w'[r].offers = w[r].offers
      /\ w'[r].posts = w[r].posts
    BY <1>1, ManyNegotiations
<1>5. pc'[r] = label
    BY <1>1, <1>2 DEF TypeOK
<1>6. req[r].op \in AcceptOps
    BY <1>1 DEF LocalsInv, AcceptLabels
<1>7. LocalsInv(r)' /\ PostWritesInv(r)'
    BY <1>1, <1>2, <1>4, <1>5, <1>6 DEF LocalsInv, PostWritesInv, Negotiating,
       Creating, AcceptLabels, AcceptOps, Ops, tables
<1>8. OfferWritesInv(r)'
    BY <1>1, <1>2, <1>4 DEF OfferWritesInv, Creating, tables
<1>9. \A n \in S :
         LET row == w'[r].negotiations[n]
         IN  /\ row.offer = negotiations[n].offer /\ row.price = negotiations[n].price
             /\ row.status = "rejected"
    BY <1>3, <1>4 DEF NegotiationRow
<1>10. NegotiationWritesInv(r)'
  <2> SUFFICES ASSUME NEW n \in DOMAIN w'[r].negotiations
               PROVE  LET row == w'[r].negotiations[n] IN
                      /\ row.offer \in DOMAIN offers
                      /\ n \in DOMAIN negotiations =>
                            /\ row.offer = negotiations[n].offer
                            /\ row.price = negotiations[n].price
                            /\ row.status = "accepted" \/ negotiations[n].status = "pending"
                      /\ n \notin DOMAIN negotiations => Negotiating(r) /\ n = req[r].neg
                      /\ row.status = "accepted" =>
                            req[r].op \in AcceptOps /\ row.offer = req[r].offer
      BY <1>2 DEF NegotiationWritesInv, Negotiating, tables
  <2>1. CASE n \in S
      BY <1>1, <1>9, <2>1 DEF NegotiationsHaveOffers
  <2>2. CASE n \notin S
      BY <1>1, <1>4, <2>2 DEF NegotiationWritesInv
  <2>3. QED
      BY <2>1, <2>2
<1>11. CounterInv(r)'
    BY <1>1, <1>2, <1>4, <1>5 DEF CounterInv, tables
<1>12. \A s \in Requests \ {r} :
          DOMAIN w'[r].negotiations \cap DOMAIN w[s].negotiations = {}
    BY <1>1, <1>2, <1>4 DEF NegotiationLocks
<1>13. label \in Labels
    BY DEF Labels
<1>14. QED
    BY <1>2, <1>4, <1>7, <1>8, <1>10, <1>11, <1>12, <1>13, WriteStep

LEMMA RejectOtherNegotiationsInv ==
    ASSUME IInv, NEW r \in Requests, RejectOtherNegotiations(r)
    PROVE  IInv'
<1> DEFINE S == PendingOf(req[r].offer) \ {req[r].neg}
<1>1. pc[r] = "reject_negs" /\ RejectNegotiations(r, S, "see_rivals")
    BY DEF RejectOtherNegotiations
<1>2. Granted(r) => \A s \in Requests \ {r} : S \cap DOMAIN w[s].negotiations = {}
    BY <1>1 DEF Granted, WaitsFor, Needs
<1>3. /\ S \subseteq DOMAIN negotiations /\ req[r].neg \notin S
      /\ \A n \in S : negotiations[n].status = "pending"
    BY DEF PendingOf
<1>4. QED
    BY <1>1, <1>2, <1>3, RejectNegotiationsInv

(* A statement about the rest of the post takes its snapshot. *)
LEMMA SeeInv ==
    ASSUME IInv, NEW r \in Requests, NEW S, S \subseteq OfferIds \cup NegotiationIds,
           NEW label, See(r, S, label),
           \/ pc[r] = "see_rivals" /\ label = "reject_rivals"
           \/ pc[r] = "see_others_negs" /\ label = "reject_others_negs"
    PROVE  IInv'
<1>1. /\ TypeOK /\ LocalsInv(r) /\ OfferWritesInv(r) /\ NegotiationWritesInv(r)
      /\ PostWritesInv(r) /\ CounterInv(r) /\ NegotiationLocks
    BY DEF IInv
<1>2. /\ req' = [req EXCEPT ![r].seen = S] /\ pc' = [pc EXCEPT ![r] = label]
      /\ UNCHANGED <<tables, w>> /\ sent' = {}
    BY DEF See, Then
<1>3. req[r] \in Locals
    BY <1>1 DEF TypeOK
<1>4. [req[r] EXCEPT !.seen = S] \in Locals
    BY <1>3 DEF Locals
<1>5. /\ req' \in [Requests -> Locals]
      /\ \A s \in Requests \ {r} : req'[s] = req[s]
      /\ req'[r] = [req[r] EXCEPT !.seen = S]
    BY <1>1, <1>2, <1>4 DEF TypeOK
<1>6. /\ req'[r].op = req[r].op /\ req'[r].offer = req[r].offer
      /\ req'[r].neg = req[r].neg /\ req'[r].price = req[r].price
    BY <1>3, <1>5 DEF Locals
<1>7. /\ pc' \in [Requests -> Labels] /\ pc'[r] = label
      /\ \A s \in Requests \ {r} : pc'[s] = pc[s]
    BY <1>1, <1>2 DEF TypeOK, Labels
<1>8. req[r].op \in AcceptOps
    BY <1>1 DEF LocalsInv, AcceptLabels
<1>9. LocalsInv(r)'
    BY <1>1, <1>2, <1>6, <1>7, <1>8 DEF LocalsInv, Negotiating, Creating, AcceptLabels,
       AcceptOps, Ops, tables
<1>10. CounterInv(r)'
    BY <1>1, <1>2, <1>6, <1>7 DEF CounterInv, tables
<1>11. OfferWritesInv(r)' /\ NegotiationWritesInv(r)' /\ PostWritesInv(r)'
    BY <1>1, <1>2, <1>6, <1>7, <1>8 DEF OfferWritesInv, NegotiationWritesInv, PostWritesInv,
       Negotiating, Creating, AcceptOps, tables
<1>12. /\ w' \in [Requests -> WriteSets]
       /\ \A s \in Requests \ {r} :
           DOMAIN w'[r].negotiations \cap DOMAIN w[s].negotiations = {}
    BY <1>1, <1>2 DEF TypeOK, NegotiationLocks
<1>13. QED
    BY <1>2, <1>5, <1>6, <1>7, <1>9, <1>10, <1>11, <1>12, StatementStep

LEMMA SeeStepsInv ==
    ASSUME IInv, NEW r \in Requests, SeeRivals(r) \/ SeeOthersNegotiations(r)
    PROVE  IInv'
<1>1. /\ Rivals(req[r].offer) \subseteq OfferIds \cup NegotiationIds
      /\ OthersPending(req[r].offer) \subseteq OfferIds \cup NegotiationIds
  <2>1. TypeOK
      BY DEF IInv
  <2>2. QED
      BY <2>1, Kinds DEF Rivals, OthersPending
<1>2. CASE SeeRivals(r)
    BY <1>1, <1>2, SeeInv DEF SeeRivals
<1>3. CASE SeeOthersNegotiations(r)
    BY <1>1, <1>3, SeeInv DEF SeeOthersNegotiations
<1>4. QED
    BY <1>2, <1>3

LEMMA RejectOthersNegotiationsInv ==
    ASSUME IInv, NEW r \in Requests, RejectOthersNegotiations(r)
    PROVE  IInv'
<1> DEFINE S == OthersSeen(r)
<1>1. pc[r] = "reject_others_negs" /\ RejectNegotiations(r, S, "fulfil")
    BY DEF RejectOthersNegotiations
<1>2. Granted(r) => \A s \in Requests \ {r} : S \cap DOMAIN w[s].negotiations = {}
    BY <1>1 DEF Granted, WaitsFor, Needs
<1>3. /\ S \subseteq DOMAIN negotiations
      /\ \A n \in S : negotiations[n].status = "pending"
                        /\ negotiations[n].offer # req[r].offer
    BY DEF OthersSeen, OthersPending
<1>4. req[r].neg \notin S
  <2>1. LocalsInv(r) /\ TypeOK
      BY DEF IInv
  <2>2. req[r].op \in AcceptOps
      BY <1>1, <2>1 DEF LocalsInv, AcceptLabels
  <2>3. CASE req[r].neg = 0
      BY <1>3, <2>1, <2>3, Kinds, BoundAssumption DEF NegotiationIds
  <2>4. CASE req[r].neg # 0
      BY <1>3, <2>1, <2>2, <2>4 DEF LocalsInv
  <2>5. QED
      BY <2>3, <2>4
<1>5. QED
    BY <1>1, <1>2, <1>3, <1>4, RejectNegotiationsInv

LEMMA FulfilPostInv ==
    ASSUME IInv, NEW r \in Requests, FulfilPost(r)
    PROVE  IInv'
<1> DEFINE p == offers[req[r].offer].post
<1>1. /\ TypeOK /\ LocalsInv(r) /\ OfferWritesInv(r) /\ NegotiationWritesInv(r)
      /\ CounterInv(r) /\ NegotiationLocks
    BY DEF IInv
<1>2. /\ pc[r] = "fulfil" /\ pc' = [pc EXCEPT ![r] = "publish"]
      /\ sent' = {} /\ UNCHANGED <<tables, req>>
      /\ w' = [w EXCEPT ![r].posts = Row(p, "fulfilled")]
    BY DEF FulfilPost, Then
<1>3. req[r].op \in AcceptOps
    BY <1>1, <1>2 DEF LocalsInv, AcceptLabels
<1>4. req[r].offer \in DOMAIN offers
    BY <1>1, <1>3 DEF LocalsInv, AcceptOps, Ops
<1>5. offers[req[r].offer] \in OfferRow
    BY <1>1, <1>4, Kinds
<1>6. p \in PostIds
    BY <1>5 DEF OfferRow
<1> HIDE DEF p
<1>7. /\ Row(p, "fulfilled") \in Tables(PostIds, RequestStatus)
      /\ DOMAIN Row(p, "fulfilled") = {p}
      /\ Row(p, "fulfilled")[p] = "fulfilled"
    BY <1>6, OneRow DEF RequestStatus
<1>8. /\ w' \in [Requests -> WriteSets]
      /\ \A s \in Requests \ {r} : w'[s] = w[s]
      /\ w'[r].posts = Row(p, "fulfilled")
      /\ w'[r].negotiations = w[r].negotiations
      /\ w'[r].offers = w[r].offers
    BY <1>1, <1>2, <1>7 DEF TypeOK, WriteSets
<1>9. pc'[r] = "publish"
    BY <1>1, <1>2 DEF TypeOK
<1>10. LocalsInv(r)' /\ CounterInv(r)'
    BY <1>1, <1>2, <1>3, <1>8, <1>9 DEF LocalsInv, CounterInv, Negotiating,
       Creating, AcceptLabels, AcceptOps, Ops, tables
<1>11. PostWritesInv(r)'
    BY <1>2, <1>7, <1>8, <1>9 DEF PostWritesInv, tables, p
<1>12. OfferWritesInv(r)' /\ NegotiationWritesInv(r)'
    BY <1>1, <1>2, <1>8 DEF OfferWritesInv, NegotiationWritesInv, Negotiating, Creating, tables
<1>13. \A s \in Requests \ {r} :
          DOMAIN w'[r].negotiations \cap DOMAIN w[s].negotiations = {}
    BY <1>1, <1>8 DEF NegotiationLocks
<1>14. "publish" \in Labels
    BY DEF Labels
<1>15. QED
    BY <1>2, <1>8, <1>10, <1>11, <1>12, <1>13, <1>14, WriteStep


LEMMA RejectRivalsInv ==
    ASSUME IInv, NEW r \in Requests, RejectRivals(r)
    PROVE  IInv'
<1> DEFINE o == req[r].offer
           R == RivalsSeen(r)
           done(x) == IF req[r].neg # 0 THEN "completed" ELSE offers[x].negotiation_status
           row(x) == [offers[x] EXCEPT !.status = "rejected",
                                       !.negotiation_status = done(x)]
           rows == [x \in R |-> row(x)]
           shown == [n \in MessagesOf(R) |-> "rejected"]
<1>1. /\ TypeOK /\ LocalsInv(r) /\ OfferWritesInv(r) /\ NegotiationWritesInv(r)
      /\ PostWritesInv(r) /\ CounterInv(r) /\ NegotiationLocks
    BY DEF IInv
<1>2. /\ pc[r] = "reject_rivals" /\ pc' = [pc EXCEPT ![r] = "see_others_negs"]
      /\ sent' = {} /\ UNCHANGED <<tables, req>>
    BY DEF RejectRivals, Then
<1>3. R \subseteq DOMAIN offers \ {o}
    BY DEF RivalsSeen, Rivals
<1>4. \A x \in R : offers[x] \in OfferRow /\ x \in OfferIds
    BY <1>1, <1>3, Kinds
<1>5. \A x \in R :
         row(x) \in OfferRow /\ row(x).post = offers[x].post /\ row(x).status = "rejected"
    BY <1>4 DEF OfferRow, Status
<1>6. rows \in Tables(OfferIds, OfferRow) /\ DOMAIN rows = R
  <2>1. rows \in [R -> OfferRow] /\ R \subseteq OfferIds
      BY <1>4, <1>5
  <2>2. QED
      BY <2>1 DEF Tables
<1>7. shown \in Tables(NegotiationIds, Status)
  <2>1. DOMAIN messages \subseteq NegotiationIds
      BY <1>1, Kinds
  <2>2. /\ shown \in [MessagesOf(R) -> Status]
        /\ MessagesOf(R) \subseteq NegotiationIds
      BY <2>1 DEF Status, MessagesOf
  <2>3. QED
      BY <2>2 DEF Tables
<1>8. \A x \in R :
         rows[x].post = offers[x].post /\ rows[x].status = "rejected"
    BY <1>5
<1>9. w' = [w EXCEPT ![r].offers = rows \oplus w[r].offers,
                     ![r].messages = shown \oplus w[r].messages]
    BY <1>1 DEF RejectRivals, TypeOK, WriteSets
<1> HIDE DEF rows, shown, row, done, R, o
<1>10. /\ rows \oplus w[r].offers \in Tables(OfferIds, OfferRow)
       /\ DOMAIN (rows \oplus w[r].offers) = R \cup DOMAIN w[r].offers
       /\ \A x \in R : (rows \oplus w[r].offers)[x] = rows[x]
       /\ \A x \in DOMAIN w[r].offers \ R :
              (rows \oplus w[r].offers)[x] = w[r].offers[x]
  <2>1. w[r].offers \in Tables(OfferIds, OfferRow)
      BY <1>1, Kinds
  <2>2. rows \oplus w[r].offers \in Tables(OfferIds, OfferRow)
      BY <1>6, <2>1, Overlay
  <2>3. QED
      BY <1>6, <2>2, OverlayRows
<1>11. shown \oplus w[r].messages \in Tables(NegotiationIds, Status)
  <2>1. w[r].messages \in Tables(NegotiationIds, Status)
      BY <1>1, Kinds
  <2>2. QED
      BY <1>7, <2>1, Overlay
<1>12. /\ w' \in [Requests -> WriteSets]
       /\ \A s \in Requests \ {r} : w'[s] = w[s]
       /\ w'[r].offers = rows \oplus w[r].offers
       /\ w'[r].negotiations = w[r].negotiations
       /\ w'[r].posts = w[r].posts
  <2>1. ASSUME NEW X \in Tables(OfferIds, OfferRow),
               NEW Y \in Tables(NegotiationIds, Status),
               w' = [w EXCEPT ![r].offers = X, ![r].messages = Y]
        PROVE  /\ w' \in [Requests -> WriteSets]
               /\ \A s \in Requests \ {r} : w'[s] = w[s]
               /\ w'[r].offers = X
               /\ w'[r].negotiations = w[r].negotiations
               /\ w'[r].posts = w[r].posts
      BY <1>1, <2>1 DEF TypeOK, WriteSets
  <2>2. QED
      BY <1>9, <1>10, <1>11, <2>1
<1>13. pc'[r] = "see_others_negs"
    BY <1>1, <1>2 DEF TypeOK
<1>14. LocalsInv(r)' /\ PostWritesInv(r)'
    BY <1>1, <1>2, <1>12, <1>13 DEF LocalsInv, PostWritesInv, Negotiating,
       Creating, AcceptLabels, AcceptOps, Ops, tables
<1>15. OfferWritesInv(r)'
  <2> SUFFICES ASSUME NEW x \in DOMAIN w'[r].offers
               PROVE  LET y == w'[r].offers[x] IN
                      /\ x \in DOMAIN offers => y.post = offers[x].post
                      /\ x \notin DOMAIN offers => Creating(r) /\ x = req[r].offer
                      /\ y.status = "accepted" =>
                            \/ posts[y.post] = "fulfilled"
                            \/ req[r].op \in AcceptOps /\ x = req[r].offer
      BY <1>2 DEF OfferWritesInv, Creating, tables
  <2>1. CASE x \in R
      BY <1>3, <1>8, <1>10, <1>12, <2>1
  <2>2. CASE x \notin R
      BY <1>1, <1>10, <1>12, <2>2 DEF OfferWritesInv
  <2>3. QED
      BY <2>1, <2>2
<1>16. NegotiationWritesInv(r)'
    BY <1>1, <1>2, <1>12 DEF NegotiationWritesInv, Negotiating, tables
<1>17. CounterInv(r)'
    BY <1>1, <1>2, <1>3, <1>10, <1>12, <1>13 DEF CounterInv, tables, o
<1>18. \A s \in Requests \ {r} :
          DOMAIN w'[r].negotiations \cap DOMAIN w[s].negotiations = {}
    BY <1>1, <1>12 DEF NegotiationLocks
<1>19. "see_others_negs" \in Labels
    BY DEF Labels
<1>20. QED
    BY <1>2, <1>12, <1>14, <1>15, <1>16, <1>17, <1>18, <1>19, WriteStep

-----------------------------------------------------------------------------
(* Statements that commit on their own, and the ends of a request. *)

LEMMA PublishInv ==
    ASSUME IInv, NEW r \in Requests, Publish(r)
    PROVE  IInv'
<1>1. /\ TypeOK /\ LocalsInv(r) /\ OfferWritesInv(r) /\ NegotiationWritesInv(r)
      /\ PostWritesInv(r) /\ CounterInv(r) /\ NegotiationLocks
    BY DEF IInv
<1>2. /\ pc[r] = "publish" /\ pc' = [pc EXCEPT ![r] = "commit"] /\ pc'[r] = "commit"
      /\ UNCHANGED <<tables, req, w>> /\ sent' = Published(r)
    BY <1>1 DEF Publish, TypeOK, tables
<1>3. req[r].op \in Ops /\ req[r].offer \in OfferIds /\ DOMAIN w[r].offers \subseteq OfferIds
    BY <1>1, <1>2, Kinds DEF LocalsInv
<1>4. sent' \subseteq Events
  <2>1. ASSUME NEW id \in OfferIds
        PROVE  /\ Event("offer_created", "New Offer", id) \in Events
               /\ Event("offer_updated", "Offer updated", id) \in Events
               /\ Event("offer_accepted", "New Negotiation", id) \in Events
               /\ Event("offer_accepted", "Offer was accepted", id) \in Events
               /\ Event("offer_rejected", "Offer was rejected", id) \in Events
      BY DEF Event, Events
  <2>2. CASE req[r].op \in AcceptOps
      BY <1>2, <1>3, <2>1, <2>2 DEF Published, AcceptOps
  <2>3. CASE req[r].op \notin AcceptOps
      BY <1>2, <1>3, <2>1, <2>3 DEF Published, Ops
  <2>4. QED
      BY <2>2, <2>3
<1>5. LocalsInv(r)' /\ CounterInv(r)' /\ PostWritesInv(r)'
    BY <1>1, <1>2 DEF LocalsInv, CounterInv, PostWritesInv, Negotiating, Creating,
       AcceptLabels, tables
<1>6. OfferWritesInv(r)' /\ NegotiationWritesInv(r)'
    BY <1>1, <1>2 DEF OfferWritesInv, NegotiationWritesInv, Negotiating, Creating, tables
<1>7. /\ w' \in [Requests -> WriteSets]
      /\ \A s \in Requests \ {r} : w'[s] = w[s]
      /\ \A s \in Requests \ {r} :
          DOMAIN w'[r].negotiations \cap DOMAIN w[s].negotiations = {}
      /\ "commit" \in Labels
    BY <1>1, <1>2 DEF TypeOK, NegotiationLocks, Labels
<1>8. QED
    BY <1>2, <1>4, <1>5, <1>6, <1>7, WriteStep

(* A statement on the database client that changes an offer, whose post it *)
(* keeps and which it does not accept.                                     *)
LEMMA OfferChangedInv ==
    ASSUME IInv, NEW r \in Requests, pc[r] \in {"update", "reject"},
           offers' \in Tables(OfferIds, OfferRow),
           DOMAIN offers' = DOMAIN offers,
           \A x \in DOMAIN offers :
              /\ offers'[x].post = offers[x].post
              /\ offers'[x].status \in {offers[x].status, "rejected"},
           pc' = [pc EXCEPT ![r] = "publish"], sent' = {},
           UNCHANGED <<posts, negotiations, messages, req, w>>
    PROVE  IInv'
<1>1. /\ TypeOK /\ DealClosesPost /\ NegotiationsHaveOffers /\ FreshIds /\ NegotiationLocks
    BY DEF IInv
<1>2. TypeOK'
    BY <1>1 DEF TypeOK, Labels
<1>3. ASSUME NEW s \in Requests
      PROVE  LocalsInv(s)' /\ OfferWritesInv(s)' /\ NegotiationWritesInv(s)'
                /\ PostWritesInv(s)' /\ CounterInv(s)'
  <2>1. LocalsInv(s) /\ OfferWritesInv(s) /\ NegotiationWritesInv(s)
           /\ PostWritesInv(s) /\ CounterInv(s)
      BY DEF IInv
  <2>2. pc'[s] = IF s = r THEN "publish" ELSE pc[s]
      BY <1>1 DEF TypeOK
  <2>3. s = r => req[s].op \in {"update_offer", "reject_offer"}
      BY <2>1 DEF LocalsInv
  <2>4. LocalsInv(s)'
      BY <2>1, <2>2, <2>3 DEF LocalsInv, Negotiating, Creating, AcceptLabels, AcceptOps, Ops
  <2>5. OfferWritesInv(s)' /\ NegotiationWritesInv(s)'
      BY <2>1 DEF OfferWritesInv, NegotiationWritesInv, Negotiating, Creating
  <2>6. req[s].op \in AcceptOps => req[s].offer \in DOMAIN offers
      BY <2>1 DEF LocalsInv, AcceptOps, Ops
  <2>7. PostWritesInv(s)'
      BY <2>1, <2>2, <2>3, <2>6 DEF PostWritesInv, AcceptOps
  <2>8. CounterInv(s)'
      BY <2>1, <2>2, <2>3 DEF CounterInv
  <2>9. QED
      BY <2>4, <2>5, <2>7, <2>8
<1>4. FreshIds' /\ NegotiationLocks'
    BY <1>1 DEF FreshIds, NegotiationLocks, Negotiating, Creating
<1>5. NegotiationsHaveOffers'
    BY <1>1 DEF NegotiationsHaveOffers
<1>6. DealClosesPost'
    BY <1>1 DEF DealClosesPost, PostOf, NegotiationsHaveOffers
<1>7. QED
    BY <1>2, <1>3, <1>4, <1>5, <1>6 DEF IInv

(* The same, of a statement that replaces one row. *)
LEMMA OneOfferChangedInv ==
    ASSUME IInv, NEW r \in Requests, pc[r] \in {"update", "reject"},
           NEW o \in DOMAIN offers, NEW row \in OfferRow,
           row.post = offers[o].post, row.status \in {offers[o].status, "rejected"},
           offers' = [offers EXCEPT ![o] = row],
           pc' = [pc EXCEPT ![r] = "publish"], sent' = {},
           UNCHANGED <<posts, negotiations, messages, req, w>>
    PROVE  IInv'
<1>1. offers \in Tables(OfferIds, OfferRow)
    BY DEF IInv, TypeOK
<1>2. /\ offers' \in Tables(OfferIds, OfferRow)
      /\ DOMAIN offers' = DOMAIN offers
      /\ offers'[o] = row
      /\ \A x \in DOMAIN offers \ {o} : offers'[x] = offers[x]
    BY <1>1, ChangedRow
<1>3. \A x \in DOMAIN offers :
         /\ offers'[x].post = offers[x].post
         /\ offers'[x].status \in {offers[x].status, "rejected"}
    BY <1>2
<1>4. QED
    BY <1>2, <1>3, OfferChangedInv

LEMMA UpdateOfferInv ==
    ASSUME IInv, NEW r \in Requests, UpdateOffer(r)
    PROVE  IInv'
<1> DEFINE o == req[r].offer
<1>1. TypeOK /\ LocalsInv(r)
    BY DEF IInv
<1>2. /\ pc[r] = "update" /\ pc' = [pc EXCEPT ![r] = "publish"] /\ sent' = {}
      /\ UNCHANGED <<posts, negotiations, messages, req, w>>
    BY DEF UpdateOffer
<1>3. PICK price \in Prices : offers' = [offers EXCEPT ![o].price = price]
    BY DEF UpdateOffer
<1>4. o \in DOMAIN offers
    BY <1>1, <1>2 DEF LocalsInv, Ops
<1>5. offers[o] \in OfferRow
    BY <1>1, <1>4, Kinds
<1> DEFINE row == [offers[o] EXCEPT !.price = price]
<1>6. row \in OfferRow /\ row.post = offers[o].post /\ row.status = offers[o].status
    BY <1>5 DEF OfferRow
<1>7. offers' = [offers EXCEPT ![o] = row]
    BY <1>3, <1>4
<1> HIDE DEF row
<1>8. QED
    BY <1>2, <1>4, <1>6, <1>7, OneOfferChangedInv

LEMMA RejectOfferInv ==
    ASSUME IInv, NEW r \in Requests, RejectOffer(r)
    PROVE  IInv'
<1> DEFINE o == req[r].offer
           row == [offers[o] EXCEPT !.status = "rejected",
                                    !.negotiation_status = "completed"]
<1>1. TypeOK /\ LocalsInv(r)
    BY DEF IInv
<1>2. /\ pc[r] = "reject" /\ pc' = [pc EXCEPT ![r] = "publish"] /\ sent' = {}
      /\ UNCHANGED <<posts, negotiations, messages, req, w>>
    BY DEF RejectOffer
<1>3. o \in DOMAIN offers
    BY <1>1, <1>2 DEF LocalsInv, Ops
<1>4. offers[o] \in OfferRow
    BY <1>1, <1>3, Kinds
<1>5. row \in OfferRow /\ row.post = offers[o].post /\ row.status = "rejected"
    BY <1>4 DEF OfferRow, Status
<1>6. offers' = [offers EXCEPT ![o] = row]
  <2>1. offers \in [DOMAIN offers -> OfferRow]
      BY <1>1, TableIsFunction DEF TypeOK
  <2>2. offers' = [offers EXCEPT ![o].status = "rejected",
                                 ![o].negotiation_status = "completed"]
      BY DEF RejectOffer
  <2>3. QED
      BY <1>3, <2>1, <2>2
<1> HIDE DEF row
<1>7. QED
    BY <1>2, <1>3, <1>5, <1>6, OneOfferChangedInv


LEMMA FailInv ==
    ASSUME IInv, NEW r \in Requests, Fail(r)
    PROVE  IInv'
BY EndInv DEF Fail

(* What a COMMIT leaves as it was: rows keep the post, the offer and the    *)
(* price they have, accepted rows their acceptance, and posts stay closed. *)
LEMMA CommitKeeps ==
    ASSUME IInv, NEW r \in Requests, Commit(r)
    PROVE  /\ DOMAIN offers' = DOMAIN w[r].offers \cup DOMAIN offers
           /\ \A o \in DOMAIN w[r].offers : offers'[o] = w[r].offers[o]
           /\ \A o \in DOMAIN offers \ DOMAIN w[r].offers : offers'[o] = offers[o]
           /\ \A o \in DOMAIN offers : offers'[o].post = offers[o].post
           /\ DOMAIN negotiations' = DOMAIN w[r].negotiations \cup DOMAIN negotiations
           /\ \A n \in DOMAIN w[r].negotiations : negotiations'[n] = w[r].negotiations[n]
           /\ \A n \in DOMAIN negotiations \ DOMAIN w[r].negotiations :
                  negotiations'[n] = negotiations[n]
           /\ \A n \in DOMAIN negotiations :
                  /\ negotiations'[n].offer = negotiations[n].offer
                  /\ negotiations'[n].price = negotiations[n].price
           /\ \A p \in PostIds :
                  posts[p] = "fulfilled" \/ p \in DOMAIN w[r].posts => posts'[p] = "fulfilled"
<1>1. /\ TypeOK /\ OfferWritesInv(r) /\ NegotiationWritesInv(r) /\ PostWritesInv(r)
    BY DEF IInv
<1>2. /\ DOMAIN offers' = DOMAIN w[r].offers \cup DOMAIN offers
      /\ \A o \in DOMAIN w[r].offers : offers'[o] = w[r].offers[o]
      /\ \A o \in DOMAIN offers \ DOMAIN w[r].offers : offers'[o] = offers[o]
  <2>1. offers' = w[r].offers \oplus offers
      BY DEF Commit
  <2>2. QED
      BY <2>1 DEF \oplus
<1>3. /\ DOMAIN negotiations' = DOMAIN w[r].negotiations \cup DOMAIN negotiations
      /\ \A n \in DOMAIN w[r].negotiations : negotiations'[n] = w[r].negotiations[n]
      /\ \A n \in DOMAIN negotiations \ DOMAIN w[r].negotiations :
             negotiations'[n] = negotiations[n]
  <2>1. negotiations' = w[r].negotiations \oplus negotiations
      BY DEF Commit
  <2>2. QED
      BY <2>1 DEF \oplus
<1>4. /\ \A p \in DOMAIN w[r].posts : posts'[p] = "fulfilled"
      /\ \A p \in PostIds \ DOMAIN w[r].posts : posts'[p] = posts[p]
  <2>1. posts' = w[r].posts \oplus posts
      BY DEF Commit
  <2>2. DOMAIN posts = PostIds /\ \A p \in DOMAIN w[r].posts : w[r].posts[p] = "fulfilled"
      BY <1>1 DEF TypeOK, PostWritesInv
  <2>3. QED
      BY <2>1, <2>2 DEF \oplus
<1>5. \A o \in DOMAIN offers : offers'[o].post = offers[o].post
    BY <1>1, <1>2 DEF OfferWritesInv
<1>6. \A n \in DOMAIN negotiations :
         /\ negotiations'[n].offer = negotiations[n].offer
         /\ negotiations'[n].price = negotiations[n].price
    BY <1>1, <1>3 DEF NegotiationWritesInv
<1>7. QED
    BY <1>2, <1>3, <1>4, <1>5, <1>6

LEMMA CommitInv ==
    ASSUME IInv, NEW r \in Requests, Commit(r)
    PROVE  IInv'
<1>1. /\ TypeOK /\ FreshIds /\ NegotiationLocks /\ NegotiationsHaveOffers /\ DealClosesPost
      /\ LocalsInv(r) /\ OfferWritesInv(r) /\ NegotiationWritesInv(r) /\ PostWritesInv(r)
    BY DEF IInv
<1>2. /\ pc[r] = "commit" /\ End(r) /\ sent' = {}
      /\ posts' = w[r].posts \oplus posts
      /\ offers' = w[r].offers \oplus offers
      /\ negotiations' = w[r].negotiations \oplus negotiations
      /\ messages' = w[r].messages \oplus messages
    BY DEF Commit
<1>3. NoLocals \in Locals /\ NoWrites \in WriteSets
    BY NoRowsIsTable, BoundAssumption DEF NoLocals, Locals, NoWrites, WriteSets
<1>4. /\ pc' \in [Requests -> Labels]
      /\ req' \in [Requests -> Locals]
      /\ w' \in [Requests -> WriteSets]
      /\ pc'[r] = "idle" /\ req'[r] = NoLocals /\ w'[r] = NoWrites
      /\ \A s \in Requests \ {r} : pc'[s] = pc[s] /\ req'[s] = req[s] /\ w'[s] = w[s]
    BY <1>1, <1>2, <1>3 DEF End, TypeOK, Labels
<1>5. /\ DOMAIN w'[r].posts = {}
      /\ DOMAIN w'[r].offers = {}
      /\ DOMAIN w'[r].negotiations = {}
      /\ req'[r].op = "none"
    BY <1>4, NoRowsIsTable DEF NoWrites, NoLocals
<1>6. /\ DOMAIN offers' = DOMAIN w[r].offers \cup DOMAIN offers
      /\ \A o \in DOMAIN w[r].offers : offers'[o] = w[r].offers[o]
      /\ \A o \in DOMAIN offers \ DOMAIN w[r].offers : offers'[o] = offers[o]
    BY CommitKeeps
<1>7. /\ DOMAIN negotiations' = DOMAIN w[r].negotiations \cup DOMAIN negotiations
      /\ \A n \in DOMAIN w[r].negotiations : negotiations'[n] = w[r].negotiations[n]
      /\ \A n \in DOMAIN negotiations \ DOMAIN w[r].negotiations :
             negotiations'[n] = negotiations[n]
    BY CommitKeeps
<1>8. \A o \in DOMAIN offers : offers'[o].post = offers[o].post
    BY CommitKeeps
<1>9. \A n \in DOMAIN negotiations :
         /\ negotiations'[n].offer = negotiations[n].offer
         /\ negotiations'[n].price = negotiations[n].price
    BY CommitKeeps
<1>10. \A p \in PostIds :
          posts[p] = "fulfilled" \/ p \in DOMAIN w[r].posts => posts'[p] = "fulfilled"
    BY CommitKeeps
<1>11. \A o \in DOMAIN w[r].offers \ DOMAIN offers : Creating(r) /\ o = req[r].offer
    BY <1>1 DEF OfferWritesInv
<1>12. \A n \in DOMAIN w[r].negotiations \ DOMAIN negotiations :
          Negotiating(r) /\ n = req[r].neg
    BY <1>1 DEF NegotiationWritesInv
<1>13. TypeOK'
  <2>1. /\ w[r].offers \in Tables(OfferIds, OfferRow)
        /\ w[r].negotiations \in Tables(NegotiationIds, NegotiationRow)
        /\ w[r].messages \in Tables(NegotiationIds, Status)
        /\ w[r].posts \in Tables(PostIds, RequestStatus)
      BY <1>1, Kinds
  <2>2. offers' \in Tables(OfferIds, OfferRow)
      BY <1>1, <1>2, <2>1, Overlay DEF TypeOK
  <2>3. negotiations' \in Tables(NegotiationIds, NegotiationRow)
      BY <1>1, <1>2, <2>1, Overlay DEF TypeOK
  <2>4. messages' \in Tables(NegotiationIds, Status)
      BY <1>1, <1>2, <2>1, Overlay DEF TypeOK
  <2>5. posts' \in [PostIds -> RequestStatus]
    <3>1. w[r].posts \in [DOMAIN w[r].posts -> RequestStatus] /\ DOMAIN w[r].posts \subseteq PostIds
        BY <2>1, TableIsFunction
    <3>2. QED
        BY <1>1, <1>2, <3>1 DEF TypeOK, \oplus
  <2>6. QED
      BY <1>2, <1>4, <2>2, <2>3, <2>4, <2>5 DEF TypeOK
<1>14. LocalsInv(r)' /\ CounterInv(r)' /\ OfferWritesInv(r)' /\ NegotiationWritesInv(r)'
          /\ PostWritesInv(r)'
  <2>1. LocalsInv(r)' /\ CounterInv(r)'
      BY <1>4, <1>5 DEF LocalsInv, CounterInv, Negotiating, Creating, Ops, AcceptOps, AcceptLabels
  <2>2. OfferWritesInv(r)' /\ NegotiationWritesInv(r)' /\ PostWritesInv(r)'
      BY <1>4, <1>5 DEF OfferWritesInv, NegotiationWritesInv, PostWritesInv, AcceptOps
  <2>3. QED
      BY <2>1, <2>2
<1>15. ASSUME NEW s \in Requests \ {r}
       PROVE  LocalsInv(s)' /\ CounterInv(s)' /\ OfferWritesInv(s)' /\ NegotiationWritesInv(s)'
                 /\ PostWritesInv(s)'
  <2>1. /\ LocalsInv(s) /\ OfferWritesInv(s) /\ NegotiationWritesInv(s)
        /\ PostWritesInv(s) /\ CounterInv(s)
      BY DEF IInv
  <2>2. pc'[s] = pc[s] /\ req'[s] = req[s] /\ w'[s] = w[s]
      BY <1>4
  <2>3. Creating(s) => req[s].offer \notin DOMAIN offers'
      BY <1>1, <1>6, <1>11, <2>1 DEF FreshIds, LocalsInv
  <2>4. Negotiating(s) => req[s].neg \notin DOMAIN negotiations'
      BY <1>1, <1>7, <1>12, <2>1 DEF FreshIds, LocalsInv
  <2>5. LocalsInv(s)'
    <3>1. req[s].op \in Ops \ {"create_offer"} => req[s].offer \in DOMAIN offers'
        BY <1>6, <2>1 DEF LocalsInv
    <3>2. req[s].op \in AcceptOps /\ req[s].neg # 0 =>
             /\ req[s].neg \in DOMAIN negotiations'
             /\ negotiations'[req[s].neg].offer = req[s].offer
        BY <1>7, <1>9, <2>1 DEF LocalsInv
    <3>3. QED
        BY <2>1, <2>2, <2>3, <2>4, <3>1, <3>2 DEF LocalsInv, Negotiating, Creating
  <2>6. OfferWritesInv(s)'
    <3> SUFFICES ASSUME NEW o \in DOMAIN w[s].offers
                 PROVE  LET row == w[s].offers[o] IN
                        /\ o \in DOMAIN offers' => row.post = offers'[o].post
                        /\ o \notin DOMAIN offers' => Creating(s) /\ o = req[s].offer
                        /\ row.status = "accepted" =>
                              \/ posts'[row.post] = "fulfilled"
                              \/ req[s].op \in AcceptOps /\ o = req[s].offer
        BY <2>2 DEF OfferWritesInv, Creating
    <3>1. w[s].offers[o].post \in PostIds
        BY <1>1, Kinds DEF OfferRow
    <3>2. CASE o \in DOMAIN offers
        BY <1>6, <1>8, <1>10, <2>1, <3>1, <3>2 DEF OfferWritesInv
    <3>3. CASE o \notin DOMAIN offers
        BY <1>6, <1>10, <2>1, <2>3, <3>1, <3>3 DEF OfferWritesInv
    <3>4. QED
        BY <3>2, <3>3
  <2>7. NegotiationWritesInv(s)'
    <3> SUFFICES ASSUME NEW n \in DOMAIN w[s].negotiations
                 PROVE  LET row == w[s].negotiations[n] IN
                        /\ row.offer \in DOMAIN offers'
                        /\ n \in DOMAIN negotiations' =>
                              /\ row.offer = negotiations'[n].offer
                              /\ row.price = negotiations'[n].price
                              /\ row.status = "accepted" \/ negotiations'[n].status = "pending"
                        /\ n \notin DOMAIN negotiations' => Negotiating(s) /\ n = req[s].neg
                        /\ row.status = "accepted" =>
                              req[s].op \in AcceptOps /\ row.offer = req[s].offer
        BY <2>2 DEF NegotiationWritesInv, Negotiating
    <3>1. n \notin DOMAIN w[r].negotiations
        BY <1>1 DEF NegotiationLocks
    <3>2. CASE n \in DOMAIN negotiations
        BY <1>6, <1>7, <2>1, <3>1, <3>2 DEF NegotiationWritesInv
    <3>3. CASE n \notin DOMAIN negotiations
        BY <1>6, <1>7, <2>1, <3>1, <3>3 DEF NegotiationWritesInv
    <3>4. QED
        BY <3>2, <3>3
  <2>8. PostWritesInv(s)'
    <3>1. req[s].op \in AcceptOps => req[s].offer \in DOMAIN offers
        BY <2>1 DEF LocalsInv, AcceptOps, Ops
    <3>2. QED
        BY <1>8, <2>1, <2>2, <3>1 DEF PostWritesInv
  <2>9. CounterInv(s)'
    <3>1. req[s].op = "accept_counter_offer" /\ req[s].neg # 0 =>
             negotiations'[req[s].neg].price = negotiations[req[s].neg].price
        BY <1>9, <2>1 DEF LocalsInv, AcceptOps
    <3>2. QED
        BY <2>1, <2>2, <3>1 DEF CounterInv
  <2>10. QED
      BY <2>5, <2>6, <2>7, <2>8, <2>9
<1>16. FreshIds'
  <2>1. \A s \in Requests \ {r} : Creating(s) => req[s].offer \in OfferIds
    <3>1. \A s \in Requests : LocalsInv(s)
        BY DEF IInv
    <3>2. QED
        BY <3>1 DEF LocalsInv, Creating, NoLocals
  <2>2. req'[r].op = "none" /\ req'[r].offer \notin OfferIds
      BY <1>4, NullAssumption DEF NoLocals
  <2>3. QED
      BY <1>1, <1>4, <2>1, <2>2 DEF FreshIds, Negotiating, Creating
<1>17. NegotiationLocks'
    BY <1>1, <1>4, <1>5 DEF NegotiationLocks
<1>18. NegotiationsHaveOffers'
    BY <1>1, <1>6, <1>7 DEF NegotiationsHaveOffers, NegotiationWritesInv
<1>19. req[r].op \in AcceptOps =>
          /\ req[r].offer \in DOMAIN offers
          /\ posts'[offers[req[r].offer].post] = "fulfilled"
  <2>1. req[r].op \in AcceptOps => /\ req[r].offer \in DOMAIN offers
                                  /\ offers[req[r].offer].post \in DOMAIN w[r].posts
      BY <1>1, <1>2 DEF LocalsInv, PostWritesInv, AcceptOps, Ops
  <2>2. DOMAIN w[r].posts \subseteq PostIds
      BY <1>1, Kinds
  <2>3. QED
      BY <1>10, <2>1, <2>2
<1>20. ASSUME NEW o \in DOMAIN offers', offers'[o].status = "accepted"
       PROVE  posts'[offers'[o].post] = "fulfilled"
  <2>1. CASE o \in DOMAIN w[r].offers
    <3>1. w[r].offers[o].post \in PostIds
        BY <1>1, <2>1, Kinds DEF OfferRow
    <3>2. \/ posts[w[r].offers[o].post] = "fulfilled"
          \/ req[r].op \in AcceptOps /\ o = req[r].offer
        BY <1>1, <1>6, <1>20, <2>1 DEF OfferWritesInv
    <3>3. QED
        BY <1>6, <1>8, <1>10, <1>19, <2>1, <3>1, <3>2
  <2>2. CASE o \notin DOMAIN w[r].offers
    <3>1. o \in DOMAIN offers /\ offers'[o] = offers[o]
        BY <1>6, <2>2
    <3>2. offers[o].post \in PostIds
        BY <1>1, <3>1, Kinds DEF OfferRow
    <3>3. QED
        BY <1>1, <1>10, <1>20, <3>1, <3>2 DEF DealClosesPost
  <2>3. QED
      BY <2>1, <2>2
<1>21. ASSUME NEW n \in DOMAIN negotiations', negotiations'[n].status = "accepted"
       PROVE  posts'[offers'[negotiations'[n].offer].post] = "fulfilled"
  <2>1. CASE n \in DOMAIN w[r].negotiations
    <3>1. req[r].op \in AcceptOps /\ negotiations'[n].offer = req[r].offer
        BY <1>1, <1>7, <1>21, <2>1 DEF NegotiationWritesInv
    <3>2. QED
        BY <1>8, <1>19, <3>1
  <2>2. CASE n \notin DOMAIN w[r].negotiations
    <3>1. n \in DOMAIN negotiations /\ negotiations'[n] = negotiations[n]
        BY <1>7, <2>2
    <3>2. /\ negotiations[n].offer \in DOMAIN offers
          /\ posts[offers[negotiations[n].offer].post] = "fulfilled"
        BY <1>1, <1>21, <3>1 DEF DealClosesPost, PostOf, NegotiationsHaveOffers
    <3>3. offers[negotiations[n].offer].post \in PostIds
        BY <1>1, <3>2, Kinds DEF OfferRow
    <3>4. QED
        BY <1>8, <1>10, <3>1, <3>2, <3>3
  <2>3. QED
      BY <2>1, <2>2
<1>22. DealClosesPost'
    BY <1>20, <1>21 DEF DealClosesPost, PostOf
<1>23. QED
    BY <1>13, <1>14, <1>15, <1>16, <1>17, <1>18, <1>22 DEF IInv


-----------------------------------------------------------------------------
(* The invariant is inductive. *)

LEMMA NextInv == IInv /\ [Next]_vars => IInv'
<1> SUFFICES ASSUME IInv, [Next]_vars PROVE IInv'
    OBVIOUS
<1>1. ASSUME NEW r \in Requests, Arrive(r) PROVE IInv'
  <2>1. ASSUME NEW o \in OfferIds, NEW p \in PostIds, NEW u \in Users,
               NEW price \in Prices, CreateOffer(r, o, p, u, price)
        PROVE  IInv'
      BY <2>1, CreateOfferInv
  <2>2. ASSUME NEW o \in DOMAIN offers, NEW u \in Users, NEW price \in Prices,
               NEW n \in NegotiationIds, NegotiateStart(r, o, u, price, n)
        PROVE  IInv'
      BY <2>2, NegotiateStartInv
  <2>3. ASSUME NEW o \in DOMAIN offers, NEW u \in Users,
               \/ UpdateOfferCheck(r, o, u) \/ RejectOfferCheck(r, o, u)
               \/ AcceptOfferCheck(r, o, u) \/ AcceptCounterCheck(r, o, u)
        PROVE  IInv'
    <3>1. CASE UpdateOfferCheck(r, o, u)
        BY <3>1, CheckPendingInv DEF UpdateOfferCheck
    <3>2. CASE RejectOfferCheck(r, o, u)
        BY <3>2, CheckPendingInv DEF RejectOfferCheck
    <3>3. CASE AcceptOfferCheck(r, o, u)
        BY <3>3, CheckPendingInv DEF AcceptOfferCheck
    <3>4. CASE AcceptCounterCheck(r, o, u)
        BY <3>4, CheckPendingInv DEF AcceptCounterCheck
    <3>5. QED
        BY <2>3, <3>1, <3>2, <3>3, <3>4
  <2>4. QED
      BY <1>1, <2>1, <2>2, <2>3 DEF Arrive
<1>2. ASSUME NEW r \in Requests, Step(r) PROVE IInv'
  <2>1. CASE NegotiateUpdateOffer(r) \/ NegotiateInsert(r)
      BY <2>1, NegotiateUpdateOfferInv, NegotiateInsertInv
  <2>2. CASE UpdateOffer(r) \/ RejectOffer(r)
      BY <2>2, UpdateOfferInv, RejectOfferInv
  <2>3. CASE AcceptOffer(r) \/ PickLatest(r)
      BY <2>3, AcceptOfferInv, PickLatestInv
  <2>4. CASE PickCounter(r) \/ AcceptCounter(r)
      BY <2>4, PickCounterInv, AcceptCounterInv
  <2>5. CASE AcceptNegotiation(r) \/ RejectOtherNegotiations(r)
      BY <2>5, AcceptNegotiationInv, RejectOtherNegotiationsInv
  <2>6. CASE \/ SeeRivals(r) \/ SeeOthersNegotiations(r)
             \/ RejectRivals(r) \/ RejectOthersNegotiations(r)
      BY <2>6, SeeStepsInv, RejectRivalsInv, RejectOthersNegotiationsInv
  <2>7. CASE FulfilPost(r) \/ Publish(r) \/ Commit(r)
      BY <2>7, FulfilPostInv, PublishInv, CommitInv
  <2>8. QED
      BY <1>2, <2>1, <2>2, <2>3, <2>4, <2>5, <2>6, <2>7 DEF Step
<1>3. ASSUME NEW r \in Requests, Fail(r) PROVE IInv'
    BY <1>3, FailInv
<1>4. CASE UNCHANGED vars
    BY <1>4 DEF vars, IInv, TypeOK, FreshIds, NegotiationLocks, NegotiationsHaveOffers,
       DealClosesPost, PostOf, LocalsInv, OfferWritesInv, NegotiationWritesInv,
       PostWritesInv, CounterInv, Negotiating, Creating
<1>5. QED
    BY <1>1, <1>2, <1>3, <1>4 DEF Next

(* Every state the handlers can bring about satisfies the invariant. *)
THEOREM Invariance == Spec => []IInv
<1>1. IInv /\ [Next]_vars => IInv'
    BY NextInv
<1>2. Init => IInv
    BY InitInv
<1>3. QED
    BY <1>1, <1>2, PTL DEF Spec

(* The tables, the locals and the write sets keep their types. *)
THEOREM TypeCorrect == Spec => []TypeOK
<1>1. IInv => TypeOK
    BY DEF IInv
<1>2. QED
    BY <1>1, Invariance, PTL

(* A committed acceptance is never seen without the fulfilment of its post, *)
(* for any number of requests on any number of offers and posts: the         *)
(* transactions of accept_offer and accept_counter_offer are atomic.         *)
THEOREM DealsClosePosts == Spec => []DealClosesPost
<1>1. IInv => DealClosesPost
    BY DEF IInv
<1>2. QED
    BY <1>1, Invariance, PTL

(* Nothing rejects, re-prices or removes an accepted negotiation: the row    *)
(* locks make status = 'pending' in the rejections true when they commit.    *)
THEOREM AcceptedStaysAccepted == Spec => AcceptedNegotiationIsFinal
<1> DEFINE Final == \A n \in DOMAIN negotiations :
                       negotiations[n].status = "accepted" =>
                          n \in DOMAIN negotiations' /\ negotiations'[n] = negotiations[n]
<1>1. IInv /\ [Next]_vars => Final \/ UNCHANGED vars
  <2> SUFFICES ASSUME IInv, [Next]_vars, ~ UNCHANGED vars PROVE Final
      OBVIOUS
  <2>1. ASSUME UNCHANGED negotiations PROVE Final
      BY <2>1
  <2>2. ASSUME NEW r \in Requests, Commit(r) PROVE Final
    <3>1. NegotiationWritesInv(r) /\ TypeOK
        BY DEF IInv
    <3>2. /\ DOMAIN negotiations' = DOMAIN w[r].negotiations \cup DOMAIN negotiations
          /\ \A n \in DOMAIN w[r].negotiations : negotiations'[n] = w[r].negotiations[n]
          /\ \A n \in DOMAIN negotiations \ DOMAIN w[r].negotiations :
                 negotiations'[n] = negotiations[n]
        BY <2>2, CommitKeeps
    <3>3. ASSUME NEW n \in DOMAIN negotiations, negotiations[n].status = "accepted",
                 n \in DOMAIN w[r].negotiations
          PROVE  w[r].negotiations[n] = negotiations[n]
      <4>1. w[r].negotiations[n] \in NegotiationRow /\ negotiations[n] \in NegotiationRow
          BY <3>1, <3>3, Kinds
      <4>2. /\ w[r].negotiations[n].offer = negotiations[n].offer
            /\ w[r].negotiations[n].price = negotiations[n].price
            /\ w[r].negotiations[n].status = "accepted"
          BY <3>1, <3>3 DEF NegotiationWritesInv
      <4>3. QED
          BY <3>3, <4>1, <4>2 DEF NegotiationRow
    <3>4. QED
        BY <3>2, <3>3
  <2>3. ASSUME NEW r \in Requests, Step(r), ~ Commit(r) PROVE UNCHANGED negotiations
      BY <2>3 DEF Step, NegotiateUpdateOffer, NegotiateInsert, UpdateOffer, RejectOffer,
         AcceptOffer, PickLatest, PickCounter, AcceptCounter, AcceptNegotiation,
         RejectOtherNegotiations, SeeRivals, SeeOthersNegotiations, See, RejectRivals,
         RejectOthersNegotiations,
         RejectNegotiations, FulfilPost, Publish, Then, tables
  <2>4. ASSUME NEW r \in Requests, Arrive(r) \/ Fail(r) PROVE UNCHANGED negotiations
      BY <2>4 DEF Arrive, CreateOffer, NegotiateStart, UpdateOfferCheck, RejectOfferCheck,
         AcceptOfferCheck, AcceptCounterCheck, CheckPending, Begin, Then, Fail, tables
  <2>5. QED
      BY <2>1, <2>2, <2>3, <2>4 DEF Next
<1>2. QED
    BY <1>1, Invariance, PTL DEF Spec, AcceptedNegotiationIsFinal

(* A request that was to commit and is done has committed, if the tables    *)
(* changed: the steps of the others leave its label alone.                  *)
LEMMA OnlyCommitCommits ==
    ASSUME TypeOK, Next, NEW r \in Requests,
           pc[r] = "commit", pc'[r] = "idle", ~ UNCHANGED tables
    PROVE  Commit(r)
<1>1. PICK s \in Requests : Arrive(s) \/ Step(s) \/ Fail(s)
    BY DEF Next
<1>2. \E label \in Labels : pc' = [pc EXCEPT ![s] = label]
  <2>1. CASE Arrive(s)
      BY <2>1 DEF Arrive, CreateOffer, NegotiateStart, UpdateOfferCheck, RejectOfferCheck,
         AcceptOfferCheck, AcceptCounterCheck, CheckPending, Begin, Then, Labels
  <2>2. CASE Step(s)
      BY <2>2 DEF Step, NegotiateUpdateOffer, NegotiateInsert, UpdateOffer, RejectOffer,
         AcceptOffer, PickLatest, PickCounter, AcceptCounter, AcceptNegotiation,
         RejectOtherNegotiations, SeeRivals, SeeOthersNegotiations, See, RejectRivals,
         RejectOthersNegotiations,
         RejectNegotiations, FulfilPost, Publish, Commit, Then, End, Labels
  <2>3. CASE Fail(s)
      BY <2>3 DEF Fail, End, Labels
  <2>4. QED
      BY <1>1, <2>1, <2>2, <2>3
<1>3. s = r
    BY <1>2 DEF TypeOK
<1>4. ~ Arrive(r)
    BY DEF Arrive, CreateOffer, NegotiateStart, UpdateOfferCheck, RejectOfferCheck,
       AcceptOfferCheck, AcceptCounterCheck, CheckPending, Begin
<1>5. ~ Fail(r)
    BY DEF Fail
<1>6. Step(r)
    BY <1>1, <1>3, <1>4, <1>5
<1>7. QED
    BY <1>6 DEF Step, NegotiateUpdateOffer, NegotiateInsert, UpdateOffer, RejectOffer,
       AcceptOffer, PickLatest, PickCounter, AcceptCounter, AcceptNegotiation,
       RejectOtherNegotiations, SeeRivals, SeeOthersNegotiations, See, RejectRivals,
         RejectOthersNegotiations, FulfilPost, Publish

(* accept_counter_offer commits its offer at the price of the negotiation it *)
(* accepts, although it read that price before it held either row.          *)
THEOREM CounterPriceIsAgreed == Spec => CounterPriceAgreed
<1> DEFINE Agreed ==
        \A r \in Requests :
            LET o == req[r].offer
                n == req[r].neg
            IN  (/\ req[r].op = "accept_counter_offer"
                 /\ pc[r] = "commit" /\ pc'[r] = "idle"
                 /\ ~ UNCHANGED tables)
                => /\ offers'[o].status = "accepted"
                   /\ negotiations'[n].status = "accepted"
                   /\ offers'[o].price = negotiations'[n].price
<1>1. IInv /\ [Next]_vars => Agreed \/ UNCHANGED vars
  <2> SUFFICES ASSUME IInv, Next, NEW r \in Requests,
                      req[r].op = "accept_counter_offer",
                      pc[r] = "commit", pc'[r] = "idle", ~ UNCHANGED tables
               PROVE  /\ offers'[req[r].offer].status = "accepted"
                      /\ negotiations'[req[r].neg].status = "accepted"
                      /\ offers'[req[r].offer].price = negotiations'[req[r].neg].price
      OBVIOUS
  <2>1. TypeOK /\ LocalsInv(r) /\ CounterInv(r) /\ NegotiationWritesInv(r)
      BY DEF IInv
  <2>2. Commit(r)
      BY <2>1, OnlyCommitCommits
  <2>3. /\ req[r].offer \in DOMAIN w[r].offers
        /\ w[r].offers[req[r].offer].status = "accepted"
        /\ w[r].offers[req[r].offer].price = negotiations[req[r].neg].price
        /\ req[r].neg \in DOMAIN w[r].negotiations
        /\ w[r].negotiations[req[r].neg].status = "accepted"
      BY <2>1 DEF CounterInv
  <2>4. req[r].neg \in DOMAIN negotiations
      BY <2>1 DEF CounterInv, LocalsInv, AcceptOps
  <2>5. w[r].negotiations[req[r].neg].price = negotiations[req[r].neg].price
      BY <2>1, <2>3, <2>4 DEF NegotiationWritesInv
  <2>6. /\ offers'[req[r].offer] = w[r].offers[req[r].offer]
        /\ negotiations'[req[r].neg] = w[r].negotiations[req[r].neg]
      BY <2>2, <2>3, CommitKeeps
  <2>7. QED
      BY <2>3, <2>5, <2>6
<1>2. QED
    BY <1>1, Invariance, PTL DEF Spec, CounterPriceAgreed

-----------------------------------------------------------------------------
(* The rows of a write set, handler by handler and label by label: what a    *)
(* statement wrote is the row that is committed now, changed as the handler  *)
(* says.                                                                    *)

CreatedRows(r) ==
    Creating(r) =>
        /\ pc[r] \in {"publish", "commit"}
        /\ w[r].posts = NoRows /\ w[r].negotiations = NoRows /\ w[r].messages = NoRows
        /\ \E p \in PostIds, u \in Users, price \in Prices :
              /\ u # PostOwner[p]
              /\ w[r].offers = Row(req[r].offer,
                    [post |-> p, user |-> u, price |-> price,
                     status |-> "pending", negotiation_status |-> "none"])

(* The statements of update_offer and reject_offer commit on their own. *)
DirectRows(r) ==
    req[r].op \in {"update_offer", "reject_offer"} => w[r] = NoWrites

NegotiatedRows(r) ==
    LET o == req[r].offer
        n == req[r].neg
    IN  Negotiating(r) =>
        /\ pc[r] \in {"negotiate", "insert", "publish", "commit"}
        /\ w[r].posts = NoRows
        /\ w[r].offers =
              IF pc[r] = "negotiate" THEN NoRows
              ELSE Row(o, [offers[o] EXCEPT !.negotiation_status = "in_progress"])
        /\ pc[r] \in {"negotiate", "insert"} =>
              w[r].negotiations = NoRows /\ w[r].messages = NoRows
        /\ pc[r] \in {"publish", "commit"} =>
              /\ w[r].negotiations = Row(n, [offer |-> o, price |-> req[r].price,
                                             status |-> "pending"])
              /\ w[r].messages = Row(n, "pending")

Accepting(r) == req[r].op \in AcceptOps
BeforeOffer == {"accept", "pick_counter", "accept_counter"}
BeforeNegotiation == BeforeOffer \cup {"pick", "accept_neg"}

(* The offer that is accepted, at the price the handler goes by. *)
AcceptedOffer(r) ==
    LET o == req[r].offer
        price == IF req[r].op = "accept_offer" THEN offers[o].price ELSE req[r].price
    IN  Accepting(r) =>
        /\ pc[r] \in AcceptLabels \cup {"publish", "commit"}
        /\ pc[r] \in {"accept", "pick", "pick_counter"} => req[r].neg = 0
        /\ pc[r] \in BeforeOffer => w[r].offers = NoRows
        /\ pc[r] = "pick" => DOMAIN w[r].offers = {o}
        /\ pc[r] \notin BeforeOffer =>
              o \in DOMAIN w[r].offers /\ w[r].offers[o] = AcceptedRow(o, price)

RejectedRow(x, n) ==
    [offers[x] EXCEPT !.status = "rejected",
                      !.negotiation_status = IF n # 0 THEN "completed" ELSE @]

(* The rivals that are rejected with it. *)
RejectedOffers(r) ==
    Accepting(r) =>
        \A x \in DOMAIN w[r].offers \ {req[r].offer} :
            /\ x \in DOMAIN offers
            /\ offers[x].status = "pending"
            /\ offers[x].post = offers[req[r].offer].post
            /\ w[r].offers[x] = RejectedRow(x, req[r].neg)

FulfilledPost(r) ==
    Accepting(r) =>
        w[r].posts = IF pc[r] \in {"publish", "commit"}
                     THEN Row(offers[req[r].offer].post, "fulfilled") ELSE NoRows

AcceptedNegotiations(r) ==
    LET o == req[r].offer
        n == req[r].neg
    IN  Accepting(r) =>
        /\ pc[r] \in BeforeNegotiation => w[r].negotiations = NoRows
        /\ n # 0 /\ pc[r] \notin BeforeNegotiation =>
              /\ n \in DOMAIN w[r].negotiations
              /\ w[r].negotiations[n] = [negotiations[n] EXCEPT !.status = "accepted"]
        /\ \A m \in DOMAIN w[r].negotiations \ {n} :
              /\ m \in DOMAIN negotiations
              /\ negotiations[m].status = "pending"
              /\ PostOf(m) = offers[o].post
              /\ w[r].negotiations[m] = [negotiations[m] EXCEPT !.status = "rejected"]

(* A message that says rejected belongs to a negotiation that is rejected,   *)
(* or to a rival offer.                                                     *)
AcceptedMessages(r) ==
    Accepting(r) =>
        /\ DOMAIN w[r].negotiations \subseteq DOMAIN w[r].messages
        /\ DOMAIN w[r].messages \subseteq DOMAIN negotiations
        /\ \A m \in DOMAIN w[r].messages :
              /\ w[r].messages[m] \in {"accepted", "rejected"}
              /\ w[r].messages[m] = "rejected" /\ m \notin DOMAIN w[r].negotiations =>
                    negotiations[m].offer \in DOMAIN w[r].offers \ {req[r].offer}
        /\ req[r].neg \in DOMAIN w[r].negotiations => w[r].messages[req[r].neg] = "accepted"

RowsInv(r) ==
    /\ CreatedRows(r) /\ DirectRows(r) /\ NegotiatedRows(r)
    /\ AcceptedOffer(r) /\ RejectedOffers(r) /\ FulfilledPost(r)
    /\ AcceptedNegotiations(r) /\ AcceptedMessages(r)

(* The row lock of an offer has one holder. *)
OfferLocks ==
    \A r, s \in Requests : r # s => DOMAIN w[r].offers \cap DOMAIN w[s].offers = {}

(* A negotiation is accepted with its offer, and no offer is opened again. *)
AcceptedIsDecided ==
    \A n \in DOMAIN negotiations :
        negotiations[n].status = "accepted" =>
            offers[negotiations[n].offer].status # "pending"

LedgerInv ==
    /\ \A r \in Requests : RowsInv(r)
    /\ OfferLocks
    /\ AcceptedIsDecided
    /\ DOMAIN messages = DOMAIN negotiations
    /\ MessageKeepsUp

-----------------------------------------------------------------------------
(* What a step of another request leaves of the rows of r: it writes no row  *)
(* that r has written.                                                      *)
LEMMA RowsStay ==
    ASSUME IInv, NEW r \in Requests, RowsInv(r),
           pc'[r] = pc[r], req'[r] = req[r], w'[r] = w[r],
           \A x \in DOMAIN offers : x \in DOMAIN offers' /\ offers'[x].post = offers[x].post,
           \A x \in DOMAIN offers \cap DOMAIN w[r].offers : offers'[x] = offers[x],
           \A n \in DOMAIN negotiations :
              n \in DOMAIN negotiations' /\ negotiations'[n].offer = negotiations[n].offer,
           \A n \in DOMAIN negotiations \cap DOMAIN w[r].negotiations :
              negotiations'[n] = negotiations[n]
    PROVE  RowsInv(r)'
<1> DEFINE o == req[r].offer
           n == req[r].neg
<1>1. LocalsInv(r) /\ NegotiationsHaveOffers
    BY DEF IInv
<1>2. CreatedRows(r)' /\ DirectRows(r)'
    BY DEF RowsInv, CreatedRows, DirectRows, Creating
<1>3. Negotiating(r) \/ Accepting(r) => o \in DOMAIN offers
    BY <1>1 DEF LocalsInv, Negotiating, Accepting, AcceptOps, Ops
<1>4. NegotiatedRows(r)'
  <2>1. SUFFICES ASSUME Negotiating(r) PROVE NegotiatedRows(r)'
      BY DEF NegotiatedRows, Negotiating
  <2>2. NegotiatedRows(r)
      BY DEF RowsInv
  <2>3. ASSUME pc[r] # "negotiate" PROVE offers'[o] = offers[o]
    <3>1. DOMAIN w[r].offers = {o}
        BY <2>1, <2>2, <2>3 DEF NegotiatedRows, Row
    <3>2. QED
        BY <1>3, <2>1, <3>1
  <2>4. CASE pc[r] = "negotiate"
      BY <2>2, <2>4 DEF NegotiatedRows, Negotiating
  <2>5. CASE pc[r] # "negotiate"
      BY <2>2, <2>3, <2>5 DEF NegotiatedRows, Negotiating
  <2>6. QED
      BY <2>4, <2>5
<1>5. AcceptedOffer(r)'
  <2>1. SUFFICES ASSUME Accepting(r) PROVE AcceptedOffer(r)'
      BY DEF AcceptedOffer, Accepting
  <2>2. AcceptedOffer(r)
      BY DEF RowsInv
  <2>3. CASE pc[r] \in BeforeOffer
      BY <2>1, <2>2, <2>3 DEF AcceptedOffer, Accepting
  <2>4. CASE pc[r] \notin BeforeOffer
    <3>1. offers'[o] = offers[o]
        BY <1>3, <2>1, <2>2, <2>4 DEF AcceptedOffer
    <3>2. QED
        BY <2>1, <2>2, <2>4, <3>1 DEF AcceptedOffer, AcceptedRow, Accepting
  <2>5. QED
      BY <2>3, <2>4
<1>5a. RejectedOffers(r)'
  <2>1. SUFFICES ASSUME Accepting(r), NEW x \in DOMAIN w[r].offers \ {o}
                 PROVE  /\ x \in DOMAIN offers'
                        /\ offers'[x].status = "pending"
                        /\ offers'[x].post = offers'[o].post
                        /\ w[r].offers[x] = RejectedRow(x, n)'
      BY DEF RejectedOffers, Accepting
  <2>2. /\ x \in DOMAIN offers /\ offers[x].status = "pending"
        /\ offers[x].post = offers[o].post
        /\ w[r].offers[x] = RejectedRow(x, n)
      BY <2>1 DEF RowsInv, RejectedOffers
  <2>3. offers'[x] = offers[x] /\ offers'[o].post = offers[o].post
      BY <1>3, <2>1, <2>2
  <2>4. QED
      BY <2>2, <2>3 DEF RejectedRow
<1>5b. FulfilledPost(r)'
    BY <1>3 DEF RowsInv, FulfilledPost, Accepting
<1>6. AcceptedNegotiations(r)'
  <2>1. SUFFICES ASSUME Accepting(r) PROVE AcceptedNegotiations(r)'
      BY DEF AcceptedNegotiations, Accepting
  <2>2. AcceptedNegotiations(r)
      BY DEF RowsInv
  <2>3. o \in DOMAIN offers /\ offers'[o].post = offers[o].post
      BY <1>3, <2>1
  <2>4. \A m \in DOMAIN w[r].negotiations \cap DOMAIN negotiations :
           m \in DOMAIN negotiations' /\ negotiations'[m] = negotiations[m]
      OBVIOUS
  <2>5. n # 0 => n \in DOMAIN negotiations
      BY <1>1, <2>1 DEF LocalsInv, Accepting
  <2>6. \A m \in DOMAIN negotiations :
           offers'[negotiations'[m].offer].post = offers[negotiations[m].offer].post
      BY <1>1 DEF NegotiationsHaveOffers
  <2>7. ASSUME NEW m \in DOMAIN w[r].negotiations \ {n}
        PROVE  /\ m \in DOMAIN negotiations'
               /\ negotiations'[m].status = "pending"
               /\ PostOf(m)' = offers'[o].post
               /\ w[r].negotiations[m] = [negotiations'[m] EXCEPT !.status = "rejected"]
    <3>1. /\ m \in DOMAIN negotiations /\ negotiations[m].status = "pending"
          /\ PostOf(m) = offers[o].post
          /\ w[r].negotiations[m] = [negotiations[m] EXCEPT !.status = "rejected"]
        BY <2>1, <2>2 DEF AcceptedNegotiations
    <3>2. negotiations'[m] = negotiations[m] /\ m \in DOMAIN negotiations'
        BY <2>4, <3>1
    <3>3. PostOf(m)' = PostOf(m)
        BY <2>6, <3>1 DEF PostOf
    <3>4. QED
        BY <2>3, <3>1, <3>2, <3>3
  <2>8. n # 0 /\ pc[r] \notin BeforeNegotiation =>
           w[r].negotiations[n] = [negotiations'[n] EXCEPT !.status = "accepted"]
      BY <2>1, <2>2, <2>4, <2>5 DEF AcceptedNegotiations
  <2>9. QED
      BY <2>1, <2>2, <2>7, <2>8 DEF AcceptedNegotiations, Accepting
<1>7. AcceptedMessages(r)'
    BY DEF RowsInv, AcceptedMessages, Accepting
<1>8. QED
    BY <1>2, <1>4, <1>5, <1>5a, <1>5b, <1>6, <1>7 DEF RowsInv

(* A statement of r that writes nothing to the tables. *)
LEMMA RowsStatement ==
    ASSUME IInv, LedgerInv, NEW r \in Requests, UNCHANGED tables,
           \A s \in Requests \ {r} : /\ pc'[s] = pc[s]
                                     /\ req'[s] = req[s]
                                     /\ w'[s] = w[s],
           RowsInv(r)',
           \A s \in Requests \ {r} : DOMAIN w'[r].offers \cap DOMAIN w[s].offers = {}
    PROVE  LedgerInv'
<1>1. UNCHANGED <<posts, offers, negotiations, messages>>
    BY DEF tables
<1>2. ASSUME NEW s \in Requests PROVE RowsInv(s)'
  <2>1. CASE s = r
      BY <2>1
  <2>2. CASE s # r
      BY <1>1, <2>2, RowsStay DEF LedgerInv
  <2>3. QED
      BY <2>1, <2>2
<1>3. OfferLocks'
    BY DEF LedgerInv, OfferLocks
<1>4. QED
    BY <1>1, <1>2, <1>3 DEF LedgerInv, AcceptedIsDecided, MessageKeepsUp

(* Where a behaviour starts. *)
LEMMA InitLedger == Init => LedgerInv
<1> SUFFICES ASSUME Init PROVE LedgerInv
    OBVIOUS
<1>1. ASSUME NEW r \in Requests PROVE RowsInv(r)
  <2>1. req[r].op = "none"
      BY DEF Init, NoLocals
  <2>2. QED
      BY <2>1 DEF RowsInv, CreatedRows, DirectRows, NegotiatedRows, AcceptedOffer,
         RejectedOffers, FulfilledPost, AcceptedNegotiations, AcceptedMessages, Accepting, AcceptOps, Creating, Negotiating
<1>2. QED
    BY <1>1 DEF Init, LedgerInv, OfferLocks, AcceptedIsDecided, MessageKeepsUp,
       NoWrites, NoRows

(* A request that is done, or not under way, has nothing to answer for. *)
LEMMA IdleRows ==
    ASSUME NEW r \in Requests, req'[r] = NoLocals
    PROVE  RowsInv(r)'
<1>1. req'[r].op = "none"
    BY DEF NoLocals
<1>2. QED
    BY <1>1 DEF RowsInv, CreatedRows, DirectRows, NegotiatedRows, AcceptedOffer,
       RejectedOffers, FulfilledPost, AcceptedNegotiations, AcceptedMessages,
       Accepting, AcceptOps, Creating, Negotiating

LEMMA EndRows ==
    ASSUME IInv, LedgerInv, NEW r \in Requests, End(r), UNCHANGED tables
    PROVE  LedgerInv'
<1>1. TypeOK
    BY DEF IInv
<1>2. /\ req'[r] = NoLocals /\ w'[r] = NoWrites
      /\ \A s \in Requests \ {r} : pc'[s] = pc[s] /\ req'[s] = req[s] /\ w'[s] = w[s]
    BY <1>1 DEF End, TypeOK
<1>3. RowsInv(r)'
    BY <1>2, IdleRows
<1>4. DOMAIN w'[r].offers = {}
    BY <1>2, NoRowsIsTable DEF NoWrites
<1>5. QED
    BY <1>2, <1>3, <1>4, RowsStatement

-----------------------------------------------------------------------------
(* The steps that begin a request. *)

LEMMA CreateOfferRows ==
    ASSUME IInv, LedgerInv, NEW r \in Requests, NEW o \in OfferIds, NEW p \in PostIds,
           NEW u \in Users, NEW price \in Prices, CreateOffer(r, o, p, u, price)
    PROVE  LedgerInv'
<1> DEFINE row == [post |-> p, user |-> u, price |-> price,
                   status |-> "pending", negotiation_status |-> "none"]
<1>1. TypeOK /\ LocalsInv(r)
    BY DEF IInv
<1>2. /\ pc[r] = "idle" /\ u # PostOwner[p] /\ o \notin DOMAIN offers
      /\ \A s \in Requests : req[s].offer # o
    BY DEF CreateOffer
<1>3. w[r] = NoWrites
    BY <1>1, <1>2 DEF LocalsInv
<1>4. UNCHANGED tables /\ pc' = [pc EXCEPT ![r] = "publish"]
    BY DEF CreateOffer, Then
<1>5. w' = [w EXCEPT ![r].offers = Row(o, row)]
    BY DEF CreateOffer
<1>6. /\ req'[r] = [op |-> "create_offer", offer |-> o, neg |-> 0, price |-> price,
                      seen |-> {}]
      /\ pc'[r] = "publish"
      /\ \A s \in Requests \ {r} : req'[s] = req[s] /\ pc'[s] = pc[s]
    BY <1>1, <1>4 DEF CreateOffer, TypeOK
<1>7. row \in OfferRow
    BY DEF OfferRow, Status
<1>8. /\ \A s \in Requests \ {r} : w'[s] = w[s]
      /\ DOMAIN w'[r].offers = {o}
      /\ w'[r].negotiations = w[r].negotiations
      /\ w'[r].posts = w[r].posts
    BY <1>1, <1>5, <1>7, OneOffer
<1>9. w'[r].offers = Row(o, row) /\ w'[r].messages = w[r].messages
    BY <1>1, <1>5, OfferWritten
<1>10. CreatedRows(r)'
    BY <1>2, <1>3, <1>6, <1>8, <1>9 DEF CreatedRows, NoWrites
<1>10a. req'[r].op = "create_offer"
    BY <1>6
<1>11. RowsInv(r)'
    BY <1>10, <1>10a DEF RowsInv, DirectRows, NegotiatedRows, AcceptedOffer,
       RejectedOffers, FulfilledPost, AcceptedNegotiations, AcceptedMessages,
       Accepting, AcceptOps, Negotiating
<1>12. ASSUME NEW s \in Requests \ {r} PROVE o \notin DOMAIN w[s].offers
  <2>1. OfferWritesInv(s)
      BY DEF IInv
  <2>2. QED
      BY <1>2, <2>1 DEF OfferWritesInv
<1>13. QED
    BY <1>4, <1>6, <1>8, <1>11, <1>12, RowsStatement

(* A request that has read, and written nothing. *)
LEMMA BeginRows ==
    ASSUME IInv, LedgerInv, NEW r \in Requests, NEW label, NEW locals,
           Begin(r, label, locals), locals.neg = 0 \/ locals.op = "negotiate_offer",
           \/ locals.op = "update_offer" /\ label = "update"
           \/ locals.op = "reject_offer" /\ label = "reject"
           \/ locals.op = "accept_offer" /\ label = "accept"
           \/ locals.op = "accept_counter_offer" /\ label = "pick_counter"
           \/ locals.op = "negotiate_offer" /\ label = "negotiate"
    PROVE  LedgerInv'
<1>1. TypeOK /\ LocalsInv(r)
    BY DEF IInv
<1>2. pc[r] = "idle" /\ UNCHANGED <<tables, w>>
    BY DEF Begin, tables
<1>3. /\ pc'[r] = label /\ req'[r] = locals
      /\ \A s \in Requests \ {r} : pc'[s] = pc[s] /\ req'[s] = req[s] /\ w'[s] = w[s]
    BY <1>1, <1>2 DEF Begin, TypeOK
<1>4. w'[r] = NoWrites
    BY <1>1, <1>2 DEF LocalsInv
<1>5. /\ w'[r].offers = NoRows /\ w'[r].posts = NoRows
      /\ w'[r].negotiations = NoRows /\ w'[r].messages = NoRows
      /\ DOMAIN NoRows = {}
    BY <1>4 DEF NoWrites, NoRows
<1>6. CreatedRows(r)' /\ DirectRows(r)' /\ NegotiatedRows(r)'
    BY <1>3, <1>4, <1>5 DEF CreatedRows, DirectRows, NegotiatedRows, Creating, Negotiating
<1>7. AcceptedOffer(r)' /\ RejectedOffers(r)'
    BY <1>3, <1>5 DEF AcceptedOffer, RejectedOffers, Accepting, AcceptOps, AcceptLabels,
       BeforeOffer
<1>8. FulfilledPost(r)' /\ AcceptedNegotiations(r)' /\ AcceptedMessages(r)'
    BY <1>3, <1>5 DEF FulfilledPost, AcceptedNegotiations, AcceptedMessages,
       Accepting, AcceptOps, BeforeNegotiation, BeforeOffer
<1>9. QED
    BY <1>2, <1>3, <1>5, <1>6, <1>7, <1>8, RowsStatement DEF RowsInv

LEMMA ArriveRows ==
    ASSUME IInv, LedgerInv, NEW r \in Requests, Arrive(r)
    PROVE  LedgerInv'
<1>1. CASE \E o \in OfferIds, p \in PostIds, u \in Users, price \in Prices :
              CreateOffer(r, o, p, u, price)
    BY <1>1, CreateOfferRows
<1>2. ASSUME NEW o, NEW u, NEW price, NEW n, NegotiateStart(r, o, u, price, n)
      PROVE  LedgerInv'
    BY <1>2, BeginRows DEF NegotiateStart
<1>3. ASSUME NEW o, NEW op, NEW label, CheckPending(r, o, op, label),
             \/ op = "update_offer" /\ label = "update"
             \/ op = "reject_offer" /\ label = "reject"
             \/ op = "accept_offer" /\ label = "accept"
             \/ op = "accept_counter_offer" /\ label = "pick_counter"
      PROVE  LedgerInv'
  <2>1. Begin(r, label, [op |-> op, offer |-> o, neg |-> 0, price |-> NoPrice,
                       seen |-> {}])
      BY <1>3 DEF CheckPending
  <2>2. QED
      BY <1>3, <2>1, BeginRows
<1>4. ASSUME NEW o, NEW u,
             \/ UpdateOfferCheck(r, o, u) \/ RejectOfferCheck(r, o, u)
             \/ AcceptOfferCheck(r, o, u) \/ AcceptCounterCheck(r, o, u)
      PROVE  LedgerInv'
    BY <1>3, <1>4 DEF UpdateOfferCheck, RejectOfferCheck, AcceptOfferCheck, AcceptCounterCheck
<1>5. QED
    BY <1>1, <1>2, <1>4 DEF Arrive

-----------------------------------------------------------------------------
(* The statements of negotiate_offer. *)

(* What the handlers other than the one at work say nothing about. *)
LEMMA RowsOfNegotiating ==
    ASSUME NEW r \in Requests, Negotiating(r)', NegotiatedRows(r)'
    PROVE  RowsInv(r)'
BY DEF RowsInv, CreatedRows, DirectRows, AcceptedOffer, RejectedOffers, FulfilledPost,
   AcceptedNegotiations, AcceptedMessages, Accepting, AcceptOps, Creating, Negotiating

LEMMA RowsOfAccepting ==
    ASSUME NEW r \in Requests, Accepting(r)', AcceptedOffer(r)', RejectedOffers(r)',
           FulfilledPost(r)', AcceptedNegotiations(r)', AcceptedMessages(r)'
    PROVE  RowsInv(r)'
BY DEF RowsInv, CreatedRows, DirectRows, NegotiatedRows, Accepting, AcceptOps,
   Creating, Negotiating

LEMMA NegotiateUpdateOfferRows ==
    ASSUME IInv, LedgerInv, NEW r \in Requests, NegotiateUpdateOffer(r)
    PROVE  LedgerInv'
<1> DEFINE o == req[r].offer
           row == [offers[o] EXCEPT !.negotiation_status = "in_progress"]
<1>1. TypeOK /\ LocalsInv(r) /\ NegotiatedRows(r)
    BY DEF IInv, LedgerInv, RowsInv
<1>2. /\ pc[r] = "negotiate" /\ pc' = [pc EXCEPT ![r] = "insert"]
      /\ UNCHANGED <<tables, req>> /\ Granted(r)
      /\ w' = [w EXCEPT ![r].offers = Row(o, row)]
    BY DEF NegotiateUpdateOffer, Then
<1>3. Negotiating(r) /\ o \in DOMAIN offers
    BY <1>1, <1>2 DEF LocalsInv, Negotiating, Ops
<1>4. o \in OfferIds /\ offers[o] \in OfferRow
    BY <1>1, <1>3, Kinds
<1>5. row \in OfferRow
    BY <1>4 DEF OfferRow
<1>6. /\ \A s \in Requests \ {r} : w'[s] = w[s]
      /\ DOMAIN w'[r].offers = {o}
      /\ w'[r].negotiations = w[r].negotiations
      /\ w'[r].posts = w[r].posts
    BY <1>1, <1>2, <1>4, <1>5, OneOffer
<1>7. w'[r].offers = Row(o, row) /\ w'[r].messages = w[r].messages
    BY <1>1, <1>2, OfferWritten
<1>8. /\ pc'[r] = "insert"
      /\ \A s \in Requests \ {r} : req'[s] = req[s] /\ pc'[s] = pc[s]
    BY <1>1, <1>2 DEF TypeOK
<1>9. NegotiatedRows(r)'
    BY <1>1, <1>2, <1>3, <1>6, <1>7, <1>8 DEF NegotiatedRows, tables
<1>10. Negotiating(r)'
    BY <1>2, <1>3 DEF Negotiating
<1>11. RowsInv(r)'
    BY <1>9, <1>10, RowsOfNegotiating
<1>12. \A s \in Requests \ {r} : o \notin DOMAIN w[s].offers
    BY <1>2 DEF Granted, WaitsFor, Needs
<1>13. QED
    BY <1>2, <1>6, <1>8, <1>11, <1>12, RowsStatement

LEMMA NegotiateInsertRows ==
    ASSUME IInv, LedgerInv, NEW r \in Requests, NegotiateInsert(r)
    PROVE  LedgerInv'
<1> DEFINE o == req[r].offer
           n == req[r].neg
           row == [offer |-> o, price |-> req[r].price, status |-> "pending"]
<1>1. TypeOK /\ LocalsInv(r) /\ NegotiatedRows(r) /\ OfferLocks
    BY DEF IInv, LedgerInv, RowsInv
<1>2. /\ pc[r] = "insert" /\ pc' = [pc EXCEPT ![r] = "publish"]
      /\ UNCHANGED <<tables, req>>
      /\ w' = [w EXCEPT ![r].negotiations = Row(n, row), ![r].messages = Row(n, "pending")]
    BY DEF NegotiateInsert, Then
<1>3. Negotiating(r)
    BY <1>1, <1>2 DEF LocalsInv
<1> HIDE DEF row
<1>4. /\ \A s \in Requests \ {r} : w'[s] = w[s]
      /\ w'[r].offers = w[r].offers
      /\ w'[r].posts = w[r].posts
    BY <1>1, <1>2 DEF TypeOK, WriteSets
<1>5. w'[r].negotiations = Row(n, row) /\ w'[r].messages = Row(n, "pending")
    BY <1>1, <1>2, NegotiationWritten
<1>6. /\ pc'[r] = "publish"
      /\ \A s \in Requests \ {r} : req'[s] = req[s] /\ pc'[s] = pc[s]
    BY <1>1, <1>2 DEF TypeOK
<1>7. NegotiatedRows(r)'
    BY <1>1, <1>2, <1>3, <1>4, <1>5, <1>6 DEF NegotiatedRows, tables, row
<1>8. Negotiating(r)'
    BY <1>2, <1>3 DEF Negotiating
<1>9. RowsInv(r)'
    BY <1>7, <1>8, RowsOfNegotiating
<1>10. \A s \in Requests \ {r} : DOMAIN w'[r].offers \cap DOMAIN w[s].offers = {}
    BY <1>1, <1>4 DEF OfferLocks
<1>11. QED
    BY <1>2, <1>4, <1>6, <1>9, <1>10, RowsStatement

-----------------------------------------------------------------------------
(* The statements of accept_offer and accept_counter_offer. *)

LEMMA AcceptOfferRows ==
    ASSUME IInv, LedgerInv, NEW r \in Requests, AcceptOffer(r)
    PROVE  LedgerInv'
<1> DEFINE o == req[r].offer
           row == AcceptedRow(o, offers[o].price)
<1>1. /\ TypeOK /\ LocalsInv(r) /\ AcceptedOffer(r) /\ FulfilledPost(r)
      /\ AcceptedNegotiations(r) /\ AcceptedMessages(r)
    BY DEF IInv, LedgerInv, RowsInv
<1>2. /\ pc[r] = "accept" /\ pc' = [pc EXCEPT ![r] = "pick"]
      /\ UNCHANGED <<tables, req>> /\ Granted(r)
      /\ w' = [w EXCEPT ![r].offers = Row(o, row)]
    BY DEF AcceptOffer, Then
<1>3. Accepting(r) /\ req[r].op = "accept_offer" /\ o \in DOMAIN offers
    BY <1>1, <1>2 DEF LocalsInv, AcceptLabels, AcceptOps, Ops, Accepting
<1>4. o \in OfferIds /\ offers[o] \in OfferRow
    BY <1>1, <1>3, Kinds
<1>5. row \in OfferRow
    BY <1>4 DEF OfferRow, AcceptedRow, Status
<1> HIDE DEF row
<1>5a. w' = [w EXCEPT ![r].offers = Row(o, row)] /\ TypeOK
    BY <1>1, <1>2
<1>6. /\ w' \in [Requests -> WriteSets]
      /\ \A s \in Requests \ {r} : w'[s] = w[s]
      /\ DOMAIN w'[r].offers = {o}
      /\ w'[r].offers[o] = row
      /\ w'[r].negotiations = w[r].negotiations
      /\ w'[r].posts = w[r].posts
    BY <1>4, <1>5, <1>5a, OneOffer
<1>7. w'[r].messages = w[r].messages
    BY <1>1, <1>2, OfferWritten
<1>8. /\ pc'[r] = "pick"
      /\ \A s \in Requests \ {r} : req'[s] = req[s] /\ pc'[s] = pc[s]
    BY <1>1, <1>2 DEF TypeOK
<1>9. row' = row
    BY <1>2, <1>6 DEF AcceptedRow, tables, row
<1>10. AcceptedOffer(r)'
  <2>1. req[r].neg = 0
      BY <1>1, <1>2, <1>3 DEF AcceptedOffer
  <2>2. w'[r].offers[o] = AcceptedRow(o, offers[o].price)'
      BY <1>2, <1>6, <1>9 DEF row
  <2>3. QED
      BY <1>2, <1>3, <1>6, <1>8, <2>1, <2>2
         DEF AcceptedOffer, AcceptLabels, BeforeOffer
<1>11. RejectedOffers(r)' /\ FulfilledPost(r)'
    BY <1>1, <1>2, <1>3, <1>6, <1>8 DEF RejectedOffers, FulfilledPost, Accepting, tables
<1>12. AcceptedNegotiations(r)' /\ AcceptedMessages(r)'
  <2>1. w[r].negotiations = NoRows /\ DOMAIN NoRows = {}
      BY <1>1, <1>2, <1>3 DEF AcceptedNegotiations, BeforeNegotiation, BeforeOffer, NoRows
  <2>2. DOMAIN w[r].messages \subseteq DOMAIN negotiations
           /\ \A m \in DOMAIN w[r].messages : w[r].messages[m] = "accepted"
      BY <1>1, <1>2, <1>3, <2>1 DEF AcceptedMessages, AcceptedOffer, BeforeOffer, NoRows
  <2>3. AcceptedNegotiations(r)'
      BY <1>6, <1>8, <2>1 DEF AcceptedNegotiations, BeforeNegotiation
  <2>4. AcceptedMessages(r)'
      BY <1>2, <1>6, <1>7, <2>1, <2>2 DEF AcceptedMessages, tables
  <2>5. QED
      BY <2>3, <2>4
<1>13. Accepting(r)'
    BY <1>2, <1>3 DEF Accepting
<1>14. RowsInv(r)'
    BY <1>10, <1>11, <1>12, <1>13, RowsOfAccepting
<1>15. \A s \in Requests \ {r} : o \notin DOMAIN w[s].offers
    BY <1>2 DEF Granted, WaitsFor, Needs
<1>16. QED
    BY <1>2, <1>6, <1>8, <1>14, <1>15, RowsStatement

(* A SELECT of r: its locals and its label change, its rows do not. *)
LEMMA PickRows ==
    ASSUME IInv, LedgerInv, NEW r \in Requests, Accepting(r), UNCHANGED <<tables, w>>,
           \/ pc[r] = "pick" /\ pc'[r] \in {"accept_neg", "see_rivals"}
           \/ pc[r] = "pick_counter" /\ pc'[r] = "accept_counter",
           pc[r] = "pick" => req'[r].price = req[r].price,
           pc'[r] = "see_rivals" => req'[r].neg = 0,
           req'[r].op = req[r].op, req'[r].offer = req[r].offer,
           \A s \in Requests \ {r} : pc'[s] = pc[s] /\ req'[s] = req[s]
    PROVE  LedgerInv'
<1> DEFINE o == req[r].offer
<1>1. /\ AcceptedOffer(r) /\ RejectedOffers(r) /\ FulfilledPost(r)
      /\ AcceptedNegotiations(r) /\ AcceptedMessages(r) /\ OfferLocks
    BY DEF LedgerInv, RowsInv
<1>2. UNCHANGED <<posts, offers, negotiations, messages>>
    BY DEF tables
<1>3. w[r].negotiations = NoRows /\ DOMAIN NoRows = {}
    BY <1>1 DEF AcceptedNegotiations, BeforeNegotiation, BeforeOffer, NoRows
<1>4. DOMAIN w[r].offers \subseteq {o}
    BY <1>1, <1>3 DEF AcceptedOffer, BeforeOffer
<1>5. AcceptedOffer(r)'
  <2>1. CASE pc[r] = "pick"
    <3>1. pc'[r] \notin BeforeOffer /\ pc'[r] # "pick" /\ pc'[r] # "accept"
             /\ pc'[r] # "pick_counter" /\ pc'[r] \in AcceptLabels
        BY <2>1 DEF BeforeOffer, AcceptLabels
    <3>2. /\ o \in DOMAIN w[r].offers
          /\ w[r].offers[o] =
                AcceptedRow(o, IF req[r].op = "accept_offer" THEN offers[o].price
                               ELSE req[r].price)
        BY <1>1, <2>1 DEF AcceptedOffer, BeforeOffer
    <3>3. QED
        BY <1>2, <2>1, <3>1, <3>2 DEF AcceptedOffer, AcceptedRow, Accepting
  <2>2. CASE pc[r] = "pick_counter"
      BY <1>1, <2>2 DEF AcceptedOffer, BeforeOffer, AcceptLabels
  <2>3. QED
      BY <2>1, <2>2
<1>6. RejectedOffers(r)' /\ FulfilledPost(r)'
    BY <1>1, <1>2, <1>4 DEF RejectedOffers, FulfilledPost, Accepting
<1>7. AcceptedNegotiations(r)'
  <2>1. CASE pc'[r] = "see_rivals"
      BY <1>3, <2>1 DEF AcceptedNegotiations, BeforeNegotiation, BeforeOffer
  <2>2. CASE pc'[r] # "see_rivals"
      BY <1>3, <2>2 DEF AcceptedNegotiations, BeforeNegotiation, BeforeOffer
  <2>3. QED
      BY <2>1, <2>2
<1>8. AcceptedMessages(r)'
    BY <1>1, <1>2, <1>3 DEF AcceptedMessages, Accepting
<1>9. Accepting(r)'
    BY DEF Accepting
<1>10. RowsInv(r)'
    BY <1>5, <1>6, <1>7, <1>8, <1>9, RowsOfAccepting
<1>11. \A s \in Requests \ {r} : DOMAIN w'[r].offers \cap DOMAIN w[s].offers = {}
    BY <1>1 DEF OfferLocks
<1>12. QED
    BY <1>10, <1>11, RowsStatement

LEMMA PickLatestRows ==
    ASSUME IInv, LedgerInv, NEW r \in Requests, PickLatest(r)
    PROVE  LedgerInv'
<1>1. TypeOK /\ LocalsInv(r) /\ AcceptedOffer(r)
    BY DEF IInv, LedgerInv, RowsInv
<1>2. pc[r] = "pick" /\ UNCHANGED <<tables, w>>
    BY DEF PickLatest, Then
<1>3. Accepting(r) /\ req[r].neg = 0 /\ req[r] \in Locals
    BY <1>1, <1>2 DEF LocalsInv, AcceptLabels, Accepting, AcceptedOffer, TypeOK
<1>4. /\ pc'[r] \in {"accept_neg", "see_rivals"}
      /\ req'[r].op = req[r].op /\ req'[r].offer = req[r].offer
      /\ req'[r].price = req[r].price
      /\ pc'[r] = "see_rivals" => req'[r].neg = 0
      /\ \A s \in Requests \ {r} : pc'[s] = pc[s] /\ req'[s] = req[s]
  <2>1. CASE \E n \in PendingOf(req[r].offer) :
                req' = [req EXCEPT ![r].neg = n] /\ Then(r, "accept_neg")
    <3>1. PICK n : req' = [req EXCEPT ![r].neg = n] /\ Then(r, "accept_neg")
        BY <2>1
    <3>2. pc'[r] = "accept_neg"
        BY <1>1, <3>1 DEF Then, TypeOK
    <3>3. \A s \in Requests \ {r} : pc'[s] = pc[s] /\ req'[s] = req[s]
        BY <1>1, <3>1 DEF Then, TypeOK
    <3>4. req'[r] = [req[r] EXCEPT !.neg = n]
        BY <1>1, <3>1 DEF TypeOK
    <3>5. QED
        BY <1>3, <3>2, <3>3, <3>4 DEF Locals
  <2>2. CASE Then(r, "see_rivals") /\ UNCHANGED req
      BY <1>1, <1>3, <2>2 DEF Then, TypeOK
  <2>3. QED
      BY <2>1, <2>2 DEF PickLatest
<1>5. QED
    BY <1>2, <1>3, <1>4, PickRows

LEMMA PickCounterRows ==
    ASSUME IInv, LedgerInv, NEW r \in Requests, PickCounter(r)
    PROVE  LedgerInv'
<1>1. TypeOK /\ LocalsInv(r)
    BY DEF IInv
<1>2. pc[r] = "pick_counter" /\ UNCHANGED tables
    BY DEF PickCounter, Then
<1>3. Accepting(r) /\ req[r] \in Locals
    BY <1>1, <1>2 DEF LocalsInv, AcceptLabels, Accepting, TypeOK
<1>4. CASE \E n \in PendingOf(req[r].offer) :
              /\ req' = [req EXCEPT ![r].neg = n, ![r].price = negotiations[n].price]
              /\ Then(r, "accept_counter")
              /\ UNCHANGED w
  <2>1. PICK n : /\ req' = [req EXCEPT ![r].neg = n, ![r].price = negotiations[n].price]
                 /\ Then(r, "accept_counter")
                 /\ UNCHANGED w
      BY <1>4
  <2>2. pc'[r] = "accept_counter"
           /\ \A s \in Requests \ {r} : pc'[s] = pc[s] /\ req'[s] = req[s]
      BY <1>1, <2>1 DEF Then, TypeOK
  <2>3. req'[r] = [req[r] EXCEPT !.neg = n, !.price = negotiations[n].price]
      BY <1>1, <2>1 DEF TypeOK
  <2>4. req'[r].op = req[r].op /\ req'[r].offer = req[r].offer
      BY <1>3, <2>3 DEF Locals
  <2>5. QED
      BY <1>2, <1>3, <2>1, <2>2, <2>4, PickRows
<1>5. CASE End(r)
    BY <1>2, <1>5, EndRows
<1>6. QED
    BY <1>4, <1>5 DEF PickCounter

LEMMA AcceptCounterRows ==
    ASSUME IInv, LedgerInv, NEW r \in Requests, AcceptCounter(r)
    PROVE  LedgerInv'
<1> DEFINE o == req[r].offer
           row == AcceptedRow(o, req[r].price)
           shown == [n \in MessagesOf({o}) |-> "accepted"]
<1>1. /\ TypeOK /\ LocalsInv(r) /\ AcceptedOffer(r) /\ FulfilledPost(r)
      /\ AcceptedNegotiations(r) /\ DOMAIN messages = DOMAIN negotiations
    BY DEF IInv, LedgerInv, RowsInv
<1>2. /\ pc[r] = "accept_counter" /\ pc' = [pc EXCEPT ![r] = "accept_neg"]
      /\ UNCHANGED <<tables, req>> /\ Granted(r)
      /\ w' = [w EXCEPT ![r].offers = Row(o, row), ![r].messages = shown]
    BY DEF AcceptCounter, Then
<1>3. Accepting(r) /\ req[r].op = "accept_counter_offer" /\ o \in DOMAIN offers
    BY <1>1, <1>2 DEF LocalsInv, AcceptLabels, AcceptOps, Ops, Accepting
<1>4. /\ DOMAIN shown \subseteq DOMAIN negotiations
      /\ \A m \in DOMAIN shown : shown[m] = "accepted"
    BY <1>1 DEF MessagesOf
<1>5. row' = row
    BY <1>2 DEF AcceptedRow, tables
<1> HIDE DEF row, shown
<1>6. /\ \A s \in Requests \ {r} : w'[s] = w[s]
      /\ w'[r].offers = Row(o, row)
      /\ w'[r].messages = shown
      /\ w'[r].negotiations = w[r].negotiations
      /\ w'[r].posts = w[r].posts
    BY <1>1, <1>2 DEF TypeOK, WriteSets
<1>7. DOMAIN w'[r].offers = {o} /\ w'[r].offers[o] = row
    BY <1>6 DEF Row
<1>8. /\ pc'[r] = "accept_neg"
      /\ \A s \in Requests \ {r} : req'[s] = req[s] /\ pc'[s] = pc[s]
    BY <1>1, <1>2 DEF TypeOK
<1>9. AcceptedOffer(r)'
  <2>1. w'[r].offers[o] = AcceptedRow(o, req[r].price)'
      BY <1>2, <1>5, <1>7 DEF row
  <2>2. QED
      BY <1>2, <1>3, <1>7, <1>8, <2>1 DEF AcceptedOffer, AcceptLabels, BeforeOffer
<1>10. RejectedOffers(r)' /\ FulfilledPost(r)'
    BY <1>1, <1>2, <1>3, <1>6, <1>7, <1>8 DEF RejectedOffers, FulfilledPost, Accepting, tables
<1>11. w[r].negotiations = NoRows /\ DOMAIN NoRows = {}
    BY <1>1, <1>2, <1>3 DEF AcceptedNegotiations, BeforeNegotiation, BeforeOffer, NoRows
<1>12. AcceptedNegotiations(r)' /\ AcceptedMessages(r)'
    BY <1>2, <1>4, <1>6, <1>8, <1>11
       DEF AcceptedNegotiations, AcceptedMessages, BeforeNegotiation, tables
<1>13. Accepting(r)'
    BY <1>2, <1>3 DEF Accepting
<1>14. RowsInv(r)'
    BY <1>9, <1>10, <1>12, <1>13, RowsOfAccepting
<1>15. \A s \in Requests \ {r} : o \notin DOMAIN w[s].offers
    BY <1>2 DEF Granted, WaitsFor, Needs
<1>16. QED
    BY <1>2, <1>6, <1>7, <1>8, <1>14, <1>15, RowsStatement

(* The offers a statement leaves alone. *)
LEMMA OffersKept ==
    ASSUME NEW r \in Requests, Accepting(r), AcceptedOffer(r), RejectedOffers(r),
           UNCHANGED <<tables, req>>, w'[r].offers = w[r].offers,
           pc[r] \notin BeforeOffer, pc'[r] \notin BeforeOffer \cup {"pick"},
           pc'[r] \in AcceptLabels \cup {"publish", "commit"}
    PROVE  AcceptedOffer(r)' /\ RejectedOffers(r)'
<1>1. pc'[r] \notin {"accept", "pick", "pick_counter"}
    BY DEF BeforeOffer
<1>2. AcceptedOffer(r)'
    BY <1>1 DEF AcceptedOffer, AcceptedRow, Accepting, tables
<1>3. RejectedOffers(r)'
    BY DEF RejectedOffers, RejectedRow, Accepting, tables
<1>4. QED
    BY <1>2, <1>3

LEMMA AcceptNegotiationRows ==
    ASSUME IInv, LedgerInv, NEW r \in Requests, AcceptNegotiation(r)
    PROVE  LedgerInv'
<1> DEFINE n == req[r].neg
           row == [negotiations[n] EXCEPT !.status = "accepted"]
           shown == Row(n, "accepted") \oplus w[r].messages
<1>1. /\ TypeOK /\ LocalsInv(r) /\ AcceptedOffer(r) /\ RejectedOffers(r) /\ FulfilledPost(r)
      /\ AcceptedNegotiations(r) /\ AcceptedMessages(r) /\ OfferLocks
    BY DEF IInv, LedgerInv, RowsInv
<1>2. /\ pc[r] = "accept_neg" /\ pc' = [pc EXCEPT ![r] = "reject_negs"]
      /\ UNCHANGED <<tables, req>>
    BY DEF AcceptNegotiation, Then
<1>3. Accepting(r) /\ n \in DOMAIN negotiations
    BY <1>1, <1>2 DEF LocalsInv, AcceptLabels, Accepting
<1>4. w' = [w EXCEPT ![r].negotiations = Row(n, row), ![r].messages = shown]
    BY <1>1 DEF AcceptNegotiation, TypeOK, WriteSets
<1>5. /\ DOMAIN shown = {n} \cup DOMAIN w[r].messages
      /\ shown[n] = "accepted"
      /\ \A m \in DOMAIN w[r].messages \ {n} : shown[m] = w[r].messages[m]
  <2>1. DOMAIN Row(n, "accepted") = {n} /\ Row(n, "accepted")[n] = "accepted"
      BY DEF Row
  <2>2. QED
      BY <2>1 DEF \oplus
<1> HIDE DEF row, shown
<1>6. /\ \A s \in Requests \ {r} : w'[s] = w[s]
      /\ w'[r].offers = w[r].offers
      /\ w'[r].posts = w[r].posts
    BY <1>1, <1>4 DEF TypeOK, WriteSets
<1>7. w'[r].negotiations = Row(n, row) /\ w'[r].messages = shown
    BY <1>1, <1>4, NegotiationWritten
<1>8. DOMAIN w'[r].negotiations = {n} /\ w'[r].negotiations[n] = row
    BY <1>7 DEF Row
<1>9. /\ pc'[r] = "reject_negs"
      /\ \A s \in Requests \ {r} : req'[s] = req[s] /\ pc'[s] = pc[s]
    BY <1>1, <1>2 DEF TypeOK
<1>10. AcceptedOffer(r)' /\ RejectedOffers(r)'
    BY <1>1, <1>2, <1>3, <1>6, <1>9, OffersKept DEF BeforeOffer, AcceptLabels
<1>11. FulfilledPost(r)'
    BY <1>1, <1>2, <1>3, <1>6, <1>9 DEF FulfilledPost, Accepting, tables
<1>12. AcceptedNegotiations(r)'
    BY <1>2, <1>8, <1>9 DEF AcceptedNegotiations, BeforeNegotiation, BeforeOffer, tables, row
<1>13. AcceptedMessages(r)'
  <2>1. w[r].negotiations = NoRows /\ DOMAIN NoRows = {}
      BY <1>1, <1>2, <1>3 DEF AcceptedNegotiations, BeforeNegotiation, BeforeOffer, NoRows
  <2>2. QED
      BY <1>1, <1>2, <1>3, <1>5, <1>6, <1>7, <1>8, <2>1
         DEF AcceptedMessages, Accepting, tables
<1>14. Accepting(r)'
    BY <1>2, <1>3 DEF Accepting
<1>15. RowsInv(r)'
    BY <1>10, <1>11, <1>12, <1>13, <1>14, RowsOfAccepting
<1>16. \A s \in Requests \ {r} : DOMAIN w'[r].offers \cap DOMAIN w[s].offers = {}
    BY <1>1, <1>6 DEF OfferLocks
<1>17. QED
    BY <1>2, <1>6, <1>9, <1>15, <1>16, RowsStatement

LEMMA RejectNegotiationsRows ==
    ASSUME IInv, LedgerInv, NEW r \in Requests, NEW S, NEW label,
           \/ pc[r] = "reject_negs" /\ label = "see_rivals"
           \/ pc[r] = "reject_others_negs" /\ label = "fulfil",
           S \subseteq DOMAIN negotiations, req[r].neg \notin S,
           \A m \in S : /\ negotiations[m].status = "pending"
                        /\ PostOf(m) = offers[req[r].offer].post,
           RejectNegotiations(r, S, label)
    PROVE  LedgerInv'
<1> DEFINE n == req[r].neg
<1>1. /\ TypeOK /\ LocalsInv(r) /\ AcceptedOffer(r) /\ RejectedOffers(r) /\ FulfilledPost(r)
      /\ AcceptedNegotiations(r) /\ AcceptedMessages(r) /\ OfferLocks
    BY DEF IInv, LedgerInv, RowsInv
<1>2. pc' = [pc EXCEPT ![r] = label] /\ UNCHANGED <<tables, req>>
    BY DEF RejectNegotiations, Then
<1>3. Accepting(r)
    BY <1>1 DEF LocalsInv, AcceptLabels, Accepting
<1>3a. TypeOK
    BY <1>1
<1>4. /\ w' \in [Requests -> WriteSets]
      /\ \A s \in Requests \ {r} : w'[s] = w[s]
      /\ DOMAIN w'[r].negotiations = S \cup DOMAIN w[r].negotiations
      /\ \A m \in S : w'[r].negotiations[m] =
                         [negotiations[m] EXCEPT !.status = "rejected"]
      /\ \A m \in DOMAIN w[r].negotiations \ S :
             w'[r].negotiations[m] = w[r].negotiations[m]
      /\ DOMAIN w'[r].messages = S \cup DOMAIN w[r].messages
      /\ \A m \in S : w'[r].messages[m] = "rejected"
      /\ \A m \in DOMAIN w[r].messages \ S : w'[r].messages[m] = w[r].messages[m]
      /\ w'[r].offers = w[r].offers
      /\ w'[r].posts = w[r].posts
    BY <1>3a, ManyNegotiations
<1>6. /\ pc'[r] = label
      /\ \A s \in Requests \ {r} : req'[s] = req[s] /\ pc'[s] = pc[s]
    BY <1>1, <1>2 DEF TypeOK
<1>7. AcceptedOffer(r)' /\ RejectedOffers(r)'
    BY <1>1, <1>2, <1>3, <1>4, <1>6, OffersKept DEF BeforeOffer, AcceptLabels
<1>8. FulfilledPost(r)'
    BY <1>1, <1>2, <1>3, <1>4, <1>6 DEF FulfilledPost, Accepting, tables
<1>9. AcceptedNegotiations(r)'
  <2>1. n # 0 => /\ n \in DOMAIN w'[r].negotiations
                 /\ w'[r].negotiations[n] = [negotiations[n] EXCEPT !.status = "accepted"]
      BY <1>1, <1>3, <1>4 DEF AcceptedNegotiations, BeforeNegotiation, BeforeOffer
  <2>2. ASSUME NEW m \in DOMAIN w'[r].negotiations \ {n}
        PROVE  /\ m \in DOMAIN negotiations
               /\ negotiations[m].status = "pending"
               /\ PostOf(m) = offers[req[r].offer].post
               /\ w'[r].negotiations[m] = [negotiations[m] EXCEPT !.status = "rejected"]
    <3>1. CASE m \in S
        BY <1>4, <3>1
    <3>2. CASE m \notin S
        BY <1>1, <1>3, <1>4, <2>2, <3>2 DEF AcceptedNegotiations
    <3>3. QED
        BY <3>1, <3>2
  <2>3. pc'[r] \notin BeforeNegotiation
      BY <1>6 DEF BeforeNegotiation, BeforeOffer
  <2>4. QED
      BY <1>2, <2>1, <2>2, <2>3 DEF AcceptedNegotiations, PostOf, tables
<1>10. AcceptedMessages(r)'
    BY <1>1, <1>2, <1>3, <1>4 DEF AcceptedMessages, Accepting, tables
<1>11. Accepting(r)'
    BY <1>2, <1>3 DEF Accepting
<1>12. RowsInv(r)'
    BY <1>7, <1>8, <1>9, <1>10, <1>11, RowsOfAccepting
<1>13. \A s \in Requests \ {r} : DOMAIN w'[r].offers \cap DOMAIN w[s].offers = {}
    BY <1>1, <1>4 DEF OfferLocks
<1>14. QED
    BY <1>2, <1>4, <1>6, <1>12, <1>13, RowsStatement

LEMMA RejectOtherNegotiationsRows ==
    ASSUME IInv, LedgerInv, NEW r \in Requests, RejectOtherNegotiations(r)
    PROVE  LedgerInv'
<1> DEFINE S == PendingOf(req[r].offer) \ {req[r].neg}
<1>1. pc[r] = "reject_negs" /\ RejectNegotiations(r, S, "see_rivals")
    BY DEF RejectOtherNegotiations
<1>2. /\ S \subseteq DOMAIN negotiations /\ req[r].neg \notin S
      /\ \A m \in S : /\ negotiations[m].status = "pending"
                      /\ PostOf(m) = offers[req[r].offer].post
    BY DEF PendingOf, PostOf
<1>3. QED
    BY <1>1, <1>2, RejectNegotiationsRows

LEMMA SeeRows ==
    ASSUME IInv, LedgerInv, NEW r \in Requests, NEW S, NEW label, See(r, S, label),
           \/ pc[r] = "see_rivals" /\ label = "reject_rivals"
           \/ pc[r] = "see_others_negs" /\ label = "reject_others_negs"
    PROVE  LedgerInv'
<1>1. /\ TypeOK /\ LocalsInv(r) /\ AcceptedOffer(r) /\ RejectedOffers(r) /\ FulfilledPost(r)
      /\ AcceptedNegotiations(r) /\ AcceptedMessages(r) /\ OfferLocks
    BY DEF IInv, LedgerInv, RowsInv
<1>2. /\ req' = [req EXCEPT ![r].seen = S] /\ pc' = [pc EXCEPT ![r] = label]
      /\ UNCHANGED <<tables, w>>
    BY DEF See, Then
<1>3. Accepting(r) /\ req[r] \in Locals
    BY <1>1 DEF LocalsInv, AcceptLabels, Accepting, TypeOK
<1>4. req'[r] = [req[r] EXCEPT !.seen = S]
    BY <1>1, <1>2 DEF TypeOK
<1>5. /\ req'[r].op = req[r].op /\ req'[r].offer = req[r].offer
      /\ req'[r].neg = req[r].neg /\ req'[r].price = req[r].price
    BY <1>3, <1>4 DEF Locals
<1>6. /\ pc'[r] = label
      /\ \A s \in Requests \ {r} : pc'[s] = pc[s] /\ req'[s] = req[s]
    BY <1>1, <1>2 DEF TypeOK
<1>7. AcceptedOffer(r)'
  <2>1. /\ pc'[r] \notin BeforeOffer \cup {"accept", "pick", "pick_counter"}
        /\ pc'[r] \in AcceptLabels /\ pc[r] \notin BeforeOffer
      BY <1>6 DEF BeforeOffer, AcceptLabels
  <2>2. UNCHANGED <<offers, w>>
      BY <1>2 DEF tables
  <2>3. QED
      BY <1>1, <1>3, <1>5, <2>1, <2>2 DEF AcceptedOffer, AcceptedRow, Accepting
<1>8. RejectedOffers(r)'
    BY <1>1, <1>2, <1>3, <1>5 DEF RejectedOffers, RejectedRow, Accepting, tables
<1>8a. FulfilledPost(r)'
    BY <1>1, <1>2, <1>3, <1>5, <1>6 DEF FulfilledPost, Accepting, tables
<1>9. AcceptedNegotiations(r)'
    BY <1>1, <1>2, <1>3, <1>5, <1>6
       DEF AcceptedNegotiations, Accepting, BeforeNegotiation, BeforeOffer, PostOf, tables
<1>10. AcceptedMessages(r)'
    BY <1>1, <1>2, <1>3, <1>5 DEF AcceptedMessages, Accepting, tables
<1>11. Accepting(r)'
    BY <1>3, <1>5 DEF Accepting
<1>12. RowsInv(r)'
    BY <1>7, <1>8, <1>8a, <1>9, <1>10, <1>11, RowsOfAccepting
<1>13. \A s \in Requests \ {r} : DOMAIN w'[r].offers \cap DOMAIN w[s].offers = {}
    BY <1>1, <1>2 DEF OfferLocks
<1>14. QED
    BY <1>2, <1>6, <1>12, <1>13, RowsStatement

LEMMA RejectOthersNegotiationsRows ==
    ASSUME IInv, LedgerInv, NEW r \in Requests, RejectOthersNegotiations(r)
    PROVE  LedgerInv'
<1> DEFINE S == OthersSeen(r)
<1>1. pc[r] = "reject_others_negs" /\ RejectNegotiations(r, S, "fulfil")
    BY DEF RejectOthersNegotiations
<1>2. /\ S \subseteq DOMAIN negotiations
      /\ \A m \in S : /\ negotiations[m].status = "pending"
                      /\ negotiations[m].offer # req[r].offer
                      /\ PostOf(m) = offers[req[r].offer].post
    BY DEF OthersSeen, OthersPending, PostOf
<1>3. req[r].neg \notin S
  <2>1. LocalsInv(r) /\ TypeOK
      BY DEF IInv
  <2>2. req[r].op \in AcceptOps
      BY <1>1, <2>1 DEF LocalsInv, AcceptLabels
  <2>3. 0 \notin DOMAIN negotiations
      BY <2>1, Kinds, BoundAssumption DEF NegotiationIds
  <2>4. QED
      BY <1>2, <2>1, <2>2, <2>3 DEF LocalsInv
<1>4. QED
    BY <1>1, <1>2, <1>3, RejectNegotiationsRows

LEMMA RejectRivalsRows ==
    ASSUME IInv, LedgerInv, NEW r \in Requests, RejectRivals(r)
    PROVE  LedgerInv'
<1> DEFINE o == req[r].offer
           n == req[r].neg
           R == RivalsSeen(r)
           rows == [x \in R |-> RejectedRow(x, n)]
           shown == [m \in MessagesOf(R) |-> "rejected"]
<1>1. /\ TypeOK /\ LocalsInv(r) /\ AcceptedOffer(r) /\ RejectedOffers(r) /\ FulfilledPost(r)
      /\ AcceptedNegotiations(r) /\ AcceptedMessages(r) /\ OfferLocks
      /\ DOMAIN messages = DOMAIN negotiations
    BY DEF IInv, LedgerInv, RowsInv
<1>2. /\ pc[r] = "reject_rivals" /\ pc' = [pc EXCEPT ![r] = "see_others_negs"]
      /\ UNCHANGED <<tables, req>> /\ Granted(r)
    BY DEF RejectRivals, Then
<1>3. Accepting(r) /\ o \in DOMAIN offers
    BY <1>1, <1>2 DEF LocalsInv, AcceptLabels, AcceptOps, Ops, Accepting
<1>4. /\ R \subseteq DOMAIN offers \ {o}
      /\ \A x \in R : offers[x].status = "pending" /\ offers[x].post = offers[o].post
    BY DEF RivalsSeen, Rivals
<1>5. \A m \in MessagesOf(R) : m \in DOMAIN negotiations /\ negotiations[m].offer \in R
    BY <1>1 DEF MessagesOf
<1>6. w' = [w EXCEPT ![r].offers = rows \oplus w[r].offers,
                     ![r].messages = shown \oplus w[r].messages]
    BY <1>1 DEF RejectRivals, RejectedRow, TypeOK, WriteSets
<1>7. /\ DOMAIN rows = R /\ DOMAIN shown = MessagesOf(R)
      /\ \A x \in R : rows[x] = RejectedRow(x, n)
      /\ \A m \in DOMAIN shown : shown[m] = "rejected"
    OBVIOUS
<1> HIDE DEF R, rows, shown, o, n
<1>8. /\ \A s \in Requests \ {r} : w'[s] = w[s]
      /\ w'[r].offers = rows \oplus w[r].offers
      /\ w'[r].messages = shown \oplus w[r].messages
      /\ w'[r].negotiations = w[r].negotiations
      /\ w'[r].posts = w[r].posts
    BY <1>1, <1>6 DEF TypeOK, WriteSets
<1>9. /\ DOMAIN w'[r].offers = R \cup DOMAIN w[r].offers
      /\ \A x \in R : w'[r].offers[x] = RejectedRow(x, n)
      /\ \A x \in DOMAIN w[r].offers \ R : w'[r].offers[x] = w[r].offers[x]
    BY <1>7, <1>8 DEF \oplus
<1>10. /\ DOMAIN w'[r].messages = MessagesOf(R) \cup DOMAIN w[r].messages
       /\ \A m \in MessagesOf(R) : w'[r].messages[m] = "rejected"
       /\ \A m \in DOMAIN w[r].messages \ MessagesOf(R) :
              w'[r].messages[m] = w[r].messages[m]
    BY <1>7, <1>8 DEF \oplus
<1>11. /\ pc'[r] = "see_others_negs" /\ req'[r] = req[r]
       /\ \A s \in Requests \ {r} : req'[s] = req[s] /\ pc'[s] = pc[s]
    BY <1>1, <1>2 DEF TypeOK
<1>12. AcceptedOffer(r)'
  <2>1. o \in DOMAIN w'[r].offers /\ w'[r].offers[o] = w[r].offers[o]
      BY <1>1, <1>2, <1>3, <1>4, <1>9 DEF AcceptedOffer, BeforeOffer, o
  <2>2. QED
      BY <1>1, <1>2, <1>3, <1>11, <2>1
         DEF AcceptedOffer, AcceptedRow, Accepting, BeforeOffer, AcceptLabels, tables, o
<1>13. RejectedOffers(r)'
  <2> SUFFICES ASSUME NEW x \in DOMAIN w'[r].offers \ {o}
               PROVE  /\ x \in DOMAIN offers
                      /\ offers[x].status = "pending"
                      /\ offers[x].post = offers[o].post
                      /\ w'[r].offers[x] = RejectedRow(x, n)
      BY <1>2 DEF RejectedOffers, RejectedRow, tables, o, n
  <2>1. CASE x \in R
      BY <1>4, <1>9, <2>1
  <2>2. CASE x \notin R
      BY <1>1, <1>3, <1>9, <2>2 DEF RejectedOffers, o, n
  <2>3. QED
      BY <2>1, <2>2
<1>14. FulfilledPost(r)'
    BY <1>1, <1>2, <1>3, <1>8, <1>11 DEF FulfilledPost, Accepting, tables
<1>15. AcceptedNegotiations(r)'
    BY <1>1, <1>2, <1>3, <1>8, <1>11
       DEF AcceptedNegotiations, Accepting, BeforeNegotiation, BeforeOffer, PostOf, tables
<1>16. AcceptedMessages(r)'
  <2>1. n \in DOMAIN w[r].negotiations => n \notin MessagesOf(R)
    <3>1. 0 \notin DOMAIN w[r].negotiations
        BY <1>1, Kinds, BoundAssumption DEF NegotiationIds
    <3>2. n \in DOMAIN w[r].negotiations => negotiations[n].offer = o
        BY <1>1, <1>3, <3>1 DEF LocalsInv, Accepting, o, n
    <3>3. QED
        BY <1>4, <1>5, <3>2
  <2>2. ASSUME NEW m \in DOMAIN w'[r].messages
        PROVE  /\ m \in DOMAIN negotiations
               /\ w'[r].messages[m] \in {"accepted", "rejected"}
               /\ w'[r].messages[m] = "rejected" /\ m \notin DOMAIN w[r].negotiations =>
                     negotiations[m].offer \in DOMAIN w'[r].offers \ {o}
    <3>1. CASE m \in MessagesOf(R)
        BY <1>4, <1>5, <1>9, <1>10, <3>1
    <3>2. CASE m \notin MessagesOf(R)
        BY <1>1, <1>3, <1>9, <1>10, <3>2 DEF AcceptedMessages, o
    <3>3. QED
        BY <3>1, <3>2
  <2>3. n \in DOMAIN w[r].negotiations => w'[r].messages[n] = "accepted"
      BY <1>1, <1>3, <1>10, <2>1 DEF AcceptedMessages, n
  <2>4. DOMAIN w[r].negotiations \subseteq DOMAIN w'[r].messages
      BY <1>1, <1>3, <1>10 DEF AcceptedMessages
  <2>5. QED
      BY <1>2, <1>8, <2>2, <2>3, <2>4 DEF AcceptedMessages, tables, o, n
<1>17. Accepting(r)'
    BY <1>2, <1>3 DEF Accepting
<1>18. RowsInv(r)'
    BY <1>12, <1>13, <1>14, <1>15, <1>16, <1>17, RowsOfAccepting
<1>19. \A s \in Requests \ {r} : DOMAIN w'[r].offers \cap DOMAIN w[s].offers = {}
  <2>1. \A s \in Requests \ {r} : R \cap DOMAIN w[s].offers = {}
      BY <1>2 DEF Granted, WaitsFor, Needs, R, o
  <2>2. QED
      BY <1>1, <1>9, <2>1 DEF OfferLocks
<1>20. QED
    BY <1>2, <1>8, <1>11, <1>18, <1>19, RowsStatement

LEMMA FulfilPostRows ==
    ASSUME IInv, LedgerInv, NEW r \in Requests, FulfilPost(r)
    PROVE  LedgerInv'
<1> DEFINE p == offers[req[r].offer].post
<1>1. /\ TypeOK /\ LocalsInv(r) /\ AcceptedOffer(r) /\ RejectedOffers(r) /\ OfferLocks
      /\ AcceptedNegotiations(r) /\ AcceptedMessages(r)
    BY DEF IInv, LedgerInv, RowsInv
<1>2. /\ pc[r] = "fulfil" /\ pc' = [pc EXCEPT ![r] = "publish"]
      /\ UNCHANGED <<tables, req>>
      /\ w' = [w EXCEPT ![r].posts = Row(p, "fulfilled")]
    BY DEF FulfilPost, Then
<1>3. Accepting(r)
    BY <1>1, <1>2 DEF LocalsInv, AcceptLabels, Accepting
<1>4. /\ \A s \in Requests \ {r} : w'[s] = w[s]
      /\ w'[r].posts = Row(p, "fulfilled")
      /\ w'[r].negotiations = w[r].negotiations
      /\ w'[r].offers = w[r].offers
      /\ w'[r].messages = w[r].messages
    BY <1>1, <1>2 DEF TypeOK, WriteSets
<1>5. /\ pc'[r] = "publish" /\ req'[r] = req[r]
      /\ \A s \in Requests \ {r} : req'[s] = req[s] /\ pc'[s] = pc[s]
    BY <1>1, <1>2 DEF TypeOK
<1>6. AcceptedOffer(r)' /\ RejectedOffers(r)'
    BY <1>1, <1>2, <1>3, <1>4, <1>5, OffersKept DEF BeforeOffer, AcceptLabels
<1>7. FulfilledPost(r)'
    BY <1>2, <1>4, <1>5 DEF FulfilledPost, tables
<1>8. AcceptedNegotiations(r)'
    BY <1>1, <1>2, <1>3, <1>4, <1>5
       DEF AcceptedNegotiations, Accepting, BeforeNegotiation, BeforeOffer, PostOf, tables
<1>9. AcceptedMessages(r)'
    BY <1>1, <1>2, <1>3, <1>4, <1>5 DEF AcceptedMessages, Accepting, tables
<1>10. Accepting(r)'
    BY <1>2, <1>3 DEF Accepting
<1>11. RowsInv(r)'
    BY <1>6, <1>7, <1>8, <1>9, <1>10, RowsOfAccepting
<1>12. \A s \in Requests \ {r} : DOMAIN w'[r].offers \cap DOMAIN w[s].offers = {}
    BY <1>1, <1>4 DEF OfferLocks
<1>13. QED
    BY <1>2, <1>4, <1>5, <1>11, <1>12, RowsStatement

LEMMA PublishRows ==
    ASSUME IInv, LedgerInv, NEW r \in Requests, Publish(r)
    PROVE  LedgerInv'
<1>1. TypeOK /\ RowsInv(r) /\ OfferLocks
    BY DEF IInv, LedgerInv
<1>2. pc[r] = "publish" /\ UNCHANGED <<tables, req, w>> /\ pc' = [pc EXCEPT ![r] = "commit"]
    BY DEF Publish, tables
<1>3. /\ pc'[r] = "commit" /\ req'[r] = req[r] /\ w'[r] = w[r]
      /\ \A s \in Requests \ {r} : req'[s] = req[s] /\ pc'[s] = pc[s] /\ w'[s] = w[s]
    BY <1>1, <1>2 DEF TypeOK
<1>4. CreatedRows(r)' /\ DirectRows(r)'
    BY <1>1, <1>2, <1>3 DEF RowsInv, CreatedRows, DirectRows, Creating
<1>5. NegotiatedRows(r)'
    BY <1>1, <1>2, <1>3 DEF RowsInv, NegotiatedRows, Negotiating, tables
<1>6. ASSUME Accepting(r) PROVE AcceptedOffer(r)' /\ RejectedOffers(r)'
    BY <1>1, <1>2, <1>3, <1>6, OffersKept DEF RowsInv, BeforeOffer
<1>7. ~ Accepting(r) => AcceptedOffer(r)' /\ RejectedOffers(r)'
    BY <1>3 DEF AcceptedOffer, RejectedOffers, Accepting
<1>8. FulfilledPost(r)' /\ AcceptedMessages(r)'
    BY <1>1, <1>2, <1>3 DEF RowsInv, FulfilledPost, AcceptedMessages, Accepting, tables
<1>9. AcceptedNegotiations(r)'
    BY <1>1, <1>2, <1>3 DEF RowsInv, AcceptedNegotiations, Accepting, BeforeNegotiation,
       BeforeOffer, PostOf, tables
<1>10. RowsInv(r)'
    BY <1>4, <1>5, <1>6, <1>7, <1>8, <1>9 DEF RowsInv
<1>11. \A s \in Requests \ {r} : DOMAIN w'[r].offers \cap DOMAIN w[s].offers = {}
    BY <1>1, <1>3 DEF OfferLocks
<1>12. QED
    BY <1>2, <1>3, <1>10, <1>11, RowsStatement

-----------------------------------------------------------------------------
(* The steps that change the tables. *)

LEMMA OfferChangedRows ==
    ASSUME IInv, LedgerInv, NEW r \in Requests, pc[r] \in {"update", "reject"}, Granted(r),
           NEW row, row.post = offers[req[r].offer].post,
           row.status \in {offers[req[r].offer].status, "rejected"},
           offers' = [offers EXCEPT ![req[r].offer] = row],
           pc' = [pc EXCEPT ![r] = "publish"],
           UNCHANGED <<posts, negotiations, messages, req, w>>
    PROVE  LedgerInv'
<1> DEFINE o == req[r].offer
<1>1. TypeOK /\ LocalsInv(r) /\ RowsInv(r) /\ NegotiationsHaveOffers
    BY DEF IInv, LedgerInv
<1>2. /\ req[r].op \in {"update_offer", "reject_offer"}
      /\ o \in DOMAIN offers
    BY <1>1 DEF LocalsInv, Ops
<1>3. /\ DOMAIN offers' = DOMAIN offers
      /\ offers'[o] = row
      /\ \A x \in DOMAIN offers \ {o} : offers'[x] = offers[x]
    BY <1>1, <1>2, TableIsFunction DEF TypeOK
<1>4. \A x \in DOMAIN offers : x \in DOMAIN offers' /\ offers'[x].post = offers[x].post
    BY <1>3
<1>5. ASSUME NEW s \in Requests PROVE RowsInv(s)'
  <2>1. CASE s = r
      BY <1>1, <1>2, <2>1 DEF RowsInv, CreatedRows, DirectRows, NegotiatedRows, AcceptedOffer,
         RejectedOffers, FulfilledPost, AcceptedNegotiations, AcceptedMessages,
         Accepting, AcceptOps, Creating, Negotiating
  <2>2. CASE s # r
    <3>1. o \notin DOMAIN w[s].offers
        BY <2>2 DEF Granted, WaitsFor, Needs
    <3>2. pc'[s] = pc[s] /\ req'[s] = req[s] /\ w'[s] = w[s] /\ RowsInv(s)
        BY <1>1, <2>2 DEF TypeOK, LedgerInv
    <3>3. \A x \in DOMAIN offers \cap DOMAIN w[s].offers : offers'[x] = offers[x]
        BY <1>3, <3>1
    <3>4. /\ \A n \in DOMAIN negotiations : n \in DOMAIN negotiations'
                                              /\ negotiations'[n].offer = negotiations[n].offer
          /\ \A n \in DOMAIN negotiations \cap DOMAIN w[s].negotiations :
                negotiations'[n] = negotiations[n]
        OBVIOUS
    <3>5. QED
        BY <1>4, <3>2, <3>3, <3>4, RowsStay
  <2>3. QED
      BY <2>1, <2>2
<1>6. AcceptedIsDecided'
    BY <1>1, <1>3 DEF LedgerInv, AcceptedIsDecided, NegotiationsHaveOffers
<1>7. OfferLocks' /\ (DOMAIN messages = DOMAIN negotiations)' /\ MessageKeepsUp'
    BY DEF LedgerInv, OfferLocks, MessageKeepsUp
<1>8. QED
    BY <1>5, <1>6, <1>7 DEF LedgerInv

LEMMA UpdateOfferRows ==
    ASSUME IInv, LedgerInv, NEW r \in Requests, UpdateOffer(r)
    PROVE  LedgerInv'
<1> DEFINE o == req[r].offer
<1>1. TypeOK /\ LocalsInv(r)
    BY DEF IInv
<1>2. /\ pc[r] = "update" /\ pc' = [pc EXCEPT ![r] = "publish"] /\ Granted(r)
      /\ UNCHANGED <<posts, negotiations, messages, req, w>>
    BY DEF UpdateOffer
<1>3. PICK price \in Prices : offers' = [offers EXCEPT ![o].price = price]
    BY DEF UpdateOffer
<1> DEFINE row == [offers[o] EXCEPT !.price = price]
<1>4. o \in DOMAIN offers
    BY <1>1, <1>2 DEF LocalsInv, Ops
<1>5. offers[o] \in OfferRow
    BY <1>1, <1>4, Kinds
<1>6. row.post = offers[o].post /\ row.status = offers[o].status
    BY <1>5 DEF OfferRow
<1>7. offers' = [offers EXCEPT ![o] = row]
    BY <1>3, <1>4
<1> HIDE DEF row
<1>8. QED
    BY <1>2, <1>6, <1>7, OfferChangedRows

LEMMA RejectOfferRows ==
    ASSUME IInv, LedgerInv, NEW r \in Requests, RejectOffer(r)
    PROVE  LedgerInv'
<1> DEFINE o == req[r].offer
           row == [offers[o] EXCEPT !.status = "rejected",
                                    !.negotiation_status = "completed"]
<1>1. TypeOK /\ LocalsInv(r)
    BY DEF IInv
<1>2. /\ pc[r] = "reject" /\ pc' = [pc EXCEPT ![r] = "publish"] /\ Granted(r)
      /\ UNCHANGED <<posts, negotiations, messages, req, w>>
      /\ offers' = [offers EXCEPT ![o].status = "rejected",
                                  ![o].negotiation_status = "completed"]
    BY DEF RejectOffer
<1>3. o \in DOMAIN offers
    BY <1>1, <1>2 DEF LocalsInv, Ops
<1>4. offers[o] \in OfferRow /\ offers \in [DOMAIN offers -> OfferRow]
    BY <1>1, <1>3, Kinds, TableIsFunction DEF TypeOK
<1>5. row.post = offers[o].post /\ row.status = "rejected"
    BY <1>4 DEF OfferRow
<1>6. offers' = [offers EXCEPT ![o] = row]
    BY <1>2, <1>3, <1>4
<1> HIDE DEF row
<1>7. QED
    BY <1>2, <1>5, <1>6, OfferChangedRows

(* The rows a transaction brings to its COMMIT agree with each other, and    *)
(* open no offer again.                                                     *)
LEMMA CommittedRows ==
    ASSUME IInv, LedgerInv, NEW r \in Requests, pc[r] = "commit"
    PROVE  /\ DOMAIN w[r].negotiations \subseteq DOMAIN w[r].messages
           /\ DOMAIN w[r].messages \subseteq DOMAIN w[r].negotiations \cup DOMAIN negotiations
           /\ \A m \in DOMAIN w[r].negotiations :
                 /\ w[r].negotiations[m].status = "accepted" =>
                       /\ w[r].messages[m] = "accepted"
                       /\ w[r].negotiations[m].offer \in DOMAIN w[r].offers
                       /\ w[r].offers[w[r].negotiations[m].offer].status = "accepted"
                 /\ w[r].messages[m] = "pending" => w[r].negotiations[m].status = "pending"
           /\ \A m \in DOMAIN w[r].messages \ DOMAIN w[r].negotiations :
                 /\ w[r].messages[m] # "pending"
                 /\ negotiations[m].status = "accepted" => w[r].messages[m] = "accepted"
           /\ \A x \in DOMAIN w[r].offers \cap DOMAIN offers :
                 offers[x].status # "pending" => w[r].offers[x].status # "pending"
<1> DEFINE o == req[r].offer
           n == req[r].neg
<1>1. /\ TypeOK /\ LocalsInv(r) /\ RowsInv(r) /\ NegotiationWritesInv(r) /\ AcceptedIsDecided
      /\ req[r].op \in Ops
    BY DEF IInv, LedgerInv, LocalsInv
<1>2. CASE Creating(r)
  <2>1. /\ DOMAIN w[r].messages = {} /\ DOMAIN w[r].negotiations = {}
        /\ DOMAIN w[r].offers = {o}
      BY <1>1, <1>2 DEF RowsInv, CreatedRows, NoRows, Row
  <2>2. o \notin DOMAIN offers
      BY <1>1, <1>2 DEF LocalsInv
  <2>3. QED
      BY <2>1, <2>2
<1>3. CASE req[r].op \in {"update_offer", "reject_offer"}
    BY <1>1, <1>3 DEF RowsInv, DirectRows, NoWrites, NoRows
<1>4. CASE Negotiating(r)
  <2>1. /\ w[r].offers = Row(o, [offers[o] EXCEPT !.negotiation_status = "in_progress"])
        /\ w[r].negotiations = Row(n, [offer |-> o, price |-> req[r].price,
                                       status |-> "pending"])
        /\ w[r].messages = Row(n, "pending")
      BY <1>1, <1>4 DEF RowsInv, NegotiatedRows
  <2>2. /\ DOMAIN w[r].offers = {o}
        /\ w[r].offers[o] = [offers[o] EXCEPT !.negotiation_status = "in_progress"]
        /\ DOMAIN w[r].negotiations = {n} /\ DOMAIN w[r].messages = {n}
        /\ w[r].negotiations[n].status = "pending"
      BY <2>1 DEF Row
  <2>3. o \in DOMAIN offers
      BY <1>1, <1>4 DEF LocalsInv, Negotiating, Ops
  <2>4. w[r].offers[o].status = offers[o].status
      BY <1>1, <2>2, <2>3, Kinds DEF OfferRow
  <2>5. QED
      BY <2>2, <2>4
<1>5. CASE Accepting(r)
  <2>1. /\ AcceptedOffer(r) /\ RejectedOffers(r) /\ AcceptedNegotiations(r)
        /\ AcceptedMessages(r)
      BY <1>1 DEF RowsInv
  <2>2. pc[r] \notin BeforeOffer /\ pc[r] \notin BeforeNegotiation
      BY DEF BeforeNegotiation, BeforeOffer
  <2>3. o \in DOMAIN offers /\ offers[o] \in OfferRow
      BY <1>1, <1>5, Kinds DEF LocalsInv, Accepting, AcceptOps, Ops
  <2>4. o \in DOMAIN w[r].offers /\ w[r].offers[o].status = "accepted"
      BY <1>5, <2>1, <2>2, <2>3 DEF AcceptedOffer, AcceptedRow, OfferRow
  <2>5. \A x \in DOMAIN w[r].offers \ {o} : x \in DOMAIN offers /\ offers[x].status = "pending"
      BY <1>5, <2>1 DEF RejectedOffers
  <2>6. ASSUME NEW m \in DOMAIN w[r].negotiations, w[r].negotiations[m].status = "accepted"
        PROVE  w[r].messages[m] = "accepted" /\ w[r].negotiations[m].offer = o
    <3>1. w[r].negotiations[m].offer = o
        BY <1>1, <2>6 DEF NegotiationWritesInv
    <3>2. m = n
      <4>1. ASSUME m # n PROVE w[r].negotiations[m].status = "rejected"
        <5>1. /\ m \in DOMAIN negotiations
              /\ w[r].negotiations[m] = [negotiations[m] EXCEPT !.status = "rejected"]
            BY <1>5, <2>1, <4>1 DEF AcceptedNegotiations
        <5>2. QED
            BY <1>1, <5>1, Kinds DEF NegotiationRow
      <4>2. QED
          BY <2>6, <4>1
    <3>3. QED
        BY <1>5, <2>1, <3>1, <3>2 DEF AcceptedMessages
  <2>7. ASSUME NEW m \in DOMAIN w[r].messages \ DOMAIN w[r].negotiations,
               negotiations[m].status = "accepted"
        PROVE  w[r].messages[m] = "accepted"
      BY <1>1, <1>5, <2>1, <2>5, <2>7 DEF AcceptedMessages, AcceptedIsDecided
  <2>8. /\ DOMAIN w[r].negotiations \subseteq DOMAIN w[r].messages
        /\ DOMAIN w[r].messages \subseteq DOMAIN negotiations
        /\ \A m \in DOMAIN w[r].messages : w[r].messages[m] # "pending"
      BY <1>5, <2>1 DEF AcceptedMessages
  <2>9. \A x \in DOMAIN w[r].offers \cap DOMAIN offers :
           offers[x].status # "pending" => w[r].offers[x].status # "pending"
      BY <2>4, <2>5
  <2>10. QED
      BY <2>4, <2>6, <2>7, <2>8, <2>9
<1>6. QED
    BY <1>1, <1>2, <1>3, <1>4, <1>5 DEF Ops, Creating, Negotiating, Accepting

LEMMA CommitRows ==
    ASSUME IInv, LedgerInv, NEW r \in Requests, Commit(r)
    PROVE  LedgerInv'
<1>1. /\ TypeOK /\ NegotiationLocks /\ NegotiationsHaveOffers /\ NegotiationWritesInv(r)
      /\ OfferLocks /\ AcceptedIsDecided /\ MessageKeepsUp
      /\ DOMAIN messages = DOMAIN negotiations
    BY DEF IInv, LedgerInv
<1>2. pc[r] = "commit" /\ End(r) /\ messages' = w[r].messages \oplus messages
    BY DEF Commit
<1>3. /\ DOMAIN offers' = DOMAIN w[r].offers \cup DOMAIN offers
      /\ \A o \in DOMAIN w[r].offers : offers'[o] = w[r].offers[o]
      /\ \A o \in DOMAIN offers \ DOMAIN w[r].offers : offers'[o] = offers[o]
      /\ \A o \in DOMAIN offers : offers'[o].post = offers[o].post
    BY CommitKeeps
<1>4. /\ DOMAIN negotiations' = DOMAIN w[r].negotiations \cup DOMAIN negotiations
      /\ \A n \in DOMAIN w[r].negotiations : negotiations'[n] = w[r].negotiations[n]
      /\ \A n \in DOMAIN negotiations \ DOMAIN w[r].negotiations :
             negotiations'[n] = negotiations[n]
      /\ \A n \in DOMAIN negotiations : negotiations'[n].offer = negotiations[n].offer
    BY CommitKeeps
<1>5. /\ DOMAIN messages' = DOMAIN w[r].messages \cup DOMAIN messages
      /\ \A m \in DOMAIN w[r].messages : messages'[m] = w[r].messages[m]
      /\ \A m \in DOMAIN messages \ DOMAIN w[r].messages : messages'[m] = messages[m]
    BY <1>2 DEF \oplus
<1>6. /\ req'[r] = NoLocals /\ w'[r] = NoWrites
      /\ \A s \in Requests \ {r} : pc'[s] = pc[s] /\ req'[s] = req[s] /\ w'[s] = w[s]
    BY <1>1, <1>2 DEF End, TypeOK
<1>7. ASSUME NEW s \in Requests PROVE RowsInv(s)'
  <2>1. CASE s = r
      BY <1>6, <2>1, IdleRows
  <2>2. CASE s # r
    <3>1. /\ RowsInv(s) /\ pc'[s] = pc[s] /\ req'[s] = req[s] /\ w'[s] = w[s]
        BY <1>6, <2>2 DEF LedgerInv
    <3>2. \A x \in DOMAIN offers : x \in DOMAIN offers' /\ offers'[x].post = offers[x].post
        BY <1>3
    <3>3. \A x \in DOMAIN offers \cap DOMAIN w[s].offers : offers'[x] = offers[x]
        BY <1>1, <1>3, <2>2 DEF OfferLocks
    <3>4. \A n \in DOMAIN negotiations :
             n \in DOMAIN negotiations' /\ negotiations'[n].offer = negotiations[n].offer
        BY <1>4
    <3>5. \A n \in DOMAIN negotiations \cap DOMAIN w[s].negotiations :
             negotiations'[n] = negotiations[n]
        BY <1>1, <1>4, <2>2 DEF NegotiationLocks
    <3>6. QED
        BY <3>1, <3>2, <3>3, <3>4, <3>5, RowsStay
  <2>3. QED
      BY <2>1, <2>2
<1>8. OfferLocks'
  <2>1. DOMAIN w'[r].offers = {}
      BY <1>6, NoRowsIsTable DEF NoWrites
  <2>2. QED
      BY <1>1, <1>6, <2>1 DEF OfferLocks
<1>9. AcceptedIsDecided'
  <2> SUFFICES ASSUME NEW n \in DOMAIN negotiations', negotiations'[n].status = "accepted"
               PROVE  offers'[negotiations'[n].offer].status # "pending"
      BY DEF AcceptedIsDecided
  <2>1. CASE n \in DOMAIN w[r].negotiations
      BY <1>2, <1>3, <1>4, <2>1, CommittedRows
  <2>2. CASE n \notin DOMAIN w[r].negotiations
    <3>1. n \in DOMAIN negotiations /\ negotiations'[n] = negotiations[n]
        BY <1>4, <2>2
    <3>2. negotiations[n].offer \in DOMAIN offers
             /\ offers[negotiations[n].offer].status # "pending"
        BY <1>1, <3>1 DEF AcceptedIsDecided, NegotiationsHaveOffers
    <3>3. QED
        BY <1>2, <1>3, <3>1, <3>2, CommittedRows
  <2>3. QED
      BY <2>1, <2>2
<1>10. DOMAIN messages' = DOMAIN negotiations'
    BY <1>1, <1>2, <1>4, <1>5, CommittedRows
<1>11. MessageKeepsUp'
  <2> SUFFICES ASSUME NEW n \in DOMAIN negotiations'
               PROVE  /\ negotiations'[n].status = "accepted" => messages'[n] = "accepted"
                      /\ messages'[n] = "pending" => negotiations'[n].status = "pending"
      BY <1>10 DEF MessageKeepsUp
  <2>1. CASE n \in DOMAIN w[r].negotiations
      BY <1>2, <1>4, <1>5, <2>1, CommittedRows
  <2>2. CASE n \notin DOMAIN w[r].negotiations /\ n \in DOMAIN w[r].messages
      BY <1>2, <1>4, <1>5, <2>2, CommittedRows
  <2>3. CASE n \notin DOMAIN w[r].negotiations /\ n \notin DOMAIN w[r].messages
      BY <1>1, <1>4, <1>5, <2>3 DEF MessageKeepsUp
  <2>4. QED
      BY <2>1, <2>2, <2>3
<1>12. QED
    BY <1>7, <1>8, <1>9, <1>10, <1>11 DEF LedgerInv

(* The invariant is inductive, together with the first one. *)
LEMMA NextLedger == IInv /\ LedgerInv /\ [Next]_vars => LedgerInv'
<1> SUFFICES ASSUME IInv, LedgerInv, [Next]_vars PROVE LedgerInv'
    OBVIOUS
<1>1. ASSUME NEW r \in Requests, Step(r) PROVE LedgerInv'
  <2>1. CASE NegotiateUpdateOffer(r) \/ NegotiateInsert(r)
      BY <2>1, NegotiateUpdateOfferRows, NegotiateInsertRows
  <2>2. CASE UpdateOffer(r) \/ RejectOffer(r)
      BY <2>2, UpdateOfferRows, RejectOfferRows
  <2>3. CASE AcceptOffer(r) \/ PickLatest(r)
      BY <2>3, AcceptOfferRows, PickLatestRows
  <2>4. CASE PickCounter(r) \/ AcceptCounter(r)
      BY <2>4, PickCounterRows, AcceptCounterRows
  <2>5. CASE AcceptNegotiation(r) \/ RejectOtherNegotiations(r)
      BY <2>5, AcceptNegotiationRows, RejectOtherNegotiationsRows
  <2>6. CASE RejectRivals(r) \/ RejectOthersNegotiations(r)
      BY <2>6, RejectRivalsRows, RejectOthersNegotiationsRows
  <2>6a. CASE SeeRivals(r) \/ SeeOthersNegotiations(r)
      BY <2>6a, SeeRows DEF SeeRivals, SeeOthersNegotiations
  <2>7. CASE FulfilPost(r) \/ Publish(r) \/ Commit(r)
      BY <2>7, FulfilPostRows, PublishRows, CommitRows
  <2>8. QED
      BY <1>1, <2>1, <2>2, <2>3, <2>4, <2>5, <2>6, <2>6a, <2>7 DEF Step
<1>2. ASSUME NEW r \in Requests, Fail(r) PROVE LedgerInv'
    BY <1>2, EndRows DEF Fail
<1>3. CASE UNCHANGED vars
  <2>1. UNCHANGED <<posts, offers, negotiations, messages, pc, req, w>>
      BY <1>3 DEF vars
  <2>2. ASSUME NEW r \in Requests PROVE RowsInv(r)'
      BY <2>1, RowsStay DEF LedgerInv
  <2>3. QED
      BY <2>1, <2>2 DEF LedgerInv, OfferLocks, AcceptedIsDecided, MessageKeepsUp
<1>4. QED
    BY <1>1, <1>2, <1>3, ArriveRows DEF Next

THEOREM LedgerInvariance == Spec => [](IInv /\ LedgerInv)
<1>1. Init => IInv /\ LedgerInv
    BY InitInv, InitLedger
<1>2. IInv /\ LedgerInv /\ [Next]_vars => (IInv /\ LedgerInv)'
    BY NextInv, NextLedger
<1>3. QED
    BY <1>1, <1>2, PTL DEF Spec

(* The status a message shows never promises what is closed: an accepted     *)
(* negotiation shows accepted, and a message that shows pending belongs to a *)
(* pending negotiation, for any number of requests at once.                 *)
THEOREM MessagesKeepUp == Spec => []MessageKeepsUp
<1>1. LedgerInv => MessageKeepsUp
    BY DEF LedgerInv
<1>2. QED
    BY <1>1, LedgerInvariance, PTL

-----------------------------------------------------------------------------
(* Every step is a step of OfferLedger, or leaves its tables alone.         *)

(* A table laid over another is that table with some rows changed. *)
LEMMA NothingOver ==
    ASSUME NEW Ids, NEW Rows, NEW t \in Tables(Ids, Rows)
    PROVE  NoRows \oplus t = t
<1>1. t = [x \in DOMAIN t |-> t[x]]
    BY TableIsFunction
<1>2. QED
    BY <1>1 DEF NoRows, \oplus

LEMMA RowOver ==
    ASSUME NEW Ids, NEW Rows, NEW t \in Tables(Ids, Rows), NEW id \in DOMAIN t, NEW row
    PROVE  Row(id, row) \oplus t = [t EXCEPT ![id] = row]
<1>1. t = [x \in DOMAIN t |-> t[x]]
    BY TableIsFunction
<1>2. QED
    BY <1>1 DEF Row, \oplus

LEMMA CommitWrites ==
    ASSUME IInv, NEW r \in Requests, Commit(r)
    PROVE  /\ posts' = w[r].posts \oplus posts
           /\ offers' = w[r].offers \oplus offers
           /\ negotiations' = w[r].negotiations \oplus negotiations
           /\ NoRows \oplus posts = posts
           /\ NoRows \oplus offers = offers
           /\ NoRows \oplus negotiations = negotiations
           /\ req[r].op \in Ops
<1>1. TypeOK /\ LocalsInv(r)
    BY DEF IInv
<1>2. posts \in Tables(PostIds, RequestStatus)
    BY <1>1, TableIsFunction DEF TypeOK
<1>3. NoRows \oplus posts = posts
    BY <1>2, NothingOver
<1>4. NoRows \oplus offers = offers /\ NoRows \oplus negotiations = negotiations
    BY <1>1, NothingOver DEF TypeOK
<1>5. req[r].op \in Ops
    BY <1>1 DEF LocalsInv, Commit
<1>6. QED
    BY <1>3, <1>4, <1>5 DEF Commit

LEMMA LedgerOperators ==
    /\ Ledger!NoRows = NoRows
    /\ \A id, row : Ledger!Row(id, row) = Row(id, row)
    /\ \A t, u : Ledger!\oplus(t, u) = t \oplus u
BY DEF Ledger!NoRows, Ledger!Row, Ledger!\oplus, NoRows, Row, \oplus

(* create_offer *)
LEMMA CommitCreates ==
    ASSUME IInv, LedgerInv, NEW r \in Requests, Commit(r), Creating(r)
    PROVE  \E o \in OfferIds, p \in PostIds, u \in Users, price \in Prices :
              Ledger!Create(o, p, u, price)
<1> DEFINE o == req[r].offer
<1>1. LocalsInv(r) /\ CreatedRows(r)
    BY DEF IInv, LedgerInv, RowsInv
<1>2. o \in OfferIds /\ o \notin DOMAIN offers
    BY <1>1 DEF LocalsInv, Commit
<1>3. w[r].posts = NoRows /\ w[r].negotiations = NoRows
    BY <1>1 DEF CreatedRows
<1>4. PICK p \in PostIds, u \in Users, price \in Prices :
          /\ u # PostOwner[p]
          /\ w[r].offers = Row(o, [post |-> p, user |-> u, price |-> price,
                                   status |-> "pending", negotiation_status |-> "none"])
    BY <1>1 DEF CreatedRows
<1>5. posts' = posts /\ negotiations' = negotiations
    BY <1>3, CommitWrites
<1>6. offers' = Row(o, [post |-> p, user |-> u, price |-> price,
                        status |-> "pending", negotiation_status |-> "none"]) \oplus offers
    BY <1>4, CommitWrites
<1>7. Ledger!Create(o, p, u, price)
    BY <1>2, <1>4, <1>5, <1>6, LedgerOperators DEF Ledger!Create
<1>8. QED
    BY <1>2, <1>7

(* update_offer and reject_offer have nothing left to commit. *)
LEMMA CommitOfDirect ==
    ASSUME IInv, LedgerInv, NEW r \in Requests, Commit(r),
           req[r].op \in {"update_offer", "reject_offer"}
    PROVE  UNCHANGED <<posts, offers, negotiations>>
<1>1. w[r] = NoWrites
    BY DEF LedgerInv, RowsInv, DirectRows
<1>2. QED
    BY <1>1, CommitWrites DEF NoWrites

(* negotiate_offer: the row of the offer has been locked since it was read. *)
LEMMA CommitNegotiates ==
    ASSUME IInv, LedgerInv, NEW r \in Requests, Commit(r), Negotiating(r)
    PROVE  \E o \in DOMAIN offers, n \in NegotiationIds, price \in Prices :
              Ledger!Negotiate(o, n, price)
<1> DEFINE o == req[r].offer
           n == req[r].neg
           price == req[r].price
           row == [offers[o] EXCEPT !.negotiation_status = "in_progress"]
<1>1. TypeOK /\ LocalsInv(r) /\ NegotiatedRows(r) /\ pc[r] = "commit"
    BY DEF IInv, LedgerInv, RowsInv, Commit
<1>2. /\ o \in DOMAIN offers /\ n \in NegotiationIds /\ n \notin DOMAIN negotiations
      /\ price \in Prices
    BY <1>1 DEF LocalsInv, Negotiating, Ops
<1>3. /\ w[r].posts = NoRows
      /\ w[r].offers = Row(o, row)
      /\ w[r].negotiations = Row(n, [offer |-> o, price |-> price, status |-> "pending"])
    BY <1>1 DEF NegotiatedRows
<1>4. posts' = posts
    BY <1>3, CommitWrites
<1>5. negotiations' = Row(n, [offer |-> o, price |-> price, status |-> "pending"])
                         \oplus negotiations
    BY <1>3, CommitWrites
<1>6. offers' = [offers EXCEPT ![o] = row]
  <2>1. offers' = Row(o, row) \oplus offers
      BY <1>3, CommitWrites
  <2> HIDE DEF row
  <2>2. QED
      BY <1>1, <1>2, <2>1, RowOver DEF TypeOK
<1>7. Ledger!Negotiate(o, n, price)
    BY <1>2, <1>4, <1>5, <1>6, LedgerOperators DEF Ledger!Negotiate
<1>8. QED
    BY <1>2, <1>7

(* Two tables with the same rows are the same; so is one row on the others.  *)
LEMMA SameRows ==
    ASSUME NEW S, NEW f, NEW g,
           f = [x \in S |-> f[x]], g = [x \in S |-> g[x]], \A x \in S : f[x] = g[x]
    PROVE  f = g
<1>1. [x \in S |-> f[x]] = [x \in S |-> g[x]]
    OBVIOUS
<1>2. QED
    BY <1>1

LEMMA RowAndRest ==
    ASSUME NEW f, NEW g, NEW o, NEW R, NEW row, o \notin R,
           f = [x \in {o} \cup R |-> f[x]], f[o] = row,
           g = [x \in R |-> g[x]], \A x \in R : f[x] = g[x]
    PROVE  f = Row(o, row) \oplus g
<1> DEFINE h == Row(o, row) \oplus g
<1>1. h = [x \in {o} \cup R |-> IF x = o THEN row ELSE g[x]]
    BY DEF Row, \oplus
<1>2. /\ h = [x \in {o} \cup R |-> h[x]]
      /\ \A x \in {o} \cup R : f[x] = h[x]
    BY <1>1
<1> HIDE DEF h
<1>3. f = h
    BY <1>2, SameRows
<1>4. QED
    BY <1>3 DEF h

(* The acceptances: the rows that were rejected along the way are pending    *)
(* still, and what was read of them is still so.                            *)
LEMMA CommitAccepts ==
    ASSUME IInv, LedgerInv, NEW r \in Requests, Commit(r), Accepting(r)
    PROVE  \E o \in DOMAIN offers :
              \E R \in SUBSET DOMAIN offers, N \in SUBSET DOMAIN negotiations :
                 \/ Ledger!Accept(o, R, N)
                 \/ \E n \in DOMAIN negotiations, price \in Prices :
                       Ledger!AcceptProposal(o, n, price, R, N)
<1> DEFINE o == req[r].offer
           n == req[r].neg
           p == offers[o].post
           price == IF req[r].op = "accept_offer" THEN offers[o].price ELSE req[r].price
           R == DOMAIN w[r].offers \ {o}
           N == DOMAIN w[r].negotiations \ {n}
<1>1. /\ TypeOK /\ LocalsInv(r) /\ CounterInv(r) /\ AcceptedOffer(r) /\ RejectedOffers(r)
      /\ FulfilledPost(r) /\ AcceptedNegotiations(r) /\ pc[r] = "commit"
    BY DEF IInv, LedgerInv, RowsInv, Commit
<1>2. o \in DOMAIN offers
    BY <1>1 DEF LocalsInv, Accepting, AcceptOps, Ops
<1>3. offers[o] \in OfferRow /\ p \in PostIds
    BY <1>1, <1>2, Kinds DEF OfferRow
<1>4. posts' = [posts EXCEPT ![p] = "fulfilled"]
  <2>1. w[r].posts = Row(p, "fulfilled")
      BY <1>1 DEF FulfilledPost
  <2>2. posts \in Tables(PostIds, RequestStatus) /\ DOMAIN posts = PostIds
      BY <1>1, TableIsFunction DEF TypeOK
  <2>3. posts' = Row(p, "fulfilled") \oplus posts
      BY <2>1, CommitWrites
  <2> HIDE DEF p
  <2>4. QED
      BY <1>3, <2>2, <2>3, RowOver
<1>5. /\ o \in DOMAIN w[r].offers
      /\ w[r].offers[o] = AcceptedRow(o, price)
    BY <1>1 DEF AcceptedOffer, BeforeOffer
<1>6. \A x \in R : /\ x \in DOMAIN offers /\ offers[x].status = "pending"
                   /\ offers[x].post = p
                   /\ w[r].offers[x] = RejectedRow(x, n)
    BY <1>1 DEF RejectedOffers
<1>7. \A m \in N : /\ m \in DOMAIN negotiations /\ negotiations[m].status = "pending"
                   /\ offers[negotiations[m].offer].post = p
                   /\ w[r].negotiations[m] = [negotiations[m] EXCEPT !.status = "rejected"]
    BY <1>1 DEF AcceptedNegotiations, PostOf
<1>8. /\ w[r].offers = [x \in {o} \cup R |-> w[r].offers[x]]
      /\ w[r].negotiations = [m \in DOMAIN w[r].negotiations |-> w[r].negotiations[m]]
  <2>1. /\ w[r].offers \in Tables(OfferIds, OfferRow)
        /\ w[r].negotiations \in Tables(NegotiationIds, NegotiationRow)
      BY <1>1, Kinds
  <2>2. /\ w[r].offers = [x \in DOMAIN w[r].offers |-> w[r].offers[x]]
        /\ w[r].negotiations = [m \in DOMAIN w[r].negotiations |-> w[r].negotiations[m]]
      BY <2>1, TableIsFunction
  <2>3. DOMAIN w[r].offers = {o} \cup R
      BY <1>5
  <2>4. QED
      BY <2>2, <2>3
<1>9. R \in SUBSET DOMAIN offers /\ N \in SUBSET DOMAIN negotiations
    BY <1>6, <1>7
<1>10. Ledger!Rejectable(o, R, N)
    BY <1>6, <1>7 DEF Ledger!Rejectable, Ledger!Pending
<1>11. /\ offers' = w[r].offers \oplus offers
       /\ negotiations' = w[r].negotiations \oplus negotiations
    BY CommitWrites
<1>12. CASE n = 0
  <2>1. price = offers[o].price
      BY <1>1, <1>12 DEF CounterInv, Accepting, AcceptOps
  <2>2. AcceptedRow(o, price) = [offers[o] EXCEPT !.status = "accepted",
                                                  !.negotiation_status = "completed"]
      BY <1>3, <2>1 DEF AcceptedRow, OfferRow
  <2>3. \A x \in R : w[r].offers[x] = [offers[x] EXCEPT !.status = "rejected"]
    <3>1. ASSUME NEW x \in R PROVE w[r].offers[x] = [offers[x] EXCEPT !.status = "rejected"]
      <4>1. offers[x] \in OfferRow
          BY <1>1, <1>6, Kinds
      <4>2. w[r].offers[x] = [offers[x] EXCEPT !.status = "rejected",
                                               !.negotiation_status = @]
          BY <1>6, <1>12 DEF RejectedRow
      <4>3. QED
          BY <4>1, <4>2 DEF OfferRow
    <3>2. QED
        BY <3>1
  <2>4. w[r].offers = Row(o, [offers[o] EXCEPT !.status = "accepted",
                                              !.negotiation_status = "completed"])
                         \oplus Ledger!Rejected(offers, R)
    <3> DEFINE g == Ledger!Rejected(offers, R)
    <3>1. g = [x \in R |-> g[x]] /\ \A x \in R : w[r].offers[x] = g[x]
        BY <2>3 DEF Ledger!Rejected
    <3> DEFINE row == [offers[o] EXCEPT !.status = "accepted",
                                        !.negotiation_status = "completed"]
    <3>2. w[r].offers[o] = row /\ o \notin R
        BY <1>5, <2>2
    <3> HIDE DEF g, R, row
    <3>3. w[r].offers = Row(o, row) \oplus g
        BY <1>8, <3>1, <3>2, RowAndRest
    <3>4. QED
        BY <3>3 DEF g, row
  <2>5. DOMAIN w[r].negotiations = N
      BY <1>1, <1>12, Kinds, BoundAssumption DEF NegotiationIds
  <2>6. w[r].negotiations = Ledger!Rejected(negotiations, N)
    <3> DEFINE g == Ledger!Rejected(negotiations, N)
    <3>1. g = [m \in N |-> g[m]] /\ \A m \in N : w[r].negotiations[m] = g[m]
        BY <1>7 DEF Ledger!Rejected
    <3> HIDE DEF g, N
    <3>2. QED
        BY <1>8, <2>5, <3>1, SameRows DEF g
  <2>7. Ledger!Accept(o, R, N)
      BY <1>4, <1>10, <1>11, <2>4, <2>6, LedgerOperators DEF Ledger!Accept
  <2>8. QED
      BY <1>2, <1>9, <2>7
<1>13. CASE n # 0
  <2>1. n \in DOMAIN negotiations /\ negotiations[n].offer = o
      BY <1>1, <1>13 DEF LocalsInv, Accepting
  <2>2. /\ n \in DOMAIN w[r].negotiations
        /\ w[r].negotiations[n] = [negotiations[n] EXCEPT !.status = "accepted"]
      BY <1>1, <1>13 DEF AcceptedNegotiations, BeforeNegotiation, BeforeOffer
  <2>3. price \in {offers[o].price, negotiations[n].price}
      BY <1>1 DEF CounterInv, Accepting, AcceptOps
  <2>4. price \in Prices
      BY <1>1, <1>3, <2>1, <2>3, Kinds DEF OfferRow, NegotiationRow
  <2>5. \A x \in R : w[r].offers[x] = [offers[x] EXCEPT !.status = "rejected",
                                                       !.negotiation_status = "completed"]
      BY <1>6, <1>13 DEF RejectedRow
  <2>6. w[r].offers = Row(o, [offers[o] EXCEPT !.status = "accepted", !.price = price,
                                              !.negotiation_status = "completed"])
                         \oplus [x \in R |-> [offers[x] EXCEPT
                                             !.status = "rejected",
                                             !.negotiation_status = "completed"]]
    <3> DEFINE g == [x \in R |-> [offers[x] EXCEPT !.status = "rejected",
                                           !.negotiation_status = "completed"]]
               row == [offers[o] EXCEPT !.status = "accepted", !.price = price,
                                        !.negotiation_status = "completed"]
    <3>1. g = [x \in R |-> g[x]] /\ \A x \in R : w[r].offers[x] = g[x]
        BY <2>5
    <3>2. w[r].offers[o] = row /\ o \notin R
        BY <1>5 DEF AcceptedRow
    <3> HIDE DEF g, R, row
    <3>3. w[r].offers = Row(o, row) \oplus g
        BY <1>8, <3>1, <3>2, RowAndRest
    <3>4. QED
        BY <3>3 DEF g, row
  <2>7. w[r].negotiations = Row(n, [negotiations[n] EXCEPT !.status = "accepted"])
                               \oplus Ledger!Rejected(negotiations, N)
    <3>1. DOMAIN w[r].negotiations = {n} \cup N
        BY <2>2
    <3>2. w[r].negotiations = [m \in {n} \cup N |-> w[r].negotiations[m]]
        BY <1>8, <3>1
    <3> DEFINE g == Ledger!Rejected(negotiations, N)
               row == [negotiations[n] EXCEPT !.status = "accepted"]
    <3>3. g = [m \in N |-> g[m]] /\ \A m \in N : w[r].negotiations[m] = g[m]
        BY <1>7 DEF Ledger!Rejected
    <3>4. w[r].negotiations[n] = row /\ n \notin N
        BY <2>2
    <3> HIDE DEF g, N, row
    <3>5. w[r].negotiations = Row(n, row) \oplus g
        BY <3>2, <3>3, <3>4, RowAndRest
    <3>6. QED
        BY <3>5 DEF g, row
  <2>8. Ledger!AcceptProposal(o, n, price, R, N)
    <3> HIDE DEF price
    <3>1. QED
        BY <1>4, <1>10, <1>11, <2>1, <2>3, <2>6, <2>7, LedgerOperators
           DEF Ledger!AcceptProposal
  <2>9. QED
      BY <1>2, <1>9, <2>1, <2>4, <2>8
<1>14. QED
    BY <1>12, <1>13

LEMMA CommitRefines ==
    ASSUME IInv, LedgerInv, NEW r \in Requests, Commit(r)
    PROVE  Ledger!Next \/ UNCHANGED <<posts, offers, negotiations>>
<1>1. CASE Creating(r)
    BY <1>1, CommitCreates DEF Ledger!Next
<1>2. CASE req[r].op \in {"update_offer", "reject_offer"}
    BY <1>2, CommitOfDirect
<1>3. CASE Negotiating(r)
    BY <1>3, CommitNegotiates DEF Ledger!Next
<1>4. CASE Accepting(r)
    BY <1>4, CommitAccepts DEF Ledger!Next
<1>5. QED
    BY <1>1, <1>2, <1>3, <1>4, CommitWrites DEF Ops, Creating, Negotiating, Accepting

LEMMA DirectRefines ==
    ASSUME IInv, NEW r \in Requests, UpdateOffer(r) \/ RejectOffer(r)
    PROVE  Ledger!Next
<1> DEFINE o == req[r].offer
<1>1. o \in DOMAIN offers
  <2>1. LocalsInv(r) /\ pc[r] \in {"update", "reject"}
      BY DEF IInv, UpdateOffer, RejectOffer
  <2>2. QED
      BY <2>1 DEF LocalsInv, Ops
<1>2. CASE UpdateOffer(r)
  <2>1. PICK price \in Prices : offers' = [offers EXCEPT ![o].price = price]
      BY <1>2 DEF UpdateOffer
  <2>2. Ledger!Update(o, price)
      BY <1>2, <2>1 DEF UpdateOffer, Ledger!Update
  <2>3. QED
      BY <1>1, <2>2 DEF Ledger!Next
<1>3. CASE RejectOffer(r)
  <2>1. Ledger!Reject(o)
      BY <1>3 DEF RejectOffer, Ledger!Reject
  <2>2. QED
      BY <1>1, <2>1 DEF Ledger!Next
<1>4. QED
    BY <1>2, <1>3

LEMMA StepRefines ==
    ASSUME IInv, LedgerInv, [Next]_vars
    PROVE  [Ledger!Next]_(Ledger!ledger)
<1> SUFFICES Ledger!Next \/ UNCHANGED <<posts, offers, negotiations>>
    BY DEF Ledger!ledger
<1>1. ASSUME NEW r \in Requests, Step(r), ~ Commit(r), ~ UpdateOffer(r), ~ RejectOffer(r)
      PROVE  UNCHANGED <<posts, offers, negotiations>>
    BY <1>1 DEF Step, NegotiateUpdateOffer, NegotiateInsert, AcceptOffer, PickLatest,
       PickCounter, AcceptCounter, AcceptNegotiation, RejectOtherNegotiations, SeeRivals,
       SeeOthersNegotiations, See, RejectRivals, RejectOthersNegotiations,
       RejectNegotiations, FulfilPost, Publish, Then, tables
<1>2. ASSUME NEW r \in Requests, Arrive(r) \/ Fail(r)
      PROVE  UNCHANGED <<posts, offers, negotiations>>
    BY <1>2 DEF Arrive, CreateOffer, NegotiateStart, UpdateOfferCheck, RejectOfferCheck,
       AcceptOfferCheck, AcceptCounterCheck, CheckPending, Begin, Then, Fail, tables
<1>3. CASE UNCHANGED vars
    BY <1>3 DEF vars
<1>4. QED
    BY <1>1, <1>2, <1>3, CommitRefines, DirectRefines DEF Next

(* The requests, with their statements, locks and commits, implement the     *)
(* ledger whose operations are single steps: what an acceptance read along   *)
(* its statements is what it finds at its commit.                           *)
THEOREM LedgerIsImplemented == Spec => RefinesLedger
<1>1. Init => Ledger!Init
    BY LedgerOperators DEF Init, Ledger!Init
<1>2. IInv /\ LedgerInv /\ [Next]_vars => [Ledger!Next]_(Ledger!ledger)
    BY StepRefines
<1>3. QED
    BY <1>1, <1>2, LedgerInvariance, PTL DEF Spec, RefinesLedger, Ledger!Spec


-----------------------------------------------------------------------------
(* As long as no two requests overlap, what a request has read is still so   *)
(* when it commits, and what its statements dealt with is all there is.     *)

(* An offer that is open has no decided negotiation. *)
OpenOffersAreOpen ==
    \A n \in DOMAIN negotiations :
        offers[negotiations[n].offer].status = "pending" => negotiations[n].status = "pending"

Mirrored == \A n \in DOMAIN negotiations : messages[n] = negotiations[n].status

OneDeal ==
    \A n, m \in DOMAIN negotiations :
        /\ negotiations[n].offer = negotiations[m].offer
        /\ negotiations[n].status = "accepted" /\ negotiations[m].status = "accepted"
        => n = m

FulfilledHaveDeals ==
    \A p \in PostIds : posts[p] = "fulfilled" =>
        \E o \in DOMAIN offers : offers[o].post = p /\ offers[o].status = "accepted"

TablesInv == OpenOffersAreOpen /\ Mirrored /\ OneDeal /\ FulfilledHaveDeals

(* What the checks of a handler found. *)
StillPending(r) ==
    Accepting(r) \/ pc[r] \in {"update", "reject"} =>
        offers[req[r].offer].status = "pending"

(* What the statements so far have dealt with. *)
Settled(r) ==
    LET o == req[r].offer
        n == req[r].neg
    IN  Accepting(r) =>
        /\ pc[r] \notin {"accept", "pick", "pick_counter"} =>
              IF n = 0 THEN PendingOf(o) = {} ELSE IsLatest(n, PendingOf(o))
        /\ pc[r] = "reject_rivals" => req[r].seen = Rivals(o)
        /\ pc[r] = "reject_others_negs" => req[r].seen = OthersPending(o)
        /\ pc[r] \in {"see_rivals", "reject_rivals", "see_others_negs", "reject_others_negs",
                      "fulfil", "publish", "commit"} =>
              PendingOf(o) \subseteq DOMAIN w[r].negotiations
        /\ pc[r] \in {"see_others_negs", "reject_others_negs", "fulfil", "publish", "commit"} =>
              Rivals(o) \subseteq DOMAIN w[r].offers
        /\ pc[r] \in {"fulfil", "publish", "commit"} =>
              OthersPending(o) \subseteq DOMAIN w[r].negotiations

(* The messages that are written belong to the negotiations that are, or    *)
(* will be.                                                                *)
MessagesFollow(r) ==
    LET o == req[r].offer
    IN  Accepting(r) =>
        \A m \in DOMAIN w[r].messages :
            \/ /\ m \in DOMAIN w[r].negotiations
               /\ w[r].messages[m] = w[r].negotiations[m].status
            \/ pc[r] \in {"accept_neg", "reject_negs"} /\ m \in PendingOf(o)
            \/ /\ pc[r] \in {"see_others_negs", "reject_others_negs"}
               /\ m \in OthersPending(o)
               /\ w[r].messages[m] = "rejected"

OnItsOwn(r) == StillPending(r) /\ Settled(r) /\ MessagesFollow(r)

Undisturbed ==
    /\ ~ Overlap
    /\ \A r \in Requests : OnItsOwn(r)
    /\ TablesInv

-----------------------------------------------------------------------------
(* A request that is not under way. *)
LEMMA IdleOnItsOwn ==
    ASSUME NEW r \in Requests, pc'[r] = "idle", req'[r] = NoLocals
    PROVE  OnItsOwn(r)'
<1>1. req'[r].op = "none"
    BY DEF NoLocals
<1>2. QED
    BY <1>1 DEF OnItsOwn, StillPending, Settled, MessagesFollow, Accepting, AcceptOps

LEMMA NotAccepting ==
    ASSUME NEW r \in Requests, req'[r].op \notin AcceptOps, pc'[r] \notin {"update", "reject"}
    PROVE  OnItsOwn(r)'
BY DEF OnItsOwn, StillPending, Settled, MessagesFollow, Accepting

(* The steps that begin a request. *)
LEMMA ArriveAlone ==
    ASSUME IInv, NEW r \in Requests, Arrive(r)
    PROVE  OnItsOwn(r)'
<1>1. TypeOK /\ LocalsInv(r)
    BY DEF IInv
<1>2. ASSUME NEW o, NEW op, NEW label, CheckPending(r, o, op, label),
             \/ label \in {"update", "reject"} /\ op \notin AcceptOps
             \/ label \in {"accept", "pick_counter"}
      PROVE  OnItsOwn(r)'
  <2>1. /\ pc[r] = "idle" /\ pc'[r] = label /\ req'[r].offer = o
        /\ w'[r] = w[r] /\ offers' = offers /\ offers[o].status = "pending"
      BY <1>1, <1>2 DEF CheckPending, Begin, TypeOK
  <2>2. DOMAIN w'[r].messages = {}
      BY <1>1, <2>1 DEF LocalsInv, NoWrites, NoRows
  <2>3. QED
    <3>1. StillPending(r)' /\ MessagesFollow(r)'
        BY <2>1, <2>2 DEF StillPending, MessagesFollow
    <3>2. req'[r].op = op
        BY <1>1, <1>2 DEF CheckPending, Begin, TypeOK
    <3>3. Settled(r)'
        BY <1>2, <2>1, <3>2 DEF Settled, Accepting
    <3>4. QED
        BY <3>1, <3>3 DEF OnItsOwn
<1>3. ASSUME NEW o, NEW p, NEW u, NEW price, CreateOffer(r, o, p, u, price)
      PROVE  OnItsOwn(r)'
  <2>1. req'[r].op = "create_offer" /\ pc'[r] = "publish"
      BY <1>1, <1>3 DEF CreateOffer, Then, TypeOK
  <2>2. QED
      BY <2>1, NotAccepting DEF AcceptOps
<1>4. ASSUME NEW o, NEW u, NEW price, NEW n, NegotiateStart(r, o, u, price, n)
      PROVE  OnItsOwn(r)'
  <2>1. req'[r].op = "negotiate_offer" /\ pc'[r] = "negotiate"
      BY <1>1, <1>4 DEF NegotiateStart, Begin, TypeOK
  <2>2. QED
      BY <2>1, NotAccepting DEF AcceptOps
<1>5. QED
    BY <1>2, <1>3, <1>4
       DEF Arrive, AcceptOps, UpdateOfferCheck, RejectOfferCheck, AcceptOfferCheck, AcceptCounterCheck

(* The ends of a request. *)
LEMMA EndAlone ==
    ASSUME IInv, NEW r \in Requests, End(r)
    PROVE  OnItsOwn(r)'
<1>1. pc'[r] = "idle" /\ req'[r] = NoLocals
    BY DEF IInv, TypeOK, End
<1>2. QED
    BY <1>1, IdleOnItsOwn

(* The statements of the handlers that accept nothing. *)
LEMMA OtherStatementsAlone ==
    ASSUME IInv, NEW r \in Requests,
           \/ NegotiateUpdateOffer(r) \/ NegotiateInsert(r)
           \/ UpdateOffer(r) \/ RejectOffer(r)
    PROVE  OnItsOwn(r)'
<1>1. TypeOK /\ LocalsInv(r)
    BY DEF IInv
<1>2. /\ pc[r] \in {"negotiate", "insert", "update", "reject"}
      /\ pc'[r] \in {"insert", "publish"} /\ req' = req
    BY <1>1 DEF NegotiateUpdateOffer, NegotiateInsert, UpdateOffer, RejectOffer, Then, TypeOK
<1>3. req'[r].op \notin AcceptOps
    BY <1>1, <1>2 DEF LocalsInv, Negotiating, AcceptOps
<1>4. QED
    BY <1>2, <1>3, NotAccepting

-----------------------------------------------------------------------------
(* The statements of accept_offer and accept_counter_offer. *)

(* Until a negotiation is accepted only accept_counter_offer has written a   *)
(* message, with its offer.                                                 *)
LEMMA NoMessagesYet ==
    ASSUME NEW r \in Requests, Accepting(r), AcceptedNegotiations(r), MessagesFollow(r),
           pc[r] \in {"accept", "pick", "pick_counter", "accept_counter"}
    PROVE  DOMAIN w[r].negotiations = {} /\ DOMAIN w[r].messages = {}
<1>1. DOMAIN w[r].negotiations = {}
    BY DEF AcceptedNegotiations, BeforeNegotiation, BeforeOffer, NoRows
<1>2. QED
    BY <1>1 DEF MessagesFollow

LEMMA AcceptOfferAlone ==
    ASSUME IInv, LedgerInv, NEW r \in Requests, OnItsOwn(r), AcceptOffer(r)
    PROVE  OnItsOwn(r)'
<1>1. TypeOK /\ LocalsInv(r) /\ AcceptedNegotiations(r)
    BY DEF IInv, LedgerInv, RowsInv
<1>2. pc[r] = "accept" /\ pc'[r] = "pick" /\ UNCHANGED <<tables, req>>
    BY <1>1 DEF AcceptOffer, Then, TypeOK
<1>3. Accepting(r)
    BY <1>1, <1>2 DEF LocalsInv, AcceptLabels, Accepting
<1>4. w'[r].messages = w[r].messages
    BY <1>1, OfferWritten DEF AcceptOffer
<1>5. DOMAIN w[r].messages = {}
    BY <1>1, <1>2, <1>3, NoMessagesYet DEF OnItsOwn
<1>6. StillPending(r)'
    BY <1>2, <1>3 DEF OnItsOwn, StillPending, tables
<1>7. QED
    BY <1>2, <1>4, <1>5, <1>6 DEF OnItsOwn, Settled, MessagesFollow

LEMMA PickAlone ==
    ASSUME IInv, LedgerInv, NEW r \in Requests, OnItsOwn(r), PickLatest(r) \/ PickCounter(r)
    PROVE  OnItsOwn(r)'
<1> DEFINE o == req[r].offer
<1>1. TypeOK /\ LocalsInv(r) /\ AcceptedOffer(r) /\ AcceptedNegotiations(r)
    BY DEF IInv, LedgerInv, RowsInv
<1>2. pc[r] \in {"pick", "pick_counter"} /\ UNCHANGED tables
    BY DEF PickLatest, PickCounter, Then
<1>3. Accepting(r) /\ req[r].neg = 0
    BY <1>1, <1>2 DEF LocalsInv, AcceptLabels, Accepting, AcceptedOffer
<1>4. DOMAIN w[r].messages = {} /\ offers[o].status = "pending"
    BY <1>1, <1>2, <1>3, NoMessagesYet DEF OnItsOwn, StillPending
<1>5. CASE End(r)
    BY <1>5, EndAlone
<1>6. ASSUME NEW n \in PendingOf(o), IsLatest(n, PendingOf(o)), w'[r] = w[r],
             req'[r].neg = n, req'[r].offer = o,
             pc'[r] \in {"accept_neg", "accept_counter"}
      PROVE  OnItsOwn(r)'
  <2>1. n # 0
      BY <1>1, Kinds, BoundAssumption DEF PendingOf, NegotiationIds
  <2>2. Settled(r)'
      BY <1>2, <1>6, <2>1 DEF Settled, IsLatest, PendingOf, tables
  <2>3. DOMAIN w'[r].messages = {} /\ offers'[req'[r].offer].status = "pending"
      BY <1>2, <1>4, <1>6 DEF tables
  <2>4. QED
      BY <2>2, <2>3 DEF OnItsOwn, StillPending, MessagesFollow
<1>7. ASSUME PendingOf(o) = {}, pc'[r] = "see_rivals", UNCHANGED <<req, w>>
      PROVE  OnItsOwn(r)'
  <2>1. Settled(r)'
      BY <1>2, <1>3, <1>7 DEF Settled, PendingOf, tables
  <2>2. QED
      BY <1>2, <1>4, <1>7, <2>1 DEF OnItsOwn, StillPending, MessagesFollow, tables
<1>8. CASE PickLatest(r)
  <2>1. CASE \E n \in PendingOf(o) :
                /\ IsLatest(n, PendingOf(o))
                /\ req' = [req EXCEPT ![r].neg = n]
                /\ Then(r, "accept_neg")
    <3>1. PICK n \in PendingOf(o) :
              /\ IsLatest(n, PendingOf(o))
              /\ req' = [req EXCEPT ![r].neg = n]
              /\ Then(r, "accept_neg")
        BY <2>1
    <3>2. /\ req'[r].neg = n /\ req'[r].offer = o
          /\ pc'[r] = "accept_neg" /\ w'[r] = w[r]
        BY <1>1, <1>8, <3>1 DEF PickLatest, Then, TypeOK, Locals
    <3>3. QED
        BY <1>6, <3>1, <3>2
  <2>2. CASE PendingOf(o) = {} /\ Then(r, "see_rivals") /\ UNCHANGED req
      BY <1>1, <1>7, <1>8, <2>2 DEF PickLatest, Then, TypeOK
  <2>3. QED
      BY <1>8, <2>1, <2>2 DEF PickLatest
<1>9. CASE PickCounter(r)
  <2>1. CASE \E n \in PendingOf(o) :
                /\ IsLatest(n, PendingOf(o))
                /\ req' = [req EXCEPT ![r].neg = n, ![r].price = negotiations[n].price]
                /\ Then(r, "accept_counter")
                /\ UNCHANGED w
    <3>1. PICK n \in PendingOf(o) :
              /\ IsLatest(n, PendingOf(o))
              /\ req' = [req EXCEPT ![r].neg = n, ![r].price = negotiations[n].price]
              /\ Then(r, "accept_counter")
              /\ UNCHANGED w
        BY <2>1
    <3>2. /\ req'[r].neg = n /\ req'[r].offer = o
          /\ pc'[r] = "accept_counter" /\ w'[r] = w[r]
        BY <1>1, <3>1 DEF Then, TypeOK, Locals
    <3>3. QED
        BY <1>6, <3>1, <3>2
  <2>2. QED
      BY <1>5, <1>9, <2>1 DEF PickCounter
<1>10. QED
    BY <1>8, <1>9

LEMMA AcceptCounterAlone ==
    ASSUME IInv, LedgerInv, NEW r \in Requests, OnItsOwn(r), OpenOffersAreOpen,
           AcceptCounter(r)
    PROVE  OnItsOwn(r)'
<1> DEFINE o == req[r].offer
           msgs == MessagesOf({o})
           shown == [n \in msgs |-> "accepted"]
           row == AcceptedRow(o, req[r].price)
<1>1. TypeOK /\ LocalsInv(r) /\ AcceptedNegotiations(r) /\ DOMAIN messages = DOMAIN negotiations
    BY DEF IInv, LedgerInv, RowsInv
<1>2. pc[r] = "accept_counter" /\ pc'[r] = "accept_neg" /\ UNCHANGED <<tables, req>>
    BY <1>1 DEF AcceptCounter, Then, TypeOK
<1>3. Accepting(r) /\ Accepting(r)'
    BY <1>1, <1>2 DEF LocalsInv, AcceptLabels, Accepting
<1>4. StillPending(r) /\ Settled(r) /\ offers[o].status = "pending"
    BY <1>3 DEF OnItsOwn, StillPending
<1>5. w' = [w EXCEPT ![r].offers = Row(o, row), ![r].messages = shown]
    BY DEF AcceptCounter
<1> HIDE DEF shown, row
<1>6. w'[r].messages = shown
    BY <1>1, <1>5 DEF TypeOK, WriteSets
<1>7. DOMAIN shown \subseteq PendingOf(o)
    BY <1>1, <1>4 DEF shown, MessagesOf, PendingOf, OpenOffersAreOpen
<1>8. StillPending(r)' /\ Settled(r)'
    BY <1>2, <1>3, <1>4 DEF StillPending, Settled, PendingOf, IsLatest, tables
<1>9. MessagesFollow(r)'
    BY <1>2, <1>6, <1>7 DEF MessagesFollow, PendingOf, tables
<1>10. QED
    BY <1>8, <1>9 DEF OnItsOwn

LEMMA AcceptNegotiationAlone ==
    ASSUME IInv, LedgerInv, NEW r \in Requests, OnItsOwn(r), AcceptNegotiation(r)
    PROVE  OnItsOwn(r)'
<1> DEFINE n == req[r].neg
           row == [negotiations[n] EXCEPT !.status = "accepted"]
           shown == Row(n, "accepted") \oplus w[r].messages
<1>1. TypeOK /\ LocalsInv(r) /\ AcceptedNegotiations(r)
    BY DEF IInv, LedgerInv, RowsInv
<1>2. pc[r] = "accept_neg" /\ pc'[r] = "reject_negs" /\ UNCHANGED <<tables, req>>
    BY <1>1 DEF AcceptNegotiation, Then, TypeOK
<1>3. Accepting(r) /\ Accepting(r)' /\ n \in DOMAIN negotiations
    BY <1>1, <1>2 DEF LocalsInv, AcceptLabels, Accepting
<1>4. StillPending(r) /\ Settled(r) /\ MessagesFollow(r)
    BY DEF OnItsOwn
<1>5. w' = [w EXCEPT ![r].negotiations = Row(n, row), ![r].messages = shown]
    BY <1>1 DEF AcceptNegotiation, TypeOK, WriteSets
<1>6. row.status = "accepted"
    BY <1>1, <1>3, Kinds DEF NegotiationRow
<1>7. /\ DOMAIN shown = {n} \cup DOMAIN w[r].messages
      /\ shown[n] = "accepted"
      /\ \A m \in DOMAIN w[r].messages \ {n} : shown[m] = w[r].messages[m]
  <2>1. DOMAIN Row(n, "accepted") = {n} /\ Row(n, "accepted")[n] = "accepted"
      BY DEF Row
  <2>2. QED
      BY <2>1 DEF \oplus
<1> HIDE DEF row, shown
<1>8. w'[r].negotiations = Row(n, row) /\ w'[r].messages = shown
    BY <1>1, <1>5, NegotiationWritten
<1>9. DOMAIN w'[r].negotiations = {n} /\ w'[r].negotiations[n] = row
    BY <1>8 DEF Row
<1>10. StillPending(r)' /\ Settled(r)'
    BY <1>2, <1>3, <1>4 DEF StillPending, Settled, PendingOf, IsLatest, tables
<1>11. DOMAIN w[r].negotiations = {}
    BY <1>1, <1>2, <1>3 DEF AcceptedNegotiations, BeforeNegotiation, NoRows
<1>12. MessagesFollow(r)'
    BY <1>2, <1>3, <1>4, <1>6, <1>7, <1>8, <1>9, <1>11 DEF MessagesFollow, PendingOf, tables
<1>13. QED
    BY <1>10, <1>12 DEF OnItsOwn

(* A rejection leaves none of the negotiations it selects out. *)
LEMMA RejectedWrites ==
    ASSUME TypeOK, NEW r \in Requests, NEW S, S \subseteq DOMAIN negotiations,
           NEW label, RejectNegotiations(r, S, label)
    PROVE  /\ pc'[r] = label /\ UNCHANGED <<tables, req>>
           /\ w'[r].offers = w[r].offers
           /\ DOMAIN w'[r].negotiations = S \cup DOMAIN w[r].negotiations
           /\ DOMAIN w'[r].messages = S \cup DOMAIN w[r].messages
           /\ \A m \in S : /\ w'[r].negotiations[m].status = "rejected"
                           /\ w'[r].messages[m] = "rejected"
           /\ \A m \in DOMAIN w[r].negotiations \ S :
                 w'[r].negotiations[m] = w[r].negotiations[m]
           /\ \A m \in DOMAIN w[r].messages \ S : w'[r].messages[m] = w[r].messages[m]
<1>1. /\ w'[r].offers = w[r].offers
      /\ DOMAIN w'[r].negotiations = S \cup DOMAIN w[r].negotiations
      /\ DOMAIN w'[r].messages = S \cup DOMAIN w[r].messages
      /\ \A m \in S : w'[r].messages[m] = "rejected"
      /\ \A m \in DOMAIN w[r].negotiations \ S :
             w'[r].negotiations[m] = w[r].negotiations[m]
      /\ \A m \in DOMAIN w[r].messages \ S : w'[r].messages[m] = w[r].messages[m]
    BY ManyNegotiations
<1>2. \A m \in S : w'[r].negotiations[m] = [negotiations[m] EXCEPT !.status = "rejected"]
    BY ManyNegotiations
<1>3. \A m \in S : negotiations[m] \in NegotiationRow
    BY Kinds
<1>4. \A m \in S : w'[r].negotiations[m].status = "rejected"
    BY <1>2, <1>3 DEF NegotiationRow
<1>5. pc'[r] = label /\ UNCHANGED <<tables, req>>
    BY DEF RejectNegotiations, Then, TypeOK
<1>6. QED
    BY <1>1, <1>4, <1>5

LEMMA RejectOtherNegotiationsAlone ==
    ASSUME IInv, LedgerInv, NEW r \in Requests, OnItsOwn(r), RejectOtherNegotiations(r)
    PROVE  OnItsOwn(r)'
<1> DEFINE o == req[r].offer
           n == req[r].neg
           S == PendingOf(o) \ {n}
<1>1. /\ TypeOK /\ LocalsInv(r) /\ AcceptedOffer(r) /\ AcceptedNegotiations(r)
      /\ AcceptedMessages(r)
    BY DEF IInv, LedgerInv, RowsInv
<1>2. pc[r] = "reject_negs" /\ RejectNegotiations(r, S, "see_rivals")
    BY DEF RejectOtherNegotiations
<1>3. Accepting(r) /\ n # 0
    BY <1>1, <1>2 DEF LocalsInv, AcceptLabels, Accepting
<1>4. StillPending(r) /\ Settled(r) /\ MessagesFollow(r)
    BY DEF OnItsOwn
<1>5. S \subseteq DOMAIN negotiations
    BY DEF PendingOf
<1> HIDE DEF S
<1>6. /\ pc'[r] = "see_rivals" /\ UNCHANGED <<tables, req>>
      /\ DOMAIN w'[r].negotiations = S \cup DOMAIN w[r].negotiations
      /\ DOMAIN w'[r].messages = S \cup DOMAIN w[r].messages
      /\ \A m \in S : /\ w'[r].negotiations[m].status = "rejected"
                      /\ w'[r].messages[m] = "rejected"
      /\ \A m \in DOMAIN w[r].negotiations \ S :
            w'[r].negotiations[m] = w[r].negotiations[m]
      /\ \A m \in DOMAIN w[r].messages \ S : w'[r].messages[m] = w[r].messages[m]
    BY <1>1, <1>2, <1>5, RejectedWrites
<1>7. /\ n \in DOMAIN w[r].negotiations /\ w[r].negotiations[n].status = "accepted"
      /\ w[r].messages[n] = "accepted"
  <2>1. /\ n \in DOMAIN w[r].negotiations
        /\ w[r].negotiations[n] = [negotiations[n] EXCEPT !.status = "accepted"]
      BY <1>1, <1>2, <1>3 DEF AcceptedNegotiations, BeforeNegotiation, BeforeOffer
  <2>2. negotiations[n] \in NegotiationRow
      BY <1>1, <1>3, Kinds DEF LocalsInv, Accepting
  <2>3. w[r].messages[n] = "accepted"
      BY <1>1, <1>3, <2>1 DEF AcceptedMessages
  <2>4. QED
      BY <2>1, <2>2, <2>3 DEF NegotiationRow
<1>8. StillPending(r)'
    BY <1>3, <1>4, <1>6 DEF StillPending, Accepting, tables
<1>9. Settled(r)'
  <2>1. IsLatest(n, PendingOf(o))
      BY <1>2, <1>3, <1>4 DEF Settled
  <2>2. PendingOf(o) \subseteq DOMAIN w'[r].negotiations
      BY <1>6, <1>7 DEF S
  <2>3. QED
      BY <1>3, <1>6, <2>1, <2>2 DEF Settled, PendingOf, IsLatest, tables
<1>10. MessagesFollow(r)'
  <2>1. ASSUME NEW m \in DOMAIN w'[r].messages
        PROVE  /\ m \in DOMAIN w'[r].negotiations
               /\ w'[r].messages[m] = w'[r].negotiations[m].status
    <3>1. CASE m \in S
        BY <1>6, <3>1
    <3>2. CASE m = n
        BY <1>6, <1>7, <3>2 DEF S
    <3>3. CASE m \notin S \cup {n}
      <4>1. /\ m \in DOMAIN w[r].negotiations
            /\ w[r].messages[m] = w[r].negotiations[m].status
          BY <1>2, <1>3, <1>4, <1>6, <3>3 DEF MessagesFollow, S
      <4>2. QED
          BY <1>6, <3>3, <4>1
    <3>4. QED
        BY <3>1, <3>2, <3>3
  <2>2. QED
      BY <2>1 DEF MessagesFollow
<1>11. QED
    BY <1>8, <1>9, <1>10 DEF OnItsOwn

LEMMA SeeAlone ==
    ASSUME IInv, LedgerInv, NEW r \in Requests, OnItsOwn(r),
           SeeRivals(r) \/ SeeOthersNegotiations(r)
    PROVE  OnItsOwn(r)'
<1> DEFINE o == req[r].offer
           n == req[r].neg
<1>1. TypeOK /\ LocalsInv(r)
    BY DEF IInv
<1>2. StillPending(r) /\ Settled(r) /\ MessagesFollow(r)
    BY DEF OnItsOwn
<1>3. Accepting(r) /\ req[r] \in Locals
    BY <1>1 DEF SeeRivals, SeeOthersNegotiations, LocalsInv, AcceptLabels, Accepting, TypeOK
<1>4. PICK S : req' = [req EXCEPT ![r].seen = S] /\ UNCHANGED <<tables, w>>
                  /\ \/ /\ pc[r] = "see_rivals" /\ pc'[r] = "reject_rivals"
                        /\ S = Rivals(o)
                     \/ /\ pc[r] = "see_others_negs" /\ pc'[r] = "reject_others_negs"
                        /\ S = OthersPending(o)
    BY <1>1 DEF SeeRivals, SeeOthersNegotiations, See, Then, TypeOK
<1>5. req'[r] = [req[r] EXCEPT !.seen = S]
    BY <1>1, <1>4 DEF TypeOK
<1>6. /\ req'[r].op = req[r].op /\ req'[r].offer = o /\ req'[r].neg = n
      /\ req'[r].seen = S
    BY <1>3, <1>5 DEF Locals
<1>7. UNCHANGED <<posts, offers, negotiations, messages, w>>
    BY <1>4 DEF tables
<1>8. StillPending(r)'
    BY <1>2, <1>3, <1>6, <1>7 DEF StillPending, Accepting
<1>9. \A m : m \in OthersPending(o) => m \in OthersPending(o)'
    BY <1>6, <1>7 DEF OthersPending
<1>10. Settled(r)'
  <2>1. /\ IF n = 0 THEN PendingOf(o) = {} ELSE IsLatest(n, PendingOf(o))
        /\ PendingOf(o) \subseteq DOMAIN w[r].negotiations
        /\ pc[r] = "see_others_negs" => Rivals(o) \subseteq DOMAIN w[r].offers
      BY <1>2, <1>3, <1>4 DEF Settled
  <2>2. QED
      BY <1>4, <1>6, <1>7, <2>1 DEF Settled, IsLatest, PendingOf, Rivals, OthersPending
<1>11. MessagesFollow(r)'
  <2>1. ASSUME NEW m \in DOMAIN w'[r].messages
        PROVE  \/ /\ m \in DOMAIN w'[r].negotiations
                  /\ w'[r].messages[m] = w'[r].negotiations[m].status
               \/ /\ pc'[r] = "reject_others_negs"
                  /\ m \in OthersPending(o)' /\ w'[r].messages[m] = "rejected"
      BY <1>2, <1>3, <1>4, <1>7, <1>9 DEF MessagesFollow
  <2>2. QED
      BY <1>6, <2>1 DEF MessagesFollow, OthersPending
<1>12. QED
    BY <1>8, <1>10, <1>11 DEF OnItsOwn

LEMMA RejectOthersNegotiationsAlone ==
    ASSUME IInv, LedgerInv, NEW r \in Requests, OnItsOwn(r), RejectOthersNegotiations(r)
    PROVE  OnItsOwn(r)'
<1> DEFINE o == req[r].offer
           S == OthersSeen(r)
<1>1. TypeOK /\ LocalsInv(r)
    BY DEF IInv
<1>2. pc[r] = "reject_others_negs" /\ RejectNegotiations(r, S, "fulfil")
    BY DEF RejectOthersNegotiations
<1>3. Accepting(r)
    BY <1>1, <1>2 DEF LocalsInv, AcceptLabels, Accepting
<1>4. StillPending(r) /\ Settled(r) /\ MessagesFollow(r)
    BY DEF OnItsOwn
<1>5. S \subseteq DOMAIN negotiations
    BY DEF OthersSeen, OthersPending
<1>5a. S = OthersPending(o)
    BY <1>2, <1>3, <1>4 DEF OthersSeen, Settled
<1> HIDE DEF S
<1>6. /\ pc'[r] = "fulfil" /\ UNCHANGED <<tables, req>>
      /\ w'[r].offers = w[r].offers
      /\ DOMAIN w'[r].negotiations = S \cup DOMAIN w[r].negotiations
      /\ DOMAIN w'[r].messages = S \cup DOMAIN w[r].messages
      /\ \A m \in S : /\ w'[r].negotiations[m].status = "rejected"
                      /\ w'[r].messages[m] = "rejected"
      /\ \A m \in DOMAIN w[r].negotiations \ S :
            w'[r].negotiations[m] = w[r].negotiations[m]
      /\ \A m \in DOMAIN w[r].messages \ S : w'[r].messages[m] = w[r].messages[m]
    BY <1>1, <1>2, <1>5, RejectedWrites
<1>7. StillPending(r)'
    BY <1>3, <1>4, <1>6 DEF StillPending, Accepting, tables
<1>8. Settled(r)'
  <2>1. /\ IF req[r].neg = 0 THEN PendingOf(o) = {} ELSE IsLatest(req[r].neg, PendingOf(o))
        /\ PendingOf(o) \subseteq DOMAIN w'[r].negotiations
        /\ Rivals(o) \subseteq DOMAIN w'[r].offers
      BY <1>2, <1>3, <1>4, <1>6 DEF Settled
  <2>2. OthersPending(o) \subseteq DOMAIN w'[r].negotiations
      BY <1>5a, <1>6
  <2>3. QED
      BY <1>6, <2>1, <2>2
         DEF Settled, PendingOf, IsLatest, Rivals, OthersPending, tables
<1>9. MessagesFollow(r)'
  <2>1. ASSUME NEW m \in DOMAIN w'[r].messages
        PROVE  /\ m \in DOMAIN w'[r].negotiations
               /\ w'[r].messages[m] = w'[r].negotiations[m].status
    <3>1. CASE m \in S
        BY <1>6, <3>1
    <3>2. CASE m \notin S
      <4>1. /\ m \in DOMAIN w[r].negotiations
            /\ w[r].messages[m] = w[r].negotiations[m].status
          BY <1>2, <1>3, <1>4, <1>5a, <1>6, <3>2 DEF MessagesFollow
      <4>2. QED
          BY <1>6, <3>2, <4>1
    <3>3. QED
        BY <3>1, <3>2
  <2>2. QED
      BY <2>1 DEF MessagesFollow
<1>10. QED
    BY <1>7, <1>8, <1>9 DEF OnItsOwn

LEMMA RejectRivalsAlone ==
    ASSUME IInv, LedgerInv, NEW r \in Requests, OnItsOwn(r), OpenOffersAreOpen,
           RejectRivals(r)
    PROVE  OnItsOwn(r)'
<1> DEFINE o == req[r].offer
           n == req[r].neg
           R == RivalsSeen(r)
           rows == [x \in R |-> RejectedRow(x, n)]
           shown == [m \in MessagesOf(R) |-> "rejected"]
<1>1. TypeOK /\ LocalsInv(r) /\ DOMAIN messages = DOMAIN negotiations
    BY DEF IInv, LedgerInv
<1>2. pc[r] = "reject_rivals" /\ pc'[r] = "see_others_negs" /\ UNCHANGED <<tables, req>>
    BY <1>1 DEF RejectRivals, Then, TypeOK
<1>3. Accepting(r)
    BY <1>1, <1>2 DEF LocalsInv, AcceptLabels, Accepting
<1>4. StillPending(r) /\ Settled(r) /\ MessagesFollow(r)
    BY DEF OnItsOwn
<1>4a. R = Rivals(o)
    BY <1>2, <1>3, <1>4 DEF RivalsSeen, Settled
<1>5. MessagesOf(R) \subseteq OthersPending(o)
    BY <1>1, <1>4a DEF MessagesOf, OthersPending, Rivals, OpenOffersAreOpen
<1>6. w' = [w EXCEPT ![r].offers = rows \oplus w[r].offers,
                     ![r].messages = shown \oplus w[r].messages]
    BY <1>1 DEF RejectRivals, RejectedRow, TypeOK, WriteSets
<1>7. /\ DOMAIN rows = R /\ DOMAIN shown = MessagesOf(R)
      /\ \A m \in MessagesOf(R) : shown[m] = "rejected"
    OBVIOUS
<1> HIDE DEF R, rows, shown
<1>8. /\ w'[r].offers = rows \oplus w[r].offers
      /\ w'[r].messages = shown \oplus w[r].messages
      /\ w'[r].negotiations = w[r].negotiations
    BY <1>1, <1>6 DEF TypeOK, WriteSets
<1>9. R \subseteq DOMAIN w'[r].offers
    BY <1>7, <1>8 DEF \oplus
<1>10. /\ DOMAIN w'[r].messages = MessagesOf(R) \cup DOMAIN w[r].messages
       /\ \A m \in MessagesOf(R) : w'[r].messages[m] = "rejected"
       /\ \A m \in DOMAIN w[r].messages \ MessagesOf(R) :
              w'[r].messages[m] = w[r].messages[m]
    BY <1>7, <1>8 DEF \oplus
<1>11. StillPending(r)'
    BY <1>2, <1>3, <1>4 DEF StillPending, Accepting, tables
<1>12. Settled(r)'
  <2>1. /\ IF n = 0 THEN PendingOf(o) = {} ELSE IsLatest(n, PendingOf(o))
        /\ PendingOf(o) \subseteq DOMAIN w'[r].negotiations
      BY <1>2, <1>3, <1>4, <1>8 DEF Settled
  <2>2. Rivals(o) \subseteq DOMAIN w'[r].offers
      BY <1>4a, <1>9
  <2>3. QED
      BY <1>2, <2>1, <2>2 DEF Settled, PendingOf, IsLatest, Rivals, tables
<1>13. MessagesFollow(r)'
  <2>1. ASSUME NEW m \in DOMAIN w'[r].messages
        PROVE  \/ /\ m \in DOMAIN w'[r].negotiations
                  /\ w'[r].messages[m] = w'[r].negotiations[m].status
               \/ m \in OthersPending(o) /\ w'[r].messages[m] = "rejected"
    <3>1. CASE m \in MessagesOf(R)
        BY <1>5, <1>10, <3>1
    <3>2. CASE m \notin MessagesOf(R)
        BY <1>2, <1>3, <1>4, <1>8, <1>10, <3>2 DEF MessagesFollow
    <3>3. QED
        BY <3>1, <3>2
  <2>2. QED
      BY <1>2, <2>1 DEF MessagesFollow, OthersPending, tables
<1>14. QED
    BY <1>11, <1>12, <1>13 DEF OnItsOwn

(* The post is fulfilled, and the events are published: nothing is written   *)
(* that has to be settled.                                                  *)
LEMMA LastStatementsAlone ==
    ASSUME IInv, NEW r \in Requests, OnItsOwn(r), FulfilPost(r) \/ Publish(r)
    PROVE  OnItsOwn(r)'
<1>1. TypeOK
    BY DEF IInv
<1>2. /\ \/ pc[r] = "fulfil" /\ pc'[r] = "publish"
         \/ pc[r] = "publish" /\ pc'[r] = "commit"
      /\ UNCHANGED <<posts, offers, negotiations, messages, req>>
    BY <1>1 DEF FulfilPost, Publish, Then, tables, TypeOK
<1>3. /\ w'[r].offers = w[r].offers /\ w'[r].messages = w[r].messages
      /\ w'[r].negotiations = w[r].negotiations
    BY <1>1 DEF FulfilPost, Publish, TypeOK, WriteSets
<1>4. StillPending(r)' /\ MessagesFollow(r)'
    BY <1>2, <1>3 DEF OnItsOwn, StillPending, MessagesFollow, Accepting
<1>5. Settled(r)'
  <2> DEFINE o == req[r].offer
  <2>1. CASE Accepting(r)
    <3>1. /\ IF req[r].neg = 0 THEN PendingOf(o) = {} ELSE IsLatest(req[r].neg, PendingOf(o))
          /\ PendingOf(o) \subseteq DOMAIN w[r].negotiations
          /\ Rivals(o) \subseteq DOMAIN w[r].offers
          /\ OthersPending(o) \subseteq DOMAIN w[r].negotiations
        BY <1>2, <2>1 DEF OnItsOwn, Settled
    <3>2. QED
        BY <1>2, <1>3, <3>1 DEF Settled, PendingOf, IsLatest, Rivals, OthersPending
  <2>2. CASE ~ Accepting(r)
      BY <1>2, <2>2 DEF Settled, Accepting
  <2>3. QED
      BY <2>1, <2>2
<1>6. QED
    BY <1>4, <1>5 DEF OnItsOwn

-----------------------------------------------------------------------------
(* The steps that change the tables. *)

(* What a transaction that was on its own brings to its COMMIT: no offer is  *)
(* decided twice, every message shows its negotiation, a negotiation is     *)
(* decided with its offer, and a post is fulfilled by a deal.               *)
LEMMA WhatIsCommitted ==
    ASSUME IInv, LedgerInv, NEW r \in Requests, OnItsOwn(r), pc[r] = "commit"
    PROVE  /\ \A x \in DOMAIN w[r].offers \cap DOMAIN offers :
                 offers[x].status # "pending" => w[r].offers[x].status = offers[x].status
           /\ DOMAIN w[r].messages = DOMAIN w[r].negotiations
           /\ \A m \in DOMAIN w[r].negotiations :
                 /\ w[r].messages[m] = w[r].negotiations[m].status
                 /\ w[r].negotiations[m].status = "accepted" =>
                       Accepting(r) /\ m = req[r].neg /\ w[r].negotiations[m].offer = req[r].offer
                 /\ w[r].negotiations[m].status # "pending" =>
                       LET x == w[r].negotiations[m].offer
                       IN  IF x \in DOMAIN w[r].offers THEN w[r].offers[x].status # "pending"
                           ELSE offers[x].status # "pending"
           /\ \A p \in DOMAIN w[r].posts :
                 \E x \in DOMAIN w[r].offers :
                    w[r].offers[x].post = p /\ w[r].offers[x].status = "accepted"
<1> DEFINE o == req[r].offer
           n == req[r].neg
<1>1. /\ TypeOK /\ LocalsInv(r) /\ RowsInv(r) /\ req[r].op \in Ops
      /\ NegotiationWritesInv(r) /\ NegotiationsHaveOffers
    BY DEF IInv, LedgerInv, LocalsInv
<1>2. CASE Creating(r)
  <2>1. /\ DOMAIN w[r].messages = {} /\ DOMAIN w[r].negotiations = {}
        /\ DOMAIN w[r].offers = {o} /\ DOMAIN w[r].posts = {}
      BY <1>1, <1>2 DEF RowsInv, CreatedRows, NoRows, Row
  <2>2. o \notin DOMAIN offers
      BY <1>1, <1>2 DEF LocalsInv
  <2>3. QED
      BY <2>1, <2>2
<1>3. CASE req[r].op \in {"update_offer", "reject_offer"}
    BY <1>1, <1>3 DEF RowsInv, DirectRows, NoWrites, NoRows
<1>4. CASE Negotiating(r)
  <2>1. /\ w[r].offers = Row(o, [offers[o] EXCEPT !.negotiation_status = "in_progress"])
        /\ w[r].negotiations = Row(n, [offer |-> o, price |-> req[r].price,
                                       status |-> "pending"])
        /\ w[r].messages = Row(n, "pending")
        /\ w[r].posts = NoRows
      BY <1>1, <1>4 DEF RowsInv, NegotiatedRows
  <2>2. /\ DOMAIN w[r].offers = {o}
        /\ w[r].offers[o] = [offers[o] EXCEPT !.negotiation_status = "in_progress"]
        /\ DOMAIN w[r].negotiations = {n} /\ DOMAIN w[r].messages = {n}
        /\ w[r].negotiations[n].status = "pending" /\ w[r].messages[n] = "pending"
        /\ DOMAIN w[r].posts = {}
      BY <2>1 DEF Row, NoRows
  <2>3. o \in DOMAIN offers
      BY <1>1, <1>4 DEF LocalsInv, Negotiating, Ops
  <2>4. w[r].offers[o].status = offers[o].status
      BY <1>1, <2>2, <2>3, Kinds DEF OfferRow
  <2>5. QED
      BY <2>2, <2>4
<1>5. CASE Accepting(r)
  <2>1. /\ AcceptedOffer(r) /\ RejectedOffers(r) /\ AcceptedNegotiations(r)
        /\ AcceptedMessages(r) /\ FulfilledPost(r)
      BY <1>1 DEF RowsInv
  <2>2. StillPending(r) /\ Settled(r) /\ MessagesFollow(r)
      BY DEF OnItsOwn
  <2>3. o \in DOMAIN offers /\ offers[o] \in OfferRow /\ offers[o].status = "pending"
      BY <1>1, <1>5, <2>2, Kinds DEF LocalsInv, Accepting, AcceptOps, Ops, StillPending
  <2>4. /\ o \in DOMAIN w[r].offers /\ w[r].offers[o].status = "accepted"
        /\ w[r].offers[o].post = offers[o].post
    <3>1. pc[r] \notin BeforeOffer
        BY DEF BeforeOffer
    <3>2. QED
        BY <1>5, <2>1, <2>3, <3>1 DEF AcceptedOffer, AcceptedRow, OfferRow
  <2>5. \A x \in DOMAIN w[r].offers \ {o} :
           x \in DOMAIN offers /\ offers[x].status = "pending"
              /\ w[r].offers[x].status = "rejected"
    <3>1. \A x \in DOMAIN w[r].offers \ {o} :
             /\ x \in DOMAIN offers /\ offers[x].status = "pending"
             /\ w[r].offers[x] = RejectedRow(x, n)
        BY <1>5, <2>1 DEF RejectedOffers
    <3>2. \A x \in DOMAIN offers : offers[x] \in OfferRow
        BY <1>1, Kinds
    <3>3. QED
        BY <3>1, <3>2 DEF RejectedRow, OfferRow
  <2>6. /\ DOMAIN w[r].messages = DOMAIN w[r].negotiations
        /\ \A m \in DOMAIN w[r].negotiations :
              w[r].messages[m] = w[r].negotiations[m].status
      BY <1>5, <2>1, <2>2 DEF MessagesFollow, AcceptedMessages
  <2>7. ASSUME NEW m \in DOMAIN w[r].negotiations \ {n}
        PROVE  /\ w[r].negotiations[m].status = "rejected"
               /\ w[r].negotiations[m].offer \notin DOMAIN w[r].offers =>
                     offers[w[r].negotiations[m].offer].status # "pending"
    <3>1. /\ m \in DOMAIN negotiations /\ negotiations[m].status = "pending"
          /\ PostOf(m) = offers[o].post
          /\ w[r].negotiations[m] = [negotiations[m] EXCEPT !.status = "rejected"]
        BY <1>5, <2>1 DEF AcceptedNegotiations
    <3>2. /\ w[r].negotiations[m].status = "rejected"
          /\ w[r].negotiations[m].offer = negotiations[m].offer
        BY <1>1, <3>1, Kinds DEF NegotiationRow
    <3>3. Rivals(o) \subseteq DOMAIN w[r].offers
        BY <1>5, <2>2 DEF Settled
    <3>4. negotiations[m].offer \in DOMAIN offers
        BY <1>1, <3>1 DEF NegotiationsHaveOffers
    <3>5. negotiations[m].offer \notin DOMAIN w[r].offers =>
             offers[negotiations[m].offer].status # "pending"
        BY <2>4, <3>1, <3>3, <3>4 DEF Rivals, PostOf
    <3>6. QED
        BY <3>2, <3>5
  <2>8. ASSUME NEW m \in DOMAIN w[r].negotiations, w[r].negotiations[m].status = "accepted"
        PROVE  m = n /\ w[r].negotiations[m].offer = o
      BY <1>1, <2>7, <2>8 DEF NegotiationWritesInv
  <2>9. ASSUME NEW m \in DOMAIN w[r].negotiations, w[r].negotiations[m].status # "pending"
        PROVE  LET x == w[r].negotiations[m].offer
               IN  IF x \in DOMAIN w[r].offers THEN w[r].offers[x].status # "pending"
                   ELSE offers[x].status # "pending"
    <3>1. w[r].negotiations[m].offer \in DOMAIN w[r].offers =>
             w[r].offers[w[r].negotiations[m].offer].status # "pending"
        BY <2>4, <2>5
    <3>2. w[r].negotiations[m].offer \notin DOMAIN w[r].offers =>
             offers[w[r].negotiations[m].offer].status # "pending"
      <4>1. CASE m = n
        <5>1. m \in NegotiationIds /\ 0 \notin NegotiationIds
            BY <1>1, Kinds, BoundAssumption DEF NegotiationIds
        <5>2. w[r].negotiations[n] = [negotiations[n] EXCEPT !.status = "accepted"]
            BY <1>5, <2>1, <4>1, <5>1
               DEF AcceptedNegotiations, BeforeNegotiation, BeforeOffer
        <5>3. n \in DOMAIN negotiations /\ negotiations[n].offer = o
            BY <1>1, <1>5, <4>1, <5>1 DEF LocalsInv, Accepting
        <5>4. w[r].negotiations[n].offer = o
            BY <1>1, <5>2, <5>3, Kinds DEF NegotiationRow
        <5>5. QED
            BY <2>4, <4>1, <5>4
      <4>2. QED
          BY <2>7, <4>1
    <3>3. QED
        BY <3>1, <3>2
  <2>10. \A p \in DOMAIN w[r].posts :
            \E x \in DOMAIN w[r].offers :
               w[r].offers[x].post = p /\ w[r].offers[x].status = "accepted"
      BY <1>5, <2>1, <2>4 DEF FulfilledPost, Row
  <2>11. \A x \in DOMAIN w[r].offers \cap DOMAIN offers : offers[x].status = "pending"
      BY <2>3, <2>5
  <2>12. QED
      BY <1>5, <2>6, <2>8, <2>9, <2>10, <2>11
<1>6. QED
    BY <1>1, <1>2, <1>3, <1>4, <1>5 DEF Ops, Creating, Negotiating, Accepting

(* What a COMMIT leaves in the messages and the posts. *)
LEMMA CommittedMessages ==
    ASSUME IInv, NEW r \in Requests, Commit(r)
    PROVE  /\ \A m \in DOMAIN w[r].messages : messages'[m] = w[r].messages[m]
           /\ \A m \in DOMAIN messages \ DOMAIN w[r].messages : messages'[m] = messages[m]
           /\ \A p \in PostIds \ DOMAIN w[r].posts : posts'[p] = posts[p]
<1>1. posts' = w[r].posts \oplus posts /\ messages' = w[r].messages \oplus messages
    BY DEF Commit
<1>2. DOMAIN posts = PostIds
    BY DEF IInv, TypeOK
<1>3. QED
    BY <1>1, <1>2 DEF \oplus

LEMMA CommitAlone ==
    ASSUME IInv, LedgerInv, NEW r \in Requests, OnItsOwn(r), TablesInv, Commit(r)
    PROVE  TablesInv'
<1>1. /\ NegotiationsHaveOffers /\ AcceptedIsDecided /\ LocalsInv(r)
      /\ DOMAIN messages = DOMAIN negotiations /\ pc[r] = "commit"
    BY DEF IInv, LedgerInv, Commit
<1>2. /\ \A x \in DOMAIN w[r].offers \cap DOMAIN offers :
            offers[x].status # "pending" => w[r].offers[x].status = offers[x].status
      /\ DOMAIN w[r].messages = DOMAIN w[r].negotiations
      /\ \A m \in DOMAIN w[r].negotiations :
            w[r].messages[m] = w[r].negotiations[m].status
    BY <1>1, WhatIsCommitted
<1>3. \A m \in DOMAIN w[r].negotiations :
            /\ w[r].negotiations[m].status = "accepted" =>
                  Accepting(r) /\ m = req[r].neg /\ w[r].negotiations[m].offer = req[r].offer
            /\ w[r].negotiations[m].status # "pending" =>
                  LET x == w[r].negotiations[m].offer
                  IN  IF x \in DOMAIN w[r].offers THEN w[r].offers[x].status # "pending"
                      ELSE offers[x].status # "pending"
    BY <1>1, WhatIsCommitted
<1>4. \A p \in DOMAIN w[r].posts :
         \E x \in DOMAIN w[r].offers :
            w[r].offers[x].post = p /\ w[r].offers[x].status = "accepted"
    BY <1>1, WhatIsCommitted
<1>5. /\ DOMAIN offers' = DOMAIN w[r].offers \cup DOMAIN offers
      /\ \A o \in DOMAIN w[r].offers : offers'[o] = w[r].offers[o]
      /\ \A o \in DOMAIN offers \ DOMAIN w[r].offers : offers'[o] = offers[o]
      /\ \A o \in DOMAIN offers : offers'[o].post = offers[o].post
    BY CommitKeeps
<1>6. /\ DOMAIN negotiations' = DOMAIN w[r].negotiations \cup DOMAIN negotiations
      /\ \A n \in DOMAIN w[r].negotiations : negotiations'[n] = w[r].negotiations[n]
      /\ \A n \in DOMAIN negotiations \ DOMAIN w[r].negotiations :
             negotiations'[n] = negotiations[n]
    BY CommitKeeps
<1>7. \A o \in DOMAIN offers :
         offers[o].status # "pending" => offers'[o].status = offers[o].status
    BY <1>2, <1>5
<1>8. OpenOffersAreOpen'
  <2> SUFFICES ASSUME NEW n \in DOMAIN negotiations',
                      offers'[negotiations'[n].offer].status = "pending"
               PROVE  negotiations'[n].status = "pending"
      BY DEF OpenOffersAreOpen
  <2>1. CASE n \in DOMAIN w[r].negotiations
    <3> DEFINE x == w[r].negotiations[n].offer
    <3>1. offers'[x].status = "pending"
        BY <1>6, <2>1
    <3>2. CASE x \in DOMAIN w[r].offers
        BY <1>3, <1>5, <1>6, <2>1, <3>1, <3>2
    <3>3. CASE x \notin DOMAIN w[r].offers
      <4>1. NegotiationWritesInv(r)
          BY DEF IInv
      <4>2. x \in DOMAIN offers
          BY <2>1, <4>1 DEF NegotiationWritesInv
      <4>3. QED
          BY <1>3, <1>5, <1>6, <2>1, <3>1, <3>3, <4>2
    <3>4. QED
        BY <3>2, <3>3
  <2>2. CASE n \notin DOMAIN w[r].negotiations
    <3>1. n \in DOMAIN negotiations /\ negotiations'[n] = negotiations[n]
        BY <1>6, <2>2
    <3>2. negotiations[n].offer \in DOMAIN offers
        BY <1>1, <3>1 DEF NegotiationsHaveOffers
    <3>3. QED
        BY <1>7, <3>1, <3>2 DEF TablesInv, OpenOffersAreOpen
  <2>3. QED
      BY <2>1, <2>2
<1>9. Mirrored'
  <2>1. /\ \A m \in DOMAIN w[r].messages : messages'[m] = w[r].messages[m]
        /\ \A m \in DOMAIN messages \ DOMAIN w[r].messages : messages'[m] = messages[m]
      BY CommittedMessages
  <2>2. Mirrored
      BY DEF TablesInv
  <2>3. QED
      BY <1>1, <1>2, <1>6, <2>1, <2>2 DEF Mirrored
<1>10. OneDeal'
  <2> SUFFICES ASSUME NEW n \in DOMAIN negotiations', NEW m \in DOMAIN negotiations',
                      negotiations'[n].offer = negotiations'[m].offer,
                      negotiations'[n].status = "accepted",
                      negotiations'[m].status = "accepted"
               PROVE  n = m
      BY DEF OneDeal
  <2>1. ASSUME NEW x \in DOMAIN w[r].negotiations, NEW y \in DOMAIN negotiations',
               y \notin DOMAIN w[r].negotiations,
               negotiations'[x].offer = negotiations'[y].offer,
               negotiations'[x].status = "accepted",
               negotiations'[y].status = "accepted"
        PROVE  FALSE
    <3>1. y \in DOMAIN negotiations /\ negotiations'[y] = negotiations[y]
             /\ negotiations'[x] = w[r].negotiations[x]
        BY <1>6, <2>1
    <3>2. Accepting(r) /\ negotiations[y].offer = req[r].offer
        BY <1>3, <2>1, <3>1
    <3>3. offers[req[r].offer].status = "pending"
        BY <3>2 DEF OnItsOwn, StillPending
    <3>4. QED
        BY <1>1, <2>1, <3>1, <3>2, <3>3 DEF AcceptedIsDecided
  <2>2. CASE n \in DOMAIN w[r].negotiations /\ m \in DOMAIN w[r].negotiations
      BY <1>3, <1>6, <2>2
  <2>3. CASE n \notin DOMAIN w[r].negotiations /\ m \notin DOMAIN w[r].negotiations
      BY <1>6, <2>3 DEF TablesInv, OneDeal
  <2>4. QED
      BY <2>1, <2>2, <2>3
<1>11. FulfilledHaveDeals'
  <2> SUFFICES ASSUME NEW p \in PostIds, posts'[p] = "fulfilled"
               PROVE  \E o \in DOMAIN offers' :
                         offers'[o].post = p /\ offers'[o].status = "accepted"
      BY DEF FulfilledHaveDeals
  <2>1. CASE p \in DOMAIN w[r].posts
      BY <1>4, <1>5, <2>1
  <2>2. CASE p \notin DOMAIN w[r].posts
    <3>1. posts[p] = "fulfilled"
        BY <2>2, CommittedMessages
    <3>2. PICK o \in DOMAIN offers : offers[o].post = p /\ offers[o].status = "accepted"
        BY <3>1 DEF TablesInv, FulfilledHaveDeals
    <3>3. o \in DOMAIN offers' /\ offers'[o].post = p /\ offers'[o].status = "accepted"
        BY <1>5, <1>7, <3>2
    <3>4. QED
        BY <3>3
  <2>3. QED
      BY <2>1, <2>2
<1>12. QED
    BY <1>8, <1>9, <1>10, <1>11 DEF TablesInv

(* update_offer and reject_offer write an offer that is pending. *)
LEMMA DirectAlone ==
    ASSUME IInv, NEW r \in Requests, OnItsOwn(r), TablesInv,
           UpdateOffer(r) \/ RejectOffer(r)
    PROVE  TablesInv'
<1> DEFINE o == req[r].offer
<1>1. TypeOK /\ LocalsInv(r) /\ NegotiationsHaveOffers
    BY DEF IInv
<1>2. pc[r] \in {"update", "reject"} /\ UNCHANGED <<posts, negotiations, messages>>
    BY DEF UpdateOffer, RejectOffer
<1>3. o \in DOMAIN offers /\ offers[o] \in OfferRow /\ offers[o].status = "pending"
    BY <1>1, <1>2, Kinds DEF LocalsInv, Ops, OnItsOwn, StillPending
<1>4. offers = [x \in DOMAIN offers |-> offers[x]]
    BY <1>1, TableIsFunction DEF TypeOK
<1>5. /\ DOMAIN offers' = DOMAIN offers
      /\ \A x \in DOMAIN offers \ {o} : offers'[x] = offers[x]
    BY <1>4 DEF UpdateOffer, RejectOffer
<1>6. OpenOffersAreOpen'
    BY <1>1, <1>2, <1>3, <1>5 DEF TablesInv, OpenOffersAreOpen, NegotiationsHaveOffers
<1>7. Mirrored' /\ OneDeal'
    BY <1>2 DEF TablesInv, Mirrored, OneDeal
<1>8. FulfilledHaveDeals'
  <2> SUFFICES ASSUME NEW p \in PostIds, posts[p] = "fulfilled"
               PROVE  \E x \in DOMAIN offers' :
                         offers'[x].post = p /\ offers'[x].status = "accepted"
      BY <1>2 DEF FulfilledHaveDeals
  <2>1. PICK x \in DOMAIN offers : offers[x].post = p /\ offers[x].status = "accepted"
      BY DEF TablesInv, FulfilledHaveDeals
  <2>2. QED
      BY <1>3, <1>5, <2>1
<1>9. QED
    BY <1>6, <1>7, <1>8 DEF TablesInv

(* The steps that leave the tables alone. *)
LEMMA OtherSteps ==
    ASSUME NEW r \in Requests, Arrive(r) \/ Step(r) \/ Fail(r),
           ~ Commit(r), ~ UpdateOffer(r), ~ RejectOffer(r)
    PROVE  UNCHANGED <<posts, offers, negotiations, messages>>
<1>1. CASE Step(r)
    BY <1>1 DEF Step, NegotiateUpdateOffer, NegotiateInsert, AcceptOffer, PickLatest,
       PickCounter, AcceptCounter, AcceptNegotiation, RejectOtherNegotiations, SeeRivals,
       SeeOthersNegotiations, See, RejectRivals, RejectOthersNegotiations,
       RejectNegotiations, FulfilPost, Publish, Then, tables
<1>2. CASE Arrive(r) \/ Fail(r)
    BY <1>2 DEF Arrive, CreateOffer, NegotiateStart, UpdateOfferCheck, RejectOfferCheck,
       AcceptOfferCheck, AcceptCounterCheck, CheckPending, Begin, Then, Fail, tables
<1>3. QED
    BY <1>1, <1>2

LEMMA OwnStepAlone ==
    ASSUME IInv, LedgerInv, NEW r \in Requests, OnItsOwn(r), OpenOffersAreOpen,
           Arrive(r) \/ Step(r) \/ Fail(r)
    PROVE  OnItsOwn(r)'
<1>1. CASE Arrive(r)
    BY <1>1, ArriveAlone
<1>2. CASE Commit(r) \/ Fail(r)
    BY <1>2, EndAlone DEF Commit, Fail
<1>3. CASE NegotiateUpdateOffer(r) \/ NegotiateInsert(r) \/ UpdateOffer(r) \/ RejectOffer(r)
    BY <1>3, OtherStatementsAlone
<1>4. CASE FulfilPost(r) \/ Publish(r)
    BY <1>4, LastStatementsAlone
<1>5. QED
    BY <1>1, <1>2, <1>3, <1>4, AcceptOfferAlone, PickAlone, AcceptCounterAlone,
       AcceptNegotiationAlone, RejectOtherNegotiationsAlone, SeeAlone, RejectRivalsAlone,
       RejectOthersNegotiationsAlone DEF Step

(* A step of one request, with no other under way before it or after it.    *)
LEMMA AloneStep ==
    ASSUME IInv, LedgerInv, IInv', Undisturbed, ~ Overlap', NEW r \in Requests,
           Arrive(r) \/ Step(r) \/ Fail(r)
    PROVE  Undisturbed'
<1>1. OnItsOwn(r) /\ TablesInv /\ OpenOffersAreOpen /\ TypeOK
    BY DEF Undisturbed, TablesInv, IInv
<1>2. OnItsOwn(r)'
    BY <1>1, OwnStepAlone
<1>3. TablesInv'
  <2>1. CASE Commit(r)
      BY <1>1, <2>1, CommitAlone
  <2>2. CASE UpdateOffer(r) \/ RejectOffer(r)
      BY <1>1, <2>2, DirectAlone
  <2>3. CASE ~ Commit(r) /\ ~ UpdateOffer(r) /\ ~ RejectOffer(r)
      BY <1>1, <2>3, OtherSteps
         DEF TablesInv, OpenOffersAreOpen, Mirrored, OneDeal, FulfilledHaveDeals
  <2>4. QED
      BY <2>1, <2>2, <2>3
<1>4. ASSUME NEW s \in Requests \ {r} PROVE OnItsOwn(s)'
  <2>1. pc'[s] = "idle"
    <3>1. CASE Arrive(r)
      <4>1. pc'[r] # "idle"
          BY <1>1, <3>1 DEF Arrive, CreateOffer, NegotiateStart, UpdateOfferCheck,
             RejectOfferCheck, AcceptOfferCheck, AcceptCounterCheck, CheckPending, Begin,
             Then, TypeOK
      <4>2. QED
          BY <4>1 DEF Overlap
    <3>2. CASE Step(r) \/ Fail(r)
      <4>1. pc[r] # "idle"
          BY <3>2 DEF Step, NegotiateUpdateOffer, NegotiateInsert, UpdateOffer, RejectOffer,
             AcceptOffer, PickLatest, PickCounter, AcceptCounter, AcceptNegotiation,
             RejectOtherNegotiations, SeeRivals, SeeOthersNegotiations, RejectRivals,
             RejectOthersNegotiations, FulfilPost, Publish, Commit, Fail
      <4>2. pc[s] = "idle"
          BY <4>1 DEF Undisturbed, Overlap
      <4>3. pc'[s] = pc[s]
          BY <1>1, <3>2 DEF Step, NegotiateUpdateOffer, NegotiateInsert, UpdateOffer,
             RejectOffer, AcceptOffer, PickLatest, PickCounter, AcceptCounter,
             AcceptNegotiation, RejectOtherNegotiations, SeeRivals, SeeOthersNegotiations,
             See, RejectRivals, RejectOthersNegotiations, RejectNegotiations, FulfilPost, Publish, Commit,
             Fail, End, Then, TypeOK
      <4>4. QED
          BY <4>2, <4>3
    <3>3. QED
        BY <3>1, <3>2
  <2>2. req'[s] = NoLocals
    <3>1. LocalsInv(s)'
        BY DEF IInv
    <3>2. QED
        BY <2>1, <3>1 DEF LocalsInv
  <2>3. QED
      BY <2>1, <2>2, IdleOnItsOwn
<1>5. QED
    BY <1>2, <1>3, <1>4 DEF Undisturbed

LEMMA InitAlone == Init => Undisturbed
<1> SUFFICES ASSUME Init PROVE Undisturbed
    OBVIOUS
<1>1. ASSUME NEW r \in Requests PROVE OnItsOwn(r)
  <2>1. req[r].op = "none" /\ pc[r] = "idle"
      BY DEF Init, NoLocals
  <2>2. QED
      BY <2>1 DEF OnItsOwn, StillPending, Settled, MessagesFollow, Accepting, AcceptOps
<1>2. TablesInv
    BY DEF Init, TablesInv, OpenOffersAreOpen, Mirrored, OneDeal, FulfilledHaveDeals, NoRows
<1>3. ~ Overlap
    BY DEF Init, Overlap
<1>4. QED
    BY <1>1, <1>2, <1>3 DEF Undisturbed

HistoryInv == IInv /\ LedgerInv /\ (~ overlapped => Undisturbed)

LEMMA NextHistory == HistoryInv /\ [HistoryNext]_historyVars => HistoryInv'
<1> SUFFICES ASSUME HistoryInv, [HistoryNext]_historyVars PROVE HistoryInv'
    OBVIOUS
<1>1. [Next]_vars
    BY DEF HistoryNext, historyVars
<1>2. IInv' /\ LedgerInv'
    BY <1>1, NextInv, NextLedger DEF HistoryInv
<1>3. ASSUME ~ overlapped' PROVE Undisturbed'
  <2>1. CASE UNCHANGED historyVars
    <3>1. Undisturbed /\ UNCHANGED <<posts, offers, negotiations, messages, pc, req, w>>
        BY <1>3, <2>1 DEF HistoryInv, historyVars, vars
    <3>2. QED
        BY <3>1 DEF Undisturbed, Overlap, OnItsOwn, StillPending, Settled, MessagesFollow,
           Accepting, PendingOf, IsLatest, Rivals, OthersPending, TablesInv,
           OpenOffersAreOpen, Mirrored, OneDeal, FulfilledHaveDeals
  <2>2. CASE HistoryNext
    <3>1. ~ overlapped /\ ~ Overlap'
        BY <1>3, <2>2 DEF HistoryNext
    <3>2. Undisturbed
        BY <3>1 DEF HistoryInv
    <3>3. PICK r \in Requests : Arrive(r) \/ Step(r) \/ Fail(r)
        BY <2>2 DEF HistoryNext, Next
    <3>4. QED
        BY <1>2, <3>1, <3>2, <3>3, AloneStep DEF HistoryInv
  <2>3. QED
      BY <2>1, <2>2
<1>4. QED
    BY <1>2, <1>3 DEF HistoryInv

(* The invariant of the workflow with its history. *)
THEOREM HistoryInvariance == HistorySpec => []HistoryInv
<1>1. HistoryInit => HistoryInv
    BY InitInv, InitLedger, InitAlone DEF HistoryInit, HistoryInv
<1>2. QED
    BY <1>1, NextHistory, PTL DEF HistorySpec

(* The message of a negotiation shows its status, until two requests        *)
(* overlap.                                                                *)
THEOREM MessagesMirrorNegotiations == HistorySpec => []MessageMirrorsNegotiation
<1>1. HistoryInv => MessageMirrorsNegotiation
    BY DEF HistoryInv, LedgerInv, Undisturbed, TablesInv, Mirrored, MessageMirrorsNegotiation
<1>2. QED
    BY <1>1, HistoryInvariance, PTL

(* No offer is settled twice, until two requests overlap. *)
THEOREM OffersAreSettledOnce == HistorySpec => []OneAcceptedNegotiation
<1>1. HistoryInv => OneAcceptedNegotiation
    BY DEF HistoryInv, Undisturbed, TablesInv, OneDeal, OneAcceptedNegotiation
<1>2. QED
    BY <1>1, HistoryInvariance, PTL

(* The deal that closed a post is not undone, until two requests overlap.    *)
THEOREM DealsStand == HistorySpec => []FulfilledPostHasDeal
<1>1. HistoryInv => FulfilledPostHasDeal
    BY DEF HistoryInv, Undisturbed, TablesInv, FulfilledHaveDeals, FulfilledPostHasDeal
<1>2. QED
    BY <1>1, HistoryInvariance, PTL

-----------------------------------------------------------------------------
(* What a step may do to the decisions, until two requests overlap.         *)

(* A step that decides something is the COMMIT of an acceptance, or the      *)
(* statement of reject_offer.                                               *)
LEMMA AloneBefore ==
    ASSUME HistoryInv, [HistoryNext]_historyVars, ~ overlapped', ~ UNCHANGED historyVars
    PROVE  /\ IInv /\ LedgerInv /\ TablesInv
           /\ \E r \in Requests :
                 OnItsOwn(r) /\ (Arrive(r) \/ Step(r) \/ Fail(r))
BY DEF HistoryInv, HistoryNext, Next, Undisturbed

LEMMA DirectKeeps ==
    ASSUME IInv, NEW r \in Requests, OnItsOwn(r), UpdateOffer(r) \/ RejectOffer(r)
    PROVE  /\ \A o \in DOMAIN offers : offers[o].status # "pending" => offers'[o] = offers[o]
           /\ \A o \in DOMAIN offers : offers'[o].status \in {offers[o].status, "rejected"}
           /\ UNCHANGED negotiations
<1> DEFINE o == req[r].offer
<1>1. TypeOK /\ LocalsInv(r)
    BY DEF IInv
<1>2. pc[r] \in {"update", "reject"} /\ UNCHANGED negotiations
    BY DEF UpdateOffer, RejectOffer
<1>3. o \in DOMAIN offers /\ offers[o] \in OfferRow /\ offers[o].status = "pending"
    BY <1>1, <1>2, Kinds DEF LocalsInv, Ops, OnItsOwn, StillPending
<1>4. offers = [x \in DOMAIN offers |-> offers[x]]
    BY <1>1, TableIsFunction DEF TypeOK
<1>5. \A x \in DOMAIN offers \ {o} : offers'[x] = offers[x]
    BY <1>4 DEF UpdateOffer, RejectOffer
<1>6. offers'[o].status \in {offers[o].status, "rejected"}
  <2>1. CASE UpdateOffer(r)
    <3>1. PICK price \in Prices : offers' = [offers EXCEPT ![o].price = price]
        BY <2>1 DEF UpdateOffer
    <3>2. QED
        BY <1>3, <1>4, <3>1 DEF OfferRow
  <2>2. CASE RejectOffer(r)
      BY <1>3, <1>4, <2>2 DEF RejectOffer, OfferRow
  <2>3. QED
      BY <2>1, <2>2
<1>7. QED
    BY <1>2, <1>3, <1>5, <1>6

(* What the COMMIT of an acceptance decides. *)
LEMMA CommitDecides ==
    ASSUME IInv, LedgerInv, NEW r \in Requests, OnItsOwn(r), Commit(r),
           \/ \E o \in DOMAIN offers :
                 offers[o].status = "pending" /\ offers'[o].status = "accepted"
           \/ \E n \in DOMAIN negotiations :
                 negotiations[n].status # "accepted" /\ negotiations'[n].status = "accepted"
    PROVE  Accepting(r)
<1>1. /\ TypeOK /\ LocalsInv(r) /\ RowsInv(r) /\ req[r].op \in Ops /\ pc[r] = "commit"
    BY DEF IInv, LedgerInv, LocalsInv, Commit
<1>2. /\ \A o \in DOMAIN w[r].offers : offers'[o] = w[r].offers[o]
      /\ \A o \in DOMAIN offers \ DOMAIN w[r].offers : offers'[o] = offers[o]
      /\ \A n \in DOMAIN w[r].negotiations : negotiations'[n] = w[r].negotiations[n]
      /\ \A n \in DOMAIN negotiations \ DOMAIN w[r].negotiations :
             negotiations'[n] = negotiations[n]
    BY CommitKeeps
<1>3. CASE Creating(r)
  <2>1. DOMAIN w[r].offers = {req[r].offer} /\ DOMAIN w[r].negotiations = {}
      BY <1>1, <1>3 DEF RowsInv, CreatedRows, NoRows, Row
  <2>2. req[r].offer \notin DOMAIN offers
      BY <1>1, <1>3 DEF LocalsInv
  <2>3. QED
      BY <1>2, <2>1, <2>2
<1>4. CASE req[r].op \in {"update_offer", "reject_offer"}
  <2>1. DOMAIN w[r].offers = {} /\ DOMAIN w[r].negotiations = {}
      BY <1>1, <1>4 DEF RowsInv, DirectRows, NoWrites, NoRows
  <2>2. QED
      BY <1>2, <2>1
<1>5. CASE Negotiating(r)
  <2> DEFINE o == req[r].offer
  <2>1. o \in DOMAIN offers /\ offers[o] \in OfferRow
      BY <1>1, <1>5, Kinds DEF LocalsInv, Negotiating, Ops
  <2>2. /\ DOMAIN w[r].offers = {o} /\ w[r].offers[o].status = offers[o].status
        /\ DOMAIN w[r].negotiations = {req[r].neg}
      BY <1>1, <1>5, <2>1 DEF RowsInv, NegotiatedRows, Row, OfferRow
  <2>3. req[r].neg \notin DOMAIN negotiations
      BY <1>1, <1>5 DEF LocalsInv
  <2>4. QED
      BY <1>2, <2>2, <2>3
<1>6. QED
    BY <1>1, <1>3, <1>4, <1>5 DEF Ops, Creating, Negotiating, Accepting

(* Once decided, an offer keeps its decision, until two requests overlap.    *)
THEOREM DecisionsAreFinal == HistorySpec => DecisionIsFinal
<1>1. ASSUME HistoryInv, [HistoryNext]_historyVars, ~ UNCHANGED historyVars,
             ~ overlapped', NEW o \in DOMAIN offers, offers[o].status # "pending"
      PROVE  offers'[o].status = offers[o].status
  <2>1. PICK r \in Requests : OnItsOwn(r) /\ (Arrive(r) \/ Step(r) \/ Fail(r))
      BY <1>1, AloneBefore
  <2>2. IInv /\ LedgerInv
      BY <1>1 DEF HistoryInv
  <2>3. CASE Commit(r)
    <3>1. \A x \in DOMAIN w[r].offers \cap DOMAIN offers :
             offers[x].status # "pending" => w[r].offers[x].status = offers[x].status
        BY <2>1, <2>2, <2>3, WhatIsCommitted DEF Commit
    <3>2. /\ o \in DOMAIN w[r].offers => offers'[o] = w[r].offers[o]
          /\ o \notin DOMAIN w[r].offers => offers'[o] = offers[o]
        BY <2>2, <2>3, CommitKeeps
    <3>3. QED
        BY <1>1, <3>1, <3>2
  <2>4. CASE UpdateOffer(r) \/ RejectOffer(r)
      BY <1>1, <2>1, <2>2, <2>4, DirectKeeps
  <2>5. QED
      BY <2>1, <2>3, <2>4, OtherSteps
<1>2. HistoryInv /\ [HistoryNext]_historyVars =>
        [~ overlapped' =>
            \A o \in DOMAIN offers : offers[o].status # "pending" =>
                offers'[o].status = offers[o].status]_historyVars
    BY <1>1
<1>3. QED
    BY <1>2, HistoryInvariance, PTL DEF HistorySpec, DecisionIsFinal

(* An acceptance leaves nothing of its post open, until two requests        *)
(* overlap.                                                                *)
THEOREM AcceptancesCloseRivals == HistorySpec => AcceptanceClosesRivals
<1>1. ASSUME HistoryInv, [HistoryNext]_historyVars, ~ UNCHANGED historyVars,
             ~ overlapped', NEW o \in DOMAIN offers,
             offers[o].status = "pending", offers'[o].status = "accepted"
      PROVE  /\ \A x \in DOMAIN offers :
                    offers[x].post = offers[o].post => offers'[x].status # "pending"
             /\ \A n \in DOMAIN negotiations :
                    PostOf(n) = offers[o].post => negotiations'[n].status # "pending"
  <2>1. PICK r \in Requests : OnItsOwn(r) /\ (Arrive(r) \/ Step(r) \/ Fail(r))
      BY <1>1, AloneBefore
  <2>2. IInv /\ LedgerInv /\ Settled(r)
      BY <1>1, <2>1 DEF HistoryInv, OnItsOwn
  <2>3. Commit(r)
    <3>1. ~ (UpdateOffer(r) \/ RejectOffer(r))
        BY <1>1, <2>1, <2>2, DirectKeeps
    <3>2. QED
        BY <1>1, <2>1, <3>1, OtherSteps
  <2>4. Accepting(r) /\ pc[r] = "commit"
      BY <1>1, <2>1, <2>2, <2>3, CommitDecides DEF Commit
  <2> DEFINE a == req[r].offer
  <2>5. /\ a \in DOMAIN offers /\ TypeOK
        /\ AcceptedOffer(r) /\ RejectedOffers(r) /\ AcceptedNegotiations(r)
      BY <2>2, <2>4 DEF IInv, LocalsInv, Accepting, AcceptOps, Ops, LedgerInv, RowsInv
  <2>6. /\ \A x \in DOMAIN w[r].offers : offers'[x] = w[r].offers[x]
        /\ \A x \in DOMAIN offers \ DOMAIN w[r].offers : offers'[x] = offers[x]
        /\ \A n \in DOMAIN w[r].negotiations : negotiations'[n] = w[r].negotiations[n]
      BY <2>2, <2>3, CommitKeeps
  <2>7. a \in DOMAIN w[r].offers /\ w[r].offers[a].status = "accepted"
    <3>1. pc[r] \notin BeforeOffer /\ offers[a] \in OfferRow
        BY <2>4, <2>5, Kinds DEF BeforeOffer
    <3>2. QED
        BY <2>4, <2>5, <3>1 DEF AcceptedOffer, AcceptedRow, OfferRow
  <2>8. \A x \in DOMAIN w[r].offers \ {a} :
           offers[x].post = offers[a].post /\ w[r].offers[x].status = "rejected"
    <3>1. \A x \in DOMAIN w[r].offers \ {a} :
             /\ offers[x].post = offers[a].post /\ offers[x] \in OfferRow
             /\ w[r].offers[x] = RejectedRow(x, req[r].neg)
        BY <2>4, <2>5, Kinds DEF RejectedOffers
    <3>2. QED
        BY <3>1 DEF RejectedRow, OfferRow
  <2>9. o = a
    <3>1. o \in DOMAIN w[r].offers
        BY <1>1, <2>6
    <3>2. QED
        BY <1>1, <2>6, <2>8, <3>1
  <2>10. /\ PendingOf(a) \subseteq DOMAIN w[r].negotiations
         /\ Rivals(a) \subseteq DOMAIN w[r].offers
         /\ OthersPending(a) \subseteq DOMAIN w[r].negotiations
      BY <2>2, <2>4 DEF Settled
  <2>11. ASSUME NEW x \in DOMAIN offers, offers[x].post = offers[a].post
         PROVE  offers'[x].status # "pending"
    <3>1. CASE x \in DOMAIN w[r].offers
        BY <2>6, <2>7, <2>8, <3>1
    <3>2. CASE x \notin DOMAIN w[r].offers
        BY <2>6, <2>7, <2>10, <2>11, <3>2 DEF Rivals
    <3>3. QED
        BY <3>1, <3>2
  <2>12. \A n \in DOMAIN w[r].negotiations : w[r].negotiations[n].status # "pending"
    <3>1. \A n \in DOMAIN w[r].negotiations :
             /\ n # req[r].neg => w[r].negotiations[n] = [negotiations[n] EXCEPT !.status = "rejected"]
             /\ n # req[r].neg => n \in DOMAIN negotiations
        BY <2>4, <2>5 DEF AcceptedNegotiations
    <3>2. \A n \in DOMAIN w[r].negotiations : n # 0
        BY <2>5, Kinds, BoundAssumption DEF NegotiationIds
    <3>3. req[r].neg # 0 =>
             /\ w[r].negotiations[req[r].neg] =
                    [negotiations[req[r].neg] EXCEPT !.status = "accepted"]
             /\ req[r].neg \in DOMAIN negotiations
      <4>1. pc[r] \notin BeforeNegotiation /\ LocalsInv(r)
          BY <2>2, <2>4 DEF BeforeNegotiation, BeforeOffer, IInv
      <4>2. QED
          BY <2>4, <2>5, <4>1 DEF AcceptedNegotiations, LocalsInv, Accepting
    <3>4. \A n \in DOMAIN negotiations : negotiations[n] \in NegotiationRow
        BY <2>5, Kinds
    <3>5. ASSUME NEW n \in DOMAIN w[r].negotiations
          PROVE  w[r].negotiations[n].status # "pending"
      <4>1. CASE n = req[r].neg
        <5>1. /\ w[r].negotiations[n] = [negotiations[n] EXCEPT !.status = "accepted"]
              /\ negotiations[n] \in NegotiationRow
            BY <3>2, <3>3, <3>4, <4>1
        <5>2. QED
            BY <5>1 DEF NegotiationRow
      <4>2. CASE n # req[r].neg
        <5>1. /\ w[r].negotiations[n] = [negotiations[n] EXCEPT !.status = "rejected"]
              /\ negotiations[n] \in NegotiationRow
            BY <3>1, <3>4, <4>2
        <5>2. QED
            BY <5>1 DEF NegotiationRow
      <4>3. QED
          BY <4>1, <4>2
    <3>6. QED
        BY <3>5
  <2>13. ASSUME NEW n \in DOMAIN negotiations, PostOf(n) = offers[a].post
         PROVE  negotiations'[n].status # "pending"
    <3>1. CASE n \in DOMAIN w[r].negotiations
        BY <2>6, <2>12, <3>1
    <3>2. CASE n \notin DOMAIN w[r].negotiations
      <4>1. negotiations[n].status # "pending"
          BY <2>10, <2>13, <3>2 DEF PendingOf, OthersPending, PostOf
      <4>2. negotiations'[n] = negotiations[n]
          BY <2>2, <2>3, <3>2, CommitKeeps
      <4>3. QED
          BY <4>1, <4>2
    <3>3. QED
        BY <3>1, <3>2
  <2>14. QED
      BY <2>9, <2>11, <2>13
<1>2. HistoryInv /\ [HistoryNext]_historyVars =>
        [~ overlapped' =>
            \A o \in DOMAIN offers :
                offers[o].status = "pending" /\ offers'[o].status = "accepted" =>
                    /\ \A x \in DOMAIN offers :
                        offers[x].post = offers[o].post => offers'[x].status # "pending"
                    /\ \A n \in DOMAIN negotiations :
                        PostOf(n) = offers[o].post =>
                            negotiations'[n].status # "pending"]_historyVars
    BY <1>1
<1>3. QED
    BY <1>2, HistoryInvariance, PTL DEF HistorySpec, AcceptanceClosesRivals

(* The newest proposal on the table wins, until two requests overlap.       *)
THEOREM NewestProposalsWin == HistorySpec => NewestProposalWins
<1>1. ASSUME HistoryInv, [HistoryNext]_historyVars, ~ UNCHANGED historyVars,
             ~ overlapped', NEW n \in DOMAIN negotiations,
             negotiations[n].status # "accepted", negotiations'[n].status = "accepted",
             NEW m \in PendingOf(negotiations[n].offer)
      PROVE  m <= n
  <2>1. PICK r \in Requests : OnItsOwn(r) /\ (Arrive(r) \/ Step(r) \/ Fail(r))
      BY <1>1, AloneBefore
  <2>2. IInv /\ LedgerInv /\ Settled(r)
      BY <1>1, <2>1 DEF HistoryInv, OnItsOwn
  <2>3. Commit(r)
    <3>1. ~ (UpdateOffer(r) \/ RejectOffer(r))
        BY <1>1, <2>1, <2>2, DirectKeeps
    <3>2. QED
        BY <1>1, <2>1, <3>1, OtherSteps
  <2>4. Accepting(r) /\ pc[r] = "commit"
      BY <1>1, <2>1, <2>2, <2>3, CommitDecides DEF Commit
  <2>5. n \in DOMAIN w[r].negotiations /\ w[r].negotiations[n].status = "accepted"
      BY <1>1, <2>2, <2>3, CommitKeeps
  <2>6. n = req[r].neg
      BY <2>1, <2>2, <2>4, <2>5, WhatIsCommitted
  <2>7. n # 0 /\ negotiations[n].offer = req[r].offer
    <3>1. LocalsInv(r) /\ TypeOK
        BY <2>2 DEF IInv
    <3>2. n # 0
        BY <3>1, Kinds, BoundAssumption DEF NegotiationIds
    <3>3. QED
        BY <2>4, <2>6, <3>1, <3>2 DEF LocalsInv, Accepting
  <2>8. IsLatest(n, PendingOf(req[r].offer))
      BY <2>2, <2>4, <2>6, <2>7 DEF Settled
  <2>9. QED
      BY <1>1, <2>7, <2>8 DEF IsLatest
<1>2. HistoryInv /\ [HistoryNext]_historyVars =>
        [~ overlapped' =>
            \A n \in DOMAIN negotiations :
                negotiations[n].status # "accepted" /\ negotiations'[n].status = "accepted"
                    => \A m \in PendingOf(negotiations[n].offer) : m <= n]_historyVars
    BY <1>1
<1>3. QED
    BY <1>2, HistoryInvariance, PTL DEF HistorySpec, NewestProposalWins

=============================================================================
