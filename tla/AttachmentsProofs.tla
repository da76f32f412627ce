------------------------- MODULE AttachmentsProofs -------------------------
(***************************************************************************)
(* Theorems about Attachments, for any number of requests, rows and keys,   *)
(* and any number of keys of a request.                                     *)
(***************************************************************************)
EXTENDS Attachments, TableLemmas

-----------------------------------------------------------------------------
(* The keys a request has dealt with are the first of those it names. *)
Gone(l) == Len(l.keys) - Len(l.left)
First(l, n) == {l.keys[i] : i \in 1 .. n}
FirstLinks(l, n) == {<<l.owner, l.keys[i]>> : i \in 1 .. n}
Suffix(l) ==
    /\ Len(l.left) <= Len(l.keys)
    /\ \A i \in 1 .. Len(l.left) : l.left[i] = l.keys[Gone(l) + i]
    /\ l.processed <= Gone(l)

(* As long as none was passed over, the transaction t has the media and the  *)
(* links of all of them.                                                    *)
Attached(l, t, upserted, linked) ==
    l.processed = Gone(l) =>
        t.media = First(l, upserted) /\ DOMAIN t.links = FirstLinks(l, linked)

(* What the locals l and the transaction t of request r are at each label,   *)
(* where st is the table of the rows.                                       *)
LocalsAt(r, label, l, t, st) ==
    /\ label = "idle" => l.op = "none"
    /\ label # "idle" => l.op \in Operations
    /\ label \in {"idle", "check", "begin", "write", "unexpected", "done"} => t = NoWrites
    /\ label \notin {"commit", "done"} => l.answer = "none"
    /\ label = "commit" => l.answer = "success"
    /\ label \in {"check", "begin", "write"} =>
          /\ l.left = l.keys /\ l.processed = 0
          /\ l.op \in Updates => l.owner \in Rows(l.op)
    /\ label \in {"media", "upsert", "link", "answer", "commit"} =>
          /\ l.owner \in Rows(l.op)
          /\ t.stored = IF l.op = "update_offer" THEN NoRows ELSE Row(l.owner, r)
          /\ l.op = "update_offer" => l.owner \in DOMAIN st
          /\ \A link \in DOMAIN t.links : t.links[link] = r
    /\ label \in {"media", "upsert", "link"} =>
          /\ Suffix(l) /\ t.notes = {}
          /\ Attached(l, t, IF label = "link" THEN Gone(l) + 1 ELSE Gone(l), Gone(l))
    /\ label \in {"upsert", "link"} => l.left # <<>>
    /\ label = "answer" => l.op = "create_offer"
    /\ label \in {"answer", "commit"} =>
          /\ t.media = NamedBy(l.keys)
          /\ DOMAIN t.links = {<<l.owner, k>> : k \in NamedBy(l.keys)}
          /\ t.notes = IF l.op = "create_offer" THEN {l.owner} ELSE {}

LocalsInv == \A r \in Requests : LocalsAt(r, pc[r], req[r], tx[r], stored)

(* Whoever has a row or a link in the tables has committed it, but for the   *)
(* row that update_offer writes outside its transaction.                    *)
TracesInv == \A r \in Requests :
    /\ \A o \in DOMAIN stored :
          stored[o] = r =>
              (pc[r] = "done" /\ req[r].answer = "success") \/ req[r].op = "update_offer"
    /\ \A link \in DOMAIN links :
          links[link] = r => pc[r] = "done" /\ req[r].answer = "success"

(* The whole inductive invariant. *)
IInv == TypeOK /\ LocalsInv /\ TracesInv

-----------------------------------------------------------------------------
(* The lists of keys are the sequences of up to MaxKeys keys. *)
LEMMA KeyListsAreSequences ==
    ASSUME NEW s
    PROVE  s \in KeyLists <=> s \in Seq(Keys) /\ Len(s) <= MaxKeys
<1>1. ASSUME s \in KeyLists
      PROVE  s \in Seq(Keys) /\ Len(s) <= MaxKeys
    <2>1. PICK n \in 0 .. MaxKeys : s \in [1 .. n -> Keys]
        BY <1>1 DEF KeyLists
    <2> QED
        BY <2>1, BoundsAssumption
<1>2. ASSUME s \in Seq(Keys), Len(s) <= MaxKeys
      PROVE  s \in KeyLists
    <2>1. Len(s) \in 0 .. MaxKeys /\ s \in [1 .. Len(s) -> Keys]
        BY <1>2, BoundsAssumption
    <2> QED
        BY <2>1 DEF KeyLists
<1> QED
    BY <1>1, <1>2

(* The locals of a request that has not come are locals, and it has written  *)
(* nothing.                                                                 *)
LEMMA NoLocalsType == NoLocals \in Locals
<1>1. <<>> \in KeyLists
    <2>1. <<>> \in [1 .. 0 -> Keys] /\ 0 \in 0 .. MaxKeys
        BY BoundsAssumption
    <2> QED
        BY <2>1 DEF KeyLists
<1> QED
    BY <1>1, BoundsAssumption DEF NoLocals, Locals

TxType == [stored : Tables(Owners, Requests), media : SUBSET Keys,
           links : Tables(Owners \X Keys, Requests), notes : SUBSET Offers]

LEMMA NoWritesType == NoWrites \in TxType
<1>1. NoRows \in Tables(Owners, Requests) /\ NoRows \in Tables(Owners \X Keys, Requests)
    BY NoRowsIsTable
<1> QED
    BY <1>1 DEF NoWrites, TxType

(* What Set writes. *)
LEMMA SetAnswer ==
    ASSUME TypeOK, NEW r \in Requests, NEW v, Set(r, "answer", v)
    PROVE  req' = [req EXCEPT ![r] = [req[r] EXCEPT !.answer = v]]
BY DEF Set, TypeOK

LEMMA SetOwner ==
    ASSUME TypeOK, NEW r \in Requests, NEW v, Set(r, "owner", v)
    PROVE  req' = [req EXCEPT ![r] = [req[r] EXCEPT !.owner = v]]
BY DEF Set, TypeOK

LEMMA SetLeft ==
    ASSUME TypeOK, NEW r \in Requests, NEW v, Set(r, "left", v)
    PROVE  req' = [req EXCEPT ![r] = [req[r] EXCEPT !.left = v]]
BY DEF Set, TypeOK

(* What a request knows stays true as long as no row is lost. *)
LEMMA LocalsKept ==
    ASSUME NEW r, NEW label, NEW l, NEW t, NEW st, NEW st2,
           DOMAIN st \subseteq DOMAIN st2, LocalsAt(r, label, l, t, st)
    PROVE  LocalsAt(r, label, l, t, st2)
BY DEF LocalsAt

(* The step of one request leaves the others with what they know. *)
LEMMA OthersKept ==
    ASSUME IInv, NEW r \in Requests, NEW label, NEW l, NEW t,
           pc' = [pc EXCEPT ![r] = label], req' = [req EXCEPT ![r] = l],
           tx' = [tx EXCEPT ![r] = t],
           DOMAIN stored \subseteq DOMAIN stored',
           LocalsAt(r, label, l, t, stored')
    PROVE  LocalsInv'
<1> SUFFICES ASSUME NEW s \in Requests
             PROVE  LocalsAt(s, pc'[s], req'[s], tx'[s], stored')
    BY DEF LocalsInv
<1>1. CASE s = r
    BY <1>1 DEF IInv, TypeOK
<1>2. CASE s # r
    <2>1. pc'[s] = pc[s] /\ req'[s] = req[s] /\ tx'[s] = tx[s]
        BY <1>2 DEF IInv, TypeOK
    <2>2. LocalsAt(s, pc[s], req[s], tx[s], stored)
        BY DEF IInv, LocalsInv
    <2> QED
        BY <2>1, <2>2, LocalsKept
<1> QED
    BY <1>1, <1>2

(* Every request is still to come at first, and nothing is linked. *)
LEMMA InitInv == Init => IInv
<1> SUFFICES ASSUME Init PROVE IInv
    OBVIOUS
<1>1. stored \in Tables(Owners, Writer) /\ DOMAIN stored = Existing
      /\ \A o \in DOMAIN stored : stored[o] = None
    <2>1. Existing \subseteq Owners /\ None \in Writer
        BY OwnersAssumption DEF Owners, Writer
    <2>2. stored \in [Existing -> Writer]
        BY <2>1 DEF Init
    <2> QED
        BY <2>1, <2>2, TableIsFunction DEF Init
<1>2. links \in Tables(Owners \X Keys, Requests) /\ DOMAIN links = {}
    BY NoRowsIsTable DEF Init
<1>3. tx \in [Requests -> TxType] /\ req \in [Requests -> Locals]
    BY NoLocalsType, NoWritesType DEF Init
<1>4. TypeOK
    BY <1>1, <1>2, <1>3 DEF Init, TypeOK, TxType
<1>5. LocalsInv
    BY DEF Init, LocalsInv, LocalsAt, NoLocals
<1>6. TracesInv
    BY <1>1, <1>2, NoneAssumption DEF Init, TracesInv
<1> QED
    BY <1>4, <1>5, <1>6 DEF IInv

Labels == {"idle", "check", "begin", "write", "media", "upsert", "link",
           "unexpected", "answer", "commit", "done"}

(* A step that leaves the tables alone: the request knows what it needs. *)
LEMMA QuietInv ==
    ASSUME IInv, NEW r \in Requests, NEW label \in Labels, NEW l \in Locals,
           NEW t \in TxType,
           pc' = [pc EXCEPT ![r] = label], req' = [req EXCEPT ![r] = l],
           tx' = [tx EXCEPT ![r] = t],
           UNCHANGED <<uploaded, stored, media, links, notes>>, holding' \subseteq Requests,
           LocalsAt(r, label, l, t, stored),
           pc[r] # "done", pc[r] = "idle" \/ l.op = req[r].op
    PROVE  IInv'
<1> USE DEF IInv
<1>1. TypeOK'
    BY DEF TypeOK, TxType, Labels
<1>2. LocalsInv'
    BY OthersKept
<1>3. \A s \in Requests : s # r => pc'[s] = pc[s] /\ req'[s] = req[s]
    BY DEF TypeOK
<1>4. pc'[r] = label /\ req'[r] = l
    BY DEF TypeOK
<1>5. TracesInv'
    <2>1. \A o \in DOMAIN stored : stored[o] = r => l.op = "update_offer"
        BY DEF TracesInv, LocalsInv, LocalsAt
    <2>2. \A link \in DOMAIN links : links[link] # r
        BY DEF TracesInv
    <2> QED
        BY <1>3, <1>4, <2>1, <2>2 DEF TracesInv
<1> QED
    BY <1>1, <1>2, <1>5

(* A request that is over has rolled back. *)
LEMMA RolledBackInv ==
    ASSUME IInv, NEW r \in Requests, NEW answer \in {"success", "failed"},
           RolledBack(r, answer), pc[r] \notin {"idle", "done"}
    PROVE  IInv'
<1> DEFINE l == [req[r] EXCEPT !.answer = answer]
<1>1. req' = [req EXCEPT ![r] = l]
    BY SetAnswer DEF IInv, RolledBack
<1>2. l \in Locals /\ l.op = req[r].op /\ l.answer = answer
    BY DEF IInv, TypeOK, Locals
<1>3. req[r].op \in Operations
    BY DEF IInv, LocalsInv, LocalsAt
<1>4. LocalsAt(r, "done", l, NoWrites, stored)
    BY <1>2, <1>3 DEF LocalsAt
<1>5. /\ pc' = [pc EXCEPT ![r] = "done"] /\ tx' = [tx EXCEPT ![r] = NoWrites]
      /\ UNCHANGED <<uploaded, stored, media, links, notes>> /\ holding' \subseteq Requests
    BY DEF IInv, TypeOK, RolledBack, Release, Goto, db
<1> QED
    BY <1>1, <1>2, <1>4, <1>5, NoWritesType, QuietInv DEF Labels

(* The media statements fail, and the transaction is rolled back. *)
LEMMA SqlErrorInv ==
    ASSUME IInv, NEW r \in Requests, SqlError(r), pc[r] \in {"upsert", "link"}
    PROVE  IInv'
<1>1. req' = [req EXCEPT ![r] = req[r]] /\ req[r] \in Locals
    BY DEF IInv, TypeOK, SqlError
<1>2. LocalsAt(r, "unexpected", req[r], NoWrites, stored)
    BY DEF IInv, LocalsInv, LocalsAt
<1>3. /\ pc' = [pc EXCEPT ![r] = "unexpected"] /\ tx' = [tx EXCEPT ![r] = NoWrites]
      /\ UNCHANGED <<uploaded, stored, media, links, notes>> /\ holding' \subseteq Requests
    BY DEF IInv, TypeOK, SqlError, Release, Goto, db
<1> QED
    BY <1>1, <1>2, <1>3, NoWritesType, QuietInv DEF Labels

(* The process stops, and what was not committed is lost. *)
LEMMA CrashInv ==
    ASSUME IInv, Crash
    PROVE  IInv'
<1> USE DEF IInv
<1>1. UNCHANGED <<uploaded, stored, media, links, notes, req>>
    BY DEF Crash, db
<1>2. \A s \in Requests :
          pc'[s] = (IF pc[s] = "idle" THEN "idle" ELSE "done") /\ tx'[s] = NoWrites
    BY DEF Crash
<1>3. TypeOK'
    <2>1. pc' \in [Requests -> {"idle", "done"}] /\ tx' \in [Requests -> TxType]
        BY NoWritesType DEF Crash
    <2> QED
        BY <1>1, <2>1 DEF TypeOK, TxType, Crash
<1>4. LocalsInv'
    <2> SUFFICES ASSUME NEW s \in Requests
                 PROVE  LocalsAt(s, pc'[s], req'[s], tx'[s], stored')
        BY DEF LocalsInv
    <2>1. LocalsAt(s, pc[s], req[s], tx[s], stored)
        BY DEF LocalsInv
    <2> QED
        BY <1>1, <1>2, <2>1 DEF LocalsAt
<1>5. TracesInv'
    BY <1>1, <1>2 DEF TracesInv
<1> QED
    BY <1>3, <1>4, <1>5

-----------------------------------------------------------------------------
(* A client uploads an object. *)
LEMMA UploadInv ==
    ASSUME IInv, NEW k \in Keys, Upload(k)
    PROVE  IInv'
BY DEF Upload, db, IInv, TypeOK, LocalsInv, TracesInv

(* The operations write the rows of their tables. *)
LEMMA RowsAreOwners ==
    ASSUME NEW op
    PROVE  Rows(op) \subseteq Owners /\ (op \in {"create_offer", "update_offer"} => Rows(op) = Offers)
BY DEF Rows, Owners

(* A request arrives with the keys it names. *)
LEMMA NewRequestInv ==
    ASSUME IInv, NEW r \in Requests, NewRequest(r)
    PROVE  IInv'
<1>1. PICK op \in Operations, keys \in KeyLists :
          \/ op \in Updates /\ \E o \in Rows(op) : Arrive(r, op, o, keys)
          \/ op \notin Updates /\ Arrive(r, op, None, keys)
    BY DEF NewRequest
<1>2. PICK owner \in Owners \cup {None} :
          Arrive(r, op, owner, keys) /\ (op \in Updates => owner \in Rows(op))
    BY <1>1, RowsAreOwners
<1> DEFINE l == [NoLocals EXCEPT !.op = op, !.owner = owner, !.keys = keys, !.left = keys]
           label == IF op = "create_post" THEN "begin" ELSE "check"
<1>3. /\ l \in Locals /\ l.op = op /\ l.owner = owner /\ l.keys = keys /\ l.left = keys
      /\ l.processed = 0 /\ l.answer = "none"
    <2>1. op \in AllOperations
        BY OperationsAssumption
    <2>2. NoLocals.processed = 0 /\ NoLocals.answer = "none"
        BY DEF NoLocals
    <2> QED
        BY <2>1, <2>2, NoLocalsType DEF Locals
<1>4. tx[r] = NoWrites
    BY <1>2 DEF IInv, LocalsInv, LocalsAt, Arrive
<1>5. LocalsAt(r, label, l, tx[r], stored)
    BY <1>2, <1>3, <1>4 DEF LocalsAt
<1>6. /\ pc[r] = "idle" /\ pc' = [pc EXCEPT ![r] = label] /\ req' = [req EXCEPT ![r] = l]
      /\ tx' = [tx EXCEPT ![r] = tx[r]] /\ tx[r] \in TxType
      /\ UNCHANGED <<uploaded, stored, media, links, notes, holding>> /\ holding' \subseteq Requests
    BY <1>2 DEF IInv, TypeOK, TxType, Arrive, Goto, db
<1> QED
    BY <1>3, <1>5, <1>6, QuietInv DEF Labels

(* The row is looked for. *)
LEMMA CheckInv ==
    ASSUME IInv, NEW r \in Requests, Check(r)
    PROVE  IInv'
<1>1. LocalsAt(r, "check", req[r], tx[r], stored) /\ req[r] \in Locals /\ tx[r] \in TxType
    BY DEF IInv, LocalsInv, TypeOK, TxType, Check
<1>2. /\ pc[r] = "check" /\ tx' = [tx EXCEPT ![r] = tx[r]]
      /\ UNCHANGED <<uploaded, stored, media, links, notes, holding>> /\ holding' \subseteq Requests
    BY DEF IInv, TypeOK, Check, db
<1>3. CASE pc' = [pc EXCEPT ![r] = "begin"] /\ UNCHANGED req
    <2>1. LocalsAt(r, "begin", req[r], tx[r], stored) /\ req' = [req EXCEPT ![r] = req[r]]
        BY <1>1, <1>3 DEF LocalsAt, IInv, TypeOK
    <2> QED
        BY <1>1, <1>2, <1>3, <2>1, QuietInv DEF Labels
<1>4. CASE pc' = [pc EXCEPT ![r] = "done"] /\ Set(r, "answer", "failed")
    <2> DEFINE l == [req[r] EXCEPT !.answer = "failed"]
    <2>1. l \in Locals /\ l.op = req[r].op /\ l.answer = "failed"
        BY <1>1 DEF Locals
    <2>2. LocalsAt(r, "done", l, tx[r], stored)
        BY <1>1, <2>1 DEF LocalsAt
    <2>3. req' = [req EXCEPT ![r] = l]
        BY <1>4, SetAnswer DEF IInv
    <2> QED
        BY <1>1, <1>2, <1>4, <2>1, <2>2, <2>3, QuietInv DEF Labels
<1> QED
    BY <1>3, <1>4 DEF Check, Goto

(* The transaction takes its connection. *)
LEMMA BeginTransactionInv ==
    ASSUME IInv, NEW r \in Requests, BeginTransaction(r)
    PROVE  IInv'
<1>1. LocalsAt(r, "begin", req[r], tx[r], stored) /\ req[r] \in Locals /\ tx[r] \in TxType
    BY DEF IInv, LocalsInv, TypeOK, TxType, BeginTransaction
<1>2. LocalsAt(r, "write", req[r], tx[r], stored)
    BY <1>1 DEF LocalsAt
<1>3. /\ pc[r] = "begin" /\ pc' = [pc EXCEPT ![r] = "write"]
      /\ req' = [req EXCEPT ![r] = req[r]] /\ tx' = [tx EXCEPT ![r] = tx[r]]
      /\ UNCHANGED <<uploaded, stored, media, links, notes>> /\ holding' \subseteq Requests
    BY DEF IInv, TypeOK, BeginTransaction, Goto, db
<1> QED
    BY <1>1, <1>2, <1>3, QuietInv DEF Labels

-----------------------------------------------------------------------------
(* The row is written: the keys are still to be dealt with, all of them. *)
LEMMA WrittenAt ==
    ASSUME NEW r, NEW l \in Locals, NEW t, NEW st,
           l.op \in Operations, l.answer = "none", l.left = l.keys, l.processed = 0,
           l.owner \in Rows(l.op),
           t.stored = IF l.op = "update_offer" THEN NoRows ELSE Row(l.owner, r),
           l.op = "update_offer" => l.owner \in DOMAIN st,
           t.media = {}, t.links = NoRows, t.notes = {}
    PROVE  LocalsAt(r, "media", l, t, st)
<1>1. l.keys \in Seq(Keys)
    BY KeyListsAreSequences DEF Locals
<1>2. Gone(l) = 0
    BY <1>1 DEF Gone
<1>3. Suffix(l)
    BY <1>1, <1>2 DEF Suffix
<1>4. First(l, 0) = {} /\ FirstLinks(l, 0) = {} /\ DOMAIN NoRows = {}
    BY DEF First, FirstLinks, NoRows
<1>5. Attached(l, t, Gone(l), Gone(l))
    BY <1>2, <1>4 DEF Attached
<1> QED
    BY <1>3, <1>4, <1>5 DEF LocalsAt

(* create_post, create_offer and send_message insert their row. *)
LEMMA InsertRowInv ==
    ASSUME IInv, NEW r \in Requests, InsertRow(r)
    PROVE  IInv'
<1>1. /\ LocalsAt(r, "write", req[r], tx[r], stored) /\ req[r] \in Locals
      /\ pc[r] = "write" /\ req[r].op \notin Updates
    BY DEF IInv, LocalsInv, TypeOK, InsertRow
<1>2. PICK o \in Rows(req[r].op) :
          Set(r, "owner", o) /\ tx' = [tx EXCEPT ![r].stored = Row(o, r)]
    BY DEF InsertRow
<1> DEFINE l == [req[r] EXCEPT !.owner = o]  t == [NoWrites EXCEPT !.stored = Row(o, r)]
<1>3. /\ l \in Locals /\ l.op = req[r].op /\ l.owner = o /\ l.keys = req[r].keys
      /\ l.left = req[r].left /\ l.processed = req[r].processed /\ l.answer = req[r].answer
    BY <1>1, RowsAreOwners DEF Locals
<1>4. tx[r] = NoWrites
    BY <1>1 DEF LocalsAt
<1>5. tx' = [tx EXCEPT ![r] = t]
    BY <1>2, <1>4 DEF IInv, TypeOK
<1>6. /\ t.stored = Row(o, r) /\ t.media = {} /\ t.links = NoRows /\ t.notes = {}
      /\ t \in TxType
    <2>1. Row(o, r) \in Tables(Owners, Requests)
        BY OneRow, RowsAreOwners
    <2> QED
        BY <2>1, NoWritesType DEF NoWrites, TxType
<1>7. LocalsAt(r, "media", l, t, stored)
    <2>1. l.op # "update_offer" /\ l.op \in Operations /\ l.answer = "none"
          /\ l.left = l.keys /\ l.processed = 0
        BY <1>1, <1>3 DEF LocalsAt, Updates
    <2> QED
        BY <1>3, <1>6, <2>1, WrittenAt
<1>8. /\ pc' = [pc EXCEPT ![r] = "media"] /\ req' = [req EXCEPT ![r] = l]
      /\ UNCHANGED <<uploaded, stored, media, links, notes>> /\ holding' \subseteq Requests
    BY <1>2, SetOwner DEF IInv, TypeOK, InsertRow, Goto, db
<1> QED
    BY <1>1, <1>3, <1>5, <1>6, <1>7, <1>8, QuietInv DEF Labels

(* update_post updates its row. *)
LEMMA UpdatePostInv ==
    ASSUME IInv, NEW r \in Requests, UpdatePost(r)
    PROVE  IInv'
<1> DEFINE l == req[r]  o == req[r].owner  t == [NoWrites EXCEPT !.stored = Row(o, r)]
<1>1. /\ LocalsAt(r, "write", l, tx[r], stored) /\ l \in Locals
      /\ pc[r] = "write" /\ l.op = "update_post"
    BY DEF IInv, LocalsInv, TypeOK, UpdatePost
<1>2. /\ tx[r] = NoWrites /\ o \in Rows(l.op) /\ l.op \in Operations
      /\ l.answer = "none" /\ l.left = l.keys /\ l.processed = 0
    BY <1>1 DEF LocalsAt, Updates
<1>3. tx' = [tx EXCEPT ![r] = t]
    BY <1>2 DEF IInv, TypeOK, UpdatePost
<1>4. /\ t.stored = Row(o, r) /\ t.media = {} /\ t.links = NoRows /\ t.notes = {}
      /\ t \in TxType
    <2>1. Row(o, r) \in Tables(Owners, Requests)
        BY <1>2, OneRow, RowsAreOwners
    <2> QED
        BY <2>1, NoWritesType DEF NoWrites, TxType
<1>5. LocalsAt(r, "media", l, t, stored)
    BY <1>1, <1>2, <1>4, WrittenAt
<1>6. /\ pc' = [pc EXCEPT ![r] = "media"] /\ req' = [req EXCEPT ![r] = l]
      /\ UNCHANGED <<uploaded, stored, media, links, notes>> /\ holding' \subseteq Requests
    BY DEF IInv, TypeOK, UpdatePost, Goto, db
<1> QED
    BY <1>1, <1>3, <1>4, <1>5, <1>6, QuietInv DEF Labels

(* update_offer updates its row for good, before the rest of its transaction. *)
LEMMA UpdateOfferInv ==
    ASSUME IInv, NEW r \in Requests, UpdateOffer(r)
    PROVE  IInv'
<1> USE DEF IInv
<1> DEFINE l == req[r]  o == req[r].owner
<1>1. /\ LocalsAt(r, "write", l, tx[r], stored) /\ l \in Locals /\ tx[r] \in TxType
      /\ pc[r] = "write" /\ l.op = "update_offer"
    BY DEF LocalsInv, TypeOK, TxType, UpdateOffer
<1>2. /\ tx[r] = NoWrites /\ o \in Rows(l.op) /\ l.op \in Operations
      /\ l.answer = "none" /\ l.left = l.keys /\ l.processed = 0
    BY <1>1 DEF LocalsAt, Updates
<1>3. /\ stored' = Row(o, r) \oplus stored /\ pc' = [pc EXCEPT ![r] = "media"]
      /\ req' = [req EXCEPT ![r] = l] /\ tx' = [tx EXCEPT ![r] = tx[r]]
      /\ UNCHANGED <<uploaded, media, links, notes, holding, req, tx>>
    BY DEF TypeOK, UpdateOffer, Goto
<1>4. stored' \in Tables(Owners, Writer)
    <2>1. Row(o, r) \in Tables(Owners, Writer)
        BY <1>2, OneRow, RowsAreOwners DEF Writer
    <2> QED
        BY <1>3, <2>1, Overlay DEF TypeOK
<1>5. DOMAIN stored \subseteq DOMAIN stored' /\ o \in DOMAIN stored'
    BY <1>3 DEF Row, \oplus
<1>6. \A p \in DOMAIN stored' : stored'[p] = r \/ (p \in DOMAIN stored /\ stored'[p] = stored[p])
    BY <1>3 DEF Row, \oplus
<1>7. TypeOK'
    BY <1>3, <1>4 DEF TypeOK
<1>8. LocalsInv'
    <2>1. tx[r].stored = NoRows /\ tx[r].media = {} /\ tx[r].links = NoRows /\ tx[r].notes = {}
        BY <1>2 DEF NoWrites
    <2>2. LocalsAt(r, "media", l, tx[r], stored')
        BY <1>1, <1>2, <1>5, <2>1, WrittenAt
    <2> QED
        BY <1>3, <1>5, <2>2, OthersKept
<1>9. \A s \in Requests : s # r => pc'[s] = pc[s] /\ req'[s] = req[s]
    BY <1>3 DEF TypeOK
<1>10. pc'[r] = "media" /\ req'[r].op = "update_offer"
    BY <1>1, <1>3 DEF TypeOK
<1>11. TracesInv'
    <2>1. \A link \in DOMAIN links : links[link] # r
        BY <1>1 DEF TracesInv
    <2> QED
        BY <1>3, <1>6, <1>9, <1>10, <2>1 DEF TracesInv
<1> QED
    BY <1>7, <1>8, <1>11

-----------------------------------------------------------------------------
(* The key at hand follows those that are gone, and dealing with it leaves   *)
(* the rest.                                                                *)
LEMMA NextKey ==
    ASSUME NEW l \in Locals, Suffix(l), l.left # <<>>
    PROVE  /\ Head(l.left) = l.keys[Gone(l) + 1] /\ Head(l.left) \in Keys
           /\ Tail(l.left) \in KeyLists
           /\ Gone(l) \in Nat /\ Gone(l) + 1 \in 1 .. Len(l.keys)
           /\ Len(l.keys) <= MaxKeys /\ Len(l.keys) \in Nat
           /\ \A m \in Locals :
                 m.keys = l.keys /\ m.left = Tail(l.left) =>
                     /\ Gone(m) = Gone(l) + 1
                     /\ m.processed <= l.processed + 1 => Suffix(m)
<1>1. /\ l.keys \in Seq(Keys) /\ l.left \in Seq(Keys) /\ l.processed \in Nat
      /\ Len(l.keys) <= MaxKeys /\ Len(l.left) <= MaxKeys
    BY KeyListsAreSequences, BoundsAssumption DEF Locals
<1>2. /\ Len(l.keys) \in Nat /\ Len(l.left) \in Nat /\ Len(l.left) # 0
      /\ Len(l.left) <= Len(l.keys)
    BY <1>1 DEF Suffix
<1>3. /\ Head(l.left) = l.left[1] /\ Head(l.left) \in Keys
      /\ Tail(l.left) \in Seq(Keys) /\ Len(Tail(l.left)) = Len(l.left) - 1
      /\ \A i \in 1 .. Len(Tail(l.left)) : Tail(l.left)[i] = l.left[i + 1]
    BY <1>1, <1>2
<1>4. Head(l.left) = l.keys[Gone(l) + 1]
    BY <1>2, <1>3 DEF Suffix
<1>5. Tail(l.left) \in KeyLists
    <2>1. Len(Tail(l.left)) <= MaxKeys
        BY <1>1, <1>2, <1>3, BoundsAssumption
    <2> DEFINE rest == Tail(l.left)
    <2>2. rest \in Seq(Keys) /\ Len(rest) <= MaxKeys
        BY <1>3, <2>1
    <2> HIDE DEF rest
    <2>3. rest \in KeyLists
        BY <2>2, KeyListsAreSequences
    <2> QED
        BY <2>3 DEF rest
<1>6. Gone(l) \in Nat /\ Gone(l) + 1 \in 1 .. Len(l.keys)
    <2>1. \A a, b \in Nat : b # 0 /\ b <= a => a - b \in Nat /\ (a - b) + 1 \in 1 .. a
        OBVIOUS
    <2>2. Gone(l) = Len(l.keys) - Len(l.left)
        BY DEF Gone
    <2> QED
        BY <1>2, <2>1, <2>2
<1>7. ASSUME NEW m \in Locals, m.keys = l.keys, m.left = Tail(l.left)
      PROVE  /\ Gone(m) = Gone(l) + 1
             /\ m.processed <= l.processed + 1 => Suffix(m)
    <2>1. Gone(m) = Gone(l) + 1
        <3>1. \A a, b, c \in Nat : c = b - 1 => a - c = (a - b) + 1
            OBVIOUS
        <3>2. Len(m.left) = Len(l.left) - 1 /\ Len(m.left) \in Nat /\ m.keys = l.keys
            BY <1>2, <1>3, <1>7
        <3>3. Gone(l) = Len(l.keys) - Len(l.left) /\ Gone(m) = Len(m.keys) - Len(m.left)
            BY DEF Gone
        <3> QED
            BY <1>2, <3>1, <3>2, <3>3
    <2>2. \A i \in 1 .. Len(m.left) : m.left[i] = m.keys[Gone(m) + i]
        <3> TAKE i \in 1 .. Len(m.left)
        <3>1. i + 1 \in 1 .. Len(l.left) /\ m.left[i] = l.left[i + 1]
            BY <1>2, <1>3, <1>7
        <3>2. Gone(l) + (i + 1) = Gone(m) + i
            BY <1>6, <2>1
        <3> QED
            BY <1>7, <3>1, <3>2 DEF Suffix
    <2>3. m.processed \in Nat
        BY BoundsAssumption DEF Locals
    <2> QED
        BY <1>1, <1>2, <1>3, <1>6, <1>7, <2>1, <2>2, <2>3 DEF Suffix
<1> QED
    BY <1>1, <1>2, <1>3, <1>4, <1>5, <1>6, <1>7

(* One key more. *)
LEMMA FirstKeys ==
    ASSUME NEW l, NEW n \in Nat
    PROVE  /\ First(l, n + 1) = First(l, n) \cup {l.keys[n + 1]}
           /\ FirstLinks(l, n + 1) = FirstLinks(l, n) \cup {<<l.owner, l.keys[n + 1]>>}
<1>1. 1 .. (n + 1) = (1 .. n) \cup {n + 1}
    OBVIOUS
<1> QED
    BY <1>1 DEF First, FirstLinks

(* The store is asked for the key; one it does not have is passed over. *)
LEMMA GetMediaInfoInv ==
    ASSUME IInv, NEW r \in Requests, GetMediaInfo(r)
    PROVE  IInv'
<1> DEFINE l == req[r]
<1>1. /\ LocalsAt(r, "media", l, tx[r], stored) /\ l \in Locals /\ tx[r] \in TxType
      /\ pc[r] = "media" /\ l.left # <<>>
    BY DEF IInv, LocalsInv, TypeOK, TxType, GetMediaInfo
<1>2. /\ tx' = [tx EXCEPT ![r] = tx[r]]
      /\ UNCHANGED <<uploaded, stored, media, links, notes, holding>> /\ holding' \subseteq Requests
    BY DEF IInv, TypeOK, GetMediaInfo, db
<1>3. CASE pc' = [pc EXCEPT ![r] = "upsert"] /\ UNCHANGED req
    <2>1. LocalsAt(r, "upsert", l, tx[r], stored) /\ req' = [req EXCEPT ![r] = l]
        BY <1>1, <1>3 DEF LocalsAt, IInv, TypeOK
    <2> QED
        BY <1>1, <1>2, <1>3, <2>1, QuietInv DEF Labels
<1>4. CASE UNCHANGED pc /\ Set(r, "left", Tail(l.left))
    <2> DEFINE m == [l EXCEPT !.left = Tail(l.left)]
    <2>1. Suffix(l)
        BY <1>1 DEF LocalsAt
    <2>2. /\ m \in Locals /\ m.op = l.op /\ m.owner = l.owner /\ m.keys = l.keys
          /\ m.left = Tail(l.left) /\ m.processed = l.processed /\ m.answer = l.answer
        BY <1>1, <2>1, NextKey DEF Locals
    <2>3. Gone(m) = Gone(l) + 1 /\ Gone(l) \in Nat /\ l.processed \in Nat
        <3>1. Gone(m) = Gone(l) + 1 /\ Gone(l) \in Nat
            BY <1>1, <2>1, <2>2, NextKey
        <3>2. l.processed \in Nat
            BY <1>1, BoundsAssumption DEF Locals
        <3> QED
            BY <3>1, <3>2
    <2>4. Suffix(m) /\ m.processed # Gone(m)
        <3>1. m.processed <= l.processed + 1
            BY <2>2, <2>3
        <3>2. l.processed <= Gone(l)
            BY <2>1 DEF Suffix
        <3>3. Suffix(m)
            BY <1>1, <2>1, <2>2, <3>1, NextKey
        <3>4. m.processed # Gone(m)
            BY <2>2, <2>3, <3>2
        <3> QED
            BY <3>3, <3>4
    <2>5. LocalsAt(r, "media", m, tx[r], stored)
        BY <1>1, <2>2, <2>4 DEF LocalsAt, Attached
    <2>6. req' = [req EXCEPT ![r] = m] /\ pc' = [pc EXCEPT ![r] = "media"]
        BY <1>1, <1>4, SetLeft DEF IInv, TypeOK
    <2> QED
        BY <1>1, <1>2, <2>2, <2>5, <2>6, QuietInv DEF Labels
<1> QED
    BY <1>3, <1>4 DEF GetMediaInfo, Goto

(* The row of the key is written in the transaction. *)
LEMMA UpsertMediaInv ==
    ASSUME IInv, NEW r \in Requests, UpsertMedia(r)
    PROVE  IInv'
<1> DEFINE l == req[r]  t == [tx[r] EXCEPT !.media = @ \cup {Key(r)}]
<1>1. /\ LocalsAt(r, "upsert", l, tx[r], stored) /\ l \in Locals /\ tx[r] \in TxType
      /\ pc[r] = "upsert"
    BY DEF IInv, LocalsInv, TypeOK, TxType, UpsertMedia
<1>2. Suffix(l) /\ l.left # <<>>
    BY <1>1 DEF LocalsAt
<1>3. Key(r) = l.keys[Gone(l) + 1] /\ Key(r) \in Keys /\ Gone(l) \in Nat
    BY <1>1, <1>2, NextKey DEF Key
<1>4. /\ t \in TxType /\ t.stored = tx[r].stored /\ t.links = tx[r].links
      /\ t.notes = tx[r].notes /\ t.media = tx[r].media \cup {Key(r)}
    BY <1>1, <1>3 DEF TxType
<1>5. Attached(l, t, Gone(l) + 1, Gone(l))
    BY <1>1, <1>3, <1>4, FirstKeys DEF LocalsAt, Attached
<1>6. LocalsAt(r, "link", l, t, stored)
    BY <1>1, <1>4, <1>5 DEF LocalsAt
<1>7. /\ pc' = [pc EXCEPT ![r] = "link"] /\ req' = [req EXCEPT ![r] = l]
      /\ tx' = [tx EXCEPT ![r] = t]
      /\ UNCHANGED <<uploaded, stored, media, links, notes>> /\ holding' \subseteq Requests
    BY DEF IInv, TypeOK, UpsertMedia, Goto, db
<1> QED
    BY <1>1, <1>4, <1>6, <1>7, QuietInv DEF Labels

(* The key is linked to the row in the transaction. *)
LEMMA InsertLinkInv ==
    ASSUME IInv, NEW r \in Requests, InsertLink(r)
    PROVE  IInv'
<1> DEFINE l == req[r]
           link == <<l.owner, Key(r)>>
           m == [l EXCEPT !.left = Tail(@), !.processed = @ + 1]
           t == [tx[r] EXCEPT !.links = Row(link, r) \oplus @]
<1>1. /\ LocalsAt(r, "link", l, tx[r], stored) /\ l \in Locals /\ tx[r] \in TxType
      /\ pc[r] = "link"
    BY DEF IInv, LocalsInv, TypeOK, TxType, InsertLink
<1>2. Suffix(l) /\ l.left # <<>> /\ l.owner \in Owners /\ l.processed \in Nat
    BY <1>1, RowsAreOwners, BoundsAssumption DEF LocalsAt, Locals
<1>3. /\ Key(r) = l.keys[Gone(l) + 1] /\ Key(r) \in Keys /\ Gone(l) \in Nat
      /\ Tail(l.left) \in KeyLists
    BY <1>1, <1>2, NextKey DEF Key
<1>4. l.processed + 1 \in 0 .. MaxKeys
    <2>1. Gone(l) + 1 \in 1 .. Len(l.keys) /\ Len(l.keys) <= MaxKeys /\ Len(l.keys) \in Nat
        BY <1>1, <1>2, NextKey
    <2>2. l.processed <= Gone(l)
        BY <1>2 DEF Suffix
    <2> QED
        BY <1>2, <1>3, <2>1, <2>2, BoundsAssumption
<1>5. /\ m \in Locals /\ m.op = l.op /\ m.owner = l.owner /\ m.keys = l.keys
      /\ m.left = Tail(l.left) /\ m.processed = l.processed + 1 /\ m.answer = l.answer
    BY <1>1, <1>3, <1>4 DEF Locals
<1>6. Gone(m) = Gone(l) + 1 /\ Suffix(m)
    <2>1. m.processed <= l.processed + 1
        BY <1>2, <1>5
    <2> QED
        BY <1>1, <1>2, <1>5, <2>1, NextKey
<1>7. /\ t \in TxType /\ t.stored = tx[r].stored /\ t.media = tx[r].media
      /\ t.notes = tx[r].notes /\ t.links = Row(link, r) \oplus tx[r].links
    <2>1. Row(link, r) \in Tables(Owners \X Keys, Requests)
        BY <1>2, <1>3, OneRow
    <2>2. tx[r].links \in Tables(Owners \X Keys, Requests)
        BY <1>1 DEF TxType
    <2>3. Row(link, r) \oplus tx[r].links \in Tables(Owners \X Keys, Requests)
        BY <2>1, <2>2, Overlay
    <2> QED
        BY <1>1, <2>3 DEF TxType
<1>8. /\ DOMAIN t.links = DOMAIN tx[r].links \cup {link}
      /\ \A x \in DOMAIN t.links : t.links[x] = r
    <2>1. \A x \in DOMAIN tx[r].links : tx[r].links[x] = r
        BY <1>1 DEF LocalsAt
    <2> HIDE DEF t, link
    <2> QED
        BY <1>7, <2>1 DEF Row, \oplus
<1>9. Attached(m, t, Gone(m), Gone(m))
    <2> SUFFICES ASSUME m.processed = Gone(m)
                 PROVE  t.media = First(m, Gone(m)) /\ DOMAIN t.links = FirstLinks(m, Gone(m))
        BY DEF Attached
    <2>1. l.processed = Gone(l)
        BY <1>2, <1>3, <1>5, <1>6
    <2>2. tx[r].media = First(l, Gone(l) + 1) /\ DOMAIN tx[r].links = FirstLinks(l, Gone(l))
        BY <1>1, <2>1 DEF LocalsAt, Attached
    <2>3. DOMAIN t.links = FirstLinks(l, Gone(l) + 1)
        <3>1. FirstLinks(l, Gone(l) + 1) = FirstLinks(l, Gone(l)) \cup {link}
            BY <1>3, FirstKeys
        <3> QED
            BY <1>8, <2>2, <3>1
    <2>4. First(m, Gone(m)) = First(l, Gone(l) + 1)
          /\ FirstLinks(m, Gone(m)) = FirstLinks(l, Gone(l) + 1)
        BY <1>5, <1>6 DEF First, FirstLinks
    <2> QED
        BY <1>7, <2>2, <2>3, <2>4
<1>10. LocalsAt(r, "media", m, t, stored)
    <2> HIDE DEF m, t
    <2> QED
        BY <1>1, <1>5, <1>6, <1>7, <1>8, <1>9 DEF LocalsAt
<1>11. /\ pc' = [pc EXCEPT ![r] = "media"] /\ tx' = [tx EXCEPT ![r] = t]
       /\ UNCHANGED <<uploaded, stored, media, links, notes>> /\ holding' \subseteq Requests
    BY DEF IInv, TypeOK, InsertLink, Goto, db
<1>12. req' = [req EXCEPT ![r] = m]
    BY DEF IInv, TypeOK, InsertLink
<1> HIDE DEF m, t
<1> QED
    BY <1>1, <1>5, <1>7, <1>10, <1>11, <1>12, QuietInv DEF Labels

(* An update of a post that says nothing is answered at once. *)
LEMMA NothingToUpdateInv ==
    ASSUME IInv, NEW r \in Requests, NothingToUpdate(r)
    PROVE  IInv'
<1> DEFINE l == [req[r] EXCEPT !.answer = "success"]
<1>1. /\ LocalsAt(r, "check", req[r], tx[r], stored) /\ req[r] \in Locals
      /\ tx[r] \in TxType /\ pc[r] = "check"
    BY DEF IInv, LocalsInv, TypeOK, TxType, NothingToUpdate
<1>2. l \in Locals /\ l.op = req[r].op
    BY <1>1 DEF Locals
<1>3. LocalsAt(r, "done", l, tx[r], stored)
    BY <1>1, <1>2 DEF LocalsAt
<1>4. /\ pc' = [pc EXCEPT ![r] = "done"] /\ req' = [req EXCEPT ![r] = l]
      /\ tx' = [tx EXCEPT ![r] = tx[r]]
      /\ UNCHANGED <<uploaded, stored, media, links, notes>> /\ holding' \subseteq Requests
    BY SetAnswer DEF IInv, TypeOK, NothingToUpdate, Goto, db
<1> QED
    BY <1>1, <1>2, <1>3, <1>4, QuietInv DEF Labels

(* When no key is left, all keys were processed: the transaction has them. *)
LEMMA AllAttached ==
    ASSUME NEW l \in Locals, NEW t, Suffix(l), Attached(l, t, Gone(l), Gone(l)),
           l.left = <<>>, l.processed = Len(l.keys)
    PROVE  /\ t.media = NamedBy(l.keys)
           /\ DOMAIN t.links = {<<l.owner, k>> : k \in NamedBy(l.keys)}
<1>1. l.keys \in Seq(Keys) /\ Gone(l) = Len(l.keys)
    BY KeyListsAreSequences DEF Locals, Gone
<1>2. DOMAIN l.keys = 1 .. Gone(l)
    BY <1>1
<1>3. t.media = First(l, Gone(l)) /\ DOMAIN t.links = FirstLinks(l, Gone(l))
    BY <1>1 DEF Attached
<1> QED
    BY <1>2, <1>3 DEF First, FirstLinks, NamedBy

(* create_offer tells the owner of the post. *)
LEMMA NotifyOwnerInv ==
    ASSUME IInv, NEW r \in Requests, NotifyOwner(r)
    PROVE  IInv'
<1> DEFINE l == req[r]  t == [tx[r] EXCEPT !.notes = {l.owner}]
<1>1. /\ LocalsAt(r, "media", l, tx[r], stored) /\ l \in Locals /\ tx[r] \in TxType
      /\ pc[r] = "media" /\ l.op = "create_offer"
      /\ l.left = <<>> /\ l.processed = Len(l.keys)
    BY DEF IInv, LocalsInv, TypeOK, TxType, NotifyOwner, AllProcessed
<1>2. Suffix(l) /\ Attached(l, tx[r], Gone(l), Gone(l)) /\ l.owner \in Offers
    BY <1>1, RowsAreOwners DEF LocalsAt
<1>3. /\ tx[r].media = NamedBy(l.keys)
      /\ DOMAIN tx[r].links = {<<l.owner, k>> : k \in NamedBy(l.keys)}
    BY <1>1, <1>2, AllAttached
<1>4. /\ t \in TxType /\ t.stored = tx[r].stored /\ t.media = tx[r].media
      /\ t.links = tx[r].links /\ t.notes = {l.owner}
    BY <1>1, <1>2 DEF TxType
<1>5. LocalsAt(r, "answer", l, t, stored)
    BY <1>1, <1>3, <1>4 DEF LocalsAt
<1>6. /\ pc' = [pc EXCEPT ![r] = "answer"] /\ req' = [req EXCEPT ![r] = l]
      /\ tx' = [tx EXCEPT ![r] = t]
      /\ UNCHANGED <<uploaded, stored, media, links, notes>> /\ holding' \subseteq Requests
    BY DEF IInv, TypeOK, NotifyOwner, Goto, db
<1> QED
    BY <1>1, <1>4, <1>5, <1>6, QuietInv DEF Labels

(* The answer is sent, before the commit. *)
LEMMA AnswerInv ==
    ASSUME IInv, NEW r \in Requests, Answer(r)
    PROVE  IInv'
<1> DEFINE l == req[r]  m == [l EXCEPT !.answer = "success"]  t == tx[r]
<1>1. /\ l \in Locals /\ t \in TxType /\ LocalsAt(r, pc[r], l, t, stored)
      /\ pc[r] \in {"media", "answer"}
    BY DEF IInv, LocalsInv, TypeOK, TxType, Answer
<1>2. /\ m \in Locals /\ m.op = l.op /\ m.owner = l.owner /\ m.keys = l.keys
      /\ m.answer = "success"
    BY <1>1 DEF Locals
<1>3. /\ t.media = NamedBy(l.keys)
      /\ DOMAIN t.links = {<<l.owner, k>> : k \in NamedBy(l.keys)}
      /\ t.notes = IF l.op = "create_offer" THEN {l.owner} ELSE {}
    <2>1. CASE pc[r] = "answer"
        BY <1>1, <2>1 DEF LocalsAt
    <2>2. CASE pc[r] = "media" /\ AllProcessed(r) /\ l.op # "create_offer"
        <3>1. Suffix(l) /\ Attached(l, t, Gone(l), Gone(l)) /\ t.notes = {}
            BY <1>1, <2>2 DEF LocalsAt
        <3>2. l.left = <<>> /\ l.processed = Len(l.keys)
            BY <2>2 DEF AllProcessed
        <3> QED
            BY <1>1, <2>2, <3>1, <3>2, AllAttached
    <2> QED
        BY <2>1, <2>2 DEF Answer
<1>4. LocalsAt(r, "commit", m, t, stored)
    <2> HIDE DEF m
    <2> QED
        BY <1>1, <1>2, <1>3 DEF LocalsAt
<1>5. /\ pc' = [pc EXCEPT ![r] = "commit"] /\ req' = [req EXCEPT ![r] = m]
      /\ tx' = [tx EXCEPT ![r] = t]
      /\ UNCHANGED <<uploaded, stored, media, links, notes>> /\ holding' \subseteq Requests
    BY SetAnswer DEF IInv, TypeOK, Answer, Goto, db
<1> QED
    BY <1>1, <1>2, <1>4, <1>5, QuietInv DEF Labels

(* Which rows a transaction that is about to commit holds. *)
LEMMA Committing ==
    ASSUME IInv, NEW r \in Requests, Commit(r)
    PROVE  /\ tx[r] \in TxType /\ req[r] \in Locals /\ req[r].op \in Operations
           /\ req[r].answer = "success" /\ req[r].owner \in Rows(req[r].op)
           /\ tx[r].stored = IF req[r].op = "update_offer" THEN NoRows
                             ELSE Row(req[r].owner, r)
           /\ req[r].op = "update_offer" => req[r].owner \in DOMAIN stored
           /\ tx[r].media = NamedBy(req[r].keys)
           /\ DOMAIN tx[r].links = LinksOf(r)
           /\ \A link \in DOMAIN tx[r].links : tx[r].links[link] = r
           /\ tx[r].notes = IF req[r].op = "create_offer" THEN {req[r].owner} ELSE {}
<1>1. LocalsAt(r, "commit", req[r], tx[r], stored) /\ tx[r] \in TxType /\ req[r] \in Locals
    BY DEF IInv, LocalsInv, TypeOK, TxType, Commit
<1> QED
    BY <1>1 DEF LocalsAt, LinksOf

(* The transaction commits. *)
LEMMA CommitInv ==
    ASSUME IInv, NEW r \in Requests, Commit(r)
    PROVE  IInv'
<1> USE DEF IInv
<1> DEFINE l == req[r]  t == tx[r]
<1>1. /\ stored' = t.stored \oplus stored /\ media' = media \cup t.media
      /\ links' = t.links \oplus links /\ notes' = notes \cup t.notes
      /\ holding' = holding \ {r} /\ tx' = [tx EXCEPT ![r] = NoWrites]
      /\ pc' = [pc EXCEPT ![r] = "done"] /\ UNCHANGED <<uploaded, req>>
    BY DEF Commit, Release, Goto
<1>2. t \in TxType /\ l \in Locals /\ l.op \in Operations /\ l.answer = "success"
    BY Committing
<1>3. \A o \in DOMAIN t.stored : t.stored[o] = r
    <2>1. CASE l.op = "update_offer"
        <3>1. t.stored = NoRows
            BY <2>1, Committing
        <3>2. DOMAIN NoRows = {}
            BY DEF NoRows
        <3> QED
            BY <3>1, <3>2
    <2>2. CASE l.op # "update_offer"
        <3>1. t.stored = Row(l.owner, r)
            BY <2>2, Committing
        <3>2. DOMAIN Row(l.owner, r) = {l.owner} /\ Row(l.owner, r)[l.owner] = r
            BY DEF Row
        <3> QED
            BY <3>1, <3>2
    <2> QED
        BY <2>1, <2>2
<1>5. stored' \in Tables(Owners, Writer)
    <2>1. t.stored \in Tables(Owners, Writer)
        <3>1. t.stored \in Tables(Owners, Requests)
            BY <1>2 DEF TxType
        <3>2. DOMAIN t.stored \subseteq Owners /\ t.stored \in [DOMAIN t.stored -> Requests]
            BY <3>1, TableIsFunction
        <3>3. t.stored \in [DOMAIN t.stored -> Writer]
            BY <3>2 DEF Writer
        <3> QED
            BY <3>2, <3>3, TableIsFunction
    <2> QED
        BY <1>1, <2>1, Overlay DEF TypeOK
<1>6. links' \in Tables(Owners \X Keys, Requests)
    BY <1>1, <1>2, Overlay DEF TypeOK, TxType
<1>7. media' \subseteq Keys /\ notes' \subseteq Offers
    BY <1>1, <1>2 DEF TypeOK, TxType
<1>8. TypeOK'
    <2>1. tx' \in [Requests -> TxType]
        BY <1>1, NoWritesType DEF TypeOK, TxType
    <2> QED
        BY <1>1, <1>5, <1>6, <1>7, <2>1 DEF TypeOK, TxType
<1>9. /\ DOMAIN stored' = DOMAIN t.stored \cup DOMAIN stored
      /\ \A o \in DOMAIN stored' : stored'[o] = r \/ (o \in DOMAIN stored /\ stored'[o] = stored[o])
    BY <1>1, <1>3 DEF \oplus
<1>10. /\ DOMAIN links' = DOMAIN t.links \cup DOMAIN links
       /\ \A x \in DOMAIN links' : links'[x] = r \/ (x \in DOMAIN links /\ links'[x] = links[x])
    <2>1. \A x \in DOMAIN t.links : t.links[x] = r
        BY Committing
    <2> QED
        BY <1>1, <2>1 DEF \oplus
<1>11. LocalsInv'
    <2>1. req' = [req EXCEPT ![r] = l]
        BY <1>1 DEF TypeOK
    <2>2. LocalsAt(r, "done", l, NoWrites, stored')
        BY <1>2 DEF LocalsAt
    <2>3. DOMAIN stored \subseteq DOMAIN stored'
        BY <1>9
    <2> QED
        BY <1>1, <2>1, <2>2, <2>3, OthersKept
<1>12. \A s \in Requests : (s # r => pc'[s] = pc[s]) /\ req'[s] = req[s]
    BY <1>1 DEF TypeOK
<1>13. pc'[r] = "done"
    BY <1>1 DEF TypeOK
<1>14. TracesInv'
    BY <1>2, <1>9, <1>10, <1>12, <1>13 DEF TracesInv
<1> QED
    BY <1>8, <1>11, <1>14

-----------------------------------------------------------------------------
(* A request whose answer says that media are missing rolls back. *)
LEMMA SomeMissingInv ==
    ASSUME IInv, NEW r \in Requests, SomeMissing(r)
    PROVE  IInv'
BY RolledBackInv DEF SomeMissing

(* A request whose media failed answers, or the process stops. *)
LEMMA UnexpectedInv ==
    ASSUME IInv, NEW r \in Requests, Unexpected(r)
    PROVE  IInv'
<1>1. CASE RolledBack(r, IF req[r].op = "create_post" THEN "success" ELSE "failed")
    BY <1>1, RolledBackInv DEF Unexpected
<1>2. CASE Crash
    BY <1>2, CrashInv
<1> QED
    BY <1>1, <1>2 DEF Unexpected

(* A statement, a connection or a commit fails. *)
LEMMA FailInv ==
    ASSUME IInv, NEW r \in Requests, Fail(r)
    PROVE  IInv'
<1>1. CASE RolledBack(r, "failed") /\ pc[r] \in {"check", "begin", "write", "media"}
    BY <1>1, RolledBackInv
<1>2. CASE pc[r] \in {"upsert", "link"} /\ SqlError(r)
    BY <1>2, SqlErrorInv
<1>3. CASE pc[r] = "commit" /\ RolledBack(r, req[r].answer)
    <2>1. req[r].answer = "success"
        BY <1>3 DEF IInv, LocalsInv, LocalsAt
    <2> QED
        BY <1>3, <2>1, RolledBackInv DEF Fail
<1> QED
    BY <1>1, <1>2, <1>3 DEF Fail

(* Every step keeps the invariant. *)
LEMMA NextInv ==
    ASSUME IInv, [Next]_vars
    PROVE  IInv'
<1>1. CASE UNCHANGED vars
    BY <1>1 DEF vars, IInv, TypeOK, LocalsInv, TracesInv
<1>2. ASSUME NEW r \in Requests, Step(r)
      PROVE  IInv'
    <2>1. ASSUME LinkExists(r) PROVE IInv'
        BY <2>1, SqlErrorInv DEF LinkExists
    <2> QED
        BY <1>2, <2>1, CheckInv, BeginTransactionInv, InsertRowInv, UpdatePostInv,
           UpdateOfferInv, GetMediaInfoInv, UpsertMediaInv, InsertLinkInv, NotifyOwnerInv,
           AnswerInv, NothingToUpdateInv, SomeMissingInv, UnexpectedInv, CommitInv DEF Step
<1>3. ASSUME NEW r \in Requests, DeadlockVictim(r)
      PROVE  IInv'
    <2>1. PICK C \in SUBSET Requests : r \in C /\ \A s \in C : \E t \in C : WaitsFor(s, t)
        BY <1>3 DEF DeadlockVictim, InCycle
    <2>2. pc[r] = "upsert"
        BY <2>1 DEF WaitsFor
    <2> QED
        BY <1>3, <2>2, SqlErrorInv DEF DeadlockVictim
<1> QED
    BY <1>1, <1>2, <1>3, UploadInv, NewRequestInv, FailInv, CrashInv DEF Next

-----------------------------------------------------------------------------
(* The inductive invariant holds in every reachable state of Attachments:    *)
(* process_media_attachments and the transactions that call it, whatever     *)
(* fails and however they share keys, rows and connections.                 *)
THEOREM Invariance == Spec => []IInv
<1> QED
    BY InitInv, NextInv, PTL DEF Spec

(* Every variable holds rows, locals and labels of its kind. *)
THEOREM TypeCorrect == Spec => []TypeOK
<1>1. IInv => TypeOK
    BY DEF IInv
<1> QED
    BY <1>1, Invariance, PTL

(* A request that was answered with an error left no link, and no row but    *)
(* that of update_offer, whose statement is not part of its transaction.     *)
THEOREM ErrorsLeaveNoTrace == Spec => []FailedLeavesNoTrace
<1>1. IInv => FailedLeavesNoTrace
    BY DEF IInv, TracesInv, FailedLeavesNoTrace
<1> QED
    BY <1>1, Invariance, PTL

(* The steps that change the tables. *)
LEMMA Writers ==
    ASSUME IInv, [Next]_vars
    PROVE  \/ UNCHANGED db
           \/ \E r \in Requests : Commit(r) \/ UpdateOffer(r)
<1>1. CASE UNCHANGED vars
    BY <1>1 DEF vars, db
<1>2. CASE Crash \/ \E k \in Keys : Upload(k)
    BY <1>2 DEF Crash, Upload
<1>3. ASSUME NEW r \in Requests, NewRequest(r) \/ DeadlockVictim(r) \/ Fail(r)
      PROVE  UNCHANGED db
    BY <1>3 DEF NewRequest, Arrive, DeadlockVictim, Fail, RolledBack, SqlError
<1>4. ASSUME NEW r \in Requests, Step(r)
      PROVE  UNCHANGED db \/ Commit(r) \/ UpdateOffer(r)
    BY <1>4 DEF Step, Check, NothingToUpdate, BeginTransaction, InsertRow, UpdatePost, GetMediaInfo,
       UpsertMedia, InsertLink, LinkExists, SqlError, NotifyOwner, Answer, SomeMissing,
       RolledBack, Unexpected, Crash
<1> QED
    BY <1>1, <1>2, <1>3, <1>4 DEF Next

(* Every change of the tables is one whole request, or the row of            *)
(* update_offer, which it writes apart from its media.                      *)
THEOREM ChangesAreWhole == Spec => WholeRequests
<1> DEFINE Apart(r) == req[r].op = "update_offer"
           RowOf(r) == Row(req[r].owner, r) \oplus stored
           Whole == \E r \in Requests :
               \/ Apart(r) /\ stored' = RowOf(r) /\ UNCHANGED <<media, links, notes>>
               \/ /\ stored' = IF Apart(r) THEN stored ELSE RowOf(r)
                  /\ media' = media \cup NamedBy(req[r].keys)
                  /\ links' = [link \in LinksOf(r) |-> r] \oplus links
                  /\ notes' = notes \cup
                         (IF req[r].op = "create_offer" THEN {req[r].owner} ELSE {})
<1>1. ASSUME IInv, [Next]_vars
      PROVE  [Whole]_db
    <2> SUFFICES ASSUME ~ UNCHANGED db PROVE Whole
        OBVIOUS
    <2>1. PICK r \in Requests : Commit(r) \/ UpdateOffer(r)
        BY <1>1, Writers
    <2>2. CASE UpdateOffer(r)
        BY <2>2 DEF UpdateOffer
    <2>3. CASE Commit(r)
        <3>1. /\ tx[r] \in TxType /\ DOMAIN tx[r].links = LinksOf(r)
              /\ \A link \in DOMAIN tx[r].links : tx[r].links[link] = r
            BY <1>1, <2>3, Committing
        <3>2. tx[r].links = [link \in LinksOf(r) |-> r]
            <4>1. tx[r].links \in [DOMAIN tx[r].links -> Requests]
                BY <3>1, TableIsFunction DEF TxType
            <4> QED
                BY <3>1, <4>1
        <3>3. /\ tx[r].media = NamedBy(req[r].keys)
              /\ tx[r].notes = IF req[r].op = "create_offer" THEN {req[r].owner} ELSE {}
            BY <1>1, <2>3, Committing
        <3>4. stored' = IF Apart(r) THEN stored ELSE RowOf(r)
            <4>1. stored' = tx[r].stored \oplus stored
                BY <2>3 DEF Commit
            <4>2. CASE Apart(r)
                <5>1. tx[r].stored = NoRows
                    BY <1>1, <2>3, <4>2, Committing
                <5>2. stored \in [DOMAIN stored -> Writer]
                    BY <1>1, TableIsFunction DEF IInv, TypeOK
                <5>3. NoRows \oplus stored = stored
                    BY <5>2 DEF NoRows, \oplus
                <5> QED
                    BY <4>1, <4>2, <5>1, <5>3
            <4>3. CASE ~ Apart(r)
                <5>1. tx[r].stored = Row(req[r].owner, r)
                    BY <1>1, <2>3, <4>3, Committing
                <5> QED
                    BY <4>1, <4>3, <5>1
            <4> QED
                BY <4>2, <4>3
        <3> QED
            BY <2>3, <3>2, <3>3, <3>4 DEF Commit
    <2> QED
        BY <2>1, <2>2, <2>3
<1>2. IInv /\ [Next]_vars => [Whole]_db
    BY <1>1
<1> QED
    BY <1>2, Invariance, PTL DEF Spec, WholeRequests

=============================================================================
