--------------------------- MODULE DeliveryProofs ---------------------------
(***************************************************************************)
(* Theorems about Delivery, for any number of event loops, topics, sockets  *)
(* and events.                                                              *)
(***************************************************************************)
EXTENDS Delivery, SequenceTheorems, TLAPS

-----------------------------------------------------------------------------
(* Every frame on its way is of an event that was published, and every       *)
(* thread is sending an event of its own.                                   *)
EventsInv ==
    /\ \A i \in DOMAIN pipe : pipe[i].event \in DOMAIN published
    /\ \A i \in DOMAIN hand : hand[i].event \in DOMAIN published
    /\ \A i \in DOMAIN message :
          ~ IsData(message[i]) /\ message[i].event \in DOMAIN published
    /\ \A s \in Sockets : \A i \in DOMAIN inbox[s] : inbox[s][i].event \in DOMAIN published
    /\ \A th \in Threads : sending[th] # None =>
          sending[th] \in DOMAIN published /\ published[sending[th]].by = th

(* Payloads of one thread are sent, travel and are shown in the order in     *)
(* which it published them.                                                 *)
Before(a, b) ==
    IsData(a) /\ IsData(b) /\ published[a.event].by = published[b.event].by =>
        a.event < b.event
SentBefore(a, th) ==
    sending[th] # None /\ IsData(a) /\ published[a.event].by = th => a.event < sending[th]
OrderInv ==
    /\ \A i, j \in DOMAIN pipe : i < j => Before(pipe[i], pipe[j])
    /\ \A i \in DOMAIN pipe, th \in Threads : SentBefore(pipe[i], th)
    /\ \A s \in Sockets : \A i \in DOMAIN inbox[s] :
          /\ \A j \in DOMAIN inbox[s] : i < j => Before(inbox[s][i], inbox[s][j])
          /\ \A j \in DOMAIN pipe : Before(inbox[s][i], pipe[j])
          /\ \A th \in Threads : SentBefore(inbox[s][i], th)

(* A sequence of topics with their payloads. *)
Pairs(q) ==
    \E m \in 0 .. Len(q) :
        /\ Len(q) = 2 * m
        /\ \A i \in 1 .. m :
              /\ ~ IsData(q[2 * i - 1]) /\ IsData(q[2 * i])
              /\ q[2 * i - 1].event = q[2 * i].event

(* As long as the stream is whole, what is on its way are pairs, and what is *)
(* being sent is the topic of the one event that is being published.         *)
Publishing(th) == message = <<TopicFrame(sending[th])>>
WholeInv ==
    /\ message # <<>> => \E th \in Threads : sending[th] # None
    /\ ~ torn =>
          /\ Pairs(hand \o pipe)
          /\ message = <<>> => \A th \in Threads : sending[th] = None
          /\ \A th \in Threads : sending[th] # None =>
                Publishing(th) /\ \A o \in Threads \ {th} : sending[o] = None

(* Whoever has an open socket is known, and a socket that is not open was    *)
(* shown nothing.                                                           *)
SocketsInv ==
    \A s \in Sockets :
        /\ socket[s] = "open" => Owner[s] \in known
        /\ socket[s] # "open" => inbox[s] = <<>>

(* The whole inductive invariant. *)
IInv == TypeOK /\ EventsInv /\ OrderInv /\ WholeInv /\ SocketsInv

-----------------------------------------------------------------------------
(* Pairs are topics and payloads in turn, as FramesAligned says. *)
LEMMA PairsAreAligned ==
    ASSUME NEW q \in Seq(Frame), Pairs(q)
    PROVE  /\ \A i \in 1 .. Len(q) : IsData(q[i]) <=> i % 2 = 0
           /\ \A i \in 1 .. Len(q) \div 2 : q[2 * i - 1].event = q[2 * i].event
           /\ Len(q) % 2 = 0
<1>1. PICK m \in 0 .. Len(q) :
         /\ Len(q) = 2 * m
         /\ \A i \in 1 .. m :
              /\ ~ IsData(q[2 * i - 1]) /\ IsData(q[2 * i])
              /\ q[2 * i - 1].event = q[2 * i].event
    BY DEF Pairs
<1>2. m \in Nat /\ Len(q) \in Nat
    OBVIOUS
<1>3. Len(q) % 2 = 0 /\ Len(q) \div 2 = m
    BY <1>1, <1>2
<1>4. ASSUME NEW i \in 1 .. Len(q)
      PROVE  IsData(q[i]) <=> i % 2 = 0
    <2>1. CASE i % 2 = 0
        <3>1. PICK k \in 1 .. m : i = 2 * k
            <4>1. i \div 2 \in 1 .. m /\ i = 2 * (i \div 2)
                BY <1>1, <1>2, <2>1
            <4> QED
                BY <4>1
        <3> QED
            BY <1>1, <2>1, <3>1
    <2>2. CASE i % 2 # 0
        <3>1. PICK k \in 1 .. m : i = 2 * k - 1
            <4>1. (i + 1) \div 2 \in 1 .. m /\ i = 2 * ((i + 1) \div 2) - 1
                BY <1>1, <1>2, <2>2
            <4> QED
                BY <4>1
        <3> QED
            BY <1>1, <2>2, <3>1
    <2> QED
        BY <2>1, <2>2
<1> QED
    BY <1>1, <1>3, <1>4

(* One pair more. *)
LEMMA PairAdded ==
    ASSUME NEW q \in Seq(Frame), Pairs(q), NEW r \in Seq(Frame),
           Len(r) = Len(q) + 2, \A i \in 1 .. Len(q) : r[i] = q[i],
           ~ IsData(r[Len(q) + 1]), IsData(r[Len(q) + 2]),
           r[Len(q) + 1].event = r[Len(q) + 2].event
    PROVE  Pairs(r)
<1>1. PICK m \in 0 .. Len(q) :
         /\ Len(q) = 2 * m
         /\ \A i \in 1 .. m :
              /\ ~ IsData(q[2 * i - 1]) /\ IsData(q[2 * i])
              /\ q[2 * i - 1].event = q[2 * i].event
    BY DEF Pairs
<1>2. m + 1 \in 0 .. Len(r) /\ Len(r) = 2 * (m + 1) /\ m \in Nat /\ Len(q) \in Nat
    BY <1>1
<1>3. ASSUME NEW i \in 1 .. (m + 1)
      PROVE  /\ ~ IsData(r[2 * i - 1]) /\ IsData(r[2 * i])
             /\ r[2 * i - 1].event = r[2 * i].event
    <2>1. CASE i = m + 1
        <3>1. 2 * i - 1 = Len(q) + 1 /\ 2 * i = Len(q) + 2
            BY <1>1, <1>2, <2>1
        <3> QED
            BY <3>1
    <2>2. CASE i # m + 1
        <3>1. i \in 1 .. m /\ 2 * i - 1 \in 1 .. Len(q) /\ 2 * i \in 1 .. Len(q)
            BY <1>1, <1>2, <2>2
        <3> QED
            BY <1>1, <3>1
    <2> QED
        BY <2>1, <2>2
<1> QED
    BY <1>2, <1>3 DEF Pairs

(* One pair less. *)
LEMMA PairTaken ==
    ASSUME NEW q \in Seq(Frame), Pairs(q), NEW r \in Seq(Frame),
           Len(q) = Len(r) + 2, \A i \in 1 .. Len(r) : r[i] = q[i + 2]
    PROVE  Pairs(r)
<1>1. PICK m \in 0 .. Len(q) :
         /\ Len(q) = 2 * m
         /\ \A i \in 1 .. m :
              /\ ~ IsData(q[2 * i - 1]) /\ IsData(q[2 * i])
              /\ q[2 * i - 1].event = q[2 * i].event
    BY DEF Pairs
<1>2. Len(r) \in Nat /\ Len(q) \in Nat /\ m \in Nat
    OBVIOUS
<1>3. m - 1 \in 0 .. Len(r) /\ Len(r) = 2 * (m - 1)
    BY <1>1, <1>2
<1>4. ASSUME NEW i \in 1 .. (m - 1)
      PROVE  /\ ~ IsData(r[2 * i - 1]) /\ IsData(r[2 * i])
             /\ r[2 * i - 1].event = r[2 * i].event
    <2>1. i + 1 \in 1 .. m /\ 2 * i - 1 \in 1 .. Len(r) /\ 2 * i \in 1 .. Len(r)
        BY <1>2, <1>3
    <2>2. r[2 * i - 1] = q[2 * (i + 1) - 1] /\ r[2 * i] = q[2 * (i + 1)]
        <3>1. (2 * i - 1) + 2 = 2 * (i + 1) - 1 /\ 2 * i + 2 = 2 * (i + 1)
            BY <1>2, <1>3
        <3> QED
            BY <2>1, <3>1
    <2> QED
        BY <1>1, <2>1, <2>2
<1> QED
    BY <1>3, <1>4 DEF Pairs

(* The frames are of the events, and events have a number. *)
LEMMA Frames ==
    ASSUME NEW n \in Events
    PROVE  /\ TopicFrame(n) \in Frame /\ ~ IsData(TopicFrame(n)) /\ TopicFrame(n).event = n
           /\ DataFrame(n) \in Frame /\ IsData(DataFrame(n)) /\ DataFrame(n).event = n
           /\ n # None /\ n \in Nat
BY BoundsAssumption DEF TopicFrame, DataFrame, Frame, IsData, Events, None

(* What a sequence holds that is another with a third, or a frame, appended. *)
Joins(c, a, b) ==
    /\ c \in Seq(Frame) /\ Len(c) = Len(a) + Len(b)
    /\ Len(a) \in Nat /\ Len(b) \in Nat
    /\ \A i \in 1 .. Len(a) : c[i] = a[i]
    /\ \A i \in 1 .. Len(b) : c[Len(a) + i] = b[i]
    /\ \A i \in 1 .. Len(c) : i \in 1 .. Len(a) \/ \E k \in 1 .. Len(b) : i = Len(a) + k
Adds(c, a, f) ==
    /\ c \in Seq(Frame) /\ Len(c) = Len(a) + 1 /\ Len(a) \in Nat
    /\ \A i \in 1 .. Len(a) : c[i] = a[i]
    /\ c[Len(a) + 1] = f

LEMMA Joined ==
    ASSUME NEW a \in Seq(Frame), NEW b \in Seq(Frame)
    PROVE  Joins(a \o b, a, b)
<1>1. Len(a) \in Nat /\ Len(b) \in Nat
    OBVIOUS
<1>2. /\ a \o b \in Seq(Frame) /\ Len(a \o b) = Len(a) + Len(b)
      /\ \A i \in 1 .. Len(a) + Len(b) :
            (a \o b)[i] = IF i <= Len(a) THEN a[i] ELSE b[i - Len(a)]
    BY ConcatProperties
<1>3. ASSUME NEW i \in 1 .. Len(a) PROVE (a \o b)[i] = a[i]
    <2>1. i \in 1 .. Len(a) + Len(b) /\ i <= Len(a)
        BY <1>1
    <2> QED
        BY <1>2, <2>1
<1>4. ASSUME NEW i \in 1 .. Len(b) PROVE (a \o b)[Len(a) + i] = b[i]
    <2>1. Len(a) + i \in 1 .. Len(a) + Len(b) /\ ~ (Len(a) + i <= Len(a))
          /\ (Len(a) + i) - Len(a) = i
        BY <1>1
    <2> QED
        BY <1>2, <2>1
<1>5. ASSUME NEW i \in 1 .. Len(a) + Len(b), i \notin 1 .. Len(a)
      PROVE  \E k \in 1 .. Len(b) : i = Len(a) + k
    <2>1. i - Len(a) \in 1 .. Len(b) /\ i = Len(a) + (i - Len(a))
        BY <1>1, <1>5
    <2> QED
        BY <2>1
<1> QED
    BY <1>1, <1>2, <1>3, <1>4, <1>5 DEF Joins

LEMMA Added ==
    ASSUME NEW a \in Seq(Frame), NEW f \in Frame
    PROVE  Adds(Append(a, f), a, f)
BY AppendProperties DEF Adds

(* Nothing is published, sent or shown at first. *)
LEMMA InitInv == Init => IInv
<1> SUFFICES ASSUME Init PROVE IInv
    OBVIOUS
<1>1. \A S : <<>> \in Seq(S) /\ Len(<<>>) = 0
    BY EmptySeq
<1>2. TypeOK
    <2>1. published \in Seq([topic : Topics, by : Threads]) /\ Len(published) <= MaxEvents
        BY <1>1, BoundsAssumption DEF Init
    <2>2. message \in Seq(Frame) /\ pipe \in Seq(Frame) /\ hand \in Seq(Frame) /\ Len(hand) <= 1
        BY <1>1 DEF Init
    <2>3. inbox \in [Sockets -> Seq(Frame)]
        BY <1>1 DEF Init
    <2>4. sending \in [Threads -> Events \cup {None}] /\ subscribers \in [Topics -> SUBSET Users]
        BY DEF Init
    <2> QED
        BY <2>1, <2>2, <2>3, <2>4 DEF Init, TypeOK
<1>3. EventsInv /\ OrderInv
    BY DEF Init, EventsInv, OrderInv
<1>4. Pairs(hand \o pipe)
    <2>1. hand \o pipe = <<>>
        BY <1>1, ConcatEmptySeq DEF Init
    <2> QED
        BY <2>1 DEF Pairs
<1>5. WholeInv
    BY <1>4 DEF Init, WholeInv
<1>6. SocketsInv
    BY DEF Init, SocketsInv
<1> QED
    BY <1>2, <1>3, <1>5, <1>6 DEF IInv

-----------------------------------------------------------------------------
(* A step that leaves events, frames and threads alone, and shows a socket   *)
(* nothing or forgets what it was shown.                                    *)
LEMMA ElsewhereInv ==
    ASSUME IInv, UNCHANGED stream, TypeOK', SocketsInv',
           \A s \in Sockets : inbox'[s] = inbox[s] \/ inbox'[s] = <<>>
    PROVE  IInv'
<1>1. UNCHANGED <<published, sending, message, kept, pipe, hand, torn>>
    BY DEF stream, publisher
<1>2. EventsInv'
    BY <1>1 DEF IInv, EventsInv
<1>3. OrderInv'
    BY <1>1 DEF IInv, OrderInv, Before, SentBefore
<1>4. WholeInv'
    BY <1>1 DEF IInv, WholeInv, Publishing
<1> QED
    BY <1>2, <1>3, <1>4 DEF IInv

(* The filters are of topics. *)
LEMMA FiltersInv ==
    ASSUME IInv, NEW t \in Topics, SetFilter(t) \/ ApplyFilter(t)
    PROVE  IInv'
<1>1. UNCHANGED stream /\ UNCHANGED <<subscribers, touched, known, socket, inbox, rows>>
      /\ filter' \subseteq Topics /\ applied' \subseteq filter'
    BY DEF IInv, TypeOK, SetFilter, ApplyFilter, memory, shown
<1>2. TypeOK'
    BY <1>1 DEF IInv, TypeOK, stream, publisher
<1>3. SocketsInv'
    BY <1>1 DEF IInv, SocketsInv
<1> QED
    BY <1>1, <1>2, <1>3, ElsewhereInv

(* Users subscribe and forget. *)
LEMMA SubscribersInv ==
    ASSUME IInv, NEW u \in Users, NEW t \in Topics,
           Subscribe(u, t) \/ UnsubscribeUserFromTopic(u, t)
    PROVE  IInv'
<1>1. /\ UNCHANGED stream /\ UNCHANGED <<filter, applied, known, socket, inbox, rows>>
      /\ subscribers' \in [Topics -> SUBSET Users] /\ touched' \in BOOLEAN
    BY DEF IInv, TypeOK, Subscribe, UnsubscribeUserFromTopic, filters, shown
<1>2. TypeOK'
    BY <1>1 DEF IInv, TypeOK, stream, publisher
<1>3. SocketsInv'
    BY <1>1 DEF IInv, SocketsInv
<1> QED
    BY <1>1, <1>2, <1>3, ElsewhereInv

(* Sockets open, close, and are forgotten, the last of a user together with  *)
(* his entry.                                                               *)
LEMMA ConnectionsInv ==
    ASSUME IInv, NEW s \in Sockets,
           AddConnection(s) \/ RemoveConnection(s) \/ Unsubscribe(s)
    PROVE  IInv'
<1> USE DEF IInv
<1>1. UNCHANGED stream /\ UNCHANGED <<filter, applied, touched, rows>>
    BY DEF AddConnection, RemoveConnection, Unsubscribe, filters, shown
<1>2. Owner[s] \in Users
    BY OwnerAssumption
<1>3. CASE AddConnection(s)
    <2>1. /\ known' = known \cup {Owner[s]} /\ socket' = [socket EXCEPT ![s] = "open"]
          /\ UNCHANGED <<subscribers, inbox>>
        BY <1>3 DEF AddConnection, shown
    <2>2. TypeOK' /\ SocketsInv'
        BY <1>1, <1>2, <2>1 DEF TypeOK, SocketsInv, stream, publisher
    <2> QED
        BY <1>1, <2>1, <2>2, ElsewhereInv
<1>4. CASE RemoveConnection(s)
    <2>1. /\ socket' = [socket EXCEPT ![s] = "closing"]
          /\ inbox' = [inbox EXCEPT ![s] = <<>>] /\ UNCHANGED <<subscribers, known>>
        BY <1>4 DEF RemoveConnection
    <2>2. inbox' \in [Sockets -> Seq(Frame)] /\ inbox'[s] = <<>>
          /\ \A o \in Sockets : o # s => inbox'[o] = inbox[o]
        BY <2>1, EmptySeq DEF TypeOK
    <2>3. TypeOK'
        BY <1>1, <2>1, <2>2 DEF TypeOK, stream, publisher
    <2>4. SocketsInv'
        BY <2>1, <2>2 DEF TypeOK, SocketsInv
    <2> QED
        BY <1>1, <2>2, <2>3, <2>4, ElsewhereInv
<1>5. CASE Unsubscribe(s)
    <2>1. /\ socket[s] = "closing" /\ socket' = [socket EXCEPT ![s] = "closed"]
          /\ UNCHANGED inbox
        BY <1>5 DEF Unsubscribe, shown
    <2>2. CASE UNCHANGED <<subscribers, known>>
        <3>1. TypeOK' /\ SocketsInv'
            BY <1>1, <2>1, <2>2 DEF TypeOK, SocketsInv, stream, publisher
        <3> QED
            BY <1>1, <2>1, <3>1, ElsewhereInv
    <2>3. CASE /\ SocketsOf(Owner[s]) = {}
               /\ subscribers' = [t \in Topics |-> subscribers[t] \ {Owner[s]}]
               /\ known' = known \ {Owner[s]}
        <3>1. TypeOK'
            BY <1>1, <2>1, <2>3 DEF TypeOK, stream, publisher
        <3>2. SocketsInv'
            BY <2>1, <2>3 DEF TypeOK, SocketsInv, SocketsOf
        <3> QED
            BY <1>1, <2>1, <3>1, <3>2, ElsewhereInv
    <2> QED
        BY <1>5, <2>2, <2>3 DEF Unsubscribe
<1> QED
    BY <1>3, <1>4, <1>5

(* A restart forgets everything but what was published. *)
LEMMA RestartInv ==
    ASSUME IInv, Restart
    PROVE  IInv'
<1>1. \A S : <<>> \in Seq(S) /\ Len(<<>>) = 0
    BY EmptySeq
<1>2. TypeOK'
    <2>1. /\ message' \in Seq(Frame) /\ pipe' \in Seq(Frame) /\ hand' \in Seq(Frame)
          /\ Len(hand') <= 1
        BY <1>1 DEF Restart
    <2>2. inbox' \in [Sockets -> Seq(Frame)]
        BY <1>1 DEF Restart
    <2>3. sending' \in [Threads -> Events \cup {None}]
          /\ subscribers' \in [Topics -> SUBSET Users]
        BY DEF Restart
    <2> QED
        BY <2>1, <2>2, <2>3 DEF IInv, TypeOK, Restart
<1>3. EventsInv' /\ OrderInv'
    BY DEF Restart, EventsInv, OrderInv
<1>4. Pairs(hand' \o pipe')
    <2>1. hand' \o pipe' = <<>>
        BY <1>1, ConcatEmptySeq DEF Restart
    <2> QED
        BY <2>1 DEF Pairs
<1>5. WholeInv'
    BY <1>4 DEF Restart, WholeInv
<1>6. SocketsInv'
    BY DEF Restart, SocketsInv
<1> QED
    BY <1>2, <1>3, <1>5, <1>6 DEF IInv

-----------------------------------------------------------------------------
(* A thread sends the topic of the next event. *)
LEMMA SendTopicInv ==
    ASSUME IInv, NEW th \in Threads, NEW t \in Topics, SendTopic(th, t)
    PROVE  IInv'
<1> USE DEF IInv
<1> DEFINE n == Len(published) + 1  entry == [topic |-> t, by |-> th]
<1>1. /\ sending[th] = None /\ Len(published) < MaxEvents
      /\ published' = Append(published, entry)
      /\ sending' = [sending EXCEPT ![th] = n]
      /\ message' = Append(message, TopicFrame(n))
      /\ torn' = (torn \/ message # <<>>)
      /\ kept' \in BOOLEAN
      /\ UNCHANGED <<pipe, hand, filter, applied, subscribers, touched, known, socket, inbox, rows>>
    BY DEF SendTopic, filters, memory, shown, TypeOK
<1>2. /\ published \in Seq([topic : Topics, by : Threads]) /\ Len(published) \in Nat
      /\ DOMAIN published = 1 .. Len(published)
    BY DEF TypeOK
<1>3. n \in Events /\ n # None
    BY <1>1, <1>2, BoundsAssumption DEF Events, None
<1>4. /\ published' \in Seq([topic : Topics, by : Threads]) /\ Len(published') = n
      /\ DOMAIN published' = DOMAIN published \cup {n} /\ published'[n].by = th
      /\ \A e \in DOMAIN published : published'[e] = published[e] /\ e < n
    <2>1. entry \in [topic : Topics, by : Threads]
        OBVIOUS
    <2>2. published' \in Seq([topic : Topics, by : Threads]) /\ Len(published') = n
          /\ published'[n] = entry /\ DOMAIN published' = 1 .. n
          /\ \A e \in 1 .. Len(published) : published'[e] = published[e]
        BY <1>1, <1>2, <2>1, AppendProperties
    <2> QED
        BY <1>2, <2>2
<1>5. /\ message' \in Seq(Frame) /\ DOMAIN message' = 1 .. (Len(message) + 1)
      /\ message \in Seq(Frame) /\ DOMAIN message = 1 .. Len(message) /\ Len(message) \in Nat
      /\ message'[Len(message) + 1] = TopicFrame(n)
      /\ \A i \in DOMAIN message : message'[i] = message[i]
    <2>1. message \in Seq(Frame) /\ TopicFrame(n) \in Frame
        BY <1>3, Frames DEF TypeOK
    <2> QED
        BY <1>1, <2>1, AppendProperties
<1>6. TypeOK'
    <2>1. Len(published') <= MaxEvents
        BY <1>1, <1>2, <1>4, BoundsAssumption
    <2>2. sending' \in [Threads -> Events \cup {None}]
        BY <1>1, <1>3 DEF TypeOK
    <2> QED
        BY <1>1, <1>4, <1>5, <2>1, <2>2 DEF TypeOK
<1>7. \A o \in Threads : sending'[o] = (IF o = th THEN n ELSE sending[o])
    BY <1>1 DEF TypeOK
<1>8. EventsInv'
    <2>1. \A i \in DOMAIN pipe' : pipe'[i].event \in DOMAIN published'
        BY <1>1, <1>4 DEF EventsInv
    <2>2. \A i \in DOMAIN hand' : hand'[i].event \in DOMAIN published'
        BY <1>1, <1>4 DEF EventsInv
    <2>3. \A i \in DOMAIN message' :
              ~ IsData(message'[i]) /\ message'[i].event \in DOMAIN published'
        <3> TAKE i \in DOMAIN message'
        <3>1. CASE i = Len(message) + 1
            BY <1>3, <1>4, <1>5, <3>1, Frames
        <3>2. CASE i \in DOMAIN message
            BY <1>4, <1>5, <3>2 DEF EventsInv
        <3> QED
            BY <1>5, <3>1, <3>2
    <2>4. \A s \in Sockets : \A i \in DOMAIN inbox'[s] : inbox'[s][i].event \in DOMAIN published'
        BY <1>1, <1>4 DEF EventsInv
    <2>5. \A o \in Threads : sending'[o] # None =>
              sending'[o] \in DOMAIN published' /\ published'[sending'[o]].by = o
        BY <1>4, <1>7 DEF EventsInv
    <2> QED
        BY <2>1, <2>2, <2>3, <2>4, <2>5 DEF EventsInv
<1>9. OrderInv'
    <2>1. \A i \in DOMAIN pipe : pipe[i] \in Frame /\ pipe[i].event \in DOMAIN published
        BY DEF TypeOK, EventsInv
    <2>2. \A s \in Sockets : \A i \in DOMAIN inbox[s] :
              inbox[s][i] \in Frame /\ inbox[s][i].event \in DOMAIN published
        <3> TAKE s \in Sockets
        <3>1. inbox[s] \in Seq(Frame)
            BY DEF TypeOK
        <3> QED
            BY <3>1 DEF EventsInv
    <2>3. /\ \A i, j \in DOMAIN pipe' : i < j => Before(pipe[i], pipe[j])'
          /\ \A i \in DOMAIN pipe', o \in Threads : SentBefore(pipe[i], o)'
        BY <1>1, <1>4, <1>7, <2>1 DEF OrderInv, Before, SentBefore
    <2>4. \A s \in Sockets : \A i \in DOMAIN inbox'[s] :
             /\ \A j \in DOMAIN inbox'[s] : i < j => Before(inbox[s][i], inbox[s][j])'
             /\ \A j \in DOMAIN pipe' : Before(inbox[s][i], pipe[j])'
             /\ \A o \in Threads : SentBefore(inbox[s][i], o)'
        <3> TAKE s \in Sockets
        <3> TAKE i \in DOMAIN inbox'[s]
        <3>1. i \in DOMAIN inbox[s] /\ inbox'[s] = inbox[s] /\ pipe' = pipe
              /\ inbox[s][i].event \in DOMAIN published
            BY <1>1, <2>2
        <3>2. ASSUME NEW j \in DOMAIN inbox[s], i < j
              PROVE  Before(inbox[s][i], inbox[s][j])'
            <4>1. Before(inbox[s][i], inbox[s][j]) /\ inbox[s][j].event \in DOMAIN published
                BY <2>2, <3>1, <3>2 DEF OrderInv
            <4> QED
                BY <1>4, <3>1, <4>1 DEF Before
        <3>3. ASSUME NEW j \in DOMAIN pipe
              PROVE  Before(inbox[s][i], pipe[j])'
            <4>1. Before(inbox[s][i], pipe[j]) /\ pipe[j].event \in DOMAIN published
                BY <2>1, <3>1 DEF OrderInv
            <4> QED
                BY <1>4, <3>1, <4>1 DEF Before
        <3>4. ASSUME NEW o \in Threads
              PROVE  SentBefore(inbox[s][i], o)'
            <4>1. SentBefore(inbox[s][i], o)
                BY <3>1 DEF OrderInv
            <4> QED
                BY <1>4, <1>7, <3>1, <4>1 DEF SentBefore
        <3> QED
            BY <3>1, <3>2, <3>3, <3>4
    <2> QED
        BY <2>3, <2>4 DEF OrderInv
<1>10. WholeInv'
    <2>1. sending'[th] # None
        BY <1>3, <1>7
    <2>2. ASSUME ~ torn'
          PROVE  /\ Pairs(hand' \o pipe') /\ message' # <<>>
                 /\ message' = <<TopicFrame(n)>>
                 /\ \A o \in Threads \ {th} : sending'[o] = None
        <3>1. ~ torn /\ message = <<>>
            BY <1>1, <2>2
        <3>2. \A o \in Threads : sending[o] = None
            BY <3>1 DEF WholeInv
        <3>3. message' = <<TopicFrame(n)>>
            BY <1>1, <3>1
        <3> QED
            BY <1>1, <1>7, <3>1, <3>2, <3>3 DEF WholeInv
    <2> QED
        BY <1>3, <1>7, <2>1, <2>2 DEF WholeInv, Publishing
<1>11. SocketsInv'
    BY <1>1 DEF SocketsInv
<1> QED
    BY <1>6, <1>8, <1>9, <1>10, <1>11

(* What the payload adds to the pipe: topics, and the payload as the last. *)
LEMMA PayloadAdded ==
    ASSUME IInv, NEW th \in Threads, SendData(th)
    PROVE  /\ pipe' \in Seq(Frame) /\ Len(pipe) <= Len(pipe')
           /\ \A i \in 1 .. Len(pipe) : pipe'[i] = pipe[i]
           /\ \A i \in 1 .. Len(pipe') : pipe'[i].event \in DOMAIN published
           /\ \A i \in 1 .. Len(pipe') : i > Len(pipe) =>
                 ~ IsData(pipe'[i]) \/ (pipe'[i] = DataFrame(sending[th]) /\ i = Len(pipe'))
<1> USE DEF IInv
<1> DEFINE n == sending[th]  whole == Append(message, DataFrame(n))
<1>1. n \in Events /\ n \in DOMAIN published
    BY DEF SendData, TypeOK, EventsInv
<1>2. pipe \in Seq(Frame) /\ message \in Seq(Frame) /\ DataFrame(n) \in Frame
      /\ DataFrame(n).event = n
    BY <1>1, Frames DEF TypeOK
<1>3. \A i \in 1 .. Len(pipe) : pipe[i].event \in DOMAIN published
    BY <1>2 DEF EventsInv
<1>4. CASE pipe' = pipe
    <2>1. Len(pipe) \in Nat
        BY <1>2
    <2> QED
        BY <1>2, <1>3, <1>4, <2>1
<1>5. CASE pipe' = pipe \o whole
    <2>1. Adds(whole, message, DataFrame(n))
        BY <1>2, Added
    <2> HIDE DEF whole
    <2>2. Joins(pipe', pipe, whole)
        <3>1. whole \in Seq(Frame)
            BY <2>1 DEF Adds
        <3>2. Joins(pipe \o whole, pipe, whole)
            BY <1>2, <3>1, Joined
        <3> QED
            BY <1>5, <3>2
    <2>3. \A i \in 1 .. Len(message) :
              ~ IsData(message[i]) /\ message[i].event \in DOMAIN published
        BY <1>2 DEF EventsInv
    <2>4. ASSUME NEW i \in 1 .. Len(pipe')
          PROVE  /\ pipe'[i].event \in DOMAIN published
                 /\ i > Len(pipe) =>
                        ~ IsData(pipe'[i]) \/ (pipe'[i] = DataFrame(n) /\ i = Len(pipe'))
        <3>1. CASE i \in 1 .. Len(pipe)
            <4>1. ~ (i > Len(pipe)) /\ pipe'[i] = pipe[i]
                BY <2>2, <3>1 DEF Joins
            <4> QED
                BY <1>3, <3>1, <4>1
        <3>2. ASSUME NEW k \in 1 .. Len(whole), i = Len(pipe) + k
              PROVE  /\ pipe'[i].event \in DOMAIN published
                     /\ ~ IsData(pipe'[i]) \/ (pipe'[i] = DataFrame(n) /\ i = Len(pipe'))
            <4>1. pipe'[i] = whole[k]
                BY <2>2, <3>2 DEF Joins
            <4>2. CASE k \in 1 .. Len(message)
                BY <2>1, <2>3, <4>1, <4>2 DEF Adds
            <4>3. CASE k = Len(message) + 1
                <5>1. i = Len(pipe')
                    BY <2>1, <2>2, <3>2, <4>3 DEF Adds, Joins
                <5> QED
                    BY <1>1, <1>2, <2>1, <4>1, <4>3, <5>1 DEF Adds
            <4> QED
                BY <2>1, <4>2, <4>3 DEF Adds
        <3>3. i \in 1 .. Len(pipe) \/ \E k \in 1 .. Len(whole) : i = Len(pipe) + k
            BY <2>2 DEF Joins
        <3> QED
            BY <3>1, <3>2, <3>3
    <2>5. /\ pipe' \in Seq(Frame) /\ Len(pipe) <= Len(pipe')
          /\ \A i \in 1 .. Len(pipe) : pipe'[i] = pipe[i]
        BY <2>2 DEF Joins
    <2> QED
        BY <2>4, <2>5
<1> QED
    BY <1>4, <1>5 DEF SendData

(* The thread sends the payload: the message is handed over, or dropped. *)
LEMMA SendDataInv ==
    ASSUME IInv, NEW th \in Threads, SendData(th)
    PROVE  IInv'
<1> USE DEF IInv
<1> DEFINE n == sending[th]
<1>1. /\ n # None /\ sending' = [sending EXCEPT ![th] = None]
      /\ message' = <<>> /\ kept' = FALSE
      /\ UNCHANGED <<published, hand, torn, filter, applied, subscribers, touched, known,
                     socket, inbox, rows>>
    BY DEF SendData, filters, memory, shown
<1>2. n \in Events /\ n \in DOMAIN published /\ published[n].by = th
    BY <1>1 DEF TypeOK, EventsInv
<1>3. /\ pipe' \in Seq(Frame) /\ Len(pipe) <= Len(pipe')
      /\ \A i \in 1 .. Len(pipe) : pipe'[i] = pipe[i]
      /\ \A i \in 1 .. Len(pipe') : pipe'[i].event \in DOMAIN published
      /\ \A i \in 1 .. Len(pipe') : i > Len(pipe) =>
            ~ IsData(pipe'[i]) \/ (pipe'[i] = DataFrame(n) /\ i = Len(pipe'))
    BY PayloadAdded
<1>4. /\ DOMAIN pipe = 1 .. Len(pipe) /\ DOMAIN pipe' = 1 .. Len(pipe')
      /\ Len(pipe) \in Nat /\ Len(pipe') \in Nat /\ pipe \in Seq(Frame)
    BY <1>3 DEF TypeOK
<1>5. DataFrame(n).event = n /\ n \in Nat
    BY <1>2, Frames
<1>6. \A o \in Threads : sending'[o] = (IF o = th THEN None ELSE sending[o])
    BY <1>1 DEF TypeOK
<1>7. TypeOK'
    <2>1. message' \in Seq(Frame) /\ sending' \in [Threads -> Events \cup {None}]
        BY <1>1, EmptySeq DEF TypeOK
    <2> QED
        BY <1>1, <1>3, <2>1 DEF TypeOK
<1>8. EventsInv'
    <2>1. \A i \in DOMAIN message' : FALSE
        BY <1>1
    <2>2. \A o \in Threads : sending'[o] # None =>
              sending'[o] \in DOMAIN published' /\ published'[sending'[o]].by = o
        BY <1>1, <1>6 DEF EventsInv
    <2> QED
        BY <1>1, <1>3, <1>4, <2>1, <2>2 DEF EventsInv
<1>9. OrderInv'
    <2>1. \A i \in DOMAIN pipe' : i \in DOMAIN pipe
              \/ ~ IsData(pipe'[i]) \/ (i = Len(pipe') /\ pipe'[i] = DataFrame(n))
        <3> TAKE i \in DOMAIN pipe'
        <3>1. i \in 1 .. Len(pipe') /\ (i \in DOMAIN pipe \/ i > Len(pipe))
            BY <1>4
        <3> QED
            BY <1>3, <3>1
    <2>2. ASSUME NEW i \in DOMAIN pipe', NEW j \in DOMAIN pipe', i < j
          PROVE  Before(pipe[i], pipe[j])'
        <3>1. CASE i \in DOMAIN pipe /\ j \in DOMAIN pipe
            BY <1>1, <1>3, <1>4, <2>2, <3>1 DEF OrderInv, Before
        <3>2. CASE i \in DOMAIN pipe /\ j = Len(pipe') /\ pipe'[j] = DataFrame(n)
            <4>1. SentBefore(pipe[i], th) /\ pipe'[i] = pipe[i]
                BY <1>3, <1>4, <3>2 DEF OrderInv
            <4> QED
                BY <1>1, <1>2, <1>5, <3>2, <4>1 DEF SentBefore, Before
        <3>3. CASE ~ IsData(pipe'[i]) \/ ~ IsData(pipe'[j])
            BY <3>3 DEF Before
        <3> QED
            BY <1>4, <2>1, <2>2, <3>1, <3>2, <3>3
    <2>3. ASSUME NEW i \in DOMAIN pipe', NEW o \in Threads
          PROVE  SentBefore(pipe[i], o)'
        <3>1. CASE i \in DOMAIN pipe
            <4>1. SentBefore(pipe[i], o) /\ pipe'[i] = pipe[i]
                BY <1>3, <1>4, <3>1 DEF OrderInv
            <4> QED
                BY <1>1, <1>6, <4>1 DEF SentBefore
        <3>2. CASE ~ IsData(pipe'[i])
            BY <3>2 DEF SentBefore
        <3>3. CASE pipe'[i] = DataFrame(n)
            BY <1>1, <1>2, <1>5, <1>6, <3>3 DEF SentBefore
        <3> QED
            BY <2>1, <3>1, <3>2, <3>3
    <2>4. ASSUME NEW s \in Sockets, NEW i \in DOMAIN inbox'[s]
          PROVE  /\ \A j \in DOMAIN inbox'[s] : i < j => Before(inbox[s][i], inbox[s][j])'
                 /\ \A j \in DOMAIN pipe' : Before(inbox[s][i], pipe[j])'
                 /\ \A o \in Threads : SentBefore(inbox[s][i], o)'
        <3>1. i \in DOMAIN inbox[s] /\ inbox'[s] = inbox[s]
            BY <1>1, <2>4
        <3>2. \A j \in DOMAIN inbox'[s] : i < j => Before(inbox[s][i], inbox[s][j])'
            BY <1>1, <3>1 DEF OrderInv, Before
        <3>3. \A o \in Threads : SentBefore(inbox[s][i], o)'
            <4>1. \A o \in Threads : SentBefore(inbox[s][i], o)
                BY <3>1 DEF OrderInv
            <4> QED
                BY <1>1, <1>6, <3>1, <4>1 DEF SentBefore
        <3>4. ASSUME NEW j \in DOMAIN pipe'
              PROVE  Before(inbox[s][i], pipe[j])'
            <4>1. CASE j \in DOMAIN pipe
                BY <1>1, <1>3, <1>4, <3>1, <4>1 DEF OrderInv, Before
            <4>2. CASE ~ IsData(pipe'[j])
                BY <4>2 DEF Before
            <4>3. CASE pipe'[j] = DataFrame(n)
                <5>1. SentBefore(inbox[s][i], th)
                    BY <3>1 DEF OrderInv
                <5> QED
                    BY <1>1, <1>2, <1>5, <3>1, <4>3, <5>1 DEF SentBefore, Before
            <4> QED
                BY <2>1, <4>1, <4>2, <4>3
        <3> QED
            BY <3>2, <3>3, <3>4
    <2> QED
        BY <2>2, <2>3, <2>4 DEF OrderInv
<1>10. WholeInv'
    <2> SUFFICES ASSUME ~ torn
                 PROVE  Pairs(hand' \o pipe') /\ \A o \in Threads : sending'[o] = None
        BY <1>1 DEF WholeInv
    <2>1. message = <<TopicFrame(n)>> /\ \A o \in Threads : sending'[o] = None
        BY <1>1, <1>6 DEF WholeInv, Publishing
    <2>2. Pairs(hand \o pipe) /\ hand \in Seq(Frame)
        BY DEF WholeInv, TypeOK
    <2>3. CASE pipe' = pipe
        BY <1>1, <2>1, <2>2, <2>3
    <2>4. CASE pipe' = pipe \o Append(message, DataFrame(n))
        <3> DEFINE one == <<TopicFrame(n)>>  two == Append(one, DataFrame(n))
                   q == hand \o pipe  r == hand \o pipe'
        <3>1. /\ TopicFrame(n) \in Frame /\ DataFrame(n) \in Frame
              /\ ~ IsData(TopicFrame(n)) /\ IsData(DataFrame(n))
              /\ TopicFrame(n).event = DataFrame(n).event
            BY <1>2, Frames
        <3>2. one \in Seq(Frame) /\ Len(one) = 1 /\ one[1] = TopicFrame(n)
            BY <3>1
        <3>3. pipe' = pipe \o two
            BY <2>1, <2>4
        <3> HIDE DEF one
        <3>4. Adds(two, one, DataFrame(n))
            BY <3>1, <3>2, Added
        <3> HIDE DEF two
        <3>5. two \in Seq(Frame) /\ Len(two) = 2 /\ two[1] = TopicFrame(n) /\ two[2] = DataFrame(n)
            BY <3>2, <3>4 DEF Adds
        <3>6. Joins(pipe', pipe, two)
            <4>1. Joins(pipe \o two, pipe, two)
                BY <1>4, <3>5, Joined
            <4> QED
                BY <3>3, <4>1
        <3>7. Joins(q, hand, pipe) /\ Joins(r, hand, pipe')
            BY <1>3, <1>4, <2>2, Joined
        <3>8. Pairs(q)
            BY <2>2
        <3> HIDE DEF q, r
        <3>9. ASSUME NEW i \in 1 .. Len(q) PROVE r[i] = q[i]
            <4>1. CASE i \in 1 .. Len(hand)
                BY <3>7, <4>1 DEF Joins
            <4>2. ASSUME NEW k \in 1 .. Len(pipe), i = Len(hand) + k
                  PROVE  r[i] = q[i]
                <5>1. k \in 1 .. Len(pipe')
                    <6>1. Len(pipe) \in Nat /\ Len(pipe') = Len(pipe) + 2
                        BY <3>5, <3>6 DEF Joins
                    <6> QED
                        BY <6>1
                <5>2. pipe'[k] = pipe[k]
                    BY <1>3
                <5> QED
                    BY <3>7, <4>2, <5>1, <5>2 DEF Joins
            <4> QED
                BY <3>7, <4>1, <4>2 DEF Joins
        <3>10. Len(r) = Len(q) + 2 /\ Len(q) + 1 = Len(hand) + (Len(pipe) + 1)
               /\ Len(q) + 2 = Len(hand) + (Len(pipe) + 2)
               /\ Len(pipe) + 1 \in 1 .. Len(pipe') /\ Len(pipe) + 2 \in 1 .. Len(pipe')
            BY <3>5, <3>6, <3>7 DEF Joins
        <3>11. pipe'[Len(pipe) + 1] = TopicFrame(n) /\ pipe'[Len(pipe) + 2] = DataFrame(n)
            <4>1. 1 \in 1 .. Len(two) /\ 2 \in 1 .. Len(two)
                BY <3>5
            <4> QED
                BY <3>5, <3>6, <4>1 DEF Joins
        <3>12. r[Len(q) + 1] = TopicFrame(n) /\ r[Len(q) + 2] = DataFrame(n)
            BY <3>7, <3>10, <3>11 DEF Joins
        <3>13. q \in Seq(Frame) /\ r \in Seq(Frame)
            BY <3>7 DEF Joins
        <3>14. Pairs(r)
            BY <3>1, <3>8, <3>9, <3>10, <3>12, <3>13, PairAdded
        <3> QED
            BY <1>1, <2>1, <3>14 DEF r
    <2>5. pipe' = pipe \/ pipe' = pipe \o Append(message, DataFrame(n))
        BY DEF SendData
    <2> QED
        BY <2>3, <2>4, <2>5
<1>11. SocketsInv'
    BY <1>1 DEF SocketsInv
<1> QED
    BY <1>7, <1>8, <1>9, <1>10, <1>11

-----------------------------------------------------------------------------
(* The first frame is read. *)
Drops(c, a) ==
    /\ c \in Seq(Frame) /\ Len(c) \in Nat /\ Len(a) = Len(c) + 1
    /\ Head(a) = a[1] /\ a[1] \in Frame
    /\ \A i \in 1 .. Len(c) : i + 1 \in 1 .. Len(a) /\ c[i] = a[i + 1]
LEMMA Dropped ==
    ASSUME NEW a \in Seq(Frame), a # <<>>
    PROVE  Drops(Tail(a), a)
<1>1. /\ Len(a) \in Nat \ {0} /\ Head(a) = a[1] /\ Head(a) \in Frame
      /\ Tail(a) \in Seq(Frame) /\ Len(Tail(a)) = Len(a) - 1
      /\ \A i \in 1 .. Len(Tail(a)) : Tail(a)[i] = a[i + 1]
    BY HeadTailProperties, EmptySeq
<1>2. \A i \in 1 .. Len(a) - 1 : i + 1 \in 1 .. Len(a)
    BY <1>1
<1> QED
    BY <1>1, <1>2 DEF Drops

(* What is left in the pipe is as good as what was in it. *)
LEMMA PipeInv ==
    ASSUME IInv, pipe # <<>>, pipe' = Tail(pipe), UNCHANGED <<published, sending>>
    PROVE  /\ Drops(pipe', pipe)
           /\ \A i \in DOMAIN pipe' : pipe'[i].event \in DOMAIN published'
           /\ \A i, j \in DOMAIN pipe' : i < j => Before(pipe[i], pipe[j])'
           /\ \A i \in DOMAIN pipe', th \in Threads : SentBefore(pipe[i], th)'
           /\ \A s \in Sockets : \A i \in DOMAIN inbox[s], j \in DOMAIN pipe' :
                 Before(inbox[s][i], pipe'[j])
           /\ \A j \in DOMAIN pipe' : Before(pipe[1], pipe'[j])
<1> USE DEF IInv
<1>1. pipe \in Seq(Frame)
    BY DEF TypeOK
<1>2. Drops(pipe', pipe)
    BY <1>1, Dropped
<1>3. DOMAIN pipe' = 1 .. Len(pipe') /\ DOMAIN pipe = 1 .. Len(pipe) /\ 1 \in DOMAIN pipe
    BY <1>1, <1>2 DEF Drops
<1>4. \A i \in DOMAIN pipe' : i \in Nat /\ i + 1 \in DOMAIN pipe /\ pipe'[i] = pipe[i + 1] /\ 1 < i + 1
    BY <1>2, <1>3 DEF Drops
<1>5. \A i \in DOMAIN pipe' : pipe'[i].event \in DOMAIN published'
    BY <1>4 DEF EventsInv
<1>6. ASSUME NEW i \in DOMAIN pipe', NEW j \in DOMAIN pipe', i < j
      PROVE  Before(pipe[i], pipe[j])'
    <2>1. i + 1 < j + 1
        BY <1>4, <1>6
    <2>2. Before(pipe[i + 1], pipe[j + 1])
        BY <1>4, <2>1 DEF OrderInv
    <2> QED
        BY <1>4, <2>2 DEF Before
<1>7. ASSUME NEW i \in DOMAIN pipe', NEW th \in Threads
      PROVE  SentBefore(pipe[i], th)'
    <2>1. SentBefore(pipe[i + 1], th)
        BY <1>4 DEF OrderInv
    <2> QED
        BY <1>4, <2>1 DEF SentBefore
<1>8. ASSUME NEW s \in Sockets, NEW i \in DOMAIN inbox[s], NEW j \in DOMAIN pipe'
      PROVE  Before(inbox[s][i], pipe'[j])
    BY <1>4 DEF OrderInv
<1>9. ASSUME NEW j \in DOMAIN pipe'
      PROVE  Before(pipe[1], pipe'[j])
    BY <1>3, <1>4 DEF OrderInv
<1> QED
    BY <1>2, <1>5, <1>6, <1>7, <1>8, <1>9

(* The thread reads a topic. *)
LEMMA ReceiveTopicInv ==
    ASSUME IInv, ReceiveTopic
    PROVE  IInv'
<1> USE DEF IInv
<1>1. /\ hand = <<>> /\ pipe # <<>> /\ hand' = <<Head(pipe)>> /\ pipe' = Tail(pipe)
      /\ UNCHANGED <<published, sending, message, kept, torn, filter, applied, subscribers,
                     touched, known, socket, inbox, rows>>
    BY DEF ReceiveTopic, publisher, filters, memory, shown
<1>2. /\ Drops(pipe', pipe)
      /\ \A i \in DOMAIN pipe' : pipe'[i].event \in DOMAIN published'
      /\ \A i, j \in DOMAIN pipe' : i < j => Before(pipe[i], pipe[j])'
      /\ \A i \in DOMAIN pipe', th \in Threads : SentBefore(pipe[i], th)'
      /\ \A s \in Sockets : \A i \in DOMAIN inbox[s], j \in DOMAIN pipe' :
            Before(inbox[s][i], pipe'[j])
    BY <1>1, PipeInv
<1>3. /\ hand \in Seq(Frame) /\ Len(hand) = 0
      /\ hand' \in Seq(Frame) /\ Len(hand') = 1 /\ hand'[1] = pipe[1]
      /\ pipe \in Seq(Frame) /\ pipe' \in Seq(Frame)
    BY <1>1, <1>2 DEF Drops, TypeOK
<1>4. TypeOK'
    BY <1>1, <1>3 DEF TypeOK
<1>5. EventsInv'
    <2>1. \A i \in DOMAIN hand' : hand'[i].event \in DOMAIN published'
        <3>1. DOMAIN hand' = {1} /\ 1 \in DOMAIN pipe
            BY <1>2, <1>3 DEF Drops
        <3> QED
            BY <1>1, <1>3, <3>1 DEF EventsInv
    <2> QED
        BY <1>1, <1>2, <2>1 DEF EventsInv
<1>6. OrderInv'
    <2>1. ASSUME NEW s \in Sockets, NEW i \in DOMAIN inbox'[s]
          PROVE  /\ \A j \in DOMAIN inbox'[s] : i < j => Before(inbox[s][i], inbox[s][j])'
                 /\ \A j \in DOMAIN pipe' : Before(inbox[s][i], pipe[j])'
                 /\ \A th \in Threads : SentBefore(inbox[s][i], th)'
        BY <1>1, <1>2, <2>1 DEF OrderInv, Before, SentBefore
    <2> QED
        BY <1>2, <2>1 DEF OrderInv
<1>7. hand' \o pipe' = hand \o pipe
    <2> DEFINE q == hand \o pipe  r == hand' \o pipe'
    <2>1. Joins(q, hand, pipe) /\ Joins(r, hand', pipe')
        BY <1>3, Joined
    <2> HIDE DEF q, r
    <2>2. q \in Seq(Frame) /\ r \in Seq(Frame) /\ Len(q) = Len(r)
        BY <1>2, <1>3, <2>1 DEF Joins, Drops
    <2>3. ASSUME NEW i \in 1 .. Len(r) PROVE r[i] = q[i]
        <3>1. q[i] = pipe[i]
            <4>1. i \in 1 .. Len(pipe) /\ Len(hand) + i = i
                BY <1>3, <2>1, <2>2 DEF Joins
            <4> QED
                BY <2>1, <4>1 DEF Joins
        <3>2. CASE i = 1
            BY <1>3, <2>1, <3>1, <3>2 DEF Joins
        <3>3. ASSUME NEW k \in 1 .. Len(pipe'), i = 1 + k
              PROVE  r[i] = q[i]
            <4>1. r[i] = pipe'[k]
                BY <1>3, <2>1, <3>3 DEF Joins
            <4>2. pipe'[k] = pipe[k + 1] /\ k + 1 = i
                BY <1>2, <3>3 DEF Drops
            <4> QED
                BY <3>1, <4>1, <4>2
        <3>4. i = 1 \/ \E k \in 1 .. Len(pipe') : i = 1 + k
            BY <1>3, <2>1 DEF Joins
        <3> QED
            BY <3>2, <3>3, <3>4
    <2>4. q = r
        BY <2>2, <2>3, SeqEqual
    <2> QED
        BY <2>4 DEF q, r
<1>8. WholeInv'
    BY <1>1, <1>7 DEF WholeInv, Publishing
<1>9. SocketsInv'
    BY <1>1 DEF SocketsInv
<1> QED
    BY <1>4, <1>5, <1>6, <1>8, <1>9

(* What a broadcast does: an open socket is shown the payload, or nothing. *)
Shows(s, f) ==
    inbox'[s] = inbox[s] \/ (socket[s] = "open" /\ inbox'[s] = Append(inbox[s], f))
LEMMA BroadcastShows ==
    ASSUME TypeOK, NEW topic \in Frame, topic.event \in DOMAIN published,
           NEW payload \in Frame, Broadcast(topic, payload)
    PROVE  /\ inbox' \in [Sockets -> Seq(Frame)] /\ rows' \subseteq Users \X Events
           /\ \A s \in Sockets : Shows(s, payload)
<1> DEFINE readers == IF IsData(topic) THEN {}
                      ELSE subscribers[published[topic.event].topic] \cap known
<1>1. /\ inbox' = [s \in Sockets |->
                      IF Owner[s] \in readers /\ socket[s] = "open"
                      THEN Append(inbox[s], payload) ELSE inbox[s]]
      /\ rows' = IF IsData(payload) THEN readers \X {payload.event} ELSE {}
    BY DEF Broadcast
<1>2. readers \subseteq Users /\ payload.event \in Events
    BY DEF TypeOK, Frame
<1> HIDE DEF readers
<1>3. \A s \in Sockets : Append(inbox[s], payload) \in Seq(Frame) /\ inbox[s] \in Seq(Frame)
    <2> TAKE s \in Sockets
    <2>1. inbox[s] \in Seq(Frame)
        BY DEF TypeOK
    <2> QED
        BY <2>1, AppendProperties
<1>4. inbox' \in [Sockets -> Seq(Frame)]
    BY <1>1, <1>3
<1>5. rows' \subseteq Users \X Events
    BY <1>1, <1>2
<1>6. \A s \in Sockets : Shows(s, payload)
    BY <1>1 DEF Shows
<1> QED
    BY <1>4, <1>5, <1>6

(* The thread holds one frame, if any. *)
LEMMA OneInHand ==
    ASSUME TypeOK, hand # <<>>
    PROVE  hand \in Seq(Frame) /\ Len(hand) = 1 /\ hand[1] \in Frame /\ 1 \in DOMAIN hand
<1>1. hand \in Seq(Frame) /\ Len(hand) <= 1
    BY DEF TypeOK
<1>2. Len(hand) \in Nat
    BY <1>1
<1>3. Len(hand) # 0
    BY <1>1, EmptySeq
<1>4. Len(hand) = 1
    <2>1. \A n \in Nat : n <= 1 /\ n # 0 => n = 1
        OBVIOUS
    <2> QED
        BY <1>1, <1>2, <1>3, <2>1
<1>5. DOMAIN hand = 1 .. 1
    BY <1>1, <1>4
<1>6. 1 \in DOMAIN hand
    BY <1>5
<1> QED
    BY <1>1, <1>4, <1>6

(* The thread reads a payload and broadcasts it. *)
LEMMA ReceiveDataInv ==
    ASSUME IInv, ReceiveData
    PROVE  IInv'
<1> USE DEF IInv
<1> DEFINE f == Head(pipe)
<1>1. /\ hand # <<>> /\ pipe # <<>> /\ hand' = <<>> /\ pipe' = Tail(pipe)
      /\ Broadcast(hand[1], f) /\ touched' = TRUE
      /\ UNCHANGED <<published, sending, message, kept, torn, filter, applied, subscribers,
                     known, socket>>
    BY DEF ReceiveData, publisher, filters
<1>2. /\ Drops(pipe', pipe)
      /\ \A i \in DOMAIN pipe' : pipe'[i].event \in DOMAIN published'
      /\ \A i, j \in DOMAIN pipe' : i < j => Before(pipe[i], pipe[j])'
      /\ \A i \in DOMAIN pipe', th \in Threads : SentBefore(pipe[i], th)'
      /\ \A s \in Sockets : \A i \in DOMAIN inbox[s], j \in DOMAIN pipe' :
            Before(inbox[s][i], pipe'[j])
      /\ \A j \in DOMAIN pipe' : Before(pipe[1], pipe'[j])
    BY <1>1, PipeInv
<1>3. /\ hand \in Seq(Frame) /\ Len(hand) = 1 /\ hand[1] \in Frame /\ 1 \in DOMAIN hand
      /\ pipe \in Seq(Frame) /\ pipe' \in Seq(Frame)
    <2>1. hand \in Seq(Frame) /\ Len(hand) = 1 /\ hand[1] \in Frame /\ 1 \in DOMAIN hand
        BY <1>1, OneInHand
    <2>2. pipe \in Seq(Frame) /\ pipe' \in Seq(Frame)
        BY <1>2 DEF Drops, TypeOK
    <2> QED
        BY <2>1, <2>2
<1>4. f = pipe[1] /\ f \in Frame /\ 1 \in DOMAIN pipe
    BY <1>2, <1>3 DEF Drops
<1>5. /\ inbox' \in [Sockets -> Seq(Frame)] /\ rows' \subseteq Users \X Events
      /\ \A s \in Sockets : Shows(s, f)
    <2>1. hand[1].event \in DOMAIN published
        BY <1>3 DEF EventsInv
    <2> QED
        BY <1>1, <1>3, <1>4, <2>1, BroadcastShows
<1>6. TypeOK'
    <2>1. hand' \in Seq(Frame) /\ Len(hand') <= 1
        BY <1>1, EmptySeq
    <2> QED
        BY <1>1, <1>3, <1>5, <2>1 DEF TypeOK
<1>7. ASSUME NEW s \in Sockets, NEW i \in DOMAIN inbox'[s]
      PROVE  \/ i \in DOMAIN inbox[s] /\ inbox'[s][i] = inbox[s][i]
             \/ /\ inbox'[s][i] = f
                /\ \A j \in DOMAIN inbox'[s] : ~ (i < j)
    <2>1. inbox[s] \in Seq(Frame)
        BY DEF TypeOK
    <2>2. CASE inbox'[s] = inbox[s]
        BY <1>7, <2>2
    <2>3. CASE inbox'[s] = Append(inbox[s], f)
        <3>1. Adds(inbox'[s], inbox[s], f)
            <4>1. Adds(Append(inbox[s], f), inbox[s], f)
                BY <1>4, <2>1, Added
            <4> QED
                BY <2>3, <4>1
        <3>2. DOMAIN inbox'[s] = 1 .. Len(inbox[s]) + 1 /\ DOMAIN inbox[s] = 1 .. Len(inbox[s])
            BY <2>1, <3>1 DEF Adds
        <3>3. i \in DOMAIN inbox[s] \/ i = Len(inbox[s]) + 1
            BY <3>1, <3>2 DEF Adds
        <3> QED
            BY <3>1, <3>2, <3>3 DEF Adds
    <2> QED
        BY <1>5, <2>2, <2>3 DEF Shows
<1>8. EventsInv'
    <2>1. ASSUME NEW s \in Sockets, NEW i \in DOMAIN inbox'[s]
          PROVE  inbox'[s][i].event \in DOMAIN published'
        BY <1>1, <1>4, <1>7 DEF EventsInv
    <2>2. \A i \in DOMAIN hand' : FALSE
        BY <1>1
    <2> QED
        BY <1>1, <1>2, <2>1, <2>2 DEF EventsInv
<1>9. OrderInv'
    <2>1. ASSUME NEW s \in Sockets, NEW i \in DOMAIN inbox'[s], NEW j \in DOMAIN inbox'[s],
                 i < j
          PROVE  Before(inbox[s][i], inbox[s][j])'
        <3>1. i \in DOMAIN inbox[s] /\ inbox'[s][i] = inbox[s][i]
            BY <1>7, <2>1
        <3>2. CASE j \in DOMAIN inbox[s] /\ inbox'[s][j] = inbox[s][j]
            <4>1. Before(inbox[s][i], inbox[s][j])
                BY <2>1, <3>1, <3>2 DEF OrderInv
            <4> QED
                BY <1>1, <3>1, <3>2, <4>1 DEF Before
        <3>3. CASE inbox'[s][j] = f
            <4>1. Before(inbox[s][i], pipe[1])
                BY <1>4, <3>1 DEF OrderInv
            <4> QED
                BY <1>1, <1>4, <3>1, <3>3, <4>1 DEF Before
        <3> QED
            BY <1>7, <3>2, <3>3
    <2>2. ASSUME NEW s \in Sockets, NEW i \in DOMAIN inbox'[s], NEW j \in DOMAIN pipe'
          PROVE  Before(inbox[s][i], pipe[j])'
        <3>1. CASE i \in DOMAIN inbox[s] /\ inbox'[s][i] = inbox[s][i]
            <4>1. Before(inbox[s][i], pipe'[j])
                BY <1>2, <3>1
            <4> QED
                BY <1>1, <3>1, <4>1 DEF Before
        <3>2. CASE inbox'[s][i] = f
            <4>1. Before(pipe[1], pipe'[j])
                BY <1>2
            <4> QED
                BY <1>1, <1>4, <3>2, <4>1 DEF Before
        <3> QED
            BY <1>7, <3>1, <3>2
    <2>3. ASSUME NEW s \in Sockets, NEW i \in DOMAIN inbox'[s], NEW th \in Threads
          PROVE  SentBefore(inbox[s][i], th)'
        <3>1. CASE i \in DOMAIN inbox[s] /\ inbox'[s][i] = inbox[s][i]
            <4>1. SentBefore(inbox[s][i], th)
                BY <3>1 DEF OrderInv
            <4> QED
                BY <1>1, <3>1, <4>1 DEF SentBefore
        <3>2. CASE inbox'[s][i] = f
            <4>1. SentBefore(pipe[1], th)
                BY <1>4 DEF OrderInv
            <4> QED
                BY <1>1, <1>4, <3>2, <4>1 DEF SentBefore
        <3> QED
            BY <1>7, <3>1, <3>2
    <2> QED
        BY <1>2, <2>1, <2>2, <2>3 DEF OrderInv
<1>10. WholeInv'
    <2>1. ASSUME ~ torn PROVE Pairs(hand' \o pipe')
        <3> DEFINE q == hand \o pipe
        <3>1. Joins(q, hand, pipe) /\ Pairs(q)
            BY <1>3, <2>1, Joined DEF WholeInv
        <3> HIDE DEF q
        <3>2. q \in Seq(Frame) /\ Len(q) = Len(pipe') + 2
            BY <1>2, <1>3, <3>1 DEF Joins, Drops
        <3>3. ASSUME NEW i \in 1 .. Len(pipe') PROVE pipe'[i] = q[i + 2]
            <4>1. i + 1 \in 1 .. Len(pipe) /\ pipe'[i] = pipe[i + 1] /\ 1 + (i + 1) = i + 2
                BY <1>2 DEF Drops
            <4> QED
                BY <1>3, <3>1, <4>1 DEF Joins
        <3>4. Pairs(pipe')
            BY <1>3, <3>1, <3>2, <3>3, PairTaken
        <3>5. hand' \o pipe' = pipe'
            BY <1>1, <1>3, ConcatEmptySeq
        <3> QED
            BY <3>4, <3>5
    <2> QED
        BY <1>1, <2>1 DEF WholeInv, Publishing
<1>11. SocketsInv'
    BY <1>1, <1>5 DEF SocketsInv, Shows
<1> QED
    BY <1>6, <1>8, <1>9, <1>10, <1>11

(* A message with one frame: what is in hand is dropped. *)
LEMMA DataMissingInv ==
    ASSUME IInv, DataMissing
    PROVE  IInv'
<1> USE DEF IInv
<1>1. /\ hand # <<>> /\ pipe = <<>> /\ hand' = <<>>
      /\ UNCHANGED <<published, sending, message, kept, pipe, torn, filter, applied, subscribers,
                     touched, known, socket, inbox, rows>>
    BY DEF DataMissing, publisher, filters, memory, shown
<1>2. TypeOK'
    BY <1>1, EmptySeq DEF TypeOK
<1>3. EventsInv'
    BY <1>1 DEF EventsInv
<1>4. OrderInv'
    BY <1>1 DEF OrderInv, Before, SentBefore
<1>5. torn
    <2> SUFFICES ASSUME ~ torn PROVE FALSE
        OBVIOUS
    <2>1. hand \in Seq(Frame) /\ Len(hand) = 1
        BY <1>1, OneInHand
    <2>2. hand \o pipe = hand
        BY <1>1, <2>1, ConcatEmptySeq
    <2>3. Pairs(hand)
        BY <2>2 DEF WholeInv
    <2> QED
        BY <2>1, <2>3 DEF Pairs
<1>6. WholeInv'
    BY <1>1, <1>5 DEF WholeInv
<1>7. SocketsInv'
    BY <1>1 DEF SocketsInv
<1> QED
    BY <1>2, <1>3, <1>4, <1>6, <1>7

(* The thread finds the stream empty: it is whole once nothing is being sent. *)
LEMMA NothingToReceiveInv ==
    ASSUME IInv, NothingToReceive
    PROVE  IInv'
<1> USE DEF IInv
<1>1. /\ hand = <<>> /\ pipe = <<>>
      /\ torn' = (torn /\ \E th \in Threads : sending[th] # None)
      /\ UNCHANGED <<published, sending, message, kept, pipe, hand, filter, applied, subscribers,
                     touched, known, socket, inbox, rows>>
    BY DEF NothingToReceive, publisher, filters, memory, shown
<1>2. TypeOK'
    BY <1>1 DEF TypeOK
<1>3. EventsInv'
    BY <1>1 DEF EventsInv
<1>4. OrderInv'
    BY <1>1 DEF OrderInv, Before, SentBefore
<1>5. Pairs(hand' \o pipe')
    <2>1. hand' \o pipe' = <<>>
        BY <1>1, ConcatEmptySeq, EmptySeq
    <2> QED
        BY <2>1 DEF Pairs
<1>6. WholeInv'
    BY <1>1, <1>5 DEF WholeInv, Publishing
<1>7. SocketsInv'
    BY <1>1 DEF SocketsInv
<1> QED
    BY <1>2, <1>3, <1>4, <1>6, <1>7

(* Every step keeps the invariant. *)
LEMMA NextInv == IInv /\ [Next]_vars => IInv'
<1> SUFFICES ASSUME IInv, [Next]_vars PROVE IInv'
    OBVIOUS
<1>1. CASE \E th \in Threads : SendData(th)
    BY <1>1, SendDataInv
<1>2. CASE \E th \in Threads : \E t \in Publishes[th] : SendTopic(th, t)
    BY <1>2, SendTopicInv, PublishesAssumption
<1>3. CASE Receive
    BY <1>3, ReceiveTopicInv, ReceiveDataInv, DataMissingInv, NothingToReceiveInv DEF Receive
<1>4. CASE \E t \in Topics : SetFilter(t) \/ ApplyFilter(t)
    BY <1>4, FiltersInv
<1>5. CASE \E u \in Users, t \in Topics : Subscribe(u, t) \/ UnsubscribeUserFromTopic(u, t)
    BY <1>5, SubscribersInv
<1>6. CASE \E s \in Sockets : AddConnection(s) \/ RemoveConnection(s) \/ Unsubscribe(s)
    BY <1>6, ConnectionsInv
<1>7. CASE Restart
    BY <1>7, RestartInv
<1>8. CASE UNCHANGED vars
    <2>1. UNCHANGED stream
          /\ UNCHANGED <<filter, applied, subscribers, touched, known, socket, inbox, rows>>
        BY <1>8 DEF vars, filters, memory, shown
    <2>2. TypeOK' /\ SocketsInv'
        BY <2>1 DEF IInv, TypeOK, SocketsInv, stream, publisher
    <2> QED
        BY <2>1, <2>2, ElsewhereInv
<1> QED
    BY <1>1, <1>2, <1>3, <1>4, <1>5, <1>6, <1>7, <1>8 DEF Next

(* The invariant holds in every state. *)
THEOREM Invariance == Spec => []IInv
<1>1. Init => IInv
    BY InitInv
<1>2. IInv /\ [Next]_vars => IInv'
    BY NextInv
<1> QED
    BY <1>1, <1>2, PTL DEF Spec

(* Every variable holds frames, events and users of its kind. *)
THEOREM TypeCorrect == Spec => []TypeOK
<1>1. IInv => TypeOK
    BY DEF IInv
<1> QED
    BY <1>1, Invariance, PTL

(* As long as no topic was sent into another message, each event on its way  *)
(* is its topic and then its payload, however many loops publish.           *)
THEOREM TheStreamIsAligned == Spec => []FramesAligned
<1>1. IInv => FramesAligned
    <2> SUFFICES ASSUME IInv, ~ torn
                 PROVE  /\ \A i \in 1 .. Len(hand \o pipe) :
                              IsData((hand \o pipe)[i]) <=> i % 2 = 0
                        /\ \A i \in 1 .. Len(hand \o pipe) \div 2 :
                              (hand \o pipe)[2 * i - 1].event = (hand \o pipe)[2 * i].event
                        /\ Len(hand \o pipe) % 2 = 0
        BY DEF FramesAligned
    <2> DEFINE q == hand \o pipe
    <2>1. Joins(q, hand, pipe)
        BY Joined DEF IInv, TypeOK
    <2>2. Pairs(q)
        BY DEF IInv, WholeInv
    <2> HIDE DEF q
    <2>3. q \in Seq(Frame)
        BY <2>1 DEF Joins
    <2>4. /\ \A i \in 1 .. Len(q) : IsData(q[i]) <=> i % 2 = 0
          /\ \A i \in 1 .. Len(q) \div 2 : q[2 * i - 1].event = q[2 * i].event
          /\ Len(q) % 2 = 0
        BY <2>2, <2>3, PairsAreAligned
    <2> QED
        BY <2>4 DEF q
<1> QED
    BY <1>1, Invariance, PTL

(* No socket is sent a payload twice, nor the payloads of one thread in      *)
(* another order than published, even when messages are torn.               *)
THEOREM PayloadsInOrder == Spec => []InOrder
<1>1. IInv => InOrder
    BY DEF IInv, OrderInv, Before, InOrder
<1> QED
    BY <1>1, Invariance, PTL

-----------------------------------------------------------------------------
(* The state of EventBus that a state of Delivery stands for. *)
TopicOf == [n \in DOMAIN published |-> published[n].topic]
Pending == {sending[th] : th \in Threads} \ {None}
QueueOf(h, p) == [i \in 1 .. (Len(h) + Len(p)) \div 2 |-> p[2 * i - Len(h)]]
Queue == QueueOf(hand, pipe)
Connected == {s \in Sockets : socket[s] = "open"}

(* As long as the stream is whole, the queue are the payloads on their way. *)
Queues(q, h, p) ==
    /\ q \in Seq(Frame) /\ Len(q) \in Nat /\ Len(h) + Len(p) = 2 * Len(q)
    /\ \A i \in 1 .. Len(q) : 2 * i - Len(h) \in 1 .. Len(p) /\ q[i] = p[2 * i - Len(h)]
LEMMA QueueHolds ==
    ASSUME NEW h \in Seq(Frame), NEW p \in Seq(Frame), Len(h) <= 1, Pairs(h \o p)
    PROVE  Queues(QueueOf(h, p), h, p)
<1> DEFINE q == h \o p  queue == QueueOf(h, p)
<1>1. Len(h) \in Nat /\ Len(p) \in Nat
    OBVIOUS
<1>2. Joins(q, h, p) /\ Pairs(q)
    BY Joined
<1> HIDE DEF q
<1>3. PICK m \in Nat : Len(h) + Len(p) = 2 * m
    BY <1>2 DEF Pairs, Joins
<1>4. (Len(h) + Len(p)) \div 2 = m
    BY <1>1, <1>3
<1>5. \A i \in 1 .. m : 2 * i - Len(h) \in 1 .. Len(p)
    BY <1>1, <1>3
<1>6. \A j \in 1 .. Len(p) : p[j] \in Frame
    OBVIOUS
<1>7. queue = [i \in 1 .. m |-> p[2 * i - Len(h)]]
    BY <1>4 DEF QueueOf
<1>8. \A i \in 1 .. m : p[2 * i - Len(h)] \in Frame
    BY <1>5, <1>6
<1>9. queue \in Seq(Frame) /\ Len(queue) = m
    BY <1>7, <1>8, IsASeq
<1> QED
    BY <1>3, <1>5, <1>7, <1>9 DEF Queues

LEMMA WholeQueue ==
    ASSUME IInv, ~ torn
    PROVE  Queues(Queue, hand, pipe)
<1>1. hand \in Seq(Frame) /\ pipe \in Seq(Frame) /\ Len(hand) <= 1 /\ Pairs(hand \o pipe)
    BY DEF IInv, TypeOK, WholeInv
<1> QED
    BY <1>1, QueueHolds DEF Queue

LEMMA WholeQueueAfter ==
    ASSUME IInv', ~ torn'
    PROVE  Queues(Queue', hand', pipe')
<1>1. hand' \in Seq(Frame) /\ pipe' \in Seq(Frame) /\ Len(hand') <= 1 /\ Pairs(hand' \o pipe')
    BY DEF IInv, TypeOK, WholeInv
<1> QED
    BY <1>1, QueueHolds DEF Queue

(* The topics of the events are a sequence. *)
LEMMA TopicsOfEvents ==
    ASSUME NEW s \in Seq([topic : Topics, by : Threads])
    PROVE  /\ [n \in DOMAIN s |-> s[n].topic] \in Seq(Topics)
           /\ Len([n \in DOMAIN s |-> s[n].topic]) = Len(s)
<1> DEFINE f == [n \in DOMAIN s |-> s[n].topic]
<1>1. Len(s) \in Nat /\ DOMAIN s = 1 .. Len(s)
    OBVIOUS
<1>2. \A n \in 1 .. Len(s) : s[n] \in [topic : Topics, by : Threads]
    <2> DEFINE Entry == [topic : Topics, by : Threads]
    <2>1. s \in Seq(Entry)
        OBVIOUS
    <2> HIDE DEF Entry
    <2>2. \A n \in 1 .. Len(s) : s[n] \in Entry
        BY <2>1
    <2> QED
        BY <2>2 DEF Entry
<1>3. \A n \in 1 .. Len(s) : s[n].topic \in Topics
    BY <1>2
<1>4. f = [n \in 1 .. Len(s) |-> s[n].topic]
    BY <1>1
<1> QED
    BY <1>1, <1>3, <1>4, IsASeq

(* A thread sends a topic: the event is announced. *)
LEMMA SendTopicRefines ==
    ASSUME IInv, IInv', ~ torn, ~ torn', NEW th \in Threads, NEW t \in Topics, SendTopic(th, t)
    PROVE  Bus!Announce(t)
<1> DEFINE n == Len(published) + 1  entry == [topic |-> t, by |-> th]
<1>1. /\ message = <<>> /\ published' = Append(published, entry)
      /\ sending' = [sending EXCEPT ![th] = n]
      /\ UNCHANGED <<pipe, hand, subscribers, socket, inbox, rows>>
    BY DEF SendTopic, memory, shown
<1>2. TopicOf \in Seq(Topics) /\ Len(TopicOf) = Len(published)
      /\ TopicOf' \in Seq(Topics) /\ Len(TopicOf') = Len(published')
    <2>1. /\ published \in Seq([topic : Topics, by : Threads])
          /\ published' \in Seq([topic : Topics, by : Threads])
        BY DEF IInv, TypeOK
    <2>2. TopicOf \in Seq(Topics) /\ Len(TopicOf) = Len(published)
        BY <2>1, TopicsOfEvents DEF TopicOf
    <2>3. TopicOf' \in Seq(Topics) /\ Len(TopicOf') = Len(published')
        BY <2>1, TopicsOfEvents DEF TopicOf
    <2> QED
        BY <2>2, <2>3
<1>3. /\ published \in Seq([topic : Topics, by : Threads]) /\ Len(published) \in Nat
      /\ entry \in [topic : Topics, by : Threads] /\ DOMAIN published = 1 .. Len(published)
    BY DEF IInv, TypeOK
<1>4. /\ Len(published') = n /\ published'[n] = entry /\ DOMAIN published' = 1 .. n
      /\ \A e \in 1 .. Len(published) : published'[e] = published[e]
    <2> HIDE DEF entry
    <2> QED
        BY <1>1, <1>3, AppendProperties
<1>5. TopicOf' = Append(TopicOf, t)
    <2> DEFINE app == Append(TopicOf, t)
    <2>1. /\ app \in Seq(Topics) /\ Len(app) = n /\ app[n] = t
          /\ \A e \in 1 .. Len(published) : app[e] = TopicOf[e]
        BY <1>2, AppendProperties
    <2> HIDE DEF app
    <2>2. ASSUME NEW e \in 1 .. n PROVE TopicOf'[e] = app[e]
        <3>1. CASE e = n
            BY <1>4, <2>1, <3>1 DEF TopicOf
        <3>2. CASE e \in 1 .. Len(published)
            BY <1>3, <1>4, <2>1, <3>2 DEF TopicOf
        <3> QED
            BY <1>3, <3>1, <3>2
    <2>3. TopicOf' = app
        BY <1>2, <1>4, <2>1, <2>2, SeqEqual
    <2> QED
        BY <2>3 DEF app
<1>6. Pending' = Pending \cup {Len(TopicOf) + 1}
    <2>1. n # None
        BY <1>3 DEF None
    <2>2. \A o \in Threads : sending[o] = None /\ sending'[o] = IF o = th THEN n ELSE None
        BY <1>1 DEF IInv, WholeInv, TypeOK
    <2>3. Pending = {}
        BY <2>2 DEF Pending
    <2>4. Pending' = {n}
        BY <2>1, <2>2 DEF Pending
    <2> QED
        BY <1>2, <2>3, <2>4
<1>7. UNCHANGED <<Queue, subscribers, Connected, inbox, rows, torn>>
    BY <1>1 DEF Queue, Connected, IInv, TypeOK
<1> QED
    BY <1>5, <1>6, <1>7 DEF Bus!Announce, TopicOf, Pending, Queue, QueueOf, Connected

(* The thread sends the payload: the event is sent, or lost as a whole. *)
LEMMA SendDataRefines ==
    ASSUME IInv, IInv', ~ torn, ~ torn', NEW th \in Threads, SendData(th)
    PROVE  \E n \in Pending : Bus!Send(n)
<1> DEFINE n == sending[th]
<1>1. /\ n # None /\ sending' = [sending EXCEPT ![th] = None]
      /\ pipe' = pipe \/ (pipe' = pipe \o Append(message, DataFrame(n)))
      /\ UNCHANGED <<published, hand, subscribers, socket, inbox, rows>>
    BY DEF SendData, memory, shown
<1>2. /\ n \in Events /\ message = <<TopicFrame(n)>>
      /\ \A o \in Threads : sending[o] = (IF o = th THEN n ELSE None) /\ sending'[o] = None
    BY <1>1 DEF IInv, WholeInv, TypeOK, Publishing
<1>3. n \in Pending /\ Pending' = Pending \ {n}
    BY <1>1, <1>2 DEF Pending
<1>4. UNCHANGED <<TopicOf, subscribers, Connected, inbox, rows, torn>>
    BY <1>1 DEF TopicOf, Connected, IInv, TypeOK
<1>5. Queue' \in {Queue, Append(Queue, Bus!Payload(n))}
    <2>1. CASE pipe' = pipe
        BY <1>1, <2>1 DEF Queue, QueueOf
    <2>2. CASE pipe' = pipe \o Append(message, DataFrame(n))
        <3> DEFINE one == <<TopicFrame(n)>>  two == Append(one, DataFrame(n))
                   longer == Append(Queue, DataFrame(n))
        <3>1. /\ TopicFrame(n) \in Frame /\ DataFrame(n) \in Frame
              /\ pipe \in Seq(Frame) /\ hand \in Seq(Frame)
            BY <1>2, Frames DEF IInv, TypeOK
        <3>2. one \in Seq(Frame) /\ Len(one) = 1
            BY <3>1
        <3>3. pipe' = pipe \o two
            BY <1>2, <2>2
        <3> HIDE DEF one
        <3>4. Adds(two, one, DataFrame(n))
            BY <3>1, <3>2, Added
        <3> HIDE DEF two
        <3>5. two \in Seq(Frame) /\ Len(two) = 2 /\ two[2] = DataFrame(n)
            BY <3>2, <3>4 DEF Adds
        <3>6. Joins(pipe', pipe, two)
            <4>1. Joins(pipe \o two, pipe, two)
                BY <3>1, <3>5, Joined
            <4> QED
                BY <3>3, <4>1
        <3>7. Queues(Queue, hand, pipe)
            BY WholeQueue
        <3>8. Queues(Queue', hand', pipe')
            BY WholeQueueAfter
        <3>9. Adds(longer, Queue, DataFrame(n))
            BY <3>1, <3>7, Added DEF Queues
        <3> HIDE DEF longer
        <3>10. Len(Queue') = Len(longer) /\ Len(longer) = Len(Queue) + 1 /\ hand' = hand
               /\ longer \in Seq(Frame) /\ Len(hand) \in Nat
            BY <1>1, <3>1, <3>5, <3>6, <3>7, <3>8, <3>9 DEF Adds, Queues, Joins
        <3>11. ASSUME NEW i \in 1 .. Len(Queue') PROVE Queue'[i] = longer[i]
            <4>1. CASE i \in 1 .. Len(Queue)
                BY <3>6, <3>7, <3>8, <3>9, <3>10, <4>1 DEF Adds, Queues, Joins
            <4>2. CASE i = Len(Queue) + 1
                <5>1. 2 * i - Len(hand) = Len(pipe) + 2 /\ 2 \in 1 .. Len(two)
                    BY <3>5, <3>6, <3>7, <3>10, <4>2 DEF Joins, Queues
                <5>2. pipe'[Len(pipe) + 2] = DataFrame(n)
                    BY <3>5, <3>6, <5>1 DEF Joins
                <5> QED
                    BY <3>8, <3>9, <3>10, <4>2, <5>1, <5>2 DEF Adds, Queues
            <4> QED
                BY <3>7, <3>10, <4>1, <4>2 DEF Queues
        <3>12. Queue' = longer
            BY <3>8, <3>10, <3>11, SeqEqual DEF Queues
        <3>13. Bus!Payload(n) = DataFrame(n)
            BY DEF Bus!Payload, DataFrame
        <3> QED
            BY <3>12, <3>13 DEF longer
    <2> QED
        BY <1>1, <2>1, <2>2
<1> QED
    BY <1>3, <1>4, <1>5 DEF Bus!Send, TopicOf, Pending, Queue, QueueOf, Connected

(* What EventBus sees of a step. *)
BusStutters == UNCHANGED <<TopicOf, Pending, Queue, subscribers, Connected, inbox, rows, torn>>

(* The thread reads a topic: the queue stays what it was. *)
LEMMA ReceiveTopicRefines ==
    ASSUME IInv, IInv', ~ torn, ~ torn', ReceiveTopic
    PROVE  BusStutters
<1>1. /\ hand = <<>> /\ pipe # <<>> /\ hand' = <<Head(pipe)>> /\ pipe' = Tail(pipe)
      /\ UNCHANGED <<published, sending, torn, subscribers, socket, inbox, rows>>
    BY DEF ReceiveTopic, publisher, memory, shown
<1>2. Drops(pipe', pipe) /\ Queues(Queue, hand, pipe) /\ Queues(Queue', hand', pipe')
    BY <1>1, Dropped, WholeQueue, WholeQueueAfter DEF IInv, TypeOK
<1>3. Len(hand) = 0 /\ Len(hand') = 1
    BY <1>1
<1>4. Queue' = Queue
    <2>1. Len(Queue') = Len(Queue)
        BY <1>2, <1>3 DEF Queues, Drops
    <2>2. ASSUME NEW i \in 1 .. Len(Queue) PROVE Queue'[i] = Queue[i]
        <3>1. Queue[i] = pipe[2 * i] /\ Queue'[i] = pipe'[2 * i - 1] /\ 2 * i - 1 \in 1 .. Len(pipe')
            BY <1>2, <1>3, <2>1 DEF Queues
        <3>2. pipe'[2 * i - 1] = pipe[(2 * i - 1) + 1] /\ (2 * i - 1) + 1 = 2 * i
            BY <1>2, <3>1 DEF Drops
        <3> QED
            BY <3>1, <3>2
    <2> QED
        BY <1>2, <2>1, <2>2, SeqEqual DEF Queues
<1> QED
    BY <1>1, <1>4 DEF BusStutters, TopicOf, Pending, Connected

(* The thread reads a payload: the event is delivered. *)
LEMMA ReceiveDataRefines ==
    ASSUME IInv, IInv', ~ torn, ~ torn', ReceiveData
    PROVE  Bus!Deliver
<1>1. /\ hand # <<>> /\ pipe # <<>> /\ hand' = <<>> /\ pipe' = Tail(pipe)
      /\ Broadcast(hand[1], Head(pipe))
      /\ UNCHANGED <<published, sending, torn, subscribers, known, socket>>
    BY DEF ReceiveData, publisher
<1>2. Drops(pipe', pipe) /\ Queues(Queue, hand, pipe) /\ Queues(Queue', hand', pipe')
    BY <1>1, Dropped, WholeQueue, WholeQueueAfter DEF IInv, TypeOK
<1>3. Len(hand) = 1 /\ Len(hand') = 0 /\ hand \in Seq(Frame) /\ hand[1] \in Frame
    BY <1>1, OneInHand DEF IInv
<1>4. Len(Queue) = Len(Queue') + 1 /\ Queue # <<>> /\ Queue \in Seq(Frame)
    <2>1. Len(Queue) = Len(Queue') + 1 /\ Len(Queue') \in Nat /\ Queue \in Seq(Frame)
        BY <1>2, <1>3 DEF Queues, Drops
    <2>2. Len(Queue) # 0
        BY <2>1
    <2> QED
        BY <2>1, <2>2, EmptySeq
<1>5. Drops(Tail(Queue), Queue)
    BY <1>4, Dropped
<1>6. Head(Queue) = pipe[1] /\ Head(pipe) = pipe[1] /\ pipe[1] \in Frame
    <2>1. 1 \in 1 .. Len(Queue) /\ 2 * 1 - Len(hand) = 1
        BY <1>3, <1>5 DEF Drops
    <2> QED
        BY <1>2, <1>5, <2>1 DEF Queues, Drops
<1>7. Queue' = Tail(Queue)
    <2>1. Len(Queue') = Len(Tail(Queue))
        BY <1>2, <1>4, <1>5 DEF Queues, Drops
    <2>2. ASSUME NEW i \in 1 .. Len(Queue') PROVE Queue'[i] = Tail(Queue)[i]
        <3>1. Queue'[i] = pipe'[2 * i] /\ 2 * i \in 1 .. Len(pipe')
            BY <1>2, <1>3 DEF Queues
        <3>2. pipe'[2 * i] = pipe[2 * i + 1]
            BY <1>2, <3>1 DEF Drops
        <3>3. Tail(Queue)[i] = Queue[i + 1] /\ i + 1 \in 1 .. Len(Queue)
            BY <1>5, <2>1 DEF Drops
        <3>4. Queue[i + 1] = pipe[2 * i + 1]
            <4>1. 2 * (i + 1) - Len(hand) = 2 * i + 1
                BY <1>3
            <4> QED
                BY <1>2, <3>3, <4>1 DEF Queues
        <3> QED
            BY <3>1, <3>2, <3>3, <3>4
    <2> QED
        BY <1>2, <1>5, <2>1, <2>2, SeqEqual DEF Queues, Drops
<1>8. ~ IsData(hand[1]) /\ hand[1].event = pipe[1].event /\ IsData(pipe[1])
    <2> DEFINE q == hand \o pipe
    <2>1. pipe \in Seq(Frame) /\ 1 \in 1 .. Len(pipe) /\ 1 \in 1 .. Len(hand)
        BY <1>2, <1>3 DEF Drops, IInv, TypeOK
    <2>2. Joins(q, hand, pipe) /\ Pairs(q)
        BY <1>3, <2>1, Joined DEF IInv, WholeInv
    <2> HIDE DEF q
    <2>3. q[1] = hand[1] /\ q[2] = pipe[1]
        BY <1>3, <2>1, <2>2 DEF Joins
    <2>4. q \in Seq(Frame) /\ Len(q) \in Nat /\ Len(q) >= 2
        BY <1>2, <1>3, <2>2 DEF Joins, Drops
    <2>5. ~ IsData(q[1]) /\ IsData(q[2]) /\ q[1].event = q[2].event
        <3>1. PICK m \in 0 .. Len(q) :
                 /\ Len(q) = 2 * m
                 /\ \A i \in 1 .. m :
                      /\ ~ IsData(q[2 * i - 1]) /\ IsData(q[2 * i])
                      /\ q[2 * i - 1].event = q[2 * i].event
            BY <2>2 DEF Pairs
        <3>2. 1 \in 1 .. m /\ 2 * 1 - 1 = 1 /\ 2 * 1 = 2
            BY <2>4, <3>1
        <3> QED
            BY <3>1, <3>2
    <2> QED
        BY <2>3, <2>5
<1> DEFINE n == pipe[1].event
           subs == subscribers[published[n].topic]
<1>9. n \in DOMAIN published /\ TopicOf[n] = published[n].topic
    <2>1. 1 \in DOMAIN pipe
        BY <1>2 DEF Drops, IInv, TypeOK
    <2> QED
        BY <2>1 DEF IInv, EventsInv, TopicOf
<1>10. /\ inbox' = [s \in Sockets |->
                      IF Owner[s] \in subs \cap known /\ socket[s] = "open"
                      THEN Append(inbox[s], pipe[1]) ELSE inbox[s]]
       /\ rows' = (subs \cap known) \X {n}
    BY <1>1, <1>6, <1>8 DEF Broadcast
<1>11. inbox' = [s \in Sockets |->
                      IF s \in Connected /\ Owner[s] \in subs
                      THEN Append(inbox[s], pipe[1]) ELSE inbox[s]]
    <2>1. \A s \in Sockets : (Owner[s] \in subs \cap known /\ socket[s] = "open")
              <=> (s \in Connected /\ Owner[s] \in subs)
        BY DEF IInv, SocketsInv, Connected
    <2> HIDE DEF subs
    <2> QED
        BY <1>10, <2>1
<1>12. rows' \subseteq subs \X {n}
    BY <1>10
<1>13. UNCHANGED <<TopicOf, Pending, subscribers, Connected, torn>>
    BY <1>1 DEF TopicOf, Pending, Connected
<1>14. /\ subs = subscribers[TopicOf[Head(Queue).event]] /\ pipe[1] = Head(Queue)
       /\ n = Head(Queue).event
    BY <1>6, <1>9
<1> HIDE DEF subs, n
<1>15. LET payload == Head(Queue)
           readers == subscribers[TopicOf[payload.event]]
       IN /\ inbox' = [s \in Sockets |->
                          IF s \in Connected /\ Owner[s] \in readers
                          THEN Append(inbox[s], payload) ELSE inbox[s]]
          /\ rows' \subseteq readers \X {payload.event}
    BY <1>11, <1>12, <1>14
<1> QED
    BY <1>4, <1>7, <1>13, <1>15 DEF Bus!Deliver, TopicOf, Pending, Queue, QueueOf, Connected

(* Users, sockets and subscriptions are the environment of EventBus. *)
LEMMA EnvironmentRefines ==
    ASSUME IInv, IInv', UNCHANGED stream, UNCHANGED rows,
           \A s \in Sockets : socket'[s] = "open" => inbox'[s] = inbox[s]
    PROVE  Bus!Environment
<1>1. UNCHANGED <<published, sending, hand, pipe, torn>>
    BY DEF stream, publisher
<1>2. UNCHANGED <<TopicOf, Pending, Queue, torn>>
    BY <1>1 DEF TopicOf, Pending, Queue, QueueOf
<1>3. subscribers' \in [Topics -> SUBSET Users] /\ Connected' \subseteq Sockets
    BY DEF IInv, TypeOK, Connected
<1>4. inbox' = [s \in Sockets |-> IF s \in Connected' THEN inbox[s] ELSE <<>>]
    <2>1. inbox' = [s \in Sockets |-> inbox'[s]]
        BY DEF IInv, TypeOK
    <2>2. \A s \in Sockets : inbox'[s] = IF s \in Connected' THEN inbox[s] ELSE <<>>
        BY DEF IInv, SocketsInv, Connected
    <2> QED
        BY <2>1, <2>2
<1> QED
    BY <1>2, <1>3, <1>4 DEF Bus!Environment, TopicOf, Pending, Queue, QueueOf, Connected

(* A restart is a restart. *)
LEMMA RestartRefines == Restart => Bus!Restart
<1> SUFFICES ASSUME Restart PROVE Bus!Restart
    OBVIOUS
<1>1. Pending' = {} /\ Connected' = {} /\ TopicOf' = TopicOf
    BY DEF Restart, Pending, Connected, TopicOf
<1>2. Queue' = <<>>
    <2>1. hand' = <<>> /\ pipe' = <<>> /\ Len(<<>>) = 0
        BY DEF Restart
    <2>2. (Len(hand') + Len(pipe')) \div 2 = 0
        BY <2>1
    <2>3. 1 .. 0 = {}
        OBVIOUS
    <2>4. Queue' = [i \in {} |-> pipe'[2 * i - Len(hand')]]
        BY <2>2, <2>3 DEF Queue, QueueOf
    <2> QED
        BY <2>4
<1> QED
    BY <1>1, <1>2 DEF Restart, Bus!Restart, TopicOf, Pending, Queue, QueueOf, Connected

(* Every step of Delivery is a step of EventBus, or none at all. *)
LEMMA NextRefines ==
    ASSUME IInv, IInv', [Next]_vars
    PROVE  [Bus!Next]_(Bus!vars)
<1>1. CASE torn \/ torn'
    BY <1>1 DEF Bus!Next, Bus!Torn
<1>2. CASE ~ torn /\ ~ torn'
    <2>1. BusStutters => UNCHANGED Bus!vars
        BY DEF BusStutters, Bus!vars, TopicOf, Pending, Queue, QueueOf, Connected
    <2>2. CASE \E th \in Threads : SendData(th)
        <3>1. \E n \in Pending : Bus!Send(n)
            BY <1>2, <2>2, SendDataRefines
        <3> QED
            BY <3>1 DEF Bus!Next, Pending
    <2>3. CASE \E th \in Threads : \E t \in Publishes[th] : SendTopic(th, t)
        <3>1. \E t \in Topics : Bus!Announce(t)
            BY <1>2, <2>3, SendTopicRefines, PublishesAssumption
        <3> QED
            BY <3>1 DEF Bus!Next
    <2>4. CASE ReceiveTopic
        BY <1>2, <2>1, <2>4, ReceiveTopicRefines
    <2>5. CASE ReceiveData
        <3>1. Bus!Deliver
            BY <1>2, <2>5, ReceiveDataRefines
        <3> QED
            BY <3>1 DEF Bus!Next
    <2>6. CASE DataMissing
        <3>1. hand \o pipe = hand /\ Len(hand) = 1 /\ Pairs(hand \o pipe)
            BY <1>2, <2>6, OneInHand, ConcatEmptySeq DEF DataMissing, IInv, WholeInv
        <3>2. Pairs(hand)
            BY <3>1
        <3> QED
            BY <3>1, <3>2 DEF Pairs
    <2>7. CASE NothingToReceive
        <3>1. torn' = torn
            <4>1. torn = FALSE /\ torn' = FALSE
                BY <1>2 DEF IInv, TypeOK
            <4> QED
                BY <4>1
        <3>2. UNCHANGED <<published, sending, hand, pipe, subscribers, socket, inbox, rows>>
            BY <2>7 DEF NothingToReceive, publisher, memory, shown
        <3>3. BusStutters
            BY <3>1, <3>2 DEF BusStutters, TopicOf, Pending, Queue, QueueOf, Connected
        <3> QED
            BY <2>1, <3>3
    <2>8. CASE \E t \in Topics : SetFilter(t) \/ ApplyFilter(t)
        <3>1. BusStutters
            BY <2>8 DEF SetFilter, ApplyFilter, stream, publisher, memory, shown, BusStutters,
                        TopicOf, Pending, Queue, QueueOf, Connected
        <3> QED
            BY <2>1, <3>1
    <2>9. CASE \E u \in Users, t \in Topics : Subscribe(u, t) \/ UnsubscribeUserFromTopic(u, t)
        <3>1. UNCHANGED stream /\ UNCHANGED <<socket, inbox, rows>>
            BY <2>9 DEF Subscribe, UnsubscribeUserFromTopic, shown
        <3>2. Bus!Environment
            BY <3>1, EnvironmentRefines
        <3> QED
            BY <3>2 DEF Bus!Next
    <2>10. CASE \E s \in Sockets : AddConnection(s) \/ RemoveConnection(s) \/ Unsubscribe(s)
        <3>1. PICK s \in Sockets : AddConnection(s) \/ RemoveConnection(s) \/ Unsubscribe(s)
            BY <2>10
        <3>2. UNCHANGED stream /\ UNCHANGED rows
            BY <3>1 DEF AddConnection, RemoveConnection, Unsubscribe, shown
        <3>3. \A o \in Sockets : socket'[o] = "open" => inbox'[o] = inbox[o]
            <4>1. socket \in [Sockets -> {"closed", "open", "closing"}]
                  /\ inbox \in [Sockets -> Seq(Frame)]
                BY DEF IInv, TypeOK
            <4>2. inbox' = inbox \/ (socket' = [socket EXCEPT ![s] = "closing"]
                                     /\ inbox' = [inbox EXCEPT ![s] = <<>>])
                BY <3>1 DEF AddConnection, RemoveConnection, Unsubscribe, shown
            <4> QED
                BY <4>1, <4>2
        <3>4. Bus!Environment
            BY <3>2, <3>3, EnvironmentRefines
        <3> QED
            BY <3>4 DEF Bus!Next
    <2>11. CASE Restart
        BY <2>11, RestartRefines DEF Bus!Next
    <2>12. CASE UNCHANGED vars
        <3>1. BusStutters
            BY <2>12 DEF vars, stream, publisher, memory, shown, BusStutters, TopicOf, Pending,
                         Queue, QueueOf, Connected
        <3> QED
            BY <2>1, <3>1
    <2> QED
        BY <2>2, <2>3, <2>4, <2>5, <2>6, <2>7, <2>8, <2>9, <2>10, <2>11, <2>12 DEF Next, Receive
<1> QED
    BY <1>1, <1>2

(* As long as the stream is whole, an event reaches exactly the open sockets *)
(* of the subscribers of its own topic, once, and rows are stored for nobody *)
(* else: the frames, filters and threads keep what EventBus promises.       *)
THEOREM DeliveryImplementsBus == Spec => ImplementsBus
<1>1. Init => Bus!Init
    <2> SUFFICES ASSUME Init PROVE Bus!Init
        OBVIOUS
    <2>1. TopicOf = <<>> /\ Pending = {} /\ Connected = {}
        BY DEF Init, TopicOf, Pending, Connected
    <2>2. Queue = <<>>
        <3>1. hand = <<>> /\ pipe = <<>> /\ Len(<<>>) = 0
            BY DEF Init
        <3>2. (Len(hand) + Len(pipe)) \div 2 = 0
            BY <3>1
        <3>3. 1 .. 0 = {}
            OBVIOUS
        <3>4. Queue = [i \in {} |-> pipe[2 * i - Len(hand)]]
            BY <3>2, <3>3 DEF Queue, QueueOf
        <3> QED
            BY <3>4
    <2> QED
        BY <2>1, <2>2 DEF Init, Bus!Init, TopicOf, Pending, Queue, QueueOf, Connected
<1>2. IInv /\ IInv' /\ [Next]_vars => [Bus!Next]_(Bus!vars)
    BY NextRefines
<1> QED
    BY <1>1, <1>2, Invariance, PTL DEF Spec, ImplementsBus, Bus!Spec

=============================================================================
