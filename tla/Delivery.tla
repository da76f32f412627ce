------------------------------ MODULE Delivery ------------------------------
(***************************************************************************)
(* How an event reaches the users: PubManager, SubManager and               *)
(* ConnectionManager::broadcast.                                            *)
(*                                                                         *)
(* An event is two frames, a topic and a payload, which publish sends by     *)
(* two calls.  All the event loops publish on one PUB socket, and no lock    *)
(* keeps their frames apart.  The socket matches the first frame of a        *)
(* message with the filters that have reached it, and hands a message over   *)
(* when its last frame is sent.  The subscriber thread polls: it reads a     *)
(* topic, then a payload, and never looks where one message ends.            *)
(***************************************************************************)
EXTENDS Naturals, Sequences

CONSTANTS Threads,     \* the event loops that publish
          Topics,
          Publishes,   \* the topics that each event loop publishes
          PrefixesOf,  \* the topics that are prefixes of a topic
          Users,
          Sockets,     \* WebSocket connections
          Owner,       \* the user of each socket
          HighWater,   \* messages are dropped only if so many frames wait
          MaxEvents    \* bound: events that are published

ASSUME PublishesAssumption == Publishes \in [Threads -> SUBSET Topics]
ASSUME PrefixesAssumption == /\ PrefixesOf \in [Topics -> SUBSET Topics]
                             /\ \A t \in Topics : t \in PrefixesOf[t]
ASSUME OwnerAssumption == Owner \in [Sockets -> Users]
ASSUME BoundsAssumption == HighWater \in Nat \ {0} /\ MaxEvents \in Nat

VARIABLES published,   \* the topic and the thread of each event (history)
          sending,     \* the event each thread has sent the topic of
          message,     \* the frames of the message that is being sent
          kept,        \* does that message have a matching filter, and room?
          pipe,        \* the frames the SUB socket has to read
          hand,        \* topic_msg, once the subscriber thread has it
          filter,      \* the filters set on the SUB socket
          applied,     \* those that have reached the PUB socket
          subscribers, \* subscribers_
          touched,     \* subscribers_ has a key
          known,       \* the keys of connections_
          socket,      \* the life of each socket
          inbox,       \* what each socket was sent
          rows,        \* the notifications that the last broadcast stored
          torn         \* a topic was sent into another message (history)

publisher == <<published, sending, message, kept>>
stream == <<publisher, pipe, hand, torn>>
filters == <<filter, applied>>
memory == <<subscribers, touched, known, socket>>
shown == <<inbox, rows>>
vars == <<stream, filters, memory, shown>>

-----------------------------------------------------------------------------
Events == 1 .. MaxEvents
None == 0

Frame == [kind : {"topic", "data"}, event : Events]
TopicFrame(n) == [kind |-> "topic", event |-> n]
DataFrame(n) == [kind |-> "data", event |-> n]
IsData(f) == f.kind = "data"

(* connections_[u] *)
SocketsOf(u) == {s \in Sockets : Owner[s] = u /\ socket[s] = "open"}

-----------------------------------------------------------------------------
(* pub_manager.hpp *)

(* Does a filter match, and is there room?  With enough frames waiting the   *)
(* socket may still have room: it hears late of what was read.               *)
Takes(t, takes) ==
    /\ takes => applied \cap PrefixesOf[t] # {}
    /\ ~ takes => applied \cap PrefixesOf[t] = {} \/ Len(pipe) >= HighWater

(* Mutation: the topic is sent without sndmore. *)
SendTopicAlone(th, t) ==
    /\ sending[th] = None /\ Len(published) < MaxEvents
    /\ published' = Append(published, [topic |-> t, by |-> th])
    /\ sending' = [sending EXCEPT ![th] = Len(published) + 1]
    /\ pipe' = IF Takes(t, TRUE) THEN Append(pipe, TopicFrame(Len(published) + 1)) ELSE pipe
    /\ UNCHANGED <<message, kept, hand, torn, filters, memory, shown>>

SendTopic(th, t) ==
    /\ sending[th] = None /\ Len(published) < MaxEvents
    /\ LET n == Len(published) + 1 IN
       /\ published' = Append(published, [topic |-> t, by |-> th])
       /\ sending' = [sending EXCEPT ![th] = n]
       /\ message' = Append(message, TopicFrame(n))
    /\ IF message = <<>> THEN \E takes \in BOOLEAN : Takes(t, takes) /\ kept' = takes
       ELSE UNCHANGED kept
    /\ torn' = (torn \/ message # <<>>)
    /\ UNCHANGED <<pipe, hand, filters, memory, shown>>

(* A payload alone matches no filter: no topic is a prefix of JSON. *)
SendData(th) ==
    /\ sending[th] # None
    /\ sending' = [sending EXCEPT ![th] = None]
    /\ message' = <<>> /\ kept' = FALSE
    /\ pipe' = IF message # <<>> /\ kept
               THEN pipe \o Append(message, DataFrame(sending[th])) ELSE pipe
    /\ UNCHANGED <<published, hand, torn, filters, memory, shown>>

-----------------------------------------------------------------------------
(* sub_manager.hpp *)

SetFilter(t) ==
    /\ filter' = filter \cup {t}
    /\ UNCHANGED <<stream, applied, memory, shown>>

(* The PUB socket reads the filters when it next handles its commands. *)
ApplyFilter(t) ==
    /\ t \in filter \ applied
    /\ applied' = applied \cup {t}
    /\ UNCHANGED <<stream, filter, memory, shown>>

(* Mutation: a topic is read before the payload of the last one. *)
ReceiveTopicAgain ==
    /\ pipe # <<>>
    /\ hand' = Append(hand, Head(pipe)) /\ pipe' = Tail(pipe)
    /\ UNCHANGED <<publisher, torn, filters, memory, shown>>

ReceiveTopic ==
    /\ hand = <<>> /\ pipe # <<>>
    /\ hand' = <<Head(pipe)>> /\ pipe' = Tail(pipe)
    /\ UNCHANGED <<publisher, torn, filters, memory, shown>>

(* EAGAIN: the thread sleeps.  With nothing on its way the stream is whole. *)
NothingToReceive ==
    /\ hand = <<>> /\ pipe = <<>>
    /\ torn' = (torn /\ \E th \in Threads : sending[th] # None)
    /\ UNCHANGED <<publisher, pipe, hand, filters, memory, shown>>

(* EAGAIN on the second frame: the first is dropped. *)
DataMissing ==
    /\ hand # <<>> /\ pipe = <<>>
    /\ hand' = <<>>
    /\ UNCHANGED <<publisher, pipe, torn, filters, memory, shown>>

(* Mutation: the subscribers of every matching filter are told. *)
BroadcastByPrefix(topic, payload) ==
    LET readers == IF IsData(topic) THEN {}
                   ELSE UNION {subscribers[t] : t \in PrefixesOf[published[topic.event].topic]}
                            \cap known
    IN /\ inbox' = [s \in Sockets |->
                       IF Owner[s] \in readers /\ socket[s] = "open"
                       THEN Append(inbox[s], payload) ELSE inbox[s]]
       /\ rows' = IF IsData(payload) THEN readers \X {payload.event} ELSE {}

(* Mutation: only one socket of a user is sent the payload. *)
BroadcastToMain(topic, payload) ==
    LET readers == IF IsData(topic) THEN {}
                   ELSE subscribers[published[topic.event].topic] \cap known
        main == {CHOOSE s \in SocketsOf(u) : TRUE : u \in {v \in readers : SocketsOf(v) # {}}}
    IN /\ inbox' = [s \in Sockets |->
                       IF s \in main THEN Append(inbox[s], payload) ELSE inbox[s]]
       /\ rows' = IF IsData(payload) THEN readers \X {payload.event} ELSE {}

(* ConnectionManager::broadcast: under the mutex, every subscriber who has   *)
(* an entry gets a row, unless the payload cannot be parsed, and each of his *)
(* sockets the payload.                                                      *)
Broadcast(topic, payload) ==
    LET readers == IF IsData(topic) THEN {}
                   ELSE subscribers[published[topic.event].topic] \cap known
    IN /\ inbox' = [s \in Sockets |->
                       IF Owner[s] \in readers /\ socket[s] = "open"
                       THEN Append(inbox[s], payload) ELSE inbox[s]]
       /\ rows' = IF IsData(payload) THEN readers \X {payload.event} ELSE {}

(* Mutation: the payload is read again after it was sent. *)
ReceiveDataTwice ==
    /\ hand # <<>> /\ pipe # <<>>
    /\ \/ UNCHANGED <<hand, pipe>>
       \/ hand' = <<>> /\ pipe' = Tail(pipe)
    /\ Broadcast(hand[1], Head(pipe)) /\ touched' = TRUE
    /\ UNCHANGED <<publisher, torn, filters, subscribers, known, socket>>

ReceiveData ==
    /\ hand # <<>> /\ pipe # <<>>
    /\ hand' = <<>> /\ pipe' = Tail(pipe)
    /\ Broadcast(hand[1], Head(pipe)) /\ touched' = TRUE
    /\ UNCHANGED <<publisher, torn, filters, subscribers, known, socket>>

-----------------------------------------------------------------------------
(* connection_manager.hpp *)

(* Whoever subscribes has set the filter before (see Subscriptions). *)
Subscribe(u, t) ==
    /\ t \in filter
    /\ subscribers' = [subscribers EXCEPT ![t] = @ \cup {u}] /\ touched' = TRUE
    /\ UNCHANGED <<stream, filters, known, socket, shown>>

UnsubscribeUserFromTopic(u, t) ==
    /\ subscribers' = [subscribers EXCEPT ![t] = @ \ {u}] /\ touched' = TRUE
    /\ UNCHANGED <<stream, filters, known, socket, shown>>

AddConnection(s) ==
    /\ socket[s] = "closed"
    /\ socket' = [socket EXCEPT ![s] = "open"]
    /\ known' = known \cup {Owner[s]}
    /\ UNCHANGED <<stream, filters, subscribers, touched, shown>>

(* The client is gone, and what it was sent. *)
RemoveConnection(s) ==
    /\ socket[s] = "open"
    /\ socket' = [socket EXCEPT ![s] = "closing"]
    /\ inbox' = [inbox EXCEPT ![s] = <<>>]
    /\ UNCHANGED <<stream, filters, subscribers, touched, known, rows>>

(* The loop over subscribers_ does nothing as long as that has no key. *)
Unsubscribe(s) ==
    /\ socket[s] = "closing"
    /\ socket' = [socket EXCEPT ![s] = "closed"]
    /\ IF SocketsOf(Owner[s]) = {} /\ touched
       THEN /\ subscribers' = [t \in Topics |-> subscribers[t] \ {Owner[s]}]
            /\ known' = known \ {Owner[s]}
       ELSE UNCHANGED <<subscribers, known>>
    /\ UNCHANGED <<stream, filters, touched, shown>>

(* shutdown and initialize, or a crash: the tables are what is left. *)
Restart ==
    /\ sending' = [th \in Threads |-> None] /\ message' = <<>> /\ kept' = FALSE
    /\ pipe' = <<>> /\ hand' = <<>> /\ torn' = FALSE
    /\ filter' = {} /\ applied' = {}
    /\ subscribers' = [t \in Topics |-> {}] /\ touched' = FALSE /\ known' = {}
    /\ socket' = [s \in Sockets |-> "closed"]
    /\ inbox' = [s \in Sockets |-> <<>>] /\ rows' = {}
    /\ UNCHANGED published

-----------------------------------------------------------------------------
Init ==
    /\ published = <<>> /\ sending = [th \in Threads |-> None]
    /\ message = <<>> /\ kept = FALSE
    /\ pipe = <<>> /\ hand = <<>> /\ torn = FALSE
    /\ filter = {} /\ applied = {}
    /\ subscribers = [t \in Topics |-> {}] /\ touched = FALSE /\ known = {}
    /\ socket = [s \in Sockets |-> "closed"]
    /\ inbox = [s \in Sockets |-> <<>>]
    /\ rows = {}

Receive == ReceiveTopic \/ ReceiveData \/ DataMissing \/ NothingToReceive

Next ==
    \/ \E th \in Threads : SendData(th) \/ \E t \in Publishes[th] : SendTopic(th, t)
    \/ Receive
    \/ \E t \in Topics : SetFilter(t) \/ ApplyFilter(t)
    \/ \E u \in Users, t \in Topics : Subscribe(u, t) \/ UnsubscribeUserFromTopic(u, t)
    \/ \E s \in Sockets :
          AddConnection(s) \/ RemoveConnection(s) \/ Unsubscribe(s)
    \/ Restart

Spec == Init /\ [][Next]_vars

(* publish does not wait between its two calls, and the thread loops. *)
Fairness == WF_vars(Receive) /\ \A th \in Threads : WF_vars(SendData(th))

FairSpec == Spec /\ Fairness

-----------------------------------------------------------------------------
(* Every variable holds frames, events and users of its kind. *)
TypeOK ==
    /\ published \in Seq([topic : Topics, by : Threads]) /\ Len(published) <= MaxEvents
    /\ sending \in [Threads -> Events \cup {None}]
    /\ message \in Seq(Frame) /\ kept \in BOOLEAN
    /\ pipe \in Seq(Frame) /\ hand \in Seq(Frame) /\ Len(hand) <= 1
    /\ filter \subseteq Topics /\ applied \subseteq filter
    /\ subscribers \in [Topics -> SUBSET Users] /\ touched \in BOOLEAN
    /\ known \subseteq Users
    /\ socket \in [Sockets -> {"closed", "open", "closing"}]
    /\ inbox \in [Sockets -> Seq(Frame)]
    /\ rows \subseteq Users \X Events
    /\ torn \in BOOLEAN

(* As long as no topic was sent into another message, each event on its way  *)
(* is its topic and then its payload, and what the thread holds is the topic *)
(* of the payload it reads next; and the stream heals: once the thread has   *)
(* found it empty, with nothing being sent, this is so again.                *)
FramesAligned ==
    LET all == hand \o pipe IN
    ~ torn =>
        /\ \A i \in 1 .. Len(all) : IsData(all[i]) <=> i % 2 = 0
        /\ \A i \in 1 .. Len(all) \div 2 : all[2 * i - 1].event = all[2 * i].event
        /\ Len(all) % 2 = 0

(* Even when messages are torn, no socket is sent the payload of an event    *)
(* twice, nor the payloads of one thread in another order than published.    *)
InOrder ==
    \A s \in Sockets : \A i, j \in DOMAIN inbox[s] :
        LET a == inbox[s][i]  b == inbox[s][j] IN
        i < j /\ IsData(a) /\ IsData(b)
            /\ published[a.event].by = published[b.event].by => a.event < b.event

(* Delivery keeps what EventBus promises: as long as the stream is whole,    *)
(* an event reaches exactly the open sockets of the subscribers of its own   *)
(* topic, once, and rows are stored for nobody else.  Every second frame     *)
(* from the one in hand on is a payload: those are the queue.               *)
Bus == INSTANCE EventBus
    WITH published <- [n \in DOMAIN published |-> published[n].topic],
         pending <- {sending[th] : th \in Threads} \ {None},
         queue <- [i \in 1 .. (Len(hand) + Len(pipe)) \div 2 |-> pipe[2 * i - Len(hand)]],
         connected <- {s \in Sockets : socket[s] = "open"}

ImplementsBus == Bus!Spec

(* An event that is accepted by the PUB socket reaches every socket of a     *)
(* subscriber that stays open and subscribed, however the filters, the       *)
(* other users and the other threads move, unless the stream is torn.        *)
EveryEventArrives ==
    \A n \in Events, s \in Sockets :
        LET Reads == /\ n \in DOMAIN published /\ socket[s] = "open"
                     /\ Owner[s] \in subscribers[published[n].topic]
        IN (message = <<TopicFrame(n)>> /\ kept /\ ~ torn /\ Reads)
               ~> (torn \/ ~ Reads \/ \E i \in DOMAIN inbox[s] : inbox[s][i] = DataFrame(n))

=============================================================================
