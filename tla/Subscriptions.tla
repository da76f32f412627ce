---------------------------- MODULE Subscriptions ----------------------------
(***************************************************************************)
(* Who is subscribed to what: ConnectionManager (one mutex, so one step a    *)
(* call), the filter of the ZeroMQ SUB socket, the tables                    *)
(* user_subscriptions and post_subscriptions, the handlers of community.cc   *)
(* and chats.cc that subscribe and unsubscribe, and the WebSocket controller. *)
(*                                                                         *)
(* Subscriptions live twice.  Memory forgets a user whose last socket       *)
(* closes; a new socket restores the rows of user_subscriptions by a        *)
(* statement nobody waits for.  Those rows are written by statements nobody *)
(* waits for either, in the queue of the database client.                   *)
(***************************************************************************)
EXTENDS Integers, Sequences, FiniteSets, SequencesExt

CONSTANTS Users,       \* the authenticated users
          Sockets,     \* WebSocket connections
          Owner,       \* the user of each socket
          PostTopics,  \* topics of posts and offers
          EntityTopics,\* topics that are tags and places
          ChatTopics,  \* topics of conversations
          AsksFor,     \* the topics each user makes requests about
          PoolSize,    \* number_of_connections: statements that run at a time
          MaxQueue     \* bound: nothing new arrives while so many statements wait

ASSUME OwnerAssumption == Owner \in [Sockets -> Users]
ASSUME TopicsAssumption == /\ IsFiniteSet(PostTopics)
                           /\ PostTopics \cap EntityTopics = {}
                           /\ ChatTopics \cap (PostTopics \cup EntityTopics) = {}
ASSUME AsksForAssumption == AsksFor \in [Users -> SUBSET (PostTopics \cup EntityTopics \cup ChatTopics)]
ASSUME BoundsAssumption == PoolSize \in Nat \ {0} /\ MaxQueue \in Nat \ {0}

VARIABLES row,         \* the row of each post, offer and conversation, by topic
          socket,      \* the life of each socket
          subscribers, \* subscribers_, by topic
          filter,      \* the topics the SUB socket receives
          stored,      \* user_subscriptions
          listed,      \* post_subscriptions
          queue,       \* the statements of the client that are not done
          request,     \* the request of each user
          lost,        \* the users one of whose statements failed (history)
          missed,      \* what was in memory and not yet stored when the last
                       \* socket of its user closed (history)
          revived      \* the posts a user was unsubscribing from when another
                       \* socket of his opened (history)

memory == <<socket, subscribers, filter>>
tables == <<row, stored, listed>>
history == <<lost, missed, revived>>
vars == <<memory, tables, queue, request, history>>

-----------------------------------------------------------------------------
Topics == PostTopics \cup EntityTopics \cup ChatTopics
NoTopic == "none"
Nobody == "nobody"
ASSUME NobodyAssumption == Nobody \notin Users

Command == [cmd : {"list", "unlist", "store", "remove", "select", "restore"},
            user : Users, topics : SUBSET Topics]
(* In the steps "also_remember" and "also_store" the other user of a          *)
(* conversation is subscribed.                                               *)
Request == [step : {"idle", "list", "filter", "remember", "also_remember", "store",
                    "also_store", "forget", "unstore"},
            topic : Topics \cup {NoTopic}, other : Users \cup {Nobody},
            end : {"filter", "forget", "idle", "commit"}]
Idle == [step |-> "idle", topic |-> NoTopic, other |-> Nobody, end |-> "idle"]
For(step, t) == [Idle EXCEPT !.step = step, !.topic = t]

(* connections_[u], once add_connection and until remove_connection. *)
SocketsOf(u) == {s \in Sockets : Owner[s] = u /\ socket[s] \in {"opening", "open"}}
Connected(u) == SocketsOf(u) # {}

(* The transactions of create_post and create_offer hold a connection each.  *)
Transactions == {t \in PostTopics : row[t] = "open"}
Connections == PoolSize - Cardinality(Transactions)

Enqueue(cmd, u, T) == queue' = Append(queue, [cmd |-> cmd, user |-> u, topics |-> T])

-----------------------------------------------------------------------------
(* notification_websocket.cpp *)

HandleNewConnection(s) ==
    /\ socket[s] = "closed" /\ Len(queue) < MaxQueue
    /\ socket' = [socket EXCEPT ![s] = "opening"]
    /\ UNCHANGED <<subscribers, filter, tables, queue, request, history>>

(* The user is unsubscribing from the post t, and its row is still to go. *)
Unsubscribing(u, t) == request[u].topic = t /\ request[u].end = "forget"

SubscribeToExisting(s) ==
    /\ socket[s] = "opening"
    /\ socket' = [socket EXCEPT ![s] = "open"]
    /\ Enqueue("select", Owner[s], {})
    /\ revived' = revived \cup {w \in {Owner[s]} \X PostTopics : Unsubscribing(w[1], w[2])}
    /\ UNCHANGED <<subscribers, filter, tables, request, lost, missed>>

HandleConnectionClosed(s) ==
    /\ socket[s] = "open"
    /\ socket' = [socket EXCEPT ![s] = "closing"]
    /\ UNCHANGED <<subscribers, filter, tables, queue, request, history>>

(* Another user has put u into memory and not yet into the table. *)
BeingInvited(u) ==
    \E v \in Users : request[v].other = u /\ request[v].step \in {"store", "also_store"}

(* He himself or another has put u into memory, and not yet into the table. *)
BeingSubscribed(u, t) ==
    \/ request[u].topic = t /\ request[u].step \in {"also_remember", "store"}
    \/ \E v \in Users : /\ request[v].other = u /\ request[v].topic = t
                        /\ request[v].step \in {"store", "also_store"}

(* Mutation: what the user still has open is not looked at. *)
UnsubscribeAnyway(s) ==
    /\ socket[s] = "closing"
    /\ socket' = [socket EXCEPT ![s] = "closed"]
    /\ subscribers' = [t \in Topics |-> subscribers[t] \ {Owner[s]}]
    /\ UNCHANGED <<filter, tables, queue, request, history>>

(* The second lock of a closed connection: the user is forgotten unless      *)
(* another of his sockets is there.                                          *)
Unsubscribe(s) ==
    /\ socket[s] = "closing"
    /\ socket' = [socket EXCEPT ![s] = "closed"]
    /\ subscribers' = IF Connected(Owner[s]) THEN subscribers
                      ELSE [t \in Topics |-> subscribers[t] \ {Owner[s]}]
    /\ missed' = missed \cup {w \in {Owner[s]} \X Topics :
                                ~ Connected(w[1]) /\ BeingSubscribed(w[1], w[2])}
    /\ UNCHANGED <<filter, tables, queue, request, lost, revived>>

-----------------------------------------------------------------------------
(* community.cc *)

Begin(u, r) ==
    /\ request[u].step = "idle" /\ Len(queue) < MaxQueue
    /\ request' = [request EXCEPT ![u] = r]
    /\ UNCHANGED <<memory, stored, listed, history>>

Goto(u, step) == request' = [request EXCEPT ![u].step = step]
Done(u) == request' = [request EXCEPT ![u] = Idle]

(* The foreign key of post_subscriptions refuses what is not a post. *)
SubscribeToPost(u, t) ==
    /\ row[t] = "there"
    /\ Begin(u, [For("list", t) EXCEPT !.end = "filter"])
    /\ Enqueue("list", u, {t})
    /\ UNCHANGED row

(* Mutation: the topic is forgotten before the row is deleted. *)
UnsubscribeFromPostFirst(u, t) ==
    /\ Begin(u, For("forget", t))
    /\ Enqueue("unlist", u, {t})
    /\ UNCHANGED row

UnsubscribeFromPost(u, t) ==
    /\ Begin(u, [For("list", t) EXCEPT !.end = "forget"])
    /\ Enqueue("unlist", u, {t})
    /\ UNCHANGED row

SubscribeToEntity(u, t) ==
    /\ Begin(u, For("filter", t))
    /\ UNCHANGED <<row, queue>>

UnsubscribeFromEntity(u, t) ==
    /\ Begin(u, For("forget", t))
    /\ UNCHANGED <<row, queue>>

(* A transaction begins with a connection that runs no statement. *)
FreeConnection ==
    /\ Connections > 0
    /\ \A i \in DOMAIN queue : queue[i].cmd = "restore" => i < Connections

(* create_post and create_offer, with the INSERT of the row: they subscribe  *)
(* and answer before their transaction is over.                             *)
AutoSubscribe(u, t) ==
    /\ row[t] = "none" /\ FreeConnection
    /\ row' = [row EXCEPT ![t] = "open"]
    /\ Begin(u, [For("filter", t) EXCEPT !.end = "commit"])
    /\ UNCHANGED queue

(* The transaction ends with the handler: its row is there, or it was rolled *)
(* back and its id is not given again.                                      *)
EndTransaction(t) ==
    /\ row[t] = "open"
    /\ \A u \in Users : request[u].topic = t => request[u].end # "commit"
    /\ \E end \in {"there", "gone"} : row' = [row EXCEPT ![t] = end]
    /\ UNCHANGED <<memory, stored, listed, queue, request, history>>

(* create_conversation, once the participants are there. *)
CreateConversation(u, v, t) ==
    /\ row[t] = "none" /\ u # v
    /\ row' = [row EXCEPT ![t] = "there"]
    /\ Begin(u, [For("filter", t) EXCEPT !.other = v])
    /\ UNCHANGED queue

Filter(u) ==
    /\ request[u].step = "filter"
    /\ filter' = filter \cup {request[u].topic}
    /\ Goto(u, "remember")
    /\ UNCHANGED <<socket, subscribers, tables, queue, history>>

Remember(u) ==
    /\ request[u].step = "remember"
    /\ subscribers' = [subscribers EXCEPT ![request[u].topic] = @ \cup {u}]
    /\ Goto(u, IF request[u].other = Nobody THEN "store" ELSE "also_remember")
    /\ UNCHANGED <<socket, filter, tables, queue, history>>

(* Mutation: memory is for connected users only. *)
AlsoRememberIfConnected(u) ==
    /\ request[u].step = "also_remember"
    /\ subscribers' = IF Connected(request[u].other)
                      THEN [subscribers EXCEPT ![request[u].topic] = @ \cup {request[u].other}]
                      ELSE subscribers
    /\ Goto(u, "store")
    /\ UNCHANGED <<socket, filter, tables, queue, history>>

AlsoRemember(u) ==
    /\ request[u].step = "also_remember"
    /\ subscribers' = [subscribers EXCEPT ![request[u].topic] = @ \cup {request[u].other}]
    /\ Goto(u, "store")
    /\ UNCHANGED <<socket, filter, tables, queue, history>>

(* Mutation: the row is not stored when the user is already subscribed. *)
StoreIfConnected(u) ==
    /\ request[u].step = "store"
    /\ IF Connected(u) THEN Enqueue("store", u, {request[u].topic}) ELSE UNCHANGED queue
    /\ Done(u)
    /\ UNCHANGED <<memory, tables, history>>

(* Mutation: the topic was moved into the subscription before it is stored. *)
StoreMoved(u) ==
    /\ request[u].step = "store"
    /\ Enqueue("store", u, {NoTopic})
    /\ Done(u)
    /\ UNCHANGED <<memory, tables, history>>

Store(u) ==
    /\ request[u].step = "store"
    /\ Enqueue("store", u, {request[u].topic})
    /\ IF request[u].other = Nobody THEN Done(u) ELSE Goto(u, "also_store")
    /\ UNCHANGED <<memory, tables, history>>

AlsoStore(u) ==
    /\ request[u].step = "also_store"
    /\ Enqueue("store", request[u].other, {request[u].topic})
    /\ Done(u)
    /\ UNCHANGED <<memory, tables, history>>

Forget(u) ==
    /\ request[u].step = "forget"
    /\ subscribers' = [subscribers EXCEPT ![request[u].topic] = @ \ {u}]
    /\ Goto(u, "unstore")
    /\ UNCHANGED <<socket, filter, tables, queue, history>>

Unstore(u) ==
    /\ request[u].step = "unstore"
    /\ Enqueue("remove", u, {request[u].topic})
    /\ Done(u)
    /\ UNCHANGED <<memory, tables, history>>

-----------------------------------------------------------------------------
(* The database client gives each connection the next statement that waits: *)
(* the first of the queue run, as many as there are connections, and end in   *)
(* any order.                                                               *)

Running(i) == i \in 1 .. Len(queue) /\ i <= Connections

Pairs(c) == {c.user} \X c.topics

(* Listing answers the request that waits for it. *)
ExecuteListing(i) ==
    LET c == queue[i] IN
    /\ Running(i) /\ c.cmd \in {"list", "unlist"}
    /\ listed' = IF c.cmd = "list" THEN listed \cup Pairs(c) ELSE listed \ Pairs(c)
    /\ queue' = RemoveAt(queue, i)
    /\ request' = IF request[c.user].step = "list"
                  THEN [request EXCEPT ![c.user].step = request[c.user].end]
                  ELSE request
    /\ UNCHANGED <<memory, row, stored, history>>

ExecuteStored(i) ==
    LET c == queue[i] IN
    /\ Running(i) /\ c.cmd \in {"store", "remove"}
    /\ stored' = IF c.cmd = "store" THEN stored \cup Pairs(c) ELSE stored \ Pairs(c)
    /\ queue' = RemoveAt(queue, i)
    /\ UNCHANGED <<memory, row, listed, request, history>>

(* The connection that ran the SELECT runs its callback: it takes the next   *)
(* statement when every topic of the result is subscribed to.                *)
ExecuteSelect(i) ==
    LET c == queue[i] IN
    /\ Running(i) /\ c.cmd = "select"
    /\ queue' = [queue EXCEPT ![i].cmd = "restore",
                              ![i].topics = {t \in Topics : <<c.user, t>> \in stored}]
    /\ UNCHANGED <<memory, tables, request, history>>

(* Mutation: only the memory is restored. *)
RestoreUnfiltered(i) ==
    LET c == queue[i] IN
    /\ Running(i) /\ c.cmd = "restore"
    /\ \E t \in c.topics :
          /\ subscribers' = [subscribers EXCEPT ![t] = @ \cup {c.user}]
          /\ queue' = [queue EXCEPT ![i].topics = @ \ {t}]
    /\ UNCHANGED <<socket, filter, tables, request, history>>

Restore(i) ==
    LET c == queue[i] IN
    /\ Running(i) /\ c.cmd = "restore"
    /\ \E t \in c.topics :
          /\ filter' = filter \cup {t}
          /\ subscribers' = [subscribers EXCEPT ![t] = @ \cup {c.user}]
          /\ queue' = [queue EXCEPT ![i].topics = @ \ {t}]
    /\ UNCHANGED <<socket, tables, request, history>>

(* Mutation: the callback waits for a connection of its own. *)
RestoredNever(i) ==
    /\ Running(i) /\ queue[i].cmd = "restore" /\ queue[i].topics = {} /\ i > 1
    /\ queue' = RemoveAt(queue, i)
    /\ UNCHANGED <<memory, tables, request, history>>

Restored(i) ==
    /\ Running(i) /\ queue[i].cmd = "restore" /\ queue[i].topics = {}
    /\ queue' = RemoveAt(queue, i)
    /\ UNCHANGED <<memory, tables, request, history>>

(* A statement fails: the request that waits for it is answered with an     *)
(* error, and nobody hears of the others.                                   *)
Fail(i) ==
    LET c == queue[i] IN
    /\ Running(i) /\ c.cmd # "restore"
    /\ queue' = RemoveAt(queue, i)
    /\ lost' = lost \cup {c.user}
    /\ IF c.cmd \in {"list", "unlist"} /\ request[c.user].step = "list"
       THEN Done(c.user) ELSE UNCHANGED request
    /\ UNCHANGED <<memory, tables, missed, revived>>

(* Nothing of the user is under way: his requests are answered, his          *)
(* statements done, his sockets open or forgotten.                           *)
AtRest(u) ==
    /\ request[u].step = "idle" /\ ~ BeingInvited(u)
    /\ \A i \in DOMAIN queue : queue[i].user # u
    /\ \A s \in Sockets : Owner[s] = u => socket[s] \in {"closed", "open"}

(* The server stops and starts again: the tables are what is left, and with  *)
(* the memory go the races.                                                 *)
Restart ==
    /\ socket' = [s \in Sockets |-> "closed"]
    /\ subscribers' = [t \in Topics |-> {}]
    /\ filter' = {}
    /\ queue' = <<>>
    /\ request' = [u \in Users |-> Idle]
    /\ row' = [t \in DOMAIN row |-> IF row[t] = "open" THEN "gone" ELSE row[t]]
    /\ lost' = lost \cup {u \in Users : ~ AtRest(u)}
    /\ missed' = {} /\ revived' = {}
    /\ UNCHANGED <<stored, listed>>

-----------------------------------------------------------------------------
Init ==
    /\ row = [t \in PostTopics \cup ChatTopics |-> "none"]
    /\ socket = [s \in Sockets |-> "closed"]
    /\ subscribers = [t \in Topics |-> {}]
    /\ filter = {}
    /\ stored = {}
    /\ listed = {}
    /\ queue = <<>>
    /\ request = [u \in Users |-> Idle]
    /\ lost = {}
    /\ missed = {} /\ revived = {}

Client ==
    \/ \E s \in Sockets : HandleNewConnection(s) \/ HandleConnectionClosed(s)
    \/ \E u \in Users :
          \/ \E t \in PostTopics \cap AsksFor[u] :
                AutoSubscribe(u, t) \/ SubscribeToPost(u, t) \/ UnsubscribeFromPost(u, t)
          \/ \E t \in EntityTopics \cap AsksFor[u] :
                SubscribeToEntity(u, t) \/ UnsubscribeFromEntity(u, t)
          \/ \E v \in Users, t \in ChatTopics \cap AsksFor[u] : CreateConversation(u, v, t)

Execute(i) ==
    ExecuteListing(i) \/ ExecuteStored(i) \/ ExecuteSelect(i) \/ Restore(i) \/ Restored(i)

HandleSocket(s) == SubscribeToExisting(s) \/ Unsubscribe(s)
HandleRequest(u) ==
    \/ Filter(u) \/ Remember(u) \/ AlsoRemember(u) \/ Store(u) \/ AlsoStore(u)
    \/ Forget(u) \/ Unstore(u)

Next ==
    \/ Client
    \/ \E s \in Sockets : HandleSocket(s)
    \/ \E u \in Users : HandleRequest(u)
    \/ \E t \in PostTopics : EndTransaction(t)
    \/ \E i \in 1 .. PoolSize : Execute(i) \/ Fail(i)
    \/ Restart

Spec == Init /\ [][Next]_vars

(* The event loops run what is ready, and the database answers what it runs. *)
Fairness ==
    /\ \A s \in Sockets : WF_vars(HandleSocket(s))
    /\ \A u \in Users : WF_vars(HandleRequest(u))
    /\ \A t \in PostTopics : WF_vars(EndTransaction(t))
    /\ WF_vars(Execute(1))

FairSpec == Spec /\ Fairness

-----------------------------------------------------------------------------
(* Every variable holds rows, locals and labels of its kind. *)
TypeOK ==
    /\ row \in [PostTopics \cup ChatTopics -> {"none", "open", "there", "gone"}]
    /\ socket \in [Sockets -> {"closed", "opening", "open", "closing"}]
    /\ subscribers \in [Topics -> SUBSET Users]
    /\ filter \subseteq Topics
    /\ stored \subseteq Users \X Topics
    /\ listed \subseteq Users \X Topics
    /\ queue \in Seq(Command)
    /\ request \in [Users -> Request]
    /\ lost \subseteq Users
    /\ missed \subseteq Users \X Topics
    /\ revived \subseteq Users \X PostTopics

(* An event of a topic somebody is subscribed to is never filtered out:      *)
(* every way to subscribe, and every restored connection, sets the filter    *)
(* of the SUB socket first.                                                  *)
FilterCovers == \A t \in Topics : subscribers[t] # {} => t \in filter

(* With the topic a request is about to subscribe to, this is inductive. *)
FilterIInv ==
    /\ FilterCovers
    /\ subscribers = [t \in Topics |-> subscribers[t]]
    /\ request \in [Users -> Request]
    /\ \A u \in Users :
          /\ request[u].step \in {"remember", "also_remember"} => request[u].topic \in filter
          /\ request[u].step = "list" => request[u].end \in {"filter", "forget"}

(* A user who is connected is subscribed to everything he stored, in whatever *)
(* order the close handler, the restoring statement, his requests from any     *)
(* device and the invitations of others met.  Two things the code does not    *)
(* prevent are excused: a statement of his that failed, and a topic that was   *)
(* put into memory, forgotten there with his last socket, and only then       *)
(* stored, so that a socket which opened in between did not read it.          *)
NoLostSubscription ==
    \A u \in Users : AtRest(u) /\ Connected(u) /\ u \notin lost =>
        \A t \in Topics :
            <<u, t>> \in stored /\ <<u, t>> \notin missed => u \in subscribers[t]

(* A post a user is listed to be subscribed to is among those that a new     *)
(* connection restores.                                                      *)
ListedIsStored ==
    \A u \in Users : AtRest(u) /\ u \notin lost =>
        \A t \in PostTopics : <<u, t>> \in listed => <<u, t>> \in stored

(* A post a user unsubscribed from stays unsubscribed from: no restoring     *)
(* statement that waited or ran when he asked puts it back into memory later.  *)
(* Excused, beside failures, are the posts he was unsubscribing from when      *)
(* another socket of his opened: its SELECT runs between the two DELETEs, and  *)
(* its callback may come after the post is forgotten.                         *)
UnsubscribedFromPost ==
    \A u \in Users : AtRest(u) /\ u \notin lost =>
        \A t \in PostTopics :
            u \in subscribers[t] /\ <<u, t>> \notin revived => <<u, t>> \in stored

(* Every request is answered: no statement waits for ever behind another,    *)
(* not even behind the callback that restores a connection.                  *)
EveryRequestAnswered ==
    \A u \in Users : (request[u].step # "idle") ~> (request[u].step = "idle")

=============================================================================
