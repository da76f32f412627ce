------------------------- MODULE SubscriptionsProofs -------------------------
(***************************************************************************)
(* The filter of the SUB socket covers the subscriptions in memory, whatever *)
(* the pool.  With one connection to the database, which runs the statements *)
(* in the order they were enqueued: what is listed will be stored, what is    *)
(* stored of a connected user is or will be in memory, and a post that is in  *)
(* memory will be stored.                                                    *)
(***************************************************************************)
EXTENDS Subscriptions, SequenceTheorems, FiniteSetTheorems, TLAPS

(* No topic has a subscriber when the server starts. *)
LEMMA InitFilter == Init => FilterIInv
  BY DEF Init, FilterIInv, FilterCovers, Request, Idle

(* Subscribing sets the filter first, and nothing clears it but a restart. *)
LEMMA NextFilter == FilterIInv /\ [Next]_vars => FilterIInv'
<1> SUFFICES ASSUME FilterIInv, [Next]_vars PROVE FilterIInv'
  OBVIOUS
<1> USE DEF FilterIInv, FilterCovers, Request
<1>1. ASSUME NEW s \in Sockets, HandleNewConnection(s) PROVE FilterIInv'
  BY <1>1 DEF HandleNewConnection
<1>2. ASSUME NEW s \in Sockets, HandleConnectionClosed(s) PROVE FilterIInv'
  BY <1>2 DEF HandleConnectionClosed
<1>3. ASSUME NEW s \in Sockets, SubscribeToExisting(s) PROVE FilterIInv'
  BY <1>3 DEF SubscribeToExisting
<1>4. ASSUME NEW s \in Sockets, Unsubscribe(s) PROVE FilterIInv'
  BY <1>4 DEF Unsubscribe
<1>5. ASSUME NEW u \in Users, NEW r \in Request, Begin(u, r),
             r.step \notin {"remember", "also_remember"},
             r.step = "list" => r.end \in {"filter", "forget"}
      PROVE FilterIInv'
  BY <1>5 DEF Begin, memory
<1> USE DEF For, Idle
<1>6. ASSUME NEW u \in Users, NEW t \in PostTopics,
             AutoSubscribe(u, t) \/ SubscribeToPost(u, t) \/ UnsubscribeFromPost(u, t)
      PROVE FilterIInv'
  BY <1>5, <1>6 DEF AutoSubscribe, SubscribeToPost, UnsubscribeFromPost, Topics
<1>7. ASSUME NEW u \in Users, NEW t \in EntityTopics,
             SubscribeToEntity(u, t) \/ UnsubscribeFromEntity(u, t)
      PROVE FilterIInv'
  BY <1>5, <1>7 DEF SubscribeToEntity, UnsubscribeFromEntity, Topics
<1>71. ASSUME NEW u \in Users, NEW v \in Users, NEW t \in ChatTopics,
              CreateConversation(u, v, t)
       PROVE FilterIInv'
  BY <1>5, <1>71 DEF CreateConversation, Topics
<1>72. ASSUME NEW t \in PostTopics, EndTransaction(t) PROVE FilterIInv'
  BY <1>72 DEF EndTransaction, memory
<1>8. ASSUME NEW u \in Users, Filter(u) PROVE FilterIInv'
  BY <1>8 DEF Filter, Goto
<1>9. ASSUME NEW u \in Users, Remember(u) PROVE FilterIInv'
  <2>1. /\ \/ request' = [request EXCEPT ![u].step = "store"]
           \/ request' = [request EXCEPT ![u].step = "also_remember"]
        /\ request[u].step = "remember" /\ UNCHANGED filter
        /\ subscribers' = [subscribers EXCEPT ![request[u].topic] = @ \cup {u}]
    BY <1>9 DEF Remember, Goto
  <2>2. request' \in [Users -> Request]
    BY <2>1
  <2>3. \A v \in Users :
           /\ request'[v].step \in {"remember", "also_remember"} => request'[v].topic \in filter
           /\ request'[v].step = "list" => request'[v].end \in {"filter", "forget"}
    BY <2>1
  <2>4. /\ \A t \in Topics : subscribers'[t] # {} => t \in filter
        /\ subscribers' = [t \in Topics |-> subscribers'[t]]
    BY <2>1
  <2> QED BY <2>1, <2>2, <2>3, <2>4
<1>91. ASSUME NEW u \in Users, AlsoRemember(u) PROVE FilterIInv'
  BY <1>91 DEF AlsoRemember, Goto
<1>10. ASSUME NEW u \in Users, Store(u) PROVE FilterIInv'
  <2>1. /\ \/ request' = [request EXCEPT ![u] = Idle]
           \/ request' = [request EXCEPT ![u].step = "also_store"]
        /\ UNCHANGED <<subscribers, filter>>
    BY <1>10 DEF Store, Done, Goto, memory
  <2> QED BY <2>1
<1>101. ASSUME NEW u \in Users, AlsoStore(u) PROVE FilterIInv'
  <2>1. request' = [request EXCEPT ![u] = Idle] /\ UNCHANGED <<subscribers, filter>>
    BY <1>101 DEF AlsoStore, Done, memory
  <2>2. request' \in [Users -> Request]
    BY <2>1
  <2> QED BY <2>1, <2>2
<1>11. ASSUME NEW u \in Users, Forget(u) PROVE FilterIInv'
  BY <1>11 DEF Forget, Goto
<1>12. ASSUME NEW u \in Users, Unstore(u) PROVE FilterIInv'
  BY <1>12 DEF Unstore, Done, memory
<1>13. ASSUME NEW i \in 1 .. PoolSize, ExecuteListing(i) PROVE FilterIInv'
  <2> DEFINE v == queue[i].user
  <2>1. UNCHANGED <<subscribers, filter>>
    BY <1>13 DEF ExecuteListing, memory
  <2>2. \/ UNCHANGED request
        \/ request[v].step = "list" /\ request' = [request EXCEPT ![v].step = request[v].end]
    BY <1>13 DEF ExecuteListing
  <2>3. ASSUME NEW u \in Users
        PROVE request'[u] \in Request
                /\ (request'[u].step \in {"remember", "also_remember", "list"} => request'[u] = request[u])
    BY <2>2
  <2>4. request' \in [Users -> Request]
    BY <2>2, <2>3
  <2> QED BY <2>1, <2>3, <2>4
<1>14. ASSUME NEW i \in 1 .. PoolSize, ExecuteStored(i) PROVE FilterIInv'
  BY <1>14 DEF ExecuteStored, memory
<1>15. ASSUME NEW i \in 1 .. PoolSize, ExecuteSelect(i) PROVE FilterIInv'
  BY <1>15 DEF ExecuteSelect, memory
<1>16. ASSUME NEW i \in 1 .. PoolSize, Restore(i) PROVE FilterIInv'
  <2>1. PICK t \in queue[i].topics :
           /\ filter' = filter \cup {t}
           /\ subscribers' = [subscribers EXCEPT ![t] = @ \cup {queue[i].user}]
    BY <1>16 DEF Restore
  <2>2. UNCHANGED request
    BY <1>16 DEF Restore
  <2> QED BY <2>1, <2>2
<1>17. ASSUME NEW i \in 1 .. PoolSize, Restored(i) PROVE FilterIInv'
  BY <1>17 DEF Restored, memory
<1>18. ASSUME NEW i \in 1 .. PoolSize, Fail(i) PROVE FilterIInv'
  BY <1>18 DEF Fail, Done, memory
<1>19. CASE Restart
  BY <1>19 DEF Restart
<1>20. CASE UNCHANGED vars
  BY <1>20 DEF vars, memory
<1> QED
  BY <1>1, <1>2, <1>3, <1>4, <1>6, <1>7, <1>71, <1>72, <1>8, <1>9, <1>91, <1>10,
     <1>101, <1>11, <1>12, <1>13, <1>14, <1>15, <1>16, <1>17, <1>18, <1>19, <1>20
     DEF Next, Client, Execute, HandleSocket, HandleRequest

(* An event of a topic somebody is subscribed to is never filtered out, for  *)
(* any number of users, sockets and topics, and any pool.                    *)
THEOREM FilterCoversAlways == Spec => []FilterCovers
<1>1. FilterIInv => FilterCovers
  BY DEF FilterIInv
<1> QED BY InitFilter, NextFilter, <1>1, PTL DEF Spec

-----------------------------------------------------------------------------
(* Statements of a user, and what they do to a row of his. *)
Lists(c, u) == c.user = u /\ c.cmd \in {"list", "unlist"}
Reads(c, u) == c.user = u /\ c.cmd \in {"select", "restore"}
Stores(c, u, t) == c.user = u /\ c.cmd = "store" /\ t \in c.topics
Removes(c, u, t) == c.user = u /\ c.cmd = "remove" /\ t \in c.topics

(* Is the row there, once the first k statements of q are done? *)
StoredAfter(q, k, st, u, t) ==
    \/ \E i \in 1 .. k : Stores(q[i], u, t) /\ \A j \in 1 .. k : Removes(q[j], u, t) => j < i
    \/ <<u, t>> \in st /\ \A j \in 1 .. k : ~ Removes(q[j], u, t)

(* Is it there, once the request r of the user has also done its part? *)
Storing(r, t) == r.topic = t /\ r.step \in {"filter", "remember", "also_remember", "store"}
Removing(r, t) == r.topic = t /\ r.step \in {"forget", "unstore"}
WillBeStored(q, st, r, u, t) ==
    \/ Storing(r, t)
    \/ ~ Removing(r, t) /\ StoredAfter(q, Len(q), st, u, t)

(* Will the statement c put the row into memory, with the row there or not   *)
(* when it is read?                                                         *)
Restores(c, there, u, t) ==
    Reads(c, u) /\ (c.cmd = "restore" => t \in c.topics) /\ (c.cmd = "select" => there)
RestoredBy(q, st, u, t) ==
    \E i \in 1 .. Len(q) : Restores(q[i], StoredAfter(q, i - 1, st, u, t), u, t)

(* What requests are about. *)
RequestOK(r) ==
    /\ r.step # "idle" => r.topic \in Topics
    /\ r.step = "list" => r.topic \in PostTopics /\ r.end \in {"filter", "forget"}
    /\ r.step \in {"forget", "unstore"} =>
          r.topic \notin ChatTopics /\ (r.topic \in PostTopics => r.end = "forget")
    /\ r.step \in {"also_remember", "also_store"} => r.other \in Users
    /\ r.other # Nobody => r.topic \in ChatTopics
RequestInv == \A u \in Users : RequestOK(request[u])

(* The callback that restores a connection is at the head, and its rows are  *)
(* still there.                                                             *)
RestoreInv ==
    \A i \in DOMAIN queue : queue[i].cmd = "restore" =>
        i = 1 /\ \A t \in queue[i].topics : <<queue[i].user, t>> \in stored

(* A request that waits for a listing has one statement in the queue, and    *)
(* nothing else waits for one.  If it unsubscribes, and no socket has opened  *)
(* since, everything that reads the rows of the user is before it.           *)
ListingOf(q, r, rev, u) ==
    \A i \in DOMAIN q : Lists(q[i], u) =>
        /\ r.step = "list" /\ q[i].topics = {r.topic}
        /\ r.end = IF q[i].cmd = "list" THEN "filter" ELSE "forget"
        /\ \A j \in DOMAIN q : Lists(q[j], u) => j = i
        /\ r.end = "forget" /\ <<u, r.topic>> \notin rev =>
              \A j \in DOMAIN q : Reads(q[j], u) => j < i
ListingInv == \A u \in Users \ lost : ListingOf(queue, request[u], revived, u)

(* Nothing is restored while a request is under way that forgets a post, nor *)
(* is a post removed behind what is read, but for the posts in rev.          *)
ReadsFirst(q, r, rev, u) ==
    \A i \in DOMAIN q, t \in PostTopics : Reads(q[i], u) /\ <<u, t>> \notin rev =>
        ~ Removing(r, t) /\ \A j \in DOMAIN q : i < j => ~ Removes(q[j], u, t)
ReadsInv == \A u \in Users \ lost : ReadsFirst(queue, request[u], revived, u)

(* What is listed will be stored. *)
ListedInv ==
    \A u \in Users \ lost, t \in PostTopics :
        <<u, t>> \in listed => WillBeStored(queue, stored, request[u], u, t)

(* A post in memory will be stored, unless it is about to be forgotten or a  *)
(* socket opened while its user unsubscribed from it.                        *)
MemoryInv ==
    \A u \in Users \ lost, t \in PostTopics : u \in subscribers[t] =>
        \/ <<u, t>> \in revived
        \/ WillBeStored(queue, stored, request[u], u, t)
        \/ request[u].topic = t /\ request[u].step = "forget"

(* Whoever is being subscribed is in memory, unless he was forgotten since.  *)
SubscribedInv ==
    \A u \in Users, t \in Topics :
        BeingSubscribed(u, t) => u \in subscribers[t] \/ <<u, t>> \in missed

(* What will be stored of a connected user is in memory, or a socket that     *)
(* opens, a statement or a request will put it there.                        *)
Opening(u) == \E s \in Sockets : Owner[s] = u /\ socket[s] = "opening"
Remembering(r, t) == r.topic = t /\ r.step \in {"filter", "remember"}
ConnectedInv ==
    \A u \in Users \ lost, t \in Topics :
        Connected(u) /\ WillBeStored(queue, stored, request[u], u, t) =>
            \/ u \in subscribers[t]
            \/ <<u, t>> \in missed
            \/ Opening(u)
            \/ RestoredBy(queue, stored, u, t)
            \/ Remembering(request[u], t)

(* With one connection to the database this is inductive. *)
IInv ==
    /\ TypeOK /\ RequestInv /\ RestoreInv /\ ListingInv /\ ReadsInv
    /\ ListedInv /\ MemoryInv /\ SubscribedInv /\ ConnectedInv

-----------------------------------------------------------------------------
(* A statement more, one less, or another in its place. *)
Longer(p, q, c) ==
    /\ p \in Seq(Command) /\ Len(p) = Len(q) + 1 /\ Len(q) \in Nat
    /\ DOMAIN p = 1 .. Len(p) /\ DOMAIN q = 1 .. Len(q)
    /\ \A i \in 1 .. Len(q) : p[i] = q[i]
    /\ p[Len(q) + 1] = c
Without(p, q, k) ==
    /\ p \in Seq(Command) /\ Len(q) = Len(p) + 1 /\ Len(p) \in Nat
    /\ DOMAIN p = 1 .. Len(p) /\ DOMAIN q = 1 .. Len(q)
    /\ \A i \in 1 .. Len(p) : p[i] = IF i < k THEN q[i] ELSE q[i + 1]

LEMMA AppendIsLonger ==
    ASSUME NEW q \in Seq(Command), NEW c \in Command
    PROVE  Longer(Append(q, c), q, c)
BY AppendProperties DEF Longer

LEMMA RemoveAtIsWithout ==
    ASSUME NEW q \in Seq(Command), NEW k \in 1 .. Len(q)
    PROVE  Without(RemoveAt(q, k), q, k)
<1> DEFINE a == SubSeq(q, 1, k - 1)  b == SubSeq(q, k + 1, Len(q))  p == a \o b
<1>1. Len(q) \in Nat /\ k \in Nat /\ k >= 1 /\ k <= Len(q)
    OBVIOUS
<1>2. /\ a \in Seq(Command) /\ Len(a) = k - 1
      /\ \A i \in 1 .. k - 1 : a[i] = q[i]
    BY <1>1, SubSeqProperties
<1>3. /\ b \in Seq(Command) /\ Len(b) = Len(q) - k
      /\ \A i \in 1 .. Len(q) - k : b[i] = q[i + k]
    BY <1>1, SubSeqProperties
<1> HIDE DEF a, b
<1>4. /\ p \in Seq(Command) /\ Len(p) = Len(a) + Len(b)
      /\ \A i \in 1 .. Len(a) + Len(b) : p[i] = IF i <= Len(a) THEN a[i] ELSE b[i - Len(a)]
    BY <1>2, <1>3, ConcatProperties
<1> HIDE DEF p
<1>5. Len(p) = Len(q) - 1 /\ Len(p) \in Nat
    BY <1>1, <1>2, <1>3, <1>4
<1>6. ASSUME NEW i \in 1 .. Len(p) PROVE p[i] = IF i < k THEN q[i] ELSE q[i + 1]
    <2>1. CASE i < k
        <3>1. i \in 1 .. k - 1 /\ i <= Len(a) /\ i \in 1 .. Len(a) + Len(b)
            BY <1>1, <1>2, <1>4, <2>1
        <3> QED
            BY <1>2, <1>4, <2>1, <3>1
    <2>2. CASE ~ (i < k)
        <3>1. /\ i - Len(a) \in 1 .. Len(q) - k /\ ~ (i <= Len(a)) /\ i \in 1 .. Len(a) + Len(b)
              /\ (i - Len(a)) + k = i + 1
            BY <1>1, <1>2, <1>4, <1>5, <2>2
        <3>2. p[i] = b[i - Len(a)]
            BY <1>4, <3>1
        <3>3. b[i - Len(a)] = q[(i - Len(a)) + k]
            BY <1>3, <3>1
        <3> QED
            BY <2>2, <3>1, <3>2, <3>3
    <2> QED
        BY <2>1, <2>2
<1>7. Without(p, q, k)
    BY <1>1, <1>4, <1>5, <1>6 DEF Without
<1> QED
    BY <1>7 DEF p, a, b, RemoveAt

-----------------------------------------------------------------------------
(* What the actions do to the queue and to the requests, whoever runs them.  *)
LEMMA RequestsTyped ==
    /\ Idle \in Request
    /\ \A t \in Topics :
          /\ For("forget", t) \in Request /\ For("filter", t) \in Request
          /\ [For("list", t) EXCEPT !.end = "filter"] \in Request
          /\ [For("list", t) EXCEPT !.end = "forget"] \in Request
          /\ [For("filter", t) EXCEPT !.end = "commit"] \in Request
          /\ \A v \in Users : [For("filter", t) EXCEPT !.other = v] \in Request
BY DEF Request, Idle, For

(* A request that begins is about a topic of its kind. *)
LEMMA RequestsBeginOK ==
    /\ RequestOK(Idle)
    /\ \A t \in PostTopics :
          /\ RequestOK([For("list", t) EXCEPT !.end = "filter"])
          /\ RequestOK([For("list", t) EXCEPT !.end = "forget"])
          /\ RequestOK([For("filter", t) EXCEPT !.end = "commit"])
    /\ \A t \in EntityTopics : RequestOK(For("forget", t)) /\ RequestOK(For("filter", t))
    /\ \A t \in ChatTopics, v \in Users : RequestOK([For("filter", t) EXCEPT !.other = v])
BY TopicsAssumption DEF RequestOK, Idle, For, Topics

(* A request that begins changes nothing else but the queue and the rows. *)
Becomes(u, r) ==
    /\ request' \in [Users -> Request] /\ request'[u] = r
    /\ \A v \in Users \ {u} : request'[v] = request[v]
LEMMA RequestBegins ==
    ASSUME TypeOK, NEW u \in Users, NEW r \in Request, Begin(u, r)
    PROVE  /\ Becomes(u, r) /\ request[u].step = "idle"
           /\ UNCHANGED <<socket, subscribers, filter, stored, listed, lost, missed, revived>>
BY DEF Begin, memory, history, TypeOK, Becomes

Rows == [PostTopics \cup ChatTopics -> {"none", "open", "there", "gone"}]

LEMMA BeginTyped ==
    ASSUME TypeOK, RequestInv, NEW u \in Users, NEW r \in Request, Begin(u, r), RequestOK(r),
           queue' \in Seq(Command), row' \in Rows
    PROVE  TypeOK' /\ RequestInv'
<1>1. /\ Becomes(u, r) /\ UNCHANGED <<socket, subscribers, filter, stored, listed, lost, missed, revived>>
    BY RequestBegins
<1>2. TypeOK'
    BY <1>1 DEF TypeOK, Becomes, Rows
<1>3. RequestInv'
    BY <1>1 DEF RequestInv, Becomes
<1> QED
    BY <1>2, <1>3

(* A request that goes on, or ends. *)
Step == {"idle", "list", "filter", "remember", "also_remember", "store", "also_store",
         "forget", "unstore"}
LEMMA RequestEnds ==
    ASSUME TypeOK, NEW u \in Users, Done(u)
    PROVE  Becomes(u, Idle)
BY RequestsTyped DEF Done, TypeOK, Becomes

LEMMA RequestGoesOn ==
    ASSUME TypeOK, NEW u \in Users, NEW step \in Step, Goto(u, step)
    PROVE  /\ Becomes(u, [request[u] EXCEPT !.step = step])
           /\ request'[u].step = step /\ request'[u].topic = request[u].topic
           /\ request'[u].other = request[u].other /\ request'[u].end = request[u].end
<1> DEFINE r == [request[u] EXCEPT !.step = step]
<1>1. request[u] \in Request
    BY DEF TypeOK
<1>2. /\ r \in Request /\ r.step = step /\ r.topic = request[u].topic
      /\ r.other = request[u].other /\ r.end = request[u].end
    BY <1>1 DEF Request, Step
<1>3. request' = [request EXCEPT ![u] = r]
    BY DEF Goto
<1> HIDE DEF r
<1>4. Becomes(u, r)
    BY <1>2, <1>3 DEF TypeOK, Becomes
<1>5. request'[u] = r
    BY <1>4 DEF Becomes
<1> QED
    BY <1>2, <1>4, <1>5 DEF r

(* A statement is enqueued. *)
LEMMA EnqueueLengthens ==
    ASSUME TypeOK, NEW u \in Users, NEW T \in SUBSET Topics,
           NEW cmd \in {"list", "unlist", "store", "remove", "select", "restore"},
           Enqueue(cmd, u, T)
    PROVE  /\ Longer(queue', queue, [cmd |-> cmd, user |-> u, topics |-> T])
           /\ queue' \in Seq(Command)
<1> DEFINE c == [cmd |-> cmd, user |-> u, topics |-> T]
<1>1. c \in Command /\ queue \in Seq(Command)
    BY DEF Command, TypeOK
<1>2. queue' = Append(queue, c)
    BY DEF Enqueue
<1> HIDE DEF c
<1>3. Longer(Append(queue, c), queue, c)
    BY <1>1, AppendIsLonger
<1>4. Longer(queue', queue, c)
    BY <1>2, <1>3
<1>5. queue' \in Seq(Command)
    BY <1>4 DEF Longer
<1> QED
    BY <1>4, <1>5 DEF c

(* A statement that runs is one of the queue. *)
LEMMA RunningStatement ==
    ASSUME TypeOK, NEW i, Running(i)
    PROVE  i \in DOMAIN queue /\ i \in 1 .. Len(queue) /\ queue[i] \in Command
BY DEF Running, TypeOK

(* It ends. *)
LEMMA StatementEnds ==
    ASSUME TypeOK, NEW i, Running(i), queue' = RemoveAt(queue, i)
    PROVE  Without(queue', queue, i) /\ queue' \in Seq(Command)
<1>1. queue \in Seq(Command) /\ i \in 1 .. Len(queue)
    BY RunningStatement DEF TypeOK
<1>2. Without(RemoveAt(queue, i), queue, i)
    BY <1>1, RemoveAtIsWithout
<1>3. Without(queue', queue, i)
    BY <1>2
<1> QED
    BY <1>3 DEF Without

(* It is another statement of the same user from now on. *)
LEMMA StatementChanges ==
    ASSUME TypeOK, NEW i, Running(i), NEW c \in Command, queue' = [queue EXCEPT ![i] = c]
    PROVE  /\ queue' \in Seq(Command) /\ Len(queue') = Len(queue) /\ Len(queue) \in Nat
           /\ DOMAIN queue' = 1 .. Len(queue) /\ DOMAIN queue = 1 .. Len(queue)
           /\ \A j \in 1 .. Len(queue) : queue'[j] = IF j = i THEN c ELSE queue[j]
<1>1. queue \in Seq(Command) /\ i \in 1 .. Len(queue) /\ i \in DOMAIN queue
    BY RunningStatement DEF TypeOK
<1> QED
    BY <1>1, ExceptSeq

(* Every step keeps the types, whatever the pool. *)
LEMMA NextTyped == TypeOK /\ RequestInv /\ [Next]_vars => TypeOK' /\ RequestInv'
<1> SUFFICES ASSUME TypeOK, RequestInv, [Next]_vars PROVE TypeOK' /\ RequestInv'
    OBVIOUS
<1>1. ASSUME NEW s \in Sockets, HandleNewConnection(s) \/ HandleConnectionClosed(s)
      PROVE  TypeOK' /\ RequestInv'
    <2>1. /\ socket' \in [Sockets -> {"closed", "opening", "open", "closing"}]
          /\ UNCHANGED <<subscribers, filter, row, stored, listed, queue, request, lost, missed, revived>>
        BY <1>1 DEF HandleNewConnection, HandleConnectionClosed, tables, history, TypeOK
    <2> QED
        BY <2>1 DEF TypeOK, RequestInv
<1>2. ASSUME NEW s \in Sockets, SubscribeToExisting(s) PROVE TypeOK' /\ RequestInv'
    <2>1. /\ socket' \in [Sockets -> {"closed", "opening", "open", "closing"}]
          /\ UNCHANGED <<subscribers, filter, row, stored, listed, request, lost, missed>>
          /\ Enqueue("select", Owner[s], {})
        BY <1>2 DEF SubscribeToExisting, tables, TypeOK
    <2>2. queue' \in Seq(Command)
        <3>1. Owner[s] \in Users
            BY OwnerAssumption
        <3> QED
            BY <2>1, <3>1, EnqueueLengthens
    <2>3. revived' \subseteq Users \X PostTopics
        BY <1>2, OwnerAssumption DEF SubscribeToExisting, TypeOK
    <2> QED
        BY <2>1, <2>2, <2>3 DEF TypeOK, RequestInv
<1>3. ASSUME NEW s \in Sockets, Unsubscribe(s) PROVE TypeOK' /\ RequestInv'
    <2>1. Owner[s] \in Users
        BY OwnerAssumption
    <2>2. /\ socket' = [socket EXCEPT ![s] = "closed"]
          /\ subscribers' = subscribers
             \/ subscribers' = [t \in Topics |-> subscribers[t] \ {Owner[s]}]
          /\ missed' \subseteq missed \cup ({Owner[s]} \X Topics)
          /\ UNCHANGED <<filter, row, stored, listed, queue, request, lost, revived>>
        BY <1>3 DEF Unsubscribe, tables
    <2> QED
        BY <2>1, <2>2 DEF TypeOK, RequestInv
<1>4. ASSUME NEW u \in Users, NEW t \in PostTopics,
             AutoSubscribe(u, t) \/ SubscribeToPost(u, t) \/ UnsubscribeFromPost(u, t)
      PROVE  TypeOK' /\ RequestInv'
    <2>1. t \in Topics
        BY DEF Topics
    <2>2. CASE AutoSubscribe(u, t)
        <3>1. /\ Begin(u, [For("filter", t) EXCEPT !.end = "commit"])
              /\ queue' \in Seq(Command) /\ row' \in Rows
            BY <2>2 DEF AutoSubscribe, TypeOK, Rows
        <3> QED
            BY <2>1, <3>1, RequestsTyped, RequestsBeginOK, BeginTyped
    <2>3. CASE SubscribeToPost(u, t)
        <3>1. /\ Begin(u, [For("list", t) EXCEPT !.end = "filter"]) /\ Enqueue("list", u, {t})
              /\ row' \in Rows
            BY <2>3 DEF SubscribeToPost, TypeOK, Rows
        <3>2. queue' \in Seq(Command)
            BY <2>1, <3>1, EnqueueLengthens
        <3> QED
            BY <2>1, <3>1, <3>2, RequestsTyped, RequestsBeginOK, BeginTyped
    <2>4. CASE UnsubscribeFromPost(u, t)
        <3>1. /\ Begin(u, [For("list", t) EXCEPT !.end = "forget"]) /\ Enqueue("unlist", u, {t})
              /\ row' \in Rows
            BY <2>4 DEF UnsubscribeFromPost, TypeOK, Rows
        <3>2. queue' \in Seq(Command)
            BY <2>1, <3>1, EnqueueLengthens
        <3> QED
            BY <2>1, <3>1, <3>2, RequestsTyped, RequestsBeginOK, BeginTyped
    <2> QED
        BY <1>4, <2>2, <2>3, <2>4
<1>5. ASSUME NEW u \in Users, NEW t \in EntityTopics,
             SubscribeToEntity(u, t) \/ UnsubscribeFromEntity(u, t)
      PROVE  TypeOK' /\ RequestInv'
    <2>1. t \in Topics /\ queue' \in Seq(Command) /\ row' \in Rows
        BY <1>5 DEF Topics, SubscribeToEntity, UnsubscribeFromEntity, TypeOK, Rows
    <2>2. Begin(u, For("filter", t)) \/ Begin(u, For("forget", t))
        BY <1>5 DEF SubscribeToEntity, UnsubscribeFromEntity
    <2> QED
        BY <2>1, <2>2, RequestsTyped, RequestsBeginOK, BeginTyped
<1>6. ASSUME NEW u \in Users, NEW v \in Users, NEW t \in ChatTopics, CreateConversation(u, v, t)
      PROVE  TypeOK' /\ RequestInv'
    <2>1. /\ t \in Topics /\ queue' \in Seq(Command) /\ row' \in Rows
          /\ Begin(u, [For("filter", t) EXCEPT !.other = v])
        BY <1>6 DEF Topics, CreateConversation, TypeOK, Rows
    <2> QED
        BY <2>1, RequestsTyped, RequestsBeginOK, BeginTyped
<1>61. ASSUME NEW t \in PostTopics, EndTransaction(t) PROVE TypeOK' /\ RequestInv'
    <2>1. /\ row' \in Rows
          /\ UNCHANGED <<socket, subscribers, filter, stored, listed, queue, request, lost, missed, revived>>
        BY <1>61 DEF EndTransaction, memory, history, TypeOK, Rows
    <2> QED
        BY <2>1 DEF TypeOK, RequestInv, Rows
<1>7. ASSUME NEW u \in Users, HandleRequest(u) PROVE TypeOK' /\ RequestInv'
    <2> DEFINE r == request[u]
    <2>1. r \in Request /\ RequestOK(r) /\ (r.step # "idle" => r.topic \in Topics)
        BY DEF TypeOK, RequestInv, RequestOK
    <2>2. ASSUME NEW step \in Step, Goto(u, step), r.step # "idle",
                 step = "forget" => r.step = "forget",
                 step = "unstore" => r.step = "forget", step # "list",
                 step \in {"also_remember", "also_store"} => r.other # Nobody
          PROVE  request' \in [Users -> Request] /\ RequestInv'
        <3>1. /\ Becomes(u, [r EXCEPT !.step = step])
              /\ request'[u].step = step /\ request'[u].topic = r.topic
              /\ request'[u].other = r.other /\ request'[u].end = r.end
            BY <2>2, RequestGoesOn
        <3>2. RequestOK(request'[u])
            BY <2>1, <2>2, <3>1 DEF RequestOK, Request
        <3>3. \A v \in Users \ {u} : request'[v] = request[v]
            BY <3>1 DEF Becomes
        <3>4. \A v \in Users : RequestOK(request'[v])
            BY <3>2, <3>3 DEF RequestInv
        <3>5. RequestInv'
            BY <3>4 DEF RequestInv
        <3> QED
            BY <3>1, <3>5 DEF Becomes
    <2>3. ASSUME Done(u) PROVE request' \in [Users -> Request] /\ RequestInv'
        <3>1. Becomes(u, Idle)
            BY <2>3, RequestEnds
        <3> QED
            BY <3>1, RequestsBeginOK DEF Becomes, RequestInv
    <2>4. CASE Filter(u)
        <3>1. /\ filter' = filter \cup {r.topic} /\ r.step = "filter" /\ Goto(u, "remember")
              /\ UNCHANGED <<socket, subscribers, row, stored, listed, queue, lost, missed, revived>>
            BY <2>4 DEF Filter, tables, history
        <3> QED
            BY <2>1, <2>2, <3>1 DEF TypeOK, Step
    <2>5. CASE Remember(u)
        <3>1. /\ subscribers' = [subscribers EXCEPT ![r.topic] = @ \cup {u}] /\ r.step = "remember"
              /\ Goto(u, IF r.other = Nobody THEN "store" ELSE "also_remember")
              /\ UNCHANGED <<socket, filter, row, stored, listed, queue, lost, missed, revived>>
            BY <2>5 DEF Remember, tables, history
        <3> QED
            BY <2>1, <2>2, <3>1 DEF TypeOK, Step
    <2>6. CASE AlsoRemember(u)
        <3>1. /\ subscribers' = [subscribers EXCEPT ![r.topic] = @ \cup {r.other}]
              /\ r.step = "also_remember" /\ Goto(u, "store")
              /\ UNCHANGED <<socket, filter, row, stored, listed, queue, lost, missed, revived>>
            BY <2>6 DEF AlsoRemember, tables, history
        <3>2. r.other \in Users
            BY <2>1, <3>1 DEF RequestOK
        <3> QED
            BY <2>1, <2>2, <3>1, <3>2 DEF TypeOK, Step
    <2>7. CASE Store(u)
        <3>1. /\ Enqueue("store", u, {r.topic}) /\ r.step = "store"
              /\ (Done(u) \/ (r.other # Nobody /\ Goto(u, "also_store")))
              /\ UNCHANGED <<socket, subscribers, filter, row, stored, listed, lost, missed, revived>>
            BY <2>7 DEF Store, memory, tables, history
        <3>2. queue' \in Seq(Command)
            BY <2>1, <3>1, EnqueueLengthens
        <3>3. request' \in [Users -> Request] /\ RequestInv'
            BY <2>2, <2>3, <3>1 DEF Step
        <3> QED
            BY <3>1, <3>2, <3>3 DEF TypeOK
    <2>8. CASE AlsoStore(u)
        <3>1. /\ Enqueue("store", r.other, {r.topic}) /\ r.step = "also_store" /\ Done(u)
              /\ UNCHANGED <<socket, subscribers, filter, row, stored, listed, lost, missed, revived>>
            BY <2>8 DEF AlsoStore, memory, tables, history
        <3>2. r.other \in Users
            BY <2>1, <3>1 DEF RequestOK
        <3>3. queue' \in Seq(Command)
            BY <2>1, <3>1, <3>2, EnqueueLengthens
        <3> QED
            BY <2>3, <3>1, <3>3 DEF TypeOK
    <2>9. CASE Forget(u)
        <3>1. /\ subscribers' = [subscribers EXCEPT ![r.topic] = @ \ {u}] /\ r.step = "forget"
              /\ Goto(u, "unstore")
              /\ UNCHANGED <<socket, filter, row, stored, listed, queue, lost, missed, revived>>
            BY <2>9 DEF Forget, tables, history
        <3> QED
            BY <2>1, <2>2, <3>1 DEF TypeOK, Step
    <2>10. CASE Unstore(u)
        <3>1. /\ Enqueue("remove", u, {r.topic}) /\ r.step = "unstore" /\ Done(u)
              /\ UNCHANGED <<socket, subscribers, filter, row, stored, listed, lost, missed, revived>>
            BY <2>10 DEF Unstore, memory, tables, history
        <3>2. queue' \in Seq(Command)
            BY <2>1, <3>1, EnqueueLengthens
        <3> QED
            BY <2>3, <3>1, <3>2 DEF TypeOK
    <2> QED
        BY <1>7, <2>4, <2>5, <2>6, <2>7, <2>8, <2>9, <2>10 DEF HandleRequest
<1>8. ASSUME NEW i, Running(i)
      PROVE  /\ queue[i] \in Command /\ queue[i].user \in Users /\ queue[i].topics \subseteq Topics
             /\ Pairs(queue[i]) \subseteq Users \X Topics
    BY <1>8, RunningStatement DEF Command, Pairs
<1>9. ASSUME NEW i, ExecuteListing(i) PROVE TypeOK' /\ RequestInv'
    <2> DEFINE c == queue[i]  u == c.user
    <2>1. /\ Running(i)
          /\ listed' = listed \cup Pairs(c) \/ listed' = listed \ Pairs(c)
          /\ queue' = RemoveAt(queue, i)
          /\ UNCHANGED request \/ (request[u].step = "list" /\ Goto(u, request[u].end))
          /\ UNCHANGED <<socket, subscribers, filter, row, stored, lost, missed, revived>>
        BY <1>9 DEF ExecuteListing, memory, history, Goto
    <2>2. queue' \in Seq(Command) /\ u \in Users
        BY <1>8, <2>1, StatementEnds
    <2>3. request' \in [Users -> Request] /\ RequestInv'
        <3>1. CASE UNCHANGED request
            BY <3>1 DEF TypeOK, RequestInv
        <3>2. CASE request[u].step = "list" /\ Goto(u, request[u].end)
            <4>1. request[u] \in Request /\ RequestOK(request[u])
                BY <2>2 DEF TypeOK, RequestInv
            <4>2. request[u].end \in {"filter", "forget"}
                BY <3>2, <4>1 DEF RequestOK
            <4>3. /\ Becomes(u, [request[u] EXCEPT !.step = request[u].end])
                  /\ request'[u].step = request[u].end /\ request'[u].topic = request[u].topic
                  /\ request'[u].other = request[u].other /\ request'[u].end = request[u].end
                BY <2>2, <3>2, <4>2, RequestGoesOn DEF Step
            <4>4. RequestOK(request'[u])
                BY <3>2, <4>1, <4>2, <4>3, TopicsAssumption DEF RequestOK
            <4>5. \A v \in Users : RequestOK(request'[v])
                BY <4>3, <4>4 DEF Becomes, RequestInv
            <4> QED
                BY <4>3, <4>5 DEF Becomes, RequestInv
        <3> QED
            BY <2>1, <3>1, <3>2
    <2>4. listed' \subseteq Users \X Topics
        BY <1>8, <2>1 DEF TypeOK
    <2> QED
        BY <2>1, <2>2, <2>3, <2>4 DEF TypeOK
<1>10. ASSUME NEW i, ExecuteStored(i) PROVE TypeOK' /\ RequestInv'
    <2>1. /\ Running(i) /\ queue' = RemoveAt(queue, i)
          /\ stored' = stored \cup Pairs(queue[i]) \/ stored' = stored \ Pairs(queue[i])
          /\ UNCHANGED <<socket, subscribers, filter, row, listed, request, lost, missed, revived>>
        BY <1>10 DEF ExecuteStored, memory, history
    <2>2. queue' \in Seq(Command)
        BY <2>1, StatementEnds
    <2>3. stored' \subseteq Users \X Topics
        BY <1>8, <2>1 DEF TypeOK
    <2> QED
        BY <2>1, <2>2, <2>3 DEF TypeOK, RequestInv
<1>11. ASSUME NEW i, ExecuteSelect(i) PROVE TypeOK' /\ RequestInv'
    <2> DEFINE T == {t \in Topics : <<queue[i].user, t>> \in stored}
               c == [queue[i] EXCEPT !.cmd = "restore", !.topics = T]
    <2>1. /\ Running(i) /\ queue' = [queue EXCEPT ![i] = c]
          /\ UNCHANGED <<socket, subscribers, filter, row, stored, listed, request, lost, missed, revived>>
        BY <1>11 DEF ExecuteSelect, memory, tables, history
    <2>2. c \in Command
        <3>1. T \subseteq Topics /\ queue[i] \in Command
            BY <1>8, <2>1
        <3> HIDE DEF T
        <3> QED
            BY <3>1 DEF Command
    <2>3. queue' \in Seq(Command)
        <3> HIDE DEF c
        <3> QED
            BY <2>1, <2>2, StatementChanges
    <2> QED
        BY <2>1, <2>3 DEF TypeOK, RequestInv
<1>12. ASSUME NEW i, Restore(i) PROVE TypeOK' /\ RequestInv'
    <2>1. Running(i) /\ UNCHANGED <<socket, row, stored, listed, request, lost, missed, revived>>
        BY <1>12 DEF Restore, tables, history
    <2>2. PICK t \in queue[i].topics :
             /\ filter' = filter \cup {t}
             /\ subscribers' = [subscribers EXCEPT ![t] = @ \cup {queue[i].user}]
             /\ queue' = [queue EXCEPT ![i].topics = @ \ {t}]
        BY <1>12 DEF Restore
    <2> DEFINE c == [queue[i] EXCEPT !.topics = @ \ {t}]
    <2>3. c \in Command /\ t \in Topics /\ queue[i].user \in Users
        BY <1>8, <2>1 DEF Command
    <2>4. queue' = [queue EXCEPT ![i] = c]
        BY <2>2
    <2>5. queue' \in Seq(Command)
        <3> HIDE DEF c
        <3> QED
            BY <2>1, <2>3, <2>4, StatementChanges
    <2> QED
        BY <2>1, <2>2, <2>3, <2>5 DEF TypeOK, RequestInv
<1>13. ASSUME NEW i, Restored(i) PROVE TypeOK' /\ RequestInv'
    <2>1. /\ Running(i) /\ queue' = RemoveAt(queue, i)
          /\ UNCHANGED <<socket, subscribers, filter, row, stored, listed, request, lost, missed, revived>>
        BY <1>13 DEF Restored, memory, tables, history
    <2>2. queue' \in Seq(Command)
        BY <2>1, StatementEnds
    <2> QED
        BY <2>1, <2>2 DEF TypeOK, RequestInv
<1>14. ASSUME NEW i, Fail(i) PROVE TypeOK' /\ RequestInv'
    <2>1. /\ Running(i) /\ queue' = RemoveAt(queue, i) /\ lost' = lost \cup {queue[i].user}
          /\ Done(queue[i].user) \/ UNCHANGED request
          /\ UNCHANGED <<socket, subscribers, filter, row, stored, listed, missed, revived>>
        BY <1>14 DEF Fail, memory, tables, history
    <2>2. queue' \in Seq(Command) /\ queue[i].user \in Users
        BY <1>8, <2>1, StatementEnds
    <2>3. request' \in [Users -> Request] /\ RequestInv'
        <3>1. CASE UNCHANGED request
            BY <3>1 DEF TypeOK, RequestInv
        <3>2. CASE Done(queue[i].user)
            <4>1. Becomes(queue[i].user, Idle)
                BY <2>2, <3>2, RequestEnds
            <4> QED
                BY <2>2, <4>1, RequestsBeginOK DEF Becomes, RequestInv
        <3> QED
            BY <2>1, <3>1, <3>2
    <2> QED
        BY <2>1, <2>2, <2>3 DEF TypeOK
<1>15. CASE Restart
    <2>1. queue' \in Seq(Command)
        BY <1>15, EmptySeq DEF Restart
    <2> QED
        BY <1>15, <2>1, RequestsTyped, RequestsBeginOK DEF Restart, tables, history, TypeOK, RequestInv
<1>16. CASE UNCHANGED vars
    BY <1>16 DEF vars, memory, tables, history, TypeOK, RequestInv
<1> QED
    BY <1>1, <1>2, <1>3, <1>4, <1>5, <1>6, <1>61, <1>7, <1>9, <1>10, <1>11, <1>12, <1>13, <1>14, <1>15,
       <1>16
       DEF Next, Client, Execute, HandleSocket

(* Every variable holds rows, locals and labels of its kind, whatever the    *)
(* pool and however many statements run at a time.                          *)
THEOREM TypeCorrect == Spec => []TypeOK
<1>1. Init => TypeOK /\ RequestInv
    <2> SUFFICES ASSUME Init PROVE TypeOK /\ RequestInv
        OBVIOUS
    <2>1. queue \in Seq(Command)
        BY EmptySeq DEF Init
    <2> QED
        BY <2>1, RequestsTyped, RequestsBeginOK DEF Init, TypeOK, RequestInv
<1>2. TypeOK /\ RequestInv /\ [Next]_vars => TypeOK' /\ RequestInv'
    BY NextTyped
<1> QED
    BY <1>1, <1>2, PTL DEF Spec

-----------------------------------------------------------------------------
(* What a row will be, when a statement is enqueued, ends, or changes. *)
LEMMA StoredLonger ==
    ASSUME NEW q \in Seq(Command), NEW p, NEW c, Longer(p, q, c), NEW st, NEW u, NEW t
    PROVE  /\ \A k \in 0 .. Len(q) : StoredAfter(p, k, st, u, t) <=> StoredAfter(q, k, st, u, t)
           /\ StoredAfter(p, Len(p), st, u, t) <=>
                 Stores(c, u, t) \/ (~ Removes(c, u, t) /\ StoredAfter(q, Len(q), st, u, t))
<1> DEFINE n == Len(q)
<1>1. /\ n \in Nat /\ Len(p) = n + 1 /\ p[n + 1] = c
      /\ \A i \in 1 .. n : p[i] = q[i]
    BY DEF Longer
<1>2. ASSUME NEW k \in 0 .. n
      PROVE  StoredAfter(p, k, st, u, t) <=> StoredAfter(q, k, st, u, t)
    <2>1. \A i \in 1 .. k : p[i] = q[i]
        BY <1>1
    <2> QED
        BY <2>1 DEF StoredAfter
<1>3. Stores(c, u, t) => ~ Removes(c, u, t)
    BY DEF Stores, Removes
<1>4. ASSUME Stores(c, u, t) PROVE StoredAfter(p, n + 1, st, u, t)
    <2>1. n + 1 \in 1 .. n + 1 /\ Stores(p[n + 1], u, t) /\ ~ Removes(p[n + 1], u, t)
        BY <1>1, <1>3, <1>4
    <2>2. \A j \in 1 .. n + 1 : Removes(p[j], u, t) => j < n + 1
        BY <1>1, <2>1
    <2> QED
        BY <2>1, <2>2 DEF StoredAfter
<1>5. ASSUME Removes(c, u, t) PROVE ~ StoredAfter(p, n + 1, st, u, t)
    <2>1. n + 1 \in 1 .. n + 1 /\ Removes(p[n + 1], u, t)
        BY <1>1, <1>5
    <2>2. \A i \in 1 .. n + 1 : ~ (n + 1 < i)
        BY <1>1
    <2> QED
        BY <2>1, <2>2 DEF StoredAfter
<1>6. ASSUME ~ Removes(c, u, t), StoredAfter(p, n, st, u, t)
      PROVE  StoredAfter(p, n + 1, st, u, t)
    <2>1. \A j \in 1 .. n + 1 : Removes(p[j], u, t) => j \in 1 .. n
        BY <1>1, <1>6
    <2>2. \A i \in 1 .. n : i \in 1 .. n + 1
        BY <1>1
    <2> QED
        BY <1>6, <2>1, <2>2 DEF StoredAfter
<1>7. ASSUME ~ Stores(c, u, t), StoredAfter(p, n + 1, st, u, t)
      PROVE  StoredAfter(p, n, st, u, t)
    <2>1. \A i \in 1 .. n + 1 : Stores(p[i], u, t) => i \in 1 .. n
        BY <1>1, <1>7
    <2>2. \A i \in 1 .. n : i \in 1 .. n + 1
        BY <1>1
    <2> QED
        BY <1>7, <2>1, <2>2 DEF StoredAfter
<1>8. StoredAfter(p, n, st, u, t) <=> StoredAfter(q, n, st, u, t)
    BY <1>1, <1>2
<1> QED
    BY <1>1, <1>2, <1>4, <1>5, <1>6, <1>7, <1>8

LEMMA StoredWithout ==
    ASSUME NEW q \in Seq(Command), NEW p, Without(p, q, 1), NEW st, NEW new, NEW u, NEW t,
           <<u, t>> \in new <=>
              Stores(q[1], u, t) \/ (~ Removes(q[1], u, t) /\ <<u, t>> \in st)
    PROVE  \A k \in 0 .. Len(p) : StoredAfter(p, k, new, u, t) <=> StoredAfter(q, k + 1, st, u, t)
<1>1. /\ Len(p) \in Nat /\ Len(q) = Len(p) + 1
      /\ \A i \in 1 .. Len(p) : p[i] = q[i + 1]
    BY DEF Without
<1>2. Stores(q[1], u, t) => ~ Removes(q[1], u, t)
    BY DEF Stores, Removes
<1> TAKE k \in 0 .. Len(p)
<1>3. k \in Nat /\ \A i \in 1 .. k : i \in Nat /\ i + 1 \in 1 .. k + 1 /\ p[i] = q[i + 1] /\ 1 < i + 1
    <2>1. k \in Nat /\ k <= Len(p)
        BY <1>1
    <2>2. ASSUME NEW i \in 1 .. k
          PROVE  i \in Nat /\ i + 1 \in 1 .. k + 1 /\ i \in 1 .. Len(p) /\ 1 < i + 1
        BY <1>1, <2>1
    <2> QED
        BY <1>1, <2>1, <2>2
<1>4. \A i \in 1 .. k + 1 : i = 1 \/ \E j \in 1 .. k : i = j + 1
    <2> TAKE i \in 1 .. k + 1
    <2>1. i # 1 => i - 1 \in 1 .. k /\ i = (i - 1) + 1
        BY <1>3
    <2> QED
        BY <2>1
<1>5. 1 \in 1 .. k + 1
    BY <1>3
<1>6. ASSUME StoredAfter(p, k, new, u, t) PROVE StoredAfter(q, k + 1, st, u, t)
    <2>1. ASSUME NEW i \in 1 .. k, Stores(p[i], u, t),
                 \A j \in 1 .. k : Removes(p[j], u, t) => j < i
          PROVE  StoredAfter(q, k + 1, st, u, t)
        <3>1. i + 1 \in 1 .. k + 1 /\ Stores(q[i + 1], u, t)
            BY <1>3, <2>1
        <3>2. ASSUME NEW j \in 1 .. k + 1, Removes(q[j], u, t) PROVE j < i + 1
            <4>1. CASE j = 1
                BY <1>3, <2>1, <4>1
            <4>2. ASSUME NEW x \in 1 .. k, j = x + 1 PROVE j < i + 1
                <5>1. x < i /\ x \in Nat /\ i \in Nat
                    BY <1>3, <2>1, <3>2, <4>2
                <5> QED
                    BY <4>2, <5>1
            <4> QED
                BY <1>4, <4>1, <4>2
        <3> QED
            BY <3>1, <3>2 DEF StoredAfter
    <2>2. ASSUME <<u, t>> \in new, \A j \in 1 .. k : ~ Removes(p[j], u, t)
          PROVE  StoredAfter(q, k + 1, st, u, t)
        <3>1. \A j \in 1 .. k + 1 : Removes(q[j], u, t) => j = 1
            BY <1>3, <1>4, <2>2
        <3>2. CASE Stores(q[1], u, t)
            <4>1. \A j \in 1 .. k + 1 : ~ Removes(q[j], u, t)
                BY <1>2, <3>1, <3>2
            <4> QED
                BY <1>5, <3>2, <4>1 DEF StoredAfter
        <3>3. CASE ~ Removes(q[1], u, t) /\ <<u, t>> \in st
            <4>1. \A j \in 1 .. k + 1 : ~ Removes(q[j], u, t)
                BY <3>1, <3>3
            <4> QED
                BY <3>3, <4>1 DEF StoredAfter
        <3> QED
            BY <2>2, <3>2, <3>3
    <2> QED
        BY <1>6, <2>1, <2>2 DEF StoredAfter
<1>7. ASSUME StoredAfter(q, k + 1, st, u, t) PROVE StoredAfter(p, k, new, u, t)
    <2>1. ASSUME NEW i \in 1 .. k + 1, Stores(q[i], u, t),
                 \A j \in 1 .. k + 1 : Removes(q[j], u, t) => j < i
          PROVE  StoredAfter(p, k, new, u, t)
        <3>1. CASE i = 1
            <4>1. \A j \in 1 .. k : ~ Removes(p[j], u, t)
                BY <1>3, <2>1, <3>1
            <4> QED
                BY <2>1, <3>1, <4>1 DEF StoredAfter
        <3>2. ASSUME NEW x \in 1 .. k, i = x + 1 PROVE StoredAfter(p, k, new, u, t)
            <4>1. Stores(p[x], u, t) /\ \A j \in 1 .. k : Removes(p[j], u, t) => j < x
                BY <1>3, <2>1, <3>2
            <4> QED
                BY <4>1 DEF StoredAfter
        <3> QED
            BY <1>4, <3>1, <3>2
    <2>2. ASSUME <<u, t>> \in st, \A j \in 1 .. k + 1 : ~ Removes(q[j], u, t)
          PROVE  StoredAfter(p, k, new, u, t)
        <3>1. <<u, t>> \in new /\ \A j \in 1 .. k : ~ Removes(p[j], u, t)
            BY <1>3, <1>5, <2>2
        <3> QED
            BY <3>1 DEF StoredAfter
    <2> QED
        BY <1>7, <2>1, <2>2 DEF StoredAfter
<1> QED
    BY <1>6, <1>7

LEMMA StoredElsewhere ==
    ASSUME NEW q \in Seq(Command), NEW p, NEW st, NEW u, NEW t,
           \A i \in 1 .. Len(q) : Stores(p[i], u, t) = Stores(q[i], u, t)
                                /\ Removes(p[i], u, t) = Removes(q[i], u, t)
    PROVE  \A k \in 0 .. Len(q) : StoredAfter(p, k, st, u, t) <=> StoredAfter(q, k, st, u, t)
<1> TAKE k \in 0 .. Len(q)
<1>1. \A i \in 1 .. k : i \in 1 .. Len(q)
    OBVIOUS
<1> QED
    BY <1>1 DEF StoredAfter

(* The same for what a statement will put into memory. *)
LEMMA RestoredLonger ==
    ASSUME NEW q \in Seq(Command), NEW p, NEW c, Longer(p, q, c), NEW st, NEW u, NEW t,
           \/ RestoredBy(q, st, u, t)
           \/ Restores(c, StoredAfter(q, Len(q), st, u, t), u, t)
    PROVE  RestoredBy(p, st, u, t)
<1>1. /\ Len(q) \in Nat /\ Len(p) = Len(q) + 1 /\ p[Len(q) + 1] = c
      /\ \A i \in 1 .. Len(q) : p[i] = q[i]
    BY DEF Longer
<1>2. \A k \in 0 .. Len(q) : StoredAfter(p, k, st, u, t) <=> StoredAfter(q, k, st, u, t)
    BY StoredLonger
<1>3. ASSUME NEW i \in 1 .. Len(q), Restores(q[i], StoredAfter(q, i - 1, st, u, t), u, t)
      PROVE  RestoredBy(p, st, u, t)
    <2>1. i \in 1 .. Len(p) /\ i - 1 \in 0 .. Len(q)
        BY <1>1
    <2>2. Restores(p[i], StoredAfter(p, i - 1, st, u, t), u, t)
        BY <1>1, <1>2, <1>3, <2>1 DEF Restores
    <2> QED
        BY <2>1, <2>2 DEF RestoredBy
<1>4. ASSUME Restores(c, StoredAfter(q, Len(q), st, u, t), u, t)
      PROVE  RestoredBy(p, st, u, t)
    <2> DEFINE i == Len(q) + 1
    <2>1. i \in 1 .. Len(p) /\ i - 1 = Len(q) /\ i - 1 \in 0 .. Len(q) /\ p[i] = c
        BY <1>1
    <2>2. StoredAfter(p, i - 1, st, u, t) <=> StoredAfter(q, Len(q), st, u, t)
        BY <1>2, <2>1
    <2>3. Restores(p[i], StoredAfter(p, i - 1, st, u, t), u, t)
        BY <1>4, <2>1, <2>2 DEF Restores
    <2> HIDE DEF i
    <2> QED
        BY <2>1, <2>3 DEF RestoredBy
<1> QED
    BY <1>3, <1>4 DEF RestoredBy

LEMMA RestoredWithout ==
    ASSUME NEW q \in Seq(Command), NEW p, Without(p, q, 1), NEW st, NEW new, NEW u, NEW t,
           <<u, t>> \in new <=>
              Stores(q[1], u, t) \/ (~ Removes(q[1], u, t) /\ <<u, t>> \in st),
           RestoredBy(q, st, u, t), ~ Restores(q[1], <<u, t>> \in st, u, t)
    PROVE  RestoredBy(p, new, u, t)
<1>1. /\ Len(p) \in Nat /\ Len(q) = Len(p) + 1
      /\ \A i \in 1 .. Len(p) : p[i] = q[i + 1]
    BY DEF Without
<1>2. \A k \in 0 .. Len(p) : StoredAfter(p, k, new, u, t) <=> StoredAfter(q, k + 1, st, u, t)
    BY StoredWithout
<1>3. PICK i \in 1 .. Len(q) : Restores(q[i], StoredAfter(q, i - 1, st, u, t), u, t)
    BY DEF RestoredBy
<1>4. i # 1
    <2> SUFFICES ASSUME i = 1 PROVE FALSE
        OBVIOUS
    <2>1. \A j \in 1 .. 0 : FALSE
        OBVIOUS
    <2>2. StoredAfter(q, 0, st, u, t) <=> <<u, t>> \in st
        BY <2>1 DEF StoredAfter
    <2>3. i - 1 = 0
        OBVIOUS
    <2>4. Restores(q[1], StoredAfter(q, 0, st, u, t), u, t)
        BY <1>3, <2>3
    <2> QED
        BY <2>2, <2>4 DEF Restores
<1> DEFINE j == i - 1
<1>5. j \in 1 .. Len(p) /\ i = j + 1 /\ j - 1 \in 0 .. Len(p) /\ (j - 1) + 1 = i - 1
    BY <1>1, <1>4
<1>6. StoredAfter(p, j - 1, new, u, t) <=> StoredAfter(q, i - 1, st, u, t)
    BY <1>2, <1>5
<1>7. p[j] = q[i]
    BY <1>1, <1>5
<1>8. Restores(p[j], StoredAfter(p, j - 1, new, u, t), u, t)
    BY <1>3, <1>6, <1>7 DEF Restores
<1> HIDE DEF j
<1> QED
    BY <1>5, <1>8 DEF RestoredBy

-----------------------------------------------------------------------------
(* What waits for a listing, when a statement is enqueued, ends, or changes. *)
LEMMA ListingLonger ==
    ASSUME NEW q \in Seq(Command), NEW p, NEW c, Longer(p, q, c), NEW r, NEW rev, NEW more, NEW u,
           ListingOf(q, r, rev, u), ~ Lists(c, u), rev \subseteq more,
           r.step = "list" /\ r.end = "forget" /\ <<u, r.topic>> \notin more => ~ Reads(c, u)
    PROVE  ListingOf(p, r, more, u)
<1>1. /\ Len(q) \in Nat /\ DOMAIN q = 1 .. Len(q) /\ DOMAIN p = 1 .. Len(q) + 1
      /\ p[Len(q) + 1] = c /\ \A i \in DOMAIN q : p[i] = q[i]
    BY DEF Longer
<1>2. \A i \in DOMAIN p : i \in DOMAIN q \/ p[i] = c
    BY <1>1
<1>3. ASSUME NEW i \in DOMAIN p, Lists(p[i], u)
      PROVE  i \in DOMAIN q /\ Lists(q[i], u) /\ p[i] = q[i]
    BY <1>1, <1>2, <1>3
<1>4. ASSUME NEW i \in DOMAIN p, Reads(p[i], u), r.step = "list", r.end = "forget",
             <<u, r.topic>> \notin more
      PROVE  i \in DOMAIN q /\ Reads(q[i], u)
    BY <1>1, <1>2, <1>4
<1> QED
    BY <1>3, <1>4 DEF ListingOf

LEMMA ListingBegins ==
    ASSUME NEW q \in Seq(Command), NEW p, NEW c, Longer(p, q, c), NEW r, NEW new, NEW rev, NEW u,
           ListingOf(q, r, rev, u), r.step = "idle", c.cmd \in {"list", "unlist"},
           new.step = "list", c.topics = {new.topic},
           new.end = IF c.cmd = "list" THEN "filter" ELSE "forget"
    PROVE  ListingOf(p, new, rev, u)
<1>1. /\ Len(q) \in Nat /\ DOMAIN q = 1 .. Len(q) /\ DOMAIN p = 1 .. Len(q) + 1
      /\ p[Len(q) + 1] = c /\ \A i \in DOMAIN q : p[i] = q[i]
    BY DEF Longer
<1>2. \A i \in DOMAIN q : i < Len(q) + 1
    BY <1>1
<1>3. \A i \in DOMAIN p : i \in DOMAIN q \/ i = Len(q) + 1
    BY <1>1
<1>4. \A i \in DOMAIN q : ~ Lists(p[i], u)
    BY <1>1 DEF ListingOf
<1>5. ~ Reads(c, u)
    BY DEF Reads
<1>6. \A i \in DOMAIN p : Reads(p[i], u) => i \in DOMAIN q
    BY <1>1, <1>3, <1>5
<1>7. \A i \in DOMAIN p : Lists(p[i], u) => i = Len(q) + 1
    BY <1>3, <1>4
<1> QED
    BY <1>1, <1>2, <1>6, <1>7 DEF ListingOf

LEMMA ListingWithout ==
    ASSUME NEW q \in Seq(Command), NEW p, Without(p, q, 1), NEW r, NEW new, NEW rev, NEW u,
           ListingOf(q, r, rev, u), new = r \/ Lists(q[1], u)
    PROVE  ListingOf(p, new, rev, u)
<1>1. /\ Len(p) \in Nat /\ DOMAIN p = 1 .. Len(p) /\ DOMAIN q = 1 .. Len(p) + 1
      /\ \A i \in 1 .. Len(p) : p[i] = q[i + 1]
    BY DEF Without
<1>2. \A i \in DOMAIN p : i \in Nat /\ i + 1 \in DOMAIN q /\ p[i] = q[i + 1] /\ i + 1 # 1
    BY <1>1
<1>3. \A i, j \in DOMAIN p : (i + 1 = j + 1 => i = j) /\ (j + 1 < i + 1 => j < i)
    BY <1>2
<1>4. 1 \in DOMAIN q
    BY <1>1
<1>5. CASE Lists(q[1], u)
    <2>1. \A i \in DOMAIN p : ~ Lists(p[i], u)
        BY <1>2, <1>4, <1>5 DEF ListingOf
    <2> QED
        BY <2>1 DEF ListingOf
<1>6. CASE new = r
    <2> SUFFICES ASSUME NEW i \in DOMAIN p, Lists(p[i], u)
                 PROVE  /\ r.step = "list" /\ p[i].topics = {r.topic}
                        /\ r.end = IF p[i].cmd = "list" THEN "filter" ELSE "forget"
                        /\ \A j \in DOMAIN p : Lists(p[j], u) => j = i
                        /\ r.end = "forget" /\ <<u, r.topic>> \notin rev =>
                              \A j \in DOMAIN p : Reads(p[j], u) => j < i
        BY <1>6 DEF ListingOf
    <2>1. i + 1 \in DOMAIN q /\ Lists(q[i + 1], u) /\ p[i] = q[i + 1]
        BY <1>2
    <2>2. /\ r.step = "list" /\ p[i].topics = {r.topic}
          /\ r.end = IF p[i].cmd = "list" THEN "filter" ELSE "forget"
        BY <2>1 DEF ListingOf
    <2>3. ASSUME NEW j \in DOMAIN p, Lists(p[j], u) PROVE j = i
        <3>1. j + 1 \in DOMAIN q /\ Lists(q[j + 1], u)
            BY <1>2, <2>3
        <3>2. j + 1 = i + 1
            BY <2>1, <3>1 DEF ListingOf
        <3> QED
            BY <1>3, <3>2
    <2>4. ASSUME r.end = "forget", <<u, r.topic>> \notin rev, NEW j \in DOMAIN p, Reads(p[j], u)
          PROVE  j < i
        <3>1. j + 1 \in DOMAIN q /\ Reads(q[j + 1], u)
            BY <1>2, <2>4
        <3>2. j + 1 < i + 1
            BY <2>1, <2>4, <3>1 DEF ListingOf
        <3> QED
            BY <1>3, <3>2
    <2> QED
        BY <2>2, <2>3, <2>4
<1> QED
    BY <1>5, <1>6

(* The same for what is read and removed. *)
LEMMA ReadsLonger ==
    ASSUME NEW q \in Seq(Command), NEW p, NEW c, Longer(p, q, c), NEW r, NEW new,
           NEW rev, NEW more, NEW u, ReadsFirst(q, r, rev, u), rev \subseteq more,
           \A t \in PostTopics : <<u, t>> \notin more =>
               /\ Removing(new, t) => Removing(r, t) /\ ~ Reads(c, u)
               /\ Removes(c, u, t) => Removing(r, t)
    PROVE  ReadsFirst(p, new, more, u)
<1>1. /\ Len(q) \in Nat /\ DOMAIN q = 1 .. Len(q) /\ DOMAIN p = 1 .. Len(q) + 1
      /\ p[Len(q) + 1] = c /\ \A i \in DOMAIN q : p[i] = q[i]
    BY DEF Longer
<1>2. \A i \in DOMAIN p : i \in DOMAIN q \/ (i = Len(q) + 1 /\ p[i] = c)
    BY <1>1
<1>3. \A j \in DOMAIN p : ~ (Len(q) + 1 < j)
    BY <1>1
<1> SUFFICES ASSUME NEW i \in DOMAIN p, NEW t \in PostTopics, Reads(p[i], u), <<u, t>> \notin more
             PROVE  /\ ~ Removing(new, t)
                    /\ \A j \in DOMAIN p : i < j => ~ Removes(p[j], u, t)
    BY DEF ReadsFirst
<1>4. CASE i \in DOMAIN q
    <2>1. /\ ~ Removing(r, t)
          /\ \A j \in DOMAIN q : i < j => ~ Removes(q[j], u, t)
        BY <1>1, <1>4 DEF ReadsFirst
    <2>2. ~ Removing(new, t) /\ ~ Removes(c, u, t)
        BY <2>1
    <2> QED
        BY <1>1, <1>2, <2>1, <2>2
<1>5. CASE i = Len(q) + 1 /\ p[i] = c
    BY <1>3, <1>5
<1> QED
    BY <1>2, <1>4, <1>5

LEMMA ReadsWithout ==
    ASSUME NEW q \in Seq(Command), NEW p, Without(p, q, 1), NEW r, NEW new, NEW rev, NEW u,
           ReadsFirst(q, r, rev, u),
           \A t \in PostTopics : Removing(new, t) /\ <<u, t>> \notin rev =>
               Removing(r, t) \/ \A i \in DOMAIN q : ~ Reads(q[i], u)
    PROVE  ReadsFirst(p, new, rev, u)
<1>1. /\ Len(p) \in Nat /\ DOMAIN p = 1 .. Len(p) /\ DOMAIN q = 1 .. Len(p) + 1
      /\ \A i \in 1 .. Len(p) : p[i] = q[i + 1]
    BY DEF Without
<1>2. \A i \in DOMAIN p : i \in Nat /\ i + 1 \in DOMAIN q /\ p[i] = q[i + 1]
    BY <1>1
<1>3. \A i, j \in DOMAIN p : i < j => i + 1 < j + 1
    BY <1>2
<1> SUFFICES ASSUME NEW i \in DOMAIN p, NEW t \in PostTopics, Reads(p[i], u), <<u, t>> \notin rev
             PROVE  /\ ~ Removing(new, t)
                    /\ \A j \in DOMAIN p : i < j => ~ Removes(p[j], u, t)
    BY DEF ReadsFirst
<1>4. i + 1 \in DOMAIN q /\ Reads(q[i + 1], u)
    BY <1>2
<1>5. /\ ~ Removing(r, t)
      /\ \A j \in DOMAIN q : i + 1 < j => ~ Removes(q[j], u, t)
    BY <1>4 DEF ReadsFirst
<1>6. ASSUME NEW j \in DOMAIN p, i < j PROVE ~ Removes(p[j], u, t)
    BY <1>2, <1>3, <1>5, <1>6
<1> QED
    BY <1>4, <1>5, <1>6

-----------------------------------------------------------------------------
(* A step that leaves alone the requests that subscribe, and takes nobody out *)
(* of memory, keeps whom they subscribe in memory.                           *)
LEMMA SubscribedKept ==
    ASSUME SubscribedInv, missed \subseteq missed',
           \A t \in Topics : subscribers[t] \subseteq subscribers'[t],
           \A v \in Users : \/ request'[v] = request[v]
                            \/ request'[v].step \notin {"also_remember", "store", "also_store"}
    PROVE  SubscribedInv'
<1>1. ASSUME NEW u \in Users, NEW t \in Topics, BeingSubscribed(u, t)'
      PROVE  BeingSubscribed(u, t)
    BY <1>1 DEF BeingSubscribed
<1> QED
    BY <1>1 DEF SubscribedInv

(* Sockets come and go. *)
LEMMA SocketsInv ==
    ASSUME IInv, TypeOK', RequestInv', NEW s \in Sockets,
           HandleNewConnection(s) \/ HandleConnectionClosed(s)
    PROVE  IInv'
<1> USE DEF IInv
<1>1. /\ UNCHANGED <<subscribers, filter, row, stored, listed, queue, request, lost, missed, revived>>
      /\ \/ socket' = [socket EXCEPT ![s] = "opening"]
         \/ socket[s] = "open" /\ socket' = [socket EXCEPT ![s] = "closing"]
    BY DEF HandleNewConnection, HandleConnectionClosed, tables, history
<1>2. RestoreInv' /\ ListingInv' /\ ReadsInv' /\ ListedInv' /\ MemoryInv'
    BY <1>1 DEF RestoreInv, ListingInv, ReadsInv, ListedInv, MemoryInv
<1>3. SubscribedInv'
    BY <1>1, SubscribedKept
<1>4. ConnectedInv'
    <2>1. ASSUME NEW u \in Users PROVE Connected(u)' => Opening(u)' \/ (Connected(u) /\ ~ Opening(u))
                                                     \/ (Connected(u) /\ Opening(u)')
        BY <1>1 DEF Connected, SocketsOf, Opening, TypeOK
    <2>2. ASSUME NEW u \in Users PROVE Opening(u) => Opening(u)'
        BY <1>1 DEF Opening, TypeOK
    <2> QED
        BY <1>1, <2>1, <2>2 DEF ConnectedInv
<1> QED
    BY <1>2, <1>3, <1>4

(* A socket is welcomed: what is stored by then will be restored. *)
LEMMA WelcomeInv ==
    ASSUME IInv, TypeOK', RequestInv', NEW s \in Sockets, SubscribeToExisting(s)
    PROVE  IInv'
<1> USE DEF IInv
<1> DEFINE o == Owner[s]  c == [cmd |-> "select", user |-> o, topics |-> {}]
<1>1. /\ socket[s] = "opening" /\ socket' = [socket EXCEPT ![s] = "open"]
      /\ Enqueue("select", o, {})
      /\ revived' = revived \cup {w \in {o} \X PostTopics : Unsubscribing(w[1], w[2])}
      /\ UNCHANGED <<subscribers, filter, row, stored, listed, request, lost, missed>>
    BY DEF SubscribeToExisting, tables
<1>2. o \in Users
    BY OwnerAssumption
<1>3. Longer(queue', queue, c) /\ queue \in Seq(Command)
    BY <1>1, <1>2, EnqueueLengthens DEF TypeOK
<1>4. c.cmd = "select" /\ c.user = o
    OBVIOUS
<1> HIDE DEF c
<1>5. \A u, t : ~ Stores(c, u, t) /\ ~ Removes(c, u, t) /\ ~ Lists(c, u)
    BY <1>4 DEF Stores, Removes, Lists
<1>6. /\ Len(queue) \in Nat /\ DOMAIN queue = 1 .. Len(queue) /\ DOMAIN queue' = 1 .. Len(queue) + 1
      /\ Len(queue') = Len(queue) + 1
      /\ queue'[Len(queue) + 1] = c /\ \A i \in 1 .. Len(queue) : queue'[i] = queue[i]
    BY <1>3 DEF Longer
<1>7. /\ revived \subseteq revived'
      /\ \A t \in PostTopics : request[o].topic = t /\ request[o].end = "forget" => <<o, t>> \in revived'
    BY <1>1, <1>2 DEF Unsubscribing
<1>8. \A i \in DOMAIN queue' : i \in DOMAIN queue \/ (i = Len(queue) + 1 /\ queue'[i] = c)
    BY <1>6
<1>9. RestoreInv'
    BY <1>1, <1>4, <1>6, <1>8 DEF RestoreInv
<1>10. ListingInv'
    <2>1. ASSUME NEW u \in Users \ lost PROVE ListingOf(queue', request[u], revived', u)
        <3>1. ListingOf(queue, request[u], revived, u)
            BY DEF ListingInv
        <3>2. request[u].step = "list" => request[u].topic \in PostTopics
            BY DEF RequestInv, RequestOK
        <3>3. request[u].step = "list" /\ request[u].end = "forget"
                 /\ <<u, request[u].topic>> \notin revived' => ~ Reads(c, u)
            BY <1>4, <1>7, <3>2 DEF Reads
        <3> QED
            BY <1>3, <1>5, <1>7, <3>1, <3>3, ListingLonger
    <2> QED
        BY <1>1, <2>1 DEF ListingInv
<1>11. ReadsInv'
    <2>1. ASSUME NEW u \in Users \ lost PROVE ReadsFirst(queue', request[u], revived', u)
        <3>1. ReadsFirst(queue, request[u], revived, u)
            BY DEF ReadsInv
        <3>2. ASSUME NEW t \in PostTopics, Removing(request[u], t), <<u, t>> \notin revived'
              PROVE  ~ Reads(c, u)
            <4>1. request[u].end = "forget" /\ request[u].topic = t
                BY <3>2 DEF Removing, RequestInv, RequestOK
            <4> QED
                BY <1>4, <1>7, <3>2, <4>1 DEF Reads
        <3> QED
            BY <1>3, <1>5, <1>7, <3>1, <3>2, ReadsLonger
    <2> QED
        BY <1>1, <2>1 DEF ReadsInv
<1>12. \A u, t, r : WillBeStored(queue', stored', r, u, t) <=> WillBeStored(queue, stored, r, u, t)
    BY <1>1, <1>3, <1>5, StoredLonger DEF WillBeStored
<1>13. ListedInv' /\ MemoryInv' /\ SubscribedInv'
    BY <1>1, <1>7, <1>12, SubscribedKept DEF ListedInv, MemoryInv
<1>14. ConnectedInv'
    <2>1. \A u \in Users : Connected(u)' <=> Connected(u)
        BY <1>1 DEF Connected, SocketsOf, TypeOK
    <2>2. \A u \in Users : Opening(u) => Opening(u)' \/ u = o
        BY <1>1 DEF Opening, TypeOK
    <2>3. \A u, t : RestoredBy(queue, stored, u, t) => RestoredBy(queue', stored', u, t)
        BY <1>1, <1>3, RestoredLonger
    <2>4. ASSUME NEW t \in Topics, WillBeStored(queue, stored, request[o], o, t)
          PROVE  \/ RestoredBy(queue', stored', o, t) \/ Remembering(request[o], t)
                 \/ o \in subscribers[t] \/ <<o, t>> \in missed
        <3>1. CASE StoredAfter(queue, Len(queue), stored, o, t)
            <4>1. Restores(c, StoredAfter(queue, Len(queue), stored, o, t), o, t)
                BY <1>4, <3>1 DEF Restores, Reads
            <4> QED
                BY <1>1, <1>3, <4>1, RestoredLonger
        <3>2. CASE Storing(request[o], t)
            <4>1. Remembering(request[o], t) \/ BeingSubscribed(o, t)
                BY <3>2 DEF Storing, Remembering, BeingSubscribed
            <4> QED
                BY <1>2, <4>1 DEF SubscribedInv
        <3> QED
            BY <2>4, <3>1, <3>2 DEF WillBeStored
    <2> QED
        BY <1>1, <1>12, <2>1, <2>2, <2>3, <2>4 DEF ConnectedInv
<1> QED
    BY <1>9, <1>10, <1>11, <1>13, <1>14

(* A user whose last socket is gone is forgotten. *)
LEMMA UnsubscribeInv ==
    ASSUME IInv, TypeOK', RequestInv', NEW s \in Sockets, Unsubscribe(s)
    PROVE  IInv'
<1> USE DEF IInv
<1> DEFINE o == Owner[s]
<1>1. /\ socket[s] = "closing" /\ socket' = [socket EXCEPT ![s] = "closed"]
      /\ missed' = missed \cup {w \in {o} \X Topics : ~ Connected(w[1]) /\ BeingSubscribed(w[1], w[2])}
      /\ subscribers' = IF Connected(o) THEN subscribers
                        ELSE [t \in Topics |-> subscribers[t] \ {o}]
      /\ UNCHANGED <<filter, row, stored, listed, queue, request, lost, revived>>
    BY DEF Unsubscribe, tables
<1>2. /\ missed \subseteq missed'
      /\ \A t \in Topics : subscribers'[t] \subseteq subscribers[t]
    BY <1>1 DEF TypeOK
<1>3. \A x \in Sockets : socket'[x] \in {"opening", "open"} <=> socket[x] \in {"opening", "open"}
    BY <1>1 DEF TypeOK
<1>4. \A x \in Sockets : socket'[x] = "opening" <=> socket[x] = "opening"
    BY <1>1 DEF TypeOK
<1>5. RestoreInv' /\ ListingInv' /\ ReadsInv' /\ ListedInv'
    BY <1>1 DEF RestoreInv, ListingInv, ReadsInv, ListedInv
<1>6. MemoryInv'
    BY <1>1, <1>2 DEF MemoryInv, Topics
<1>7. ASSUME NEW u \in Users, NEW t \in Topics, u # o \/ Connected(o)
      PROVE  u \in subscribers[t] => u \in subscribers'[t]
    BY <1>1, <1>7
<1>8. SubscribedInv'
    <2> SUFFICES ASSUME NEW u \in Users, NEW t \in Topics, BeingSubscribed(u, t)'
                 PROVE  u \in subscribers'[t] \/ <<u, t>> \in missed'
        BY DEF SubscribedInv
    <2>1. BeingSubscribed(u, t)
        BY <1>1 DEF BeingSubscribed
    <2>2. CASE u = o /\ ~ Connected(o)
        BY <1>1, <2>1, <2>2
    <2>3. CASE u # o \/ Connected(o)
        BY <1>2, <1>7, <2>1, <2>3 DEF SubscribedInv
    <2> QED
        BY <2>2, <2>3
<1>9. ConnectedInv'
    <2>1. \A u \in Users : (Connected(u)' <=> Connected(u)) /\ (Opening(u)' <=> Opening(u))
        BY <1>3, <1>4 DEF Connected, SocketsOf, Opening
    <2>2. ASSUME NEW u \in Users, NEW t \in Topics, Connected(u)
          PROVE  u \in subscribers[t] => u \in subscribers'[t]
        BY <1>7, <2>2
    <2> QED
        BY <1>1, <1>2, <2>1, <2>2 DEF ConnectedInv
<1> QED
    BY <1>5, <1>6, <1>8, <1>9

(* Requests that begin without a statement. *)
LEMMA BeginInv ==
    ASSUME IInv, TypeOK', RequestInv', NEW u \in Users, NEW r \in Request, Begin(u, r),
           UNCHANGED queue, r.step \in {"filter", "forget"},
           r.step = "forget" => r.topic \notin PostTopics
    PROVE  IInv'
<1> USE DEF IInv
<1>1. /\ Becomes(u, r) /\ request[u].step = "idle"
      /\ UNCHANGED <<socket, subscribers, filter, stored, listed, lost, missed, revived, queue>>
    BY RequestBegins
<1>2. request'[u] = r /\ \A v \in Users \ {u} : request'[v] = request[v]
    BY <1>1 DEF Becomes
<1>3. RestoreInv'
    BY <1>1 DEF RestoreInv
<1>4. ListingInv'
    <2>1. ASSUME NEW v \in Users \ lost PROVE ListingOf(queue, request'[v], revived, v)
        <3>1. ListingOf(queue, request[v], revived, v)
            BY DEF ListingInv
        <3>2. CASE v = u
            BY <1>1, <3>1, <3>2 DEF ListingOf
        <3>3. CASE v # u
            BY <1>2, <3>1, <3>3
        <3> QED
            BY <3>2, <3>3
    <2> QED
        BY <1>1, <2>1 DEF ListingInv
<1>5. ReadsInv'
    <2>1. \A t \in PostTopics : ~ Removing(r, t)
        BY DEF Removing
    <2>2. ASSUME NEW v \in Users \ lost PROVE ReadsFirst(queue, request'[v], revived, v)
        BY <1>2, <2>1, <2>2 DEF ReadsInv, ReadsFirst
    <2> QED
        BY <1>1, <2>2 DEF ReadsInv
<1>6. ASSUME NEW t \in PostTopics, NEW v \in Users, WillBeStored(queue, stored, request[v], v, t)
      PROVE  WillBeStored(queue, stored, request'[v], v, t)
    <2>1. CASE v = u
        BY <1>1, <1>2, <1>6, <2>1 DEF WillBeStored, Storing, Removing
    <2> QED
        BY <1>2, <1>6, <2>1
<1>7. ListedInv'
    BY <1>1, <1>6 DEF ListedInv
<1>8. MemoryInv'
    <2>1. \A v \in Users : request[v].step = "forget" => request'[v] = request[v]
        BY <1>1, <1>2
    <2> QED
        BY <1>1, <1>6, <2>1 DEF MemoryInv
<1>9. SubscribedInv'
    BY <1>1, <1>2, SubscribedKept
<1>10. ConnectedInv'
    <2>1. ASSUME NEW t, NEW v \in Users, WillBeStored(queue, stored, request'[v], v, t)
          PROVE  WillBeStored(queue, stored, request[v], v, t) \/ Remembering(request'[v], t)
        <3>1. CASE v = u
            BY <1>1, <1>2, <2>1, <3>1 DEF WillBeStored, Storing, Removing, Remembering
        <3> QED
            BY <1>2, <2>1, <3>1
    <2>2. ASSUME NEW t, NEW v \in Users, Remembering(request[v], t)
          PROVE  Remembering(request'[v], t)
        BY <1>1, <1>2, <2>2 DEF Remembering
    <2>3. \A v \in Users : (Connected(v)' <=> Connected(v)) /\ (Opening(v)' <=> Opening(v))
        BY <1>1 DEF Connected, SocketsOf, Opening
    <2> QED
        BY <1>1, <2>1, <2>2, <2>3 DEF ConnectedInv
<1> QED
    BY <1>3, <1>4, <1>5, <1>7, <1>8, <1>9, <1>10

(* Requests that begin with a listing. *)
LEMMA BeginListingInv ==
    ASSUME IInv, TypeOK', RequestInv', NEW u \in Users, NEW r \in Request, Begin(u, r),
           NEW cmd \in {"list", "unlist"}, NEW t \in Topics, Enqueue(cmd, u, {t}),
           r.step = "list", r.topic = t, r.end = IF cmd = "list" THEN "filter" ELSE "forget"
    PROVE  IInv'
<1> USE DEF IInv
<1> DEFINE c == [cmd |-> cmd, user |-> u, topics |-> {t}]
<1>1. /\ Becomes(u, r) /\ request[u].step = "idle"
      /\ UNCHANGED <<socket, subscribers, filter, stored, listed, lost, missed, revived>>
    BY RequestBegins
<1>2. request'[u] = r /\ \A v \in Users \ {u} : request'[v] = request[v]
    BY <1>1 DEF Becomes
<1>3. Longer(queue', queue, c) /\ queue \in Seq(Command)
    BY EnqueueLengthens DEF TypeOK
<1>4. c.cmd = cmd /\ c.user = u /\ c.topics = {t}
    OBVIOUS
<1> HIDE DEF c
<1>5. \A v, x : ~ Stores(c, v, x) /\ ~ Removes(c, v, x) /\ ~ Reads(c, v)
    BY <1>4 DEF Stores, Removes, Reads
<1>6. \A v : Lists(c, v) => v = u
    BY <1>4 DEF Lists
<1>7. RestoreInv'
    <2>1. \A i \in DOMAIN queue' : (i \in DOMAIN queue /\ queue'[i] = queue[i]) \/ queue'[i] = c
        BY <1>3 DEF Longer
    <2> QED
        BY <1>1, <1>4, <2>1 DEF RestoreInv
<1>8. ListingInv'
    <2>1. ASSUME NEW v \in Users \ lost, v # u PROVE ListingOf(queue', request'[v], revived, v)
        BY <1>2, <1>3, <1>5, <1>6, <2>1, ListingLonger DEF ListingInv
    <2>2. ASSUME u \notin lost PROVE ListingOf(queue', r, revived, u)
        BY <1>1, <1>3, <1>4, <2>2, ListingBegins DEF ListingInv
    <2> QED
        BY <1>1, <1>2, <2>1, <2>2 DEF ListingInv
<1>9. \A v \in Users : \A x : /\ Removing(request'[v], x) <=> Removing(request[v], x)
                              /\ Storing(request'[v], x) <=> Storing(request[v], x)
                              /\ Remembering(request'[v], x) <=> Remembering(request[v], x)
    BY <1>1, <1>2 DEF Removing, Storing, Remembering
<1>10. ReadsInv'
    <2>1. ASSUME NEW v \in Users \ lost PROVE ReadsFirst(queue', request'[v], revived, v)
        <3>1. ReadsFirst(queue, request[v], revived, v)
            BY DEF ReadsInv
        <3>2. \A x \in PostTopics : /\ Removing(request'[v], x) => Removing(request[v], x) /\ ~ Reads(c, v)
                                    /\ Removes(c, v, x) => Removing(request[v], x)
            BY <1>5, <1>9
        <3> QED
            BY <1>3, <3>1, <3>2, ReadsLonger
    <2> QED
        BY <1>1, <2>1 DEF ReadsInv
<1>11. \A v \in Users : \A x : WillBeStored(queue', stored, request'[v], v, x)
                               <=> WillBeStored(queue, stored, request[v], v, x)
    BY <1>3, <1>5, <1>9, StoredLonger DEF WillBeStored
<1>12. ListedInv'
    BY <1>1, <1>11 DEF ListedInv
<1>13. MemoryInv'
    <2>1. \A v \in Users : request[v].step = "forget" => request'[v] = request[v]
        BY <1>1, <1>2
    <2> QED
        BY <1>1, <1>11, <2>1 DEF MemoryInv
<1>14. SubscribedInv'
    BY <1>1, <1>2, SubscribedKept
<1>15. ConnectedInv'
    <2>1. \A v, x : RestoredBy(queue, stored, v, x) => RestoredBy(queue', stored, v, x)
        BY <1>3, RestoredLonger
    <2>2. \A v \in Users : (Connected(v)' <=> Connected(v)) /\ (Opening(v)' <=> Opening(v))
        BY <1>1 DEF Connected, SocketsOf, Opening
    <2> QED
        BY <1>1, <1>9, <1>11, <2>1, <2>2 DEF ConnectedInv
<1> QED
    BY <1>7, <1>8, <1>10, <1>12, <1>13, <1>14, <1>15

(* A request subscribes its user, and whom he invites, in memory. *)
LEMMA RememberInv ==
    ASSUME IInv, TypeOK', RequestInv', NEW u \in Users,
           Filter(u) \/ Remember(u) \/ AlsoRemember(u)
    PROVE  IInv'
<1> USE DEF IInv
<1> DEFINE r == request[u]  n == request'[u]  T == r.topic
<1>1. /\ UNCHANGED <<socket, row, stored, listed, queue, lost, missed, revived>>
      /\ r.step \in {"filter", "remember", "also_remember"}
    BY DEF Filter, Remember, AlsoRemember, tables, history
<1>2. T \in Topics /\ (r.other # Nobody => T \in ChatTopics)
      /\ (r.step = "also_remember" => r.other \in Users)
    BY <1>1 DEF RequestInv, RequestOK
<1>3. PICK step \in Step :
         /\ Goto(u, step)
         /\ \/ /\ r.step = "filter" /\ step = "remember" /\ UNCHANGED subscribers
            \/ /\ r.step = "remember" /\ step = IF r.other = Nobody THEN "store" ELSE "also_remember"
               /\ subscribers' = [subscribers EXCEPT ![T] = @ \cup {u}]
            \/ /\ r.step = "also_remember" /\ step = "store"
               /\ subscribers' = [subscribers EXCEPT ![T] = @ \cup {r.other}]
    <2>1. CASE Filter(u)
        BY <2>1 DEF Filter, Step
    <2>2. CASE Remember(u)
        BY <2>2 DEF Remember, Step
    <2>3. CASE AlsoRemember(u)
        BY <2>3 DEF AlsoRemember, Step
    <2> QED
        BY <2>1, <2>2, <2>3
<1>4. /\ n.step = step /\ n.topic = T /\ n.other = r.other
      /\ \A v \in Users \ {u} : request'[v] = request[v]
    BY <1>3, RequestGoesOn DEF Becomes
<1>5. n.step \in {"remember", "also_remember", "store"}
    BY <1>3, <1>4
<1>6. \A t \in Topics : subscribers[t] \subseteq subscribers'[t]
    BY <1>2, <1>3 DEF TypeOK
<1>7. ASSUME NEW t \in Topics, NEW v \in Users, v \in subscribers'[t]
      PROVE  v \in subscribers[t] \/ (t = T /\ v = u) \/ (t = T /\ T \in ChatTopics)
    <2>1. r.step = "also_remember" => r.other # Nobody
        BY <1>2, NobodyAssumption
    <2> QED
        BY <1>2, <1>3, <1>7, <2>1 DEF TypeOK
<1> HIDE DEF n, T, r
<1>8. \A v \in Users : \A x : /\ Removing(request'[v], x) <=> Removing(request[v], x)
                              /\ Storing(request'[v], x) <=> Storing(request[v], x)
    BY <1>1, <1>4, <1>5 DEF Removing, Storing, n, r, T
<1>9. RestoreInv'
    BY <1>1 DEF RestoreInv
<1>10. ListingInv'
    <2>1. ASSUME NEW v \in Users \ lost PROVE ListingOf(queue, request'[v], revived, v)
        <3>1. ListingOf(queue, request[v], revived, v)
            BY DEF ListingInv
        <3>2. CASE v = u
            BY <1>1, <3>1, <3>2 DEF ListingOf, r
        <3>3. CASE v # u
            BY <1>4, <3>1, <3>3
        <3> QED
            BY <3>2, <3>3
    <2> QED
        BY <1>1, <2>1 DEF ListingInv
<1>11. ReadsInv'
    <2>1. ASSUME NEW v \in Users \ lost PROVE ReadsFirst(queue, request'[v], revived, v)
        BY <1>8 DEF ReadsInv, ReadsFirst
    <2> QED
        BY <1>1, <2>1 DEF ReadsInv
<1>12. \A v \in Users : \A x : WillBeStored(queue', stored', request'[v], v, x)
                               <=> WillBeStored(queue, stored, request[v], v, x)
    BY <1>1, <1>8 DEF WillBeStored
<1>13. ListedInv'
    BY <1>1, <1>12 DEF ListedInv
<1>14. MemoryInv'
    <2> SUFFICES ASSUME NEW v \in Users \ lost, NEW t \in PostTopics, v \in subscribers'[t],
                        <<v, t>> \notin revived
                 PROVE  \/ WillBeStored(queue, stored, request[v], v, t)
                        \/ request'[v].topic = t /\ request'[v].step = "forget"
        BY <1>1, <1>12 DEF MemoryInv
    <2>1. t \in Topics /\ t \notin ChatTopics
        BY TopicsAssumption DEF Topics
    <2>2. CASE v \in subscribers[t]
        <3>1. v # u => request'[v] = request[v]
            BY <1>4
        <3>2. v = u => ~ (request[v].step = "forget")
            BY <1>1 DEF r
        <3> QED
            BY <2>2, <3>1, <3>2 DEF MemoryInv
    <2>3. CASE t = T /\ v = u
        BY <1>1, <2>3 DEF WillBeStored, Storing, T, r
    <2> QED
        BY <1>7, <2>1, <2>2, <2>3
<1>15. SubscribedInv'
    <2> SUFFICES ASSUME NEW w \in Users, NEW t \in Topics, BeingSubscribed(w, t)'
                 PROVE  w \in subscribers'[t] \/ <<w, t>> \in missed
        BY <1>1 DEF SubscribedInv
    <2>1. CASE BeingSubscribed(w, t)
        BY <1>6, <2>1 DEF SubscribedInv
    <2>2. CASE w = u /\ t = T /\ n.step \in {"also_remember", "store"}
        <3>1. CASE r.step = "remember"
            BY <1>2, <1>3, <2>2, <3>1 DEF TypeOK
        <3>2. CASE r.step = "also_remember"
            <4>1. BeingSubscribed(w, t)
                BY <2>2, <3>2 DEF BeingSubscribed, r, T
            <4> QED
                BY <2>1, <4>1
        <3>3. r.step # "filter"
            BY <1>3, <1>4, <2>2
        <3> QED
            BY <1>1, <3>1, <3>2, <3>3
    <2>3. CASE n.other = w /\ t = T /\ n.step \in {"store", "also_store"}
        <3>1. w # Nobody
            BY NobodyAssumption
        <3>2. r.step = "also_remember" /\ r.other = w
            BY <1>3, <1>4, <2>3, <3>1
        <3> QED
            BY <1>2, <1>3, <2>3, <3>2 DEF TypeOK
    <2> QED
        BY <1>4, <2>1, <2>2, <2>3 DEF BeingSubscribed, n, r, T
<1>16. ConnectedInv'
    <2> SUFFICES ASSUME NEW v \in Users \ lost, NEW t \in Topics, <<v, t>> \notin missed,
                        Connected(v), WillBeStored(queue, stored, request[v], v, t)
                 PROVE  \/ v \in subscribers'[t] \/ Opening(v) \/ RestoredBy(queue, stored, v, t)
                        \/ Remembering(request'[v], t)
        BY <1>1, <1>12 DEF ConnectedInv, Connected, SocketsOf, Opening
    <2>1. \/ v \in subscribers[t] \/ Opening(v) \/ RestoredBy(queue, stored, v, t)
          \/ Remembering(request[v], t)
        BY DEF ConnectedInv
    <2>2. ASSUME Remembering(request[v], t), ~ Remembering(request'[v], t) PROVE v \in subscribers'[t]
        <3>1. v = u
            BY <1>4, <2>2
        <3>2. t = T /\ r.step \in {"filter", "remember"} /\ n.step # "remember"
            BY <1>4, <2>2, <3>1 DEF Remembering, r, n, T
        <3>3. subscribers' = [subscribers EXCEPT ![T] = @ \cup {u}]
            BY <1>3, <1>4, <3>2
        <3> QED
            BY <1>2, <3>1, <3>2, <3>3 DEF TypeOK
    <2> QED
        BY <1>6, <2>1, <2>2
<1> QED
    BY <1>9, <1>10, <1>11, <1>13, <1>14, <1>15, <1>16

(* A request forgets. *)
LEMMA ForgetInv ==
    ASSUME IInv, TypeOK', RequestInv', NEW u \in Users, Forget(u)
    PROVE  IInv'
<1> USE DEF IInv
<1> DEFINE r == request[u]  n == request'[u]  T == r.topic
<1>1. /\ UNCHANGED <<socket, row, stored, listed, queue, lost, missed, revived>> /\ r.step = "forget"
      /\ Goto(u, "unstore") /\ subscribers' = [subscribers EXCEPT ![T] = @ \ {u}]
    BY DEF Forget, tables, history
<1>2. T \in Topics /\ T \notin ChatTopics
    BY <1>1 DEF RequestInv, RequestOK
<1>3. /\ n.step = "unstore" /\ n.topic = T /\ n.other = r.other
      /\ \A v \in Users \ {u} : request'[v] = request[v]
    BY <1>1, RequestGoesOn DEF Becomes, Step
<1>4. \A t \in Topics : subscribers'[t] = IF t = T THEN subscribers[t] \ {u} ELSE subscribers[t]
    BY <1>1, <1>2 DEF TypeOK
<1> HIDE DEF n, T, r
<1>5. \A v \in Users : \A x : /\ Removing(request'[v], x) <=> Removing(request[v], x)
                              /\ Storing(request'[v], x) <=> Storing(request[v], x)
                              /\ Remembering(request'[v], x) <=> Remembering(request[v], x)
    BY <1>1, <1>3 DEF Removing, Storing, Remembering, n, r, T
<1>6. RestoreInv'
    BY <1>1 DEF RestoreInv
<1>7. ListingInv'
    BY <1>1, <1>3 DEF ListingInv, ListingOf, r
<1>8. ReadsInv'
    <2>1. ASSUME NEW v \in Users \ lost PROVE ReadsFirst(queue, request'[v], revived, v)
        BY <1>5 DEF ReadsInv, ReadsFirst
    <2> QED
        BY <1>1, <2>1 DEF ReadsInv
<1>9. \A v \in Users : \A x : WillBeStored(queue', stored', request'[v], v, x)
                              <=> WillBeStored(queue, stored, request[v], v, x)
    BY <1>1, <1>5 DEF WillBeStored
<1>10. ListedInv'
    BY <1>1, <1>9 DEF ListedInv
<1>11. MemoryInv'
    <2> SUFFICES ASSUME NEW v \in Users \ lost, NEW t \in PostTopics, v \in subscribers'[t],
                        <<v, t>> \notin revived
                 PROVE  \/ WillBeStored(queue, stored, request[v], v, t)
                        \/ request'[v].topic = t /\ request'[v].step = "forget"
        BY <1>1, <1>9 DEF MemoryInv
    <2>1. t \in Topics
        BY DEF Topics
    <2>2. v \in subscribers[t] /\ ~ (v = u /\ t = T)
        BY <1>4, <2>1
    <2>3. CASE v = u
        BY <2>2, <2>3 DEF MemoryInv, T, r
    <2>4. CASE v # u
        BY <1>3, <2>2, <2>4 DEF MemoryInv
    <2> QED
        BY <2>3, <2>4
<1>12. SubscribedInv'
    <2> SUFFICES ASSUME NEW w \in Users, NEW t \in Topics, BeingSubscribed(w, t)'
                 PROVE  w \in subscribers'[t] \/ <<w, t>> \in missed
        BY <1>1 DEF SubscribedInv
    <2>1. BeingSubscribed(w, t) /\ ~ (w = u /\ t = T)
        <3>1. CASE request'[w].topic = t /\ request'[w].step \in {"also_remember", "store"}
            <4>1. w # u /\ request'[w] = request[w]
                BY <1>3, <3>1 DEF n
            <4> QED
                BY <3>1, <4>1 DEF BeingSubscribed
        <3>2. ASSUME NEW v \in Users, request'[v].other = w, request'[v].topic = t,
                     request'[v].step \in {"store", "also_store"}
              PROVE  BeingSubscribed(w, t) /\ ~ (w = u /\ t = T)
            <4>1. v # u /\ request'[v] = request[v]
                BY <1>3, <3>2 DEF n
            <4>2. t \in ChatTopics
                BY <3>2, <4>1, NobodyAssumption DEF RequestInv, RequestOK
            <4> QED
                BY <1>2, <3>2, <4>1, <4>2 DEF BeingSubscribed
        <3> QED
            BY <3>1, <3>2 DEF BeingSubscribed
    <2> QED
        BY <1>4, <2>1 DEF SubscribedInv
<1>13. ConnectedInv'
    <2> SUFFICES ASSUME NEW v \in Users \ lost, NEW t \in Topics, <<v, t>> \notin missed,
                        Connected(v), WillBeStored(queue, stored, request[v], v, t)
                 PROVE  \/ v \in subscribers'[t] \/ Opening(v) \/ RestoredBy(queue, stored, v, t)
                        \/ Remembering(request[v], t)
        BY <1>1, <1>5, <1>9 DEF ConnectedInv, Connected, SocketsOf, Opening
    <2>1. ~ (v = u /\ t = T)
        BY <1>1 DEF WillBeStored, Storing, Removing, T, r
    <2> QED
        BY <1>4, <2>1 DEF ConnectedInv
<1> QED
    BY <1>6, <1>7, <1>8, <1>10, <1>11, <1>12, <1>13

(* A request ends with the statement that writes or deletes its row, or goes *)
(* on to the row of whom it invites.                                        *)
LEMMA StoreInv ==
    ASSUME IInv, TypeOK', RequestInv', NEW u \in Users, Store(u) \/ AlsoStore(u) \/ Unstore(u)
    PROVE  IInv'
<1> USE DEF IInv
<1> DEFINE r == request[u]  n == request'[u]  T == r.topic
<1>1. /\ UNCHANGED <<socket, subscribers, filter, row, stored, listed, lost, missed, revived>>
      /\ r.step \in {"store", "also_store", "unstore"}
    BY DEF Store, AlsoStore, Unstore, memory, tables, history
<1>2. /\ T \in Topics /\ (r.step = "unstore" => T \notin ChatTopics)
      /\ (r.step = "also_store" => r.other \in Users) /\ (r.other # Nobody => T \in ChatTopics)
    BY <1>1 DEF RequestInv, RequestOK
<1>3. PICK w \in Users, cmd \in {"store", "remove"} :
         /\ Enqueue(cmd, w, {T})
         /\ cmd = IF r.step = "unstore" THEN "remove" ELSE "store"
         /\ w = IF r.step = "also_store" THEN r.other ELSE u
    <2>1. CASE Store(u)
        BY <2>1 DEF Store
    <2>2. CASE AlsoStore(u)
        BY <1>2, <2>2 DEF AlsoStore
    <2>3. CASE Unstore(u)
        BY <2>3 DEF Unstore
    <2> QED
        BY <2>1, <2>2, <2>3
<1> DEFINE c == [cmd |-> cmd, user |-> w, topics |-> {T}]
<1>4. Longer(queue', queue, c) /\ queue \in Seq(Command)
    BY <1>2, <1>3, EnqueueLengthens DEF TypeOK
<1>5. c.cmd = cmd /\ c.user = w /\ c.topics = {T}
    OBVIOUS
<1>6. \/ Becomes(u, Idle) /\ n = Idle
      \/ r.step = "store" /\ Becomes(u, [r EXCEPT !.step = "also_store"]) /\ n.step = "also_store"
         /\ n.other = r.other /\ n.topic = T
    <2>1. Done(u) \/ (r.step = "store" /\ Goto(u, "also_store"))
        BY DEF Store, AlsoStore, Unstore
    <2>2. CASE Done(u)
        BY <2>2, RequestEnds DEF Becomes
    <2>3. CASE r.step = "store" /\ Goto(u, "also_store")
        BY <2>3, RequestGoesOn DEF Step
    <2> QED
        BY <2>1, <2>2, <2>3
<1>7. \A v \in Users \ {u} : request'[v] = request[v]
    BY <1>6 DEF Becomes
<1>8. n.step \in {"idle", "also_store"}
    BY <1>6 DEF Idle
<1> HIDE DEF n, T, r, c
<1>9. \A v, x : /\ ~ Lists(c, v) /\ ~ Reads(c, v)
                /\ Stores(c, v, x) <=> v = w /\ x = T /\ r.step # "unstore"
                /\ Removes(c, v, x) <=> v = u /\ x = T /\ r.step = "unstore"
    BY <1>1, <1>3, <1>5 DEF Lists, Reads, Stores, Removes
<1>10. \A x : /\ Removing(r, x) <=> x = T /\ r.step = "unstore"
              /\ Storing(r, x) <=> x = T /\ r.step = "store"
              /\ ~ Remembering(r, x) /\ ~ Removing(n, x) /\ ~ Storing(n, x)
    BY <1>1, <1>8 DEF Removing, Storing, Remembering, T
<1>11. RestoreInv'
    <2>1. \A i \in DOMAIN queue' : (i \in DOMAIN queue /\ queue'[i] = queue[i]) \/ queue'[i] = c
        BY <1>4 DEF Longer
    <2> QED
        BY <1>1, <1>3, <1>5, <2>1 DEF RestoreInv
<1>12. ListingInv'
    <2>1. ASSUME NEW v \in Users \ lost PROVE ListingOf(queue', request'[v], revived, v)
        <3>1. ListingOf(queue, request'[v], revived, v)
            BY <1>1, <1>7, <2>1 DEF ListingInv, ListingOf, r
        <3> QED
            BY <1>4, <1>9, <3>1, ListingLonger
    <2> QED
        BY <1>1, <2>1 DEF ListingInv
<1>13. ReadsInv'
    <2>1. ASSUME NEW v \in Users \ lost PROVE ReadsFirst(queue', request'[v], revived, v)
        <3>1. \A x : /\ Removing(request'[v], x) => Removing(request[v], x)
                     /\ Removes(c, v, x) => Removing(request[v], x)
            BY <1>7, <1>9, <1>10 DEF r, n
        <3> QED
            BY <1>4, <1>9, <3>1, ReadsLonger DEF ReadsInv
    <2> QED
        BY <1>1, <2>1 DEF ReadsInv
<1>14. \A v, x : StoredAfter(queue', Len(queue'), stored, v, x)
                  <=> Stores(c, v, x) \/ (~ Removes(c, v, x) /\ StoredAfter(queue, Len(queue), stored, v, x))
    BY <1>4, StoredLonger
<1>15. ASSUME NEW v \in Users, NEW x, WillBeStored(queue, stored, request[v], v, x)
       PROVE  WillBeStored(queue', stored, request'[v], v, x)
    <2>1. CASE v = u
        BY <1>1, <1>3, <1>9, <1>10, <1>14, <1>15, <2>1 DEF WillBeStored, r, n
    <2>2. CASE v # u
        BY <1>7, <1>9, <1>14, <1>15, <2>2 DEF WillBeStored
    <2> QED
        BY <2>1, <2>2
<1>16. ASSUME NEW v \in Users, NEW x, WillBeStored(queue', stored, request'[v], v, x)
       PROVE  \/ WillBeStored(queue, stored, request[v], v, x)
              \/ r.step = "also_store" /\ v = w /\ x = T
    <2>1. CASE v = u
        BY <1>1, <1>3, <1>9, <1>10, <1>14, <1>16, <2>1 DEF WillBeStored, r, n
    <2>2. CASE v # u
        BY <1>3, <1>7, <1>9, <1>14, <1>16, <2>2 DEF WillBeStored
    <2> QED
        BY <2>1, <2>2
<1>17. ListedInv'
    BY <1>1, <1>15 DEF ListedInv
<1>18. MemoryInv'
    <2>1. \A v \in Users : request[v].step = "forget" => request'[v] = request[v]
        BY <1>1, <1>7 DEF r
    <2> QED
        BY <1>1, <1>15, <2>1 DEF MemoryInv
<1>19. SubscribedInv'
    <2> SUFFICES ASSUME NEW v \in Users, NEW t \in Topics, BeingSubscribed(v, t)'
                 PROVE  BeingSubscribed(v, t)
        BY <1>1 DEF SubscribedInv
    <2>1. CASE request'[v].topic = t /\ request'[v].step \in {"also_remember", "store"}
        <3>1. v # u
            BY <1>8, <2>1 DEF n
        <3> QED
            BY <1>7, <2>1, <3>1 DEF BeingSubscribed
    <2>2. ASSUME NEW x \in Users, request'[x].other = v, request'[x].topic = t,
                 request'[x].step \in {"store", "also_store"}
          PROVE  BeingSubscribed(v, t)
        <3>1. CASE x # u
            BY <1>7, <2>2, <3>1 DEF BeingSubscribed
        <3>2. CASE x = u
            <4>1. r.step = "store" /\ r.other = v /\ t = T
                BY <1>6, <2>2, <3>2 DEF Idle, n
            <4> QED
                BY <4>1 DEF BeingSubscribed, r, T
        <3> QED
            BY <3>1, <3>2
    <2> QED
        BY <2>1, <2>2 DEF BeingSubscribed
<1>20. ConnectedInv'
    <2> SUFFICES ASSUME NEW v \in Users \ lost, NEW x \in Topics, <<v, x>> \notin missed,
                        Connected(v), WillBeStored(queue', stored, request'[v], v, x)
                 PROVE  \/ v \in subscribers[x] \/ Opening(v) \/ RestoredBy(queue', stored, v, x)
                        \/ Remembering(request'[v], x)
        BY <1>1 DEF ConnectedInv, Connected, SocketsOf, Opening
    <2>1. CASE WillBeStored(queue, stored, request[v], v, x)
        <3>1. \/ v \in subscribers[x] \/ Opening(v) \/ RestoredBy(queue, stored, v, x)
              \/ Remembering(request[v], x)
            BY <2>1 DEF ConnectedInv
        <3>2. RestoredBy(queue, stored, v, x) => RestoredBy(queue', stored, v, x)
            BY <1>4, RestoredLonger
        <3>3. Remembering(request[v], x) => Remembering(request'[v], x)
            BY <1>7, <1>10 DEF r
        <3> QED
            BY <3>1, <3>2, <3>3
    <2>2. CASE r.step = "also_store" /\ v = w /\ x = T
        <3>1. BeingSubscribed(v, x)
            BY <1>3, <2>2 DEF BeingSubscribed, r, T
        <3> QED
            BY <3>1 DEF SubscribedInv
    <2> QED
        BY <1>16, <2>1, <2>2
<1> QED
    BY <1>11, <1>12, <1>13, <1>17, <1>18, <1>19, <1>20

-----------------------------------------------------------------------------
(* With one connection the statement that runs is the first; nothing behind  *)
(* it is being restored.                                                    *)
LEMMA FirstRuns ==
    ASSUME TypeOK, PoolSize = 1, NEW i, Running(i)
    PROVE  i = 1 /\ 1 \in DOMAIN queue /\ 1 \in 1 .. Len(queue) /\ queue \in Seq(Command)
           /\ queue[1] \in Command
<1>0. Connections <= 1
    <2>1. IsFiniteSet(Transactions)
        BY TopicsAssumption, FS_Subset DEF Transactions
    <2>2. Cardinality(Transactions) \in Nat
        BY <2>1, FS_CardinalityType
    <2> QED
        BY <2>2 DEF Connections
<1>1. i \in 1 .. Len(queue) /\ i <= 1 /\ queue \in Seq(Command)
    <2>1. Cardinality(Transactions) \in Nat
        BY TopicsAssumption, FS_Subset, FS_CardinalityType DEF Transactions
    <2> QED
        BY <1>0, <2>1 DEF Running, TypeOK, Connections
<1>2. i = 1
    BY <1>1
<1> QED
    BY <1>1, <1>2

LEMMA FirstEnds ==
    ASSUME IInv, PoolSize = 1, NEW i, Running(i), queue' = RemoveAt(queue, i)
    PROVE  /\ i = 1 /\ queue \in Seq(Command) /\ queue[1] \in Command /\ 1 \in DOMAIN queue
           /\ Without(queue', queue, 1) /\ queue' \in Seq(Command)
           /\ \A j \in DOMAIN queue' : queue'[j].cmd # "restore"
<1> USE DEF IInv
<1>1. i = 1 /\ queue \in Seq(Command) /\ queue[1] \in Command /\ 1 \in DOMAIN queue
    BY FirstRuns
<1>2. Without(queue', queue, 1) /\ queue' \in Seq(Command)
    BY <1>1, StatementEnds
<1>3. /\ DOMAIN queue' = 1 .. Len(queue') /\ DOMAIN queue = 1 .. Len(queue') + 1
      /\ \A j \in 1 .. Len(queue') : queue'[j] = queue[j + 1]
      /\ Len(queue') \in Nat
    BY <1>2 DEF Without
<1>4. \A j \in DOMAIN queue' : j + 1 \in DOMAIN queue /\ queue'[j] = queue[j + 1] /\ j + 1 # 1
    BY <1>3
<1>5. \A j \in DOMAIN queue' : queue'[j].cmd # "restore"
    BY <1>4 DEF RestoreInv
<1> QED
    BY <1>1, <1>2, <1>5

(* A row is written or deleted, or a connection is restored. *)
LEMMA EndInv ==
    ASSUME IInv, TypeOK', RequestInv', PoolSize = 1, NEW i, ExecuteStored(i) \/ Restored(i)
    PROVE  IInv'
<1> USE DEF IInv
<1> DEFINE c == queue[1]
<1>1. /\ Running(i) /\ queue' = RemoveAt(queue, i)
      /\ UNCHANGED <<socket, subscribers, filter, row, listed, request, lost, missed, revived>>
    BY DEF ExecuteStored, Restored, memory, tables, history
<1>2. /\ i = 1 /\ queue \in Seq(Command) /\ c \in Command /\ 1 \in DOMAIN queue
      /\ Without(queue', queue, 1) /\ \A j \in DOMAIN queue' : queue'[j].cmd # "restore"
    BY <1>1, FirstEnds
<1>3. \/ c.cmd = "store" /\ stored' = stored \cup Pairs(c)
      \/ c.cmd = "remove" /\ stored' = stored \ Pairs(c)
      \/ c.cmd = "restore" /\ c.topics = {} /\ stored' = stored
    BY <1>2 DEF ExecuteStored, Restored, tables, history
<1>4. \A u, t : <<u, t>> \in stored' <=>
                   Stores(c, u, t) \/ (~ Removes(c, u, t) /\ <<u, t>> \in stored)
    BY <1>3 DEF Pairs, Stores, Removes
<1>5. \A u, t, there : ~ Restores(c, there, u, t)
    BY <1>3 DEF Restores, Reads
<1> HIDE DEF c
<1>6. RestoreInv'
    BY <1>2 DEF RestoreInv
<1>7. ListingInv'
    BY <1>1, <1>2, ListingWithout DEF ListingInv
<1>8. ReadsInv'
    <2>1. ASSUME NEW v \in Users \ lost PROVE ReadsFirst(queue', request[v], revived, v)
        BY <1>2, ReadsWithout DEF ReadsInv
    <2> QED
        BY <1>1, <2>1 DEF ReadsInv
<1>9. \A u, t : StoredAfter(queue', Len(queue'), stored', u, t)
                 <=> StoredAfter(queue, Len(queue), stored, u, t)
    <2>1. Len(queue') \in 0 .. Len(queue') /\ Len(queue') + 1 = Len(queue)
        BY <1>2 DEF Without
    <2>2. ASSUME NEW u, NEW t
          PROVE  \A k \in 0 .. Len(queue') : StoredAfter(queue', k, stored', u, t)
                                            <=> StoredAfter(queue, k + 1, stored, u, t)
        BY <1>2, <1>4, StoredWithout DEF c
    <2> QED
        BY <2>1, <2>2
<1>10. \A r, u, t : WillBeStored(queue', stored', r, u, t) <=> WillBeStored(queue, stored, r, u, t)
    BY <1>9 DEF WillBeStored
<1>11. ListedInv' /\ MemoryInv' /\ SubscribedInv'
    BY <1>1, <1>10, SubscribedKept DEF ListedInv, MemoryInv
<1>12. ASSUME NEW u, NEW t, RestoredBy(queue, stored, u, t) PROVE RestoredBy(queue', stored', u, t)
    BY <1>2, <1>4, <1>5, <1>12, RestoredWithout DEF c
<1>13. ConnectedInv'
    BY <1>1, <1>10, <1>12 DEF ConnectedInv, Connected, SocketsOf, Opening
<1> QED
    BY <1>6, <1>7, <1>8, <1>11, <1>13

(* A post is listed, or no longer: the request goes on. *)
LEMMA ListingEndInv ==
    ASSUME IInv, TypeOK', RequestInv', PoolSize = 1, NEW i, ExecuteListing(i)
    PROVE  IInv'
<1> USE DEF IInv
<1> DEFINE c == queue[1]  u == c.user  r == request[u]  n == request'[u]
<1>1. /\ Running(i) /\ queue' = RemoveAt(queue, i)
      /\ UNCHANGED <<socket, subscribers, filter, row, stored, lost, missed, revived>>
    BY DEF ExecuteListing, memory, history
<1>2. /\ i = 1 /\ queue \in Seq(Command) /\ c \in Command /\ 1 \in DOMAIN queue
      /\ Without(queue', queue, 1) /\ \A j \in DOMAIN queue' : queue'[j].cmd # "restore"
    BY <1>1, FirstEnds
<1>3. /\ c.cmd \in {"list", "unlist"} /\ u \in Users
      /\ listed' = IF c.cmd = "list" THEN listed \cup Pairs(c) ELSE listed \ Pairs(c)
    BY <1>2 DEF ExecuteListing, Command
<1>4. \/ r.step = "list" /\ Goto(u, r.end)
      \/ r.step # "list" /\ UNCHANGED request
    BY <1>2 DEF ExecuteListing, Goto
<1>5. /\ \A v \in Users \ {u} : request'[v] = request[v]
      /\ r.step # "list" => n = r
      /\ r.step = "list" => n.step = r.end /\ n.topic = r.topic /\ n.other = r.other
      /\ r.step = "list" => r.end \in {"filter", "forget"}
    <2>1. r.step = "list" => r.end \in {"filter", "forget"}
        BY <1>3 DEF RequestInv, RequestOK
    <2>2. r.step = "list" => r.end \in Step
        BY <2>1 DEF Step
    <2>3. CASE r.step = "list" /\ Goto(u, r.end)
        <3>1. Becomes(u, [r EXCEPT !.step = r.end]) /\ n.step = r.end /\ n.topic = r.topic /\ n.other = r.other
            BY <1>3, <2>2, <2>3, RequestGoesOn
        <3> QED
            BY <2>1, <2>3, <3>1 DEF Becomes
    <2> QED
        BY <1>4, <2>1, <2>3
<1>6. Lists(c, u) /\ \A v, t : ~ Stores(c, v, t) /\ ~ Removes(c, v, t) /\ ~ Reads(c, v)
    BY <1>3 DEF Lists, Stores, Removes, Reads
<1>7. u \notin lost => /\ r.step = "list" /\ c.topics = {r.topic}
                       /\ r.end = IF c.cmd = "list" THEN "filter" ELSE "forget"
                       /\ r.end = "forget" /\ <<u, r.topic>> \notin revived =>
                             \A j \in DOMAIN queue : ~ Reads(queue[j], u)
    <2>1. ASSUME u \notin lost PROVE ListingOf(queue, r, revived, u)
        BY <1>3, <2>1 DEF ListingInv
    <2>2. \A j \in DOMAIN queue : ~ (j < 1)
        BY <1>2
    <2> QED
        BY <1>2, <1>6, <2>1, <2>2 DEF ListingOf
<1> HIDE DEF c, u, r, n
<1>8. RestoreInv'
    BY <1>2 DEF RestoreInv
<1>9. ListingInv'
    <2>1. ASSUME NEW v \in Users \ lost PROVE ListingOf(queue', request'[v], revived, v)
        BY <1>2, <1>5, <1>6, <2>1, ListingWithout DEF ListingInv, c
    <2> QED
        BY <1>1, <2>1 DEF ListingInv
<1>10. ReadsInv'
    <2>1. ASSUME NEW v \in Users \ lost PROVE ReadsFirst(queue', request'[v], revived, v)
        <3>1. \A t : Removing(request'[v], t) /\ <<v, t>> \notin revived =>
                       Removing(request[v], t) \/ \A j \in DOMAIN queue : ~ Reads(queue[j], v)
            BY <1>5, <1>7 DEF Removing, r, n
        <3> QED
            BY <1>2, <3>1, ReadsWithout DEF ReadsInv
    <2> QED
        BY <1>1, <2>1 DEF ReadsInv
<1>11. \A v, t : StoredAfter(queue', Len(queue'), stored', v, t)
                  <=> StoredAfter(queue, Len(queue), stored, v, t)
    <2>1. Len(queue') \in 0 .. Len(queue') /\ Len(queue') + 1 = Len(queue)
        BY <1>2 DEF Without
    <2>2. ASSUME NEW v, NEW t
          PROVE  \A k \in 0 .. Len(queue') : StoredAfter(queue', k, stored', v, t)
                                            <=> StoredAfter(queue, k + 1, stored, v, t)
        BY <1>1, <1>2, <1>6, StoredWithout DEF c
    <2> QED
        BY <2>1, <2>2
<1>12. ASSUME NEW v \in Users \ lost, NEW t, ~ (v = u /\ t = r.topic)
       PROVE  WillBeStored(queue', stored', request'[v], v, t)
              <=> WillBeStored(queue, stored, request[v], v, t)
    <2>1. Storing(request'[v], t) <=> Storing(request[v], t)
        BY <1>5, <1>7, <1>12 DEF Storing, r, n
    <2>2. Removing(request'[v], t) <=> Removing(request[v], t)
        BY <1>5, <1>7, <1>12 DEF Removing, r, n
    <2> QED
        BY <1>11, <2>1, <2>2 DEF WillBeStored
<1>13. ASSUME u \notin lost
       PROVE  \/ /\ c.cmd = "list" /\ n.step = "filter" /\ n.topic = r.topic
                 /\ Storing(n, r.topic) /\ Remembering(n, r.topic)
              \/ /\ c.cmd = "unlist" /\ n.step = "forget" /\ n.topic = r.topic
                 /\ Removing(n, r.topic) /\ ~ Storing(n, r.topic)
    BY <1>3, <1>5, <1>7, <1>13 DEF Storing, Removing, Remembering
<1>14. ListedInv'
    <2> SUFFICES ASSUME NEW v \in Users \ lost, NEW t \in PostTopics, <<v, t>> \in listed'
                 PROVE  WillBeStored(queue', stored', request'[v], v, t)
        BY <1>1 DEF ListedInv
    <2>1. CASE v = u /\ t = r.topic
        <3>1. c.cmd = "list"
            BY <1>3, <1>7, <2>1 DEF Pairs, u
        <3> QED
            BY <1>13, <2>1, <3>1 DEF WillBeStored, n
    <2>2. CASE ~ (v = u /\ t = r.topic)
        <3>1. <<v, t>> \in listed
            BY <1>3, <1>7, <2>2 DEF Pairs, u
        <3> QED
            BY <1>12, <2>2, <3>1 DEF ListedInv
    <2> QED
        BY <2>1, <2>2
<1>15. MemoryInv'
    <2> SUFFICES ASSUME NEW v \in Users \ lost, NEW t \in PostTopics, v \in subscribers[t],
                        <<v, t>> \notin revived
                 PROVE  \/ WillBeStored(queue', stored', request'[v], v, t)
                        \/ request'[v].topic = t /\ request'[v].step = "forget"
        BY <1>1 DEF MemoryInv
    <2>1. CASE v = u /\ t = r.topic
        BY <1>13, <2>1 DEF WillBeStored, n
    <2>2. CASE ~ (v = u /\ t = r.topic)
        <3>1. v = u => request[v].step # "forget"
            BY <1>7 DEF r
        <3> QED
            BY <1>5, <1>12, <2>2, <3>1 DEF MemoryInv
    <2> QED
        BY <2>1, <2>2
<1>16. SubscribedInv'
    <2>1. \A v \in Users : \/ request'[v] = request[v]
                          \/ request'[v].step \notin {"also_remember", "store", "also_store"}
        BY <1>5 DEF r, n
    <2> QED
        BY <1>1, <2>1, SubscribedKept
<1>17. ConnectedInv'
    <2> SUFFICES ASSUME NEW v \in Users \ lost, NEW t \in Topics, <<v, t>> \notin missed,
                        Connected(v), WillBeStored(queue', stored', request'[v], v, t)
                 PROVE  \/ v \in subscribers[t] \/ Opening(v) \/ RestoredBy(queue', stored', v, t)
                        \/ Remembering(request'[v], t)
        BY <1>1 DEF ConnectedInv, Connected, SocketsOf, Opening
    <2>1. CASE v = u /\ t = r.topic
        BY <1>13, <2>1 DEF WillBeStored, n
    <2>2. CASE ~ (v = u /\ t = r.topic)
        <3>1. \/ v \in subscribers[t] \/ Opening(v) \/ RestoredBy(queue, stored, v, t)
              \/ Remembering(request[v], t)
            BY <1>12, <2>2 DEF ConnectedInv
        <3>2. RestoredBy(queue, stored, v, t) => RestoredBy(queue', stored', v, t)
            BY <1>1, <1>2, <1>6, RestoredWithout DEF c, Restores
        <3>3. Remembering(request[v], t) => Remembering(request'[v], t)
            BY <1>5, <1>7 DEF Remembering, r
        <3> QED
            BY <3>1, <3>2, <3>3
    <2> QED
        BY <2>1, <2>2
<1> QED
    BY <1>8, <1>9, <1>10, <1>14, <1>15, <1>16, <1>17

(* A statement fails: nothing is said of its user any more. *)
LEMMA FailInv ==
    ASSUME IInv, TypeOK', RequestInv', PoolSize = 1, NEW i, Fail(i)
    PROVE  IInv'
<1> USE DEF IInv
<1> DEFINE c == queue[1]  u == c.user
<1>1. /\ Running(i) /\ queue' = RemoveAt(queue, i)
      /\ UNCHANGED <<socket, subscribers, filter, row, stored, listed, missed, revived>>
    BY DEF Fail, memory, tables, history
<1>2. /\ i = 1 /\ queue \in Seq(Command) /\ c \in Command /\ 1 \in DOMAIN queue
      /\ Without(queue', queue, 1) /\ \A j \in DOMAIN queue' : queue'[j].cmd # "restore"
    BY <1>1, FirstEnds
<1>3. lost' = lost \cup {u} /\ u \in Users /\ (Done(u) \/ UNCHANGED request)
    BY <1>2 DEF Fail, Command
<1>4. \A v \in Users : request'[v] = request[v] \/ (v = u /\ request'[v] = Idle)
    BY <1>3, RequestEnds DEF Becomes
<1>5. ASSUME NEW v \in Users \ lost', NEW t
      PROVE  /\ v \in Users \ lost /\ request'[v] = request[v] /\ ~ Lists(c, v)
             /\ ~ Stores(c, v, t) /\ ~ Removes(c, v, t) /\ \A there : ~ Restores(c, there, v, t)
    BY <1>3, <1>4 DEF Lists, Stores, Removes, Restores, Reads
<1> HIDE DEF c, u
<1>6. RestoreInv'
    BY <1>2 DEF RestoreInv
<1>7. ListingInv'
    BY <1>1, <1>2, <1>5, ListingWithout DEF ListingInv
<1>8. ReadsInv'
    <2>1. ASSUME NEW v \in Users \ lost' PROVE ReadsFirst(queue', request'[v], revived, v)
        BY <1>2, <1>5, ReadsWithout DEF ReadsInv
    <2> QED
        BY <1>1, <2>1 DEF ReadsInv
<1>9. ASSUME NEW v \in Users \ lost', NEW t
      PROVE  StoredAfter(queue', Len(queue'), stored', v, t)
             <=> StoredAfter(queue, Len(queue), stored, v, t)
    <2>1. Len(queue') \in 0 .. Len(queue') /\ Len(queue') + 1 = Len(queue)
        BY <1>2 DEF Without
    <2>2. \A k \in 0 .. Len(queue') : StoredAfter(queue', k, stored', v, t)
                                      <=> StoredAfter(queue, k + 1, stored, v, t)
        BY <1>1, <1>2, <1>5, StoredWithout DEF c
    <2> QED
        BY <2>1, <2>2
<1>10. ASSUME NEW v \in Users \ lost', NEW t
       PROVE  WillBeStored(queue', stored', request'[v], v, t)
              <=> WillBeStored(queue, stored, request[v], v, t)
    BY <1>5, <1>9 DEF WillBeStored
<1>11. ListedInv' /\ MemoryInv'
    BY <1>1, <1>5, <1>10 DEF ListedInv, MemoryInv
<1>12. SubscribedInv'
    <2>1. \A v \in Users : \/ request'[v] = request[v]
                          \/ request'[v].step \notin {"also_remember", "store", "also_store"}
        BY <1>4 DEF Idle
    <2> QED
        BY <1>1, <2>1, SubscribedKept
<1>13. ConnectedInv'
    <2>1. ASSUME NEW v \in Users \ lost', NEW t, RestoredBy(queue, stored, v, t)
          PROVE  RestoredBy(queue', stored', v, t)
        BY <1>1, <1>2, <1>5, <2>1, RestoredWithout DEF c
    <2> QED
        BY <1>1, <1>5, <1>10, <2>1 DEF ConnectedInv, Connected, SocketsOf, Opening
<1> QED
    BY <1>6, <1>7, <1>8, <1>11, <1>12, <1>13

-----------------------------------------------------------------------------
(* The statement at the head changes in place: the rows are read, and then   *)
(* put into memory one by one.                                              *)
Rereads(p, q) ==
    /\ Len(p) = Len(q) /\ Len(q) \in Nat /\ DOMAIN p = 1 .. Len(q) /\ DOMAIN q = 1 .. Len(q)
    /\ \A i \in 1 .. Len(q) : i # 1 => p[i] = q[i]
    /\ 1 \in 1 .. Len(q) /\ p[1].user = q[1].user /\ p[1].cmd = "restore"
    /\ q[1].cmd \in {"select", "restore"}

LEMMA HeadRereads ==
    ASSUME TypeOK, PoolSize = 1, NEW i, Running(i), NEW T \in SUBSET Topics,
           queue' = [queue EXCEPT ![i].cmd = "restore", ![i].topics = T],
           queue[i].cmd \in {"select", "restore"}
    PROVE  i = 1 /\ Rereads(queue', queue) /\ queue'[1].topics = T
<1> DEFINE c == [queue[1] EXCEPT !.cmd = "restore", !.topics = T]
<1>1. i = 1 /\ 1 \in 1 .. Len(queue) /\ queue \in Seq(Command) /\ queue[1] \in Command
    BY FirstRuns
<1>2. c \in Command /\ c.cmd = "restore" /\ c.topics = T /\ c.user = queue[1].user
    BY <1>1 DEF Command
<1>3. queue' = [queue EXCEPT ![1] = c]
    BY <1>1
<1> HIDE DEF c
<1>4. /\ Len(queue') = Len(queue) /\ Len(queue) \in Nat
      /\ DOMAIN queue' = 1 .. Len(queue) /\ DOMAIN queue = 1 .. Len(queue)
      /\ \A j \in 1 .. Len(queue) : queue'[j] = IF j = 1 THEN c ELSE queue[j]
    BY <1>1, <1>2, <1>3, StatementChanges
<1> QED
    BY <1>1, <1>2, <1>4 DEF Rereads

LEMMA RereadsKeep ==
    ASSUME NEW q \in Seq(Command), NEW p, Rereads(p, q)
    PROVE  \A u : /\ \A r, rev : ListingOf(q, r, rev, u) => ListingOf(p, r, rev, u)
                  /\ \A r, rev : ReadsFirst(q, r, rev, u) => ReadsFirst(p, r, rev, u)
                  /\ \A t, st : \A k \in 0 .. Len(q) :
                        StoredAfter(p, k, st, u, t) <=> StoredAfter(q, k, st, u, t)
<1> TAKE u
<1>1. \A i \in DOMAIN q : /\ i \in DOMAIN p
                          /\ Lists(p[i], u) <=> Lists(q[i], u)
                          /\ Lists(q[i], u) => p[i] = q[i]
                          /\ Reads(p[i], u) <=> Reads(q[i], u)
                          /\ \A t : /\ Stores(p[i], u, t) = Stores(q[i], u, t)
                                    /\ Removes(p[i], u, t) = Removes(q[i], u, t)
    BY DEF Rereads, Lists, Reads, Stores, Removes
<1>2. DOMAIN p = DOMAIN q /\ DOMAIN q = 1 .. Len(q)
    BY DEF Rereads
<1>3. ASSUME NEW r, NEW rev, ListingOf(q, r, rev, u) PROVE ListingOf(p, r, rev, u)
    BY <1>1, <1>2, <1>3 DEF ListingOf
<1>4. ASSUME NEW r, NEW rev, ReadsFirst(q, r, rev, u) PROVE ReadsFirst(p, r, rev, u)
    BY <1>1, <1>2, <1>4 DEF ReadsFirst
<1>5. ASSUME NEW t, NEW st
      PROVE  \A k \in 0 .. Len(q) : StoredAfter(p, k, st, u, t) <=> StoredAfter(q, k, st, u, t)
    BY <1>1, <1>2, StoredElsewhere
<1> QED
    BY <1>3, <1>4, <1>5

(* What will be restored is restored now, or will still be. *)
LEMMA RestoredRereads ==
    ASSUME NEW q \in Seq(Command), NEW p, Rereads(p, q), NEW st, NEW u, NEW t,
           RestoredBy(q, st, u, t)
    PROVE  \/ RestoredBy(p, st, u, t)
           \/ Restores(q[1], <<u, t>> \in st, u, t) /\ t \notin p[1].topics
<1>1. PICK i \in 1 .. Len(q) : Restores(q[i], StoredAfter(q, i - 1, st, u, t), u, t)
    BY DEF RestoredBy
<1>2. Len(p) = Len(q) /\ Len(q) \in Nat /\ i - 1 \in 0 .. Len(q)
    BY DEF Rereads
<1>3. StoredAfter(p, i - 1, st, u, t) <=> StoredAfter(q, i - 1, st, u, t)
    BY <1>2, RereadsKeep
<1>4. CASE i # 1
    <2>1. p[i] = q[i]
        BY <1>4 DEF Rereads
    <2>2. Restores(p[i], StoredAfter(p, i - 1, st, u, t), u, t)
        BY <1>1, <1>3, <2>1 DEF Restores
    <2> QED
        BY <1>2, <2>2 DEF RestoredBy
<1>5. CASE i = 1
    <2>1. \A j \in 1 .. 0 : FALSE
        OBVIOUS
    <2>2. StoredAfter(q, 0, st, u, t) <=> <<u, t>> \in st
        BY <2>1 DEF StoredAfter
    <2>3. i - 1 = 0
        BY <1>5
    <2>4. Restores(q[1], StoredAfter(q, 0, st, u, t), u, t)
        BY <1>1, <1>5, <2>3
    <2>5. Restores(q[1], <<u, t>> \in st, u, t)
        BY <2>2, <2>4 DEF Restores
    <2>6. CASE t \in p[1].topics
        <3>1. Restores(p[1], StoredAfter(p, 1 - 1, st, u, t), u, t)
            BY <2>5, <2>6 DEF Restores, Reads, Rereads
        <3> QED
            BY <1>2, <1>5, <3>1 DEF RestoredBy
    <2> QED
        BY <2>5, <2>6
<1> QED
    BY <1>4, <1>5

(* The rows are read; or one of them is put into memory. *)
LEMMA RestoringInv ==
    ASSUME IInv, TypeOK', RequestInv', PoolSize = 1, NEW i, ExecuteSelect(i) \/ Restore(i)
    PROVE  IInv'
<1> USE DEF IInv
<1> DEFINE o == queue[1].user
<1>1. Running(i) /\ UNCHANGED <<socket, row, stored, listed, request, lost, missed, revived>>
    BY DEF ExecuteSelect, Restore, memory, tables, history
<1>2. i = 1 /\ 1 \in DOMAIN queue /\ queue \in Seq(Command) /\ queue[1] \in Command
      /\ o \in Users /\ queue[1].topics \subseteq Topics
    BY <1>1, FirstRuns DEF Command
<1>3. PICK T \in SUBSET Topics :
         /\ queue' = [queue EXCEPT ![1].cmd = "restore", ![1].topics = T]
         /\ \/ /\ queue[1].cmd = "select" /\ T = {t \in Topics : <<o, t>> \in stored}
               /\ UNCHANGED subscribers
            \/ /\ queue[1].cmd = "restore"
               /\ \E t \in queue[1].topics :
                     T = queue[1].topics \ {t} /\ subscribers' = [subscribers EXCEPT ![t] = @ \cup {o}]
    <2>1. CASE ExecuteSelect(i)
        BY <1>2, <2>1 DEF ExecuteSelect, memory, history
    <2>2. CASE Restore(i)
        <3>1. PICK t \in queue[1].topics :
                 /\ subscribers' = [subscribers EXCEPT ![t] = @ \cup {o}]
                 /\ queue' = [queue EXCEPT ![1].topics = @ \ {t}]
            BY <1>2, <2>2 DEF Restore
        <3>2. queue[1].cmd = "restore"
            BY <1>2, <2>2 DEF Restore
        <3> DEFINE T == queue[1].topics \ {t}
        <3>3. [queue[1] EXCEPT !.topics = @ \ {t}] = [queue[1] EXCEPT !.cmd = "restore", !.topics = T]
            BY <1>2, <3>2 DEF Command
        <3>4. queue' = [queue EXCEPT ![1].cmd = "restore", ![1].topics = T]
            BY <3>1, <3>3
        <3>5. T \in SUBSET Topics
            BY <1>2
        <3> QED
            BY <3>1, <3>2, <3>4, <3>5
    <2> QED
        BY <2>1, <2>2
<1>4. Rereads(queue', queue) /\ queue'[1].topics = T
    BY <1>1, <1>2, <1>3, HeadRereads
<1>5. \A t \in T : <<o, t>> \in stored
    BY <1>2, <1>3 DEF RestoreInv
<1>6. \A t \in Topics : subscribers[t] \subseteq subscribers'[t]
    BY <1>2, <1>3 DEF TypeOK
<1> HIDE DEF o
<1>7. ASSUME NEW u \in Users, NEW t \in Topics, u \in subscribers'[t], u \notin subscribers[t]
      PROVE  u = o /\ queue[1].cmd = "restore" /\ t \in queue[1].topics
    BY <1>2, <1>3, <1>7 DEF TypeOK
<1>8. RestoreInv'
    <2> SUFFICES ASSUME NEW j \in DOMAIN queue', queue'[j].cmd = "restore"
                 PROVE  j = 1 /\ \A t \in queue'[j].topics : <<queue'[j].user, t>> \in stored
        BY <1>1 DEF RestoreInv
    <2>1. CASE j = 1
        BY <1>4, <1>5, <2>1 DEF Rereads, o
    <2>2. CASE j # 1
        <3>1. queue'[j] = queue[j] /\ j \in DOMAIN queue
            BY <1>4, <2>2 DEF Rereads
        <3> QED
            BY <2>2, <3>1 DEF RestoreInv
    <2> QED
        BY <2>1, <2>2
<1>9. ListingInv' /\ ReadsInv'
    <2>1. \A u, r, rev : /\ ListingOf(queue, r, rev, u) => ListingOf(queue', r, rev, u)
                         /\ ReadsFirst(queue, r, rev, u) => ReadsFirst(queue', r, rev, u)
        BY <1>2, <1>4, RereadsKeep
    <2> QED
        BY <1>1, <2>1 DEF ListingInv, ReadsInv
<1>10. \A r, u, t : WillBeStored(queue', stored', r, u, t) <=> WillBeStored(queue, stored, r, u, t)
    <2>1. Len(queue) \in 0 .. Len(queue) /\ Len(queue') = Len(queue)
        BY <1>4 DEF Rereads
    <2>2. \A u, t : \A k \in 0 .. Len(queue) :
             StoredAfter(queue', k, stored, u, t) <=> StoredAfter(queue, k, stored, u, t)
        BY <1>2, <1>4, RereadsKeep
    <2>3. \A u, t : StoredAfter(queue', Len(queue'), stored', u, t)
                    <=> StoredAfter(queue, Len(queue), stored, u, t)
        BY <1>1, <2>1, <2>2
    <2> QED
        BY <2>3 DEF WillBeStored
<1>11. ListedInv'
    BY <1>1, <1>10 DEF ListedInv
<1>12. MemoryInv'
    <2> SUFFICES ASSUME NEW u \in Users \ lost, NEW t \in PostTopics, u \in subscribers'[t],
                        <<u, t>> \notin revived
                 PROVE  \/ WillBeStored(queue, stored, request[u], u, t)
                        \/ request[u].topic = t /\ request[u].step = "forget"
        BY <1>1, <1>10 DEF MemoryInv
    <2>1. t \in Topics
        BY DEF Topics
    <2>2. CASE u \notin subscribers[t]
        <3>1. u = o /\ queue[1].cmd = "restore" /\ t \in queue[1].topics
            BY <1>7, <2>1, <2>2
        <3>2. Reads(queue[1], u) /\ <<u, t>> \in stored
            BY <1>2, <3>1 DEF Reads, RestoreInv, o
        <3>3. /\ ~ Removing(request[u], t)
              /\ \A j \in DOMAIN queue : 1 < j => ~ Removes(queue[j], u, t)
            BY <1>2, <3>2 DEF ReadsInv, ReadsFirst
        <3>4. ~ Removes(queue[1], u, t)
            BY <3>1 DEF Removes
        <3>5. \A j \in 1 .. Len(queue) : j = 1 \/ (1 < j /\ j \in DOMAIN queue)
            BY <1>4 DEF Rereads
        <3>6. \A j \in 1 .. Len(queue) : ~ Removes(queue[j], u, t)
            BY <3>3, <3>4, <3>5
        <3> QED
            BY <3>2, <3>3, <3>6 DEF WillBeStored, StoredAfter
    <2> QED
        BY <2>2 DEF MemoryInv
<1>13. SubscribedInv'
    BY <1>1, <1>6, SubscribedKept
<1>14. ConnectedInv'
    <2> SUFFICES ASSUME NEW u \in Users \ lost, NEW t \in Topics, <<u, t>> \notin missed,
                        Connected(u), WillBeStored(queue, stored, request[u], u, t)
                 PROVE  \/ u \in subscribers'[t] \/ Opening(u) \/ RestoredBy(queue', stored, u, t)
                        \/ Remembering(request[u], t)
        BY <1>1, <1>10 DEF ConnectedInv, Connected, SocketsOf, Opening
    <2>1. ASSUME Restores(queue[1], <<u, t>> \in stored, u, t), t \notin T
          PROVE  u \in subscribers'[t]
        <3>1. u = o
            BY <2>1 DEF Restores, Reads, o
        <3>2. queue[1].cmd = "restore" /\ t \in queue[1].topics
            BY <1>3, <2>1, <3>1 DEF Restores
        <3> QED
            BY <1>2, <1>3, <2>1, <3>1, <3>2 DEF TypeOK
    <2>2. RestoredBy(queue, stored, u, t) => RestoredBy(queue', stored, u, t) \/ u \in subscribers'[t]
        BY <1>2, <1>4, <2>1, RestoredRereads
    <2> QED
        BY <1>6, <2>2 DEF ConnectedInv
<1> QED
    BY <1>8, <1>9, <1>11, <1>12, <1>13, <1>14

-----------------------------------------------------------------------------
(* Of a user at rest, what will be stored is what is stored. *)
LEMMA RestIsSettled ==
    ASSUME TypeOK, NEW u \in Users, AtRest(u)
    PROVE  /\ \A t : WillBeStored(queue, stored, request[u], u, t) <=> <<u, t>> \in stored
           /\ \A t : ~ RestoredBy(queue, stored, u, t) /\ ~ Remembering(request[u], t)
           /\ ~ Opening(u) /\ request[u].step = "idle"
<1>1. /\ request[u].step = "idle"
      /\ \A i \in DOMAIN queue : queue[i].user # u
      /\ \A s \in Sockets : Owner[s] = u => socket[s] \in {"closed", "open"}
    BY DEF AtRest
<1>2. DOMAIN queue = 1 .. Len(queue)
    BY DEF TypeOK
<1>3. \A t : ~ Storing(request[u], t) /\ ~ Removing(request[u], t) /\ ~ Remembering(request[u], t)
    BY <1>1 DEF Storing, Removing, Remembering
<1> QED
    BY <1>1, <1>2, <1>3 DEF WillBeStored, StoredAfter, Stores, Removes, RestoredBy, Restores, Reads, Opening

(* A restart leaves the tables; only who was at rest counts on them. *)
LEMMA RestartInv ==
    ASSUME IInv, TypeOK', RequestInv', Restart
    PROVE  IInv'
<1> USE DEF IInv
<1>1. /\ socket' = [s \in Sockets |-> "closed"] /\ subscribers' = [t \in Topics |-> {}]
      /\ queue' = <<>> /\ request' = [u \in Users |-> Idle]
      /\ lost' = lost \cup {u \in Users : ~ AtRest(u)} /\ stored' = stored /\ listed' = listed
    BY DEF Restart
<1>2. DOMAIN queue' = {}
    BY <1>1
<1>3. RestoreInv' /\ ListingInv'
    BY <1>2 DEF RestoreInv, ListingInv, ListingOf
<1>4. ReadsInv'
    BY <1>2 DEF ReadsInv, ReadsFirst
<1>5. ListedInv'
    <2> SUFFICES ASSUME NEW u \in Users \ lost', NEW t \in PostTopics, <<u, t>> \in listed'
                 PROVE  WillBeStored(queue', stored', request'[u], u, t)
        BY DEF ListedInv
    <2>1. AtRest(u) /\ u \notin lost
        BY <1>1
    <2>2. <<u, t>> \in stored
        BY <1>1, <2>1, RestIsSettled DEF ListedInv
    <2>3. \A j \in 1 .. Len(queue') : FALSE
        BY <1>1
    <2>4. ~ Removing(request'[u], t)
        BY <1>1 DEF Idle, Removing
    <2> QED
        BY <1>1, <2>2, <2>3, <2>4 DEF WillBeStored, StoredAfter
<1>6. MemoryInv'
    BY <1>1 DEF MemoryInv, Topics
<1>7. SubscribedInv'
    BY <1>1 DEF SubscribedInv, BeingSubscribed, Idle
<1>8. ConnectedInv'
    <2>1. ASSUME NEW u \in Users PROVE ~ Connected(u)'
        BY <1>1 DEF Connected, SocketsOf
    <2> QED
        BY <2>1 DEF ConnectedInv
<1> QED
    BY <1>3, <1>4, <1>5, <1>6, <1>7, <1>8

(* What changes only the rows of posts keeps the invariant. *)
LEMMA StutterInv ==
    ASSUME IInv, TypeOK', RequestInv',
           UNCHANGED <<socket, subscribers, filter, stored, listed, queue, request, lost, missed, revived>>
    PROVE  IInv'
<1>1. RestoreInv' /\ ListingInv' /\ ReadsInv' /\ ListedInv' /\ MemoryInv' /\ SubscribedInv'
    BY SubscribedKept DEF IInv, RestoreInv, ListingInv, ReadsInv, ListedInv, MemoryInv
<1>2. ConnectedInv'
    BY DEF IInv, ConnectedInv, Connected, SocketsOf, Opening
<1> QED
    BY <1>1, <1>2 DEF IInv

(* Every step keeps the invariant, with one connection to the database. *)
LEMMA NextInv ==
    ASSUME PoolSize = 1, IInv, [Next]_vars
    PROVE  IInv'
<1>1. TypeOK' /\ RequestInv'
    BY NextTyped DEF IInv
<1>2. ASSUME NEW s \in Sockets, HandleNewConnection(s) \/ HandleConnectionClosed(s) PROVE IInv'
    BY <1>1, <1>2, SocketsInv
<1>3. ASSUME NEW s \in Sockets, HandleSocket(s) PROVE IInv'
    BY <1>1, <1>3, WelcomeInv, UnsubscribeInv DEF HandleSocket
<1>4. ASSUME NEW u \in Users, NEW t \in PostTopics,
             AutoSubscribe(u, t) \/ SubscribeToPost(u, t) \/ UnsubscribeFromPost(u, t)
      PROVE  IInv'
    <2>1. t \in Topics
        BY DEF Topics
    <2>2. CASE AutoSubscribe(u, t)
        <3> DEFINE r == [For("filter", t) EXCEPT !.end = "commit"]
        <3>1. Begin(u, r) /\ UNCHANGED queue
            BY <2>2 DEF AutoSubscribe
        <3>2. r \in Request /\ r.step = "filter"
            BY <2>1, RequestsTyped DEF For, Idle
        <3> HIDE DEF r
        <3> QED
            BY <1>1, <3>1, <3>2, BeginInv
    <2>3. CASE SubscribeToPost(u, t)
        <3> DEFINE r == [For("list", t) EXCEPT !.end = "filter"]
        <3>1. Begin(u, r) /\ Enqueue("list", u, {t})
            BY <2>3 DEF SubscribeToPost
        <3>2. r \in Request /\ r.step = "list" /\ r.topic = t /\ r.end = "filter"
            BY <2>1, RequestsTyped DEF For, Idle
        <3> HIDE DEF r
        <3> QED
            BY <1>1, <2>1, <3>1, <3>2, BeginListingInv
    <2>4. CASE UnsubscribeFromPost(u, t)
        <3> DEFINE r == [For("list", t) EXCEPT !.end = "forget"]
        <3>1. Begin(u, r) /\ Enqueue("unlist", u, {t})
            BY <2>4 DEF UnsubscribeFromPost
        <3>2. r \in Request /\ r.step = "list" /\ r.topic = t /\ r.end = "forget"
            BY <2>1, RequestsTyped DEF For, Idle
        <3> HIDE DEF r
        <3> QED
            BY <1>1, <2>1, <3>1, <3>2, BeginListingInv
    <2> QED
        BY <1>4, <2>2, <2>3, <2>4
<1>5. ASSUME NEW u \in Users, NEW t \in EntityTopics,
             SubscribeToEntity(u, t) \/ UnsubscribeFromEntity(u, t)
      PROVE  IInv'
    <2>1. t \in Topics /\ t \notin PostTopics
        BY TopicsAssumption DEF Topics
    <2>2. PICK step \in {"filter", "forget"} : Begin(u, For(step, t))
        BY <1>5 DEF SubscribeToEntity, UnsubscribeFromEntity
    <2>3. UNCHANGED queue
        BY <1>5 DEF SubscribeToEntity, UnsubscribeFromEntity
    <2>4. For(step, t) \in Request
        BY <2>1, RequestsTyped
    <2>5. For(step, t).step = step /\ For(step, t).topic = t
        BY DEF For, Idle
    <2> QED
        BY <1>1, <2>1, <2>2, <2>3, <2>4, <2>5, BeginInv
<1>6. ASSUME NEW u \in Users, NEW v \in Users, NEW t \in ChatTopics, CreateConversation(u, v, t)
      PROVE  IInv'
    <2> DEFINE r == [For("filter", t) EXCEPT !.other = v]
    <2>1. Begin(u, r) /\ UNCHANGED queue
        BY <1>6 DEF CreateConversation
    <2>2. r \in Request /\ r.step = "filter"
        BY RequestsTyped DEF For, Idle, Topics
    <2> HIDE DEF r
    <2> QED
        BY <1>1, <2>1, <2>2, BeginInv
<1>61. ASSUME NEW t \in PostTopics, EndTransaction(t) PROVE IInv'
    BY <1>1, <1>61, StutterInv DEF EndTransaction, memory, history
<1>7. ASSUME NEW u \in Users, HandleRequest(u) PROVE IInv'
    BY <1>1, <1>7, RememberInv, ForgetInv, StoreInv DEF HandleRequest
<1>8. ASSUME NEW i, Execute(i) PROVE IInv'
    BY <1>1, <1>8, EndInv, ListingEndInv, RestoringInv DEF Execute
<1>9. ASSUME NEW i, Fail(i) PROVE IInv'
    BY <1>1, <1>9, FailInv
<1>10. CASE Restart
    BY <1>1, <1>10, RestartInv
<1>11. CASE UNCHANGED vars
    BY <1>1, <1>11, StutterInv DEF vars, memory, tables, history
<1> QED
    BY <1>2, <1>3, <1>4, <1>5, <1>6, <1>61, <1>7, <1>8, <1>9, <1>10, <1>11 DEF Next, Client

(* Nothing is subscribed to, and nobody is connected, when the server starts. *)
LEMMA InitInv == Init => IInv
<1> SUFFICES ASSUME Init PROVE IInv
    OBVIOUS
<1>1. queue \in Seq(Command) /\ DOMAIN queue = {}
    BY EmptySeq DEF Init
<1>2. TypeOK /\ RequestInv
    BY <1>1, RequestsTyped, RequestsBeginOK DEF Init, TypeOK, RequestInv
<1>3. RestoreInv /\ ListingInv
    BY <1>1 DEF RestoreInv, ListingInv, ListingOf
<1>4. ReadsInv
    BY <1>1 DEF ReadsInv, ReadsFirst
<1>5. ListedInv /\ MemoryInv /\ SubscribedInv
    BY DEF Init, ListedInv, MemoryInv, SubscribedInv, BeingSubscribed, Topics, Idle
<1>6. ConnectedInv
    <2>1. \A u \in Users : ~ Connected(u)
        BY DEF Init, Connected, SocketsOf
    <2> QED
        BY <2>1 DEF ConnectedInv
<1> QED
    BY <1>2, <1>3, <1>4, <1>5, <1>6 DEF IInv

(* The invariant, with one connection to the database. *)
THEOREM Invariance ==
    ASSUME PoolSize = 1
    PROVE  Spec => []IInv
<1>1. IInv /\ [Next]_vars => IInv'
    BY NextInv
<1> QED
    BY InitInv, <1>1, PTL DEF Spec

(* A post a user is listed to be subscribed to is among those that a new     *)
(* connection restores, with one connection to the database.                 *)
THEOREM TheListedAreStored ==
    ASSUME PoolSize = 1
    PROVE  Spec => []ListedIsStored
<1>1. IInv => ListedIsStored
    BY RestIsSettled DEF IInv, ListedInv, ListedIsStored
<1> QED
    BY Invariance, <1>1, PTL

(* A connected user at rest is subscribed to everything he stored, however    *)
(* many sockets he has and whatever they, his requests and the invitations of *)
(* others did meanwhile; excused are failed statements, and what was forgotten *)
(* with a last socket between memory and the table.                          *)
THEOREM NoSubscriptionIsLost ==
    ASSUME PoolSize = 1
    PROVE  Spec => []NoLostSubscription
<1>1. IInv => NoLostSubscription
    BY RestIsSettled DEF IInv, ConnectedInv, NoLostSubscription
<1> QED
    BY Invariance, <1>1, PTL

(* A post a user unsubscribed from stays unsubscribed from, whatever statements *)
(* were under way when he asked; excused are failed statements, and the posts *)
(* he was unsubscribing from when another socket of his opened.               *)
THEOREM TheUnsubscribedStayOut ==
    ASSUME PoolSize = 1
    PROVE  Spec => []UnsubscribedFromPost
<1>1. IInv => UnsubscribedFromPost
    BY RestIsSettled DEF IInv, MemoryInv, UnsubscribedFromPost
<1> QED
    BY Invariance, <1>1, PTL

=============================================================================
