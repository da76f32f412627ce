------------------------------ MODULE EventBus ------------------------------
(***************************************************************************)
(* What the publish/subscribe pair inside the process promises, without     *)
(* frames, filters and threads: an event is announced, travels in one queue *)
(* or is lost as a whole, and is shown, once and in the order of the queue,  *)
(* to the open sockets of the users who are subscribed to its topic at that  *)
(* moment.  The promise is suspended while the stream is torn.               *)
(***************************************************************************)
EXTENDS Naturals, Sequences

CONSTANTS Topics, Users, Sockets, Owner

VARIABLES published,   \* the topic of each event
          pending,     \* the events that are announced and not sent
          queue,       \* the payloads on their way
          subscribers, \* by topic
          connected,   \* the open sockets
          inbox,       \* what each socket was shown
          rows,        \* the rows the last delivery stored, by user and event
          torn         \* two publications got into each other

vars == <<published, pending, queue, subscribers, connected, inbox, rows, torn>>

-----------------------------------------------------------------------------
Payload(n) == [kind |-> "data", event |-> n]

Init ==
    /\ published = <<>> /\ pending = {} /\ queue = <<>>
    /\ subscribers = [t \in Topics |-> {}] /\ connected = {}
    /\ inbox = [s \in Sockets |-> <<>>]
    /\ rows = {}
    /\ torn = FALSE

Announce(t) ==
    /\ published' = Append(published, t)
    /\ pending' = pending \cup {Len(published) + 1}
    /\ UNCHANGED <<queue, subscribers, connected, inbox, rows, torn>>

Send(n) ==
    /\ pending' = pending \ {n}
    /\ queue' \in {queue, Append(queue, Payload(n))}
    /\ UNCHANGED <<published, subscribers, connected, inbox, rows, torn>>

(* A row is stored at most for the readers. *)
Deliver ==
    /\ queue # <<>>
    /\ queue' = Tail(queue)
    /\ LET payload == Head(queue)
           readers == subscribers[published[payload.event]]
       IN /\ inbox' = [s \in Sockets |->
                          IF s \in connected /\ Owner[s] \in readers
                          THEN Append(inbox[s], payload) ELSE inbox[s]]
          /\ rows' \subseteq readers \X {payload.event}
    /\ UNCHANGED <<published, pending, subscribers, connected, torn>>

(* Users come, go, subscribe and forget; what a lost socket saw is gone. *)
Environment ==
    /\ subscribers' \in [Topics -> SUBSET Users]
    /\ connected' \subseteq Sockets
    /\ inbox' = [s \in Sockets |-> IF s \in connected' THEN inbox[s] ELSE <<>>]
    /\ UNCHANGED <<published, pending, queue, rows, torn>>

Restart ==
    /\ pending' = {} /\ queue' = <<>>
    /\ subscribers' = [t \in Topics |-> {}] /\ connected' = {}
    /\ inbox' = [s \in Sockets |-> <<>>] /\ rows' = {}
    /\ torn' = FALSE
    /\ UNCHANGED published

Torn == torn \/ torn'

Next ==
    \/ \E t \in Topics : Announce(t)
    \/ \E n \in pending : Send(n)
    \/ Deliver
    \/ Environment
    \/ Restart
    \/ Torn

Spec == Init /\ [][Next]_vars

=============================================================================
