# Verification of the buyer backend

The repository is the backend of a marketplace in which buyers post what they
look for and sellers answer with offers: Drogon coroutine handlers over
PostgreSQL, notifications over a ZeroMQ publish/subscribe pair inside the
process and WebSockets to the users, media in an S3 store, JWT authentication.
This directory models it in TLA+, checks small instances with TLC and proves
theorems about the models with TLAPS.

    tlc -config OfferHistory.cfg MCOfferHistory
    tlapm OfferWorkflowProofs.tla

`PROJECT.json` lists the runs, the lines each definition models, the hazards
and the properties that answer them, the mutants (an edit of the model like a
plausible bug in the code, which the named property must catch) and the
theorems.

## 1. Inventory

| component | code | state | operations |
|---|---|---|---|
| Offer workflow | `controllers/offers.cc` | tables `offers`, `posts.request_status`, `offer_notifications` | create, update, accept, accept_counter, reject, reads, read marks |
| Negotiation | `controllers/offers_negotiation.cc:74-470` | `price_negotiations`, conversations and messages | negotiate, get_negotiations, create_or_get_conversation |
| Proofs and escrow | `controllers/offers_negotiation.cc:545-1285` | `product_proofs`, `escrow_transactions` | request, submit, approve, reject proofs; create, read escrow |
| Posts and subscriptions | `controllers/community.cc` | `posts`, `post_subscriptions` | create, update, filter posts; subscribe and unsubscribe to posts, tags, places |
| Conversations | `controllers/chats.cc` | `conversations`, `conversation_participants`, `messages` | create or find a conversation, send, read, mark as read |
| Notifications | `services/subber/*`, `controllers/notification_websocket.cpp`, `services/service_manager.hpp` | connections and subscribers in memory (one mutex), `user_subscriptions`, `notifications`, two ZeroMQ sockets, the subscriber thread | connect, disconnect, subscribe, unsubscribe, publish, broadcast, start, stop |
| Authentication | `controllers/authentication.cc`, `filters/*.cc` | `users`, `user_sessions`, tokens | register, login, refresh, logout, verify |
| Media | `controllers/media_server.cpp`, `services/media_server/*`, `controllers/scenario_specific_utils.hpp` | `media`, `post_media`, `offer_media`, `message_media`, the S3 bucket | presign, attach, verify, read |
| Locations | `controllers/location.cc` | `locations`, clusters | add, clusters, nearby, recluster |
| Lists, search and dashboard | `controllers/{orders,search,dashboard,users}.cc`, the lists of `community.cc` | `orders` | one INSERT; reads, page by page |
| Filters | `filters/*.cc` | none: a token is checked by its signature and its expiry | authenticate a request or a WebSocket; CORS headers |
| Connection pool | Drogon's `DbClient`, external; `config-sample.json:60-68` | idle connections, waiting commands and transactions | a command, a transaction, its end |
| Start and stop | `main.cc`, `services/service_manager.hpp` | the singletons | initialize, shutdown |

**How they interact.** Every request passes a filter that verifies its JWT, and
runs as a coroutine on one of the event loops (16 in `config-sample.json`).  It
is suspended at each SQL statement.  A handler gives a statement to the
database client, where it commits on its own, or opens a transaction, which
takes a connection out of the pool until the last reference to it dies; that
sends the COMMIT.  The workflow handlers publish their events from inside their
transaction.  An event is two ZeroMQ frames, topic and payload; the subscriber
thread reads them and `ConnectionManager::broadcast` sends them to the users
subscribed to the topic, and stores a row in `notifications` for each.
Subscriptions live twice: in memory, for the users that are connected, and in
`user_subscriptions`, from which a new connection restores them; the writes of
that table are queued (`execSqlAsync`), nobody waits for them.

**Hard behaviours.**

- Checks that are stale when used: the workflow handlers check the status of an
  offer outside their transaction; the conversation and registration handlers
  look for a row and insert it when it is not there.
- Interleavings inside a transaction: six statements on four tables, at READ
  COMMITTED, so that each statement sees what others committed meanwhile.
- Lock cycles between two acceptances on one post; connections of the pool held
  while waiting for another (`update_offer`).
- Events that overtake the commit they tell of.
- Failure in the middle of a handler: the transaction is rolled back, what went
  through the database client stays.
- Two copies of one fact: the status of a negotiation and the `offer_status` in
  the metadata of its message; subscriptions in memory and in the database.
- One ZeroMQ socket that all event loops send on, in two frames and without a
  lock, and a reader that never looks where a message ends.
- Lists that are read in several statements, while rows come and go.

**What makes each part correct.**

- Offer workflow: a deal (accepted offer, accepted negotiation, fulfilled post)
  is made whole or not at all and never undone; what two copies say agrees;
  events follow the truth.
- Conversations, proofs, escrow: two users have one conversation; only the
  parties read what is said about their offer; messages tell of rows that are
  there.
- Subscriptions: memory, the filter of the socket, `user_subscriptions` and
  `post_subscriptions` agree once nothing is in flight.
- Sessions: whoever was told that he is registered is; the credentials a client
  holds work until they expire or are ended; no session is left that nobody can
  end.
- Attachments: a row and its media are written together or not at all; requests
  that wait for connections and rows end.
- Notification delivery: every event reaches every subscriber once, with its
  own payload.
- Lists: a client who turns the pages is sent every row that was there all the
  time with a sort key of its own.

## 2. Plan

| module | models | state |
|---|---|---|
| `Tables`, `TableLemmas` | tables and write sets as functions; lemmas about them | done |
| `OfferWorkflow`, `OfferLedger` | the offer workflow and negotiation, statement by statement; the atomic ledger it implements | done |
| `OfferHistory` | the workflow with a history variable, and what holds while requests take turns | done |
| `OfferWorkflowProofs` | the invariants of `OfferWorkflow` and `OfferHistory`, their properties, and that the workflow implements the ledger | done |
| `Conversations`, `ConversationsProofs` | conversations, messages, proofs and escrow; the safety properties as theorems | done |
| `Subscriptions`, `SubscriptionsProofs` | sockets, subscribers, restored subscriptions, invitations, queued writes, restarts; the safety properties as theorems | done |
| `Delivery`, `EventBus`, `DeliveryProofs` | publish and the subscriber thread, frame by frame, and broadcast; the bus it implements, with a proof that it does | done |
| `Sessions`, `SessionsProofs` | accounts, sessions, tokens and the filter that checks them; the safety properties as theorems | done |
| `Attachments`, `AttachmentsProofs` | transactions with media and notifications, the connection pool, failures and crashes; the safety properties as theorems | done |
| `Listings`, `ListingsProofs` | lists read page by page while rows come, go and move; two theorems | done |

The workflow comes first: it is the program's purpose, the only part where one
request changes the rows of others, and where a mistake costs a user a deal.
Delivery comes after the subscriptions, whose result it takes: who subscribes
has set the filter.  Every module but the abstract specifications and the proofs
has an `MC` module, which gives TLC the functions and symmetries a `.cfg` cannot
write, and one `.cfg` per run.

## 3. Conventions of the models

- One SQL statement is one step, because a handler is suspended at each
  `co_await`; what the handler does between two statements belongs to the step.
- At READ COMMITTED an UPDATE chooses its rows in a snapshot taken when it starts
  and evaluates its WHERE clause again on the rows it had to wait for; rows
  committed meanwhile are missed. The two statements of `OfferWorkflow` that
  select the rows of others are therefore two steps: `SeeRivals` and
  `SeeOthersNegotiations` take the snapshot (`seen`), and `RejectRivals` and
  `RejectOthersNegotiations` write what of it qualifies still once its locks are
  free. The other statements go by the id of a row, or select rows of an offer
  whose row the request has locked, so that nobody else inserts or writes them;
  they are one step, taken when the locks are free.
- `pc[r]` is the next statement of request `r` and `req[r]` its locals. A
  request that is over takes `idle` again, except in `Attachments`, where each
  element of `Requests` is one request, so that what it was answered can be
  compared with what it left.
- Refusals (a 4xx answer before anything is written) leave everything as it is
  and are the absence of a step, except where the answer matters.
- `Fail` stands for everything that ends a request in the middle: an SQL error,
  a missing object, a lost connection, a process that stops.
- Wording, prices in digits, names and passwords are members of small sets.
- The ids a table hands out, the messages, the tokens and the seconds are
  bounded by constants marked `bound`. When they are used up nothing more can
  start, so the runs say `CHECK_DEADLOCK FALSE`; the runs of `Subscriptions` and
  `Delivery`, where something can always happen, check for deadlock.
- What a handler guarantees only when nothing comes between its checks and its
  writes is stated for behaviours in which no two requests were ever in flight
  together: `OneConversation`, `HeldCanBeRefreshed` and what `OfferHistory` adds.
  Those modules remember in the history variable `overlapped`, which no action
  reads, whether requests ever were. The races themselves are disagreements of the
  code, which section 11 lists. Each request may still
  fail at any statement, and what it wrote before stays.
- A definition under the comment `Mutation:` is no part of the model. It is a
  plausible bug, and `PROJECT.json` says which definition it replaces and which
  property must then fail.

## 4. The offer workflow: `OfferWorkflow` and `OfferLedger`

| in the model | in the code |
|---|---|
| `posts`, `offers`, `negotiations` | `posts.request_status`, `offers`, `price_negotiations` |
| `messages` | `metadata.offer_status` of the message a negotiation belongs to |
| `w[r]` | the rows the open transaction of `r` has written; they are locked |
| `sent` | the event the last step published |
| `CreateOffer`, `NegotiateStart/UpdateOffer/Insert` | `create_offer`, `negotiate_offer` |
| `UpdateOfferCheck`, `UpdateOffer` | `update_offer`: SELECT and check, then an UPDATE that commits on its own |
| `RejectOfferCheck`, `RejectOffer` | `reject_offer`, likewise |
| `AcceptOfferCheck`, `AcceptOffer`, `PickLatest` | `accept_offer` up to the latest pending negotiation |
| `AcceptCounterCheck`, `PickCounter`, `AcceptCounter` | `accept_counter_offer` up to the price it takes over |
| `AcceptNegotiation` ... `FulfilPost` | the statements both share: negotiations, rivals, their negotiations, the post |
| `SeeRivals`, `SeeOthersNegotiations`, `seen` | the snapshots of the two statements on the rows of others |
| `Publish`, `Commit` | the event, and the last reference to the transaction dying |
| `Granted`, `DeadlockVictim`, `Fail` | row locks, the deadlock detector, errors |

`update_message_metadata` runs right behind the statement it follows on the
same connection and is part of its step. The number of a negotiation is its
rank by `created_at`, the start of the inserting transaction, so a transaction
that commits later can carry the older number. Media and `offer_notifications`
are in `Attachments`, the conversation a negotiation opens in `Conversations`.

`OfferLedger` is what the workflow promises: create, update, reject, negotiate
and accept as single steps on the committed tables. `RefinesLedger` is its
specification with the committed tables for its variables
(`INSTANCE OfferLedger WITH`): each commit of the detailed model is such a step on
the tables of that moment, although the handler read them several statements
earlier.

`OfferHistory` adds `overlapped` and states what no lock protects, as long as
requests took turns: that a decision is final, the newest proposal wins, an
acceptance closes the rivals, and messages mirror their negotiations.

`NotifiedAfterCommit` is about `accept_counter_offer`, whose comments promise it;
`accept_offer` publishes in the same place and promises nothing.

## 5. Conversations, proofs and escrow: `Conversations`

`participants` and `messages` are the tables of a conversation, `proofs` and
`escrows` those the messages tell of. The three places that look for a
conversation and open one when there is none (`chats.cc:180`, `chats.cc:556`,
`offers_negotiation.cc:79`) are `Found`, `NotFound`, `OpenConversation` and
`Join`; `Tell` inserts a message, `Mark` marks messages read. Only
`send_message` and `negotiate_offer` use a transaction. Left out: attachments of
messages (see `Attachments`), the subscriptions `create_conversation` makes (see
`Subscriptions`), and the deletion of users. `SaidBetweenTheParties`, `TellsOfItsOffer` and
`ReadByTheOther` hold in every interleaving, `OneConversation` as long as no two
requests overlapped.

`WhatIsDoneIsTold` also holds in every interleaving: the handlers write a row or a
decision, look for a conversation, perhaps open and join one, and insert the
message, in statements that commit apart. `failed` remembers rows whose request
failed in between: nobody tells of them any more, and they are excused as long as
they stand; a later decision on the same proof has to be told again.

## 6. Subscriptions: `Subscriptions`

`socket` is the life of each WebSocket, `subscribers` and `filter` the memory of
`ConnectionManager` and the filter of the SUB socket, `stored` and `listed` the
tables, `queue` the statements given to `execSqlAsync` in order, of which the
first run, one on each connection (`Running`). `Unsubscribe` is the loop of a
closing socket, under a lock of its own. A restoring statement reads in
`ExecuteSelect` and calls back, topic by topic, in `Restore`; its connection is held
until `Restored`. `Restart` keeps the tables only.

`row` is the row of each post, offer and conversation: not there yet, `open` in a
transaction, there, or rolled back. `create_post` and `create_offer` subscribe and
answer while their transaction is open (`AutoSubscribe`, `community.cc:254`), and it
may be rolled back afterwards (`EndTransaction`); it holds a connection meanwhile
(`Transactions`, `Connections`, `FreeConnection`), so that with the one of
`config-sample.json:65` the row of the subscription is only written behind it.
`create_conversation` (`chats.cc:229`) subscribes the other participant too, who
did not ask (`CreateConversation`, `AlsoRemember`, `AlsoStore`).

Sockets open and close at any moment, those of other devices in the middle of a
request too. Three histories name what the code does not prevent:

- `lost`: users one of whose statements failed, or was under way at a restart.
- `missed`: a topic was put into memory, the last socket of the user closed and
  forgot it, and only then was its row enqueued (`connection_manager.hpp:181`,
  `community.cc:254`). A socket that opens in between does not read the row, and
  nothing subscribes it until the next one opens. The request may be the user's
  own, from a device without a socket, or an invitation.
- `revived`: a socket was opened while its user was unsubscribing from a post. Its
  SELECT may run between the two DELETEs, and its callback after
  `community.cc:790` has forgotten the post: it is back in memory, and in no table.

`NoLostSubscription` excuses `missed`, topic by topic, and `UnsubscribedFromPost`
excuses `revived`; each property fails without its excuse and holds with it, so
these windows are the only ones. Tags and places are forgotten before any
statement, so that every SELECT under way may bring them back (section 11);
`UnsubscribedFromPost` is about posts.

Bounds and assumptions: one request of a user at a time (`request`); one connection
in the runs, as in the configuration, because with more the INSERT and the DELETE of
one subscription run in either order; entity names are not of the form of a post
topic; `Nobody`, in a request that invites no one, is not a user
(`NobodyAssumption`). `AsksFor` says which user makes requests on which topics: in
the run `subscriptions` one user with two sockets has a post and an entity, in
`subscriptions_invited` a user with one socket has a post, and another opens a
conversation with him.

## 7. Accounts and sessions: `Sessions`

Register is a check and an INSERT under unique constraints; login, refresh and
logout are statements that commit on their own. An access token is
`[user, second]`, as `generate_jwt` makes it; a refresh token is new each time.
`held` are the credentials the clients were answered and have not replaced or
given up, `issued` all that were generated. Responses are not lost in the
model and passwords are abstracted. `Authorized` is the check of
`AuthMiddleware`: signature and expiry (`TokenLifetime`), and no look at
`user_sessions`. A token is therefore accepted until it expires, after a logout
or a refresh as well, and a logout with an expired one is refused.

`expires_at` is a TIMESTAMP without time zone: `to_timestamp` stores it in the time
zone of the database session, and the handlers read it back as UTC
(`authentication.cc:350`, `404`). `ReadExpiry` is that conversion, off by `Zone`, which
is taken not to change while sessions last; in the run the database is west of UTC,
where sessions end early. `HeldCanBeRefreshed` asks for the time that is read, and
excuses credentials whose token equals another one of the same user and second.

## 8. Attachments and the connection pool: `Attachments`

A request checks, begins a transaction (`holding` names the requests that have
a connection), writes its row, and per object key asks the store
(`GetMediaInfo`), upserts the media row (locked by key) and inserts the link.
`create_offer` then inserts the notification of the owner of the post in the
same transaction (`NotifyOwner`, `notes`). The request answers (`Answer`) and then
commits when the coroutine ends (`Commit`). A missing object is `SomeMissing`:
rollback and 400. An SQL error on the way rolls the transaction back and gives the caller an error string, which every caller
then reads as a vector (`Unexpected`). That is undefined. `create_post` decides
by it: the pointer and the length of a string stand where the vector has its
ends, so it is not empty, and its size is a negative difference read as
unsigned; the check passes and the client is answered success. A build with
library assertions stops instead, as a read of the garbage media in the other
callers may; the model has both, with and without `Faults`, because a key that is
named twice or a lock cycle aborts a statement in a healthy system too.
`update_post` answers at once when there is nothing to update (`NothingToUpdate`,
`community.cc:465`).
`update_offer` gives its UPDATE to the client and not to its transaction
(`UpdateOffer`): it needs a second connection and commits at once. `WholeRequests`
and `FailedLeavesNoTrace` take its row for a change of its own and hold its media to
all or none. The order in which the pool serves is left to the fairness assumption.

## 9. Delivery: `Delivery` and `EventBus`

| in the model | in the code |
|---|---|
| `SendTopic`, `SendData` | the two `send` of `PubManager::publish` (`pub_manager.hpp:18`) |
| `message`, `kept` | the message the PUB socket is in the middle of, and whether it found a matching filter and room at its first frame |
| `filter`, `applied`, `SetFilter`, `ApplyFilter` | `setsockopt(SUBSCRIBE)`, and the subscription that reaches the PUB socket later |
| `ReceiveTopic`, `ReceiveData`, `DataMissing`, `NothingToReceive` | the loop of the subscriber thread (`sub_manager.hpp:53`) |
| `Broadcast`, `rows` | `ConnectionManager::broadcast` and the rows it stores |
| `AddConnection`, `RemoveConnection`, `Unsubscribe`, `known` | the two locks of a connection; the keys of `connections_` |

An event is two frames. Nothing keeps two event loops from sending their frames
alternately: a topic that is sent while a message is open becomes a part of it,
`torn` remembers it, and the reader, who takes frames two by two, pairs topics
with the wrong payloads. `FramesAligned` says what is true otherwise, and that the
stream heals when the thread finds it empty. A message is dropped as a whole:
when no filter matches its first frame, or when the peer's queue is full.
`HighWater` is the fewest waiting frames at which that may happen; the socket may
also go on accepting, because it learns late of what was read. Filters match by
prefix (`chat:1` is one of `chat:12`), while `broadcast` looks for the topic
itself. A filter reaches the publisher later than it is set, so that an event
published right after a subscription, as `create_conversation` does
(`chats.cc:247`), may be lost; `EveryEventArrives` speaks of accepted events.

`EventBus` is what is left for a reader of the code: an event is announced, sent
as a whole or lost, and shown once, in the order of the queue, to the open
sockets of the subscribers of its own topic. `ImplementsBus` is the refinement,
with `queue` every second frame, from the one in hand; `Torn` suspends it.
`InOrder` holds even then.

The keys of `connections_` are kept apart from the sockets because they differ:
the loop that removes a key runs over `subscribers_`, and does nothing while that
map has no key (`touched`). A user with a key and no socket gets a row.

Assumed: each call on a socket is one step, although the code shares the sockets
between threads, for which libzmq promises nothing; a payload is JSON that
parses, and a topic is neither empty nor the beginning of JSON; errors of `send`
and `recv` other than EAGAIN do not happen; a subscriber has set the filter
before (`SubscriptionsProofs`). In the instance each event loop publishes one
topic.

## 10. Lists: `Listings`

A page is one SELECT with ORDER BY, LIMIT and OFFSET, and the next one knows
nothing of it. `list` names the list, `rows` its table as the sort keys of the rows,
`shown` those the WHERE clause selects. `Insert` puts a row anywhere, because
`created_at` is the start of a transaction and names come in any order;
`EnterFilter` and `LeaveFilter` are changes of what `filter_posts` and the search
of posts select by; `Move` is `add_location` of somebody who is nearby or was. `Get`
asks for the next page or one the client had, with whatever he sends for a
number, and `Size`, `AtLeastOne` and `Offset` are the arithmetic of the handlers.

`NothingMissed`: of the rows that were in the list all the time the client misses
at most one for each row that left, and so none in the lists nothing leaves.
Rows he sees twice are the price of every row that comes in.

`KeyOf` is the sort key of a row. Ids, names and statuses are unique, but
`created_at` and distances may tie (`community.cc:124`, `location.cc:198`), and ORDER BY
then leaves the order open, to every page anew: a row may be on two pages or on
none. `Pages` are the pages the database may send, with the rows of one key in any
order, and `NothingMissed` speaks of the rows whose key no other row in the list had
meanwhile (`Alone`). That tied rows may be missed is a disagreement of section 11.
The instance has two rows of one key. The
query parameter `page` is modelled; `filter_posts` reads a page from its body
unchecked (`community.cc:598`), which below one gives an error of the database
and no page.

## 11. Runs

| run | instance | shows |
|---|---|---|
| `workflow_concurrent` | 2 requests, 2 users, 2 offers of a post, 2 negotiations, 2 prices | what locks and filters protect in every interleaving, that the workflow implements `OfferLedger`, and what holds while requests take turns |
| `workflow_liveness` | 2 requests, 2 offers, 1 negotiation, 1 price | `EveryRequestEnds`, through lock cycles |
| `conversations` | 2 requests, 3 users, 2 offers, 2 conversations, 1 proof, 1 escrow, 1 message | who reads what, messages that tell the truth, nothing done in silence, one conversation |
| `delivery` | 2 event loops, 2 topics, one a prefix of the other, 3 events, 1 user with 2 sockets | `EventBus` is implemented; frames stay aligned or heal; what is accepted arrives |
| `subscriptions` | 1 user, 2 sockets, 1 post, 1 entity, 1 connection, 2 statements waiting | memory and tables agree at rest, but for the two windows of section 6; the filter |
| `subscriptions_invited` | 2 users, 1 socket of the one whom the other invites, 1 post, 1 conversation, 1 connection, 2 statements waiting | the invited user is subscribed when everything is done; every request is answered |
| `sessions` | 2 requests, 2 names, 2 emails, 3 refresh tokens, 3 seconds, a database west of UTC | registrations, sessions and credentials |
| `attachments_faults` | 2 requests that create and update posts and offers, 2 keys in lists of up to 2, 2 connections, faults | all or nothing |
| `attachments_live` | 2 requests that update posts and offers and send messages, 2 keys, 3 connections, no faults | every request ends |
| `listings` | all eight lists, 5 rows, two of one key, pages of 2 and 3, 2 departures | a page turner misses no row that stays and is not tied |

The bounds are the smallest in which the interesting things happen: two
requests meet at every statement and two offers make rivals and a lock cycle;
two negotiations are needed for an older and a newer one, or one accepted and
one rejected; two keys taken in two orders deadlock, and a list that names one
key twice violates the key of the link; two sockets of one user make the last
one different from the first; three events and two event loops give a
thread that publishes twice around another, and frames of two messages in each
other; five rows on pages of two are three pages, the last not full. A third
concurrent request adds no new pair of statements, and the theorems of section
13 cover the others. Symmetry is used for requests, ids, prices and keys that no definition tells apart, and in
no run with a liveness property.

The largest is `subscriptions` (1.5 million distinct states); `conversations`,
`subscriptions_invited` and `workflow_concurrent` have about half a million. In
`conversations` only who reads begins anything once the messages of the bound are
sent; the requests in flight go on. The pages of posts and places have one size, so
`asked` varies in the other lists only.

### Findings: runs that TLC must find violated

| run | property | what the code does |
|---|---|---|
| `workflow_notify` | `NotifiedAfterCommit` | `accept_counter_offer` publishes the acceptance inside the transaction |
| `attachments_pool` | `EveryRequestEnds` | `update_offer` waits for the connection it holds |

`PROJECT.json` quotes the line each of them disagrees with.

### Other disagreements

What TLC showed while the models were written, and for which no run is kept. The
properties above are stated so that they hold all the same.

- A rejection overwrites an acceptance that is committed after its check: the
  status is read at `offers.cc:1176` and the UPDATE at `offers.cc:1212` goes by id
  alone, although the answer at `offers.cc:1204` is "Only pending offers can be
  rejected". The accepted negotiation stays, and so does the fulfilled post.
- `update_post` only adds media (`community.cc:506`); the comment at
  `community.cc:392` says "Media files are overwritten with new files."
- Two acceptances of one offer that overlap both succeed, because the UPDATE at
  `offers.cc:779` does not look at the status again; the test comment
  at `test_offers_workflow.cc:607` wants one accepted message per offer.
- Rivals are rejected without completing their negotiation (`offers.cc:864`),
  although the test comment at
  `test_offers_workflow.cc:692` speaks of accepted and rejected offers.
- Two requests that look for a conversation at once open one each
  (`offers_negotiation.cc:95`), although each checks first whether
  one exists.
- An escrow can be created for an offer in any status
  (`offers_negotiation.cc:1121`); the comment in `test_proofs_and_escrow.cc:100`
  accepts the offer first.
- A subscription whose user's last socket closes between the write to memory and
  the one to the table, and opens again before the latter, is in the table and not
  in memory (`connection_manager.hpp:181`): he is not told of the topic until his
  next socket opens.
- A socket opened while its user unsubscribes from a post may subscribe him again, in
  memory only (`community.cc:782`, `notification_websocket.cpp:109`): he is told of a
  post he is subscribed to in neither table, until his last socket closes.
- `create_post` and `create_offer` subscribe their user before their transaction ends
  (`community.cc:254`): after a rollback he stays subscribed to a post that is not
  there.
- Unsubscribing from a tag or a place forgets it in memory at once
  (`community.cc:857`) and in the table later; a connection whose restoring SELECT
  (`notification_websocket.cpp:109`) runs in between subscribes the user again.
- Two logins of a user in one second get equal access tokens, and the INSERT
  skips the second session (`authentication.cc:233`): its refresh token is stored
  nowhere. The same is answered to a refresh that another refresh or a logout
  overtakes (`authentication.cc:402`).
- `update_offer` keeps its UPDATE when it answers 400 for a missing object
  (`offers.cc:589`), because the UPDATE is not part of its transaction.
- `create_post` answers success after a rollback when a list names one key twice
  (`community.cc:229`), as section 8 explains.
- Every handler answers before its transaction commits (`community.cc:291`): a commit
  that fails is found out by nobody, and a client may ask for what is not there yet.
- Two posts of one `created_at`, or two places of one distance, may be shuffled from
  page to page (`community.cc:124`, `location.cc:198`), so that a reader is sent one of
  them twice and the other never.
- Where the database is not on UTC, sessions end early or late by the difference
  (`authentication.cc:404`).

## 12. Fairness

- `OfferWorkflow`, `Attachments`: strong fairness of each request's next
  statement. A statement that is enabled again and again (the rows or the
  connection it waits for come free) is served in the end, because PostgreSQL
  queues waiters for a lock and Drogon queues requests for a connection. Weak
  fairness of `DeadlockVictim`, because the detector runs after
  `deadlock_timeout`. Arrivals and failures are not fair.
- `Delivery`: weak fairness of the subscriber thread, which loops until the
  process stops, and of the second `send` of a publication, which follows the
  first without a suspension. Not of filters, publications or clients.
- `Subscriptions`: weak fairness of the event loop for each socket and each
  user's request, of the end of a transaction, which is the end of its handler, and
  of the statement at the head of the queue. Not of clients.
- No timeout helps: `config-sample.json:68` has none.

## 13. What is proved

Every safety and action property that a passing run checks, and both refinements,
are theorems, for every value of the constants, under the named `ASSUME`s of the
modules (which TLC evaluates in every run) and the hypotheses named below. Each
`...Proofs` module has an inductive invariant (`OfferWorkflowProofs` three, each
relying on the ones before, `SubscriptionsProofs` a smaller one too), proved by
`Invariance` (for the lists, within `NothingIsMissed`), and the other theorems
follow from it. The proof that `Next`
preserves it goes action by action, in a lemma each where the argument is long,
and under an action conjunct by conjunct.
`TableLemmas` has what the proofs need of `\oplus`, `Row` and `Tables`. The type
invariant is the first conjunct each time (`TypeCorrect`).

### The offer workflow: `OfferWorkflowProofs`

For any number of requests, users, posts, offers, negotiations and prices; the
first two invariants in every interleaving, the third while requests take turns.

- `IInv` (`Invariance`): the type invariant, what the locals of a request mean at
  each label (`LocalsInv`), how its uncommitted rows relate to the committed ones
  (`OfferWritesInv`, `NegotiationWritesInv`, `PostWritesInv`, `CounterInv`), that
  ids are handed out once (`FreshIds`), that a negotiation is locked by one
  request (`NegotiationLocks`), that negotiations have offers, and
  `DealClosesPost`.
  - `DealsClosePosts`: not inductive by itself, because the commit needs that
    every acceptance in a write set comes with the post.
  - `AcceptedStaysAccepted`: a commit changes a negotiation only if its write set
    has it, and then the negotiation was pending or the row is still accepted;
    the lock keeps this true while others commit.
  - `CounterPriceIsAgreed`: from `CounterInv`, that the price read before the
    locks is still that of the negotiation.
- `LedgerInv` (`LedgerInvariance`, with `IInv`): `RowsInv` says for each handler
  and label what its write set holds, in terms of the rows that are committed
  now; that is stable because the row of an offer is locked by one request
  (`OfferLocks`). `AcceptedIsDecided` (an accepted negotiation has a decided offer) and
  "every negotiation has its message" make `MessageKeepsUp` inductive: without
  the first, the rejection of a rival could overwrite the message of an
  accepted negotiation.
  - `MessagesKeepUp`: a conjunct.
  - `LedgerIsImplemented`: `Spec => RefinesLedger`. Initial states map to initial
    states. A commit is the step of `OfferLedger` that its handler names, since
    `RowsInv` gives its write set as the ledger writes it (`CommitCreates`,
    `CommitNegotiates`, `CommitAccepts`); the statements of `update_offer` and
    `reject_offer` are steps of their own (`DirectRefines`); all else leaves the
    tables alone.
- `Undisturbed` (`HistoryInvariance`, as long as `overlapped` is false): no two
  requests are under way, the offer a request works on is pending still
  (`StillPending`), at each label of an acceptance the statements so far have dealt
  with all they are to deal with (`Settled`) and the messages written belong to
  negotiations that are, or are about to be, written (`MessagesFollow`); no
  pending offer has a decided negotiation (`OpenOffersAreOpen`), and a snapshot is
  still what the tables say when its rows are written. The last is
  needed because the statements that reject rivals and `update_message_metadata`
  select messages by offer, whatever the status of their negotiation. The three invariants and the
  three action properties of `OfferHistory` follow (`MessagesMirrorNegotiations`,
  `OffersAreSettledOnce`, `DealsStand`, `DecisionsAreFinal`,
  `AcceptancesCloseRivals`, `NewestProposalsWin`).

### Conversations, proofs and escrow: `ConversationsProofs`

`LocalsInv` is what a request knows at each label: the parties of its offer, the
row it tells of, the conversation it found, which keeps its participants once
it has any. `PairsInv`: a conversation nobody has joined yet belongs to the one
request that opened it, so that `Join` makes it one of two users.
`SaidBetweenTheParties` and `TellsOfItsOffer` need both, in any interleaving.
`WhatIsDoneIsTold` is inductive with `LocalsInv`: a row is accounted for by its
message, by the request on its way to it (`ToTell`) or by its failure, and each
statement hands it on (`AccountedKept`, `ToldKept`).
`TurnsInv` is what holds while requests take turns: the two users for whom no
conversation was found have none until it is joined; from it `OneConversation`.

### Sessions: `SessionsProofs`

`LocalsInv` ties the locals to `users` and to what was issued; `IssuedInv`: the
rows and the credentials held were issued, and a refresh token once, so that a
row a refresh finds is that of the credentials it was sent. `TurnsInv`, while requests
take turns: a row that was found is there until it is written, and credentials
whose access token no others share are stored while they last.
`ToldIsRegistered` and `EverySessionIsHeld` hold in every interleaving,
`HeldCanBeRefreshed` while requests take turns.

### Attachments: `AttachmentsProofs`

`LocalsInv` says at each label what a transaction has: its row, the media and
links of the keys dealt with so far, its notification. `TracesInv`: whoever has a
row or a link in the tables has committed, unless he is `update_offer`.
`ErrorsLeaveNoTrace` and `ChangesAreWhole` follow, for every operation, with and
without faults and whatever `create_post` answers after an error.
No theorem has a hypothesis.

### Delivery: `DeliveryProofs`

For any number of event loops, topics, sockets and events, any prefixes of
topics, and any `HighWater`. `EventsInv`: frames are of published events and threads send their own.
`OrderInv`: what a thread has sent, what travels and what a socket was shown
are in the order the thread published, torn or not, hence `InOrder`. `WholeInv`:
until a topic is sent into another message, what is on its way are pairs of a
topic and its payload, hence `FramesAligned`; one thread at most is then in the middle of a message.
`SocketsInv` is about connections. `DeliveryImplementsBus`: every action is a
step of `EventBus`, one lemma each, or a stutter; the stream is cut into pairs by
`WholeInv`, or torn.

### Subscriptions: `SubscriptionsProofs`

- `FilterCoversAlways` and `TypeCorrect`, any pool: the former by `FilterIInv`, which
  adds that a request between its two steps has its topic in the filter, also while
  it subscribes another user. `Delivery` takes this as the guard of `Subscribe`.
- With `PoolSize = 1`, `Invariance`. The invariant looks ahead: `WillBeStored` is
  whether a row is there once the queue and the user's request are done. A restoring
  callback is at the head, and its rows are still stored (`RestoreInv`); a request
  has one listing statement in the queue (`ListingInv`); what is listed will be
  stored (`ListedInv`); whoever is being subscribed is in memory, or what he is
  being subscribed to is `missed` (`SubscribedInv`). No SELECT reads a post that is
  being forgotten, unless it is `revived` (`ReadsInv`), so a post in memory will be
  stored (`MemoryInv`); and what will be stored of a connected user is in memory, or
  an opening socket, a statement or a request will put it there, or it is `missed`
  (`ConnectedInv`).
- `TheListedAreStored`, `NoSubscriptionIsLost` and `TheUnsubscribedStayOut` follow,
  and need `PoolSize = 1` only: sockets open and close at any moment.

### Lists: `ListingsProofs`

Any finite set of rows, any sizes of pages, any numbers a client sends. `TypeOK /\ NothingMissed`
is inductive. A row that stays is missed only if its rank falls below what was
read: a row that comes in only raises ranks (`NothingMissed` is kept because fewer
rows qualify), a row that leaves lowers each by at most one, and ranks are
distinct for rows that are alone with their key, so one of them at most crosses the
border; the rows between two borders are those of the page that is sent, however
it orders the others.

### Only model-checked

Liveness: `EveryRequestEnds`, `EveryRequestAnswered` and `EveryEventArrives`.
Fairness is ENABLED, which the provers do not handle. The inductive invariants
themselves are in no run; those of the workflow were checked by TLC on the
instances of section 11 before they were proved.

## 14. What is not modelled

- What libzmq does when threads share a socket, and its errors; the order in
  which `shutdown` stops the services (a restart is one step).
- Read marks of `offer_notifications`, and what becomes of the table
  `notifications`, from which no handler reads.
- `recluster` and `get_clusters`: one PostGIS statement each, whose logic is the
  database's. Reads that are not paged: they change nothing.
- `quick_process_media_attachments` and `process_media_attachments_with_response`
  have no caller; `verify_proof` reads.
- The filters before other handlers than logout: the models start with the
  authenticated user. CORS headers.
- Utilities, configuration, password hashing, metrics and logging.
- The Redis services are a stub that is not built.
