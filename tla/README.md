# Verification of the microservice chat application

TLA+ models of the services in this repository, TLC runs that check them on small
instances, and proofs checked by TLAPS. Paths below are relative to the
repository root; `auth-service/...` stands for `services/auth-service/src/...`
and likewise for the other services.

Where a definition's comment is in parentheses, it is a plausible wrong version of
the definition after it, kept beside it to show that a property tells the two
apart. No specification uses one.

## 1. Inventory

| part | state it keeps | operations | talks to |
|---|---|---|---|
| auth sessions (`auth-service/services/auth.service.ts`) | MySQL `user_credentials`, `refresh_tokens`, `outbox_events` | register, login, refreshTokens, revokeRefreshToken | gateway by HTTP; the outbox, or the channel directly when the outbox is off |
| auth outbox publisher (`auth-service/messaging/event-publishing.ts`) | `outbox_events`, module variables `channel`, timer | enqueue, poll (claim, publish, mark, fail), initPublisher, stop | RabbitMQ exchange `auth.events` |
| auth event consumer (`user-service/messaging/auth-consumer.ts`, `consumer-idempotency.ts`) | Postgres `processed_events`, `users`, `outbox_events`; one channel | handleMessage: begin, sync, mark processed or failed, ack or nack | RabbitMQ queue `auth-service.auth-events` |
| user profiles (`user-service/services/user.service.ts`) | `users`, `outbox_events` | createUser, syncFromAuthUser, reads | gateway by HTTP; consumer; outbox |
| user outbox publisher (`user-service/messaging/event-publisher.ts`) | `outbox_events`, `channel`, `outboxInFlight`, timer | enqueue, poll, ensureChannel, direct publish | RabbitMQ exchange `user.events` |
| chat user consumer (`chat-service/messaging/rabbitmq.consumer.ts`) | Mongo `processed_events`, `users` | handle `user.created` | RabbitMQ |
| chat conversations and messages (`chat-service/services`, `repositories`, `cache`) | Mongo `conversations`, `messages`; Redis copy, 60 s | create group, create or get direct, read, list, send | gateway by HTTP; sockets |
| chat rooms (`chat-service/websocket`) | Socket.IO rooms per node, Redis adapter | conversation:join, conversation:leave, message:send | browsers; other nodes through Redis |
| gateway (`gateway-service`) | none | proxying, hydration of participants | the three services |
| lifecycle (`*/main.ts`) | process | start order, shutdown | all of the above |
| email service, `packages/common`, routes, validation, monitoring | none | | |

How they interact: a registration commits an account, a refresh token and an
outbox row in one transaction; the auth publisher hands the row to RabbitMQ; the
user consumer applies it once to `users` and enqueues `user.created`; the user
publisher hands that on; the chat consumer copies the user. Clients talk HTTP
through the gateway, and sockets with chat-service.

What is hard here:

- timers, deliveries, HTTP requests and socket events are handlers that interleave
  at every `await`, in one process and over replicas that share a database;
- locks are rows with a time-out (`lockedAt`), so they can run out under a handler
  that is merely slow, and final updates are keyed by id alone;
- a crash, a lost channel, or a statement that was applied although it reported an
  error can come between any two steps;
- RabbitMQ redelivers, publishers publish twice, and channels without confirms
  lose what the broker has not read;
- read-through caching and denormalised previews are read and written apart.

What makes each part correct is stated as the properties of section 3.
`PROJECT.json` lists each hazard at its line with the properties aimed at it.

## 2. Modules

| module | models | variables and the code |
|---|---|---|
| `OutboxRow` | one row of either `outbox_events` table and the statements on it: the candidate query, the claim, the final updates | `due` is `nextAttemptAt`, `lock` is `lockedAt`, against the clock |
| `OutboxPromise` | abstract: what a transactional outbox promises | committed, handed over, at the broker, recorded |
| `AuthOutbox` | auth-service's publisher in one process whose batches overlap | `row` the table; `poll` each batch in flight, with the copy it read; `channel`; `wire` frames the broker has not read |
| `UserOutbox` | user-service's publisher in several replicas | the same, per replica; MayPoll is `outboxInFlight`, EnsuredChannel is `ensureChannel` |
| `ConsumerPromise` | abstract: what an idempotent consumer promises | applied, recorded, acknowledged, dropped |
| `AuthConsumer` | user-service consuming `auth.user.registered` | `place` the broker's view of a message; `task` each running handler; `event` the `processed_events` table; `profile` the `users` row |
| `ChatConsumer` | chat-service consuming `user.created`, from start to the end of its shutdown | the same over Mongo: `record` the `processed_events` collection; `phase` where main and shutdown are; `deaf` a process that runs on without a consumer |
| `UserProfiles` | createUser and syncFromAuthUser, with and without the outbox | `users`, `outbox` the tables; `step` each call; `answer` what its caller was told |
| `Pipeline` | both outboxes and both consumers, as their promises, around `UserProfiles` | `bound` queues that exist; `unrouted`, `lost` events that met none, or are gone |
| `AuthSessions` | register, login, refresh, revoke | `live`, `owner`, `expired` the `refresh_tokens` table; `family` links rows that came from one another, a session; `request` each handler |
| `ChatConversations` | conversations, messages and the Redis copy | `doc`, `stored`, `cache`; `createdAt` a message's stamp, taken from the clock `now` in a step before the insert; `request` each handler and what it has read |
| `ChatRooms` | sockets, rooms and broadcasts over nodes | `room`, `relay` (a broadcast on its way to another node), `received` |
| `MessagePaging` | the filters, sort and limit of a page of messages, as operators; the k-th message of a page is the one that k - 1 of those found come before | |
| `Gateway` | the gateway's conversation and message handlers, its timeouts and its shutdown, with clients that ask again and page | `step` the call a handler waits for; `late` calls nobody waits for any more; `read` what a reader has |
| `AuthOutboxProofs`, `UserOutboxProofs`, `AuthConsumerProofs`, `ChatConsumerProofs`, `AuthSessionsProofs`, `ChatConversationsProofs` | theorems about the module they are named for | |
| `PipelineProofs` | theorems about `UserProfiles` and `Pipeline` | |
| `EdgeProofs` | theorems about what clients meet: `ChatRooms` by sockets, `Gateway` with `MessagePaging` by HTTP. The two share no state; `ChatRooms` calls its specification RoomsSpec | |
| `MC...` | values of constants for TLC | |

An action is the code between two awaits: the guard is what the handler tests, the
primed variables what it writes. A statement that the database serialises (an
INSERT against a unique index, an UPDATE with a WHERE clause) is one action.
`register` is one transaction, so its writes take effect together in
CommitRegister; InsertUser is where it meets the unique index.

Variables marked *history* record something the code does not keep, and are only
read by properties. Several hazards make the strong form of a property false by
design (a lock that runs out, two statements without a transaction). There the
history variable names the exact circumstance (`disturbed`, `exposed`, `raced`,
`straddled`, `cut`, `overtaken`, `orphaned`, `kept`, `unheard`), and the property says that
nothing else breaks it. `revoked` and `lapsed` record how a session may end.

Crashes, lost connections and failed statements are counted by `faults` up to
`MaxFaults` (in `ChatConsumer`, `trouble` counts down instead). A failing statement
may or may not have been applied; in `AuthSessions` that is so of the DELETE between a
refresh's two rows, and its other failing statements are not applied.

**How the modules fit together.** `AuthOutbox` and `UserOutbox` implement
`OutboxPromise`, `AuthConsumer` and `ChatConsumer` implement `ConsumerPromise`
(KeepsPromise in each, under the mapping of its `Promise`). `Pipeline` composes the
two promises twice around `UserProfiles`, so that one account can be followed from its
registration to chat-service's copy; each of its steps is a step of a promise, of
`UserProfiles`, or of the broker. `Gateway` takes the services by their effects (a
conversation or message made, a page read) and has what they cannot see: a client that
repeats itself because it was not told.

External parts, modelled from how the code uses them: RabbitMQ's routing,
delivery and settling, the Socket.IO Redis adapter's relay, clients.

## 3. Runs

| run | instance | shows |
|---|---|---|
| `MCAuthOutbox` | 2 rows, 2 overlapping batches, 2 attempts, 1 fault, batches symmetric | SingleHolder, SettledIsFinal, DeadOnlyAfterMaxAttempts; implements `OutboxPromise` |
| `MCUserOutbox` | 1 row, 2 replicas with 2 ticks each, 3 attempts, 2 faults, broker configured or not | AttemptsAreExact, BackoffHonoured, EventuallySettled; implements `OutboxPromise` |
| `MCAuthConsumer` | 2 copies of one event with or without an id, 2 replicas, 2 faults | AppliedOnceUnlessExposed, EventuallyApplied; implements `ConsumerPromise` |
| `MCChatConsumer` | 2 replicas; 2 copies and 1 trouble with de-duplication, with it and one copy without id, and without it; 1 copy and 3 troubles | AppliedOnceUnlessExposed, EventuallyCopied; implements `ConsumerPromise` |
| `MCPipeline` | 1 account, 2 messages about it, 2 syncs, 1 POST /users with its email, 1 fault, outbox on and off | RowsAndEventsAgree, AnswersAreTrue, NothingSlipsAway, EventuallyKnown |
| `MCAuthSessions` | 2 requests, 1 email, 4 token rows, 1 fault, outbox on and off | RegistrationIsAtomic, OneRowUntilRevoked: a session is exactly one row or one refresh about to create it |
| `MCChatConversations` | 3 requests, 3 users, 2 faults, stamps equal or different, requests and users symmetric | OneDirectPerPair, CopyIsCurrentUnlessRaced, PreviewIsNewestUnlessOvertaken |
| `MCChatRooms` | 3 events, 4 sockets on 2 nodes, 1 fault | ReceivedOnceStored, LeftUnlessOvertaken, AudienceIsReached |
| `MCGateway` | up to 3 clients in 9 scenarios, at most 2 ids for hydration, pages of 2, 5 message ids, 2 instants, 2 tries, 1 SIGTERM | OncePerIntentUnlessUnheard, RefusedLeavesNothing, PagedExactly, CaughtUpUnlessFull, EventuallyAnswered |

Each also checks the type invariant of its module.

Runs that end in a counterexample, each against a sentence of the documentation:

| run | property | what the code does |
|---|---|---|
| `MCAuthOutboxNoReconnect` | EventuallySent | one lost connection, and auth-service never publishes again |
| `MCAuthSessionsRegisterToken` | IssuedTokenIsFound | the refresh token of a registration carries `id`, and is looked up by `tokenId` |
| `MCGatewayEmptyList` | OwnListIsAnswered | a caller without conversations is answered 422 for its list |

Deadlock is not checked: in every module requests, rows or messages are finite and
the instance stops when they are used up.

**Why the bounds are enough.** Every property relates at most two actors
(batches, deliveries, requests, sockets) and one row, event, conversation or
message, and its violations need one overlap and at most one or two faults. Two
batches give overtaking; with two rows a batch holds a stale list while it works
on another row; with three attempts a failed row is retried and may be retried
again before it is dead. Two replicas with two ticks each separate what
`outboxInFlight` does in one process from what the claim does between them. Two
copies of one message with two faults cover redelivery after a crash while a
second copy is handled. Four token rows make two refreshes of a refreshed
session. Three chat requests make one conversation and two that use it, which
is two sends in every order of their stamps, inserts and updates; three users give one
who takes no part. Three socket events are two joins and a send,
or a join, a leave and a send, on one node or two. Three troubles on one copy are a
delivery that is lost, taken up again and lost again; the TTL of a record needs two of
them. In `Pipeline` two messages and two syncs are a redelivery, and one POST /users is
the one conflict a unique email can have. In `Gateway` pages of two and up to five
messages make a reader turn a page, end on a full and on a short one, and catch up
with either; two instants give equal and different stamps, two tries one repetition,
and two ids put groups and lists below, at and above the limit (100 in the code).
Each property is also known to
fail on a wrong version of a definition under the same bounds.

Liveness is checked without symmetry, which TLC does not support there.

**Fairness.** Weak fairness only, of what the environment really repeats:
containers are restarted (`restart: unless-stopped` in `docker-compose.yaml`),
timers tick, an await is answered, time passes (locks run out, backoffs end), and
the broker delivers to a consumer and reads an open connection. A shutdown that has
begun goes on. In `Gateway` only the timeouts, the exit and the restart are fair: every
call has its own 5 s and `main.ts` a timer of 10 s, whatever the services do. `Pipeline`
takes as fair what the components' liveness properties promise. Nothing is
assumed about crashes or lost connections except their number, and nothing about
requests arriving.

## 4. Where code and documentation part

Besides the three runs above the models show the following. Each is carried by the
state that a property excepts, so that the property stays exact.

- `docs/outboxpattern.md:8` speaks of at-least-once delivery. Channels have no
  publisher confirms: a row is marked published while its frame is on `wire`, and a
  lost connection takes the frame with it (`AuthOutbox`: ConnectionClosed, Crash).
- `docs/outboxpattern.md:17` says that `in_progress` is acknowledged and skipped. It
  is left unanswered (`auth-consumer.ts:76`, InProgress), which KeepsPromise needs: an
  event in progress has not been applied yet.
- `docs/outboxpattern.md:34` says that stale processing locks are reclaimed. A lock is
  looked at only when a delivery arrives: after a restart within the lock timeout the
  redelivered message finds a fresh lock, stays unanswered, and nothing looks at the
  record again (`orphaned` in `ChatConsumer`; EventuallyCopied excuses it).
- `docs/outboxpattern.md:35` says duplicate execution is prevented. A crash or a
  failed record between sync and record, a slow handler, or an ack on a closed
  channel (which turns processed into failed) apply it again: `exposed`.
- The consumer's close handler does not subscribe again: ConnectionClosed clears
  `subscribed`, and only Start sets it.
- Two overlapping refreshes of one token leave two live rows (`raced`; the test at
  `auth.service.db.test.ts:207` expects one). A refresh in flight during a
  revocation survives it (`straddled`; test at 211).
- A refresh destroys the old row and creates the new one in two statements without a
  transaction (`auth.service.ts:159`, 160). A crash, a failed INSERT, or a DELETE that was
  applied but reported an error, leaves the session without a row and the client with a
  token that is refused: the session is lost although nobody revoked it (`cut`).
- A duplicate registration that passes the check while the first has not committed
  gets a 500, where the test at `auth.service.db.test.ts:122` names 409
  (InsertRefused).
- `OUTBOX_ENABLED=false` turns the outbox on: `z.coerce.boolean()` makes any
  non-empty string true (`auth-service/config/env.ts:16`, `outboxEnabled`).
- `docs/repo-overview.md:72` says that the conversation cache is invalidated on updates.
  A read that took the document before a send's update and fills the cache after the
  send's delete puts the old copy back for 60 s (`raced`).
- `user.service.test.ts:113` says that a unique constraint error becomes 409. createUser
  returns its transaction without awaiting it, so that with the outbox on the error
  passes the catch and the answer is 500 (`UserProfiles`, ConflictAnswer); the test runs
  with the outbox off.
- `POST /users` with the email of an account that is on its way makes its sync fail on
  the unique email: the message is dropped, and the account never becomes a user
  (`rejected` in `Pipeline`).
- chat-service's shutdown closes MongoDB beside the consumer. A handler that is still
  running gets an error, and its catch nacks without requeue: a clean shutdown can
  discard a message (Throw in phase "stopping").
- chat-service has no handler of the connection's 'error' or 'close': the first ends the
  process, the second leaves it running without a consumer (`deaf`).
- A group of more than 100 is created, and then answered 422 by its hydration; the
  exception of RefusedLeavesNothing.
- A page of new messages (`after`) is cut at the limit from the oldest end, and leaves
  out messages with the same instant: a reader cannot tell (CaughtUpUnlessFull).
- A send takes `createdAt` before its awaited insert (`message.repository.ts:38`, 47) and
  updates the preview after it (`message.service.ts:17`). When one send's update passes
  another that was stamped before it and has still to insert or to update, the older
  message's preview is written over the newer one's, and stays (`overtaken` in
  `ChatConversations`). A send whose update fails is answered with an error although it
  is stored.
- A leave sent while a join is looking the conversation up is overtaken by it
  (`overtaken` in `ChatRooms`).

## 5. Proofs

Every invariant and action property that holds in a run of section 3 is a theorem, in eight
modules that cover every module with behaviour. They hold for any values of the constants
under the assumptions the modules name; in particular for any number of replicas, batches, requests,
sockets, users, rows, messages and faults, where TLC has two or three.

Every proof module has the same form. IndInv is the type invariant with named parts, one
per fact that the properties need and that they do not say themselves; TLC was asked
first, on the instances of section 3. A lemma per kind of step shows that it keeps
IndInv, `NextKeepsInv` (or `StepKeepsInv`) puts them together, and `Invariance` is
Spec => []IndInv. Steps of the same kind share a lemma through a definition of their
effect (GoesOn, ClaimEffect, OutcomeEffect, HandlerEffect, RowEffect, Moves): a handler
that goes on and writes nothing, a claim, a final update, and so on, each also when its
statement throws after it was applied.

| module | theorem | states |
|---|---|---|
| `AuthOutboxProofs` | `TypeCorrect` | TypeOK |
| | `PublishedSent` | PublishedWasSent: what is shown published was written to a channel |
| | `DeadExhausted` | DeadOnlyAfterMaxAttempts |
| | `Exclusion` | SingleHolder |
| | `SettledFinal` | SettledIsFinal, an action property |
| | `Implementation` | KeepsPromise: implements `OutboxPromise` |
| `UserOutboxProofs` | `TypeCorrect` | TypeOK |
| | `AttemptsExact` | AttemptsAreExact |
| | `Backoff` | BackoffHonoured, an action property |
| | `Implementation` | KeepsPromise: implements `OutboxPromise` |
| `AuthConsumerProofs` | `TypeCorrect` | TypeOK |
| | `AppliedOnce` | AppliedOnceUnlessExposed |
| | `Implementation` | KeepsPromise: implements `ConsumerPromise` |
| `ChatConsumerProofs` | `TypeCorrect` | TypeOK |
| | `AppliedOnce` | AppliedOnceUnlessExposed |
| | `Implementation` | KeepsPromise: implements `ConsumerPromise` |
| `PipelineProofs` | `TypeCorrect` | TypeOK |
| | `RowsAndEvents` | RowsAndEventsAgree |
| | `TrueAnswers` | AnswersAreTrue |
| | `NothingSlips` | NothingSlipsAway |
| `AuthSessionsProofs` | `TypeCorrect` | TypeOK |
| | `RegistrationAtomic` | RegistrationIsAtomic |
| | `OneRow` | OneRowUntilRevoked |
| `ChatConversationsProofs` | `TypeCorrect` | TypeOK |
| | `OneDirect` | OneDirectPerPair |
| | `CopyCurrent` | CopyIsCurrentUnlessRaced |
| | `PreviewNewest` | PreviewIsNewestUnlessOvertaken |
| `EdgeProofs` | `RoomsTypeCorrect` | RoomsTypeOK |
| | `ReceivedOnce` | ReceivedOnceStored |
| | `LeaveWorks` | LeftUnlessOvertaken |
| | `PageFacts` | what a page is: found by the filter, in order, cut only when full and only at the old end |
| | `TypeCorrect` | TypeOK of `Gateway` |
| | `OncePerIntent` | OncePerIntentUnlessUnheard |
| | `Refused` | RefusedLeavesNothing |
| | `Paged` | PagedExactly |
| | `CaughtUp` | CaughtUpUnlessFull |

Each module also has `Invariance`; in `EdgeProofs` that is `Gateway`'s, and `ChatRooms` has
`RoomsInvariance` of RoomsIndInv.

### Why the invariants need their parts

None of the properties is inductive alone. What IndInv adds:

**`AuthOutbox`.** BatchInv: a batch works on a row of its own list, and lists committed
rows only. SentInv: what is published, travelling or about to be marked was written to a
channel (without the clause about batches at "mark", PublishedWasSent is not preserved by
MarkPublished). AttemptsInv: `attempts`, and every copy of it that a batch holds, is at
most the number of failures that happened, and below the limit while the row is not dead;
this is why overwriting one another's count never gives up a row early. LockInv: while an
undisturbed row is held its lock is fresh, and a lock that a batch saw running out has
not been renewed since, so that a second claim of a held row is impossible.

**`UserOutbox`.** The same parts over replicas, with two differences. AttemptsInv is an
equality: what the catch branch read again is still the column when it writes, because
the lock keeps every other batch away. BackoffInv: one batch of a process is in flight at
most (`outboxInFlight`), and a row it has still to come to, and that waits for its next
attempt, was failed by another process since the batch began. That is what stands in for
the claim's missing test of `nextAttemptAt`.

**`AuthConsumer`, `ChatConsumer`.** ChannelInv: while a handler's channel is open the
broker waits for its answer, so that no message is delivered to a replica that still
works on it. AppliedInv: what is recorded or acknowledged, or about to be, was applied.
TroubledInv (FailedInv): what is dropped, or about to be on an open channel, met trouble;
an ack that throws leads to the nack without any, and there the closed channel is what
keeps the message. LockInv: the record of an event that is not exposed is the lock of the
one handler that works on it, and shows an execution unless that handler is about to
record it. `Implementation` then needs only what one step can do to executions, records
and answers (`StepIsWork`).

**`Pipeline`, `UserProfiles`.** TransactionInv: nothing in the table refuses the commit
of an open transaction, and no two of them hold the same id or email. OutcomeInv: what a
call left in table and outbox says which step it is at. ChainInv: whatever is further
down the chain from registration to copy is further up as well. The promises of the
outboxes and consumers are used as they are; the four `Implementation` theorems are what
the services owe them.

**`AuthSessions`.** RowInv: all rows of a session are one account's. RegisterInv: a
transaction between INSERT and COMMIT has its email to itself. ExchangeInv: in a session
whose refreshes did not overlap, the live row and the refresh that exchanges it are one,
so that there is never more than one row, or one refresh about to make it. RevokedInv:
what is left of a revoked session was in flight when it was revoked. KeptInv: a session
that is not in `revoked`, `lapsed` or `cut` still has a row, or a refresh past its destroy,
which is what every step that takes a row away has to give back.

**`ChatConversations`.** RequestInv: what a handler has at each step, and that a message
is of a send past its insert. DirectInv: a direct request that is about to fill the cache
has its pair's conversation. CopyInv: a copy on its way into the cache is current unless
its conversation was raced. PreviewInv, of a conversation that is not in `overtaken`:
the preview is a stored message's, its stamp is no later than that of any send between
stamp and update, and every stored message is older or waits for its own update. An
update keeps it because no send on its way has an earlier stamp, a new stamp because the
clock does not go back.

**`ChatRooms`.** DeliveryInv: a socket that has a message waits for no broadcast of it to
its own node, so that emission, local broadcast and relay never meet. RoomInv: a join
still being looked up is the last thing its socket asked for, or a leave overtook it.

**`Gateway`.** StepInv: a request runs only for a client that was told nothing final, and
is at a call its handler makes. EffectInv: an effect whose client is not in `unheard` is
one, and has either a request on its way to an answer, or an answer after which nobody
asks again; 422 then means a group too large, because the members of a direct conversation
are two at most. That is why a retry meets an effect only where something was not heard.
ReaderInv: while a reader pages, what was stored at its first page it has, or it is older
than the last it has. PageInv: the page on its way fits below the list, or in front of it
when the reader catches up, and holds what is missing unless it is full; it stays true
while others send, because a page is not changed by what is stored after it. `Paged` and
`CaughtUp` then follow from `PageFacts` and from joining two lists in order
(`JoinInOrder`).

`PageFacts` needs no induction over the list of messages. The number of messages that the
sort puts before one is different for each of them (`BeforeCounts`), so that counting maps
the n messages found onto the places 1 to n: an injection between finite sets of one size
is onto (`RankedOne`). Each place of a page is thus taken by one message, and every message
has a place on the page or is older than its last.

### Assumptions on the constants

The counts (MaxFaults, MaxAttempts, BatchSize, MaxRows) are natural numbers, positive
where the code cannot do with zero; rows are positive numbers, 0 standing for none;
functions have the domains their comments say. In the consumers ReplicasAssumption says
that "nobody", who has a message that is with no replica, is none of the replicas, and in
`ChatConversations` NothingAssumption that the absent preview is no message. In
`UserProfiles` UserOfAssumption is the UUID that createUser draws: no other call writes
its id. In `Gateway` the messages stored to begin with and the users a request names are
finite, a direct conversation names one user (`conversation.schema.ts`), ids of messages
are unique, and MaxIds is at least 2 (100 in the code): with 1 a direct conversation would
be made and then refused. No other set of actors or of data is assumed finite.

### Only model-checked

- liveness (EventuallySettled, EventuallyApplied, EventuallyCopied, EventuallyKnown,
  AudienceIsReached, EventuallyAnswered): TLAPS has no backend here for fairness or
  ENABLED;
- the counterexamples of section 3.

## 6. Not modelled

- email service, `packages/common`, routes, validation: no state of their own. Where
  validation decides what happens (the limit of ids, a conversation of one) it is part
  of a handler.
- the gateway's auth, user and invitation handlers: one call each with the error
  handling `Gateway` has, and no state.
- the order in which auth-service and user-service shut down: they stop taking
  requests, then messages, then timers, and a process that ends earlier is a crash,
  which every module has at any instant.
- set-up of clients and tables. `getMongoClient` keeps a client whose first connection
  failed; `main` then exits, so that no handler meets it.
- clocks of chat-service's replicas that differ or go back: the stamps of messages come from
  one clock.
- in `Gateway`, the list of conversations between chat-service's answer and its hydration:
  the ids sent to user-service are those of the conversations there are at the hydration.
  Only their number decides anything, and only whether it is between 1 and the limit.
- a conversation id nobody has: requests name conversations that exist, and the 404 of
  another one reads a store and ends.
- reads without state (search, candidates, the listing of conversations beyond its ids).
- passwords, JWT contents apart from the key they carry, logging, tracing, metrics.

## 7. What is left

Every component named in section 1 that keeps state has its module, and every invariant
and action property of a run its theorem. Open are the six liveness properties, which
only TLC checks, on the instances of section 3. Of these AudienceIsReached and
EventuallyAnswered come closest to a proof by hand: the invariants give the facts their
steps need (a broadcast is of a stored message, a running request has a call that can time
out), and what is missing is the reasoning about ENABLED.

## 8. Running

    tlc -config MCAuthOutbox.cfg MCAuthOutbox
    tlapm AuthOutboxProofs.tla

A run takes between a few seconds and about three minutes; a proof module from
nothing takes a minute or a few (`EdgeProofs` the most).
