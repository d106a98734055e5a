----------------------------- MODULE UserOutbox -----------------------------
(***************************************************************************)
(* The outbox publisher of user-service: messaging/event-publisher.ts with *)
(* OUTBOX_ENABLED set.  It differs from auth-service's in four ways: a poll *)
(* that finds a batch in flight joins it (outboxInFlight), a lost channel  *)
(* is opened again (ensureChannel), the row is read again after the claim, *)
(* and attempts is read again before it is counted up.                     *)
(*                                                                         *)
(* Replicas are processes, each with its own channel; Timers are the ticks *)
(* of one process's setInterval that could each start a batch.             *)
(***************************************************************************)
EXTENDS OutboxRow

CONSTANTS
  Rows,               \* outbox rows, numbered in order of created_at
  Replicas,           \* processes of user-service
  Timers,             \* poll ticks of one process
  BatchSize,          \* OUTBOX_BATCH_SIZE
  MaxAttempts,        \* OUTBOX_MAX_ATTEMPTS
  MaxFaults           \* bound: crashes, lost or refused connections, failed statements

ASSUME RowsAssumption        == Rows \subseteq Nat \ {0}
ASSUME BatchSizeAssumption   == BatchSize \in Nat \ {0}
ASSUME MaxAttemptsAssumption == MaxAttempts \in Nat \ {0}
ASSUME MaxFaultsAssumption   == MaxFaults \in Nat

NoRow    == 0
Nobody   == "nobody"

Polls == Replicas \X Timers

VARIABLES
  configured,  \* RABBITMQ_URL is set (messagingEnabled), the same for all processes
  row,         \* the outbox_events table
  poll,        \* per poll tick: where its batch is, what is left, what it read
  up,          \* per replica: the process is running
  channel,     \* per replica: the module variable channel
  wire,        \* per replica: events published that the broker has not got
  delivered,   \* events the broker's exchange accepted
  sent,        \* history: events channel.publish was called with
  failures,    \* history: failed attempts per row, counted up to MaxAttempts
  failedBy,    \* history: the replica that last set a row's nextAttemptAt
  disturbed,   \* history: rows whose lock ran out under a running batch, or
               \* whose update took effect although the database reported failure
  faults       \* faults so far

history == <<failures, failedBy, disturbed>>
vars    == <<configured, row, poll, up, channel, wire, delivered, sent, history, faults>>
env     == <<configured, up, channel, faults>>

\* todo: candidates not done yet; cur: the row claimed; expired: candidates
\* whose lock had run out when the batch started and was not retaken since;
\* seen: attempts as the catch branch read it.
IdlePoll == [pc |-> "idle", todo |-> {}, cur |-> NoRow, expired |-> {}, seen |-> 0]

PollType == [pc      : {"idle", "claim", "publish", "mark", "fail", "giveBack"},
             todo    : SUBSET Rows,
             cur     : Rows \union {NoRow},
             expired : SUBSET Rows,
             seen    : Nat]

TypeOK ==
  /\ configured \in BOOLEAN
  /\ row \in [Rows -> RowType(Nat)]
  /\ poll \in [Polls -> PollType]
  /\ up \in [Replicas -> BOOLEAN]
  /\ channel \in [Replicas -> {"open", "null"}]
  /\ wire \in [Replicas -> SUBSET Rows]
  /\ delivered \subseteq Rows
  /\ sent \subseteq Rows
  /\ failures \in [Rows -> 0..MaxAttempts]
  /\ failedBy \in [Rows -> Replicas \union {Nobody}]
  /\ disturbed \subseteq Rows
  /\ faults \in 0..MaxFaults
  /\ \A r \in Rows : row[r].status = "failed" => row[r].attempts < MaxAttempts

Holds(p, r) ==
  poll[p].pc \in {"publish", "mark", "fail", "giveBack"} /\ poll[p].cur = r

Init ==
  /\ configured \in BOOLEAN
  /\ row = [r \in Rows |-> AbsentRow]
  /\ poll = [p \in Polls |-> IdlePoll]
  /\ up = [x \in Replicas |-> FALSE]
  /\ channel = [x \in Replicas |-> "null"]
  /\ wire = [x \in Replicas |-> {}]
  /\ delivered = {}
  /\ sent = {}
  /\ failures = [r \in Rows |-> 0]
  /\ failedBy = [r \in Rows |-> Nobody]
  /\ disturbed = {}
  /\ faults = 0

-----------------------------------------------------------------------------
\* The processes

\* main: initMessaging opens the channel (or skips it), then startOutboxPublisher.
Start(x) ==
  /\ ~up[x]
  /\ up' = [up EXCEPT ![x] = TRUE]
  /\ channel' = [channel EXCEPT ![x] = IF configured THEN "open" ELSE "null"]
  /\ UNCHANGED <<configured, row, poll, wire, delivered, sent, history, faults>>

\* The process ends at any instant; what the broker has not read is lost.
Crash(x) ==
  /\ up[x] /\ faults < MaxFaults
  /\ up' = [up EXCEPT ![x] = FALSE]
  /\ channel' = [channel EXCEPT ![x] = "null"]
  /\ poll' = [p \in Polls |-> IF p[1] = x THEN IdlePoll ELSE poll[p]]
  /\ wire' = [wire EXCEPT ![x] = {}]
  /\ faults' = faults + 1
  /\ UNCHANGED <<configured, row, delivered, sent, history>>

\* The 'close' handler of ensureChannel.
ConnectionClosed(x) ==
  /\ channel[x] = "open" /\ faults < MaxFaults
  /\ channel' = [channel EXCEPT ![x] = "null"]
  /\ wire' = [wire EXCEPT ![x] = {}]
  /\ faults' = faults + 1
  /\ UNCHANGED <<configured, row, poll, up, delivered, sent, history>>

\* The broker accepts an event (an external step).
Deliver(x, r) ==
  /\ r \in wire[x]
  /\ wire' = [wire EXCEPT ![x] = @ \ {r}]
  /\ delivered' = delivered \union {r}
  /\ UNCHANGED <<row, poll, sent, history, env>>

\* enqueueOutboxEvent, committed with the profile that caused it.
Enqueue(r) ==
  /\ \E x \in Replicas : up[x]
  /\ row[r].status = "absent"
  /\ row' = [row EXCEPT ![r] = PendingRow]
  /\ UNCHANGED <<poll, wire, delivered, sent, history, env>>

-----------------------------------------------------------------------------
\* The clock

\* A lock grows older than OUTBOX_LOCK_TIMEOUT_MS.
LockExpires(r) ==
  /\ row[r].status = "processing" /\ row[r].lock = "fresh"
  /\ row' = [row EXCEPT ![r].lock = "stale"]
  /\ disturbed' = IF \E p \in Polls : Holds(p, r)
                  THEN disturbed \union {r} ELSE disturbed
  /\ UNCHANGED <<poll, wire, delivered, sent, failures, failedBy, env>>

\* nextAttemptAt passes.
RetryDue(r) ==
  /\ ~row[r].due
  /\ row' = [row EXCEPT ![r].due = TRUE]
  /\ UNCHANGED <<poll, wire, delivered, sent, history, env>>

-----------------------------------------------------------------------------
\* pollOutbox and processOutboxBatch

\* (A timer that starts a batch whatever the previous one does.)
MayPollAlways(p) == up[p[1]] /\ poll[p].pc = "idle"

\* outboxInFlight: a tick that finds a batch in flight starts none.
MayPoll(p) == up[p[1]] /\ \A t \in Timers : poll[<<p[1], t>>].pc = "idle"

BeginBatch(p) ==
  LET batch == Batch(row, BatchSize) IN
  /\ MayPoll(p)
  /\ batch # {}
  /\ poll' = [poll EXCEPT ![p] =
       [IdlePoll EXCEPT !.pc = "claim", !.todo = batch,
                        !.expired = {r \in batch : LockRanOut(row[r])}]]
  /\ UNCHANGED <<row, wire, delivered, sent, history, env>>

IsNext(p, r) == r \in poll[p].todo /\ \A q \in poll[p].todo : r <= q

\* Batch b done with row r: the next iteration, or the end.
Advanced(b, r) ==
  IF b.todo = {r} THEN IdlePoll
  ELSE [b EXCEPT !.pc = "claim", !.cur = NoRow, !.todo = @ \ {r},
                 !.expired = @ \ {r}, !.seen = 0]

\* A lock taken now is younger than every running batch's staleCutoff.
Retaken(r) == [q \in Polls |-> [poll[q] EXCEPT !.expired = @ \ {r}]]

Claim(p) ==
  /\ poll[p].pc = "claim"
  /\ \E r \in poll[p].todo :
       /\ IsNext(p, r)
       /\ Claimable(row[r], r \in poll[p].expired)
       /\ row' = [row EXCEPT ![r] = Claimed(@)]
       /\ poll' = [Retaken(r) EXCEPT ![p].pc = "publish", ![p].cur = r]
  /\ UNCHANGED <<wire, delivered, sent, history, env>>

\* claimed === 0: another replica has the row.
SkipRow(p) ==
  /\ poll[p].pc = "claim"
  /\ \E r \in poll[p].todo :
       /\ IsNext(p, r)
       /\ ~Claimable(row[r], r \in poll[p].expired)
       /\ poll' = [poll EXCEPT ![p] = Advanced(@, r)]
  /\ UNCHANGED <<row, wire, delivered, sent, history, env>>

\* ensureChannel: the open channel, or a new connection when a URL is set.
EnsuredChannel(x) == IF configured THEN "open" ELSE channel[x]

\* publishOutboxRow on the fresh row (rows are never deleted, so it is there).
\* With a channel the event is written whatever publish returns, and FALSE (a
\* full write buffer) throws.
Publish(p) ==
  /\ poll[p].pc = "publish"
  /\ EnsuredChannel(p[1]) = "open"
  /\ channel' = [channel EXCEPT ![p[1]] = "open"]
  /\ wire' = [wire EXCEPT ![p[1]] = @ \union {poll[p].cur}]
  /\ sent' = sent \union {poll[p].cur}
  /\ \E outcome \in {"mark", "fail"} : poll' = [poll EXCEPT ![p].pc = outcome]
  /\ UNCHANGED <<configured, row, up, delivered, history, faults>>

\* (A missing channel that skips the publication, as the direct publish does.)
PublishWithoutChannelSkipped(p) ==
  /\ poll[p].pc = "publish"
  /\ EnsuredChannel(p[1]) = "null"
  /\ poll' = [poll EXCEPT ![p].pc = "mark"]
  /\ UNCHANGED <<row, wire, delivered, sent, history, env>>

\* No URL is set: ensureChannel returns null and publishOutboxRow throws.
PublishWithoutChannel(p) ==
  /\ poll[p].pc = "publish"
  /\ EnsuredChannel(p[1]) = "null"
  /\ poll' = [poll EXCEPT ![p].pc = "fail"]
  /\ UNCHANGED <<row, wire, delivered, sent, history, env>>

\* UPDATE ... SET status = 'published' WHERE id = row.id, and nothing else.
MarkPublished(p) ==
  /\ poll[p].pc = "mark"
  /\ row' = [row EXCEPT ![poll[p].cur] = Published(@)]
  /\ poll' = [poll EXCEPT ![p] = Advanced(@, poll[p].cur)]
  /\ UNCHANGED <<wire, delivered, sent, history, env>>

\* The catch branch reads attempts again ...
ReadAttempts(p) ==
  /\ poll[p].pc = "fail"
  /\ poll' = [poll EXCEPT ![p].pc = "giveBack", ![p].seen = row[poll[p].cur].attempts]
  /\ UNCHANGED <<row, wire, delivered, sent, history, env>>

\* (A catch branch that forgets to count.)
FailedRowUncounted(p) == Failed(row[poll[p].cur], poll[p].seen, MaxAttempts)

\* The row the catch branch writes.
FailedRow(p) == Failed(row[poll[p].cur], poll[p].seen + 1, MaxAttempts)

\* Row r has been given back by poll p.
CountFailure(p, r) ==
  /\ failures' = [failures EXCEPT ![r] = IF @ < MaxAttempts THEN @ + 1 ELSE @]
  /\ failedBy' = [failedBy EXCEPT ![r] = p[1]]

\* ... and then writes it, counted up.
MarkFailed(p) ==
  /\ poll[p].pc = "giveBack"
  /\ row' = [row EXCEPT ![poll[p].cur] = FailedRow(p)]
  /\ CountFailure(p, poll[p].cur)
  /\ poll' = [poll EXCEPT ![p] = Advanced(@, poll[p].cur)]
  /\ UNCHANGED <<wire, delivered, sent, disturbed, env>>

-----------------------------------------------------------------------------
\* Something throws.  A database that reports failure may have applied the
\* statement all the same.

\* The claim throws: pollOutbox logs it, the batch ends.
ClaimThrows(p) ==
  /\ poll[p].pc = "claim" /\ faults < MaxFaults
  /\ \E r \in poll[p].todo, applied \in BOOLEAN :
       /\ IsNext(p, r)
       /\ applied => Claimable(row[r], r \in poll[p].expired)
       /\ row' = IF applied THEN [row EXCEPT ![r] = Claimed(@)] ELSE row
       /\ poll' = [(IF applied THEN Retaken(r) ELSE poll) EXCEPT ![p] = IdlePoll]
  /\ faults' = faults + 1
  /\ UNCHANGED <<configured, up, channel, wire, delivered, sent, history>>

\* findByPk fails, or the broker refuses the connection: the catch branch runs.
PublishThrows(p) ==
  /\ poll[p].pc = "publish" /\ faults < MaxFaults
  /\ poll' = [poll EXCEPT ![p].pc = "fail"]
  /\ faults' = faults + 1
  /\ UNCHANGED <<configured, row, up, channel, wire, delivered, sent, history>>

\* Recording the publication throws inside the try: the catch branch runs.
MarkThrows(p) ==
  /\ poll[p].pc = "mark" /\ faults < MaxFaults
  /\ \E applied \in BOOLEAN :
       /\ row' = IF applied THEN [row EXCEPT ![poll[p].cur] = Published(@)] ELSE row
       /\ disturbed' = IF applied THEN disturbed \union {poll[p].cur} ELSE disturbed
  /\ poll' = [poll EXCEPT ![p].pc = "fail"]
  /\ faults' = faults + 1
  /\ UNCHANGED <<configured, up, channel, wire, delivered, sent, failures, failedBy>>

\* The catch branch itself throws, at its read or at its write: the batch ends.
FailThrows(p) ==
  /\ poll[p].pc \in {"fail", "giveBack"} /\ faults < MaxFaults
  /\ \E applied \in BOOLEAN :
       /\ applied => poll[p].pc = "giveBack"
       /\ row' = IF applied THEN [row EXCEPT ![poll[p].cur] = FailedRow(p)] ELSE row
       /\ IF applied THEN CountFailure(p, poll[p].cur) ELSE UNCHANGED <<failures, failedBy>>
  /\ poll' = [poll EXCEPT ![p] = IdlePoll]
  /\ faults' = faults + 1
  /\ UNCHANGED <<configured, up, channel, wire, delivered, sent, disturbed>>

-----------------------------------------------------------------------------
Step(p) ==
  \/ BeginBatch(p) \/ Claim(p) \/ SkipRow(p)
  \/ Publish(p) \/ PublishWithoutChannel(p) \/ MarkPublished(p)
  \/ ReadAttempts(p) \/ MarkFailed(p)

Throw(p) == ClaimThrows(p) \/ PublishThrows(p) \/ MarkThrows(p) \/ FailThrows(p)

Next ==
  \/ \E x \in Replicas : Start(x) \/ Crash(x) \/ ConnectionClosed(x)
  \/ \E x \in Replicas, r \in Rows : Deliver(x, r)
  \/ \E r \in Rows : Enqueue(r) \/ LockExpires(r) \/ RetryDue(r)
  \/ \E p \in Polls : Step(p) \/ Throw(p)

Spec == Init /\ [][Next]_vars

\* Containers restart, timers tick, awaits are answered, time passes, and the
\* broker reads what is on an open connection.
Fairness ==
  /\ \A x \in Replicas : WF_vars(Start(x)) /\ WF_vars(\E r \in Rows : Deliver(x, r))
  /\ \A p \in Polls : WF_vars(Step(p))
  /\ \A r \in Rows : WF_vars(LockExpires(r)) /\ WF_vars(RetryDue(r))

FairSpec == Spec /\ Fairness

-----------------------------------------------------------------------------
\* Properties

Settled(r) == row[r].status \in {"published", "dead"}

\* Reading attempts again before counting up is enough: on rows one batch at a
\* time worked on, the column is the true number of failed attempts, whichever
\* replicas made them.
AttemptsAreExact == \A r \in Rows \ disturbed : row[r].attempts = failures[r]

\* A replica does not retry a row before the nextAttemptAt it set itself.  The claim
\* does not check it, and another replica's backoff is indeed cut short; within one
\* process outboxInFlight makes up for that, because no second batch can hold an
\* older view of the table.
BackoffHonoured ==
  [][\A p \in Polls, r \in Rows :
       Holds(p, r)' /\ ~Holds(p, r) /\ row[r].status = "failed" /\ ~row[r].due
         => failedBy[r] # p[1]]_vars

\* Every committed event is published or given up in the end, with a broker or
\* without: a crash between claim and publication strands no row.  And with a URL set and
\* fewer faults than attempts it was handed over: ensureChannel reconnects.
EventuallySettled ==
  \A r \in Rows :
    row[r].status = "pending" ~> Settled(r) /\ (configured => r \in sent)

\* The publisher keeps the promise of a transactional outbox.
Promise == INSTANCE OutboxPromise WITH
  Events    <- Rows,
  committed <- {r \in Rows : row[r].status # "absent"},
  handed    <- sent,
  reached   <- delivered,
  recorded  <- {r \in Rows : row[r].status = "published"}

KeepsPromise == Promise!Spec
=============================================================================
