----------------------------- MODULE AuthOutbox -----------------------------
(***************************************************************************)
(* The outbox publisher of auth-service: messaging/event-publishing.ts     *)
(* with OUTBOX_ENABLED set, its outbox_events table, its one AMQP channel, *)
(* and the process it runs in.                                             *)
(*                                                                         *)
(* setInterval starts a batch every OUTBOX_POLL_INTERVAL_MS whether or not *)
(* the previous one has ended, so several batches of one process (Polls)   *)
(* interleave at every await.  The channel is opened at process start and  *)
(* never again.                                                            *)
(***************************************************************************)
EXTENDS OutboxRow

CONSTANTS
  Rows,               \* outbox rows, numbered in order of created_at
  Polls,              \* batches that can be in flight at once
  BatchSize,          \* OUTBOX_BATCH_SIZE
  MaxAttempts,        \* OUTBOX_MAX_ATTEMPTS
  MaxFaults           \* bound: crashes, lost connections and failed statements

ASSUME RowsAssumption        == Rows \subseteq Nat \ {0}
ASSUME BatchSizeAssumption   == BatchSize \in Nat \ {0}
ASSUME MaxAttemptsAssumption == MaxAttempts \in Nat \ {0}
ASSUME MaxFaultsAssumption   == MaxFaults \in Nat

NoRow == 0

VARIABLES
  row,         \* the outbox_events table
  poll,        \* per batch: where it is, what it has left, what it read
  up,          \* the process is running
  channel,     \* the module variable channel: "open" or "null"
  wire,        \* events published on the channel that the broker has not got
  delivered,   \* events the broker's exchange accepted
  sent,        \* history: events channel.publish was called with
  failures,    \* history: failed attempts per row, counted up to MaxAttempts
  disturbed,   \* history: rows whose lock ran out under a running batch, or
               \* whose update took effect although the database reported failure
  faults       \* faults so far

vars == <<row, poll, up, channel, wire, delivered, sent, failures, disturbed, faults>>
env  == <<up, channel, faults>>

\* todo: candidates not done yet; cur: the row claimed; expired: candidates
\* whose lock had run out when the batch started and was not retaken since;
\* seen: the attempts column as the candidate query read it.
IdlePoll == [pc |-> "idle", todo |-> {}, cur |-> NoRow, expired |-> {},
             seen |-> [r \in Rows |-> 0]]

PollType == [pc      : {"idle", "claim", "publish", "mark", "fail"},
             todo    : SUBSET Rows,
             cur     : Rows \union {NoRow},
             expired : SUBSET Rows,
             seen    : [Rows -> 0..MaxAttempts]]

TypeOK ==
  /\ row \in [Rows -> RowType(0..MaxAttempts)]
  /\ poll \in [Polls -> PollType]
  /\ up \in BOOLEAN
  /\ channel \in {"open", "null"}
  /\ wire \subseteq Rows
  /\ delivered \subseteq Rows
  /\ sent \subseteq Rows
  /\ failures \in [Rows -> 0..MaxAttempts]
  /\ disturbed \subseteq Rows
  /\ faults \in 0..MaxFaults

Holds(p, r) == poll[p].pc \in {"publish", "mark", "fail"} /\ poll[p].cur = r

Init ==
  /\ row = [r \in Rows |-> AbsentRow]
  /\ poll = [p \in Polls |-> IdlePoll]
  /\ up = FALSE
  /\ channel = "null"
  /\ wire = {}
  /\ delivered = {}
  /\ sent = {}
  /\ failures = [r \in Rows |-> 0]
  /\ disturbed = {}
  /\ faults = 0

-----------------------------------------------------------------------------
\* The process

\* main: initPublisher connects (env.ts requires RABBITMQ_URL; a refused
\* connection ends the process), then startOutboxPublisher.
Start ==
  /\ ~up
  /\ up' = TRUE
  /\ channel' = "open"
  /\ UNCHANGED <<row, poll, wire, delivered, sent, failures, disturbed, faults>>

\* The process ends, at any instant: a crash, or the shutdown handler, which
\* clears the timer but waits for no batch.  What the broker has not read is lost.
Crash ==
  /\ up /\ faults < MaxFaults
  /\ up' = FALSE
  /\ channel' = "null"
  /\ poll' = [p \in Polls |-> IdlePoll]
  /\ wire' = {}
  /\ faults' = faults + 1
  /\ UNCHANGED <<row, delivered, sent, failures, disturbed>>

\* The 'close' handler of initPublisher; nothing connects again.
ConnectionClosed ==
  /\ channel = "open" /\ faults < MaxFaults
  /\ channel' = "null"
  /\ wire' = {}
  /\ faults' = faults + 1
  /\ UNCHANGED <<row, poll, up, delivered, sent, failures, disturbed>>

\* The broker accepts an event (an external step).
Deliver(r) ==
  /\ r \in wire
  /\ wire' = wire \ {r}
  /\ delivered' = delivered \union {r}
  /\ UNCHANGED <<row, poll, sent, failures, disturbed, env>>

\* enqueueOutboxEvent, committed with the registration that called it.
Enqueue(r) ==
  /\ up
  /\ row[r].status = "absent"
  /\ row' = [row EXCEPT ![r] = PendingRow]
  /\ UNCHANGED <<poll, wire, delivered, sent, failures, disturbed, env>>

-----------------------------------------------------------------------------
\* The clock

\* A lock grows older than OUTBOX_LOCK_TIMEOUT_MS.
LockExpires(r) ==
  /\ row[r].status = "processing" /\ row[r].lock = "fresh"
  /\ row' = [row EXCEPT ![r].lock = "stale"]
  /\ disturbed' = IF \E p \in Polls : Holds(p, r)
                  THEN disturbed \union {r} ELSE disturbed
  /\ UNCHANGED <<poll, wire, delivered, sent, failures, env>>

\* nextAttemptAt passes.
RetryDue(r) ==
  /\ ~row[r].due
  /\ row' = [row EXCEPT ![r].due = TRUE]
  /\ UNCHANGED <<poll, wire, delivered, sent, failures, disturbed, env>>

-----------------------------------------------------------------------------
\* processOutboxBatch

BeginBatch(p) ==
  LET batch == Batch(row, BatchSize) IN
  /\ up /\ poll[p].pc = "idle"
  /\ batch # {}
  /\ poll' = [poll EXCEPT ![p] =
       [pc      |-> "claim",
        todo    |-> batch,
        cur     |-> NoRow,
        expired |-> {r \in batch : LockRanOut(row[r])},
        seen    |-> [r \in Rows |-> IF r \in batch THEN row[r].attempts ELSE 0]]]
  /\ UNCHANGED <<row, wire, delivered, sent, failures, disturbed, env>>

IsNext(p, r) == r \in poll[p].todo /\ \A q \in poll[p].todo : r <= q

\* Batch b done with row r: the next iteration, or the end.
Advanced(b, r) ==
  IF b.todo = {r} THEN IdlePoll
  ELSE [b EXCEPT !.pc = "claim", !.cur = NoRow, !.todo = @ \ {r},
                 !.expired = @ \ {r}, !.seen[r] = 0]

\* (A claim that does not compare lockedAt again.)
RetakenUnnoticed(r) == poll

\* A lock taken now is younger than every running batch's staleCutoff.
Retaken(r) == [q \in Polls |-> [poll[q] EXCEPT !.expired = @ \ {r}]]

Claim(p) ==
  /\ poll[p].pc = "claim"
  /\ \E r \in poll[p].todo :
       /\ IsNext(p, r)
       /\ Claimable(row[r], r \in poll[p].expired)
       /\ row' = [row EXCEPT ![r] = Claimed(@)]
       /\ poll' = [Retaken(r) EXCEPT ![p].pc = "publish", ![p].cur = r]
  /\ UNCHANGED <<wire, delivered, sent, failures, disturbed, env>>

\* claimed === 0: another batch has the row.
SkipRow(p) ==
  /\ poll[p].pc = "claim"
  /\ \E r \in poll[p].todo :
       /\ IsNext(p, r)
       /\ ~Claimable(row[r], r \in poll[p].expired)
       /\ poll' = [poll EXCEPT ![p] = Advanced(@, r)]
  /\ UNCHANGED <<row, wire, delivered, sent, failures, disturbed, env>>

\* (channel?.publish: without a channel nothing happens, and nothing is thrown.)
PublishOutcomesUnchecked == IF channel = "null" THEN {"mark"} ELSE {"mark", "fail"}

\* What publishOutboxRow can come to.  Without a channel it throws; with one the
\* event is written whatever publish returns, and FALSE (a full write buffer)
\* throws too.
PublishOutcomes == IF channel = "null" THEN {"fail"} ELSE {"mark", "fail"}

Publish(p) ==
  LET written == IF channel = "null" THEN {} ELSE {poll[p].cur} IN
  /\ poll[p].pc = "publish"
  /\ wire' = wire \union written
  /\ sent' = sent \union written
  /\ \E outcome \in PublishOutcomes : poll' = [poll EXCEPT ![p].pc = outcome]
  /\ UNCHANGED <<row, delivered, failures, disturbed, env>>

\* UPDATE ... SET status = 'published' WHERE id = row.id, and nothing else.
MarkPublished(p) ==
  /\ poll[p].pc = "mark"
  /\ row' = [row EXCEPT ![poll[p].cur] = Published(@)]
  /\ poll' = [poll EXCEPT ![p] = Advanced(@, poll[p].cur)]
  /\ UNCHANGED <<wire, delivered, sent, failures, disturbed, env>>

\* The row the catch branch writes: attempts from the candidate query's copy.
FailedRow(p) ==
  Failed(row[poll[p].cur], poll[p].seen[poll[p].cur] + 1, MaxAttempts)

CountFailure(r) ==
  failures' = [failures EXCEPT ![r] = IF @ < MaxAttempts THEN @ + 1 ELSE @]

MarkFailed(p) ==
  /\ poll[p].pc = "fail"
  /\ row' = [row EXCEPT ![poll[p].cur] = FailedRow(p)]
  /\ CountFailure(poll[p].cur)
  /\ poll' = [poll EXCEPT ![p] = Advanced(@, poll[p].cur)]
  /\ UNCHANGED <<wire, delivered, sent, disturbed, env>>

-----------------------------------------------------------------------------
\* A statement fails.  The database may have applied it all the same (the
\* connection died before the answer).

\* The candidate query or a claim throws: pollOutbox logs it, the batch ends.
ClaimThrows(p) ==
  /\ poll[p].pc = "claim" /\ faults < MaxFaults
  /\ \E r \in poll[p].todo, applied \in BOOLEAN :
       /\ IsNext(p, r)
       /\ applied => Claimable(row[r], r \in poll[p].expired)
       /\ row' = IF applied THEN [row EXCEPT ![r] = Claimed(@)] ELSE row
       /\ poll' = [(IF applied THEN Retaken(r) ELSE poll) EXCEPT ![p] = IdlePoll]
  /\ faults' = faults + 1
  /\ UNCHANGED <<up, channel, wire, delivered, sent, failures, disturbed>>

\* Recording the publication throws inside the try: the catch branch runs.
MarkThrows(p) ==
  /\ poll[p].pc = "mark" /\ faults < MaxFaults
  /\ \E applied \in BOOLEAN :
       /\ row' = IF applied THEN [row EXCEPT ![poll[p].cur] = Published(@)] ELSE row
       /\ disturbed' = IF applied THEN disturbed \union {poll[p].cur} ELSE disturbed
  /\ poll' = [poll EXCEPT ![p].pc = "fail"]
  /\ faults' = faults + 1
  /\ UNCHANGED <<up, channel, wire, delivered, sent, failures>>

\* The catch branch itself throws: the batch ends.
FailThrows(p) ==
  /\ poll[p].pc = "fail" /\ faults < MaxFaults
  /\ \E applied \in BOOLEAN :
       /\ row' = IF applied THEN [row EXCEPT ![poll[p].cur] = FailedRow(p)] ELSE row
       /\ IF applied THEN CountFailure(poll[p].cur) ELSE UNCHANGED failures
  /\ poll' = [poll EXCEPT ![p] = IdlePoll]
  /\ faults' = faults + 1
  /\ UNCHANGED <<up, channel, wire, delivered, sent, disturbed>>

-----------------------------------------------------------------------------
Step(p) ==
  BeginBatch(p) \/ Claim(p) \/ SkipRow(p) \/ Publish(p) \/ MarkPublished(p) \/ MarkFailed(p)

Throw(p) == ClaimThrows(p) \/ MarkThrows(p) \/ FailThrows(p)

Next ==
  \/ Start \/ Crash \/ ConnectionClosed
  \/ \E r \in Rows : Deliver(r) \/ Enqueue(r) \/ LockExpires(r) \/ RetryDue(r)
  \/ \E p \in Polls : Step(p) \/ Throw(p)

Spec == Init /\ [][Next]_vars

\* The container restarts the process (restart: unless-stopped), the timer
\* starts batches, an await is eventually answered, time passes, and the broker
\* reads what is on an open connection.
Fairness ==
  /\ WF_vars(Start)
  /\ \A p \in Polls : WF_vars(Step(p))
  /\ \A r \in Rows : WF_vars(LockExpires(r)) /\ WF_vars(RetryDue(r)) /\ WF_vars(Deliver(r))

FairSpec == Spec /\ Fairness
-----------------------------------------------------------------------------
\* Properties

Settled(r) == row[r].status \in {"published", "dead"}

\* A row shown as published was really written to a channel: no path records a
\* publication that was skipped because there was no channel, or that another
\* row's turn in the batch made.
PublishedWasSent == \A r \in Rows : row[r].status = "published" => r \in sent

\* A row is given up only after MaxAttempts of its attempts failed, although
\* attempts is written from a copy read before the claim and overlapping batches
\* overwrite one another's count.
DeadOnlyAfterMaxAttempts ==
  \A r \in Rows : row[r].status = "dead" => failures[r] = MaxAttempts

\* The claim UPDATE is a mutual exclusion between overlapping batches: until a
\* lock runs out under a running batch, one batch at most works on a row, and
\* the table shows it as locked all that time.
SingleHolder ==
  \A r \in Rows \ disturbed :
    /\ \A p, q \in Polls : Holds(p, r) /\ Holds(q, r) => p = q
    /\ (\E p \in Polls : Holds(p, r)) => row[r].status = "processing"

\* A published or dead row is final: a slower batch does not bring it back to
\* failed and have it published again.  (Both final updates are keyed by id
\* alone, so this rests on the claim; a disturbed row is outside it.)
SettledIsFinal ==
  [][\A r \in Rows \ disturbed' : Settled(r) => row'[r].status = row[r].status]_vars

\* The publisher keeps the promise of a transactional outbox.
Promise == INSTANCE OutboxPromise WITH
  Events    <- Rows,
  committed <- {r \in Rows : row[r].status # "absent"},
  handed    <- sent,
  reached   <- delivered,
  recorded  <- {r \in Rows : row[r].status = "published"}

KeepsPromise == Promise!Spec

\* docs/outboxpattern.md:12, "Outbox worker claims rows and publishes events":
\* a committed row is handed to the broker in the end.
EventuallySent == \A r \in Rows : row[r].status = "pending" ~> r \in sent
=============================================================================
