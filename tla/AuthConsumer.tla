---------------------------- MODULE AuthConsumer ----------------------------
(***************************************************************************)
(* user-service consuming auth.user.registered: messaging/auth-consumer.ts *)
(* over the processed_events table (messaging/consumer-idempotency.ts) and *)
(* userService.syncFromAuthUser, with OUTBOX_ENABLED and                   *)
(* CONSUMER_DEDUPE_ENABLED set.                                            *)
(*                                                                         *)
(* Every delivery runs in a task of its own (there is no prefetch limit),  *)
(* and a task is interleaved with all others at every await.  RabbitMQ's   *)
(* side of it (ready, unacknowledged, redelivered) is external.            *)
(***************************************************************************)
EXTENDS Integers, FiniteSets

CONSTANTS
  Replicas,     \* processes of user-service
  Events,       \* registrations, each with its event id (auth's outbox row id)
  Messages,     \* copies the publisher may put on the exchange
  EventOf,      \* the registration a message is about
  MaxFaults     \* bound: crashes, lost connections and failed statements

ASSUME ReplicasAssumption  == "nobody" \notin Replicas
ASSUME EventOfAssumption   == EventOf \in [Messages -> Events]
ASSUME MaxFaultsAssumption == MaxFaults \in Nat

VARIABLES
  up,           \* per replica: the process is running
  subscribed,   \* per replica: its connection is open and it consumes the queue
  unmarked,     \* messages without metadata.eventId, which both of auth-service's
                \* publishing paths set and the handler does not rely on
  bound,        \* the durable queue exists and is bound to the exchange
  place,        \* where the broker has each message
  task,         \* per replica and message: where its handler is
  event,        \* the processed_events table
  profile,      \* users: none, synced from auth, or the email under another id
  executions,   \* history: committed syncFromAuthUser calls, counted up to 2
  exposed,      \* history: events whose execution and record came apart: a lock
                \* that ran out under its task, a process lost between the two, an
                \* ack or a record that failed, a message without an id
  faults        \* faults so far, and the events whose statements were among them

vars == <<up, subscribed, unmarked, bound, place, task, event, profile, executions,
          exposed, faults>>

\* "acking" and "nacking": the answer is on its way on an open channel.
InFlight == {"unacked", "acking", "nacking"}
Places   == [at : {"absent", "unrouted", "ready", "acked", "dropped"}, by : {"nobody"}]
              \union [at : InFlight, by : Replicas]

At(where) == [at |-> where, by |-> "nobody"]

Tasks == Replicas \X Messages
EventOfTask(t) == EventOf[t[2]]

\* open: the channel the message came on, which the handler keeps, is open.
IdleTask == [pc |-> "idle", open |-> FALSE]
TaskType == [pc : {"idle", "insert", "reread", "takeFailed", "reclaim", "duplicate",
                   "sync", "record", "ack", "recordFailure", "nack",
                   "plainSync", "plainAck"},
             open : BOOLEAN]

TypeOK ==
  /\ up \in [Replicas -> BOOLEAN]
  /\ subscribed \in [Replicas -> BOOLEAN]
  /\ unmarked \subseteq Messages
  /\ bound \in BOOLEAN
  /\ place \in [Messages -> Places]
  /\ task \in [Tasks -> TaskType]
  /\ event \in [Events -> [status : {"none", "processing", "processed", "failed"},
                           lock   : {"none", "fresh", "stale"}]]
  /\ profile \in [Events -> {"none", "synced", "foreign"}]
  /\ executions \in [Events -> 0..2]
  /\ exposed \subseteq Events
  /\ faults \in [count : 0..MaxFaults, events : SUBSET Events]

Init ==
  /\ up = [x \in Replicas |-> FALSE]
  /\ subscribed = [x \in Replicas |-> FALSE]
  /\ unmarked \in SUBSET Messages
  /\ bound = FALSE
  /\ place = [m \in Messages |-> At("absent")]
  /\ task = [t \in Tasks |-> IdleTask]
  /\ event = [e \in Events |-> [status |-> "none", lock |-> "none"]]
  /\ profile = [e \in Events |-> "none"]
  /\ executions = [e \in Events |-> 0]
  /\ exposed = {}
  /\ faults = [count |-> 0, events |-> {}]

\* A task works on its event from acquiring it to recording what came of it.
Working(t) == task[t].pc \in {"sync", "record", "recordFailure"}

\* Tasks that applied the registration and have not recorded it.
Unrecorded(t) == task[t].pc = "record"

\* A fault that makes a statement about events fail, or about none.
Fault(events) ==
  /\ faults.count < MaxFaults
  /\ faults' = [count |-> faults.count + 1, events |-> faults.events \union events]

-----------------------------------------------------------------------------
\* Processes and connections

\* startAuthEventConsumer, run once by main: declare and bind the queue, consume.
Start(x) ==
  /\ ~up[x]
  /\ up' = [up EXCEPT ![x] = TRUE]
  /\ subscribed' = [subscribed EXCEPT ![x] = TRUE]
  /\ bound' = TRUE
  /\ UNCHANGED <<unmarked, place, task, event, profile, executions, exposed, faults>>

\* (Messages made ready again without being taken from their consumer.)
RequeuedInPlace(x) == [m \in Messages |->
  IF place[m].by = x THEN [place[m] EXCEPT !.at = "ready"] ELSE place[m]]

\* The broker takes back what x had not settled.
Requeued(x) == [m \in Messages |-> IF place[m].by = x THEN At("ready") ELSE place[m]]

\* x's process is gone, with every task in it.
Gone(x) ==
  /\ up' = [up EXCEPT ![x] = FALSE]
  /\ subscribed' = [subscribed EXCEPT ![x] = FALSE]
  /\ place' = Requeued(x)
  /\ task' = [t \in Tasks |-> IF t[1] = x THEN IdleTask ELSE task[t]]
  /\ exposed' = exposed \union
       {e \in Events : \E t \in Tasks : t[1] = x /\ EventOfTask(t) = e /\ Unrecorded(t)}
  /\ UNCHANGED <<unmarked, bound, event, profile, executions>>

Crash(x) ==
  /\ up[x]
  /\ Gone(x)
  /\ Fault({})

\* The 'close' handler clears the module variables.  Nothing subscribes again,
\* and handlers go on with a channel that is closed.
ConnectionClosed(x) ==
  /\ subscribed[x]
  /\ subscribed' = [subscribed EXCEPT ![x] = FALSE]
  /\ place' = Requeued(x)
  /\ task' = [t \in Tasks |-> IF t[1] = x THEN [task[t] EXCEPT !.open = FALSE] ELSE task[t]]
  /\ Fault({})
  /\ UNCHANGED <<up, unmarked, bound, event, profile, executions, exposed>>

-----------------------------------------------------------------------------
\* The broker (external)

\* A message reaches the exchange; without a bound queue it goes nowhere.
Publish(m) ==
  /\ place[m] = At("absent")
  /\ place' = [place EXCEPT ![m] = IF bound THEN At("ready") ELSE At("unrouted")]
  /\ UNCHANGED <<up, subscribed, unmarked, bound, task, event, profile, executions,
                 exposed, faults>>

\* The queue hands a message to a consumer: handleMessage starts.
Deliver(x, m) ==
  /\ place[m] = At("ready")
  /\ subscribed[x]
  /\ place' = [place EXCEPT ![m] = [at |-> "unacked", by |-> x]]
  /\ task' = [task EXCEPT ![<<x, m>>] =
       [pc |-> IF m \in unmarked THEN "plainSync" ELSE "insert", open |-> TRUE]]
  /\ UNCHANGED <<up, subscribed, unmarked, bound, event, profile, executions, exposed,
                 faults>>

\* The broker reads an ack, or a nack without requeue: no queue takes dead letters.
Settle(m) ==
  /\ place[m].at \in {"acking", "nacking"}
  /\ place' = [place EXCEPT ![m] = At(IF @.at = "acking" THEN "acked" ELSE "dropped")]
  /\ UNCHANGED <<up, subscribed, unmarked, bound, task, event, profile, executions,
                 exposed, faults>>

-----------------------------------------------------------------------------
\* The rest of user-service, and the clock

\* POST /users takes the email under an id of its own; after a sync it is refused.
CreateUser(e) ==
  /\ \E x \in Replicas : up[x]
  /\ profile[e] = "none"
  /\ profile' = [profile EXCEPT ![e] = "foreign"]
  /\ UNCHANGED <<up, subscribed, unmarked, bound, place, task, event, executions,
                 exposed, faults>>

\* A processing record grows older than CONSUMER_LOCK_TIMEOUT_MS.
LockExpires(e) ==
  /\ event[e].status = "processing" /\ event[e].lock = "fresh"
  /\ event' = [event EXCEPT ![e].lock = "stale"]
  /\ exposed' = IF \E t \in Tasks : EventOfTask(t) = e /\ Working(t)
                THEN exposed \union {e} ELSE exposed
  /\ UNCHANGED <<up, subscribed, unmarked, bound, place, task, profile, executions,
                 faults>>

-----------------------------------------------------------------------------
\* beginProcessingEvent

\* (An UPDATE of a failed or processing record keyed by the event id alone.)
AcquiresAny(t) ==
  LET rec == event[EventOfTask(t)] IN
  \/ task[t].pc = "insert"     /\ rec.status = "none"
  \/ task[t].pc = "takeFailed"
  \/ task[t].pc = "reclaim"    /\ rec.status = "processing" /\ rec.lock # "fresh"

\* Whether the statement of the task's step affects a row: the INSERT, the UPDATE
\* of a failed record, the UPDATE of a record whose lock is NULL or stale.
Acquires(t) ==
  LET rec == event[EventOfTask(t)] IN
  \/ task[t].pc = "insert"     /\ rec.status = "none"
  \/ task[t].pc = "takeFailed" /\ rec.status = "failed"
  \/ task[t].pc = "reclaim"    /\ rec.status = "processing" /\ rec.lock # "fresh"

Acquired == [status |-> "processing", lock |-> "fresh"]

TryAcquire(t) ==
  /\ task[t].pc \in {"insert", "takeFailed", "reclaim"}
  /\ Acquires(t)
  /\ event' = [event EXCEPT ![EventOfTask(t)] = Acquired]
  /\ task' = [task EXCEPT ![t].pc = "sync"]
  /\ UNCHANGED <<up, subscribed, unmarked, bound, place, profile, executions, exposed,
                 faults>>

\* The INSERT meets the unique key: the record is read next.
InsertConflict(t) ==
  /\ task[t].pc = "insert" /\ ~Acquires(t)
  /\ task' = [task EXCEPT ![t].pc = "reread"]
  /\ UNCHANGED <<up, subscribed, unmarked, bound, place, event, profile, executions,
                 exposed, faults>>

\* (A guard that treats a record in progress as a duplicate.)
AfterRereadSkipping ==
  [none |-> "idle", processed |-> "duplicate", failed |-> "takeFailed",
   processing |-> "duplicate"]

\* What the record's status leads to.
AfterReread ==
  [none |-> "idle", processed |-> "duplicate", failed |-> "takeFailed",
   processing |-> "reclaim"]

Reread(t) ==
  /\ task[t].pc = "reread"
  /\ LET next == AfterReread[event[EventOfTask(t)].status] IN
     task' = [task EXCEPT ![t] = IF next = "idle" THEN IdleTask ELSE [@ EXCEPT !.pc = next]]
  /\ UNCHANGED <<up, subscribed, unmarked, bound, place, event, profile, executions,
                 exposed, faults>>

\* in_progress: the handler returns, and answers the broker nothing.
InProgress(t) ==
  /\ task[t].pc \in {"takeFailed", "reclaim"} /\ ~Acquires(t)
  /\ task' = [task EXCEPT ![t] = IdleTask]
  /\ UNCHANGED <<up, subscribed, unmarked, bound, place, event, profile, executions,
                 exposed, faults>>

-----------------------------------------------------------------------------
\* handleMessage

\* upsertFromAuthEvent violates the unique email when another id has it.
MayUpsert(e) == profile[e] # "foreign"

CountExecution(e) ==
  executions' = [executions EXCEPT ![e] = IF @ < 2 THEN @ + 1 ELSE @]

\* One transaction: the upsert and the user.created row of the outbox.
SyncFromAuthUser(t, next) ==
  /\ MayUpsert(EventOfTask(t))
  /\ profile' = [profile EXCEPT ![EventOfTask(t)] = "synced"]
  /\ CountExecution(EventOfTask(t))
  /\ task' = [task EXCEPT ![t].pc = next]
  /\ UNCHANGED <<up, subscribed, unmarked, bound, place, event>>

Sync(t) ==
  /\ task[t].pc = "sync"
  /\ SyncFromAuthUser(t, "record")
  /\ UNCHANGED <<exposed, faults>>

\* Without an event id nothing protects the call.
PlainSync(t) ==
  /\ task[t].pc = "plainSync"
  /\ SyncFromAuthUser(t, "plainAck")
  /\ exposed' = exposed \union {EventOfTask(t)}
  /\ UNCHANGED faults

SyncConflict(t) ==
  /\ task[t].pc \in {"sync", "plainSync"}
  /\ ~MayUpsert(EventOfTask(t))
  /\ task' = [task EXCEPT ![t].pc = IF @ = "sync" THEN "recordFailure" ELSE "nack"]
  /\ UNCHANGED <<up, subscribed, unmarked, bound, place, event, profile, executions,
                 exposed, faults>>

\* markProcessedEvent: keyed by the event id alone.
MarkProcessed(t) ==
  /\ task[t].pc = "record"
  /\ event' = [event EXCEPT ![EventOfTask(t)] = [status |-> "processed", lock |-> "none"]]
  /\ task' = [task EXCEPT ![t].pc = "ack"]
  /\ UNCHANGED <<up, subscribed, unmarked, bound, place, profile, executions, exposed,
                 faults>>

\* (A catch branch without the nack.)
MarkFailedUnanswered(t) ==
  /\ task[t].pc = "recordFailure"
  /\ event' = [event EXCEPT ![EventOfTask(t)] = [status |-> "failed", lock |-> "none"]]
  /\ task' = [task EXCEPT ![t] = IdleTask]
  /\ UNCHANGED <<up, subscribed, unmarked, bound, place, profile, executions, exposed,
                 faults>>

\* markFailedEvent: keyed by the event id alone.
MarkFailed(t) ==
  /\ task[t].pc = "recordFailure"
  /\ event' = [event EXCEPT ![EventOfTask(t)] = [status |-> "failed", lock |-> "none"]]
  /\ task' = [task EXCEPT ![t].pc = "nack"]
  /\ UNCHANGED <<up, subscribed, unmarked, bound, place, profile, executions, exposed,
                 faults>>

\* ch.ack or ch.nack on a channel that is still open ends the task.
Answer(t) ==
  LET answer == IF task[t].pc = "nack" THEN "nacking" ELSE "acking" IN
  /\ task[t].pc \in {"duplicate", "ack", "plainAck", "nack"} /\ task[t].open
  /\ place' = [place EXCEPT ![t[2]].at = answer]
  /\ task' = [task EXCEPT ![t] = IdleTask]
  /\ UNCHANGED <<up, subscribed, unmarked, bound, event, profile, executions, exposed,
                 faults>>

\* On a closed channel ch.ack throws.  The one after markProcessedEvent is inside
\* the try, so the catch branch runs on an event that was processed.
AckThrows(t) ==
  /\ task[t].pc = "ack" /\ ~task[t].open
  /\ task' = [task EXCEPT ![t].pc = "recordFailure"]
  /\ exposed' = exposed \union {EventOfTask(t)}
  /\ UNCHANGED <<up, subscribed, unmarked, bound, place, event, profile, executions,
                 faults>>

\* Elsewhere the throw reaches the handler's outer catch, whose nack throws again:
\* the rejection is unhandled and the process exits.
AnswerThrows(t) ==
  /\ task[t].pc \in {"duplicate", "plainAck", "nack"} /\ ~task[t].open
  /\ Gone(t[1])
  /\ UNCHANGED faults

-----------------------------------------------------------------------------
\* A statement fails.  The database may have applied it all the same.

\* beginProcessingEvent throws: the outer catch drops the message.
BeginThrows(t) ==
  /\ task[t].pc \in {"insert", "reread", "takeFailed", "reclaim"}
  /\ \E applied \in BOOLEAN :
       /\ applied => Acquires(t)
       /\ event' = IF applied THEN [event EXCEPT ![EventOfTask(t)] = Acquired] ELSE event
  /\ task' = [task EXCEPT ![t].pc = "nack"]
  /\ Fault({EventOfTask(t)})
  /\ UNCHANGED <<up, subscribed, unmarked, bound, place, profile, executions,
                 exposed>>

\* The transaction throws, before it committed or after.
SyncThrows(t) ==
  LET e == EventOfTask(t)
      next == IF task[t].pc = "sync" THEN "recordFailure" ELSE "nack" IN
  /\ task[t].pc \in {"sync", "plainSync"}
  /\ \/ /\ task' = [task EXCEPT ![t].pc = next]
        /\ UNCHANGED <<up, subscribed, unmarked, bound, place, event, profile,
                       executions, exposed>>
     \/ /\ SyncFromAuthUser(t, next)
        /\ exposed' = exposed \union {e}
  /\ Fault({EventOfTask(t)})

\* markProcessedEvent throws: the catch branch runs.
MarkProcessedThrows(t) ==
  LET e == EventOfTask(t) IN
  /\ task[t].pc = "record"
  /\ \/ UNCHANGED event
     \/ event' = [event EXCEPT ![e] = [status |-> "processed", lock |-> "none"]]
  /\ task' = [task EXCEPT ![t].pc = "recordFailure"]
  /\ exposed' = exposed \union {e}
  /\ Fault({EventOfTask(t)})
  /\ UNCHANGED <<up, subscribed, unmarked, bound, place, profile, executions>>

\* markFailedEvent throws: logged, and the message is dropped all the same.
MarkFailedThrows(t) ==
  /\ task[t].pc = "recordFailure"
  /\ task' = [task EXCEPT ![t].pc = "nack"]
  /\ Fault({EventOfTask(t)})
  /\ UNCHANGED <<up, subscribed, unmarked, bound, place, event, profile, executions,
                 exposed>>

-----------------------------------------------------------------------------
Handle(t) ==
  \/ TryAcquire(t) \/ InsertConflict(t) \/ Reread(t) \/ InProgress(t)
  \/ Sync(t) \/ PlainSync(t) \/ SyncConflict(t)
  \/ MarkProcessed(t) \/ MarkFailed(t)
  \/ Answer(t) \/ AckThrows(t) \/ AnswerThrows(t)

Throw(t) == BeginThrows(t) \/ SyncThrows(t) \/ MarkProcessedThrows(t) \/ MarkFailedThrows(t)

Next ==
  \/ \E x \in Replicas : Start(x) \/ Crash(x) \/ ConnectionClosed(x)
  \/ \E m \in Messages : Publish(m) \/ Settle(m)
  \/ \E x \in Replicas, m \in Messages : Deliver(x, m)
  \/ \E e \in Events : CreateUser(e) \/ LockExpires(e)
  \/ \E t \in Tasks : Handle(t) \/ Throw(t)

Spec == Init /\ [][Next]_vars

\* Containers restart, the queue delivers to a consumer, awaits are answered, the
\* broker reads answers, and time passes.
Fairness ==
  /\ \A x \in Replicas : WF_vars(Start(x))
  /\ \A m \in Messages : WF_vars(\E x \in Replicas : Deliver(x, m)) /\ WF_vars(Settle(m))
  /\ \A t \in Tasks : WF_vars(Handle(t))
  /\ \A e \in Events : WF_vars(LockExpires(e))

FairSpec == Spec /\ Fairness

-----------------------------------------------------------------------------
\* Properties

\* What the promise calls trouble: a statement about the event failed, or its email is
\* taken under another id.
Promise == INSTANCE ConsumerPromise WITH
  applied  <- {e \in Events : executions[e] > 0},
  troubled <- faults.events \union {e \in Events : profile[e] = "foreign"},
  recorded <- {e \in Events : event[e].status = "processed"},
  acked    <- {m \in Messages : place[m].at = "acked"},
  dropped  <- {m \in Messages : place[m].at = "dropped"}

\* user-service keeps the promise of an idempotent consumer: through crashes and lost
\* connections nothing is recorded or acknowledged that was not applied, and only
\* trouble discards a message.  This is what leaving an in_progress message unanswered
\* buys: the other task may yet fail.
KeepsPromise == Promise!Spec

\* The table is a lock: unless an event was exposed, one task at most works on it, over
\* all copies, replicas and redeliveries, its record says so, and the registration is
\* applied once.
AppliedOnceUnlessExposed ==
  \A e \in Events \ exposed :
    /\ executions[e] < 2
    /\ \A s, t \in Tasks : Working(s) /\ Working(t) /\ EventOfTask(s) = e
                            /\ EventOfTask(t) = e => s = t
    /\ (\E t \in Tasks : Working(t) /\ EventOfTask(t) = e) => event[e].status = "processing"

\* Without faults, however many copies arrive: a message in the queue leads to its
\* registration being applied, or dropped because another id has the email.  The
\* copies that find the record in progress are left unanswered, so the one that
\* holds it must come to an end.
EventuallyApplied ==
  \A m \in Messages :
    place[m].at = "ready" ~>
      \/ executions[EventOf[m]] > 0
      \/ \E n \in Messages : EventOf[n] = EventOf[m] /\ place[n].at = "dropped"
      \/ faults.count > 0
=============================================================================
