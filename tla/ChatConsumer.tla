---------------------------- MODULE ChatConsumer ----------------------------
(***************************************************************************)
(* chat-service copying users from user.created: rabbitmq.consumer.ts over *)
(* processed-event.repository.ts and user.repository.ts, from the start of *)
(* main.ts to the end of its shutdown.                                     *)
(*                                                                         *)
(* It follows the protocol of AuthConsumer over MongoDB, and differs where *)
(* it is dangerous: no handler of the connection's 'error' (which ends the *)
(* process) or 'close' (which leaves it without a consumer); records that  *)
(* expire; a de-duplication that can be turned off; and a shutdown that    *)
(* closes the database and the channel side by side.                       *)
(***************************************************************************)
EXTENDS Integers, FiniteSets

CONSTANTS
  Replicas,     \* processes of chat-service
  Events,       \* user.created events, each with its event id
  Messages,     \* copies the publisher may put on the exchange
  EventOf,      \* the event a message is about
  Settings      \* bound: the configurations, with the messages published in each and
                \* the trouble it allows: crashes, closed connections, statements that
                \* fail, SIGTERMs and records removed by the TTL index, together

ASSUME ReplicasAssumption == "nobody" \notin Replicas
ASSUME EventOfAssumption == EventOf \in [Messages -> Events]
ASSUME SettingsAssumption ==
  Settings \subseteq [dedupe : BOOLEAN, unmarked : SUBSET Messages,
                      published : SUBSET Messages, trouble : Nat]

VARIABLES
  dedupe,       \* CONSUMER_DEDUPE_ENABLED, the same for all processes
  unmarked,     \* messages without metadata.eventId
  phase,        \* per replica: where main and shutdown are
  subscribed,   \* per replica: its channel is open and it consumes the queue
  place,        \* where the broker has each message
  task,         \* per replica and message: where its handler is
  record,       \* the processed_events collection
  copied,       \* events whose user is in the users collection
  executions,   \* history: upsertUser calls that took effect, counted up to 2
  failed,       \* history: events with a statement that threw in a handler
  exposed,      \* history: events whose execution and record came apart
  orphaned,     \* history: events with a record left processing by no task
  deaf,         \* replicas that run on without a consumer, after an operator's close
  trouble       \* bound: the trouble that may still come

histories == <<executions, failed, exposed, orphaned>>
broker    == <<unmarked, place>>
processes == <<dedupe, phase, subscribed, deaf>>
vars      == <<processes, broker, task, record, copied, histories, trouble>>

InFlight == {"unacked", "acking", "nacking"}
Places   == [at : {"never", "absent", "ready", "acked", "dropped"}, by : {"nobody"}]
              \union [at : InFlight, by : Replicas]
At(where) == [at |-> where, by |-> "nobody"]

Tasks == Replicas \X Messages
EventOfTask(t) == EventOf[t[2]]

\* open: the channel the message came on, which the closure keeps, is open.
IdleTask == [pc |-> "idle", open |-> FALSE]
Begin    == {"insert", "reread", "takeFailed", "reclaim"}
Answers  == {"duplicate", "ack", "plainAck", "nack"}
TaskType == [pc : {"idle", "upsert", "record", "recordFailure", "plainUpsert"}
                    \union Begin \union Answers,
             open : BOOLEAN]

\* done: processedAt is set, which markFailedEvent leaves as it is.
NoRecord   == [status |-> "none", lock |-> "none", done |-> FALSE]
RecordType == [status : {"none", "processing", "processed", "failed"},
               lock : {"none", "fresh", "stale"}, done : BOOLEAN]

TypeOK ==
  /\ dedupe \in BOOLEAN
  /\ unmarked \subseteq Messages
  /\ phase \in [Replicas -> {"down", "running", "draining", "stopping"}]
  /\ subscribed \in [Replicas -> BOOLEAN]
  /\ place \in [Messages -> Places]
  /\ task \in [Tasks -> TaskType]
  /\ record \in [Events -> RecordType]
  /\ copied \subseteq Events
  /\ executions \in [Events -> 0..2]
  /\ failed \subseteq Events /\ exposed \subseteq Events /\ orphaned \subseteq Events
  /\ deaf \subseteq Replicas
  /\ trouble \in Nat
  /\ \A x \in Replicas : phase[x] = "down" =>
       ~subscribed[x] /\ \A m \in Messages : task[<<x, m>>] = IdleTask /\ place[m].by # x

Init ==
  /\ \E setting \in Settings :
       /\ dedupe = setting.dedupe
       /\ unmarked = setting.unmarked
       /\ place = [m \in Messages |-> At(IF m \in setting.published THEN "absent" ELSE "never")]
       /\ trouble = setting.trouble
  /\ phase = [x \in Replicas |-> "down"]
  /\ subscribed = [x \in Replicas |-> FALSE]
  /\ task = [t \in Tasks |-> IdleTask]
  /\ record = [e \in Events |-> NoRecord]
  /\ copied = {}
  /\ executions = [e \in Events |-> 0]
  /\ failed = {} /\ exposed = {} /\ orphaned = {}
  /\ deaf = {}

-----------------------------------------------------------------------------
\* Processes and connections

\* A task works on its event from acquiring it to recording what came of it.
Working(t)    == task[t].pc \in {"upsert", "record", "recordFailure"}
Unrecorded(t) == task[t].pc = "record"

EventsOf(tasks) == {EventOfTask(t) : t \in tasks}

Trouble == trouble > 0 /\ trouble' = trouble - 1

\* main: Mongo, Redis and startConsumers side by side, then sockets and HTTP.
\* With one of them refused main exits, which is a Crash at once.
Start(x) ==
  /\ phase[x] = "down"
  /\ phase' = [phase EXCEPT ![x] = "running"]
  /\ subscribed' = [subscribed EXCEPT ![x] = TRUE]
  /\ UNCHANGED <<dedupe, deaf, broker, task, record, copied, histories, trouble>>

\* (An answer that is on its way outlives the channel.)
RequeuedUnanswered(x) ==
  [m \in Messages |-> IF place[m].by = x /\ place[m].at = "unacked" THEN At("ready") ELSE place[m]]

\* The broker takes back what x had not settled.
Requeued(x) == [m \in Messages |-> IF place[m].by = x THEN At("ready") ELSE place[m]]

\* x's process is gone, with every task in it.
Gone(x) ==
  LET lost == {t \in Tasks : t[1] = x} IN
  /\ phase' = [phase EXCEPT ![x] = "down"]
  /\ subscribed' = [subscribed EXCEPT ![x] = FALSE]
  /\ place' = Requeued(x)
  /\ task' = [t \in Tasks |-> IF t \in lost THEN IdleTask ELSE task[t]]
  /\ exposed' = exposed \union EventsOf({t \in lost : Unrecorded(t)})
  /\ orphaned' = orphaned \union EventsOf({t \in lost : dedupe /\ Working(t)})
  /\ deaf' = deaf \ {x}
  /\ UNCHANGED <<dedupe, unmarked, record, copied, executions, failed>>

Crash(x) == phase[x] # "down" /\ Gone(x) /\ Trouble

\* x's channel is closed under its handlers, which go on with it.
Unsubscribed(x) ==
  /\ subscribed' = [subscribed EXCEPT ![x] = FALSE]
  /\ place' = Requeued(x)
  /\ task' = [t \in Tasks |-> IF t[1] = x THEN [task[t] EXCEPT !.open = FALSE] ELSE task[t]]

\* (An 'error' handler that logs, as user-service has one.)
ConnectionLostLogged(x) ==
  /\ subscribed[x]
  /\ Unsubscribed(x)
  /\ Trouble
  /\ UNCHANGED <<dedupe, phase, deaf, unmarked, record, copied, histories>>

\* A lost connection: amqplib emits 'error', nobody listens, the process ends.
ConnectionLost(x) == subscribed[x] /\ Gone(x) /\ Trouble

\* An operator closes the connection: only 'close' is emitted, the process stays.
ConnectionClosed(x) ==
  /\ subscribed[x]
  /\ Unsubscribed(x)
  /\ deaf' = deaf \union {x}
  /\ Trouble
  /\ UNCHANGED <<dedupe, phase, unmarked, record, copied, histories>>

\* shutdown closes the sockets and waits for HTTP, while the consumer goes on.
Terminate(x) ==
  /\ phase[x] = "running"
  /\ phase' = [phase EXCEPT ![x] = "draining"]
  /\ Trouble
  /\ UNCHANGED <<dedupe, subscribed, deaf, broker, task, record, copied, histories>>

\* Then stopConsumers and closeMongoClient start side by side (Promise.allSettled):
\* from here on a statement may find its client closed.
BeginStop(x) ==
  /\ phase[x] = "draining"
  /\ phase' = [phase EXCEPT ![x] = "stopping"]
  /\ UNCHANGED <<dedupe, subscribed, deaf, broker, task, record, copied, histories, trouble>>

\* stopConsumers: cancel and close, without waiting for running handlers.
StopConsumers(x) ==
  /\ phase[x] = "stopping" /\ subscribed[x]
  /\ Unsubscribed(x)
  /\ UNCHANGED <<dedupe, phase, deaf, unmarked, record, copied, histories, trouble>>

\* process.exit, whatever is still running.
Exit(x) ==
  /\ phase[x] = "stopping" /\ ~subscribed[x]
  /\ Gone(x)
  /\ UNCHANGED trouble

-----------------------------------------------------------------------------
\* The broker (external).  The durable queue is bound: Pipeline has the time
\* before it was.
Publish(m) ==
  /\ place[m] = At("absent")
  /\ place' = [place EXCEPT ![m] = At("ready")]
  /\ UNCHANGED <<processes, unmarked, task, record, copied, histories, trouble>>

\* Where a handler starts: no id, no de-duplication, or beginProcessingEvent.
FirstStep(m) ==
  IF m \in unmarked THEN "plainUpsert" ELSE IF dedupe THEN "insert" ELSE "upsert"

Deliver(x, m) ==
  /\ place[m] = At("ready")
  /\ subscribed[x]
  /\ place' = [place EXCEPT ![m] = [at |-> "unacked", by |-> x]]
  /\ task' = [task EXCEPT ![<<x, m>>] = [pc |-> FirstStep(m), open |-> TRUE]]
  /\ exposed' = IF dedupe THEN exposed ELSE exposed \union {EventOf[m]}
  /\ UNCHANGED <<processes, unmarked, record, copied, executions, failed, orphaned,
                 trouble>>

Settle(m) ==
  /\ place[m].at \in {"acking", "nacking"}
  /\ place' = [place EXCEPT ![m] = At(IF @.at = "acking" THEN "acked" ELSE "dropped")]
  /\ UNCHANGED <<processes, unmarked, task, record, copied, histories, trouble>>

-----------------------------------------------------------------------------
\* MongoDB's clock

\* A processing record grows older than CONSUMER_LOCK_TIMEOUT_MS.
LockExpires(e) ==
  /\ record[e].status = "processing" /\ record[e].lock = "fresh"
  /\ record' = [record EXCEPT ![e].lock = "stale"]
  /\ exposed' = IF \E t \in Tasks : EventOfTask(t) = e /\ Working(t)
                THEN exposed \union {e} ELSE exposed
  /\ UNCHANGED <<processes, broker, task, copied, executions, failed, orphaned, trouble>>

\* The TTL index on processedAt, which also takes a record that failed, or is at
\* work again, after it was processed.  A redelivery from then on is not recognised.
RecordExpires(e) ==
  /\ record[e].done
  /\ record' = [record EXCEPT ![e] = NoRecord]
  /\ Trouble
  /\ exposed' = exposed \union {e}
  /\ UNCHANGED <<processes, broker, task, copied, executions, failed, orphaned>>

-----------------------------------------------------------------------------
\* beginProcessingEvent

Goes(t, pc) == task' = [task EXCEPT ![t] = IF pc = "idle" THEN IdleTask ELSE [@ EXCEPT !.pc = pc]]

\* (A reclaim that does not ask how old the lock is.)
AcquiresFresh(t) ==
  LET rec == record[EventOfTask(t)] IN
  \/ task[t].pc = "insert"     /\ rec.status = "none"
  \/ task[t].pc = "takeFailed" /\ rec.status = "failed"
  \/ task[t].pc = "reclaim"    /\ rec.status = "processing"

\* Whether the task's statement changes a record: the insertOne, the updateOne of a
\* failed record, the updateOne of one whose lock is null or stale.
Acquires(t) ==
  LET rec == record[EventOfTask(t)] IN
  \/ task[t].pc = "insert"     /\ rec.status = "none"
  \/ task[t].pc = "takeFailed" /\ rec.status = "failed"
  \/ task[t].pc = "reclaim"    /\ rec.status = "processing" /\ rec.lock # "fresh"

Acquired(e) == [record EXCEPT ![e].status = "processing", ![e].lock = "fresh"]

TryAcquire(t) ==
  /\ task[t].pc \in {"insert", "takeFailed", "reclaim"}
  /\ Acquires(t)
  /\ record' = Acquired(EventOfTask(t))
  /\ Goes(t, "upsert")
  /\ UNCHANGED <<processes, broker, copied, histories, trouble>>

\* (A reread that takes a record in progress for done.)
AfterRereadSkipping ==
  [none |-> "idle", processed |-> "duplicate", failed |-> "takeFailed",
   processing |-> "duplicate"]

\* What the record's status leads to, once error 11000 said that there is one.
AfterReread ==
  [none |-> "idle", processed |-> "duplicate", failed |-> "takeFailed",
   processing |-> "reclaim"]

\* Not acquired: read the record, decide by its status, or return in_progress,
\* which answers the broker nothing.
NotAcquired(t) ==
  /\ \/ task[t].pc = "insert" /\ ~Acquires(t) /\ Goes(t, "reread")
     \/ task[t].pc = "reread" /\ Goes(t, AfterReread[record[EventOfTask(t)].status])
     \/ task[t].pc \in {"takeFailed", "reclaim"} /\ ~Acquires(t) /\ Goes(t, "idle")
  /\ UNCHANGED <<processes, broker, record, copied, histories, trouble>>

-----------------------------------------------------------------------------
\* consumeHandler

AfterUpsert == [upsert |-> "record", plainUpsert |-> "plainAck"]

\* upsertUser, keyed by the user's id: no other index can refuse it.
Upserted(t) ==
  /\ copied' = copied \union {EventOfTask(t)}
  /\ executions' = [executions EXCEPT ![EventOfTask(t)] = IF @ < 2 THEN @ + 1 ELSE @]

Upsert(t) ==
  /\ task[t].pc \in {"upsert", "plainUpsert"}
  /\ Upserted(t)
  /\ Goes(t, AfterUpsert[task[t].pc])
  /\ exposed' = IF task[t].pc = "plainUpsert" THEN exposed \union {EventOfTask(t)} ELSE exposed
  /\ UNCHANGED <<processes, broker, record, failed, orphaned, trouble>>

\* The updateOne of markProcessedEvent and markFailedEvent: by _id alone, no upsert.
Marked(e, status) ==
  IF dedupe /\ record[e].status # "none"
  THEN [record EXCEPT ![e].status = status, ![e].lock = "none",
                      ![e].done = @ \/ status = "processed"]
  ELSE record

Mark(t) ==
  /\ \/ /\ task[t].pc = "record"
        /\ record' = Marked(EventOfTask(t), "processed")
        /\ Goes(t, "ack")
     \/ /\ task[t].pc = "recordFailure"
        /\ record' = Marked(EventOfTask(t), "failed")
        /\ Goes(t, "nack")
  /\ UNCHANGED <<processes, broker, copied, histories, trouble>>

\* ch.ack or ch.nack on the channel of the delivery ends the task.
Answer(t) ==
  /\ task[t].pc \in Answers /\ task[t].open
  /\ place' = [place EXCEPT ![t[2]].at = IF task[t].pc = "nack" THEN "nacking" ELSE "acking"]
  /\ Goes(t, "idle")
  /\ UNCHANGED <<processes, unmarked, record, copied, histories, trouble>>

\* On a closed channel ch.ack throws.  Inside the try that is a failure to record;
\* elsewhere the outer catch's nack throws too, and the rejection ends the process.
AnswerThrows(t) ==
  /\ task[t].pc \in Answers /\ ~task[t].open
  /\ \/ /\ task[t].pc = "ack"
        /\ Goes(t, "recordFailure")
        /\ exposed' = exposed \union {EventOfTask(t)}
        /\ UNCHANGED <<processes, broker, record, copied, executions, failed, orphaned>>
     \/ task[t].pc # "ack" /\ Gone(t[1])
  /\ UNCHANGED trouble

-----------------------------------------------------------------------------
\* A statement throws; MongoDB may have applied it all the same.  While the
\* process is stopping that is the closed client, otherwise a fault.

\* Where the handler goes on: the catch of the try, or the outer one.
Caught(t) == IF task[t].pc \in {"upsert", "record"} THEN "recordFailure" ELSE "nack"

\* Whether the statement took effect is open.
Throw(t) ==
  LET e == EventOfTask(t) IN
  /\ \/ task[t].pc \in Begin \union {"upsert", "plainUpsert"}
     \/ dedupe /\ task[t].pc \in {"record", "recordFailure"}
  /\ \/ phase[t[1]] = "stopping" /\ UNCHANGED trouble
     \/ phase[t[1]] # "stopping" /\ Trouble
  /\ \/ UNCHANGED <<record, copied, executions>>
     \/ Acquires(t) /\ record' = Acquired(e) /\ UNCHANGED <<copied, executions>>
     \/ task[t].pc \in {"upsert", "plainUpsert"} /\ Upserted(t) /\ UNCHANGED record
     \/ /\ task[t].pc \in {"record", "recordFailure"}
        /\ record' = Marked(e, IF Unrecorded(t) THEN "processed" ELSE "failed")
        /\ UNCHANGED <<copied, executions>>
  /\ Goes(t, Caught(t))
  /\ failed' = failed \union {e}
  /\ exposed' = IF Unrecorded(t) \/ executions' # executions THEN exposed \union {e} ELSE exposed
  /\ orphaned' = IF task[t].pc \in Begin \union {"recordFailure"}
                 THEN orphaned \union {e} ELSE orphaned
  /\ UNCHANGED <<processes, broker>>

-----------------------------------------------------------------------------
Handle(t) ==
  TryAcquire(t) \/ NotAcquired(t) \/ Upsert(t) \/ Mark(t) \/ Answer(t) \/ AnswerThrows(t)

Shutdown(x) == BeginStop(x) \/ StopConsumers(x) \/ Exit(x)

Next ==
  \/ \E x \in Replicas :
       \/ Start(x) \/ Terminate(x) \/ Shutdown(x)
       \/ Crash(x) \/ ConnectionLost(x) \/ ConnectionClosed(x)
  \/ \E m \in Messages : Publish(m) \/ Settle(m)
  \/ \E x \in Replicas, m \in Messages : Deliver(x, m)
  \/ \E e \in Events : LockExpires(e) \/ RecordExpires(e)
  \/ \E t \in Tasks : Handle(t) \/ Throw(t)

Spec == Init /\ [][Next]_vars

\* Containers restart, a shutdown goes on, the queue delivers to a consumer,
\* awaits are answered, the broker reads answers.
Fairness ==
  /\ \A x \in Replicas : WF_vars(Start(x)) /\ WF_vars(Shutdown(x))
  /\ \A m \in Messages : WF_vars(\E x \in Replicas : Deliver(x, m)) /\ WF_vars(Settle(m))
  /\ \A t \in Tasks : WF_vars(Handle(t))

FairSpec == Spec /\ Fairness

-----------------------------------------------------------------------------
\* Properties

\* What the promise calls trouble is a statement that threw: nothing else, neither a
\* crash, nor a lost connection, nor a record in progress, discards a message.
Promise == INSTANCE ConsumerPromise WITH
  applied  <- copied,
  troubled <- failed,
  recorded <- {e \in Events : record[e].status = "processed"},
  acked    <- {m \in Messages : place[m].at = "acked"},
  dropped  <- {m \in Messages : place[m].at = "dropped"}

\* chat-service keeps the promise of an idempotent consumer through crashes,
\* connections lost or closed, shutdowns and expired records: what is acknowledged
\* was copied, and what is discarded had a statement that threw.
KeepsPromise == Promise!Spec

\* Over copies, redeliveries, restarts and shutdowns one task at a time works on an
\* event, and it is copied once, unless the event was exposed: its record expired or
\* was lost, its lock ran out, its ack threw, or nothing identified it.
AppliedOnceUnlessExposed ==
  \A e \in Events \ exposed :
    /\ executions[e] < 2
    /\ \A s, t \in Tasks : Working(s) /\ Working(t) /\ EventOfTask(s) = e
                            /\ EventOfTask(t) = e => s = t

\* A message in the queue leads to its user being copied, through lost connections,
\* crashes and shutdowns.  Only three things excuse it: a statement threw and the
\* message was discarded; a record was left processing by a task that is gone; or an
\* operator's close left every process without a consumer.
EventuallyCopied ==
  \A m \in Messages :
    place[m].at = "ready" ~>
      EventOf[m] \in copied \union failed \union orphaned \/ deaf = Replicas
=============================================================================
