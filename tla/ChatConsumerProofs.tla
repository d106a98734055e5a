------------------------- MODULE ChatConsumerProofs -------------------------
(***************************************************************************)
(* Theorems about ChatConsumer for any replicas, events and messages, any  *)
(* settings and any amount of trouble.                                     *)
(***************************************************************************)
EXTENDS ChatConsumer, TLAPS

-----------------------------------------------------------------------------
\* The inductive invariant, in named parts

\* While the channel of a task is open the broker waits for its answer, and it is
\* closed only when the replica consumes no more.  So a message is never delivered to
\* a replica that still works on it.
ChannelInv ==
  \A t \in Tasks : task[t].pc # "idle" =>
    /\ subscribed[t[1]] => task[t].open
    /\ task[t].open => place[t[2]].at = "unacked" /\ place[t[2]].by = t[1]

\* What is recorded or acknowledged, or about to be, was copied.
AppliedInv ==
  /\ \A e \in Events : record[e].status = "processed" => e \in copied
  /\ \A m \in Messages : place[m].at \in {"acking", "acked"} => EventOf[m] \in copied
  /\ \A t \in Tasks : task[t].pc \in {"record", "ack", "plainAck", "duplicate"} =>
       EventOfTask(t) \in copied

\* A message is discarded only after a statement threw.  (An ack that throws leads here
\* without one, and then the channel is closed and the nack throws too.)
FailedInv ==
  /\ \A m \in Messages : place[m].at \in {"nacking", "dropped"} => EventOf[m] \in failed
  /\ \A t \in Tasks : task[t].pc \in {"recordFailure", "nack"} /\ task[t].open =>
       EventOfTask(t) \in failed

\* The record of event e is the lock of the one task that works on it, and shows an
\* execution unless that task is about to.
LockedBy(e) ==
  /\ executions[e] < 2
  /\ \A t \in Tasks : Working(t) /\ EventOfTask(t) = e =>
       /\ record[e].status = "processing" /\ record[e].lock = "fresh"
       /\ \A s \in Tasks : Working(s) /\ EventOfTask(s) = e => s = t
       /\ executions[e] > 0 => Unrecorded(t)
  /\ executions[e] > 0 =>
       \/ record[e].status = "processed"
       \/ \E t \in Tasks : Unrecorded(t) /\ EventOfTask(t) = e

\* Without de-duplication an event is exposed by its first delivery.
LockInv ==
  /\ \A t \in Tasks : task[t].pc # "idle" => dedupe \/ EventOfTask(t) \in exposed
  /\ \A e \in Events \ exposed : LockedBy(e)

IndInv == TypeOK /\ ChannelInv /\ AppliedInv /\ FailedInv /\ LockInv

-----------------------------------------------------------------------------
\* What the operators do

\* A task is a replica that has one message in hand.
LEMMA TaskParts ==
  ASSUME NEW t \in Tasks
  PROVE  t[1] \in Replicas /\ t[2] \in Messages /\ t = <<t[1], t[2]>> /\ EventOfTask(t) \in Events
  BY EventOfAssumption DEF Tasks, EventOfTask

\* What the broker's view of a message can be.
LEMMA BrokerHas ==
  /\ \A where \in {"never", "absent", "ready", "acked", "dropped"} :
       At(where) \in Places /\ At(where).at = where /\ At(where).by = "nobody"
  /\ \A where \in InFlight, x \in Replicas : [at |-> where, by |-> x] \in Places
  BY DEF At, Places, InFlight

\* A handler that is not running has nothing in hand.
LEMMA IdleOne == IdleTask \in TaskType /\ IdleTask.pc = "idle" /\ ~IdleTask.open
  BY DEF IdleTask, TaskType

\* What the broker takes back becomes ready, the rest stays.
LEMMA RequeuedPlaces ==
  ASSUME place \in [Messages -> Places], NEW x \in Replicas
  PROVE  /\ Requeued(x) \in [Messages -> Places]
         /\ \A m \in Messages :
              /\ Requeued(x)[m].by # x
              /\ place[m].by # x => Requeued(x)[m] = place[m]
              /\ \/ Requeued(x)[m] = place[m]
                 \/ Requeued(x)[m].at = "ready" /\ Requeued(x)[m].by = "nobody"
              /\ place[m].at \in {"acked", "dropped"} => Requeued(x)[m] = place[m]
              /\ Requeued(x)[m].at \in {"acked", "dropped"} => Requeued(x)[m] = place[m]
  <1>1. \A m \in Messages : place[m].at \in {"acked", "dropped"} => place[m].by # x
    BY ReplicasAssumption DEF Places, InFlight
  <1>2. At("ready") \in Places /\ At("ready").at = "ready" /\ At("ready").by = "nobody"
    BY BrokerHas
  <1>3. At("ready").by # x
    BY <1>2, ReplicasAssumption
  <1> QED BY <1>1, <1>2, <1>3 DEF Requeued

\* Task t goes on to step s, or ends.
Becomes(t, s) ==
  /\ task' \in [Tasks -> TaskType]
  /\ task'[t].pc = s
  /\ IF s = "idle" THEN task'[t] = IdleTask ELSE task'[t].open = task[t].open
  /\ \A u \in Tasks \ {t} : task'[u] = task[u]

\* Moving one handler on leaves every other handler as it was.
LEMMA TaskGoes ==
  ASSUME task \in [Tasks -> TaskType], NEW t \in Tasks,
         NEW s \in {"idle", "upsert", "record", "recordFailure", "plainUpsert"}
                     \union Begin \union Answers,
         Goes(t, s)
  PROVE  Becomes(t, s)
  <1>1. CASE s = "idle"
    BY <1>1, IdleOne DEF Goes, Becomes
  <1>2. CASE s # "idle"
    <2> DEFINE new == [task[t] EXCEPT !.pc = s]
    <2>1. new \in TaskType /\ new.pc = s /\ new.open = task[t].open
      BY DEF TaskType
    <2>2. task' = [task EXCEPT ![t] = new]
      BY <1>2 DEF Goes
    <2> HIDE DEF new
    <2> QED BY <1>2, <2>1, <2>2 DEF Becomes
  <1> QED BY <1>1, <1>2

\* The record a statement leaves.
LEMMA WrittenRecords ==
  ASSUME record \in [Events -> RecordType], NEW e \in Events
  PROVE  /\ Acquired(e) \in [Events -> RecordType]
         /\ Acquired(e)[e].status = "processing" /\ Acquired(e)[e].lock = "fresh"
         /\ \A d \in Events \ {e} : Acquired(e)[d] = record[d]
         /\ \A status \in {"processed", "failed"} :
              /\ Marked(e, status) \in [Events -> RecordType]
              /\ \A d \in Events \ {e} : Marked(e, status)[d] = record[d]
              /\ Marked(e, status)[e].status =
                   IF dedupe /\ record[e].status # "none" THEN status ELSE record[e].status
  <1>1. record[e] \in RecordType
    OBVIOUS
  <1>2. /\ Acquired(e) \in [Events -> RecordType]
        /\ Acquired(e)[e].status = "processing" /\ Acquired(e)[e].lock = "fresh"
        /\ \A d \in Events \ {e} : Acquired(e)[d] = record[d]
    <2> DEFINE new == [record[e] EXCEPT !.status = "processing", !.lock = "fresh"]
    <2>1. new \in RecordType /\ new.status = "processing" /\ new.lock = "fresh"
      BY <1>1 DEF RecordType
    <2>2. Acquired(e) = [record EXCEPT ![e] = new]
      BY <1>1 DEF Acquired, RecordType
    <2> HIDE DEF new
    <2> QED BY <2>1, <2>2
  <1>3. ASSUME NEW status \in {"processed", "failed"}, dedupe, record[e].status # "none"
        PROVE  /\ Marked(e, status) \in [Events -> RecordType]
               /\ Marked(e, status)[e].status = status
               /\ \A d \in Events \ {e} : Marked(e, status)[d] = record[d]
    <2> DEFINE new == [record[e] EXCEPT !.status = status, !.lock = "none",
                                        !.done = record[e].done \/ status = "processed"]
    <2>1. new \in RecordType /\ new.status = status
      BY <1>1 DEF RecordType
    <2>2. Marked(e, status) = [record EXCEPT ![e] = new]
      BY <1>1, <1>3 DEF Marked, RecordType
    <2> HIDE DEF new
    <2> QED BY <2>1, <2>2
  <1> QED BY <1>2, <1>3 DEF Marked

\* Trouble is counted down.
LEMMA TroubleCounted ==
  ASSUME trouble \in Nat, Trouble
  PROVE  trouble' \in Nat
  BY DEF Trouble

-----------------------------------------------------------------------------
\* The invariant is inductive: one lemma for each group of actions

\* The invariant holds at the start.
LEMMA InitInv == Init => IndInv
  <1> SUFFICES ASSUME Init PROVE IndInv
    OBVIOUS
  <1>1. PICK setting \in Settings :
          /\ dedupe = setting.dedupe
          /\ unmarked = setting.unmarked
          /\ place = [m \in Messages |-> At(IF m \in setting.published THEN "absent" ELSE "never")]
          /\ trouble = setting.trouble
    BY DEF Init
  <1>2. dedupe \in BOOLEAN /\ unmarked \subseteq Messages /\ trouble \in Nat
    <2>1. setting \in [dedupe : BOOLEAN, unmarked : SUBSET Messages,
                       published : SUBSET Messages, trouble : Nat]
      BY SettingsAssumption
    <2> QED BY <1>1, <2>1
  <1>3. /\ place \in [Messages -> Places]
        /\ \A m \in Messages : place[m].at \in {"absent", "never"} /\ place[m].by = "nobody"
    BY <1>1, BrokerHas
  <1>4. /\ \A t \in Tasks : task[t] = IdleTask
        /\ \A e \in Events : record[e] = NoRecord /\ executions[e] = 0
    BY DEF Init
  <1>5. NoRecord \in RecordType /\ NoRecord.status = "none"
    BY DEF NoRecord, RecordType
  <1>6. TypeOK
    <2>1. \A x \in Replicas, m \in Messages : task[<<x, m>>] = IdleTask /\ place[m].by # x
      BY <1>3, <1>4, ReplicasAssumption DEF Tasks
    <2> QED BY <1>2, <1>3, <1>5, <2>1, IdleOne DEF Init, TypeOK
  <1>7. ChannelInv /\ AppliedInv /\ FailedInv
    BY <1>3, <1>4, <1>5, IdleOne DEF ChannelInv, AppliedInv, FailedInv
  <1>8. LockInv
    BY <1>4, IdleOne DEF LockInv, LockedBy, Working
  <1> QED BY <1>6, <1>7, <1>8 DEF IndInv

\* A step of a process that leaves its connection, the broker and the tasks alone, or
\* opens the connection of a process that had none and no task.
LEMMA PhasesKeepInv ==
  ASSUME IndInv, NEW x \in Replicas, Start(x) \/ Terminate(x) \/ BeginStop(x)
  PROVE  IndInv'
  <1> USE DEF IndInv
  <1>1. /\ UNCHANGED <<dedupe, deaf, unmarked, place, task, record, copied, executions, failed,
                       exposed, orphaned>>
        /\ phase' \in [Replicas -> {"down", "running", "draining", "stopping"}]
        /\ phase'[x] # "down" /\ \A y \in Replicas \ {x} : phase'[y] = phase[y]
        /\ subscribed' \in [Replicas -> BOOLEAN]
        /\ \A y \in Replicas \ {x} : subscribed'[y] = subscribed[y]
        /\ subscribed'[x] = subscribed[x] \/ phase[x] = "down"
        /\ trouble' \in Nat
    BY TroubleCounted DEF Start, Terminate, BeginStop, TypeOK, broker, histories
  <1>2. TypeOK'
    BY <1>1 DEF TypeOK
  <1>3. ChannelInv'
    <2>1. \A t \in Tasks : phase[t[1]] = "down" => task[t].pc = "idle"
      BY TaskParts, IdleOne DEF TypeOK
    <2> QED BY <1>1, <2>1, TaskParts DEF ChannelInv
  <1>4. AppliedInv' /\ FailedInv'
    BY <1>1 DEF AppliedInv, FailedInv
  <1>5. LockInv'
    BY <1>1 DEF LockInv, LockedBy, Working, Unrecorded
  <1> QED BY <1>2, <1>3, <1>4, <1>5

\* The process is gone: its tasks work on nothing any more.
LEMMA GoneKeepsInv ==
  ASSUME IndInv, NEW x \in Replicas, Gone(x), trouble' \in Nat
  PROVE  IndInv'
  <1> USE DEF IndInv
  <1>1. /\ phase' = [phase EXCEPT ![x] = "down"] /\ subscribed' = [subscribed EXCEPT ![x] = FALSE]
        /\ place' = Requeued(x)
        /\ UNCHANGED <<dedupe, unmarked, record, copied, executions, failed>>
        /\ deaf' \subseteq deaf
    BY DEF Gone
  <1>2. /\ task' \in [Tasks -> TaskType]
        /\ \A t \in Tasks : IF t[1] = x THEN task'[t] = IdleTask ELSE task'[t] = task[t]
    BY IdleOne DEF Gone, TypeOK
  <1>3. /\ exposed \subseteq exposed' /\ exposed' \subseteq Events
        /\ orphaned' \subseteq Events
        /\ \A t \in Tasks : t[1] = x /\ Unrecorded(t) => EventOfTask(t) \in exposed'
    BY TaskParts DEF Gone, TypeOK, EventsOf
  <1>4. /\ place' \in [Messages -> Places]
        /\ \A m \in Messages :
             /\ place'[m].by # x
             /\ place[m].by # x => place'[m] = place[m]
             /\ place'[m] = place[m] \/ (place'[m].at = "ready" /\ place'[m].by = "nobody")
    BY <1>1, RequeuedPlaces DEF TypeOK
  <1>5. TypeOK'
    <2>1. ASSUME NEW y \in Replicas, phase'[y] = "down"
          PROVE  ~subscribed'[y] /\ \A m \in Messages : task'[<<y, m>>] = IdleTask /\ place'[m].by # y
      <3>1. CASE y = x
        <4>1. \A m \in Messages : <<y, m>> \in Tasks /\ <<y, m>>[1] = x
          BY <3>1 DEF Tasks
        <4> QED BY <1>1, <1>2, <1>4, <3>1, <4>1 DEF TypeOK
      <3>2. CASE y # x
        <4>1. phase[y] = "down" /\ subscribed'[y] = subscribed[y]
          BY <1>1, <2>1, <3>2 DEF TypeOK
        <4>2. \A m \in Messages : <<y, m>> \in Tasks /\ <<y, m>>[1] # x
          BY <3>2 DEF Tasks
        <4> QED BY <1>2, <1>4, <4>1, <4>2, ReplicasAssumption DEF TypeOK
      <3> QED BY <3>1, <3>2
    <2> QED BY <1>1, <1>2, <1>3, <1>4, <2>1 DEF TypeOK
  <1>6. ChannelInv'
    BY <1>1, <1>2, <1>4, TaskParts, IdleOne DEF TypeOK, ChannelInv
  <1>7. AppliedInv' /\ FailedInv'
    BY <1>1, <1>2, <1>4, IdleOne DEF AppliedInv, FailedInv
  <1>8. LockInv'
    <2>1. \A t \in Tasks : task'[t].pc # "idle" => task'[t] = task[t]
      BY <1>2, IdleOne
    <2>2. \A t \in Tasks : Working(t)' => Working(t) /\ task'[t] = task[t]
      BY <2>1 DEF Working
    <2>3. \A t \in Tasks : Unrecorded(t) => EventOfTask(t) \in exposed' \/ Unrecorded(t)'
      BY <1>2, <1>3 DEF Unrecorded
    <2> QED BY <1>1, <1>3, <2>1, <2>2, <2>3 DEF LockInv, LockedBy, Unrecorded
  <1> QED BY <1>5, <1>6, <1>7, <1>8

\* The channel is closed and the process goes on.
LEMMA UnsubscribedKeepsInv ==
  ASSUME IndInv, NEW x \in Replicas, ConnectionClosed(x) \/ StopConsumers(x)
  PROVE  IndInv'
  <1> USE DEF IndInv
  <1>1. /\ subscribed' = [subscribed EXCEPT ![x] = FALSE] /\ place' = Requeued(x)
        /\ UNCHANGED <<dedupe, phase, unmarked, record, copied, executions, failed, exposed,
                       orphaned>>
        /\ deaf' \subseteq deaf \union {x} /\ trouble' \in Nat /\ subscribed[x]
    BY TroubleCounted DEF ConnectionClosed, StopConsumers, Unsubscribed, TypeOK, histories
  <1>2. /\ task' \in [Tasks -> TaskType]
        /\ \A t \in Tasks : /\ task'[t].pc = task[t].pc
                            /\ IF t[1] = x THEN ~task'[t].open ELSE task'[t] = task[t]
    <2>1. \A old \in TaskType : LET new == [old EXCEPT !.open = FALSE] IN
            new \in TaskType /\ new.pc = old.pc /\ ~new.open
      BY DEF TaskType
    <2>2. task \in [Tasks -> TaskType]
      BY DEF TypeOK
    <2>3. task' = [t \in Tasks |-> IF t[1] = x THEN [task[t] EXCEPT !.open = FALSE] ELSE task[t]]
      BY DEF ConnectionClosed, StopConsumers, Unsubscribed
    <2> QED BY <2>1, <2>2, <2>3
  <1>3. /\ place' \in [Messages -> Places]
        /\ \A m \in Messages :
             /\ place'[m].by # x
             /\ place[m].by # x => place'[m] = place[m]
             /\ place'[m] = place[m] \/ (place'[m].at = "ready" /\ place'[m].by = "nobody")
    BY <1>1, RequeuedPlaces DEF TypeOK
  <1>4. TypeOK'
    <2>1. ASSUME NEW y \in Replicas, phase'[y] = "down"
          PROVE  ~subscribed'[y] /\ \A m \in Messages : task'[<<y, m>>] = IdleTask /\ place'[m].by # y
      <3>1. phase[y] = "down" /\ y # x
        BY <1>1, <2>1 DEF TypeOK
      <3>2. \A m \in Messages : <<y, m>> \in Tasks /\ <<y, m>>[1] # x
        BY <3>1 DEF Tasks
      <3> QED BY <1>1, <1>2, <1>3, <3>1, <3>2, ReplicasAssumption DEF TypeOK
    <2> QED BY <1>1, <1>2, <1>3, <2>1 DEF TypeOK
  <1>5. ChannelInv'
    BY <1>1, <1>2, <1>3, TaskParts DEF TypeOK, ChannelInv
  <1>6. AppliedInv' /\ FailedInv'
    <2>1. AppliedInv'
      BY <1>1, <1>2, <1>3 DEF AppliedInv
    <2>2. FailedInv'
      BY <1>1, <1>2, <1>3 DEF FailedInv
    <2> QED BY <2>1, <2>2
  <1>7. LockInv'
    BY <1>1, <1>2 DEF LockInv, LockedBy, Working, Unrecorded
  <1> QED BY <1>4, <1>5, <1>6, <1>7

\* The broker gets a message, or settles one it was answered.
LEMMA BrokerKeepsInv ==
  ASSUME IndInv, NEW m \in Messages, Publish(m) \/ Settle(m)
  PROVE  IndInv'
  <1> USE DEF IndInv
  <1>1. UNCHANGED <<dedupe, phase, subscribed, deaf, unmarked, task, record, copied, executions,
                    failed, exposed, orphaned, trouble>>
    BY DEF Publish, Settle, processes, histories
  <1>2. PICK where \in {"ready", "acked", "dropped"} :
          /\ place' = [place EXCEPT ![m] = At(where)]
          /\ place[m].at \notin {"unacked"}
          /\ where = "acked" => place[m].at = "acking"
          /\ where = "dropped" => place[m].at = "nacking"
    <2>1. CASE Publish(m)
      BY <2>1, BrokerHas DEF Publish
    <2>2. CASE Settle(m)
      BY <2>2 DEF Settle
    <2> QED BY <2>1, <2>2
  <1>3. /\ place' \in [Messages -> Places] /\ place'[m].at = where /\ place'[m].by = "nobody"
        /\ \A n \in Messages \ {m} : place'[n] = place[n]
    BY <1>2, BrokerHas DEF TypeOK
  <1>4. TypeOK'
    BY <1>1, <1>3, ReplicasAssumption DEF TypeOK
  <1>5. ChannelInv'
    BY <1>1, <1>2, <1>3, TaskParts DEF ChannelInv
  <1>6. AppliedInv' /\ FailedInv'
    BY <1>1, <1>2, <1>3 DEF AppliedInv, FailedInv
  <1>7. LockInv'
    BY <1>1 DEF LockInv, LockedBy, Working, Unrecorded
  <1> QED BY <1>4, <1>5, <1>6, <1>7

\* A delivery: the replica has no task for the message.
LEMMA DeliverKeepsInv ==
  ASSUME IndInv, NEW x \in Replicas, NEW m \in Messages, Deliver(x, m)
  PROVE  IndInv'
  <1> USE DEF IndInv
  <1> DEFINE t == <<x, m>>
  <1>1. /\ UNCHANGED <<dedupe, phase, subscribed, deaf, unmarked, record, copied, executions,
                       failed, orphaned, trouble>>
        /\ t \in Tasks /\ t[1] = x /\ t[2] = m /\ subscribed[x]
        /\ place[m].at = "ready" /\ phase[x] # "down"
        /\ exposed \subseteq exposed' /\ exposed' \subseteq Events
        /\ dedupe \/ EventOf[m] \in exposed'
    <2>1. t \in Tasks /\ t[1] = x /\ t[2] = m
      BY DEF Tasks
    <2>2. /\ UNCHANGED <<dedupe, phase, subscribed, deaf, unmarked, record, copied, executions,
                         failed, orphaned, trouble>>
          /\ subscribed[x] /\ place[m].at = "ready"
      BY BrokerHas DEF Deliver, processes
    <2>3. phase[x] # "down"
      BY <2>2 DEF TypeOK
    <2>4. exposed' = IF dedupe THEN exposed ELSE exposed \union {EventOf[m]}
      BY DEF Deliver
    <2>5. exposed \subseteq Events /\ EventOf[m] \in Events
      BY EventOfAssumption DEF TypeOK
    <2> QED BY <2>1, <2>2, <2>3, <2>4, <2>5
  <1>2. task[t].pc = "idle"
    <2> HIDE DEF t
    <2> QED BY <1>1 DEF ChannelInv
  <1>3. PICK s \in {"insert", "plainUpsert", "upsert"} :
          /\ task' = [task EXCEPT ![t] = [pc |-> s, open |-> TRUE]]
          /\ s = "upsert" => ~dedupe
    BY DEF Deliver, FirstStep
  <1>4. /\ task' \in [Tasks -> TaskType] /\ task'[t].pc = s /\ task'[t].open
        /\ \A u \in Tasks \ {t} : task'[u] = task[u]
    <2>1. [pc |-> s, open |-> TRUE] \in TaskType
      BY DEF TaskType, Begin, Answers
    <2> QED BY <1>1, <1>3, <2>1 DEF TypeOK
  <1>5. /\ place' \in [Messages -> Places] /\ place'[m].at = "unacked" /\ place'[m].by = x
        /\ \A n \in Messages \ {m} : place'[n] = place[n]
    BY BrokerHas DEF Deliver, TypeOK, InFlight
  <1>6. EventOfTask(t) = EventOf[m]
    BY DEF EventOfTask
  <1>7. \A y \in Replicas, n \in Messages : <<y, n>> \in Tasks /\ (<<y, n>> = t => y = x)
    BY DEF Tasks
  <1> HIDE DEF t
  <1>8. TypeOK'
    BY <1>1, <1>4, <1>5, <1>7 DEF TypeOK
  <1>9. ChannelInv'
    <2>1. \A u \in Tasks \ {t} : u[2] = m => task[u].pc = "idle" \/ ~task[u].open
      BY <1>1 DEF ChannelInv
    <2> QED BY <1>1, <1>4, <1>5, <2>1, TaskParts DEF ChannelInv
  <1>10. AppliedInv' /\ FailedInv'
    BY <1>1, <1>4, <1>5 DEF AppliedInv, FailedInv
  <1>11. LockInv'
    <2>1. \A u \in Tasks \ {t} : /\ Working(u)' <=> Working(u)
                                 /\ Unrecorded(u)' <=> Unrecorded(u)
      BY <1>4 DEF Working, Unrecorded
    <2>2. ~Working(t) /\ ~Unrecorded(t) /\ ~Unrecorded(t)'
      BY <1>2, <1>4 DEF Working, Unrecorded
    <2>3. Working(t)' => EventOfTask(t) \in exposed'
      BY <1>1, <1>3, <1>4, <1>6 DEF Working
    <2>4. \A e \in Events \ exposed' : LockedBy(e)'
      BY <1>1, <2>1, <2>2, <2>3 DEF LockInv, LockedBy
    <2>5. \A u \in Tasks : task'[u].pc # "idle" => dedupe' \/ EventOfTask(u) \in exposed'
      BY <1>1, <1>4, <1>6 DEF LockInv
    <2> QED BY <2>4, <2>5 DEF LockInv
  <1> QED BY <1>8, <1>9, <1>10, <1>11

\* MongoDB's clock: a lock that runs out, a record that expires.
LEMMA ClockKeepsInv ==
  ASSUME IndInv, NEW e \in Events, LockExpires(e) \/ RecordExpires(e)
  PROVE  IndInv'
  <1> USE DEF IndInv
  <1>1. /\ UNCHANGED <<dedupe, phase, subscribed, deaf, unmarked, place, task, copied, executions,
                       failed, orphaned>>
        /\ exposed \subseteq exposed' /\ exposed' \subseteq Events /\ trouble' \in Nat
        /\ record \in [Events -> RecordType]
    BY TroubleCounted DEF LockExpires, RecordExpires, TypeOK, processes, broker
  <1>2. /\ record' \in [Events -> RecordType]
        /\ \A d \in Events \ {e} : record'[d] = record[d]
        /\ record'[e].status \in {record[e].status, "none"}
        /\ \/ e \in exposed'
           \/ /\ record'[e].status = record[e].status
              /\ \A t \in Tasks : ~(Working(t) /\ EventOfTask(t) = e)
    <2>1. CASE LockExpires(e)
      <3> DEFINE new == [record[e] EXCEPT !.lock = "stale"]
      <3>1. new \in RecordType /\ new.status = record[e].status
        BY <1>1 DEF RecordType
      <3>2. record' = [record EXCEPT ![e] = new]
        BY <2>1 DEF LockExpires
      <3> HIDE DEF new
      <3> QED BY <1>1, <2>1, <3>1, <3>2 DEF LockExpires
    <2>2. CASE RecordExpires(e)
      <3>1. NoRecord \in RecordType /\ NoRecord.status = "none"
        BY DEF NoRecord, RecordType
      <3> QED BY <1>1, <2>2, <3>1 DEF RecordExpires
    <2> QED BY <2>1, <2>2
  <1>3. TypeOK'
    BY <1>1, <1>2 DEF TypeOK
  <1>4. ChannelInv' /\ AppliedInv' /\ FailedInv'
    <2>1. ChannelInv' /\ FailedInv'
      BY <1>1 DEF ChannelInv, FailedInv
    <2>2. AppliedInv'
      BY <1>1, <1>2 DEF AppliedInv
    <2> QED BY <2>1, <2>2
  <1>5. LockInv'
    <2>1. \A t \in Tasks : /\ Working(t)' <=> Working(t)
                           /\ Unrecorded(t)' <=> Unrecorded(t)
      BY <1>1 DEF Working, Unrecorded
    <2>2. \A d \in Events \ exposed' : LockedBy(d)'
      BY <1>1, <1>2, <2>1 DEF LockInv, LockedBy
    <2> QED BY <1>1, <2>2 DEF LockInv
  <1> QED BY <1>3, <1>4, <1>5

\* A handler goes on from task t to step s: it touches what concerns its own event only,
\* records and acknowledges what was copied, and gives up after a failure.
HandlerEffect(t, s) ==
  LET e == EventOfTask(t) IN
  /\ task[t].pc # "idle" /\ Becomes(t, s)
  /\ UNCHANGED <<dedupe, phase, subscribed, deaf, unmarked, place>> /\ trouble' \in Nat
  /\ record' \in [Events -> RecordType] /\ \A d \in Events \ {e} : record'[d] = record[d]
  /\ record'[e].status = "processed" => e \in copied'
  /\ copied \subseteq copied' /\ copied' \subseteq Events
  /\ failed \subseteq failed' /\ failed' \subseteq Events
  /\ exposed \subseteq exposed' /\ exposed' \subseteq Events
  /\ orphaned' \subseteq Events
  /\ executions' \in [Events -> 0..2]
  /\ \A d \in Events \ {e} : executions'[d] = executions[d]
  /\ s \in {"record", "ack", "plainAck", "duplicate"} => e \in copied'
  /\ s \in {"recordFailure", "nack"} /\ task[t].open => e \in failed'
  /\ e \notin exposed' => LockedBy(e)'

\* A step of one handler that touches its own event alone.
LEMMA HandlerKeepsInv ==
  ASSUME IndInv, NEW t \in Tasks, NEW s, HandlerEffect(t, s)
  PROVE  IndInv'
  <1> USE DEF IndInv, HandlerEffect, Becomes
  <1> DEFINE e == EventOfTask(t)
  <1>1. e \in Events /\ t[1] \in Replicas /\ t[2] \in Messages
    BY TaskParts
  <1>2. TypeOK'
    <2>1. ASSUME NEW x \in Replicas, NEW m \in Messages, phase[x] = "down"
          PROVE  task'[<<x, m>>] = IdleTask
      <3>1. <<x, m>> \in Tasks /\ task[<<x, m>>] = IdleTask
        BY <2>1 DEF Tasks, TypeOK
      <3>2. <<x, m>> # t
        BY <3>1, IdleOne
      <3> QED BY <3>1, <3>2
    <2> QED BY <2>1 DEF TypeOK
  <1>3. ChannelInv'
    BY <1>1 DEF ChannelInv
  <1>4. AppliedInv'
    BY <1>1 DEF AppliedInv
  <1>5. FailedInv'
    BY <1>1 DEF FailedInv
  <1>6. LockInv'
    <2>1. \A u \in Tasks \ {t} : /\ Working(u)' <=> Working(u)
                                 /\ Unrecorded(u)' <=> Unrecorded(u)
      BY DEF Working, Unrecorded
    <2>2. ASSUME NEW d \in Events \ exposed', d # e PROVE LockedBy(d)'
      <3>1. \A u \in Tasks : EventOfTask(u) = d => u # t
        BY <2>2
      <3> QED BY <2>1, <2>2, <3>1 DEF LockInv, LockedBy
    <2>3. \A u \in Tasks : task'[u].pc # "idle" => dedupe' \/ EventOfTask(u) \in exposed'
      BY DEF LockInv
    <2> QED BY <2>2, <2>3 DEF LockInv
  <1> QED BY <1>2, <1>3, <1>4, <1>5, <1>6

\* What the invariant says of a task at work on an event that was not exposed.
LEMMA AtWork ==
  ASSUME IndInv, NEW t \in Tasks, Working(t), EventOfTask(t) \notin exposed
  PROVE  LET e == EventOfTask(t) IN
         /\ dedupe /\ e \in Events /\ executions[e] < 2
         /\ record[e].status = "processing" /\ record[e].lock = "fresh"
         /\ \A u \in Tasks : Working(u) /\ EventOfTask(u) = e => u = t
         /\ ~Unrecorded(t) => executions[e] = 0
  BY TaskParts DEF IndInv, TypeOK, LockInv, LockedBy, Working

\* The statement that acquires an event finds nobody at work on it and no execution.
LEMMA Free ==
  ASSUME IndInv, NEW t \in Tasks, Acquires(t), EventOfTask(t) \notin exposed
  PROVE  LET e == EventOfTask(t) IN
         e \in Events /\ executions[e] = 0 /\ \A u \in Tasks : ~(Working(u) /\ EventOfTask(u) = e)
  <1> DEFINE e == EventOfTask(t)
  <1>1. e \in Events /\ LockedBy(e) /\ executions[e] \in 0..2
    BY TaskParts DEF IndInv, LockInv, TypeOK
  <1>2. record[e].status # "processed"
          /\ ~(record[e].status = "processing" /\ record[e].lock = "fresh")
    BY DEF Acquires
  <1>3. \A u \in Tasks : ~(Working(u) /\ EventOfTask(u) = e)
    BY <1>1, <1>2 DEF LockedBy
  <1>4. \A u \in Tasks : Unrecorded(u) => Working(u)
    BY DEF Working, Unrecorded
  <1>5. executions[e] = 0
    BY <1>1, <1>2, <1>3, <1>4 DEF LockedBy
  <1> QED BY <1>1, <1>3, <1>5

\* A task that does not work on its event, and goes on not to work on it.
LEMMA StillLocked ==
  ASSUME IndInv, NEW t \in Tasks, NEW s, ~Working(t), Becomes(t, s),
         s \notin {"upsert", "record", "recordFailure"},
         UNCHANGED <<record, executions>>, EventOfTask(t) \notin exposed
  PROVE  LockedBy(EventOfTask(t))'
  <1>1. \A u \in Tasks : /\ Working(u)' <=> Working(u)
                         /\ Unrecorded(u)' <=> Unrecorded(u)
    BY DEF Becomes, Working, Unrecorded
  <1>2. LockedBy(EventOfTask(t))
    BY TaskParts DEF IndInv, LockInv
  <1> QED BY <1>1, <1>2 DEF LockedBy

\* A task that acquired its event, or whose acquisition was not reported to it.
LEMMA LockTaken ==
  ASSUME IndInv, NEW t \in Tasks, NEW s \in {"upsert", "nack"}, Becomes(t, s), Acquires(t),
         record' = Acquired(EventOfTask(t)), UNCHANGED executions, EventOfTask(t) \notin exposed
  PROVE  LockedBy(EventOfTask(t))'
  <1> DEFINE e == EventOfTask(t)
  <1>1. e \in Events /\ executions[e] = 0 /\ \A u \in Tasks : ~(Working(u) /\ EventOfTask(u) = e)
    BY Free
  <1>2. record'[e].status = "processing" /\ record'[e].lock = "fresh"
    BY <1>1, WrittenRecords DEF IndInv, TypeOK
  <1>3. \A u \in Tasks \ {t} : Working(u)' <=> Working(u)
    BY DEF Becomes, Working
  <1> QED BY <1>1, <1>2, <1>3 DEF LockedBy

\* A task that is done with its event: recorded if it was executed.
LEMMA LockReleased ==
  ASSUME IndInv, NEW t \in Tasks, NEW s \in {"ack", "nack"}, Becomes(t, s), Working(t),
         EventOfTask(t) \notin exposed, UNCHANGED executions,
         executions[EventOfTask(t)] > 0 => record'[EventOfTask(t)].status = "processed"
  PROVE  LockedBy(EventOfTask(t))'
  <1> DEFINE e == EventOfTask(t)
  <1>1. \A u \in Tasks : ~(Working(u)' /\ EventOfTask(u) = e)
    BY AtWork DEF Becomes, Working
  <1> QED BY <1>1, AtWork DEF LockedBy

\* A task that goes on to work on its event: it was executed now, or not at all.
LEMMA LockHeld ==
  ASSUME IndInv, NEW t \in Tasks, NEW s \in {"record", "recordFailure"}, Becomes(t, s),
         Working(t), ~Unrecorded(t), EventOfTask(t) \notin exposed, UNCHANGED record,
         \/ s = "record" /\ executions'[EventOfTask(t)] = 1
         \/ s = "recordFailure" /\ executions'[EventOfTask(t)] = 0
  PROVE  LockedBy(EventOfTask(t))'
  <1> DEFINE e == EventOfTask(t)
  <1>1. \A u \in Tasks : Working(u)' /\ EventOfTask(u) = e => u = t
    BY AtWork DEF Becomes, Working
  <1>2. s = "record" => Unrecorded(t)'
    BY DEF Becomes, Unrecorded
  <1> QED BY <1>1, <1>2, AtWork DEF LockedBy

\* What a step of a handler starts from.
LEMMA HandlerHas ==
  ASSUME IndInv, NEW t \in Tasks
  PROVE  /\ EventOfTask(t) \in Events /\ t[1] \in Replicas /\ t[2] \in Messages
         /\ task \in [Tasks -> TaskType] /\ trouble \in Nat
         /\ record \in [Events -> RecordType] /\ executions \in [Events -> 0..2]
         /\ copied \subseteq Events /\ failed \subseteq Events /\ exposed \subseteq Events
         /\ orphaned \subseteq Events
         /\ record[EventOfTask(t)].status = "processed" => EventOfTask(t) \in copied
  BY TaskParts DEF IndInv, TypeOK, AppliedInv

\* beginProcessingEvent
LEMMA BeginStepsKeepInv ==
  ASSUME IndInv, NEW t \in Tasks, TryAcquire(t) \/ NotAcquired(t)
  PROVE  IndInv'
  <1> DEFINE e == EventOfTask(t)
  <1>1. /\ e \in Events /\ task \in [Tasks -> TaskType] /\ trouble \in Nat
        /\ record \in [Events -> RecordType] /\ executions \in [Events -> 0..2]
        /\ copied \subseteq Events /\ failed \subseteq Events /\ exposed \subseteq Events
        /\ orphaned \subseteq Events
        /\ record[e].status = "processed" => e \in copied
    BY HandlerHas
  <1>2. /\ UNCHANGED <<dedupe, phase, subscribed, deaf, unmarked, place, copied, executions,
                       failed, exposed, orphaned, trouble>>
        /\ task[t].pc \in Begin
    BY DEF TryAcquire, NotAcquired, processes, broker, histories, Begin
  <1>3. task[t].pc # "idle" /\ ~Working(t)
    BY <1>2 DEF Begin, Working
  <1>4. CASE TryAcquire(t)
    <2>1. Acquires(t) /\ record' = Acquired(e) /\ Becomes(t, "upsert")
      BY <1>1, <1>4, TaskGoes DEF TryAcquire
    <2>2. /\ record' \in [Events -> RecordType] /\ record'[e].status # "processed"
          /\ \A d \in Events \ {e} : record'[d] = record[d]
      BY <1>1, <2>1, WrittenRecords
    <2>3. e \notin exposed => LockedBy(e)'
      BY <1>2, <2>1, LockTaken
    <2>4. HandlerEffect(t, "upsert")
      BY <1>1, <1>2, <1>3, <2>1, <2>2, <2>3 DEF HandlerEffect
    <2> QED BY <2>4, HandlerKeepsInv
  <1>5. CASE NotAcquired(t)
    <2>1. record' = record
      BY <1>5 DEF NotAcquired
    <2>2. PICK s \in {"idle", "reread", "duplicate", "takeFailed", "reclaim"} :
            Goes(t, s) /\ (s = "duplicate" => record[e].status = "processed")
      <3>1. record[e].status \in {"none", "processing", "processed", "failed"}
        BY <1>1 DEF RecordType
      <3> QED BY <1>5, <3>1 DEF NotAcquired, AfterReread
    <2>3. Becomes(t, s)
      BY <1>1, <2>2, TaskGoes DEF Begin, Answers
    <2>4. e \notin exposed => LockedBy(e)'
      BY <1>2, <1>3, <2>1, <2>3, StillLocked
    <2>5. HandlerEffect(t, s)
      BY <1>1, <1>2, <1>3, <2>1, <2>2, <2>3, <2>4 DEF HandlerEffect
    <2> QED BY <2>5, HandlerKeepsInv
  <1> QED BY <1>4, <1>5

\* upsertUser, and the records of what came of it.
LEMMA UpsertedOne ==
  ASSUME IndInv, NEW t \in Tasks, Upserted(t)
  PROVE  LET e == EventOfTask(t) IN
         /\ copied' = copied \union {e} /\ executions' \in [Events -> 0..2]
         /\ \A d \in Events \ {e} : executions'[d] = executions[d]
         /\ executions'[e] = IF executions[e] < 2 THEN executions[e] + 1 ELSE executions[e]
  <1>1. EventOfTask(t) \in Events /\ executions \in [Events -> 0..2]
    BY HandlerHas
  <1> QED BY <1>1 DEF Upserted

\* upsertUser under its record, and the record of what was done.
LEMMA WorkStepsKeepInv ==
  ASSUME IndInv, NEW t \in Tasks, Upsert(t) \/ Mark(t)
  PROVE  IndInv'
  <1> DEFINE e == EventOfTask(t)
  <1>1. /\ e \in Events /\ task \in [Tasks -> TaskType] /\ trouble \in Nat
        /\ record \in [Events -> RecordType] /\ executions \in [Events -> 0..2]
        /\ copied \subseteq Events /\ failed \subseteq Events /\ exposed \subseteq Events
        /\ orphaned \subseteq Events
        /\ record[e].status = "processed" => e \in copied
    BY HandlerHas
  <1>2. CASE Upsert(t)
    <2>1. /\ task[t].pc \in {"upsert", "plainUpsert"} /\ Upserted(t)
          /\ Goes(t, AfterUpsert[task[t].pc])
          /\ exposed' = IF task[t].pc = "plainUpsert" THEN exposed \union {e} ELSE exposed
          /\ UNCHANGED <<dedupe, phase, subscribed, deaf, unmarked, place, record, failed,
                         orphaned, trouble>>
      BY <1>2 DEF Upsert, processes, broker
    <2>2. PICK s \in {"record", "plainAck"} :
            Goes(t, s) /\ (s = "record" <=> task[t].pc = "upsert")
      BY <2>1 DEF AfterUpsert
    <2>3. Becomes(t, s)
      BY <1>1, <2>2, TaskGoes DEF Answers
    <2>4. /\ copied' = copied \union {e} /\ executions' \in [Events -> 0..2]
          /\ \A d \in Events \ {e} : executions'[d] = executions[d]
          /\ executions'[e] = IF executions[e] < 2 THEN executions[e] + 1 ELSE executions[e]
      BY <2>1, UpsertedOne
    <2>5. e \notin exposed' => LockedBy(e)'
      <3> SUFFICES ASSUME e \notin exposed' PROVE LockedBy(e)'
        OBVIOUS
      <3>1. task[t].pc = "upsert" /\ s = "record" /\ e \notin exposed
        BY <2>1, <2>2
      <3>2. Working(t) /\ ~Unrecorded(t)
        BY <3>1 DEF Working, Unrecorded
      <3>3. executions[e] = 0
        BY <3>1, <3>2, AtWork
      <3>4. executions'[e] = 1
        BY <2>4, <3>3
      <3> QED BY <2>1, <2>3, <3>1, <3>2, <3>4, LockHeld
    <2>6. HandlerEffect(t, s)
      BY <1>1, <2>1, <2>2, <2>3, <2>4, <2>5 DEF HandlerEffect
    <2> QED BY <2>6, HandlerKeepsInv
  <1>3. CASE Mark(t)
    <2>1. UNCHANGED <<dedupe, phase, subscribed, deaf, unmarked, place, copied, executions,
                      failed, exposed, orphaned, trouble>>
      BY <1>3 DEF Mark, processes, broker, histories
    <2>2. PICK s \in {"ack", "nack"}, status \in {"processed", "failed"} :
            /\ Goes(t, s) /\ record' = Marked(e, status)
            /\ task[t].pc = IF s = "ack" THEN "record" ELSE "recordFailure"
            /\ status = IF s = "ack" THEN "processed" ELSE "failed"
      BY <1>3 DEF Mark
    <2>3. Becomes(t, s)
      BY <1>1, <2>2, TaskGoes DEF Answers
    <2>4. /\ record' \in [Events -> RecordType]
          /\ \A d \in Events \ {e} : record'[d] = record[d]
          /\ record'[e].status =
               IF dedupe /\ record[e].status # "none" THEN status ELSE record[e].status
      BY <1>1, <2>2, WrittenRecords
    <2>5. Working(t)
      BY <2>2 DEF Working
    <2>6. e \notin exposed => LockedBy(e)'
      <3> SUFFICES ASSUME e \notin exposed PROVE LockedBy(e)'
        OBVIOUS
      <3>1. /\ dedupe /\ record[e].status = "processing"
            /\ ~Unrecorded(t) => executions[e] = 0
        BY <2>5, AtWork
      <3>2. executions[e] > 0 => record'[e].status = "processed"
        BY <2>2, <2>4, <3>1 DEF Unrecorded
      <3> QED BY <2>1, <2>3, <2>5, <3>2, LockReleased
    <2>7. task[t].pc = "record" => e \in copied
      BY DEF IndInv, AppliedInv
    <2>8. task[t].pc = "recordFailure" /\ task[t].open => e \in failed
      BY DEF IndInv, FailedInv
    <2>9. HandlerEffect(t, s)
      BY <1>1, <2>1, <2>2, <2>3, <2>4, <2>6, <2>7, <2>8 DEF HandlerEffect
    <2> QED BY <2>9, HandlerKeepsInv
  <1> QED BY <1>2, <1>3

\* The ack after the record throws: the catch runs on an event that was processed.
LEMMA AckThrowsKeepsInv ==
  ASSUME IndInv, NEW t \in Tasks, AnswerThrows(t)
  PROVE  IndInv'
  <1> DEFINE e == EventOfTask(t)
  <1>1. /\ e \in Events /\ task \in [Tasks -> TaskType] /\ trouble \in Nat /\ t[1] \in Replicas
        /\ record \in [Events -> RecordType] /\ executions \in [Events -> 0..2]
        /\ copied \subseteq Events /\ failed \subseteq Events /\ exposed \subseteq Events
        /\ orphaned \subseteq Events
        /\ record[e].status = "processed" => e \in copied
    BY HandlerHas
  <1>2. CASE task[t].pc = "ack"
    <2>1. /\ ~task[t].open /\ Goes(t, "recordFailure") /\ exposed' = exposed \union {e}
          /\ UNCHANGED <<dedupe, phase, subscribed, deaf, unmarked, place, record, copied,
                         executions, failed, orphaned, trouble>>
      BY <1>2 DEF AnswerThrows, processes, broker
    <2>2. Becomes(t, "recordFailure")
      BY <1>1, <2>1, TaskGoes
    <2>3. HandlerEffect(t, "recordFailure")
      BY <1>1, <1>2, <2>1, <2>2 DEF HandlerEffect
    <2> QED BY <2>3, HandlerKeepsInv
  <1>3. CASE task[t].pc # "ack"
    BY <1>1, <1>3, GoneKeepsInv DEF AnswerThrows
  <1> QED BY <1>2, <1>3

\* A statement throws, whether it took effect or not.
LEMMA ThrowKeepsInv ==
  ASSUME IndInv, NEW t \in Tasks, Throw(t)
  PROVE  IndInv'
  <1> DEFINE e == EventOfTask(t)
  <1>1. /\ e \in Events /\ task \in [Tasks -> TaskType] /\ trouble \in Nat
        /\ record \in [Events -> RecordType] /\ executions \in [Events -> 0..2]
        /\ copied \subseteq Events /\ failed \subseteq Events /\ exposed \subseteq Events
        /\ orphaned \subseteq Events
        /\ record[e].status = "processed" => e \in copied
    BY HandlerHas
  <1>2. /\ task[t].pc \in Begin \union {"upsert", "plainUpsert", "record", "recordFailure"}
        /\ UNCHANGED <<dedupe, phase, subscribed, deaf, unmarked, place>> /\ trouble' \in Nat
        /\ failed' = failed \union {e} /\ orphaned' \subseteq Events
        /\ exposed' = IF Unrecorded(t) \/ executions' # executions THEN exposed \union {e}
                                                                   ELSE exposed
        /\ Goes(t, Caught(t))
    BY <1>1, TroubleCounted DEF Throw, processes, broker
  <1>3. PICK s \in {"recordFailure", "nack"} :
          Goes(t, s) /\ (s = "recordFailure" <=> task[t].pc \in {"upsert", "record"})
    BY <1>2 DEF Caught
  <1>4. Becomes(t, s)
    BY <1>1, <1>3, TaskGoes DEF Answers
  <1>5. \/ UNCHANGED <<record, copied, executions>>
        \/ Acquires(t) /\ record' = Acquired(e) /\ UNCHANGED <<copied, executions>>
        \/ task[t].pc \in {"upsert", "plainUpsert"} /\ Upserted(t) /\ UNCHANGED record
        \/ /\ task[t].pc \in {"record", "recordFailure"}
           /\ record' = Marked(e, IF Unrecorded(t) THEN "processed" ELSE "failed")
           /\ UNCHANGED <<copied, executions>>
    BY Zenon DEF Throw
  <1>6. task[t].pc # "idle" /\ e \in failed' /\ exposed \subseteq exposed' /\ exposed' \subseteq Events
          /\ failed \subseteq failed' /\ failed' \subseteq Events
    BY <1>1, <1>2 DEF Begin
  <1>7. e \notin exposed' => e \notin exposed /\ ~Unrecorded(t) /\ executions' = executions
    BY <1>1, <1>2
  <1>8. Working(t) <=> task[t].pc \in {"upsert", "record", "recordFailure"}
    BY DEF Working
  <1>9. CASE UNCHANGED <<record, copied, executions>>
    <2>1. e \notin exposed' => LockedBy(e)'
      <3> SUFFICES ASSUME e \notin exposed' PROVE LockedBy(e)'
        OBVIOUS
      <3>1. CASE task[t].pc = "upsert"
        BY <1>3, <1>4, <1>7, <1>8, <1>9, <3>1, AtWork, LockHeld
      <3>2. CASE task[t].pc = "recordFailure"
        BY <1>1, <1>3, <1>4, <1>7, <1>8, <1>9, <3>2, AtWork, LockReleased
      <3>3. CASE ~Working(t)
        BY <1>3, <1>4, <1>7, <1>8, <1>9, <3>3, StillLocked
      <3> QED BY <1>7, <1>8, <3>1, <3>2, <3>3 DEF Unrecorded
    <2>2. HandlerEffect(t, s)
      BY <1>1, <1>2, <1>3, <1>4, <1>6, <1>9, <2>1 DEF HandlerEffect
    <2> QED BY <2>2, HandlerKeepsInv
  <1>10. CASE Acquires(t) /\ record' = Acquired(e) /\ UNCHANGED <<copied, executions>>
    <2>1. task[t].pc \in Begin /\ s = "nack"
      BY <1>3, <1>10 DEF Acquires, Begin
    <2>2. e \notin exposed' => LockedBy(e)'
      BY <1>4, <1>7, <1>10, <2>1, LockTaken
    <2>3. /\ record' \in [Events -> RecordType] /\ record'[e].status # "processed"
          /\ \A d \in Events \ {e} : record'[d] = record[d]
      BY <1>1, <1>10, WrittenRecords
    <2>4. HandlerEffect(t, s)
      BY <1>1, <1>2, <1>3, <1>4, <1>6, <1>10, <2>2, <2>3 DEF HandlerEffect
    <2> QED BY <2>4, HandlerKeepsInv
  <1>11. CASE task[t].pc \in {"upsert", "plainUpsert"} /\ Upserted(t) /\ UNCHANGED record
    <2>1. /\ copied' = copied \union {e} /\ executions' \in [Events -> 0..2]
          /\ \A d \in Events \ {e} : executions'[d] = executions[d]
          /\ executions'[e] = IF executions[e] < 2 THEN executions[e] + 1 ELSE executions[e]
      BY <1>11, UpsertedOne
    <2>2. e \in exposed'
      <3> SUFFICES ASSUME e \notin exposed' PROVE FALSE
        OBVIOUS
      <3>1. executions[e] < 2
        BY <1>1, <1>7 DEF IndInv, LockInv, LockedBy
      <3>2. executions'[e] = executions[e] + 1 /\ executions[e] \in 0..2
        BY <1>1, <2>1, <3>1
      <3> QED BY <1>7, <3>2
    <2>3. HandlerEffect(t, s)
      BY <1>1, <1>2, <1>3, <1>4, <1>6, <1>11, <2>1, <2>2 DEF HandlerEffect
    <2> QED BY <2>3, HandlerKeepsInv
  <1>12. CASE /\ task[t].pc \in {"record", "recordFailure"}
              /\ record' = Marked(e, IF Unrecorded(t) THEN "processed" ELSE "failed")
              /\ UNCHANGED <<copied, executions>>
    <2>1. PICK status \in {"processed", "failed"} :
            record' = Marked(e, status) /\ (status = "processed" => Unrecorded(t))
      BY <1>12
    <2>2. /\ record' \in [Events -> RecordType]
          /\ \A d \in Events \ {e} : record'[d] = record[d]
          /\ record'[e].status =
               IF dedupe /\ record[e].status # "none" THEN status ELSE record[e].status
      BY <1>1, <2>1, WrittenRecords
    <2>3. Unrecorded(t) => e \in copied
      BY DEF IndInv, AppliedInv, Unrecorded
    <2>4. e \notin exposed' => LockedBy(e)'
      <3> SUFFICES ASSUME e \notin exposed' PROVE LockedBy(e)'
        OBVIOUS
      <3>1. task[t].pc = "recordFailure" /\ s = "nack" /\ Working(t)
        BY <1>3, <1>7, <1>8, <1>12 DEF Unrecorded
      <3>2. executions[e] = 0
        BY <1>7, <3>1, AtWork
      <3>3. ~(executions[e] > 0)
        BY <3>2
      <3> QED BY <1>4, <1>7, <1>12, <3>1, <3>3, LockReleased
    <2>5. HandlerEffect(t, s)
      BY <1>1, <1>2, <1>3, <1>4, <1>6, <1>12, <2>1, <2>2, <2>3, <2>4 DEF HandlerEffect
    <2> QED BY <2>5, HandlerKeepsInv
  <1> QED BY <1>5, <1>9, <1>10, <1>11, <1>12

\* The answer to the broker ends the task.
LEMMA AnswerKeepsInv ==
  ASSUME IndInv, NEW t \in Tasks, Answer(t)
  PROVE  IndInv'
  <1> USE DEF IndInv
  <1> DEFINE m == t[2]
  <1>1. /\ m \in Messages /\ t[1] \in Replicas /\ EventOfTask(t) = EventOf[m]
        /\ task \in [Tasks -> TaskType] /\ place \in [Messages -> Places]
        /\ task[t].pc \in Answers /\ task[t].open
        /\ UNCHANGED <<dedupe, phase, subscribed, deaf, unmarked, record, copied, executions,
                       failed, exposed, orphaned, trouble>>
    BY TaskParts DEF TypeOK, Answer, EventOfTask, processes, histories
  <1>2. Becomes(t, "idle")
    BY <1>1, TaskGoes DEF Answer
  <1>3. PICK where \in {"acking", "nacking"} :
          /\ place' = [place EXCEPT ![m].at = where]
          /\ where = "nacking" <=> task[t].pc = "nack"
    BY DEF Answer
  <1>4. place[m].at = "unacked" /\ place[m].by = t[1] /\ task[t].pc # "idle"
    BY <1>1 DEF ChannelInv, Answers
  <1> HIDE DEF m
  <1>5. /\ [place[m] EXCEPT !.at = where] \in Places
        /\ [place[m] EXCEPT !.at = where].at = where
        /\ [place[m] EXCEPT !.at = where].by = place[m].by
    BY <1>1, <1>4 DEF Places, InFlight
  <1>6. /\ place' \in [Messages -> Places] /\ place'[m].at = where /\ place'[m].by = place[m].by
        /\ \A n \in Messages \ {m} : place'[n] = place[n]
    BY <1>1, <1>3, <1>5
  <1>7. TypeOK'
    <2>1. ASSUME NEW x \in Replicas, NEW n \in Messages, phase[x] = "down"
          PROVE  task'[<<x, n>>] = IdleTask /\ place'[n].by # x
      <3>1. <<x, n>> \in Tasks /\ task[<<x, n>>] = IdleTask /\ place[n].by # x
        BY <2>1 DEF Tasks, TypeOK
      <3>2. <<x, n>> # t
        BY <1>4, <3>1, IdleOne
      <3> QED BY <1>2, <1>6, <3>1, <3>2 DEF Becomes
    <2> QED BY <1>1, <1>2, <1>6, <2>1 DEF TypeOK, Becomes
  <1>8. ChannelInv'
    <2>1. ASSUME NEW u \in Tasks \ {t}, task[u].pc # "idle", task[u].open PROVE u[2] # m
      BY <1>1, <1>4, <2>1, TaskParts DEF ChannelInv, m
    <2> QED BY <1>1, <1>2, <1>6, <2>1, TaskParts, IdleOne DEF ChannelInv, Becomes
  <1>9. AppliedInv'
    <2>1. where = "acking" => EventOf[m] \in copied
      BY <1>1, <1>3 DEF AppliedInv, Answers
    <2> QED BY <1>1, <1>2, <1>6, <2>1 DEF AppliedInv, Becomes
  <1>10. FailedInv'
    <2>1. where = "nacking" => EventOf[m] \in failed
      BY <1>1, <1>3 DEF FailedInv
    <2> QED BY <1>1, <1>2, <1>6, <2>1 DEF FailedInv, Becomes
  <1>11. LockInv'
    <2>1. ~Working(t) /\ ~Working(t)' /\ ~Unrecorded(t) /\ ~Unrecorded(t)'
      BY <1>1, <1>2 DEF Working, Unrecorded, Answers, Becomes
    <2>2. \A u \in Tasks : /\ Working(u)' <=> Working(u)
                           /\ Unrecorded(u)' <=> Unrecorded(u)
      BY <1>2, <2>1 DEF Becomes, Working, Unrecorded
    <2>3. \A u \in Tasks : task'[u].pc # "idle" => task[u].pc # "idle"
      BY <1>2, <1>4 DEF Becomes
    <2> QED BY <1>1, <2>2, <2>3 DEF LockInv, LockedBy
  <1> QED BY <1>7, <1>8, <1>9, <1>10, <1>11

\* Every step keeps the invariant: by the kind of its action.
LEMMA NextKeepsInv ==
  ASSUME IndInv, Next
  PROVE  IndInv'
  <1>1. ASSUME NEW x \in Replicas, Crash(x) \/ ConnectionLost(x) \/ Exit(x) PROVE IndInv'
    <2>1. Gone(x) /\ trouble' \in Nat
      BY <1>1, TroubleCounted DEF Crash, ConnectionLost, Exit, IndInv, TypeOK
    <2> QED BY <2>1, GoneKeepsInv
  <1>2. ASSUME NEW x \in Replicas,
               \/ Start(x) \/ Terminate(x) \/ Shutdown(x)
               \/ Crash(x) \/ ConnectionLost(x) \/ ConnectionClosed(x)
        PROVE  IndInv'
    BY <1>1, <1>2, PhasesKeepInv, UnsubscribedKeepsInv DEF Shutdown
  <1>3. ASSUME NEW t \in Tasks, Handle(t) \/ Throw(t) PROVE IndInv'
    BY <1>3, BeginStepsKeepInv, WorkStepsKeepInv, AnswerKeepsInv, AckThrowsKeepsInv, ThrowKeepsInv
    DEF Handle
  <1> QED BY <1>2, <1>3, BrokerKeepsInv, DeliverKeepsInv, ClockKeepsInv DEF Next

\* A step that changes nothing keeps the invariant.
LEMMA StutteringKeepsInv == IndInv /\ UNCHANGED vars => IndInv'
  <1> SUFFICES ASSUME IndInv, UNCHANGED vars PROVE IndInv'
    OBVIOUS
  <1> USE DEF IndInv, vars, processes, broker, histories
  <1>1. TypeOK'
    BY DEF TypeOK
  <1>2. ChannelInv' /\ AppliedInv' /\ FailedInv'
    BY DEF ChannelInv, AppliedInv, FailedInv
  <1>3. LockInv'
    BY DEF LockInv, LockedBy, Working, Unrecorded
  <1> QED BY <1>1, <1>2, <1>3

-----------------------------------------------------------------------------
\* Theorems

\* In every reachable state of the chat consumer the inductive invariant holds: what
\* the broker waits for, what records and answers stand on, and the record as a lock.
THEOREM Invariance == Spec => []IndInv
  <1>1. IndInv /\ [Next]_vars => IndInv'
    BY NextKeepsInv, StutteringKeepsInv
  <1> QED BY InitInv, <1>1, PTL DEF Spec

\* Tasks, records and messages keep their types, and a process that is down has no
\* consumer, no task and no message.
THEOREM TypeCorrect == Spec => []TypeOK
  <1>1. IndInv => TypeOK
    BY DEF IndInv
  <1> QED BY Invariance, <1>1, PTL

\* processed_events is a lock in MongoDB too, over any number of copies, redeliveries,
\* restarts and shutdowns: unless the event was exposed, one task at most works on it
\* and upsertUser took effect once at most.
THEOREM AppliedOnce == Spec => []AppliedOnceUnlessExposed
  <1>1. IndInv => AppliedOnceUnlessExposed
    BY DEF IndInv, LockInv, LockedBy, AppliedOnceUnlessExposed
  <1> QED BY Invariance, <1>1, PTL

\* What one step of the consumer may do to what the promise is about.
LEMMA StepIsWork ==
  ASSUME IndInv, [Next]_vars, ~\E m \in Messages : Settle(m)
  PROVE  /\ copied \subseteq copied' /\ failed \subseteq failed'
         /\ \A e \in Events : record'[e].status = "processed" =>
              record[e].status = "processed" \/ e \in copied
         /\ \A m \in Messages : /\ place'[m].at = "acked" <=> place[m].at = "acked"
                                /\ place'[m].at = "dropped" <=> place[m].at = "dropped"
  <1> USE DEF IndInv
  <1>1. ASSUME NEW x \in Replicas, place' = Requeued(x)
        PROVE  \A m \in Messages : /\ place'[m].at = "acked" <=> place[m].at = "acked"
                                   /\ place'[m].at = "dropped" <=> place[m].at = "dropped"
    BY <1>1, RequeuedPlaces DEF TypeOK
  <1>2. CASE UNCHANGED vars
    BY <1>2 DEF vars, broker, histories
  <1>3. ASSUME NEW x \in Replicas,
               \/ Start(x) \/ Terminate(x) \/ Shutdown(x)
               \/ Crash(x) \/ ConnectionLost(x) \/ ConnectionClosed(x)
        PROVE  /\ UNCHANGED <<copied, failed, record>>
               /\ UNCHANGED place \/ place' = Requeued(x)
    BY <1>3 DEF Start, Terminate, Shutdown, BeginStop, StopConsumers, Exit, Crash,
       ConnectionLost, ConnectionClosed, Gone, Unsubscribed, broker, histories
  <1>4. ASSUME NEW m \in Messages, Publish(m) \/ \E x \in Replicas : Deliver(x, m)
        PROVE  /\ UNCHANGED <<copied, failed, record>>
               /\ place'[m].at \notin {"acked", "dropped"}
               /\ place[m].at \notin {"acked", "dropped"}
               /\ \A n \in Messages \ {m} : place'[n] = place[n]
    <2>1. CASE Publish(m)
      BY <2>1, BrokerHas DEF Publish, TypeOK, histories
    <2>2. ASSUME NEW x \in Replicas, Deliver(x, m)
          PROVE  /\ UNCHANGED <<copied, failed, record>> /\ place[m].at = "ready"
                 /\ place' = [place EXCEPT ![m] = [at |-> "unacked", by |-> x]]
      BY <2>2, BrokerHas DEF Deliver
    <2>3. CASE \E x \in Replicas : Deliver(x, m)
      BY <2>2, <2>3 DEF TypeOK
    <2> QED BY <1>4, <2>1, <2>3
  <1>5. ASSUME NEW e \in Events, LockExpires(e) \/ RecordExpires(e)
        PROVE  /\ UNCHANGED <<copied, failed, place>>
               /\ \A d \in Events : record'[d].status = "processed" => record[d].status = "processed"
    <2>1. CASE LockExpires(e)
      BY <2>1 DEF LockExpires, TypeOK, RecordType, broker
    <2>2. CASE RecordExpires(e)
      BY <2>2 DEF RecordExpires, NoRecord, TypeOK, broker
    <2> QED BY <1>5, <2>1, <2>2
  <1>6. ASSUME NEW t \in Tasks, Answer(t)
        PROVE  /\ UNCHANGED <<copied, failed, record>>
               /\ place'[t[2]].at \in {"acking", "nacking"} /\ place[t[2]].at = "unacked"
               /\ \A n \in Messages \ {t[2]} : place'[n] = place[n]
    <2>1. t[2] \in Messages /\ place \in [Messages -> Places] /\ place[t[2]].at = "unacked"
      BY <1>6, TaskParts DEF TypeOK, Answer, ChannelInv, Answers
    <2>2. [place[t[2]] EXCEPT !.at = "acking"].at = "acking"
            /\ [place[t[2]] EXCEPT !.at = "nacking"].at = "nacking"
      BY <2>1 DEF Places, InFlight
    <2> QED BY <1>6, <2>1, <2>2 DEF Answer, histories
  <1>7. ASSUME NEW t \in Tasks, AnswerThrows(t)
        PROVE  /\ UNCHANGED <<copied, failed, record>>
               /\ UNCHANGED place \/ place' = Requeued(t[1])
    BY <1>7 DEF AnswerThrows, Gone, broker
  <1>8. ASSUME NEW t \in Tasks, TryAcquire(t) \/ NotAcquired(t) \/ Upsert(t) \/ Mark(t) \/ Throw(t)
        PROVE  /\ copied \subseteq copied' /\ failed \subseteq failed' /\ UNCHANGED place
               /\ \A e \in Events : record'[e].status = "processed" =>
                    record[e].status = "processed" \/ e \in copied
    <2>1. copied \subseteq copied' /\ failed \subseteq failed' /\ UNCHANGED place
      BY <1>8 DEF TryAcquire, NotAcquired, Upsert, Upserted, Mark, Throw, broker, histories
    <2>2. \/ record' = record
          \/ record' = Acquired(EventOfTask(t))
          \/ record' = Marked(EventOfTask(t), "failed")
          \/ Unrecorded(t) /\ record' = Marked(EventOfTask(t), "processed")
      <3>1. CASE TryAcquire(t) \/ NotAcquired(t) \/ Upsert(t) \/ Mark(t)
        BY <3>1 DEF TryAcquire, NotAcquired, Upsert, Mark, Unrecorded
      <3>2. CASE Throw(t)
        BY <3>2, Zenon DEF Throw
      <3> QED BY <1>8, <3>1, <3>2
    <2>3. Unrecorded(t) => EventOfTask(t) \in copied
      BY DEF Unrecorded, AppliedInv
    <2>4. EventOfTask(t) \in Events /\ record \in [Events -> RecordType]
      BY HandlerHas
    <2> QED BY <2>1, <2>2, <2>3, <2>4, WrittenRecords
  <1>9. CASE \E t \in Tasks : Handle(t) \/ Throw(t)
    BY <1>1, <1>6, <1>7, <1>8, <1>9, TaskParts DEF Handle
  <1> QED BY <1>1, <1>2, <1>3, <1>4, <1>5, <1>9 DEF Next

\* The consumer implements the abstract one: it records and acknowledges only what was
\* copied, and discards a message only after a statement threw.
THEOREM Implementation == Spec => KeepsPromise
  <1>1. Init => Promise!Init
    <2> SUFFICES ASSUME Init PROVE Promise!Init
      OBVIOUS
    <2>1. \A m \in Messages : place[m].at \in {"absent", "never"}
      BY BrokerHas DEF Init
    <2>2. \A e \in Events : record[e].status = "none"
      BY DEF Init, NoRecord
    <2> QED BY <2>1, <2>2 DEF Init, Promise!Init
  <1>2. IndInv /\ [Next]_vars => [Promise!Next]_(Promise!vars)
    <2> SUFFICES ASSUME IndInv, [Next]_vars
                 PROVE  Promise!Next
      OBVIOUS
    <2>1. CASE \E m \in Messages : Settle(m)
      <3>1. PICK m \in Messages : Settle(m)
        BY <2>1
      <3>2. /\ UNCHANGED <<copied, failed, record>>
            /\ place[m].at \in {"acking", "nacking"}
            /\ place'[m].at = IF place[m].at = "acking" THEN "acked" ELSE "dropped"
            /\ \A n \in Messages \ {m} : place'[n] = place[n]
        BY <3>1, BrokerHas DEF Settle, IndInv, TypeOK, histories
      <3>3. CASE place[m].at = "acking"
        <4>1. EventOf[m] \in copied
          BY <3>3 DEF IndInv, AppliedInv
        <4>2. Promise!Ack(m)
          BY <3>2, <3>3, <4>1 DEF Promise!Ack
        <4> QED BY <4>2 DEF Promise!Next
      <3>4. CASE place[m].at = "nacking"
        <4>1. EventOf[m] \in failed
          BY <3>4 DEF IndInv, FailedInv
        <4>2. Promise!Drop(m)
          BY <3>2, <3>4, <4>1 DEF Promise!Drop
        <4> QED BY <4>2 DEF Promise!Next
      <3> QED BY <3>2, <3>3, <3>4
    <2>2. CASE ~\E m \in Messages : Settle(m)
      <3>1. Promise!Work
        BY <2>2, StepIsWork DEF Promise!Work
      <3> QED BY <3>1 DEF Promise!Next
    <2> QED BY <2>1, <2>2
  <1> QED BY <1>1, <1>2, Invariance, PTL DEF Spec, KeepsPromise, Promise!Spec
=============================================================================
