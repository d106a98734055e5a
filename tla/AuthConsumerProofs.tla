------------------------- MODULE AuthConsumerProofs -------------------------
(***************************************************************************)
(* Theorems about AuthConsumer for any replicas, events and messages, any  *)
(* number of copies of an event and of faults.                             *)
(***************************************************************************)
EXTENDS AuthConsumer, TLAPS

-----------------------------------------------------------------------------
\* The inductive invariant, in named parts

\* A task lives in a running process; while its channel is open the broker waits for
\* its answer, and it is closed only when the replica consumes no more.  So a message
\* is never delivered to a replica that still works on it.
ChannelInv ==
  /\ \A x \in Replicas : subscribed[x] => up[x]
  /\ \A t \in Tasks : task[t].pc # "idle" =>
       /\ up[t[1]]
       /\ subscribed[t[1]] => task[t].open
       /\ task[t].open => place[t[2]].at = "unacked" /\ place[t[2]].by = t[1]

\* What is recorded or acknowledged, or about to be, was applied.
AppliedInv ==
  /\ \A e \in Events : event[e].status = "processed" => executions[e] > 0
  /\ \A m \in Messages : place[m].at \in {"acking", "acked"} => executions[EventOf[m]] > 0
  /\ \A t \in Tasks : task[t].pc \in {"record", "ack", "plainAck", "duplicate"} =>
       executions[EventOfTask(t)] > 0

Troubled(e) == e \in faults.events \/ profile[e] = "foreign"

\* A message is discarded only after trouble.  (An ack that throws leads here without
\* any, and then the channel is closed and the nack throws too.)
TroubledInv ==
  /\ \A m \in Messages : place[m].at \in {"nacking", "dropped"} => Troubled(EventOf[m])
  /\ \A t \in Tasks : task[t].pc \in {"recordFailure", "nack"} /\ task[t].open =>
       Troubled(EventOfTask(t))

\* The record of an event that was not exposed is the lock of the one task that works
\* on it, and shows an execution unless that task is about to.
LockInv ==
  \A e \in Events \ exposed :
    /\ executions[e] < 2
    /\ \A t \in Tasks : Working(t) /\ EventOfTask(t) = e =>
         /\ event[e].status = "processing" /\ event[e].lock = "fresh"
         /\ \A s \in Tasks : Working(s) /\ EventOfTask(s) = e => s = t
         /\ executions[e] > 0 => Unrecorded(t)
    /\ executions[e] > 0 =>
         \/ event[e].status = "processed"
         \/ \E t \in Tasks : Unrecorded(t) /\ EventOfTask(t) = e

IndInv == TypeOK /\ ChannelInv /\ AppliedInv /\ TroubledInv /\ LockInv

-----------------------------------------------------------------------------
\* What the operators do

\* A task is a replica that has one message in hand.
LEMMA TaskParts ==
  ASSUME NEW t \in Tasks
  PROVE  t[1] \in Replicas /\ t[2] \in Messages /\ t = <<t[1], t[2]>> /\ EventOfTask(t) \in Events
  BY EventOfAssumption DEF Tasks, EventOfTask

\* What the broker's view of a message can be.
LEMMA BrokerHas ==
  /\ \A where \in {"absent", "unrouted", "ready", "acked", "dropped"} :
       At(where) \in Places /\ At(where).at = where /\ At(where).by = "nobody"
  /\ \A where \in InFlight, x \in Replicas : [at |-> where, by |-> x] \in Places
  BY DEF At, Places, InFlight

\* A handler that is not running has nothing in hand.
LEMMA IdleOne == IdleTask \in TaskType /\ IdleTask.pc = "idle"
  BY DEF IdleTask, TaskType

\* What the broker takes back becomes ready, the rest stays.
LEMMA RequeuedPlaces ==
  ASSUME place \in [Messages -> Places], NEW x \in Replicas
  PROVE  /\ Requeued(x) \in [Messages -> Places]
         /\ \A m \in Messages :
              /\ place[m].by # x => Requeued(x)[m] = place[m]
              /\ Requeued(x)[m] = place[m] \/ Requeued(x)[m].at = "ready"
              /\ place[m].at \in {"acked", "dropped"} => Requeued(x)[m] = place[m]
              /\ Requeued(x)[m].at \in {"acked", "dropped"} => Requeued(x)[m] = place[m]
  <1>1. \A m \in Messages : place[m].at \in {"acked", "dropped"} => place[m].by # x
    BY ReplicasAssumption DEF Places, InFlight
  <1>2. At("ready") \in Places /\ At("ready").at = "ready"
    BY BrokerHas
  <1> QED BY <1>1, <1>2 DEF Requeued

\* Task t goes on to step s, or ends.
Becomes(t, s) ==
  /\ task' \in [Tasks -> TaskType]
  /\ task'[t].pc = s
  /\ s # "idle" => task'[t].open = task[t].open
  /\ \A u \in Tasks \ {t} : task'[u] = task[u]

\* Moving one handler on leaves every other handler as it was.
LEMMA TaskGoes ==
  ASSUME task \in [Tasks -> TaskType], NEW t \in Tasks,
         NEW s \in {"reread", "takeFailed", "reclaim", "duplicate", "sync", "record", "ack",
                    "recordFailure", "nack", "plainAck"},
         task' = [task EXCEPT ![t].pc = s]
  PROVE  Becomes(t, s)
  BY DEF TaskType, Becomes

\* Ending one handler leaves every other handler as it was.
LEMMA TaskEnds ==
  ASSUME task \in [Tasks -> TaskType], NEW t \in Tasks, task' = [task EXCEPT ![t] = IdleTask]
  PROVE  Becomes(t, "idle")
  BY IdleOne DEF Becomes

\* A step of a task that leaves processes, connections and the broker alone.
LEMMA ChannelKept ==
  ASSUME ChannelInv, NEW t \in Tasks, NEW s, task[t].pc # "idle", Becomes(t, s),
         UNCHANGED <<up, subscribed, place>>
  PROVE  ChannelInv'
  BY DEF ChannelInv, Becomes

\* A task that does not work on its event, and goes on not to work on it.
LEMMA LockKept ==
  ASSUME LockInv, NEW t \in Tasks, NEW s, ~Working(t), Becomes(t, s),
         s \notin {"sync", "record", "recordFailure"},
         UNCHANGED <<event, executions>>, exposed \subseteq exposed'
  PROVE  LockInv'
  <1>1. \A u \in Tasks : /\ Working(u)' <=> Working(u)
                         /\ Unrecorded(u)' <=> Unrecorded(u)
    BY DEF Becomes, Working, Unrecorded
  <1> QED BY <1>1 DEF LockInv

\* A fault is counted.
LEMMA FaultCounted ==
  ASSUME faults \in [count : 0..MaxFaults, events : SUBSET Events],
         NEW events \in SUBSET Events, Fault(events)
  PROVE  /\ faults' \in [count : 0..MaxFaults, events : SUBSET Events]
         /\ faults'.events = faults.events \union events
  <1>1. faults.count \in 0..MaxFaults /\ faults.count < MaxFaults
    BY DEF Fault
  <1>2. faults.count + 1 \in 0..MaxFaults
    BY <1>1, MaxFaultsAssumption
  <1> QED BY <1>2 DEF Fault

-----------------------------------------------------------------------------
\* The invariant is inductive: one lemma for each group of actions

\* The invariant holds at the start.
LEMMA InitInv == Init => IndInv
  <1> SUFFICES ASSUME Init PROVE IndInv
    OBVIOUS
  <1>1. TypeOK
    <2>1. 0 \in 0..MaxFaults
      BY MaxFaultsAssumption
    <2>2. faults \in [count : 0..MaxFaults, events : SUBSET Events]
      BY <2>1 DEF Init
    <2>3. place \in [Messages -> Places] /\ task \in [Tasks -> TaskType]
      BY BrokerHas, IdleOne DEF Init
    <2>4. event \in [Events -> [status : {"none", "processing", "processed", "failed"},
                               lock   : {"none", "fresh", "stale"}]]
      BY DEF Init
    <2>5. executions \in [Events -> 0..2] /\ profile \in [Events -> {"none", "synced", "foreign"}]
      BY DEF Init
    <2> QED BY <2>2, <2>3, <2>4, <2>5 DEF Init, TypeOK
  <1>2. /\ \A t \in Tasks : task[t].pc = "idle"
        /\ \A m \in Messages : place[m].at = "absent"
        /\ \A e \in Events : event[e].status = "none" /\ executions[e] = 0
    BY BrokerHas, IdleOne DEF Init
  <1>3. ChannelInv /\ AppliedInv /\ TroubledInv
    BY <1>2 DEF Init, ChannelInv, AppliedInv, TroubledInv
  <1>4. LockInv
    BY <1>2 DEF LockInv, Working
  <1> QED BY <1>1, <1>3, <1>4 DEF IndInv

\* A process that starts has no handler running.
LEMMA StartKeepsInv ==
  ASSUME IndInv, NEW x \in Replicas, Start(x)
  PROVE  IndInv'
  <1> USE DEF IndInv, Start
  <1>1. TypeOK'
    BY DEF TypeOK
  <1>2. ChannelInv'
    BY TaskParts DEF TypeOK, ChannelInv
  <1>3. AppliedInv' /\ TroubledInv'
    BY DEF AppliedInv, TroubledInv, Troubled
  <1>4. LockInv'
    BY DEF LockInv, Working, Unrecorded
  <1> QED BY <1>1, <1>2, <1>3, <1>4

\* The process is gone: its tasks work on nothing any more.
LEMMA GoneKeepsInv ==
  ASSUME IndInv, NEW x \in Replicas, Gone(x),
         faults' \in [count : 0..MaxFaults, events : SUBSET Events],
         faults.events \subseteq faults'.events
  PROVE  IndInv'
  <1> USE DEF IndInv
  <1>1. /\ up' = [up EXCEPT ![x] = FALSE] /\ subscribed' = [subscribed EXCEPT ![x] = FALSE]
        /\ place' = Requeued(x)
        /\ UNCHANGED <<unmarked, bound, event, profile, executions>>
    BY DEF Gone
  <1>2. /\ task' \in [Tasks -> TaskType]
        /\ \A t \in Tasks : IF t[1] = x THEN task'[t].pc = "idle" ELSE task'[t] = task[t]
    BY IdleOne DEF Gone, TypeOK
  <1>3. /\ exposed \subseteq exposed' /\ exposed' \subseteq Events
        /\ \A t \in Tasks : t[1] = x /\ Unrecorded(t) => EventOfTask(t) \in exposed'
    BY TaskParts DEF Gone, TypeOK
  <1>4. /\ place' \in [Messages -> Places]
        /\ \A m \in Messages :
             /\ place[m].by # x => place'[m] = place[m]
             /\ place'[m] = place[m] \/ place'[m].at = "ready"
    BY <1>1, RequeuedPlaces DEF TypeOK
  <1>5. TypeOK'
    BY <1>1, <1>2, <1>3, <1>4 DEF TypeOK
  <1>6. ChannelInv'
    BY <1>1, <1>2, <1>4, TaskParts DEF TypeOK, ChannelInv
  <1>7. AppliedInv'
    BY <1>1, <1>2, <1>4 DEF AppliedInv
  <1>8. TroubledInv'
    BY <1>1, <1>2, <1>4 DEF TroubledInv, Troubled
  <1>9. LockInv'
    <2>1. \A t \in Tasks : Working(t)' => Working(t) /\ task'[t] = task[t]
      BY <1>2 DEF Working
    <2>2. \A t \in Tasks : Unrecorded(t) => EventOfTask(t) \in exposed' \/ Unrecorded(t)'
      BY <1>2, <1>3 DEF Unrecorded
    <2> QED BY <1>1, <1>3, <2>1, <2>2 DEF LockInv, Unrecorded
  <1> QED BY <1>5, <1>6, <1>7, <1>8, <1>9

\* A closed connection returns what was unanswered, and closes the channel of every handler that had it.
LEMMA ConnectionClosedKeepsInv ==
  ASSUME IndInv, NEW x \in Replicas, ConnectionClosed(x)
  PROVE  IndInv'
  <1> USE DEF IndInv
  <1>1. /\ subscribed' = [subscribed EXCEPT ![x] = FALSE] /\ place' = Requeued(x)
        /\ UNCHANGED <<up, unmarked, bound, event, profile, executions, exposed>>
    BY DEF ConnectionClosed
  <1>2. /\ task' \in [Tasks -> TaskType]
        /\ \A t \in Tasks : /\ task'[t].pc = task[t].pc
                            /\ IF t[1] = x THEN ~task'[t].open ELSE task'[t] = task[t]
    <2>1. \A old \in TaskType : LET new == [old EXCEPT !.open = FALSE] IN
            new \in TaskType /\ new.pc = old.pc /\ ~new.open
      BY DEF TaskType
    <2>2. task \in [Tasks -> TaskType]
      BY DEF TypeOK
    <2>3. task' = [t \in Tasks |-> IF t[1] = x THEN [task[t] EXCEPT !.open = FALSE] ELSE task[t]]
      BY DEF ConnectionClosed
    <2> QED BY <2>1, <2>2, <2>3
  <1>3. /\ faults' \in [count : 0..MaxFaults, events : SUBSET Events]
        /\ faults'.events = faults.events
    <2>1. {} \in SUBSET Events
      OBVIOUS
    <2> QED BY <2>1, FaultCounted DEF ConnectionClosed, TypeOK
  <1>4. /\ place' \in [Messages -> Places]
        /\ \A m \in Messages :
             /\ place[m].by # x => place'[m] = place[m]
             /\ place'[m] = place[m] \/ place'[m].at = "ready"
    BY <1>1, RequeuedPlaces DEF TypeOK
  <1>5. TypeOK'
    BY <1>1, <1>2, <1>3, <1>4 DEF TypeOK
  <1>6. ChannelInv'
    BY <1>1, <1>2, <1>4, TaskParts DEF TypeOK, ChannelInv
  <1>7. AppliedInv'
    BY <1>1, <1>2, <1>4 DEF AppliedInv
  <1>8. TroubledInv'
    BY <1>1, <1>2, <1>3, <1>4 DEF TroubledInv, Troubled
  <1>9. LockInv'
    BY <1>1, <1>2 DEF LockInv, Working, Unrecorded
  <1> QED BY <1>5, <1>6, <1>7, <1>8, <1>9

\* The broker routes a message, or settles one it was answered.
LEMMA BrokerKeepsInv ==
  ASSUME IndInv, NEW m \in Messages, Publish(m) \/ Settle(m)
  PROVE  IndInv'
  <1> USE DEF IndInv
  <1>1. UNCHANGED <<up, subscribed, unmarked, bound, task, event, profile, executions, exposed,
                    faults>>
    BY DEF Publish, Settle
  <1>2. PICK where \in {"unrouted", "ready", "acked", "dropped"} :
          /\ place' = [place EXCEPT ![m] = At(where)]
          /\ place[m].at \notin {"unacked"}
          /\ where = "acked" => place[m].at = "acking"
          /\ where = "dropped" => place[m].at = "nacking"
    <2>1. CASE Publish(m)
      BY <2>1, BrokerHas DEF Publish
    <2>2. CASE Settle(m)
      BY <2>2 DEF Settle
    <2> QED BY <2>1, <2>2
  <1>3. /\ place' \in [Messages -> Places] /\ place'[m].at = where
        /\ \A n \in Messages \ {m} : place'[n] = place[n]
    BY <1>2, BrokerHas DEF TypeOK
  <1>4. TypeOK'
    BY <1>1, <1>3 DEF TypeOK
  <1>5. ChannelInv'
    BY <1>1, <1>2, <1>3, TaskParts DEF ChannelInv
  <1>6. AppliedInv' /\ TroubledInv'
    BY <1>1, <1>2, <1>3 DEF AppliedInv, TroubledInv, Troubled
  <1>7. LockInv'
    BY <1>1 DEF LockInv, Working, Unrecorded
  <1> QED BY <1>4, <1>5, <1>6, <1>7

\* A delivery: the replica has no task for the message.
LEMMA DeliverKeepsInv ==
  ASSUME IndInv, NEW x \in Replicas, NEW m \in Messages, Deliver(x, m)
  PROVE  IndInv'
  <1> USE DEF IndInv
  <1> DEFINE t == <<x, m>>
  <1>1. /\ UNCHANGED <<up, subscribed, unmarked, bound, event, profile, executions, exposed,
                       faults>>
        /\ t \in Tasks /\ t[1] = x /\ t[2] = m /\ subscribed[x]
        /\ place[m].at = "ready"
    BY BrokerHas DEF Deliver, Tasks
  <1>2. task[t].pc = "idle"
    <2> HIDE DEF t
    <2> QED BY <1>1 DEF ChannelInv
  <1>3. PICK s \in {"insert", "plainSync"} :
          task' = [task EXCEPT ![t] = [pc |-> s, open |-> TRUE]]
    BY DEF Deliver
  <1>4. /\ task' \in [Tasks -> TaskType] /\ task'[t].pc = s /\ task'[t].open
        /\ \A u \in Tasks \ {t} : task'[u] = task[u]
    BY <1>1, <1>3 DEF TypeOK, TaskType
  <1>5. /\ place' \in [Messages -> Places] /\ place'[m] = [at |-> "unacked", by |-> x]
        /\ \A n \in Messages \ {m} : place'[n] = place[n]
    BY BrokerHas DEF Deliver, TypeOK, InFlight
  <1> HIDE DEF t
  <1>6. TypeOK'
    BY <1>1, <1>4, <1>5 DEF TypeOK
  <1>7. ChannelInv'
    <2>1. \A u \in Tasks \ {t} : u[2] = m => task[u].pc = "idle" \/ ~task[u].open
      BY <1>1 DEF ChannelInv
    <2> QED BY <1>1, <1>4, <1>5, <2>1, TaskParts DEF ChannelInv
  <1>8. AppliedInv' /\ TroubledInv'
    BY <1>1, <1>4, <1>5 DEF AppliedInv, TroubledInv, Troubled
  <1>9. LockInv'
    <2>1. \A u \in Tasks : /\ Working(u)' <=> Working(u)
                           /\ Unrecorded(u)' <=> Unrecorded(u)
      BY <1>2, <1>4 DEF Working, Unrecorded
    <2> QED BY <1>1, <2>1 DEF LockInv
  <1> QED BY <1>6, <1>7, <1>8, <1>9

\* POST /users takes the email, or time passes over a lock.
LEMMA RestKeepsInv ==
  ASSUME IndInv, NEW e \in Events, CreateUser(e) \/ LockExpires(e)
  PROVE  IndInv'
  <1> USE DEF IndInv
  <1>1. /\ UNCHANGED <<up, subscribed, unmarked, bound, place, task, executions, faults>>
        /\ exposed \subseteq exposed' /\ exposed' \subseteq Events
        /\ \A d \in Events : event'[d].status = event[d].status
        /\ \A d \in Events : profile[d] = "foreign" => profile'[d] = "foreign"
        /\ profile' \in [Events -> {"none", "synced", "foreign"}]
        /\ event' \in [Events -> [status : {"none", "processing", "processed", "failed"},
                                  lock   : {"none", "fresh", "stale"}]]
    <2>1. CASE CreateUser(e)
      BY <2>1 DEF CreateUser, TypeOK
    <2>2. CASE LockExpires(e)
      BY <2>2 DEF LockExpires, TypeOK
    <2> QED BY <2>1, <2>2
  <1>2. TypeOK'
    BY <1>1 DEF TypeOK
  <1>3. ChannelInv' /\ AppliedInv' /\ TroubledInv'
    BY <1>1, TaskParts, EventOfAssumption DEF ChannelInv, AppliedInv, TroubledInv, Troubled
  <1>4. LockInv'
    <2>1. \A d \in Events \ exposed', t \in Tasks :
            Working(t) /\ EventOfTask(t) = d => event'[d].lock = event[d].lock
      BY DEF CreateUser, LockExpires, TypeOK
    <2> QED BY <1>1, <2>1 DEF LockInv, Working, Unrecorded
  <1> QED BY <1>2, <1>3, <1>4

\* beginProcessingEvent: what it acquires nobody works on and nobody applied.
LEMMA BeginStepsKeepInv ==
  ASSUME IndInv, NEW t \in Tasks,
         TryAcquire(t) \/ InsertConflict(t) \/ Reread(t) \/ InProgress(t)
  PROVE  IndInv'
  <1> USE DEF IndInv
  <1> DEFINE e == EventOfTask(t)
  <1>1. /\ task \in [Tasks -> TaskType] /\ e \in Events
        /\ UNCHANGED <<up, subscribed, unmarked, bound, place, profile, executions, exposed,
                       faults>>
        /\ task[t].pc \in {"insert", "reread", "takeFailed", "reclaim"}
    BY TaskParts DEF TypeOK, TryAcquire, InsertConflict, Reread, InProgress
  <1>2. CASE TryAcquire(t)
    <2>1. Becomes(t, "sync")
      BY <1>1, <1>2, TaskGoes DEF TryAcquire
    <2>2. /\ event' \in [Events -> [status : {"none", "processing", "processed", "failed"},
                                    lock   : {"none", "fresh", "stale"}]]
          /\ event'[e].status = "processing" /\ event'[e].lock = "fresh"
          /\ \A d \in Events \ {e} : event'[d] = event[d]
      BY <1>1, <1>2 DEF TryAcquire, Acquired, TypeOK
    <2>3. event[e].status # "processed"
            /\ ~(event[e].status = "processing" /\ event[e].lock = "fresh")
      BY <1>2 DEF TryAcquire, Acquires
    <2>4. e \notin exposed => executions[e] = 0 /\ \A u \in Tasks : Working(u) => EventOfTask(u) # e
      <3>1. e \notin exposed => \A u \in Tasks : Working(u) => EventOfTask(u) # e
        BY <1>1, <2>3 DEF LockInv
      <3>2. \A u \in Tasks : Unrecorded(u) => Working(u)
        BY DEF Unrecorded, Working
      <3>3. executions[e] \in 0..2
        BY <1>1 DEF TypeOK
      <3> QED BY <1>1, <2>3, <3>1, <3>2, <3>3 DEF LockInv
    <2> HIDE DEF e
    <2>5. TypeOK'
      BY <1>1, <2>1, <2>2 DEF TypeOK, Becomes
    <2>6. ChannelInv'
      BY <1>1, <2>1, ChannelKept
    <2>7. AppliedInv' /\ TroubledInv'
      BY <1>1, <2>1, <2>2 DEF AppliedInv, TroubledInv, Troubled, Becomes
    <2>8. LockInv'
      <3>1. \A u \in Tasks : /\ Working(u)' <=> Working(u) \/ u = t
                             /\ Unrecorded(u)' <=> Unrecorded(u)
        BY <1>1, <2>1 DEF Becomes, Working, Unrecorded
      <3> QED BY <1>1, <2>2, <2>4, <3>1 DEF LockInv, e
    <2> QED BY <2>5, <2>6, <2>7, <2>8
  <1>3. CASE InsertConflict(t) \/ Reread(t) \/ InProgress(t)
    <2>1. event' = event
      BY <1>3 DEF InsertConflict, Reread, InProgress
    <2>2. PICK s \in {"idle", "reread", "duplicate", "takeFailed", "reclaim"} :
            Becomes(t, s) /\ (s = "duplicate" => event[e].status = "processed")
      <3>1. CASE InsertConflict(t)
        BY <1>1, <3>1, TaskGoes DEF InsertConflict
      <3>2. CASE InProgress(t)
        BY <1>1, <3>2, TaskEnds DEF InProgress
      <3>3. CASE Reread(t)
        <4> DEFINE next == AfterReread[event[e].status]
        <4>1. event[e].status \in {"none", "processing", "processed", "failed"}
          BY <1>1 DEF TypeOK
        <4>2. /\ next \in {"idle", "duplicate", "takeFailed", "reclaim"}
              /\ next = "duplicate" => event[e].status = "processed"
          BY <4>1 DEF AfterReread
        <4>3. task' = [task EXCEPT ![t] = IF next = "idle" THEN IdleTask
                                          ELSE [task[t] EXCEPT !.pc = next]]
          BY <3>3 DEF Reread
        <4> HIDE DEF next
        <4>4. CASE next = "idle"
          BY <1>1, <4>3, <4>4, TaskEnds
        <4>5. CASE next # "idle"
          <5>1. task' = [task EXCEPT ![t].pc = next]
            BY <4>3, <4>5
          <5> QED BY <1>1, <4>2, <4>5, <5>1, TaskGoes
        <4> QED BY <4>4, <4>5
      <3> QED BY <1>3, <3>1, <3>2, <3>3
    <2>3. TypeOK'
      BY <1>1, <2>1, <2>2 DEF TypeOK, Becomes
    <2>4. ChannelInv'
      BY <1>1, <2>2, ChannelKept
    <2>5. AppliedInv' /\ TroubledInv'
      BY <1>1, <2>1, <2>2 DEF AppliedInv, TroubledInv, Troubled, Becomes
    <2>6. LockInv'
      BY <1>1, <2>1, <2>2, LockKept DEF Working
    <2> QED BY <2>3, <2>4, <2>5, <2>6
  <1> QED BY <1>2, <1>3

\* A committed syncFromAuthUser adds one execution, and leaves a foreign email alone.
LEMMA SyncCommits ==
  ASSUME TypeOK, NEW t \in Tasks, NEW s, SyncFromAuthUser(t, s)
  PROVE  LET e == EventOfTask(t) IN
         /\ executions' \in [Events -> 0..2]
         /\ executions'[e] > 0 /\ (executions[e] = 0 => executions'[e] = 1)
         /\ \A d \in Events \ {e} : executions'[d] = executions[d]
         /\ profile' \in [Events -> {"none", "synced", "foreign"}]
         /\ \A d \in Events : profile[d] = "foreign" => profile'[d] = "foreign"
  <1>1. EventOfTask(t) \in Events
    BY TaskParts
  <1> QED BY <1>1 DEF SyncFromAuthUser, CountExecution, MayUpsert, TypeOK

\* Task t commits its execution and goes on to step s: to its record, or to an end of
\* its own with the event exposed.
LEMMA ExecutionKeepsInv ==
  ASSUME IndInv, NEW t \in Tasks, NEW s, SyncFromAuthUser(t, s),
         s \in {"record", "recordFailure", "plainAck", "nack"}, Becomes(t, s),
         \/ task[t].pc = "sync" /\ s = "record" /\ exposed' = exposed
         \/ task[t].pc \in {"sync", "plainSync"} /\ exposed' = exposed \union {EventOfTask(t)},
         faults' \in [count : 0..MaxFaults, events : SUBSET Events],
         faults.events \subseteq faults'.events,
         s \in {"recordFailure", "nack"} => EventOfTask(t) \in faults'.events
  PROVE  IndInv'
  <1> USE DEF IndInv
  <1> DEFINE e == EventOfTask(t)
  <1>1. /\ e \in Events
        /\ UNCHANGED <<up, subscribed, unmarked, bound, place, event>>
    BY TaskParts DEF SyncFromAuthUser
  <1>2. /\ executions' \in [Events -> 0..2] /\ executions \in [Events -> 0..2]
        /\ executions'[e] > 0 /\ (executions[e] = 0 => executions'[e] = 1)
        /\ \A d \in Events \ {e} : executions'[d] = executions[d]
        /\ profile' \in [Events -> {"none", "synced", "foreign"}]
        /\ \A d \in Events : profile[d] = "foreign" => profile'[d] = "foreign"
    BY SyncCommits DEF TypeOK
  <1>3. \A d \in Events : executions[d] > 0 => executions'[d] > 0
    BY <1>1, <1>2
  <1> HIDE DEF e
  <1>4. TypeOK'
    BY <1>1, <1>2 DEF TypeOK, Becomes, e
  <1>5. ChannelInv'
    BY <1>1, ChannelKept
  <1>6. AppliedInv'
    <2>1. \A u \in Tasks \ {t} : task'[u] = task[u] /\ EventOfTask(u) \in Events
      BY TaskParts DEF Becomes
    <2> QED BY <1>1, <1>2, <1>3, <2>1, EventOfAssumption DEF AppliedInv, e
  <1>7. TroubledInv'
    BY <1>1, <1>2, TaskParts, EventOfAssumption DEF TroubledInv, Troubled, Becomes, e
  <1>8. LockInv'
    <2>1. \A u \in Tasks \ {t} : /\ Working(u)' <=> Working(u)
                                 /\ Unrecorded(u)' <=> Unrecorded(u)
      BY DEF Becomes, Working, Unrecorded
    <2>2. CASE task[t].pc = "sync" /\ s = "record" /\ exposed' = exposed
      <3>1. Working(t) /\ ~Unrecorded(t) /\ Working(t)' /\ Unrecorded(t)'
        BY <2>2 DEF Becomes, Working, Unrecorded
      <3>2. e \notin exposed => executions'[e] = 1
        <4>1. e \notin exposed => ~(executions[e] > 0)
          BY <1>1, <3>1 DEF LockInv, e
        <4>2. executions[e] \in 0..2
          BY <1>1, <1>2
        <4> QED BY <1>2, <4>1, <4>2
      <3> QED BY <1>1, <1>2, <2>1, <2>2, <3>1, <3>2 DEF LockInv, e
    <2>3. CASE exposed' = exposed \union {e}
      <3>1. \A d \in Events \ exposed' : d # e /\ d \in Events \ exposed
        BY <2>3
      <3> QED BY <1>1, <1>2, <2>1, <3>1 DEF LockInv, e
    <2> QED BY <2>2, <2>3 DEF e
  <1> QED BY <1>4, <1>5, <1>6, <1>7, <1>8

\* Task t gives its event up, which met trouble or whose channel is closed.
GivesUp(t, s) ==
  LET e == EventOfTask(t) IN
  /\ task[t].pc # "idle" /\ s \in {"recordFailure", "nack"} /\ Becomes(t, s)
  /\ UNCHANGED <<up, subscribed, unmarked, bound, place, profile, executions>>
  /\ event' \in [Events -> [status : {"none", "processing", "processed", "failed"},
                            lock   : {"none", "fresh", "stale"}]]
  /\ \A d \in Events \ {e} : event'[d] = event[d]
  /\ event'[e].status = "processed" => executions[e] > 0
  /\ exposed \subseteq exposed' /\ exposed' \subseteq Events
  /\ faults' \in [count : 0..MaxFaults, events : SUBSET Events]
  /\ faults.events \subseteq faults'.events
  /\ task[t].open => e \in faults'.events \/ profile[e] = "foreign"
  /\ \/ e \in exposed'
     \/ event'[e] = event[e] /\ task[t].pc = "sync"
     \/ event'[e] = event[e] /\ s = "nack" /\ ~Unrecorded(t)
     \/ /\ s = "nack" /\ executions[e] = 0
        /\ \A u \in Tasks : Working(u) /\ EventOfTask(u) = e => u = t

\* A handler that gives its event up touches that event alone.
LEMMA GivingUpKeepsInv ==
  ASSUME IndInv, NEW t \in Tasks, NEW s, GivesUp(t, s)
  PROVE  IndInv'
  <1> USE DEF IndInv, GivesUp
  <1> DEFINE e == EventOfTask(t)
  <1>1. e \in Events
    BY TaskParts
  <1>2. TypeOK'
    BY DEF TypeOK, Becomes
  <1>3. ChannelInv'
    BY ChannelKept
  <1>4. AppliedInv'
    BY <1>1 DEF AppliedInv, Becomes
  <1>5. TroubledInv'
    BY DEF TroubledInv, Troubled, Becomes
  <1>6. LockInv'
    <2>1. \A u \in Tasks \ {t} : /\ Working(u)' <=> Working(u)
                                 /\ Unrecorded(u)' <=> Unrecorded(u)
      BY DEF Becomes, Working, Unrecorded
    <2>2. ~Unrecorded(t)' /\ (Working(t)' <=> s = "recordFailure")
      BY DEF Becomes, Working, Unrecorded
    <2>3. task[t].pc = "sync" => Working(t) /\ ~Unrecorded(t)
      BY DEF Working, Unrecorded
    <2> SUFFICES ASSUME NEW d \in Events \ exposed'
                 PROVE  /\ executions[d] < 2
                        /\ \A u \in Tasks : Working(u)' /\ EventOfTask(u) = d =>
                             /\ event'[d].status = "processing" /\ event'[d].lock = "fresh"
                             /\ \A v \in Tasks : Working(v)' /\ EventOfTask(v) = d => v = u
                             /\ executions[d] > 0 => Unrecorded(u)'
                        /\ executions[d] > 0 =>
                             \/ event'[d].status = "processed"
                             \/ \E u \in Tasks : Unrecorded(u)' /\ EventOfTask(u) = d
      BY DEF LockInv
    <2>4. CASE d # e
      BY <2>1, <2>4 DEF LockInv
    <2>5. CASE d = e /\ event'[e] = event[e] /\ task[t].pc = "sync"
      BY <1>1, <2>1, <2>2, <2>3, <2>5 DEF LockInv
    <2>6. CASE d = e /\ event'[e] = event[e] /\ s = "nack" /\ ~Unrecorded(t)
      BY <1>1, <2>1, <2>2, <2>6 DEF LockInv
    <2>7. CASE /\ d = e /\ s = "nack" /\ executions[e] = 0
               /\ \A u \in Tasks : Working(u) /\ EventOfTask(u) = e => u = t
      BY <1>1, <2>1, <2>2, <2>7 DEF LockInv
    <2> QED BY <2>4, <2>5, <2>6, <2>7
  <1> QED BY <1>2, <1>3, <1>4, <1>5, <1>6

\* syncFromAuthUser, applied or not, with a record or without.
LEMMA SyncStepsKeepInv ==
  ASSUME IndInv, NEW t \in Tasks,
         Sync(t) \/ PlainSync(t) \/ SyncConflict(t) \/ SyncThrows(t)
  PROVE  IndInv'
  <1> USE DEF IndInv
  <1> DEFINE e == EventOfTask(t)
  <1>1. /\ task \in [Tasks -> TaskType] /\ e \in Events /\ exposed \subseteq Events
        /\ event \in [Events -> [status : {"none", "processing", "processed", "failed"},
                                 lock   : {"none", "fresh", "stale"}]]
        /\ faults \in [count : 0..MaxFaults, events : SUBSET Events]
        /\ event[e].status = "processed" => executions[e] > 0
    BY TaskParts DEF TypeOK, AppliedInv
  <1>2. CASE Sync(t)
    <2>1. /\ SyncFromAuthUser(t, "record") /\ task[t].pc = "sync" /\ UNCHANGED <<exposed, faults>>
          /\ task' = [task EXCEPT ![t].pc = "record"]
      BY <1>2 DEF Sync, SyncFromAuthUser
    <2> QED BY <1>1, <2>1, TaskGoes, ExecutionKeepsInv
  <1>3. CASE PlainSync(t)
    <2>1. /\ SyncFromAuthUser(t, "plainAck") /\ task[t].pc = "plainSync" /\ UNCHANGED faults
          /\ task' = [task EXCEPT ![t].pc = "plainAck"] /\ exposed' = exposed \union {e}
      BY <1>3 DEF PlainSync, SyncFromAuthUser
    <2> QED BY <1>1, <2>1, TaskGoes, ExecutionKeepsInv
  <1>4. CASE SyncConflict(t)
    <2>1. PICK s \in {"recordFailure", "nack"} :
            /\ task' = [task EXCEPT ![t].pc = s]
            /\ IF s = "recordFailure" THEN task[t].pc = "sync" ELSE task[t].pc = "plainSync"
      BY <1>4 DEF SyncConflict
    <2>2. Becomes(t, s)
      BY <1>1, <2>1, TaskGoes
    <2>3. profile[e] = "foreign"
            /\ UNCHANGED <<up, subscribed, unmarked, bound, place, event, profile, executions,
                           exposed, faults>>
      BY <1>4 DEF SyncConflict, MayUpsert
    <2> HIDE DEF e
    <2>4. GivesUp(t, s)
      BY <1>1, <2>1, <2>2, <2>3 DEF GivesUp, Unrecorded, e
    <2> QED BY <2>4, GivingUpKeepsInv
  <1>5. CASE SyncThrows(t)
    <2>1. PICK s \in {"recordFailure", "nack"} :
            /\ IF s = "recordFailure" THEN task[t].pc = "sync" ELSE task[t].pc = "plainSync"
            /\ \/ /\ task' = [task EXCEPT ![t].pc = s]
                  /\ UNCHANGED <<up, subscribed, unmarked, bound, place, event, profile,
                                 executions, exposed>>
               \/ SyncFromAuthUser(t, s) /\ exposed' = exposed \union {e}
      BY <1>5 DEF SyncThrows
    <2>2. /\ faults' \in [count : 0..MaxFaults, events : SUBSET Events]
          /\ faults'.events = faults.events \union {e}
      <3>1. {e} \in SUBSET Events /\ Fault({e})
        BY <1>1, <1>5 DEF SyncThrows
      <3> QED BY <1>1, <3>1, FaultCounted
    <2>3. Becomes(t, s)
      <3>1. task' = [task EXCEPT ![t].pc = s]
        BY <2>1 DEF SyncFromAuthUser
      <3> QED BY <1>1, <3>1, TaskGoes
    <2>4. CASE UNCHANGED <<up, subscribed, unmarked, bound, place, event, profile, executions,
                           exposed>>
      <3> HIDE DEF e
      <3>1. GivesUp(t, s)
        BY <1>1, <2>1, <2>2, <2>3, <2>4 DEF GivesUp, Unrecorded, e
      <3> QED BY <3>1, GivingUpKeepsInv
    <2>5. CASE SyncFromAuthUser(t, s) /\ exposed' = exposed \union {e}
      BY <1>1, <2>1, <2>2, <2>3, <2>5, ExecutionKeepsInv
    <2> QED BY <2>1, <2>4, <2>5
  <1> QED BY <1>2, <1>3, <1>4, <1>5

\* The task that applied the event records it.
LEMMA MarkProcessedKeepsInv ==
  ASSUME IndInv, NEW t \in Tasks, MarkProcessed(t)
  PROVE  IndInv'
  <1> USE DEF IndInv
  <1> DEFINE e == EventOfTask(t)
  <1>1. /\ task \in [Tasks -> TaskType] /\ e \in Events /\ task[t].pc = "record"
        /\ UNCHANGED <<up, subscribed, unmarked, bound, place, profile, executions, exposed,
                       faults>>
    BY TaskParts DEF TypeOK, MarkProcessed
  <1>2. Becomes(t, "ack")
    BY <1>1, TaskGoes DEF MarkProcessed
  <1>3. /\ event' \in [Events -> [status : {"none", "processing", "processed", "failed"},
                                  lock   : {"none", "fresh", "stale"}]]
        /\ event'[e].status = "processed"
        /\ \A d \in Events \ {e} : event'[d] = event[d]
    BY <1>1 DEF MarkProcessed, TypeOK
  <1>4. executions[e] > 0
    BY <1>1 DEF AppliedInv
  <1> HIDE DEF e
  <1>5. TypeOK'
    BY <1>1, <1>2, <1>3 DEF TypeOK, Becomes
  <1>6. ChannelInv'
    BY <1>1, <1>2, ChannelKept
  <1>7. AppliedInv'
    BY <1>1, <1>2, <1>3, <1>4 DEF AppliedInv, Becomes, e
  <1>8. TroubledInv'
    BY <1>1, <1>2 DEF TroubledInv, Troubled, Becomes
  <1>9. LockInv'
    <2>1. \A u \in Tasks \ {t} : /\ Working(u)' <=> Working(u)
                                 /\ Unrecorded(u)' <=> Unrecorded(u)
      BY <1>2 DEF Becomes, Working, Unrecorded
    <2>2. Working(t) /\ ~Working(t)' /\ ~Unrecorded(t)'
      BY <1>1, <1>2 DEF Becomes, Working, Unrecorded
    <2> QED BY <1>1, <1>3, <2>1, <2>2 DEF LockInv, e
  <1> QED BY <1>5, <1>6, <1>7, <1>8, <1>9

\* The failures that end a task's work on its event.
LEMMA FailureStepsKeepInv ==
  ASSUME IndInv, NEW t \in Tasks,
         \/ MarkFailed(t) \/ AckThrows(t)
         \/ BeginThrows(t) \/ MarkProcessedThrows(t) \/ MarkFailedThrows(t)
  PROVE  IndInv'
  <1> USE DEF IndInv
  <1> DEFINE e == EventOfTask(t)
             Records == [status : {"none", "processing", "processed", "failed"},
                         lock   : {"none", "fresh", "stale"}]
  <1>0. /\ task \in [Tasks -> TaskType] /\ e \in Events /\ exposed \subseteq Events
        /\ event \in [Events -> Records]
        /\ faults \in [count : 0..MaxFaults, events : SUBSET Events]
        /\ event[e].status = "processed" => executions[e] > 0
        /\ executions[e] \in 0..2
    BY TaskParts DEF TypeOK, AppliedInv
  <1>1. {e} \in SUBSET Events
    BY <1>0
  <1>2. SUFFICES \E s \in {"recordFailure", "nack"} : GivesUp(t, s)
    BY GivingUpKeepsInv
  <1> HIDE DEF e
  <1>3. e \notin exposed /\ Working(t) /\ ~Unrecorded(t) =>
          executions[e] = 0 /\ \A u \in Tasks : Working(u) /\ EventOfTask(u) = e => u = t
    BY <1>0 DEF LockInv, e
  <1>4. CASE MarkFailed(t)
    <2>1. /\ task[t].pc = "recordFailure" /\ Becomes(t, "nack")
          /\ UNCHANGED <<up, subscribed, unmarked, bound, place, profile, executions, exposed,
                         faults>>
      BY <1>0, <1>4, TaskGoes DEF MarkFailed
    <2>2. /\ event' \in [Events -> Records] /\ event'[e].status = "failed"
          /\ \A d \in Events \ {e} : event'[d] = event[d]
      BY <1>0, <1>4 DEF MarkFailed, e
    <2>3. Working(t) /\ ~Unrecorded(t)
      BY <2>1 DEF Working, Unrecorded
    <2>4. task[t].open => Troubled(e)
      BY <2>1 DEF TroubledInv, e
    <2>5. GivesUp(t, "nack")
      BY <1>0, <1>3, <2>1, <2>2, <2>3, <2>4 DEF GivesUp, Troubled, e
    <2> QED BY <2>5
  <1>5. CASE AckThrows(t)
    <2>1. /\ task[t].pc = "ack" /\ ~task[t].open /\ Becomes(t, "recordFailure")
          /\ exposed' = exposed \union {e}
          /\ UNCHANGED <<up, subscribed, unmarked, bound, place, event, profile, executions,
                         faults>>
      BY <1>0, <1>5, TaskGoes DEF AckThrows, e
    <2>2. GivesUp(t, "recordFailure")
      BY <1>0, <1>1, <2>1 DEF GivesUp, e
    <2> QED BY <2>2
  <1>6. CASE BeginThrows(t)
    <2>1. /\ task[t].pc \in {"insert", "reread", "takeFailed", "reclaim"} /\ Becomes(t, "nack")
          /\ UNCHANGED <<up, subscribed, unmarked, bound, place, profile, executions, exposed>>
      BY <1>0, <1>6, TaskGoes DEF BeginThrows
    <2>2. /\ faults' \in [count : 0..MaxFaults, events : SUBSET Events]
          /\ faults'.events = faults.events \union {e}
      BY <1>0, <1>1, <1>6, FaultCounted DEF BeginThrows, e
    <2>3. ~Working(t) /\ ~Unrecorded(t)
      BY <2>1 DEF Working, Unrecorded
    <2>4. CASE event' = event
      <3>1. GivesUp(t, "nack")
        BY <1>0, <2>1, <2>2, <2>3, <2>4 DEF GivesUp, e
      <3> QED BY <3>1
    <2>5. CASE Acquires(t) /\ event' = [event EXCEPT ![e] = Acquired]
      <3>1. /\ event' \in [Events -> Records] /\ event'[e].status = "processing"
            /\ \A d \in Events \ {e} : event'[d] = event[d]
        BY <1>0, <2>5 DEF Acquired
      <3>2. event[e].status # "processed"
              /\ ~(event[e].status = "processing" /\ event[e].lock = "fresh")
        BY <2>5 DEF Acquires, e
      <3>3. e \notin exposed => \A u \in Tasks : ~(Working(u) /\ EventOfTask(u) = e)
        BY <1>0, <3>2 DEF LockInv
      <3>4. \A u \in Tasks : Unrecorded(u) => Working(u)
        BY DEF Working, Unrecorded
      <3>5. e \notin exposed => executions[e] = 0
        BY <1>0, <3>2, <3>3, <3>4 DEF LockInv
      <3>6. GivesUp(t, "nack")
        BY <1>0, <2>1, <2>2, <2>3, <3>1, <3>3, <3>5 DEF GivesUp, e
      <3> QED BY <3>6
    <2> QED BY <1>6, <2>4, <2>5 DEF BeginThrows, e
  <1>7. CASE MarkProcessedThrows(t)
    <2>1. /\ task[t].pc = "record" /\ Becomes(t, "recordFailure")
          /\ UNCHANGED <<up, subscribed, unmarked, bound, place, profile, executions>>
          /\ exposed' = exposed \union {e}
      BY <1>0, <1>7, TaskGoes DEF MarkProcessedThrows, e
    <2>2. /\ faults' \in [count : 0..MaxFaults, events : SUBSET Events]
          /\ faults'.events = faults.events \union {e}
      BY <1>0, <1>1, <1>7, FaultCounted DEF MarkProcessedThrows, e
    <2>3. /\ event' \in [Events -> Records]
          /\ \A d \in Events \ {e} : event'[d] = event[d]
      BY <1>0, <1>7 DEF MarkProcessedThrows, e
    <2>4. executions[e] > 0
      BY <2>1 DEF AppliedInv, e
    <2>5. GivesUp(t, "recordFailure")
      BY <1>0, <1>1, <2>1, <2>2, <2>3, <2>4 DEF GivesUp, e
    <2> QED BY <2>5
  <1>8. CASE MarkFailedThrows(t)
    <2>1. /\ task[t].pc = "recordFailure" /\ Becomes(t, "nack")
          /\ UNCHANGED <<up, subscribed, unmarked, bound, place, event, profile, executions,
                         exposed>>
      BY <1>0, <1>8, TaskGoes DEF MarkFailedThrows
    <2>2. /\ faults' \in [count : 0..MaxFaults, events : SUBSET Events]
          /\ faults'.events = faults.events \union {e}
      BY <1>0, <1>1, <1>8, FaultCounted DEF MarkFailedThrows, e
    <2>3. ~Unrecorded(t)
      BY <2>1 DEF Unrecorded
    <2>4. GivesUp(t, "nack")
      BY <1>0, <2>1, <2>2, <2>3 DEF GivesUp, e
    <2> QED BY <2>4
  <1> QED BY <1>4, <1>5, <1>6, <1>7, <1>8

\* The answer to the broker ends the task.
LEMMA AnswerKeepsInv ==
  ASSUME IndInv, NEW t \in Tasks, Answer(t)
  PROVE  IndInv'
  <1> USE DEF IndInv
  <1> DEFINE m == t[2]
  <1>1. /\ m \in Messages /\ t[1] \in Replicas /\ EventOfTask(t) = EventOf[m]
        /\ task \in [Tasks -> TaskType] /\ place \in [Messages -> Places]
        /\ task[t].pc \in {"duplicate", "ack", "plainAck", "nack"} /\ task[t].open
        /\ UNCHANGED <<up, subscribed, unmarked, bound, event, profile, executions, exposed,
                       faults>>
    BY TaskParts DEF TypeOK, Answer, EventOfTask
  <1>2. Becomes(t, "idle")
    BY <1>1, TaskEnds DEF Answer
  <1>3. PICK where \in {"acking", "nacking"} :
          /\ place' = [place EXCEPT ![m].at = where]
          /\ where = "nacking" <=> task[t].pc = "nack"
    BY DEF Answer
  <1>4. place[m].at = "unacked" /\ place[m].by = t[1]
    BY <1>1 DEF ChannelInv
  <1> HIDE DEF m
  <1>5. [place[m] EXCEPT !.at = where] \in Places /\ [place[m] EXCEPT !.at = where].at = where
    BY <1>1, <1>4 DEF Places, InFlight
  <1>6. /\ place' \in [Messages -> Places] /\ place'[m].at = where
        /\ \A n \in Messages \ {m} : place'[n] = place[n]
    BY <1>1, <1>3, <1>5
  <1>7. TypeOK'
    BY <1>1, <1>2, <1>6 DEF TypeOK, Becomes
  <1>8. ChannelInv'
    <2>1. ASSUME NEW u \in Tasks \ {t}, task[u].pc # "idle", task[u].open PROVE u[2] # m
      BY <1>1, <1>4, <2>1, TaskParts DEF ChannelInv, m
    <2> QED BY <1>1, <1>2, <1>6, <2>1, TaskParts DEF ChannelInv, Becomes
  <1>9. AppliedInv'
    <2>1. where = "acking" => executions[EventOf[m]] > 0
      BY <1>1, <1>3 DEF AppliedInv
    <2> QED BY <1>1, <1>2, <1>6, <2>1 DEF AppliedInv, Becomes
  <1>10. TroubledInv'
    <2>1. where = "nacking" => Troubled(EventOf[m])
      BY <1>1, <1>3 DEF TroubledInv
    <2> QED BY <1>1, <1>2, <1>6, <2>1 DEF TroubledInv, Troubled, Becomes
  <1>11. LockInv'
    BY <1>1, <1>2, LockKept DEF Working
  <1> QED BY <1>7, <1>8, <1>9, <1>10, <1>11

\* Every step keeps the invariant: by the kind of its action.
LEMMA NextKeepsInv ==
  ASSUME IndInv, Next
  PROVE  IndInv'
  <1>1. ASSUME NEW x \in Replicas, Start(x) \/ Crash(x) \/ ConnectionClosed(x) PROVE IndInv'
    <2>1. CASE Crash(x)
      <3>1. {} \in SUBSET Events
        OBVIOUS
      <3>2. /\ faults' \in [count : 0..MaxFaults, events : SUBSET Events]
            /\ faults.events \subseteq faults'.events
        BY <2>1, <3>1, FaultCounted DEF Crash, IndInv, TypeOK
      <3> QED BY <2>1, <3>2, GoneKeepsInv DEF Crash
    <2> QED BY <1>1, <2>1, StartKeepsInv, ConnectionClosedKeepsInv
  <1>2. ASSUME NEW m \in Messages, Publish(m) \/ Settle(m) PROVE IndInv'
    BY <1>2, BrokerKeepsInv
  <1>3. ASSUME NEW x \in Replicas, NEW m \in Messages, Deliver(x, m) PROVE IndInv'
    BY <1>3, DeliverKeepsInv
  <1>4. ASSUME NEW e \in Events, CreateUser(e) \/ LockExpires(e) PROVE IndInv'
    BY <1>4, RestKeepsInv
  <1>5. ASSUME NEW t \in Tasks, AnswerThrows(t) PROVE IndInv'
    <2>1. Gone(t[1]) /\ UNCHANGED faults /\ t[1] \in Replicas
      BY <1>5, TaskParts DEF AnswerThrows
    <2> QED BY <2>1, GoneKeepsInv DEF IndInv, TypeOK
  <1>6. ASSUME NEW t \in Tasks, Handle(t) \/ Throw(t) PROVE IndInv'
    BY <1>5, <1>6, BeginStepsKeepInv, SyncStepsKeepInv, MarkProcessedKeepsInv,
       FailureStepsKeepInv, AnswerKeepsInv DEF Handle, Throw
  <1> QED BY <1>1, <1>2, <1>3, <1>4, <1>6 DEF Next

\* A step that changes nothing keeps the invariant.
LEMMA StutteringKeepsInv == IndInv /\ UNCHANGED vars => IndInv'
  <1> SUFFICES ASSUME IndInv, UNCHANGED vars PROVE IndInv'
    OBVIOUS
  <1> USE DEF IndInv, vars
  <1>1. TypeOK' /\ ChannelInv' /\ AppliedInv'
    BY DEF TypeOK, ChannelInv, AppliedInv
  <1>2. TroubledInv' /\ LockInv'
    BY DEF TroubledInv, Troubled, LockInv, Working, Unrecorded
  <1> QED BY <1>1, <1>2

-----------------------------------------------------------------------------
\* Theorems

\* In every reachable state of the auth consumer the inductive invariant holds: what
\* the broker waits for, what records and answers stand on, and the record as a lock.
THEOREM Invariance == Spec => []IndInv
  <1>1. IndInv /\ [Next]_vars => IndInv'
    BY NextKeepsInv, StutteringKeepsInv
  <1> QED BY InitInv, <1>1, PTL DEF Spec

\* Tasks, records, messages at the broker and counts keep their types.
THEOREM TypeCorrect == Spec => []TypeOK
  <1>1. IndInv => TypeOK
    BY DEF IndInv
  <1> QED BY Invariance, <1>1, PTL

\* processed_events is a lock for any number of replicas and of copies of an event:
\* unless the event was exposed, one task at most works on it, under its record, and
\* syncFromAuthUser committed once at most.
THEOREM AppliedOnce == Spec => []AppliedOnceUnlessExposed
  <1>1. IndInv => AppliedOnceUnlessExposed
    BY DEF IndInv, LockInv, AppliedOnceUnlessExposed
  <1> QED BY Invariance, <1>1, PTL

\* What one step of the consumer may do to what the promise is about.
LEMMA StepIsWork ==
  ASSUME IndInv, [Next]_vars, ~\E m \in Messages : Settle(m)
  PROVE  /\ \A e \in Events :
              /\ executions[e] > 0 => executions'[e] > 0
              /\ profile[e] = "foreign" => profile'[e] = "foreign"
              /\ event'[e].status = "processed" =>
                   event[e].status = "processed" \/ executions[e] > 0
         /\ faults.events \subseteq faults'.events
         /\ \A m \in Messages : /\ place'[m].at = "acked" <=> place[m].at = "acked"
                                /\ place'[m].at = "dropped" <=> place[m].at = "dropped"
  <1> USE DEF IndInv
  <1>1. \A events : Fault(events) => faults.events \subseteq faults'.events
    BY DEF Fault
  <1>2. ASSUME NEW x \in Replicas, place' = Requeued(x)
        PROVE  \A m \in Messages : /\ place'[m].at = "acked" <=> place[m].at = "acked"
                                   /\ place'[m].at = "dropped" <=> place[m].at = "dropped"
    BY <1>2, RequeuedPlaces DEF TypeOK
  <1>3. CASE UNCHANGED vars
    BY <1>3 DEF vars
  <1>4. ASSUME NEW x \in Replicas, Start(x) \/ Crash(x) \/ ConnectionClosed(x)
        PROVE  /\ UNCHANGED <<executions, profile, event>> /\ faults.events \subseteq faults'.events
               /\ UNCHANGED place \/ place' = Requeued(x)
    BY <1>1, <1>4 DEF Start, Crash, ConnectionClosed, Gone
  <1>5. ASSUME NEW m \in Messages, Publish(m) \/ \E x \in Replicas : Deliver(x, m)
        PROVE  /\ UNCHANGED <<executions, profile, event, faults>>
               /\ place'[m].at \notin {"acked", "dropped"}
               /\ place[m].at \notin {"acked", "dropped"}
               /\ \A n \in Messages \ {m} : place'[n] = place[n]
    <2>1. CASE Publish(m)
      BY <2>1, BrokerHas DEF Publish, TypeOK
    <2>2. ASSUME NEW x \in Replicas, Deliver(x, m)
          PROVE  /\ UNCHANGED <<executions, profile, event, faults>>
                 /\ place[m].at = "ready"
                 /\ place' = [place EXCEPT ![m] = [at |-> "unacked", by |-> x]]
      BY <2>2, BrokerHas DEF Deliver
    <2>3. CASE \E x \in Replicas : Deliver(x, m)
      BY <2>2, <2>3 DEF TypeOK
    <2> QED BY <1>5, <2>1, <2>3
  <1>6. ASSUME NEW e \in Events, CreateUser(e) \/ LockExpires(e)
        PROVE  /\ UNCHANGED <<executions, place, faults>>
               /\ \A d \in Events : /\ profile[d] = "foreign" => profile'[d] = "foreign"
                                    /\ event'[d].status = event[d].status
    BY <1>6 DEF CreateUser, LockExpires, TypeOK
  <1>7. ASSUME NEW t \in Tasks, Answer(t)
        PROVE  /\ UNCHANGED <<executions, profile, event, faults>>
               /\ place'[t[2]].at \in {"acking", "nacking"}
               /\ place[t[2]].at = "unacked"
               /\ \A n \in Messages \ {t[2]} : place'[n] = place[n]
    <2>1. t[2] \in Messages /\ place \in [Messages -> Places] /\ place[t[2]].at = "unacked"
      BY <1>7, TaskParts DEF TypeOK, Answer, ChannelInv
    <2>2. [place[t[2]] EXCEPT !.at = "acking"].at = "acking"
            /\ [place[t[2]] EXCEPT !.at = "nacking"].at = "nacking"
      BY <2>1 DEF Places
    <2> QED BY <1>7, <2>1, <2>2 DEF Answer
  <1>8. ASSUME NEW t \in Tasks, AnswerThrows(t)
        PROVE  UNCHANGED <<executions, profile, event, faults>> /\ place' = Requeued(t[1])
    BY <1>8 DEF AnswerThrows, Gone
  <1>9. ASSUME NEW t \in Tasks, ~Answer(t), ~AnswerThrows(t), Handle(t) \/ Throw(t)
        PROVE  UNCHANGED place /\ faults.events \subseteq faults'.events
    BY <1>1, <1>9 DEF Handle, Throw, TryAcquire, InsertConflict, Reread, InProgress, Sync,
       PlainSync, SyncConflict, MarkProcessed, MarkFailed, AckThrows, BeginThrows,
       SyncThrows, MarkProcessedThrows, MarkFailedThrows, SyncFromAuthUser
  <1>10. ASSUME NEW t \in Tasks, ~Answer(t), ~AnswerThrows(t), Handle(t) \/ Throw(t)
         PROVE  \A e \in Events :
                  /\ executions[e] > 0 => executions'[e] > 0
                  /\ profile[e] = "foreign" => profile'[e] = "foreign"
                  /\ event'[e].status = "processed" =>
                       event[e].status = "processed" \/ executions[e] > 0
    <2> DEFINE c == EventOfTask(t)
    <2>1. /\ c \in Events
          /\ event \in [Events -> [status : {"none", "processing", "processed", "failed"},
                                   lock   : {"none", "fresh", "stale"}]]
      BY TaskParts DEF TypeOK
    <2>2. CASE \E s : SyncFromAuthUser(t, s)
      <3>1. PICK s : SyncFromAuthUser(t, s)
        BY <2>2
      <3> QED BY <2>1, <3>1, SyncCommits DEF SyncFromAuthUser, TypeOK
    <2>3. CASE TryAcquire(t) \/ BeginThrows(t) \/ MarkFailed(t)
      <3>1. UNCHANGED <<executions, profile>>
        BY <2>3 DEF TryAcquire, BeginThrows, MarkFailed
      <3>2. \/ event' = event
            \/ event' = [event EXCEPT ![c] = Acquired]
            \/ event' = [event EXCEPT ![c] = [status |-> "failed", lock |-> "none"]]
        BY <2>3 DEF TryAcquire, BeginThrows, MarkFailed
      <3> HIDE DEF c
      <3> QED BY <2>1, <3>1, <3>2 DEF Acquired
    <2>4. CASE MarkProcessed(t) \/ MarkProcessedThrows(t)
      <3>1. UNCHANGED <<executions, profile>> /\ executions[c] > 0
        BY <2>4 DEF MarkProcessed, MarkProcessedThrows, AppliedInv
      <3>2. \/ event' = event
            \/ event' = [event EXCEPT ![c] = [status |-> "processed", lock |-> "none"]]
        BY <2>4 DEF MarkProcessed, MarkProcessedThrows
      <3> HIDE DEF c
      <3> QED BY <2>1, <3>1, <3>2
    <2>5. CASE UNCHANGED <<event, profile, executions>>
      BY <2>5
    <2> QED BY <1>10, <2>2, <2>3, <2>4, <2>5 DEF Handle, Throw, InsertConflict, Reread,
            InProgress, Sync, PlainSync, SyncConflict, AckThrows, SyncThrows, MarkFailedThrows
  <1>11. CASE \E t \in Tasks : Handle(t) \/ Throw(t)
    BY <1>2, <1>7, <1>8, <1>9, <1>10, <1>11, TaskParts
  <1> QED BY <1>2, <1>3, <1>4, <1>5, <1>6, <1>11 DEF Next

\* The consumer implements the abstract one: it records and acknowledges only what was
\* applied, and discards a message only after trouble.
THEOREM Implementation == Spec => KeepsPromise
  <1>1. Init => Promise!Init
    BY BrokerHas DEF Init, Promise!Init
  <1>2. IndInv /\ [Next]_vars => [Promise!Next]_(Promise!vars)
    <2> SUFFICES ASSUME IndInv, [Next]_vars
                 PROVE  Promise!Next
      OBVIOUS
    <2>1. CASE \E m \in Messages : Settle(m)
      <3>1. PICK m \in Messages : Settle(m)
        BY <2>1
      <3>2. /\ UNCHANGED <<executions, faults, profile, event>>
            /\ place[m].at \in {"acking", "nacking"}
            /\ place'[m].at = IF place[m].at = "acking" THEN "acked" ELSE "dropped"
            /\ \A n \in Messages \ {m} : place'[n] = place[n]
        BY <3>1, BrokerHas DEF Settle, IndInv, TypeOK
      <3>3. EventOf[m] \in Events
        BY EventOfAssumption
      <3>4. CASE place[m].at = "acking"
        <4>1. executions[EventOf[m]] > 0
          BY <3>4 DEF IndInv, AppliedInv
        <4>2. Promise!Ack(m)
          BY <3>2, <3>3, <3>4, <4>1 DEF Promise!Ack
        <4> QED BY <4>2 DEF Promise!Next
      <3>5. CASE place[m].at = "nacking"
        <4>1. Troubled(EventOf[m])
          BY <3>5 DEF IndInv, TroubledInv
        <4>2. Promise!Drop(m)
          BY <3>2, <3>3, <3>5, <4>1 DEF Promise!Drop, Troubled
        <4> QED BY <4>2 DEF Promise!Next
      <3> QED BY <3>2, <3>4, <3>5
    <2>2. CASE ~\E m \in Messages : Settle(m)
      <3>1. Promise!Work
        BY <2>2, StepIsWork DEF Promise!Work
      <3> QED BY <3>1 DEF Promise!Next
    <2> QED BY <2>1, <2>2
  <1> QED BY <1>1, <1>2, Invariance, PTL DEF Spec, KeepsPromise, Promise!Spec
=============================================================================
