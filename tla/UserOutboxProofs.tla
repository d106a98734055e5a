-------------------------- MODULE UserOutboxProofs --------------------------
(***************************************************************************)
(* Theorems about UserOutbox for any set of rows, any replicas, any number *)
(* of ticks, attempts and faults.                                          *)
(***************************************************************************)
EXTENDS UserOutbox, TLAPS

USE DEF NoRow

-----------------------------------------------------------------------------
\* The inductive invariant, in named parts

Working == {"publish", "mark", "fail", "giveBack"}

\* A batch works on a row of its own list, and lists committed rows only.
BatchInv ==
  \A p \in Polls :
    /\ poll[p].pc \in Working => poll[p].cur \in poll[p].todo
    /\ \A r \in poll[p].todo : row[r].status # "absent"

\* What is recorded or travelling was written to a channel.
SentInv ==
  /\ \A x \in Replicas : wire[x] \subseteq sent
  /\ \A r \in Rows : row[r].status = "published" => r \in sent
  /\ \A p \in Polls : poll[p].pc = "mark" => poll[p].cur \in sent

\* Only a published or dead row is out of attempts, and what the catch branch read is
\* still the column when it writes, unless the row was disturbed.
AttemptsInv ==
  /\ \A r \in Rows :
       /\ row[r].status = "absent" => row[r].attempts = 0
       /\ row[r].status \in {"pending", "processing", "failed"} => row[r].attempts < MaxAttempts
  /\ AttemptsAreExact
  /\ \A p \in Polls : poll[p].pc = "giveBack" /\ poll[p].cur \notin disturbed
       => poll[p].seen = row[poll[p].cur].attempts

\* An undisturbed row has one holder at most and shows a lock that has not run
\* out; a lock seen running out at the start of a batch has not been renewed.
LockInv ==
  /\ \A p \in Polls : \A r \in poll[p].expired :
       row[r].status = "processing" => row[r].lock = "stale"
  /\ \A r \in Rows \ disturbed : \A p \in Polls :
       Holds(p, r) => /\ row[r].status = "processing" /\ row[r].lock = "fresh"
                      /\ \A q \in Polls : Holds(q, r) => p = q

\* One batch of a process is in flight at most; a row it has still to come to and that
\* waits for its next attempt was failed by another process since the batch started.
BackoffInv ==
  /\ \A p, q \in Polls :
       poll[p].pc # "idle" /\ poll[q].pc # "idle" /\ p[1] = q[1] => p = q
  /\ \A p \in Polls : \A r \in poll[p].todo :
       poll[p].pc # "idle" /\ ~Holds(p, r) /\ row[r].status = "failed" /\ ~row[r].due
         => failedBy[r] # p[1]

IndInv == TypeOK /\ BatchInv /\ SentInv /\ AttemptsInv /\ LockInv /\ BackoffInv

-----------------------------------------------------------------------------
\* What the operators on rows and batches do

\* The claim sets status and lock, and leaves the attempts.
LEMMA ClaimedRow ==
  ASSUME NEW rw \in RowType(Nat)
  PROVE  /\ Claimed(rw) \in RowType(Nat)
         /\ Claimed(rw).status = "processing" /\ Claimed(rw).lock = "fresh"
         /\ Claimed(rw).attempts = rw.attempts
  BY DEF Claimed, RowType, Statuses, Locks

\* The final update sets the status, and leaves the attempts.
LEMMA PublishedRow ==
  ASSUME NEW rw \in RowType(Nat)
  PROVE  /\ Published(rw) \in RowType(Nat)
         /\ Published(rw).status = "published"
         /\ Published(rw).attempts = rw.attempts
  BY DEF Published, RowType, Statuses, Locks

\* The catch branch gives a row up when its attempts are used up.
LEMMA FailedRowOp ==
  ASSUME NEW rw \in RowType(Nat), NEW a \in Nat
  PROVE  /\ Failed(rw, a, MaxAttempts) \in RowType(Nat)
         /\ Failed(rw, a, MaxAttempts).attempts = a
         /\ Failed(rw, a, MaxAttempts).status = IF a < MaxAttempts THEN "failed" ELSE "dead"
  <1>1. CASE a >= MaxAttempts
    <2>1. Failed(rw, a, MaxAttempts) =
            [rw EXCEPT !.status = "dead", !.attempts = a, !.due = TRUE, !.lock = "none"]
      <3>1. (a >= MaxAttempts) = TRUE
        BY <1>1
      <3> QED BY <3>1, Zenon DEF Failed
    <2>2. ~(a < MaxAttempts)
      BY <1>1, MaxAttemptsAssumption
    <2> QED BY <2>1, <2>2 DEF RowType, Statuses, Locks
  <1>2. CASE ~(a >= MaxAttempts)
    <2>1. Failed(rw, a, MaxAttempts) =
            [rw EXCEPT !.status = "failed", !.attempts = a, !.due = FALSE, !.lock = "none"]
      <3>1. (a >= MaxAttempts) = FALSE
        BY <1>2
      <3> QED BY <3>1, Zenon DEF Failed
    <2>2. a < MaxAttempts
      BY <1>2, MaxAttemptsAssumption
    <2> QED BY <2>1, <2>2 DEF RowType, Statuses, Locks
  <1> QED BY <1>1, <1>2

\* Rows before and after their enqueue have made no attempt.
LEMMA NewRows ==
  /\ AbsentRow \in RowType(Nat) /\ AbsentRow.status = "absent"
  /\ PendingRow \in RowType(Nat) /\ PendingRow.status = "pending"
  /\ AbsentRow.attempts = 0 /\ PendingRow.attempts = 0
  <1>1. AbsentRow \in RowType(Nat) /\ AbsentRow.status = "absent" /\ AbsentRow.attempts = 0
    BY DEF AbsentRow, RowType, Statuses, Locks
  <1>2. PendingRow \in RowType(Nat) /\ PendingRow.status = "pending" /\ PendingRow.attempts = 0
    BY <1>1 DEF PendingRow, RowType, Statuses
  <1> QED BY <1>1, <1>2

\* A batch that is not running has nothing in hand.
LEMMA IdleBatch == IdlePoll \in PollType /\ IdlePoll.pc = "idle" /\ IdlePoll.todo = {}
                   /\ IdlePoll.expired = {}
  BY DEF IdlePoll, PollType

\* A batch that goes on is done with the row.
LEMMA AdvancedBatch ==
  ASSUME NEW b \in PollType, NEW r \in Rows
  PROVE  /\ Advanced(b, r) \in PollType
         /\ Advanced(b, r).pc \in {"idle", "claim"}
         /\ Advanced(b, r).todo \subseteq b.todo \ {r}
         /\ Advanced(b, r).expired \subseteq b.expired
  BY IdleBatch DEF Advanced, PollType, IdlePoll

\* A candidate is a pending row, a failed one that is due, or one whose lock ran out.
LEMMA BatchRows ==
  ASSUME NEW table \in [Rows -> RowType(Nat)]
  PROVE  /\ Batch(table, BatchSize) \subseteq Rows
         /\ \A r \in Batch(table, BatchSize) :
              /\ table[r].status \in {"pending", "processing", "failed"}
              /\ table[r].status = "failed" => table[r].due
  BY DEF Batch, IsCandidate, LockRanOut

-----------------------------------------------------------------------------
\* The invariant is inductive: one lemma for each group of actions

\* The invariant holds at the start.
LEMMA InitInv == Init => IndInv
  <1> SUFFICES ASSUME Init PROVE IndInv
    OBVIOUS
  <1>1. /\ \A r \in Rows : row[r] = AbsentRow
        /\ \A p \in Polls : poll[p] = IdlePoll
    BY DEF Init
  <1>2. TypeOK
    <2>1. 0 \in 0..MaxAttempts /\ 0 \in 0..MaxFaults
      BY MaxAttemptsAssumption, MaxFaultsAssumption
    <2>2. row \in [Rows -> RowType(Nat)] /\ poll \in [Polls -> PollType]
      BY NewRows, IdleBatch DEF Init
    <2>3. \A r \in Rows : row[r].status # "failed"
      BY <1>1, NewRows
    <2> QED BY <2>1, <2>2, <2>3 DEF Init, TypeOK
  <1>3. BatchInv /\ SentInv /\ LockInv /\ BackoffInv
    BY <1>1, NewRows, IdleBatch DEF Init, BatchInv, SentInv, LockInv, BackoffInv, Holds, Working
  <1>4. AttemptsInv
    BY <1>1, NewRows, IdleBatch, MaxAttemptsAssumption DEF Init, AttemptsInv, AttemptsAreExact
  <1> QED BY <1>2, <1>3, <1>4 DEF IndInv

\* A step that leaves the table and the batches alone.
LEMMA ProcessKeepsInv ==
  ASSUME IndInv, UNCHANGED <<configured, row, poll, sent, history>>,
         up' \in [Replicas -> BOOLEAN], channel' \in [Replicas -> {"open", "null"}],
         wire' \in [Replicas -> SUBSET Rows], delivered' \subseteq Rows,
         \A x \in Replicas : wire'[x] \subseteq wire[x],
         faults' \in 0..MaxFaults
  PROVE  IndInv'
  <1> USE DEF IndInv, history
  <1>1. TypeOK'
    BY DEF TypeOK
  <1>2. BatchInv' /\ SentInv' /\ AttemptsInv'
    BY DEF BatchInv, SentInv, AttemptsInv, AttemptsAreExact
  <1>3. LockInv' /\ BackoffInv'
    BY DEF LockInv, BackoffInv, Holds
  <1> QED BY <1>1, <1>2, <1>3

\* A process starts, loses its connection, or the broker reads a frame.
LEMMA EnvironmentKeepsInv ==
  ASSUME IndInv,
         \/ \E x \in Replicas : Start(x) \/ ConnectionClosed(x)
         \/ \E x \in Replicas, r \in Rows : Deliver(x, r)
  PROVE  IndInv'
  <1>1. ASSUME NEW x \in Replicas, Start(x) PROVE IndInv'
    BY <1>1, ProcessKeepsInv DEF IndInv, TypeOK, Start
  <1>2. ASSUME NEW x \in Replicas, ConnectionClosed(x) PROVE IndInv'
    BY <1>2, ProcessKeepsInv, MaxFaultsAssumption DEF IndInv, TypeOK, ConnectionClosed
  <1>3. ASSUME NEW x \in Replicas, NEW r \in Rows, Deliver(x, r) PROVE IndInv'
    BY <1>3, ProcessKeepsInv DEF IndInv, TypeOK, Deliver, env
  <1> QED BY <1>1, <1>2, <1>3

\* Batches end with their process.
LEMMA CrashKeepsInv ==
  ASSUME IndInv, NEW x \in Replicas, Crash(x)
  PROVE  IndInv'
  <1> USE DEF IndInv
  <1>1. /\ UNCHANGED <<configured, row, delivered, sent, failures, failedBy, disturbed>>
        /\ \A p \in Polls : poll'[p] = poll[p] \/ poll'[p] = IdlePoll
        /\ \A y \in Replicas : wire'[y] \subseteq wire[y]
    BY DEF Crash, history, TypeOK
  <1>2. TypeOK'
    <2>1. faults' \in 0..MaxFaults
      BY MaxFaultsAssumption DEF Crash, TypeOK
    <2>2. poll' \in [Polls -> PollType]
      BY IdleBatch DEF Crash, TypeOK
    <2> QED BY <1>1, <2>1, <2>2 DEF Crash, TypeOK
  <1>3. BatchInv' /\ SentInv'
    BY <1>1, IdleBatch DEF BatchInv, SentInv, Working
  <1>4. AttemptsInv'
    BY <1>1, IdleBatch DEF AttemptsInv, AttemptsAreExact
  <1>5. LockInv' /\ BackoffInv'
    BY <1>1, IdleBatch DEF LockInv, BackoffInv, Holds
  <1> QED BY <1>2, <1>3, <1>4, <1>5

\* A committed row, a lock that runs out, a retry that falls due.
LEMMA ClockKeepsInv ==
  ASSUME IndInv, NEW r \in Rows, Enqueue(r) \/ LockExpires(r) \/ RetryDue(r)
  PROVE  IndInv'
  <1> USE DEF IndInv
  <1>1. /\ UNCHANGED <<configured, up, channel, faults, poll, wire, delivered, sent, failures,
                       failedBy>>
        /\ disturbed \subseteq disturbed' /\ disturbed' \subseteq Rows
        /\ row \in [Rows -> RowType(Nat)]
    BY DEF Enqueue, LockExpires, RetryDue, env, history, TypeOK
  <1>2. CASE Enqueue(r)
    <2>1. row[r].status = "absent" /\ row' = [row EXCEPT ![r] = PendingRow]
            /\ disturbed' = disturbed
      BY <1>2 DEF Enqueue, history
    <2>2. /\ row' \in [Rows -> RowType(Nat)]
          /\ row'[r].status = "pending" /\ row'[r].attempts = 0
          /\ \A q \in Rows \ {r} : row'[q] = row[q]
      BY <1>1, <2>1, NewRows
    <2>3. row[r].attempts = 0
      BY <2>1 DEF AttemptsInv
    <2>4. TypeOK'
      BY <1>1, <2>2 DEF TypeOK
    <2>5. BatchInv' /\ SentInv'
      BY <1>1, <2>1, <2>2 DEF BatchInv, SentInv, TypeOK, PollType
    <2>6. AttemptsInv'
      BY <1>1, <2>1, <2>2, <2>3, MaxAttemptsAssumption
      DEF AttemptsInv, AttemptsAreExact
    <2>7. LockInv' /\ BackoffInv'
      BY <1>1, <2>1, <2>2 DEF LockInv, BackoffInv, Holds, BatchInv, TypeOK, PollType
    <2> QED BY <2>4, <2>5, <2>6, <2>7
  <1>3. CASE LockExpires(r) \/ RetryDue(r)
    <2>1. /\ row' \in [Rows -> RowType(Nat)]
          /\ \A q \in Rows : /\ row'[q].status = row[q].status
                             /\ row'[q].attempts = row[q].attempts
                             /\ row[q].due => row'[q].due
      <3>1. [row[r] EXCEPT !.lock = "stale"] \in RowType(Nat)
              /\ [row[r] EXCEPT !.due = TRUE] \in RowType(Nat)
        BY <1>1 DEF RowType, Locks
      <3>2. row' \in [Rows -> RowType(Nat)]
        BY <1>1, <1>3, <3>1 DEF LockExpires, RetryDue
      <3>3. CASE row' = [row EXCEPT ![r].lock = "stale"]
        BY <1>1, <3>2, <3>3 DEF RowType
      <3>4. CASE row' = [row EXCEPT ![r].due = TRUE]
        BY <1>1, <3>2, <3>4 DEF RowType
      <3> QED BY <1>3, <3>2, <3>3, <3>4 DEF LockExpires, RetryDue
    <2>2. TypeOK'
      BY <1>1, <2>1 DEF TypeOK
    <2>3. BatchInv' /\ SentInv'
      BY <1>1, <2>1 DEF BatchInv, SentInv, TypeOK, PollType
    <2>4. AttemptsInv'
      <3>1. \A p \in Polls : poll[p].pc = "giveBack" => poll[p].cur \in Rows
        BY DEF BatchInv, TypeOK, PollType, Working
      <3> QED BY <1>1, <2>1, <3>1 DEF AttemptsInv, AttemptsAreExact
    <2>5. LockInv'
      <3>1. \A p \in Polls : poll[p].expired \subseteq Rows
        BY DEF TypeOK, PollType
      <3>2. \A q \in Rows : row[q].lock = "stale" => row'[q].lock = "stale"
        BY <1>1, <1>3 DEF LockExpires, RetryDue, RowType
      <3>3. \A q \in Rows : row'[q].lock = row[q].lock \/ q \in disturbed'
                              \/ \A p \in Polls : ~Holds(p, q)
        BY <1>1, <1>3 DEF LockExpires, RetryDue, RowType
      <3> QED BY <1>1, <2>1, <3>1, <3>2, <3>3 DEF LockInv, Holds
    <2>6. BackoffInv'
      BY <1>1, <2>1 DEF BackoffInv, Holds, TypeOK, PollType
    <2> QED BY <2>2, <2>3, <2>4, <2>5, <2>6
  <1> QED BY <1>2, <1>3

\* outboxInFlight: no other batch of the process is in flight, and of the rows listed
\* none waits for its next attempt.
LEMMA BeginBatchKeepsInv ==
  ASSUME IndInv, NEW p \in Polls, BeginBatch(p)
  PROVE  IndInv'
  <1> USE DEF IndInv
  <1> DEFINE batch == Batch(row, BatchSize)
  <1>1. /\ batch \subseteq Rows
        /\ \A r \in batch : /\ row[r].status \in {"pending", "processing", "failed"}
                            /\ row[r].status = "failed" => row[r].due
    BY BatchRows DEF TypeOK
  <1>2. /\ poll'[p].pc = "claim" /\ poll'[p].todo = batch
        /\ poll'[p].expired = {r \in batch : LockRanOut(row[r])}
        /\ poll' \in [Polls -> PollType]
        /\ \A q \in Polls \ {p} : poll'[q] = poll[q]
    <2> DEFINE new == [IdlePoll EXCEPT !.pc = "claim", !.todo = batch,
                                       !.expired = {r \in batch : LockRanOut(row[r])}]
    <2>1. poll' = [poll EXCEPT ![p] = new] /\ poll \in [Polls -> PollType]
      BY DEF BeginBatch, TypeOK
    <2>2. /\ new \in PollType /\ new.pc = "claim" /\ new.todo = batch
          /\ new.expired = {r \in batch : LockRanOut(row[r])}
      BY <1>1 DEF IdlePoll, PollType
    <2> HIDE DEF new
    <2> QED BY <2>1, <2>2
  <1>3. UNCHANGED <<row, wire, delivered, sent, failures, failedBy, disturbed, configured, up,
                    channel, faults>>
    BY DEF BeginBatch, env, history
  <1>4. \A q \in Polls : q[1] = p[1] => poll[q].pc = "idle"
    <2>1. ASSUME NEW q \in Polls, q[1] = p[1] PROVE q[2] \in Timers /\ q = <<p[1], q[2]>>
      BY <2>1 DEF Polls
    <2> QED BY <2>1 DEF BeginBatch, MayPoll
  <1> HIDE DEF batch
  <1>5. TypeOK'
    BY <1>2, <1>3 DEF TypeOK
  <1>6. BatchInv' /\ SentInv'
    BY <1>1, <1>2, <1>3 DEF BatchInv, SentInv, Working
  <1>7. AttemptsInv'
    BY <1>2, <1>3 DEF AttemptsInv, AttemptsAreExact
  <1>8. LockInv'
    BY <1>1, <1>2, <1>3 DEF LockInv, LockRanOut, Holds
  <1>9. BackoffInv'
    BY <1>1, <1>2, <1>3, <1>4 DEF BackoffInv, Holds
  <1> QED BY <1>5, <1>6, <1>7, <1>8, <1>9

\* Batch p becomes b, which lists and holds no row that p did not, and the table stays.
GoesOn(p, b) ==
  /\ poll[p].pc # "idle" /\ b \in PollType /\ poll' = [poll EXCEPT ![p] = b]
  /\ UNCHANGED <<configured, row, up, delivered, history>>
  /\ channel' \in [Replicas -> {"open", "null"}] /\ faults' \in 0..MaxFaults
  /\ sent \subseteq sent' /\ sent' \subseteq Rows
  /\ \A x \in Replicas : wire'[x] \subseteq sent'
  /\ wire' \in [Replicas -> SUBSET Rows]
  /\ b.todo \subseteq poll[p].todo /\ b.expired \subseteq poll[p].expired
  /\ b.pc \in Working => poll[p].pc \in Working /\ b.cur = poll[p].cur /\ b.cur \in b.todo
  /\ b.pc = "claim" => poll[p].pc = "claim"
  /\ b.pc = "mark" => b.cur \in sent'
  /\ b.pc = "giveBack" => b.seen = row[b.cur].attempts

\* A step of one batch that changes no row.
LEMMA GoingOnKeepsInv ==
  ASSUME IndInv, NEW p \in Polls, NEW b, GoesOn(p, b)
  PROVE  IndInv'
  <1> USE DEF IndInv, GoesOn, history
  <1>1. poll' \in [Polls -> PollType] /\ poll'[p] = b /\ \A q \in Polls \ {p} : poll'[q] = poll[q]
    BY DEF TypeOK
  <1>2. TypeOK'
    BY <1>1 DEF TypeOK
  <1>3. BatchInv' /\ SentInv'
    BY <1>1 DEF BatchInv, SentInv
  <1>4. AttemptsInv'
    BY <1>1 DEF AttemptsInv, AttemptsAreExact
  <1>5. \A q \in Polls, r \in Rows : Holds(q, r)' => Holds(q, r)
    BY <1>1 DEF Holds, Working
  <1>6. LockInv'
    BY <1>1, <1>5 DEF LockInv
  <1>7. BackoffInv'
    <2>1. \A q, o \in Polls : poll'[q].pc # "idle" /\ poll'[o].pc # "idle" /\ q[1] = o[1] => q = o
      BY <1>1 DEF BackoffInv
    <2>2. \A q \in Polls : poll'[q].todo \subseteq Rows
      BY <1>1 DEF PollType
    <2>3. \A r \in b.todo : ~Holds(p, r)' /\ b.pc # "idle" => ~Holds(p, r)
      BY <1>1, <2>2 DEF Holds, Working, PollType
    <2>4. \A r \in b.todo : ~Holds(p, r)' /\ b.pc # "idle" /\ row[r].status = "failed"
                            /\ ~row[r].due => failedBy[r] # p[1]
      BY <2>3 DEF BackoffInv
    <2>5. \A q \in Polls \ {p} : \A r \in poll[q].todo : ~Holds(q, r)' => ~Holds(q, r)
      BY <1>1 DEF Holds
    <2>6. ASSUME NEW q \in Polls, NEW r \in poll'[q].todo, poll'[q].pc # "idle", ~Holds(q, r)',
                 row'[r].status = "failed", ~row'[r].due
          PROVE  failedBy'[r] # q[1]
      <3>1. CASE q = p
        BY <1>1, <2>4, <2>6, <3>1
      <3>2. CASE q # p
        BY <1>1, <2>5, <2>6, <3>2 DEF BackoffInv
      <3> QED BY <3>1, <3>2
    <2> QED BY <2>1, <2>6 DEF BackoffInv
  <1> QED BY <1>2, <1>3, <1>4, <1>6, <1>7

\* A batch that works on a row holds a committed row.
LEMMA HeldRow ==
  ASSUME IndInv, NEW p \in Polls, poll[p].pc \in Working
  PROVE  /\ poll[p] \in PollType /\ poll[p].cur \in Rows /\ poll[p].cur \in poll[p].todo
         /\ row[poll[p].cur] \in RowType(Nat) /\ row[poll[p].cur].status # "absent"
         /\ Holds(p, poll[p].cur)
  <1>1. poll[p] \in PollType /\ poll[p].cur \in Rows /\ poll[p].cur \in poll[p].todo
    BY DEF IndInv, TypeOK, PollType, BatchInv
  <1> QED BY <1>1 DEF IndInv, TypeOK, BatchInv, Holds, Working

\* The steps of a batch up to its write: they change no row.
LEMMA ReadingStepsKeepInv ==
  ASSUME IndInv, NEW p \in Polls,
         \/ SkipRow(p) \/ Publish(p) \/ PublishWithoutChannel(p) \/ ReadAttempts(p)
         \/ PublishThrows(p)
  PROVE  IndInv'
  <1> USE DEF IndInv
  <1>1. /\ poll \in [Polls -> PollType] /\ poll[p] \in PollType /\ p[1] \in Replicas
        /\ channel \in [Replicas -> {"open", "null"}] /\ faults \in 0..MaxFaults
        /\ wire \in [Replicas -> SUBSET Rows] /\ sent \subseteq Rows
        /\ \A x \in Replicas : wire[x] \subseteq sent
    BY DEF TypeOK, SentInv, Polls
  <1>2. SUFFICES \E b : GoesOn(p, b)
    BY GoingOnKeepsInv
  <1>3. CASE SkipRow(p)
    <2>1. PICK r \in poll[p].todo : poll' = [poll EXCEPT ![p] = Advanced(poll[p], r)]
      BY <1>3 DEF SkipRow
    <2>2. poll[p].pc = "claim" /\ UNCHANGED <<row, wire, delivered, sent, history, env>>
      BY <1>3 DEF SkipRow
    <2>3. /\ Advanced(poll[p], r) \in PollType /\ Advanced(poll[p], r).pc \in {"idle", "claim"}
          /\ Advanced(poll[p], r).todo \subseteq poll[p].todo
          /\ Advanced(poll[p], r).expired \subseteq poll[p].expired
      <3>1. r \in Rows
        BY <1>1 DEF PollType
      <3> QED BY <1>1, <3>1, AdvancedBatch
    <2>4. GoesOn(p, Advanced(poll[p], r))
      BY <1>1, <2>1, <2>2, <2>3 DEF GoesOn, env, Working
    <2> QED BY <2>4
  <1>4. CASE Publish(p)
    <2>1. PICK outcome \in {"mark", "fail"} : poll' = [poll EXCEPT ![p].pc = outcome]
      BY <1>4 DEF Publish
    <2> DEFINE b == [poll[p] EXCEPT !.pc = outcome]
    <2>2. /\ poll[p].pc = "publish" /\ poll' = [poll EXCEPT ![p] = b]
          /\ UNCHANGED <<configured, row, up, delivered, history, faults>>
          /\ sent' = sent \union {poll[p].cur}
          /\ channel' = [channel EXCEPT ![p[1]] = "open"]
          /\ wire' = [wire EXCEPT ![p[1]] = wire[p[1]] \union {poll[p].cur}]
      BY <1>4, <2>1 DEF Publish
    <2>3. /\ b \in PollType /\ b.pc = outcome /\ b.todo = poll[p].todo /\ b.cur = poll[p].cur
          /\ b.expired = poll[p].expired
      BY <1>1 DEF PollType
    <2> HIDE DEF b
    <2>4. poll[p].cur \in Rows /\ poll[p].cur \in poll[p].todo
      BY <2>2, HeldRow DEF Working
    <2>5. /\ channel' \in [Replicas -> {"open", "null"}] /\ wire' \in [Replicas -> SUBSET Rows]
          /\ \A x \in Replicas : wire'[x] \subseteq sent'
      BY <1>1, <2>2, <2>4
    <2>6. GoesOn(p, b)
      BY <1>1, <2>2, <2>3, <2>4, <2>5 DEF GoesOn, Working
    <2> QED BY <2>6
  <1>5. CASE PublishWithoutChannel(p) \/ PublishThrows(p)
    <2> DEFINE b == [poll[p] EXCEPT !.pc = "fail"]
    <2>1. /\ poll[p].pc = "publish" /\ poll' = [poll EXCEPT ![p] = b]
          /\ UNCHANGED <<configured, row, up, channel, wire, delivered, sent, history>>
          /\ faults' \in 0..MaxFaults
      BY <1>1, <1>5, MaxFaultsAssumption DEF PublishWithoutChannel, PublishThrows, env
    <2>2. /\ b \in PollType /\ b.pc = "fail" /\ b.todo = poll[p].todo /\ b.cur = poll[p].cur
          /\ b.expired = poll[p].expired
      BY <1>1 DEF PollType
    <2> HIDE DEF b
    <2>3. poll[p].cur \in poll[p].todo
      BY <2>1, HeldRow DEF Working
    <2>4. GoesOn(p, b)
      BY <1>1, <2>1, <2>2, <2>3 DEF GoesOn, Working
    <2> QED BY <2>4
  <1>6. CASE ReadAttempts(p)
    <2> DEFINE b == [poll[p] EXCEPT !.pc = "giveBack", !.seen = row[poll[p].cur].attempts]
    <2>1. /\ poll[p].pc = "fail" /\ poll' = [poll EXCEPT ![p] = b]
          /\ UNCHANGED <<row, wire, delivered, sent, history, env>>
      BY <1>1, <1>6 DEF ReadAttempts
    <2>2. poll[p].cur \in poll[p].todo /\ row[poll[p].cur].attempts \in Nat
      BY <2>1, HeldRow DEF Working, RowType
    <2>3. /\ b \in PollType /\ b.pc = "giveBack" /\ b.todo = poll[p].todo /\ b.cur = poll[p].cur
          /\ b.expired = poll[p].expired /\ b.seen = row[poll[p].cur].attempts
      BY <1>1, <2>2 DEF PollType
    <2> HIDE DEF b
    <2>4. GoesOn(p, b)
      BY <1>1, <2>1, <2>2, <2>3 DEF GoesOn, Working, env
    <2> QED BY <2>4
  <1> QED BY <1>3, <1>4, <1>5, <1>6

\* A claim takes effect and leaves batch p as b: going on with the row, or ended
\* because the answer was lost.
ClaimEffect(p, r, b) ==
  /\ poll[p].pc = "claim"
  /\ \/ row[r].status \in {"pending", "failed"}
     \/ row[r].status = "processing" /\ r \in poll[p].expired
  /\ row' = [row EXCEPT ![r] = Claimed(row[r])]
  /\ poll' = [q \in Polls |-> IF q = p THEN b
                             ELSE [poll[q] EXCEPT !.expired = poll[q].expired \ {r}]]
  /\ \/ b.pc = "idle"
     \/ b.pc = "publish" /\ b.cur = r
  /\ b.pc = "publish" => b.todo = poll[p].todo
  /\ b.todo \subseteq poll[p].todo /\ b.expired \subseteq poll[p].expired \ {r}
  /\ UNCHANGED <<configured, up, channel, wire, delivered, sent, history>>
  /\ faults' \in 0..MaxFaults

\* Claiming a row takes it from nobody, unless its lock ran out.
LEMMA ClaimKeepsInv ==
  ASSUME IndInv, NEW p \in Polls, NEW r \in poll[p].todo, NEW b \in PollType,
         ClaimEffect(p, r, b)
  PROVE  IndInv'
  <1> USE DEF IndInv, ClaimEffect, history
  <1>1. r \in Rows /\ row[r] \in RowType(Nat) /\ row \in [Rows -> RowType(Nat)]
    BY DEF TypeOK, PollType
  <1>2. /\ row' \in [Rows -> RowType(Nat)]
        /\ row'[r].status = "processing" /\ row'[r].lock = "fresh"
        /\ row'[r].attempts = row[r].attempts
        /\ \A q \in Rows \ {r} : row'[q] = row[q]
    BY <1>1, ClaimedRow
  <1>3. poll' \in [Polls -> PollType]
    <2>1. ASSUME NEW q \in Polls
          PROVE  [poll[q] EXCEPT !.expired = poll[q].expired \ {r}] \in PollType
      BY DEF TypeOK, PollType
    <2> QED BY <2>1
  <1>4. \A q \in Polls \ {p} : /\ poll'[q].pc = poll[q].pc /\ poll'[q].cur = poll[q].cur
                               /\ poll'[q].todo = poll[q].todo /\ poll'[q].seen = poll[q].seen
                               /\ poll'[q].expired = poll[q].expired \ {r}
    BY DEF TypeOK, PollType
  <1>5. poll'[p] = b
    OBVIOUS
  <1>6. r \notin disturbed => \A q \in Polls : ~Holds(q, r)
    <2> SUFFICES ASSUME NEW q \in Polls, r \notin disturbed, Holds(q, r) PROVE FALSE
      OBVIOUS
    <2>1. row[r].status = "processing" /\ row[r].lock = "fresh"
      BY <1>1 DEF LockInv
    <2>2. r \in poll[p].expired
      BY <2>1
    <2> QED BY <2>1, <2>2 DEF LockInv
  <1>7. /\ \A q \in Polls : poll[q].todo \subseteq Rows /\ poll'[q].todo \subseteq poll[q].todo
                            /\ poll[q].expired \subseteq Rows
                            /\ poll'[q].expired \subseteq poll[q].expired \ {r}
        /\ \A q \in Polls, s \in Rows : Holds(q, s)' => Holds(q, s) \/ (q = p /\ s = r)
        /\ \A q \in Polls, s \in Rows : Holds(q, s) /\ q # p => Holds(q, s)'
    <2>1. \A q \in Polls : poll[q].todo \subseteq Rows /\ poll'[q].todo \subseteq poll[q].todo
                           /\ poll[q].expired \subseteq Rows
                           /\ poll'[q].expired \subseteq poll[q].expired \ {r}
      BY <1>4, <1>5 DEF TypeOK, PollType
    <2>2. \A s \in Rows : Holds(p, s)' => s = r
      BY <1>5 DEF Holds
    <2>3. \A q \in Polls \ {p}, s \in Rows : Holds(q, s)' <=> Holds(q, s)
      BY <1>4 DEF Holds
    <2> QED BY <2>1, <2>2, <2>3
  <1>8. TypeOK'
    BY <1>2, <1>3 DEF TypeOK
  <1>9. BatchInv' /\ SentInv'
    BY <1>1, <1>2, <1>4, <1>5, <1>7 DEF BatchInv, SentInv, Working
  <1>10. AttemptsInv'
    <2>1. \A s \in Rows : row'[s].attempts = row[s].attempts
                          /\ (row'[s].status = row[s].status \/ s = r)
      BY <1>2
    <2>2. row[r].attempts < MaxAttempts
      BY <1>1 DEF AttemptsInv
    <2>3. \A q \in Polls : poll'[q].pc = "giveBack" =>
            /\ q # p /\ poll[q].pc = "giveBack" /\ poll[q].cur \in Rows
            /\ poll'[q].cur = poll[q].cur /\ poll'[q].seen = poll[q].seen
      BY <1>4, <1>5, <1>7 DEF BatchInv, Working
    <2> QED BY <1>2, <2>1, <2>2, <2>3 DEF AttemptsInv, AttemptsAreExact
  <1>11. LockInv'
    <2>1. \A q \in Polls : \A s \in poll'[q].expired :
            row'[s].status = "processing" => row'[s].lock = "stale"
      BY <1>2, <1>7 DEF LockInv
    <2>2. \A s \in Rows \ disturbed' : \A q \in Polls :
            Holds(q, s)' => /\ row'[s].status = "processing" /\ row'[s].lock = "fresh"
                            /\ \A t \in Polls : Holds(t, s)' => q = t
      BY <1>2, <1>6, <1>7 DEF LockInv
    <2> QED BY <2>1, <2>2 DEF LockInv
  <1>12. BackoffInv'
    <2>1. \A q \in Polls : poll'[q].pc # "idle" => poll[q].pc # "idle"
      BY <1>4, <1>5
    <2>2. ASSUME NEW q \in Polls, NEW s \in poll'[q].todo, poll'[q].pc # "idle", ~Holds(q, s)',
                 row'[s].status = "failed", ~row'[s].due
          PROVE  failedBy'[s] # q[1]
      <3>1. s \in poll[q].todo /\ s \in Rows /\ s # r /\ row'[s] = row[s]
        BY <1>2, <1>7, <2>2
      <3>2. ~Holds(q, s)
        <4>1. CASE q = p
          BY <4>1 DEF Holds
        <4>2. CASE q # p
          BY <1>7, <2>2, <3>1, <4>2
        <4> QED BY <4>1, <4>2
      <3> QED BY <2>1, <2>2, <3>1, <3>2 DEF BackoffInv
    <2> QED BY <2>1, <2>2 DEF BackoffInv
  <1> QED BY <1>8, <1>9, <1>10, <1>11, <1>12

\* The claim, also one that throws after it was applied.
LEMMA ClaimStepsKeepInv ==
  ASSUME IndInv, NEW p \in Polls, Claim(p) \/ ClaimThrows(p)
  PROVE  IndInv'
  <1> USE DEF IndInv
  <1>1. poll \in [Polls -> PollType] /\ poll[p].pc = "claim" /\ faults \in 0..MaxFaults
          /\ channel \in [Replicas -> {"open", "null"}]
    BY DEF TypeOK, Claim, ClaimThrows
  <1>2. CASE Claim(p)
    <2>1. PICK r \in poll[p].todo :
            /\ Claimable(row[r], r \in poll[p].expired)
            /\ row' = [row EXCEPT ![r] = Claimed(row[r])]
            /\ poll' = [Retaken(r) EXCEPT ![p].pc = "publish", ![p].cur = r]
      BY <1>2 DEF Claim
    <2> DEFINE b == [[poll[p] EXCEPT !.expired = poll[p].expired \ {r}]
                       EXCEPT !.pc = "publish", !.cur = r]
    <2>2. r \in Rows
      BY <1>1 DEF PollType
    <2>3. poll' = [q \in Polls |-> IF q = p THEN b
                                  ELSE [poll[q] EXCEPT !.expired = poll[q].expired \ {r}]]
      BY <2>1 DEF Retaken
    <2>4. /\ b \in PollType /\ b.pc = "publish" /\ b.cur = r /\ b.todo = poll[p].todo
          /\ b.expired = poll[p].expired \ {r}
      BY <1>1, <2>2 DEF PollType
    <2> HIDE DEF b
    <2>5. UNCHANGED <<configured, up, channel, faults, wire, delivered, sent, history>>
      BY <1>2 DEF Claim, env
    <2>6. ClaimEffect(p, r, b)
      BY <1>1, <2>1, <2>3, <2>4, <2>5 DEF ClaimEffect, Claimable
    <2> QED BY <2>4, <2>6, ClaimKeepsInv
  <1>3. CASE ClaimThrows(p)
    <2>1. PICK r \in poll[p].todo, applied \in BOOLEAN :
            /\ applied => Claimable(row[r], r \in poll[p].expired)
            /\ row' = IF applied THEN [row EXCEPT ![r] = Claimed(row[r])] ELSE row
            /\ poll' = [(IF applied THEN Retaken(r) ELSE poll) EXCEPT ![p] = IdlePoll]
      BY <1>3 DEF ClaimThrows
    <2>2. /\ UNCHANGED <<configured, up, channel, wire, delivered, sent, history>>
          /\ faults' \in 0..MaxFaults
      BY <1>1, <1>3, MaxFaultsAssumption DEF ClaimThrows
    <2>3. CASE applied
      <3>1. poll' = [q \in Polls |-> IF q = p THEN IdlePoll
                                    ELSE [poll[q] EXCEPT !.expired = poll[q].expired \ {r}]]
        BY <2>1, <2>3 DEF Retaken
      <3>2. ClaimEffect(p, r, IdlePoll)
        BY <1>1, <2>1, <2>2, <2>3, <3>1, IdleBatch DEF ClaimEffect, Claimable
      <3> QED BY <3>2, IdleBatch, ClaimKeepsInv
    <2>4. CASE ~applied
      <3>1. /\ wire \in [Replicas -> SUBSET Rows] /\ sent \subseteq Rows
            /\ \A x \in Replicas : wire[x] \subseteq sent
        BY DEF TypeOK, SentInv
      <3>2. GoesOn(p, IdlePoll)
        BY <1>1, <2>1, <2>2, <2>4, <3>1, IdleBatch DEF GoesOn, Working
      <3> QED BY <3>2, GoingOnKeepsInv
    <2> QED BY <2>3, <2>4
  <1> QED BY <1>2, <1>3

\* Batch p writes what came of the row it holds: published, or given back and counted.
\* It is done with the row then, or, told that the write failed, runs the catch branch.
OutcomeEffect(p, r, new, b) ==
  /\ row' = [row EXCEPT ![r] = new] /\ poll' = [poll EXCEPT ![p] = b]
  /\ \/ /\ new.status = "published" /\ r \in sent
        /\ new.attempts = row[r].attempts
        /\ UNCHANGED <<failures, failedBy>>
     \/ /\ new.status \in {"failed", "dead"}
        /\ new.status = "failed" => new.attempts < MaxAttempts
        /\ r \notin disturbed => new.attempts = row[r].attempts + 1
        /\ CountFailure(p, r)
  /\ b.todo \subseteq poll[p].todo /\ b.expired \subseteq poll[p].expired
  /\ \/ b.pc \in {"idle", "claim"} /\ r \notin b.todo /\ disturbed' = disturbed
     \/ /\ b.pc = "fail" /\ b.cur = r /\ r \in b.todo /\ new.status = "published"
        /\ disturbed' = disturbed \union {r}
  /\ UNCHANGED <<configured, up, channel, wire, delivered, sent>>
  /\ faults' \in 0..MaxFaults

\* A final update ends what its batch held.
LEMMA OutcomeKeepsInv ==
  ASSUME IndInv, NEW p \in Polls, NEW r \in Rows, NEW new \in RowType(Nat),
         NEW b \in PollType, Holds(p, r), OutcomeEffect(p, r, new, b)
  PROVE  IndInv'
  <1> USE DEF IndInv, OutcomeEffect
  <1>1. /\ row' \in [Rows -> RowType(Nat)] /\ poll' \in [Polls -> PollType]
        /\ row'[r] = new /\ \A q \in Rows \ {r} : row'[q] = row[q]
        /\ poll'[p] = b /\ \A q \in Polls \ {p} : poll'[q] = poll[q]
    BY DEF TypeOK
  <1>2. /\ failures' \in [Rows -> 0..MaxAttempts] /\ failures \in [Rows -> 0..MaxAttempts]
        /\ failedBy' \in [Rows -> Replicas \union {Nobody}]
        /\ \A q \in Rows \ {r} : failures'[q] = failures[q] /\ failedBy'[q] = failedBy[q]
    <2>1. p[1] \in Replicas
      BY DEF Polls
    <2>2. failures \in [Rows -> 0..MaxAttempts] /\ failedBy \in [Rows -> Replicas \union {Nobody}]
      BY DEF TypeOK
    <2>3. failures[r] < MaxAttempts => failures[r] + 1 \in 0..MaxAttempts
      BY <2>2, MaxAttemptsAssumption
    <2> QED BY <2>1, <2>2, <2>3 DEF CountFailure
  <1>3. poll[p].pc # "idle" /\ disturbed \subseteq disturbed' /\ disturbed' \subseteq Rows
    BY DEF Holds, TypeOK
  <1>4. TypeOK'
    BY <1>1, <1>2, <1>3 DEF TypeOK
  <1>5. \A q \in Polls : poll[q].todo \subseteq Rows /\ poll[q].expired \subseteq Rows
    BY DEF TypeOK, PollType
  <1>6. BatchInv' /\ SentInv'
    BY <1>1, <1>5 DEF BatchInv, SentInv, Working
  <1>7. /\ \A q \in Polls, s \in Rows : Holds(q, s)' => Holds(q, s)
        /\ r \notin disturbed' => \A q \in Polls : ~Holds(q, r)'
    <2>1. \A q \in Polls, s \in Rows : Holds(q, s)' => Holds(q, s)
      <3>1. \A s \in Rows : Holds(p, s)' => s = r
        BY <1>1 DEF Holds
      <3>2. \A q \in Polls \ {p}, s \in Rows : Holds(q, s)' => Holds(q, s)
        BY <1>1 DEF Holds
      <3> QED BY <3>1, <3>2
    <2>2. r \notin disturbed' => ~Holds(p, r)'
      BY <1>1 DEF Holds
    <2>3. r \notin disturbed' => \A q \in Polls : Holds(q, r) => q = p
      BY <1>3 DEF LockInv
    <2> QED BY <2>1, <2>2, <2>3
  <1>8. AttemptsInv'
    <2>1. r \notin disturbed' => row'[r].attempts = failures'[r]
      <3> SUFFICES ASSUME r \notin disturbed' PROVE row'[r].attempts = failures'[r]
        OBVIOUS
      <3>1. row[r].attempts = failures[r] /\ row[r].status = "processing"
              /\ row[r].attempts < MaxAttempts
        BY <1>3 DEF LockInv, AttemptsInv, AttemptsAreExact
      <3>2. failures[r] < MaxAttempts /\ failures \in [Rows -> 0..MaxAttempts]
        BY <1>2, <3>1
      <3> QED BY <1>1, <1>3, <3>1, <3>2 DEF CountFailure
    <2>2. ASSUME NEW q \in Polls, poll'[q].pc = "giveBack", poll'[q].cur \notin disturbed'
          PROVE  poll'[q].seen = row'[poll'[q].cur].attempts
      <3>1. q # p /\ poll'[q] = poll[q] /\ poll[q].cur \in Rows
        BY <1>1, <1>5, <2>2 DEF BatchInv, Working
      <3>2. Holds(q, poll[q].cur)'
        BY <2>2, <3>1 DEF Holds
      <3>3. poll[q].cur # r
        BY <1>7, <2>2, <3>1, <3>2
      <3> QED BY <1>1, <1>3, <2>2, <3>1, <3>3 DEF AttemptsInv
    <2> QED BY <1>1, <1>2, <1>3, <2>1, <2>2 DEF AttemptsInv, AttemptsAreExact
  <1>9. LockInv'
    BY <1>1, <1>3, <1>5, <1>7 DEF LockInv
  <1>10. BackoffInv'
    <2>1. \A q, o \in Polls : poll'[q].pc # "idle" /\ poll'[o].pc # "idle" /\ q[1] = o[1] => q = o
      BY <1>1, <1>3 DEF BackoffInv
    <2>2. ASSUME NEW q \in Polls, NEW s \in poll'[q].todo, poll'[q].pc # "idle", ~Holds(q, s)',
                 row'[s].status = "failed", ~row'[s].due
          PROVE  failedBy'[s] # q[1]
      <3>1. s \in poll[q].todo /\ s \in Rows
        BY <1>1, <1>5
      <3>2. CASE s # r
        <4>1. ~Holds(q, s)
          <5>1. CASE q = p
            BY <3>2, <5>1 DEF Holds
          <5>2. CASE q # p
            BY <1>1, <2>2, <5>2 DEF Holds
          <5> QED BY <5>1, <5>2
        <4>2. poll[q].pc # "idle" /\ row'[s] = row[s] /\ failedBy'[s] = failedBy[s]
          BY <1>1, <1>2, <1>3, <2>2, <3>1, <3>2
        <4> QED BY <2>2, <3>1, <4>1, <4>2 DEF BackoffInv
      <3>3. CASE s = r
        <4>1. q # p
          BY <1>1, <2>2, <3>3 DEF Holds
        <4>2. q[1] # p[1]
          BY <1>1, <1>3, <2>2, <4>1 DEF BackoffInv
        <4>3. failedBy'[r] = p[1]
          BY <1>1, <2>2, <3>3 DEF CountFailure, TypeOK
        <4> QED BY <3>3, <4>2, <4>3
      <3> QED BY <3>2, <3>3
    <2> QED BY <2>1, <2>2 DEF BackoffInv
  <1> QED BY <1>4, <1>6, <1>8, <1>9, <1>10

\* Recording the outcome: published, or given back to be tried again.
LEMMA RecordingKeepsInv ==
  ASSUME IndInv, NEW p \in Polls,
         MarkPublished(p) \/ MarkFailed(p) \/ MarkThrows(p) \/ FailThrows(p)
  PROVE  IndInv'
  <1> DEFINE r == poll[p].cur
  <1>1. /\ poll[p].pc \in {"mark", "fail", "giveBack"}
        /\ UNCHANGED <<configured, up, channel, wire, delivered, sent>>
        /\ faults' \in 0..MaxFaults
    BY MaxFaultsAssumption
    DEF IndInv, TypeOK, MarkPublished, MarkFailed, MarkThrows, FailThrows, env
  <1>2. /\ poll[p] \in PollType /\ r \in Rows /\ r \in poll[p].todo
        /\ row[r] \in RowType(Nat) /\ Holds(p, r)
    BY <1>1, HeldRow DEF Working
  <1>3. /\ Published(row[r]) \in RowType(Nat) /\ Published(row[r]).status = "published"
        /\ Published(row[r]).attempts = row[r].attempts
    BY <1>2, PublishedRow
  <1>4. poll[p].pc = "mark" => r \in sent
    BY DEF IndInv, SentInv
  <1>5. /\ FailedRow(p) \in RowType(Nat) /\ FailedRow(p).status \in {"failed", "dead"}
        /\ FailedRow(p).status = "failed" => FailedRow(p).attempts < MaxAttempts
        /\ poll[p].pc = "giveBack" /\ r \notin disturbed
             => FailedRow(p).attempts = row[r].attempts + 1
    <2>1. poll[p].seen + 1 \in Nat
      BY <1>2 DEF PollType
    <2>2. /\ FailedRow(p) \in RowType(Nat) /\ FailedRow(p).attempts = poll[p].seen + 1
          /\ FailedRow(p).status =
               IF poll[p].seen + 1 < MaxAttempts THEN "failed" ELSE "dead"
      BY <1>2, <2>1, FailedRowOp DEF FailedRow
    <2>3. poll[p].pc = "giveBack" /\ r \notin disturbed => poll[p].seen = row[r].attempts
      BY DEF IndInv, AttemptsInv
    <2> QED BY <2>2, <2>3
  <1>6. /\ Advanced(poll[p], r) \in PollType /\ Advanced(poll[p], r).pc \in {"idle", "claim"}
        /\ Advanced(poll[p], r).todo \subseteq poll[p].todo \ {r}
        /\ Advanced(poll[p], r).expired \subseteq poll[p].expired
    BY <1>2, AdvancedBatch
  <1>7. CASE MarkPublished(p)
    <2>1. OutcomeEffect(p, r, Published(row[r]), Advanced(poll[p], r))
      BY <1>1, <1>3, <1>4, <1>6, <1>7 DEF MarkPublished, OutcomeEffect, history
    <2> QED BY <1>2, <1>3, <1>6, <2>1, OutcomeKeepsInv
  <1>8. CASE MarkFailed(p)
    <2>1. OutcomeEffect(p, r, FailedRow(p), Advanced(poll[p], r))
      BY <1>1, <1>5, <1>6, <1>8 DEF MarkFailed, OutcomeEffect
    <2> QED BY <1>2, <1>5, <1>6, <2>1, OutcomeKeepsInv
  <1>9. CASE MarkThrows(p)
    <2> DEFINE b == [poll[p] EXCEPT !.pc = "fail"]
    <2>1. /\ b \in PollType /\ b.pc = "fail" /\ b.cur = r /\ b.todo = poll[p].todo
          /\ b.expired = poll[p].expired /\ poll' = [poll EXCEPT ![p] = b]
      BY <1>2, <1>9 DEF PollType, MarkThrows
    <2>2. PICK applied \in BOOLEAN :
            /\ row' = IF applied THEN [row EXCEPT ![r] = Published(row[r])] ELSE row
            /\ disturbed' = IF applied THEN disturbed \union {r} ELSE disturbed
      BY <1>9 DEF MarkThrows
    <2>3. poll[p].pc = "mark" /\ UNCHANGED <<failures, failedBy>>
      BY <1>9 DEF MarkThrows
    <2> HIDE DEF b
    <2>4. CASE applied
      <3>1. OutcomeEffect(p, r, Published(row[r]), b)
        BY <1>1, <1>2, <1>3, <1>4, <2>1, <2>2, <2>3, <2>4 DEF OutcomeEffect
      <3> QED BY <1>2, <1>3, <2>1, <3>1, OutcomeKeepsInv
    <2>5. CASE ~applied
      <3>1. GoesOn(p, b)
        BY <1>1, <1>2, <2>1, <2>2, <2>3, <2>5
        DEF GoesOn, Working, history, IndInv, TypeOK, SentInv
      <3> QED BY <3>1, GoingOnKeepsInv
    <2> QED BY <2>4, <2>5
  <1>10. CASE FailThrows(p)
    <2>1. PICK applied \in BOOLEAN :
            /\ applied => poll[p].pc = "giveBack"
            /\ row' = IF applied THEN [row EXCEPT ![r] = FailedRow(p)] ELSE row
            /\ IF applied THEN CountFailure(p, r) ELSE UNCHANGED <<failures, failedBy>>
      BY <1>10 DEF FailThrows
    <2>2. poll' = [poll EXCEPT ![p] = IdlePoll] /\ disturbed' = disturbed
      BY <1>10 DEF FailThrows
    <2>3. CASE applied
      <3>1. OutcomeEffect(p, r, FailedRow(p), IdlePoll)
        BY <1>1, <1>5, <2>1, <2>2, <2>3, IdleBatch DEF OutcomeEffect
      <3> QED BY <1>2, <1>5, <3>1, IdleBatch, OutcomeKeepsInv
    <2>4. CASE ~applied
      <3>1. GoesOn(p, IdlePoll)
        BY <1>1, <2>1, <2>2, <2>4, IdleBatch
        DEF GoesOn, Working, history, IndInv, TypeOK, SentInv
      <3> QED BY <3>1, GoingOnKeepsInv
    <2> QED BY <2>3, <2>4
  <1> QED BY <1>7, <1>8, <1>9, <1>10

\* A step that changes nothing keeps the invariant.
LEMMA StutteringKeepsInv == IndInv /\ UNCHANGED vars => IndInv'
  BY DEF vars, history, IndInv, TypeOK, BatchInv, SentInv, AttemptsInv, AttemptsAreExact,
         LockInv, BackoffInv, Holds

\* Every step keeps the invariant: by the kind of its action.
LEMMA NextKeepsInv == IndInv /\ [Next]_vars => IndInv'
  <1> SUFFICES ASSUME IndInv, [Next]_vars PROVE IndInv'
    OBVIOUS
  <1> QED BY StutteringKeepsInv, EnvironmentKeepsInv, CrashKeepsInv, ClockKeepsInv,
             BeginBatchKeepsInv, ReadingStepsKeepInv, ClaimStepsKeepInv, RecordingKeepsInv
          DEF Next, Step, Throw

-----------------------------------------------------------------------------
\* What follows for every instance

\* In every reachable state of user-service's publisher the inductive invariant holds: what
\* each batch works on, what was sent and counted, the lock, and who failed a row last.
THEOREM Invariance == Spec => []IndInv
  BY InitInv, NextKeepsInv, PTL DEF Spec

\* Every state of the publisher is well typed, and a failed row has attempts left.
THEOREM TypeCorrect == Spec => []TypeOK
  <1>1. IndInv => TypeOK
    BY DEF IndInv
  <1> QED BY <1>1, Invariance, PTL

\* The attempts column is the true number of failed attempts on every row that one
\* batch at a time worked on.
THEOREM AttemptsExact == Spec => []AttemptsAreExact
  <1>1. IndInv => AttemptsAreExact
    BY DEF IndInv, AttemptsInv
  <1> QED BY <1>1, Invariance, PTL

\* Only the claim gives a batch a row it did not hold, and the row is of its list.
LEMMA NewHolder ==
  ASSUME IndInv, [Next]_vars, NEW p \in Polls, NEW r \in Rows, Holds(p, r)', ~Holds(p, r)
  PROVE  poll[p].pc = "claim" /\ r \in poll[p].todo
  <1> USE DEF IndInv
  <1>1. poll \in [Polls -> PollType]
    BY DEF TypeOK
  <1>2. poll'[p].pc \in Working /\ poll'[p].cur = r
    BY DEF Holds, Working
  <1>3. ~(poll'[p].pc \in Working /\ poll[p].pc \in Working /\ poll'[p].cur = poll[p].cur)
    BY <1>2 DEF Holds, Working
  <1>4. poll'[p] # poll[p]
    BY <1>2, <1>3
  <1>5. ASSUME NEW x \in Replicas, Crash(x) PROVE FALSE
    BY <1>1, <1>2, <1>4, <1>5, IdleBatch DEF Crash, Working
  <1>6. ASSUME NEW q \in Polls, Step(q) \/ Throw(q), ~Claim(q), ~ClaimThrows(q) PROVE FALSE
    <2>1. PICK b : poll' = [poll EXCEPT ![q] = b]
                   /\ \/ b.pc \notin Working
                      \/ poll[q].pc \in Working /\ b.cur = poll[q].cur
      <3>1. CASE BeginBatch(q)
        <4> DEFINE b == [IdlePoll EXCEPT !.pc = "claim", !.todo = Batch(row, BatchSize),
                           !.expired = {s \in Batch(row, BatchSize) : LockRanOut(row[s])}]
        <4>1. poll' = [poll EXCEPT ![q] = b] /\ b.pc = "claim"
          BY <3>1 DEF BeginBatch, IdlePoll
        <4> HIDE DEF b
        <4> QED BY <4>1 DEF Working
      <3>2. CASE SkipRow(q) \/ MarkPublished(q) \/ MarkFailed(q)
        <4>1. PICK s \in Rows : poll' = [poll EXCEPT ![q] = Advanced(poll[q], s)]
          <5>1. CASE SkipRow(q)
            BY <1>1, <5>1 DEF SkipRow, PollType
          <5>2. CASE MarkPublished(q) \/ MarkFailed(q)
            <6>1. poll[q].pc \in Working
              BY <5>2 DEF MarkPublished, MarkFailed, Working
            <6> QED BY <5>2, <6>1, HeldRow DEF MarkPublished, MarkFailed
          <5> QED BY <3>2, <5>1, <5>2
        <4>2. Advanced(poll[q], s).pc \notin Working
          BY <1>1, AdvancedBatch DEF Working
        <4> QED BY <4>1, <4>2
      <3>3. CASE Publish(q)
        <4>1. PICK outcome \in {"mark", "fail"} : poll' = [poll EXCEPT ![q].pc = outcome]
          BY <3>3 DEF Publish
        <4> QED BY <1>1, <3>3, <4>1 DEF Publish, Working, PollType
      <3>4. CASE PublishWithoutChannel(q) \/ PublishThrows(q) \/ MarkThrows(q)
        BY <1>1, <3>4 DEF PublishWithoutChannel, PublishThrows, MarkThrows, Working, PollType
      <3>5. CASE ReadAttempts(q)
        <4> DEFINE b == [poll[q] EXCEPT !.pc = "giveBack", !.seen = row[poll[q].cur].attempts]
        <4>1. poll' = [poll EXCEPT ![q] = b] /\ poll[q].pc \in Working
          BY <1>1, <3>5 DEF ReadAttempts, Working
        <4>2. b.cur = poll[q].cur
          BY <1>1 DEF PollType
        <4> HIDE DEF b
        <4> QED BY <4>1, <4>2
      <3>6. CASE FailThrows(q)
        BY <3>6, IdleBatch DEF FailThrows, Working
      <3> QED BY <1>6, <3>1, <3>2, <3>3, <3>4, <3>5, <3>6 DEF Step, Throw
    <2>2. CASE q = p
      BY <1>1, <1>2, <1>3, <2>1, <2>2
    <2>3. CASE q # p
      BY <1>1, <1>4, <2>1, <2>3
    <2> QED BY <2>2, <2>3
  <1>7. ASSUME NEW q \in Polls, Claim(q)
        PROVE  poll[p].pc = "claim" /\ r \in poll[p].todo
    <2>1. PICK s \in poll[q].todo : poll' = [Retaken(s) EXCEPT ![q].pc = "publish", ![q].cur = s]
      BY <1>7 DEF Claim
    <2>2. CASE q = p
      <3>1. poll'[p].cur = s
        BY <1>1, <2>1, <2>2 DEF Retaken, PollType
      <3> QED BY <1>2, <1>7, <2>2, <3>1 DEF Claim
    <2>3. CASE q # p
      <3>1. poll'[p].pc = poll[p].pc /\ poll'[p].cur = poll[p].cur
        BY <1>1, <2>1, <2>3 DEF Retaken, PollType
      <3> QED BY <1>2, <1>3, <3>1
    <2> QED BY <2>2, <2>3
  <1>8. ASSUME NEW q \in Polls, ClaimThrows(q) PROVE FALSE
    <2>1. PICK s \in poll[q].todo, applied \in BOOLEAN :
            poll' = [(IF applied THEN Retaken(s) ELSE poll) EXCEPT ![q] = IdlePoll]
      BY <1>8 DEF ClaimThrows
    <2>2. poll'[p] = IdlePoll \/ (poll'[p].pc = poll[p].pc /\ poll'[p].cur = poll[p].cur)
      BY <1>1, <2>1 DEF Retaken, PollType
    <2> QED BY <1>2, <1>3, <2>2, IdleBatch DEF Working
  <1>9. \/ poll' = poll
        \/ \E x \in Replicas : Crash(x)
        \/ \E q \in Polls : Step(q) \/ Throw(q)
    BY DEF Next, vars, Start, ConnectionClosed, Deliver, Enqueue, LockExpires, RetryDue
  <1> QED BY <1>4, <1>5, <1>6, <1>7, <1>8, <1>9

\* No replica retries a row before the nextAttemptAt it set itself.
THEOREM Backoff == Spec => BackoffHonoured
  <1>1. ASSUME IndInv, [Next]_vars, NEW p \in Polls, NEW r \in Rows, Holds(p, r)',
               ~Holds(p, r), row[r].status = "failed", ~row[r].due
        PROVE  failedBy[r] # p[1]
    BY <1>1, NewHolder DEF IndInv, BackoffInv
  <1>2. IndInv /\ [Next]_vars =>
          [\A p \in Polls, r \in Rows :
             Holds(p, r)' /\ ~Holds(p, r) /\ row[r].status = "failed" /\ ~row[r].due
               => failedBy[r] # p[1]]_vars
    BY <1>1
  <1> QED BY <1>2, Invariance, PTL DEF Spec, BackoffHonoured

\* How a step changes the status of one row, and nothing else of the table.
LEMMA RowChange ==
  ASSUME IndInv, [Next]_vars
  PROVE  \/ \A r \in Rows : row'[r].status = row[r].status
         \/ \E r \in Rows :
              /\ \A q \in Rows \ {r} : row'[q].status = row[q].status
              /\ \/ row[r].status = "absent" /\ row'[r].status = "pending"
                 \/ /\ row[r].status \in {"pending", "failed", "processing"}
                    /\ row'[r].status = "processing"
                 \/ /\ row[r].status # "absent"
                    /\ \/ row'[r].status = "published" /\ r \in sent
                       \/ row'[r].status \in {"failed", "dead"}
              /\ UNCHANGED <<sent, delivered>>
  <1> USE DEF IndInv
  <1>1. CASE (\E x \in Replicas : Start(x) \/ Crash(x) \/ ConnectionClosed(x)) \/ UNCHANGED vars
    BY <1>1 DEF Start, Crash, ConnectionClosed, vars
  <1>2. ASSUME NEW r \in Rows, (\E x \in Replicas : Deliver(x, r)) \/ LockExpires(r) \/ RetryDue(r)
        PROVE  \A q \in Rows : row'[q].status = row[q].status
    BY <1>2 DEF Deliver, LockExpires, RetryDue, TypeOK, RowType
  <1>3. ASSUME NEW r \in Rows, Enqueue(r)
        PROVE  /\ \A q \in Rows \ {r} : row'[q].status = row[q].status
               /\ row[r].status = "absent" /\ row'[r].status = "pending"
               /\ UNCHANGED <<sent, delivered>>
    BY <1>3, NewRows DEF Enqueue, TypeOK
  <1>4. ASSUME NEW p \in Polls,
               \/ BeginBatch(p) \/ SkipRow(p) \/ Publish(p) \/ PublishWithoutChannel(p)
               \/ ReadAttempts(p) \/ PublishThrows(p)
        PROVE  row' = row
    BY <1>4 DEF BeginBatch, SkipRow, Publish, PublishWithoutChannel, ReadAttempts, PublishThrows
  <1>5. ASSUME NEW p \in Polls, Claim(p) \/ ClaimThrows(p)
        PROVE  /\ UNCHANGED <<sent, delivered>>
               /\ \/ row' = row
                  \/ \E r \in Rows : /\ row[r].status \in {"pending", "failed", "processing"}
                                     /\ row'[r].status = "processing"
                                     /\ \A q \in Rows \ {r} : row'[q].status = row[q].status
    <2>1. \/ row' = row
          \/ \E r \in poll[p].todo : /\ Claimable(row[r], r \in poll[p].expired)
                                     /\ row' = [row EXCEPT ![r] = Claimed(row[r])]
      BY <1>5, Zenon DEF Claim, ClaimThrows
    <2>2. ASSUME NEW r \in poll[p].todo, Claimable(row[r], r \in poll[p].expired),
                 row' = [row EXCEPT ![r] = Claimed(row[r])]
          PROVE  /\ r \in Rows /\ row[r].status \in {"pending", "failed", "processing"}
                 /\ row'[r].status = "processing"
                 /\ \A q \in Rows \ {r} : row'[q].status = row[q].status
      <3>1. r \in Rows /\ row[r] \in RowType(Nat)
        BY DEF TypeOK, PollType
      <3>2. row[r].status \in {"pending", "failed", "processing"}
        BY <2>2, Zenon DEF Claimable
      <3> QED BY <2>2, <3>1, <3>2, ClaimedRow DEF TypeOK
    <2>3. UNCHANGED <<sent, delivered>>
      BY <1>5 DEF Claim, ClaimThrows
    <2> QED BY <2>1, <2>2, <2>3
  <1>6. ASSUME NEW p \in Polls, MarkPublished(p) \/ MarkThrows(p) \/ MarkFailed(p) \/ FailThrows(p)
        PROVE  LET r == poll[p].cur IN
               /\ r \in Rows /\ row[r].status # "absent"
               /\ UNCHANGED <<sent, delivered>>
               /\ \/ row' = row
                  \/ /\ row'[r].status \in {"published", "failed", "dead"}
                     /\ row'[r].status = "published" => r \in sent
                     /\ \A q \in Rows \ {r} : row'[q].status = row[q].status
    <2> DEFINE r == poll[p].cur
    <2>1. poll[p].pc \in {"mark", "fail", "giveBack"} /\ UNCHANGED <<sent, delivered>>
      BY <1>6 DEF MarkPublished, MarkThrows, MarkFailed, FailThrows
    <2>2. /\ poll[p] \in PollType /\ r \in Rows /\ row[r].status # "absent"
          /\ row[r] \in RowType(Nat)
      BY <2>1, HeldRow DEF Working
    <2>3. CASE MarkPublished(p) \/ MarkThrows(p)
      <3>1. row' = row \/ row' = [row EXCEPT ![r] = Published(row[r])]
        BY <2>3, Zenon DEF MarkPublished, MarkThrows
      <3>2. r \in sent
        BY <2>3, <2>2 DEF SentInv, MarkPublished, MarkThrows
      <3>3. Published(row[r]).status = "published"
        BY <2>2, PublishedRow
      <3> HIDE DEF r
      <3> QED BY <2>1, <2>2, <3>1, <3>2, <3>3 DEF TypeOK, r
    <2>4. CASE MarkFailed(p) \/ FailThrows(p)
      <3>1. row' = row \/ row' = [row EXCEPT ![r] = FailedRow(p)]
        BY <2>4, Zenon DEF MarkFailed, FailThrows
      <3>2. FailedRow(p).status \in {"failed", "dead"}
        <4>1. poll[p].seen + 1 \in Nat
          BY <2>2 DEF PollType
        <4> QED BY <2>2, <4>1, FailedRowOp DEF FailedRow
      <3> HIDE DEF r
      <3> QED BY <2>1, <2>2, <3>1, <3>2 DEF TypeOK, r
    <2> QED BY <1>6, <2>3, <2>4
  <1> QED BY <1>1, <1>2, <1>3, <1>4, <1>5, <1>6 DEF Next, Step, Throw

\* The publisher implements the abstract outbox: hand over only what is committed,
\* record only what was handed over, whichever replica does it.
THEOREM Implementation == Spec => KeepsPromise
  <1> DEFINE Committed == {r \in Rows : row[r].status # "absent"}
             Recorded  == {r \in Rows : row[r].status = "published"}
  <1>1. Init => Promise!Init
    BY NewRows DEF Init, Promise!Init
  <1>2. IndInv /\ [Next]_vars => [Promise!Next]_(Promise!vars)
    <2> SUFFICES ASSUME IndInv, [Next]_vars
                 PROVE  Promise!Next \/ UNCHANGED <<Committed, sent, delivered, Recorded>>
      BY DEF Promise!vars
    <2>1. ASSUME NEW x \in Replicas, NEW r \in Rows, Deliver(x, r) PROVE Promise!Reach(r)
      <3>1. r \in sent /\ row' = row /\ sent' = sent /\ delivered' = delivered \union {r}
        BY <2>1 DEF Deliver, IndInv, SentInv
      <3> QED BY <3>1 DEF Promise!Reach
    <2>2. ASSUME NEW p \in Polls, Publish(p) PROVE \E r \in Rows : Promise!Hand(r)
      <3>1. /\ poll[p].cur \in Rows /\ row[poll[p].cur].status # "absent"
            /\ row' = row /\ delivered' = delivered /\ sent' = sent \union {poll[p].cur}
        BY <2>2, HeldRow DEF Publish, Working
      <3> QED BY <3>1 DEF Promise!Hand
    <2>3. ASSUME UNCHANGED <<sent, delivered>>
          PROVE  Promise!Next \/ UNCHANGED <<Committed, sent, delivered, Recorded>>
      <3>1. CASE \A r \in Rows : row'[r].status = row[r].status
        BY <2>3, <3>1
      <3>2. ASSUME NEW r \in Rows,
                   \A q \in Rows \ {r} : row'[q].status = row[q].status,
                   \/ row[r].status = "absent" /\ row'[r].status = "pending"
                   \/ /\ row[r].status \in {"pending", "failed", "processing"}
                      /\ row'[r].status = "processing"
                   \/ /\ row[r].status # "absent"
                      /\ \/ row'[r].status = "published" /\ r \in sent
                         \/ row'[r].status \in {"failed", "dead"}
            PROVE  Promise!Next \/ UNCHANGED <<Committed, sent, delivered, Recorded>>
        <4>1. CASE row[r].status = "absent" /\ row'[r].status = "pending"
          <5>1. Promise!Commit(r)
            BY <2>3, <3>2, <4>1 DEF Promise!Commit
          <5> QED BY <5>1 DEF Promise!Next
        <4>2. CASE /\ row[r].status \in {"pending", "failed", "processing"}
                   /\ row'[r].status = "processing"
          BY <2>3, <3>2, <4>2
        <4>3. CASE row[r].status # "absent" /\ row'[r].status = "published" /\ r \in sent
          <5>1. Promise!Record(r)
            BY <2>3, <3>2, <4>3 DEF Promise!Record
          <5> QED BY <5>1 DEF Promise!Next
        <4>4. CASE row[r].status # "absent" /\ row'[r].status \in {"failed", "dead"}
          <5>1. Promise!Withdraw(r)
            BY <2>3, <3>2, <4>4 DEF Promise!Withdraw
          <5> QED BY <5>1 DEF Promise!Next
        <4> QED BY <3>2, <4>1, <4>2, <4>3, <4>4
      <3> QED BY <3>1, <3>2, RowChange
    <2>4. \/ \E x \in Replicas, r \in Rows : Deliver(x, r)
          \/ \E p \in Polls : Publish(p)
          \/ UNCHANGED <<sent, delivered>>
      BY DEF Next, Step, Throw, vars, env, Start, Crash, ConnectionClosed, Enqueue,
             LockExpires, RetryDue, BeginBatch, Claim, SkipRow, PublishWithoutChannel,
             MarkPublished, ReadAttempts, MarkFailed, ClaimThrows, PublishThrows,
             MarkThrows, FailThrows
    <2> QED BY <2>1, <2>2, <2>3, <2>4 DEF Promise!Next
  <1> QED BY <1>1, <1>2, Invariance, PTL DEF Spec, KeepsPromise, Promise!Spec
=============================================================================
