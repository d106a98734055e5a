-------------------------- MODULE AuthOutboxProofs --------------------------
(***************************************************************************)
(* Theorems about AuthOutbox for any set of rows, any number of            *)
(* overlapping batches and any number of attempts and faults.              *)
(***************************************************************************)
EXTENDS AuthOutbox, TLAPS

USE DEF NoRow

-----------------------------------------------------------------------------
\* The inductive invariant, in named parts

\* A batch works on a row of its own list, and lists committed rows only.
BatchInv ==
  \A p \in Polls :
    /\ poll[p].pc \in {"publish", "mark", "fail"} => poll[p].cur \in poll[p].todo
    /\ \A r \in poll[p].todo : row[r].status # "absent"

\* What is recorded or travelling was written to a channel.
SentInv ==
  /\ wire \subseteq sent
  /\ \A r \in Rows : row[r].status = "published" => r \in sent
  /\ \A p \in Polls : poll[p].pc = "mark" => poll[p].cur \in sent

\* Counts never run ahead of real failures, and only a dead row is out of attempts.
AttemptsInv ==
  /\ \A r \in Rows :
       /\ row[r].attempts <= failures[r]
       /\ row[r].status \in {"absent", "pending", "processing", "failed"}
            => row[r].attempts < MaxAttempts
       /\ row[r].status = "dead" => failures[r] = MaxAttempts
  /\ \A p \in Polls : \A r \in Rows :
       poll[p].seen[r] <= failures[r] /\ poll[p].seen[r] < MaxAttempts

\* An undisturbed row has one holder at most and shows a lock that has not run
\* out; a lock seen running out at the start of a batch has not been renewed.
LockInv ==
  /\ \A p \in Polls : \A r \in poll[p].expired :
       row[r].status = "processing" => row[r].lock = "stale"
  /\ \A r \in Rows \ disturbed : \A p \in Polls :
       Holds(p, r) => /\ row[r].status = "processing" /\ row[r].lock = "fresh"
                      /\ \A q \in Polls : Holds(q, r) => p = q

IndInv == TypeOK /\ BatchInv /\ SentInv /\ AttemptsInv /\ LockInv
-----------------------------------------------------------------------------
\* What the operators on rows and batches do

\* The claim sets status and lock, and leaves the attempts.
LEMMA ClaimedRow ==
  ASSUME NEW rw \in RowType(0..MaxAttempts)
  PROVE  /\ Claimed(rw) \in RowType(0..MaxAttempts)
         /\ Claimed(rw).status = "processing" /\ Claimed(rw).lock = "fresh"
         /\ Claimed(rw).attempts = rw.attempts
  BY DEF Claimed, RowType, Statuses, Locks

\* The final update sets the status, and leaves the attempts.
LEMMA PublishedRow ==
  ASSUME NEW rw \in RowType(0..MaxAttempts)
  PROVE  /\ Published(rw) \in RowType(0..MaxAttempts)
         /\ Published(rw).status = "published"
         /\ Published(rw).attempts = rw.attempts
  BY DEF Published, RowType, Statuses, Locks

\* The catch branch gives a row up exactly when its attempts are used up.
LEMMA FailedRowOp ==
  ASSUME NEW rw \in RowType(0..MaxAttempts), NEW a \in 0..MaxAttempts
  PROVE  /\ Failed(rw, a, MaxAttempts) \in RowType(0..MaxAttempts)
         /\ Failed(rw, a, MaxAttempts).attempts = a
         /\ Failed(rw, a, MaxAttempts).status = IF a = MaxAttempts THEN "dead" ELSE "failed"
  <1>1. CASE a = MaxAttempts
    <2>1. Failed(rw, a, MaxAttempts) =
            [rw EXCEPT !.status = "dead", !.attempts = a, !.due = TRUE, !.lock = "none"]
      <3>1. (a >= MaxAttempts) = TRUE
        BY <1>1, MaxAttemptsAssumption
      <3> QED BY <3>1, Zenon DEF Failed
    <2> QED BY <1>1, <2>1 DEF RowType, Statuses, Locks
  <1>2. CASE a # MaxAttempts
    <2>1. Failed(rw, a, MaxAttempts) =
            [rw EXCEPT !.status = "failed", !.attempts = a, !.due = FALSE, !.lock = "none"]
      <3>1. (a >= MaxAttempts) = FALSE
        BY <1>2, MaxAttemptsAssumption
      <3> QED BY <3>1, Zenon DEF Failed
    <2> QED BY <1>2, <2>1 DEF RowType, Statuses, Locks
  <1> QED BY <1>1, <1>2

\* Rows before and after their enqueue have made no attempt.
LEMMA NewRows ==
  /\ AbsentRow \in RowType(0..MaxAttempts) /\ AbsentRow.status = "absent"
  /\ PendingRow \in RowType(0..MaxAttempts) /\ PendingRow.status = "pending"
  /\ AbsentRow.attempts = 0 /\ PendingRow.attempts = 0
  <1>1. 0 \in 0..MaxAttempts
    BY MaxAttemptsAssumption
  <1>2. AbsentRow \in RowType(0..MaxAttempts) /\ AbsentRow.status = "absent"
          /\ AbsentRow.attempts = 0
    BY <1>1, Zenon DEF AbsentRow, RowType, Statuses, Locks
  <1>3. PendingRow \in RowType(0..MaxAttempts) /\ PendingRow.status = "pending"
          /\ PendingRow.attempts = 0
    BY <1>2 DEF PendingRow, RowType, Statuses
  <1> QED BY <1>2, <1>3

\* A batch that is not running has nothing in hand.
LEMMA IdleBatch == IdlePoll \in PollType
  BY MaxAttemptsAssumption DEF IdlePoll, PollType

\* A batch that goes on lists fewer rows and remembers nothing new.
LEMMA AdvancedBatch ==
  ASSUME NEW b \in PollType, NEW r \in Rows
  PROVE  /\ Advanced(b, r) \in PollType
         /\ Advanced(b, r).pc \in {"idle", "claim"}
         /\ Advanced(b, r).todo \subseteq b.todo
         /\ Advanced(b, r).expired \subseteq b.expired
         /\ \A q \in Rows : Advanced(b, r).seen[q] \in {0, b.seen[q]}
  BY MaxAttemptsAssumption, IdleBatch DEF Advanced, PollType, IdlePoll

\* Every candidate of a batch is a row of the table that a statement may claim.
LEMMA BatchRows ==
  ASSUME NEW table \in [Rows -> RowType(0..MaxAttempts)]
  PROVE  /\ Batch(table, BatchSize) \subseteq Rows
         /\ \A r \in Batch(table, BatchSize) :
              table[r].status \in {"pending", "processing", "failed"}
  BY DEF Batch, IsCandidate, LockRanOut
-----------------------------------------------------------------------------
\* The invariant is inductive: one lemma for each group of actions

\* The invariant holds at the start.
LEMMA InitInv == Init => IndInv
  <1> SUFFICES ASSUME Init PROVE IndInv
    OBVIOUS
  <1> USE MaxAttemptsAssumption, MaxFaultsAssumption
  <1>1. TypeOK
    <2>1. 0 \in 0..MaxAttempts /\ 0 \in 0..MaxFaults
      OBVIOUS
    <2>2. row \in [Rows -> RowType(0..MaxAttempts)] /\ poll \in [Polls -> PollType]
      BY NewRows, IdleBatch DEF Init
    <2> QED BY <2>1, <2>2 DEF Init, TypeOK
  <1>2. BatchInv /\ SentInv /\ AttemptsInv /\ LockInv
    BY NewRows DEF Init, IdlePoll, BatchInv, SentInv, AttemptsInv, LockInv, Holds
  <1> QED BY <1>1, <1>2 DEF IndInv

\* The process, the broker and the clock.
LEMMA EnvironmentKeepsInv ==
  ASSUME IndInv,
         \/ Start \/ Crash \/ ConnectionClosed
         \/ \E r \in Rows : Deliver(r) \/ Enqueue(r) \/ LockExpires(r) \/ RetryDue(r)
  PROVE  IndInv'
  <1> USE MaxAttemptsAssumption, MaxFaultsAssumption DEF IndInv
  <1>1. CASE Start
    BY <1>1 DEF Start, TypeOK, BatchInv, SentInv, AttemptsInv, LockInv, Holds
  <1>2. CASE Crash
    <2>1. TypeOK'
      <3>1. faults' \in 0..MaxFaults
        BY <1>2 DEF Crash, TypeOK
      <3>2. poll' \in [Polls -> PollType]
        BY <1>2, IdleBatch DEF Crash
      <3> QED BY <1>2, <3>1, <3>2 DEF Crash, TypeOK
    <2>2. (BatchInv /\ SentInv /\ AttemptsInv /\ LockInv)'
      BY <1>2 DEF Crash, IdlePoll, TypeOK, BatchInv, SentInv, AttemptsInv, LockInv, Holds
    <2> QED BY <2>1, <2>2
  <1>3. CASE ConnectionClosed
    BY <1>3 DEF ConnectionClosed, TypeOK, BatchInv, SentInv, AttemptsInv, LockInv, Holds
  <1>4. ASSUME NEW r \in Rows, Deliver(r) PROVE IndInv'
    BY <1>4 DEF Deliver, env, TypeOK, BatchInv, SentInv, AttemptsInv, LockInv, Holds
  <1>5. ASSUME NEW r \in Rows, Enqueue(r) PROVE IndInv'
    <2>2. TypeOK'
      BY <1>5, NewRows DEF Enqueue, env, TypeOK
    <2>3. (BatchInv /\ SentInv /\ AttemptsInv /\ LockInv)'
      BY <1>5, NewRows DEF Enqueue, env, TypeOK, PollType, BatchInv, SentInv, AttemptsInv, LockInv, Holds
    <2> QED BY <2>2, <2>3
  <1>6. ASSUME NEW r \in Rows, LockExpires(r) PROVE IndInv'
    <2>1. TypeOK'
      BY <1>6 DEF LockExpires, env, TypeOK, RowType, Statuses, Locks
    <2>2. (BatchInv /\ SentInv /\ AttemptsInv)'
      <3>1. \A q \in Rows : /\ row'[q].status = row[q].status
                            /\ row'[q].attempts = row[q].attempts
        BY <1>6 DEF LockExpires, TypeOK, RowType
      <3>2. UNCHANGED <<poll, wire, sent, failures>>
        BY <1>6 DEF LockExpires
      <3>3. (BatchInv /\ SentInv)'
        BY <3>1, <3>2 DEF TypeOK, PollType, BatchInv, SentInv
      <3>4. AttemptsInv'
        BY <3>1, <3>2 DEF AttemptsInv
      <3> QED BY <3>3, <3>4
    <2>3. LockInv'
      BY <1>6 DEF LockExpires, env, TypeOK, RowType, LockInv, Holds
    <2> QED BY <2>1, <2>2, <2>3
  <1>7. ASSUME NEW r \in Rows, RetryDue(r) PROVE IndInv'
    <2>1. TypeOK'
      <3>1. [row[r] EXCEPT !.due = TRUE] \in RowType(0..MaxAttempts)
        BY DEF TypeOK, RowType
      <3> QED BY <1>7, <3>1 DEF RetryDue, env, TypeOK
    <2>2. /\ \A q \in Rows : /\ row'[q].status = row[q].status
                             /\ row'[q].attempts = row[q].attempts
                             /\ row'[q].lock = row[q].lock
          /\ UNCHANGED <<poll, wire, sent, failures, disturbed>>
      BY <1>7 DEF RetryDue, env, TypeOK, RowType
    <2>3. (BatchInv /\ SentInv)'
      BY <2>2 DEF TypeOK, PollType, BatchInv, SentInv
    <2>4. AttemptsInv'
      BY <2>2 DEF AttemptsInv
    <2>5. \A q \in Polls : poll[q].expired \subseteq Rows
      BY DEF TypeOK, PollType
    <2>6. LockInv'
      BY <2>2, <2>5 DEF LockInv, Holds
    <2> QED BY <2>1, <2>3, <2>4, <2>6
  <1> QED BY <1>1, <1>2, <1>3, <1>4, <1>5, <1>6, <1>7

\* A batch starts, takes a row or passes it over.
LEMMA BeginBatchKeepsInv ==
  ASSUME IndInv, NEW p \in Polls, BeginBatch(p)
  PROVE  IndInv'
  <1> USE MaxAttemptsAssumption DEF IndInv
  <1> DEFINE batch == Batch(row, BatchSize)
  <1>1. batch \subseteq Rows /\ \A r \in batch : row[r].status \in {"pending", "processing", "failed"}
    BY BatchRows DEF TypeOK
  <1>2. poll'[p].pc = "claim" /\ poll'[p].todo = batch /\ poll'[p].cur = NoRow
          /\ poll'[p].expired = {r \in batch : LockRanOut(row[r])}
          /\ poll'[p].seen = [r \in Rows |-> IF r \in batch THEN row[r].attempts ELSE 0]
    BY DEF BeginBatch, TypeOK
  <1>3. \A q \in Polls \ {p} : poll'[q] = poll[q]
    BY DEF BeginBatch, TypeOK
  <1>4. UNCHANGED <<row, wire, delivered, sent, failures, disturbed, up, channel, faults>>
    BY DEF BeginBatch, env
  <1>5. \A r \in batch : row[r].attempts \in 0..MaxAttempts /\ row[r].attempts < MaxAttempts
    BY <1>1 DEF TypeOK, RowType, AttemptsInv
  <1> HIDE DEF batch
  <1>6. TypeOK'
    <2>1. poll' \in [Polls -> PollType]
      <3>1. [r \in Rows |-> IF r \in batch THEN row[r].attempts ELSE 0] \in [Rows -> 0..MaxAttempts]
        BY <1>5
      <3> QED BY <3>1, <1>1 DEF BeginBatch, TypeOK, PollType, batch
    <2> QED BY <2>1, <1>4 DEF TypeOK
  <1>7. BatchInv'
    BY <1>1, <1>2, <1>3, <1>4 DEF BatchInv
  <1>8. SentInv'
    BY <1>2, <1>3, <1>4 DEF SentInv
  <1>9. AttemptsInv'
    BY <1>2, <1>3, <1>4, <1>5 DEF AttemptsInv, TypeOK, RowType
  <1>10. LockInv'
    BY <1>1, <1>2, <1>3, <1>4 DEF LockInv, LockRanOut, Holds
  <1> QED BY <1>6, <1>7, <1>8, <1>9, <1>10

\* A batch that does not get a row leaves it alone.
LEMMA SkipRowKeepsInv ==
  ASSUME IndInv, NEW p \in Polls, SkipRow(p)
  PROVE  IndInv'
  <1> USE MaxAttemptsAssumption DEF IndInv
  <1> PICK r \in poll[p].todo : poll' = [poll EXCEPT ![p] = Advanced(@, r)]
    BY DEF SkipRow
  <1>1. r \in Rows /\ poll[p] \in PollType
    BY DEF TypeOK, PollType
  <1>2. poll'[p] = Advanced(poll[p], r) /\ \A q \in Polls \ {p} : poll'[q] = poll[q]
    BY DEF TypeOK
  <1>3. UNCHANGED <<row, wire, delivered, sent, failures, disturbed, up, channel, faults>>
    BY DEF SkipRow, env
  <1>4. TypeOK'
    BY <1>1, <1>3, AdvancedBatch DEF TypeOK
  <1>5. (BatchInv /\ SentInv)'
    BY <1>1, <1>2, <1>3, AdvancedBatch DEF BatchInv, SentInv
  <1>6. AttemptsInv'
    <2>1. \A q \in Rows : failures[q] \in Nat
      BY DEF TypeOK
    <2>2. \A q \in Rows : poll'[p].seen[q] \in {0, poll[p].seen[q]}
      BY <1>1, <1>2, AdvancedBatch
    <2>3. \A b \in Polls, q \in Rows : poll'[b].seen[q] <= failures[q] /\ poll'[b].seen[q] < MaxAttempts
      BY <1>2, <2>1, <2>2 DEF AttemptsInv
    <2> QED BY <1>3, <2>3 DEF AttemptsInv
  <1>7. LockInv'
    BY <1>1, <1>2, <1>3, AdvancedBatch DEF LockInv, Holds
  <1> QED BY <1>4, <1>5, <1>6, <1>7

\* A claim takes effect and leaves batch p as batch: going on with the row (pc
\* "publish"), or ended because the answer was lost.
ClaimEffect(p, r, batch) ==
  /\ \/ row[r].status \in {"pending", "failed"}
     \/ row[r].status = "processing" /\ r \in poll[p].expired
  /\ row' = [row EXCEPT ![r] = Claimed(row[r])]
  /\ poll' = [q \in Polls |-> IF q = p THEN batch
                             ELSE [poll[q] EXCEPT !.expired = poll[q].expired \ {r}]]
  /\ \/ batch.pc = "idle"
     \/ batch.pc = "publish" /\ batch.cur = r /\ batch.todo = poll[p].todo
  /\ batch.todo \subseteq poll[p].todo
  /\ batch.expired \subseteq poll[p].expired \ {r}
  /\ \A q \in Rows : batch.seen[q] \in {0, poll[p].seen[q]}
  /\ UNCHANGED <<wire, sent, failures, disturbed>>

\* Claiming a row takes it from nobody, unless its lock ran out.
LEMMA ClaimKeepsInv ==
  ASSUME IndInv, NEW p \in Polls, NEW r \in poll[p].todo, NEW batch \in PollType,
         ClaimEffect(p, r, batch)
  PROVE  BatchInv' /\ SentInv' /\ AttemptsInv' /\ LockInv'
         /\ row' \in [Rows -> RowType(0..MaxAttempts)] /\ poll' \in [Polls -> PollType]
  <1> USE MaxAttemptsAssumption DEF IndInv, ClaimEffect
  <1>1. r \in Rows /\ poll[p] \in PollType /\ row[r] \in RowType(0..MaxAttempts)
    BY DEF TypeOK, PollType
  <1>2. row' \in [Rows -> RowType(0..MaxAttempts)]
    BY <1>1, ClaimedRow DEF TypeOK
  <1>3. row'[r].status = "processing" /\ row'[r].lock = "fresh"
          /\ row'[r].attempts = row[r].attempts
          /\ \A q \in Rows \ {r} : row'[q] = row[q]
    BY <1>1, ClaimedRow DEF TypeOK
  <1>4. poll' \in [Polls -> PollType]
    <2>1. ASSUME NEW q \in Polls
          PROVE  [poll[q] EXCEPT !.expired = poll[q].expired \ {r}] \in PollType
      BY DEF TypeOK, PollType
    <2> QED BY <2>1
  <1>5. \A q \in Polls \ {p} : /\ poll'[q].pc = poll[q].pc /\ poll'[q].cur = poll[q].cur
                               /\ poll'[q].todo = poll[q].todo /\ poll'[q].seen = poll[q].seen
                               /\ poll'[q].expired = poll[q].expired \ {r}
    BY DEF TypeOK, PollType
  <1>6. poll'[p] = batch
    OBVIOUS
  <1>7. BatchInv'
    BY <1>1, <1>3, <1>5, <1>6 DEF BatchInv, TypeOK
  <1>8. SentInv'
    <2>1. \A q \in Rows : row'[q].status = "published" => q \in sent'
      BY <1>3 DEF SentInv
    <2>2. \A q \in Polls : poll'[q].pc = "mark" => poll'[q].cur \in sent'
      BY <1>5, <1>6 DEF SentInv
    <2> QED BY <2>1, <2>2 DEF SentInv
  <1>9. AttemptsInv'
    <2>1. row[r].attempts < MaxAttempts
      BY <1>1 DEF AttemptsInv
    <2>2. \A s \in Rows :
            /\ row'[s].attempts <= failures'[s]
            /\ row'[s].status \in {"absent", "pending", "processing", "failed"}
                 => row'[s].attempts < MaxAttempts
            /\ row'[s].status = "dead" => failures'[s] = MaxAttempts
      BY <1>1, <1>3, <2>1 DEF AttemptsInv
    <2>3. \A q \in Polls : \A s \in Rows :
            poll'[q].seen[s] <= failures'[s] /\ poll'[q].seen[s] < MaxAttempts
      <3>1. \A q \in Polls : \A s \in Rows : poll'[q].seen[s] \in {0, poll[q].seen[s]}
        BY <1>5, <1>6
      <3>2. \A s \in Rows : failures'[s] \in Nat
        BY DEF TypeOK
      <3> QED BY <3>1, <3>2 DEF AttemptsInv
    <2> QED BY <2>2, <2>3 DEF AttemptsInv
  <1>10. \A q \in Polls : r \notin disturbed => ~Holds(q, r)
    <2> SUFFICES ASSUME NEW q \in Polls, r \notin disturbed, Holds(q, r) PROVE FALSE
      OBVIOUS
    <2>1. row[r].status = "processing" /\ row[r].lock = "fresh"
      BY <1>1 DEF LockInv
    <2>2. r \in poll[p].expired
      BY <2>1
    <2> QED BY <2>1, <2>2 DEF LockInv
  <1>11. LockInv'
    <2>1. \A q \in Polls : \A s \in poll'[q].expired :
            row'[s].status = "processing" => row'[s].lock = "stale"
      <3> SUFFICES ASSUME NEW q \in Polls, NEW s \in poll'[q].expired
                   PROVE  row'[s].status = "processing" => row'[s].lock = "stale"
        OBVIOUS
      <3>1. s \in poll[q].expired /\ s # r /\ s \in Rows
        BY <1>5, <1>6 DEF TypeOK, PollType
      <3> QED BY <1>3, <3>1 DEF LockInv
    <2>2. \A s \in Rows \ disturbed' : \A q \in Polls :
            Holds(q, s)' => /\ row'[s].status = "processing" /\ row'[s].lock = "fresh"
                            /\ \A t \in Polls : Holds(t, s)' => q = t
      <3>1. \A s \in Rows, q \in Polls : Holds(q, s)' => Holds(q, s) \/ (s = r /\ q = p)
        <4> SUFFICES ASSUME NEW s \in Rows, NEW q \in Polls, Holds(q, s)'
                     PROVE  Holds(q, s) \/ (s = r /\ q = p)
          OBVIOUS
        <4>1. CASE q = p
          BY <1>6, <4>1 DEF Holds
        <4>2. CASE q # p
          BY <1>5, <4>2 DEF Holds
        <4> QED BY <4>1, <4>2
      <3>2. \A q \in Polls : Holds(q, r)' /\ r \notin disturbed => q = p
        BY <1>1, <1>10, <3>1
      <3> QED BY <1>1, <1>3, <3>1, <3>2 DEF LockInv
    <2> QED BY <2>1, <2>2 DEF LockInv
  <1> QED BY <1>2, <1>4, <1>7, <1>8, <1>9, <1>11

\* Writing the frame is what the later mark stands on.
LEMMA PublishKeepsInv ==
  ASSUME IndInv, NEW p \in Polls, Publish(p)
  PROVE  IndInv'
  <1> USE DEF IndInv
  <1>1. PICK outcome \in {"mark", "fail"} : /\ poll' = [poll EXCEPT ![p].pc = outcome]
                                            /\ outcome = "mark" => channel # "null"
    BY DEF Publish, PublishOutcomes
  <1>2. poll[p] \in PollType /\ poll[p].pc = "publish" /\ poll[p].cur \in Rows
    BY DEF Publish, TypeOK, PollType, BatchInv
  <1>3. /\ poll'[p].pc = outcome /\ poll'[p].cur = poll[p].cur /\ poll'[p].todo = poll[p].todo
        /\ poll'[p].expired = poll[p].expired /\ poll'[p].seen = poll[p].seen
        /\ \A q \in Polls \ {p} : poll'[q] = poll[q]
    BY <1>1, <1>2 DEF TypeOK, PollType
  <1>4. UNCHANGED <<row, delivered, failures, disturbed, up, channel, faults>>
    BY DEF Publish, env
  <1>5. sent \subseteq sent' /\ wire' \subseteq sent' /\ sent' \subseteq Rows
          /\ (outcome = "mark" => poll[p].cur \in sent')
    <2>1. CASE channel = "null"
      BY <1>1, <2>1 DEF Publish, TypeOK, SentInv
    <2>2. CASE channel # "null"
      BY <1>2, <2>2 DEF Publish, TypeOK, SentInv
    <2> QED BY <2>1, <2>2
  <1>6. TypeOK'
    <2>1. poll' \in [Polls -> PollType]
      BY <1>1, <1>2 DEF TypeOK, PollType
    <2>2. wire' \subseteq Rows
      BY <1>5
    <2> QED BY <1>4, <1>5, <2>1, <2>2 DEF TypeOK
  <1>7. (BatchInv /\ SentInv)'
    BY <1>2, <1>3, <1>4, <1>5 DEF BatchInv, SentInv, PollType
  <1>8. AttemptsInv'
    BY <1>2, <1>3, <1>4 DEF AttemptsInv, PollType
  <1>9. LockInv'
    BY <1>2, <1>3, <1>4 DEF LockInv, Holds, PollType
  <1> QED BY <1>6, <1>7, <1>8, <1>9

\* Batch p writes the outcome of the row it holds (or leaves the row as it was)
\* and goes on as batch: to the next row, to its end, or to the catch branch.
OutcomeEffect(p, r, new, batch) ==
  /\ row' = [row EXCEPT ![r] = new]
  /\ poll' = [poll EXCEPT ![p] = batch]
  /\ new.status # "absent"
  /\ new.status = "published" => r \in sent
  /\ new.status \in {"pending", "processing", "failed"} => new.attempts < MaxAttempts
  /\ new.status = "dead" => failures'[r] = MaxAttempts
  /\ new.attempts <= failures'[r]
  /\ new.status = "processing" => new = row[r]
  /\ failures' \in [Rows -> 0..MaxAttempts]
  /\ \A q \in Rows : failures[q] <= failures'[q]
  /\ batch.todo \subseteq poll[p].todo
  /\ batch.expired \subseteq poll[p].expired
  /\ \A q \in Rows : batch.seen[q] \in {0, poll[p].seen[q]}
  /\ \/ batch.pc \in {"idle", "claim"} /\ disturbed' = disturbed
     \/ /\ batch.pc = "fail" /\ batch.cur = r /\ r \in batch.todo
        /\ disturbed' = IF new = row[r] THEN disturbed ELSE disturbed \union {r}
  /\ UNCHANGED <<wire, sent>>

\* A final update ends what its batch held.
LEMMA OutcomeKeepsInv ==
  ASSUME IndInv, NEW p \in Polls, NEW r \in Rows, NEW new \in RowType(0..MaxAttempts),
         NEW batch \in PollType, Holds(p, r), OutcomeEffect(p, r, new, batch)
  PROVE  BatchInv' /\ SentInv' /\ AttemptsInv' /\ LockInv'
         /\ row' \in [Rows -> RowType(0..MaxAttempts)] /\ poll' \in [Polls -> PollType]
  <1> USE MaxAttemptsAssumption DEF IndInv, OutcomeEffect
  <1>1. row' \in [Rows -> RowType(0..MaxAttempts)] /\ poll' \in [Polls -> PollType]
    BY DEF TypeOK
  <1>2. row'[r] = new /\ \A q \in Rows \ {r} : row'[q] = row[q]
    BY DEF TypeOK
  <1>3. poll'[p] = batch /\ \A q \in Polls \ {p} : poll'[q] = poll[q]
    BY DEF TypeOK
  <1>4. (BatchInv /\ SentInv)'
    BY <1>2, <1>3 DEF BatchInv, SentInv, TypeOK, PollType
  <1>5. AttemptsInv'
    <2>1. \A q \in Rows : /\ row'[q].attempts <= failures'[q]
                          /\ row'[q].status \in {"absent", "pending", "processing", "failed"}
                               => row'[q].attempts < MaxAttempts
                          /\ row'[q].status = "dead" => failures'[q] = MaxAttempts
      <3> TAKE q \in Rows
      <3>1. CASE q = r
        BY <1>2, <3>1 DEF RowType, Statuses
      <3>2. CASE q # r
        <4>1. row'[q] = row[q] /\ row[q].attempts \in 0..MaxAttempts
                /\ failures[q] \in 0..MaxAttempts /\ failures'[q] \in 0..MaxAttempts
          BY <1>2, <3>2 DEF TypeOK, RowType
        <4>2. failures[q] <= failures'[q]
          OBVIOUS
        <4> QED BY <4>1, <4>2 DEF AttemptsInv
      <3> QED BY <3>1, <3>2
    <2>2. \A q \in Polls : \A s \in Rows :
            poll'[q].seen[s] <= failures'[s] /\ poll'[q].seen[s] < MaxAttempts
      <3> TAKE q \in Polls
      <3> TAKE s \in Rows
      <3>1. poll'[q].seen[s] \in {0, poll[q].seen[s]}
        BY <1>3
      <3>2. poll[q].seen[s] \in 0..MaxAttempts /\ failures[s] \in 0..MaxAttempts
              /\ failures'[s] \in 0..MaxAttempts
        BY DEF TypeOK, PollType
      <3>3. poll[q].seen[s] <= failures[s] /\ poll[q].seen[s] < MaxAttempts
              /\ failures[s] <= failures'[s]
        BY DEF AttemptsInv
      <3> QED BY <3>1, <3>2, <3>3
    <2> QED BY <2>1, <2>2 DEF AttemptsInv
  <1>6. LockInv'
    BY <1>2, <1>3 DEF LockInv, Holds, TypeOK
  <1> QED BY <1>1, <1>4, <1>5, <1>6

\* A batch that works on a row holds a committed row.
LEMMA HeldRow ==
  ASSUME IndInv, NEW p \in Polls, poll[p].pc \in {"publish", "mark", "fail"}
  PROVE  /\ poll[p] \in PollType /\ poll[p].cur \in Rows /\ poll[p].cur \in poll[p].todo
         /\ row[poll[p].cur] \in RowType(0..MaxAttempts)
         /\ row[poll[p].cur].status # "absent"
         /\ Holds(p, poll[p].cur)
         /\ poll[p].seen[poll[p].cur] + 1 \in 0..MaxAttempts
         /\ poll[p].seen[poll[p].cur] <= failures[poll[p].cur]
  <1>1. poll[p] \in PollType /\ poll[p].cur \in Rows /\ poll[p].cur \in poll[p].todo
    BY DEF IndInv, TypeOK, PollType, BatchInv
  <1>2. poll[p].seen[poll[p].cur] \in 0..MaxAttempts
          /\ poll[p].seen[poll[p].cur] < MaxAttempts
          /\ poll[p].seen[poll[p].cur] <= failures[poll[p].cur]
    BY <1>1 DEF IndInv, PollType, AttemptsInv
  <1> QED BY <1>1, <1>2, MaxAttemptsAssumption DEF IndInv, TypeOK, BatchInv, Holds

\* The claim, also one that throws after it was applied.
LEMMA ClaimStepsKeepInv ==
  ASSUME IndInv, NEW p \in Polls, Claim(p) \/ ClaimThrows(p)
  PROVE  IndInv'
  <1>1. poll[p] \in PollType /\ poll[p].todo \subseteq Rows
    BY DEF IndInv, TypeOK, PollType
  <1>2. CASE Claim(p)
    <2>1. PICK r \in poll[p].todo :
            /\ Claimable(row[r], r \in poll[p].expired)
            /\ row' = [row EXCEPT ![r] = Claimed(@)]
            /\ poll' = [Retaken(r) EXCEPT ![p].pc = "publish", ![p].cur = r]
      BY <1>2, Zenon DEF Claim
    <2> DEFINE batch == [poll[p] EXCEPT !.expired = @ \ {r}, !.pc = "publish", !.cur = r]
    <2>2. batch \in PollType
      BY <1>1 DEF PollType
    <2>3. UNCHANGED <<wire, delivered, sent, failures, disturbed, up, channel, faults>>
      BY <1>2 DEF Claim, env
    <2>4. ClaimEffect(p, r, batch)
      <3>1. poll' = [q \in Polls |-> IF q = p THEN batch
                                     ELSE [poll[q] EXCEPT !.expired = poll[q].expired \ {r}]]
        BY <2>1 DEF Retaken
      <3>2. \/ row[r].status \in {"pending", "failed"}
            \/ row[r].status = "processing" /\ r \in poll[p].expired
        BY <2>1, Zenon DEF Claimable
      <3>3. /\ batch.pc = "publish" /\ batch.cur = r /\ batch.todo = poll[p].todo
            /\ batch.expired = poll[p].expired \ {r} /\ batch.seen = poll[p].seen
        BY <1>1 DEF PollType
      <3>4. row' = [row EXCEPT ![r] = Claimed(row[r])]
        BY <2>1, Zenon
      <3> HIDE DEF batch
      <3> QED BY <2>3, <3>1, <3>2, <3>3, <3>4 DEF ClaimEffect
    <2> HIDE DEF batch
    <2>5. BatchInv' /\ SentInv' /\ AttemptsInv' /\ LockInv'
          /\ row' \in [Rows -> RowType(0..MaxAttempts)] /\ poll' \in [Polls -> PollType]
      BY <2>2, <2>4, ClaimKeepsInv
    <2> QED BY <2>3, <2>5 DEF IndInv, TypeOK
  <1>3. CASE ClaimThrows(p)
    <2>1. UNCHANGED <<wire, delivered, sent, failures, disturbed, up, channel>>
            /\ faults' \in 0..MaxFaults
      BY <1>3, MaxFaultsAssumption DEF ClaimThrows, IndInv, TypeOK
    <2>2. \/ row' = row /\ poll' = [poll EXCEPT ![p] = IdlePoll]
          \/ \E r \in poll[p].todo : /\ Claimable(row[r], r \in poll[p].expired)
                                     /\ row' = [row EXCEPT ![r] = Claimed(row[r])]
                                     /\ poll' = [Retaken(r) EXCEPT ![p] = IdlePoll]
      BY <1>3, Zenon DEF ClaimThrows
    <2>3. CASE row' = row /\ poll' = [poll EXCEPT ![p] = IdlePoll]
      <3>1. poll' \in [Polls -> PollType]
        BY <2>3, IdleBatch DEF IndInv, TypeOK
      <3> QED BY <2>1, <2>3, <3>1, MaxAttemptsAssumption
            DEF IdlePoll, IndInv, TypeOK, BatchInv, SentInv, AttemptsInv, LockInv, Holds
    <2>4. ASSUME NEW r \in poll[p].todo,
                 Claimable(row[r], r \in poll[p].expired),
                 row' = [row EXCEPT ![r] = Claimed(row[r])],
                 poll' = [Retaken(r) EXCEPT ![p] = IdlePoll]
          PROVE  IndInv'
      <3>1. ClaimEffect(p, r, IdlePoll)
        <4>1. \/ row[r].status \in {"pending", "failed"}
              \/ row[r].status = "processing" /\ r \in poll[p].expired
          BY <2>4, Zenon DEF Claimable
        <4>2. poll' = [q \in Polls |-> IF q = p THEN IdlePoll
                                       ELSE [poll[q] EXCEPT !.expired = poll[q].expired \ {r}]]
          BY <2>4 DEF Retaken
        <4>3. /\ IdlePoll.pc = "idle"
              /\ IdlePoll.todo \subseteq poll[p].todo
              /\ IdlePoll.expired \subseteq poll[p].expired \ {r}
              /\ \A q \in Rows : IdlePoll.seen[q] \in {0, poll[p].seen[q]}
          BY DEF IdlePoll
        <4> QED BY <2>1, <2>4, <4>1, <4>2, <4>3 DEF ClaimEffect
      <3>2. BatchInv' /\ SentInv' /\ AttemptsInv' /\ LockInv'
            /\ row' \in [Rows -> RowType(0..MaxAttempts)] /\ poll' \in [Polls -> PollType]
        BY <3>1, IdleBatch, ClaimKeepsInv
      <3> QED BY <2>1, <3>2 DEF IndInv, TypeOK
    <2> QED BY <2>2, <2>3, <2>4
  <1> QED BY <1>2, <1>3

\* The row the catch branch writes, with its count.
LEMMA FailedWrite ==
  ASSUME IndInv, NEW p \in Polls, poll[p].pc = "fail", CountFailure(poll[p].cur)
  PROVE  /\ FailedRow(p) \in RowType(0..MaxAttempts)
         /\ FailedRow(p).status \in {"failed", "dead"}
         /\ FailedRow(p).status = "failed" => FailedRow(p).attempts < MaxAttempts
         /\ FailedRow(p).status = "dead" => failures'[poll[p].cur] = MaxAttempts
         /\ FailedRow(p).attempts <= failures'[poll[p].cur]
         /\ failures' \in [Rows -> 0..MaxAttempts]
         /\ \A q \in Rows : failures[q] <= failures'[q]
  <1> USE MaxAttemptsAssumption
  <1> DEFINE r == poll[p].cur
             a == poll[p].seen[r] + 1
  <1>1. r \in Rows /\ row[r] \in RowType(0..MaxAttempts) /\ a \in 0..MaxAttempts
          /\ poll[p].seen[r] <= failures[r] /\ poll[p].seen[r] \in Int
    BY HeldRow DEF IndInv, TypeOK, PollType
  <1>2. failures \in [Rows -> 0..MaxAttempts]
    BY DEF IndInv, TypeOK
  <1>3. failures' = [failures EXCEPT ![r] = IF @ < MaxAttempts THEN @ + 1 ELSE @]
    BY DEF CountFailure
  <1>4. FailedRow(p) = Failed(row[r], a, MaxAttempts)
    BY DEF FailedRow
  <1> HIDE DEF r, a
  <1>5. failures' \in [Rows -> 0..MaxAttempts] /\ \A q \in Rows : failures[q] <= failures'[q]
    BY <1>1, <1>2, <1>3
  <1>6. failures'[r] = IF failures[r] < MaxAttempts THEN failures[r] + 1 ELSE failures[r]
    BY <1>1, <1>2, <1>3
  <1>7. a <= failures'[r]
    BY <1>1, <1>2, <1>6 DEF a
  <1>8. FailedRow(p) \in RowType(0..MaxAttempts) /\ FailedRow(p).attempts = a
          /\ FailedRow(p).status = IF a = MaxAttempts THEN "dead" ELSE "failed"
    BY <1>1, <1>4, FailedRowOp
  <1> QED BY <1>1, <1>2, <1>5, <1>7, <1>8 DEF r

\* Marking a row published, also when the update throws.
LEMMA MarkStepsKeepInv ==
  ASSUME IndInv, NEW p \in Polls, MarkPublished(p) \/ MarkThrows(p)
  PROVE  IndInv'
  <1> DEFINE r == poll[p].cur
  <1>1. poll[p].pc = "mark"
    BY DEF MarkPublished, MarkThrows
  <1>2. /\ r \in Rows /\ Holds(p, r) /\ r \in sent
        /\ poll[p] \in PollType /\ poll[p].cur = r /\ r \in poll[p].todo
        /\ row[r] \in RowType(0..MaxAttempts) /\ row[r].status # "absent"
    BY <1>1, HeldRow DEF IndInv, SentInv
  <1>3. failures \in [Rows -> 0..MaxAttempts] /\ \A q \in Rows : failures[q] <= failures[q]
    BY MaxAttemptsAssumption DEF IndInv, TypeOK
  <1>4. /\ row[r].attempts <= failures[r]
        /\ row[r].status \in {"absent", "pending", "processing", "failed"}
             => row[r].attempts < MaxAttempts
        /\ row[r].status = "dead" => failures[r] = MaxAttempts
    BY <1>2 DEF IndInv, AttemptsInv
  <1> DEFINE new == Published(row[r])
  <1>5. new \in RowType(0..MaxAttempts) /\ new.status = "published" /\ new.attempts = row[r].attempts
    BY <1>2, PublishedRow
  <1> HIDE DEF r, new
  <1>6. CASE MarkPublished(p)
    <2> DEFINE batch == Advanced(poll[p], r)
    <2>1. /\ batch \in PollType /\ batch.pc \in {"idle", "claim"}
          /\ batch.todo \subseteq poll[p].todo /\ batch.expired \subseteq poll[p].expired
          /\ \A q \in Rows : batch.seen[q] \in {0, poll[p].seen[q]}
      BY <1>2, AdvancedBatch
    <2>2. row' = [row EXCEPT ![r] = new] /\ poll' = [poll EXCEPT ![p] = batch]
      BY <1>6, Zenon DEF MarkPublished, r, new
    <2>3. UNCHANGED <<wire, delivered, sent, failures, disturbed, up, channel, faults>>
      BY <1>6 DEF MarkPublished, env
    <2> HIDE DEF batch
    <2>4. OutcomeEffect(p, r, new, batch)
      BY <1>2, <1>3, <1>4, <1>5, <2>1, <2>2, <2>3 DEF OutcomeEffect
    <2>5. BatchInv' /\ SentInv' /\ AttemptsInv' /\ LockInv'
          /\ row' \in [Rows -> RowType(0..MaxAttempts)] /\ poll' \in [Polls -> PollType]
      BY <1>2, <1>5, <2>1, <2>4, OutcomeKeepsInv
    <2> QED BY <2>3, <2>5 DEF IndInv, TypeOK
  <1>7. CASE MarkThrows(p)
    <2> DEFINE batch == [poll[p] EXCEPT !.pc = "fail"]
    <2>1. /\ batch \in PollType /\ batch.pc = "fail" /\ batch.cur = r
          /\ batch.todo = poll[p].todo /\ batch.expired = poll[p].expired
          /\ batch.seen = poll[p].seen
      BY <1>2 DEF PollType
    <2>2. poll' = [poll EXCEPT ![p] = batch]
      BY <1>7, Zenon DEF MarkThrows
    <2>3. UNCHANGED <<wire, delivered, sent, failures, up, channel>> /\ faults' \in 0..MaxFaults
      BY <1>7, MaxFaultsAssumption DEF MarkThrows, IndInv, TypeOK
    <2> HIDE DEF batch
    <2>4. \/ row' = [row EXCEPT ![r] = new] /\ disturbed' = disturbed \union {r}
          \/ row' = row /\ disturbed' = disturbed
      BY <1>7, Zenon DEF MarkThrows, r, new
    <2>5. disturbed' \subseteq Rows
      BY <1>2, <2>4 DEF IndInv, TypeOK
    <2>6. CASE row' = [row EXCEPT ![r] = new] /\ disturbed' = disturbed \union {r}
      <3>1. CASE new # row[r]
        <4>1. OutcomeEffect(p, r, new, batch)
          BY <1>2, <1>3, <1>4, <1>5, <2>1, <2>2, <2>3, <2>6, <3>1 DEF OutcomeEffect
        <4>2. BatchInv' /\ SentInv' /\ AttemptsInv' /\ LockInv'
              /\ row' \in [Rows -> RowType(0..MaxAttempts)] /\ poll' \in [Polls -> PollType]
          BY <1>2, <1>5, <2>1, <4>1, OutcomeKeepsInv
        <4> QED BY <2>3, <2>5, <4>2 DEF IndInv, TypeOK
      <3>2. CASE new = row[r]
        <4>1. r \in disturbed
          BY <1>2, <1>5, <3>2 DEF IndInv, LockInv
        <4>2. row' = row /\ disturbed' = disturbed
          BY <2>6, <3>2, <4>1 DEF IndInv, TypeOK
        <4> QED BY <2>1, <2>2, <2>3, <2>5, <4>2, <1>2
              DEF IndInv, TypeOK, BatchInv, SentInv, AttemptsInv, LockInv, Holds, PollType
      <3> QED BY <3>1, <3>2
    <2>7. CASE row' = row /\ disturbed' = disturbed
      <3>1. poll' \in [Polls -> PollType]
        BY <2>1, <2>2 DEF IndInv, TypeOK
      <3> QED BY <1>2, <2>1, <2>2, <2>3, <2>7, <3>1
            DEF IndInv, TypeOK, BatchInv, SentInv, AttemptsInv, LockInv, Holds
    <2> QED BY <2>4, <2>6, <2>7
  <1> QED BY <1>6, <1>7

\* Marking a row failed or dead, also when the update throws.
LEMMA FailStepsKeepInv ==
  ASSUME IndInv, NEW p \in Polls, MarkFailed(p) \/ FailThrows(p)
  PROVE  IndInv'
  <1> DEFINE r == poll[p].cur
             new == FailedRow(p)
  <1>1. poll[p].pc = "fail"
    BY DEF MarkFailed, FailThrows
  <1>2. r \in Rows /\ Holds(p, r) /\ poll[p] \in PollType
    BY <1>1, HeldRow
  <1>3. ASSUME NEW batch \in PollType,
               row' = [row EXCEPT ![r] = new], poll' = [poll EXCEPT ![p] = batch],
               CountFailure(r), batch.pc \in {"idle", "claim"},
               batch.todo \subseteq poll[p].todo, batch.expired \subseteq poll[p].expired,
               \A q \in Rows : batch.seen[q] \in {0, poll[p].seen[q]},
               UNCHANGED <<wire, delivered, sent, disturbed, up, channel>>,
               faults' \in 0..MaxFaults
        PROVE  IndInv'
    <2>1. /\ new \in RowType(0..MaxAttempts)
          /\ new.status \in {"failed", "dead"}
          /\ new.status = "failed" => new.attempts < MaxAttempts
          /\ new.status = "dead" => failures'[r] = MaxAttempts
          /\ new.attempts <= failures'[r]
          /\ failures' \in [Rows -> 0..MaxAttempts]
          /\ \A q \in Rows : failures[q] <= failures'[q]
      BY <1>1, <1>3, FailedWrite
    <2> HIDE DEF r, new
    <2>2. OutcomeEffect(p, r, new, batch)
      BY <1>3, <2>1 DEF OutcomeEffect
    <2>3. BatchInv' /\ SentInv' /\ AttemptsInv' /\ LockInv'
          /\ row' \in [Rows -> RowType(0..MaxAttempts)] /\ poll' \in [Polls -> PollType]
      BY <1>2, <1>3, <2>1, <2>2, OutcomeKeepsInv
    <2> QED BY <1>3, <2>1, <2>3 DEF IndInv, TypeOK
  <1>4. /\ IdlePoll.pc = "idle" /\ IdlePoll.todo = {} /\ IdlePoll.expired = {}
        /\ \A q \in Rows : IdlePoll.seen[q] = 0
    BY DEF IdlePoll
  <1>5. CASE MarkFailed(p)
    <2> DEFINE batch == Advanced(poll[p], r)
    <2>1. /\ batch \in PollType /\ batch.pc \in {"idle", "claim"}
          /\ batch.todo \subseteq poll[p].todo /\ batch.expired \subseteq poll[p].expired
          /\ \A q \in Rows : batch.seen[q] \in {0, poll[p].seen[q]}
      BY <1>2, AdvancedBatch
    <2>2. row' = [row EXCEPT ![r] = new] /\ poll' = [poll EXCEPT ![p] = batch] /\ CountFailure(r)
      BY <1>5, Zenon DEF MarkFailed
    <2>3. UNCHANGED <<wire, delivered, sent, disturbed, up, channel, faults>>
            /\ faults \in 0..MaxFaults
      BY <1>5 DEF MarkFailed, env, IndInv, TypeOK
    <2> HIDE DEF batch, r, new
    <2> QED BY <1>3, <2>1, <2>2, <2>3
  <1>6. CASE FailThrows(p)
    <2>1. UNCHANGED <<wire, delivered, sent, disturbed, up, channel>> /\ faults' \in 0..MaxFaults
      BY <1>6, MaxFaultsAssumption DEF FailThrows, IndInv, TypeOK
    <2>2. poll' = [poll EXCEPT ![p] = IdlePoll]
      BY <1>6 DEF FailThrows
    <2>3. \/ row' = [row EXCEPT ![r] = new] /\ CountFailure(r)
          \/ row' = row /\ failures' = failures
      BY <1>6, Zenon DEF FailThrows
    <2>4. CASE row' = [row EXCEPT ![r] = new] /\ CountFailure(r)
      <3> HIDE DEF r, new
      <3> QED BY <1>3, <1>4, <2>1, <2>2, <2>4, IdleBatch
    <2>5. CASE row' = row /\ failures' = failures
      <3>1. poll' \in [Polls -> PollType]
        BY <2>2, IdleBatch DEF IndInv, TypeOK
      <3> QED BY <1>4, <2>1, <2>2, <2>5, <3>1, MaxAttemptsAssumption
            DEF IndInv, TypeOK, BatchInv, SentInv, AttemptsInv, LockInv, Holds
    <2> QED BY <2>3, <2>4, <2>5
  <1> QED BY <1>5, <1>6
-----------------------------------------------------------------------------
\* The theorems

\* Every step keeps the invariant: by the kind of its action.
LEMMA StepKeepsInv == IndInv /\ [Next]_vars => IndInv'
  <1> SUFFICES ASSUME IndInv, [Next]_vars PROVE IndInv'
    OBVIOUS
  <1>1. CASE Start \/ Crash \/ ConnectionClosed
    BY <1>1, EnvironmentKeepsInv
  <1>2. ASSUME NEW r \in Rows, Deliver(r) \/ Enqueue(r) \/ LockExpires(r) \/ RetryDue(r)
        PROVE  IndInv'
    BY <1>2, EnvironmentKeepsInv
  <1>3. ASSUME NEW p \in Polls, Step(p) PROVE IndInv'
    BY <1>3, BeginBatchKeepsInv, ClaimStepsKeepInv, SkipRowKeepsInv, PublishKeepsInv,
       MarkStepsKeepInv, FailStepsKeepInv DEF Step
  <1>4. ASSUME NEW p \in Polls, Throw(p) PROVE IndInv'
    BY <1>4, ClaimStepsKeepInv, MarkStepsKeepInv, FailStepsKeepInv DEF Throw
  <1>5. CASE UNCHANGED vars
    BY <1>5 DEF vars, IndInv, TypeOK, BatchInv, SentInv, AttemptsInv, LockInv, Holds
  <1> QED BY <1>1, <1>2, <1>3, <1>4, <1>5 DEF Next

\* The invariant holds of every behaviour.
THEOREM Invariance == Spec => []IndInv
  BY InitInv, StepKeepsInv, PTL DEF Spec

\* Every variable of a reachable state has its type.
THEOREM TypeCorrect == Spec => []TypeOK
  <1>1. IndInv => TypeOK
    BY DEF IndInv
  <1> QED BY <1>1, Invariance, PTL

\* A row recorded as published was written to a channel.
THEOREM PublishedSent == Spec => []PublishedWasSent
  <1>1. IndInv => PublishedWasSent
    BY DEF IndInv, SentInv, PublishedWasSent
  <1> QED BY <1>1, Invariance, PTL

\* A row is given up only after MaxAttempts real failures, however many batches
\* overwrite one another's count.
THEOREM DeadExhausted == Spec => []DeadOnlyAfterMaxAttempts
  <1>1. IndInv => DeadOnlyAfterMaxAttempts
    BY DEF IndInv, AttemptsInv, DeadOnlyAfterMaxAttempts
  <1> QED BY <1>1, Invariance, PTL

\* The claim excludes every other batch until the lock runs out under its holder.
THEOREM Exclusion == Spec => []SingleHolder
  <1>1. IndInv => SingleHolder
    BY DEF IndInv, LockInv, SingleHolder
  <1> QED BY <1>1, Invariance, PTL

\* How a step changes the status of one row, and nothing else of the table.
LEMMA RowChange ==
  ASSUME IndInv, [Next]_vars
  PROVE  \/ \A r \in Rows : row'[r].status = row[r].status
         \/ \E r \in Rows :
              /\ \A q \in Rows \ {r} : row'[q].status = row[q].status
              /\ \/ Enqueue(r)
                 \/ /\ row[r].status \in {"pending", "failed", "processing"}
                    /\ row'[r].status = "processing"
                 \/ /\ \E p \in Polls : Holds(p, r)
                    /\ row[r].status # "absent"
                    /\ \/ row'[r].status = "published" /\ r \in sent
                       \/ row'[r].status \in {"failed", "dead"}
              /\ UNCHANGED <<sent, delivered>>
  <1> USE DEF IndInv
  <1>1. CASE Start \/ Crash \/ ConnectionClosed \/ UNCHANGED vars
    BY <1>1 DEF Start, Crash, ConnectionClosed, vars
  <1>2. ASSUME NEW r \in Rows, Deliver(r) \/ LockExpires(r) \/ RetryDue(r)
        PROVE  \A q \in Rows : row'[q].status = row[q].status
    BY <1>2 DEF Deliver, LockExpires, RetryDue, TypeOK, RowType
  <1>3. ASSUME NEW r \in Rows, Enqueue(r)
        PROVE  (\A q \in Rows \ {r} : row'[q].status = row[q].status) /\ UNCHANGED <<sent, delivered>>
    BY <1>3 DEF Enqueue, TypeOK
  <1>4. ASSUME NEW p \in Polls, BeginBatch(p) \/ SkipRow(p) \/ Publish(p)
        PROVE  row' = row
    BY <1>4 DEF BeginBatch, SkipRow, Publish
  <1>5. ASSUME NEW p \in Polls, Claim(p) \/ ClaimThrows(p)
        PROVE  /\ UNCHANGED <<sent, delivered>>
               /\ \/ row' = row
                  \/ \E r \in Rows : /\ row[r].status \in {"pending", "failed", "processing"}
                                     /\ row'[r].status = "processing"
                                     /\ \A q \in Rows \ {r} : row'[q].status = row[q].status
    <2>1. \/ row' = row
          \/ \E r \in poll[p].todo : /\ Claimable(row[r], r \in poll[p].expired)
                                     /\ row' = [row EXCEPT ![r] = Claimed(row[r])]
      BY <1>5, Zenon DEF Claim, ClaimThrows
    <2>2. ASSUME NEW r \in poll[p].todo, Claimable(row[r], r \in poll[p].expired),
                 row' = [row EXCEPT ![r] = Claimed(row[r])]
          PROVE  /\ r \in Rows /\ row[r].status \in {"pending", "failed", "processing"}
                 /\ row'[r].status = "processing"
                 /\ \A q \in Rows \ {r} : row'[q].status = row[q].status
      <3>1. r \in Rows /\ row[r] \in RowType(0..MaxAttempts)
        BY DEF TypeOK, PollType
      <3>2. row[r].status \in {"pending", "failed", "processing"}
        BY <2>2, Zenon DEF Claimable
      <3> QED BY <2>2, <3>1, <3>2, ClaimedRow DEF TypeOK
    <2>3. UNCHANGED <<sent, delivered>>
      BY <1>5 DEF Claim, ClaimThrows
    <2> QED BY <2>1, <2>2, <2>3
  <1>6. ASSUME NEW p \in Polls, MarkPublished(p) \/ MarkThrows(p) \/ MarkFailed(p) \/ FailThrows(p)
        PROVE  LET r == poll[p].cur IN
               /\ r \in Rows /\ Holds(p, r) /\ row[r].status # "absent"
               /\ UNCHANGED <<sent, delivered>>
               /\ \/ row' = row
                  \/ /\ row'[r].status \in {"published", "failed", "dead"}
                     /\ row'[r].status = "published" => r \in sent
                     /\ \A q \in Rows \ {r} : row'[q].status = row[q].status
    <2> DEFINE r == poll[p].cur
    <2>1. poll[p].pc \in {"mark", "fail"} /\ UNCHANGED <<sent, delivered>>
      BY <1>6 DEF MarkPublished, MarkThrows, MarkFailed, FailThrows
    <2>2. /\ r \in Rows /\ Holds(p, r) /\ row[r].status # "absent"
          /\ row[r] \in RowType(0..MaxAttempts)
      BY <2>1, HeldRow
    <2>3. CASE MarkPublished(p) \/ MarkThrows(p)
      <3>1. row' = row \/ row' = [row EXCEPT ![r] = Published(row[r])]
        BY <2>3, Zenon DEF MarkPublished, MarkThrows
      <3>2. r \in sent
        BY <2>3, <2>2 DEF SentInv, MarkPublished, MarkThrows
      <3>3. Published(row[r]).status = "published"
        BY <2>2, PublishedRow
      <3> HIDE DEF r
      <3> QED BY <2>1, <2>2, <3>1, <3>2, <3>3 DEF TypeOK, r
    <2>4. CASE MarkFailed(p) \/ FailThrows(p)
      <3>1. row' = row \/ (row' = [row EXCEPT ![r] = FailedRow(p)] /\ CountFailure(r))
        BY <2>4, Zenon DEF MarkFailed, FailThrows
      <3>2. CountFailure(r) => FailedRow(p).status \in {"failed", "dead"}
        BY <2>4, FailedWrite DEF MarkFailed, FailThrows
      <3> HIDE DEF r
      <3> QED BY <2>1, <2>2, <3>1, <3>2 DEF TypeOK, r
    <2> QED BY <1>6, <2>3, <2>4
  <1> QED BY <1>1, <1>2, <1>3, <1>4, <1>5, <1>6 DEF Next, Step, Throw

\* A row only ever becomes disturbed.
LEMMA DisturbedGrows == [Next]_vars => disturbed \subseteq disturbed'
  BY DEF Next, Step, Throw, vars, env, Start, Crash, ConnectionClosed, Deliver, Enqueue,
         LockExpires, RetryDue, BeginBatch, Claim, SkipRow, Publish, MarkPublished,
         MarkFailed, ClaimThrows, MarkThrows, FailThrows

\* A published or dead row whose lock never ran out under its holder is final.
THEOREM SettledFinal == Spec => SettledIsFinal
  <1>1. ASSUME IndInv, [Next]_vars, NEW r \in Rows \ disturbed', Settled(r)
        PROVE  row'[r].status = row[r].status
    <2>1. r \in Rows \ disturbed
      BY <1>1, DisturbedGrows
    <2>2. \A p \in Polls : Holds(p, r) => row[r].status = "processing"
      BY <1>1, <2>1 DEF IndInv, LockInv
    <2>3. ~Enqueue(r)
      BY <1>1 DEF Settled, Enqueue
    <2> QED BY <1>1, <2>1, <2>2, <2>3, RowChange DEF Settled
  <1>2. IndInv /\ [Next]_vars =>
          [\A r \in Rows \ disturbed' : Settled(r) => row'[r].status = row[r].status]_vars
    BY <1>1
  <1> QED BY <1>2, Invariance, PTL DEF Spec, SettledIsFinal

\* The publisher implements the abstract outbox: hand over only what is
\* committed, record only what was handed over.
THEOREM Implementation == Spec => KeepsPromise
  <1> DEFINE Committed == {r \in Rows : row[r].status # "absent"}
             Recorded  == {r \in Rows : row[r].status = "published"}
  <1>1. Init => Promise!Init
    BY NewRows DEF Init, Promise!Init
  <1>2. IndInv /\ [Next]_vars => [Promise!Next]_(Promise!vars)
    <2> SUFFICES ASSUME IndInv, [Next]_vars
                 PROVE  Promise!Next \/ UNCHANGED <<Committed, sent, delivered, Recorded>>
      BY DEF Promise!vars
    <2>1. ASSUME NEW r \in Rows, Deliver(r) PROVE Promise!Reach(r)
      <3>1. r \in sent /\ row' = row /\ sent' = sent /\ delivered' = delivered \union {r}
        BY <2>1 DEF Deliver, IndInv, SentInv
      <3> QED BY <3>1 DEF Promise!Reach
    <2>2. ASSUME NEW p \in Polls, Publish(p)
          PROVE  \/ \E r \in Rows : Promise!Hand(r)
                 \/ UNCHANGED <<Committed, sent, delivered, Recorded>>
      <3> DEFINE r == poll[p].cur
      <3>1. r \in Rows /\ row[r].status # "absent" /\ row' = row /\ delivered' = delivered
        BY <2>2, HeldRow DEF Publish
      <3>2. sent' = sent \/ sent' = sent \union {r}
        BY <2>2 DEF Publish
      <3> HIDE DEF r
      <3>3. CASE sent' = sent
        BY <3>1, <3>3
      <3>4. CASE sent' = sent \union {r}
        BY <3>1, <3>4 DEF Promise!Hand
      <3> QED BY <3>2, <3>3, <3>4
    <2>3. ASSUME UNCHANGED <<sent, delivered>>
          PROVE  Promise!Next \/ UNCHANGED <<Committed, sent, delivered, Recorded>>
      <3>1. CASE \A r \in Rows : row'[r].status = row[r].status
        BY <2>3, <3>1
      <3>2. ASSUME NEW r \in Rows,
                   \A q \in Rows \ {r} : row'[q].status = row[q].status,
                   \/ Enqueue(r)
                   \/ /\ row[r].status \in {"pending", "failed", "processing"}
                      /\ row'[r].status = "processing"
                   \/ /\ row[r].status # "absent"
                      /\ \/ row'[r].status = "published" /\ r \in sent
                         \/ row'[r].status \in {"failed", "dead"}
            PROVE  Promise!Next \/ UNCHANGED <<Committed, sent, delivered, Recorded>>
        <4>1. CASE Enqueue(r)
          <5>1. row[r].status = "absent" /\ row'[r].status = "pending"
            BY <4>1, NewRows DEF Enqueue, IndInv, TypeOK
          <5>2. Promise!Commit(r)
            BY <2>3, <3>2, <5>1 DEF Promise!Commit
          <5> QED BY <5>2 DEF Promise!Next
        <4>2. CASE /\ row[r].status \in {"pending", "failed", "processing"}
                   /\ row'[r].status = "processing"
          BY <2>3, <3>2, <4>2
        <4>3. CASE row[r].status # "absent" /\ row'[r].status = "published" /\ r \in sent
          <5>1. Promise!Record(r)
            BY <2>3, <3>2, <4>3 DEF Promise!Record
          <5> QED BY <5>1 DEF Promise!Next
        <4>4. CASE row[r].status # "absent" /\ row'[r].status \in {"failed", "dead"}
          <5>1. Promise!Withdraw(r)
            BY <2>3, <3>2, <4>4 DEF Promise!Withdraw
          <5> QED BY <5>1 DEF Promise!Next
        <4> QED BY <3>2, <4>1, <4>2, <4>3, <4>4
      <3> QED BY <3>1, <3>2, RowChange
    <2>4. \/ \E r \in Rows : Deliver(r)
          \/ \E p \in Polls : Publish(p)
          \/ UNCHANGED <<sent, delivered>>
      BY DEF Next, Step, Throw, vars, env, Start, Crash, ConnectionClosed, Enqueue,
             LockExpires, RetryDue, BeginBatch, Claim, SkipRow, MarkPublished,
             MarkFailed, ClaimThrows, MarkThrows, FailThrows
    <2> QED BY <2>1, <2>2, <2>3, <2>4 DEF Promise!Next
  <1> QED BY <1>1, <1>2, Invariance, PTL DEF Spec, KeepsPromise, Promise!Spec
=============================================================================
