------------------------------ MODULE OutboxRow ------------------------------
(***************************************************************************)
(* One row of an outbox_events table, as auth-service (MySQL) and          *)
(* user-service (Postgres) both keep it, and the statements the publishers *)
(* run on it.  Time is abstracted to what the statements compare:          *)
(*   due   nextAttemptAt is NULL or has passed                             *)
(*   lock  lockedAt: "none" (NULL), "fresh", or "stale" once it is older   *)
(*         than OUTBOX_LOCK_TIMEOUT_MS                                     *)
(* lockedBy, lastError and the JSON columns are written and never read by  *)
(* the publishers; they are left out.                                      *)
(*                                                                         *)
(* Throughout the project a definition whose comment is in parentheses is  *)
(* a plausible wrong version of the one below it; no specification uses it *)
(* and the properties are known to reject it.                              *)
(***************************************************************************)
EXTENDS Integers, FiniteSets

Statuses == {"absent", "pending", "processing", "published", "failed", "dead"}
Locks    == {"none", "fresh", "stale"}

\* "absent" is a row that no transaction has committed yet.
RowType(counts) ==
  [status : Statuses, attempts : counts, due : BOOLEAN, lock : Locks]

AbsentRow == [status |-> "absent", attempts |-> 0, due |-> TRUE, lock |-> "none"]

\* enqueueOutboxEvent: the column defaults give attempts 0 and two NULL dates.
PendingRow == [AbsentRow EXCEPT !.status = "pending"]

LockRanOut(rw) == rw.status = "processing" /\ rw.lock = "stale"

\* (A query that only looks for due rows.)
IsCandidateDueOnly(rw) == rw.status \in {"pending", "failed"} /\ rw.due

\* The candidate query: a due pending or failed row, or a lock that ran out.
IsCandidate(rw) ==
  \/ rw.status \in {"pending", "failed"} /\ rw.due
  \/ LockRanOut(rw)

\* ORDER BY created_at LIMIT OUTBOX_BATCH_SIZE; rows are numbered by created_at.
Batch(table, size) ==
  LET candidates == {r \in DOMAIN table : IsCandidate(table[r])}
  IN  {r \in candidates : Cardinality({q \in candidates : q < r}) < size}

\* (A claim keyed by id alone.)
ClaimableById(rw, staleAtStart) == rw.status # "absent"

\* The WHERE clause of the claim.  It does not look at nextAttemptAt, and its
\* staleCutoff was computed when the batch started: staleAtStart says that this
\* very lock had run out by then.
Claimable(rw, staleAtStart) ==
  \/ rw.status \in {"pending", "failed"}
  \/ rw.status = "processing" /\ staleAtStart

Claimed(rw)   == [rw EXCEPT !.status = "processing", !.lock = "fresh"]
Published(rw) == [rw EXCEPT !.status = "published", !.lock = "none"]

\* (A catch branch that gives up one attempt early, and one that never does.)
FailedEarly(rw, attempts, maxAttempts) ==
  LET dead == attempts + 1 >= maxAttempts
  IN  [rw EXCEPT !.status   = IF dead THEN "dead" ELSE "failed",
                 !.attempts = attempts,
                 !.due      = dead,
                 !.lock     = "none"]
FailedForever(rw, attempts, maxAttempts) ==
  [rw EXCEPT !.status = "failed", !.attempts = attempts, !.due = FALSE, !.lock = "none"]

\* The catch branch: dead at OUTBOX_MAX_ATTEMPTS, else failed with a backoff.
Failed(rw, attempts, maxAttempts) ==
  LET dead == attempts >= maxAttempts
  IN  [rw EXCEPT !.status   = IF dead THEN "dead" ELSE "failed",
                 !.attempts = attempts,
                 !.due      = dead,
                 !.lock     = "none"]
=============================================================================
