---------------------------- MODULE UserProfiles ----------------------------
(***************************************************************************)
(* user-service's users table (db/models/user.model.ts) and the two calls  *)
(* that write it (services/user.service.ts): createUser for POST /users,   *)
(* which makes up an id, and syncFromAuthUser, which takes the account's.  *)
(* With the outbox on each is one transaction of the row and the           *)
(* user.created event; with it off the row is committed first and the      *)
(* event published as well as may be (publishUserCreatedEvent).            *)
(*                                                                         *)
(* A user is known by its id.  Its fields never change: a repeated sync    *)
(* writes what is there, so that a row is present or not.                  *)
(***************************************************************************)
EXTENDS Integers, FiniteSets

CONSTANTS
  Calls,        \* calls of the two operations; each writes an outbox row of its own
  Creations,    \* those that are createUser's; the others are syncFromAuthUser's
  UserOf,       \* the id a call writes: one nobody else has, or the account's
  EmailOf,      \* the email that belongs to an id
  MaxFaults     \* bound: crashes and failed statements

ASSUME CreationsAssumption == Creations \subseteq Calls
Users == {UserOf[t] : t \in Calls}
ASSUME UserOfAssumption ==
  \A t \in Creations, u \in Calls : UserOf[t] = UserOf[u] => t = u
ASSUME MaxFaultsAssumption == MaxFaults \in Nat

VARIABLES
  outboxEnabled, \* OUTBOX_ENABLED, which z.coerce.boolean() reads as JavaScript does:
                 \* every string but the empty one, "false" included, is true
  users,      \* the users table
  outbox,     \* calls whose row is in outbox_events
  announced,  \* calls whose event was written to a channel directly
  step,       \* per call: where it is
  answer,     \* per call: what its caller was told
  kept,       \* history: calls whose commit took effect although they failed
  faults

profileVars == <<outboxEnabled, users, outbox, announced, step, answer, kept, faults>>

Syncs == Calls \ Creations
Steps == {"idle", "write", "enqueue", "commit", "publish", "done"}

\* "409" and "500" are createUser's; a sync throws to its consumer.
Answers == {"none", "ok", "409", "500", "thrown"}

ProfilesTypeOK ==
  /\ outboxEnabled \in BOOLEAN
  /\ users \subseteq Users
  /\ outbox \subseteq Calls
  /\ announced \subseteq Calls
  /\ step \in [Calls -> Steps]
  /\ answer \in [Calls -> Answers]
  /\ \A t \in Calls : answer[t] # "none" => step[t] = "done"
  /\ kept \subseteq Calls
  /\ faults \in 0..MaxFaults

ProfilesInit ==
  /\ outboxEnabled \in BOOLEAN
  /\ users = {} /\ outbox = {} /\ announced = {} /\ kept = {}
  /\ step = [t \in Calls |-> "idle"]
  /\ answer = [t \in Calls |-> "none"]
  /\ faults = 0

Fault == faults < MaxFaults /\ faults' = faults + 1

Goes(t, s) == step' = [step EXCEPT ![t] = s] /\ UNCHANGED answer
Ends(t, a) == step' = [step EXCEPT ![t] = "done"] /\ answer' = [answer EXCEPT ![t] = a]

Begin(t) ==
  /\ step[t] = "idle"
  /\ Goes(t, "write")
  /\ UNCHANGED <<outboxEnabled, users, outbox, announced, kept, faults>>

-----------------------------------------------------------------------------
\* The table has two unique keys, id and email.

Clash(x, y) == x # y /\ EmailOf[x] = EmailOf[y]

\* (A wait for the row of the same id only.)
WaitsForId(t) ==
  \E u \in Calls \ {t} :
    outboxEnabled /\ step[u] \in {"enqueue", "commit"} /\ UserOf[u] = UserOf[t]

\* A write waits for open transactions that hold one of its keys.
Waits(t) ==
  \E u \in Calls \ {t} :
    /\ outboxEnabled /\ step[u] \in {"enqueue", "commit"}
    /\ UserOf[u] = UserOf[t] \/ Clash(UserOf[u], UserOf[t])

\* create's INSERT, or the upsert on the id: the email must not be another id's.
Admits(t) == \A x \in users : ~Clash(x, UserOf[t])

Write(t) ==
  /\ step[t] = "write" /\ ~Waits(t) /\ Admits(t)
  /\ users' = IF outboxEnabled THEN users ELSE users \union {UserOf[t]}
  /\ Goes(t, IF outboxEnabled THEN "enqueue" ELSE "publish")
  /\ UNCHANGED <<outboxEnabled, outbox, announced, kept, faults>>

\* The catch that maps UniqueConstraintError is around the return of the
\* transaction's promise, which is not awaited in it: only without the outbox does
\* the error pass there.
ConflictAnswer(t) ==
  IF t \notin Creations THEN "thrown" ELSE IF outboxEnabled THEN "500" ELSE "409"

Conflict(t) ==
  /\ step[t] = "write" /\ ~Waits(t) /\ ~Admits(t)
  /\ Ends(t, ConflictAnswer(t))
  /\ UNCHANGED <<outboxEnabled, users, outbox, announced, kept, faults>>

\* enqueueOutboxEvent in the transaction.
Enqueue(t) ==
  /\ step[t] = "enqueue"
  /\ Goes(t, "commit")
  /\ UNCHANGED <<outboxEnabled, users, outbox, announced, kept, faults>>

\* (A transaction that commits the user alone.)
CommittedAlone(t) == users' = users \union {UserOf[t]} /\ UNCHANGED outbox

Committed(t) == users' = users \union {UserOf[t]} /\ outbox' = outbox \union {t}

Commit(t) ==
  /\ step[t] = "commit"
  /\ Committed(t)
  /\ Ends(t, "ok")
  /\ UNCHANGED <<outboxEnabled, announced, kept, faults>>

\* (A call that is answered and goes on.)
PublishAgain(t) ==
  /\ step[t] = "publish"
  /\ announced' = announced \union {t}
  /\ answer' = [answer EXCEPT ![t] = "ok"]
  /\ UNCHANGED <<outboxEnabled, users, outbox, step, kept, faults>>

\* publishUserCreatedEvent, whose failures are logged: it writes the event to its
\* channel, or there is none.
Publish(t) ==
  /\ step[t] = "publish"
  /\ announced' = announced \union {t}
  /\ Ends(t, "ok")
  /\ UNCHANGED <<outboxEnabled, users, outbox, kept, faults>>

\* (A failed publication that reaches the caller.)
PublishNowhereThrows(t) ==
  /\ step[t] = "publish"
  /\ Ends(t, IF t \in Creations THEN "500" ELSE "thrown")
  /\ Fault
  /\ UNCHANGED <<outboxEnabled, users, outbox, announced, kept>>

PublishNowhere(t) ==
  /\ step[t] = "publish"
  /\ Ends(t, "ok")
  /\ Fault
  /\ UNCHANGED <<outboxEnabled, users, outbox, announced, kept>>

-----------------------------------------------------------------------------
\* A statement throws: the transaction is rolled back, or its commit had been done.
Throw(t) ==
  /\ step[t] \in {"write", "enqueue", "commit"}
  /\ Fault
  /\ Ends(t, IF t \in Creations THEN "500" ELSE "thrown")
  /\ \/ UNCHANGED <<users, outbox, kept>>
     \/ step[t] = "commit" /\ Committed(t) /\ kept' = kept \union {t}
     \/ /\ step[t] = "write" /\ ~outboxEnabled /\ Admits(t)
        /\ users' = users \union {UserOf[t]}
        /\ kept' = kept \union {t} /\ UNCHANGED outbox
  /\ UNCHANGED <<outboxEnabled, announced>>

\* The process ends: open transactions are rolled back, callers hear nothing.
Crash ==
  /\ Fault
  /\ \E t \in Calls : step[t] \notin {"idle", "done"}
  /\ step' = [t \in Calls |-> IF step[t] = "idle" THEN "idle" ELSE "done"]
  /\ UNCHANGED <<outboxEnabled, users, outbox, announced, answer, kept>>

Proceed(t) ==
  Write(t) \/ Conflict(t) \/ Enqueue(t) \/ Commit(t)

-----------------------------------------------------------------------------
\* Properties

\* The users table and the outbox tell the same story, whatever overlapped, failed or
\* crashed: an email has one user, and with the outbox on a user is in the table
\* exactly when an event about it will be published.
RowsAndEventsAgree ==
  /\ \A x, y \in users : ~Clash(x, y)
  /\ outboxEnabled => users = {UserOf[t] : t \in outbox}

\* What a caller hears is what happened: 201 left the user in the table, a conflict
\* or a failure left nothing of this call, except a commit whose failure is open.
AnswersAreTrue ==
  \A t \in Calls :
    /\ answer[t] = "ok" => UserOf[t] \in users
    /\ answer[t] \in {"409", "500", "thrown"} => t \in kept \/ t \notin outbox
    /\ answer[t] \in {"409", "500"} => t \in kept \/ UserOf[t] \notin users
=============================================================================
