---------------------------- MODULE OutboxPromise ----------------------------
(***************************************************************************)
(* What a transactional outbox promises the rest of the system, without    *)
(* tables, polls, locks or channels: an event is handed to the broker only *)
(* after the business transaction that caused it committed, the broker has *)
(* only what it was handed, and an event is recorded as published only     *)
(* when it was handed over.  A record may be withdrawn (the event is then  *)
(* handed over again): delivery is at least once, never exactly once.      *)
(***************************************************************************)
CONSTANT Events

VARIABLES
  committed,   \* events whose business transaction committed
  handed,      \* events given to the broker client at least once
  reached,     \* events the broker accepted
  recorded     \* events the outbox shows as published

vars == <<committed, handed, reached, recorded>>

Init ==
  /\ committed = {}
  /\ handed = {}
  /\ reached = {}
  /\ recorded = {}

Commit(e) ==
  /\ e \notin committed
  /\ committed' = committed \union {e}
  /\ UNCHANGED <<handed, reached, recorded>>

Hand(e) ==
  /\ e \in committed
  /\ handed' = handed \union {e}
  /\ UNCHANGED <<committed, reached, recorded>>

Reach(e) ==
  /\ e \in handed
  /\ reached' = reached \union {e}
  /\ UNCHANGED <<committed, handed, recorded>>

Record(e) ==
  /\ e \in handed
  /\ recorded' = recorded \union {e}
  /\ UNCHANGED <<committed, handed, reached>>

Withdraw(e) ==
  /\ recorded' = recorded \ {e}
  /\ UNCHANGED <<committed, handed, reached>>

Next == \E e \in Events :
  Commit(e) \/ Hand(e) \/ Reach(e) \/ Record(e) \/ Withdraw(e)

Spec == Init /\ [][Next]_vars
=============================================================================
