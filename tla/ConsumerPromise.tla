--------------------------- MODULE ConsumerPromise ---------------------------
(***************************************************************************)
(* What an idempotent consumer promises the rest of the system, without    *)
(* records, locks, channels or replicas: an event is shown as processed,   *)
(* and its message acknowledged, only after the event was applied; a       *)
(* message is given up only when its event met trouble (a step that        *)
(* failed, a refusal by a constraint, a process that was going down); and  *)
(* what was settled stays settled.  A record may be withdrawn, and the     *)
(* event is then applied again: the promise says nothing about how often.  *)
(***************************************************************************)
CONSTANTS
  Events,
  Messages,
  EventOf       \* the event a message carries

VARIABLES
  applied,      \* events whose effect was committed at least once
  troubled,     \* events with a handler that failed, or would fail
  recorded,     \* events shown as processed
  acked,        \* messages the broker was told are done
  dropped       \* messages the broker was told to discard

vars == <<applied, troubled, recorded, acked, dropped>>

Init ==
  /\ applied = {}
  /\ troubled = {}
  /\ recorded = {}
  /\ acked = {}
  /\ dropped = {}

\* A handler works: it applies, records, withdraws a record, or fails.
Work ==
  /\ applied \subseteq applied'
  /\ troubled \subseteq troubled'
  /\ recorded' \ recorded \subseteq applied
  /\ UNCHANGED <<acked, dropped>>

\* The broker reads the answer to a message that has none yet.
Ack(m) ==
  /\ m \notin dropped
  /\ EventOf[m] \in applied
  /\ acked' = acked \union {m}
  /\ UNCHANGED <<applied, troubled, recorded, dropped>>

Drop(m) ==
  /\ m \notin acked
  /\ EventOf[m] \in troubled
  /\ dropped' = dropped \union {m}
  /\ UNCHANGED <<applied, troubled, recorded, acked>>

Next == Work \/ \E m \in Messages : Ack(m) \/ Drop(m)

Spec == Init /\ [][Next]_vars
=============================================================================
