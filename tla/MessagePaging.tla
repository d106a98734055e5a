---------------------------- MODULE MessagePaging ----------------------------
(***************************************************************************)
(* How chat-service pages through a conversation                           *)
(* (messageRepository.findByConversation, messageService.listMessages): a  *)
(* page has the newest messages, newest first, that are older than the     *)
(* message a client names with "before", or younger than an instant it     *)
(* names with "after".  Times are equal within a millisecond, and ids are  *)
(* random: together they are a total order.                                *)
(***************************************************************************)
EXTENDS Integers, SequencesExt

NoMessage == [id |-> 0, time |-> -1]
NoTime    == -1

\* (A filter on createdAt alone.)
OlderByTime(m, c) == m.time < c.time

\* The $or of the before filter, which is the order of the sort.
Older(m, c) ==
  \/ m.time < c.time
  \/ m.time = c.time /\ m.id < c.id

\* The after filter has no id to break ties with.
Younger(m, time) == m.time > time

\* listMessages drops "after" when there is a "before".
Matching(store, before, after) ==
  IF before # NoMessage THEN {m \in store : Older(m, before)}
  ELSE IF after # NoTime THEN {m \in store : Younger(m, after)}
  ELSE store

\* The sort by createdAt and _id, both descending.
NewestFirst(m, n) ==
  \/ m.time > n.time
  \/ m.time = n.time /\ m.id > n.id

\* Of the messages found, those that the sort puts before m.
Before(found, m) == {n \in found : NewestFirst(n, m)}

\* The k-th of the messages found has k - 1 before it.
Ranked(found, k) == CHOOSE m \in found : Cardinality(Before(found, m)) = k - 1

\* (A page that is cut one message too soon.)
PageShort(store, before, after, limit) ==
  LET found == Matching(store, before, after)
  IN  [k \in 1..Min({Cardinality(found), limit - 1}) |-> Ranked(found, k)]

Page(store, before, after, limit) ==
  LET found == Matching(store, before, after)
  IN  [k \in 1..Min({Cardinality(found), limit}) |-> Ranked(found, k)]
=============================================================================
