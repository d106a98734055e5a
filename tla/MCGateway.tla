----------------------------- MODULE MCGateway -----------------------------
(***************************************************************************)
(* Gateway for TLC: what three clients want at a time.                     *)
(***************************************************************************)
EXTENDS Gateway

CONSTANTS ann, bob, cid

Want(kind, by, names) == [kind |-> kind, by |-> by, names |-> names, member |-> TRUE]
Nothing  == Want("none", ann, {})
Stranger == [Want("message", cid, {bob}) EXCEPT !.member = FALSE]

Clients(first, second, third) ==
  [i \in Intents |-> CASE i = 1 -> first [] i = 2 -> second [] i = 3 -> third]

Stored(some) == {[id |-> x, time |-> 0] : x \in some}

\* Groups within and beyond MaxIds, beside the caller's list.
Conversations ==
  [wanted : {Clients(Want("group", ann, {bob}), Want("list", ann, {ann}), Nothing),
             Clients(Want("group", ann, {bob, cid}), Want("list", ann, {}), Nothing),
             Clients(Want("group", ann, {ann}), Want("list", ann, {bob}),
                     Want("direct", ann, {ann}))},
   known : {Users}, messages : {{}}]

\* Two users who open a conversation with each other, before and after their sync.
DirectOnes ==
  [wanted : {Clients(Want("direct", ann, {bob}), Want("direct", bob, {ann}),
                     Want("get", ann, {bob}))},
   known : {{}, {ann}}, messages : {{}}]

\* A reader beside a sender, who may send twice, from messages stamped alike; and one who
\* does not belong.
Messaging ==
  [wanted : {Clients(Want("history", bob, {ann}), Want("message", ann, {bob}), Nothing)},
   known : {Users}, messages : {Stored({1, 2, 4}), Stored({2, 4}), Stored({})}]
   \union
  [wanted : {Clients(Nothing, Want("message", ann, {bob}), Stranger)},
   known : {Users}, messages : {{}}]

MCScenarios == Conversations \union DirectOnes \union Messaging
=============================================================================
