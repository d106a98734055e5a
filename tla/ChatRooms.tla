----------------------------- MODULE ChatRooms -----------------------------
(***************************************************************************)
(* The realtime side of chat-service: websocket/conversation-socket.ts     *)
(* (conversation:join, conversation:leave, message:send) for the room of   *)
(* one conversation, on several nodes joined by Socket.IO's Redis adapter  *)
(* (websocket/socket-adapter.ts).                                          *)
(*                                                                         *)
(* A handler starts when its event arrives and runs to its first await;    *)
(* handlers of one socket are not queued behind each other.  Rooms, the    *)
(* adapter and the connection are Socket.IO's and external; storing the    *)
(* message is one step here and ChatConversations in full.                 *)
(***************************************************************************)
EXTENDS Naturals, FiniteSets

CONSTANTS
  Nodes,          \* processes of chat-service
  Sockets,        \* client connections
  NodeOf,         \* the node a socket is connected to
  Participants,   \* sockets whose user takes part in the conversation
  Requests,       \* events clients send
  MaxFaults       \* bound: lost connections, failed lookups and inserts

ASSUME NodeOfAssumption       == NodeOf \in [Sockets -> Nodes]
ASSUME ParticipantsAssumption == Participants \subseteq Sockets
ASSUME MaxFaultsAssumption    == MaxFaults \in Nat

NoSocket == "none"

VARIABLES
  connected,   \* sockets that are connected
  room,        \* sockets in conversation:<id>
  request,     \* per event: its handler's step
  stored,      \* events whose message is in the messages collection
  relay,       \* broadcasts on their way to another node, as <<event, node>>
  received,    \* how often a socket got message:new of an event, up to 2
  audience,    \* history: who a message is due to: the sockets in the room when it
               \* was emitted that have not left since, its sender included
  asked,       \* history: the last join or leave a socket sent
  overtaken,   \* history: sockets that sent a leave while a join was being looked up
  faults

roomVars == <<connected, room, request, stored, relay, received, audience, asked, overtaken,
          faults>>

NewRequest  == [pc |-> "idle", socket |-> NoSocket]
RequestType == [pc     : {"idle", "check", "persist", "done"},
                socket : Sockets \union {NoSocket}]

RoomsTypeOK ==
  /\ connected \subseteq Sockets
  /\ room \subseteq connected
  /\ request \in [Requests -> RequestType]
  /\ stored \subseteq Requests
  /\ relay \subseteq Requests \X Nodes
  /\ received \in [Requests -> [Sockets -> 0..2]]
  /\ audience \in [Requests -> SUBSET Sockets]
  /\ asked \in [Sockets -> {"leave", "join"}]
  /\ overtaken \subseteq Sockets
  /\ faults \in 0..MaxFaults

RoomsInit ==
  /\ connected = Sockets
  /\ room = {}
  /\ request = [q \in Requests |-> NewRequest]
  /\ stored = {}
  /\ relay = {}
  /\ received = [q \in Requests |-> [s \in Sockets |-> 0]]
  /\ audience = [q \in Requests |-> {}]
  /\ asked = [s \in Sockets |-> "leave"]
  /\ overtaken = {}
  /\ faults = 0

Starts(q, s, step) ==
  /\ request[q].pc = "idle"
  /\ s \in connected
  /\ request' = [request EXCEPT ![q] = [pc |-> step, socket |-> s]]

Ends(q) == request' = [request EXCEPT ![q].pc = "done"]

-----------------------------------------------------------------------------
\* conversation:join and conversation:leave

Join(q, s) ==
  /\ Starts(q, s, "check")
  /\ asked' = [asked EXCEPT ![s] = "join"]
  /\ UNCHANGED <<connected, room, stored, relay, received, audience, overtaken,
                 faults>>

\* (A join that adds a socket that is gone to the room.)
AdmitsGone(s) == s \in Participants

\* The conversation has been read; socket.join does nothing after a disconnect.
Admits(s) == s \in Participants /\ s \in connected

\* getConversationById has answered: the room is joined at once, or the join is
\* refused with a 403.
Joined(q) ==
  /\ request[q].pc = "check"
  /\ room' = IF Admits(request[q].socket) THEN room \union {request[q].socket} ELSE room
  /\ Ends(q)
  /\ UNCHANGED <<connected, stored, relay, received, audience, asked, overtaken,
                 faults>>

\* (A leave that is ignored.)
RoomWithoutIgnored(s) == room

RoomWithout(s) == room \ {s}

JoinsInFlight(s) ==
  {p \in Requests : request[p].pc = "check" /\ request[p].socket = s}

\* The handler of a leave never waits, nor stops a join that does.
Leave(q, s) ==
  /\ Starts(q, s, "done")
  /\ room' = RoomWithout(s)
  /\ overtaken' = IF JoinsInFlight(s) # {} THEN overtaken \union {s} ELSE overtaken
  /\ asked' = [asked EXCEPT ![s] = "leave"]
  /\ audience' = [p \in Requests |-> audience[p] \ {s}]
  /\ UNCHANGED <<connected, stored, relay, received, faults>>

-----------------------------------------------------------------------------
\* message:send

Send(q, s) ==
  /\ Starts(q, s, "persist")
  /\ UNCHANGED <<connected, room, stored, relay, received, audience, asked,
                 overtaken, faults>>

\* What event q adds to the counts when sockets get its message:new.
Gets(q, sockets) ==
  [received EXCEPT ![q] = [s \in Sockets |->
     IF s \in sockets /\ @[s] < 2 THEN @[s] + 1 ELSE @[s]]]

\* (The room's own sender counted in: io.to instead of socket.to.)
LocalAudienceWithSender(s) == {x \in room : NodeOf[x] = NodeOf[s]}

\* socket.to(room): the sockets of the sender's node, without the sender.
LocalAudience(s) == {x \in room : NodeOf[x] = NodeOf[s]} \ {s}

\* (No adapter: a broadcast stays on its node.)
RelaysOfLocal(q, s) == {}

\* The Redis adapter publishes the broadcast for every other node.
RelaysOf(q, s) == {q} \X (Nodes \ {NodeOf[s]})

\* createMessage has stored the message of a participant: the room gets it, on
\* this node and by the adapter on the others, and so does the sender, in the room
\* or not.
Persisted(q) ==
  LET s == request[q].socket
      sender == {s} \intersect connected IN
  /\ request[q].pc = "persist"
  /\ s \in Participants
  /\ stored' = stored \union {q}
  /\ received' = [Gets(q, LocalAudience(s)) EXCEPT ![q] =
       [x \in Sockets |-> IF x \in sender /\ @[x] < 2 THEN @[x] + 1 ELSE @[x]]]
  /\ relay' = relay \union RelaysOf(q, s)
  /\ audience' = [audience EXCEPT ![q] = room \union sender]
  /\ Ends(q)
  /\ UNCHANGED <<connected, room, asked, overtaken, faults>>

\* A sender who takes no part is refused.
SendRefused(q) ==
  /\ request[q].pc = "persist"
  /\ request[q].socket \notin Participants
  /\ Ends(q)
  /\ UNCHANGED <<connected, room, stored, relay, received, audience, asked,
                 overtaken, faults>>

\* Another node gets the broadcast, and emits to the sockets it has in the room.
Relay(q, n) ==
  /\ <<q, n>> \in relay
  /\ relay' = relay \ {<<q, n>>}
  /\ received' = Gets(q, {x \in room : NodeOf[x] = n})
  /\ UNCHANGED <<connected, room, request, stored, audience, asked, overtaken,
                 faults>>

-----------------------------------------------------------------------------
\* Faults

\* The lookup, or storing the message, fails; the message may be stored all the
\* same.  message:error and a negative ack; nothing goes to the room.
Fails(q) ==
  /\ request[q].pc \in {"check", "persist"} /\ faults < MaxFaults
  /\ \/ UNCHANGED stored
     \/ /\ request[q].pc = "persist" /\ request[q].socket \in Participants
        /\ stored' = stored \union {q}
  /\ Ends(q)
  /\ faults' = faults + 1
  /\ UNCHANGED <<connected, room, relay, received, audience, asked, overtaken>>

\* A socket leaves its rooms when it disconnects; its handlers go on.
Disconnect(s) ==
  /\ s \in connected /\ faults < MaxFaults
  /\ connected' = connected \ {s}
  /\ room' = room \ {s}
  /\ audience' = [q \in Requests |-> audience[q] \ {s}]
  /\ faults' = faults + 1
  /\ UNCHANGED <<request, stored, relay, received, asked, overtaken>>

-----------------------------------------------------------------------------
RoomsNext ==
  \/ \E q \in Requests, s \in Sockets : Join(q, s) \/ Leave(q, s) \/ Send(q, s)
  \/ \E q \in Requests : Joined(q) \/ Persisted(q) \/ SendRefused(q) \/ Fails(q)
  \/ \E q \in Requests, n \in Nodes : Relay(q, n)
  \/ \E s \in Sockets : Disconnect(s)

RoomsSpec == RoomsInit /\ [][RoomsNext]_roomVars

\* Awaits are answered, and Redis delivers what was published while nodes run.
RoomsFairness ==
  /\ \A q \in Requests : WF_roomVars(Joined(q)) /\ WF_roomVars(Persisted(q)) /\ WF_roomVars(SendRefused(q))
  /\ \A q \in Requests, n \in Nodes : WF_roomVars(Relay(q, n))

RoomsFairSpec == RoomsSpec /\ RoomsFairness

-----------------------------------------------------------------------------
\* Properties

\* docs/PLAN-chat-app.md:286, "Only after persistence succeeds does the server emit
\* message:new": on any node, through any reconnection, and to no socket twice, neither
\* to the sender, to whom it is emitted both as a member of the room and directly, nor to
\* one that the local broadcast and a relay could both reach.
ReceivedOnceStored ==
  \A q \in Requests, s \in Sockets :
    received[q][s] < 2 /\ (received[q][s] > 0 => q \in stored)

\* docs/PLAN-chat-app.md:251, room delivery is correct over several instances: who
\* was in the room when a message was emitted, and stays, gets it.
AudienceIsReached ==
  \A q \in Requests, s \in Sockets :
    s \in audience[q] ~> (received[q][s] > 0 \/ s \notin audience[q])

\* docs/PLAN-chat-app.md:191-193, a client leaves a room by conversation:leave:
\* a socket whose last request was a leave is out of the room, whatever handlers
\* and relays are still running, unless the leave overtook a join.
LeftUnlessOvertaken ==
  \A s \in Sockets \ overtaken :
    asked[s] = "leave" => s \notin room
=============================================================================
