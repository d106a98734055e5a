--------------------------- MODULE EdgeProofs ---------------------------
(***************************************************************************)
(* Theorems about the two places where clients meet the system: ChatRooms, *)
(* by sockets, for any nodes, sockets, participants, events and number of  *)
(* faults; and Gateway, by HTTP, for any users, intents, scenarios, bounds *)
(* and size of a page.                                                     *)
(***************************************************************************)
EXTENDS ChatRooms, Gateway, FiniteSetTheorems, SequenceTheorems, TLAPS

-----------------------------------------------------------------------------
\* ChatRooms: the inductive invariant, in named parts

\* A broadcast is on its way to a node only for a stored message, whose handler has
\* ended, and a socket that has the message waits for no broadcast to its own node.
DeliveryInv ==
  \A q \in Requests :
    /\ \A n \in Nodes : <<q, n>> \in relay => q \in stored /\ request[q].pc = "done"
    /\ \A s \in Sockets :
         /\ received[q][s] < 2
         /\ received[q][s] > 0 =>
              q \in stored /\ request[q].pc = "done" /\ <<q, NodeOf[s]>> \notin relay

\* A join that is still being looked up is the last thing its socket asked for, or a
\* leave has overtaken it.
RoomInv ==
  /\ \A q \in Requests :
       request[q].pc = "check" =>
         request[q].socket \in overtaken \/ asked[request[q].socket] = "join"
  /\ LeftUnlessOvertaken

\* A handler that runs has a socket.
HandlerInv ==
  \A q \in Requests : request[q].pc \in {"check", "persist"} => request[q].socket \in Sockets

RoomsIndInv == RoomsTypeOK /\ HandlerInv /\ DeliveryInv /\ RoomInv

-----------------------------------------------------------------------------
\* ChatRooms: what the operators on counts do

\* An emission adds one to the counts of its event at the sockets it reaches.
LEMMA GetsOne ==
  ASSUME NEW q \in Requests, NEW sockets,
         received \in [Requests -> [Sockets -> 0..2]]
  PROVE  /\ Gets(q, sockets) \in [Requests -> [Sockets -> 0..2]]
         /\ \A p \in Requests \ {q} : Gets(q, sockets)[p] = received[p]
         /\ \A s \in Sockets : Gets(q, sockets)[q][s] =
              IF s \in sockets /\ received[q][s] < 2 THEN received[q][s] + 1 ELSE received[q][s]
  <1> DEFINE new == [s \in Sockets |->
               IF s \in sockets /\ received[q][s] < 2 THEN received[q][s] + 1 ELSE received[q][s]]
  <1>1. Gets(q, sockets) = [received EXCEPT ![q] = new]
    BY DEF Gets
  <1>2. new \in [Sockets -> 0..2]
    OBVIOUS
  <1> HIDE DEF new
  <1>3. /\ Gets(q, sockets) \in [Requests -> [Sockets -> 0..2]]
        /\ \A p \in Requests \ {q} : Gets(q, sockets)[p] = received[p]
        /\ Gets(q, sockets)[q] = new
    BY <1>1, <1>2
  <1> QED BY <1>3 DEF new

-----------------------------------------------------------------------------
\* ChatRooms: the invariant is inductive, one lemma for each group of actions

\* The invariant holds at the start.
LEMMA RoomsInitInv == RoomsInit => RoomsIndInv
  BY MaxFaultsAssumption
  DEF RoomsInit, RoomsIndInv, RoomsTypeOK, NewRequest, RequestType, HandlerInv, DeliveryInv, RoomInv,
      LeftUnlessOvertaken

\* Joining, and the two ways a handler comes to nothing.
LEMMA RoomStepsKeepInv ==
  ASSUME RoomsIndInv, NEW q \in Requests,
         \/ \E s \in Sockets : Join(q, s) \/ Leave(q, s) \/ Send(q, s)
         \/ Joined(q) \/ SendRefused(q) \/ Fails(q)
  PROVE  RoomsIndInv'
  <1> USE MaxFaultsAssumption DEF RoomsIndInv
  <1>1. ASSUME NEW s \in Sockets, Join(q, s) PROVE RoomsIndInv'
    <2> USE <1>1 DEF Join, Starts
    <2>1. RoomsTypeOK'
      BY DEF RoomsTypeOK, RequestType
    <2>2. (HandlerInv /\ DeliveryInv /\ RoomInv)'
      BY DEF RoomsTypeOK, RequestType, HandlerInv, DeliveryInv, RoomInv, LeftUnlessOvertaken
    <2> QED BY <2>1, <2>2
  <1>2. ASSUME NEW s \in Sockets, Leave(q, s) PROVE RoomsIndInv'
    <2> USE <1>2 DEF Leave, Starts
    <2>1. RoomsTypeOK'
      BY DEF RoomsTypeOK, RequestType, RoomWithout, JoinsInFlight
    <2>2. HandlerInv' /\ DeliveryInv'
      BY DEF RoomsTypeOK, RequestType, HandlerInv, DeliveryInv
    <2>3. RoomInv'
      BY DEF RoomsTypeOK, RequestType, RoomInv, LeftUnlessOvertaken, RoomWithout, JoinsInFlight
    <2> QED BY <2>1, <2>2, <2>3
  <1>3. ASSUME NEW s \in Sockets, Send(q, s) PROVE RoomsIndInv'
    <2> USE <1>3 DEF Send, Starts
    <2>1. RoomsTypeOK'
      BY DEF RoomsTypeOK, RequestType
    <2>2. (HandlerInv /\ DeliveryInv /\ RoomInv)'
      BY DEF RoomsTypeOK, RequestType, HandlerInv, DeliveryInv, RoomInv, LeftUnlessOvertaken
    <2> QED BY <2>1, <2>2
  <1>4. CASE Joined(q)
    <2> USE <1>4 DEF Joined, Ends
    <2>1. RoomsTypeOK'
      BY DEF RoomsTypeOK, RequestType, Admits
    <2>2. HandlerInv' /\ DeliveryInv'
      BY DEF RoomsTypeOK, RequestType, HandlerInv, DeliveryInv
    <2>3. RoomInv'
      BY DEF RoomsTypeOK, RequestType, HandlerInv, RoomInv, LeftUnlessOvertaken, Admits
    <2> QED BY <2>1, <2>2, <2>3
  <1>5. CASE SendRefused(q)
    <2> USE <1>5 DEF SendRefused, Ends
    <2>1. RoomsTypeOK'
      BY DEF RoomsTypeOK, RequestType
    <2>2. (HandlerInv /\ DeliveryInv /\ RoomInv)'
      BY DEF RoomsTypeOK, RequestType, HandlerInv, DeliveryInv, RoomInv, LeftUnlessOvertaken
    <2> QED BY <2>1, <2>2
  <1>6. CASE Fails(q)
    <2> USE <1>6 DEF Fails, Ends
    <2>1. RoomsTypeOK'
      BY DEF RoomsTypeOK, RequestType
    <2>2. (HandlerInv /\ DeliveryInv /\ RoomInv)'
      BY DEF RoomsTypeOK, RequestType, HandlerInv, DeliveryInv, RoomInv, LeftUnlessOvertaken
    <2> QED BY <2>1, <2>2
  <1> QED BY <1>1, <1>2, <1>3, <1>4, <1>5, <1>6

\* The message is stored and emitted: on the sender's node at once, to the others
\* through the adapter.
LEMMA PersistedKeepsInv ==
  ASSUME RoomsIndInv, NEW q \in Requests, Persisted(q)
  PROVE  RoomsIndInv'
  <1> USE DEF RoomsIndInv
  <1> DEFINE s == request[q].socket
             local == Gets(q, LocalAudience(s))
             sender == {s} \intersect connected
             new == [x \in Sockets |->
                       IF x \in sender /\ local[q][x] < 2 THEN local[q][x] + 1 ELSE local[q][x]]
  <1>1. s \in Sockets /\ request[q].pc = "persist" /\ request' = [request EXCEPT ![q].pc = "done"]
    BY DEF Persisted, Ends, HandlerInv
  <1>2. \A x \in Sockets : received[q][x] = 0
    <2>1. received \in [Requests -> [Sockets -> 0..2]]
      BY DEF RoomsTypeOK
    <2>2. \A x \in Sockets : ~(received[q][x] > 0)
      BY <1>1 DEF DeliveryInv
    <2> QED BY <2>1, <2>2
  <1>3. /\ local \in [Requests -> [Sockets -> 0..2]]
        /\ \A p \in Requests \ {q} : local[p] = received[p]
        /\ \A x \in Sockets : local[q][x] = IF x \in LocalAudience(s) THEN 1 ELSE 0
    BY <1>2, GetsOne DEF RoomsTypeOK
  <1>4. received' = [local EXCEPT ![q] = new]
    BY DEF Persisted
  <1>5. /\ new \in [Sockets -> 0..1]
        /\ \A x \in Sockets : new[x] > 0 => NodeOf[x] = NodeOf[s]
    BY <1>3 DEF LocalAudience
  <1> HIDE DEF new, local, s
  <1>6. /\ received' \in [Requests -> [Sockets -> 0..2]]
        /\ \A p \in Requests \ {q} : received'[p] = received[p]
        /\ received'[q] = new
    BY <1>3, <1>4, <1>5
  <1>7. RoomsTypeOK'
    BY <1>1, <1>6, NodeOfAssumption DEF Persisted, RoomsTypeOK, RequestType, RelaysOf, s
  <1>8. HandlerInv'
    BY <1>1 DEF RoomsTypeOK, RequestType, HandlerInv
  <1>9. DeliveryInv'
    <2>1. relay' = relay \union RelaysOf(q, s) /\ stored' = stored \union {q}
      BY DEF Persisted, s
    <2>2. request'[q].pc = "done" /\ \A p \in Requests \ {q} : request'[p] = request[p]
      BY <1>1 DEF RoomsTypeOK, RequestType
    <2>3. \A n \in Nodes : <<q, n>> \notin relay
      BY <1>1 DEF DeliveryInv
    <2>4. ASSUME NEW p \in Requests \ {q}, NEW n \in Nodes
          PROVE  <<p, n>> \in relay' <=> <<p, n>> \in relay
      BY <2>1 DEF RelaysOf
    <2>5. <<q, NodeOf[s]>> \notin relay'
      BY <1>1, <2>1, <2>3, NodeOfAssumption DEF RelaysOf
    <2> QED BY <1>5, <1>6, <2>1, <2>2, <2>4, <2>5, NodeOfAssumption DEF DeliveryInv
  <1>10. RoomInv'
    <2>1. UNCHANGED <<room, asked, overtaken>>
      BY DEF Persisted
    <2>2. request'[q].pc = "done" /\ \A p \in Requests \ {q} : request'[p] = request[p]
      BY <1>1 DEF RoomsTypeOK, RequestType
    <2> QED BY <2>1, <2>2 DEF RoomInv, LeftUnlessOvertaken
  <1> QED BY <1>7, <1>8, <1>9, <1>10

\* A broadcast arrives at another node.
LEMMA RelayKeepsInv ==
  ASSUME RoomsIndInv, NEW q \in Requests, NEW n \in Nodes, Relay(q, n)
  PROVE  RoomsIndInv'
  <1> USE DEF RoomsIndInv
  <1> DEFINE there == {x \in room : NodeOf[x] = n}
  <1>1. <<q, n>> \in relay /\ relay' = relay \ {<<q, n>>} /\ received' = Gets(q, there)
          /\ UNCHANGED <<connected, room, request, stored, audience, asked, overtaken, faults>>
    BY DEF Relay
  <1>2. \A x \in there : received[q][x] = 0
    BY <1>1 DEF DeliveryInv, RoomsTypeOK
  <1>3. /\ received' \in [Requests -> [Sockets -> 0..2]]
        /\ \A p \in Requests \ {q} : received'[p] = received[p]
        /\ \A x \in Sockets : received'[q][x] = IF x \in there THEN 1 ELSE received[q][x]
    <2> HIDE DEF there
    <2>1. received \in [Requests -> [Sockets -> 0..2]]
      BY DEF RoomsTypeOK
    <2> QED BY <1>1, <1>2, <2>1, GetsOne
  <1>4. RoomsTypeOK'
    BY <1>1, <1>3 DEF RoomsTypeOK
  <1>5. HandlerInv' /\ RoomInv'
    BY <1>1 DEF HandlerInv, RoomInv, LeftUnlessOvertaken
  <1>6. DeliveryInv'
    <2>1. ASSUME NEW x \in Sockets
          PROVE  /\ received'[q][x] < 2
                 /\ received'[q][x] > 0 =>
                      q \in stored' /\ request'[q].pc = "done" /\ <<q, NodeOf[x]>> \notin relay'
      BY <1>1, <1>3 DEF DeliveryInv
    <2> QED BY <1>1, <1>3, <2>1 DEF DeliveryInv
  <1> QED BY <1>4, <1>5, <1>6

\* A socket that disconnects leaves its rooms.
LEMMA DisconnectKeepsInv ==
  ASSUME RoomsIndInv, NEW s \in Sockets, Disconnect(s)
  PROVE  RoomsIndInv'
  <1> USE MaxFaultsAssumption DEF RoomsIndInv, Disconnect
  <1>1. RoomsTypeOK'
    BY DEF RoomsTypeOK
  <1>2. (HandlerInv /\ DeliveryInv /\ RoomInv)'
    BY DEF HandlerInv, DeliveryInv, RoomInv, LeftUnlessOvertaken
  <1> QED BY <1>1, <1>2

\* Every step keeps the invariant: by the kind of its action.
LEMMA RoomsStepKeepsInv == RoomsIndInv /\ [RoomsNext]_roomVars => RoomsIndInv'
  <1> SUFFICES ASSUME RoomsIndInv, [RoomsNext]_roomVars PROVE RoomsIndInv'
    OBVIOUS
  <1>1. ASSUME NEW q \in Requests,
               \/ \E s \in Sockets : Join(q, s) \/ Leave(q, s) \/ Send(q, s)
               \/ Joined(q) \/ SendRefused(q) \/ Fails(q)
        PROVE  RoomsIndInv'
    BY <1>1, RoomStepsKeepInv
  <1>2. ASSUME NEW q \in Requests, Persisted(q) PROVE RoomsIndInv'
    BY <1>2, PersistedKeepsInv
  <1>3. ASSUME NEW q \in Requests, NEW n \in Nodes, Relay(q, n) PROVE RoomsIndInv'
    BY <1>3, RelayKeepsInv
  <1>4. ASSUME NEW s \in Sockets, Disconnect(s) PROVE RoomsIndInv'
    BY <1>4, DisconnectKeepsInv
  <1>5. CASE UNCHANGED roomVars
    BY <1>5 DEF roomVars, RoomsIndInv, RoomsTypeOK, HandlerInv, DeliveryInv, RoomInv, LeftUnlessOvertaken
  <1> QED BY <1>1, <1>2, <1>3, <1>4, <1>5 DEF RoomsNext
-----------------------------------------------------------------------------
\* ChatRooms: the theorems

\* The invariant holds of every behaviour.
THEOREM RoomsInvariance == RoomsSpec => []RoomsIndInv
  BY RoomsInitInv, RoomsStepKeepsInv, PTL DEF RoomsSpec

\* Every variable of a reachable state has its type, and only connected sockets are in
\* the room.
THEOREM RoomsTypeCorrect == RoomsSpec => []RoomsTypeOK
  <1>1. RoomsIndInv => RoomsTypeOK
    BY DEF RoomsIndInv
  <1> QED BY <1>1, RoomsInvariance, PTL

\* No socket gets a message:new twice, whichever of the direct emission, the local
\* broadcast and the adapter's relay could reach it, nor one of a message that was not
\* stored.
THEOREM ReceivedOnce == RoomsSpec => []ReceivedOnceStored
  <1>1. RoomsIndInv => ReceivedOnceStored
    BY DEF RoomsIndInv, DeliveryInv, ReceivedOnceStored
  <1> QED BY <1>1, RoomsInvariance, PTL

\* A socket that last asked to leave is out of the room, unless its leave overtook a
\* join that was being looked up.
THEOREM LeaveWorks == RoomsSpec => []LeftUnlessOvertaken
  <1>1. RoomsIndInv => LeftUnlessOvertaken
    BY DEF RoomsIndInv, RoomInv
  <1> QED BY <1>1, RoomsInvariance, PTL

-----------------------------------------------------------------------------
\* Gateway: the inductive invariant, in named parts

\* A request that runs is for something, was answered nothing final before, and is at
\* a call that its handler makes.
StepInv ==
  \A i \in Intents : step[i] # "idle" =>
    /\ Kind(i) # "none" /\ answer[i] \in {"unasked", "500", "lost"}
    /\ step[i] = "findUser" => Kind(i) = "direct"
    /\ step[i] = "hydrate" => Kind(i) \in {"group", "direct", "list", "get"}

\* A client that was told of all its requests came to has one effect at most, and with
\* it a request on its way to an answer, or an answer after which it does not ask again.
EffectInv ==
  /\ \A i \in late : Creates(i) /\ i \in unheard
  /\ \A i \in Intents : effects[i] > 0 => Creates(i)
  /\ \A i \in Intents \ unheard : effects[i] > 0 =>
       /\ effects[i] = 1
       /\ step[i] \in {"served", "hydrate"} \/ (step[i] = "idle" /\ answer[i] \in {"ok", "422"})
       /\ answer[i] = "422" => Kind(i) = "group" /\ Cardinality(Members(i)) > MaxIds

\* A page is on its way to its reader.
Reading(i) == step[i] = "served" /\ Kind(i) = "history"
Fetched(i) == {fetched[i][k] : k \in DOMAIN fetched[i]}

\* A list as the sort leaves it.
InOrder(s) == \A j, k \in DOMAIN s : j < k => NewestFirst(s[j], s[k])

\* What was there at a reader's first page it has, or will meet further down.
ReaderInv ==
  \A i \in Intents :
    /\ InOrder(read[i])
    /\ began[i] \subseteq messages
    /\ mode[i] = "first" => read[i] = <<>>
    /\ mode[i] = "paging" =>
         /\ read[i] # <<>>
         /\ \A m \in began[i] : m \in ReadBy(i) \/ Older(m, Last(read[i]))
    /\ mode[i] \in {"catchingUp", "done", "gap"} => began[i] \subseteq ReadBy(i)
    /\ mode[i] \in {"done", "gap"} => step[i] = "idle" /\ answer[i] = "ok"
    /\ mode[i] = "done" => tail[i] \subseteq ReadBy(i)

\* A page on its way fits below what its reader has, or in front of it, and leaves out
\* nothing unless it is full.
PageFits(i) ==
  /\ InOrder(fetched[i])
  /\ mode[i] \in {"first", "paging"} =>
       /\ read[i] # <<>> => \A m \in Fetched(i) : Older(m, Last(read[i]))
       /\ \A m \in began[i] :
            \/ m \in ReadBy(i) \union Fetched(i)
            \/ Len(fetched[i]) = Limit /\ Older(m, Last(fetched[i]))
  /\ mode[i] = "catchingUp" =>
       /\ read[i] # <<>> => \A m \in Fetched(i) : Younger(m, read[i][1].time)
       /\ tail[i] \subseteq Fetched(i) \/ Len(fetched[i]) = Limit

PageInv == \A i \in Intents : Reading(i) => PageFits(i)

\* What was stored and named to begin with stays finite.
StoreInv == IsFiniteSet(messages) /\ \A i \in Intents : NamesFew(wanted[i])

IndInv == TypeOK /\ StoreInv /\ StepInv /\ EffectInv /\ ReaderInv /\ PageInv

-----------------------------------------------------------------------------
\* Pages of messages

\* The sort is a strict order, the before filter its converse, and different ids are
\* never alike in it.
LEMMA SortOrder ==
  /\ \A m, n \in Message : NewestFirst(m, n) <=> Older(n, m)
  /\ \A m \in Message : ~NewestFirst(m, m)
  /\ \A l, m, n \in Message : NewestFirst(l, m) /\ NewestFirst(m, n) => NewestFirst(l, n)
  /\ \A m, n \in Message : m.id # n.id => NewestFirst(m, n) \/ NewestFirst(n, m)
  <1>1. \A m \in Message : m.id \in Nat /\ m.time \in Nat
    <2>1. Ids \subseteq Nat /\ 0..MaxTime \subseteq Nat
      BY BoundsAssumption
    <2> QED BY <2>1 DEF Message
  <1> QED BY <1>1 DEF NewestFirst, Older

\* The number of messages before one orders them as the sort does.
LEMMA BeforeCounts ==
  ASSUME NEW found \in SUBSET Message, IsFiniteSet(found),
         \A m, n \in found : m.id = n.id => m = n
  PROVE  /\ \A m \in found : Cardinality(Before(found, m)) \in 0..(Cardinality(found) - 1)
         /\ \A m, n \in found :
              NewestFirst(m, n) <=> Cardinality(Before(found, m)) < Cardinality(Before(found, n))
  <1>1. Cardinality(found) \in Nat
    BY FS_CardinalityType
  <1>2. ASSUME NEW m \in found
        PROVE  IsFiniteSet(Before(found, m)) /\ Cardinality(Before(found, m)) \in Nat
    BY FS_Subset, FS_CardinalityType DEF Before
  <1>3. ASSUME NEW m \in found
        PROVE  Cardinality(Before(found, m)) \in 0..(Cardinality(found) - 1)
    <2>1. Before(found, m) \in SUBSET found /\ m \notin Before(found, m)
      BY SortOrder DEF Before
    <2>2. Cardinality(Before(found, m)) <= Cardinality(found)
          /\ Cardinality(Before(found, m)) # Cardinality(found)
      BY <2>1, FS_Subset
    <2> QED BY <1>1, <1>2, <2>2
  <1>4. ASSUME NEW m \in found, NEW n \in found, NewestFirst(m, n)
        PROVE  Cardinality(Before(found, m)) < Cardinality(Before(found, n))
    <2>1. Before(found, m) \in SUBSET Before(found, n)
      BY <1>4, SortOrder DEF Before
    <2>2. m \in Before(found, n) /\ m \notin Before(found, m)
      BY <1>4, SortOrder DEF Before
    <2>3. /\ Cardinality(Before(found, m)) <= Cardinality(Before(found, n))
          /\ Cardinality(Before(found, m)) # Cardinality(Before(found, n))
      BY <1>2, <2>1, <2>2, FS_Subset
    <2> QED BY <1>2, <2>3
  <1>5. ASSUME NEW m \in found, NEW n \in found,
               Cardinality(Before(found, m)) < Cardinality(Before(found, n))
        PROVE  NewestFirst(m, n)
    <2>1. m # n /\ ~NewestFirst(n, m)
      BY <1>2, <1>4, <1>5
    <2> QED BY <2>1, SortOrder
  <1> QED BY <1>3, <1>4, <1>5

\* So for every place on the list there is one message.
LEMMA RankedOne ==
  ASSUME NEW found \in SUBSET Message, IsFiniteSet(found),
         \A m, n \in found : m.id = n.id => m = n,
         NEW k \in 1..Cardinality(found)
  PROVE  Ranked(found, k) \in found /\ Cardinality(Before(found, Ranked(found, k))) = k - 1
  <1> DEFINE place == [m \in found |-> Cardinality(Before(found, m)) + 1]
  <1>1. Cardinality(found) \in Nat
    BY FS_CardinalityType
  <1>2. place \in Injection(found, 1..Cardinality(found))
    <2>1. place \in [found -> 1..Cardinality(found)]
      BY <1>1, BeforeCounts
    <2>2. ASSUME NEW m \in found, NEW n \in found, place[m] = place[n] PROVE m = n
      <3>1. /\ Cardinality(Before(found, m)) \in Nat /\ Cardinality(Before(found, n)) \in Nat
        BY BeforeCounts, <1>1
      <3>2. Cardinality(Before(found, m)) = Cardinality(Before(found, n))
        BY <2>2, <3>1
      <3>3. ~NewestFirst(m, n) /\ ~NewestFirst(n, m)
        BY <3>1, <3>2, BeforeCounts
      <3> QED BY <3>3, SortOrder
    <2> QED BY <2>1, <2>2 DEF Injection, IsInjective
  <1>3. place \in Surjection(found, 1..Cardinality(found))
    <2>1. IsFiniteSet(1..Cardinality(found)) /\ Cardinality(1..Cardinality(found)) = Cardinality(found)
      BY <1>1, FS_Interval
    <2> QED BY <1>2, <2>1, FS_Injection
  <1>4. \E m \in found : Cardinality(Before(found, m)) = k - 1
    <2>1. PICK m \in found : place[m] = k
      BY <1>3 DEF Surjection
    <2>2. Cardinality(Before(found, m)) \in Nat
      BY <1>1, BeforeCounts
    <2> QED BY <2>1, <2>2
  <1> QED BY <1>4 DEF Ranked

\* findByConversation, for any store, filter and limit: a page has messages the filter
\* finds, in the order of the sort, and leaves one of them out only if the page is full
\* and the message older than its last.
THEOREM PageFacts ==
  ASSUME NEW store \in SUBSET Message, IsFiniteSet(store),
         \A m, n \in store : m.id = n.id => m = n,
         NEW before, NEW after
  PROVE  LET page  == Page(store, before, after, Limit)
             found == Matching(store, before, after)
         IN  /\ page \in Seq(found) /\ found \subseteq store
             /\ InOrder(page)
             /\ \A m \in found :
                  \/ \E k \in DOMAIN page : m = page[k]
                  \/ Len(page) = Limit /\ Older(m, Last(page))
  <1> DEFINE found == Matching(store, before, after)
             page  == Page(store, before, after, Limit)
             len   == Min({Cardinality(found), Limit})
             Rank(m) == Cardinality(Before(found, m))
  <1>1. found \in SUBSET store
    BY DEF Matching
  <1>2. /\ found \in SUBSET Message /\ IsFiniteSet(found)
        /\ \A m, n \in found : m.id = n.id => m = n
        /\ Cardinality(found) \in Nat
    BY <1>1, FS_Subset, FS_CardinalityType
  <1>3. page = [k \in 1..len |-> Ranked(found, k)]
    BY DEF Page
  <1> HIDE DEF found, page
  <1>4. /\ len \in Nat /\ len <= Cardinality(found) /\ len <= Limit
        /\ len = Cardinality(found) \/ len = Limit
    BY <1>2, BoundsAssumption DEF Min
  <1> HIDE DEF len
  <1>5. ASSUME NEW k \in 1..len
        PROVE  page[k] \in found /\ Rank(page[k]) = k - 1
    BY <1>2, <1>3, <1>4, <1>5, RankedOne
  <1>6. page \in Seq(found) /\ Len(page) = len /\ DOMAIN page = 1..len
    <2>1. page \in [1..len -> found]
      BY <1>3, <1>5
    <2> QED BY <1>4, <2>1
  <1>7. InOrder(page)
    BY <1>2, <1>4, <1>5, <1>6, BeforeCounts DEF InOrder
  <1>8. ASSUME NEW m \in found
        PROVE  \/ \E k \in DOMAIN page : m = page[k]
               \/ Len(page) = Limit /\ Older(m, Last(page))
    <2>1. Rank(m) \in 0..(Cardinality(found) - 1)
      BY <1>2, BeforeCounts
    <2>2. CASE Rank(m) < len
      <3> DEFINE k == Rank(m) + 1
      <3>1. k \in 1..len /\ Rank(page[k]) = Rank(m) /\ page[k] \in found
        BY <1>4, <1>5, <2>1, <2>2
      <3>2. ~NewestFirst(m, page[k]) /\ ~NewestFirst(page[k], m)
        BY <1>2, <2>1, <3>1, BeforeCounts
      <3>3. m = page[k]
        BY <1>2, <3>1, <3>2, SortOrder
      <3> QED BY <1>6, <3>1, <3>3
    <2>3. CASE ~(Rank(m) < len)
      <3>1. len = Limit /\ len \in 1..len
        BY <1>2, <1>4, <2>1, <2>3, BoundsAssumption
      <3>2. Last(page) \in found /\ Rank(Last(page)) = len - 1
        BY <1>5, <1>6, <3>1 DEF Last
      <3>3. NewestFirst(Last(page), m)
        BY <1>2, <1>4, <2>1, <2>3, <3>2, BeforeCounts
      <3> QED BY <1>2, <1>6, <3>1, <3>2, <3>3, SortOrder
    <2> QED BY <2>2, <2>3
  <1> QED BY <1>1, <1>6, <1>7, <1>8 DEF found, page

\* Joining two lists that follow on one another keeps the order.
LEMMA JoinInOrder ==
  ASSUME NEW s \in Seq(Message), NEW t \in Seq(Message), InOrder(s), InOrder(t),
         \A j \in DOMAIN s, k \in DOMAIN t : NewestFirst(s[j], t[k])
  PROVE  /\ s \o t \in Seq(Message) /\ InOrder(s \o t)
         /\ Range(s \o t) = Range(s) \union Range(t)
         /\ t # <<>> => s \o t # <<>> /\ Last(s \o t) = Last(t)
  <1>1. /\ s \o t \in Seq(Message) /\ Len(s \o t) = Len(s) + Len(t)
        /\ Len(s) \in Nat /\ Len(t) \in Nat
        /\ DOMAIN s = 1..Len(s) /\ DOMAIN t = 1..Len(t) /\ DOMAIN (s \o t) = 1..(Len(s) + Len(t))
        /\ \A k \in 1..(Len(s) + Len(t)) :
             (s \o t)[k] = IF k <= Len(s) THEN s[k] ELSE t[k - Len(s)]
    BY ConcatProperties, LenProperties
  <1>2. InOrder(s \o t)
    <2> SUFFICES ASSUME NEW j \in 1..(Len(s) + Len(t)), NEW k \in 1..(Len(s) + Len(t)), j < k
                 PROVE  NewestFirst((s \o t)[j], (s \o t)[k])
      BY <1>1 DEF InOrder
    <2>1. CASE k <= Len(s)
      BY <1>1, <2>1 DEF InOrder
    <2>2. CASE j > Len(s)
      <3>1. j - Len(s) \in 1..Len(t) /\ k - Len(s) \in 1..Len(t) /\ j - Len(s) < k - Len(s)
        BY <1>1, <2>2
      <3>2. NewestFirst(t[j - Len(s)], t[k - Len(s)])
        BY <1>1, <3>1 DEF InOrder
      <3> QED BY <1>1, <2>2, <3>2
    <2>3. CASE j <= Len(s) /\ k > Len(s)
      <3>1. j \in DOMAIN s /\ k - Len(s) \in DOMAIN t
        BY <1>1, <2>3
      <3> QED BY <1>1, <2>3, <3>1
    <2> QED BY <1>1, <2>1, <2>2, <2>3
  <1>3. Range(s \o t) = Range(s) \union Range(t)
    <2>1. ASSUME NEW m \in Range(s) PROVE m \in Range(s \o t)
      BY <1>1, <2>1 DEF Range
    <2>2. ASSUME NEW m \in Range(t) PROVE m \in Range(s \o t)
      <3>1. PICK k \in 1..Len(t) : m = t[k]
        BY <1>1, <2>2 DEF Range
      <3>2. /\ Len(s) + k \in 1..(Len(s) + Len(t)) /\ ~(Len(s) + k <= Len(s))
            /\ (Len(s) + k) - Len(s) = k
        BY <1>1
      <3>3. m = (s \o t)[Len(s) + k]
        BY <1>1, <3>1, <3>2
      <3> QED BY <1>1, <3>2, <3>3 DEF Range
    <2>3. ASSUME NEW k \in DOMAIN (s \o t) PROVE (s \o t)[k] \in Range(s) \union Range(t)
      <3>1. k <= Len(s) \/ k - Len(s) \in 1..Len(t)
        BY <1>1
      <3> QED BY <1>1, <3>1 DEF Range
    <2>4. Range(s \o t) \subseteq Range(s) \union Range(t)
      BY <2>3 DEF Range
    <2> QED BY <2>1, <2>2, <2>4
  <1>4. ASSUME t # <<>> PROVE s \o t # <<>> /\ Last(s \o t) = Last(t)
    <2>1. Len(t) > 0
      BY <1>1, <1>4, EmptySeq
    <2> QED BY <1>1, <2>1 DEF Last
  <1> QED BY <1>1, <1>2, <1>3, <1>4

\* What a list in order ends with is the oldest, and what it begins with the newest.
LEMMA EndsOfList ==
  ASSUME NEW s \in Seq(Message), s # <<>>, InOrder(s)
  PROVE  /\ s[1] \in Message /\ Last(s) \in Message
         /\ \A k \in DOMAIN s : s[k] = s[1] \/ NewestFirst(s[1], s[k])
         /\ \A k \in DOMAIN s : s[k] = Last(s) \/ NewestFirst(s[k], Last(s))
  <1>1. Len(s) \in Nat \ {0} /\ DOMAIN s = 1..Len(s) /\ \A k \in 1..Len(s) : s[k] \in Message
    BY EmptySeq, LenProperties, ElementOfSeq
  <1> QED BY <1>1 DEF InOrder, Last

-----------------------------------------------------------------------------
\* Gateway: what its operators do

\* The parts about readers stay when no reader turns a page or gets one.
LEMMA ReadersStay ==
  ASSUME IndInv, UNCHANGED <<wanted, read, began, mode, tail>>, messages \subseteq messages',
         \A j \in Intents : Reading(j)' => Reading(j) /\ fetched'[j] = fetched[j],
         \A j \in Intents : mode[j] \in {"done", "gap"} => step'[j] = "idle" /\ answer'[j] = "ok"
  PROVE  ReaderInv' /\ PageInv'
  <1> USE DEF IndInv
  <1>1. ReaderInv'
    BY DEF ReaderInv, ReadBy, InOrder
  <1>2. PageInv'
    <2> SUFFICES ASSUME NEW j \in Intents, Reading(j)'
                 PROVE  PageFits(j)'
      BY DEF PageInv
    <2>1. PageFits(j) /\ fetched'[j] = fetched[j]
      BY DEF PageInv
    <2> QED BY <2>1 DEF PageFits, ReadBy, Fetched, InOrder
  <1> QED BY <1>1, <1>2

\* The service makes one thing at most, and messages keep their key.
LEMMA EffectMakesOne ==
  ASSUME IndInv, NEW i \in Intents, Effect(i)
  PROVE  /\ groups' \subseteq Intents /\ directs' \subseteq SUBSET Users
         /\ messages' \subseteq Message /\ IsFiniteSet(messages')
         /\ \A m, n \in messages' : m.id = n.id => m = n
         /\ messages \subseteq messages'
         /\ effects' \in [Intents -> 0..2]
         /\ \A j \in Intents \ {i} : effects'[j] = effects[j]
         /\ effects'[i] # effects[i] => Creates(i) /\ (effects[i] = 0 => effects'[i] = 1)
         /\ Kind(i) # "history" => UNCHANGED readers
  <1> USE DEF IndInv
  <1>1. /\ messages' \subseteq Message /\ IsFiniteSet(messages')
        /\ \A m, n \in messages' : m.id = n.id => m = n
        /\ messages \subseteq messages'
    <2>1. CASE UNCHANGED messages
      BY <2>1 DEF TypeOK, StoreInv
    <2>2. ASSUME NEW x \in Ids \ {m.id : m \in messages}, NEW t \in Stamps,
                 messages' = messages \union {[id |-> x, time |-> t]}
          PROVE  /\ messages' \subseteq Message /\ IsFiniteSet(messages')
                 /\ \A m, n \in messages' : m.id = n.id => m = n
      <3>1. t \in 0..MaxTime
        BY BoundsAssumption DEF Stamps, TypeOK
      <3>2. IsFiniteSet(messages')
        BY <2>2, FS_AddElement DEF StoreInv
      <3> QED BY <2>2, <3>1, <3>2 DEF TypeOK, Message
    <2> QED BY <2>1, <2>2 DEF Effect
  <1>2. groups' \subseteq Intents /\ directs' \subseteq SUBSET Users
    <2>1. Members(i) \in SUBSET Users
      BY DEF Members, TypeOK, Wants
    <2> QED BY <2>1 DEF Effect, TypeOK
  <1>3. /\ effects' \in [Intents -> 0..2]
        /\ \A j \in Intents \ {i} : effects'[j] = effects[j]
        /\ effects'[i] # effects[i] => Creates(i) /\ (effects[i] = 0 => effects'[i] = 1)
    <2>1. effects \in [Intents -> 0..2]
      BY DEF TypeOK
    <2>2. CASE UNCHANGED effects
      BY <2>1, <2>2
    <2>3. CASE Made(i) /\ Creates(i)
      BY <2>1, <2>3 DEF Made
    <2> QED BY <2>2, <2>3 DEF Effect, Creates
  <1>4. Kind(i) # "history" => UNCHANGED readers
    BY DEF Effect
  <1> QED BY <1>1, <1>2, <1>3, <1>4

-----------------------------------------------------------------------------
\* Gateway: the invariant is inductive, one lemma for each group of actions

\* The invariant holds at the start.
LEMMA InitInv == Init => IndInv
  <1> SUFFICES ASSUME Init PROVE IndInv
    OBVIOUS
  <1>1. PICK c \in Scenarios : wanted = c.wanted /\ known = c.known /\ messages = c.messages
    BY DEF Init
  <1>2. TypeOK
    BY <1>1, ScenariosAssumption, BoundsAssumption DEF Init, TypeOK
  <1>3. StoreInv
    BY <1>1, ScenariosAssumption DEF StoreInv
  <1>4. StepInv /\ EffectInv /\ PageInv
    BY DEF Init, StepInv, EffectInv, PageInv, Reading
  <1>5. ReaderInv
    BY DEF Init, ReaderInv, InOrder, ReadBy
  <1> QED BY <1>2, <1>3, <1>4, <1>5 DEF IndInv

\* What is left of the invariant when neither requests nor readers move: its types.
LEMMA FrameKeepsInv ==
  ASSUME IndInv, TypeOK',
         UNCHANGED <<wanted, messages, step, answer, late, effects, unheard, readers>>
  PROVE  IndInv'
  <1> USE DEF IndInv, readers
  <1>1. StoreInv'
    BY DEF StoreInv
  <1>2. StepInv'
    BY DEF StepInv, Kind
  <1>3. EffectInv'
    BY DEF EffectInv, Kind, Creates, Members
  <1>4. ReaderInv' /\ PageInv'
    <2>1. \A j \in Intents : mode[j] \in {"done", "gap"} => step'[j] = "idle" /\ answer'[j] = "ok"
      BY DEF ReaderInv
    <2>2. \A j \in Intents : Reading(j)' => Reading(j)
      BY DEF Reading, Kind
    <2> QED BY <2>1, <2>2, ReadersStay
  <1> QED BY <1>1, <1>2, <1>3, <1>4

\* What user-service learns, the clock, and the process when no request is cut off.
LEMMA ProcessKeepsInv ==
  ASSUME IndInv,
         (\E u \in Users : Learn(u)) \/ Tick \/ Terminate \/ Exit \/ Start \/ UNCHANGED vars
  PROVE  IndInv'
  <1> USE DEF services, requests, readers
  <1>1. TypeOK'
    <2> USE DEF IndInv, TypeOK
    <2>1. CASE \E u \in Users : Learn(u)
      BY <2>1 DEF Learn
    <2>2. CASE Tick
      BY <2>2, BoundsAssumption DEF Tick
    <2>3. CASE Terminate
      BY <2>3, BoundsAssumption DEF Terminate
    <2>4. CASE Exit
      BY <2>4 DEF Exit, Running
    <2>5. CASE Start
      BY <2>5 DEF Start
    <2>6. CASE UNCHANGED vars
      BY <2>6 DEF vars
    <2> QED BY <2>1, <2>2, <2>3, <2>4, <2>5, <2>6
  <1>2. UNCHANGED <<wanted, messages, step, answer, late, effects, unheard, readers>>
    BY DEF Learn, Tick, Terminate, Exit, Start, vars
  <1> QED BY <1>1, <1>2, FrameKeepsInv

\* A client asks: who may ask again has no effect to its name that it does not know of.
LEMMA AskKeepsInv ==
  ASSUME IndInv, NEW i \in Intents, Ask(i)
  PROVE  IndInv'
  <1> USE DEF IndInv
  <1>1. UNCHANGED <<wanted, phase, services, late, effects, unheard, readers>>
    BY DEF Ask
  <1>2. /\ step[i] = "idle" /\ answer[i] \in {"unasked", "500", "lost"}
        /\ Kind(i) # "none" /\ phase = "up" /\ tries' = [tries EXCEPT ![i] = @ + 1]
    BY DEF Ask
  <1>3. \/ step' = [step EXCEPT ![i] = FirstCall(i)] /\ UNCHANGED answer
        \/ answer' = [answer EXCEPT ![i] = Refusal(i)] /\ UNCHANGED step /\ Refusal(i) # "none"
    BY DEF Ask
  <1>4. FirstCall(i) \in {"findUser", "chat"} /\ (FirstCall(i) = "findUser" => Kind(i) = "direct")
    BY DEF FirstCall
  <1>5. Refusal(i) \in {"400", "403", "none"}
    BY DEF Refusal
  <1>6. i \in unheard \/ ~(effects[i] > 0)
    BY <1>2 DEF EffectInv
  <1>7. TypeOK'
    <2>1. tries' \in [Intents -> 0..MaxTries] /\ UNCHANGED signals
      BY BoundsAssumption DEF Ask, TypeOK
    <2> QED BY <1>1, <1>2, <1>3, <1>4, <1>5, <2>1 DEF TypeOK, services, readers
  <1>8. StoreInv'
    BY <1>1 DEF StoreInv, services
  <1>9. StepInv'
    BY <1>1, <1>2, <1>3, <1>4, <1>5 DEF StepInv, TypeOK, Kind
  <1>10. EffectInv'
    <2>1. \A j \in Intents \ {i} : step'[j] = step[j] /\ answer'[j] = answer[j]
      BY <1>3 DEF TypeOK
    <2> QED BY <1>1, <1>6, <2>1 DEF EffectInv, Creates, Kind, Members
  <1>11. ReaderInv' /\ PageInv'
    <2>1. \A j \in Intents : mode[j] \in {"done", "gap"} => step'[j] = "idle" /\ answer'[j] = "ok"
      BY <1>2, <1>3 DEF ReaderInv, TypeOK
    <2>2. \A j \in Intents : Reading(j)' => Reading(j)
      BY <1>1, <1>2, <1>3, <1>4 DEF Reading, Kind, TypeOK
    <2> QED BY <1>1, <2>1, <2>2, ReadersStay DEF services, readers
  <1> QED BY <1>7, <1>8, <1>9, <1>10, <1>11

\* A request that ends without an answer: what it did or will do is unheard of.
LEMMA TimesOutKeepsInv ==
  ASSUME IndInv, NEW i \in Intents, TimesOut(i)
  PROVE  IndInv'
  <1> USE DEF IndInv
  <1>1. /\ UNCHANGED <<wanted, phase, signals, services, tries, effects, read, began, mode, tail>>
        /\ step[i] # "idle" /\ step' = [step EXCEPT ![i] = "idle"]
        /\ answer' = [answer EXCEPT ![i] = "500"]
        /\ fetched' = [fetched EXCEPT ![i] = <<>>]
    BY DEF TimesOut, Answers
  <1>2. /\ unheard' = IF Creates(i) /\ step[i] \in {"chat", "served", "hydrate"}
                      THEN unheard \union {i} ELSE unheard
        /\ late' = IF Creates(i) /\ step[i] = "chat" THEN late \union {i} ELSE late
    BY DEF TimesOut, Ended
  <1>3. TypeOK'
    <2>1. fetched' \in [Intents -> Seq(Message)]
      BY <1>1 DEF TypeOK
    <2> QED BY <1>1, <1>2, <2>1 DEF TypeOK, services
  <1>4. StoreInv'
    BY <1>1 DEF StoreInv, services
  <1>5. StepInv'
    BY <1>1 DEF StepInv, Kind, TypeOK
  <1>6. EffectInv'
    <2>1. i \in unheard' \/ ~(effects[i] > 0)
      BY <1>1, <1>2 DEF EffectInv, TypeOK
    <2>2. \A j \in Intents \ {i} : step'[j] = step[j] /\ answer'[j] = answer[j]
      BY <1>1 DEF TypeOK
    <2>3. \A j \in late' : Creates(j) /\ j \in unheard'
      BY <1>2 DEF EffectInv
    <2> QED BY <1>1, <1>2, <2>1, <2>2, <2>3 DEF EffectInv, Creates, Kind, Members
  <1>7. ReaderInv' /\ PageInv'
    <2>1. \A j \in Intents : mode[j] \in {"done", "gap"} => step'[j] = "idle" /\ answer'[j] = "ok"
      BY <1>1 DEF ReaderInv, TypeOK
    <2>2. \A j \in Intents : Reading(j)' => Reading(j) /\ fetched'[j] = fetched[j]
      BY <1>1 DEF Reading, Kind, TypeOK
    <2> QED BY <1>1, <2>1, <2>2, ReadersStay DEF services
  <1> QED BY <1>3, <1>4, <1>5, <1>6, <1>7

\* The same for all requests at once, when the process is forced out.
LEMMA ForceExitKeepsInv ==
  ASSUME IndInv, ForceExit
  PROVE  IndInv'
  <1> USE DEF IndInv
  <1>1. /\ UNCHANGED <<wanted, signals, services, tries, effects, read, began, mode, tail>>
        /\ phase' = "down" /\ step' = [i \in Intents |-> "idle"]
        /\ answer' = [i \in Intents |-> IF step[i] # "idle" THEN "lost" ELSE answer[i]]
        /\ fetched' = [i \in Intents |-> <<>>]
    BY DEF ForceExit, Running
  <1>2. /\ unheard' = unheard \union {i \in Intents : step[i] # "idle" /\ Creates(i)
                                                      /\ step[i] # "findUser"}
        /\ late' = late \union {i \in Intents : step[i] # "idle" /\ Creates(i)
                                                /\ step[i] = "chat"}
    BY DEF ForceExit, Running
  <1>3. TypeOK'
    <2>1. fetched' \in [Intents -> Seq(Message)]
      BY <1>1
    <2> QED BY <1>1, <1>2, <2>1 DEF TypeOK, services
  <1>4. StoreInv'
    BY <1>1 DEF StoreInv, services
  <1>5. StepInv'
    BY <1>1 DEF StepInv
  <1>6. EffectInv'
    <2>1. \A j \in Intents \ unheard' :
            effects[j] > 0 => j \notin unheard /\ step[j] = "idle" /\ answer'[j] = answer[j]
      BY <1>1, <1>2 DEF EffectInv, TypeOK
    <2>2. \A j \in late' : Creates(j) /\ j \in unheard'
      BY <1>2 DEF EffectInv
    <2> QED BY <1>1, <2>1, <2>2 DEF EffectInv, Creates, Kind, Members
  <1>7. ReaderInv' /\ PageInv'
    <2>1. \A j \in Intents : mode[j] \in {"done", "gap"} => step'[j] = "idle" /\ answer'[j] = "ok"
      BY <1>1 DEF ReaderInv, TypeOK
    <2>2. \A j \in Intents : Reading(j)' => Reading(j) /\ fetched'[j] = fetched[j]
      BY <1>1 DEF Reading
    <2> QED BY <1>1, <2>1, <2>2, ReadersStay DEF services
  <1> QED BY <1>3, <1>4, <1>5, <1>6, <1>7

\* The lookup before a direct conversation.
LEMMA FindUserKeepsInv ==
  ASSUME IndInv, NEW i \in Intents, FindUser(i)
  PROVE  IndInv'
  <1> USE DEF IndInv
  <1>1. /\ UNCHANGED <<wanted, phase, signals, services, tries, late, effects, unheard, readers>>
        /\ step[i] = "findUser"
        /\ \/ step' = [step EXCEPT ![i] = "chat"] /\ UNCHANGED answer
           \/ step' = [step EXCEPT ![i] = "idle"] /\ answer' = [answer EXCEPT ![i] = "404"]
    BY DEF FindUser, Goes, Answers
  <1>2. i \in unheard \/ ~(effects[i] > 0)
    BY <1>1 DEF EffectInv
  <1>3. TypeOK'
    BY <1>1 DEF TypeOK, services, readers
  <1>4. StoreInv'
    BY <1>1 DEF StoreInv, services
  <1>5. StepInv'
    BY <1>1 DEF StepInv, Kind, TypeOK
  <1>6. EffectInv'
    <2>1. \A j \in Intents \ {i} : step'[j] = step[j] /\ answer'[j] = answer[j]
      BY <1>1 DEF TypeOK
    <2> QED BY <1>1, <1>2, <2>1 DEF EffectInv, Creates, Kind, Members
  <1>7. ReaderInv' /\ PageInv'
    <2>1. \A j \in Intents : mode[j] \in {"done", "gap"} => step'[j] = "idle" /\ answer'[j] = "ok"
      BY <1>1 DEF ReaderInv, TypeOK
    <2>2. \A j \in Intents : Reading(j)' => Reading(j)
      BY <1>1 DEF Reading, Kind, TypeOK
    <2> QED BY <1>1, <2>1, <2>2, ReadersStay DEF services, readers
  <1> QED BY <1>3, <1>4, <1>5, <1>6, <1>7

\* Hydration refuses only what is too large: of two users it never is.
LEMMA HydrateKeepsInv ==
  ASSUME IndInv, NEW i \in Intents, Hydrate(i)
  PROVE  IndInv'
  <1> USE DEF IndInv
  <1> DEFINE admitted == ByIdsAdmits(IdsToHydrate(i))
  <1>1. /\ UNCHANGED <<wanted, phase, signals, services, tries, late, effects, unheard, readers>>
        /\ step[i] = "hydrate" /\ step' = [step EXCEPT ![i] = "idle"]
        /\ answer' = [answer EXCEPT ![i] = IF admitted THEN "ok" ELSE "422"]
    BY DEF Hydrate, Answers
  <1>2. ASSUME Creates(i), ~admitted
        PROVE  Kind(i) = "group" /\ Cardinality(Members(i)) > MaxIds
    <2>1. Kind(i) \in {"group", "direct"} /\ IdsToHydrate(i) = Members(i)
      BY <1>1, <1>2 DEF StepInv, Creates, IdsToHydrate
    <2>2. wanted[i].by \in Members(i) /\ IsFiniteSet(Members(i))
      <3>1. IsFiniteSet(wanted[i].names)
        BY DEF StoreInv, NamesFew
      <3> QED BY <3>1, FS_AddElement DEF Members
    <2>3. Cardinality(Members(i)) \in Nat \ {0}
      BY <2>2, FS_CardinalityType, FS_EmptySet
    <2>4. Cardinality(Members(i)) > MaxIds
      BY <1>2, <2>1, <2>3, BoundsAssumption DEF ByIdsAdmits
    <2>5. ASSUME Kind(i) = "direct" PROVE FALSE
      <3>1. PICK u \in Users : wanted[i].names = {u}
        BY <2>5 DEF StoreInv, NamesFew, Kind
      <3>2. /\ IsFiniteSet({u}) /\ Cardinality({u}) = 1
            /\ Members(i) = {u} \union {wanted[i].by}
        BY <3>1, FS_Singleton DEF Members
      <3>3. Cardinality(Members(i)) \in {1, 2}
        BY <3>2, FS_AddElement
      <3> QED BY <2>4, <3>3, BoundsAssumption
    <2> QED BY <2>1, <2>4, <2>5
  <1> HIDE DEF admitted
  <1>3. TypeOK'
    BY <1>1 DEF TypeOK, services, readers
  <1>4. StoreInv'
    BY <1>1 DEF StoreInv, services
  <1>5. StepInv'
    BY <1>1 DEF StepInv, Kind, TypeOK
  <1>6. EffectInv'
    <2>1. \A j \in Intents \ {i} : step'[j] = step[j] /\ answer'[j] = answer[j]
      BY <1>1 DEF TypeOK
    <2>2. /\ step'[i] = "idle" /\ answer'[i] \in {"ok", "422"}
          /\ answer'[i] = "422" => ~admitted
      BY <1>1 DEF TypeOK
    <2>3. /\ \A j \in late : Creates(j) /\ j \in unheard
          /\ \A j \in Intents : effects[j] > 0 => Creates(j)
          /\ \A j \in Intents \ unheard : effects[j] > 0 =>
               /\ effects[j] = 1
               /\ step'[j] \in {"served", "hydrate"}
                    \/ (step'[j] = "idle" /\ answer'[j] \in {"ok", "422"})
               /\ answer'[j] = "422" => Kind(j) = "group" /\ Cardinality(Members(j)) > MaxIds
      BY <1>2, <2>1, <2>2 DEF EffectInv
    <2> QED BY <1>1, <2>3 DEF EffectInv, Creates, Kind, Members
  <1>7. ReaderInv' /\ PageInv'
    <2>1. \A j \in Intents : mode[j] \in {"done", "gap"} => step'[j] = "idle" /\ answer'[j] = "ok"
      BY <1>1 DEF ReaderInv, TypeOK
    <2>2. \A j \in Intents : Reading(j)' => Reading(j)
      BY <1>1 DEF Reading, Kind, TypeOK
    <2> QED BY <1>1, <2>1, <2>2, ReadersStay DEF services, readers
  <1> QED BY <1>3, <1>4, <1>5, <1>6, <1>7

\* A call that nobody waits for: its intent is unheard of already.
LEMMA ServedLateKeepsInv ==
  ASSUME IndInv, NEW i \in Intents, ServedLate(i)
  PROVE  IndInv'
  <1> USE DEF IndInv
  <1>1. /\ i \in late /\ late' = late \ {i} /\ Effect(i)
        /\ UNCHANGED <<wanted, phase, signals, known, now, step, answer, tries, unheard, readers>>
    BY DEF ServedLate
  <1>2. Creates(i) /\ i \in unheard
    BY <1>1 DEF EffectInv
  <1>3. /\ groups' \subseteq Intents /\ directs' \subseteq SUBSET Users
        /\ messages' \subseteq Message /\ IsFiniteSet(messages')
        /\ \A m, n \in messages' : m.id = n.id => m = n
        /\ messages \subseteq messages'
        /\ effects' \in [Intents -> 0..2]
        /\ \A j \in Intents \ {i} : effects'[j] = effects[j]
    BY <1>1, EffectMakesOne
  <1>4. TypeOK'
    BY <1>1, <1>3 DEF TypeOK, readers
  <1>5. StoreInv'
    BY <1>1, <1>3 DEF StoreInv
  <1>6. StepInv'
    BY <1>1 DEF StepInv, Kind
  <1>7. EffectInv'
    BY <1>1, <1>2, <1>3 DEF EffectInv, Creates, Kind, Members
  <1>8. ReaderInv' /\ PageInv'
    <2>1. \A j \in Intents : mode[j] \in {"done", "gap"} => step'[j] = "idle" /\ answer'[j] = "ok"
      BY <1>1 DEF ReaderInv
    <2>2. \A j \in Intents : Reading(j)' => Reading(j)
      BY <1>1 DEF Reading, Kind
    <2> QED BY <1>1, <1>3, <2>1, <2>2, ReadersStay DEF readers
  <1> QED BY <1>4, <1>5, <1>6, <1>7, <1>8

\* The page that is taken for a reader fits what it has.
LEMMA PageTaken ==
  ASSUME IndInv, NEW i \in Intents, step[i] = "chat", Kind(i) = "history", Effect(i)
  PROVE  /\ fetched' \in [Intents -> Seq(Message)]
         /\ began' \in [Intents -> SUBSET Message] /\ tail' \in [Intents -> SUBSET Message]
         /\ began'[i] \subseteq messages
         /\ \A j \in Intents \ {i} :
              fetched'[j] = fetched[j] /\ began'[j] = began[j] /\ tail'[j] = tail[j]
         /\ mode[i] \in {"first", "paging", "catchingUp"}
         /\ mode[i] # "first" => began'[i] = began[i]
         /\ UNCHANGED <<groups, directs, messages, effects, read, mode>>
         /\ PageFits(i)'
  <1> USE DEF IndInv
  <1> DEFINE page  == fetched'[i]
             has   == read[i]
             older == IF has = <<>> THEN NoMessage ELSE Last(has)
             since == IF has = <<>> THEN NoTime ELSE has[1].time
  <1>1. /\ fetched' = [fetched EXCEPT ![i] =
             IF mode[i] = "catchingUp" THEN Page(messages, NoMessage, since, Limit)
             ELSE Page(messages, older, NoTime, Limit)]
        /\ began' = IF mode[i] = "first" THEN [began EXCEPT ![i] = messages] ELSE began
        /\ tail' = IF mode[i] = "catchingUp" THEN [tail EXCEPT ![i] = New(i)] ELSE tail
        /\ UNCHANGED <<groups, directs, messages, effects, read, mode>>
    BY DEF Effect
  <1>2. mode[i] \in {"first", "paging", "catchingUp"}
    BY DEF TypeOK, ReaderInv
  <1>3. messages \in SUBSET Message /\ IsFiniteSet(messages)
        /\ \A m, n \in messages : m.id = n.id => m = n
    BY DEF TypeOK, StoreInv
  <1>4. \A m \in Message : m # NoMessage /\ m.time # NoTime /\ m.time \in Nat
    <2>1. 0..MaxTime \subseteq Nat
      BY BoundsAssumption
    <2> QED BY <2>1 DEF Message, NoMessage, NoTime
  <1>5. /\ has \in Seq(Message) /\ InOrder(has)
        /\ has # <<>> => /\ has[1] \in Message /\ Last(has) \in Message
                         /\ 1 \in DOMAIN has
    <2>1. has \in Seq(Message) /\ InOrder(has)
      BY DEF TypeOK, ReaderInv
    <2>2. ASSUME has # <<>> PROVE 1 \in DOMAIN has
      BY <2>1, <2>2, EmptySeq, LenProperties
    <2> QED BY <2>1, <2>2, EndsOfList
  <1> HIDE DEF has
  <1>6. /\ \A j \in Intents \ {i} :
             fetched'[j] = fetched[j] /\ began'[j] = began[j] /\ tail'[j] = tail[j]
        /\ began'[i] = IF mode[i] = "first" THEN messages ELSE began[i]
        /\ mode[i] = "catchingUp" => tail'[i] = New(i)
        /\ mode[i] # "catchingUp" => tail'[i] = tail[i]
        /\ page = IF mode[i] = "catchingUp" THEN Page(messages, NoMessage, since, Limit)
                  ELSE Page(messages, older, NoTime, Limit)
    BY <1>1 DEF TypeOK
  <1> HIDE DEF page
  <1>7. CASE mode[i] = "catchingUp"
    <2> DEFINE found == Matching(messages, NoMessage, since)
    <2>1. /\ page \in Seq(found) /\ found \subseteq messages /\ InOrder(page)
          /\ \A m \in found : (\E k \in DOMAIN page : m = page[k]) \/ Len(page) = Limit
      BY <1>3, <1>6, <1>7, PageFacts
    <2>2. found = IF has = <<>> THEN messages ELSE {m \in messages : Younger(m, has[1].time)}
      BY <1>4, <1>5 DEF Matching
    <2> HIDE DEF found
    <2>3. page \in Seq(Message) /\ \A k \in DOMAIN page : page[k] \in found
      BY <1>3, <2>1, ElementOfSeq, LenProperties
    <2>4. New(i) \subseteq found /\ New(i) \subseteq messages
      BY <1>5, <2>2 DEF New, ReadBy, Younger, has
    <2>5. has # <<>> => \A m \in Fetched(i)' : Younger(m, has[1].time)
      BY <2>2, <2>3 DEF Fetched, page
    <2>6. New(i) \subseteq Fetched(i)' \/ Len(page) = Limit
      BY <2>1, <2>4 DEF Fetched, page
    <2>7. PageFits(i)'
      BY <1>1, <1>6, <1>7, <2>1, <2>5, <2>6 DEF PageFits, has, page
    <2>8. began'[i] \subseteq messages
      BY <1>6, <1>7 DEF ReaderInv
    <2>9. /\ fetched' \in [Intents -> Seq(Message)]
          /\ began' \in [Intents -> SUBSET Message] /\ tail' \in [Intents -> SUBSET Message]
      <3>1. fetched' = [fetched EXCEPT ![i] = page]
        BY <1>1, <1>6
      <3> QED BY <1>1, <1>3, <1>7, <2>3, <2>4, <3>1 DEF TypeOK
    <2> QED BY <1>1, <1>2, <1>6, <1>7, <2>7, <2>8, <2>9
  <1>8. CASE mode[i] # "catchingUp"
    <2> DEFINE found == Matching(messages, older, NoTime)
    <2>1. /\ page \in Seq(found) /\ found \subseteq messages /\ InOrder(page)
          /\ \A m \in found : \/ \E k \in DOMAIN page : m = page[k]
                              \/ Len(page) = Limit /\ Older(m, Last(page))
      <3> DEFINE taken == Page(messages, older, NoTime, Limit)
      <3>1. page = taken
        BY <1>6, <1>8
      <3> HIDE DEF older
      <3>2. /\ taken \in Seq(found) /\ found \subseteq messages /\ InOrder(taken)
            /\ \A m \in found : \/ \E k \in DOMAIN taken : m = taken[k]
                                \/ Len(taken) = Limit /\ Older(m, Last(taken))
        BY <1>3, PageFacts
      <3> HIDE DEF taken, found
      <3> QED BY <3>1, <3>2
    <2>2. found = IF has = <<>> THEN messages ELSE {m \in messages : Older(m, Last(has))}
      BY <1>4, <1>5 DEF Matching
    <2> HIDE DEF found
    <2>3. page \in Seq(Message) /\ \A k \in DOMAIN page : page[k] \in found
      BY <1>3, <2>1, ElementOfSeq, LenProperties
    <2>4. ASSUME NEW m \in began'[i] PROVE m \in messages /\ (m \in ReadBy(i) \/ m \in found)
      <3>1. CASE mode[i] = "first"
        BY <1>6, <2>2, <2>4, <3>1 DEF ReaderInv, has
      <3>2. CASE mode[i] = "paging"
        BY <1>6, <2>2, <2>4, <3>2 DEF ReaderInv, has
      <3> QED BY <1>2, <1>8, <3>1, <3>2
    <2>5. has # <<>> => \A m \in Fetched(i)' : Older(m, Last(has))
      BY <2>2, <2>3 DEF Fetched, page
    <2>6. ReadBy(i)' = ReadBy(i)
      BY <1>1 DEF ReadBy
    <2>7. \A m \in began'[i] : \/ m \in ReadBy(i)' \union Fetched(i)'
                               \/ Len(page) = Limit /\ Older(m, Last(page))
      BY <2>1, <2>4, <2>6 DEF Fetched, page
    <2>8. PageFits(i)'
      BY <1>1, <1>8, <2>1, <2>5, <2>7 DEF PageFits, has, page
    <2>9. /\ fetched' \in [Intents -> Seq(Message)]
          /\ began' \in [Intents -> SUBSET Message] /\ tail' \in [Intents -> SUBSET Message]
      <3>1. fetched' = [fetched EXCEPT ![i] = page]
        BY <1>1, <1>6
      <3> QED BY <1>1, <1>3, <1>8, <2>3, <3>1 DEF TypeOK
    <2> QED BY <1>1, <1>2, <1>6, <2>4, <2>8, <2>9
  <1> QED BY <1>7, <1>8

\* chat-service does what it was asked for, or refuses.
LEMMA ChatServesKeepsInv ==
  ASSUME IndInv, NEW i \in Intents, ChatServes(i)
  PROVE  IndInv'
  <1> USE DEF IndInv
  <1>1. UNCHANGED <<wanted, phase, signals, known, now, tries, late, unheard>> /\ step[i] = "chat"
    BY DEF ChatServes
  <1>2. i \in unheard \/ ~(effects[i] > 0)
    BY <1>1 DEF EffectInv
  <1>3. CASE /\ step' = [step EXCEPT ![i] = "idle"] /\ answer' = [answer EXCEPT ![i] = "403"]
             /\ UNCHANGED <<groups, directs, messages, effects, readers>>
    <2>1. TypeOK' /\ StoreInv'
      BY <1>1, <1>3 DEF TypeOK, StoreInv, readers
    <2>2. StepInv'
      BY <1>1, <1>3 DEF StepInv, Kind, TypeOK
    <2>3. EffectInv'
      <3>1. \A j \in Intents \ {i} : step'[j] = step[j] /\ answer'[j] = answer[j]
        BY <1>3 DEF TypeOK
      <3> QED BY <1>1, <1>2, <1>3, <3>1 DEF EffectInv, Creates, Kind, Members
    <2>4. ReaderInv' /\ PageInv'
      <3>1. \A j \in Intents : mode[j] \in {"done", "gap"} => step'[j] = "idle" /\ answer'[j] = "ok"
        BY <1>1, <1>3 DEF ReaderInv, TypeOK
      <3>2. \A j \in Intents : Reading(j)' => Reading(j)
        BY <1>1, <1>3 DEF Reading, Kind, TypeOK
      <3> QED BY <1>1, <1>3, <3>1, <3>2, ReadersStay DEF readers
    <2> QED BY <2>1, <2>2, <2>3, <2>4
  <1>4. CASE Effect(i) /\ step' = [step EXCEPT ![i] = "served"] /\ UNCHANGED answer
    <2>1. /\ groups' \subseteq Intents /\ directs' \subseteq SUBSET Users
          /\ messages' \subseteq Message /\ IsFiniteSet(messages')
          /\ \A m, n \in messages' : m.id = n.id => m = n
          /\ messages \subseteq messages'
          /\ effects' \in [Intents -> 0..2]
          /\ \A j \in Intents \ {i} : effects'[j] = effects[j]
          /\ effects'[i] # effects[i] => Creates(i) /\ (effects[i] = 0 => effects'[i] = 1)
          /\ Kind(i) # "history" => UNCHANGED readers
      BY <1>4, EffectMakesOne
    <2>2. /\ step'[i] = "served" /\ answer'[i] = answer[i]
          /\ \A j \in Intents \ {i} : step'[j] = step[j] /\ answer'[j] = answer[j]
      BY <1>4 DEF TypeOK
    <2>3. /\ fetched' \in [Intents -> Seq(Message)] /\ read' \in [Intents -> Seq(Message)]
          /\ began' \in [Intents -> SUBSET Message] /\ tail' \in [Intents -> SUBSET Message]
          /\ mode' \in [Intents -> {"first", "paging", "catchingUp", "done", "gap"}]
      <3>1. CASE Kind(i) # "history"
        BY <2>1, <3>1 DEF TypeOK, readers
      <3>2. CASE Kind(i) = "history"
        BY <1>1, <1>4, <3>2, PageTaken DEF TypeOK
      <3> QED BY <3>1, <3>2
    <2>4. TypeOK'
      BY <1>1, <1>4, <2>1, <2>3 DEF TypeOK
    <2>5. StoreInv'
      BY <1>1, <2>1 DEF StoreInv
    <2>6. StepInv'
      BY <1>1, <2>2 DEF StepInv, Kind
    <2>7. EffectInv'
      <3>1. \A j \in Intents : effects'[j] > 0 => Creates(j)
        BY <2>1 DEF EffectInv, TypeOK
      <3>2. i \notin unheard /\ effects'[i] > 0 => effects'[i] = 1 /\ answer'[i] # "422"
        <4>1. answer[i] # "422" /\ effects[i] \in 0..2
          BY <1>1 DEF TypeOK, StepInv
        <4> QED BY <1>2, <2>1, <2>2, <4>1
      <3>3. \A j \in Intents \ {i} : effects'[j] = effects[j]
        BY <2>1
      <3> QED BY <1>1, <2>2, <3>1, <3>2, <3>3 DEF EffectInv, Creates, Kind, Members
    <2>8. ReaderInv' /\ PageInv'
      <3>1. \A j \in Intents : mode[j] \in {"done", "gap"} => step'[j] = "idle" /\ answer'[j] = "ok"
        BY <1>1, <2>2 DEF ReaderInv
      <3>2. CASE Kind(i) # "history"
        <4>1. \A j \in Intents : Reading(j)' => Reading(j)
          BY <1>1, <2>2, <3>2 DEF Reading, Kind
        <4> QED BY <1>1, <2>1, <3>1, <3>2, <4>1, ReadersStay DEF readers
      <3>3. CASE Kind(i) = "history"
        <4>1. /\ began'[i] \subseteq messages
              /\ \A j \in Intents \ {i} :
                   fetched'[j] = fetched[j] /\ began'[j] = began[j] /\ tail'[j] = tail[j]
              /\ mode[i] \in {"first", "paging", "catchingUp"}
              /\ mode[i] # "first" => began'[i] = began[i]
              /\ UNCHANGED <<messages, read, mode>> /\ PageFits(i)'
          BY <1>1, <1>4, <3>3, PageTaken
        <4>2. ReaderInv'
          <5> SUFFICES ASSUME NEW j \in Intents
                       PROVE  /\ InOrder(read[j]) /\ began'[j] \subseteq messages
                              /\ mode[j] = "first" => read[j] = <<>>
                              /\ mode[j] = "paging" =>
                                   /\ read[j] # <<>>
                                   /\ \A m \in began'[j] : m \in ReadBy(j) \/ Older(m, Last(read[j]))
                              /\ mode[j] \in {"catchingUp", "done", "gap"} => began'[j] \subseteq ReadBy(j)
                              /\ mode[j] \in {"done", "gap"} => step'[j] = "idle" /\ answer'[j] = "ok"
                              /\ mode[j] = "done" => tail'[j] \subseteq ReadBy(j)
            BY <4>1 DEF ReaderInv, ReadBy
          <5>1. CASE j = i
            BY <4>1, <5>1 DEF ReaderInv
          <5>2. CASE j # i
            BY <3>1, <4>1, <5>2 DEF ReaderInv
          <5> QED BY <5>1, <5>2
        <4>3. ASSUME NEW j \in Intents, j # i, Reading(j)' PROVE PageFits(j)'
          <5>1. Reading(j) /\ PageFits(j)
            BY <1>1, <2>2, <4>3 DEF PageInv, Reading, Kind
          <5> QED BY <4>1, <4>3, <5>1 DEF PageFits, ReadBy, Fetched
        <4> QED BY <4>1, <4>2, <4>3 DEF PageInv
      <3> QED BY <3>2, <3>3
    <2> QED BY <2>4, <2>5, <2>6, <2>7, <2>8
  <1> QED BY <1>3, <1>4 DEF ChatServes, Goes, Answers

\* A page that is turned, to the end of the list or to its front.
LEMMA PageTurned ==
  ASSUME IndInv, NEW i \in Intents, Reading(i), Turns(i)
  PROVE  /\ read' \in [Intents -> Seq(Message)]
         /\ mode' \in [Intents -> {"first", "paging", "catchingUp", "done", "gap"}]
         /\ \A j \in Intents \ {i} : read'[j] = read[j] /\ mode'[j] = mode[j]
         /\ InOrder(read'[i])
         /\ mode'[i] \in {"paging", "catchingUp", "done", "gap"}
         /\ mode'[i] \in {"done", "gap"} => mode[i] = "catchingUp"
         /\ mode'[i] = "paging" =>
              /\ read'[i] # <<>>
              /\ \A m \in began[i] : m \in ReadBy(i)' \/ Older(m, Last(read'[i]))
         /\ mode'[i] \in {"catchingUp", "done", "gap"} => began[i] \subseteq ReadBy(i)'
         /\ mode'[i] = "done" => tail[i] \subseteq ReadBy(i)'
  <1> USE DEF IndInv
  <1> DEFINE page == fetched[i]
             has  == read[i]
             full == Len(page) = Limit
  <1>1. page \in Seq(Message) /\ has \in Seq(Message) /\ InOrder(page) /\ InOrder(has)
    BY DEF TypeOK, PageInv, PageFits, ReaderInv
  <1>2. Fetched(i) = Range(page) /\ ReadBy(i) = Range(has) /\ ReadBy(i)' = Range(read'[i])
    BY DEF Fetched, ReadBy, Range
  <1>3. /\ \A k \in DOMAIN page : page[k] \in Message /\ page[k] \in Fetched(i)
        /\ \A k \in DOMAIN has : has[k] \in Message
    BY <1>1, ElementOfSeq, LenProperties DEF Fetched
  <1>4. mode[i] \in {"first", "paging", "catchingUp"}
    BY DEF TypeOK, ReaderInv, Reading
  <1>5. CASE mode[i] = "catchingUp"
    <2>1. /\ read' = [read EXCEPT ![i] = page \o has]
          /\ mode' = [mode EXCEPT ![i] = IF full THEN "gap" ELSE "done"]
      BY <1>5 DEF Turns
    <2>2. \A j \in DOMAIN page, k \in DOMAIN has : NewestFirst(page[j], has[k])
      <3> SUFFICES ASSUME NEW j \in DOMAIN page, NEW k \in DOMAIN has
                   PROVE  NewestFirst(page[j], has[k])
        OBVIOUS
      <3>1. has # <<>>
        BY <1>1, LenProperties
      <3>2. Younger(page[j], has[1].time)
        BY <1>3, <1>5, <3>1 DEF PageInv, PageFits
      <3>3. has[1] \in Message /\ (has[k] = has[1] \/ NewestFirst(has[1], has[k]))
        BY <1>1, <3>1, EndsOfList
      <3>4. 0..MaxTime \subseteq Nat
        BY BoundsAssumption
      <3> QED BY <1>3, <3>2, <3>3, <3>4 DEF Younger, NewestFirst, Message
    <2>3. /\ page \o has \in Seq(Message) /\ InOrder(page \o has)
          /\ Range(page \o has) = Fetched(i) \union ReadBy(i)
      BY <1>1, <1>2, <2>2, JoinInOrder
    <2>4. began[i] \subseteq ReadBy(i) /\ (tail[i] \subseteq Fetched(i) \/ full)
      BY <1>5 DEF ReaderInv, PageInv, PageFits
    <2>5. read'[i] = page \o has /\ mode'[i] \in {"done", "gap"} /\ (mode'[i] = "done" => ~full)
      BY <2>1 DEF TypeOK
    <2>6. ReadBy(i)' = Fetched(i) \union ReadBy(i)
      BY <1>2, <2>3, <2>5
    <2>7. /\ read' \in [Intents -> Seq(Message)]
          /\ mode' \in [Intents -> {"first", "paging", "catchingUp", "done", "gap"}]
          /\ \A j \in Intents \ {i} : read'[j] = read[j] /\ mode'[j] = mode[j]
      BY <2>1, <2>3 DEF TypeOK
    <2> QED BY <1>5, <2>3, <2>4, <2>5, <2>6, <2>7
  <1>6. CASE mode[i] # "catchingUp"
    <2>1. /\ read' = [read EXCEPT ![i] = has \o page]
          /\ mode' = [mode EXCEPT ![i] = IF full THEN "paging" ELSE "catchingUp"]
      BY <1>6 DEF Turns
    <2>2. \A j \in DOMAIN has, k \in DOMAIN page : NewestFirst(has[j], page[k])
      <3> SUFFICES ASSUME NEW j \in DOMAIN has, NEW k \in DOMAIN page
                   PROVE  NewestFirst(has[j], page[k])
        OBVIOUS
      <3>1. has # <<>>
        BY <1>1, LenProperties
      <3>2. Older(page[k], Last(has))
        BY <1>3, <1>4, <1>6, <3>1 DEF PageInv, PageFits
      <3>3. Last(has) \in Message /\ (has[j] = Last(has) \/ NewestFirst(has[j], Last(has)))
        BY <1>1, <3>1, EndsOfList
      <3> QED BY <1>3, <3>2, <3>3, SortOrder
    <2>3. /\ has \o page \in Seq(Message) /\ InOrder(has \o page)
          /\ Range(has \o page) = ReadBy(i) \union Fetched(i)
          /\ page # <<>> => has \o page # <<>> /\ Last(has \o page) = Last(page)
      BY <1>1, <1>2, <2>2, JoinInOrder
    <2>4. \A m \in began[i] : m \in ReadBy(i) \union Fetched(i) \/ (full /\ Older(m, Last(page)))
      BY <1>4, <1>6 DEF PageInv, PageFits
    <2>5. /\ read'[i] = has \o page /\ mode'[i] \in {"paging", "catchingUp"}
          /\ mode'[i] = "paging" <=> full
      BY <2>1 DEF TypeOK
    <2>6. ReadBy(i)' = ReadBy(i) \union Fetched(i)
      BY <1>2, <2>3, <2>5
    <2>7. full => page # <<>>
      BY BoundsAssumption
    <2>8. /\ read' \in [Intents -> Seq(Message)]
          /\ mode' \in [Intents -> {"first", "paging", "catchingUp", "done", "gap"}]
          /\ \A j \in Intents \ {i} : read'[j] = read[j] /\ mode'[j] = mode[j]
      BY <2>1, <2>3 DEF TypeOK
    <2> QED BY <2>3, <2>4, <2>5, <2>6, <2>7, <2>8
  <1> QED BY <1>5, <1>6

\* chat-service's answer arrives.
LEMMA ChatAnswersKeepsInv ==
  ASSUME IndInv, NEW i \in Intents, ChatAnswers(i)
  PROVE  IndInv'
  <1> USE DEF IndInv
  <1>1. /\ UNCHANGED <<wanted, phase, signals, services, late, effects, unheard>>
        /\ step[i] = "served" /\ Kind(i) # "none"
    BY DEF ChatAnswers, StepInv
  <1>2. CASE Kind(i) # "history"
    <2>1. /\ UNCHANGED <<tries, readers>>
          /\ \/ /\ step' = [step EXCEPT ![i] = "hydrate"] /\ UNCHANGED answer
                /\ Kind(i) \in {"group", "direct", "list", "get"}
             \/ step' = [step EXCEPT ![i] = "idle"] /\ answer' = [answer EXCEPT ![i] = "ok"]
      <3>1. Kind(i) \in {"group", "direct", "list", "get", "message"}
        BY <1>1, <1>2 DEF TypeOK, Wants, Kind
      <3> QED BY <3>1 DEF ChatAnswers, Goes, Answers
    <2>2. TypeOK' /\ StoreInv'
      BY <1>1, <2>1 DEF TypeOK, StoreInv, services, readers
    <2>3. StepInv'
      BY <1>1, <2>1 DEF StepInv, Kind, TypeOK
    <2>4. EffectInv'
      <3>1. \A j \in Intents \ {i} : step'[j] = step[j] /\ answer'[j] = answer[j]
        BY <2>1 DEF TypeOK
      <3>2. \/ step'[i] = "hydrate" /\ answer'[i] = answer[i]
            \/ step'[i] = "idle" /\ answer'[i] = "ok"
        BY <2>1 DEF TypeOK
      <3> QED BY <1>1, <3>1, <3>2 DEF EffectInv, Creates, Kind, Members
    <2>5. ReaderInv' /\ PageInv'
      <3>1. \A j \in Intents : mode[j] \in {"done", "gap"} => step'[j] = "idle" /\ answer'[j] = "ok"
        BY <1>1, <2>1 DEF ReaderInv, TypeOK
      <3>2. \A j \in Intents : Reading(j)' => Reading(j)
        BY <1>1, <2>1 DEF Reading, Kind, TypeOK
      <3> QED BY <1>1, <2>1, <3>1, <3>2, ReadersStay DEF services, readers
    <2> QED BY <2>2, <2>3, <2>4, <2>5
  <1>3. CASE Kind(i) = "history"
    <2>1. /\ Turns(i) /\ step' = [step EXCEPT ![i] = "idle"]
          /\ answer' = [answer EXCEPT ![i] = IF mode[i] = "catchingUp" THEN "ok" ELSE "unasked"]
          /\ tries' = [tries EXCEPT ![i] = 0] /\ fetched' = [fetched EXCEPT ![i] = <<>>]
          /\ UNCHANGED <<began, tail>>
      BY <1>3 DEF ChatAnswers, Answers
    <2>2. /\ read' \in [Intents -> Seq(Message)]
          /\ mode' \in [Intents -> {"first", "paging", "catchingUp", "done", "gap"}]
          /\ \A j \in Intents \ {i} : read'[j] = read[j] /\ mode'[j] = mode[j]
          /\ InOrder(read'[i])
          /\ mode'[i] \in {"paging", "catchingUp", "done", "gap"}
          /\ mode'[i] \in {"done", "gap"} => mode[i] = "catchingUp"
          /\ mode'[i] = "paging" =>
               /\ read'[i] # <<>>
               /\ \A m \in began[i] : m \in ReadBy(i)' \/ Older(m, Last(read'[i]))
          /\ mode'[i] \in {"catchingUp", "done", "gap"} => began[i] \subseteq ReadBy(i)'
          /\ mode'[i] = "done" => tail[i] \subseteq ReadBy(i)'
      BY <1>1, <1>3, <2>1, PageTurned DEF Reading
    <2>3. /\ step'[i] = "idle" /\ (mode[i] = "catchingUp" => answer'[i] = "ok")
          /\ \A j \in Intents \ {i} : step'[j] = step[j] /\ answer'[j] = answer[j]
                                      /\ fetched'[j] = fetched[j]
      BY <2>1 DEF TypeOK
    <2>4. TypeOK'
      <3>1. fetched' \in [Intents -> Seq(Message)] /\ tries' \in [Intents -> 0..MaxTries]
        BY <2>1, BoundsAssumption DEF TypeOK
      <3> QED BY <1>1, <2>1, <2>2, <3>1 DEF TypeOK, services
    <2>5. StoreInv'
      BY <1>1 DEF StoreInv, services
    <2>6. StepInv'
      BY <1>1, <2>3 DEF StepInv, Kind
    <2>7. EffectInv'
      <3>1. ~Creates(i)
        BY <1>3 DEF Creates
      <3> QED BY <1>1, <2>3, <3>1 DEF EffectInv, Creates, Kind, Members
    <2>8. ReaderInv'
      <3> SUFFICES ASSUME NEW j \in Intents
                   PROVE  /\ InOrder(read'[j]) /\ began[j] \subseteq messages
                          /\ mode'[j] = "first" => read'[j] = <<>>
                          /\ mode'[j] = "paging" =>
                               /\ read'[j] # <<>>
                               /\ \A m \in began[j] : m \in ReadBy(j)' \/ Older(m, Last(read'[j]))
                          /\ mode'[j] \in {"catchingUp", "done", "gap"} => began[j] \subseteq ReadBy(j)'
                          /\ mode'[j] \in {"done", "gap"} => step'[j] = "idle" /\ answer'[j] = "ok"
                          /\ mode'[j] = "done" => tail[j] \subseteq ReadBy(j)'
        BY <1>1, <2>1 DEF ReaderInv, services
      <3>1. CASE j = i
        BY <2>2, <2>3, <3>1 DEF ReaderInv
      <3>2. CASE j # i
        <4>1. ReadBy(j)' = ReadBy(j)
          BY <2>2, <3>2 DEF ReadBy
        <4> QED BY <2>2, <2>3, <3>2, <4>1 DEF ReaderInv
      <3> QED BY <3>1, <3>2
    <2>9. PageInv'
      <3> SUFFICES ASSUME NEW j \in Intents, Reading(j)' PROVE PageFits(j)'
        BY DEF PageInv
      <3>1. j # i /\ Reading(j) /\ PageFits(j)
        BY <1>1, <2>3 DEF PageInv, Reading, Kind
      <3>2. /\ read'[j] = read[j] /\ mode'[j] = mode[j] /\ fetched'[j] = fetched[j]
            /\ began'[j] = began[j] /\ tail'[j] = tail[j]
        BY <2>1, <2>2, <2>3, <3>1
      <3>3. ReadBy(j)' = ReadBy(j) /\ Fetched(j)' = Fetched(j)
        BY <3>2 DEF ReadBy, Fetched
      <3> QED BY <3>1, <3>2, <3>3 DEF PageFits
    <2> QED BY <2>4, <2>5, <2>6, <2>7, <2>8, <2>9
  <1> QED BY <1>2, <1>3

\* Every step keeps the invariant: by the kind of its action.
LEMMA StepKeepsInv == IndInv /\ [Next]_vars => IndInv'
  <1> SUFFICES ASSUME IndInv, [Next]_vars PROVE IndInv'
    OBVIOUS
  <1>1. ASSUME NEW i \in Intents, Ask(i) \/ TimesOut(i) \/ ServedLate(i) PROVE IndInv'
    BY <1>1, AskKeepsInv, TimesOutKeepsInv, ServedLateKeepsInv
  <1>2. ASSUME NEW i \in Intents, Handle(i) PROVE IndInv'
    BY <1>2, FindUserKeepsInv, ChatServesKeepsInv, ChatAnswersKeepsInv, HydrateKeepsInv DEF Handle
  <1>3. CASE (\E u \in Users : Learn(u)) \/ Tick \/ Terminate \/ Exit \/ Start \/ UNCHANGED vars
    BY <1>3, ProcessKeepsInv
  <1>4. CASE ForceExit
    BY <1>4, ForceExitKeepsInv
  <1> QED BY <1>1, <1>2, <1>3, <1>4 DEF Next

-----------------------------------------------------------------------------
\* Gateway: the theorems

\* The invariant holds of every behaviour.
THEOREM Invariance == Spec => []IndInv
  BY InitInv, StepKeepsInv, PTL DEF Spec

\* Every variable of a reachable state has its type, ids stay a key of the messages, and
\* no request outlives its process.
THEOREM TypeCorrect == Spec => []TypeOK
  <1>1. IndInv => TypeOK
    BY DEF IndInv
  <1> QED BY <1>1, Invariance, PTL

\* What a client asked for, once or again after 500 or nothing, is made at most once,
\* unless one of its requests ended without telling it of an effect.
THEOREM OncePerIntent == Spec => []OncePerIntentUnlessUnheard
  <1>1. IndInv => OncePerIntentUnlessUnheard
    <2> SUFFICES ASSUME IndInv, NEW i \in Intents, effects[i] > 1
                 PROVE  i \in unheard
      BY DEF OncePerIntentUnlessUnheard
    <2>1. effects[i] \in 0..2
      BY DEF IndInv, TypeOK
    <2>2. effects[i] > 0 /\ effects[i] # 1
      BY <2>1
    <2> QED BY <2>2 DEF IndInv, EffectInv
  <1> QED BY <1>1, Invariance, PTL

\* A refused request leaves nothing in chat-service, but for a group larger than
\* POST /users/by-ids admits, which is created first and answered 422 then.
THEOREM Refused == Spec => []RefusedLeavesNothing
  <1>1. IndInv => RefusedLeavesNothing
    <2> SUFFICES ASSUME IndInv, NEW i \in Intents \ unheard, effects[i] # 0,
                        answer[i] \in {"400", "403", "404", "422"}
                 PROVE  Kind(i) = "group" /\ Cardinality(Members(i)) > MaxIds
      BY DEF RefusedLeavesNothing
    <2>1. effects[i] > 0
      <3>1. effects[i] \in 0..2
        BY DEF IndInv, TypeOK
      <3> QED BY <3>1
    <2>2. step[i] = "idle"
      BY DEF IndInv, TypeOK, StepInv
    <2> QED BY <2>1, <2>2 DEF IndInv, EffectInv
  <1> QED BY <1>1, Invariance, PTL

\* A reader that pages backwards while others send gets the messages in order, none
\* twice, and misses none that was stored when its first page was read: for any number of
\* messages and any size of a page.
THEOREM Paged == Spec => []PagedExactly
  <1>1. IndInv => PagedExactly
    BY DEF IndInv, ReaderInv, InOrder, PagedExactly
  <1> QED BY <1>1, Invariance, PTL

\* A reader whose catch-up came back not full has everything stamped later than what it
\* had.
THEOREM CaughtUp == Spec => []CaughtUpUnlessFull
  <1>1. IndInv => CaughtUpUnlessFull
    BY DEF IndInv, ReaderInv, CaughtUpUnlessFull
  <1> QED BY <1>1, Invariance, PTL
=============================================================================
