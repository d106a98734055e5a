------------------------------ MODULE Gateway ------------------------------
(***************************************************************************)
(* The gateway between a client and chat-service and user-service:         *)
(* controller/conversation.controller.ts over services/chat-proxy and      *)
(* user-proxy, and the shutdown of main.ts.                                *)
(*                                                                         *)
(* A request is a chain of upstream calls, each with a timeout of its own. *)
(* A call that timed out may still take effect later.  What the services   *)
(* do for a call is one step here: their own steps are ChatConversations'  *)
(* and UserProfiles'.  A client wants something (an intent), and asks      *)
(* again when it was told 500 or nothing; a reader pages backwards through *)
(* the messages, and then asks for what is new.                            *)
(***************************************************************************)
EXTENDS FiniteSets, MessagePaging

CONSTANTS
  Users,
  Intents,      \* what clients pursue at a time
  Scenarios,    \* bound: what they want, and what the services hold to begin with
  MaxIds,       \* ids POST /users/by-ids takes: 100
  Limit,        \* messages on a page
  Ids,          \* bound: ids of messages
  MaxTime,      \* bound: the clock
  MaxTries,     \* bound: times a client asks for one thing
  MaxSignals    \* bound: SIGTERMs

Message == [id : Ids, time : 0..MaxTime]

\* Whether the user belongs to the conversation it names is known beforehand.
Wants == [kind : {"none", "group", "direct", "message", "list", "get", "history"},
          by : Users, names : SUBSET Users, member : BOOLEAN]

\* A client lists the users it names, one for a direct conversation; ids of messages are
\* a primary key.
NamesFew(w) ==
  /\ IsFiniteSet(w.names)
  /\ w.kind = "direct" => \E u \in Users : w.names = {u}
ASSUME ScenariosAssumption ==
  \A c \in Scenarios : /\ c.wanted \in [Intents -> Wants]
                       /\ \A i \in Intents : NamesFew(c.wanted[i])
                       /\ c.known \subseteq Users
                       /\ c.messages \subseteq Message /\ IsFiniteSet(c.messages)
                       /\ \A m, n \in c.messages : m.id = n.id => m = n
ASSUME BoundsAssumption ==
  /\ MaxIds \in Nat \ {0, 1} /\ Limit \in Nat \ {0} /\ MaxTime \in Nat
  /\ MaxTries \in Nat /\ MaxSignals \in Nat /\ Ids \subseteq Nat \ {0}

VARIABLES
  wanted,       \* per intent: its kind, its user, the users it names, its membership
  phase,        \* the gateway's process
  signals,      \* SIGTERMs so far
  known,        \* users in user-service, which syncs them from auth-service
  groups,       \* chat-service's group conversations, by the intents that made them
  directs,      \* its direct conversations
  messages,     \* the messages of the conversation that is read
  now,          \* chat-service's clock
  step,         \* per intent: the call its handler waits for
  answer,       \* per intent: the last answer
  tries,        \* per intent: unsuccessful or running requests
  late,         \* intents with a call at chat-service that nobody waits for
  effects,      \* history: what chat-service made for an intent, counted up to 2
  unheard,      \* history: intents whose request ended with an effect, or with one to
                \* come, that the client was not told of
  fetched,      \* per intent: the page chat-service answers
  read,         \* per reader: the messages it has
  began,        \* history: per reader: what was stored when its first page was read
  mode,         \* per reader: what it does
  tail          \* history: per reader: what was new when it asked for what is new

services == <<known, groups, directs, messages, now>>
requests == <<step, answer, tries, late>>
readers  == <<fetched, read, began, mode, tail>>
vars == <<wanted, phase, signals, services, requests, effects, unheard, readers>>

Kind(i)    == wanted[i].kind
Members(i) == wanted[i].names \union {wanted[i].by}
Creates(i) == Kind(i) \in {"group", "direct", "message"}
ReadBy(i)  == {read[i][k] : k \in DOMAIN read[i]}

TypeOK ==
  /\ wanted \in [Intents -> Wants]
  /\ phase \in {"up", "closing", "down"}
  /\ signals \in 0..MaxSignals
  /\ known \subseteq Users
  /\ groups \subseteq Intents
  /\ directs \subseteq SUBSET Users
  /\ messages \subseteq Message /\ \A m, n \in messages : m.id = n.id => m = n
  /\ now \in 0..MaxTime
  /\ step \in [Intents -> {"idle", "findUser", "chat", "served", "hydrate"}]
  /\ answer \in [Intents -> {"unasked", "ok", "400", "403", "404", "422", "500", "lost"}]
  /\ tries \in [Intents -> 0..MaxTries]
  /\ late \subseteq Intents /\ unheard \subseteq Intents
  /\ effects \in [Intents -> 0..2]
  /\ fetched \in [Intents -> Seq(Message)] /\ read \in [Intents -> Seq(Message)]
  /\ began \in [Intents -> SUBSET Message] /\ tail \in [Intents -> SUBSET Message]
  /\ mode \in [Intents -> {"first", "paging", "catchingUp", "done", "gap"}]
  /\ \A i \in Intents : step[i] # "idle" => phase # "down"

Init ==
  /\ \E c \in Scenarios :
       wanted = c.wanted /\ known = c.known /\ messages = c.messages
  /\ phase = "up" /\ signals = 0
  /\ groups = {} /\ directs = {}
  /\ now = 0
  /\ step = [i \in Intents |-> "idle"]
  /\ answer = [i \in Intents |-> "unasked"]
  /\ tries = [i \in Intents |-> 0]
  /\ late = {} /\ unheard = {}
  /\ effects = [i \in Intents |-> 0]
  /\ fetched = [i \in Intents |-> <<>>]
  /\ read = [i \in Intents |-> <<>>]
  /\ began = [i \in Intents |-> {}]
  /\ mode = [i \in Intents |-> "first"]
  /\ tail = [i \in Intents |-> {}]

-----------------------------------------------------------------------------
\* Clients (external), and what the handler refuses before any call

\* A group of one, a direct conversation with oneself, somebody else's list.
Refusal(i) ==
  CASE Kind(i) = "group" /\ Cardinality(Members(i)) < 2      -> "400"
    [] Kind(i) = "direct" /\ wanted[i].names = {wanted[i].by} -> "400"
    [] Kind(i) = "list" /\ wanted[i].names \ {wanted[i].by} # {} -> "403"
    [] OTHER -> "none"

FirstCall(i) == IF Kind(i) = "direct" THEN "findUser" ELSE "chat"

Ask(i) ==
  /\ phase = "up" /\ Kind(i) # "none"
  /\ step[i] = "idle" /\ tries[i] < MaxTries
  /\ answer[i] \in {"unasked", "500", "lost"}
  /\ tries' = [tries EXCEPT ![i] = @ + 1]
  /\ IF Refusal(i) = "none"
     THEN step' = [step EXCEPT ![i] = FirstCall(i)] /\ UNCHANGED answer
     ELSE answer' = [answer EXCEPT ![i] = Refusal(i)] /\ UNCHANGED step
  /\ UNCHANGED <<wanted, phase, signals, services, late, effects, unheard, readers>>

-----------------------------------------------------------------------------
\* The services (external here)

Learn(u) ==
  /\ u \notin known
  /\ known' = known \union {u}
  /\ UNCHANGED <<wanted, phase, signals, groups, directs, messages, now, requests, effects,
                 unheard, readers>>

Tick ==
  /\ now < MaxTime
  /\ \E i \in Intents : Kind(i) = "history"
  /\ now' = now + 1
  /\ UNCHANGED <<wanted, phase, signals, known, groups, directs, messages, requests,
                 effects, unheard, readers>>

\* createdAt is read before the insert: the clock may have moved since.
Stamps == {t \in {now - 1, now} : t >= 0}

Made(i) == effects' = [effects EXCEPT ![i] = IF @ < 2 THEN @ + 1 ELSE @]

\* What is stamped later than all a reader has.
New(i) == {m \in messages : \A n \in ReadBy(i) : m.time > n.time}

\* A conversation is created, a direct one unless the pair has one; a message is
\* stored; a reader's page is taken.
Effect(i) ==
  \/ /\ Kind(i) = "group"
     /\ groups' = groups \union {i} /\ Made(i)
     /\ UNCHANGED <<directs, messages, readers>>
  \/ /\ Kind(i) = "direct"
     /\ directs' = directs \union {Members(i)}
     /\ IF Members(i) \in directs THEN UNCHANGED effects ELSE Made(i)
     /\ UNCHANGED <<groups, messages, readers>>
  \/ /\ Kind(i) = "message"
     /\ \E x \in Ids \ {m.id : m \in messages}, t \in Stamps :
          messages' = messages \union {[id |-> x, time |-> t]}
     /\ Made(i)
     /\ UNCHANGED <<groups, directs, readers>>
  \/ /\ Kind(i) = "history"
     /\ fetched' = [fetched EXCEPT ![i] =
          IF mode[i] = "catchingUp"
          THEN Page(messages, NoMessage, IF read[i] = <<>> THEN NoTime ELSE read[i][1].time, Limit)
          ELSE Page(messages, IF read[i] = <<>> THEN NoMessage ELSE Last(read[i]), NoTime, Limit)]
     /\ began' = IF mode[i] = "first" THEN [began EXCEPT ![i] = messages] ELSE began
     /\ tail' = IF mode[i] = "catchingUp" THEN [tail EXCEPT ![i] = New(i)] ELSE tail
     /\ UNCHANGED <<groups, directs, messages, effects, read, mode>>
  \/ /\ Kind(i) \in {"list", "get"}
     /\ UNCHANGED <<groups, directs, messages, effects, readers>>

-----------------------------------------------------------------------------
\* The handlers

Answers(i, a) == step' = [step EXCEPT ![i] = "idle"] /\ answer' = [answer EXCEPT ![i] = a]
Goes(i, s)    == step' = [step EXCEPT ![i] = s] /\ UNCHANGED answer

\* getUserById before a direct conversation: 404 as long as the sync has not come.
FindUser(i) ==
  /\ step[i] = "findUser"
  /\ IF wanted[i].names \subseteq known THEN Goes(i, "chat") ELSE Answers(i, "404")
  /\ UNCHANGED <<wanted, phase, signals, services, tries, late, effects, unheard, readers>>

\* chat-service does what it was asked, or refuses one who does not belong.
ChatServes(i) ==
  /\ step[i] = "chat"
  /\ \/ wanted[i].member /\ Effect(i) /\ Goes(i, "served")
     \/ ~wanted[i].member /\ Answers(i, "403")
        /\ UNCHANGED <<groups, directs, messages, effects, readers>>
  /\ UNCHANGED <<wanted, phase, signals, known, now, tries, late, unheard>>

\* A call nobody waits for any more.
ServedLate(i) ==
  /\ i \in late /\ wanted[i].member
  /\ Effect(i) /\ UNCHANGED readers
  /\ late' = late \ {i}
  /\ UNCHANGED <<wanted, phase, signals, known, now, step, answer, tries, unheard>>

\* The reader appends the page and goes on until one is not full; then once more for
\* what is new, which it puts in front.
Turns(i) ==
  LET full == Len(fetched[i]) = Limit IN
  IF mode[i] = "catchingUp"
  THEN /\ read' = [read EXCEPT ![i] = fetched[i] \o @]
       /\ mode' = [mode EXCEPT ![i] = IF full THEN "gap" ELSE "done"]
  ELSE /\ read' = [read EXCEPT ![i] = @ \o fetched[i]]
       /\ mode' = [mode EXCEPT ![i] = IF full THEN "paging" ELSE "catchingUp"]

\* chat-service's answer: conversations are hydrated, messages are handed on.
ChatAnswers(i) ==
  /\ step[i] = "served"
  /\ CASE Kind(i) \in {"group", "direct", "list", "get"} ->
            Goes(i, "hydrate") /\ UNCHANGED <<tries, readers>>
       [] Kind(i) = "message" -> Answers(i, "ok") /\ UNCHANGED <<tries, readers>>
       [] Kind(i) = "history" ->
            /\ Turns(i)
            /\ Answers(i, IF mode[i] = "catchingUp" THEN "ok" ELSE "unasked")
            /\ tries' = [tries EXCEPT ![i] = 0]
            /\ fetched' = [fetched EXCEPT ![i] = <<>>]
            /\ UNCHANGED <<began, tail>>
  /\ UNCHANGED <<wanted, phase, signals, services, late, effects, unheard>>

\* The ids the handler sends to /users/by-ids.
IdsToHydrate(i) ==
  IF Kind(i) # "list" THEN Members(i)
  ELSE UNION ({c \in directs : wanted[i].by \in c}
              \union {c \in {Members(j) : j \in groups} : wanted[i].by \in c})

\* What POST /users/by-ids takes: some ids, and not too many.
ByIdsAdmits(ids) == Cardinality(ids) \in 1..MaxIds

\* (A participant user-service does not know is an error.)
HydrateStrict(i) ==
  /\ step[i] = "hydrate"
  /\ Answers(i, IF ~(IdsToHydrate(i) \subseteq known) THEN "404"
                ELSE IF ByIdsAdmits(IdsToHydrate(i)) THEN "ok" ELSE "422")
  /\ UNCHANGED <<wanted, phase, signals, services, tries, late, effects, unheard, readers>>

\* Whom user-service does not know is left out of the answer.
Hydrate(i) ==
  /\ step[i] = "hydrate"
  /\ Answers(i, IF ByIdsAdmits(IdsToHydrate(i)) THEN "ok" ELSE "422")
  /\ UNCHANGED <<wanted, phase, signals, services, tries, late, effects, unheard, readers>>

\* Whose client is told nothing of an effect.
Ended(i) ==
  unheard' = IF Creates(i) /\ step[i] \in {"chat", "served", "hydrate"}
             THEN unheard \union {i} ELSE unheard

\* (The proxy calls again.)
TimesOutRetrying(i) ==
  /\ step[i] \in {"chat", "served"} /\ step' = [step EXCEPT ![i] = "chat"]
  /\ UNCHANGED <<wanted, phase, signals, services, answer, tries, late, effects, unheard,
                 readers>>

\* (No timeout on the client of user-service.)
TimesOutInChat(i) ==
  /\ step[i] \in {"chat", "served"}
  /\ Answers(i, "500")
  /\ Ended(i)
  /\ late' = IF Creates(i) /\ step[i] = "chat" THEN late \union {i} ELSE late
  /\ fetched' = [fetched EXCEPT ![i] = <<>>]
  /\ UNCHANGED <<wanted, phase, signals, services, tries, effects, read, began, mode, tail>>

\* A call takes longer than the client's 5 s, breaks, or is answered 500.
TimesOut(i) ==
  /\ step[i] # "idle"
  /\ Answers(i, "500")
  /\ Ended(i)
  /\ late' = IF Creates(i) /\ step[i] = "chat" THEN late \union {i} ELSE late
  /\ fetched' = [fetched EXCEPT ![i] = <<>>]
  /\ UNCHANGED <<wanted, phase, signals, services, tries, effects, read, began, mode, tail>>

-----------------------------------------------------------------------------
\* shutdown

Terminate ==
  /\ phase = "up" /\ signals < MaxSignals
  /\ phase' = "closing" /\ signals' = signals + 1
  /\ UNCHANGED <<wanted, services, requests, effects, unheard, readers>>

Running == {i \in Intents : step[i] # "idle"}

\* (An exit that does not wait for server.close.)
ExitAtOnce ==
  /\ phase = "closing"
  /\ phase' = "down"
  /\ UNCHANGED <<wanted, signals, services, requests, effects, unheard, readers>>

\* server.close calls back when the last request was answered.
Exit ==
  /\ phase = "closing" /\ Running = {}
  /\ phase' = "down"
  /\ UNCHANGED <<wanted, signals, services, requests, effects, unheard, readers>>

\* The timer of 10 s, which a chain of calls may outlast.
ForceExit ==
  /\ phase = "closing" /\ Running # {}
  /\ phase' = "down"
  /\ step' = [i \in Intents |-> "idle"]
  /\ answer' = [i \in Intents |-> IF i \in Running THEN "lost" ELSE answer[i]]
  /\ unheard' = unheard \union {i \in Running : Creates(i) /\ step[i] # "findUser"}
  /\ late' = late \union {i \in Running : Creates(i) /\ step[i] = "chat"}
  /\ fetched' = [i \in Intents |-> <<>>]
  /\ UNCHANGED <<wanted, signals, services, tries, effects, read, began, mode, tail>>

Start ==
  /\ phase = "down"
  /\ phase' = "up"
  /\ UNCHANGED <<wanted, signals, services, requests, effects, unheard, readers>>

-----------------------------------------------------------------------------
Handle(i) == FindUser(i) \/ ChatServes(i) \/ ChatAnswers(i) \/ Hydrate(i)

Next ==
  \/ \E i \in Intents : Ask(i) \/ Handle(i) \/ TimesOut(i) \/ ServedLate(i)
  \/ \E u \in Users : Learn(u)
  \/ Tick
  \/ Terminate \/ Exit \/ ForceExit \/ Start

Spec == Init /\ [][Next]_vars

\* Of the services nothing is assumed.  Every call has its timeout, the process exits
\* when it may and is restarted, and a reader asks on.
Fairness ==
  /\ \A i \in Intents : WF_vars(TimesOut(i))
  /\ WF_vars(Exit) /\ WF_vars(Start)

FairSpec == Spec /\ Fairness

-----------------------------------------------------------------------------
\* Properties

\* What a client asked for, once or again after 500 or nothing, is made at most once,
\* unless a request had ended without telling it of an effect: POST /conversations and
\* messages have no key that would make a repetition harmless.
OncePerIntentUnlessUnheard ==
  \A i \in Intents : effects[i] > 1 => i \in unheard

\* A request that is refused left nothing behind, except a group whose members are more
\* than user-service can be asked for at once: it is created and answered 422.
RefusedLeavesNothing ==
  \A i \in Intents \ unheard :
    answer[i] \in {"400", "403", "404", "422"} =>
      \/ effects[i] = 0
      \/ Kind(i) = "group" /\ Cardinality(Members(i)) > MaxIds

\* A reader that pages backwards while others send, with requests that fail and are
\* repeated, gets the messages in order, none twice, and none that was there at its
\* first page is left out.
PagedExactly ==
  \A i \in Intents :
    /\ \A j, k \in DOMAIN read[i] : j < k => NewestFirst(read[i][j], read[i][k])
    /\ mode[i] \in {"catchingUp", "done", "gap"} => began[i] \subseteq ReadBy(i)

\* Once its catch-up came back not full, it has everything stamped later than what it
\* had.  A full page says nothing of what lies between, and a message stamped no later
\* but stored since is never asked for.
CaughtUpUnlessFull ==
  \A i \in Intents : mode[i] = "done" => tail[i] \subseteq ReadBy(i)

\* However the services hang, a request is answered or its process is forced out, and a
\* gateway that was told to stop stops by itself.
EventuallyAnswered ==
  /\ \A i \in Intents : step[i] # "idle" ~> step[i] = "idle"
  /\ phase = "closing" ~> phase = "down"

\* docs/openapi.yaml:221-231 lists 200, 401 and 403 for GET /conversations, "Conversation
\* list": a caller's own list is answered, or the services are not available.
OwnListIsAnswered ==
  \A i \in Intents :
    Kind(i) = "list" => answer[i] # "422"
=============================================================================
