-------------------------- MODULE ChatConversations --------------------------
(***************************************************************************)
(* chat-service's conversations: services/conversation.service.ts and      *)
(* services/message.service.ts over the conversations and messages         *)
(* collections (MongoDB) and the read-through copy of a conversation in    *)
(* Redis (cache/conversation.cache.ts, 60 s).                              *)
(*                                                                         *)
(* Requests are handler runs in any number of processes; they share        *)
(* nothing but the two stores, and interleave at every await.  A request   *)
(* runs once; the conversation or message it inserts is known by it.       *)
(* Of a conversation only what changes is kept, lastMessagePreview: the    *)
(* message it was taken from.                                              *)
(***************************************************************************)
EXTENDS Naturals, FiniteSets

CONSTANTS
  Requests,     \* handler runs
  Users,
  Nothing,      \* no message, no conversation, no cached copy
  MaxFaults     \* bound: failed or repeated statements

ASSUME NothingAssumption   == Nothing \notin Requests
ASSUME MaxFaultsAssumption == MaxFaults \in Nat

VARIABLES
  doc,         \* the conversations collection
  stored,      \* the messages collection
  now,         \* the clock that stamps messages: it goes on, or not, between two stamps
  createdAt,   \* per send: its message's stamp, taken before the insert
  cache,       \* per conversation: the preview of the copy in Redis, or no copy
  request,     \* per handler run: its step, its arguments, what it has read
  raced,       \* history: conversations updated while a request held a copy it was
               \* to put in the cache, or whose invalidation failed
  overtaken,   \* history: conversations whose preview a send updated while one stamped
               \* before it was on its way, or with a send that failed after its insert
  faults       \* faults so far

vars == <<doc, stored, now, createdAt, cache, request, raced, overtaken, faults>>
clock == <<now, createdAt>>

\* The previews a document or a copy can hold; a copy may also be missing.
Previews == Requests \union {Nothing}
NoCopy   == "none"

AbsentDoc == [kind |-> "absent", members |-> {}, preview |-> Nothing]
DocType   == [kind : {"absent", "group", "direct"}, members : SUBSET Users,
              preview : Previews]

NewRequest  == [pc |-> "idle", kind |-> "none", user |-> Nothing, members |-> {},
                conv |-> Nothing, copy |-> Nothing]
RequestType == [pc      : {"idle", "findDirect", "insert", "findExisting", "lookup", "load",
                           "fill", "stamp", "store", "touch", "invalidate", "ok",
                           "refused", "error"},
                kind    : {"none", "direct", "group", "read", "send"},
                user    : Users \union {Nothing},
                members : SUBSET Users,
                conv    : Requests \union {Nothing},
                copy    : Previews]

TypeOK ==
  /\ doc \in [Requests -> DocType]
  /\ \A c \in Requests : doc[c].kind # "absent" => Cardinality(doc[c].members) >= 2
  /\ stored \subseteq Requests
  /\ now \in Nat
  /\ createdAt \in [Requests -> 0..now]
  /\ cache \in [Requests -> Previews \union {NoCopy}]
  /\ request \in [Requests -> RequestType]
  /\ raced \subseteq Requests
  /\ overtaken \subseteq Requests
  /\ faults \in 0..MaxFaults

Init ==
  /\ doc = [c \in Requests |-> AbsentDoc]
  /\ stored = {}
  /\ now = 0
  /\ createdAt = [q \in Requests |-> 0]
  /\ cache = [c \in Requests |-> NoCopy]
  /\ request = [q \in Requests |-> NewRequest]
  /\ raced = {}
  /\ overtaken = {}
  /\ faults = 0

Exists(c) == doc[c].kind # "absent"
DirectOf(members) == {c \in Requests : doc[c].kind = "direct" /\ doc[c].members = members}

\* How a statement can end: it is answered; it is not, and may have been applied
\* or not; the Redis client sends it again after a lost connection.
Answered == "answered"
Lost     == "lost"
Resent   == "resent"

Counted(outcome) ==
  /\ outcome # Answered => faults < MaxFaults
  /\ faults' = IF outcome = Answered THEN faults ELSE faults + 1

\* Where request q goes on after a statement with this outcome.
After(q, outcome, next) ==
  CASE outcome = Answered -> next
    [] outcome = Lost     -> "error"
    [] outcome = Resent   -> request[q].pc

Goes(q, step) == request' = [request EXCEPT ![q].pc = step]

-----------------------------------------------------------------------------
\* Requests arrive

\* (A direct conversation that may be with oneself.)
BeginDirectSelf(q, u, other) ==
  /\ request[q].pc = "idle"
  /\ request' = [request EXCEPT ![q] =
       [NewRequest EXCEPT !.pc = "findDirect", !.kind = "direct", !.user = u,
                          !.members = {u, other}]]
  /\ UNCHANGED <<doc, stored, clock, cache, raced, overtaken, faults>>

\* POST /direct-conversations.  Two users make one pair key, in either order; a
\* request for oneself is refused at once.
BeginDirect(q, u, other) ==
  /\ request[q].pc = "idle"
  /\ u # other
  /\ request' = [request EXCEPT ![q] =
       [NewRequest EXCEPT !.pc = "findDirect", !.kind = "direct", !.user = u,
                          !.members = {u, other}]]
  /\ UNCHANGED <<doc, stored, clock, cache, raced, overtaken, faults>>

\* POST /conversations: the participants and the caller, two at least.
BeginGroup(q, u, members) ==
  /\ request[q].pc = "idle"
  /\ u \in members /\ Cardinality(members) >= 2
  /\ request' = [request EXCEPT ![q] =
       [NewRequest EXCEPT !.pc = "insert", !.kind = "group", !.user = u,
                          !.members = members]]
  /\ UNCHANGED <<doc, stored, clock, cache, raced, overtaken, faults>>

\* Reading a conversation or its messages ("read"), or sending a message, over
\* HTTP or a socket.
BeginUse(q, u, c, kind) ==
  /\ request[q].pc = "idle"
  /\ Exists(c)
  /\ request' = [request EXCEPT ![q] =
       [NewRequest EXCEPT !.pc = "lookup", !.kind = kind, !.user = u, !.conv = c]]
  /\ UNCHANGED <<doc, stored, clock, cache, raced, overtaken, faults>>

-----------------------------------------------------------------------------
\* createConversation and createOrGetDirectConversation

Found(q, c) == request' = [request EXCEPT ![q].pc = "fill", ![q].conv = c,
                                          ![q].copy = doc[c].preview]

FindDirect(q) ==
  /\ request[q].pc = "findDirect"
  /\ LET existing == DirectOf(request[q].members) IN
       \/ \E c \in existing : Found(q, c)
       \/ existing = {} /\ Goes(q, "insert")
  /\ UNCHANGED <<doc, stored, clock, cache, raced, overtaken, faults>>

\* (An index on the pair key that is not unique.)
IndexAdmitsAlways(q) == TRUE

\* The partial unique index on directPairKey, which exists before any insert:
\* ensureConversationIndexes is awaited first, and tried again after a failure.
IndexAdmits(q) == request[q].kind = "direct" => DirectOf(request[q].members) = {}

Insert(q, outcome) ==
  /\ request[q].pc = "insert"
  /\ IndexAdmits(q)
  /\ doc' = [doc EXCEPT ![q] = [kind    |-> request[q].kind,
                                members |-> request[q].members,
                                preview |-> Nothing]]
  /\ request' = [request EXCEPT ![q].pc = After(q, outcome, "fill"), ![q].conv = q]
  /\ Counted(outcome)
  /\ UNCHANGED <<stored, clock, cache, raced, overtaken>>

\* The duplicate key error of a direct conversation.
InsertConflict(q) ==
  /\ request[q].pc = "insert"
  /\ ~IndexAdmits(q)
  /\ Goes(q, "findExisting")
  /\ UNCHANGED <<doc, stored, clock, cache, raced, overtaken, faults>>

FindExisting(q) ==
  /\ request[q].pc = "findExisting"
  /\ \E c \in DirectOf(request[q].members) : Found(q, c)
  /\ UNCHANGED <<doc, stored, clock, cache, raced, overtaken, faults>>

-----------------------------------------------------------------------------
\* getConversationById

\* What a request does with its conversation: the caller must take part in it,
\* then a read is answered and a send makes its message.
Proceed(q) ==
  IF request[q].kind \in {"direct", "group"} THEN "ok"
  ELSE IF request[q].user \notin doc[request[q].conv].members THEN "refused"
  ELSE IF request[q].kind = "read" THEN "ok" ELSE "stamp"

Lookup(q) ==
  /\ request[q].pc = "lookup"
  /\ Goes(q, IF cache[request[q].conv] = NoCopy THEN "load" ELSE Proceed(q))
  /\ UNCHANGED <<doc, stored, clock, cache, raced, overtaken, faults>>

Load(q) ==
  /\ request[q].pc = "load"
  /\ Found(q, request[q].conv)
  /\ UNCHANGED <<doc, stored, clock, cache, raced, overtaken, faults>>

\* conversationCache.set, of what the request has read.
Fill(q, outcome) ==
  /\ request[q].pc = "fill"
  /\ cache' = [cache EXCEPT ![request[q].conv] = request[q].copy]
  /\ Goes(q, After(q, outcome, Proceed(q)))
  /\ Counted(outcome)
  /\ UNCHANGED <<doc, stored, clock, raced, overtaken>>

-----------------------------------------------------------------------------
\* createMessage

\* const now = new Date(): the clock may have gone on since the last stamp, or not.
Stamp(q) ==
  /\ request[q].pc = "stamp"
  /\ now' \in {now, now + 1}
  /\ createdAt' = [createdAt EXCEPT ![q] = now']
  /\ Goes(q, "store")
  /\ UNCHANGED <<doc, stored, cache, raced, overtaken, faults>>

\* The awaited insertOne: messages may come in another order than their stamps.
Store(q, outcome) ==
  /\ request[q].pc = "store"
  /\ stored' = stored \union {q}
  /\ Goes(q, After(q, outcome, "touch"))
  /\ overtaken' = IF outcome = Lost THEN overtaken \union {request[q].conv} ELSE overtaken
  /\ Counted(outcome)
  /\ UNCHANGED <<doc, clock, cache, raced>>

\* (An update that keeps the first preview.)
TouchedOnce(c, q) ==
  [doc EXCEPT ![c].preview = IF doc[c].preview = Nothing THEN q ELSE doc[c].preview]

\* The sends to conversation c between their stamp and their update.
OnTheirWay(c) == {p \in Requests : request[p].pc \in {"store", "touch"} /\ request[p].conv = c}

\* touchConversation: lastMessagePreview of conversation c from message q.
Touched(c, q) == [doc EXCEPT ![c].preview = q]

Touch(q, outcome) ==
  LET c == request[q].conv IN
  /\ request[q].pc = "touch"
  /\ doc' = Touched(c, q)
  /\ Goes(q, After(q, outcome, "invalidate"))
  /\ raced' = IF outcome = Lost \/ \E p \in Requests :
                   request[p].pc = "fill" /\ request[p].conv = c
              THEN raced \union {c} ELSE raced
  /\ overtaken' = IF \E p \in OnTheirWay(c) : createdAt[p] < createdAt[q]
                  THEN overtaken \union {c} ELSE overtaken
  /\ Counted(outcome)
  /\ UNCHANGED <<stored, clock, cache>>

\* (A touchConversation that leaves the copy in Redis.)
InvalidateSkipped(q, outcome) ==
  /\ request[q].pc = "invalidate"
  /\ Goes(q, After(q, outcome, "ok"))
  /\ Counted(outcome)
  /\ UNCHANGED <<doc, stored, clock, cache, raced, overtaken>>

\* conversationCache.delete, then the answer: 201, or message:new and the ack.
Invalidate(q, outcome) ==
  /\ request[q].pc = "invalidate"
  /\ cache' = [cache EXCEPT ![request[q].conv] = NoCopy]
  /\ Goes(q, After(q, outcome, "ok"))
  /\ Counted(outcome)
  /\ UNCHANGED <<doc, stored, clock, raced, overtaken>>

-----------------------------------------------------------------------------
\* A statement that is not applied, or the end of the process: the request fails,
\* with message:error or a 500.
Fails(q) ==
  LET c == request[q].conv IN
  /\ request[q].pc \notin {"idle", "ok", "refused", "error"} /\ faults < MaxFaults
  /\ Goes(q, "error")
  /\ raced' = IF request[q].pc = "invalidate" THEN raced \union {c} ELSE raced
  /\ overtaken' = IF request[q].pc = "touch" THEN overtaken \union {c} ELSE overtaken
  /\ faults' = faults + 1
  /\ UNCHANGED <<doc, stored, clock, cache>>

\* SETEX, 60 seconds.
CopyExpires(c) ==
  /\ cache[c] # NoCopy
  /\ cache' = [cache EXCEPT ![c] = NoCopy]
  /\ UNCHANGED <<doc, stored, clock, request, raced, overtaken, faults>>

Arrives(q) == \E u \in Users :
  \/ \E other \in Users : BeginDirect(q, u, other)
  \/ \E members \in SUBSET Users : BeginGroup(q, u, members)
  \/ \E c \in Requests, kind \in {"read", "send"} : BeginUse(q, u, c, kind)

Step(q) ==
  \/ FindDirect(q) \/ InsertConflict(q) \/ FindExisting(q) \/ Lookup(q) \/ Load(q)
  \/ Stamp(q)
  \/ \E outcome \in {Answered, Lost} :
       Insert(q, outcome) \/ Store(q, outcome) \/ Touch(q, outcome)
  \/ \E outcome \in {Answered, Lost, Resent} : Fill(q, outcome) \/ Invalidate(q, outcome)

Next ==
  \/ \E q \in Requests : Arrives(q) \/ Step(q) \/ Fails(q)
  \/ \E c \in Requests : CopyExpires(c)

Spec == Init /\ [][Next]_vars

-----------------------------------------------------------------------------
\* Properties

Sends(c)    == {q \in Requests : request[q].kind = "send" /\ request[q].conv = c}

\* find-then-insert is no lock, the partial unique index is: a pair has one direct
\* conversation, and every request for the pair that was answered got that one,
\* whichever of them lost the race.
OneDirectPerPair ==
  /\ \A c, d \in Requests :
       doc[c].kind = "direct" /\ doc[d].kind = "direct" /\ doc[c].members = doc[d].members
         => c = d
  /\ \A q \in Requests : request[q].kind = "direct" /\ request[q].pc = "ok"
       => request[q].conv \in DirectOf(request[q].members)

\* The cache copy is the document's current state, or is about to be deleted,
\* unless an update met a request that was about to fill the cache, or failed
\* before its delete.
CopyIsCurrentUnlessRaced ==
  \A c \in Requests \ raced :
    \/ cache[c] \in {NoCopy, doc[c].preview}
    \/ \E q \in Sends(c) : request[q].pc = "invalidate"

\* Message m is the newest of conversation c by its stamp, or c has none and m is
\* Nothing.
IsNewest(m, c) ==
  LET mine == {k \in stored : request[k].conv = c} IN
  IF m = Nothing THEN mine = {}
  ELSE m \in mine /\ \A k \in mine : createdAt[k] <= createdAt[m]

\* The inserts and the updates of sends may come in any order of their stamps.  The
\* preview is all the same that of the newest message, whenever no message waits for
\* its update, unless an update passed a send stamped before it, which then put an
\* older message over it, or a send failed between its insert and its update.
PreviewIsNewestUnlessOvertaken ==
  \A c \in Requests \ overtaken :
    (\A q \in Sends(c) : request[q].pc # "touch") => IsNewest(doc[c].preview, c)
=============================================================================
