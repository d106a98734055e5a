----------------------- MODULE ChatConversationsProofs -----------------------
(***************************************************************************)
(* Theorems about ChatConversations for any users, any number of           *)
(* overlapping requests and of faults.                                     *)
(***************************************************************************)
EXTENDS ChatConversations, FiniteSetTheorems, TLAPS

-----------------------------------------------------------------------------
\* The inductive invariant, in named parts

\* What a request r, run as q, has at its step: a kind whose handler takes that step,
\* members before it inserts, and a conversation after that.
Fits(q, r) ==
  /\ r.pc \in {"findDirect", "findExisting"} => r.kind = "direct"
  /\ r.pc = "insert" => r.kind \in {"direct", "group"}
  /\ r.pc \in {"lookup", "load"} => r.kind \in {"read", "send"}
  /\ r.pc = "fill" => r.kind # "none"
  /\ r.pc \in {"stamp", "store", "touch", "invalidate"} => r.kind = "send"
  /\ r.pc \in {"findDirect", "insert"} => Cardinality(r.members) >= 2 /\ r.copy = Nothing
  /\ r.pc \in {"idle", "findDirect", "insert"} => ~Exists(q)
  /\ r.pc \in {"lookup", "load", "fill", "stamp", "store", "touch", "invalidate"} =>
       r.conv \in Requests /\ Exists(r.conv)

\* A message is a send's that has passed its insert, in a conversation that exists.
IsSent(r) ==
  /\ r.kind = "send" /\ r.pc \in {"touch", "invalidate", "ok", "error"}
  /\ r.conv \in Requests /\ Exists(r.conv)

RequestInv ==
  /\ \A q \in Requests : Fits(q, request[q])
  /\ \A k \in stored : IsSent(request[k])
  /\ \A q \in Requests : request[q].pc = "touch" => q \in stored
  /\ \A c \in Requests : ~Exists(c) => cache[c] = NoCopy

\* A direct request that is about to fill the cache has its pair's conversation.
DirectInv ==
  /\ OneDirectPerPair
  /\ \A q \in Requests : request[q].kind = "direct" /\ request[q].pc = "fill"
       => request[q].conv \in DirectOf(request[q].members)

\* A copy on its way into the cache is current unless its conversation was raced.
CopyInv ==
  /\ CopyIsCurrentUnlessRaced
  /\ \A q \in Requests : request[q].pc = "fill" =>
       request[q].conv \in raced \/ request[q].copy = doc[request[q].conv].preview

\* The preview of conversation c is a message of c, no newer than any on its way, and
\* every other message of c is older or waits for its update.
PreviewFits(c) ==
  LET m == doc[c].preview IN
  /\ m # Nothing => m \in stored /\ request[m].conv = c
  /\ \A p \in OnTheirWay(c) : m # Nothing => createdAt[m] <= createdAt[p]
  /\ \A k \in stored : request[k].conv = c =>
       request[k].pc = "touch" \/ (m # Nothing /\ createdAt[k] <= createdAt[m])

PreviewInv == \A c \in Requests \ overtaken : PreviewFits(c)

IndInv == TypeOK /\ RequestInv /\ DirectInv /\ CopyInv /\ PreviewInv

-----------------------------------------------------------------------------
\* What the operators do

\* Two different users are two members.
LEMMA PairIsTwo ==
  ASSUME NEW u, NEW other, u # other
  PROVE  Cardinality({u, other}) = 2
  <1>1. IsFiniteSet({u}) /\ Cardinality({u}) = 1
    BY FS_Singleton
  <1>2. {u, other} = {u} \union {other} /\ other \notin {u}
    OBVIOUS
  <1> QED BY <1>1, <1>2, FS_AddElement

\* A handler starts from a fresh request.
LEMMA FreshRequest ==
  /\ NewRequest \in RequestType
  /\ NewRequest.pc = "idle" /\ NewRequest.kind = "none" /\ NewRequest.copy = Nothing
  BY DEF NewRequest, RequestType, Previews

\* A step to another place changes nothing else of the request.
LEMMA RequestGoes ==
  ASSUME request \in [Requests -> RequestType], NEW q \in Requests,
         NEW s \in {"insert", "findExisting", "load", "fill", "stamp", "store", "touch",
                    "invalidate", "ok", "refused", "error"},
         Goes(q, s)
  PROVE  /\ request' \in [Requests -> RequestType]
         /\ request'[q] = [request[q] EXCEPT !.pc = s]
         /\ request'[q].pc = s /\ request'[q].kind = request[q].kind
         /\ request'[q].conv = request[q].conv /\ request'[q].copy = request[q].copy
         /\ request'[q].members = request[q].members /\ request'[q].user = request[q].user
         /\ \A p \in Requests \ {q} : request'[p] = request[p]
  BY DEF Goes, RequestType

\* The three ways a statement ends, and the faults it counts.
LEMMA AfterIs ==
  ASSUME NEW q, NEW next
  PROVE  /\ After(q, Answered, next) = next
         /\ After(q, Lost, next) = "error"
         /\ After(q, Resent, next) = request[q].pc
  BY DEF After, Answered, Lost, Resent

\* A statement that was lost or sent again is counted as a fault.
LEMMA FaultsCounted ==
  ASSUME faults \in 0..MaxFaults, NEW outcome, Counted(outcome)
  PROVE  faults' \in 0..MaxFaults
  BY MaxFaultsAssumption DEF Counted

\* The preview of a conversation still fits when no message, stamp or preview changes,
\* none of its sends is on its way that was not, and none skips its update.
LEMMA PreviewKept ==
  ASSUME NEW c \in Requests, PreviewFits(c), UNCHANGED <<stored, createdAt>>,
         doc'[c].preview = doc[c].preview,
         \A k \in stored : request'[k].conv = request[k].conv,
         \A k \in stored : request[k].conv = c /\ request[k].pc = "touch" =>
           request'[k].pc = "touch",
         OnTheirWay(c)' \subseteq OnTheirWay(c)
  PROVE  PreviewFits(c)'
  BY DEF PreviewFits

-----------------------------------------------------------------------------
\* The invariant is inductive: one lemma for each group of actions

\* The invariant holds at the start.
LEMMA InitInv == Init => IndInv
  <1> SUFFICES ASSUME Init PROVE IndInv
    OBVIOUS
  <1>1. /\ \A q \in Requests : request[q].pc = "idle"
        /\ \A c \in Requests : doc[c].kind = "absent" /\ doc[c].preview = Nothing
    BY FreshRequest DEF Init, AbsentDoc
  <1>2. TypeOK
    BY <1>1, FreshRequest, MaxFaultsAssumption DEF Init, TypeOK, DocType, AbsentDoc, Previews
  <1>3. RequestInv
    BY <1>1 DEF Init, RequestInv, Fits, Exists
  <1>4. DirectInv /\ CopyInv
    BY <1>1 DEF Init, DirectInv, CopyInv, OneDirectPerPair, CopyIsCurrentUnlessRaced
  <1>5. PreviewInv
    BY <1>1 DEF Init, PreviewInv, PreviewFits, OnTheirWay
  <1> QED BY <1>2, <1>3, <1>4, <1>5 DEF IndInv

\* Request q becomes new, which no message and no count of sends depends on.
Moves(q, new) ==
  /\ request' \in [Requests -> RequestType]
  /\ request'[q] = new
  /\ \A p \in Requests \ {q} : request'[p] = request[p]
  /\ UNCHANGED <<doc, stored, clock, cache, raced, overtaken, faults>>
  /\ request[q].pc \notin {"store", "touch", "invalidate", "ok", "error"}
  /\ new.pc \notin {"store", "touch", "invalidate"}
  /\ Fits(q, new)
  /\ new.kind = "direct" /\ new.pc \in {"fill", "ok"} => new.conv \in DirectOf(new.members)
  /\ new.pc = "fill" => new.copy = doc[new.conv].preview

\* A step of one request that writes no document, message or copy.
LEMMA MovingKeepsInv ==
  ASSUME IndInv, NEW q \in Requests, NEW new, Moves(q, new)
  PROVE  IndInv'
  <1> USE DEF IndInv, Moves, clock
  <1>1. TypeOK'
    BY DEF TypeOK
  <1>2. \A k \in stored : k \in Requests /\ k # q
    BY DEF TypeOK, RequestInv, IsSent
  <1>3. RequestInv'
    BY <1>2 DEF RequestInv, Fits, IsSent, Exists
  <1>4. DirectInv'
    BY DEF DirectInv, OneDirectPerPair, DirectOf
  <1>5. CopyInv'
    BY DEF CopyInv, CopyIsCurrentUnlessRaced, Sends
  <1>6. \A c \in Requests : OnTheirWay(c)' \subseteq OnTheirWay(c)
    BY DEF OnTheirWay
  <1>7. PreviewInv'
    BY <1>2, <1>6, PreviewKept DEF PreviewInv
  <1> QED BY <1>1, <1>3, <1>4, <1>5, <1>7

\* A request arrives.
LEMMA ArrivingKeepsInv ==
  ASSUME IndInv, NEW q \in Requests, Arrives(q)
  PROVE  IndInv'
  <1> USE DEF IndInv
  <1>0. /\ request \in [Requests -> RequestType]
        /\ Fits(q, request[q])
    BY DEF TypeOK, RequestInv
  <1>1. SUFFICES \E new : Moves(q, new)
    BY MovingKeepsInv
  <1>2. ASSUME NEW u \in Users, NEW other \in Users, BeginDirect(q, u, other)
        PROVE  \E new : Moves(q, new)
    <2> DEFINE new == [NewRequest EXCEPT !.pc = "findDirect", !.kind = "direct", !.user = u,
                                         !.members = {u, other}]
    <2>1. /\ new \in RequestType /\ new.pc = "findDirect" /\ new.kind = "direct"
          /\ new.members = {u, other} /\ new.copy = Nothing
      BY DEF NewRequest, RequestType, Previews
    <2>2. Cardinality({u, other}) = 2
      BY <1>2, PairIsTwo DEF BeginDirect
    <2>3. request' = [request EXCEPT ![q] = new] /\ request[q].pc = "idle"
            /\ UNCHANGED <<doc, stored, clock, cache, raced, overtaken, faults>>
      BY <1>2 DEF BeginDirect
    <2> HIDE DEF new
    <2>4. Fits(q, new)
      BY <1>0, <2>1, <2>2, <2>3 DEF Fits
    <2> QED BY <1>0, <2>1, <2>3, <2>4 DEF Moves
  <1>3. ASSUME NEW u \in Users, NEW members \in SUBSET Users, BeginGroup(q, u, members)
        PROVE  \E new : Moves(q, new)
    <2> DEFINE new == [NewRequest EXCEPT !.pc = "insert", !.kind = "group", !.user = u,
                                         !.members = members]
    <2>1. /\ new \in RequestType /\ new.pc = "insert" /\ new.kind = "group"
          /\ new.members = members /\ new.copy = Nothing
      BY DEF NewRequest, RequestType, Previews
    <2>2. Cardinality(members) >= 2
      BY <1>3 DEF BeginGroup
    <2>3. request' = [request EXCEPT ![q] = new] /\ request[q].pc = "idle"
            /\ UNCHANGED <<doc, stored, clock, cache, raced, overtaken, faults>>
      BY <1>3 DEF BeginGroup
    <2> HIDE DEF new
    <2>4. Fits(q, new)
      BY <1>0, <2>1, <2>2, <2>3 DEF Fits
    <2> QED BY <1>0, <2>1, <2>3, <2>4 DEF Moves
  <1>4. ASSUME NEW u \in Users, NEW c \in Requests, NEW kind \in {"read", "send"},
               BeginUse(q, u, c, kind)
        PROVE  \E new : Moves(q, new)
    <2> DEFINE new == [NewRequest EXCEPT !.pc = "lookup", !.kind = kind, !.user = u, !.conv = c]
    <2>1. /\ new \in RequestType /\ new.pc = "lookup" /\ new.kind = kind /\ new.conv = c
      BY DEF NewRequest, RequestType, Previews
    <2>2. request' = [request EXCEPT ![q] = new] /\ request[q].pc = "idle" /\ Exists(c)
            /\ UNCHANGED <<doc, stored, clock, cache, raced, overtaken, faults>>
      BY <1>4 DEF BeginUse
    <2> HIDE DEF new
    <2>3. Fits(q, new)
      BY <1>0, <2>1, <2>2 DEF Fits
    <2> QED BY <1>0, <2>1, <2>2, <2>3 DEF Moves
  <1> QED BY <1>2, <1>3, <1>4 DEF Arrives

\* A conversation that a request found goes into the request with its preview.
LEMMA FoundMoves ==
  ASSUME IndInv, NEW q \in Requests, NEW c \in Requests, Exists(c), Found(q, c),
         request[q].pc \in {"findDirect", "findExisting", "load"},
         request[q].kind = "direct" => c \in DirectOf(request[q].members),
         UNCHANGED <<doc, stored, clock, cache, raced, overtaken, faults>>
  PROVE  Moves(q, request'[q])
  <1>1. request \in [Requests -> RequestType] /\ doc[c].preview \in Previews
    BY DEF IndInv, TypeOK, DocType
  <1>2. /\ request' \in [Requests -> RequestType]
        /\ \A p \in Requests \ {q} : request'[p] = request[p]
        /\ request'[q].pc = "fill" /\ request'[q].conv = c /\ request'[q].copy = doc[c].preview
        /\ request'[q].kind = request[q].kind /\ request'[q].members = request[q].members
    <2> DEFINE new == [request[q] EXCEPT !.pc = "fill", !.conv = c, !.copy = doc[c].preview]
    <2>1. request' = [request EXCEPT ![q] = new]
      BY <1>1 DEF Found
    <2>2. /\ new \in RequestType /\ new.pc = "fill" /\ new.conv = c /\ new.copy = doc[c].preview
          /\ new.kind = request[q].kind /\ new.members = request[q].members
      BY <1>1 DEF RequestType
    <2> HIDE DEF new
    <2> QED BY <1>1, <2>1, <2>2
  <1>3. Fits(q, request'[q])
    BY <1>2 DEF IndInv, RequestInv, Fits
  <1> QED BY <1>2, <1>3 DEF Moves

\* The steps that read a store and write none.
LEMMA ReadingKeepsInv ==
  ASSUME IndInv, NEW q \in Requests,
         FindDirect(q) \/ InsertConflict(q) \/ FindExisting(q) \/ Lookup(q) \/ Load(q)
  PROVE  IndInv'
  <1> USE DEF IndInv
  <1>0. /\ request \in [Requests -> RequestType]
        /\ Fits(q, request[q])
    BY DEF TypeOK, RequestInv
  <1>1. SUFFICES Moves(q, request'[q])
    BY MovingKeepsInv
  <1>2. CASE FindDirect(q)
    <2>1. UNCHANGED <<doc, stored, clock, cache, raced, overtaken, faults>>
            /\ request[q].pc = "findDirect"
      BY <1>2 DEF FindDirect
    <2>2. ASSUME NEW c \in DirectOf(request[q].members), Found(q, c) PROVE Moves(q, request'[q])
      BY <2>1, <2>2, FoundMoves DEF DirectOf, Exists
    <2>3. CASE Goes(q, "insert")
      BY <1>0, <2>1, <2>3, RequestGoes DEF Fits, Moves
    <2> QED BY <1>2, <2>2, <2>3 DEF FindDirect
  <1>3. CASE InsertConflict(q)
    <2>1. UNCHANGED <<doc, stored, clock, cache, raced, overtaken, faults>>
            /\ request[q].pc = "insert" /\ request[q].kind = "direct" /\ Goes(q, "findExisting")
      BY <1>3 DEF InsertConflict, IndexAdmits
    <2> QED BY <1>0, <2>1, RequestGoes DEF Fits, Moves
  <1>4. CASE FindExisting(q)
    <2>1. PICK c \in DirectOf(request[q].members) : Found(q, c)
      BY <1>4 DEF FindExisting
    <2> QED BY <1>4, <2>1, FoundMoves DEF FindExisting, DirectOf, Exists
  <1>5. CASE Lookup(q)
    <2>1. UNCHANGED <<doc, stored, clock, cache, raced, overtaken, faults>>
            /\ request[q].pc = "lookup" /\ request[q].kind \in {"read", "send"}
      BY <1>0, <1>5 DEF Lookup, Fits
    <2>2. PICK s \in {"load", "ok", "refused", "stamp"} :
            Goes(q, s) /\ (s = "stamp" => request[q].kind = "send")
      BY <1>5, <2>1 DEF Lookup, Proceed
    <2> QED BY <1>0, <2>1, <2>2, RequestGoes DEF Fits, Moves
  <1>6. CASE Load(q)
    <2>1. /\ request[q].kind # "direct" /\ request[q].conv \in Requests
          /\ Exists(request[q].conv) /\ request[q].pc = "load"
      BY <1>0, <1>6 DEF Load, Fits
    <2> QED BY <1>6, <2>1, FoundMoves DEF Load
  <1> QED BY <1>2, <1>3, <1>4, <1>5, <1>6

\* The insert of a conversation, whose key the index admits.
LEMMA InsertKeepsInv ==
  ASSUME IndInv, NEW q \in Requests, NEW outcome \in {Answered, Lost}, Insert(q, outcome)
  PROVE  IndInv'
  <1> USE DEF IndInv
  <1> DEFINE new == [kind |-> request[q].kind, members |-> request[q].members,
                     preview |-> Nothing]
  <1>1. /\ request \in [Requests -> RequestType] /\ Fits(q, request[q])
        /\ doc \in [Requests -> DocType] /\ faults \in 0..MaxFaults
        /\ request[q].pc = "insert"
    BY DEF TypeOK, RequestInv, Insert
  <1>2. /\ new \in DocType /\ new.kind = request[q].kind /\ new.kind \in {"direct", "group"}
        /\ new.members = request[q].members /\ new.preview = Nothing
        /\ Cardinality(new.members) >= 2
        /\ ~Exists(q) /\ request[q].copy = Nothing
    BY <1>1 DEF Fits, DocType, RequestType, Previews
  <1>3. UNCHANGED <<stored, clock, cache, raced, overtaken>> /\ faults' \in 0..MaxFaults
          /\ doc' = [doc EXCEPT ![q] = new]
    BY <1>1, FaultsCounted DEF Insert
  <1>4. PICK s \in {"fill", "error"} : request' = [request EXCEPT ![q].pc = s, ![q].conv = q]
    <2>1. After(q, outcome, "fill") \in {"fill", "error"}
      BY AfterIs
    <2> QED BY <2>1 DEF Insert
  <1> HIDE DEF new
  <1>5. /\ doc' \in [Requests -> DocType] /\ doc'[q] = new
        /\ \A c \in Requests \ {q} : doc'[c] = doc[c]
    BY <1>1, <1>2, <1>3
  <1>6. /\ request' \in [Requests -> RequestType]
        /\ \A p \in Requests \ {q} : request'[p] = request[p]
        /\ request'[q].pc = s /\ request'[q].conv = q /\ request'[q].copy = Nothing
        /\ request'[q].kind = request[q].kind /\ request'[q].members = request[q].members
    BY <1>1, <1>2, <1>4 DEF RequestType
  <1>7. \A p \in Requests \ {q} :
          /\ request[p].pc \in {"lookup", "load", "fill", "stamp", "store", "touch", "invalidate"} =>
               request[p].conv # q
          /\ IsSent(request[p]) => request[p].conv # q
    BY <1>2 DEF RequestInv, Fits, IsSent
  <1>8. \A k \in stored : k \in Requests /\ k # q /\ IsSent(request[k])
    BY <1>1 DEF TypeOK, RequestInv, IsSent
  <1>9. TypeOK'
    BY <1>2, <1>3, <1>5, <1>6 DEF TypeOK, clock
  <1>10. RequestInv'
    <2>1. \A p \in Requests : Fits(p, request[p])'
      BY <1>1, <1>2, <1>5, <1>6, <1>7 DEF RequestInv, Fits, Exists
    <2>2. \A k \in stored' : IsSent(request[k])'
      BY <1>2, <1>3, <1>5, <1>6, <1>8 DEF IsSent, Exists
    <2>3. \A c \in Requests : (~Exists(c) => cache[c] = NoCopy)'
      BY <1>2, <1>3, <1>5 DEF RequestInv, Exists
    <2>4. \A p \in Requests : request'[p].pc = "touch" => p \in stored'
      BY <1>3, <1>6 DEF RequestInv
    <2> QED BY <2>1, <2>2, <2>3, <2>4 DEF RequestInv
  <1>11. DirectInv'
    <2>1. new.kind = "direct" => DirectOf(new.members) = {}
      BY <1>2 DEF Insert, IndexAdmits
    <2>2. OneDirectPerPair'
      BY <1>2, <1>4, <1>5, <1>6, <2>1 DEF DirectInv, OneDirectPerPair, DirectOf, Exists
    <2> QED BY <1>2, <1>4, <1>5, <1>6, <1>7, <2>2 DEF DirectInv, DirectOf
  <1>12. CopyInv'
    <2>1. CopyIsCurrentUnlessRaced'
      <3>1. cache[q] = NoCopy
        BY <1>2 DEF RequestInv
      <3> QED BY <1>1, <1>3, <1>5, <1>6, <3>1 DEF CopyInv, CopyIsCurrentUnlessRaced, Sends
    <2> QED BY <1>2, <1>3, <1>5, <1>6, <1>7, <2>1 DEF CopyInv, RequestInv, Fits
  <1>13. PreviewInv'
    <2>1. \A c \in Requests : OnTheirWay(c)' \subseteq OnTheirWay(c) /\ OnTheirWay(q)' = {}
      BY <1>2, <1>6, <1>7 DEF OnTheirWay
    <2>2. PreviewFits(q)'
      BY <1>2, <1>3, <1>5, <1>6, <1>7, <1>8, <2>1 DEF PreviewFits
    <2>3. ASSUME NEW c \in (Requests \ overtaken) \ {q} PROVE PreviewFits(c)'
      BY <1>3, <1>5, <1>6, <1>8, <2>1, PreviewKept DEF PreviewInv, clock
    <2> QED BY <1>3, <2>2, <2>3 DEF PreviewInv
  <1> QED BY <1>9, <1>10, <1>11, <1>12, <1>13

\* A write of the cached copy by request q, which goes on to step s.
WritesCopy(q, s, copy) ==
  /\ request[q].pc \in {"fill", "invalidate"}
  /\ Goes(q, s)
  /\ cache' = [cache EXCEPT ![request[q].conv] = copy]
  /\ UNCHANGED <<doc, stored, clock, raced, overtaken>> /\ faults' \in 0..MaxFaults
  /\ request[q].pc = "fill" =>
       /\ copy = request[q].copy
       /\ s \in {"ok", "refused", "stamp", "fill", "error"}
       /\ s = "stamp" => request[q].kind = "send"
  /\ request[q].pc = "invalidate" => copy = NoCopy /\ s \in {"ok", "invalidate", "error"}

\* A copy is written into the cache, or deleted, and its request goes on.
LEMMA CopyWrittenKeepsInv ==
  ASSUME IndInv, NEW q \in Requests, NEW s, NEW copy, WritesCopy(q, s, copy)
  PROVE  IndInv'
  <1> USE DEF IndInv
  <1> DEFINE c == request[q].conv
  <1>1. /\ request \in [Requests -> RequestType] /\ Fits(q, request[q])
        /\ cache \in [Requests -> Previews \union {NoCopy}]
        /\ request[q].copy \in Previews
    BY DEF TypeOK, RequestInv, RequestType
  <1>2. c \in Requests /\ Exists(c)
    BY <1>1 DEF WritesCopy, Fits
  <1>3. /\ UNCHANGED <<doc, stored, clock, raced, overtaken>> /\ faults' \in 0..MaxFaults
        /\ request[q].pc \in {"fill", "invalidate"}
        /\ request[q].pc = "fill" => copy = request[q].copy
        /\ request[q].pc = "invalidate" => copy = NoCopy /\ request[q].kind = "send"
        /\ s \in {"ok", "refused", "stamp", "fill", "invalidate", "error"}
        /\ s = "stamp" => request[q].kind = "send" /\ request[q].pc = "fill"
        /\ s = "fill" => request[q].pc = "fill"
        /\ s = "invalidate" => request[q].pc = "invalidate"
        /\ s = "refused" => request[q].pc = "fill"
    BY <1>1 DEF WritesCopy, Fits
  <1>4. /\ request' \in [Requests -> RequestType]
        /\ request'[q].pc = s /\ request'[q].kind = request[q].kind
        /\ request'[q].conv = c /\ request'[q].copy = request[q].copy
        /\ request'[q].members = request[q].members
        /\ \A p \in Requests \ {q} : request'[p] = request[p]
    BY <1>1, <1>3, RequestGoes DEF WritesCopy
  <1>5. /\ cache' \in [Requests -> Previews \union {NoCopy}]
        /\ cache'[c] = copy /\ \A d \in Requests \ {c} : cache'[d] = cache[d]
    BY <1>1, <1>2, <1>3 DEF WritesCopy
  <1> HIDE DEF c
  <1>6. TypeOK'
    BY <1>3, <1>4, <1>5 DEF TypeOK, clock
  <1>7. \A k \in stored : k \in Requests /\ IsSent(request[k])
    BY DEF TypeOK, RequestInv
  <1>8. RequestInv'
    <2>1. \A p \in Requests : Fits(p, request[p])'
      BY <1>1, <1>2, <1>3, <1>4 DEF RequestInv, Fits, Exists, c
    <2>2. \A k \in stored' : IsSent(request[k])'
      BY <1>3, <1>4, <1>7 DEF IsSent, Exists, c
    <2>3. \A d \in Requests : (~Exists(d) => cache[d] = NoCopy)'
      BY <1>2, <1>3, <1>5 DEF RequestInv, Exists
    <2>4. \A p \in Requests : request'[p].pc = "touch" => p \in stored'
      BY <1>3, <1>4 DEF RequestInv
    <2> QED BY <2>1, <2>2, <2>3, <2>4 DEF RequestInv
  <1>9. DirectInv'
    BY <1>3, <1>4 DEF DirectInv, OneDirectPerPair, DirectOf, c
  <1>10. CopyInv'
    <2>1. c \in raced \/ copy \in {NoCopy, doc[c].preview}
      BY <1>3 DEF CopyInv, c
    <2>2. \A d \in Requests \ {c} : \A p \in Sends(d) : request[p].pc = "invalidate" =>
            p \in Sends(d)' /\ request'[p].pc = "invalidate"
      BY <1>4 DEF Sends, c
    <2>3. CopyIsCurrentUnlessRaced'
      BY <1>2, <1>3, <1>5, <2>1, <2>2 DEF CopyInv, CopyIsCurrentUnlessRaced
    <2> QED BY <1>3, <1>4, <2>3 DEF CopyInv, c
  <1>11. PreviewInv'
    <2>1. \A p \in Requests : /\ request'[p].conv = request[p].conv
                              /\ request'[p].pc \in {"store", "touch"} => request'[p] = request[p]
                              /\ request[p].pc = "touch" => request'[p] = request[p]
      BY <1>3, <1>4 DEF c
    <2>2. \A d \in Requests : OnTheirWay(d)' \subseteq OnTheirWay(d)
      BY <2>1 DEF OnTheirWay
    <2> QED BY <1>3, <1>7, <2>1, <2>2, PreviewKept DEF PreviewInv, clock
  <1> QED BY <1>6, <1>8, <1>9, <1>10, <1>11

\* Filling and deleting, answered, lost or sent twice.
LEMMA CacheStepsKeepInv ==
  ASSUME IndInv, NEW q \in Requests, NEW outcome \in {Answered, Lost, Resent},
         Fill(q, outcome) \/ Invalidate(q, outcome)
  PROVE  IndInv'
  <1> USE DEF IndInv
  <1>1. /\ Fits(q, request[q]) /\ faults \in 0..MaxFaults
        /\ request[q].kind \in {"none", "direct", "group", "read", "send"}
    BY DEF TypeOK, RequestInv, RequestType
  <1>2. CASE Fill(q, outcome)
    <2>1. /\ Proceed(q) \in {"ok", "refused", "stamp"}
          /\ Proceed(q) = "stamp" => request[q].kind = "send"
      BY <1>1, <1>2 DEF Fill, Proceed, Fits
    <2>2. After(q, outcome, Proceed(q)) \in {Proceed(q), "error", "fill"}
      BY <1>2, AfterIs DEF Fill
    <2>3. WritesCopy(q, After(q, outcome, Proceed(q)), request[q].copy)
      BY <1>1, <1>2, <2>1, <2>2, FaultsCounted DEF Fill, WritesCopy
    <2> QED BY <2>3, CopyWrittenKeepsInv
  <1>3. CASE Invalidate(q, outcome)
    <2>1. After(q, outcome, "ok") \in {"ok", "error", "invalidate"}
      BY <1>3, AfterIs DEF Invalidate
    <2>2. WritesCopy(q, After(q, outcome, "ok"), NoCopy)
      BY <1>1, <1>3, <2>1, FaultsCounted DEF Invalidate, WritesCopy
    <2> QED BY <2>2, CopyWrittenKeepsInv
  <1> QED BY <1>2, <1>3

\* A copy that has expired is not an old one.
LEMMA ExpiryKeepsInv ==
  ASSUME IndInv, NEW c \in Requests, CopyExpires(c)
  PROVE  IndInv'
  <1> USE DEF IndInv, CopyExpires
  <1>1. /\ UNCHANGED <<doc, stored, clock, request, raced, overtaken, faults>>
        /\ cache' \in [Requests -> Previews \union {NoCopy}]
        /\ \A d \in Requests : cache'[d] \in {cache[d], NoCopy}
    BY DEF TypeOK
  <1>2. TypeOK'
    BY <1>1 DEF TypeOK, clock
  <1>3. RequestInv'
    BY <1>1 DEF RequestInv, Fits, IsSent, Exists
  <1>4. DirectInv'
    BY <1>1 DEF DirectInv, OneDirectPerPair, DirectOf
  <1>5. CopyInv'
    BY <1>1 DEF CopyInv, CopyIsCurrentUnlessRaced, Sends
  <1>6. PreviewInv'
    BY <1>1 DEF PreviewInv, PreviewFits, OnTheirWay, clock
  <1> QED BY <1>2, <1>3, <1>4, <1>5, <1>6

\* A stamp is no older than any message's, the preview's included.
LEMMA StampKeepsInv ==
  ASSUME IndInv, NEW q \in Requests, Stamp(q)
  PROVE  IndInv'
  <1> USE DEF IndInv
  <1>1. /\ request \in [Requests -> RequestType] /\ Fits(q, request[q])
        /\ now \in Nat /\ createdAt \in [Requests -> 0..now]
        /\ request[q].pc = "stamp" /\ Goes(q, "store")
        /\ UNCHANGED <<doc, stored, cache, raced, overtaken, faults>>
    BY DEF TypeOK, RequestInv, Stamp
  <1>2. /\ request' \in [Requests -> RequestType]
        /\ request'[q].pc = "store" /\ request'[q].kind = request[q].kind
        /\ request'[q].conv = request[q].conv /\ request[q].kind = "send"
        /\ \A p \in Requests \ {q} : request'[p] = request[p]
    BY <1>1, RequestGoes DEF Fits
  <1>3. /\ now' \in Nat /\ now' >= now
        /\ createdAt' = [createdAt EXCEPT ![q] = now']
    BY <1>1 DEF Stamp
  <1>4. /\ \A p \in Requests : createdAt[p] \in 0..now /\ createdAt'[p] \in 0..now'
        /\ createdAt'[q] = now' /\ \A p \in Requests \ {q} : createdAt'[p] = createdAt[p]
    BY <1>1, <1>3
  <1>5. \A k \in stored : k \in Requests /\ k # q /\ IsSent(request[k])
    BY <1>1 DEF TypeOK, RequestInv, IsSent
  <1>6. TypeOK'
    <2>1. createdAt' \in [Requests -> 0..now']
      BY <1>1, <1>3, <1>4
    <2> QED BY <1>1, <1>2, <1>3, <2>1 DEF TypeOK
  <1>7. RequestInv'
    BY <1>1, <1>2, <1>5 DEF RequestInv, Fits, IsSent, Exists
  <1>8. DirectInv'
    BY <1>1, <1>2 DEF DirectInv, OneDirectPerPair, DirectOf
  <1>9. CopyInv'
    BY <1>1, <1>2 DEF CopyInv, CopyIsCurrentUnlessRaced, Sends
  <1>10. ASSUME NEW c \in Requests \ overtaken PROVE PreviewFits(c)'
    <2> DEFINE m == doc[c].preview
    <2>1. PreviewFits(c) /\ doc' = doc /\ stored' = stored
      BY <1>1 DEF PreviewInv
    <2>2. m # Nothing => m \in Requests /\ m # q /\ createdAt'[m] = createdAt[m]
                         /\ createdAt[m] <= now'
      BY <1>3, <1>4, <1>5, <2>1 DEF PreviewFits
    <2>3. \A p \in OnTheirWay(c)' : p \in OnTheirWay(c) \/ p = q
      BY <1>2 DEF OnTheirWay
    <2>4. \A p \in OnTheirWay(c)' : m # Nothing => createdAt'[m] <= createdAt'[p]
      <3>1. ASSUME NEW p \in OnTheirWay(c)', m # Nothing, p = q
            PROVE  createdAt'[m] <= createdAt'[p]
        BY <1>4, <2>2, <3>1
      <3>2. ASSUME NEW p \in OnTheirWay(c)', m # Nothing, p # q
            PROVE  createdAt'[m] <= createdAt'[p]
        <4>1. p \in OnTheirWay(c) /\ p \in Requests
          BY <2>3, <3>2 DEF OnTheirWay
        <4> QED BY <1>4, <2>1, <2>2, <3>2, <4>1 DEF PreviewFits
      <3> QED BY <3>1, <3>2
    <2>5. \A k \in stored : request'[k] = request[k] /\ createdAt'[k] = createdAt[k]
      BY <1>2, <1>4, <1>5
    <2> QED BY <2>1, <2>2, <2>4, <2>5 DEF PreviewFits
  <1> QED BY <1>1, <1>6, <1>7, <1>8, <1>9, <1>10 DEF PreviewInv

\* The insert of a message, which then waits for its update or marks its conversation.
LEMMA StoreKeepsInv ==
  ASSUME IndInv, NEW q \in Requests, NEW outcome \in {Answered, Lost}, Store(q, outcome)
  PROVE  IndInv'
  <1> USE DEF IndInv
  <1>1. /\ request \in [Requests -> RequestType] /\ Fits(q, request[q])
        /\ stored \subseteq Requests /\ faults \in 0..MaxFaults
        /\ request[q].pc = "store"
    BY DEF TypeOK, RequestInv, Store
  <1>2. PICK c \in Requests : c = request[q].conv /\ Exists(c) /\ request[q].kind = "send"
    BY <1>1 DEF Fits
  <1>3. UNCHANGED <<doc, now, createdAt, cache, raced>> /\ faults' \in 0..MaxFaults
          /\ stored' = stored \union {q}
    BY <1>1, FaultsCounted DEF Store, clock
  <1>4. PICK s \in {"touch", "error"} : Goes(q, s) /\ (s = "error" => outcome = Lost)
    <2>1. After(q, outcome, "touch") = "touch"
            \/ (After(q, outcome, "touch") = "error" /\ outcome = Lost)
      BY DEF After, Answered, Lost, Resent
    <2> QED BY <2>1 DEF Store
  <1>5. /\ request' \in [Requests -> RequestType]
        /\ request'[q].pc = s /\ request'[q].kind = "send"
        /\ request'[q].conv = c
        /\ \A p \in Requests \ {q} : request'[p] = request[p]
    BY <1>1, <1>2, <1>4, RequestGoes
  <1>6. /\ overtaken \subseteq overtaken' /\ overtaken' \subseteq Requests
        /\ s = "error" => c \in overtaken'
    BY <1>2, <1>4 DEF Store, TypeOK
  <1>7. \A k \in stored : k \in Requests /\ k # q /\ IsSent(request[k])
    BY <1>1 DEF RequestInv, IsSent
  <1>8. TypeOK'
    BY <1>1, <1>3, <1>5, <1>6 DEF TypeOK
  <1>9. RequestInv'
    <2>1. \A p \in Requests : Fits(p, request[p])'
      BY <1>1, <1>2, <1>3, <1>5 DEF RequestInv, Fits, Exists
    <2>2. \A k \in stored' : IsSent(request[k])'
      BY <1>2, <1>3, <1>5, <1>7 DEF IsSent, Exists
    <2> QED BY <1>1, <1>3, <1>5, <2>1, <2>2 DEF RequestInv, Exists
  <1>10. DirectInv'
    BY <1>2, <1>3, <1>5 DEF DirectInv, OneDirectPerPair, DirectOf
  <1>11. CopyInv'
    <2>1. \A d \in Requests : \A p \in Sends(d) : request[p].pc = "invalidate" =>
            p \in Sends(d)' /\ request'[p].pc = "invalidate"
      BY <1>1, <1>5 DEF Sends
    <2>2. CopyIsCurrentUnlessRaced'
      BY <1>3, <2>1 DEF CopyInv, CopyIsCurrentUnlessRaced
    <2> QED BY <1>3, <1>5, <2>2 DEF CopyInv
  <1>12. ASSUME NEW d \in Requests \ overtaken' PROVE PreviewFits(d)'
    <2>1. PreviewFits(d)
      BY <1>6 DEF PreviewInv
    <2>2. OnTheirWay(d)' \subseteq OnTheirWay(d)
      BY <1>1, <1>2, <1>5 DEF OnTheirWay
    <2>3. request'[q].conv = d => request'[q].pc = "touch"
      BY <1>5, <1>6
    <2>4. \A k \in stored' : k = q \/ (k \in stored /\ request'[k] = request[k])
      BY <1>3, <1>5, <1>7
    <2> QED BY <1>3, <1>7, <2>1, <2>2, <2>3, <2>4 DEF PreviewFits
  <1> QED BY <1>8, <1>9, <1>10, <1>11, <1>12 DEF PreviewInv

\* The update of the preview: its message is no older than the preview before, and no
\* newer than any on its way, or its conversation is marked.
LEMMA TouchKeepsInv ==
  ASSUME IndInv, NEW q \in Requests, NEW outcome \in {Answered, Lost}, Touch(q, outcome)
  PROVE  IndInv'
  <1> USE DEF IndInv
  <1>1. /\ request \in [Requests -> RequestType] /\ Fits(q, request[q])
        /\ doc \in [Requests -> DocType] /\ faults \in 0..MaxFaults
        /\ request[q].pc = "touch"
    BY DEF TypeOK, RequestInv, Touch
  <1>2. PICK c \in Requests : c = request[q].conv /\ Exists(c) /\ request[q].kind = "send"
    BY <1>1 DEF Fits
  <1>3. UNCHANGED <<stored, now, createdAt, cache>> /\ faults' \in 0..MaxFaults
          /\ doc' = [doc EXCEPT ![c].preview = q]
    BY <1>1, <1>2, FaultsCounted DEF Touch, Touched, clock
  <1>4. PICK s \in {"invalidate", "error"} : Goes(q, s) /\ (s = "error" => outcome = Lost)
    <2>1. After(q, outcome, "invalidate") = "invalidate"
            \/ (After(q, outcome, "invalidate") = "error" /\ outcome = Lost)
      BY DEF After, Answered, Lost, Resent
    <2> QED BY <2>1 DEF Touch
  <1>5. /\ request' \in [Requests -> RequestType]
        /\ request'[q].pc = s /\ request'[q].kind = "send"
        /\ request'[q].conv = c
        /\ \A p \in Requests \ {q} : request'[p] = request[p]
    BY <1>1, <1>2, <1>4, RequestGoes
  <1>6. /\ raced \subseteq raced' /\ raced' \subseteq Requests
        /\ s = "error" => c \in raced'
        /\ \A p \in Requests : request[p].pc = "fill" /\ request[p].conv = c => c \in raced'
        /\ overtaken \subseteq overtaken' /\ overtaken' \subseteq Requests
        /\ c \notin overtaken' => \A p \in OnTheirWay(c) : ~(createdAt[p] < createdAt[q])
    BY <1>2, <1>4 DEF Touch, TypeOK
  <1>7. /\ doc' \in [Requests -> DocType]
        /\ doc'[c].preview = q /\ \A d \in Requests \ {c} : doc'[d] = doc[d]
        /\ \A d \in Requests : doc'[d].kind = doc[d].kind /\ doc'[d].members = doc[d].members
    <2>1. [doc[c] EXCEPT !.preview = q] \in DocType
      BY <1>1 DEF DocType, Previews
    <2> QED BY <1>1, <1>3, <2>1 DEF DocType
  <1>8. \A k \in stored : k \in Requests /\ IsSent(request[k])
    BY DEF TypeOK, RequestInv
  <1>9. TypeOK'
    BY <1>3, <1>5, <1>6, <1>7 DEF TypeOK
  <1>10. RequestInv'
    <2>1. \A p \in Requests : Fits(p, request[p])'
      BY <1>1, <1>2, <1>5, <1>7 DEF RequestInv, Fits, Exists
    <2>2. \A k \in stored' : IsSent(request[k])'
      BY <1>2, <1>3, <1>5, <1>7, <1>8 DEF IsSent, Exists
    <2> QED BY <1>2, <1>3, <1>4, <1>5, <1>7, <2>1, <2>2 DEF RequestInv, Exists
  <1>11. DirectInv'
    BY <1>2, <1>5, <1>7 DEF DirectInv, OneDirectPerPair, DirectOf
  <1>12. CopyInv'
    <2>1. \A d \in Requests : \A p \in Sends(d) : request[p].pc = "invalidate" =>
            p \in Sends(d)' /\ request'[p].pc = "invalidate"
      BY <1>1, <1>5 DEF Sends
    <2>2. c \in raced' \/ (q \in Sends(c)' /\ request'[q].pc = "invalidate")
      BY <1>4, <1>5, <1>6 DEF Sends
    <2>3. CopyIsCurrentUnlessRaced'
      BY <1>3, <1>6, <1>7, <2>1, <2>2 DEF CopyInv, CopyIsCurrentUnlessRaced
    <2> QED BY <1>5, <1>6, <1>7, <2>3 DEF CopyInv, RequestInv, Fits
  <1>13. \A d \in Requests : OnTheirWay(d)' \subseteq OnTheirWay(d)
    BY <1>1, <1>2, <1>5 DEF OnTheirWay
  <1>14. ASSUME NEW d \in Requests \ overtaken', d # c PROVE PreviewFits(d)'
    <2>1. \A k \in stored : /\ request'[k].conv = request[k].conv
                            /\ k # q => request'[k] = request[k]
      BY <1>2, <1>5, <1>8
    <2>2. PreviewFits(d) /\ doc'[d].preview = doc[d].preview
      BY <1>6, <1>7, <1>14 DEF PreviewInv
    <2> QED BY <1>2, <1>3, <1>13, <1>14, <2>1, <2>2, PreviewKept
  <1>15. ASSUME c \notin overtaken' PROVE PreviewFits(c)'
    <2> DEFINE m == doc[c].preview
    <2>1. PreviewFits(c)
      BY <1>6, <1>15 DEF PreviewInv
    <2>2. /\ q \in OnTheirWay(c) /\ q \in stored
          /\ \A p \in Requests : createdAt[p] \in Nat
      <3>1. q \in stored
        BY <1>1 DEF RequestInv
      <3>2. \A p \in Requests : createdAt[p] \in Nat
        BY DEF TypeOK
      <3> QED BY <1>1, <1>2, <3>1, <3>2 DEF OnTheirWay
    <2>3. \A p \in OnTheirWay(c) : createdAt[q] <= createdAt[p]
      BY <1>6, <1>15, <2>2 DEF OnTheirWay
    <2>4. m # Nothing => m \in Requests /\ createdAt[m] <= createdAt[q]
      BY <1>8, <2>1, <2>2 DEF PreviewFits
    <2>5. \A k \in stored : request'[k].conv = c =>
            request'[k].pc = "touch" \/ createdAt[k] <= createdAt[q]
      <3>1. ASSUME NEW k \in stored, request'[k].conv = c, k # q, request[k].pc # "touch"
            PROVE  createdAt[k] <= createdAt[q]
        <4>1. k \in Requests /\ request[k].conv = c
          BY <1>5, <1>8, <3>1
        <4>2. m # Nothing /\ createdAt[k] <= createdAt[m]
          BY <2>1, <3>1, <4>1 DEF PreviewFits
        <4> QED BY <2>2, <2>4, <4>1, <4>2
      <3>2. createdAt[q] <= createdAt[q]
        BY <2>2
      <3>3. \A k \in stored \ {q} : request'[k] = request[k]
        BY <1>5, <1>8
      <3> QED BY <3>1, <3>2, <3>3
    <2>6. doc'[c].preview = q /\ q # Nothing /\ request'[q].conv = c
      BY <1>5, <1>7, NothingAssumption
    <2> QED BY <1>3, <1>13, <2>2, <2>3, <2>5, <2>6 DEF PreviewFits
  <1>16. PreviewInv'
    BY <1>14, <1>15 DEF PreviewInv
  <1> QED BY <1>9, <1>10, <1>11, <1>12, <1>16

\* A request that fails between two writes marks its conversation.
LEMMA FailsKeepsInv ==
  ASSUME IndInv, NEW q \in Requests, Fails(q)
  PROVE  IndInv'
  <1> USE DEF IndInv
  <1>1. /\ request \in [Requests -> RequestType] /\ Fits(q, request[q])
        /\ UNCHANGED <<doc, stored, now, createdAt, cache>> /\ faults' \in 0..MaxFaults
        /\ Goes(q, "error") /\ request[q].pc \notin {"ok", "error"}
    BY MaxFaultsAssumption DEF TypeOK, RequestInv, Fails, clock
  <1>2. /\ request' \in [Requests -> RequestType]
        /\ request'[q].pc = "error" /\ request'[q].kind = request[q].kind
        /\ request'[q].conv = request[q].conv
        /\ \A p \in Requests \ {q} : request'[p] = request[p]
    BY <1>1, RequestGoes
  <1>3. /\ raced \subseteq raced' /\ raced' \subseteq Requests
        /\ overtaken \subseteq overtaken' /\ overtaken' \subseteq Requests
        /\ request[q].pc = "invalidate" => request[q].conv \in raced'
        /\ request[q].pc = "touch" => request[q].conv \in overtaken'
    BY <1>1 DEF TypeOK, Fails, Fits
  <1>4. \A k \in stored : k \in Requests /\ IsSent(request[k])
    BY DEF TypeOK, RequestInv
  <1>5. TypeOK'
    BY <1>1, <1>2, <1>3 DEF TypeOK
  <1>6. RequestInv'
    <2>1. \A p \in Requests : Fits(p, request[p])'
      BY <1>1, <1>2 DEF RequestInv, Fits, Exists
    <2>2. \A k \in stored' : IsSent(request[k])'
      BY <1>1, <1>2, <1>4 DEF IsSent, Exists
    <2> QED BY <1>1, <1>2, <2>1, <2>2 DEF RequestInv, Exists
  <1>7. DirectInv'
    BY <1>1, <1>2 DEF DirectInv, OneDirectPerPair, DirectOf
  <1>8. CopyInv'
    BY <1>1, <1>2, <1>3 DEF CopyInv, CopyIsCurrentUnlessRaced, Sends
  <1>9. ASSUME NEW d \in Requests \ overtaken' PROVE PreviewFits(d)'
    <2>1. PreviewFits(d)
      BY <1>3 DEF PreviewInv
    <2>2. OnTheirWay(d)' \subseteq OnTheirWay(d)
      BY <1>2 DEF OnTheirWay
    <2>3. \A k \in stored : /\ request'[k].conv = request[k].conv
                            /\ request[k].conv = d /\ request[k].pc = "touch" => k # q
                            /\ k # q => request'[k] = request[k]
      BY <1>2, <1>3, <1>4
    <2> QED BY <1>1, <2>1, <2>2, <2>3, PreviewKept
  <1> QED BY <1>5, <1>6, <1>7, <1>8, <1>9 DEF PreviewInv

\* A step that changes nothing keeps the invariant.
LEMMA StutteringKeepsInv == IndInv /\ UNCHANGED vars => IndInv'
  <1> SUFFICES ASSUME IndInv, UNCHANGED vars PROVE IndInv'
    OBVIOUS
  <1> USE DEF IndInv, vars, clock
  <1>1. TypeOK'
    BY DEF TypeOK
  <1>2. RequestInv'
    BY DEF RequestInv, Fits, IsSent, Exists
  <1>3. DirectInv'
    BY DEF DirectInv, OneDirectPerPair, DirectOf
  <1>4. CopyInv'
    BY DEF CopyInv, CopyIsCurrentUnlessRaced, Sends
  <1>5. PreviewInv'
    BY DEF PreviewInv, PreviewFits, OnTheirWay
  <1> QED BY <1>1, <1>2, <1>3, <1>4, <1>5

\* Every step keeps the invariant: by the kind of its action.
LEMMA NextKeepsInv ==
  ASSUME IndInv, Next
  PROVE  IndInv'
  <1>1. ASSUME NEW q \in Requests, Arrives(q) PROVE IndInv'
    BY <1>1, ArrivingKeepsInv
  <1>2. ASSUME NEW q \in Requests, Step(q) PROVE IndInv'
    <2>1. CASE FindDirect(q) \/ InsertConflict(q) \/ FindExisting(q) \/ Lookup(q) \/ Load(q)
      BY <2>1, ReadingKeepsInv
    <2>2. CASE Stamp(q)
      BY <2>2, StampKeepsInv
    <2>3. ASSUME NEW outcome \in {Answered, Lost},
                 Insert(q, outcome) \/ Store(q, outcome) \/ Touch(q, outcome)
          PROVE  IndInv'
      BY <2>3, InsertKeepsInv, StoreKeepsInv, TouchKeepsInv
    <2>4. ASSUME NEW outcome \in {Answered, Lost, Resent},
                 Fill(q, outcome) \/ Invalidate(q, outcome)
          PROVE  IndInv'
      BY <2>4, CacheStepsKeepInv
    <2> QED BY <1>2, <2>1, <2>2, <2>3, <2>4 DEF Step
  <1>3. ASSUME NEW q \in Requests, Fails(q) PROVE IndInv'
    BY <1>3, FailsKeepsInv
  <1>4. ASSUME NEW c \in Requests, CopyExpires(c) PROVE IndInv'
    BY <1>4, ExpiryKeepsInv
  <1> QED BY <1>1, <1>2, <1>3, <1>4 DEF Next

-----------------------------------------------------------------------------
\* Theorems

\* In every reachable state of chat-service's conversations the inductive invariant
\* holds: what each handler has read fits its step, the pair's conversation, the
\* copies in flight and the newest message.
THEOREM Invariance == Spec => []IndInv
  <1>1. IndInv /\ [Next]_vars => IndInv'
    BY NextKeepsInv, StutteringKeepsInv
  <1> QED BY InitInv, <1>1, PTL DEF Spec

\* Documents, messages, copies and handlers keep their types, and a conversation has
\* two members at least (conversation.service.ts).
THEOREM TypeCorrect == Spec => []TypeOK
  <1>1. IndInv => TypeOK
    BY DEF IndInv
  <1> QED BY Invariance, <1>1, PTL

\* However many createOrGetDirectConversation calls race, for any users, a pair has
\* one direct conversation and every caller that was answered got that one.
THEOREM OneDirect == Spec => []OneDirectPerPair
  <1>1. IndInv => OneDirectPerPair
    BY DEF IndInv, DirectInv
  <1> QED BY Invariance, <1>1, PTL

\* The copy in Redis is the document's, or about to be deleted, unless an update met
\* a request between reading the document and filling the cache, or failed.
THEOREM CopyCurrent == Spec => []CopyIsCurrentUnlessRaced
  <1>1. IndInv => CopyIsCurrentUnlessRaced
    BY DEF IndInv, CopyInv
  <1> QED BY Invariance, <1>1, PTL

\* For any number of overlapping sends, whatever the order of their inserts and
\* updates, lastMessagePreview is that of the newest message by createdAt once no
\* message waits for touchConversation, unless an update passed a send stamped before
\* it, or a send failed between createMessage's insert and touchConversation.
THEOREM PreviewNewest == Spec => []PreviewIsNewestUnlessOvertaken
  <1>1. ASSUME IndInv PROVE PreviewIsNewestUnlessOvertaken
    <2>1. ASSUME NEW c \in Requests \ overtaken, \A q \in Sends(c) : request[q].pc # "touch"
          PROVE  IsNewest(doc[c].preview, c)
      <3>1. \A k \in stored : request[k].conv = c => request[k].pc # "touch"
        BY <1>1, <2>1 DEF IndInv, TypeOK, RequestInv, IsSent, Sends
      <3>2. PreviewFits(c)
        BY <1>1, <2>1 DEF IndInv, PreviewInv
      <3> QED BY <3>1, <3>2 DEF PreviewFits, IsNewest
    <2> QED BY <2>1 DEF PreviewIsNewestUnlessOvertaken
  <1> QED BY Invariance, <1>1, PTL
=============================================================================
