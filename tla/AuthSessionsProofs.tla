-------------------------- MODULE AuthSessionsProofs --------------------------
(***************************************************************************)
(* Theorems about AuthSessions for any emails, any number of overlapping   *)
(* requests, of refresh_tokens rows and of faults.                         *)
(***************************************************************************)
EXTENDS AuthSessions, TLAPS

\* The steps of register and login, and those of refreshTokens.
AccountSteps == {"check", "insert", "commit", "publish", "login", "createSession"}
TokenSteps   == {"find", "destroyExpired", "findUser", "destroy", "create"}

\* A refresh exchanges a row for a new one from finding it to creating the other.
Exchanging(q) == request[q].pc \in {"findUser", "destroy", "create"}
FamilyOf(q)   == family[request[q].row]

-----------------------------------------------------------------------------
\* The inductive invariant, in named parts

\* A session's first row is a row, all its rows are one account's, and nothing refers
\* to a row that was not made.
RowInv ==
  /\ \A r \in 1..made : /\ family[r] \in 1..made
                        /\ owner[r] = owner[family[r]]
                        /\ owner[r] \in accounts
  /\ revoked \subseteq 1..made
  /\ \A jwt \in issued : jwt.row \in 1..made

\* A request has what its step works on.
RequestInv ==
  \A q \in Requests :
    /\ request[q].pc \in AccountSteps => request[q].email \in Emails
    /\ request[q].pc \in {"publish", "createSession"} => request[q].email \in accounts
    /\ request[q].pc \in TokenSteps => request[q].row \in 1..made

\* The INSERT holds the email's entry in the unique index until the COMMIT: the
\* account is not there yet and no other transaction holds it.
RegisterInv ==
  /\ outbox = IF outboxEnabled THEN accounts ELSE {}
  /\ announced \subseteq accounts
  /\ \A e \in Emails : created[e] \in {0, 1} /\ (created[e] = 1 => e \in accounts)
  /\ \A q \in Requests : request[q].pc = "commit" =>
       /\ request[q].email \notin accounts
       /\ \A p \in Requests :
            request[p].pc = "commit" /\ request[p].email = request[q].email => p = q

\* In a session whose refreshes did not overlap, the live row and the refresh that
\* exchanges it are one: there is one row, or one refresh about to create it.
ExchangeInv ==
  /\ \A r, s \in live : family[r] = family[s] /\ r # s => family[r] \in raced
  /\ \A p, q \in Requests :
       Exchanging(p) /\ Exchanging(q) /\ FamilyOf(p) = FamilyOf(q) /\ p # q
         => FamilyOf(q) \in raced
  /\ \A q \in Requests, s \in live :
       Exchanging(q) /\ family[s] = FamilyOf(q)
         => \/ FamilyOf(q) \in raced
            \/ request[q].pc # "create" /\ s = request[q].row

\* What is left of a revoked session was in flight when it was revoked.
RevokedInv ==
  /\ \A r \in live : family[r] \in revoked => family[r] \in straddled
  /\ \A q \in Requests : Exchanging(q) /\ FamilyOf(q) \in revoked => FamilyOf(q) \in straddled

\* A session that was not revoked, expired or cut short still has a row, or a refresh
\* that has destroyed one and is about to create the next.
Kept(f) ==
  \/ \E s \in live : family[s] = f
  \/ \E q \in Requests : request[q].pc = "create" /\ FamilyOf(q) = f

KeptInv ==
  \A r \in 1..made : family[r] \notin revoked \union lapsed \union cut => Kept(family[r])

IndInv ==
  TypeOK /\ RowInv /\ RequestInv /\ RegisterInv /\ ExchangeInv /\ RevokedInv /\ KeptInv

-----------------------------------------------------------------------------
\* How the operators change a request and the rows

\* A request that goes on keeps what it works on, and no other moves.
LEMMA RequestGoes ==
  ASSUME request \in [Requests -> RequestType], NEW q \in Requests,
         NEW s \in {"idle"} \union AccountSteps \union TokenSteps, Goes(q, s)
  PROVE  /\ request' \in [Requests -> RequestType]
         /\ request'[q].pc = s
         /\ request'[q].email = request[q].email /\ request'[q].row = request[q].row
         /\ \A p \in Requests \ {q} : request'[p] = request[p]
  BY DEF Goes, RequestType, AccountSteps, TokenSteps

\* A request that ends is idle, and no other moves.
LEMMA RequestEnds ==
  ASSUME request \in [Requests -> RequestType], NEW q \in Requests, Ends(q)
  PROVE  /\ request' \in [Requests -> RequestType]
         /\ request'[q].pc = "idle"
         /\ \A p \in Requests \ {q} : request'[p] = request[p]
  BY DEF Ends, IdleRequest, RequestType

\* A new request starts with an email or with a row.
LEMMA NewRequests ==
  /\ IdleRequest \in RequestType /\ IdleRequest.pc = "idle"
  /\ \A e \in Emails, s \in AccountSteps :
       LET new == [IdleRequest EXCEPT !.pc = s, !.email = e] IN
       new \in RequestType /\ new.pc = s /\ new.email = e
  /\ \A r \in Rows :
       LET new == [IdleRequest EXCEPT !.pc = "find", !.row = r] IN
       new \in RequestType /\ new.pc = "find" /\ new.row = r
  BY DEF IdleRequest, RequestType, AccountSteps

\* The row that createRefreshToken adds: its number is new, the others stay.
LEMMA CreatedRow ==
  ASSUME TypeOK, RowInv, NEW e \in Emails, NEW f \in {NoRow} \union 1..made, CreateRow(e, f)
  PROVE  LET r == made + 1 IN
         /\ made' = r /\ made \in Nat /\ r \in Rows /\ made' \in 0..MaxRows
         /\ owner' \in [Rows -> Emails \union {NoEmail}] /\ owner'[r] = e
         /\ family' \in [Rows -> Rows \union {NoRow}]
         /\ family'[r] = IF f = NoRow THEN r ELSE f
         /\ \A s \in 1..made : owner'[s] = owner[s] /\ family'[s] = family[s]
         /\ live' = live \union {r} /\ live \subseteq 1..made
         /\ 1..made' = 1..made \union {r} /\ r \notin 1..made
         /\ expired' = expired
  BY MaxRowsAssumption DEF CreateRow, TypeOK, Rows, NoRow, NoEmail

-----------------------------------------------------------------------------
\* The invariant is inductive: one lemma for each group of actions

\* The invariant holds at the start.
LEMMA InitInv == Init => IndInv
  <1> SUFFICES ASSUME Init PROVE IndInv
    OBVIOUS
  <1> USE MaxRowsAssumption, MaxFaultsAssumption
  <1>1. TypeOK
    <2>1. request \in [Requests -> RequestType]
      BY NewRequests DEF Init
    <2>2. live \subseteq 1..made /\ expired \subseteq 1..made /\ made \in 0..MaxRows
            /\ faults \in 0..MaxFaults /\ \A r \in 1..made : owner[r] \in Emails
      BY DEF Init
    <2>3. owner \in [Rows -> Emails \union {NoEmail}] /\ family \in [Rows -> Rows \union {NoRow}]
      BY DEF Init
    <2>4. created \in [Emails -> 0..2]
      BY DEF Init
    <2> QED BY <2>1, <2>2, <2>3, <2>4 DEF Init, TypeOK
  <1>2. \A q \in Requests : request[q].pc = "idle"
    BY NewRequests DEF Init
  <1>3. RowInv /\ RequestInv /\ RegisterInv /\ ExchangeInv /\ RevokedInv /\ KeptInv
    BY <1>2 DEF Init, RowInv, RequestInv, RegisterInv, ExchangeInv, RevokedInv, KeptInv, Exchanging,
                AccountSteps, TokenSteps
  <1> QED BY <1>1, <1>3 DEF IndInv

\* Request q goes on to a step that changes nothing else the invariant is about.
GoesOn(q, new) ==
  /\ request' \in [Requests -> RequestType]
  /\ request'[q] = new
  /\ \A p \in Requests \ {q} : request'[p] = request[p]
  /\ UNCHANGED <<outboxEnabled, tables, issued, announced, created, revoked, straddled, raced,
                 lapsed>>
  /\ cut \subseteq cut' /\ cut' \subseteq Rows
  /\ request[q].pc = "create" => FamilyOf(q) \in cut'
  /\ channel' \in {"open", "null"} /\ faults' \in 0..MaxFaults
  /\ new.pc \in AccountSteps => new.email \in Emails
  /\ new.pc \in {"publish", "createSession"} => new.email \in accounts
  /\ new.pc \in TokenSteps => new.row \in 1..made
  /\ new.pc = "commit" =>
       /\ new.email \notin accounts
       /\ \A p \in Requests : ~(request[p].pc = "commit" /\ request[p].email = new.email)
  /\ new.pc # "create"
  /\ new.pc \in {"findUser", "destroy"} =>
       request[q].pc \in {"findUser", "destroy"} /\ request[q].row = new.row

\* A step of one request that changes no table.
LEMMA GoingOnKeepsInv ==
  ASSUME IndInv, NEW q \in Requests, NEW new, GoesOn(q, new)
  PROVE  IndInv'
  <1> USE DEF IndInv, GoesOn
  <1>1. UNCHANGED <<outboxEnabled, accounts, made, owner, family, live, expired, outbox, issued,
                    announced, created, revoked, straddled, raced, lapsed>>
    BY DEF tables
  <1>2. TypeOK'
    BY <1>1 DEF TypeOK
  <1>3. RowInv'
    BY <1>1 DEF RowInv
  <1>4. RequestInv'
    BY <1>1 DEF RequestInv
  <1>5. RegisterInv'
    BY <1>1 DEF RegisterInv
  <1>6. \A p \in Requests : Exchanging(p)' =>
          /\ Exchanging(p) /\ FamilyOf(p)' = FamilyOf(p) /\ request'[p].row = request[p].row
          /\ request'[p].pc = "create" <=> request[p].pc = "create"
    BY <1>1 DEF Exchanging, FamilyOf
  <1>7. ExchangeInv' /\ RevokedInv'
    BY <1>1, <1>6 DEF ExchangeInv, RevokedInv
  <1>8. KeptInv'
    BY <1>1 DEF KeptInv, Kept, FamilyOf
  <1> QED BY <1>2, <1>3, <1>4, <1>5, <1>7, <1>8

\* Requests that arrive, end, or go on without writing to a table.
LEMMA RequestStepsKeepInv ==
  ASSUME IndInv, NEW q \in Requests,
         \/ \E e \in Emails : Register(q, e) \/ Login(q, e)
         \/ \E jwt \in issued : Refresh(q, jwt)
         \/ CheckEmail(q) \/ InsertUser(q) \/ InsertRefused(q) \/ CheckCredentials(q)
         \/ FindUser(q) \/ StatementFails(q)
  PROVE  IndInv'
  <1> USE MaxFaultsAssumption DEF IndInv
  <1>0. request \in [Requests -> RequestType] /\ channel \in {"open", "null"}
          /\ faults \in 0..MaxFaults /\ cut \subseteq Rows
    BY DEF TypeOK
  <1>1. SUFFICES GoesOn(q, request'[q])
    BY GoingOnKeepsInv
  <1>2. ASSUME NEW e \in Emails, Register(q, e) \/ Login(q, e) PROVE GoesOn(q, request'[q])
    <2>1. PICK s \in {"check", "login"} :
            request' = [request EXCEPT ![q] = [IdleRequest EXCEPT !.pc = s, !.email = e]]
      BY <1>2 DEF Register, Login
    <2> DEFINE new == [IdleRequest EXCEPT !.pc = s, !.email = e]
    <2>2. new \in RequestType /\ new.pc = s /\ new.email = e
      BY DEF IdleRequest, RequestType
    <2>3. /\ UNCHANGED <<outboxEnabled, tables, channel, announced, issued, created, revoked,
                         straddled, raced, lapsed, cut, faults>>
          /\ request[q].pc = "idle"
      BY <1>2 DEF Register, Login, history
    <2> HIDE DEF new
    <2>4. request' = [request EXCEPT ![q] = new]
      BY <2>1 DEF new
    <2> QED BY <1>0, <2>2, <2>3, <2>4 DEF GoesOn, AccountSteps, TokenSteps
  <1>3. ASSUME NEW jwt \in issued, Refresh(q, jwt) PROVE GoesOn(q, request'[q])
    <2>1. jwt.row \in Rows /\ jwt.row \in 1..made
      BY DEF TypeOK, RowInv
    <2> DEFINE new == [IdleRequest EXCEPT !.pc = "find", !.row = jwt.row]
    <2>2. new \in RequestType /\ new.pc = "find" /\ new.row = jwt.row
      BY <2>1, NewRequests
    <2>3. /\ UNCHANGED <<outboxEnabled, tables, channel, announced, issued, created, revoked,
                         straddled, raced, lapsed, cut, faults>>
          /\ request[q].pc = "idle" /\ request' = [request EXCEPT ![q] = new]
      BY <1>3 DEF Refresh, history
    <2> HIDE DEF new
    <2> QED BY <1>0, <2>1, <2>2, <2>3 DEF GoesOn, AccountSteps, TokenSteps
  <1>4. CASE /\ Ends(q)
             /\ UNCHANGED <<outboxEnabled, tables, announced, issued, created, revoked,
                            straddled, raced, lapsed>>
             /\ cut \subseteq cut' /\ cut' \subseteq Rows
             /\ request[q].pc = "create" => FamilyOf(q) \in cut'
             /\ channel' \in {"open", "null"} /\ faults' \in 0..MaxFaults
    BY <1>0, <1>4, RequestEnds DEF GoesOn, AccountSteps, TokenSteps, history
  <1>5. CASE CheckEmail(q)
    <2>1. request[q].email \in Emails
      BY <1>5 DEF CheckEmail, RequestInv, AccountSteps
    <2>2. CASE Goes(q, "insert")
      <3>1. "insert" \in {"idle"} \union AccountSteps \union TokenSteps
        BY DEF AccountSteps
      <3>2. request' \in [Requests -> RequestType] /\ request'[q].pc = "insert"
              /\ request'[q].email = request[q].email
              /\ \A p \in Requests \ {q} : request'[p] = request[p]
        BY <1>0, <2>2, <3>1, RequestGoes
      <3> QED BY <1>0, <1>5, <2>1, <3>2 DEF CheckEmail, GoesOn, AccountSteps, TokenSteps, history
    <2> QED BY <1>0, <1>4, <1>5, <2>2 DEF CheckEmail, history
  <1>6. CASE InsertUser(q)
    <2>1. "commit" \in {"idle"} \union AccountSteps \union TokenSteps
      BY DEF AccountSteps
    <2>2. request' \in [Requests -> RequestType] /\ request'[q].pc = "commit"
            /\ request'[q].email = request[q].email
            /\ \A p \in Requests \ {q} : request'[p] = request[p]
      BY <1>0, <1>6, <2>1, RequestGoes DEF InsertUser
    <2>3. request[q].email \in Emails
      BY <1>6 DEF InsertUser, RequestInv, AccountSteps
    <2> QED BY <1>0, <1>6, <2>2, <2>3 DEF InsertUser, IndexAdmits, GoesOn, AccountSteps, TokenSteps, history
  <1>7. CASE InsertRefused(q)
    BY <1>0, <1>4, <1>7 DEF InsertRefused, history
  <1>8. CASE CheckCredentials(q)
    <2>1. CASE request[q].email \in accounts /\ Goes(q, "createSession")
      <3>1. "createSession" \in {"idle"} \union AccountSteps \union TokenSteps
        BY DEF AccountSteps
      <3>2. request' \in [Requests -> RequestType] /\ request'[q].pc = "createSession"
              /\ request'[q].email = request[q].email
              /\ \A p \in Requests \ {q} : request'[p] = request[p]
        BY <1>0, <2>1, <3>1, RequestGoes
      <3>3. request[q].email \in Emails
        BY <2>1 DEF TypeOK
      <3> QED BY <1>0, <1>8, <2>1, <3>2, <3>3
            DEF CheckCredentials, GoesOn, AccountSteps, TokenSteps, history
    <2> QED BY <1>0, <1>4, <1>8, <2>1 DEF CheckCredentials, history
  <1>9. CASE FindUser(q)
    <2>1. "destroy" \in {"idle"} \union AccountSteps \union TokenSteps
      BY DEF TokenSteps
    <2>2. request' \in [Requests -> RequestType] /\ request'[q].pc = "destroy"
            /\ request'[q].row = request[q].row
            /\ \A p \in Requests \ {q} : request'[p] = request[p]
      BY <1>0, <1>9, <2>1, RequestGoes DEF FindUser
    <2>3. request[q].row \in 1..made
      BY <1>9 DEF FindUser, RequestInv, TokenSteps
    <2> QED BY <1>0, <1>9, <2>2, <2>3 DEF FindUser, GoesOn, AccountSteps, TokenSteps, history
  <1>10. CASE StatementFails(q)
    <2>1. request[q].pc = "create" => FamilyOf(q) \in Rows
      BY MaxRowsAssumption DEF RequestInv, TokenSteps, RowInv, TypeOK, Rows, FamilyOf
    <2> QED BY <1>0, <1>4, <1>10, <2>1 DEF StatementFails, FamilyOf
  <1> QED BY <1>2, <1>3, <1>5, <1>6, <1>7, <1>8, <1>9, <1>10

\* A row is created for account e in session f, or in a new one, by request q, which
\* leaves the exchange; the refresh JWT of the row carries some key.
RowEffect(q, e, f, key) ==
  /\ CreateRow(e, f) /\ Issue(key)
  /\ f # NoRow => request[q].pc = "create" /\ FamilyOf(q) = f /\ owner[f] = e
  /\ f = NoRow => request[q].pc # "create"
  /\ e \in accounts' /\ accounts \subseteq accounts'
  /\ request' \in [Requests -> RequestType]
  /\ request'[q].pc \in {"idle", "publish"}
  /\ \A p \in Requests \ {q} : request'[p] = request[p]
  /\ UNCHANGED <<revoked, straddled, raced, lapsed, cut>>

\* A new row of refresh_tokens, in a new family or in that of the row it replaces.
LEMMA RowEffectKeepsInv ==
  ASSUME IndInv, NEW q \in Requests, NEW e \in Emails, NEW f \in {NoRow} \union 1..made,
         NEW key \in {"id", "tokenId"}, RowEffect(q, e, f, key)
  PROVE  /\ RowInv' /\ ExchangeInv' /\ RevokedInv' /\ KeptInv'
         /\ made' \in 0..MaxRows
         /\ owner' \in [Rows -> Emails \union {NoEmail}]
         /\ family' \in [Rows -> Rows \union {NoRow}]
         /\ live' \subseteq 1..made' /\ expired' \subseteq 1..made'
         /\ \A r \in 1..made' : owner'[r] \in Emails
         /\ issued' \subseteq [row : Rows, key : {"id", "tokenId"}]
         /\ 1..made \subseteq 1..made'
  <1> USE DEF IndInv, RowEffect
  <1> DEFINE r == made + 1
             g == IF f = NoRow THEN r ELSE f
  <1>1. /\ made' = r /\ r \in Rows /\ made' \in 0..MaxRows
        /\ owner' \in [Rows -> Emails \union {NoEmail}] /\ owner'[r] = e
        /\ family' \in [Rows -> Rows \union {NoRow}] /\ family'[r] = g
        /\ \A s \in 1..made : owner'[s] = owner[s] /\ family'[s] = family[s]
        /\ live' = live \union {r} /\ live \subseteq 1..made
        /\ 1..made' = 1..made \union {r} /\ r \notin 1..made
        /\ expired' = expired /\ expired \subseteq 1..made
    BY CreatedRow DEF TypeOK
  <1>2. issued' = issued \union {[row |-> r, key |-> key]}
    BY DEF Issue
  <1>3. \A s \in 1..made : family[s] \in 1..made /\ owner[s] = owner[family[s]]
                             /\ owner[s] \in accounts
    BY DEF RowInv
  <1>4. \A p \in Requests \ {q} :
          Exchanging(p)' => /\ Exchanging(p) /\ request'[p] = request[p]
                            /\ request[p].row \in 1..made /\ FamilyOf(p)' = FamilyOf(p)
                            /\ FamilyOf(p) \in 1..made
    BY <1>1, <1>3 DEF Exchanging, FamilyOf, RequestInv, TokenSteps
  <1>5. ~Exchanging(q)'
    BY DEF Exchanging
  <1>6. g # r => /\ request[q].pc = "create" /\ Exchanging(q) /\ FamilyOf(q) = g
                 /\ owner[g] = e /\ g \in 1..made
    BY DEF Exchanging
  <1>7. g = r \/ g \in 1..made
    BY <1>6
  <1> HIDE DEF r, g
  <1>8. RowInv'
    <2>1. ASSUME NEW s \in 1..made'
          PROVE  /\ family'[s] \in 1..made'
                 /\ owner'[s] = owner'[family'[s]]
                 /\ owner'[s] \in accounts'
      <3>1. CASE s = r
        BY <1>1, <1>6, <1>7, <3>1
      <3>2. CASE s \in 1..made
        BY <1>1, <1>3, <3>2
      <3> QED BY <1>1, <3>1, <3>2
    <2>2. revoked' \subseteq 1..made'
      BY <1>1 DEF RowInv
    <2>3. \A jwt \in issued' : jwt.row \in 1..made'
      BY <1>1, <1>2 DEF RowInv
    <2> QED BY <2>1, <2>2, <2>3 DEF RowInv
  <1>9. ASSUME NEW s \in live, family[s] = g PROVE g \in raced
    BY <1>1, <1>3, <1>6, <1>9 DEF ExchangeInv
  <1>10. ASSUME NEW p \in Requests \ {q}, Exchanging(p)', FamilyOf(p) = g PROVE g \in raced
    BY <1>1, <1>4, <1>6, <1>10 DEF ExchangeInv
  <1>11. ExchangeInv'
    <2>1. \A s, t \in live' : family'[s] = family'[t] /\ s # t => family'[s] \in raced'
      <3>1. \A s \in live : s \in 1..made /\ family'[s] = family[s]
        BY <1>1
      <3>2. \A s, t \in live : family[s] = family[t] /\ s # t => family[s] \in raced
        BY DEF ExchangeInv
      <3> QED BY <1>1, <1>9, <3>1, <3>2
    <2>2. \A p, o \in Requests :
            Exchanging(p)' /\ Exchanging(o)' /\ FamilyOf(p)' = FamilyOf(o)' /\ p # o
              => FamilyOf(o)' \in raced'
      BY <1>4, <1>5 DEF ExchangeInv
    <2>3. ASSUME NEW p \in Requests, NEW s \in live', Exchanging(p)', family'[s] = FamilyOf(p)'
          PROVE  \/ FamilyOf(p)' \in raced'
                 \/ request'[p].pc # "create" /\ s = request'[p].row
      <3>1. p \in Requests \ {q} /\ Exchanging(p) /\ request'[p] = request[p]
              /\ FamilyOf(p)' = FamilyOf(p)
        BY <1>4, <1>5, <2>3
      <3>2. CASE s = r
        BY <1>1, <1>10, <2>3, <3>1, <3>2
      <3>3. CASE s \in live
        BY <1>1, <2>3, <3>1, <3>3 DEF ExchangeInv
      <3> QED BY <1>1, <3>2, <3>3
    <2> QED BY <2>1, <2>2, <2>3 DEF ExchangeInv
  <1>12. RevokedInv'
    <2>1. g \in revoked => g \in straddled
      BY <1>1, <1>6 DEF RevokedInv, RowInv
    <2>2. \A s \in live' : family'[s] \in revoked' => family'[s] \in straddled'
      BY <1>1, <2>1 DEF RevokedInv
    <2>3. \A p \in Requests : Exchanging(p)' /\ FamilyOf(p)' \in revoked' => FamilyOf(p)' \in straddled'
      BY <1>4, <1>5 DEF RevokedInv
    <2> QED BY <2>2, <2>3 DEF RevokedInv
  <1>13. \A s \in 1..made' : owner'[s] \in Emails
    BY <1>1 DEF TypeOK
  <1>14. issued' \subseteq [row : Rows, key : {"id", "tokenId"}]
    BY <1>1, <1>2 DEF TypeOK
  <1>15. KeptInv'
    <2>1. ASSUME NEW h, Kept(h) PROVE Kept(h)'
      <3>1. ASSUME NEW s \in live, family[s] = h PROVE Kept(h)'
        BY <1>1, <3>1 DEF Kept
      <3>2. ASSUME NEW p \in Requests \ {q}, request[p].pc = "create", FamilyOf(p) = h
            PROVE  Kept(h)'
        <4>1. Exchanging(p)' /\ request'[p] = request[p]
          BY <3>2 DEF Exchanging
        <4> QED BY <1>4, <3>2, <4>1 DEF Kept
      <3>3. ASSUME request[q].pc = "create", FamilyOf(q) = h PROVE Kept(h)'
        BY <1>1, <3>3 DEF Kept, g
      <3> QED BY <2>1, <3>1, <3>2, <3>3 DEF Kept
    <2>2. ASSUME NEW s \in 1..made', family'[s] \notin revoked' \union lapsed' \union cut'
          PROVE  Kept(family[s])'
      <3>1. CASE s = r
        BY <1>1, <3>1 DEF Kept
      <3>2. CASE s \in 1..made
        BY <1>1, <2>1, <2>2, <3>2 DEF KeptInv
      <3> QED BY <1>1, <3>1, <3>2
    <2> QED BY <2>2 DEF KeptInv
  <1> QED BY <1>1, <1>8, <1>11, <1>12, <1>13, <1>14, <1>15

\* register commits.
LEMMA CommitRegisterKeepsInv ==
  ASSUME IndInv, NEW q \in Requests, CommitRegister(q)
  PROVE  IndInv'
  <1> USE DEF IndInv
  <1> DEFINE e == request[q].email
  <1>1. request[q].pc = "commit" /\ e \in Emails /\ e \notin accounts
    BY DEF CommitRegister, RequestInv, AccountSteps, RegisterInv
  <1>2. accounts' = accounts \union {e} /\ CreateRow(e, NoRow) /\ Issue("id")
          /\ UNCHANGED <<outboxEnabled, channel, announced, revoked, straddled, raced, lapsed, cut,
                         faults>>
    BY DEF CommitRegister
  <1>3. /\ request' \in [Requests -> RequestType]
        /\ request'[q].pc \in {"idle", "publish"}
        /\ request'[q].pc = "publish" => request'[q].email = e
        /\ \A p \in Requests \ {q} : request'[p] = request[p]
    <2>1. request \in [Requests -> RequestType] /\ "publish" \in AccountSteps
      BY DEF TypeOK, AccountSteps
    <2>2. Ends(q) \/ Goes(q, "publish")
      BY DEF CommitRegister
    <2> QED BY <2>1, <2>2, RequestGoes, RequestEnds
  <1>4. created' = [created EXCEPT ![e] = IF created[e] < 2 THEN created[e] + 1 ELSE created[e]]
          /\ created[e] = 0 /\ created \in [Emails -> 0..2]
    BY <1>1 DEF CommitRegister, RegisterInv, TypeOK
  <1>5. outbox' = IF outboxEnabled' THEN accounts' ELSE {}
    BY <1>2 DEF CommitRegister, RegisterInv, Enqueued
  <1> HIDE DEF e
  <1>6. RowEffect(q, e, NoRow, "id")
    BY <1>1, <1>2, <1>3 DEF RowEffect
  <1>7. /\ RowInv' /\ ExchangeInv' /\ RevokedInv' /\ KeptInv'
        /\ made' \in 0..MaxRows
        /\ owner' \in [Rows -> Emails \union {NoEmail}]
        /\ family' \in [Rows -> Rows \union {NoRow}]
        /\ live' \subseteq 1..made' /\ expired' \subseteq 1..made'
        /\ \A r \in 1..made' : owner'[r] \in Emails
        /\ issued' \subseteq [row : Rows, key : {"id", "tokenId"}]
        /\ 1..made \subseteq 1..made'
    BY <1>1, <1>6, RowEffectKeepsInv
  <1>8. created' \in [Emails -> 0..2] /\ created'[e] = 1
          /\ \A x \in Emails \ {e} : created'[x] = created[x]
    BY <1>1, <1>4
  <1>9. TypeOK'
    BY <1>1, <1>2, <1>3, <1>5, <1>7, <1>8 DEF TypeOK
  <1>10. RequestInv'
    BY <1>1, <1>2, <1>3, <1>7 DEF RequestInv, AccountSteps, TokenSteps
  <1>11. RegisterInv'
    <2>1. \A p \in Requests \ {q} : request[p].pc = "commit" => request[p].email # e
      BY <1>1 DEF RegisterInv, e
    <2>2. \A x \in Emails : created'[x] \in {0, 1} /\ (created'[x] = 1 => x \in accounts')
      BY <1>2, <1>8 DEF RegisterInv
    <2>3. announced' \subseteq accounts'
      BY <1>2 DEF RegisterInv
    <2>4. \A p \in Requests : request'[p].pc = "commit" =>
            /\ p # q /\ request[p].pc = "commit" /\ request'[p] = request[p]
            /\ request[p].email \notin accounts'
      BY <1>2, <1>3, <2>1 DEF RegisterInv
    <2>5. \A p, o \in Requests : request'[p].pc = "commit" /\ request'[o].pc = "commit"
                                   /\ request'[p].email = request'[o].email => p = o
      BY <2>4 DEF RegisterInv
    <2> QED BY <1>5, <2>2, <2>3, <2>4, <2>5 DEF RegisterInv
  <1> QED BY <1>7, <1>9, <1>10, <1>11

\* login and refreshTokens create a row of an account that is there.
LEMMA CreateStepsKeepInv ==
  ASSUME IndInv, NEW q \in Requests, CreateSession(q) \/ RotateToken(q)
  PROVE  IndInv'
  <1> USE DEF IndInv
  <1>1. Ends(q) /\ UNCHANGED <<outboxEnabled, accounts, outbox, channel, announced, history, faults>>
    BY DEF CreateSession, RotateToken, history
  <1>2. PICK e \in Emails, f \in {NoRow} \union 1..made :
          /\ CreateRow(e, f) /\ Issue("tokenId") /\ e \in accounts
          /\ f = NoRow => request[q].pc # "create"
          /\ f # NoRow => request[q].pc = "create" /\ FamilyOf(q) = f /\ owner[f] = e
    <2>1. CASE CreateSession(q)
      <3>1. request[q].email \in Emails /\ request[q].email \in accounts
        BY <2>1 DEF CreateSession, RequestInv, AccountSteps
      <3> QED BY <2>1, <3>1 DEF CreateSession, NoRow
    <2>2. CASE RotateToken(q)
      <3>1. request[q].row \in 1..made /\ request[q].pc = "create"
        BY <2>2 DEF RotateToken, RequestInv, TokenSteps
      <3>2. /\ family[request[q].row] \in 1..made
            /\ owner[request[q].row] = owner[family[request[q].row]]
            /\ owner[request[q].row] \in accounts /\ owner[request[q].row] \in Emails
        BY <3>1 DEF RowInv, TypeOK
      <3> QED BY <2>2, <3>1, <3>2 DEF RotateToken, Exchanging, FamilyOf, NoRow
    <2> QED BY <2>1, <2>2
  <1>3. /\ request' \in [Requests -> RequestType] /\ request'[q].pc = "idle"
        /\ \A p \in Requests \ {q} : request'[p] = request[p]
    BY <1>1, RequestEnds DEF TypeOK
  <1>4. RowEffect(q, e, f, "tokenId")
    BY <1>1, <1>2, <1>3 DEF RowEffect, history
  <1>5. /\ RowInv' /\ ExchangeInv' /\ RevokedInv' /\ KeptInv'
        /\ made' \in 0..MaxRows
        /\ owner' \in [Rows -> Emails \union {NoEmail}]
        /\ family' \in [Rows -> Rows \union {NoRow}]
        /\ live' \subseteq 1..made' /\ expired' \subseteq 1..made'
        /\ \A r \in 1..made' : owner'[r] \in Emails
        /\ issued' \subseteq [row : Rows, key : {"id", "tokenId"}]
        /\ 1..made \subseteq 1..made'
    BY <1>4, RowEffectKeepsInv
  <1>6. TypeOK'
    <2>1. 1..made' \subseteq Rows
      BY <1>5, MaxRowsAssumption DEF Rows
    <2> QED BY <1>1, <1>3, <1>5, <2>1 DEF TypeOK, history
  <1>7. RequestInv'
    BY <1>1, <1>3, <1>5 DEF RequestInv, AccountSteps, TokenSteps
  <1>8. RegisterInv'
    BY <1>1, <1>3 DEF RegisterInv, history
  <1> QED BY <1>5, <1>6, <1>7, <1>8

\* The steps of an exchange before the new row: a row is found, or destroyed.
LEMMA TokenStepsKeepInv ==
  ASSUME IndInv, NEW q \in Requests,
         FindToken(q) \/ DestroyExpired(q) \/ DestroyToken(q) \/ DestroyUnanswered(q)
  PROVE  IndInv'
  <1> USE DEF IndInv
  <1> DEFINE r == request[q].row
  <1>1. r \in 1..made /\ r \in Rows /\ family[r] \in 1..made /\ family[r] \in Rows
    BY MaxRowsAssumption DEF FindToken, DestroyExpired, DestroyToken, DestroyUnanswered, RequestInv,
                             TokenSteps, RowInv, TypeOK, Rows
  <1>2. request \in [Requests -> RequestType]
          /\ \A s \in {"idle", "destroyExpired", "findUser", "create"} :
               s \in {"idle"} \union AccountSteps \union TokenSteps
    BY DEF TypeOK, TokenSteps
  <1>3. CASE FindToken(q)
    <2>1. /\ request' \in [Requests -> RequestType]
          /\ \A p \in Requests \ {q} : request'[p] = request[p]
          /\ \/ request'[q].pc \in {"idle", "destroyExpired"}
             \/ request'[q].pc = "findUser" /\ r \in live
          /\ request'[q].pc # "idle" => request'[q].row = r
      BY <1>2, <1>3, RequestEnds, RequestGoes DEF FindToken
    <2>2. UNCHANGED <<outboxEnabled, accounts, made, owner, family, live, expired, outbox, channel,
                      announced, issued, created, revoked, straddled, lapsed, cut, faults>>
      BY <1>3 DEF FindToken, tables
    <2>3. raced' = IF r \in live /\ \E p \in Requests : InExchange(p, r)
                   THEN raced \union {family[r]} ELSE raced
      BY <1>3 DEF FindToken
    <2> HIDE DEF r
    <2>4. TypeOK'
      BY <1>1, <2>1, <2>2, <2>3 DEF TypeOK
    <2>5. RowInv'
      BY <2>2 DEF RowInv
    <2>6. RequestInv'
      BY <1>1, <2>1, <2>2 DEF RequestInv, AccountSteps, TokenSteps
    <2>7. RegisterInv'
      BY <2>1, <2>2 DEF RegisterInv
    <2>8. \A p \in Requests \ {q} : Exchanging(p)' <=> Exchanging(p)
      BY <2>1 DEF Exchanging
    <2>9. \A p \in Requests \ {q} : FamilyOf(p)' = FamilyOf(p) /\ request'[p] = request[p]
      BY <2>1, <2>2 DEF FamilyOf
    <2>10. Exchanging(q)' => /\ request'[q].pc = "findUser" /\ request'[q].row = r
                             /\ r \in live /\ FamilyOf(q)' = family[r]
      BY <2>1, <2>2 DEF Exchanging, FamilyOf
    \* Another exchange in the session, unless they raced, holds this very row.
    <2>11. ASSUME NEW p \in Requests \ {q}, Exchanging(q)', Exchanging(p), FamilyOf(p) = family[r]
           PROVE  family[r] \in raced'
      <3>1. family[r] \in raced \/ (request[p].pc # "create" /\ r = request[p].row)
        BY <2>10, <2>11 DEF ExchangeInv
      <3>2. CASE request[p].pc # "create" /\ r = request[p].row
        BY <2>3, <2>10, <2>11, <3>2 DEF Exchanging, InExchange
      <3> QED BY <2>3, <3>1, <3>2
    <2>12. raced \subseteq raced'
      BY <2>3
    <2>13. ExchangeInv'
      <3>1. \A s, t \in live' : family'[s] = family'[t] /\ s # t => family'[s] \in raced'
        BY <2>2, <2>12 DEF ExchangeInv
      <3>2. \A p, o \in Requests :
              Exchanging(p)' /\ Exchanging(o)' /\ FamilyOf(p)' = FamilyOf(o)' /\ p # o
                => FamilyOf(o)' \in raced'
        BY <2>8, <2>9, <2>10, <2>11, <2>12 DEF ExchangeInv
      <3>3. ASSUME NEW p \in Requests, NEW s \in live', Exchanging(p)', family'[s] = FamilyOf(p)'
            PROVE  \/ FamilyOf(p)' \in raced'
                   \/ request'[p].pc # "create" /\ s = request'[p].row
        <4>1. CASE p = q
          BY <2>2, <2>10, <2>12, <3>3, <4>1 DEF ExchangeInv
        <4>2. CASE p # q
          BY <2>2, <2>8, <2>9, <2>12, <3>3, <4>2 DEF ExchangeInv
        <4> QED BY <4>1, <4>2
      <3> QED BY <3>1, <3>2, <3>3 DEF ExchangeInv
    <2>14. RevokedInv'
      BY <2>2, <2>8, <2>9, <2>10 DEF RevokedInv
    <2>15. KeptInv'
      <3>1. \A p \in Requests : request[p].pc = "create" =>
              request'[p].pc = "create" /\ FamilyOf(p)' = FamilyOf(p)
        BY <1>3, <2>9 DEF FindToken
      <3> QED BY <2>2, <3>1 DEF KeptInv, Kept
    <2> QED BY <2>4, <2>5, <2>6, <2>7, <2>13, <2>14, <2>15
  <1>4. CASE DestroyExpired(q) \/ DestroyToken(q) \/ DestroyUnanswered(q)
    <2>1. /\ request' \in [Requests -> RequestType]
          /\ \A p \in Requests \ {q} : request'[p] = request[p]
          /\ \/ request'[q].pc = "idle"
             \/ request'[q].pc = "create" /\ request'[q].row = r /\ Exchanging(q)
      BY <1>2, <1>4, RequestEnds, RequestGoes
            DEF DestroyExpired, DestroyToken, DestroyUnanswered, Exchanging
    <2>2. UNCHANGED <<outboxEnabled, accounts, made, owner, family, expired, outbox, channel,
                      announced, issued, created, revoked, straddled, raced>>
            /\ lapsed \subseteq lapsed' /\ cut \subseteq cut' /\ faults' \in 0..MaxFaults
            /\ lapsed' \subseteq Rows /\ cut' \subseteq Rows
      BY <1>1, <1>4, MaxFaultsAssumption
         DEF DestroyExpired, DestroyToken, DestroyUnanswered, history, TypeOK
    <2>3. live' = live \ {r}
      BY <1>4 DEF DestroyExpired, DestroyToken, DestroyUnanswered, Destroyed
    <2>4. request'[q].pc = "create" => request[q].pc = "destroy"
      BY <1>4, <2>1, RequestEnds, <1>2 DEF DestroyExpired, DestroyToken, DestroyUnanswered
    <2>12. /\ request[q].pc # "create"
           /\ request'[q].pc = "create" \/ family[r] \in lapsed' \union cut'
      BY <1>2, <1>4, RequestGoes DEF DestroyExpired, DestroyToken, DestroyUnanswered
    <2> HIDE DEF r
    <2>5. TypeOK'
      BY <2>1, <2>2, <2>3 DEF TypeOK
    <2>6. RowInv'
      BY <2>2 DEF RowInv
    <2>7. RequestInv'
      BY <1>1, <2>1, <2>2 DEF RequestInv, AccountSteps, TokenSteps
    <2>8. RegisterInv'
      BY <2>1, <2>2 DEF RegisterInv
    <2>9. \A p \in Requests : Exchanging(p)' => Exchanging(p) /\ FamilyOf(p)' = FamilyOf(p)
      <3>1. ASSUME NEW p \in Requests \ {q}, Exchanging(p)'
            PROVE  Exchanging(p) /\ FamilyOf(p)' = FamilyOf(p)
        BY <2>1, <2>2, <3>1 DEF Exchanging, FamilyOf
      <3>2. ASSUME Exchanging(q)' PROVE Exchanging(q) /\ FamilyOf(q)' = FamilyOf(q)
        BY <2>1, <2>2, <3>2 DEF Exchanging, FamilyOf, r
      <3> QED BY <3>1, <3>2
    <2>10. ExchangeInv'
      <3>1. ASSUME NEW p \in Requests, NEW s \in live', Exchanging(p)', family'[s] = FamilyOf(p)'
            PROVE  \/ FamilyOf(p)' \in raced'
                   \/ request'[p].pc # "create" /\ s = request'[p].row
        <4>1. \/ FamilyOf(p) \in raced
              \/ request[p].pc # "create" /\ s = request[p].row
          BY <2>2, <2>3, <2>9, <3>1 DEF ExchangeInv
        <4>2. CASE p = q
          BY <2>2, <2>3, <2>9, <3>1, <4>1, <4>2 DEF r
        <4>3. CASE p # q
          BY <2>1, <2>2, <2>9, <3>1, <4>1, <4>3
        <4> QED BY <4>2, <4>3
      <3> QED BY <2>2, <2>3, <2>9, <3>1 DEF ExchangeInv
    <2>11. RevokedInv'
      BY <2>2, <2>3, <2>9 DEF RevokedInv
    <2>13. ASSUME NEW f, Kept(f), f \notin lapsed' \union cut' PROVE Kept(f)'
      <3>1. ASSUME NEW p \in Requests, request[p].pc = "create", FamilyOf(p) = f PROVE Kept(f)'
        BY <2>1, <2>2, <2>12, <3>1 DEF Kept, FamilyOf
      <3>2. ASSUME NEW s \in live, family[s] = f, s # r PROVE Kept(f)'
        BY <2>2, <2>3, <3>2 DEF Kept
      <3>3. ASSUME family[r] = f PROVE Kept(f)'
        BY <2>1, <2>2, <2>12, <2>13, <3>3 DEF Kept, FamilyOf
      <3> QED BY <2>13, <3>1, <3>2, <3>3 DEF Kept
    <2>14. KeptInv'
      BY <2>2, <2>13 DEF KeptInv
    <2> QED BY <2>5, <2>6, <2>7, <2>8, <2>10, <2>11, <2>14
  <1> QED BY <1>3, <1>4

\* Revocation, the direct publication, the clock and the faults.
LEMMA OtherStepsKeepInv ==
  ASSUME IndInv,
         \/ \E q \in Requests : PublishRegistered(q)
         \/ \E e \in Emails : Revoke(e)
         \/ \E r \in Rows : TokenExpires(r)
         \/ Restart \/ ChannelLost
  PROVE  IndInv'
  <1> USE MaxFaultsAssumption DEF IndInv
  <1>1. ASSUME NEW q \in Requests, PublishRegistered(q) PROVE IndInv'
    <2>1. request' \in [Requests -> RequestType] /\ request'[q].pc = "idle"
            /\ \A p \in Requests \ {q} : request'[p] = request[p]
      BY <1>1, RequestEnds DEF PublishRegistered, TypeOK
    <2>2. UNCHANGED <<outboxEnabled, accounts, made, owner, family, live, expired, outbox, channel,
                      issued, created, revoked, straddled, raced, lapsed, cut, faults>>
      BY <1>1 DEF PublishRegistered, tables, history
    <2>3. announced' \subseteq accounts /\ announced' \subseteq Emails
      BY <1>1 DEF PublishRegistered, RequestInv, RegisterInv, TypeOK
    <2>4. \A p \in Requests : Exchanging(p)' =>
            Exchanging(p) /\ FamilyOf(p)' = FamilyOf(p) /\ request'[p] = request[p]
      BY <2>1, <2>2 DEF Exchanging, FamilyOf
    <2>5. TypeOK'
      BY <2>1, <2>2, <2>3 DEF TypeOK
    <2>6. RowInv' /\ RequestInv' /\ RegisterInv'
      BY <2>1, <2>2, <2>3 DEF RowInv, RequestInv, RegisterInv, AccountSteps, TokenSteps
    <2>7. ExchangeInv' /\ RevokedInv'
      BY <2>2, <2>4 DEF ExchangeInv, RevokedInv
    <2>8. KeptInv'
      BY <1>1, <2>1, <2>2 DEF PublishRegistered, KeptInv, Kept, FamilyOf
    <2> QED BY <2>5, <2>6, <2>7, <2>8
  <1>2. ASSUME NEW e \in Emails, Revoke(e) PROVE IndInv'
    <2> DEFINE sessions == {family[r] : r \in {s \in 1..made : owner[s] = e}}
    <2>1. UNCHANGED <<outboxEnabled, accounts, made, owner, family, expired, outbox, channel,
                      announced, issued, request, created, raced, lapsed, cut, faults>>
      BY <1>2 DEF Revoke
    <2>2. live' = live \ RevokedRows(e) /\ revoked' = revoked \union sessions
      BY <1>2 DEF Revoke
    <2>3. straddled' = straddled \union
            {f \in sessions : \E q \in Requests :
               request[q].row # NoRow /\ family[request[q].row] = f
                 /\ request[q].pc \in {"findUser", "destroy", "create"}}
      BY <1>2 DEF Revoke
    <2>4. sessions \subseteq 1..made /\ 1..made \subseteq Rows
      <3>1. sessions \subseteq 1..made
        BY DEF RowInv
      <3>2. 1..made \subseteq Rows
        BY MaxRowsAssumption DEF TypeOK, Rows
      <3> QED BY <3>1, <3>2
    <2>5. \A f \in sessions : owner[f] = e
      BY DEF RowInv
    <2> HIDE DEF sessions
    <2>6. TypeOK'
      BY <2>1, <2>2, <2>3, <2>4 DEF TypeOK
    <2>7. RowInv' /\ RequestInv' /\ RegisterInv'
      BY <2>1, <2>2, <2>4 DEF RowInv, RequestInv, RegisterInv
    <2>8. ExchangeInv'
      BY <2>1, <2>2 DEF ExchangeInv, Exchanging, FamilyOf
    <2>9. RevokedInv'
      <3>1. ASSUME NEW r \in live', family[r] \in revoked' PROVE family[r] \in straddled'
        <4>1. r \in 1..made /\ r \in live
          BY <2>2 DEF TypeOK
        <4>2. CASE family[r] \in sessions
          <5>1. owner[r] = e
            BY <2>5, <4>1, <4>2 DEF RowInv
          <5> QED BY <2>2, <4>1, <5>1 DEF RevokedRows
        <4> QED BY <2>2, <2>3, <3>1, <4>1, <4>2 DEF RevokedInv
      <3>2. ASSUME NEW q \in Requests, Exchanging(q), FamilyOf(q) \in revoked'
            PROVE  FamilyOf(q) \in straddled'
        <4>1. request[q].row # NoRow
          BY <3>2 DEF Exchanging, RequestInv, TokenSteps, NoRow, TypeOK
        <4> QED BY <2>2, <2>3, <3>2, <4>1 DEF RevokedInv, Exchanging, FamilyOf
      <3> QED BY <2>1, <3>1, <3>2 DEF RevokedInv, Exchanging, FamilyOf
    <2>10. KeptInv'
      <3>1. \A r \in live \ live' : family[r] \in sessions
        BY <2>2 DEF RevokedRows, TypeOK, sessions
      <3> QED BY <2>1, <2>2, <3>1 DEF KeptInv, Kept, FamilyOf
    <2> QED BY <2>6, <2>7, <2>8, <2>9, <2>10
  <1>3. ASSUME NEW r \in Rows, TokenExpires(r) PROVE IndInv'
    <2>1. UNCHANGED <<outboxEnabled, accounts, made, owner, family, live, outbox, channel,
                      announced, issued, request, created, revoked, straddled, raced, lapsed, cut,
                      faults>>
      BY <1>3 DEF TokenExpires, history
    <2>2. expired' \subseteq 1..made
      BY <1>3 DEF TokenExpires, TypeOK
    <2>3. TypeOK'
      BY <2>1, <2>2 DEF TypeOK
    <2>4. (RowInv /\ RequestInv /\ RegisterInv /\ ExchangeInv /\ RevokedInv /\ KeptInv)'
      BY <2>1 DEF RowInv, RequestInv, RegisterInv, ExchangeInv, RevokedInv, KeptInv, Kept, Exchanging,
                  FamilyOf
    <2> QED BY <2>3, <2>4
  <1>4. CASE Restart
    <2>1. UNCHANGED <<outboxEnabled, accounts, made, owner, family, live, expired, outbox,
                      announced, issued, created, revoked, straddled, raced, lapsed>>
      BY <1>4 DEF Restart, tables
    <2>2. request' \in [Requests -> RequestType] /\ \A q \in Requests : request'[q].pc = "idle"
      BY <1>4, NewRequests DEF Restart
    <2>3. /\ cut \subseteq cut' /\ cut' \subseteq Rows
          /\ \A q \in Requests : request[q].pc = "create" => FamilyOf(q) \in cut'
      <3>1. \A q \in Requests : request[q].pc = "create" => family[request[q].row] \in Rows
        BY MaxRowsAssumption DEF RequestInv, TokenSteps, RowInv, TypeOK, Rows
      <3> QED BY <1>4, <3>1 DEF Restart, TypeOK, FamilyOf
    <2>4. TypeOK'
      BY <1>4, <2>1, <2>2, <2>3 DEF Restart, TypeOK
    <2>5. KeptInv'
      BY <2>1, <2>3 DEF KeptInv, Kept
    <2>6. (RowInv /\ RequestInv /\ RegisterInv /\ ExchangeInv /\ RevokedInv)'
      BY <2>1, <2>2 DEF RowInv, RequestInv, RegisterInv, ExchangeInv, RevokedInv, Exchanging,
                        AccountSteps, TokenSteps
    <2> QED BY <2>4, <2>5, <2>6
  <1>5. CASE ChannelLost
    <2>1. UNCHANGED <<outboxEnabled, accounts, made, owner, family, live, expired, outbox,
                      announced, issued, request, created, revoked, straddled, raced, lapsed, cut>>
      BY <1>5 DEF ChannelLost, tables, history
    <2>2. TypeOK'
      BY <1>5, <2>1 DEF ChannelLost, TypeOK
    <2>3. (RowInv /\ RequestInv /\ RegisterInv /\ ExchangeInv /\ RevokedInv /\ KeptInv)'
      BY <2>1 DEF RowInv, RequestInv, RegisterInv, ExchangeInv, RevokedInv, KeptInv, Kept, Exchanging,
                  FamilyOf
    <2> QED BY <2>2, <2>3
  <1> QED BY <1>1, <1>2, <1>3, <1>4, <1>5

\* Every step keeps the invariant: by the kind of its action.
LEMMA StepKeepsInv == IndInv /\ [Next]_vars => IndInv'
  <1> SUFFICES ASSUME IndInv, [Next]_vars PROVE IndInv'
    OBVIOUS
  <1>1. ASSUME NEW q \in Requests,
               \/ \E e \in Emails : Register(q, e) \/ Login(q, e)
               \/ \E jwt \in issued : Refresh(q, jwt)
               \/ CheckEmail(q) \/ InsertUser(q) \/ InsertRefused(q) \/ CheckCredentials(q)
               \/ FindUser(q) \/ StatementFails(q)
        PROVE  IndInv'
    BY <1>1, RequestStepsKeepInv
  <1>2. ASSUME NEW q \in Requests, CommitRegister(q) PROVE IndInv'
    BY <1>2, CommitRegisterKeepsInv
  <1>3. ASSUME NEW q \in Requests, CreateSession(q) \/ RotateToken(q) PROVE IndInv'
    BY <1>3, CreateStepsKeepInv
  <1>4. ASSUME NEW q \in Requests,
               FindToken(q) \/ DestroyExpired(q) \/ DestroyToken(q) \/ DestroyUnanswered(q)
        PROVE  IndInv'
    BY <1>4, TokenStepsKeepInv
  <1>5. CASE \/ \E q \in Requests : PublishRegistered(q)
             \/ \E e \in Emails : Revoke(e)
             \/ \E r \in Rows : TokenExpires(r)
             \/ Restart \/ ChannelLost
    BY <1>5, OtherStepsKeepInv
  <1>6. CASE UNCHANGED vars
    BY <1>6 DEF vars, tables, history, IndInv, TypeOK, RowInv, RequestInv, RegisterInv,
                ExchangeInv, RevokedInv, KeptInv, Kept, Exchanging, FamilyOf
  <1> QED BY <1>1, <1>2, <1>3, <1>4, <1>5, <1>6 DEF Next
-----------------------------------------------------------------------------
\* The theorems

\* The invariant holds of every behaviour.
THEOREM Invariance == Spec => []IndInv
  BY InitInv, StepKeepsInv, PTL DEF Spec

\* Every variable of a reachable state has its type.
THEOREM TypeCorrect == Spec => []TypeOK
  <1>1. IndInv => TypeOK
    BY DEF IndInv
  <1> QED BY <1>1, Invariance, PTL

\* However registrations overlap, fail and restart: accounts and outbox agree, nothing
\* is announced and no row kept of an account that is not there, and one registration
\* of an email succeeds.
THEOREM RegistrationAtomic == Spec => []RegistrationIsAtomic
  <1>1. IndInv => RegistrationIsAtomic
    BY DEF IndInv, RowInv, RegisterInv, RegistrationIsAtomic
  <1> QED BY <1>1, Invariance, PTL

\* For any number of overlapping refreshes, logins, revocations and faults, a session is
\* exactly one row or one refresh about to create it until it is revoked or expires, and
\* nothing once revoked: more only when two of its refreshes overlapped, something after
\* a revocation only when a refresh was in flight then, and nothing before only when a
\* refresh ended between its destroy and its create.
THEOREM OneRow == Spec => []OneRowUntilRevoked
  <1>1. ASSUME IndInv PROVE OneRowUntilRevoked
    <2>1. ASSUME NEW f, f \notin raced PROVE AtMostOne(f)
      BY <1>1, <2>1 DEF IndInv, ExchangeInv, Exchanging, FamilyOf, AtMostOne, RowsOf, Renewing
    <2>2. ASSUME NEW f, f \in revoked \ straddled PROVE RowsOf(f) = {} /\ Renewing(f) = {}
      BY <1>1, <2>2 DEF IndInv, RevokedInv, Exchanging, FamilyOf, RowsOf, Renewing
    <2>3. ASSUME NEW r \in 1..made, family[r] \notin revoked \union lapsed \union cut
          PROVE  RowsOf(family[r]) # {} \/ Renewing(family[r]) # {}
      BY <1>1, <2>3 DEF IndInv, KeptInv, Kept, FamilyOf, RowsOf, Renewing
    <2> QED BY <2>1, <2>2, <2>3 DEF OneRowUntilRevoked
  <1> QED BY <1>1, Invariance, PTL
=============================================================================
