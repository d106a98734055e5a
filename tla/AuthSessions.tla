---------------------------- MODULE AuthSessions ----------------------------
(***************************************************************************)
(* auth-service's register, login, refresh and revoke                      *)
(* (services/auth.service.ts) over the user_credentials, refresh_tokens    *)
(* and outbox_events tables.  Every request is a handler run that          *)
(* interleaves with the others at its awaits.                              *)
(*                                                                         *)
(* A refresh_tokens row has two random keys, id and tokenId.  A refresh    *)
(* JWT carries one of them; which one is kept, since refreshTokens looks   *)
(* rows up by tokenId.  Rows that came from one another by refreshing are  *)
(* one family, the session the client sees.                                *)
(***************************************************************************)
EXTENDS Integers, FiniteSets

CONSTANTS
  Requests,     \* handler runs that can overlap
  Emails,       \* an account is known by its email, which is unique
  MaxRows,      \* bound: refresh_tokens rows ever created
  MaxFaults     \* bound: crashes, lost channels and failed statements

ASSUME MaxRowsAssumption   == MaxRows \in Nat
ASSUME MaxFaultsAssumption == MaxFaults \in Nat

Rows    == 1..MaxRows
NoRow   == 0
NoEmail == "none"

VARIABLES
  outboxEnabled, \* the environment's OUTBOX_ENABLED as env.ts reads it, which is
                 \* JavaScript's Boolean(): any string but the empty one, "false"
                 \* included, turns the outbox on
  accounts,   \* user_credentials: emails of committed accounts
  made,       \* refresh_tokens rows created so far; row r is the r-th
  owner,      \* per row: its user
  family,     \* per row: the first row of its session
  live,       \* rows in the table
  expired,    \* rows whose expiresAt has passed
  outbox,     \* emails with an outbox_events row
  channel,    \* the publisher's channel: "open" or "null"
  announced,  \* emails whose event was written to the channel directly
  issued,     \* refresh JWTs sent to clients: a row and the key they carry
  request,    \* per handler run: its step and its arguments
  created,    \* history: registrations per email answered 201, up to 2
  revoked,    \* history: families revoked
  straddled,  \* history: families with a refresh in flight when revoked
  raced,      \* history: families with two refreshes of one row in flight
  lapsed,     \* history: families whose row a refresh found expired and destroyed
  cut,        \* history: families with a refresh that ended, without its new row, after
              \* it had destroyed the old one
  faults

tables  == <<accounts, made, owner, family, live, expired, outbox>>
history == <<created, revoked, straddled, raced, lapsed, cut>>
vars    == <<outboxEnabled, tables, channel, announced, issued, request, history, faults>>

IdleRequest == [pc |-> "idle", email |-> NoEmail, row |-> NoRow]
RequestType == [pc    : {"idle", "check", "insert", "commit", "publish",
                         "login", "createSession",
                         "find", "destroyExpired", "findUser", "destroy", "create"},
                email : Emails \union {NoEmail},
                row   : Rows \union {NoRow}]

TypeOK ==
  /\ outboxEnabled \in BOOLEAN
  /\ accounts \subseteq Emails
  /\ made \in 0..MaxRows
  /\ owner \in [Rows -> Emails \union {NoEmail}]
  /\ family \in [Rows -> Rows \union {NoRow}]
  /\ live \subseteq 1..made
  /\ \A r \in 1..made : owner[r] \in Emails
  /\ expired \subseteq 1..made
  /\ outbox \subseteq Emails
  /\ channel \in {"open", "null"}
  /\ announced \subseteq Emails
  /\ issued \subseteq [row : Rows, key : {"id", "tokenId"}]
  /\ request \in [Requests -> RequestType]
  /\ created \in [Emails -> 0..2]
  /\ revoked \subseteq Rows
  /\ straddled \subseteq Rows
  /\ raced \subseteq Rows
  /\ lapsed \subseteq Rows
  /\ cut \subseteq Rows
  /\ faults \in 0..MaxFaults

Init ==
  /\ outboxEnabled \in BOOLEAN
  /\ accounts = {} /\ made = 0 /\ live = {} /\ expired = {} /\ outbox = {}
  /\ owner = [r \in Rows |-> NoEmail]
  /\ family = [r \in Rows |-> NoRow]
  /\ channel = "open"
  /\ announced = {}
  /\ issued = {}
  /\ request = [q \in Requests |-> IdleRequest]
  /\ created = [e \in Emails |-> 0]
  /\ revoked = {} /\ straddled = {} /\ raced = {} /\ lapsed = {} /\ cut = {}
  /\ faults = 0

Goes(q, step) == request' = [request EXCEPT ![q].pc = step]
Ends(q)       == request' = [request EXCEPT ![q] = IdleRequest]

\* createRefreshToken: the next row, of user e, in session f (a new one if NoRow).
CreateRow(e, f) ==
  LET r == made + 1 IN
  /\ made < MaxRows
  /\ made' = r
  /\ owner' = [owner EXCEPT ![r] = e]
  /\ family' = [family EXCEPT ![r] = IF f = NoRow THEN r ELSE f]
  /\ live' = live \union {r}
  /\ UNCHANGED expired

Issue(key) == issued' = issued \union {[row |-> made + 1, key |-> key]}

-----------------------------------------------------------------------------
\* register

Register(q, e) ==
  /\ request[q].pc = "idle"
  /\ request' = [request EXCEPT ![q] = [IdleRequest EXCEPT !.pc = "check", !.email = e]]
  /\ UNCHANGED <<outboxEnabled, tables, channel, announced, issued, history,
                 faults>>

\* findOne by email: an existing account is a 409.
CheckEmail(q) ==
  /\ request[q].pc = "check"
  /\ IF request[q].email \in accounts THEN Ends(q) ELSE Goes(q, "insert")
  /\ UNCHANGED <<outboxEnabled, tables, channel, announced, issued, history,
                 faults>>

\* (An index on email that is not unique.)
IndexAdmitsAlways(e) == TRUE

\* The unique index lets an INSERT of e through only while no other transaction
\* holds that entry; a committed one makes it fail.
IndexAdmits(e) == e \notin accounts

\* (enqueueOutboxEvent called without the transaction.)
InsertUserEnqueuesAlone(q) ==
  LET e == request[q].email IN
  /\ request[q].pc = "insert"
  /\ \A p \in Requests : ~(request[p].pc = "commit" /\ request[p].email = e)
  /\ IndexAdmits(e)
  /\ outbox' = outbox \union {e}
  /\ Goes(q, "commit")
  /\ UNCHANGED <<outboxEnabled, accounts, made, owner, family, live, expired,
                 channel, announced, issued, history, faults>>

InsertUser(q) ==
  LET e == request[q].email IN
  /\ request[q].pc = "insert"
  /\ \A p \in Requests : ~(request[p].pc = "commit" /\ request[p].email = e)
  /\ IndexAdmits(e)
  /\ Goes(q, "commit")
  /\ UNCHANGED <<outboxEnabled, tables, channel, announced, issued, history,
                 faults>>

\* The duplicate key error is rethrown after the rollback: a 500.
InsertRefused(q) ==
  /\ request[q].pc = "insert"
  /\ ~IndexAdmits(request[q].email)
  /\ Ends(q)
  /\ UNCHANGED <<outboxEnabled, tables, channel, announced, issued, history,
                 faults>>

\* The outbox after the transaction of request q.
Enqueued(q) == IF outboxEnabled THEN outbox \union {request[q].email} ELSE outbox

\* COMMIT of the credentials row, the token row and the outbox row together; the
\* refresh JWT is signed with the row's id.
CommitRegister(q) ==
  LET e == request[q].email IN
  /\ request[q].pc = "commit"
  /\ accounts' = accounts \union {e}
  /\ CreateRow(e, NoRow)
  /\ outbox' = Enqueued(q)
  /\ Issue("id")
  /\ created' = [created EXCEPT ![e] = IF @ < 2 THEN @ + 1 ELSE @]
  /\ IF outboxEnabled THEN Ends(q) ELSE Goes(q, "publish")
  /\ UNCHANGED <<outboxEnabled, channel, announced, revoked, straddled,
                 raced, lapsed, cut, faults>>

\* publishingUserRegistered: without a channel it only warns.
PublishRegistered(q) ==
  /\ request[q].pc = "publish"
  /\ announced' = IF channel = "open" THEN announced \union {request[q].email} ELSE announced
  /\ Ends(q)
  /\ UNCHANGED <<outboxEnabled, tables, channel, issued, history, faults>>

-----------------------------------------------------------------------------
\* login

Login(q, e) ==
  /\ request[q].pc = "idle"
  /\ request' = [request EXCEPT ![q] = [IdleRequest EXCEPT !.pc = "login", !.email = e]]
  /\ UNCHANGED <<outboxEnabled, tables, channel, announced, issued, history,
                 faults>>

\* An unknown email and a wrong password are both a 401.
CheckCredentials(q) ==
  /\ request[q].pc = "login"
  /\ \/ Ends(q)
     \/ request[q].email \in accounts /\ Goes(q, "createSession")
  /\ UNCHANGED <<outboxEnabled, tables, channel, announced, issued, history,
                 faults>>

CreateSession(q) ==
  /\ request[q].pc = "createSession"
  /\ CreateRow(request[q].email, NoRow)
  /\ Issue("tokenId")
  /\ Ends(q)
  /\ UNCHANGED <<outboxEnabled, accounts, outbox, channel, announced, history,
                 faults>>

-----------------------------------------------------------------------------
\* refreshTokens

\* A client sends a JWT it was given.  Its signature holds; findOne compares
\* tokenId, which a JWT that carries the id never matches (a 401 at once).
Refresh(q, jwt) ==
  /\ request[q].pc = "idle"
  /\ jwt \in issued /\ jwt.key = "tokenId"
  /\ request' = [request EXCEPT ![q] = [IdleRequest EXCEPT !.pc = "find", !.row = jwt.row]]
  /\ UNCHANGED <<outboxEnabled, tables, channel, announced, issued, history,
                 faults>>

InExchange(p, r) == request[p].row = r /\ request[p].pc \in {"findUser", "destroy"}

FindToken(q) ==
  LET r == request[q].row IN
  /\ request[q].pc = "find"
  /\ IF r \notin live THEN Ends(q)
     ELSE Goes(q, IF r \in expired THEN "destroyExpired" ELSE "findUser")
  /\ raced' = IF r \in live /\ \E p \in Requests : InExchange(p, r)
              THEN raced \union {family[r]} ELSE raced
  /\ UNCHANGED <<outboxEnabled, tables, channel, announced, issued, created,
                 revoked, straddled, lapsed, cut, faults>>

DestroyExpired(q) ==
  /\ request[q].pc = "destroyExpired"
  /\ live' = live \ {request[q].row}
  /\ lapsed' = lapsed \union {family[request[q].row]}
  /\ Ends(q)
  /\ UNCHANGED <<outboxEnabled, accounts, made, owner, family, expired, outbox,
                 channel, announced, issued, created, revoked, straddled, raced, cut,
                 faults>>

\* Accounts are never deleted, so findByPk finds one.
FindUser(q) ==
  /\ request[q].pc = "findUser"
  /\ owner[request[q].row] \in accounts
  /\ Goes(q, "destroy")
  /\ UNCHANGED <<outboxEnabled, tables, channel, announced, issued, history,
                 faults>>

\* (A rotation that destroys every row of the user.)
DestroyedOfUser(q) == {r \in live : owner[r] # owner[request[q].row]}

\* The rows after tokenRecord.destroy(); destroying a row that is gone is no error.
Destroyed(q) == live \ {request[q].row}

DestroyToken(q) ==
  /\ request[q].pc = "destroy"
  /\ live' = Destroyed(q)
  /\ Goes(q, "create")
  /\ UNCHANGED <<outboxEnabled, accounts, made, owner, family, expired, outbox,
                 channel, announced, issued, history, faults>>

\* (A new row for the user the request names, instead of the row's.)
RotateTokenForRequest(q) ==
  LET r == request[q].row IN
  /\ request[q].pc = "create"
  /\ CreateRow(request[q].email, family[r])
  /\ Issue("tokenId")
  /\ Ends(q)
  /\ UNCHANGED <<outboxEnabled, accounts, outbox, channel, announced, history,
                 faults>>

RotateToken(q) ==
  LET r == request[q].row IN
  /\ request[q].pc = "create"
  /\ CreateRow(owner[r], family[r])
  /\ Issue("tokenId")
  /\ Ends(q)
  /\ UNCHANGED <<outboxEnabled, accounts, outbox, channel, announced, history,
                 faults>>

-----------------------------------------------------------------------------
\* revokeRefreshToken: one DELETE of the user's rows.

RevokedRows(e) == {r \in live : owner[r] = e}

Revoke(e) ==
  LET sessions == {family[r] : r \in {s \in 1..made : owner[s] = e}} IN
  /\ sessions # {}
  /\ live' = live \ RevokedRows(e)
  /\ revoked' = revoked \union sessions
  /\ straddled' = straddled \union
       {f \in sessions : \E q \in Requests :
          request[q].row # NoRow /\ family[request[q].row] = f
            /\ request[q].pc \in {"findUser", "destroy", "create"}}
  /\ UNCHANGED <<outboxEnabled, accounts, made, owner, family, expired, outbox,
                 channel, announced, issued, request, created, raced,
                 lapsed, cut, faults>>

-----------------------------------------------------------------------------
\* Faults and the clock

\* The process restarts: open transactions roll back, handlers are gone, and the
\* publisher connects again.
Restart ==
  /\ faults < MaxFaults
  /\ request' = [q \in Requests |-> IdleRequest]
  /\ channel' = "open"
  /\ cut' = cut \union {family[request[q].row] : q \in {p \in Requests : request[p].pc = "create"}}
  /\ faults' = faults + 1
  /\ UNCHANGED <<outboxEnabled, tables, announced, issued, created, revoked, straddled,
                 raced, lapsed>>

ChannelLost ==
  /\ channel = "open" /\ faults < MaxFaults
  /\ channel' = "null"
  /\ faults' = faults + 1
  /\ UNCHANGED <<outboxEnabled, tables, announced, issued, request, history>>

\* A statement fails and the request with it; register rolls back.
StatementFails(q) ==
  /\ request[q].pc \notin {"idle", "publish"} /\ faults < MaxFaults
  /\ Ends(q)
  /\ cut' = IF request[q].pc = "create" THEN cut \union {family[request[q].row]} ELSE cut
  /\ faults' = faults + 1
  /\ UNCHANGED <<outboxEnabled, tables, channel, announced, issued, created, revoked,
                 straddled, raced, lapsed>>

\* The DELETE of the old row is applied and its answer lost: the request fails too.
DestroyUnanswered(q) ==
  /\ request[q].pc = "destroy" /\ faults < MaxFaults
  /\ live' = Destroyed(q)
  /\ cut' = cut \union {family[request[q].row]}
  /\ Ends(q)
  /\ faults' = faults + 1
  /\ UNCHANGED <<outboxEnabled, accounts, made, owner, family, expired, outbox,
                 channel, announced, issued, created, revoked, straddled, raced, lapsed>>

\* expiresAt, 30 days after the row was made, passes.
TokenExpires(r) ==
  /\ r \in live \ expired
  /\ expired' = expired \union {r}
  /\ UNCHANGED <<outboxEnabled, accounts, made, owner, family, live, outbox,
                 channel, announced, issued, request, history, faults>>

-----------------------------------------------------------------------------
Next ==
  \/ \E q \in Requests, e \in Emails : Register(q, e) \/ Login(q, e)
  \/ \E q \in Requests, jwt \in issued : Refresh(q, jwt)
  \/ \E q \in Requests :
       \/ CheckEmail(q) \/ InsertUser(q) \/ InsertRefused(q) \/ CommitRegister(q)
       \/ PublishRegistered(q) \/ CheckCredentials(q) \/ CreateSession(q)
       \/ FindToken(q) \/ DestroyExpired(q) \/ FindUser(q) \/ DestroyToken(q)
       \/ RotateToken(q) \/ StatementFails(q) \/ DestroyUnanswered(q)
  \/ \E e \in Emails : Revoke(e)
  \/ \E r \in Rows : TokenExpires(r)
  \/ Restart \/ ChannelLost

Spec == Init /\ [][Next]_vars

-----------------------------------------------------------------------------
\* Properties

\* register is one transaction (docs/outboxpattern.md:11): with the outbox on, an
\* account and its event exist together, with it off no event is stored and none
\* is announced for an account that was rolled back, and every session belongs to
\* an account, which is what refreshTokens' findByPk counts on, whatever fails or
\* restarts in between.  The check before the insert is no lock, the unique index is: one
\* registration of an email is answered 201.
RegistrationIsAtomic ==
  /\ outbox = IF outboxEnabled THEN accounts ELSE {}
  /\ announced \subseteq accounts
  /\ \A r \in 1..made : owner[r] \in accounts
  /\ \A e \in Emails : created[e] <= 1

\* The rows of session f, and the refreshes about to create its next row.
RowsOf(f)   == {r \in live : family[r] = f}
Renewing(f) == {q \in Requests : request[q].pc = "create" /\ family[request[q].row] = f}

\* No two live rows, no two refreshes about to create one, and not one of each.
AtMostOne(f) ==
  /\ \A r, s \in RowsOf(f) : r = s
  /\ \A p, q \in Renewing(f) : p = q
  /\ RowsOf(f) = {} \/ Renewing(f) = {}

\* A session is exactly one row, or one refresh that is about to create it, from login
\* or registration until it is revoked or expires, and nothing once revoked.  There can
\* be more only when two refreshes of one row overlapped, something after a revocation
\* only when a refresh was in flight then, and nothing before it, the session lost
\* without a revocation, only when a refresh ended between its destroy and its create.
OneRowUntilRevoked ==
  \A f \in {family[r] : r \in 1..made} :
    /\ f \notin raced => AtMostOne(f)
    /\ f \in revoked \ straddled => RowsOf(f) = {} /\ Renewing(f) = {}
    /\ f \notin revoked \union lapsed \union cut => RowsOf(f) # {} \/ Renewing(f) # {}

\* docs/openapi.yaml:38, "User registered and tokens issued": the refresh token a
\* registration issues is found while its row is in the table.
IssuedTokenIsFound == \A jwt \in issued : jwt.row \in live => jwt.key = "tokenId"
=============================================================================
