--------------------------- MODULE PipelineProofs ---------------------------
(***************************************************************************)
(* Theorems about UserProfiles and Pipeline for any calls, ids, emails and *)
(* messages and any number of faults.                                      *)
(***************************************************************************)
EXTENDS Pipeline, TLAPS

-----------------------------------------------------------------------------
\* The inductive invariant, in named parts

Open == {"enqueue", "commit"}

\* Transactions that wrote and have not ended: nothing in the table refuses their
\* commit, and no two of them hold the same id or email.
TransactionInv ==
  /\ \A t \in Calls : step[t] \in Open => outboxEnabled /\ Admits(t)
  /\ \A t \in Calls, u \in Calls :
       t # u /\ step[t] \in Open /\ step[u] \in Open
         => UserOf[t] # UserOf[u] /\ EmailOf[UserOf[t]] # EmailOf[UserOf[u]]

\* What a call left behind says where it is.
OutcomeInv ==
  /\ \A t \in outbox : step[t] = "done" /\ UserOf[t] \in users
  /\ \A t \in Calls : step[t] = "publish" => ~outboxEnabled /\ UserOf[t] \in users
  /\ \A t \in Creations : UserOf[t] \in users => step[t] \in {"publish", "done"}
  /\ \A t \in Calls : answer[t] \in {"409", "500"} => t \in Creations

ProfileInv ==
  ProfilesTypeOK /\ TransactionInv /\ OutcomeInv /\ RowsAndEventsAgree /\ AnswersAreTrue

\* Whatever is further down the chain is further up as well.
ChainInv ==
  /\ reachedFromAuth \subseteq handedByAuth /\ handedByAuth \subseteq registered
  /\ \A m \in queued : AccountOf[m] \in registered
  /\ \A t \in Syncs : step[t] # "idle" => UserOf[t] \in registered
  /\ users \intersect Accounts \subseteq registered
  /\ \A m \in ackedByUser : AccountOf[m] \in profiled
  /\ handedByUser \subseteq outbox
  /\ \A t \in reachedFromUser : UserOf[t] \in users
  /\ copied \subseteq reachedFromUser

IndInv == TypeOK /\ ProfileInv /\ ChainInv

-----------------------------------------------------------------------------
\* user-service's calls

\* What a step of call t may do to the tables.
CallEffect(t) ==
  /\ users \subseteq users' /\ users' \subseteq users \union {UserOf[t]}
  /\ outbox \subseteq outbox'
  /\ \A u \in Calls : step[u] = "idle" /\ u # t => step'[u] = "idle"

\* A call that leaves the tables alone and opens no transaction.
LEMMA QuietCallKeepsInv ==
  ASSUME ProfileInv, NEW t \in Calls, NEW s \in Steps, NEW a \in Answers,
         step' = [step EXCEPT ![t] = s], answer' = [answer EXCEPT ![t] = a],
         UNCHANGED <<outboxEnabled, users, outbox>>, announced' \subseteq Calls,
         kept' = kept, faults' \in 0..MaxFaults,
         a = "none" \/ s = "done", step[t] # "done" \/ s = "done",
         s \in Open => step[t] \in Open, s # "publish" \/ step[t] = "publish",
         s = "done" \/ step[t] # "publish",
         a = "ok" => UserOf[t] \in users,
         a \in {"409", "500", "thrown"} => step[t] \notin {"done", "publish"},
         a \in {"409", "500"} => t \in Creations
  PROVE  ProfileInv'
  <1> USE DEF ProfileInv
  <1>1. /\ step'[t] = s /\ \A u \in Calls \ {t} : step'[u] = step[u]
        /\ answer'[t] = a /\ \A u \in Calls \ {t} : answer'[u] = answer[u]
        /\ step' \in [Calls -> Steps] /\ answer' \in [Calls -> Answers]
    BY DEF ProfilesTypeOK
  <1>2. ProfilesTypeOK'
    BY <1>1 DEF ProfilesTypeOK
  <1>3. TransactionInv'
    BY <1>1 DEF TransactionInv, Admits, Clash
  <1>4. OutcomeInv'
    BY <1>1, CreationsAssumption DEF OutcomeInv, ProfilesTypeOK, Open
  <1>5. RowsAndEventsAgree'
    BY DEF RowsAndEventsAgree, Clash
  <1>6. AnswersAreTrue'
    BY <1>1 DEF AnswersAreTrue, OutcomeInv
  <1> QED BY <1>2, <1>3, <1>4, <1>5, <1>6

\* A call whose row takes effect: at a commit, or at once without the outbox.
LEMMA RowKeepsInv ==
  ASSUME ProfileInv, NEW t \in Calls, NEW s \in {"publish", "done"}, NEW a \in Answers,
         step' = [step EXCEPT ![t] = s], answer' = [answer EXCEPT ![t] = a],
         users' = users \union {UserOf[t]}, Admits(t),
         \/ outboxEnabled /\ step[t] = "commit" /\ s = "done" /\ outbox' = outbox \union {t}
         \/ ~outboxEnabled /\ step[t] = "write" /\ outbox' = outbox,
         UNCHANGED <<outboxEnabled, announced>>,
         kept \subseteq kept', kept' \subseteq Calls, faults' \in 0..MaxFaults,
         a = "none" \/ s = "done", a # "none" \/ s = "publish",
         a \in {"none", "ok"} \/ t \in kept', a \in {"409", "500"} => t \in Creations
  PROVE  ProfileInv'
  <1> USE DEF ProfileInv
  <1>1. /\ step'[t] = s /\ \A u \in Calls \ {t} : step'[u] = step[u]
        /\ answer'[t] = a /\ \A u \in Calls \ {t} : answer'[u] = answer[u]
        /\ step' \in [Calls -> Steps] /\ answer' \in [Calls -> Answers]
        /\ UserOf[t] \in Users /\ outbox \subseteq Calls
    BY DEF ProfilesTypeOK, Steps, Users
  <1>2. ProfilesTypeOK'
    BY <1>1 DEF ProfilesTypeOK
  <1>3. TransactionInv'
    <2>1. ASSUME NEW u \in Calls, step'[u] \in Open PROVE Admits(u)'
      <3>1. u # t /\ step[u] \in Open /\ outboxEnabled /\ Admits(u)
        BY <1>1, <2>1 DEF TransactionInv, Open
      <3>2. step[t] = "commit"
        BY <3>1
      <3>3. EmailOf[UserOf[t]] # EmailOf[UserOf[u]]
        BY <3>1, <3>2 DEF TransactionInv, Open
      <3> QED BY <3>1, <3>3 DEF Admits, Clash
    <2> QED BY <1>1, <2>1 DEF TransactionInv, Open
  <1>4. OutcomeInv'
    <2>1. \A u \in Creations \ {t} : UserOf[u] # UserOf[t]
      BY UserOfAssumption
    <2> QED BY <1>1, <2>1, CreationsAssumption DEF OutcomeInv
  <1>5. RowsAndEventsAgree'
    <2>1. \A x, y \in users' : ~Clash(x, y)
      BY DEF RowsAndEventsAgree, Admits, Clash
    <2>2. outboxEnabled => users' = {UserOf[u] : u \in outbox'}
      BY DEF RowsAndEventsAgree
    <2> QED BY <2>1, <2>2 DEF RowsAndEventsAgree, Clash
  <1>6. AnswersAreTrue'
    <2>1. \A u \in Calls : answer[u] \in {"409", "500"} => u \in Creations
      BY DEF OutcomeInv
    <2>2. \A u \in Creations \ {t} : UserOf[u] # UserOf[t]
      BY UserOfAssumption
    <2> QED BY <1>1, <2>1, <2>2 DEF AnswersAreTrue
  <1> QED BY <1>2, <1>3, <1>4, <1>5, <1>6

\* A write that found no open transaction in its way opens one.
LEMMA OpeningKeepsInv ==
  ASSUME ProfileInv, NEW t \in Calls, Write(t), outboxEnabled
  PROVE  ProfileInv'
  <1> USE DEF ProfileInv, Write
  <1>1. /\ step'[t] = "enqueue" /\ \A u \in Calls \ {t} : step'[u] = step[u]
        /\ step' \in [Calls -> Steps] /\ step[t] = "write"
        /\ UNCHANGED <<outboxEnabled, users, outbox, announced, answer, kept, faults>>
    BY DEF ProfilesTypeOK, Goes, Steps
  <1>2. ProfilesTypeOK'
    BY <1>1 DEF ProfilesTypeOK
  <1>3. TransactionInv'
    <2>1. \A u \in Calls \ {t} : step[u] \in Open
            => UserOf[u] # UserOf[t] /\ EmailOf[UserOf[u]] # EmailOf[UserOf[t]]
      BY DEF Waits, Clash, Open
    <2> QED BY <1>1, <2>1 DEF TransactionInv, Admits, Clash
  <1>4. OutcomeInv' /\ AnswersAreTrue'
    <2>1. OutcomeInv'
      BY <1>1, CreationsAssumption DEF OutcomeInv, ProfilesTypeOK
    <2>2. AnswersAreTrue'
      BY <1>1 DEF AnswersAreTrue
    <2> QED BY <2>1, <2>2
  <1>5. RowsAndEventsAgree'
    BY <1>1 DEF RowsAndEventsAgree, Clash
  <1> QED BY <1>2, <1>3, <1>4, <1>5

\* The process ends: what was open is rolled back, what was committed stays.
LEMMA CrashKeepsInv ==
  ASSUME ProfileInv, Crash
  PROVE  ProfileInv' /\ UNCHANGED <<users, outbox>>
                     /\ \A u \in Calls : step[u] = "idle" => step'[u] = "idle"
  <1> USE DEF ProfileInv, Crash
  <1>1. \A t \in Calls : step'[t] = IF step[t] = "idle" THEN "idle" ELSE "done"
    OBVIOUS
  <1>2. ProfilesTypeOK'
    BY <1>1, MaxFaultsAssumption DEF ProfilesTypeOK, Fault, Steps
  <1>3. TransactionInv' /\ RowsAndEventsAgree'
    BY <1>1 DEF TransactionInv, Open, RowsAndEventsAgree, Clash
  <1>4. OutcomeInv'
    BY <1>1, CreationsAssumption DEF OutcomeInv, ProfilesTypeOK
  <1>5. AnswersAreTrue'
    BY <1>1 DEF AnswersAreTrue
  <1> QED BY <1>1, <1>2, <1>3, <1>4, <1>5

\* Every step of a call keeps what holds of user-service's tables.
LEMMA CallKeepsInv ==
  ASSUME ProfileInv, NEW t \in Calls,
         Begin(t) \/ Proceed(t) \/ Throw(t) \/ Publish(t) \/ PublishNowhere(t)
  PROVE  ProfileInv' /\ CallEffect(t)
  <1> USE DEF ProfileInv
  <1>1. /\ step \in [Calls -> Steps] /\ answer \in [Calls -> Answers]
        /\ answer = [answer EXCEPT ![t] = answer[t]] /\ answer[t] \in Answers
        /\ answer[t] # "none" => step[t] = "done"
        /\ kept \subseteq Calls /\ announced \subseteq Calls /\ faults \in 0..MaxFaults
    BY DEF ProfilesTypeOK
  <1>2. Fault => faults' \in 0..MaxFaults
    BY <1>1, MaxFaultsAssumption DEF Fault
  <1>3. \A s : step' = [step EXCEPT ![t] = s] =>
          \A u \in Calls : step[u] = "idle" /\ u # t => step'[u] = "idle"
    BY <1>1
  <1>4. CASE Begin(t)
    <2>1. ProfileInv'
      BY <1>1, <1>4, QuietCallKeepsInv DEF Begin, Goes, Steps, Open
    <2> QED BY <1>3, <1>4, <2>1 DEF Begin, Goes, CallEffect
  <1>5. CASE Write(t)
    <2>1. CASE outboxEnabled
      <3>1. ProfileInv'
        BY <1>5, <2>1, OpeningKeepsInv
      <3> QED BY <1>3, <1>5, <2>1, <3>1 DEF Write, Goes, CallEffect
    <2>2. CASE ~outboxEnabled
      <3>1. ProfileInv'
        BY <1>1, <1>5, <2>2, RowKeepsInv DEF Write, Goes
      <3> QED BY <1>3, <1>5, <2>2, <3>1 DEF Write, Goes, CallEffect
    <2> QED BY <2>1, <2>2
  <1>6. CASE Conflict(t)
    <2>1. /\ ConflictAnswer(t) \in Answers
          /\ ConflictAnswer(t) \in {"409", "500", "thrown"}
          /\ ConflictAnswer(t) \in {"409", "500"} => t \in Creations
      BY DEF ConflictAnswer, Answers
    <2>2. ProfileInv'
      BY <1>1, <1>6, <2>1, QuietCallKeepsInv DEF Conflict, Ends, Steps, Open
    <2> QED BY <1>3, <1>6, <2>2 DEF Conflict, Ends, CallEffect
  <1>7. CASE Enqueue(t)
    <2>1. ProfileInv'
      BY <1>1, <1>7, QuietCallKeepsInv DEF Enqueue, Goes, Steps, Open
    <2> QED BY <1>3, <1>7, <2>1 DEF Enqueue, Goes, CallEffect
  <1>8. CASE Commit(t)
    <2>1. outboxEnabled /\ Admits(t)
      BY <1>8 DEF Commit, TransactionInv, Open
    <2>2. ProfileInv'
      BY <1>1, <1>8, <2>1, RowKeepsInv DEF Commit, Committed, Ends, Answers
    <2> QED BY <1>3, <1>8, <2>2 DEF Commit, Committed, Ends, CallEffect
  <1>9. CASE Throw(t)
    <2> DEFINE a == IF t \in Creations THEN "500" ELSE "thrown"
    <2>1. /\ a \in Answers /\ a \notin {"none", "ok", "409"}
          /\ a = "500" => t \in Creations
          /\ step' = [step EXCEPT ![t] = "done"] /\ answer' = [answer EXCEPT ![t] = a]
          /\ step[t] \in {"write", "enqueue", "commit"}
          /\ UNCHANGED <<outboxEnabled, announced>> /\ faults' \in 0..MaxFaults
      BY <1>2, <1>9 DEF Throw, Ends, Answers
    <2>2. \/ UNCHANGED <<users, outbox, kept>>
          \/ step[t] = "commit" /\ Committed(t) /\ kept' = kept \union {t}
          \/ /\ step[t] = "write" /\ ~outboxEnabled /\ Admits(t)
             /\ users' = users \union {UserOf[t]}
             /\ kept' = kept \union {t} /\ UNCHANGED outbox
      BY <1>9, Zenon DEF Throw
    <2> HIDE DEF a
    <2>0. a \in {"409", "500"} => t \in Creations
      BY <2>1
    <2>3. CASE UNCHANGED <<users, outbox, kept>>
      <3>1. ProfileInv'
        <4>1. announced' \subseteq Calls /\ "done" \in Steps /\ "done" \notin Open
          BY <1>1, <2>1 DEF Steps, Open
        <4> QED BY <2>0, <2>1, <2>3, <4>1, QuietCallKeepsInv
      <3> QED BY <1>3, <2>1, <2>3, <3>1 DEF CallEffect
    <2>4. CASE step[t] = "commit" /\ Committed(t) /\ kept' = kept \union {t}
      <3>1. outboxEnabled /\ Admits(t)
        BY <2>4 DEF TransactionInv, Open
      <3>2. ProfileInv'
        <4>1. kept \subseteq kept' /\ kept' \subseteq Calls /\ t \in kept'
          BY <1>1, <2>4
        <4> QED BY <2>0, <2>1, <2>4, <3>1, <4>1, RowKeepsInv DEF Committed
      <3> QED BY <1>3, <2>1, <2>4, <3>2 DEF Committed, CallEffect
    <2>5. CASE /\ step[t] = "write" /\ ~outboxEnabled /\ Admits(t)
               /\ users' = users \union {UserOf[t]}
               /\ kept' = kept \union {t} /\ UNCHANGED outbox
      <3>1. ProfileInv'
        <4>1. kept \subseteq kept' /\ kept' \subseteq Calls /\ t \in kept'
          BY <1>1, <2>5
        <4> QED BY <2>0, <2>1, <2>5, <4>1, RowKeepsInv
      <3> QED BY <1>3, <2>1, <2>5, <3>1 DEF CallEffect
    <2> QED BY <2>2, <2>3, <2>4, <2>5
  <1>10. CASE Publish(t) \/ PublishNowhere(t)
    <2>1. /\ step[t] = "publish" /\ Ends(t, "ok") /\ faults' \in 0..MaxFaults
          /\ UNCHANGED <<outboxEnabled, users, outbox, kept>> /\ announced' \subseteq Calls
      BY <1>1, <1>2, <1>10 DEF Publish, PublishNowhere
    <2>2. UserOf[t] \in users
      BY <2>1 DEF OutcomeInv
    <2>3. ProfileInv'
      BY <1>1, <2>1, <2>2, QuietCallKeepsInv DEF Ends, Steps, Answers, Open
    <2> QED BY <1>3, <2>1, <2>3 DEF Ends, CallEffect
  <1> QED BY <1>4, <1>5, <1>6, <1>7, <1>8, <1>9, <1>10 DEF Proceed

-----------------------------------------------------------------------------
\* The chain

\* The invariant holds at the start.
LEMMA InitInv == Init => IndInv
  <1> SUFFICES ASSUME Init PROVE IndInv
    OBVIOUS
  <1> USE DEF Init, ProfilesInit
  <1>1. 0 \in 0..MaxFaults
    BY MaxFaultsAssumption
  <1>2. ProfilesTypeOK
    BY <1>1 DEF ProfilesTypeOK, Steps, Answers
  <1>3. ProfileInv
    BY <1>2, CreationsAssumption DEF ProfileInv, TransactionInv, Open, OutcomeInv, RowsAndEventsAgree,
       AnswersAreTrue
  <1>4. TypeOK /\ ChainInv
    BY <1>2 DEF TypeOK, ChainInv, Syncs, AuthOutbox!Init, UserConsumer!Init, ChatConsumer!Init
  <1> QED BY <1>3, <1>4 DEF IndInv

\* An account belongs to no POST /users.
LEMMA AccountsAreSynced ==
  ASSUME NEW t \in Calls, UserOf[t] \in Accounts
  PROVE  t \in Syncs
  BY UserOfAssumption, CreationsAssumption DEF Accounts, Syncs

\* A step of another service leaves user-service's tables as they are.
LEMMA StillProfileInv ==
  ProfileInv /\ UNCHANGED profileVars => ProfileInv'
  BY DEF ProfileInv, profileVars, ProfilesTypeOK, TransactionInv, Admits, Clash, OutcomeInv,
         RowsAndEventsAgree, AnswersAreTrue

\* The outboxes, the broker and chat-service pass on what they were handed.
LEMMA RoutingKeepsInv ==
  ASSUME IndInv,
         \/ \E a \in Accounts : Register(a) \/ Relay(a) \/ Lose(a)
         \/ \E m \in Deliveries : ReachFromAuth(m) \/ SettleRegistration(m)
         \/ \E service \in {"user-service", "chat-service"} : Bind(service)
         \/ \E t \in Calls : \/ HandByUser(t) \/ RecordByUser(t) \/ ReachFromUser(t)
                             \/ Lose(t) \/ Copy(t) \/ FailToCopy(t) \/ SettleCopy(t)
  PROVE  IndInv'
  <1> USE DEF IndInv
  <1>1. ASSUME NEW a \in Accounts, Register(a) \/ HandByAuth(a) \/ RecordByAuth(a) PROVE IndInv'
    <2>1. UNCHANGED <<profileVars, syncVars, relayVars, chatVars, routeVars>>
      BY <1>1 DEF Register, HandByAuth, RecordByAuth
    <2>2. /\ registered \subseteq registered' /\ registered' \subseteq Accounts
          /\ reachedFromAuth' = reachedFromAuth
          /\ handedByAuth \subseteq handedByAuth' /\ handedByAuth' \subseteq registered'
      BY <1>1 DEF Register, HandByAuth, RecordByAuth, AuthOutbox!Commit, AuthOutbox!Hand,
                  AuthOutbox!Record, TypeOK, ChainInv
    <2>3. TypeOK' /\ ChainInv'
      BY <2>1, <2>2 DEF TypeOK, ProfilesTypeOK, ChainInv, profileVars, syncVars, relayVars,
                        chatVars, routeVars
    <2> QED BY <2>1, <2>3, StillProfileInv
  <1>2. ASSUME NEW a \in Accounts, RecordSync(a) PROVE IndInv'
    <2>1. UNCHANGED <<profileVars, profiled, ackedByUser, authVars, relayVars, chatVars, routeVars>>
      BY <1>2 DEF RecordSync, UserConsumer!Work
    <2>2. TypeOK' /\ ChainInv'
      BY <2>1 DEF TypeOK, ProfilesTypeOK, ChainInv, profileVars, authVars, relayVars,
                  chatVars, routeVars
    <2> QED BY <2>1, <2>2, StillProfileInv
  <1>3. ASSUME NEW m \in Deliveries, ReachFromAuth(m) PROVE IndInv'
    <2>1. /\ UNCHANGED <<profileVars, syncVars, relayVars, chatVars, bound, lost>>
          /\ UNCHANGED <<registered, handedByAuth>>
          /\ AccountOf[m] \in handedByAuth /\ reachedFromAuth' = reachedFromAuth \union {AccountOf[m]}
          /\ queued' \subseteq queued \union {m}
          /\ unrouted' \subseteq unrouted \union {AccountOf[m]}
      BY <1>3 DEF ReachFromAuth, AuthOutbox!Reach
    <2>2. TypeOK'
      BY <2>1, AccountOfAssumption DEF TypeOK, ProfilesTypeOK, profileVars, syncVars, relayVars, chatVars
    <2>3. ChainInv'
      BY <2>1 DEF ChainInv, profileVars, syncVars, relayVars, chatVars
    <2> QED BY <2>1, <2>2, <2>3, StillProfileInv
  <1>4. ASSUME NEW m \in Deliveries, SettleRegistration(m) PROVE IndInv'
    <2>1. /\ UNCHANGED <<profileVars, profiled, authVars, relayVars, chatVars, bound, unrouted, lost>>
          /\ queued' \subseteq queued
          /\ \/ ackedByUser' = ackedByUser
             \/ ackedByUser' = ackedByUser \union {m} /\ AccountOf[m] \in profiled
      BY <1>4 DEF SettleRegistration, UserConsumer!Ack, UserConsumer!Drop
    <2>2. TypeOK' /\ ChainInv'
      BY <2>1 DEF TypeOK, ProfilesTypeOK, ChainInv, profileVars, authVars, relayVars, chatVars
    <2> QED BY <2>1, <2>2, StillProfileInv
  <1>5. ASSUME NEW service \in {"user-service", "chat-service"}, Bind(service) PROVE IndInv'
    <2>1. TypeOK' /\ ChainInv'
      BY <1>5 DEF Bind, TypeOK, ProfilesTypeOK, ChainInv, profileVars, authVars, syncVars,
                  relayVars, chatVars
    <2> QED BY <1>5, <2>1, StillProfileInv DEF Bind
  <1>6. ASSUME NEW e \in Accounts \union Calls, Lose(e) PROVE IndInv'
    <2>1. /\ UNCHANGED <<outboxEnabled, users, outbox, announced, step, answer, kept,
                         authVars, syncVars, relayVars, chatVars, bound, queued, unrouted>>
          /\ faults' \in 0..MaxFaults /\ lost' = lost \union {e}
      BY <1>6, MaxFaultsAssumption DEF Lose, Fault, TypeOK, ProfilesTypeOK
    <2>2. TypeOK' /\ ChainInv'
      BY <2>1 DEF TypeOK, ProfilesTypeOK, ChainInv, authVars, syncVars, relayVars, chatVars
    <2>3. ProfileInv'
      BY <2>1, <2>2 DEF ProfileInv, TypeOK, TransactionInv, Admits, Clash, OutcomeInv,
                        RowsAndEventsAgree, AnswersAreTrue
    <2> QED BY <2>2, <2>3
  <1>7. ASSUME NEW t \in Calls, HandByUser(t) \/ RecordByUser(t) \/ ReachFromUser(t) PROVE IndInv'
    <2>1. /\ UNCHANGED <<profileVars, authVars, syncVars, chatVars, bound, queued, lost>>
          /\ unrouted' \subseteq unrouted \union {t}
          /\ \/ UNCHANGED <<handedByUser, reachedFromUser>>
             \/ /\ t \in outbox /\ handedByUser' = handedByUser \union {t}
                /\ UNCHANGED reachedFromUser
             \/ /\ t \in handedByUser /\ reachedFromUser' = reachedFromUser \union {t}
                /\ UNCHANGED handedByUser
      BY <1>7 DEF HandByUser, RecordByUser, ReachFromUser, UserOutbox!Hand, UserOutbox!Record,
                  UserOutbox!Reach, routeVars, relayVars, profileVars
    <2>2. UserOf[t] \in users \/ t \notin outbox
      BY DEF ProfileInv, OutcomeInv
    <2>3. TypeOK'
      BY <2>1 DEF TypeOK, ProfilesTypeOK, profileVars, authVars, syncVars, chatVars
    <2>4. ChainInv'
      BY <2>1, <2>2 DEF ChainInv, profileVars, authVars, syncVars, chatVars
    <2> QED BY <2>1, <2>3, <2>4, StillProfileInv
  <1>8. ASSUME NEW t \in Calls, Copy(t) \/ FailToCopy(t) \/ SettleCopy(t) PROVE IndInv'
    <2>1. /\ UNCHANGED <<outboxEnabled, users, outbox, announced, step, answer, kept, authVars,
                         syncVars, relayVars, routeVars>>
          /\ faults' \in 0..MaxFaults
          /\ copied' \subseteq copied \union {t} /\ t \in reachedFromUser
      BY <1>8, MaxFaultsAssumption
      DEF Copy, FailToCopy, SettleCopy, Fault, TypeOK, ProfilesTypeOK, profileVars,
          ChatConsumer!Ack, ChatConsumer!Drop
    <2>2. TypeOK' /\ ChainInv'
      BY <2>1 DEF TypeOK, ProfilesTypeOK, ChainInv, authVars, syncVars, relayVars, routeVars
    <2>3. ProfileInv'
      BY <2>1, <2>2 DEF ProfileInv, TypeOK, TransactionInv, Admits, Clash, OutcomeInv,
                        RowsAndEventsAgree, AnswersAreTrue
    <2> QED BY <2>2, <2>3
  <1> QED BY <1>1, <1>2, <1>3, <1>4, <1>5, <1>6, <1>7, <1>8 DEF Relay

\* A call begins for an account only when its registration is queued, so that a user
\* that is an account was registered.
LEMMA CallsKeepInv ==
  ASSUME IndInv, NEW t \in Calls, BeginCall(t) \/ Continue(t) \/ PublishDirectly(t)
  PROVE  IndInv'
  <1> USE DEF IndInv
  <1>1. Begin(t) \/ Proceed(t) \/ Throw(t) \/ Publish(t) \/ PublishNowhere(t)
    BY DEF BeginCall, Continue, PublishDirectly
  <1>2. ProfileInv' /\ CallEffect(t)
    BY <1>1, CallKeepsInv
  <1>3. UNCHANGED <<authVars, handedByUser, ackedByUser, copied, bound, queued, lost>>
    BY DEF BeginCall, Continue, PublishDirectly, SeenByConsumer, UserConsumer!Work, syncVars,
           relayVars, chatVars, routeVars
  <1>4. profiled' \subseteq users' \intersect Accounts /\ profiled \subseteq profiled'
    BY <1>2 DEF BeginCall, Continue, PublishDirectly, SeenByConsumer, UserConsumer!Work,
           syncVars, TypeOK, CallEffect
  <1>5. /\ reachedFromUser' \subseteq reachedFromUser \union {t}
        /\ reachedFromUser \subseteq reachedFromUser'
        /\ reachedFromUser' = reachedFromUser \/ UserOf[t] \in users
        /\ unrouted' \subseteq unrouted \union {t}
    <2>1. CASE PublishDirectly(t)
      BY <2>1 DEF PublishDirectly, Publish, ProfileInv, OutcomeInv
    <2>2. CASE BeginCall(t) \/ Continue(t)
      BY <2>2 DEF BeginCall, Continue, relayVars, routeVars
    <2> QED BY <2>1, <2>2
  <1>6. TypeOK'
    BY <1>2, <1>3, <1>4, <1>5 DEF TypeOK, ProfileInv, authVars
  <1>7. t \in Syncs => UserOf[t] \in registered
    <2>1. CASE BeginCall(t)
      <3> SUFFICES ASSUME t \in Syncs PROVE UserOf[t] \in registered
        OBVIOUS
      <3>1. PICK m \in queued : AccountOf[m] = UserOf[t]
        BY <2>1 DEF BeginCall, Syncs
      <3> QED BY <3>1 DEF ChainInv
    <2>2. CASE Continue(t) \/ PublishDirectly(t)
      <3>1. step[t] # "idle"
        BY <2>2 DEF Continue, PublishDirectly, Proceed, Write, Conflict, Enqueue, Commit,
                    Throw, PublishNowhere, Publish
      <3> QED BY <3>1 DEF ChainInv
    <2> QED BY <2>1, <2>2
  <1>8. users' \intersect Accounts \subseteq registered
    <2>1. UserOf[t] \in Accounts => UserOf[t] \in registered
      BY <1>7, AccountsAreSynced
    <2> QED BY <1>2, <2>1 DEF CallEffect, ChainInv
  <1>9. \A s \in Syncs : step'[s] # "idle" => UserOf[s] \in registered
    BY <1>2, <1>7 DEF CallEffect, ChainInv, Syncs
  <1>10. \A s \in reachedFromUser' : UserOf[s] \in users'
    BY <1>2, <1>5 DEF CallEffect, ChainInv
  <1>11. ChainInv'
    BY <1>2, <1>3, <1>4, <1>5, <1>8, <1>9, <1>10 DEF ChainInv, CallEffect, authVars
  <1> QED BY <1>2, <1>6, <1>11

\* A crash rolls back what was open, and ends every call.
LEMMA CrashOfUserServiceKeepsInv ==
  ASSUME IndInv, CrashUserService
  PROVE  IndInv'
  <1> USE DEF IndInv, CrashUserService
  <1>1. /\ ProfileInv' /\ UNCHANGED <<users, outbox>>
        /\ \A u \in Calls : step[u] = "idle" => step'[u] = "idle"
    BY CrashKeepsInv
  <1>2. TypeOK'
    BY <1>1 DEF TypeOK, ProfileInv, authVars, syncVars, relayVars, chatVars, routeVars
  <1>3. ChainInv'
    BY <1>1 DEF ChainInv, Syncs, authVars, syncVars, relayVars, chatVars, routeVars
  <1> QED BY <1>1, <1>2, <1>3

\* Every step keeps the invariant: by the kind of its action.
LEMMA NextKeepsInv == IndInv /\ [Next]_vars => IndInv'
  <1> SUFFICES ASSUME IndInv, [Next]_vars PROVE IndInv'
    OBVIOUS
  <1>1. CASE UNCHANGED vars
    <2>1. TypeOK' /\ ChainInv'
      BY <1>1 DEF IndInv, TypeOK, ProfilesTypeOK, ChainInv, vars, profileVars, authVars,
                  syncVars, relayVars, chatVars, routeVars
    <2> QED BY <1>1, <2>1, StillProfileInv DEF IndInv, vars
  <1>2. CASE Next
    BY <1>2, RoutingKeepsInv, CallsKeepInv, CrashOfUserServiceKeepsInv DEF Next
  <1> QED BY <1>1, <1>2

-----------------------------------------------------------------------------
\* Theorems

\* In every reachable state of the five services the inductive invariant holds: what open
\* transactions hold, what calls left behind, and that nothing is further down the chain
\* than it is up.
THEOREM Invariance == Spec => []IndInv
  BY InitInv, NextKeepsInv, PTL DEF Spec

\* What the five services keep about a registration is well typed, and what the
\* consumer counts as profiled is in the table.
THEOREM TypeCorrect == Spec => []TypeOK
  <1>1. IndInv => TypeOK
    BY DEF IndInv
  <1> QED BY Invariance, <1>1, PTL

\* The two unique keys and the transaction are enough: however calls of createUser and
\* syncFromAuthUser overlap and fail, an email has one user, and with the outbox on a
\* user is in the table exactly when an event about it will be published.
THEOREM RowsAndEvents == Spec => []RowsAndEventsAgree
  <1>1. IndInv => RowsAndEventsAgree
    BY DEF IndInv, ProfileInv
  <1> QED BY Invariance, <1>1, PTL

\* What a caller of POST /users or of a sync hears is what happened.
THEOREM TrueAnswers == Spec => []AnswersAreTrue
  <1>1. IndInv => AnswersAreTrue
    BY DEF IndInv, ProfileInv
  <1> QED BY Invariance, <1>1, PTL

\* What chat-service has came all the way: from the promises of the two outboxes and
\* the two consumers, and from UserProfiles as it is.
THEOREM NothingSlips == Spec => []NothingSlipsAway
  <1>1. IndInv => NothingSlipsAway
    <2> SUFFICES ASSUME IndInv PROVE NothingSlipsAway
      OBVIOUS
    <2>1. {UserOf[t] : t \in copied} \subseteq users /\ profiled \subseteq registered
      BY DEF IndInv, ChainInv, TypeOK
    <2>2. outboxEnabled => \A m \in ackedByUser : \E t \in outbox : UserOf[t] = AccountOf[m]
      BY DEF IndInv, ChainInv, TypeOK, ProfileInv, RowsAndEventsAgree
    <2> QED BY <2>1, <2>2 DEF NothingSlipsAway
  <1> QED BY Invariance, <1>1, PTL
=============================================================================
