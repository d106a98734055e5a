------------------------------ MODULE Pipeline ------------------------------
(***************************************************************************)
(* How a registration becomes a user that chat-service knows: the auth     *)
(* outbox, the queue of user-service, user-service's profiles, its outbox, *)
(* the queue of chat-service and the copies there.                         *)
(*                                                                         *)
(* The outboxes and consumers take part as what they promise (AuthOutbox,  *)
(* UserOutbox, AuthConsumer and ChatConsumer implement OutboxPromise and   *)
(* ConsumerPromise), UserProfiles as it is.  What the promises leave open  *)
(* appears here as a fault: an event that is given up, or recorded and     *)
(* then lost on its way to the broker, and a handler that fails.           *)
(***************************************************************************)
EXTENDS UserProfiles

CONSTANTS
  Deliveries,   \* messages of auth.user.registered
  AccountOf     \* the account a message is about

Accounts == {UserOf[t] : t \in Syncs}
ASSUME AccountOfAssumption == AccountOf \in [Deliveries -> Accounts]

VARIABLES
  registered, handedByAuth, reachedFromAuth, recordedByAuth,
  profiled, rejected, doneByUser, ackedByUser, droppedByUser,
  handedByUser, reachedFromUser, recordedByUser,
  copied, failedInChat, doneByChat, ackedByChat, droppedByChat,
  bound,        \* services whose durable queue is bound to the exchange
  queued,       \* messages in user-service's queue
  unrouted,     \* accounts and calls with an event that met no queue
  lost          \* accounts and calls whose event will not be handed over (again)

authVars  == <<registered, handedByAuth, reachedFromAuth, recordedByAuth>>
syncVars  == <<profiled, rejected, doneByUser, ackedByUser, droppedByUser>>
relayVars == <<handedByUser, reachedFromUser, recordedByUser>>
chatVars  == <<copied, failedInChat, doneByChat, ackedByChat, droppedByChat>>
routeVars == <<bound, queued, unrouted, lost>>
vars == <<profileVars, authVars, syncVars, relayVars, chatVars, routeVars>>

AuthOutbox == INSTANCE OutboxPromise WITH
  Events <- Accounts, committed <- registered, handed <- handedByAuth,
  reached <- reachedFromAuth, recorded <- recordedByAuth

UserConsumer == INSTANCE ConsumerPromise WITH
  Events <- Accounts, Messages <- Deliveries, EventOf <- AccountOf,
  applied <- profiled, troubled <- rejected, recorded <- doneByUser,
  acked <- ackedByUser, dropped <- droppedByUser

UserOutbox == INSTANCE OutboxPromise WITH
  Events <- Calls, committed <- outbox, handed <- handedByUser,
  reached <- reachedFromUser, recorded <- recordedByUser

\* One message for each user.created event: its copies are ChatConsumer's matter.
ChatConsumer == INSTANCE ConsumerPromise WITH
  Events <- Calls, Messages <- Calls, EventOf <- [t \in Calls |-> t],
  applied <- copied, troubled <- failedInChat, recorded <- doneByChat,
  acked <- ackedByChat, dropped <- droppedByChat

TypeOK ==
  /\ ProfilesTypeOK
  /\ registered \subseteq Accounts
  /\ queued \subseteq Deliveries
  /\ profiled \subseteq users \intersect Accounts
  /\ reachedFromUser \subseteq Calls
  /\ copied \subseteq Calls
  /\ bound \subseteq {"user-service", "chat-service"}
  /\ unrouted \subseteq Accounts \union Calls
  /\ lost \subseteq Accounts \union Calls

Init ==
  /\ ProfilesInit
  /\ AuthOutbox!Init
  /\ UserConsumer!Init
  /\ handedByUser = {} /\ reachedFromUser = {} /\ recordedByUser = {}
  /\ ChatConsumer!Init
  /\ bound = {} /\ queued = {} /\ unrouted = {} /\ lost = {}

-----------------------------------------------------------------------------
\* auth-service and its outbox

Register(a) ==
  /\ AuthOutbox!Commit(a)
  /\ UNCHANGED <<profileVars, syncVars, relayVars, chatVars, routeVars>>

HandByAuth(a) ==
  /\ a \notin recordedByAuth \union lost
  /\ AuthOutbox!Hand(a)
  /\ UNCHANGED <<profileVars, syncVars, relayVars, chatVars, routeVars>>

RecordByAuth(a) ==
  /\ AuthOutbox!Record(a)
  /\ UNCHANGED <<profileVars, syncVars, relayVars, chatVars, routeVars>>

Bound(service) == service \in bound

\* The broker routes message m about the account, or drops it.
ReachFromAuth(m) ==
  LET a == AccountOf[m] IN
  /\ a \notin lost
  /\ m \notin queued \union ackedByUser \union droppedByUser
  /\ AuthOutbox!Reach(a)
  /\ queued' = IF Bound("user-service") THEN queued \union {m} ELSE queued
  /\ unrouted' = IF Bound("user-service") THEN unrouted ELSE unrouted \union {a}
  /\ UNCHANGED <<profileVars, syncVars, relayVars, chatVars, bound, lost>>

\* The first start of a consumer declares its durable queue and binds it.
Bind(service) ==
  /\ service \notin bound
  /\ bound' = bound \union {service}
  /\ UNCHANGED <<profileVars, authVars, syncVars, relayVars, chatVars, queued, unrouted,
                 lost>>

-----------------------------------------------------------------------------
\* user-service: its consumer and POST /users

\* An id is made up, or the handler of a message has acquired its event.
BeginCall(t) ==
  /\ Begin(t)
  /\ \/ t \in Creations
     \/ /\ UserOf[t] \notin doneByUser
        /\ \E m \in queued : AccountOf[m] = UserOf[t]
        /\ \A s \in Syncs : UserOf[s] = UserOf[t] => step[s] \in {"idle", "done"}
  /\ UNCHANGED <<authVars, syncVars, relayVars, chatVars, routeVars>>

\* What a step of a call means to the consumer.
SeenByConsumer(t) ==
  /\ profiled' = users' \intersect Accounts
  /\ rejected' = IF answer'[t] = "thrown" THEN rejected \union {UserOf[t]} ELSE rejected
  /\ UNCHANGED doneByUser
  /\ UserConsumer!Work

Continue(t) ==
  /\ Proceed(t) \/ Throw(t) \/ PublishNowhere(t)
  /\ SeenByConsumer(t)
  /\ UNCHANGED <<authVars, relayVars, chatVars, routeVars>>

\* Without the outbox the event goes to the exchange at once.
PublishDirectly(t) ==
  /\ Publish(t)
  /\ SeenByConsumer(t)
  /\ reachedFromUser' =
       IF Bound("chat-service") THEN reachedFromUser \union {t} ELSE reachedFromUser
  /\ unrouted' = IF Bound("chat-service") THEN unrouted ELSE unrouted \union {t}
  /\ UNCHANGED <<authVars, handedByUser, recordedByUser, chatVars, bound, queued, lost>>

CrashUserService ==
  /\ Crash
  /\ UNCHANGED <<authVars, syncVars, relayVars, chatVars, routeVars>>

RecordSync(a) ==
  /\ doneByUser' = doneByUser \union {a}
  /\ UNCHANGED <<profileVars, profiled, rejected>>
  /\ UserConsumer!Work
  /\ UNCHANGED <<authVars, relayVars, chatVars, routeVars>>

\* A message is settled once its account's handler is through.
SettleRegistration(m) ==
  /\ m \in queued
  /\ \A t \in Syncs : UserOf[t] = AccountOf[m] => step[t] \in {"idle", "done"}
  /\ \/ AccountOf[m] \in doneByUser /\ UserConsumer!Ack(m)
     \/ AccountOf[m] \notin doneByUser /\ UserConsumer!Drop(m)
  /\ queued' = queued \ {m}
  /\ UNCHANGED <<profileVars, authVars, relayVars, chatVars, bound, unrouted, lost>>

-----------------------------------------------------------------------------
\* user-service's outbox

HandByUser(t) ==
  /\ t \notin recordedByUser \union lost
  /\ UserOutbox!Hand(t)
  /\ UNCHANGED <<profileVars, authVars, syncVars, chatVars, routeVars>>

RecordByUser(t) ==
  /\ UserOutbox!Record(t)
  /\ UNCHANGED <<profileVars, authVars, syncVars, chatVars, routeVars>>

ReachFromUser(t) ==
  /\ t \notin lost \union reachedFromUser \union unrouted
  /\ t \in handedByUser
  /\ \/ Bound("chat-service") /\ UserOutbox!Reach(t) /\ UNCHANGED unrouted
     \/ /\ ~Bound("chat-service")
        /\ unrouted' = unrouted \union {t}
        /\ UNCHANGED <<outbox, relayVars>>
  /\ UNCHANGED <<outboxEnabled, users, announced, step, answer, kept, faults,
                 authVars, syncVars, chatVars, bound, queued, lost>>

\* Given up, or recorded with the frame still in a buffer of a connection that ends.
Lose(e) ==
  /\ e \notin lost \union reachedFromAuth \union reachedFromUser
  /\ e \in registered \union outbox
  /\ Fault
  /\ lost' = lost \union {e}
  /\ UNCHANGED <<outboxEnabled, users, outbox, announced, step, answer, kept,
                 authVars, syncVars, relayVars, chatVars, bound, queued, unrouted>>

-----------------------------------------------------------------------------
\* chat-service

Copy(t) ==
  /\ t \in reachedFromUser \ (ackedByChat \union droppedByChat \union failedInChat)
  /\ copied' = copied \union {t}
  /\ UNCHANGED <<failedInChat, doneByChat>>
  /\ ChatConsumer!Work
  /\ UNCHANGED <<profileVars, authVars, syncVars, relayVars, routeVars>>

FailToCopy(t) ==
  /\ t \in reachedFromUser \ (ackedByChat \union droppedByChat \union failedInChat)
  /\ Fault
  /\ failedInChat' = failedInChat \union {t}
  /\ UNCHANGED <<copied, doneByChat>>
  /\ ChatConsumer!Work
  /\ UNCHANGED <<outboxEnabled, users, outbox, announced, step, answer, kept, authVars,
                 syncVars, relayVars, routeVars>>

SettleCopy(t) ==
  /\ t \in reachedFromUser
  /\ ChatConsumer!Ack(t) \/ ChatConsumer!Drop(t)
  /\ UNCHANGED <<profileVars, authVars, syncVars, relayVars, routeVars>>

-----------------------------------------------------------------------------
Relay(e) == HandByAuth(e) \/ RecordByAuth(e) \/ RecordSync(e)

Next ==
  \/ \E a \in Accounts : Register(a) \/ Relay(a) \/ Lose(a)
  \/ \E m \in Deliveries : ReachFromAuth(m) \/ SettleRegistration(m)
  \/ \E service \in {"user-service", "chat-service"} : Bind(service)
  \/ \E t \in Calls :
       \/ BeginCall(t) \/ Continue(t) \/ PublishDirectly(t)
       \/ HandByUser(t) \/ RecordByUser(t) \/ ReachFromUser(t) \/ Lose(t)
       \/ Copy(t) \/ FailToCopy(t) \/ SettleCopy(t)
  \/ CrashUserService

Spec == Init /\ [][Next]_vars

\* What the components promise in the end, unless the event is lost: the outboxes hand
\* over (UserOutbox's EventuallySettled), the broker routes and delivers, the consumers
\* handle and settle (EventuallyApplied, EventuallyCopied).
Fairness ==
  /\ \A a \in Accounts : WF_vars(HandByAuth(a)) /\ WF_vars(RecordSync(a))
  /\ \A m \in Deliveries : WF_vars(ReachFromAuth(m)) /\ WF_vars(SettleRegistration(m))
  /\ \A t \in Calls : WF_vars(Continue(t)) /\ WF_vars(PublishDirectly(t))
  /\ \A t \in Syncs : WF_vars(BeginCall(t))
  /\ \A t \in Calls : WF_vars(HandByUser(t)) /\ WF_vars(ReachFromUser(t)) /\ WF_vars(Copy(t))

FairSpec == Spec /\ Fairness

-----------------------------------------------------------------------------
\* Properties

\* What chat-service knows came all the way: a copy is of a user in the table, a synced
\* user has an account, and with the outbox on a registration that was acknowledged has
\* an event for chat-service, whatever crashed or failed in between.
NothingSlipsAway ==
  /\ {UserOf[t] : t \in copied} \subseteq users
  /\ profiled \subseteq registered
  /\ outboxEnabled => \A m \in ackedByUser : \E t \in outbox : UserOf[t] = AccountOf[m]

\* Where the event of an account, or of one of its syncs, may have ended.
Excused(a) ==
  \/ a \in unrouted \union lost \union rejected
  \/ \E t \in Syncs : UserOf[t] = a /\ t \in unrouted \union lost \union failedInChat
  \/ ~outboxEnabled /\ faults > 0

\* Every account becomes a user chat-service knows, unless an event met an unbound
\* queue, was given up or lost, was refused (its email was taken by POST /users, or a
\* handler failed), or was published as well as may be and failed.
EventuallyKnown ==
  \A a \in Accounts :
    a \in registered ~> Excused(a) \/ \E t \in copied : UserOf[t] = a
=============================================================================
