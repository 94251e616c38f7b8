----------------------------- MODULE MqttClient -----------------------------
(***************************************************************************)
(* The MQTT client of src/src/network/MqttClient.cpp on lwIP's.  A health  *)
(* check connects and subscribes what is not subscribed; lwIP calls back   *)
(* when the connection changes, when a request is answered, and with the   *)
(* portions of every message.  All of it runs in one thread.               *)
(*                                                                         *)
(* lwIP's client and the broker are modelled as the code uses them: lwIP   *)
(* has a pool of requests, drops those pending without a callback when the *)
(* connection closes, and the broker forgets a client that disconnects.    *)
(***************************************************************************)
EXTENDS Integers, Sequences, FiniteSets

CONSTANTS
    Subscriptions,      \* the application's Subscription objects
    Topics,             \* what messages are published on
    Topic,              \* [Subscriptions -> Topics]
    Capacity,           \* [Subscriptions -> size of the buffer]
    sMaxSubscriptions,
    MaxInFlight,        \* MQTT_REQ_MAX_IN_FLIGHT
    Sizes,              \* sizes of the payloads that arrive
    None

ASSUME SubscriptionsAssumption ==
    /\ IsFiniteSet(Subscriptions)
    /\ Topic \in [Subscriptions -> Topics]
    /\ Capacity \in [Subscriptions -> Nat]
    /\ None \notin Subscriptions \cup Topics
ASSUME SizesAssumption == Sizes \subseteq Nat
ASSUME LimitsAssumption == sMaxSubscriptions \in Nat /\ MaxInFlight \in Nat

VARIABLES
    mSubscriptions,       \* the objects in the map
    subscribed,           \* their flags, and those of the objects not in it
    mActiveSubscription,
    payload,              \* of the subscription that was active last: totalSize,
                          \* and the size bytes in its buffer
    received,             \* the last message was handed to receivedPayload
    connection,           \* conn_state of lwIP's client
    inpub,                \* the callbacks for messages are set
    free,                 \* requests free in lwIP's pool
    pending,              \* [Subscriptions -> requests unanswered]
    publishing,           \* publications unsent
    granted,              \* the topics the broker has subscribed us to
    incoming              \* the message that arrives, or arrived last

requests == <<free, pending, publishing>>
inbound == <<mActiveSubscription, payload, received, incoming>>
vars == <<mSubscriptions, subscribed, requests, connection, inpub, granted, inbound>>

NoMessage == [id |-> 1, topic |-> None, total |-> 0, got |-> 0, to |-> None]

\* init has returned, and the application has not registered anything.
Init ==
    /\ mSubscriptions = {}
    /\ subscribed = [s \in Subscriptions |-> FALSE]
    /\ mActiveSubscription = None
    /\ payload = [of |-> None, total |-> 0, buffer |-> <<>>]
    /\ received = FALSE
    /\ connection = "disconnected"
    /\ inpub = FALSE
    /\ free = MaxInFlight
    /\ pending = [s \in Subscriptions |-> 0]
    /\ publishing = 0
    /\ granted = {}
    /\ incoming = NoMessage

-----------------------------------------------------------------------------
(* Subscribing *)

\* subscribe, for each of wanted: mqtt_subscribe queues a request, also while the
\* connection is being made; it fails without one, without a free request, and
\* whenever its output buffer is full.
Subscribe(wanted, up) ==
    \E queued \in SUBSET wanted :
        /\ up \/ queued = {}
        /\ Cardinality(queued) <= free
        /\ free' = free - Cardinality(queued)
        /\ pending' = [s \in Subscriptions |->
                          IF s \in queued THEN pending[s] + 1 ELSE pending[s]]
        /\ subscribed' = [s \in Subscriptions |->
                             IF s \in wanted THEN s \in queued ELSE subscribed[s]]

\* registerSubscription, when the map is not full; a topic already in the map
\* keeps its subscription there.
RegisterSubscription(s) ==
    /\ Cardinality(mSubscriptions) < sMaxSubscriptions
    /\ mSubscriptions' = IF \E r \in mSubscriptions : Topic[r] = Topic[s]
                         THEN mSubscriptions ELSE mSubscriptions \cup {s}
    /\ Subscribe({s}, connection # "disconnected")
    /\ UNCHANGED <<publishing, connection, inpub, granted, inbound>>

\* connect: mqtt_client_connect clears the client, and may fail; it refuses
\* unless disconnected.
Connect ==
    IF connection = "disconnected"
    THEN connection' \in {"tcp", "disconnected"} /\ inpub' = FALSE
    ELSE UNCHANGED <<connection, inpub>>

Connected == connection = "connected"

\* Mutant: only the connection is checked.
HealthCheck_ConnectOnly ==
    /\ IF Connected THEN UNCHANGED <<connection, inpub>> ELSE Connect
    /\ UNCHANGED <<subscribed, requests, mSubscriptions, granted, inbound>>

\* mHealthCheckTimer: healthCheck
HealthCheck ==
    /\ IF Connected THEN UNCHANGED <<connection, inpub>> ELSE Connect
    /\ Subscribe({s \in mSubscriptions : ~subscribed[s]}, connection' # "disconnected")
    /\ UNCHANGED <<mSubscriptions, publishing, granted, inbound>>

\* service: the timer that calls healthCheck every two seconds.
Service == HealthCheck

-----------------------------------------------------------------------------
(* The connection *)

\* TCP is established, CONNECT goes out, and the requests queued after it.
TcpConnected ==
    /\ connection = "tcp"
    /\ connection' = "mqtt"
    /\ UNCHANGED <<mSubscriptions, subscribed, requests, inpub, granted, inbound>>

\* connectionChanged(MQTT_CONNECT_ACCEPTED)
Accepted ==
    /\ connection = "mqtt"
    /\ connection' = "connected"
    /\ inpub' = TRUE
    /\ Subscribe(mSubscriptions, TRUE)
    /\ UNCHANGED <<mSubscriptions, publishing, granted, inbound>>

\* connectionChanged with any other status: refused, timed out, or lost.  lwIP
\* has dropped the requests and what had arrived of a message.
Closed ==
    /\ connection # "disconnected"
    /\ connection' = "disconnected"
    /\ inpub' = FALSE
    /\ free' = MaxInFlight
    /\ pending' = [s \in Subscriptions |-> 0]
    /\ publishing' = 0
    /\ granted' = {}
    /\ incoming' = [NoMessage EXCEPT !.id = incoming.id]
    /\ received' = FALSE
    /\ UNCHANGED <<mSubscriptions, subscribed, mActiveSubscription, payload>>

-----------------------------------------------------------------------------
(* The results of requests *)

\* Mutant: a refusal is not noted.
SubscriptionRequestCb_OkOnly(s, ok) ==
    subscribed' = [subscribed EXCEPT ![s] = @ \/ ok]

\* subscriptionRequestCb
SubscriptionRequestCb(s, ok) == subscribed' = [subscribed EXCEPT ![s] = ok]

\* lwIP takes a request for s out of its queue.
Taken(s) ==
    /\ pending[s] > 0
    /\ pending' = [pending EXCEPT ![s] = @ - 1]
    /\ free' = free + 1
    /\ UNCHANGED publishing

\* SUBACK: the broker grants or refuses.
Suback(s, ok) ==
    /\ connection = "connected"
    /\ Taken(s)
    /\ granted' = IF ok THEN granted \cup {Topic[s]} ELSE granted
    /\ SubscriptionRequestCb(s, ok)
    /\ UNCHANGED <<mSubscriptions, connection, inpub, inbound>>

\* ERR_TIMEOUT: the broker may have granted the request, or grant it yet; its
\* answer will find no request.
RequestTimeout(s) ==
    /\ connection = "connected"
    /\ Taken(s)
    /\ granted' \in {granted, granted \cup {Topic[s]}}
    /\ SubscriptionRequestCb(s, FALSE)
    /\ UNCHANGED <<mSubscriptions, connection, inpub, inbound>>

\* publish, when mqtt_publish queues it; an error is reported to the application.
Publish ==
    /\ connection # "disconnected"
    /\ free > 0
    /\ free' = free - 1
    /\ publishing' = publishing + 1
    /\ UNCHANGED <<mSubscriptions, subscribed, pending, connection, inpub, granted,
                   inbound>>

\* publishRequestCb: TCP has sent what there was.
PublishRequestCb ==
    /\ connection = "connected"
    /\ publishing > 0
    /\ free' = free + publishing
    /\ publishing' = 0
    /\ UNCHANGED <<mSubscriptions, subscribed, pending, connection, inpub, granted,
                   inbound>>

-----------------------------------------------------------------------------
(* Messages *)

\* Bytes first + 1 to first + n of message id.
Bytes(id, first, n) == [k \in 1 .. n |-> [id |-> id, at |-> first + k]]

SubscriptionOf(t) ==
    IF \E s \in mSubscriptions : Topic[s] = t
    THEN CHOOSE s \in mSubscriptions : Topic[s] = t
    ELSE None

\* Mutant: the size is left as the last message had it.
IncomingPublish_SizeKept(t, total) ==
    [active |-> SubscriptionOf(t),
     payload |-> IF SubscriptionOf(t) = None THEN payload
                 ELSE [payload EXCEPT !.of = SubscriptionOf(t), !.total = total],
     received |-> FALSE]

\* incomingPublish
IncomingPublish(t, total) ==
    [active |-> SubscriptionOf(t),
     payload |-> IF SubscriptionOf(t) = None THEN payload
                 ELSE [of |-> SubscriptionOf(t), total |-> total, buffer |-> <<>>],
     received |-> FALSE]

\* Mutant: the room left in the buffer is not looked at.
IncomingData_NoBound(w, data, last) ==
    IF w.active = None THEN w
    ELSE LET copied == [w EXCEPT !.payload.buffer = @ \o data]
         IN  IF last /\ Len(copied.payload.buffer) = w.payload.total
             THEN [copied EXCEPT !.active = None, !.received = TRUE] ELSE copied

\* incomingData: what fits is copied; the whole message is handed on.
IncomingData(w, data, last) ==
    IF w.active = None THEN w
    ELSE LET room == Capacity[w.active] - Len(w.payload.buffer)
             size == IF Len(data) < room THEN Len(data) ELSE room
             copied == [w EXCEPT !.payload.buffer = @ \o SubSeq(data, 1, size)]
         IN  IF size = Len(data) /\ last /\ Len(copied.payload.buffer) = w.payload.total
             THEN [copied EXCEPT !.active = None, !.received = TRUE] ELSE copied

\* The callbacks of one portion have returned.
Returned(w) ==
    /\ mActiveSubscription' = w.active
    /\ payload' = w.payload
    /\ received' = w.received
    /\ UNCHANGED <<mSubscriptions, subscribed, requests, connection, inpub, granted>>

Current == [active |-> mActiveSubscription, payload |-> payload, received |-> received]

\* The first portion of a message, of n bytes, may hold all of it, or none.
FirstPortion(t, total, n) ==
    /\ connection = "connected"
    /\ incoming.got = incoming.total
    /\ LET id == 3 - incoming.id
       IN  /\ incoming' = [id |-> id, topic |-> t, total |-> total, got |-> n,
                           to |-> SubscriptionOf(t)]
           /\ Returned(IF inpub
                       THEN IncomingData(IncomingPublish(t, total), Bytes(id, 0, n), n = total)
                       ELSE [Current EXCEPT !.received = FALSE])

NextPortion(n) ==
    /\ connection = "connected"
    /\ n <= incoming.total - incoming.got
    /\ incoming' = [incoming EXCEPT !.got = @ + n]
    /\ Returned(IF inpub
                THEN IncomingData(Current, Bytes(incoming.id, incoming.got, n),
                                  incoming.got + n = incoming.total)
                ELSE Current)

\* The broker may send what it was not asked for.
Message ==
    \/ \E t \in Topics, total \in Sizes : \E n \in 0 .. total : FirstPortion(t, total, n)
    \/ \E n \in 1 .. incoming.total : NextPortion(n)

-----------------------------------------------------------------------------
Next ==
    \/ \E s \in Subscriptions : RegisterSubscription(s)
    \/ Service
    \/ TcpConnected \/ Accepted \/ Closed
    \/ \E s \in Subscriptions : (\E ok \in BOOLEAN : Suback(s, ok)) \/ RequestTimeout(s)
    \/ Publish \/ PublishRequestCb
    \/ Message

Spec == Init /\ [][Next]_vars

(***************************************************************************)
(* Fairness.  The health check runs every two seconds (MqttClient.h:122),  *)
(* and what may fail, for want of memory, of the network or of the         *)
(* broker's consent, does not fail for ever when it is tried again and     *)
(* again: connections may be lost for ever, but some last until the next   *)
(* health check, and some of its requests are granted.                     *)
(***************************************************************************)
Reconnect == Service /\ connection' # connection
Resubscribe(s) ==
    Connected /\ Service /\ ~subscribed[s] /\ subscribed'[s]

FairSpec ==
    /\ Spec
    /\ SF_vars(Reconnect) /\ SF_vars(TcpConnected) /\ SF_vars(Accepted)
    /\ SF_vars(PublishRequestCb)
    /\ \A s \in Subscriptions : SF_vars(Resubscribe(s)) /\ SF_vars(Suback(s, TRUE))

-----------------------------------------------------------------------------
(* Properties *)

\* The shape of the state: in particular nothing is copied past the end of a
\* subscription's buffer.
TypeOK ==
    /\ mSubscriptions \subseteq Subscriptions
    /\ subscribed \in [Subscriptions -> BOOLEAN]
    /\ mActiveSubscription \in Subscriptions \cup {None}
    /\ payload.total \in Sizes \cup {0}
    /\ payload.of \in Subscriptions \cup {None}
    /\ payload.of # None => Len(payload.buffer) <= Capacity[payload.of]
    /\ received \in BOOLEAN
    /\ connection \in {"disconnected", "tcp", "mqtt", "connected"}
    /\ inpub \in BOOLEAN
    /\ free \in 0 .. MaxInFlight
    /\ pending \in [Subscriptions -> 0 .. MaxInFlight]
    /\ publishing \in 0 .. MaxInFlight
    /\ granted \subseteq Topics

(***************************************************************************)
(* No subscription is lost silently: while there is a connection, one that *)
(* is flagged subscribed is known to the broker, or a request for it is    *)
(* still unanswered, whatever order losses of the connection, results and  *)
(* health checks came in (MqttClient.cpp:69-104, MqttClient.h:192-196).    *)
(***************************************************************************)
SubscriptionsKept ==
    connection = "connected" =>
        \A s \in mSubscriptions :
            subscribed[s] => Topic[s] \in granted \/ pending[s] > 0

(***************************************************************************)
(* receivedPayload is called exactly for the messages that arrived whole,  *)
(* for a subscription whose buffer they fit, and finds their bytes in that *)
(* buffer, whatever portions they came in and whatever came before: a      *)
(* message torn by a disconnection, one that did not fit, or one that was  *)
(* not subscribed to (MqttClient.cpp:107-162).                             *)
(***************************************************************************)
MessagesHandled ==
    LET whole == incoming.got = incoming.total /\ incoming.to # None
    IN  /\ received => whole /\ payload.buffer = Bytes(incoming.id, 0, incoming.total)
        /\ whole /\ incoming.total <= Capacity[incoming.to] => received

(***************************************************************************)
(* "Subscriptions will attempt to resubscribe periodically if they fail to *)
(* initially subscribe or there is a connection failure"                   *)
(* (MqttClient.h:137-138): each is known to the broker again and again.    *)
(***************************************************************************)
SubscribesAgain ==
    \A s \in Subscriptions : s \in mSubscriptions ~> Topic[s] \in granted
=============================================================================
