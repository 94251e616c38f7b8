-------------------------- MODULE MqttClient_proofs --------------------------
(***************************************************************************)
(* Proofs about MqttClient: that no subscription is lost silently, and     *)
(* that the application gets exactly the messages that are whole and fit,  *)
(* for any subscriptions, topics and buffers, any pool of requests, and    *)
(* whatever lwIP, the broker and the network do.                           *)
(***************************************************************************)
EXTENDS MqttClient, SequenceTheorems, FiniteSetTheorems, TLAPS

-----------------------------------------------------------------------------
(* Subscriptions *)

SubscriptionTypes ==
    /\ mSubscriptions \subseteq Subscriptions
    /\ subscribed \in [Subscriptions -> BOOLEAN]
    /\ pending \in [Subscriptions -> Nat]

SubscriptionInv == SubscriptionTypes /\ SubscriptionsKept

\* What subscribing leaves behind: a flag that is set by it has a request.
LEMMA SubscribeFlags ==
  ASSUME SubscriptionTypes, NEW wanted \in SUBSET Subscriptions, NEW up \in BOOLEAN,
         Subscribe(wanted, up)
  PROVE  /\ subscribed' \in [Subscriptions -> BOOLEAN]
         /\ pending' \in [Subscriptions -> Nat]
         /\ \A s \in Subscriptions :
               /\ pending'[s] >= pending[s]
               /\ s \in wanted /\ subscribed'[s] => pending'[s] > 0
               /\ s \notin wanted => subscribed'[s] = subscribed[s]
  <1>1. PICK queued \in SUBSET wanted :
           /\ pending' = [s \in Subscriptions |->
                             IF s \in queued THEN pending[s] + 1 ELSE pending[s]]
           /\ subscribed' = [s \in Subscriptions |->
                                IF s \in wanted THEN s \in queued ELSE subscribed[s]]
    BY DEF Subscribe
  <1>2. \A s \in Subscriptions : pending[s] \in Nat
    BY DEF SubscriptionTypes
  <1>3. \A s \in Subscriptions :
           subscribed'[s] = IF s \in wanted THEN s \in queued ELSE subscribed[s]
    BY <1>1
  <1>4. \A s \in Subscriptions :
           pending'[s] = IF s \in queued THEN pending[s] + 1 ELSE pending[s]
    BY <1>1
  <1>5. subscribed' \in [Subscriptions -> BOOLEAN]
    <2>1. ASSUME NEW s \in Subscriptions
          PROVE  (IF s \in wanted THEN s \in queued ELSE subscribed[s]) \in BOOLEAN
      <3>1. CASE s \in wanted
        <4>1. (s \in queued) \in BOOLEAN
          OBVIOUS
        <4> QED
          BY <3>1, <4>1, Zenon
      <3>2. CASE s \notin wanted
        <4>1. subscribed[s] \in BOOLEAN
          BY DEF SubscriptionTypes
        <4> QED
          BY <3>2, <4>1, Zenon
      <3> QED
        BY <3>1, <3>2
    <2> QED
      BY <1>1, <2>1, Zenon
  <1>6. pending' \in [Subscriptions -> Nat]
    BY <1>1, <1>2
  <1> QED
    BY <1>2, <1>3, <1>4, <1>5, <1>6

\* What the answer to a request leaves behind.
LEMMA AnswerKeeps ==
  ASSUME SubscriptionInv, NEW s \in Subscriptions, NEW ok \in BOOLEAN,
         connection = "connected", Taken(s), SubscriptionRequestCb(s, ok),
         granted \subseteq granted', ok => Topic[s] \in granted',
         UNCHANGED <<mSubscriptions, connection>>
  PROVE  SubscriptionInv'
  <1>1. /\ pending' = [pending EXCEPT ![s] = @ - 1] /\ pending[s] > 0
        /\ subscribed' = [subscribed EXCEPT ![s] = ok]
    BY DEF Taken, SubscriptionRequestCb
  <1>2. SubscriptionTypes'
    BY <1>1 DEF SubscriptionInv, SubscriptionTypes
  <1>3. ASSUME NEW r \in mSubscriptions, subscribed'[r]
        PROVE  Topic[r] \in granted' \/ pending'[r] > 0
    <2>1. CASE r = s
      BY <1>1, <1>3, <2>1 DEF SubscriptionInv, SubscriptionTypes
    <2>2. CASE r # s
      <3>1. subscribed'[r] = subscribed[r] /\ pending'[r] = pending[r]
        BY <1>1, <2>2 DEF SubscriptionInv, SubscriptionTypes
      <3> QED
        BY <1>3, <3>1 DEF SubscriptionInv, SubscriptionsKept
    <2> QED
      BY <2>1, <2>2
  <1> QED
    BY <1>2, <1>3 DEF SubscriptionInv, SubscriptionsKept

\* Steps that touch neither the flags nor the requests.
LEMMA OthersKeep ==
  ASSUME SubscriptionInv,
         UNCHANGED <<mSubscriptions, subscribed, pending, granted>>,
         connection' = "connected" => connection = "connected"
  PROVE  SubscriptionInv'
  BY DEF SubscriptionInv, SubscriptionTypes, SubscriptionsKept

LEMMA SubscriptionsInductive == Spec => []SubscriptionInv
  <1>1. Init => SubscriptionInv
    BY DEF Init, SubscriptionInv, SubscriptionTypes, SubscriptionsKept
  <1>2. SubscriptionInv /\ [Next]_vars => SubscriptionInv'
    <2> SUFFICES ASSUME SubscriptionInv, [Next]_vars PROVE SubscriptionInv'
      OBVIOUS
    <2> USE DEF SubscriptionInv
    <2>1. ASSUME NEW s \in Subscriptions, RegisterSubscription(s)
          PROVE  SubscriptionInv'
      <3>1. /\ Subscribe({s}, connection # "disconnected")
            /\ mSubscriptions' \in {mSubscriptions, mSubscriptions \cup {s}}
            /\ UNCHANGED <<connection, granted>>
        BY <2>1 DEF RegisterSubscription
      <3>2. /\ subscribed' \in [Subscriptions -> BOOLEAN]
            /\ pending' \in [Subscriptions -> Nat]
            /\ \A r \in Subscriptions :
                  /\ pending'[r] >= pending[r]
                  /\ r \in {s} /\ subscribed'[r] => pending'[r] > 0
                  /\ r \notin {s} => subscribed'[r] = subscribed[r]
        BY <3>1, SubscribeFlags
      <3> QED
        BY <3>1, <3>2 DEF SubscriptionTypes, SubscriptionsKept
    <2>2. CASE Service
      <3>1. /\ Subscribe({s \in mSubscriptions : ~subscribed[s]},
                         connection' # "disconnected")
            /\ UNCHANGED <<mSubscriptions, granted>>
            /\ connection' = "connected" => connection = "connected"
        BY <2>2 DEF Service, HealthCheck, Connected, Connect
      <3>2. {s \in mSubscriptions : ~subscribed[s]} \in SUBSET Subscriptions
        BY DEF SubscriptionTypes
      <3>3. /\ subscribed' \in [Subscriptions -> BOOLEAN]
            /\ pending' \in [Subscriptions -> Nat]
            /\ \A r \in Subscriptions :
                  /\ pending'[r] >= pending[r]
                  /\ r \in mSubscriptions /\ ~subscribed[r] /\ subscribed'[r]
                        => pending'[r] > 0
                  /\ ~(r \in mSubscriptions /\ ~subscribed[r])
                        => subscribed'[r] = subscribed[r]
        BY <3>1, <3>2, SubscribeFlags
      <3> QED
        BY <3>1, <3>3 DEF SubscriptionTypes, SubscriptionsKept
    <2>3. CASE Accepted
      <3>1. Subscribe(mSubscriptions, TRUE) /\ UNCHANGED <<mSubscriptions, granted>>
        BY <2>3 DEF Accepted
      <3>2. /\ subscribed' \in [Subscriptions -> BOOLEAN]
            /\ pending' \in [Subscriptions -> Nat]
            /\ \A r \in Subscriptions :
                  r \in mSubscriptions /\ subscribed'[r] => pending'[r] > 0
        BY <3>1, SubscribeFlags DEF SubscriptionTypes
      <3> QED
        BY <3>1, <3>2 DEF SubscriptionTypes, SubscriptionsKept
    <2>4. CASE Closed
      BY <2>4 DEF Closed, SubscriptionTypes, SubscriptionsKept
    <2>5. ASSUME NEW s \in Subscriptions, NEW ok \in BOOLEAN, Suback(s, ok)
          PROVE  SubscriptionInv'
      BY <2>5, AnswerKeeps DEF Suback
    <2>6. ASSUME NEW s \in Subscriptions, RequestTimeout(s)
          PROVE  SubscriptionInv'
      BY <2>6, AnswerKeeps DEF RequestTimeout
    <2>7. CASE TcpConnected \/ Publish \/ PublishRequestCb \/ UNCHANGED vars
      BY <2>7, OthersKeep DEF TcpConnected, Publish, PublishRequestCb, vars, requests
    <2>8. CASE Message
      <3>1. UNCHANGED <<mSubscriptions, subscribed, pending, granted, connection>>
        BY <2>8 DEF Message, FirstPortion, NextPortion, Returned, requests
      <3> QED
        BY <3>1, OthersKeep
    <2> QED
      BY <2>1, <2>2, <2>3, <2>4, <2>5, <2>6, <2>7, <2>8 DEF Next
  <1> QED
    BY <1>1, <1>2, PTL DEF Spec

(***************************************************************************)
(* While there is a connection, a subscription that is flagged subscribed  *)
(* is known to the broker, or a request for it is still unanswered: none   *)
(* is lost silently (MqttClient.cpp:69-104, MqttClient.h:192-196).         *)
(***************************************************************************)
THEOREM NoneLostSilently == Spec => []SubscriptionsKept
  <1>1. SubscriptionInv => SubscriptionsKept
    BY DEF SubscriptionInv
  <1> QED
    BY SubscriptionsInductive, <1>1, PTL

-----------------------------------------------------------------------------
(* Messages *)

Octets == [id: {1, 2}, at: Nat]

Least(m, n) == IF m <= n THEN m ELSE n

IsPayload(p) == \E of, total, b : p = [of |-> of, total |-> total, buffer |-> b]

\* What the callbacks work on.
IsWork(w) ==
    \E active, of, total, b, done :
        w = [active |-> active, payload |-> [of |-> of, total |-> total, buffer |-> b],
             received |-> done]

MessageTypes ==
    /\ mSubscriptions \subseteq Subscriptions
    /\ incoming \in [id: {1, 2}, topic: Topics \cup {None}, total: Nat, got: Nat,
                     to: Subscriptions \cup {None}]
    /\ incoming.got <= incoming.total
    /\ IsPayload(payload)

\* While a message arrives its subscription, if there is one, is active, and its
\* buffer holds what has come and fits.
InProgress ==
    incoming.got < incoming.total =>
        /\ ~received
        /\ mActiveSubscription = incoming.to
        /\ incoming.to # None =>
              /\ payload.total = incoming.total
              /\ payload.buffer = Bytes(incoming.id, 0,
                                       Least(incoming.got, Capacity[incoming.to]))

MessageInv ==
    /\ MessageTypes
    /\ connection = "connected" => inpub
    /\ InProgress
    /\ MessagesHandled

Whole(w, to, id, total) ==
    /\ w.received => to # None /\ w.payload.buffer = Bytes(id, 0, total)
    /\ to # None /\ total <= Capacity[to] => w.received

\* What is not whole yet.
Begun(w, to, id, total, got) ==
    /\ ~w.received
    /\ w.active = to
    /\ to # None =>
          /\ w.payload.total = total
          /\ w.payload.buffer = Bytes(id, 0, Least(got, Capacity[to]))

Handled(w, to, id, total, got) ==
    /\ got < total => Begun(w, to, id, total, got)
    /\ got = total => Whole(w, to, id, total)
    /\ IsPayload(w.payload)

LEMMA BytesAre ==
  ASSUME NEW id \in {1, 2}, NEW first \in Nat, NEW n \in Nat
  PROVE  /\ Bytes(id, first, n) \in Seq(Octets)
         /\ Len(Bytes(id, first, n)) = n
         /\ \A k \in 1 .. n : Bytes(id, first, n)[k] = [id |-> id, at |-> first + k]
  <1>1. \A k \in 1 .. n : [id |-> id, at |-> first + k] \in Octets
    BY DEF Octets
  <1>2. Bytes(id, first, n) \in [1 .. n -> Octets]
    BY <1>1 DEF Bytes
  <1>3. Bytes(id, first, n) \in Seq(Octets)
    BY <1>2
  <1> QED
    BY <1>2, <1>3 DEF Bytes

\* The first k of the bytes that follow the first got are appended to those.
LEMMA BytesJoin ==
  ASSUME NEW id \in {1, 2}, NEW got \in Nat, NEW n \in Nat, NEW k \in 0 .. n
  PROVE  Bytes(id, 0, got) \o SubSeq(Bytes(id, got, n), 1, k) = Bytes(id, 0, got + k)
  <1> DEFINE head == Bytes(id, 0, got)
             data == Bytes(id, got, n)
             part == SubSeq(data, 1, k)
             all == Bytes(id, 0, got + k)
  <1> HIDE DEF head, part, all, data
  <1>1. /\ head \in Seq(Octets) /\ Len(head) = got
        /\ \A i \in 1 .. got : head[i] = [id |-> id, at |-> 0 + i]
    BY BytesAre, Zenon DEF head
  <1>2. /\ data \in Seq(Octets) /\ Len(data) = n
        /\ \A i \in 1 .. n : data[i] = [id |-> id, at |-> got + i]
    <2>1. /\ Bytes(id, got, n) \in Seq(Octets)
          /\ Len(Bytes(id, got, n)) = n
          /\ \A k1 \in 1 .. n : Bytes(id, got, n)[k1] = [id |-> id, at |-> got + k1]
      BY BytesAre
    <2> QED
      BY <2>1 DEF data
  <1>3. got + k \in Nat
    OBVIOUS
  <1>4. /\ all \in Seq(Octets) /\ Len(all) = got + k
        /\ \A i \in 1 .. got + k : all[i] = [id |-> id, at |-> 0 + i]
    BY <1>3, BytesAre, Zenon DEF all
  <1>5. /\ part \in Seq(Octets) /\ Len(part) = k
        /\ \A i \in 1 .. k : part[i] = [id |-> id, at |-> got + i]
    <2>1. \A i \in 1 .. k : data[i] \in Octets
      BY <1>2, ElementOfSeq
    <2>2. /\ part \in Seq(Octets)
          /\ Len(part) = IF 1 <= k THEN k - 1 + 1 ELSE 0
          /\ \A i \in 1 .. k - 1 + 1 : part[i] = data[1 + i - 1]
      BY <2>1, SubSeqProperties DEF part
    <2> QED
      BY <1>2, <2>2
  <1>6. /\ head \o part \in Seq(Octets)
        /\ Len(head \o part) = got + k
        /\ \A i \in 1 .. got + k :
              (head \o part)[i] = IF i <= got THEN head[i] ELSE part[i - got]
    <2>1. head \in Seq(Octets) /\ part \in Seq(Octets)
      BY <1>1, <1>5
    <2>2. /\ head \o part \in Seq(Octets)
          /\ Len(head \o part) = Len(head) + Len(part)
          /\ \A i \in 1 .. Len(head) + Len(part) : (head \o part)[i] =
                IF i <= Len(head) THEN head[i] ELSE part[i - Len(head)]
      BY <2>1, ConcatProperties, Zenon
    <2> QED
      BY <1>1, <1>5, <2>2
  <1>7. ASSUME NEW i \in 1 .. got + k PROVE (head \o part)[i] = all[i]
    <2>1. CASE i <= got
      BY <1>1, <1>4, <1>6, <2>1
    <2>2. CASE ~(i <= got)
      <3>1. i - got \in 1 .. k /\ got + (i - got) = 0 + i
        BY <2>2
      <3>2. (head \o part)[i] = part[i - got]
        BY <1>6, <2>2
      <3> QED
        BY <1>4, <1>5, <3>1, <3>2
    <2> QED
      BY <2>1, <2>2
  <1>8. head \o part = all
    BY <1>4, <1>6, <1>7, SeqEqual
  <1> QED
    BY <1>8 DEF head, part, all, data

\* One portion, of n bytes, for a message of which got have arrived.
LEMMA PortionCopied ==
  ASSUME NEW w, IsWork(w),
         NEW to \in Subscriptions \cup {None}, NEW id \in {1, 2}, NEW total \in Nat,
         NEW got \in 0 .. total, NEW n \in 0 .. total - got,
         Begun(w, to, id, total, got)
  PROVE  Handled(IncomingData(w, Bytes(id, got, n), got + n = total),
                 to, id, total, got + n)
  <1>0. PICK a, o, t, b, r :
          w = [active |-> a, payload |-> [of |-> o, total |-> t, buffer |-> b],
               received |-> r]
    BY DEF IsWork
  <1> DEFINE v == IncomingData(w, Bytes(id, got, n), got + n = total)
  <1>1. /\ ~r /\ a = to
        /\ to # None => t = total /\ b = Bytes(id, 0, Least(got, Capacity[to]))
    BY <1>0 DEF Begun
  <1>2. CASE to = None
    <2>1. v = w
      BY <1>0, <1>1, <1>2 DEF IncomingData
    <2> HIDE DEF v
    <2>2. IsPayload(v.payload)
      BY <1>0, <2>1 DEF IsPayload
    <2>3. Begun(v, to, id, total, got + n) /\ Whole(v, to, id, total)
      BY <1>0, <1>2, <2>1, <1>1 DEF Begun, Whole
    <2> QED
      BY <2>2, <2>3, Zenon DEF Handled, v
  <1>3. CASE to # None
    <2> DEFINE cap == Capacity[to]
               data == Bytes(id, got, n)
               size == IF n < cap - Len(b) THEN n ELSE cap - Len(b)
               part == SubSeq(data, 1, size)
               most == Least(got + n, cap)
               buffer == Bytes(id, 0, most)
               copied == [active |-> to,
                          payload |-> [of |-> o, total |-> total, buffer |-> buffer],
                          received |-> r]
               done == size = n /\ got + n = total /\ most = total
    <2> HIDE DEF cap, data, size, part, most, buffer, copied, done
    <2>1. cap \in Nat /\ to \in Subscriptions /\ got \in Nat /\ n \in Nat
          /\ got + n \in Nat
      BY <1>3, SubscriptionsAssumption DEF cap
    <2>2. Least(got, cap) \in Nat /\ most \in Nat
      BY <2>1 DEF Least, most
    <2>3. b \in Seq(Octets) /\ Len(b) = Least(got, cap)
          /\ b = Bytes(id, 0, Least(got, cap))
      <3>1. b = Bytes(id, 0, Least(got, cap))
        BY <1>1, <1>3 DEF cap
      <3> QED
        BY <2>2, <3>1, BytesAre, Zenon
    <2>4. size \in 0 .. n /\ Least(got, cap) + size = most
      BY <2>1, <2>3 DEF Least, size, most
    <2>5. got > cap => size = 0 /\ Least(got, cap) = cap /\ most = cap
      BY <2>1, <2>3 DEF Least, size, most
    <2>6. got <= cap => Least(got, cap) = got
      BY DEF Least
    <2>7. b \o part = buffer
      <3>1. CASE got <= cap
        <4>1. b = Bytes(id, 0, got) /\ got + size = most
          BY <2>3, <2>4, <2>6, <3>1
        <4>2. Bytes(id, 0, got) \o SubSeq(Bytes(id, got, n), 1, size)
                 = Bytes(id, 0, got + size)
          BY <2>1, <2>4, BytesJoin
        <4> QED
          BY <4>1, <4>2 DEF buffer, part, data
      <3>2. CASE ~(got <= cap)
        <4>1. part = << >>
          BY <2>1, <2>5, <3>2, SubSeqEmpty DEF part
        <4>2. b = buffer
          BY <2>1, <2>3, <2>5, <3>2 DEF buffer
        <4> QED
          BY <2>3, <4>1, <4>2, ConcatEmptySeq
      <3> QED
        BY <3>1, <3>2
    <2>8. Len(buffer) = most /\ Len(data) = n
      <3>1. /\ Bytes(id, got, n) \in Seq(Octets)
            /\ Len(Bytes(id, got, n)) = n
            /\ \A k \in 1 .. n : Bytes(id, got, n)[k] = [id |-> id, at |-> got + k]
        BY <2>1, BytesAre
      <3>2. Len(Bytes(id, 0, most)) = most
        BY <2>2, BytesAre, Zenon
      <3> QED
        BY <3>1, <3>2 DEF buffer, data
    <2>9. v = IF done THEN [copied EXCEPT !.active = None, !.received = TRUE]
              ELSE copied
      <3>1. [w EXCEPT !.payload.buffer = @ \o part] = copied
        <4>1. w = [active |-> to, payload |-> [of |-> o, total |-> total, buffer |-> b],
                   received |-> r]
          BY <1>0, <1>1, <1>3
        <4>2. [w EXCEPT !.payload.buffer = @ \o part]
                 = [w EXCEPT !.payload.buffer = b \o part]
          BY ONLY <4>1
        <4>3. [w EXCEPT !.payload.buffer = b \o part]
                 = [w EXCEPT !.payload.buffer = buffer]
          BY ONLY <2>7, Zenon
        <4>4. [w EXCEPT !.payload.buffer = buffer] = copied
          BY ONLY <4>1 DEF copied
        <4> QED
          BY ONLY <4>2, <4>3, <4>4, Zenon
      <3>2. v = LET c == [w EXCEPT !.payload.buffer = @ \o part]
                IN  IF size = n /\ got + n = total /\ Len(c.payload.buffer) = w.payload.total
                    THEN [c EXCEPT !.active = None, !.received = TRUE] ELSE c
        <4>1. w.active = to /\ w.payload.buffer = b
          BY <1>0, <1>1
        <4> QED
          BY <4>1, <1>3, <2>8, Zenon DEF IncomingData, part, size, cap, data
      <3>3. Len(copied.payload.buffer) = most /\ w.payload.total = total
        BY <1>0, <1>1, <1>3, <2>8 DEF copied
      <3> QED
        BY <3>1, <3>2, <3>3, Zenon DEF done
    <2> HIDE DEF v
    <2>10. done <=> got + n = total /\ total <= cap
      BY <2>1, <2>3 DEF Least, done, size, most
    <2>11. ASSUME got + n < total PROVE Begun(v, to, id, total, got + n)
      <3>1. v = copied
        BY <2>9, <2>10, <2>11
      <3>2. /\ ~v.received /\ v.active = to
            /\ v.payload.total = total /\ v.payload.buffer = buffer
        BY <1>1, <3>1 DEF copied
      <3> QED
        BY <3>2 DEF Begun, buffer, most, cap
    <2>12. ASSUME got + n = total PROVE Whole(v, to, id, total)
      <3>1. CASE total <= cap
        <4>1. v.received /\ v.payload.buffer = buffer
          <5>1. v = [copied EXCEPT !.active = None, !.received = TRUE]
            BY <2>9, <2>10, <2>12, <3>1
          <5>2. v = [active |-> None,
                     payload |-> [of |-> o, total |-> total, buffer |-> buffer],
                     received |-> TRUE]
            BY <5>1 DEF copied
          <5> QED
            BY <5>2
        <4>2. most = total
          BY <2>12, <3>1 DEF Least, most
        <4>3. v.payload.buffer = Bytes(id, 0, total)
          BY <4>1, <4>2 DEF buffer
        <4> QED
          BY <1>3, <3>1, <4>1, <4>3, Zenon DEF Whole, cap
      <3>2. CASE ~(total <= cap)
        <4>1. ~v.received
          BY <1>1, <2>9, <2>10, <3>2 DEF copied
        <4> QED
          BY <3>2, <4>1, Zenon DEF Whole, cap
      <3> QED
        BY <3>1, <3>2
    <2>13. IsPayload(v.payload)
      <3>1. v.payload = [of |-> o, total |-> total, buffer |-> buffer]
        BY ONLY <2>9 DEF copied
      <3> HIDE DEF buffer
      <3> QED
        BY ONLY <3>1 DEF IsPayload
    <2> QED
      BY <2>11, <2>12, <2>13, Zenon DEF Handled, v
  <1> QED
    BY <1>2, <1>3

\* What the callbacks of a portion make of the state, as they find it.
LEMMA PortionKeeps ==
  ASSUME NEW to \in Subscriptions \cup {None}, NEW id \in {1, 2}, NEW total \in Nat,
         NEW got \in 0 .. total, NEW n \in 0 .. total - got,
         NEW w, IsWork(w),
         Begun(w, to, id, total, got),
         Returned(IncomingData(w, Bytes(id, got, n), got + n = total)),
         NEW topic \in Topics \cup {None},
         incoming' = [id |-> id, topic |-> topic, total |-> total, got |-> got + n,
                      to |-> to],
         mSubscriptions \subseteq Subscriptions, connection = "connected" => inpub
  PROVE  MessageInv'
  <1> DEFINE v == IncomingData(w, Bytes(id, got, n), got + n = total)
  <1>1. /\ got + n < total => Begun(v, to, id, total, got + n)
        /\ got + n = total => Whole(v, to, id, total)
        /\ IsPayload(v.payload)
    <2>1. Handled(v, to, id, total, got + n)
      BY PortionCopied
    <2> HIDE DEF v
    <2> QED
      BY <2>1, Zenon DEF Handled
  <1> HIDE DEF v
  <1>2. /\ mActiveSubscription' = v.active /\ payload' = v.payload
        /\ received' = v.received
        /\ UNCHANGED <<mSubscriptions, connection, inpub>>
    BY DEF Returned, v
  <1>3. got + n \in 0 .. total
    OBVIOUS
  <1>4. MessageTypes'
    BY <1>1, <1>2, <1>3 DEF MessageTypes
  <1>5. InProgress'
    BY <1>1, <1>2 DEF Begun, InProgress
  <1>6. MessagesHandled'
    <2>1. CASE got + n = total
      BY <1>1, <1>2, <2>1 DEF Whole, MessagesHandled
    <2>2. CASE got + n < total
      BY <1>1, <1>2, <2>2 DEF Begun, MessagesHandled
    <2> QED
      BY <1>3, <2>1, <2>2
  <1> QED
    BY <1>2, <1>4, <1>5, <1>6 DEF MessageInv

LEMMA FirstPortionKeeps ==
  ASSUME MessageInv, NEW t \in Topics, NEW total \in Sizes, NEW n \in 0 .. total,
         FirstPortion(t, total, n)
  PROVE  MessageInv'
  <1> DEFINE id == 3 - incoming.id
             to == SubscriptionOf(t)
             w == IncomingPublish(t, total)
  <1>1. to \in Subscriptions \cup {None}
    BY DEF SubscriptionOf, MessageInv, MessageTypes
  <1>2. id \in {1, 2} /\ total \in Nat /\ 0 + n = n
    BY SizesAssumption DEF MessageInv, MessageTypes
  <1>3. /\ incoming' = [id |-> id, topic |-> t, total |-> total, got |-> n, to |-> to]
        /\ Returned(IncomingData(w, Bytes(id, 0, n), n = total))
    BY DEF FirstPortion, MessageInv
  <1>4. IsWork(w)
    <2>1. CASE to # None
      <3>1. w = [active |-> to, payload |-> [of |-> to, total |-> total, buffer |-> << >>],
                 received |-> FALSE]
        BY <2>1 DEF IncomingPublish
      <3> QED
        BY <3>1 DEF IsWork
    <2>2. CASE to = None
      <3>1. w = [active |-> None,
                 payload |-> [of |-> payload.of, total |-> payload.total,
                              buffer |-> payload.buffer],
                 received |-> FALSE]
        BY <2>2 DEF IncomingPublish, MessageInv, MessageTypes, IsPayload
      <3> QED
        BY <3>1 DEF IsWork
    <2> QED
      BY <2>1, <2>2
  <1>5. Begun(w, to, id, total, 0)
    <2>1. CASE to # None
      <3>1. w = [active |-> to, payload |-> [of |-> to, total |-> total, buffer |-> << >>],
                 received |-> FALSE]
        BY <2>1 DEF IncomingPublish
      <3>2. Least(0, Capacity[to]) = 0
        BY <1>1, <2>1, SubscriptionsAssumption DEF Least
      <3>3. Bytes(id, 0, 0) \in Seq(Octets) /\ Len(Bytes(id, 0, 0)) = 0
        BY <1>2, BytesAre
      <3>4. Bytes(id, 0, 0) = << >>
        BY <3>3, EmptySeq
      <3> QED
        BY <3>1, <3>2, <3>4 DEF Begun
    <2>2. CASE to = None
      <3>1. ~w.received /\ w.active = None
        BY <2>2 DEF IncomingPublish
      <3> QED
        BY <2>2, <3>1 DEF Begun
    <2> QED
      BY <2>1, <2>2
  <1>6. /\ mSubscriptions \subseteq Subscriptions
        /\ connection = "connected" => inpub
    BY DEF MessageInv, MessageTypes
  <1> HIDE DEF id, to, w
  <1>7. /\ incoming' = [id |-> id, topic |-> t, total |-> total, got |-> 0 + n,
                         to |-> to]
        /\ Returned(IncomingData(w, Bytes(id, 0, n), 0 + n = total))
    BY <1>2, <1>3
  <1>8. t \in Topics \cup {None} /\ n \in 0 .. total - 0 /\ 0 \in 0 .. total
    BY <1>2
  <1> QED
    BY <1>1, <1>2, <1>4, <1>5, <1>6, <1>7, <1>8, PortionKeeps

LEMMA NextPortionKeeps ==
  ASSUME MessageInv, NEW n \in 1 .. incoming.total, NextPortion(n)
  PROVE  MessageInv'
  <1> DEFINE id == incoming.id
             to == incoming.to
             total == incoming.total
             got == incoming.got
             topic == incoming.topic
             w == Current
  <1>1. /\ to \in Subscriptions \cup {None} /\ id \in {1, 2} /\ total \in Nat
        /\ topic \in Topics \cup {None}
        /\ got \in 0 .. total /\ n \in 0 .. total - got /\ n > 0 /\ got < total
        /\ mSubscriptions \subseteq Subscriptions
        /\ connection = "connected" => inpub
    BY DEF NextPortion, MessageInv, MessageTypes
  <1>2. /\ incoming' = [incoming EXCEPT !.got = @ + n]
        /\ Returned(IncomingData(w, Bytes(id, got, n), got + n = total))
    BY DEF NextPortion, MessageInv
  <1>3. incoming' = [id |-> id, topic |-> topic, total |-> total, got |-> got + n,
                     to |-> to]
    BY <1>2 DEF MessageInv, MessageTypes
  <1>4. IsWork(w)
    <2>1. w = [active |-> mActiveSubscription,
               payload |-> [of |-> payload.of, total |-> payload.total,
                            buffer |-> payload.buffer],
               received |-> received]
      BY DEF Current, MessageInv, MessageTypes, IsPayload
    <2> QED
      BY <2>1 DEF IsWork
  <1>5. Begun(w, to, id, total, got)
    <2>1. /\ w.active = mActiveSubscription /\ w.payload = payload
          /\ w.received = received
      BY DEF Current
    <2>2. InProgress /\ got < total
      BY <1>1 DEF MessageInv
    <2> QED
      BY <2>1, <2>2 DEF InProgress, Begun
  <1> HIDE DEF id, to, total, got, topic, w
  <1> QED
    <2>1. to \in Subscriptions \cup {None} /\ id \in {1, 2} /\ total \in Nat
      BY <1>1
    <2>2. got \in 0 .. total /\ n \in 0 .. total - got /\ topic \in Topics \cup {None}
      BY <1>1
    <2>3. Returned(IncomingData(w, Bytes(id, got, n), got + n = total))
      BY <1>2
    <2>4. /\ mSubscriptions \subseteq Subscriptions
          /\ connection = "connected" => inpub
      BY <1>1
    <2> QED
      BY <1>3, <1>4, <1>5, <2>1, <2>2, <2>3, <2>4, PortionKeeps

\* Steps that leave the messages alone.
LEMMA NoPortionKeeps ==
  ASSUME MessageInv, UNCHANGED inbound, mSubscriptions' \subseteq Subscriptions,
         connection' = "connected" => inpub'
  PROVE  MessageInv'
  <1>1. UNCHANGED <<mActiveSubscription, payload, received, incoming>>
    BY DEF inbound
  <1>2. MessageTypes'
    <2>1. IsPayload(payload)'
      BY <1>1 DEF MessageInv, MessageTypes, IsPayload
    <2> QED
      BY <1>1, <2>1 DEF MessageInv, MessageTypes
  <1> QED
    BY <1>1, <1>2 DEF MessageInv, InProgress, MessagesHandled

LEMMA MessagesInductive == Spec => []MessageInv
  <1>1. Init => MessageInv
    <2> SUFFICES ASSUME Init PROVE MessageInv
      OBVIOUS
    <2>1. /\ incoming = [id |-> 1, topic |-> None, total |-> 0, got |-> 0, to |-> None]
          /\ payload = [of |-> None, total |-> 0, buffer |-> << >>]
          /\ ~received /\ connection = "disconnected" /\ mSubscriptions = {}
      BY DEF Init, NoMessage
    <2>2. MessageTypes
      <3>1. IsPayload(payload)
        BY <2>1 DEF IsPayload
      <3> QED
        BY <2>1, <3>1 DEF MessageTypes
    <2> QED
      BY <2>1, <2>2 DEF MessageInv, InProgress, MessagesHandled
  <1>2. MessageInv /\ [Next]_vars => MessageInv'
    <2> SUFFICES ASSUME MessageInv, [Next]_vars PROVE MessageInv'
      OBVIOUS
    <2>0. mSubscriptions \subseteq Subscriptions /\ (connection = "connected" => inpub)
      BY DEF MessageInv, MessageTypes
    <2>1. ASSUME NEW s \in Subscriptions, RegisterSubscription(s)
          PROVE  MessageInv'
      BY <2>0, <2>1, NoPortionKeeps DEF RegisterSubscription
    <2>2. CASE Service
      BY <2>0, <2>2, NoPortionKeeps DEF Service, HealthCheck, Connect, Connected
    <2>3. CASE TcpConnected \/ Accepted \/ Publish \/ PublishRequestCb
      BY <2>0, <2>3, NoPortionKeeps DEF TcpConnected, Accepted, Publish, PublishRequestCb
    <2>4. CASE Closed
      <3>1. /\ incoming' = [NoMessage EXCEPT !.id = incoming.id] /\ ~received'
            /\ UNCHANGED <<mSubscriptions, payload>>
            /\ connection' = "disconnected"
        BY <2>4 DEF Closed
      <3>2. incoming' = [id |-> incoming.id, topic |-> None, total |-> 0, got |-> 0,
                         to |-> None]
        BY <3>1 DEF NoMessage
      <3>3. MessageTypes'
        <4>1. IsPayload(payload) /\ incoming.id \in {1, 2}
          BY DEF MessageInv, MessageTypes
        <4>2. IsPayload(payload)'
          BY <3>1, <4>1 DEF IsPayload
        <4>3. incoming' \in [id: {1, 2}, topic: Topics \cup {None}, total: Nat, got: Nat,
                             to: Subscriptions \cup {None}]
          BY <3>2, <4>1
        <4>4. incoming'.got <= incoming'.total
          BY <3>2
        <4> QED
          BY <2>0, <3>1, <4>2, <4>3, <4>4, Zenon DEF MessageTypes
      <3> QED
        BY <3>1, <3>2, <3>3 DEF MessageInv, InProgress, MessagesHandled
    <2>5. ASSUME NEW s \in Subscriptions,
                 (\E ok \in BOOLEAN : Suback(s, ok)) \/ RequestTimeout(s)
          PROVE  MessageInv'
      BY <2>0, <2>5, NoPortionKeeps DEF Suback, RequestTimeout
    <2>6. CASE Message
      BY <2>6, FirstPortionKeeps, NextPortionKeeps DEF Message
    <2>7. CASE UNCHANGED vars
      BY <2>0, <2>7, NoPortionKeeps DEF vars, inbound
    <2> QED
      BY <2>1, <2>2, <2>3, <2>4, <2>5, <2>6, <2>7 DEF Next
  <1> QED
    BY <1>1, <1>2, PTL DEF Spec

(***************************************************************************)
(* receivedPayload is called exactly for the messages that arrived whole   *)
(* for a subscription whose buffer they fit, and finds their bytes there,  *)
(* whatever the portions, and whatever came before                         *)
(* (MqttClient.cpp:107-162).                                               *)
(***************************************************************************)
THEOREM WholeMessagesOnly == Spec => []MessagesHandled
  <1>1. MessageInv => MessagesHandled
    BY DEF MessageInv
  <1> QED
    BY MessagesInductive, <1>1, PTL
-----------------------------------------------------------------------------
(* Types and limits *)

\* The requests lwIP holds for subscriptions, a pair each.
InFlight == {r \in Subscriptions \X Nat : 1 <= r[2] /\ r[2] <= pending[r[1]]}

\* lwIP's pool: every request is free, a subscription's, or a publication's.
RequestsCounted ==
    /\ pending \in [Subscriptions -> Nat] /\ free \in Nat /\ publishing \in Nat
    /\ IsFiniteSet(InFlight)
    /\ Cardinality(InFlight) + publishing + free = MaxInFlight

\* The subscription that is active owns the payload, which fits its buffer.
PayloadFits(active, p) ==
    /\ p.total \in Sizes \cup {0}
    /\ p.of \in Subscriptions \cup {None}
    /\ p.buffer \in Seq(Octets)
    /\ active \in {None, p.of}
    /\ p.of # None => Len(p.buffer) <= Capacity[p.of]

FlagTypes ==
    /\ mSubscriptions \subseteq Subscriptions
    /\ subscribed \in [Subscriptions -> BOOLEAN]
    /\ connection \in {"disconnected", "tcp", "mqtt", "connected"}
    /\ inpub \in BOOLEAN
    /\ granted \subseteq Topics

TypeInv ==
    /\ FlagTypes
    /\ RequestsCounted
    /\ PayloadFits(mActiveSubscription, payload) /\ received \in BOOLEAN

LEMMA TypeInvGivesTypes == TypeInv => TypeOK
  <1> SUFFICES ASSUME TypeInv PROVE TypeOK
    OBVIOUS
  <1>1. ASSUME NEW s \in Subscriptions PROVE pending[s] \in 0 .. MaxInFlight
    <2> DEFINE n == pending[s]
               pair == [i \in 1 .. n |-> <<s, i>>]
    <2>1. n \in Nat
      BY DEF TypeInv, RequestsCounted
    <2>2. pair \in Injection(1 .. n, InFlight)
      <3>1. \A i \in 1 .. n : <<s, i>> \in InFlight
        BY <2>1 DEF InFlight
      <3> QED
        BY <3>1 DEF Injection, IsInjective
    <2>3. Cardinality(1 .. n) <= Cardinality(InFlight) /\ Cardinality(InFlight) \in Nat
      BY <2>2, FS_Injection, FS_CardinalityType DEF TypeInv, RequestsCounted
    <2>4. Cardinality(1 .. n) = n
      BY <2>1, FS_Interval
    <2> QED
      BY <2>1, <2>3, <2>4, LimitsAssumption DEF TypeInv, RequestsCounted
  <1>2. Cardinality(InFlight) \in Nat
    BY FS_CardinalityType DEF TypeInv, RequestsCounted
  <1>3. pending \in [Subscriptions -> 0 .. MaxInFlight]
    BY <1>1 DEF TypeInv, RequestsCounted
  <1>4. free \in 0 .. MaxInFlight /\ publishing \in 0 .. MaxInFlight
    BY <1>2, LimitsAssumption DEF TypeInv, RequestsCounted
  <1> QED
    BY <1>3, <1>4 DEF TypeInv, FlagTypes, PayloadFits, TypeOK

\* Subscribing takes a free request for each subscription it queues.
LEMMA SubscribeCounts ==
  ASSUME RequestsCounted, NEW wanted \in SUBSET Subscriptions, NEW up \in BOOLEAN,
         Subscribe(wanted, up), UNCHANGED publishing
  PROVE  RequestsCounted'
  <1>1. PICK queued \in SUBSET wanted :
           /\ Cardinality(queued) <= free
           /\ free' = free - Cardinality(queued)
           /\ pending' = [s \in Subscriptions |->
                             IF s \in queued THEN pending[s] + 1 ELSE pending[s]]
    BY DEF Subscribe
  <1> DEFINE new == {r \in Subscriptions \X Nat :
                        r[1] \in queued /\ r[2] = pending[r[1]] + 1}
             pair == [s \in queued |-> <<s, pending[s] + 1>>]
  <1>2. IsFiniteSet(queued) /\ Cardinality(queued) \in Nat
    BY FS_Subset, FS_CardinalityType, SubscriptionsAssumption
  <1>3. \A s \in Subscriptions : pending[s] \in Nat
    BY DEF RequestsCounted
  <1>4. IsFiniteSet(new) /\ Cardinality(new) = Cardinality(queued)
    <2>1. \A s \in queued : pair[s] \in new
      BY <1>3
    <2>2. \A r \in new : r[1] \in queued /\ pair[r[1]] = r
      OBVIOUS
    <2>3. pair \in Bijection(queued, new)
      BY <2>1, <2>2 DEF Bijection, Injection, Surjection, IsInjective
    <2>4. ExistsBijection(queued, new)
      BY <2>3 DEF ExistsBijection
    <2> QED
      BY <1>2, <2>4, FS_Bijection
  <1>5. InFlight' = InFlight \cup new
    <2>1. ASSUME NEW s \in Subscriptions, NEW i \in Nat
          PROVE  <<s, i>> \in InFlight' <=> <<s, i>> \in InFlight \cup new
      <3>1. pending'[s] = IF s \in queued THEN pending[s] + 1 ELSE pending[s]
        BY <1>1
      <3>2. pending[s] \in Nat
        BY <1>3
      <3> QED
        BY <3>1, <3>2 DEF InFlight
    <2> QED
      BY <2>1 DEF InFlight
  <1>6. InFlight \cap new = {}
    BY <1>3 DEF InFlight
  <1> HIDE DEF new
  <1>7. /\ IsFiniteSet(InFlight')
        /\ Cardinality(InFlight') = Cardinality(InFlight) + Cardinality(queued)
    <2>1. IsFiniteSet(InFlight) /\ Cardinality(InFlight) \in Nat
      BY FS_CardinalityType DEF RequestsCounted
    <2>2. Cardinality(InFlight \cap new) = 0
      BY <1>6, FS_EmptySet, Zenon
    <2>3. /\ IsFiniteSet(InFlight \cup new)
          /\ Cardinality(InFlight \cup new)
                = Cardinality(InFlight) + Cardinality(new) - Cardinality(InFlight \cap new)
      BY <1>4, <2>1, FS_Union, Zenon
    <2> QED
      BY <1>2, <1>4, <1>5, <2>1, <2>2, <2>3
  <1>8. Cardinality(InFlight) \in Nat
    BY FS_CardinalityType DEF RequestsCounted
  <1>9. pending' \in [Subscriptions -> Nat]
    BY <1>1, <1>3
  <1> QED
    BY <1>1, <1>2, <1>7, <1>8, <1>9, LimitsAssumption DEF RequestsCounted

\* A request taken out of the queue is free again.
LEMMA TakenCounts ==
  ASSUME RequestsCounted, NEW s \in Subscriptions, Taken(s)
  PROVE  RequestsCounted'
  <1>1. /\ pending[s] > 0 /\ pending' = [pending EXCEPT ![s] = @ - 1]
        /\ free' = free + 1 /\ publishing' = publishing
    BY DEF Taken
  <1>2. \A r \in Subscriptions : pending[r] \in Nat
    BY DEF RequestsCounted
  <1>3. \A r \in Subscriptions :
           pending'[r] = IF r = s THEN pending[s] - 1 ELSE pending[r]
    BY <1>1 DEF RequestsCounted
  <1>4. InFlight' = InFlight \ {<<s, pending[s]>>} /\ <<s, pending[s]>> \in InFlight
    <2>1. ASSUME NEW r \in Subscriptions, NEW i \in Nat
          PROVE  <<r, i>> \in InFlight' <=> <<r, i>> \in InFlight \ {<<s, pending[s]>>}
      <3>1. pending'[r] = IF r = s THEN pending[s] - 1 ELSE pending[r]
        BY <1>3
      <3>2. pending[r] \in Nat
        BY <1>2
      <3> QED
        BY <3>1, <3>2 DEF InFlight
    <2>2. <<s, pending[s]>> \in InFlight
      BY <1>1, <1>2 DEF InFlight
    <2> QED
      BY <2>1, <2>2 DEF InFlight
  <1>5. IsFiniteSet(InFlight') /\ Cardinality(InFlight') = Cardinality(InFlight) - 1
    BY <1>4, FS_RemoveElement DEF RequestsCounted
  <1>6. Cardinality(InFlight) \in Nat
    BY FS_CardinalityType DEF RequestsCounted
  <1>7. pending' \in [Subscriptions -> Nat]
    BY <1>1, <1>2, <1>3 DEF RequestsCounted
  <1> QED
    BY <1>1, <1>5, <1>6, <1>7, LimitsAssumption DEF RequestsCounted

LEMMA PoolUnused ==
  ASSUME pending = [s \in Subscriptions |-> 0], publishing = 0, free = MaxInFlight
  PROVE  RequestsCounted
  <1>1. InFlight = {}
    BY DEF InFlight
  <1> QED
    BY <1>1, FS_EmptySet, LimitsAssumption DEF RequestsCounted

\* incomingData copies no more than the buffer has room for.
LEMMA PortionFits ==
  ASSUME NEW w, IsWork(w), PayloadFits(w.active, w.payload), w.received \in BOOLEAN,
         NEW data \in Seq(Octets), NEW last \in BOOLEAN
  PROVE  LET v == IncomingData(w, data, last)
         IN  PayloadFits(v.active, v.payload) /\ v.received \in BOOLEAN
  <1> DEFINE v == IncomingData(w, data, last)
  <1>0. PICK a, o, t, b, r :
          w = [active |-> a, payload |-> [of |-> o, total |-> t, buffer |-> b],
               received |-> r]
    BY DEF IsWork
  <1>1. CASE a = None
    BY <1>0, <1>1 DEF IncomingData
  <1>2. CASE a # None
    <2> DEFINE room == Capacity[a] - Len(b)
               size == IF Len(data) < room THEN Len(data) ELSE room
               buffer == b \o SubSeq(data, 1, size)
               copied == [active |-> a,
                          payload |-> [of |-> o, total |-> t, buffer |-> buffer],
                          received |-> r]
    <2>1. /\ a = o /\ o \in Subscriptions /\ t \in Sizes \cup {0} /\ r \in BOOLEAN
          /\ b \in Seq(Octets) /\ Len(b) <= Capacity[a] /\ Capacity[a] \in Nat
      BY <1>0, <1>2, SubscriptionsAssumption DEF PayloadFits
    <2>2. size \in 0 .. Len(data) /\ Len(b) + size <= Capacity[a]
      BY <2>1
    <2>3. buffer \in Seq(Octets) /\ Len(buffer) <= Capacity[a]
      <3>1. \A i \in 1 .. size : data[i] \in Octets
        BY <2>2, ElementOfSeq
      <3>2. SubSeq(data, 1, size) \in Seq(Octets) /\ Len(SubSeq(data, 1, size)) = size
        BY <2>2, <3>1, SubSeqProperties
      <3> QED
        BY <2>1, <2>2, <3>2, ConcatProperties
    <2> HIDE DEF buffer
    <2>4. v = copied \/ v = [copied EXCEPT !.active = None, !.received = TRUE]
      <3>1. [w EXCEPT !.payload.buffer = @ \o SubSeq(data, 1, size)] = copied
        <4> HIDE DEF size, v
        <4>1. w = [active |-> a, payload |-> [of |-> o, total |-> t, buffer |-> b],
                   received |-> r]
          BY <1>0
        <4>2. [w EXCEPT !.payload.buffer = @ \o SubSeq(data, 1, size)]
                 = [w EXCEPT !.payload.buffer = b \o SubSeq(data, 1, size)]
          BY ONLY <4>1
        <4>3. [w EXCEPT !.payload.buffer = b \o SubSeq(data, 1, size)]
                 = [w EXCEPT !.payload.buffer = buffer]
          BY ONLY Zenon DEF buffer
        <4>4. [w EXCEPT !.payload.buffer = buffer] = copied
          BY ONLY <4>1 DEF copied
        <4> QED
          BY ONLY <4>2, <4>3, <4>4, Zenon
      <3> HIDE DEF copied
      <3>2. w.active = a /\ w.payload.buffer = b
        BY <1>0
      <3> QED
        BY <1>2, <3>1, <3>2, Zenon DEF IncomingData
    <2>5. /\ v.active \in {a, None} /\ v.received \in BOOLEAN
          /\ v.payload = [of |-> o, total |-> t, buffer |-> buffer]
      <3> HIDE DEF v, copied
      <3>2. CASE v = copied
        BY <2>1, <3>2 DEF copied
      <3>3. CASE v # copied
        <4>1. v = [active |-> None, payload |-> [of |-> o, total |-> t, buffer |-> buffer],
                   received |-> TRUE]
          BY <2>4, <3>3 DEF copied
        <4> QED
          BY <4>1
      <3> QED
        BY <3>2, <3>3
    <2> HIDE DEF v
    <2>6. PayloadFits(v.active, v.payload)
      BY <1>2, <2>1, <2>3, <2>5 DEF PayloadFits
    <2> QED
      BY <2>5, <2>6 DEF v
  <1> QED
    BY <1>1, <1>2

LEMMA FirstPortionFits ==
  ASSUME MessageInv, TypeInv, NEW t \in Topics, NEW total \in Sizes,
         NEW n \in 0 .. total, FirstPortion(t, total, n)
  PROVE  PayloadFits(mActiveSubscription, payload)' /\ received' \in BOOLEAN
  <1> DEFINE id == 3 - incoming.id
             to == SubscriptionOf(t)
             w == IncomingPublish(t, total)
             v == IncomingData(w, Bytes(id, 0, n), n = total)
  <1>1. to \in Subscriptions \cup {None}
    BY DEF SubscriptionOf, MessageInv, MessageTypes
  <1>2. id \in {1, 2} /\ n \in Nat
    BY SizesAssumption DEF MessageInv, MessageTypes
  <1>3. Returned(v)
    BY DEF FirstPortion, MessageInv
  <1>4. IsWork(w) /\ PayloadFits(w.active, w.payload) /\ w.received \in BOOLEAN
    <2>1. CASE to # None
      <3>1. w = [active |-> to, payload |-> [of |-> to, total |-> total, buffer |-> << >>],
                 received |-> FALSE]
        BY <2>1 DEF IncomingPublish
      <3>2. Len(<< >>) <= Capacity[to]
        BY <1>1, <2>1, SubscriptionsAssumption
      <3>3. IsWork(w)
        BY <3>1 DEF IsWork
      <3>4. /\ w.active = to /\ w.received = FALSE
            /\ w.payload = [of |-> to, total |-> total, buffer |-> << >>]
        BY <3>1
      <3> HIDE DEF w, to
      <3>5. PayloadFits(w.active, w.payload)
        BY <1>1, <3>2, <3>4 DEF PayloadFits
      <3> QED
        BY <3>3, <3>4, <3>5
    <2>2. CASE to = None
      <3>1. w = [active |-> None,
                 payload |-> [of |-> payload.of, total |-> payload.total,
                              buffer |-> payload.buffer],
                 received |-> FALSE]
        BY <2>2 DEF IncomingPublish, MessageInv, MessageTypes, IsPayload
      <3> HIDE DEF w, v, id, to
      <3>2. IsWork(w)
        BY <3>1 DEF IsWork
      <3>3. w.active = None /\ w.received = FALSE /\ w.payload = payload
        BY <3>1 DEF MessageInv, MessageTypes, IsPayload
      <3> QED
        BY <3>2, <3>3 DEF PayloadFits, TypeInv
    <2> QED
      BY <2>1, <2>2
  <1>5. Bytes(id, 0, n) \in Seq(Octets)
    BY <1>2, BytesAre
  <1> HIDE DEF id, w
  <1>6. PayloadFits(v.active, v.payload) /\ v.received \in BOOLEAN
    BY <1>4, <1>5, PortionFits
  <1> QED
    BY <1>3, <1>6 DEF Returned, PayloadFits

LEMMA NextPortionFits ==
  ASSUME MessageInv, TypeInv, NEW n \in 1 .. incoming.total, NextPortion(n)
  PROVE  PayloadFits(mActiveSubscription, payload)' /\ received' \in BOOLEAN
  <1> DEFINE data == Bytes(incoming.id, incoming.got, n)
             v == IncomingData(Current, data, incoming.got + n = incoming.total)
  <1>1. Returned(v)
    BY DEF NextPortion, MessageInv
  <1>2. data \in Seq(Octets)
    <2>1. incoming.id \in {1, 2} /\ incoming.got \in Nat /\ n \in Nat
      BY DEF MessageInv, MessageTypes
    <2> QED
      BY <2>1, BytesAre
  <1>3. /\ IsWork(Current) /\ PayloadFits(Current.active, Current.payload)
        /\ Current.received \in BOOLEAN
    <2>1. Current = [active |-> mActiveSubscription,
                     payload |-> [of |-> payload.of, total |-> payload.total,
                                  buffer |-> payload.buffer],
                     received |-> received]
      BY DEF Current, MessageInv, MessageTypes, IsPayload
    <2> QED
      BY <2>1 DEF IsWork, PayloadFits, TypeInv
  <1> HIDE DEF data
  <1>4. PayloadFits(v.active, v.payload) /\ v.received \in BOOLEAN
    BY <1>2, <1>3, PortionFits
  <1> QED
    BY <1>1, <1>4 DEF Returned, PayloadFits

LEMMA TypesInductive == Spec => []TypeInv
  <1>1. Init => TypeInv
    <2> SUFFICES ASSUME Init PROVE TypeInv
      OBVIOUS
    <2>1. RequestsCounted
      BY PoolUnused DEF Init
    <2>2. PayloadFits(mActiveSubscription, payload)
      BY SubscriptionsAssumption DEF Init, PayloadFits
    <2> QED
      BY <2>1, <2>2 DEF Init, TypeInv, FlagTypes
  <1>2. MessageInv /\ MessageInv' /\ SubscriptionInv' /\ TypeInv /\ [Next]_vars
           => TypeInv'
    <2> SUFFICES ASSUME MessageInv, SubscriptionInv', TypeInv, [Next]_vars
                 PROVE  TypeInv'
      OBVIOUS
    <2>0. /\ mSubscriptions' \subseteq Subscriptions
          /\ subscribed' \in [Subscriptions -> BOOLEAN]
      BY DEF SubscriptionInv, SubscriptionTypes
    <2>1. FlagTypes'
      <3>1. /\ connection' \in {"disconnected", "tcp", "mqtt", "connected"}
            /\ inpub' \in BOOLEAN
        <4>1. CASE Service \/ TcpConnected \/ Accepted \/ Closed
          BY <4>1 DEF Service, HealthCheck, Connect, TcpConnected, Accepted, Closed,
                      TypeInv, FlagTypes
        <4>2. CASE UNCHANGED <<connection, inpub>>
          BY <4>2 DEF TypeInv, FlagTypes
        <4> QED
          BY <4>1, <4>2
          DEF Next, RegisterSubscription, Suback, RequestTimeout, Publish,
              PublishRequestCb, Message, FirstPortion, NextPortion, Returned, vars
      <3>2. granted' \subseteq Topics
        <4>1. ASSUME NEW s \in Subscriptions,
                     (\E ok \in BOOLEAN : Suback(s, ok)) \/ RequestTimeout(s)
              PROVE  granted' \subseteq Topics
          <5>1. Topic[s] \in Topics /\ granted \subseteq Topics
            BY SubscriptionsAssumption DEF TypeInv, FlagTypes
          <5>2. granted' \in {granted, granted \cup {Topic[s]}}
            BY <4>1 DEF Suback, RequestTimeout
          <5> QED
            BY <5>1, <5>2
        <4>2. CASE granted' \in {granted, {}}
          BY <4>2 DEF TypeInv, FlagTypes
        <4> QED
          BY <4>1, <4>2
          DEF Next, RegisterSubscription, Service, HealthCheck, TcpConnected, Accepted,
              Closed, Publish, PublishRequestCb, Message, FirstPortion, NextPortion,
              Returned, vars
      <3> QED
        BY <2>0, <3>1, <3>2 DEF FlagTypes
    <2>2. RequestsCounted'
      <3>1. ASSUME NEW s \in Subscriptions, RegisterSubscription(s)
            PROVE  RequestsCounted'
        BY <3>1, SubscribeCounts DEF RegisterSubscription, TypeInv
      <3>2. CASE Service
        <4>1. {s \in mSubscriptions : ~subscribed[s]} \in SUBSET Subscriptions
          BY DEF TypeInv, FlagTypes
        <4> QED
          BY <3>2, <4>1, SubscribeCounts DEF Service, HealthCheck, TypeInv
      <3>3. CASE Accepted
        BY <3>3, SubscribeCounts DEF Accepted, TypeInv, FlagTypes
      <3>4. CASE Closed
        <4>1. /\ pending' = [s \in Subscriptions |-> 0] /\ publishing' = 0
              /\ free' = MaxInFlight
          BY <3>4 DEF Closed
        <4>2. InFlight' = {}
          BY <4>1 DEF InFlight
        <4> QED
          BY <4>1, <4>2, FS_EmptySet, LimitsAssumption DEF RequestsCounted
      <3>5. ASSUME NEW s \in Subscriptions,
                   (\E ok \in BOOLEAN : Suback(s, ok)) \/ RequestTimeout(s)
            PROVE  RequestsCounted'
        BY <3>5, TakenCounts DEF Suback, RequestTimeout, TypeInv
      <3>6. ASSUME UNCHANGED pending, free' \in Nat, publishing' \in Nat,
                   free' + publishing' = free + publishing
            PROVE  RequestsCounted'
        <4>1. InFlight' = InFlight
          BY <3>6 DEF InFlight
        <4>2. Cardinality(InFlight) \in Nat
          BY FS_CardinalityType DEF TypeInv, RequestsCounted
        <4>3. IsFiniteSet(InFlight') /\ Cardinality(InFlight') = Cardinality(InFlight)
          BY <4>1, Zenon DEF TypeInv, RequestsCounted
        <4>4. Cardinality(InFlight) + publishing + free = MaxInFlight
              /\ free \in Nat /\ publishing \in Nat
          BY DEF TypeInv, RequestsCounted
        <4>5. PICK f \in Nat, p \in Nat : f = free' /\ p = publishing'
          BY <3>6, Zenon
        <4>6. f + p = free + publishing
          BY <3>6, <4>5, Zenon
        <4>7. Cardinality(InFlight) + p + f = MaxInFlight
          BY <4>2, <4>4, <4>6
        <4>8. Cardinality(InFlight') + publishing' + free' = MaxInFlight
          BY <4>3, <4>5, <4>7, Zenon
        <4> QED
          BY <3>6, <4>3, <4>8 DEF TypeInv, RequestsCounted
      <3>7. CASE TcpConnected \/ Publish \/ PublishRequestCb \/ Message \/ UNCHANGED vars
        <4>1. free \in Nat /\ publishing \in Nat
          BY DEF TypeInv, RequestsCounted
        <4>2. CASE Publish
          BY <3>6, <4>1, <4>2 DEF Publish
        <4>3. CASE PublishRequestCb
          BY <3>6, <4>1, <4>3 DEF PublishRequestCb
        <4>4. CASE UNCHANGED requests
          BY <3>6, <4>1, <4>4 DEF requests
        <4> QED
          BY <3>7, <4>2, <4>3, <4>4
          DEF TcpConnected, Message, FirstPortion, NextPortion, Returned, vars
      <3> QED
        BY <3>1, <3>2, <3>3, <3>4, <3>5, <3>7 DEF Next
    <2>3. PayloadFits(mActiveSubscription, payload)' /\ received' \in BOOLEAN
      <3>1. ASSUME UNCHANGED <<mActiveSubscription, payload>>, received' \in BOOLEAN
            PROVE  PayloadFits(mActiveSubscription, payload)' /\ received' \in BOOLEAN
        BY <3>1 DEF TypeInv, PayloadFits
      <3>2. CASE Message
        BY <3>2, FirstPortionFits, NextPortionFits DEF Message
      <3>3. CASE ~Message
        BY <3>1, <3>3
        DEF TypeInv, Next, RegisterSubscription, Service, HealthCheck, TcpConnected,
            Accepted, Closed, Suback, RequestTimeout, Publish, PublishRequestCb, vars,
            inbound
      <3> QED
        BY <3>2, <3>3
    <2> QED
      BY <2>1, <2>2, <2>3 DEF TypeInv
  <1> QED
    BY <1>1, <1>2, MessagesInductive, SubscriptionsInductive, PTL DEF Spec

(***************************************************************************)
(* The state keeps its shape: nothing is copied past the end of a buffer   *)
(* (MqttClient.cpp:133-162), whatever sizes arrive for whichever           *)
(* subscription, and lwIP's pool of requests is never overdrawn.           *)
(***************************************************************************)
THEOREM TypesKept == Spec => []TypeOK
  BY TypesInductive, TypeInvGivesTypes, PTL
=============================================================================
