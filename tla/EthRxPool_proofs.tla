-------------------------- MODULE EthRxPool_proofs --------------------------
(***************************************************************************)
(* Proofs about EthRxPool: for any number of buffers and descriptors and   *)
(* frames over any number of buffers that fit, no buffer is lost or in two *)
(* places, packets are whole, and reception that is off will be switched   *)
(* on by whoever holds a packet.                                           *)
(***************************************************************************)
EXTENDS EthRxPool, SequenceTheorems, FiniteSetTheorems, TLAPS

\* Descriptor d is what the DMA fills after c.
Follows(c, d) ==
    IF IsLast(c) THEN d.part = 1 ELSE d.frame = c.frame /\ d.part = c.part + 1

Exists(d) == d.part \in 1 .. Len(Sizes[d.frame])

FilledInOrder ==
    /\ \A i \in 1 .. Len(filled) : Exists(filled[i])
    /\ \A i \in 1 .. Len(filled) - 1 : Follows(filled[i], filled[i + 1])

PartialInOrder ==
    partial # <<>> =>
        /\ InOrder(partial)
        /\ partial[1].part = 1
        /\ Exists(partial[Len(partial)])

\* The filled descriptors go on where the packet linked up to now ends.
FilledFollow ==
    filled # <<>> =>
        IF partial = <<>> THEN filled[1].part = 1
        ELSE Follows(partial[Len(partial)], filled[1])

\* The frame on the wire goes on where the last descriptor ends.
ArrivingAfter(d) ==
    IF IsLast(d) THEN arriving = <<>>
    ELSE Len(arriving) = d.part /\ \A i \in 1 .. Len(arriving) : arriving[i] = d.frame

ArrivingFollows ==
    IF filled # <<>> THEN ArrivingAfter(filled[Len(filled)])
    ELSE IF partial # <<>> THEN ArrivingAfter(partial[Len(partial)])
    ELSE arriving = <<>>

ReadyIsHandedOver == Ready => pc \in {"building", "returning"}

Orders ==
    /\ FilledInOrder
    /\ PartialInOrder
    /\ FilledFollow
    /\ ArrivingFollows
    /\ ReadyIsHandedOver
    /\ \A p \in held : RestOfFrame(p)

-----------------------------------------------------------------------------
(* Sequences *)

LEMMA BufsAre ==
  ASSUME NEW S, NEW s \in Seq(S), \A x \in S : x.buf \in Buffers
  PROVE  /\ Bufs(s) \in Seq(Buffers)
         /\ Len(Bufs(s)) = Len(s)
         /\ \A i \in 1 .. Len(s) : Bufs(s)[i] = s[i].buf
  <1>1. Len(s) \in Nat /\ \A i \in 1 .. Len(s) : s[i].buf \in Buffers
    OBVIOUS
  <1>2. Bufs(s) \in [1 .. Len(s) -> Buffers]
    BY <1>1 DEF Bufs
  <1> QED
    BY <1>1, <1>2 DEF Bufs

\* RxLinkCallback adds the descriptor's buffer at the end, and its length to
\* every total.
LEMMA Linked ==
  ASSUME NEW chain \in Seq(Pbufs), NEW d \in Descriptors, Exists(d)
  PROVE  LET c == RxLinkCallback(chain, d)
             n == Len(chain)
             size == Sizes[d.frame][d.part]
         IN  /\ size \in Nat
             /\ c \in Seq(Pbufs)
             /\ Len(c) = n + 1
             /\ \A i \in 1 .. n :
                   /\ c[i].buf = chain[i].buf
                   /\ c[i].frame = chain[i].frame
                   /\ c[i].part = chain[i].part
                   /\ c[i].len = chain[i].len
                   /\ c[i].tot_len = chain[i].tot_len + size
             /\ c[n + 1] = [buf |-> d.buf, frame |-> d.frame, part |-> d.part,
                            len |-> size, tot_len |-> size]
  <1> DEFINE n == Len(chain)
             size == Sizes[d.frame][d.part]
             linked == Append(chain, Pbuf(d))
             c == [i \in 1 .. Len(linked) |-> [linked[i] EXCEPT !.tot_len = @ + Pbuf(d).len]]
  <1>1. size \in Nat
    BY SizesAssumption DEF Descriptors, Exists
  <1>2. Pbuf(d) \in Pbufs /\ Pbuf(d).len = size /\ Pbuf(d).tot_len = 0
    BY <1>1 DEF Pbuf, Pbufs, Descriptors
  <1>3. /\ linked \in Seq(Pbufs) /\ Len(linked) = n + 1 /\ n \in Nat
        /\ \A i \in 1 .. n : linked[i] = chain[i]
        /\ linked[n + 1] = Pbuf(d)
    BY <1>2
  <1>4. \A i \in 1 .. n + 1 : linked[i] \in Pbufs
    BY <1>3
  <1>5. c = [i \in 1 .. n + 1 |-> [linked[i] EXCEPT !.tot_len = @ + size]]
    BY <1>2, <1>3
  <1>6. \A x \in Pbufs :
          LET y == [x EXCEPT !.tot_len = @ + size]
          IN  /\ y \in Pbufs
              /\ y.buf = x.buf
              /\ y.frame = x.frame
              /\ y.part = x.part
              /\ y.len = x.len
              /\ y.tot_len = x.tot_len + size
    BY <1>1 DEF Pbufs
  <1>7. c \in [1 .. n + 1 -> Pbufs]
    BY <1>4, <1>5, <1>6
  <1>8. c \in Seq(Pbufs) /\ Len(c) = n + 1
    BY <1>3, <1>7
  <1>9. c[n + 1] = [buf |-> d.buf, frame |-> d.frame, part |-> d.part,
                    len |-> size, tot_len |-> size]
    BY <1>1, <1>2, <1>3, <1>5 DEF Pbuf
  <1> HIDE DEF linked, c
  <1>10. \A i \in 1 .. n + 1 : c[i] = [linked[i] EXCEPT !.tot_len = @ + size]
    BY <1>5
  <1>11. \A i \in 1 .. n :
          /\ c[i].buf = chain[i].buf
          /\ c[i].frame = chain[i].frame
          /\ c[i].part = chain[i].part
          /\ c[i].len = chain[i].len
          /\ c[i].tot_len = chain[i].tot_len + size
    <2> SUFFICES ASSUME NEW i \in 1 .. n
                 PROVE  /\ c[i].buf = chain[i].buf
                        /\ c[i].frame = chain[i].frame
                        /\ c[i].part = chain[i].part
                        /\ c[i].len = chain[i].len
                        /\ c[i].tot_len = chain[i].tot_len + size
      OBVIOUS
    <2>1. i \in 1 .. n + 1 /\ linked[i] = chain[i] /\ linked[i] \in Pbufs
      BY <1>3, <1>4
    <2>2. c[i] = [chain[i] EXCEPT !.tot_len = @ + size]
      BY <1>10, <2>1
    <2> QED
      BY <1>6, <2>1, <2>2
  <1>12. RxLinkCallback(chain, d) = c
    BY DEF RxLinkCallback, c, linked
  <1> QED
    BY <1>1, <1>8, <1>9, <1>11, <1>12

LEMMA MoveHead ==
  ASSUME NEW S, NEW s \in Seq(S), NEW t \in Seq(S), t # <<>>
  PROVE  Append(s, Head(t)) \o Tail(t) = s \o t
  OBVIOUS

LEMMA OnceConcat ==
  ASSUME NEW S, NEW s \in Seq(S), NEW t \in Seq(S)
  PROVE  /\ Once(s \o t) <=> Once(s) /\ Once(t) /\ Apart(s, t)
         /\ \A u : Len(u) \in Nat => (Apart(u, s \o t) <=> Apart(u, s) /\ Apart(u, t))
         /\ \A u : Len(u) \in Nat => (Apart(s \o t, u) <=> Apart(s, u) /\ Apart(t, u))
         /\ \A b : In(b, s \o t) <=> In(b, s) \/ In(b, t)
  <1> DEFINE c == s \o t
             n == Len(s)
             m == Len(t)
  <1>1. /\ Len(c) = n + m /\ n \in Nat /\ m \in Nat
        /\ \A i \in 1 .. n : c[i] = s[i]
        /\ \A i \in n + 1 .. n + m : c[i] = t[i - n]
    BY ConcatProperties
  <1> HIDE DEF c
  <1>2. \A i \in 1 .. m : n + i \in n + 1 .. n + m /\ c[n + i] = t[i]
    BY <1>1
  <1>3. \A i \in 1 .. n + m : i \in 1 .. n \/ (i - n \in 1 .. m /\ c[i] = t[i - n] /\ i = n + (i - n))
    BY <1>1
  <1>4. Once(c) <=> Once(s) /\ Once(t) /\ Apart(s, t)
    <2>1. ASSUME Once(c) PROVE Once(s)
      BY <1>1, <2>1 DEF Once
    <2>2. ASSUME Once(c) PROVE Once(t)
      <3>1. ASSUME NEW i \in 1 .. m, NEW j \in 1 .. m, t[i] = t[j] PROVE i = j
        <4>1. n + i \in 1 .. Len(c) /\ n + j \in 1 .. Len(c) /\ c[n + i] = c[n + j]
          BY <1>1, <1>2, <3>1
        <4>2. n + i = n + j
          BY <2>2, <4>1 DEF Once
        <4> QED
          BY <1>1, <4>2
      <3> QED
        BY <3>1 DEF Once
    <2>3. ASSUME Once(c) PROVE Apart(s, t)
      <3>1. ASSUME NEW i \in 1 .. n, NEW j \in 1 .. m PROVE s[i] # t[j]
        <4>1. /\ i \in 1 .. Len(c) /\ n + j \in 1 .. Len(c) /\ i # n + j
              /\ c[i] = s[i] /\ c[n + j] = t[j]
          BY <1>1, <1>2
        <4> QED
          BY <2>3, <4>1 DEF Once
      <3> QED
        BY <3>1 DEF Apart
    <2>4. ASSUME Once(s), Once(t), Apart(s, t) PROVE Once(c)
      <3>1. ASSUME NEW i \in 1 .. n + m, NEW j \in 1 .. n + m, c[i] = c[j] PROVE i = j
        <4>1. CASE i \in 1 .. n /\ j \in 1 .. n
          BY <1>1, <2>4, <3>1, <4>1 DEF Once
        <4>2. CASE i \in 1 .. n /\ j \notin 1 .. n
          BY <1>1, <1>3, <2>4, <3>1, <4>2 DEF Apart
        <4>3. CASE i \notin 1 .. n /\ j \in 1 .. n
          BY <1>1, <1>3, <2>4, <3>1, <4>3 DEF Apart
        <4>4. CASE i \notin 1 .. n /\ j \notin 1 .. n
          <5>1. i - n = j - n
            BY <1>3, <2>4, <3>1, <4>4 DEF Once
          <5> QED
            BY <1>1, <5>1
        <4> QED
          BY <4>1, <4>2, <4>3, <4>4
      <3> QED
        BY <1>1, <3>1 DEF Once
    <2> QED
      BY <2>1, <2>2, <2>3, <2>4
  <1>5. ASSUME NEW u, Len(u) \in Nat PROVE Apart(u, c) <=> Apart(u, s) /\ Apart(u, t)
    BY <1>1, <1>2, <1>3, <1>5 DEF Apart
  <1>6. ASSUME NEW u, Len(u) \in Nat PROVE Apart(c, u) <=> Apart(s, u) /\ Apart(t, u)
    <2>1. ASSUME Apart(c, u) PROVE Apart(s, u) /\ Apart(t, u)
      <3>1. \A i \in 1 .. m, j \in 1 .. Len(u) : n + i \in 1 .. Len(c) /\ c[n + i] # u[j]
        BY <1>1, <1>2, <2>1 DEF Apart
      <3>2. \A i \in 1 .. n : i \in 1 .. Len(c)
        BY <1>1
      <3>3. Apart(t, u)
        BY <1>2, <3>1 DEF Apart
      <3>4. Apart(s, u)
        BY <1>1, <2>1, <3>2 DEF Apart
      <3> QED
        BY <3>3, <3>4
    <2>2. ASSUME Apart(s, u), Apart(t, u) PROVE Apart(c, u)
      <3>1. ASSUME NEW i \in 1 .. n + m, NEW j \in 1 .. Len(u) PROVE c[i] # u[j]
        <4>1. CASE i \in 1 .. n
          BY <1>1, <2>2, <4>1 DEF Apart
        <4>2. CASE i \notin 1 .. n
          BY <1>3, <2>2, <4>2 DEF Apart
        <4> QED
          BY <4>1, <4>2
      <3> QED
        BY <1>1, <3>1 DEF Apart
    <2> QED
      BY <2>1, <2>2
  <1>7. ASSUME NEW b PROVE In(b, c) <=> In(b, s) \/ In(b, t)
    <2>1. ASSUME In(b, c) PROVE In(b, s) \/ In(b, t)
      <3>1. PICK i \in 1 .. n + m : c[i] = b
        BY <1>1, <2>1 DEF In
      <3> QED
        BY <1>1, <1>3, <3>1 DEF In
    <2>2. ASSUME In(b, s) PROVE In(b, c)
      BY <1>1, <2>2 DEF In
    <2>3. ASSUME In(b, t) PROVE In(b, c)
      <3>1. PICK i \in 1 .. m : t[i] = b
        BY <2>3 DEF In
      <3>2. n + i \in 1 .. Len(c) /\ c[n + i] = b
        BY <1>1, <1>2, <3>1
      <3> QED
        BY <3>2 DEF In
    <2> QED
      BY <2>1, <2>2, <2>3
  <1> QED
    BY <1>4, <1>5, <1>6, <1>7 DEF c

-----------------------------------------------------------------------------
(* Types and orders *)

LEMMA HeadExists ==
  ASSUME TypeOK, FilledInOrder, filled # <<>>
  PROVE  /\ Head(filled) \in Descriptors
         /\ Exists(Head(filled))
         /\ Head(filled) = filled[1]
         /\ Len(filled) \in Nat \ {0}
  BY DEF TypeOK, FilledInOrder

LEMMA InitOrders == Init => TypeOK /\ Orders
  <1> SUFFICES ASSUME Init PROVE TypeOK /\ Orders
    OBVIOUS
  <1>1. /\ armed = [i \in 1 .. DescCount |-> i]
        /\ armed \in [1 .. DescCount -> Buffers]
        /\ DescCount \in Nat
    BY CountsAssumption DEF Init, Buffers
  <1>2. armed \in Seq(Buffers) /\ Len(armed) = DescCount
    BY <1>1
  <1>3. /\ pool \in [1 .. BufferCount - DescCount -> Buffers]
        /\ BufferCount - DescCount \in Nat
    BY CountsAssumption DEF Init, Buffers
  <1>4. pool \in Seq(Buffers)
    BY <1>3
  <1>5. TypeOK
    BY <1>1, <1>2, <1>4 DEF Init, TypeOK
  <1>6. Orders
    BY DEF Init, Orders, FilledInOrder, PartialInOrder, FilledFollow, ArrivingFollows,
           ReadyIsHandedOver, Ready
  <1> QED
    BY <1>5, <1>6

LEMMA StepTypes == TypeOK /\ Orders /\ [Next]_vars => TypeOK'
  <1> SUFFICES ASSUME TypeOK, Orders, [Next]_vars
               PROVE  TypeOK'
    OBVIOUS
  <1>1. ASSUME NEW f \in Frames, Receive(f)
        PROVE  TypeOK'
    <2>1. Head(armed) \in Buffers /\ Tail(armed) \in Seq(Buffers)
          /\ Len(Tail(armed)) = Len(armed) - 1
      BY <1>1 DEF TypeOK, Receive
    <2>2. NextPart \in Nat
      BY DEF TypeOK, NextPart
    <2>3. Part(Head(armed), f, NextPart) \in Descriptors
      BY <2>1, <2>2 DEF Part, Descriptors
    <2>4. filled' \in Seq(Descriptors) /\ Len(filled') = Len(filled) + 1
      BY <1>1, <2>3 DEF TypeOK, Receive
    <2>5. arriving' \in Seq(Frames)
      BY <1>1 DEF TypeOK, Receive
    <2>6. Len(armed') + Len(filled') <= DescCount
      BY <1>1, <2>1, <2>4, CountsAssumption DEF TypeOK, Receive
    <2> QED
      BY <1>1, <2>1, <2>4, <2>5, <2>6 DEF TypeOK, Receive
  <1>2. CASE LowLevelInput
    BY <1>2 DEF TypeOK, LowLevelInput
  <1>3. CASE ReadDescriptor
    <2>1. partial' \in Seq(Pbufs)
      BY <1>3, HeadExists, Linked DEF TypeOK, Orders, ReadDescriptor
    <2>2. filled' \in Seq(Descriptors) /\ Len(filled') = Len(filled) - 1
      BY <1>3 DEF TypeOK, ReadDescriptor
    <2>3. Len(armed') + Len(filled') <= DescCount
      BY <1>3, <2>2, CountsAssumption DEF TypeOK, ReadDescriptor
    <2> QED
      BY <1>3, <2>1, <2>2, <2>3 DEF TypeOK, ReadDescriptor
  <1>4. CASE ReadNoMore
    BY <1>4 DEF TypeOK, ReadNoMore
  <1>5. CASE RxAllocateCallback
    <2>1. CASE Allocate
      <3>1. Head(pool) \in Buffers /\ pool' \in Seq(Buffers)
        BY <2>1 DEF TypeOK, Allocate
      <3>2. armed' \in Seq(Buffers) /\ Len(armed') = Len(armed) + 1
        BY <2>1, <3>1 DEF TypeOK, Allocate
      <3>3. Len(armed') + Len(filled') <= DescCount
        BY <1>5, <3>2, CountsAssumption DEF TypeOK, RxAllocateCallback, RxBuildDescCnt
      <3> QED
        BY <1>5, <2>1, <3>1, <3>2, <3>3 DEF TypeOK, RxAllocateCallback, Allocate
    <2>2. CASE PoolIsEmpty
      BY <1>5, <2>2 DEF TypeOK, RxAllocateCallback, PoolIsEmpty
    <2> QED
      BY <1>5, <2>1, <2>2 DEF RxAllocateCallback
  <1>6. CASE HandOver
    <2>1. partial' \in Seq(Pbufs) /\ held' \in SUBSET Seq(Pbufs)
      <3>1. CASE Ready
        BY <1>6, <3>1 DEF TypeOK, HandOver
      <3>2. CASE ~Ready
        BY <1>6, <3>2 DEF TypeOK, HandOver
      <3> QED
        BY <3>1, <3>2
    <2> QED
      BY <1>6, <2>1 DEF TypeOK, HandOver
  <1>7. ASSUME NEW p \in held, FreeFirst(p)
        PROVE  TypeOK'
    <2>1. p \in Seq(Pbufs) /\ p # <<>>
      BY DEF TypeOK, Orders, RestOfFrame
    <2>2. p[1] \in Pbufs /\ Tail(p) \in Seq(Pbufs)
      BY <2>1
    <2>3. pool' \in Seq(Buffers)
      BY <1>7, <2>2 DEF TypeOK, FreeFirst, pbufFreeCustom, Pbufs
    <2>4. held' \in SUBSET Seq(Pbufs)
      BY <1>7, <2>2 DEF TypeOK, FreeFirst
    <2> QED
      BY <1>7, <2>3, <2>4 DEF TypeOK, FreeFirst, pbufFreeCustom
  <1>8. CASE UNCHANGED vars
    BY <1>8 DEF TypeOK, vars
  <1> QED
    BY <1>1, <1>2, <1>3, <1>4, <1>5, <1>6, <1>7, <1>8 DEF Next, EthernetifInput, Free

\* A packet in order stays so when the descriptor that follows is linked to it.
LEMMA LinkedInOrder ==
  ASSUME NEW chain \in Seq(Pbufs), NEW d \in Descriptors, Exists(d),
         IF chain = <<>> THEN d.part = 1
         ELSE /\ InOrder(chain)
              /\ chain[1].part = 1
              /\ ~IsLast(chain[Len(chain)])
              /\ Follows(chain[Len(chain)], d)
  PROVE  LET c == RxLinkCallback(chain, d)
         IN  /\ c \in Seq(Pbufs) /\ c # <<>> /\ Len(c) \in Nat
             /\ InOrder(c)
             /\ c[1].part = 1
             /\ c[Len(c)].frame = d.frame
             /\ c[Len(c)].part = d.part
  <1> DEFINE c == RxLinkCallback(chain, d)
             n == Len(chain)
             size == Sizes[d.frame][d.part]
  <1>1. /\ size \in Nat
        /\ c \in Seq(Pbufs)
        /\ Len(c) = n + 1
        /\ \A i \in 1 .. n :
              /\ c[i].buf = chain[i].buf
              /\ c[i].frame = chain[i].frame
              /\ c[i].part = chain[i].part
              /\ c[i].len = chain[i].len
              /\ c[i].tot_len = chain[i].tot_len + size
        /\ c[n + 1] = [buf |-> d.buf, frame |-> d.frame, part |-> d.part,
                       len |-> size, tot_len |-> size]
    BY Linked
  <1>2. n \in Nat /\ (n = 0 <=> chain = <<>>)
    OBVIOUS
  <1> HIDE DEF c
  <1>3. CASE n = 0
    <2>1. Len(c) = 1 /\ c[1].frame = d.frame /\ c[1].part = d.part /\ d.part = 1
          /\ c[1].len = size /\ c[1].tot_len = size
      BY <1>1, <1>2, <1>3
    <2>2. \A i \in 1 .. Len(c) : i = 1 /\ ~(i < Len(c))
      BY <2>1
    <2>3. c[1].part = c[1].part + 1 - 1 /\ c[1].len = Sizes[c[1].frame][c[1].part]
          /\ c[1].tot_len = c[1].len + 0
      BY <1>1, <2>1
    <2>4. InOrder(c)
      BY <2>2, <2>3 DEF InOrder
    <2> QED
      BY <1>1, <2>1, <2>4 DEF c
  <1>4. CASE n > 0
    <2>1. /\ InOrder(chain)
          /\ chain[1].part = 1
          /\ d.frame = chain[n].frame
          /\ d.part = chain[n].part + 1
      BY <1>2, <1>4 DEF Follows
    <2>2. chain[n].frame = chain[1].frame /\ chain[n].part = n
      BY <1>2, <1>4, <2>1 DEF InOrder
    <2>3. /\ c[1].frame = chain[1].frame
          /\ c[1].part = 1
          /\ c[n + 1].frame = d.frame
          /\ c[n + 1].part = d.part
          /\ c[n + 1].len = size
          /\ c[n + 1].tot_len = size
      BY <1>1, <1>2, <1>4, <2>1
    <2>4. ASSUME NEW i \in 1 .. n + 1
          PROVE  /\ c[i].frame = c[1].frame
                 /\ c[i].part = c[1].part + i - 1
                 /\ c[i].len = Sizes[c[i].frame][c[i].part]
                 /\ c[i].tot_len = c[i].len + (IF i < n + 1 THEN c[i + 1].tot_len ELSE 0)
      <3>1. CASE i = n + 1
        BY <1>1, <1>2, <1>4, <2>1, <2>2, <2>3, <3>1
      <3>2. CASE i \in 1 .. n
        <4>1. /\ chain[i].frame = chain[1].frame
              /\ chain[i].part = i
              /\ chain[i].len = Sizes[chain[i].frame][chain[i].part]
              /\ chain[i].tot_len =
                    chain[i].len + (IF i < n THEN chain[i + 1].tot_len ELSE 0)
          BY <1>2, <2>1, <3>2 DEF InOrder
        <4>2. chain[i] \in Pbufs /\ (i < n => chain[i + 1] \in Pbufs)
          BY <1>2, <3>2
        <4>3. /\ chain[i].len \in Nat
              /\ i < n => chain[i + 1].tot_len \in Nat
          BY <4>2 DEF Pbufs
        <4>4. c[i + 1].tot_len = size + (IF i < n THEN chain[i + 1].tot_len ELSE 0)
          <5>1. CASE i < n
            BY <1>1, <1>2, <3>2, <4>3, <5>1
          <5>2. CASE i = n
            BY <1>1, <2>3, <5>2
          <5> QED
            BY <1>2, <3>2, <5>1, <5>2
        <4>5. c[i].tot_len = c[i].len + c[i + 1].tot_len
          BY <1>1, <3>2, <4>1, <4>3, <4>4
        <4>6. i < n + 1
          BY <1>2, <3>2
        <4> QED
          BY <1>1, <2>3, <3>2, <4>1, <4>5, <4>6
      <3> QED
        BY <1>2, <3>1, <3>2
    <2>5. InOrder(c)
      BY <1>1, <2>4 DEF InOrder
    <2> QED
      BY <1>1, <1>2, <2>3, <2>5 DEF c
  <1> QED
    BY <1>2, <1>3, <1>4

LEMMA NotEmpty ==
  ASSUME NEW S, NEW s \in Seq(S), Len(s) > 0
  PROVE  s # <<>>
  OBVIOUS

\* What is left after the first buffer is freed is still in order.
LEMMA TailInOrder ==
  ASSUME NEW p \in Seq(Pbufs), RestOfFrame(p), Len(p) > 1
  PROVE  RestOfFrame(Tail(p))
  <1>1. /\ Tail(p) \in Seq(Pbufs)
        /\ Len(p) \in Nat
        /\ Len(Tail(p)) = Len(p) - 1
        /\ \A i \in 1 .. Len(p) - 1 : Tail(p)[i] = p[i + 1] /\ i + 1 \in 1 .. Len(p)
    <2>1. p # <<>> /\ Len(p) \in Nat
      BY DEF RestOfFrame
    <2> QED
      BY <2>1, HeadTailProperties
  <1>2. Tail(p) # <<>> /\ Tail(p)[Len(Tail(p))] = p[Len(p)]
    <2> DEFINE m == Len(p) - 1
    <2>1. m \in 1 .. Len(p) - 1 /\ Len(p) = m + 1 /\ Len(Tail(p)) = m
      BY <1>1
    <2> HIDE DEF m
    <2>2. Len(Tail(p)) > 0
      BY <1>1
    <2>3. Tail(p)[m] = p[m + 1]
      BY <1>1, <2>1
    <2>4. Tail(p) # <<>>
      BY <1>1, <2>2, NotEmpty
    <2> QED
      BY <2>1, <2>3, <2>4
  <1>3. ASSUME NEW i \in 1 .. Len(p) - 1
        PROVE  /\ Tail(p)[i].frame = Tail(p)[1].frame
               /\ Tail(p)[i].part = Tail(p)[1].part + i - 1
               /\ Tail(p)[i].len = Sizes[Tail(p)[i].frame][Tail(p)[i].part]
               /\ Tail(p)[i].tot_len = Tail(p)[i].len
                     + (IF i < Len(p) - 1 THEN Tail(p)[i + 1].tot_len ELSE 0)
    <2>1. /\ Tail(p)[i] = p[i + 1] /\ Tail(p)[1] = p[2]
          /\ i < Len(p) - 1 => Tail(p)[i + 1] = p[i + 1 + 1]
          /\ i + 1 \in 1 .. Len(p) /\ 2 \in 1 .. Len(p)
      BY <1>1
    <2>2. /\ p[i + 1].frame = p[1].frame /\ p[2].frame = p[1].frame
          /\ p[i + 1].part = p[1].part + (i + 1) - 1 /\ p[2].part = p[1].part + 2 - 1
          /\ p[i + 1].len = Sizes[p[i + 1].frame][p[i + 1].part]
          /\ p[i + 1].tot_len = p[i + 1].len
                + (IF i + 1 < Len(p) THEN p[i + 1 + 1].tot_len ELSE 0)
      BY <2>1 DEF RestOfFrame, InOrder
    <2>3. p[1] \in Pbufs
      BY <1>1
    <2>4. p[1].part \in Nat
      BY <2>3 DEF Pbufs
    <2> QED
      BY <1>1, <2>1, <2>2, <2>4
  <1>4. InOrder(Tail(p))
    BY <1>1, <1>3 DEF InOrder
  <1> QED
    BY <1>2, <1>4 DEF RestOfFrame

\* The next part received follows the descriptor that ends where it begins.
LEMMA PartFollows ==
  ASSUME TypeOK, NEW f \in Frames, Receive(f), NEW d, d.part \in Nat, Exists(d),
         ArrivingAfter(d)
  PROVE  /\ Exists(Part(Head(armed), f, NextPart))
         /\ Follows(d, Part(Head(armed), f, NextPart))
  <1>1. /\ Part(Head(armed), f, NextPart).frame = f
        /\ Part(Head(armed), f, NextPart).part = Len(arriving) + 1
    BY DEF Part, NextPart
  <1>2. \A i \in 1 .. Len(arriving) : arriving[i] = f
    BY DEF Receive
  <1>3. Len(Sizes[f]) \in Nat /\ Len(Sizes[f]) > 0
    BY SizesAssumption
  <1>4. CASE IsLast(d)
    <2>1. Len(arriving) = 0
      BY <1>4 DEF ArrivingAfter
    <2> QED
      BY <1>1, <1>3, <1>4, <2>1 DEF Exists, Follows
  <1>5. CASE ~IsLast(d)
    <2>1. Len(arriving) = d.part /\ arriving[1] = d.frame /\ d.part \in 1 .. Len(Sizes[d.frame])
      BY <1>5 DEF ArrivingAfter, Exists
    <2>2. d.frame = f
      BY <1>2, <2>1
    <2>3. d.part + 1 \in 1 .. Len(Sizes[f])
      BY <1>3, <1>5, <2>1, <2>2 DEF IsLast
    <2> QED
      BY <1>1, <1>5, <2>1, <2>2, <2>3 DEF Exists, Follows
  <1> QED
    BY <1>4, <1>5

\* The newest part received: the last one filled, or linked.
LEMMA ReceiveOrders ==
  ASSUME TypeOK, Orders, NEW f \in Frames, Receive(f)
  PROVE  Orders'
  <1> DEFINE d == Part(Head(armed), f, NextPart)
  <1>1. /\ d.frame = f /\ d.part = Len(arriving) + 1
        /\ filled' = Append(filled, d) /\ partial' = partial /\ pc' = pc /\ held' = held
        /\ filled \in Seq(Descriptors) /\ partial \in Seq(Pbufs) /\ arriving \in Seq(Frames)
    BY DEF Receive, Part, NextPart, TypeOK
  <1>2. Head(armed) \in Buffers
    BY DEF Receive, TypeOK
  <1>3. d \in Descriptors
    BY <1>1, <1>2 DEF Part, NextPart, Descriptors
  <1>4. /\ Exists(d)
        /\ filled # <<>> => Follows(filled[Len(filled)], d)
        /\ filled = <<>> /\ partial # <<>> => Follows(partial[Len(partial)], d)
        /\ filled = <<>> /\ partial = <<>> => d.part = 1
    <2>1. CASE filled # <<>>
      <3>1. Len(filled) \in 1 .. Len(filled) /\ filled[Len(filled)] \in Descriptors
        BY <1>1, <2>1
      <3>2. /\ filled[Len(filled)].part \in Nat /\ Exists(filled[Len(filled)])
            /\ ArrivingAfter(filled[Len(filled)])
        BY <2>1, <3>1 DEF Orders, FilledInOrder, ArrivingFollows, Descriptors
      <3> QED
        BY <2>1, <3>2, PartFollows
    <2>2. CASE filled = <<>> /\ partial # <<>>
      <3>1. partial[Len(partial)] \in Pbufs
        BY <1>1, <2>2
      <3>2. /\ partial[Len(partial)].part \in Nat /\ Exists(partial[Len(partial)])
            /\ ArrivingAfter(partial[Len(partial)])
        BY <2>2, <3>1 DEF Orders, PartialInOrder, ArrivingFollows, Pbufs
      <3> QED
        BY <2>2, <3>2, PartFollows
    <2>3. CASE filled = <<>> /\ partial = <<>>
      <3>1. Len(arriving) = 0
        BY <2>3 DEF Orders, ArrivingFollows
      <3>2. Len(Sizes[f]) \in Nat /\ Len(Sizes[f]) > 0
        BY SizesAssumption
      <3> QED
        BY <1>1, <2>3, <3>1, <3>2 DEF Exists
    <2> QED
      BY <2>1, <2>2, <2>3
  <1> HIDE DEF d
  <1>5. /\ Len(filled') = Len(filled) + 1 /\ Len(filled) \in Nat /\ filled' # <<>>
        /\ \A i \in 1 .. Len(filled) : filled'[i] = filled[i]
        /\ filled'[Len(filled) + 1] = d
    BY <1>1, <1>3
  <1>6. FilledInOrder'
    <2>1. ASSUME NEW i \in 1 .. Len(filled')
          PROVE  filled'[i].part \in 1 .. Len(Sizes[filled'[i].frame])
      BY <1>4, <1>5 DEF Orders, FilledInOrder, Exists
    <2>2. ASSUME NEW i \in 1 .. Len(filled') - 1
          PROVE  Follows(filled'[i], filled'[i + 1])
      <3>1. CASE i = Len(filled)
        <4>1. filled # <<>>
          BY <1>5, <3>1
        <4> QED
          BY <1>4, <1>5, <3>1, <4>1
      <3>2. CASE i # Len(filled)
        BY <1>5, <3>2 DEF Orders, FilledInOrder
      <3> QED
        BY <3>1, <3>2
    <2> QED
      BY <2>1, <2>2 DEF FilledInOrder, Exists, Follows, IsLast
  <1>7. PartialInOrder'
    BY <1>1 DEF Orders, PartialInOrder, InOrder, Exists
  <1>8. FilledFollow'
    <2>1. IF partial = <<>> THEN filled'[1].part = 1
          ELSE Follows(partial[Len(partial)], filled'[1])
      <3>1. CASE filled = <<>>
        BY <1>4, <1>5, <3>1
      <3>2. CASE filled # <<>>
        <4>1. filled'[1] = filled[1]
          BY <1>1, <1>5, <3>2
        <4> QED
          BY <3>2, <4>1 DEF Orders, FilledFollow
      <3> QED
        BY <3>1, <3>2
    <2> QED
      BY <1>1, <2>1 DEF FilledFollow, Follows, IsLast
  <1>9. ArrivingFollows'
    <2>1. arriving' = IF IsLast(d) THEN <<>> ELSE Append(arriving, f)
      BY <1>1 DEF Receive, IsLast, NextPart
    <2>2. \A i \in 1 .. Len(arriving) : arriving[i] = f
      BY DEF Receive
    <2>3. IF IsLast(d) THEN arriving' = <<>>
          ELSE Len(arriving') = d.part /\ \A i \in 1 .. Len(arriving') : arriving'[i] = d.frame
      <3>1. CASE IsLast(d)
        BY <2>1, <3>1
      <3>2. CASE ~IsLast(d)
        BY <1>1, <2>1, <2>2, <3>2
      <3> QED
        BY <3>1, <3>2
    <2>4. filled'[Len(filled')] = d
      BY <1>5
    <2> QED
      BY <1>5, <2>3, <2>4 DEF ArrivingFollows, ArrivingAfter, IsLast
  <1>10. ReadyIsHandedOver'
    BY <1>1 DEF Orders, ReadyIsHandedOver, Ready, IsLast
  <1>11. \A p \in held' : RestOfFrame(p)
    BY <1>1 DEF Orders
  <1> QED
    BY <1>6, <1>7, <1>8, <1>9, <1>10, <1>11 DEF Orders, RestOfFrame, InOrder, IsLast

LEMMA ReadOrders ==
  ASSUME TypeOK, Orders, ReadDescriptor
  PROVE  Orders'
  <1> DEFINE d == Head(filled)
             c == RxLinkCallback(partial, d)
  <1>1. /\ pc = "reading" /\ filled # <<>>
        /\ partial' = c /\ filled' = Tail(filled)
        /\ arriving' = arriving /\ held' = held
        /\ pc' = IF IsLast(d) THEN "building" ELSE pc
        /\ filled \in Seq(Descriptors) /\ partial \in Seq(Pbufs)
    BY DEF ReadDescriptor, TypeOK
  <1>2. d \in Descriptors /\ Exists(d) /\ d = filled[1] /\ Len(filled) \in Nat \ {0}
    BY <1>1, HeadExists DEF Orders
  <1>3. ~Ready
    BY <1>1 DEF Orders, ReadyIsHandedOver
  <1>4. IF partial = <<>> THEN d.part = 1
        ELSE /\ InOrder(partial)
             /\ partial[1].part = 1
             /\ ~IsLast(partial[Len(partial)])
             /\ Follows(partial[Len(partial)], d)
    BY <1>1, <1>2, <1>3 DEF Orders, PartialInOrder, FilledFollow, Ready
  <1>5. /\ c \in Seq(Pbufs) /\ c # <<>> /\ Len(c) \in Nat
        /\ InOrder(c)
        /\ c[1].part = 1
        /\ c[Len(c)].frame = d.frame
        /\ c[Len(c)].part = d.part
    BY <1>1, <1>2, <1>4, LinkedInOrder
  <1> HIDE DEF c, d
  <1>6. /\ Exists(c[Len(c)])
        /\ IsLast(c[Len(c)]) <=> IsLast(d)
        /\ \A e : Follows(c[Len(c)], e) <=> Follows(d, e)
        /\ ArrivingAfter(c[Len(c)]) <=> ArrivingAfter(d)
    BY <1>2, <1>5 DEF Exists, IsLast, Follows, ArrivingAfter
  <1>7. /\ Len(filled') = Len(filled) - 1
        /\ \A i \in 1 .. Len(filled) - 1 : filled'[i] = filled[i + 1] /\ i + 1 \in 1 .. Len(filled)
    BY <1>1, <1>2, HeadTailProperties
  <1>8. FilledInOrder'
    <2>1. ASSUME NEW i \in 1 .. Len(filled) - 1 PROVE Exists(filled'[i])
      BY <1>2, <1>7 DEF Orders, FilledInOrder
    <2>2. ASSUME NEW i \in 1 .. Len(filled) - 1 - 1
          PROVE  Follows(filled'[i], filled'[i + 1])
      <3>1. i \in 1 .. Len(filled) - 1 /\ i + 1 \in 1 .. Len(filled) - 1
        BY <1>2
      <3>2. filled'[i] = filled[i + 1] /\ filled'[i + 1] = filled[i + 1 + 1]
        BY <1>7, <3>1
      <3>3. Follows(filled[i + 1], filled[i + 1 + 1])
        BY <3>1 DEF Orders, FilledInOrder
      <3> QED
        BY <3>2, <3>3
    <2> QED
      BY <1>7, <2>1, <2>2 DEF FilledInOrder, Exists, Follows, IsLast
  <1>9. PartialInOrder'
    BY <1>1, <1>5, <1>6 DEF PartialInOrder, InOrder, Exists
  <1>10. ASSUME filled' # <<>> PROVE 1 \in 1 .. Len(filled) - 1
    <2>1. Len(filled') # 0
      BY <1>1, <1>10
    <2> QED
      BY <1>2, <1>7, <2>1
  <1>11. FilledFollow'
    <2>1. ASSUME filled' # <<>> PROVE Follows(c[Len(c)], filled'[1])
      <3>1. filled'[1] = filled[1 + 1] /\ 1 \in 1 .. Len(filled) - 1
        BY <1>7, <1>10, <2>1
      <3>2. Follows(filled[1], filled[1 + 1])
        BY <3>1 DEF Orders, FilledInOrder
      <3> QED
        BY <1>2, <1>6, <3>1, <3>2
    <2> QED
      BY <1>1, <1>5, <2>1 DEF FilledFollow, Follows, IsLast
  <1>12. ArrivingFollows'
    <2>1. CASE filled' # <<>>
      <3>1. Len(filled) - 1 \in 1 .. Len(filled) - 1 /\ (Len(filled) - 1) + 1 = Len(filled)
        BY <1>2, <1>10, <2>1
      <3>2. filled'[Len(filled')] = filled[Len(filled)]
        BY <1>7, <3>1
      <3>3. ArrivingAfter(filled[Len(filled)])
        BY <1>1 DEF Orders, ArrivingFollows
      <3>4. ArrivingAfter(filled'[Len(filled')])
        BY <3>2, <3>3
      <3> QED
        BY <1>1, <2>1, <3>4 DEF ArrivingFollows, ArrivingAfter, IsLast
    <2>2. CASE filled' = <<>>
      <3>1. Len(filled') = 0
        BY <2>2
      <3>2. Len(filled) = 1
        BY <1>2, <1>7, <3>1
      <3>3. ArrivingAfter(filled[1])
        BY <1>1, <3>2 DEF Orders, ArrivingFollows
      <3>4. ArrivingAfter(c[Len(c)])
        BY <1>2, <1>6, <3>3
      <3> QED
        BY <1>1, <1>5, <2>2, <3>4 DEF ArrivingFollows, ArrivingAfter, IsLast
    <2> QED
      BY <2>1, <2>2
  <1>13. ReadyIsHandedOver'
    BY <1>1, <1>5, <1>6 DEF ReadyIsHandedOver, Ready, IsLast
  <1>14. \A p \in held' : RestOfFrame(p)
    BY <1>1 DEF Orders
  <1> QED
    BY <1>8, <1>9, <1>11, <1>12, <1>13, <1>14 DEF Orders, RestOfFrame, InOrder, IsLast

LEMMA HandOverOrders ==
  ASSUME TypeOK, Orders, HandOver
  PROVE  Orders'
  <1>1. /\ pc' = "idle" /\ filled' = filled /\ arriving' = arriving
        /\ filled \in Seq(Descriptors) /\ partial \in Seq(Pbufs)
    BY DEF HandOver, TypeOK
  <1>2. FilledInOrder'
    BY <1>1 DEF Orders, FilledInOrder, Exists, Follows, IsLast
  <1>3. CASE Ready
    <2>1. partial' = <<>> /\ held' = held \cup {partial} /\ partial # <<>>
          /\ IsLast(partial[Len(partial)])
      BY <1>3 DEF HandOver, Ready
    <2>2. FilledFollow'
      BY <1>1, <2>1 DEF Orders, FilledFollow, Follows
    <2>3. ArrivingFollows'
      BY <1>1, <2>1 DEF Orders, ArrivingFollows, ArrivingAfter, IsLast
    <2>4. RestOfFrame(partial)
      BY <2>1 DEF Orders, PartialInOrder, RestOfFrame
    <2>5. \A p \in held' : RestOfFrame(p)
      BY <2>1, <2>4 DEF Orders
    <2>6. PartialInOrder' /\ ReadyIsHandedOver'
      BY <2>1 DEF PartialInOrder, ReadyIsHandedOver, Ready
    <2> QED
      BY <1>2, <2>2, <2>3, <2>5, <2>6 DEF Orders, RestOfFrame, InOrder, IsLast
  <1>4. CASE ~Ready
    <2>1. partial' = partial /\ held' = held
      BY <1>4 DEF HandOver
    <2>2. PartialInOrder' /\ FilledFollow' /\ ArrivingFollows'
      BY <1>1, <2>1 DEF Orders, PartialInOrder, FilledFollow, ArrivingFollows, ArrivingAfter,
                        InOrder, Exists, Follows, IsLast
    <2>3. ReadyIsHandedOver'
      BY <1>1, <1>4, <2>1 DEF ReadyIsHandedOver, Ready, IsLast
    <2> QED
      BY <1>2, <2>1, <2>2, <2>3 DEF Orders, RestOfFrame, InOrder, IsLast
  <1> QED
    BY <1>3, <1>4

LEMMA FreeOrders ==
  ASSUME TypeOK, Orders, NEW p \in held, FreeFirst(p)
  PROVE  Orders'
  <1>1. /\ filled' = filled /\ partial' = partial /\ arriving' = arriving /\ pc' = pc
        /\ held' = (held \ {p}) \cup (IF Len(p) > 1 THEN {Tail(p)} ELSE {})
        /\ p \in Seq(Pbufs) /\ RestOfFrame(p)
    BY DEF FreeFirst, TypeOK, Orders
  <1>2. \A q \in held' : RestOfFrame(q)
    BY <1>1, TailInOrder DEF Orders
  <1> QED
    BY <1>1, <1>2 DEF Orders, FilledInOrder, PartialInOrder, FilledFollow, ArrivingFollows,
                      ArrivingAfter, ReadyIsHandedOver, Ready, RestOfFrame, InOrder, Exists,
                      Follows, IsLast

\* Steps that move no descriptor and no packet.
LEMMA OtherOrders ==
  ASSUME Orders, UNCHANGED <<filled, partial, arriving, held>>,
         ReadyIsHandedOver => ReadyIsHandedOver'
  PROVE  Orders'
  BY DEF Orders, FilledInOrder, PartialInOrder, FilledFollow, ArrivingFollows, ArrivingAfter,
         RestOfFrame, InOrder, Exists, Follows, IsLast

LEMMA StepOrders == TypeOK /\ Orders /\ [Next]_vars => Orders'
  <1> SUFFICES ASSUME TypeOK, Orders, [Next]_vars
               PROVE  Orders'
    OBVIOUS
  <1>1. ASSUME NEW f \in Frames, Receive(f)
        PROVE  Orders'
    BY <1>1, ReceiveOrders
  <1>2. CASE LowLevelInput
    BY <1>2, OtherOrders DEF LowLevelInput, ReadyIsHandedOver, Ready, IsLast
  <1>3. CASE ReadDescriptor
    BY <1>3, ReadOrders
  <1>4. CASE ReadNoMore
    BY <1>4, OtherOrders DEF ReadNoMore, ReadyIsHandedOver, Ready, IsLast
  <1>5. CASE RxAllocateCallback
    BY <1>5, OtherOrders DEF RxAllocateCallback, Allocate, PoolIsEmpty, ReadyIsHandedOver,
                             Ready, IsLast
  <1>6. CASE HandOver
    BY <1>6, HandOverOrders
  <1>7. ASSUME NEW p \in held, FreeFirst(p)
        PROVE  Orders'
    BY <1>7, FreeOrders
  <1>8. CASE UNCHANGED vars
    BY <1>8, OtherOrders DEF vars, ReadyIsHandedOver, Ready, IsLast
  <1> QED
    BY <1>1, <1>2, <1>3, <1>4, <1>5, <1>6, <1>7, <1>8 DEF Next, EthernetifInput, Free

(***************************************************************************)
(* The state has its type, and the DMA never has more buffers than         *)
(* descriptors.                                                            *)
(***************************************************************************)
THEOREM RxTypeCorrect == Spec => []TypeOK
  <1> QED
    BY InitOrders, StepTypes, StepOrders, PTL DEF Spec

(***************************************************************************)
(* A packet handed to lwIP is one whole frame, in order, with the totals   *)
(* its comment promises, for frames over any number of buffers, however    *)
(* the DMA and the reads interleave (Ethernetif.cpp:496-524).              *)
(***************************************************************************)
THEOREM WholeFramesOnly == Spec => []PacketsWhole
  <1>1. TypeOK /\ Orders => PacketsWhole
    BY DEF Orders, PacketsWhole, PartialInOrder, RestOfFrame, Ready
  <1> QED
    BY <1>1, InitOrders, StepTypes, StepOrders, PTL DEF Spec

-----------------------------------------------------------------------------
(* Conservation: three of the steps move a buffer within InDriver and      *)
(* leave it as it is.                                                      *)

LEMMA DriverParts ==
  ASSUME TypeOK
  PROVE  /\ Bufs(partial) \in Seq(Buffers) /\ Bufs(filled) \in Seq(Buffers)
         /\ armed \in Seq(Buffers) /\ pool \in Seq(Buffers)
         /\ Len(Bufs(partial)) = Len(partial) /\ Len(Bufs(filled)) = Len(filled)
         /\ InDriver \in Seq(Buffers)
         /\ Len(InDriver) = Len(partial) + Len(filled) + Len(armed) + Len(pool)
         /\ \A p \in held : Bufs(p) \in Seq(Buffers) /\ Len(Bufs(p)) = Len(p)
  <1>1. (\A x \in Pbufs : x.buf \in Buffers) /\ (\A x \in Descriptors : x.buf \in Buffers)
    BY DEF Pbufs, Descriptors
  <1>2. /\ partial \in Seq(Pbufs) /\ filled \in Seq(Descriptors)
        /\ armed \in Seq(Buffers) /\ pool \in Seq(Buffers)
        /\ \A p \in held : p \in Seq(Pbufs)
    BY DEF TypeOK
  <1>3. /\ Bufs(partial) \in Seq(Buffers) /\ Len(Bufs(partial)) = Len(partial)
        /\ Bufs(filled) \in Seq(Buffers) /\ Len(Bufs(filled)) = Len(filled)
        /\ \A p \in held : Bufs(p) \in Seq(Buffers) /\ Len(Bufs(p)) = Len(p)
    BY <1>1, <1>2, BufsAre
  <1>4. /\ InDriver \in Seq(Buffers)
        /\ Len(InDriver) = Len(partial) + Len(filled) + Len(armed) + Len(pool)
    <2> DEFINE a == Bufs(partial)
               b == Bufs(filled)
    <2>1. /\ a \in Seq(Buffers) /\ b \in Seq(Buffers)
          /\ armed \in Seq(Buffers) /\ pool \in Seq(Buffers)
          /\ Len(a) = Len(partial) /\ Len(b) = Len(filled)
      BY <1>2, <1>3
    <2>2. InDriver = a \o b \o armed \o pool
      BY DEF InDriver
    <2> HIDE DEF a, b
    <2>3. /\ a \o b \o armed \o pool \in Seq(Buffers)
          /\ Len(a \o b \o armed \o pool) = Len(a) + Len(b) + Len(armed) + Len(pool)
      <3> DEFINE c == a \o b
      <3>1. c \in Seq(Buffers) /\ Len(c) = Len(a) + Len(b)
        BY <2>1, ConcatProperties
      <3> HIDE DEF c
      <3> DEFINE e == c \o armed
      <3>2. e \in Seq(Buffers) /\ Len(e) = Len(c) + Len(armed)
        BY <2>1, <3>1, ConcatProperties
      <3> HIDE DEF e
      <3>3. e \o pool \in Seq(Buffers) /\ Len(e \o pool) = Len(e) + Len(pool)
        BY <2>1, <3>2, ConcatProperties
      <3> QED
        BY <3>1, <3>2, <3>3 DEF c, e
    <2> QED
      BY <2>1, <2>2, <2>3
  <1> QED
    BY <1>2, <1>3, <1>4

LEMMA BufsAppend ==
  ASSUME NEW s, NEW t, Len(s) \in Nat, Len(t) = Len(s) + 1,
         \A i \in 1 .. Len(s) : t[i].buf = s[i].buf
  PROVE  Bufs(t) = Append(Bufs(s), t[Len(s) + 1].buf)
  <1>1. /\ Bufs(t) = [i \in 1 .. Len(s) + 1 |-> t[i].buf]
        /\ Bufs(s) = [i \in 1 .. Len(s) |-> s[i].buf]
    BY DEF Bufs
  <1>2. /\ Bufs(s) \in Seq({s[i].buf : i \in 1 .. Len(s)})
        /\ Len(Bufs(s)) = Len(s)
    <2> DEFINE g == Bufs(s)
               S == {s[i].buf : i \in 1 .. Len(s)}
    <2>1. g \in [1 .. Len(s) -> S]
      BY <1>1
    <2> HIDE DEF g, S
    <2>2. g \in Seq(S) /\ Len(g) = Len(s)
      BY <2>1
    <2> QED
      BY <2>2 DEF g, S
  <1>3. Append(Bufs(s), t[Len(s) + 1].buf)
          = [i \in 1 .. Len(s) + 1 |-> IF i = Len(s) + 1 THEN t[Len(s) + 1].buf ELSE Bufs(s)[i]]
    BY <1>2
  <1>4. \A i \in 1 .. Len(s) + 1 :
          t[i].buf = IF i = Len(s) + 1 THEN t[Len(s) + 1].buf ELSE Bufs(s)[i]
    BY <1>1
  <1> QED
    BY <1>1, <1>3, <1>4

LEMMA BufsTail ==
  ASSUME NEW S, NEW s \in Seq(S), s # <<>>, \A x \in S : x.buf \in Buffers
  PROVE  /\ Bufs(Tail(s)) = Tail(Bufs(s))
         /\ Bufs(s) # <<>>
         /\ Head(Bufs(s)) = s[1].buf
         /\ Bufs(s) = <<s[1].buf>> \o Bufs(Tail(s))
  <1>1. /\ Len(s) \in Nat /\ Len(s) > 0
        /\ Tail(s) \in Seq(S) /\ Len(Tail(s)) = Len(s) - 1
        /\ \A i \in 1 .. Len(s) - 1 : Tail(s)[i] = s[i + 1]
    BY HeadTailProperties
  <1>2. /\ Bufs(s) \in Seq(Buffers) /\ Len(Bufs(s)) = Len(s)
        /\ \A i \in 1 .. Len(s) : Bufs(s)[i] = s[i].buf
    BY BufsAre
  <1>3. /\ Bufs(Tail(s)) \in Seq(Buffers) /\ Len(Bufs(Tail(s))) = Len(s) - 1
        /\ \A i \in 1 .. Len(s) - 1 : Bufs(Tail(s))[i] = Tail(s)[i].buf
    BY <1>1, BufsAre
  <1>4. Bufs(s) # <<>>
    BY <1>1, <1>2, NotEmpty
  <1>5. /\ Tail(Bufs(s)) \in Seq(Buffers) /\ Len(Tail(Bufs(s))) = Len(s) - 1
        /\ \A i \in 1 .. Len(s) - 1 : Tail(Bufs(s))[i] = Bufs(s)[i + 1]
    BY <1>2, <1>4, HeadTailProperties
  <1>6. \A i \in 1 .. Len(s) - 1 : Bufs(Tail(s))[i] = Tail(Bufs(s))[i]
    BY <1>1, <1>2, <1>3, <1>5
  <1>7. Bufs(Tail(s)) = Tail(Bufs(s))
    BY <1>3, <1>5, <1>6, SeqEqual
  <1>8. Head(Bufs(s)) = s[1].buf
    BY <1>1, <1>2, <1>4
  <1>9. Bufs(s) = <<Head(Bufs(s))>> \o Tail(Bufs(s))
    BY <1>2, <1>4
  <1> QED
    BY <1>4, <1>7, <1>8, <1>9

LEMMA ReceiveKeeps ==
  ASSUME TypeOK, NEW f \in Frames, Receive(f)
  PROVE  InDriver' = InDriver
  <1> DEFINE d == Part(Head(armed), f, NextPart)
             a == Bufs(partial)
             b == Bufs(filled)
  <1>1. /\ armed # <<>> /\ armed' = Tail(armed) /\ partial' = partial /\ pool' = pool
        /\ filled' = Append(filled, d) /\ filled \in Seq(Descriptors)
        /\ d.buf = Head(armed)
    BY DEF Receive, TypeOK, Part
  <1>2. /\ Len(filled) \in Nat /\ Len(filled') = Len(filled) + 1
        /\ \A i \in 1 .. Len(filled) : filled'[i] = filled[i]
        /\ filled'[Len(filled) + 1] = d
    BY <1>1
  <1>3. Bufs(filled') = Append(b, Head(armed))
    BY <1>1, <1>2, BufsAppend
  <1>4. a \in Seq(Buffers) /\ b \in Seq(Buffers) /\ armed \in Seq(Buffers)
    BY DriverParts
  <1> HIDE DEF a, b, d
  <1>5. a \o Append(b, Head(armed)) \o Tail(armed) = a \o b \o armed
    <2> DEFINE s == Append(b, Head(armed))
               t == Tail(armed)
    <2>1. s \in Seq(Buffers) /\ t \in Seq(Buffers)
      BY <1>1, <1>4
    <2>2. s \o t = b \o armed
      BY <1>1, <1>4, MoveHead
    <2> HIDE DEF s, t
    <2>3. (a \o s) \o t = a \o (s \o t)
      BY <1>4, <2>1, ConcatAssociative
    <2>4. (a \o b) \o armed = a \o (b \o armed)
      BY <1>4, ConcatAssociative
    <2>5. (a \o s) \o t = (a \o b) \o armed
      BY <2>2, <2>3, <2>4
    <2> QED
      BY <2>5 DEF s, t
  <1>6. InDriver' = a \o Append(b, Head(armed)) \o Tail(armed) \o pool
    BY <1>1, <1>3 DEF InDriver, a
  <1>7. InDriver = a \o b \o armed \o pool
    BY DEF InDriver, a, b
  <1> QED
    BY <1>5, <1>6, <1>7

LEMMA ReadKeeps ==
  ASSUME TypeOK, Orders, ReadDescriptor
  PROVE  InDriver' = InDriver
  <1> DEFINE d == Head(filled)
             a == Bufs(partial)
             b == Bufs(filled)
  <1>1. /\ filled # <<>> /\ armed' = armed /\ pool' = pool
        /\ filled' = Tail(filled) /\ filled \in Seq(Descriptors)
        /\ partial' = RxLinkCallback(partial, d) /\ partial \in Seq(Pbufs)
        /\ \A x \in Descriptors : x.buf \in Buffers
    BY DEF ReadDescriptor, TypeOK, Descriptors
  <1>2. d \in Descriptors /\ Exists(d) /\ d = filled[1]
    BY <1>1, HeadExists DEF Orders
  <1> HIDE DEF d
  <1>3. /\ Len(partial) \in Nat /\ Len(partial') = Len(partial) + 1
        /\ \A i \in 1 .. Len(partial) : partial'[i].buf = partial[i].buf
        /\ partial'[Len(partial) + 1].buf = d.buf
    <2> DEFINE c == RxLinkCallback(partial, d)
    <2>1. /\ Len(partial) \in Nat /\ Len(c) = Len(partial) + 1
          /\ \A i \in 1 .. Len(partial) : c[i].buf = partial[i].buf
          /\ c[Len(partial) + 1] =
                [buf |-> d.buf, frame |-> d.frame, part |-> d.part,
                 len |-> Sizes[d.frame][d.part], tot_len |-> Sizes[d.frame][d.part]]
      BY <1>1, <1>2, Linked
    <2> HIDE DEF c
    <2>2. c[Len(partial) + 1].buf = d.buf
      BY <2>1
    <2>3. partial' = c
      BY <1>1 DEF c
    <2> QED
      BY <2>1, <2>2, <2>3
  <1>4. Bufs(partial') = Append(a, d.buf)
    BY <1>3, BufsAppend
  <1>5. Bufs(filled') = Tail(b) /\ b # <<>> /\ Head(b) = d.buf
    BY <1>1, <1>2, BufsTail
  <1>6. a \in Seq(Buffers) /\ b \in Seq(Buffers)
    BY DriverParts
  <1> HIDE DEF a, b
  <1>7. Append(a, Head(b)) \o Tail(b) = a \o b
    BY <1>5, <1>6, MoveHead
  <1>8. InDriver' = Append(a, Head(b)) \o Tail(b) \o armed \o pool
    BY <1>1, <1>4, <1>5 DEF InDriver
  <1>9. InDriver = a \o b \o armed \o pool
    BY DEF InDriver, a, b
  <1> QED
    BY <1>7, <1>8, <1>9

LEMMA AllocateKeeps ==
  ASSUME TypeOK, Allocate, UNCHANGED <<filled, partial>>
  PROVE  InDriver' = InDriver
  <1> DEFINE r == Bufs(partial) \o Bufs(filled)
  <1>1. /\ pool # <<>> /\ armed' = Append(armed, Head(pool)) /\ pool' = Tail(pool)
    BY DEF Allocate
  <1>2. /\ Bufs(partial) \in Seq(Buffers) /\ Bufs(filled) \in Seq(Buffers)
        /\ armed \in Seq(Buffers) /\ pool \in Seq(Buffers)
    BY DriverParts
  <1>3. r \in Seq(Buffers)
    BY <1>2, ConcatProperties
  <1>4. InDriver' = r \o Append(armed, Head(pool)) \o Tail(pool)
    BY <1>1 DEF InDriver
  <1>5. InDriver = r \o armed \o pool
    BY DEF InDriver
  <1> HIDE DEF r
  <1>6. r \o Append(armed, Head(pool)) \o Tail(pool) = r \o armed \o pool
    <2> DEFINE s == Append(armed, Head(pool))
               t == Tail(pool)
    <2>1. s \in Seq(Buffers) /\ t \in Seq(Buffers)
      BY <1>1, <1>2
    <2>2. s \o t = armed \o pool
      BY <1>1, <1>2, MoveHead
    <2> HIDE DEF s, t
    <2>3. (r \o s) \o t = r \o (s \o t)
      BY <1>3, <2>1, ConcatAssociative
    <2>4. (r \o armed) \o pool = r \o (armed \o pool)
      BY <1>2, <1>3, ConcatAssociative
    <2>5. (r \o s) \o t = (r \o armed) \o pool
      BY <2>2, <2>3, <2>4
    <2> QED
      BY <2>5 DEF s, t
  <1> QED
    BY <1>4, <1>5, <1>6

LEMMA SameConserved ==
  ASSUME BuffersConserved, InDriver' = InDriver, held' = held
  PROVE  BuffersConserved'
  BY DEF BuffersConserved

LEMMA ApartSymmetric == \A s, t : Apart(s, t) => Apart(t, s)
  BY DEF Apart

LEMMA HandOverConserves ==
  ASSUME TypeOK, BuffersConserved, HandOver, Ready
  PROVE  BuffersConserved'
  <1> DEFINE a == Bufs(partial)
             b == Bufs(filled)
             rest == b \o armed \o pool
  <1>1. /\ a \in Seq(Buffers) /\ b \in Seq(Buffers)
        /\ armed \in Seq(Buffers) /\ pool \in Seq(Buffers)
        /\ \A p \in held : Bufs(p) \in Seq(Buffers)
    BY DriverParts
  <1>2. /\ partial' = <<>> /\ held' = held \cup {partial}
        /\ armed' = armed /\ pool' = pool /\ filled' = filled
    BY DEF HandOver
  <1>3. Bufs(<<>>) = <<>>
    BY DEF Bufs
  <1>4. InDriver' = <<>> \o b \o armed \o pool
    BY <1>2, <1>3 DEF InDriver
  <1>5. InDriver = a \o b \o armed \o pool
    BY DEF InDriver
  <1> HIDE DEF a, b
  <1>6. rest \in Seq(Buffers) /\ a \o b \o armed \o pool = a \o rest
    <2> DEFINE c == b \o armed
    <2>1. c \in Seq(Buffers)
      BY <1>1, ConcatProperties
    <2>2. (a \o b) \o armed = a \o c
      BY <1>1, ConcatAssociative
    <2> HIDE DEF c
    <2>3. c \o pool \in Seq(Buffers) /\ (a \o c) \o pool = a \o (c \o pool)
      BY <1>1, <2>1, ConcatProperties, ConcatAssociative
    <2> QED
      BY <2>2, <2>3 DEF c
  <1>7. <<>> \o b = b
    BY <1>1, ConcatEmptySeq
  <1>8. InDriver' = rest
    BY <1>4, <1>7
  <1> HIDE DEF rest
  <1>9. InDriver = a \o rest
    BY <1>5, <1>6
  <1>10. /\ Once(a) /\ Once(rest) /\ Apart(a, rest)
         /\ \A u : Len(u) \in Nat => (Apart(u, InDriver) <=> Apart(u, a) /\ Apart(u, rest))
         /\ \A x : In(x, InDriver) <=> In(x, a) \/ In(x, rest)
    BY <1>1, <1>6, <1>9, OnceConcat DEF BuffersConserved
  <1>11. ASSUME NEW p \in held
         PROVE  /\ Once(Bufs(p)) /\ Apart(Bufs(p), a) /\ Apart(a, Bufs(p))
                /\ Apart(Bufs(p), rest)
                /\ \A q \in held \ {p} : Apart(Bufs(p), Bufs(q))
    <2>1. Len(Bufs(p)) \in Nat
      BY <1>1
    <2> QED
      BY <1>10, <2>1, ApartSymmetric DEF BuffersConserved
  <1>12. \A p \in held' :
            /\ Once(Bufs(p))
            /\ Apart(Bufs(p), rest)
            /\ \A q \in held' \ {p} : Apart(Bufs(p), Bufs(q))
    BY <1>2, <1>10, <1>11 DEF a
  <1>13. \A x \in Buffers : In(x, rest) \/ \E p \in held' : In(x, Bufs(p))
    BY <1>2, <1>10 DEF BuffersConserved, a
  <1> QED
    BY <1>8, <1>10, <1>12, <1>13 DEF BuffersConserved, Buffers

LEMMA FreeConserves ==
  ASSUME TypeOK, Orders, BuffersConserved, NEW p \in held, FreeFirst(p)
  PROVE  BuffersConserved'
  <1> DEFINE u == Bufs(partial) \o Bufs(filled) \o armed
             f == <<p[1].buf>>
             rest == Bufs(Tail(p))
  <1>1. /\ p \in Seq(Pbufs) /\ p # <<>> /\ Len(p) \in Nat
        /\ \A x \in Pbufs : x.buf \in Buffers
    <2>1. p \in Seq(Pbufs) /\ p # <<>>
      BY DEF TypeOK, Orders, RestOfFrame
    <2>2. \A x \in Pbufs : x.buf \in Buffers
      BY DEF Pbufs
    <2> QED
      BY <2>1, <2>2
  <1>2. /\ Bufs(partial) \in Seq(Buffers) /\ Bufs(filled) \in Seq(Buffers)
        /\ armed \in Seq(Buffers) /\ pool \in Seq(Buffers)
        /\ \A q \in held : Bufs(q) \in Seq(Buffers) /\ Len(Bufs(q)) \in Nat
    BY DriverParts
  <1>3. u \in Seq(Buffers)
    <2>1. Bufs(partial) \o Bufs(filled) \in Seq(Buffers)
      BY <1>2, ConcatProperties
    <2> QED
      BY <1>2, <2>1, ConcatProperties
  <1>4. Bufs(p) = f \o rest
    BY <1>1, BufsTail
  <1>5. /\ p[1] \in Pbufs /\ Tail(p) \in Seq(Pbufs) /\ Len(Tail(p)) = Len(p) - 1
    BY <1>1
  <1>6. /\ rest \in Seq(Buffers) /\ Len(rest) = Len(p) - 1
        /\ f \in Seq(Buffers) /\ Len(f) = 1
    <2>1. rest \in Seq(Buffers) /\ Len(rest) = Len(Tail(p))
      BY <1>1, <1>5, BufsAre
    <2>2. p[1].buf \in Buffers
      BY <1>1, <1>5
    <2>3. f \in Seq(Buffers) /\ Len(f) = 1
      BY <2>2
    <2> HIDE DEF rest, f
    <2> QED
      BY <1>5, <2>1, <2>3
  <1>7. /\ InDriver' = u \o (f \o pool)
        /\ InDriver = u \o pool
        /\ held' = (held \ {p}) \cup (IF Len(p) > 1 THEN {Tail(p)} ELSE {})
    BY DEF FreeFirst, pbufFreeCustom, InDriver
  <1> HIDE DEF u, f
  <1>8. /\ f \o pool \in Seq(Buffers)
    BY <1>2, <1>6, ConcatProperties
  <1>9. /\ Once(u \o pool) <=> Once(u) /\ Once(pool) /\ Apart(u, pool)
        /\ \A s : Len(s) \in Nat => (Apart(s, u \o pool) <=> Apart(s, u) /\ Apart(s, pool))
        /\ \A x : In(x, u \o pool) <=> In(x, u) \/ In(x, pool)
    BY <1>2, <1>3, OnceConcat
  <1>10. /\ Once(f \o pool) <=> Once(f) /\ Once(pool) /\ Apart(f, pool)
         /\ \A s : Len(s) \in Nat => (Apart(s, f \o pool) <=> Apart(s, f) /\ Apart(s, pool))
         /\ \A x : In(x, f \o pool) <=> In(x, f) \/ In(x, pool)
    BY <1>2, <1>6, OnceConcat
  <1>11. /\ Once(u \o (f \o pool)) <=> Once(u) /\ Once(f \o pool) /\ Apart(u, f \o pool)
         /\ \A s : Len(s) \in Nat =>
               (Apart(s, u \o (f \o pool)) <=> Apart(s, u) /\ Apart(s, f \o pool))
         /\ \A x : In(x, u \o (f \o pool)) <=> In(x, u) \/ In(x, f \o pool)
    <2> DEFINE g == f \o pool
    <2>1. g \in Seq(Buffers)
      BY <1>8
    <2> HIDE DEF g
    <2>2. /\ Once(u \o g) <=> Once(u) /\ Once(g) /\ Apart(u, g)
          /\ \A s : Len(s) \in Nat => (Apart(s, u \o g) <=> Apart(s, u) /\ Apart(s, g))
          /\ \A x : In(x, u \o g) <=> In(x, u) \/ In(x, g)
      BY <1>3, <2>1, OnceConcat
    <2> QED
      BY <2>2 DEF g
  <1> HIDE DEF rest
  <1>12. /\ Once(f \o rest) <=> Once(f) /\ Once(rest) /\ Apart(f, rest)
         /\ \A s : Len(s) \in Nat => (Apart(s, f \o rest) <=> Apart(s, f) /\ Apart(s, rest))
         /\ \A s : Len(s) \in Nat => (Apart(f \o rest, s) <=> Apart(f, s) /\ Apart(rest, s))
         /\ \A x : In(x, f \o rest) <=> In(x, f) \/ In(x, rest)
    BY <1>6, OnceConcat
  <1>13. /\ Len(u) \in Nat /\ Len(pool) \in Nat /\ Len(f) \in Nat /\ Len(rest) \in Nat
         /\ Len(u \o pool) \in Nat /\ Len(u \o (f \o pool)) \in Nat
    <2>1. u \o pool \in Seq(Buffers) /\ u \o (f \o pool) \in Seq(Buffers)
      BY <1>2, <1>3, <1>8, ConcatProperties
    <2> QED
      BY <1>1, <1>2, <1>3, <1>6, <2>1
  \* What p's buffers are apart from.
  <1>14. /\ Once(f) /\ Once(rest) /\ Apart(f, rest) /\ Apart(rest, f)
         /\ Once(u) /\ Once(pool) /\ Apart(u, pool)
         /\ Apart(f, u) /\ Apart(u, f) /\ Apart(f, pool)
         /\ Apart(rest, u) /\ Apart(rest, pool)
    <2>1. Once(f \o rest) /\ Apart(f \o rest, u \o pool) /\ Once(u \o pool)
      BY <1>4, <1>7 DEF BuffersConserved
    <2>2. Apart(f, u \o pool) /\ Apart(rest, u \o pool)
      BY <1>12, <1>13, <2>1
    <2>3. Apart(f, u) /\ Apart(f, pool) /\ Apart(rest, u) /\ Apart(rest, pool)
      BY <1>9, <1>13, <2>2
    <2> QED
      BY <1>9, <1>12, <2>1, <2>3, ApartSymmetric
  <1>15. Once(InDriver')
    <2>1. Apart(u, f \o pool)
      BY <1>10, <1>13, <1>14
    <2> QED
      BY <1>7, <1>10, <1>11, <1>14, <2>1
  <1>16. ASSUME NEW q \in held \ {p}
         PROVE  /\ Once(Bufs(q))
                /\ Apart(Bufs(q), InDriver')
                /\ Apart(Bufs(q), rest) /\ Apart(rest, Bufs(q))
                /\ \A r \in held \ {q} : Apart(Bufs(q), Bufs(r))
    <2>1. /\ Once(Bufs(q)) /\ Apart(Bufs(q), u \o pool)
          /\ Apart(Bufs(q), f \o rest)
          /\ \A r \in held \ {q} : Apart(Bufs(q), Bufs(r))
      BY <1>4, <1>7 DEF BuffersConserved
    <2>2. Len(Bufs(q)) \in Nat
      BY <1>2
    <2>3. Apart(Bufs(q), u) /\ Apart(Bufs(q), pool) /\ Apart(Bufs(q), f) /\ Apart(Bufs(q), rest)
      BY <1>9, <1>12, <2>1, <2>2
    <2>4. Apart(Bufs(q), u \o (f \o pool))
      BY <1>10, <1>11, <2>2, <2>3
    <2> QED
      BY <1>7, <2>1, <2>3, <2>4, ApartSymmetric
  <1>17. Apart(rest, InDriver')
    <2>1. Apart(rest, f \o pool)
      BY <1>10, <1>13, <1>14
    <2> QED
      BY <1>7, <1>11, <1>13, <1>14, <2>1
  <1>18. \A q \in held' :
            /\ Once(Bufs(q))
            /\ Apart(Bufs(q), InDriver')
            /\ \A r \in held' \ {q} : Apart(Bufs(q), Bufs(r))
    BY <1>7, <1>14, <1>16, <1>17 DEF rest
  <1>19. ASSUME NEW x \in Buffers
         PROVE  In(x, InDriver') \/ \E q \in held' : In(x, Bufs(q))
    <2>1. CASE In(x, InDriver)
      BY <1>7, <1>9, <1>10, <1>11, <2>1
    <2>2. CASE \E q \in held \ {p} : In(x, Bufs(q))
      BY <1>7, <2>2
    <2>3. CASE In(x, Bufs(p))
      <3>1. CASE In(x, f)
        BY <1>7, <1>10, <1>11, <3>1
      <3>2. CASE In(x, rest)
        <4>1. Len(p) > 1
          BY <1>1, <1>6, <3>2 DEF In
        <4> QED
          BY <1>7, <3>2, <4>1 DEF rest
      <3> QED
        BY <1>4, <1>12, <2>3, <3>1, <3>2
    <2> QED
      BY <2>1, <2>2, <2>3 DEF BuffersConserved
  <1> QED
    BY <1>15, <1>18, <1>19 DEF BuffersConserved, Buffers

LEMMA InitConserved == Init => BuffersConserved
  <1> SUFFICES ASSUME Init PROVE BuffersConserved
    OBVIOUS
  <1>1. TypeOK
    BY InitOrders
  <1>2. armed = [i \in 1 .. DescCount |-> i] /\ armed \in Seq(Buffers) /\ Len(armed) = DescCount
    BY <1>1, CountsAssumption DEF Init, TypeOK
  <1>3. /\ pool = [i \in 1 .. BufferCount - DescCount |-> DescCount + i]
        /\ pool \in Seq(Buffers) /\ Len(pool) = BufferCount - DescCount
    BY <1>1, CountsAssumption DEF Init, TypeOK
  <1>4. Bufs(partial) = <<>> /\ Bufs(filled) = <<>> /\ held = {}
    BY DEF Init, Bufs
  <1>5. InDriver = armed \o pool
    <2>1. <<>> \o <<>> = <<>> /\ <<>> \o armed = armed
      BY <1>2, ConcatEmptySeq
    <2> QED
      BY <1>4, <2>1 DEF InDriver
  <1>6. Once(armed) /\ Once(pool) /\ Apart(armed, pool)
    BY <1>2, <1>3, CountsAssumption DEF Once, Apart
  <1>7. armed \in Seq(Buffers) /\ pool \in Seq(Buffers)
    BY <1>2, <1>3
  <1>8. /\ Once(armed \o pool) <=> Once(armed) /\ Once(pool) /\ Apart(armed, pool)
        /\ \A b : In(b, armed \o pool) <=> In(b, armed) \/ In(b, pool)
    BY <1>7, OnceConcat
  <1>9. ASSUME NEW b \in Buffers PROVE In(b, armed) \/ In(b, pool)
    <2>1. CASE b <= DescCount
      BY <1>2, <2>1, CountsAssumption DEF In, Buffers
    <2>2. CASE b > DescCount
      <3>1. b - DescCount \in 1 .. Len(pool) /\ pool[b - DescCount] = b
        BY <1>3, <2>2, CountsAssumption DEF Buffers
      <3> QED
        BY <3>1 DEF In
    <2> QED
      BY <2>1, <2>2, CountsAssumption DEF Buffers
  <1> QED
    BY <1>4, <1>5, <1>6, <1>8, <1>9 DEF BuffersConserved

LEMMA StepConserves ==
  TypeOK /\ Orders /\ BuffersConserved /\ [Next]_vars => BuffersConserved'
  <1> SUFFICES ASSUME TypeOK, Orders, BuffersConserved, [Next]_vars
               PROVE  BuffersConserved'
    OBVIOUS
  <1>1. ASSUME NEW f \in Frames, Receive(f)
        PROVE  BuffersConserved'
    <2>1. held' = held
      BY <1>1 DEF Receive
    <2> QED
      BY <1>1, <2>1, ReceiveKeeps, SameConserved
  <1>2. ASSUME UNCHANGED <<pool, armed, filled, partial, held>>
        PROVE  BuffersConserved'
    <2>1. InDriver' = InDriver /\ held' = held
      BY <1>2 DEF InDriver, Bufs
    <2> QED
      BY <2>1, SameConserved
  <1>3. CASE LowLevelInput
    BY <1>2, <1>3 DEF LowLevelInput
  <1>4. CASE ReadDescriptor
    <2>1. held' = held
      BY <1>4 DEF ReadDescriptor
    <2> QED
      BY <1>4, <2>1, ReadKeeps, SameConserved
  <1>5. CASE ReadNoMore
    BY <1>2, <1>5 DEF ReadNoMore
  <1>6. CASE RxAllocateCallback
    <2>1. filled' = filled /\ partial' = partial /\ held' = held
      BY <1>6 DEF RxAllocateCallback
    <2>2. CASE Allocate
      BY <2>1, <2>2, AllocateKeeps, SameConserved
    <2>3. CASE PoolIsEmpty
      BY <1>2, <2>1, <2>3 DEF PoolIsEmpty
    <2> QED
      BY <1>6, <2>2, <2>3 DEF RxAllocateCallback
  <1>7. CASE HandOver
    <2>1. CASE Ready
      BY <1>7, <2>1, HandOverConserves
    <2>2. CASE ~Ready
      BY <1>2, <1>7, <2>2 DEF HandOver
    <2> QED
      BY <2>1, <2>2
  <1>8. ASSUME NEW p \in held, FreeFirst(p)
        PROVE  BuffersConserved'
    BY <1>8, FreeConserves
  <1>9. CASE UNCHANGED vars
    BY <1>2, <1>9 DEF vars
  <1> QED
    BY <1>1, <1>3, <1>4, <1>5, <1>6, <1>7, <1>8, <1>9 DEF Next, EthernetifInput, Free

(***************************************************************************)
(* Every buffer is in one place, once, for any numbers of buffers and      *)
(* descriptors: none leaks, and none is with the DMA and with lwIP at a    *)
(* time (Ethernetif.cpp:354-360, 480-494).                                 *)
(***************************************************************************)
THEOREM EveryBufferOnce == Spec => []BuffersConserved
  <1> QED
    BY InitOrders, StepTypes, StepOrders, InitConserved, StepConserves, PTL DEF Spec

-----------------------------------------------------------------------------
(* Reception switched off *)

\* While reception is off, somebody holds a packet, or is about to.
SwitchedOff ==
    /\ ~sRxBuffersAvailable =>
          /\ pc \in {"idle", "returning"}
          /\ pool = <<>>
          /\ held # {} \/ Ready
    /\ pc = "returning" => ~sRxBuffersAvailable

\* A sequence that has every buffer is as long as there are buffers.
LEMMA AllInOne ==
  ASSUME NEW s \in Seq(Buffers), \A b \in Buffers : In(b, s)
  PROVE  BufferCount <= Len(s)
  <1>1. Len(s) \in Nat /\ s \in [1 .. Len(s) -> Buffers]
    OBVIOUS
  <1>2. \A b \in Buffers : \E i \in 1 .. Len(s) : s[i] = b
    BY DEF In
  <1>3. s \in Surjection(1 .. Len(s), Buffers)
    BY <1>1, <1>2 DEF Surjection
  <1>4. ExistsSurjection(1 .. Len(s), Buffers)
    BY <1>3 DEF ExistsSurjection
  <1>5. Cardinality(Buffers) <= Len(s)
    BY <1>1, <1>4, FS_SurjCardinalityBound
  <1>6. Cardinality(Buffers) = BufferCount
    BY CountsAssumption, FS_Interval DEF Buffers
  <1> QED
    BY <1>5, <1>6

\* An empty pool has its buffers in packets: what is not whole yet and the
\* descriptors are not enough for all of them.
LEMMA SomebodyHolds ==
  ASSUME TypeOK, Orders, BuffersConserved, pool = <<>>, RxBuildDescCnt > 0
  PROVE  held # {} \/ Ready
  <1> SUFFICES ASSUME held = {}, ~Ready PROVE FALSE
    OBVIOUS
  <1>1. \A b \in Buffers : In(b, InDriver)
    BY DEF BuffersConserved
  <1>2. /\ InDriver \in Seq(Buffers)
        /\ Len(InDriver) = Len(partial) + Len(filled) + Len(armed) + Len(pool)
    BY DriverParts
  <1>3. BufferCount <= Len(partial) + Len(filled) + Len(armed) + Len(pool)
    BY <1>1, <1>2, AllInOne
  <1>4. /\ Len(pool) = 0 /\ Len(filled) \in Nat /\ Len(armed) \in Nat /\ Len(partial) \in Nat
        /\ partial \in Seq(Pbufs)
    BY DEF TypeOK
  <1>5. Len(filled) + Len(armed) < DescCount
    BY <1>4, CountsAssumption DEF RxBuildDescCnt
  <1>6. Len(partial) <= BufferCount - DescCount
    <2>1. CASE partial = <<>>
      BY <2>1, CountsAssumption
    <2>2. CASE partial # <<>>
      <3> DEFINE d == partial[Len(partial)]
      <3>1. Len(partial) \in 1 .. Len(partial) /\ 1 \in 1 .. Len(partial)
        BY <1>4, <2>2
      <3>2. d \in Pbufs
        BY <1>4, <3>1
      <3>3. /\ d.part = 1 + Len(partial) - 1
            /\ d.part \in 1 .. Len(Sizes[d.frame])
            /\ d.part # Len(Sizes[d.frame])
        BY <2>2, <3>1 DEF Orders, PartialInOrder, InOrder, Exists, Ready, IsLast
      <3>4. Len(Sizes[d.frame]) <= BufferCount - DescCount + 1 /\ Len(Sizes[d.frame]) \in Nat
        <4>1. d.frame \in Frames
          BY <3>2 DEF Pbufs
        <4> QED
          BY <4>1, RoomAssumption, SizesAssumption
      <3> HIDE DEF d
      <3> QED
        BY <1>4, <3>3, <3>4, CountsAssumption
    <2> QED
      BY <2>1, <2>2
  <1> QED
    BY <1>3, <1>4, <1>5, <1>6, CountsAssumption

LEMMA StepSwitchedOff ==
  TypeOK /\ Orders /\ BuffersConserved /\ SwitchedOff /\ [Next]_vars => SwitchedOff'
  <1> SUFFICES ASSUME TypeOK, Orders, BuffersConserved, SwitchedOff, [Next]_vars
               PROVE  SwitchedOff'
    OBVIOUS
  <1>1. ASSUME NEW f \in Frames, Receive(f)
        PROVE  SwitchedOff'
    BY <1>1 DEF Receive, SwitchedOff, Ready, IsLast
  <1>2. CASE LowLevelInput
    BY <1>2 DEF LowLevelInput, SwitchedOff, Ready, IsLast
  <1>3. CASE ReadDescriptor
    BY <1>3 DEF ReadDescriptor, SwitchedOff
  <1>4. CASE ReadNoMore
    BY <1>4 DEF ReadNoMore, SwitchedOff
  <1>5. CASE RxAllocateCallback
    <2>1. CASE Allocate
      BY <1>5, <2>1 DEF RxAllocateCallback, Allocate, SwitchedOff
    <2>2. CASE PoolIsEmpty
      <3>1. held # {} \/ Ready
        BY <1>5, <2>2, SomebodyHolds DEF RxAllocateCallback, PoolIsEmpty
      <3> QED
        BY <1>5, <2>2, <3>1 DEF RxAllocateCallback, PoolIsEmpty, SwitchedOff, Ready, IsLast
    <2> QED
      BY <1>5, <2>1, <2>2 DEF RxAllocateCallback
  <1>6. CASE HandOver
    <2>1. /\ pc \in {"building", "returning"} /\ pc' = "idle" /\ pool' = pool
          /\ sRxBuffersAvailable' = sRxBuffersAvailable
      BY <1>6 DEF HandOver
    <2>2. ~sRxBuffersAvailable => held' # {}
      <3>1. CASE Ready
        BY <1>6, <3>1 DEF HandOver
      <3>2. CASE ~Ready
        BY <1>6, <3>2 DEF HandOver, SwitchedOff
      <3> QED
        BY <3>1, <3>2
    <2> QED
      BY <2>1, <2>2 DEF SwitchedOff
  <1>7. ASSUME NEW p \in held, FreeFirst(p)
        PROVE  SwitchedOff'
    BY <1>7 DEF FreeFirst, pbufFreeCustom, SwitchedOff
  <1>8. CASE UNCHANGED vars
    BY <1>8 DEF vars, SwitchedOff, Ready, IsLast
  <1> QED
    BY <1>1, <1>2, <1>3, <1>4, <1>5, <1>6, <1>7, <1>8 DEF Next, EthernetifInput, Free

(***************************************************************************)
(* Whenever reception stays off, the pool is empty and a packet is held,   *)
(* whose free switches it on, if a frame fits into the buffers that are    *)
(* left when all but one descriptor have one (RoomAssumption): the driver  *)
(* never starves itself (Ethernetif.cpp:57-58, 490-493).                   *)
(***************************************************************************)
THEOREM OffIsTemporary == Spec => []OffOnlyWhenHeld
  <1>1. Init => SwitchedOff
    BY DEF Init, SwitchedOff
  <1>2. Orders /\ SwitchedOff => OffOnlyWhenHeld
    BY DEF Orders, ReadyIsHandedOver, SwitchedOff, OffOnlyWhenHeld
  <1> QED
    BY <1>1, <1>2, InitOrders, StepTypes, StepOrders, InitConserved, StepConserves,
       StepSwitchedOff, PTL DEF Spec

=============================================================================
