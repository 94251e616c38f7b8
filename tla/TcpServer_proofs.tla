-------------------------- MODULE TcpServer_proofs --------------------------
(***************************************************************************)
(* Proofs about TcpServer, for any number of connections and control       *)
(* blocks, any heap of packet buffers and any outcome of lwIP's functions: *)
(* every callback finds the connection it is for; the packet buffers are   *)
(* accounted for; and the server implements EchoService.                   *)
(*                                                                         *)
(* 1. Inv: connections and control blocks lead to each other.              *)
(* 2. Kept(b): the heap holds the sequences b, the backlogs, and nothing   *)
(*    else.  pbuf_free and the chains it follows are recursive functions;  *)
(*    where the links have no cycle the equations they are defined by have *)
(*    a solution, and then what they do to a sequence is proved by         *)
(*    induction on its length.                                             *)
(* 3. What each callback does to b is what EchoService does to pending.    *)
(***************************************************************************)
EXTENDS TcpServer, SequenceTheorems, FiniteSetTheorems, TLAPS

\* The fields of a connection, a control block and a world, whatever they hold.
IsConnection(c) ==
    {"state", "controlBlock", "writeBuffer", "readBuffer"} \subseteq DOMAIN c
IsPcb(k) == {"state", "arg", "queue"} \subseteq DOMAIN k
IsWorld(w) == {"h", "c", "k"} \subseteq DOMAIN w /\ IsConnection(w.c) /\ IsPcb(w.k)

Shapes ==
    /\ DOMAIN conn = Connections
    /\ DOMAIN pcb = Pcbs
    /\ \A c \in Connections : IsConnection(conn[c])
    /\ \A k \in Pcbs : IsPcb(pcb[k])
    /\ count \in 0 .. MaxConnections

NothingSentWhenFree == \A k \in Pcbs : pcb[k].state = "free" => pcb[k].queue = << >>

Inv == Shapes /\ NothingSentWhenFree /\ LiveControlBlocks

-----------------------------------------------------------------------------
\* v is w but for buffers: the same connection, at the same point of its life.
Alike(v, w) ==
    /\ IsWorld(v)
    /\ v.c.state = w.c.state /\ v.c.controlBlock = w.c.controlBlock
    /\ v.k.state = w.k.state /\ v.k.arg = w.k.arg

LEMMA HeapAlike ==
  ASSUME NEW w, IsWorld(w), NEW b
  PROVE  Alike([w EXCEPT !.h = b], w)
  BY DEF Alike, IsWorld, IsConnection, IsPcb

LEMMA ReadBufferAlike ==
  ASSUME NEW w, IsWorld(w), NEW b
  PROVE  Alike([w EXCEPT !.c.readBuffer = b], w)
  BY DEF Alike, IsWorld, IsConnection, IsPcb

LEMMA WriteBufferAlike ==
  ASSUME NEW w, IsWorld(w), NEW b
  PROVE  Alike([w EXCEPT !.c.writeBuffer = b], w)
  BY DEF Alike, IsWorld, IsConnection, IsPcb

LEMMA WrittenAlike ==
  ASSUME NEW w, IsWorld(w), NEW x
  PROVE  Alike(Written(w, x), w)
  BY DEF Written, Alike, IsWorld, IsConnection, IsPcb

LEMMA AlikeTransitive ==
  ASSUME NEW u, NEW v, NEW w, Alike(u, v), Alike(v, w)
  PROVE  Alike(u, w)
  BY DEF Alike

\* Whatever writeToTcp comes to, it leaves the connection as it is.
LEMMA WriteToTcpAlike ==
  ASSUME NEW w, IsWorld(w), NEW v \in WriteToTcp(w)
  PROVE  Alike(v, w)
  <1>1. \E x : v = Written(w, x)
    BY DEF WriteToTcp
  <1> QED
    BY <1>1, WrittenAlike

LEMMA WriteAlike ==
  ASSUME NEW w, IsWorld(w), NEW p, NEW v \in Write(w, p)
  PROVE  Alike(v, w)
  <1>1. CASE w.c.state # "Established" \/ p = Null
    BY <1>1 DEF Write, Alike
  <1>2. CASE ~(w.c.state # "Established" \/ p = Null)
    <2>1. PICK u : Alike(u, w) /\ v \in WriteToTcp(u)
      <3>1. CASE w.c.writeBuffer # Null
        BY <1>2, <3>1, HeapAlike DEF Write
      <3>2. CASE w.c.writeBuffer = Null
        <4> DEFINE held == [w EXCEPT !.h = PbufRef(w.h, p)]
        <4>1. [w EXCEPT !.h = PbufRef(w.h, p), !.c.writeBuffer = p]
                 = [held EXCEPT !.c.writeBuffer = p]
          BY DEF IsWorld
        <4>2. Alike(held, w)
          BY HeapAlike
        <4> HIDE DEF held
        <4>3. Alike([held EXCEPT !.c.writeBuffer = p], held)
          BY <4>2, WriteBufferAlike DEF Alike
        <4>4. v \in WriteToTcp([w EXCEPT !.h = PbufRef(w.h, p), !.c.writeBuffer = p])
          BY <1>2, <3>2, Zenon DEF Write
        <4> QED
          BY <4>1, <4>2, <4>3, <4>4, AlikeTransitive, Zenon
      <3> QED
        BY <3>1, <3>2
    <2> QED
      BY <2>1, WriteToTcpAlike, AlikeTransitive DEF Alike
  <1> QED
    BY <1>1, <1>2

LEMMA EchoRecvAlike ==
  ASSUME NEW w, IsWorld(w), NEW v \in EchoRecv(w)
  PROVE  Alike(v, w)
  <1>1. PICK u \in Write(w, w.c.readBuffer) :
          v = [u EXCEPT !.h = PbufFree(u.h, u.c.readBuffer), !.c.readBuffer = Null]
    BY DEF EchoRecv
  <1>2. Alike(u, w)
    BY WriteAlike
  <1>3. Alike(v, u)
    BY <1>1, <1>2 DEF Alike, IsWorld, IsConnection, IsPcb
  <1> QED
    BY <1>2, <1>3, AlikeTransitive

\* A packet is read, echoed and freed without the connection's life changing.
LEMMA RecvPacketAlike ==
  ASSUME NEW w, IsWorld(w), NEW p, NEW v \in RecvPacket(w, p)
  PROVE  Alike(v, w)
  <1> DEFINE read == IF w.c.readBuffer # Null
                     THEN [w EXCEPT !.h = PbufChain(w.h, w.c.readBuffer, p)]
                     ELSE [w EXCEPT !.h = PbufRef(w.h, p), !.c.readBuffer = p]
  <1>1. Alike(read, w)
    <2>1. CASE w.c.readBuffer # Null
      BY <2>1, HeapAlike
    <2>2. CASE w.c.readBuffer = Null
      BY <2>2 DEF Alike, IsWorld, IsConnection, IsPcb
    <2> QED
      BY <2>1, <2>2
  <1>2. PICK u \in EchoRecv(read) : v = [u EXCEPT !.h = PbufFree(u.h, p)]
    BY DEF RecvPacket
  <1> HIDE DEF read
  <1>3. Alike(u, read)
    BY <1>1, EchoRecvAlike DEF Alike
  <1>4. Alike(v, u)
    BY <1>2, <1>3, HeapAlike DEF Alike
  <1> QED
    BY <1>1, <1>3, <1>4, AlikeTransitive

\* What a callback may leave: the connection as it was, closed with its block still
\* sending, or closed with its block gone.
Outcome(v, w) ==
    \/ Alike(v, w)
    \/ /\ IsWorld(v)
       /\ v.c.state = "Closed" /\ v.c.controlBlock = w.c.controlBlock
       /\ v.k.state = "closing" /\ v.k.arg = w.k.arg
    \/ /\ IsWorld(v)
       /\ v.c.state = "Closed"
       /\ v.k.state = "free" /\ v.k.queue = << >>

LEMMA ErrorOutcome ==
  ASSUME NEW w
  PROVE  /\ IsWorld(Error(w)) /\ Error(w).c.state = "Closed"
         /\ Error(w).k.state = "free" /\ Error(w).k.queue = << >>
  BY DEF Error, NewConnection, FreePcb, IsWorld, IsConnection, IsPcb

LEMMA CloseOutcome ==
  ASSUME NEW w, IsWorld(w), NEW v \in CloseResults(w)
  PROVE  Outcome(v, w)
  <1>1. CASE v = [w EXCEPT !.c.state = "Closed", !.k.state = "closing"]
    BY <1>1 DEF Outcome, IsWorld, IsConnection, IsPcb
  <1>2. CASE v = w
    BY <1>2 DEF Outcome, Alike
  <1>3. CASE v = Error(w)
    BY <1>3, ErrorOutcome DEF Outcome
  <1> QED
    BY <1>1, <1>2, <1>3 DEF CloseResults

LEMMA ProgressOutcome ==
  ASSUME NEW w, IsWorld(w), NEW v \in MakeProgress(w)
  PROVE  Outcome(v, w)
  <1>1. CASE w.c.writeBuffer # Null
    BY <1>1, WriteToTcpAlike DEF MakeProgress, Outcome
  <1>2. CASE w.c.writeBuffer = Null /\ w.c.state = "Closing"
    BY <1>2, CloseOutcome DEF MakeProgress
  <1>3. CASE w.c.writeBuffer = Null /\ w.c.state # "Closing"
    BY <1>3 DEF MakeProgress, Outcome, Alike
  <1> QED
    BY <1>1, <1>2, <1>3

-----------------------------------------------------------------------------
\* The connection of a block that is not free.
LEMMA BlockHasConnection ==
  ASSUME Inv, NEW k \in Pcbs, pcb[k].state # "free"
  PROVE  /\ pcb[k].arg \in Connections
         /\ conn[pcb[k].arg].controlBlock = k
         /\ IsConnection(conn[pcb[k].arg]) /\ IsPcb(pcb[k])
         /\ conn[pcb[k].arg].state \in {"Established", "Closing"} =>
               pcb[k].state = IF conn[pcb[k].arg].state = "Closing" THEN "finRcvd"
                              ELSE "open"
  <1>1. pcb[k].arg \in 1 .. count /\ conn[pcb[k].arg].controlBlock = k
    BY DEF Inv, LiveControlBlocks
  <1>2. pcb[k].arg \in Connections
    BY <1>1, ConnectionsAssumption DEF Inv, Shapes, Connections
  <1> QED
    BY <1>1, <1>2 DEF Inv, Shapes, LiveControlBlocks

\* A callback on k that leaves connection and block leading to each other, or both
\* at their end, leaves all of them so.
LEMMA ReturnKeeps ==
  ASSUME Inv, NEW k \in Pcbs, pcb[k].state # "free", NEW w, Return(k, w), IsWorld(w),
         w.k.state = "free" => w.k.queue = << >>,
         w.k.state # "free" => w.k.arg = pcb[k].arg /\ w.c.controlBlock = k,
         w.c.state \in {"Established", "Closing"} =>
            w.k.state = IF w.c.state = "Closing" THEN "finRcvd" ELSE "open"
  PROVE  Inv'
  <1> DEFINE c == pcb[k].arg
  <1>1. c \in Connections /\ c \in 1 .. count /\ conn[c].controlBlock = k
    BY BlockHasConnection DEF Inv, LiveControlBlocks
  <1>2. /\ conn' = [conn EXCEPT ![c] = w.c] /\ pcb' = [pcb EXCEPT ![k] = w.k]
        /\ count' = count
    BY DEF Return
  <1> HIDE DEF c
  <1>3. /\ DOMAIN conn = Connections /\ DOMAIN pcb = Pcbs
        /\ DOMAIN conn' = Connections /\ DOMAIN pcb' = Pcbs
    BY <1>2 DEF Inv, Shapes
  <1>4. /\ conn'[c] = w.c /\ \A d \in Connections : d # c => conn'[d] = conn[d]
        /\ pcb'[k] = w.k /\ \A l \in Pcbs : l # k => pcb'[l] = pcb[l]
    BY <1>1, <1>2, <1>3
  <1>5. Shapes'
    BY <1>2, <1>3, <1>4 DEF Inv, Shapes, IsWorld, Connections
  <1>6. NothingSentWhenFree'
    BY <1>4 DEF Inv, NothingSentWhenFree
  <1>7. ASSUME NEW d \in Connections, conn'[d].state \in {"Established", "Closing"}
        PROVE  /\ conn'[d].controlBlock \in Pcbs
               /\ pcb'[conn'[d].controlBlock].arg = d
               /\ pcb'[conn'[d].controlBlock].state
                     = IF conn'[d].state = "Closing" THEN "finRcvd" ELSE "open"
    <2>1. CASE d = c
      BY <1>4, <1>7, <2>1 DEF c
    <2>2. CASE d # c
      <3>1. /\ conn'[d] = conn[d] /\ conn[d].controlBlock \in Pcbs
            /\ pcb[conn[d].controlBlock].arg = d
            /\ pcb[conn[d].controlBlock].state
                  = IF conn[d].state = "Closing" THEN "finRcvd" ELSE "open"
        BY <1>4, <1>7, <2>2 DEF Inv, LiveControlBlocks
      <3>2. conn[d].controlBlock # k
        BY <2>2, <3>1 DEF c
      <3> QED
        BY <1>4, <3>1, <3>2
    <2> QED
      BY <2>1, <2>2
  <1>8. ASSUME NEW l \in Pcbs, pcb'[l].state # "free"
        PROVE  pcb'[l].arg \in 1 .. count' /\ conn'[pcb'[l].arg].controlBlock = l
    <2>1. CASE l = k
      BY <1>1, <1>2, <1>4, <1>8, <2>1 DEF c
    <2>2. CASE l # k
      <3>1. pcb'[l] = pcb[l] /\ pcb[l].arg \in 1 .. count
            /\ pcb[l].arg \in Connections /\ conn[pcb[l].arg].controlBlock = l
        BY <1>4, <1>8, <2>2, BlockHasConnection DEF Inv, LiveControlBlocks
      <3>2. pcb[l].arg # c
        BY <1>1, <2>2, <3>1
      <3> QED
        BY <1>2, <1>4, <3>1, <3>2
    <2> QED
      BY <2>1, <2>2
  <1>9. LiveControlBlocks'
    BY <1>7, <1>8 DEF LiveControlBlocks, Connections
  <1> QED
    BY <1>5, <1>6, <1>9 DEF Inv

\* The world a callback on k begins in.
LEMMA WorldIs ==
  ASSUME Inv, NEW k \in Pcbs, pcb[k].state # "free", NEW h, NEW b, IsPcb(b)
  PROVE  /\ IsWorld(World(k, h, b)) /\ World(k, h, b).c = conn[pcb[k].arg]
         /\ World(k, h, b).k = b
  BY BlockHasConnection DEF World, IsWorld

\* A callback with any of the outcomes above.
LEMMA OutcomeKeeps ==
  ASSUME Inv, NEW k \in Pcbs, pcb[k].state # "free", NEW w, IsWorld(w),
         w.c = conn[pcb[k].arg], w.k.state = pcb[k].state, w.k.arg = pcb[k].arg,
         NEW v, Outcome(v, w), Return(k, v)
  PROVE  Inv'
  <1>1. CASE Alike(v, w)
    BY <1>1, BlockHasConnection, ReturnKeeps DEF Alike
  <1>2. CASE /\ IsWorld(v)
             /\ v.c.state = "Closed" /\ v.c.controlBlock = w.c.controlBlock
             /\ v.k.state = "closing" /\ v.k.arg = w.k.arg
    BY <1>2, BlockHasConnection, ReturnKeeps
  <1>3. CASE IsWorld(v) /\ v.c.state = "Closed" /\ v.k.state = "free" /\ v.k.queue = << >>
    BY <1>3, ReturnKeeps
  <1> QED
    BY <1>1, <1>2, <1>3 DEF Outcome

LEMMA RecvKeeps ==
  ASSUME Inv, NEW k \in Pcbs, Recv(k)
  PROVE  Inv'
  <1>1. PICK h, p, v : /\ pcb[k].state = "open"
                       /\ v \in RecvPacket(World(k, h, pcb[k]), p)
                       /\ Return(k, v)
    BY DEF Recv
  <1> DEFINE w == World(k, h, pcb[k])
  <1>2. IsWorld(w) /\ w.c = conn[pcb[k].arg] /\ w.k = pcb[k]
    BY <1>1, BlockHasConnection, WorldIs
  <1>3. v \in RecvPacket(w, p)
    BY <1>1
  <1> HIDE DEF w
  <1>4. Outcome(v, w)
    BY <1>2, <1>3, RecvPacketAlike DEF Outcome
  <1> QED
    BY <1>1, <1>2, <1>4, OutcomeKeeps

LEMMA RecvCloseKeeps ==
  ASSUME Inv, NEW k \in Pcbs, RecvClose(k)
  PROVE  Inv'
  <1> DEFINE b == [pcb[k] EXCEPT !.state = "finRcvd"]
             w == World(k, Heap, b)
             u == [w EXCEPT !.c.state = "Closing"]
  <1>1. PICK v \in RecvFin(w) : Return(k, v)
    BY DEF RecvClose
  <1>2. pcb[k].state = "open"
    BY DEF RecvClose
  <1>3. /\ pcb[k].arg \in Connections /\ conn[pcb[k].arg].controlBlock = k
        /\ IsPcb(pcb[k])
    BY <1>2, BlockHasConnection
  <1>4. IsPcb(b) /\ b.state = "finRcvd" /\ b.arg = pcb[k].arg
    BY <1>3 DEF IsPcb
  <1> HIDE DEF b
  <1>5. IsWorld(w) /\ w.c = conn[pcb[k].arg] /\ w.k = b
    BY <1>2, <1>4, WorldIs
  <1> HIDE DEF w
  <1>6. /\ IsWorld(u) /\ u.c.state = "Closing" /\ u.c.controlBlock = k
        /\ u.k.state = "finRcvd" /\ u.k.arg = pcb[k].arg
    BY <1>3, <1>4, <1>5 DEF IsWorld, IsConnection, IsPcb
  <1>7. v \in WriteToTcp(u) \/ v \in CloseResults(u)
    BY <1>1 DEF RecvFin
  <1> HIDE DEF u
  <1>8. Outcome(v, u)
    BY <1>6, <1>7, WriteToTcpAlike, CloseOutcome DEF Outcome
  <1>9. CASE Alike(v, u)
    BY <1>1, <1>2, <1>6, <1>9, ReturnKeeps DEF Alike
  <1>10. CASE /\ IsWorld(v)
              /\ v.c.state = "Closed" /\ v.c.controlBlock = u.c.controlBlock
              /\ v.k.state = "closing" /\ v.k.arg = u.k.arg
    BY <1>1, <1>2, <1>6, <1>10, ReturnKeeps
  <1>11. CASE IsWorld(v) /\ v.c.state = "Closed" /\ v.k.state = "free"
              /\ v.k.queue = << >>
    BY <1>1, <1>2, <1>11, ReturnKeeps
  <1> QED
    BY <1>8, <1>9, <1>10, <1>11 DEF Outcome

LEMMA SentKeeps ==
  ASSUME Inv, NEW k \in Pcbs, Sent(k)
  PROVE  Inv'
  <1>1. PICK n \in 1 .. Len(pcb[k].queue) :
          \E v \in MakeProgress(World(k, Heap, [pcb[k] EXCEPT
                                   !.queue = SubSeq(@, n + 1, Len(@))])) : Return(k, v)
    BY DEF Sent
  <1> DEFINE b == [pcb[k] EXCEPT !.queue = SubSeq(@, n + 1, Len(@))]
             w == World(k, Heap, b)
  <1>2. PICK v \in MakeProgress(w) : Return(k, v)
    BY <1>1
  <1>3. pcb[k].state # "free"
    <2> SUFFICES ASSUME pcb[k].state = "free" PROVE FALSE
      OBVIOUS
    <2>1. pcb[k].queue = << >>
      BY DEF Inv, NothingSentWhenFree
    <2>2. n \in 1 .. 0
      BY <2>1
    <2> QED
      BY <2>2
  <1>4. IsPcb(pcb[k])
    BY DEF Inv, Shapes
  <1>5. IsPcb(b) /\ b.state = pcb[k].state /\ b.arg = pcb[k].arg
    BY <1>4 DEF IsPcb
  <1> HIDE DEF b
  <1>6. IsWorld(w) /\ w.c = conn[pcb[k].arg] /\ w.k = b
    BY <1>3, <1>5, WorldIs
  <1> HIDE DEF w
  <1>7. Outcome(v, w)
    BY <1>6, ProgressOutcome
  <1> QED
    BY <1>2, <1>3, <1>5, <1>6, <1>7, OutcomeKeeps

LEMMA PollKeeps ==
  ASSUME Inv, NEW k \in Pcbs, Poll(k)
  PROVE  Inv'
  <1> DEFINE w == World(k, Heap, pcb[k])
  <1>1. PICK v \in MakeProgress(w) : Return(k, v)
    BY DEF Poll
  <1>2. pcb[k].state # "free" /\ IsPcb(pcb[k])
    BY DEF Poll, Inv, Shapes
  <1>3. IsWorld(w) /\ w.c = conn[pcb[k].arg] /\ w.k = pcb[k]
    BY <1>2, WorldIs
  <1> HIDE DEF w
  <1>4. Outcome(v, w)
    BY <1>3, ProgressOutcome
  <1> QED
    BY <1>1, <1>2, <1>3, <1>4, OutcomeKeeps

LEMMA ErrKeeps ==
  ASSUME Inv, NEW k \in Pcbs, Err(k)
  PROVE  Inv'
  <1>1. pcb[k].state # "free" /\ Return(k, Error(World(k, Heap, pcb[k])))
    BY DEF Err
  <1> QED
    BY <1>1, ErrorOutcome, ReturnKeeps

LEMMA AcceptKeeps ==
  ASSUME Inv, NEW k \in Pcbs, Accept(k)
  PROVE  Inv'
  <1> DEFINE c == count + 1
             new == [NewConnection EXCEPT !.state = "Established", !.controlBlock = k]
             block == [FreePcb EXCEPT !.state = "open", !.arg = c]
  <1>1. /\ pcb[k].state = "free" /\ count < MaxConnections /\ count' = c
        /\ conn' = [conn EXCEPT ![c] = new] /\ pcb' = [pcb EXCEPT ![k] = block]
    BY DEF Accept
  <1>2. IsConnection(new) /\ new.state = "Established" /\ new.controlBlock = k
    BY DEF NewConnection, IsConnection
  <1>3. IsPcb(block) /\ block.state = "open" /\ block.arg = c
    BY DEF FreePcb, IsPcb
  <1>4. c \in Connections /\ c \notin 1 .. count /\ c \in 0 .. MaxConnections
        /\ c \in 1 .. c /\ \A a \in 1 .. count : a \in 1 .. c /\ a \in Connections
    BY <1>1, ConnectionsAssumption DEF Inv, Shapes, Connections
  <1> HIDE DEF c, new, block
  <1>5. /\ DOMAIN conn = Connections /\ DOMAIN pcb = Pcbs
        /\ DOMAIN conn' = Connections /\ DOMAIN pcb' = Pcbs
    BY <1>1 DEF Inv, Shapes
  <1>6. /\ conn'[c] = new /\ \A d \in Connections : d # c => conn'[d] = conn[d]
        /\ pcb'[k] = block /\ \A l \in Pcbs : l # k => pcb'[l] = pcb[l]
    BY <1>1, <1>4, <1>5
  <1>7. Shapes'
    BY <1>1, <1>2, <1>3, <1>4, <1>5, <1>6 DEF Inv, Shapes, Connections
  <1>8. NothingSentWhenFree'
    BY <1>3, <1>6 DEF Inv, NothingSentWhenFree
  <1>9. ASSUME NEW d \in Connections, conn'[d].state \in {"Established", "Closing"}
        PROVE  /\ conn'[d].controlBlock \in Pcbs
               /\ pcb'[conn'[d].controlBlock].arg = d
               /\ pcb'[conn'[d].controlBlock].state
                     = IF conn'[d].state = "Closing" THEN "finRcvd" ELSE "open"
    <2>1. CASE d = c
      BY <1>2, <1>3, <1>6, <2>1
    <2>2. CASE d # c
      <3>1. /\ conn'[d] = conn[d] /\ conn[d].controlBlock \in Pcbs
            /\ pcb[conn[d].controlBlock].arg = d
            /\ pcb[conn[d].controlBlock].state
                  = IF conn[d].state = "Closing" THEN "finRcvd" ELSE "open"
        BY <1>6, <1>9, <2>2 DEF Inv, LiveControlBlocks
      <3>2. conn[d].controlBlock # k
        BY <1>1, <3>1
      <3> QED
        BY <1>6, <3>1, <3>2
    <2> QED
      BY <2>1, <2>2
  <1>10. ASSUME NEW l \in Pcbs, pcb'[l].state # "free"
         PROVE  pcb'[l].arg \in 1 .. count' /\ conn'[pcb'[l].arg].controlBlock = l
    <2>1. CASE l = k
      BY <1>1, <1>2, <1>3, <1>4, <1>6, <2>1
    <2>2. CASE l # k
      <3>1. pcb'[l] = pcb[l] /\ pcb[l].arg \in 1 .. count
            /\ conn[pcb[l].arg].controlBlock = l
        BY <1>6, <1>10, <2>2 DEF Inv, LiveControlBlocks
      <3>2. pcb[l].arg # c /\ pcb[l].arg \in Connections /\ pcb[l].arg \in 1 .. c
        BY <1>4, <3>1
      <3> QED
        BY <1>1, <1>6, <3>1, <3>2
    <2> QED
      BY <2>1, <2>2
  <1>11. LiveControlBlocks'
    BY <1>9, <1>10 DEF LiveControlBlocks, Connections
  <1> QED
    BY <1>7, <1>8, <1>11 DEF Inv

LEMMA PcbFreedKeeps ==
  ASSUME Inv, NEW k \in Pcbs, PcbFreed(k)
  PROVE  Inv'
  <1>1. /\ pcb[k].state = "closing" /\ pcb' = [pcb EXCEPT ![k] = FreePcb]
        /\ UNCHANGED <<conn, count>>
    BY DEF PcbFreed
  <1>2. IsPcb(FreePcb) /\ FreePcb.state = "free" /\ FreePcb.queue = << >>
    BY DEF FreePcb, IsPcb
  <1>3. /\ DOMAIN pcb' = Pcbs /\ pcb'[k] = FreePcb
        /\ \A l \in Pcbs : l # k => pcb'[l] = pcb[l]
    BY <1>1 DEF Inv, Shapes
  <1>4. Shapes' /\ NothingSentWhenFree'
    BY <1>1, <1>2, <1>3 DEF Inv, Shapes, NothingSentWhenFree, Connections
  <1>5. \A d \in Connections :
           conn[d].state \in {"Established", "Closing"} => conn[d].controlBlock # k
    BY <1>1 DEF Inv, LiveControlBlocks
  <1>6. LiveControlBlocks'
    BY <1>1, <1>2, <1>3, <1>5 DEF Inv, LiveControlBlocks, Connections
  <1> QED
    BY <1>4, <1>6 DEF Inv

\* A block is the same but for its window.
SameBlocks ==
    /\ DOMAIN pcb' = DOMAIN pcb
    /\ \A l \in Pcbs : /\ IsPcb(pcb'[l])
                       /\ pcb'[l].state = pcb[l].state
                       /\ pcb'[l].arg = pcb[l].arg
                       /\ pcb'[l].queue = pcb[l].queue

LEMMA WindowAlone ==
  ASSUME Shapes, NEW k \in Pcbs, Window(k)
  PROVE  SameBlocks
  <1>1. pcb' = [pcb EXCEPT ![k].shut = ~@] /\ DOMAIN pcb = Pcbs
    BY DEF Window, Shapes
  <1>2. \A l \in Pcbs : IsPcb(pcb[l])
    BY DEF Shapes
  <1> QED
    BY <1>1, <1>2 DEF SameBlocks, IsPcb

LEMMA WindowKeeps ==
  ASSUME Inv, NEW k \in Pcbs, Window(k)
  PROVE  Inv'
  <1>1. UNCHANGED <<conn, count>>
    BY DEF Window
  <1>2. SameBlocks
    BY WindowAlone DEF Inv
  <1> QED
    BY <1>1, <1>2 DEF SameBlocks, Inv, Shapes, NothingSentWhenFree, LiveControlBlocks,
                      Connections

LEMMA InvInit == Init => Inv
  <1> SUFFICES ASSUME Init PROVE Inv
    OBVIOUS
  <1>1. /\ conn = [c \in Connections |-> NewConnection]
        /\ pcb = [k \in Pcbs |-> FreePcb] /\ count = 0
    BY DEF Init
  <1>2. IsConnection(NewConnection) /\ NewConnection.state = "Closed"
    BY DEF NewConnection, IsConnection
  <1>3. IsPcb(FreePcb) /\ FreePcb.state = "free" /\ FreePcb.queue = << >>
    BY DEF FreePcb, IsPcb
  <1> QED
    BY <1>1, <1>2, <1>3, ConnectionsAssumption
    DEF Inv, Shapes, NothingSentWhenFree, LiveControlBlocks

LEMMA InvStep == Inv /\ [Next]_vars => Inv'
  <1> SUFFICES ASSUME Inv, [Next]_vars PROVE Inv'
    OBVIOUS
  <1>1. ASSUME UNCHANGED <<conn, count, pcb>> PROVE Inv'
    BY <1>1 DEF Inv, Shapes, NothingSentWhenFree, LiveControlBlocks, Connections
  <1>2. CASE EchoInit \/ UNCHANGED vars
    BY <1>1, <1>2 DEF EchoInit, ServerInit, vars
  <1>3. ASSUME NEW k \in Pcbs, AcceptCallback(k) PROVE Inv'
    BY <1>1, <1>3, AcceptKeeps DEF AcceptCallback, AcceptRefused
  <1> QED
    BY <1>2, <1>3, RecvKeeps, RecvCloseKeeps, SentKeeps, PollKeeps, ErrKeeps,
       WindowKeeps, PcbFreedKeeps
    DEF Next

LEMMA Inductive == Spec => []Inv
  BY InvInit, InvStep, PTL DEF Spec

(***************************************************************************)
(* A connection that is not closed has a live control block that leads     *)
(* back to it, and every callback finds the control block it was called    *)
(* with, although lwIP uses a block again whose pointer the connection     *)
(* keeps (TcpServer.cpp:87, 263, 278, 293).                                *)
(***************************************************************************)
THEOREM CallbacksFindTheirConnection == Spec => []LiveControlBlocks
  <1>1. Inv => LiveControlBlocks
    BY DEF Inv
  <1> QED
    BY <1>1, Inductive, PTL

-----------------------------------------------------------------------------
(* Induction, and functions defined by recursion along chains of pbufs      *)

\* A set of numbers has a least one.
LEMMA LeastExists ==
  ASSUME NEW T \in SUBSET Nat, T # {}
  PROVE  \E n \in T : \A m \in T : n <= m
  <1> DEFINE R == OpToRel(<, Nat)
  <1>1. IsWellFoundedOn(R, Nat)
    BY NatLessThanWellFounded, Zenon
  <1>2. \A m, n \in Nat : m < n => <<m, n>> \in R
    BY DEF OpToRel
  <1> HIDE DEF R
  <1>3. PICK n \in T : \A m \in T : <<m, n>> \notin R
    BY <1>1, WFMin, Zenon
  <1>4. \A m \in T : n <= m
    <2> SUFFICES ASSUME NEW m \in T, ~(n <= m) PROVE FALSE
      BY Zenon
    <2>1. n \in Nat /\ m \in Nat
      OBVIOUS
    <2>2. m < n
      BY <2>1
    <2> QED
      BY <1>2, <1>3, <2>1, <2>2, Zenon
  <1> QED
    BY <1>4

\* Induction, for a set of numbers.
LEMMA AllNumbers ==
  ASSUME NEW S \in SUBSET Nat, 0 \in S, \A n \in S : n + 1 \in S
  PROVE  S = Nat
  <1> DEFINE T == Nat \ S
  <1>1. CASE T # {}
    <2>1. PICK n \in T : \A m \in T : n <= m
      BY <1>1, LeastExists, Zenon
    <2>2. n \in Nat /\ n # 0
      BY <2>1
    <2>3. n - 1 \in Nat /\ ~(n <= n - 1) /\ n - 1 + 1 = n
      BY <2>2
    <2>4. n - 1 \in S
      BY <2>1, <2>3
    <2> QED
      BY <2>1, <2>3, <2>4
  <1> QED
    BY <1>1

PbufsOrNull == Pbufs \cup {Null}

\* No pbuf is chained, however far on, to itself: every link leads down.
Descends(nx, r) ==
    /\ r \in [PbufsOrNull -> Nat]
    /\ \A q \in Pbufs : r[nx[q]] < r[q] /\ r[Null] < r[q]

Ranked(nx) ==
    /\ nx \in [Pbufs -> PbufsOrNull]
    /\ \E r : Descends(nx, r)

\* Along such links every recursion has a solution: a function that is leaf where
\* it stops, and elsewhere step of its value at the next pbuf.
Solves(g, V, nx, stop, leaf, step, below) ==
    /\ g \in [PbufsOrNull -> V]
    /\ \A q \in below : g[q] = IF q \in stop THEN leaf[q] ELSE step[q][g[nx[q]]]

Below(r, n) == {q \in PbufsOrNull : r[q] < n}

\* By induction on n: the recursion has a solution below n.
LEMMA SolvedBelow ==
  ASSUME NEW V, NEW nx \in [Pbufs -> PbufsOrNull], NEW r, Descends(nx, r),
         NEW stop, Null \in stop, NEW leaf \in [PbufsOrNull -> V],
         NEW step \in [Pbufs -> [V -> V]], NEW n \in Nat
  PROVE  \E g : Solves(g, V, nx, stop, leaf, step, Below(r, n))
  <1> DEFINE Solved == {m \in Nat : \E g : Solves(g, V, nx, stop, leaf, step, Below(r, m))}
  <1>1. 0 \in Solved
    <2>1. Below(r, 0) = {}
      BY DEF Descends, Below
    <2>2. Solves(leaf, V, nx, stop, leaf, step, Below(r, 0))
      BY <2>1 DEF Solves
    <2> QED
      BY <2>2
  <1>2. ASSUME NEW m \in Solved PROVE m + 1 \in Solved
    <2>1. PICK g : Solves(g, V, nx, stop, leaf, step, Below(r, m))
      OBVIOUS
    <2> DEFINE h == [q \in PbufsOrNull |->
                        IF q \in Below(r, m) THEN g[q]
                        ELSE IF q \in stop THEN leaf[q] ELSE step[q][g[nx[q]]]]
    <2>2. ASSUME NEW q \in PbufsOrNull, q \notin stop
          PROVE  q \in Pbufs /\ nx[q] \in PbufsOrNull /\ r[nx[q]] < r[q]
                 /\ step[q] \in [V -> V] /\ g[nx[q]] \in V
      BY <2>1, <2>2 DEF Descends, PbufsOrNull, Solves
    <2>3. h \in [PbufsOrNull -> V]
      BY <2>1, <2>2 DEF Solves
    <2>4. ASSUME NEW q \in Below(r, m + 1)
          PROVE  h[q] = IF q \in stop THEN leaf[q] ELSE step[q][h[nx[q]]]
      <3>1. q \in PbufsOrNull /\ r[q] < m + 1 /\ r[q] \in Nat /\ m \in Nat
        BY DEF Descends, Below
      <3>2. h[q] = IF q \in stop THEN leaf[q] ELSE step[q][g[nx[q]]]
        BY <2>1, <3>1 DEF Solves
      <3>3. ASSUME q \notin stop PROVE h[nx[q]] = g[nx[q]]
        <4>1. nx[q] \in PbufsOrNull /\ r[nx[q]] < r[q] /\ r[nx[q]] \in Nat
          BY <2>2, <3>1, <3>3 DEF Descends
        <4>2. nx[q] \in Below(r, m)
          BY <3>1, <4>1 DEF Below
        <4> QED
          BY <4>1, <4>2
      <3> QED
        BY <3>2, <3>3
    <2> HIDE DEF h
    <2>5. Solves(h, V, nx, stop, leaf, step, Below(r, m + 1))
      BY <2>3, <2>4 DEF Solves
    <2>6. m + 1 \in Nat
      OBVIOUS
    <2> QED
      BY <2>5, <2>6
  <1>3. Solved = Nat
    <2> HIDE DEF Solved
    <2>1. Solved \in SUBSET Nat
      BY DEF Solved
    <2> QED
      BY <1>1, <1>2, <2>1, AllNumbers
  <1> QED
    BY <1>3

\* What a recursion computes, and how; and its solution.
Recursion(V, nx, stop, leaf, step) ==
    /\ Ranked(nx)
    /\ Null \in stop
    /\ leaf \in [PbufsOrNull -> V]
    /\ step \in [Pbufs -> [V -> V]]

\* The solutions below each number agree, and make one solution together.
LEMMA RecursionSolved ==
  ASSUME NEW V, NEW nx, NEW stop, NEW leaf, NEW step,
         Recursion(V, nx, stop, leaf, step)
  PROVE  \E g : Solves(g, V, nx, stop, leaf, step, PbufsOrNull)
  <1>1. PICK r : Descends(nx, r)
    BY DEF Ranked, Recursion
  <1>2. /\ nx \in [Pbufs -> PbufsOrNull] /\ Null \in stop
        /\ leaf \in [PbufsOrNull -> V] /\ step \in [Pbufs -> [V -> V]]
    BY DEF Ranked, Recursion
  <1>3. ASSUME NEW m \in Nat, NEW n \in Nat,
               NEW g, Solves(g, V, nx, stop, leaf, step, Below(r, m)),
               NEW h, Solves(h, V, nx, stop, leaf, step, Below(r, n))
        PROVE  \A q \in PbufsOrNull : r[q] < m /\ r[q] < n => g[q] = h[q]
    <2> DEFINE Differ == {x \in PbufsOrNull : r[x] < m /\ r[x] < n /\ g[x] # h[x]}
               Ranks == {r[x] : x \in Differ}
    <2>1. CASE Differ # {}
      <3>1. Ranks \in SUBSET Nat /\ Ranks # {}
        BY <1>1, <2>1 DEF Descends
      <3>2. PICK k \in Ranks : \A j \in Ranks : k <= j
        BY <3>1, LeastExists
      <3>3. PICK x \in Differ : r[x] = k
        BY <3>2
      <3>4. /\ g[x] = IF x \in stop THEN leaf[x] ELSE step[x][g[nx[x]]]
            /\ h[x] = IF x \in stop THEN leaf[x] ELSE step[x][h[nx[x]]]
        BY <1>3, <3>3 DEF Solves, Below
      <3>5. x \notin stop /\ g[nx[x]] # h[nx[x]]
        BY <3>3, <3>4
      <3>6. /\ x \in Pbufs /\ nx[x] \in PbufsOrNull /\ r[nx[x]] < r[x]
            /\ r[x] \in Nat /\ r[nx[x]] \in Nat /\ r[x] < m /\ r[x] < n
        BY <1>1, <1>2, <3>3, <3>5 DEF Descends, PbufsOrNull
      <3>7. r[nx[x]] < m /\ r[nx[x]] < n /\ ~(r[x] <= r[nx[x]])
        BY <3>6
      <3>8. r[nx[x]] \in Ranks
        BY <3>5, <3>6, <3>7
      <3> QED
        BY <3>2, <3>3, <3>7, <3>8
    <2> QED
      BY <2>1
  <1> DEFINE Part(m) == CHOOSE g : Solves(g, V, nx, stop, leaf, step, Below(r, m))
             f == [q \in PbufsOrNull |-> Part(r[q] + 1)[q]]
  <1>4. ASSUME NEW q \in PbufsOrNull
        PROVE  r[q] \in Nat /\ r[q] + 1 \in Nat /\ r[q] < r[q] + 1
    BY <1>1 DEF Descends
  <1>5. ASSUME NEW m \in Nat
        PROVE  Solves(Part(m), V, nx, stop, leaf, step, Below(r, m))
    <2>1. \E g : Solves(g, V, nx, stop, leaf, step, Below(r, m))
      BY <1>1, <1>2, SolvedBelow
    <2> QED
      BY <2>1, Zenon
  <1> HIDE DEF Part
  <1>6. f \in [PbufsOrNull -> V]
    <2>1. ASSUME NEW q \in PbufsOrNull PROVE Part(r[q] + 1)[q] \in V
      BY <1>4, <1>5 DEF Solves
    <2> QED
      BY <2>1
  <1>7. ASSUME NEW q \in PbufsOrNull
        PROVE  f[q] = IF q \in stop THEN leaf[q] ELSE step[q][f[nx[q]]]
    <2>1. f[q] = IF q \in stop THEN leaf[q] ELSE step[q][Part(r[q] + 1)[nx[q]]]
      <3>1. q \in Below(r, r[q] + 1)
        BY <1>4 DEF Below
      <3>2. Solves(Part(r[q] + 1), V, nx, stop, leaf, step, Below(r, r[q] + 1))
        BY <1>4, <1>5
      <3> QED
        BY <3>1, <3>2 DEF Solves
    <2>2. ASSUME q \notin stop PROVE Part(r[q] + 1)[nx[q]] = f[nx[q]]
      <3>1. nx[q] \in PbufsOrNull /\ r[nx[q]] < r[q]
        BY <1>1, <1>2, <2>2 DEF Descends, PbufsOrNull
      <3>2. /\ r[nx[q]] < r[q] + 1 /\ r[nx[q]] < r[nx[q]] + 1
            /\ r[q] + 1 \in Nat /\ r[nx[q]] + 1 \in Nat
        BY <1>4, <3>1
      <3>3. Part(r[q] + 1)[nx[q]] = Part(r[nx[q]] + 1)[nx[q]]
        <4>1. /\ Solves(Part(r[q] + 1), V, nx, stop, leaf, step, Below(r, r[q] + 1))
              /\ Solves(Part(r[nx[q]] + 1), V, nx, stop, leaf, step, Below(r, r[nx[q]] + 1))
          BY <1>5, <3>2
        <4> QED
          <5> DEFINE g == Part(r[q] + 1)
                     h == Part(r[nx[q]] + 1)
                     m == r[q] + 1
                     n == r[nx[q]] + 1
          <5> HIDE DEF g, h, m, n
          <5>1. /\ Solves(g, V, nx, stop, leaf, step, Below(r, m))
                /\ Solves(h, V, nx, stop, leaf, step, Below(r, n))
            BY <4>1 DEF g, h, m, n
          <5>2. m \in Nat /\ n \in Nat /\ r[nx[q]] < m /\ r[nx[q]] < n
            BY <3>2 DEF m, n
          <5>3. \A y \in PbufsOrNull : r[y] < m /\ r[y] < n => g[y] = h[y]
            BY <1>3, <5>1, <5>2
          <5> QED
            BY <3>1, <5>2, <5>3 DEF g, h
      <3> QED
        BY <3>1, <3>3
    <2> QED
      BY <2>1, <2>2
  <1> HIDE DEF f
  <1> QED
    BY <1>6, <1>7 DEF Solves

-----------------------------------------------------------------------------
(* Chains of pbufs                                                          *)

At(s, i) == IF i \in 1 .. Len(s) THEN s[i] ELSE Null

Heaps == [ref : [Pbufs -> Nat], next : [Pbufs -> PbufsOrNull]]

\* T is a sequence of different pbufs, and from the a-th on they are chained.
Chained(nx, T, a) ==
    /\ T \in Seq(Pbufs)
    /\ \A i, j \in 1 .. Len(T) : T[i] = T[j] => i = j
    /\ \A i \in 1 .. Len(T) : i >= a => nx[T[i]] = At(T, i + 1)

\* Cutting links leaves no cycle.
LEMMA RankedLess ==
  ASSUME NEW nx, Ranked(nx), NEW ny \in [Pbufs -> PbufsOrNull],
         \A q \in Pbufs : ny[q] \in {nx[q], Null}
  PROVE  Ranked(ny)
  <1>1. PICK r : Descends(nx, r)
    BY DEF Ranked
  <1>2. Descends(ny, r)
    BY <1>1 DEF Descends
  <1> QED
    BY <1>2 DEF Ranked

\* ChainOf satisfies the equation it is defined by.
LEMMA ChainOfUnfolds ==
  ASSUME NEW nx, Ranked(nx)
  PROVE  /\ ChainOf(nx, Null) = << >>
         /\ \A q \in Pbufs : ChainOf(nx, q) = << q >> \o ChainOf(nx, nx[q])
  <1> DEFINE V == Seq(Pbufs)
             stop == {Null}
             leaf == [q \in PbufsOrNull |-> << >>]
             step == [q \in Pbufs |-> [s \in V |-> << q >> \o s]]
             E(f) == f = [q \in Pbufs \cup {Null} |->
                             IF q = Null THEN << >> ELSE << q >> \o f[nx[q]]]
             f == CHOOSE g : E(g)
  <1>1. nx \in [Pbufs -> PbufsOrNull]
    BY DEF Ranked
  <1>2. PICK g : Solves(g, V, nx, stop, leaf, step, PbufsOrNull)
    <2>1. Recursion(V, nx, stop, leaf, step)
      BY DEF Recursion
    <2> HIDE DEF leaf, step, V, stop
    <2> QED
      BY <2>1, RecursionSolved, Zenon
  <1>3. E(g)
    <2>1. g \in [PbufsOrNull -> V]
      BY <1>2 DEF Solves
    <2>2. ASSUME NEW q \in PbufsOrNull
          PROVE  g[q] = IF q = Null THEN << >> ELSE << q >> \o g[nx[q]]
      <3>1. CASE q = Null
        BY <1>2, <3>1 DEF Solves
      <3>2. CASE q # Null
        <4>1. q \in Pbufs /\ g[nx[q]] \in V
          BY <1>1, <2>1, <3>2 DEF PbufsOrNull
        <4>2. step[q][g[nx[q]]] = << q >> \o g[nx[q]]
          BY <4>1
        <4> HIDE DEF step
        <4> QED
          BY <1>2, <3>2, <4>2 DEF Solves
      <3> QED
        BY <3>1, <3>2
    <2> QED
      BY <2>1, <2>2 DEF PbufsOrNull
  <1>4. E(f)
    BY <1>3, Zenon
  <1>5. \A p : ChainOf(nx, p) = f[p]
    BY Zenon DEF ChainOf
  <1> HIDE DEF f
  <1>6. f[Null] = << >>
    BY <1>4
  <1>7. ASSUME NEW q \in Pbufs PROVE f[q] = << q >> \o f[nx[q]]
    BY <1>4, NullAssumption
  <1> QED
    BY <1>5, <1>6, <1>7

\* What ChainOf finds is what is chained.
LEMMA ChainIs ==
  ASSUME NEW nx, Ranked(nx), NEW T, NEW a \in Nat \ {0}, Chained(nx, T, a),
         a <= Len(T) + 1
  PROVE  ChainOf(nx, At(T, a)) = SubSeq(T, a, Len(T))
  <1> DEFINE L == Len(T)
             S == {j \in Nat : L + 1 - j >= a =>
                     ChainOf(nx, At(T, L + 1 - j)) = SubSeq(T, L + 1 - j, L)}
  <1>1. T \in Seq(Pbufs) /\ L \in Nat
    BY DEF Chained
  <1>2. 0 \in S
    <2>1. At(T, L + 1) = Null /\ SubSeq(T, L + 1, L) = << >>
      BY <1>1 DEF At
    <2> HIDE DEF L
    <2>2. L + 1 - 0 = L + 1
      BY <1>1
    <2> QED
      BY <1>1, <2>1, <2>2, ChainOfUnfolds
  <1>3. ASSUME NEW j \in S PROVE j + 1 \in S
    <2>1. CASE L + 1 - (j + 1) >= a
      <3> DEFINE i == L - j
      <3>1. i \in 1 .. L /\ i >= a /\ L + 1 - j = i + 1 /\ L + 1 - (j + 1) = i
        BY <1>1, <2>1
      <3>2. ChainOf(nx, At(T, i + 1)) = SubSeq(T, i + 1, L)
        BY <3>1
      <3> HIDE DEF i
      <3>3. T[i] \in Pbufs /\ At(T, i) = T[i] /\ nx[T[i]] = At(T, i + 1)
        BY <1>1, <3>1 DEF Chained, At
      <3>4. ChainOf(nx, T[i]) = << T[i] >> \o SubSeq(T, i + 1, L)
        BY <3>2, <3>3, ChainOfUnfolds
      <3>5. << T[i] >> \o SubSeq(T, i + 1, L) = SubSeq(T, i, L)
        BY <1>1, <3>1
      <3>6. ChainOf(nx, At(T, L + 1 - (j + 1))) = SubSeq(T, L + 1 - (j + 1), L)
        BY ONLY <3>1, <3>3, <3>4, <3>5
      <3> QED
        BY <3>6
    <2> QED
      BY <2>1
  <1>4. S = Nat
    <2> HIDE DEF S
    <2>1. S \in SUBSET Nat
      BY DEF S
    <2> QED
      BY <1>2, <1>3, <2>1, AllNumbers
  <1>5. PICK j \in Nat : L + 1 - j = a
    <2>1. L + 1 - a \in Nat /\ L + 1 - (L + 1 - a) = a
      BY <1>1
    <2> QED
      BY <2>1
  <1>6. j \in S
    BY <1>4
  <1>7. ChainOf(nx, At(T, L + 1 - j)) = SubSeq(T, L + 1 - j, L)
    BY <1>5, <1>6
  <1> QED
    BY ONLY <1>5, <1>7

-----------------------------------------------------------------------------
(* pbuf_free                                                                *)

\* What is done to one pbuf of a heap leaves a heap.
LEMMA HeapTypes ==
  ASSUME NEW h \in Heaps, NEW q \in Pbufs
  PROVE  /\ h.ref \in [Pbufs -> Nat] /\ h.next \in [Pbufs -> PbufsOrNull]
         /\ [h EXCEPT !.ref[q] = 0, !.next[q] = Null] \in Heaps
         /\ h.ref[q] > 0 => [h EXCEPT !.ref[q] = @ - 1] \in Heaps
         /\ [h EXCEPT !.ref[q] = @ + 1] \in Heaps
         /\ \A n \in PbufsOrNull : [h EXCEPT !.next[q] = n] \in Heaps
  <1>1. h.ref \in [Pbufs -> Nat] /\ h.next \in [Pbufs -> PbufsOrNull]
    BY DEF Heaps
  <1>2. h.ref[q] \in Nat /\ Null \in PbufsOrNull
    BY <1>1 DEF PbufsOrNull
  <1>3. [h EXCEPT !.ref[q] = 0, !.next[q] = Null] \in Heaps
    BY <1>1, <1>2 DEF Heaps
  <1>4. h.ref[q] > 0 => [h EXCEPT !.ref[q] = @ - 1] \in Heaps
    BY <1>1, <1>2 DEF Heaps
  <1>5. [h EXCEPT !.ref[q] = @ + 1] \in Heaps
    BY <1>1, <1>2 DEF Heaps
  <1>6. \A n \in PbufsOrNull : [h EXCEPT !.next[q] = n] \in Heaps
    BY <1>1, <1>2 DEF Heaps
  <1> QED
    BY <1>1, <1>3, <1>4, <1>5, <1>6

\* PbufFree satisfies the equation it is defined by.
LEMMA PbufFreeUnfolds ==
  ASSUME NEW h \in Heaps, Ranked(h.next)
  PROVE  /\ PbufFree(h, Null) = h
         /\ \A q \in Pbufs :
               PbufFree(h, q) =
                  IF h.ref[q] > 1 THEN [h EXCEPT !.ref[q] = @ - 1]
                  ELSE [PbufFree(h, h.next[q]) EXCEPT !.ref[q] = 0, !.next[q] = Null]
  <1> DEFINE stop == {q \in PbufsOrNull : q = Null \/ h.ref[q] > 1}
             leaf == [q \in PbufsOrNull |->
                         IF q = Null THEN h
                         ELSE IF h.ref[q] > 1 THEN [h EXCEPT !.ref[q] = @ - 1] ELSE h]
             step == [q \in Pbufs |->
                         [g \in Heaps |-> [g EXCEPT !.ref[q] = 0, !.next[q] = Null]]]
             E(f) == f = [q \in Pbufs \cup {Null} |->
                             IF q = Null THEN h
                             ELSE IF h.ref[q] > 1 THEN [h EXCEPT !.ref[q] = @ - 1]
                             ELSE [f[h.next[q]] EXCEPT !.ref[q] = 0, !.next[q] = Null]]
             f == CHOOSE g : E(g)
  <1>1. h.next \in [Pbufs -> PbufsOrNull]
    BY DEF Heaps
  <1>2. PICK g : Solves(g, Heaps, h.next, stop, leaf, step, PbufsOrNull)
    <2>1. Null \in stop
      BY DEF PbufsOrNull
    <2>2. leaf \in [PbufsOrNull -> Heaps]
      <3>1. ASSUME NEW q \in Pbufs, h.ref[q] > 1
            PROVE  [h EXCEPT !.ref[q] = @ - 1] \in Heaps
        <4>1. h.ref[q] \in Nat
          BY DEF Heaps
        <4>2. h.ref[q] > 0
          BY <3>1, <4>1
        <4> QED
          BY <4>2, HeapTypes
      <3> QED
        BY <3>1 DEF PbufsOrNull
    <2>3. step \in [Pbufs -> [Heaps -> Heaps]]
      BY HeapTypes
    <2>4. Recursion(Heaps, h.next, stop, leaf, step)
      BY <2>1, <2>2, <2>3 DEF Recursion
    <2> HIDE DEF leaf, step, stop
    <2> QED
      BY <2>4, RecursionSolved, Zenon
  <1>3. ASSUME NEW q \in PbufsOrNull
        PROVE  g[q] = IF q = Null THEN h
                      ELSE IF h.ref[q] > 1 THEN [h EXCEPT !.ref[q] = @ - 1]
                      ELSE [g[h.next[q]] EXCEPT !.ref[q] = 0, !.next[q] = Null]
    <2>1. CASE q \in stop
      BY <1>2, <2>1 DEF Solves
    <2>2. CASE q \notin stop
      <3>1. q \in Pbufs /\ ~(h.ref[q] > 1) /\ q # Null
        BY <2>2, NullAssumption DEF PbufsOrNull
      <3>2. g[h.next[q]] \in Heaps
        BY <1>1, <1>2, <3>1 DEF Solves
      <3>3. step[q][g[h.next[q]]]
              = [g[h.next[q]] EXCEPT !.ref[q] = 0, !.next[q] = Null]
        BY <3>1, <3>2
      <3> HIDE DEF step, leaf, stop
      <3>4. g[q] = step[q][g[h.next[q]]]
        BY <1>2, <2>2 DEF Solves
      <3> QED
        BY <3>1, <3>3, <3>4, Zenon
    <2> QED
      BY <2>1, <2>2
  <1>4. E(g)
    BY <1>2, <1>3, Zenon DEF PbufsOrNull, Solves
  <1>5. E(f)
    BY <1>4, Zenon
  <1>6. \A p : PbufFree(h, p) = f[p]
    BY Zenon DEF PbufFree
  <1> HIDE DEF f
  <1>7. f[Null] = h
    BY <1>5, Zenon
  <1>8. ASSUME NEW q \in Pbufs
        PROVE  f[q] = IF h.ref[q] > 1 THEN [h EXCEPT !.ref[q] = @ - 1]
                      ELSE [f[h.next[q]] EXCEPT !.ref[q] = 0, !.next[q] = Null]
    <2>1. q # Null
      BY NullAssumption
    <2> QED
      BY <1>5, <2>1, Zenon
  <1> QED
    BY <1>6, <1>7, <1>8, Zenon

\* g is h after pbuf_free of the a-th pbuf of T, whose chain nobody else holds
\* up to the e-th.
RunFreed(g, h, T, a, e) ==
    /\ g \in Heaps
    /\ \A i \in 1 .. Len(T) : a <= i /\ i <= e =>
          g.ref[T[i]] = 0 /\ g.next[T[i]] = Null
    /\ e < Len(T) => /\ g.ref[T[e + 1]] = h.ref[T[e + 1]] - 1
                     /\ g.next[T[e + 1]] = h.next[T[e + 1]]
    /\ \A p \in Pbufs :
          (\A i \in 1 .. Len(T) : a <= i /\ i <= e + 1 => T[i] # p) =>
              g.ref[p] = h.ref[p] /\ g.next[p] = h.next[p]

\* pbuf_free of the first of a run of pbufs that only their chain holds frees the run
\* and takes one reference from what follows it.
LEMMA PbufFreeRun ==
  ASSUME NEW h \in Heaps, Ranked(h.next), NEW T, NEW a \in Nat \ {0}, NEW e \in Nat,
         Chained(h.next, T, a), a <= e + 1, e <= Len(T),
         \A i \in 1 .. Len(T) : a <= i /\ i <= e => h.ref[T[i]] <= 1,
         e < Len(T) => h.ref[T[e + 1]] > 1
  PROVE  RunFreed(PbufFree(h, At(T, a)), h, T, a, e)
  <1> DEFINE S == {j \in Nat : e + 1 - j >= a =>
                      RunFreed(PbufFree(h, At(T, e + 1 - j)), h, T, e + 1 - j, e)}
  <1>1. /\ T \in Seq(Pbufs) /\ Len(T) \in Nat /\ \A i \in 1 .. Len(T) : T[i] \in Pbufs
        /\ \A i, j \in 1 .. Len(T) : T[i] = T[j] => i = j
    BY DEF Chained
  <1>2. h.ref \in [Pbufs -> Nat] /\ h.next \in [Pbufs -> PbufsOrNull]
    BY DEF Heaps
  <1>3. RunFreed(PbufFree(h, At(T, e + 1)), h, T, e + 1, e)
    <2>1. CASE e = Len(T)
      <3>1. At(T, e + 1) = Null
        BY <2>1, <1>1 DEF At
      <3>2. PbufFree(h, At(T, e + 1)) = h
        BY <3>1, PbufFreeUnfolds
      <3> QED
        BY <1>1, <2>1, <3>2 DEF RunFreed
    <2>2. CASE e < Len(T)
      <3>1. PICK q \in Pbufs : q = T[e + 1]
        BY <1>1, <2>2
      <3>2. /\ At(T, e + 1) = q /\ h.ref[q] > 1 /\ h.ref[q] \in Nat
        BY <1>1, <1>2, <2>2, <3>1 DEF At
      <3>3. PICK g : g = [h EXCEPT !.ref[q] = @ - 1]
        BY Zenon
      <3>4. PbufFree(h, At(T, e + 1)) = g
        <4>1. PbufFree(h, q) = IF h.ref[q] > 1 THEN [h EXCEPT !.ref[q] = @ - 1]
                ELSE [PbufFree(h, h.next[q]) EXCEPT !.ref[q] = 0, !.next[q] = Null]
          BY PbufFreeUnfolds, Zenon
        <4> QED
          <5>1. PbufFree(h, q) = g
            BY <3>2, <3>3, <4>1, Zenon
          <5>2. PbufFree(h, At(T, e + 1)) = PbufFree(h, q)
            BY ONLY <3>2
          <5> QED
            BY ONLY <5>1, <5>2
      <3>5. g \in Heaps /\ g.ref = [h.ref EXCEPT ![q] = @ - 1] /\ g.next = h.next
        <4>1. h.ref[q] > 0
          BY <3>2
        <4>2. g \in Heaps
          BY <3>3, <4>1, HeapTypes
        <4> QED
          BY <3>3, <4>2 DEF Heaps
      <3>6. g.ref[q] = h.ref[q] - 1 /\ \A p \in Pbufs : p # q => g.ref[p] = h.ref[p]
        BY <1>2, <3>5
      <3>7. RunFreed(g, h, T, e + 1, e)
        BY <1>1, <2>2, <3>1, <3>5, <3>6 DEF RunFreed
      <3> QED
        BY <3>4, <3>7
    <2> QED
      BY <2>1, <2>2, <1>1
  <1>4. 0 \in S
    <2>1. e + 1 - 0 = e + 1
      OBVIOUS
    <2> QED
      BY <1>3, <2>1
  <1>5. ASSUME NEW j \in S PROVE j + 1 \in S
    <2>1. CASE e + 1 - (j + 1) >= a
      <3>1. PICK i \in Nat : i = e - j
        BY <2>1
      <3>2. /\ i \in 1 .. Len(T) /\ i >= a /\ i <= e /\ e + 1 - j = i + 1
            /\ e + 1 - (j + 1) = i
        BY <1>1, <2>1, <3>1
      <3>3. PICK q \in Pbufs : q = T[i]
        BY <1>1, <3>2
      <3>4. At(T, i) = q /\ h.next[q] = At(T, i + 1) /\ ~(h.ref[q] > 1)
        BY <1>1, <1>2, <3>2, <3>3 DEF Chained, At
      <3>5. PICK f : f = PbufFree(h, At(T, i + 1))
        BY Zenon
      <3>6. RunFreed(f, h, T, i + 1, e)
        BY <3>2, <3>5
      <3>7. PICK g : g = [f EXCEPT !.ref[q] = 0, !.next[q] = Null]
        BY Zenon
      <3>8. PbufFree(h, At(T, i)) = g
        <4>1. PbufFree(h, q) = IF h.ref[q] > 1 THEN [h EXCEPT !.ref[q] = @ - 1]
                ELSE [PbufFree(h, h.next[q]) EXCEPT !.ref[q] = 0, !.next[q] = Null]
          BY PbufFreeUnfolds, Zenon
        <4> QED
          BY <3>4, <3>5, <3>7, <4>1, Zenon
      <3>9. f \in Heaps
        BY <3>6 DEF RunFreed
      <3>10. /\ g \in Heaps /\ g.ref = [f.ref EXCEPT ![q] = 0]
             /\ g.next = [f.next EXCEPT ![q] = Null]
        BY <3>7, <3>9, HeapTypes DEF Heaps
      <3>11. /\ g.ref[q] = 0 /\ g.next[q] = Null
             /\ \A p \in Pbufs : p # q => g.ref[p] = f.ref[p] /\ g.next[p] = f.next[p]
        BY <3>9, <3>10 DEF Heaps
      <3>12. RunFreed(g, h, T, i, e)
        <4>1. ASSUME NEW n \in 1 .. Len(T), i <= n, n <= e
              PROVE  g.ref[T[n]] = 0 /\ g.next[T[n]] = Null
          <5>1. CASE n = i
            BY <3>3, <3>11, <5>1
          <5>2. CASE n # i
            <6>1. i + 1 <= n /\ T[n] # q /\ T[n] \in Pbufs
              BY <1>1, <3>2, <3>3, <4>1, <5>2
            <6> QED
              BY <3>6, <3>11, <4>1, <6>1 DEF RunFreed
          <5> QED
            BY <5>1, <5>2
        <4>2. ASSUME e < Len(T)
              PROVE  /\ g.ref[T[e + 1]] = h.ref[T[e + 1]] - 1
                     /\ g.next[T[e + 1]] = h.next[T[e + 1]]
          <5>1. T[e + 1] # q /\ T[e + 1] \in Pbufs
            BY <1>1, <3>2, <3>3, <4>2
          <5> QED
            BY <3>6, <3>11, <4>2, <5>1 DEF RunFreed
        <4>3. ASSUME NEW p \in Pbufs,
                     \A n \in 1 .. Len(T) : i <= n /\ n <= e + 1 => T[n] # p
              PROVE  g.ref[p] = h.ref[p] /\ g.next[p] = h.next[p]
          <5>1. p # q /\ \A n \in 1 .. Len(T) : i + 1 <= n /\ n <= e + 1 => T[n] # p
            BY <3>2, <3>3, <4>3
          <5> QED
            BY <3>6, <3>11, <5>1 DEF RunFreed
        <4> QED
          BY <3>10, <4>1, <4>2, <4>3 DEF RunFreed
      <3> QED
        BY <3>2, <3>8, <3>12
    <2> QED
      BY <2>1
  <1>6. S = Nat
    <2> HIDE DEF S
    <2>1. S \in SUBSET Nat
      BY DEF S
    <2> QED
      BY <1>4, <1>5, <2>1, AllNumbers
  <1>7. PICK j \in Nat : e + 1 - j = a
    <2>1. e + 1 - a \in Nat /\ e + 1 - (e + 1 - a) = a
      OBVIOUS
    <2> QED
      BY <2>1
  <1>8. j \in S
    BY <1>6
  <1>9. RunFreed(PbufFree(h, At(T, e + 1 - j)), h, T, e + 1 - j, e)
    BY <1>7, <1>8
  <1> QED
    BY ONLY <1>7, <1>9

-----------------------------------------------------------------------------
(* Handing a backlog over.  T is the backlog of a connection, k pbufs long, and *)
(* the packet just received; h0 is the heap of which the rest is left alone.    *)

Run(h0, T, k) ==
    /\ h0 \in Heaps
    /\ T \in Seq(Pbufs)
    /\ \A i, j \in 1 .. Len(T) : T[i] = T[j] => i = j
    /\ k \in 0 .. Len(T)
    /\ \E nx :
          /\ Ranked(nx)
          /\ \A i \in 1 .. Len(T) : nx[T[i]] = At(T, i + 1)
          /\ \A p \in Pbufs : (\A i \in 1 .. Len(T) : T[i] # p) => nx[p] = h0.next[p]

\* The references to the i-th, n of them written.  writeToTcp refers to what it
\* writes next; lwIP and readBuffer refer to the packet until recv is done.
PartRef(k, n, i) ==
    IF i <= k THEN (IF i <= n THEN 0 ELSE 1)
    ELSE IF i = k + 1 THEN (IF n >= i THEN 2 ELSE 3)
    ELSE IF i = n + 1 THEN 2 ELSE 1

IsPart(h, h0, T, k, n) ==
    /\ h \in Heaps
    /\ \A i \in 1 .. Len(T) :
          /\ h.ref[T[i]] = PartRef(k, n, i)
          /\ h.next[T[i]] = IF i <= k /\ i <= n THEN Null ELSE At(T, i + 1)
    /\ \A p \in Pbufs :
          (\A i \in 1 .. Len(T) : T[i] # p) =>
              h.ref[p] = h0.ref[p] /\ h.next[p] = h0.next[p]

\* The first n are free, the rest waits.
IsDone(h, h0, T, n) ==
    /\ h \in Heaps
    /\ \A i \in 1 .. Len(T) :
          /\ h.ref[T[i]] = IF i <= n THEN 0 ELSE 1
          /\ h.next[T[i]] = IF i <= n THEN Null ELSE At(T, i + 1)
    /\ \A p \in Pbufs :
          (\A i \in 1 .. Len(T) : T[i] # p) =>
              h.ref[p] = h0.ref[p] /\ h.next[p] = h0.next[p]

\* Halfway through, there is no cycle, and what is still chained is as it was.
LEMMA PartRanked ==
  ASSUME NEW h0, NEW T, NEW k, Run(h0, T, k), NEW n \in Nat, NEW h, IsPart(h, h0, T, k, n)
  PROVE  /\ Ranked(h.next) /\ h \in Heaps
         /\ \A a \in Nat \ {0} : (a > k \/ a > n) => Chained(h.next, T, a)
  <1>1. PICK nx : /\ Ranked(nx)
                  /\ \A i \in 1 .. Len(T) : nx[T[i]] = At(T, i + 1)
                  /\ \A p \in Pbufs : (\A i \in 1 .. Len(T) : T[i] # p) =>
                                          nx[p] = h0.next[p]
    BY DEF Run
  <1>2. h \in Heaps /\ h.next \in [Pbufs -> PbufsOrNull]
    BY DEF IsPart, Heaps
  <1>3. ASSUME NEW p \in Pbufs PROVE h.next[p] \in {nx[p], Null}
    <2>1. CASE \A i \in 1 .. Len(T) : T[i] # p
      BY <1>1, <2>1 DEF IsPart
    <2>2. CASE ~(\A i \in 1 .. Len(T) : T[i] # p)
      BY <1>1, <2>2 DEF IsPart
    <2> QED
      BY <2>1, <2>2
  <1>4. Ranked(h.next)
    BY <1>1, <1>2, <1>3, RankedLess
  <1>5. ASSUME NEW a \in Nat \ {0}, a > k \/ a > n PROVE Chained(h.next, T, a)
    <2>1. k \in Nat /\ Len(T) \in Nat
      BY DEF Run
    <2>2. ASSUME NEW i \in 1 .. Len(T), i >= a PROVE h.next[T[i]] = At(T, i + 1)
      <3>1. ~(i <= k /\ i <= n)
        BY <1>5, <2>1, <2>2
      <3> QED
        BY <3>1 DEF IsPart
    <2> QED
      BY <2>2 DEF Run, Chained
  <1> QED
    BY <1>2, <1>4, <1>5

\* PbufRef adds one reference to one pbuf.
LEMMA PbufRefIs ==
  ASSUME NEW h \in Heaps, NEW p \in PbufsOrNull
  PROVE  /\ PbufRef(h, p) \in Heaps
         /\ PbufRef(h, p).next = h.next
         /\ p # Null => PbufRef(h, p).ref[p] = h.ref[p] + 1
         /\ \A q \in Pbufs : q # p => PbufRef(h, p).ref[q] = h.ref[q]
  <1>1. CASE p = Null
    BY <1>1 DEF PbufRef
  <1>2. CASE p # Null
    <2>1. p \in Pbufs /\ h.ref[p] \in Nat
      BY <1>2 DEF PbufsOrNull, Heaps
    <2>2. PICK g : g = [h EXCEPT !.ref[p] = @ + 1]
      BY Zenon
    <2>3. PbufRef(h, p) = g
      BY <1>2, <2>2, Zenon DEF PbufRef
    <2>4. g \in Heaps
      BY <2>1, <2>2, HeapTypes
    <2>5. g.next = h.next /\ g.ref = [h.ref EXCEPT ![p] = @ + 1]
      BY <2>2, <2>4 DEF Heaps
    <2>6. h.ref \in [Pbufs -> Nat]
      BY DEF Heaps
    <2>7. g.ref[p] = h.ref[p] + 1 /\ \A q \in Pbufs : q # p => g.ref[q] = h.ref[q]
      BY <2>1, <2>5, <2>6
    <2> QED
      BY <2>3, <2>4, <2>5, <2>7
  <1> QED
    BY <1>1, <1>2

\* writeToTcp takes one more.
LEMMA PartGrows ==
  ASSUME NEW h0, NEW T, NEW k, Run(h0, T, k), NEW n \in Nat, n < Len(T),
         NEW h, IsPart(h, h0, T, k, n)
  PROVE  /\ h.next[At(T, n + 1)] = At(T, n + 2)
         /\ IsPart(PbufFree(PbufRef(h, At(T, n + 2)), At(T, n + 1)), h0, T, k, n + 1)
  <1>1. /\ T \in Seq(Pbufs) /\ Len(T) \in Nat /\ k \in Nat /\ k <= Len(T)
        /\ \A i \in 1 .. Len(T) : T[i] \in Pbufs
        /\ \A i, j \in 1 .. Len(T) : T[i] = T[j] => i = j
    BY DEF Run
  <1>2. h \in Heaps /\ Ranked(h.next) /\ Chained(h.next, T, n + 1)
    BY PartRanked
  <1>3. PICK q \in PbufsOrNull : q = At(T, n + 2)
    BY <1>1 DEF At, PbufsOrNull
  <1>4. n + 1 \in 1 .. Len(T) /\ At(T, n + 1) = T[n + 1] /\ h.next[T[n + 1]] = q
    BY <1>1, <1>2, <1>3 DEF Chained, At
  <1>5. n + 1 < Len(T) => q = T[n + 2] /\ n + 2 \in 1 .. Len(T) /\ q \in Pbufs /\ q # Null
    BY <1>1, <1>3, NullAssumption DEF At
  <1>6. n + 1 = Len(T) => q = Null
    BY <1>1, <1>3 DEF At
  <1>7. PICK g : g = PbufRef(h, q)
    BY Zenon
  <1>8. /\ g \in Heaps /\ g.next = h.next
        /\ q # Null => g.ref[q] = h.ref[q] + 1
        /\ \A p \in Pbufs : p # q => g.ref[p] = h.ref[p]
    BY <1>2, <1>7, PbufRefIs
  <1>9. Ranked(g.next) /\ Chained(g.next, T, n + 1)
    BY <1>2, <1>8
  <1>10. PICK f : f = PbufFree(g, At(T, n + 1))
    BY Zenon
  <1>11. ASSUME NEW i \in 1 .. Len(T)
         PROVE  /\ g.ref[T[i]] = IF i = n + 2 THEN PartRef(k, n, i) + 1
                                 ELSE PartRef(k, n, i)
                /\ g.next[T[i]] = IF i <= k /\ i <= n THEN Null ELSE At(T, i + 1)
    <2>1. i = n + 2 => T[i] = q /\ q # Null
      BY <1>1, <1>5
    <2>2. i # n + 2 => T[i] # q
      BY <1>1, <1>5, <1>6, NullAssumption
    <2> QED
      BY <1>1, <1>8, <2>1, <2>2 DEF IsPart
  <1>12. ASSUME NEW p \in Pbufs, \A i \in 1 .. Len(T) : T[i] # p
         PROVE  g.ref[p] = h0.ref[p] /\ g.next[p] = h0.next[p]
    <2>1. p # q
      BY <1>1, <1>5, <1>6, <1>12, NullAssumption
    <2> QED
      BY <1>8, <1>12, <2>1 DEF IsPart
  <1>13. CASE n + 1 <= k
    <2>1. RunFreed(f, g, T, n + 1, n + 1)
      <3>1. \A i \in 1 .. Len(T) : n + 1 <= i /\ i <= n + 1 => g.ref[T[i]] <= 1
        BY <1>11, <1>13, <1>1 DEF PartRef
      <3>2. n + 1 < Len(T) => g.ref[T[n + 1 + 1]] > 1
        BY <1>11, <1>13, <1>1 DEF PartRef
      <3>3. n + 1 \in Nat \ {0} /\ n + 1 \in Nat /\ n + 1 <= n + 1 + 1 /\ n + 1 <= Len(T)
        OBVIOUS
      <3> QED
        BY <1>8, <1>9, <1>10, <3>1, <3>2, <3>3, PbufFreeRun
    <2>2. ASSUME NEW i \in 1 .. Len(T)
          PROVE  /\ f.ref[T[i]] = PartRef(k, n + 1, i)
                 /\ f.next[T[i]] = IF i <= k /\ i <= n + 1 THEN Null ELSE At(T, i + 1)
      <3>1. CASE i = n + 1
        BY <1>13, <2>1, <3>1 DEF RunFreed, PartRef
      <3>2. CASE i = n + 2
        BY <1>1, <1>11, <1>13, <2>1, <3>2 DEF RunFreed, PartRef
      <3>3. CASE i # n + 1 /\ i # n + 2
        <4>1. f.ref[T[i]] = g.ref[T[i]] /\ f.next[T[i]] = g.next[T[i]]
          <5>1. \A j \in 1 .. Len(T) : n + 1 <= j /\ j <= n + 1 + 1 => T[j] # T[i]
            BY <1>1, <3>3
          <5> QED
            BY <1>1, <2>1, <5>1 DEF RunFreed
        <4> QED
          BY <1>1, <1>11, <1>13, <3>3, <4>1 DEF PartRef
      <3> QED
        BY <3>1, <3>2, <3>3
    <2>3. ASSUME NEW p \in Pbufs, \A i \in 1 .. Len(T) : T[i] # p
          PROVE  f.ref[p] = h0.ref[p] /\ f.next[p] = h0.next[p]
      BY <1>12, <2>1, <2>3 DEF RunFreed
    <2>4. IsPart(f, h0, T, k, n + 1)
      BY <2>1, <2>2, <2>3 DEF IsPart, RunFreed
    <2> QED
      BY <1>3, <1>4, <1>7, <1>10, <2>4
  <1>14. CASE n + 1 > k
    <2>1. RunFreed(f, g, T, n + 1, n)
      <3>1. \A i \in 1 .. Len(T) : ~(n + 1 <= i /\ i <= n)
        BY <1>1
      <3>2. g.ref[T[n + 1]] > 1
        BY <1>4, <1>11, <1>14, <1>1 DEF PartRef
      <3>3. n + 1 \in Nat \ {0} /\ n + 1 <= n + 1 /\ n <= Len(T)
        BY <1>1
      <3> QED
        BY <1>8, <1>9, <1>10, <3>1, <3>2, <3>3, PbufFreeRun
    <2>2. ASSUME NEW i \in 1 .. Len(T)
          PROVE  /\ f.ref[T[i]] = PartRef(k, n + 1, i)
                 /\ f.next[T[i]] = IF i <= k /\ i <= n + 1 THEN Null ELSE At(T, i + 1)
      <3>1. CASE i = n + 1
        BY <1>1, <1>11, <1>14, <2>1, <3>1 DEF RunFreed, PartRef
      <3>2. CASE i # n + 1
        <4>1. f.ref[T[i]] = g.ref[T[i]] /\ f.next[T[i]] = g.next[T[i]]
          <5>1. \A j \in 1 .. Len(T) : n + 1 <= j /\ j <= n + 1 => T[j] # T[i]
            BY <1>1, <3>2
          <5> QED
            BY <1>1, <2>1, <5>1 DEF RunFreed
        <4> QED
          BY <1>1, <1>11, <1>14, <3>2, <4>1 DEF PartRef
      <3> QED
        BY <3>1, <3>2
    <2>3. ASSUME NEW p \in Pbufs, \A i \in 1 .. Len(T) : T[i] # p
          PROVE  f.ref[p] = h0.ref[p] /\ f.next[p] = h0.next[p]
      <3>1. \A i \in 1 .. Len(T) : n + 1 <= i /\ i <= n + 1 => T[i] # p
        BY <2>3
      <3> QED
        BY <1>12, <2>1, <2>3, <3>1 DEF RunFreed
    <2>4. IsPart(f, h0, T, k, n + 1)
      BY <2>1, <2>2, <2>3 DEF IsPart, RunFreed
    <2> QED
      BY <1>3, <1>4, <1>7, <1>10, <2>4
  <1> QED
    BY <1>1, <1>13, <1>14

-----------------------------------------------------------------------------
(* writeToTcp                                                               *)

ConnTypes == [state : {"Closed", "Established", "Closing"},
              controlBlock : Pcbs \cup {Null},
              writeBuffer : PbufsOrNull, readBuffer : PbufsOrNull]
PcbTypes == [state : {"free", "open", "finRcvd", "closing"},
             arg : Connections \cup {Null}, queue : Seq(Pbufs), shut : BOOLEAN]
Worlds == [h : Heaps, c : ConnTypes, k : PcbTypes]

\* A heap is known by how much of T was written.
LEMMA PartUnique ==
  ASSUME NEW h0, NEW T, NEW k, NEW n, NEW g, IsPart(g, h0, T, k, n),
         NEW h, IsPart(h, h0, T, k, n)
  PROVE  g = h
  <1>1. g \in Heaps /\ h \in Heaps
    BY DEF IsPart
  <1>2. ASSUME NEW p \in Pbufs PROVE g.ref[p] = h.ref[p] /\ g.next[p] = h.next[p]
    <2>1. CASE \A i \in 1 .. Len(T) : T[i] # p
      BY <2>1 DEF IsPart
    <2>2. CASE ~(\A i \in 1 .. Len(T) : T[i] # p)
      BY <2>2 DEF IsPart
    <2> QED
      BY <2>1, <2>2
  <1>3. g.ref = h.ref /\ g.next = h.next
    BY <1>1, <1>2 DEF Heaps
  <1> QED
    BY <1>1, <1>3 DEF Heaps

\* The world v is w after n pbufs of T were written.
Wrote(v, w, T, n) ==
    /\ v \in Worlds
    /\ v.c.state = w.c.state /\ v.c.controlBlock = w.c.controlBlock
    /\ v.c.readBuffer = w.c.readBuffer
    /\ v.c.writeBuffer = At(T, n + 1)
    /\ v.k.state = w.k.state /\ v.k.arg = w.k.arg
    /\ v.k.queue = w.k.queue \o SubSeq(T, 1, n)

\* Written puts the heap, writeBuffer and queue of writeToTcp back in the world.
LEMMA WrittenIs ==
  ASSUME NEW w \in Worlds, NEW T \in Seq(Pbufs), NEW n \in 0 .. Len(T),
         NEW x, x.h \in Heaps, x.buffer = At(T, n + 1),
         x.queue = w.k.queue \o SubSeq(T, 1, n)
  PROVE  Wrote(Written(w, x), w, T, n) /\ Written(w, x).h = x.h
  <1>1. At(T, n + 1) \in PbufsOrNull
    BY DEF At, PbufsOrNull
  <1>2. w.k.queue \in Seq(Pbufs)
    BY DEF Worlds, PcbTypes
  <1>3. SubSeq(T, 1, n) \in Seq(Pbufs)
    OBVIOUS
  <1>4. w.k.queue \o SubSeq(T, 1, n) \in Seq(Pbufs)
    BY <1>2, <1>3
  <1>5. PICK v : v = Written(w, x)
    BY Zenon
  <1>6. v = [w EXCEPT !.h = x.h, !.c.writeBuffer = x.buffer, !.k.queue = x.queue]
    BY <1>5, Zenon DEF Written
  <1>7. /\ v.h = x.h /\ v.c = [w.c EXCEPT !.writeBuffer = x.buffer]
        /\ v.k = [w.k EXCEPT !.queue = x.queue] /\ v = [h |-> v.h, c |-> v.c, k |-> v.k]
    BY <1>6 DEF Worlds
  <1>8. w.c \in ConnTypes /\ w.k \in PcbTypes
    BY DEF Worlds
  <1>9. /\ v.c \in ConnTypes /\ v.c.writeBuffer = x.buffer
        /\ v.c.state = w.c.state /\ v.c.controlBlock = w.c.controlBlock
        /\ v.c.readBuffer = w.c.readBuffer
    BY <1>1, <1>7, <1>8 DEF ConnTypes
  <1>10. v.k \in PcbTypes /\ v.k.queue = x.queue /\ v.k.state = w.k.state /\ v.k.arg = w.k.arg
    BY <1>4, <1>7, <1>8 DEF PcbTypes
  <1>11. v \in Worlds
    BY <1>7, <1>9, <1>10 DEF Worlds
  <1> QED
    BY <1>5, <1>7, <1>9, <1>10, <1>11 DEF Wrote

\* writeToTcp hands over some of T, as much as the send queue takes at most: by
\* induction on how much, each step is PartGrows.
LEMMA WriteToTcpIs ==
  ASSUME NEW h0, NEW T, NEW k, Run(h0, T, k), NEW w \in Worlds,
         IsPart(w.h, h0, T, k, 0), w.c.writeBuffer = At(T, 1),
         Len(w.k.queue) <= SndBuf, NEW v \in WriteToTcp(w)
  PROVE  \E n \in 0 .. Len(T) : /\ n + Len(w.k.queue) <= SndBuf
                                /\ IsPart(v.h, h0, T, k, n)
                                /\ Wrote(v, w, T, n)
  <1> DEFINE Value(n) == [h      |-> CHOOSE g : IsPart(g, h0, T, k, n),
                          buffer |-> At(T, n + 1),
                          queue  |-> w.k.queue \o SubSeq(T, 1, n)]
             chain == Len(ChainOf(w.h.next, w.c.writeBuffer))
             room  == SndBuf - Len(w.k.queue)
             most  == IF chain < room THEN chain ELSE room
             E(f)  == f = [n \in 0 .. most |->
                              IF n = 0 THEN Writing(w) ELSE WriteOne(f[n - 1])]
             after == CHOOSE f : E(f)
  <1>1. T \in Seq(Pbufs) /\ Len(T) \in Nat
    BY DEF Run
  <1>2. w.k.queue \in Seq(Pbufs) /\ Len(w.k.queue) \in Nat
    BY DEF Worlds, PcbTypes
  <1>3. chain = Len(T)
    <2>1. Ranked(w.h.next) /\ Chained(w.h.next, T, 1)
      BY PartRanked
    <2>2. ChainOf(w.h.next, At(T, 1)) = SubSeq(T, 1, Len(T))
      BY <1>1, <2>1, ChainIs
    <2> QED
      BY <1>1, <2>2
  <1>4. most \in Nat /\ most <= Len(T) /\ most + Len(w.k.queue) <= SndBuf
    <2>1. ASSUME NEW a \in Nat, NEW b \in Nat, NEW s \in Nat, b <= s, NEW m,
                 m = IF a < s - b THEN a ELSE s - b
          PROVE  m \in Nat /\ m <= a /\ m + b <= s
      BY <2>1
    <2>2. PICK m : m = most
      BY Zenon
    <2>3. SndBuf \in Nat
      BY BoundsAssumption
    <2>4. m = IF Len(T) < SndBuf - Len(w.k.queue) THEN Len(T)
              ELSE SndBuf - Len(w.k.queue)
      BY <1>3, <2>2, Zenon
    <2>5. m \in Nat /\ m <= Len(T) /\ m + Len(w.k.queue) <= SndBuf
      BY <1>1, <1>2, <2>1, <2>3, <2>4
    <2> QED
      BY <2>2, <2>5, Zenon
  <1>5. PICK M, F : M = most /\ F = after
    BY Zenon
  <1>6. PICK n \in 0 .. M : v = Written(w, F[n])
    <2>1. \E n \in 0 .. most : v = Written(w, after[n])
      BY Zenon DEF WriteToTcp
    <2> QED
      BY <1>5, <2>1, Zenon
  <1>7. M \in Nat /\ M <= Len(T) /\ M + Len(w.k.queue) <= SndBuf
    BY <1>4, <1>5, Zenon
  <1> HIDE DEF chain, room, most
  \* What it works on, after n steps.
  <1>8. ASSUME NEW m \in 0 .. Len(T) PROVE \E g : IsPart(g, h0, T, k, m)
    <2> DEFINE S == {j \in Nat : j <= Len(T) => \E g : IsPart(g, h0, T, k, j)}
    <2>1. 0 \in S
      OBVIOUS
    <2>2. ASSUME NEW j \in S PROVE j + 1 \in S
      BY <1>1, PartGrows
    <2> HIDE DEF S
    <2>3. S = Nat
      <3>1. S \in SUBSET Nat
        BY DEF S
      <3> QED
        BY <2>1, <2>2, <3>1, AllNumbers
    <2> QED
      BY <1>1, <2>3 DEF S
  <1>9. ASSUME NEW m \in 0 .. Len(T), NEW g, IsPart(g, h0, T, k, m)
        PROVE  Value(m).h = g
    BY <1>9, PartUnique
  <1>10. ASSUME NEW m \in 0 .. Len(T)
        PROVE  /\ IsPart(Value(m).h, h0, T, k, m) /\ Value(m).buffer = At(T, m + 1)
               /\ Value(m).queue = w.k.queue \o SubSeq(T, 1, m)
    BY <1>8, <1>9
  <1>11. ASSUME NEW m, NEW g, NEW q, Value(m).h = g, At(T, m + 1) = q
        PROVE  Value(m) = [h |-> g, buffer |-> q, queue |-> w.k.queue \o SubSeq(T, 1, m)]
    <2>1. PICK e : e = CHOOSE f : IsPart(f, h0, T, k, m)
      BY Zenon
    <2>2. Value(m) = [h |-> e, buffer |-> At(T, m + 1),
                      queue |-> w.k.queue \o SubSeq(T, 1, m)]
      BY <2>1, Zenon
    <2> HIDE DEF Value
    <2>3. Value(m).h = e
      BY <2>2
    <2> QED
      BY <1>11, <2>2, <2>3, Zenon
  <1> HIDE DEF Value
  <1>12. Writing(w) = Value(0)
    <2>1. Value(0).h = w.h /\ At(T, 0 + 1) = w.c.writeBuffer
      BY <1>1, <1>9
    <2>2. w.k.queue \o SubSeq(T, 1, 0) = w.k.queue
      BY <1>1, <1>2
    <2>3. Value(0) = [h |-> w.h, buffer |-> w.c.writeBuffer,
                      queue |-> w.k.queue \o SubSeq(T, 1, 0)]
      BY <1>11, <2>1, Zenon
    <2> QED
      BY <2>2, <2>3, Zenon DEF Writing
  <1>13. ASSUME NEW m \in Nat, m < Len(T) PROVE WriteOne(Value(m)) = Value(m + 1)
    <2>1. PICK x : x = Value(m)
      BY Zenon
    <2>2. /\ IsPart(x.h, h0, T, k, m) /\ x.buffer = At(T, m + 1)
          /\ x.queue = w.k.queue \o SubSeq(T, 1, m)
      <3>1. m \in 0 .. Len(T)
        BY <1>1, <1>13
      <3> QED
        BY <1>10, <2>1, <3>1
    <2>3. /\ x.h.next[x.buffer] = At(T, m + 2)
          /\ IsPart(PbufFree(PbufRef(x.h, At(T, m + 2)), x.buffer), h0, T, k, m + 1)
      BY <1>13, <2>2, PartGrows
    <2>4. Value(m + 1).h = PbufFree(PbufRef(x.h, At(T, m + 2)), x.buffer)
      BY <1>1, <1>9, <1>13, <2>3
    <2>5. Append(x.queue, x.buffer) = w.k.queue \o SubSeq(T, 1, m + 1)
      <3>1. x.buffer = T[m + 1]
        BY <1>1, <1>13, <2>2 DEF At
      <3>2. Append(SubSeq(T, 1, m), T[m + 1]) = SubSeq(T, 1, m + 1)
        BY <1>1, <1>13
      <3>3. SubSeq(T, 1, m) \in Seq(Pbufs) /\ T[m + 1] \in Pbufs
        BY <1>1, <1>13
      <3>4. Append(w.k.queue \o SubSeq(T, 1, m), T[m + 1])
              = w.k.queue \o Append(SubSeq(T, 1, m), T[m + 1])
        <4>1. ASSUME NEW a \in Seq(Pbufs), NEW b \in Seq(Pbufs), NEW p \in Pbufs
              PROVE  Append(a \o b, p) = a \o Append(b, p)
          OBVIOUS
        <4> QED
          BY <1>2, <3>3, <4>1
      <3> QED
        BY <2>2, <3>1, <3>2, <3>4
    <2>6. At(T, m + 1 + 1) = At(T, m + 2)
      BY <1>13
    <2>7. WriteOne(x) = [h      |-> PbufFree(PbufRef(x.h, At(T, m + 2)), x.buffer),
                         buffer |-> At(T, m + 2),
                         queue  |-> Append(x.queue, x.buffer)]
      BY <2>3 DEF WriteOne
    <2>8. PICK y : y = Value(m + 1)
      BY Zenon
    <2>9. y = [h      |-> PbufFree(PbufRef(x.h, At(T, m + 2)), x.buffer),
               buffer |-> At(T, m + 2),
               queue  |-> w.k.queue \o SubSeq(T, 1, m + 1)]
      BY <1>11, <2>4, <2>6, <2>8, Zenon
    <2> QED
      BY <2>1, <2>5, <2>7, <2>8, <2>9, Zenon
  <1>14. \A m \in 0 .. M : F[m] = IF m = 0 THEN Writing(w) ELSE WriteOne(F[m - 1])
    <2> DEFINE G == [m \in 0 .. M |-> Value(m)]
    <2>1. ASSUME NEW m \in 0 .. M
          PROVE  Value(m) = IF m = 0 THEN Writing(w) ELSE WriteOne(Value(m - 1))
      <3>1. CASE m = 0
        BY <1>12, <3>1
      <3>2. CASE m # 0
        <4>1. m - 1 \in Nat /\ m - 1 < Len(T) /\ m - 1 + 1 = m
          BY <1>1, <1>7, <3>2
        <4> QED
          BY <1>13, <3>2, <4>1
      <3> QED
        BY <3>1, <3>2
    <2>2. G = [m \in 0 .. M |-> IF m = 0 THEN Writing(w) ELSE WriteOne(G[m - 1])]
      <3>1. ASSUME NEW m \in 0 .. M, m # 0 PROVE G[m - 1] = Value(m - 1)
        BY <1>7, <3>1
      <3> QED
        BY <2>1, <3>1
    <2> HIDE DEF G
    <2>3. E(G)
      BY <1>5, <2>2, Zenon
    <2>4. E(after)
      BY <2>3, Zenon
    <2> QED
      BY <1>5, <2>4, Zenon
  <1>15. F[n] = Value(n)
    <2> DEFINE S == {j \in Nat : j <= M => F[j] = Value(j)}
    <2>1. 0 \in S
      BY <1>7, <1>12, <1>14
    <2>2. ASSUME NEW j \in S PROVE j + 1 \in S
      <3>1. CASE j + 1 <= M
        <4>1. F[j] = Value(j) /\ j + 1 \in 0 .. M /\ j + 1 # 0 /\ j + 1 - 1 = j
              /\ j < Len(T) /\ j \in Nat
          BY <1>1, <1>7, <3>1
        <4>2. PICK i \in 0 .. M : i = j + 1
          BY <4>1
        <4>3. F[i] = IF i = 0 THEN Writing(w) ELSE WriteOne(F[i - 1])
          BY <1>14, Zenon
        <4>4. i # 0 /\ i - 1 = j
          BY <4>1, <4>2
        <4>5. F[i] = WriteOne(Value(j))
          BY <4>1, <4>3, <4>4, Zenon
        <4>6. WriteOne(Value(j)) = Value(j + 1)
          BY <1>13, <4>1
        <4> QED
          BY <4>2, <4>5, <4>6
      <3> QED
        BY <3>1
    <2> HIDE DEF S
    <2>3. S = Nat
      <3>1. S \in SUBSET Nat
        BY DEF S
      <3> QED
        BY <2>1, <2>2, <3>1, AllNumbers
    <2>4. \A j \in S : j <= M => F[j] = Value(j)
      BY DEF S
    <2>5. n \in S /\ n <= M
      BY <1>7, <2>3
    <2> QED
      BY <2>4, <2>5, Zenon
  <1>16. n \in 0 .. Len(T) /\ n + Len(w.k.queue) <= SndBuf
    BY <1>1, <1>2, <1>7, BoundsAssumption
  <1>17. PICK x : x = Value(n)
    BY Zenon
  <1>18. /\ IsPart(x.h, h0, T, k, n) /\ x.buffer = At(T, n + 1)
         /\ x.queue = w.k.queue \o SubSeq(T, 1, n) /\ v = Written(w, x)
    BY <1>6, <1>10, <1>15, <1>16, <1>17
  <1>19. x.h \in Heaps
    BY <1>18 DEF IsPart
  <1>20. Wrote(v, w, T, n) /\ v.h = x.h
    BY <1>1, <1>16, <1>18, <1>19, WrittenIs
  <1> QED
    BY <1>16, <1>18, <1>20

\* The packet was freed twice: by the application, and by the server.
LEMMA PacketFreed ==
  ASSUME NEW h0, NEW T, NEW k, Run(h0, T, k), k < Len(T), NEW n \in 0 .. Len(T),
         NEW h, IsPart(h, h0, T, k, n)
  PROVE  IsDone(PbufFree(PbufFree(h, T[k + 1]), T[k + 1]), h0, T, n)
  <1>1. /\ T \in Seq(Pbufs) /\ Len(T) \in Nat /\ k \in Nat /\ k + 1 \in 1 .. Len(T)
        /\ \A i \in 1 .. Len(T) : T[i] \in Pbufs
        /\ \A i, j \in 1 .. Len(T) : T[i] = T[j] => i = j
    BY DEF Run
  <1>2. /\ h \in Heaps /\ Ranked(h.next) /\ Chained(h.next, T, k + 1)
        /\ k + 1 \in Nat \ {0} /\ k + 1 > k
    <2>1. k + 1 \in Nat \ {0} /\ k + 1 > k
      BY <1>1
    <2> QED
      BY <2>1, PartRanked
  <1>3. At(T, k + 1) = T[k + 1]
    BY <1>1 DEF At
  <1>4. PICK g : g = PbufFree(h, T[k + 1])
    BY Zenon
  <1>5. RunFreed(g, h, T, k + 1, k)
    <2>1. h.ref[T[k + 1]] > 1
      BY <1>1 DEF IsPart, PartRef
    <2>2. \A i \in 1 .. Len(T) : ~(k + 1 <= i /\ i <= k)
      BY <1>1
    <2>3. k + 1 <= k + 1 /\ k <= Len(T)
      BY <1>1
    <2>4. RunFreed(PbufFree(h, At(T, k + 1)), h, T, k + 1, k)
      BY <1>1, <1>2, <2>1, <2>2, <2>3, PbufFreeRun
    <2> QED
      BY <1>3, <1>4, <2>4
  <1>6. ASSUME NEW p \in Pbufs
        PROVE  /\ g.next[p] = h.next[p]
               /\ g.ref[p] = IF p = T[k + 1] THEN h.ref[p] - 1 ELSE h.ref[p]
    <2>1. CASE p = T[k + 1]
      BY <1>1, <1>5, <2>1 DEF RunFreed
    <2>2. CASE p # T[k + 1]
      <3>1. \A i \in 1 .. Len(T) : k + 1 <= i /\ i <= k + 1 => T[i] # p
        BY <1>1, <2>2
      <3> QED
        BY <1>5, <2>2, <3>1 DEF RunFreed
    <2> QED
      BY <2>1, <2>2
  <1>7. g \in Heaps /\ g.next = h.next
    BY <1>2, <1>5, <1>6 DEF RunFreed, Heaps
  <1>8. ASSUME NEW i \in 1 .. Len(T)
        PROVE  /\ g.ref[T[i]] = IF i = k + 1 THEN PartRef(k, n, i) - 1
                                ELSE PartRef(k, n, i)
               /\ g.next[T[i]] = IF i <= k /\ i <= n THEN Null ELSE At(T, i + 1)
    BY <1>1, <1>6 DEF IsPart
  <1>9. PICK f : f = PbufFree(g, T[k + 1])
    BY Zenon
  <1>10. CASE n <= k
    <2>1. RunFreed(f, g, T, k + 1, k)
      <3>1. g.ref[T[k + 1]] > 1
        BY <1>1, <1>8, <1>10 DEF PartRef
      <3>2. \A i \in 1 .. Len(T) : ~(k + 1 <= i /\ i <= k)
        BY <1>1
      <3>3. k + 1 <= k + 1 /\ k <= Len(T) /\ Ranked(g.next) /\ Chained(g.next, T, k + 1)
        BY <1>1, <1>2, <1>7
      <3>4. RunFreed(PbufFree(g, At(T, k + 1)), g, T, k + 1, k)
        BY <1>1, <1>2, <1>7, <3>1, <3>2, <3>3, PbufFreeRun
      <3> QED
        BY <1>3, <1>9, <3>4
    <2>2. ASSUME NEW i \in 1 .. Len(T)
          PROVE  /\ f.ref[T[i]] = IF i <= n THEN 0 ELSE 1
                 /\ f.next[T[i]] = IF i <= n THEN Null ELSE At(T, i + 1)
      <3>1. CASE i = k + 1
        BY <1>1, <1>8, <1>10, <2>1, <3>1 DEF RunFreed, PartRef
      <3>2. CASE i # k + 1
        <4>1. \A j \in 1 .. Len(T) : k + 1 <= j /\ j <= k + 1 => T[j] # T[i]
          BY <1>1, <3>2
        <4>2. f.ref[T[i]] = g.ref[T[i]] /\ f.next[T[i]] = g.next[T[i]]
          BY <1>1, <2>1, <4>1 DEF RunFreed
        <4> QED
          BY <1>1, <1>8, <1>10, <3>2, <4>2 DEF PartRef
      <3> QED
        BY <3>1, <3>2
    <2>3. ASSUME NEW p \in Pbufs, \A i \in 1 .. Len(T) : T[i] # p
          PROVE  f.ref[p] = h0.ref[p] /\ f.next[p] = h0.next[p]
      <3>1. f.ref[p] = g.ref[p] /\ f.next[p] = g.next[p]
        BY <2>1, <2>3 DEF RunFreed
      <3> QED
        BY <1>1, <1>6, <2>3, <3>1 DEF IsPart
    <2> QED
      BY <1>4, <1>9, <2>1, <2>2, <2>3 DEF IsDone, RunFreed
  <1>11. CASE n > k
    <2>1. RunFreed(f, g, T, k + 1, n)
      <3>1. \A i \in 1 .. Len(T) : k + 1 <= i /\ i <= n => g.ref[T[i]] <= 1
        BY <1>1, <1>8, <1>11 DEF PartRef
      <3>2. n < Len(T) => g.ref[T[n + 1]] > 1
        BY <1>1, <1>8, <1>11 DEF PartRef
      <3>3. /\ k + 1 <= n + 1 /\ n <= Len(T) /\ n \in Nat
            /\ Ranked(g.next) /\ Chained(g.next, T, k + 1)
        BY <1>1, <1>2, <1>7, <1>11
      <3>4. RunFreed(PbufFree(g, At(T, k + 1)), g, T, k + 1, n)
        BY <1>1, <1>2, <1>7, <3>1, <3>2, <3>3, PbufFreeRun
      <3> QED
        BY <1>3, <1>9, <3>4
    <2>2. ASSUME NEW i \in 1 .. Len(T)
          PROVE  /\ f.ref[T[i]] = IF i <= n THEN 0 ELSE 1
                 /\ f.next[T[i]] = IF i <= n THEN Null ELSE At(T, i + 1)
      <3>1. CASE k + 1 <= i /\ i <= n
        BY <2>1, <3>1 DEF RunFreed
      <3>2. CASE i = n + 1
        BY <1>1, <1>8, <1>11, <2>1, <3>2 DEF RunFreed, PartRef
      <3>3. CASE i <= k \/ i > n + 1
        <4>1. \A j \in 1 .. Len(T) : k + 1 <= j /\ j <= n + 1 => T[j] # T[i]
          BY <1>1, <1>11, <3>3
        <4>2. f.ref[T[i]] = g.ref[T[i]] /\ f.next[T[i]] = g.next[T[i]]
          BY <1>1, <2>1, <4>1 DEF RunFreed
        <4> QED
          BY <1>1, <1>8, <1>11, <3>3, <4>2 DEF PartRef
      <3> QED
        BY <1>1, <1>11, <3>1, <3>2, <3>3
    <2>3. ASSUME NEW p \in Pbufs, \A i \in 1 .. Len(T) : T[i] # p
          PROVE  f.ref[p] = h0.ref[p] /\ f.next[p] = h0.next[p]
      <3>1. f.ref[p] = g.ref[p] /\ f.next[p] = g.next[p]
        BY <2>1, <2>3 DEF RunFreed
      <3> QED
        BY <1>1, <1>6, <2>3, <3>1 DEF IsPart
    <2> QED
      BY <1>4, <1>9, <2>1, <2>2, <2>3 DEF IsDone, RunFreed
  <1> QED
    BY <1>1, <1>10, <1>11

\* Without a packet there is nothing else to free.
LEMMA BacklogDone ==
  ASSUME NEW h0, NEW T, NEW n \in 0 .. Len(T), NEW h, Run(h0, T, Len(T)),
         IsPart(h, h0, T, Len(T), n)
  PROVE  IsDone(h, h0, T, n)
  <1>1. Len(T) \in Nat
    BY DEF Run
  <1> QED
    BY <1>1 DEF IsPart, IsDone, PartRef

\* error frees it all.
LEMMA BacklogFreed ==
  ASSUME NEW h0, NEW T, Run(h0, T, Len(T)), IsPart(h0, h0, T, Len(T), 0)
  PROVE  IsDone(PbufFree(PbufFree(h0, Null), At(T, 1)), h0, T, Len(T))
  <1>1. /\ T \in Seq(Pbufs) /\ Len(T) \in Nat /\ h0 \in Heaps
        /\ \A i \in 1 .. Len(T) : T[i] \in Pbufs
    BY DEF Run
  <1>2. Ranked(h0.next) /\ Chained(h0.next, T, 1)
    BY PartRanked
  <1>3. PbufFree(h0, Null) = h0
    BY <1>1, <1>2, PbufFreeUnfolds
  <1>4. PICK f : f = PbufFree(h0, At(T, 1))
    BY Zenon
  <1>5. RunFreed(f, h0, T, 1, Len(T))
    <2>1. \A i \in 1 .. Len(T) : 1 <= i /\ i <= Len(T) => h0.ref[T[i]] <= 1
      BY <1>1 DEF IsPart, PartRef
    <2>2. 1 \in Nat \ {0} /\ 1 <= Len(T) + 1 /\ Len(T) <= Len(T) /\ ~(Len(T) < Len(T))
      BY <1>1
    <2> QED
      BY <1>1, <1>2, <1>4, <2>1, <2>2, PbufFreeRun
  <1>6. IsDone(f, h0, T, Len(T))
    BY <1>1, <1>5 DEF RunFreed, IsDone
  <1> QED
    BY <1>3, <1>4, <1>6

-----------------------------------------------------------------------------
(* The backlogs of all connections                                          *)

Distinct(b) ==
    \A c, d \in Connections :
        \A i \in 1 .. Len(b[c]), j \in 1 .. Len(b[d]) :
            b[c][i] = b[d][j] => c = d /\ i = j

Nowhere(b, p) == \A c \in Connections : \A i \in 1 .. Len(b[c]) : b[c][i] # p

\* Heap h holds the backlogs b, one reference to each pbuf, and nothing else.
Backed(b, h) ==
    /\ b \in [Connections -> Seq(Pbufs)]
    /\ Distinct(b)
    /\ h \in Heaps
    /\ \A c \in Connections : \A i \in 1 .. Len(b[c]) :
          h.ref[b[c][i]] = 1 /\ h.next[b[c][i]] = At(b[c], i + 1)
    /\ \A p \in Pbufs : Nowhere(b, p) => h.ref[p] = 0 /\ h.next[p] = Null

\* What is chained in separate sequences has no cycle.
LEMMA LinkedRanked ==
  ASSUME NEW b \in [Connections -> Seq(Pbufs)], Distinct(b),
         NEW nx \in [Pbufs -> PbufsOrNull],
         \A c \in Connections : \A i \in 1 .. Len(b[c]) : nx[b[c][i]] = At(b[c], i + 1),
         \A p \in Pbufs : Nowhere(b, p) => nx[p] = Null
  PROVE  Ranked(nx)
  <1> DEFINE After(q) == {n \in Nat : \E c \in Connections : \E i \in 1 .. Len(b[c]) :
                                          b[c][i] = q /\ n = Len(b[c]) - i + 1}
             r == [q \in PbufsOrNull |->
                      IF q = Null THEN 0
                      ELSE IF Nowhere(b, q) THEN 1 ELSE CHOOSE n \in Nat : n \in After(q)]
  <1>1. \A c \in Connections : b[c] \in Seq(Pbufs) /\ Len(b[c]) \in Nat
    OBVIOUS
  <1>2. ASSUME NEW c \in Connections, NEW i \in 1 .. Len(b[c])
        PROVE  b[c][i] \in Pbufs /\ b[c][i] # Null /\ r[b[c][i]] = Len(b[c]) - i + 1
    <2>1. b[c][i] \in Pbufs /\ b[c][i] # Null /\ b[c][i] \in PbufsOrNull
      BY <1>1, NullAssumption DEF PbufsOrNull
    <2>2. ~Nowhere(b, b[c][i])
      BY DEF Nowhere
    <2>3. Len(b[c]) - i + 1 \in After(b[c][i]) /\ Len(b[c]) - i + 1 \in Nat
      BY <1>1
    <2>4. ASSUME NEW n \in After(b[c][i]) PROVE n = Len(b[c]) - i + 1
      <3>1. PICK d \in Connections : \E j \in 1 .. Len(b[d]) :
               b[d][j] = b[c][i] /\ n = Len(b[d]) - j + 1
        BY <2>4
      <3>2. PICK j \in 1 .. Len(b[d]) : b[d][j] = b[c][i] /\ n = Len(b[d]) - j + 1
        BY <3>1
      <3>3. d = c /\ j = i
        BY <3>2 DEF Distinct
      <3> QED
        BY <3>2, <3>3
    <2> HIDE DEF After
    <2>5. (CHOOSE n \in Nat : n \in After(b[c][i])) = Len(b[c]) - i + 1
      BY <2>3, <2>4, Zenon
    <2> QED
      BY <2>1, <2>2, <2>5
  <1>3. ASSUME NEW q \in PbufsOrNull
        PROVE  r[q] \in Nat /\ (q # Null => r[q] > 0) /\ (q = Null => r[q] = 0)
    <2>1. CASE q = Null
      BY <2>1
    <2>2. CASE q # Null /\ Nowhere(b, q)
      BY <2>2
    <2>3. CASE ~Nowhere(b, q)
      <3>1. PICK c \in Connections : \E i \in 1 .. Len(b[c]) : b[c][i] = q
        BY <2>3 DEF Nowhere
      <3>2. PICK i \in 1 .. Len(b[c]) : b[c][i] = q
        BY <3>1
      <3> HIDE DEF r, After
      <3>3. q # Null /\ r[q] = Len(b[c]) - i + 1
        BY <1>2, <3>2
      <3> QED
        BY <1>1, <3>2, <3>3
    <2> QED
      BY <2>1, <2>2, <2>3
  <1> HIDE DEF r, After
  <1>4. r = [q \in PbufsOrNull |-> r[q]]
    BY DEF r
  <1>5. r \in [PbufsOrNull -> Nat]
    BY <1>3, <1>4
  <1>6. ASSUME NEW q \in Pbufs PROVE r[nx[q]] < r[q] /\ r[Null] < r[q]
    <2>1. /\ q \in PbufsOrNull /\ q # Null /\ nx[q] \in PbufsOrNull /\ Null \in PbufsOrNull
          /\ r[q] > 0 /\ r[q] \in Nat /\ r[Null] = 0
      <3>1. q \in PbufsOrNull /\ q # Null /\ nx[q] \in PbufsOrNull /\ Null \in PbufsOrNull
        BY NullAssumption DEF PbufsOrNull
      <3> QED
        BY <1>3, <3>1
    <2>2. CASE Nowhere(b, q)
      BY <2>1, <2>2
    <2>3. CASE ~Nowhere(b, q)
      <3>1. PICK c \in Connections : \E i \in 1 .. Len(b[c]) : b[c][i] = q
        BY <2>3 DEF Nowhere
      <3>2. PICK i \in 1 .. Len(b[c]) : b[c][i] = q
        BY <3>1
      <3>3. r[q] = Len(b[c]) - i + 1 /\ nx[q] = At(b[c], i + 1)
        BY <1>2, <3>2
      <3>4. CASE i = Len(b[c])
        BY <1>1, <2>1, <3>3, <3>4 DEF At
      <3>5. CASE i # Len(b[c])
        <4>1. i + 1 \in 1 .. Len(b[c]) /\ nx[q] = b[c][i + 1]
          BY <1>1, <3>3, <3>5 DEF At
        <4>2. r[nx[q]] = Len(b[c]) - (i + 1) + 1
          BY <1>2, <4>1
        <4> QED
          BY <1>1, <2>1, <3>3, <4>2
      <3> QED
        BY <3>4, <3>5
    <2> QED
      BY <2>2, <2>3
  <1> QED
    BY <1>5, <1>6 DEF Descends, Ranked

\* A backlog alone, before anything of it is written.
LEMMA BacklogRun ==
  ASSUME NEW b, NEW h, Backed(b, h), NEW c \in Connections
  PROVE  /\ Ranked(h.next)
         /\ Run(h, b[c], Len(b[c]))
         /\ IsPart(h, h, b[c], Len(b[c]), 0)
  <1>1. h.next \in [Pbufs -> PbufsOrNull]
    BY DEF Backed, Heaps
  <1>2. b \in [Connections -> Seq(Pbufs)] /\ b[c] \in Seq(Pbufs) /\ Len(b[c]) \in Nat
    BY DEF Backed
  <1>3. Ranked(h.next)
    BY <1>1, <1>2, LinkedRanked DEF Backed
  <1>4. \A i, j \in 1 .. Len(b[c]) : b[c][i] = b[c][j] => i = j
    BY DEF Backed, Distinct
  <1>5. Run(h, b[c], Len(b[c]))
    <2>1. \A i \in 1 .. Len(b[c]) : h.next[b[c][i]] = At(b[c], i + 1)
      BY DEF Backed
    <2>2. Len(b[c]) \in 0 .. Len(b[c]) /\ h \in Heaps
      BY <1>2 DEF Backed
    <2>3. PICK nx : nx = h.next
      BY Zenon
    <2> QED
      BY <1>2, <1>3, <1>4, <2>1, <2>2, <2>3 DEF Run
  <1>6. IsPart(h, h, b[c], Len(b[c]), 0)
    BY <1>2 DEF IsPart, PartRef, Backed
  <1> QED
    BY <1>3, <1>5, <1>6

\* s is a packet of free pbufs, and h is h0 after it has come.
IsPacket(s, h0) ==
    /\ s \in Seq(Pbufs) /\ Len(s) > 0
    /\ \A i, j \in 1 .. Len(s) : s[i] = s[j] => i = j
    /\ \A i \in 1 .. Len(s) : h0.ref[s[i]] = 0

HasArrived(h, h0, s) ==
    /\ h \in Heaps
    /\ \A i \in 1 .. Len(s) : h.ref[s[i]] = 1 /\ h.next[s[i]] = At(s, i + 1)
    /\ \A p \in Pbufs : (\A i \in 1 .. Len(s) : s[i] # p) =>
                            h.ref[p] = h0.ref[p] /\ h.next[p] = h0.next[p]

Joined(b, c, s) == [b EXCEPT ![c] = @ \o s]

\* A backlog with a packet after it is a sequence of different pbufs.
LEMMA JoinedIs ==
  ASSUME NEW b, NEW h0, Backed(b, h0), NEW c \in Connections, NEW s, IsPacket(s, h0)
  PROVE  LET T == b[c] \o s
             k == Len(b[c])
         IN  /\ T \in Seq(Pbufs) /\ k \in Nat /\ Len(s) \in Nat /\ Len(T) = k + Len(s)
             /\ \A i \in 1 .. Len(T) : T[i] \in Pbufs /\ T[i] # Null
             /\ \A i \in 1 .. k : i \in 1 .. Len(T) /\ T[i] = b[c][i]
             /\ \A j \in 1 .. Len(s) : k + j \in 1 .. Len(T) /\ T[k + j] = s[j]
             /\ \A i \in 1 .. Len(T) : i > k => i - k \in 1 .. Len(s) /\ T[i] = s[i - k]
             /\ \A i, j \in 1 .. Len(T) : T[i] = T[j] => i = j
  <1> DEFINE T == b[c] \o s
             k == Len(b[c])
  <1>1. /\ b \in [Connections -> Seq(Pbufs)] /\ b[c] \in Seq(Pbufs) /\ k \in Nat
        /\ s \in Seq(Pbufs) /\ Len(s) \in Nat
        /\ \A d \in Connections : Len(b[d]) \in Nat
    BY DEF Backed, IsPacket
  <1>2. /\ T \in Seq(Pbufs) /\ Len(T) = k + Len(s)
        /\ \A i \in 1 .. k : T[i] = b[c][i]
        /\ \A i \in 1 .. Len(T) : i > k => T[i] = s[i - k]
    BY <1>1
  <1> HIDE DEF T, k
  <1>3. \A i \in 1 .. Len(T) : T[i] \in Pbufs /\ T[i] # Null
    BY <1>2, NullAssumption
  <1>4. \A i \in 1 .. k : i \in 1 .. Len(T) /\ T[i] = b[c][i]
    BY <1>1, <1>2
  <1>5. \A j \in 1 .. Len(s) : k + j \in 1 .. Len(T) /\ T[k + j] = s[j]
    <2> SUFFICES ASSUME NEW j \in 1 .. Len(s)
                 PROVE  k + j \in 1 .. Len(T) /\ T[k + j] = s[j]
      OBVIOUS
    <2>1. PICK i \in 1 .. Len(T) : i = k + j /\ i > k /\ i - k = j
      BY <1>1, <1>2
    <2>2. T[i] = s[i - k]
      BY <1>2, <2>1
    <2> QED
      BY ONLY <2>1, <2>2
  <1>6. \A i \in 1 .. Len(T) : i > k => i - k \in 1 .. Len(s) /\ T[i] = s[i - k]
    BY <1>1, <1>2
  <1>7. \A d \in Connections : \A i \in 1 .. Len(b[d]) : h0.ref[b[d][i]] = 1
    BY DEF Backed
  <1>8. \A j \in 1 .. Len(s) : h0.ref[s[j]] = 0
    BY DEF IsPacket
  <1>9. ASSUME NEW i \in 1 .. Len(T), NEW j \in 1 .. Len(T), T[i] = T[j] PROVE i = j
    <2>1. CASE i <= k /\ j <= k
      <3>1. i \in 1 .. k /\ j \in 1 .. k
        BY <1>1, <2>1
      <3> QED
        BY <1>4, <1>9, <3>1 DEF Backed, Distinct, k
    <2>2. CASE i > k /\ j > k
      <3>1. i - k \in 1 .. Len(s) /\ j - k \in 1 .. Len(s) /\ s[i - k] = s[j - k]
        BY <1>6, <1>9, <2>2
      <3>2. i - k = j - k
        BY <3>1 DEF IsPacket
      <3> QED
        BY <1>1, <3>2
    <2>3. ASSUME NEW m \in 1 .. Len(T), NEW n \in 1 .. Len(T), m <= k, n > k
          PROVE  T[m] # T[n]
      <3>1. m \in 1 .. k
        BY <1>1, <2>3
      <3>2. h0.ref[T[m]] = 1
        BY <1>4, <1>7, <3>1 DEF k
      <3>3. h0.ref[T[n]] = 0
        BY <1>6, <1>8, <2>3
      <3> QED
        BY <3>2, <3>3
    <2> QED
      BY <1>1, <1>9, <2>1, <2>2, <2>3
  <1> QED
    BY <1>1, <1>2, <1>3, <1>4, <1>5, <1>6, <1>9 DEF T, k

\* The backlogs stay separate when a packet joins one of them.
LEMMA JoinedFamily ==
  ASSUME NEW b, NEW h0, Backed(b, h0), NEW c \in Connections, NEW s, IsPacket(s, h0)
  PROVE  /\ Joined(b, c, s) \in [Connections -> Seq(Pbufs)]
         /\ Joined(b, c, s)[c] = b[c] \o s
         /\ \A d \in Connections : d # c => Joined(b, c, s)[d] = b[d]
         /\ Distinct(Joined(b, c, s))
  <1> DEFINE T == b[c] \o s
             k == Len(b[c])
             F == Joined(b, c, s)
  <1>1. b \in [Connections -> Seq(Pbufs)] /\ \A d \in Connections : Len(b[d]) \in Nat
    BY DEF Backed
  <1>2. /\ T \in Seq(Pbufs) /\ k \in Nat /\ Len(s) \in Nat
        /\ \A i \in 1 .. k : T[i] = b[c][i]
        /\ \A i \in 1 .. Len(T) : i > k => i - k \in 1 .. Len(s) /\ T[i] = s[i - k]
        /\ \A i, j \in 1 .. Len(T) : T[i] = T[j] => i = j
    BY JoinedIs
  <1> HIDE DEF T, k
  <1>3. \A d \in Connections : \A i \in 1 .. Len(b[d]) : h0.ref[b[d][i]] = 1
    BY DEF Backed
  <1>4. \A j \in 1 .. Len(s) : h0.ref[s[j]] = 0
    BY DEF IsPacket
  <1>5. /\ F \in [Connections -> Seq(Pbufs)] /\ F[c] = T
         /\ \A d \in Connections : d # c => F[d] = b[d]
    BY <1>1, <1>2 DEF Joined, T
  <1> HIDE DEF F
  <1>6. ASSUME NEW d \in Connections, d # c, NEW i \in 1 .. Len(b[d]),
                NEW j \in 1 .. Len(T)
         PROVE  b[d][i] # T[j]
    <2>1. CASE j <= k
      <3>1. j \in 1 .. k /\ T[j] = b[c][j]
        BY <1>2, <2>1
      <3> QED
        BY <1>6, <3>1 DEF Backed, Distinct, k
    <2>2. CASE j > k
      <3>1. h0.ref[T[j]] = 0
        BY <1>2, <1>4, <2>2
      <3> QED
        BY <1>3, <3>1
    <2> QED
      BY <1>2, <2>1, <2>2
  <1>7. ASSUME NEW d \in Connections, NEW e \in Connections,
                NEW i \in 1 .. Len(F[d]), NEW j \in 1 .. Len(F[e]), F[d][i] = F[e][j]
         PROVE  d = e /\ i = j
    <2>1. CASE d = c /\ e = c
      BY <1>2, <1>5, <1>7, <2>1
    <2>2. CASE d # c /\ e = c
      BY <1>5, <1>6, <1>7, <2>2
    <2>3. CASE d = c /\ e # c
      BY <1>5, <1>6, <1>7, <2>3
    <2>4. CASE d # c /\ e # c
      BY <1>5, <1>7, <2>4 DEF Backed, Distinct
    <2> QED
      BY <2>1, <2>2, <2>3, <2>4
  <1>8. Distinct(F)
    BY <1>7 DEF Distinct
  <1> QED
    BY <1>5, <1>8 DEF T, F

\* A packet may be chained to a backlog: there is no cycle then.
LEMMA PacketRun ==
  ASSUME NEW b, NEW h0, Backed(b, h0), NEW c \in Connections, NEW s, IsPacket(s, h0)
  PROVE  Run(h0, b[c] \o s, Len(b[c]))
  <1>1. PICK T, k, F, nx :
          /\ T = b[c] \o s /\ k = Len(b[c]) /\ F = Joined(b, c, s)
          /\ nx = [p \in Pbufs |->
                     IF \E i \in 1 .. Len(T) : T[i] = p
                     THEN At(T, (CHOOSE i \in 1 .. Len(T) : T[i] = p) + 1)
                     ELSE h0.next[p]]
    BY Zenon
  <1>2. /\ T \in Seq(Pbufs) /\ k \in Nat /\ Len(s) \in Nat /\ Len(T) = k + Len(s)
        /\ \A i \in 1 .. Len(T) : T[i] \in Pbufs /\ T[i] # Null
        /\ \A i, j \in 1 .. Len(T) : T[i] = T[j] => i = j
        /\ \A i \in 1 .. k : i \in 1 .. Len(T) /\ T[i] = b[c][i]
    BY <1>1, JoinedIs
  <1>3. /\ F \in [Connections -> Seq(Pbufs)] /\ F[c] = T
        /\ \A d \in Connections : d # c => F[d] = b[d]
        /\ Distinct(F)
    BY <1>1, JoinedFamily
  <1>4. h0 \in Heaps /\ h0.next \in [Pbufs -> PbufsOrNull]
    BY DEF Backed, Heaps
  <1>5. ASSUME NEW i \in 1 .. Len(T) PROVE nx[T[i]] = At(T, i + 1)
    <2>1. (CHOOSE j \in 1 .. Len(T) : T[j] = T[i]) = i
      BY <1>2
    <2>2. T[i] \in Pbufs /\ \E j \in 1 .. Len(T) : T[j] = T[i]
      BY <1>2
    <2> QED
      BY <1>1, <2>1, <2>2
  <1>6. ASSUME NEW p \in Pbufs, \A i \in 1 .. Len(T) : T[i] # p
        PROVE  nx[p] = h0.next[p]
    BY <1>1, <1>6
  <1>7. nx \in [Pbufs -> PbufsOrNull]
    <2>1. \A i : At(T, i) \in PbufsOrNull
      BY <1>2 DEF At, PbufsOrNull
    <2> QED
      BY <1>1, <1>4, <2>1
  <1>8. \A d \in Connections : \A i \in 1 .. Len(F[d]) : nx[F[d][i]] = At(F[d], i + 1)
    <2> SUFFICES ASSUME NEW d \in Connections, NEW i \in 1 .. Len(F[d])
                 PROVE  nx[F[d][i]] = At(F[d], i + 1)
      OBVIOUS
    <2>1. CASE d = c
      BY <1>3, <1>5, <2>1
    <2>2. CASE d # c
      <3>1. F[d] = b[d] /\ F[d][i] \in Pbufs
        BY <1>3, <2>2
      <3>2. \A j \in 1 .. Len(T) : T[j] # F[d][i]
        BY <1>3, <2>2 DEF Distinct
      <3>3. nx[F[d][i]] = h0.next[F[d][i]]
        BY <1>6, <3>1, <3>2
      <3> QED
        BY <3>1, <3>3 DEF Backed
    <2> QED
      BY <2>1, <2>2
  <1>9. \A p \in Pbufs : Nowhere(F, p) => nx[p] = Null
    <2> SUFFICES ASSUME NEW p \in Pbufs, Nowhere(F, p) PROVE nx[p] = Null
      OBVIOUS
    <2>1. \A i \in 1 .. Len(T) : T[i] # p
      BY <1>3 DEF Nowhere
    <2>2. Nowhere(b, p)
      <3>1. ASSUME NEW d \in Connections, NEW i \in 1 .. Len(b[d]) PROVE b[d][i] # p
        <4>1. CASE d = c
          BY <1>1, <1>2, <2>1, <4>1
        <4>2. CASE d # c
          BY <1>3, <4>2 DEF Nowhere
        <4> QED
          BY <4>1, <4>2
      <3> QED
        BY <3>1 DEF Nowhere
    <2> QED
      BY <1>6, <2>1, <2>2 DEF Backed
  <1>10. Ranked(nx)
    BY <1>3, <1>7, <1>8, <1>9, LinkedRanked
  <1>11. k \in 0 .. Len(T)
    BY <1>2
  <1>12. Run(h0, T, k)
    BY <1>2, <1>4, <1>5, <1>6, <1>10, <1>11 DEF Run
  <1> QED
    BY <1>1, <1>12

\* recv and write refer to the packet and chain it to the backlog.
LEMMA PacketLinked ==
  ASSUME NEW b, NEW h0, Backed(b, h0), NEW c \in Connections, NEW s, IsPacket(s, h0),
         NEW h, HasArrived(h, h0, s)
  PROVE  LET g == PbufRef(h, s[1])
         IN  /\ g \in Heaps
             /\ b[c] = << >> =>
                   IsPart(PbufRef(g, s[1]), h0, b[c] \o s, Len(b[c]), 0)
             /\ b[c] # << >> =>
                   IsPart(PbufChain(g, b[c][1], s[1]), h0, b[c] \o s, Len(b[c]), 0)
  <1> DEFINE T == b[c] \o s
             k == Len(b[c])
  <1>1. /\ T \in Seq(Pbufs) /\ k \in Nat /\ Len(s) \in Nat /\ Len(T) = k + Len(s)
        /\ \A i \in 1 .. Len(T) : T[i] \in Pbufs /\ T[i] # Null
        /\ \A i \in 1 .. k : i \in 1 .. Len(T) /\ T[i] = b[c][i]
        /\ \A j \in 1 .. Len(s) : k + j \in 1 .. Len(T) /\ T[k + j] = s[j]
        /\ \A i \in 1 .. Len(T) : i > k => i - k \in 1 .. Len(s) /\ T[i] = s[i - k]
        /\ \A i, j \in 1 .. Len(T) : T[i] = T[j] => i = j
    BY JoinedIs
  <1>2. Len(s) > 0 /\ b[c] \in Seq(Pbufs) /\ s \in Seq(Pbufs)
    BY DEF IsPacket, Backed
  <1>3. Run(h0, T, k)
    BY PacketRun
  <1>4. PICK t : t = s[1]
    BY Zenon
  <1> HIDE DEF T
  <1>5. t \in Pbufs /\ t # Null /\ t \in PbufsOrNull /\ k + 1 \in 1 .. Len(T) /\ T[k + 1] = t
    <2>1. 1 \in 1 .. Len(s)
      BY <1>1, <1>2
    <2> QED
      BY <1>1, <1>4, <2>1 DEF PbufsOrNull
  <1>6. \A i \in 1 .. k : h0.ref[T[i]] = 1 /\ h0.next[T[i]] = At(b[c], i + 1)
    BY <1>1 DEF Backed
  <1>7. \A i \in 1 .. Len(T) : i <= k => \A j \in 1 .. Len(s) : s[j] # T[i]
    <2>1. ASSUME NEW i \in 1 .. Len(T), i <= k, NEW j \in 1 .. Len(s) PROVE s[j] # T[i]
      <3>1. k + j \in 1 .. Len(T) /\ T[k + j] = s[j]
        BY <1>1
      <3>2. k + j # i
        BY <1>1, <2>1
      <3> QED
        BY <1>1, <3>1, <3>2
    <2> QED
      BY <2>1
  \* The heap on arrival, along T.
  <1>8. ASSUME NEW i \in 1 .. Len(T)
        PROVE  /\ h.ref[T[i]] = 1
               /\ i # k => h.next[T[i]] = At(T, i + 1)
               /\ i = k => h.next[T[i]] = Null
    <2>1. CASE i > k
      <3>1. PICK j \in 1 .. Len(s) : i = k + j /\ T[i] = s[j]
        <4>1. i - k \in 1 .. Len(s) /\ T[i] = s[i - k] /\ i = k + (i - k)
          BY <1>1, <2>1
        <4> QED
          BY <4>1
      <3>2. h.ref[s[j]] = 1 /\ h.next[s[j]] = At(s, j + 1)
        BY DEF HasArrived
      <3>3. At(s, j + 1) = At(T, i + 1)
        <4>1. CASE j = Len(s)
          <5>1. ~(j + 1 \in 1 .. Len(s)) /\ ~(i + 1 \in 1 .. Len(T))
            BY <1>1, <3>1, <4>1
          <5> QED
            BY <5>1 DEF At
        <4>2. CASE j # Len(s)
          <5>1. PICK n \in 1 .. Len(s) : n = j + 1
            BY <1>1, <4>2
          <5>2. k + n \in 1 .. Len(T) /\ T[k + n] = s[n]
            BY <1>1
          <5>3. k + n = i + 1
            <6>1. k \in Nat /\ j \in Nat
              BY <1>1
            <6> HIDE DEF k
            <6> QED
              BY ONLY <3>1, <5>1, <6>1
          <5> QED
            BY <5>1, <5>2, <5>3 DEF At
        <4> QED
          BY <4>1, <4>2
      <3> QED
        BY <1>1, <2>1, <3>1, <3>2, <3>3
    <2>2. CASE i <= k
      <3>1. i \in 1 .. k
        BY <1>1, <2>2
      <3>2. h.ref[T[i]] = h0.ref[T[i]] /\ h.next[T[i]] = h0.next[T[i]]
        BY <1>1, <1>7, <2>2 DEF HasArrived
      <3>3. h.ref[T[i]] = 1 /\ h.next[T[i]] = At(b[c], i + 1)
        BY <1>6, <3>1, <3>2
      <3>4. i = k => At(b[c], i + 1) = Null
        BY <1>1 DEF At
      <3>5. i # k => At(b[c], i + 1) = At(T, i + 1)
        BY <1>1, <3>1 DEF At
      <3> QED
        BY <3>3, <3>4, <3>5
    <2> QED
      BY <1>1, <2>1, <2>2
  <1>9. ASSUME NEW p \in Pbufs, \A i \in 1 .. Len(T) : T[i] # p
        PROVE  h.ref[p] = h0.ref[p] /\ h.next[p] = h0.next[p]
    <2>1. \A j \in 1 .. Len(s) : s[j] # p
      BY <1>1, <1>9
    <2> QED
      BY <1>9, <2>1 DEF HasArrived
  \* recv refers to it.
  <1>10. PICK g : g = PbufRef(h, t)
    BY Zenon
  <1>11. /\ g \in Heaps /\ g.next = h.next /\ g.ref[t] = h.ref[t] + 1
         /\ \A p \in Pbufs : p # t => g.ref[p] = h.ref[p]
    BY <1>5, <1>10, PbufRefIs DEF HasArrived
  <1>12. CASE b[c] = << >>
    <2>1. PICK f : f = PbufRef(g, t)
      BY Zenon
    <2>2. /\ f \in Heaps /\ f.next = g.next /\ f.ref[t] = g.ref[t] + 1
          /\ \A p \in Pbufs : p # t => f.ref[p] = g.ref[p]
      BY <1>5, <1>11, <2>1, PbufRefIs
    <2>3. k = 0
      BY <1>12
    <2>4. ASSUME NEW i \in 1 .. Len(T)
          PROVE  f.ref[T[i]] = PartRef(k, 0, i) /\ f.next[T[i]] = At(T, i + 1)
      <3>1. CASE i = 1
        BY <1>5, <1>8, <1>11, <2>2, <2>3, <3>1 DEF PartRef
      <3>2. CASE i # 1
        <4>1. T[i] # t /\ T[i] \in Pbufs
          BY <1>1, <1>5, <2>3, <3>2
        <4> QED
          BY <1>8, <1>11, <2>2, <2>3, <3>2, <4>1 DEF PartRef
      <3> QED
        BY <3>1, <3>2
    <2>5. ASSUME NEW p \in Pbufs, \A i \in 1 .. Len(T) : T[i] # p
          PROVE  f.ref[p] = h0.ref[p] /\ f.next[p] = h0.next[p]
      <3>1. p # t
        BY <1>5, <2>5
      <3> QED
        BY <1>9, <1>11, <2>2, <2>5, <3>1
    <2>6. IsPart(f, h0, T, k, 0)
      BY <2>2, <2>3, <2>4, <2>5 DEF IsPart
    <2> QED
      BY <1>4, <1>10, <1>11, <1>12, <2>1, <2>6 DEF T
  <1>13. CASE b[c] # << >>
    <2>1. k > 0 /\ k \in 1 .. k /\ k \in 1 .. Len(T) /\ 1 \in 1 .. k /\ k + 1 \in 1 .. Len(T)
      BY <1>1, <1>2, <1>13
    <2>2. PICK e \in Pbufs : e = T[k]
      BY <1>1, <2>1
    <2>3. ChainOf(g.next, b[c][1]) = b[c]
      <3>1. PICK nx : /\ Ranked(nx)
                      /\ \A i \in 1 .. Len(T) : nx[T[i]] = At(T, i + 1)
                      /\ \A p \in Pbufs : (\A i \in 1 .. Len(T) : T[i] # p) =>
                                              nx[p] = h0.next[p]
        BY <1>3 DEF Run
      <3>2. ASSUME NEW p \in Pbufs PROVE g.next[p] \in {nx[p], Null}
        <4>1. CASE \A i \in 1 .. Len(T) : T[i] # p
          BY <1>9, <1>11, <3>1, <4>1
        <4>2. CASE ~(\A i \in 1 .. Len(T) : T[i] # p)
          BY <1>8, <1>11, <3>1, <4>2
        <4> QED
          BY <4>1, <4>2
      <3>3. g.next \in [Pbufs -> PbufsOrNull]
        BY <1>11 DEF Heaps
      <3>4. Ranked(g.next)
        BY <3>1, <3>2, <3>3, RankedLess
      <3>5. Chained(g.next, b[c], 1)
        <4>1. \A i \in 1 .. k : g.next[b[c][i]] = At(b[c], i + 1)
          <5>1. ASSUME NEW i \in 1 .. k PROVE g.next[b[c][i]] = At(b[c], i + 1)
            <6>1. i \in 1 .. Len(T) /\ T[i] = b[c][i]
              BY <1>1
            <6>2. i = k => At(b[c], i + 1) = Null
              BY <1>1 DEF At
            <6>3. i # k => At(b[c], i + 1) = At(T, i + 1)
              BY <1>1, <6>1 DEF At
            <6> QED
              BY <1>8, <1>11, <6>1, <6>2, <6>3
          <5> QED
            BY <5>1
        <4>2. \A i, j \in 1 .. k : b[c][i] = b[c][j] => i = j
          BY <1>1
        <4> QED
          BY <1>2, <4>1, <4>2 DEF Chained
      <3>6. ChainOf(g.next, At(b[c], 1)) = SubSeq(b[c], 1, Len(b[c]))
        <4>1. 1 \in Nat \ {0} /\ 1 <= Len(b[c]) + 1
          BY <1>1
        <4> QED
          BY <3>4, <3>5, <4>1, ChainIs
      <3>7. At(b[c], 1) = b[c][1]
        BY <2>1 DEF At
      <3> QED
        BY <1>2, <3>6, <3>7
    <2>4. PICK d : d = [g EXCEPT !.next[e] = t]
      BY Zenon
    <2>5. d \in Heaps
      BY <1>5, <1>11, <2>4, HeapTypes
    <2>6. d.ref = g.ref /\ d.next = [g.next EXCEPT ![e] = t]
      BY <1>11, <2>4, <2>5 DEF Heaps
    <2>7. d.next[e] = t /\ \A p \in Pbufs : p # e => d.next[p] = g.next[p]
      BY <1>11, <2>6 DEF Heaps
    <2>8. PICK f : f = PbufRef(d, t)
      BY Zenon
    <2>9. /\ f \in Heaps /\ f.next = d.next /\ f.ref[t] = d.ref[t] + 1
          /\ \A p \in Pbufs : p # t => f.ref[p] = d.ref[p]
      BY <1>5, <2>5, <2>8, PbufRefIs
    <2>10. PbufChain(g, b[c][1], t) = f
      <3>1. b[c][Len(b[c])] = e
        BY <1>1, <2>1, <2>2
      <3>2. PbufChain(g, b[c][1], t) = PbufRef([g EXCEPT !.next[b[c][Len(b[c])]] = t], t)
        BY <2>3, Zenon DEF PbufChain
      <3> QED
        BY <2>4, <2>8, <3>1, <3>2, Zenon
    <2>11. ASSUME NEW i \in 1 .. Len(T)
           PROVE  f.ref[T[i]] = PartRef(k, 0, i) /\ f.next[T[i]] = At(T, i + 1)
      <3>1. f.ref[T[i]] = PartRef(k, 0, i)
        <4>1. CASE i = k + 1
          <5>1. T[i] = t /\ h.ref[t] = 1
            BY <1>5, <1>8, <4>1
          <5>2. f.ref[t] = 3
            BY <1>11, <2>6, <2>9, <5>1
          <5>3. PartRef(k, 0, i) = 3
            BY <1>1, <2>1, <4>1 DEF PartRef
          <5> QED
            BY <5>1, <5>2, <5>3
        <4>2. CASE i # k + 1
          <5>1. T[i] # t /\ T[i] \in Pbufs
            BY <1>1, <1>5, <4>2
          <5>2. f.ref[T[i]] = 1
            BY <1>8, <1>11, <2>6, <2>9, <5>1
          <5> QED
            BY <1>1, <2>1, <4>2, <5>2 DEF PartRef
        <4> QED
          BY <4>1, <4>2
      <3>2. f.next[T[i]] = At(T, i + 1)
        <4>1. CASE i = k
          BY <1>1, <1>5, <2>1, <2>2, <2>7, <2>9, <4>1 DEF At
        <4>2. CASE i # k
          <5>1. T[i] # e /\ T[i] \in Pbufs
            BY <1>1, <2>1, <2>2, <4>2
          <5> QED
            BY <1>8, <1>11, <2>7, <2>9, <4>2, <5>1
        <4> QED
          BY <4>1, <4>2
      <3> QED
        BY <3>1, <3>2
    <2>12. ASSUME NEW p \in Pbufs, \A i \in 1 .. Len(T) : T[i] # p
           PROVE  f.ref[p] = h0.ref[p] /\ f.next[p] = h0.next[p]
      <3>1. p # t /\ p # e
        BY <1>5, <2>1, <2>2, <2>12
      <3> QED
        BY <1>9, <1>11, <2>6, <2>7, <2>9, <2>12, <3>1
    <2>13. IsPart(f, h0, T, k, 0)
      <3>1. \A i \in 1 .. Len(T) : ~(i <= k /\ i <= 0)
        BY <1>1
      <3> QED
        BY <2>9, <2>11, <2>12, <3>1 DEF IsPart
    <2> QED
      BY <1>4, <1>10, <1>11, <1>13, <2>10, <2>13 DEF T
  <1> QED
    BY <1>12, <1>13

-----------------------------------------------------------------------------
(* Worlds                                                                   *)

\* A world with another heap.
LEMMA WithHeap ==
  ASSUME NEW w \in Worlds, NEW g \in Heaps, NEW v, v = [w EXCEPT !.h = g]
  PROVE  v \in Worlds /\ v.h = g /\ v.c = w.c /\ v.k = w.k
  BY DEF Worlds

ReadInto(w, g, q) == [w EXCEPT !.h = g, !.c.readBuffer = q]
WriteFrom(w, g, q) == [w EXCEPT !.h = g, !.c.writeBuffer = q]

\* A world with another heap and readBuffer.
LEMMA WithReadBuffer ==
  ASSUME NEW w \in Worlds, NEW g \in Heaps, NEW q \in PbufsOrNull,
         NEW v, v = ReadInto(w, g, q)
  PROVE  /\ v \in Worlds /\ v.h = g /\ v.k = w.k
         /\ v.c.state = w.c.state /\ v.c.controlBlock = w.c.controlBlock
         /\ v.c.writeBuffer = w.c.writeBuffer /\ v.c.readBuffer = q
  <1>1. v.h = g /\ v.k = w.k /\ v.c = [w.c EXCEPT !.readBuffer = q]
        /\ v = [h |-> v.h, c |-> v.c, k |-> v.k]
    BY DEF Worlds, ReadInto
  <1>2. w.c \in ConnTypes
    BY DEF Worlds
  <1>3. /\ v.c \in ConnTypes
        /\ v.c.state = w.c.state /\ v.c.controlBlock = w.c.controlBlock
        /\ v.c.writeBuffer = w.c.writeBuffer /\ v.c.readBuffer = q
    BY <1>1, <1>2 DEF ConnTypes
  <1>4. v \in Worlds
    BY <1>1, <1>3 DEF Worlds
  <1> QED
    BY <1>1, <1>3, <1>4

\* A world with another heap and writeBuffer.
LEMMA WithWriteBuffer ==
  ASSUME NEW w \in Worlds, NEW g \in Heaps, NEW q \in PbufsOrNull,
         NEW v, v = WriteFrom(w, g, q)
  PROVE  /\ v \in Worlds /\ v.h = g /\ v.k = w.k
         /\ v.c.state = w.c.state /\ v.c.controlBlock = w.c.controlBlock
         /\ v.c.writeBuffer = q /\ v.c.readBuffer = w.c.readBuffer
  <1>1. v.h = g /\ v.k = w.k /\ v.c = [w.c EXCEPT !.writeBuffer = q]
        /\ v = [h |-> v.h, c |-> v.c, k |-> v.k]
    BY DEF Worlds, WriteFrom
  <1>2. w.c \in ConnTypes
    BY DEF Worlds
  <1>3. /\ v.c \in ConnTypes
        /\ v.c.state = w.c.state /\ v.c.controlBlock = w.c.controlBlock
        /\ v.c.writeBuffer = q /\ v.c.readBuffer = w.c.readBuffer
    BY <1>1, <1>2 DEF ConnTypes
  <1>4. v \in Worlds
    BY <1>1, <1>3 DEF Worlds
  <1> QED
    BY <1>1, <1>3, <1>4

\* A received packet goes after the backlog, some of both is written, and the rest
\* waits.
LEMMA RecvPacketIs ==
  ASSUME NEW b, NEW h0, Backed(b, h0), NEW c \in Connections, NEW s, IsPacket(s, h0),
         NEW w \in Worlds, HasArrived(w.h, h0, s),
         w.c.state = "Established", w.c.readBuffer = Null,
         w.c.writeBuffer = At(b[c], 1), Len(w.k.queue) <= SndBuf,
         NEW v \in RecvPacket(w, s[1])
  PROVE  \E n \in 0 .. Len(b[c] \o s) :
            /\ n + Len(w.k.queue) <= SndBuf
            /\ IsDone(v.h, h0, b[c] \o s, n)
            /\ Wrote(v, w, b[c] \o s, n)
  <1>1. PICK T, k, p, g : /\ T = b[c] \o s /\ k = Len(b[c]) /\ p = s[1]
                          /\ g = PbufRef(w.h, p)
    BY Zenon
  <1>2. /\ k \in Nat /\ Len(T) = k + Len(s) /\ Len(s) \in Nat /\ Len(s) > 0
        /\ b[c] \in Seq(Pbufs) /\ s \in Seq(Pbufs) /\ T \in Seq(Pbufs)
    BY <1>1, JoinedIs DEF IsPacket, Backed
  <1>3. p \in Pbufs /\ p # Null /\ p \in PbufsOrNull
    BY <1>1, <1>2, NullAssumption DEF PbufsOrNull
  <1>4. k < Len(T) /\ T[k + 1] = p
    <2>1. 1 \in 1 .. Len(s)
      BY <1>2
    <2>2. T[k + 1] = s[1]
      BY <1>1, <2>1, JoinedIs
    <2> QED
      BY <1>1, <1>2, <2>2
  <1>5. Run(h0, T, k)
    BY <1>1, PacketRun
  <1>6. g \in Heaps
    BY <1>1, PacketLinked
  \* recv: the packet is what is read.
  <1>7. PICK r : r = ReadInto(w, g, p)
    BY Zenon
  <1>8. /\ r \in Worlds /\ r.h = g /\ r.k = w.k
        /\ r.c.state = "Established" /\ r.c.controlBlock = w.c.controlBlock
        /\ r.c.writeBuffer = At(b[c], 1) /\ r.c.readBuffer = p
    BY <1>3, <1>6, <1>7, WithReadBuffer
  <1>9. PICK y \in EchoRecv(r) : v = [y EXCEPT !.h = PbufFree(y.h, p)]
    BY <1>1, <1>7, Zenon DEF RecvPacket, ReadInto
  \* The application writes it.
  <1>10. PICK x \in Write(r, p) :
           y = [x EXCEPT !.h = PbufFree(x.h, x.c.readBuffer), !.c.readBuffer = Null]
    BY <1>8, Zenon DEF EchoRecv
  <1>11. PICK u : /\ x \in WriteToTcp(u)
                  /\ u \in Worlds /\ IsPart(u.h, h0, T, k, 0)
                  /\ u.c.writeBuffer = At(T, 1) /\ u.k = w.k
                  /\ u.c.state = w.c.state /\ u.c.controlBlock = w.c.controlBlock
                  /\ u.c.readBuffer = p
    <2>1. CASE b[c] = << >>
      <3>1. At(b[c], 1) = Null /\ At(T, 1) = p /\ k = 0
        BY <1>1, <1>2, <1>4, <2>1 DEF At
      <3>2. PICK f : f = PbufRef(g, p)
        BY Zenon
      <3>3. IsPart(f, h0, T, k, 0)
        BY <1>1, <2>1, <3>2, PacketLinked
      <3>4. PICK u : u = WriteFrom(r, f, p)
        BY Zenon
      <3>5. f \in Heaps
        BY <3>3 DEF IsPart
      <3>6. /\ u \in Worlds /\ u.h = f /\ u.k = r.k
            /\ u.c.state = r.c.state /\ u.c.controlBlock = r.c.controlBlock
            /\ u.c.writeBuffer = p /\ u.c.readBuffer = r.c.readBuffer
        BY <1>3, <1>8, <3>4, <3>5, WithWriteBuffer
      <3>7. x \in WriteToTcp(u)
        <4>1. ~(r.c.state # "Established" \/ p = Null) /\ ~(r.c.writeBuffer # Null)
          BY <1>3, <1>8, <3>1
        <4> QED
          BY <1>8, <3>2, <3>4, <4>1, Zenon DEF Write, WriteFrom
      <3> QED
        BY <1>8, <3>1, <3>3, <3>6, <3>7
    <2>2. CASE b[c] # << >>
      <3>1. /\ At(b[c], 1) = b[c][1] /\ b[c][1] \in Pbufs /\ b[c][1] # Null
            /\ At(T, 1) = b[c][1]
        <4>1. 1 \in 1 .. k /\ 1 \in 1 .. Len(T)
          BY <1>1, <1>2, <2>2
        <4>2. T[1] = b[c][1]
          BY <1>1, <4>1, JoinedIs
        <4> QED
          BY <1>1, <1>2, <4>1, <4>2, NullAssumption DEF At
      <3>2. PICK f : f = PbufChain(g, b[c][1], p)
        BY Zenon
      <3>3. IsPart(f, h0, T, k, 0)
        BY <1>1, <2>2, <3>2, PacketLinked
      <3>4. PICK u : u = [r EXCEPT !.h = f]
        BY Zenon
      <3>5. f \in Heaps
        BY <3>3 DEF IsPart
      <3>6. u \in Worlds /\ u.h = f /\ u.k = r.k /\ u.c = r.c
        BY <1>8, <3>4, <3>5, WithHeap
      <3>7. x \in WriteToTcp(u)
        <4>1. ~(r.c.state # "Established" \/ p = Null) /\ r.c.writeBuffer # Null
              /\ r.c.writeBuffer = b[c][1]
          BY <1>3, <1>8, <3>1
        <4> QED
          BY <1>8, <3>2, <3>4, <4>1, Zenon DEF Write
      <3> QED
        BY <1>8, <3>1, <3>3, <3>6, <3>7
    <2> QED
      BY <2>1, <2>2
  <1>12. PICK n \in 0 .. Len(T) : /\ n + Len(u.k.queue) <= SndBuf
                                  /\ IsPart(x.h, h0, T, k, n)
                                  /\ Wrote(x, u, T, n)
    BY <1>5, <1>11, WriteToTcpIs
  \* It frees it, and so does the server.
  <1>13. x \in Worlds /\ x.c.readBuffer = p
    BY <1>11, <1>12 DEF Wrote
  <1>14. PICK f : f = PbufFree(PbufFree(x.h, p), p)
    BY Zenon
  <1>15. IsDone(f, h0, T, n)
    <2>1. IsDone(PbufFree(PbufFree(x.h, T[k + 1]), T[k + 1]), h0, T, n)
      BY <1>4, <1>5, <1>12, PacketFreed
    <2> QED
      BY <1>4, <1>14, <2>1
  <1>16. f \in Heaps
    BY <1>15 DEF IsDone
  <1>17. v = ReadInto(x, f, Null)
    <2>1. x = [h |-> x.h, c |-> x.c, k |-> x.k]
      BY <1>13 DEF Worlds
    <2>2. y = [h |-> PbufFree(x.h, p), c |-> [x.c EXCEPT !.readBuffer = Null], k |-> x.k]
      BY <1>10, <1>13, <2>1
    <2>3. v = [h |-> PbufFree(y.h, p), c |-> y.c, k |-> y.k]
      BY <1>9, <2>2
    <2>4. y.h = PbufFree(x.h, p) /\ y.c = [x.c EXCEPT !.readBuffer = Null] /\ y.k = x.k
      BY <2>2
    <2>5. v = [h |-> f, c |-> [x.c EXCEPT !.readBuffer = Null], k |-> x.k]
      BY <1>14, <2>3, <2>4
    <2>6. PICK z : z = ReadInto(x, f, Null)
      BY Zenon
    <2>7. z.h = f /\ z.k = x.k /\ z.c = [x.c EXCEPT !.readBuffer = Null]
          /\ z = [h |-> z.h, c |-> z.c, k |-> z.k]
      BY <1>13, <2>6 DEF Worlds, ReadInto
    <2> QED
      BY <2>5, <2>6, <2>7, Zenon
  <1>18. /\ v \in Worlds /\ v.h = f /\ v.k = x.k
         /\ v.c.state = x.c.state /\ v.c.controlBlock = x.c.controlBlock
         /\ v.c.writeBuffer = x.c.writeBuffer /\ v.c.readBuffer = Null
    <2>1. Null \in PbufsOrNull
      BY DEF PbufsOrNull
    <2> QED
      BY <1>13, <1>16, <1>17, <2>1, WithReadBuffer
  <1>19. Wrote(v, w, T, n)
    BY <1>11, <1>12, <1>18 DEF Wrote
  <1> QED
    BY <1>1, <1>11, <1>12, <1>15, <1>18, <1>19

-----------------------------------------------------------------------------
(* What is left after a callback                                            *)

\* T is the backlog of c, perhaps with a packet after it.
Extends(b, c, T) ==
    /\ T \in Seq(Pbufs)
    /\ \A i, j \in 1 .. Len(T) : T[i] = T[j] => i = j
    /\ \A i \in 1 .. Len(b[c]) : i \in 1 .. Len(T) /\ T[i] = b[c][i]
    /\ \A d \in Connections : d # c =>
          \A i \in 1 .. Len(b[d]), j \in 1 .. Len(T) : b[d][i] # T[j]

Rest(T, n) == SubSeq(T, n + 1, Len(T))

\* The rest of T after n.
LEMMA RestIs ==
  ASSUME NEW T \in Seq(Pbufs), NEW n \in 0 .. Len(T)
  PROVE  /\ Rest(T, n) \in Seq(Pbufs) /\ Len(Rest(T, n)) = Len(T) - n
         /\ \A i \in 1 .. Len(Rest(T, n)) : n + i \in 1 .. Len(T) /\ Rest(T, n)[i] = T[n + i]
         /\ \A j \in 1 .. Len(T) : j > n => j - n \in 1 .. Len(Rest(T, n))
                                            /\ Rest(T, n)[j - n] = T[j]
         /\ \A i \in Nat \ {0} : At(Rest(T, n), i) = At(T, n + i)
  <1> DEFINE R == Rest(T, n)
  <1>1. Len(T) \in Nat /\ n \in Nat
    OBVIOUS
  <1>2. R \in Seq(Pbufs) /\ Len(R) = Len(T) - n
    BY DEF Rest
  <1>3. ASSUME NEW i \in 1 .. Len(R) PROVE n + i \in 1 .. Len(T) /\ R[i] = T[n + i]
    BY <1>1, <1>2 DEF Rest
  <1> HIDE DEF R
  <1>4. ASSUME NEW j \in 1 .. Len(T), j > n PROVE j - n \in 1 .. Len(R) /\ R[j - n] = T[j]
    <2>1. PICK i \in 1 .. Len(R) : i = j - n /\ n + i = j
      BY <1>1, <1>2, <1>4
    <2> QED
      BY <1>3, <2>1
  <1>5. ASSUME NEW i \in Nat \ {0} PROVE At(R, i) = At(T, n + i)
    <2>1. CASE i \in 1 .. Len(R)
      BY <1>3, <2>1 DEF At
    <2>2. CASE i \notin 1 .. Len(R)
      <3>1. n + i \notin 1 .. Len(T)
        BY <1>1, <1>2, <2>2
      <3> QED
        BY <2>2, <3>1 DEF At
    <2> QED
      BY <2>1, <2>2
  <1> QED
    BY <1>2, <1>3, <1>4, <1>5 DEF R

\* What is done is a heap that holds the rest.
LEMMA DoneBacks ==
  ASSUME NEW b, NEW h0, Backed(b, h0), NEW c \in Connections, NEW T, Extends(b, c, T),
         NEW n \in 0 .. Len(T), NEW h, IsDone(h, h0, T, n)
  PROVE  Backed([b EXCEPT ![c] = Rest(T, n)], h)
  <1>1. PICK F, R : F = [b EXCEPT ![c] = Rest(T, n)] /\ R = Rest(T, n)
    BY Zenon
  <1>2. /\ T \in Seq(Pbufs) /\ Len(T) \in Nat /\ b \in [Connections -> Seq(Pbufs)]
        /\ h \in Heaps /\ n \in Nat
    BY DEF Extends, Backed, IsDone
  <1>3. /\ R \in Seq(Pbufs) /\ Len(R) = Len(T) - n
        /\ \A i \in 1 .. Len(R) : n + i \in 1 .. Len(T) /\ R[i] = T[n + i]
        /\ \A j \in 1 .. Len(T) : j > n => j - n \in 1 .. Len(R) /\ R[j - n] = T[j]
        /\ \A i \in Nat \ {0} : At(R, i) = At(T, n + i)
    BY <1>1, <1>2, RestIs
  <1>4. /\ F \in [Connections -> Seq(Pbufs)] /\ F[c] = R
        /\ \A d \in Connections : d # c => F[d] = b[d]
    BY <1>1, <1>2, <1>3
  <1>5. ASSUME NEW d \in Connections, NEW e \in Connections,
               NEW i \in 1 .. Len(F[d]), NEW j \in 1 .. Len(F[e]), F[d][i] = F[e][j]
        PROVE  d = e /\ i = j
    <2>1. CASE d = c /\ e = c
      <3>1. /\ i \in 1 .. Len(R) /\ j \in 1 .. Len(R) /\ R[i] = R[j]
        BY <1>4, <1>5, <2>1
      <3>2. n + i \in 1 .. Len(T) /\ n + j \in 1 .. Len(T) /\ T[n + i] = T[n + j]
        BY <1>3, <3>1
      <3>3. n + i = n + j
        BY <3>2 DEF Extends
      <3> QED
        BY <1>2, <1>3, <2>1, <3>1, <3>3
    <2>2. ASSUME NEW x \in Connections, x # c, NEW m \in 1 .. Len(F[x]),
                 NEW o \in 1 .. Len(R)
          PROVE  F[x][m] # R[o]
      <3>1. n + o \in 1 .. Len(T) /\ R[o] = T[n + o] /\ F[x] = b[x]
        BY <1>3, <1>4, <2>2
      <3> QED
        BY <2>2, <3>1 DEF Extends
    <2>3. CASE d # c /\ e # c
      BY <1>4, <1>5, <2>3 DEF Backed, Distinct
    <2> QED
      BY <1>4, <1>5, <2>1, <2>2, <2>3
  <1>6. ASSUME NEW d \in Connections, NEW i \in 1 .. Len(F[d])
        PROVE  h.ref[F[d][i]] = 1 /\ h.next[F[d][i]] = At(F[d], i + 1)
    <2>1. CASE d = c
      <3>1. i \in 1 .. Len(R) /\ F[d][i] = R[i]
        BY <1>4, <2>1
      <3>2. n + i \in 1 .. Len(T) /\ R[i] = T[n + i] /\ ~(n + i <= n) /\ i + 1 \in Nat \ {0}
        <4>1. n + i \in 1 .. Len(T) /\ R[i] = T[n + i]
          BY <1>3, <3>1
        <4>2. i \in Nat /\ i > 0
          BY <1>2, <1>3, <3>1
        <4> QED
          BY <1>2, <4>1, <4>2
      <3>3. h.ref[T[n + i]] = 1 /\ h.next[T[n + i]] = At(T, n + i + 1)
        BY <3>2 DEF IsDone
      <3>4. At(R, i + 1) = At(T, n + (i + 1)) /\ n + (i + 1) = n + i + 1
        BY <1>2, <1>3, <3>1, <3>2
      <3> QED
        BY <1>4, <2>1, <3>1, <3>2, <3>3, <3>4
    <2>2. CASE d # c
      <3>1. F[d] = b[d] /\ F[d][i] \in Pbufs
        BY <1>4, <2>2
      <3>2. \A j \in 1 .. Len(T) : T[j] # F[d][i]
        BY <2>2, <3>1 DEF Extends
      <3>3. h.ref[F[d][i]] = h0.ref[F[d][i]] /\ h.next[F[d][i]] = h0.next[F[d][i]]
        BY <3>1, <3>2 DEF IsDone
      <3> QED
        BY <3>1, <3>3 DEF Backed
    <2> QED
      BY <2>1, <2>2
  <1>7. ASSUME NEW p \in Pbufs, Nowhere(F, p) PROVE h.ref[p] = 0 /\ h.next[p] = Null
    <2>1. CASE \E j \in 1 .. Len(T) : T[j] = p
      <3>1. PICK j \in 1 .. Len(T) : T[j] = p
        BY <2>1
      <3>2. ~(j > n)
        BY <1>3, <1>4, <1>7, <3>1 DEF Nowhere
      <3>3. j <= n
        BY <1>2, <3>2
      <3> QED
        BY <3>1, <3>3 DEF IsDone
    <2>2. CASE ~\E j \in 1 .. Len(T) : T[j] = p
      <3>1. Nowhere(b, p)
        <4>1. ASSUME NEW d \in Connections, NEW i \in 1 .. Len(b[d]) PROVE b[d][i] # p
          <5>1. CASE d = c
            BY <2>2, <5>1 DEF Extends
          <5>2. CASE d # c
            BY <1>4, <1>7, <5>2 DEF Nowhere
          <5> QED
            BY <5>1, <5>2
        <4> QED
          BY <4>1 DEF Nowhere
      <3> QED
        BY <2>2, <3>1 DEF Backed, IsDone
    <2> QED
      BY <2>1, <2>2
  <1>8. Backed(F, h)
    BY <1>2, <1>4, <1>5, <1>6, <1>7 DEF Backed, Distinct
  <1> QED
    BY <1>1, <1>8

\* A backlog alone.
LEMMA BacklogExtends ==
  ASSUME NEW b, NEW h0, Backed(b, h0), NEW c \in Connections
  PROVE  Extends(b, c, b[c])
  BY DEF Backed, Distinct, Extends

\* A backlog with a packet after it.
LEMMA PacketExtends ==
  ASSUME NEW b, NEW h0, Backed(b, h0), NEW c \in Connections, NEW s, IsPacket(s, h0)
  PROVE  Extends(b, c, b[c] \o s)
  <1> DEFINE T == b[c] \o s
             F == Joined(b, c, s)
  <1>1. /\ T \in Seq(Pbufs)
        /\ \A i, j \in 1 .. Len(T) : T[i] = T[j] => i = j
        /\ \A i \in 1 .. Len(b[c]) : i \in 1 .. Len(T) /\ T[i] = b[c][i]
    BY JoinedIs
  <1>2. /\ F[c] = T /\ \A d \in Connections : d # c => F[d] = b[d]
        /\ Distinct(F)
    BY JoinedFamily
  <1> HIDE DEF T, F
  <1>3. \A d \in Connections : d # c =>
           \A i \in 1 .. Len(b[d]), j \in 1 .. Len(T) : b[d][i] # T[j]
    BY <1>2 DEF Distinct
  <1>4. Extends(b, c, T)
    BY <1>1, <1>3 DEF Extends
  <1> QED
    BY <1>4 DEF T

-----------------------------------------------------------------------------
(* The functions of the server                                              *)

\* w is a world in which connection c has backlog b[c].
Serves(w, b, c) ==
    /\ w \in Worlds
    /\ Backed(b, w.h)
    /\ c \in Connections
    /\ w.c.writeBuffer = At(b[c], 1) /\ w.c.readBuffer = Null
    /\ Len(w.k.queue) <= SndBuf

\* v is w after some of T was written, the connection living on.
Passed(v, w, h0, T) ==
    \E n \in 0 .. Len(T) :
        n + Len(w.k.queue) <= SndBuf /\ IsDone(v.h, h0, T, n) /\ Wrote(v, w, T, n)

\* v is w after close.
Shut(v, w) ==
    /\ v \in Worlds
    /\ v.h = w.h
    /\ v.c.state = "Closed" /\ v.c.controlBlock = w.c.controlBlock
    /\ v.c.writeBuffer = w.c.writeBuffer /\ v.c.readBuffer = w.c.readBuffer
    /\ v.k.state = "closing" /\ v.k.arg = w.k.arg /\ v.k.queue = w.k.queue

\* writeBuffer is null when nothing waits.
LEMMA NothingWaits ==
  ASSUME NEW B \in Seq(Pbufs)
  PROVE  At(B, 1) = Null <=> B = << >>
  <1>1. CASE B = << >>
    BY <1>1 DEF At
  <1>2. CASE B # << >>
    <2>1. 1 \in 1 .. Len(B)
      BY <1>2
    <2>2. B[1] \in Pbufs
      BY <2>1
    <2> QED
      BY <1>2, <2>1, <2>2, NullAssumption DEF At
  <1> QED
    BY <1>1, <1>2

\* What the world of a callback says of its backlog.
LEMMA ServesBacklog ==
  ASSUME NEW w, NEW b, NEW c, Serves(w, b, c)
  PROVE  /\ b[c] \in Seq(Pbufs) /\ Len(b[c]) \in Nat
         /\ Run(w.h, b[c], Len(b[c])) /\ IsPart(w.h, w.h, b[c], Len(b[c]), 0)
         /\ (w.c.writeBuffer = Null <=> b[c] = << >>)
         /\ w.k.queue \in Seq(Pbufs) /\ w.h \in Heaps
         /\ w.c \in ConnTypes /\ w.k \in PcbTypes
  <1>1. b[c] \in Seq(Pbufs) /\ Len(b[c]) \in Nat
    BY DEF Serves, Backed
  <1>2. w.h \in Heaps /\ w.c \in ConnTypes /\ w.k \in PcbTypes /\ w.k.queue \in Seq(Pbufs)
    BY DEF Serves, Worlds, PcbTypes
  <1>3. w.c.writeBuffer = Null <=> b[c] = << >>
    BY <1>1, NothingWaits DEF Serves
  <1> QED
    BY <1>1, <1>2, <1>3, BacklogRun DEF Serves

\* writeToTcp, when no packet has come.
LEMMA WritePasses ==
  ASSUME NEW w, NEW b, NEW c, Serves(w, b, c), NEW v \in WriteToTcp(w)
  PROVE  Passed(v, w, w.h, b[c])
  <1>1. PICK n \in 0 .. Len(b[c]) : /\ n + Len(w.k.queue) <= SndBuf
                                    /\ IsPart(v.h, w.h, b[c], Len(b[c]), n)
                                    /\ Wrote(v, w, b[c], n)
    BY ServesBacklog, WriteToTcpIs DEF Serves
  <1>2. IsDone(v.h, w.h, b[c], n)
    BY <1>1, ServesBacklog, BacklogDone
  <1> QED
    BY <1>1, <1>2 DEF Passed

\* Writing nothing.
LEMMA StillPasses ==
  ASSUME NEW w, NEW b, NEW c, Serves(w, b, c)
  PROVE  Passed(w, w, w.h, b[c])
  <1>1. 0 \in 0 .. Len(b[c]) /\ 0 + Len(w.k.queue) <= SndBuf
    BY ServesBacklog DEF Serves
  <1>2. IsDone(w.h, w.h, b[c], 0)
    BY <1>1, ServesBacklog, BacklogDone
  <1>3. w.k.queue = w.k.queue \o SubSeq(b[c], 1, 0)
    BY ServesBacklog
  <1>4. Wrote(w, w, b[c], 0)
    BY <1>3 DEF Wrote, Serves
  <1> QED
    BY <1>1, <1>2, <1>4 DEF Passed

\* close: done, not done for want of memory, or an error.
LEMMA CloseIs ==
  ASSUME NEW w, NEW b, NEW c, Serves(w, b, c), NEW v \in CloseResults(w)
  PROVE  Passed(v, w, w.h, b[c]) \/ Shut(v, w) \/ v = Error(w)
  <1>1. CASE v = [w EXCEPT !.c.state = "Closed", !.k.state = "closing"]
    <2>1. w \in Worlds /\ w.c \in ConnTypes /\ w.k \in PcbTypes /\ w.h \in Heaps
      BY ServesBacklog DEF Serves
    <2>2. /\ v.h = w.h /\ v.c = [w.c EXCEPT !.state = "Closed"]
          /\ v.k = [w.k EXCEPT !.state = "closing"]
          /\ v = [h |-> v.h, c |-> v.c, k |-> v.k]
      BY <1>1, <2>1 DEF Worlds
    <2>3. /\ v.c \in ConnTypes /\ v.c.state = "Closed"
          /\ v.c.controlBlock = w.c.controlBlock
          /\ v.c.writeBuffer = w.c.writeBuffer /\ v.c.readBuffer = w.c.readBuffer
      BY <2>1, <2>2 DEF ConnTypes
    <2>4. /\ v.k \in PcbTypes /\ v.k.state = "closing" /\ v.k.arg = w.k.arg
          /\ v.k.queue = w.k.queue
      BY <2>1, <2>2 DEF PcbTypes
    <2>5. v \in Worlds
      BY <2>1, <2>2, <2>3, <2>4 DEF Worlds
    <2> QED
      BY <2>2, <2>3, <2>4, <2>5 DEF Shut
  <1>2. CASE v = w
    BY <1>2, StillPasses
  <1> QED
    BY <1>1, <1>2 DEF CloseResults

\* sent and poll write, or they close what is closing and has nothing to write.
LEMMA MakeProgressIs ==
  ASSUME NEW w, NEW b, NEW c, Serves(w, b, c), NEW v \in MakeProgress(w)
  PROVE  \/ Passed(v, w, w.h, b[c])
         \/ w.c.state = "Closing" /\ b[c] = << >> /\ (Shut(v, w) \/ v = Error(w))
  <1>1. CASE w.c.writeBuffer # Null
    BY <1>1, WritePasses DEF MakeProgress
  <1>2. CASE w.c.writeBuffer = Null /\ w.c.state = "Closing"
    BY <1>2, CloseIs, ServesBacklog DEF MakeProgress
  <1>3. CASE w.c.writeBuffer = Null /\ w.c.state # "Closing"
    BY <1>3, StillPasses DEF MakeProgress
  <1> QED
    BY <1>1, <1>2, <1>3

\* error frees the whole backlog.
LEMMA ErrorIs ==
  ASSUME NEW w, NEW b, NEW c, Serves(w, b, c)
  PROVE  /\ Error(w) \in Worlds
         /\ IsDone(Error(w).h, w.h, b[c], Len(b[c]))
         /\ Error(w).c = NewConnection /\ Error(w).k = FreePcb
  <1>1. IsDone(Error(w).h, w.h, b[c], Len(b[c]))
    <2>1. IsDone(PbufFree(PbufFree(w.h, Null), At(b[c], 1)), w.h, b[c], Len(b[c]))
      BY ServesBacklog, BacklogFreed
    <2> QED
      BY <2>1 DEF Error, Serves
  <1>2. Error(w).c = NewConnection /\ Error(w).k = FreePcb
    BY DEF Error
  <1>3. NewConnection \in ConnTypes
    BY DEF NewConnection, ConnTypes, PbufsOrNull
  <1>4. FreePcb \in PcbTypes
    BY DEF FreePcb, PcbTypes
  <1>5. Error(w).h \in Heaps
    BY <1>1 DEF IsDone
  <1>6. Error(w) \in Worlds
    BY <1>2, <1>3, <1>4, <1>5 DEF Error, Worlds
  <1> QED
    BY <1>1, <1>2, <1>6

-----------------------------------------------------------------------------
(* States                                                                   *)

\* Every field holds what it may.
Typed ==
    /\ listening \in {"Closed", "Listening"}
    /\ conn \in [Connections -> ConnTypes]
    /\ count \in 0 .. MaxConnections
    /\ ref \in [Pbufs -> Nat]
    /\ next \in [Pbufs -> PbufsOrNull]
    /\ pcb \in [Pcbs -> PcbTypes]
    /\ \A k \in Pcbs : Len(pcb[k].queue) <= SndBuf
    /\ accepted \in {"none", "yes", "refused"}

\* lwIP delivers data to established connections only.
OpenEstablished ==
    \A k \in Pcbs : pcb[k].state = "open" => conn[pcb[k].arg].state = "Established"

UnusedNew == \A c \in Connections : c > count => conn[c] = NewConnection

\* The writeBuffers are where the backlogs begin.
Fronts(b, cn) ==
    \A c \in Connections : cn[c].writeBuffer = At(b[c], 1) /\ cn[c].readBuffer = Null

Kept(b) ==
    Inv /\ Typed /\ OpenEstablished /\ UnusedNew /\ Backed(b, Heap) /\ Fronts(b, conn)

\* What a callback on k leaves alone.
Elsewhere(k) ==
    /\ \A c \in Connections : c # pcb[k].arg => conn'[c] = conn[c]
    /\ \A l \in Pcbs : l # k => pcb'[l] = pcb[l]
    /\ UNCHANGED <<listening, count, accepted>>
    /\ Typed' /\ UnusedNew'

\* The connection of k has handed some of T over, after q, and is in state st.
Handed(k, b, T, q, st) ==
    /\ pcb'[k].state # "free" /\ pcb'[k].arg = pcb[k].arg
    /\ pcb'[k].state = "open" => st = "Established"
    /\ conn'[pcb[k].arg].state = st
    /\ \E n \in 0 .. Len(T) :
          /\ Backed([b EXCEPT ![pcb[k].arg] = Rest(T, n)], Heap')
          /\ Fronts([b EXCEPT ![pcb[k].arg] = Rest(T, n)], conn')
          /\ pcb'[k].queue = q \o SubSeq(T, 1, n)

\* It is closed, with nothing left to hand over, and q to acknowledge.
Ended(k, b, q) ==
    /\ b[pcb[k].arg] = << >>
    /\ pcb'[k].state = "closing" /\ pcb'[k].arg = pcb[k].arg /\ pcb'[k].queue = q
    /\ conn'[pcb[k].arg].state = "Closed"
    /\ Backed(b, Heap') /\ Fronts(b, conn')

\* It is gone.
Lost(k, b) ==
    /\ pcb'[k] = FreePcb
    /\ conn'[pcb[k].arg].state = "Closed"
    /\ Backed([b EXCEPT ![pcb[k].arg] = << >>], Heap')
    /\ Fronts([b EXCEPT ![pcb[k].arg] = << >>], conn')

\* A block in use and its connection.
LEMMA BlockIs ==
  ASSUME NEW b, Kept(b), NEW k \in Pcbs, pcb[k].state # "free"
  PROVE  /\ pcb[k].arg \in Connections /\ pcb[k].arg \in 1 .. count
         /\ pcb[k] \in PcbTypes /\ pcb[k].queue \in Seq(Pbufs)
         /\ Len(pcb[k].queue) <= SndBuf
         /\ conn[pcb[k].arg] \in ConnTypes
         /\ Heap \in Heaps /\ Heap.ref = ref /\ Heap.next = next
  <1>1. pcb[k].arg \in Connections /\ pcb[k].arg \in 1 .. count
    BY BlockHasConnection DEF Kept, Inv, LiveControlBlocks
  <1>2. pcb[k] \in PcbTypes /\ Len(pcb[k].queue) <= SndBuf /\ conn[pcb[k].arg] \in ConnTypes
    BY <1>1 DEF Kept, Typed
  <1>3. pcb[k].queue \in Seq(Pbufs)
    BY <1>2 DEF PcbTypes
  <1>4. Heap \in Heaps /\ Heap.ref = ref /\ Heap.next = next
    BY DEF Kept, Typed, Heap, Heaps
  <1> QED
    BY <1>1, <1>2, <1>3, <1>4

\* Any callback but one with a packet begins in such a world.
LEMMA CallbackServes ==
  ASSUME NEW b, Kept(b), NEW k \in Pcbs, pcb[k].state # "free",
         NEW block \in PcbTypes, Len(block.queue) <= SndBuf,
         NEW w, w = World(k, Heap, block)
  PROVE  /\ Serves(w, b, pcb[k].arg)
         /\ w.h = Heap /\ w.c = conn[pcb[k].arg] /\ w.k = block
  <1>1. w.h = Heap /\ w.c = conn[pcb[k].arg] /\ w.k = block /\ w \in Worlds
    BY BlockIs DEF World, Worlds
  <1> QED
    BY <1>1, BlockIs DEF Serves, Kept, Fronts

\* The state a callback returns in.
LEMMA ReturnIs ==
  ASSUME NEW b, Kept(b), NEW k \in Pcbs, pcb[k].state # "free",
         NEW v \in Worlds, Len(v.k.queue) <= SndBuf, Return(k, v)
  PROVE  /\ Elsewhere(k)
         /\ conn'[pcb[k].arg] = v.c /\ pcb'[k] = v.k /\ Heap' = v.h
  <1>1. PICK c \in Connections : c = pcb[k].arg
    BY BlockIs
  <1>2. v.h \in Heaps /\ v.c \in ConnTypes /\ v.k \in PcbTypes
    BY DEF Worlds
  <1>3. /\ ref' = v.h.ref /\ next' = v.h.next
        /\ conn' = [conn EXCEPT ![c] = v.c] /\ pcb' = [pcb EXCEPT ![k] = v.k]
        /\ UNCHANGED <<listening, count, accepted>>
    BY <1>1 DEF Return
  <1>4. conn \in [Connections -> ConnTypes] /\ pcb \in [Pcbs -> PcbTypes]
    BY DEF Kept, Typed
  <1>5. /\ conn' \in [Connections -> ConnTypes] /\ pcb' \in [Pcbs -> PcbTypes]
        /\ conn'[c] = v.c /\ \A d \in Connections : d # c => conn'[d] = conn[d]
        /\ pcb'[k] = v.k /\ \A l \in Pcbs : l # k => pcb'[l] = pcb[l]
    BY <1>2, <1>3, <1>4
  <1>6. Heap' = v.h
    BY <1>2, <1>3 DEF Heap, Heaps
  <1>7. ref' \in [Pbufs -> Nat] /\ next' \in [Pbufs -> PbufsOrNull]
    BY <1>2, <1>3 DEF Heaps
  <1>8. \A l \in Pcbs : Len(pcb'[l].queue) <= SndBuf
    BY <1>5 DEF Kept, Typed
  <1>9. Typed'
    BY <1>3, <1>5, <1>7, <1>8 DEF Kept, Typed, Connections, ConnTypes, PcbTypes
  <1>10. UnusedNew'
    <2>1. c \in 1 .. count /\ count \in Nat
      BY <1>1, BlockIs, ConnectionsAssumption DEF Kept, Typed
    <2>2. \A d \in Connections : d > count => d # c
      BY <2>1 DEF Connections
    <2> QED
      BY <1>3, <1>5, <2>2 DEF Kept, UnusedNew, Connections
  <1> QED
    BY <1>1, <1>3, <1>5, <1>6, <1>9, <1>10 DEF Elsewhere

\* The writeBuffers after a callback.
LEMMA FrontsAfter ==
  ASSUME NEW b \in [Connections -> Seq(Pbufs)], Fronts(b, conn), NEW c \in Connections,
         NEW R \in Seq(Pbufs), NEW F, F = [b EXCEPT ![c] = R],
         conn'[c].writeBuffer = At(R, 1), conn'[c].readBuffer = Null,
         \A d \in Connections : d # c => conn'[d] = conn[d]
  PROVE  Fronts(F, conn')
  <1>1. F[c] = R /\ \A d \in Connections : d # c => F[d] = b[d]
    OBVIOUS
  <1> QED
    BY <1>1 DEF Fronts

\* The callback's last world, with some of T handed over.
LEMMA PassedHands ==
  ASSUME NEW b, Kept(b), NEW k \in Pcbs, pcb[k].state # "free",
         NEW w \in Worlds, NEW T, Extends(b, pcb[k].arg, T),
         w.k.state # "free", w.k.arg = pcb[k].arg,
         w.k.state = "open" => w.c.state = "Established", w.c.readBuffer = Null,
         NEW v, Passed(v, w, Heap, T), Return(k, v)
  PROVE  Elsewhere(k) /\ Handed(k, b, T, w.k.queue, w.c.state)
  <1>1. PICK n \in 0 .. Len(T) : /\ n + Len(w.k.queue) <= SndBuf
                                 /\ IsDone(v.h, Heap, T, n) /\ Wrote(v, w, T, n)
    BY DEF Passed
  <1>2. PICK c \in Connections : c = pcb[k].arg
    BY BlockIs
  <1>3. w.k.queue \in Seq(Pbufs) /\ T \in Seq(Pbufs)
    BY DEF Worlds, PcbTypes, Extends
  <1>4. Len(v.k.queue) <= SndBuf
    <2>1. SubSeq(T, 1, n) \in Seq(Pbufs) /\ Len(SubSeq(T, 1, n)) = n
      BY <1>3
    <2>2. ASSUME NEW q \in Seq(Pbufs), NEW r \in Seq(Pbufs)
          PROVE  Len(q \o r) = Len(q) + Len(r) /\ Len(q) \in Nat
      OBVIOUS
    <2>3. Len(v.k.queue) = Len(w.k.queue) + n /\ Len(w.k.queue) \in Nat
      BY <1>1, <1>3, <2>1, <2>2 DEF Wrote
    <2> QED
      BY <1>1, <2>3, BoundsAssumption
  <1>5. /\ Elsewhere(k) /\ conn'[c] = v.c /\ pcb'[k] = v.k /\ Heap' = v.h
    BY <1>1, <1>2, <1>4, ReturnIs DEF Wrote
  <1>6. PICK R : R = Rest(T, n)
    BY Zenon
  <1>7. R \in Seq(Pbufs) /\ At(R, 1) = At(T, n + 1)
    BY <1>3, <1>6, RestIs
  <1>8. Backed([b EXCEPT ![c] = R], Heap')
    <2>1. Backed([b EXCEPT ![c] = Rest(T, n)], v.h)
      BY <1>1, <1>2, DoneBacks DEF Kept
    <2> QED
      BY <1>5, <1>6, <2>1, Zenon
  <1>9. Fronts([b EXCEPT ![c] = R], conn')
    <2>1. conn'[c].writeBuffer = At(R, 1) /\ conn'[c].readBuffer = Null
      BY <1>1, <1>5, <1>7 DEF Wrote
    <2>2. \A d \in Connections : d # c => conn'[d] = conn[d]
      BY <1>2, <1>5 DEF Elsewhere
    <2>3. b \in [Connections -> Seq(Pbufs)] /\ Fronts(b, conn)
      BY DEF Kept, Backed
    <2>4. PICK F : F = [b EXCEPT ![c] = R]
      BY Zenon
    <2>5. Fronts(F, conn')
      BY <1>7, <2>1, <2>2, <2>3, <2>4, FrontsAfter
    <2> QED
      BY <2>4, <2>5, Zenon
  <1>10. Handed(k, b, T, w.k.queue, w.c.state)
    BY <1>1, <1>2, <1>5, <1>6, <1>8, <1>9 DEF Handed, Wrote
  <1> QED
    BY <1>5, <1>10

\* A callback that closed the connection.
LEMMA ShutEnds ==
  ASSUME NEW b, Kept(b), NEW k \in Pcbs, pcb[k].state # "free",
         NEW w, Serves(w, b, pcb[k].arg), w.h = Heap, w.k.arg = pcb[k].arg,
         b[pcb[k].arg] = << >>, NEW v, Shut(v, w), Return(k, v)
  PROVE  Elsewhere(k) /\ Ended(k, b, w.k.queue)
  <1>1. PICK c \in Connections : c = pcb[k].arg
    BY BlockIs
  <1>2. Len(v.k.queue) <= SndBuf /\ v \in Worlds
    BY DEF Shut, Serves
  <1>3. Elsewhere(k) /\ conn'[c] = v.c /\ pcb'[k] = v.k /\ Heap' = v.h
    BY <1>1, <1>2, ReturnIs
  <1>4. Backed(b, Heap')
    BY <1>3 DEF Shut, Kept
  <1>5. Fronts(b, conn')
    <2>1. conn'[c].writeBuffer = At(b[c], 1) /\ conn'[c].readBuffer = Null
      BY <1>1, <1>3 DEF Shut, Serves
    <2>2. \A d \in Connections : d # c => conn'[d] = conn[d]
      BY <1>1, <1>3 DEF Elsewhere
    <2> QED
      BY <2>1, <2>2 DEF Kept, Fronts
  <1>6. Ended(k, b, w.k.queue)
    BY <1>1, <1>3, <1>4, <1>5 DEF Ended, Shut
  <1> QED
    BY <1>3, <1>6

\* A callback that lost it.
LEMMA ErrorLoses ==
  ASSUME NEW b, Kept(b), NEW k \in Pcbs, pcb[k].state # "free",
         NEW w, Serves(w, b, pcb[k].arg), w.h = Heap, Return(k, Error(w))
  PROVE  Elsewhere(k) /\ Lost(k, b)
  <1>1. PICK c \in Connections : c = pcb[k].arg
    BY BlockIs
  <1>2. PICK v : v = Error(w)
    BY Zenon
  <1>3. /\ v \in Worlds /\ v.c = NewConnection /\ v.k = FreePcb
        /\ IsDone(v.h, Heap, b[c], Len(b[c])) /\ Return(k, v)
    BY <1>1, <1>2, ErrorIs
  <1>4. Len(v.k.queue) <= SndBuf
    BY <1>3, BoundsAssumption DEF FreePcb
  <1>5. Elsewhere(k) /\ conn'[c] = v.c /\ pcb'[k] = v.k /\ Heap' = v.h
    BY <1>1, <1>3, <1>4, ReturnIs
  <1>6. b \in [Connections -> Seq(Pbufs)] /\ Fronts(b, conn) /\ b[c] \in Seq(Pbufs)
    BY DEF Kept, Backed
  <1>7. Rest(b[c], Len(b[c])) = << >>
    BY <1>6 DEF Rest
  <1>8. Backed([b EXCEPT ![c] = << >>], Heap')
    <2>1. Len(b[c]) \in 0 .. Len(b[c])
      BY <1>6
    <2>2. Backed([b EXCEPT ![c] = Rest(b[c], Len(b[c]))], v.h)
      BY <1>3, <2>1, BacklogExtends, DoneBacks DEF Kept
    <2> QED
      BY <1>5, <1>7, <2>2, Zenon
  <1>9. Fronts([b EXCEPT ![c] = << >>], conn')
    <2>1. conn'[c].writeBuffer = At(<< >>, 1) /\ conn'[c].readBuffer = Null
      BY <1>3, <1>5 DEF NewConnection, At
    <2>2. \A d \in Connections : d # c => conn'[d] = conn[d]
      BY <1>1, <1>5 DEF Elsewhere
    <2>3. PICK F, R : R = << >> /\ F = [b EXCEPT ![c] = R]
      BY Zenon
    <2>4. R \in Seq(Pbufs)
      BY <2>3
    <2>5. Fronts(F, conn')
      BY <1>6, <2>1, <2>2, <2>3, <2>4, FrontsAfter
    <2> QED
      BY <2>3, <2>5, Zenon
  <1>10. Lost(k, b)
    BY <1>1, <1>3, <1>5, <1>8, <1>9 DEF Lost, NewConnection
  <1> QED
    BY <1>5, <1>10

\* A received packet is a chain of pbufs nobody else has.
LEMMA ArrivedIs ==
  ASSUME NEW b, Kept(b), NEW s \in Packets
  PROVE  IsPacket(s, Heap) /\ HasArrived(Arrived(s), Heap, s) /\ s \in [1 .. Len(s) -> Pbufs]
         /\ Len(s) \in 1 .. MaxChain
  <1>1. PICK m \in 1 .. MaxChain : s \in [1 .. m -> {p \in Pbufs : ref[p] = 0}]
    BY Zenon DEF Packets
  <1>2. \A i, j \in DOMAIN s : s[i] = s[j] => i = j
    BY Zenon DEF Packets
  <1>3. /\ m \in Nat /\ m > 0 /\ DOMAIN s = 1 .. m
        /\ \A i \in 1 .. m : s[i] \in Pbufs /\ ref[s[i]] = 0
    BY <1>1, BoundsAssumption
  <1>4. s \in [1 .. m -> Pbufs] /\ s \in Seq(Pbufs) /\ Len(s) = m
    <2>1. s \in [1 .. m -> Pbufs]
      BY <1>1, <1>3
    <2> QED
      BY <1>3, <2>1
  <1>5. ref \in [Pbufs -> Nat] /\ next \in [Pbufs -> PbufsOrNull]
    BY DEF Kept, Typed
  <1>6. IsPacket(s, Heap)
    BY <1>2, <1>3, <1>4 DEF IsPacket, Heap
  <1>7. PICK h : h = Arrived(s)
    BY Zenon
  <1>8. /\ h.ref = [p \in Pbufs |-> IF \E i \in DOMAIN s : s[i] = p THEN 1 ELSE ref[p]]
        /\ h.next = [p \in Pbufs |->
                        IF \E i \in 1 .. Len(s) - 1 : s[i] = p
                        THEN s[CHOOSE i \in 2 .. Len(s) : s[i - 1] = p]
                        ELSE next[p]]
        /\ h = [ref |-> h.ref, next |-> h.next]
    BY <1>7 DEF Arrived
  <1>9. \A p \in Pbufs : ref[p] = 0 => next[p] = Null
    <2> SUFFICES ASSUME NEW p \in Pbufs, ref[p] = 0 PROVE next[p] = Null
      OBVIOUS
    <2>1. Nowhere(b, p)
      BY DEF Kept, Backed, Nowhere, Heap
    <2> QED
      BY <2>1 DEF Kept, Backed, Heap
  <1>10. \A p \in Pbufs : h.ref[p] = IF \E i \in 1 .. m : s[i] = p THEN 1 ELSE ref[p]
    BY <1>3, <1>8
  <1>11. ASSUME NEW i \in 1 .. m PROVE h.next[s[i]] = At(s, i + 1)
    <2>1. CASE i = m
      <3>1. ~\E j \in 1 .. m - 1 : s[j] = s[i]
        BY <1>2, <1>3, <2>1
      <3>2. h.next[s[i]] = next[s[i]]
        BY <1>3, <1>4, <1>8, <3>1
      <3> QED
        BY <1>3, <1>4, <1>9, <2>1, <3>2 DEF At
    <2>2. CASE i # m
      <3>1. i \in 1 .. m - 1 /\ i + 1 \in 2 .. m /\ i + 1 - 1 = i /\ i + 1 \in 1 .. m
        BY <1>3, <2>2
      <3>2. ASSUME NEW j \in 2 .. m, s[j - 1] = s[i] PROVE j = i + 1
        <4>1. j - 1 \in 1 .. m
          BY <1>3
        <4>2. j - 1 = i
          BY <1>2, <1>3, <3>2, <4>1
        <4> QED
          BY <1>3, <4>2
      <3>3. PICK a : a = i + 1
        OBVIOUS
      <3>4. a \in 2 .. m /\ s[a - 1] = s[i] /\ \A j \in 2 .. m : s[j - 1] = s[i] => j = a
        BY <3>1, <3>2, <3>3
      <3>5. (CHOOSE j \in 2 .. m : s[j - 1] = s[i]) = a
        BY <3>4
      <3>6. h.next[s[i]] = s[CHOOSE j \in 2 .. m : s[j - 1] = s[i]]
        BY <1>3, <1>4, <1>8, <3>1
      <3> QED
        BY <1>4, <3>1, <3>3, <3>5, <3>6 DEF At
    <2> QED
      BY <2>1, <2>2
  <1>12. \A p \in Pbufs : (\A i \in 1 .. m : s[i] # p) => h.next[p] = next[p]
    <2>1. 1 .. m - 1 \subseteq 1 .. m
      BY <1>3
    <2> QED
      BY <1>4, <1>8, <2>1
  <1>13. h \in Heaps
    <2>1. ASSUME NEW p \in Pbufs PROVE h.ref[p] \in Nat
      BY <1>5, <1>10
    <2>2. ASSUME NEW p \in Pbufs PROVE h.next[p] \in PbufsOrNull
      <3>1. CASE \A i \in 1 .. m : s[i] # p
        BY <1>5, <1>12, <3>1
      <3>2. CASE ~(\A i \in 1 .. m : s[i] # p)
        <4>1. PICK i \in 1 .. m : s[i] = p
          BY <3>2
        <4>2. h.next[p] = At(s, i + 1)
          BY <1>11, <4>1
        <4> QED
          BY <1>3, <1>4, <4>2 DEF At, PbufsOrNull
      <3> QED
        BY <3>1, <3>2
    <2>3. h.ref \in [Pbufs -> Nat] /\ h.next \in [Pbufs -> PbufsOrNull]
      BY <1>8, <2>1, <2>2
    <2> QED
      BY <1>8, <2>3 DEF Heaps
  <1>14. HasArrived(h, Heap, s)
    BY <1>3, <1>4, <1>10, <1>11, <1>12, <1>13 DEF HasArrived, Heap
  <1> QED
    BY <1>4, <1>6, <1>7, <1>14

-----------------------------------------------------------------------------
(* What each callback does to the backlogs                                  *)

\* err, when lwIP calls it.
LEMMA ErrEffect ==
  ASSUME NEW b, Kept(b), NEW k \in Pcbs, Err(k)
  PROVE  pcb[k].state # "free" /\ Elsewhere(k) /\ Lost(k, b)
  <1>1. pcb[k].state # "free"
    BY DEF Err
  <1>2. PICK w : w = World(k, Heap, pcb[k])
    BY Zenon
  <1>3. Serves(w, b, pcb[k].arg) /\ w.h = Heap
    BY <1>1, <1>2, BlockIs, CallbackServes
  <1>4. Return(k, Error(w))
    BY <1>2 DEF Err
  <1> QED
    BY <1>1, <1>3, <1>4, ErrorLoses

\* What sent and poll make of the callback's world.
LEMMA ProgressEffect ==
  ASSUME NEW b, Kept(b), NEW k \in Pcbs, pcb[k].state # "free",
         NEW block \in PcbTypes, Len(block.queue) <= SndBuf,
         block.state = pcb[k].state, block.arg = pcb[k].arg,
         \E v \in MakeProgress(World(k, Heap, block)) : Return(k, v)
  PROVE  /\ Elsewhere(k)
         /\ \/ Handed(k, b, b[pcb[k].arg], block.queue, conn[pcb[k].arg].state)
            \/ /\ conn[pcb[k].arg].state = "Closing"
               /\ Ended(k, b, block.queue) \/ Lost(k, b)
  <1>1. PICK w : w = World(k, Heap, block)
    BY Zenon
  <1>2. PICK v \in MakeProgress(w) : Return(k, v)
    BY <1>1
  <1>3. /\ Serves(w, b, pcb[k].arg) /\ w.h = Heap /\ w.c = conn[pcb[k].arg] /\ w.k = block
        /\ w \in Worlds /\ w.c.readBuffer = Null
    BY <1>1, CallbackServes DEF Serves
  <1>4. CASE Passed(v, w, w.h, b[pcb[k].arg])
    <2>1. Extends(b, pcb[k].arg, b[pcb[k].arg])
      BY BlockIs, BacklogExtends DEF Kept
    <2>2. w.k.state = "open" => w.c.state = "Established"
      BY <1>3 DEF Kept, OpenEstablished
    <2> QED
      BY <1>2, <1>3, <1>4, <2>1, <2>2, PassedHands
  <1>5. CASE w.c.state = "Closing" /\ b[pcb[k].arg] = << >> /\ Shut(v, w)
    BY <1>2, <1>3, <1>5, ShutEnds
  <1>6. CASE w.c.state = "Closing" /\ v = Error(w)
    BY <1>2, <1>3, <1>6, ErrorLoses
  <1> QED
    BY <1>2, <1>3, <1>4, <1>5, <1>6, MakeProgressIs

\* poll.
LEMMA PollEffect ==
  ASSUME NEW b, Kept(b), NEW k \in Pcbs, Poll(k)
  PROVE  /\ pcb[k].state # "free" /\ Elsewhere(k)
         /\ \/ Handed(k, b, b[pcb[k].arg], pcb[k].queue, conn[pcb[k].arg].state)
            \/ /\ conn[pcb[k].arg].state = "Closing"
               /\ Ended(k, b, pcb[k].queue) \/ Lost(k, b)
  <1>1. /\ pcb[k].state # "free"
        /\ \E v \in MakeProgress(World(k, Heap, pcb[k])) : Return(k, v)
    BY DEF Poll
  <1> QED
    BY <1>1, BlockIs, ProgressEffect

Drop(s, n) == SubSeq(s, n + 1, Len(s))

\* sent, of what is left of the queue.
LEMMA SentEffect ==
  ASSUME NEW b, Kept(b), NEW k \in Pcbs, Sent(k)
  PROVE  /\ pcb[k].state # "free" /\ Elsewhere(k)
         /\ \E a \in 0 .. Len(pcb[k].queue) :
               \/ Handed(k, b, b[pcb[k].arg], Drop(pcb[k].queue, a), conn[pcb[k].arg].state)
               \/ /\ conn[pcb[k].arg].state = "Closing"
                  /\ Ended(k, b, Drop(pcb[k].queue, a)) \/ Lost(k, b)
  <1>1. PICK n \in 1 .. Len(pcb[k].queue) :
          \E v \in MakeProgress(World(k, Heap, [pcb[k] EXCEPT
                                   !.queue = SubSeq(@, n + 1, Len(@))])) : Return(k, v)
    BY DEF Sent
  <1>2. pcb[k].state # "free"
    <2> SUFFICES ASSUME pcb[k].state = "free" PROVE FALSE
      OBVIOUS
    <2>1. pcb[k].queue = << >>
      BY DEF Kept, Inv, NothingSentWhenFree
    <2>2. n \in 1 .. 0
      BY <2>1
    <2> QED
      BY <2>2
  <1>3. /\ pcb[k] \in PcbTypes /\ pcb[k].queue \in Seq(Pbufs)
        /\ Len(pcb[k].queue) <= SndBuf
    BY <1>2, BlockIs
  <1>4. PICK q, block : /\ q = Drop(pcb[k].queue, n)
                        /\ block = [pcb[k] EXCEPT !.queue = SubSeq(@, n + 1, Len(@))]
    BY Zenon
  <1>5. n \in 0 .. Len(pcb[k].queue) /\ q \in Seq(Pbufs) /\ Len(q) <= SndBuf
    <2>1. n \in 0 .. Len(pcb[k].queue) /\ Len(pcb[k].queue) \in Nat
      BY <1>3
    <2>2. q \in Seq(Pbufs) /\ Len(q) = Len(pcb[k].queue) - n
      BY <1>3, <1>4, <2>1, RestIs DEF Drop, Rest
    <2> QED
      BY <1>3, <2>1, <2>2, BoundsAssumption
  <1>6. /\ block \in PcbTypes /\ block.queue = q
        /\ block.state = pcb[k].state /\ block.arg = pcb[k].arg
    BY <1>3, <1>4, <1>5 DEF PcbTypes, Drop
  <1>7. \E v \in MakeProgress(World(k, Heap, block)) : Return(k, v)
    BY <1>1, <1>4, Zenon
  <1>8. /\ Elsewhere(k)
        /\ \/ Handed(k, b, b[pcb[k].arg], q, conn[pcb[k].arg].state)
           \/ /\ conn[pcb[k].arg].state = "Closing"
              /\ Ended(k, b, q) \/ Lost(k, b)
    BY <1>2, <1>5, <1>6, <1>7, ProgressEffect
  <1> QED
    BY <1>2, <1>4, <1>5, <1>8, Zenon

\* recv of the end of the connection: written or closed at once.
LEMMA RecvCloseEffect ==
  ASSUME NEW b, Kept(b), NEW k \in Pcbs, RecvClose(k)
  PROVE  /\ pcb[k].state = "open" /\ Elsewhere(k)
         /\ \/ Handed(k, b, b[pcb[k].arg], pcb[k].queue, "Closing")
            \/ Ended(k, b, pcb[k].queue)
            \/ Lost(k, b)
  <1>1. PICK block, w, u : /\ block = [pcb[k] EXCEPT !.state = "finRcvd"]
                           /\ w = World(k, Heap, block)
                           /\ u = [w EXCEPT !.c.state = "Closing"]
    BY Zenon
  <1>2. PICK v \in RecvFin(w) : Return(k, v)
    BY <1>1 DEF RecvClose
  <1>3. pcb[k].state = "open"
    BY DEF RecvClose
  <1>4. pcb[k] \in PcbTypes /\ Len(pcb[k].queue) <= SndBuf
    BY <1>3, BlockIs
  <1>5. /\ block \in PcbTypes /\ block.queue = pcb[k].queue
        /\ block.state = "finRcvd" /\ block.arg = pcb[k].arg
    BY <1>1, <1>4 DEF PcbTypes
  <1>6. /\ Serves(w, b, pcb[k].arg) /\ w.h = Heap /\ w.c = conn[pcb[k].arg] /\ w.k = block
    <2>1. w = World(k, Heap, block) /\ pcb[k].state # "free" /\ Len(block.queue) <= SndBuf
      BY <1>1, <1>3, <1>4, <1>5
    <2> QED
      BY <1>5, <2>1, CallbackServes
  <1>7. w.c \in ConnTypes /\ w.h \in Heaps /\ w.k \in PcbTypes /\ w \in Worlds
    BY <1>6, ServesBacklog DEF Serves
  <1>8. /\ u.h = w.h /\ u.k = w.k /\ u.c = [w.c EXCEPT !.state = "Closing"]
        /\ u = [h |-> u.h, c |-> u.c, k |-> u.k]
    BY <1>1, <1>7 DEF Worlds
  <1>9. /\ u.c \in ConnTypes /\ u.c.state = "Closing"
        /\ u.c.writeBuffer = w.c.writeBuffer /\ u.c.readBuffer = w.c.readBuffer
    BY <1>7, <1>8 DEF ConnTypes
  <1>10. Serves(u, b, pcb[k].arg)
    <2>1. u \in Worlds
      BY <1>7, <1>8, <1>9 DEF Worlds
    <2> QED
      BY <1>6, <1>8, <1>9, <2>1 DEF Serves
  <1>11. (u.c.writeBuffer # Null /\ v \in WriteToTcp(u))
            \/ (u.c.writeBuffer = Null /\ v \in CloseResults(u))
    BY <1>1, <1>2, Zenon DEF RecvFin
  <1>12. \/ Passed(v, u, u.h, b[pcb[k].arg])
         \/ b[pcb[k].arg] = << >> /\ (Shut(v, u) \/ v = Error(u))
    BY <1>10, <1>11, WritePasses, CloseIs, ServesBacklog
  <1>13. CASE Passed(v, u, u.h, b[pcb[k].arg])
    <2>1. Extends(b, pcb[k].arg, b[pcb[k].arg])
      BY <1>3, BlockIs, BacklogExtends DEF Kept
    <2>2. u \in Worlds /\ u.c.readBuffer = Null
      BY <1>10 DEF Serves
    <2>3. Elsewhere(k) /\ Handed(k, b, b[pcb[k].arg], u.k.queue, u.c.state)
      BY <1>2, <1>3, <1>5, <1>6, <1>8, <1>9, <1>13, <2>1, <2>2, PassedHands
    <2> QED
      BY <1>3, <1>5, <1>6, <1>8, <1>9, <2>3
  <1>14. CASE b[pcb[k].arg] = << >> /\ Shut(v, u)
    BY <1>2, <1>3, <1>5, <1>6, <1>8, <1>10, <1>14, ShutEnds
  <1>15. CASE v = Error(u)
    BY <1>2, <1>3, <1>5, <1>6, <1>8, <1>10, <1>15, ErrorLoses
  <1> QED
    BY <1>12, <1>13, <1>14, <1>15

\* recv of a packet: some of the backlog and the packet is handed over.
LEMMA RecvEffect ==
  ASSUME NEW b, Kept(b), NEW k \in Pcbs, Recv(k)
  PROVE  /\ pcb[k].state = "open" /\ Elsewhere(k)
         /\ \E s \in Packets :
               /\ s \in [1 .. Len(s) -> Pbufs] /\ Len(s) \in 1 .. MaxChain
               /\ Handed(k, b, b[pcb[k].arg] \o s, pcb[k].queue, "Established")
  <1>1. PICK s \in Packets : \E v \in RecvPacket(World(k, Arrived(s), pcb[k]), s[1]) :
                                Return(k, v)
    BY DEF Recv
  <1>2. PICK w : w = World(k, Arrived(s), pcb[k])
    BY Zenon
  <1>3. PICK v \in RecvPacket(w, s[1]) : Return(k, v)
    BY <1>1, <1>2
  <1>4. pcb[k].state = "open"
    BY DEF Recv
  <1>5. /\ IsPacket(s, Heap) /\ HasArrived(Arrived(s), Heap, s)
        /\ s \in [1 .. Len(s) -> Pbufs] /\ Len(s) \in 1 .. MaxChain
    BY ArrivedIs
  <1>6. PICK c, T : c = pcb[k].arg /\ T = b[c] \o s
    BY Zenon
  <1>7. /\ c \in Connections /\ pcb[k] \in PcbTypes /\ Len(pcb[k].queue) <= SndBuf
        /\ conn[c] \in ConnTypes
    BY <1>4, <1>6, BlockIs
  <1>8. /\ w.h = Arrived(s) /\ w.c = conn[c] /\ w.k = pcb[k] /\ w \in Worlds
    BY <1>2, <1>5, <1>6, <1>7 DEF World, Worlds, HasArrived
  <1>9. /\ w.c.state = "Established" /\ w.c.readBuffer = Null
        /\ w.c.writeBuffer = At(b[c], 1)
    BY <1>4, <1>6, <1>7, <1>8 DEF Kept, OpenEstablished, Fronts
  <1>10. Backed(b, Heap)
    BY DEF Kept
  <1>11. Passed(v, w, Heap, T)
    <2>1. HasArrived(w.h, Heap, s)
      BY <1>5, <1>8
    <2>2. \E n \in 0 .. Len(b[c] \o s) :
            /\ n + Len(w.k.queue) <= SndBuf
            /\ IsDone(v.h, Heap, b[c] \o s, n)
            /\ Wrote(v, w, b[c] \o s, n)
      BY <1>3, <1>5, <1>7, <1>8, <1>9, <1>10, <2>1, RecvPacketIs
    <2> QED
      BY <1>6, <2>2, Zenon DEF Passed
  <1>12. Extends(b, c, T)
    BY <1>5, <1>6, <1>7, <1>10, PacketExtends
  <1>13. Elsewhere(k) /\ Handed(k, b, T, w.k.queue, w.c.state)
    BY <1>3, <1>4, <1>6, <1>8, <1>9, <1>11, <1>12, PassedHands
  <1>14. Handed(k, b, b[pcb[k].arg] \o s, pcb[k].queue, "Established")
    BY <1>6, <1>8, <1>9, <1>13, Zenon
  <1> QED
    BY <1>4, <1>5, <1>13, <1>14

-----------------------------------------------------------------------------
(* The invariant                                                            *)

\* The arguments of blocks in use differ.
LEMMA OwnConnection ==
  ASSUME Inv, NEW k \in Pcbs, pcb[k].state # "free", NEW l \in Pcbs, pcb[l].state # "free",
         pcb[k].arg = pcb[l].arg
  PROVE  k = l
  BY BlockHasConnection

\* A callback leaves other connections open as they were.
LEMMA ElsewhereOpen ==
  ASSUME NEW b, Kept(b), NEW k \in Pcbs, pcb[k].state # "free", Elsewhere(k),
         pcb'[k].state = "open" =>
            pcb'[k].arg = pcb[k].arg /\ conn'[pcb[k].arg].state = "Established"
  PROVE  OpenEstablished'
  <1>1. ASSUME NEW l \in Pcbs, pcb'[l].state = "open"
        PROVE  conn'[pcb'[l].arg].state = "Established"
    <2>1. CASE l = k
      BY <1>1, <2>1
    <2>2. CASE l # k
      <3>1. pcb'[l] = pcb[l] /\ conn[pcb[l].arg].state = "Established"
        BY <1>1, <2>2 DEF Elsewhere, Kept, OpenEstablished
      <3>2. pcb[l].arg \in Connections /\ pcb[l].arg # pcb[k].arg
        BY <1>1, <2>2, <3>1, OwnConnection, BlockHasConnection DEF Kept
      <3> QED
        BY <3>1, <3>2 DEF Elsewhere
    <2> QED
      BY <2>1, <2>2
  <1> QED
    BY <1>1 DEF OpenEstablished

\* The invariant, after each outcome a callback may have.
LEMMA HandedKept ==
  ASSUME NEW b, Kept(b), Inv', NEW k \in Pcbs, pcb[k].state # "free", Elsewhere(k),
         NEW T, NEW q, NEW st, Handed(k, b, T, q, st)
  PROVE  \E f : Kept(f)'
  <1>1. PICK n \in 0 .. Len(T) :
          /\ Backed([b EXCEPT ![pcb[k].arg] = Rest(T, n)], Heap')
          /\ Fronts([b EXCEPT ![pcb[k].arg] = Rest(T, n)], conn')
    BY DEF Handed
  <1>2. PICK f : f = [b EXCEPT ![pcb[k].arg] = Rest(T, n)]
    BY Zenon
  <1>3. Backed(f, Heap') /\ Fronts(f, conn')
    BY <1>1, <1>2, Zenon
  <1>4. OpenEstablished'
    BY ElsewhereOpen DEF Handed
  <1>5. Kept(f)'
    BY <1>3, <1>4 DEF Kept, Elsewhere
  <1> QED
    BY <1>5

LEMMA EndedKept ==
  ASSUME NEW b, Kept(b), Inv', NEW k \in Pcbs, pcb[k].state # "free", Elsewhere(k),
         NEW q, Ended(k, b, q)
  PROVE  \E f : Kept(f)'
  <1>1. OpenEstablished'
    BY ElsewhereOpen DEF Ended
  <1>2. Kept(b)'
    BY <1>1 DEF Kept, Elsewhere, Ended
  <1> QED
    BY <1>2

LEMMA LostKept ==
  ASSUME NEW b, Kept(b), Inv', NEW k \in Pcbs, pcb[k].state # "free", Elsewhere(k),
         Lost(k, b)
  PROVE  \E f : Kept(f)'
  <1>1. PICK f : f = [b EXCEPT ![pcb[k].arg] = << >>]
    BY Zenon
  <1>2. Backed(f, Heap') /\ Fronts(f, conn')
    BY <1>1, Zenon DEF Lost
  <1>3. OpenEstablished'
    BY ElsewhereOpen DEF Lost, FreePcb
  <1>4. Kept(f)'
    BY <1>2, <1>3 DEF Kept, Elsewhere
  <1> QED
    BY <1>4

\* The invariant, after accept.
LEMMA AcceptKept ==
  ASSUME NEW b, Kept(b), Inv', NEW k \in Pcbs, Accept(k)
  PROVE  Kept(b)'
  <1>1. PICK c, new, block :
          /\ c = count + 1
          /\ new = [NewConnection EXCEPT !.state = "Established", !.controlBlock = k]
          /\ block = [FreePcb EXCEPT !.state = "open", !.arg = c]
    BY Zenon
  <1>2. /\ pcb[k].state = "free" /\ count < MaxConnections /\ count' = c
        /\ conn' = [conn EXCEPT ![c] = new] /\ pcb' = [pcb EXCEPT ![k] = block]
        /\ accepted' = "yes" /\ UNCHANGED <<listening, ref, next>>
    BY <1>1 DEF Accept
  <1>3. /\ count \in Nat /\ c \in Connections /\ c > count /\ c \in 0 .. MaxConnections
        /\ \A d \in Connections : d > c => d > count /\ d # c
        /\ c \notin 1 .. count
    BY <1>1, <1>2, ConnectionsAssumption DEF Kept, Typed, Connections
  <1>4. /\ new \in ConnTypes /\ new.state = "Established"
        /\ new.writeBuffer = Null /\ new.readBuffer = Null
    BY <1>1 DEF NewConnection, ConnTypes, PbufsOrNull
  <1>5. block \in PcbTypes /\ block.state = "open" /\ block.arg = c /\ block.queue = << >>
    <2>1. block = [state |-> "open", arg |-> c, queue |-> << >>, shut |-> FALSE]
      BY <1>1, Zenon DEF FreePcb
    <2>2. << >> \in Seq(Pbufs) /\ c \in Connections \cup {Null}
      BY <1>3
    <2> QED
      BY <2>1, <2>2 DEF PcbTypes
  <1>6. conn \in [Connections -> ConnTypes] /\ pcb \in [Pcbs -> PcbTypes]
    BY DEF Kept, Typed
  <1>7. /\ conn' \in [Connections -> ConnTypes] /\ pcb' \in [Pcbs -> PcbTypes]
        /\ conn'[c] = new /\ \A d \in Connections : d # c => conn'[d] = conn[d]
        /\ pcb'[k] = block /\ \A l \in Pcbs : l # k => pcb'[l] = pcb[l]
    BY <1>2, <1>3, <1>4, <1>5, <1>6
  <1>8. \A l \in Pcbs : Len(pcb'[l].queue) <= SndBuf
    BY <1>5, <1>7, BoundsAssumption DEF Kept, Typed
  <1>9. Typed'
    BY <1>2, <1>3, <1>7, <1>8 DEF Kept, Typed, Connections, ConnTypes, PcbTypes
  <1>10. UnusedNew'
    BY <1>2, <1>3, <1>7 DEF Kept, UnusedNew, Connections
  <1>11. ASSUME NEW l \in Pcbs, pcb'[l].state = "open"
         PROVE  conn'[pcb'[l].arg].state = "Established"
    <2>1. CASE l = k
      BY <1>4, <1>5, <1>7, <2>1
    <2>2. CASE l # k
      <3>1. pcb'[l] = pcb[l] /\ conn[pcb[l].arg].state = "Established"
        BY <1>7, <1>11, <2>2 DEF Kept, OpenEstablished
      <3>2. pcb[l].arg \in Connections /\ pcb[l].arg # c
        BY <1>3, <1>11, <3>1, BlockHasConnection DEF Kept, Inv, LiveControlBlocks
      <3> QED
        BY <1>7, <3>1, <3>2
    <2> QED
      BY <2>1, <2>2
  <1>12. Heap' = Heap
    BY <1>2 DEF Heap
  <1>13. conn[c].writeBuffer = Null /\ conn[c].readBuffer = Null
    BY <1>3 DEF Kept, UnusedNew, NewConnection
  <1>14. Fronts(b, conn')
    BY <1>3, <1>4, <1>7, <1>13 DEF Kept, Fronts
  <1>15. Backed(b, Heap')
    BY <1>12 DEF Kept
  <1> QED
    BY <1>9, <1>10, <1>11, <1>14, <1>15 DEF Kept, OpenEstablished

\* The invariant, after lwIP has freed a closed block.
LEMMA PcbFreedKept ==
  ASSUME NEW b, Kept(b), Inv', NEW k \in Pcbs, PcbFreed(k)
  PROVE  Kept(b)'
  <1>1. /\ pcb' = [pcb EXCEPT ![k] = FreePcb]
        /\ UNCHANGED <<listening, conn, count, ref, next, accepted>>
    BY DEF PcbFreed
  <1>2. /\ FreePcb \in PcbTypes /\ FreePcb.state = "free" /\ FreePcb.queue = << >>
    BY DEF FreePcb, PcbTypes
  <1>3. pcb \in [Pcbs -> PcbTypes]
    BY DEF Kept, Typed
  <1>4. /\ pcb' \in [Pcbs -> PcbTypes] /\ pcb'[k] = FreePcb
        /\ \A l \in Pcbs : l # k => pcb'[l] = pcb[l]
    BY <1>1, <1>2, <1>3
  <1>5. \A l \in Pcbs : Len(pcb'[l].queue) <= SndBuf
    <2>1. Len(FreePcb.queue) = 0 /\ 0 <= SndBuf
      BY <1>2, BoundsAssumption
    <2> QED
      BY <1>4, <2>1 DEF Kept, Typed
  <1>6. Typed'
    BY <1>1, <1>4, <1>5 DEF Kept, Typed, Connections, ConnTypes, PcbTypes
  <1>7. OpenEstablished'
    BY <1>1, <1>2, <1>4 DEF Kept, OpenEstablished
  <1>8. UnusedNew'
    BY <1>1 DEF Kept, UnusedNew, Connections
  <1>9. Heap' = Heap
    BY <1>1 DEF Heap
  <1>10. Backed(b, Heap') /\ Fronts(b, conn')
    BY <1>1, <1>9 DEF Kept
  <1> QED
    BY <1>6, <1>7, <1>8, <1>10 DEF Kept

\* The invariant, when a window shuts or opens.
LEMMA WindowKept ==
  ASSUME NEW b, Kept(b), Inv', NEW k \in Pcbs, Window(k)
  PROVE  Kept(b)'
  <1>1. /\ pcb' = [pcb EXCEPT ![k].shut = ~@]
        /\ UNCHANGED <<listening, conn, count, ref, next, accepted>>
    BY DEF Window
  <1>2. SameBlocks
    BY WindowAlone DEF Kept, Inv
  <1>3. pcb' \in [Pcbs -> PcbTypes]
    BY <1>1 DEF Kept, Typed, PcbTypes
  <1>4. Typed'
    BY <1>1, <1>2, <1>3 DEF SameBlocks, Kept, Typed, Connections, ConnTypes, PcbTypes
  <1>5. OpenEstablished' /\ UnusedNew'
    BY <1>1, <1>2 DEF SameBlocks, Kept, OpenEstablished, UnusedNew, Connections
  <1>6. Heap' = Heap
    BY <1>1 DEF Heap
  <1>7. Backed(b, Heap') /\ Fronts(b, conn')
    BY <1>1, <1>6 DEF Kept
  <1> QED
    BY <1>4, <1>5, <1>7 DEF Kept

\* Whatever else happens leaves buffers, blocks and connections alone.
LEMMA IdleKept ==
  ASSUME NEW b, Kept(b), Inv', UNCHANGED <<conn, count, ref, next, pcb>>,
         listening' \in {"Closed", "Listening"}, accepted' \in {"none", "yes", "refused"}
  PROVE  Kept(b)'
  <1>1. Heap' = Heap
    BY DEF Heap
  <1>2. Typed'
    BY DEF Kept, Typed, Connections, ConnTypes, PcbTypes
  <1>3. OpenEstablished' /\ UnusedNew'
    BY DEF Kept, OpenEstablished, UnusedNew, Connections
  <1>4. Backed(b, Heap') /\ Fronts(b, conn')
    BY <1>1 DEF Kept
  <1> QED
    BY <1>2, <1>3, <1>4 DEF Kept

KeptSome == \E b : Kept(b)

\* Nothing waits at first.
LEMMA KeptInit == Init => KeptSome
  <1> SUFFICES ASSUME Init PROVE KeptSome
    OBVIOUS
  <1>1. PICK b : b = [c \in Connections |-> << >>]
    BY Zenon
  <1>2. b \in [Connections -> Seq(Pbufs)] /\ \A c \in Connections : b[c] = << >>
    BY <1>1
  <1>3. /\ ref = [p \in Pbufs |-> 0] /\ next = [p \in Pbufs |-> Null]
        /\ conn = [c \in Connections |-> NewConnection] /\ count = 0
        /\ pcb = [k \in Pcbs |-> FreePcb] /\ listening = "Closed" /\ accepted = "none"
    BY DEF Init
  <1>4. /\ NewConnection \in ConnTypes
        /\ NewConnection.writeBuffer = Null /\ NewConnection.readBuffer = Null
    BY DEF NewConnection, ConnTypes, PbufsOrNull
  <1>5. FreePcb \in PcbTypes /\ FreePcb.queue = << >> /\ FreePcb.state = "free"
    BY DEF FreePcb, PcbTypes
  <1>6. Typed
    BY <1>3, <1>4, <1>5, BoundsAssumption, ConnectionsAssumption DEF Typed, PbufsOrNull
  <1>7. OpenEstablished /\ UnusedNew
    BY <1>3, <1>5 DEF OpenEstablished, UnusedNew
  <1>8. Backed(b, Heap)
    <2>1. Distinct(b)
      BY <1>2 DEF Distinct
    <2>2. Heap \in Heaps
      BY <1>3 DEF Heap, Heaps, PbufsOrNull
    <2> QED
      BY <1>2, <1>3, <2>1, <2>2 DEF Backed, Heap
  <1>9. Fronts(b, conn)
    BY <1>2, <1>3, <1>4 DEF Fronts, At
  <1> QED
    BY <1>6, <1>7, <1>8, <1>9, InvInit DEF Kept, KeptSome

\* Every step keeps some backlogs accounted for.
LEMMA KeptStep == KeptSome /\ [Next]_vars => KeptSome'
  <1> SUFFICES ASSUME KeptSome, [Next]_vars PROVE KeptSome'
    OBVIOUS
  <1>1. PICK b : Kept(b)
    BY DEF KeptSome
  <1>2. Inv'
    BY <1>1, InvStep DEF Kept
  <1> SUFFICES \E f : Kept(f)'
    BY DEF KeptSome
  <1>3. CASE EchoInit \/ UNCHANGED vars
    BY <1>1, <1>2, <1>3, IdleKept DEF EchoInit, ServerInit, vars, Kept, Typed
  <1>4. ASSUME NEW k \in Pcbs, AcceptCallback(k) PROVE \E f : Kept(f)'
    <2>1. CASE Accept(k)
      BY <1>1, <1>2, <2>1, AcceptKept
    <2>2. CASE AcceptRefused(k)
      BY <1>1, <1>2, <2>2, IdleKept DEF AcceptRefused, Kept, Typed
    <2> QED
      BY <1>4, <2>1, <2>2 DEF AcceptCallback
  <1>5. ASSUME NEW k \in Pcbs, Recv(k) PROVE \E f : Kept(f)'
    <2>1. pcb[k].state # "free" /\ Elsewhere(k)
      BY <1>1, <1>5, RecvEffect
    <2>2. PICK s : Handed(k, b, b[pcb[k].arg] \o s, pcb[k].queue, "Established")
      BY <1>1, <1>5, RecvEffect
    <2> QED
      BY <1>1, <1>2, <2>1, <2>2, HandedKept
  <1>6. ASSUME NEW k \in Pcbs, RecvClose(k) PROVE \E f : Kept(f)'
    <2>1. pcb[k].state # "free" /\ Elsewhere(k)
      BY <1>1, <1>6, RecvCloseEffect
    <2> QED
      BY <1>1, <1>2, <1>6, <2>1, RecvCloseEffect, HandedKept, EndedKept, LostKept
  <1>7. ASSUME NEW k \in Pcbs, Sent(k) PROVE \E f : Kept(f)'
    <2>1. pcb[k].state # "free" /\ Elsewhere(k)
      BY <1>1, <1>7, SentEffect
    <2> QED
      BY <1>1, <1>2, <1>7, <2>1, SentEffect, HandedKept, EndedKept, LostKept
  <1>8. ASSUME NEW k \in Pcbs, Poll(k) PROVE \E f : Kept(f)'
    BY <1>1, <1>2, <1>8, PollEffect, HandedKept, EndedKept, LostKept
  <1>9. ASSUME NEW k \in Pcbs, Err(k) PROVE \E f : Kept(f)'
    BY <1>1, <1>2, <1>9, ErrEffect, LostKept
  <1>10. ASSUME NEW k \in Pcbs, PcbFreed(k) PROVE \E f : Kept(f)'
    BY <1>1, <1>2, <1>10, PcbFreedKept
  <1>11. ASSUME NEW k \in Pcbs, Window(k) PROVE \E f : Kept(f)'
    BY <1>1, <1>2, <1>11, WindowKept
  <1> QED
    BY <1>3, <1>4, <1>5, <1>6, <1>7, <1>8, <1>9, <1>10, <1>11 DEF Next

LEMMA AlwaysKept == Spec => []KeptSome
  BY KeptInit, KeptStep, PTL DEF Spec

(***************************************************************************)
(* Every field of every connection, control block and packet buffer holds  *)
(* what it may, reference counts never go below zero, and no send queue    *)
(* exceeds tcp_sndbuf (TcpServer.cpp:104).                                 *)
(***************************************************************************)
THEOREM TypesKept == Spec => []TypeOK
  <1>1. KeptSome => TypeOK
    <2> SUFFICES ASSUME NEW b, Kept(b) PROVE TypeOK
      BY DEF KeptSome
    <2>1. ASSUME NEW k \in Pcbs
          PROVE  /\ pcb[k].state \in {"free", "open", "finRcvd", "closing"}
                 /\ pcb[k].arg \in Connections \cup {Null}
                 /\ pcb[k].queue \in Seq(Pbufs)
                 /\ pcb[k].shut \in BOOLEAN
      BY DEF Kept, Typed, PcbTypes
    <2> QED
      BY <2>1 DEF Kept, Typed, TypeOK, ConnTypes, PbufsOrNull
  <1> QED
    BY <1>1, AlwaysKept, PTL

\* The chain at the front of a backlog is the backlog.
LEMMA BacklogsAre ==
  ASSUME NEW b, NEW h, Backed(b, h), NEW cn, Fronts(b, cn), NEW c \in Connections
  PROVE  ChainOf(h.next, cn[c].writeBuffer) = b[c]
  <1>1. b[c] \in Seq(Pbufs) /\ cn[c].writeBuffer = At(b[c], 1)
    BY DEF Backed, Fronts
  <1>2. Ranked(h.next) /\ Run(h, b[c], Len(b[c])) /\ IsPart(h, h, b[c], Len(b[c]), 0)
    BY BacklogRun
  <1>3. Chained(h.next, b[c], 1)
    BY <1>1, <1>2, PartRanked
  <1>4. 1 \in Nat \ {0} /\ 1 <= Len(b[c]) + 1 /\ SubSeq(b[c], 1, Len(b[c])) = b[c]
    BY <1>1
  <1>5. PICK nx : nx = h.next
    BY Zenon
  <1>6. ChainOf(nx, At(b[c], 1)) = b[c]
    BY <1>2, <1>3, <1>4, <1>5, ChainIs
  <1> QED
    BY <1>1, <1>5, <1>6

\* The chain at a writeBuffer is the backlog the invariant speaks of.
LEMMA BacklogIs ==
  ASSUME NEW b, Kept(b), NEW c \in Connections
  PROVE  Backlog(c) = b[c]
  <1>1. Backed(b, Heap) /\ Fronts(b, conn) /\ Heap.next = next
    BY DEF Kept, Heap
  <1>2. ChainOf(Heap.next, conn[c].writeBuffer) = b[c]
    BY <1>1, BacklogsAre
  <1> QED
    BY <1>1, <1>2 DEF Backlog

(***************************************************************************)
(* Between callbacks a packet buffer is in use exactly when it waits in    *)
(* one connection's writeBuffer, and that is the only reference to it: the *)
(* pbuf_ref, pbuf_free and pbuf_chain calls of recv, write, writeToTcp and *)
(* error balance, whatever lwIP's functions return.                        *)
(***************************************************************************)
THEOREM BuffersAccounted == Spec => []PbufsAccounted
  <1>1. KeptSome => PbufsAccounted
    <2> SUFFICES ASSUME NEW b, Kept(b) PROVE PbufsAccounted
      BY DEF KeptSome
    <2>1. \A c \in Connections : Backlog(c) = b[c] /\ conn[c].readBuffer = Null
      BY BacklogIs DEF Kept, Fronts
    <2>2. Backed(b, Heap) /\ Heap.ref = ref /\ Heap.next = next
      BY DEF Kept, Heap
    <2>3. ASSUME NEW p \in Pbufs
          PROVE  /\ ref[p] = Cardinality({c \in Connections :
                                \E i \in 1 .. Len(Backlog(c)) : Backlog(c)[i] = p})
                 /\ ref[p] <= 1
                 /\ ref[p] = 0 => next[p] = Null
      <3>1. PICK S : S = {c \in Connections :
                            \E i \in 1 .. Len(Backlog(c)) : Backlog(c)[i] = p}
        BY Zenon
      <3>2. \A c : c \in S <=> c \in Connections /\ \E i \in 1 .. Len(b[c]) : b[c][i] = p
        BY <2>1, <3>1
      <3>3. CASE Nowhere(b, p)
        <4>1. S = {} /\ ref[p] = 0 /\ next[p] = Null
          BY <2>2, <3>2, <3>3 DEF Backed, Nowhere
        <4>2. Cardinality(S) = 0
          BY <4>1, FS_EmptySet, Zenon
        <4> QED
          BY <3>1, <4>1, <4>2
      <3>4. CASE ~Nowhere(b, p)
        <4>1. PICK d \in Connections : \E i \in 1 .. Len(b[d]) : b[d][i] = p
          BY <3>4 DEF Nowhere
        <4>2. PICK i \in 1 .. Len(b[d]) : b[d][i] = p
          BY <4>1
        <4>3. ref[p] = 1
          BY <2>2, <4>2 DEF Backed
        <4>4. S = {d}
          <5>1. \A c \in Connections : \A j \in 1 .. Len(b[c]) : b[c][j] = p => c = d
            BY <2>2, <4>2 DEF Backed, Distinct
          <5>2. \A c : c \in S <=> c = d
            BY <3>2, <4>1, <5>1
          <5> QED
            BY <5>2, Zenon
        <4>5. Cardinality(S) = 1
          BY <4>4, FS_Singleton, Zenon
        <4> QED
          BY <3>1, <4>3, <4>5
      <3> QED
        BY <3>3, <3>4
    <2> QED
      BY <2>1, <2>3 DEF PbufsAccounted
  <1> QED
    BY <1>1, AlwaysKept, PTL

-----------------------------------------------------------------------------
(* The service                                                              *)

\* What EchoService is given for state, pending and queue.
State == [c \in Connections |-> ServiceState(c)]
Pending == [c \in Connections |-> Backlog(c)]
Queue == [c \in Connections |-> SendQueue(c)]

Own(pc) ==
    \A k, l \in Pcbs :
        pc[k].state # "free" /\ pc[l].state # "free" /\ pc[k].arg = pc[l].arg => k = l

Sending(pc, c) ==
    IF \E k \in Pcbs : pc[k].state # "free" /\ pc[k].arg = c
    THEN pc[CHOOSE k \in Pcbs : pc[k].state # "free" /\ pc[k].arg = c].queue
    ELSE << >>

\* The send queue of a connection is that of the one block that leads to it.
LEMMA SendingIs ==
  ASSUME NEW pc, Own(pc), NEW c
  PROVE  /\ \A k \in Pcbs :
               pc[k].state # "free" /\ pc[k].arg = c => Sending(pc, c) = pc[k].queue
         /\ (\A k \in Pcbs : pc[k].state = "free" \/ pc[k].arg # c) => Sending(pc, c) = << >>
  <1>1. ASSUME NEW k \in Pcbs, pc[k].state # "free", pc[k].arg = c
        PROVE  Sending(pc, c) = pc[k].queue
    <2>1. PICK l : l = CHOOSE m \in Pcbs : pc[m].state # "free" /\ pc[m].arg = c
      BY Zenon
    <2>2. l \in Pcbs /\ pc[l].state # "free" /\ pc[l].arg = c
      BY <1>1, <2>1, Zenon
    <2>3. l = k
      BY <1>1, <2>2 DEF Own
    <2>4. Sending(pc, c) = pc[l].queue
      BY <1>1, <2>1, Zenon DEF Sending
    <2> QED
      BY <2>3, <2>4
  <1>2. ASSUME \A k \in Pcbs : pc[k].state = "free" \/ pc[k].arg # c
        PROVE  Sending(pc, c) = << >>
    BY <1>2, Zenon DEF Sending
  <1> QED
    BY <1>1, <1>2

\* Queue, now and after a step, as a function of the blocks.
LEMMA QueueIs ==
  /\ Queue = [c \in Connections |-> Sending(pcb, c)]
  /\ Queue' = [c \in Connections |-> Sending(pcb', c)]
  BY Zenon DEF Queue, SendQueue, Sending, Connections

\* No two blocks in use lead to the same connection.
LEMMA OwnAlways ==
  /\ Inv => Own(pcb)
  /\ Inv' => Own(pcb')
  BY DEF Inv, LiveControlBlocks, Own

\* A callback changes the queue of its own connection only.
LEMMA QueueAfter ==
  ASSUME Inv, Inv', NEW k \in Pcbs, pcb[k].state # "free",
         \A l \in Pcbs : l # k => pcb'[l] = pcb[l],
         pcb'[k].state # "free" => pcb'[k].arg = pcb[k].arg
  PROVE  /\ pcb'[k].state # "free" => Queue' = [Queue EXCEPT ![pcb[k].arg] = pcb'[k].queue]
         /\ pcb'[k].state = "free" => Queue' = [Queue EXCEPT ![pcb[k].arg] = << >>]
         /\ Queue[pcb[k].arg] = pcb[k].queue
  <1>1. PICK c, pc : c = pcb[k].arg /\ pc = pcb'
    BY Zenon
  <1>2. c \in Connections
    BY <1>1, BlockHasConnection
  <1>3. Own(pcb) /\ Own(pc)
    BY <1>1, OwnAlways
  <1>4. /\ Queue = [d \in Connections |-> Sending(pcb, d)]
        /\ Queue' = [d \in Connections |-> Sending(pc, d)]
    BY <1>1, QueueIs
  <1>5. ASSUME NEW d \in Connections, d # c PROVE Sending(pc, d) = Sending(pcb, d)
    <2>1. CASE \E l \in Pcbs : pcb[l].state # "free" /\ pcb[l].arg = d
      <3>1. PICK l \in Pcbs : pcb[l].state # "free" /\ pcb[l].arg = d
        BY <2>1
      <3>2. l # k /\ pc[l] = pcb[l]
        BY <1>1, <1>5, <3>1
      <3>3. Sending(pc, d) = pc[l].queue /\ Sending(pcb, d) = pcb[l].queue
        BY <1>3, <3>1, <3>2, SendingIs
      <3> QED
        BY <3>2, <3>3
    <2>2. CASE ~\E l \in Pcbs : pcb[l].state # "free" /\ pcb[l].arg = d
      <3>1. \A l \in Pcbs : pc[l].state = "free" \/ pc[l].arg # d
        BY <1>1, <1>5, <2>2
      <3>2. Sending(pc, d) = << >> /\ Sending(pcb, d) = << >>
        BY <1>3, <2>2, <3>1, SendingIs
      <3> QED
        BY <3>2
    <2> QED
      BY <2>1, <2>2
  <1>6. Sending(pcb, c) = pcb[k].queue
    BY <1>1, <1>3, SendingIs
  <1>7. pc[k].state # "free" => Sending(pc, c) = pc[k].queue
    BY <1>1, <1>3, SendingIs
  <1>8. pc[k].state = "free" => Sending(pc, c) = << >>
    <2> SUFFICES ASSUME pc[k].state = "free" PROVE Sending(pc, c) = << >>
      OBVIOUS
    <2>1. ASSUME NEW l \in Pcbs PROVE pc[l].state = "free" \/ pc[l].arg # c
      BY <1>1, <1>3 DEF Own
    <2> QED
      BY <1>3, <2>1, SendingIs
  <1> QED
    BY <1>1, <1>2, <1>4, <1>5, <1>6, <1>7, <1>8

\* The service's pending data are the backlogs the invariant speaks of.
LEMMA PendingIs ==
  ASSUME NEW b
  PROVE  /\ Backed(b, Heap) /\ Fronts(b, conn) => Pending = b
         /\ Backed(b, Heap') /\ Fronts(b, conn') => Pending' = b
  <1>1. ASSUME Backed(b, Heap), Fronts(b, conn) PROVE Pending = b
    <2>1. Heap.next = next /\ b \in [Connections -> Seq(Pbufs)]
      BY <1>1 DEF Heap, Backed
    <2>2. \A c \in Connections : ChainOf(Heap.next, conn[c].writeBuffer) = b[c]
      BY <1>1, BacklogsAre
    <2>3. Pending = [c \in Connections |-> ChainOf(next, conn[c].writeBuffer)]
      BY Zenon DEF Pending, Backlog
    <2> QED
      BY <2>1, <2>2, <2>3
  <1>2. ASSUME Backed(b, Heap'), Fronts(b, conn') PROVE Pending' = b
    <2>1. PICK h, cn : h = Heap' /\ cn = conn'
      BY Zenon
    <2>2. h.next = next' /\ b \in [Connections -> Seq(Pbufs)]
      BY <1>2, <2>1 DEF Heap, Backed
    <2>3. \A c \in Connections : ChainOf(h.next, cn[c].writeBuffer) = b[c]
      BY <1>2, <2>1, BacklogsAre
    <2>4. Pending' = [c \in Connections |-> ChainOf(next', conn'[c].writeBuffer)]
      BY Zenon DEF Pending, Backlog, Connections
    <2> QED
      BY <2>1, <2>2, <2>3, <2>4
  <1> QED
    BY <1>1, <1>2

Service(st) ==
    CASE st = "Established" -> "open"
      [] st = "Closing" -> "closing"
      [] st = "Closed" -> "closed"

\* State, now and after a step, as a function of the connections.
LEMMA StateIs ==
  /\ State = [c \in Connections |-> IF c > count THEN "idle" ELSE Service(conn[c].state)]
  /\ State' = [c \in Connections |-> IF c > count' THEN "idle" ELSE Service(conn'[c].state)]
  BY Zenon DEF State, ServiceState, Service, Connections

\* A callback changes the state of its own connection only.
LEMMA StateAfter ==
  ASSUME NEW b, Kept(b), NEW k \in Pcbs, pcb[k].state # "free", Elsewhere(k)
  PROVE  /\ State[pcb[k].arg] = Service(conn[pcb[k].arg].state)
         /\ State' = [State EXCEPT ![pcb[k].arg] = Service(conn'[pcb[k].arg].state)]
  <1>1. PICK c : c = pcb[k].arg
    BY Zenon
  <1>2. c \in Connections /\ c \in Nat /\ ~(c > count) /\ count' = count
    BY <1>1, BlockIs, ConnectionsAssumption DEF Kept, Typed, Elsewhere
  <1>3. \A d \in Connections : d # c => conn'[d] = conn[d]
    BY <1>1 DEF Elsewhere
  <1> QED
    BY <1>1, <1>2, <1>3, StateIs

\* The service's view of a callback: T handed over in part, ended, or lost.
ViewHanded(c, T, q, st) ==
    /\ State' = [State EXCEPT ![c] = st]
    /\ \E n \in 0 .. Len(T) :
          /\ Pending' = [Pending EXCEPT ![c] = Drop(T, n)]
          /\ Queue' = [Queue EXCEPT ![c] = q \o SubSeq(T, 1, n)]

ViewEnded(c, q) ==
    /\ Pending[c] = << >> /\ Pending' = Pending
    /\ State' = [State EXCEPT ![c] = "closed"]
    /\ Queue' = [Queue EXCEPT ![c] = q]

ViewLost(c) ==
    /\ State' = [State EXCEPT ![c] = "closed"]
    /\ Pending' = [Pending EXCEPT ![c] = << >>]
    /\ Queue' = [Queue EXCEPT ![c] = << >>]

\* Each outcome of a callback, as the service sees it.
LEMMA HandedView ==
  ASSUME NEW b, Kept(b), Inv', NEW k \in Pcbs, pcb[k].state # "free", Elsewhere(k),
         NEW T, NEW q, NEW st, Handed(k, b, T, q, st)
  PROVE  ViewHanded(pcb[k].arg, T, q, Service(st))
  <1>1. PICK n \in 0 .. Len(T) :
          /\ Backed([b EXCEPT ![pcb[k].arg] = Rest(T, n)], Heap')
          /\ Fronts([b EXCEPT ![pcb[k].arg] = Rest(T, n)], conn')
          /\ pcb'[k].queue = q \o SubSeq(T, 1, n)
    BY DEF Handed
  <1>2. PICK f : f = [b EXCEPT ![pcb[k].arg] = Rest(T, n)]
    BY Zenon
  <1>3. Backed(f, Heap') /\ Fronts(f, conn')
    BY <1>1, <1>2, Zenon
  <1>4. Pending = b /\ Pending' = f
    BY <1>3, PendingIs DEF Kept
  <1>5. Pending' = [Pending EXCEPT ![pcb[k].arg] = Drop(T, n)]
    BY <1>2, <1>4, Zenon DEF Rest, Drop
  <1>6. Queue' = [Queue EXCEPT ![pcb[k].arg] = q \o SubSeq(T, 1, n)]
    <2>1. Queue' = [Queue EXCEPT ![pcb[k].arg] = pcb'[k].queue]
      BY QueueAfter DEF Kept, Elsewhere, Handed
    <2> QED
      BY <1>1, <2>1
  <1>7. State' = [State EXCEPT ![pcb[k].arg] = Service(st)]
    <2>1. conn'[pcb[k].arg].state = st
      BY DEF Handed
    <2> QED
      BY <2>1, StateAfter
  <1> QED
    BY <1>5, <1>6, <1>7 DEF ViewHanded

LEMMA EndedView ==
  ASSUME NEW b, Kept(b), Inv', NEW k \in Pcbs, pcb[k].state # "free", Elsewhere(k),
         NEW q, Ended(k, b, q)
  PROVE  ViewEnded(pcb[k].arg, q)
  <1>1. Pending = b /\ Pending' = b
    BY PendingIs DEF Kept, Ended
  <1>2. Queue' = [Queue EXCEPT ![pcb[k].arg] = q]
    <2>1. Queue' = [Queue EXCEPT ![pcb[k].arg] = pcb'[k].queue]
      BY QueueAfter DEF Kept, Elsewhere, Ended
    <2> QED
      BY <2>1 DEF Ended
  <1>3. State' = [State EXCEPT ![pcb[k].arg] = "closed"]
    BY StateAfter DEF Ended, Service
  <1> QED
    BY <1>1, <1>2, <1>3 DEF ViewEnded, Ended

LEMMA LostView ==
  ASSUME NEW b, Kept(b), Inv', NEW k \in Pcbs, pcb[k].state # "free", Elsewhere(k),
         Lost(k, b)
  PROVE  ViewLost(pcb[k].arg)
  <1>1. PICK f : f = [b EXCEPT ![pcb[k].arg] = << >>]
    BY Zenon
  <1>2. Backed(f, Heap') /\ Fronts(f, conn')
    BY <1>1, Zenon DEF Lost
  <1>3. Pending = b /\ Pending' = f
    BY <1>2, PendingIs DEF Kept
  <1>4. Queue' = [Queue EXCEPT ![pcb[k].arg] = << >>]
    BY QueueAfter DEF Kept, Elsewhere, Lost, FreePcb
  <1>5. State' = [State EXCEPT ![pcb[k].arg] = "closed"]
    BY StateAfter DEF Lost, Service
  <1> QED
    BY <1>1, <1>3, <1>4, <1>5 DEF ViewLost

-----------------------------------------------------------------------------
(* The steps of the service                                                 *)

\* The connection a callback is for, as the service sees it.
LEMMA Begins ==
  ASSUME NEW b, Kept(b), NEW k \in Pcbs, pcb[k].state # "free"
  PROVE  /\ pcb[k].arg \in Connections
         /\ Pending[pcb[k].arg] = b[pcb[k].arg]
         /\ Queue[pcb[k].arg] = pcb[k].queue
         /\ State[pcb[k].arg] = Service(conn[pcb[k].arg].state)
         /\ State[pcb[k].arg] \in {"open", "closing", "closed"}
         /\ State = [c \in Connections |-> State[c]]
  <1>1. PICK c : c = pcb[k].arg
    BY Zenon
  <1>2. c \in Connections /\ ~(c > count) /\ conn[c] \in ConnTypes
    BY <1>1, BlockIs, ConnectionsAssumption DEF Kept, Typed
  <1>3. Pending[c] = b[c]
    BY PendingIs DEF Kept
  <1>4. Queue[c] = pcb[k].queue
    <2>1. Queue = [d \in Connections |-> Sending(pcb, d)] /\ Own(pcb)
      BY QueueIs, OwnAlways DEF Kept
    <2> QED
      BY <1>1, <1>2, <2>1, SendingIs
  <1>5. State[c] = Service(conn[c].state) /\ State = [d \in Connections |-> State[d]]
    BY <1>2, StateIs
  <1>6. Service(conn[c].state) \in {"open", "closing", "closed"}
    BY <1>2 DEF ConnTypes, Service
  <1> QED
    BY <1>1, <1>2, <1>3, <1>4, <1>5, <1>6

\* ImplementsEcho's actions, over State, Pending and Queue.
LEMMA StepsAre ==
  ASSUME NEW c \in Connections
  PROVE  /\ Echo!Open(c) <=> /\ State[c] = "idle" /\ State' = [State EXCEPT ![c] = "open"]
                             /\ Pending' = Pending /\ Queue' = Queue
         /\ Echo!Receive(c) <=>
              /\ State[c] = "open" /\ State' = State
              /\ \E data \in Echo!Chunks : \E n \in 0 .. Len(Pending[c] \o data) :
                    /\ Pending' = [Pending EXCEPT ![c] = Drop(Pending[c] \o data, n)]
                    /\ Queue' = [Queue EXCEPT ![c] =
                                    Queue[c] \o SubSeq(Pending[c] \o data, 1, n)]
         /\ Echo!Finish(c) <=>
              /\ State[c] = "open" /\ State' = [State EXCEPT ![c] = "closing"]
              /\ \E n \in 0 .. Len(Pending[c]) :
                    /\ Pending' = [Pending EXCEPT ![c] = Drop(Pending[c], n)]
                    /\ Queue' = [Queue EXCEPT ![c] = Queue[c] \o SubSeq(Pending[c], 1, n)]
         /\ Echo!Progress(c) <=>
              /\ State' = State
              /\ \E acked \in 0 .. Len(Queue[c]) : \E n \in 0 .. Len(Pending[c]) :
                    /\ Pending' = [Pending EXCEPT ![c] = Drop(Pending[c], n)]
                    /\ Queue' = [Queue EXCEPT ![c] =
                                    Drop(Queue[c], acked) \o SubSeq(Pending[c], 1, n)]
         /\ Echo!Close(c) <=>
              /\ State[c] \in {"open", "closing"} /\ Pending[c] = << >>
              /\ State' = [State EXCEPT ![c] = "closed"]
              /\ \E acked \in 0 .. Len(Queue[c]) :
                    Queue' = [Queue EXCEPT ![c] = Drop(Queue[c], acked)]
              /\ Pending' = Pending
         /\ Echo!Abort(c) <=>
              /\ State[c] # "idle" /\ State' = [State EXCEPT ![c] = "closed"]
              /\ Pending' = [Pending EXCEPT ![c] = << >>]
              /\ Queue' = [Queue EXCEPT ![c] = << >>]
  <1>1. Echo!Open(c) <=> /\ State[c] = "idle" /\ State' = [State EXCEPT ![c] = "open"]
                         /\ Pending' = Pending /\ Queue' = Queue
    BY Zenon DEF Echo!Open, State, Pending, Queue, Connections
  <1>2. Echo!Receive(c) <=>
              /\ State[c] = "open" /\ State' = State
              /\ \E data \in Echo!Chunks : \E n \in 0 .. Len(Pending[c] \o data) :
                    /\ Pending' = [Pending EXCEPT ![c] = Drop(Pending[c] \o data, n)]
                    /\ Queue' = [Queue EXCEPT ![c] =
                                    Queue[c] \o SubSeq(Pending[c] \o data, 1, n)]
    BY Zenon DEF Echo!Receive, Echo!HandOver, Echo!Drop, Drop, State, Pending, Queue,
       Connections
  <1>3. Echo!Finish(c) <=>
              /\ State[c] = "open" /\ State' = [State EXCEPT ![c] = "closing"]
              /\ \E n \in 0 .. Len(Pending[c]) :
                    /\ Pending' = [Pending EXCEPT ![c] = Drop(Pending[c], n)]
                    /\ Queue' = [Queue EXCEPT ![c] = Queue[c] \o SubSeq(Pending[c], 1, n)]
    BY Zenon DEF Echo!Finish, Echo!HandOver, Echo!Drop, Drop, State, Pending, Queue,
       Connections
  <1>4. Echo!Progress(c) <=>
              /\ State' = State
              /\ \E acked \in 0 .. Len(Queue[c]) : \E n \in 0 .. Len(Pending[c]) :
                    /\ Pending' = [Pending EXCEPT ![c] = Drop(Pending[c], n)]
                    /\ Queue' = [Queue EXCEPT ![c] =
                                    Drop(Queue[c], acked) \o SubSeq(Pending[c], 1, n)]
    BY Zenon DEF Echo!Progress, Echo!HandOver, Echo!Drop, Drop, State, Pending, Queue,
       Connections
  <1>5. Echo!Close(c) <=>
              /\ State[c] \in {"open", "closing"} /\ Pending[c] = << >>
              /\ State' = [State EXCEPT ![c] = "closed"]
              /\ \E acked \in 0 .. Len(Queue[c]) :
                    Queue' = [Queue EXCEPT ![c] = Drop(Queue[c], acked)]
              /\ Pending' = Pending
    BY Zenon DEF Echo!Close, Echo!Drop, Drop, State, Pending, Queue,
       Connections
  <1>6. Echo!Abort(c) <=>
              /\ State[c] # "idle" /\ State' = [State EXCEPT ![c] = "closed"]
              /\ Pending' = [Pending EXCEPT ![c] = << >>]
              /\ Queue' = [Queue EXCEPT ![c] = << >>]
    BY Zenon DEF Echo!Abort, State, Pending, Queue, Connections
  <1> QED
    BY <1>1, <1>2, <1>3, <1>4, <1>5, <1>6

\* The connection is lost: Abort.
LEMMA AbortStep ==
  ASSUME NEW b, Kept(b), Inv', NEW k \in Pcbs, pcb[k].state # "free", Elsewhere(k),
         Lost(k, b)
  PROVE  Echo!Next
  <1>1. PICK c : c = pcb[k].arg
    BY Zenon
  <1>2. c \in Connections /\ State[c] # "idle"
    BY <1>1, Begins
  <1>3. ViewLost(c)
    BY <1>1, LostView
  <1>4. Echo!Abort(c)
    BY <1>2, <1>3, StepsAre DEF ViewLost
  <1> QED
    BY <1>2, <1>4, Zenon DEF Echo!Next

\* Nothing or something acknowledged, and some of the backlog handed over.
LEMMA ProgressStep ==
  ASSUME NEW b, Kept(b), Inv', NEW k \in Pcbs, pcb[k].state # "free", Elsewhere(k),
         NEW a \in 0 .. Len(pcb[k].queue),
         Handed(k, b, b[pcb[k].arg], Drop(pcb[k].queue, a), conn[pcb[k].arg].state)
  PROVE  Echo!Next
  <1>1. PICK c : c = pcb[k].arg
    BY Zenon
  <1>2. /\ c \in Connections /\ State[c] = Service(conn[c].state)
        /\ State = [d \in Connections |-> State[d]]
        /\ Pending[c] = b[c] /\ Queue[c] = pcb[k].queue
    BY <1>1, Begins
  <1>3. ViewHanded(c, b[c], Drop(pcb[k].queue, a), Service(conn[c].state))
    BY <1>1, HandedView
  <1>4. State' = State
    BY <1>2, <1>3 DEF ViewHanded
  <1>5. \E n \in 0 .. Len(Pending[c]) :
           /\ Pending' = [Pending EXCEPT ![c] = Drop(Pending[c], n)]
           /\ Queue' = [Queue EXCEPT ![c] = Drop(Queue[c], a) \o SubSeq(Pending[c], 1, n)]
    BY <1>2, <1>3 DEF ViewHanded
  <1>6. a \in 0 .. Len(Queue[c])
    BY <1>2
  <1>7. Echo!Progress(c)
    BY <1>2, <1>4, <1>5, <1>6, StepsAre
  <1> QED
    BY <1>2, <1>7, Zenon DEF Echo!Next

\* It is closed with nothing left to echo: Close.
LEMMA CloseStep ==
  ASSUME NEW b, Kept(b), Inv', NEW k \in Pcbs, pcb[k].state # "free", Elsewhere(k),
         conn[pcb[k].arg].state \in {"Established", "Closing"},
         NEW a \in 0 .. Len(pcb[k].queue), Ended(k, b, Drop(pcb[k].queue, a))
  PROVE  Echo!Next
  <1>1. PICK c : c = pcb[k].arg
    BY Zenon
  <1>2. /\ c \in Connections /\ State[c] = Service(conn[c].state)
        /\ Pending[c] = b[c] /\ Queue[c] = pcb[k].queue
    BY <1>1, Begins
  <1>3. ViewEnded(c, Drop(pcb[k].queue, a))
    BY <1>1, EndedView
  <1>4. State[c] \in {"open", "closing"}
    BY <1>1, <1>2 DEF Service
  <1>5. /\ a \in 0 .. Len(Queue[c]) /\ Queue' = [Queue EXCEPT ![c] = Drop(Queue[c], a)]
        /\ Pending[c] = << >> /\ Pending' = Pending
        /\ State' = [State EXCEPT ![c] = "closed"]
    BY <1>2, <1>3 DEF ViewEnded
  <1>6. Echo!Close(c)
    BY <1>2, <1>4, <1>5, StepsAre
  <1> QED
    BY <1>2, <1>6, Zenon DEF Echo!Next

\* Acknowledging nothing.
LEMMA NoneDropped ==
  ASSUME NEW s \in Seq(Pbufs)
  PROVE  Drop(s, 0) = s /\ 0 \in 0 .. Len(s)
  BY DEF Drop

\* recv is Receive.
LEMMA RecvStep ==
  ASSUME NEW b, Kept(b), Inv', NEW k \in Pcbs, Recv(k)
  PROVE  Echo!Next
  <1>1. PICK c : c = pcb[k].arg
    BY Zenon
  <1>2. pcb[k].state = "open" /\ Elsewhere(k)
    BY RecvEffect
  <1>3. PICK s : /\ s \in [1 .. Len(s) -> Pbufs] /\ Len(s) \in 1 .. MaxChain
                 /\ Handed(k, b, b[c] \o s, pcb[k].queue, "Established")
    BY <1>1, RecvEffect
  <1>4. /\ c \in Connections /\ State[c] = Service(conn[c].state)
        /\ State = [d \in Connections |-> State[d]]
        /\ Pending[c] = b[c] /\ Queue[c] = pcb[k].queue
    BY <1>1, <1>2, Begins
  <1>5. State[c] = "open"
    BY <1>1, <1>2, <1>4 DEF Kept, OpenEstablished, Service
  <1>6. ViewHanded(c, b[c] \o s, pcb[k].queue, "open")
    <2>1. Service("Established") = "open"
      BY DEF Service
    <2>2. ViewHanded(c, b[c] \o s, pcb[k].queue, Service("Established"))
      BY <1>1, <1>2, <1>3, HandedView
    <2> QED
      BY <2>1, <2>2
  <1>7. State' = State
    BY <1>4, <1>5, <1>6 DEF ViewHanded
  <1>8. \E n \in 0 .. Len(Pending[c] \o s) :
           /\ Pending' = [Pending EXCEPT ![c] = Drop(Pending[c] \o s, n)]
           /\ Queue' = [Queue EXCEPT ![c] = Queue[c] \o SubSeq(Pending[c] \o s, 1, n)]
    BY <1>4, <1>6 DEF ViewHanded
  <1>9. s \in Echo!Chunks
    BY <1>3, Zenon DEF Echo!Chunks
  <1>10. Echo!Receive(c)
    BY <1>4, <1>5, <1>7, <1>8, <1>9, StepsAre, Zenon
  <1> QED
    BY <1>4, <1>10, Zenon DEF Echo!Next

\* recv of the end is Finish, Close or Abort.
LEMMA RecvCloseStep ==
  ASSUME NEW b, Kept(b), Inv', NEW k \in Pcbs, RecvClose(k)
  PROVE  Echo!Next
  <1>1. PICK c : c = pcb[k].arg
    BY Zenon
  <1>2. pcb[k].state = "open" /\ Elsewhere(k)
    BY RecvCloseEffect
  <1>3. /\ c \in Connections /\ State[c] = Service(conn[c].state)
        /\ Pending[c] = b[c] /\ Queue[c] = pcb[k].queue
    BY <1>1, <1>2, Begins
  <1>4. conn[c].state = "Established"
    BY <1>1, <1>2 DEF Kept, OpenEstablished
  <1>5. CASE Handed(k, b, b[c], pcb[k].queue, "Closing")
    <2>1. State[c] = "open" /\ Service("Closing") = "closing"
      BY <1>3, <1>4 DEF Service
    <2>2. ViewHanded(c, b[c], pcb[k].queue, "closing")
      BY <1>1, <1>2, <1>5, <2>1, HandedView
    <2>3. /\ State' = [State EXCEPT ![c] = "closing"]
          /\ \E n \in 0 .. Len(Pending[c]) :
                /\ Pending' = [Pending EXCEPT ![c] = Drop(Pending[c], n)]
                /\ Queue' = [Queue EXCEPT ![c] = Queue[c] \o SubSeq(Pending[c], 1, n)]
      BY <1>3, <2>2 DEF ViewHanded
    <2>4. Echo!Finish(c)
      BY <1>3, <2>1, <2>3, StepsAre, Zenon
    <2> QED
      BY <1>3, <2>4, Zenon DEF Echo!Next
  <1>6. CASE Ended(k, b, pcb[k].queue)
    <2>1. Drop(pcb[k].queue, 0) = pcb[k].queue /\ 0 \in 0 .. Len(pcb[k].queue)
      BY <1>2, BlockIs, NoneDropped
    <2> QED
      BY <1>1, <1>2, <1>4, <1>6, <2>1, CloseStep
  <1>7. CASE Lost(k, b)
    BY <1>2, <1>7, AbortStep
  <1> QED
    BY <1>1, <1>5, <1>6, <1>7, RecvCloseEffect

\* sent is Progress, Close or Abort.
LEMMA SentStep ==
  ASSUME NEW b, Kept(b), Inv', NEW k \in Pcbs, Sent(k)
  PROVE  Echo!Next
  <1>1. pcb[k].state # "free" /\ Elsewhere(k)
    BY SentEffect
  <1>2. PICK a \in 0 .. Len(pcb[k].queue) :
           \/ Handed(k, b, b[pcb[k].arg], Drop(pcb[k].queue, a), conn[pcb[k].arg].state)
           \/ /\ conn[pcb[k].arg].state = "Closing"
              /\ Ended(k, b, Drop(pcb[k].queue, a)) \/ Lost(k, b)
    BY SentEffect
  <1> QED
    BY <1>1, <1>2, ProgressStep, CloseStep, AbortStep

\* poll is Progress, Close or Abort.
LEMMA PollStep ==
  ASSUME NEW b, Kept(b), Inv', NEW k \in Pcbs, Poll(k)
  PROVE  Echo!Next
  <1>1. pcb[k].state # "free" /\ Elsewhere(k)
    BY PollEffect
  <1>2. Drop(pcb[k].queue, 0) = pcb[k].queue /\ 0 \in 0 .. Len(pcb[k].queue)
    BY <1>1, BlockIs, NoneDropped
  <1>3. \/ Handed(k, b, b[pcb[k].arg], Drop(pcb[k].queue, 0), conn[pcb[k].arg].state)
        \/ /\ conn[pcb[k].arg].state = "Closing"
           /\ Ended(k, b, Drop(pcb[k].queue, 0)) \/ Lost(k, b)
    BY <1>2, PollEffect
  <1> QED
    BY <1>1, <1>2, <1>3, ProgressStep, CloseStep, AbortStep

\* accept is Open.
LEMMA AcceptStep ==
  ASSUME NEW b, Kept(b), Inv', NEW k \in Pcbs, Accept(k)
  PROVE  Echo!Next
  <1>1. PICK c, pc : c = count + 1 /\ pc = pcb'
    BY Zenon
  <1>2. /\ pcb[k].state = "free" /\ count < MaxConnections /\ count' = c
        /\ conn' = [conn EXCEPT ![c] =
                       [NewConnection EXCEPT !.state = "Established", !.controlBlock = k]]
        /\ pcb' = [pcb EXCEPT ![k] = [FreePcb EXCEPT !.state = "open", !.arg = c]]
    BY <1>1, Zenon DEF Accept
  <1>3. /\ count \in Nat /\ c \in Connections /\ c > count /\ ~(c > c) /\ c \notin 1 .. count
        /\ \A d \in Connections : d # c => (d > c <=> d > count)
    BY <1>1, <1>2, ConnectionsAssumption DEF Kept, Typed, Connections
  <1>4. /\ conn'[c].state = "Established"
        /\ \A d \in Connections : d # c => conn'[d] = conn[d]
    <2>1. DOMAIN conn = Connections
      BY DEF Kept, Typed
    <2> QED
      BY <1>2, <1>3, <2>1 DEF NewConnection
  <1>5. /\ pc[k].state = "open" /\ pc[k].arg = c /\ pc[k].queue = << >>
        /\ \A l \in Pcbs : l # k => pc[l] = pcb[l]
    <2>1. DOMAIN pcb = Pcbs
      BY DEF Kept, Typed
    <2> QED
      BY <1>1, <1>2, <2>1 DEF FreePcb
  <1>6. State[c] = "idle" /\ State' = [State EXCEPT ![c] = "open"]
    <2>1. Service("Established") = "open"
      BY DEF Service
    <2> QED
      BY <1>2, <1>3, <1>4, <2>1, StateIs
  <1>7. Pending' = Pending
    <2>1. Kept(b)'
      BY AcceptKept
    <2> QED
      BY <2>1, PendingIs DEF Kept
  <1>8. Queue' = Queue
    <2>1. Own(pcb) /\ Own(pc)
      BY <1>1, OwnAlways DEF Kept
    <2>2. /\ Queue = [d \in Connections |-> Sending(pcb, d)]
          /\ Queue' = [d \in Connections |-> Sending(pc, d)]
      BY <1>1, QueueIs
    <2>3. ASSUME NEW d \in Connections PROVE Sending(pc, d) = Sending(pcb, d)
      <3>1. CASE \E l \in Pcbs : pcb[l].state # "free" /\ pcb[l].arg = d
        <4>1. PICK l \in Pcbs : pcb[l].state # "free" /\ pcb[l].arg = d
          BY <3>1
        <4>2. l # k /\ pc[l] = pcb[l]
          BY <1>2, <1>5, <4>1
        <4>3. Sending(pc, d) = pc[l].queue /\ Sending(pcb, d) = pcb[l].queue
          BY <2>1, <4>1, <4>2, SendingIs
        <4> QED
          BY <4>2, <4>3
      <3>2. CASE ~\E l \in Pcbs : pcb[l].state # "free" /\ pcb[l].arg = d
        <4>1. Sending(pcb, d) = << >>
          BY <2>1, <3>2, SendingIs
        <4>2. CASE d = c
          BY <1>5, <2>1, <4>1, <4>2, SendingIs
        <4>3. CASE d # c
          <5>1. \A l \in Pcbs : pc[l].state = "free" \/ pc[l].arg # d
            BY <1>5, <3>2, <4>3
          <5> QED
            BY <2>1, <4>1, <5>1, SendingIs
        <4> QED
          BY <4>2, <4>3
      <3> QED
        BY <3>1, <3>2
    <2> QED
      BY <2>2, <2>3
  <1>9. Echo!Open(c)
    BY <1>3, <1>6, <1>7, <1>8, StepsAre
  <1> QED
    BY <1>3, <1>9, Zenon DEF Echo!Next

\* A block freed after its last ACK is nothing to the service.
LEMMA PcbFreedStep ==
  ASSUME NEW b, Kept(b), Inv', NEW k \in Pcbs, PcbFreed(k)
  PROVE  State' = State /\ Pending' = Pending /\ Queue' = Queue
  <1>1. /\ pcb[k].state = "closing" /\ pcb[k].queue = << >>
        /\ pcb' = [pcb EXCEPT ![k] = FreePcb]
        /\ UNCHANGED <<listening, conn, count, ref, next, accepted>>
    BY DEF PcbFreed
  <1>2. /\ pcb'[k].state = "free" /\ \A l \in Pcbs : l # k => pcb'[l] = pcb[l]
    BY <1>1 DEF Kept, Typed, FreePcb
  <1>3. State' = State
    BY <1>1, StateIs
  <1>4. Pending' = Pending
    <2>1. Kept(b)'
      BY PcbFreedKept
    <2> QED
      BY <2>1, PendingIs DEF Kept
  <1>5. Queue' = Queue
    <2>1. PICK c : c = pcb[k].arg
      BY Zenon
    <2>2. c \in Connections
      BY <1>1, <2>1, BlockIs
    <2>3. Queue' = [Queue EXCEPT ![c] = << >>] /\ Queue[c] = << >>
      BY <1>1, <1>2, <2>1, QueueAfter DEF Kept
    <2>4. Queue = [d \in Connections |-> Sending(pcb, d)]
      BY QueueIs
    <2> QED
      BY <2>2, <2>3, <2>4
  <1> QED
    BY <1>3, <1>4, <1>5

\* Nor is a window that shuts or opens.
LEMMA WindowStep ==
  ASSUME NEW b, Kept(b), Inv', NEW k \in Pcbs, Window(k)
  PROVE  State' = State /\ Pending' = Pending /\ Queue' = Queue
  <1>1. /\ pcb[k].state # "free" /\ pcb' = [pcb EXCEPT ![k].shut = ~@]
        /\ UNCHANGED <<listening, conn, count, ref, next, accepted>>
    BY DEF Window
  <1>2. /\ pcb'[k].state = pcb[k].state /\ pcb'[k].arg = pcb[k].arg
        /\ pcb'[k].queue = pcb[k].queue
        /\ \A l \in Pcbs : l # k => pcb'[l] = pcb[l]
    <2>1. SameBlocks /\ DOMAIN pcb = Pcbs
      BY WindowAlone DEF Kept, Inv, Shapes
    <2> QED
      BY <1>1, <2>1 DEF SameBlocks
  <1>3. State' = State
    BY <1>1, StateIs
  <1>4. Pending' = Pending
    <2>1. Kept(b)'
      BY WindowKept
    <2> QED
      BY <2>1, PendingIs DEF Kept
  <1>5. Queue' = Queue
    <2>1. PICK c : c = pcb[k].arg
      BY Zenon
    <2>2. c \in Connections
      BY <1>1, <2>1, BlockIs
    <2>3. Queue' = [Queue EXCEPT ![c] = pcb[k].queue] /\ Queue[c] = pcb[k].queue
      BY <1>1, <1>2, <2>1, QueueAfter DEF Kept
    <2>4. Queue = [d \in Connections |-> Sending(pcb, d)]
      BY QueueIs
    <2> QED
      BY <2>2, <2>3, <2>4
  <1> QED
    BY <1>3, <1>4, <1>5

\* Every step of the server is a step of the service or leaves it as it is.
LEMMA EchoNext == KeptSome /\ [Next]_vars => [Echo!Next]_(Echo!vars)
  <1> SUFFICES ASSUME KeptSome, [Next]_vars
               PROVE  Echo!Next \/ (State' = State /\ Pending' = Pending /\ Queue' = Queue)
    BY Zenon DEF Echo!vars, State, Pending, Queue, Connections
  <1>1. PICK b : Kept(b)
    BY DEF KeptSome
  <1>2. Inv'
    BY <1>1, InvStep DEF Kept
  <1>3. ASSUME UNCHANGED <<conn, count, next, pcb>>
        PROVE  State' = State /\ Pending' = Pending /\ Queue' = Queue
    <2>1. State' = State
      BY <1>3, StateIs
    <2>2. Pending' = Pending
      BY <1>3, Zenon DEF Pending, Backlog, Connections
    <2>3. Queue' = Queue
      BY <1>3, QueueIs
    <2> QED
      BY <2>1, <2>2, <2>3
  <1>4. CASE EchoInit \/ UNCHANGED vars
    BY <1>3, <1>4 DEF EchoInit, ServerInit, vars
  <1>5. ASSUME NEW k \in Pcbs, AcceptCallback(k)
        PROVE  Echo!Next \/ (State' = State /\ Pending' = Pending /\ Queue' = Queue)
    <2>1. CASE Accept(k)
      BY <1>1, <1>2, <2>1, AcceptStep
    <2>2. CASE AcceptRefused(k)
      BY <1>3, <2>2 DEF AcceptRefused
    <2> QED
      BY <1>5, <2>1, <2>2 DEF AcceptCallback
  <1>6. ASSUME NEW k \in Pcbs, Err(k) PROVE Echo!Next
    BY <1>1, <1>2, <1>6, ErrEffect, AbortStep
  <1> QED
    BY <1>1, <1>2, <1>4, <1>5, <1>6, RecvStep, RecvCloseStep, SentStep, PollStep,
       WindowStep, PcbFreedStep
    DEF Next

\* The server starts as the service does.
LEMMA EchoStart == Init => Echo!Init
  <1> SUFFICES ASSUME Init PROVE Echo!Init
    OBVIOUS
  <1>1. /\ conn = [c \in Connections |-> NewConnection] /\ count = 0
        /\ pcb = [k \in Pcbs |-> FreePcb]
    BY DEF Init
  <1>2. State = [c \in Connections |-> "idle"]
    <2>1. \A c \in Connections : c > count
      BY <1>1, ConnectionsAssumption DEF Connections
    <2> QED
      BY <2>1, StateIs
  <1>3. Pending = [c \in Connections |-> << >>]
    <2>1. PICK b : Kept(b)
      BY KeptInit DEF KeptSome
    <2>2. Pending = b /\ b \in [Connections -> Seq(Pbufs)] /\ Fronts(b, conn)
      BY <2>1, PendingIs DEF Kept, Backed
    <2>3. ASSUME NEW c \in Connections PROVE b[c] = << >>
      <3>1. b[c] \in Seq(Pbufs) /\ At(b[c], 1) = Null
        BY <1>1, <2>2 DEF Fronts, NewConnection
      <3> QED
        BY <3>1, NothingWaits
    <2> QED
      BY <2>2, <2>3
  <1>4. Queue = [c \in Connections |-> << >>]
    <2>1. \A k \in Pcbs : pcb[k].state = "free"
      BY <1>1 DEF FreePcb
    <2>2. Own(pcb)
      BY <2>1 DEF Own
    <2>3. \A c \in Connections : Sending(pcb, c) = << >>
      BY <2>1, <2>2, SendingIs
    <2> QED
      BY <2>3, QueueIs
  <1> QED
    BY <1>2, <1>3, <1>4, Zenon DEF Echo!Init, State, Pending, Queue

(***************************************************************************)
(* The server implements the echo service: what a connection receives goes *)
(* back once, in order and completely before the connection is closed, and *)
(* only an error loses data.                                               *)
(***************************************************************************)
THEOREM EchoImplemented == Spec => ImplementsEcho
  BY EchoStart, EchoNext, AlwaysKept, PTL DEF Spec, ImplementsEcho, Echo!Spec
=============================================================================
