----------------------------- MODULE TcpServer -----------------------------
(***************************************************************************)
(* The TCP server of src/src/network/TcpServer.cpp with the echo           *)
(* application of TcpEchoServer.h on top.  lwIP runs in one thread and     *)
(* calls the server back: every callback is one action, with the whole     *)
(* chain of calls it makes.  lwIP itself (control blocks, packet buffers,  *)
(* tcp_write, tcp_close) is modelled as the server uses it.                *)
(*                                                                         *)
(* A packet buffer is one unit of data; a received packet is a chain of    *)
(* them.                                                                   *)
(***************************************************************************)
EXTENDS Integers, Sequences, FiniteSets

CONSTANTS
    Pbufs,           \* packet buffers
    Pcbs,            \* TCP control blocks
    MaxConnections,  \* sMaxConnections
    SndBuf,          \* what a control block's send queue takes, in pbufs
    MaxChain,        \* pbufs in one received packet, at most
    CloseErrors,     \* what tcp_close may return besides ERR_OK
    Null

ASSUME ConnectionsAssumption == MaxConnections \in Nat
ASSUME BoundsAssumption == SndBuf \in Nat /\ MaxChain \in Nat \ {0}
ASSUME CloseAssumption == CloseErrors \subseteq {"ERR_MEM", "ERR_OTHER"}
ASSUME NullAssumption == Null \notin Pbufs \cup Pcbs \cup Nat

VARIABLES
    listening,  \* mListeningConnection.state
    conn,       \* the elements of mConnections
    count,      \* mConnections.size()
    ref,        \* reference counts of the packet buffers, 0 when free
    next,       \* the pbuf chained after each
    pcb,        \* lwIP's control blocks of accepted connections
    accepted    \* the outcome of the last accept callback

vars == <<listening, conn, count, ref, next, pcb, accepted>>

Connections == 1 .. MaxConnections

NewConnection == [state |-> "Closed", controlBlock |-> Null,
                  writeBuffer |-> Null, readBuffer |-> Null]

\* A free control block; queue holds what tcp_write took and no ACK covered, shut
\* says that the other end last advertised a window of zero.
FreePcb == [state |-> "free", arg |-> Null, queue |-> <<>>, shut |-> FALSE]

Init ==
    /\ listening = "Closed"
    /\ conn = [c \in Connections |-> NewConnection]
    /\ count = 0
    /\ ref = [p \in Pbufs |-> 0]
    /\ next = [p \in Pbufs |-> Null]
    /\ pcb = [k \in Pcbs |-> FreePcb]
    /\ accepted = "none"

-----------------------------------------------------------------------------
(* lwIP's packet buffers.  A heap is a record of ref and next.             *)

Heap == [ref |-> ref, next |-> next]

\* The chain that starts at p, as a sequence.
ChainOf(nx, p) ==
    LET chain[q \in Pbufs \cup {Null}] ==
            IF q = Null THEN <<>> ELSE <<q>> \o chain[nx[q]]
    IN  chain[p]

PbufRef(h, p) == IF p = Null THEN h ELSE [h EXCEPT !.ref[p] = @ + 1]

\* pbuf_free: the leading pbufs nobody else holds are freed, the first that
\* somebody does loses one reference.
PbufFree(h, p) ==
    LET free[q \in Pbufs \cup {Null}] ==
            IF q = Null THEN h
            ELSE IF h.ref[q] > 1 THEN [h EXCEPT !.ref[q] = @ - 1]
            ELSE [free[h.next[q]] EXCEPT !.ref[q] = 0, !.next[q] = Null]
    IN  free[p]

\* pbuf_chain: t goes after the last pbuf of the chain at p, which refers to it.
PbufChain(h, p, t) ==
    LET s == ChainOf(h.next, p)
    IN  PbufRef([h EXCEPT !.next[s[Len(s)]] = t], t)

-----------------------------------------------------------------------------
(* The server's functions.  A world is everything one callback works on:   *)
(* the heap h, the connection c and its control block k.                   *)

\* What writeToTcp works on: the heap, the writeBuffer and the send queue.
Writing(w) == [h |-> w.h, buffer |-> w.c.writeBuffer, queue |-> w.k.queue]

Written(w, x) ==
    [w EXCEPT !.h = x.h, !.c.writeBuffer = x.buffer, !.k.queue = x.queue]

\* tcp_write took the leading pbuf of writeBuffer.
WriteOne(x) ==
    LET q == x.h.next[x.buffer]
    IN  [h      |-> PbufFree(PbufRef(x.h, q), x.buffer),
         buffer |-> q,
         queue  |-> Append(x.queue, x.buffer)]

\* Mutant: tcp_sndbuf is not asked.
WriteToTcp_NoSndBuf(w) ==
    LET chain == Len(ChainOf(w.h.next, w.c.writeBuffer))
        after[n \in 0 .. chain] == IF n = 0 THEN Writing(w) ELSE WriteOne(after[n - 1])
    IN  {Written(w, after[n]) : n \in 0 .. chain}

\* What writeToTcp may come to: it goes on until there is nothing left, no room
\* in the send queue, or tcp_write returns ERR_MEM, which it may at any pbuf.
WriteToTcp(w) ==
    LET chain == Len(ChainOf(w.h.next, w.c.writeBuffer))
        room  == SndBuf - Len(w.k.queue)
        most  == IF chain < room THEN chain ELSE room
        after[n \in 0 .. most] == IF n = 0 THEN Writing(w) ELSE WriteOne(after[n - 1])
    IN  {Written(w, after[n]) : n \in 0 .. most}

\* Mutant: the connection's state is left as it was.
Error_StateKept(w) ==
    [h |-> PbufFree(PbufFree(w.h, w.c.readBuffer), w.c.writeBuffer),
     c |-> [NewConnection EXCEPT !.state = w.c.state],
     k |-> FreePcb]

\* error: lwIP has freed the control block.
Error(w) ==
    [h |-> PbufFree(PbufFree(w.h, w.c.readBuffer), w.c.writeBuffer),
     c |-> NewConnection,
     k |-> FreePcb]

\* close
CloseResults(w) ==
    {[w EXCEPT !.c.state = "Closed", !.k.state = "closing"]}
    \cup (IF "ERR_MEM" \in CloseErrors THEN {w} ELSE {})
    \cup (IF "ERR_OTHER" \in CloseErrors THEN {Error(w)} ELSE {})

\* Mutant: sent and poll close first and write second.
MakeProgress_CloseFirst(w) ==
    IF w.c.state = "Closing" THEN CloseResults(w)
    ELSE IF w.c.writeBuffer # Null THEN WriteToTcp(w)
    ELSE {w}

\* Mutant: sent and poll write only.
MakeProgress_NoClose(w) ==
    IF w.c.writeBuffer # Null THEN WriteToTcp(w) ELSE {w}

\* Mutant: sent and poll serve established connections only.
MakeProgress_OpenOnly(w) ==
    IF w.c.state = "Established" /\ w.c.writeBuffer # Null THEN WriteToTcp(w)
    ELSE {w}

\* sent and poll
MakeProgress(w) ==
    IF w.c.writeBuffer # Null THEN WriteToTcp(w)
    ELSE IF w.c.state = "Closing" THEN CloseResults(w)
    ELSE {w}

\* write
Write(w, p) ==
    IF w.c.state # "Established" \/ p = Null THEN {w}
    ELSE WriteToTcp(
            IF w.c.writeBuffer # Null
            THEN [w EXCEPT !.h = PbufChain(w.h, w.c.writeBuffer, p)]
            ELSE [w EXCEPT !.h = PbufRef(w.h, p), !.c.writeBuffer = p])

\* Mutant: the application keeps its reference.
EchoRecv_NoFree(w) ==
    {[v EXCEPT !.c.readBuffer = Null] : v \in Write(w, w.c.readBuffer)}

\* TcpEchoServer::recv
EchoRecv(w) ==
    {[v EXCEPT !.h = PbufFree(v.h, v.c.readBuffer), !.c.readBuffer = Null] :
        v \in Write(w, w.c.readBuffer)}

\* recv, with a packet
RecvPacket(w, p) ==
    LET read == IF w.c.readBuffer # Null
                THEN [w EXCEPT !.h = PbufChain(w.h, w.c.readBuffer, p)]
                ELSE [w EXCEPT !.h = PbufRef(w.h, p), !.c.readBuffer = p]
    IN  {[v EXCEPT !.h = PbufFree(v.h, p)] : v \in EchoRecv(read)}

\* recv, with nullptr: the other side has closed
RecvFin(w) ==
    LET v == [w EXCEPT !.c.state = "Closing"]
    IN  IF v.c.writeBuffer # Null THEN WriteToTcp(v) ELSE CloseResults(v)

-----------------------------------------------------------------------------
(* The callbacks lwIP makes                                                *)

\* The world of a callback on k, as lwIP passes it with heap h and block b.
World(k, h, b) == [h |-> h, c |-> conn[pcb[k].arg], k |-> b]

\* The state after a callback on k.
Return(k, w) ==
    /\ ref' = w.h.ref
    /\ next' = w.h.next
    /\ conn' = [conn EXCEPT ![pcb[k].arg] = w.c]
    /\ pcb' = [pcb EXCEPT ![k] = w.k]
    /\ UNCHANGED <<listening, count, accepted>>

\* Any segment, an ACK too, is received into a packet buffer: while all of them
\* wait in backlogs the server hears nothing.
Hears == \E p \in Pbufs : ref[p] = 0

\* init; tcp_new or tcp_bind may fail, and then the server never listens.
ServerInit ==
    /\ listening = "Closed"
    /\ listening' = "Listening"
    /\ UNCHANGED <<conn, count, ref, next, pcb, accepted>>

\* TcpEchoServer's init: recv is what the server hands data to, and it listens.
EchoInit == ServerInit

\* accept of a control block
Accept(k) ==
    /\ listening = "Listening"
    /\ Hears
    /\ pcb[k].state = "free"
    /\ count < MaxConnections
    /\ count' = count + 1
    /\ conn' = [conn EXCEPT ![count + 1] =
                   [NewConnection EXCEPT !.state = "Established", !.controlBlock = k]]
    /\ pcb' = [pcb EXCEPT ![k] = [FreePcb EXCEPT !.state = "open", !.arg = count + 1]]
    /\ accepted' = "yes"
    /\ UNCHANGED <<listening, ref, next>>

\* accept when mConnections.full(): closed or aborted, and lwIP aborts it then.
AcceptRefused(k) ==
    /\ listening = "Listening"
    /\ Hears
    /\ pcb[k].state = "free"
    /\ count = MaxConnections
    /\ accepted' = "refused"
    /\ UNCHANGED <<listening, conn, count, ref, next, pcb>>

\* The callback lwIP calls for a connection to the listening block, whose argument
\* is the server's own entry.
AcceptCallback(k) == Accept(k) \/ AcceptRefused(k)

\* A received packet: a chain of free pbufs, which lwIP holds one reference to.
Packets ==
    LET free == {p \in Pbufs : ref[p] = 0}
    IN  {s \in UNION {[1 .. n -> free] : n \in 1 .. MaxChain} :
            \A i, j \in DOMAIN s : s[i] = s[j] => i = j}

Arrived(s) ==
    [ref  |-> [p \in Pbufs |-> IF \E i \in DOMAIN s : s[i] = p THEN 1 ELSE ref[p]],
     next |-> [p \in Pbufs |->
                  IF \E i \in 1 .. Len(s) - 1 : s[i] = p
                  THEN s[CHOOSE i \in 2 .. Len(s) : s[i - 1] = p]
                  ELSE next[p]]]

Recv(k) ==
    /\ pcb[k].state = "open"
    /\ \E s \in Packets :
          \E w \in RecvPacket(World(k, Arrived(s), pcb[k]), s[1]) : Return(k, w)

RecvClose(k) ==
    /\ pcb[k].state = "open"
    /\ Hears
    /\ \E w \in RecvFin(World(k, Heap, [pcb[k] EXCEPT !.state = "finRcvd"])) :
          Return(k, w)

\* An ACK covers the first n units; lwIP calls sent.
Sent(k) ==
    /\ Hears
    /\ \E n \in 1 .. Len(pcb[k].queue) :
          LET b == [pcb[k] EXCEPT !.queue = SubSeq(@, n + 1, Len(@))]
          IN  \E w \in MakeProgress(World(k, Heap, b)) : Return(k, w)

\* A segment says that the other end has shut its window, or opened it; what else
\* it brings is a step of its own.
Window(k) ==
    /\ pcb[k].state # "free"
    /\ Hears
    /\ pcb' = [pcb EXCEPT ![k].shut = ~@]
    /\ UNCHANGED <<listening, conn, count, ref, next, accepted>>

\* lwIP's slow timer calls poll.
Poll(k) ==
    /\ pcb[k].state # "free"
    /\ \E v \in {World(k, Heap, pcb[k])} :
          \E w \in MakeProgress(v) : Return(k, w)

\* A reset, too many retransmissions, or a more urgent connection: lwIP frees
\* the control block and calls error.
Err(k) ==
    /\ pcb[k].state # "free"
    /\ Return(k, Error(World(k, Heap, pcb[k])))

\* After tcp_close, the last ACK frees the control block without a callback.
PcbFreed(k) ==
    /\ pcb[k].state = "closing"
    /\ pcb[k].queue = <<>>
    /\ Hears
    /\ pcb' = [pcb EXCEPT ![k] = FreePcb]
    /\ UNCHANGED <<listening, conn, count, ref, next, accepted>>

Next ==
    \/ EchoInit
    \/ \E k \in Pcbs :
          \/ AcceptCallback(k)
          \/ Recv(k) \/ RecvClose(k)
          \/ Sent(k) \/ Window(k)
          \/ Poll(k) \/ Err(k) \/ PcbFreed(k)

Spec == Init /\ [][Next]_vars

(***************************************************************************)
(* Fairness.  Whenever the other end's window is open, lwIP sends what is  *)
(* queued and counts what is not acknowledged; only an ACK of new data     *)
(* resets the count, however often the window shuts and opens meanwhile.   *)
(* So the data is acknowledged, lwIP gives the connection up, or the       *)
(* window stays shut (strong).  While it is shut, lwIP sends probes for as *)
(* long as they are answered, and nothing need ever be acknowledged.       *)
(* lwIP's memory is not exhausted at every poll that could make progress   *)
(* (strong).  Nothing obliges a peer to send, to close or to fail.         *)
(***************************************************************************)
Answered(k) ==
    /\ pcb[k].queue # <<>>
    /\ ~pcb[k].shut
    /\ Err(k) \/ Sent(k)

PollServed(k) == Poll(k) /\ conn' # conn

FairSpec ==
    Spec /\ \A k \in Pcbs : SF_vars(Answered(k)) /\ SF_vars(PollServed(k))

-----------------------------------------------------------------------------
(* Properties *)

\* The shape of the state.
TypeOK ==
    /\ listening \in {"Closed", "Listening"}
    /\ conn \in [Connections -> [state: {"Closed", "Established", "Closing"},
                                 controlBlock: Pcbs \cup {Null},
                                 writeBuffer: Pbufs \cup {Null},
                                 readBuffer: Pbufs \cup {Null}]]
    /\ count \in 0 .. MaxConnections
    /\ ref \in [Pbufs -> Nat]
    /\ next \in [Pbufs -> Pbufs \cup {Null}]
    /\ \A k \in Pcbs :
          /\ pcb[k].state \in {"free", "open", "finRcvd", "closing"}
          /\ pcb[k].arg \in Connections \cup {Null}
          /\ pcb[k].queue \in Seq(Pbufs)
          /\ Len(pcb[k].queue) <= SndBuf
          /\ pcb[k].shut \in BOOLEAN
    /\ accepted \in {"none", "yes", "refused"}

Backlog(c) == ChainOf(next, conn[c].writeBuffer)

(***************************************************************************)
(* The pbuf_ref, pbuf_free and pbuf_chain calls of TcpServer.cpp and       *)
(* TcpEchoServer.h balance: between callbacks a packet buffer is in use    *)
(* exactly when it waits in one connection's writeBuffer, and then that is *)
(* the only reference to it.  None leaks and none is freed too early.      *)
(***************************************************************************)
PbufsAccounted ==
    /\ \A c \in Connections : conn[c].readBuffer = Null
    /\ \A p \in Pbufs :
          /\ ref[p] = Cardinality({c \in Connections :
                                     \E i \in 1 .. Len(Backlog(c)) : Backlog(c)[i] = p})
          /\ ref[p] <= 1
          /\ ref[p] = 0 => next[p] = Null

(***************************************************************************)
(* A connection that is not closed has a live control block, which leads   *)
(* back to it, and every callback finds the control block it was called    *)
(* with (the mismatches at TcpServer.cpp:263, 278 and 293 do not occur),   *)
(* although close leaves controlBlock pointing at a block lwIP will free   *)
(* and use again.                                                          *)
(***************************************************************************)
LiveControlBlocks ==
    /\ \A c \in Connections :
          conn[c].state \in {"Established", "Closing"} =>
              LET k == conn[c].controlBlock
              IN  /\ k \in Pcbs
                  /\ pcb[k].arg = c
                  /\ pcb[k].state = IF conn[c].state = "Closing" THEN "finRcvd" ELSE "open"
    /\ \A k \in Pcbs :
          pcb[k].state # "free" =>
              /\ pcb[k].arg \in 1 .. count
              /\ conn[pcb[k].arg].controlBlock = k

\* The host of connection c is still owed data or the end of the connection.
ServiceState(c) ==
    IF c > count THEN "idle"
    ELSE CASE conn[c].state = "Established" -> "open"
           [] conn[c].state = "Closing" -> "closing"
           [] conn[c].state = "Closed" -> "closed"

\* What TCP still has to deliver for connection c.
SendQueue(c) ==
    IF \E k \in Pcbs : pcb[k].state # "free" /\ pcb[k].arg = c
    THEN pcb[CHOOSE k \in Pcbs : pcb[k].state # "free" /\ pcb[k].arg = c].queue
    ELSE <<>>

Echo == INSTANCE EchoService WITH
    Items <- Pbufs, MaxChunk <- MaxChain,
    state   <- [c \in Connections |-> ServiceState(c)],
    pending <- [c \in Connections |-> Backlog(c)],
    queue   <- [c \in Connections |-> SendQueue(c)]

(***************************************************************************)
(* The server echoes what it receives, in order, once, and completely      *)
(* before it closes a connection: writeToTcp, sent, poll and recv of       *)
(* TcpServer.cpp implement EchoService.                                    *)
(***************************************************************************)
ImplementsEcho == Echo!Spec

\* The other end of connection c does not take anything.
WindowShut(c) == \E k \in Pcbs : conn[c].controlBlock = k /\ pcb[k].shut

(***************************************************************************)
(* A connection the other side has closed is closed by the server too,     *)
(* whatever is still buffered and however often tcp_close or tcp_write     *)
(* lacks memory: "it will be attempted again in the polling function"      *)
(* (TcpServer.h:91-93).  The exception is a peer that closes its own side  *)
(* and then keeps its window shut for ever: TcpServer.cpp sets no time-out *)
(* and no keep-alive, and such a connection stays.                         *)
(***************************************************************************)
ClosingCloses ==
    \A c \in Connections :
        conn[c].state = "Closing" ~> (conn[c].state = "Closed" \/ []WindowShut(c))

(***************************************************************************)
(* What waits in a writeBuffer because the send queue was full or memory   *)
(* short (TcpServer.cpp:106-117) moves on, unless the other end keeps its  *)
(* window shut for ever: sent and poll retry it.                           *)
(***************************************************************************)
BacklogMoves ==
    \A c \in Connections, p \in Pbufs :
        conn[c].writeBuffer = p ~> (conn[c].writeBuffer # p \/ []WindowShut(c))

(***************************************************************************)
(* The server refuses a connection only when the "maximum number of        *)
(* simultaneous connections this server accepts" (TcpServer.h:208) is      *)
(* reached.                                                                *)
(***************************************************************************)
RefusedOnlyAtCapacity ==
    [][(accepted' # accepted /\ accepted' = "refused") =>
          \A c \in Connections : conn[c].state # "Closed"]_vars
=============================================================================
