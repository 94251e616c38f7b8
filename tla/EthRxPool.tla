----------------------------- MODULE EthRxPool -----------------------------
(***************************************************************************)
(* The receive side of the Ethernet driver, src/src/stm32h7/Ethernetif.cpp:*)
(* a pool of packet buffers that circulate between the pool, the receive   *)
(* descriptors and lwIP, without a copy.  The HAL's handling of the        *)
(* descriptors (HAL_ETH_ReadData) and the DMA are modelled as the driver   *)
(* uses them.  Reception is started; that the link check stops and starts  *)
(* it again (HAL_ETH_Stop, HAL_ETH_Start), and what the HAL does with the  *)
(* descriptors then, is left out.                                          *)
(***************************************************************************)
EXTENDS Integers, Sequences

CONSTANTS
    BufferCount,  \* ETH_RX_BUFFER_CNT
    DescCount,    \* ETH_RX_DESC_CNT
    Frames,       \* what may arrive
    Sizes         \* [Frames -> the lengths of the buffers each is received into]

ASSUME CountsAssumption ==
    BufferCount \in Nat /\ DescCount \in 1 .. BufferCount
ASSUME SizesAssumption ==
    \A f \in Frames : Sizes[f] \in Seq(Nat \ {0}) /\ Sizes[f] # <<>>
ASSUME RoomAssumption == \A f \in Frames : Len(Sizes[f]) <= BufferCount - DescCount + 1

VARIABLES
    pc,                  \* where the idle task is in ethernetif_input
    pool,                \* RX_POOL: its list of free buffers
    armed,               \* buffers of the descriptors the DMA owns, in order
    filled,              \* what the DMA wrote back and ReadData has not seen
    arriving,            \* the frame being received, its parts up to now
    partial,             \* pStart: the packet linked up to now
    held,                \* the packets lwIP holds, each what is left of a chain
    sRxBuffersAvailable

vars == <<pc, pool, armed, filled, arriving, partial, held, sRxBuffersAvailable>>

Buffers == 1 .. BufferCount

\* What the DMA writes back: part k of frame f, in buffer b.
Part(b, f, k) == [buf |-> b, frame |-> f, part |-> k]

\* The last part of its frame.
IsLast(d) == d.part = Len(Sizes[d.frame])

\* HAL_ETH_Start has built the descriptors.
Init ==
    /\ pc = "idle"
    /\ armed = [i \in 1 .. DescCount |-> i]
    /\ pool = [i \in 1 .. BufferCount - DescCount |-> DescCount + i]
    /\ filled = <<>>
    /\ arriving = <<>>
    /\ partial = <<>>
    /\ held = {}
    /\ sRxBuffersAvailable = TRUE

-----------------------------------------------------------------------------
(* The DMA fills the next buffer with the next part of a frame, at any     *)
(* time.  Without a descriptor it waits, and what is on the wire then is   *)
(* lost unseen.                                                            *)

NextPart == Len(arriving) + 1

Receive(f) ==
    /\ armed # <<>>
    /\ \A i \in 1 .. Len(arriving) : arriving[i] = f
    /\ filled' = Append(filled, Part(Head(armed), f, NextPart))
    /\ armed' = Tail(armed)
    /\ arriving' = IF NextPart = Len(Sizes[f]) THEN <<>> ELSE Append(arriving, f)
    /\ UNCHANGED <<pc, pool, partial, held, sRxBuffersAvailable>>

-----------------------------------------------------------------------------
(* One turn of the loop of ethernetif_input: HAL_ETH_ReadData links the    *)
(* descriptors up to the end of a packet, gives those without a buffer a   *)
(* new one and to the DMA again, and returns the packet if it is whole.    *)

\* low_level_input: without buffers it returns at once.
LowLevelInput ==
    /\ pc = "idle"
    /\ pc' = IF sRxBuffersAvailable THEN "reading" ELSE pc
    /\ UNCHANGED <<pool, armed, filled, arriving, partial, held, sRxBuffersAvailable>>

\* A descriptor's buffer as a pbuf.
Pbuf(d) ==
    [buf |-> d.buf, frame |-> d.frame, part |-> d.part,
     len |-> Sizes[d.frame][d.part], tot_len |-> 0]

\* Mutant: the total is kept in the first buffer only.
RxLinkCallback_FirstOnly(chain, d) ==
    LET linked == Append(chain, Pbuf(d))
    IN  [linked EXCEPT ![1].tot_len = @ + Pbuf(d).len]

\* HAL_ETH_RxLinkCallback: the buffer goes to the end of the packet, and its
\* length is added to the total of every buffer of the chain.
RxLinkCallback(chain, d) ==
    LET linked == Append(chain, Pbuf(d))
    IN  [i \in 1 .. Len(linked) |->
            [linked[i] EXCEPT !.tot_len = @ + Pbuf(d).len]]

ReadDescriptor ==
    /\ pc = "reading"
    /\ filled # <<>>
    /\ partial' = RxLinkCallback(partial, Head(filled))
    /\ filled' = Tail(filled)
    /\ pc' = IF IsLast(Head(filled)) THEN "building" ELSE pc
    /\ UNCHANGED <<pool, armed, arriving, held, sRxBuffersAvailable>>

ReadNoMore ==
    /\ pc = "reading"
    /\ filled = <<>>
    /\ pc' = "building"
    /\ UNCHANGED <<pool, armed, filled, arriving, partial, held, sRxBuffersAvailable>>

\* RxBuildDescCnt: the descriptors without a buffer.
RxBuildDescCnt == DescCount - Len(armed) - Len(filled)

Allocate ==
    /\ pool # <<>>
    /\ armed' = Append(armed, Head(pool))
    /\ pool' = Tail(pool)
    /\ UNCHANGED <<pc, sRxBuffersAvailable>>

PoolIsEmpty ==
    /\ pool = <<>>
    /\ sRxBuffersAvailable' = FALSE
    /\ pc' = "returning"
    /\ UNCHANGED <<armed, pool>>

\* Mutant: a descriptor gets a new buffer before its packet was read.
RxAllocateCallback_Early ==
    /\ pc = "building"
    /\ Allocate \/ PoolIsEmpty
    /\ UNCHANGED <<filled, arriving, partial, held>>

\* HAL_ETH_RxAllocateCallback, for the next descriptor without a buffer.
RxAllocateCallback ==
    /\ pc = "building"
    /\ RxBuildDescCnt > 0
    /\ Allocate \/ PoolIsEmpty
    /\ UNCHANGED <<filled, arriving, partial, held>>

\* The packet linked up to now is whole.
Ready == partial # <<>> /\ IsLast(partial[Len(partial)])

\* HAL_ETH_ReadData returns, and netif->input gets the packet.
HandOver ==
    /\ pc = "returning" \/ (pc = "building" /\ RxBuildDescCnt = 0)
    /\ IF Ready
       THEN held' = held \cup {partial} /\ partial' = <<>>
       ELSE UNCHANGED <<held, partial>>
    /\ pc' = "idle"
    /\ UNCHANGED <<pool, armed, filled, arriving, sRxBuffersAvailable>>

EthernetifInput ==
    LowLevelInput \/ ReadDescriptor \/ ReadNoMore \/ RxAllocateCallback \/ HandOver

-----------------------------------------------------------------------------
(* lwIP, the application, or releaseTxBuffers, frees the first buffer of a *)
(* packet that is held: all in the idle task, between two turns.           *)

\* Mutant: the flag is not set again.
pbufFreeCustom_FlagKept(b) ==
    /\ pool' = <<b>> \o pool
    /\ UNCHANGED sRxBuffersAvailable

\* Mutant: a buffer freed while the pool was empty is lost.
pbufFreeCustom_Lost(b) ==
    /\ pool' = IF sRxBuffersAvailable THEN <<b>> \o pool ELSE pool
    /\ sRxBuffersAvailable' = TRUE

\* pbuf_free_custom
pbufFreeCustom(b) ==
    /\ pool' = <<b>> \o pool
    /\ sRxBuffersAvailable' = TRUE

FreeFirst(p) ==
    /\ pc = "idle"
    /\ pbufFreeCustom(p[1].buf)
    /\ held' = (held \ {p}) \cup (IF Len(p) > 1 THEN {Tail(p)} ELSE {})
    /\ UNCHANGED <<pc, armed, filled, arriving, partial>>

Free == \E p \in held : FreeFirst(p)

-----------------------------------------------------------------------------
Next == (\E f \in Frames : Receive(f)) \/ EthernetifInput \/ Free

Spec == Init /\ [][Next]_vars

(***************************************************************************)
(* The idle task calls ethernetif_input in every pass.  While nothing is   *)
(* received, one of the packets held is freed in the end: lwIP drops what  *)
(* it cannot complete, and gives up the connections whose backlogs hold    *)
(* the rest, since not even an answer to its probes arrives any more.      *)
(* While something is received nobody need free anything.                  *)
(***************************************************************************)
FreedWhenDeaf == ~sRxBuffersAvailable /\ Free

FairSpec == Spec /\ WF_vars(EthernetifInput) /\ WF_vars(FreedWhenDeaf)

-----------------------------------------------------------------------------
(* Properties *)

Descriptors == [buf : Buffers, frame : Frames, part : Nat]
Pbufs == [buf : Buffers, frame : Frames, part : Nat, len : Nat, tot_len : Nat]

\* The shape of the state, and no more buffers at the DMA than descriptors.
TypeOK ==
    /\ pc \in {"idle", "reading", "building", "returning"}
    /\ pool \in Seq(Buffers)
    /\ armed \in Seq(Buffers)
    /\ filled \in Seq(Descriptors)
    /\ Len(armed) + Len(filled) <= DescCount
    /\ arriving \in Seq(Frames)
    /\ partial \in Seq(Pbufs)
    /\ held \in SUBSET Seq(Pbufs)
    /\ sRxBuffersAvailable \in BOOLEAN

\* The buffers of a sequence of descriptors or of a packet, in order.
Bufs(s) == [i \in 1 .. Len(s) |-> s[i].buf]

\* The buffers the driver has, in the order in which they turn into packets.
InDriver == Bufs(partial) \o Bufs(filled) \o armed \o pool

Once(s) == \A i, j \in 1 .. Len(s) : s[i] = s[j] => i = j
Apart(s, t) == \A i \in 1 .. Len(s), j \in 1 .. Len(t) : s[i] # t[j]
In(b, s) == \E i \in 1 .. Len(s) : s[i] = b

(***************************************************************************)
(* Every buffer is in one place, once: none leaks, and none is handed to   *)
(* the DMA while lwIP reads it (Ethernetif.cpp:354-360, 480-494).          *)
(***************************************************************************)
BuffersConserved ==
    /\ Once(InDriver)
    /\ \A p \in held :
          /\ Once(Bufs(p))
          /\ Apart(Bufs(p), InDriver)
          /\ \A q \in held \ {p} : Apart(Bufs(p), Bufs(q))
    /\ \A b \in Buffers : In(b, InDriver) \/ \E p \in held : In(b, Bufs(p))

\* Parts of one frame, in order, and every tot_len is what its comment says.
InOrder(p) ==
    \A i \in 1 .. Len(p) :
        /\ p[i].frame = p[1].frame
        /\ p[i].part = p[1].part + i - 1
        /\ p[i].len = Sizes[p[i].frame][p[i].part]
        /\ p[i].tot_len = p[i].len + (IF i < Len(p) THEN p[i + 1].tot_len ELSE 0)

\* What is left of a frame as it is freed, to its end.
RestOfFrame(p) == p # <<>> /\ IsLast(p[Len(p)]) /\ InOrder(p)

(***************************************************************************)
(* A packet handed to lwIP is one whole frame, in order, and every tot_len *)
(* in it is "its own length, plus the length of all the following pbufs in *)
(* the chain" (Ethernetif.cpp:517-518), and stays so as it is freed.       *)
(***************************************************************************)
PacketsWhole ==
    /\ Ready => RestOfFrame(partial) /\ partial[1].part = 1
    /\ \A p \in held : RestOfFrame(p)

(***************************************************************************)
(* Reception stays switched off only while the pool is empty and somebody  *)
(* holds a packet: the one whose free will switch it on again              *)
(* (Ethernetif.cpp:57-58, 356-359).                                        *)
(***************************************************************************)
OffOnlyWhenHeld == pc = "idle" /\ ~sRxBuffersAvailable => pool = <<>> /\ held # {}

(***************************************************************************)
(* What the DMA received is read, provided packets are freed: reception    *)
(* switched off is switched on again.                                      *)
(***************************************************************************)
ReceivedIsRead ==
    \A b \in Buffers : In(b, Bufs(filled)) ~> ~In(b, Bufs(filled))
=============================================================================
