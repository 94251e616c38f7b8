----------------------------- MODULE EthTxRing -----------------------------
(***************************************************************************)
(* The transmit side of the Ethernet driver, src/src/stm32h7/Ethernetif.cpp*)
(* and TxDescriptor.h: a ring of DMA descriptors that lowLevelOutput fills *)
(* and hands to the DMA, and that releaseTxBuffers takes back to free the  *)
(* packet buffers.  The driver runs in one thread (the idle task); the DMA *)
(* runs beside it and touches the descriptors between any two of its       *)
(* steps.  The DMA itself is hardware and modelled as the driver uses it.  *)
(***************************************************************************)
EXTENDS Integers, Sequences, FiniteSets

CONSTANTS
    DescCount,            \* sEthTxDescCount
    Pbufs,                \* packet buffers lwIP passes to linkoutput
    ChainLen,             \* [Pbufs -> length of the pbuf's chain]
    NoPbuf,               \* nullptr
    WritebackKeepsFlags,  \* the DMA's write-back leaves FD and LD as they were
    TailAtCurrentStarts   \* what a tail write equal to the DMA's position may do

ASSUME DescCountAssumption == DescCount \in Nat \ {0}
ASSUME PbufsAssumption == NoPbuf \notin Pbufs
ASSUME ChainLenAssumption == ChainLen \in [Pbufs -> Nat \ {0}]
ASSUME HardwareAssumption == /\ WritebackKeepsFlags \in BOOLEAN
                             /\ TailAtCurrentStarts \subseteq BOOLEAN
                             /\ TailAtCurrentStarts # {}

VARIABLES
    desc,                    \* sTxDescriptors
    sAvailableIndex,         \* next descriptor the driver fills
    sAvaliableSize,          \* how many descriptors it may fill
    sUnavailableTxDescIndex, \* next descriptor it checks for completion
    ref,                     \* references the driver holds on each pbuf
    pc,                      \* what the driver's thread is executing
    out,                     \* the locals p and bufIndex of lowLevelOutput
    result,                  \* what the last call of lowLevelOutput returned
    started,                 \* between HAL_ETH_Start and HAL_ETH_Stop
    tail,                    \* DMACTDTPR, the DMA's tail pointer
    dma,                     \* the descriptor the DMA processes next
    dmaRun,                  \* the DMA is running, not suspended
    frame,                   \* buffers the DMA has gathered since FD
    wire                     \* the last frame the DMA gave to the MAC

ring == <<desc, sAvailableIndex, sAvaliableSize, sUnavailableTxDescIndex>>
hardware == <<started, tail, dma, dmaRun, frame, wire>>
vars == <<ring, ref, pc, out, result, hardware>>

Index == 0 .. DescCount - 1

\* The index after i in the ring; the index n steps beyond the start of the ring.
After(i) == IF i + 1 = DescCount THEN 0 ELSE i + 1
Wrap(n) == IF n < DescCount THEN n ELSE n - DescCount

\* A descriptor: the flags of mDesc3, the one or two buffers of mDesc0..2 (the
\* buffers first .. first + count - 1 of the chain of pbuf), and mAppData0.
Descriptor == [own: BOOLEAN, fd: BOOLEAN, ld: BOOLEAN,
               pbuf: Pbufs \cup {NoPbuf}, first: Nat, count: 0 .. 2,
               app: Pbufs \cup {NoPbuf}]

EmptyDescriptor == [own |-> FALSE, fd |-> FALSE, ld |-> FALSE, pbuf |-> NoPbuf,
                    first |-> 0, count |-> 0, app |-> NoPbuf]

\* The buffers a descriptor points at, and the whole chain of a pbuf.
Buffers(d) == [k \in 1 .. d.count |-> <<d.pbuf, d.first + k - 1>>]
Chain(p) == [k \in 1 .. ChainLen[p] |-> <<p, k - 1>>]

(***************************************************************************)
(* The descriptors in use: those from sUnavailableTxDescIndex on that the  *)
(* driver counts as not available.                                         *)
(***************************************************************************)
Used == DescCount - sAvaliableSize
Dist(i) == IF i >= sUnavailableTxDescIndex
           THEN i - sUnavailableTxDescIndex
           ELSE i - sUnavailableTxDescIndex + DescCount
InUse == {i \in Index : Dist(i) < Used}

\* Those in use that are the last descriptor of a frame of p.
Ends(p) == {i \in InUse : desc[i].app = p}

\* lowLevelOutput is still to fill descriptors for p.
Filling(p) == pc = "output" /\ out.pbuf = p /\ out.bufIndex < ChainLen[p]

Init ==
    /\ desc = [i \in Index |-> EmptyDescriptor]
    /\ sAvailableIndex = 0
    /\ sAvaliableSize = DescCount
    /\ sUnavailableTxDescIndex = 0
    /\ ref = [p \in Pbufs |-> 0]
    /\ pc = "idle"
    /\ out = [pbuf |-> NoPbuf, bufIndex |-> 0]
    /\ result = [pbuf |-> NoPbuf, err |-> "ERR_OK"]
    /\ started = FALSE
    /\ tail = 0
    /\ dma = 0
    /\ dmaRun = FALSE
    /\ frame = <<>>
    /\ wire = <<>>

-----------------------------------------------------------------------------
(* lowLevelOutput *)

\* Mutant: the free descriptors are not counted.
Fits_NotCounted(p) == ChainLen[p] <= DescCount

\* The chain fits the local vector bufs and two buffers fit each free descriptor.
Fits(p) == ChainLen[p] <= DescCount /\ ChainLen[p] <= 2 * sAvaliableSize

\* Mutant: no pbuf_ref.
BeginOutput_NoRef(p) ==
    /\ pc = "idle"
    /\ Fits(p)
    /\ out' = [pbuf |-> p, bufIndex |-> 0]
    /\ pc' = "output"
    /\ UNCHANGED <<ring, ref, result, hardware>>

BeginOutput(p) ==
    /\ pc = "idle"
    /\ Fits(p)
    /\ ref' = [ref EXCEPT ![p] = @ + 1]
    /\ out' = [pbuf |-> p, bufIndex |-> 0]
    /\ pc' = "output"
    /\ UNCHANGED <<ring, result, hardware>>

RefuseOutput(p) ==
    /\ pc = "idle"
    /\ ~Fits(p)
    /\ result' = [pbuf |-> p, err |-> "ERR_IF"]
    /\ UNCHANGED <<ring, ref, pc, out, hardware>>

\* Mutant: the end of the frame is looked for in the first buffer only.
Filled_LastByFirst(d, p, bufIndex) ==
    LET n    == IF bufIndex + 1 < ChainLen[p] THEN 2 ELSE 1
        last == bufIndex + 1 = ChainLen[p]
    IN  [own |-> TRUE, fd |-> d.fd \/ bufIndex = 0, ld |-> d.ld \/ last, pbuf |-> p,
         first |-> bufIndex, count |-> n, app |-> IF last THEN p ELSE NoPbuf]

\* Mutant: the pbuf is freed with the first descriptor of its frame.
Filled_AppFirst(d, p, bufIndex) ==
    LET n == IF bufIndex + 1 < ChainLen[p] THEN 2 ELSE 1
    IN  [own |-> TRUE, fd |-> d.fd \/ bufIndex = 0,
         ld |-> d.ld \/ bufIndex + n = ChainLen[p], pbuf |-> p,
         first |-> bufIndex, count |-> n, app |-> IF bufIndex = 0 THEN p ELSE NoPbuf]

\* What one iteration of the loop writes into descriptor d: set, setFirst-,
\* setLastDescriptor and setOwned only ever OR into mDesc3.
Filled(d, p, bufIndex) ==
    LET n    == IF bufIndex + 1 < ChainLen[p] THEN 2 ELSE 1
        last == bufIndex + n = ChainLen[p]
    IN  [own   |-> TRUE,
         fd    |-> d.fd \/ bufIndex = 0,
         ld    |-> d.ld \/ last,
         pbuf  |-> p,
         first |-> bufIndex,
         count |-> n,
         app   |-> IF last THEN p ELSE NoPbuf]

FillDescriptor ==
    /\ pc = "output"
    /\ out.bufIndex < ChainLen[out.pbuf]
    /\ LET d == Filled(desc[sAvailableIndex], out.pbuf, out.bufIndex)
       IN  /\ desc' = [desc EXCEPT ![sAvailableIndex] = d]
           /\ out' = [out EXCEPT !.bufIndex = @ + d.count]
    /\ sAvailableIndex' = After(sAvailableIndex)
    /\ sAvaliableSize' = sAvaliableSize - 1
    /\ UNCHANGED <<sUnavailableTxDescIndex, ref, pc, result, hardware>>

\* A tail pointer write or a start: the DMA leaves its suspend state unless the
\* tail is where it already stands, which reads as "nothing to do".
Kick(t) ==
    dmaRun' \in IF dmaRun \/ dma # t THEN {TRUE} ELSE TailAtCurrentStarts

\* Mutant: the tail pointer names the last descriptor filled.
Doorbell_LastFilled ==
    /\ pc = "output"
    /\ out.bufIndex = ChainLen[out.pbuf]
    /\ \E last \in Index : /\ After(last) = sAvailableIndex
                            /\ tail' = last
                            /\ Kick(last)
    /\ result' = [pbuf |-> out.pbuf, err |-> "ERR_OK"]
    /\ out' = [pbuf |-> NoPbuf, bufIndex |-> 0]
    /\ pc' = "idle"
    /\ UNCHANGED <<ring, ref, started, dma, frame, wire>>

\* The DMACTDTPR write that ends the call.
Doorbell ==
    /\ pc = "output"
    /\ out.bufIndex = ChainLen[out.pbuf]
    /\ tail' = sAvailableIndex
    /\ Kick(sAvailableIndex)
    /\ result' = [pbuf |-> out.pbuf, err |-> "ERR_OK"]
    /\ out' = [pbuf |-> NoPbuf, bufIndex |-> 0]
    /\ pc' = "idle"
    /\ UNCHANGED <<ring, ref, started, dma, frame, wire>>

-----------------------------------------------------------------------------
(* releaseTxBuffers, called first by every ethernetif_input *)

BeginRelease ==
    /\ pc = "idle"
    /\ pc' = "release"
    /\ UNCHANGED <<ring, ref, out, result, hardware>>

\* Mutant: ownedByDMA is not asked.
NothingToRelease_OwnIgnored == sAvailableIndex = sUnavailableTxDescIndex

NothingToRelease ==
    \/ sAvailableIndex = sUnavailableTxDescIndex
    \/ desc[sUnavailableTxDescIndex].own

\* Mutant: pbuf_free is forgotten.
ReleaseDescriptor_NoFree ==
    /\ pc = "release"
    /\ ~NothingToRelease
    /\ sAvaliableSize' = sAvaliableSize + 1
    /\ sUnavailableTxDescIndex' = After(sUnavailableTxDescIndex)
    /\ UNCHANGED <<desc, sAvailableIndex, ref, pc, out, result, hardware>>

ReleaseDescriptor ==
    /\ pc = "release"
    /\ ~NothingToRelease
    /\ LET p == desc[sUnavailableTxDescIndex].app
       IN  ref' = IF p = NoPbuf THEN ref ELSE [ref EXCEPT ![p] = @ - 1]
    /\ sAvaliableSize' = sAvaliableSize + 1
    /\ sUnavailableTxDescIndex' = After(sUnavailableTxDescIndex)
    /\ UNCHANGED <<desc, sAvailableIndex, pc, out, result, hardware>>

EndRelease ==
    /\ pc = "release"
    /\ NothingToRelease
    /\ pc' = "idle"
    /\ UNCHANGED <<ring, ref, out, result, hardware>>

-----------------------------------------------------------------------------
(* ethernet_link_check_state, in the same thread: the calls that start and *)
(* stop the DMA                                                            *)

LinkUp ==
    /\ pc = "idle"
    /\ ~started
    /\ started' = TRUE
    /\ Kick(tail)
    /\ UNCHANGED <<ring, ref, pc, out, result, tail, dma, frame, wire>>

LinkDown ==
    /\ pc = "idle"
    /\ started
    /\ started' = FALSE
    /\ UNCHANGED <<ring, ref, pc, out, result, tail, dma, dmaRun, frame, wire>>

-----------------------------------------------------------------------------
(* The transmit DMA.  It stops between frames only. *)

Active == dmaRun /\ (started \/ frame # <<>>)

DmaTransmit ==
    /\ Active
    /\ desc[dma].own
    /\ LET gathered == IF desc[dma].fd THEN Buffers(desc[dma])
                       ELSE frame \o Buffers(desc[dma])
       IN  IF desc[dma].ld
           THEN wire' = gathered /\ frame' = <<>>
           ELSE wire' = wire /\ frame' = gathered
    /\ desc' = [desc EXCEPT ![dma].own = FALSE,
                            ![dma].fd = @ /\ WritebackKeepsFlags,
                            ![dma].ld = @ /\ WritebackKeepsFlags]
    /\ dma' = After(dma)
    /\ dmaRun' = (After(dma) # tail)
    /\ UNCHANGED <<sAvailableIndex, sAvaliableSize, sUnavailableTxDescIndex,
                   ref, pc, out, result, started, tail>>

DmaSuspend ==
    /\ Active
    /\ ~desc[dma].own
    /\ dmaRun' = FALSE
    /\ UNCHANGED <<ring, ref, pc, out, result, started, tail, dma, frame, wire>>

-----------------------------------------------------------------------------
Output == \E p \in Pbufs : BeginOutput(p) \/ RefuseOutput(p)

Driver == FillDescriptor \/ Doorbell \/ ReleaseDescriptor \/ EndRelease

Next ==
    \/ Output
    \/ Driver
    \/ BeginRelease
    \/ LinkUp
    \/ LinkDown
    \/ DmaTransmit
    \/ DmaSuspend

Spec == Init /\ [][Next]_vars

(***************************************************************************)
(* The idle task always takes its next step; it calls ethernetif_input on  *)
(* every pass, however many frames lwIP sent since (hence SF); the DMA     *)
(* processes what it was told of.                                          *)
(***************************************************************************)
Fairness ==
    /\ WF_vars(Driver)
    /\ SF_vars(BeginRelease)
    /\ WF_vars(DmaTransmit \/ DmaSuspend)

FairSpec == Spec /\ Fairness
-----------------------------------------------------------------------------
(* Properties *)

\* The shape of the state.
TypeOK ==
    /\ desc \in [Index -> Descriptor]
    /\ sAvailableIndex \in Index
    /\ sAvaliableSize \in 0 .. DescCount
    /\ sUnavailableTxDescIndex \in Index
    /\ ref \in [Pbufs -> Nat]
    /\ pc \in {"idle", "output", "release"}
    /\ out \in [pbuf: Pbufs \cup {NoPbuf}, bufIndex: Nat]
    /\ pc = "output" => out.pbuf \in Pbufs
    /\ result \in [pbuf: Pbufs \cup {NoPbuf}, err: {"ERR_OK", "ERR_IF"}]
    /\ started \in BOOLEAN
    /\ tail \in Index
    /\ dma \in Index
    /\ dmaRun \in BOOLEAN

(***************************************************************************)
(* The three counters agree, and the DMA owns no descriptor the driver     *)
(* counts as available (Ethernetif.cpp:63-70, 236-240, 295-299).           *)
(***************************************************************************)
RingConsistent ==
    /\ sAvailableIndex = Wrap(sUnavailableTxDescIndex + Used)
    /\ \A i \in Index : desc[i].own => i \in InUse

(***************************************************************************)
(* The DMA never reads a packet buffer the driver no longer holds a        *)
(* reference to: the reason for the pbuf_ref at Ethernetif.cpp:197-200.    *)
(***************************************************************************)
NoUseAfterFree ==
    \A i \in Index : desc[i].own => /\ desc[i].pbuf \in Pbufs
                                   /\ ref[desc[i].pbuf] > 0

(***************************************************************************)
(* The driver's references are exact: one per frame whose last descriptor  *)
(* has not been taken back.  None is dropped twice (the pbuf_free at       *)
(* Ethernetif.cpp:291-292 finds it only at the last descriptor), none is   *)
(* forgotten.                                                              *)
(***************************************************************************)
RefsExact ==
    \A p \in Pbufs :
        ref[p] = Cardinality(Ends(p)) + (IF Filling(p) THEN 1 ELSE 0)

(***************************************************************************)
(* lowLevelOutput never rewrites a descriptor that is still in use: what   *)
(* the check of sAvaliableSize at Ethernetif.cpp:193 is for.               *)
(***************************************************************************)
InUseUntouched ==
    \A i \in InUse : /\ desc'[i].pbuf = desc[i].pbuf
                     /\ desc'[i].first = desc[i].first
                     /\ desc'[i].app = desc[i].app
                     /\ desc'[i].own => desc[i].own

NoOverwrite == [][InUseUntouched]_vars

(***************************************************************************)
(* The tail pointer write at Ethernetif.cpp:248 reaches the DMA: while the *)
(* DMA is started and the ring is not full, it does not sleep over a       *)
(* descriptor it owns.                                                     *)
(***************************************************************************)
NoLostDoorbell ==
    (pc # "output" /\ started /\ sAvaliableSize > 0 /\ ~dmaRun)
        => \A i \in Index : ~desc[i].own

(***************************************************************************)
(* Every descriptor handed to the DMA comes back to the driver, unless the *)
(* ring fills up or the link goes down.                                    *)
(***************************************************************************)
DescriptorsComeBack ==
    \A i \in Index :
        i \in InUse ~> (i \notin InUse \/ sAvaliableSize = 0 \/ ~started)

(***************************************************************************)
(* releaseTxBuffers does what Ethernetif.cpp:272 says, "check for TX       *)
(* packets that have been transmitted and free their pbufs": a descriptor  *)
(* the DMA is done with is eventually taken back.                          *)
(***************************************************************************)
TransmittedAreFreed ==
    \A i \in Index :
        (i \in InUse /\ ~desc[i].own) ~> ~(i \in InUse /\ ~desc[i].own)

(***************************************************************************)
(* The descriptors in use, oldest first; the pbufs whose frames end in one *)
(* the DMA still owns, with the one being filled; those it is done with.   *)
(***************************************************************************)
InOrder == [k \in 1 .. Used |->
                desc[Wrap(sUnavailableTxDescIndex + k - 1)]]
Owned == [k \in 1 .. Used |-> IF InOrder[k].own THEN InOrder[k].app ELSE NoPbuf]
Processed == [k \in 1 .. Used |-> IF InOrder[k].own THEN NoPbuf ELSE InOrder[k].app]
FramesOf(apps) ==
    LET f[k \in 0 .. Len(apps)] ==
            IF k = 0 THEN <<>>
            ELSE IF apps[k] = NoPbuf THEN f[k - 1]
            ELSE Append(f[k - 1], apps[k])
    IN  f[Len(apps)]
Accepted == IF \E p \in Pbufs : Filling(p) THEN <<out.pbuf>> ELSE <<>>
Queued == FramesOf(Owned) \o Accepted
Sent == FramesOf(Processed)

TxQueue == INSTANCE TxQueue WITH
    Frames <- Pbufs, Capacity <- DescCount, Content <- Chain,
    queue <- Queued, sent <- Sent

(***************************************************************************)
(* The ring implements the queue: frames reach the wire whole, once, in    *)
(* the order lowLevelOutput accepted them, and are given back in order.    *)
(***************************************************************************)
ImplementsTxQueue == TxQueue!Spec
=============================================================================
