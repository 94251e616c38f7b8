# A TLA+ model of lwip-server

`lwip-server` is firmware for an STM32H7: an Ethernet driver for lwIP, a small
network manager (link, DHCP), a TCP echo server, an MQTT client and a debug UART,
run from the idle hook of FreeRTOS. This directory holds TLA+ specifications of its parts, TLC
configurations that check them on small instances, and proofs, checked by TLAPS,
of what can be shown for every value of the constants.

`src/...` paths are relative to the repository; the models cite lines of it.

## 1. The system

### Who runs

* **The idle task** (`vApplicationIdleHook`, `src/app-freertos/MainRTOS.cpp`)
  runs everything of the network in one thread: `Base::service` (debug UART), then
  `Network::lwipThread`: `ethernetif_input` (release transmitted buffers, then read
  packets and feed them to lwIP, whose callbacks run the TCP server, which calls
  back into `lowLevelOutput`), `sys_check_timeouts` (lwIP's timers: TCP slow timer,
  DHCP), and the two loop timers (link check, DHCP process). It is the only task:
  what blocks it stops everything but the interrupts.
* **The Ethernet DMA** runs beside it and shares the descriptors and buffers.
* **Interrupts**: SysTick (the tick), the UART and its DMA. There is no Ethernet
  interrupt: the driver polls.
* **The other end**: a TCP peer, a DHCP server, an MQTT broker, the PHY.

So no two C++ functions of the network run at once. What is hard is: the DMA, which
acts between any two of the driver's stores; the order of lwIP's callbacks, which
the environment chooses; counters that wrap or fill up; and what is left when one
step of several fails.

### Inventory

| Component | State | Operations | Talks to | What must hold | Module |
|---|---|---|---|---|---|
| Ethernet transmit ring (`stm32h7/Ethernetif.cpp:177-302`, `TxDescriptor.h`) | descriptors, `sAvailableIndex`, `sAvaliableSize`, `sUnavailableTxDescIndex`, a reference on each packet in flight | `lowLevelOutput`, `releaseTxBuffers` | lwIP (linkoutput), DMA, pbufs | frames whole, in order, once; no buffer freed while the DMA reads it, none leaked; descriptors come back; the DMA is always woken | `EthTxRing` refines `TxQueue` |
| Receive pool (`Ethernetif.cpp:256-320, 354-360, 480-525`) | `RX_POOL`, `sRxBuffersAvailable`, the partial packet | `ethernetif_input`, `low_level_input`, `pbuf_free_custom`, two HAL callbacks | HAL, DMA, lwIP | buffers conserved; packets whole; reception resumes | `EthRxPool` |
| Link check (`Ethernetif.cpp:428-478`) | netif flags, MAC configuration | `ethernet_link_check_state` | PHY driver, HAL, lwIP | MAC follows PHY, in the negotiated mode | `Network`, `EthTxRing` |
| Network and DHCP (`network/NetworkRTOS.h`, `stm32h7/Ethernetif.h`) | `mDhcpState`, address | `init`, `linkStatusUpdated`, `dhcpProcess` | link check, lwIP's DHCP client | state follows the link; an address in the end | `Network` |
| Loop timer (`utils/LoopTimer.h`) | `mPrevTick` | `poll` | tick, callbacks | periodic, across the wrap of the tick | `LoopTimer` |
| TCP server, echo (`network/TcpServer.cpp`, `TcpServer.h`, `TcpEchoServer.h`) | `mConnections`, each with a control block, a state and a `writeBuffer` chain | `init`, the callbacks accept, recv, sent, poll, error; `write`, `close`, `writeToTcp` | lwIP TCP, pbufs | echo complete, in order, once; references balance; half-closed connections close; backlog moves | `TcpServer` refines `EchoService` |
| LAN8742 driver (`drivers/Lan8742.h`) | device address | `init`, `getLinkState` | MDIO | the PHY is found and its link followed, whatever the reset comes to | `Network` |
| Debug UART, transmit (`stm32h7/DebugUart.cpp`, `freertos/Mutex.h`, `StreamBuffer.h`) | stream buffer, DMA buffer, HAL state, lock | `_write`, `debugUartTx`, `debugUartService`, interrupts | UART DMA, all `printf` | bytes out once and in order, none left behind, no deadlock | `DebugUartTx` |
| Debug UART, receive (`DebugUart.cpp`, `utils/DmaRxBuffer.*`) | ring, head, tail, size, error flag | `_read`, `copy`, `updatePointers` | DMA counter | bytes in order; loss only on overrun | `DebugUartRx` |
| MQTT client (`network/MqttClient.*`) | map of subscriptions, their flags, reassembly buffers, active subscription | `registerSubscription`, `publish`, `healthCheck`, callbacks | lwIP MQTT, broker | subscriptions survive reconnection; messages whole | `MqttClient` |
| Applications (`app-freertos/MainRTOS.cpp`) | - | `main`, the idle hook | all of them | order of initialisation | `Network`, `DebugUartTx` |
| Board support, start-up, vectors, syscalls, build | - | straight-line setup | hardware | - | `Base::init` in `DebugUartTx`, the tick in `LoopTimer` |

The full list of components, and of the hazards each property is for, is in
`PROJECT.json`.

## 2. The modules

### TxQueue, EthTxRing

`TxQueue` is what the transmit side promises lwIP: a bounded FIFO queue. A frame is
accepted, goes onto the wire as a whole, and then its buffer is given back.

`EthTxRing` is the driver and the DMA. A descriptor is the record of what the code
keeps in its four words and `mAppData0`: the own, first and last flags, the buffers,
and the packet to free. `set`, `setFirstDescriptor` and `setLastDescriptor` OR into
`mDesc3`, so flags an earlier frame left are kept, and `Filled` says so. One action
is what the driver does between two stores the DMA can observe:

| Action | Code |
|---|---|
| `BeginOutput`, `RefuseOutput` | `lowLevelOutput`: the count of the chain, the two returns of `ERR_IF`, `pbuf_ref` |
| `FillDescriptor` | one turn of its loop, up to `setOwned` and the counters |
| `Doorbell` | the write of `DMACTDTPR` |
| `BeginRelease`, `ReleaseDescriptor`, `EndRelease` | `releaseTxBuffers`, one turn of its loop each |
| `LinkUp`, `LinkDown` | `HAL_ETH_Start`, `HAL_ETH_Stop` in the link check |
| `DmaTransmit`, `DmaSuspend` | hardware: take an owned descriptor, or suspend |

The DMA is modelled as the reference manual describes it. Two things about it are
constants, because the firmware cannot choose them: whether its write-back leaves FD
and LD in the descriptor (`WritebackKeepsFlags`), and whether a tail pointer equal to
the DMA's own position may start it (`TailAtCurrentStarts`, a set of outcomes). It
stops between frames. The payload length that `set` ORs into `mDesc3` is left out,
with all data: what matters of a frame is which buffers of whose chain it is.

A packet is a chain of one or two buffers (TCP, DHCP, ARP, an echo reply whose
request came in two receive buffers), or of more for a reply that lwIP fragments.

### EthRxPool

The pool is the list of free buffers; `armed` and `filled` are the descriptors, as
the HAL presents them, in order; `partial` is the packet being linked; `held` is what
lwIP and everybody above it hold. The DMA (`Receive`) may fill the next descriptor
between any two of the driver's steps:

| `pc` | Step | Code |
|---|---|---|
| idle | `LowLevelInput` | the flag in `low_level_input`; without buffers nothing is read |
| reading | `ReadDescriptor`, `ReadNoMore` | `HAL_ETH_ReadData` links descriptors with `RxLinkCallback` up to the end of a packet |
| building | `RxAllocateCallback` | a new buffer for the next descriptor without one, or the pool is empty and the flag is cleared |
| building, returning | `HandOver` | the packet, if it is whole, goes to `netif->input` |

`Free` frees the first buffer of any held packet, in any order, between two turns of
the loop: that is what the TCP server does to its backlog, and `releaseTxBuffers` to an
echo reply. The cache is left out. Frames need not be longer than what can be received
at all (`RoomAssumption`: a frame that needs more buffers than pool and one descriptor
have would never be read to its end). Reception is taken as started: the link check's
`HAL_ETH_Stop` and `HAL_ETH_Start` (`Ethernetif.cpp:438, 473`) stop and restart the receive
DMA too, and are left out.

### LoopTimer

`poll` as two actions, with and without the callback, over a tick modulo `Modulus`.
`elapsed` is not in the code: it is the time that has really passed, and what the
comparison is measured against. `gap` bounds the time between two polls.

### Network

`Main` is what `main` does until the scheduler starts, in steps between which the PHY
can change: `FindAddress` (the search of `Lan8742::init` over all addresses, each of
which may fail to be read; where there is no PHY all registers read as ones, which at
the last address looks like a hit), `ResetPhy` (the software reset, in all its outcomes,
of which the caller looks at none), and `NetworkInit`, the check of the link made during
`netif_add`, before lwIP has a link callback, followed by `InterfaceInit`, in which
`Ethernetif::init` registers the callback and calls it itself.

`LwipThread` is the two timers of the idle hook. `CheckLinkState` is the whole callback of
the link timer: `getLinkState`, the start or stop of the MAC, lwIP's flags, and the link
callback with the DHCP client's own reaction. `DhcpProcess` has one disjunct per arm of
`dhcpProcess`. The PHY comes and goes, and latches a loss of the link until BSR is read
(IEEE 802.3); a register may fail to be read. lwIP's DHCP client (version 2.2.0) is
reduced to its states and the counter `tries`, which the code reads. The server may
offer, acknowledge, be silent, or refuse, as often as it likes.

### EchoService, TcpServer

`EchoService` is the promise to the peer: what was received is handed to TCP once and in
order, and a connection ends in good order only when nothing is left to echo.

`TcpServer` has one action per callback lwIP can make, each with the whole chain of
calls below it (`Recv` is `recv`, the echo application, `write`, `writeToTcp`, and all
`pbuf_ref`, `pbuf_chain`, `pbuf_free` they make, on a heap of reference counts and
`next` pointers). Every place where lwIP may say no (`tcp_write` with `ERR_MEM` at any
buffer, `tcp_close` with `ERR_MEM` or another error) is a choice. A buffer is one unit
of data; a packet is a chain of up to `MaxChain`. `connection.controlBlock` keeps
pointing at the block after a close, as in the code, and lwIP uses the block again.

The buffers are those of the Ethernet receive pool, as the server sees them: every
segment, an acknowledgement too, needs a free one (`Hears`). The server acknowledges
data before it has echoed it, so backlogs can hold all of them; then nobody is heard,
and only lwIP giving a connection up (`Err`) frees any. The other end may shut its window
and open it again (`Window`, the block's field `shut`). While it is shut nothing need ever
be acknowledged: lwIP probes it for as long as the probes are answered.

### MqttClient

`Service` is the health check: connect when there is no connection, subscribe what is not
flagged. `Accepted` and `Closed` are the two arms of `connectionChanged`; `Suback` and
`RequestTimeout` are the results of requests; `Message` brings a publication in portions,
each with the callbacks it makes (`IncomingPublish`, then `IncomingData`). lwIP's client
is what the code relies on: a pool of requests (shared with `Publish`), dropped without a
callback when the connection closes, and a state of the connection that
`mqtt_subscribe` checks. The broker knows what it has granted (`granted`) and forgets it
with the connection; it may grant a request after lwIP stopped waiting for the answer,
and may send what nobody asked for. Payload bytes are their position in a message whose
number alternates, so that bytes of an older message would be noticed.

### DebugUartTx

The idle task as a program counter: `BaseInit`, one step for each call that may fail (a
failure loops for ever, `halted`, as in the code), then `_write` in three steps
(`BeginWrite`, `Send`, `Unlock`) and `debugUartService` in three (`BeginService`, `Receive`,
`Transmit`), with the DMA and the error interrupt between any two; each call of the HAL is one step. `HAL_UART_Abort` ends
a transfer, whose rest is lost.
A task that waits for what only itself can provide is `stopped`. The interrupt's own
message goes through the same lock and buffer, as in the code; the kernel's assertion
against that may stop the system, and both outcomes are modelled. Bytes are numbered in
the order in which the stream buffer took them; `next` and `line` say what the wire is
to carry next and carried last.

### DebugUartRx

The DMA writes the ring without end, and `DmaRxBuffer` follows it by its counter, read
once per turn of the loop in `_read`. `Receive` is the DMA storing one byte;
`UartError` is the error interrupt: abort, flag, and then its message, from which it may not
come back (`PrintingStops`), or the restart at the beginning of the ring (`ReceiveRestarts`);
`BeginRead`, `Poll` and `Copy` are what `_read` does between two points where the DMA
or the interrupt can be seen: clear the flag, `updatePointers`, copy and decide whether
to go round again. Bytes carry the number of their arrival, so that "the next bytes of
the stream" can be said. `torn` is not in the code: it says that the DMA overwrote a byte
that waits, came round to the tail, or was restarted, after which the pointers no longer
tell what is in the ring, until they describe it truly again.

## 3. The runs

| Run | Shows | Bounds |
|---|---|---|
| `tx_ring` | type, counters, references, ownership, doorbells, refusals; refinement of `TxQueue` | 4 descriptors (the value in `stm32h7xx_hal_conf.h`), 3 packets of 1, 2, 2 buffers; the ring fills, wraps and is reused |
| `tx_ring_long` | the same with frames over two descriptors, and that descriptors come back | packets of 1, 3, 4 buffers; write-back clears flags |
| `rx_pool` | conservation, whole packets, reception resumes | 4 buffers, 2 descriptors, frames of 1 and 2 buffers: the pool runs dry, packets are split between calls, the DMA comes between any two steps |
| `loop_timer` | exact away from the wrap, recovers behind it | tick modulo 32, expiry 5, polls up to 3 ticks apart: every alignment of deadline and wrap occurs |
| `network` | interface, MAC and DHCP process agree; links are noticed; a wait ends in an address unless the server refuses for ever | two modes, 32 addresses with the PHY at 1; `tries` counts to 6, beyond every value the code or the client compares with |
| `tcp_server` | references, control blocks, refinement of `EchoService`; closing closes and backlog moves unless the peer keeps its window shut for ever | 2 connections over 2 control blocks (one block serves both in turn), 2 buffers shared by both connections, packets of 1 and 2, send queue of 2: a packet can fill queue and pool, and one connection's backlog can starve the other |
| `debug_rx` | the stream is read once and in order; `_read` returns, but for an exact lap and a stopped system; an overrun or an error passes | ring of 4, 10 bytes (more than two turns), one error, reads of 1 and of 3 bytes: partial reads, wraps, overruns and a restart behind the reader occur |
| `debug_tx` | bytes go out once and in order and do not stay behind | stream buffer of 4, DMA buffer of 2, messages of 1 and 3 bytes, 9 bytes in all, two errors: messages span transfers and fill the buffer, errors come before, in and after a transfer |
| `mqtt` | subscriptions are kept and made again, messages are handled when whole | 2 subscriptions of a topic each with buffers of 1 and 2, a pool of 2 requests, payloads of 0 and 2: the pool is exhausted, one buffer is too small, messages are torn |

The remaining runs show where the code does other than its comments say; each
checks one property.

| Run | What happens |
|---|---|
| `tx_full_ring` | four descriptors in use make the two indices equal, which `releaseTxBuffers` takes for an empty ring: nothing is ever released again |
| `tcp_server_full` | connections are never removed from `mConnections`: after `sMaxConnections` accepts every further one is refused |
| `debug_tx_blocks` | a message that does not fit into the stream buffer is waited for by the idle task, the only one that makes room: "Non-blocking" (`Base.h:50`) it is not, without any error of the UART |

More places where code and comment part, or where the code makes no promise, are in the
models without a run of their own:

* a chain of more buffers than the ring has descriptors is refused although each
  descriptor takes two (`Ethernetif.cpp:185`, `Fits`);
* with frames over two descriptors, on hardware whose write-back keeps FD and LD, a reused
  descriptor still carries them (`TxDescriptor.h:39`, `Filled`), and a frame goes out in
  pieces; `tx_ring` has frames of one descriptor on such hardware, `tx_ring_long` longer
  ones on hardware that clears the flags;
* a timer whose deadline lies beyond the wrap fires at every poll until the tick wraps
  (`LoopTimer.h:39`; what `ExactAwayFromWrap` excludes), and one whose deadline lies just
  below it may be missed for a turn of the tick, 49 days, or longer;
* after an error of the UART that does not stop the system, the DMA starts at the
  beginning of the ring while the reader's tail stays, and bytes that were read already are
  returned again (`DmaRxBuffer.h`, "amount of uncopied data"; what `torn` marks);
* the error interrupt prints before it restarts the reception (`DebugUart.cpp:94-111`), and
  one of its calls is always made, since `HAL_UART_Abort` clears the code it asks for; once the
  scheduler runs, the kernel's assertion against that (`FreeRTOSConfig.h:100`) stops the
  system (`PrintingStops`, and `UartError` of `DebugUartTx`);
* `_read` sees nothing but the DMA's counter: when exactly one lap of bytes arrived, or as
  many as a restart took away, it polls for ever although there are bytes
  (`DmaRxBuffer.cpp:22-24`; the exception of `ReadReturns`);
* a server that offers and refuses for ever keeps `dhcpProcess` waiting for ever: lwIP
  counts its tries anew in every state, and `NetworkRTOS.h:117` never sees more than
  `sMaxDhcpTries`, "the maximum number of tries to attain a IP address via DHCP"
  (`NetworkRTOS.h:32`; the exception of `WaitEndsInAddress`);
* a peer that keeps its window shut and answers lwIP's probes keeps its connection, its
  backlog and the receive buffers in it for ever, closing or not: `TcpServer.cpp` sets no
  keepalive and no time-out (the exception of `ClosingCloses` and `BacklogMoves`);
* lwIP's DHCP client goes on sending without a link (`NetworkRTOS.h:63`, `DhcpTimeout`),
  into a ring whose DMA is stopped, where four such frames are what `tx_full_ring` needs;
* a lease that is lost after `AddressAssigned` leaves the interface without an address
  until the server answers again or the link changes (`NetworkRTOS.h:128`, `LeaseExpires`);
* a PHY whose address could not be read at boot is never looked for again: the driver
  settles on the last address, and the interface is up in 10 Mbit/s half duplex for ever
  (`Ethernetif.cpp:164`; what `driver.addr = PhyAddr` in `MacFollowsPhy` excludes).

### Fairness

* `EthTxRing`: the driver's thread goes on (weak), the idle task calls
  `ethernetif_input` again however much lwIP sends in between (strong, since sending
  disables it for a while), and the DMA works when started (weak).
* `EthRxPool`: `ethernetif_input` is called again and goes on (weak). While reception
  is off, whoever holds packets frees one (weak): not even the answers to lwIP's probes
  arrive then, so that it gives up every connection with something to send, and drops
  what it cannot keep. While packets arrive, nobody need free any.
* `LoopTimer`: time passes and the timer is polled (weak).
* `Network`: `main` comes to its end (weak: the reset has a timeout); the link check,
  the DHCP process and lwIP's DHCP timer and address check run (weak); the
  PHY can be read again and again, if not always (weak fairness is of `LinkChecked`, the
  check that can read it). A retransmission waits until the
  DHCP process ran once: the client waits more than a second (but for the first
  retransmission after a reboot), the process runs twice a second. Nothing obliges the DHCP
  server, which may refuse for ever: that is an exception in the property, not a bound of the model.
* `DebugUartRx`: the task that reads goes on, and comes back for more (weak). Nothing
  is assumed of the other end, and nothing of the error interrupt, which need not come back.
* `DebugUartTx`: initialisation ends; the idle task goes on from each of its steps and
  the DMA and its interrupt do their work (weak); the service is called in every pass of
  the idle hook, however much is printed in between (strong). Nothing is assumed of
  errors.
* `MqttClient`: what may fail does not fail for ever when it is tried again and again
  (strong): a connection attempt, its establishment and acceptance, the sending of
  publications, and, for every subscription, a request and a granted answer. Connections
  may be lost for ever.
* `TcpServer`: what is queued at a window that is open again and again is acknowledged, or
  lwIP gives the connection up (strong: whenever the window is open lwIP sends, and only
  an acknowledgement of new data resets its count of retransmissions). A window that stays
  shut obliges nobody. A poll that could make progress is not starved of
  memory for ever (strong: memory may be short at any particular poll). Nothing
  obliges a peer to send, close or fail.

## 4. The proofs

**`EthTxRing_proofs`**: for every ring size, set of packets, chain lengths and
hardware variant (assumptions: at least one descriptor, chains not empty).

The invariants do not follow from one another step by step, so they are proved
together with two more conjuncts: `RoomForOutput` (the frame being written fits the
descriptors still free, which is what the check at the beginning of `lowLevelOutput`
buys for the whole loop) and `FramesClosed` (every used descriptor is followed, within
the used ones, by the one that ends its frame, which holds the packet's reference, or
the frame is still being written). The set `InUse` of used descriptors is the key:
`InUseGrows` and `InUseShrinks` say that filling and releasing add and remove exactly
one index, so that the cardinalities of `RefsExact` move by one with the reference
counts. From `Inductive` follow

* `TypeCorrect`, `CountersAgree`, `ReferencesExact`,
* `DmaReadsHeldBuffers`: no descriptor the DMA owns names a buffer that was freed,
* `InUseNotRewritten`: an action property, from the same invariant,
* `DoorbellReachesDma`: with a second invariant, that the descriptors the DMA owns
  are the last ones in use, from its own position up to the end, and that the tail
  pointer is where the driver will write next,
* `QueueImplemented`: the ring implements `TxQueue`, step by step.

The last one sees the descriptors in use as a sequence (`InOrder`). Its invariant, `QInv`,
says that these are whole frames, one after the other, but for what `lowLevelOutput` has
not filled yet (`Lined`); that the DMA has processed the first n of them and stands at the
next one; and that `frame`, what it has read since the last one it completed, is the
beginning of the frame it is in (`Reached`). TLC checked `QInv` on the configurations of
`tx_ring` and `tx_ring_long` before it was proved. The queue is what `FramesOf` collects
from the sequence, a recursive function: that the recursion has a solution
(`FramesOfIs`), and how the result changes when a descriptor is added, released or
processed, is proved by induction over the natural numbers as a fact about sets (`Numbers`).

The theorem has a hypothesis, `FlagsHarmless`: the write-back clears FD and LD, or no
packet has more than two buffers, so that every frame fits one descriptor. Without it
the statement is false, which is the restriction of section 3: with flags left over from an earlier
frame a longer one goes out in pieces. Each run of the ring satisfies one side of it.

**`EthRxPool_proofs`**: for any number of buffers and descriptors and any frames that fit.
Two invariants carry it. The first, `Orders`, is about the stream of parts: `partial`,
`filled` and `arriving`, one after the other, are consecutive parts of consecutive frames,
and `partial` is whole only while it is about to be handed over. From it follow the types
(`RxTypeCorrect`; the length of a buffer is that of a part, which has to exist) and
`WholeFramesOnly`. The second is `BuffersConserved` itself: `InDriver` concatenates
`partial`, `filled`, `armed` and `pool`, and receiving, reading and allocating each move
one buffer from the head of one part to the end of the one before, which leaves the
concatenation as it is; only `HandOver` and `Free` take from it or give to it
(`EveryBufferOnce`). `OffIsTemporary` is a pigeonhole argument on top: with the pool empty
and no packet held or whole, all buffers would be in descriptors and in a packet still
being linked; but a descriptor lacks one, and an incomplete packet has too few
(`RoomAssumption`).

**`LoopTimer_proofs`**: for every modulus, expiry and polling interval, the ticks stay in
range (`TicksStayInRange`), the two that are compared tell the time (`TimeIsTold`), and
the timer is exact where nothing wraps (`ExactWhenNothingWraps`). The inductive invariant
is the type and `TicksTellElapsed`.

**`Network_proofs`**: `NetworkTypes`, `LinkIsKnown`, `MacModeIsThePhys`, `WaitHasClient`.
The third is not inductive as it stands: the mode could change while the interface is up.
`LossIsLatched` is the missing part: an interface that is up over a PHY that is not has
the loss latched, so the next check sees it first. Reads of the latch by a driver that
settled on a wrong address do not happen, which is why both say "if the PHY was found".
`WaitHasClient` rests on the types and is inductive by itself: once there is a client,
nothing but `dhcpProcess` itself sets the static address.

**`MqttClient_proofs`**: `NoneLostSilently` is inductive with types: losing the
connection makes it vacuous, and the acceptance that would make it bite again subscribes
everything, setting each flag to what the request came to. `WholeMessagesOnly` needs what
holds in the middle of a message (`InProgress`): its subscription is the active one, and
the buffer holds what has come, as far as it fits. `PortionCopied`
says what one call of `incomingData` makes of it. `TypesKept` needs one fact more than
the types, that free requests, pending ones and publications add up to the pool: a sum
over the subscriptions, which one request or one answer changes in one term.

**`DebugUartTx_proofs`**: the invariant states, instead of the sequences, which number the
i-th byte of each buffer has (`InBuffer`, `InStream`) and in which phases the DMA buffer
is in use (`Phases`); the concatenation of `OnceInOrder` is then one lemma
(`BuffersHold`).

**`TcpServer_proofs`**: for any numbers of connections, control blocks and buffers.

* `CallbacksFindTheirConnection`. What the server does to packets and queues does not
  touch what `LiveControlBlocks` speaks of: `Alike` is that, and each function of the server
  preserves it or has one of the outcomes of close and error (`Outcome`). The
  strengthening is that a free control block has nothing queued.
* `TypesKept` and `BuffersAccounted`. The invariant (`Kept(b)`, for some b) gives every
  connection a sequence of buffers: no buffer is in two places of b, each is referenced
  once and linked to the one after it, every other buffer is free (`Backed`), and each
  `writeBuffer` is where its sequence begins (`Fronts`). With it go the types, that only
  established connections receive data, and that a connection not used yet is new. TLC
  checked it first, with the backlogs for b.
* `EchoImplemented`: the server implements `EchoService`, with b for what is pending.

`ChainOf` and `PbufFree` follow the links of a chain recursively, and their definitions say
nothing as long as it is not known that the recursion ends. Links without a cycle are
`Ranked`; along them every such recursion has a solution, by well-founded induction on
the rank (`RecursionSolved`), and buffers linked in sequences that do not meet are ranked
(`LinkedRanked`). From there each function is described by what it makes of the sequence:
`PbufFree` frees its members up to the first that somebody else holds (`PbufFreeRun`), and
`WriteToTcp` moves a beginning of it to the control block's queue (`WriteToTcpIs`).

**`DebugUartRx_proofs`**: for every ring size, set of read sizes and number of bytes and
errors, the pointers stay within the ring (`RxTypeCorrect`) and the reader gets the
stream (`StreamRead`). The invariant adds three conjuncts to the type: `PointersAgree`
(the tail is the head plus the size), `NewestBehind` (the cells behind the DMA hold its
last bytes, back to the restart or a whole turn) and `InOneLap` (unless torn, what waits
and what has not been looked at fit one turn, and all of it came after the restart).
`WaitingAreNext` draws the conclusion: the cell a copy takes its i-th byte from lies
behind the DMA by exactly the distance that makes it the i-th byte of the stream.

Every theorem's assumptions are the named ASSUMEs of its module, and none of them is
about the environment's behaviour; `QueueImplemented` alone has a hypothesis besides
(`FlagsHarmless`, above).

Every invariant, action property and refinement that a passing run checks is proved. Left to
TLC is everything under fairness, which the prover cannot do: `DescriptorsComeBack`,
`ReceivedIsRead`, `WrapIsLeftBehind`, `LinkFollowsPhy`, `WaitEndsInAddress`,
`ClosingCloses`, `BacklogMoves`, `ReadReturns`, `Resynchronises`, `SubscribesAgain`,
`EverythingLeaves`.

## 5. What is not modelled, and why

* Data: payloads, lengths on the wire, addresses, MQTT and TCP headers. TCP itself is
  lwIP's and modelled as its callbacks and return values.
* The arms of `recv` for a call with an error and those for a control block that does not
  match: lwIP calls `recv` with `ERR_OK` only, and the mismatch arms are unreachable
  (`LiveControlBlocks`). The arm of `accept` without a control block calls `tcp_close` and
  `tcp_abort` on null, which in lwIP 2.2 return without effect.
* A failing `dhcp_start`, whose result the code ignores: the client is allocated once,
  right after boot.
* What lwIP does after a callback aborted its own control block and returned `ERR_OK`:
  `tcp_close` of lwIP 2.2 returns only `ERR_OK` and `ERR_MEM`, after which the code aborts
  nothing. What the server's own state becomes is modelled (`CloseErrors`).
* The composition of `Network` with `EthTxRing` (frames sent without a link) and of
  `EthRxPool` with `TcpServer` beyond the shared buffers: their product has no behaviour
  that the parts, which leave each other's choices open, do not have.
* MQTT: what an application does with the result of a publication; only the
  bare-metal `main` creates an `MqttClient`, so `MqttClient` starts from one whose `init` succeeded.
* The stop and restart of reception by the link check (`Ethernetif.cpp:438, 473`), with what
  the HAL then does to the receive descriptors: `EthRxPool` has the link up, `EthTxRing`
  and `Network` have the check's effect on the transmitter and on the MAC.
* An error interrupt in the middle of `HAL_UART_Transmit_DMA` (`DebugUart.cpp:84`), between its
  change of `gState` and the start of the DMA: what the HAL's registers then hold is the
  HAL's. `Transmit` is one step, and the error comes before or after it.
* Cache maintenance, memory barriers (the code has them where the model assumes order),
  pin and clock registers, vectors, start-up, syscalls, the linker script, mocks and tests.
* `DmaTxBuffer.h` and the bare-metal `main`, which nothing builds.
* The blocking modes of the debug UART, which no configuration selects. The lock's "wait
  for ever" is a finite time in ticks and its result is not looked at (`Mutex.h:28`); with
  one task, only the error interrupt can meet the lock held, and that is modelled.

## 6. Order of the work, and what could follow

The modules were written from the wire upwards: the transmit ring, the server, the timer,
the network manager, the receive pool, the debug UART, the MQTT client. The proofs followed,
invariants first, then the two refinements. What is left for this prover is the safety half of the
liveness properties: the bounds that each of their arguments counts down.
