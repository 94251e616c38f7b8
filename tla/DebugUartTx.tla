---------------------------- MODULE DebugUartTx ----------------------------
(***************************************************************************)
(* The transmit half of src/src/stm32h7/DebugUart.cpp: printf ends in      *)
(* _write, which puts the bytes into a FreeRTOS stream buffer; the idle    *)
(* hook moves up to a DMA buffer of them at a time to the UART.  The idle  *)
(* task is the only one there is; it prints and services, and interrupts   *)
(* preempt it between any two steps.                                       *)
(*                                                                         *)
(* FreeRTOS, the HAL and the DMA are modelled as the code uses them.       *)
(* Bytes are numbered in the order the stream buffer took them.            *)
(***************************************************************************)
EXTENDS Integers, Sequences

CONSTANTS
    BufferSize,    \* what sStreamBuffer holds
    TxBufferSize,  \* the size of sTxBuffer1
    Lengths,       \* lengths of what is printed
    ErrorLength,   \* length of the message the error interrupt prints
    MaxBytes,      \* bound: bytes printed
    MaxErrors      \* bound: errors of the UART

ASSUME SizesAssumption ==
    /\ BufferSize \in Nat /\ TxBufferSize \in Nat \ {0}
    /\ Lengths \subseteq Nat \ {0} /\ ErrorLength \in Nat \ {0}
ASSUME BoundsAssumption == MaxBytes \in Nat /\ MaxErrors \in Nat

VARIABLES
    pc,          \* where main's initialisation, then the idle task is; "halted":
                 \* the former loops for ever, "stopped": the latter does not run
    size,        \* what it is printing, or has received
    stream,      \* sStreamBuffer
    sTxBuffer1,
    gState,      \* of sHuart
    sent,        \* bytes of sTxBuffer1 the DMA has read
    written,     \* bytes the stream buffer took up to now
    next,        \* the byte the line is to carry next
    line,        \* the byte it carried last
    errors

task == <<pc, size>>
uart == <<sTxBuffer1, gState, sent>>
vars == <<task, stream, uart, written, next, line, errors>>

\* main has called Base::init, and no interrupt of the UART is enabled.
Init ==
    /\ pc = "oscillator"
    /\ size = 0
    /\ stream = <<>>
    /\ sTxBuffer1 = <<>>
    /\ gState = "RESET"
    /\ sent = 0
    /\ written = 0
    /\ next = 1
    /\ line = 0
    /\ errors = 0

\* Before its interrupts are enabled, the initialisation goes from one call of the
\* HAL that may fail to the next; when one fails it loops for ever, and nobody is
\* told.
Booting == {"oscillator", "clocks", "uart", "txDma", "rxDma", "interrupts"}

Configured(here, then) ==
    /\ pc = here
    /\ pc' \in {then, "halted"}
    /\ UNCHANGED <<size, stream, sTxBuffer1, sent, written, next, line, errors>>

\* systemClockConfig: the supply, and HAL_RCC_OscConfig, ...
OscillatorConfig == Configured("oscillator", "clocks") /\ UNCHANGED gState

\* ... then HAL_RCC_ClockConfig.
ClockConfig == Configured("clocks", "uart") /\ UNCHANGED gState

\* debugUartInit: the pins, and HAL_UART_Init, ...
UartInit ==
    /\ Configured("uart", "txDma")
    /\ gState' = IF pc' = "halted" THEN gState ELSE "READY"

\* ... HAL_DMA_Init for the transmitter, and for the receiver, ...
TxDmaInit == Configured("txDma", "rxDma") /\ UNCHANGED gState

RxDmaInit == Configured("rxDma", "interrupts") /\ UNCHANGED gState

\* ... the callback and the interrupts, and the start of the reception, whose
\* result is not looked at.
EnableInterrupts ==
    /\ pc = "interrupts"
    /\ pc' = "loop"
    /\ UNCHANGED <<size, stream, uart, written, next, line, errors>>

\* Base::init; the memory protection and the caches cannot fail.
BaseInit ==
    \/ OscillatorConfig \/ ClockConfig
    \/ UartInit \/ TxDmaInit \/ RxDmaInit \/ EnableInterrupts

-----------------------------------------------------------------------------
(* Printing *)

\* Bytes first + 1 to first + n.
Bytes(first, n) == [i \in 1 .. n |-> first + i]

\* _write, and debugUartTx as far as the mutex.
BeginWrite ==
    /\ pc = "loop"
    /\ \E n \in Lengths :
          /\ written + n <= MaxBytes
          /\ size' = n
    /\ pc' = "locked"
    /\ UNCHANGED <<stream, uart, written, next, line, errors>>

\* Mutant: the buffer is taken to have room.
Put_NoRoomCheck(n, then) ==
    /\ stream' = stream \o Bytes(written, n)
    /\ written' = written + n
    /\ pc' = then

\* sStreamBuffer.send: without room for all of it the caller waits for somebody
\* to make some.  Nobody but the idle task does, and without it nothing runs.
Put(n, then) ==
    IF n <= BufferSize - Len(stream)
    THEN /\ stream' = stream \o Bytes(written, n)
         /\ written' = written + n
         /\ pc' = then
    ELSE /\ pc' = "stopped"
         /\ UNCHANGED <<stream, written>>

Send ==
    /\ pc = "locked"
    /\ Put(size, "sent")
    /\ UNCHANGED <<size, uart, next, line, errors>>

Unlock ==
    /\ pc = "sent"
    /\ pc' = "loop"
    /\ UNCHANGED <<size, stream, uart, written, next, line, errors>>

-----------------------------------------------------------------------------
(* debugUartService, in which an interrupt may come between any two steps  *)

\* Mutant: the transfer in progress is not waited for.
Ready_Always == gState # "RESET"

Ready == gState # "BUSY_TX"

BeginService ==
    /\ pc = "loop"
    /\ Ready
    /\ pc' = "receive"
    /\ UNCHANGED <<size, stream, uart, written, next, line, errors>>

Receive ==
    /\ pc = "receive"
    /\ LET n == IF Len(stream) < TxBufferSize THEN Len(stream) ELSE TxBufferSize
       IN  /\ size' = n
           /\ IF n = 0 THEN UNCHANGED sTxBuffer1
              ELSE sTxBuffer1' = SubSeq(stream, 1, n)
           /\ stream' = SubSeq(stream, n + 1, Len(stream))
           /\ pc' = IF n = 0 THEN "loop" ELSE "transmit"
    /\ UNCHANGED <<gState, sent, written, next, line, errors>>

\* HAL_UART_Transmit_DMA, which does nothing but on a UART that is ready.  It is
\* one step: an error's interrupt comes before it or after it.
Transmit ==
    /\ pc = "transmit"
    /\ pc' = "loop"
    /\ IF gState = "READY" THEN gState' = "BUSY_TX" /\ sent' = 0
       ELSE UNCHANGED <<gState, sent>>
    /\ UNCHANGED <<size, stream, sTxBuffer1, written, next, line, errors>>

-----------------------------------------------------------------------------
(* The DMA, the UART, and their interrupts *)

DmaSends ==
    /\ gState = "BUSY_TX"
    /\ sent < Len(sTxBuffer1)
    /\ line' = sTxBuffer1[sent + 1]
    /\ sent' = sent + 1
    /\ next' = next + 1
    /\ UNCHANGED <<task, stream, sTxBuffer1, gState, written, errors>>

\* DMA1_Stream0_IRQHandler and USART3_IRQHandler: the transfer is complete.
TransmitComplete ==
    /\ pc # "stopped"
    /\ gState = "BUSY_TX"
    /\ sent = Len(sTxBuffer1)
    /\ gState' = "READY"
    /\ UNCHANGED <<task, stream, sTxBuffer1, sent, written, next, line, errors>>

\* Mutant: only the receiver is aborted, and the transmitter's DMA with it.
Abort_GStateKept ==
    /\ next' = IF gState = "BUSY_TX" THEN next + Len(sTxBuffer1) - sent ELSE next
    /\ sent' = IF gState = "BUSY_TX" THEN Len(sTxBuffer1) + 1 ELSE sent
    /\ UNCHANGED gState

\* HAL_UART_Abort: what is left of the transfer in progress never goes out.
Abort ==
    IF gState = "BUSY_TX"
    THEN /\ gState' = "READY"
         /\ next' = next + Len(sTxBuffer1) - sent
         /\ UNCHANGED sent
    ELSE UNCHANGED <<gState, next, sent>>

\* uartErroHandler prints from an interrupt.  The kernel's assertion that it is
\* called from a task may stop the system; if it does not, the mutex may be held
\* by the task that is interrupted, and is waited for in vain.
UartError ==
    /\ pc \notin Booting \cup {"halted", "stopped"}
    /\ errors < MaxErrors
    /\ errors' = errors + 1
    /\ Abort
    /\ \/ pc' = "stopped" /\ UNCHANGED <<stream, written>>
       \/ pc \notin {"locked", "sent"} /\ Put(ErrorLength, pc)
    /\ UNCHANGED <<size, sTxBuffer1, line>>

-----------------------------------------------------------------------------
\* Base::service
Service == BeginService \/ Receive \/ Transmit

\* vApplicationIdleHook: the service, and the network, which prints.
IdleHook == Service \/ BeginWrite \/ Send \/ Unlock

Next ==
    \/ BaseInit
    \/ IdleHook
    \/ DmaSends \/ TransmitComplete \/ UartError

Spec == Init /\ [][Next]_vars

(***************************************************************************)
(* The idle hook services the UART in every pass, and goes on from each of *)
(* its steps; the hardware transmits and interrupts.                       *)
(***************************************************************************)
FairSpec ==
    /\ Spec
    /\ WF_vars(BaseInit)
    /\ WF_vars(Send) /\ WF_vars(Unlock)
    /\ SF_vars(BeginService)
    /\ WF_vars(Receive) /\ WF_vars(Transmit)
    /\ WF_vars(DmaSends) /\ WF_vars(TransmitComplete)

-----------------------------------------------------------------------------
(* Properties *)

\* The shape of the state: the buffers stay within their sizes.
TypeOK ==
    /\ pc \in Booting \cup {"halted", "loop", "locked", "sent", "receive",
                             "transmit", "stopped"}
    /\ size \in Nat
    /\ stream \in Seq(Nat) /\ Len(stream) <= BufferSize
    /\ sTxBuffer1 \in Seq(Nat) /\ Len(sTxBuffer1) <= TxBufferSize
    /\ gState \in {"RESET", "READY", "BUSY_TX"}
    /\ sent \in 0 .. TxBufferSize
    /\ written \in Nat /\ next \in Nat /\ line \in Nat
    /\ errors \in 0 .. MaxErrors

\* What has left the stream buffer and has still to go out.
Buffered ==
    IF pc = "transmit" THEN sTxBuffer1
    ELSE IF gState = "BUSY_TX" THEN SubSeq(sTxBuffer1, sent + 1, Len(sTxBuffer1))
    ELSE <<>>

(***************************************************************************)
(* What was printed goes out once and in order: the DMA buffer and the     *)
(* stream buffer hold, one after the other, exactly the bytes that have    *)
(* still to go out.  Only the rest of a transfer that an error aborts is   *)
(* lost; the DMA buffer is not filled again while it is read               *)
(* (DebugUart.cpp:79-93).                                                  *)
(***************************************************************************)
OnceInOrder ==
    /\ pc # "stopped" => Buffered \o stream = Bytes(next - 1, written - next + 1)
    /\ line < next

(***************************************************************************)
(* All that the stream buffer took leaves it and goes out, or is lost to   *)
(* an error, unless the system stops: no interrupt, however it falls into  *)
(* debugUartService, leaves the transmitter idle or busy for ever.         *)
(***************************************************************************)
EverythingLeaves ==
    \A n \in 1 .. MaxBytes + MaxErrors * ErrorLength :
        written >= n ~> (next > n \/ pc = "stopped")

(***************************************************************************)
(* "Transmits a debug message. Non-blocking operation." (Base.h:50).       *)
(* Without an error of the UART, printing does not stop the system.        *)
(***************************************************************************)
NonBlocking == pc = "stopped" => errors > 0
=============================================================================
