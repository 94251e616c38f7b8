---------------------------- MODULE DebugUartRx ----------------------------
(***************************************************************************)
(* The receive side of the debug UART: the DMA writes a ring in circular   *)
(* mode (src/src/stm32h7/DebugUart.cpp), and _read follows it by the       *)
(* counter of the DMA alone (src/src/utils/DmaRxBuffer.cpp).  Nothing      *)
(* stops the DMA from overtaking the reader, and the error interrupt       *)
(* restarts it at the beginning of the ring, or stops the system when it   *)
(* prints what happened.                                                   *)
(*                                                                         *)
(* Bytes are numbered as they arrive.                                      *)
(***************************************************************************)
EXTENDS Integers, Sequences

CONSTANTS
    sBufferSize,  \* size of the ring
    ReadSizes,    \* sizes a caller of _read may ask for
    MaxBytes,     \* bound: bytes that arrive
    MaxErrors     \* bound: errors of the UART

ASSUME SizeAssumption == sBufferSize \in Nat \ {0}
ASSUME ReadAssumption == ReadSizes \subseteq Nat \ {0}
ASSUME BoundsAssumption == MaxBytes \in Nat /\ MaxErrors \in Nat

VARIABLES
    cells,       \* mBuffer: the number of the byte in each cell
    pos,         \* where the DMA writes next: sBufferSize less its counter
    n,           \* bytes that arrived
    start,       \* bytes that had arrived when the DMA was last restarted
    errors,      \* errors so far
    sUartError,
    mHead, mTail, mSize,
    seen,        \* bytes that had arrived at the last updatePointers
    torn,        \* bytes were overwritten unread, or the DMA left the reader behind
    reader,      \* where _read is, or that the system has stopped
    size,        \* what it was asked for
    returned     \* the bytes it returned last

dma == <<cells, pos, n, start, errors>>
buffer == <<mHead, mTail, mSize, seen>>
call == <<reader, size, returned>>
vars == <<dma, sUartError, buffer, torn, call>>

Index == 0 .. sBufferSize - 1
Wrap(i) == IF i >= sBufferSize THEN i - sBufferSize ELSE i

Init ==
    /\ cells = [i \in Index |-> 0]
    /\ pos = 0 /\ n = 0 /\ start = 0 /\ errors = 0
    /\ sUartError = FALSE
    /\ mHead = 0 /\ mTail = 0 /\ mSize = 0 /\ seen = 0
    /\ torn = FALSE
    /\ reader = "idle" /\ size = 0 /\ returned = <<>>

-----------------------------------------------------------------------------
(* The DMA and the error interrupt *)

\* The bytes from the reader's tail on have not been looked at.
Unseen == n - seen

\* The reader's pointers still tell where the DMA is: no restart since the last
\* updatePointers, and no whole turn of the ring.
InStep ==
    /\ start <= seen
    /\ Unseen < sBufferSize
    /\ pos = Wrap(mTail + Unseen)

\* A byte is lost to the reader when it is overwritten, and when the DMA comes
\* round to the tail, since a full turn looks like none.
Receive ==
    /\ reader # "stopped"
    /\ n < MaxBytes
    /\ n' = n + 1
    /\ cells' = [cells EXCEPT ![pos] = n + 1]
    /\ pos' = Wrap(pos + 1)
    /\ torn' = \/ torn
               \/ Unseen + 1 >= sBufferSize
               \/ Unseen + 1 + mSize > sBufferSize
    /\ UNCHANGED <<start, errors, sUartError, buffer, call>>

\* debugUartTx, which the handler calls to say what the error was, does not come
\* back: once the scheduler runs, the kernel's assertion that it is called from a
\* task stops the system; before, it may wait for ever for its lock or for room.
PrintingStops ==
    /\ reader' = "stopped"
    /\ UNCHANGED <<pos, start, torn>>

\* HAL_UART_Receive_DMA
ReceiveRestarts ==
    /\ pos' = 0
    /\ start' = IF pos = 0 THEN start ELSE n
    /\ torn' = (torn \/ pos # 0)
    /\ UNCHANGED reader

\* uartErroHandler: HAL_UART_Abort, the flag, a message or two, the restart.
UartError ==
    /\ reader # "stopped"
    /\ errors < MaxErrors
    /\ errors' = errors + 1
    /\ sUartError' = TRUE
    /\ PrintingStops \/ ReceiveRestarts
    /\ UNCHANGED <<cells, n, buffer, size, returned>>

-----------------------------------------------------------------------------
(* DmaRxBuffer *)

\* How far the tail moves: modulo the size of the ring.
ChangeInSize == IF pos < mTail THEN pos - mTail + sBufferSize ELSE pos - mTail

\* Mutant: a counter that did not move counts as a full turn.
UpdatePointers_LapOnEqual ==
    LET change  == IF pos <= mTail THEN pos - mTail + sBufferSize ELSE pos - mTail
        newSize == mSize + change
    IN  [head |-> IF newSize > sBufferSize THEN pos ELSE mHead,
         tail |-> pos,
         size |-> IF newSize > sBufferSize THEN sBufferSize ELSE newSize]

\* Mutant: the tail stays when the ring is overrun.
UpdatePointers_TailKept ==
    LET newSize == mSize + ChangeInSize
    IN  IF newSize > sBufferSize
        THEN [head |-> pos, tail |-> mTail, size |-> sBufferSize]
        ELSE [head |-> mHead, tail |-> pos, size |-> newSize]

\* updatePointers; of an overrun ring the newest bytes are kept.
UpdatePointers ==
    LET newSize == mSize + ChangeInSize
    IN  [head |-> IF newSize > sBufferSize THEN pos ELSE mHead,
         tail |-> pos,
         size |-> IF newSize > sBufferSize THEN sBufferSize ELSE newSize]

\* Mutant: a full ring is taken for an empty one.
AvailableAtEnd_FullIsEmpty ==
    IF mSize = 0 \/ mHead <= mTail THEN mTail - mHead ELSE sBufferSize - mHead

AvailableAtEnd ==
    IF mSize = 0 \/ mHead < mTail THEN mTail - mHead ELSE sBufferSize - mHead

CopySize == IF AvailableAtEnd < size THEN AvailableAtEnd ELSE size

\* Mutant: the head runs off the end of the ring.
HeadAfterCopy_NoWrap == mHead + CopySize

HeadAfterCopy == IF mHead + CopySize = sBufferSize THEN 0 ELSE mHead + CopySize

-----------------------------------------------------------------------------
(* _read, by the task that calls scanf.  The DMA goes on between any two   *)
(* of its steps; one that writes into what copy is reading has overtaken   *)
(* the reader, so that the copy can be one step.                           *)

BeginRead ==
    /\ reader = "idle"
    /\ size' \in ReadSizes
    /\ sUartError' = FALSE
    /\ reader' = "poll"
    /\ UNCHANGED <<dma, buffer, torn, returned>>

\* The counter is read, and the pointers follow it.
Poll ==
    /\ reader = "poll"
    /\ LET r == UpdatePointers
       IN  /\ mHead' = r.head /\ mTail' = r.tail /\ mSize' = r.size
           /\ torn' = /\ torn
                      /\ r.size # 0
                      /\ ~(r.size = sBufferSize /\ n - start >= sBufferSize)
    /\ seen' = n
    /\ reader' = "copy"
    /\ UNCHANGED <<dma, sUartError, size, returned>>

\* Bytes were copied or an error is flagged and _read returns; or it polls again.
AfterCopy == IF CopySize > 0 \/ sUartError THEN "idle" ELSE "poll"

Copy ==
    /\ reader = "copy"
    /\ mHead' = HeadAfterCopy
    /\ mSize' = mSize - CopySize
    /\ returned' = [i \in 1 .. CopySize |-> cells[mHead + i - 1]]
    /\ torn' = (torn /\ ~(mSize = CopySize /\ InStep))
    /\ reader' = AfterCopy
    /\ UNCHANGED <<dma, sUartError, mTail, seen, size>>

Read == Poll \/ Copy

Next == Receive \/ UartError \/ BeginRead \/ Read

Spec == Init /\ [][Next]_vars

\* The task that reads goes on, and comes back for more.
FairSpec == Spec /\ WF_vars(Read) /\ WF_vars(BeginRead)

-----------------------------------------------------------------------------
(* Properties *)

\* The shape of the state.
TypeOK ==
    /\ cells \in [Index -> Nat]
    /\ pos \in Index
    /\ n \in Nat /\ start \in 0 .. n /\ errors \in 0 .. MaxErrors
    /\ sUartError \in BOOLEAN
    /\ mHead \in Index /\ mTail \in Index /\ mSize \in 0 .. sBufferSize
    /\ seen \in 0 .. n
    /\ torn \in BOOLEAN
    /\ reader \in {"idle", "poll", "copy", "stopped"}
    /\ size \in ReadSizes \cup {0}
    /\ reader \in {"poll", "copy"} => size \in ReadSizes
    /\ returned \in Seq(Nat)

\* The byte the reader is to get next.
NextByte == seen - mSize + 1

(***************************************************************************)
(* As long as the DMA has not overtaken the reader nor was restarted, the  *)
(* reader gets the bytes that arrived, each once and in order: a copy      *)
(* returns the next ones, and nothing else moves the reader's place        *)
(* (DmaRxBuffer.h:8-9, DmaRxBuffer.cpp:7-35).                              *)
(***************************************************************************)
ReadsTheStream ==
    [][~torn =>
          IF reader = "copy" /\ reader' \in {"idle", "poll"}
          THEN /\ returned' = [i \in 1 .. Len(returned') |-> NextByte + i - 1]
               /\ NextByte' = NextByte + Len(returned')
          ELSE NextByte' = NextByte]_vars

\* All that _read looks at is the DMA's counter, and it is where it was.
CounterUnmoved == mSize = 0 /\ pos = mTail

(***************************************************************************)
(* A call of _read returns once something arrived or an error occurred     *)
(* (DebugUart.cpp:287-300), with two exceptions: the error's interrupt     *)
(* stops the system when it prints (DebugUart.cpp:94-111), or the counter  *)
(* of the DMA stands for ever where the reader saw it last although bytes  *)
(* arrived, exactly one lap of them or so many as a restart took away: for *)
(* these, _read polls for ever (DmaRxBuffer.cpp:22-24).                    *)
(***************************************************************************)
ReadReturns ==
    (reader \in {"poll", "copy"} /\ (Unseen > 0 \/ sUartError)) ~>
        (reader \in {"idle", "stopped"} \/ [](CounterUnmoved /\ ~sUartError))

(***************************************************************************)
(* What an overrun or a restart does to the stream passes: when the other  *)
(* end pauses, a task that reads on is in step with the DMA again, unless  *)
(* an error's interrupt stopped the system when it printed.                *)
(***************************************************************************)
Resynchronises == torn ~> (~torn \/ reader = "stopped")
=============================================================================
