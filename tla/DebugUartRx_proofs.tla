------------------------ MODULE DebugUartRx_proofs -------------------------
(***************************************************************************)
(* The reader of the debug UART gets the stream, for every size of the     *)
(* ring, every pattern of reads and every number of bytes and errors: the  *)
(* counter of the DMA is enough to follow it by, as long as it does not    *)
(* come round.                                                             *)
(***************************************************************************)
EXTENDS DebugUartRx, TLAPS

\* The cell the DMA wrote j bytes ago.
Back(j) == IF pos >= j THEN pos - j ELSE pos - j + sBufferSize

\* Head, tail and size tell the same thing.
PointersAgree == mTail = Wrap(mHead + mSize)

\* Behind the DMA lie the bytes it wrote since it was last restarted.
NewestBehind ==
    \A j \in 1 .. sBufferSize : j <= n - start => cells[Back(j)] = n + 1 - j

\* Nothing that waits was overwritten, and all of it came after the restart.
InOneLap ==
    ~torn => /\ InStep
             /\ Unseen + mSize <= sBufferSize
             /\ start <= seen - mSize

RxInv == TypeOK /\ PointersAgree /\ NewestBehind /\ InOneLap

-----------------------------------------------------------------------------

LEMMA RxInit == Init => RxInv
  BY SizeAssumption, BoundsAssumption
     DEF Init, RxInv, TypeOK, PointersAgree, NewestBehind, InOneLap, InStep, Unseen,
         Wrap, Index

\* What copy takes is there, in one piece.
LEMMA CopyFits ==
  ASSUME TypeOK, PointersAgree
  PROVE  /\ AvailableAtEnd \in 0 .. mSize
         /\ mHead + AvailableAtEnd <= sBufferSize
         /\ CopySize \in 0 .. mSize
         /\ mHead + CopySize <= sBufferSize
         /\ CopySize \in Nat
  <1>1. AvailableAtEnd \in 0 .. mSize /\ mHead + AvailableAtEnd <= sBufferSize
    BY SizeAssumption DEF TypeOK, PointersAgree, AvailableAtEnd, Wrap, Index
  <1>2. size \in Nat
    BY ReadAssumption DEF TypeOK
  <1>3. mSize \in Nat /\ mHead \in Nat
    BY SizeAssumption DEF TypeOK, Index
  <1>. QED
    BY <1>1, <1>2, <1>3, SizeAssumption DEF CopySize

\* What updatePointers makes of the pointers.
LEMMA PointersUpdated ==
  ASSUME TypeOK, PointersAgree
  PROVE  /\ UpdatePointers.head \in Index
         /\ UpdatePointers.tail = pos
         /\ UpdatePointers.size \in 0 .. sBufferSize
         /\ pos = Wrap(UpdatePointers.head + UpdatePointers.size)
         /\ InStep /\ Unseen + mSize <= sBufferSize =>
                UpdatePointers.size = mSize + Unseen
  BY SizeAssumption
     DEF TypeOK, PointersAgree, UpdatePointers, ChangeInSize, Wrap, Index, InStep, Unseen

LEMMA ReceiveKeeps == RxInv /\ Receive => RxInv'
  <1>. SUFFICES ASSUME RxInv, Receive PROVE RxInv'
    OBVIOUS
  <1>. USE DEF RxInv, Receive, dma, buffer, call
  <1>1. TypeOK'
    BY SizeAssumption DEF TypeOK, Index, Wrap
  <1>2. PointersAgree'
    BY DEF PointersAgree, Wrap
  <1>3. NewestBehind'
    <2>. SUFFICES ASSUME NEW j \in 1 .. sBufferSize, j <= n + 1 - start
                  PROVE  cells'[Back(j)'] = n + 2 - j
      BY DEF NewestBehind, TypeOK
    <2>. /\ pos \in Index /\ n \in Nat /\ start \in 0 .. n
         /\ cells \in [Index -> Nat] /\ cells' = [cells EXCEPT ![pos] = n + 1]
         /\ pos' = Wrap(pos + 1)
      BY DEF TypeOK
    <2>1. CASE j = 1
      <3>1. Back(j)' = pos
        BY <2>1, SizeAssumption DEF Back, Wrap, Index
      <3>. QED  BY <3>1, <2>1
    <2>2. CASE j # 1
      <3>1. j - 1 \in 1 .. sBufferSize /\ j - 1 <= n - start
        BY <2>2, SizeAssumption
      <3>2. Back(j)' = Back(j - 1) /\ Back(j - 1) \in Index \ {pos}
        BY <2>2, SizeAssumption DEF Back, Wrap, Index
      <3>3. cells[Back(j - 1)] = n + 1 - (j - 1)
        BY <3>1 DEF NewestBehind
      <3>4. cells'[Back(j)'] = cells[Back(j - 1)]
        BY <3>2
      <3>. QED  BY <3>3, <3>4, SizeAssumption
    <2>. QED  BY <2>1, <2>2
  <1>4. InOneLap'
    BY SizeAssumption DEF InOneLap, InStep, Unseen, Wrap, TypeOK, Index
  <1>. QED  BY <1>1, <1>2, <1>3, <1>4

LEMMA UartErrorKeeps == RxInv /\ UartError => RxInv'
  <1>. SUFFICES ASSUME RxInv, UartError PROVE RxInv'
    OBVIOUS
  <1>0. /\ UNCHANGED <<cells, n, mHead, mTail, mSize, seen, size, returned>>
        /\ errors' \in 0 .. MaxErrors /\ sUartError' \in BOOLEAN
    BY BoundsAssumption DEF RxInv, TypeOK, UartError, buffer
  <1>1. CASE PrintingStops
    <2>1. UNCHANGED <<pos, start, torn>> /\ reader' = "stopped"
      BY <1>1 DEF PrintingStops
    <2>. QED
      BY <1>0, <2>1 DEF RxInv, TypeOK, PointersAgree, NewestBehind, Back, InOneLap,
                        InStep, Unseen, Wrap
  <1>2. CASE ReceiveRestarts
    <2>. USE DEF RxInv, ReceiveRestarts
    <2>1. TypeOK'
      BY <1>0, <1>2, SizeAssumption DEF TypeOK, Index
    <2>2. PointersAgree'
      BY <1>0, <1>2 DEF PointersAgree, Wrap
    <2>3. NewestBehind'
      <3>1. CASE pos = 0
        BY <1>0, <1>2, <3>1 DEF NewestBehind, Back
      <3>2. CASE pos # 0
        BY <1>0, <1>2, <3>2, SizeAssumption DEF NewestBehind, TypeOK
      <3>. QED  BY <3>1, <3>2
    <2>4. InOneLap'
      BY <1>0, <1>2 DEF InOneLap, InStep, Unseen, Wrap
    <2>. QED  BY <2>1, <2>2, <2>3, <2>4
  <1>. QED  BY <1>1, <1>2 DEF UartError

LEMMA BeginReadKeeps == RxInv /\ BeginRead => RxInv'
  <1>. SUFFICES ASSUME RxInv, BeginRead PROVE RxInv'
    OBVIOUS
  <1>. USE DEF RxInv, BeginRead, dma, buffer
  <1>1. TypeOK'
    BY DEF TypeOK
  <1>2. PointersAgree' /\ NewestBehind'
    BY DEF PointersAgree, NewestBehind, Back, Wrap
  <1>3. InOneLap'
    BY DEF InOneLap, InStep, Unseen, Wrap
  <1>. QED  BY <1>1, <1>2, <1>3

LEMMA PollKeeps == RxInv /\ Poll => RxInv'
  <1>. SUFFICES ASSUME RxInv, Poll PROVE RxInv'
    OBVIOUS
  <1>0. /\ mHead' = UpdatePointers.head /\ mTail' = pos
        /\ mSize' = UpdatePointers.size /\ seen' = n
        /\ UNCHANGED <<cells, pos, n, start, errors, sUartError, size, returned>>
        /\ reader' = "copy" /\ reader = "poll"
        /\ torn' = (torn /\ UpdatePointers.size # 0
                         /\ ~(UpdatePointers.size = sBufferSize /\ n - start >= sBufferSize))
        /\ mHead' \in Index /\ mSize' \in 0 .. sBufferSize
        /\ pos = Wrap(mHead' + mSize')
    BY PointersUpdated DEF RxInv, Poll, dma
  <1>1. TypeOK'
    BY <1>0 DEF RxInv, TypeOK
  <1>2. PointersAgree'
    BY <1>0 DEF PointersAgree, Wrap
  <1>3. NewestBehind'
    BY <1>0 DEF RxInv, NewestBehind, Back
  <1>4. InOneLap'
    <2>. SUFFICES ASSUME ~torn' PROVE InStep' /\ (Unseen + mSize <= sBufferSize)'
                                              /\ (start <= seen - mSize)'
      BY DEF InOneLap
    <2>1. InStep' /\ Unseen' = 0
      BY <1>0, SizeAssumption DEF RxInv, TypeOK, InStep, Unseen, Wrap, Index
    <2>2. start <= n - mSize'
      <3>1. CASE ~torn
        <4>1. mSize' = mSize + Unseen
          BY <1>0, <3>1, PointersUpdated DEF RxInv, InOneLap
        <4>. QED
          BY <3>1, <4>1, SizeAssumption DEF RxInv, InOneLap, Unseen, TypeOK
      <3>2. CASE mSize' = 0
        BY <3>2 DEF RxInv, TypeOK
      <3>3. CASE mSize' = sBufferSize /\ n - start >= sBufferSize
        BY <3>3, SizeAssumption DEF RxInv, TypeOK
      <3>. QED  BY <1>0, <3>1, <3>2, <3>3
    <2>. QED
      BY <1>0, <2>1, <2>2, SizeAssumption DEF Unseen
  <1>. QED  BY <1>1, <1>2, <1>3, <1>4 DEF RxInv

LEMMA CopyKeeps == RxInv /\ Copy => RxInv'
  <1>. SUFFICES ASSUME RxInv, Copy PROVE RxInv'
    OBVIOUS
  <1>0. /\ CopySize \in 0 .. mSize /\ mHead + CopySize <= sBufferSize
        /\ CopySize \in Nat /\ mSize \in 0 .. sBufferSize /\ mHead \in Index
    BY CopyFits DEF RxInv, TypeOK
  <1>1. /\ mHead' = HeadAfterCopy /\ mSize' = mSize - CopySize
        /\ UNCHANGED <<cells, pos, n, start, errors, sUartError, mTail, seen, size>>
        /\ reader' = AfterCopy
        /\ torn' = (torn /\ ~(mSize = CopySize /\ InStep))
        /\ returned' = [i \in 1 .. CopySize |-> cells[mHead + i - 1]]
    BY DEF Copy, dma
  <1>2. mHead' \in Index /\ mSize' \in 0 .. sBufferSize
    BY <1>0, <1>1, SizeAssumption DEF HeadAfterCopy, Index
  <1>3. returned' \in Seq(Nat)
    <2>1. ASSUME NEW i \in 1 .. CopySize PROVE cells[mHead + i - 1] \in Nat
      BY <1>0, SizeAssumption DEF RxInv, TypeOK, Index
    <2>. QED  BY <1>0, <1>1, <2>1
  <1>4. TypeOK'
    <2>1. reader' \in {"idle", "poll"} /\ reader = "copy"
      BY <1>1 DEF AfterCopy, Copy
    <2>. QED
      BY <1>1, <1>2, <1>3, <2>1 DEF RxInv, TypeOK
  <1>5. PointersAgree'
    BY <1>0, <1>1, SizeAssumption DEF RxInv, PointersAgree, HeadAfterCopy, Wrap, Index
  <1>6. NewestBehind'
    BY <1>1 DEF RxInv, NewestBehind, Back
  <1>7. InOneLap'
    BY <1>0, <1>1, SizeAssumption DEF RxInv, InOneLap, InStep, Unseen, TypeOK, Wrap, Index
  <1>. QED  BY <1>4, <1>5, <1>6, <1>7 DEF RxInv

LEMMA RxInductive == Spec => []RxInv
  <1>1. RxInv /\ [Next]_vars => RxInv'
    <2>. SUFFICES ASSUME RxInv, [Next]_vars PROVE RxInv'
      OBVIOUS
    <2>1. CASE Receive    BY <2>1, ReceiveKeeps
    <2>2. CASE UartError  BY <2>2, UartErrorKeeps
    <2>3. CASE BeginRead  BY <2>3, BeginReadKeeps
    <2>4. CASE Poll       BY <2>4, PollKeeps
    <2>5. CASE Copy       BY <2>5, CopyKeeps
    <2>6. CASE UNCHANGED vars
      BY <2>6 DEF vars, dma, buffer, call, RxInv, TypeOK, PointersAgree, NewestBehind,
                  Back, InOneLap, InStep, Unseen, Wrap
    <2>. QED  BY <2>1, <2>2, <2>3, <2>4, <2>5, <2>6 DEF Next, Read
  <1>. QED  BY RxInit, <1>1, PTL DEF Spec

(***************************************************************************)
(* Every reachable state is well typed: the head and the tail stay inside  *)
(* the ring and the size within it, whatever the DMA does.                 *)
(***************************************************************************)
THEOREM RxTypeCorrect == Spec => []TypeOK
  BY RxInductive, PTL DEF RxInv

-----------------------------------------------------------------------------

\* What waits in the ring, from the head on, are the next bytes of the stream.
LEMMA WaitingAreNext ==
  ASSUME RxInv, ~torn, NEW i \in 1 .. CopySize
  PROVE  cells[mHead + i - 1] = NextByte + i - 1
  <1>1. /\ CopySize \in 0 .. mSize /\ mHead + CopySize <= sBufferSize /\ CopySize \in Nat
        /\ mSize \in 0 .. sBufferSize /\ mHead \in Index /\ pos \in Index
        /\ n \in Nat /\ seen \in 0 .. n /\ start \in 0 .. n
    BY CopyFits DEF RxInv, TypeOK
  <1>2. /\ pos = Wrap(mTail + Unseen) /\ Unseen + mSize <= sBufferSize
        /\ start <= seen - mSize /\ mTail = Wrap(mHead + mSize)
    BY DEF RxInv, InOneLap, InStep, PointersAgree
  <1>. DEFINE j == Unseen + mSize - i + 1
  <1>3. j \in 1 .. sBufferSize /\ j <= n - start
    BY <1>1, <1>2, SizeAssumption DEF Unseen
  <1>4. Back(j) = mHead + i - 1
    BY <1>1, <1>2, SizeAssumption DEF Unseen, Back, Wrap, Index
  <1>5. cells[Back(j)] = n + 1 - j
    BY <1>3 DEF RxInv, NewestBehind
  <1>6. n + 1 - j = NextByte + i - 1
    BY <1>1 DEF NextByte, Unseen
  <1>. QED  BY <1>4, <1>5, <1>6

(***************************************************************************)
(* The reader gets the bytes that arrived, each once and in order, while   *)
(* the DMA has neither overtaken it nor been restarted.                    *)
(***************************************************************************)
THEOREM StreamRead == Spec => ReadsTheStream
  <1>. DEFINE Copied == /\ returned' = [i \in 1 .. Len(returned') |-> NextByte + i - 1]
                        /\ NextByte' = NextByte + Len(returned')
              Step == ~torn => IF reader = "copy" /\ reader' \in {"idle", "poll"}
                               THEN Copied ELSE NextByte' = NextByte
  <1>1. RxInv /\ [Next]_vars => [Step]_vars
    <2>. SUFFICES ASSUME RxInv, Next, ~torn
                  PROVE  IF reader = "copy" /\ reader' \in {"idle", "poll"}
                         THEN Copied ELSE NextByte' = NextByte
      OBVIOUS
    <2>1. CASE Receive \/ UartError \/ BeginRead
      BY <2>1 DEF Receive, UartError, PrintingStops, ReceiveRestarts, BeginRead,
                  NextByte, buffer, call
    <2>2. CASE Poll
      <3>1. UpdatePointers.size = mSize + Unseen
        BY PointersUpdated DEF RxInv, InOneLap
      <3>2. mSize' = mSize + Unseen /\ seen' = n /\ reader = "poll"
        BY <2>2, <3>1 DEF Poll
      <3>. QED
        BY <3>2, SizeAssumption DEF NextByte, Unseen, RxInv, TypeOK
    <2>3. CASE Copy
      <3>1. /\ CopySize \in Nat /\ mSize' = mSize - CopySize /\ seen' = seen
            /\ returned' = [i \in 1 .. CopySize |-> cells[mHead + i - 1]]
            /\ reader = "copy" /\ reader' \in {"idle", "poll"}
        BY <2>3, CopyFits DEF RxInv, Copy, AfterCopy
      <3>2. returned' = [i \in 1 .. CopySize |-> NextByte + i - 1]
        BY <3>1, WaitingAreNext
      <3>3. Len(returned') = CopySize
        BY <3>1
      <3>4. NextByte' = NextByte + CopySize
        BY <3>1, SizeAssumption DEF NextByte, RxInv, TypeOK
      <3>. QED  BY <3>1, <3>2, <3>3, <3>4
    <2>. QED  BY <2>1, <2>2, <2>3 DEF Next, Read
  <1>. QED
    BY RxInductive, <1>1, PTL DEF Spec, ReadsTheStream
=============================================================================
