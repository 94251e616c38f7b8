------------------------- MODULE DebugUartTx_proofs -------------------------
(***************************************************************************)
(* Proofs about DebugUartTx: for any sizes of the two buffers and any      *)
(* pattern of messages, services and errors of the UART, what is printed   *)
(* goes out once and in order.                                             *)
(***************************************************************************)
EXTENDS DebugUartTx, SequenceTheorems, TLAPS

\* How many bytes are between the stream buffer and the line.
Left ==
    IF pc = "transmit" THEN Len(sTxBuffer1)
    ELSE IF gState = "BUSY_TX" THEN Len(sTxBuffer1) - sent
    ELSE 0

\* The DMA buffer is filled, and a transfer begun, only while the UART is ready.
Phases ==
    /\ pc \in {"oscillator", "clocks", "uart"} => gState = "RESET"
    /\ pc \in {"txDma", "rxDma", "interrupts"} => gState = "READY"
    /\ pc = "halted" => gState # "BUSY_TX"
    /\ pc \notin Booting \cup {"halted", "stopped"} => gState # "RESET"
    /\ pc \in {"receive", "transmit"} => gState = "READY"

InBuffer ==
    /\ gState = "BUSY_TX" =>
          /\ sent <= Len(sTxBuffer1)
          /\ \A i \in sent + 1 .. Len(sTxBuffer1) : sTxBuffer1[i] = next + (i - sent) - 1
    /\ pc = "transmit" => \A i \in 1 .. Len(sTxBuffer1) : sTxBuffer1[i] = next + i - 1

\* The stream buffer goes on where the DMA buffer ends, after first - 1 bytes.
Follows(s, first, last) ==
    /\ \A i \in 1 .. Len(s) : s[i] = first + i - 1
    /\ last + 1 = first + Len(s)

InStream == pc # "stopped" => Follows(stream, next + Left, written)

Inv == TypeOK /\ Phases /\ InBuffer /\ InStream /\ line < next

LEMMA LeftNat ==
  ASSUME Inv
  PROVE  Left \in Nat
  BY DEF Inv, TypeOK, InBuffer, Left

LEMMA BytesAre ==
  ASSUME NEW first \in Nat, NEW n \in Nat
  PROVE  /\ Bytes(first, n) \in Seq(Nat)
         /\ Len(Bytes(first, n)) = n
         /\ \A i \in 1 .. n : Bytes(first, n)[i] = first + i
  <1>1. Bytes(first, n) \in [1 .. n -> Nat]
    BY DEF Bytes
  <1>2. Bytes(first, n) \in Seq(Nat)
    BY <1>1
  <1> QED
    BY <1>1, <1>2 DEF Bytes

\* What is put into the stream buffer goes on where it ended.
LEMMA PutFollows ==
  ASSUME Inv, pc # "stopped", NEW n \in Nat, NEW then, Put(n, then)
  PROVE  /\ pc' \in {then, "stopped"}
         /\ stream' \in Seq(Nat) /\ Len(stream') <= BufferSize /\ written' \in Nat
         /\ Follows(stream', next + Left, written')
  <1>1. /\ stream \in Seq(Nat) /\ Len(stream) <= BufferSize /\ written \in Nat
        /\ next \in Nat /\ Left \in Nat /\ BufferSize \in Nat
    BY LeftNat, SizesAssumption DEF Inv, TypeOK
  <1>2. Follows(stream, next + Left, written)
    BY DEF Inv, InStream
  <1>3. CASE ~(n <= BufferSize - Len(stream))
    <2>1. pc' = "stopped" /\ UNCHANGED <<stream, written>>
      BY <1>3 DEF Put
    <2> QED
      BY <1>1, <1>2, <2>1 DEF Follows
  <1>4. CASE n <= BufferSize - Len(stream)
    <2>1. pc' = then /\ stream' = stream \o Bytes(written, n) /\ written' = written + n
      BY <1>4 DEF Put
    <2>2. /\ Bytes(written, n) \in Seq(Nat) /\ Len(Bytes(written, n)) = n
          /\ \A i \in 1 .. n : Bytes(written, n)[i] = written + i
      BY <1>1, BytesAre, Zenon
    <2>3. /\ stream' \in Seq(Nat)
          /\ Len(stream') = Len(stream) + Len(Bytes(written, n))
          /\ \A i \in 1 .. Len(stream) + Len(Bytes(written, n)) :
                stream'[i] = IF i <= Len(stream) THEN stream[i]
                             ELSE Bytes(written, n)[i - Len(stream)]
      BY <1>1, <2>1, <2>2, ConcatProperties, Zenon
    <2>4. Len(stream) \in Nat /\ Len(stream') = Len(stream) + n
      BY <1>1, <2>2, <2>3
    <2>5. written + 1 = next + Left + Len(stream)
      BY <1>2 DEF Follows
    <2>6. ASSUME NEW i \in 1 .. Len(stream')
          PROVE  stream'[i] = next + Left + i - 1
      <3>1. CASE i <= Len(stream)
        <4>1. i \in 1 .. Len(stream) /\ stream'[i] = stream[i]
          BY <2>2, <2>3, <2>4, <3>1
        <4> QED
          BY <1>2, <4>1 DEF Follows
      <3>2. CASE ~(i <= Len(stream))
        <4>1. /\ i - Len(stream) \in 1 .. n
              /\ stream'[i] = Bytes(written, n)[i - Len(stream)]
          BY <2>2, <2>3, <2>4, <3>2
        <4>2. stream'[i] = written + (i - Len(stream))
          BY <2>2, <4>1
        <4> QED
          BY <1>1, <2>4, <2>5, <4>2
      <3> QED
        BY <3>1, <3>2
    <2>7. written' + 1 = next + Left + Len(stream')
      <3>1. written' = written + n
        BY <2>1
      <3> QED
        BY ONLY <1>1, <2>4, <2>5, <3>1, n \in Nat
    <2>8. Follows(stream', next + Left, written')
      BY <2>6, <2>7, Zenon DEF Follows
    <2>9. Len(stream') <= BufferSize /\ written' \in Nat
      BY <1>1, <1>4, <2>1, <2>4
    <2> QED
      BY <2>1, <2>3, <2>8, <2>9
  <1> QED
    BY <1>3, <1>4

\* Steps that only change where the idle task is, and what it prints.
LEMMA TaskSteps ==
  ASSUME Inv, pc # "stopped", pc # "transmit",
         pc' \in Booting \cup {"halted", "loop", "locked", "sent", "receive"},
         UNCHANGED <<stream, sTxBuffer1, sent, written, next, line, errors>>,
         size' \in Nat, gState' = gState \/ (gState = "RESET" /\ gState' = "READY"),
         Phases'
  PROVE  Inv'
  <1>0. pc' \notin {"transmit", "stopped"}
    BY DEF Booting
  <1>1. TypeOK'
    BY DEF Inv, TypeOK
  <1>2. InBuffer'
    BY <1>0 DEF Inv, InBuffer
  <1>3. Left' = Left
    BY <1>0 DEF Left
  <1>4. InStream'
    BY <1>3 DEF Inv, InStream, Follows
  <1> QED
    BY <1>1, <1>2, <1>4 DEF Inv

LEMMA ReceiveKeeps ==
  ASSUME Inv, Receive
  PROVE  Inv'
  <1> DEFINE n == IF Len(stream) < TxBufferSize THEN Len(stream) ELSE TxBufferSize
  <1>1. /\ pc = "receive" /\ gState = "READY" /\ Left = 0
        /\ stream \in Seq(Nat) /\ Len(stream) <= BufferSize
        /\ sTxBuffer1 \in Seq(Nat) /\ Len(sTxBuffer1) <= TxBufferSize
        /\ next \in Nat /\ written \in Nat /\ TxBufferSize \in Nat
        /\ BufferSize \in Nat /\ Len(stream) \in Nat
    BY SizesAssumption DEF Receive, Inv, TypeOK, Phases, Booting, Left
  <1>2. n \in 0 .. Len(stream) /\ n <= TxBufferSize /\ n \in Nat
    BY <1>1
  <1>3. /\ size' = n
        /\ sTxBuffer1' = IF n = 0 THEN sTxBuffer1 ELSE SubSeq(stream, 1, n)
        /\ stream' = SubSeq(stream, n + 1, Len(stream))
        /\ pc' = IF n = 0 THEN "loop" ELSE "transmit"
        /\ UNCHANGED <<gState, sent, written, next, line, errors>>
    BY DEF Receive
  <1> HIDE DEF n
  <1>4. /\ SubSeq(stream, 1, n) \in Seq(Nat) /\ Len(SubSeq(stream, 1, n)) = n
        /\ \A i \in 1 .. n : SubSeq(stream, 1, n)[i] = stream[i]
    <2>1. \A i \in 1 .. n : stream[i] \in Nat
      BY <1>1, <1>2, ElementOfSeq
    <2>2. /\ SubSeq(stream, 1, n) \in Seq(Nat)
          /\ Len(SubSeq(stream, 1, n)) = IF 1 <= n THEN n - 1 + 1 ELSE 0
          /\ \A i \in 1 .. n - 1 + 1 : SubSeq(stream, 1, n)[i] = stream[1 + i - 1]
      BY <1>1, <1>2, <2>1, SubSeqProperties
    <2> QED
      BY <1>2, <2>2
  <1>5. /\ stream' \in Seq(Nat) /\ Len(stream') = Len(stream) - n
        /\ \A i \in 1 .. Len(stream) - n : stream'[i] = stream[n + i]
    <2>1. \A i \in n + 1 .. Len(stream) : stream[i] \in Nat
      BY <1>1, <1>2, ElementOfSeq
    <2>2. /\ SubSeq(stream, n + 1, Len(stream)) \in Seq(Nat)
          /\ Len(SubSeq(stream, n + 1, Len(stream)))
                = IF n + 1 <= Len(stream) THEN Len(stream) - (n + 1) + 1 ELSE 0
          /\ \A i \in 1 .. Len(stream) - (n + 1) + 1 :
                SubSeq(stream, n + 1, Len(stream))[i] = stream[(n + 1) + i - 1]
      <3>1. n + 1 \in Int /\ Len(stream) \in Int
        BY <1>1, <1>2
      <3> QED
        BY <2>1, <3>1, SubSeqProperties
    <2> QED
      BY <1>1, <1>2, <1>3, <2>2
  <1>6. /\ \A i \in 1 .. Len(stream) : stream[i] = next + i - 1
        /\ written + 1 = next + Len(stream)
    BY <1>1 DEF Inv, InStream, Follows
  <1>7. TypeOK'
    <2>1. Len(stream') <= BufferSize
      BY <1>1, <1>2, <1>5
    <2>2. sTxBuffer1' \in Seq(Nat) /\ Len(sTxBuffer1') <= TxBufferSize
      BY <1>1, <1>2, <1>3, <1>4
    <2>3. pc' \in {"loop", "transmit"}
      BY <1>3
    <2> QED
      BY <1>2, <1>3, <1>5, <2>1, <2>2, <2>3 DEF Inv, TypeOK
  <1>8. Phases'
    BY <1>1, <1>3 DEF Inv, Phases, Booting
  <1>9. InBuffer'
    BY <1>1, <1>2, <1>3, <1>4, <1>6 DEF InBuffer
  <1>10. Left' = n
    BY <1>1, <1>3, <1>4 DEF Left
  <1>11. InStream'
    <2>1. ASSUME NEW i \in 1 .. Len(stream') PROVE stream'[i] = next' + Left' + i - 1
      BY <1>1, <1>2, <1>3, <1>5, <1>6, <1>10
    <2>2. written' + 1 = next' + Left' + Len(stream')
      <3>1. written' = written /\ next' = next
        BY <1>3
      <3> QED
        BY <1>1, <1>2, <1>5, <1>6, <1>10, <3>1
    <2> QED
      BY <2>1, <2>2 DEF InStream, Follows
  <1> QED
    BY <1>3, <1>7, <1>8, <1>9, <1>11 DEF Inv

LEMMA TransmitKeeps ==
  ASSUME Inv, Transmit
  PROVE  Inv'
  <1>1. /\ pc = "transmit" /\ pc' = "loop" /\ gState' = "BUSY_TX" /\ sent' = 0
        /\ UNCHANGED <<size, stream, sTxBuffer1, written, next, line, errors>>
    BY DEF Transmit, Inv, Phases, Booting
  <1>2. TypeOK'
    BY <1>1, SizesAssumption DEF Inv, TypeOK
  <1>3. Phases' /\ InBuffer'
    BY <1>1 DEF Inv, TypeOK, Phases, Booting, InBuffer
  <1>4. Left' = Left
    BY <1>1 DEF Inv, TypeOK, Left
  <1>5. InStream'
    BY <1>1, <1>4 DEF Inv, InStream, Follows
  <1> QED
    BY <1>1, <1>2, <1>3, <1>5 DEF Inv

LEMMA DmaSendsKeeps ==
  ASSUME Inv, DmaSends
  PROVE  Inv'
  <1>1. /\ gState = "BUSY_TX" /\ sent < Len(sTxBuffer1) /\ pc # "transmit"
        /\ sent \in Nat /\ next \in Nat /\ sTxBuffer1 \in Seq(Nat)
        /\ Len(sTxBuffer1) <= TxBufferSize
    BY DEF DmaSends, Inv, TypeOK, Phases, Booting
  <1>2. /\ line' = sTxBuffer1[sent + 1] /\ sent' = sent + 1 /\ next' = next + 1
        /\ UNCHANGED <<pc, size, stream, sTxBuffer1, gState, written, errors>>
    BY DEF DmaSends, task
  <1>3. sTxBuffer1[sent + 1] = next
    <2>1. sent + 1 \in sent + 1 .. Len(sTxBuffer1)
      BY <1>1
    <2> QED
      BY <1>1, <2>1 DEF Inv, InBuffer
  <1>4. TypeOK' /\ line' < next'
    BY <1>1, <1>2, <1>3, SizesAssumption DEF Inv, TypeOK
  <1>5. Phases'
    BY <1>2 DEF Inv, Phases, Booting
  <1>6. InBuffer'
    BY <1>1, <1>2 DEF Inv, InBuffer
  <1>7. next' + Left' = next + Left
    BY <1>1, <1>2 DEF Left
  <1>8. InStream'
    BY <1>2, <1>7 DEF Inv, InStream, Follows
  <1> QED
    BY <1>4, <1>5, <1>6, <1>8 DEF Inv

LEMMA TransmitCompleteKeeps ==
  ASSUME Inv, TransmitComplete
  PROVE  Inv'
  <1>1. /\ pc # "transmit" /\ gState = "BUSY_TX" /\ sent = Len(sTxBuffer1)
        /\ gState' = "READY"
        /\ UNCHANGED <<pc, size, stream, sTxBuffer1, sent, written, next, line, errors>>
    BY DEF TransmitComplete, Inv, Phases, Booting, task
  <1>2. TypeOK'
    BY <1>1 DEF Inv, TypeOK
  <1>3. Phases' /\ InBuffer'
    BY <1>1 DEF Inv, Phases, Booting, InBuffer
  <1>4. Left' = Left
    BY <1>1 DEF Inv, TypeOK, Left
  <1>5. InStream'
    BY <1>1, <1>4 DEF Inv, InStream, Follows
  <1> QED
    BY <1>1, <1>2, <1>3, <1>5 DEF Inv

\* An error that aborts a transfer loses what is left of it, and no more.
LEMMA UartErrorKeeps ==
  ASSUME Inv, UartError
  PROVE  Inv'
  <1>1. /\ pc \notin Booting \cup {"halted", "stopped"} /\ errors < MaxErrors
        /\ errors' = errors + 1
        /\ UNCHANGED <<size, sTxBuffer1, line>>
    BY DEF UartError
  <1>2. /\ next \in Nat /\ sent \in Nat /\ Len(sTxBuffer1) \in Nat
        /\ errors \in Nat /\ MaxErrors \in Nat /\ ErrorLength \in Nat /\ line \in Nat
        /\ sTxBuffer1 \in Seq(Nat) /\ Left \in Nat /\ line < next
    BY LeftNat, SizesAssumption, BoundsAssumption DEF Inv, TypeOK
  <1>3. /\ gState' = (IF gState = "BUSY_TX" THEN "READY" ELSE gState) /\ sent' = sent
        /\ next' = IF gState = "BUSY_TX" THEN next + Len(sTxBuffer1) - sent ELSE next
    BY DEF UartError, Abort
  <1>4. next' \in Nat /\ next' >= next
    BY <1>2, <1>3 DEF Inv, InBuffer
  <1>5. /\ pc' \in {pc, "stopped"}
        /\ stream' \in Seq(Nat) /\ Len(stream') <= BufferSize /\ written' \in Nat
        /\ pc' # "stopped" => Follows(stream', next + Left, written')
    <2>1. CASE pc' = "stopped" /\ UNCHANGED <<stream, written>>
      BY <2>1 DEF Inv, TypeOK
    <2>2. CASE Put(ErrorLength, pc)
      BY <1>1, <1>2, <2>2, PutFollows
    <2> QED
      BY <2>1, <2>2 DEF UartError
  <1>6. TypeOK'
    BY <1>1, <1>2, <1>3, <1>4, <1>5 DEF Inv, TypeOK
  <1>7. Phases'
    BY <1>1, <1>3, <1>5 DEF Inv, Phases, Booting
  <1>8. InBuffer'
    BY <1>1, <1>3, <1>5 DEF Inv, Phases, Booting, InBuffer
  <1>9. InStream'
    <2> SUFFICES ASSUME pc' # "stopped" PROVE Follows(stream', next' + Left', written')
      BY DEF InStream
    <2>1. pc' = pc
      BY <1>5
    <2>2. next' + Left' = next + Left
      <3>1. CASE gState = "BUSY_TX"
        <4>1. pc # "transmit" /\ gState' = "READY"
          BY <1>3, <3>1 DEF Inv, Phases, Booting
        <4>2. Left = Len(sTxBuffer1) - sent /\ Left' = 0
          BY <2>1, <3>1, <4>1 DEF Left
        <4> QED
          BY <1>2, <1>3, <3>1, <4>2
      <3>2. CASE gState # "BUSY_TX"
        BY <1>1, <1>3, <2>1, <3>2 DEF Left
      <3> QED
        BY <3>1, <3>2
    <2> QED
      BY <1>5, <2>2
  <1> QED
    BY <1>1, <1>2, <1>4, <1>6, <1>7, <1>8, <1>9 DEF Inv

LEMMA SendKeeps ==
  ASSUME Inv, Send
  PROVE  Inv'
  <1>1. /\ pc = "locked" /\ Put(size, "sent") /\ size \in Nat
        /\ UNCHANGED <<size, sTxBuffer1, gState, sent, next, line, errors>>
    BY DEF Send, uart, Inv, TypeOK
  <1>2. /\ pc' \in {"sent", "stopped"}
        /\ stream' \in Seq(Nat) /\ Len(stream') <= BufferSize /\ written' \in Nat
        /\ Follows(stream', next + Left, written')
    BY <1>1, PutFollows
  <1>3. TypeOK'
    BY <1>1, <1>2 DEF Inv, TypeOK
  <1>4. Phases' /\ InBuffer'
    BY <1>1, <1>2 DEF Inv, Phases, Booting, InBuffer
  <1>5. next' + Left' = next + Left
    BY <1>1, <1>2 DEF Left
  <1>6. InStream'
    BY <1>2, <1>5 DEF InStream
  <1> QED
    BY <1>1, <1>3, <1>4, <1>6 DEF Inv

LEMMA Inductive == Spec => []Inv
  <1>1. Init => Inv
    <2> SUFFICES ASSUME Init PROVE Inv
      OBVIOUS
    <2>1. << >> \in Seq(Nat) /\ Len(<< >>) = 0
      OBVIOUS
    <2>2. TypeOK
      BY <2>1, SizesAssumption, BoundsAssumption DEF Init, TypeOK, Booting
    <2>3. Left = 0
      BY DEF Init, Left
    <2> QED
      BY <2>1, <2>2, <2>3 DEF Init, Inv, Phases, Booting, InBuffer, InStream, Follows
  <1>2. Inv /\ [Next]_vars => Inv'
    <2> SUFFICES ASSUME Inv, [Next]_vars PROVE Inv'
      OBVIOUS
    <2>0. size \in Nat /\ Phases
      BY DEF Inv, TypeOK
    <2>1. CASE BaseInit
      <3>1. CASE OscillatorConfig \/ ClockConfig
        BY <2>0, <3>1, TaskSteps
           DEF OscillatorConfig, ClockConfig, Configured, Phases, Booting
      <3>2. CASE UartInit
        BY <2>0, <3>2, TaskSteps DEF UartInit, Configured, Phases, Booting
      <3>3. CASE TxDmaInit \/ RxDmaInit
        BY <2>0, <3>3, TaskSteps DEF TxDmaInit, RxDmaInit, Configured, Phases, Booting
      <3>4. CASE EnableInterrupts
        BY <2>0, <3>4, TaskSteps DEF EnableInterrupts, uart, Phases, Booting
      <3> QED
        BY <2>1, <3>1, <3>2, <3>3, <3>4 DEF BaseInit
    <2>2. CASE BeginWrite
      BY <2>0, <2>2, TaskSteps, SizesAssumption DEF BeginWrite, uart, Phases, Booting
    <2>3. CASE Unlock
      BY <2>0, <2>3, TaskSteps DEF Unlock, uart, Phases, Booting
    <2>4. CASE BeginService
      <3>1. gState = "READY"
        BY <2>4 DEF BeginService, Ready, Inv, TypeOK, Phases, Booting
      <3> QED
        BY <2>0, <2>4, <3>1, TaskSteps DEF BeginService, uart, Phases, Booting
    <2>5. CASE UNCHANGED vars
      <3>1. UNCHANGED <<pc, size, stream, sTxBuffer1, gState, sent, written, next, line,
                        errors>>
        BY <2>5 DEF vars, task, uart
      <3> QED
        BY <3>1 DEF Inv, TypeOK, Phases, Booting, InBuffer, InStream, Follows, Left
    <2> QED
      BY <2>1, <2>2, <2>3, <2>4, <2>5, ReceiveKeeps, TransmitKeeps, DmaSendsKeeps,
         TransmitCompleteKeeps, UartErrorKeeps, SendKeeps
      DEF Next, IdleHook, Service
  <1> QED
    BY <1>1, <1>2, PTL DEF Spec

\* The buffers stay within their sizes, whatever is printed.
THEOREM TxTypeCorrect == Spec => []TypeOK
  <1>1. Inv => TypeOK
    BY DEF Inv
  <1> QED
    BY <1>1, Inductive, PTL

-----------------------------------------------------------------------------
\* What the two buffers hold, one after the other.
LEMMA BuffersHold ==
  ASSUME Inv, pc # "stopped"
  PROVE  Buffered \o stream = Bytes(next - 1, written - next + 1)
  <1>1. /\ stream \in Seq(Nat) /\ sTxBuffer1 \in Seq(Nat) /\ Len(stream) \in Nat
        /\ sent \in Nat /\ next \in Nat /\ written \in Nat /\ Left \in Nat
        /\ line \in Nat /\ line < next
    BY LeftNat DEF Inv, TypeOK
  <1>2. /\ \A i \in 1 .. Len(stream) : stream[i] = next + Left + i - 1
        /\ written + 1 = next + Left + Len(stream)
    BY DEF Inv, InStream, Follows
  <1>3. /\ Buffered \in Seq(Nat) /\ Len(Buffered) = Left
        /\ \A i \in 1 .. Left : Buffered[i] = next + i - 1
    <2>1. CASE pc = "transmit"
      BY <1>1, <2>1 DEF Buffered, Left, Inv, InBuffer
    <2>2. CASE pc # "transmit" /\ gState = "BUSY_TX"
      <3> DEFINE rest == SubSeq(sTxBuffer1, sent + 1, Len(sTxBuffer1))
      <3>1. /\ sent <= Len(sTxBuffer1) /\ Len(sTxBuffer1) \in Nat
            /\ \A i \in sent + 1 .. Len(sTxBuffer1) :
                  sTxBuffer1[i] = next + (i - sent) - 1
        BY <1>1, <2>2 DEF Inv, InBuffer
      <3>2. \A i \in sent + 1 .. Len(sTxBuffer1) : sTxBuffer1[i] \in Nat
        BY <1>1, <3>1, ElementOfSeq
      <3>3. /\ rest \in Seq(Nat)
            /\ Len(rest) = IF sent + 1 <= Len(sTxBuffer1)
                           THEN Len(sTxBuffer1) - (sent + 1) + 1 ELSE 0
            /\ \A i \in 1 .. Len(sTxBuffer1) - (sent + 1) + 1 :
                  rest[i] = sTxBuffer1[(sent + 1) + i - 1]
        BY <1>1, <3>1, <3>2, SubSeqProperties
      <3> HIDE DEF rest
      <3>4. Len(rest) = Left /\ Left = Len(sTxBuffer1) - sent
        BY <1>1, <2>2, <3>1, <3>3 DEF Left
      <3>5. ASSUME NEW i \in 1 .. Left PROVE rest[i] = next + i - 1
        <4>1. /\ i \in 1 .. Len(sTxBuffer1) - (sent + 1) + 1
              /\ (sent + 1) + i - 1 \in sent + 1 .. Len(sTxBuffer1)
              /\ (sent + 1) + i - 1 = sent + i
          BY <1>1, <3>1, <3>4
        <4>2. rest[i] = sTxBuffer1[sent + i]
          BY <3>3, <4>1
        <4>3. sTxBuffer1[sent + i] = next + ((sent + i) - sent) - 1
          BY <3>1, <4>1
        <4> QED
          BY <1>1, <4>2, <4>3
      <3>6. Buffered = rest
        BY <2>2 DEF Buffered, rest
      <3> QED
        BY <3>3, <3>4, <3>5, <3>6
    <2>3. CASE pc # "transmit" /\ gState # "BUSY_TX"
      BY <2>3 DEF Buffered, Left
    <2> QED
      BY <2>1, <2>2, <2>3
  <1>4. /\ Buffered \o stream \in Seq(Nat)
        /\ Len(Buffered \o stream) = Left + Len(stream)
        /\ \A i \in 1 .. Left + Len(stream) : (Buffered \o stream)[i] =
              IF i <= Left THEN Buffered[i] ELSE stream[i - Left]
    <2>1. /\ Buffered \o stream \in Seq(Nat)
          /\ Len(Buffered \o stream) = Len(Buffered) + Len(stream)
          /\ \A i \in 1 .. Len(Buffered) + Len(stream) : (Buffered \o stream)[i] =
                IF i <= Len(Buffered) THEN Buffered[i] ELSE stream[i - Len(Buffered)]
      BY <1>1, <1>3, ConcatProperties, Zenon
    <2> QED
      BY <1>3, <2>1
  <1> DEFINE all == Bytes(next - 1, written - next + 1)
  <1>5. /\ all \in Seq(Nat) /\ Len(all) = Left + Len(stream)
        /\ \A i \in 1 .. Left + Len(stream) : all[i] = next - 1 + i
    <2>1. next - 1 \in Nat /\ written - next + 1 = Left + Len(stream)
      BY <1>1, <1>2
    <2>2. Left + Len(stream) \in Nat
      BY <1>1
    <2>3. all = Bytes(next - 1, Left + Len(stream))
      BY <2>1
    <2> HIDE DEF all
    <2> QED
      BY <2>1, <2>2, <2>3, BytesAre, Zenon
  <1>6. ASSUME NEW i \in 1 .. Left + Len(stream)
        PROVE  (Buffered \o stream)[i] = all[i]
    <2> HIDE DEF all
    <2>1. CASE i <= Left
      <3>1. i \in 1 .. Left /\ (Buffered \o stream)[i] = Buffered[i]
        BY <1>1, <1>4, <2>1
      <3> QED
        BY <1>1, <1>3, <1>5, <3>1
    <2>2. CASE ~(i <= Left)
      <3>1. i - Left \in 1 .. Len(stream) /\ (Buffered \o stream)[i] = stream[i - Left]
        BY <1>1, <1>4, <2>2
      <3>2. stream[i - Left] = next + Left + (i - Left) - 1
        BY <1>2, <3>1
      <3> QED
        BY <1>1, <1>5, <3>1, <3>2
    <2> QED
      BY <2>1, <2>2
  <1> HIDE DEF all
  <1>7. Buffered \o stream = all
    BY <1>4, <1>5, <1>6, SeqEqual
  <1> QED
    BY <1>7 DEF all

(***************************************************************************)
(* What was printed goes out once and in order: the DMA buffer is not      *)
(* filled while it is read, and only the rest of a transfer that an error  *)
(* aborts is lost (DebugUart.cpp:79-93).                                   *)
(***************************************************************************)
THEOREM PrintedOnceInOrder == Spec => []OnceInOrder
  <1>1. Inv => OnceInOrder
    <2> SUFFICES ASSUME Inv PROVE OnceInOrder
      OBVIOUS
    <2>1. line < next
      BY DEF Inv
    <2> QED
      BY <2>1, BuffersHold, Zenon DEF OnceInOrder
  <1> QED
    BY <1>1, Inductive, PTL
=============================================================================
