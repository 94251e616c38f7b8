-------------------------- MODULE LoopTimer_proofs --------------------------
(***************************************************************************)
(* Proofs about LoopTimer, for every modulus, expiry and polling interval. *)
(***************************************************************************)
EXTENDS LoopTimer, TLAPS

\* The inductive invariant: what is compared, and that it tells the time.
IInv == TypeOK /\ TicksTellElapsed

LEMMA TimerInit == Init => IInv
  BY TimerAssumption DEF Init, IInv, TypeOK, TicksTellElapsed, Wrap

\* A tick adds one to both sides of TicksTellElapsed, across the wrap too.
LEMMA SysTickStep == IInv /\ SysTick => IInv'
  <1> SUFFICES ASSUME IInv, SysTick PROVE IInv'
    OBVIOUS
  <1>1. TypeOK'
    BY TimerAssumption DEF IInv, TypeOK, SysTick, Wrap
  <1>2. TicksTellElapsed'
    BY TimerAssumption DEF IInv, TypeOK, SysTick, TicksTellElapsed, Wrap
  <1> QED
    BY <1>1, <1>2 DEF IInv

\* A poll that calls back starts measuring at the tick it read.
LEMMA PollStep == IInv /\ Poll => IInv'
  <1> SUFFICES ASSUME IInv, Poll PROVE IInv'
    OBVIOUS
  <1>1. CASE Callback
    BY <1>1, TimerAssumption DEF IInv, TypeOK, TicksTellElapsed, Callback, Wrap
  <1>2. CASE NoCallback
    BY <1>2, TimerAssumption DEF IInv, TypeOK, TicksTellElapsed, NoCallback, Wrap
  <1> QED
    BY <1>1, <1>2 DEF Poll

LEMMA TimerInductive == Spec => []IInv
  <1>1. IInv /\ [Next]_vars => IInv'
    <2> SUFFICES ASSUME IInv, [Next]_vars PROVE IInv'
      OBVIOUS
    <2>1. CASE SysTick
      BY <2>1, SysTickStep
    <2>2. CASE Poll
      BY <2>2, PollStep
    <2>3. CASE UNCHANGED vars
      BY <2>3 DEF IInv, TypeOK, TicksTellElapsed, vars
    <2> QED
      BY <2>1, <2>2, <2>3 DEF Next
  <1> QED
    BY TimerInit, <1>1, PTL DEF Spec

(***************************************************************************)
(* The tick and the time of the last callback stay within the counter's    *)
(* width, whatever is added to them (LoopTimer.h:38-41).                   *)
(***************************************************************************)
THEOREM TicksStayInRange == Spec => []TypeOK
  <1>1. IInv => TypeOK
    BY DEF IInv
  <1> QED
    BY TimerInductive, <1>1, PTL

(***************************************************************************)
(* The ticks the timer compares tell the time since the last callback, for *)
(* up to one turn of the counter (LoopTimer.h:38-41).                      *)
(***************************************************************************)
THEOREM TimeIsTold == Spec => []TicksTellElapsed
  <1>1. IInv => TicksTellElapsed
    BY DEF IInv
  <1> QED
    BY TimerInductive, <1>1, PTL

(***************************************************************************)
(* Where nothing wraps, the timer expires exactly when more than mExpiry   *)
(* has passed (LoopTimer.h:39).                                            *)
(***************************************************************************)
THEOREM ExactWhenNothingWraps == Spec => []ExactAwayFromWrap
  <1>1. IInv => ExactAwayFromWrap
    BY TimerAssumption
       DEF IInv, TypeOK, TicksTellElapsed, ExactAwayFromWrap, Expired, Wrap
  <1> QED
    BY TimerInductive, <1>1, PTL
=============================================================================
