----------------------------- MODULE LoopTimer -----------------------------
(***************************************************************************)
(* The periodic timer of src/include/lwipserver/utils/LoopTimer.h, which   *)
(* paces the link check and the DHCP process.  The main loop polls it; it  *)
(* reads the millisecond tick, an unsigned counter that wraps.             *)
(***************************************************************************)
EXTENDS Integers

CONSTANTS
    Modulus,  \* the tick counts modulo this, 2^32
    Expiry,   \* mExpiry
    MaxGap    \* the main loop polls at least once in so many ticks

ASSUME TimerAssumption ==
    /\ Modulus \in Nat \ {0}
    /\ Expiry \in 0 .. Modulus - 1
    /\ MaxGap \in Nat \ {0}

VARIABLES
    tick,       \* Base::tick()
    mPrevTick,  \* when the callback was last executed
    gap,        \* ticks since the last poll
    elapsed     \* the time really passed since the callback (Modulus: or more)

vars == <<tick, mPrevTick, gap, elapsed>>

\* Sums of two ticks in uint32_t arithmetic.
Wrap(n) == IF n < Modulus THEN n ELSE n - Modulus

Init ==
    /\ tick = 0
    /\ mPrevTick = 0
    /\ gap = 0
    /\ elapsed = 0

\* The SysTick interrupt.
SysTick ==
    /\ gap < MaxGap
    /\ tick' = Wrap(tick + 1)
    /\ gap' = gap + 1
    /\ elapsed' = IF elapsed < Modulus THEN elapsed + 1 ELSE elapsed
    /\ UNCHANGED mPrevTick

\* Mutant: the timer expires a tick early.
Expired_OrEqual == tick >= Wrap(mPrevTick + Expiry)

\* Mutant: the deadline saturates, as it would if the tick never wrapped.
Expired_Saturates == mPrevTick + Expiry < Modulus /\ tick > mPrevTick + Expiry

Expired == tick > Wrap(mPrevTick + Expiry)

\* Mutant: the deadline is kept in a wider type.
Callback_Wide ==
    /\ Expired
    /\ mPrevTick' = mPrevTick + Expiry
    /\ gap' = 0
    /\ elapsed' = 0
    /\ UNCHANGED tick

\* A poll that executes the callback.
Callback ==
    /\ Expired
    /\ mPrevTick' = tick
    /\ gap' = 0
    /\ elapsed' = 0
    /\ UNCHANGED tick

\* A poll that does not.
NoCallback ==
    /\ ~Expired
    /\ gap' = 0
    /\ UNCHANGED <<tick, mPrevTick, elapsed>>

Poll == Callback \/ NoCallback

Next == SysTick \/ Poll

Spec == Init /\ [][Next]_vars

\* Time passes, and the main loop keeps polling.
FairSpec == Spec /\ WF_vars(SysTick) /\ WF_vars(Poll)

-----------------------------------------------------------------------------
(* Properties *)

\* The shape of the state.
TypeOK ==
    /\ tick \in 0 .. Modulus - 1
    /\ mPrevTick \in 0 .. Modulus - 1
    /\ gap \in 0 .. MaxGap
    /\ elapsed \in 0 .. Modulus

\* The two ticks the timer compares tell the time that passed, modulo the wrap.
TicksTellElapsed == elapsed < Modulus => tick = Wrap(mPrevTick + elapsed)

(***************************************************************************)
(* The comparison at LoopTimer.h:39 is right as long as neither the        *)
(* deadline nor the tick has wrapped since the last callback.              *)
(***************************************************************************)
ExactAwayFromWrap ==
    mPrevTick + Expiry < Modulus /\ mPrevTick + elapsed < Modulus
        => (Expired <=> elapsed > Expiry)

(***************************************************************************)
(* A deadline beyond the wrap is left behind: the timer calls back at      *)
(* every poll until the tick wraps, and is periodic again afterwards.      *)
(***************************************************************************)
WrapIsLeftBehind ==
    (mPrevTick + Expiry >= Modulus) ~> (mPrevTick + Expiry < Modulus)
=============================================================================
