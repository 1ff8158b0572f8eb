------------------------------ MODULE TimerProofs -----------------------------
(***************************************************************************)
(* Proofs about TimerLed, for any processes and any periods: a stopped     *)
(* timer stays stopped, a replaced period is used once at most, and the    *)
(* driver implements Blinker.                                              *)
(***************************************************************************)
EXTENDS TimerLed, TLAPS

\* A stopped timer is at rest, and no command is about to arm it.
RestInv ==
  stopped => timer = "idle" /\ cb = "idle" /\ \A p \in Users : pc[p] # "arm"

\* Without the module there is nobody in it.
UnloadedInv == ~loaded => stopped /\ \A p \in Users : pc[p] = "closed"

\* Once timeperiod is current, so is every copy of it that may still be armed.
CurrentInv ==
  current =>
    /\ \A p \in Users : pc[p] = "arm" => arg[p] = timeperiod
    /\ cb = "arm" => timerperiod = timeperiod
    /\ timer = "pending" => expires = timeperiod

IInv == TypeOK /\ RestInv /\ UnloadedInv /\ CurrentInv

USE PeriodsAssumption DEF IInv, TypeOK, RestInv, UnloadedInv, CurrentInv,
    Blinking, DelTimerSync, Goto, timerVars, callbackVars, userVars

LEMMA InitInv == Init => IInv
  BY DEF Init

\* timer_init and timer_exit.
LEMMA LoadStep == IInv /\ (Load \/ Unload) => IInv'
<1>1. IInv /\ Load => IInv'
  BY DEF Load
<1>2. IInv /\ Unload => IInv'
  BY DEF Unload
<1> QED BY <1>1, <1>2

\* timer_open and timer_unlocked_ioctl.
LEMMA UserStep == ASSUME IInv, NEW p \in Users, User(p) PROVE IInv'
<1>1. CASE OpenLed(p)
  BY <1>1 DEF OpenLed
<1>2. CASE OpenPeriod(p)
  BY <1>2 DEF OpenPeriod
<1>3. CASE CloseFile(p)
  BY <1>3 DEF CloseFile
<1>4. CASE CloseCmd(p)
  BY <1>4 DEF CloseCmd
<1>5. CASE OpenCmd(p)
  BY <1>5 DEF OpenCmd
<1>6. CASE SetPeriodCmd(p)
  BY <1>6 DEF SetPeriodCmd
<1>7. CASE Arm(p)
  BY <1>7 DEF Arm
<1> QED BY <1>1, <1>2, <1>3, <1>4, <1>5, <1>6, <1>7 DEF User

\* timer_callback.
LEMMA CallbackStep == IInv /\ Callback => IInv'
<1>1. IInv /\ Expire => IInv'
  BY DEF Expire
<1>2. IInv /\ Toggle => IInv'
  BY DEF Toggle
<1>3. IInv /\ ReadPeriod => IInv'
  BY DEF ReadPeriod
<1>4. IInv /\ Rearm => IInv'
  BY DEF Rearm
<1> QED BY <1>1, <1>2, <1>3, <1>4 DEF Callback

LEMMA Invariance == Spec => []IInv
<1>1. IInv /\ [Next]_vars => IInv'
  <2>1. IInv /\ Next => IInv'
    BY LoadStep, UserStep, CallbackStep DEF Next
  <2>2. IInv /\ UNCHANGED vars => IInv'
    BY DEF vars
  <2> QED BY <2>1, <2>2
<1> QED BY <1>1, InitInv, PTL DEF Spec

-----------------------------------------------------------------------------

\* Types, for any processes and periods.
THEOREM TypeCorrect == Spec => []TypeOK
<1>1. IInv => TypeOK
  OBVIOUS
<1> QED BY <1>1, Invariance, PTL

\* When CLOSE_CMD or rmmod has returned, with no other command about, the timer
\* is at rest.
THEOREM StopsForGood == Spec => []StopHolds
<1>1. IInv => StopHolds
  BY DEF StopHolds
<1> QED BY <1>1, Invariance, PTL

\* A period that has been replaced is not armed again after the timer has
\* expired once.
THEOREM PeriodTakesEffect == Spec => []PeriodInUse
<1>1. IInv => PeriodInUse
  BY DEF PeriodInUse
<1> QED BY <1>1, Invariance, PTL

\* Only CLOSE_CMD and unloading stop the LED from blinking.
THEOREM GoesOnBlinking == Spec => OnlyCloseStops
<1>1. IInv /\ [Next]_vars =>
        [Blinking /\ ~Blinking' => Unload \/ \E p \in Users : CloseCmd(p)]_vars
  <2> SUFFICES ASSUME IInv, Next, Blinking, ~Blinking'
               PROVE  Unload \/ \E p \in Users : CloseCmd(p)
    OBVIOUS
  <2>1. ~Load
    BY DEF Load
  <2>2. ~Callback
    BY DEF Callback, Expire, Toggle, ReadPeriod, Rearm
  <2>3. ASSUME NEW p \in Users, User(p)
        PROVE  CloseCmd(p)
    BY <2>3 DEF User, OpenLed, OpenPeriod, CloseFile, OpenCmd, SetPeriodCmd, Arm
  <2> QED BY <2>1, <2>2, <2>3 DEF Next
<1> QED BY <1>1, Invariance, PTL DEF Spec, OnlyCloseStops

\* The driver implements Blinker.
THEOREM Refinement == Spec => Implements
<1> USE DEF Abstract!Init, Abstract!Next, Abstract!TurnOn, Abstract!TurnOff,
            Abstract!Drive, Abstract!PutOut
<1>1. Init => Abstract!Init
  BY DEF Init
<1>2. IInv /\ [Next]_vars => [Abstract!Next]_<<~stopped, led>>
  <2> SUFFICES ASSUME IInv, Next PROVE Abstract!Next \/ UNCHANGED <<stopped, led>>
    BY DEF vars
  <2>1. CASE Load \/ Unload
    BY <2>1 DEF Load, Unload
  <2>2. CASE Callback
    <3>1. CASE Toggle
      <4>1. ~stopped /\ led' \in {0, 1} /\ stopped' = stopped
        BY <3>1 DEF Toggle
      <4> QED BY <4>1
    <3>2. CASE Expire \/ ReadPeriod \/ Rearm
      BY <3>2 DEF Expire, ReadPeriod, Rearm
    <3> QED BY <2>2, <3>1, <3>2 DEF Callback
  <2>3. ASSUME NEW p \in Users, User(p)
        PROVE  Abstract!Next \/ UNCHANGED <<stopped, led>>
    <3>1. CASE OpenLed(p)
      BY <3>1 DEF OpenLed
    <3>2. CASE OpenPeriod(p) \/ CloseFile(p) \/ Arm(p)
      BY <3>2 DEF OpenPeriod, CloseFile, Arm
    <3>3. CASE CloseCmd(p)
      <4>1. led' = led /\ stopped' \in BOOLEAN
        BY <3>3 DEF CloseCmd
      <4> QED BY <4>1
    <3>4. CASE OpenCmd(p) \/ SetPeriodCmd(p)
      <4>1. stopped' = FALSE /\ led' = led
        BY <3>4 DEF OpenCmd, SetPeriodCmd
      <4> QED BY <4>1
    <3> QED BY <2>3, <3>1, <3>2, <3>3, <3>4 DEF User
  <2> QED BY <2>1, <2>2, <2>3 DEF Next
<1> QED BY <1>1, <1>2, Invariance, PTL DEF Spec, Implements, Abstract!Spec

=============================================================================
