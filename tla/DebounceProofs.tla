---------------------------- MODULE DebounceProofs ----------------------------
(***************************************************************************)
(* The timing of the debouncing, for any debounce time: what the timer has *)
(* left and how long the line has been quiet add up.                       *)
(***************************************************************************)
EXTENDS KeyDebounce, TLAPS

USE DEF deviceVars, lineVars, valueVars, waitVars, readVars, timeVars, histVars

Level == IF line = "down" THEN KEY0VALUE ELSE INVAKEY

\* The countdown: nothing else moves the timer.
CountInv ==
  /\ irq => quiet = 0
  /\ armed /\ ~irq => left + quiet = DEBOUNCE
  /\ tf # "idle" => quiet <= DEBOUNCE

\* The value: once the line has moved, either another sample is to come, or
\* timer_function is working on this level, or it has reported it.
ValueInv ==
  moved /\ ~irq /\ ~armed =>
    /\ tf \in {"up", "down"} => line = tf
    /\ tf = "mark" => line = "up" /\ keyvalue = INVAKEY
    /\ tf \in {"idle", "notify"} => keyvalue = Level

IInv == TypeOK /\ CountInv /\ ValueInv

LEMMA InitInv == Init => IInv
<1> SUFFICES ASSUME Init PROVE IInv
  OBVIOUS
<1> USE DebounceAssumption DEF Init
<1>1. TypeOK
  <2>1. DeviceTypeOK
    BY DEF DeviceTypeOK, Labels
  <2>2. left \in 0..DEBOUNCE /\ quiet \in 0..(DEBOUNCE + 1)
    OBVIOUS
  <2> QED BY <2>1, <2>2 DEF TypeOK
<1>2. CountInv /\ ValueInv
  BY DEF CountInv, ValueInv
<1> QED BY <1>1, <1>2 DEF IInv

\* A reader does not disturb what the invariants are about.
LEMMA ReadFrame ==
  TimedRead => UNCHANGED <<lineVars, tf, keyvalue, timeVars, histVars>>
BY DEF TimedRead, PollProc, PollRead, ReadTail, ReadValue, Deliver, NoData,
       ClearRelease

LEMMA TypeStep == TypeOK /\ [Next]_vars => TypeOK'
<1> SUFFICES ASSUME TypeOK, [Next]_vars PROVE TypeOK'
  OBVIOUS
<1> USE DebounceAssumption DEF TypeOK, DeviceTypeOK
<1>1. CASE TimedEdge
  BY <1>1 DEF TimedEdge, Edge
<1>2. CASE TimedHandler
  <2>1. DeviceTypeOK'
    BY <1>2 DEF TimedHandler, Handler
  <2>2. left' \in 0..DEBOUNCE
    BY <1>2 DEF TimedHandler
  <2> QED BY <1>2, <2>1, <2>2 DEF TimedHandler
<1>3. CASE TimedExpire
  BY <1>3 DEF TimedExpire, Expire
<1>4. CASE TimedStore
  BY <1>4 DEF TimedStore, StorePressed, StoreReleased, MarkRelease, PollNotify
<1>5. CASE Tick
  <2>1. left' \in 0..DEBOUNCE /\ quiet' \in 0..(DEBOUNCE + 1)
    BY <1>5 DEF Tick
  <2> QED BY <1>5, <2>1 DEF Tick
<1>6. CASE TimedRead
  <2>1. PICK p \in Procs : PollProc(p)
    BY <1>6 DEF TimedRead
  <2>2. DeviceTypeOK'
    BY <2>1 DEF PollProc, PollRead, ReadTail, ReadValue, Deliver, NoData,
                ClearRelease, Goto, Return, Labels
  <2> QED BY <1>6, <2>2 DEF TimedRead
<1>7. CASE UNCHANGED vars
  BY <1>7 DEF vars
<1> QED BY <1>1, <1>2, <1>3, <1>4, <1>5, <1>6, <1>7 DEF Next

LEMMA CountStep == TypeOK /\ CountInv /\ [Next]_vars => CountInv'
<1> SUFFICES ASSUME TypeOK, CountInv, [Next]_vars PROVE CountInv'
  OBVIOUS
<1>0. left \in 0..DEBOUNCE /\ quiet \in 0..(DEBOUNCE + 1) /\ DEBOUNCE \in Nat
  BY DebounceAssumption DEF TypeOK
<1> USE <1>0 DEF CountInv
<1>1. CASE TimedEdge
  BY <1>1 DEF TimedEdge, Edge
<1>2. CASE TimedHandler
  BY <1>2 DEF TimedHandler, Handler
<1>3. CASE TimedExpire
  BY <1>3 DEF TimedExpire, Expire
<1>4. CASE TimedStore
  BY <1>4 DEF TimedStore, StorePressed, StoreReleased, MarkRelease, PollNotify
<1>5. CASE Tick
  BY <1>5 DEF Tick
<1>6. CASE TimedRead
  BY <1>6, ReadFrame
<1>7. CASE UNCHANGED vars
  BY <1>7 DEF vars
<1> QED BY <1>1, <1>2, <1>3, <1>4, <1>5, <1>6, <1>7 DEF Next

LEMMA ValueStep == TypeOK /\ ValueInv /\ [Next]_vars => ValueInv'
<1> SUFFICES ASSUME TypeOK, ValueInv, [Next]_vars PROVE ValueInv'
  OBVIOUS
<1>0. /\ line \in {"up", "down"}
      /\ tf \in {"idle", "down", "up", "mark", "notify", "wake"}
  BY DEF TypeOK, DeviceTypeOK
<1> USE <1>0 DEF ValueInv, Level
<1>1. CASE TimedEdge
  BY <1>1 DEF TimedEdge, Edge
<1>2. CASE TimedHandler
  BY <1>2 DEF TimedHandler, Handler
<1>3. CASE TimedExpire
  BY <1>3 DEF TimedExpire, Expire
<1>4. CASE TimedStore
  BY <1>4 DEF TimedStore, StorePressed, StoreReleased, MarkRelease, PollNotify
<1>5. CASE Tick
  BY <1>5 DEF Tick
<1>6. CASE TimedRead
  <2>1. UNCHANGED <<line, irq, armed, tf, keyvalue, moved>>
    BY <1>6, ReadFrame
  <2> QED BY <2>1
<1>7. CASE UNCHANGED vars
  BY <1>7 DEF vars
<1> QED BY <1>1, <1>2, <1>3, <1>4, <1>5, <1>6, <1>7 DEF Next

LEMMA Invariance == Spec => []IInv
<1>1. IInv /\ [Next]_vars => IInv'
  BY TypeStep, CountStep, ValueStep DEF IInv
<1> QED BY <1>1, InitInv, PTL DEF Spec

\* The debouncing driver keeps to its types, whatever the debounce time.
THEOREM TypeCorrect == Spec => []TypeOK
<1>1. IInv => TypeOK
  BY DEF IInv
<1> QED BY <1>1, Invariance, PTL

\* A bouncing contact is not sampled.
THEOREM SamplesSettled == Spec => SampleIsSettled
<1>1. IInv /\ [Next]_vars
        => [tf = "idle" /\ tf' # "idle" => quiet = DEBOUNCE \/ irq]_vars
  <2> SUFFICES ASSUME IInv, Next, tf = "idle", tf' # "idle"
               PROVE  quiet = DEBOUNCE \/ irq
    OBVIOUS
  <2>1. TimedExpire
    BY DEF Next, TimedEdge, Edge, TimedHandler, Handler, TimedStore,
           StorePressed, StoreReleased, MarkRelease, PollNotify, Tick,
           TimedRead, PollProc, PollRead, ReadTail, ReadValue, Deliver, NoData,
           ClearRelease
  <2> QED BY <2>1, DebounceAssumption
          DEF TimedExpire, Expire, IInv, CountInv, TypeOK
<1> QED BY <1>1, Invariance, PTL DEF Spec, SampleIsSettled

\* A line that has moved and come to rest is reported within the debounce
\* time.
THEOREM SettledReported == Spec => []SettledAgrees
<1>1. IInv => SettledAgrees
  BY DebounceAssumption
     DEF IInv, TypeOK, CountInv, ValueInv, DeviceTypeOK, Level, SettledAgrees
<1> QED BY <1>1, Invariance, PTL

=============================================================================
