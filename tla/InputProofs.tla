------------------------------ MODULE InputProofs ------------------------------
(***************************************************************************)
(* Proofs about the devices of the input core.  PwmBeeper: it is silent    *)
(* while suspended and while closed, and its amplifier follows the PWM,    *)
(* for any users and any bell.  TouchPanel: the touched slots follow the   *)
(* fingers, for any slots and any number of failed transfers.              *)
(***************************************************************************)
EXTENDS PwmBeeper, TouchPanel, FiniteSetTheorems, TLAPS

\* The flag is set from the return of the critical section of
\* pwm_beeper_suspend to that of pwm_beeper_resume.
FlagInv == suspended <=> pm \in {"stop", "asleep"}

\* pwm_beeper_stop runs for a suspend, or for a close of the last handle, and
\* then nothing schedules the work item that it has cancelled.
StopInv ==
  /\ stop # "idle" => pm = "stop" \/ (pm = "awake" /\ open = {})
  /\ pm = "stop" => stop # "idle"
  /\ stop \in {"wait", "ampoff", "pwmoff"} => ~pending
  /\ stop \in {"ampoff", "pwmoff"} => work = "idle"
  /\ pm = "asleep" => pwm = 0 /\ ~amp /\ ~pending /\ work = "idle"

\* Amplifier and PWM go together wherever neither thread is between the two.
HardwareInv ==
  /\ amp => pwm # 0
  /\ work = "apply" => local # 0
  /\ work = "enable" => ~amp /\ pwm # 0
  /\ work = "pwmoff" \/ stop = "pwmoff" => ~amp
  /\ work \in {"idle", "read", "apply", "ampoff"} /\ stop # "pwmoff"
       => (amp <=> pwm # 0)

\* A period that is not 0 is that of a sound the input core believes to be on,
\* and will turn off when it suspends the device.
SoundInv == period # 0 => snd # {}

\* Once closed, only what turns the beeper off may still run.
ClosedInv ==
  open = {} /\ ~restored =>
    /\ pm # "awake" => period = 0
    /\ stop = "idle" =>
         /\ pwm = 0 /\ ~amp
         /\ work \in {"idle", "read", "ampoff", "pwmoff"}
         /\ pending \/ work = "read" => period = 0

IInv ==
  /\ TypeOK
  /\ FlagInv /\ StopInv /\ HardwareInv /\ SoundInv /\ ClosedInv

USE DEF IInv, TypeOK, FlagInv, StopInv, HardwareInv, SoundInv, ClosedInv, Codes,
    dataVars, hardware, workVars, coreVars

LEMMA InitInv == Init => IInv
  BY BeeperAssumption DEF Init

\* The work item.
LEMMA WorkKeeps == IInv /\ Work => IInv'
<1> SUFFICES ASSUME IInv, Work PROVE IInv'
  OBVIOUS
<1>1. CASE WorkStart
  BY <1>1 DEF WorkStart
<1>2. CASE WorkRead
  BY <1>2 DEF WorkRead
<1>3. CASE WorkApply
  BY <1>3 DEF WorkApply
<1>4. CASE WorkEnable
  <2>1. CASE amp' = TRUE /\ UNCHANGED <<pwm, failed>>
    BY <1>4, <2>1 DEF WorkEnable
  <2>2. CASE pwm' = 0 /\ failed' = TRUE /\ UNCHANGED amp
    BY <1>4, <2>2 DEF WorkEnable
  <2> QED BY <1>4, <2>1, <2>2 DEF WorkEnable
<1>5. CASE WorkAmpOff
  BY <1>5 DEF WorkAmpOff
<1>6. CASE WorkPwmOff
  BY <1>6 DEF WorkPwmOff
<1> QED BY <1>1, <1>2, <1>3, <1>4, <1>5, <1>6 DEF Work

\* pwm_beeper_stop.
LEMMA StopKeeps == IInv /\ Stop => IInv'
<1> SUFFICES ASSUME IInv, Stop PROVE IInv'
  OBVIOUS
<1>1. CASE StopCancel
  BY <1>1 DEF StopCancel
<1>2. CASE StopWait
  BY <1>2 DEF StopWait
<1>3. CASE StopAmpOff
  BY <1>3 DEF StopAmpOff
<1>4. CASE StopPwmOff
  BY <1>4 DEF StopPwmOff
<1> QED BY <1>1, <1>2, <1>3, <1>4 DEF Stop

\* Suspend and resume.
LEMMA PowerKeeps == IInv /\ (PowerStep \/ Freeze) => IInv'
<1> SUFFICES ASSUME IInv, PowerStep \/ Freeze PROVE IInv'
  OBVIOUS
<1>1. CASE Suspend
  BY <1>1 DEF Suspend
<1>2. CASE Resume
  BY <1>2 DEF Resume
<1>3. CASE ResumeWork
  BY <1>3 DEF ResumeWork, Schedule
<1>4. CASE CoreResume
  BY <1>4, BeeperAssumption DEF CoreResume, SetPeriod, Schedule
<1>5. CASE Freeze
  BY <1>5, BeeperAssumption DEF Freeze, SetPeriod, Schedule
<1> QED BY <1>1, <1>2, <1>3, <1>4, <1>5 DEF PowerStep

\* A handle on the device.
LEMMA UserKeeps ==
  ASSUME NEW u \in Users, IInv,
         Open(u) \/ Close(u) \/ \E code \in Codes : Event(u, code)
  PROVE  IInv'
<1>1. CASE Open(u)
  BY <1>1 DEF Open
<1>2. CASE Close(u)
  <2>1. CASE open' = {}
    BY <1>2, <2>1 DEF Close
  <2>2. CASE open' # {}
    BY <1>2, <2>2 DEF Close
  <2> QED BY <2>1, <2>2
<1>3. ASSUME NEW code \in Codes, Event(u, code) PROVE IInv'
  <2>1. CASE SetPeriod(BellPeriod) /\ snd' = snd \cup {code}
    <3>1. SoundInv' /\ TypeOK'
      BY <1>3, <2>1, BeeperAssumption DEF Event, SetPeriod, Schedule
    <3>2. FlagInv' /\ StopInv' /\ HardwareInv' /\ ClosedInv'
      BY <1>3, <2>1, BeeperAssumption DEF Event, SetPeriod, Schedule
    <3> QED BY <3>1, <3>2
  <2>2. CASE SetPeriod(0) /\ snd' = snd \ {code}
    <3>1. SoundInv' /\ TypeOK'
      BY <1>3, <2>2, BeeperAssumption DEF Event, SetPeriod, Schedule
    <3>2. FlagInv' /\ StopInv' /\ HardwareInv' /\ ClosedInv'
      BY <1>3, <2>2, BeeperAssumption DEF Event, SetPeriod, Schedule
    <3> QED BY <3>1, <3>2
  <2> QED BY <1>3, <2>1, <2>2 DEF Event
<1> QED BY <1>1, <1>2, <1>3

LEMMA NextInv == IInv /\ [Next]_vars => IInv'
<1> SUFFICES ASSUME IInv, [Next]_vars PROVE IInv'
  OBVIOUS
<1>1. CASE Next
  BY <1>1, WorkKeeps, StopKeeps, PowerKeeps, UserKeeps DEF Next
<1>2. CASE UNCHANGED vars
  BY <1>2 DEF vars
<1> QED BY <1>1, <1>2

HIDE DEF IInv

THEOREM InvHolds == Spec => []IInv
  BY InitInv, NextInv, PTL DEF Spec

-----------------------------------------------------------------------------

\* Every variable keeps to its type.
THEOREM TypeCorrect == Spec => []TypeOK
<1>1. IInv => TypeOK
  BY DEF IInv
<1> QED BY <1>1, InvHolds, PTL

\* Suspended, the beeper is silent, and nothing is about to change that.
THEOREM SilentAsleep == Spec => []SuspendHolds
<1>1. IInv => SuspendHolds
  BY DEF IInv, SuspendHolds
<1> QED BY <1>1, InvHolds, PTL

\* The amplifier has its supply only while the PWM runs.
THEOREM AmplifierOff == Spec => []AmplifierFollows
<1>1. IInv => AmplifierFollows
  BY DEF IInv, AmplifierFollows
<1> QED BY <1>1, InvHolds, PTL

\* Closed, the beeper is silent.
THEOREM SilentClosed == Spec => []QuietWhenClosed
<1>1. IInv => QuietWhenClosed
  BY DEF IInv, QuietWhenClosed
<1> QED BY <1>1, InvHolds, PTL

-----------------------------------------------------------------------------
(* TouchPanel.                                                               *)

HIDE DEF TypeOK, FlagInv, StopInv, HardwareInv, SoundInv, ClosedInv, Codes,
    dataVars, hardware, workVars, coreVars

\* FT5x06: once a scan has been read, what is reported is what it found; a
\* finger that is reported and of which the scan says nothing has been lost.
FtInv ==
  driver = "ft5x06" =>
    /\ pc = "idle"
    /\ \A f \in Slots : event[f] \in {"down", "on"} <=> f \in scan
    /\ \A f \in Slots \ lost : event[f] = "none" => f \notin reported
    /\ ~fresh => \A f \in Slots \ lost : f \in reported <=> f \in scan

\* GT9147: a handler that has found no finger has released the one reported,
\* before it clears the status.
GtInv ==
  driver = "gt9147" =>
    /\ pc = "clear" /\ num = 0 => reported = {}
    /\ pc = "idle" /\ ~ready /\ scan = {} /\ lost = {} => reported = {}

TouchInv == TouchTypeOK /\ FtInv /\ GtInv

\* What GtStatus reads is a number of slots.
LEMMA FingersFinite ==
  ASSUME NEW S, S \subseteq Slots
  PROVE  Cardinality(S) \in 0 .. Cardinality(Slots)
<1>1. IsFiniteSet(Slots)
  BY TouchAssumption
<1>2. IsFiniteSet(S) /\ Cardinality(S) <= Cardinality(Slots)
  BY <1>1, FS_Subset
<1>3. Cardinality(Slots) \in Nat /\ Cardinality(S) \in Nat
  BY <1>1, <1>2, FS_CardinalityType
<1> QED BY <1>2, <1>3

\* One more error is within the bound.
LEMMA FailKeeps ==
  errors \in 0 .. MaxErrors /\ (Fail \/ UNCHANGED errors)
    => errors' \in 0 .. MaxErrors
BY TouchAssumption DEF Fail

\* The panel, and the fingers on it.
LEMMA PanelKeeps ==
  TouchInv /\ (Press \/ (\E f \in Slots : Lift(f)) \/ Scan) => TouchInv'
<1> SUFFICES ASSUME TouchInv, Press \/ (\E f \in Slots : Lift(f)) \/ Scan
             PROVE  TouchInv'
  OBVIOUS
<1> USE DEF TouchInv, TouchTypeOK, FtInv, GtInv, panel, handler, Events
<1>1. CASE Press
  BY <1>1 DEF Press
<1>2. ASSUME NEW f \in Slots, Lift(f) PROVE TouchInv'
  BY <1>2 DEF Lift
<1>3. CASE FtScan
  <2>1. TouchTypeOK'
    BY <1>3 DEF FtScan, Ups
  <2>2. FtInv'
    BY <1>3 DEF FtScan, Ups
  <2> QED BY <1>3, <2>1, <2>2 DEF FtScan
<1>4. CASE GtScan
  BY <1>4 DEF GtScan
<1> QED BY <1>1, <1>2, <1>3, <1>4 DEF Scan

LEMMA FtKeeps == TouchInv /\ FtHandler => TouchInv'
<1> SUFFICES ASSUME TouchInv, FtHandler PROVE TouchInv'
  OBVIOUS
<1> USE DEF TouchInv, FtHandler, panel, handler, Ups
<1>1. TouchTypeOK'
  BY FailKeeps DEF TouchTypeOK
<1>2. FtInv' /\ GtInv'
  BY DEF TouchTypeOK, FtInv, GtInv, FtDown, Events
<1> QED BY <1>1, <1>2

LEMMA GtKeeps ==
  TouchInv /\ (GtStatus \/ GtPoint \/ GtReport \/ GtClear) => TouchInv'
<1> SUFFICES ASSUME TouchInv, GtStatus \/ GtPoint \/ GtReport \/ GtClear
             PROVE  TouchInv'
  OBVIOUS
<1> USE DEF TouchInv, panel, handler
<1>1. CASE GtStatus
  <2>1. num' \in 0 .. Cardinality(Slots)
    BY <1>1, FingersFinite DEF GtStatus, TouchTypeOK
  <2>2. id' \in Slots /\ errors' \in 0 .. MaxErrors
    BY <1>1, FailKeeps, TouchAssumption DEF GtStatus, TouchTypeOK
  <2>3. pc' \in {"idle", "point", "report", "clear"}
    BY <1>1 DEF GtStatus
  <2>4. TouchTypeOK'
    BY <1>1, <2>1, <2>2, <2>3 DEF GtStatus, TouchTypeOK
  <2>5. pc' # "clear" /\ pc = "idle" /\ driver = "gt9147"
    BY <1>1 DEF GtStatus
  <2> QED BY <1>1, <2>4, <2>5 DEF GtStatus, FtInv, GtInv
<1>2. CASE GtPoint
  <2>1. TouchTypeOK'
    BY <1>2, FailKeeps DEF GtPoint, TouchTypeOK
  <2> QED BY <1>2, <2>1 DEF GtPoint, FtInv, GtInv
<1>3. CASE GtReport
  <2>1. TouchTypeOK'
    BY <1>3, TouchAssumption DEF GtReport, TouchTypeOK
  <2> QED BY <1>3, <2>1 DEF GtReport, FtInv, GtInv
<1>4. CASE GtClear
  <2>1. TouchTypeOK'
    BY <1>4, FailKeeps, TouchAssumption DEF GtClear, TouchTypeOK
  <2>2. num > 0 \/ num = 0
    BY FingersFinite DEF TouchTypeOK
  <2> QED BY <1>4, <2>1, <2>2 DEF GtClear, FtInv, GtInv
<1> QED BY <1>1, <1>2, <1>3, <1>4

\* At rest the touched slots are the fingers on the panel, however scans and
\* reads interleave and whichever transfers fail.
THEOREM SlotsFollow == TouchSpec => []TouchFollows
<1>1. TouchInit => TouchInv
  <2>1. TouchInit => TouchTypeOK
    <3>1. Cardinality({}) = 0 /\ Cardinality({}) \in 0 .. Cardinality(Slots)
      BY FingersFinite, FS_EmptySet
    <3>2. 0 \in 0 .. MaxErrors /\ 0 \in Slots
      BY TouchAssumption
    <3> QED BY <3>1, <3>2 DEF TouchInit, TouchTypeOK, Events
  <2> QED BY <2>1 DEF TouchInit, TouchInv, FtInv, GtInv
<1>2. TouchInv /\ [TouchNext]_touchVars => TouchInv'
  <2>1. TouchInv /\ UNCHANGED touchVars => TouchInv'
    BY DEF touchVars, TouchInv, TouchTypeOK, FtInv, GtInv, panel, handler
  <2> QED BY <2>1, PanelKeeps, FtKeeps, GtKeeps DEF TouchNext, Handler
<1>3. TouchInv => TouchFollows
  BY DEF TouchInv, TouchTypeOK, FtInv, GtInv, TouchFollows
<1> QED BY <1>1, <1>2, <1>3, PTL DEF TouchSpec

=============================================================================
