------------------------------ MODULE KeyProofs ------------------------------
(* Proofs about the key drivers, for any processes and any of the drivers.   *)
EXTENDS KeyDrivers, PolledKey, TLAPS

USE DEF deviceVars, lineVars, valueVars, waitVars, readVars, asyncVars

\* Every step of every driver preserves the types.
LEMMA TypeStep == TypeOK /\ [Next]_vars => TypeOK'
<1> SUFFICES ASSUME TypeOK, [Next]_vars PROVE TypeOK'
  OBVIOUS
<1> USE DEF TypeOK, DeviceTypeOK, AsyncTypeOK, Labels
<1>1. CASE Environment
  <2>1. CASE Edge /\ UNCHANGED <<asyncVars, driver>>
    BY <2>1 DEF Edge
  <2>2. ASSUME NEW p \in Procs, Signal(p), UNCHANGED <<asyncVars, driver>>
        PROVE TypeOK'
    BY <2>2 DEF Signal
  <2>3. ASSUME NEW p \in Procs, FasyncOn(p) \/ FasyncOff(p), UNCHANGED driver
        PROVE TypeOK'
    BY <2>3 DEF FasyncOn, FasyncOff
  <2> QED BY <1>1, <2>1, <2>2, <2>3 DEF Environment
<1>2. CASE Irq
  BY <1>2 DEF Irq, Handler
<1>3. CASE Timer
  <2>1. ASSUME Sample PROVE DeviceTypeOK'
    BY <2>1 DEF Sample, Expire, StorePressed, StoreReleased, MarkRelease
  <2>2. CASE PollTimer /\ UNCHANGED <<asyncVars, driver>>
    BY <2>1, <2>2 DEF PollTimer, PollNotify
  <2>3. CASE BlockTimer /\ UNCHANGED <<asyncVars, driver>>
    BY <2>1, <2>3 DEF BlockTimer, BlockNotify, BlockWake
  <2>4. CASE WaitTimer /\ UNCHANGED <<asyncVars, driver>>
    BY <2>1, <2>4 DEF WaitTimer, WaitNotify, WaitWake
  <2>5. CASE AsyncTimer /\ UNCHANGED driver
    BY <2>1, <2>5 DEF AsyncTimer, AsyncSample, AsyncNotify, KillFasync
  <2> QED BY <1>3, <2>2, <2>3, <2>4, <2>5 DEF Timer
<1>4. ASSUME NEW p \in Procs, Proc(p) PROVE TypeOK'
  <2> USE DEF Goto, Return
  <2>1. ASSUME ReadTail(p) PROVE DeviceTypeOK'
    BY <2>1 DEF ReadTail, ReadValue, Deliver, NoData, ClearRelease
  <2>2. ASSUME WaitEvent(p) PROVE DeviceTypeOK'
    BY <2>2 DEF WaitEvent, WaitRead, WaitCheck, WaitPrepare, WaitRecheck,
                WaitInterrupted, WaitSchedule
  <2>3. ASSUME PollThenRead(p) PROVE DeviceTypeOK'
    BY <2>3 DEF PollThenRead, PollWait, PollCheck, PollSleep, LeavePoll,
                NonBlockingRead, NonBlockingCheck
  <2>4. CASE PollProc(p) /\ UNCHANGED <<asyncVars, driver>>
    BY <2>1, <2>4 DEF PollProc, PollRead
  <2>5. CASE BlockProc(p) /\ UNCHANGED <<asyncVars, driver>>
    BY <2>1, <2>5 DEF BlockProc, BlockRead, BlockCheck, BlockEnqueue,
                      BlockSetState, BlockSchedule, BlockWoken
  <2>6. CASE WaitProc(p) /\ UNCHANGED <<asyncVars, driver>>
    BY <2>1, <2>2, <2>3, <2>6 DEF WaitProc
  <2>7. CASE AsyncProc(p) /\ UNCHANGED driver
    <3>1. CASE AsyncSyscall(p) /\ UNCHANGED asyncVars
      BY <2>1, <2>2, <2>3, <2>7, <3>1 DEF AsyncSyscall, WaitEvent
    <3>2. CASE SigioHandler(p) \/ HandlerReturn(p)
      BY <2>7, <3>2 DEF SigioHandler, HandlerReturn
    <3> QED BY <2>7, <3>1, <3>2 DEF AsyncProc
  <2> QED BY <1>4, <2>4, <2>5, <2>6, <2>7 DEF Proc
<1>5. CASE UNCHANGED vars
  BY <1>5 DEF vars
<1> QED BY <1>1, <1>2, <1>3, <1>4, <1>5 DEF Next

THEOREM TypeCorrect == Spec => []TypeOK
<1>1. Init => TypeOK
  BY DEF Init, DeviceInit, AsyncInit, TypeOK, DeviceTypeOK, AsyncTypeOK, Labels
<1> QED BY <1>1, TypeStep, PTL DEF Spec


-----------------------------------------------------------------------------
(* NoReplay is inductive.  Only MarkRelease, Deliver and ClearRelease touch  *)
(* what it relates; every other step leaves releasekey and fresh alone and   *)
(* moves no process out of "clear".                                          *)

\* A step that does not concern NoReplay.
ReplayFrame ==
  /\ releasekey' = releasekey
  /\ fresh' = fresh
  /\ \A p \in Procs : pc[p] = "clear" => pc'[p] = "clear"

LEMMA ReplayFrameStep == NoReplay /\ ReplayFrame => NoReplay'
  BY DEF NoReplay, ReplayFrame

LEMMA ReplayTimer == TypeOK /\ NoReplay /\ Timer => NoReplay'
<1> SUFFICES ASSUME TypeOK, NoReplay, Timer PROVE NoReplay'
  OBVIOUS
<1>1. CASE Sample
  <2>1. CASE MarkRelease
    BY <2>1 DEF MarkRelease, NoReplay
  <2>2. CASE Expire \/ StorePressed \/ StoreReleased
    BY <2>2, ReplayFrameStep
       DEF Expire, StorePressed, StoreReleased, ReplayFrame
  <2> QED BY <1>1, <2>1, <2>2 DEF Sample
<1>2. CASE PollNotify \/ BlockNotify \/ BlockWake \/ WaitNotify \/ WaitWake
           \/ AsyncNotify \/ KillFasync
  BY <1>2, ReplayFrameStep
     DEF PollNotify, BlockNotify, BlockWake, WaitNotify, WaitWake,
         AsyncNotify, KillFasync, ReplayFrame
<1> QED
  BY <1>1, <1>2
     DEF Timer, PollTimer, BlockTimer, WaitTimer, AsyncTimer, AsyncSample

LEMMA ReplayProc ==
  ASSUME TypeOK, NoReplay, NEW p \in Procs, Proc(p)
  PROVE  NoReplay'
<1> USE DEF TypeOK, DeviceTypeOK, Goto, Return
<1>1. ASSUME ReadTail(p) PROVE NoReplay'
  <2>1. CASE Deliver(p)
    BY <2>1 DEF Deliver, NoReplay
  <2>2. CASE ClearRelease(p)
    BY <2>2 DEF ClearRelease, NoReplay
  <2>3. CASE ReadValue(p) \/ NoData(p)
    BY <2>3, ReplayFrameStep DEF ReadValue, NoData, ReplayFrame
  <2> QED BY <1>1, <2>1, <2>2, <2>3 DEF ReadTail
<1>2. ASSUME WaitEvent(p) PROVE NoReplay'
  BY <1>2, ReplayFrameStep
     DEF WaitEvent, WaitRead, WaitCheck, WaitPrepare, WaitRecheck,
         WaitInterrupted, WaitSchedule, ReplayFrame
<1>3. ASSUME PollThenRead(p) PROVE NoReplay'
  BY <1>3, ReplayFrameStep
     DEF PollThenRead, PollWait, PollCheck, PollSleep, NonBlockingRead,
         NonBlockingCheck, ReplayFrame
<1>4. CASE PollProc(p)
  BY <1>1, <1>4, ReplayFrameStep DEF PollProc, PollRead, ReplayFrame
<1>5. CASE BlockProc(p)
  BY <1>1, <1>5, ReplayFrameStep
     DEF BlockProc, BlockRead, BlockCheck, BlockEnqueue, BlockSetState,
         BlockSchedule, BlockWoken, ReplayFrame
<1>6. CASE WaitProc(p)
  BY <1>1, <1>2, <1>3, <1>6 DEF WaitProc
<1>7. CASE AsyncProc(p)
  <2>1. CASE AsyncSyscall(p)
    BY <1>1, <1>2, <1>3, <2>1 DEF AsyncSyscall, WaitEvent
  <2>2. CASE SigioHandler(p) \/ HandlerReturn(p)
    BY <2>2, ReplayFrameStep DEF SigioHandler, HandlerReturn, ReplayFrame
  <2> QED BY <1>7, <2>1, <2>2 DEF AsyncProc
<1> QED BY <1>4, <1>5, <1>6, <1>7 DEF Proc

\* Whatever the driver, one release is delivered to a process at most once.
THEOREM DeliveredOnce == Spec => []NoReplay
<1>1. Init => NoReplay
  BY DEF Init, DeviceInit, NoReplay
<1>2. TypeOK /\ NoReplay /\ [Next]_vars => NoReplay'
  <2> SUFFICES ASSUME TypeOK, NoReplay, [Next]_vars PROVE NoReplay'
    OBVIOUS
  <2>1. CASE Environment \/ Irq \/ UNCHANGED vars
    BY <2>1, ReplayFrameStep
       DEF Environment, Edge, Signal, FasyncOn, FasyncOff, Irq, Handler, vars,
           ReplayFrame
  <2> QED BY <2>1, ReplayTimer, ReplayProc DEF Next
<1> QED BY <1>1, <1>2, TypeCorrect, PTL DEF Spec

-----------------------------------------------------------------------------
(* All four drivers implement KeyReport.  That a release is offered for a    *)
(* key found up takes that keyvalue stays INVAKEY until releasekey is set;   *)
(* that nobody takes one twice is NoReplay.                                  *)

MarkInv == tf = "mark" => keyvalue = INVAKEY

Taking == {p \in Procs : pc[p] = "clear"}

\* A step that readers do not notice.
ReportFrame ==
  /\ UNCHANGED <<keyvalue, releasekey, fresh>>
  /\ \A p \in Procs : pc'[p] = "clear" <=> pc[p] = "clear"

LEMMA ReportFrameStep ==
  ReportFrame => UNCHANGED <<keyvalue, releasekey, fresh, Taking>>
BY DEF ReportFrame, Taking

\* The step a reader may notice, by what it does.
ReportStep ==
  \/ ReportFrame
  \/ StorePressed \/ StoreReleased \/ MarkRelease
  \/ \E p \in Procs : Deliver(p) \/ ClearRelease(p)

LEMMA TimerReports == TypeOK /\ Timer => ReportStep
<1> SUFFICES ASSUME TypeOK, Timer PROVE ReportStep
  OBVIOUS
<1> USE DEF ReportStep, ReportFrame
<1>1. CASE Sample
  BY <1>1 DEF Sample, Expire
<1>2. CASE PollNotify \/ BlockNotify \/ BlockWake \/ WaitNotify \/ WaitWake
           \/ AsyncNotify \/ KillFasync
  BY <1>2 DEF PollNotify, BlockNotify, BlockWake, WaitNotify, WaitWake,
              AsyncNotify, KillFasync
<1> QED
  BY <1>1, <1>2
     DEF Timer, PollTimer, BlockTimer, WaitTimer, AsyncTimer, AsyncSample

LEMMA ProcReports ==
  ASSUME TypeOK, NEW p \in Procs, Proc(p)
  PROVE  ReportStep
<1> USE DEF ReportStep, TypeOK, DeviceTypeOK, Goto, Return
<1>1. ASSUME ReadTail(p) PROVE ReportStep
  BY <1>1 DEF ReadTail, ReadValue, NoData, ReportFrame
<1>2. ASSUME WaitEvent(p) PROVE ReportStep
  BY <1>2
     DEF WaitEvent, WaitRead, WaitCheck, WaitPrepare, WaitRecheck,
         WaitInterrupted, WaitSchedule, ReportFrame
<1>3. ASSUME PollThenRead(p) PROVE ReportStep
  BY <1>3
     DEF PollThenRead, PollWait, PollCheck, PollSleep, NonBlockingRead,
         NonBlockingCheck, ReportFrame
<1>4. CASE PollProc(p)
  BY <1>1, <1>4 DEF PollProc, PollRead, ReportFrame
<1>5. CASE BlockProc(p)
  BY <1>1, <1>5
     DEF BlockProc, BlockRead, BlockCheck, BlockEnqueue, BlockSetState,
         BlockSchedule, BlockWoken, ReportFrame
<1>6. CASE WaitProc(p)
  BY <1>1, <1>2, <1>3, <1>6 DEF WaitProc
<1>7. CASE AsyncProc(p)
  <2>1. CASE AsyncSyscall(p)
    BY <1>1, <1>2, <1>3, <2>1 DEF AsyncSyscall, WaitEvent
  <2>2. CASE SigioHandler(p) \/ HandlerReturn(p)
    BY <2>2 DEF SigioHandler, HandlerReturn, ReportFrame
  <2> QED BY <1>7, <2>1, <2>2 DEF AsyncProc
<1> QED BY <1>4, <1>5, <1>6, <1>7 DEF Proc

LEMMA MarkStep == TypeOK /\ MarkInv /\ [Next]_vars => MarkInv'
<1> SUFFICES ASSUME TypeOK, MarkInv, [Next]_vars PROVE MarkInv'
  OBVIOUS
<1> USE DEF MarkInv
<1>1. CASE Timer
  BY <1>1 DEF Timer, PollTimer, BlockTimer, WaitTimer, AsyncTimer, AsyncSample,
     Sample, Expire, StorePressed, StoreReleased, MarkRelease, PollNotify,
     BlockNotify, BlockWake, WaitNotify, WaitWake, AsyncNotify, KillFasync,
     TypeOK, DeviceTypeOK
<1>2. ASSUME NEW p \in Procs, Proc(p) PROVE UNCHANGED <<tf, keyvalue>>
  BY <1>2
     DEF Proc, PollProc, PollRead, BlockProc, BlockRead, BlockCheck,
         BlockEnqueue, BlockSetState, BlockSchedule, BlockWoken, WaitProc,
         WaitEvent, WaitRead, WaitCheck, WaitPrepare, WaitRecheck,
         WaitInterrupted, WaitSchedule, PollThenRead, PollWait, PollCheck,
         PollSleep, NonBlockingRead, NonBlockingCheck, AsyncProc, AsyncSyscall,
         SigioHandler, HandlerReturn, ReadTail, ReadValue, Deliver, NoData,
         ClearRelease
<1>3. CASE Environment \/ Irq \/ UNCHANGED vars
  BY <1>3 DEF Environment, Edge, Signal, FasyncOn, FasyncOff, Irq, Handler, vars
<1> QED BY <1>1, <1>2, <1>3 DEF Next

LEMMA NextReports ==
  ASSUME TypeOK, MarkInv, NoReplay, [Next]_vars
  PROVE  [Report!Next]_<<keyvalue, releasekey, fresh, Taking>>
<1>1. ReportStep
  <2>1. CASE Environment \/ Irq \/ UNCHANGED vars
    BY <2>1 DEF Environment, Edge, Signal, FasyncOn, FasyncOff, Irq, Handler,
                vars, ReportStep, ReportFrame
  <2> QED BY <2>1, TimerReports, ProcReports DEF Next
<1> USE DEF Report!Next, TypeOK, DeviceTypeOK
<1>2. CASE ReportFrame
  BY <1>2, ReportFrameStep
<1>3. CASE StorePressed \/ StoreReleased
  BY <1>3 DEF StorePressed, StoreReleased, Report!Sample, Taking
<1>4. CASE MarkRelease
  BY <1>4 DEF MarkRelease, MarkInv, Report!Offer, Taking
<1>5. ASSUME NEW p \in Procs, Deliver(p) PROVE Report!Take(p)
  <2>1. p \in fresh /\ p \notin Taking
    BY <1>5 DEF Deliver, NoReplay, Taking
  <2>2. Taking' = Taking \cup {p}
    BY <1>5 DEF Deliver, Goto, Taking
  <2> QED BY <1>5, <2>1, <2>2 DEF Deliver, Report!Take, Taking
<1>6. ASSUME NEW p \in Procs, ClearRelease(p) PROVE Report!Clear(p)
  <2>1. p \in Taking /\ Taking' = Taking \ {p}
    BY <1>6 DEF ClearRelease, Return, Goto, Taking
  <2> QED BY <1>6, <2>1 DEF ClearRelease, Report!Clear, Taking
<1> QED BY <1>1, <1>2, <1>3, <1>4, <1>5, <1>6 DEF ReportStep

\* Whatever a driver waits with, its readers see the reports of KeyReport.
THEOREM Refinement == Spec => Implements
<1>1. Init => Report!Init /\ MarkInv
  BY DEF Init, DeviceInit, Report!Init, MarkInv
<1>2. TypeOK /\ MarkInv /\ NoReplay /\ [Next]_vars
        => [Report!Next]_<<keyvalue, releasekey, fresh,
                           {p \in Procs : pc[p] = "clear"}>>
  BY NextReports DEF Taking
<1> QED
  BY <1>1, <1>2, MarkStep, TypeCorrect, DeliveredOnce, PTL
     DEF Spec, Implements, Report!Spec

-----------------------------------------------------------------------------
(* The safety half of LevelReported, for all four drivers: no edge is lost   *)
(* between the interrupt, the timer and the function that samples the line.  *)

\* When no interrupt, timer or timer function is under way, keyvalue is what
\* the line says: nothing remains to be done that could put it right later.
LevelAgrees ==
  ~irq /\ ~armed /\ tf = "idle" =>
    keyvalue = IF line = "down" THEN KEY0VALUE ELSE INVAKEY

\* With no further sample to come, the timer function works on this level or
\* has stored it.
LevelInv ==
  ~irq /\ ~armed =>
    /\ tf \in {"up", "down"} => line = tf
    /\ tf = "mark" => line = "up" /\ keyvalue = INVAKEY
    /\ tf \in {"idle", "notify", "wake"} =>
         keyvalue = IF line = "down" THEN KEY0VALUE ELSE INVAKEY

LEMMA LevelStep == TypeOK /\ LevelInv /\ [Next]_vars => LevelInv'
<1> SUFFICES ASSUME TypeOK, LevelInv, [Next]_vars PROVE LevelInv'
  OBVIOUS
<1> USE DEF LevelInv
<1>1. CASE Timer
  <2> USE DEF TypeOK, DeviceTypeOK
  <2>1. CASE Sample
    BY <2>1 DEF Sample, Expire, StorePressed, StoreReleased, MarkRelease
  <2>2. CASE PollNotify \/ BlockNotify \/ WaitNotify \/ AsyncNotify
    BY <2>2 DEF PollNotify, BlockNotify, WaitNotify, AsyncNotify
  <2>3. CASE BlockWake \/ WaitWake \/ KillFasync
    BY <2>3 DEF BlockWake, WaitWake, KillFasync
  <2> QED
    BY <1>1, <2>1, <2>2, <2>3
       DEF Timer, PollTimer, BlockTimer, WaitTimer, AsyncTimer, AsyncSample
<1>2. ASSUME NEW p \in Procs, Proc(p)
      PROVE  UNCHANGED <<line, irq, armed, tf, keyvalue>>
  BY <1>2
     DEF Proc, PollProc, PollRead, BlockProc, BlockRead, BlockCheck,
         BlockEnqueue, BlockSetState, BlockSchedule, BlockWoken, WaitProc,
         WaitEvent, WaitRead, WaitCheck, WaitPrepare, WaitRecheck,
         WaitInterrupted, WaitSchedule, PollThenRead, PollWait, PollCheck,
         PollSleep, NonBlockingRead, NonBlockingCheck, AsyncProc, AsyncSyscall,
         SigioHandler, HandlerReturn, ReadTail, ReadValue, Deliver, NoData,
         ClearRelease
<1>3. CASE Environment \/ Irq \/ UNCHANGED vars
  BY <1>3 DEF Environment, Edge, Signal, FasyncOn, FasyncOff, Irq, Handler, vars
<1> QED BY <1>1, <1>2, <1>3 DEF Next

\* No driver comes to rest with a level that is not that of the line.
THEOREM RestsAtLevel == Spec => []LevelAgrees
<1>1. Init => LevelInv
  BY DEF Init, DeviceInit, LevelInv
<1>2. LevelInv => LevelAgrees
  BY DEF LevelInv, LevelAgrees
<1> QED BY <1>1, <1>2, LevelStep, TypeCorrect, PTL DEF Spec

-----------------------------------------------------------------------------
(* noblockio.c.  NoLostWakeup is not inductive: that a wake_up reaches a     *)
(* sleeper takes that whoever is parked is on the wait queue, and that a     *)
(* process in poll() stays there.                                            *)

PollLabels == {"pollcheck", "pollsleep", "pollexpired"}

WaitInv ==
  driver = "noblockio" =>
    /\ parked \subseteq queue
    /\ \A p \in Procs :
         /\ p \in parked => pc[p] \in {"recheck", "schedule"} \cup PollLabels
         /\ pc[p] \in PollLabels => p \in queue /\ p \in NonBlocking
    /\ NoLostWakeup

LEMMA WaitTimerStep ==
  ASSUME TypeOK, WaitInv, driver = "noblockio", WaitTimer, UNCHANGED driver
  PROVE  WaitInv'
<1> USE DEF WaitInv, NoLostWakeup, Asleep, PollLabels
<1>1. CASE Sample
  BY <1>1 DEF Sample, Expire, StorePressed, StoreReleased, MarkRelease
<1>2. CASE WaitNotify
  BY <1>2 DEF WaitNotify, TypeOK, DeviceTypeOK
<1>3. CASE WaitWake
  BY <1>3 DEF WaitWake
<1> QED BY <1>1, <1>2, <1>3 DEF WaitTimer

LEMMA WaitProcStep ==
  ASSUME TypeOK, WaitInv, driver = "noblockio", UNCHANGED driver,
         NEW p \in Procs, WaitProc(p)
  PROVE  WaitInv'
<1> USE DEF WaitInv, NoLostWakeup, Asleep, PollLabels, TypeOK, DeviceTypeOK,
            Goto, Return
<1>1. CASE WaitRead(p) \/ WaitCheck(p)
  BY <1>1 DEF WaitRead, WaitCheck
<1>2. CASE WaitPrepare(p)
  BY <1>2 DEF WaitPrepare
<1>3. CASE WaitRecheck(p)
  BY <1>3 DEF WaitRecheck
<1>4. CASE WaitInterrupted(p)
  BY <1>4 DEF WaitInterrupted
<1>5. CASE WaitSchedule(p)
  BY <1>5 DEF WaitSchedule
<1>6. CASE PollWait(p)
  BY <1>6 DEF PollWait
<1>7. CASE PollCheck(p)
  BY <1>7 DEF PollCheck, LeavePoll
<1>8. CASE PollSleep(p)
  BY <1>8 DEF PollSleep
<1>9. CASE NonBlockingRead(p) \/ NonBlockingCheck(p)
  BY <1>9 DEF NonBlockingRead, NonBlockingCheck
<1>10. CASE ReadTail(p)
  BY <1>10 DEF ReadTail, ReadValue, Deliver, NoData, ClearRelease
<1> QED
  BY <1>1, <1>2, <1>3, <1>4, <1>5, <1>6, <1>7, <1>8, <1>9, <1>10
     DEF WaitProc, WaitEvent, PollThenRead

LEMMA WaitInvStep == TypeOK /\ WaitInv /\ [Next]_vars => WaitInv'
<1> SUFFICES ASSUME TypeOK, WaitInv, [Next]_vars, driver = "noblockio"
             PROVE  WaitInv'
  BY DEF WaitInv, Next, Environment, Irq, Timer, Proc, vars
<1>1. CASE Timer
  BY <1>1, WaitTimerStep DEF Timer
<1>2. ASSUME NEW p \in Procs, Proc(p) PROVE WaitInv'
  BY <1>2, WaitProcStep DEF Proc
<1>3. CASE Environment
  BY <1>3 DEF Environment, Edge, Signal, WaitInv, NoLostWakeup, Asleep,
              PollLabels, TypeOK, DeviceTypeOK
<1>4. CASE Irq \/ UNCHANGED vars
  BY <1>4 DEF Irq, Handler, vars, WaitInv, NoLostWakeup, Asleep, PollLabels
<1> QED BY <1>1, <1>2, <1>3, <1>4 DEF Next

\* imx6uirq.c, whose read() never waits, parks nobody.
IdleInv == driver = "imx6uirq" => parked = {}

LEMMA IdleInvStep == IdleInv /\ [Next]_vars => IdleInv'
<1> SUFFICES ASSUME parked = {}, [Next]_vars, driver = "imx6uirq"
             PROVE  parked' = {}
  BY DEF IdleInv, Next, Environment, Irq, Timer, Proc, vars
<1>1. CASE Timer
  BY <1>1
     DEF Timer, PollTimer, Sample, Expire, StorePressed, StoreReleased,
         MarkRelease, PollNotify, waitVars
<1>2. ASSUME NEW p \in Procs, Proc(p) PROVE parked' = {}
  BY <1>2 DEF Proc, PollProc, PollRead, ReadTail, ReadValue, Deliver, NoData,
              ClearRelease, Return, waitVars
<1>3. CASE Environment \/ Irq \/ UNCHANGED vars
  BY <1>3 DEF Environment, Edge, Signal, Irq, Handler, vars, deviceVars,
              waitVars
<1> QED BY <1>1, <1>2, <1>3 DEF Next

\* In noblockio.c nobody sleeps through a release, in read() or in poll(), nor
\* in imx6uirq.c.  (In blockio.c a wake_up can come too early, and asyncnoti.c
\* wakes nobody.)
THEOREM WakeupNotLost ==
  Spec => [](driver \in {"imx6uirq", "noblockio"} => NoLostWakeup)
<1>1. Init => WaitInv /\ IdleInv
  BY DEF Init, DeviceInit, WaitInv, NoLostWakeup, Asleep, PollLabels, IdleInv
<1>2. WaitInv /\ IdleInv
        => (driver \in {"imx6uirq", "noblockio"} => NoLostWakeup)
  BY DEF WaitInv, IdleInv, NoLostWakeup, Asleep
<1> QED BY <1>1, <1>2, WaitInvStep, IdleInvStep, TypeCorrect, PTL DEF Spec

-----------------------------------------------------------------------------
(* blockio.c.  NoLostWakeup fails there; what holds is that a wake_up misses *)
(* nobody who is asleep when it runs.                                        *)

BlockInv ==
  driver = "blockio" =>
    \A p \in Procs :
      /\ p \in parked => pc[p] = "schedule"
      /\ pc[p] \in {"setstate", "schedule", "woken"} => p \in queue

LEMMA BlockInvStep == TypeOK /\ BlockInv /\ [Next]_vars => BlockInv'
<1> SUFFICES ASSUME TypeOK, BlockInv, [Next]_vars, driver = "blockio"
             PROVE  BlockInv'
  BY DEF BlockInv, Next, Environment, Irq, Timer, Proc, vars
<1> USE DEF BlockInv
<1>1. CASE Timer
  BY <1>1
     DEF Timer, BlockTimer, Sample, Expire, StorePressed, StoreReleased,
         MarkRelease, BlockNotify, BlockWake
<1>2. ASSUME NEW p \in Procs, Proc(p) PROVE BlockInv'
  <2> USE DEF TypeOK, DeviceTypeOK, Goto, Return
  <2>1. CASE BlockRead(p) \/ BlockCheck(p) \/ BlockEnqueue(p) \/ BlockSetState(p)
    BY <1>2, <2>1
       DEF Proc, BlockRead, BlockCheck, BlockEnqueue, BlockSetState
  <2>2. CASE BlockSchedule(p) \/ BlockWoken(p)
    BY <1>2, <2>2 DEF Proc, BlockSchedule, BlockWoken
  <2>3. CASE ReadTail(p)
    BY <1>2, <2>3 DEF Proc, ReadTail, ReadValue, Deliver, NoData, ClearRelease
  <2> QED BY <1>2, <2>1, <2>2, <2>3 DEF Proc, BlockProc
<1>3. CASE Environment
  BY <1>3 DEF Environment, Edge, Signal, TypeOK, DeviceTypeOK
<1>4. CASE Irq \/ UNCHANGED vars
  BY <1>4 DEF Irq, Handler, vars
<1> QED BY <1>1, <1>2, <1>3, <1>4 DEF Next

\* In blockio.c every wake_up leaves nobody asleep.
THEOREM WakeupReachesAll == Spec => WakeReachesAll
<1>1. Init => BlockInv
  BY DEF Init, DeviceInit, BlockInv
<1>2. BlockInv /\ [Next]_vars
        => [driver = "blockio" /\ tf = "wake" /\ tf' = "idle"
              => \A p \in Procs : ~Asleep(p)']_vars
  <2> SUFFICES ASSUME BlockInv, Next, driver = "blockio", tf = "wake",
                      tf' = "idle", NEW p \in Procs
               PROVE  ~Asleep(p)'
    OBVIOUS
  <2>1. BlockWake
    BY DEF Next, Environment, Edge, Signal, Irq, Handler, Timer, BlockTimer,
           Sample, Expire, StorePressed, StoreReleased, MarkRelease,
           BlockNotify, Proc, BlockProc, BlockRead, BlockCheck, BlockEnqueue,
           BlockSetState, BlockSchedule, BlockWoken, ReadTail, ReadValue,
           Deliver, NoData, ClearRelease
  <2> QED BY <2>1 DEF BlockWake, BlockInv, Asleep
<1> QED BY <1>1, <1>2, BlockInvStep, TypeCorrect, PTL DEF Spec, WakeReachesAll

-----------------------------------------------------------------------------
(* asyncnoti.c.  SigioReachesApps is not inductive either: a process inside  *)
(* its handler may leave it without SIGIO pending only after it has taken    *)
(* the release, so where it stands in read() has to be known.                *)

SigioInv ==
  driver = "asyncnoti" =>
    /\ owed \subseteq async_queue
    /\ releasekey = 1 /\ keyvalue = INVAKEY /\ tf = "idle" =>
         \A p \in owed \ sigio :
           /\ p \in handling
           /\ pc[p] # "user"
           /\ pc[p] = "release" => kv[p] = INVAKEY

LEMMA SigioTimerStep ==
  ASSUME TypeOK, SigioInv, driver = "asyncnoti", AsyncTimer, UNCHANGED driver
  PROVE  SigioInv'
<1> USE DEF SigioInv
<1>1. CASE AsyncSample
  BY <1>1 DEF AsyncSample, Sample, Expire, StorePressed, StoreReleased,
              MarkRelease, TypeOK, DeviceTypeOK
<1>2. CASE AsyncNotify
  BY <1>2 DEF AsyncNotify
<1>3. CASE KillFasync
  BY <1>3 DEF KillFasync
<1> QED BY <1>1, <1>2, <1>3 DEF AsyncTimer

LEMMA SigioProcStep ==
  ASSUME TypeOK, SigioInv, driver = "asyncnoti", UNCHANGED driver,
         NEW p \in Procs, AsyncProc(p)
  PROVE  SigioInv'
<1> USE AsyncAppsAssumption DEF SigioInv, TypeOK, DeviceTypeOK, AsyncTypeOK, Goto, Return
<1>1. ASSUME UNCHANGED asyncVars, WaitEvent(p) PROVE SigioInv'
  <2>1. CASE WaitRead(p)
    BY <1>1, <2>1 DEF WaitRead
  <2>2. CASE WaitCheck(p)
    BY <1>1, <2>2 DEF WaitCheck
  <2>3. CASE WaitPrepare(p)
    BY <1>1, <2>3 DEF WaitPrepare
  <2>4. CASE WaitRecheck(p)
    BY <1>1, <2>4 DEF WaitRecheck
  <2>5. CASE WaitInterrupted(p)
    BY <1>1, <2>5 DEF WaitInterrupted
  <2>6. CASE WaitSchedule(p)
    BY <1>1, <2>6 DEF WaitSchedule
  <2> QED BY <1>1, <2>1, <2>2, <2>3, <2>4, <2>5, <2>6 DEF WaitEvent
<1>2. ASSUME UNCHANGED asyncVars, PollThenRead(p) PROVE SigioInv'
  <2>1. CASE PollWait(p)
    BY <1>2, <2>1 DEF PollWait
  <2>2. CASE PollCheck(p)
    BY <1>2, <2>2 DEF PollCheck, LeavePoll
  <2>3. CASE PollSleep(p)
    BY <1>2, <2>3 DEF PollSleep
  <2>4. CASE NonBlockingRead(p)
    BY <1>2, <2>4 DEF NonBlockingRead
  <2>5. CASE NonBlockingCheck(p)
    BY <1>2, <2>5 DEF NonBlockingCheck
  <2> QED BY <1>2, <2>1, <2>2, <2>3, <2>4, <2>5 DEF PollThenRead
<1>3. ASSUME UNCHANGED asyncVars, ReadTail(p) PROVE SigioInv'
  <2>1. CASE ReadValue(p)
    BY <1>3, <2>1 DEF ReadValue
  <2>2. CASE Deliver(p)
    BY <1>3, <2>2 DEF Deliver
  <2>3. CASE NoData(p)
    BY <1>3, <2>3 DEF NoData
  <2>4. CASE ClearRelease(p)
    BY <1>3, <2>4 DEF ClearRelease
  <2> QED BY <1>3, <2>1, <2>2, <2>3, <2>4 DEF ReadTail
<1>4. CASE SigioHandler(p)
  BY <1>4 DEF SigioHandler
<1>5. CASE HandlerReturn(p)
  BY <1>5 DEF HandlerReturn
<1> QED BY <1>1, <1>2, <1>3, <1>4, <1>5 DEF AsyncProc, AsyncSyscall, WaitEvent

LEMMA SigioInvStep == TypeOK /\ SigioInv /\ [Next]_vars => SigioInv'
<1> SUFFICES ASSUME TypeOK, SigioInv, [Next]_vars, driver = "asyncnoti"
             PROVE  SigioInv'
  BY DEF SigioInv, Next, Environment, Irq, Timer, Proc, vars
<1>1. CASE Timer
  BY <1>1, SigioTimerStep DEF Timer
<1>2. ASSUME NEW p \in Procs, Proc(p) PROVE SigioInv'
  BY <1>2, SigioProcStep DEF Proc
<1>3. CASE Environment
  BY <1>3 DEF Environment, Edge, Signal, FasyncOn, FasyncOff, SigioInv
<1>4. CASE Irq \/ UNCHANGED vars
  BY <1>4 DEF Irq, Handler, vars, SigioInv
<1> QED BY <1>1, <1>2, <1>3, <1>4 DEF Next

\* In asyncnoti.c no registered process is left without SIGIO for a release
\* that waits to be read.
THEOREM SigioNotLost == Spec => []SigioReachesApps
<1>1. Init => SigioInv
  BY DEF Init, DeviceInit, AsyncInit, SigioInv
<1>2. SigioInv => SigioReachesApps
  BY DEF SigioInv, SigioReachesApps
<1> QED BY <1>1, <1>2, SigioInvStep, TypeCorrect, PTL DEF Spec

-----------------------------------------------------------------------------
(* 11_key.  A call that nobody overlaps finds in keylock what it has stored  *)
(* there: while a reader is not alone, it and the others are marked.         *)

PolledInv ==
  /\ PolledTypeOK
  /\ \A r \in Readers :
       /\ at[r] # "idle" => got[r] = "nothing"
       /\ at[r] = "load" /\ ~shared[r] => keylock = saw[r]
       /\ at[r] # "idle" /\ ~shared[r] =>
            \A q \in Readers \ {r} : at[q] = "idle"
  /\ AnswerIsOwn

LEMMA PolledStep == PolledInv /\ [PolledNext]_polledVars => PolledInv'
<1> SUFFICES ASSUME PolledInv, [PolledNext]_polledVars PROVE PolledInv'
  OBVIOUS
<1> USE DEF PolledInv, PolledTypeOK, AnswerIsOwn, Values, MoveTo
<1>1. CASE PolledEdge
  BY <1>1 DEF PolledEdge
<1>2. ASSUME NEW r \in Readers, PolledSample(r) PROVE PolledInv'
  BY <1>2 DEF PolledSample, Reading
<1>3. ASSUME NEW r \in Readers, Spin(r) PROVE PolledInv'
  BY <1>3 DEF Spin
<1>4. ASSUME NEW r \in Readers, Store(r) PROVE PolledInv'
  BY <1>4 DEF Store
<1>5. ASSUME NEW r \in Readers, Load(r) PROVE PolledInv'
  BY <1>5 DEF Load
<1>6. CASE UNCHANGED polledVars
  BY <1>6 DEF polledVars
<1> QED
  BY <1>1, <1>2, <1>3, <1>4, <1>5, <1>6 DEF PolledNext, PolledRead

\* However many readers share keylock, a call that none of them overlaps
\* returns what it has seen.
THEOREM PolledReturnsOwn == PolledSpec => []AnswerIsOwn
<1>1. PolledInit => PolledInv
  BY DEF PolledInit, PolledInv, PolledTypeOK, AnswerIsOwn, Values
<1>2. PolledInv => AnswerIsOwn
  BY DEF PolledInv
<1> QED BY <1>1, <1>2, PolledStep, PTL DEF PolledSpec

=============================================================================
