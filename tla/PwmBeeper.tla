------------------------------ MODULE PwmBeeper ------------------------------
(***************************************************************************)
(* itop4412_pwm_beep_ok/my_pwm-beeper_5.3.18.c: a beeper behind the input  *)
(* core.  The event callback runs under the event lock of the input device *)
(* and may not sleep, so it only stores the period and schedules a work    *)
(* item, which switches the PWM and its amplifier.  close(), suspend and   *)
(* resume come from other threads.                                         *)
(***************************************************************************)
EXTENDS Naturals

CONSTANTS
  Users,       \* handles on the input device
  Console,     \* those of the console, which the freezer does not stop
  BellPeriod   \* HZ_TO_NANOSECONDS(beeper->bell_frequency)

ASSUME BeeperAssumption ==
  /\ Console \subseteq Users
  /\ BellPeriod \in Nat \ {0}

VARIABLES
  period,      \* beeper->period
  suspended,   \* beeper->suspended
  amp,         \* beeper->amplifier_on: the amplifier has its supply
  pwm,         \* the period the PWM runs with; 0 is disabled
  pending,     \* the work item is queued
  work,        \* where pwm_beeper_work stands
  local,       \* its local variable period
  stop,        \* where pwm_beeper_stop stands
  pm,          \* where the system stands in a suspend or resume
  open,        \* handles that are open
  snd,         \* the sounds the input core believes to be on
  asked,       \* history: what the last event or close() asks the PWM to be
  failed,      \* history: the last run of the work item met an error
  restored     \* history: an event of the input core itself since close()

dataVars == <<period, suspended, asked>>
hardware == <<amp, pwm>>
workVars == <<pending, work, local, failed>>
coreVars == <<open, snd, restored>>
vars == <<dataVars, hardware, workVars, stop, pm, coreVars>>

Codes == {"bell", "tone"}

TypeOK ==
  /\ period \in {0, BellPeriod}
  /\ suspended \in BOOLEAN
  /\ amp \in BOOLEAN
  /\ pwm \in {0, BellPeriod}
  /\ pending \in BOOLEAN
  /\ work \in {"idle", "read", "apply", "enable", "ampoff", "pwmoff"}
  /\ local \in {0, BellPeriod}
  /\ stop \in {"idle", "cancel", "wait", "ampoff", "pwmoff"}
  /\ pm \in {"awake", "flag", "stop", "asleep", "schedule", "core"}
  /\ open \subseteq Users
  /\ snd \subseteq Codes
  /\ asked \in {0, BellPeriod}
  /\ failed \in BOOLEAN
  /\ restored \in BOOLEAN

\* After pwm_beeper_probe.
Init ==
  /\ period = 0 /\ suspended = FALSE /\ asked = 0
  /\ amp = FALSE /\ pwm = 0
  /\ pending = FALSE /\ work = "idle" /\ local = 0 /\ failed = FALSE
  /\ stop = "idle"
  /\ pm = "awake"
  /\ open = {} /\ snd = {} /\ restored = FALSE

\* Schedule that takes a running work item for a queued one (a bug some property
\* must notice; the same goes for every operator named Bug...).
BugScheduleIdle == pending' = (pending \/ (stop # "wait" /\ work = "idle"))

\* schedule_work.  It does nothing if the item is queued, and nothing while
\* cancel_work_sync is waiting for it.
Schedule == pending' = (pending \/ stop # "wait")

-----------------------------------------------------------------------------
(* pwm_beeper_event, under the event lock.                                   *)

\* SetPeriod that schedules the work item although the device is suspended.
BugAlwaysSchedule(value) ==
  /\ period' = value
  /\ asked' = value
  /\ Schedule

SetPeriod(value) ==
  /\ period' = value
  /\ asked' = value
  /\ IF suspended THEN UNCHANGED pending ELSE Schedule

\* A process, or the console, turns a sound on or off.
Event(u, code) ==
  /\ u \in open
  /\ pm = "awake" \/ u \in Console
  /\ \/ SetPeriod(BellPeriod) /\ snd' = snd \cup {code}
     \/ SetPeriod(0) /\ snd' = snd \ {code}
  /\ UNCHANGED <<suspended, hardware, work, local, failed, stop, pm, open,
                 restored>>

-----------------------------------------------------------------------------
(* pwm_beeper_work                                                           *)

WorkStart ==
  /\ pending /\ work = "idle"
  /\ pending' = FALSE
  /\ work' = "read"
  /\ UNCHANGED <<dataVars, hardware, local, failed, stop, pm, coreVars>>

\* READ_ONCE(beeper->period)
WorkRead ==
  /\ work = "read"
  /\ local' = period
  /\ work' = IF period = 0 THEN "ampoff" ELSE "apply"
  /\ failed' = FALSE
  /\ UNCHANGED <<dataVars, hardware, pending, stop, pm, coreVars>>

\* pwm_beeper_on: pwm_apply_state, which may fail ...
WorkApply ==
  /\ work = "apply"
  /\ \/ /\ pwm' = local
        /\ work' = IF amp THEN "idle" ELSE "enable"
        /\ UNCHANGED failed
     \/ /\ work' = "idle"
        /\ failed' = TRUE
        /\ UNCHANGED pwm
  /\ UNCHANGED <<dataVars, amp, pending, local, stop, pm, coreVars>>

\* ... and, if the amplifier is off, regulator_enable, which may fail too.
WorkEnable ==
  /\ work = "enable"
  /\ work' = "idle"
  /\ \/ amp' = TRUE /\ UNCHANGED <<pwm, failed>>
     \/ pwm' = 0 /\ failed' = TRUE /\ UNCHANGED amp
  /\ UNCHANGED <<dataVars, pending, local, stop, pm, coreVars>>

\* pwm_beeper_off: the amplifier ...
WorkAmpOff ==
  /\ work = "ampoff"
  /\ amp' = FALSE
  /\ work' = "pwmoff"
  /\ UNCHANGED <<dataVars, pwm, pending, local, failed, stop, pm, coreVars>>

\* ... and the PWM.
WorkPwmOff ==
  /\ work = "pwmoff"
  /\ pwm' = 0
  /\ work' = "idle"
  /\ UNCHANGED <<dataVars, amp, pending, local, failed, stop, pm, coreVars>>

Work ==
  \/ WorkStart \/ WorkRead \/ WorkApply \/ WorkEnable
  \/ WorkAmpOff \/ WorkPwmOff

-----------------------------------------------------------------------------
(* pwm_beeper_stop, called by pwm_beeper_close and pwm_beeper_suspend.       *)

\* cancel_work_sync takes the item off the queue ...
StopCancel ==
  /\ stop = "cancel"
  /\ pending' = FALSE
  /\ stop' = "wait"
  /\ UNCHANGED <<dataVars, hardware, work, local, failed, pm, coreVars>>

\* StopWait for cancel_work, which does not wait.
BugNoWait ==
  /\ stop = "wait"
  /\ stop' = "ampoff"
  /\ UNCHANGED <<dataVars, hardware, workVars, pm, coreVars>>

\* ... and waits for it to finish.
StopWait ==
  /\ stop = "wait"
  /\ work = "idle"
  /\ stop' = "ampoff"
  /\ UNCHANGED <<dataVars, hardware, workVars, pm, coreVars>>

\* pwm_beeper_off
StopAmpOff ==
  /\ stop = "ampoff"
  /\ amp' = FALSE
  /\ stop' = "pwmoff"
  /\ UNCHANGED <<dataVars, pwm, workVars, pm, coreVars>>

StopPwmOff ==
  /\ stop = "pwmoff"
  /\ pwm' = 0
  /\ stop' = "idle"
  /\ pm' = IF pm = "stop" THEN "asleep" ELSE pm
  /\ UNCHANGED <<dataVars, amp, workVars, coreVars>>

Stop == StopCancel \/ StopWait \/ StopAmpOff \/ StopPwmOff

-----------------------------------------------------------------------------
(* Opening, closing, suspend and resume.                                     *)

\* input_open_device waits for a close() under way.
Open(u) ==
  /\ pm = "awake" /\ stop = "idle"
  /\ u \notin open
  /\ open' = open \cup {u}
  /\ UNCHANGED <<dataVars, hardware, workVars, stop, pm, snd, restored>>

\* Close that stops nothing, as in a driver without the close callback.
BugNoClose(u) ==
  /\ pm = "awake" /\ stop = "idle"
  /\ u \in open
  /\ open' = open \ {u}
  /\ IF open' = {} THEN asked' = 0 /\ restored' = FALSE
                   ELSE UNCHANGED <<asked, restored>>
  /\ UNCHANGED <<period, suspended, hardware, workVars, stop, pm, snd>>

\* The last one calls pwm_beeper_close.  It does not touch the period.
Close(u) ==
  /\ pm = "awake" /\ stop = "idle"
  /\ u \in open
  /\ open' = open \ {u}
  /\ IF open' = {} THEN stop' = "cancel" /\ asked' = 0 /\ restored' = FALSE
                   ELSE UNCHANGED <<stop, asked, restored>>
  /\ UNCHANGED <<period, suspended, hardware, workVars, pm, snd>>

\* The processes are frozen, and the input core, whose device is suspended
\* first, turns the sounds off.
Freeze ==
  /\ pm = "awake" /\ stop = "idle"
  /\ pm' = "flag"
  /\ IF snd = {} THEN UNCHANGED <<period, asked, pending>> ELSE SetPeriod(0)
  /\ UNCHANGED <<suspended, hardware, work, local, failed, stop, coreVars>>

\* pwm_beeper_suspend: the flag, under the event lock, and then the stop.
Suspend ==
  /\ pm = "flag"
  /\ suspended' = TRUE
  /\ stop' = "cancel"
  /\ pm' = "stop"
  /\ UNCHANGED <<period, asked, hardware, workVars, coreVars>>

\* pwm_beeper_resume: the flag, under the event lock ...
Resume ==
  /\ pm = "asleep"
  /\ suspended' = FALSE
  /\ pm' = "schedule"
  /\ UNCHANGED <<period, asked, hardware, workVars, stop, coreVars>>

\* ... and the work item, for what came in the meantime.
ResumeWork ==
  /\ pm = "schedule"
  /\ Schedule
  /\ pm' = "core"
  /\ UNCHANGED <<dataVars, hardware, work, local, failed, stop, coreVars>>

\* The input core sets each sound again, SND_BELL before SND_TONE, to what it
\* was; the driver keeps the last.
CoreResume ==
  /\ pm = "core"
  /\ SetPeriod(IF "tone" \in snd THEN BellPeriod ELSE 0)
  /\ restored' = TRUE
  /\ pm' = "awake"
  /\ UNCHANGED <<suspended, hardware, work, local, failed, stop, open, snd>>

PowerStep == Suspend \/ Resume \/ ResumeWork \/ CoreResume

-----------------------------------------------------------------------------

Next ==
  \/ Work \/ Stop \/ PowerStep \/ Freeze
  \/ \E u \in Users : Open(u) \/ Close(u) \/ \E code \in Codes : Event(u, code)

Spec == Init /\ [][Next]_vars

\* The kernel runs queued work, a cancel_work_sync ends, and so does a suspend
\* once it has begun; the system is woken up some time.
FairSpec == Spec /\ WF_vars(Work) /\ WF_vars(Stop) /\ WF_vars(PowerStep)

-----------------------------------------------------------------------------

\* From the return of pwm_beeper_suspend to the call of pwm_beeper_resume the
\* beeper is silent, its amplifier is off, and no work item is queued or
\* running, although events may go on coming in.
SuspendHolds ==
  pm = "asleep" => pwm = 0 /\ ~amp /\ ~pending /\ work = "idle"

\* The amplifier has no supply unless the PWM is running, at any moment, although
\* two threads switch them and each of the two may fail; at rest, neither is left
\* on without the other.
AmplifierFollows ==
  /\ amp => pwm # 0
  /\ work = "idle" /\ stop = "idle" => (amp <=> pwm # 0)

\* Once pwm_beeper_close has returned the beeper is silent until it is opened
\* again, even if the sound was never turned off and though the period is kept;
\* unless the input core turned its sounds on again after a suspend.
QuietWhenClosed ==
  open = {} /\ stop = "idle" /\ ~restored => pwm = 0 /\ ~amp

\* The last request wins: when events, close() and suspend have come to an end,
\* the PWM and the amplifier become what the last of them asked for, unless the
\* work item met an error.
Settles ==
  \A v \in {0, BellPeriod} :
    <>[](asked = v /\ pm = "awake" /\ ~failed)
      => <>[](pwm = v /\ (amp <=> v # 0))

=============================================================================
