------------------------------- MODULE TimerLed ------------------------------
(***************************************************************************)
(* 12_timer/timer.c: a LED that a kernel timer switches.  timer_callback   *)
(* arms its own timer again with the current period; three ioctl commands  *)
(* stop the timer, start it and change the period.  The period is read and *)
(* written under a spin lock, but the lock is dropped before mod_timer:    *)
(* what is armed may be a period that has been replaced meanwhile.  Each   *)
(* critical section is a single access, hence one action.                  *)
(***************************************************************************)
EXTENDS Naturals

CONSTANTS
  Users,       \* processes that use the device
  Periods,     \* periods in ms
  Default      \* the one timer_open sets, 1000

ASSUME PeriodsAssumption ==
  Periods \subseteq Nat \ {0} /\ Default \in Periods

VARIABLES
  loaded,      \* the module is loaded
  timer,       \* "idle" or "pending"
  expires,     \* the period the timer was last armed with
  cb,          \* where timer_callback stands
  timerperiod, \* its local variable
  timeperiod,  \* the field of struct timer_dev; 0 before the first open()
  sta,         \* the static variable of timer_callback
  led,         \* level of the LED's GPIO (0 is on)
  pc,          \* where each process stands in open() or ioctl()
  arg,         \* the period its command is going to arm the timer with
  stopped,     \* history: the timer was stopped last, by a CLOSE_CMD that has
               \* returned or by loading or unloading, no other command was
               \* under way then, and none has begun since
  current      \* history: the timer has expired with no command under way
               \* since timeperiod was last written

timerVars == <<timer, expires>>
callbackVars == <<cb, timerperiod, sta>>
userVars == <<pc, arg>>
vars == <<loaded, timerVars, callbackVars, timeperiod, led, userVars, stopped,
          current>>

TypeOK ==
  /\ loaded \in BOOLEAN
  /\ timer \in {"idle", "pending"}
  /\ expires \in Periods \cup {0}
  /\ cb \in {"idle", "toggle", "read", "arm"}
  /\ timerperiod \in Periods \cup {0}
  /\ timeperiod \in Periods \cup {0}
  /\ sta \in {0, 1}
  /\ led \in {0, 1}
  /\ pc \in [Users -> {"closed", "opening", "open", "arm"}]
  /\ arg \in [Users -> Periods \cup {0}]
  /\ stopped \in BOOLEAN
  /\ current \in BOOLEAN

Init ==
  /\ loaded = FALSE
  /\ timer = "idle" /\ expires = 0
  /\ cb = "idle" /\ timerperiod = 0 /\ sta = 1
  /\ timeperiod = 0
  /\ led = 1
  /\ pc = [p \in Users |-> "closed"]
  /\ arg = [p \in Users |-> 0]
  /\ stopped = TRUE
  /\ current = FALSE

\* The LED is being switched: by a timer that is pending, or by a callback
\* that is going to arm it.
Blinking == timer = "pending" \/ cb # "idle"

\* del_timer_sync: wait until the callback is not running, and take the timer
\* off if it is pending (again).
DelTimerSync ==
  /\ cb = "idle"
  /\ timer' = "idle"

-----------------------------------------------------------------------------
(* timer_init and timer_exit                                                 *)

\* A fresh struct timer_dev, init_timer.
Load ==
  /\ ~loaded
  /\ loaded' = TRUE
  /\ timer' = "idle" /\ expires' = 0
  /\ cb' = "idle" /\ timerperiod' = 0 /\ sta' = 1
  /\ timeperiod' = 0
  /\ stopped' = TRUE
  /\ current' = FALSE
  /\ UNCHANGED <<led, userVars>>

\* Unload with del_timer in place of del_timer_sync, as in the sister driver
\* itop4412_timer_ok (a bug some property must notice; the same goes for every
\* operator named Bug...).
BugUnloadNoWait ==
  /\ loaded
  /\ \A p \in Users : pc[p] = "closed"
  /\ timer' = "idle"
  /\ led' = 1
  /\ loaded' = FALSE
  /\ stopped' = TRUE
  /\ UNCHANGED <<expires, callbackVars, timeperiod, userVars, current>>

\* rmmod, once nobody has the device open: the timer may still be at work.
Unload ==
  /\ loaded
  /\ \A p \in Users : pc[p] = "closed"
  /\ DelTimerSync
  /\ led' = 1
  /\ loaded' = FALSE
  /\ stopped' = TRUE
  /\ UNCHANGED <<expires, callbackVars, timeperiod, userVars, current>>

-----------------------------------------------------------------------------
(* timer_open and timer_unlocked_ioctl                                       *)

Goto(p, label) == pc' = [pc EXCEPT ![p] = label]

\* timer_open: led_init, that is gpio_direction_output(.., 1) ...
OpenLed(p) ==
  /\ loaded
  /\ pc[p] = "closed"
  /\ Goto(p, "opening")
  /\ led' = 1
  /\ UNCHANGED <<loaded, timerVars, callbackVars, timeperiod, arg, stopped,
                 current>>

\* ... and the default period, without the lock, whoever else is using it.
OpenPeriod(p) ==
  /\ pc[p] = "opening"
  /\ Goto(p, "open")
  /\ timeperiod' = Default
  /\ current' = FALSE
  /\ UNCHANGED <<loaded, timerVars, callbackVars, led, arg, stopped>>

\* CloseCmd with del_timer in place of del_timer_sync.
BugCloseNoWait(p) ==
  /\ pc[p] = "open"
  /\ timer' = "idle"
  /\ stopped' = \A q \in Users : pc[q] # "arm"
  /\ UNCHANGED <<loaded, expires, callbackVars, timeperiod, led, userVars,
                 current>>

\* CLOSE_CMD
CloseCmd(p) ==
  /\ pc[p] = "open"
  /\ DelTimerSync
  /\ stopped' = \A q \in Users : pc[q] # "arm"
  /\ UNCHANGED <<loaded, expires, callbackVars, timeperiod, led, userVars,
                 current>>

\* OPEN_CMD, under the lock
OpenCmd(p) ==
  /\ pc[p] = "open"
  /\ Goto(p, "arm")
  /\ arg' = [arg EXCEPT ![p] = timeperiod]
  /\ stopped' = FALSE
  /\ UNCHANGED <<loaded, timerVars, callbackVars, timeperiod, led, current>>

\* SetPeriodCmd that arms the timer but does not keep the period.
BugForgetPeriod(p) ==
  /\ pc[p] = "open"
  /\ \E t \in Periods :
       /\ arg' = [arg EXCEPT ![p] = t]
       /\ UNCHANGED timeperiod
  /\ Goto(p, "arm")
  /\ stopped' = FALSE
  /\ UNCHANGED <<loaded, timerVars, callbackVars, led, current>>

\* SETPERIOD_CMD, under the lock
SetPeriodCmd(p) ==
  /\ pc[p] = "open"
  /\ \E t \in Periods :
       /\ timeperiod' = t
       /\ arg' = [arg EXCEPT ![p] = t]
  /\ Goto(p, "arm")
  /\ stopped' = FALSE
  /\ current' = FALSE
  /\ UNCHANGED <<loaded, timerVars, callbackVars, led>>

\* Both commands, after the lock: mod_timer.
Arm(p) ==
  /\ pc[p] = "arm"
  /\ timer' = "pending"
  /\ expires' = arg[p]
  /\ Goto(p, "open")
  /\ UNCHANGED <<loaded, callbackVars, timeperiod, led, arg, stopped, current>>

\* close(): the driver has no release, and the LED goes on blinking.
CloseFile(p) ==
  /\ pc[p] = "open"
  /\ Goto(p, "closed")
  /\ UNCHANGED <<loaded, timerVars, callbackVars, timeperiod, led, arg, stopped,
                 current>>

User(p) ==
  \/ OpenLed(p) \/ OpenPeriod(p) \/ CloseFile(p)
  \/ CloseCmd(p) \/ OpenCmd(p) \/ SetPeriodCmd(p) \/ Arm(p)

-----------------------------------------------------------------------------
(* timer_callback                                                            *)

\* The timer expires.  It may be armed again from here on, but the function
\* does not run twice at once.
Expire ==
  /\ timer = "pending"
  /\ cb = "idle"
  /\ timer' = "idle"
  /\ cb' = "toggle"
  /\ current' = (current \/ \A p \in Users : pc[p] # "arm")
  /\ UNCHANGED <<loaded, expires, timerperiod, sta, timeperiod, led, userVars,
                 stopped>>

\* Toggle with sta as a local variable that starts from 1 each time.
BugLocalSta ==
  /\ cb = "toggle"
  /\ led' = 0
  /\ cb' = "read"
  /\ UNCHANGED <<loaded, timerVars, timerperiod, sta, timeperiod, userVars,
                 stopped, current>>

\* sta = !sta, gpio_set_value
Toggle ==
  /\ cb = "toggle"
  /\ sta' = 1 - sta
  /\ led' = 1 - sta
  /\ cb' = "read"
  /\ UNCHANGED <<loaded, timerVars, timerperiod, timeperiod, userVars, stopped,
                 current>>

\* The period, under the lock ...
ReadPeriod ==
  /\ cb = "read"
  /\ timerperiod' = timeperiod
  /\ cb' = "arm"
  /\ UNCHANGED <<loaded, timerVars, sta, timeperiod, led, userVars, stopped,
                 current>>

\* Rearm that sets the expiry but does not add the timer.
BugNoAddTimer ==
  /\ cb = "arm"
  /\ expires' = timerperiod
  /\ cb' = "idle"
  /\ UNCHANGED <<loaded, timer, timerperiod, sta, timeperiod, led, userVars,
                 stopped, current>>

\* ... and mod_timer, without it.
Rearm ==
  /\ cb = "arm"
  /\ timer' = "pending"
  /\ expires' = timerperiod
  /\ cb' = "idle"
  /\ UNCHANGED <<loaded, timerperiod, sta, timeperiod, led, userVars, stopped,
                 current>>

Callback == Expire \/ Toggle \/ ReadPeriod \/ Rearm

-----------------------------------------------------------------------------

Next == Load \/ Unload \/ Callback \/ \E p \in Users : User(p)

Spec == Init /\ [][Next]_vars

\* The kernel runs the callback.  A command that moves the timer again and
\* again may put its expiry off for ever; the one property that needs the
\* fairness is stated for the time after the last command.
FairSpec == Spec /\ WF_vars(Callback)

-----------------------------------------------------------------------------

\* CLOSE_CMD and rmmod stop the timer for good, although the callback, which
\* arms it, may be running: when they have returned, and no other command was
\* under way or has come since, neither is the timer pending nor the callback
\* running.
StopHolds == stopped => ~Blinking

\* A replaced period is used for one expiry at most: once the timer has expired
\* with no command under way, it is armed with the current period only, be it
\* by the callback or by a command.
PeriodInUse == current /\ timer = "pending" => expires = timeperiod

\* Closing the device, changing the period and the callback's own arming do not
\* make the LED stop: only CLOSE_CMD and unloading do.
OnlyCloseStops ==
  [][Blinking /\ ~Blinking' => Unload \/ \E p \in Users : CloseCmd(p)]_vars

\* The LED blinks: after the last command, if that was not a CLOSE_CMD, it goes
\* on and off for ever.
KeepsBlinking ==
  <>[](Blinking /\ \A p \in Users : pc[p] \in {"closed", "open"})
    => []<>(led = 0) /\ []<>(led = 1)

Abstract == INSTANCE Blinker WITH on <- ~stopped

\* The LED is driven only between a command that starts it and the CLOSE_CMD
\* (or rmmod) that stops it; a callback that runs late does not drive it.
Implements == Abstract!Spec

=============================================================================
