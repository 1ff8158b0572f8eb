----------------------------- MODULE KeyDebounce -----------------------------
(***************************************************************************)
(* The debouncing of the key drivers in time.  KeyDevice lets an armed     *)
(* timer expire at any moment; here it expires DEBOUNCE jiffies after the  *)
(* last mod_timer (msecs_to_jiffies(10)), neither earlier nor later.       *)
(* Interrupts and expired timers are served before the next jiffy: what    *)
(* the hardware and the timer softirq give, short of an overload.          *)
(* The reader is that of imx6uirq.c.                                       *)
(***************************************************************************)
EXTENDS PollKey

CONSTANT DEBOUNCE        \* jiffies between mod_timer and expiry

ASSUME DebounceAssumption == DEBOUNCE \in Nat \ {0}

VARIABLES
  left,      \* jiffies until the timer expires; meaningless unless armed
  quiet,     \* jiffies since the line last moved, up to DEBOUNCE + 1
  moved,     \* history: the line has moved since the module was loaded
  pressed    \* history: a press was validated since the last marked release

timeVars == <<left, quiet>>
histVars == <<moved, pressed>>
vars == <<deviceVars, left, quiet, moved, pressed>>

TypeOK ==
  /\ DeviceTypeOK
  /\ left \in 0..DEBOUNCE
  /\ quiet \in 0..(DEBOUNCE + 1)
  /\ moved \in BOOLEAN
  /\ pressed \in BOOLEAN

\* The key may be held down while the module is loaded: keyio_init does not
\* look at the line.
Init ==
  /\ line \in {"up", "down"}
  /\ irq = FALSE /\ armed = FALSE /\ tf = "idle"
  /\ keyvalue = INVAKEY /\ releasekey = 0
  /\ queue = {} /\ parked = {} /\ sig = {} /\ fresh = {}
  /\ pc = [p \in Procs |-> "user"]
  /\ kv = [p \in Procs |-> INVAKEY]
  /\ left = 0
  /\ quiet = 0
  /\ moved = FALSE
  /\ pressed = FALSE

TimedEdge ==
  /\ Edge
  /\ quiet' = 0
  /\ moved' = TRUE
  /\ UNCHANGED <<left, pressed>>

\* TimedHandler that leaves a pending timer alone ...
BugNoRestart ==
  /\ Handler
  /\ left' = IF armed THEN left ELSE DEBOUNCE
  /\ UNCHANGED <<quiet, histVars>>

\* mod_timer(&dev->timer, jiffies + msecs_to_jiffies(10))
TimedHandler ==
  /\ Handler
  /\ left' = DEBOUNCE
  /\ UNCHANGED <<quiet, histVars>>

TimedExpire ==
  /\ left = 0
  /\ Expire
  /\ UNCHANGED <<timeVars, histVars>>

\* The rest of timer_function takes no time.
TimedStore ==
  /\ StorePressed \/ StoreReleased \/ MarkRelease \/ PollNotify
  /\ pressed' = (tf = "down" \/ (tf # "mark" /\ pressed))
  /\ UNCHANGED <<timeVars, moved>>

\* A jiffy passes.
Tick ==
  /\ ~irq
  /\ ~(armed /\ left = 0)
  /\ tf = "idle"
  /\ left' = IF left > 0 THEN left - 1 ELSE 0
  /\ quiet' = IF quiet > DEBOUNCE THEN quiet ELSE quiet + 1
  /\ UNCHANGED <<deviceVars, histVars>>

TimedRead ==
  /\ \E p \in Procs : PollProc(p)
  /\ UNCHANGED <<timeVars, histVars>>

Next ==
  TimedEdge \/ TimedHandler \/ TimedExpire \/ TimedStore \/ Tick \/ TimedRead

Spec == Init /\ [][Next]_vars

-----------------------------------------------------------------------------

\* The line is sampled only when it has been quiet for the whole debounce
\* time, or else when it has moved in this very jiffy and the interrupt for
\* that is still to be served (it arms the timer for another sample).
SampleIsSettled ==
  [][tf = "idle" /\ tf' # "idle" => quiet = DEBOUNCE \/ irq]_vars

\* Bounded reporting: once the line has been quiet for longer than the
\* debounce time, keyvalue says what the line says - if the line has moved at
\* all since the module was loaded.
SettledAgrees ==
  moved /\ quiet > DEBOUNCE
    => keyvalue = IF line = "down" THEN KEY0VALUE ELSE INVAKEY

\* releasekey marks "one complete press, both pressing and releasing"
\* (comment on the field).  The code does not ask for the press.
ReleaseFollowsPress ==
  [][tf = "mark" /\ tf' # "mark" => pressed]_vars

=============================================================================
