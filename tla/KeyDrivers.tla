------------------------------ MODULE KeyDrivers -----------------------------
(***************************************************************************)
(* The four key drivers as one specification: which of them is loaded is   *)
(* chosen at the start and never changes.  The properties they share, and  *)
(* those that tell them apart, are stated here.                            *)
(***************************************************************************)
EXTENDS PollKey, BlockKey, AsyncKey

CONSTANT Drivers         \* the drivers to look at

ASSUME DriversAssumption ==
  Drivers \subseteq {"imx6uirq", "blockio", "noblockio", "asyncnoti"}

VARIABLE driver          \* the driver that is loaded

vars == <<deviceVars, asyncVars, driver>>

TypeOK ==
  /\ DeviceTypeOK
  /\ AsyncTypeOK
  /\ driver \in Drivers

Init == DeviceInit /\ AsyncInit /\ driver \in Drivers

Timer ==
  /\ \/ driver = "imx6uirq"  /\ PollTimer  /\ UNCHANGED asyncVars
     \/ driver = "blockio"   /\ BlockTimer /\ UNCHANGED asyncVars
     \/ driver = "noblockio" /\ WaitTimer  /\ UNCHANGED asyncVars
     \/ driver = "asyncnoti" /\ AsyncTimer
  /\ UNCHANGED driver

Proc(p) ==
  /\ \/ driver = "imx6uirq"  /\ PollProc(p)  /\ UNCHANGED asyncVars
     \/ driver = "blockio"   /\ BlockProc(p) /\ UNCHANGED asyncVars
     \/ driver = "noblockio" /\ WaitProc(p)  /\ UNCHANGED asyncVars
     \/ driver = "asyncnoti" /\ AsyncProc(p)
  /\ UNCHANGED driver

Irq == Handler /\ UNCHANGED <<asyncVars, driver>>

Environment ==
  /\ \/ Edge /\ UNCHANGED asyncVars
     \/ \E p \in Procs :
          \/ Signal(p) /\ UNCHANGED asyncVars
          \/ driver = "asyncnoti" /\ (FasyncOn(p) \/ FasyncOff(p))
  /\ UNCHANGED driver

Next == Environment \/ Irq \/ Timer \/ \E p \in Procs : Proc(p)

Spec == Init /\ [][Next]_vars

\* The kernel runs interrupts, expired timers and runnable processes, and the
\* applications call read() or poll() in an endless loop.  Nobody has to touch
\* the key, and no signal has to arrive.
Fairness ==
  /\ WF_vars(Irq)
  /\ WF_vars(Timer)
  /\ \A p \in Procs : WF_vars(Proc(p))

FairSpec == Spec /\ Fairness

-----------------------------------------------------------------------------

\* What the readers see of a driver: where they wait is hidden.
Report ==
  INSTANCE KeyReport
    WITH level <- keyvalue, offered <- releasekey, owed <- fresh,
         taking <- {p \in Procs : pc[p] = "clear"}

\* The four drivers report the same way: a release is marked only when the
\* key was found up, no reader takes it twice, and only a reader that has taken
\* one clears the flag, whatever it waits with and whoever else reads.
Implements == Report!Spec

\* A process that will not go on without a wake-up.
Asleep(p) ==
  /\ pc[p] \in {"schedule", "pollsleep"}
  /\ p \in parked
  /\ p \notin sig

\* No lost wake-up.  A process sleeps while releasekey is set only until the
\* timer function that set it gets to its wake_up: "once the device can be
\* operated on, the process must be woken" (comment on r_wait).
NoLostWakeup ==
  \A p \in Procs : Asleep(p) /\ releasekey = 1 => tf \in {"notify", "wake"}

\* One release is delivered to a process at most once: whenever a read() is
\* in a position to take the key, a release has been marked since the last
\* time this process took one, however the clearing of the flag by this and
\* other readers interleaves with the timer.
NoReplay ==
  releasekey = 1 => \A p \in Procs : pc[p] # "clear" => p \in fresh

\* A marked release is consumed, unless the key is found pressed again
\* meanwhile.
ReleaseConsumed ==
  releasekey = 1 ~> releasekey = 0 \/ keyvalue = KEY0VALUE

\* A sleeper that has missed a wake-up is hit by the next one: the moment
\* wake_up has run for a release, nobody is asleep in the driver.  This is
\* all that is left of NoLostWakeup in blockio.c.
WakeReachesAll ==
  [][driver = "blockio" /\ tf = "wake" /\ tf' = "idle"
       => \A p \in Procs : ~Asleep(p)']_vars

\* SIGIO is not lost, although it is one pending bit and blocked while the
\* handler runs: while a release waits to be read and the key is up, every
\* process that was registered when it was marked has SIGIO pending or is in
\* its handler, once timer_function is done.
SigioReachesApps ==
  driver = "asyncnoti" /\ releasekey = 1 /\ keyvalue = INVAKEY /\ tf = "idle"
    => owed \subseteq sigio \cup handling

\* Debouncing loses no level: if the line stops moving, keyvalue ends up
\* saying what the line says.  (An edge during timer_function arms it anew.)
LevelReported ==
  /\ <>[](line = "up") => <>[](keyvalue = INVAKEY)
  /\ <>[](line = "down") => <>[](keyvalue = KEY0VALUE)

=============================================================================
