------------------------------- MODULE Watchdog -------------------------------
(***************************************************************************)
(* itop4412_watchdog_ok/drivers_watchdog_s3c2410_wdt.c.  The watchdog core *)
(* serialises the calls of the users; the interrupt handler, and the       *)
(* thread that suspends, resumes or shuts down the system, do not take its *)
(* mutex.  Time is counted in periods of the clock divided by PreDiv.      *)
(***************************************************************************)
EXTENDS Naturals

CONSTANTS
  ClockRate,   \* clk_get_rate(wdt->clock)
  PreDiv,      \* 128: the fixed divisor, S3C2410_WTCON_DIV128
  MaxCount,    \* 0xffff: S3C2410_WTCNT_MAXCNT
  MaxDivisor,  \* 0x100: S3C2410_WTCON_PRESCALE_MAX + 1
  RestartCount \* 0x80: what s3c2410wdt_restart counts down from

\* The last conjunct keeps s3c2410wdt_max_timeout from dividing by zero.
ASSUME WatchdogAssumption ==
  /\ ClockRate \in Nat
  /\ PreDiv \in Nat \ {0}
  /\ MaxCount \in Nat \ {0}
  /\ MaxDivisor \in Nat \ {0}
  /\ RestartCount \in 1..MaxCount
  /\ (ClockRate \div MaxDivisor) \div PreDiv > 0

VARIABLES
  soft,        \* the module parameter soft_noboot
  pmu,         \* QUIRK_HAS_PMU_CONFIG
  con,         \* WTCON
  dat,         \* WTDAT
  cnt,         \* WTCNT
  off,         \* the bits of the PMU that keep the watchdog from resetting
  raised,      \* the interrupt
  reset,       \* the watchdog has reset the system
  count,       \* wdt->count
  timeout,     \* wdd->timeout
  lock,        \* who holds wdt->lock
  active,      \* WDOG_ACTIVE, of the watchdog core
  pc,          \* where the user's call stands
  local,       \* wtcon in s3c2410wdt_set_heartbeat
  sys,         \* where the system's thread stands
  save,        \* wdt->wtcon_save and wdt->wtdat_save
  isr,         \* where s3c2410wdt_irq stands
  on,          \* the thread it has interrupted; "none" on another CPU
  asked,       \* history: the timeout last requested and accepted
  owed,        \* history: time that the user still has for the next ping
  started,     \* history: the last of the starts and stops was a start
  pmuError,    \* history: an access to the PMU has failed
  late         \* history: shutdown stopped it while a set_timeout held its WTCON

registers == <<con, dat, cnt>>
parameters == <<soft, pmu>>
userVars == <<active, pc, local, asked, timeout, count>>
sysVars == <<sys, save, off, pmuError, late>>
isrVars == <<isr, on, raised>>
vars == <<parameters, registers, reset, lock, userVars, sysVars, isrVars,
          owed, started>>

-----------------------------------------------------------------------------
(* The arithmetic of s3c2410wdt_set_heartbeat.                               *)

DivRoundUp(a, b) == (a + b - 1) \div b

\* DIV_ROUND_UP(freq, 128)
Freq == DivRoundUp(ClockRate, PreDiv)

\* s3c2410wdt_max_timeout, which the core enforces, as the minimum of 1.
MaxTimeout == MaxCount \div ((ClockRate \div MaxDivisor) \div PreDiv)

Divisor(t) == IF t * Freq > MaxCount THEN DivRoundUp(t * Freq, MaxCount) ELSE 1

\* Without the second check of s3c2410wdt_set_heartbeat it returns -EINVAL.
Accepted(t) == t > 0 /\ Divisor(t) <= MaxDivisor

\* Count that rounds down (a bug some property must notice; the same goes for
\* every operator named Bug...).
BugRoundDown(t) == (t * Freq) \div Divisor(t)

Count(t) == DivRoundUp(t * Freq, Divisor(t))

Timeouts == {t \in 1..MaxTimeout : Accepted(t)}

-----------------------------------------------------------------------------

WTCON == [enable : BOOLEAN, inten : BOOLEAN, rsten : BOOLEAN,
          divisor : 1..MaxDivisor]

Threads == {"user", "sys"}

\* The system restarts: after a shutdown, at once, or in the midst of a suspend,
\* a resume or a shutdown.
Restarting == {"reboot", "emergency", "midway"}

\* No suspend and no shutdown is under way, or it has not reached the PMU yet.
Untouched == {"awake", "disable", "shut"}

\* The users are frozen from the beginning of a suspend to the end of the resume.
\* A shutdown freezes nobody, neither before the driver's turn nor after it.
UsersRun == {"awake", "shut", "shutmask", "shutstop", "down"}

\* local when it is out of scope.
NoCon == [enable |-> FALSE, inten |-> FALSE, rsten |-> FALSE, divisor |-> 1]

HardwareTypes ==
  /\ con \in WTCON
  /\ dat \in 1..MaxCount /\ cnt \in 0..MaxCount
  /\ off \subseteq {"disable", "mask"}
  /\ raised \in BOOLEAN /\ reset \in BOOLEAN

ThreadTypes ==
  /\ lock \in Threads \cup {"isr", "none"}
  /\ pc \in {"idle", "start", "go", "stop", "ping", "read", "dat", "con"}
  /\ local \in WTCON
  /\ sys \in {"awake", "disable", "mask", "stop", "asleep", "restore",
              "enable", "unmask", "shut", "shutmask", "shutstop", "down"}
              \cup Restarting
  /\ save \in [con : WTCON, dat : 1..MaxCount]
  /\ isr \in {"idle", "spin", "write", "clear"}
  /\ on \in Threads \cup {"none"}

OtherTypes ==
  /\ soft \in BOOLEAN /\ pmu \in BOOLEAN
  /\ count \in 1..MaxCount /\ timeout \in Nat
  /\ asked \in Timeouts /\ owed \in Nat
  /\ active \in BOOLEAN /\ started \in BOOLEAN
  /\ pmuError \in BOOLEAN /\ late \in BOOLEAN

TypeOK == HardwareTypes /\ ThreadTypes /\ OtherTypes

\* __s3c2410wdt_stop
Stopped(c) == [c EXCEPT !.enable = FALSE, !.rsten = FALSE]

\* Started that leaves INTEN as it is.
BugKeepInten(c) == [c EXCEPT !.enable = TRUE, !.rsten = ~soft]

\* Started without RSTEN.
BugNoReset(c) == [c EXCEPT !.enable = TRUE, !.inten = soft]

\* What s3c2410wdt_start makes of WTCON.
Started(c) == [c EXCEPT !.enable = TRUE, !.inten = soft, !.rsten = ~soft]

\* After s3c2410wdt_probe, which starts the watchdog (tmr_atboot) or stops the
\* one the boot loader may have started; it leaves INTEN as it was.  Of the two
\* timeouts it tries one is accepted, as it is at any clock the default suits
\* (probe goes on without: count is then 0).
Init ==
  /\ soft \in BOOLEAN /\ pmu \in BOOLEAN
  /\ asked \in Timeouts
  /\ count = Count(asked)
  /\ timeout = (Count(asked) * Divisor(asked)) \div Freq
  /\ \E inten, atboot \in BOOLEAN :
       LET c == [enable |-> FALSE, inten |-> inten, rsten |-> FALSE,
                 divisor |-> Divisor(asked)]
       IN  con = (IF atboot THEN Started(c) ELSE c) /\ started = atboot
  /\ dat = count /\ cnt = count
  /\ off = {} /\ raised = FALSE /\ reset = FALSE
  /\ lock = "none" /\ active = FALSE /\ pc = "idle" /\ local = NoCon
  /\ sys = "awake" /\ save = [con |-> con, dat |-> dat]
  /\ isr = "idle" /\ on = "none"
  /\ owed = IF con.enable THEN asked * Freq ELSE 0
  /\ pmuError = FALSE /\ late = FALSE

-----------------------------------------------------------------------------
(* The hardware.                                                             *)

\* The counter runs down ...
Tick ==
  /\ con.enable /\ cnt > 0
  /\ cnt' = cnt - 1
  /\ owed' = IF owed > con.divisor THEN owed - con.divisor ELSE 0
  /\ UNCHANGED <<parameters, con, dat, reset, lock, userVars, sysVars, isrVars,
                 started>>

\* ... and at zero is loaded again, interrupts, and resets the system.
Expire ==
  /\ con.enable /\ cnt = 0
  /\ cnt' = dat
  /\ raised' = (raised \/ con.inten)
  /\ reset' = (con.rsten /\ off = {})
  /\ UNCHANGED <<parameters, con, dat, lock, userVars, sysVars, isr, on, owed,
                 started>>

Hardware == Tick \/ Expire

-----------------------------------------------------------------------------
(* The calls of the users.                                                   *)

\* A thread that the interrupt handler has not interrupted.
Runs(p) == isr = "idle" \/ on # p

\* spin_lock(&wdt->lock), which leaves the interrupts on.
Acquire(p) ==
  /\ Runs(p) /\ lock = "none"
  /\ \/ p = "user" /\ pc \in {"start", "stop", "ping"}
     \/ p = "sys" /\ sys \in {"stop", "shutstop"}
  /\ lock' = p
  /\ UNCHANGED <<parameters, registers, reset, userVars, sysVars, isrVars,
                 owed, started>>

\* The core starts what is not active, and stops and pings what is.
Call ==
  /\ Runs("user") /\ pc = "idle" /\ sys \in UsersRun
  /\ pc' \in (IF active THEN {"stop", "ping"} ELSE {"start"})
  /\ UNCHANGED <<parameters, registers, reset, lock, active, local, asked,
                 timeout, count, sysVars, isrVars, owed, started>>

\* s3c2410wdt_start: __s3c2410wdt_stop ...
StartStop ==
  /\ Runs("user") /\ pc = "start" /\ lock = "user"
  /\ con' = Stopped(con)
  /\ pc' = "go"
  /\ UNCHANGED <<parameters, dat, cnt, reset, lock, active, local, asked,
                 timeout, count, sysVars, isrVars, owed, started>>

\* ... and, with the counter stopped, WTDAT, WTCNT and WTCON.
StartGo ==
  /\ Runs("user") /\ pc = "go"
  /\ dat' = count /\ cnt' = count
  /\ con' = Started(con)
  /\ lock' = "none"
  /\ active' = TRUE /\ started' = TRUE
  /\ owed' = asked * Freq
  /\ pc' = "idle"
  /\ UNCHANGED <<parameters, reset, local, asked, timeout, count, sysVars,
                 isrVars>>

\* s3c2410wdt_stop
StopGo ==
  /\ Runs("user") /\ pc = "stop" /\ lock = "user"
  /\ con' = Stopped(con)
  /\ lock' = "none"
  /\ active' = FALSE /\ started' = FALSE
  /\ pc' = "idle"
  /\ UNCHANGED <<parameters, dat, cnt, reset, local, asked, timeout, count,
                 sysVars, isrVars, owed>>

\* s3c2410wdt_keepalive
PingGo ==
  /\ Runs("user") /\ pc = "ping" /\ lock = "user"
  /\ cnt' = count
  /\ lock' = "none"
  /\ owed' = asked * Freq
  /\ pc' = "idle"
  /\ UNCHANGED <<parameters, con, dat, reset, active, local, asked, timeout,
                 count, sysVars, isrVars, started>>

\* s3c2410wdt_set_heartbeat, which does not take wdt->lock: wdt->count, ...
SetCount(t) ==
  /\ Runs("user") /\ pc = "idle" /\ sys \in UsersRun
  /\ count' = Count(t)
  /\ asked' = t
  /\ local' = [local EXCEPT !.divisor = Divisor(t)]
  /\ owed' = 0
  /\ pc' = "read"
  /\ UNCHANGED <<parameters, registers, reset, lock, active, timeout, sysVars,
                 isrVars, started>>

\* ... WTCON with a new divisor, ...
SetRead ==
  /\ Runs("user") /\ pc = "read"
  /\ local' = [con EXCEPT !.divisor = local.divisor]
  /\ pc' = "dat"
  /\ UNCHANGED <<parameters, registers, reset, lock, active, asked, timeout,
                 count, sysVars, isrVars, owed, started>>

\* ... first WTDAT, ...
SetDat ==
  /\ Runs("user") /\ pc = "dat"
  /\ dat' = count
  /\ pc' = "con"
  /\ UNCHANGED <<parameters, con, cnt, reset, lock, active, local, asked,
                 timeout, count, sysVars, isrVars, owed, started>>

\* ... then WTCON.  The core pings what is active.
SetCon ==
  /\ Runs("user") /\ pc = "con"
  /\ con' = local
  /\ local' = NoCon
  /\ timeout' = (count * local.divisor) \div Freq
  /\ pc' = IF active THEN "ping" ELSE "idle"
  /\ UNCHANGED <<parameters, dat, cnt, reset, lock, active, asked, count,
                 sysVars, isrVars, owed, started>>

User ==
  \/ Acquire("user") \/ Call \/ StartStop \/ StartGo \/ StopGo \/ PingGo
  \/ \E t \in Timeouts : SetCount(t)
  \/ SetRead \/ SetDat \/ SetCon

-----------------------------------------------------------------------------
(* s3c2410wdt_irq                                                            *)

\* It may interrupt either thread, or neither.
IsrEnter ==
  /\ raised /\ isr = "idle"
  /\ isr' = "spin"
  /\ on' \in Threads \cup {"none"}
  /\ UNCHANGED <<parameters, registers, reset, lock, userVars, sysVars, raised,
                 owed, started>>

\* s3c2410wdt_keepalive takes the lock and writes WTCNT ...
IsrLock ==
  /\ isr = "spin" /\ lock = "none"
  /\ lock' = "isr"
  /\ isr' = "write"
  /\ UNCHANGED <<parameters, registers, reset, userVars, sysVars, on, raised,
                 owed, started>>

IsrWrite ==
  /\ isr = "write"
  /\ cnt' = count
  /\ lock' = "none"
  /\ isr' = "clear"
  /\ UNCHANGED <<parameters, con, dat, reset, userVars, sysVars, on, raised,
                 owed, started>>

\* ... and WTCLRINT is written.
IsrClear ==
  /\ isr = "clear"
  /\ raised' = FALSE
  /\ isr' = "idle" /\ on' = "none"
  /\ UNCHANGED <<parameters, registers, reset, lock, userVars, sysVars, owed,
                 started>>

Isr == IsrEnter \/ IsrLock \/ IsrWrite \/ IsrClear

-----------------------------------------------------------------------------
(* s3c2410wdt_suspend, s3c2410wdt_resume and s3c2410wdt_shutdown.            *)

\* One regmap_update_bits of s3c2410wdt_mask_and_disable_reset: it sets or
\* clears a bit of the PMU, if there is one, or fails.
Update(bits, next, failed) ==
  /\ Runs("sys")
  /\ \/ off' = (IF pmu THEN bits ELSE off) /\ sys' = next /\ UNCHANGED pmuError
     \/ pmu /\ pmuError' = TRUE /\ sys' = failed /\ UNCHANGED off
  /\ UNCHANGED <<parameters, registers, reset, lock, userVars, isrVars, save,
                 late, owed, started>>

\* Suspend that saves the state after the stop.
BugSaveStopped ==
  /\ sys = "awake" /\ pc = "idle" /\ Runs("sys")
  /\ save' = [con |-> Stopped(con), dat |-> dat]
  /\ sys' = "disable"
  /\ UNCHANGED <<parameters, registers, reset, lock, userVars, off, pmuError,
                 late, isrVars, owed, started>>

\* s3c2410wdt_suspend, with the users frozen ...
Suspend ==
  /\ sys = "awake" /\ pc = "idle" /\ Runs("sys")
  /\ save' = [con |-> con, dat |-> dat]
  /\ sys' = "disable"
  /\ UNCHANGED <<parameters, registers, reset, lock, userVars, off, pmuError,
                 late, isrVars, owed, started>>

\* ... returns at an error, and the system, not suspended, does not resume it.
SuspendMask ==
  \/ sys = "disable" /\ Update(off \cup {"disable"}, "mask", "awake")
  \/ sys = "mask" /\ Update(off \cup {"mask"}, "stop", "awake")

SuspendStop ==
  /\ sys = "stop" /\ lock = "sys" /\ Runs("sys")
  /\ con' = Stopped(con)
  /\ lock' = "none"
  /\ sys' = "asleep"
  /\ UNCHANGED <<parameters, dat, cnt, reset, userVars, save, off, pmuError,
                 late, isrVars, owed, started>>

\* s3c2410wdt_resume: WTDAT and WTCNT, ...
Resume ==
  /\ sys = "asleep" /\ Runs("sys")
  /\ dat' = save.dat /\ cnt' = save.dat
  /\ sys' = "restore"
  /\ UNCHANGED <<parameters, con, reset, lock, userVars, save, off, pmuError,
                 late, isrVars, owed, started>>

\* ... WTCON, ...
ResumeCon ==
  /\ sys = "restore" /\ Runs("sys")
  /\ con' = save.con
  /\ owed' = asked * Freq
  /\ sys' = "enable"
  /\ UNCHANGED <<parameters, dat, cnt, reset, lock, userVars, save, off,
                 pmuError, late, isrVars, started>>

\* ... and the PMU.  The system is up again even if this fails.
ResumeUnmask ==
  \/ sys = "enable" /\ Update(off \ {"disable"}, "unmask", "awake")
  \/ sys = "unmask" /\ Update(off \ {"mask"}, "awake", "awake")

\* s3c2410wdt_shutdown does not look at what the PMU returns.
Shutdown ==
  /\ sys = "awake" /\ Runs("sys")
  /\ sys' = "shut"
  /\ UNCHANGED <<parameters, registers, reset, lock, userVars, save, off,
                 pmuError, late, isrVars, owed, started>>

ShutdownMask ==
  \/ sys = "shut" /\ Update(off \cup {"disable"}, "shutmask", "shutstop")
  \/ sys = "shutmask" /\ Update(off \cup {"mask"}, "shutstop", "shutstop")

\* ShutdownStop that only masks the reset.
BugNoStop ==
  /\ sys = "shutstop" /\ lock = "sys" /\ Runs("sys")
  /\ lock' = "none"
  /\ late' = (pc \in {"dat", "con"})
  /\ started' = FALSE
  /\ sys' = "down"
  /\ UNCHANGED <<parameters, registers, reset, userVars, save, off, pmuError,
                 isrVars, owed>>

ShutdownStop ==
  /\ sys = "shutstop" /\ lock = "sys" /\ Runs("sys")
  /\ con' = Stopped(con)
  /\ lock' = "none"
  /\ late' = (pc \in {"dat", "con"})
  /\ started' = FALSE
  /\ sys' = "down"
  /\ UNCHANGED <<parameters, dat, cnt, reset, userVars, save, off, pmuError,
                 isrVars, owed>>

System ==
  \/ Acquire("sys") \/ Suspend \/ SuspendMask \/ SuspendStop
  \/ Resume \/ ResumeCon \/ ResumeUnmask
  \/ Shutdown \/ ShutdownMask \/ ShutdownStop

-----------------------------------------------------------------------------
(* s3c2410wdt_restart                                                        *)

\* Restart that does not set RSTEN.
BugRestart ==
  /\ con' = [enable |-> TRUE, inten |-> FALSE, rsten |-> FALSE, divisor |-> 1]
  /\ dat' = RestartCount /\ cnt' = RestartCount
  /\ owed' = 0
  /\ sys' = CASE sys = "down" -> "reboot"
              [] sys \in Untouched -> "emergency"
              [] OTHER -> "midway"
  /\ UNCHANGED <<parameters, reset, lock, userVars, save, off, pmuError, late,
                 isrVars, started>>

\* After a shutdown, or at any moment (emergency_restart, as after a panic),
\* whatever the users, the interrupt and a suspend, a resume or a shutdown are
\* doing: the interrupts and the other CPUs are stopped for good.  WTCON is
\* cleared before the rest is written.  (The divisor is another, by which no
\* timeout is measured any more.)
Restart ==
  /\ con' = [enable |-> TRUE, inten |-> FALSE, rsten |-> TRUE, divisor |-> 1]
  /\ dat' = RestartCount /\ cnt' = RestartCount
  /\ owed' = 0
  /\ sys' = CASE sys = "down" -> "reboot"
              [] sys \in Untouched -> "emergency"
              [] OTHER -> "midway"
  /\ UNCHANGED <<parameters, reset, lock, userVars, save, off, pmuError, late,
                 isrVars, started>>

-----------------------------------------------------------------------------

Software == sys \notin Restarting /\ (User \/ Isr \/ System \/ Restart)

Next == ~reset /\ (Hardware \/ Software)

Spec == Init /\ [][Next]_vars

\* The counter runs.
FairSpec == Spec /\ WF_vars(~reset /\ Hardware)

-----------------------------------------------------------------------------

\* A user that pings, starts or resumes within the timeout it has asked for is
\* not reset, whatever the rounding of the counter and of the divisor, a
\* timeout set before, a suspend in between.  (The time from a new timeout to
\* the ping that follows it is not counted.)
NoEarlyReset == reset => owed = 0

\* At rest the counter runs if and only if it was started last and not stopped,
\* suspends included, and what it does at zero reaches the system, unless an
\* access to the PMU failed: then the first bit may stay set.
ActiveProtects ==
  pc = "idle" /\ sys = "awake" =>
    /\ con.enable <=> started
    /\ off = {} \/ pmuError

\* The interrupt handler does not spin on a lock whose holder it has
\* interrupted, unless the watchdog is told not to reset (soft_noboot).
NoSelfDeadlock == isr = "spin" /\ on # "none" /\ lock = on => soft

\* Shutdown's stop lasts: while the system goes down the counter runs only if a
\* user has started it again since and not stopped it - unless a set_timeout had
\* read WTCON before that stop and writes it after.
ShutdownStops == sys = "down" /\ con.enable => started \/ late

\* A user that ceases to ping is reset in the end, after suspends and errors of
\* the PMU that leave no bit of it set.
Bites ==
  (active /\ ~soft /\ off = {} /\ pc = "idle" /\ sys = "awake")
    ~> (reset \/ pc # "idle" \/ sys # "awake")

\* A restart resets the system, from wherever the users, the interrupt, the
\* system's thread and a stopped or running counter were left, except where the
\* PMU keeps the reset from it: after a shutdown, which has it do so, in the
\* midst of a suspend, a resume or a shutdown, or after an error.
RestartResets ==
  sys \in Restarting
    ~> (reset \/ (pmu /\ (sys \in {"reboot", "midway"} \/ pmuError)))

\* "set the watchdog to go and reset": s3c2410wdt_restart always does.
RestartAlwaysResets == sys \in Restarting ~> reset

=============================================================================
