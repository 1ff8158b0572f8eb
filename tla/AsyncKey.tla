------------------------------- MODULE AsyncKey ------------------------------
(***************************************************************************)
(* 16_asyncnoti_noblockio_key_irq/asyncnoti.c: read() and poll() are those *)
(* of noblockio.c, but timer_function sends SIGIO to the processes that    *)
(* set FASYNC; its wake_up_interruptible is compiled out (#if 0).          *)
(* asyncnotiApp only sleeps and calls a blocking read() from its SIGIO     *)
(* handler, while SIGIO itself is blocked.                                 *)
(***************************************************************************)
EXTENDS WaitKey

CONSTANT AsyncApps       \* processes that run asyncnotiApp

ASSUME AsyncAppsAssumption == AsyncApps \subseteq Procs \ NonBlocking

VARIABLES
  async_queue,   \* processes registered through fasync
  sigio,         \* processes with SIGIO pending (one bit, not a queue)
  handling,      \* processes inside sigio_signal_func
  owed           \* history: processes registered when the last release was
                 \* marked, and ever since

asyncVars == <<async_queue, sigio, handling, owed>>

AsyncTypeOK ==
  /\ async_queue \subseteq AsyncApps
  /\ sigio \subseteq AsyncApps
  /\ handling \subseteq AsyncApps
  /\ owed \subseteq AsyncApps

AsyncInit == async_queue = {} /\ sigio = {} /\ handling = {} /\ owed = {}

AsyncSample ==
  /\ Sample
  /\ owed' = IF tf = "mark" THEN async_queue ELSE owed
  /\ UNCHANGED <<async_queue, sigio, handling>>

\* timer_function: if releasekey is set ...
AsyncNotify ==
  /\ tf = "notify"
  /\ tf' = IF releasekey = 1 THEN "wake" ELSE "idle"
  /\ UNCHANGED <<lineVars, keyvalue, releasekey, waitVars, readVars, asyncVars>>

\* KillFasync as if a blocked signal were dropped.
BugDropBlocked ==
  /\ tf = "wake"
  /\ tf' = "idle"
  /\ sigio' = sigio \cup (async_queue \ handling)
  /\ UNCHANGED <<lineVars, keyvalue, releasekey, waitVars, readVars,
                 async_queue, handling, owed>>

\* ... kill_fasync, and no wake-up.  The processes it reaches are in user
\* space or in their handler, where SIGIO is blocked and stays pending.
KillFasync ==
  /\ tf = "wake"
  /\ tf' = "idle"
  /\ sigio' = sigio \cup async_queue
  /\ UNCHANGED <<lineVars, keyvalue, releasekey, waitVars, readVars,
                 async_queue, handling, owed>>

\* fcntl(F_SETFL, FASYNC) calls imx6uirq_fasync with on = 1 ...
FasyncOn(p) ==
  /\ p \in AsyncApps \ async_queue
  /\ pc[p] = "user"
  /\ async_queue' = async_queue \cup {p}
  /\ UNCHANGED <<deviceVars, sigio, handling, owed>>

\* ... and imx6uirq_release, when the application is killed, with on = 0.  Its
\* pending signals are gone with it; it may be started again.
FasyncOff(p) ==
  /\ p \in async_queue \ handling
  /\ pc[p] = "user"
  /\ async_queue' = async_queue \ {p}
  /\ sigio' = sigio \ {p}
  /\ owed' = owed \ {p}
  /\ UNCHANGED <<deviceVars, handling>>

\* SIGIO interrupts the main loop; sigio_signal_func calls read().
SigioHandler(p) ==
  /\ p \in sigio \ handling
  /\ pc[p] = "user"
  /\ sigio' = sigio \ {p}
  /\ handling' = handling \cup {p}
  /\ Goto(p, "check")
  /\ UNCHANGED <<lineVars, valueVars, waitVars, kv, fresh, async_queue, owed>>

\* The handler returns and SIGIO is unblocked.
HandlerReturn(p) ==
  /\ p \in handling
  /\ pc[p] = "user"
  /\ handling' = handling \ {p}
  /\ UNCHANGED <<deviceVars, async_queue, sigio, owed>>

AsyncTimer == AsyncSample \/ AsyncNotify \/ KillFasync

\* imx6uirq_read and imx6uirq_poll; asyncnotiApp reads nowhere else.
AsyncSyscall(p) ==
  \/ p \notin AsyncApps /\ WaitRead(p)
  \/ WaitCheck(p) \/ WaitPrepare(p) \/ WaitRecheck(p) \/ WaitInterrupted(p)
  \/ WaitSchedule(p) \/ PollThenRead(p) \/ ReadTail(p)

AsyncProc(p) ==
  \/ AsyncSyscall(p) /\ UNCHANGED asyncVars
  \/ SigioHandler(p)
  \/ HandlerReturn(p)

=============================================================================
