------------------------------- MODULE WaitKey -------------------------------
(***************************************************************************)
(* 15_noblockio_key_irq/noblockio.c: a process that opened the device with *)
(* O_NONBLOCK calls poll() and then read(), any other one waits inside     *)
(* read() with wait_event_interruptible.  The wait_event and poll loops    *)
(* are the kernel's; they are modelled here as far as the driver's wait    *)
(* queue and condition go through them.                                    *)
(***************************************************************************)
EXTENDS KeyDevice

CONSTANT NonBlocking     \* processes that opened the device with O_NONBLOCK

ASSUME NonBlockingAssumption == NonBlocking \subseteq Procs

\* timer_function: if releasekey is set ...
WaitNotify ==
  /\ tf = "notify"
  /\ tf' = IF releasekey = 1 THEN "wake" ELSE "idle"
  /\ UNCHANGED <<lineVars, keyvalue, releasekey, waitVars, readVars>>

\* ... wake_up_interruptible.  A sleeper of wait_event leaves the queue when
\* it is woken (autoremove_wake_function); a poller stays (pollwake).
WaitWake ==
  /\ tf = "wake"
  /\ tf' = "idle"
  /\ queue' = queue \ (parked \ NonBlocking)
  /\ parked' = parked \ queue
  /\ UNCHANGED <<lineVars, keyvalue, releasekey, sig, readVars>>

-----------------------------------------------------------------------------
(* wait_event_interruptible(dev->r_wait, atomic_read(&dev->releasekey))      *)

WaitRead(p) ==
  /\ p \notin NonBlocking
  /\ pc[p] = "user"
  /\ Goto(p, "check")
  /\ UNCHANGED <<lineVars, valueVars, waitVars, kv, fresh>>

WaitCheck(p) ==
  /\ pc[p] = "check"
  /\ Goto(p, IF releasekey = 1 THEN "value" ELSE "prepare")
  /\ UNCHANGED <<lineVars, valueVars, waitVars, kv, fresh>>

\* prepare_to_wait_event, under the lock of the queue: queue up and become
\* TASK_INTERRUPTIBLE, or notice the signal.
WaitPrepare(p) ==
  /\ pc[p] = "prepare"
  /\ \/ /\ p \in sig
        /\ queue' = queue \ {p}
        /\ Goto(p, "interrupted")
        /\ UNCHANGED parked
     \/ /\ p \notin sig
        /\ queue' = queue \cup {p}
        /\ parked' = parked \cup {p}
        /\ Goto(p, "recheck")
  /\ UNCHANGED <<lineVars, valueVars, sig, kv, fresh>>

\* WaitRecheck without the test: sleep at once.
BugNoRecheck(p) ==
  /\ pc[p] = "recheck"
  /\ Goto(p, "schedule")
  /\ UNCHANGED <<lineVars, valueVars, waitVars, kv, fresh>>

\* The condition is tested again after queueing up; finish_wait when it holds.
WaitRecheck(p) ==
  /\ pc[p] = "recheck"
  /\ \/ /\ releasekey = 1
        /\ queue' = queue \ {p}
        /\ parked' = parked \ {p}
        /\ Goto(p, "value")
     \/ /\ releasekey = 0
        /\ Goto(p, "schedule")
        /\ UNCHANGED <<queue, parked>>
  /\ UNCHANGED <<lineVars, valueVars, sig, kv, fresh>>

\* The same test after a signal: -ERESTARTSYS when there is no key.
WaitInterrupted(p) ==
  /\ pc[p] = "interrupted"
  /\ \/ /\ releasekey = 1
        /\ Goto(p, "value")
        /\ UNCHANGED sig
     \/ /\ releasekey = 0
        /\ Return(p)
  /\ UNCHANGED <<lineVars, valueVars, queue, parked, kv, fresh>>

WaitSchedule(p) ==
  /\ pc[p] = "schedule"
  /\ p \notin parked \/ p \in sig
  /\ parked' = parked \ {p}
  /\ Goto(p, "prepare")
  /\ UNCHANGED <<lineVars, valueVars, queue, sig, kv, fresh>>

WaitEvent(p) ==
  \/ WaitRead(p) \/ WaitCheck(p) \/ WaitPrepare(p) \/ WaitRecheck(p)
  \/ WaitInterrupted(p) \/ WaitSchedule(p)

-----------------------------------------------------------------------------
(* poll() and the O_NONBLOCK read() that follows it in noblockioApp.         *)

\* imx6uirq_poll through do_poll: poll_wait queues the process up (not yet
\* triggered); it happens before the first look at releasekey.
PollWait(p) ==
  /\ p \in NonBlocking
  /\ pc[p] = "user"
  /\ queue' = queue \cup {p}
  /\ parked' = parked \cup {p}
  /\ Goto(p, "pollcheck")
  /\ UNCHANGED <<lineVars, valueVars, sig, kv, fresh>>

LeavePoll(p) ==
  /\ queue' = queue \ {p}
  /\ parked' = parked \ {p}

\* imx6uirq_poll's mask.  POLLIN ends the call and the application reads.
PollCheck(p) ==
  /\ pc[p] \in {"pollcheck", "pollexpired"}
  /\ \/ /\ releasekey = 1
        /\ LeavePoll(p)
        /\ Goto(p, "ready")
        /\ sig' = sig \ {p}
     \/ /\ releasekey = 0
        /\ pc[p] = "pollexpired" \/ p \in sig
        /\ LeavePoll(p)
        /\ Return(p)
     \/ /\ releasekey = 0
        /\ pc[p] = "pollcheck" /\ p \notin sig
        /\ Goto(p, "pollsleep")
        /\ UNCHANGED waitVars
  /\ UNCHANGED <<lineVars, valueVars, kv, fresh>>

\* poll_schedule_timeout: a wake-up or a signal since the last look ends the
\* sleep, and so does the timeout of 1000 ms.  The trigger is reset before
\* the next look.
PollSleep(p) ==
  /\ pc[p] = "pollsleep"
  /\ \/ /\ p \notin parked \/ p \in sig
        /\ Goto(p, "pollcheck")
     \/ Goto(p, "pollexpired")
  /\ parked' = parked \cup {p}
  /\ UNCHANGED <<lineVars, valueVars, queue, sig, kv, fresh>>

\* read() after POLLIN, and its O_NONBLOCK test: -EAGAIN without a release.
NonBlockingRead(p) ==
  /\ pc[p] = "ready"
  /\ Goto(p, "nbcheck")
  /\ UNCHANGED <<lineVars, valueVars, waitVars, kv, fresh>>

NonBlockingCheck(p) ==
  /\ pc[p] = "nbcheck"
  /\ \/ /\ releasekey = 0
        /\ Return(p)
     \/ /\ releasekey = 1
        /\ Goto(p, "value")
        /\ UNCHANGED sig
  /\ UNCHANGED <<lineVars, valueVars, queue, parked, kv, fresh>>

PollThenRead(p) ==
  \/ PollWait(p) \/ PollCheck(p) \/ PollSleep(p)
  \/ NonBlockingRead(p) \/ NonBlockingCheck(p)

-----------------------------------------------------------------------------

WaitTimer == Sample \/ WaitNotify \/ WaitWake
WaitProc(p) == WaitEvent(p) \/ PollThenRead(p) \/ ReadTail(p)

=============================================================================
