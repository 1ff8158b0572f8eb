------------------------------- MODULE BlockKey ------------------------------
(***************************************************************************)
(* 14_blockio_key_irq/blockio.c: read() puts the process to sleep by hand  *)
(* (DECLARE_WAITQUEUE, add_wait_queue, schedule) and goes on after one     *)
(* wake-up without looking at releasekey again.                            *)
(***************************************************************************)
EXTENDS KeyDevice

\* timer_function: if releasekey is set ...
BlockNotify ==
  /\ tf = "notify"
  /\ tf' = IF releasekey = 1 THEN "wake" ELSE "idle"
  /\ UNCHANGED <<lineVars, keyvalue, releasekey, waitVars, readVars>>

\* BlockWake as if the sleepers were exclusive: only one of them is woken.
BugWakeOne ==
  /\ tf = "wake"
  /\ tf' = "idle"
  /\ IF queue = {} THEN UNCHANGED parked
                  ELSE \E p \in queue : parked' = parked \ {p}
  /\ UNCHANGED <<lineVars, keyvalue, releasekey, queue, sig, readVars>>

\* ... wake_up_interruptible: default_wake_function makes every queued
\* process runnable; the entries stay on the queue.
BlockWake ==
  /\ tf = "wake"
  /\ tf' = "idle"
  /\ parked' = parked \ queue
  /\ UNCHANGED <<lineVars, keyvalue, releasekey, queue, sig, readVars>>

\* blockioApp calls read() in a loop.
BlockRead(p) ==
  /\ pc[p] = "user"
  /\ Goto(p, "check")
  /\ UNCHANGED <<lineVars, valueVars, waitVars, kv, fresh>>

BlockCheck(p) ==
  /\ pc[p] = "check"
  /\ Goto(p, IF releasekey = 0 THEN "enqueue" ELSE "value")
  /\ UNCHANGED <<lineVars, valueVars, waitVars, kv, fresh>>

\* add_wait_queue
BlockEnqueue(p) ==
  /\ pc[p] = "enqueue"
  /\ queue' = queue \cup {p}
  /\ Goto(p, "setstate")
  /\ UNCHANGED <<lineVars, valueVars, parked, sig, kv, fresh>>

\* __set_current_state(TASK_INTERRUPTIBLE)
BlockSetState(p) ==
  /\ pc[p] = "setstate"
  /\ parked' = parked \cup {p}
  /\ Goto(p, "schedule")
  /\ UNCHANGED <<lineVars, valueVars, queue, sig, kv, fresh>>

\* schedule() returns once a wake-up or a signal has made the process runnable.
BlockSchedule(p) ==
  /\ pc[p] = "schedule"
  /\ p \notin parked \/ p \in sig
  /\ parked' = parked \ {p}
  /\ Goto(p, "woken")
  /\ UNCHANGED <<lineVars, valueVars, queue, sig, kv, fresh>>

\* Leave the queue; a signal ends the call with -ERESTARTSYS.
BlockWoken(p) ==
  /\ pc[p] = "woken"
  /\ queue' = queue \ {p}
  /\ \/ /\ p \in sig
        /\ Return(p)
     \/ /\ p \notin sig
        /\ Goto(p, "value")
        /\ UNCHANGED sig
  /\ UNCHANGED <<lineVars, valueVars, parked, kv, fresh>>

BlockTimer == Sample \/ BlockNotify \/ BlockWake
BlockProc(p) ==
  \/ BlockRead(p) \/ BlockCheck(p) \/ BlockEnqueue(p) \/ BlockSetState(p)
  \/ BlockSchedule(p) \/ BlockWoken(p) \/ ReadTail(p)

=============================================================================
