------------------------------- MODULE MutexLed ------------------------------
(***************************************************************************)
(* 10_mutex/mutex.c: mutex_lock_interruptible in led_open, mutex_unlock in *)
(* led_release.  The mutex is the kernel's: whoever tries while it is free *)
(* may get it, and mutex_unlock frees it without asking who calls (the     *)
(* owner is only checked with CONFIG_DEBUG_MUTEXES).                       *)
(***************************************************************************)
EXTENDS LedFile

VARIABLE owner           \* of the mutex, or NoFile

MutexInit == owner = NoFile

MutexLock(p) ==
  /\ pc[p] \in {"opening", "waiting"}
  /\ owner = NoFile
  /\ owner' = p
  /\ Opened(p)

MutexSleep(p) ==
  /\ pc[p] = "opening"
  /\ owner # NoFile
  /\ Goto(p, "waiting")
  /\ UNCHANGED <<file, led, sig, owner>>

\* -ERESTARTSYS
MutexInterrupted(p) ==
  /\ pc[p] = "waiting"
  /\ p \in sig
  /\ Refused(p)
  /\ UNCHANGED owner

MutexRelease(p) ==
  /\ pc[p] = "closing"
  /\ owner' = NoFile
  /\ Released(p)

MutexProc(p) ==
  MutexLock(p) \/ MutexSleep(p) \/ MutexInterrupted(p) \/ MutexRelease(p)

=============================================================================
