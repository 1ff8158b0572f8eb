-------------------------------- MODULE SpinLed ------------------------------
(* 8_spinlock/spinlock.c: a counter of uses under a spin lock.               *)
EXTENDS LedFile

VARIABLES
  spin,        \* who holds the spin lock, or NoFile
  dev_stats

spinVars == <<spin, dev_stats>>

SpinInit == spin = NoFile /\ dev_stats = 0

\* SpinLock that takes the lock although it is held.
BugNoLock(p) ==
  /\ pc[p] \in {"opening", "closing"}
  /\ spin' = p
  /\ Goto(p, IF pc[p] = "opening" THEN "test" ELSE "dropping")
  /\ UNCHANGED <<file, led, sig, dev_stats>>

\* spin_lock_irqsave in led_open and in led_release.
SpinLock(p) ==
  /\ pc[p] \in {"opening", "closing"}
  /\ spin = NoFile
  /\ spin' = p
  /\ Goto(p, IF pc[p] = "opening" THEN "test" ELSE "dropping")
  /\ UNCHANGED <<file, led, sig, dev_stats>>

\* if (gpioled.dev_stats): in use, -EBUSY after unlocking.
SpinTest(p) ==
  /\ pc[p] = "test"
  /\ Goto(p, IF dev_stats # 0 THEN "busy" ELSE "mark")
  /\ UNCHANGED <<file, led, sig, spinVars>>

\* gpioled.dev_stats++
SpinMark(p) ==
  /\ pc[p] = "mark"
  /\ dev_stats' = dev_stats + 1
  /\ file' = [file EXCEPT ![p] = p]
  /\ Goto(p, "unlock")
  /\ UNCHANGED <<led, sig, spin>>

\* SpinDrop that leaves dev_stats as it is.
BugNoDrop(p) ==
  /\ pc[p] = "dropping"
  /\ file' = [file EXCEPT ![p] = NoFile]
  /\ Goto(p, "unlock")
  /\ UNCHANGED <<led, sig, spinVars>>

\* led_release: if (dev->dev_stats) dev->dev_stats--
SpinDrop(p) ==
  /\ pc[p] = "dropping"
  /\ dev_stats' = IF dev_stats # 0 THEN dev_stats - 1 ELSE dev_stats
  /\ file' = [file EXCEPT ![p] = NoFile]
  /\ Goto(p, "unlock")
  /\ UNCHANGED <<led, sig, spin>>

\* spin_unlock_irqrestore, and return.
SpinUnlock(p) ==
  /\ pc[p] \in {"busy", "unlock"}
  /\ spin' = NoFile
  /\ Goto(p, IF file[p] = NoFile THEN "closed" ELSE "open")
  /\ sig' = sig \ {p}
  /\ UNCHANGED <<file, led, dev_stats>>

SpinProc(p) ==
  SpinLock(p) \/ SpinTest(p) \/ SpinMark(p) \/ SpinDrop(p) \/ SpinUnlock(p)

=============================================================================
