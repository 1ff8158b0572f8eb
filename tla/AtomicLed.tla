------------------------------- MODULE AtomicLed -----------------------------
(* 7_atomic/atomic.c: an atomic counter, 1 when the device is free.          *)
EXTENDS LedFile

VARIABLE lock

AtomicInit == lock = 1

\* led_open: atomic_dec_and_test ...
AtomicDec(p) ==
  /\ pc[p] = "opening"
  /\ lock' = lock - 1
  /\ \/ /\ lock = 1
        /\ Opened(p)
     \/ /\ lock # 1
        /\ Goto(p, "failing")
        /\ UNCHANGED <<file, led, sig>>

\* AtomicBusy without the atomic_inc (a bug some property must notice; the same
\* goes for every operator named Bug...).
BugNoUndo(p) ==
  /\ pc[p] = "failing"
  /\ Refused(p)
  /\ UNCHANGED lock

\* ... and when the result is not 0, atomic_inc and -EBUSY.
AtomicBusy(p) ==
  /\ pc[p] = "failing"
  /\ lock' = lock + 1
  /\ Refused(p)

\* led_release
AtomicRelease(p) ==
  /\ pc[p] = "closing"
  /\ lock' = lock + 1
  /\ Released(p)

AtomicProc(p) == AtomicDec(p) \/ AtomicBusy(p) \/ AtomicRelease(p)

=============================================================================
