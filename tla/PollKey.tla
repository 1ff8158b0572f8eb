------------------------------- MODULE PollKey -------------------------------
(* 13_key_irq/imx6uirq.c: read() never waits, so its user polls the device.  *)
EXTENDS KeyDevice

\* timer_function has nobody to tell and returns.
PollNotify ==
  /\ tf = "notify"
  /\ tf' = "idle"
  /\ UNCHANGED <<lineVars, keyvalue, releasekey, waitVars, readVars>>

\* imx6uirqApp calls read() in a loop.
PollRead(p) ==
  /\ pc[p] = "user"
  /\ Goto(p, "value")
  /\ UNCHANGED <<lineVars, valueVars, waitVars, kv, fresh>>

PollTimer == Sample \/ PollNotify
PollProc(p) == PollRead(p) \/ ReadTail(p)

=============================================================================
