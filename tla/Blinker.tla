-------------------------------- MODULE Blinker ------------------------------
(***************************************************************************)
(* What the timer LED driver promises: the timer drives the LED only while *)
(* it is on.  Once it is off the LED stays as it is, until a command turns *)
(* it on or somebody opens the device, which puts the LED out.             *)
(***************************************************************************)
VARIABLES on, led

Init == ~on /\ led = 1

TurnOn == on' = TRUE /\ UNCHANGED led

TurnOff == on' = FALSE /\ UNCHANGED led

Drive ==
  /\ on
  /\ led' \in {0, 1}
  /\ UNCHANGED on

\* By open(), and by unloading, which turns it off as well.
PutOut ==
  /\ led' = 1
  /\ on' \in {on, FALSE}

Next == TurnOn \/ TurnOff \/ Drive \/ PutOut

Spec == Init /\ [][Next]_<<on, led>>

=============================================================================
