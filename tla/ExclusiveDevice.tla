--------------------------- MODULE ExclusiveDevice ---------------------------
(***************************************************************************)
(* What the exclusive LED drivers promise ("only one application uses the  *)
(* LED at a time"), whatever they lock with: at most one open file at any  *)
(* time, and only its holders switch the LED.  file[p] names the open file *)
(* process p has a descriptor of, by the process that opened it.           *)
(***************************************************************************)
CONSTANTS
  Users,       \* processes
  NoFile       \* no descriptor

VARIABLES file, led

Init ==
  /\ file = [p \in Users |-> NoFile]
  /\ led = 1

InUse == \E p \in Users : file[p] # NoFile

Open(p) ==
  /\ ~InUse
  /\ file' = [file EXCEPT ![p] = p]
  /\ UNCHANGED led

\* A child inherits the descriptor.
Share(p, q) ==
  /\ file[p] # NoFile
  /\ file[q] = NoFile
  /\ file' = [file EXCEPT ![q] = file[p]]
  /\ UNCHANGED led

Close(p) ==
  /\ file[p] # NoFile
  /\ file' = [file EXCEPT ![p] = NoFile]
  /\ UNCHANGED led

Write(p, level) ==
  /\ file[p] # NoFile
  /\ led' = level
  /\ UNCHANGED file

Next ==
  \E p \in Users :
    \/ Open(p)
    \/ Close(p)
    \/ \E q \in Users : Share(p, q)
    \/ \E level \in {0, 1} : Write(p, level)

Spec == Init /\ [][Next]_<<file, led>>

=============================================================================
