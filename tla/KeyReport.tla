------------------------------- MODULE KeyReport ------------------------------
(***************************************************************************)
(* What the key drivers promise their readers, whatever they wait with:    *)
(* that a release is offered only when the key has been found up, and that *)
(* a process takes one at most once.  One flag serves all processes, and   *)
(* whoever has taken a release clears it later: in between further         *)
(* processes may take it, and one that is offered anew may be withdrawn.   *)
(***************************************************************************)
CONSTANTS
  Procs,       \* processes that have the device open
  KEY0VALUE,   \* value reported for the key
  INVAKEY      \* value while the key is not pressed

VARIABLES
  level,       \* the level that was sampled last
  offered,     \* 1 while a release is offered
  owed,        \* processes that have not taken the last release
  taking       \* processes that have taken one and not yet cleared the flag

Init ==
  /\ level = INVAKEY
  /\ offered = 0
  /\ owed = {}
  /\ taking = {}

Sample ==
  /\ level' \in {KEY0VALUE, INVAKEY}
  /\ UNCHANGED <<offered, owed, taking>>

Offer ==
  /\ level = INVAKEY
  /\ offered' = 1
  /\ owed' = Procs
  /\ UNCHANGED <<level, taking>>

Take(p) ==
  /\ offered = 1
  /\ p \in owed \ taking
  /\ owed' = owed \ {p}
  /\ taking' = taking \cup {p}
  /\ UNCHANGED <<level, offered>>

Clear(p) ==
  /\ p \in taking
  /\ offered' = 0
  /\ taking' = taking \ {p}
  /\ UNCHANGED <<level, owed>>

Next == Sample \/ Offer \/ \E p \in Procs : Take(p) \/ Clear(p)

Spec == Init /\ [][Next]_<<level, offered, owed, taking>>

=============================================================================
