-------------------------------- MODULE SemLed -------------------------------
(***************************************************************************)
(* 9_semaphore/semaphore.c: down_interruptible in led_open, up in          *)
(* led_release.  The semaphore itself is the kernel's; it is modelled as   *)
(* far as sleepers, signals and the hand-over of up() meet: the waiter     *)
(* that has waited longest is given the semaphore, and a signal that comes *)
(* after that no longer turns its open() into an error.                    *)
(***************************************************************************)
EXTENDS LedFile

VARIABLES
  count,       \* of the semaphore
  granted,     \* waiters up() has handed the semaphore to
  ahead        \* for each waiter, the waiters that came before it

semVars == <<count, granted, ahead>>

SemTypeOK ==
  /\ count \in Nat
  /\ granted \subseteq Users
  /\ ahead \in [Users -> SUBSET Users]

SemInit ==
  /\ count = 1
  /\ granted = {}
  /\ ahead = [p \in Users |-> {}]

Waiting == {p \in Users : pc[p] = "waiting"} \ granted

Leave(p) == [q \in Users |-> ahead[q] \ {p}]

SemDown(p) ==
  /\ pc[p] = "opening"
  /\ count > 0
  /\ count' = count - 1
  /\ Opened(p)
  /\ UNCHANGED <<granted, ahead>>

SemSleep(p) ==
  /\ pc[p] = "opening"
  /\ count = 0
  /\ p \notin sig
  /\ ahead' = [ahead EXCEPT ![p] = Waiting]
  /\ Goto(p, "waiting")
  /\ UNCHANGED <<file, led, sig, count, granted>>

\* A signal finds the process without the semaphore: -ERESTARTSYS.
SemInterrupted(p) ==
  /\ p \in sig
  /\ \/ pc[p] = "opening" /\ count = 0
     \/ p \in Waiting
  /\ ahead' = Leave(p)
  /\ Refused(p)
  /\ UNCHANGED <<count, granted>>

SemWake(p) ==
  /\ p \in granted
  /\ granted' = granted \ {p}
  /\ Opened(p)
  /\ UNCHANGED <<count, ahead>>

\* up(): count it, or hand it to the first waiter.
Up ==
  \/ /\ Waiting = {}
     /\ count' = count + 1
     /\ UNCHANGED <<granted, ahead>>
  \/ \E q \in Waiting :
       /\ ahead[q] = {}
       /\ granted' = granted \cup {q}
       /\ ahead' = Leave(q)
       /\ UNCHANGED count

\* SemRelease without the up().
BugNoUp(p) ==
  /\ pc[p] = "closing"
  /\ Released(p)
  /\ UNCHANGED semVars

SemRelease(p) ==
  /\ pc[p] = "closing"
  /\ Released(p)
  /\ Up

SemProc(p) ==
  \/ SemDown(p) \/ SemSleep(p) \/ SemInterrupted(p) \/ SemWake(p)
  \/ SemRelease(p)

=============================================================================
