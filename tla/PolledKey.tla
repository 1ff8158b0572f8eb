------------------------------ MODULE PolledKey ------------------------------
(***************************************************************************)
(* 11_key/key.c, the key driver without an interrupt: key_read samples the *)
(* line and, when the key is down, spins until it is up.  The value goes   *)
(* through keydev.keylock, which all readers share.                        *)
(***************************************************************************)
CONSTANTS Readers

VARIABLES
  gpio,        \* the GPIO: "up" or "down"
  keylock,     \* keydev.keylock: "key" (KEY_0_VALUE) or "none" (INVAKEY)
  at,          \* where each reader stands in key_read
  saw,         \* what each reader has stored in keylock in this call
  got,         \* what its last call returned; "nothing" before it returns
  shared       \* history: another call overlapped with the one under way, or
               \* the last

polledVars == <<gpio, keylock, at, saw, got, shared>>

Values == {"key", "none"}

PolledTypeOK ==
  /\ gpio \in {"up", "down"}
  /\ keylock \in Values
  /\ at \in [Readers -> {"idle", "spin", "store", "load"}]
  /\ saw \in [Readers -> Values]
  /\ got \in [Readers -> Values \cup {"nothing"}]
  /\ shared \in [Readers -> BOOLEAN]

\* After mykey_init, with any level of the line.
PolledInit ==
  /\ gpio \in {"up", "down"}
  /\ keylock = "none"
  /\ at = [r \in Readers |-> "idle"]
  /\ saw = [r \in Readers |-> "none"]
  /\ got = [r \in Readers |-> "nothing"]
  /\ shared = [r \in Readers |-> FALSE]

MoveTo(r, label) == at' = [at EXCEPT ![r] = label]

Reading == {r \in Readers : at[r] # "idle"}

\* The key is pressed or released, or bounces.
PolledEdge ==
  /\ gpio' = IF gpio = "up" THEN "down" ELSE "up"
  /\ UNCHANGED <<keylock, at, saw, got, shared>>

\* if (gpio_get_value(...) == 0)
PolledSample(r) ==
  /\ at[r] = "idle"
  /\ saw' = [saw EXCEPT ![r] = IF gpio = "down" THEN "key" ELSE "none"]
  /\ MoveTo(r, IF gpio = "down" THEN "spin" ELSE "store")
  /\ got' = [got EXCEPT ![r] = "nothing"]
  /\ shared' = [q \in Readers |->
                  IF q = r THEN Reading # {}
                  ELSE shared[q] \/ q \in Reading]
  /\ UNCHANGED <<gpio, keylock>>

\* Spin that waits for the level it has seen already (a bug some property must
\* notice; the same goes for every operator named Bug...).
BugSpin(r) ==
  /\ at[r] = "spin"
  /\ gpio = "down"
  /\ MoveTo(r, "store")
  /\ UNCHANGED <<gpio, keylock, saw, got, shared>>

\* while (!gpio_get_value(...)), which no signal ends.
Spin(r) ==
  /\ at[r] = "spin"
  /\ gpio = "up"
  /\ MoveTo(r, "store")
  /\ UNCHANGED <<gpio, keylock, saw, got, shared>>

\* Store without its else branch.
BugStoreKeyOnly(r) ==
  /\ at[r] = "store"
  /\ keylock' = IF saw[r] = "key" THEN "key" ELSE keylock
  /\ MoveTo(r, "load")
  /\ UNCHANGED <<gpio, saw, got, shared>>

\* atomic_set(&dev->keylock, ...), one branch or the other
Store(r) ==
  /\ at[r] = "store"
  /\ keylock' = saw[r]
  /\ MoveTo(r, "load")
  /\ UNCHANGED <<gpio, saw, got, shared>>

\* value = atomic_read(&dev->keylock), which is returned.
Load(r) ==
  /\ at[r] = "load"
  /\ got' = [got EXCEPT ![r] = keylock]
  /\ MoveTo(r, "idle")
  /\ UNCHANGED <<gpio, keylock, saw, shared>>

PolledRead(r) == PolledSample(r) \/ Spin(r) \/ Store(r) \/ Load(r)

PolledNext == PolledEdge \/ \E r \in Readers : PolledRead(r)

PolledSpec == PolledInit /\ [][PolledNext]_polledVars

\* keyApp reads in an endless loop.
FairPolledSpec == PolledSpec /\ \A r \in Readers : WF_polledVars(PolledRead(r))

-----------------------------------------------------------------------------

\* What a call returns is what it has seen, a press that is over or none, and
\* no press is left over in keylock from an earlier call, unless another call
\* overlapped with it: then the two may exchange what they return, and a press
\* that one of them has seen may be returned to neither.
AnswerIsOwn ==
  \A r \in Readers : got[r] \notin {"nothing", saw[r]} => shared[r]

\* Once the key is let go for good every read() returns, whatever the others
\* do.  (While it is held none does.)
ReadReturns ==
  \A r \in Readers : <>[](gpio = "up") => []<>(at[r] = "idle")

=============================================================================
