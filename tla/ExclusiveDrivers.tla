--------------------------- MODULE ExclusiveDrivers --------------------------
(***************************************************************************)
(* The four exclusive LED drivers as one specification: which of them is   *)
(* loaded is chosen at the start.  All four are to implement               *)
(* ExclusiveDevice; they differ in what an open() that cannot have the     *)
(* device does, and in what they ask of led_release.                       *)
(***************************************************************************)
EXTENDS AtomicLed, SpinLed, SemLed, MutexLed

CONSTANT Drivers         \* the drivers to look at

ASSUME DriversAssumption ==
  Drivers \subseteq {"atomic", "spinlock", "semaphore", "mutex"}

VARIABLES
  driver,      \* the driver that is loaded
  overlap      \* history: processes whose open() has overlapped a moment at
               \* which the device was in use

vars == <<fileVars, lock, spinVars, semVars, owner, driver, overlap>>

TypeOK ==
  /\ FileTypeOK
  /\ lock \in Int
  /\ spin \in Users \cup {NoFile}
  /\ dev_stats \in Nat
  /\ SemTypeOK
  /\ owner \in Users \cup {NoFile}
  /\ driver \in Drivers
  /\ overlap \subseteq Users

Init ==
  /\ FileInit /\ AtomicInit /\ SpinInit /\ SemInit /\ MutexInit
  /\ driver \in Drivers
  /\ overlap = {}

\* led_open and led_release of the driver that is loaded.
Driver(p) ==
  \/ /\ driver = "atomic"
     /\ AtomicProc(p)
     /\ UNCHANGED <<spinVars, semVars, owner>>
  \/ /\ driver = "spinlock"
     /\ SpinProc(p)
     /\ UNCHANGED <<lock, semVars, owner>>
  \/ /\ driver = "semaphore"
     /\ SemProc(p)
     /\ UNCHANGED <<lock, spinVars, owner>>
  \/ /\ driver = "mutex"
     /\ MutexProc(p)
     /\ UNCHANGED <<lock, spinVars, semVars>>

User(p) ==
  /\ \/ Call(p) \/ Write(p) \/ Signal(p)
     \/ \E q \in Users : Share(p, q)
  /\ UNCHANGED <<lock, spinVars, semVars, owner>>

Closing(p) == Close(p) /\ UNCHANGED <<lock, spinVars, semVars, owner>>

Overlapping ==
  overlap' = {p \in Users : /\ pc'[p] \notin {"closed", "open"}
                            /\ p \in overlap \/ InUse \/ InUse'}

\* What a process does on its own: the application closes the device after
\* 25 seconds, and the kernel runs whoever can run.
Proc(p) == (Driver(p) \/ Closing(p)) /\ Overlapping /\ UNCHANGED driver

Environment == \E p \in Users : User(p) /\ Overlapping /\ UNCHANGED driver

Next == Environment \/ \E p \in Users : Proc(p)

Spec == Init /\ [][Next]_vars

FairSpec == Spec /\ \A p \in Users : WF_vars(Proc(p))

-----------------------------------------------------------------------------

Exclusive == INSTANCE ExclusiveDevice

\* Mutual exclusion, as a refinement: every led_open that succeeds does so
\* while nobody has the device open, and the LED is switched by holders of
\* the one open file only, in all four drivers.
Implements == Exclusive!Spec

\* No open() or close() that is over, whether it succeeded, found the device
\* busy or was interrupted at any point, leaves a trace in the lock: when
\* nobody has anything to do with the device, it can be opened.
FreeWhenIdle ==
  (\A p \in Users : pc[p] = "closed")
    => /\ lock = 1
       /\ spin = NoFile /\ dev_stats = 0
       /\ count = 1 /\ granted = {}
       /\ owner = NoFile

\* A process that sleeps for the semaphore opens the device in the end, or is
\* interrupted, if everybody who has it open closes it: neither newcomers nor
\* interrupted waiters can keep it waiting.
SemWaiterServed ==
  \A p \in Users :
    driver = "semaphore" /\ pc[p] = "waiting" ~> pc[p] # "waiting"

\* -EBUSY is the truth ("the LED is in use, return busy", the comment in
\* atomic.c): whoever gets it has overlapped somebody's use of the device.
\* In atomic.c that is not so: a second open() counts the lock down for a
\* moment, and a third one that starts after the device was closed sees that.
BusyMeansInUse ==
  [][\A p \in Users : pc[p] \in {"failing", "busy"} /\ pc'[p] = "closed"
       => p \in overlap]_vars

\* In spinlock.c it is so, since the test of dev_stats and its increment are
\* one critical section.
SpinBusyMeansInUse ==
  [][driver = "spinlock" =>
       \A p \in Users : pc[p] = "busy" /\ pc'[p] = "closed"
         => p \in overlap]_vars

\* "A mutex must be locked and unlocked by the same thread" (semaphore.c).
\* In mutex.c the last process to close an inherited descriptor unlocks.
MutexReleasedByOwner ==
  [][driver = "mutex" =>
       \A p \in Users : pc[p] = "closing" /\ pc'[p] = "closed"
         => owner = p]_vars

=============================================================================
