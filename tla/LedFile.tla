-------------------------------- MODULE LedFile ------------------------------
(***************************************************************************)
(* What the LED drivers 7_atomic, 8_spinlock, 9_semaphore and 10_mutex     *)
(* have in common: processes that open the device, write to it, fork and   *)
(* close it.  The four led_open and led_release are in the modules that    *)
(* extend this one.  Descriptors may be inherited, and the kernel calls    *)
(* led_release when the last one of an open file is closed.                *)
(***************************************************************************)
EXTENDS Integers, FiniteSets

CONSTANTS
  Users,       \* processes
  NoFile       \* no descriptor; no owner

ASSUME UsersAssumption == IsFiniteSet(Users) /\ NoFile \notin Users

VARIABLES
  pc,          \* where each process stands with respect to the device
  file,        \* the open file each process has a descriptor of, named by the
               \* process whose led_open created it
  led,         \* level of the LED's GPIO (0 is on)
  sig          \* processes with a signal pending during led_open

fileVars == <<pc, file, led, sig>>

Labels == {"closed", "opening", "open", "closing",
           "failing",                                      \* atomic.c
           "test", "busy", "mark", "dropping", "unlock",   \* spinlock.c
           "waiting"}                                      \* semaphore.c, mutex.c

FileTypeOK ==
  /\ pc \in [Users -> Labels]
  /\ file \in [Users -> Users \cup {NoFile}]
  /\ led \in {0, 1}
  /\ sig \subseteq Users

\* led_init: gpio_direction_output(.., 1), the LED is off.
FileInit ==
  /\ pc = [p \in Users |-> "closed"]
  /\ file = [p \in Users |-> NoFile]
  /\ led = 1
  /\ sig = {}

InUse == \E p \in Users : file[p] # NoFile

Goto(p, label) == pc' = [pc EXCEPT ![p] = label]

\* A process calls open().
Call(p) ==
  /\ pc[p] = "closed"
  /\ Goto(p, "opening")
  /\ UNCHANGED <<file, led, sig>>

\* led_open returns 0 ...
Opened(p) ==
  /\ file' = [file EXCEPT ![p] = p]
  /\ Goto(p, "open")
  /\ sig' = sig \ {p}
  /\ UNCHANGED led

\* ... or an error.  A pending signal is handled on the way out.
Refused(p) ==
  /\ Goto(p, "closed")
  /\ sig' = sig \ {p}
  /\ UNCHANGED <<file, led>>

\* led_write: LEDON drives the GPIO low, LEDOFF high.  It takes no lock.
Write(p) ==
  /\ pc[p] = "open"
  /\ led' \in {0, 1}
  /\ UNCHANGED <<pc, file, sig>>

\* The process that opened the file forks, and its child (a process that did
\* not exist before) has the descriptor too.
Share(p, q) ==
  /\ pc[p] = "open" /\ file[p] = p
  /\ pc[q] = "closed"
  /\ file' = [file EXCEPT ![q] = file[p]]
  /\ Goto(q, "open")
  /\ UNCHANGED <<led, sig>>

\* close(): the last descriptor of a file calls led_release.
Close(p) ==
  /\ pc[p] = "open"
  /\ \/ /\ \E q \in Users \ {p} : file[q] = file[p]
        /\ file' = [file EXCEPT ![p] = NoFile]
        /\ Goto(p, "closed")
     \/ /\ \A q \in Users \ {p} : file[q] # file[p]
        /\ Goto(p, "closing")
        /\ UNCHANGED file
  /\ UNCHANGED <<led, sig>>

\* led_release has given the device back.
Released(p) ==
  /\ file' = [file EXCEPT ![p] = NoFile]
  /\ Goto(p, "closed")
  /\ UNCHANGED <<led, sig>>

Signal(p) ==
  /\ pc[p] \in {"opening", "waiting"}
  /\ p \notin sig
  /\ sig' = sig \cup {p}
  /\ UNCHANGED <<pc, file, led>>

=============================================================================
