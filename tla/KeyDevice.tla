------------------------------ MODULE KeyDevice ------------------------------
(***************************************************************************)
(* The part the four key drivers have in common: 13_key_irq (imx6uirq.c),  *)
(* 14_blockio_key_irq (blockio.c), 15_noblockio_key_irq (noblockio.c) and  *)
(* 16_asyncnoti_noblockio_key_irq (asyncnoti.c).                           *)
(*                                                                         *)
(* A key on a GPIO raises an interrupt on both edges.  The handler only    *)
(* (re)arms a kernel timer; when the timer expires, timer_function samples *)
(* the line and publishes what it saw in two atomics, keyvalue and         *)
(* releasekey, which read() takes apart again one atomic at a time.        *)
(* Handler, timer function and readers run concurrently: each access to a  *)
(* shared variable is an action of its own.  How long the timer takes is   *)
(* left out here (it expires at any moment); KeyDebounce has the time.     *)
(***************************************************************************)
EXTENDS Naturals, FiniteSets

CONSTANTS
  Procs,       \* processes that have the device open
  KEY0VALUE,   \* value reported for the key
  INVAKEY      \* value of keyvalue while the key is not pressed

ASSUME KeyValueAssumption == KEY0VALUE # INVAKEY

VARIABLES
  line,        \* level of the key's GPIO: "down" (0, pressed) or "up" (1)
  irq,         \* an edge is latched and key0_handler has not run for it
  armed,       \* the timer is pending
  tf,          \* where timer_function stands
  keyvalue,    \* the atomics of struct imx6uirq_dev
  releasekey,
  queue,       \* processes with an entry on the wait queue r_wait
  parked,      \* processes in TASK_INTERRUPTIBLE that no wake-up has hit yet
  sig,         \* processes with a signal pending
  pc,          \* where each process stands in read() or poll()
  kv,          \* the local keyvalue of imx6uirq_read (INVAKEY when not in use)
  fresh        \* history: processes to which a release marked since their
               \* last delivery has not been delivered

lineVars == <<line, irq, armed>>
valueVars == <<tf, keyvalue, releasekey>>
waitVars == <<queue, parked, sig>>
readVars == <<pc, kv, fresh>>
deviceVars == <<line, irq, armed, tf, keyvalue, releasekey, queue, parked, sig,
                pc, kv, fresh>>

Labels == {"user", "check", "enqueue", "setstate", "schedule", "woken",
           "prepare", "recheck", "interrupted", "nbcheck", "ready",
           "pollcheck", "pollsleep", "pollexpired",
           "value", "release", "clear"}

DeviceTypeOK ==
  /\ line \in {"up", "down"}
  /\ irq \in BOOLEAN
  /\ armed \in BOOLEAN
  /\ tf \in {"idle", "down", "up", "mark", "notify", "wake"}
  /\ keyvalue \in {KEY0VALUE, INVAKEY}
  /\ releasekey \in {0, 1}
  /\ queue \subseteq Procs
  /\ parked \subseteq Procs
  /\ sig \subseteq Procs
  /\ pc \in [Procs -> Labels]
  /\ kv \in [Procs -> {KEY0VALUE, INVAKEY}]
  /\ fresh \subseteq Procs

\* keyio_init: the atomics, and a device nobody is waiting on.  The key is
\* not pressed and every process is in user space.
DeviceInit ==
  /\ line = "up"
  /\ irq = FALSE
  /\ armed = FALSE
  /\ tf = "idle"
  /\ keyvalue = INVAKEY
  /\ releasekey = 0
  /\ queue = {}
  /\ parked = {}
  /\ sig = {}
  /\ pc = [p \in Procs |-> "user"]
  /\ kv = [p \in Procs |-> INVAKEY]
  /\ fresh = {}

-----------------------------------------------------------------------------
(* The key, the interrupt and the timer.                                    *)

\* Edge with only the falling edge requested in request_irq (a bug some
\* property must notice; the same goes for every operator named Bug...).
BugFallingEdge ==
  /\ line' = IF line = "up" THEN "down" ELSE "up"
  /\ irq' = (irq \/ line = "up")
  /\ UNCHANGED <<armed, valueVars, waitVars, readVars>>

\* The user presses or releases the key, or its contact bounces.  Both
\* trigger edges are requested, and edges that arrive before the handler runs
\* leave one latched interrupt.
Edge ==
  /\ line' = IF line = "up" THEN "down" ELSE "up"
  /\ irq' = TRUE
  /\ UNCHANGED <<armed, valueVars, waitVars, readVars>>

\* Handler skipping mod_timer while timer_function runs.
BugHandlerWhenIdle ==
  /\ irq
  /\ irq' = FALSE
  /\ armed' = (armed \/ tf = "idle")
  /\ UNCHANGED <<line, valueVars, waitVars, readVars>>

\* key0_handler: mod_timer, which activates the timer or moves it if it is
\* pending already.  With KEY_NUM = 1, curkeynum is always 0.
Handler ==
  /\ irq
  /\ irq' = FALSE
  /\ armed' = TRUE
  /\ UNCHANGED <<line, valueVars, waitVars, readVars>>

\* The timer expires and timer_function reads the GPIO.  From here on the
\* timer may be armed again, but the function does not run twice at once.
Expire ==
  /\ armed
  /\ tf = "idle"
  /\ armed' = FALSE
  /\ tf' = line
  /\ UNCHANGED <<line, irq, keyvalue, releasekey, waitVars, readVars>>

\* value == 0: the key is pressed.
StorePressed ==
  /\ tf = "down"
  /\ keyvalue' = KEY0VALUE
  /\ tf' = "notify"
  /\ UNCHANGED <<lineVars, releasekey, waitVars, readVars>>

\* value == 1: the key is up; first keyvalue ...
StoreReleased ==
  /\ tf = "up"
  /\ keyvalue' = INVAKEY
  /\ tf' = "mark"
  /\ UNCHANGED <<lineVars, releasekey, waitVars, readVars>>

\* ... then releasekey, "one complete press".
MarkRelease ==
  /\ tf = "mark"
  /\ releasekey' = 1
  /\ fresh' = Procs
  /\ tf' = "notify"
  /\ UNCHANGED <<lineVars, keyvalue, waitVars, pc, kv>>

\* What timer_function has done when it comes to telling somebody.
Sample == Expire \/ StorePressed \/ StoreReleased \/ MarkRelease

-----------------------------------------------------------------------------
(* Processes.                                                               *)

Goto(p, label) == pc' = [pc EXCEPT ![p] = label]

\* The system call returns; a pending signal is handled on the way out.
Return(p) ==
  /\ Goto(p, "user")
  /\ sig' = sig \ {p}

\* A signal for a process that is in a system call ends its sleep.
Signal(p) ==
  /\ pc[p] \notin {"user", "ready"}
  /\ p \notin sig
  /\ sig' = sig \cup {p}
  /\ parked' = parked \ {p}
  /\ UNCHANGED <<lineVars, valueVars, queue, readVars>>

\* The tail of imx6uirq_read, from reading keyvalue on: the same in all four
\* drivers but for what an unmarked release returns (0 and the bare keyvalue
\* in imx6uirq.c, 0 in blockio.c, -EINVAL in the other two).
ReadValue(p) ==
  /\ pc[p] = "value"
  /\ kv' = [kv EXCEPT ![p] = keyvalue]
  /\ Goto(p, "release")
  /\ UNCHANGED <<lineVars, valueVars, waitVars, fresh>>

\* releasekey is set and keyvalue was INVAKEY: copy_to_user gets the key.
Deliver(p) ==
  /\ pc[p] = "release"
  /\ releasekey = 1
  /\ kv[p] = INVAKEY
  /\ fresh' = fresh \ {p}
  /\ Goto(p, "clear")
  /\ UNCHANGED <<lineVars, valueVars, waitVars, kv>>

\* Nothing to deliver: releasekey is clear, or the key was pressed again
\* (data_error); releasekey stays as it is.
NoData(p) ==
  /\ pc[p] = "release"
  /\ releasekey = 0 \/ kv[p] # INVAKEY
  /\ kv' = [kv EXCEPT ![p] = INVAKEY]
  /\ Return(p)
  /\ UNCHANGED <<lineVars, valueVars, queue, parked, fresh>>

\* ClearRelease that forgets to.
BugKeepRelease(p) ==
  /\ pc[p] = "clear"
  /\ Return(p)
  /\ UNCHANGED <<lineVars, valueVars, queue, parked, kv, fresh>>

\* Only now is the flag cleared, whatever it has become in the meantime.
ClearRelease(p) ==
  /\ pc[p] = "clear"
  /\ releasekey' = 0
  /\ Return(p)
  /\ UNCHANGED <<lineVars, tf, keyvalue, queue, parked, kv, fresh>>

ReadTail(p) == ReadValue(p) \/ Deliver(p) \/ NoData(p) \/ ClearRelease(p)

=============================================================================
