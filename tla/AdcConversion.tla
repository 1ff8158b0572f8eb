---------------------------- MODULE AdcConversion ----------------------------
(***************************************************************************)
(* itop4412_adc/itop4412_adc_ok.c: exynos_read_raw starts a conversion and *)
(* waits, with a timeout, for the completion that exynos_adc_isr signals.  *)
(* A conversion that is given up is not called off: its interrupt may      *)
(* still come.  Readers are serialised by a mutex, so it is enough to say  *)
(* of a conversion whether it is the one of the last call ("new") or of a  *)
(* former one ("old"); beginning a call makes what there is old.           *)
(***************************************************************************)
EXTENDS Naturals

CONSTANTS Readers, None

ASSUME NoneAssumption == None \notin Readers

VARIABLES
  lock,        \* who holds indio_dev->mlock
  pc,          \* where each reader stands in exynos_read_raw
  done,        \* info->completion
  value,       \* info->value
  converting,  \* conversions under way in the converter
  datx,        \* the data register
  irq,         \* the interrupt is raised
  isr,         \* where exynos_adc_isr stands
  power,       \* of the converter; "failed" is an exynos_adc_resume that failed
  fault,       \* a register was used without a clock
  got,         \* what each reader's call under way, or its last, returned
  stray,       \* history: a former conversion was still about when the last
               \* call of a reader began
  timedout     \* history: a conversion has been given up after 100 ms

readerVars == <<lock, pc, got, stray>>
converter == <<converting, datx, irq>>
isrVars == <<isr, value>>
vars == <<readerVars, done, converter, isrVars, power, fault, timedout>>

Age == {"new", "old"}

TypeOK ==
  /\ lock \in Readers \cup {None}
  /\ pc \in [Readers -> {"idle", "start", "wait", "take", "unlock"}]
  /\ done \in Nat
  /\ value \in Age
  /\ converting \subseteq Age
  /\ datx \in Age
  /\ irq \in BOOLEAN
  /\ isr \in {"idle", "clear", "complete"}
  /\ power \in {"on", "standby", "off", "failed"}
  /\ fault \in BOOLEAN
  /\ got \in [Readers -> Age \cup {"nothing", "timeout"}]
  /\ stray \in [Readers -> BOOLEAN]
  /\ timedout \in BOOLEAN

\* After exynos_adc_probe.
Init ==
  /\ lock = None
  /\ pc = [r \in Readers |-> "idle"]
  /\ done = 0
  /\ value = "old"
  /\ converting = {} /\ datx = "old" /\ irq = FALSE
  /\ isr = "idle"
  /\ power = "on" /\ fault = FALSE
  /\ got = [r \in Readers |-> "nothing"]
  /\ stray = [r \in Readers |-> FALSE]
  /\ timedout = FALSE

\* A conversion is under way, or its interrupt is.
Outstanding == converting # {} \/ irq \/ isr # "idle"

Clocked == power \in {"on", "standby"}

Goto(r, label) == pc' = [pc EXCEPT ![r] = label]

-----------------------------------------------------------------------------
(* exynos_read_raw                                                           *)

\* Begin without reinit_completion (a bug some property must notice; the same
\* goes for every operator named Bug...).
BugNoReinit(r) ==
  /\ pc[r] = "idle" /\ lock = None
  /\ power \in {"on", "failed"}
  /\ lock' = r
  /\ UNCHANGED done
  /\ got' = [got EXCEPT ![r] = "nothing"]
  /\ stray' = [stray EXCEPT ![r] = Outstanding]
  /\ converting' = IF converting = {} THEN {} ELSE {"old"}
  /\ datx' = "old" /\ value' = "old"
  /\ Goto(r, "start")
  /\ UNCHANGED <<irq, isr, power, fault, timedout>>

\* mutex_lock, reinit_completion.  Suspended processes do not call it.
Begin(r) ==
  /\ pc[r] = "idle" /\ lock = None
  /\ power \in {"on", "failed"}
  /\ lock' = r
  /\ done' = 0
  /\ got' = [got EXCEPT ![r] = "nothing"]
  /\ stray' = [stray EXCEPT ![r] = Outstanding]
  /\ converting' = IF converting = {} THEN {} ELSE {"old"}
  /\ datx' = "old" /\ value' = "old"
  /\ Goto(r, "start")
  /\ UNCHANGED <<irq, isr, power, fault, timedout>>

\* Start with reinit_completion after start_conv: the interrupt may have come
\* already.
BugReinitLate(r) ==
  /\ pc[r] = "start"
  /\ power = "on"
  /\ Goto(r, "wait")
  /\ \/ /\ converting' \in {{"new"}, converting \cup {"new"}}
        /\ UNCHANGED <<datx, value, irq>>
     \/ /\ datx' = "new" /\ value' = "new"
        /\ UNCHANGED <<converting, irq>>
  /\ done' = 0
  /\ UNCHANGED <<lock, got, stray, isr, power, fault, timedout>>

\* start_conv.  What becomes of a conversion under way is up to the hardware.
Start(r) ==
  /\ pc[r] = "start"
  /\ IF Clocked
       THEN /\ converting' \in {{"new"}, converting \cup {"new"}}
            /\ Goto(r, "wait")
            /\ UNCHANGED fault
       ELSE fault' = TRUE /\ UNCHANGED <<converting, pc>>
  /\ UNCHANGED <<lock, got, stray, done, datx, irq, isrVars, power, timedout>>

\* wait_for_completion_timeout returns as the completion is signalled ...
Completed(r) ==
  /\ pc[r] = "wait" /\ done > 0
  /\ done' = done - 1
  /\ Goto(r, "take")
  /\ UNCHANGED <<lock, got, stray, converter, isrVars, power, fault, timedout>>

\* Timeout by a signal (wait_for_completion_interruptible_timeout).
BugInterrupted(r) ==
  /\ pc[r] = "wait" /\ done = 0
  /\ Goto(r, "take")
  /\ UNCHANGED <<lock, got, stray, done, converter, isrVars, power, fault,
                 timedout>>

\* ... or after 100 ms: init_hw and -ETIMEDOUT.  The data sheet does not say
\* that writing ADCCON ends a conversion, nor that it does not.
Timeout(r) ==
  /\ pc[r] = "wait" /\ done = 0
  /\ converting' \in {converting, {}}
  /\ got' = [got EXCEPT ![r] = "timeout"]
  /\ timedout' = TRUE
  /\ Goto(r, "unlock")
  /\ UNCHANGED <<lock, stray, done, datx, irq, isrVars, power, fault>>

\* *val = info->value
Take(r) ==
  /\ pc[r] = "take"
  /\ got' = [got EXCEPT ![r] = value]
  /\ Goto(r, "unlock")
  /\ UNCHANGED <<lock, stray, done, converter, isrVars, power, fault, timedout>>

Unlock(r) ==
  /\ pc[r] = "unlock"
  /\ lock' = None
  /\ Goto(r, "idle")
  /\ UNCHANGED <<got, stray, done, converter, isrVars, power, fault, timedout>>

Read(r) ==
  \/ Begin(r) \/ Start(r) \/ Completed(r) \/ Timeout(r) \/ Take(r) \/ Unlock(r)

-----------------------------------------------------------------------------
(* The converter and exynos_adc_isr                                          *)

Finish(c) ==
  /\ power = "on"
  /\ c \in converting
  /\ converting' = converting \ {c}
  /\ datx' = c
  /\ irq' = TRUE
  /\ UNCHANGED <<readerVars, done, isrVars, power, fault, timedout>>

IsrRead ==
  /\ irq /\ isr = "idle"
  /\ IF Clocked THEN value' = datx /\ isr' = "clear" /\ UNCHANGED fault
                ELSE fault' = TRUE /\ UNCHANGED isrVars
  /\ UNCHANGED <<readerVars, done, converter, power, timedout>>

IsrClear ==
  /\ isr = "clear"
  /\ IF Clocked THEN irq' = FALSE /\ isr' = "complete" /\ UNCHANGED fault
                ELSE fault' = TRUE /\ UNCHANGED <<irq, isr>>
  /\ UNCHANGED <<readerVars, done, converting, datx, value, power, timedout>>

IsrComplete ==
  /\ isr = "complete"
  /\ done' = done + 1
  /\ isr' = "idle"
  /\ UNCHANGED <<readerVars, converter, value, power, fault, timedout>>

Isr == IsrRead \/ IsrClear \/ IsrComplete

-----------------------------------------------------------------------------
(* exynos_adc_suspend and exynos_adc_resume                                  *)

\* exit_hw, which reads and writes ADCCON.  The freezer has let the readers
\* finish, whose wait is not interruptible.  The interrupt stays enabled.
Suspend ==
  /\ \A r \in Readers : pc[r] = "idle"
  /\ \/ power = "on" /\ power' = "standby" /\ UNCHANGED fault
     \/ power = "failed" /\ fault' = TRUE /\ UNCHANGED power
  /\ UNCHANGED <<readerVars, done, converter, isrVars, timedout>>

\* exynos_adc_disable_clk, regulator_disable
PowerOff ==
  /\ power = "standby"
  /\ power' = "off"
  /\ UNCHANGED <<readerVars, done, converter, isrVars, fault, timedout>>

\* regulator_enable and exynos_adc_enable_clk, either of which may fail; the
\* processes are thawed all the same.
Resume ==
  /\ power = "off"
  /\ power' \in {"on", "failed"}
  /\ UNCHANGED <<readerVars, done, converter, isrVars, fault, timedout>>

-----------------------------------------------------------------------------

Next ==
  /\ ~fault
  /\ \/ \E r \in Readers : Read(r)
     \/ \E c \in Age : Finish(c)
     \/ Isr \/ Suspend \/ PowerOff \/ Resume

Spec == Init /\ [][Next]_vars

-----------------------------------------------------------------------------

\* A value that is returned is that of the caller's own conversion: not of
\* another channel, another caller or a former call, although timeouts and late
\* interrupts interleave with all this; unless such a conversion was still
\* about when the call began.
AnswerIsOwn == \A r \in Readers : got[r] = "old" => stray[r]

\* No answer is lost: a reader that waits while its completion has not been
\* signalled has its conversion, or the interrupt of it, before it.  So a call
\* times out only if the converter or the interrupt was late.
AnswerNotLost ==
  \A r \in Readers : pc[r] = "wait" /\ done = 0 => Outstanding

\* No register is used without its clock, by readers, interrupt, suspend and
\* resume, as long as no conversion has been given up and no resume failed.
\* The suspend does not wait for the interrupt of one that has been given up.
ClockedAccess == fault => timedout \/ power = "failed"

=============================================================================
