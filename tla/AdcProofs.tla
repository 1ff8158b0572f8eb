------------------------------ MODULE AdcProofs ------------------------------
(***************************************************************************)
(* Proofs about AdcConversion, for any readers: a value is the caller's    *)
(* own, none is lost, and no register is used without its clock.           *)
(***************************************************************************)
EXTENDS AdcConversion, TLAPS

\* indio_dev->mlock is held by the reader that is in exynos_read_raw.
LockInv == \A r \in Readers : pc[r] # "idle" <=> lock = r

\* The converter has no reader from exynos_adc_suspend to exynos_adc_resume.
PowerInv == power \in {"standby", "off"} => \A r \in Readers : pc[r] = "idle"

\* A call that found no former conversion about deals with its own only: what
\* is under way, and then in the data register, and then in info->value.
OwnInv ==
  \A r \in Readers : lock = r /\ ~stray[r] =>
    /\ pc[r] = "start" => ~Outstanding /\ done = 0
    /\ pc[r] \in {"wait", "take"} =>
         /\ "old" \notin converting
         /\ irq => datx = "new"
         /\ isr # "idle" \/ done > 0 \/ pc[r] = "take" => value = "new"

\* As long as none is given up there is one conversion at a time, between the
\* start and the completion of the call that waits for it.
OneInv ==
  ~timedout =>
    /\ \A r \in Readers : ~stray[r]
    /\ Outstanding => done = 0 /\ \E r \in Readers : pc[r] = "wait"
    /\ converting # {} => ~irq /\ isr = "idle"
    /\ isr = "clear" => irq
    /\ isr = "complete" => ~irq

IInv ==
  /\ TypeOK
  /\ LockInv /\ PowerInv /\ OwnInv /\ OneInv
  /\ AnswerIsOwn /\ AnswerNotLost /\ ClockedAccess

USE NoneAssumption
USE DEF TypeOK, LockInv, PowerInv, OwnInv, OneInv, AnswerIsOwn,
    AnswerNotLost, ClockedAccess, Age, Outstanding, Clocked, Goto,
    readerVars, converter, isrVars

LEMMA InitInv == Init => IInv
<1> SUFFICES ASSUME Init PROVE IInv
  OBVIOUS
<1> USE DEF Init
<1>1. TypeOK
  OBVIOUS
<1>2. LockInv
  OBVIOUS
<1>3. PowerInv
  OBVIOUS
<1>4. OwnInv
  OBVIOUS
<1>5. OneInv
  OBVIOUS
<1>6. AnswerIsOwn
  OBVIOUS
<1>7. AnswerNotLost
  OBVIOUS
<1>8. ClockedAccess
  OBVIOUS
<1> QED BY <1>1, <1>2, <1>3, <1>4, <1>5, <1>6, <1>7, <1>8 DEF IInv

\* exynos_read_raw.
LEMMA ReadKeeps ==
  ASSUME NEW r \in Readers, IInv, ~fault, Read(r)
  PROVE  IInv'
<1> USE DEF IInv
<1>1. CASE Begin(r)
  BY <1>1 DEF Begin
<1>2. CASE Start(r)
  <2>1. TypeOK'
    BY <1>2 DEF Start
  <2>2. LockInv'
    BY <1>2 DEF Start
  <2>3. PowerInv'
    BY <1>2 DEF Start
  <2>4. OwnInv'
    BY <1>2 DEF Start
  <2>5. OneInv'
    BY <1>2 DEF Start
  <2>6. AnswerIsOwn'
    BY <1>2 DEF Start
  <2>7. AnswerNotLost'
    BY <1>2 DEF Start
  <2>8. ClockedAccess'
    BY <1>2 DEF Start
  <2> QED BY <2>1, <2>2, <2>3, <2>4, <2>5, <2>6, <2>7, <2>8
<1>3. CASE Completed(r)
  BY <1>3 DEF Completed
<1>4. CASE Timeout(r)
  BY <1>4 DEF Timeout
<1>5. CASE Take(r)
  BY <1>5 DEF Take
<1>6. CASE Unlock(r)
  BY <1>6 DEF Unlock
<1> QED BY <1>1, <1>2, <1>3, <1>4, <1>5, <1>6 DEF Read

\* The converter and exynos_adc_isr.
LEMMA HardwareKeeps ==
  ASSUME IInv, ~fault, Isr \/ \E c \in Age : Finish(c)
  PROVE  IInv'
<1> USE DEF IInv
<1>1. CASE IsrRead
  BY <1>1 DEF IsrRead
<1>2. CASE IsrClear
  BY <1>2 DEF IsrClear
<1>3. CASE IsrComplete
  BY <1>3 DEF IsrComplete
<1>4. ASSUME NEW c \in Age, Finish(c) PROVE IInv'
  <2>1. TypeOK'
    BY <1>4 DEF Finish
  <2>2. LockInv'
    BY <1>4 DEF Finish
  <2>3. PowerInv'
    BY <1>4 DEF Finish
  <2>4. OwnInv'
    BY <1>4 DEF Finish
  <2>5. OneInv'
    BY <1>4 DEF Finish
  <2>6. AnswerIsOwn'
    BY <1>4 DEF Finish
  <2>7. AnswerNotLost'
    BY <1>4 DEF Finish
  <2>8. ClockedAccess'
    BY <1>4 DEF Finish
  <2> QED BY <2>1, <2>2, <2>3, <2>4, <2>5, <2>6, <2>7, <2>8
<1> QED BY <1>1, <1>2, <1>3, <1>4 DEF Isr

\* Suspend and resume.
LEMMA PowerKeeps ==
  ASSUME IInv, ~fault, Suspend \/ PowerOff \/ Resume
  PROVE  IInv'
<1> USE DEF IInv
<1>1. CASE Suspend
  <2>1. TypeOK'
    BY <1>1 DEF Suspend
  <2>2. LockInv'
    BY <1>1 DEF Suspend
  <2>3. PowerInv'
    BY <1>1 DEF Suspend
  <2>4. OwnInv'
    BY <1>1 DEF Suspend
  <2>5. OneInv'
    BY <1>1 DEF Suspend
  <2>6. AnswerIsOwn'
    BY <1>1 DEF Suspend
  <2>7. AnswerNotLost'
    BY <1>1 DEF Suspend
  <2>8. ClockedAccess'
    BY <1>1 DEF Suspend
  <2> QED BY <2>1, <2>2, <2>3, <2>4, <2>5, <2>6, <2>7, <2>8
<1>2. CASE PowerOff
  <2>1. TypeOK'
    BY <1>2 DEF PowerOff
  <2>2. LockInv'
    BY <1>2 DEF PowerOff
  <2>3. PowerInv'
    BY <1>2 DEF PowerOff
  <2>4. OwnInv'
    BY <1>2 DEF PowerOff
  <2>5. OneInv'
    BY <1>2 DEF PowerOff
  <2>6. AnswerIsOwn'
    BY <1>2 DEF PowerOff
  <2>7. AnswerNotLost'
    BY <1>2 DEF PowerOff
  <2>8. ClockedAccess'
    BY <1>2 DEF PowerOff
  <2> QED BY <2>1, <2>2, <2>3, <2>4, <2>5, <2>6, <2>7, <2>8
<1>3. CASE Resume
  <2>1. TypeOK'
    BY <1>3 DEF Resume
  <2>2. LockInv'
    BY <1>3 DEF Resume
  <2>3. PowerInv'
    BY <1>3 DEF Resume
  <2>4. OwnInv'
    BY <1>3 DEF Resume
  <2>5. OneInv'
    BY <1>3 DEF Resume
  <2>6. AnswerIsOwn'
    BY <1>3 DEF Resume
  <2>7. AnswerNotLost'
    BY <1>3 DEF Resume
  <2>8. ClockedAccess'
    BY <1>3 DEF Resume
  <2> QED BY <2>1, <2>2, <2>3, <2>4, <2>5, <2>6, <2>7, <2>8
<1> QED BY <1>1, <1>2, <1>3

LEMMA NextInv == IInv /\ [Next]_vars => IInv'
<1> SUFFICES ASSUME IInv, [Next]_vars PROVE IInv'
  OBVIOUS
<1>1. CASE Next
  BY <1>1, ReadKeeps, HardwareKeeps, PowerKeeps DEF Next
<1>2. CASE UNCHANGED vars
  BY <1>2 DEF vars, IInv
<1> QED BY <1>1, <1>2

THEOREM InvHolds == Spec => []IInv
  BY InitInv, NextInv, PTL DEF Spec

-----------------------------------------------------------------------------

\* Every variable keeps to its type.
THEOREM TypeCorrect == Spec => []TypeOK
<1>1. IInv => TypeOK
  BY DEF IInv
<1> QED BY <1>1, InvHolds, PTL

\* A value that exynos_read_raw returns is that of its own conversion.
THEOREM ReturnsOwn == Spec => []AnswerIsOwn
<1>1. IInv => AnswerIsOwn
  BY DEF IInv
<1> QED BY <1>1, InvHolds, PTL

\* Whoever waits has something to wait for.
THEOREM NothingLost == Spec => []AnswerNotLost
<1>1. IInv => AnswerNotLost
  BY DEF IInv
<1> QED BY <1>1, InvHolds, PTL

\* No register is used without its clock.
THEOREM AlwaysClocked == Spec => []ClockedAccess
<1>1. IInv => ClockedAccess
  BY DEF IInv
<1> QED BY <1>1, InvHolds, PTL

=============================================================================
