---------------------------- MODULE ExclusiveProofs ---------------------------
(***************************************************************************)
(* The exclusive LED drivers implement ExclusiveDevice, for any finite set *)
(* of processes.  The invariant ties each driver's lock to the descriptors *)
(* that are held: there is one token, and it is in the lock, with the      *)
(* holders of the open file, or on its way between them.                   *)
(***************************************************************************)
EXTENDS ExclusiveDrivers, FiniteSetTheorems, TLAPS

\* Descriptors and labels; one open file at a time; led_release runs when
\* nobody else has a descriptor.
FileInv ==
  \A p \in Users :
    /\ pc[p] \in {"open", "closing", "dropping"} => file[p] # NoFile
    /\ file[p] # NoFile => pc[p] \in {"open", "closing", "dropping", "unlock"}
    /\ pc[p] \in {"closing", "dropping"} =>
         \A q \in Users \ {p} : file[q] = NoFile
    /\ \A q \in Users :
         file[p] # NoFile /\ file[q] # NoFile => file[p] = file[q]

Failing == {p \in Users : pc[p] = "failing"}

\* Every failing open() has counted the lock down for the time being.
AtomicInv ==
  lock = IF driver = "atomic"
         THEN (IF InUse THEN 0 ELSE 1) - Cardinality(Failing)
         ELSE 1

CriticalLabels == {"test", "busy", "mark", "dropping", "unlock"}

SpinInv ==
  /\ dev_stats = IF driver = "spinlock" /\ InUse THEN 1 ELSE 0
  /\ driver = "spinlock" =>
       \A p \in Users :
         /\ spin = p <=> pc[p] \in CriticalLabels
         /\ pc[p] = "mark" => ~InUse
  /\ driver # "spinlock" => spin = NoFile

SemInv ==
  /\ granted \subseteq {p \in Users : pc[p] = "waiting"}
  /\ count = IF driver = "semaphore" /\ (InUse \/ granted # {}) THEN 0 ELSE 1
  /\ InUse => granted = {}
  /\ \A p, q \in granted : p = q
  /\ driver # "semaphore" => granted = {}

MutexInv == owner # NoFile <=> driver = "mutex" /\ InUse

IInv ==
  /\ TypeOK
  /\ FileInv
  /\ AtomicInv
  /\ SpinInv
  /\ SemInv
  /\ MutexInv

LEMMA InitInv == Init => IInv
<1> SUFFICES ASSUME Init PROVE IInv
  OBVIOUS
<1> USE UsersAssumption
        DEF Init, FileInit, AtomicInit, SpinInit, SemInit, MutexInit, InUse
<1>1. TypeOK
  BY DEF TypeOK, FileTypeOK, SemTypeOK, Labels
<1>2. FileInv
  BY DEF FileInv
<1>3. AtomicInv
  <2>1. Failing = {}
    BY DEF Failing
  <2> QED BY <2>1, FS_EmptySet DEF AtomicInv
<1>4. SpinInv
  BY DEF SpinInv, CriticalLabels
<1>5. SemInv /\ MutexInv
  BY DEF SemInv, MutexInv
<1> QED BY <1>1, <1>2, <1>3, <1>4, <1>5 DEF IInv

-----------------------------------------------------------------------------
(* Types.                                                                    *)

LEMMA TypeStep == TypeOK /\ [Next]_vars => TypeOK'
<1> SUFFICES ASSUME TypeOK, [Next]_vars PROVE TypeOK'
  OBVIOUS
<1> USE DEF TypeOK, FileTypeOK, SemTypeOK, Labels, Goto, fileVars, spinVars,
            semVars, Overlapping
<1>1. ASSUME NEW p \in Users, Driver(p), Overlapping, UNCHANGED driver
      PROVE  TypeOK'
  <2> USE <1>1 DEF Opened, Refused, Released
  <2>1. CASE AtomicProc(p) /\ UNCHANGED <<spinVars, semVars, owner>>
    BY <2>1 DEF AtomicProc, AtomicDec, AtomicBusy, AtomicRelease
  <2>2. CASE SpinProc(p) /\ UNCHANGED <<lock, semVars, owner>>
    BY <2>2 DEF SpinProc, SpinLock, SpinTest, SpinMark, SpinDrop, SpinUnlock
  <2>3. CASE SemProc(p) /\ UNCHANGED <<lock, spinVars, owner>>
    BY <2>3 DEF SemProc, SemDown, SemSleep, SemInterrupted, SemWake,
                SemRelease, Up, Leave, Waiting
  <2>4. CASE MutexProc(p) /\ UNCHANGED <<lock, spinVars, semVars>>
    BY <2>4 DEF MutexProc, MutexLock, MutexSleep, MutexInterrupted,
                MutexRelease
  <2> QED BY <1>1, <2>1, <2>2, <2>3, <2>4 DEF Driver
<1>2. ASSUME NEW p \in Users, Closing(p) \/ User(p), Overlapping,
             UNCHANGED driver
      PROVE  TypeOK'
  BY <1>2 DEF Closing, Close, User, Call, Write, Signal, Share
<1>3. CASE UNCHANGED vars
  BY <1>3 DEF vars
<1> QED BY <1>1, <1>2, <1>3 DEF Next, Environment, Proc

-----------------------------------------------------------------------------
(* What led_open and led_release do to the descriptors, in any driver.       *)

\* A file may be created when there is none ...
LEMMA OpenStep ==
  ASSUME TypeOK, FileInv, ~InUse, NEW p \in Users,
         NEW label \in {"open", "unlock"},
         file' = [file EXCEPT ![p] = p], pc' = [pc EXCEPT ![p] = label]
  PROVE  FileInv' /\ InUse'
BY UsersAssumption DEF TypeOK, FileTypeOK, FileInv, InUse

\* ... and is gone when led_release has let go of it.
LEMMA ReleaseStep ==
  ASSUME TypeOK, FileInv, NEW p \in Users, pc[p] \in {"closing", "dropping"},
         NEW label \in {"closed", "unlock"},
         file' = [file EXCEPT ![p] = NoFile], pc' = [pc EXCEPT ![p] = label]
  PROVE  FileInv' /\ InUse /\ ~InUse'
BY UsersAssumption DEF TypeOK, FileTypeOK, FileInv, InUse

\* A process without a descriptor moves on.
LEMMA MoveStep ==
  ASSUME TypeOK, FileInv, NEW p \in Users, file[p] = NoFile,
         NEW label \in Labels \ {"open", "closing", "dropping"},
         file' = file, pc' = [pc EXCEPT ![p] = label]
  PROVE  FileInv' /\ InUse' = InUse
BY DEF TypeOK, FileTypeOK, FileInv, InUse

LEMMA AtomicStep ==
  ASSUME IInv, NEW p \in Users, driver = "atomic", AtomicProc(p),
         UNCHANGED <<spinVars, semVars, owner, driver>>
  PROVE  FileInv' /\ AtomicInv' /\ SpinInv' /\ SemInv' /\ MutexInv'
<1> USE DEF IInv, TypeOK, FileTypeOK
<1> DEFINE N == Cardinality(Failing)
<1>1. IsFiniteSet(Failing) /\ N \in Nat
  BY UsersAssumption, FS_Subset, FS_CardinalityType DEF Failing
<1>2. /\ FileInv' /\ AtomicInv'
      /\ \A q \in Users : pc'[q] = "waiting" <=> pc[q] = "waiting"
  <2>1. CASE AtomicDec(p) /\ lock = 1
    <3>1. ~InUse
      BY <1>1, <2>1 DEF AtomicInv
    <3>2. FileInv' /\ InUse'
      BY <2>1, <3>1, OpenStep DEF AtomicDec, Opened, Goto
    <3>3. Failing' = Failing
      BY <2>1 DEF AtomicDec, Opened, Goto, Failing
    <3>4. AtomicInv'
      BY <1>1, <2>1, <3>1, <3>2, <3>3 DEF AtomicInv, AtomicDec
    <3> QED BY <2>1, <3>2, <3>4 DEF AtomicDec, Opened, Goto
  <2>2. CASE AtomicDec(p) /\ lock # 1
    <3>1. FileInv' /\ InUse' = InUse
      <4>1. file[p] = NoFile
        BY <2>2 DEF AtomicDec, FileInv
      <4> QED BY <2>2, <4>1, MoveStep DEF AtomicDec, Goto, Labels
    <3>2. p \notin Failing /\ Failing' = Failing \cup {p}
      BY <2>2 DEF AtomicDec, Goto, Failing
    <3>3. Cardinality(Failing') = N + 1
      BY <1>1, <3>2, FS_AddElement
    <3> QED BY <1>1, <2>2, <3>1, <3>3 DEF AtomicInv, AtomicDec, Goto
  <2>3. CASE AtomicBusy(p)
    <3>1. FileInv' /\ InUse' = InUse
      <4>1. file[p] = NoFile
        BY <2>3 DEF AtomicBusy, FileInv
      <4> QED BY <2>3, <4>1, MoveStep DEF AtomicBusy, Refused, Goto, Labels
    <3>2. p \in Failing /\ Failing' = Failing \ {p}
      BY <2>3 DEF AtomicBusy, Refused, Goto, Failing
    <3>3. Cardinality(Failing') = N - 1
      BY <1>1, <3>2, FS_RemoveElement
    <3> QED BY <1>1, <2>3, <3>1, <3>3 DEF AtomicInv, AtomicBusy, Refused, Goto
  <2>4. CASE AtomicRelease(p)
    <3>1. FileInv' /\ InUse /\ ~InUse'
      BY <2>4, ReleaseStep DEF AtomicRelease, Released, Goto
    <3>2. Failing' = Failing
      BY <2>4 DEF AtomicRelease, Released, Goto, Failing
    <3> QED BY <1>1, <2>4, <3>1, <3>2
            DEF AtomicInv, AtomicRelease, Released, Goto
  <2> QED BY <2>1, <2>2, <2>3, <2>4 DEF AtomicProc
<1>3. granted = {} /\ spin = NoFile /\ owner = NoFile
  BY DEF SpinInv, SemInv, MutexInv
<1> QED BY <1>2, <1>3 DEF SpinInv, SemInv, MutexInv, spinVars, semVars

LEMMA SpinStep ==
  ASSUME IInv, NEW p \in Users, driver = "spinlock", SpinProc(p),
         UNCHANGED <<lock, semVars, owner, driver>>
  PROVE  FileInv' /\ AtomicInv' /\ SpinInv' /\ SemInv' /\ MutexInv'
<1> USE UsersAssumption DEF IInv, TypeOK, FileTypeOK, Goto
<1>1. FileInv' /\ SpinInv'
  <2>1. CASE SpinLock(p)
    <3>1. FileInv' /\ InUse' = InUse
      BY <2>1 DEF SpinLock, FileInv, InUse
    <3> QED BY <2>1, <3>1 DEF SpinLock, SpinInv, CriticalLabels
  <2>2. CASE SpinTest(p)
    <3>1. FileInv' /\ InUse' = InUse
      <4>1. file[p] = NoFile
        BY <2>2 DEF SpinTest, FileInv
      <4>2. PICK label \in {"busy", "mark"} : pc' = [pc EXCEPT ![p] = label]
        BY <2>2 DEF SpinTest
      <4> QED BY <2>2, <4>1, <4>2, MoveStep DEF SpinTest, Labels
    <3> QED BY <2>2, <3>1 DEF SpinTest, SpinInv, CriticalLabels, spinVars
  <2>3. CASE SpinMark(p)
    <3>1. ~InUse /\ spin = p
      BY <2>3 DEF SpinMark, SpinInv, CriticalLabels
    <3>2. FileInv' /\ InUse'
      BY <2>3, <3>1, OpenStep DEF SpinMark
    <3> QED BY <2>3, <3>1, <3>2 DEF SpinMark, SpinInv, CriticalLabels
  <2>4. CASE SpinDrop(p)
    <3>1. FileInv' /\ InUse /\ ~InUse'
      BY <2>4, ReleaseStep DEF SpinDrop
    <3> QED BY <2>4, <3>1 DEF SpinDrop, SpinInv, CriticalLabels
  <2>5. CASE SpinUnlock(p)
    <3>1. FileInv' /\ InUse' = InUse
      BY <2>5 DEF SpinUnlock, FileInv, InUse
    <3> QED BY <2>5, <3>1 DEF SpinUnlock, SpinInv, CriticalLabels
  <2> QED BY <2>1, <2>2, <2>3, <2>4, <2>5 DEF SpinProc
<1>2. granted = {} /\ owner = NoFile
  BY DEF SemInv, MutexInv
<1> QED BY <1>1, <1>2 DEF AtomicInv, SemInv, MutexInv, semVars

LEMMA MutexStep ==
  ASSUME IInv, NEW p \in Users, driver = "mutex", MutexProc(p),
         UNCHANGED <<lock, spinVars, semVars, driver>>
  PROVE  FileInv' /\ AtomicInv' /\ SpinInv' /\ SemInv' /\ MutexInv'
<1> USE UsersAssumption DEF IInv, TypeOK, FileTypeOK, Goto
<1>1. FileInv' /\ MutexInv'
  <2>1. CASE MutexLock(p)
    <3>1. FileInv' /\ InUse'
      BY <2>1, OpenStep DEF MutexLock, Opened, MutexInv
    <3> QED BY <2>1, <3>1 DEF MutexLock, MutexInv
  <2>2. CASE MutexSleep(p) \/ MutexInterrupted(p)
    <3>1. file[p] = NoFile
      BY <2>2 DEF MutexSleep, MutexInterrupted, FileInv
    <3>2. PICK label \in {"waiting", "closed"} : pc' = [pc EXCEPT ![p] = label]
      BY <2>2 DEF MutexSleep, MutexInterrupted, Refused
    <3>3. FileInv' /\ InUse' = InUse
      BY <2>2, <3>1, <3>2, MoveStep
         DEF MutexSleep, MutexInterrupted, Refused, Labels
    <3> QED BY <2>2, <3>3 DEF MutexSleep, MutexInterrupted, MutexInv
  <2>3. CASE MutexRelease(p)
    <3>1. FileInv' /\ ~InUse'
      BY <2>3, ReleaseStep DEF MutexRelease, Released
    <3> QED BY <2>3, <3>1 DEF MutexRelease, MutexInv
  <2> QED BY <2>1, <2>2, <2>3 DEF MutexProc
<1>2. granted = {}
  BY DEF SemInv
<1> QED BY <1>1, <1>2 DEF AtomicInv, SpinInv, SemInv, spinVars, semVars

LEMMA SemStep ==
  ASSUME IInv, NEW p \in Users, driver = "semaphore", SemProc(p),
         UNCHANGED <<lock, spinVars, owner, driver>>
  PROVE  FileInv' /\ AtomicInv' /\ SpinInv' /\ SemInv' /\ MutexInv'
<1> USE UsersAssumption DEF IInv, TypeOK, FileTypeOK, Goto
<1>1. FileInv' /\ SemInv'
  <2>1. CASE SemDown(p)
    <3>1. ~InUse /\ granted = {} /\ count = 1
      BY <2>1 DEF SemDown, SemInv
    <3>2. FileInv' /\ InUse'
      BY <2>1, <3>1, OpenStep DEF SemDown, Opened
    <3> QED BY <2>1, <3>1, <3>2 DEF SemDown, SemInv
  <2>2. CASE SemSleep(p) \/ SemInterrupted(p)
    <3>1. file[p] = NoFile
      BY <2>2 DEF SemSleep, SemInterrupted, Waiting, FileInv
    <3>2. PICK label \in {"waiting", "closed"} : pc' = [pc EXCEPT ![p] = label]
      BY <2>2 DEF SemSleep, SemInterrupted, Refused
    <3>3. FileInv' /\ InUse' = InUse
      BY <2>2, <3>1, <3>2, MoveStep DEF SemSleep, SemInterrupted, Refused, Labels
    <3>4. p \notin granted
      BY <2>2 DEF SemSleep, SemInterrupted, Waiting, SemInv
    <3>5. granted' = granted /\ count' = count
      BY <2>2 DEF SemSleep, SemInterrupted
    <3> QED BY <3>2, <3>3, <3>4, <3>5 DEF SemInv
  <2>3. CASE SemWake(p)
    <3>1. ~InUse /\ count = 0 /\ granted' = {}
      BY <2>3 DEF SemWake, SemInv
    <3>2. FileInv' /\ InUse'
      BY <2>3, <3>1, OpenStep DEF SemWake, Opened
    <3> QED BY <2>3, <3>1, <3>2 DEF SemWake, SemInv
  <2>4. CASE SemRelease(p)
    <3>1. FileInv' /\ InUse /\ ~InUse'
      BY <2>4, ReleaseStep DEF SemRelease, Released
    <3>2. granted = {} /\ count = 0
      BY <3>1 DEF SemInv
    <3>3. CASE count' = count + 1 /\ UNCHANGED granted
      BY <3>1, <3>2, <3>3 DEF SemInv
    <3>4. ASSUME NEW q \in Waiting, granted' = granted \cup {q}, count' = count
          PROVE  SemInv'
      BY <2>4, <3>1, <3>2, <3>4 DEF SemRelease, Released, Waiting, SemInv
    <3> QED BY <2>4, <3>1, <3>3, <3>4 DEF SemRelease, Up
  <2> QED BY <2>1, <2>2, <2>3, <2>4 DEF SemProc
<1> QED BY <1>1 DEF AtomicInv, SpinInv, MutexInv, spinVars

\* What the processes do besides: nothing of it touches a lock.
LEMMA UserStep ==
  ASSUME IInv, NEW p \in Users, Closing(p) \/ User(p), UNCHANGED driver
  PROVE  FileInv' /\ AtomicInv' /\ SpinInv' /\ SemInv' /\ MutexInv'
<1> USE UsersAssumption DEF IInv, TypeOK, FileTypeOK, Goto
<1> DEFINE Same(q) ==
      /\ pc'[q] = "failing" <=> pc[q] = "failing"
      /\ pc[q] = "waiting" => pc'[q] = "waiting"
      /\ pc'[q] = "mark" <=> pc[q] = "mark"
      /\ pc'[q] \in CriticalLabels <=> pc[q] \in CriticalLabels
<1>1. FileInv' /\ InUse' = InUse /\ \A q \in Users : Same(q)
  <2> USE DEF CriticalLabels
  <2>1. CASE Call(p)
    BY <2>1 DEF Call, FileInv, InUse
  <2>2. CASE Write(p) \/ Signal(p)
    BY <2>2 DEF Write, Signal, FileInv, InUse
  <2>3. ASSUME NEW q \in Users, Share(p, q)
        PROVE  FileInv' /\ InUse' = InUse /\ \A r \in Users : Same(r)
    BY <2>3 DEF Share, FileInv, InUse
  <2>4. CASE Close(p)
    BY <2>4 DEF Close, FileInv, InUse
  <2> QED BY <2>1, <2>2, <2>3, <2>4 DEF Closing, User
<1>2. Failing' = Failing
  BY <1>1 DEF Failing
<1>3. UNCHANGED <<lock, spinVars, semVars, owner>>
  BY DEF Closing, User
<1>4. AtomicInv' /\ MutexInv'
  BY <1>1, <1>2, <1>3 DEF AtomicInv, MutexInv
<1>5. SpinInv'
  BY <1>1, <1>3 DEF SpinInv, spinVars
<1>6. SemInv'
  BY <1>1, <1>3 DEF SemInv, semVars
<1> QED BY <1>1, <1>4, <1>5, <1>6

LEMMA InvStep == IInv /\ [Next]_vars => IInv'
<1> SUFFICES ASSUME IInv, [Next]_vars PROVE IInv'
  OBVIOUS
<1>1. TypeOK'
  BY TypeStep DEF IInv
<1>2. ASSUME NEW p \in Users, Driver(p), UNCHANGED driver PROVE IInv'
  BY <1>1, <1>2, AtomicStep, SpinStep, SemStep, MutexStep DEF Driver, IInv
<1>3. ASSUME NEW p \in Users, Closing(p) \/ User(p), UNCHANGED driver
      PROVE  IInv'
  BY <1>1, <1>3, UserStep DEF IInv
<1>4. CASE UNCHANGED vars
  <2> USE <1>4 DEF vars, fileVars, spinVars, semVars
  <2>1. FileInv' /\ SemInv' /\ MutexInv' /\ SpinInv'
    BY DEF IInv, FileInv, SemInv, MutexInv, SpinInv, InUse
  <2>2. AtomicInv'
    BY DEF IInv, AtomicInv, InUse, Failing
  <2> QED BY <1>1, <2>1, <2>2 DEF IInv
<1> QED BY <1>2, <1>3, <1>4 DEF Next, Environment, Proc

LEMMA Invariance == Spec => []IInv
  BY InitInv, InvStep, PTL DEF Spec

-----------------------------------------------------------------------------

\* Types, for the four drivers.
THEOREM TypeCorrect == Spec => []TypeOK
<1>1. IInv => TypeOK
  BY DEF IInv
<1> QED BY <1>1, Invariance, PTL

\* However open() and close() interleave, fail or are interrupted, the lock
\* of an idle device is free.
THEOREM NothingLeaks == Spec => []FreeWhenIdle
<1>1. IInv => FreeWhenIdle
  <2> SUFFICES ASSUME IInv, \A p \in Users : pc[p] = "closed"
               PROVE  /\ lock = 1
                      /\ spin = NoFile /\ dev_stats = 0
                      /\ count = 1 /\ granted = {}
                      /\ owner = NoFile
    BY DEF FreeWhenIdle
  <2> USE DEF IInv
  <2>1. ~InUse
    BY DEF FileInv, InUse
  <2>2. Failing = {}
    BY DEF Failing
  <2>3. lock = 1
    BY <2>1, <2>2, FS_EmptySet DEF AtomicInv
  <2>4. spin = NoFile /\ dev_stats = 0
    BY <2>1 DEF SpinInv, CriticalLabels, TypeOK
  <2>5. count = 1 /\ granted = {} /\ owner = NoFile
    BY <2>1 DEF SemInv, MutexInv
  <2> QED BY <2>3, <2>4, <2>5
<1> QED BY <1>1, Invariance, PTL

\* Every step of every driver is a step of ExclusiveDevice or leaves the
\* descriptors and the LED alone: mutual exclusion.
THEOREM MutualExclusion == Spec => Implements
<1> USE DEF Exclusive!Init, Exclusive!Next, Exclusive!InUse, Exclusive!Open,
            Exclusive!Close, Exclusive!Share, Exclusive!Write
<1>1. Init => Exclusive!Init
  BY DEF Init, FileInit
<1>2. IInv /\ [Next]_vars => [Exclusive!Next]_<<file, led>>
  <2> SUFFICES ASSUME IInv, [Next]_vars
               PROVE  Exclusive!Next \/ UNCHANGED <<file, led>>
    OBVIOUS
  <2> USE DEF IInv, TypeOK, FileTypeOK
  <2>1. ASSUME NEW p \in Users, Driver(p)
        PROVE  Exclusive!Next \/ UNCHANGED <<file, led>>
    <3>1. CASE driver = "atomic" /\ AtomicProc(p)
      <4>1. lock = 1 => ~InUse
        <5>1. Cardinality(Failing) \in Nat
          BY UsersAssumption, FS_Subset, FS_CardinalityType DEF Failing
        <5> QED BY <3>1, <5>1 DEF AtomicInv
      <4> QED BY <3>1, <4>1
              DEF AtomicProc, AtomicDec, AtomicBusy, AtomicRelease, Opened,
                  Refused, Released, FileInv, InUse
    <3>2. CASE driver = "spinlock" /\ SpinProc(p)
      BY <3>2 DEF SpinProc, SpinLock, SpinTest, SpinMark, SpinDrop, SpinUnlock,
                  SpinInv, FileInv, InUse
    <3>3. CASE driver = "semaphore" /\ SemProc(p)
      BY <3>3 DEF SemProc, SemDown, SemSleep, SemInterrupted, SemWake,
                  SemRelease, Opened, Refused, Released, SemInv, FileInv, InUse
    <3>4. CASE driver = "mutex" /\ MutexProc(p)
      BY <3>4 DEF MutexProc, MutexLock, MutexSleep, MutexInterrupted,
                  MutexRelease, Opened, Refused, Released, MutexInv, FileInv,
                  InUse
    <3> QED BY <2>1, <3>1, <3>2, <3>3, <3>4 DEF Driver
  <2>2. ASSUME NEW p \in Users, Closing(p) \/ User(p)
        PROVE  Exclusive!Next \/ UNCHANGED <<file, led>>
    <3>1. CASE Call(p) \/ Signal(p)
      BY <3>1 DEF Call, Signal
    <3>2. CASE Write(p)
      BY <3>2 DEF Write, FileInv
    <3>3. ASSUME NEW q \in Users, Share(p, q) PROVE Exclusive!Next
      BY <3>3 DEF Share, FileInv
    <3>4. CASE Close(p)
      BY <3>4 DEF Close, FileInv
    <3> QED BY <2>2, <3>1, <3>2, <3>3, <3>4 DEF Closing, User
  <2>3. CASE UNCHANGED vars
    BY <2>3 DEF vars, fileVars
  <2> QED BY <2>1, <2>2, <2>3 DEF Next, Environment, Proc
<1> QED BY <1>1, <1>2, Invariance, PTL DEF Spec, Implements, Exclusive!Spec

-----------------------------------------------------------------------------

\* What spinlock.c's critical section buys: the use it has seen is real.
BusyInv ==
  driver = "spinlock" =>
    \A p \in Users : pc[p] = "busy" => p \in overlap

LEMMA BusyStep == IInv /\ BusyInv /\ [Next]_vars => BusyInv'
<1> SUFFICES ASSUME IInv, BusyInv, [Next]_vars, driver = "spinlock",
                    NEW p \in Users, pc'[p] = "busy"
             PROVE  p \in overlap'
  BY DEF BusyInv, Next, Environment, Proc, vars
<1> USE DEF IInv, TypeOK, FileTypeOK
<1>1. CASE UNCHANGED vars
  BY <1>1 DEF vars, fileVars, BusyInv
<1>2. CASE Next /\ pc[p] = "busy"
  BY <1>2 DEF Next, Environment, Proc, Overlapping, BusyInv
<1>3. CASE Next /\ pc[p] # "busy"
  <2>1. SpinTest(p) /\ Overlapping
    BY <1>3
       DEF Next, Environment, Proc, Driver, SpinProc, SpinLock, SpinTest,
           SpinMark, SpinDrop, SpinUnlock, Closing, Close, User, Call, Write,
           Signal, Share, Goto
  <2>2. InUse
    BY <1>3, <2>1 DEF SpinTest, Goto, SpinInv
  <2> QED BY <2>1, <2>2 DEF Overlapping
<1> QED BY <1>1, <1>2, <1>3

\* In spinlock.c -EBUSY is never returned without a reason.
THEOREM SpinBusyIsTrue == Spec => SpinBusyMeansInUse
<1>1. Init => BusyInv
  BY DEF Init, FileInit, BusyInv
<1>2. BusyInv =>
        (driver = "spinlock" =>
           \A p \in Users : pc[p] = "busy" /\ pc'[p] = "closed"
             => p \in overlap)
  BY DEF BusyInv
<1> QED BY <1>1, <1>2, BusyStep, Invariance, PTL DEF Spec, SpinBusyMeansInUse

-----------------------------------------------------------------------------
(* The queue of the semaphore in semaphore.c.                                *)

\* Whoever sleeps without having been handed the semaphore waits for somebody:
\* it is counted down.
SleepInv == driver = "semaphore" /\ Waiting # {} => count = 0

\* "Came before" is a strict total order of the sleepers.
QueueInv ==
  driver = "semaphore" =>
    \A p \in Waiting :
      /\ ahead[p] \subseteq Waiting \ {p}
      /\ \A q \in Waiting \ {p} : q \in ahead[p] \/ p \in ahead[q]
      /\ \A q \in ahead[p] : ahead[q] \subseteq ahead[p] \ {q}

\* A finite queue has a first: a sleeper with as few as possible before it.
LEMMA FirstExists ==
  ASSUME IInv, QueueInv, driver = "semaphore", Waiting # {}
  PROVE  \E q \in Waiting : ahead[q] = {}
<1> DEFINE Before == {ahead[q] : q \in Waiting}
           Smaller == StrictSubsetOrdering(Users)
<1>1. Before \subseteq FiniteSubsetsOf(Users) /\ Before # {}
  BY UsersAssumption, FS_FiniteSubsetsOfFinite
     DEF IInv, TypeOK, SemTypeOK, Waiting
<1>2. IsWellFoundedOn(Smaller, FiniteSubsetsOf(Users))
  BY FS_StrictSubsetOrderingWellFounded
<1>3. PICK B \in Before : \A C \in Before : <<C, B>> \notin Smaller
  <2> HIDE DEF Before, Smaller
  <2> QED BY <1>1, <1>2, WFMin
<1>4. PICK q \in Waiting : B = ahead[q]
  BY <1>3
<1>5. ASSUME NEW r \in ahead[q] PROVE FALSE
  <2>1. r \in Waiting /\ ahead[r] \subseteq ahead[q] \ {r}
    BY <1>4, <1>5 DEF QueueInv
  <2>2. <<ahead[r], ahead[q]>> \in Smaller
    BY <1>5, <2>1 DEF StrictSubsetOrdering, IInv, TypeOK, SemTypeOK, Waiting
  <2> QED BY <1>3, <1>4, <2>1, <2>2
<1> QED BY <1>4, <1>5

\* What each of the semaphore's steps does to the queue.  The others leave it
\* and the labels of the sleepers alone.
LEMMA QueueStep == IInv /\ SleepInv /\ QueueInv /\ [Next]_vars
                     => SleepInv' /\ QueueInv'
<1> SUFFICES ASSUME IInv, SleepInv, QueueInv, [Next]_vars,
                    driver = "semaphore"
             PROVE  SleepInv' /\ QueueInv'
  BY DEF SleepInv, QueueInv, Next, Environment, Proc, vars
<1> USE DEF IInv, TypeOK, FileTypeOK, SemTypeOK, Goto
<1>1. ASSUME NEW p \in Users, SemDown(p)
      PROVE  SleepInv' /\ QueueInv'
  <2>1. Waiting = {} /\ Waiting' = {}
    BY <1>1 DEF SemDown, Opened, SleepInv, Waiting
  <2> QED BY <2>1 DEF SleepInv, QueueInv
<1>2. ASSUME NEW p \in Users, SemSleep(p)
      PROVE  SleepInv' /\ QueueInv'
  <2>1. p \notin Waiting /\ Waiting' = Waiting \cup {p} /\ count' = 0
    BY <1>2 DEF SemSleep, Waiting, SemInv
  <2>2. /\ ahead'[p] = Waiting
        /\ \A q \in Waiting : ahead'[q] = ahead[q]
    BY <1>2, <2>1 DEF SemSleep, Waiting
  <2> QED BY <2>1, <2>2 DEF SleepInv, QueueInv
<1>3. ASSUME NEW p \in Users, SemInterrupted(p)
      PROVE  SleepInv' /\ QueueInv'
  <2>1. Waiting' = Waiting \ {p} /\ count' = count
    BY <1>3 DEF SemInterrupted, Refused, Waiting
  <2>2. \A q \in Users : ahead'[q] = ahead[q] \ {p}
    BY <1>3 DEF SemInterrupted, Leave
  <2> QED BY <2>1, <2>2 DEF SleepInv, QueueInv, Waiting
<1>4. ASSUME NEW p \in Users, SemWake(p)
      PROVE  SleepInv' /\ QueueInv'
  <2>1. Waiting' = Waiting /\ UNCHANGED <<count, ahead>>
    BY <1>4 DEF SemWake, Opened, Waiting
  <2> QED BY <2>1 DEF SleepInv, QueueInv
<1>5. ASSUME NEW p \in Users, SemRelease(p)
      PROVE  SleepInv' /\ QueueInv'
  <2>1. CASE Waiting = {}
    <3>1. Waiting' = {}
      BY <1>5, <2>1 DEF SemRelease, Released, Up, Waiting
    <3> QED BY <3>1 DEF SleepInv, QueueInv
  <2>2. ASSUME NEW q \in Waiting, granted' = granted \cup {q},
               ahead' = Leave(q), count' = count
        PROVE  SleepInv' /\ QueueInv'
    <3>1. Waiting' = Waiting \ {q}
      BY <1>5, <2>2 DEF SemRelease, Released, Waiting
    <3>2. \A r \in Users : ahead'[r] = ahead[r] \ {q}
      BY <2>2 DEF Leave
    <3> QED BY <2>2, <3>1, <3>2 DEF SleepInv, QueueInv, Waiting
  <2> QED BY <1>5, <2>1, <2>2 DEF SemRelease, Up
<1>6. ASSUME NEW p \in Users, Closing(p) \/ User(p), UNCHANGED driver
      PROVE  SleepInv' /\ QueueInv'
  <2>1. Waiting' = Waiting /\ UNCHANGED <<count, ahead>>
    BY <1>6
       DEF Closing, Close, User, Call, Write, Signal, Share, Waiting, semVars
  <2> QED BY <1>6, <2>1 DEF SleepInv, QueueInv
<1>7. CASE UNCHANGED vars
  <2>1. Waiting' = Waiting
    BY <1>7 DEF vars, fileVars, semVars, Waiting
  <2> QED BY <1>7, <2>1 DEF SleepInv, QueueInv, vars, semVars
<1> QED BY <1>1, <1>2, <1>3, <1>4, <1>5, <1>6, <1>7
        DEF Next, Environment, Proc, Driver, SemProc

LEMMA QueueHolds == Spec => [](SleepInv /\ QueueInv)
<1>1. Init => SleepInv /\ QueueInv
  BY DEF Init, FileInit, SemInit, SleepInv, QueueInv, Waiting
<1> QED BY <1>1, QueueStep, Invariance, PTL DEF Spec

\* Nobody sleeps for a device that is free: whoever has down_interruptible to
\* wait for has it open, is about to find it handed over, or is in led_release
\* and its up() will find a first in the queue.  What fairness makes of that is
\* SemWaiterServed.
WaitersOwed ==
  driver = "semaphore" /\ Waiting # {} =>
    /\ InUse \/ granted # {}
    /\ \E q \in Waiting : ahead[q] = {}

\* However many sleep for the semaphore of semaphore.c, and whoever is
\* interrupted.
THEOREM NobodyForgotten == Spec => []WaitersOwed
<1>1. IInv /\ SleepInv /\ QueueInv => WaitersOwed
  BY FirstExists DEF IInv, SemInv, SleepInv, WaitersOwed
<1> QED BY <1>1, Invariance, QueueHolds, PTL

\* Nobody gets in front of a sleeper, and who is handed the semaphore came
\* before everybody who sleeps on: in semaphore.c no interrupt and no newcomer
\* makes up() pass anybody over.
ServedInOrder ==
  [][driver = "semaphore" =>
       \A p \in Waiting :
         /\ p \in Waiting' => ahead'[p] \subseteq ahead[p]
         /\ p \in granted' => \A q \in Waiting' : p \in ahead[q]]_vars

THEOREM FirstComeFirstServed == Spec => ServedInOrder
<1>1. ASSUME IInv, QueueInv, driver = "semaphore", [Next]_vars,
             NEW p \in Waiting
      PROVE  /\ p \in Waiting' => ahead'[p] \subseteq ahead[p]
             /\ p \in granted' => \A q \in Waiting' : p \in ahead[q]
  <2> USE DEF IInv, TypeOK, FileTypeOK, SemTypeOK, Goto, Waiting
  <2>1. ASSUME NEW r \in Users, SemRelease(r)
        PROVE  /\ p \in Waiting' => ahead'[p] \subseteq ahead[p]
               /\ p \in granted' => \A q \in Waiting' : p \in ahead[q]
    BY <1>1, <2>1 DEF SemRelease, Released, Up, Leave, QueueInv
  <2>2. ASSUME NEW r \in Users, SemProc(r), ~SemRelease(r)
        PROVE  p \notin granted' /\ (p \in Waiting' => ahead'[p] \subseteq ahead[p])
    BY <1>1, <2>2
       DEF SemProc, SemDown, SemSleep, SemInterrupted, SemWake, Opened, Refused,
           Leave
  <2>3. ASSUME NEW r \in Users, Closing(r) \/ User(r)
        PROVE  UNCHANGED semVars
    BY <2>3 DEF Closing, User
  <2>4. CASE UNCHANGED vars
    BY <2>4 DEF vars, semVars
  <2> QED BY <1>1, <2>1, <2>2, <2>3, <2>4
          DEF Next, Environment, Proc, Driver, semVars
<1>2. IInv /\ QueueInv /\ [Next]_vars =>
        [driver = "semaphore" =>
           \A p \in Waiting :
             /\ p \in Waiting' => ahead'[p] \subseteq ahead[p]
             /\ p \in granted' => \A q \in Waiting' : p \in ahead[q]]_vars
  BY <1>1
<1> QED BY <1>2, Invariance, QueueHolds, PTL DEF Spec, ServedInOrder

=============================================================================
