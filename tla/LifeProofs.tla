------------------------------ MODULE LifeProofs -----------------------------
(***************************************************************************)
(* Loading and unloading.  First the key drivers (KeyModule), for any      *)
(* processes; then the drivers of DriverLife, whatever is in its table.    *)
(***************************************************************************)
EXTENDS KeyModule, DriverOrder, SequenceTheorems, TLAPS

-----------------------------------------------------------------------------
(* KeyModule                                                                 *)

\* Loading: what has been acquired and set up so far.
LoadInv ==
  /\ stage \in {"cdev", "class", "device", "node", "gpio", "request",
                "timer"}
       => timer = "raw" /\ ~ticking
  /\ stage \in {"absent", "cdev", "class", "device", "node", "gpio", "request"}
       => "irq" \notin held
  /\ "irq" \in held /\ stage # "timer" => timer # "raw"
  /\ "irq" \in held /\ stage \notin {"timer", "queue"} => ready

\* Unloading: what is left to give back.
UnloadInv ==
  /\ stage \in Unloading => open = {}
  /\ stage \in {"delcdev", "destroy"} => "irq" \notin held
  /\ stage = "destroy" => held \subseteq {"device", "class"} \cup Kept
  /\ stage \in {"freeirq", "delcdev", "destroy", "absent"} /\ ~late
       => timer # "pending" /\ ~ticking
  /\ aborted => stage = "absent"

ModuleInv ==
  /\ ModuleTypeOK
  /\ LoadInv
  /\ UnloadInv
  /\ CleanUnload
  /\ LoadedIsSafe
  /\ UnloadedIsSafe

\* Before the first load.
LEMMA ModuleInitInv == ModuleInit => ModuleInv
  BY DEF ModuleInit, ModuleInv, ModuleTypeOK, LoadInv, UnloadInv, CleanUnload, LoadedIsSafe,
         UnloadedIsSafe, Unloading, Registrations, Kept, Complete

\* imx6uirq_init and keyio_init.
LEMMA LoadStepInv == ModuleInv /\ fault = "none" /\ LoadStep => ModuleInv'
  <1> SUFFICES ASSUME ModuleInv, fault = "none", LoadStep PROVE ModuleInv'
    OBVIOUS
  <1> USE DEF ModuleInv, ModuleTypeOK, LoadInv, UnloadInv, CleanUnload,
              LoadedIsSafe, UnloadedIsSafe, Loading, Unloading, Registrations,
              Kept, Complete, loadVars, timerVars
  <1>1. CASE Load
    BY <1>1 DEF Load, Obtain
  <1>2. CASE AddCdev
    BY <1>2 DEF AddCdev, Obtain
  <1>3. CASE CreateClass
    <2>1. CASE Obtain("class", "device") /\ UNCHANGED aborted
      BY <1>3, <2>1 DEF CreateClass, Obtain
    <2>2. CASE LoadFails
      BY <1>3, <2>2 DEF CreateClass, LoadFails
    <2> QED
      BY <1>3, <2>1, <2>2 DEF CreateClass
  <1>4. CASE CreateDevice
    <2>1. CASE Obtain("device", "node") /\ UNCHANGED aborted
      BY <1>4, <2>1 DEF CreateDevice, Obtain
    <2>2. CASE LoadFails
      BY <1>4, <2>2 DEF CreateDevice, LoadFails
    <2> QED
      BY <1>4, <2>1, <2>2 DEF CreateDevice
  <1>5. CASE FindNode
    BY <1>5 DEF FindNode, Obtain
  <1>6. CASE RequestGpio
    BY <1>6 DEF RequestGpio
  <1>7. CASE RequestIrq
    BY <1>7 DEF RequestIrq, Obtain
  <1>8. CASE InitTimer
    BY <1>8 DEF InitTimer
  <1>9. CASE InitQueue
    BY <1>9 DEF InitQueue
  <1> QED
    BY <1>1, <1>2, <1>3, <1>4, <1>5, <1>6, <1>7, <1>8, <1>9 DEF LoadStep

\* imx6uirq_exit.
LEMMA UnloadStepInv == ModuleInv /\ fault = "none" /\ UnloadStep => ModuleInv'
  <1> SUFFICES ASSUME ModuleInv, fault = "none", UnloadStep PROVE ModuleInv'
    OBVIOUS
  <1> USE DEF ModuleInv, ModuleTypeOK, LoadInv, UnloadInv, CleanUnload,
              LoadedIsSafe, UnloadedIsSafe, Loading, Unloading, Registrations,
              Kept, Complete, loadVars, timerVars
  <1>1. CASE Rmmod
    BY <1>1 DEF Rmmod
  <1>2. CASE DelTimer
    BY <1>2 DEF DelTimer
  <1>3. CASE FreeIrq
    BY <1>3 DEF FreeIrq
  <1>4. CASE DelCdev
    BY <1>4 DEF DelCdev
  <1>5. CASE Destroy
    BY <1>5 DEF Destroy
  <1> QED
    BY <1>1, <1>2, <1>3, <1>4, <1>5 DEF UnloadStep

\* Interrupts, the timer and the processes.
LEMMA UseStepInv ==
  ASSUME ModuleInv, fault = "none",
         \/ Edge \/ Handler \/ Expire \/ Finish
         \/ \E p \in Procs : Open(p) \/ UseDevice(p)
  PROVE  ModuleInv'
  <1> USE DEF ModuleInv, ModuleTypeOK, LoadInv, UnloadInv, CleanUnload,
              LoadedIsSafe, UnloadedIsSafe, Loading, Unloading, Registrations,
              Kept, Complete, loadVars, timerVars
  <1>1. CASE Edge
    BY <1>1 DEF Edge
  <1>2. CASE Handler
    BY <1>2 DEF Handler
  <1>3. CASE Expire
    BY <1>3 DEF Expire
  <1>4. CASE Finish
    BY <1>4 DEF Finish
  <1>5. ASSUME NEW p \in Procs, Open(p) PROVE ModuleInv'
    BY <1>5 DEF Open
  <1>6. ASSUME NEW p \in Procs, UseDevice(p) PROVE ModuleInv'
    BY <1>6 DEF UseDevice
  <1> QED
    BY <1>1, <1>2, <1>3, <1>4, <1>5, <1>6

\* The induction.
LEMMA ModuleInvariance == ModuleSpec => []ModuleInv
  <1>1. ModuleInv /\ ModuleNext => ModuleInv'
    BY LoadStepInv, UnloadStepInv, UseStepInv DEF ModuleNext
  <1>2. ModuleInv /\ UNCHANGED moduleVars => ModuleInv'
    BY DEF moduleVars, ModuleInv, ModuleTypeOK, LoadInv, UnloadInv, CleanUnload,
           Kept, LoadedIsSafe, UnloadedIsSafe, Complete
  <1> QED
    BY ModuleInitInv, <1>1, <1>2, PTL DEF ModuleSpec

\* Types.
THEOREM TypeCorrect == ModuleSpec => []ModuleTypeOK
  BY ModuleInvariance, PTL DEF ModuleInv

\* A driver whose keyio_init has gone through never finds anything raw.
THEOREM SafeWhenLoaded == ModuleSpec => []LoadedIsSafe
  BY ModuleInvariance, PTL DEF ModuleInv

\* Unloaded code runs only after a load that failed, or after an interrupt
\* between del_timer_sync and free_irq.
THEOREM SafeWhenUnloaded == ModuleSpec => []UnloadedIsSafe
  BY ModuleInvariance, PTL DEF ModuleInv

\* Whatever loading has acquired, unloading gives back, except the device node
\* and the GPIO.
THEOREM Released == ModuleSpec => []CleanUnload
  BY ModuleInvariance, PTL DEF ModuleInv

-----------------------------------------------------------------------------
(* DriverLife: what is acquired, and what is given back.  The table is left  *)
(* as it is: what a driver must be like is said by Formed and Paired.        *)

\* Probe and removal, as far as they are common to all drivers.
CourseInv ==
  /\ phase \in {"probe", "bound", "remove", "release", "gone"}
  /\ at \in 1 .. Len(D.probe) + 1
  /\ todo \in Seq(Ops(D))
  /\ phase # "probe" => at = Len(D.probe) + 1
  /\ at \in DOMAIN D.probe \/ phase \in {"bound", "release", "gone"}
       => todo = <<>>
  /\ \A k \in DOMAIN todo :
       todo[k].op = "abort" => \E l \in DOMAIN D.remove : D.remove[l].op = "abort"

\* The failures F that have been met before step i were ignored.
Passed(d, i, F) ==
  \A r \in F : \E j \in 1 .. i - 1 :
    d.probe[j].r = r /\ d.probe[j].failure = "ignored"

\* While the probe goes on, only such failures have been met, and what was
\* acquired is there.
ProbeInv ==
  at \in DOMAIN D.probe =>
    /\ Passed(D, at, failed)
    /\ has = There(D, at, failed)
    /\ twice = {}

\* After it, what is still to be done gives back what is there.
BackInv ==
  at \notin DOMAIN D.probe /\ Paired(D, failed) =>
    /\ twice = {}
    /\ Finds(todo, has)
    /\ phase \in {"probe", "bound"} => Even(D, D.remove, has \ Given(todo))
    /\ phase \in {"remove", "release"} =>
         has \ Given(todo) \subseteq D.managed \cup {"code"}
    /\ phase = "gone" => has = {}

PairInv == Formed(D) => CourseInv /\ ProbeInv /\ BackInv

\* The driver stays the same.
LEMMA SameDriver == [Next]_vars => driver' = driver /\ D' = D
  BY DEF Next, Acquire, FailStep, Crash, Bound, Remove, Undo, Release, Unload,
         Begin, End, Take, vars, D

\* And it is one of the table.
LEMMA WellFormed == Spec => []Formed(D)
<1>1. Init => driver \in DOMAIN Table
  BY DEF Init
<1>2. driver \in DOMAIN Table /\ [Next]_vars => (driver \in DOMAIN Table)'
  BY SameDriver
<1>3. driver \in DOMAIN Table => Formed(D)
  BY TableFormed DEF D
<1> QED BY <1>1, <1>2, <1>3, PTL DEF Spec

\* A driver's lists are sequences.
LEMMA Shape ==
  ASSUME NEW d, Formed(d)
  PROVE  /\ Len(d.probe) \in Nat \ {0}
         /\ DOMAIN d.probe = 1 .. Len(d.probe)
         /\ d.remove \in Seq(Ops(d))
         /\ \A i \in DOMAIN d.probe : Undoing(d, i) \in Seq(Ops(d))
         /\ NamedOnce(d)
<1>1. d.probe \in Seq(Steps(d)) /\ d.probe # <<>> /\ d.remove \in Seq(Ops(d))
  BY DEF Formed
<1>2. Len(d.probe) \in Nat \ {0} /\ DOMAIN d.probe = 1 .. Len(d.probe)
  BY <1>1, EmptySeq, LenProperties
<1>3. ASSUME NEW i \in DOMAIN d.probe PROVE Undoing(d, i) \in Seq(Ops(d))
  <2>1. d.probe[i] \in Steps(d)
    BY <1>1, <1>2, ElementOfSeq
  <2>2. d.probe[i].undo \in Seq(Names(d))
    BY <2>1 DEF Steps
  <2> DEFINE undo == d.probe[i].undo
  <2>3. Len(undo) \in Nat /\ undo \in [1 .. Len(undo) -> Names(d)]
    BY <2>2, LenProperties
  <2>4. \A x \in Names(d) : Give(x) \in Ops(d)
    BY DEF Give, Ops
  <2>5. Undoing(d, i) \in [1 .. Len(undo) -> Ops(d)]
    <3>1. DOMAIN undo = 1 .. Len(undo)
      BY <2>2, LenProperties
    <3>2. Undoing(d, i) = [k \in 1 .. Len(undo) |-> Give(undo[k])]
      BY <3>1 DEF Undoing
    <3> HIDE DEF undo
    <3> QED BY <2>3, <2>4, <3>2
  <2> QED BY <2>3, <2>5, SeqDef
<1> QED BY <1>1, <1>2, <1>3 DEF Formed

\* The first operation, and the others.
LEMMA TailShape ==
  ASSUME NEW S, NEW s \in Seq(S), s # <<>>
  PROVE  /\ Head(s) = s[1] /\ s[1] \in S /\ 1 \in DOMAIN s
         /\ Tail(s) \in Seq(S)
         /\ Len(s) \in Nat /\ DOMAIN s = 1 .. Len(s)
         /\ Len(Tail(s)) = Len(s) - 1 /\ DOMAIN Tail(s) = 1 .. Len(s) - 1
         /\ \A k \in DOMAIN Tail(s) :
              /\ k \in Nat \ {0} /\ k + 1 \in DOMAIN s
              /\ Tail(s)[k] = s[k + 1]
<1>1. Len(s) \in Nat \ {0} /\ DOMAIN s = 1 .. Len(s)
  BY EmptySeq, LenProperties
<1>2. /\ Head(s) = s[1] /\ Tail(s) \in Seq(S) /\ Len(Tail(s)) = Len(s) - 1
      /\ \A k \in 1 .. Len(Tail(s)) : Tail(s)[k] = s[k + 1]
  BY HeadTailProperties
<1>3. DOMAIN Tail(s) = 1 .. Len(Tail(s))
  BY <1>2, LenProperties
<1>4. s[1] \in S
  BY <1>1, ElementOfSeq
<1> QED BY <1>1, <1>2, <1>3, <1>4

\* What is there when the first operation is done.
Without(H, op) == IF op.op = "give" THEN H \ {op.of} ELSE H

\* What the operations of O find, those that remain find.
LEMMA TailMet ==
  ASSUME NEW d, NEW s \in Seq(Ops(d)), s # <<>>, NEW H, NEW O,
         \A k \in DOMAIN s : s[k].op \in O =>
           s[k].of \in H /\ \A l \in 1 .. k - 1 : s[l] # Give(s[k].of)
  PROVE  \A k \in DOMAIN Tail(s) : Tail(s)[k].op \in O =>
           /\ Tail(s)[k].of \in Without(H, s[1])
           /\ \A l \in 1 .. k - 1 : Tail(s)[l] # Give(Tail(s)[k].of)
<1> USE TailShape
<1> SUFFICES ASSUME NEW k \in DOMAIN Tail(s), Tail(s)[k].op \in O
             PROVE  /\ Tail(s)[k].of \in Without(H, s[1])
                    /\ \A l \in 1 .. k - 1 : Tail(s)[l] # Give(Tail(s)[k].of)
  OBVIOUS
<1>1. /\ s[k + 1].of \in H
      /\ \A l \in 1 .. k : s[l] # Give(s[k + 1].of)
  OBVIOUS
<1>2. s[1].op = "give" => s[1] = Give(s[1].of)
  <2>1. s[1] \in Ops(d)
    OBVIOUS
  <2> QED BY <2>1 DEF Ops, Give, MayAbort
<1> QED BY <1>1, <1>2 DEF Without

\* And what remains is given back later.
LEMMA TailGiven ==
  ASSUME NEW d, NEW s \in Seq(Ops(d)), s # <<>>, NEW H
  PROVE  Without(H, s[1]) \ Given(Tail(s)) = H \ Given(s)
<1> USE TailShape
<1>1. ASSUME NEW k \in DOMAIN s, k # 1
      PROVE  k - 1 \in DOMAIN Tail(s) /\ Tail(s)[k - 1] = s[k]
  BY <1>1
<1>2. Given(Tail(s)) \subseteq Given(s)
  BY DEF Given
<1>3. \A x \in Given(s) :
        x \in Given(Tail(s)) \/ (x = s[1].of /\ s[1].op = "give")
  <2>1. TAKE x \in Given(s)
  <2>2. PICK k \in DOMAIN s : s[k].op = "give" /\ x = s[k].of
    BY DEF Given
  <2>3. ASSUME k # 1 PROVE x \in Given(Tail(s))
    <3>1. PICK l \in DOMAIN Tail(s) : Tail(s)[l] = s[k]
      BY <1>1, <2>3
    <3> QED BY <2>2, <3>1 DEF Given
  <2> QED BY <2>2, <2>3
<1>4. s[1].op = "give" => s[1].of \in Given(s)
  BY DEF Given
<1> QED BY <1>2, <1>3, <1>4 DEF Without

LEMMA TailBack ==
  ASSUME NEW d, NEW s \in Seq(Ops(d)), s # <<>>, NEW H, Finds(s, H)
  PROVE  /\ Finds(Tail(s), Without(H, s[1]))
         /\ Without(H, s[1]) \ Given(Tail(s)) = H \ Given(s)
BY TailMet, TailGiven DEF Finds

LEMMA TailUsed ==
  ASSUME NEW d, NEW s \in Seq(Ops(d)), s # <<>>, NEW H, Used(s, H)
  PROVE  /\ Used(Tail(s), Without(H, s[1]))
         /\ s[1].op = "use" => s[1].of \in H
<1> DEFINE O == {"use"}
<1>1. \A k \in DOMAIN s : s[k].op \in O =>
        s[k].of \in H /\ \A l \in 1 .. k - 1 : s[l] # Give(s[k].of)
  BY DEF Used
<1> HIDE DEF O
<1>2. \A k \in DOMAIN Tail(s) : Tail(s)[k].op \in O =>
        /\ Tail(s)[k].of \in Without(H, s[1])
        /\ \A l \in 1 .. k - 1 : Tail(s)[l] # Give(Tail(s)[k].of)
  BY <1>1, TailMet
<1> QED BY <1>1, <1>2, TailShape DEF Used, O

-----------------------------------------------------------------------------
(* The steps of the probe.                                                   *)

\* Earlier steps are steps.
LEMMA Earlier ==
  ASSUME NEW n \in Nat, NEW i \in 1 .. n + 1
  PROVE  /\ \A j \in 1 .. i - 1 : j \in 1 .. n /\ j # i
         /\ {k \in 1 .. n + 1 : k <= i} = 1 .. i
         /\ 1 .. (i + 1) - 1 = (1 .. i - 1) \cup {i}
  OBVIOUS

\* The counter of the probe's steps.
LEMMA Counter ==
  ASSUME NEW n \in Nat, NEW i \in 1 .. n
  PROVE  /\ i + 1 \in 1 .. n + 1 /\ i \in 1 .. n + 1 /\ n + 1 \in 1 .. n + 1
         /\ n + 1 \notin 1 .. n
         /\ i + 1 \notin 1 .. n => i + 1 = n + 1 /\ (i + 1) - 1 = n
         /\ i \in 1 .. (i + 1) - 1 /\ i \in 1 .. i
         /\ \A k \in 1 .. i : \A j \in 1 .. k - 1 : j \in 1 .. i - 1
         /\ \A j \in 1 .. i - 1 : j \in 1 .. (i + 1) - 1
  OBVIOUS

\* The same for the steps of a probe.
LEMMA StepNumber ==
  ASSUME NEW d, Formed(d), NEW i \in DOMAIN d.probe
  PROVE  /\ i \in 1 .. Len(d.probe) + 1
         /\ \A j \in 1 .. i - 1 : j \in DOMAIN d.probe /\ j # i
         /\ 1 .. (i + 1) - 1 = (1 .. i - 1) \cup {i}
         /\ \A k \in 1 .. i : \A j \in 1 .. k - 1 : j \in 1 .. i - 1
<1>1. ASSUME NEW n, n \in Nat, i \in 1 .. n
      PROVE  /\ i \in 1 .. n + 1
             /\ \A j \in 1 .. i - 1 : j \in 1 .. n /\ j # i
             /\ 1 .. (i + 1) - 1 = (1 .. i - 1) \cup {i}
             /\ \A k \in 1 .. i : \A j \in 1 .. k - 1 : j \in 1 .. i - 1
  BY <1>1, Counter, Earlier
<1>2. Len(d.probe) \in Nat /\ DOMAIN d.probe = 1 .. Len(d.probe)
  BY Shape
<1> QED BY <1>1, <1>2

\* What is there when the next step begins.
LEMMA ThereStep ==
  ASSUME NEW d, Formed(d), NEW i \in DOMAIN d.probe, NEW F
  PROVE  There(d, i + 1, F) =
           IF d.probe[i].failure # "set off" /\ d.probe[i].r \notin F
           THEN There(d, i, F) \cup {d.probe[i].r} ELSE There(d, i, F)
<1> DEFINE Made(n) == {j \in 1 .. n - 1 : d.probe[j].failure # "set off"}
           Things(n) == {d.probe[j].r : j \in Made(n)}
<1>1. 1 .. (i + 1) - 1 = (1 .. i - 1) \cup {i}
  BY StepNumber
<1>2. Made(i + 1) =
        IF d.probe[i].failure # "set off" THEN Made(i) \cup {i} ELSE Made(i)
  BY <1>1
<1>3. Things(i + 1) =
        IF d.probe[i].failure # "set off" THEN Things(i) \cup {d.probe[i].r}
        ELSE Things(i)
  <2> HIDE DEF Made
  <2> QED BY <1>2
<1>4. /\ There(d, i, F) = {"code"} \cup (Things(i) \ F)
      /\ There(d, i + 1, F) = {"code"} \cup (Things(i + 1) \ F)
  BY DEF There
<1> HIDE DEF Things
<1> QED BY <1>3, <1>4

\* A failure takes away nothing that was there.
LEMMA ThereFails ==
  ASSUME NEW d, Formed(d), NEW i \in DOMAIN d.probe, NEW F,
         d.probe[i].failure # "set off"
  PROVE  There(d, i, F \cup {d.probe[i].r}) = There(d, i, F)
<1>1. \A j \in 1 .. i - 1 : j \in DOMAIN d.probe /\ j # i
  BY StepNumber
<1>2. \A j \in 1 .. i - 1 :
        d.probe[j].failure # "set off" => d.probe[j].r # d.probe[i].r
  BY <1>1, Shape DEF NamedOnce
<1> QED BY <1>2 DEF There

\* Nor did it earlier.
LEMMA ThereFailed ==
  ASSUME NEW d, Formed(d), NEW i \in DOMAIN d.probe, NEW F,
         d.probe[i].failure # "set off", NEW k \in 1 .. i
  PROVE  There(d, k, F \cup {d.probe[i].r}) = There(d, k, F)
<1>1. \A j \in 1 .. i - 1 : j \in DOMAIN d.probe /\ j # i
  BY StepNumber
<1>2. \A j \in 1 .. k - 1 : j \in 1 .. i - 1
  BY StepNumber
<1>3. \A j \in 1 .. k - 1 :
        d.probe[j].failure # "set off" => d.probe[j].r # d.probe[i].r
  BY <1>1, <1>2, Shape DEF NamedOnce
<1> QED BY <1>3 DEF There

\* A probe that has only met failures that are ignored goes on.
LEMMA Reaches ==
  ASSUME NEW d, Formed(d), NEW i \in 1 .. Len(d.probe) + 1, NEW F,
         Passed(d, i, F)
  PROVE  /\ \A k \in DOMAIN d.probe :
              d.probe[k].r \in F =>
                d.probe[k].failure \notin {"error", "success"}
         /\ Ends(d, F) = {}
         /\ \A k \in 1 .. Len(d.probe) + 1 : k \in Reached(d, F)
<1> DEFINE n == Len(d.probe)
<1>0. n \in Nat /\ DOMAIN d.probe = 1 .. n /\ NamedOnce(d)
  BY Shape
<1>1. \A j \in 1 .. i - 1 : j \in DOMAIN d.probe /\ j # i
  BY <1>0, Earlier
<1>2. \A k \in DOMAIN d.probe :
        d.probe[k].r \in F => d.probe[k].failure \notin {"error", "success"}
  BY <1>0, <1>1 DEF NamedOnce, Passed
<1>3. Ends(d, F) = {}
  BY <1>2 DEF Ends
<1> QED BY <1>2, <1>3 DEF Reached

\* The first failure that is not ignored ends it.
LEMMA Stops ==
  ASSUME NEW d, Formed(d), NEW i \in DOMAIN d.probe,
         d.probe[i].failure \in {"error", "success"}, NEW F, NEW G,
         G = F \cup {d.probe[i].r}, Passed(d, i, F)
  PROVE  Ends(d, G) = {i} /\ Reached(d, G) = 1 .. i
<1> DEFINE n == Len(d.probe)
<1>0. n \in Nat /\ DOMAIN d.probe = 1 .. n /\ NamedOnce(d) /\ i \in 1 .. n + 1
  BY Shape, StepNumber
<1>1. \A k \in DOMAIN d.probe :
        d.probe[k].r \in F => d.probe[k].failure \notin {"error", "success"}
  BY <1>0, Reaches
<1>2. \A k \in DOMAIN d.probe :
        d.probe[k].r = d.probe[i].r
          /\ d.probe[k].failure \in {"error", "success"} => k = i
  BY <1>0 DEF NamedOnce
<1>3. Ends(d, G) = {i}
  BY <1>1, <1>2 DEF Ends
<1>4. Reached(d, G) = {k \in 1 .. n + 1 : k <= i}
  BY <1>3 DEF Reached
<1> QED BY <1>0, <1>3, <1>4, Earlier

\* A probe that ends without an error has acquired what the removal gives back.
LEMMA Through ==
  ASSUME NEW d, Formed(d), NEW F, Paired(d, F), Passed(d, Len(d.probe) + 1, F)
  PROVE  Even(d, d.remove, There(d, Len(d.probe) + 1, F))
<1> DEFINE n == Len(d.probe)
<1>1. n \in Nat /\ n + 1 \in 1 .. n + 1
  BY Shape
<1>2. Ends(d, F) = {} /\ n + 1 \in Reached(d, F)
  BY <1>1, Reaches
<1>3. n + 1 \notin Ends(d, F)
  BY <1>2
<1> QED BY <1>2, <1>3 DEF Paired

-----------------------------------------------------------------------------
(* The induction.                                                            *)

\* Nothing to do gives nothing back.
LEMMA Idle ==
  ASSUME NEW H, NEW S
  PROVE  Given(<<>>) = {} /\ Finds(<<>>, H) /\ <<>> \in Seq(S)
  BY DEF Given, Finds

\* Before the probe.
LEMMA PairInit == Init => PairInv
<1> SUFFICES ASSUME Init, Formed(D) PROVE CourseInv /\ ProbeInv /\ BackInv
  BY DEF PairInv
<1>1. Len(D.probe) \in Nat \ {0} /\ DOMAIN D.probe = 1 .. Len(D.probe)
  BY Shape
<1>2. 1 \in DOMAIN D.probe /\ 1 \in 1 .. Len(D.probe) + 1
  BY <1>1
<1>3. There(D, 1, {}) = {"code"}
  BY DEF There
<1>4. CourseInv
  BY <1>2, Idle DEF Init, CourseInv
<1> QED BY <1>2, <1>3, <1>4 DEF Init, ProbeInv, BackInv, Passed

\* A step of the probe goes on, if what it leaves is as ProbeInv says.
LEMMA GoesOn ==
  ASSUME Formed(D), CourseInv, at \in DOMAIN D.probe, at' = at + 1, D' = D,
         UNCHANGED <<phase, todo>>,
         Passed(D, at + 1, failed'),
         has' = There(D, at + 1, failed'), twice' = {}
  PROVE  CourseInv' /\ ProbeInv' /\ BackInv'
<1> DEFINE n == Len(D.probe)
<1>1. n \in Nat /\ DOMAIN D.probe = 1 .. n /\ at \in 1 .. n
  BY Shape
<1> HIDE DEF n
<1>2. /\ at + 1 \in 1 .. n + 1
      /\ at + 1 \notin 1 .. n => at + 1 = n + 1 /\ (at + 1) - 1 = n
      /\ at # n + 1
  BY <1>1, Counter
<1>3. phase = "probe" /\ todo = <<>>
  BY <1>2 DEF CourseInv, n
<1>4. CourseInv'
  BY <1>2, <1>3, Idle DEF CourseInv, n
<1>5. ProbeInv'
  BY DEF ProbeInv
<1>6. ASSUME at + 1 \notin DOMAIN D.probe, Paired(D, failed')
      PROVE  Even(D, D.remove, has')
  BY <1>1, <1>2, <1>6, Through DEF n
<1>7. BackInv'
  BY <1>3, <1>6, Idle DEF BackInv
<1> QED BY <1>4, <1>5, <1>7

\* What a step leaves that acquires something.
LEMMA AcquireGives ==
  ASSUME Formed(D), ProbeInv, Acquire
  PROVE  Passed(D, at + 1, failed) /\ has' = There(D, at + 1, failed)
<1>1. at \in DOMAIN D.probe /\ DOMAIN D.probe = 1 .. Len(D.probe)
        /\ Len(D.probe) \in Nat
  BY Shape DEF Acquire
<1>2. Now.failure # "set off" => Now.r \notin failed
  <2> SUFFICES ASSUME Now.failure # "set off", Now.r \in failed PROVE FALSE
    OBVIOUS
  <2>1. PICK j \in 1 .. at - 1 :
          D.probe[j].r = Now.r /\ D.probe[j].failure = "ignored"
    BY <1>1 DEF ProbeInv, Passed
  <2>2. j \in DOMAIN D.probe /\ j # at
    BY <1>1, StepNumber
  <2> QED BY <1>1, <2>1, <2>2, Shape DEF NamedOnce, Now
<1>3. has' = There(D, at + 1, failed)
  BY <1>1, <1>2, ThereStep DEF Acquire, ProbeInv, Now
<1>4. Passed(D, at + 1, failed)
  BY <1>1, Counter DEF ProbeInv, Passed
<1> QED BY <1>3, <1>4

\* And one whose failure is ignored.
LEMMA FailureGives ==
  ASSUME Formed(D), at \in DOMAIN D.probe, Now.failure = "ignored",
         Passed(D, at, failed)
  PROVE  LET F == failed \cup {Now.r}
         IN  Passed(D, at + 1, F) /\ There(D, at + 1, F) = There(D, at, failed)
<1> DEFINE F == failed \cup {Now.r}
<1>1. at \in 1 .. Len(D.probe) /\ Len(D.probe) \in Nat /\ at \in 1 .. at
  BY Shape, Counter
<1>2. /\ D.probe[at].r \in F /\ D.probe[at].failure # "set off"
      /\ F = failed \cup {D.probe[at].r}
  BY DEF Now
<1>3. There(D, at + 1, F) = There(D, at, F)
  BY <1>2, ThereStep
<1>4. There(D, at, F) = There(D, at, failed)
  <2>1. at \in DOMAIN D.probe /\ Formed(D) /\ at \in 1 .. at
    BY <1>1
  <2> HIDE DEF F
  <2> QED BY <1>2, <2>1, ThereFailed
<1>5. Passed(D, at + 1, F)
  BY <1>1, Counter DEF Passed, Now
<1> QED BY <1>3, <1>4, <1>5

\* A step that acquires something.
LEMMA AcquireStep == PairInv /\ Acquire => PairInv'
<1> SUFFICES ASSUME PairInv, Acquire, Formed(D')
             PROVE  CourseInv' /\ ProbeInv' /\ BackInv'
  BY DEF PairInv
<1>1. D' = D /\ Formed(D) /\ CourseInv /\ ProbeInv
  BY DEF Acquire, D, PairInv
<1>2. Passed(D, at + 1, failed) /\ has' = There(D, at + 1, failed)
  BY <1>1, AcquireGives
<1>3. /\ at \in DOMAIN D.probe /\ at' = at + 1 /\ UNCHANGED <<phase, todo>>
      /\ failed' = failed /\ twice' = {}
  BY <1>1 DEF Acquire, ProbeInv
<1> QED BY <1>1, <1>2, <1>3, GoesOn

\* A step that fails.
LEMMA FailStepStep == PairInv /\ FailStep => PairInv'
<1> SUFFICES ASSUME PairInv, FailStep, Formed(D')
             PROVE  CourseInv' /\ ProbeInv' /\ BackInv'
  BY DEF PairInv
<1>1. D' = D /\ Formed(D) /\ CourseInv /\ ProbeInv
  BY DEF FailStep, D, PairInv
<1> DEFINE n == Len(D.probe)
<1>2. at \in 1 .. n /\ DOMAIN D.probe = 1 .. n /\ n \in Nat
  BY <1>1, Shape DEF FailStep
<1> HIDE DEF n
<1>3. /\ failed' = failed \cup {Now.r} /\ Now = D.probe[at]
      /\ UNCHANGED has /\ twice' = {} /\ phase = "probe"
      /\ has = There(D, at, failed)
  BY <1>1, <1>2 DEF FailStep, Now, ProbeInv
<1>4. CASE Now.failure = "ignored" /\ at' = at + 1 /\ UNCHANGED <<phase, todo>>
  <2>1. Passed(D, at, failed) /\ at \in DOMAIN D.probe
    BY <1>1, <1>2 DEF ProbeInv
  <2>2. Passed(D, at + 1, failed') /\ has' = There(D, at + 1, failed')
    BY <1>1, <1>3, <1>4, <2>1, FailureGives
  <2> QED BY <1>1, <1>3, <1>4, <2>1, <2>2, GoesOn
<1>5. CASE /\ Now.failure \in {"error", "success"}
           /\ phase' = IF Now.failure = "error" THEN "remove" ELSE "probe"
           /\ at' = n + 1
           /\ todo' = Undoing(D, at)
  <2>1. has' = There(D, at, failed')
    BY <1>1, <1>2, <1>3, <1>5, ThereFails
  <2>2. /\ n + 1 \in 1 .. n + 1 /\ n + 1 \notin 1 .. n
        /\ at \in 1 .. n + 1 /\ at \in 1 .. at
    BY <1>2, Counter
  <2>3. Ends(D, failed') = {at} /\ at \in Reached(D, failed')
    <3>1. Passed(D, at, failed)
      BY <1>1, <1>2 DEF ProbeInv
    <3>2. at \in DOMAIN D.probe /\ D.probe[at].failure \in {"error", "success"}
      BY <1>2, <1>3, <1>5
    <3>3. Formed(D) /\ failed' = failed \cup {D.probe[at].r}
      BY <1>1, <1>3
    <3>4. Ends(D, failed') = {at} /\ Reached(D, failed') = 1 .. at
      BY <3>1, <3>2, <3>3, Stops
    <3> QED BY <2>2, <3>4
  <2>4. Undoing(D, at) \in Seq(Ops(D))
    BY <1>1, <1>2, Shape
  <2>5. \A k \in DOMAIN Undoing(D, at) : Undoing(D, at)[k].op = "give"
    BY DEF Undoing, Give
  <2>6. CourseInv'
    BY <1>1, <1>2, <1>5, <2>2, <2>4, <2>5 DEF CourseInv, n
  <2>7. ProbeInv'
    BY <1>1, <1>2, <1>5, <2>2 DEF ProbeInv
  <2>8. BackInv'
    <3> SUFFICES ASSUME Paired(D, failed')
                 PROVE  /\ Finds(todo', has')
                        /\ phase' = "probe" =>
                             Even(D, D.remove, has' \ Given(todo'))
                        /\ phase' = "remove" =>
                             has' \ Given(todo') \subseteq D.managed \cup {"code"}
      BY <1>1, <1>3, <1>5 DEF BackInv
    <3>1. CASE Now.failure = "error"
      BY <1>3, <1>5, <2>1, <2>3, <3>1 DEF Paired, Even
    <3>2. CASE Now.failure = "success"
      BY <1>3, <1>5, <2>1, <2>3, <3>2 DEF Paired
    <3> QED BY <1>5, <3>1, <3>2
  <2> QED BY <2>6, <2>7, <2>8
<1>6. Undoing(D, at) = [i \in DOMAIN Now.undo |-> Give(Now.undo[i])]
  BY DEF Undoing, Now
<1> QED BY <1>4, <1>5, <1>6 DEF FailStep, n

\* Probe is over, and removal begins.
LEMMA PhaseStep == PairInv /\ (Bound \/ Remove) => PairInv'
<1> SUFFICES ASSUME PairInv, Bound \/ Remove, Formed(D')
             PROVE  CourseInv' /\ ProbeInv' /\ BackInv'
  BY DEF PairInv
<1>1. D' = D /\ Formed(D) /\ CourseInv /\ ProbeInv /\ BackInv
  BY DEF Bound, Remove, D, PairInv
<1>2. D.remove \in Seq(Ops(D)) /\ Len(D.probe) \in Nat
        /\ DOMAIN D.probe = 1 .. Len(D.probe)
  BY <1>1, Shape
<1>3. UNCHANGED <<at, has, failed, twice>>
  BY DEF Bound, Remove
<1>4. at = Len(D.probe) + 1 /\ at \notin DOMAIN D.probe /\ todo = <<>>
  <2>1. at = Len(D.probe) + 1
    BY <1>1 DEF Bound, Remove, CourseInv
  <2>2. at \notin DOMAIN D.probe
    BY <1>2, <2>1
  <2> QED BY <1>1, <2>1, <2>2 DEF Bound, Remove, CourseInv
<1>5. CASE Bound
  <2>1. CourseInv' /\ ProbeInv'
    BY <1>1, <1>3, <1>4, <1>5 DEF Bound, CourseInv, ProbeInv
  <2>2. BackInv'
    BY <1>1, <1>3, <1>4, <1>5 DEF Bound, BackInv
  <2> QED BY <2>1, <2>2
<1>6. CASE Remove
  <2>1. CourseInv' /\ ProbeInv'
    BY <1>1, <1>2, <1>3, <1>4, <1>6 DEF Remove, CourseInv, ProbeInv
  <2>2. BackInv'
    BY <1>1, <1>3, <1>4, <1>6, Idle DEF Remove, BackInv, Even
  <2> QED BY <2>1, <2>2
<1> QED BY <1>5, <1>6

\* One operation of a removal, or of an error path.
LEMMA UndoStep == PairInv /\ Undo => PairInv'
<1> SUFFICES ASSUME PairInv, Undo, Formed(D')
             PROVE  CourseInv' /\ ProbeInv' /\ BackInv'
  BY DEF PairInv
<1>1. D' = D /\ Formed(D) /\ CourseInv /\ ProbeInv /\ BackInv
  BY DEF Undo, D, PairInv
<1>2. todo # <<>> /\ at \notin DOMAIN D.probe /\ todo \in Seq(Ops(D))
  BY <1>1 DEF Undo, CourseInv
<1> DEFINE s == todo[1]
<1>3. /\ UNCHANGED <<phase, at>> /\ has' = Without(has, s)
      /\ twice' = IF s.op \in {"give", "cancel", "cancel_sync"} /\ s.of \notin has
                  THEN twice \cup {s.of} ELSE twice
      /\ \/ todo' = Tail(todo) /\ UNCHANGED failed
         \/ s.op = "abort" /\ todo' = <<>> /\ failed' = failed \cup {"remove"}
  BY <1>2, TailShape DEF Undo, Without
<1>4. ProbeInv'
  BY <1>1, <1>2, <1>3 DEF ProbeInv
<1>5. CASE todo' = Tail(todo) /\ UNCHANGED failed
  <2>1. CourseInv'
    <3>1. Tail(todo) \in Seq(Ops(D))
      BY <1>2, TailShape
    <3>2. \A k \in DOMAIN Tail(todo) :
            k + 1 \in DOMAIN todo /\ Tail(todo)[k] = todo[k + 1]
      BY <1>2, TailShape
    <3> QED BY <1>1, <1>2, <1>3, <1>5, <3>1, <3>2 DEF CourseInv
  <2>2. BackInv'
    <3> SUFFICES ASSUME Paired(D, failed)
                 PROVE  /\ twice' = {}
                        /\ Finds(todo', has')
                        /\ has' \ Given(todo') = has \ Given(todo)
      BY <1>1, <1>2, <1>3, <1>5 DEF BackInv, CourseInv
    <3>1. twice = {} /\ Finds(todo, has)
      BY <1>1, <1>2 DEF BackInv
    <3>2. s.op \in {"give", "cancel", "cancel_sync"} => s.of \in has
      BY <1>2, <3>1, TailShape DEF Finds
    <3> QED BY <1>2, <1>3, <1>5, <3>1, <3>2, TailBack
  <2> QED BY <1>4, <2>1, <2>2
<1>6. CASE s.op = "abort" /\ todo' = <<>> /\ failed' = failed \cup {"remove"}
  <2>1. ~ Paired(D, failed')
    BY <1>1, <1>2, <1>6, TailShape DEF CourseInv, Paired, NoAbort
  <2>2. CourseInv'
    BY <1>1, <1>2, <1>3, <1>6, Idle DEF CourseInv
  <2> QED BY <1>1, <1>4, <2>1, <2>2 DEF BackInv
<1> QED BY <1>3, <1>5, <1>6

\* What the driver core does in the end.
LEMMA CoreStep == PairInv /\ (Release \/ Unload) => PairInv'
<1> SUFFICES ASSUME PairInv, Release \/ Unload, Formed(D')
             PROVE  CourseInv' /\ ProbeInv' /\ BackInv'
  BY DEF PairInv
<1>1. D' = D /\ Formed(D) /\ CourseInv /\ ProbeInv /\ BackInv
  BY DEF Release, Unload, D, PairInv
<1>2. /\ phase \in {"remove", "release"} /\ phase' \in {"release", "gone"}
      /\ todo = <<>> /\ UNCHANGED <<at, todo, failed, twice>>
  BY DEF Release, Unload
<1>3. at = Len(D.probe) + 1 /\ at \notin DOMAIN D.probe
  <2>1. Len(D.probe) \in Nat /\ DOMAIN D.probe = 1 .. Len(D.probe)
    BY <1>1, Shape
  <2>2. at = Len(D.probe) + 1
    BY <1>1, <1>2 DEF CourseInv
  <2> QED BY <2>1, <2>2
<1>4. CourseInv' /\ ProbeInv'
  BY <1>1, <1>2, <1>3, Idle DEF CourseInv, ProbeInv
<1>5. BackInv'
  <2> SUFFICES ASSUME Paired(D, failed)
               PROVE  /\ twice = {}
                      /\ has' \subseteq D.managed \cup {"code"}
                      /\ phase' = "gone" => has' = {}
    BY <1>1, <1>2, <1>3, Idle DEF BackInv
  <2>1. twice = {} /\ has \subseteq D.managed \cup {"code"}
    BY <1>1, <1>2, <1>3, Idle DEF BackInv
  <2> QED BY <2>1 DEF Release, Unload
<1> QED BY <1>4, <1>5

\* The callbacks acquire nothing that is given back and give nothing back, and
\* a probe that crashes stays where it is.
LEMMA CallbackStep ==
  /\ PairInv
  /\ \/ \E c \in Callbacks : Begin(c) \/ End(c)
     \/ \E r \in {"node", "gpio"} : Take(r)
     \/ Crash \/ UNCHANGED vars
  => PairInv'
<1> SUFFICES ASSUME PairInv,
                    UNCHANGED <<driver, phase, at, todo, has, failed, twice>>
             PROVE  PairInv'
  BY DEF Begin, End, Take, Crash, vars
<1>1. D' = D
  BY DEF D
<1> QED BY <1>1 DEF PairInv, CourseInv, ProbeInv, BackInv

\* The induction.
LEMMA PairHolds == Spec => []PairInv
<1>1. PairInv /\ [Next]_vars => PairInv'
  BY AcquireStep, FailStepStep, PhaseStep, UndoStep, CoreStep, CallbackStep
     DEF Next
<1> QED BY PairInit, <1>1, PTL DEF Spec

\* Only open() takes anything that nothing gives back.
LEMMA TakenByOpen == Spec => [](driver \notin Openers => taken = {})
<1>1. Init => taken = {}
  BY DEF Init
<1>2. (driver \notin Openers => taken = {}) /\ [Next]_vars
        => (driver \notin Openers => taken = {})'
  BY DEF Next, Acquire, FailStep, Crash, Bound, Remove, Undo, Release, Unload,
         Begin, End, Take, vars
<1> QED BY <1>1, <1>2, PTL DEF Spec

\* A driver whose open() acquires nothing, and whose removal and error paths are
\* Paired with its probe, for the steps that have failed, gives back all that it
\* acquired, and nothing twice, however its removal, its error paths and its
\* callbacks interleave.
Gives == Paired(D, failed) /\ driver \notin Openers

GivesBack == twice = {} /\ (phase = "gone" => has \cup taken = {})

LEMMA PairedGivesBack ==
  /\ PairInv /\ Formed(D) /\ (driver \notin Openers => taken = {})
  /\ Gives
  => GivesBack
<1> SUFFICES ASSUME PairInv, Formed(D), Paired(D, failed), taken = {}
             PROVE  GivesBack
  BY DEF Gives
<1>1. CourseInv /\ ProbeInv /\ BackInv
  BY DEF PairInv
<1>2. Len(D.probe) \in Nat /\ DOMAIN D.probe = 1 .. Len(D.probe)
  BY Shape
<1>3. phase = "gone" => at \notin DOMAIN D.probe
  <2>1. phase = "gone" => at = Len(D.probe) + 1
    BY <1>1 DEF CourseInv
  <2> QED BY <1>2, <2>1
<1> QED BY <1>1, <1>3 DEF ProbeInv, BackInv, GivesBack

THEOREM GivenBack == Spec => [](Gives => GivesBack)
  BY PairedGivesBack, PairHolds, WellFormed, TakenByOpen, PTL

\* For such a driver what is Balanced needs none of the exceptions.
THEOREM BalancedWhenPaired == Spec => [](Gives => Balanced)
<1>1. GivesBack => Balanced
  BY DEF GivesBack, Balanced
<1> QED BY <1>1, GivenBack, PTL

\* Nothing else than what the driver's line names is ever acquired, called, given
\* back or missed.
LEMMA TypeStep ==
  Formed(D) /\ CourseInv /\ CourseInv' /\ TypeOK /\ [Next]_vars => TypeOK'
<1> SUFFICES ASSUME Formed(D), CourseInv, CourseInv', TypeOK, [Next]_vars
             PROVE  TypeOK'
  OBVIOUS
<1>1. driver' = driver /\ D' = D
  BY SameDriver
<1>2. /\ Resources = Names(D) /\ Callbacks = DOMAIN D.uses
      /\ Resources' = Names(D) /\ Callbacks' = DOMAIN D.uses
      /\ Deferred' = Deferred
  BY <1>1 DEF Resources, Names, Callbacks, Deferred
<1>3. /\ \A c \in DOMAIN D.uses : D.uses[c] \subseteq Names(D)
      /\ \A c \in DOMAIN D.uses : D.starts[c] \subseteq Deferred
      /\ \A i \in DOMAIN D.probe :
           D.probe[i].failure = "set off" => D.probe[i].r \in Deferred
  BY DEF Formed, SetOffKnown, Deferred, Callbacks
<1>4. ASSUME NEW c \in DOMAIN D.uses
      PROVE  Missing(c) \subseteq {c} \X (Names(D) \cup {"code"})
  <2>1. D.uses[c] \cup {"code"} \subseteq Names(D) \cup {"code"}
    BY <1>3
  <2>2. \A r \in Names(D) \cup {"code"} :
          <<c, r>> \in {c} \X (Names(D) \cup {"code"})
    OBVIOUS
  <2> QED BY <2>1, <2>2 DEF Missing
<1>5. /\ driver' \in DOMAIN Table
      /\ phase' \in {"probe", "bound", "remove", "release", "gone"}
      /\ at' \in 1 .. Len(D.probe) + 1
  BY <1>1 DEF TypeOK, CourseInv
<1> DEFINE Rest ==
             /\ has' \subseteq Names(D) \cup {"code"}
             /\ pending' \subseteq Deferred
             /\ running' \subseteq DOMAIN D.uses
             /\ failed' \subseteq Names(D) \cup {"remove"}
             /\ taken' \subseteq {"node", "gpio"}
             /\ missed' \subseteq (DOMAIN D.uses \cup {"probe", "remove"})
                               \X (Names(D) \cup {"code"})
             /\ twice' \subseteq Names(D)
<1>6. ASSUME Acquire \/ FailStep PROVE Rest
  <2>1. at \in DOMAIN D.probe /\ Now.r \in Names(D)
    BY <1>6 DEF Acquire, FailStep, Now, Names
  <2>2. Now.failure = "set off" => Now.r \in Deferred
    BY <1>3, <2>1 DEF Now
  <2> QED BY <1>2, <1>6, <2>1, <2>2 DEF Acquire, FailStep, TypeOK
<1>7. ASSUME Bound \/ Remove \/ Release \/ Unload \/ UNCHANGED vars PROVE Rest
  BY <1>2, <1>7 DEF Bound, Remove, Release, Unload, vars, TypeOK
<1>t. ASSUME NEW r \in {"node", "gpio"}, Take(r) PROVE Rest
  BY <1>2, <1>t DEF Take, TypeOK
<1>c. ASSUME Crash PROVE Rest
  <2>1. Now.r \in Names(D)
    BY <1>c DEF Crash, Now, Names
  <2>2. <<"probe", Now.r>> \in (DOMAIN D.uses \cup {"probe", "remove"})
                                \X (Names(D) \cup {"code"})
    BY <2>1
  <2> QED BY <1>2, <1>c, <2>2 DEF Crash, TypeOK
<1>8. ASSUME Undo PROVE Rest
  <2>1. todo \in Seq(Ops(D)) /\ todo # <<>>
    BY <1>8 DEF Undo, CourseInv
  <2>2. Head(todo) \in Ops(D)
    BY <2>1, TailShape
  <2>3. Head(todo).op # "abort" => Head(todo).of \in Names(D)
    BY <2>2 DEF Ops, MayAbort
  <2> QED BY <1>2, <1>8, <2>3 DEF Undo, TypeOK
<1>9. ASSUME NEW c \in Callbacks, Begin(c) PROVE Rest
  BY <1>2, <1>4, <1>9 DEF Begin, TypeOK
<1>10. ASSUME NEW c \in Callbacks, End(c) PROVE Rest
  <2>1. has' = has /\ taken' = taken /\ failed' = failed /\ twice' = twice
          /\ running' \subseteq running /\ missed' = missed \cup Missing(c)
    BY <1>10 DEF End
  <2>2. pending' \subseteq pending \cup D.starts[c]
    BY <1>10 DEF End
  <2>3. pending' \subseteq Deferred
    BY <1>2, <1>3, <2>2 DEF TypeOK
  <2>4. missed' \subseteq (DOMAIN D.uses \cup {"probe", "remove"})
                         \X (Names(D) \cup {"code"})
    <3>1. Missing(c) \subseteq {c} \X (Names(D) \cup {"code"})
      BY <1>2, <1>4
    <3>2. {c} \X (Names(D) \cup {"code"})
            \subseteq (DOMAIN D.uses \cup {"probe", "remove"})
                      \X (Names(D) \cup {"code"})
      BY <1>2
    <3> QED BY <1>2, <2>1, <3>1, <3>2 DEF TypeOK
  <2> QED BY <1>2, <2>1, <2>3, <2>4 DEF TypeOK
<1>11. Rest
  BY <1>6, <1>7, <1>8, <1>9, <1>10, <1>t, <1>c DEF Next
<1> HIDE DEF Rest
<1>12. TypeOK' <=> /\ driver' \in DOMAIN Table
                  /\ phase' \in {"probe", "bound", "remove", "release", "gone"}
                  /\ at' \in 1 .. Len(D.probe) + 1
                  /\ Rest
  BY <1>1, <1>2 DEF TypeOK, Rest
<1> QED BY <1>5, <1>11, <1>12

\* Probe, removal and callbacks keep to the types of TypeOK.
THEOREM LifeTypeCorrect == Spec => []TypeOK
<1>1. Init /\ Formed(D) => TypeOK
  <2> SUFFICES ASSUME Init, Formed(D) PROVE TypeOK
    OBVIOUS
  <2>1. Len(D.probe) \in Nat \ {0}
    BY Shape
  <2>2. 1 \in 1 .. Len(D.probe) + 1
    BY <2>1
  <2> QED BY <2>2 DEF Init, TypeOK
<1>2. PairInv /\ Formed(D) => CourseInv
  BY DEF PairInv
<1> QED BY <1>1, <1>2, TypeStep, PairHolds, WellFormed, PTL DEF Spec

-----------------------------------------------------------------------------
(* DriverLife: what the callbacks find.                                      *)

\* The callbacks that may come, or are running.
Alive ==
  {c \in Callbacks : c \in pending \cup running \/ c \in has \ Later(D)}

\* What is not set off by something else is only called while it is registered.
HeldInv ==
  /\ running \subseteq Callbacks
  /\ pending \subseteq Later(D)
  /\ running \ Later(D) \subseteq has
  /\ has \subseteq Names(D) \cup {"code"}

\* What is set off is a callback.
LEMMA Starts ==
  ASSUME NEW d, Formed(d)
  PROVE  /\ "code" \notin DOMAIN d.uses
         /\ Later(d) \subseteq DOMAIN d.uses
         /\ \A c \in DOMAIN d.uses :
              d.starts[c] \subseteq Later(d) /\ d.starts[c] \subseteq DOMAIN d.uses
         /\ \A i \in DOMAIN d.probe :
              d.probe[i].failure = "set off" => d.probe[i].r \in Later(d)
<1>1. SetOffKnown(d)
  BY DEF Formed
<1> QED BY <1>1 DEF SetOffKnown, Later

\* Only the module and what a step has named is acquired.
LEMMA HeldStep ==
  Formed(D) /\ HeldInv /\ [Next]_vars => HeldInv'
<1> SUFFICES ASSUME Formed(D), HeldInv, [Next]_vars PROVE HeldInv'
  OBVIOUS
<1>1. D' = D /\ Callbacks' = Callbacks /\ Callbacks = DOMAIN D.uses
        /\ Deferred = Later(D)
  BY SameDriver DEF Callbacks, Deferred, Later
<1> SUFFICES /\ running' \subseteq Callbacks
             /\ pending' \subseteq Later(D)
             /\ running' \ Later(D) \subseteq has'
             /\ has' \subseteq Names(D) \cup {"code"}
  BY <1>1 DEF HeldInv
<1>2. CASE Acquire
  <2>1. Now.r \in Names(D)
    BY <1>2 DEF Acquire, Now, Names
  <2>2. Now.failure = "set off" => Now.r \in Later(D)
    BY <1>2, Starts DEF Acquire, Now
  <2> QED BY <1>2, <2>1, <2>2 DEF Acquire, HeldInv
<1>3. CASE \/ FailStep \/ Crash \/ Bound \/ Remove \/ UNCHANGED vars
           \/ \E r \in {"node", "gpio"} : Take(r)
  BY <1>3 DEF FailStep, Crash, Bound, Remove, Take, vars, HeldInv
<1>4. CASE Undo
  BY <1>4 DEF Undo, HeldInv
<1>5. CASE Release
  BY <1>1, <1>5 DEF Release, HeldInv
<1>6. CASE Unload
  BY <1>1, <1>6, Starts DEF Unload, HeldInv
<1>7. ASSUME NEW c \in Callbacks, Begin(c) PROVE HeldInv'
  BY <1>1, <1>7 DEF Begin, HeldInv
<1>8. ASSUME NEW c \in Callbacks, End(c) PROVE HeldInv'
  BY <1>1, <1>8, Starts DEF End, HeldInv
<1>9. HeldInv' => /\ running' \subseteq Callbacks
                  /\ pending' \subseteq Later(D)
                  /\ running' \ Later(D) \subseteq has'
                  /\ has' \subseteq Names(D) \cup {"code"}
  BY <1>1 DEF HeldInv
<1> QED BY <1>2, <1>3, <1>4, <1>5, <1>6, <1>7, <1>8, <1>9 DEF Next

\* What may come when a step begins, and when the next one does.
LEMMA HotStep ==
  ASSUME NEW d, Formed(d), NEW i
  PROVE  /\ Hot(d, i) \subseteq DOMAIN d.uses
         /\ Sources(d, i) \subseteq Hot(d, i)
         /\ Closed(d, Hot(d, i))
         /\ i \in DOMAIN d.probe =>
              /\ Hot(d, i) \subseteq Hot(d, i + 1)
              /\ \A c \in DOMAIN d.uses :
                   /\ d.probe[i].r = c
                   /\ d.probe[i].failure = "set off" \/ c \notin Later(d)
                   => c \in Hot(d, i + 1)
<1>1. Hot(d, i) \subseteq DOMAIN d.uses /\ Sources(d, i) \subseteq Hot(d, i)
  BY DEF Hot, Sources
<1>2. ASSUME NEW c \in Hot(d, i), NEW b \in d.starts[c] PROVE b \in Hot(d, i)
  <2>1. b \in DOMAIN d.uses
    BY <1>1, Starts
  <2>2. ASSUME NEW K \in SUBSET DOMAIN d.uses, Sources(d, i) \subseteq K,
               Closed(d, K)
        PROVE  b \in K
    BY <2>2 DEF Hot, Closed
  <2> QED BY <2>1, <2>2 DEF Hot
<1>3. ASSUME i \in DOMAIN d.probe
      PROVE  Sources(d, i) \subseteq Sources(d, i + 1)
  <2>1. \A j \in 1 .. i - 1 : j \in 1 .. (i + 1) - 1
    BY <1>3, StepNumber
  <2> QED BY <2>1 DEF Sources
<1>4. ASSUME i \in DOMAIN d.probe PROVE Hot(d, i) \subseteq Hot(d, i + 1)
  BY <1>3, <1>4 DEF Hot
<1>5. ASSUME i \in DOMAIN d.probe, NEW c \in DOMAIN d.uses,
             d.probe[i].r = c,
             d.probe[i].failure = "set off" \/ c \notin Later(d)
      PROVE  c \in Hot(d, i + 1)
  <2>1. i \in 1 .. (i + 1) - 1
    BY <1>5, StepNumber
  <2>2. c \in Sources(d, i + 1)
    BY <1>5, <2>1 DEF Sources
  <2> QED BY <2>2 DEF Hot, Sources
<1> QED BY <1>1, <1>2, <1>4, <1>5 DEF Closed

\* While the probe goes on, nothing comes but what its steps have made possible,
\* and nothing was missing unless one of them came too early.
AliveInv ==
  at \in DOMAIN D.probe =>
    /\ Alive \subseteq Hot(D, at)
    /\ (\A i \in 1 .. at : Served(D, i, failed)) => missed = {}

\* After it, K is what may still come, and the operations still to be done are
\* those that end it.
Staying(K) ==
  /\ Closed(D, K)
  /\ Undisturbed(D, K, todo)
  /\ Removes(driver, D, K, has \ Given(todo))

Leaving(K) ==
  /\ \A c \in K : (Gated(driver, c) /\ c \notin running) \/ D.starts[c] \subseteq K
  /\ Discipline(driver, D, K, todo)

Keeps(K) ==
  /\ Alive \subseteq K
  /\ \A c \in K : Needs(D, c) \subseteq has
  /\ Used(todo, has)
  /\ phase \in {"probe", "bound"} => Staying(K)
  /\ phase \in {"remove", "release"} => Leaving(K)

OverInv ==
  at \notin DOMAIN D.probe /\ Ordered(driver, D, failed) =>
    /\ missed = {}
    /\ phase # "gone" => \E K \in SUBSET Callbacks : Keeps(K)
    /\ phase = "gone" => Alive = {}

ReadyInv == Formed(D) => HeldInv /\ AliveInv /\ OverInv

\* Nothing to do disturbs nothing.
LEMMA IdleReady ==
  ASSUME NEW H, NEW d, NEW K
  PROVE  Used(<<>>, H) /\ Undisturbed(d, K, <<>>)
  BY DEF Used, Undisturbed

\* Before the probe.
LEMMA ReadyInit == Init => ReadyInv
<1> SUFFICES ASSUME Init, Formed(D) PROVE HeldInv /\ AliveInv /\ OverInv
  BY DEF ReadyInv
<1>1. 1 \in DOMAIN D.probe
  <2>1. Len(D.probe) \in Nat \ {0} /\ DOMAIN D.probe = 1 .. Len(D.probe)
    BY Shape
  <2> QED BY <2>1
<1>2. Alive = {}
  BY Starts DEF Init, Alive, Callbacks
<1>3. HeldInv
  BY DEF Init, HeldInv
<1>4. AliveInv /\ OverInv
  BY <1>1, <1>2 DEF Init, AliveInv, OverInv
<1> QED BY <1>3, <1>4

\* A step of the probe goes on.
LEMMA ReadyGoesOn ==
  ASSUME Formed(D), CourseInv, AliveInv, at \in DOMAIN D.probe, at' = at + 1,
         D' = D, UNCHANGED <<driver, phase, todo, missed>>,
         Alive' \subseteq Hot(D, at + 1),
         Passed(D, at + 1, failed'), has' = There(D, at + 1, failed'),
         \A i \in 1 .. at : There(D, i, failed') = There(D, i, failed)
  PROVE  AliveInv' /\ OverInv'
<1> DEFINE n == Len(D.probe)
<1>1. n \in Nat /\ DOMAIN D.probe = 1 .. n /\ at \in 1 .. n
  BY Shape
<1> HIDE DEF n
<1>2. /\ at + 1 \in 1 .. n + 1 /\ n + 1 \in 1 .. n + 1
      /\ at + 1 \notin 1 .. n => at + 1 = n + 1
      /\ at # n + 1
      /\ \A i \in 1 .. at : i \in 1 .. at + 1 /\ i \in 1 .. n + 1
  BY <1>1, Counter
<1>3. phase = "probe" /\ todo = <<>>
  BY <1>2 DEF CourseInv, n
<1>4. \A i \in 1 .. at : Served(D, i, failed') = Served(D, i, failed)
  BY DEF Served
<1>5. (\A i \in 1 .. at : Served(D, i, failed')) => missed' = {}
  BY <1>4 DEF AliveInv
<1>6. AliveInv'
  BY <1>2, <1>5 DEF AliveInv
<1>7. ASSUME at + 1 \notin DOMAIN D.probe, Ordered(driver, D, failed')
      PROVE  missed' = {} /\ \E K \in SUBSET Callbacks : Keeps(K)'
  <2> PICK K : K = Hot(D, at + 1)
    OBVIOUS
  <2>1. at + 1 = n + 1
    BY <1>1, <1>2, <1>7
  <2>2. Ends(D, failed') = {} /\ \A i \in 1 .. n + 1 : i \in Reached(D, failed')
    BY <1>2, Reaches DEF n
  <2>3. missed' = {}
    BY <1>2, <1>5, <1>7, <2>2 DEF Ordered
  <2>4. Served(D, at + 1, failed') /\ Removes(driver, D, K, has')
    BY <1>2, <1>7, <2>1, <2>2 DEF Ordered, n
  <2>5. K \in SUBSET Callbacks /\ Closed(D, K)
    BY HotStep DEF Callbacks
  <2>6. \A c \in K : Needs(D, c) \subseteq has'
    BY <2>4 DEF Served
  <2>7. has' \ Given(<<>>) = has'
    BY Idle
  <2>8. Keeps(K)'
    BY <1>3, <2>4, <2>5, <2>6, <2>7, IdleReady DEF Keeps, Staying
  <2> QED BY <2>3, <2>5, <2>8
<1>8. OverInv'
  BY <1>3, <1>7 DEF OverInv, Callbacks
<1> QED BY <1>6, <1>8

\* A step that acquires something.
LEMMA ReadyAcquire == PairInv /\ ReadyInv /\ Acquire => ReadyInv'
<1> SUFFICES ASSUME PairInv, ReadyInv, Acquire, Formed(D')
             PROVE  HeldInv' /\ AliveInv' /\ OverInv'
  BY DEF ReadyInv
<1>1. D' = D /\ Formed(D) /\ CourseInv /\ ProbeInv /\ HeldInv /\ AliveInv
  BY DEF Acquire, D, PairInv, ReadyInv
<1>2. HeldInv'
  BY <1>1, HeldStep DEF Next
<1>3. /\ at \in DOMAIN D.probe /\ at' = at + 1 /\ failed' = failed
      /\ UNCHANGED <<driver, phase, todo, missed, running>>
      /\ IF Now.failure = "set off"
         THEN pending' = pending \cup {Now.r} /\ UNCHANGED has
         ELSE has' = has \cup {Now.r} /\ UNCHANGED pending
  BY DEF Acquire
<1>4. Passed(D, at + 1, failed') /\ has' = There(D, at + 1, failed')
  BY <1>1, <1>3, AcquireGives
<1>5. Alive' \subseteq Hot(D, at + 1)
  <2>1. Alive \subseteq Hot(D, at) /\ Hot(D, at) \subseteq Hot(D, at + 1)
    BY <1>1, <1>3, HotStep DEF AliveInv
  <2>2. \A c \in DOMAIN D.uses :
          Now.r = c /\ (Now.failure = "set off" \/ c \notin Later(D))
            => c \in Hot(D, at + 1)
    BY <1>1, <1>3, HotStep DEF Now
  <2>3. Alive' = {c \in DOMAIN D.uses :
                    c \in pending' \cup running' \/ c \in has' \ Later(D)}
    BY <1>1 DEF Alive, Callbacks
  <2>4. ASSUME NEW c, c \in Alive'
        PROVE  \/ c \in Alive
               \/ c \in DOMAIN D.uses /\ Now.r = c
                    /\ (Now.failure = "set off" \/ c \notin Later(D))
    <3>1. c \in DOMAIN D.uses
            /\ (c \in pending' \cup running' \/ c \in has' \ Later(D))
      BY <2>3, <2>4
    <3>2. CASE Now.failure = "set off"
      <4>1. pending' = pending \cup {Now.r} /\ has' = has /\ running' = running
        BY <1>3, <3>2
      <4>2. c \in pending \cup running \/ c \in has \ Later(D) \/ c = Now.r
        BY <3>1, <4>1
      <4> QED BY <3>1, <3>2, <4>2 DEF Alive, Callbacks
    <3>3. CASE Now.failure # "set off"
      BY <1>3, <3>1, <3>3 DEF Alive, Callbacks
    <3> QED BY <3>2, <3>3
  <2> QED BY <2>1, <2>2, <2>4
<1> QED BY <1>1, <1>2, <1>3, <1>4, <1>5, ReadyGoesOn

\* A step that fails.
LEMMA ReadyFailStep == PairInv /\ ReadyInv /\ FailStep => ReadyInv'
<1> SUFFICES ASSUME PairInv, ReadyInv, FailStep, Formed(D')
             PROVE  HeldInv' /\ AliveInv' /\ OverInv'
  BY DEF ReadyInv
<1>1. D' = D /\ Formed(D) /\ CourseInv /\ ProbeInv /\ HeldInv /\ AliveInv
  BY DEF FailStep, D, PairInv, ReadyInv
<1>2. HeldInv'
  BY <1>1, HeldStep DEF Next
<1> DEFINE n == Len(D.probe)
<1>3. n \in Nat /\ DOMAIN D.probe = 1 .. n /\ at \in DOMAIN D.probe
  BY <1>1, Shape DEF FailStep
<1> HIDE DEF n
<1>4. /\ failed' = failed \cup {Now.r} /\ Now = D.probe[at]
      /\ UNCHANGED <<driver, has, pending, running, missed>>
      /\ has = There(D, at, failed) /\ Passed(D, at, failed)
      /\ phase = "probe"
  BY <1>1, <1>3 DEF FailStep, Now, ProbeInv
<1>5. Alive' = Alive /\ Alive \subseteq Hot(D, at)
  BY <1>1, <1>3, <1>4 DEF Alive, Callbacks, AliveInv
<1>6. ASSUME Now.failure # "set off", NEW i \in 1 .. at
      PROVE  There(D, i, failed') = There(D, i, failed)
  BY <1>1, <1>3, <1>4, <1>6, ThereFailed
<1>7. CASE Now.failure = "ignored" /\ at' = at + 1 /\ UNCHANGED <<phase, todo>>
  <2>1. Alive' \subseteq Hot(D, at + 1)
    BY <1>1, <1>3, <1>5, HotStep
  <2>2. Passed(D, at + 1, failed') /\ has' = There(D, at + 1, failed')
    BY <1>1, <1>3, <1>4, <1>7, FailureGives
  <2> QED BY <1>1, <1>2, <1>3, <1>4, <1>6, <1>7, <2>1, <2>2, ReadyGoesOn
<1>8. CASE /\ Now.failure \in {"error", "success"}
           /\ phase' = IF Now.failure = "error" THEN "remove" ELSE "probe"
           /\ at' = n + 1
           /\ todo' = Undoing(D, at)
  <2> PICK K : K = Hot(D, at)
    OBVIOUS
  <2>1. /\ n + 1 \notin 1 .. n /\ at \in 1 .. at
    BY <1>3, Counter
  <2>2. Ends(D, failed') = {at} /\ Reached(D, failed') = 1 .. at
    BY <1>1, <1>3, <1>4, <1>8, Stops
  <2>3. ASSUME Ordered(driver, D, failed')
        PROVE  missed' = {} /\ Keeps(K)'
    <3>1. \A i \in 1 .. at : Served(D, i, failed')
      BY <2>2, <2>3 DEF Ordered
    <3>2. \A i \in 1 .. at : Served(D, i, failed)
      BY <1>6, <1>8, <3>1 DEF Served
    <3>3. missed' = {}
      BY <1>1, <1>3, <1>4, <3>2 DEF AliveInv
    <3>4. has' = There(D, at, failed')
      BY <1>4, <1>6, <1>8, <2>1
    <3>5. \A c \in K : Needs(D, c) \subseteq has'
      BY <2>1, <3>1, <3>4 DEF Served
    <3>6. Used(todo', has')
      BY <1>8 DEF Used, Undoing, Give
    <3>7. Closed(D, K)
      BY <1>1, HotStep
    <3>8. IF Now.failure = "error"
          THEN Discipline(driver, D, K, Undoing(D, at))
          ELSE /\ Undisturbed(D, K, Undoing(D, at))
               /\ Removes(driver, D, K, has' \ Given(Undoing(D, at)))
      BY <1>4, <2>1, <2>2, <2>3, <3>4 DEF Ordered
    <3>9. CASE Now.failure = "error"
      <4>1. Leaving(K)'
        BY <1>1, <1>4, <1>8, <3>7, <3>8, <3>9 DEF Leaving, Closed
      <4> QED BY <1>1, <1>5, <1>8, <3>3, <3>5, <3>6, <3>9, <4>1 DEF Keeps
    <3>10. CASE Now.failure = "success"
      <4>1. Staying(K)'
        BY <1>1, <1>4, <1>8, <3>7, <3>8, <3>10 DEF Staying
      <4> QED BY <1>1, <1>5, <1>8, <3>3, <3>5, <3>6, <3>10, <4>1 DEF Keeps
    <3> QED BY <1>8, <3>9, <3>10
  <2>4. K \in SUBSET Callbacks
    BY <1>1, HotStep DEF Callbacks
  <2>5. AliveInv'
    BY <1>1, <1>3, <1>8, <2>1 DEF AliveInv
  <2>6. OverInv'
    BY <1>1, <1>4, <1>8, <2>3, <2>4 DEF OverInv, Callbacks
  <2> QED BY <1>2, <2>5, <2>6
<1>9. Undoing(D, at) = [i \in DOMAIN Now.undo |-> Give(Now.undo[i])]
  BY DEF Undoing, Now
<1> QED BY <1>7, <1>8, <1>9 DEF FailStep, n

\* Probe is over, and removal begins.
LEMMA ReadyPhase ==
  PairInv /\ ReadyInv /\ (Bound \/ Remove) => ReadyInv'
<1> SUFFICES ASSUME PairInv, ReadyInv, Bound \/ Remove, Formed(D')
             PROVE  HeldInv' /\ AliveInv' /\ OverInv'
  BY DEF ReadyInv
<1>1. D' = D /\ Formed(D) /\ CourseInv /\ HeldInv /\ OverInv
  BY DEF Bound, Remove, D, PairInv, ReadyInv
<1>2. HeldInv'
  BY <1>1, HeldStep DEF Next
<1>3. /\ UNCHANGED <<driver, at, has, pending, running, failed, missed>>
      /\ phase' \in {"bound", "remove"} /\ todo = <<>>
      /\ Alive' = Alive
  BY <1>1 DEF Bound, Remove, CourseInv, Alive, Callbacks
<1>4. at \notin DOMAIN D.probe
  <2>1. Len(D.probe) \in Nat /\ DOMAIN D.probe = 1 .. Len(D.probe)
    BY <1>1, Shape
  <2>2. at = Len(D.probe) + 1
    BY <1>1 DEF Bound, Remove, CourseInv
  <2> QED BY <2>1, <2>2
<1>5. AliveInv'
  BY <1>1, <1>3, <1>4 DEF AliveInv
<1>6. ASSUME Ordered(driver, D, failed)
      PROVE  missed = {} /\ \E K \in SUBSET Callbacks : Keeps(K)'
  <2>1. missed = {} /\ phase # "gone"
    BY <1>1, <1>4, <1>6 DEF OverInv, Bound, Remove
  <2>2. PICK K \in SUBSET Callbacks : Keeps(K)
    BY <1>1, <1>4, <1>6, <2>1 DEF OverInv
  <2>3. /\ Alive \subseteq K /\ \A c \in K : Needs(D, c) \subseteq has
        /\ Used(todo, has) /\ Staying(K)
    BY <2>2 DEF Keeps, Bound, Remove
  <2>4. CASE Bound
    <3>1. UNCHANGED <<has, pending, todo, driver>> /\ phase' = "bound"
      BY <2>4 DEF Bound
    <3>2. Staying(K)'
      BY <1>1, <2>3, <3>1 DEF Staying
    <3>3. Keeps(K)'
      BY <1>1, <1>3, <2>3, <3>1, <3>2 DEF Keeps
    <3> QED BY <2>1, <3>3
  <2>5. CASE Remove
    <3> PICK L : L = Lasting(driver, D, K)
      OBVIOUS
    <3>1. /\ todo' = D.remove /\ phase' = "remove"
          /\ driver \in Modules => {"cdev", "file"} \cap (pending \cup running) = {}
      BY <2>5 DEF Remove
    <3>2. L \subseteq K
      BY DEF Lasting
    <3>3. Alive \subseteq L
      BY <2>3, <3>1 DEF Alive, Lasting
    <3>4. has \ Given(todo) = has
      BY <1>3, Idle
    <3>5. /\ Used(D.remove, has)
          /\ \A c \in L : Gated(driver, c) \/ D.starts[c] \subseteq L
          /\ Discipline(driver, D, L, D.remove)
      BY <2>3, <3>4 DEF Staying, Removes
    <3>6. \A c \in L : Gated(driver, c) => c \notin running
      BY <3>1 DEF Gated
    <3>7. Leaving(L)'
      BY <1>1, <1>3, <3>1, <3>5, <3>6 DEF Leaving
    <3>8. Keeps(L)'
      BY <1>1, <1>3, <2>3, <3>1, <3>2, <3>3, <3>5, <3>7 DEF Keeps
    <3>9. L \in SUBSET Callbacks
      BY <3>2
    <3> QED BY <2>1, <3>8, <3>9
  <2> QED BY <2>4, <2>5
<1>7. OverInv'
  BY <1>1, <1>3, <1>4, <1>6 DEF OverInv, Callbacks
<1> QED BY <1>2, <1>5, <1>7

\* What the first operation ends does not come any more; the others are ended by
\* those that remain.
LEMMA TailEnds ==
  ASSUME NEW n, NEW d, NEW K, NEW s \in Seq(Ops(d)), s # <<>>,
         Discipline(n, d, K, s)
  PROVE  \E L \in SUBSET K :
           /\ Discipline(n, d, L, Tail(s))
           /\ \A c \in K \ L : s[1] = Quiet(d, c)
           /\ \A c \in L : d.starts[c] \subseteq K => d.starts[c] \subseteq L
           /\ \A c \in K : s[1].op = "give" => s[1].of \notin Needs(d, c)
<1> USE TailShape
<1>1. PICK end \in [K -> 1 .. Len(s) + 1] :
        \A c \in K : Ending(n, d, K, s, end, c)
  BY DEF Discipline
<1> DEFINE L == {c \in K : end[c] # 1}
           rest == [c \in L |-> end[c] - 1]
<1>2. \A c \in L :
        /\ end[c] \in 1 .. Len(s) + 1 /\ rest[c] = end[c] - 1
        /\ rest[c] \in 1 .. Len(Tail(s)) + 1
        /\ rest[c] \in DOMAIN Tail(s) <=> end[c] \in DOMAIN s
        /\ rest[c] \in DOMAIN Tail(s) => Tail(s)[rest[c]] = s[end[c]]
  OBVIOUS
<1>3. rest \in [L -> 1 .. Len(Tail(s)) + 1]
  BY <1>2
<1>4. \A c \in K \ L : s[1] = Quiet(d, c)
  BY <1>1 DEF Ending
<1>5. ASSUME NEW b \in L, d.starts[b] \subseteq K, NEW c \in d.starts[b]
      PROVE  c \in L
  <2> SUFFICES ASSUME end[c] = 1 PROVE FALSE
    BY <1>5
  <2>1. end[b] < end[c]
    BY <1>1, <1>5 DEF Ending
  <2> QED BY <1>2, <2>1
<1>6. \A c \in K : s[1].op = "give" => s[1].of \notin Needs(d, c)
  BY <1>1 DEF Ending
<1>7. ASSUME NEW c \in L PROVE Ending(n, d, L, Tail(s), rest, c)
  <2>1. Ending(n, d, K, s, end, c)
    BY <1>1
  <2>2. IF rest[c] \in DOMAIN Tail(s) THEN Tail(s)[rest[c]] = Quiet(d, c)
        ELSE /\ Outlives(n, d, c)
             /\ \A r \in Needs(d, c) \cap d.managed :
                  c \in d.managed \ Later(d) /\ After(d, c, r)
    BY <1>2, <2>1 DEF Ending
  <2>3. ASSUME rest[c] \in DOMAIN Tail(s), NEW b \in L \ {c}, c \in d.starts[b]
        PROVE  rest[b] < rest[c]
    <3>1. end[b] < end[c]
      BY <1>2, <2>1, <2>3 DEF Ending
    <3> QED BY <1>2, <3>1
  <2>4. ASSUME NEW k \in DOMAIN Tail(s),
               Tail(s)[k].op = "give", Tail(s)[k].of \in Needs(d, c)
        PROVE  rest[c] < k
    <3>1. end[c] < k + 1
      BY <2>1, <2>4 DEF Ending
    <3> QED BY <1>2, <3>1
  <2> QED BY <2>2, <2>3, <2>4 DEF Ending
<1>8. Discipline(n, d, L, Tail(s))
  BY <1>3, <1>7 DEF Discipline
<1> QED BY <1>4, <1>5, <1>6, <1>8

\* One operation of a removal, or of an error path.
LEMMA ReadyUndo == PairInv /\ ReadyInv /\ Undo => ReadyInv'
<1> SUFFICES ASSUME PairInv, ReadyInv, Undo, Formed(D')
             PROVE  HeldInv' /\ AliveInv' /\ OverInv'
  BY DEF ReadyInv
<1>1. D' = D /\ Formed(D) /\ CourseInv /\ HeldInv /\ OverInv
  BY DEF Undo, D, PairInv, ReadyInv
<1>2. HeldInv'
  BY <1>1, HeldStep DEF Next
<1>3. /\ todo # <<>> /\ at \notin DOMAIN D.probe /\ todo \in Seq(Ops(D))
      /\ phase \in {"probe", "remove"}
  BY <1>1 DEF Undo, CourseInv
<1> DEFINE s == todo[1]
<1>4. /\ UNCHANGED <<driver, phase, at, running>> /\ has' = Without(has, s)
      /\ s.op \in {"give", "cancel_sync"} => s.of \notin running
      /\ pending' = IF s.op \in {"cancel", "cancel_sync"}
                    THEN pending \ {s.of} ELSE pending
      /\ missed' = IF s.op = "use" /\ s.of \notin has
                   THEN missed \cup {<<"remove", s.of>>} ELSE missed
      /\ \/ todo' = Tail(todo) /\ UNCHANGED failed
         \/ s.op = "abort" /\ failed' = failed \cup {"remove"}
  BY <1>3, TailShape DEF Undo, Without
<1>5. AliveInv'
  BY <1>1, <1>3, <1>4 DEF AliveInv
<1>6. ASSUME NEW c, c \in Alive' PROVE c \in Alive
  <2>1. Alive' = {a \in Callbacks :
                    a \in pending' \cup running' \/ a \in has' \ Later(D)}
    BY <1>1 DEF Alive, Callbacks
  <2> QED BY <1>4, <1>6, <2>1 DEF Alive, Without
<1>7. ASSUME Ordered(driver, D, failed'), todo' = Tail(todo), UNCHANGED failed
      PROVE  missed' = {} /\ \E K \in SUBSET Callbacks : Keeps(K)'
  <2>1. missed = {} /\ \E K \in SUBSET Callbacks : Keeps(K)
    BY <1>1, <1>3, <1>7 DEF OverInv
  <2>2. PICK K \in SUBSET Callbacks : Keeps(K)
    BY <2>1
  <2>3. /\ Alive \subseteq K /\ \A c \in K : Needs(D, c) \subseteq has
        /\ Used(todo, has)
    BY <2>2 DEF Keeps
  <2>4. Used(todo', has') /\ (s.op = "use" => s.of \in has)
    BY <1>3, <1>4, <1>7, <2>3, TailUsed
  <2>5. missed' = {}
    BY <1>4, <2>1, <2>4
  <2>6. CASE phase = "probe"
    <3>1. Staying(K)
      BY <2>2, <2>6 DEF Keeps
    <3>2. \A c \in K : Needs(D, c) \subseteq has'
      BY <1>3, <1>4, <2>3, <3>1, TailShape DEF Staying, Undisturbed, Without
    <3>3. Undisturbed(D, K, Tail(todo))
      BY <1>3, <3>1, TailShape DEF Staying, Undisturbed
    <3>4. has' \ Given(Tail(todo)) = has \ Given(todo)
      BY <1>3, <1>4, TailGiven
    <3>5. Staying(K)'
      BY <1>1, <1>4, <1>7, <3>1, <3>3, <3>4 DEF Staying
    <3>6. Alive' \subseteq K
      BY <1>6, <2>3
    <3>7. Keeps(K)'
      BY <1>1, <1>4, <2>4, <2>6, <3>2, <3>5, <3>6 DEF Keeps
    <3> QED BY <2>5, <3>7
  <2>7. CASE phase = "remove"
    <3>1. Leaving(K)
      BY <2>2, <2>7 DEF Keeps
    <3>2. Discipline(driver, D, K, todo)
      BY <3>1 DEF Leaving
    <3>3. PICK L \in SUBSET K :
            /\ Discipline(driver, D, L, Tail(todo))
            /\ \A c \in K \ L : s = Quiet(D, c)
            /\ \A c \in L : D.starts[c] \subseteq K => D.starts[c] \subseteq L
            /\ \A c \in K : s.op = "give" => s.of \notin Needs(D, c)
      BY <1>3, <3>2, TailEnds
    <3>4. \A c \in L : Needs(D, c) \subseteq has'
      BY <1>4, <2>3, <3>3 DEF Without
    <3>5. Leaving(L)'
      BY <1>1, <1>4, <1>7, <3>1, <3>3 DEF Leaving
    <3>6. ASSUME NEW c, c \in Alive' PROVE c \in L
      <4>1. c \in K /\ c \in Callbacks
        BY <1>6, <2>3, <3>6
      <4> SUFFICES ASSUME s = Quiet(D, c) PROVE FALSE
        BY <3>3, <4>1
      <4>2. c \in pending' \cup running \/ c \in has' \ Later(D)
        BY <1>1, <1>4, <3>6 DEF Alive, Callbacks
      <4>3. CASE c \in Later(D)
        <5>1. s.op = "cancel_sync" /\ s.of = c
          BY <4>3 DEF Quiet, CancelSync
        <5> QED BY <1>4, <4>2, <4>3, <5>1
      <4>4. CASE c \notin Later(D)
        <5>1. s.op = "give" /\ s.of = c
          BY <4>4 DEF Quiet, Give
        <5>2. c \notin pending
          BY <1>1, <4>4 DEF HeldInv
        <5> QED BY <1>4, <4>2, <4>4, <5>1, <5>2 DEF Without
      <4> QED BY <4>3, <4>4
    <3>7. Alive' \subseteq L
      BY <3>6
    <3>8. Keeps(L)'
      BY <1>1, <1>4, <2>4, <2>7, <3>4, <3>5, <3>7 DEF Keeps
    <3> QED BY <2>5, <3>8
  <2> QED BY <1>3, <2>6, <2>7
<1>8. ASSUME Ordered(driver, D, failed'), s.op = "abort",
             failed' = failed \cup {"remove"}
      PROVE  FALSE
  BY <1>1, <1>3, <1>8, TailShape DEF CourseInv, Ordered, NoAbort
<1>9. OverInv'
  BY <1>1, <1>3, <1>4, <1>7, <1>8 DEF OverInv, Callbacks
<1> QED BY <1>2, <1>5, <1>9

\* When nothing is left to be done, the driver core ends what may still come.
LEMMA IdleEnds ==
  ASSUME NEW n, NEW d, NEW K
  PROVE  Discipline(n, d, K, <<>>) <=>
           \A c \in K :
             /\ Outlives(n, d, c)
             /\ \A r \in Needs(d, c) \cap d.managed :
                  c \in d.managed \ Later(d) /\ After(d, c, r)
<1> DEFINE Core(c) ==
             /\ Outlives(n, d, c)
             /\ \A r \in Needs(d, c) \cap d.managed :
                  c \in d.managed \ Later(d) /\ After(d, c, r)
           end == [c \in K |-> 1]
<1>1. Len(<<>>) = 0 /\ DOMAIN <<>> = {}
  OBVIOUS
<1>2. \A f, c : Ending(n, d, K, <<>>, f, c) <=> Core(c)
  BY <1>1 DEF Ending
<1>3. end \in [K -> 1 .. Len(<<>>) + 1]
  BY <1>1
<1> HIDE DEF Core, end
<1>4. Discipline(n, d, K, <<>>) <=> \A c \in K : Core(c)
  BY <1>2, <1>3 DEF Discipline
<1> QED BY <1>4 DEF Core

\* What the driver core gives back.
LEMMA ReadyRelease == PairInv /\ ReadyInv /\ Release => ReadyInv'
<1> SUFFICES ASSUME PairInv, ReadyInv, Release, Formed(D')
             PROVE  HeldInv' /\ AliveInv' /\ OverInv'
  BY DEF ReadyInv
<1>1. D' = D /\ Formed(D) /\ CourseInv /\ HeldInv /\ OverInv
  BY DEF Release, D, PairInv, ReadyInv
<1>2. HeldInv'
  BY <1>1, HeldStep DEF Next
<1>3. /\ UNCHANGED <<driver, at, todo, pending, running, failed, missed>>
      /\ phase \in {"remove", "release"} /\ phase' = "release" /\ todo = <<>>
  BY DEF Release
<1>4. DOMAIN D.probe = 1 .. Len(D.probe) /\ Len(D.probe) \in Nat
        /\ at \notin DOMAIN D.probe
  <2>1. Len(D.probe) \in Nat /\ DOMAIN D.probe = 1 .. Len(D.probe)
    BY <1>1, Shape
  <2>2. at = Len(D.probe) + 1
    BY <1>1, <1>3 DEF CourseInv
  <2> QED BY <2>1, <2>2
<1>5. PICK i \in DOMAIN D.probe :
        LET r == D.probe[i].r
        IN  /\ r \in has \cap D.managed
            /\ \A j \in i + 1 .. Len(D.probe) :
                 D.probe[j].r \notin has \cap D.managed
            /\ has' = has \ {r}
  BY DEF Release
<1>6. AliveInv'
  BY <1>1, <1>3, <1>4 DEF AliveInv
<1>7. ASSUME Ordered(driver, D, failed)
      PROVE  missed = {} /\ \E K \in SUBSET Callbacks : Keeps(K)'
  <2>1. missed = {} /\ \E K \in SUBSET Callbacks : Keeps(K)
    BY <1>1, <1>3, <1>4, <1>7 DEF OverInv
  <2>2. PICK K \in SUBSET Callbacks : Keeps(K)
    BY <2>1
  <2>3. /\ Alive \subseteq K /\ \A c \in K : Needs(D, c) \subseteq has
        /\ Leaving(K)
    BY <1>3, <2>2 DEF Keeps
  <2> DEFINE Core(c) ==
               /\ Outlives(driver, D, c)
               /\ \A r \in Needs(D, c) \cap D.managed :
                    c \in D.managed \ Later(D) /\ After(D, c, r)
  <2>4. \A c \in K : Core(c)
    BY <1>3, <2>3, IdleEnds DEF Leaving
  <2> PICK L : L = {c \in K : c \in Later(D) \/ c \in has'}
    OBVIOUS
  <2>5. L \subseteq K /\ L \in SUBSET Callbacks
    OBVIOUS
  <2>6. Alive' \subseteq L
    <3> SUFFICES ASSUME NEW c, c \in Alive' PROVE c \in L
      OBVIOUS
    <3>1. c \in Callbacks /\ (c \in pending \cup running \/ c \in has' \ Later(D))
      BY <1>1, <1>3 DEF Alive, Callbacks
    <3>2. c \in K
      BY <1>5, <2>3, <3>1 DEF Alive
    <3>3. c \in Later(D) \/ c \in has'
      BY <1>1, <1>2, <1>3, <3>1 DEF HeldInv
    <3> QED BY <3>2, <3>3
  <2>7. ASSUME NEW c \in L, NEW r \in Needs(D, c), r = D.probe[i].r
        PROVE  FALSE
    <3>1. c \in D.managed \ Later(D) /\ After(D, c, r)
      BY <1>5, <2>4, <2>7
    <3>2. c \in has' /\ c \in has
      BY <1>5, <3>1
    <3>3. c # "code"
      BY <1>1, Starts DEF Callbacks
    <3>4. PICK j \in DOMAIN D.probe : D.probe[j].r = c
      BY <1>1, <3>2, <3>3 DEF HeldInv, Names
    <3>5. i < j
      BY <2>7, <3>1, <3>4 DEF After
    <3>6. j \in i + 1 .. Len(D.probe)
      BY <1>4, <3>5
    <3> QED BY <1>5, <3>1, <3>2, <3>4, <3>6
  <2>8. \A c \in L : Needs(D, c) \subseteq has'
    BY <1>5, <2>3, <2>7
  <2>9. \A c \in L :
          (Gated(driver, c) /\ c \notin running) \/ D.starts[c] \subseteq L
    <3> SUFFICES ASSUME NEW c \in L, D.starts[c] \subseteq K
                 PROVE  D.starts[c] \subseteq L
      BY <2>3 DEF Leaving
    <3>1. D.starts[c] \subseteq Later(D)
      BY <1>1, Starts DEF Callbacks
    <3> QED BY <3>1
  <2>10. Discipline(driver, D, L, <<>>)
    BY <2>4, <2>5, IdleEnds
  <2>11. Leaving(L)'
    BY <1>1, <1>3, <2>9, <2>10 DEF Leaving
  <2>12. Keeps(L)'
    BY <1>1, <1>3, <2>6, <2>8, <2>11, IdleReady DEF Keeps
  <2> QED BY <2>1, <2>5, <2>12
<1>8. OverInv'
  BY <1>1, <1>3, <1>4, <1>7 DEF OverInv, Callbacks
<1> QED BY <1>2, <1>6, <1>8

\* The module goes.
LEMMA ReadyUnload == PairInv /\ ReadyInv /\ Unload => ReadyInv'
<1> SUFFICES ASSUME PairInv, ReadyInv, Unload, Formed(D')
             PROVE  HeldInv' /\ AliveInv' /\ OverInv'
  BY DEF ReadyInv
<1>1. D' = D /\ Formed(D) /\ CourseInv /\ HeldInv /\ OverInv
  BY DEF Unload, D, PairInv, ReadyInv
<1>2. HeldInv'
  BY <1>1, HeldStep DEF Next
<1>3. /\ UNCHANGED <<driver, at, todo, pending, running, failed, missed>>
      /\ phase \in {"remove", "release"} /\ phase' = "gone" /\ todo = <<>>
      /\ driver \in Modules \/ "file" \notin pending \cup running
      /\ has \cap D.managed = {} /\ has' \subseteq has
  BY DEF Unload
<1>4. at \notin DOMAIN D.probe
  <2>1. Len(D.probe) \in Nat /\ DOMAIN D.probe = 1 .. Len(D.probe)
    BY <1>1, Shape
  <2>2. at = Len(D.probe) + 1
    BY <1>1, <1>3 DEF CourseInv
  <2> QED BY <2>1, <2>2
<1>5. AliveInv'
  BY <1>1, <1>3, <1>4 DEF AliveInv
<1>6. ASSUME Ordered(driver, D, failed)
      PROVE  missed = {} /\ Alive' = {}
  <2>1. missed = {} /\ \E K \in SUBSET Callbacks : Keeps(K)
    BY <1>1, <1>3, <1>4, <1>6 DEF OverInv
  <2>2. PICK K \in SUBSET Callbacks : Keeps(K)
    BY <2>1
  <2>3. Alive \subseteq K /\ \A c \in K : Outlives(driver, D, c)
    BY <1>3, <2>2, IdleEnds DEF Keeps, Leaving
  <2>4. ASSUME NEW c, c \in Alive' PROVE FALSE
    <3>1. c \in Callbacks /\ (c \in pending \cup running \/ c \in has \ Later(D))
      BY <1>1, <1>3, <2>4 DEF Alive, Callbacks
    <3>2. Outlives(driver, D, c)
      BY <2>3, <3>1 DEF Alive
    <3>3. c \in Later(D) \/ c \in has
      BY <1>1, <3>1 DEF HeldInv
    <3>4. CASE c \in D.managed \ Later(D)
      BY <1>3, <3>3, <3>4
    <3>5. CASE c = "file" /\ c \in Later(D) /\ driver \notin Modules
      BY <1>3, <3>1, <3>5
    <3> QED BY <3>2, <3>4, <3>5 DEF Outlives
  <2> QED BY <2>1, <2>4
<1>7. OverInv'
  BY <1>1, <1>3, <1>4, <1>6 DEF OverInv
<1> QED BY <1>2, <1>5, <1>7

\* What a callback that is called or returns may bring about, and what it is
\* missing.
LEMMA Called ==
  ASSUME Formed(D), HeldInv, NEW c \in Callbacks, Begin(c) \/ End(c)
  PROVE  /\ c \in Alive
         /\ UNCHANGED <<driver, phase, at, todo, has, failed>>
         /\ D' = D
         /\ missed' = missed \cup Missing(c)
         /\ Needs(D, c) \subseteq has => Missing(c) = {}
         /\ running' \subseteq running \cup {c}
         /\ c \notin running => ~ (Gated(driver, c) /\ phase \in {"remove", "release"})
         /\ \A b \in Alive' :
              b \in Alive \/ (c \in running /\ b \in D.starts[c])
<1>1. Deferred = Later(D) /\ Callbacks = DOMAIN D.uses
  BY DEF Deferred, Callbacks, Later
<1>2. D' = D /\ UNCHANGED <<driver, phase, at, todo, has, failed>>
        /\ missed' = missed \cup Missing(c) /\ running' \subseteq running \cup {c}
  BY DEF Begin, End, D
<1>3. c \in Alive
  BY <1>1 DEF Begin, End, Alive
<1>4. Needs(D, c) \subseteq has => Missing(c) = {}
  BY DEF Missing, Needs
<1>5. c \notin running => ~ (Gated(driver, c) /\ phase \in {"remove", "release"})
  BY DEF Begin, End, Gated
<1>6. ASSUME NEW b, b \in Alive'
      PROVE  b \in Alive \/ (c \in running /\ b \in D.starts[c])
  <2>1. b \in Callbacks /\ (b \in pending' \cup running' \/ b \in has \ Later(D))
    BY <1>1, <1>2, <1>6 DEF Alive, Callbacks
  <2>2. CASE Begin(c)
    BY <1>3, <2>1, <2>2 DEF Begin, Alive
  <2>3. CASE End(c)
    BY <2>1, <2>3 DEF End, Alive
  <2> QED BY <2>2, <2>3
<1> QED BY <1>2, <1>3, <1>4, <1>5, <1>6

\* The callbacks.
LEMMA ReadyCallback ==
  ASSUME PairInv, ReadyInv, NEW c \in Callbacks, Begin(c) \/ End(c)
  PROVE  ReadyInv'
<1> SUFFICES ASSUME Formed(D') PROVE HeldInv' /\ AliveInv' /\ OverInv'
  BY DEF ReadyInv
<1>1. D' = D
  BY DEF Begin, End, D
<1>2. Formed(D) /\ CourseInv /\ ProbeInv /\ HeldInv /\ AliveInv /\ OverInv
  BY <1>1 DEF PairInv, ReadyInv
<1>3. HeldInv'
  BY <1>2, HeldStep DEF Next
<1>4. /\ c \in Alive
      /\ UNCHANGED <<driver, phase, at, todo, has, failed>>
      /\ missed' = missed \cup Missing(c)
      /\ Needs(D, c) \subseteq has => Missing(c) = {}
      /\ running' \subseteq running \cup {c}
      /\ c \notin running => ~ (Gated(driver, c) /\ phase \in {"remove", "release"})
  BY <1>2, Called
<1>5. \A b \in Alive' : b \in Alive \/ (c \in running /\ b \in D.starts[c])
  BY <1>2, Called
<1>6. ASSUME at \in DOMAIN D.probe
      PROVE  /\ Alive' \subseteq Hot(D, at)
             /\ (\A i \in 1 .. at : Served(D, i, failed)) => missed' = {}
  <2>1. Alive \subseteq Hot(D, at) /\ Closed(D, Hot(D, at))
    BY <1>2, <1>6, HotStep DEF AliveInv
  <2>2. Alive' \subseteq Hot(D, at)
    BY <1>4, <1>5, <2>1 DEF Closed
  <2>3. ASSUME \A i \in 1 .. at : Served(D, i, failed)
        PROVE  missed' = {}
    <3>1. at \in 1 .. at
      BY <1>2, <1>6, Shape, Counter
    <3>2. Needs(D, c) \subseteq has
      BY <1>2, <1>4, <1>6, <2>1, <2>3, <3>1 DEF Served, ProbeInv
    <3> QED BY <1>2, <1>4, <1>6, <2>3, <3>2 DEF AliveInv
  <2> QED BY <2>2, <2>3
<1>7. AliveInv'
  BY <1>1, <1>4, <1>6 DEF AliveInv
<1>8. ASSUME at \notin DOMAIN D.probe, Ordered(driver, D, failed)
      PROVE  /\ missed' = {} /\ phase # "gone"
             /\ \E K \in SUBSET Callbacks : Keeps(K)'
  <2>1. missed = {} /\ phase # "gone" /\ \E K \in SUBSET Callbacks : Keeps(K)
    BY <1>2, <1>4, <1>8 DEF OverInv
  <2>2. PICK K \in SUBSET Callbacks : Keeps(K)
    BY <2>1
  <2>3. /\ Alive \subseteq K /\ \A b \in K : Needs(D, b) \subseteq has
        /\ Used(todo, has)
    BY <2>2 DEF Keeps
  <2>4. missed' = {}
    BY <1>4, <2>1, <2>3
  <2>5. CASE phase \in {"probe", "bound"}
    <3>1. Staying(K)
      BY <2>2, <2>5 DEF Keeps
    <3>2. Staying(K)'
      BY <1>1, <1>4, <3>1 DEF Staying
    <3>3. Alive' \subseteq K
      BY <1>4, <1>5, <2>3, <3>1 DEF Staying, Closed
    <3>4. Keeps(K)'
      BY <1>1, <1>4, <2>3, <2>5, <3>2, <3>3 DEF Keeps
    <3> QED BY <2>1, <2>4, <3>4
  <2>6. CASE phase \in {"remove", "release"}
    <3>1. Leaving(K)
      BY <2>2, <2>6 DEF Keeps
    <3>2. Leaving(K)'
      <4>1. \A b \in K :
              (Gated(driver, b) /\ b \notin running') \/ D.starts[b] \subseteq K
        BY <1>4, <2>6, <3>1 DEF Leaving
      <4> QED BY <1>1, <1>4, <3>1, <4>1 DEF Leaving
    <3>3. Alive' \subseteq K
      BY <1>4, <1>5, <2>3, <3>1 DEF Leaving
    <3>4. Keeps(K)'
      BY <1>1, <1>4, <2>3, <2>6, <3>2, <3>3 DEF Keeps
    <3> QED BY <2>1, <2>4, <3>4
  <2> QED BY <1>2, <2>1, <2>5, <2>6 DEF CourseInv
<1>9. OverInv'
  BY <1>1, <1>4, <1>8 DEF OverInv, Callbacks
<1> QED BY <1>3, <1>7, <1>9

\* A probe that crashes was not Served.
LEMMA ReadyCrash == PairInv /\ ReadyInv /\ Crash => ReadyInv'
<1> SUFFICES ASSUME PairInv, ReadyInv, Crash, Formed(D')
             PROVE  HeldInv' /\ AliveInv' /\ OverInv'
  BY DEF ReadyInv
<1>1. D' = D /\ Formed(D) /\ HeldInv /\ AliveInv
  BY DEF Crash, D, ReadyInv
<1>2. HeldInv'
  BY <1>1, HeldStep DEF Next
<1>3. /\ UNCHANGED <<at, has, pending, running, failed>>
      /\ at \in DOMAIN D.probe /\ D.probe[at].failure = "fatal"
  BY DEF Crash, Now
<1>4. at \in 1 .. at
  BY <1>1, <1>3, Shape, Counter
<1>5. ~ (\A i \in 1 .. at : Served(D, i, failed))
  BY <1>3, <1>4 DEF Served
<1>6. Alive' = Alive
  BY <1>1, <1>3 DEF Alive, Callbacks
<1>7. AliveInv'
  BY <1>1, <1>3, <1>5, <1>6 DEF AliveInv
<1>8. OverInv'
  BY <1>1, <1>3 DEF OverInv
<1> QED BY <1>2, <1>7, <1>8

\* A step of open(), or none.
LEMMA ReadyStutter ==
  ReadyInv /\ ((\E r \in {"node", "gpio"} : Take(r)) \/ UNCHANGED vars)
    => ReadyInv'
<1> SUFFICES ASSUME ReadyInv,
                    UNCHANGED <<driver, phase, at, todo, has, pending, running,
                                failed, missed>>
             PROVE  ReadyInv'
  BY DEF Take, vars
<1>1. D' = D /\ Alive' = Alive /\ Callbacks' = Callbacks
  BY DEF D, Alive, Callbacks
<1>2. \A K : Keeps(K)' <=> Keeps(K)
  BY <1>1 DEF Keeps, Staying, Leaving
<1>3. OverInv' <=> OverInv
  BY <1>1, <1>2 DEF OverInv
<1> QED BY <1>1, <1>3 DEF ReadyInv, HeldInv, AliveInv

\* The induction.
LEMMA ReadyHolds == Spec => [](PairInv /\ ReadyInv)
<1>1. PairInv /\ ReadyInv /\ Next => ReadyInv'
  BY ReadyAcquire, ReadyFailStep, ReadyCrash, ReadyPhase, ReadyUndo,
     ReadyRelease, ReadyUnload, ReadyCallback, ReadyStutter DEF Next
<1>2. PairInv /\ ReadyInv /\ [Next]_vars => ReadyInv'
  BY <1>1, ReadyStutter
<1> QED BY ReadyInit, <1>2, PairHolds, PTL DEF Spec

\* A driver whose steps are Ordered, for the steps that have failed, never calls
\* a callback, and never does anything in its removal, without what it needs,
\* however its removal, its error paths and its callbacks interleave: Ready
\* needs none of the exceptions.
LEMMA OrderedMissesNothing ==
  PairInv /\ ReadyInv /\ Formed(D) /\ Ordered(driver, D, failed) => missed = {}
<1> SUFFICES ASSUME PairInv, ReadyInv, Formed(D), Ordered(driver, D, failed)
             PROVE  missed = {}
  OBVIOUS
<1>1. CASE at \in DOMAIN D.probe
  <2>1. Passed(D, at, failed) /\ AliveInv
    BY <1>1 DEF PairInv, ProbeInv, ReadyInv
  <2>2. at \in 1 .. Len(D.probe) + 1 /\ Len(D.probe) \in Nat
    BY Shape DEF PairInv, CourseInv
  <2>3. \A i \in 1 .. at : i \in 1 .. Len(D.probe) + 1
    BY <2>2
  <2>4. \A i \in 1 .. Len(D.probe) + 1 : i \in Reached(D, failed)
    BY <2>1, <2>2, Reaches
  <2>5. \A i \in 1 .. at : Served(D, i, failed)
    BY <2>3, <2>4 DEF Ordered
  <2> QED BY <1>1, <2>1, <2>5 DEF AliveInv
<1>2. CASE at \notin DOMAIN D.probe
  BY <1>2 DEF ReadyInv, OverInv
<1> QED BY <1>1, <1>2

THEOREM ReadyWhenOrdered ==
  Spec => [](Ordered(driver, D, failed) => missed = {} /\ Ready)
<1>1. missed = {} => Ready
  BY DEF Ready
<1> QED BY <1>1, OrderedMissesNothing, ReadyHolds, WellFormed, PTL

-----------------------------------------------------------------------------
(* Some of the drivers.                                                      *)

\* Its error paths undo nothing, its removal one step, and the core the rest.
LEMMA Gt9147Paired == ASSUME NEW F PROVE Paired(Gt9147, F)
<1> DEFINE d == Gt9147
           p == d.probe
<1>1. /\ p[1] = Step("pins", <<>>, "ignored") /\ p[2] = Try("input", <<>>)
      /\ p[3] = Try("slots", <<>>) /\ p[4] = Try("registered", <<>>)
      /\ p[5] = Step("irq", <<>>, "success")
      /\ DOMAIN p = {1, 2, 3, 4, 5} /\ Len(p) = 5
      /\ d.remove = <<Give("registered")>>
      /\ d.managed = {"pins", "input", "slots", "registered", "irq"}
  BY DEF Gt9147
<1>2. /\ p[1].r = "pins" /\ p[2].r = "input" /\ p[3].r = "slots"
      /\ p[4].r = "registered" /\ p[5].r = "irq"
      /\ p[4].failure = "error"
  BY <1>1 DEF Step, Try
<1>3. \A i \in DOMAIN p : p[i].undo = <<>>
  BY <1>1 DEF Step, Try
<1> HIDE DEF d, p
<1>4. ASSUME NEW i \in 1 .. 6
      PROVE  There(d, i, F) \subseteq d.managed \cup {"code"}
  <2>1. \A j \in 1 .. i - 1 : d.probe[j].r \in d.managed
    BY <1>1, <1>2 DEF p
  <2> QED BY <2>1 DEF There
<1>5. ASSUME NEW i \in DOMAIN p PROVE Undoing(d, i) = <<>>
  BY <1>3, <1>5 DEF Undoing, p
<1>6. ASSUME NEW i \in {5, 6}, i \in Reached(d, F)
      PROVE  "registered" \in There(d, i, F)
  <2>1. 4 \notin Ends(d, F)
    BY <1>6 DEF Reached
  <2>2. "registered" \notin F
    BY <1>1, <1>2, <2>1 DEF Ends, p
  <2>3. 4 \in 1 .. i - 1 /\ d.probe[4].r = "registered"
          /\ d.probe[4].failure # "set off"
    BY <1>2 DEF p
  <2> QED BY <2>2, <2>3 DEF There
<1>7. ASSUME NEW i \in {5, 6}, i \in Reached(d, F)
      PROVE  Even(d, d.remove, There(d, i, F))
  <2>1. Finds(d.remove, There(d, i, F))
    BY <1>1, <1>6, <1>7 DEF Finds, Give
  <2> QED BY <1>4, <1>7, <2>1 DEF Even
<1>8. NoAbort(d, F)
  BY <1>1 DEF NoAbort, Give
<1>9. \A i \in Reached(d, F) : i \in 1 .. 6
  BY <1>1 DEF Reached, p
<1>10. \A i \in Ends(d, F) : i \in {2, 3, 4, 5}
         /\ (i = 5 <=> d.probe[i].failure # "error")
  BY <1>1 DEF Ends, p, Step, Try
<1>11. ASSUME NEW i \in Reached(d, F)
       PROVE  IF i \notin Ends(d, F)
              THEN i = Len(d.probe) + 1 => Even(d, d.remove, There(d, i, F))
              ELSE IF d.probe[i].failure = "error"
              THEN Even(d, Undoing(d, i), There(d, i, F))
              ELSE /\ Finds(Undoing(d, i), There(d, i, F))
                   /\ Even(d, d.remove, There(d, i, F) \ Given(Undoing(d, i)))
  <2>1. CASE i \notin Ends(d, F)
    BY <1>1, <1>7, <2>1 DEF p
  <2>2. CASE i \in Ends(d, F) /\ d.probe[i].failure = "error"
    <3>1. Undoing(d, i) = <<>> /\ i \in 1 .. 6
      BY <1>1, <1>5, <1>9, <1>10, <2>2
    <3> QED BY <1>4, <2>2, <3>1, Idle DEF Even
  <2>3. CASE i \in Ends(d, F) /\ d.probe[i].failure # "error"
    <3>1. Undoing(d, i) = <<>> /\ i \in {5, 6}
      BY <1>1, <1>5, <1>10, <2>3
    <3>2. There(d, i, F) \ Given(Undoing(d, i)) = There(d, i, F)
      BY <3>1, Idle
    <3> QED BY <1>7, <1>11, <2>3, <3>1, <3>2, Idle
  <2> QED BY <2>1, <2>2, <2>3
<1> QED BY <1>8, <1>11 DEF Paired, d

\* Its interrupt is the last thing it acquires, and the first that the core gives
\* back of what they share.
LEMMA Gt9147Ordered == ASSUME NEW F PROVE Ordered("gt9147", Gt9147, F)
<1> DEFINE d == Gt9147
           p == d.probe
           n == "gt9147"
<1>1. /\ p[1] = Step("pins", <<>>, "ignored") /\ p[2] = Try("input", <<>>)
      /\ p[3] = Try("slots", <<>>) /\ p[4] = Try("registered", <<>>)
      /\ p[5] = Step("irq", <<>>, "success")
      /\ DOMAIN p = {1, 2, 3, 4, 5} /\ Len(p) = 5
      /\ d.remove = <<Give("registered")>>
      /\ d.managed = {"pins", "input", "slots", "registered", "irq"}
      /\ d.uses = [irq |-> {"input"}] /\ d.starts = [irq |-> {}]
  BY DEF Gt9147
<1>f. \A i \in DOMAIN p : p[i].failure # "fatal"
  BY <1>1 DEF Step, Try
<1>2. /\ p[1].r = "pins" /\ p[2].r = "input" /\ p[3].r = "slots"
      /\ p[4].r = "registered" /\ p[5].r = "irq"
      /\ p[2].failure = "error"
  BY <1>1 DEF Step, Try
<1>3. /\ DOMAIN d.uses = {"irq"} /\ d.uses["irq"] = {"input"}
      /\ d.starts["irq"] = {} /\ Later(d) = {}
  BY <1>1 DEF Later
<1>0. \A i \in DOMAIN p : p[i].undo = <<>>
  BY <1>1 DEF Step, Try
<1> HIDE DEF d, p
<1>4. \A i \in Reached(d, F) : i \in 1 .. 6
  BY <1>1 DEF Reached, p
<1>5. ASSUME NEW i \in 1 .. 5 PROVE Hot(d, i) = {}
  <2>1. \A j \in {1, 2, 3, 4} : p[j].r # "irq"
    BY <1>2
  <2>2. \A j \in 1 .. i - 1 : j \in {1, 2, 3, 4}
    OBVIOUS
  <2>3. Sources(d, i) = {} /\ Closed(d, {})
    BY <1>3, <2>1, <2>2 DEF Sources, Closed, p
  <2> QED BY <2>3 DEF Hot
<1>6. Hot(d, 6) \subseteq {"irq"}
  BY <1>3 DEF Hot
<1>7. ASSUME 6 \in Reached(d, F) PROVE {"input", "code"} \subseteq There(d, 6, F)
  <2>1. 2 \notin Ends(d, F)
    BY <1>7 DEF Reached
  <2>2. "input" \notin F
    BY <1>1, <1>2, <2>1 DEF Ends, p
  <2>3. 2 \in 1 .. 6 - 1 /\ d.probe[2].r = "input"
          /\ d.probe[2].failure # "set off"
    BY <1>2 DEF p
  <2> QED BY <2>2, <2>3 DEF There
<1>8. \A i \in Reached(d, F) : Served(d, i, F)
  <2> TAKE i \in Reached(d, F)
  <2>0. i \in DOMAIN d.probe => d.probe[i].failure # "fatal"
    BY <1>f DEF p
  <2>1. CASE i \in 1 .. 5
    BY <1>5, <2>0, <2>1 DEF Served
  <2>2. CASE i = 6
    BY <1>3, <1>6, <1>7, <2>0, <2>2 DEF Served, Needs
  <2> QED BY <1>4, <2>1, <2>2
<1>9. ASSUME NEW K \in SUBSET {"irq"}, NEW H PROVE Removes(n, d, K, H)
  <2>1. Lasting(n, d, K) = K
    BY <1>3 DEF Lasting
  <2>2. Used(d.remove, H)
    BY <1>1 DEF Used, Give
  <2>3. \A c \in K : d.starts[c] \subseteq K
    BY <1>3
  <2> DEFINE end == [c \in K |-> 2]
  <2>4. Len(d.remove) = 1 /\ DOMAIN d.remove = {1}
          /\ d.remove[1] = Give("registered")
    BY <1>1
  <2>5. end \in [K -> 1 .. Len(d.remove) + 1]
    BY <2>4
  <2>6. ASSUME NEW c \in K PROVE Ending(n, d, K, d.remove, end, c)
    <3>1. c = "irq" /\ end[c] = 2 /\ Needs(d, c) = {"input", "code"}
      BY <1>3 DEF Needs
    <3>2. Outlives(n, d, c) /\ c \in d.managed \ Later(d)
      BY <1>1, <1>3, <3>1 DEF Outlives
    <3>3. \A r \in Needs(d, c) \cap d.managed : r = "input"
      BY <1>1, <3>1
    <3>4. After(d, c, "input")
      <4>1. \A i \in {1, 2, 3, 4, 5} :
              (p[i].r = "irq" => i = 5) /\ (p[i].r = "input" => i = 2)
        BY <1>2
      <4> QED BY <1>1, <3>1, <4>1 DEF After, p
    <3>5. \A k \in DOMAIN d.remove : d.remove[k].of \notin Needs(d, c)
      BY <2>4, <3>1 DEF Give
    <3> QED BY <2>4, <3>1, <3>2, <3>3, <3>4, <3>5 DEF Ending
  <2>7. Discipline(n, d, K, d.remove)
    BY <2>5, <2>6 DEF Discipline
  <2> QED BY <2>1, <2>2, <2>3, <2>7 DEF Removes
<1>10. NoAbort(d, F)
  BY <1>1 DEF NoAbort, Give
<1>11. ASSUME NEW i \in DOMAIN p PROVE Undoing(d, i) = <<>>
  BY <1>0, <1>11 DEF Undoing, p
<1>12. ASSUME NEW i \in Reached(d, F)
       PROVE  IF i \notin Ends(d, F)
              THEN i = Len(d.probe) + 1 =>
                     Removes(n, d, Hot(d, i), There(d, i, F))
              ELSE IF d.probe[i].failure = "error"
              THEN Discipline(n, d, Hot(d, i), Undoing(d, i))
              ELSE /\ Undisturbed(d, Hot(d, i), Undoing(d, i))
                   /\ Removes(n, d, Hot(d, i),
                              There(d, i, F) \ Given(Undoing(d, i)))
  <2>1. CASE i \notin Ends(d, F)
    BY <1>1, <1>6, <1>9, <2>1 DEF p
  <2>2. CASE i \in Ends(d, F)
    <3>1. i \in DOMAIN p /\ i \in 1 .. 5
      BY <1>1, <2>2 DEF Ends, p
    <3>2. Hot(d, i) = {} /\ Undoing(d, i) = <<>>
      BY <1>5, <1>11, <3>1
    <3>3. Discipline(n, d, Hot(d, i), Undoing(d, i))
      BY <3>2, IdleEnds
    <3>4. Undisturbed(d, Hot(d, i), Undoing(d, i))
      BY <3>2, IdleReady
    <3> QED BY <1>9, <2>2, <3>2, <3>3, <3>4
  <2> QED BY <2>1, <2>2
<1> QED BY <1>8, <1>10, <1>12 DEF Ordered, d

\* Whatever its probe does not get, and whether its load is noticed to have
\* failed or not (ret is a u8), the driver of the GT9147 gives everything back.
THEOREM Gt9147GivesBack == Spec => [](driver = "gt9147" => GivesBack)
<1>1. driver = "gt9147" => Gives
  BY Gt9147Paired DEF D, Table, Gives, Openers
<1> QED BY <1>1, GivenBack, PTL

\* And its interrupt, which is there until the core takes it back, always finds
\* the input device that it reports to.
THEOREM Gt9147MissesNothing == Spec => [](driver = "gt9147" => missed = {} /\ Ready)
<1>1. driver = "gt9147" => Ordered(driver, D, failed)
  BY Gt9147Ordered DEF D, Table
<1> QED BY <1>1, ReadyWhenOrdered, PTL

=============================================================================
