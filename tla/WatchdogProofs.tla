---------------------------- MODULE WatchdogProofs ----------------------------
(***************************************************************************)
(* Proofs about Watchdog, for any clock, any prescaler and counters of any *)
(* width: what the heartbeat arithmetic returns, and the four invariants.  *)
(***************************************************************************)
EXTENDS Watchdog, TLAPS

\* DIV_ROUND_UP(a, b) is the least m with m * b >= a.
LEMMA DivRoundUpSpec ==
  ASSUME NEW a \in Nat, NEW b \in Nat \ {0}
  PROVE  /\ DivRoundUp(a, b) \in Nat
         /\ DivRoundUp(a, b) * b >= a
         /\ \A m \in Nat : a <= m * b => DivRoundUp(a, b) <= m
         /\ a > 0 => DivRoundUp(a, b) > 0
<1> DEFINE q == (a + b - 1) \div b
<1>1. q \in Nat /\ q * b <= a + b - 1 /\ a + b - 1 < q * b + b
  OBVIOUS
<1>2. q * b >= a
  BY <1>1
<1>3. ASSUME NEW m \in Nat, a <= m * b, q > m PROVE FALSE
  <2>1. q >= m + 1
    BY <1>1, <1>3
  <2>2. q * b >= (m + 1) * b
    BY <1>1, <2>1
  <2>3. (m + 1) * b = m * b + b
    OBVIOUS
  <2> QED BY <1>1, <1>3, <2>2, <2>3
<1>4. a > 0 => q > 0
  BY <1>1
<1> QED BY <1>1, <1>2, <1>3, <1>4 DEF DivRoundUp

\* The clock of the counter runs.
LEMMA FreqPositive == Freq \in Nat \ {0}
<1>1. ClockRate > 0
  <2>1. ClockRate = 0 => (ClockRate \div MaxDivisor) \div PreDiv = 0
    <3>1. 0 \div MaxDivisor = 0 /\ 0 \div PreDiv = 0
      BY WatchdogAssumption
    <3> QED BY <3>1
  <2> QED BY <2>1, WatchdogAssumption
<1> QED BY <1>1, DivRoundUpSpec, WatchdogAssumption DEF Freq

\* s3c2410wdt_set_heartbeat, for every timeout it accepts: the divisor and the
\* count fit their fields, and together they last as long as was asked for.
THEOREM HeartbeatFits ==
  ASSUME NEW t \in Timeouts
  PROVE  /\ t \in Nat \ {0} /\ t * Freq \in Nat
         /\ Divisor(t) \in 1..MaxDivisor
         /\ Count(t) \in 1..MaxCount
         /\ t * Freq <= Count(t) * Divisor(t)
<1> DEFINE c == t * Freq
<1>1. t \in Nat \ {0} /\ c \in Nat \ {0}
  BY FreqPositive DEF Timeouts, Accepted
<1>2. Divisor(t) \in Nat \ {0} /\ c <= MaxCount * Divisor(t)
  <2>1. CASE c > MaxCount
    <3>1. Divisor(t) = DivRoundUp(c, MaxCount)
      BY <2>1 DEF Divisor
    <3> HIDE DEF c
    <3>2. /\ DivRoundUp(c, MaxCount) \in Nat
          /\ DivRoundUp(c, MaxCount) * MaxCount >= c
          /\ DivRoundUp(c, MaxCount) > 0
      BY <1>1, DivRoundUpSpec, WatchdogAssumption
    <3>3. DivRoundUp(c, MaxCount) * MaxCount = MaxCount * DivRoundUp(c, MaxCount)
      BY <3>2, WatchdogAssumption
    <3> QED BY <3>1, <3>2, <3>3, WatchdogAssumption
  <2>2. CASE ~(c > MaxCount)
    BY <1>1, <2>2, WatchdogAssumption DEF Divisor
  <2> QED BY <2>1, <2>2
<1>3. Divisor(t) \in 1..MaxDivisor
  BY <1>2, WatchdogAssumption DEF Timeouts, Accepted
<1>4. /\ Count(t) \in Nat /\ Count(t) > 0
      /\ c <= Count(t) * Divisor(t)
      /\ Count(t) <= MaxCount
  <2>1. Count(t) = DivRoundUp(c, Divisor(t))
    BY DEF Count
  <2> HIDE DEF c
  <2> DEFINE b == Divisor(t)
  <2> HIDE DEF b
  <2>2. b \in Nat \ {0} /\ c \in Nat /\ c > 0 /\ c <= MaxCount * b
    BY <1>1, <1>2 DEF b
  <2>3. /\ DivRoundUp(c, b) \in Nat /\ DivRoundUp(c, b) > 0
        /\ DivRoundUp(c, b) * b >= c
        /\ \A m \in Nat : c <= m * b => DivRoundUp(c, b) <= m
    BY <2>2, DivRoundUpSpec
  <2>4. DivRoundUp(c, b) <= MaxCount
    BY <2>2, <2>3, WatchdogAssumption
  <2> QED BY <2>1, <2>2, <2>3, <2>4 DEF b
<1> QED BY <1>1, <1>3, <1>4, WatchdogAssumption

\* The product timeout * freq, which s3c2410wdt_set_heartbeat computes before
\* it checks anything, has for every timeout up to max_timeout at most one bit
\* more than the counter and the prescaler together: 25 of 32.
THEOREM HeartbeatInWord ==
  ASSUME NEW t \in 1..MaxTimeout
  PROVE  t * Freq <= 2 * (MaxCount * MaxDivisor)
<1> DEFINE g == ClockRate \div MaxDivisor
           f == g \div PreDiv
<1>1. g \in Nat /\ ClockRate < g * MaxDivisor + MaxDivisor
  BY WatchdogAssumption
<1>2. f \in Nat \ {0} /\ g < f * PreDiv + PreDiv
  <2>1. g \in Nat /\ f > 0
    BY <1>1, WatchdogAssumption
  <2> HIDE DEF g
  <2> QED BY <2>1, WatchdogAssumption
<1>3. t \in Nat /\ t * f <= MaxCount
  <2>1. MaxTimeout = MaxCount \div f
    BY DEF MaxTimeout
  <2> HIDE DEF f
  <2>2. MaxTimeout \in Nat /\ MaxTimeout * f <= MaxCount
    BY <1>2, <2>1, WatchdogAssumption
  <2>3. t * f <= MaxTimeout * f
    BY <1>2, <2>2
  <2> QED BY <1>2, <2>2, <2>3, WatchdogAssumption
<1> HIDE DEF f, g
<1>4. Freq \in Nat /\ Freq <= (f + 1) * MaxDivisor
  <2>1. ClockRate <= (g + 1) * MaxDivisor
    BY <1>1, WatchdogAssumption
  <2>2. (g + 1) * MaxDivisor <= ((f + 1) * PreDiv) * MaxDivisor
    <3>1. g + 1 <= (f + 1) * PreDiv
      BY <1>1, <1>2, WatchdogAssumption
    <3> QED BY <1>1, <1>2, <3>1, WatchdogAssumption
  <2>3. ((f + 1) * PreDiv) * MaxDivisor = ((f + 1) * MaxDivisor) * PreDiv
    BY <1>2, WatchdogAssumption
  <2>4. (f + 1) * MaxDivisor \in Nat
    BY <1>2, WatchdogAssumption
  <2>5. ClockRate <= ((f + 1) * MaxDivisor) * PreDiv
    BY <1>1, <1>2, <2>1, <2>2, <2>3, WatchdogAssumption
  <2> QED BY <2>4, <2>5, DivRoundUpSpec, WatchdogAssumption DEF Freq
<1>5. t * (f + 1) <= 2 * MaxCount
  BY <1>2, <1>3, WatchdogAssumption
<1>6. t * Freq <= t * ((f + 1) * MaxDivisor)
  BY <1>2, <1>3, <1>4, WatchdogAssumption
<1>7. t * ((f + 1) * MaxDivisor) = (t * (f + 1)) * MaxDivisor
  BY <1>2, <1>3, WatchdogAssumption
<1>8. (t * (f + 1)) * MaxDivisor <= (2 * MaxCount) * MaxDivisor
  BY <1>2, <1>3, <1>5, WatchdogAssumption
<1> QED BY <1>2, <1>3, <1>4, <1>6, <1>7, <1>8, WatchdogAssumption

-----------------------------------------------------------------------------

Setting == pc \in {"read", "dat", "con"}

Suspended == {"disable", "mask", "stop", "asleep", "restore", "enable",
              "unmask"}

\* The divisor and the count are those of the timeout asked for: in the
\* registers, or, while it is set, in the variables.
HeartbeatInv ==
  sys \notin Restarting =>
    /\ count = Count(asked)
    /\ IF Setting THEN local.divisor = Divisor(asked)
                  ELSE con.divisor = Divisor(asked)
    /\ pc \notin {"read", "dat"} => dat = count

\* What was saved is what was there.
SaveInv ==
  /\ sys \in Suspended =>
       /\ pc = "idle"
       /\ save.con.divisor = Divisor(asked) /\ save.dat = count
       /\ save.con.enable <=> started
  /\ sys \in {"asleep", "restore"} => ~con.enable
  /\ sys = "restore" => cnt = count

\* The counter lasts as long as the user still has.
OwedInv ==
  /\ owed <= asked * Freq
  /\ Setting => owed = 0
  /\ con.enable => owed <= cnt * con.divisor

\* The interrupt is enabled with soft_noboot only.
SoftInv ==
  /\ \A c \in {con, local, save.con} : c.enable /\ c.inten => soft
  /\ raised \/ isr # "idle" => soft

\* The counter runs if it was started, but for the moments in which it is
\* stopped for a while; and, unless shutdown came in between, WTCON is not read
\* before the last change of it.
StartedInv ==
  /\ pc # "go" /\ ~late /\ sys \notin {"asleep", "restore"} \cup Restarting =>
       (con.enable <=> started)
  /\ pc \in {"dat", "con"} /\ ~late /\ sys \notin Restarting =>
       (local.enable <=> started)
  /\ pc = "go" => lock = "user"
  /\ isr = "write" => lock = "isr"

\* The bits of the PMU are set and cleared in turn.
MaskInv ==
  /\ ~pmu => off = {}
  /\ sys \in Untouched => off = {} \/ pmuError
  /\ sys = "unmask" => off \subseteq {"mask"} \/ pmuError

\* A start that is under way has stopped the counter; late is of a shutdown.
DownInv ==
  /\ pc = "go" /\ sys \notin Restarting => ~con.enable
  /\ late => sys = "down" \/ sys \in Restarting

IInv ==
  /\ TypeOK
  /\ HeartbeatInv /\ SaveInv /\ OwedInv /\ SoftInv /\ StartedInv /\ MaskInv
  /\ DownInv
  /\ NoEarlyReset

USE DEF IInv, TypeOK, HardwareTypes, ThreadTypes, OtherTypes,
    HeartbeatInv, SaveInv, OwedInv, SoftInv, StartedInv, MaskInv, DownInv,
    NoEarlyReset, Setting, Suspended, Untouched, UsersRun, Restarting, WTCON,
    Threads, NoCon, Stopped, Started, Runs, registers, parameters, userVars, sysVars, isrVars

\* __s3c2410wdt_stop and s3c2410wdt_start leave the divisor alone.
LEMMA StoppedCon ==
  ASSUME NEW c \in WTCON
  PROVE  /\ Stopped(c) \in WTCON
         /\ Stopped(c).enable = FALSE
         /\ Stopped(c).divisor = c.divisor
  OBVIOUS

LEMMA StartedCon ==
  ASSUME NEW c \in WTCON, soft \in BOOLEAN
  PROVE  /\ Started(c) \in WTCON
         /\ Started(c).enable = TRUE /\ Started(c).inten = soft
         /\ Started(c).divisor = c.divisor
  OBVIOUS

HIDE DEF Stopped, Started

LEMMA AskedFits ==
  ASSUME IInv
  PROVE  /\ asked * Freq \in Nat
         /\ Divisor(asked) \in 1..MaxDivisor
         /\ Count(asked) \in 1..MaxCount
         /\ asked * Freq <= Count(asked) * Divisor(asked)
  BY HeartbeatFits

\* The counter.
LEMMA HardwareStep == IInv /\ ~reset /\ Hardware => IInv'
<1> SUFFICES ASSUME IInv, ~reset, Hardware PROVE IInv'
  OBVIOUS
<1>1. CASE Tick
  <2>1. (cnt - 1) * con.divisor = cnt * con.divisor - con.divisor
    OBVIOUS
  <2> QED BY <1>1, <2>1, HeartbeatFits, WatchdogAssumption DEF Tick
<1>2. CASE Expire
  BY <1>2, HeartbeatFits, WatchdogAssumption DEF Expire
<1> QED BY <1>1, <1>2 DEF Hardware

\* The calls of the users.
LEMMA UserStep == IInv /\ sys \notin Restarting /\ ~reset /\ User => IInv'
<1> SUFFICES ASSUME IInv, sys \notin Restarting, ~reset, User PROVE IInv'
  OBVIOUS
<1>1. CASE Acquire("user")
  BY <1>1, AskedFits DEF Acquire
<1>2. CASE Call
  BY <1>2, HeartbeatFits, FreqPositive, WatchdogAssumption DEF Call
<1>3. CASE StartStop
  <2>1. HardwareTypes'
    BY <1>3, StoppedCon, AskedFits DEF StartStop
  <2>2. ThreadTypes'
    BY <1>3, StoppedCon, AskedFits DEF StartStop
  <2>3. OtherTypes'
    BY <1>3, StoppedCon, AskedFits DEF StartStop
  <2>4. HeartbeatInv' /\ SaveInv' /\ OwedInv' /\ SoftInv'
    BY <1>3, StoppedCon, AskedFits DEF StartStop
  <2>5. StartedInv' /\ MaskInv' /\ DownInv' /\ NoEarlyReset'
    BY <1>3, StoppedCon, AskedFits DEF StartStop
  <2> QED BY <2>1, <2>2, <2>3, <2>4, <2>5
<1>4. CASE StartGo
  <2>1. owed' <= cnt' * con'.divisor
    BY <1>4, StartedCon, AskedFits DEF StartGo
  <2>2. HardwareTypes'
    <3>1. con' \in WTCON
      BY <1>4, StartedCon DEF StartGo
    <3> QED BY <1>4, <3>1, WatchdogAssumption DEF StartGo
  <2>3. ThreadTypes'
    BY <1>4, StartedCon DEF StartGo
  <2>4. OtherTypes'
    BY <1>4, AskedFits DEF StartGo
  <2>5. HeartbeatInv'
    BY <1>4, StartedCon DEF StartGo
  <2>6. SaveInv'
    BY <1>4, StartedCon DEF StartGo
  <2>7. OwedInv'
    BY <1>4, <2>1, AskedFits DEF StartGo
  <2>8. SoftInv'
    BY <1>4, StartedCon DEF StartGo
  <2>9. StartedInv'
    BY <1>4, StartedCon DEF StartGo
  <2>10. MaskInv'
    BY <1>4, StartedCon DEF StartGo
  <2>11. DownInv' /\ NoEarlyReset'
    BY <1>4, StartedCon DEF StartGo
  <2> QED BY <2>2, <2>3, <2>4, <2>5, <2>6, <2>7, <2>8, <2>9, <2>10, <2>11
<1>5. CASE StopGo
  <2>1. HardwareTypes'
    BY <1>5, StoppedCon, AskedFits DEF StopGo
  <2>2. ThreadTypes'
    BY <1>5, StoppedCon, AskedFits DEF StopGo
  <2>3. OtherTypes'
    BY <1>5, StoppedCon, AskedFits DEF StopGo
  <2>4. HeartbeatInv' /\ SaveInv' /\ OwedInv' /\ SoftInv'
    BY <1>5, StoppedCon, AskedFits DEF StopGo
  <2>5. StartedInv' /\ MaskInv' /\ DownInv' /\ NoEarlyReset'
    BY <1>5, StoppedCon, AskedFits DEF StopGo
  <2> QED BY <2>1, <2>2, <2>3, <2>4, <2>5
<1>6. CASE PingGo
  BY <1>6, HeartbeatFits, FreqPositive, WatchdogAssumption DEF PingGo
<1>7. CASE \E t \in Timeouts : SetCount(t)
  BY <1>7, HeartbeatFits, FreqPositive, WatchdogAssumption DEF SetCount
<1>8. CASE SetRead
  BY <1>8, HeartbeatFits, FreqPositive, WatchdogAssumption DEF SetRead
<1>9. CASE SetDat
  BY <1>9, HeartbeatFits, FreqPositive, WatchdogAssumption DEF SetDat
<1>10. CASE SetCon
  <2>1. timeout' \in Nat
    BY <1>10, FreqPositive DEF SetCon
  <2>2. HardwareTypes'
    BY <1>10 DEF SetCon
  <2>3. ThreadTypes'
    BY <1>10, WatchdogAssumption DEF SetCon
  <2>4. OtherTypes'
    BY <1>10, <2>1 DEF SetCon
  <2>5. HeartbeatInv'
    BY <1>10 DEF SetCon
  <2>6. SaveInv'
    BY <1>10 DEF SetCon
  <2>7. OwedInv'
    BY <1>10, AskedFits, WatchdogAssumption DEF SetCon
  <2>8. SoftInv'
    BY <1>10 DEF SetCon
  <2>9. StartedInv'
    BY <1>10 DEF SetCon
  <2>10. MaskInv'
    BY <1>10 DEF SetCon
  <2>11. DownInv' /\ NoEarlyReset'
    BY <1>10 DEF SetCon
  <2> QED BY <2>2, <2>3, <2>4, <2>5, <2>6, <2>7, <2>8, <2>9, <2>10, <2>11
<1> QED BY <1>1, <1>2, <1>3, <1>4, <1>5, <1>6, <1>7, <1>8, <1>9, <1>10 DEF User

\* s3c2410wdt_irq.
LEMMA IsrStep == IInv /\ sys \notin Restarting /\ ~reset /\ Isr => IInv'
<1> SUFFICES ASSUME IInv, sys \notin Restarting, ~reset, Isr PROVE IInv'
  OBVIOUS
<1>1. CASE IsrEnter
  BY <1>1, HeartbeatFits, FreqPositive, WatchdogAssumption DEF IsrEnter
<1>2. CASE IsrLock
  BY <1>2, HeartbeatFits, FreqPositive, WatchdogAssumption DEF IsrLock
<1>3. CASE IsrWrite
  <2>1. ~Setting => owed <= cnt' * con.divisor
    BY <1>3, AskedFits, WatchdogAssumption DEF IsrWrite
  <2>2. HardwareTypes'
    BY <1>3, <2>1, AskedFits, WatchdogAssumption DEF IsrWrite
  <2>3. ThreadTypes'
    BY <1>3, <2>1, AskedFits, WatchdogAssumption DEF IsrWrite
  <2>4. OtherTypes'
    BY <1>3, <2>1, AskedFits, WatchdogAssumption DEF IsrWrite
  <2>5. HeartbeatInv' /\ SaveInv' /\ OwedInv' /\ SoftInv'
    BY <1>3, <2>1, AskedFits, WatchdogAssumption DEF IsrWrite
  <2>6. StartedInv' /\ MaskInv' /\ DownInv' /\ NoEarlyReset'
    BY <1>3, <2>1, AskedFits, WatchdogAssumption DEF IsrWrite
  <2> QED BY <2>2, <2>3, <2>4, <2>5, <2>6
<1>4. CASE IsrClear
  <2>1. raised' \in BOOLEAN
    BY <1>4, Zenon DEF IsrClear
  <2> QED BY <1>4, <2>1 DEF IsrClear
<1> QED BY <1>1, <1>2, <1>3, <1>4 DEF Isr

\* Suspend, resume and shutdown.
LEMMA SystemStep == IInv /\ sys \notin Restarting /\ ~reset /\ System => IInv'
<1> SUFFICES ASSUME IInv, sys \notin Restarting, ~reset, System PROVE IInv'
  OBVIOUS
<1>1. CASE Acquire("sys")
  BY <1>1, HeartbeatFits, FreqPositive, WatchdogAssumption DEF Acquire
<1>2. CASE Suspend
  BY <1>2, HeartbeatFits, FreqPositive, WatchdogAssumption DEF Suspend
<1>3. CASE SuspendMask
  <2>1. HardwareTypes'
    BY <1>3 DEF SuspendMask, Update
  <2>2. ThreadTypes'
    BY <1>3 DEF SuspendMask, Update
  <2>3. OtherTypes'
    BY <1>3 DEF SuspendMask, Update
  <2>4. HeartbeatInv'
    BY <1>3 DEF SuspendMask, Update
  <2>5. SaveInv'
    BY <1>3 DEF SuspendMask, Update
  <2>6. OwedInv'
    BY <1>3 DEF SuspendMask, Update
  <2>7. SoftInv'
    BY <1>3 DEF SuspendMask, Update
  <2>8. StartedInv'
    BY <1>3 DEF SuspendMask, Update
  <2>9. MaskInv'
    BY <1>3 DEF SuspendMask, Update
  <2>10. DownInv' /\ NoEarlyReset'
    BY <1>3 DEF SuspendMask, Update
  <2> QED BY <2>1, <2>2, <2>3, <2>4, <2>5, <2>6, <2>7, <2>8, <2>9, <2>10
<1>4. CASE SuspendStop
  <2>1. HardwareTypes'
    BY <1>4, StoppedCon, AskedFits DEF SuspendStop
  <2>2. ThreadTypes'
    BY <1>4, StoppedCon, AskedFits DEF SuspendStop
  <2>3. OtherTypes'
    BY <1>4, StoppedCon, AskedFits DEF SuspendStop
  <2>4. HeartbeatInv' /\ SaveInv' /\ OwedInv' /\ SoftInv'
    BY <1>4, StoppedCon, AskedFits DEF SuspendStop
  <2>5. StartedInv' /\ MaskInv' /\ DownInv' /\ NoEarlyReset'
    BY <1>4, StoppedCon, AskedFits DEF SuspendStop
  <2> QED BY <2>1, <2>2, <2>3, <2>4, <2>5
<1>5. CASE Resume
  BY <1>5, HeartbeatFits, FreqPositive, WatchdogAssumption DEF Resume
<1>6. CASE ResumeCon
  BY <1>6, HeartbeatFits, FreqPositive, WatchdogAssumption DEF ResumeCon
<1>7. CASE ResumeUnmask
  <2>1. HardwareTypes'
    BY <1>7 DEF ResumeUnmask, Update
  <2>2. ThreadTypes'
    BY <1>7 DEF ResumeUnmask, Update
  <2>3. OtherTypes'
    BY <1>7 DEF ResumeUnmask, Update
  <2>4. HeartbeatInv'
    BY <1>7 DEF ResumeUnmask, Update
  <2>5. SaveInv'
    BY <1>7 DEF ResumeUnmask, Update
  <2>6. OwedInv'
    BY <1>7 DEF ResumeUnmask, Update
  <2>7. SoftInv'
    BY <1>7 DEF ResumeUnmask, Update
  <2>8. StartedInv'
    BY <1>7 DEF ResumeUnmask, Update
  <2>9. MaskInv'
    BY <1>7 DEF ResumeUnmask, Update
  <2>10. DownInv' /\ NoEarlyReset'
    BY <1>7 DEF ResumeUnmask, Update
  <2> QED BY <2>1, <2>2, <2>3, <2>4, <2>5, <2>6, <2>7, <2>8, <2>9, <2>10
<1>8. CASE Shutdown
  BY <1>8, HeartbeatFits, FreqPositive, WatchdogAssumption DEF Shutdown
<1>9. CASE ShutdownMask
  <2>1. HardwareTypes'
    BY <1>9 DEF ShutdownMask, Update
  <2>2. ThreadTypes'
    BY <1>9 DEF ShutdownMask, Update
  <2>3. OtherTypes'
    BY <1>9 DEF ShutdownMask, Update
  <2>4. HeartbeatInv'
    BY <1>9 DEF ShutdownMask, Update
  <2>5. SaveInv'
    BY <1>9 DEF ShutdownMask, Update
  <2>6. OwedInv'
    BY <1>9 DEF ShutdownMask, Update
  <2>7. SoftInv'
    BY <1>9 DEF ShutdownMask, Update
  <2>8. StartedInv'
    BY <1>9 DEF ShutdownMask, Update
  <2>9. MaskInv'
    BY <1>9 DEF ShutdownMask, Update
  <2>10. DownInv' /\ NoEarlyReset'
    BY <1>9 DEF ShutdownMask, Update
  <2> QED BY <2>1, <2>2, <2>3, <2>4, <2>5, <2>6, <2>7, <2>8, <2>9, <2>10
<1>10. CASE ShutdownStop
  <2>1. HardwareTypes'
    BY <1>10, StoppedCon, AskedFits DEF ShutdownStop
  <2>2. ThreadTypes'
    BY <1>10, StoppedCon, AskedFits DEF ShutdownStop
  <2>3. OtherTypes'
    <3>1. late' = TRUE \/ late' = FALSE
      <4> DEFINE P == pc \in {"dat", "con"}
      <4>1. late' = P
        BY <1>10 DEF ShutdownStop
      <4>2. P = TRUE \/ P = FALSE
        OBVIOUS
      <4> HIDE DEF P
      <4> QED BY <4>1, <4>2
    <3> QED BY <1>10, <3>1 DEF ShutdownStop
  <2>4. HeartbeatInv' /\ SaveInv' /\ OwedInv' /\ SoftInv'
    BY <1>10, StoppedCon, AskedFits DEF ShutdownStop
  <2>5. StartedInv' /\ MaskInv' /\ DownInv' /\ NoEarlyReset'
    BY <1>10, StoppedCon, AskedFits DEF ShutdownStop
  <2> QED BY <2>1, <2>2, <2>3, <2>4, <2>5
<1> QED BY <1>1, <1>2, <1>3, <1>4, <1>5, <1>6, <1>7, <1>8, <1>9, <1>10 DEF System

\* The restart, after which the user is owed nothing.
LEMMA RestartStep == IInv /\ sys \notin Restarting /\ ~reset /\ Restart => IInv'
<1> SUFFICES ASSUME IInv, sys \notin Restarting, ~reset, Restart PROVE IInv'
  OBVIOUS
<1>1. HardwareTypes'
  BY WatchdogAssumption DEF Restart
<1>2. ThreadTypes'
  BY DEF Restart
<1>3. OtherTypes'
  BY DEF Restart
<1>4. HeartbeatInv' /\ SaveInv' /\ MaskInv' /\ DownInv' /\ NoEarlyReset'
  BY DEF Restart
<1>5. OwedInv'
  BY AskedFits, WatchdogAssumption DEF Restart
<1>6. SoftInv' /\ StartedInv'
  BY DEF Restart
<1> QED BY <1>1, <1>2, <1>3, <1>4, <1>5, <1>6

LEMMA InitInv == Init => IInv
<1> SUFFICES ASSUME Init PROVE IInv
  OBVIOUS
<1>0. PICK inten \in BOOLEAN, atboot \in BOOLEAN :
        LET c == [enable |-> FALSE, inten |-> inten, rsten |-> FALSE,
                  divisor |-> Divisor(asked)]
        IN  con = (IF atboot THEN Started(c) ELSE c) /\ started = atboot
  BY DEF Init
<1>d. Divisor(asked) \in 1..MaxDivisor /\ count \in 1..MaxCount
  BY HeartbeatFits DEF Init
<1>1. con \in WTCON /\ con.divisor = Divisor(asked)
  BY <1>0, <1>d, StartedCon DEF Init
<1>2. timeout \in Nat
  BY HeartbeatFits, FreqPositive, WatchdogAssumption DEF Init
<1>h. HardwareTypes
  <2>1. raised \in BOOLEAN /\ reset \in BOOLEAN
    BY Zenon DEF Init
  <2>2. dat = count /\ cnt = count /\ off = {}
    BY DEF Init
  <2> QED BY <1>1, <1>d, <2>1, <2>2, WatchdogAssumption
<1>3. ThreadTypes
  BY <1>1, <1>d, WatchdogAssumption DEF Init
<1>4. OtherTypes
  BY <1>2, HeartbeatFits, WatchdogAssumption DEF Init
<1>5. HeartbeatInv /\ SaveInv
  BY <1>1 DEF Init
<1>6. OwedInv
  BY <1>1, HeartbeatFits DEF Init
<1>7. con.enable /\ con.inten => soft
  BY <1>0 DEF Started
<1>8. con.enable <=> started
  BY <1>0 DEF Started
<1>9. SoftInv /\ StartedInv
  BY <1>7, <1>8 DEF Init
<1>10. MaskInv /\ DownInv /\ NoEarlyReset
  BY DEF Init
<1> QED BY <1>h, <1>3, <1>4, <1>5, <1>6, <1>9, <1>10

LEMMA NextInv == IInv /\ [Next]_vars => IInv'
<1>1. IInv /\ Next => IInv'
  BY HardwareStep, UserStep, IsrStep, SystemStep, RestartStep
     DEF Next, Software
<1>2. IInv /\ UNCHANGED vars => IInv'
  BY DEF vars
<1> QED BY <1>1, <1>2

HIDE DEF IInv, TypeOK, HeartbeatInv, SaveInv, OwedInv, SoftInv, StartedInv,
    MaskInv, DownInv, NoEarlyReset

THEOREM InvHolds == Spec => []IInv
  BY InitInv, NextInv, PTL DEF Spec

-----------------------------------------------------------------------------

\* Every register keeps to its width.
THEOREM TypeCorrect == Spec => []TypeOK
<1>1. IInv => TypeOK
  BY DEF IInv
<1> QED BY <1>1, InvHolds, PTL

\* Whoever pings in time is not reset, whatever the clock and the counter.
THEOREM NeverEarly == Spec => []NoEarlyReset
<1>1. IInv => NoEarlyReset
  BY DEF IInv
<1> QED BY <1>1, InvHolds, PTL

\* The counter runs if it was started, and reaches the system.
THEOREM Protects == Spec => []ActiveProtects
<1>1. IInv => ActiveProtects
  BY DEF IInv, StartedInv, MaskInv, DownInv, ActiveProtects
<1> QED BY <1>1, InvHolds, PTL

\* The handler finds no lock whose holder it has interrupted.
THEOREM NeverDeadlocked == Spec => []NoSelfDeadlock
<1>1. IInv => NoSelfDeadlock
  BY DEF IInv, SoftInv, NoSelfDeadlock
<1> QED BY <1>1, InvHolds, PTL

\* Shutdown's stop lasts until a user starts the watchdog again, unless a
\* set_timeout had read WTCON before it.
THEOREM StopsAtShutdown == Spec => []ShutdownStops
<1>1. IInv => ShutdownStops
  BY DEF IInv, StartedInv, DownInv, ShutdownStops
<1> QED BY <1>1, InvHolds, PTL

=============================================================================
