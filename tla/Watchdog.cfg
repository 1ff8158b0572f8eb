CONSTANTS
  ClockRate = 4
  PreDiv = 1
  MaxCount = 3
  MaxDivisor = 3
  RestartCount = 2
SPECIFICATION FairSpec
 
INVARIANT ActiveProtects
INVARIANT NoSelfDeadlock
INVARIANT ShutdownStops
PROPERTY Bites
PROPERTY RestartResets
CHECK_DEADLOCK FALSE
