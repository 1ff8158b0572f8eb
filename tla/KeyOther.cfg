CONSTANTS
  Procs = {r1, r2}
  NonBlocking = {}
  AsyncApps = {r2}
  KEY0VALUE = KEY0VALUE
  INVAKEY = INVAKEY
  Drivers = {"blockio", "asyncnoti"}
SPECIFICATION Spec
INVARIANT NoReplay
INVARIANT SigioReachesApps
PROPERTY WakeReachesAll
