CONSTANTS
  Procs = {r1, r2}
  NonBlocking = {r2}
  AsyncApps = {}
  KEY0VALUE = KEY0VALUE
  INVAKEY = INVAKEY
  Drivers = {"imx6uirq", "noblockio"}
SPECIFICATION FairSpec
INVARIANT NoLostWakeup
PROPERTY Implements
PROPERTY ReleaseConsumed
PROPERTY LevelReported
