CONSTANTS
  Procs = {r1}
  KEY0VALUE = KEY0VALUE
  INVAKEY = INVAKEY
  DEBOUNCE = 10
SPECIFICATION Spec
INVARIANT SettledAgrees
PROPERTY SampleIsSettled
