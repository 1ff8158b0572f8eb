CONSTANTS
  Users = {a, b}
  Periods = {500, 1000}
  Default = 1000
SPECIFICATION FairSpec
INVARIANT StopHolds
INVARIANT PeriodInUse
PROPERTY OnlyCloseStops
PROPERTY KeepsBlinking
PROPERTY Implements
