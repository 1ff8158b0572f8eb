CONSTANTS
  Users = {app, console}
  Console = {console}
  BellPeriod = 10000000
SPECIFICATION FairSpec
INVARIANT SuspendHolds
INVARIANT AmplifierFollows
INVARIANT QuietWhenClosed
PROPERTY Settles
