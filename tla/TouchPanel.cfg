CONSTANTS
  Slots = {0, 1, 2}
  MaxErrors = 2
SPECIFICATION FairTouchSpec
INVARIANT TouchFollows
PROPERTY ReleaseReported
