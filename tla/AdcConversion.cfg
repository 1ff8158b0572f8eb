CONSTANTS
  Readers = {a, b}
  None = none
SPECIFICATION Spec
INVARIANT AnswerIsOwn
INVARIANT AnswerNotLost
INVARIANT ClockedAccess
CHECK_DEADLOCK FALSE
