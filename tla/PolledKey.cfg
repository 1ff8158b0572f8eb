CONSTANTS
  Readers = {a, b, c}
SPECIFICATION FairPolledSpec
INVARIANT AnswerIsOwn
PROPERTY ReadReturns
