SPECIFICATION Spec
INVARIANT Ready
INVARIANT Balanced
CHECK_DEADLOCK FALSE
