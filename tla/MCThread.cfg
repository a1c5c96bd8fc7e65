SPECIFICATION Spec
INVARIANT MemorySafe
CHECK_DEADLOCK FALSE
