SPECIFICATION Spec
INVARIANT DstInRoom
CHECK_DEADLOCK FALSE
