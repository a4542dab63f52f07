SPECIFICATION Spec
CONSTANT ShutdownUsed = FALSE
CHECK_DEADLOCK FALSE
INVARIANT ExitsNormally
