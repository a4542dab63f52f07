SPECIFICATION Spec
CONSTANTS
  Sessions = {s1}
  Platforms = {"linux"}
  Invalid = Invalid
CHECK_DEADLOCK FALSE
INVARIANT ViewerEndsNormally
