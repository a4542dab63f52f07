SPECIFICATION Spec
CONSTANTS
  Extents = {1, 3}
  Reach = 4
  None = None
INVARIANT FrameSize
