CONSTANTS
  Funcs = {f, g, h}
  Vars = {v, w}
  None = None
  MaxCalls = 2
  MaxDepth = 4
  SelfCalls = TRUE
SYMMETRY Symmetry
SPECIFICATION Spec
INVARIANT WalkIsBounded
CHECK_DEADLOCK FALSE
