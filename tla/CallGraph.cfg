CONSTANTS
  Funcs = {f, g, h}
  Vars = {v, w}
  None = None
  MaxCalls = 2
  MaxDepth = 4
  SelfCalls = FALSE
SPECIFICATION Spec
INVARIANTS TypeOK ReferencesExact AncestorsExact WalkIsBounded
PROPERTY DeterminationEnds
CHECK_DEADLOCK FALSE
