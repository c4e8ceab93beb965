CONSTANTS
  Builders = {b1, b2}
  Programs = {p1, p2}
  Units = {u1, u2}
  NoUnit = NoUnit
SYMMETRY Symmetry
SPECIFICATION Spec
INVARIANTS TypeOK Ownership RefusedStaysRefused
PROPERTY OwnershipProtocol
CHECK_DEADLOCK FALSE
