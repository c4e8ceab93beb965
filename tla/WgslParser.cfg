SPECIFICATION Spec
CONSTANTS
  Names <- MCNames
  Texts <- MCTexts
  MaxErrors = 2
  MaxConstExprDepth = 1
  Lookahead = 4
INVARIANTS TypeOK ErrorsAreReported SuccessMeansWholeText DecorationsAreUsed
PROPERTIES RecoveryStaysInBlock ParseEnds
CHECK_DEADLOCK FALSE
