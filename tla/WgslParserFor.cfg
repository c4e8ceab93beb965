SPECIFICATION Spec
CONSTANTS
  Names <- MCNames
  Texts <- MCTexts
  MaxErrors = 2
  MaxConstExprDepth = 1
  Lookahead = 4
INVARIANT AcceptedTextIsValid
CHECK_DEADLOCK FALSE
