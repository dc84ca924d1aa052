CONSTANTS
  BodyLength = 4
  ONEK = 3
  Junk = junk
  Texts <- MCTexts
SPECIFICATION Spec
INVARIANT CountsTokens
CHECK_DEADLOCK FALSE
