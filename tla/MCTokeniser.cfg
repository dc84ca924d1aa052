CONSTANTS
  BodyLength = 4
  ONEK = 3
  Junk = junk
  Texts <- MCTexts
SPECIFICATION Spec
INVARIANTS TypeOK TokensRight CopyRight RefusedIffPartial
PROPERTY Returns
CHECK_DEADLOCK FALSE
