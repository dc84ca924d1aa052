CONSTANTS
  Texts <- MCTexts
  Letters <- MCLetters
  tolower <- MCLower
  TENK = 7
  QueryLengths <- MCLengths
  Fills <- MCFills
SPECIFICATION Spec
INVARIANTS TypeOK AskedRight
PROPERTIES Ends
CHECK_DEADLOCK FALSE
