CONSTANTS
  c = c
  NL = NL
  Char <- MCChar
  Junk = junk
  blocksize = 3
  initialsize = 4
  originallinelength = 2
  MaxText = 12
  Faults = {"open", "read"}
  Directories <- MCDirectories
  Ragged <- MCRagged
SPECIFICATION Spec
INVARIANTS TypeOK RoomForBlock NeverUndefined
PROPERTIES StreamSpec AllRead
CHECK_DEADLOCK FALSE
