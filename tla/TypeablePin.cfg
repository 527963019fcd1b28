SPECIFICATION Spec
CONSTANTS
  PHONE_LEN = 1
  PIN_LEN = 2
  Blank = Blank
  Other = Other
  BACKSPACE = BACKSPACE
  ENTER = ENTER
  NoTouch = NoTouch
  Spots <- MCSpots
  FileLengths = {0, 4}
  FileDigits = {5}
INVARIANTS
  PinTypeable
