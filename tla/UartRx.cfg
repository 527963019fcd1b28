SPECIFICATION FairSpec
CONSTANTS
  Size = 4
  Char = {a, b, nl, ctl}
  NewLine = nl
  Junk = {ctl}
  NoChar = NoChar
  SemLimit = 5
  MaxLine = 3
  a = a
  b = b
  nl = nl
  ctl = ctl
INVARIANTS
  TypeOK
  NoLostWakeUp
  ReadsFilledSlot
PROPERTIES
  ImplementsChannel
  LineComesOut
