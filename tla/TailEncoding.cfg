SPECIFICATION Spec
CONSTANTS
  ReadSize = 11
  OutSize = 8
  SendSize = 4
  MaxLength = 26
INVARIANTS
  TailEncoded
