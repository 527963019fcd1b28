SPECIFICATION FairSpec
CONSTANTS
  ReadSize = 11
  OutSize = 8
  SendSize = 4
  MaxLength = 26
INVARIANTS
  TypeOK
  EncodesInOrder
  EncodesAll
  NeverHalts
  LengthAnnounced
PROPERTIES
  CallEnds
