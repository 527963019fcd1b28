SPECIFICATION FairSpec
CONSTANTS
  NumSectors = 2
  Reach = 2
  Values = {a, b}
  Old = old
  Words = 3
  Fifo = 2
  Faults = {"response", "start", "data", "underrun", "removal"}
  MaxFaults = 2
INVARIANTS
  TypeOK
  LeavesQuiet
PROPERTIES
  IsBlockDevice
  CallEnds
