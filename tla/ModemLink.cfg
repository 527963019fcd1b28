SPECIFICATION FairSpec
CONSTANTS
  Repeats = 2
  Refused = {"SET", "SGACT", "GPSACP", "CMGF", "SD", "SH"}
  Faults = {"silent", "late", "drop", "disk"}
  MaxFaults = 2
  MaxAlarms = 2
  MaxUpdates = 1
INVARIANTS
  TypeOK
  
  InStep
  Found
PROPERTIES
  Served
CHECK_DEADLOCK FALSE
