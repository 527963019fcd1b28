SPECIFICATION Spec
CONSTANTS
  SS = 2
  CSize = 2
  NumClusters = 3
  NumFiles = 2
  Requests = {2, 3}
  MaxSize = 6
  UpdateSize = 4
  MaxOpens = 2
  Kinds = {"lost", "stored", "power"}
  MaxFaults = 1

INVARIANTS
  TypeOK
  
  
  
  NoLeak
