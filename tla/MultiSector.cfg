SPECIFICATION Spec
CONSTANTS
  SS = 2
  CSize = 2
  NumClusters = 3
  NumFiles = 2
  Requests = {4}
  MaxSize = 4
  UpdateSize = 2
  MaxOpens = 2
  Kinds = {}
  MaxFaults = 0

INVARIANTS
  WholeRequest
