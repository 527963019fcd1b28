SPECIFICATION FairSpec
CONSTANTS
  CountDownStart = 2
  SemLimit = 2
INVARIANTS
  TypeOK
  NoKernelError
  
  WakeExplained
  CancelBeforeTimeout
PROPERTIES
  KeepsPromise
  
  CancelEnds
  
  UpdatesFollowAlarm
