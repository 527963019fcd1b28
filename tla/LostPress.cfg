SPECIFICATION FairSpec
CONSTANTS
  CountDownStart = 2
  SemLimit = 1
PROPERTY
  ButtonAlwaysAlarms
