SPECIFICATION Spec
CONSTANTS
  CountDownStart = 2
  SemLimit = 1
PROPERTY
  ImpactGetsItsCountDown
