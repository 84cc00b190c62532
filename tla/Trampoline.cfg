\* Functions of one instruction of every kind and plain ones, and functions of up
\* to three instructions that jump, for both processors.
SPECIFICATION Spec
CONSTANTS
  Samples <- MCSamples
  Steps <- MCSteps
  Lasts <- MCLasts
  Surroundings <- MCSurroundings
  MaxSteps = 2
  TrampolineAt = 1000
  TableAt = 2000
INVARIANTS
  DecodedRight
  SameFlow
  OverwritesItsOwn
CHECK_DEADLOCK FALSE
