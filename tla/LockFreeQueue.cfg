\* Three values: a fault needs two. The model stops at a fault and at MaxCtr.
SPECIFICATION FairSpec
CONSTANTS
  MaxValues = 3
  MaxCtr = 4
INVARIANTS
  TypeOK
  SizeCounts
PROPERTIES
  ImplementsFifo
  FalseMeansDrained
  RunsAlone
CHECK_DEADLOCK FALSE
