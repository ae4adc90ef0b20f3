SPECIFICATION Spec
CONSTANTS
  ReorgSafetyAge = 3
  InitialBlock = 2
  MaxBlocks = 14
INVARIANTS TypeOK NoBlockSkipped
PROPERTIES RereadsLastSettled
