SPECIFICATION MCSpec
CONSTANTS
  HashLen = 2
  Sign <- MCSign
  Inputs <- MCInputs
  block_size = 8
  NBlocks = 3
  Original <- MCOriginal
  Plans <- MCPlans
  UNINSTALL_DATA_MAX = 5
  MaxFaults = 3
INVARIANTS
  ChecksumPlaced  
  PartitionsKept TableRight
PROPERTIES CommandsEnd
CHECK_DEADLOCK FALSE
