SPECIFICATION FairSpec
CONSTANTS
  NULL = NULL
  Replica = {r1}
  MaxFaults = 1
CHECK_DEADLOCK FALSE
INVARIANTS TypeOK ExitIsHonest
PROPERTIES PassLeavesBaseline DenialIsTheBudgets RunEnds
