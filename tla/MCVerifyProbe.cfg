SPECIFICATION Spec
CONSTANTS
  NULL = NULL
  Replica = {r1}
  MaxFaults = 0
CHECK_DEADLOCK FALSE
INVARIANT PassIsARejection
