SPECIFICATION Spec
CONSTANTS
  NULL = NULL
  Resource = {"cpu", "memory"}
  MaxI64 = 7
  WebhookNamespace = "capacity-admission"
  FreshnessTimeout = 1
  Reviews <- MCReviews
  AllocationsAt <- MCAllocationsAt
  Capacities <- MCCapacities
  Times <- MCTimes
INVARIANTS AdmitsOnlyVerified AdmittedPodFits ModeOnlySoftensBudget UpdateJudgedAsCreate PressureNeverAdmits BlameIsRight
CHECK_DEADLOCK FALSE
