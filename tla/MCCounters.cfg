SPECIFICATION FairSpec
CONSTANTS
  NULL = NULL
  Resource = {"cpu", "memory"}
  MaxI64 = 100
  WebhookNamespace = "capacity-admission"
  FreshnessTimeout = 1
  Worker = {"w1"}
  Refresher = "refresher"
  Requests <- MCRequests
  Allocations <- MCAllocations
  Capacities <- MCCapacities
  MaxReviews = 2
  MaxChanges = 1
INVARIANTS TypeOK MetricsTellAnswers
PROPERTY GaugesCatchUp
CHECK_DEADLOCK FALSE
