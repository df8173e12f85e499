SPECIFICATION FairSpec
CONSTANTS
  NULL = NULL
  p1 = p1  p2 = p2  p3 = p3  exempt = exempt  own = own
  Resource = {"cpu"}
  MaxI64 = 100
  Pod = {own}
  Request <- MCRequest
  Namespace <- MCNamespace
  Class <- MCClass
  WebhookNamespace = "capacity-admission"
  FreshnessTimeout = 1
  Controller = {c1, c2}
  Webhook = {}
  Specs <- LowBudget
  Supplies = {}
  LaterPhases = {"Succeeded"}
  MaxClock = 0
PROPERTIES Converges OperatorSpecPreserved
