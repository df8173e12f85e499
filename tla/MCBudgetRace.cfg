SPECIFICATION Spec
CONSTANTS
  NULL = NULL
  p1 = p1  p2 = p2  p3 = p3  exempt = exempt  own = own
  Resource = {"cpu", "memory"}
  MaxI64 = 100
  Pod = {p1, p2}
  Request <- MCRequest
  Namespace <- MCNamespace
  Class <- MCClass
  WebhookNamespace = "capacity-admission"
  FreshnessTimeout = 1
  Controller = {c1}
  Webhook = {w1}
  Specs <- NoSpecs
  Supplies <- OneSupply
  LaterPhases = {}
  MaxClock = 0
INVARIANT TypeOK
 
