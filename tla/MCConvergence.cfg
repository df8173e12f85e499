SPECIFICATION FairSpec
CONSTANTS
  NULL = NULL
  p1 = p1  p2 = p2  p3 = p3  exempt = exempt  own = own
  Resource = {"cpu"}
  MaxI64 = 100
  Pod = {p1}
  Request <- MCRequest
  Namespace <- MCNamespace
  Class <- MCClass
  WebhookNamespace = "capacity-admission"
  FreshnessTimeout = 0
  Controller = {c1}
  Webhook = {w1}
  Specs <- NoSpecs
  Supplies <- OneSupply
  LaterPhases = {"Succeeded"}
  MaxClock = 1
INVARIANT StatusCoherent
PROPERTIES SilenceStopsAdmission Converges
