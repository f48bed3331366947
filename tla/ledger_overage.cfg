CONSTANTS
  g1 = g1
  g2 = g2
  w1 = w1
  w2 = w2
  Receivable = Receivable
  None = None
  Grants <- OneGrant
  Rank <- GrantRank
  Amount <- GrantAmount
  Charge <- ChargeTwo
  Entitled = {g1}
  Windows = {w1}
  Requests = {r1, r2}
  Sweepers = {s1}
  OverageConsent = TRUE
  MaxAmount = 3
  MaxAttempts = 2
  MaxFaults = 1
SPECIFICATION Spec
PROPERTIES
  KeepsContract
