CONSTANTS
  g1 = g1
  g2 = g2
  w1 = w1
  w2 = w2
  Receivable = Receivable
  None = None
  Grants <- OneGrant
  Rank <- GrantRank
  Amount <- GrantAmount
  Charge <- ChargeOne
  Entitled = {g1}
  Windows = {w1}
  Requests = {r1}
  Sweepers = {s1}
  OverageConsent = FALSE
  MaxAmount = 3
  MaxAttempts = 3
  MaxFaults = 2
SPECIFICATION FairSpec
PROPERTIES
  SettlementReachesLedger
  DepositReachesLedger
