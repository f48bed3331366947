CONSTANTS
  g1 = g1
  g2 = g2
  w1 = w1
  w2 = w2
  Receivable = Receivable
  None = None
  Grants <- TwoGrants
  Rank <- GrantRank
  Amount <- GrantAmount
  Charge <- ChargeTwo
  Entitled = {g1}
  Windows = {w1, w2}
  Requests = {r1}
  Sweepers = {s1}
  OverageConsent = FALSE
  MaxAmount = 3
  MaxAttempts = 2
  MaxFaults = 1
SPECIFICATION Spec
INVARIANTS
  OutboxCoherent
  LedgerExactlyOnce
  SpendNeverLost
  FundedByDeposits
PROPERTIES
  SettlementFrozen
