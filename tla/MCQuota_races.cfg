SPECIFICATION QuotaSpec
CONSTANTS
  a1 = a1
  a2 = a2
  u1 = u1
  u2 = u2
  c1 = c1
  c2 = c2
  NoLimit = NoLimit
  MaxPeriod = 1
  Capabilities <- MCCapabilities
  Renewing <- MCRenewing
  Tiers <- MCTiers
  Limit <- MCLimit
  Resources <- MCResources
  Capability <- MCCapability
  Qty <- MCQty
  Callers <- MCCallers
  Consumes <- MCRequests
  Releases <- MCRequests
INVARIANTS LedgerExact
PROPERTIES ReleasedForGood
