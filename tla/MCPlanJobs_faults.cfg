SPECIFICATION FairSpec
CONSTANTS
  g1 = g1
  g2 = g2
  j1 = j1
  j2 = j2
  j3 = j3
  j4 = j4
  c1 = c1
  c2 = c2
  n1 = n1
  n2 = n2
  s1 = s1
  a1 = a1
  NoLimit = NoLimit
  Goals = {g1}
  Jobs = {j1}
  Kind <- AllGenerate
  GoalOf <- OnFirst
  Cancels = {c1, c2}
  Confirms = {n1}
  Settles = {}
  Admins = {a1}
  MaxOpen = 2
  MaxAttempts = 2
  QueueEnabled = TRUE
  MaxFaults = 2
  MaxRetries = 1
  Tiers <- Free
  Limit <- FreeLimit
  MaxPeriod = 0
INVARIANTS PlanBehindStatus CancelRefunds JobsAreCharged
PROPERTIES ConfirmActivatesReviewed JobsGoOn
CHECK_DEADLOCK FALSE
