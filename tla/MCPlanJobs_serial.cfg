SPECIFICATION Spec
CONSTANTS
  g1 = g1
  g2 = g2
  j1 = j1
  j2 = j2
  j3 = j3
  j4 = j4
  c1 = c1
  c2 = c2
  n1 = n1
  n2 = n2
  s1 = s1
  a1 = a1
  NoLimit = NoLimit
  Goals = {g1, g2}
  Jobs = {j1, j2, j3, j4}
  Kind <- ReplanThird
  GoalOf <- OnEach
  Cancels = {c1}
  Confirms = {n1}
  Settles = {s1}
  Admins = {}
  MaxOpen = 1
  MaxAttempts = 2
  QueueEnabled = FALSE
  MaxFaults = 0
  MaxRetries = 0
  Tiers <- Free
  Limit <- FreeLimit
  MaxPeriod = 1
INVARIANTS GoalsInProgress
PROPERTIES ClosedGoalStays
