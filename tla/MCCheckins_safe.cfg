SPECIFICATION FairSpec
CONSTANTS
  t1 = t1
  s1 = s1
  a1 = a1
  c1 = c1
  m1 = m1
  Tasks = {t1}
  Submits = {s1}
  TaskOf <- OnTask
  Appeals = {a1}
  CheckinOf <- OnFirst
  Cancels = {c1}
  Admins = {m1}
  Forms <- Sent
  Letters <- Written
  MaxScore = 2
  Ceiling = 1
  Gains <- One
  Async = {TRUE, FALSE}
  MaxOpen = 2
  MaxFaults = 1
  MaxRetries = 1
INVARIANTS ScoredHasScore CancelRefunds
PROPERTIES ImplementsBook VerdictsCome
CHECK_DEADLOCK FALSE
