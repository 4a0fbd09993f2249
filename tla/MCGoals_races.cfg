SPECIFICATION FairSpec
CONSTANTS
  Requests = {r1, r2}
  r1 = r1
  r2 = r2
  Workers = {w1}
  Mixes <- MCMixes
  FirstDay = 1
  LastDay = 2
  EndDay = 2
  Planned = {2}
  Allowed = 0
  TrendDays <- MCTrendDays
  MaxReports = 2
  Signals <- MCSignals
  MaxTries = 2
  MaxAsks <- MCMaxAsks
  MaxFaults = 1
INVARIANTS TimelineMatches NothingTwice
PROPERTIES EndStays CompletionHelps WorkEnds
CHECK_DEADLOCK FALSE
