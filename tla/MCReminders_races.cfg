CONSTANTS
  Scanners = {s1, s2}
  Batches = {b1}
  Workers = {w1}
  Retriers = {r1}
  Previews = {p1}
  Days = {0}
  Channels = {"WECHAT"}
  Types = {"DAILY_TASK"}
  Preferences <- MCPreferences
  Situations <- MCSituations
  Zones <- MCZones
  MaxAttempts = 2
  MaxTries = 2
  Q = 4
  MaxTime = 1
  MaxLogs = 1
  MaxFaults = 1
SPECIFICATION FairSpec
INVARIANTS CallsCounted
PROPERTIES ScheduleIsLocal QueuedEnds
CHECK_DEADLOCK FALSE
