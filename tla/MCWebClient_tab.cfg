CONSTANTS
  MaxGoals = 3
  MaxJobs = 2
  Scenes <- MCScenes
SPECIFICATION FairSpec
INVARIANTS ShownIsSelected AccountAgrees
PROPERTIES TrackingHolds 
CHECK_DEADLOCK FALSE
