CONSTANTS
  MaxDrafts = 2
  MaxGoals = 2
  Typed <- MCTyped
  Begun <- MCBegun
  Suggested = {"later"}
  Questions = {"q"}
  MaxActs = 4
  MaxFailures = 1
SPECIFICATION FormSpec
INVARIANT GoalIsForm
PROPERTIES WorkKept RestoredIsSaved
CHECK_DEADLOCK FALSE
