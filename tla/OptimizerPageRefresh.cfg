\* The token is refreshed during a run.
SPECIFICATION FairSpec
CONSTANTS
  MaxSockets = 2
  MaxCalls = 1
  MaxDialogs = 0
  Happenings <- Refreshes
  Gaps <- None
PROPERTIES
  RunsSettle
CHECK_DEADLOCK FALSE
