\* The page while the connection drops and is replaced.
SPECIFICATION Spec
CONSTANTS
  MaxSockets = 2
  MaxCalls = 3
  MaxDialogs = 1
  Happenings <- Everything
  Gaps <- UpToTwo
INVARIANTS
  PageTypeOK
  OneConnection
  EmitsAreTold
  SpinnerHasALiveRun
PROPERTIES
  CancelledStaysSilent
CHECK_DEADLOCK FALSE
