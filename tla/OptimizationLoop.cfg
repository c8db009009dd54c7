\* One run of up to four iterations, cancelled, cut off or failing anywhere.
SPECIFICATION FairSpec
CONSTANTS
  Limits <- AllLimits
  Top = 2
  Targets <- AllTargets
  Faults = TRUE
INVARIANTS
  OptTypeOK
  EarlyStopIsConfirmed
  FeedbackIsUsed
  DraftsCleaned
PROPERTIES
  KeepsTheBest
  EveryRunIsAnswered
CHECK_DEADLOCK FALSE
