\* Two overlapping requests of every kind on one skill, which may die.
SPECIFICATION SkillSpec
CONSTANTS
  Procs = {p1, p2}
  Ops <- AllOps
  InitialStates = {"none", "live", "legacy"}
  DrawVersions = {0, 1}
  MaxContents = 3
  MaxMessages = 2
  Faults = TRUE
INVARIANTS
  FiledUnderItsVersion
  HistoryComplete
  OneModelCall
  SessionKeepsNewest
  AnswersAreOwn
SYMMETRY Symmetry
CHECK_DEADLOCK FALSE
