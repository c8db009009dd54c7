\* Two overlapping refinements of one skill.
SPECIFICATION SkillSpec
CONSTANTS
  Procs = {p1, p2}
  Ops = {"refine"}
  InitialStates = {"live"}
  DrawVersions = {0}
  MaxContents = 3
  MaxMessages = 2
  Faults = FALSE
PROPERTIES
  NoUpdateLost
CHECK_DEADLOCK FALSE
