\* Two requests on the evals of a skill that is approved or deleted.
SPECIFICATION Spec
CONSTANTS
  Procs = {p1}
  Ops = {"approve", "delete"}
  InitialStates = {"live"}
  DrawVersions = {0}
  MaxContents = 2
  MaxMessages = 1
  Faults = TRUE
  EvalProcs = {e1, e2}
  EvalOps <- StreamedEvalOps
  Concurrency = 2
  CaseLimit = 1
  InitialCases = {0, 1}
  RunsPerCase = {2}
  MaxCases = 1
  MaxRequests = 2
  MaxCalls = 1
INVARIANTS
  EvalTypeOK
  RunsLabelledTruthfully
  OneExecutionPerKey
  BatchIsComplete
  BenchmarksExact
  WaitersAreAnswered
SYMMETRY EvalSymmetry
CHECK_DEADLOCK FALSE
