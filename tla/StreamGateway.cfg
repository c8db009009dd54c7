\* Two pods, two sockets of one user, one optimize-skill and one other request.
CONSTANTS
  a = a
  b = b
  s1 = s1
  s2 = s2
  gen = gen
  opt = opt
  None = None
  Pods <- MCPods
  Sockets <- MCSockets
  Requests <- MCRequests
  Loops <- MCLoops
  Stoppable <- MCStoppable
SPECIFICATION Spec
INVARIANTS TypeOK ControllersTracked AbortHasCause DrainedIsToldAndAborted
PROPERTIES NoErrorAfterInterrupt AbandonedStops
\* Every socket and request may be used up.
CHECK_DEADLOCK FALSE
