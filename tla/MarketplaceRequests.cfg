\* Two overlapping requests around the owner's removal requests.
SPECIFICATION FairSpec
CONSTANTS
  Procs = {p1, p2}
  Ops <- RemovalOps
  Owner = alice
  Admins = {alice, bob}
  AllowSelfApproval = FALSE
  InitialStatuses = {"ready"}
  OwnerStatuses = {}
  MaxSubs = 1
  MaxVersion = 1
  MaxReqs = 2
  Faults = FALSE
INVARIANTS
  OnePendingRequest
PROPERTIES
  CallsReturn
CHECK_DEADLOCK FALSE
