\* An approval overlaps removeFromMarketplace.
SPECIFICATION Spec
CONSTANTS
  Procs = {p1, p2}
  Ops = {"submit", "approve", "removeFromMarketplace"}
  Owner = alice
  Admins = {alice, bob}
  AllowSelfApproval = FALSE
  InitialStatuses = {"ready"}
  OwnerStatuses = {}
  MaxSubs = 2
  MaxVersion = 2
  MaxReqs = 1
  Faults = FALSE
INVARIANTS
  RemovedHasNoApproved
CHECK_DEADLOCK FALSE
