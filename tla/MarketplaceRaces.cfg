\* Two overlapping requests that may die between any two awaits.
SPECIFICATION Spec
CONSTANTS
  Procs = {p1, p2}
  Ops <- ReviewOps
  Owner = alice
  Admins = {alice, bob}
  AllowSelfApproval = FALSE
  InitialStatuses = {"ready"}
  OwnerStatuses = {}
  MaxSubs = 2
  MaxVersion = 2
  MaxReqs = 1
  Faults = TRUE
INVARIANTS
  TypeOK
  ListedVersionReadable
  DeletedLeavesNothing
  NoLockCycle
  OnlyReviewedIsListed
SYMMETRY ProcSymmetry
CHECK_DEADLOCK FALSE
