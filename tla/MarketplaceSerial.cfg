\* One request at a time, no faults: what each handler does on its own.
SPECIFICATION Spec
CONSTANTS
  Procs = {p1}
  Ops <- AllOps
  Owner = alice
  Admins = {alice, bob}
  AllowSelfApproval = FALSE
  InitialStatuses = {"draft", "ready"}
  OwnerStatuses = {"draft", "ready", "in_review", "published"}
  MaxSubs = 3
  MaxVersion = 2
  MaxReqs = 2
  Faults = FALSE
INVARIANTS
  CatalogConsistent
CHECK_DEADLOCK FALSE
