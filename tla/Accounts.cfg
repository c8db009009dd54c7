\* Two requests at a time, which may die twice in all.
SPECIFICATION FairSpec
CONSTANTS
  Procs = {p1, p2}
  Emails = {"owner@x", "user@x"}
  Ops <- AllAccountOps
  MaxInvites = 2
  MaxFaults = 2
INVARIANTS
  AccountsTypeOK
  OneAccountPerInvite
  LiveInvitesWereSent
PROPERTIES
  SetupCompletes
CHECK_DEADLOCK FALSE
