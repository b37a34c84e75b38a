SPECIFICATION FairSpec
CONSTANTS
  approval = approval
  reset = reset
  revoke = revoke
  Requests = {approval, reset, revoke}
  Path <- Paths
  Statements <- Changes
  Ignored <- Dropped
  Uncounted <- Exec
  Recipients <- Told
  MaxFaults = 3
INVARIANTS AuditRowsAreOfChanges NoticesAreOfChanges
PROPERTY ApiChangesAreAudited
CHECK_DEADLOCK FALSE
