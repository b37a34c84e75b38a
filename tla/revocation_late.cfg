SPECIFICATION Spec
CONSTANTS
  Users = {u1}
  Grants = {g1}
  Requests = {r1, r2}
  Admins = {a1}
  TTL = 1
  Span = 1
  MaxTime = 2
  MaxWrites = 2
  None = None
PROPERTY RevocationWithinLifetime
CHECK_DEADLOCK FALSE
