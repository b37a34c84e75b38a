SPECIFICATION MCSpec
CONSTANTS
  q1 = q1
  q2 = q2
  q3 = q3
  e1 = e1
  p1 = p1
  p2 = p2
  Samples = {q1, q2, q3}
  Routable = {q1, q2}
  Events = {e1}
  Requests = {r1, r2}
  Batches <- MCBatches
  MaxSyncFaults = 1
  Trips = {t1}
  FacilityOf <- MCFacilityOf
  Points = {1, 2}
  Exact = {1}
  Pages = {p1, p2}
  Conns = {c1, c2}
  Sleepers = {p2}
  Buffer = 1
  MaxFaults = 1
  ScopesOf <- MCScopesOf
INVARIANTS TypesOK KeptUntilStored StoredOnce MarkersAreTrue
PROPERTIES UploadsArrive PublishedIsShown DeadSocketsAreRemoved
CHECK_DEADLOCK FALSE
