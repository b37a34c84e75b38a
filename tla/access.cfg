SPECIFICATION MCSpec
SYMMETRY Interchangeable
CONSTANTS
  j1 = j1
  j2 = j2
  k1 = k1
  k2 = k2
  north = north
  south = south
  f1 = f1
  f2 = f2
  d1 = d1
  d2 = d2
  st = st
  v1 = v1
  o1 = o1
  Users = {u1}
  Grants = {g1}
  None = None
  Jobs = {j1, j2}
  Readers = {p1}
  Ids = {s1}
  Tokens = {t1, t2, t3}
  Temporary = {k1, k2}
  Chosen = {w1}
  TTL = 2
  Span = 1
  MaxTime = 4
  MaxWrites = 1
  Requests = {r1, r2}
  Admins = {a1}
  CacheTTL = 1
  FillSpan = 1
  CacheTime = 2
  CacheWrites = 2
  Facilities = {f1, f2}
  Stations = {st}
  Depots = {d1, d2}
  Vehicles = {v1}
  Orders = {o1}
  RefineryOf <- MCRefineryOf
  DepotFacility <- MCDepotFacility
  VehicleOf <- MCVehicleOf
  Offered <- NineGrants
  MaxGrants = 3
INVARIANTS TypesOK TemporaryDemandsChange OneTokenPerLogin ShownOpens ApiAgrees
PROPERTIES AnswersAreFresh SessionsAreFresh GrantsOnlyOpenItems
CHECK_DEADLOCK FALSE
