SPECIFICATION SubmittedSpec
CONSTANTS
  d1 = d1 d2 = d2
  depot = depot depotB = depotB station = station
  f1 = f1 f2 = f2 g1 = g1 h1 = h1 s1 = s1
  i1 = i1 i2 = i2 j1 = j1 j2 = j2 k1 = k1 k2 = k2
  o1 = o1 o2 = o2 p1 = p1 p2 = p2 n1 = n1 n2 = n2
  c1 = c1 c2 = c2 r1 = r1
  Null = Null
  TankPool <- TankPool_
  Capacity <- Capacity_
  StartVolume <- StartVolume_
  LinePool <- LinePool_
  LineOrder <- LineOrder_
  LineRole <- LineRole_
  LineVolume <- LineVolume_
  CompartmentTrip <- CompartmentTrip_
  ReadingTrip <- ReadingTrip_
  DO = {d1, d2}
  Tank = {f1, g1}
  Pool = {depot, depotB}
  Line = {i1, i2, j1, j2}
  Compartment = {}
  Reading = {}
  Uuid = {}
  Tx = {x1, x2}
  Destination <- Destination_
  PhotoBatch <- AllPhotos
PROPERTY EveryRequestEnds
