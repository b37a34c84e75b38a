SPECIFICATION MCSpec
CONSTANTS
  ann = ann
  ben = ben
  licence = licence
  keur1 = keur1
  keur2 = keur2
  trip = trip
  Other = Other
  Null = Null
  None = None
  Recipients = {ann, ben}
  Notices = {licence, keur1, keur2}
  Work <- WorkOf
  Window = 2
  Sender = "bot"
  MaxOthers = 1
  Admins = {ann}
  Roles = {"REFINERY_ADMIN"}
  Places = {}
  Seeds <- ByHand
  Readings = {r1, r2}
  Rounds = {p1, p2}
  Linked = {ann}
  Trips = {trip}
  Users = {ann, ben}
  ManagersOf <- MCManagers
  Passes = {p1, p2}
  MaxDrifts = 2
  MaxOverlaps = 1
  MaxFaults = 1
INVARIANTS TypesOK RepeatsAreFarApart NoticesAreOfEscalations DeviationsStayFew AlertedMeansSent
PROPERTIES EveryoneTried OverdueIsEscalated SustainedIsAlerted
