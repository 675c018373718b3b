CONSTANTS
  ann = ann
  bob = bob
  captain = captain
  baseline = baseline
  baron = baron
  c1 = c1
  c2 = c2
  p1 = p1
  p2 = p2
  CampLeads = {ann}
  CampMembers = {bob}
  Captain = captain
  Baseline = baseline
  DefaultRoles = {}
  OfficerRoles = {baron}
  CustomRoles = {c1, c2}
  PermissionSets <- Choices
  Requests = {p1, p2}
  Cap = 4
  MaxEdition = 2
SPECIFICATION Spec
INVARIANTS
  CapOverrunIsBounded
PROPERTIES
  DisclosedByOneself
  ElevationIsSanctioned
SYMMETRY Symmetry
CHECK_DEADLOCK FALSE
