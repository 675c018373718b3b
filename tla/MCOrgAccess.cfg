CONSTANTS
  ann = ann
  p1 = p1
  p2 = p2
  clerk = clerk
  safety = safety
  supply = supply
  screen = screen
  papers = papers
  Null = Null
  Departments = {safety, supply}
  Domains = {screen, papers}
  Accounts = {ann}
  GodEmails = {ann}
  CustomRoles = {clerk}
  Processes = {p1, p2}
  MaxRows = 3
SPECIFICATION Spec
PROPERTIES
  NothingReattaches
  GodUntouched
  PanelDoesWhatItSays
SYMMETRY Symmetry
CHECK_DEADLOCK FALSE
