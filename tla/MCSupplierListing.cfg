CONSTANTS
  a1 = a1
  a2 = a2
  n1 = n1
  n2 = n2
  s1 = s1
  s2 = s2
  p1 = p1
  p2 = p2
  c1 = c1
  k1 = k1
  Nobody = Nobody
  Accounts = {a1, a2}
  Names = {n1, n2}
  Listings = {s1, s2}
  Portal = {p1, p2}
  Consoles = {c1}
  Camps = {k1}
SPECIFICATION Spec
PROPERTIES
  OnlyHoldersAct
  RegistersOnce
  DeleteStrandsNobody
  ErasedHoldsNothing
SYMMETRY Symmetry
CHECK_DEADLOCK FALSE
