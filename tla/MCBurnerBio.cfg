CONSTANTS
  ann = ann
  t1 = t1
  t2 = t2
  nuts = nuts
  bees = bees
  k1 = k1
  k2 = k2
  NoKey = NoKey
  Blank = Blank
  Burners = {ann}
  Tabs = {t1, t2}
  Editions = {2027, 2028}
  Notes = {nuts, bees}
  Keys = {k1, k2}
SPECIFICATION Spec
INVARIANTS
  GateAgreesWithBio
PROPERTIES
  ClearedIsDeliberate
  ErasedStaysErased
SYMMETRY Symmetry
CHECK_DEADLOCK FALSE
