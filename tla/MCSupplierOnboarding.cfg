CONSTANTS
  t1 = t1
  t2 = t2
  c1 = c1
  c2 = c2
  d1 = d1
  d2 = d2
  StepKeys = {"registration_form", "inventory_submitted", "deposit_paid"}
  Docs = {d1, d2}
  Tabs = {t1, t2}
  Consoles = {c1, c2}
  Nobody = Nobody
  MaxRequests = 4
SPECIFICATION Spec
PROPERTIES
  SupplierNeverConfirms
  OneWayToComplete
  SignedIsCompleted
  AuditedOrStale
SYMMETRY Symmetry
CHECK_DEADLOCK FALSE
