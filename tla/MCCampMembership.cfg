CONSTANTS
  ann = ann
  bea = bea
  cal = cal
  i1 = i1
  i2 = i2
  r1 = r1
  r2 = r2
  Burners = {ann, bea, cal}
  Founder = ann
  Nobody = Nobody
  Invites = {i1, i2}
  RosterRequests = {r1, r2}
  MaxAttempts = 2
SPECIFICATION RosterSpec
INVARIANTS
  RefCodesIdentify
PROPERTIES
  InviteSpentOnce
  ClaimYieldsRole
  TransferLeavesOneLead
  LeadOrStale
SYMMETRY Symmetry
CHECK_DEADLOCK FALSE
