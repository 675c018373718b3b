CONSTANTS
  ann = ann
  bea = bea
  cal = cal
  camp = camp
  t1 = t1
  t2 = t2
  s1 = s1
  s2 = s2
  Accounts = {ann, bea}
  Camps = {camp}
  GodEmails = {ann, bea}
  FirstLead = ann
  DeletionTabs = {t1, t2}
  Sweeps = {s1}
  Limit = 2
  MaxRequests = 2
SPECIFICATION FairSpec
INVARIANTS
  AlwaysALiveGod
  TrailMatchesRequests
PROPERTIES
  ErasureIsDue
  DueIsErased
CHECK_DEADLOCK FALSE
