CONSTANTS
  r1 = r1
  r2 = r2
  v1 = v1
  v2 = v2
  old = old
  why = why
  CampRequests = {r1, r2}
  Reviewers = {v1, v2}
  Sections = {lnt}
  CarriedSections = {lnt}
  Texts = {old}
  LastYear = old
  Blank = Blank
  Reasons = {why}
  NoReason = NoReason
  MaxDecisions = 2
  lnt = lnt
SPECIFICATION Spec
INVARIANTS
  DecisionIsAudited
  NotificationsAreCommitted
PROPERTIES
  CarriedOnce
  AnswersLockedOrStale
  ImplementsLifecycle
SYMMETRY Symmetry
CHECK_DEADLOCK FALSE
