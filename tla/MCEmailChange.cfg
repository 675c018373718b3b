CONSTANTS
  u1 = u1
  u2 = u2
  e1 = e1
  e2 = e2
  e3 = e3
  t1 = t1
  t2 = t2
  Users = {u1, u2}
  Emails = {e1, e2, e3}
  First <- MCFirst
  EmailTabs = {t1, t2}
  MaxChanges = 3
SPECIFICATION EmailSpec
PROPERTIES
  EveryMoveIsRecorded
  StoppedIsFinal
SYMMETRY Symmetry
CHECK_DEADLOCK FALSE
