CONSTANTS
  b1 = b1
  t1 = t1
  t2 = t2
  all = all
  some = some
  p1 = p1
  p2 = p2
  ann = ann
  c1 = c1
  c2 = c2
  r1 = r1
  r2 = r2
  Bulletins = {b1}
  Titles = {t1, t2}
  Audiences = {all, some}
  Editors = {p1, p2}
  People = {ann}
  Camps = {c1, c2}
  Runs = {r1, r2}
  Milestones = {1, 2}
  MaxDays = 2
SPECIFICATION BroadcastsSpec
INVARIANTS
  PublishedIsSentOnce
  RemindedOnce
SYMMETRY Symmetry
CHECK_DEADLOCK FALSE
