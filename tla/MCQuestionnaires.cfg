CONSTANTS
  ann = ann
  s1 = s1
  s2 = s2
  p1 = p1
  yes = yes
  no = no
  NoAnswer = NoAnswer
  BadAnswer = BadAnswer
  Options = {yes, no}
  Users = {ann}
  Staff = {ann}
  Activations = {s1, s2}
  Authors = {p1}
SPECIFICATION FairSpec
INVARIANTS
  CompletedIsAnswered
  RecallIsComplete
PROPERTIES
  GateOpens
CHECK_DEADLOCK FALSE
