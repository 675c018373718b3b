CONSTANTS
  e1 = e1
  e2 = e2
  v1 = v1
  sketch = sketch
  plan = plan
  rough = rough
  full = full
  why = why
  Edits = {e1, e2}
  Reviewers = {v1}
  Answers = {sketch, plan}
  WizardAnswers = {rough, full}
  SixAnswered = {full}
  Reasons = {why}
  NoReason = NoReason
  NoAnswers = NoAnswers
  MaxReviews = 3
SPECIFICATION ProjectSpec
PROPERTIES
  OnlyTheWizardDivides
  EditsRespectStateMachine
SYMMETRY Symmetry
CHECK_DEADLOCK FALSE
