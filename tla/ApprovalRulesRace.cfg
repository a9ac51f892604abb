CONSTANTS
  Projects = {p1}
  Default = Default
  Approvers = {u1, u2}
  RuleIds = {r1, r2}
  MaxStep = 1
  MaxDeletes = 2
SYMMETRY Symmetry
SPECIFICATION Spec
CHECK_DEADLOCK FALSE
INVARIANTS
  DefaultRulesSurvive
