CONSTANTS
  Projects = {p1}
  Default = Default
  Approvers = {u1, u2, u3}
  RuleIds = {r1, r2, r3}
  MaxStep = 2
  MaxDeletes = 1
SYMMETRY Symmetry
SPECIFICATION Spec
CHECK_DEADLOCK FALSE
INVARIANTS
  TypeOK
  OneRulePerApprover
  OrphanRulesMeanRace
PROPERTIES
  ReassignIsWhole
  SubmitsFindApprovers
