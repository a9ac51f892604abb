CONSTANTS
  Projects = {p1}
  Users = {u1}
  Admin = Admin
  Custom = {r1}
  Requests = {q1, q2}
  MaxLives = 3
  MaxVersion = 3
  MaxEra = 2
  None = None
SYMMETRY Symmetry
SPECIFICATION Spec
INVARIANTS
  TypeOK
  DeadRoleMeansRace
  StaleAccessMeansRace
PROPERTIES
  EditsAreInformed
