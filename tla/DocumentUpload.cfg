CONSTANTS
  Keys = {k1, k2}
  Contents = {c1, c2}
  Documents = {d1, d2}
  Requests = {r1, r2, r3}
  None = None
SYMMETRY Symmetry
SPECIFICATION Spec
CHECK_DEADLOCK FALSE
INVARIANTS
  TypeOK
  StoredIsDescribed
PROPERTIES
  EvidenceIsFrozen
  ClosedProjectTakesNothing
  UploadsOnce
