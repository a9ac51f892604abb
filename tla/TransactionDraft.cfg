CONSTANTS
  Clients = {c1, c2}
  Receipts = {d1, d2}
  Texts = {t1, t2}
  MaxAmount = 2
  MaxItems = 2
  MaxVersion = 9
  None = None
SYMMETRY Symmetry
SPECIFICATION Spec
CHECK_DEADLOCK FALSE
INVARIANTS
  TypeOK
PROPERTIES
  EditIsInformed
  OverflowIsParked
