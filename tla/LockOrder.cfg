CONSTANTS
  Completes = {c1, c2}
  Handlers = {h1}
  Deletes = {x1, x2}
  Reserves = {r1}
SPECIFICATION Spec
CHECK_DEADLOCK FALSE
INVARIANTS
  TypeOK
  CirclesAreKnown
PROPERTIES
  EveryTransactionEnds
