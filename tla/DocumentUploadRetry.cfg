CONSTANTS
  Keys = {k1}
  Contents = {c1}
  Documents = {d1}
  Requests = {r1}
  None = None
SYMMETRY Symmetry
SPECIFICATION Spec
CHECK_DEADLOCK FALSE
INVARIANTS
  CompletedRetryIsAnswered
