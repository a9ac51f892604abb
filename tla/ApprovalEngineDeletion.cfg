CONSTANTS
  Transactions = {t1}
  Approvers = {u1}
  Requests = {r1}
  MaxStep = 1
  MaxDocuments = 1
  NoOne = NoOne
SYMMETRY Symmetry
SPECIFICATION Spec
CHECK_DEADLOCK FALSE
INVARIANTS
  DeletionAnnounced
