CONSTANTS
  Transactions = {t1}
  Approvers = {u1, u2, u3, u4}
  Requests = {r1, r2, r3}
  MaxStep = 3
  MaxDocuments = 2
  NoOne = NoOne
SYMMETRY Symmetry
SPECIFICATION Spec
CHECK_DEADLOCK FALSE
INVARIANTS
  TypeOK
  StepOrder
  OutcomeMatchesDecisions
  AtMostOneDecision
  PendingIsNotStuck
  RejectionClosesChain
  SubmittedIsBacked
  StaleReadIsHarmless
PROPERTIES
  SettledIsFrozen
  ImplementsChain
