CONSTANTS
  Documents = {1}
  OldDrafts = {t1}
  NoTx = NoTx
  Consumers = {c1, c2}
  Sweepers = {s1}
  SweepBatch = 1
  MaxFaults = 3
SPECIFICATION Spec
CHECK_DEADLOCK FALSE
INVARIANTS
  TypeOK
  BookedOnce
  CompletedIsBooked
PROPERTIES
  OnlyDraftsGrow
  OutcomeIsFinal
  PendingIsTakenUp
