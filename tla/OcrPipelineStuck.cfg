CONSTANTS
  Documents = {1}
  OldDrafts = {t1}
  NoTx = NoTx
  Consumers = {c1}
  Sweepers = {s1}
  SweepBatch = 1
  MaxFaults = 1
SPECIFICATION Spec
CHECK_DEADLOCK FALSE
PROPERTIES
  ClaimIsFinished
