CONSTANTS
  Events = {1, 2, 3}
  Workers = {w1, w2}
  BatchSize = 2
  MaxFaults = 2
SPECIFICATION Spec
CHECK_DEADLOCK FALSE
INVARIANTS
  TypeOK
  PublishedWasDelivered
  DuplicatesNeedFaults
PROPERTIES
  DeliversAtLeastOnce
