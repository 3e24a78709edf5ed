SPECIFICATION FairSpec
CONSTANTS
  Callers = {c1}
  Names = {1, 2, 3, 4}
  Records = {1, 2, 3, 4}
  RecordOf <- OneSpelling
  MaxCalls = 4
  Aborts = FALSE
  None = None
INVARIANTS
  TypeOK
  OneLiveEventPerRecord
PROPERTIES
  ImplementsEventClusters
  AssertionsTakeEffect
CHECK_DEADLOCK FALSE
