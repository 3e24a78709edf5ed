SPECIFICATION Spec
CONSTANTS
  Callers = {c1, c2}
  Names = {1, 2, 3}
  Records = {1, 2, 3}
  RecordOf <- OneSpelling
  MaxCalls = 3
  Aborts = FALSE
  None = None
INVARIANTS
  LinksLeadToTheirEvent
CHECK_DEADLOCK FALSE
