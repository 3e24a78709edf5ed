SPECIFICATION Spec
CONSTANTS
  Callers = {c1}
  Names = {1, 2, 3, 4}
  Records = {1, 2, 4}
  RecordOf <- TwoSpellings
  MaxCalls = 4
  Aborts = TRUE
  None = None
INVARIANTS
  NoFalseMerge
  NoInsertClash
  LinksLeadToTheirEvent
PROPERTIES
  AbsorbedRowsAreFinal
CHECK_DEADLOCK FALSE
