SPECIFICATION Spec
CONSTANTS
  Callers = {c1, c2}
  Names = {1, 2, 4}
  Records = {1, 2, 4}
  RecordOf <- Spelled
  Mangled = {99}
  MaxCalls = 3
  k1 = k1
  k2 = k2
  Chunks = {k1, k2}
  ChunkOf <- Sources
  Versions = {0, 1}
  Texts <- AllTexts
  Offsets = {"o1"}
  Spans = {"approval", "reversal", "other"}
  SliceOf <- Sliced
  Relations = {"same_event", "precedes"}
  Relates <- Stated
  Faults = {"abort", "edit"}
  Budget = 3
  None = None
  Gone = Gone
VIEW Behaviour
CONSTRAINT Scope
SYMMETRY Twins
INVARIANTS
  FactLinksAreSupported
  LinkAttestationsAreCoherent
  EventsAreBackedByLinks
CHECK_DEADLOCK FALSE
