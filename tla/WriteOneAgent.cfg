SPECIFICATION Spec
CONSTANTS
  Agents = {a1}
  Workstreams = {a1}
  WsOf <- Private
  k1 = k1
  mangled = mangled
  k2 = k2
  Chunks = {k1, k2}
  Versions = {0, 1}
  Texts <- AllTexts
  Offsets = {"o1", "o2"}
  Spans = {"filed", "reversed"}
  SliceOf <- Sliced
  Claims = {"c1", "c2"}
  Support <- Supported
  Handles = {1, 2}
  Echoes = {k1, mangled}
  Surfaces = {"2025"}
  Canonical <- Normalized
  Citations <- MaybeDate
  Notes = {"c2"}
  FragmentFK = FALSE
  RecordIds = {r1}
  Faults = {"edit", "restart", "abort"}
  None = None
  Gone = Gone
VIEW Behaviour
INVARIANTS
  FactsAreSupported
  AttestationsAreCoherent
  HeldHandlesResolve
CHECK_DEADLOCK FALSE
