SPECIFICATION Spec
CONSTANTS
  Agents = {a1, a2}
  Workstreams = {"default"}
  WsOf <- Shared
  k1 = k1
  k2 = k2
  mangled = mangled
  Chunks = {k1, k2}
  Versions = {0}
  Texts <- AllTexts
  Offsets = {"o1"}
  Spans = {"filed"}
  SliceOf <- Sliced
  Claims = {"c1"}
  Support <- Supported
  Handles = {1}
  Echoes = {}
  Surfaces = {"B. Smith", " B. Smith", "2025"}
  Canonical <- Normalized
  Citations <- ActorAndDate
  Notes = {}
  FragmentFK = TRUE
  RecordIds = {r1, r2}
  Faults = {"abort", "edit"}
  None = None
  Gone = Gone
SYMMETRY Symmetry
VIEW Registry
INVARIANTS
  RefsPointAtEntities
  FirstSeenRecordsExist
  PointsHitTheFragmentMeant
CHECK_DEADLOCK FALSE
