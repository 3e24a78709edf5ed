SPECIFICATION Spec
CONSTANTS
  Callers = {c1, c2}
  RecordIds = {r1, r2}
  Surfaces <- Forms
  Canonical <- Normalized
  NoEntity = NoEntity
INVARIANTS
  TypeOK
  SurfacesAreRemembered
  ResolvedEntitiesStay
