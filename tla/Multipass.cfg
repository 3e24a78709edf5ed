SPECIFICATION FairSpec
CONSTANTS
  k1 = k1
  k2 = k2
  Chunks = {k1, k2}
  Slices <- SomeSlices
  Ranges <- SomeRanges
  Confidences <- Reported
  NaN = NaN
  Scale = 1
  Epsilon = 1
  MaxAttempts = 4
  Reasons = {"bounced"}
  Nothing = Nothing
  MaxRuns = 2
INVARIANTS
  AttemptsBounded
  BestIsNearlyBest
  OneRecordPerChunk
  GateAgreesWithSchema
PROPERTIES
  NeverDroppedUnscored
  RunsComplete
CHECK_DEADLOCK FALSE

