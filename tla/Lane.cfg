SPECIFICATION LaneFairSpec
CONSTANTS
  Candidates <- TwoCandidates
  Followed = "followed"
  Default = "other"
  MaxLoops = 2
  Slice <- TwoChunks
  TextOf <- SomeTexts
  Replies <- SomeReplies
  Blanks = {" "}
  NotFound = NotFound
  MaxRuns = 2
  MaxProd = 1
  Granted = TRUE
  Nothing = Nothing
VIEW Behaviour
INVARIANTS
  BreachIsReported
  ScorecardAddsUp
  RowsAreByTheCandidate
PROPERTIES
  NeverDroppedUnscored
  RestoreIsVerified
  LoopEnds
CHECK_DEADLOCK FALSE
