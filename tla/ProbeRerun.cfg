SPECIFICATION Spec
CONSTANTS
  Slice <- TwoChunks
  TextOf <- SomeTexts
  Replies <- SomeReplies
  Blanks = {" "}
  NotFound = NotFound
  MaxRuns = 2
  MaxProd = 0
  Granted = FALSE
  Nothing = Nothing
INVARIANTS
  ScorecardIsOfThisRun
CHECK_DEADLOCK FALSE
