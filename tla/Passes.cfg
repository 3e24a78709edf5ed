SPECIFICATION Spec
CONSTANTS
  Chunks <- TwoChunks
  TextOf <- SomeTexts
  NormalType <- Types
  NormalKeyword <- Words
  Trivial = {"the"}
  Answers <- SomeAnswers
  SampleTexts <- TextsUpTo5
  SampleQuotes <- QuotesUpTo3
  Raised = Raised
  Blanks <- White
  NotFound = NotFound
INVARIANTS
  QuotesAreLocated
  ReviewTellsTheRun
CHECK_DEADLOCK FALSE
