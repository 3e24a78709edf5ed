SPECIFICATION FairSpec
CONSTANTS
  Callers = {c1, c2}
  Posts = {1, 2, 3}
  Workers = 1
  Deadline = 2
  ReadTimeout = 1
  Verdicts = {"grounded", "ungrounded"}
  None = None
INVARIANTS
  VerdictsAreEarned
  AnsweredInTime
PROPERTIES
  AbandonedPostsAreNotSent
  EveryCallIsAnswered
  WorkersRetire
