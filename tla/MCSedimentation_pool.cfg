SPECIFICATION FairSpec
CONSTANTS
  Articles = {a1}
  Users = {u1, u2}
  NoArticle = none
  Scores = {0, 4}
  NewDays = 2
  EditDays = 1
  ExtendDays = 1
  MaxTotalDays = 2
  MinApprovals = 2
  ApprovalScore = 3
  FoldScore = 1
  MaxPool = 1
  MaxReviews = 3
  MaxEdits = 1
INVARIANTS
  TypeOK
  PublishedWasReviewed
  TimerBounded
PROPERTIES
  KeepsPromise
  PoolDrains
