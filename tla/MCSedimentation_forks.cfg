SPECIFICATION Spec
CONSTANTS
  Articles = {a1, f1}
  Users = {u1, u2}
  NoArticle = none
  Scores = {4}
  NewDays = 0
  EditDays = 0
  ExtendDays = 1
  MaxTotalDays = 0
  MinApprovals = 1
  ApprovalScore = 3
  FoldScore = 1
  MaxPool = 1
  MaxReviews = 2
  MaxEdits = 1
SYMMETRY Symmetry
CONSTRAINT OneOrigin
INVARIANTS
  NoOrphan
  CommittersAreAuthors
  ProposalsAreForks
PROPERTIES
  ChangeReopensReview
