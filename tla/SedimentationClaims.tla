------------------------- MODULE SedimentationClaims -------------------------
(***************************************************************************)
(* What comments and documents of the repository say of the sedimentation  *)
(* pool and the code does not keep.  TLC shows for each claim a behaviour   *)
(* of Sedimentation that breaks it.                                        *)
(***************************************************************************)
EXTENDS MCSedimentation

(* "hard cap on total accumulated sink days (initial 7 + extensions)": the  *)
(* days an article spends in the pool stay within the cap.  The code counts *)
(* extensions only, so the initial days come on top of the cap.             *)
TotalSinkCapped ==
  \A a \in Articles : row[a].status = "sedimentation" => row[a].days <= MaxTotalDays

(* "any post-publish commit triggers re-review": whenever an article that   *)
(* was published with one content is published with a later one, somebody   *)
(* outside approved a later one.  The approvals of the earlier content      *)
(* count again, so nobody needs to look at the new one.                     *)
ChangeIsReviewedAgain ==
  \A a \in Articles, n \in 0..(MaxEdits - 1) :
    [](row[a].status = "published" /\ repo[a].edits = n =>
       [](row[a].status = "published" /\ repo[a].edits > n =>
          \E r \in Approving(reviews[a], authors[a]) : r.edits > n))

(* "minimum reviewers who must approve": as many people as the parameter    *)
(* says.  The code counts reviews, and one reviewer may submit several.     *)
DistinctApprovers ==
  \A a \in Articles : row[a].status = "published" =>
    Cardinality({r.reviewer : r \in Approving(reviews[a], authors[a])}) >= MinApprovals

(* "Forker edits and publishes their fork": a draft has no status marker    *)
(* in git, so that the repair which publishing starts with leaves it one.   *)
(* A clone brings the marker of its origin along.                           *)
DraftIsPublishable ==
  \A a \in Articles : row[a].status = "draft" => repo[a].marker = "none"
=============================================================================
