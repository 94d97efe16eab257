--------------------------- MODULE MCSedimentation ---------------------------
(* Small instances of Sedimentation for TLC.                               *)
EXTENDS Sedimentation, TLC

(* Accounts are interchangeable, and so are articles: no definition names   *)
(* one.                                                                    *)
Symmetry == Permutations(Users) \cup Permutations(Articles)

(* The run with forks looks at one original article and its fork with one   *)
(* open proposal and two reviews in all, and leaves consents to the run     *)
(* with one article: states beyond these are checked and not continued.     *)
OneOrigin ==
  /\ Cardinality(proposals) <= 1
  /\ MapThenSumSet(LAMBDA a : Cardinality(reviews[a]), Articles) <= 2
  /\ Cardinality({a \in Articles : Exists(a) /\ row[a].forkedFrom = NoArticle}) <= 1
  /\ \A a \in Articles : consents[a] = {}
=============================================================================
