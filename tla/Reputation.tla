------------------------------ MODULE Reputation -------------------------------
(***************************************************************************)
(* Scores of articles and reputations of users, which depend on each other: *)
(* a review weighs by the reputation of its reviewer, and a reputation is   *)
(* drawn from the scores of the articles one has written.  All numbers are  *)
(* hundredths, as they are stored.  One dimension stands for the five of an *)
(* article and the four of a user: each is computed by itself, except that  *)
(* the weight of a reviewer takes their mean.                              *)
(*                                                                         *)
(* round(x, 2) of a floating point number lies between two hundredths only  *)
(* by chance, so either neighbour of a tie may come out.                   *)
(***************************************************************************)
EXTENDS Integers, FiniteSets, FiniteSetsExt

CONSTANTS
  Users,
  Articles,
  Authors,    \* [Articles -> SUBSET Users]
  Scores,     \* scores that a review may give, of 100..500
  MaxReviews  \* bound of the model: reviews of an article

(* Assumed of the constants where the module is instantiated.               *)
ReputationParams ==
  /\ IsFiniteSet(Users) /\ IsFiniteSet(Articles)
  /\ Authors \in [Articles -> SUBSET Users]
  /\ Scores \subseteq 100..500
  /\ MaxReviews \in Nat

VARIABLES
  status,   \* [Articles -> "draft", "sedimentation", "published"]
  reviews,  \* [Articles -> [Review -> Nat]]: how many such rows
  score,    \* [Articles -> hundredths or Unscored]
  rep       \* [Users -> hundredths or Unscored]: Unscored is an empty dict

vars == <<status, reviews, score, rep>>

Unscored == -1
Review == [by : Users, scope : {"sedimentation", "published"}, value : Scores]
NoReviews == [r \in Review |-> 0]

Given(a) == {r \in Review : reviews[a][r] > 0}
Number(rows) == MapThenSumSet(LAMBDA r : rows[r], Review)

Nearest(n, d) == {q \in {n \div d, (n \div d) + 1} : 2 * (IF q * d > n THEN q * d - n ELSE n - q * d) <= d}

-----------------------------------------------------------------------------
(* get_reviewer_weight: 1 + 0.2 * (average - 3) / 2, in thousandths.       *)
ReviewerWeight(u) == IF rep[u] = Unscored THEN 1000 ELSE 700 + rep[u]

(* self_review_weight, community_weight.                                   *)
Share(a, u) == IF u \in Authors[a] THEN 15 ELSE 85

(* published_scope_weight is half of sedimentation_scope_weight.           *)
ScopeWeight(scope) == IF scope = "sedimentation" THEN 2 ELSE 1

WeightOf(a, r) == Share(a, r.by) * ScopeWeight(r.scope) * ReviewerWeight(r.by)

(* Mutant: the sum is divided by the number of the reviews and not by what  *)
(* they weigh.                                                             *)
TotalWeightOfNumber(a, rows) == 100000 * Number(rows)

TotalWeight(a, rows) == MapThenSumSet(LAMBDA r : rows[r] * WeightOf(a, r), Review)

(* aggregate_review_scores.                                                *)
ScoresOf(a, rows) ==
  IF rows = NoReviews THEN {score[a]}
  ELSE Nearest(MapThenSumSet(LAMBDA r : rows[r] * r.value * WeightOf(a, r), Review),
               TotalWeight(a, rows))

-----------------------------------------------------------------------------
StatusWeight(st) == CASE st = "published" -> 10 [] st = "sedimentation" -> 7 [] OTHER -> 3

(* The articles that u has written and that have a score.                  *)
Written(u, sc) == {a \in Articles : u \in Authors[a] /\ sc[a] # Unscored}

(* compute_reputation.                                                     *)
Raw(u, st, sc) ==
  LET mine == Written(u, sc)
  IN  IF mine = {} THEN {0}
      ELSE Nearest(MapThenSumSet(LAMBDA a : sc[a] * StatusWeight(st[a]), mine),
                   MapThenSumSet(LAMBDA a : StatusWeight(st[a]), mine))

(* Mutant: the new is added to the old.                                    *)
BlendAdded(old, new) == Nearest(100 * old + 30 * new, 100)

(* blend_reputation: article_to_author_weight is 0.3.                      *)
Blend(old, new) == Nearest(70 * old + 30 * new, 100)

Old(u) == IF rep[u] = Unscored THEN 0 ELSE rep[u]

(* reconcile_reputation of the users us; each depends on its own only.     *)
Reputations(us, st, sc) ==
  {f \in [Users -> UNION {Blend(Old(u), q) : u \in us, q \in UNION {Raw(v, st, sc) : v \in us}}
                    \cup {rep[u] : u \in Users}] :
     \A u \in Users : f[u] \in IF u \in us THEN UNION {Blend(Old(u), q) : q \in Raw(u, st, sc)}
                               ELSE {rep[u]}}

-----------------------------------------------------------------------------
Init ==
  /\ status = [a \in Articles |-> "draft"]
  /\ reviews = [a \in Articles |-> NoReviews]
  /\ score = [a \in Articles |-> Unscored]
  /\ rep = [u \in Users |-> Unscored]

(* A review is a row of its own: each has its commit.                      *)
Reviewed(a, u, scope, v) ==
  [reviews[a] EXCEPT ![[by |-> u, scope |-> scope, value |-> v]] = @ + 1]

(* publish_article: the author's own review, and no reputation.            *)
Publish(a, u, v) ==
  LET rows == Reviewed(a, u, "sedimentation", v) IN
  /\ status[a] = "draft"
  /\ u \in Authors[a]
  /\ Number(reviews[a]) < MaxReviews
  /\ status' = [status EXCEPT ![a] = "sedimentation"]
  /\ reviews' = [reviews EXCEPT ![a] = rows]
  /\ \E q \in ScoresOf(a, rows) : score' = [score EXCEPT ![a] = q]
  /\ UNCHANGED rep

(* submit_review, by anybody.                                              *)
Submit(a, u, v) ==
  LET rows == Reviewed(a, u, status[a], v) IN
  /\ status[a] # "draft"
  /\ Number(reviews[a]) < MaxReviews
  /\ reviews' = [reviews EXCEPT ![a] = rows]
  /\ \E q \in ScoresOf(a, rows) :
       LET sc == [score EXCEPT ![a] = q] IN
       /\ score' = sc
       /\ rep' \in Reputations(Authors[a], status, sc)
  /\ UNCHANGED status

(* The scan: published with a new score, extended or rejected, and then the *)
(* reputations.                                                            *)
Scan(a) ==
  /\ status[a] = "sedimentation"
  /\ \E st \in {"published", "sedimentation", "draft"},
        q \in ScoresOf(a, reviews[a]) \cup {score[a]} :
       /\ st # "published" => q = score[a]
       /\ st = "published" => q \in ScoresOf(a, reviews[a])
       /\ status' = [status EXCEPT ![a] = st]
       /\ score' = [score EXCEPT ![a] = q]
       /\ rep' \in Reputations(Authors[a], status', score')
  /\ UNCHANGED reviews

(* A rollback, or a pull that reconciles: the score is computed anew with   *)
(* the reputations of the day.                                             *)
Rescore(a) ==
  /\ \E q \in ScoresOf(a, reviews[a]) : score' = [score EXCEPT ![a] = q]
  /\ UNCHANGED <<status, reviews, rep>>

Next ==
  \E a \in Articles :
    \/ \E u \in Users, v \in Scores : Publish(a, u, v) \/ Submit(a, u, v)
    \/ Scan(a)
    \/ Rescore(a)

Spec == Init /\ [][Next]_vars

-----------------------------------------------------------------------------
TypeOK ==
  /\ status \in [Articles -> {"draft", "sedimentation", "published"}]
  /\ reviews \in [Articles -> [Review -> 0..MaxReviews]]
  /\ score \in [Articles -> 0..500 \cup {Unscored}]
  /\ rep \in [Users -> 0..500 \cup {Unscored}]

Values(a) == {r.value : r \in Given(a)}

(* A score lies between the lowest and the highest of the reviews, however  *)
(* the reviewers weigh and whatever is rounded, and a reputation is never   *)
(* above the best review of an article one has written                     *)
(* (aggregate_review_scores, compute_reputation, blend_reputation).        *)
NumbersAreEarned ==
  /\ \A a \in Articles : score[a] # Unscored =>
       /\ \E v \in Values(a) : v <= score[a]
       /\ \E v \in Values(a) : v >= score[a]
  /\ \A u \in Users : rep[u] > 0 =>
       \E a \in Articles : u \in Authors[a] /\ \E v \in Values(a) : v >= rep[u]
=============================================================================
