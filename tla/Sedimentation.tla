---------------------------- MODULE Sedimentation ----------------------------
(***************************************************************************)
(* The life of an article on one device: a draft enters the sedimentation  *)
(* pool, is reviewed, and a periodic scan publishes it, extends its timer  *)
(* or rejects it.  Edits, rollbacks and accepted merges send published     *)
(* articles back to the pool; forks start new drafts.                      *)
(*                                                                         *)
(* Every command runs as one database transaction, so an action is a whole *)
(* command.  Commands that raise change nothing and are stuttering steps.  *)
(* Crashes between the git commit and the database commit, and commands    *)
(* of several processes that interleave, are outside this module.          *)
(***************************************************************************)
EXTENDS Integers, FiniteSets, FiniteSetsExt

CONSTANTS
  Articles,       \* ids that uuid4 hands out; an id is never reused
  Users,          \* registered accounts
  NoArticle,      \* forked_from of an article that is no fork
  Scores,         \* average scores a review can have (0..5 in the code)
  NewDays,        \* params.sink.new_article_default_days
  EditDays,       \* params.sink.edit_article_default_days
  ExtendDays,     \* params.sink.review_deficit_extend_days
  MaxTotalDays,   \* params.sink.max_total_sink_days
  MinApprovals,   \* params.sink.min_approvals
  ApprovalScore,  \* params.sink.approval_score_threshold
  FoldScore,      \* params.reputation.fold_score_threshold
  MaxPool,        \* params.sink.max_sedimentation_per_author
  MaxReviews,     \* bound of the model: reviews of one article
  MaxEdits        \* bound of the model: content changes of one article

ASSUME SinkParams ==
  /\ NoArticle \notin Articles
  /\ Scores \subseteq 0..5
  /\ {NewDays, EditDays, ExtendDays, MaxTotalDays} \subseteq Nat
  /\ {MinApprovals, ApprovalScore, FoldScore, MaxPool} \subseteq Nat
  /\ {MaxReviews, MaxEdits} \subseteq Nat
  /\ EditDays <= NewDays

VARIABLES
  row,          \* [Articles -> Row]: the article's line in the articles table
  repo,         \* [Articles -> Repo]: what its git repository says
  reviews,      \* [Articles -> SUBSET Review]: rows of the reviews table
  authors,      \* [Articles -> SUBSET Users]: article_authors
  maintainers,  \* [Articles -> SUBSET Users]: script_maintainers
  consents,     \* [Articles -> SUBSET Users]: articles.publish_consents
  proposals,    \* open merge proposals
  noticed       \* drafts that a notification row refers to

vars == <<row, repo, reviews, authors, maintainers, consents, proposals, noticed>>

people == <<authors, maintainers, consents>>

-----------------------------------------------------------------------------
Status == {"draft", "sedimentation", "published", "rejected"}

(* Mutant: rejected articles can be changed too.                           *)
WritableRejected == Status

Writable == {"draft", "sedimentation", "published"}
Reviewable == {"sedimentation", "published"}

NotStarted == -1   \* sink_start is NULL

(* The age is the number of whole days since sink_start.  The scan compares *)
(* it with the duration and only while the article is in the pool, so it    *)
(* stops there and at MaxAge, which no duration exceeds.                    *)
MaxAge == NewDays + MaxTotalDays

Row == [status : Status \cup {"absent", "deleted"},
        age : {NotStarted} \cup Nat, days : Nat, accumulated : Nat,
        folded : BOOLEAN, forkedFrom : Articles \cup {NoArticle}]

NewRow(parent) ==
  [status |-> "draft", age |-> NotStarted, days |-> NewDays, accumulated |-> 0,
   folded |-> FALSE, forkedFrom |-> parent]

(* marker: the latest [status] commit.  edits: content commits since the    *)
(* repository was made or cloned.  merged: how many of a fork's edits its   *)
(* origin already has.  committers: authors of its content commits.         *)
Repo == [marker : Reviewable \cup {"none", "rejected"}, edits : Nat, merged : Nat,
         committers : SUBSET Users]

EmptyRepo == [marker |-> "none", edits |-> 0, merged |-> 0, committers |-> {}]

(* commit: the review commit, numbered within the article, so that every    *)
(* submission is a row of its own.  edits: the content that was reviewed.   *)
Review == [reviewer : Users, scope : Reviewable, score : Scores, edits : Nat, commit : Nat]

Proposal == [fork : Articles, target : Articles, proposer : Users]

Exists(a) == row[a].status \in Status

-----------------------------------------------------------------------------
(* Scores.  A row of one of the authors weighs 15, any other 85; a row of   *)
(* the pool counts twice a row of a published article.  Reviewers have the  *)
(* weight of a new account.                                                 *)
Weight(r, au) == (IF r.reviewer \in au THEN 15 ELSE 85)
                   * (IF r.scope = "sedimentation" THEN 2 ELSE 1)

TotalWeight(rs, au) == MapThenSumSet(LAMBDA r : Weight(r, au), rs)

TotalScore(rs, au) == MapThenSumSet(LAMBDA r : Weight(r, au) * r.score, rs)

(* The weighted average is below the threshold.                            *)
Folded(rs, au) == TotalScore(rs, au) < TotalWeight(rs, au) * FoldScore

Approving(rs, au) == {r \in rs : r.reviewer \notin au /\ r.score >= ApprovalScore}

(* Mutant: the row takes the status the article had before the command.    *)
ReviewRowEarly(a, u, scope, s) ==
  [reviewer |-> u, scope |-> row[a].status, score |-> s, edits |-> repo[a].edits,
   commit |-> Cardinality(reviews[a])]

ReviewRow(a, u, scope, s) ==
  [reviewer |-> u, scope |-> scope, score |-> s, edits |-> repo[a].edits,
   commit |-> Cardinality(reviews[a])]

-----------------------------------------------------------------------------
(* Authorization.                                                           *)
MayAct(a, u, statuses) ==
  /\ row[a].status \in statuses
  /\ u \in maintainers[a]
  /\ ~row[a].folded

AllConsented(a) ==
  Cardinality(maintainers[a]) > 1 => maintainers[a] \subseteq consents[a]

(* Mutant: off by one.                                                     *)
LeavesNobody(a, caller, u) == caller = u => Cardinality(maintainers[a]) >= 1

(* A maintainer who removes herself must leave another one behind.         *)
LeavesMaintainer(a, caller, u) == caller = u => Cardinality(maintainers[a]) > 1

(* Mutant: only the maintainers among the committers are credited.         *)
CreditedMaintainers(a, new) ==
  authors[a] \cup ((repo[a].committers \cup new) \cap maintainers[a])

(* Everyone with a content commit becomes an author, and nobody ceases to  *)
(* be one.                                                                 *)
Credited(a, new) == authors[a] \cup repo[a].committers \cup new

(* Mutant: proposals survive their fork.                                   *)
CascadedTarget(a) == {p \in proposals : p.target # a}

(* Proposals go with either of their articles.                             *)
Cascaded(a) == {p \in proposals : a \notin {p.fork, p.target}}

InPool(u) == {b \in Articles : row[b].status = "sedimentation" /\ u \in authors[b]}

-----------------------------------------------------------------------------
Init ==
  /\ row = [a \in Articles |-> [NewRow(NoArticle) EXCEPT !.status = "absent"]]
  /\ repo = [a \in Articles |-> EmptyRepo]
  /\ reviews = [a \in Articles |-> {}]
  /\ authors = [a \in Articles |-> {}]
  /\ maintainers = [a \in Articles |-> {}]
  /\ consents = [a \in Articles |-> {}]
  /\ proposals = {}
  /\ noticed = {}

Create(a, names, first) ==
  /\ row[a].status = "absent"
  /\ first \in names
  /\ row' = [row EXCEPT ![a] = NewRow(NoArticle)]
  /\ repo' = [repo EXCEPT ![a] = [EmptyRepo EXCEPT !.committers = {first}]]
  /\ authors' = [authors EXCEPT ![a] = names]
  /\ maintainers' = [maintainers EXCEPT ![a] = names]
  /\ UNCHANGED <<reviews, consents, proposals, noticed>>

(* Publishing first repairs the row from git, so a draft whose repository   *)
(* carries a status marker turns into something else and is refused.        *)
Publish(a, u, s) ==
  LET au == Credited(a, {})
      rs == reviews[a] \cup {ReviewRow(a, u, "sedimentation", s)}
  IN
  /\ MayAct(a, u, {"draft"})
  /\ AllConsented(a)
  /\ repo[a].marker = "none"
  /\ Cardinality(InPool(u)) < MaxPool
  /\ row' = [row EXCEPT ![a].status = "sedimentation", ![a].age = 0,
                        ![a].days = NewDays, ![a].folded = Folded(rs, au)]
  /\ repo' = [repo EXCEPT ![a].marker = "sedimentation"]
  /\ reviews' = [reviews EXCEPT ![a] = rs]
  /\ authors' = [authors EXCEPT ![a] = au]
  /\ consents' = [consents EXCEPT ![a] = {}]
  /\ UNCHANGED <<maintainers, proposals, noticed>>

-----------------------------------------------------------------------------
(* Content changes.                                                         *)
Committed(a, new) ==
  [repo EXCEPT ![a].edits = @ + 1, ![a].committers = @ \cup new]

(* Mutant: the timer starts but the article stays published.               *)
ResetTimer(r) == [r EXCEPT !.age = 0, !.days = EditDays]

Reset(r) == [r EXCEPT !.status = "sedimentation", !.age = 0, !.days = EditDays]

(* Mutant: the cap is not looked at.                                       *)
ChargedAlways(r) == [r EXCEPT !.accumulated = @ + EditDays]

Charged(r) ==
  [r EXCEPT !.accumulated = IF @ + EditDays <= MaxTotalDays THEN @ + EditDays ELSE @]

(* In the pool the message must close a review thread: the self-review      *)
(* opened one when the article was published.                               *)
Edit(a, u) ==
  /\ MayAct(a, u, Writable)
  /\ repo[a].edits < MaxEdits
  /\ row[a].status = "sedimentation" => reviews[a] # {}
  /\ IF row[a].status = "draft"
       THEN /\ repo' = Committed(a, {u})
            /\ UNCHANGED row
       ELSE /\ repo' = [Committed(a, {u}) EXCEPT ![a].marker = "sedimentation"]
            /\ row' = [row EXCEPT ![a] = Charged(Reset(@))]
  /\ authors' = [authors EXCEPT ![a] = Credited(a, {u})]
  /\ consents' = [consents EXCEPT ![a] = {}]
  /\ UNCHANGED <<reviews, maintainers, proposals, noticed>>

(* A rollback to an earlier content, its own or one cloned from the origin; *)
(* one to the present content returns early and changes nothing.            *)
Rollback(a, u) ==
  LET au == Credited(a, {u})
      rescored == [row[a] EXCEPT !.folded =
                     IF reviews[a] = {} THEN @ ELSE Folded(reviews[a], au)]
  IN
  /\ MayAct(a, u, Writable)
  /\ repo[a].edits > 0 \/ row[a].forkedFrom # NoArticle
  /\ repo[a].edits < MaxEdits
  /\ IF row[a].status = "published"
       THEN /\ repo' = [Committed(a, {u}) EXCEPT ![a].marker = "sedimentation"]
            /\ row' = [row EXCEPT ![a] = Reset(rescored)]
       ELSE /\ repo' = Committed(a, {u})
            /\ row' = [row EXCEPT ![a] = rescored]
  /\ authors' = [authors EXCEPT ![a] = au]
  /\ consents' = [consents EXCEPT ![a] = {}]
  /\ UNCHANGED <<reviews, maintainers, proposals, noticed>>

-----------------------------------------------------------------------------
(* Forks and merge proposals.                                               *)
Fork(a, u, f) ==
  /\ \/ MayAct(a, u, {"draft"})
     \/ row[a].status \in {"published", "rejected"} /\ ~row[a].folded
  /\ \A g \in Articles : row[g].forkedFrom = a /\ Exists(g) => u \notin authors[g]
  /\ row[f].status = "absent"
  /\ row' = [row EXCEPT ![f] = NewRow(a)]
  /\ repo' = [repo EXCEPT ![f] = [repo[a] EXCEPT !.edits = 0, !.merged = 0]]
  /\ authors' = [authors EXCEPT ![f] = repo[a].committers \cup {u}]
  /\ maintainers' = [maintainers EXCEPT ![f] = {u}]
  /\ UNCHANGED <<reviews, consents, proposals, noticed>>

Propose(f, t, u) ==
  /\ Exists(f) /\ Exists(t)
  /\ row[f].forkedFrom = t
  /\ proposals' = proposals \cup {[fork |-> f, target |-> t, proposer |-> u]}
  /\ noticed' = IF maintainers[t] \subseteq {u} THEN noticed ELSE noticed \cup {t}
  /\ UNCHANGED <<row, repo, reviews, people>>

WithdrawProposal(p) ==
  /\ proposals' = proposals \ {p}
  /\ UNCHANGED <<row, repo, reviews, people, noticed>>

(* git log takes the marker with the latest commit date, and the fork's     *)
(* commits carry the clock of the device they were made on: the marker of   *)
(* either side can come out first.  A merge that brings no commit leaves    *)
(* the content as it is; one that conflicts changes nothing.                *)
AcceptMerge(p, u) ==
  LET a == p.target
      f == p.fork
      brings == repo[f].edits # repo[f].merged
      markers == {repo[a].marker, repo[f].marker} \ {"none"}
  IN
  /\ p \in proposals
  /\ MayAct(a, u, Writable)
  /\ AllConsented(a)
  /\ brings => repo[a].edits < MaxEdits
  /\ \E m \in IF markers = {} THEN {"none"} ELSE markers :
       repo' = [repo EXCEPT
         ![a].edits = IF brings THEN @ + 1 ELSE @,
         ![a].committers = @ \cup repo[f].committers,
         ![a].marker = IF row[a].status = "published" THEN "sedimentation" ELSE m,
         ![f].merged = repo[f].edits]
  /\ row' = [row EXCEPT ![a] = IF @.status = "published" THEN Reset(@) ELSE @]
  /\ authors' = [authors EXCEPT ![a] = Credited(a, repo[f].committers)]
  /\ proposals' = proposals \ {p}
  /\ noticed' = noticed \cup {a}
  /\ UNCHANGED <<reviews, maintainers, consents>>

(* Notifications refer to the article by a foreign key without a cascade:   *)
(* deleting an article that one refers to fails.  Only drafts are deleted   *)
(* and no article becomes a draft again, so those that publishing, reviews  *)
(* and the scan send later are left out.                                    *)
Delete(a, u) ==
  /\ row[a].status = "draft"
  /\ u \in maintainers[a]
  /\ AllConsented(a)
  /\ a \notin noticed
  /\ row' = [row EXCEPT ![a].status = "deleted"]
  /\ repo' = [repo EXCEPT ![a] = EmptyRepo]
  /\ reviews' = [reviews EXCEPT ![a] = {}]
  /\ authors' = [authors EXCEPT ![a] = {}]
  /\ maintainers' = [maintainers EXCEPT ![a] = {}]
  /\ consents' = [consents EXCEPT ![a] = {}]
  /\ proposals' = Cascaded(a)
  /\ UNCHANGED noticed

-----------------------------------------------------------------------------
(* Maintainers and their consents.                                          *)
AddMaintainer(a, caller, u) ==
  /\ caller \in maintainers[a]
  /\ u \notin maintainers[a]
  /\ maintainers' = [maintainers EXCEPT ![a] = @ \cup {u}]
  /\ UNCHANGED <<row, repo, reviews, authors, consents, proposals, noticed>>

RemoveMaintainer(a, caller, u) ==
  /\ {caller, u} \subseteq maintainers[a]
  /\ LeavesMaintainer(a, caller, u)
  /\ maintainers' = [maintainers EXCEPT ![a] = @ \ {u}]
  /\ UNCHANGED <<row, repo, reviews, authors, consents, proposals, noticed>>

Consent(a, u) ==
  /\ u \in maintainers[a]
  /\ consents' = [consents EXCEPT ![a] = @ \cup {u}]
  /\ UNCHANGED <<row, repo, reviews, authors, maintainers, proposals, noticed>>

RevokeConsent(a, u) ==
  /\ u \in maintainers[a]
  /\ consents' = [consents EXCEPT ![a] = @ \ {u}]
  /\ UNCHANGED <<row, repo, reviews, authors, maintainers, proposals, noticed>>

-----------------------------------------------------------------------------
(* A review by anyone, without an invitation.                               *)
SubmitReview(a, u, s) ==
  LET rs == reviews[a] \cup {ReviewRow(a, u, row[a].status, s)}
  IN
  /\ row[a].status \in Reviewable
  /\ ~row[a].folded
  /\ Cardinality(reviews[a]) < MaxReviews
  /\ reviews' = [reviews EXCEPT ![a] = rs]
  /\ row' = [row EXCEPT ![a].folded = Folded(rs, authors[a])]
  /\ UNCHANGED <<repo, people, proposals, noticed>>

-----------------------------------------------------------------------------
(* The scan.  It treats the articles one after the other, each by its own   *)
(* row and reviews only.                                                    *)
Elapsed(a) ==
  /\ row[a].status = "sedimentation"
  /\ row[a].age # NotStarted
  /\ row[a].age >= row[a].days

(* Mutant: off by one.                                                     *)
ApprovedByFewer(a) == Cardinality(Approving(reviews[a], authors[a])) + 1 >= MinApprovals

Approved(a) == Cardinality(Approving(reviews[a], authors[a])) >= MinApprovals

(* Mutant: what was granted before is forgotten.                           *)
CanExtendAnew(a) == ExtendDays <= MaxTotalDays

CanExtend(a) == row[a].accumulated + ExtendDays <= MaxTotalDays

(* Without any review the score would be nought in every dimension.         *)
ScanPublish(a) ==
  /\ Elapsed(a)
  /\ Approved(a)
  /\ row' = [row EXCEPT ![a].status = "published",
       ![a].folded = IF reviews[a] = {} THEN FoldScore > 0
                                        ELSE Folded(reviews[a], authors[a])]
  /\ repo' = [repo EXCEPT ![a].marker = "published"]
  /\ UNCHANGED <<reviews, people, proposals, noticed>>

ScanExtend(a) ==
  /\ Elapsed(a)
  /\ ~Approved(a)
  /\ CanExtend(a)
  /\ row' = [row EXCEPT ![a].days = @ + ExtendDays, ![a].accumulated = @ + ExtendDays]
  /\ UNCHANGED <<repo, reviews, people, proposals, noticed>>

ScanReject(a) ==
  /\ Elapsed(a)
  /\ ~Approved(a)
  /\ ~CanExtend(a)
  /\ row' = [row EXCEPT ![a].status = "rejected"]
  /\ repo' = [repo EXCEPT ![a].marker = "rejected"]
  /\ UNCHANGED <<reviews, people, proposals, noticed>>

Scan(a) == ScanPublish(a) \/ ScanExtend(a) \/ ScanReject(a)

Aged(r) == IF r.status = "sedimentation" /\ r.age \in 0..(MaxAge - 1)
             THEN [r EXCEPT !.age = @ + 1]
             ELSE r

(* One day passes.                                                          *)
Tick ==
  /\ row' = [a \in Articles |-> Aged(row[a])]
  /\ UNCHANGED <<repo, reviews, people, proposals, noticed>>

-----------------------------------------------------------------------------
Command(a, u) ==
  \/ \E names \in SUBSET Users : Create(a, names, u)
  \/ \E s \in Scores : Publish(a, u, s)
  \/ Edit(a, u)
  \/ Rollback(a, u)
  \/ \E f \in Articles : Fork(a, u, f)
  \/ \E f \in Articles : Propose(f, a, u)
  \/ Delete(a, u)
  \/ \E v \in Users : AddMaintainer(a, u, v)
  \/ \E v \in Users : RemoveMaintainer(a, u, v)
  \/ Consent(a, u)
  \/ RevokeConsent(a, u)
  \/ \E s \in Scores : SubmitReview(a, u, s)

Next ==
  \/ \E a \in Articles, u \in Users : Command(a, u)
  \/ \E p \in proposals : WithdrawProposal(p)
  \/ \E p \in proposals, u \in Users : AcceptMerge(p, u)
  \/ \E a \in Articles : Scan(a)
  \/ Tick

Spec == Init /\ [][Next]_vars

(* Days pass and some process keeps scanning: every call of the command     *)
(* line does at its start, every pull and accepted push at its end.         *)
(* Users owe nothing.                                                       *)
FairSpec ==
  /\ Spec
  /\ WF_vars(Tick)
  /\ \A a \in Articles : WF_vars(Scan(a))

-----------------------------------------------------------------------------
TypeOK ==
  /\ row \in [Articles -> Row]
  /\ repo \in [Articles -> Repo]
  /\ reviews \in [Articles -> SUBSET Review]
  /\ \A a \in Articles : IsFiniteSet(reviews[a])
  /\ authors \in [Articles -> SUBSET Users]
  /\ maintainers \in [Articles -> SUBSET Users]
  /\ consents \in [Articles -> SUBSET Users]
  /\ proposals \subseteq Proposal
  /\ noticed \subseteq Articles

(* Whatever is published has the approvals it needs from people who are not *)
(* among its authors now: reviewers who become authors by an edit, a        *)
(* rollback or a merge take their approvals with them, and the article is   *)
(* back in the pool by then.                                                *)
PublishedWasReviewed ==
  \A a \in Articles : row[a].status = "published" => Approved(a)

(* The timer of an article in the pool runs, and the days it lasts stay     *)
(* within those granted at the start and those charged since; edits and     *)
(* extensions together never charge more than the cap.                      *)
TimerBounded ==
  \A a \in Articles :
    /\ row[a].accumulated <= MaxTotalDays
    /\ row[a].status = "sedimentation" => /\ row[a].age # NotStarted
                                          /\ row[a].days <= NewDays + row[a].accumulated

(* However maintainers add and remove each other, an article keeps one, and *)
(* only existing articles have any.                                         *)
NoOrphan == \A a \in Articles : Exists(a) <=> maintainers[a] # {}

(* Everyone with a content commit in the repository is credited in the      *)
(* database, also after clones and merges of other people's commits.        *)
CommittersAreAuthors ==
  \A a \in Articles : Exists(a) => repo[a].committers \subseteq authors[a]

(* An open proposal joins an existing fork to its existing origin, whatever *)
(* was deleted since it was made.                                           *)
ProposalsAreForks ==
  \A p \in proposals : /\ Exists(p.fork) /\ Exists(p.target)
                       /\ row[p.fork].forkedFrom = p.target

ReopensReview(a) ==
  row[a].status = "published" /\ repo'[a].edits # repo[a].edits =>
    /\ row'[a].status = "sedimentation"
    /\ row'[a].age = 0
    /\ repo'[a].marker = "sedimentation"

ChangedReopen == \A a \in Articles : ReopensReview(a)

(* A step that changes the content of a published article, by whatever      *)
(* command, puts it back into the pool with a new timer and says so in git. *)
ChangeReopensReview == [][ChangedReopen]_vars

(* No article stays in the pool once its authors leave it alone: only       *)
(* finitely many edits are made, and extensions run out.                    *)
PoolDrains ==
  \A a \in Articles : row[a].status = "sedimentation" ~> row[a].status # "sedimentation"

(* The abstract promise.                                                    *)
Stage == [a \in Articles |-> row[a].status]
Approvals == [a \in Articles |-> Cardinality(Approving(reviews[a], authors[a]))]

Promise == INSTANCE PeerReview WITH stage <- Stage, approvals <- Approvals

(* Every command and every scan keeps the promise of peer review.           *)
KeepsPromise == Promise!Spec
=============================================================================
