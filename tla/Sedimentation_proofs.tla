------------------------ MODULE Sedimentation_proofs ------------------------
(***************************************************************************)
(* Theorems about Sedimentation for every set of articles and accounts and *)
(* every setting of the parameters.                                        *)
(***************************************************************************)
EXTENDS Sedimentation, FiniteSetTheorems, TLAPS

(* A verdict about folding is a truth value, whatever the sums are.        *)
LEMMA FoldedType == ASSUME NEW rs, NEW au PROVE Folded(rs, au) \in BOOLEAN
  BY DEF Folded

(* The parameters are natural numbers.                                     *)
LEMMA Days == {NewDays, EditDays, ExtendDays, MaxTotalDays, MinApprovals} \subseteq Nat
  BY SinkParams

(* The row of a new article is well formed.                                *)
LEMMA NewRowType == ASSUME NEW p \in Articles \cup {NoArticle} PROVE NewRow(p) \in Row
  BY Days DEF NewRow, Row, Status

(* So is the row of an article sent back to the pool, charged or not.      *)
LEMMA ResetType == ASSUME NEW r \in Row PROVE Reset(r) \in Row
  BY Days DEF Reset, Row, Status

LEMMA ChargedType == ASSUME NEW r \in Row PROVE Charged(r) \in Row
  BY Days DEF Charged, Row, Status

LEMMA AgedType == ASSUME NEW r \in Row PROVE Aged(r) \in Row
  BY Days DEF Aged, Row, Status, MaxAge

(* A content commit keeps every repository well formed.                    *)
LEMMA CommittedType ==
  ASSUME TypeOK, NEW a \in Articles, NEW u \in Users
  PROVE  Committed(a, {u}) \in [Articles -> Repo]
<1>1. repo[a] \in Repo
  BY DEF TypeOK
<1>2. repo[a].edits + 1 \in Nat /\ repo[a].committers \cup {u} \in SUBSET Users
  BY <1>1 DEF Repo
<1> DEFINE c == [repo[a] EXCEPT !.edits = @ + 1, !.committers = @ \cup {u}]
<1>3. c \in Repo
  BY <1>1, <1>2 DEF Repo
<1>4. Committed(a, {u}) = [repo EXCEPT ![a] = c]
  BY <1>1 DEF Committed, TypeOK, Repo
<1>. HIDE DEF c
<1>. QED  BY <1>3, <1>4 DEF TypeOK

(* A new review row is one, and the reviews of the article stay finite.    *)
LEMMA ReviewRowType ==
  ASSUME TypeOK, NEW a \in Articles, NEW u \in Users,
         NEW scope \in Reviewable, NEW s \in Scores
  PROVE  LET rs == reviews[a] \cup {ReviewRow(a, u, scope, s)}
         IN  rs \in SUBSET Review /\ IsFiniteSet(rs)
<1>1. IsFiniteSet(reviews[a])
  BY DEF TypeOK
<1>2. Cardinality(reviews[a]) \in Nat
  BY <1>1, FS_CardinalityType
<1>3. ReviewRow(a, u, scope, s) \in Review
  BY <1>2 DEF TypeOK, ReviewRow, Review, Repo
<1>4. IsFiniteSet(reviews[a] \cup {ReviewRow(a, u, scope, s)})
  BY <1>1, FS_AddElement
<1>. QED  BY <1>3, <1>4 DEF TypeOK

-----------------------------------------------------------------------------
(* Every command keeps the state well formed.                              *)
LEMMA CommandType ==
  ASSUME TypeOK, NEW a \in Articles, NEW u \in Users, Command(a, u)
  PROVE  TypeOK'
<1>0. row[a] \in Row /\ repo[a] \in Repo
  BY DEF TypeOK
<1>1. ASSUME NEW names \in SUBSET Users, Create(a, names, u) PROVE TypeOK'
  <2>1. NewRow(NoArticle) \in Row
    BY NewRowType
  <2>2. [EmptyRepo EXCEPT !.committers = {u}] \in Repo
    BY DEF EmptyRepo, Repo
  <2>. QED  BY <1>1, <2>1, <2>2 DEF TypeOK, Create
<1>2. ASSUME NEW s \in Scores, Publish(a, u, s) PROVE TypeOK'
  <2> DEFINE au == Credited(a, {})
             rs == reviews[a] \cup {ReviewRow(a, u, "sedimentation", s)}
             r == [row[a] EXCEPT !.status = "sedimentation", !.age = 0,
                                 !.days = NewDays, !.folded = Folded(rs, au)]
  <2>1. rs \in SUBSET Review /\ IsFiniteSet(rs)
    BY ReviewRowType DEF Reviewable
  <2>2. r \in Row
    BY <1>0, Days, FoldedType DEF Row, Status
  <2>3. au \in SUBSET Users
    BY <1>0 DEF TypeOK, Credited, Repo
  <2>4. row' = [row EXCEPT ![a] = r]
    BY <1>2, <1>0 DEF Publish, TypeOK, Row
  <2>5. [repo[a] EXCEPT !.marker = "sedimentation"] \in Repo
    BY <1>0 DEF Repo, Reviewable
  <2>6. reviews' = [reviews EXCEPT ![a] = rs] /\ authors' = [authors EXCEPT ![a] = au]
    BY <1>2 DEF Publish
  <2>7. repo' \in [Articles -> Repo]
    BY <1>2, <2>5 DEF Publish, TypeOK
  <2>8. UNCHANGED <<maintainers, proposals, noticed>> /\ consents' = [consents EXCEPT ![a] = {}]
    BY <1>2 DEF Publish
  <2>. HIDE DEF au, rs, r
  <2>. QED  BY <2>1, <2>2, <2>3, <2>4, <2>6, <2>7, <2>8 DEF TypeOK
<1>3. CASE Edit(a, u)
  <2>1. Credited(a, {u}) \in SUBSET Users
    BY <1>0 DEF TypeOK, Credited, Repo
  <2>2. Committed(a, {u}) \in [Articles -> Repo]
    BY CommittedType
  <2>3. [Committed(a, {u}) EXCEPT ![a].marker = "sedimentation"] \in [Articles -> Repo]
    BY <2>2 DEF Repo, Reviewable
  <2>4. Charged(Reset(row[a])) \in Row
    BY <1>0, ResetType, ChargedType
  <2>. QED  BY <1>3, <2>1, <2>2, <2>3, <2>4 DEF TypeOK, Edit
<1>4. CASE Rollback(a, u)
  <2> DEFINE au == Credited(a, {u})
             r == [row[a] EXCEPT !.folded =
                     IF reviews[a] = {} THEN @ ELSE Folded(reviews[a], au)]
  <2>1. au \in SUBSET Users
    BY <1>0 DEF TypeOK, Credited, Repo
  <2>2. Committed(a, {u}) \in [Articles -> Repo]
    BY CommittedType
  <2>3. [Committed(a, {u}) EXCEPT ![a].marker = "sedimentation"] \in [Articles -> Repo]
    BY <2>2 DEF Repo, Reviewable
  <2>4. r \in Row
    BY <1>0, FoldedType DEF Row
  <2>5. Reset(r) \in Row
    BY <2>4, ResetType
  <2>6. row' = [row EXCEPT ![a] = r] \/ row' = [row EXCEPT ![a] = Reset(r)]
    BY <1>4 DEF Rollback
  <2>7. authors' = [authors EXCEPT ![a] = au]
    BY <1>4 DEF Rollback
  <2>. HIDE DEF au, r
  <2>. QED  BY <1>4, <2>1, <2>2, <2>3, <2>4, <2>5, <2>6, <2>7 DEF TypeOK, Rollback
<1>5. ASSUME NEW f \in Articles, Fork(a, u, f) PROVE TypeOK'
  <2>1. NewRow(a) \in Row
    BY NewRowType
  <2>2. [repo[a] EXCEPT !.edits = 0, !.merged = 0] \in Repo
    BY <1>0 DEF Repo
  <2>3. repo[a].committers \cup {u} \in SUBSET Users
    BY <1>0 DEF Repo
  <2>. QED  BY <1>5, <2>1, <2>2, <2>3 DEF TypeOK, Fork
<1>6. ASSUME NEW f \in Articles, Propose(f, a, u) PROVE TypeOK'
  BY <1>6 DEF TypeOK, Propose, Proposal, people
<1>7. CASE Delete(a, u)
  <2>1. [row[a] EXCEPT !.status = "deleted"] \in Row
    BY <1>0 DEF Row
  <2>2. EmptyRepo \in Repo
    BY DEF EmptyRepo, Repo
  <2>3. IsFiniteSet({})
    BY FS_EmptySet
  <2>. QED  BY <1>7, <2>1, <2>2, <2>3 DEF TypeOK, Delete, Cascaded
<1>8. ASSUME NEW v \in Users, AddMaintainer(a, u, v) PROVE TypeOK'
  BY <1>8 DEF TypeOK, AddMaintainer
<1>9. ASSUME NEW v \in Users, RemoveMaintainer(a, u, v) PROVE TypeOK'
  BY <1>9 DEF TypeOK, RemoveMaintainer
<1>10. CASE Consent(a, u)
  BY <1>10 DEF TypeOK, Consent
<1>11. CASE RevokeConsent(a, u)
  BY <1>11 DEF TypeOK, RevokeConsent
<1>12. ASSUME NEW s \in Scores, SubmitReview(a, u, s) PROVE TypeOK'
  <2> DEFINE rs == reviews[a] \cup {ReviewRow(a, u, row[a].status, s)}
  <2>1. rs \in SUBSET Review /\ IsFiniteSet(rs)
    BY <1>12, ReviewRowType DEF SubmitReview
  <2>2. [row[a] EXCEPT !.folded = Folded(rs, authors[a])] \in Row
    BY <1>0, FoldedType DEF Row
  <2>3. /\ reviews' = [reviews EXCEPT ![a] = rs]
        /\ row' = [row EXCEPT ![a] = [row[a] EXCEPT !.folded = Folded(rs, authors[a])]]
    BY <1>12 DEF SubmitReview, TypeOK
  <2>. HIDE DEF rs
  <2>. QED  BY <1>12, <2>1, <2>2, <2>3 DEF TypeOK, SubmitReview, people
<1>. QED
  BY <1>1, <1>2, <1>3, <1>4, <1>5, <1>6, <1>7, <1>8, <1>9, <1>10, <1>11, <1>12 DEF Command

(* So do accepted merges.                                                  *)
LEMMA AcceptMergeType ==
  ASSUME TypeOK, NEW p \in proposals, NEW u \in Users, AcceptMerge(p, u)
  PROVE  TypeOK'
<1> DEFINE a == p.target
           f == p.fork
<1>1. a \in Articles /\ f \in Articles
  BY DEF TypeOK, Proposal
<1>2. row[a] \in Row /\ repo[a] \in Repo /\ repo[f] \in Repo
  BY <1>1 DEF TypeOK
<1>3. repo' \in [Articles -> Repo]
  <2>1. PICK m \in Reviewable \cup {"none", "rejected"} : repo' = [repo EXCEPT
          ![a].edits = IF repo[f].edits # repo[f].merged THEN @ + 1 ELSE @,
          ![a].committers = @ \cup repo[f].committers,
          ![a].marker = IF row[a].status = "published" THEN "sedimentation" ELSE m,
          ![f].merged = repo[f].edits]
    BY <1>2 DEF AcceptMerge, Repo
  <2>2. /\ repo[a].edits + 1 \in Nat /\ repo[f].edits \in Nat
        /\ repo[a].committers \cup repo[f].committers \in SUBSET Users
    BY <1>2 DEF Repo
  <2> DEFINE changed == [repo[a] EXCEPT
          !.edits = IF repo[f].edits # repo[f].merged THEN @ + 1 ELSE @,
          !.committers = @ \cup repo[f].committers,
          !.marker = IF row[a].status = "published" THEN "sedimentation" ELSE m]
  <2>3. changed \in Repo
    BY <1>2, <2>2 DEF Repo, Reviewable
  <2> DEFINE target == [repo EXCEPT ![a] = changed]
  <2>4. target \in [Articles -> Repo]
    BY <1>1, <2>3 DEF TypeOK
  <2>5. repo' = [target EXCEPT ![f] = [target[f] EXCEPT !.merged = repo[f].edits]]
    BY <1>1, <1>2, <2>1 DEF TypeOK, Repo
  <2>6. [target[f] EXCEPT !.merged = repo[f].edits] \in Repo
    BY <1>1, <2>2, <2>4 DEF Repo
  <2>. HIDE DEF target
  <2>. QED  BY <2>4, <2>5, <2>6
<1>4. row' \in [Articles -> Row]
  BY <1>1, <1>2, ResetType DEF TypeOK, AcceptMerge
<1>5. authors' \in [Articles -> SUBSET Users]
  <2>1. Credited(a, repo[f].committers) \in SUBSET Users
    BY <1>1, <1>2 DEF TypeOK, Credited, Repo
  <2>. QED  BY <2>1 DEF TypeOK, AcceptMerge
<1>. QED  BY <1>1, <1>3, <1>4, <1>5 DEF TypeOK, AcceptMerge

(* And the scan.                                                           *)
LEMMA ScanType == ASSUME TypeOK, NEW a \in Articles, Scan(a) PROVE TypeOK'
<1>0. row[a] \in Row /\ repo[a] \in Repo
  BY DEF TypeOK
<1>1. CASE ScanPublish(a)
  <2> DEFINE r == [row[a] EXCEPT !.status = "published",
         !.folded = IF reviews[a] = {} THEN FoldScore > 0
                                       ELSE Folded(reviews[a], authors[a])]
  <2>0. (FoldScore > 0) \in BOOLEAN /\ Folded(reviews[a], authors[a]) \in BOOLEAN
    BY FoldedType
  <2>1. r \in Row
    BY <1>0, <2>0 DEF Row, Status
  <2>2. [repo[a] EXCEPT !.marker = "published"] \in Repo
    BY <1>0 DEF Repo, Reviewable
  <2>3. row' = [row EXCEPT ![a] = r]
    BY <1>1, <1>0 DEF ScanPublish, TypeOK, Row
  <2>. HIDE DEF r
  <2>. QED  BY <1>1, <2>1, <2>2, <2>3 DEF TypeOK, ScanPublish, people
<1>2. CASE ScanExtend(a)
  <2> DEFINE r == [row[a] EXCEPT !.days = @ + ExtendDays, !.accumulated = @ + ExtendDays]
  <2>1. row[a].days + ExtendDays \in Nat /\ row[a].accumulated + ExtendDays \in Nat
    BY <1>0, Days DEF Row
  <2>2. r \in Row
    BY <1>0, <2>1 DEF Row
  <2>3. row' = [row EXCEPT ![a] = r]
    BY <1>2, <1>0 DEF ScanExtend, TypeOK, Row
  <2>. HIDE DEF r
  <2>. QED  BY <1>2, <2>2, <2>3 DEF TypeOK, ScanExtend, people
<1>3. CASE ScanReject(a)
  <2>1. [row[a] EXCEPT !.status = "rejected"] \in Row
    BY <1>0 DEF Row, Status
  <2>2. [repo[a] EXCEPT !.marker = "rejected"] \in Repo
    BY <1>0 DEF Repo
  <2>. QED  BY <1>3, <2>1, <2>2 DEF TypeOK, ScanReject, people
<1>. QED  BY <1>1, <1>2, <1>3 DEF Scan

(* The state stays well formed under every command, merge and scan and as   *)
(* days pass.                                                              *)
THEOREM TypeCorrect == Spec => []TypeOK
<1>1. Init => TypeOK
  <2>1. [NewRow(NoArticle) EXCEPT !.status = "absent"] \in Row
    BY NewRowType DEF Row
  <2>2. EmptyRepo \in Repo
    BY DEF EmptyRepo, Repo
  <2>3. IsFiniteSet({})
    BY FS_EmptySet
  <2>. QED  BY <2>1, <2>2, <2>3 DEF Init, TypeOK
<1>2. TypeOK /\ [Next]_vars => TypeOK'
  <2> SUFFICES ASSUME TypeOK, [Next]_vars PROVE TypeOK'
    OBVIOUS
  <2>1. ASSUME NEW a \in Articles, NEW u \in Users, Command(a, u) PROVE TypeOK'
    BY <2>1, CommandType
  <2>2. ASSUME NEW p \in proposals, WithdrawProposal(p) PROVE TypeOK'
    BY <2>2 DEF TypeOK, WithdrawProposal, people
  <2>3. ASSUME NEW p \in proposals, NEW u \in Users, AcceptMerge(p, u) PROVE TypeOK'
    BY <2>3, AcceptMergeType
  <2>4. ASSUME NEW a \in Articles, Scan(a) PROVE TypeOK'
    BY <2>4, ScanType
  <2>5. CASE Tick
    BY <2>5, AgedType DEF TypeOK, Tick, people
  <2>6. CASE UNCHANGED vars
    BY <2>6 DEF TypeOK, vars
  <2>. QED  BY <2>1, <2>2, <2>3, <2>4, <2>5, <2>6 DEF Next
<1>. QED  BY <1>1, <1>2, PTL DEF Spec
-----------------------------------------------------------------------------
(* What an edit or a rollback does, whichever branch it takes: one more     *)
(* content commit, its author credited, and a published article back in     *)
(* the pool with a new timer.                                              *)
LEMMA ChangeEffect ==
  ASSUME TypeOK, NEW a \in Articles, NEW u \in Users, Edit(a, u) \/ Rollback(a, u)
  PROVE  /\ row[a].status \in Writable
         /\ row'[a].status = IF row[a].status = "draft" THEN "draft" ELSE "sedimentation"
         /\ row'[a].forkedFrom = row[a].forkedFrom
         /\ row[a].status = "published" => row'[a].age = 0 /\ repo'[a].marker = "sedimentation"
         /\ repo'[a].committers = repo[a].committers \cup {u}
         /\ authors' = [authors EXCEPT ![a] = Credited(a, {u})]
         /\ \A b \in Articles \ {a} : row'[b] = row[b] /\ repo'[b] = repo[b]
         /\ UNCHANGED <<reviews, maintainers, proposals>>
<1> DEFINE c == [repo[a] EXCEPT !.edits = @ + 1, !.committers = @ \cup {u}]
           d == [c EXCEPT !.marker = "sedimentation"]
<1>0. row[a] \in Row /\ repo[a] \in Repo /\ DOMAIN row = Articles /\ DOMAIN repo = Articles
  BY DEF TypeOK
<1>1. Committed(a, {u}) = [repo EXCEPT ![a] = c]
  BY <1>0 DEF Committed, Repo
<1>2. [Committed(a, {u}) EXCEPT ![a].marker = "sedimentation"] = [repo EXCEPT ![a] = d]
  BY <1>0, <1>1
<1>3. /\ c.committers = repo[a].committers \cup {u} /\ d.committers = c.committers
      /\ d.marker = "sedimentation"
  BY <1>0 DEF Repo
<1>. HIDE DEF c, d
<1>4. CASE Edit(a, u)
  <2> DEFINE r == Charged(Reset(row[a]))
  <2>1. /\ r.status = "sedimentation" /\ r.age = 0
        /\ r.forkedFrom = row[a].forkedFrom
    BY <1>0 DEF Charged, Reset, Row
  <2>. HIDE DEF r
  <2>2. CASE row[a].status = "draft"
    BY <1>4, <2>2, <1>0, <1>1, <1>3 DEF Edit, MayAct
  <2>3. CASE row[a].status # "draft"
    <3>1. row' = [row EXCEPT ![a] = r] /\ repo' = [repo EXCEPT ![a] = d]
      BY <1>4, <2>3, <1>2 DEF Edit, r
    <3>. QED  BY <1>4, <2>1, <2>3, <3>1, <1>0, <1>3 DEF Edit, MayAct
  <2>. QED  BY <2>2, <2>3
<1>5. CASE Rollback(a, u)
  <2> DEFINE r == [row[a] EXCEPT !.folded =
                     IF reviews[a] = {} THEN @ ELSE Folded(reviews[a], Credited(a, {u}))]
  <2>1. /\ r.status = row[a].status /\ r.forkedFrom = row[a].forkedFrom
        /\ Reset(r).status = "sedimentation" /\ Reset(r).age = 0
        /\ Reset(r).forkedFrom = row[a].forkedFrom
    BY <1>0 DEF Reset, Row
  <2>2. CASE row[a].status = "published"
    <3>1. row' = [row EXCEPT ![a] = Reset(r)] /\ repo' = [repo EXCEPT ![a] = d]
      BY <1>5, <2>2, <1>2 DEF Rollback
    <3>. HIDE DEF r
    <3>. QED  BY <1>5, <2>1, <2>2, <3>1, <1>0, <1>3 DEF Rollback, MayAct
  <2>3. CASE row[a].status # "published"
    <3>1. row' = [row EXCEPT ![a] = r] /\ repo' = [repo EXCEPT ![a] = c]
      BY <1>5, <2>3, <1>1 DEF Rollback
    <3>. HIDE DEF r
    <3>2. row[a].status \in {"draft", "sedimentation"}
      BY <1>5, <2>3 DEF Rollback, MayAct, Writable
    <3>. QED  BY <1>5, <2>1, <2>3, <3>1, <3>2, <1>0, <1>3 DEF Rollback, MayAct
  <2>. QED  BY <2>2, <2>3
<1>. QED  BY <1>4, <1>5

(* What an accepted merge does: the target gets the committers of the fork  *)
(* and their credit, a published target goes back to the pool, and nobody   *)
(* else's row or content changes.                                          *)
LEMMA MergeEffect ==
  ASSUME TypeOK, NEW p \in proposals, NEW u \in Users, AcceptMerge(p, u)
  PROVE  LET a == p.target
             f == p.fork
         IN  /\ a \in Articles /\ f \in Articles
             /\ row[a].status \in Writable
             /\ row'[a].status = IF row[a].status = "draft" THEN "draft" ELSE "sedimentation"
             /\ row'[a].forkedFrom = row[a].forkedFrom
             /\ row[a].status = "published" =>
                  row'[a].age = 0 /\ repo'[a].marker = "sedimentation"
             /\ repo'[a].committers = repo[a].committers \cup repo[f].committers
             /\ authors' = [authors EXCEPT ![a] = Credited(a, repo[f].committers)]
             /\ \A b \in Articles \ {a} :
                  /\ row'[b] = row[b]
                  /\ repo'[b].committers = repo[b].committers
                  /\ repo'[b].edits = repo[b].edits
             /\ proposals' \subseteq proposals
             /\ UNCHANGED <<reviews, maintainers>>
<1> DEFINE a == p.target
           f == p.fork
<1>1. a \in Articles /\ f \in Articles
  BY DEF TypeOK, Proposal
<1>2. row[a] \in Row /\ repo[a] \in Repo /\ DOMAIN row = Articles /\ repo \in [Articles -> Repo]
  BY <1>1 DEF TypeOK
<1>3. PICK m : repo' = [repo EXCEPT
          ![a].edits = IF repo[f].edits # repo[f].merged THEN @ + 1 ELSE @,
          ![a].committers = @ \cup repo[f].committers,
          ![a].marker = IF row[a].status = "published" THEN "sedimentation" ELSE m,
          ![f].merged = repo[f].edits]
  BY DEF AcceptMerge
<1> DEFINE changed == [repo[a] EXCEPT
          !.edits = IF repo[f].edits # repo[f].merged THEN @ + 1 ELSE @,
          !.committers = @ \cup repo[f].committers,
          !.marker = IF row[a].status = "published" THEN "sedimentation" ELSE m]
           target == [repo EXCEPT ![a] = changed]
<1>4. repo' = [target EXCEPT ![f] = [target[f] EXCEPT !.merged = repo[f].edits]]
  BY <1>1, <1>2, <1>3 DEF Repo
<1>5. /\ changed.committers = repo[a].committers \cup repo[f].committers
      /\ row[a].status = "published" => changed.marker = "sedimentation"
      /\ DOMAIN changed = {"marker", "edits", "merged", "committers"}
  BY <1>2 DEF Repo
<1>6. target[a] = changed /\ \A b \in Articles \ {a} : target[b] = repo[b]
  BY <1>1, <1>2
<1>. HIDE DEF changed
<1>7. \A b \in Articles : DOMAIN target[b] = {"marker", "edits", "merged", "committers"}
  BY <1>2, <1>5, <1>6 DEF Repo
<1>. HIDE DEF target
<1>8. DOMAIN target = Articles
  BY <1>2 DEF target
<1>9. \A b \in Articles : /\ repo'[b].committers = target[b].committers
                          /\ repo'[b].edits = target[b].edits
                          /\ repo'[b].marker = target[b].marker
  BY <1>1, <1>4, <1>7, <1>8
<1>10. /\ Reset(row[a]).status = "sedimentation" /\ Reset(row[a]).age = 0
       /\ Reset(row[a]).forkedFrom = row[a].forkedFrom
  BY <1>2 DEF Reset, Row
<1>11. /\ row[a].status \in Writable
       /\ row'[a].status = IF row[a].status = "draft" THEN "draft" ELSE "sedimentation"
       /\ row'[a].forkedFrom = row[a].forkedFrom
       /\ row[a].status = "published" => row'[a].age = 0
       /\ \A b \in Articles \ {a} : row'[b] = row[b]
  BY <1>1, <1>2, <1>10 DEF AcceptMerge, MayAct, Writable
<1>. QED  BY <1>1, <1>5, <1>6, <1>9, <1>11 DEF AcceptMerge

(* What a scan does: an approved article is published, another is rejected  *)
(* or stays in the pool; content, people and reviews stay.                  *)
LEMMA ScanEffect ==
  ASSUME TypeOK, NEW a \in Articles, Scan(a)
  PROVE  /\ row[a].status = "sedimentation"
         /\ \/ Approved(a) /\ row'[a].status = "published"
            \/ ~Approved(a) /\ row'[a].status \in {"sedimentation", "rejected"}
         /\ row'[a].forkedFrom = row[a].forkedFrom
         /\ repo'[a].committers = repo[a].committers
         /\ repo'[a].edits = repo[a].edits
         /\ \A b \in Articles \ {a} : row'[b] = row[b] /\ repo'[b] = repo[b]
         /\ UNCHANGED <<reviews, authors, maintainers, proposals>>
<1>0. row[a] \in Row /\ repo[a] \in Repo /\ DOMAIN row = Articles /\ DOMAIN repo = Articles
  BY DEF TypeOK
<1>1. CASE ScanPublish(a)
  BY <1>0, <1>1 DEF ScanPublish, Elapsed, Row, Repo, people
<1>2. CASE ScanExtend(a)
  BY <1>0, <1>2 DEF ScanExtend, Elapsed, Row, people
<1>3. CASE ScanReject(a)
  BY <1>0, <1>3 DEF ScanReject, Elapsed, Row, Repo, people
<1>. QED  BY <1>1, <1>2, <1>3 DEF Scan

(* What publishing does.                                                   *)
LEMMA PublishEffect ==
  ASSUME TypeOK, NEW a \in Articles, NEW u \in Users, NEW s \in Scores, Publish(a, u, s)
  PROVE  /\ row[a].status = "draft" /\ row'[a].status = "sedimentation"
         /\ row'[a].forkedFrom = row[a].forkedFrom
         /\ authors' = [authors EXCEPT ![a] = Credited(a, {})]
         /\ \A b \in Articles : /\ repo'[b].committers = repo[b].committers
                                /\ repo'[b].edits = repo[b].edits
         /\ \A b \in Articles \ {a} : row'[b] = row[b] /\ reviews'[b] = reviews[b]
         /\ UNCHANGED <<maintainers, proposals>>
<1>0. row[a] \in Row /\ DOMAIN row = Articles /\ repo \in [Articles -> Repo]
      /\ DOMAIN reviews = Articles
  BY DEF TypeOK
<1>. QED  BY <1>0 DEF Publish, MayAct, Row, Repo

(* What a review does.                                                     *)
LEMMA SubmitEffect ==
  ASSUME TypeOK, NEW a \in Articles, NEW u \in Users, NEW s \in Scores, SubmitReview(a, u, s)
  PROVE  /\ row[a].status \in Reviewable
         /\ row'[a].status = row[a].status
         /\ row'[a].forkedFrom = row[a].forkedFrom
         /\ reviews' = [reviews EXCEPT ![a] =
              reviews[a] \cup {ReviewRow(a, u, row[a].status, s)}]
         /\ \A b \in Articles \ {a} : row'[b] = row[b]
         /\ UNCHANGED <<repo, authors, maintainers, proposals>>
<1>0. row[a] \in Row /\ DOMAIN row = Articles
  BY DEF TypeOK
<1>. QED  BY <1>0 DEF SubmitReview, Row, people

(* Days passing change no status and nothing else.                         *)
LEMMA TickEffect ==
  ASSUME TypeOK, Tick
  PROVE  /\ \A b \in Articles : /\ row'[b].status = row[b].status
                                /\ row'[b].forkedFrom = row[b].forkedFrom
         /\ UNCHANGED <<repo, reviews, authors, maintainers, proposals>>
  BY DEF Tick, Aged, TypeOK, Row, people

-----------------------------------------------------------------------------
(* What the timer of one article promises.                                 *)
TimerOK(r) ==
  /\ r.accumulated <= MaxTotalDays
  /\ r.status = "sedimentation" => /\ r.age # NotStarted
                                   /\ r.days <= NewDays + r.accumulated

(* Resetting the timer keeps it bounded, whether or not the days are        *)
(* charged, for an edit never lasts longer than a new article.              *)
LEMMA ResetTimerOK ==
  ASSUME NEW r \in Row, TimerOK(r)
  PROVE  TimerOK(Reset(r)) /\ TimerOK(Charged(Reset(r)))
<1>1. EditDays \in Nat /\ NewDays \in Nat /\ MaxTotalDays \in Nat /\ EditDays <= NewDays
  BY SinkParams
<1>2. r.accumulated \in Nat /\ r.accumulated <= MaxTotalDays
  BY DEF Row, TimerOK
<1>3. TimerOK(Reset(r))
  BY <1>1, <1>2 DEF TimerOK, Reset, Row, NotStarted
<1>4. TimerOK(Charged(Reset(r)))
  BY <1>1, <1>2 DEF TimerOK, Charged, Reset, Row, NotStarted
<1>. QED  BY <1>3, <1>4

(* No command, merge or scan lets any timer exceed its bound.              *)
LEMMA TimerStep ==
  ASSUME TypeOK, Next, NEW b \in Articles, TimerOK(row[b])
  PROVE  TimerOK(row'[b])
<1>0. row[b] \in Row
  BY DEF TypeOK
<1>1. ASSUME NEW a \in Articles, NEW u \in Users, Command(a, u) PROVE TimerOK(row'[b])
  <2>1. ASSUME NEW names \in SUBSET Users, Create(a, names, u) PROVE TimerOK(row'[b])
    BY <2>1, SinkParams DEF Create, NewRow, TimerOK, TypeOK
  <2>2. ASSUME NEW s \in Scores, Publish(a, u, s) PROVE TimerOK(row'[b])
    <3>1. CASE b = a
      <4>1. row'[b].accumulated = row[b].accumulated /\ row'[b].age = 0 /\ row'[b].days = NewDays
        BY <2>2, <3>1 DEF Publish, TypeOK, Row
      <4>. QED  BY <4>1, <1>0, SinkParams DEF TimerOK, Row, NotStarted
    <3>2. CASE b # a
      BY <2>2, <3>2 DEF Publish, TypeOK
    <3>. QED  BY <3>1, <3>2
  <2>3. CASE Edit(a, u)
    BY <2>3, <1>0, ResetTimerOK DEF Edit, TypeOK
  <2>4. CASE Rollback(a, u)
    <3> DEFINE r == [row[a] EXCEPT !.folded =
                       IF reviews[a] = {} THEN @ ELSE Folded(reviews[a], Credited(a, {u}))]
    <3>1. CASE b = a
      <4>1. r \in Row
        BY <1>0, <3>1, FoldedType DEF Row
      <4>2. TimerOK(r)
        BY <1>0, <3>1 DEF TimerOK, Row
      <4>3. row'[b] = r \/ row'[b] = Reset(r)
        BY <2>4, <3>1 DEF Rollback, TypeOK
      <4>. HIDE DEF r
      <4>. QED  BY <4>1, <4>2, <4>3, ResetTimerOK
    <3>2. CASE b # a
      BY <2>4, <3>2 DEF Rollback, TypeOK
    <3>. QED  BY <3>1, <3>2
  <2>5. ASSUME NEW f \in Articles, Fork(a, u, f) PROVE TimerOK(row'[b])
    BY <2>5, SinkParams DEF Fork, NewRow, TimerOK, TypeOK
  <2>6. ASSUME NEW f \in Articles, Propose(f, a, u) PROVE TimerOK(row'[b])
    BY <2>6 DEF Propose
  <2>7. CASE Delete(a, u)
    BY <2>7, <1>0 DEF Delete, TimerOK, TypeOK, Row
  <2>8. ASSUME NEW v \in Users, AddMaintainer(a, u, v) \/ RemoveMaintainer(a, u, v)
        PROVE  TimerOK(row'[b])
    BY <2>8 DEF AddMaintainer, RemoveMaintainer
  <2>9. CASE Consent(a, u) \/ RevokeConsent(a, u)
    BY <2>9 DEF Consent, RevokeConsent
  <2>10. ASSUME NEW s \in Scores, SubmitReview(a, u, s) PROVE TimerOK(row'[b])
    BY <2>10, <1>0 DEF SubmitReview, TimerOK, TypeOK, Row
  <2>. QED
    BY <1>1, <2>1, <2>2, <2>3, <2>4, <2>5, <2>6, <2>7, <2>8, <2>9, <2>10 DEF Command
<1>2. ASSUME NEW p \in proposals, WithdrawProposal(p) PROVE TimerOK(row'[b])
  BY <1>2 DEF WithdrawProposal
<1>3. ASSUME NEW p \in proposals, NEW u \in Users, AcceptMerge(p, u) PROVE TimerOK(row'[b])
  BY <1>3, <1>0, ResetTimerOK DEF AcceptMerge, TypeOK
<1>4. ASSUME NEW a \in Articles, Scan(a) PROVE TimerOK(row'[b])
  <2>1. CASE ScanPublish(a)
    BY <2>1, <1>0 DEF ScanPublish, TimerOK, TypeOK, Row
  <2>2. CASE ScanExtend(a)
    <3>1. row[b].days \in Nat /\ row[b].accumulated \in Nat /\ ExtendDays \in Nat
          /\ NewDays \in Nat /\ MaxTotalDays \in Nat
      BY <1>0, SinkParams DEF Row
    <3>2. CASE b = a
      <4>1. /\ row'[b].accumulated = row[b].accumulated + ExtendDays
            /\ row'[b].days = row[b].days + ExtendDays
            /\ row'[b].age = row[b].age
            /\ row[b].accumulated + ExtendDays <= MaxTotalDays
            /\ row[b].status = "sedimentation"
        BY <2>2, <3>2, <1>0 DEF ScanExtend, Elapsed, CanExtend, TypeOK, Row
      <4>. QED  BY <4>1, <3>1 DEF TimerOK
    <3>3. CASE b # a
      BY <2>2, <3>3 DEF ScanExtend, TypeOK
    <3>. QED  BY <3>2, <3>3
  <2>3. CASE ScanReject(a)
    BY <2>3, <1>0 DEF ScanReject, TimerOK, TypeOK, Row
  <2>. QED  BY <1>4, <2>1, <2>2, <2>3 DEF Scan
<1>5. CASE Tick
  <2>1. row'[b] = Aged(row[b])
    BY <1>5 DEF Tick
  <2>. QED  BY <2>1, <1>0 DEF TimerOK, Aged, Row, NotStarted, MaxAge
<1>. QED  BY <1>1, <1>2, <1>3, <1>4, <1>5 DEF Next

(* The timer of an article in the pool runs and stays within the days       *)
(* granted, and the days charged never exceed the cap.                      *)
THEOREM TimerIsBounded == Spec => []TimerBounded
<1>1. Init => TimerBounded
  BY SinkParams DEF Init, NewRow, TimerBounded
<1>2. TypeOK /\ TimerBounded /\ [Next]_vars => TimerBounded'
  <2>1. TimerBounded <=> \A b \in Articles : TimerOK(row[b])
    BY DEF TimerBounded, TimerOK
  <2>2. TimerBounded' <=> \A b \in Articles : TimerOK(row'[b])
    BY DEF TimerBounded, TimerOK
  <2>3. ASSUME TypeOK, TimerBounded, Next PROVE TimerBounded'
    BY <2>1, <2>2, <2>3, TimerStep
  <2>4. ASSUME TimerBounded, UNCHANGED vars PROVE TimerBounded'
    BY <2>4 DEF TimerBounded, vars
  <2>. QED  BY <2>3, <2>4
<1>. QED  BY <1>1, <1>2, TypeCorrect, PTL DEF Spec
-----------------------------------------------------------------------------
(* Removing a maintainer leaves one: the caller stays, or the set had more  *)
(* than one member.                                                        *)
LEMMA SomebodyStays ==
  ASSUME NEW a \in Articles, NEW caller \in Users, NEW u \in Users,
         {caller, u} \subseteq maintainers[a], LeavesMaintainer(a, caller, u)
  PROVE  maintainers[a] \ {u} # {}
<1>1. CASE caller # u
  BY <1>1
<1>2. CASE caller = u
  <2>1. Cardinality({u}) = 1
    BY FS_Singleton
  <2>2. maintainers[a] # {u}
    BY <1>2, <2>1 DEF LeavesMaintainer
  <2>. QED  BY <2>2
<1>. QED  BY <1>1, <1>2

(* However maintainers come and go, an article keeps one.                   *)
THEOREM NoArticleIsOrphaned == Spec => []NoOrphan
<1>1. Init => NoOrphan
  BY DEF Init, NoOrphan, Exists, Status, NewRow
<1>2. TypeOK /\ NoOrphan /\ [Next]_vars => NoOrphan'
  <2> SUFFICES ASSUME TypeOK, NoOrphan, [Next]_vars PROVE NoOrphan'
    OBVIOUS
  <2>0. ASSUME UNCHANGED maintainers, \A b \in Articles : Exists(b)' <=> Exists(b)
        PROVE  NoOrphan'
    BY <2>0 DEF NoOrphan
  <2>1. ASSUME NEW a \in Articles, NEW u \in Users, Command(a, u) PROVE NoOrphan'
    <3>1. ASSUME NEW names \in SUBSET Users, Create(a, names, u) PROVE NoOrphan'
      BY <3>1 DEF Create, NoOrphan, Exists, Status, NewRow, TypeOK
    <3>2. ASSUME NEW s \in Scores, Publish(a, u, s) PROVE NoOrphan'
      BY <2>0, <3>2, PublishEffect DEF Exists, Status
    <3>3. CASE Edit(a, u) \/ Rollback(a, u)
      BY <2>0, <3>3, ChangeEffect DEF Exists, Status, Writable
    <3>4. ASSUME NEW f \in Articles, Fork(a, u, f) PROVE NoOrphan'
      BY <3>4 DEF Fork, NoOrphan, Exists, Status, NewRow, TypeOK
    <3>5. ASSUME NEW f \in Articles, Propose(f, a, u) PROVE NoOrphan'
      BY <3>5 DEF Propose, NoOrphan, Exists, people
    <3>6. CASE Delete(a, u)
      BY <3>6 DEF Delete, NoOrphan, Exists, Status, TypeOK, Row
    <3>7. ASSUME NEW v \in Users, AddMaintainer(a, u, v) PROVE NoOrphan'
      BY <3>7 DEF AddMaintainer, NoOrphan, Exists, TypeOK
    <3>8. ASSUME NEW v \in Users, RemoveMaintainer(a, u, v) PROVE NoOrphan'
      <4>1. maintainers[a] \ {v} # {}
        BY <3>8, SomebodyStays DEF RemoveMaintainer
      <4>. QED  BY <3>8, <4>1 DEF RemoveMaintainer, NoOrphan, Exists, TypeOK
    <3>9. CASE Consent(a, u) \/ RevokeConsent(a, u)
      BY <3>9 DEF Consent, RevokeConsent, NoOrphan, Exists
    <3>10. ASSUME NEW s \in Scores, SubmitReview(a, u, s) PROVE NoOrphan'
      BY <2>0, <3>10, SubmitEffect DEF Exists
    <3>. QED
      BY <2>1, <3>1, <3>2, <3>3, <3>4, <3>5, <3>6, <3>7, <3>8, <3>9, <3>10 DEF Command
  <2>2. ASSUME NEW p \in proposals, WithdrawProposal(p) PROVE NoOrphan'
    BY <2>2 DEF WithdrawProposal, NoOrphan, Exists, people
  <2>3. ASSUME NEW p \in proposals, NEW u \in Users, AcceptMerge(p, u) PROVE NoOrphan'
    BY <2>0, <2>3, MergeEffect DEF Exists, Status, Writable
  <2>4. ASSUME NEW a \in Articles, Scan(a) PROVE NoOrphan'
    BY <2>0, <2>4, ScanEffect DEF Exists, Status
  <2>5. CASE Tick
    BY <2>0, <2>5, TickEffect DEF Exists
  <2>6. CASE UNCHANGED vars
    BY <2>6 DEF vars, NoOrphan, Exists
  <2>. QED  BY <2>1, <2>2, <2>3, <2>4, <2>5, <2>6 DEF Next
<1>. QED  BY <1>1, <1>2, TypeCorrect, PTL DEF Spec

-----------------------------------------------------------------------------
(* Everyone with a content commit is credited as an author, also after      *)
(* clones and merges of other people's commits.                            *)
THEOREM CommittersAreCredited == Spec => []CommittersAreAuthors
<1>1. Init => CommittersAreAuthors
  BY DEF Init, CommittersAreAuthors, Exists, Status, NewRow
<1>2. TypeOK /\ CommittersAreAuthors /\ [Next]_vars => CommittersAreAuthors'
  <2> SUFFICES ASSUME TypeOK, CommittersAreAuthors, [Next]_vars PROVE CommittersAreAuthors'
    OBVIOUS
  <2>0. ASSUME NEW a \in Articles, NEW new, authors' = [authors EXCEPT ![a] = Credited(a, new)],
               repo'[a].committers \subseteq repo[a].committers \cup new,
               \A b \in Articles \ {a} : row'[b] = row[b] /\ repo'[b].committers = repo[b].committers
        PROVE  CommittersAreAuthors'
    BY <2>0 DEF CommittersAreAuthors, Exists, Credited, TypeOK
  <2>1. ASSUME NEW a \in Articles, NEW u \in Users, Command(a, u) PROVE CommittersAreAuthors'
    <3>1. ASSUME NEW names \in SUBSET Users, Create(a, names, u) PROVE CommittersAreAuthors'
      BY <3>1 DEF Create, CommittersAreAuthors, Exists, EmptyRepo, TypeOK
    <3>2. ASSUME NEW s \in Scores, Publish(a, u, s) PROVE CommittersAreAuthors'
      BY <2>0, <3>2, PublishEffect
    <3>3. CASE Edit(a, u) \/ Rollback(a, u)
      <4>1. /\ authors' = [authors EXCEPT ![a] = Credited(a, {u})]
            /\ repo'[a].committers \subseteq repo[a].committers \cup {u}
            /\ \A b \in Articles \ {a} : row'[b] = row[b] /\ repo'[b].committers = repo[b].committers
        BY <3>3, ChangeEffect
      <4>. QED  BY <4>1, <2>0
    <3>4. ASSUME NEW f \in Articles, Fork(a, u, f) PROVE CommittersAreAuthors'
      <4>1. /\ repo'[f].committers = repo[a].committers
            /\ authors'[f] = repo[a].committers \cup {u}
        BY <3>4 DEF Fork, TypeOK, Repo
      <4>2. \A b \in Articles \ {f} : row'[b] = row[b] /\ repo'[b] = repo[b]
                                       /\ authors'[b] = authors[b]
        BY <3>4 DEF Fork, TypeOK
      <4>. QED  BY <4>1, <4>2 DEF CommittersAreAuthors, Exists
    <3>5. ASSUME NEW f \in Articles, Propose(f, a, u) PROVE CommittersAreAuthors'
      BY <3>5 DEF Propose, CommittersAreAuthors, Exists, people
    <3>6. CASE Delete(a, u)
      BY <3>6 DEF Delete, CommittersAreAuthors, Exists, EmptyRepo, TypeOK, Row
    <3>7. ASSUME NEW v \in Users, AddMaintainer(a, u, v) \/ RemoveMaintainer(a, u, v)
          PROVE  CommittersAreAuthors'
      BY <3>7 DEF AddMaintainer, RemoveMaintainer, CommittersAreAuthors, Exists
    <3>8. CASE Consent(a, u) \/ RevokeConsent(a, u)
      BY <3>8 DEF Consent, RevokeConsent, CommittersAreAuthors, Exists
    <3>9. ASSUME NEW s \in Scores, SubmitReview(a, u, s) PROVE CommittersAreAuthors'
      BY <3>9, SubmitEffect DEF CommittersAreAuthors, Exists
    <3>. QED
      BY <2>1, <3>1, <3>2, <3>3, <3>4, <3>5, <3>6, <3>7, <3>8, <3>9 DEF Command
  <2>2. ASSUME NEW p \in proposals, WithdrawProposal(p) PROVE CommittersAreAuthors'
    BY <2>2 DEF WithdrawProposal, CommittersAreAuthors, Exists, people
  <2>3. ASSUME NEW p \in proposals, NEW u \in Users, AcceptMerge(p, u)
        PROVE  CommittersAreAuthors'
    <3> DEFINE a == p.target
               new == repo[p.fork].committers
    <3>1. /\ a \in Articles
          /\ authors' = [authors EXCEPT ![a] = Credited(a, new)]
          /\ repo'[a].committers \subseteq repo[a].committers \cup new
          /\ \A b \in Articles \ {a} : row'[b] = row[b] /\ repo'[b].committers = repo[b].committers
      BY <2>3, MergeEffect
    <3>. HIDE DEF a, new
    <3>. QED  BY <3>1, <2>0
  <2>4. ASSUME NEW a \in Articles, Scan(a) PROVE CommittersAreAuthors'
    BY <2>4, ScanEffect DEF CommittersAreAuthors, Exists, Status
  <2>5. CASE Tick
    BY <2>5, TickEffect DEF CommittersAreAuthors, Exists
  <2>6. CASE UNCHANGED vars
    BY <2>6 DEF vars, CommittersAreAuthors, Exists
  <2>. QED  BY <2>1, <2>2, <2>3, <2>4, <2>5, <2>6 DEF Next
<1>. QED  BY <1>1, <1>2, TypeCorrect, PTL DEF Spec

-----------------------------------------------------------------------------
(* An open proposal joins an existing fork to its existing origin.          *)
THEOREM ProposalsJoinForks == Spec => []ProposalsAreForks
<1>1. Init => ProposalsAreForks
  BY DEF Init, ProposalsAreForks
<1>2. TypeOK /\ ProposalsAreForks /\ [Next]_vars => ProposalsAreForks'
  <2> SUFFICES ASSUME TypeOK, ProposalsAreForks, [Next]_vars PROVE ProposalsAreForks'
    OBVIOUS
  <2>0. ASSUME proposals' \subseteq proposals,
               \A b \in Articles : Exists(b) =>
                 Exists(b)' /\ row'[b].forkedFrom = row[b].forkedFrom
        PROVE  ProposalsAreForks'
    BY <2>0 DEF ProposalsAreForks, TypeOK, Proposal
  <2>1. ASSUME NEW a \in Articles, NEW u \in Users, Command(a, u) PROVE ProposalsAreForks'
    <3>1. ASSUME NEW names \in SUBSET Users, Create(a, names, u) PROVE ProposalsAreForks'
      BY <2>0, <3>1 DEF Create, Exists, Status, TypeOK
    <3>2. ASSUME NEW s \in Scores, Publish(a, u, s) PROVE ProposalsAreForks'
      BY <2>0, <3>2, PublishEffect DEF Exists, Status
    <3>3. CASE Edit(a, u) \/ Rollback(a, u)
      BY <2>0, <3>3, ChangeEffect DEF Exists, Status, Writable
    <3>4. ASSUME NEW f \in Articles, Fork(a, u, f) PROVE ProposalsAreForks'
      BY <2>0, <3>4 DEF Fork, Exists, Status, TypeOK
    <3>5. ASSUME NEW f \in Articles, Propose(f, a, u) PROVE ProposalsAreForks'
      BY <3>5 DEF Propose, ProposalsAreForks, Exists
    <3>6. CASE Delete(a, u)
      <4>1. \A p \in proposals' : p \in proposals /\ a # p.fork /\ a # p.target
        BY <3>6 DEF Delete, Cascaded
      <4>2. \A b \in Articles \ {a} : row'[b] = row[b]
        BY <3>6 DEF Delete, TypeOK
      <4>. QED  BY <4>1, <4>2 DEF ProposalsAreForks, Exists, TypeOK, Proposal
    <3>7. ASSUME NEW v \in Users, AddMaintainer(a, u, v) \/ RemoveMaintainer(a, u, v)
          PROVE  ProposalsAreForks'
      BY <3>7 DEF AddMaintainer, RemoveMaintainer, ProposalsAreForks, Exists
    <3>8. CASE Consent(a, u) \/ RevokeConsent(a, u)
      BY <3>8 DEF Consent, RevokeConsent, ProposalsAreForks, Exists
    <3>9. ASSUME NEW s \in Scores, SubmitReview(a, u, s) PROVE ProposalsAreForks'
      BY <2>0, <3>9, SubmitEffect DEF Exists
    <3>. QED
      BY <2>1, <3>1, <3>2, <3>3, <3>4, <3>5, <3>6, <3>7, <3>8, <3>9 DEF Command
  <2>2. ASSUME NEW p \in proposals, WithdrawProposal(p) PROVE ProposalsAreForks'
    BY <2>2 DEF WithdrawProposal, ProposalsAreForks, Exists, people
  <2>3. ASSUME NEW p \in proposals, NEW u \in Users, AcceptMerge(p, u) PROVE ProposalsAreForks'
    BY <2>0, <2>3, MergeEffect DEF Exists, Status
  <2>4. ASSUME NEW a \in Articles, Scan(a) PROVE ProposalsAreForks'
    BY <2>0, <2>4, ScanEffect DEF Exists, Status
  <2>5. CASE Tick
    BY <2>0, <2>5, TickEffect DEF Exists
  <2>6. CASE UNCHANGED vars
    BY <2>6 DEF vars, ProposalsAreForks, Exists
  <2>. QED  BY <2>1, <2>2, <2>3, <2>4, <2>5, <2>6 DEF Next
<1>. QED  BY <1>1, <1>2, TypeCorrect, PTL DEF Spec

-----------------------------------------------------------------------------
(* Approvals are counted: a finite number, and more reviews never lower it. *)
LEMMA ApprovalsCount ==
  ASSUME NEW rs, IsFiniteSet(rs), NEW more, IsFiniteSet(more), rs \subseteq more, NEW au
  PROVE  /\ Cardinality(Approving(rs, au)) \in Nat
         /\ Cardinality(Approving(more, au)) \in Nat
         /\ Cardinality(Approving(rs, au)) <= Cardinality(Approving(more, au))
<1>1. Approving(rs, au) \subseteq Approving(more, au) /\ Approving(more, au) \subseteq more
  BY DEF Approving
<1>2. IsFiniteSet(Approving(more, au))
  BY <1>1, FS_Subset
<1>3. IsFiniteSet(Approving(rs, au)) /\ Cardinality(Approving(rs, au)) <= Cardinality(Approving(more, au))
  BY <1>1, <1>2, FS_Subset
<1>. QED  BY <1>2, <1>3, FS_CardinalityType

(* A review never takes an approval away.                                  *)
LEMMA SubmitKeepsApprovals ==
  ASSUME TypeOK, NEW a \in Articles, NEW u \in Users, NEW s \in Scores, SubmitReview(a, u, s)
  PROVE  Cardinality(Approving(reviews[a], authors[a])) <= Cardinality(Approving(reviews'[a], authors'[a]))
<1>1. reviews'[a] = reviews[a] \cup {ReviewRow(a, u, row[a].status, s)} /\ authors' = authors
  BY SubmitEffect DEF TypeOK
<1>2. IsFiniteSet(reviews[a])
  BY DEF TypeOK
<1>3. IsFiniteSet(reviews'[a])
  BY <1>1, <1>2, FS_AddElement
<1>. QED  BY <1>1, <1>2, <1>3, ApprovalsCount

(* Whatever is published has the approvals it needs from people who are not *)
(* among its authors now.                                                  *)
THEOREM PublishedIsReviewed == Spec => []PublishedWasReviewed
<1>1. Init => PublishedWasReviewed
  BY DEF Init, PublishedWasReviewed, NewRow
<1>2. TypeOK /\ PublishedWasReviewed /\ [Next]_vars => PublishedWasReviewed'
  <2> SUFFICES ASSUME TypeOK, PublishedWasReviewed, [Next]_vars,
                      NEW b \in Articles, row'[b].status = "published"
               PROVE  Approved(b)'
    BY DEF PublishedWasReviewed
  <2>0. ASSUME row[b].status = "published", reviews'[b] = reviews[b], authors'[b] = authors[b]
        PROVE  Approved(b)'
    BY <2>0 DEF PublishedWasReviewed, Approved
  <2>1. ASSUME NEW a \in Articles, NEW u \in Users, Command(a, u) PROVE Approved(b)'
    <3>1. ASSUME NEW names \in SUBSET Users, Create(a, names, u) PROVE Approved(b)'
      BY <2>0, <3>1 DEF Create, NewRow, TypeOK
    <3>2. ASSUME NEW s \in Scores, Publish(a, u, s) PROVE Approved(b)'
      BY <2>0, <3>2, PublishEffect DEF TypeOK
    <3>3. CASE Edit(a, u) \/ Rollback(a, u)
      BY <2>0, <3>3, ChangeEffect DEF TypeOK
    <3>4. ASSUME NEW f \in Articles, Fork(a, u, f) PROVE Approved(b)'
      BY <2>0, <3>4 DEF Fork, NewRow, TypeOK
    <3>5. ASSUME NEW f \in Articles, Propose(f, a, u) PROVE Approved(b)'
      BY <2>0, <3>5 DEF Propose, people
    <3>6. CASE Delete(a, u)
      BY <2>0, <3>6 DEF Delete, TypeOK, Row
    <3>7. ASSUME NEW v \in Users, AddMaintainer(a, u, v) \/ RemoveMaintainer(a, u, v)
          PROVE  Approved(b)'
      BY <2>0, <3>7 DEF AddMaintainer, RemoveMaintainer
    <3>8. CASE Consent(a, u) \/ RevokeConsent(a, u)
      BY <2>0, <3>8 DEF Consent, RevokeConsent
    <3>9. ASSUME NEW s \in Scores, SubmitReview(a, u, s) PROVE Approved(b)'
      <4>1. CASE a = b
        <5>1. row[b].status = "published"
          BY <3>9, <4>1, SubmitEffect
        <5>2. Cardinality(Approving(reviews[b], authors[b])) >= MinApprovals
          BY <5>1 DEF PublishedWasReviewed, Approved
        <5>3. /\ Cardinality(Approving(reviews[b], authors[b])) \in Nat
              /\ Cardinality(Approving(reviews[b], authors[b]))
                   <= Cardinality(Approving(reviews'[b], authors'[b]))
          BY <3>9, <4>1, SubmitKeepsApprovals, ApprovalsCount DEF TypeOK
        <5>4. Cardinality(Approving(reviews'[b], authors'[b])) \in Nat
          <6>1. reviews'[b] = reviews[b] \cup {ReviewRow(a, u, row[a].status, s)}
            BY <3>9, <4>1, SubmitEffect DEF TypeOK
          <6>2. IsFiniteSet(reviews[b])
            BY DEF TypeOK
          <6>3. IsFiniteSet(reviews'[b])
            BY <6>1, <6>2, FS_AddElement
          <6>. QED  BY <6>3, ApprovalsCount
        <5>. QED  BY <5>2, <5>3, <5>4, Days DEF Approved
      <4>2. CASE a # b
        BY <2>0, <3>9, <4>2, SubmitEffect DEF TypeOK
      <4>. QED  BY <4>1, <4>2
    <3>. QED
      BY <2>1, <3>1, <3>2, <3>3, <3>4, <3>5, <3>6, <3>7, <3>8, <3>9 DEF Command
  <2>2. ASSUME NEW p \in proposals, WithdrawProposal(p) PROVE Approved(b)'
    BY <2>0, <2>2 DEF WithdrawProposal, people
  <2>3. ASSUME NEW p \in proposals, NEW u \in Users, AcceptMerge(p, u) PROVE Approved(b)'
    BY <2>0, <2>3, MergeEffect DEF TypeOK
  <2>4. ASSUME NEW a \in Articles, Scan(a) PROVE Approved(b)'
    <3>1. CASE a = b
      BY <2>4, <3>1, ScanEffect DEF Approved
    <3>2. CASE a # b
      BY <2>0, <2>4, <3>2, ScanEffect
    <3>. QED  BY <3>1, <3>2
  <2>5. CASE Tick
    BY <2>0, <2>5, TickEffect
  <2>6. CASE UNCHANGED vars
    BY <2>0, <2>6 DEF vars
  <2>. QED  BY <2>1, <2>2, <2>3, <2>4, <2>5, <2>6 DEF Next
<1>. QED  BY <1>1, <1>2, TypeCorrect, PTL DEF Spec

-----------------------------------------------------------------------------
(* A step that changes the content of a published article, by whatever      *)
(* command, puts it back into the pool with a new timer and a git marker.   *)
THEOREM ChangesReopenReview == Spec => ChangeReopensReview
<1>1. ASSUME TypeOK, Next, NEW b \in Articles PROVE ReopensReview(b)
  <2> USE DEF ReopensReview
  <2>1. ASSUME NEW a \in Articles, NEW u \in Users, Command(a, u) PROVE ReopensReview(b)
    <3>1. ASSUME NEW names \in SUBSET Users, Create(a, names, u) PROVE ReopensReview(b)
      BY <1>1, <3>1 DEF Create, TypeOK
    <3>2. ASSUME NEW s \in Scores, Publish(a, u, s) PROVE ReopensReview(b)
      BY <1>1, <3>2, PublishEffect
    <3>3. CASE Edit(a, u) \/ Rollback(a, u)
      BY <1>1, <3>3, ChangeEffect
    <3>4. ASSUME NEW f \in Articles, Fork(a, u, f) PROVE ReopensReview(b)
      BY <1>1, <3>4 DEF Fork, TypeOK
    <3>5. ASSUME NEW f \in Articles, Propose(f, a, u) PROVE ReopensReview(b)
      BY <3>5 DEF Propose
    <3>6. CASE Delete(a, u)
      BY <1>1, <3>6 DEF Delete, TypeOK
    <3>7. ASSUME NEW v \in Users, AddMaintainer(a, u, v) \/ RemoveMaintainer(a, u, v)
          PROVE  ReopensReview(b)
      BY <3>7 DEF AddMaintainer, RemoveMaintainer
    <3>8. CASE Consent(a, u) \/ RevokeConsent(a, u)
      BY <3>8 DEF Consent, RevokeConsent
    <3>9. ASSUME NEW s \in Scores, SubmitReview(a, u, s) PROVE ReopensReview(b)
      BY <1>1, <3>9, SubmitEffect
    <3>. QED
      BY <2>1, <3>1, <3>2, <3>3, <3>4, <3>5, <3>6, <3>7, <3>8, <3>9 DEF Command
  <2>2. ASSUME NEW p \in proposals, WithdrawProposal(p) PROVE ReopensReview(b)
    BY <2>2 DEF WithdrawProposal
  <2>3. ASSUME NEW p \in proposals, NEW u \in Users, AcceptMerge(p, u) PROVE ReopensReview(b)
    BY <1>1, <2>3, MergeEffect
  <2>4. ASSUME NEW a \in Articles, Scan(a) PROVE ReopensReview(b)
    BY <1>1, <2>4, ScanEffect
  <2>5. CASE Tick
    BY <2>5 DEF Tick
  <2>. QED  BY <1>1, <2>1, <2>2, <2>3, <2>4, <2>5 DEF Next
<1>2. TypeOK /\ [Next]_vars => [ChangedReopen]_vars
  BY <1>1 DEF ChangedReopen
<1>. QED  BY <1>2, TypeCorrect, PTL DEF Spec, ChangeReopensReview

-----------------------------------------------------------------------------
(* The promise of PeerReview.  Reviews come after publishing and go with    *)
(* the article, so whatever is not up for review has none.                  *)
Unreviewed == \A b \in Articles : row[b].status \in {"absent", "draft", "deleted"} => reviews[b] = {}

LEMMA UnreviewedStep == ASSUME TypeOK, Unreviewed, Next PROVE Unreviewed'
<1> SUFFICES ASSUME NEW b \in Articles, row'[b].status \in {"absent", "draft", "deleted"}
             PROVE  reviews'[b] = {}
  BY DEF Unreviewed
<1>0. ASSUME row[b].status \in {"absent", "draft", "deleted"}, reviews'[b] = reviews[b]
      PROVE  reviews'[b] = {}
  BY <1>0 DEF Unreviewed
<1>1. ASSUME NEW a \in Articles, NEW u \in Users, Command(a, u) PROVE reviews'[b] = {}
  <2>1. ASSUME NEW names \in SUBSET Users, Create(a, names, u) PROVE reviews'[b] = {}
    BY <1>0, <2>1 DEF Create, TypeOK
  <2>2. ASSUME NEW s \in Scores, Publish(a, u, s) PROVE reviews'[b] = {}
    BY <1>0, <2>2, PublishEffect
  <2>3. CASE Edit(a, u) \/ Rollback(a, u)
    BY <1>0, <2>3, ChangeEffect DEF Writable
  <2>4. ASSUME NEW f \in Articles, Fork(a, u, f) PROVE reviews'[b] = {}
    BY <1>0, <2>4 DEF Fork, TypeOK
  <2>5. ASSUME NEW f \in Articles, Propose(f, a, u) PROVE reviews'[b] = {}
    BY <1>0, <2>5 DEF Propose
  <2>6. CASE Delete(a, u)
    BY <1>0, <2>6 DEF Delete, TypeOK
  <2>7. ASSUME NEW v \in Users, AddMaintainer(a, u, v) \/ RemoveMaintainer(a, u, v)
        PROVE  reviews'[b] = {}
    BY <1>0, <2>7 DEF AddMaintainer, RemoveMaintainer
  <2>8. CASE Consent(a, u) \/ RevokeConsent(a, u)
    BY <1>0, <2>8 DEF Consent, RevokeConsent
  <2>9. ASSUME NEW s \in Scores, SubmitReview(a, u, s) PROVE reviews'[b] = {}
    BY <1>0, <2>9, SubmitEffect DEF Reviewable, TypeOK
  <2>. QED
    BY <1>1, <2>1, <2>2, <2>3, <2>4, <2>5, <2>6, <2>7, <2>8, <2>9 DEF Command
<1>2. ASSUME NEW p \in proposals, WithdrawProposal(p) PROVE reviews'[b] = {}
  BY <1>0, <1>2 DEF WithdrawProposal
<1>3. ASSUME NEW p \in proposals, NEW u \in Users, AcceptMerge(p, u) PROVE reviews'[b] = {}
  BY <1>0, <1>3, MergeEffect DEF Writable
<1>4. ASSUME NEW a \in Articles, Scan(a) PROVE reviews'[b] = {}
  BY <1>0, <1>4, ScanEffect
<1>5. CASE Tick
  BY <1>0, <1>5, TickEffect
<1>. QED  BY <1>1, <1>2, <1>3, <1>4, <1>5 DEF Next

(* Without reviews there are no approvals, whoever the authors are.         *)
LEMMA NoApprovals ==
  ASSUME NEW a \in Articles
  PROVE  /\ reviews[a] = {} => Approvals[a] = 0
         /\ reviews'[a] = {} => Approvals'[a] = 0
<1>1. \A au : Approving({}, au) = {}
  BY DEF Approving
<1>2. Cardinality({}) = 0
  BY FS_EmptySet
<1>. QED  BY <1>1, <1>2 DEF Approvals

LEMMA ApprovalsType == ASSUME TypeOK PROVE Approvals \in [Articles -> Nat]
<1>1. ASSUME NEW a \in Articles PROVE Cardinality(Approving(reviews[a], authors[a])) \in Nat
  <2>1. IsFiniteSet(reviews[a])
    BY DEF TypeOK
  <2>. QED  BY <2>1, ApprovalsCount
<1>. QED  BY <1>1 DEF Approvals

(* A step that touches the status, reviews and authors of one article only  *)
(* moves that article only.                                                *)
LEMMA OneArticle ==
  ASSUME NEW a \in Articles,
         \A b \in Articles \ {a} : /\ row'[b].status = row[b].status
                                   /\ reviews'[b] = reviews[b]
                                   /\ authors'[b] = authors[b]
  PROVE  /\ Stage' = [Stage EXCEPT ![a] = row'[a].status]
         /\ Approvals' = [Approvals EXCEPT ![a] = Approvals'[a]]
  BY DEF Stage, Approvals

(* What leaves statuses, reviews and authors alone is nothing to readers.   *)
LEMMA Silent ==
  ASSUME \A b \in Articles : row'[b].status = row[b].status, UNCHANGED <<reviews, authors>>
  PROVE  UNCHANGED Promise!vars
  BY DEF Stage, Approvals, Promise!vars

(* Content changes and merges: a draft stays one without approvals, an      *)
(* article in the pool is assessed anew, a published one is reopened.       *)
LEMMA ChangeKeepsPromise ==
  ASSUME TypeOK, TypeOK', Unreviewed, Unreviewed', NEW a \in Articles,
         row[a].status \in Writable,
         row'[a].status = IF row[a].status = "draft" THEN "draft" ELSE "sedimentation",
         \A b \in Articles \ {a} : row'[b].status = row[b].status /\ authors'[b] = authors[b],
         UNCHANGED reviews
  PROVE  Promise!Next \/ UNCHANGED Promise!vars
<1>1. /\ Stage' = [Stage EXCEPT ![a] = row'[a].status]
      /\ Approvals' = [Approvals EXCEPT ![a] = Approvals'[a]]
  BY OneArticle
<1>2. Stage[a] = row[a].status /\ DOMAIN Stage = Articles /\ DOMAIN Approvals = Articles
  BY DEF Stage, Approvals
<1>3. Approvals'[a] \in Nat /\ Approvals[a] \in Nat
  <2>1. Approvals \in [Articles -> Nat]
    BY ApprovalsType
  <2>2. Approvals' \in [Articles -> Nat]
    BY ApprovalsCount DEF Approvals, TypeOK
  <2>. QED  BY <2>1, <2>2
<1>4. CASE row[a].status = "draft"
  <2>1. Approvals[a] = 0 /\ Approvals'[a] = 0
    BY <1>4, NoApprovals DEF Unreviewed
  <2>2. Stage' = Stage
    BY <1>1, <1>2, <1>4 DEF Stage
  <2>3. Approvals' = Approvals
    BY <1>1, <2>1 DEF Approvals
  <2>. QED  BY <2>2, <2>3 DEF Promise!vars
<1>5. CASE row[a].status = "sedimentation"
  <2>1. Stage' = Stage
    BY <1>1, <1>2, <1>5 DEF Stage
  <2>2. Promise!Assess(a)
    BY <1>1, <1>2, <1>3, <1>5, <2>1 DEF Promise!Assess, Promise!Assessed
  <2>. QED  BY <2>2 DEF Promise!Next
<1>6. CASE row[a].status = "published"
  <2>1. Promise!Reopen(a)
    BY <1>1, <1>2, <1>3, <1>6 DEF Promise!Reopen, Promise!Assessed, Promise!Move
  <2>. QED  BY <2>1 DEF Promise!Next
<1>. QED  BY <1>4, <1>5, <1>6 DEF Writable

(* Every command keeps the promise.                                        *)
LEMMA CommandKeepsPromise ==
  ASSUME TypeOK, TypeOK', Unreviewed, Unreviewed',
         NEW a \in Articles, NEW u \in Users, Command(a, u)
  PROVE  Promise!Next \/ UNCHANGED Promise!vars
<1>0. /\ \A b \in Articles : Stage[b] = row[b].status
      /\ DOMAIN Stage = Articles /\ DOMAIN Approvals = Articles
  BY DEF Stage, Approvals
<1>1. Approvals \in [Articles -> Nat] /\ Approvals' \in [Articles -> Nat]
  <2>1. Approvals \in [Articles -> Nat]
    BY ApprovalsType
  <2>2. Approvals' \in [Articles -> Nat]
    BY ApprovalsCount DEF Approvals, TypeOK
  <2>. QED  BY <2>1, <2>2
<1>2. ASSUME NEW c \in Articles, row[c].status = "absent", row'[c].status = "draft",
             \A b \in Articles \ {c} : row'[b].status = row[b].status /\ authors'[b] = authors[b],
             UNCHANGED reviews
      PROVE  Promise!Next
  <2>1. /\ Stage' = [Stage EXCEPT ![c] = "draft"]
        /\ Approvals' = [Approvals EXCEPT ![c] = Approvals'[c]]
    BY <1>2, OneArticle
  <2>2. Approvals[c] = 0 /\ Approvals'[c] = 0
    BY <1>2, NoApprovals DEF Unreviewed
  <2>3. Approvals' = Approvals
    BY <2>1, <2>2, <1>1
  <2>4. Promise!Draft(c)
    BY <2>1, <2>3, <1>0, <1>2 DEF Promise!Draft, Promise!Move
  <2>. QED  BY <2>4 DEF Promise!Next
<1>3. ASSUME NEW names \in SUBSET Users, Create(a, names, u)
      PROVE  Promise!Next
  BY <1>2, <1>3 DEF Create, NewRow, TypeOK
<1>4. ASSUME NEW s \in Scores, Publish(a, u, s) PROVE Promise!Next
  <2>1. /\ row[a].status = "draft" /\ row'[a].status = "sedimentation"
        /\ \A b \in Articles \ {a} : /\ row'[b].status = row[b].status
                                     /\ reviews'[b] = reviews[b]
                                     /\ authors'[b] = authors[b]
    BY <1>4, PublishEffect DEF TypeOK
  <2>2. /\ Stage' = [Stage EXCEPT ![a] = "sedimentation"]
        /\ Approvals' = [Approvals EXCEPT ![a] = Approvals'[a]]
    BY <2>1, OneArticle
  <2>3. Promise!Submit(a)
    BY <2>1, <2>2, <1>0, <1>1 DEF Promise!Submit, Promise!Assessed, Promise!Move
  <2>. QED  BY <2>3 DEF Promise!Next
<1>5. CASE Edit(a, u) \/ Rollback(a, u)
  <2>1. /\ row[a].status \in Writable
        /\ row'[a].status = IF row[a].status = "draft" THEN "draft" ELSE "sedimentation"
        /\ authors' = [authors EXCEPT ![a] = Credited(a, {u})]
        /\ \A b \in Articles \ {a} : row'[b] = row[b]
        /\ UNCHANGED reviews
    BY <1>5, ChangeEffect
  <2>2. \A b \in Articles \ {a} : row'[b].status = row[b].status /\ authors'[b] = authors[b]
    BY <2>1 DEF TypeOK
  <2>. QED  BY <2>1, <2>2, ChangeKeepsPromise
<1>6. ASSUME NEW f \in Articles, Fork(a, u, f) PROVE Promise!Next
  BY <1>2, <1>6 DEF Fork, NewRow, TypeOK
<1>7. ASSUME NEW f \in Articles, Propose(f, a, u) PROVE UNCHANGED Promise!vars
  BY <1>7, Silent DEF Propose, people
<1>8. CASE Delete(a, u)
  <2>1. /\ row[a].status = "draft" /\ row'[a].status = "deleted" /\ reviews'[a] = {}
        /\ \A b \in Articles \ {a} : /\ row'[b].status = row[b].status
                                     /\ reviews'[b] = reviews[b]
                                     /\ authors'[b] = authors[b]
    BY <1>8 DEF Delete, TypeOK, Row
  <2>2. /\ Stage' = [Stage EXCEPT ![a] = "deleted"]
        /\ Approvals' = [Approvals EXCEPT ![a] = Approvals'[a]]
    BY <2>1, OneArticle
  <2>3. Approvals'[a] = 0
    BY <2>1, NoApprovals
  <2>4. Promise!Withdraw(a)
    BY <2>1, <2>2, <2>3, <1>0 DEF Promise!Withdraw, Promise!Move
  <2>. QED  BY <2>4 DEF Promise!Next
<1>9. ASSUME NEW v \in Users, AddMaintainer(a, u, v) \/ RemoveMaintainer(a, u, v)
      PROVE  UNCHANGED Promise!vars
  BY <1>9, Silent DEF AddMaintainer, RemoveMaintainer
<1>10. CASE Consent(a, u) \/ RevokeConsent(a, u)
  BY <1>10, Silent DEF Consent, RevokeConsent
<1>11. ASSUME NEW s \in Scores, SubmitReview(a, u, s) PROVE Promise!Next
  <2>1. /\ row[a].status \in Reviewable /\ row'[a].status = row[a].status
        /\ \A b \in Articles \ {a} : /\ row'[b].status = row[b].status
                                     /\ reviews'[b] = reviews[b]
                                     /\ authors'[b] = authors[b]
    BY <1>11, SubmitEffect DEF TypeOK
  <2>2. /\ Stage' = Stage
        /\ Approvals' = [Approvals EXCEPT ![a] = Approvals'[a]]
    BY <2>1, OneArticle DEF Stage
  <2>3. Approvals[a] <= Approvals'[a]
    BY <1>11, SubmitKeepsApprovals DEF Approvals
  <2>4. Promise!Assess(a)
    BY <2>1, <2>2, <2>3, <1>0, <1>1 DEF Promise!Assess, Promise!Assessed, Reviewable
  <2>. QED  BY <2>4 DEF Promise!Next
<1>. QED
  BY <1>3, <1>4, <1>5, <1>6, <1>7, <1>8, <1>9, <1>10, <1>11 DEF Command

(* So does every scan: it accepts what has enough approvals and rejects     *)
(* only what has not.                                                      *)
LEMMA ScanKeepsPromise ==
  ASSUME TypeOK, NEW a \in Articles, Scan(a)
  PROVE  Promise!Next \/ UNCHANGED Promise!vars
<1>1. /\ row[a].status = "sedimentation"
      /\ \/ Approved(a) /\ row'[a].status = "published"
         \/ ~Approved(a) /\ row'[a].status \in {"sedimentation", "rejected"}
      /\ \A b \in Articles \ {a} : row'[b].status = row[b].status
      /\ UNCHANGED <<reviews, authors>>
  BY ScanEffect
<1>2. Stage' = [Stage EXCEPT ![a] = row'[a].status] /\ Stage[a] = "sedimentation"
  BY <1>1, OneArticle DEF Stage
<1>3. Approvals' = Approvals
  BY <1>1 DEF Approvals
<1>4. Approved(a) <=> Approvals[a] >= MinApprovals
  BY DEF Approved, Approvals
<1>5. Approvals[a] \in Nat /\ MinApprovals \in Nat
  BY ApprovalsType, Days
<1>6. CASE row'[a].status = "sedimentation"
  BY <1>1, <1>6, Silent
<1>7. CASE row'[a].status = "published"
  <2>1. Promise!Accept(a)
    BY <1>1, <1>2, <1>3, <1>4, <1>7 DEF Promise!Accept, Promise!Move
  <2>. QED  BY <2>1 DEF Promise!Next
<1>8. CASE row'[a].status = "rejected"
  <2>1. Promise!Reject(a)
    BY <1>1, <1>2, <1>3, <1>4, <1>5, <1>8 DEF Promise!Reject, Promise!Move
  <2>. QED  BY <2>1 DEF Promise!Next
<1>. QED  BY <1>1, <1>6, <1>7, <1>8

(* The sedimentation pool implements peer review as PeerReview states it:   *)
(* nothing is published that too few people approved, a verdict is given in *)
(* the pool only, rejection is final, and what is published keeps its       *)
(* approvals.                                                              *)
THEOREM PromiseIsKept == Spec => KeepsPromise
<1>1. Init => Promise!Init /\ Unreviewed
  <2>1. ASSUME Init PROVE Unreviewed
    BY <2>1 DEF Init, Unreviewed
  <2>2. ASSUME Init PROVE Promise!Init
    <3>1. Stage = [a \in Articles |-> "absent"]
      BY <2>2 DEF Init, Stage, NewRow
    <3>2. \A a \in Articles : Approvals[a] = 0
      BY <2>2, NoApprovals DEF Init
    <3>3. Approvals = [a \in Articles |-> 0]
      BY <3>2 DEF Approvals
    <3>. QED  BY <3>1, <3>3 DEF Promise!Init
  <2>. QED  BY <2>1, <2>2
<1>2. TypeOK /\ Unreviewed /\ [Next]_vars => Unreviewed'
  <2>1. ASSUME Unreviewed, UNCHANGED vars PROVE Unreviewed'
    BY <2>1 DEF Unreviewed, vars
  <2>. QED  BY <2>1, UnreviewedStep
<1>3. TypeOK /\ TypeOK' /\ Unreviewed /\ Unreviewed' /\ [Next]_vars
        => [Promise!Next]_(Promise!vars)
  <2> SUFFICES ASSUME TypeOK, TypeOK', Unreviewed, Unreviewed', [Next]_vars
               PROVE  Promise!Next \/ UNCHANGED Promise!vars
    OBVIOUS
  <2>1. ASSUME NEW a \in Articles, NEW u \in Users, Command(a, u)
        PROVE  Promise!Next \/ UNCHANGED Promise!vars
    BY <2>1, CommandKeepsPromise
  <2>2. ASSUME NEW p \in proposals, WithdrawProposal(p) PROVE UNCHANGED Promise!vars
    BY <2>2, Silent DEF WithdrawProposal, people
  <2>3. ASSUME NEW p \in proposals, NEW u \in Users, AcceptMerge(p, u)
        PROVE  Promise!Next \/ UNCHANGED Promise!vars
    <3> DEFINE a == p.target
    <3>1. /\ a \in Articles /\ row[a].status \in Writable
          /\ row'[a].status = IF row[a].status = "draft" THEN "draft" ELSE "sedimentation"
          /\ \A b \in Articles \ {a} : row'[b].status = row[b].status /\ authors'[b] = authors[b]
          /\ UNCHANGED reviews
      BY <2>3, MergeEffect DEF TypeOK
    <3>. HIDE DEF a
    <3>. QED  BY <3>1, ChangeKeepsPromise
  <2>4. ASSUME NEW a \in Articles, Scan(a) PROVE Promise!Next \/ UNCHANGED Promise!vars
    BY <2>4, ScanKeepsPromise
  <2>5. CASE Tick
    BY <2>5, TickEffect, Silent
  <2>6. CASE UNCHANGED vars
    BY <2>6, Silent DEF vars
  <2>. QED  BY <2>1, <2>2, <2>3, <2>4, <2>5, <2>6 DEF Next
<1>. QED  BY <1>1, <1>2, <1>3, TypeCorrect, PTL DEF Spec, KeepsPromise, Promise!Spec
=============================================================================
