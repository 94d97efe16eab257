-------------------------- MODULE Reviewing_proofs --------------------------
(***************************************************************************)
(* Reviews, invitations and scores.  For any users and reviews.             *)
(***************************************************************************)
EXTENDS Parts, FiniteSetTheorems, WellFoundedInduction, SequenceTheorems, TLAPS

(* A review of u was committed in one of the directories of u.             *)
ReviewCommitted(u, at) ==
  \E d \in Rv!Dirs : d.of = u /\ \E k \in DOMAIN rvThreads[d] :
    rvThreads[d][k].kind = "review" /\ rvThreads[d][k].at = at

(* A row is a review that was committed before, or an invitation.          *)
ReviewRowOK(r) ==
  /\ r.state = "submitted" => r.commit \in 0 .. (rvMade - 1) /\ ReviewCommitted(r.reviewer, r.commit)
  /\ r.state # "submitted" => r.commit = Rv!Pending /\ r.scope = "sedimentation"

ReviewRows == \A i \in DOMAIN rvRows : ReviewRowOK(rvRows[i])

(* One row for each reviewer and commit, the pending one included.         *)
ReviewKeys ==
  \A i, j \in DOMAIN rvRows :
    rvRows[i].reviewer = rvRows[j].reviewer /\ rvRows[i].commit = rvRows[j].commit => i = j

(* A review that is being written is committed and has no row yet.         *)
ReviewWriting ==
  \A u \in Users : rvWriting[u] # Rv!None =>
    /\ rvWriting[u] \in 0 .. (rvMade - 1) /\ ReviewCommitted(u, rvWriting[u])
    /\ \A i \in DOMAIN rvRows : rvRows[i].reviewer = u => rvRows[i].commit # rvWriting[u]

ReviewDraft == rvStatus = "draft" => rvMade = 0

ReviewLengths == \A d \in Rv!Dirs : Len(rvThreads[d]) <= rvMade

ReviewInv ==
  /\ Rv!TypeOK /\ Rv!PoolIsAnonymous
  /\ ReviewRows /\ ReviewKeys /\ ReviewWriting /\ ReviewDraft /\ ReviewLengths

(* The newest of some rows is one of them.                                 *)
LEMMA NewestIsOne ==
  ASSUME NEW n \in Nat, NEW S \in SUBSET (1 .. n), S # {}
  PROVE  Rv!Newest(S) \in S
<1> DEFINE T == {n - i : i \in S}
<1>1. T \subseteq Nat
  OBVIOUS
<1>2. T # {}
  <2>1. PICK i \in S : TRUE
    OBVIOUS
  <2>2. n - i \in T
    BY <2>1
  <2>. QED  BY <2>2
<1>3. PICK x \in T : \A y \in T : ~(<<y, x>> \in OpToRel(<, Nat))
  <2>. HIDE DEF T
  <2>. QED  BY <1>1, <1>2, NatLessThanWellFounded, WFMin
<1>4. \A a, b \in Nat : a < b => <<a, b>> \in OpToRel(<, Nat)
  BY DEF OpToRel
<1>5. PICK m \in S : x = n - m
  OBVIOUS
<1>6. ASSUME NEW i \in S PROVE i <= m
  <2>1. n - i \in T /\ n - i \in Nat /\ x \in Nat
    BY <1>1
  <2>2. ~(n - i < x)
    <3>. HIDE DEF T
    <3>. QED  BY <1>3, <1>4, <2>1
  <2>. QED  BY <1>5, <2>2
<1>. QED  BY <1>5, <1>6 DEF Rv!Newest

LEMMA ReviewInitInv == Rv!ReviewParams /\ Rv!Init => ReviewInv
<1> SUFFICES ASSUME Rv!ReviewParams, Rv!Init PROVE ReviewInv
  OBVIOUS
<1>1. rvRows = <<>> /\ rvRows \in Seq(Rv!Row) /\ DOMAIN rvRows = {}
  BY DEF Rv!Init
<1>2. rvThreads \in [Rv!Dirs -> Seq(Rv!Message)] /\ \A d \in Rv!Dirs : DOMAIN rvThreads[d] = {} /\ Len(rvThreads[d]) = 0
  BY DEF Rv!Init
<1>3. rvWriting \in [Users -> Nat \cup {Rv!None}] /\ \A u \in Users : rvWriting[u] = Rv!None
  BY DEF Rv!Init
<1>4. Rv!TypeOK
  BY <1>1, <1>2, <1>3 DEF Rv!Init, Rv!TypeOK, Rv!ReviewParams
<1>. QED  BY <1>1, <1>2, <1>3, <1>4 DEF Rv!Init, ReviewInv, ReviewRows, ReviewKeys, ReviewWriting, ReviewDraft,
             ReviewLengths, Rv!PoolIsAnonymous

(* A message more.                                                         *)
LEMMA ReviewWrites ==
  ASSUME Rv!ReviewParams, ReviewInv, NEW dir \in Rv!Dirs, NEW u \in Users,
         NEW kind \in {"review", "reply"}, NEW to \in Users, NEW during \in Rv!Reviewable,
         Rv!WriteTo(dir, u, kind, to, during),
         dir.anonymous \/ during # "sedimentation" \/ u \in Maintainers
  PROVE  /\ rvThreads' \in [Rv!Dirs -> Seq(Rv!Message)] /\ rvMade' = rvMade + 1
         /\ rvMade' \in 0 .. MaxMessages /\ rvMade \in Nat
         /\ Rv!PoolIsAnonymous' /\ ReviewLengths'
         /\ \A v \in Users : \A at \in Nat : ReviewCommitted(v, at) => ReviewCommitted(v, at)'
         /\ kind = "review" => \A at : at = rvMade => ReviewCommitted(dir.of, at)'
<1> DEFINE m == [by |-> u, kind |-> kind, to |-> to, during |-> during, at |-> rvMade]
<1>1. /\ rvThreads \in [Rv!Dirs -> Seq(Rv!Message)] /\ rvMade \in 0 .. MaxMessages
      /\ rvMade < MaxMessages /\ MaxMessages \in Nat
      /\ rvThreads' = [rvThreads EXCEPT ![dir] = Append(rvThreads[dir], m)] /\ rvMade' = rvMade + 1
  BY DEF ReviewInv, Rv!TypeOK, Rv!WriteTo, Rv!ReviewParams
<1>2. m \in Rv!Message /\ m.kind = kind /\ m.at = rvMade /\ m.by = u /\ m.during = during
  BY <1>1 DEF Rv!Message
<1>. HIDE DEF m
<1>3. /\ rvThreads' \in [Rv!Dirs -> Seq(Rv!Message)] /\ rvThreads'[dir] = Append(rvThreads[dir], m)
      /\ \A d \in Rv!Dirs \ {dir} : rvThreads'[d] = rvThreads[d]
  BY <1>1, <1>2
<1>4. /\ DOMAIN rvThreads'[dir] = DOMAIN rvThreads[dir] \cup {Len(rvThreads[dir]) + 1}
      /\ rvThreads'[dir][Len(rvThreads[dir]) + 1] = m
      /\ \A k \in DOMAIN rvThreads[dir] : rvThreads'[dir][k] = rvThreads[dir][k]
  BY <1>1, <1>2, <1>3
<1>5. Rv!PoolIsAnonymous'
  <2>. SUFFICES ASSUME NEW d \in Rv!Dirs, ~d.anonymous, NEW k \in DOMAIN rvThreads'[d],
                       rvThreads'[d][k].during = "sedimentation"
                PROVE  rvThreads'[d][k].by \in Maintainers
    BY DEF Rv!PoolIsAnonymous
  <2>1. CASE d = dir /\ k = Len(rvThreads[dir]) + 1
    BY <1>2, <1>4, <2>1
  <2>2. CASE d = dir /\ k \in DOMAIN rvThreads[dir]
    BY <1>4, <2>2 DEF ReviewInv, Rv!PoolIsAnonymous
  <2>3. CASE d # dir
    BY <1>3, <2>3 DEF ReviewInv, Rv!PoolIsAnonymous
  <2>. QED  BY <1>4, <2>1, <2>2, <2>3
<1>6. ASSUME NEW v \in Users, NEW at \in Nat, ReviewCommitted(v, at) PROVE ReviewCommitted(v, at)'
  <2>1. PICK d \in Rv!Dirs : d.of = v /\ \E k \in DOMAIN rvThreads[d] :
          rvThreads[d][k].kind = "review" /\ rvThreads[d][k].at = at
    BY <1>6 DEF ReviewCommitted
  <2>2. PICK k \in DOMAIN rvThreads[d] : rvThreads[d][k].kind = "review" /\ rvThreads[d][k].at = at
    BY <2>1
  <2>3. k \in DOMAIN rvThreads'[d] /\ rvThreads'[d][k] = rvThreads[d][k]
    BY <1>3, <1>4, <2>2
  <2>. QED  BY <2>1, <2>2, <2>3 DEF ReviewCommitted
<1>7. kind = "review" => \A at : at = rvMade => ReviewCommitted(dir.of, at)'
  <2>1. /\ Len(rvThreads[dir]) + 1 \in DOMAIN rvThreads'[dir]
        /\ rvThreads'[dir][Len(rvThreads[dir]) + 1].at = rvMade
        /\ rvThreads'[dir][Len(rvThreads[dir]) + 1].kind = kind
    BY <1>2, <1>4
  <2>2. ASSUME NEW at, NEW k \in DOMAIN rvThreads'[dir], rvThreads'[dir][k].at = at,
               rvThreads'[dir][k].kind = "review"
        PROVE  ReviewCommitted(dir.of, at)'
    BY <2>2 DEF ReviewCommitted
  <2>. QED  BY <2>1, <2>2
<1>8. ReviewLengths'
  <2>. SUFFICES ASSUME NEW d \in Rv!Dirs PROVE Len(rvThreads'[d]) <= rvMade + 1
    BY <1>1 DEF ReviewLengths
  <2>1. rvThreads[d] \in Seq(Rv!Message) /\ Len(rvThreads[d]) <= rvMade /\ Len(rvThreads[d]) \in Nat
    BY <1>1 DEF ReviewInv, ReviewLengths
  <2>2. CASE d = dir
    BY <1>1, <1>2, <1>3, <2>1, <2>2
  <2>3. CASE d # dir
    BY <1>1, <1>3, <2>1, <2>3
  <2>. QED  BY <2>2, <2>3
<1>. QED  BY <1>1, <1>3, <1>5, <1>6, <1>7, <1>8

(* A row more, or another row in its place.                                *)
LEMMA ReviewPuts ==
  ASSUME ReviewInv, NEW r \in Rv!Row, NEW n, rvMade' \in Nat, rvMade' >= rvMade,
         \/ n = Len(rvRows) + 1 /\ rvRows' = Append(rvRows, r)
         \/ n \in DOMAIN rvRows /\ rvRows' = [rvRows EXCEPT ![n] = r],
         \A j \in DOMAIN rvRows \ {n} : ~(rvRows[j].reviewer = r.reviewer /\ rvRows[j].commit = r.commit),
         \A v \in Users : \A at \in Nat : ReviewCommitted(v, at) => ReviewCommitted(v, at)',
         ReviewRowOK(r)'
  PROVE  /\ rvRows' \in Seq(Rv!Row) /\ ReviewRows' /\ ReviewKeys'
         /\ \A i \in DOMAIN rvRows' : rvRows'[i] = r \/ (i \in DOMAIN rvRows /\ rvRows'[i] = rvRows[i])
<1>1. rvRows \in Seq(Rv!Row) /\ rvMade \in Nat
  BY DEF ReviewInv, Rv!TypeOK
<1>2. /\ rvRows' \in Seq(Rv!Row) /\ rvRows'[n] = r /\ DOMAIN rvRows' = DOMAIN rvRows \cup {n}
      /\ \A i \in DOMAIN rvRows \ {n} : rvRows'[i] = rvRows[i]
  <2>1. CASE n = Len(rvRows) + 1 /\ rvRows' = Append(rvRows, r)
    BY <1>1, <2>1
  <2>2. CASE n \in DOMAIN rvRows /\ rvRows' = [rvRows EXCEPT ![n] = r]
    <3>1. n \in 1 .. Len(rvRows) /\ DOMAIN rvRows = 1 .. Len(rvRows)
      BY <1>1, <2>2
    <3>2. rvRows' \in Seq(Rv!Row) /\ Len(rvRows') = Len(rvRows)
      BY <1>1, <2>2, <3>1, ExceptSeq
    <3>. QED  BY <1>1, <2>2, <3>1, <3>2
  <2>. QED  BY <2>1, <2>2
<1>3. ASSUME NEW i \in DOMAIN rvRows \ {n} PROVE ReviewRowOK(rvRows[i])'
  <2>1. rvRows'[i] = rvRows[i] /\ ReviewRowOK(rvRows[i]) /\ rvRows[i] \in Rv!Row
    BY <1>1, <1>2 DEF ReviewInv, ReviewRows
  <2>2. rvRows[i].reviewer \in Users
    BY <2>1 DEF Rv!Row
  <2>. QED  BY <1>1, <2>1, <2>2 DEF ReviewRowOK
<1>4. ReviewRows'
  <2>1. ASSUME NEW i \in DOMAIN rvRows' PROVE ReviewRowOK(rvRows[i])'
    <3>1. CASE i = n
      BY <1>2, <3>1 DEF ReviewRowOK
    <3>2. CASE i # n
      BY <1>2, <1>3, <3>2
    <3>. QED  BY <3>1, <3>2
  <2>. QED  BY <2>1 DEF ReviewRows
<1>5. ReviewKeys'
  BY <1>2 DEF ReviewInv, ReviewKeys
<1>. QED  BY <1>2, <1>4, <1>5

LEMMA ReviewOfAuthor ==
  ASSUME NEW u \in Users, NEW ref \in Users
  PROVE  /\ Rv!Directory(u, ref) \in Rv!Dirs
         /\ rvStatus = "sedimentation" => Rv!Directory(u, ref).anonymous
         /\ ref = u => Rv!Directory(u, ref).of = u
  BY DEF Rv!Directory, Rv!Dirs

LEMMA ReviewNotified ==
  ASSUME Rv!TypeOK, NEW tos \in SUBSET Users, NEW u \in Users,
         NEW event \in {"review_invitation", "review_submitted", "review_reply"},
         Rv!Notify(tos, event, u)
  PROVE  rvInbox' \subseteq [to : Users, from : Users,
                             event : {"review_invitation", "review_submitted", "review_reply"}]
<1>1. [to : tos, event : {event}, from : {u}] \subseteq
        [to : Users, from : Users, event : {"review_invitation", "review_submitted", "review_reply"}]
  OBVIOUS
<1>. QED  BY <1>1 DEF Rv!TypeOK, Rv!Notify

LEMMA ReviewPublishStep ==
  ASSUME Rv!ReviewParams, ReviewInv, NEW u \in Users, Rv!Publish(u)
  PROVE  ReviewInv'
<1> DEFINE dir == [of |-> u, anonymous |-> FALSE]
           r == [reviewer |-> u, scope |-> "sedimentation", state |-> "submitted",
                 commit |-> rvMade, rated |-> FALSE]
<1>1. /\ u \in Maintainers /\ Rv!TypeOK /\ rvStatus' = "sedimentation"
      /\ rvPhases < MaxPhases /\ rvPhases' = rvPhases + 1
      /\ Rv!WriteTo(dir, u, "review", u, "sedimentation")
      /\ rvRows' = Append(rvRows, r) /\ UNCHANGED <<rvWriting, rvInbox>>
  BY DEF Rv!Publish, Rv!Enter, ReviewInv
<1>2. dir \in Rv!Dirs /\ dir.of = u /\ "sedimentation" \in Rv!Reviewable
  BY DEF Rv!Dirs, Rv!Reviewable
<1>. HIDE DEF dir
<1>3. /\ rvThreads' \in [Rv!Dirs -> Seq(Rv!Message)] /\ rvMade' = rvMade + 1
      /\ rvMade' \in 0 .. MaxMessages /\ rvMade \in Nat /\ Rv!PoolIsAnonymous' /\ ReviewLengths'
      /\ \A v \in Users : \A at \in Nat : ReviewCommitted(v, at) => ReviewCommitted(v, at)'
      /\ \A at : at = rvMade => ReviewCommitted(u, at)'
  BY <1>1, <1>2, ReviewWrites
<1>4. PICK n : n = Len(rvRows) + 1
  OBVIOUS
<1>5. PICK q : q = r
  OBVIOUS
<1>6. q \in Rv!Row /\ q.reviewer = u /\ q.commit = rvMade /\ q.state = "submitted"
  BY <1>3, <1>5 DEF Rv!Row, Rv!States
<1>7. \A j \in DOMAIN rvRows : rvRows[j].commit # rvMade
  BY <1>3 DEF ReviewInv, ReviewRows, ReviewRowOK, Rv!Pending
<1>8. ReviewRowOK(q)'
  BY <1>3, <1>6 DEF ReviewRowOK
<1>9. /\ rvRows' \in Seq(Rv!Row) /\ ReviewRows' /\ ReviewKeys'
      /\ \A i \in DOMAIN rvRows' : rvRows'[i] = q \/ (i \in DOMAIN rvRows /\ rvRows'[i] = rvRows[i])
  <2>. HIDE DEF r
  <2>1. rvRows' = Append(rvRows, q) /\ rvMade' \in Nat /\ rvMade' >= rvMade
    BY <1>1, <1>3, <1>5
  <2>. QED  BY <1>3, <1>4, <1>6, <1>7, <1>8, <2>1, ReviewPuts
<1>10. ReviewWriting'
  BY <1>1, <1>3, <1>6, <1>9 DEF ReviewInv, ReviewWriting
<1>11. Rv!TypeOK'
  BY <1>1, <1>3, <1>9 DEF Rv!TypeOK, Rv!ReviewParams
<1>. QED  BY <1>1, <1>3, <1>9, <1>10, <1>11 DEF ReviewInv, ReviewDraft

LEMMA ReviewStatusStep ==
  ASSUME Rv!ReviewParams, ReviewInv, Rv!Verdict \/ Rv!Reopen
  PROVE  ReviewInv'
<1>1. /\ rvStatus' \in {"published", "rejected", "sedimentation"}
      /\ rvPhases < MaxPhases /\ rvPhases' = rvPhases + 1
      /\ UNCHANGED <<rvRows, rvThreads, rvMade, rvWriting, rvInbox>>
  BY DEF Rv!Verdict, Rv!Reopen, Rv!Enter
<1>. QED  BY <1>1 DEF ReviewInv, Rv!TypeOK, Rv!ReviewParams, ReviewRows, ReviewRowOK, ReviewKeys,
             ReviewWriting, ReviewDraft, ReviewLengths, ReviewCommitted, Rv!PoolIsAnonymous

(* Invitations and ratings: a row of no new review.                         *)
LEMMA ReviewRowStep ==
  ASSUME ReviewInv, NEW r \in Rv!Row, NEW n,
         \/ n = Len(rvRows) + 1 /\ rvRows' = Append(rvRows, r) /\ r.commit = Rv!Pending
         \/ /\ n \in DOMAIN rvRows /\ rvRows' = [rvRows EXCEPT ![n] = r]
            /\ r.reviewer = rvRows[n].reviewer /\ r.commit = rvRows[n].commit,
         \A j \in DOMAIN rvRows \ {n} : ~(rvRows[j].reviewer = r.reviewer /\ rvRows[j].commit = r.commit),
         ReviewRowOK(r), UNCHANGED <<rvStatus, rvPhases, rvThreads, rvMade, rvWriting>>,
         rvInbox' \subseteq [to : Users, from : Users,
                             event : {"review_invitation", "review_submitted", "review_reply"}]
  PROVE  ReviewInv'
<1>1. rvMade' \in Nat /\ rvMade' >= rvMade
  BY DEF ReviewInv, Rv!TypeOK
<1>2. /\ \A v \in Users : \A at \in Nat : ReviewCommitted(v, at) => ReviewCommitted(v, at)'
      /\ ReviewRowOK(r)'
  BY DEF ReviewCommitted, ReviewRowOK
<1>3. /\ rvRows' \in Seq(Rv!Row) /\ ReviewRows' /\ ReviewKeys'
      /\ \A i \in DOMAIN rvRows' : rvRows'[i] = r \/ (i \in DOMAIN rvRows /\ rvRows'[i] = rvRows[i])
  BY <1>1, <1>2, ReviewPuts
<1>4. ReviewWriting'
  <2>. SUFFICES ASSUME NEW u \in Users, rvWriting[u] # Rv!None
                PROVE  /\ rvWriting[u] \in 0 .. (rvMade - 1) /\ ReviewCommitted(u, rvWriting[u])'
                       /\ \A i \in DOMAIN rvRows' : rvRows'[i].reviewer = u =>
                            rvRows'[i].commit # rvWriting[u]
    BY DEF ReviewWriting
  <2>1. /\ rvWriting[u] \in 0 .. (rvMade - 1) /\ ReviewCommitted(u, rvWriting[u])
        /\ \A i \in DOMAIN rvRows : rvRows[i].reviewer = u => rvRows[i].commit # rvWriting[u]
    BY DEF ReviewInv, ReviewWriting
  <2>2. ReviewCommitted(u, rvWriting[u])'
    BY <2>1 DEF ReviewCommitted
  <2>3. Rv!Pending # rvWriting[u]
    BY <2>1 DEF Rv!Pending
  <2>4. r.reviewer = u => r.commit # rvWriting[u]
    BY <2>1, <2>3
  <2>. QED  BY <1>3, <2>1, <2>2, <2>4
<1>5. Rv!TypeOK'
  BY <1>3 DEF ReviewInv, Rv!TypeOK
<1>6. Rv!PoolIsAnonymous'
  BY DEF ReviewInv, Rv!PoolIsAnonymous
<1>. QED  BY <1>3, <1>4, <1>5, <1>6 DEF ReviewInv, ReviewDraft, ReviewLengths

LEMMA ReviewInviteStep ==
  ASSUME Rv!ReviewParams, ReviewInv, NEW m \in Users, NEW u \in Users, Rv!Invite(m, u)
  PROVE  ReviewInv'
<1> DEFINE r == [reviewer |-> u, scope |-> "sedimentation", state |-> "invited",
                 commit |-> Rv!Pending, rated |-> FALSE]
<1>1. /\ Rv!TypeOK /\ Rv!Insertable(r) /\ rvRows' = Append(rvRows, r)
      /\ Rv!Notify({u}, "review_invitation", m)
      /\ UNCHANGED <<rvStatus, rvPhases, rvThreads, rvMade, rvWriting>>
  BY DEF Rv!Invite, ReviewInv
<1>2. r \in Rv!Row
  BY DEF Rv!Row, Rv!States
<1>3. \A j \in DOMAIN rvRows : ~(rvRows[j].reviewer = r.reviewer /\ rvRows[j].commit = r.commit)
  <2>. SUFFICES ASSUME NEW j \in DOMAIN rvRows, rvRows[j].reviewer = u, rvRows[j].commit = Rv!Pending
                PROVE  FALSE
    OBVIOUS
  <2>1. rvRows[j].scope = "sedimentation"
    BY DEF ReviewInv, ReviewRows, ReviewRowOK, Rv!Pending
  <2>. QED  BY <1>1, <2>1 DEF Rv!Insertable, Rv!SameKey
<1>4. ReviewRowOK(r) /\ r.commit = Rv!Pending
  BY DEF ReviewRowOK
<1>5. rvInbox' \subseteq [to : Users, from : Users,
                          event : {"review_invitation", "review_submitted", "review_reply"}]
  BY <1>1, ReviewNotified
<1>6. PICK n : n = Len(rvRows) + 1
  OBVIOUS
<1>. HIDE DEF r
<1>. QED  BY <1>1, <1>2, <1>3, <1>4, <1>5, <1>6, ReviewRowStep

LEMMA ReviewAnswerStep ==
  ASSUME ReviewInv, NEW u \in Users, NEW state \in {"accepted", "declined"}, Rv!Answer(u, state)
  PROVE  ReviewInv'
<1>1. PICK n : n = Rv!Newest(Rv!Invited(u))
  OBVIOUS
<1>2. /\ rvRows \in Seq(Rv!Row) /\ Rv!Invited(u) # {} /\ Rv!TypeOK
      /\ rvRows' = [rvRows EXCEPT ![n] = [rvRows[n] EXCEPT !.state = state]]
      /\ UNCHANGED <<rvStatus, rvPhases, rvThreads, rvMade, rvWriting, rvInbox>>
  BY <1>1 DEF Rv!Answer, Rv!SetState, ReviewInv, Rv!TypeOK
<1>3. n \in Rv!Invited(u)
  <2>1. Rv!Invited(u) \in SUBSET (1 .. Len(rvRows)) /\ Len(rvRows) \in Nat
    BY <1>2 DEF Rv!Invited, Rv!RowsOf
  <2>. QED  BY <1>1, <1>2, <2>1, NewestIsOne
<1>4. n \in DOMAIN rvRows /\ rvRows[n].state = "invited" /\ rvRows[n] \in Rv!Row
  BY <1>2, <1>3 DEF Rv!Invited, Rv!RowsOf
<1>5. PICK r : r = [rvRows[n] EXCEPT !.state = state]
  OBVIOUS
<1>6. /\ r \in Rv!Row /\ r.reviewer = rvRows[n].reviewer /\ r.commit = rvRows[n].commit
      /\ r.state = state /\ r.scope = rvRows[n].scope
  BY <1>4, <1>5 DEF Rv!Row, Rv!States
<1>7. ReviewRowOK(r)
  BY <1>4, <1>6 DEF ReviewInv, ReviewRows, ReviewRowOK
<1>8. \A j \in DOMAIN rvRows \ {n} : ~(rvRows[j].reviewer = r.reviewer /\ rvRows[j].commit = r.commit)
  BY <1>4, <1>6 DEF ReviewInv, ReviewKeys
<1>9. rvRows' = [rvRows EXCEPT ![n] = r]
  BY <1>2, <1>5
<1>. QED  BY <1>2, <1>4, <1>6, <1>7, <1>8, <1>9, ReviewRowStep DEF Rv!TypeOK

LEMMA ReviewRateStep ==
  ASSUME ReviewInv, NEW m \in Users, NEW u \in Users, Rv!Rate(m, u)
  PROVE  ReviewInv'
<1> DEFINE own == {i \in DOMAIN rvRows : rvRows[i].reviewer = u}
<1>1. PICK n : n = Rv!Newest(own)
  OBVIOUS
<1>2. /\ rvRows \in Seq(Rv!Row) /\ own # {} /\ Rv!TypeOK
      /\ rvRows' = [rvRows EXCEPT ![n] = [rvRows[n] EXCEPT !.rated = TRUE]]
      /\ UNCHANGED <<rvStatus, rvPhases, rvThreads, rvMade, rvWriting, rvInbox>>
  BY <1>1 DEF Rv!Rate, ReviewInv, Rv!TypeOK
<1>3. n \in DOMAIN rvRows
  <2>1. own \in SUBSET (1 .. Len(rvRows)) /\ Len(rvRows) \in Nat
    BY <1>2
  <2>2. n \in own
    <3>. HIDE DEF own
    <3>. QED  BY <1>1, <1>2, <2>1, NewestIsOne
  <2>. QED  BY <2>2
<1>4. PICK r : r = [rvRows[n] EXCEPT !.rated = TRUE]
  OBVIOUS
<1>5. /\ r \in Rv!Row /\ r.reviewer = rvRows[n].reviewer /\ r.commit = rvRows[n].commit
      /\ r.state = rvRows[n].state /\ r.scope = rvRows[n].scope
  <2>1. rvRows[n] \in Rv!Row
    BY <1>2, <1>3
  <2>. QED  BY <1>4, <2>1 DEF Rv!Row
<1>6. ReviewRowOK(r)
  BY <1>3, <1>5 DEF ReviewInv, ReviewRows, ReviewRowOK
<1>7. \A j \in DOMAIN rvRows \ {n} : ~(rvRows[j].reviewer = r.reviewer /\ rvRows[j].commit = r.commit)
  BY <1>3, <1>5 DEF ReviewInv, ReviewKeys
<1>8. rvRows' = [rvRows EXCEPT ![n] = r]
  BY <1>2, <1>4
<1>. QED  BY <1>2, <1>3, <1>5, <1>6, <1>7, <1>8, ReviewRowStep DEF Rv!TypeOK

(* A file of a review or of a reply is committed.                           *)
LEMMA ReviewFileStep ==
  ASSUME Rv!ReviewParams, ReviewInv, NEW dir \in Rv!Dirs, NEW u \in Users,
         NEW kind \in {"review", "reply"}, NEW to \in Users, rvStatus \in Rv!Reviewable,
         Rv!WriteTo(dir, u, kind, to, rvStatus), rvStatus = "sedimentation" => dir.anonymous,
         \/ kind = "reply" /\ rvWriting' = rvWriting
         \/ kind = "review" /\ dir.of = u /\ rvWriting' = [rvWriting EXCEPT ![u] = rvMade],
         UNCHANGED <<rvStatus, rvPhases, rvRows>>,
         rvInbox' \subseteq [to : Users, from : Users,
                             event : {"review_invitation", "review_submitted", "review_reply"}]
  PROVE  ReviewInv'
<1>1. Rv!TypeOK
  BY DEF ReviewInv
<1>2. /\ rvThreads' \in [Rv!Dirs -> Seq(Rv!Message)] /\ rvMade' = rvMade + 1
      /\ rvMade' \in 0 .. MaxMessages /\ rvMade \in Nat /\ Rv!PoolIsAnonymous' /\ ReviewLengths'
      /\ \A v \in Users : \A at \in Nat : ReviewCommitted(v, at) => ReviewCommitted(v, at)'
      /\ kind = "review" => \A at : at = rvMade => ReviewCommitted(dir.of, at)'
  <2>1. dir.anonymous \/ rvStatus # "sedimentation" \/ u \in Maintainers
    OBVIOUS
  <2>2. PICK during \in Rv!Reviewable : during = rvStatus
    OBVIOUS
  <2>. QED  BY <2>1, <2>2, ReviewWrites
<1>3. /\ rvWriting' \in [Users -> Nat \cup {Rv!None}]
      /\ \A v \in Users : rvWriting'[v] = rvWriting[v] \/ (v = u /\ kind = "review" /\ rvWriting'[v] = rvMade)
  BY <1>1, <1>2 DEF Rv!TypeOK
<1>4. Rv!TypeOK'
  BY <1>1, <1>2, <1>3 DEF Rv!TypeOK
<1>5. ReviewRows'
  <2>1. ASSUME NEW i \in DOMAIN rvRows PROVE ReviewRowOK(rvRows[i])'
    <3>1. ReviewRowOK(rvRows[i]) /\ rvRows[i] \in Rv!Row /\ rvRows[i].reviewer \in Users
      <4>1. rvRows[i] \in Rv!Row
        BY <1>1 DEF Rv!TypeOK
      <4>2. ReviewRowOK(rvRows[i])
        BY DEF ReviewInv, ReviewRows
      <4>. QED  BY <4>1, <4>2 DEF Rv!Row
    <3>. QED  BY <1>2, <3>1 DEF ReviewRowOK
  <2>. QED  BY <2>1 DEF ReviewRows
<1>6. ReviewWriting'
  <2>. SUFFICES ASSUME NEW v \in Users, rvWriting'[v] # Rv!None
                PROVE  /\ rvWriting'[v] \in 0 .. rvMade
                       /\ \A at : at = rvWriting'[v] => ReviewCommitted(v, at)'
                       /\ \A i \in DOMAIN rvRows : rvRows[i].reviewer = v =>
                            rvRows[i].commit # rvWriting'[v]
    BY <1>2 DEF ReviewWriting, ReviewCommitted
  <2>1. CASE rvWriting'[v] = rvWriting[v]
    BY <1>2, <2>1 DEF ReviewInv, ReviewWriting
  <2>2. CASE v = u /\ kind = "review" /\ rvWriting'[v] = rvMade
    <3>1. \A i \in DOMAIN rvRows : rvRows[i].commit # rvMade
      BY <1>2 DEF ReviewInv, ReviewRows, ReviewRowOK, Rv!Pending
    <3>2. dir.of = u /\ rvMade \in 0 .. rvMade
      BY <1>2, <2>2
    <3>. QED  BY <1>2, <2>2, <3>1, <3>2
  <2>. QED  BY <1>3, <2>1, <2>2
<1>7. ReviewKeys'
  BY DEF ReviewInv, ReviewKeys
<1>. QED  BY <1>2, <1>4, <1>5, <1>6, <1>7 DEF ReviewInv, ReviewDraft, Rv!Reviewable

LEMMA ReviewStoreStep ==
  ASSUME Rv!ReviewParams, ReviewInv, NEW u \in Users, Rv!SubmitStore(u)
  PROVE  ReviewInv'
<1>1. /\ Rv!TypeOK /\ rvWriting[u] # Rv!None /\ rvRows' = Rv!Persisted(u, rvWriting[u])
      /\ rvWriting' = [rvWriting EXCEPT ![u] = Rv!None]
      /\ Rv!Notify(Maintainers \ {u}, "review_submitted", u)
      /\ UNCHANGED <<rvStatus, rvPhases, rvThreads, rvMade>>
  BY DEF Rv!SubmitStore, ReviewInv
<1>2. PICK c : c = rvWriting[u]
  OBVIOUS
<1>3. /\ c \in 0 .. (rvMade - 1) /\ c \in Nat /\ ReviewCommitted(u, c) /\ rvMade \in Nat
      /\ \A i \in DOMAIN rvRows : rvRows[i].reviewer = u => rvRows[i].commit # c
  BY <1>1, <1>2 DEF ReviewInv, ReviewWriting, Rv!TypeOK
<1>4. rvInbox' \subseteq [to : Users, from : Users,
                          event : {"review_invitation", "review_submitted", "review_reply"}]
  <2>1. Maintainers \ {u} \in SUBSET Users
    BY DEF Rv!ReviewParams
  <2>. QED  BY <1>1, <2>1, ReviewNotified
<1>5. /\ rvWriting' \in [Users -> Nat \cup {Rv!None}] /\ rvWriting'[u] = Rv!None
      /\ \A v \in Users \ {u} : rvWriting'[v] = rvWriting[v]
  BY <1>1 DEF Rv!TypeOK
<1>6. \A v \in Users : \A at \in Nat : ReviewCommitted(v, at) => ReviewCommitted(v, at)'
  BY <1>1 DEF ReviewCommitted
<1>7. rvRows \in Seq(Rv!Row) /\ Len(rvRows) \in Nat
  BY <1>1 DEF Rv!TypeOK
<1>8. /\ rvRows' \in Seq(Rv!Row) /\ ReviewRows' /\ ReviewKeys'
      /\ \A i \in DOMAIN rvRows' :
           rvRows'[i].reviewer = u \/ (i \in DOMAIN rvRows /\ rvRows'[i] = rvRows[i])
  <2>1. CASE Rv!Accepted(u) # {}
    <3>1. PICK n : n = Rv!Newest(Rv!Accepted(u))
      OBVIOUS
    <3>2. n \in Rv!Accepted(u)
      <4>1. Rv!Accepted(u) \in SUBSET (1 .. Len(rvRows))
        BY <1>7 DEF Rv!Accepted, Rv!RowsOf
      <4>. QED  BY <1>7, <2>1, <3>1, <4>1, NewestIsOne
    <3>3. n \in DOMAIN rvRows /\ rvRows[n].reviewer = u /\ rvRows[n] \in Rv!Row
      BY <1>7, <3>2 DEF Rv!Accepted, Rv!RowsOf
    <3>4. PICK r : r = [[rvRows[n] EXCEPT !.state = "submitted"] EXCEPT !.commit = c]
      OBVIOUS
    <3>5. r \in Rv!Row /\ r.reviewer = u /\ r.state = "submitted" /\ r.commit = c
      BY <1>3, <3>3, <3>4 DEF Rv!Row, Rv!States
    <3>6. rvRows' = [rvRows EXCEPT ![n] = r]
      <4>1. rvRows' = [rvRows EXCEPT ![n].state = "submitted", ![n].commit = c]
        BY <1>1, <1>2, <2>1, <3>1 DEF Rv!Persisted
      <4>. QED  BY <1>7, <3>3, <3>4, <4>1
    <3>7. ReviewRowOK(r)'
      BY <1>1, <1>3, <1>6, <3>5 DEF ReviewRowOK
    <3>8. \A j \in DOMAIN rvRows \ {n} : ~(rvRows[j].reviewer = r.reviewer /\ rvRows[j].commit = r.commit)
      BY <1>3, <3>5
    <3>9. rvMade' \in Nat /\ rvMade' >= rvMade
      BY <1>1, <1>3
    <3>10. /\ rvRows' \in Seq(Rv!Row) /\ ReviewRows' /\ ReviewKeys'
           /\ \A i \in DOMAIN rvRows' : rvRows'[i] = r \/ (i \in DOMAIN rvRows /\ rvRows'[i] = rvRows[i])
      BY <1>6, <3>3, <3>5, <3>6, <3>7, <3>8, <3>9, ReviewPuts
    <3>. QED  BY <3>5, <3>10
  <2>2. CASE Rv!Accepted(u) = {}
    <3>1. PICK r : r = [reviewer |-> u, scope |-> rvStatus, state |-> "submitted", commit |-> c,
                        rated |-> FALSE]
      OBVIOUS
    <3>2. rvRows' = Append(rvRows, r) \/ rvRows' = rvRows
      BY <1>1, <1>2, <2>2, <3>1 DEF Rv!Persisted, Rv!Upserted
    <3>3. CASE rvRows' = rvRows
      <4>1. ReviewRows'
        BY <1>1, <3>3 DEF ReviewInv, ReviewRows, ReviewRowOK, ReviewCommitted
      <4>. QED  BY <1>7, <3>3, <4>1 DEF ReviewInv, ReviewKeys
    <3>4. CASE rvRows' = Append(rvRows, r) /\ rvStatus # "draft"
      <4>1. r \in Rv!Row /\ r.reviewer = u /\ r.state = "submitted" /\ r.commit = c
        BY <1>1, <1>3, <3>1, <3>4 DEF Rv!Row, Rv!States, Rv!TypeOK
      <4>2. ReviewRowOK(r)'
        BY <1>1, <1>3, <1>6, <4>1 DEF ReviewRowOK
      <4>3. \A j \in DOMAIN rvRows : ~(rvRows[j].reviewer = r.reviewer /\ rvRows[j].commit = r.commit)
        BY <1>3, <4>1
      <4>4. rvMade' \in Nat /\ rvMade' >= rvMade
        BY <1>1, <1>3
      <4>5. PICK n : n = Len(rvRows) + 1
        OBVIOUS
      <4>6. /\ rvRows' \in Seq(Rv!Row) /\ ReviewRows' /\ ReviewKeys'
            /\ \A i \in DOMAIN rvRows' : rvRows'[i] = r \/ (i \in DOMAIN rvRows /\ rvRows'[i] = rvRows[i])
        BY <1>6, <3>4, <4>1, <4>2, <4>3, <4>4, <4>5, ReviewPuts
      <4>. QED  BY <4>1, <4>6
    <3>5. rvStatus # "draft"
      BY <1>3 DEF ReviewInv, ReviewDraft
    <3>. QED  BY <3>2, <3>3, <3>4, <3>5
  <2>. QED  BY <2>1, <2>2
<1>9. ReviewWriting'
  BY <1>1, <1>5, <1>8 DEF ReviewInv, ReviewWriting, ReviewCommitted
<1>10. Rv!TypeOK'
  BY <1>1, <1>4, <1>5, <1>8 DEF Rv!TypeOK
<1>11. Rv!PoolIsAnonymous'
  BY <1>1 DEF ReviewInv, Rv!PoolIsAnonymous
<1>. QED  BY <1>1, <1>8, <1>9, <1>10, <1>11 DEF ReviewInv, ReviewDraft, ReviewLengths

LEMMA ReviewLostStep ==
  ASSUME ReviewInv, NEW u \in Users, Rv!SubmitLost(u)
  PROVE  ReviewInv'
<1>1. /\ rvWriting' = [rvWriting EXCEPT ![u] = Rv!None] /\ Rv!TypeOK
      /\ UNCHANGED <<rvStatus, rvPhases, rvRows, rvThreads, rvMade, rvInbox>>
  BY DEF Rv!SubmitLost, ReviewInv
<1>2. /\ rvWriting' \in [Users -> Nat \cup {Rv!None}]
      /\ \A v \in Users : rvWriting'[v] # Rv!None => rvWriting'[v] = rvWriting[v]
  BY <1>1 DEF Rv!TypeOK
<1>3. ReviewWriting'
  BY <1>1, <1>2 DEF ReviewInv, ReviewWriting, ReviewCommitted
<1>. QED  BY <1>1, <1>2, <1>3 DEF ReviewInv, Rv!TypeOK, ReviewRows, ReviewRowOK, ReviewKeys, ReviewDraft,
             ReviewLengths, ReviewCommitted, Rv!PoolIsAnonymous

LEMMA ReviewNextInv == ASSUME Rv!ReviewParams, ReviewInv, [Rv!Next]_Rv!vars PROVE ReviewInv'
<1>1. CASE UNCHANGED Rv!vars
  BY <1>1 DEF Rv!vars, ReviewInv, Rv!TypeOK, ReviewRows, ReviewRowOK, ReviewKeys, ReviewWriting,
     ReviewDraft, ReviewLengths, ReviewCommitted, Rv!PoolIsAnonymous
<1>2. CASE Rv!Verdict \/ Rv!Reopen
  BY <1>2, ReviewStatusStep
<1>3. ASSUME NEW u \in Users, Rv!AcceptInvitation(u) \/ Rv!DeclineInvitation(u) PROVE ReviewInv'
  BY <1>3, ReviewAnswerStep DEF Rv!AcceptInvitation, Rv!DeclineInvitation
<1>4. ASSUME NEW u \in Users, Rv!SubmitWrite(u) PROVE ReviewInv'
  <2>1. PICK dir : dir = Rv!Directory(u, u)
    OBVIOUS
  <2>2. dir \in Rv!Dirs /\ (rvStatus = "sedimentation" => dir.anonymous) /\ dir.of = u
    BY <2>1, ReviewOfAuthor
  <2>3. /\ rvStatus \in Rv!Reviewable /\ Rv!WriteTo(dir, u, "review", u, rvStatus)
        /\ rvWriting' = [rvWriting EXCEPT ![u] = rvMade]
        /\ UNCHANGED <<rvStatus, rvPhases, rvRows, rvInbox>>
    BY <1>4, <2>1 DEF Rv!SubmitWrite
  <2>. QED  BY <2>2, <2>3, ReviewFileStep DEF ReviewInv, Rv!TypeOK
<1>5. ASSUME NEW m \in Users, NEW u \in Users, Rv!Reply(m, u) PROVE ReviewInv'
  <2>1. PICK dir : dir = Rv!Directory(m, u)
    OBVIOUS
  <2>2. dir \in Rv!Dirs /\ (rvStatus = "sedimentation" => dir.anonymous)
    BY <2>1, ReviewOfAuthor
  <2>3. /\ rvStatus \in Rv!Reviewable /\ Rv!WriteTo(dir, m, "reply", u, rvStatus)
        /\ Rv!Notify({u}, "review_reply", m)
        /\ UNCHANGED <<rvStatus, rvPhases, rvRows, rvWriting>>
    BY <1>5, <2>1 DEF Rv!Reply
  <2>4. rvInbox' \subseteq [to : Users, from : Users,
                            event : {"review_invitation", "review_submitted", "review_reply"}]
    BY <2>3, ReviewNotified DEF ReviewInv
  <2>. QED  BY <2>2, <2>3, <2>4, ReviewFileStep
<1>. QED  BY <1>1, <1>2, <1>3, <1>4, <1>5, ReviewPublishStep, ReviewInviteStep, ReviewRateStep,
             ReviewStoreStep, ReviewLostStep DEF Rv!Next

(* The behaviours of the parts, seen from Reviews, are its own.              *)
LEMMA ReviewAlone == Spec => Rv!Init /\ [][Rv!Next]_(Rv!vars)
<1>1. Init => Rv!Init
  BY DEF Init
<1>2. Next => Rv!Next \/ rvVars' = rvVars
  BY DEF Next
<1>3. vars' = vars => rvVars' = rvVars
  BY DEF vars
<1>4. rvVars' = rvVars => UNCHANGED Rv!vars
  BY DEF rvVars, Rv!vars
<1>5. [Next]_vars => [Rv!Next]_(Rv!vars)
  BY <1>2, <1>3, <1>4
<1>. QED  BY <1>1, <1>5, PTL DEF Spec

LEMMA ReviewAlways == Rv!Init /\ [][Rv!Next]_(Rv!vars) => []ReviewInv
<1>1. Rv!ReviewParams
  BY PartParams DEF PartParams
<1>2. Rv!Init => ReviewInv
  BY <1>1, ReviewInitInv
<1>3. ReviewInv /\ [Rv!Next]_(Rv!vars) => ReviewInv'
  BY <1>1, ReviewNextInv
<1>. QED  BY <1>2, <1>3, PTL

-----------------------------------------------------------------------------
(* What the invariant says of numbers of rows.                             *)
LEMMA AtMostOne ==
  ASSUME NEW S, \A i, j \in S : i = j
  PROVE  IsFiniteSet(S) /\ Cardinality(S) <= 1
<1>1. CASE S = {}
  <2>1. IsFiniteSet({}) /\ Cardinality({}) = 0
    BY FS_EmptySet
  <2>. QED  BY <1>1, <2>1
<1>2. CASE S # {}
  <2>1. PICK i \in S : S = {i}
    BY <1>2
  <2>2. IsFiniteSet({i}) /\ Cardinality({i}) = 1
    BY FS_Singleton
  <2>. QED  BY <2>1, <2>2
<1>. QED  BY <1>1, <1>2

LEMMA ReviewsCardinality == ASSUME NEW S PROVE Rv!Cardinality(S) = Cardinality(S)
  BY DEF Rv!Cardinality, Cardinality

LEMMA ReviewInvitesOnce == ReviewInv => Rv!OneInvitation
<1>. SUFFICES ASSUME ReviewInv, NEW u \in Users
              PROVE  /\ Rv!Cardinality(Rv!Invited(u) \cup Rv!Accepted(u)) <= 1
                     /\ Rv!RowsOf(u, "declined") # {} => Rv!Invited(u) \cup Rv!Accepted(u) = {}
  BY DEF Rv!OneInvitation
<1> DEFINE waiting == Rv!Invited(u) \cup Rv!Accepted(u)
<1>1. \A i \in waiting \cup Rv!RowsOf(u, "declined") :
        /\ i \in DOMAIN rvRows /\ rvRows[i].reviewer = u /\ rvRows[i].commit = Rv!Pending
        /\ (i \in waiting => rvRows[i].state # "declined")
  BY DEF ReviewInv, ReviewRows, ReviewRowOK, Rv!Invited, Rv!Accepted, Rv!RowsOf
<1>2. \A i, j \in waiting \cup Rv!RowsOf(u, "declined") : i = j
  BY <1>1 DEF ReviewInv, ReviewKeys
<1>3. \A i \in Rv!RowsOf(u, "declined") : rvRows[i].state = "declined"
  BY DEF Rv!RowsOf
<1>4. Cardinality(waiting) <= 1
  BY <1>2, AtMostOne
<1>. QED  BY <1>1, <1>2, <1>3, <1>4, ReviewsCardinality

LEMMA ReviewBehindRows == Rv!ReviewParams /\ ReviewInv => Rv!RowsHaveReviews
<1>. SUFFICES ASSUME Rv!ReviewParams, ReviewInv, NEW u \in Users
              PROVE  /\ Rv!Cardinality(Rv!Submitted(u)) <=
                          Rv!Cardinality({w \in Rv!Dirs \X (1 .. MaxMessages) :
                            /\ w[1].of = u /\ w[2] \in DOMAIN rvThreads[w[1]]
                            /\ rvThreads[w[1]][w[2]].kind = "review"})
                     /\ \A i, j \in Rv!Submitted(u) : i # j => rvRows[i].commit # rvRows[j].commit
  BY DEF Rv!RowsHaveReviews
<1> DEFINE S == Rv!Submitted(u)
           W == {w \in Rv!Dirs \X (1 .. MaxMessages) :
                   /\ w[1].of = u /\ w[2] \in DOMAIN rvThreads[w[1]]
                   /\ rvThreads[w[1]][w[2]].kind = "review"}
<1>1. \A i \in S : /\ i \in DOMAIN rvRows /\ rvRows[i].reviewer = u
                   /\ ReviewCommitted(u, rvRows[i].commit)
  BY DEF ReviewInv, ReviewRows, ReviewRowOK, Rv!Submitted, Rv!RowsOf
<1>2. \A i, j \in S : i # j => rvRows[i].commit # rvRows[j].commit
  BY <1>1 DEF ReviewInv, ReviewKeys
<1>3. IsFiniteSet(W)
  <2> DEFINE dirs == {[of |-> u, anonymous |-> TRUE], [of |-> u, anonymous |-> FALSE]}
  <2>1. IsFiniteSet(dirs) /\ IsFiniteSet(1 .. MaxMessages)
    <3>1. /\ IsFiniteSet({[of |-> u, anonymous |-> TRUE]} \cup {[of |-> u, anonymous |-> FALSE]})
          /\ 1 \in Int /\ MaxMessages \in Int
      <4>1. IsFiniteSet({[of |-> u, anonymous |-> TRUE]})
        BY FS_Singleton
      <4>2. IsFiniteSet({[of |-> u, anonymous |-> TRUE]} \cup {[of |-> u, anonymous |-> FALSE]})
        BY <4>1, FS_AddElement
      <4>. QED  BY <4>2 DEF Rv!ReviewParams
    <3>2. dirs = {[of |-> u, anonymous |-> TRUE]} \cup {[of |-> u, anonymous |-> FALSE]}
      OBVIOUS
    <3>. HIDE DEF dirs
    <3>. QED  BY <3>1, <3>2, FS_Interval
  <2>2. IsFiniteSet(dirs \X (1 .. MaxMessages))
    BY <2>1, FS_Product
  <2>3. W \subseteq dirs \X (1 .. MaxMessages)
    BY DEF Rv!Dirs
  <2>. QED  BY <2>2, <2>3, FS_Subset
<1>4. ASSUME NEW i \in S
      PROVE  \E w \in W : rvThreads[w[1]][w[2]].at = rvRows[i].commit
  <2>1. PICK d \in Rv!Dirs : d.of = u /\ \E k \in DOMAIN rvThreads[d] :
          rvThreads[d][k].kind = "review" /\ rvThreads[d][k].at = rvRows[i].commit
    BY <1>1 DEF ReviewCommitted
  <2>2. PICK k \in DOMAIN rvThreads[d] :
          rvThreads[d][k].kind = "review" /\ rvThreads[d][k].at = rvRows[i].commit
    BY <2>1
  <2>3. /\ rvThreads[d] \in Seq(Rv!Message) /\ Len(rvThreads[d]) <= rvMade
        /\ rvMade \in 0 .. MaxMessages /\ MaxMessages \in Nat
    BY DEF ReviewInv, Rv!TypeOK, ReviewLengths, Rv!ReviewParams
  <2>4. k \in 1 .. MaxMessages
    BY <2>3
  <2>5. <<d, k>> \in W
    BY <2>1, <2>2, <2>4
  <2>. QED  BY <2>2, <2>5
<1> DEFINE f == [i \in S |-> CHOOSE w \in W : rvThreads[w[1]][w[2]].at = rvRows[i].commit]
<1>5. ASSUME NEW i \in S
      PROVE  f[i] \in W /\ rvThreads[f[i][1]][f[i][2]].at = rvRows[i].commit
  <2>1. PICK w \in W : rvThreads[w[1]][w[2]].at = rvRows[i].commit
    BY <1>4
  <2>2. f[i] = CHOOSE v \in W : rvThreads[v[1]][v[2]].at = rvRows[i].commit
    OBVIOUS
  <2>. HIDE DEF f, W
  <2>. QED  BY <2>1, <2>2
<1>6. f \in [S -> W] /\ \A i, j \in S : f[i] = f[j] => i = j
  <2>1. f \in [S -> W]
    <3>1. \A i \in S : f[i] \in W
      BY <1>5
    <3>. HIDE DEF W
    <3>. QED  BY <3>1
  <2>. HIDE DEF f, W, S
  <2>. QED  BY <1>2, <1>5, <2>1
<1>7. Cardinality(S) <= Cardinality(W)
  <2>1. IsInjective(f)
    <3>. HIDE DEF f, W, S
    <3>. QED  BY <1>6 DEF IsInjective
  <2>2. f \in Injection(S, W)
    BY <1>6, <2>1 DEF Injection
  <2>. HIDE DEF f, W, S
  <2>. QED  BY <1>3, <2>2, FS_Injection
<1>. QED  BY <1>2, <1>7, ReviewsCardinality

-----------------------------------------------------------------------------
(* The types hold in every state.                                          *)
THEOREM ReviewTypes == (Rv!Spec => []Rv!TypeOK) /\ (Spec => []Rv!TypeOK)
<1>1. ReviewInv => Rv!TypeOK
  BY DEF ReviewInv
<1>. QED  BY <1>1, ReviewAlways, ReviewAlone, PTL DEF Rv!Spec

(* At most one invitation of a reviewer waits and a declined one is final,  *)
(* whoever else invites, submits or rates in between: the key of the table  *)
(* does not include the state (invite_reviewer, submit_review).             *)
THEOREM InvitedOnce == (Rv!Spec => []Rv!OneInvitation) /\ (Spec => []OneInvitation)
<1>1. ReviewInv => Rv!OneInvitation /\ OneInvitation
  BY ReviewInvitesOnce DEF OneInvitation
<1>. QED  BY <1>1, ReviewAlways, ReviewAlone, PTL DEF Rv!Spec

(* Whatever the order of reviews, replies and verdicts, no name stands under *)
(* what was written in the pool but a publisher's (_review_dir_name).       *)
THEOREM AnonymousInThePool == (Rv!Spec => []Rv!PoolIsAnonymous) /\ (Spec => []PoolIsAnonymous)
<1>1. ReviewInv => Rv!PoolIsAnonymous /\ PoolIsAnonymous
  BY DEF ReviewInv, PoolIsAnonymous
<1>. QED  BY <1>1, ReviewAlways, ReviewAlone, PTL DEF Rv!Spec

(* Each review in the table was committed before, and no two to one commit,  *)
(* whatever died between the commit and the row (submit_review).            *)
THEOREM ReviewsAreCommitted == (Rv!Spec => []Rv!RowsHaveReviews) /\ (Spec => []RowsHaveReviews)
<1>1. Rv!ReviewParams
  BY PartParams DEF PartParams
<1>2. ReviewInv => Rv!RowsHaveReviews /\ RowsHaveReviews
  BY <1>1, ReviewBehindRows DEF RowsHaveReviews
<1>. QED  BY <1>2, ReviewAlways, ReviewAlone, PTL DEF Rv!Spec

-----------------------------------------------------------------------------
(* Induction on numbers and on finite sets, with the claim as a set.          *)
LEMMA UpFromZero ==
  ASSUME NEW T, 0 \in T, \A n \in Nat : n \in T => n + 1 \in T
  PROVE  Nat \subseteq T
<1>1. SUFFICES ASSUME Nat \ T # {} PROVE FALSE
  OBVIOUS
<1>2. PICK x \in Nat \ T : \A y \in Nat \ T : ~(<<y, x>> \in OpToRel(<, Nat))
  BY <1>1, NatLessThanWellFounded, WFMin
<1>3. x \in Nat /\ x \notin T
  BY <1>2
<1>4. x # 0
  BY <1>3
<1>5. x - 1 \in Nat /\ x - 1 < x /\ (x - 1) + 1 = x
  BY <1>3, <1>4
<1>6. <<x - 1, x>> \in OpToRel(<, Nat)
  BY <1>3, <1>5 DEF OpToRel
<1>7. x - 1 \in T
  BY <1>2, <1>5, <1>6
<1>8. x \in T
  BY <1>5, <1>7
<1>. QED  BY <1>3, <1>8

LEMMA UpFromEmpty ==
  ASSUME NEW S, IsFiniteSet(S), NEW T, {} \in T,
         \A s \in SUBSET S : s # {} /\ s \ {CHOOSE x \in s : TRUE} \in T => s \in T
  PROVE  S \in T
<1> DEFINE N == {n \in Nat : \A s \in SUBSET S : Cardinality(s) = n => s \in T}
<1>1. \A s \in SUBSET S : IsFiniteSet(s) /\ Cardinality(s) \in Nat /\ (Cardinality(s) = 0 <=> s = {})
  BY FS_Subset, FS_CardinalityType, FS_EmptySet
<1>2. 0 \in N
  BY <1>1
<1>3. ASSUME NEW n \in Nat, n \in N PROVE n + 1 \in N
  <2>1. SUFFICES ASSUME NEW s \in SUBSET S, Cardinality(s) = n + 1 PROVE s \in T
    OBVIOUS
  <2> DEFINE x == CHOOSE y \in s : TRUE
  <2>2. s # {} /\ x \in s
    BY <1>1, <2>1
  <2>. HIDE DEF x
  <2>3. Cardinality(s \ {x}) = Cardinality(s) - 1
    BY <1>1, <2>2, FS_RemoveElement
  <2>4. Cardinality(s \ {x}) = n
    BY <2>1, <2>3
  <2>5. s \ {x} \in T
    BY <1>3, <2>4
  <2>. QED  BY <2>2, <2>5 DEF x
<1>4. Nat \subseteq N
  <2>. HIDE DEF N
  <2>. QED  BY <1>2, <1>3, UpFromZero
<1>. QED  BY <1>1, <1>4

(* The least and the greatest of some numbers.                              *)
LEMMA Extremes ==
  ASSUME NEW n \in Nat, NEW T \in SUBSET (0 .. n), T # {}
  PROVE  \E lo \in T, hi \in T : \A v \in T : lo <= v /\ v <= hi
<1>1. \A a, b \in Nat : a < b => <<a, b>> \in OpToRel(<, Nat)
  BY DEF OpToRel
<1>8. T \subseteq Nat
  OBVIOUS
<1>2. PICK lo \in T : \A y \in T : ~(<<y, lo>> \in OpToRel(<, Nat))
  BY <1>8, NatLessThanWellFounded, WFMin
<1>3. \A v \in T : lo <= v
  <2>1. \A v \in T : ~(v < lo) /\ v \in Nat /\ lo \in Nat
    BY <1>1, <1>2, <1>8
  <2>. QED  BY <2>1
<1> DEFINE U == {n - v : v \in T}
<1>4. U \subseteq Nat /\ U # {}
  OBVIOUS
<1>5. PICK x \in U : \A y \in U : ~(<<y, x>> \in OpToRel(<, Nat))
  <2>. HIDE DEF U
  <2>. QED  BY <1>4, NatLessThanWellFounded, WFMin
<1>6. PICK hi \in T : x = n - hi
  OBVIOUS
<1>7. ASSUME NEW v \in T PROVE v <= hi
  <2>1. n - v \in U /\ n - v \in Nat /\ n - hi \in Nat /\ v \in Nat /\ hi \in Nat
    OBVIOUS
  <2>2. ~(n - v < n - hi)
    <3>. HIDE DEF U
    <3>. QED  BY <1>1, <1>5, <1>6, <2>1
  <2>. QED  BY <2>1, <2>2
<1>. QED  BY <1>3, <1>7

-----------------------------------------------------------------------------
(* Sums over finite sets: the fold that MapThenSumSet is.                   *)
SumsTo(g, f, S) ==
  g = [s \in SUBSET S |->
         IF s = {} THEN 0 ELSE f[CHOOSE x \in s : TRUE] + g[s \ {CHOOSE x \in s : TRUE}]]

SumOf(f, S) == (CHOOSE g : SumsTo(g, f, S))[S]

LEMMA SumsExist ==
  ASSUME NEW S, IsFiniteSet(S), NEW f \in [S -> Int]
  PROVE  \E g : SumsTo(g, f, S)
<1> DEFINE Ch(s) == CHOOSE x \in s : TRUE
           Small(n) == {s \in SUBSET S : Cardinality(s) <= n}
           Step(g, s) == IF s = {} THEN 0 ELSE f[Ch(s)] + g[s \ {Ch(s)}]
           Sums(g, n) == g = [s \in Small(n) |-> Step(g, s)]
           N == {n \in Nat : \E g : Sums(g, n)}
<1>1. \A s \in SUBSET S : IsFiniteSet(s) /\ Cardinality(s) \in Nat /\ (Cardinality(s) = 0 <=> s = {})
  BY FS_Subset, FS_CardinalityType, FS_EmptySet
<1>2. ASSUME NEW s \in SUBSET S, s # {}
      PROVE  Ch(s) \in s /\ s \ {Ch(s)} \in SUBSET S /\ Cardinality(s \ {Ch(s)}) = Cardinality(s) - 1
  <2>1. Ch(s) \in s
    BY <1>2
  <2>. HIDE DEF Ch
  <2>. QED  BY <1>1, <2>1, FS_RemoveElement
<1>. HIDE DEF Ch
<1>3. 0 \in N
  <2>1. Sums([s \in Small(0) |-> 0], 0)
    <3>1. \A s \in Small(0) : s = {}
      BY <1>1
    <3>. QED  BY <3>1
  <2>. QED  BY <2>1
<1>4. ASSUME NEW n \in Nat, n \in N PROVE n + 1 \in N
  <2>1. PICK g : Sums(g, n)
    BY <1>4
  <2> DEFINE h == [s \in Small(n + 1) |-> Step(g, s)]
  <2>2. \A s \in Small(n) : s \in Small(n + 1) /\ h[s] = g[s]
    <3>1. \A s \in Small(n) : s \in Small(n + 1)
      BY <1>1
    <3>2. \A s \in Small(n) : g[s] = Step(g, s)
      BY <2>1
    <3>. QED  BY <3>1, <3>2
  <2>3. ASSUME NEW s \in Small(n + 1), s # {} PROVE s \ {Ch(s)} \in Small(n)
    <3>1. Cardinality(s \ {Ch(s)}) = Cardinality(s) - 1 /\ Cardinality(s) \in Nat /\ Cardinality(s) <= n + 1
      BY <1>1, <1>2, <2>3
    <3>2. Cardinality(s) - 1 <= n
      BY <3>1
    <3>. QED  BY <1>2, <2>3, <3>1, <3>2
  <2>4. \A s \in Small(n + 1) : Step(g, s) = Step(h, s)
    BY <2>2, <2>3
  <2>5. Sums(h, n + 1)
    <3>1. [s \in Small(n + 1) |-> Step(g, s)] = [s \in Small(n + 1) |-> Step(h, s)]
      <4>. HIDE DEF h, Step, Small
      <4>. QED  BY <2>4
    <3>2. h = [s \in Small(n + 1) |-> Step(g, s)]
      OBVIOUS
    <3>. HIDE DEF h
    <3>. QED  BY <3>1, <3>2
  <2>. HIDE DEF h, Sums
  <2>6. n + 1 \in Nat /\ \E k : Sums(k, n + 1)
    BY <2>5
  <2>. QED  BY <2>6
<1>5. Nat \subseteq N
  <2>. HIDE DEF N
  <2>. QED  BY <1>3, <1>4, UpFromZero
<1>6. Cardinality(S) \in N
  BY <1>1, <1>5
<1>7. PICK g : Sums(g, Cardinality(S))
  BY <1>6
<1>8. Small(Cardinality(S)) = SUBSET S
  BY FS_Subset
<1>. QED  BY <1>7, <1>8 DEF SumsTo, Ch

(* A sum of products lies between the least and the greatest factor times     *)
(* the sum of the weights.                                                  *)
LEMMA SumsBetween ==
  ASSUME NEW S, IsFiniteSet(S), NEW f \in [S -> Int], NEW w \in [S -> Nat], NEW lo \in Int, NEW hi \in Int,
         \A x \in S : lo * w[x] <= f[x] /\ f[x] <= hi * w[x]
  PROVE  /\ SumOf(f, S) \in Int /\ SumOf(w, S) \in Nat
         /\ lo * SumOf(w, S) <= SumOf(f, S) /\ SumOf(f, S) <= hi * SumOf(w, S)
         /\ \A x \in S : w[x] <= SumOf(w, S)
<1> DEFINE g == CHOOSE k : SumsTo(k, f, S)
           h == CHOOSE k : SumsTo(k, w, S)
           Good(s) == /\ g[s] \in Int /\ h[s] \in Nat
                      /\ lo * h[s] <= g[s] /\ g[s] <= hi * h[s]
                      /\ \A x \in s : w[x] <= h[s]
           T == {s \in SUBSET S : Good(s)}
<1>1. SumsTo(g, f, S)
  BY SumsExist
<1>2. SumsTo(h, w, S)
  <2>1. w \in [S -> Int]
    OBVIOUS
  <2>. QED  BY <2>1, SumsExist
<1>3. SumOf(f, S) = g[S] /\ SumOf(w, S) = h[S]
  BY DEF SumOf
<1>. HIDE DEF g, h
<1>4. {} \in T
  <2>1. g[{}] = 0 /\ h[{}] = 0
    BY <1>1, <1>2 DEF SumsTo
  <2>2. lo * 0 = 0 /\ hi * 0 = 0
    OBVIOUS
  <2>. QED  BY <2>1, <2>2
<1>5. ASSUME NEW s \in SUBSET S, s # {}, s \ {CHOOSE x \in s : TRUE} \in T
      PROVE  s \in T
  <2> DEFINE x == CHOOSE y \in s : TRUE
             t == s \ {x}
  <2>1. x \in s /\ x \in S /\ t \in T /\ s = t \cup {x}
    BY <1>5
  <2>2. g[s] = f[x] + g[t] /\ h[s] = w[x] + h[t]
    BY <1>1, <1>2, <1>5 DEF SumsTo
  <2>. HIDE DEF x, t
  <2>3. g[t] \in Int /\ h[t] \in Nat /\ f[x] \in Int /\ w[x] \in Nat
    BY <2>1
  <2>4. lo * (w[x] + h[t]) = lo * w[x] + lo * h[t] /\ hi * (w[x] + h[t]) = hi * w[x] + hi * h[t]
    BY <2>3
  <2>5. /\ lo * w[x] \in Int /\ lo * h[t] \in Int /\ hi * w[x] \in Int /\ hi * h[t] \in Int
        /\ lo * w[x] <= f[x] /\ f[x] <= hi * w[x] /\ lo * h[t] <= g[t] /\ g[t] <= hi * h[t]
    BY <2>1, <2>3
  <2>6. lo * h[s] <= g[s] /\ g[s] <= hi * h[s]
    BY <2>2, <2>3, <2>4, <2>5
  <2>7. \A y \in s : w[y] <= h[s]
    <3>1. ASSUME NEW y \in s PROVE w[y] <= h[s]
      <4>1. w[y] \in Nat /\ (y = x \/ y \in t)
        BY <2>1
      <4>2. w[y] = w[x] \/ w[y] <= h[t]
        BY <2>1, <4>1
      <4>. QED  BY <2>2, <2>3, <4>1, <4>2
    <3>. QED  BY <3>1
  <2>8. g[s] \in Int /\ h[s] \in Nat
    BY <2>2, <2>3
  <2>. QED  BY <2>6, <2>7, <2>8
<1>6. S \in T
  <2>. HIDE DEF T
  <2>. QED  BY <1>4, <1>5, UpFromEmpty
<1>. QED  BY <1>3, <1>6

-----------------------------------------------------------------------------
(* The arithmetic of weighted means.                                        *)
LEMMA ProductsBetween ==
  ASSUME NEW c \in Nat, NEW v \in Int, NEW m \in Nat, NEW lo \in Int, NEW hi \in Int,
         c = 0 \/ (lo <= v /\ v <= hi)
  PROVE  /\ c * v * m \in Int /\ c * m \in Nat
         /\ lo * (c * m) <= c * v * m /\ c * v * m <= hi * (c * m)
<1>1. CASE c = 0
  <2>1. c * v * m = 0 /\ c * m = 0 /\ lo * 0 = 0 /\ hi * 0 = 0
    BY <1>1
  <2>. QED  BY <2>1
<1>2. CASE c # 0
  <2>1. PICK k \in Nat : k = c * m
    OBVIOUS
  <2>2. c * v * m = v * k
    BY <2>1
  <2>3. v - lo \in Nat /\ hi - v \in Nat
    BY <1>2
  <2>4. (v - lo) * k \in Nat /\ (hi - v) * k \in Nat
    BY <2>3
  <2>5. (v - lo) * k = v * k - lo * k /\ (hi - v) * k = hi * k - v * k
    OBVIOUS
  <2>6. v * k \in Int /\ lo * k \in Int /\ hi * k \in Int
    OBVIOUS
  <2>7. lo * k <= v * k /\ v * k <= hi * k
    BY <2>4, <2>5, <2>6
  <2>. QED  BY <2>1, <2>2, <2>6, <2>7
<1>. QED  BY <1>1, <1>2

LEMMA QuotientsBetween ==
  ASSUME NEW n \in Int, NEW d \in Nat \ {0}, NEW lo \in Int, NEW hi \in Int,
         lo * d <= n, n <= hi * d, NEW q \in Re!Nearest(n, d)
  PROVE  q \in Int /\ lo <= q /\ q <= hi
<1>1. PICK k \in Int : k = n \div d
  OBVIOUS
<1>2. k * d <= n /\ n < (k + 1) * d
  BY <1>1
<1>3. \A a, b \in Int : a <= b => a * d <= b * d
  <2>1. SUFFICES ASSUME NEW a \in Int, NEW b \in Int, a <= b PROVE a * d <= b * d
    OBVIOUS
  <2>2. b - a \in Nat /\ (b - a) * d = b * d - a * d /\ a * d \in Int /\ b * d \in Int
    BY <2>1
  <2>3. (b - a) * d \in Nat
    BY <2>2
  <2>. QED  BY <2>2, <2>3
<1>4. /\ q = k \/ q = k + 1
      /\ 2 * (IF q * d > n THEN q * d - n ELSE n - q * d) <= d
  BY <1>1 DEF Re!Nearest
<1>5. q \in Int /\ k + 1 \in Int /\ (k + 1) * d \in Int /\ k * d \in Int
      /\ (hi + 1) * d = hi * d + d /\ hi * d \in Int /\ hi + 1 \in Int /\ lo * d \in Int
  BY <1>4
<1>6. lo <= k
  <2>1. CASE k + 1 <= lo
    <3>1. (k + 1) * d <= lo * d
      BY <1>3, <1>5, <2>1
    <3>. QED  BY <1>2, <1>5, <3>1
  <2>. QED  BY <2>1
<1>7. k <= hi
  <2>1. CASE hi + 1 <= k
    <3>1. (hi + 1) * d <= k * d
      BY <1>3, <1>5, <2>1
    <3>. QED  BY <1>2, <1>5, <3>1
  <2>. QED  BY <2>1
<1>8. CASE q = k
  BY <1>5, <1>6, <1>7, <1>8
<1>9. CASE q = k + 1
  <2>1. CASE hi + 1 <= q
    <3>1. (hi + 1) * d <= q * d
      BY <1>3, <1>5, <2>1
    <3>2. q * d > n /\ q * d \in Int
      BY <1>2, <1>5, <1>9
    <3>3. 2 * (q * d - n) <= d
      BY <1>4, <3>2
    <3>4. q * d - n >= d
      BY <1>5, <3>1, <3>2
    <3>. QED  BY <3>2, <3>3, <3>4
  <2>. QED  BY <1>5, <1>6, <1>9, <2>1
<1>. QED  BY <1>4, <1>8, <1>9

-----------------------------------------------------------------------------
(* Scores and reputations.                                                  *)
Earned == Re!TypeOK /\ Re!NumbersAreEarned

LEMMA ReviewsAreFinite ==
  ASSUME Re!ReputationParams
  PROVE  IsFiniteSet(Re!Review) /\ IsFiniteSet(Writings) /\ IsFiniteSet(Users)
<1>1. IsFiniteSet(Users) /\ IsFiniteSet(Writings)
  BY DEF Re!ReputationParams, Re!IsFiniteSet, IsFiniteSet
<1>2. IsFiniteSet({"sedimentation", "published"})
  <2>1. IsFiniteSet({"sedimentation"} \cup {"published"})
    BY FS_Singleton, FS_AddElement
  <2>2. {"sedimentation", "published"} = {"sedimentation"} \cup {"published"}
    OBVIOUS
  <2>. QED  BY <2>1, <2>2
<1>3. IsFiniteSet(Scores)
  <2>1. 100 \in Int /\ 500 \in Int
    OBVIOUS
  <2>2. IsFiniteSet(100 .. 500)
    BY <2>1, FS_Interval
  <2>. QED  BY <2>2, FS_Subset DEF Re!ReputationParams
<1> DEFINE P == (Users \X {"sedimentation", "published"}) \X Scores
           f == [t \in P |-> [by |-> t[1][1], scope |-> t[1][2], value |-> t[2]]]
<1>4. IsFiniteSet(P)
  <2>1. IsFiniteSet(Users \X {"sedimentation", "published"})
    BY <1>1, <1>2, FS_Product
  <2>. QED  BY <1>3, <2>1, FS_Product
<1>5. f \in Surjection(P, Re!Review)
  <2>1. f \in [P -> Re!Review]
    BY DEF Re!Review
  <2>2. ASSUME NEW r \in Re!Review PROVE \E t \in P : f[t] = r
    <3>1. <<<<r.by, r.scope>>, r.value>> \in P
      BY DEF Re!Review
    <3>2. f[<<<<r.by, r.scope>>, r.value>>] = r
      BY <3>1 DEF Re!Review
    <3>. QED  BY <3>1, <3>2
  <2>. QED  BY <2>1, <2>2 DEF Surjection
<1>. QED  BY <1>1, <1>4, <1>5, FS_Surjection

LEMMA ReviewersWeigh ==
  ASSUME Re!TypeOK, NEW a \in Writings, NEW r \in Re!Review
  PROVE  Re!WeightOf(a, r) \in Nat \ {0}
<1>1. PICK u \in Users : u = r.by
  BY DEF Re!Review
<1>2. reRep[u] \in 0 .. 500 \cup {-1}
  BY DEF Re!TypeOK, Re!Unscored
<1>3. PICK x \in Nat \ {0} : x = Re!ReviewerWeight(u)
  BY <1>2 DEF Re!ReviewerWeight, Re!Unscored
<1>4. PICK y \in Nat \ {0} : y = Re!Share(a, u)
  BY DEF Re!Share
<1>5. PICK z \in Nat \ {0} : z = Re!ScopeWeight(r.scope)
  BY DEF Re!ScopeWeight
<1>6. y * z \in Nat \ {0}
  OBVIOUS
<1>7. (y * z) * x \in Nat \ {0}
  BY <1>6
<1>. QED  BY <1>1, <1>3, <1>4, <1>5, <1>7 DEF Re!WeightOf

(* The sums that the code computes.                                         *)
LEMMA ReviewSums ==
  ASSUME NEW S, NEW rows, NEW a
  PROVE  /\ Re!MapThenSumSet(LAMBDA r : rows[r], S) = SumOf([r \in S |-> rows[r]], S)
         /\ Re!MapThenSumSet(LAMBDA r : rows[r] * Re!WeightOf(a, r), S)
              = SumOf([r \in S |-> rows[r] * Re!WeightOf(a, r)], S)
         /\ Re!MapThenSumSet(LAMBDA r : rows[r] * r.value * Re!WeightOf(a, r), S)
              = SumOf([r \in S |-> rows[r] * r.value * Re!WeightOf(a, r)], S)
<1>1. Re!MapThenSumSet(LAMBDA r : rows[r], S) = SumOf([r \in S |-> rows[r]], S)
  BY DEF Re!MapThenSumSet, Re!MapThenFoldSet, SumOf, SumsTo
<1>2. Re!MapThenSumSet(LAMBDA r : rows[r] * Re!WeightOf(a, r), S)
        = SumOf([r \in S |-> rows[r] * Re!WeightOf(a, r)], S)
  BY DEF Re!MapThenSumSet, Re!MapThenFoldSet, SumOf, SumsTo
<1>3. Re!MapThenSumSet(LAMBDA r : rows[r] * r.value * Re!WeightOf(a, r), S)
        = SumOf([r \in S |-> rows[r] * r.value * Re!WeightOf(a, r)], S)
  BY DEF Re!MapThenSumSet, Re!MapThenFoldSet, SumOf, SumsTo
<1>. QED  BY <1>1, <1>2, <1>3

LEMMA ArticleSums ==
  ASSUME NEW S, NEW sc, NEW st
  PROVE  /\ Re!MapThenSumSet(LAMBDA a : Re!StatusWeight(st[a]), S)
              = SumOf([a \in S |-> Re!StatusWeight(st[a])], S)
         /\ Re!MapThenSumSet(LAMBDA a : sc[a] * Re!StatusWeight(st[a]), S)
              = SumOf([a \in S |-> sc[a] * Re!StatusWeight(st[a])], S)
<1>1. Re!MapThenSumSet(LAMBDA a : Re!StatusWeight(st[a]), S)
        = SumOf([a \in S |-> Re!StatusWeight(st[a])], S)
  BY DEF Re!MapThenSumSet, Re!MapThenFoldSet, SumOf, SumsTo
<1>2. Re!MapThenSumSet(LAMBDA a : sc[a] * Re!StatusWeight(st[a]), S)
        = SumOf([a \in S |-> sc[a] * Re!StatusWeight(st[a])], S)
  BY DEF Re!MapThenSumSet, Re!MapThenFoldSet, SumOf, SumsTo
<1>. QED  BY <1>1, <1>2

(* A new score lies between two of the reviews.                             *)
LEMMA ScoresBetween ==
  ASSUME Re!ReputationParams, Re!TypeOK, NEW a \in Writings, NEW rows \in [Re!Review -> Nat],
         rows # Re!NoReviews, NEW q \in Re!ScoresOf(a, rows)
  PROVE  /\ q \in 100 .. 500
         /\ \E r \in Re!Review : rows[r] > 0 /\ r.value <= q
         /\ \E r \in Re!Review : rows[r] > 0 /\ q <= r.value
<1> DEFINE S == Re!Review
           f == [r \in S |-> rows[r] * r.value * Re!WeightOf(a, r)]
           w == [r \in S |-> rows[r] * Re!WeightOf(a, r)]
           V == {r.value : r \in {s \in S : rows[s] > 0}}
<1>1. IsFiniteSet(S)
  BY ReviewsAreFinite
<1>2. \A r \in S : Re!WeightOf(a, r) \in Nat \ {0}
  BY ReviewersWeigh
<1>3. q \in Re!Nearest(SumOf(f, S), SumOf(w, S))
  <2>. HIDE DEF S
  <2>1. Re!MapThenSumSet(LAMBDA r : rows[r] * r.value * Re!WeightOf(a, r), S) = SumOf(f, S)
    BY ReviewSums
  <2>2. Re!MapThenSumSet(LAMBDA r : rows[r] * Re!WeightOf(a, r), S) = SumOf(w, S)
    BY ReviewSums
  <2>. USE DEF S
  <2>. QED  BY <2>1, <2>2 DEF Re!ScoresOf, Re!TotalWeight
<1>4. PICK r0 \in S : rows[r0] > 0
  <2>1. PICK r \in S : rows[r] # 0
    BY DEF Re!NoReviews
  <2>. QED  BY <2>1
<1>5. \A r \in S : r.value \in 100 .. 500 /\ rows[r] \in Nat
  BY DEF Re!Review, Re!ReputationParams
<1>6. V \in SUBSET (0 .. 500) /\ V # {} /\ \A v \in V : v \in 100 .. 500
  BY <1>4, <1>5
<1>7. \A r \in S : rows[r] = 0 \/ r.value \in V
  BY <1>5
<1>8. \A v \in V : \E r \in S : rows[r] > 0 /\ v = r.value
  OBVIOUS
<1>. HIDE DEF V
<1>9. PICK lo \in V, hi \in V : \A v \in V : lo <= v /\ v <= hi
  <2>1. 500 \in Nat
    OBVIOUS
  <2>. QED  BY <1>6, <2>1, Extremes
<1>10. lo \in 100 .. 500 /\ hi \in 100 .. 500
  BY <1>6
<1>11. ASSUME NEW r \in S
       PROVE  f[r] \in Int /\ w[r] \in Nat /\ lo * w[r] <= f[r] /\ f[r] <= hi * w[r]
  <2>1. PICK m \in Nat : m = Re!WeightOf(a, r)
    BY <1>2
  <2>2. rows[r] \in Nat /\ r.value \in Int /\ lo \in Int /\ hi \in Int
    BY <1>5, <1>10
  <2>3. rows[r] = 0 \/ (lo <= r.value /\ r.value <= hi)
    BY <1>7, <1>9
  <2>. QED  BY <2>1, <2>2, <2>3, ProductsBetween
<1>12. f \in [S -> Int] /\ w \in [S -> Nat]
  BY <1>11
<1>13. w[r0] \in Nat \ {0}
  <2>1. PICK x \in Nat \ {0}, y \in Nat \ {0} : x = rows[r0] /\ y = Re!WeightOf(a, r0)
    BY <1>2, <1>4
  <2>2. x * y \in Nat \ {0}
    OBVIOUS
  <2>. QED  BY <2>1, <2>2
<1>. HIDE DEF f, w, S
<1>14. /\ SumOf(f, S) \in Int /\ SumOf(w, S) \in Nat
       /\ lo * SumOf(w, S) <= SumOf(f, S) /\ SumOf(f, S) <= hi * SumOf(w, S)
       /\ w[r0] <= SumOf(w, S)
  <2>1. lo \in Int /\ hi \in Int
    BY <1>10
  <2>. QED  BY <1>1, <1>11, <1>12, <2>1, SumsBetween
<1>15. SumOf(w, S) \in Nat \ {0}
  BY <1>13, <1>14
<1>16. q \in Int /\ lo <= q /\ q <= hi
  BY <1>3, <1>10, <1>14, <1>15, QuotientsBetween
<1>. QED  BY <1>8, <1>10, <1>16 DEF S

LEMMA ReviewsAreCounted ==
  ASSUME Re!ReputationParams, NEW rows \in [Re!Review -> Nat], NEW r \in Re!Review
  PROVE  Re!Number(rows) \in Nat /\ rows[r] <= Re!Number(rows)
<1> DEFINE S == Re!Review
<1>1. Re!Number(rows) = SumOf(rows, S)
  <2>1. rows = [r0 \in S |-> rows[r0]]
    OBVIOUS
  <2>. QED  BY <2>1, ReviewSums DEF Re!Number
<1>2. IsFiniteSet(S) /\ rows \in [S -> Int]
  BY ReviewsAreFinite
<1>3. \A s \in S : 1 * rows[s] <= rows[s] /\ rows[s] <= 1 * rows[s]
  OBVIOUS
<1>. QED  BY <1>1, <1>2, <1>3, SumsBetween

(* What is drawn from the scores of the articles is not above all of them.   *)
LEMMA RawBetween ==
  ASSUME Re!ReputationParams, NEW u \in Users, NEW st \in [Writings -> {"draft", "sedimentation", "published"}],
         NEW sc \in [Writings -> 0 .. 500 \cup {-1}], NEW q \in Re!Raw(u, st, sc)
  PROVE  /\ q \in 0 .. 500
         /\ q > 0 => \E a \in Writings : u \in Authors[a] /\ sc[a] # -1 /\ q <= sc[a]
<1> DEFINE S == Re!Written(u, sc)
           w == [a \in S |-> Re!StatusWeight(st[a])]
           f == [a \in S |-> sc[a] * Re!StatusWeight(st[a])]
           V == {sc[a] : a \in S}
<1>1. IsFiniteSet(S) /\ S \subseteq Writings /\ \A a \in S : u \in Authors[a] /\ sc[a] # -1 /\ sc[a] \in 0 .. 500
  <2>1. S \in SUBSET Writings
    BY DEF Re!Written
  <2>2. IsFiniteSet(S)
    BY <2>1, ReviewsAreFinite, FS_Subset
  <2>. QED  BY <2>1, <2>2 DEF Re!Written, Re!Unscored
<1>2. CASE S = {}
  <2>1. Re!Raw(u, st, sc) = {0}
    BY <1>2 DEF Re!Raw
  <2>2. q = 0 /\ 0 \in 0 .. 500 /\ ~(0 > 0)
    BY <2>1
  <2>. QED  BY <2>2
<1>3. CASE S # {}
  <2>1. q \in Re!Nearest(SumOf(f, S), SumOf(w, S))
    <3>1. Re!MapThenSumSet(LAMBDA a : sc[a] * Re!StatusWeight(st[a]), S) = SumOf(f, S)
      BY ArticleSums
    <3>2. Re!MapThenSumSet(LAMBDA a : Re!StatusWeight(st[a]), S) = SumOf(w, S)
      BY ArticleSums
    <3>. QED  BY <1>3, <3>1, <3>2 DEF Re!Raw
  <2>2. V \in SUBSET (0 .. 500) /\ V # {}
    BY <1>1, <1>3
  <2>. HIDE DEF S
  <2>3. \A a \in S : sc[a] \in V
    OBVIOUS
  <2>4. \A v \in V : \E a \in S : v = sc[a]
    OBVIOUS
  <2>. HIDE DEF V
  <2>5. PICK lo \in V, hi \in V : \A v \in V : lo <= v /\ v <= hi
    <3>1. 500 \in Nat
      OBVIOUS
    <3>. QED  BY <2>2, <3>1, Extremes
  <2>6. lo \in 0 .. 500 /\ hi \in 0 .. 500
    BY <2>2
  <2>7. ASSUME NEW a \in S
        PROVE  f[a] \in Int /\ w[a] \in Nat \ {0} /\ lo * w[a] <= f[a] /\ f[a] <= hi * w[a]
    <3>1. PICK x \in Nat \ {0} : x = Re!StatusWeight(st[a])
      BY <1>1 DEF Re!StatusWeight
    <3>2. sc[a] \in Int /\ lo <= sc[a] /\ sc[a] <= hi
      BY <1>1, <2>3, <2>5
    <3>3. 1 * sc[a] * x \in Int /\ lo * (1 * x) <= 1 * sc[a] * x /\ 1 * sc[a] * x <= hi * (1 * x)
      BY <2>6, <3>2, ProductsBetween
    <3>4. 1 * x = x /\ 1 * sc[a] = sc[a]
      BY <3>2
    <3>. QED  BY <3>1, <3>3, <3>4
  <2>8. f \in [S -> Int] /\ w \in [S -> Nat]
    BY <2>7
  <2>9. PICK a0 \in S : TRUE
    BY <1>3
  <2>. HIDE DEF f, w
  <2>10. /\ SumOf(f, S) \in Int /\ SumOf(w, S) \in Nat
         /\ lo * SumOf(w, S) <= SumOf(f, S) /\ SumOf(f, S) <= hi * SumOf(w, S)
         /\ w[a0] <= SumOf(w, S)
    <3>1. lo \in Int /\ hi \in Int /\ IsFiniteSet(S)
      BY <1>1, <2>6
    <3>2. \A a \in S : lo * w[a] <= f[a] /\ f[a] <= hi * w[a]
      BY <2>7
    <3>. QED  BY <2>8, <2>9, <3>1, <3>2, SumsBetween
  <2>11. SumOf(w, S) \in Nat \ {0}
    BY <2>7, <2>9, <2>10
  <2>12. q \in Int /\ lo <= q /\ q <= hi
    BY <2>1, <2>6, <2>10, <2>11, QuotientsBetween
  <2>13. PICK a \in S : hi = sc[a]
    BY <2>4
  <2>14. q \in 0 .. 500
    BY <2>6, <2>12
  <2>15. a \in Writings /\ u \in Authors[a] /\ sc[a] # -1
    BY <1>1, <2>13
  <2>16. q <= sc[a]
    BY <2>12, <2>13
  <2>. QED  BY <2>14, <2>15, <2>16
<1>. QED  BY <1>2, <1>3

LEMMA BlendBetween ==
  ASSUME NEW old \in 0 .. 500, NEW new \in 0 .. 500, NEW q \in Re!Blend(old, new)
  PROVE  q \in 0 .. 500 /\ (q <= old \/ q <= new)
<1>1. q \in Re!Nearest(70 * old + 30 * new, 100) /\ 70 * old + 30 * new \in Int /\ 100 \in Nat \ {0}
  BY DEF Re!Blend
<1>2. CASE old <= new
  <2>1. 0 * 100 <= 70 * old + 30 * new /\ 70 * old + 30 * new <= new * 100 /\ new \in Int /\ 0 \in Int
    BY <1>2
  <2>2. q \in Int /\ 0 <= q /\ q <= new
    BY <1>1, <2>1, QuotientsBetween
  <2>. QED  BY <2>2
<1>3. CASE new <= old
  <2>1. 0 * 100 <= 70 * old + 30 * new /\ 70 * old + 30 * new <= old * 100 /\ old \in Int /\ 0 \in Int
    BY <1>3
  <2>2. q \in Int /\ 0 <= q /\ q <= old
    BY <1>1, <2>1, QuotientsBetween
  <2>. QED  BY <2>2
<1>. QED  BY <1>2, <1>3

(* The reputations that are computed at once.                               *)
LEMMA ReputationsBetween ==
  ASSUME Re!ReputationParams, Re!TypeOK, NEW us \in SUBSET Users,
         NEW st \in [Writings -> {"draft", "sedimentation", "published"}],
         NEW sc \in [Writings -> 0 .. 500 \cup {-1}], NEW g \in Re!Reputations(us, st, sc)
  PROVE  /\ g \in [Users -> 0 .. 500 \cup {-1}]
         /\ \A u \in Users : g[u] > 0 =>
              \/ reRep[u] > 0 /\ g[u] <= reRep[u]
              \/ \E a \in Writings : u \in Authors[a] /\ sc[a] # -1 /\ g[u] <= sc[a]
<1>1. /\ DOMAIN g = Users /\ g = [u \in Users |-> g[u]]
      /\ \A u \in Users : g[u] \in IF u \in us THEN UNION {Re!Blend(Re!Old(u), q) : q \in Re!Raw(u, st, sc)}
                                   ELSE {reRep[u]}
  BY DEF Re!Reputations
<1>2. ASSUME NEW u \in Users
      PROVE  /\ g[u] \in 0 .. 500 \cup {-1}
             /\ g[u] > 0 => \/ reRep[u] > 0 /\ g[u] <= reRep[u]
                            \/ \E a \in Writings : u \in Authors[a] /\ sc[a] # -1 /\ g[u] <= sc[a]
  <2>1. reRep[u] \in 0 .. 500 \cup {-1}
    BY DEF Re!TypeOK, Re!Unscored
  <2>2. CASE u \notin us
    <3>1. g[u] = reRep[u]
      BY <1>1, <2>2
    <3>. QED  BY <2>1, <3>1
  <2>3. CASE u \in us
    <3>1. PICK q \in Re!Raw(u, st, sc) : g[u] \in Re!Blend(Re!Old(u), q)
      BY <1>1, <2>3
    <3>2. PICK old \in 0 .. 500 : old = Re!Old(u) /\ (old = 0 \/ old = reRep[u])
      BY <2>1 DEF Re!Old, Re!Unscored
    <3>3. q \in 0 .. 500 /\ (q > 0 => \E a \in Writings : u \in Authors[a] /\ sc[a] # -1 /\ q <= sc[a])
      BY RawBetween
    <3>7. g[u] \in Re!Blend(old, q)
      BY <3>1, <3>2
    <3>4. g[u] \in 0 .. 500 /\ (g[u] <= old \/ g[u] <= q)
      BY <3>3, <3>7, BlendBetween
    <3>5. CASE g[u] > 0 /\ g[u] <= old
      BY <3>2, <3>4, <3>5
    <3>6. CASE g[u] > 0 /\ g[u] <= q
      <4>1. q > 0
        BY <3>3, <3>4, <3>6
      <4>2. PICK a \in Writings : u \in Authors[a] /\ sc[a] # -1 /\ q <= sc[a]
        BY <3>3, <4>1
      <4>3. sc[a] \in Int
        OBVIOUS
      <4>. QED  BY <3>3, <3>4, <3>6, <4>2, <4>3
    <3>. QED  BY <3>4, <3>5, <3>6
  <2>. QED  BY <2>2, <2>3
<1>. QED  BY <1>1, <1>2

(* What a step may do: reviews stay, a score that changes is between two of   *)
(* the reviews, a reputation that changes is not above both what it was and    *)
(* the scores.                                                              *)
Fair(st, rows, sc, rp) ==
  /\ st \in [Writings -> {"draft", "sedimentation", "published"}]
  /\ rows \in [Writings -> [Re!Review -> 0 .. MaxReviews]]
  /\ sc \in [Writings -> 0 .. 500 \cup {-1}] /\ rp \in [Users -> 0 .. 500 \cup {-1}]
  /\ \A a \in Writings, r \in Re!Review : reReviews[a][r] > 0 => rows[a][r] > 0
  /\ \A a \in Writings :
       \/ sc[a] = reScore[a]
       \/ /\ \E r \in Re!Review : rows[a][r] > 0 /\ r.value <= sc[a]
          /\ \E r \in Re!Review : rows[a][r] > 0 /\ sc[a] <= r.value
  /\ \A u \in Users : rp[u] > 0 =>
       \/ reRep[u] > 0 /\ rp[u] <= reRep[u]
       \/ \E a \in Writings : u \in Authors[a] /\ sc[a] # -1 /\ rp[u] <= sc[a]

LEMMA FairIsEarned ==
  ASSUME Re!ReputationParams, Earned, Fair(reStatus', reReviews', reScore', reRep')
  PROVE  Earned'
<1>1. Re!TypeOK'
  BY DEF Fair, Re!TypeOK, Re!Unscored, Re!Review
<1>2. \A a \in Writings : Re!Values(a)' = {r.value : r \in {s \in Re!Review : reReviews'[a][s] > 0}}
  BY DEF Re!Values, Re!Given, Re!Review
<1>3. \A a \in Writings : Re!Values(a) = {r.value : r \in {s \in Re!Review : reReviews[a][s] > 0}}
  BY DEF Re!Values, Re!Given
<1>4. \A a \in Writings : Re!Values(a) \subseteq Re!Values(a)'
  BY <1>2, <1>3 DEF Fair
<1>5. \A a \in Writings : \A v \in Re!Values(a)' : v \in Int
  <2>1. ASSUME NEW r \in Re!Review PROVE r.value \in Int
    <3>1. r.value \in Scores /\ Scores \subseteq 100 .. 500
      BY DEF Re!Review, Re!ReputationParams
    <3>2. PICK x \in 100 .. 500 : x = r.value
      BY ONLY <3>1
    <3>3. x \in Int
      BY ONLY <3>2
    <3>. QED  BY ONLY <3>2, <3>3
  <2>. QED  BY <1>2, <2>1
<1>9. \A a \in Writings : reScore'[a] \in Int
  <2>1. reScore' \in [Writings -> 0 .. 500 \cup {-1}]
    BY DEF Fair
  <2>2. \A a \in Writings : reScore'[a] \in 0 .. 500 \cup {-1}
    BY <2>1
  <2>. QED  BY <2>2
<1>10. \A u \in Users : reRep'[u] \in Int /\ reRep[u] \in Int
  <2>1. reRep' \in [Users -> 0 .. 500 \cup {-1}] /\ reRep \in [Users -> 0 .. 500 \cup {-1}]
    BY DEF Fair, Earned, Re!TypeOK, Re!Unscored
  <2>2. \A u \in Users : reRep'[u] \in 0 .. 500 \cup {-1} /\ reRep[u] \in 0 .. 500 \cup {-1}
    BY <2>1
  <2>3. \A x \in 0 .. 500 \cup {-1} : x \in Int
    OBVIOUS
  <2>. QED  BY <2>2, <2>3
<1>6. ASSUME NEW a \in Writings, reScore'[a] # -1
      PROVE  /\ \E v \in Re!Values(a)' : v <= reScore'[a]
             /\ \E v \in Re!Values(a)' : v >= reScore'[a]
  <2>1. CASE reScore'[a] = reScore[a]
    BY <1>4, <1>6, <2>1 DEF Earned, Re!NumbersAreEarned, Re!Unscored
  <2>2. CASE /\ \E r \in Re!Review : reReviews'[a][r] > 0 /\ r.value <= reScore'[a]
             /\ \E r \in Re!Review : reReviews'[a][r] > 0 /\ reScore'[a] <= r.value
    <3>1. PICK r \in Re!Review : reReviews'[a][r] > 0 /\ r.value <= reScore'[a]
      BY <2>2
    <3>2. PICK s \in Re!Review : reReviews'[a][s] > 0 /\ reScore'[a] <= s.value
      BY <2>2
    <3>3. r.value \in Re!Values(a)' /\ s.value \in Re!Values(a)'
      BY <1>2, <3>1, <3>2
    <3>4. s.value \in Int /\ reScore'[a] \in Int
      BY <1>5, <1>9, <3>3
    <3>. QED  BY <3>1, <3>2, <3>3, <3>4
  <2>. QED  BY <2>1, <2>2 DEF Fair
<1>7. ASSUME NEW u \in Users, reRep'[u] > 0
      PROVE  \E a \in Writings : u \in Authors[a] /\ \E v \in Re!Values(a)' : v >= reRep'[u]
  <2>1. reRep'[u] \in Int /\ reRep[u] \in Int
    BY <1>10
  <2>2. CASE reRep[u] > 0 /\ reRep'[u] <= reRep[u]
    <3>4. PICK a \in Writings : u \in Authors[a] /\ \E v \in Re!Values(a) : v >= reRep[u]
      BY <2>2 DEF Earned, Re!NumbersAreEarned
    <3>1. PICK v \in Re!Values(a) : v >= reRep[u]
      BY <3>4
    <3>2. v \in Re!Values(a)' /\ v \in Int
      BY <1>4, <1>5
    <3>3. v >= reRep'[u]
      BY <2>1, <2>2, <3>1, <3>2
    <3>. QED  BY <3>2, <3>3, <3>4
  <2>3. CASE \E a \in Writings : u \in Authors[a] /\ reScore'[a] # -1 /\ reRep'[u] <= reScore'[a]
    <3>1. PICK a \in Writings : u \in Authors[a] /\ reScore'[a] # -1 /\ reRep'[u] <= reScore'[a]
      BY <2>3
    <3>2. PICK v \in Re!Values(a)' : v >= reScore'[a]
      BY <1>6, <3>1
    <3>3. v \in Int /\ reScore'[a] \in Int
      BY <1>5, <1>9
    <3>4. v >= reRep'[u]
      BY <2>1, <3>1, <3>2, <3>3
    <3>. QED  BY <3>1, <3>4
  <2>. QED  BY <1>7, <2>2, <2>3 DEF Fair
<1>8. Re!NumbersAreEarned'
  BY <1>6, <1>7 DEF Re!NumbersAreEarned, Re!Unscored
<1>. QED  BY <1>1, <1>8 DEF Earned

-----------------------------------------------------------------------------
(* The steps.                                                               *)
LEMMA ReviewedOnce ==
  ASSUME Re!ReputationParams, Re!TypeOK, NEW a \in Writings, NEW r \in Re!Review,
         Re!Number(reReviews[a]) < MaxReviews
  PROVE  LET rows == [reReviews[a] EXCEPT ![r] = @ + 1]
         IN  /\ rows \in [Re!Review -> 0 .. MaxReviews] /\ rows # Re!NoReviews
             /\ \A s \in Re!Review : reReviews[a][s] > 0 => rows[s] > 0
             /\ [reReviews EXCEPT ![a] = rows] \in [Writings -> [Re!Review -> 0 .. MaxReviews]]
<1> DEFINE old == reReviews[a]
           rows == [old EXCEPT ![r] = @ + 1]
<1>1. old \in [Re!Review -> 0 .. MaxReviews] /\ reReviews \in [Writings -> [Re!Review -> 0 .. MaxReviews]]
  BY DEF Re!TypeOK, Re!Review
<1>2. MaxReviews \in Nat
  BY DEF Re!ReputationParams
<1>3. Re!Number(old) \in Nat /\ old[r] <= Re!Number(old)
  <2>1. old \in [Re!Review -> Nat]
    BY <1>1
  <2>. HIDE DEF old
  <2>. QED  BY <2>1, ReviewsAreCounted
<1>4. Re!Number(old) < MaxReviews
  OBVIOUS
<1>. HIDE DEF old
<1>5. old[r] \in Nat
  BY <1>1
<1>6. old[r] + 1 \in 0 .. MaxReviews /\ old[r] + 1 > 0
  BY <1>2, <1>3, <1>4, <1>5
<1>7. rows \in [Re!Review -> 0 .. MaxReviews] /\ rows[r] = old[r] + 1
      /\ \A s \in Re!Review : s # r => rows[s] = old[s]
  BY <1>1, <1>6
<1>8. rows # Re!NoReviews
  BY <1>5, <1>7 DEF Re!NoReviews
<1>9. \A s \in Re!Review : old[s] > 0 => rows[s] > 0
  BY <1>6, <1>7
<1>. HIDE DEF rows
<1>10. [reReviews EXCEPT ![a] = rows] \in [Writings -> [Re!Review -> 0 .. MaxReviews]]
  BY <1>1, <1>7
<1>. QED  BY <1>7, <1>8, <1>9, <1>10 DEF old, rows

LEMMA ReputationPublishes ==
  ASSUME Re!ReputationParams, Earned, NEW a \in Writings, NEW u \in Users, NEW v \in Scores, Re!Publish(a, u, v)
  PROVE  Earned'
<1> DEFINE r == [by |-> u, scope |-> "sedimentation", value |-> v]
           rows == [reReviews[a] EXCEPT ![r] = @ + 1]
<1>1. Re!TypeOK
  BY DEF Earned
<1>2. r \in Re!Review
  BY DEF Re!Review
<1>3. /\ Re!Number(reReviews[a]) < MaxReviews
      /\ reStatus' = [reStatus EXCEPT ![a] = "sedimentation"] /\ reReviews' = [reReviews EXCEPT ![a] = rows]
      /\ reRep' = reRep
      /\ \E q \in Re!ScoresOf(a, rows) : reScore' = [reScore EXCEPT ![a] = q]
  BY DEF Re!Publish, Re!Reviewed
<1>. HIDE DEF r
<1>4. /\ rows \in [Re!Review -> 0 .. MaxReviews] /\ rows # Re!NoReviews
      /\ \A s \in Re!Review : reReviews[a][s] > 0 => rows[s] > 0
      /\ [reReviews EXCEPT ![a] = rows] \in [Writings -> [Re!Review -> 0 .. MaxReviews]]
  BY <1>1, <1>2, <1>3, ReviewedOnce
<1>. HIDE DEF rows
<1>5. PICK q \in Re!ScoresOf(a, rows) : reScore' = [reScore EXCEPT ![a] = q]
  BY <1>3
<1>6. /\ q \in 100 .. 500
      /\ \E s \in Re!Review : rows[s] > 0 /\ s.value <= q
      /\ \E s \in Re!Review : rows[s] > 0 /\ q <= s.value
  <2>1. rows \in [Re!Review -> Nat]
    BY <1>4
  <2>. QED  BY <1>1, <1>4, <2>1, ScoresBetween
<1>7. /\ reStatus \in [Writings -> {"draft", "sedimentation", "published"}]
      /\ reReviews \in [Writings -> [Re!Review -> 0 .. MaxReviews]]
      /\ reScore \in [Writings -> 0 .. 500 \cup {-1}] /\ reRep \in [Users -> 0 .. 500 \cup {-1}]
  BY <1>1 DEF Re!TypeOK, Re!Unscored, Re!Review
<1>8. /\ reReviews'[a] = rows /\ reScore'[a] = q
      /\ \A b \in Writings : b # a => reReviews'[b] = reReviews[b] /\ reScore'[b] = reScore[b]
  BY <1>3, <1>5, <1>7
<1>9. Fair(reStatus', reReviews', reScore', reRep')
  <2>1. /\ reStatus' \in [Writings -> {"draft", "sedimentation", "published"}]
        /\ reReviews' \in [Writings -> [Re!Review -> 0 .. MaxReviews]]
        /\ reScore' \in [Writings -> 0 .. 500 \cup {-1}] /\ reRep' \in [Users -> 0 .. 500 \cup {-1}]
    BY <1>3, <1>4, <1>5, <1>6, <1>7
  <2>2. \A b \in Writings, s \in Re!Review : reReviews[b][s] > 0 => reReviews'[b][s] > 0
    BY <1>4, <1>8
  <2>3. \A b \in Writings :
          \/ reScore'[b] = reScore[b]
          \/ /\ \E s \in Re!Review : reReviews'[b][s] > 0 /\ s.value <= reScore'[b]
             /\ \E s \in Re!Review : reReviews'[b][s] > 0 /\ reScore'[b] <= s.value
    BY <1>6, <1>8
  <2>4. \A w \in Users : reRep'[w] > 0 => reRep[w] > 0 /\ reRep'[w] <= reRep[w]
    <3>1. \A w \in Users : reRep[w] \in 0 .. 500 \cup {-1}
      BY <1>7
    <3>. QED  BY <1>3, <3>1
  <2>. QED  BY <2>1, <2>2, <2>3, <2>4 DEF Fair
<1>. QED  BY <1>9, FairIsEarned

LEMMA ReputationSubmits ==
  ASSUME Re!ReputationParams, Earned, NEW a \in Writings, NEW u \in Users, NEW v \in Scores, Re!Submit(a, u, v)
  PROVE  Earned'
<1> DEFINE r == [by |-> u, scope |-> reStatus[a], value |-> v]
           rows == [reReviews[a] EXCEPT ![r] = @ + 1]
<1>1. Re!TypeOK
  BY DEF Earned
<1>2. r \in Re!Review
  BY <1>1 DEF Re!Review, Re!Submit, Re!TypeOK
<1>3. /\ Re!Number(reReviews[a]) < MaxReviews
      /\ reStatus' = reStatus /\ reReviews' = [reReviews EXCEPT ![a] = rows]
      /\ \E q \in Re!ScoresOf(a, rows) :
           /\ reScore' = [reScore EXCEPT ![a] = q]
           /\ reRep' \in Re!Reputations(Authors[a], reStatus, [reScore EXCEPT ![a] = q])
  BY DEF Re!Submit, Re!Reviewed
<1>. HIDE DEF r
<1>4. /\ rows \in [Re!Review -> 0 .. MaxReviews] /\ rows # Re!NoReviews
      /\ \A s \in Re!Review : reReviews[a][s] > 0 => rows[s] > 0
      /\ [reReviews EXCEPT ![a] = rows] \in [Writings -> [Re!Review -> 0 .. MaxReviews]]
  BY <1>1, <1>2, <1>3, ReviewedOnce
<1>. HIDE DEF rows
<1>5. PICK q \in Re!ScoresOf(a, rows) :
        /\ reScore' = [reScore EXCEPT ![a] = q]
        /\ reRep' \in Re!Reputations(Authors[a], reStatus, reScore')
  BY <1>3
<1>6. /\ q \in 100 .. 500
      /\ \E s \in Re!Review : rows[s] > 0 /\ s.value <= q
      /\ \E s \in Re!Review : rows[s] > 0 /\ q <= s.value
  <2>1. rows \in [Re!Review -> Nat]
    BY <1>4
  <2>. QED  BY <1>1, <1>4, <2>1, ScoresBetween
<1>7. /\ reStatus \in [Writings -> {"draft", "sedimentation", "published"}]
      /\ reReviews \in [Writings -> [Re!Review -> 0 .. MaxReviews]]
      /\ reScore \in [Writings -> 0 .. 500 \cup {-1}] /\ reRep \in [Users -> 0 .. 500 \cup {-1}]
  BY <1>1 DEF Re!TypeOK, Re!Unscored, Re!Review
<1>8. /\ reReviews'[a] = rows /\ reScore'[a] = q
      /\ \A b \in Writings : b # a => reReviews'[b] = reReviews[b] /\ reScore'[b] = reScore[b]
  BY <1>3, <1>5, <1>7
<1>10. reScore' \in [Writings -> 0 .. 500 \cup {-1}]
  BY <1>5, <1>6, <1>7
<1>11. /\ reRep' \in [Users -> 0 .. 500 \cup {-1}]
       /\ \A w \in Users : reRep'[w] > 0 =>
            \/ reRep[w] > 0 /\ reRep'[w] <= reRep[w]
            \/ \E b \in Writings : w \in Authors[b] /\ reScore'[b] # -1 /\ reRep'[w] <= reScore'[b]
  <2>1. Authors[a] \in SUBSET Users
    BY DEF Re!ReputationParams
  <2>2. /\ reStatus \in [Writings -> {"draft", "sedimentation", "published"}]
        /\ reRep' \in Re!Reputations(Authors[a], reStatus, reScore')
    BY <1>5, <1>7
  <2>. QED  BY <1>1, <1>10, <2>1, <2>2, ReputationsBetween
<1>9. Fair(reStatus', reReviews', reScore', reRep')
  <2>2. \A b \in Writings, s \in Re!Review : reReviews[b][s] > 0 => reReviews'[b][s] > 0
    BY <1>4, <1>8
  <2>3. \A b \in Writings :
          \/ reScore'[b] = reScore[b]
          \/ /\ \E s \in Re!Review : reReviews'[b][s] > 0 /\ s.value <= reScore'[b]
             /\ \E s \in Re!Review : reReviews'[b][s] > 0 /\ reScore'[b] <= s.value
    BY <1>6, <1>8
  <2>4. reReviews' \in [Writings -> [Re!Review -> 0 .. MaxReviews]]
    BY <1>3, <1>4
  <2>. QED  BY <1>3, <1>7, <1>10, <1>11, <2>2, <2>3, <2>4 DEF Fair
<1>. QED  BY <1>9, FairIsEarned

(* The scan and a new computation: the reviews are what they were.           *)
LEMMA ReputationScans ==
  ASSUME Re!ReputationParams, Earned, NEW a \in Writings, Re!Scan(a) \/ Re!Rescore(a)
  PROVE  Earned'
<1>1. Re!TypeOK
  BY DEF Earned
<1>7. /\ reStatus \in [Writings -> {"draft", "sedimentation", "published"}]
      /\ reReviews \in [Writings -> [Re!Review -> 0 .. MaxReviews]]
      /\ reScore \in [Writings -> 0 .. 500 \cup {-1}] /\ reRep \in [Users -> 0 .. 500 \cup {-1}]
  BY <1>1 DEF Re!TypeOK, Re!Unscored, Re!Review
<1>2. PICK q \in Re!ScoresOf(a, reReviews[a]) \cup {reScore[a]} : reScore' = [reScore EXCEPT ![a] = q]
  BY DEF Re!Scan, Re!Rescore
<1>3. /\ reReviews' = reReviews
      /\ reStatus' = reStatus \/ \E st \in {"published", "sedimentation", "draft"} : reStatus' = [reStatus EXCEPT ![a] = st]
      /\ reRep' = reRep \/ reRep' \in Re!Reputations(Authors[a], reStatus', reScore')
  BY DEF Re!Scan, Re!Rescore
<1>4. \/ q = reScore[a]
      \/ /\ q \in 100 .. 500
         /\ \E s \in Re!Review : reReviews[a][s] > 0 /\ s.value <= q
         /\ \E s \in Re!Review : reReviews[a][s] > 0 /\ q <= s.value
  <2>1. CASE reReviews[a] = Re!NoReviews
    BY <2>1 DEF Re!ScoresOf
  <2>2. CASE reReviews[a] # Re!NoReviews /\ q \in Re!ScoresOf(a, reReviews[a])
    <3>1. reReviews[a] \in [Re!Review -> Nat]
      BY <1>7
    <3>. QED  BY <1>1, <2>2, <3>1, ScoresBetween
  <2>. QED  BY <2>1, <2>2
<1>5. q \in 0 .. 500 \cup {-1}
  BY <1>4, <1>7
<1>6. /\ reScore' \in [Writings -> 0 .. 500 \cup {-1}]
      /\ reStatus' \in [Writings -> {"draft", "sedimentation", "published"}]
      /\ reScore'[a] = q /\ \A b \in Writings : b # a => reScore'[b] = reScore[b]
  BY <1>2, <1>3, <1>5, <1>7
<1>8. /\ reRep' \in [Users -> 0 .. 500 \cup {-1}]
      /\ \A w \in Users : reRep'[w] > 0 =>
           \/ reRep[w] > 0 /\ reRep'[w] <= reRep[w]
           \/ \E b \in Writings : w \in Authors[b] /\ reScore'[b] # -1 /\ reRep'[w] <= reScore'[b]
  <2>1. CASE reRep' = reRep
    <3>1. \A x \in 0 .. 500 \cup {-1} : x <= x
      OBVIOUS
    <3>2. \A w \in Users : reRep'[w] \in 0 .. 500 \cup {-1} /\ reRep'[w] = reRep[w]
      BY <1>7, <2>1
    <3>3. \A w \in Users : reRep'[w] <= reRep[w]
      BY <3>1, <3>2
    <3>4. reRep' \in [Users -> 0 .. 500 \cup {-1}]
      BY <1>7, <2>1
    <3>. QED  BY <2>1, <3>3, <3>4
  <2>2. CASE reRep' \in Re!Reputations(Authors[a], reStatus', reScore')
    <3>1. Authors[a] \in SUBSET Users
      BY DEF Re!ReputationParams
    <3>. QED  BY <1>1, <1>6, <2>2, <3>1, ReputationsBetween
  <2>. QED  BY <1>3, <2>1, <2>2
<1>9. Fair(reStatus', reReviews', reScore', reRep')
  <2>1. \A b \in Writings :
          \/ reScore'[b] = reScore[b]
          \/ /\ \E s \in Re!Review : reReviews'[b][s] > 0 /\ s.value <= reScore'[b]
             /\ \E s \in Re!Review : reReviews'[b][s] > 0 /\ reScore'[b] <= s.value
    BY <1>3, <1>4, <1>6
  <2>. QED  BY <1>3, <1>6, <1>7, <1>8, <2>1 DEF Fair
<1>. QED  BY <1>9, FairIsEarned

LEMMA ReputationNextInv == Re!ReputationParams /\ Earned /\ [Re!Next]_(Re!vars) => Earned'
<1>1. SUFFICES ASSUME Re!ReputationParams, Earned, [Re!Next]_(Re!vars) PROVE Earned'
  OBVIOUS
<1>2. CASE UNCHANGED Re!vars
  BY <1>1, <1>2 DEF Earned, Re!vars, Re!TypeOK, Re!NumbersAreEarned, Re!Values, Re!Given
<1>3. CASE Re!Next
  BY <1>1, <1>3, ReputationPublishes, ReputationSubmits, ReputationScans DEF Re!Next
<1>. QED  BY <1>1, <1>2, <1>3

-----------------------------------------------------------------------------
(* The behaviours of the parts, seen from Reputation, are its own.              *)
LEMMA ReputationAlone == Spec => Re!Init /\ [][Re!Next]_(Re!vars)
<1>1. Init => Re!Init
  BY DEF Init
<1>2. Next => Re!Next \/ reVars' = reVars
  BY DEF Next
<1>3. vars' = vars => reVars' = reVars
  BY DEF vars
<1>4. reVars' = reVars => UNCHANGED Re!vars
  BY DEF reVars, Re!vars
<1>5. [Next]_vars => [Re!Next]_(Re!vars)
  BY <1>2, <1>3, <1>4
<1>. QED  BY <1>1, <1>5, PTL DEF Spec

LEMMA ReputationAlways == Re!Init /\ [][Re!Next]_(Re!vars) => []Earned
<1>1. Re!ReputationParams
  BY PartParams DEF PartParams
<1>2. Re!Init => Earned
  <2>1. SUFFICES ASSUME Re!Init PROVE Earned
    OBVIOUS
  <2>2. MaxReviews \in Nat
    BY <1>1 DEF Re!ReputationParams
  <2>3. Re!TypeOK
    BY <2>1, <2>2 DEF Re!Init, Re!TypeOK, Re!NoReviews
  <2>4. ~(-1 > 0) /\ Re!Unscored = -1
    BY DEF Re!Unscored
  <2>5. Re!NumbersAreEarned
    BY <2>1, <2>4 DEF Re!Init, Re!NumbersAreEarned
  <2>. QED  BY <2>3, <2>5 DEF Earned
<1>3. Earned /\ [Re!Next]_(Re!vars) => Earned'
  BY <1>1, ReputationNextInv
<1>. QED  BY <1>2, <1>3, PTL

(* The types hold in every state, for any articles, authors and scores given. *)
THEOREM ReputationTypes == (Re!Spec => []Re!TypeOK) /\ (Spec => []Re!TypeOK)
<1>1. Earned => Re!TypeOK
  BY DEF Earned
<1>. QED  BY <1>1, ReputationAlways, ReputationAlone, PTL DEF Re!Spec

(* A score lies between the lowest and the highest of the reviews of its      *)
(* article, and a reputation is not above the best review of an article one    *)
(* has written: however many reviewers weigh by their own reputations, and     *)
(* whatever the rounding of hundredths does (aggregate_review_scores,          *)
(* compute_reputation, blend_reputation).                                  *)
THEOREM ScoresAreEarned == (Re!Spec => []Re!NumbersAreEarned) /\ (Spec => []NumbersAreEarned)
<1>1. Earned => Re!NumbersAreEarned
  BY DEF Earned
<1>2. Re!NumbersAreEarned => NumbersAreEarned
  BY DEF NumbersAreEarned
<1>. QED  BY <1>1, <1>2, ReputationAlways, ReputationAlone, PTL DEF Re!Spec
=============================================================================
