------------------------------- MODULE Reviews --------------------------------
(***************************************************************************)
(* The reviews of one article: invitations, reviews and replies.  A review *)
(* is written to a thread of the repository first and becomes a row of the *)
(* database afterwards; in the pool its directory has an anonymous name    *)
(* that only its author can derive.  Verdicts of the scan may fall between  *)
(* the two writes, and the second one may never happen.                     *)
(***************************************************************************)
EXTENDS Integers, FiniteSets, SequencesExt

CONSTANTS
  Users,
  Maintainers,   \* of the article; its authors as well
  MaxMessages,   \* bound of the model: messages in all threads
  MaxPhases      \* bound of the model: changes of status

(* Assumed of the constants where the module is instantiated.               *)
ReviewParams ==
  /\ Maintainers \subseteq Users /\ Maintainers # {}
  /\ MaxMessages \in Nat /\ MaxPhases \in Nat

VARIABLES
  status,   \* of the article
  phases,   \* changes of status so far
  rows,     \* the reviews table, oldest row first
  threads,  \* [Dirs -> Seq(Message)]: the files of reviews/<directory>/threads
  made,     \* messages so far: the next commit
  writing,  \* [Users -> Commit or None]: the review that is not in the database yet
  inbox     \* notifications: [to, event, from]

vars == <<status, phases, rows, threads, made, writing, inbox>>

None == -1
Pending == -2    \* commit_hash of an invitation

(* A directory carries the id of an account or a hash of its signing key.   *)
Dirs == [of : Users, anonymous : BOOLEAN]

States == {"invited", "accepted", "declined", "submitted"}

Row == [reviewer : Users, scope : {"sedimentation", "published", "rejected"}, state : States,
        commit : Nat \cup {Pending}, rated : BOOLEAN]

Reviewable == {"sedimentation", "published"}

(* to: the reviewer it is about; during: the status then; at: its commit.   *)
Message == [by : Users, kind : {"review", "reply"}, to : Users, during : Reviewable, at : Nat]

-----------------------------------------------------------------------------
(* Queries of the table.                                                    *)
RowsOf(u, state) == {i \in DOMAIN rows : rows[i].reviewer = u /\ rows[i].state = state}

Invited(u) == RowsOf(u, "invited")      \* get_pending_invitation
Accepted(u) == RowsOf(u, "accepted")    \* get_accepted_invitation
Submitted(u) == RowsOf(u, "submitted")

Newest(S) == CHOOSE i \in S : \A j \in S : j <= i

SetState(i, state) == [rows EXCEPT ![i].state = state]

SameKey(r, s) == /\ r.reviewer = s.reviewer
                 /\ r.scope = s.scope
                 /\ r.commit = s.commit

(* Mutant: the key of an invitation includes its state.                    *)
InsertableOpen(r) == \A i \in DOMAIN rows : ~(SameKey(rows[i], r) /\ rows[i].state = r.state)

(* The unique key does not include the state of a row.                     *)
Insertable(r) == \A i \in DOMAIN rows : ~SameKey(rows[i], r)

Upserted(u, commit) ==
  LET r == [reviewer |-> u, scope |-> status, state |-> "submitted", commit |-> commit,
            rated |-> FALSE]
  IN  IF Insertable(r) THEN Append(rows, r) ELSE rows

(* Mutant: the invitation is used up and a new row is made as well.         *)
PersistedTwice(u, commit) ==
  IF Accepted(u) = {} THEN Upserted(u, commit)
  ELSE [Upserted(u, commit) EXCEPT ![Newest(Accepted(u))].state = "submitted",
                                   ![Newest(Accepted(u))].commit = commit]

(* The accepted invitation becomes the review and keeps its scope.         *)
Persisted(u, commit) ==
  IF Accepted(u) = {} THEN Upserted(u, commit)
  ELSE [rows EXCEPT ![Newest(Accepted(u))].state = "submitted",
                    ![Newest(Accepted(u))].commit = commit]

-----------------------------------------------------------------------------
(* Threads.                                                                 *)

(* Mutant: reviews of the pool are signed with the name as well.            *)
DirectoryNamed(u, ref) == [of |-> ref, anonymous |-> FALSE]

(* In the pool the directory is derived from the key of whoever writes, at  *)
(* other times it is the reviewer that the message is about.               *)
Directory(u, ref) ==
  IF status = "sedimentation" THEN [of |-> u, anonymous |-> TRUE]
  ELSE [of |-> ref, anonymous |-> FALSE]

WriteTo(dir, u, kind, to, during) ==
  /\ made < MaxMessages
  /\ threads' = [threads EXCEPT ![dir] =
       Append(@, [by |-> u, kind |-> kind, to |-> to, during |-> during, at |-> made])]
  /\ made' = made + 1

(* Any thread of the article with a second message counts as a reply.      *)
AuthorHasReplied == \E d \in Dirs : Len(threads[d]) > 1

Notify(tos, event, from) == inbox' = inbox \cup [to : tos, event : {event}, from : {from}]

-----------------------------------------------------------------------------
Init ==
  /\ status = "draft"
  /\ phases = 0
  /\ rows = <<>>
  /\ threads = [d \in Dirs |-> <<>>]
  /\ made = 0
  /\ writing = [u \in Users |-> None]
  /\ inbox = {}

Enter(from, to) ==
  /\ status = from
  /\ status' = to
  /\ phases < MaxPhases
  /\ phases' = phases + 1

(* Publishing writes the self-review under the name of the maintainer.      *)
Publish(u) ==
  /\ u \in Maintainers
  /\ Enter("draft", "sedimentation")
  /\ WriteTo([of |-> u, anonymous |-> FALSE], u, "review", u, "sedimentation")
  /\ rows' = Append(rows, [reviewer |-> u, scope |-> "sedimentation", state |-> "submitted",
                           commit |-> made, rated |-> FALSE])
  /\ UNCHANGED <<writing, inbox>>

(* The scan, and the edits that send an article back.                       *)
Verdict ==
  /\ \E to \in {"published", "rejected"} : Enter("sedimentation", to)
  /\ UNCHANGED <<rows, threads, made, writing, inbox>>

Reopen ==
  /\ Enter("published", "sedimentation")
  /\ UNCHANGED <<rows, threads, made, writing, inbox>>

NoConflict(u) ==
  /\ Invited(u) = {}
  /\ Accepted(u) = {}
  /\ Submitted(u) # {} => AuthorHasReplied

Invite(m, u) ==
  LET r == [reviewer |-> u, scope |-> "sedimentation", state |-> "invited",
            commit |-> Pending, rated |-> FALSE]
  IN
  /\ status = "sedimentation"
  /\ m # u
  /\ m \in Maintainers
  /\ NoConflict(u)
  /\ Insertable(r)
  /\ rows' = Append(rows, r)
  /\ Notify({u}, "review_invitation", m)
  /\ UNCHANGED <<status, phases, threads, made, writing>>

Answer(u, state) ==
  /\ Invited(u) # {}
  /\ rows' = SetState(Newest(Invited(u)), state)
  /\ UNCHANGED <<status, phases, threads, made, writing, inbox>>

AcceptInvitation(u) == Answer(u, "accepted")
DeclineInvitation(u) == Answer(u, "declined")

(* The review is committed, in the directory that the status asks for.      *)
SubmitWrite(u) ==
  /\ status \in Reviewable
  /\ writing[u] = None
  /\ WriteTo(Directory(u, u), u, "review", u, status)
  /\ writing' = [writing EXCEPT ![u] = made]
  /\ UNCHANGED <<status, phases, rows, inbox>>

SubmitStore(u) ==
  /\ writing[u] # None
  /\ rows' = Persisted(u, writing[u])
  /\ writing' = [writing EXCEPT ![u] = None]
  /\ Notify(Maintainers \ {u}, "review_submitted", u)
  /\ UNCHANGED <<status, phases, threads, made>>

(* The process dies in between: the thread has a review without a row.     *)
SubmitLost(u) ==
  /\ writing[u] # None
  /\ writing' = [writing EXCEPT ![u] = None]
  /\ UNCHANGED <<status, phases, rows, threads, made, inbox>>

Reply(m, u) ==
  /\ status \in Reviewable
  /\ m \in Maintainers
  /\ WriteTo(Directory(m, u), m, "reply", u, status)
  /\ Notify({u}, "review_reply", m)
  /\ UNCHANGED <<status, phases, rows, writing>>

(* The newest row of the reviewer is rated, whatever its state.            *)
Rate(m, u) ==
  LET own == {i \in DOMAIN rows : rows[i].reviewer = u} IN
  /\ m \in Maintainers
  /\ own # {}
  /\ rows' = [rows EXCEPT ![Newest(own)].rated = TRUE]
  /\ UNCHANGED <<status, phases, threads, made, writing, inbox>>

Next ==
  \/ Verdict \/ Reopen
  \/ \E u \in Users :
       \/ Publish(u) \/ AcceptInvitation(u) \/ DeclineInvitation(u)
       \/ SubmitWrite(u) \/ SubmitStore(u) \/ SubmitLost(u)
       \/ \E m \in Users : Invite(m, u) \/ Reply(m, u) \/ Rate(m, u)

Spec == Init /\ [][Next]_vars

-----------------------------------------------------------------------------
TypeOK ==
  /\ status \in {"draft", "sedimentation", "published", "rejected"}
  /\ phases \in 0..MaxPhases
  /\ rows \in Seq(Row)
  /\ threads \in [Dirs -> Seq(Message)]
  /\ made \in 0..MaxMessages
  /\ writing \in [Users -> Nat \cup {None}]
  /\ inbox \subseteq [to : Users, from : Users,
                    event : {"review_invitation", "review_submitted", "review_reply"}]

(* At most one invitation of a reviewer waits, and none after the reviewer  *)
(* has declined one, in whatever order people invite, decline, submit and   *)
(* answer: the table then refuses another one.                             *)
OneInvitation ==
  \A u \in Users :
    /\ Cardinality(Invited(u) \cup Accepted(u)) <= 1
    /\ RowsOf(u, "declined") # {} => Invited(u) \cup Accepted(u) = {}

(* In the pool nobody but a maintainer who publishes writes under a name.   *)
PoolIsAnonymous ==
  \A d \in Dirs : ~d.anonymous =>
    \A i \in DOMAIN threads[d] :
      threads[d][i].during = "sedimentation" => threads[d][i].by \in Maintainers

(* A row never precedes its review: whatever was lost between the two       *)
(* writes, each submitted row belongs to a review in a thread of its        *)
(* reviewer, and no two rows to the same commit.                            *)
RowsHaveReviews ==
  \A u \in Users :
    /\ Cardinality(Submitted(u)) <=
         Cardinality({w \in Dirs \X (1..MaxMessages) :
           /\ w[1].of = u /\ w[2] \in DOMAIN threads[w[1]]
           /\ threads[w[1]][w[2]].kind = "review"})
    /\ \A i, j \in Submitted(u) : i # j => rows[i].commit # rows[j].commit
=============================================================================
