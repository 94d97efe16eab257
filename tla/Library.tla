-------------------------------- MODULE Library -------------------------------
(***************************************************************************)
(* The rows of a device about articles and about what refers to them:      *)
(* forks and their count, maintainers, bookmarks, shares, notifications and *)
(* articles heard of from peers.  A fork is made in two steps, which leave  *)
(* time for the commands of other processes: its repository is cloned, then *)
(* its rows are stored.  What else becomes of one article in its two stores *)
(* is the matter of ArticleStore.                                          *)
(***************************************************************************)
EXTENDS Integers, FiniteSets

CONSTANTS
  Users,
  Accounts,    \* those of them with an account on the device
  Heard,       \* statuses of articles that peers publish
  MaxArticles, \* bound: ids that are given away, one after the other
  MaxRefs      \* bound: rows that refer to articles

(* Assumed of the constants where the module is instantiated.              *)
LibraryParams ==
  /\ Accounts \subseteq Users
  /\ Heard \subseteq {"sedimentation", "published", "rejected"}
  /\ MaxArticles \in Nat /\ MaxRefs \in Nat

VARIABLES
  row,      \* [Articles -> Row]: articles and article_authors
  mids,     \* [Articles -> SUBSET Users]: script_maintainers
  saved,    \* bookmarks, pairs of a user and an article
  shared,   \* shares, likewise
  notes,    \* notifications, triples of a user, an article and "read" or "unread"
  forking,  \* forks under way
  used,     \* the last id that was given away, on any device
  dropped   \* articles that were deleted here

refs == <<saved, shared, notes>>
vars == <<row, mids, refs, forking, used, dropped>>

Articles == 1 .. MaxArticles
NoArticle == 0

Statuses == {"draft", "sedimentation", "published", "rejected"}
Row == [status : Statuses \cup {"none"}, origin : Articles \cup {NoArticle},
        forks : 0 .. MaxArticles, authors : SUBSET Users, stub : BOOLEAN]
NoRow == [status |-> "none", origin |-> NoArticle, forks |-> 0, authors |-> {},
          stub |-> FALSE]

Exists(a) == row[a] # NoRow
Forks(a) == {f \in Articles : row[f].origin = a}

Init ==
  /\ row = [a \in Articles |-> NoRow]
  /\ mids = [a \in Articles |-> {}]
  /\ saved = {} /\ shared = {} /\ notes = {}
  /\ forking = {}
  /\ used = 0
  /\ dropped = {}

Added(a, origin, authors, status, stub) ==
  [row EXCEPT ![a] = [status |-> status, origin |-> origin, forks |-> 0,
                      authors |-> authors, stub |-> stub]]

Create(u, a) ==
  /\ a = used + 1
  /\ used' = a
  /\ row' = Added(a, NoArticle, {u}, "draft", FALSE)
  /\ mids' = [mids EXCEPT ![a] = {u}]
  /\ UNCHANGED <<refs, forking, dropped>>

(* ensure_article_stub, with an exchange that names neither origin nor forks; *)
(* a download of the bundle brings the repository as well.  The article may *)
(* be one of this device that was uploaded, deleted here and published by    *)
(* another maintainer.                                                     *)
Ingest(a, u, status, stub) ==
  /\ ~Exists(a)
  /\ a \in dropped \/ a = used + 1
  /\ used' = IF a > used THEN a ELSE used
  /\ row' = Added(a, NoArticle, {u}, status, stub)
  /\ UNCHANGED <<mids, refs, forking, dropped>>

(* update_article_status and set_sink_start, whatever command calls them.  *)
Turns(status) ==
  CASE status = "draft" -> {"sedimentation"}
    [] status = "sedimentation" -> {"published", "rejected"}
    [] status = "published" -> {"sedimentation"}
    [] OTHER -> {}

SetStatus(a) ==
  /\ mids[a] # {}
  /\ \E status \in Turns(row[a].status) : row' = [row EXCEPT ![a].status = status]
  /\ UNCHANGED <<mids, refs, forking, used, dropped>>

-----------------------------------------------------------------------------
(* FORKABLE_STATUSES; a draft is forked by its maintainers only.           *)
Forkable(u, a) ==
  \/ row[a].status = "draft" /\ u \in mids[a]
  \/ row[a].status \in {"published", "rejected"}

(* The authors of the origin are authors of every fork.                    *)
AlreadyForked(u, a) == \E f \in Forks(a) : u \in row[f].authors

ForkBegin(u, a, f) ==
  /\ Exists(a) /\ ~row[a].stub
  /\ Forkable(u, a)
  /\ ~AlreadyForked(u, a)
  /\ f = used + 1
  /\ used' = f
  /\ forking' = forking \cup {[by |-> u, from |-> a, to |-> f,
                               authors |-> row[a].authors \cup {u}]}
  /\ UNCHANGED <<row, mids, refs, dropped>>

(* Mutants: one of the two counts is forgotten.                            *)
Uncounted(rows, a, n) == rows

(* The count has a floor at 0; a row that is gone is passed over.          *)
Counted(rows, a, n) ==
  IF a = NoArticle \/ rows[a] = NoRow THEN rows
  ELSE [rows EXCEPT ![a].forks = IF @ + n < 0 THEN 0 ELSE @ + n]

ForkStore(j) ==
  /\ row' = Counted(Added(j.to, j.from, j.authors, "draft", FALSE), j.from, 1)
  /\ mids' = [mids EXCEPT ![j.to] = {j.by}]
  /\ forking' = forking \ {j}
  /\ UNCHANGED <<refs, used, dropped>>

(* A crash, or the lock of the database; the clone remains.                *)
ForkLost(j) ==
  /\ forking' = forking \ {j}
  /\ UNCHANGED <<row, mids, refs, used, dropped>>

(* Shares and notifications are not cascaded to: their foreign keys fail the *)
(* command, which then leaves everything as it is.                         *)
Referred(a) ==
  \E u \in Users : <<u, a>> \in shared \/ \E read \in {"read", "unread"} : <<u, a, read>> \in notes

(* A maintainer deletes a draft.  That several have to consent is in        *)
(* Sedimentation.                                                          *)
Delete(u, a) ==
  /\ row[a].status = "draft" /\ u \in mids[a]
  /\ ~Referred(a)
  /\ row' = Counted([row EXCEPT ![a] = NoRow], row[a].origin, -1)
  /\ mids' = [mids EXCEPT ![a] = {}]
  /\ saved' = saved \ (Users \X {a})
  /\ dropped' = dropped \cup {a}
  /\ UNCHANGED <<shared, notes, forking, used>>

-----------------------------------------------------------------------------
Refs == Cardinality(saved) + Cardinality(shared) + Cardinality(notes)

Bookmark(u, a) ==
  /\ Exists(a) /\ Refs < MaxRefs
  /\ saved' = saved \cup {<<u, a>>}
  /\ UNCHANGED <<row, mids, shared, notes, forking, used, dropped>>

Unbookmark(u, a) ==
  /\ Exists(a)
  /\ saved' = saved \ {<<u, a>>}
  /\ UNCHANGED <<row, mids, shared, notes, forking, used, dropped>>

(* Shared again, a row changes its comment only.                           *)
Share(u, a) ==
  /\ Exists(a) /\ Refs < MaxRefs
  /\ shared' = shared \cup {<<u, a>>}
  /\ UNCHANGED <<row, mids, saved, notes, forking, used, dropped>>

Unshare(u, a) ==
  /\ Exists(a)
  /\ shared' = shared \ {<<u, a>>}
  /\ UNCHANGED <<row, mids, saved, notes, forking, used, dropped>>

(* create_notification, at the event points of other commands.             *)
Notify(u, a) ==
  /\ Exists(a) /\ Refs < MaxRefs
  /\ notes' = notes \cup {<<u, a, "unread">>}
  /\ UNCHANGED <<row, mids, saved, shared, forking, used, dropped>>

(* require_notification: it exists, and is one's own.                      *)
Own(u, a) == <<u, a, "unread">> \in notes

(* Nothing deletes a notification.                                         *)
MarkRead(u, a) ==
  /\ Own(u, a)
  /\ notes' = (notes \ {<<u, a, "unread">>}) \cup {<<u, a, "read">>}
  /\ UNCHANGED <<row, mids, saved, shared, forking, used, dropped>>

Next ==
  \/ \E a \in Articles :
       \/ SetStatus(a)
       \/ \E u \in Users \ Accounts, status \in Heard, stub \in BOOLEAN :
            Ingest(a, u, status, stub)
       \/ \E u \in Accounts :
            \/ Create(u, a) \/ Delete(u, a)
            \/ \E f \in Articles : ForkBegin(u, a, f)
            \/ Bookmark(u, a) \/ Unbookmark(u, a) \/ Share(u, a) \/ Unshare(u, a)
            \/ Notify(u, a) \/ MarkRead(u, a)
  \/ \E j \in forking : ForkStore(j) \/ ForkLost(j)

Spec == Init /\ [][Next]_vars

-----------------------------------------------------------------------------
TypeOK ==
  /\ row \in [Articles -> Row]
  /\ mids \in [Articles -> SUBSET Users]
  /\ saved \subseteq Users \X Articles
  /\ shared \subseteq Users \X Articles
  /\ notes \subseteq Users \X Articles \X {"read", "unread"}
  /\ forking \subseteq [by : Users, from : Articles, to : Articles, authors : SUBSET Users]
  /\ used \in 0 .. MaxArticles
  /\ dropped \subseteq Articles

(* fork_count is kept by hand in two commands.  It is the number of forks   *)
(* on the device, through deletions that fail on a foreign key, origins     *)
(* that are deleted while they are forked, and forks of forks.  An origin   *)
(* that was deleted and heard of again starts from 0 and never counts more  *)
(* forks than there are (increment_fork_count, decrement_fork_count).      *)
CountsAreForks ==
  \A a \in Articles : Exists(a) =>
    /\ row[a].forks <= Cardinality(Forks(a))
    /\ a \notin dropped => row[a].forks = Cardinality(Forks(a))
=============================================================================
