----------------------------- MODULE ArticleStore -----------------------------
(***************************************************************************)
(* One article in its two stores.  A command of one of several processes   *)
(* commits to the git repository first and stores its row in the database  *)
(* afterwards; nothing joins the two.  A process may crash or fail between *)
(* any two steps: the transaction is lost, the commits stay.  A pull merges *)
(* commits of a peer and rebuilds the row from the repository.              *)
(*                                                                         *)
(* The repository is its list of commits.  Reads of the database see what  *)
(* is committed; the first write takes the lock of the database, which is  *)
(* held until the transaction ends.                                        *)
(***************************************************************************)
EXTENDS Integers, FiniteSets, SequencesExt

CONSTANTS
  Procs,         \* processes of the device: CLI commands, REPL, server
  Nobody,        \* the database is not locked
  Window,        \* commits that read_status_from_git looks at
  MinApprovals,  \* params.sink.min_approvals
  MaxCharges,    \* extensions and edits that the budget of days allows
  Incoming,      \* kinds of commits a peer may have made
  MaxCommits,    \* bound of the model: no new command beyond so many commits
  MaxFails       \* bound of the model: crashes and failed commands

ASSUME StoreParams ==
  /\ IsFiniteSet(Procs) /\ Nobody \notin Procs
  /\ Window \in Nat \ {0}
  /\ {MinApprovals, MaxCharges, MaxCommits, MaxFails} \subseteq Nat

VARIABLES
  log,      \* commits of the repository, oldest first; empty without repository
  made,     \* number of commits ever made: the next commit's identity
  row,      \* the committed row of the article and its approving reviews
  writer,   \* the process whose transaction holds the database lock
  pending,  \* what that transaction will commit
  work,     \* [Procs -> Work]: the command a process is in
  fails,    \* crashes and failures so far
  clean,    \* no command has failed halfway or met another one since the last repair
  dropped   \* a failed pull was undone that overlapped with another command

vars == <<log, made, row, writer, pending, work, fails, clean, dropped>>

db == <<row, writer, pending>>

Markers == {"sedimentation", "published", "rejected"}
Kinds == Markers \cup {"content", "self", "named", "anonymous"}
Statuses == Markers \cup {"absent", "draft", "deleted"}

ASSUME IncomingKinds == Incoming \subseteq Kinds \ {"self"}

(* approvals: commits of the rows of a reviewer who approves and is not an  *)
(* author.                                                                 *)
Row == [status : Statuses, timed : BOOLEAN, due : BOOLEAN, charged : Nat,
        approvals : SUBSET Nat]

NoRow == [status |-> "absent", timed |-> FALSE, due |-> FALSE, charged |-> 0,
          approvals |-> {}]

(* seen: the status a command read when it began; verdict: the marker it is *)
(* going to commit; charged: the charges it read; base: the history before  *)
(* the merge of a pull; commit: the commit of its file or merge; met:       *)
(* another command was under way at the same time.                          *)
Commits == [id : Nat, kind : Kinds]

Work == [cmd : {"none", "create", "publish", "edit", "rollback", "review", "delete", "scan", "pull"},
         pc : {"idle", "commit", "lock", "marker", "remove", "store", "reconcile", "scan"},
         seen : Statuses, verdict : Statuses \cup {"none", "extend"}, charged : Nat,
         base : Seq(Commits), commit : Nat, met : BOOLEAN]

Idle == [cmd |-> "none", pc |-> "idle", seen |-> "absent", verdict |-> "none",
         charged |-> 0, base |-> <<>>, commit |-> 0, met |-> FALSE]

Busy(p) == work[p].pc # "idle"
Others(p) == Procs \ {p}
Exists == row.status \in Markers \cup {"draft"}

-----------------------------------------------------------------------------
(* The repository.                                                          *)
Has(kinds) == \E i \in DOMAIN log : log[i].kind \in kinds

Marker(commits) ==
  LET marks == {i \in DOMAIN commits : commits[i].kind \in Markers}
  IN  IF marks = {} THEN "none" ELSE commits[Max(marks)].kind

(* Only the latest commits are searched.                                   *)
StatusInGit ==
  Marker(SubSeq(log, IF Len(log) > Window THEN Len(log) - Window + 1 ELSE 1, Len(log)))

Commit(kind) ==
  /\ log' = Append(log, [id |-> made, kind |-> kind])
  /\ made' = made + 1

(* A scan does without a repository.                                       *)
CommitIfThere(kind) == IF log # <<>> THEN Commit(kind) ELSE UNCHANGED <<log, made>>

(* p begins a command.                                                     *)
Enter(p, w) ==
  /\ ~Busy(p)
  /\ work' = [q \in Procs |->
       IF q = p THEN [w EXCEPT !.met = \E r \in Others(p) : Busy(r)]
       ELSE IF Busy(q) THEN [work[q] EXCEPT !.met = TRUE] ELSE Idle]
  /\ clean' = (clean /\ \A q \in Procs : ~Busy(q))

Begin(p, cmd, pc, verdict) ==
  /\ made < MaxCommits
  /\ Enter(p, [Idle EXCEPT !.cmd = cmd, !.pc = pc, !.seen = row.status, !.verdict = verdict,
                           !.commit = made, !.base = IF cmd = "pull" THEN log ELSE <<>>])

Goto(p, from, to) == work[p].pc = from /\ work' = [work EXCEPT ![p].pc = to]

Init ==
  /\ log = <<>>
  /\ made = 0
  /\ row = NoRow
  /\ writer = Nobody
  /\ pending = NoRow
  /\ work = [p \in Procs |-> Idle]
  /\ fails = 0
  /\ clean = TRUE
  /\ dropped = FALSE

-----------------------------------------------------------------------------
(* Commands begin with their reads and checks, the repository's presence    *)
(* among them.                                                             *)
Create(p) ==
  /\ made = 0
  /\ Begin(p, "create", "store", "draft")
  /\ Commit("content")
  /\ UNCHANGED <<db, fails, dropped>>

(* The repair that precedes publishing finds no marker in a draft's         *)
(* repository.  If it found one it would change the status; the draft is    *)
(* then refused and the repair rolled back.                                *)
Consistent == StatusInGit = "none"

PublishBegin(p) ==
  /\ row.status = "draft"
  /\ log # <<>>
  /\ Consistent
  /\ Begin(p, "publish", "commit", "sedimentation")
  /\ UNCHANGED <<log, made, db, fails, dropped>>

(* In the pool the message must close a thread of a review.                *)
EditBegin(p) ==
  /\ row.status \in {"draft", "sedimentation", "published"}
  /\ log # <<>>
  /\ row.status = "sedimentation" => Has({"self", "named", "anonymous"})
  /\ Begin(p, "edit", "commit", "sedimentation")
  /\ UNCHANGED <<log, made, db, fails, dropped>>

RollbackBegin(p) ==
  /\ row.status \in {"draft", "sedimentation", "published"}
  /\ log # <<>>
  /\ Begin(p, "rollback", "commit", "sedimentation")
  /\ UNCHANGED <<log, made, db, fails, dropped>>

ReviewBegin(p) ==
  /\ row.status \in {"sedimentation", "published"}
  /\ log # <<>>
  /\ Begin(p, "review", "commit", "none")
  /\ UNCHANGED <<log, made, db, fails, dropped>>

DeleteBegin(p) ==
  /\ row.status = "draft"
  /\ Begin(p, "delete", "lock", "deleted")
  /\ UNCHANGED <<log, made, db, fails, dropped>>

Elapsed(r) == r.status = "sedimentation" /\ r.timed /\ r.due

Verdict(r) ==
  IF Cardinality(r.approvals) >= MinApprovals THEN "published"
  ELSE IF r.charged < MaxCharges THEN "extend" ELSE "rejected"

(* The scan never stops for want of commits: verdicts are not bounded.      *)
ScanBegin(p) ==
  /\ Elapsed(row)
  /\ Enter(p, [Idle EXCEPT !.cmd = "scan", !.seen = row.status, !.charged = row.charged,
                           !.verdict = Verdict(row),
                           !.pc = IF Verdict(row) = "extend" THEN "store" ELSE "marker"])
  /\ UNCHANGED <<log, made, db, fails, dropped>>

-----------------------------------------------------------------------------
(* The steps that follow.                                                   *)

(* The file is committed.  A review of the pool goes to a directory with an *)
(* anonymous name.  Without a repository the command raises (see Fail).     *)
FileKind(w) ==
  CASE w.cmd = "publish" -> "self"
    [] w.cmd = "review" -> IF w.seen = "published" THEN "named" ELSE "anonymous"
    [] OTHER -> "content"

AfterFile(w) ==
  CASE w.cmd = "publish" -> "marker"
    [] w.cmd = "review" -> "store"
    [] OTHER -> "lock"

CommitFile(p) ==
  /\ log # <<>>
  /\ work[p].pc = "commit"
  /\ work' = [work EXCEPT ![p].pc = AfterFile(work[p]), ![p].commit = made]
  /\ Commit(FileKind(work[p]))
  /\ UNCHANGED <<db, fails, clean, dropped>>

(* An edit goes by the status it read before the commit, a rollback by the  *)
(* present one.                                                            *)
Resets(w) ==
  \/ w.cmd = "edit" /\ w.seen \in {"sedimentation", "published"}
  \/ w.cmd = "rollback" /\ row.status = "published"

Reset(w) ==
  [row EXCEPT !.status = "sedimentation", !.timed = TRUE, !.due = FALSE,
     !.charged = IF w.cmd = "edit" /\ @ < MaxCharges THEN @ + 1 ELSE @]

(* The first write of the transaction.                                     *)
Lock(p) ==
  LET w == work[p] IN
  /\ writer = Nobody
  /\ Exists
  /\ Goto(p, "lock", CASE w.cmd = "delete" -> "remove"
                       [] Resets(w) -> "marker"
                       [] OTHER -> "store")
  /\ writer' = p
  /\ pending' = CASE w.cmd = "delete" -> [NoRow EXCEPT !.status = "deleted"]
                  [] Resets(w) -> Reset(w)
                  [] OTHER -> row
  /\ UNCHANGED <<log, made, row, fails, clean, dropped>>

CommitMarker(p) ==
  /\ log # <<>> \/ work[p].cmd = "scan"
  /\ Goto(p, "marker", "store")
  /\ CommitIfThere(work[p].verdict)
  /\ UNCHANGED <<db, fails, clean, dropped>>

RemoveRepo(p) ==
  /\ Goto(p, "remove", "store")
  /\ log' = <<>>
  /\ UNCHANGED <<made, db, fails, clean, dropped>>

(* Mutant: an extension is not charged.                                    *)
NewRowUncharged(p) ==
  LET w == work[p] IN
  CASE writer = p -> pending
    [] w.cmd = "create" -> [row EXCEPT !.status = "draft"]
    [] w.cmd = "publish" -> [row EXCEPT !.status = "sedimentation", !.timed = TRUE, !.due = FALSE]
    [] w.cmd = "review" -> [row EXCEPT !.approvals = @ \cup {w.commit}]
    [] w.verdict = "extend" -> [row EXCEPT !.due = FALSE]
    [] OTHER -> [row EXCEPT !.status = w.verdict]

(* Mutant: a scan that extends writes its verdict like the others.          *)
NewRowVerdict(p) ==
  LET w == work[p] IN
  CASE writer = p -> pending
    [] w.cmd = "create" -> [row EXCEPT !.status = "draft"]
    [] w.cmd = "publish" -> [row EXCEPT !.status = "sedimentation", !.timed = TRUE, !.due = FALSE]
    [] w.cmd = "review" -> [row EXCEPT !.approvals = @ \cup {w.commit}]
    [] OTHER -> [row EXCEPT !.status = w.verdict]

(* What the transaction leaves behind.  Those that took the lock before     *)
(* their last commit have prepared it; the others write columns over        *)
(* whatever the row has become.  An extension writes the days it computed   *)
(* from what it read at first.                                              *)
NewRow(p) ==
  LET w == work[p] IN
  CASE writer = p -> pending
    [] w.cmd = "create" -> [row EXCEPT !.status = "draft"]
    [] w.cmd = "publish" -> [row EXCEPT !.status = "sedimentation", !.timed = TRUE, !.due = FALSE]
    [] w.cmd = "review" -> [row EXCEPT !.approvals = @ \cup {w.commit}]
    [] w.verdict = "extend" -> [row EXCEPT !.charged = w.charged + 1, !.due = FALSE]
    [] OTHER -> [row EXCEPT !.status = w.verdict]

(* Mutant: the database is written before the marker is committed.          *)
StoreEarly(p) ==
  /\ work[p].pc \in {"store", "marker"}
  /\ writer \in {Nobody, p}
  /\ work[p].cmd = "create" \/ Exists
  /\ row' = NewRow(p)
  /\ writer' = Nobody
  /\ pending' = NoRow
  /\ work' = [work EXCEPT ![p] = Idle]
  /\ UNCHANGED <<log, made, fails, clean, dropped>>

Store(p) ==
  /\ work[p].pc = "store"
  /\ writer \in {Nobody, p}
  /\ work[p].cmd = "create" \/ Exists
  /\ row' = NewRow(p)
  /\ writer' = Nobody
  /\ pending' = NoRow
  /\ work' = [work EXCEPT ![p] = Idle]
  /\ UNCHANGED <<log, made, fails, clean, dropped>>

-----------------------------------------------------------------------------
(* A pull, and what a server does with commits pushed to it.                *)
PullMerge(p, kind) ==
  /\ Exists
  /\ log # <<>>
  /\ Begin(p, "pull", "reconcile", "none")
  /\ Commit(kind)
  /\ UNCHANGED <<db, fails, dropped>>

(* Mutant: reviews are mirrored, the status is not.                        *)
RepairedReviews(r) ==
  [r EXCEPT !.approvals = IF Has({"named"}) THEN @ \cup {Last(log).id} ELSE @]

(* Every review directory becomes a row with HEAD as its commit: each pull  *)
(* adds one.  The status follows the marker, but no timer is started.       *)
Repaired(r) ==
  [r EXCEPT !.status = IF StatusInGit = "none" THEN @ ELSE StatusInGit,
            !.approvals = IF Has({"named"}) THEN @ \cup {Last(log).id} ELSE @]

(* The name of an anonymous directory is no account, and the foreign key    *)
(* fails.                                                                  *)
Reconcile(p) ==
  /\ writer = Nobody
  /\ Exists
  /\ ~Has({"anonymous"})
  /\ Goto(p, "reconcile", "scan")
  /\ writer' = p
  /\ pending' = Repaired(row)
  /\ clean' = IF \E q \in Others(p) : Busy(q) THEN FALSE
              ELSE clean \/ StatusInGit # "none"
  /\ UNCHANGED <<log, made, row, fails, dropped>>

(* A commit without a valid signature, or the foreign key: the repository   *)
(* is reset to the HEAD before the merge.                                  *)
Undo(p) ==
  /\ work[p].pc = "reconcile"
  /\ Has({"anonymous"}) \/ fails < MaxFails
  /\ fails' = IF Has({"anonymous"}) THEN fails ELSE fails + 1
  /\ log # <<>>
  /\ log' = work[p].base
  /\ dropped' = (dropped \/ work[p].met)
  /\ clean' = (clean /\ \A q \in Others(p) : ~Busy(q))
  /\ work' = [work EXCEPT ![p] = Idle]
  /\ UNCHANGED <<made, db>>

(* The scan that ends a pull is part of its transaction.                    *)
PullScan(p) ==
  /\ Goto(p, "scan", "store")
  /\ \/ /\ Elapsed(pending)
        /\ IF Verdict(pending) = "extend"
             THEN /\ pending' = [pending EXCEPT !.charged = @ + 1, !.due = FALSE]
                  /\ UNCHANGED <<log, made>>
             ELSE /\ CommitIfThere(Verdict(pending))
                  /\ pending' = [pending EXCEPT !.status = Verdict(pending)]
     \/ /\ ~Elapsed(pending)
        /\ UNCHANGED <<log, made, pending>>
  /\ UNCHANGED <<row, writer, fails, clean, dropped>>

-----------------------------------------------------------------------------
(* Mutant: the failed transaction is never rolled back.                     *)
AbandonLocked(p) ==
  /\ work' = [work EXCEPT ![p] = Idle]
  /\ clean' = FALSE
  /\ UNCHANGED <<writer, pending>>

(* The process dies, an exception is raised, or the database stays locked   *)
(* for too long.                                                           *)
Abandon(p) ==
  /\ work' = [work EXCEPT ![p] = Idle]
  /\ writer' = IF writer = p THEN Nobody ELSE writer
  /\ pending' = IF writer = p THEN NoRow ELSE pending
  /\ clean' = FALSE

Fail(p) ==
  /\ Busy(p)
  /\ fails < MaxFails
  /\ fails' = fails + 1
  /\ Abandon(p)
  /\ UNCHANGED <<log, made, row, dropped>>

(* The repository or the row has vanished under the command.               *)
Gone(p) ==
  /\ \/ log = <<>> /\ work[p].cmd # "scan" /\ work[p].pc \in {"commit", "marker", "reconcile"}
     \/ ~Exists /\ work[p].cmd # "create" /\ work[p].pc \in {"lock", "store", "reconcile"}
                /\ writer # p
  /\ Abandon(p)
  /\ UNCHANGED <<log, made, row, fails, dropped>>

(* The timer of the pool elapses.  Days that pass while a transaction is    *)
(* open count after it.                                                    *)
Tick ==
  /\ row.status = "sedimentation" /\ row.timed /\ ~row.due
  /\ writer = Nobody
  /\ row' = [row EXCEPT !.due = TRUE]
  /\ UNCHANGED <<log, made, writer, pending, work, fails, clean, dropped>>

Start(p) ==
  \/ Create(p)
  \/ PublishBegin(p)
  \/ EditBegin(p)
  \/ RollbackBegin(p)
  \/ ReviewBegin(p)
  \/ DeleteBegin(p)
  \/ \E kind \in Incoming : PullMerge(p, kind)

Continue(p) ==
  \/ CommitFile(p)
  \/ Lock(p)
  \/ CommitMarker(p)
  \/ RemoveRepo(p)
  \/ Store(p)
  \/ Reconcile(p)
  \/ Undo(p)
  \/ PullScan(p)
  \/ Gone(p)

Next ==
  \/ \E p \in Procs : Start(p) \/ ScanBegin(p) \/ Continue(p) \/ Fail(p)
  \/ Tick

(* A process that runs goes on; days pass; some process keeps scanning.     *)
Fairness ==
  /\ \A p \in Procs : WF_vars(Continue(p))
  /\ WF_vars(Tick)
  /\ WF_vars(\E p \in Procs : ScanBegin(p))

Spec == Init /\ [][Next]_vars /\ Fairness

-----------------------------------------------------------------------------
TypeOK ==
  /\ log \in Seq(Commits)
  /\ made \in Nat /\ fails \in Nat
  /\ row \in Row /\ pending \in Row
  /\ writer \in Procs \cup {Nobody}
  /\ work \in [Procs -> Work]
  /\ clean \in BOOLEAN /\ dropped \in BOOLEAN

(* Git is the source of truth, whatever fails and whoever interleaves: a    *)
(* status in the database was committed as a marker before, and an approval *)
(* that counts has its commit in the repository.  Only undoing a failed pull *)
(* breaks it: the reset throws away what others appended, and commits that   *)
(* others already have read into the database.                              *)
GitFirst ==
  ~dropped /\ log # <<>> =>
    /\ row.status \in Markers => Has({row.status})
    /\ row.approvals \subseteq {log[i].id : i \in DOMAIN log}

(* The two stores agree between commands, as long as no command failed      *)
(* halfway or overlapped with another one since a pull last repaired the    *)
(* row: the status is the latest marker however far back it lies, and the   *)
(* row is there exactly when the repository is.                             *)
CleanAgrees ==
  clean /\ (\A p \in Procs : ~Busy(p)) =>
    /\ Exists <=> log # <<>>
    /\ Exists => row.status = (IF Marker(log) = "none" THEN "draft" ELSE Marker(log))

(* The article is in the pool with a timer.                                *)
Timed == row.status = "sedimentation" /\ row.timed

(* No command waits for another one forever, whoever crashes with the lock  *)
(* of the database.                                                        *)
CommandsEnd == \A p \in Procs : Busy(p) ~> ~Busy(p)

(* Whatever fails, an article whose timer runs gets its verdict.           *)
TimedPoolDrains == Timed ~> ~Timed
=============================================================================
