------------------------------ MODULE BundleSync ------------------------------
(***************************************************************************)
(* One article on several devices and a server.  A device reads its HEAD,  *)
(* asks for the server's, looks for a commit that both have, and pulls,     *)
(* pushes or merges and pushes.  Every request is a step of its own, and    *)
(* both sides may commit in between.  The search is one step here and       *)
(* detailed in AncestorSearch.  Its probe asks whether the server has a      *)
(* commit, and takes the status of the answer for the answer: 200 whether   *)
(* it has or not.                                                          *)
(***************************************************************************)
EXTENDS Integers, FiniteSets, Sequences

CONSTANTS
  Devices,     \* repositories that synchronise
  Server,      \* the repository they synchronise with
  MaxCommits,  \* bound of the model: no edits or markers beyond so many commits
  MaxFails     \* bound of the model: failed requests and crashes

(* Assumed of the constants where the module is instantiated.               *)
SyncParams ==
  /\ IsFiniteSet(Devices) /\ Server \notin Devices
  /\ {MaxCommits, MaxFails} \subseteq Nat

VARIABLES
  past,     \* past[c]: commit c and its ancestors; commits are numbered
  head,     \* [Repos -> commit]; None without a repository
  row,      \* [Repos -> commit]: the HEAD that the committed row mirrors; None without a row
  session,  \* [Devices -> commit]: what the open transaction will make of the row, or None
  job,      \* [Devices -> Job]: the sync under way
  answer,   \* [Devices -> STRING]: how the last sync ended
  fails,    \* failures so far
  clashed,  \* a merge has met a conflict
  behind    \* repositories whose row a failure has left behind

vars == <<past, head, row, session, job, answer, fails, clashed, behind>>

Repos == Devices \cup {Server}
None == 0
Commits == 1..Len(past)

JobAt(pc, local, remote, base) ==
  [pc |-> pc, local |-> local, remote |-> remote, base |-> base]
Idle == JobAt("idle", None, None, None)

-----------------------------------------------------------------------------
(* Git.                                                                     *)
History(c) == IF c = None THEN {} ELSE past[c]

IsAncestor(c, r) == c \in History(head[r])

(* Mutant: the bundle holds what the receiver has and not what it lacks.    *)
BundleReversed(since, r) ==
  IF since \in History(head[r]) THEN History(since) \ History(head[r]) ELSE {}

(* since..HEAD; git refuses to make an empty bundle, and one from a commit  *)
(* it does not have.                                                       *)
Bundle(since, r) ==
  IF since \in History(head[r]) THEN History(head[r]) \ History(since) ELSE {}

(* Mutant: a repository takes whatever it is sent.                          *)
FastForwardsAlways(h, onto) == h # None /\ onto # None

FastForwards(h, onto) == h \in History(onto)

(* HEAD after merging FETCH_HEAD onto: nothing new, a fast forward, or a    *)
(* commit of its own.                                                      *)
UpToDate(h, onto) == onto \in History(h)

Diverged(h, onto) == ~FastForwards(h, onto) /\ ~UpToDate(h, onto)

Recorded(c, parents) == past' = Append(past, {c} \cup UNION {History(p) : p \in parents})
NextCommit == Len(past) + 1

-----------------------------------------------------------------------------
Init ==
  /\ past = <<{1}>>
  /\ \E r \in Repos :     \* where the article was created
       /\ head = [s \in Repos |-> IF s = r THEN 1 ELSE None]
       /\ row = [s \in Repos |-> IF s = r THEN 1 ELSE None]
  /\ session = [d \in Devices |-> None]
  /\ job = [d \in Devices |-> Idle]
  /\ answer = [d \in Devices |-> "none"]
  /\ fails = 0
  /\ clashed = FALSE
  /\ behind = {}

(* A command commits and updates its row, whatever sync is under way.      *)
Edit(r) ==
  /\ row[r] # None
  /\ head[r] # None
  /\ NextCommit <= MaxCommits
  /\ Recorded(NextCommit, {head[r]})
  /\ head' = [head EXCEPT ![r] = NextCommit]
  /\ row' = [row EXCEPT ![r] = IF row[r] = head[r] THEN NextCommit ELSE @]
  /\ session' = [d \in Devices |-> IF d = r /\ session[d] = head[d] THEN NextCommit ELSE session[d]]
  /\ UNCHANGED <<job, answer, fails, clashed, behind>>

End(d, how) ==
  /\ job' = [job EXCEPT ![d] = Idle]
  /\ answer' = [answer EXCEPT ![d] = how]

Goto(d, pc) == job' = [job EXCEPT ![d].pc = pc] /\ UNCHANGED answer

-----------------------------------------------------------------------------
(* A whole repository is packed, sent and unpacked where there is none.     *)
Unpacked(r, from) == head[r] = None /\ head' = [head EXCEPT ![r] = head[from]]

(* The device.  sync_article reads HEAD and asks for the server's.         *)
Start(d) ==
  /\ job[d].pc = "idle"
  /\ head[d] # None
  /\ job' = [job EXCEPT ![d] = JobAt("fetch", head[d], None, None)]
  /\ UNCHANGED <<past, head, row, session, answer, fails, clashed, behind>>

FetchHead(d) ==
  LET remote == head[Server]
      local == job[d].local
  IN
  /\ job[d].pc = "fetch"
  /\ job' = [job EXCEPT ![d] = JobAt(CASE remote = None -> "upload"
                                       [] remote = local -> "commit"
                                       [] OTHER -> "search",
                                     local, remote, None)]
  /\ UNCHANGED <<past, head, row, session, answer, fails, clashed, behind>>

(* The server takes the repository and makes no row.                       *)
Upload(d) ==
  /\ job[d].pc = "upload"
  /\ \/ /\ Unpacked(Server, d)
        /\ Goto(d, "commit")
     \/ /\ head[Server] # None
        /\ End(d, "exists")
        /\ UNCHANGED head
  /\ UNCHANGED <<past, row, session, fails, clashed, behind>>

(* The HEAD that counts is the one read at the start.                      *)
Based(d, base) ==
  LET j == job[d] IN
  job' = [job EXCEPT ![d] = JobAt(CASE base = j.local -> "pull"
                                    [] base = j.remote -> "push"
                                    [] OTHER -> "merge",
                                  j.local, j.remote, base)]

(* The server's HEAD, when the device has it by now; otherwise the first     *)
(* probe is about the device's own HEAD, and its answer is yes.             *)
Search(d) ==
  /\ job[d].pc = "search"
  /\ Based(d, IF IsAncestor(job[d].remote, d) THEN job[d].remote ELSE head[d])
  /\ UNCHANGED <<past, head, row, session, answer, fails, clashed, behind>>

(* Mutant: the row is mirrored before the merge.                           *)
MirroredEarly(d, c) == session' = [session EXCEPT ![d] = head[d]]

(* The row follows in the open transaction.                                *)
Mirrored(d, c) == session' = [session EXCEPT ![d] = c]

HasRow(d) == row[d] # None \/ session[d] # None

(* pull_incremental: the server's commits since the base are merged.  The   *)
(* commit of the transaction comes at the end of the sync.                 *)
Pull(d) ==
  LET j == job[d]
      theirs == head[Server]
  IN
  /\ j.pc \in {"pull", "merge"}
  /\ Bundle(j.base, Server) # {}
  /\ HasRow(d)
  /\ \/ /\ UpToDate(head[d], theirs)
        /\ Mirrored(d, head[d])
        /\ UNCHANGED <<past, head>>
     \/ /\ ~UpToDate(head[d], theirs)
        /\ FastForwards(head[d], theirs)
        /\ head' = [head EXCEPT ![d] = theirs]
        /\ Mirrored(d, theirs)
        /\ UNCHANGED past
     \/ /\ j.pc = "merge"
        /\ Diverged(head[d], theirs)
        /\ Recorded(NextCommit, {head[d], theirs})
        /\ head' = [head EXCEPT ![d] = NextCommit]
        /\ Mirrored(d, NextCommit)
  /\ Goto(d, IF j.pc = "pull" THEN "commit" ELSE "push")
  /\ UNCHANGED <<row, fails, clashed, behind>>

(* Nothing to fetch, no row, a fast forward that is none, or a conflict:    *)
(* the device is as it was.                                                *)
PullFails(d) ==
  LET j == job[d] IN
  /\ j.pc \in {"pull", "merge"}
  /\ \/ Bundle(j.base, Server) = {} /\ UNCHANGED clashed
     \/ ~HasRow(d) /\ UNCHANGED clashed
     \/ j.pc = "pull" /\ Diverged(head[d], head[Server]) /\ UNCHANGED clashed
     \/ j.pc = "merge" /\ Diverged(head[d], head[Server]) /\ clashed' = TRUE
  /\ End(d, "error")
  /\ UNCHANGED <<past, head, row, session, fails, behind>>

(* push_incremental and apply_sync: the server fast-forwards and mirrors.  *)
Accepts(d) ==
  /\ Bundle(job[d].remote, d) # {}
  /\ FastForwards(head[Server], head[d]) \/ UpToDate(head[Server], head[d])

Push(d) ==
  LET h == IF UpToDate(head[Server], head[d]) THEN head[Server] ELSE head[d] IN
  /\ job[d].pc = "push"
  /\ Accepts(d)
  /\ row[Server] # None
  /\ head' = [head EXCEPT ![Server] = h]
  /\ row' = [row EXCEPT ![Server] = h]
  /\ behind' = behind \ {Server}
  /\ Goto(d, "commit")
  /\ UNCHANGED <<past, session, fails, clashed>>

(* An answer of the server that ends the sync; nothing is committed.       *)
Refused(d) ==
  /\ job[d].pc = "push"
  /\ \/ Bundle(job[d].remote, d) = {} /\ End(d, "error")
     \/ Bundle(job[d].remote, d) # {} /\ ~Accepts(d) /\ End(d, "conflict")
     \/ Accepts(d) /\ row[Server] = None /\ End(d, "not_found")
  /\ behind' = IF session[d] = None THEN behind ELSE behind \cup {d}
  /\ UNCHANGED <<past, head, row, session, fails, clashed>>

(* The transaction is committed when the sync has succeeded, and with it    *)
(* what an earlier sync of the process has left in it.                     *)
Synced(d) ==
  /\ job[d].pc = "commit"
  /\ row' = [row EXCEPT ![d] = IF session[d] = None THEN @ ELSE session[d]]
  /\ session' = [session EXCEPT ![d] = None]
  /\ behind' = IF session[d] = head[d] THEN behind \ {d} ELSE behind
  /\ End(d, "synced")
  /\ UNCHANGED <<past, head, fails, clashed>>

(* sync pull: an article that the server lists and the device has no row    *)
(* of.  The repository is unpacked, the row waits for the commit that the   *)
(* sync of the article ends with.                                          *)
PullNew(d) ==
  /\ job[d].pc = "idle"
  /\ ~HasRow(d)
  /\ row[Server] # None
  /\ \/ /\ Unpacked(d, Server)
        /\ session' = [session EXCEPT ![d] = row[Server]]
        /\ behind' = IF row[Server] = head[Server] THEN behind ELSE behind \cup {d}
        /\ job' = [job EXCEPT ![d] = JobAt("fetch", head[Server], None, None)]
        /\ UNCHANGED answer
     \/ /\ head[d] # None     \* left by a crash: ARTICLE_ALREADY_EXISTS
        /\ answer[d] # "exists"
        /\ answer' = [answer EXCEPT ![d] = "exists"]
        /\ UNCHANGED <<head, session, behind, job>>
  /\ UNCHANGED <<past, row, fails, clashed>>

-----------------------------------------------------------------------------
(* A request fails.  The error is swallowed: what the transaction holds is  *)
(* neither committed nor rolled back.                                      *)
RequestFails(d) ==
  /\ job[d].pc \notin {"idle", "commit"}
  /\ fails < MaxFails
  /\ fails' = fails + 1
  /\ End(d, "error")
  /\ behind' = IF session[d] = None THEN behind ELSE behind \cup {d}
  /\ UNCHANGED <<past, head, row, session, clashed>>

(* Probes that the limiter or an error of the server answers are taken for  *)
(* a no, and the search goes on to an older commit.                        *)
ProbesRefused(d) ==
  /\ job[d].pc = "search"
  /\ ~IsAncestor(job[d].remote, d)
  /\ fails < MaxFails
  /\ fails' = fails + 1
  /\ \E base \in History(head[d]) \ {head[d]} : Based(d, base)
  /\ UNCHANGED <<past, head, row, session, answer, clashed, behind>>

(* The server has taken the push, and the answer is lost.                  *)
AnswerLost(d) ==
  /\ job[d].pc = "push"
  /\ Accepts(d)
  /\ row[Server] # None
  /\ fails < MaxFails
  /\ fails' = fails + 1
  /\ LET h == IF UpToDate(head[Server], head[d]) THEN head[Server] ELSE head[d] IN
       /\ head' = [head EXCEPT ![Server] = h]
       /\ \/ row' = [row EXCEPT ![Server] = h] /\ behind' = (behind \ {Server}) \cup {d}
          \/ row' = row /\ behind' = behind \cup {d, Server}   \* it died before its commit
  /\ End(d, "error")
  /\ UNCHANGED <<past, session, clashed>>

(* The process of the device dies and takes its transaction along.         *)
Crash(d) ==
  /\ job[d].pc # "idle" \/ session[d] # None
  /\ fails < MaxFails
  /\ fails' = fails + 1
  /\ session' = [session EXCEPT ![d] = None]
  /\ behind' = IF session[d] = None THEN behind ELSE behind \cup {d}
  /\ End(d, "none")
  /\ UNCHANGED <<past, head, row, clashed>>

Continue(d) ==
  \/ FetchHead(d)
  \/ Upload(d)
  \/ Search(d)
  \/ Pull(d)
  \/ PullFails(d)
  \/ Push(d)
  \/ Refused(d)
  \/ Synced(d)

Next ==
  \/ \E r \in Repos : Edit(r)
  \/ \E d \in Devices : Start(d) \/ PullNew(d) \/ Continue(d)
                        \/ RequestFails(d) \/ ProbesRefused(d) \/ AnswerLost(d)
                        \/ Crash(d)

(* A device that synchronises goes on, and its owner asks for it again.    *)
Fairness == \A d \in Devices : WF_vars(Start(d)) /\ WF_vars(Continue(d))

Spec == Init /\ [][Next]_vars /\ Fairness

-----------------------------------------------------------------------------
TypeOK ==
  /\ \A c \in Commits : past[c] \subseteq Commits /\ c \in past[c]
  /\ head \in [Repos -> Commits \cup {None}]
  /\ row \in [Repos -> Commits \cup {None}]
  /\ session \in [Devices -> Commits \cup {None}]
  /\ job \in [Devices -> [pc : {"idle", "fetch", "upload", "search", "pull", "merge", "push", "commit"},
                          local : Nat, remote : Nat, base : Nat]]
  /\ answer \in [Devices -> {"none", "exists", "error", "conflict", "not_found", "synced"}]
  /\ fails \in 0..MaxFails
  /\ clashed \in BOOLEAN
  /\ behind \subseteq Repos

(* No sync takes away a commit: a repository that has it keeps it, whoever  *)
(* pushes in between and whatever is lost (merge_fetch_head with --ff-only *)
(* on the server).                                                        *)
NothingLost == [][\A r \in Repos : History(head[r]) \subseteq History(head[r])']_vars

(* A row lags behind its repository only while a sync is under way, and     *)
(* after a failure that came between a merge and its commit.               *)
RowsFollow ==
  \A r \in Repos \ behind :
    \/ row[r] = head[r]
    \/ r \in Devices /\ session[r] = head[r] /\ job[r].pc # "idle"
    \/ r = Server /\ row[r] = None      \* uploaded

(* A device agrees with the server when it has the article at all.         *)
Agrees(d) == head[d] \in {None, head[Server]}

(* What a sync cannot mend: both sides have commits that the other lacks, or *)
(* one of them has a repository and no row, and so takes no commits.        *)
Stuck(d) ==
  \/ Diverged(head[d], head[Server])
  \/ head[d] # None /\ row[d] = None
  \/ head[Server] # None /\ row[Server] = None

(* A device that keeps synchronising ends up with the history of the server, *)
(* whatever was committed, merged and lost meanwhile and whatever becomes   *)
(* of the others, unless it is stuck for good (sync_article).               *)
Converges == \A d \in Devices : <>[]Agrees(d) \/ <>[]Stuck(d)

(* "Find the most recent common ancestor with a remote peer": the commit    *)
(* that a pull starts from is one that the server has.                     *)
BaseIsCommon ==
  \A d \in Devices :
    job[d].pc \in {"pull", "merge"} => IsAncestor(job[d].base, Server)

(* "Incremental push works after first sync": a push that extends what the *)
(* server has is not refused for want of the article.                      *)
IncrementalPushWorks == \A d \in Devices : answer[d] # "not_found"
=============================================================================
