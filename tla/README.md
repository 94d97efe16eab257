# PeerPedia core: a verification project

PeerPedia is a local-first platform for peer-reviewed articles. On every device
an article is a git repository plus a row in a SQLite database; commands of the
CLI, the REPL and a small HTTP server act on both, a scan publishes or rejects
what is in the sedimentation pool, and devices exchange git bundles and social
data. The modules in this directory model those parts in TLA+, check them with
TLC on small instances, and prove what matters most with TLAPS. All paths below
are relative to `src/peerpedia_core/`.

## The system

| Part | State it keeps | Operations | What makes it correct |
| --- | --- | --- | --- |
| Article lifecycle (`core/articles/*`, `storage/db/crud_article.py`) | `articles` row: status, `sink_start`, durations, score, consents; the repository's commits | create, publish, edit, rollback, fork, delete | no publication without review; changes are reviewed; database and git agree |
| Sedimentation scan (`core/articles/sink.py`) | the same rows | publish, extend, reject | every article leaves the pool; budgets of days hold |
| Merge proposals (`core/merge.py`) | `merge_proposals` | propose, withdraw, accept | a merge credits everyone and re-opens review |
| Maintainers, consents (`core/maintainers.py`) | `script_maintainers`, `publish_consents` | add, remove, consent, revoke | no article without maintainer |
| Reviews, invitations (`core/reviews/*`) | `reviews` rows, review files in git | invite, accept, decline, submit, reply, rate | one invitation at a time; rows belong to reviews; anonymity in the pool |
| Scores, reputation (`compute/*`, `core/reconcile/score.py`) | `score`, `reputation` columns | recompute | numbers stay within what reviews gave |
| Reconciliation (`core/reconcile/*`) | none of its own | repair row, authors, reviews from git | git is the source of truth |
| Git storage (`storage/git/*`) | repositories | commit, marker, merge, bundle, archive | histories only grow |
| Article locks (`storage/locks.py`) | table of locks | get, evict | one writer per article |
| Ancestor search (`storage/git/ancestor.py`, `compute/monotonic.py`) | locals of one search | probe, gallop, bisect | the boundary between the answers yes and no |
| Bundle sync (`core/sync_article.py`, `app/commands/sync.py`, `bundle.py`) | both repositories, both rows | push, pull, three-way, upload, download | nothing is lost; rows follow; sides converge where the search lets them |
| Social sync (`core/sync_social.py`, `storage/db/ingest.py`, `crawler.py`) | users, follows, article stubs | follow, school, walk, home-server sync | nothing is invented; a walk is complete |
| Peers, reachability (`storage/peers.py`, `transport/http/health.py`) | two files shared by processes, memory | register, back off, probe | failing peers are left alone; answers are recent |
| Library (`crud_article.py`, bookmarks, shares, notifications) | rows that refer to articles | fork, count, bookmark, share, notify, delete | counts are true; nothing dangles |
| Accounts (`app/commands/account.py`, `app/refs.py`) | `users`, aliases, the session file | register, log in, recover, delete | a session has an account; names are unambiguous |
| Server, transport (`server/*`, `transport/http/*`) | sessions of requests, buckets of the limiter | every route | what was answered is stored; absence is not confused with failure |
| Command pipeline (`app/commandspec`, `cli/*`, `repl/engine.py`) | a session per process | invoke, flush, commit, report | reports are true |
| REPL screens (`repl/pages/*`) | stack of pages | keys | what is marked is what opens |
| Compiler, layout, argument parsing | none | | outside the core logic |

How they interact: a command of `app/commands` calls functions of `core`, which
check `rules` and guards, write to git first and to the database second, and
flush; the command then commits the transaction. An exception rolls the database
back and leaves git as it is. All processes of a device share one database and
the repositories; the locks serve the threads of one process. A sync talks to a
peer through `transport`, merges in git and then reconciles rows from it.

What is hard: sequences of commands that each look right (several ways to
change a published article, people who change roles after their review); two
stores without a common transaction; several processes; caches and files that
processes rewrite over each other; a lock table that forgets; a search that
reads HEAD repeatedly while others commit; answers that are lost after the
server has acted. `PROJECT.json` lists each of these under `hazards` with the
line where it bites and the property that watches it.

## Modules

`Sedimentation` is the core: articles, pool, scan, forks, merges, maintainers and
reviews on one device, each command in one step.

| Variable or action | Code |
| --- | --- |
| `row` | the line of `articles`: `status`, whole days since `sink_start` (`age`), `sink_duration_days` (`days`), `total_sink_days_accumulated` (`accumulated`), a score below the threshold (`folded`), `forked_from` |
| `repo` | what the repository says: the latest `[status]` commit (`marker`), number of content changes (`edits`), how many of a fork's edits its origin merged (`merged`), authors of content commits (`committers`) |
| `reviews`, `authors`, `maintainers`, `consents`, `proposals` | the tables of these names; a review remembers the content it was about (`edits`), which the code does not |
| `noticed` | drafts that a notification refers to by a foreign key, which keeps them from being deleted |
| `Create` ... `SubmitReview` | one command each, with every guard, the marker commit, the crediting of authors and the reset of consents |
| `ScanPublish`, `ScanExtend`, `ScanReject` | the branches of `_resolve_sink`; articles do not influence each other in a scan, so one step treats one article |
| `Tick` | a day passes |

`PeerReview` is the abstract promise: an article has a stage and a number of
approvals; it is accepted from the pool only with enough of them, rejected only
for want of them, and keeps them while it is published. `Sedimentation` implements
it under the mapping `stage <- row[a].status`, `approvals <- number of approving
rows` (`KeepsPromise`). `SedimentationClaims` states what comments and documents
say of the pool and the code does not keep.

`ArticleStore` takes the other side of the same commands: one article, its two
stores, several processes. A command is the sequence of its writes, `Begin`
(reads and checks), `CommitFile`, `Lock` (the first write of the transaction),
`CommitMarker` or `RemoveRepo`, `Store`; `Fail` can come between any two, and so can
steps of other processes. `log` is the list of commits, `row` what is committed,
`pending` what the transaction that holds the lock of the database (`writer`) will
commit. A pull merges (`PullMerge`), mirrors the repository into the row
(`Reconcile`), scans (`PullScan`) or is undone (`Undo`, `rollback_to`).
Commands that write over a row which another process has changed do so here too.

`Reviews` has the reviews table in its order and the thread files of one article.
A submission is two steps, the commit and the row, and verdicts may fall between.

`ArticleLocks` models `get_article_lock`, the eviction and the one user of the
locks, `_write_thread_message`: look up, acquire or give up after ten seconds,
count the files, write, release. Eviction looks at `locked()` without holding the
locks; since it runs under the guard of the table, a lock acquired during it is as
good as acquired after.

`AncestorSearch` models `find_common_ancestor` and `search_monotonic_boundary` as
one loop whose probes are interleaved with commits of another local process
(`LocalCommit`). Commits are numbered from the oldest; a distance is turned into a
commit from HEAD as it is at that moment (`LookUp`, `Report`), as `_hash_at` does. What
a probe answers is left open (`Yes`, `No`, `Fail`), in any order and not always the
same: the repository's one probe (`transport/http/articles.py:31`) takes the status
200 for a yes, and the server sends it with `{"ancestor": false}` too, while a 429 or
a 500 is a no. So the search is asked for what it can promise, a boundary between
the answers (`FoundWasGranted`, `FoundIsABoundary`), which is the most recent common
commit of a linear history if the answers are true.

`BundleSync` has several devices and a server with one article. `past[c]` is a
commit with its ancestors, `head` and `row` a HEAD and the HEAD that the committed
row mirrors, `session` what the open transaction of a device holds, `job` the sync
under way, with the HEADs it read. Each request is a step, and so is the whole search
with the probe it has: the server's HEAD if the device has it (`find_common_ancestor`'s
fast path), otherwise the device's own HEAD, about which the first probe is answered
200 (`Search`); an older commit only when probes before it were refused by the
limiter or by an error of the server (`ProbesRefused`). `RequestFails`, `AnswerLost` and
`Crash` are the other faults; errors are swallowed as in `sync_one`, which leaves the
transaction neither committed nor rolled back.

`Discovery` has the users, follows (live and soft-deleted) and article stubs of a
device and the follow graph of a server that changes meanwhile. `WalkFrom`,
`Visit`, `Commit` and `Abort` are `sync discover`, one transaction. `DiscoverFollowing`
and `DiscoverFollowers` are functions of `core/sync_social.py` that no command calls
yet: from the home server they also remove what it does not name.

`Peers` has the file of peers, which a write truncates first, the failures in the
memory of each process and the list of peers still to visit; `own` records what a
process has met itself, apart from the memory the code goes by. `HealthCache` has the
two caches of health probes, in memory and in a file that processes replace from
what they read earlier; it also records when a server was last up and last down.

`Reputation` computes scores and reputations, which depend on each other, in
hundredths; where floating point decides how a tie is rounded, both neighbours
are possible. `Accounts` has rows, aliases and the session file of a device, with
registering in three steps (check, row, session), and keys that change when a
commit or a request is signed with another one (`Rotate`). `Library` has the rows that
refer to articles: forks with their count, maintainers, bookmarks, shares,
notifications; a fork is two steps.

`Requests` has the server's event loop: a request arrives, waits for its body, is
handled in one piece, its session is committed, its answer arrives or is lost, and
the client makes something of it (`Seen`). `RateLimit` is the limiter in front of
it: `asked` is the list of times of all requests of an address since a restart, and
its bucket, which the code keeps as a list of times, is the set of the places in
`asked` it stands for, so that two requests of one instant remain two. `Commands` runs commands of the three fronts (CLI in JSON, CLI with `--rich`,
REPL): find, invoke, flush, commit, render, synchronise, close. `refused` holds every
command whose front reported an error, before or after its commit. `Repl` is the
stack of pages with filter and focus. `Lists` has what `Repl` and `Peers` share: the
list comprehension with a condition (`[it for it in items if ...]`), as the items
at a set of places, in their order.

`Parts` puts the fourteen of these together that have a small state of their own
(all but `Sedimentation` and `ArticleStore`). They share no variable, so a
product of them would show nothing that each alone does not: the first state
chooses one part (`part`), which acts in that behaviour while the others stay
where they begin. Its properties are those of the modules under the same names;
an invariant is asked of the part that acts. `MCParts` gives its constants their
values. `MCSedimentation` and `MCArticleStore` are the instances of the other two;
`MCSedimentation` adds symmetry and a state constraint. Runs that expect a violation
are on the modules themselves.

The proofs stand in modules of their own: `Sedimentation_proofs`, `ArticleStore_proofs`,
and for the parts, which they reach through `Parts`, `ArticleLocks_proofs`,
`AncestorSearch_proofs` and four groups: `Owning_proofs` (what a device owns: `Accounts`,
`Library`, `Repl`, `Peers`), `Syncing_proofs` (what comes from others: `BundleSync`,
`Discovery`, `HealthCache`), `Reviewing_proofs` (`Reviews`, `Reputation`) and
`Serving_proofs` (what is answered: `Requests`, `RateLimit`, `Commands`, and the types
of all parts together).

## Checked

| Run | Shows | Bounds |
| --- | --- | --- |
| `pool` | `TypeOK`, `PublishedWasReviewed`, `TimerBounded`, `KeepsPromise`, `PoolDrains` | one article, two accounts, scores 0 and 4, pool 2 days, edit 1, extension 1, cap 2, two approvals, three reviews, one change |
| `forks` | `NoOrphan`, `CommittersAreAuthors`, `ProposalsAreForks`, `ChangeReopensReview` | an article and its fork, two accounts, one open proposal, timers that elapse at once, two reviews in all, one change of each article |
| `store` | `TypeOK`, `GitFirst`, `CleanAgrees`, `CommandsEnd`, `TimedPoolDrains` | two processes, four commits before no new command begins, a window of two commits, one approval, one charge, one crash or failure; a peer sends named reviews and publications |
| `parts` | the fourteen parts, see below | |
| `cap`, `content`, `distinct`, `fork_marker`, `upload`, `probe`, `session`, `locks_evict` | each a claim of a comment, test or document that the code breaks; `findings` in `PROJECT.json` quotes it | as `pool`, as `forks`, as the sync of `parts` without failures, two accounts in one process, and a table of one lock |

What `parts` shows of each part, besides its type:

| Part | Properties | Bounds |
| --- | --- | --- |
| `Reviews` | `OneInvitation`, `PoolIsAnonymous`, `RowsHaveReviews` | a maintainer and a reviewer, three messages, three changes of status |
| `BundleSync` | `NothingLost`, `RowsFollow`, `Converges` | two devices and a server, three commits, one failure |
| `Discovery` | `WalkIsComplete`, `NothingInvented` | three users, three possible follows, an article with two authors, depth 2, a school of one |
| `Peers` | `BacksOff` | two processes, of which one visits, a seed and another peer, backoff up to two failures |
| `HealthCache` | `AnswersAreRecent` | two processes, one server, entries that live two steps |
| `Reputation` | `NumbersAreEarned` | two users, an article of one of them, scores 1 and 5, three reviews |
| `Accounts` | `SessionHasAccount`, `NamesClashByRaces` | three ids, one name, two processes |
| `Library` | `CountsAreForks` | three articles, one account and one stranger, one reference |
| `Requests` | `OkIsDurable`, `AbsentIsAbsent` | two connections, two users of whom one asks, one article |
| `RateLimit` | `LimitIsExact` | one address, two requests in a window of two ticks, four ticks, three requests a tick |
| `Commands` | `ReportsAreTrue` | two processes, two commands out of four that differ in how they commit and fail |
| `Repl` | `OpensTheMarked` | two articles, two users, three characters of which one is the colon and stands in a title and a name, filters of two |
| `ArticleLocks` | `MutualExclusion`, `NoMessageLost` | two threads, two articles, a table of two locks, three messages each |
| `AncestorSearch` | `FoundWasGranted`, `FoundIsABoundary`, `NoProbeTwice`, `Terminates` | up to seven commits, factor 2, depth 6, one retry, any answers |

The bounds name what the code counts. In `pool`, three reviews are enough for a
self-review and for two approvals, by one person or by two, and one change is
enough to publish twice; with an edit of one day and an extension of one day
against a cap of two, the budget is used up in each order. `forks` leaves consents
to `pool` and does not continue from states with two originals, a second open
proposal or more reviews. `store` needs two processes for every interleaving of a
scan, a command and a pull, and four commits for a repository whose marker has left
the window of two. In `AncestorSearch` a factor of 2 with distances up to 5 makes the
gallop end on, before and beyond the deepest commit, and depth 6 is below the
greatest height. In `BundleSync` three commits are enough for both devices to
diverge from the server and, with a refused probe, to merge or to clash, and one
failure for each of the places where one can fall. Three users are the shortest chain of follows with a
shortcut, at depth 2. Three articles are an origin, a fork and a fork of the fork,
or an origin that is deleted and heard of again. Two connections suffice for one
request that waits while the other commits. Four ticks are two windows. Two typed characters are a command of a page with a
letter, and a filter that narrows twice. Lock
identities are model values that are reused once nobody refers to them. Runs whose
counters run out do not check deadlock: messages are bounded, and a search ends.

Each property of a passing run has a mutant in `PROJECT.json`: a definition with a
plausible bug, under which the run finds the property violated. The mutated
forms stand just above the definitions they replace and are used nowhere else.

### Fairness

* `PoolDrains` and `TimedPoolDrains` assume that days pass (`Tick`) and that some
  process keeps scanning. The code scans at the start of every CLI invocation
  (`cli/__init__.py` `main`), in `article scan`, for the dashboard, and at the end
  of every pull and of every push a server takes (`core/sync_article.py:130`,
  `178`), so the assumption is that somebody on the device goes on using it. The
  hourly scan of the REPL is no reason: `_post_command_cycle` in `repl/main.py` is
  never called. Nothing is assumed of authors and reviewers; the bound on edits
  stands for authors who leave the article alone in the end.
* `CommandsEnd` assumes that a process that is in a command takes its next step when
  it can (`Continue`): the steps are straight-line code.
* `Converges` assumes the same of a sync, and that the owner of each device asks for
  another one (`Start`). It does not assume that `sync pull` is given for articles
  the device does not have, and the bound on failures says that requests do not
  fail forever. It says of each device by itself that it agrees with the server for good,
  has nothing of the article, or is stuck for good, and `Stuck` names the only reasons:
  histories that have diverged, which a truthful probe would let the code merge (run
  `probe`), and a repository without a row on either side (run `upload`).
* `Terminates` assumes that the loop of the search runs on, and that others do not
  commit forever, which `MaxHeight` bounds. Nothing is assumed of the answers.

## Proved

Every safety invariant and every action property that a passing run checks is also
a theorem, for every set of articles, users, threads, processes, devices or
connections and every value of the parameters that satisfies the named assumptions:
`SinkParams`, `StoreParams` and, for the parts, `PartParams`, which is the conjunction of
`ReviewParams`, `SyncParams`, `PeerParams`, `HealthParams`, `DiscoveryParams`,
`ReputationParams`, `AccountParams`, `ReplParams`, `LibraryParams`, `RequestParams`,
`LimitParams`, `CommandParams`, `LockParams` and `SearchParams`. TLC evaluates them in every run. They
ask for no more than that bounds are natural numbers, sets of users and rows are
finite where the code counts or sums over them, and what is called a seed, an
author or an owner is one of the things there are. `PeerParams` also states that the
delays `2^(count - 1)` are natural numbers and grow with the count: facts of
arithmetic, not assumptions about the code, but such as the provers do not know.
The texts of rows are any sequences of characters.

A theorem about a part has two halves: the property of the module alone
(`Rv!Spec => []Rv!OneInvitation`), and the property that the run `parts` checks
(`Spec => []OneInvitation`). The second follows from the first by one lemma for each
part, `...Alone`: a behaviour of `Parts` is, seen from a part, one of that part, which
acts or stays where it begins.

`Sedimentation_proofs`: `TypeCorrect`; `PublishedIsReviewed`; `PromiseIsKept` (the
refinement of `PeerReview`); `ChangesReopenReview`; `TimerIsBounded`;
`NoArticleIsOrphaned`; `CommittersAreCredited`; `ProposalsJoinForks`. The safety
theorems are inductive on top of `TypeOK`. Frame lemmas (`ChangeEffect`, `MergeEffect`,
`ScanEffect`, `PublishEffect`, `SubmitEffect`, `TickEffect`) say what a group of commands may
do to stage, content and approvals, so that each theorem treats a handful of cases
instead of every command. `PromiseIsKept` needs one more invariant, `Unreviewed`:
absent, draft and deleted articles have no reviews, so that an article starts and
ends with no approvals, as the promise says.

`ArticleStore_proofs`: `StoreTypes`, `GitComesFirst`, `StoresAgree`. Both invariants are
silent about a command that is halfway, so neither is inductive. `StoreInv` adds what
every command has made true by each of its steps. `Shape`: the steps a command goes
through, its verdict, and that whoever has prepared a row holds the lock of the
database; two commands under way have met. `First`: each status and each approval
that the row holds, that the transaction holding the lock has prepared, or that a
command is about to store is in the log, or is committed by that command's next
step. `Between`: while nothing has failed or overlapped, at most one command runs,
with none running row and log agree, and a command that runs leaves them a known
distance apart (`Ends`) which its remaining steps close. What the latest marker is,
and that the window of the search finds it where the code looks, are lemmas of
their own (`MarkerIsLatest`, `StatusInGitIsLatest`).

`ArticleLocks_proofs`: `LocksExclude` and `MessagesAreKept`, assuming `Roomy`, that the
table has room for every article (as in `parts`). The run `locks_evict` shows that the
assumption is needed. The invariant says that who is on the way in has the lock that the table
names, that articles do not share locks, and that who is inside holds it; the count
of files taken inside stays right until the write.

`AncestorSearch_proofs`: `ResultWasGranted`, `ResultIsABoundary`, `ProbesDiffer`, for any
answers. `SearchBracket` bounds the interval and keeps what was asked outside it, and
`SearchAnswers` says that the commit at its near end was granted while nobody else
moves; both are inductive. `SearchDenials` adds what was denied: the commit at the far end,
or, after a search in vain, the oldest one within reach. Strict growth of the gallop
follows from `K >= 2`.

`Owning_proofs`:
* Accounts (`AccountTypes`, `SessionsHaveAccounts`, `NamesClashAfterRaces`). A process
  about to write the session has an account that was committed with a password; keys
  may change under it, to one that was signed with, and the account may be deleted,
  which is what the run `session` is about. For the names, a process that has checked a name and not yet stored it
  finds it free or raced.
* Library (`LibraryTypes`, `ForksAreCounted`). An origin is another article that is here
  or was deleted, ids beyond the last one were never used, and each fork under way
  has an id of its own without a row; then each command changes the set of forks by
  one article or none, and the count with it.
* Screens (`ReplTypes`, `EnterOpensTheMarked`). The focus of each page on the stack is on
  a row of it, and on a row that is shown unless a command is being typed
  (`ReplGood`). Typing narrows what is shown (`ReplNarrows`: a longer filter matches no
  more), but sets the focus back; erasing and returning widen it, so the focus
  stays inside. What an item is at its place in a filtered list are the lemmas
  `KeptPlaces` and `KeptItems`, which `Peers` uses too.
* Peers (`PeerTypes`, `PeersAreLeftAlone`). A process that has not read the failures from
  the file remembers none and visits nobody. What it has met itself is among what it
  remembers (`PeerMet`), at least as often and of the same age, and what it still has
  to visit is not in backoff now (`PeerFit`): the list has each peer once, seeds apart, and
  only the visit of a peer adds to its failures. So no write of another process to the
  file between the reading and the visits matters.

`Syncing_proofs`:
* Sync (`SyncTypes`, `NothingIsLost`, `RowsFollowHeads`). That a fast forward keeps what was
  there needs `SyncClosed`: the ancestors of an ancestor are ancestors. Each step either
  leaves the HEADs, or moves one to a descendant, or records a commit with the old
  HEAD among its parents; the lemmas `SyncSameHeads`, `SyncOneHead` and `SyncNewHead`
  treat these three, and every action is one of them. For the rows, `SyncRows` follows
  each device through its job: what the open session will commit is the HEAD, and
  a sync that began without a repository can only fast-forward.
* Discovery (`DiscoveryTypes`, `FollowsAreMade`, `WalksAreComplete`). What is stored, and what a
  walk goes back to when it fails, holds only follows that were made at some time.
  For the walk: whoever was visited or is queued is at the depth it was found at,
  depths in the queue grow by one at most, and of everyone visited above the last
  depth all follows were queued. Who is within a depth is defined by iteration, so
  the proof takes any function that satisfies its recursive equation and finds a
  minimal counterexample (`DiscoverInduction`).
* Reachability (`HealthTypes`, `AnswersWereTrue`). Every entry, in the file, in the memory of
  each process and in what each is about to write over the file, says what was
  true when it was made, and has an age that is at least the time since (`HealthInv`).

`Reviewing_proofs`:
* Reviews (`ReviewTypes`, `InvitedOnce`, `AnonymousInThePool`, `ReviewsAreCommitted`). Every row
  is an invitation or has its review in a thread of its reviewer; a submission whose
  file is written and whose row is not has a commit no row has; the pool writes
  under a pseudonym or a publisher's name whoever writes.
* Reputation (`ReputationTypes`, `ScoresAreEarned`). `NumbersAreEarned` is inductive with the
  types, but only because an average lies between its least and greatest terms:
  `SumsBetween` (weighted sums, over any finite set of reviews), `QuotientsBetween`
  (division and either rounding), `BlendBetween` (the blend with the former value).
  Sums are those of the community module; that the recursive function behind them
  exists is `SumsExist`, by induction on finite sets.

`Serving_proofs`:
* Server (`RequestTypes`, `AnswersAreDurable`, `AbsenceIsTrue`). `RequestSound` says what the
  status of a request may be at each stage: a follow or an upload that is only read
  has no 200 yet, one that is written with a 200 has its rows flushed, and only the
  step that commits tells the client. `AbsenceIsTrue` is about the table of answers: the
  only way to `absent` is a 404, and for reads that show it a 404 means there is none.
* Limiter (`LimitTypes`, `LimitsAreExact`). Every request of the last window is in the
  bucket (`LimitKept`), refused ones too. So a window that ends now holds at most what
  the bucket held when its last request was let through; a window that ends
  later holds no more than one of these.
* Commands (`CommandTypes`, `ReportsAreStored`). A process has flushed nothing but rows of
  its own command, each command is given to one process, and a command that may still
  fail without being one of `FailsLate` has stored nothing.
* `TypesHold`: the parts together keep their types.

Only model-checked is liveness: `PoolDrains`, `TimedPoolDrains`, `CommandsEnd`, `Converges`
and `Terminates`. Fairness and `ENABLED` are beyond the prover. So are the claims of the
runs that expect a violation, which do not hold. Two things are left uninterpreted in
the proofs: what `Folded` in `Sedimentation` computes by summing over reviews, where
the theorems hold for any value of it, and the order in which `SetToSeq` lists a set.
An induction theorem over data would take an operator as a parameter, which the
provers cannot instantiate; where a proof needs induction it is by a least element of
a set of counterexamples (`WFMin`).

## What the modelling met

The `findings`, in short: the days of the pool come on top of their cap (`cap`); a
changed article is published again on old approvals (`content`), or on those of one
person (`distinct`); a fork of a published article cannot be published
(`fork_marker`); the first upload makes no row, and no push is taken after it
(`upload`); a lock is forgotten before it is acquired (`locks_evict`); an account that
is deleted keeps its session (`session`); and the search for a common commit believes
the status of an answer (`probe`). The last one reaches furthest: a device that has
diverged takes its own HEAD for common, asks the server for a bundle since a commit
that the server does not have, and fails, each time again; the three-way merge
(`core/sync_article.py:96-99`) is reached only when its HEAD has moved during the sync,
or when the limiter or an error of the server refuses the probe of its HEAD, which
counts as a no instead of as a failed probe.

Other things a reader of this code may want to know and which no run is about:

* An error may be reported after the commit, although `cli/decorators.py:9` says
  "auto-committed on success, rolled back on error". `INVITATION_DECLINED` is
  defined twice in `messages.py` (107, 301), so a decline that is committed is printed as
  an error, with exit 1. `register` writes the session file, and `bootstrap` the file of
  peers, after their commit; a rich text that cannot be laid out is an internal error
  after the fact. A merge that met a conflict carries a notice made by
  `AppResult.__new__` (`app/commands/fork.py:50`), which has no fields to render.
  `ReportsAreTrue` names these and no others (`FailsLate`).
* `_persist_backoff` writes the peers that are not in backoff (`storage/peers.py:97`), so
  a peer that has just failed vanishes from `peers.json` with its count, unless it is a
  seed; the next process does not know it. `BacksOff` holds within the life of a process.
* A reply is written to the directory of whoever writes it while the article is in the
  pool (`core/reviews/thread.py:111`), so it does not stand in the thread of the reviewer
  it answers, who is notified of it. `PoolIsAnonymous` is about the name on a
  directory and not about which thread a message belongs to.
* `verify_new_commits` (`core/guards.py:111`) takes the commits newest first and at
  most fifty of them, so after a pull across a change of key the older key is the
  one that is stored. An account whose key was replaced so can no longer log in until
  it is replaced again: the salt of its row goes with the key of its password.
* `crawler.py:96` catches `ValueError`, but `ingest_users` raises `ConflictError`: one
  conflicting address aborts a walk. A user known by hearsay blocks `account
  bootstrap` of the same id. An empty page of the home server removes nothing.
* Errors that the server maps to a status are answers within the session of the
  request, which then commits what was flushed. Listings hand dataclasses to
  `JSONResponse`, which cannot encode them, and some clients send no header where the
  path requires one.
* `article edit` without changes and `compile` return no result, which the fronts report
  as an internal error. In JSON mode the CLI exits with 0 after an error.
* `list_articles` ignores `feed` together with an author; an original author is told
  to have forked already once anybody has; an origin deleted and heard of again
  starts counting forks from zero.
* In the REPL the rows of the list of articles are dataclasses, and the Delete key and
  the commands of a page ask them for `get` (`repl/pages/app.py:182`, `293`): both fail
  there, and the command stays in the filter. Such a command also filters the page it is
  typed on, colon and all, so it finds a row only if the row's text contains it. The
  toggle of a profile and three pages are never reached.

## Not modelled, and simplifications

* `Sedimentation` has atomic commands; `ArticleStore` shows what becomes of one article
  when they are not. The two are not joined by a refinement: with a crash between
  git and database, or two processes, `Sedimentation` is not what the code does, and
  `CleanAgrees` says how far it is.
* Reviewers have the weight of new accounts in `Sedimentation`, a review has one whole
  score, and averages are not rounded; `Reputation` has weights and rounding, for one
  of the dimensions.
* A merge that brings no commit, and one that brings all edits of a fork at once,
  are the two outcomes; a conflict is a command that changes nothing.
* The clocks of devices are not compared: after a merge into a draft or an article
  in the pool either side's marker may be the latest.
* Key derivation and signatures (`crypto.py`) are functions of a library; `Requests` has
  which calls are signed and what a check of a header leads to, `Accounts` whether the
  key of a row is the one its password derives.
* `AbsentIsAbsent` is about the calls whose answer is turned into a value or an absence;
  the probe of the search and the fetch of a bundle are not among them. What the former
  makes of a status is in `AncestorSearch` and `BundleSync`.
* `discover_shares`, `discover_notifications`, `push_follow`, `push_share`,
  `merge_notifications` are called by no command.
* Argument parsing, completion, layout, colours, wording, help and banners, the
  compiler (a call of external programs), paths and frontmatter keep no state.
* `src/seed.py`, a demo script, imports `storage.git_backend`, which does not exist.

## Plan

What is left, in the order of its worth:

1. A refinement of `Sedimentation`'s step of a command by the steps of `ArticleStore`, for
   behaviours of one process without failures, and its proof.
2. The search in `BundleSync` is one step: a proof that `AncestorSearch` ends as that step
   does when every answer has the status 200.
3. Safety lemmas below the liveness properties: that a command, a sync and a search
   have a measure that each of their steps decreases, which leaves only fairness
   itself to TLC.
4. Larger instances of `Discovery` and `Library`, with a second account each.
