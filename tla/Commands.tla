-------------------------------- MODULE Commands -------------------------------
(***************************************************************************)
(* How a command runs, whatever it does: found by its id, given a session   *)
(* of the database, flushed, committed by its own handler, and reported.    *)
(* Three fronts give commands: the command line, which answers in JSON by   *)
(* default and leaves the process from within the session, the same with    *)
(* --rich, which synchronises afterwards in that session, and the REPL.     *)
(* Each process has one session, and flushed rows lock the database.        *)
(***************************************************************************)
EXTENDS Integers, Sequences

CONSTANTS
  Procs,
  Used,         \* ids of the commands that are given
  MaxCommands   \* bound: commands that are given

VARIABLES
  given,    \* the commands that were given, in order: [front, id]
  proc,     \* [Procs -> [at, cmd, pending]]: flushed and not committed
  stored,   \* commands with committed rows
  done,     \* those that were reported as done
  refused   \* those that were reported as failed, for whatever reason

vars == <<given, proc, stored, done, refused>>

(* The registry, by what the commands do with the session: those that write *)
(* commit it themselves.  Users and articles that a listing hears of in      *)
(* passing are committed one by one.                                       *)
AccountWrites == {"account.register", "account.bootstrap", "account.delete"}
ArticleWrites ==
  {"article.create", "article.edit", "article.publish", "article.delete", "article.scan"}
ReviewWrites ==
  {"review.submit", "review.reply", "review.invite", "review.accept", "review.decline",
   "review.rate"}
ForkWrites == {"fork", "merge.propose", "merge.accept", "merge.withdraw"}
PeopleWrites ==
  {"follow", "unfollow", "bookmark.add", "bookmark.remove", "share.add", "share.remove",
   "alias.set", "alias.remove"}
MaintainerWrites ==
  {"maintainer.add", "maintainer.remove", "maintainer.consent", "maintainer.revoke"}
Committing ==
  AccountWrites \cup ArticleWrites \cup ReviewWrites \cup ForkWrites \cup PeopleWrites
    \cup MaintainerWrites \cup {"sync.discover", "notifications.read"}

AccountReads == {"account.login", "account.recover", "account.whoami", "account.search"}
ArticleReads == {"article.show", "article.list", "article.diff"}
PeopleReads == {"following", "followers", "school", "alias.list", "share.list"}
Reading ==
  AccountReads \cup ArticleReads \cup PeopleReads
    \cup {"review.list", "notifications", "sync.status", "maintainer.list"}
OnlyCli == {"server.start", "schema", "compile", "mother", "help"}
Ids == Committing \cup Reading \cup OnlyCli \cup {"sync.pull"}

(* Assumed of the constants where the module is instantiated.              *)
CommandParams == Used \subseteq Ids /\ MaxCommands \in Nat

Cmds == 1 .. MaxCommands
OfSync == 0   \* rows of a synchronisation
Idle == [at |-> "idle", cmd |-> 0, pending |-> {}]
Fronts == {"json", "rich", "repl"}

Init ==
  /\ given = <<>>
  /\ proc = [p \in Procs |-> Idle]
  /\ stored = {}
  /\ done = {}
  /\ refused = {}

Id(p) == given[proc[p].cmd].id
Front(p) == given[proc[p].cmd].front

LockedFor(p) == \E q \in Procs \ {p} : proc[q].pending # {}

Goes(p, at, pending) ==
  proc' = [proc EXCEPT ![p] = [at |-> at, cmd |-> @.cmd, pending |-> pending]]

(* sys.exit is no Exception: the session is closed, and neither committed   *)
(* nor rolled back.                                                        *)
Exits(p) == proc' = [proc EXCEPT ![p] = Idle]

-----------------------------------------------------------------------------
(* The REPL knows the commands that have a handler.                        *)
Invoke(p, front, id) ==
  /\ proc[p] = Idle /\ Len(given) < MaxCommands
  /\ front = "repl" => id \notin OnlyCli
  /\ given' = Append(given, [front |-> front, id |-> id])
  /\ proc' = [proc EXCEPT ![p] = [at |-> IF front = "repl" THEN "handler" ELSE "scan",
                                  cmd |-> Len(given) + 1, pending |-> {}]]
  /\ UNCHANGED <<stored, done, refused>>

(* Before anything else the command line publishes what is due, in a session *)
(* of its own; an error there ends the process, as wrong arguments do next. *)
Scan(p) ==
  /\ proc[p].at = "scan"
  /\ \/ Goes(p, "handler", {}) /\ UNCHANGED refused
     \/ Exits(p) /\ refused' = refused \cup {proc[p].cmd}
  /\ UNCHANGED <<given, stored, done>>

(* A guard may refuse, and so does a database that stays locked.           *)
Handler(p) ==
  /\ proc[p].at = "handler"
  /\ \/ Goes(p, "failed", {})
     \/ Id(p) \in Reading \cup OnlyCli /\ Goes(p, "render", {})
     \/ /\ Id(p) \in Committing \cup {"sync.pull"} /\ ~LockedFor(p)
        /\ Goes(p, "flushed", {proc[p].cmd})
  /\ UNCHANGED <<given, stored, done, refused>>

(* Mutant: the handler leaves the commit to the session.                   *)
LeavesCommit(id) == FALSE

(* A pull commits only if it synchronised an article that was here.        *)
Commits(id) == id \in Committing

(* What still writes a file once its rows are committed: the session of a    *)
(* new account, the peers that a peer of the bootstrap knows.              *)
WritesLater == {"account.register", "account.bootstrap"}

(* The handler goes on after its flush, to its commit or to an error; a file *)
(* that cannot be written afterwards is an error of the whole command.     *)
Commit(p) ==
  LET pending == proc[p].pending IN
  /\ proc[p].at = "flushed"
  /\ \/ Goes(p, "failed", pending) /\ UNCHANGED stored
     \/ /\ Commits(Id(p)) \/ Id(p) = "sync.pull"
        /\ Goes(p, "render", {}) /\ stored' = stored \cup pending
     \/ /\ Commits(Id(p)) /\ Id(p) \in WritesLater
        /\ Goes(p, "failed", {}) /\ stored' = stored \cup pending
     \/ ~Commits(Id(p)) /\ Goes(p, "render", pending) /\ UNCHANGED stored
  /\ UNCHANGED <<given, done, refused>>

-----------------------------------------------------------------------------
(* _out: what has the kind of an error ends the process with 1.  "review     *)
(* decline" has: its code is that of a later message as well.              *)
IsError(id) == id = "review.decline"

(* The REPL shows no results.  A rich text that cannot be laid out is an     *)
(* internal error after the fact: what was flushed is rolled back, what was *)
(* committed is not.                                                       *)
Render(p) ==
  LET r == proc[p]
      Refuse == Exits(p) /\ refused' = refused \cup {r.cmd} /\ UNCHANGED done
      Report == done' = done \cup {r.cmd} /\ UNCHANGED refused
  IN
  /\ r.at = "render"
  /\ \/ Front(p) = "repl" /\ Goes(p, "close", r.pending) /\ UNCHANGED <<done, refused>>
     \/ Front(p) # "repl" /\ IsError(Id(p)) /\ Refuse
     \/ Front(p) = "rich" /\ Refuse
     \/ Front(p) = "json" /\ ~IsError(Id(p)) /\ Exits(p) /\ Report
     \/ Front(p) = "rich" /\ ~IsError(Id(p)) /\ Goes(p, "sync", r.pending) /\ Report
  /\ UNCHANGED <<given, stored>>

(* _auto_sync swallows every error and keeps what was flushed before it.  A  *)
(* guest who has set a server leaves here, with 1.                         *)
Sync(p) ==
  LET pending == proc[p].pending IN
  /\ proc[p].at = "sync"
  /\ \/ Goes(p, "close", pending) /\ UNCHANGED stored
     \/ Exits(p) /\ UNCHANGED stored
     \/ ~LockedFor(p) /\ Goes(p, "close", pending \cup {OfSync}) /\ UNCHANGED stored
     \/ ~LockedFor(p) /\ Goes(p, "close", {}) /\ stored' = stored \cup pending
  /\ UNCHANGED <<given, done, refused>>

(* The session is left without an exception.                               *)
Close(p) ==
  /\ proc[p].at = "close"
  /\ stored' = stored \cup (proc[p].pending \ {OfSync})
  /\ Exits(p)
  /\ UNCHANGED <<given, done, refused>>

(* What is not committed is rolled back, and reported with an exit status   *)
(* of 0.                                                                   *)
Failed(p) ==
  /\ proc[p].at = "failed"
  /\ refused' = refused \cup {proc[p].cmd}
  /\ Exits(p)
  /\ UNCHANGED <<given, stored, done>>

Crash(p) ==
  /\ proc[p] # Idle
  /\ Exits(p)
  /\ UNCHANGED <<given, stored, done, refused>>

Next ==
  \E p \in Procs :
    \/ \E front \in Fronts, id \in Used : Invoke(p, front, id)
    \/ Scan(p) \/ Handler(p) \/ Commit(p) \/ Render(p) \/ Sync(p) \/ Close(p)
    \/ Failed(p) \/ Crash(p)

Spec == Init /\ [][Next]_vars

-----------------------------------------------------------------------------
TypeOK ==
  /\ given \in Seq([front : Fronts, id : Used]) /\ Len(given) <= MaxCommands
  /\ proc \in [Procs -> [at : {"idle", "scan", "handler", "flushed", "render", "sync",
                               "close", "failed"},
                         cmd : 0 .. Len(given),
                         pending : SUBSET (0 .. Len(given))]]
  /\ {stored, done, refused} \subseteq SUBSET (1 .. Len(given))

(* What was reported as done is committed, although the default front leaves *)
(* before its session is.  What was reported as failed is committed only    *)
(* where the error came after the commit: a file that could not be written, *)
(* a rich text that could not be laid out, and "review decline", whatever   *)
(* happens.  Anything else that failed has committed nothing, whatever the  *)
(* session commits later (with_context, _out, and the commit of every      *)
(* handler that writes).  A pull promises no rows.                         *)
FailsLate(c) ==
  given[c].front = "rich" \/ given[c].id \in WritesLater \/ IsError(given[c].id)

ReportsAreTrue ==
  /\ \A c \in done : given[c].id \in Committing => c \in stored
  /\ \A c \in refused : c \in stored => FailsLate(c)
=============================================================================
