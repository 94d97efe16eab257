--------------------------------- MODULE Parts ---------------------------------
(***************************************************************************)
(* The parts of a device that keep state of their own.  They share nothing  *)
(* that any of them tells apart, so one part acts in a behaviour and the     *)
(* others stay where they begin: each part behaves as it does alone.        *)
(***************************************************************************)
EXTENDS Integers, FiniteSets, Sequences

CONSTANTS
  Users, Maintainers,   \* users a device knows, and those of an article
  Locals,               \* users with an account on the device
  People, Edges,        \* whom it may hear of, and who may follow whom
  Writings, Authors, Writers, Viewed,  \* articles, in most parts and on the screens
  Devices, Server, Procs, Syncers, Conns,
  Urls, Seeds, Servers, Serves, Addresses,
  Names, Text, Chars, Colon, Null,
  Scores, Hearsay, Used,  \* what is given as a score, a status, a command
  TTL, Window, Depth,
  MaxMessages, MaxPhases, MaxCommits, MaxFails, MaxKnown, MaxCount, MaxKept,
  MaxNodes, Limit, MaxReviews, MaxTyped, MaxArticles, MaxRefs,
  MaxRequests, MaxTime, MaxAsked, MaxCommands,
  Threads, Locks, MaxLocks,
  K, MaxDepth, Retries, MaxHeight

VARIABLES
  part,   \* the part that acts
  rvStatus, rvPhases, rvRows, rvThreads, rvMade, rvWriting, rvInbox,
  bsPast, bsHead, bsRow, bsSession, bsJob, bsAnswer, bsFails, bsClashed,
  bsBehind,
  peFile, peTorn, peMem, peLoaded, peOutput, peTodo, peOwn,
  hcUp, hcWasUp, hcWasDown, hcMemory, hcFile, hcReplacing,
  diGraph, diRows, diLive, diGone, diStubs, diWalk, diBefore, diEver,
  reStatus, reReviews, reScore, reRep,
  acUser, acSession, acFollows, acAlias, acProc, acRaced,
  uiRows, uiStack, uiBuffer, uiMother, uiOpened,
  liRow, liMids, liSaved, liShared, liNotes, liForking, liUsed, liDropped,
  rqKnown, rqFollows, rqNotes, rqShares, rqRepo, rqMirror, rqConn, rqTold,
  rqSent,
  rlNow, rlBucket, rlAsked, rlServed,
  cmGiven, cmProc, cmStored, cmDone, cmRefused,
  lkTable, lkOrder, lkHolder, lkPc, lkArticle, lkLock, lkSeen, lkFiles, lkSent,
  anHeight, anHead, anLast, anPc, anDist, anLo, anHi, anAsking, anTries,
  anAsked, anGranted, anDenied, anFound, anFailed, anMoved

rvVars == <<rvStatus, rvPhases, rvRows, rvThreads, rvMade, rvWriting, rvInbox>>
bsVars == <<bsPast, bsHead, bsRow, bsSession, bsJob, bsAnswer, bsFails, bsClashed,
  bsBehind>>
peVars == <<peFile, peTorn, peMem, peLoaded, peOutput, peTodo, peOwn>>
hcVars == <<hcUp, hcWasUp, hcWasDown, hcMemory, hcFile, hcReplacing>>
diVars == <<diGraph, diRows, diLive, diGone, diStubs, diWalk, diBefore, diEver>>
reVars == <<reStatus, reReviews, reScore, reRep>>
acVars == <<acUser, acSession, acFollows, acAlias, acProc, acRaced>>
uiVars == <<uiRows, uiStack, uiBuffer, uiMother, uiOpened>>
liVars == <<liRow, liMids, liSaved, liShared, liNotes, liForking, liUsed, liDropped>>
rqVars == <<rqKnown, rqFollows, rqNotes, rqShares, rqRepo, rqMirror, rqConn, rqTold,
  rqSent>>
rlVars == <<rlNow, rlBucket, rlAsked, rlServed>>
cmVars == <<cmGiven, cmProc, cmStored, cmDone, cmRefused>>
lkVars == <<lkTable, lkOrder, lkHolder, lkPc, lkArticle, lkLock, lkSeen, lkFiles, lkSent>>
anVars == <<anHeight, anHead, anLast, anPc, anDist, anLo, anHi, anAsking, anTries,
  anAsked, anGranted, anDenied, anFound, anFailed, anMoved>>

Rv == INSTANCE Reviews WITH
  status <- rvStatus, phases <- rvPhases, rows <- rvRows,
  threads <- rvThreads, made <- rvMade, writing <- rvWriting,
  inbox <- rvInbox

Bs == INSTANCE BundleSync WITH
  past <- bsPast, head <- bsHead, row <- bsRow, session <- bsSession,
  job <- bsJob, answer <- bsAnswer, fails <- bsFails, clashed <- bsClashed,
  behind <- bsBehind

Pe == INSTANCE Peers WITH
  file <- peFile, torn <- peTorn, mem <- peMem, loaded <- peLoaded,
  output <- peOutput, todo <- peTodo, own <- peOwn

Hc == INSTANCE HealthCache WITH
  up <- hcUp, wasUp <- hcWasUp, wasDown <- hcWasDown, memory <- hcMemory,
  file <- hcFile, replacing <- hcReplacing

Di == INSTANCE Discovery WITH
  Users <- People, Owners <- Locals, Articles <- Writings, Authors <- Writers,
  graph <- diGraph, rows <- diRows, live <- diLive, gone <- diGone,
  stubs <- diStubs, walk <- diWalk, before <- diBefore, ever <- diEver

Re == INSTANCE Reputation WITH
  Articles <- Writings,
  status <- reStatus, reviews <- reReviews, score <- reScore, rep <- reRep

Ac == INSTANCE Accounts WITH
  Ids <- Users, None <- Null,
  user <- acUser, session <- acSession, follows <- acFollows,
  alias <- acAlias, proc <- acProc, raced <- acRaced

Ui == INSTANCE Repl WITH
  Articles <- Viewed,
  rows <- uiRows, stack <- uiStack, buffer <- uiBuffer, mother <- uiMother,
  opened <- uiOpened

Li == INSTANCE Library WITH
  Accounts <- Locals, Heard <- Hearsay,
  row <- liRow, mids <- liMids, saved <- liSaved, shared <- liShared,
  notes <- liNotes, forking <- liForking, used <- liUsed,
  dropped <- liDropped

Rq == INSTANCE Requests WITH
  Askers <- Locals, Articles <- Writings, Unknown <- Null,
  known <- rqKnown, follows <- rqFollows, notes <- rqNotes,
  shares <- rqShares, repo <- rqRepo, mirror <- rqMirror, conn <- rqConn,
  told <- rqTold, sent <- rqSent

Rl == INSTANCE RateLimit WITH
  now <- rlNow, bucket <- rlBucket, asked <- rlAsked, served <- rlServed

Cm == INSTANCE Commands WITH
  given <- cmGiven, proc <- cmProc, stored <- cmStored, done <- cmDone,
  refused <- cmRefused

Lk == INSTANCE ArticleLocks WITH
  Articles <- Viewed, NoLock <- Null, NoThread <- Null, NoArticle <- Null,
  table <- lkTable, order <- lkOrder, holder <- lkHolder, pc <- lkPc,
  article <- lkArticle, lock <- lkLock, seen <- lkSeen, files <- lkFiles,
  sent <- lkSent

An == INSTANCE AncestorSearch WITH
  height <- anHeight, head <- anHead, last <- anLast, pc <- anPc,
  dist <- anDist, lo <- anLo, hi <- anHi, asking <- anAsking,
  tries <- anTries, asked <- anAsked, granted <- anGranted,
  denied <- anDenied, found <- anFound, failed <- anFailed,
  moved <- anMoved

ASSUME PartParams ==
  /\ Rv!ReviewParams
  /\ Bs!SyncParams
  /\ Pe!PeerParams
  /\ Hc!HealthParams
  /\ Di!DiscoveryParams
  /\ Re!ReputationParams
  /\ Ac!AccountParams
  /\ Ui!ReplParams
  /\ Li!LibraryParams
  /\ Rq!RequestParams
  /\ Rl!LimitParams
  /\ Cm!CommandParams
  /\ Lk!LockParams
  /\ An!SearchParams

(* A part that does not act begins in one state only.                      *)
Init ==
  /\ part \in {"rv", "bs", "pe", "hc", "di", "re", "ac", "ui", "li", "rq", "rl", "cm", "lk", "an"}
  /\ Rv!Init
  /\ Bs!Init
  /\ Pe!Init
  /\ Hc!Init
  /\ Di!Init
  /\ Re!Init
  /\ Ac!Init
  /\ Ui!Init
  /\ Li!Init
  /\ Rq!Init
  /\ Rl!Init
  /\ Cm!Init
  /\ Lk!Init
  /\ An!Init
  /\ part # "bs" => bsHead[Server] = 1
  /\ part # "hc" => hcUp = {}
  /\ part # "di" => diGraph = {}
  /\ part # "rq" => rqKnown = Users /\ rqRepo = "old"
  /\ part # "an" => anHeight = 1 /\ anHead = 0

Next ==
  \/ part = "rv" /\ Rv!Next
     /\ UNCHANGED <<part, bsVars, peVars, hcVars, diVars, reVars, acVars, uiVars, liVars, rqVars, rlVars, cmVars, lkVars, anVars>>
  \/ part = "bs" /\ Bs!Next
     /\ UNCHANGED <<part, rvVars, peVars, hcVars, diVars, reVars, acVars, uiVars, liVars, rqVars, rlVars, cmVars, lkVars, anVars>>
  \/ part = "pe" /\ Pe!Next
     /\ UNCHANGED <<part, rvVars, bsVars, hcVars, diVars, reVars, acVars, uiVars, liVars, rqVars, rlVars, cmVars, lkVars, anVars>>
  \/ part = "hc" /\ Hc!Next
     /\ UNCHANGED <<part, rvVars, bsVars, peVars, diVars, reVars, acVars, uiVars, liVars, rqVars, rlVars, cmVars, lkVars, anVars>>
  \/ part = "di" /\ Di!Next
     /\ UNCHANGED <<part, rvVars, bsVars, peVars, hcVars, reVars, acVars, uiVars, liVars, rqVars, rlVars, cmVars, lkVars, anVars>>
  \/ part = "re" /\ Re!Next
     /\ UNCHANGED <<part, rvVars, bsVars, peVars, hcVars, diVars, acVars, uiVars, liVars, rqVars, rlVars, cmVars, lkVars, anVars>>
  \/ part = "ac" /\ Ac!Next
     /\ UNCHANGED <<part, rvVars, bsVars, peVars, hcVars, diVars, reVars, uiVars, liVars, rqVars, rlVars, cmVars, lkVars, anVars>>
  \/ part = "ui" /\ Ui!Next
     /\ UNCHANGED <<part, rvVars, bsVars, peVars, hcVars, diVars, reVars, acVars, liVars, rqVars, rlVars, cmVars, lkVars, anVars>>
  \/ part = "li" /\ Li!Next
     /\ UNCHANGED <<part, rvVars, bsVars, peVars, hcVars, diVars, reVars, acVars, uiVars, rqVars, rlVars, cmVars, lkVars, anVars>>
  \/ part = "rq" /\ Rq!Next
     /\ UNCHANGED <<part, rvVars, bsVars, peVars, hcVars, diVars, reVars, acVars, uiVars, liVars, rlVars, cmVars, lkVars, anVars>>
  \/ part = "rl" /\ Rl!Next
     /\ UNCHANGED <<part, rvVars, bsVars, peVars, hcVars, diVars, reVars, acVars, uiVars, liVars, rqVars, cmVars, lkVars, anVars>>
  \/ part = "cm" /\ Cm!Next
     /\ UNCHANGED <<part, rvVars, bsVars, peVars, hcVars, diVars, reVars, acVars, uiVars, liVars, rqVars, rlVars, lkVars, anVars>>
  \/ part = "lk" /\ Lk!Next
     /\ UNCHANGED <<part, rvVars, bsVars, peVars, hcVars, diVars, reVars, acVars, uiVars, liVars, rqVars, rlVars, cmVars, anVars>>
  \/ part = "an" /\ An!Next
     /\ UNCHANGED <<part, rvVars, bsVars, peVars, hcVars, diVars, reVars, acVars, uiVars, liVars, rqVars, rlVars, cmVars, lkVars>>

vars == <<part, rvVars, bsVars, peVars, hcVars, diVars, reVars, acVars, uiVars, liVars, rqVars, rlVars, cmVars, lkVars, anVars>>

Fairness ==
  /\ \A d \in Devices :
       /\ WF_bsVars(part = "bs" /\ Bs!Start(d) /\ UNCHANGED <<part, rvVars, peVars, hcVars, diVars, reVars, acVars, uiVars, liVars, rqVars, rlVars, cmVars, lkVars, anVars>>)
       /\ WF_bsVars(part = "bs" /\ Bs!Continue(d) /\ UNCHANGED <<part, rvVars, peVars, hcVars, diVars, reVars, acVars, uiVars, liVars, rqVars, rlVars, cmVars, lkVars, anVars>>)
  /\ WF_anVars(part = "an" /\ An!Search /\ UNCHANGED <<part, rvVars, bsVars, peVars, hcVars, diVars, reVars, acVars, uiVars, liVars, rqVars, rlVars, cmVars, lkVars>>)

Spec == Init /\ [][Next]_vars /\ Fairness

-----------------------------------------------------------------------------
(* The properties are those of the modules, under their names, each of the   *)
(* part that acts.                                                         *)
TypeOK ==
  /\ part = "rv" => Rv!TypeOK
  /\ part = "bs" => Bs!TypeOK
  /\ part = "pe" => Pe!TypeOK
  /\ part = "hc" => Hc!TypeOK
  /\ part = "di" => Di!TypeOK
  /\ part = "re" => Re!TypeOK
  /\ part = "ac" => Ac!TypeOK
  /\ part = "ui" => Ui!TypeOK
  /\ part = "li" => Li!TypeOK
  /\ part = "rq" => Rq!TypeOK
  /\ part = "rl" => Rl!TypeOK
  /\ part = "cm" => Cm!TypeOK
  /\ part = "lk" => Lk!TypeOK
  /\ part = "an" => An!TypeOK

OneInvitation == part = "rv" => Rv!OneInvitation
PoolIsAnonymous == part = "rv" => Rv!PoolIsAnonymous
RowsHaveReviews == part = "rv" => Rv!RowsHaveReviews
NothingLost == Bs!NothingLost
RowsFollow == part = "bs" => Bs!RowsFollow
Converges == Bs!Converges
BacksOff == part = "pe" => Pe!BacksOff
AnswersAreRecent == part = "hc" => Hc!AnswersAreRecent
WalkIsComplete == part = "di" => Di!WalkIsComplete
NothingInvented == part = "di" => Di!NothingInvented
NumbersAreEarned == part = "re" => Re!NumbersAreEarned
SessionHasAccount == part = "ac" => Ac!SessionHasAccount
NamesClashByRaces == part = "ac" => Ac!NamesClashByRaces
OpensTheMarked == Ui!OpensTheMarked
CountsAreForks == part = "li" => Li!CountsAreForks
OkIsDurable == part = "rq" => Rq!OkIsDurable
AbsentIsAbsent == part = "rq" => Rq!AbsentIsAbsent
LimitIsExact == part = "rl" => Rl!LimitIsExact
ReportsAreTrue == part = "cm" => Cm!ReportsAreTrue
MutualExclusion == part = "lk" => Lk!MutualExclusion
NoMessageLost == part = "lk" => Lk!NoMessageLost
FoundWasGranted == part = "an" => An!FoundWasGranted
FoundIsABoundary == part = "an" => An!FoundIsABoundary
NoProbeTwice == part = "an" => An!NoProbeTwice
Terminates == part = "an" => An!Terminates
=============================================================================
