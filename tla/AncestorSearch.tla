---------------------------- MODULE AncestorSearch ----------------------------
(***************************************************************************)
(* Before a sync, the search for the most recent commit that the remote    *)
(* has too: galloping backwards from HEAD, then bisecting, one network      *)
(* probe at a time.  Meanwhile another process of this device may commit,   *)
(* which shifts all distances from HEAD.                                   *)
(*                                                                         *)
(* What a probe answers is the remote's affair.  The one probe there is     *)
(* takes every status 200 for a yes, and the server answers 200 with the    *)
(* truth in a body that is not read; it takes 429 and 500 for a no.  So no  *)
(* answer is assumed to be true, and the search promises a boundary between *)
(* the answers, which is a boundary between histories only if they were.    *)
(*                                                                         *)
(* Local commits are numbered from the oldest, 1, to HEAD, height; the      *)
(* commit at distance d is height - d.                                     *)
(***************************************************************************)
EXTENDS Integers, FiniteSets

CONSTANTS
  K,          \* factor of the gallop, 5 in the code
  MaxDepth,   \* max_depth: how far back the search looks
  Retries,    \* retries of a probe that the network failed
  MaxHeight   \* bound of the model: local commits

(* Assumed of the constants where the module is instantiated.               *)
SearchParams ==
  /\ K \in Nat /\ K >= 2
  /\ MaxDepth \in Nat \ {0}
  /\ Retries \in Nat
  /\ MaxHeight \in Nat \ {0}

VARIABLES
  height,   \* HEAD
  head,     \* the remote's HEAD as a local commit, 0 if it is none
  last,     \* max_index
  pc,       \* phase of the search
  dist,     \* the next distance of the gallop
  lo,       \* last_no: the greatest distance that was answered no
  hi,       \* first_yes: the least distance that was answered yes
  asking,   \* the commit that is being asked for, 0 if none
  tries,    \* failed attempts of this probe
  asked,    \* distances answered so far
  granted,  \* commits answered yes
  denied,   \* commits answered no
  found,    \* the result, 0 for None
  failed,   \* the search was given up because of the network
  moved     \* somebody committed locally since the search began

answers == <<asked, granted, denied>>
search == <<last, pc, dist, lo, hi, asking, tries, answers, found, failed>>
world == <<height, head, moved>>
vars == <<search, world>>

Phases == {"newest", "gallop", "deepest", "bisect"}

Init ==
  /\ height \in 1..MaxHeight
  /\ head \in 0..height
  /\ last = (IF height < MaxDepth THEN height ELSE MaxDepth) - 1
  /\ pc = "start"
  /\ dist = 0 /\ lo = 0 /\ hi = 0
  /\ asking = 0 /\ tries = 0
  /\ asked = {} /\ granted = {} /\ denied = {}
  /\ found = 0 /\ failed = FALSE /\ moved = FALSE

(* The remote is behind: its HEAD is the answer, without any probe.         *)
FastPath ==
  /\ pc = "start" /\ head # 0
  /\ pc' = "done" /\ found' = head
  /\ UNCHANGED <<last, dist, lo, hi, asking, tries, answers, failed, world>>

Start ==
  /\ pc = "start" /\ head = 0
  /\ pc' = "newest"
  /\ UNCHANGED <<last, dist, lo, hi, asking, tries, answers, found, failed, world>>

(* The distance the phase asks for.                                        *)
At == CASE pc = "newest"  -> 0
        [] pc = "gallop"  -> dist
        [] pc = "deepest" -> last
        [] pc = "bisect"  -> (lo + hi) \div 2

Due ==
  /\ pc \in Phases
  /\ pc = "gallop" => dist <= last
  /\ pc = "bisect" => hi - lo > 1

(* git rev-list looks the commit up, counting from HEAD as it is now.       *)
LookUp ==
  /\ Due
  /\ asking = 0
  /\ asking' = height - At
  /\ UNCHANGED <<last, pc, dist, lo, hi, tries, answers, found, failed, world>>

Answered ==
  /\ asking # 0
  /\ asking' = 0
  /\ tries' = 0
  /\ asked' = asked \cup {At}
  /\ UNCHANGED <<last, failed, world>>

(* Any answer of status 200, whatever its body says of the commit.          *)
Yes ==
  /\ Answered
  /\ granted' = granted \cup {asking}
  /\ hi' = At
  /\ pc' = IF pc = "newest" THEN "report" ELSE "bisect"
  /\ UNCHANGED <<dist, lo, found, denied>>

(* Mutant: the distance does not grow.                                     *)
FurtherNever(d) == d

Further(d) == d * K

(* Any other status: 429 of the limiter, 500, a proxy's.                    *)
No ==
  /\ Answered
  /\ denied' = denied \cup {asking}
  /\ lo' = At
  /\ dist' = CASE pc = "newest" -> 1 [] pc = "gallop" -> Further(dist) [] OTHER -> dist
  /\ pc' = CASE pc = "newest" -> "gallop" [] pc = "deepest" -> "done" [] OTHER -> pc
  /\ UNCHANGED <<hi, found, granted>>

(* No answer, at last after the retries.                                   *)
Fail ==
  /\ asking # 0
  /\ IF tries < Retries
       THEN tries' = tries + 1 /\ UNCHANGED <<asking, pc, failed>>
       ELSE tries' = 0 /\ asking' = 0 /\ pc' = "done" /\ failed' = TRUE
  /\ UNCHANGED <<last, dist, lo, hi, answers, found, world>>

(* The gallop ran past the end: the deepest commit is asked for, unless it  *)
(* was the last one asked.                                                 *)
Exhausted ==
  /\ pc = "gallop" /\ dist > last
  /\ pc' = IF lo = last THEN "done" ELSE "deepest"
  /\ UNCHANGED <<last, dist, lo, hi, asking, tries, answers, found, failed, world>>

(* Mutant: bisecting stops too early.                                      *)
CloseTwo == hi - lo <= 2

Close == hi - lo <= 1

Narrowed ==
  /\ pc = "bisect" /\ Close
  /\ pc' = "report"
  /\ UNCHANGED <<last, dist, lo, hi, asking, tries, answers, found, failed, world>>

(* Mutant: the other end of the interval, which was answered no.            *)
BoundaryNo == lo

Boundary == hi

(* The distance is turned into a commit, again from HEAD as it is now.      *)
Report ==
  /\ pc = "report"
  /\ pc' = "done"
  /\ found' = height - Boundary
  /\ UNCHANGED <<last, dist, lo, hi, asking, tries, answers, failed, world>>

Search ==
  \/ FastPath \/ Start \/ LookUp \/ Yes \/ No \/ Fail
  \/ Exhausted \/ Narrowed \/ Report

(* Another process of this device commits.                                 *)
LocalCommit ==
  /\ pc # "done"
  /\ height < MaxHeight
  /\ height' = height + 1
  /\ moved' = TRUE
  /\ UNCHANGED <<search, head>>

Next == Search \/ LocalCommit

Spec == Init /\ [][Next]_vars

(* The search is a loop that runs on; others need not do anything.          *)
FairSpec == Spec /\ WF_vars(Search)

-----------------------------------------------------------------------------
TypeOK ==
  /\ height \in 1..MaxHeight
  /\ head \in 0..height
  /\ last \in Nat
  /\ pc \in Phases \cup {"start", "report", "done"}
  /\ dist \in Nat /\ lo \in Nat /\ hi \in Nat
  /\ asking \in 0..height
  /\ tries \in 0..Retries
  /\ asked \in SUBSET Nat
  /\ granted \in SUBSET (1..height) /\ denied \in SUBSET (1..height)
  /\ found \in 0..height
  /\ failed \in BOOLEAN /\ moved \in BOOLEAN

(* What is found was asked for and answered yes, or is the remote's HEAD;   *)
(* nothing is guessed from the distances around it (the last line of        *)
(* search_monotonic_boundary and _hash_at), unless somebody committed       *)
(* locally during the search.                                              *)
FoundWasGranted ==
  pc = "done" /\ found # 0 /\ ~moved => found \in granted \/ found = head

(* The oldest commit within reach.                                         *)
Deepest == IF height > MaxDepth THEN height - MaxDepth + 1 ELSE 1

(* It is a boundary: the commit after it was answered no, or it is HEAD;    *)
(* and nothing is found, other than for want of an answer, only after the   *)
(* oldest commit within reach was answered no.  So when the answers are      *)
(* true of a history without merges, it is the most recent common commit.   *)
FoundIsABoundary ==
  pc = "done" /\ ~failed /\ ~moved =>
    IF found = 0 THEN Deepest \in denied
    ELSE found = head \/ found = height \/ found + 1 \in denied

(* No distance is asked for twice: every probe is a request over the        *)
(* network, and the phases hand over to each other without overlap.         *)
NoProbeTwice == asking # 0 => At \notin asked

(* The search ends.                                                        *)
Terminates == <>(pc = "done")
=============================================================================
