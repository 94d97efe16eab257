------------------------------- MODULE Discovery -------------------------------
(***************************************************************************)
(* Who knows whom.  A device keeps users, follows and article stubs.  Its   *)
(* owner follows and unfollows; "sync discover" walks the follow graph of a *)
(* server, breadth first, and takes in what it finds.  The graph changes    *)
(* while the walk goes on.  The walk is one transaction.  What a user's      *)
(* home server says of the user's follows replaces what the device knows.   *)
(*                                                                         *)
(* The server is another peer: it answers as the transport promises, or a   *)
(* request fails.                                                          *)
(***************************************************************************)
EXTENDS Integers, FiniteSets, SequencesExt

CONSTANTS
  Users,
  Owners,    \* users who may have an account on the device
  Edges,     \* follows that may exist, on the server and the device
  Articles,
  Authors,   \* [Articles -> SUBSET Users]
  Depth,
  MaxNodes,  \* max_users
  Limit      \* how many users the school lists

(* Assumed of the constants where the module is instantiated.               *)
DiscoveryParams ==
  /\ IsFiniteSet(Users) /\ Owners \subseteq Users
  /\ Edges \subseteq {e \in Users \X Users : e[1] # e[2]}
  /\ Authors \in [Articles -> SUBSET Users]
  /\ {Depth, MaxNodes, Limit} \subseteq Nat

VARIABLES
  graph,  \* follows on the server
  rows,   \* [Users -> Row]: the users the device knows, and how
  live,   \* follow rows
  gone,   \* follow rows that are marked deleted
  stubs,  \* articles known by their metadata
  walk,   \* the walk under way
  before, \* the database to go back to if it fails
  ever    \* follows that somebody has made, on the server or here

db == <<rows, live, gone, stubs>>
vars == <<graph, rows, live, gone, stubs, walk, before, ever>>

Row == {"none", "author", "listed", "account"}  \* an author's name is its id
NoWalk == [on |-> FALSE, start |-> "none", queue |-> <<>>, seen |-> {}, visited |-> {},
           missed |-> FALSE, moved |-> FALSE]

Following(g, u) == {e[2] : e \in {f \in g : f[1] = u}}

-----------------------------------------------------------------------------
Init ==
  /\ graph \in SUBSET Edges
  /\ rows = [u \in Users |-> "none"]
  /\ live = {} /\ gone = {} /\ stubs = {}
  /\ walk = NoWalk
  /\ before = <<>>
  /\ ever = graph

Busy == walk.on

(* On the server people follow and unfollow.                               *)
Move(e) ==
  /\ graph' = IF e \in graph THEN graph \ {e} ELSE graph \cup {e}
  /\ ever' = ever \cup graph'
  /\ walk' = [walk EXCEPT !.moved = walk.on]
  /\ UNCHANGED <<rows, live, gone, stubs, before>>

(* register, bootstrap: not for a user the device already knows.           *)
Account(u) ==
  /\ ~Busy
  /\ rows[u] = "none"
  /\ rows' = [rows EXCEPT ![u] = "account"]
  /\ UNCHANGED <<graph, live, gone, stubs, walk, before, ever>>

Follow(e) ==
  /\ ~Busy
  /\ rows[e[1]] = "account" /\ rows[e[2]] # "none"
  /\ live' = live \cup {e}
  /\ gone' = gone \ {e}
  /\ ever' = ever \cup {e}
  /\ UNCHANGED <<graph, rows, stubs, walk, before>>

Unfollow(e) ==
  /\ ~Busy
  /\ rows[e[1]] = "account"
  /\ e \in live
  /\ live' = live \ {e}
  /\ gone' = gone \cup {e}
  /\ UNCHANGED <<graph, rows, stubs, walk, before, ever>>

(* ensure_user and create_user_stub: a row that exists stays as it is.      *)
Ensured(known, us, how) ==
  [u \in Users |-> IF u \in us /\ known[u] = "none" THEN how ELSE known[u]]

Followers(u) == Cardinality({e \in graph : e[2] = u})

(* The most followed users, as far as the list goes.                       *)
Top ==
  {us \in SUBSET Users :
     /\ Cardinality(us) = IF Cardinality(Users) < Limit THEN Cardinality(Users) ELSE Limit
     /\ \A u \in us, v \in Users \ us : Followers(u) >= Followers(v)}

School ==
  /\ ~Busy
  /\ \E us \in Top : rows' = Ensured(rows, us, "listed")
  /\ UNCHANGED <<graph, live, gone, stubs, walk, before, ever>>

-----------------------------------------------------------------------------
(* discover_articles of the users us: a stub is made with its authors.     *)
Published(us) == {a \in Articles : Authors[a] \cap us # {}}

WithAuthors(known, as) == Ensured(known, UNION {Authors[a] : a \in as}, "author")

Discover(us) ==
  LET new == Published(us) \ stubs IN
  /\ stubs' = stubs \cup new
  /\ rows' = WithAuthors(Ensured(rows, us, "listed"), new)

(* Mutant: who follows and who is followed are exchanged.                   *)
EdgesOfReversed(u, page) == {<<v, u>> : v \in page}

EdgesOf(u, page) == {<<u, v>> : v \in page}

(* ingest_following adds, restores and never deletes.                      *)
Ingest(u, page) ==
  LET new == EdgesOf(u, page) \ live IN
  /\ live' = live \cup new
  /\ gone' = gone \ new

(* sync_following, sync_followers: the home server has the last word on the *)
(* follows mine, unless it names none.                                     *)
Stale(mine, page) == IF page = {} THEN {} ELSE (live \cap mine) \ page

Replace(mine, page) ==
  LET stale == Stale(mine, page) IN
  /\ live' = (live \ stale) \cup page
  /\ gone' = (gone \ page) \cup stale

(* From the home server or another one, whom a user follows, ...           *)
DiscoverFollowing(u) ==
  LET page == Following(graph, u) IN
  /\ ~Busy
  /\ rows[u] # "none"
  /\ rows' = Ensured(rows, page, "listed")
  /\ Replace({u} \X Users, EdgesOf(u, page)) \/ Ingest(u, page)
  /\ UNCHANGED <<graph, stubs, walk, before, ever>>

(* ... and who follows the user.                                           *)
DiscoverFollowers(u) ==
  LET fans == {e \in graph : e[2] = u} IN
  /\ ~Busy
  /\ rows[u] # "none"
  /\ rows' = Ensured(rows, {e[1] : e \in fans}, "listed")
  /\ Replace(Users \X {u}, fans) \/ Replace({}, fans)
  /\ UNCHANGED <<graph, stubs, walk, before, ever>>

WalkFrom(u) ==
  /\ ~Busy
  /\ rows[u] = "account"
  /\ walk' = [NoWalk EXCEPT !.on = TRUE, !.start = u, !.queue = << <<u, 0>> >>, !.seen = {u}]
  /\ before' = db
  /\ UNCHANGED <<graph, rows, live, gone, stubs, ever>>

Walking == Busy /\ walk.queue # <<>> /\ Cardinality(walk.visited) < MaxNodes

(* Mutant: one level too few.                                              *)
GoesOnShort(d) == d + 1 < Depth

GoesOn(d) == d < Depth

Queued(us, d) == {[i \in DOMAIN s |-> <<s[i], d>>] : s \in SetToSeqs(us)}

(* bfs_traverse takes one user from the queue and, short of the last level, *)
(* fetches whom it follows; the request for the articles of each may fail.  *)
Visit ==
  LET u == Head(walk.queue)[1]
      d == Head(walk.queue)[2]
      here == [walk EXCEPT !.queue = Tail(@), !.visited = @ \cup {u}]
      page == Following(graph, u)
  IN
  /\ Walking
  /\ \/ /\ GoesOn(d)
        /\ Ingest(u, page)
        /\ \/ Discover(page)
           \/ rows' = Ensured(rows, page, "listed") /\ UNCHANGED stubs
        /\ \E more \in Queued(page \ walk.seen, d + 1) :
             walk' = [here EXCEPT !.queue = @ \o more, !.seen = @ \cup page]
     \/ /\ GoesOn(d)          \* fetch_failed
        /\ walk' = [here EXCEPT !.missed = TRUE]
        /\ UNCHANGED db
     \/ /\ ~GoesOn(d)
        /\ walk' = here
        /\ UNCHANGED db
  /\ UNCHANGED <<graph, before, ever>>

Commit ==
  /\ Busy /\ ~Walking
  /\ walk' = NoWalk
  /\ before' = <<>>
  /\ UNCHANGED <<graph, rows, live, gone, stubs, ever>>

(* The process ends, or an error ends the command, and all is undone.      *)
Abort ==
  /\ Busy
  /\ rows' = before[1] /\ live' = before[2] /\ gone' = before[3] /\ stubs' = before[4]
  /\ walk' = NoWalk
  /\ before' = <<>>
  /\ UNCHANGED <<graph, ever>>

Next ==
  \/ \E e \in Edges : Move(e) \/ Follow(e) \/ Unfollow(e)
  \/ \E u \in Owners : Account(u) \/ WalkFrom(u)
  \/ \E u \in Users : DiscoverFollowing(u) \/ DiscoverFollowers(u)
  \/ School
  \/ Visit
  \/ Commit
  \/ Abort

Spec == Init /\ [][Next]_vars

-----------------------------------------------------------------------------
TypeOK ==
  /\ graph \subseteq Edges /\ ever \subseteq Edges
  /\ rows \in [Users -> Row]
  /\ live \subseteq Users \X Users /\ gone \subseteq Users \X Users
  /\ stubs \subseteq Articles
  /\ walk.seen \subseteq Users /\ walk.visited \subseteq walk.seen \cup {walk.start}

(* Users within so many follows of the start.                              *)
Within[n \in Nat] ==
  IF n = 0 THEN {walk.start}
  ELSE Within[n - 1] \cup UNION {Following(graph, u) : u \in Within[n - 1]}

(* A walk that nothing disturbed ends with the users within Depth follows   *)
(* of its start, or with MaxNodes of them, and with every follow that leads *)
(* out of those that are nearer (bfs_traverse, _bfs_walk).                  *)
WalkIsComplete ==
  Busy /\ ~Walking /\ ~walk.missed /\ ~walk.moved =>
    /\ walk.visited \subseteq Within[Depth]
    /\ walk.visited = Within[Depth] \/ Cardinality(walk.visited) = MaxNodes
    /\ walk.visited = Within[Depth] /\ Depth > 0 =>
         \A u \in Within[Depth - 1] : EdgesOf(u, Following(graph, u)) \subseteq live

(* No follow is on the device that nobody has made, in either direction,    *)
(* and no pair has two rows.                                               *)
NothingInvented == live \cup gone \subseteq ever /\ live \cap gone = {}
=============================================================================
