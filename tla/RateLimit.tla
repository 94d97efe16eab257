------------------------------- MODULE RateLimit -------------------------------
(***************************************************************************)
(* The limiter in front of the server: the hits of each address within a   *)
(* sliding window are kept in memory, and a request is served while they    *)
(* are at most MaxRequests.  A refused request is a hit as well.           *)
(*                                                                         *)
(* The list of times in a bucket is the set of the requests it stands for,  *)
(* each known by its place among those of its address.                     *)
(***************************************************************************)
EXTENDS Integers, Sequences, FiniteSets

CONSTANTS Addresses, MaxRequests, Window, MaxTime, MaxAsked

(* Assumed of the constants where the module is instantiated.  MaxTime and *)
(* MaxAsked, the requests of an address in a tick, only bound the runs.    *)
LimitParams == {MaxRequests, Window, MaxTime, MaxAsked} \subseteq Nat \ {0}

VARIABLES
  now,     \* the monotonic clock of the server
  bucket,  \* [Addresses -> the requests whose times are kept]
  asked,   \* [Addresses -> the times of all requests since the last restart]
  served   \* [Addresses -> the requests that were let through]

vars == <<now, bucket, asked, served>>

Times == 0 .. MaxTime
Nothing == [a \in Addresses |-> {}]

Init ==
  /\ now = 0
  /\ bucket = Nothing
  /\ asked = [a \in Addresses |-> <<>>]
  /\ served = Nothing

Fresh(t) == now - t < Window

(* Mutant: the hits at the edge of the window are thrown away early.       *)
Younger(t) == now - t < Window - 1

Request(a) == Len(asked[a]) + 1
Hit(a) == {i \in bucket[a] : Fresh(asked[a][i])} \cup {Request(a)}

(* Mutant: a client may go one over the limit.                             *)
OneOver(hits) == Cardinality(hits) <= MaxRequests + 1

Allowed(hits) == Cardinality(hits) <= MaxRequests

Ask(a) ==
  /\ Cardinality({i \in DOMAIN asked[a] : asked[a][i] = now}) < MaxAsked
  /\ bucket' = [bucket EXCEPT ![a] = Hit(a)]
  /\ asked' = [asked EXCEPT ![a] = Append(@, now)]
  /\ served' = IF Allowed(Hit(a)) THEN [served EXCEPT ![a] = @ \cup {Request(a)}] ELSE served
  /\ UNCHANGED now

Tick ==
  /\ now < MaxTime
  /\ now' = now + 1
  /\ UNCHANGED <<bucket, asked, served>>

(* The buckets are in memory only.                                         *)
Restart ==
  /\ bucket' = Nothing
  /\ asked' = [a \in Addresses |-> <<>>]
  /\ served' = Nothing
  /\ UNCHANGED now

Next == Tick \/ Restart \/ \E a \in Addresses : Ask(a)

Spec == Init /\ [][Next]_vars

-----------------------------------------------------------------------------
TypeOK ==
  /\ now \in Times
  /\ asked \in [Addresses -> Seq(Times)]
  /\ bucket \in [Addresses -> SUBSET Nat] /\ served \in [Addresses -> SUBSET Nat]
  /\ \A a \in Addresses : bucket[a] \cup served[a] \subseteq DOMAIN asked[a]

InWindow(a, requests, t) == {i \in requests : asked[a][i] <= t /\ t - asked[a][i] < Window}

(* Between two restarts no window holds more than MaxRequests requests that were    *)
(* let through, and an address that never asked for more than that in a      *)
(* window was never refused (RateLimitMiddleware.dispatch).                *)
LimitIsExact ==
  \A a \in Addresses :
    /\ \A t \in Times : Cardinality(InWindow(a, served[a], t)) <= MaxRequests
    /\ (\A t \in Times : Cardinality(InWindow(a, DOMAIN asked[a], t)) <= MaxRequests)
         => served[a] = DOMAIN asked[a]
=============================================================================
