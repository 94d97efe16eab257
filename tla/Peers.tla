-------------------------------- MODULE Peers ---------------------------------
(***************************************************************************)
(* The peers a device knows.  One file holds their addresses and how often  *)
(* each has failed; every process keeps the failures in memory as well and  *)
(* reads them from the file once.  A write truncates the file first: a      *)
(* reader in between, or after a crash, finds the seed peers only.          *)
(*                                                                         *)
(* Ages are times since a failure, up to the longest delay.                *)
(***************************************************************************)
EXTENDS Integers, SequencesExt, Lists

CONSTANTS
  Procs,     \* processes of the device
  Syncers,   \* those that visit peers; a server only registers them
  Urls,
  Seeds,     \* params.discovery.seed_peers, in their order
  MaxKnown,  \* params.discovery.max_known_peers
  MaxCount   \* failures that lengthen the delay; the code counts to 5

Delay(count) == 2^(count - 1)

(* Assumed of the constants where the module is instantiated.  That powers  *)
(* are numbers, and grow, are facts of arithmetic that the provers do not   *)
(* know.                                                                   *)
PeerParams ==
  /\ Syncers \subseteq Procs
  /\ Seeds \in Seq(Urls)
  /\ MaxKnown \in Nat \ {0} /\ MaxCount \in Nat \ {0}
  /\ \A count \in 1..MaxCount : Delay(count) \in Nat
  /\ \A count, more \in 1..MaxCount : count <= more => Delay(count) <= Delay(more)

VARIABLES
  file,    \* Seq of [url, count, age]
  torn,    \* the file is being written
  mem,     \* [Syncers -> [Urls -> failures]]: _backoff
  loaded,  \* processes that have read the failures from the file
  output,  \* [Procs -> what a process is about to write], <<>> if nothing
  todo,    \* [Syncers -> Seq(Urls)]: peers still to visit in sync_all_peers
  own      \* [Syncers -> [Urls -> failures]]: what the process has met itself

vars == <<file, torn, mem, loaded, output, todo, own>>

MaxAge == Delay(MaxCount)

Never == [count |-> 0, age |-> MaxAge]
Failures == [count : 0..MaxCount, age : 0..MaxAge]
Entry == [url : Urls, count : 0..MaxCount, age : 0..MaxAge]

Listed(u, f) == [url |-> u, count |-> f.count, age |-> f.age]
SeedList == [i \in DOMAIN Seeds |-> Listed(Seeds[i], Never)]

UrlsOf(list) == {list[i].url : i \in DOMAIN list}
IsSeed(u) == u \in ToSet(Seeds)

-----------------------------------------------------------------------------
(* _load_peers_raw.                                                         *)
Raw == IF torn THEN SeedList ELSE file

Capped(list) == SubSeq(list, 1, IF Len(list) > MaxKnown THEN MaxKnown ELSE Len(list))

(* _hydrate_backoff, on first access.                                      *)
Hydrated(p) ==
  IF p \in loaded \/ torn THEN mem[p]
  ELSE [u \in Urls |->
         IF \E i \in DOMAIN file : file[i].url = u /\ file[i].count > 0
           THEN LET e == file[CHOOSE i \in DOMAIN file : file[i].url = u /\ file[i].count > 0]
                IN  [count |-> e.count, age |-> e.age]
           ELSE mem[p][u]]

InBackoff(f) == f.count > 0 /\ f.age < Delay(f.count)

WithSeeds(urls) == urls \o Kept(Seeds, {i \in DOMAIN Seeds : Seeds[i] \notin ToSet(urls)})

(* get_known_peers: each once; seeds come back at the end whatever they did. *)
Known(backoff) ==
  LET all == [i \in DOMAIN Raw |-> Raw[i].url]
      firsts == {i \in DOMAIN all : \A j \in 1 .. i - 1 : all[j] # all[i]}
  IN  WithSeeds(Kept(all, {i \in firsts : ~InBackoff(backoff[all[i]])}))

(* Everything a peer in backoff was known by is left out.                  *)
Persisted(backoff) ==
  LET known == Known(backoff)
  IN  Capped([i \in DOMAIN known |-> Listed(known[i], backoff[known[i]])])

WithPeer(u) == IF u \in UrlsOf(Raw) THEN Raw ELSE Capped(<<Listed(u, Never)>> \o Raw)

-----------------------------------------------------------------------------
Writing(p) == output[p] # <<>>

Init ==
  /\ file = SeedList
  /\ torn = FALSE
  /\ mem = [p \in Syncers |-> [u \in Urls |-> Never]]
  /\ loaded = {}
  /\ output = [p \in Procs |-> <<>>]
  /\ todo = [p \in Syncers |-> <<>>]
  /\ own = [p \in Syncers |-> [u \in Urls |-> Never]]

(* add_peer: by a registration, or for each new address of another peer.   *)
AddPeer(p, u) ==
  /\ ~Writing(p)
  /\ WithPeer(u) # Raw
  /\ output' = [output EXCEPT ![p] = WithPeer(u)]
  /\ torn' = TRUE
  /\ UNCHANGED <<file, mem, loaded, todo, own>>

FinishWrite(p) ==
  /\ Writing(p)
  /\ file' = output[p]
  /\ torn' = FALSE
  /\ output' = [output EXCEPT ![p] = <<>>]
  /\ UNCHANGED <<mem, loaded, todo, own>>

(* sync_all_peers visits the peers that are known when it begins.          *)
BeginRound(p) ==
  /\ ~Writing(p)
  /\ todo[p] = <<>>
  /\ todo' = [todo EXCEPT ![p] = Known(Hydrated(p))]
  /\ mem' = [mem EXCEPT ![p] = Hydrated(p)]
  /\ loaded' = loaded \cup {p}
  /\ UNCHANGED <<file, torn, output, own>>

(* Mutant: the time of the first failure stays.                            *)
FailedAtFirst(f) ==
  [count |-> IF f.count < MaxCount THEN f.count + 1 ELSE MaxCount,
   age |-> IF f.count = 0 THEN 0 ELSE f.age]

Failed(f) == [count |-> IF f.count < MaxCount THEN f.count + 1 ELSE MaxCount, age |-> 0]

Record(p, u, backoff) ==
  /\ mem' = [mem EXCEPT ![p] = backoff]
  /\ output' = [output EXCEPT ![p] = Persisted(backoff)]
  /\ torn' = TRUE

(* Offline, clocks too far apart, or an error of the sync.                 *)
VisitFails(p) ==
  /\ ~Writing(p) /\ todo[p] # <<>>
  /\ LET u == Head(todo[p])
         fails == own[p][u].count
     IN  /\ Record(p, u, [mem[p] EXCEPT ![u] = Failed(@)])
         /\ own' = [own EXCEPT ![p][u] =
                      [count |-> IF fails < MaxCount THEN fails + 1 ELSE fails, age |-> 0]]
  /\ todo' = [todo EXCEPT ![p] = Tail(@)]
  /\ UNCHANGED <<file, loaded>>

VisitSucceeds(p) ==
  /\ ~Writing(p) /\ todo[p] # <<>>
  /\ LET u == Head(todo[p]) IN
       /\ IF mem[p][u].count > 0
            THEN Record(p, u, [mem[p] EXCEPT ![u] = Never])
            ELSE UNCHANGED <<mem, output, torn>>
       /\ own' = [own EXCEPT ![p][u] = Never]
  /\ todo' = [todo EXCEPT ![p] = Tail(@)]
  /\ UNCHANGED <<file, loaded>>

(* The process dies in the middle of a write.                              *)
WriteLost(p) ==
  /\ Writing(p)
  /\ output' = [output EXCEPT ![p] = <<>>]
  /\ UNCHANGED <<file, torn, mem, loaded, todo, own>>

(* A process ends and another one starts.                                  *)
Restart(p) ==
  /\ p \in loaded /\ ~Writing(p)
  /\ mem' = [mem EXCEPT ![p] = [u \in Urls |-> Never]]
  /\ loaded' = loaded \ {p}
  /\ todo' = [todo EXCEPT ![p] = <<>>]
  /\ own' = [own EXCEPT ![p] = [u \in Urls |-> Never]]
  /\ UNCHANGED <<file, torn, output>>

Older(f) == IF f.count > 0 /\ f.age < MaxAge THEN [f EXCEPT !.age = @ + 1] ELSE f

(* A write takes no time that counts.                                      *)
Tick ==
  /\ \A p \in Procs : ~Writing(p)
  /\ file' = [i \in DOMAIN file |-> Older(file[i])]
  /\ mem' = [p \in Syncers |-> [u \in Urls |-> Older(mem[p][u])]]
  /\ own' = [p \in Syncers |-> [u \in Urls |-> Older(own[p][u])]]
  /\ UNCHANGED <<torn, loaded, output, todo>>

Visit(p) == BeginRound(p) \/ VisitFails(p) \/ VisitSucceeds(p)

Next ==
  \/ \E p \in Procs : FinishWrite(p) \/ WriteLost(p)
  \/ \E p \in Procs, u \in Urls : AddPeer(p, u)
  \/ \E p \in Syncers : Visit(p) \/ Restart(p)
  \/ Tick

Spec == Init /\ [][Next]_vars

-----------------------------------------------------------------------------
TypeOK ==
  /\ file \in Seq(Entry) /\ (Len(file) <= MaxKnown \/ file = SeedList)
  /\ torn \in BOOLEAN
  /\ mem \in [Syncers -> [Urls -> Failures]]
  /\ loaded \subseteq Syncers
  /\ output \in [Procs -> Seq(Entry)]
  /\ todo \in [Syncers -> Seq(Urls)]
  /\ own \in [Syncers -> [Urls -> Failures]]

(* No peer that a process is about to visit, the seeds excepted, failed it   *)
(* less than a delay ago, the longer the more often in a row: whatever the  *)
(* file said when it was read and whoever has rewritten or torn it since,   *)
(* and however long the round takes (_peer_failed, get_known_peers).       *)
BacksOff ==
  \A p \in Syncers : \A i \in DOMAIN todo[p] :
    LET u == todo[p][i] IN
      IsSeed(u) \/ own[p][u].count = 0 \/ own[p][u].age >= Delay(own[p][u].count)
=============================================================================
