------------------------------ MODULE HealthCache -----------------------------
(***************************************************************************)
(* Is a server reachable?  The answer of a probe, with the clock of the     *)
(* server, is kept in the memory of the process and in a file that the      *)
(* processes of a device share.  A write of the file reads it, changes one entry and       *)
(* replaces it; the writes of two processes may overlap.                   *)
(*                                                                         *)
(* Times are ages, in steps, up to Old, which is more than any entry lives. *)
(***************************************************************************)
EXTENDS Integers, FiniteSets

CONSTANTS
  Procs,
  Servers,
  Serves,   \* servers that answer under the path that is asked for
  TTL,      \* HEALTH_CACHE_SECONDS, in steps; the jitter takes off up to one of them
  MaxKept   \* _MAX_CACHE_ENTRIES of the file

(* Assumed of the constants where the module is instantiated.               *)
HealthParams ==
  /\ Serves \subseteq Servers
  /\ TTL \in Nat \ {0} /\ MaxKept \in Nat \ {0}

VARIABLES
  up,        \* servers that are up and healthy
  wasUp,     \* [Servers -> Ages]: since the server was last up
  wasDown,   \* [Servers -> Ages]: since it was last down
  memory,    \* [Procs -> [Servers -> entry]]: _cache
  file,      \* [Servers -> entry]: server_health.json
  replacing  \* [Procs -> the file as it is about to be written, or NoWrite]

vars == <<up, wasUp, wasDown, memory, file, replacing>>

Old == TTL + 1
Ages == 0..Old

Absent == [age |-> Old, online |-> FALSE]
Entry == [age : Ages, online : BOOLEAN]
Store == [Servers -> Entry]
Empty == [s \in Servers |-> Absent]
NoWrite == <<>>

Kept(store) == {s \in Servers : store[s] # Absent}

-----------------------------------------------------------------------------
(* _lookup_cache.  The jitter decides about an entry that is both fresh and *)
(* stale.                                                                  *)
Fresh(e) == e # Absent /\ e.age < TTL
Stale(e) == e = Absent \/ e.age >= TTL - 1

(* _prune_cache keeps the latest.                                          *)
Pruned(store) ==
  IF Cardinality(Kept(store)) <= MaxKept THEN {store}
  ELSE {[store EXCEPT ![s] = Absent] :
          s \in {o \in Kept(store) : \A t \in Kept(store) : store[t].age <= store[o].age}}

Init ==
  /\ up \in SUBSET Servers
  /\ wasUp = [s \in Servers |-> IF s \in up THEN 0 ELSE Old]
  /\ wasDown = [s \in Servers |-> IF s \in up THEN Old ELSE 0]
  /\ memory = [p \in Procs |-> Empty]
  /\ file = Empty
  /\ replacing = [p \in Procs |-> NoWrite]

Free(p) == replacing[p] = NoWrite

(* Mutant: an entry of the file counts as new in memory.                   *)
CopiedAnew(e) == [e EXCEPT !.age = 0]

Copied(e) == e

(* An answer from memory changes nothing; one from the file is copied.     *)
AskFile(p, s) ==
  /\ Free(p)
  /\ Stale(memory[p][s])
  /\ Fresh(file[s])
  /\ memory' = [memory EXCEPT ![p][s] = Copied(file[s])]
  /\ UNCHANGED <<up, wasUp, wasDown, file, replacing>>

(* A server that is down or degraded is offline, and so is one that answers *)
(* 404.                                                                    *)
Probe(p, s) ==
  LET e == [age |-> 0, online |-> s \in up \cap Serves] IN
  /\ Free(p)
  /\ Stale(memory[p][s]) /\ Stale(file[s])
  /\ memory' = [memory EXCEPT ![p][s] = e]
  /\ \E store \in Pruned([file EXCEPT ![s] = e]) : replacing' = [replacing EXCEPT ![p] = store]
  /\ UNCHANGED <<up, wasUp, wasDown, file>>

Replace(p) ==
  /\ ~Free(p)
  /\ file' = replacing[p]
  /\ replacing' = [replacing EXCEPT ![p] = NoWrite]
  /\ UNCHANGED <<up, wasUp, wasDown, memory>>

(* The process ends, perhaps before the file is replaced.                  *)
Exit(p) ==
  /\ memory[p] # Empty \/ ~Free(p)
  /\ memory' = [memory EXCEPT ![p] = Empty]
  /\ replacing' = [replacing EXCEPT ![p] = NoWrite]
  /\ UNCHANGED <<up, wasUp, wasDown, file>>

Flip(s) ==
  /\ up' = IF s \in up THEN up \ {s} ELSE up \cup {s}
  /\ wasUp' = [wasUp EXCEPT ![s] = 0]
  /\ wasDown' = [wasDown EXCEPT ![s] = 0]
  /\ UNCHANGED <<memory, file, replacing>>

Aged(a) == IF a < Old THEN a + 1 ELSE Old

Later(store) ==
  [s \in Servers |-> IF Aged(store[s].age) = Old THEN Absent
                     ELSE [store[s] EXCEPT !.age = Aged(@)]]

Tick ==
  /\ wasUp' = [s \in Servers |-> IF s \in up THEN 0 ELSE Aged(wasUp[s])]
  /\ wasDown' = [s \in Servers |-> IF s \in up THEN Aged(wasDown[s]) ELSE 0]
  /\ memory' = [p \in Procs |-> Later(memory[p])]
  /\ file' = Later(file)
  /\ replacing' = [p \in Procs |-> IF Free(p) THEN NoWrite ELSE Later(replacing[p])]
  /\ UNCHANGED up

Next ==
  \/ \E p \in Procs : \/ \E s \in Servers : AskFile(p, s) \/ Probe(p, s)
                      \/ Replace(p)
                      \/ Exit(p)
  \/ \E s \in Serves : Flip(s)    \* nobody sees the others come and go
  \/ Tick

Spec == Init /\ [][Next]_vars

-----------------------------------------------------------------------------
TypeOK ==
  /\ up \subseteq Servers
  /\ wasUp \in [Servers -> Ages] /\ wasDown \in [Servers -> Ages]
  /\ memory \in [Procs -> Store] /\ file \in Store
  /\ replacing \in [Procs -> Store \cup {NoWrite}]

Entries(s) == {file[s]} \cup {memory[p][s] : p \in Procs}

(* Every answer was true at some time within the life of an entry, through *)
(* two caches and whatever the writes of other processes undo.             *)
AnswersAreRecent ==
  \A s \in Servers : \A e \in Entries(s) :
    Fresh(e) =>
      /\ e.online => wasUp[s] < TTL
      /\ ~e.online /\ s \in Serves => wasDown[s] < TTL
=============================================================================
