----------------------------- MODULE ArticleLocks -----------------------------
(***************************************************************************)
(* Threads of one process that append messages to review threads, each     *)
(* under the lock of its article.  Locks live in a table that forgets the   *)
(* ones used least recently; a thread first looks its lock up and acquires  *)
(* it in a later step, so the table can forget a lock in between.           *)
(***************************************************************************)
EXTENDS Integers, FiniteSets, Sequences, SequencesExt

CONSTANTS
  Threads,
  Articles,
  Locks,        \* identities of lock objects; those nobody refers to are free
  NoLock, NoThread, NoArticle,
  MaxLocks,     \* _MAX_LOCKS
  MaxMessages   \* bound of the model: messages of one article

(* Assumed of the constants where the module is instantiated.               *)
LockParams ==
  /\ IsFiniteSet(Articles)
  /\ NoLock \notin Locks
  /\ NoThread \notin Threads
  /\ NoArticle \notin Articles
  /\ MaxLocks \in Nat /\ MaxMessages \in Nat

VARIABLES
  table,    \* [Articles -> Locks \cup {NoLock}]: _locks_dict
  order,    \* the locks by their last access, the oldest first
  holder,   \* [Locks -> Threads \cup {NoThread}]
  pc,       \* where a thread is in _write_thread_message
  article,  \* [Threads -> Articles \cup {NoArticle}]: the article it writes to
  lock,     \* [Threads -> Locks \cup {NoLock}]: the lock it was handed
  seen,     \* [Threads -> Nat]: how many files it counted
  files,    \* [Articles -> SUBSET Nat]: numbers of the thread files on disk
  sent      \* [Articles -> Nat]: messages that were written

vars == <<table, order, holder, pc, article, lock, seen, files, sent>>

locals == <<article, lock, seen>>
disk == <<files, sent>>

(* Mutant: acquiring does not wait for the holder.                         *)
AlwaysFree(l) == TRUE

Free(l) == holder[l] = NoThread

(* The access makes l the youngest.                                        *)
Touched(l) == Append(Remove(order, l), l)

Move(t, from, to) == pc[t] = from /\ pc' = [pc EXCEPT ![t] = to]

Init ==
  /\ table = [a \in Articles |-> NoLock]
  /\ order = <<>>
  /\ holder = [l \in Locks |-> NoThread]
  /\ pc = [t \in Threads |-> "idle"]
  /\ article = [t \in Threads |-> NoArticle]
  /\ lock = [t \in Threads |-> NoLock]
  /\ seen = [t \in Threads |-> 0]
  /\ files = [a \in Articles |-> {}]
  /\ sent = [a \in Articles |-> 0]

(* A tenth of the free locks goes, at least one.                           *)
EvictCount(n) == IF n \div 10 > 1 THEN n \div 10 ELSE 1

Known(tab) == {a \in Articles : tab[a] # NoLock}

(* Mutant: off by one.                                                     *)
Full(tab) == Cardinality(Known(tab)) >= MaxLocks

TooMany(tab) == Cardinality(Known(tab)) > MaxLocks

(* The oldest free locks of the table, the one just created possibly among  *)
(* them.                                                                   *)
Victims(tab, ord) ==
  LET candidates == SelectSeq(ord, LAMBDA l : Free(l) /\ \E a \in Articles : tab[a] = l)
      n == EvictCount(Len(candidates))
  IN  {candidates[i] : i \in {j \in 1..Len(candidates) : j <= n}}

Forget(tab, victims) == [a \in Articles |-> IF tab[a] \in victims THEN NoLock ELSE tab[a]]

Evicted(tab, ord) == IF TooMany(tab) THEN Forget(tab, Victims(tab, ord)) ELSE tab

InUse == {table[a] : a \in Articles} \cup {lock[t] : t \in Threads}

(* get_article_lock, one step under the guard of the table.  Eviction looks *)
(* at locks that are acquired without the guard; one acquired while the     *)
(* eviction runs is one acquired right after it.                            *)
Get(t, a) ==
  /\ sent[a] < MaxMessages
  /\ Move(t, "idle", "got")
  /\ article' = [article EXCEPT ![t] = a]
  /\ \/ /\ table[a] # NoLock
        /\ lock' = [lock EXCEPT ![t] = table[a]]
        /\ UNCHANGED <<table, order>>
     \/ /\ table[a] = NoLock
        /\ \E l \in Locks \ InUse :
             /\ lock' = [lock EXCEPT ![t] = l]
             /\ order' = Touched(l)
             /\ table' = Evicted([table EXCEPT ![a] = l], Touched(l))
  /\ UNCHANGED <<holder, seen, disk>>

Acquire(t) ==
  /\ Move(t, "got", "holding")
  /\ Free(lock[t])
  /\ holder' = [holder EXCEPT ![lock[t]] = t]
  /\ order' = Touched(lock[t])
  /\ UNCHANGED <<table, locals, disk>>

(* The lock was held for ten seconds: the command fails.                   *)
TimeOut(t) ==
  /\ Move(t, "got", "idle")
  /\ ~Free(lock[t])
  /\ article' = [article EXCEPT ![t] = NoArticle]
  /\ lock' = [lock EXCEPT ![t] = NoLock]
  /\ UNCHANGED <<table, order, holder, seen, disk>>

Count(t) ==
  /\ Move(t, "holding", "counted")
  /\ seen' = [seen EXCEPT ![t] = Cardinality(files[article[t]])]
  /\ UNCHANGED <<table, order, holder, article, lock, disk>>

(* The message goes to the next number and replaces a file of that name.    *)
Write(t) ==
  LET a == article[t] IN
  /\ Move(t, "counted", "written")
  /\ files' = [files EXCEPT ![a] = @ \cup {seen[t] + 1}]
  /\ sent' = [sent EXCEPT ![a] = @ + 1]
  /\ UNCHANGED <<table, order, holder, locals>>

(* The release after the commit, or after an error before the write.        *)
Release(t) ==
  /\ pc[t] \in {"holding", "counted", "written"}
  /\ pc' = [pc EXCEPT ![t] = "idle"]
  /\ holder' = [holder EXCEPT ![lock[t]] = NoThread]
  /\ order' = Touched(lock[t])
  /\ article' = [article EXCEPT ![t] = NoArticle]
  /\ lock' = [lock EXCEPT ![t] = NoLock]
  /\ seen' = [seen EXCEPT ![t] = 0]
  /\ UNCHANGED <<table, disk>>

Step(t) ==
  \/ \E a \in Articles : Get(t, a)
  \/ Acquire(t)
  \/ TimeOut(t)
  \/ Count(t)
  \/ Write(t)
  \/ Release(t)

Next == \E t \in Threads : Step(t)

Spec == Init /\ [][Next]_vars

-----------------------------------------------------------------------------
Inside(t) == pc[t] \in {"holding", "counted", "written"}

TypeOK ==
  /\ table \in [Articles -> Locks \cup {NoLock}]
  /\ holder \in [Locks -> Threads \cup {NoThread}]
  /\ pc \in [Threads -> {"idle", "got", "holding", "counted", "written"}]
  /\ article \in [Threads -> Articles \cup {NoArticle}]
  /\ lock \in [Threads -> Locks \cup {NoLock}]
  /\ seen \in [Threads -> Nat]
  /\ files \in [Articles -> SUBSET Nat]
  /\ sent \in [Articles -> Nat]

(* Two threads are never inside for the same article.  It holds as long as  *)
(* the table has room for all articles in use: a third thread that pushes   *)
(* the lock of a first one out of the table lets a second one get another.  *)
MutualExclusion ==
  \A t, v \in Threads : t # v /\ Inside(t) /\ Inside(v) => article[t] # article[v]

(* No message overwrites another, under the same condition: the files are   *)
(* numbered without a gap, and there are as many as messages were written.  *)
NoMessageLost == \A a \in Articles : files[a] = 1..sent[a]
=============================================================================
