------------------------- MODULE ArticleLocks_proofs -------------------------
(***************************************************************************)
(* While the table has room for every article in use, the lock of an        *)
(* article is the same for all threads, and no message is lost.  For any    *)
(* threads, articles and locks.                                            *)
(***************************************************************************)
EXTENDS Parts, FiniteSetTheorems, TLAPS

(* There are at most as many articles as the table holds: 1000 in the code. *)
Roomy == Cardinality(Viewed) <= MaxLocks

(* A thread on its way in has the lock that the table names for its         *)
(* article, no two articles share one, and who is inside holds it.          *)
LockInv ==
  /\ Lk!TypeOK
  /\ \A t \in Threads : lkPc[t] # "idle" =>
       /\ lkArticle[t] \in Viewed
       /\ lkLock[t] \in Locks
       /\ lkTable[lkArticle[t]] = lkLock[t]
  /\ \A a, b \in Viewed : a # b /\ lkTable[a] # Null => lkTable[a] # lkTable[b]
  /\ \A t \in Threads : Lk!Inside(t) => lkHolder[lkLock[t]] = t

(* Who has counted the files has counted all of them.                      *)
LockCountInv == \A t \in Threads : lkPc[t] = "counted" => lkSeen[t] = lkSent[lkArticle[t]]

LEMMA LockCardinality ==
  ASSUME NEW S
  PROVE  Lk!Cardinality(S) = Cardinality(S) /\ (Lk!IsFiniteSet(S) <=> IsFiniteSet(S))
  BY DEF Lk!Cardinality, Cardinality, Lk!IsFiniteSet, IsFiniteSet

-----------------------------------------------------------------------------
(* The types need no room: whoever writes has an article, whose files can    *)
(* be counted.                                                             *)
LockTyped ==
  /\ Lk!TypeOK
  /\ \A t \in Threads : lkPc[t] # "idle" => lkArticle[t] \in Viewed
  /\ \A a \in Viewed : IsFiniteSet(lkFiles[a])

LEMMA LockTypedInit == Lk!LockParams /\ Lk!Init => LockTyped
  BY FS_EmptySet DEF Lk!LockParams, Lk!Init, LockTyped, Lk!TypeOK

LEMMA LockTypedStep == ASSUME Lk!LockParams, LockTyped, [Lk!Next]_(Lk!vars) PROVE LockTyped'
<1>1. ASSUME NEW t \in Threads, NEW a \in Viewed, Lk!Get(t, a) PROVE LockTyped'
  <2>1. /\ lkPc' = [lkPc EXCEPT ![t] = "got"]
        /\ lkArticle' = [lkArticle EXCEPT ![t] = a]
        /\ UNCHANGED <<lkHolder, lkSeen, lkFiles, lkSent>>
    BY <1>1 DEF Lk!Get, Lk!Move, Lk!disk
  <2>2. ASSUME NEW l \in Locks, NEW tab \in [Viewed -> Locks \cup {Null}], NEW ord
        PROVE  Lk!Evicted(tab, ord) \in [Viewed -> Locks \cup {Null}]
    BY DEF Lk!Evicted, Lk!Forget
  <2>3. lkLock' \in [Threads -> Locks \cup {Null}] /\ lkTable' \in [Viewed -> Locks \cup {Null}]
    <3>1. CASE lkLock' = [lkLock EXCEPT ![t] = lkTable[a]] /\ UNCHANGED lkTable
      BY <3>1 DEF LockTyped, Lk!TypeOK
    <3>2. ASSUME NEW l \in Locks, NEW ord, lkLock' = [lkLock EXCEPT ![t] = l],
                 lkTable' = Lk!Evicted([lkTable EXCEPT ![a] = l], ord)
          PROVE  /\ lkLock' \in [Threads -> Locks \cup {Null}]
                 /\ lkTable' \in [Viewed -> Locks \cup {Null}]
      BY <2>2, <3>2 DEF LockTyped, Lk!TypeOK
    <3>. QED  BY <1>1, <3>1, <3>2 DEF Lk!Get
  <2>. QED  BY <2>1, <2>3 DEF LockTyped, Lk!TypeOK
<1>2. ASSUME NEW t \in Threads, Lk!Acquire(t) PROVE LockTyped'
  BY <1>2 DEF Lk!Acquire, Lk!Move, LockTyped, Lk!TypeOK, Lk!locals, Lk!disk
<1>3. ASSUME NEW t \in Threads, Lk!TimeOut(t) PROVE LockTyped'
  BY <1>3 DEF Lk!TimeOut, Lk!Move, LockTyped, Lk!TypeOK, Lk!disk
<1>4. ASSUME NEW t \in Threads, Lk!Count(t) PROVE LockTyped'
  <2>1. lkArticle[t] \in Viewed
    BY <1>4 DEF Lk!Count, Lk!Move, LockTyped
  <2>2. Lk!Cardinality(lkFiles[lkArticle[t]]) \in Nat
    BY <2>1, LockCardinality, FS_CardinalityType DEF LockTyped
  <2>. QED  BY <1>4, <2>2 DEF Lk!Count, Lk!Move, LockTyped, Lk!TypeOK, Lk!disk
<1>5. ASSUME NEW t \in Threads, Lk!Write(t) PROVE LockTyped'
  <2>1. /\ lkPc[t] = "counted" /\ lkPc' = [lkPc EXCEPT ![t] = "written"]
        /\ lkFiles' = [lkFiles EXCEPT ![lkArticle[t]] = @ \cup {lkSeen[t] + 1}]
        /\ lkSent' = [lkSent EXCEPT ![lkArticle[t]] = @ + 1]
        /\ UNCHANGED <<lkTable, lkHolder, lkArticle, lkLock, lkSeen>>
    BY <1>5 DEF Lk!Write, Lk!Move, Lk!locals
  <2>2. lkArticle[t] \in Viewed /\ lkSeen[t] + 1 \in Nat /\ lkSent[lkArticle[t]] + 1 \in Nat
    BY <2>1 DEF LockTyped, Lk!TypeOK
  <2>3. IsFiniteSet(lkFiles[lkArticle[t]] \cup {lkSeen[t] + 1})
    BY <2>2, FS_AddElement DEF LockTyped
  <2>. QED  BY <2>1, <2>2, <2>3 DEF LockTyped, Lk!TypeOK
<1>6. ASSUME NEW t \in Threads, Lk!Release(t) PROVE LockTyped'
  BY <1>6 DEF Lk!Release, LockTyped, Lk!TypeOK, Lk!disk
<1>7. CASE UNCHANGED Lk!vars
  BY <1>7 DEF Lk!vars, LockTyped, Lk!TypeOK
<1>. QED  BY <1>1, <1>2, <1>3, <1>4, <1>5, <1>6, <1>7 DEF Lk!Next, Lk!Step

-----------------------------------------------------------------------------
(* With room for all articles nothing is forgotten.                        *)
LEMMA LockNothingEvicted ==
  ASSUME Lk!LockParams, Roomy, NEW tab, NEW ord
  PROVE  Lk!Evicted(tab, ord) = tab
<1>1. Lk!Known(tab) \subseteq Viewed /\ IsFiniteSet(Viewed)
  BY LockCardinality DEF Lk!LockParams, Lk!Known
<1>2. Cardinality(Lk!Known(tab)) <= Cardinality(Viewed)
  BY <1>1, FS_Subset
<1>3. /\ Cardinality(Lk!Known(tab)) \in Nat
      /\ Cardinality(Viewed) \in Nat
      /\ MaxLocks \in Nat
  BY <1>1, FS_Subset, FS_CardinalityType DEF Lk!LockParams
<1>4. ~Lk!TooMany(tab)
  BY <1>2, <1>3, LockCardinality DEF Lk!TooMany, Roomy
<1>. QED  BY <1>4 DEF Lk!Evicted

(* The locks exclude each other.                                           *)
LEMMA LockExclusion == Lk!LockParams /\ LockInv => Lk!MutualExclusion
  BY DEF Lk!LockParams, LockInv, Lk!TypeOK, Lk!MutualExclusion, Lk!Inside

LEMMA LockInitInv == Lk!LockParams /\ Lk!Init => LockInv
  BY DEF Lk!LockParams, Lk!Init, LockInv, Lk!TypeOK, Lk!Inside

(* The files can be counted: there are as many as messages.                *)
LEMMA LockFilesCounted ==
  ASSUME LockInv, Lk!NoMessageLost, NEW a \in Viewed
  PROVE  Lk!Cardinality(lkFiles[a]) = lkSent[a]
<1>1. lkFiles[a] = 1..lkSent[a] /\ lkSent[a] \in Nat
  BY DEF Lk!NoMessageLost, LockInv, Lk!TypeOK
<1>2. Cardinality(1..lkSent[a]) = IF 1 > lkSent[a] THEN 0 ELSE lkSent[a] - 1 + 1
  BY <1>1, FS_Interval
<1>. QED  BY <1>1, <1>2, LockCardinality

(* Every step keeps the discipline of the locks.                           *)
LEMMA LockStep ==
  ASSUME Lk!LockParams, Roomy, LockInv, Lk!NoMessageLost, [Lk!Next]_(Lk!vars)
  PROVE  LockInv'
<1>1. ASSUME NEW t \in Threads, NEW a \in Viewed, Lk!Get(t, a) PROVE LockInv'
  <2>1. /\ lkPc[t] = "idle" /\ lkPc' = [lkPc EXCEPT ![t] = "got"]
        /\ lkArticle' = [lkArticle EXCEPT ![t] = a]
        /\ UNCHANGED <<lkHolder, lkSeen, lkFiles, lkSent>>
    BY <1>1 DEF Lk!Get, Lk!Move, Lk!disk
  <2>2. CASE lkTable[a] # Null /\ lkLock' = [lkLock EXCEPT ![t] = lkTable[a]] /\ UNCHANGED lkTable
    BY <2>1, <2>2 DEF LockInv, Lk!TypeOK, Lk!Inside
  <2>3. ASSUME NEW l \in Locks \ Lk!InUse, lkTable[a] = Null,
               lkLock' = [lkLock EXCEPT ![t] = l], lkTable' = [lkTable EXCEPT ![a] = l]
        PROVE  LockInv'
    <3>1. /\ l # Null /\ l \in Locks
          /\ \A b \in Viewed : lkTable[b] # l
      BY <2>3 DEF Lk!LockParams, Lk!InUse
    <3>2. Lk!TypeOK'
      BY <2>1, <2>3, <3>1 DEF LockInv, Lk!TypeOK
    <3>3. \A v \in Threads : lkPc[v] # "idle" => lkArticle[v] # a
      BY <2>3 DEF Lk!LockParams, LockInv
    <3>4. \A v \in Threads : lkPc'[v] # "idle" =>
            /\ lkArticle'[v] \in Viewed
            /\ lkLock'[v] \in Locks
            /\ lkTable'[lkArticle'[v]] = lkLock'[v]
      BY <2>1, <2>3, <3>1, <3>3 DEF LockInv, Lk!TypeOK
    <3>5. \A b, c \in Viewed : b # c /\ lkTable'[b] # Null => lkTable'[b] # lkTable'[c]
      BY <2>3, <3>1 DEF LockInv, Lk!TypeOK
    <3>6. \A v \in Threads : Lk!Inside(v)' => lkHolder'[lkLock'[v]] = v
      BY <2>1, <2>3 DEF LockInv, Lk!TypeOK, Lk!Inside
    <3>. QED  BY <3>2, <3>4, <3>5, <3>6 DEF LockInv
  <2>. QED  BY <1>1, <2>2, <2>3, LockNothingEvicted DEF Lk!Get
<1>2. ASSUME NEW t \in Threads, Lk!Acquire(t) PROVE LockInv'
  BY <1>2 DEF Lk!LockParams, Lk!Acquire, Lk!Move, Lk!Free, LockInv, Lk!TypeOK, Lk!Inside, Lk!locals, Lk!disk
<1>3. ASSUME NEW t \in Threads, Lk!TimeOut(t) PROVE LockInv'
  BY <1>3 DEF Lk!TimeOut, Lk!Move, LockInv, Lk!TypeOK, Lk!Inside, Lk!disk
<1>4. ASSUME NEW t \in Threads, Lk!Count(t) PROVE LockInv'
  <2>1. lkArticle[t] \in Viewed
    BY <1>4 DEF Lk!Count, Lk!Move, LockInv
  <2>2. Lk!Cardinality(lkFiles[lkArticle[t]]) \in Nat
    BY <2>1, LockFilesCounted DEF LockInv, Lk!TypeOK
  <2>. QED  BY <1>4, <2>2 DEF Lk!Count, Lk!Move, LockInv, Lk!TypeOK, Lk!Inside, Lk!disk
<1>5. ASSUME NEW t \in Threads, Lk!Write(t) PROVE LockInv'
  <2>1. lkArticle[t] \in Viewed
    BY <1>5 DEF Lk!Write, Lk!Move, LockInv
  <2>2. lkSeen[t] + 1 \in Nat /\ lkSent[lkArticle[t]] + 1 \in Nat
    BY <2>1 DEF LockInv, Lk!TypeOK
  <2>3. Lk!TypeOK'
    BY <1>5, <2>1, <2>2 DEF Lk!Write, Lk!Move, LockInv, Lk!TypeOK, Lk!locals
  <2>. QED  BY <1>5, <2>3 DEF Lk!Write, Lk!Move, LockInv, Lk!TypeOK, Lk!Inside, Lk!locals
<1>6. ASSUME NEW t \in Threads, Lk!Release(t) PROVE LockInv'
  <2>1. \A v \in Threads \ {t} : Lk!Inside(v) => lkLock[v] # lkLock[t]
    BY <1>6 DEF Lk!Release, LockInv, Lk!Inside
  <2>. QED  BY <1>6, <2>1 DEF Lk!Release, LockInv, Lk!TypeOK, Lk!Inside, Lk!disk
<1>7. CASE UNCHANGED Lk!vars
  BY <1>7 DEF Lk!vars, LockInv, Lk!TypeOK, Lk!Inside
<1>. QED  BY <1>1, <1>2, <1>3, <1>4, <1>5, <1>6, <1>7 DEF Lk!Next, Lk!Step

(* A thread writes the next number, for nobody wrote since it counted.      *)
LEMMA LockFilesStep ==
  ASSUME Lk!LockParams, LockInv, LockCountInv, Lk!NoMessageLost, [Lk!Next]_(Lk!vars)
  PROVE  LockCountInv' /\ Lk!NoMessageLost'
<1>1. ASSUME NEW t \in Threads, NEW a \in Viewed, Lk!Get(t, a) PROVE LockCountInv' /\ Lk!NoMessageLost'
  BY <1>1 DEF Lk!Get, Lk!Move, Lk!disk, LockCountInv, Lk!NoMessageLost, LockInv, Lk!TypeOK
<1>2. ASSUME NEW t \in Threads, Lk!Acquire(t) PROVE LockCountInv' /\ Lk!NoMessageLost'
  BY <1>2 DEF Lk!Acquire, Lk!Move, Lk!disk, Lk!locals, LockCountInv, Lk!NoMessageLost, LockInv, Lk!TypeOK
<1>3. ASSUME NEW t \in Threads, Lk!TimeOut(t) PROVE LockCountInv' /\ Lk!NoMessageLost'
  BY <1>3 DEF Lk!TimeOut, Lk!Move, Lk!disk, LockCountInv, Lk!NoMessageLost, LockInv, Lk!TypeOK
<1>4. ASSUME NEW t \in Threads, Lk!Count(t) PROVE LockCountInv' /\ Lk!NoMessageLost'
  <2>1. Lk!Cardinality(lkFiles[lkArticle[t]]) = lkSent[lkArticle[t]]
    BY <1>4, LockFilesCounted DEF Lk!Count, Lk!Move, LockInv
  <2>. QED  BY <1>4, <2>1 DEF Lk!Count, Lk!Move, Lk!disk, LockCountInv, Lk!NoMessageLost, LockInv, Lk!TypeOK
<1>5. ASSUME NEW t \in Threads, Lk!Write(t) PROVE LockCountInv' /\ Lk!NoMessageLost'
  <2> DEFINE a == lkArticle[t]
  <2>1. /\ lkPc[t] = "counted" /\ lkPc' = [lkPc EXCEPT ![t] = "written"]
        /\ lkFiles' = [lkFiles EXCEPT ![a] = @ \cup {lkSeen[t] + 1}]
        /\ lkSent' = [lkSent EXCEPT ![a] = @ + 1]
        /\ UNCHANGED <<lkArticle, lkSeen>>
    BY <1>5 DEF Lk!Write, Lk!Move, Lk!locals
  <2>2. a \in Viewed /\ lkSent[a] \in Nat /\ lkSeen[t] = lkSent[a] /\ lkFiles[a] = 1..lkSent[a]
    BY <2>1 DEF LockInv, Lk!TypeOK, LockCountInv, Lk!NoMessageLost
  <2>3. \A v \in Threads \ {t} : lkPc[v] = "counted" => lkArticle[v] # a
    BY <2>1, LockExclusion DEF Lk!MutualExclusion, Lk!Inside
  <2>4. LockCountInv'
    BY <2>1, <2>2, <2>3 DEF LockCountInv, LockInv, Lk!TypeOK
  <2>5. (1..lkSent[a]) \cup {lkSent[a] + 1} = 1..(lkSent[a] + 1)
    BY <2>2
  <2>6. Lk!NoMessageLost'
    BY <2>1, <2>2, <2>5 DEF Lk!NoMessageLost, LockInv, Lk!TypeOK
  <2>. QED  BY <2>4, <2>6
<1>6. ASSUME NEW t \in Threads, Lk!Release(t) PROVE LockCountInv' /\ Lk!NoMessageLost'
  BY <1>6 DEF Lk!Release, Lk!disk, LockCountInv, Lk!NoMessageLost, LockInv, Lk!TypeOK
<1>7. CASE UNCHANGED Lk!vars
  BY <1>7 DEF Lk!vars, LockCountInv, Lk!NoMessageLost
<1>. QED  BY <1>1, <1>2, <1>3, <1>4, <1>5, <1>6, <1>7 DEF Lk!Next, Lk!Step

LEMMA LockInitFiles == Lk!Init => LockCountInv /\ Lk!NoMessageLost
<1>1. 1..0 = {}
  OBVIOUS
<1>. QED  BY <1>1 DEF Lk!Init, LockCountInv, Lk!NoMessageLost

-----------------------------------------------------------------------------
(* Behaviours of ArticleLocks, and what they are within those of the parts. *)
LEMMA LockAlone == Spec => Lk!Init /\ [][Lk!Next]_(Lk!vars)
<1>1. Init => Lk!Init
  BY DEF Init
<1>2. Next => Lk!Next \/ lkVars' = lkVars
  BY DEF Next
<1>3. vars' = vars => lkVars' = lkVars
  BY DEF vars
<1>4. lkVars' = lkVars => UNCHANGED Lk!vars
  BY DEF lkVars, Lk!vars
<1>5. [Next]_vars => [Lk!Next]_(Lk!vars)
  BY <1>2, <1>3, <1>4
<1>. QED  BY <1>1, <1>5, PTL DEF Spec

LEMMA LockAlways ==
  ASSUME Roomy
  PROVE  Lk!Init /\ [][Lk!Next]_(Lk!vars) => [](LockInv /\ Lk!NoMessageLost)
<1>1. Lk!LockParams
  BY PartParams DEF PartParams
<1>2. Lk!Init => LockInv /\ LockCountInv /\ Lk!NoMessageLost
  BY <1>1, LockInitInv, LockInitFiles
<1>3. LockInv /\ LockCountInv /\ Lk!NoMessageLost /\ [Lk!Next]_(Lk!vars)
        => (LockInv /\ LockCountInv /\ Lk!NoMessageLost)'
  BY <1>1, LockStep, LockFilesStep
<1>. QED  BY <1>2, <1>3, PTL

(* The types hold in every state, for any threads, articles and locks.      *)
THEOREM LockTypes == (Lk!Spec => []Lk!TypeOK) /\ (Spec => []Lk!TypeOK)
<1>1. Lk!LockParams
  BY PartParams DEF PartParams
<1>2. Lk!Init => LockTyped
  BY <1>1, LockTypedInit
<1>3. LockTyped /\ [Lk!Next]_(Lk!vars) => LockTyped'
  BY <1>1, LockTypedStep
<1>4. LockTyped => Lk!TypeOK
  BY DEF LockTyped
<1>. QED  BY <1>2, <1>3, <1>4, LockAlone, PTL DEF Lk!Spec

(* With room for every article in use, two threads are never inside for the *)
(* same article (get_article_lock, _TrackedLock).                           *)
THEOREM LocksExclude ==
  ASSUME Roomy
  PROVE  (Lk!Spec => []Lk!MutualExclusion) /\ (Spec => []MutualExclusion)
<1>1. LockInv => Lk!MutualExclusion /\ MutualExclusion
  BY PartParams, LockExclusion DEF PartParams, MutualExclusion
<1>. QED  BY <1>1, LockAlways, LockAlone, PTL DEF Lk!Spec

(* And no message overwrites another (_write_thread_message).               *)
THEOREM MessagesAreKept ==
  ASSUME Roomy
  PROVE  (Lk!Spec => []Lk!NoMessageLost) /\ (Spec => []NoMessageLost)
<1>1. Lk!NoMessageLost => NoMessageLost
  BY DEF NoMessageLost
<1>. QED  BY <1>1, LockAlways, LockAlone, PTL DEF Lk!Spec
=============================================================================
