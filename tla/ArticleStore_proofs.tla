------------------------- MODULE ArticleStore_proofs -------------------------
(***************************************************************************)
(* What ArticleStore keeps, for any number of processes.                   *)
(*                                                                         *)
(* GitFirst and CleanAgrees say nothing of a command that is halfway, so    *)
(* neither is inductive.  StoreInv adds, for each step of each command, what *)
(* its commits have already made true and what its next store will make of *)
(* the row: Shape ties the steps to the lock of the database, First follows *)
(* GitFirst through the transaction that holds it, Between follows          *)
(* CleanAgrees through the one command that runs while all is clean.        *)
(***************************************************************************)
EXTENDS ArticleStore, FiniteSetTheorems, WellFoundedInduction, TLAPS

Committed(commits, kind) == \E i \in DOMAIN commits : commits[i].kind = kind
Ids(commits) == {commits[i].id : i \in DOMAIN commits}

-----------------------------------------------------------------------------
(* The commands, the steps each goes through and the verdict it has.  Who    *)
(* has prepared a row holds the lock of the database.                      *)
CommandOK(w, p) ==
  \/ w = Idle
  \/ w.cmd = "create" /\ w.pc = "store" /\ w.verdict = "draft" /\ writer # p
  \/ w.cmd = "publish" /\ w.pc \in {"commit", "marker", "store"} /\ w.verdict = "sedimentation"
     /\ writer # p
  \/ w.cmd \in {"edit", "rollback"} /\ w.pc \in {"commit", "lock", "marker", "store"}
     /\ w.verdict = "sedimentation" /\ (w.pc \in {"marker", "store"} => writer = p)
  \/ w.cmd = "review" /\ w.pc \in {"commit", "store"} /\ w.verdict = "none" /\ writer # p
  \/ w.cmd = "delete" /\ w.pc \in {"lock", "remove", "store"} /\ w.verdict = "deleted"
     /\ (w.pc # "lock" => writer = p)
  \/ w.cmd = "scan" /\ w.pc \in {"marker", "store"} /\ w.verdict \in {"published", "rejected"}
     /\ writer # p
  \/ w.cmd = "scan" /\ w.pc = "store" /\ w.verdict = "extend" /\ writer # p
  \/ w.cmd = "pull" /\ w.pc \in {"reconcile", "scan", "store"} /\ w.verdict = "none"
     /\ (w.pc # "reconcile" => writer = p)

Shape ==
  /\ \A p \in Procs : CommandOK(work[p], p)
  /\ writer # Nobody => work[writer].pc \in {"marker", "remove", "store", "scan"}
  /\ made = 0 => log = <<>> /\ row = NoRow /\ \A p \in Procs : work[p] = Idle
  /\ \A p, q \in Procs : p # q /\ Busy(p) /\ Busy(q) => work[p].met
  /\ \A p \in Procs : work[p].pc = "reconcile" => work[p].base # <<>>

(* Commits hold what a row says.                                           *)
Backed(commits, r) ==
  /\ r.status \in Markers => Committed(commits, r.status)
  /\ r.approvals \subseteq Ids(commits)

(* They hold what the prepared row of p says, or will after p's next step.  *)
Coming(p) ==
  /\ pending.status \in Markers =>
       \/ Committed(log, pending.status)
       \/ work[p].pc = "marker" /\ work[p].verdict = pending.status
  /\ pending.approvals \subseteq Ids(log)

(* ... and what p is about to write over the row.                          *)
Written(p) ==
  work[p].pc = "store" =>
    /\ work[p].cmd \in {"publish", "scan"} /\ work[p].verdict \in Markers =>
         Committed(log, work[p].verdict)
    /\ work[p].cmd = "review" => work[p].commit \in Ids(log)

First ==
  ~dropped /\ log # <<>> =>
    /\ Backed(log, row)
    /\ writer # Nobody => Coming(writer)
    /\ \A p \in Procs : Written(p)
    /\ \A p \in Procs : work[p].pc = "reconcile" /\ ~work[p].met => Backed(work[p].base, row)

(* What CleanAgrees says of a history and a row.                           *)
Agree(commits, r) ==
  /\ r.status \in Markers \cup {"draft"} <=> commits # <<>>
  /\ r.status \in Markers \cup {"draft"} =>
       r.status = (IF Marker(commits) = "none" THEN "draft" ELSE Marker(commits))

(* How far the stores of a command that runs alone are from agreeing.       *)
Ends(p) ==
  /\ work[p].pc \in {"commit", "lock"} => Agree(log, row)
  /\ work[p].pc = "marker" => log # <<>> /\ NewRow(p).status = work[p].verdict
  /\ work[p].pc = "remove" => pending.status = "deleted"
  /\ work[p].pc = "store" => Agree(log, NewRow(p))
  /\ work[p].pc = "reconcile" => /\ Agree(work[p].base, row)
                                 /\ \E c \in Commits : log = Append(work[p].base, c)
  /\ work[p].pc = "scan" => Agree(log, pending)

Between ==
  clean =>
    /\ \A p, q \in Procs : Busy(p) /\ Busy(q) => p = q
    /\ (\A p \in Procs : ~Busy(p)) => Agree(log, row)
    /\ \A p \in Procs : Busy(p) => Ends(p)

StoreInv == TypeOK /\ Shape /\ First /\ Between

-----------------------------------------------------------------------------
LEMMA KindsAreStrings ==
  /\ "none" \notin Kinds /\ "none" \notin Markers /\ "draft" \notin Markers
  /\ Markers \subseteq Kinds /\ Markers \subseteq Statuses
  /\ "extend" \notin Markers /\ "deleted" \notin Markers /\ "absent" \notin Markers
  BY DEF Kinds, Markers, Statuses

(* Among finitely many places there is a last one.                         *)
LEMMA LastPlace ==
  ASSUME NEW n \in Nat, NEW S \in SUBSET (1 .. n), S # {}
  PROVE  Max(S) \in S /\ \A i \in S : i <= Max(S)
<1> DEFINE T == {n - i : i \in S}
<1>1. T \subseteq Nat
  OBVIOUS
<1>2. T # {}
  <2>1. PICK i \in S : TRUE
    OBVIOUS
  <2>2. n - i \in T
    BY <2>1
  <2>. QED  BY <2>2
<1>3. PICK x \in T : \A y \in T : ~(<<y, x>> \in OpToRel(<, Nat))
  <2>. HIDE DEF T
  <2>. QED  BY <1>1, <1>2, NatLessThanWellFounded, WFMin
<1>4. \A u, v \in Nat : u < v => <<u, v>> \in OpToRel(<, Nat)
  BY DEF OpToRel
<1>5. PICK m \in S : x = n - m
  OBVIOUS
<1>7. \A i \in S : m >= i
  <2>1. ASSUME NEW i \in S PROVE ~(n - i < x)
    <3>1. n - i \in T /\ n - i \in Nat /\ x \in Nat
      BY <1>1
    <3>. HIDE DEF T
    <3>. QED  BY <1>3, <1>4, <3>1
  <2>2. ASSUME NEW i \in S PROVE m >= i
    BY <1>5, <2>1, <2>2
  <2>. QED  BY <2>2
<1>6. Max(S) \in S /\ \A i \in S : Max(S) >= i
  BY <1>7 DEF Max
<1>. QED  BY <1>6

(* The latest marker of a history.                                         *)
LEMMA MarkerIsLatest ==
  ASSUME NEW s \in Seq(Commits)
  PROVE  \/ /\ Marker(s) = "none"
            /\ \A i \in 1 .. Len(s) : s[i].kind \notin Markers
         \/ \E i \in 1 .. Len(s) :
              /\ s[i].kind \in Markers /\ Marker(s) = s[i].kind
              /\ \A j \in 1 .. Len(s) : s[j].kind \in Markers => j <= i
<1> DEFINE marks == {i \in DOMAIN s : s[i].kind \in Markers}
<1>1. DOMAIN s = 1 .. Len(s) /\ Len(s) \in Nat
  OBVIOUS
<1>2. CASE marks = {}
  BY <1>1, <1>2 DEF Marker
<1>3. CASE marks # {}
  <2>1. marks \in SUBSET (1 .. Len(s))
    BY <1>1
  <2>2. Max(marks) \in marks /\ \A i \in marks : i <= Max(marks)
    BY <1>1, <1>3, <2>1, LastPlace
  <2>3. Marker(s) = s[Max(marks)].kind
    BY <1>3 DEF Marker
  <2>. QED  BY <1>1, <2>2, <2>3
<1>. QED  BY <1>2, <1>3

LEMMA MarkerOfAppend ==
  ASSUME NEW s \in Seq(Commits), NEW c \in Commits
  PROVE  /\ c.kind \in Markers => Marker(Append(s, c)) = c.kind
         /\ c.kind \notin Markers => Marker(Append(s, c)) = Marker(s)
<1> DEFINE t == Append(s, c)
<1>1. /\ t \in Seq(Commits) /\ Len(t) = Len(s) + 1 /\ t[Len(s) + 1] = c /\ Len(s) \in Nat
      /\ \A i \in 1 .. Len(s) : t[i] = s[i]
  OBVIOUS
<1>. HIDE DEF t
<1>2. CASE c.kind \in Markers
  <2>1. PICK i \in 1 .. Len(t) : /\ Marker(t) = t[i].kind
                                 /\ \A j \in 1 .. Len(t) : t[j].kind \in Markers => j <= i
    BY <1>1, <1>2, MarkerIsLatest
  <2>2. i = Len(s) + 1
    BY <1>1, <1>2, <2>1
  <2>. QED  BY <1>1, <1>2, <2>1, <2>2 DEF t
<1>3. CASE c.kind \notin Markers
  <2>1. \A i \in 1 .. Len(t) : t[i].kind \in Markers => i \in 1 .. Len(s)
    BY <1>1, <1>3
  <2>2. CASE \A i \in 1 .. Len(s) : s[i].kind \notin Markers
    <3>1. Marker(t) = "none"
      BY <1>1, <2>1, <2>2, MarkerIsLatest
    <3>2. Marker(s) = "none"
      BY <2>2, MarkerIsLatest
    <3>. QED  BY <1>3, <3>1, <3>2 DEF t
  <2>3. CASE \E i \in 1 .. Len(s) : s[i].kind \in Markers
    <3>1. PICK i \in 1 .. Len(s) : /\ s[i].kind \in Markers /\ Marker(s) = s[i].kind
                                   /\ \A j \in 1 .. Len(s) : s[j].kind \in Markers => j <= i
      BY <2>3, MarkerIsLatest
    <3>2. i \in 1 .. Len(t) /\ t[i].kind \in Markers
      BY <1>1, <3>1
    <3>3. PICK k \in 1 .. Len(t) : /\ t[k].kind \in Markers /\ Marker(t) = t[k].kind
                                   /\ \A j \in 1 .. Len(t) : t[j].kind \in Markers => j <= k
      BY <1>1, <3>2, MarkerIsLatest
    <3>4. k = i
      BY <1>1, <2>1, <3>1, <3>2, <3>3
    <3>. QED  BY <1>1, <1>3, <3>1, <3>3, <3>4 DEF t
  <2>. QED  BY <2>2, <2>3
<1>. QED  BY <1>2, <1>3

(* What the latest commits say is so, if they say anything.                 *)
LEMMA MarkerOfEnd ==
  ASSUME NEW s \in Seq(Commits), NEW a \in 1 .. Len(s)
  PROVE  /\ Marker(SubSeq(s, a, Len(s))) # "none" => Marker(s) = Marker(SubSeq(s, a, Len(s)))
         /\ Marker(SubSeq(s, a, Len(s))) = "none" => s[Len(s)].kind \notin Markers
<1> DEFINE t == SubSeq(s, a, Len(s))
<1>1. /\ t \in Seq(Commits) /\ Len(t) = Len(s) - a + 1 /\ Len(s) \in Nat
      /\ \A i \in 1 .. Len(t) : t[i] = s[a + i - 1]
  OBVIOUS
<1>. HIDE DEF t
<1>2. \A j \in a .. Len(s) : j - a + 1 \in 1 .. Len(t) /\ t[j - a + 1] = s[j]
  BY <1>1
<1>3. CASE Marker(t) = "none"
  <2>1. \A i \in 1 .. Len(t) : t[i].kind \notin Markers
    BY <1>1, <1>3, MarkerIsLatest, KindsAreStrings
  <2>2. Len(s) - a + 1 \in 1 .. Len(t) /\ t[Len(s) - a + 1] = s[Len(s)]
    BY <1>1, <1>2
  <2>. QED  BY <1>3, <2>1, <2>2 DEF t
<1>4. CASE Marker(t) # "none"
  <2>1. PICK i \in 1 .. Len(t) : /\ t[i].kind \in Markers /\ Marker(t) = t[i].kind
                                 /\ \A j \in 1 .. Len(t) : t[j].kind \in Markers => j <= i
    BY <1>1, <1>4, MarkerIsLatest
  <2>2. a + i - 1 \in 1 .. Len(s) /\ s[a + i - 1] = t[i]
    BY <1>1
  <2>3. \A j \in 1 .. Len(s) : s[j].kind \in Markers => j <= a + i - 1
    <3>1. ASSUME NEW j \in 1 .. Len(s), s[j].kind \in Markers, j > a + i - 1 PROVE FALSE
      <4>1. j \in a .. Len(s)
        BY <1>1, <3>1
      <4>2. j - a + 1 <= i
        BY <1>2, <2>1, <3>1, <4>1
      <4>. QED  BY <1>1, <3>1, <4>2
    <3>. QED  BY <1>1, <3>1
  <2>4. PICK k \in 1 .. Len(s) : /\ s[k].kind \in Markers /\ Marker(s) = s[k].kind
                                 /\ \A j \in 1 .. Len(s) : s[j].kind \in Markers => j <= k
    BY <2>1, <2>2, MarkerIsLatest
  <2>5. k = a + i - 1
    BY <1>1, <2>1, <2>2, <2>3, <2>4
  <2>. QED  BY <1>4, <2>1, <2>2, <2>4, <2>5 DEF t
<1>. QED  BY <1>3, <1>4

LEMMA EmptyMarker == Marker(<<>>) = "none"
  BY DEF Marker

(* Reading the status from git.                                             *)
LEMMA StatusInGitIsLatest ==
  ASSUME StoreParams, log \in Seq(Commits)
  PROVE  /\ StatusInGit # "none" => /\ StatusInGit = Marker(log) /\ log # <<>>
                                    /\ StatusInGit \in Markers
                                    /\ Committed(log, StatusInGit)
         /\ StatusInGit = "none" /\ log # <<>> => log[Len(log)].kind \notin Markers
<1> DEFINE a == IF Len(log) > Window THEN Len(log) - Window + 1 ELSE 1
<1>1. Len(log) \in Nat /\ Window \in Nat \ {0} /\ (log # <<>> => Len(log) > 0)
  BY DEF StoreParams
<1>2. CASE log = <<>>
  <2>1. SubSeq(log, a, Len(log)) = <<>>
    BY <1>1, <1>2
  <2>. QED  BY <1>2, <2>1, EmptyMarker DEF StatusInGit
<1>3. CASE log # <<>>
  <2>1. a \in 1 .. Len(log)
    BY <1>1, <1>3
  <2>2. StatusInGit = Marker(SubSeq(log, a, Len(log)))
    BY DEF StatusInGit
  <2>. HIDE DEF a
  <2>3. StatusInGit # "none" => Marker(log) = StatusInGit
    BY <2>1, <2>2, MarkerOfEnd
  <2>4. Marker(log) # "none" => \E i \in DOMAIN log : log[i].kind = Marker(log) /\ Marker(log) \in Markers
    BY MarkerIsLatest
  <2>. QED  BY <1>3, <2>1, <2>2, <2>3, <2>4, MarkerOfEnd DEF Committed
<1>. QED  BY <1>2, <1>3

-----------------------------------------------------------------------------
LEMMA IdleIsWork == Idle \in Work /\ Idle.pc = "idle" /\ NoRow \in Row
<1>1. <<>> \in Seq(Commits) /\ "absent" \in Statuses
  BY DEF Statuses
<1>2. Idle \in Work
  <2>1. \A b \in Seq(Commits) :
          [cmd |-> "none", pc |-> "idle", seen |-> "absent", verdict |-> "none", charged |-> 0,
           base |-> b, commit |-> 0, met |-> FALSE] \in Work
    BY <1>1 DEF Work
  <2>. QED  BY <1>1, <2>1 DEF Idle
<1>3. NoRow \in Row
  BY <1>1 DEF NoRow, Row
<1>4. Idle.pc = "idle"
  BY DEF Idle
<1>. QED  BY <1>2, <1>3, <1>4

LEMMA MetWork ==
  ASSUME NEW v \in Work, NEW b \in BOOLEAN
  PROVE  LET m == [v EXCEPT !.met = b] IN
         /\ m \in Work /\ m.met = b
         /\ m.cmd = v.cmd /\ m.pc = v.pc /\ m.seen = v.seen /\ m.verdict = v.verdict
         /\ m.charged = v.charged /\ m.base = v.base /\ m.commit = v.commit
  BY DEF Work

LEMMA StoreInitInv == ASSUME StoreParams, Init PROVE StoreInv
<1>1. TypeOK
  <2>1. log \in Seq(Commits) /\ work \in [Procs -> Work] /\ row \in Row /\ pending \in Row
    BY IdleIsWork DEF Init
  <2>. QED  BY <2>1 DEF Init, TypeOK
<1>2. Shape
  BY IdleIsWork DEF Init, Shape, CommandOK, Busy
<1>3. First
  BY DEF Init, First
<1>4. Between
  BY IdleIsWork, KindsAreStrings DEF Init, Between, Busy, Agree, NoRow
<1>. QED  BY <1>1, <1>2, <1>3, <1>4 DEF StoreInv

(* Another commit leaves what was committed.                               *)
LEMMA CommitAdds ==
  ASSUME TypeOK, NEW kind \in Kinds, Commit(kind)
  PROVE  /\ log' \in Seq(Commits) /\ log' # <<>> /\ made' \in Nat /\ made' # 0
         /\ Ids(log) \subseteq Ids(log') /\ made \in Ids(log')
         /\ \A k \in Kinds : Committed(log, k) => Committed(log', k)
         /\ Committed(log', kind)
         /\ kind \in Markers => Marker(log') = kind
         /\ kind \notin Markers => Marker(log') = Marker(log)
         /\ \E c \in Commits : log' = Append(log, c)
<1> DEFINE c == [id |-> made, kind |-> kind]
<1>1. c \in Commits /\ log \in Seq(Commits) /\ log' = Append(log, c) /\ made' = made + 1
      /\ made \in Nat /\ c.id = made /\ c.kind = kind
  BY DEF Commit, TypeOK, Commits
<1>. HIDE DEF c
<1>2. /\ log' \in Seq(Commits) /\ Len(log') = Len(log) + 1 /\ Len(log) \in Nat
      /\ log'[Len(log) + 1] = c /\ \A i \in 1 .. Len(log) : log'[i] = log[i]
      /\ DOMAIN log' = 1 .. Len(log) + 1 /\ DOMAIN log = 1 .. Len(log)
  BY <1>1
<1>3. Ids(log) \subseteq Ids(log') /\ made \in Ids(log')
  <2>1. ASSUME NEW i \in DOMAIN log PROVE log[i].id \in Ids(log')
    BY <1>2 DEF Ids
  <2>. QED  BY <1>1, <1>2, <2>1 DEF Ids
<1>4. /\ \A k \in Kinds : Committed(log, k) => Committed(log', k)
      /\ Committed(log', kind)
  BY <1>1, <1>2 DEF Committed
<1>5. /\ kind \in Markers => Marker(log') = kind
      /\ kind \notin Markers => Marker(log') = Marker(log)
  BY <1>1, MarkerOfAppend
<1>. QED  BY <1>1, <1>2, <1>3, <1>4, <1>5

(* A command that begins meets those under way.                            *)
LEMMA EnterWork ==
  ASSUME StoreParams, StoreInv, NEW p \in Procs, NEW w \in Work, Enter(p, w)
  PROVE  /\ work' \in [Procs -> Work] /\ clean' \in BOOLEAN
         /\ work[p] = Idle /\ ~Busy(p) /\ writer # p
         /\ work'[p] = [w EXCEPT !.met = \E r \in Others(p) : Busy(r)]
         /\ \A q \in Procs \ {p} :
              /\ Busy(q) => work'[q] = [work[q] EXCEPT !.met = TRUE]
              /\ ~Busy(q) => work'[q] = Idle /\ work[q] = Idle
         /\ clean' => clean /\ \A q \in Procs : ~Busy(q)
<1>1. work \in [Procs -> Work] /\ clean \in BOOLEAN
  BY DEF StoreInv, TypeOK
<1>2. ~Busy(p) /\ clean' = (clean /\ \A q \in Procs : ~Busy(q))
  BY DEF Enter
<1>3. \A q \in Procs : ~Busy(q) => work[q] = Idle
  BY DEF StoreInv, Shape, CommandOK, Busy
<1>4. writer # p
  BY <1>2 DEF StoreInv, Shape, Busy, StoreParams
<1>5. \A q \in Procs : [work[q] EXCEPT !.met = TRUE] \in Work
  BY <1>1, MetWork
<1>6. [w EXCEPT !.met = \E r \in Others(p) : Busy(r)] \in Work
  BY MetWork
<1>7. \A q \in Procs : work'[q] = IF q = p THEN [w EXCEPT !.met = \E r \in Others(p) : Busy(r)]
                                  ELSE IF Busy(q) THEN [work[q] EXCEPT !.met = TRUE] ELSE Idle
  BY DEF Enter
<1>8. work' \in [Procs -> Work]
  BY <1>5, <1>6, IdleIsWork DEF Enter
<1>. QED  BY <1>1, <1>2, <1>3, <1>4, <1>7, <1>8

BeginsWith(w, p) ==
  /\ CommandOK(w, p) /\ w # Idle
  /\ w.pc = "store" => w.cmd = "create" \/ w.verdict = "extend"
  /\ w.pc = "reconcile" => w.base = log /\ log # <<>>

(* The invariant holds again when a command has begun, with a commit or not. *)
LEMMA BeginStep ==
  ASSUME StoreParams, StoreInv, NEW p \in Procs, NEW w \in Work, Enter(p, w), BeginsWith(w, p),
         UNCHANGED <<row, writer, pending, fails, dropped>>,
         log' \in Seq(Commits), made' \in Nat, made' # 0,
         log = <<>> => log' = <<>> \/ made = 0,
         log' = <<>> => log = <<>>,
         Ids(log) \subseteq Ids(log'),
         \A k \in Kinds : Committed(log, k) => Committed(log', k),
         clean /\ (\A q \in Procs : ~Busy(q)) => Ends(p)'
  PROVE  StoreInv'
<1>1. /\ work' \in [Procs -> Work] /\ clean' \in BOOLEAN
      /\ work[p] = Idle /\ ~Busy(p) /\ writer # p
      /\ work'[p] = [w EXCEPT !.met = \E r \in Others(p) : Busy(r)]
      /\ \A q \in Procs \ {p} :
           /\ Busy(q) => work'[q] = [work[q] EXCEPT !.met = TRUE]
           /\ ~Busy(q) => work'[q] = Idle /\ work[q] = Idle
      /\ clean' => clean /\ \A q \in Procs : ~Busy(q)
  BY EnterWork
<1>2. /\ work'[p].cmd = w.cmd /\ work'[p].pc = w.pc /\ work'[p].verdict = w.verdict
      /\ work'[p].base = w.base /\ work'[p].commit = w.commit
      /\ (work'[p].met <=> \E r \in Others(p) : Busy(r))
      /\ w.pc # "idle"
  <2>1. w.pc # "idle"
    BY DEF BeginsWith, CommandOK
  <2>. QED  BY <1>1, <2>1, MetWork
<1>3. \A q \in Procs \ {p} :
        /\ work'[q].cmd = work[q].cmd /\ work'[q].pc = work[q].pc
        /\ work'[q].verdict = work[q].verdict /\ work'[q].base = work[q].base
        /\ work'[q].commit = work[q].commit /\ (Busy(q) => work'[q].met)
        /\ (Busy(q)' <=> Busy(q)) /\ (~Busy(q) => work'[q] = Idle)
  <2>. SUFFICES ASSUME NEW q \in Procs \ {p}
                PROVE  /\ work'[q].cmd = work[q].cmd /\ work'[q].pc = work[q].pc
                       /\ work'[q].verdict = work[q].verdict /\ work'[q].base = work[q].base
                       /\ work'[q].commit = work[q].commit /\ (Busy(q) => work'[q].met)
                       /\ (Busy(q)' <=> Busy(q)) /\ (~Busy(q) => work'[q] = Idle)
    OBVIOUS
  <2>1. work[q] \in Work
    BY DEF StoreInv, TypeOK
  <2>2. CASE Busy(q)
    <3>1. work'[q] = [work[q] EXCEPT !.met = TRUE]
      BY <1>1, <2>2
    <3>. QED  BY <2>1, <2>2, <3>1, MetWork DEF Busy
  <2>3. CASE ~Busy(q)
    BY <1>1, <2>3 DEF Busy
  <2>. QED  BY <2>2, <2>3
<1>4. TypeOK'
  BY <1>1 DEF StoreInv, TypeOK
<1>5. Shape'
  <2>1. ASSUME NEW q \in Procs \ {p} PROVE CommandOK(work[q], q)'
    BY <1>1, <1>3, <2>1 DEF StoreInv, Shape, CommandOK, Busy
  <2>2. CommandOK(work[p], p)'
    BY <1>1, <1>2 DEF BeginsWith, CommandOK
  <2>3. writer # Nobody => work'[writer].pc \in {"marker", "remove", "store", "scan"}
    BY <1>1, <1>3 DEF StoreInv, Shape, TypeOK
  <2>4. ASSUME NEW q \in Procs, NEW r \in Procs, q # r, Busy(q)', Busy(r)' PROVE work'[q].met
    <3>1. CASE q = p
      BY <1>2, <1>3, <2>4, <3>1 DEF Others
    <3>2. CASE q # p
      BY <1>3, <2>4, <3>2
    <3>. QED  BY <3>1, <3>2
  <2>5. ASSUME NEW q \in Procs, work'[q].pc = "reconcile" PROVE work'[q].base # <<>>
    BY <1>2, <1>3, <2>5 DEF BeginsWith, StoreInv, Shape
  <2>. QED  BY <2>1, <2>2, <2>3, <2>4, <2>5 DEF Shape
<1>6. First'
  <2>1. SUFFICES ASSUME ~dropped, log' # <<>>
                 PROVE  /\ Backed(log, row)'
                        /\ writer # Nobody => Coming(writer)'
                        /\ \A q \in Procs : Written(q)'
                        /\ \A q \in Procs : work'[q].pc = "reconcile" /\ ~work'[q].met =>
                             Backed(work[q].base, row)'
    BY DEF First
  <2>2. CASE made = 0
    <3>1. /\ row = NoRow /\ \A q \in Procs : ~Busy(q) /\ work[q] = Idle
          /\ writer = Nobody /\ log = <<>>
      BY <2>2, IdleIsWork DEF StoreInv, Shape, TypeOK, Busy
    <3>2. Backed(log, row)' /\ w.pc # "reconcile"
      BY <3>1, KindsAreStrings DEF Backed, NoRow, BeginsWith
    <3>3. \A q \in Procs : Written(q)'
      BY <1>2, <1>3, <3>1, KindsAreStrings, IdleIsWork DEF Written, BeginsWith, CommandOK
    <3>. QED  BY <1>2, <1>3, <3>1, <3>2, <3>3, IdleIsWork
  <2>3. CASE made # 0
    <3>1. log # <<>> /\ First /\ TypeOK
      BY <2>1, <2>3 DEF StoreInv
    <3>2. Backed(log, row)'
      BY <2>1, <3>1, KindsAreStrings DEF First, Backed
    <3>3. writer # Nobody => Coming(writer)'
      BY <1>1, <1>3, <2>1, <3>1, KindsAreStrings DEF First, Coming, TypeOK
    <3>4. ASSUME NEW q \in Procs PROVE Written(q)'
      BY <1>2, <1>3, <2>1, <3>1, KindsAreStrings DEF First, Written, BeginsWith, CommandOK
    <3>5. ASSUME NEW q \in Procs, work'[q].pc = "reconcile", ~work'[q].met
          PROVE  Backed(work[q].base, row)'
      BY <1>2, <1>3, <2>1, <3>1, <3>5 DEF First, Backed, BeginsWith, Busy
    <3>. QED  BY <3>2, <3>3, <3>4, <3>5
  <2>. QED  BY <2>2, <2>3
<1>7. Between'
  <2>1. SUFFICES ASSUME clean'
                 PROVE  /\ \A q, r \in Procs : Busy(q)' /\ Busy(r)' => q = r
                        /\ \E q \in Procs : Busy(q)'
                        /\ \A q \in Procs : Busy(q)' => Ends(q)'
    BY DEF Between
  <2>2. clean /\ (\A q \in Procs : ~Busy(q)) /\ Ends(p)'
    BY <1>1, <2>1
  <2>3. \A q \in Procs : Busy(q)' <=> q = p
    BY <1>2, <1>3, <2>2 DEF Busy
  <2>. QED  BY <2>2, <2>3
<1>. QED  BY <1>4, <1>5, <1>6, <1>7 DEF StoreInv

(* A row with a status other than absent was written, after a commit.       *)
LEMMA RowMeansCommit ==
  ASSUME StoreInv, row.status # "absent"
  PROVE  made # 0
  BY DEF StoreInv, Shape, NoRow

LEMMA BegunWork ==
  ASSUME TypeOK, NEW cmd \in {"create", "publish", "edit", "rollback", "review", "delete", "pull"},
         NEW pc \in {"commit", "lock", "store", "reconcile"},
         NEW verdict \in {"draft", "sedimentation", "none", "deleted"}
  PROVE  LET w == [Idle EXCEPT !.cmd = cmd, !.pc = pc, !.seen = row.status, !.verdict = verdict,
                               !.commit = made, !.base = IF cmd = "pull" THEN log ELSE <<>>] IN
         /\ w \in Work /\ w.cmd = cmd /\ w.pc = pc /\ w.verdict = verdict
         /\ w.base = IF cmd = "pull" THEN log ELSE <<>>
<1>1. <<>> \in Seq(Commits) /\ log \in Seq(Commits) /\ row.status \in Statuses /\ made \in Nat
  BY DEF TypeOK, Row
<1>2. verdict \in Statuses \cup {"none", "extend"}
  BY DEF Statuses, Markers
<1>3. (IF cmd = "pull" THEN log ELSE <<>>) \in Seq(Commits)
  BY <1>1
<1>4. ASSUME NEW b \in Seq(Commits)
      PROVE  LET w == [Idle EXCEPT !.cmd = cmd, !.pc = pc, !.seen = row.status, !.verdict = verdict,
                                   !.commit = made, !.base = b] IN
             /\ w \in Work /\ w.cmd = cmd /\ w.pc = pc /\ w.verdict = verdict /\ w.base = b
  BY <1>1, <1>2, IdleIsWork DEF Work
<1>. QED  BY <1>3, <1>4

(* Commands that begin with reads only.                                    *)
LEMMA BeginReadingStep ==
  ASSUME StoreParams, StoreInv, NEW p \in Procs,
         NEW cmd \in {"publish", "edit", "rollback", "review", "delete"},
         NEW pc \in {"commit", "lock"}, NEW verdict \in {"sedimentation", "none", "deleted"},
         \/ cmd \in {"publish", "edit", "rollback"} /\ pc = "commit" /\ verdict = "sedimentation"
         \/ cmd = "review" /\ pc = "commit" /\ verdict = "none"
         \/ cmd = "delete" /\ pc = "lock" /\ verdict = "deleted",
         row.status # "absent", Begin(p, cmd, pc, verdict),
         UNCHANGED <<log, made, db, fails, dropped>>
  PROVE  StoreInv'
<1> DEFINE w == [Idle EXCEPT !.cmd = cmd, !.pc = pc, !.seen = row.status, !.verdict = verdict,
                             !.commit = made, !.base = IF cmd = "pull" THEN log ELSE <<>>]
<1>1. TypeOK /\ made # 0
  BY RowMeansCommit DEF StoreInv
<1>2. w \in Work /\ w.cmd = cmd /\ w.pc = pc /\ w.verdict = verdict
  <2>1. /\ cmd \in {"create", "publish", "edit", "rollback", "review", "delete", "pull"}
        /\ pc \in {"commit", "lock", "store", "reconcile"}
        /\ verdict \in {"draft", "sedimentation", "none", "deleted"}
    OBVIOUS
  <2>2. cmd # "pull"
    OBVIOUS
  <2>3. <<>> \in Seq(Commits) /\ row.status \in Statuses /\ made \in Nat
    BY <1>1 DEF TypeOK, Row
  <2>4. verdict \in Statuses \cup {"none", "extend"}
    BY DEF Statuses, Markers
  <2>5. pc \in {"idle", "commit", "lock", "marker", "remove", "store", "reconcile", "scan"}
    OBVIOUS
  <2>. QED  BY <2>1, <2>2, <2>3, <2>4, <2>5, IdleIsWork DEF Work
<1>3. Enter(p, w)
  BY DEF Begin
<1>. HIDE DEF w
<1>4. BeginsWith(w, p)
  BY <1>2, <1>3, EnterWork, IdleIsWork DEF BeginsWith, CommandOK
<1>5. UNCHANGED <<log, made, row, writer, pending, fails, dropped>>
  BY DEF db
<1>6. clean /\ (\A q \in Procs : ~Busy(q)) => Ends(p)'
  <2>1. work'[p].pc = pc
    BY <1>2, <1>3, EnterWork, MetWork
  <2>. QED  BY <1>5, <2>1 DEF StoreInv, Between, Ends, Agree
<1>7. log' \in Seq(Commits) /\ made' \in Nat /\ made' # 0 /\ Ids(log) \subseteq Ids(log')
      /\ \A k \in Kinds : Committed(log, k) => Committed(log', k)
  BY <1>1, <1>5 DEF TypeOK, Ids, Committed
<1>. QED  BY <1>2, <1>3, <1>4, <1>5, <1>6, <1>7, BeginStep

LEMMA BeginReadingSteps ==
  ASSUME StoreParams, StoreInv, NEW p \in Procs,
         \/ PublishBegin(p) \/ EditBegin(p) \/ RollbackBegin(p) \/ ReviewBegin(p) \/ DeleteBegin(p)
  PROVE  StoreInv'
<1>1. CASE PublishBegin(p)
  BY <1>1, BeginReadingStep DEF PublishBegin
<1>2. CASE EditBegin(p)
  BY <1>2, BeginReadingStep DEF EditBegin
<1>3. CASE RollbackBegin(p)
  BY <1>3, BeginReadingStep DEF RollbackBegin
<1>4. CASE ReviewBegin(p)
  BY <1>4, BeginReadingStep DEF ReviewBegin
<1>5. CASE DeleteBegin(p)
  BY <1>5, BeginReadingStep DEF DeleteBegin
<1>. QED  BY <1>1, <1>2, <1>3, <1>4, <1>5

LEMMA CreateStep ==
  ASSUME StoreParams, StoreInv, NEW p \in Procs, Create(p)
  PROVE  StoreInv'
<1> DEFINE w == [Idle EXCEPT !.cmd = "create", !.pc = "store", !.seen = row.status,
                             !.verdict = "draft", !.commit = made,
                             !.base = IF "create" = "pull" THEN log ELSE <<>>]
<1>1. TypeOK /\ made = 0 /\ log = <<>> /\ row = NoRow /\ Begin(p, "create", "store", "draft")
      /\ Commit("content") /\ UNCHANGED <<row, writer, pending, fails, dropped>>
  BY DEF StoreInv, Shape, Create, db
<1>2. w \in Work /\ w.cmd = "create" /\ w.pc = "store" /\ w.verdict = "draft"
  BY <1>1, BegunWork
<1>3. Enter(p, w)
  BY <1>1 DEF Begin
<1>. HIDE DEF w
<1>4. BeginsWith(w, p)
  BY <1>2, <1>3, EnterWork, IdleIsWork DEF BeginsWith, CommandOK
<1>5. "content" \in Kinds \ Markers
  BY DEF Kinds, Markers
<1>6. /\ log' \in Seq(Commits) /\ made' \in Nat /\ made' # 0 /\ Ids(log) \subseteq Ids(log')
      /\ \A k \in Kinds : Committed(log, k) => Committed(log', k)
      /\ log' # <<>> /\ Marker(log') = "none"
  BY <1>1, <1>5, CommitAdds, EmptyMarker
<1>7. clean /\ (\A q \in Procs : ~Busy(q)) => Ends(p)'
  <2>1. work'[p].pc = "store" /\ work'[p].cmd = "create" /\ work'[p].verdict = "draft" /\ writer' # p
    BY <1>1, <1>2, <1>3, EnterWork, MetWork
  <2>2. NewRow(p)' = [row EXCEPT !.status = "draft"]
    BY <1>1, <2>1 DEF NewRow
  <2>3. NewRow(p)'.status = "draft"
    BY <1>1, <2>2 DEF TypeOK, Row
  <2>. QED  BY <1>6, <2>1, <2>3 DEF Ends, Agree
<1>. QED  BY <1>1, <1>2, <1>3, <1>4, <1>6, <1>7, BeginStep

LEMMA PullMergeStep ==
  ASSUME StoreParams, StoreInv, NEW p \in Procs, NEW kind \in Kinds, PullMerge(p, kind)
  PROVE  StoreInv'
<1> DEFINE w == [Idle EXCEPT !.cmd = "pull", !.pc = "reconcile", !.seen = row.status,
                             !.verdict = "none", !.commit = made,
                             !.base = IF "pull" = "pull" THEN log ELSE <<>>]
<1>1. TypeOK /\ log # <<>> /\ Begin(p, "pull", "reconcile", "none")
      /\ Commit(kind) /\ UNCHANGED <<row, writer, pending, fails, dropped>>
  BY DEF StoreInv, PullMerge, db
<1>2. w \in Work /\ w.cmd = "pull" /\ w.pc = "reconcile" /\ w.verdict = "none" /\ w.base = log
  BY <1>1, BegunWork
<1>3. Enter(p, w)
  BY <1>1 DEF Begin
<1>. HIDE DEF w
<1>4. BeginsWith(w, p)
  BY <1>1, <1>2, <1>3, EnterWork, IdleIsWork DEF BeginsWith, CommandOK
<1>5. /\ log' \in Seq(Commits) /\ made' \in Nat /\ made' # 0 /\ Ids(log) \subseteq Ids(log')
      /\ \A k \in Kinds : Committed(log, k) => Committed(log', k)
      /\ log' # <<>> /\ \E c \in Commits : log' = Append(log, c)
  BY <1>1, CommitAdds
<1>6. clean /\ (\A q \in Procs : ~Busy(q)) => Ends(p)'
  <2>1. work'[p].pc = "reconcile" /\ work'[p].base = log
    BY <1>2, <1>3, EnterWork, MetWork
  <2>. QED  BY <1>1, <1>5, <2>1 DEF StoreInv, Between, Ends, Agree
<1>. QED  BY <1>1, <1>2, <1>3, <1>4, <1>5, <1>6, BeginStep

LEMMA ScanBeginStep ==
  ASSUME StoreParams, StoreInv, NEW p \in Procs, ScanBegin(p)
  PROVE  StoreInv'
<1> DEFINE w == [Idle EXCEPT !.cmd = "scan", !.seen = row.status, !.charged = row.charged,
                             !.verdict = Verdict(row),
                             !.pc = IF Verdict(row) = "extend" THEN "store" ELSE "marker"]
<1>1. /\ TypeOK /\ row.status = "sedimentation" /\ Enter(p, w)
      /\ UNCHANGED <<log, made, row, writer, pending, fails, dropped>>
  BY DEF StoreInv, ScanBegin, Elapsed, db
<1>2. Verdict(row) \in {"published", "rejected", "extend"}
  BY DEF Verdict
<1>3. Verdict(row) \in Statuses \cup {"none", "extend"} /\ row.status \in Statuses
      /\ row.charged \in Nat
  BY <1>1, <1>2 DEF Statuses, Markers, TypeOK, Row
<1>4. ASSUME NEW pc \in {"store", "marker"}, NEW v \in Statuses \cup {"none", "extend"}
      PROVE  LET u == [Idle EXCEPT !.cmd = "scan", !.seen = row.status, !.charged = row.charged,
                                   !.verdict = v, !.pc = pc] IN
             u \in Work /\ u.cmd = "scan" /\ u.pc = pc /\ u.verdict = v
  BY <1>3, IdleIsWork DEF Work
<1>5. /\ w \in Work /\ w.cmd = "scan" /\ w.verdict = Verdict(row)
      /\ w.pc = IF Verdict(row) = "extend" THEN "store" ELSE "marker"
  <2>1. (IF Verdict(row) = "extend" THEN "store" ELSE "marker") \in {"store", "marker"}
    OBVIOUS
  <2>. HIDE DEF Verdict
  <2>2. CASE Verdict(row) = "extend"
    BY <1>3, <2>2, IdleIsWork DEF Work
  <2>3. CASE Verdict(row) # "extend"
    BY <1>3, <2>3, IdleIsWork DEF Work
  <2>. QED  BY <2>2, <2>3
<1>. HIDE DEF w
<1>6. BeginsWith(w, p)
  BY <1>1, <1>2, <1>5, EnterWork, IdleIsWork DEF BeginsWith, CommandOK
<1>7. made # 0
  BY <1>1, RowMeansCommit
<1>8. clean /\ (\A q \in Procs : ~Busy(q)) => Ends(p)'
  <2>. SUFFICES ASSUME clean, \A q \in Procs : ~Busy(q) PROVE Ends(p)'
    OBVIOUS
  <2>1. /\ work'[p].pc = w.pc /\ work'[p].cmd = "scan" /\ work'[p].verdict = Verdict(row)
        /\ writer' # p
    <3>1. work'[p] = [w EXCEPT !.met = \E r \in Others(p) : Busy(r)] /\ writer # p
      BY <1>1, <1>5, EnterWork
    <3>2. (\E r \in Others(p) : Busy(r)) \in BOOLEAN
      OBVIOUS
    <3>. QED  BY <1>1, <1>5, <3>1, <3>2, MetWork
  <2>2. Agree(log, row) /\ log # <<>>
    BY <1>1 DEF StoreInv, Between, Agree, Markers
  <2>3. CASE Verdict(row) = "extend"
    <3>1. NewRow(p)'.status = row.status
      BY <1>1, <2>1, <2>3 DEF NewRow, TypeOK, Row
    <3>. QED  BY <1>1, <1>5, <2>1, <2>2, <2>3, <3>1 DEF Ends, Agree
  <2>4. CASE Verdict(row) # "extend"
    <3>1. NewRow(p)'.status = Verdict(row)
      BY <1>1, <2>1, <2>4 DEF NewRow, TypeOK, Row
    <3>. QED  BY <1>1, <1>5, <2>1, <2>2, <2>4, <3>1 DEF Ends
  <2>. QED  BY <2>3, <2>4
<1>9. log' \in Seq(Commits) /\ made' \in Nat /\ made' # 0 /\ Ids(log) \subseteq Ids(log')
      /\ \A k \in Kinds : Committed(log, k) => Committed(log', k)
  BY <1>1, <1>7 DEF TypeOK, Ids, Committed
<1>. QED  BY <1>1, <1>5, <1>6, <1>8, <1>9, BeginStep

-----------------------------------------------------------------------------
(* A step of a command under way disturbs no other command: what has to be  *)
(* shown of it.                                                            *)
StepsRight(p) ==
  /\ CommandOK(work[p], p)'
  /\ work'[p] = Idle \/ (work'[p].met = work[p].met /\ work'[p].pc # "reconcile")
  /\ writer' = p => work'[p].pc \in {"marker", "remove", "store", "scan"}
  /\ \A q \in Procs \ {p} : work'[q] = work[q] /\ (writer' = q <=> writer = q)
  /\ writer \in Procs \ {p} => pending' = pending

KeepsFirst(p) ==
  ~dropped' /\ log' # <<>> /\ First =>
    /\ (\E q \in Procs \ {p} : Busy(q)) =>
         Ids(log) \subseteq Ids(log') /\ \A k \in Kinds : Committed(log, k) => Committed(log', k)
    /\ Backed(log, row)'
    /\ writer' = p => Coming(p)'
    /\ Written(p)'

KeepsBetween(p) ==
  clean' => /\ \A q \in Procs \ {p} : ~Busy(q)
            /\ work'[p].pc = "idle" => Agree(log, row)'
            /\ work'[p].pc # "idle" => Ends(p)'

LEMMA BusyMeans ==
  ASSUME StoreParams, StoreInv, NEW p \in Procs, Busy(p)
  PROVE  /\ TypeOK /\ work[p] \in Work /\ made # 0 /\ CommandOK(work[p], p) /\ work[p] # Idle
         /\ writer = p => work[p].pc \in {"marker", "remove", "store", "scan"}
<1>1. TypeOK /\ work[p] \in Work /\ CommandOK(work[p], p) /\ work[p] # Idle
  BY IdleIsWork DEF StoreInv, Shape, TypeOK, Busy
<1>2. made # 0
  BY <1>1 DEF StoreInv, Shape
<1>3. writer = p => work[p].pc \in {"marker", "remove", "store", "scan"}
  BY DEF StoreInv, Shape, StoreParams
<1>. QED  BY <1>1, <1>2, <1>3

LEMMA OneStep ==
  ASSUME StoreParams, StoreInv, NEW p \in Procs, Busy(p), TypeOK', made' # 0, dropped => dropped',
         log' # <<>> => log # <<>>, StepsRight(p), KeepsFirst(p), KeepsBetween(p)
  PROVE  StoreInv'
<1>1. /\ \A q \in Procs \ {p} : work'[q] = work[q] /\ (writer' = q <=> writer = q)
      /\ \A q \in Procs \ {p} : Busy(q)' <=> Busy(q)
      /\ Nobody \notin Procs /\ writer' \in Procs \cup {Nobody} /\ writer \in Procs \cup {Nobody}
  BY DEF StepsRight, Busy, StoreParams, TypeOK, StoreInv
<1>2. Shape'
  <2>1. ASSUME NEW q \in Procs PROVE CommandOK(work[q], q)'
    <3>1. CASE q = p
      BY <3>1 DEF StepsRight
    <3>2. CASE q # p
      BY <1>1, <3>2 DEF StoreInv, Shape, CommandOK
    <3>. QED  BY <3>1, <3>2
  <2>2. writer' # Nobody => work'[writer'].pc \in {"marker", "remove", "store", "scan"}
    <3>1. CASE writer' = p
      BY <3>1 DEF StepsRight
    <3>2. CASE writer' \in Procs \ {p}
      BY <1>1, <3>2 DEF StoreInv, Shape
    <3>. QED  BY <1>1, <3>1, <3>2
  <2>3. ASSUME NEW q \in Procs, NEW r \in Procs, q # r, Busy(q)', Busy(r)' PROVE work'[q].met
    <3>1. Busy(q) /\ Busy(r) /\ work[q].met
      BY <1>1, <2>3 DEF StoreInv, Shape
    <3>2. CASE q = p
      BY <2>3, <3>1, <3>2, IdleIsWork DEF StepsRight, Busy
    <3>3. CASE q # p
      BY <1>1, <3>1, <3>3
    <3>. QED  BY <3>2, <3>3
  <2>4. ASSUME NEW q \in Procs, work'[q].pc = "reconcile" PROVE work'[q].base # <<>>
    BY <1>1, <2>4, IdleIsWork DEF StepsRight, StoreInv, Shape
  <2>. QED  BY <2>1, <2>2, <2>3, <2>4 DEF Shape
<1>3. First'
  <2>1. SUFFICES ASSUME ~dropped', log' # <<>>
                 PROVE  /\ Backed(log, row)'
                        /\ writer' # Nobody => (\A q \in Procs : q = writer' => Coming(q)')
                        /\ \A q \in Procs : Written(q)'
                        /\ \A q \in Procs : work'[q].pc = "reconcile" /\ ~work'[q].met =>
                             Backed(work[q].base, row)'
    BY <1>1 DEF First, Coming
  <2>2. ~dropped /\ log # <<>> /\ First
    BY <2>1 DEF StoreInv
  <2>3. Backed(log, row)' /\ (writer' = p => Coming(p)') /\ Written(p)'
    BY <2>1, <2>2 DEF KeepsFirst
  <2>4. ASSUME NEW q \in Procs \ {p}, writer' = q PROVE Coming(q)'
    <3>1. writer = q /\ pending' = pending /\ Coming(q) /\ Busy(q)
      BY <1>1, <2>2, <2>4 DEF First, StepsRight, StoreInv, Shape, Busy
    <3>2. /\ Ids(log) \subseteq Ids(log')
          /\ \A k \in Kinds : Committed(log, k) => Committed(log', k)
      BY <2>1, <2>2, <3>1 DEF KeepsFirst
    <3>. QED  BY <1>1, <3>1, <3>2, KindsAreStrings DEF Coming
  <2>5. ASSUME NEW q \in Procs \ {p} PROVE Written(q)'
    <3>1. CASE ~Busy(q)
      BY <1>1, <3>1 DEF Written, StoreInv, Shape, CommandOK, Busy
    <3>2. CASE Busy(q)
      <4>1. /\ Ids(log) \subseteq Ids(log')
            /\ \A k \in Kinds : Committed(log, k) => Committed(log', k)
        BY <2>1, <2>2, <3>2 DEF KeepsFirst
      <4>. QED  BY <1>1, <2>2, <4>1, KindsAreStrings DEF First, Written
    <3>. QED  BY <3>1, <3>2
  <2>6. ASSUME NEW q \in Procs, work'[q].pc = "reconcile", ~work'[q].met PROVE FALSE
    <3>1. CASE q = p
      BY <2>6, <3>1, IdleIsWork DEF StepsRight
    <3>2. CASE q # p
      BY <1>1, <2>6, <3>2 DEF StoreInv, Shape, Busy
    <3>. QED  BY <3>1, <3>2
  <2>. QED  BY <2>3, <2>4, <2>5, <2>6
<1>4. Between'
  <2>1. SUFFICES ASSUME clean'
                 PROVE  /\ \A q, r \in Procs : Busy(q)' /\ Busy(r)' => q = r
                        /\ (\A q \in Procs : ~Busy(q)') => Agree(log, row)'
                        /\ \A q \in Procs : Busy(q)' => Ends(q)'
    BY DEF Between
  <2>2. \A q \in Procs : Busy(q)' => q = p
    BY <1>1, <2>1 DEF KeepsBetween
  <2>. QED  BY <2>1, <2>2 DEF KeepsBetween, Busy
<1>. QED  BY <1>2, <1>3, <1>4 DEF StoreInv

(* The steps of a command, one by one.                                      *)
LEMMA NextPc ==
  ASSUME NEW v \in Work,
         NEW pc \in {"idle", "commit", "lock", "marker", "remove", "store", "reconcile", "scan"}
  PROVE  LET m == [v EXCEPT !.pc = pc] IN
         /\ m \in Work /\ m.pc = pc
         /\ m.cmd = v.cmd /\ m.met = v.met /\ m.seen = v.seen /\ m.verdict = v.verdict
         /\ m.charged = v.charged /\ m.base = v.base /\ m.commit = v.commit
  BY DEF Work

LEMMA GotoWork ==
  ASSUME StoreInv, NEW p \in Procs, NEW from,
         NEW to \in {"idle", "commit", "lock", "marker", "remove", "store", "reconcile", "scan"},
         Goto(p, from, to), from # "idle"
  PROVE  /\ work' \in [Procs -> Work] /\ Busy(p) /\ work[p].pc = from /\ work'[p].pc = to
         /\ work'[p].cmd = work[p].cmd /\ work'[p].met = work[p].met
         /\ work'[p].seen = work[p].seen /\ work'[p].verdict = work[p].verdict
         /\ work'[p].charged = work[p].charged /\ work'[p].base = work[p].base
         /\ work'[p].commit = work[p].commit
         /\ \A q \in Procs \ {p} : work'[q] = work[q]
<1>1. work \in [Procs -> Work]
  BY DEF StoreInv, TypeOK
<1>2. work[p].pc = from /\ work' = [work EXCEPT ![p] = [work[p] EXCEPT !.pc = to]]
  BY DEF Goto
<1>3. [work[p] EXCEPT !.pc = to] \in Work
  BY <1>1, NextPc
<1>4. work' \in [Procs -> Work] /\ work'[p] = [work[p] EXCEPT !.pc = to]
      /\ \A q \in Procs \ {p} : work'[q] = work[q]
  BY <1>1, <1>2, <1>3
<1>5. work[p] \in Work
  BY <1>1
<1>6. /\ work'[p].pc = to /\ work'[p].cmd = work[p].cmd /\ work'[p].met = work[p].met
      /\ work'[p].seen = work[p].seen /\ work'[p].verdict = work[p].verdict
      /\ work'[p].charged = work[p].charged /\ work'[p].base = work[p].base
      /\ work'[p].commit = work[p].commit
  BY <1>4, <1>5, NextPc
<1>7. Busy(p)
  BY <1>2 DEF Busy
<1>. QED  BY <1>2, <1>4, <1>6, <1>7

(* What a command is going to write, for each kind.                         *)
LEMMA NewRowIs ==
  ASSUME TypeOK, NEW p \in Procs, CommandOK(work[p], p), work[p].pc \in {"marker", "store"}
  PROVE  /\ NewRow(p) \in Row
         /\ writer = p => NewRow(p) = pending
         /\ writer # p =>
              /\ work[p].cmd = "create" => NewRow(p).status = "draft"
              /\ work[p].cmd = "review" \/ work[p].verdict = "extend" =>
                   NewRow(p).status = row.status
              /\ work[p].cmd \in {"publish", "scan"} /\ work[p].verdict # "extend" =>
                   NewRow(p).status = work[p].verdict
              /\ work[p].cmd = "review" =>
                   NewRow(p).approvals = row.approvals \cup {work[p].commit}
              /\ work[p].cmd # "review" => NewRow(p).approvals = row.approvals
              /\ work[p].cmd \in {"create", "review", "publish", "scan"}
<1>1. work[p] \in Work /\ row \in Row /\ pending \in Row
  BY DEF TypeOK
<1>2. work[p].commit \in Nat /\ work[p].charged \in Nat
  BY <1>1 DEF Work
<1>3. CASE writer = p
  <2>1. work[p].cmd \in {"edit", "rollback", "delete", "pull"} /\ work[p].verdict # "extend"
    BY <1>3 DEF CommandOK, Idle
  <2>2. NewRow(p) = pending
    BY <1>3, <2>1 DEF NewRow
  <2>. QED  BY <1>1, <1>3, <2>2
<1>4. CASE writer # p
  <2>1. work[p].cmd \in {"create", "review", "publish", "scan"}
    BY <1>4 DEF CommandOK, Idle
  <2>2. CASE work[p].cmd = "create"
    <3>1. NewRow(p) = [row EXCEPT !.status = "draft"] /\ work[p].verdict = "draft"
      BY <1>4, <2>2 DEF NewRow, CommandOK, Idle
    <3>. QED  BY <1>1, <1>4, <2>2, <3>1 DEF Row, Statuses, CommandOK
  <2>3. CASE work[p].cmd = "publish"
    <3>1. NewRow(p) = [row EXCEPT !.status = "sedimentation", !.timed = TRUE, !.due = FALSE]
          /\ work[p].verdict = "sedimentation"
      BY <1>4, <2>3 DEF NewRow, CommandOK, Idle
    <3>. QED  BY <1>1, <1>4, <2>3, <3>1 DEF Row, Statuses, Markers
  <2>4. CASE work[p].cmd = "review"
    <3>1. NewRow(p) = [row EXCEPT !.approvals = @ \cup {work[p].commit}]
          /\ work[p].verdict = "none"
      BY <1>4, <2>4 DEF NewRow, CommandOK, Idle
    <3>. QED  BY <1>1, <1>2, <1>4, <2>4, <3>1 DEF Row
  <2>5. CASE work[p].cmd = "scan" /\ work[p].verdict = "extend"
    <3>1. NewRow(p) = [row EXCEPT !.charged = work[p].charged + 1, !.due = FALSE]
      BY <1>4, <2>5 DEF NewRow
    <3>2. work[p].charged + 1 \in Nat
      BY <1>2
    <3>3. \A c \in Nat : LET r == [row EXCEPT !.charged = c, !.due = FALSE] IN
            r \in Row /\ r.status = row.status /\ r.approvals = row.approvals
      BY <1>1 DEF Row
    <3>. QED  BY <1>4, <2>5, <3>1, <3>2, <3>3
  <2>6. CASE work[p].cmd = "scan" /\ work[p].verdict # "extend"
    <3>1. NewRow(p) = [row EXCEPT !.status = work[p].verdict]
          /\ work[p].verdict \in {"published", "rejected"}
      BY <1>4, <2>6 DEF NewRow, CommandOK, Idle
    <3>. QED  BY <1>1, <1>4, <2>6, <3>1 DEF Row, Statuses, Markers
  <2>. QED  BY <2>1, <2>2, <2>3, <2>4, <2>5, <2>6
<1>. QED  BY <1>3, <1>4

(* The steps right of a command that only moves on.                         *)
LEMMA CommitFileStep ==
  ASSUME StoreParams, StoreInv, NEW p \in Procs, CommitFile(p)
  PROVE  StoreInv'
<1> DEFINE v == work[p]
           m == [[v EXCEPT !.pc = AfterFile(v)] EXCEPT !.commit = made]
<1>1. /\ log # <<>> /\ work[p].pc = "commit" /\ Busy(p) /\ Commit(FileKind(work[p]))
      /\ UNCHANGED <<row, writer, pending, fails, clean, dropped>>
  BY DEF CommitFile, db, Busy
<1>2. TypeOK /\ v \in Work /\ made # 0 /\ CommandOK(v, p) /\ v # Idle /\ writer # p
  BY <1>1, BusyMeans
<1>3. FileKind(v) \in Kinds \ Markers
  BY DEF FileKind, Kinds, Markers
<1>4. AfterFile(v) \in {"marker", "store", "lock"}
  BY DEF AfterFile
<1>5. /\ m \in Work /\ m.pc = AfterFile(v) /\ m.commit = made
      /\ m.cmd = v.cmd /\ m.met = v.met /\ m.verdict = v.verdict /\ m.base = v.base
  <2>. HIDE DEF v
  <2>1. made \in Nat
    BY <1>2 DEF TypeOK
  <2>. QED  BY <1>2, <1>4, <2>1 DEF Work
<1>6. work \in [Procs -> Work] /\ work' = [work EXCEPT ![p] = m]
  BY <1>2 DEF TypeOK, CommitFile
<1>. HIDE DEF m
<1>7. /\ work' \in [Procs -> Work] /\ \A q \in Procs \ {p} : work'[q] = work[q]
      /\ work'[p].pc = AfterFile(v) /\ work'[p].commit = made
      /\ work'[p].cmd = v.cmd /\ work'[p].met = v.met /\ work'[p].verdict = v.verdict
  BY <1>5, <1>6
<1>8. /\ log' \in Seq(Commits) /\ log' # <<>> /\ made' \in Nat /\ made' # 0
      /\ Ids(log) \subseteq Ids(log') /\ made \in Ids(log')
      /\ \A k \in Kinds : Committed(log, k) => Committed(log', k)
      /\ Marker(log') = Marker(log)
  BY <1>1, <1>2, <1>3, CommitAdds
<1>9. TypeOK'
  BY <1>1, <1>2, <1>7, <1>8 DEF TypeOK
<1>10. \/ v.cmd = "publish" /\ work'[p].pc = "marker" /\ v.verdict = "sedimentation"
       \/ v.cmd = "review" /\ work'[p].pc = "store" /\ v.verdict = "none"
       \/ v.cmd \in {"edit", "rollback"} /\ work'[p].pc = "lock" /\ v.verdict = "sedimentation"
  BY <1>1, <1>2, <1>7 DEF AfterFile, CommandOK
<1>11. CommandOK(work[p], p)'
  BY <1>1, <1>2, <1>7, <1>10 DEF CommandOK
<1>12. StepsRight(p)
  BY <1>1, <1>2, <1>7, <1>10, <1>11 DEF StepsRight
<1>13. KeepsFirst(p)
  BY <1>1, <1>2, <1>7, <1>8, <1>10, KindsAreStrings DEF KeepsFirst, First, Backed, Written
<1>14. KeepsBetween(p)
  <2>. SUFFICES ASSUME clean' PROVE (\A q \in Procs \ {p} : ~Busy(q)) /\ Ends(p)'
    BY <1>7, <1>10 DEF KeepsBetween
  <2>1. (\A q \in Procs \ {p} : ~Busy(q)) /\ Agree(log, row)
    BY <1>1 DEF StoreInv, Between, Ends
  <2>2. Agree(log, row)'
    BY <1>1, <1>8, <2>1 DEF Agree
  <2>3. CASE work'[p].pc = "lock"
    BY <2>1, <2>2, <2>3 DEF Ends, Agree
  <2>4. CASE work'[p].pc \in {"marker", "store"}
    <3>1. /\ v.cmd = "publish" => NewRow(p)'.status = "sedimentation" /\ work'[p].pc = "marker"
          /\ v.cmd = "review" => NewRow(p)'.status = row.status /\ work'[p].pc = "store"
          /\ v.cmd \in {"publish", "review"}
      <4>1. /\ writer' # p /\ work'[p].cmd = v.cmd /\ work'[p].verdict = v.verdict
            /\ row' = row /\ row \in Row
        BY <1>1, <1>2, <1>7 DEF TypeOK
      <4>2. v.cmd = "publish" => NewRow(p)'.status = "sedimentation"
        <5>1. v.cmd = "publish" => 
                NewRow(p)' = [row EXCEPT !.status = "sedimentation", !.timed = TRUE, !.due = FALSE]
          BY <1>10, <4>1 DEF NewRow
        <5>. QED  BY <4>1, <5>1 DEF Row
      <4>3. v.cmd = "review" => NewRow(p)'.status = row.status
        <5>1. v.cmd = "review" =>
                NewRow(p)' = [row EXCEPT !.approvals = row.approvals \cup {work'[p].commit}]
          BY <1>10, <4>1 DEF NewRow
        <5>. QED  BY <4>1, <5>1 DEF Row
      <4>. QED  BY <1>10, <2>4, <4>2, <4>3
    <3>2. CASE v.cmd = "publish"
      BY <1>7, <1>8, <1>10, <2>1, <3>1, <3>2 DEF Ends
    <3>3. CASE v.cmd = "review"
      <4>1. Agree(log, NewRow(p))'
        BY <1>1, <2>2, <3>1, <3>3 DEF Agree
      <4>. QED  BY <1>10, <2>1, <3>1, <3>3, <4>1 DEF Ends, Agree
    <3>. QED  BY <3>1, <3>2, <3>3
  <2>. QED  BY <1>10, <2>3, <2>4
<1>. QED  BY <1>1, <1>8, <1>9, <1>12, <1>13, <1>14, OneStep

LEMMA LockStep ==
  ASSUME StoreParams, StoreInv, NEW p \in Procs, Lock(p)
  PROVE  StoreInv'
<1> DEFINE w == work[p]
           to == CASE w.cmd = "delete" -> "remove"
                   [] Resets(w) -> "marker"
                   [] OTHER -> "store"
<1>1. /\ writer = Nobody /\ Exists /\ Goto(p, "lock", to) /\ writer' = p
      /\ pending' = CASE w.cmd = "delete" -> [NoRow EXCEPT !.status = "deleted"]
                      [] Resets(w) -> Reset(w)
                      [] OTHER -> row
      /\ UNCHANGED <<log, made, row, fails, clean, dropped>>
  BY DEF Lock
<1>2. w.pc = "lock" /\ Busy(p)
  BY <1>1 DEF Goto, Busy
<1>3. TypeOK /\ made # 0 /\ CommandOK(w, p) /\ w # Idle /\ writer # p
  BY <1>1, <1>2, BusyMeans DEF StoreParams
<1>4. \/ w.cmd = "delete" /\ w.verdict = "deleted"
      \/ w.cmd \in {"edit", "rollback"} /\ w.verdict = "sedimentation"
  BY <1>2, <1>3 DEF CommandOK
<1>5. row \in Row /\ row.approvals \in SUBSET Nat
  BY <1>3 DEF TypeOK, Row
<1>. HIDE DEF to
<1>6. \/ w.cmd = "delete" /\ to = "remove" /\ pending' = [NoRow EXCEPT !.status = "deleted"]
      \/ w.cmd # "delete" /\ Resets(w) /\ to = "marker" /\ pending' = Reset(w)
      \/ w.cmd # "delete" /\ ~Resets(w) /\ to = "store" /\ pending' = row
  BY <1>1 DEF to, Resets
<1>7. /\ w.cmd = "delete" => pending'.status = "deleted" /\ pending'.approvals = {}
      /\ w.cmd # "delete" /\ Resets(w) =>
           pending'.status = "sedimentation" /\ pending'.approvals = row.approvals
      /\ w.cmd # "delete" /\ ~Resets(w) => pending' = row
      /\ pending' \in Row
  <2>1. CASE w.cmd = "delete"
    BY <1>6, <2>1, IdleIsWork DEF Row, Statuses, NoRow
  <2>2. CASE w.cmd # "delete" /\ Resets(w)
    <3>1. \A c \in Nat :
            LET r == [row EXCEPT !.status = "sedimentation", !.timed = TRUE, !.due = FALSE,
                                 !.charged = c]
            IN  r \in Row /\ r.status = "sedimentation" /\ r.approvals = row.approvals
      BY <1>5 DEF Row, Statuses, Markers
    <3>2. (IF w.cmd = "edit" /\ row.charged < MaxCharges THEN row.charged + 1 ELSE row.charged)
            \in Nat
      BY <1>5 DEF Row
    <3>. QED  BY <1>6, <2>2, <3>1, <3>2 DEF Reset
  <2>. QED  BY <1>5, <1>6, <2>1, <2>2
<1>8. to \in {"remove", "marker", "store"}
  BY <1>6
<1>9. /\ work' \in [Procs -> Work] /\ work'[p].pc = to
      /\ work'[p].cmd = w.cmd /\ work'[p].met = w.met /\ work'[p].verdict = w.verdict
      /\ \A q \in Procs \ {p} : work'[q] = work[q]
  BY <1>1, <1>8, GotoWork
<1>10. TypeOK'
  BY <1>1, <1>3, <1>7, <1>9 DEF TypeOK
<1>11. StepsRight(p)
  <2>1. CommandOK(work[p], p)'
    BY <1>1, <1>4, <1>6, <1>9 DEF CommandOK
  <2>. QED  BY <1>1, <1>3, <1>6, <1>9, <2>1 DEF StepsRight, StoreParams
<1>12. KeepsFirst(p)
  <2>. SUFFICES ASSUME ~dropped', log' # <<>>, First
                PROVE  /\ Backed(log, row) /\ Coming(p)' /\ Written(p)'
    BY <1>1 DEF KeepsFirst, Ids, Committed, Backed
  <2>1. Backed(log, row)
    BY <1>1 DEF First
  <2>2. Coming(p)'
    BY <1>1, <1>4, <1>6, <1>7, <1>9, <2>1, KindsAreStrings DEF Coming, Backed
  <2>3. Written(p)'
    BY <1>4, <1>9 DEF Written
  <2>. QED  BY <2>1, <2>2, <2>3
<1>13. KeepsBetween(p)
  <2>. SUFFICES ASSUME clean' PROVE (\A q \in Procs \ {p} : ~Busy(q)) /\ Ends(p)'
    BY <1>8, <1>9 DEF KeepsBetween
  <2>1. (\A q \in Procs \ {p} : ~Busy(q)) /\ Agree(log, row)
    BY <1>1, <1>2 DEF StoreInv, Between, Ends
  <2>2. log # <<>>
    BY <1>1, <2>1 DEF Exists, Agree
  <2>3. to \in {"marker", "store"} => NewRow(p)' = pending'
    <3>1. to \in {"marker", "store"} => w.cmd \in {"edit", "rollback"} /\ w.verdict = "sedimentation"
      BY <1>4, <1>6
    <3>. QED  BY <1>1, <1>9, <3>1 DEF NewRow
  <2>4. CASE to = "remove"
    BY <1>6, <1>7, <1>9, <2>1, <2>4 DEF Ends
  <2>5. CASE to = "marker"
    BY <1>1, <1>4, <1>6, <1>7, <1>9, <2>1, <2>2, <2>3, <2>5 DEF Ends
  <2>6. CASE to = "store"
    <3>1. Agree(log, NewRow(p))'
      BY <1>1, <1>6, <2>1, <2>3, <2>6 DEF Agree
    <3>. QED  BY <1>9, <2>1, <2>6, <3>1 DEF Ends, Agree
  <2>. QED  BY <1>8, <2>4, <2>5, <2>6
<1>. QED  BY <1>1, <1>2, <1>3, <1>10, <1>11, <1>12, <1>13, OneStep

(* A marker or nothing: what a scan commits.                                *)
LEMMA CommitIfThereAdds ==
  ASSUME TypeOK, made # 0, NEW kind \in Kinds, CommitIfThere(kind)
  PROVE  /\ log' \in Seq(Commits) /\ made' \in Nat /\ made' # 0
         /\ log' # <<>> <=> log # <<>>
         /\ Ids(log) \subseteq Ids(log')
         /\ \A k \in Kinds : Committed(log, k) => Committed(log', k)
         /\ log # <<>> => Committed(log', kind)
         /\ log # <<>> /\ kind \in Markers => Marker(log') = kind
<1>1. CASE log # <<>>
  <2>1. Commit(kind)
    BY <1>1 DEF CommitIfThere
  <2>. QED  BY <1>1, <2>1, CommitAdds
<1>2. CASE log = <<>>
  BY <1>2 DEF CommitIfThere, TypeOK, Ids, Committed
<1>. QED  BY <1>1, <1>2

LEMMA CommitMarkerStep ==
  ASSUME StoreParams, StoreInv, NEW p \in Procs, CommitMarker(p)
  PROVE  StoreInv'
<1> DEFINE w == work[p]
<1>1. /\ Goto(p, "marker", "store") /\ CommitIfThere(w.verdict)
      /\ UNCHANGED <<row, writer, pending, fails, clean, dropped>>
  BY DEF CommitMarker, db
<1>2. /\ work' \in [Procs -> Work] /\ Busy(p) /\ w.pc = "marker" /\ work'[p].pc = "store"
      /\ work'[p].cmd = w.cmd /\ work'[p].met = w.met /\ work'[p].verdict = w.verdict
      /\ \A q \in Procs \ {p} : work'[q] = work[q]
  BY <1>1, GotoWork
<1>3. TypeOK /\ made # 0 /\ CommandOK(w, p) /\ w # Idle
  BY <1>1, <1>2, BusyMeans
<1>4. /\ w.verdict \in Markers /\ w.verdict # "extend"
      /\ \/ w.cmd \in {"publish", "scan"} /\ writer # p
         \/ w.cmd \in {"edit", "rollback"} /\ writer = p
  BY <1>2, <1>3 DEF CommandOK, Markers
<1>5. /\ log' \in Seq(Commits) /\ made' \in Nat /\ made' # 0
      /\ log' # <<>> <=> log # <<>>
      /\ Ids(log) \subseteq Ids(log')
      /\ \A k \in Kinds : Committed(log, k) => Committed(log', k)
      /\ log # <<>> => Committed(log', w.verdict) /\ Marker(log') = w.verdict
  BY <1>1, <1>3, <1>4, CommitIfThereAdds, KindsAreStrings
<1>6. TypeOK'
  BY <1>1, <1>2, <1>3, <1>5 DEF TypeOK
<1>7. StepsRight(p)
  <2>1. CommandOK(work[p], p)'
    BY <1>1, <1>2, <1>3 DEF CommandOK
  <2>. QED  BY <1>1, <1>2, <2>1 DEF StepsRight
<1>8. KeepsFirst(p)
  <2>. SUFFICES ASSUME ~dropped', log' # <<>>, First
                PROVE  Backed(log, row)' /\ (writer' = p => Coming(p)') /\ Written(p)'
    BY <1>5 DEF KeepsFirst
  <2>1. Backed(log, row) /\ (writer = p => Coming(p))
    BY <1>1, <1>5 DEF First, StoreParams
  <2>2. Backed(log, row)'
    BY <1>1, <1>5, <2>1, KindsAreStrings DEF Backed
  <2>3. writer' = p => Coming(p)'
    BY <1>1, <1>5, <2>1, KindsAreStrings DEF Coming
  <2>4. Written(p)'
    BY <1>2, <1>4, <1>5 DEF Written
  <2>. QED  BY <2>2, <2>3, <2>4
<1>9. KeepsBetween(p)
  <2>. SUFFICES ASSUME clean' PROVE (\A q \in Procs \ {p} : ~Busy(q)) /\ Ends(p)'
    BY <1>2 DEF KeepsBetween
  <2>1. (\A q \in Procs \ {p} : ~Busy(q)) /\ log # <<>> /\ NewRow(p).status = w.verdict
    BY <1>1, <1>2 DEF StoreInv, Between, Ends
  <2>2. CommandOK(work[p], p)'
    BY <1>7 DEF StepsRight
  <2>3. NewRow(p)'.status = w.verdict
    <3>1. CASE writer = p
      <4>1. NewRow(p) = pending
        BY <1>2, <1>3, <3>1, NewRowIs
      <4>2. NewRow(p)' = pending'
        BY <1>1, <1>2, <1>4, <3>1 DEF NewRow
      <4>. QED  BY <1>1, <2>1, <4>1, <4>2
    <3>2. CASE w.cmd = "publish" /\ writer # p
      <4>1. w.verdict = "sedimentation"
        BY <1>3, <3>2 DEF CommandOK, Idle
      <4>2. NewRow(p)' = [row EXCEPT !.status = "sedimentation", !.timed = TRUE, !.due = FALSE]
        BY <1>1, <1>2, <1>4, <3>2 DEF NewRow
      <4>. QED  BY <1>3, <4>1, <4>2 DEF TypeOK, Row
    <3>3. CASE w.cmd = "scan" /\ writer # p
      <4>1. NewRow(p)' = [row EXCEPT !.status = w.verdict]
        BY <1>1, <1>2, <1>4, <3>3 DEF NewRow
      <4>. QED  BY <1>3, <4>1 DEF TypeOK, Row
    <3>. QED  BY <1>4, <3>1, <3>2, <3>3
  <2>4. Agree(log, NewRow(p))'
    BY <1>4, <1>5, <2>1, <2>3, KindsAreStrings DEF Agree
  <2>. QED  BY <1>2, <2>1, <2>4 DEF Ends, Agree
<1>. QED  BY <1>1, <1>2, <1>5, <1>6, <1>7, <1>8, <1>9, OneStep

LEMMA RemoveRepoStep ==
  ASSUME StoreParams, StoreInv, NEW p \in Procs, RemoveRepo(p)
  PROVE  StoreInv'
<1> DEFINE w == work[p]
<1>1. /\ Goto(p, "remove", "store") /\ log' = <<>>
      /\ UNCHANGED <<made, row, writer, pending, fails, clean, dropped>>
  BY DEF RemoveRepo, db
<1>2. /\ work' \in [Procs -> Work] /\ Busy(p) /\ w.pc = "remove" /\ work'[p].pc = "store"
      /\ work'[p].cmd = w.cmd /\ work'[p].met = w.met /\ work'[p].verdict = w.verdict
      /\ \A q \in Procs \ {p} : work'[q] = work[q]
  BY <1>1, GotoWork
<1>3. TypeOK /\ made # 0 /\ CommandOK(w, p) /\ w # Idle
  BY <1>1, <1>2, BusyMeans
<1>4. w.cmd = "delete" /\ w.verdict = "deleted" /\ writer = p
  BY <1>2, <1>3 DEF CommandOK
<1>5. TypeOK'
  <2>1. log' \in Seq(Commits)
    BY <1>1
  <2>. QED  BY <1>1, <1>2, <1>3, <2>1 DEF TypeOK
<1>6. StepsRight(p)
  <2>1. CommandOK(work[p], p)'
    BY <1>1, <1>2, <1>4 DEF CommandOK
  <2>. QED  BY <1>1, <1>2, <2>1 DEF StepsRight
<1>7. KeepsFirst(p)
  BY <1>1 DEF KeepsFirst
<1>8. KeepsBetween(p)
  <2>. SUFFICES ASSUME clean' PROVE (\A q \in Procs \ {p} : ~Busy(q)) /\ Ends(p)'
    BY <1>2 DEF KeepsBetween
  <2>1. (\A q \in Procs \ {p} : ~Busy(q)) /\ pending.status = "deleted"
    BY <1>1, <1>2 DEF StoreInv, Between, Ends
  <2>2. NewRow(p)' = pending
    BY <1>1, <1>2, <1>4 DEF NewRow
  <2>3. Agree(log, NewRow(p))'
    BY <1>1, <2>1, <2>2, KindsAreStrings DEF Agree
  <2>. QED  BY <1>2, <2>1, <2>3 DEF Ends, Agree
<1>. QED  BY <1>1, <1>2, <1>3, <1>5, <1>6, <1>7, <1>8, OneStep

LEMMA StoreStep ==
  ASSUME StoreParams, StoreInv, NEW p \in Procs, Store(p)
  PROVE  StoreInv'
<1> DEFINE w == work[p]
<1>1. /\ w.pc = "store" /\ writer \in {Nobody, p} /\ row' = NewRow(p) /\ writer' = Nobody
      /\ pending' = NoRow /\ work' = [work EXCEPT ![p] = Idle] /\ Busy(p)
      /\ UNCHANGED <<log, made, fails, clean, dropped>>
  BY DEF Store, Busy
<1>2. TypeOK /\ made # 0 /\ CommandOK(w, p) /\ w # Idle
  BY <1>1, BusyMeans
<1>3. /\ work' \in [Procs -> Work] /\ work'[p] = Idle
      /\ \A q \in Procs \ {p} : work'[q] = work[q]
  BY <1>1, <1>2, IdleIsWork DEF TypeOK
<1>4. NewRow(p) \in Row
  BY <1>1, <1>2, NewRowIs
<1>5. TypeOK'
  BY <1>1, <1>2, <1>3, <1>4, IdleIsWork DEF TypeOK
<1>6. StepsRight(p)
  BY <1>1, <1>3 DEF StepsRight, CommandOK, StoreParams
<1>7. KeepsFirst(p)
  <2>. SUFFICES ASSUME ~dropped', log' # <<>>, First
                PROVE  Backed(log, row)' /\ (writer' = p => Coming(p)') /\ Written(p)'
    BY <1>1 DEF KeepsFirst, Ids, Committed
  <2>1. Backed(log, row) /\ (writer = p => Coming(p)) /\ Written(p)
    BY <1>1 DEF First, StoreParams
  <2>2. Backed(log, NewRow(p))
    <3>1. CASE writer = p
      BY <1>1, <1>2, <2>1, <3>1, NewRowIs DEF Backed, Coming
    <3>2. CASE writer # p /\ w.cmd = "create"
      BY <1>1, <1>2, <2>1, <3>2, NewRowIs, KindsAreStrings DEF Backed
    <3>3. CASE writer # p /\ w.cmd = "review"
      BY <1>1, <1>2, <2>1, <3>3, NewRowIs DEF Backed, Written
    <3>4. CASE writer # p /\ w.cmd \in {"publish", "scan"}
      BY <1>1, <1>2, <2>1, <3>4, NewRowIs DEF Backed, Written
    <3>. QED  BY <1>1, <1>2, <3>1, <3>2, <3>3, <3>4, NewRowIs
  <2>3. Written(p)' /\ writer' # p
    BY <1>1, <1>3, IdleIsWork DEF Written, StoreParams
  <2>. QED  BY <1>1, <2>2, <2>3 DEF Backed
<1>8. KeepsBetween(p)
  BY <1>1, <1>3, IdleIsWork DEF KeepsBetween, StoreInv, Between, Ends, Agree
<1>. QED  BY <1>1, <1>2, <1>5, <1>6, <1>7, <1>8, OneStep

(* What a pull makes of a row.                                              *)
LEMMA RepairedIs ==
  ASSUME StoreParams, TypeOK, NEW r \in Row
  PROVE  /\ Repaired(r) \in Row
         /\ StatusInGit = "none" => Repaired(r).status = r.status
         /\ StatusInGit # "none" => Repaired(r).status = StatusInGit
         /\ Repaired(r).approvals \subseteq r.approvals \cup Ids(log)
<1>1. log \in Seq(Commits)
  BY DEF TypeOK
<1> DEFINE st == IF StatusInGit = "none" THEN r.status ELSE StatusInGit
           ap == IF Has({"named"}) THEN r.approvals \cup {Last(log).id} ELSE r.approvals
<1>2. Has({"named"}) => Last(log).id \in Ids(log) /\ Last(log).id \in Nat
  <2>. SUFFICES ASSUME Has({"named"}) PROVE Last(log).id \in Ids(log) /\ Last(log).id \in Nat
    OBVIOUS
  <2>1. Len(log) \in DOMAIN log /\ Len(log) \in Nat
    BY <1>1 DEF Has
  <2>2. log[Len(log)] \in Commits
    BY <1>1, <2>1
  <2>. QED  BY <2>1, <2>2 DEF Last, Ids, Commits
<1>3. st \in Statuses /\ ap \in SUBSET Nat /\ ap \subseteq r.approvals \cup Ids(log)
  BY <1>1, <1>2, StatusInGitIsLatest, KindsAreStrings DEF Row
<1>4. Repaired(r) = [r EXCEPT !.status = st, !.approvals = ap]
  BY DEF Repaired
<1>. HIDE DEF st, ap
<1>5. Repaired(r) \in Row /\ Repaired(r).status = st /\ Repaired(r).approvals = ap
  BY <1>3, <1>4 DEF Row
<1>. QED  BY <1>3, <1>5 DEF st

LEMMA ReconcileStep ==
  ASSUME StoreParams, StoreInv, NEW p \in Procs, Reconcile(p)
  PROVE  StoreInv'
<1> DEFINE w == work[p]
<1>1. /\ writer = Nobody /\ Exists /\ Goto(p, "reconcile", "scan") /\ writer' = p
      /\ pending' = Repaired(row)
      /\ clean' = IF \E q \in Others(p) : Busy(q) THEN FALSE ELSE clean \/ StatusInGit # "none"
      /\ UNCHANGED <<log, made, row, fails, dropped>>
  BY DEF Reconcile
<1>2. /\ work' \in [Procs -> Work] /\ Busy(p) /\ w.pc = "reconcile" /\ work'[p].pc = "scan"
      /\ work'[p].cmd = w.cmd /\ work'[p].met = w.met /\ work'[p].verdict = w.verdict
      /\ \A q \in Procs \ {p} : work'[q] = work[q]
  BY <1>1, GotoWork
<1>3. TypeOK /\ made # 0 /\ CommandOK(w, p) /\ w # Idle /\ w \in Work
  BY <1>1, <1>2, BusyMeans
<1>4. w.cmd = "pull" /\ w.verdict = "none"
  BY <1>2, <1>3 DEF CommandOK
<1>5. row \in Row /\ log \in Seq(Commits)
  BY <1>3 DEF TypeOK
<1>6. /\ pending' \in Row
      /\ StatusInGit = "none" => pending'.status = row.status
      /\ StatusInGit # "none" => pending'.status = StatusInGit
      /\ pending'.approvals \subseteq row.approvals \cup Ids(log)
  BY <1>1, <1>3, <1>5, RepairedIs
<1>7. TypeOK'
  BY <1>1, <1>2, <1>3, <1>6 DEF TypeOK
<1>8. StepsRight(p)
  <2>1. CommandOK(work[p], p)'
    BY <1>1, <1>2, <1>4 DEF CommandOK
  <2>. QED  BY <1>1, <1>2, <2>1 DEF StepsRight, StoreParams
<1>9. KeepsFirst(p)
  <2>. SUFFICES ASSUME ~dropped', log' # <<>>, First
                PROVE  Backed(log, row) /\ Coming(p)' /\ Written(p)'
    BY <1>1 DEF KeepsFirst, Ids, Committed, Backed
  <2>1. Backed(log, row)
    BY <1>1 DEF First
  <2>2. Coming(p)'
    <3>1. pending'.status \in Markers => Committed(log, pending'.status)
      BY <1>5, <1>6, <2>1, StatusInGitIsLatest DEF Backed
    <3>2. pending'.approvals \subseteq Ids(log)
      BY <1>6, <2>1 DEF Backed
    <3>. QED  BY <1>1, <3>1, <3>2 DEF Coming
  <2>3. Written(p)'
    BY <1>2 DEF Written
  <2>. QED  BY <2>1, <2>2, <2>3
<1>10. KeepsBetween(p)
  <2>. SUFFICES ASSUME clean' PROVE (\A q \in Procs \ {p} : ~Busy(q)) /\ Ends(p)'
    BY <1>2 DEF KeepsBetween
  <2>1. (\A q \in Procs \ {p} : ~Busy(q)) /\ (clean \/ StatusInGit # "none")
    BY <1>1 DEF Others
  <2>2. Agree(log, pending)'
    <3>1. CASE StatusInGit # "none"
      BY <1>1, <1>5, <1>6, <3>1, StatusInGitIsLatest, KindsAreStrings DEF Agree
    <3>2. CASE StatusInGit = "none"
      <4>1. Agree(w.base, row) /\ \E c \in Commits : log = Append(w.base, c)
        BY <1>2, <2>1, <3>2 DEF StoreInv, Between, Ends
      <4>2. PICK c \in Commits : log = Append(w.base, c)
        BY <4>1
      <4>3. w.base \in Seq(Commits)
        BY <1>3 DEF Work
      <4>4. log # <<>> /\ log[Len(log)] = c
        BY <4>2, <4>3
      <4>5. c.kind \notin Markers
        BY <1>5, <3>2, <4>4, StatusInGitIsLatest
      <4>6. Marker(log) = Marker(w.base)
        BY <4>2, <4>3, <4>5, MarkerOfAppend
      <4>. QED  BY <1>1, <1>6, <3>2, <4>1, <4>4, <4>6 DEF Agree, Exists
    <3>. QED  BY <3>1, <3>2
  <2>. QED  BY <1>2, <2>1, <2>2 DEF Ends, Agree
<1>. QED  BY <1>1, <1>2, <1>3, <1>7, <1>8, <1>9, <1>10, OneStep

LEMMA UndoStep ==
  ASSUME StoreParams, StoreInv, NEW p \in Procs, Undo(p)
  PROVE  StoreInv'
<1> DEFINE w == work[p]
<1>1. /\ w.pc = "reconcile" /\ Busy(p) /\ log # <<>> /\ log' = w.base
      /\ fails' = (IF Has({"anonymous"}) THEN fails ELSE fails + 1)
      /\ dropped' = (dropped \/ w.met)
      /\ clean' = (clean /\ \A q \in Others(p) : ~Busy(q))
      /\ work' = [work EXCEPT ![p] = Idle]
      /\ UNCHANGED <<made, row, writer, pending>>
  BY DEF Undo, db, Busy
<1>2. TypeOK /\ made # 0 /\ w \in Work /\ writer # p
  BY <1>1, BusyMeans
<1>3. /\ work' \in [Procs -> Work] /\ work'[p] = Idle
      /\ \A q \in Procs \ {p} : work'[q] = work[q]
  BY <1>1, <1>2, IdleIsWork DEF TypeOK
<1>4. w.base \in Seq(Commits) /\ w.met \in BOOLEAN
  BY <1>2 DEF Work
<1>5. TypeOK'
  BY <1>1, <1>2, <1>3, <1>4 DEF TypeOK
<1>6. StepsRight(p)
  BY <1>1, <1>2, <1>3 DEF StepsRight, CommandOK
<1>7. KeepsFirst(p)
  <2>. SUFFICES ASSUME ~dropped', log' # <<>>, First
                PROVE  /\ \A q \in Procs \ {p} : ~Busy(q)
                       /\ Backed(log, row)' /\ Written(p)'
    BY <1>1, <1>2 DEF KeepsFirst
  <2>1. ~dropped /\ ~w.met
    BY <1>1
  <2>2. \A q \in Procs \ {p} : ~Busy(q)
    BY <1>1, <2>1 DEF StoreInv, Shape
  <2>3. Backed(w.base, row)
    BY <1>1, <2>1 DEF First
  <2>4. Backed(log, row)' /\ Written(p)'
    BY <1>1, <1>3, <2>3, IdleIsWork DEF Backed, Written
  <2>. QED  BY <2>2, <2>4
<1>8. KeepsBetween(p)
  <2>. SUFFICES ASSUME clean' PROVE (\A q \in Procs \ {p} : ~Busy(q)) /\ Agree(log, row)'
    BY <1>3, IdleIsWork DEF KeepsBetween
  <2>1. clean /\ \A q \in Procs \ {p} : ~Busy(q)
    BY <1>1 DEF Others
  <2>2. Agree(w.base, row)
    BY <1>1, <2>1 DEF StoreInv, Between, Ends
  <2>. QED  BY <1>1, <2>1, <2>2 DEF Agree
<1>. QED  BY <1>1, <1>2, <1>5, <1>6, <1>7, <1>8, OneStep

LEMMA PullScanStep ==
  ASSUME StoreParams, StoreInv, NEW p \in Procs, PullScan(p)
  PROVE  StoreInv'
<1> DEFINE w == work[p]
<1>1. /\ Goto(p, "scan", "store") /\ UNCHANGED <<row, writer, fails, clean, dropped>>
      /\ \/ /\ pending.status = "sedimentation" /\ Verdict(pending) = "extend"
            /\ pending' = [pending EXCEPT !.charged = pending.charged + 1, !.due = FALSE]
            /\ UNCHANGED <<log, made>>
         \/ /\ pending.status = "sedimentation" /\ Verdict(pending) # "extend"
            /\ pending' = [pending EXCEPT !.status = Verdict(pending)]
            /\ CommitIfThere(Verdict(pending))
         \/ UNCHANGED <<log, made, pending>>
  BY DEF PullScan, Elapsed
<1>2. /\ work' \in [Procs -> Work] /\ Busy(p) /\ w.pc = "scan" /\ work'[p].pc = "store"
      /\ work'[p].cmd = w.cmd /\ work'[p].met = w.met /\ work'[p].verdict = w.verdict
      /\ \A q \in Procs \ {p} : work'[q] = work[q]
  BY <1>1, GotoWork
<1>3. TypeOK /\ made # 0 /\ CommandOK(w, p) /\ w # Idle
  BY <1>1, <1>2, BusyMeans
<1>4. w.cmd = "pull" /\ w.verdict = "none" /\ writer = p
  BY <1>2, <1>3 DEF CommandOK
<1>5. pending \in Row /\ pending.charged \in Nat
  BY <1>3 DEF TypeOK, Row
<1>6. /\ pending' \in Row /\ pending'.approvals = pending.approvals
      /\ \/ pending'.status = pending.status /\ UNCHANGED <<log, made>>
         \/ /\ pending.status = "sedimentation" /\ pending'.status \in {"published", "rejected"}
            /\ CommitIfThere(pending'.status)
  <2>1. CASE /\ pending' = [pending EXCEPT !.charged = pending.charged + 1, !.due = FALSE]
             /\ UNCHANGED <<log, made>>
    <3>1. pending.charged + 1 \in Nat
      BY <1>5
    <3>2. \A c \in Nat : LET r == [pending EXCEPT !.charged = c, !.due = FALSE] IN
            r \in Row /\ r.status = pending.status /\ r.approvals = pending.approvals
      BY <1>5 DEF Row
    <3>. QED  BY <2>1, <3>1, <3>2
  <2>2. CASE /\ pending.status = "sedimentation" /\ Verdict(pending) # "extend"
             /\ pending' = [pending EXCEPT !.status = Verdict(pending)]
             /\ CommitIfThere(Verdict(pending))
    <3>1. Verdict(pending) \in {"published", "rejected"}
      BY <2>2 DEF Verdict
    <3>2. ASSUME NEW s \in {"published", "rejected"}
          PROVE  LET r == [pending EXCEPT !.status = s] IN
                 r \in Row /\ r.status = s /\ r.approvals = pending.approvals
      BY <1>5 DEF Row, Statuses, Markers
    <3>3. pending'.status = Verdict(pending)
      BY <2>2, <3>1, <3>2
    <3>. QED  BY <2>2, <3>1, <3>2, <3>3
  <2>. QED  BY <1>1, <1>5, <2>1, <2>2
<1>7. /\ log' \in Seq(Commits) /\ made' \in Nat /\ made' # 0
      /\ log' # <<>> <=> log # <<>>
      /\ Ids(log) \subseteq Ids(log')
      /\ \A k \in Kinds : Committed(log, k) => Committed(log', k)
      /\ pending'.status # pending.status /\ log # <<>> =>
           Committed(log', pending'.status) /\ Marker(log') = pending'.status
           /\ pending'.status \in Markers
  <2>1. CASE pending'.status = pending.status /\ UNCHANGED <<log, made>>
    BY <1>3, <2>1 DEF TypeOK, Ids, Committed
  <2>2. CASE pending'.status \in {"published", "rejected"} /\ CommitIfThere(pending'.status)
    <3>1. pending'.status \in Markers
      BY <2>2 DEF Markers
    <3>. QED  BY <1>3, <2>2, <3>1, CommitIfThereAdds, KindsAreStrings
  <2>. QED  BY <1>6, <2>1, <2>2
<1>8. TypeOK'
  BY <1>1, <1>2, <1>3, <1>6, <1>7 DEF TypeOK
<1>9. StepsRight(p)
  <2>1. CommandOK(work[p], p)'
    BY <1>1, <1>2, <1>4 DEF CommandOK
  <2>. QED  BY <1>1, <1>2, <1>4, <2>1 DEF StepsRight
<1>10. KeepsFirst(p)
  <2>. SUFFICES ASSUME ~dropped', log' # <<>>, First
                PROVE  Backed(log, row)' /\ Coming(p)' /\ Written(p)'
    BY <1>7 DEF KeepsFirst
  <2>1. Backed(log, row) /\ Coming(p)
    BY <1>1, <1>4, <1>7 DEF First, StoreParams
  <2>2. Backed(log, row)'
    BY <1>1, <1>7, <2>1, KindsAreStrings DEF Backed
  <2>3. Coming(p)'
    BY <1>2, <1>6, <1>7, <2>1, KindsAreStrings DEF Coming
  <2>4. Written(p)'
    BY <1>2, <1>4 DEF Written
  <2>. QED  BY <2>2, <2>3, <2>4
<1>11. KeepsBetween(p)
  <2>. SUFFICES ASSUME clean' PROVE (\A q \in Procs \ {p} : ~Busy(q)) /\ Ends(p)'
    BY <1>2 DEF KeepsBetween
  <2>1. (\A q \in Procs \ {p} : ~Busy(q)) /\ Agree(log, pending)
    BY <1>1, <1>2 DEF StoreInv, Between, Ends
  <2>2. NewRow(p)' = pending'
    BY <1>1, <1>2, <1>4 DEF NewRow
  <2>3. Agree(log', pending')
    <3>1. CASE pending'.status = pending.status /\ UNCHANGED <<log, made>>
      BY <2>1, <3>1 DEF Agree
    <3>2. CASE pending.status = "sedimentation" /\ pending'.status \in {"published", "rejected"}
      <4>1. log # <<>>
        BY <2>1, <3>2 DEF Agree, Markers
      <4>. QED  BY <1>7, <3>2, <4>1, KindsAreStrings DEF Agree
    <3>. QED  BY <1>6, <3>1, <3>2
  <2>. QED  BY <1>2, <2>1, <2>2, <2>3 DEF Ends, Agree
<1>. QED  BY <1>1, <1>2, <1>7, <1>8, <1>9, <1>10, <1>11, OneStep

(* Nothing is committed and nothing stored.                                 *)
LEMMA AbandonStep ==
  ASSUME StoreParams, StoreInv, NEW p \in Procs, Fail(p) \/ Gone(p)
  PROVE  StoreInv'
<1>1. /\ work' = [work EXCEPT ![p] = Idle]
      /\ writer' = (IF writer = p THEN Nobody ELSE writer)
      /\ pending' = (IF writer = p THEN NoRow ELSE pending)
      /\ ~clean' /\ clean' \in BOOLEAN /\ Busy(p) /\ fails' \in {fails, fails + 1}
      /\ UNCHANGED <<log, made, row, dropped>>
  BY DEF Fail, Gone, Abandon, Busy
<1>2. TypeOK /\ made # 0
  BY <1>1, BusyMeans
<1>3. /\ work' \in [Procs -> Work] /\ work'[p] = Idle
      /\ \A q \in Procs \ {p} : work'[q] = work[q]
  BY <1>1, <1>2, IdleIsWork DEF TypeOK
<1>4. TypeOK'
  BY <1>1, <1>2, <1>3, IdleIsWork DEF TypeOK
<1>5. StepsRight(p)
  BY <1>1, <1>3 DEF StepsRight, CommandOK, StoreParams
<1>6. KeepsFirst(p)
  BY <1>1, <1>3, IdleIsWork DEF KeepsFirst, First, Backed, Written, Ids, Committed, StoreParams
<1>7. KeepsBetween(p)
  BY <1>1 DEF KeepsBetween
<1>. QED  BY <1>1, <1>2, <1>4, <1>5, <1>6, <1>7, OneStep

LEMMA TickStep ==
  ASSUME StoreParams, StoreInv, Tick
  PROVE  StoreInv'
<1>1. /\ row' = [row EXCEPT !.due = TRUE] /\ writer = Nobody /\ row.status = "sedimentation"
      /\ UNCHANGED <<log, made, writer, pending, work, fails, clean, dropped>>
  BY DEF Tick
<1>2. TypeOK /\ row \in Row
  BY DEF StoreInv, TypeOK
<1>3. row' \in Row /\ row'.status = row.status /\ row'.approvals = row.approvals
  BY <1>1, <1>2 DEF Row
<1>4. TypeOK'
  BY <1>1, <1>2, <1>3 DEF TypeOK
<1>5. made # 0
  BY <1>1, RowMeansCommit
<1>6. \A p \in Procs : CommandOK(work[p], p)'
  BY <1>1 DEF StoreInv, Shape, CommandOK
<1>7. Shape'
  BY <1>1, <1>5, <1>6 DEF StoreInv, Shape, Busy
<1>8. First'
  BY <1>1, <1>3 DEF StoreInv, First, Backed, Coming, Written
<1>9. Between'
  <2>. SUFFICES ASSUME clean
                PROVE  /\ \A p, q \in Procs : Busy(p)' /\ Busy(q)' => p = q
                       /\ (\A p \in Procs : ~Busy(p)') => Agree(log, row)'
                       /\ \A p \in Procs : Busy(p)' => Ends(p)'
    BY <1>1 DEF Between
  <2>1. /\ \A p, q \in Procs : Busy(p) /\ Busy(q) => p = q
        /\ (\A p \in Procs : ~Busy(p)) => Agree(log, row)
        /\ \A p \in Procs : Busy(p) => Ends(p)
    BY DEF StoreInv, Between
  <2>2. \A p \in Procs : Busy(p)' <=> Busy(p)
    BY <1>1 DEF Busy
  <2>3. (\A p \in Procs : ~Busy(p)') => Agree(log, row)'
    BY <1>1, <1>3, <2>1, <2>2 DEF Agree
  <2>4. ASSUME NEW p \in Procs, Busy(p)' PROVE Ends(p)'
    <3>1. Ends(p) /\ CommandOK(work[p], p) /\ CommandOK(work[p], p)' /\ writer # p
      BY <1>1, <1>6, <2>1, <2>2, <2>4 DEF StoreInv, Shape, StoreParams
    <3>2. work[p].pc \in {"marker", "store"} => NewRow(p)'.status = NewRow(p).status
      <4>. SUFFICES ASSUME work[p].pc \in {"marker", "store"}
                    PROVE  NewRow(p)'.status = NewRow(p).status
        OBVIOUS
      <4>1. /\ work[p].cmd = "create" => NewRow(p)'.status = "draft"
            /\ work[p].cmd = "review" \/ work[p].verdict = "extend" =>
                 NewRow(p)'.status = row'.status
            /\ work[p].cmd \in {"publish", "scan"} /\ work[p].verdict # "extend" =>
                 NewRow(p)'.status = work[p].verdict
            /\ work[p].cmd \in {"create", "review", "publish", "scan"}
        <5>. SUFFICES ASSUME work[p] # Idle
                      PROVE  /\ work[p].cmd = "create" => NewRow(p)'.status = "draft"
                             /\ work[p].cmd = "review" \/ work[p].verdict = "extend" =>
                                  NewRow(p)'.status = row'.status
                             /\ work[p].cmd \in {"publish", "scan"} /\ work[p].verdict # "extend" =>
                                  NewRow(p)'.status = work[p].verdict
                             /\ work[p].cmd \in {"create", "review", "publish", "scan"}
          BY IdleIsWork
        <5>1. /\ work' = work /\ writer' # p /\ row' \in Row /\ CommandOK(work[p], p)
              /\ work[p].charged + 1 \in Nat
          BY <1>1, <1>2, <1>3, <3>1 DEF TypeOK, Work, StoreParams
        <5>2. CASE work[p].cmd = "create"
          <6>1. NewRow(p)' = [row' EXCEPT !.status = "draft"] /\ work[p].verdict = "draft"
            BY <5>1, <5>2 DEF NewRow, CommandOK
          <6>. QED  BY <5>1, <5>2, <6>1 DEF Row
        <5>3. CASE work[p].cmd = "publish"
          <6>1. /\ NewRow(p)' = [row' EXCEPT !.status = "sedimentation", !.timed = TRUE, !.due = FALSE]
                /\ work[p].verdict = "sedimentation"
            BY <5>1, <5>3 DEF NewRow, CommandOK
          <6>. QED  BY <5>1, <5>3, <6>1 DEF Row
        <5>4. CASE work[p].cmd = "review"
          <6>1. /\ NewRow(p)' = [row' EXCEPT !.approvals = @ \cup {work[p].commit}]
                /\ work[p].verdict = "none"
            BY <5>1, <5>4 DEF NewRow, CommandOK
          <6>. QED  BY <5>1, <5>4, <6>1 DEF Row
        <5>5. CASE work[p].cmd = "scan" /\ work[p].verdict = "extend"
          <6>1. NewRow(p)' = [row' EXCEPT !.charged = work[p].charged + 1, !.due = FALSE]
            BY <5>1, <5>5 DEF NewRow
          <6>2. \A c \in Nat : [row' EXCEPT !.charged = c, !.due = FALSE].status = row'.status
            BY <5>1 DEF Row
          <6>. QED  BY <5>1, <5>5, <6>1, <6>2
        <5>6. CASE work[p].cmd = "scan" /\ work[p].verdict # "extend"
          <6>1. NewRow(p)' = [row' EXCEPT !.status = work[p].verdict]
            BY <5>1, <5>6 DEF NewRow
          <6>. QED  BY <5>1, <5>6, <6>1 DEF Row
        <5>7. work[p].cmd \in {"create", "review", "publish", "scan"}
          BY <3>1 DEF CommandOK
        <5>8. /\ work[p].cmd = "create" => work[p].verdict = "draft"
              /\ work[p].cmd = "publish" => work[p].verdict = "sedimentation"
          BY <3>1 DEF CommandOK
        <5>. QED  BY <5>2, <5>3, <5>4, <5>5, <5>6, <5>7, <5>8
      <4>. QED  BY <1>2, <1>3, <3>1, <4>1, NewRowIs
    <3>. QED  BY <1>1, <1>3, <3>1, <3>2 DEF Ends, Agree
  <2>. QED  BY <2>1, <2>2, <2>3, <2>4
<1>. QED  BY <1>4, <1>7, <1>8, <1>9 DEF StoreInv

LEMMA StoreNextInv ==
  ASSUME StoreParams, IncomingKinds, StoreInv, [Next]_vars
  PROVE  StoreInv'
<1>1. CASE UNCHANGED vars
  <2>1. UNCHANGED <<log, made, row, writer, pending, work, fails, clean, dropped>>
    BY <1>1 DEF vars
  <2>2. TypeOK' /\ Shape'
    BY <2>1 DEF StoreInv, TypeOK, Shape, CommandOK, Busy
  <2>3. First'
    BY <2>1 DEF StoreInv, First, Backed, Coming, Written
  <2>4. Between'
    BY <2>1 DEF StoreInv, Between, Ends, Agree, Busy, NewRow
  <2>. QED  BY <2>2, <2>3, <2>4 DEF StoreInv
<1>2. ASSUME NEW p \in Procs, Start(p) PROVE StoreInv'
  <2>1. CASE \E kind \in Incoming : PullMerge(p, kind)
    BY <2>1, PullMergeStep DEF IncomingKinds
  <2>. QED  BY <1>2, <2>1, CreateStep, BeginReadingSteps DEF Start
<1>3. ASSUME NEW p \in Procs, ScanBegin(p) PROVE StoreInv'
  BY <1>3, ScanBeginStep
<1>4. ASSUME NEW p \in Procs, Continue(p) PROVE StoreInv'
  BY <1>4, CommitFileStep, LockStep, CommitMarkerStep, RemoveRepoStep, StoreStep, ReconcileStep,
     UndoStep, PullScanStep, AbandonStep DEF Continue
<1>5. ASSUME NEW p \in Procs, Fail(p) PROVE StoreInv'
  BY <1>5, AbandonStep
<1>6. CASE Tick
  BY <1>6, TickStep
<1>. QED  BY <1>1, <1>2, <1>3, <1>4, <1>5, <1>6 DEF Next

LEMMA StoreAlways == Spec => []StoreInv
<1>1. Init => StoreInv
  BY StoreParams, StoreInitInv
<1>2. StoreInv /\ [Next]_vars => StoreInv'
  BY StoreParams, IncomingKinds, StoreNextInv
<1>. QED  BY <1>1, <1>2, PTL DEF Spec

-----------------------------------------------------------------------------
(* The two stores and the commands under way keep their types: in           *)
(* particular the commands only go through the steps and verdicts declared. *)
THEOREM StoreTypes == Spec => []TypeOK
<1>1. StoreInv => TypeOK
  BY DEF StoreInv
<1>. QED  BY <1>1, StoreAlways, PTL

(* Git is the source of truth, for every number of processes, whatever      *)
(* crashes between two commits or stores and whoever interleaves: what the  *)
(* row says was committed before, as long as no failed pull was undone      *)
(* that overlapped with another command.                                   *)
THEOREM GitComesFirst == Spec => []GitFirst
<1>1. StoreInv => GitFirst
  BY DEF StoreInv, First, GitFirst, Backed, Committed, Ids, Has
<1>. QED  BY <1>1, StoreAlways, PTL

(* Commands that run one after the other leave the repository and the       *)
(* database in agreement, and so does a pull after commands that failed     *)
(* halfway, whatever the window that the repair searches.                   *)
THEOREM StoresAgree == Spec => []CleanAgrees
<1>1. StoreInv => CleanAgrees
  BY DEF StoreInv, Between, CleanAgrees, Agree, Exists
<1>. QED  BY <1>1, StoreAlways, PTL
=============================================================================
