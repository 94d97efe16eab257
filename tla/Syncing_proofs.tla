--------------------------- MODULE Syncing_proofs ---------------------------
(***************************************************************************)
(* What comes from other devices: commits, follows and the answers of     *)
(* health probes.  For any devices, users and servers.                     *)
(***************************************************************************)
EXTENDS Parts, FiniteSetTheorems, WellFoundedInduction, TLAPS

SyncPcs == {"idle", "fetch", "upload", "search", "pull", "merge", "push", "commit"}
SyncAnswers == {"none", "exists", "error", "conflict", "not_found", "synced"}
SyncJob == [pc : SyncPcs, local : Nat, remote : Nat, base : Nat]

SyncClosed == \A c \in Bs!Commits : \A b \in bsPast[c] : bsPast[b] \subseteq bsPast[c]

SyncInv == Bs!TypeOK /\ bsPast \in Seq(SUBSET Nat) /\ SyncClosed

(* What a commit knows only grows with the list of commits.                *)
SyncGrows == Len(bsPast) <= Len(bsPast') /\ \A c \in Bs!Commits : bsPast'[c] = bsPast[c]

LEMMA SyncTypeOfJob == Bs!TypeOK => bsJob \in [Devices -> SyncJob] /\ bsAnswer \in [Devices -> SyncAnswers]
  BY DEF Bs!TypeOK, SyncJob, SyncPcs, SyncAnswers

LEMMA SyncBasics ==
  ASSUME Bs!SyncParams, SyncInv
  PROVE  /\ Len(bsPast) \in Nat /\ Bs!None \notin Bs!Commits /\ MaxFails \in Nat
         /\ \A d \in Devices : d \in Bs!Repos /\ d # Server
         /\ Server \in Bs!Repos
  BY DEF Bs!SyncParams, SyncInv, Bs!Commits, Bs!None, Bs!Repos

(* A new commit over known ones.                                           *)
LEMMA SyncNewCommit ==
  ASSUME Bs!SyncParams, SyncInv, NEW parents \in SUBSET (Bs!Commits \cup {Bs!None}),
         Bs!Recorded(Bs!NextCommit, parents)
  PROVE  /\ bsPast' \in Seq(SUBSET Nat) /\ Len(bsPast') = Len(bsPast) + 1 /\ SyncGrows
         /\ Bs!Commits' = Bs!Commits \cup {Bs!NextCommit} /\ Bs!NextCommit \in Bs!Commits'
         /\ \A c \in Bs!Commits' : bsPast'[c] \subseteq Bs!Commits' /\ c \in bsPast'[c]
         /\ SyncClosed'
         /\ \A p \in parents : Bs!History(p) \subseteq bsPast'[Bs!NextCommit]
<1> DEFINE n == Len(bsPast) + 1
           new == {n} \cup UNION {Bs!History(p) : p \in parents}
<1>1. Len(bsPast) \in Nat /\ bsPast \in Seq(SUBSET Nat) /\ Bs!None \notin Bs!Commits
  BY SyncBasics DEF SyncInv
<1>2. \A p \in parents : Bs!History(p) \subseteq Bs!Commits
  BY <1>1 DEF Bs!History, SyncInv, Bs!TypeOK
<1>3. new \in SUBSET Nat /\ new \subseteq 1 .. n
  BY <1>1, <1>2 DEF Bs!Commits
<1>4. bsPast' = Append(bsPast, new)
  BY DEF Bs!Recorded, Bs!NextCommit
<1>. HIDE DEF new
<1>5. bsPast' \in Seq(SUBSET Nat) /\ Len(bsPast') = n /\ bsPast'[n] = new
      /\ \A c \in Bs!Commits : bsPast'[c] = bsPast[c]
  BY <1>1, <1>3, <1>4 DEF Bs!Commits
<1>6. Bs!Commits' = 1 .. n /\ Bs!Commits' = Bs!Commits \cup {n}
  BY <1>1, <1>5 DEF Bs!Commits
<1>7. \A c \in Bs!Commits' : bsPast'[c] \subseteq Bs!Commits' /\ c \in bsPast'[c]
  <2>1. n \in new
    BY DEF new
  <2>. QED  BY <1>3, <1>5, <1>6, <2>1 DEF SyncInv, Bs!TypeOK
<1>8. ASSUME NEW c \in Bs!Commits', NEW b \in bsPast'[c] PROVE bsPast'[b] \subseteq bsPast'[c]
  <2>1. CASE c \in Bs!Commits
    BY <1>5, <2>1 DEF SyncInv, SyncClosed, Bs!TypeOK
  <2>2. CASE c = n /\ b = n
    BY <2>2
  <2>3. CASE c = n /\ b # n
    <3>1. PICK p \in parents : b \in Bs!History(p)
      BY <1>2, <1>5, <2>3 DEF new
    <3>2. bsPast[b] \subseteq Bs!History(p) /\ b \in Bs!Commits
      BY <1>2, <3>1 DEF SyncInv, SyncClosed, Bs!History
    <3>3. Bs!History(p) \subseteq new
      BY <1>2 DEF new
    <3>. QED  BY <1>5, <2>3, <3>2, <3>3
  <2>. QED  BY <1>6, <2>1, <2>2, <2>3
<1>9. \A p \in parents : Bs!History(p) \subseteq new
  BY <1>2 DEF new
<1>. QED  BY <1>1, <1>5, <1>6, <1>7, <1>8, <1>9 DEF SyncClosed, SyncGrows, Bs!NextCommit

-----------------------------------------------------------------------------
LEMMA SyncInitInv == ASSUME Bs!SyncParams, Bs!Init PROVE SyncInv
<1>1. bsPast = <<{1}>> /\ Len(bsPast) = 1 /\ bsPast[1] = {1} /\ Bs!Commits = {1}
  BY DEF Bs!Init, Bs!Commits
<1>2. Bs!Idle \in SyncJob
  BY DEF Bs!Idle, Bs!JobAt, SyncJob, SyncPcs, Bs!None
<1>3. bsHead \in [Bs!Repos -> {1, Bs!None}] /\ bsRow \in [Bs!Repos -> {1, Bs!None}]
  BY DEF Bs!Init
<1>4. bsJob \in [Devices -> SyncJob]
  BY <1>2 DEF Bs!Init
<1>5. Bs!TypeOK
  <2>1. \A c \in Bs!Commits : bsPast[c] \subseteq Bs!Commits /\ c \in bsPast[c]
    BY <1>1
  <2>2. bsSession = [d \in Devices |-> Bs!None] /\ bsAnswer = [d \in Devices |-> "none"]
        /\ bsFails = 0 /\ bsClashed = FALSE /\ bsBehind = {}
    BY DEF Bs!Init
  <2>3. bsSession \in [Devices -> Bs!Commits \cup {Bs!None}] /\ bsAnswer \in [Devices -> SyncAnswers]
    <3>1. "none" \in SyncAnswers
      BY DEF SyncAnswers
    <3>. QED  BY <2>2, <3>1
  <2>4. bsFails \in 0 .. MaxFails
    BY <2>2 DEF Bs!SyncParams
  <2>5. bsClashed \in BOOLEAN /\ bsBehind \subseteq Bs!Repos
    BY <2>2
  <2>. QED  BY <1>1, <1>3, <1>4, <2>1, <2>3, <2>4, <2>5 DEF Bs!TypeOK, SyncJob, SyncPcs, SyncAnswers
<1>. QED  BY <1>1, <1>5 DEF SyncInv, SyncClosed

(* Everything but the HEADs is typed anew by each step alike.              *)
SyncHeads == bsHead' \in [Bs!Repos -> Bs!Commits' \cup {Bs!None}]
SyncRestTyped ==
  /\ bsRow' \in [Bs!Repos -> Bs!Commits' \cup {Bs!None}]
  /\ bsSession' \in [Devices -> Bs!Commits' \cup {Bs!None}]
  /\ bsJob' \in [Devices -> SyncJob]
  /\ bsAnswer' \in [Devices -> SyncAnswers]
  /\ bsFails' \in 0..MaxFails
  /\ bsClashed' \in BOOLEAN
  /\ bsBehind' \subseteq Bs!Repos

SyncKeeps == \A r \in Bs!Repos : Bs!History(bsHead[r]) \subseteq Bs!History(bsHead[r])'

LEMMA SyncSameHeads ==
  ASSUME Bs!SyncParams, SyncInv, UNCHANGED <<bsPast, bsHead>>, SyncRestTyped
  PROVE  SyncInv' /\ SyncKeeps
  BY DEF SyncInv, Bs!TypeOK, SyncRestTyped, SyncJob, SyncPcs, SyncAnswers, SyncClosed, Bs!Commits, SyncKeeps, Bs!History

(* A HEAD that moves within the known commits to a descendant, or from none. *)
LEMMA SyncOneHead ==
  ASSUME Bs!SyncParams, SyncInv, NEW r \in Bs!Repos, NEW h \in Bs!Commits, UNCHANGED bsPast,
         bsHead' = [bsHead EXCEPT ![r] = h], bsHead[r] = Bs!None \/ bsHead[r] \in bsPast[h], SyncRestTyped
  PROVE  SyncInv' /\ SyncKeeps
<1>1. Bs!Commits' = Bs!Commits /\ h # Bs!None
  BY SyncBasics DEF Bs!Commits
<1>2. bsHead' \in [Bs!Repos -> Bs!Commits \cup {Bs!None}]
  BY DEF SyncInv, Bs!TypeOK
<1>3. SyncInv'
  BY <1>1, <1>2 DEF SyncInv, Bs!TypeOK, SyncRestTyped, SyncJob, SyncPcs, SyncAnswers, SyncClosed, Bs!Commits
<1>4. bsHead[r] # Bs!None => bsPast[bsHead[r]] \subseteq bsPast[h]
  BY DEF SyncInv, SyncClosed
<1>5. Bs!History(bsHead[r]) \subseteq bsPast[h]
  BY <1>4 DEF Bs!History
<1>6. \A s \in Bs!Repos : bsHead'[s] = IF s = r THEN h ELSE bsHead[s]
  BY DEF SyncInv, Bs!TypeOK
<1>. QED  BY <1>1, <1>3, <1>5, <1>6 DEF SyncKeeps, Bs!History

(* A HEAD that moves to a new commit over it.                              *)
LEMMA SyncNewHead ==
  ASSUME Bs!SyncParams, SyncInv, NEW r \in Bs!Repos, NEW parents \in SUBSET (Bs!Commits \cup {Bs!None}),
         Bs!Recorded(Bs!NextCommit, parents), bsHead' = [bsHead EXCEPT ![r] = Bs!NextCommit],
         bsHead[r] \in parents, SyncRestTyped
  PROVE  SyncInv' /\ SyncKeeps
<1>1. SyncInv'
  BY SyncNewCommit DEF SyncInv, Bs!TypeOK, SyncRestTyped, SyncJob, SyncPcs, SyncAnswers
<1>2. \A s \in Bs!Repos : bsHead'[s] = IF s = r THEN Bs!NextCommit ELSE bsHead[s]
  BY DEF SyncInv, Bs!TypeOK
<1>3. Bs!NextCommit # Bs!None
  BY SyncBasics DEF Bs!NextCommit, Bs!None
<1>4. ASSUME NEW s \in Bs!Repos PROVE Bs!History(bsHead[s]) \subseteq Bs!History(bsHead[s])'
  <2>1. CASE s = r
    BY <1>2, <1>3, <2>1, SyncNewCommit, SyncBasics DEF Bs!History
  <2>2. CASE s # r
    BY <1>2, <2>2, SyncNewCommit DEF Bs!History, SyncGrows, SyncInv, Bs!TypeOK
  <2>. QED  BY <2>1, <2>2
<1>. QED  BY <1>1, <1>4 DEF SyncKeeps

(* How a job goes on.                                                      *)
SyncJobTyped == bsJob' \in [Devices -> SyncJob] /\ bsAnswer' \in [Devices -> SyncAnswers]

LEMMA SyncJobEnds ==
  ASSUME SyncInv, NEW d \in Devices, NEW how \in SyncAnswers, Bs!End(d, how)
  PROVE  SyncJobTyped
<1>1. bsJob \in [Devices -> SyncJob] /\ bsAnswer \in [Devices -> SyncAnswers] /\ Bs!Idle \in SyncJob
  BY SyncTypeOfJob DEF SyncInv, Bs!TypeOK, Bs!Idle, Bs!JobAt, SyncJob, SyncPcs, Bs!None
<1>. QED  BY <1>1 DEF Bs!End, SyncJobTyped

LEMMA SyncJobGoes ==
  ASSUME SyncInv, NEW d \in Devices, NEW pc \in SyncPcs, Bs!Goto(d, pc)
  PROVE  SyncJobTyped
<1>1. bsJob \in [Devices -> SyncJob] /\ bsAnswer \in [Devices -> SyncAnswers]
  BY SyncTypeOfJob DEF SyncInv, Bs!TypeOK
<1>. QED  BY <1>1 DEF Bs!Goto, SyncJob, SyncJobTyped

(* The devices and the server without their requests.                      *)
LEMMA SyncEditStep == ASSUME Bs!SyncParams, SyncInv, NEW r \in Bs!Repos, Bs!Edit(r) PROVE SyncInv' /\ SyncKeeps
<1>1. Bs!Recorded(Bs!NextCommit, {bsHead[r]}) /\ bsHead[r] \in Bs!Commits
  BY DEF Bs!Edit, SyncInv, Bs!TypeOK
<1>2. Bs!NextCommit \in Bs!Commits' /\ Bs!Commits \subseteq Bs!Commits'
  BY <1>1, SyncNewCommit
<1>3. SyncRestTyped
  BY <1>2, SyncTypeOfJob DEF Bs!Edit, SyncInv, Bs!TypeOK, SyncRestTyped
<1>. QED  BY <1>1, <1>3, SyncNewHead DEF Bs!Edit

LEMMA SyncAskSteps ==
  ASSUME Bs!SyncParams, SyncInv, NEW d \in Devices,
         Bs!Start(d) \/ Bs!FetchHead(d) \/ Bs!Search(d) \/ Bs!ProbesRefused(d)
  PROVE  SyncInv' /\ SyncKeeps
<1>1. /\ bsJob \in [Devices -> SyncJob] /\ bsAnswer \in [Devices -> SyncAnswers]
      /\ d \in Bs!Repos /\ Server \in Bs!Repos /\ Bs!Commits \subseteq Nat
      /\ bsHead \in [Bs!Repos -> Bs!Commits \cup {Bs!None}]
  <2>1. Bs!Commits \subseteq Nat
    BY DEF Bs!Commits
  <2>. QED  BY <2>1, SyncBasics, SyncTypeOfJob DEF SyncInv, Bs!TypeOK
<1>2. ASSUME UNCHANGED <<bsPast, bsRow, bsSession, bsAnswer, bsFails, bsClashed, bsBehind>>,
             bsJob' \in [Devices -> SyncJob]
      PROVE  SyncRestTyped
  BY <1>1, <1>2 DEF SyncRestTyped, SyncInv, Bs!TypeOK, Bs!Commits
<1>3. CASE Bs!Start(d)
  <2>1. bsHead[d] \in Nat /\ Bs!None \in Nat
    <3>1. Bs!None \in Nat
      BY DEF Bs!None
    <3>. QED  BY <1>1, <3>1
  <2>2. Bs!JobAt("fetch", bsHead[d], Bs!None, Bs!None) \in SyncJob
    BY <2>1 DEF Bs!JobAt, SyncJob, SyncPcs
  <2>3. bsJob' \in [Devices -> SyncJob]
    BY <1>1, <1>3, <2>2 DEF Bs!Start
  <2>. QED  BY <1>3, <1>2, <2>3, SyncSameHeads DEF Bs!Start
<1>4. CASE Bs!FetchHead(d)
  <2>1. bsJob' \in [Devices -> SyncJob]
    BY <1>1, <1>4 DEF Bs!FetchHead, Bs!JobAt, SyncJob, SyncPcs, Bs!None, SyncInv, Bs!TypeOK
  <2>. QED  BY <1>4, <1>2, <2>1, SyncSameHeads DEF Bs!FetchHead
<1>5. ASSUME NEW base \in Nat, Bs!Based(d, base) PROVE bsJob' \in [Devices -> SyncJob]
  BY <1>1, <1>5 DEF Bs!Based, Bs!JobAt, SyncJob, SyncPcs
<1>6. bsHead[d] \in Nat /\ bsJob[d].remote \in Nat /\ Bs!History(bsHead[d]) \subseteq Nat
  <2>1. bsHead[d] \in Nat
    <3>1. Bs!None \in Nat
      BY DEF Bs!None
    <3>. QED  BY <1>1, <3>1
  <2>2. bsJob[d].remote \in Nat
    BY <1>1 DEF SyncJob
  <2>3. Bs!History(bsHead[d]) \subseteq Bs!Commits
    BY <1>1 DEF SyncInv, Bs!TypeOK, Bs!History
  <2>. QED  BY <1>1, <2>1, <2>2, <2>3
<1>7. CASE Bs!Search(d)
  <2>1. bsJob' \in [Devices -> SyncJob]
    BY <1>5, <1>6, <1>7 DEF Bs!Search
  <2>. QED  BY <1>7, <1>2, <2>1, SyncSameHeads DEF Bs!Search
<1>8. CASE Bs!ProbesRefused(d)
  <2>1. bsJob' \in [Devices -> SyncJob]
    BY <1>5, <1>6, <1>8 DEF Bs!ProbesRefused
  <2>2. bsFails' \in 0 .. MaxFails
    BY <1>8, SyncBasics DEF Bs!ProbesRefused, SyncInv, Bs!TypeOK
  <2>3. SyncRestTyped
    BY <1>1, <1>8, <2>1, <2>2 DEF Bs!ProbesRefused, SyncRestTyped, SyncInv, Bs!TypeOK, Bs!Commits
  <2>. QED  BY <1>8, <2>3, SyncSameHeads DEF Bs!ProbesRefused
<1>. QED  BY <1>3, <1>4, <1>7, <1>8

LEMMA SyncUploadStep == ASSUME Bs!SyncParams, SyncInv, NEW d \in Devices, Bs!Upload(d) PROVE SyncInv' /\ SyncKeeps
<1>1. /\ d \in Bs!Repos /\ Server \in Bs!Repos /\ bsHead[d] \in Bs!Commits \cup {Bs!None}
      /\ UNCHANGED <<bsPast, bsRow, bsSession, bsFails, bsClashed, bsBehind>>
  BY SyncBasics DEF Bs!Upload, SyncInv, Bs!TypeOK
<1>2. SyncJobTyped
  <2>1. "exists" \in SyncAnswers /\ "commit" \in SyncPcs
    BY DEF SyncAnswers, SyncPcs
  <2>. QED  BY <2>1, SyncJobEnds, SyncJobGoes DEF Bs!Upload
<1>3. SyncRestTyped
  BY <1>1, <1>2 DEF SyncJobTyped, SyncRestTyped, SyncInv, Bs!TypeOK, Bs!Commits
<1>4. CASE bsHead[Server] = Bs!None /\ bsHead' = [bsHead EXCEPT ![Server] = bsHead[d]]
  <2>1. CASE bsHead[d] = Bs!None
    <3>1. bsHead' = bsHead
      BY <1>1, <1>4, <2>1 DEF SyncInv, Bs!TypeOK
    <3>. QED  BY <1>1, <1>3, <3>1, SyncSameHeads
  <2>. QED  BY <1>1, <1>3, <1>4, <2>1, SyncOneHead
<1>5. CASE UNCHANGED bsHead
  BY <1>1, <1>3, <1>5, SyncSameHeads
<1>. QED  BY <1>4, <1>5 DEF Bs!Upload, Bs!Unpacked

LEMMA SyncPullStep == ASSUME Bs!SyncParams, SyncInv, NEW d \in Devices, Bs!Pull(d) PROVE SyncInv' /\ SyncKeeps
<1> DEFINE theirs == bsHead[Server]
<1>1. /\ d \in Bs!Repos /\ Server \in Bs!Repos /\ bsHead[d] \in Bs!Commits \cup {Bs!None}
      /\ UNCHANGED <<bsRow, bsFails, bsClashed, bsBehind>>
  BY SyncBasics DEF Bs!Pull, SyncInv, Bs!TypeOK
<1>2. SyncJobTyped
  <2>1. (IF bsJob[d].pc = "pull" THEN "commit" ELSE "push") \in SyncPcs
    BY DEF SyncPcs
  <2>. QED  BY <2>1, SyncJobGoes DEF Bs!Pull
<1>3. theirs \in Bs!Commits
  <2>1. Bs!Bundle(bsJob[d].base, Server) # {}
    BY DEF Bs!Pull
  <2>2. Bs!History(theirs) # {}
    BY <2>1 DEF Bs!Bundle
  <2>. QED  BY <1>1, <2>2 DEF Bs!History, SyncInv, Bs!TypeOK
<1>4. ASSUME Bs!Commits \subseteq Bs!Commits', NEW c \in Bs!Commits' \cup {Bs!None}, Bs!Mirrored(d, c)
      PROVE  SyncRestTyped
  BY <1>1, <1>2, <1>4 DEF SyncJobTyped, Bs!Mirrored, SyncRestTyped, SyncInv, Bs!TypeOK
<1>5. UNCHANGED bsPast => Bs!Commits' = Bs!Commits
  BY DEF Bs!Commits
<1>6. CASE Bs!Mirrored(d, bsHead[d]) /\ UNCHANGED <<bsPast, bsHead>>
  BY <1>1, <1>4, <1>5, <1>6, SyncSameHeads
<1>7. CASE Bs!FastForwards(bsHead[d], theirs) /\ bsHead' = [bsHead EXCEPT ![d] = theirs]
           /\ Bs!Mirrored(d, theirs) /\ UNCHANGED bsPast
  <2>1. bsHead[d] \in bsPast[theirs]
    BY <1>3, <1>7, SyncBasics DEF Bs!FastForwards, Bs!History
  <2>. QED  BY <1>1, <1>3, <1>4, <1>5, <1>7, <2>1, SyncOneHead
<1>8. CASE Bs!Recorded(Bs!NextCommit, {bsHead[d], theirs}) /\ bsHead' = [bsHead EXCEPT ![d] = Bs!NextCommit]
           /\ Bs!Mirrored(d, Bs!NextCommit)
  <2>1. {bsHead[d], theirs} \in SUBSET (Bs!Commits \cup {Bs!None})
    BY <1>1, <1>3
  <2>2. Bs!NextCommit \in Bs!Commits' /\ Bs!Commits \subseteq Bs!Commits'
    BY <1>8, <2>1, SyncNewCommit
  <2>. QED  BY <1>1, <1>4, <1>8, <2>1, <2>2, SyncNewHead
<1>. QED  BY <1>6, <1>7, <1>8 DEF Bs!Pull

(* The server takes a push over what it has, or has all of it.             *)
LEMMA SyncServerHead ==
  ASSUME Bs!SyncParams, SyncInv, NEW d \in Devices, Bs!Accepts(d)
  PROVE  LET h == IF Bs!UpToDate(bsHead[Server], bsHead[d]) THEN bsHead[Server] ELSE bsHead[d]
         IN  h \in Bs!Commits /\ bsHead[Server] \in bsPast[h]
<1>1. d \in Bs!Repos /\ Server \in Bs!Repos /\ bsHead[d] \in Bs!Commits /\ Bs!None \notin Bs!Commits
  <2>1. Bs!History(bsHead[d]) # {}
    BY DEF Bs!Accepts, Bs!Bundle
  <2>. QED  BY <2>1, SyncBasics DEF Bs!History, SyncInv, Bs!TypeOK
<1>2. CASE Bs!UpToDate(bsHead[Server], bsHead[d])
  <2>1. bsHead[Server] \in Bs!Commits
    BY <1>1, <1>2 DEF Bs!UpToDate, Bs!History, SyncInv, Bs!TypeOK
  <2>. QED  BY <1>2, <2>1 DEF SyncInv, Bs!TypeOK
<1>3. CASE ~Bs!UpToDate(bsHead[Server], bsHead[d])
  <2>1. bsHead[Server] \in bsPast[bsHead[d]]
    BY <1>1, <1>3 DEF Bs!Accepts, Bs!FastForwards, Bs!History
  <2>. QED  BY <1>1, <1>3, <2>1
<1>. QED  BY <1>2, <1>3

LEMMA SyncPushSteps ==
  ASSUME Bs!SyncParams, SyncInv, NEW d \in Devices, Bs!Push(d) \/ Bs!AnswerLost(d)
  PROVE  SyncInv' /\ SyncKeeps
<1> DEFINE h == IF Bs!UpToDate(bsHead[Server], bsHead[d]) THEN bsHead[Server] ELSE bsHead[d]
<1>1. Bs!Accepts(d) /\ UNCHANGED bsPast /\ bsHead' = [bsHead EXCEPT ![Server] = h]
  BY DEF Bs!Push, Bs!AnswerLost
<1>2. h \in Bs!Commits /\ bsHead[Server] \in bsPast[h] /\ Server \in Bs!Repos /\ d \in Bs!Repos
  BY <1>1, SyncServerHead, SyncBasics
<1>. HIDE DEF h
<1>3. Bs!Commits' = Bs!Commits
  BY <1>1 DEF Bs!Commits
<1>4. SyncRestTyped
  <2>1. CASE Bs!Push(d)
    <3>1. bsRow' = [bsRow EXCEPT ![Server] = h] /\ UNCHANGED <<bsSession, bsFails, bsClashed>>
          /\ bsBehind' \subseteq bsBehind /\ Bs!Goto(d, "commit")
      BY <2>1 DEF Bs!Push, h
    <3>2. "commit" \in SyncPcs
      BY DEF SyncPcs
    <3>3. SyncJobTyped
      BY <3>1, <3>2, SyncJobGoes
    <3>. QED  BY <1>2, <1>3, <3>1, <3>3 DEF SyncJobTyped, SyncRestTyped, SyncInv, Bs!TypeOK
  <2>2. CASE Bs!AnswerLost(d)
    <3>1. bsRow' \in {bsRow, [bsRow EXCEPT ![Server] = h]} /\ UNCHANGED <<bsSession, bsClashed>>
          /\ bsBehind' \subseteq bsBehind \cup {d, Server} /\ Bs!End(d, "error")
          /\ bsFails < MaxFails /\ bsFails' = bsFails + 1
      BY <2>2 DEF Bs!AnswerLost, h
    <3>2. bsFails' \in 0 .. MaxFails
      BY <3>1, SyncBasics DEF SyncInv, Bs!TypeOK
    <3>3. "error" \in SyncAnswers
      BY DEF SyncAnswers
    <3>4. SyncJobTyped
      BY <3>1, <3>3, SyncJobEnds
    <3>. QED  BY <1>2, <1>3, <3>1, <3>2, <3>4 DEF SyncJobTyped, SyncRestTyped, SyncInv, Bs!TypeOK
  <2>. QED  BY <2>1, <2>2
<1>. QED  BY <1>1, <1>2, <1>4, SyncOneHead

(* What ends a sync, or takes part of it back.                             *)
LEMMA SyncEndSteps ==
  ASSUME Bs!SyncParams, SyncInv, NEW d \in Devices,
         Bs!PullFails(d) \/ Bs!Refused(d) \/ Bs!Synced(d) \/ Bs!RequestFails(d) \/ Bs!Crash(d)
  PROVE  SyncInv' /\ SyncKeeps
<1>1. d \in Bs!Repos /\ UNCHANGED <<bsPast, bsHead>>
  BY SyncBasics DEF Bs!PullFails, Bs!Refused, Bs!Synced, Bs!RequestFails, Bs!Crash
<1>2. SyncJobTyped
  <2>1. {"error", "conflict", "not_found", "synced", "none"} \subseteq SyncAnswers
    BY DEF SyncAnswers
  <2>. QED  BY <2>1, SyncJobEnds DEF Bs!PullFails, Bs!Refused, Bs!Synced, Bs!RequestFails, Bs!Crash
<1>3. bsFails' \in 0 .. MaxFails
  BY SyncBasics DEF Bs!PullFails, Bs!Refused, Bs!Synced, Bs!RequestFails, Bs!Crash, SyncInv, Bs!TypeOK
<1>4. bsClashed' \in BOOLEAN /\ bsBehind' \subseteq Bs!Repos
  BY <1>1 DEF Bs!PullFails, Bs!Refused, Bs!Synced, Bs!RequestFails, Bs!Crash, SyncInv, Bs!TypeOK
<1>5. bsRow' \in [Bs!Repos -> Bs!Commits \cup {Bs!None}] /\ bsSession' \in [Devices -> Bs!Commits \cup {Bs!None}]
  BY <1>1 DEF Bs!PullFails, Bs!Refused, Bs!Synced, Bs!RequestFails, Bs!Crash, SyncInv, Bs!TypeOK
<1>6. SyncRestTyped
  BY <1>1, <1>2, <1>3, <1>4, <1>5 DEF SyncJobTyped, SyncRestTyped, Bs!Commits
<1>. QED  BY <1>1, <1>6, SyncSameHeads

LEMMA SyncPullNewStep == ASSUME Bs!SyncParams, SyncInv, NEW d \in Devices, Bs!PullNew(d) PROVE SyncInv' /\ SyncKeeps
<1>1. /\ d \in Bs!Repos /\ Server \in Bs!Repos /\ bsHead[Server] \in Bs!Commits \cup {Bs!None}
      /\ UNCHANGED <<bsPast, bsRow, bsFails, bsClashed>>
  BY SyncBasics DEF Bs!PullNew, SyncInv, Bs!TypeOK
<1>2. CASE /\ bsHead[d] = Bs!None /\ bsHead' = [bsHead EXCEPT ![d] = bsHead[Server]]
           /\ bsSession' = [bsSession EXCEPT ![d] = bsRow[Server]]
           /\ bsBehind' = IF bsRow[Server] = bsHead[Server] THEN bsBehind ELSE bsBehind \cup {d}
           /\ bsJob' = [bsJob EXCEPT ![d] = Bs!JobAt("fetch", bsHead[Server], Bs!None, Bs!None)]
           /\ UNCHANGED bsAnswer
  <2>1. Bs!JobAt("fetch", bsHead[Server], Bs!None, Bs!None) \in SyncJob
    BY <1>1 DEF Bs!JobAt, SyncJob, SyncPcs, Bs!None, Bs!Commits
  <2>2. SyncRestTyped
    BY <1>1, <1>2, <2>1, SyncTypeOfJob DEF SyncRestTyped, SyncInv, Bs!TypeOK, Bs!Commits
  <2>3. CASE bsHead[Server] = Bs!None
    <3>1. bsHead' = bsHead
      BY <1>1, <1>2, <2>3 DEF SyncInv, Bs!TypeOK
    <3>. QED  BY <1>1, <2>2, <3>1, SyncSameHeads
  <2>. QED  BY <1>1, <1>2, <2>2, <2>3, SyncOneHead
<1>3. CASE bsAnswer' = [bsAnswer EXCEPT ![d] = "exists"] /\ UNCHANGED <<bsHead, bsSession, bsBehind, bsJob>>
  <2>1. "exists" \in SyncAnswers
    BY DEF SyncAnswers
  <2>2. SyncRestTyped
    BY <1>1, <1>3, <2>1, SyncTypeOfJob DEF SyncRestTyped, SyncInv, Bs!TypeOK, Bs!Commits
  <2>. QED  BY <1>1, <1>3, <2>2, SyncSameHeads
<1>. QED  BY <1>2, <1>3 DEF Bs!PullNew, Bs!Unpacked

LEMMA SyncNextKeeps == ASSUME Bs!SyncParams, SyncInv, [Bs!Next]_Bs!vars PROVE SyncInv' /\ SyncKeeps
<1>1. CASE UNCHANGED Bs!vars
  <2>1. SyncRestTyped
    BY <1>1, SyncTypeOfJob DEF Bs!vars, SyncRestTyped, SyncInv, Bs!TypeOK, Bs!Commits
  <2>. QED  BY <1>1, <2>1, SyncSameHeads DEF Bs!vars
<1>2. ASSUME NEW d \in Devices,
             Bs!Start(d) \/ Bs!PullNew(d) \/ Bs!Continue(d) \/ Bs!RequestFails(d) \/ Bs!ProbesRefused(d)
             \/ Bs!AnswerLost(d) \/ Bs!Crash(d)
      PROVE  SyncInv' /\ SyncKeeps
  BY <1>2, SyncAskSteps, SyncUploadStep, SyncPullStep, SyncPushSteps, SyncEndSteps, SyncPullNewStep DEF Bs!Continue
<1>. QED  BY <1>1, <1>2, SyncEditStep DEF Bs!Next

-----------------------------------------------------------------------------
(* Rows and repositories.  A sync that comes from a new article (PullNew) is *)
(* never refused on its way to the commit: the device has what the server    *)
(* had, and can only fast-forward.                                          *)
SyncTaken(d) ==
  /\ bsJob[d].pc \in {"fetch", "search", "pull", "merge", "push", "commit"}
  /\ bsJob[d].pc \in {"fetch", "search", "pull", "merge"} =>
       bsRow[d] = Bs!None /\ bsJob[d].local = bsHead[d] /\ bsHead[d] \in Bs!History(bsHead[Server])
  /\ bsJob[d].pc = "search" => bsJob[d].remote \in Bs!History(bsHead[Server]) \ Bs!History(bsHead[d])
  /\ bsJob[d].pc \in {"pull", "merge"} =>
       bsJob[d].base \in Bs!History(bsHead[d]) /\ bsHead[Server] \notin Bs!History(bsHead[d])

SyncDeviceRow(d) ==
  /\ bsHead[d] = Bs!None => bsRow[d] = Bs!None /\ bsSession[d] = Bs!None
  /\ d \notin bsBehind => /\ bsSession[d] \in {Bs!None, bsHead[d]}
                          /\ bsRow[d] # bsHead[d] => bsSession[d] = bsHead[d] /\ SyncTaken(d)

SyncServerRow ==
  /\ bsHead[Server] = Bs!None => bsRow[Server] = Bs!None
  /\ Server \notin bsBehind => bsRow[Server] \in {Bs!None, bsHead[Server]}

(* A commit comes after its ancestors.                                      *)
SyncOrder == \A c \in Bs!Commits : bsPast[c] \subseteq 1 .. c

SyncRows == SyncOrder /\ SyncServerRow /\ \A d \in Devices : SyncDeviceRow(d)

(* What a step leaves of a repository.                                      *)
SyncLeaves(r) ==
  /\ bsHead'[r] = bsHead[r] /\ bsRow'[r] = bsRow[r] /\ (r \in bsBehind => r \in bsBehind')
  /\ r \in Devices => bsSession'[r] = bsSession[r] /\ bsJob'[r] = bsJob[r]

LEMMA SyncHistories ==
  ASSUME Bs!SyncParams, SyncInv, NEW r \in Bs!Repos
  PROVE  /\ Bs!History(bsHead[r]) \subseteq Bs!Commits
         /\ bsHead[r] # Bs!None => bsHead[r] \in Bs!History(bsHead[r])
         /\ \A c \in Bs!History(bsHead[r]) :
              c # Bs!None /\ c \in Bs!Commits /\ Bs!History(c) \subseteq Bs!History(bsHead[r])
<1>1. bsHead[r] \in Bs!Commits \cup {Bs!None} /\ Bs!None \notin Bs!Commits
  BY SyncBasics DEF SyncInv, Bs!TypeOK
<1>2. CASE bsHead[r] = Bs!None
  BY <1>1, <1>2 DEF Bs!History
<1>3. CASE bsHead[r] \in Bs!Commits
  <2>1. Bs!History(bsHead[r]) = bsPast[bsHead[r]]
    BY <1>1, <1>3 DEF Bs!History
  <2>2. bsPast[bsHead[r]] \subseteq Bs!Commits /\ bsHead[r] \in bsPast[bsHead[r]]
    BY <1>3 DEF SyncInv, Bs!TypeOK
  <2>3. \A c \in bsPast[bsHead[r]] : bsPast[c] \subseteq bsPast[bsHead[r]]
    BY <1>3 DEF SyncInv, SyncClosed
  <2>. QED  BY <1>1, <2>1, <2>2, <2>3 DEF Bs!History
<1>. QED  BY <1>1, <1>2, <1>3

LEMMA SyncSameHistory ==
  ASSUME Bs!SyncParams, SyncInv, SyncGrows, NEW r \in Bs!Repos, bsHead'[r] = bsHead[r]
  PROVE  Bs!History(bsHead[r])' = Bs!History(bsHead[r])
  BY SyncBasics DEF Bs!History, SyncGrows, SyncInv, Bs!TypeOK

(* A sync goes on as it was while others act.                               *)
LEMMA SyncLeft ==
  ASSUME Bs!SyncParams, SyncInv, SyncInv', SyncKeeps, SyncGrows, NEW d \in Devices,
         SyncDeviceRow(d), SyncLeaves(d)
  PROVE  SyncDeviceRow(d)'
<1>1. d \in Bs!Repos /\ Server \in Bs!Repos
  BY SyncBasics
<1>2. /\ Bs!History(bsHead[d])' = Bs!History(bsHead[d])
      /\ Bs!History(bsHead[Server]) \subseteq Bs!History(bsHead[Server])'
  BY <1>1, SyncSameHistory DEF SyncLeaves, SyncKeeps
<1>3. ASSUME bsHead[Server] \notin Bs!History(bsHead[d]), bsHead[d] \in Bs!History(bsHead[Server])
      PROVE  bsHead'[Server] \notin Bs!History(bsHead[d])
  <2>1. SUFFICES ASSUME bsHead'[Server] \in Bs!History(bsHead[d]) PROVE FALSE
    OBVIOUS
  <2>2. bsHead[Server] \in Bs!History(bsHead[Server])
    BY <1>1, <1>3, SyncHistories DEF Bs!History
  <2>3. Bs!History(bsHead[Server])' \subseteq Bs!History(bsHead[d])'
    <3>1. bsHead'[Server] \in Bs!Commits' /\ bsHead'[d] \in Bs!Commits' /\ Bs!None \notin Bs!Commits'
          /\ bsHead'[Server] \in bsPast'[bsHead'[d]]
      <4>1. bsHead'[d] \in Bs!Commits' \cup {Bs!None} /\ bsHead'[Server] \in Bs!Commits' \cup {Bs!None}
        BY <1>1 DEF SyncInv, Bs!TypeOK, Bs!Repos
      <4>2. bsHead'[Server] \in Bs!History(bsHead[d])'
        BY <1>2, <2>1
      <4>3. Bs!None \notin Bs!Commits'
        BY DEF Bs!None, Bs!Commits
      <4>4. bsHead'[d] # Bs!None /\ bsHead'[Server] \in bsPast'[bsHead'[d]]
        BY <4>2 DEF Bs!History
      <4>5. bsHead'[Server] \in Bs!Commits'
        BY <4>1, <4>3, <4>4 DEF SyncInv, Bs!TypeOK
      <4>. QED  BY <4>1, <4>3, <4>4, <4>5
    <3>2. bsPast'[bsHead'[Server]] \subseteq bsPast'[bsHead'[d]]
      BY <3>1 DEF SyncInv, SyncClosed
    <3>. QED  BY <3>1, <3>2 DEF Bs!History
  <2>. QED  BY <1>2, <1>3, <2>2, <2>3
<1>4. SyncTaken(d) => SyncTaken(d)'
  BY <1>2, <1>3 DEF SyncTaken, SyncLeaves, Bs!None
<1>. QED  BY <1>4 DEF SyncDeviceRow, SyncLeaves, Bs!None

LEMMA SyncServerLeft ==
  ASSUME SyncServerRow, SyncLeaves(Server)
  PROVE  SyncServerRow'
  BY DEF SyncServerRow, SyncLeaves, Bs!None

LEMMA SyncOrderKeeps ==
  ASSUME Bs!SyncParams, SyncInv, SyncOrder, [Bs!Next]_Bs!vars
  PROVE  SyncOrder' /\ SyncGrows
<1>1. CASE UNCHANGED bsPast
  BY <1>1, SyncBasics DEF SyncOrder, SyncGrows, Bs!Commits
<1>2. ASSUME NEW parents \in SUBSET (Bs!Commits \cup {Bs!None}), Bs!Recorded(Bs!NextCommit, parents)
      PROVE  SyncOrder' /\ SyncGrows
  <2>1. SyncGrows /\ Len(bsPast') = Len(bsPast) + 1 /\ Len(bsPast) \in Nat
        /\ \A c \in Bs!Commits' : bsPast'[c] \subseteq Bs!Commits'
    BY <1>2, SyncNewCommit, SyncBasics
  <2>2. ASSUME NEW c \in Bs!Commits' PROVE bsPast'[c] \subseteq 1 .. c
    <3>1. CASE c \in Bs!Commits
      BY <2>1, <3>1 DEF SyncGrows, SyncOrder
    <3>2. CASE c = Len(bsPast')
      BY <2>1, <3>2 DEF Bs!Commits
    <3>. QED  BY <2>1, <3>1, <3>2 DEF Bs!Commits
  <2>. QED  BY <2>1, <2>2 DEF SyncOrder
<1>3. ASSUME NEW r \in Bs!Repos, Bs!Edit(r) PROVE SyncOrder' /\ SyncGrows
  BY <1>2, <1>3 DEF Bs!Edit, SyncInv, Bs!TypeOK
<1>4. ASSUME NEW d \in Devices, Bs!Pull(d) PROVE SyncOrder' /\ SyncGrows
  <2>1. {bsHead[d], bsHead[Server]} \in SUBSET (Bs!Commits \cup {Bs!None})
    BY SyncBasics DEF SyncInv, Bs!TypeOK
  <2>. QED  BY <1>1, <1>2, <1>4, <2>1 DEF Bs!Pull
<1>5. ASSUME NEW d \in Devices, Bs!Start(d) \/ Bs!PullNew(d) \/ Bs!RequestFails(d) \/ Bs!ProbesRefused(d)
                                \/ Bs!AnswerLost(d) \/ Bs!Crash(d)
      PROVE  UNCHANGED bsPast
  BY <1>5 DEF Bs!Start, Bs!PullNew, Bs!RequestFails, Bs!ProbesRefused, Bs!AnswerLost, Bs!Crash
<1>6. ASSUME NEW d \in Devices, Bs!FetchHead(d) \/ Bs!Upload(d) \/ Bs!Search(d) \/ Bs!PullFails(d)
             \/ Bs!Push(d) \/ Bs!Refused(d) \/ Bs!Synced(d)
      PROVE  UNCHANGED bsPast
  BY <1>6 DEF Bs!FetchHead, Bs!Upload, Bs!Search, Bs!PullFails, Bs!Push, Bs!Refused, Bs!Synced
<1>7. CASE UNCHANGED Bs!vars
  BY <1>1, <1>7 DEF Bs!vars
<1>. QED  BY <1>1, <1>3, <1>4, <1>5, <1>6, <1>7 DEF Bs!Next, Bs!Continue

(* What the steps of a device leave of the others.                          *)
SyncStep(d) ==
  \/ Bs!Start(d) \/ Bs!PullNew(d) \/ Bs!Continue(d)
  \/ Bs!RequestFails(d) \/ Bs!ProbesRefused(d) \/ Bs!AnswerLost(d) \/ Bs!Crash(d)

LEMMA SyncLeavesDevices ==
  ASSUME Bs!SyncParams, SyncInv, NEW d \in Devices, SyncStep(d), NEW e \in Devices \ {d}
  PROVE  SyncLeaves(e)
<1>1. /\ e \in Bs!Repos /\ d \in Bs!Repos /\ Server \in Bs!Repos /\ e # Server
      /\ bsJob \in [Devices -> SyncJob] /\ bsSession \in [Devices -> Bs!Commits \cup {Bs!None}]
      /\ bsHead \in [Bs!Repos -> Bs!Commits \cup {Bs!None}] /\ bsRow \in [Bs!Repos -> Bs!Commits \cup {Bs!None}]
  BY SyncBasics, SyncTypeOfJob DEF SyncInv, Bs!TypeOK
<1>2. CASE Bs!Start(d) \/ Bs!FetchHead(d) \/ Bs!Search(d) \/ Bs!ProbesRefused(d)
  BY <1>1, <1>2 DEF Bs!Start, Bs!FetchHead, Bs!Search, Bs!ProbesRefused, Bs!Based, SyncLeaves
<1>3. CASE Bs!Upload(d) \/ Bs!PullNew(d)
  BY <1>1, <1>3 DEF Bs!Upload, Bs!PullNew, Bs!Unpacked, Bs!Goto, Bs!End, SyncLeaves
<1>4. CASE Bs!Pull(d) \/ Bs!PullFails(d)
  BY <1>1, <1>4 DEF Bs!Pull, Bs!PullFails, Bs!Mirrored, Bs!Goto, Bs!End, SyncLeaves
<1>5. CASE Bs!Push(d) \/ Bs!AnswerLost(d)
  BY <1>1, <1>5 DEF Bs!Push, Bs!AnswerLost, Bs!Goto, Bs!End, SyncLeaves
<1>6. CASE Bs!Refused(d) \/ Bs!Synced(d) \/ Bs!RequestFails(d) \/ Bs!Crash(d)
  BY <1>1, <1>6 DEF Bs!Refused, Bs!Synced, Bs!RequestFails, Bs!Crash, Bs!End, SyncLeaves
<1>. QED  BY <1>2, <1>3, <1>4, <1>5, <1>6 DEF SyncStep, Bs!Continue

(* The server's HEAD and row.                                               *)
LEMMA SyncServerKeeps ==
  ASSUME Bs!SyncParams, SyncInv, SyncServerRow, NEW d \in Devices, SyncStep(d)
  PROVE  SyncServerRow'
<1>1. /\ d \in Bs!Repos /\ Server \in Bs!Repos /\ d # Server /\ Server \notin Devices
      /\ bsHead \in [Bs!Repos -> Bs!Commits \cup {Bs!None}] /\ bsRow \in [Bs!Repos -> Bs!Commits \cup {Bs!None}]
      /\ Bs!None \notin Bs!Commits
  BY SyncBasics DEF SyncInv, Bs!TypeOK, Bs!SyncParams
<1>2. CASE Bs!Start(d) \/ Bs!FetchHead(d) \/ Bs!Search(d) \/ Bs!Pull(d) \/ Bs!PullFails(d) \/ Bs!Refused(d)
           \/ Bs!Synced(d) \/ Bs!PullNew(d) \/ Bs!RequestFails(d) \/ Bs!ProbesRefused(d) \/ Bs!Crash(d)
  <2>1. SyncLeaves(Server)
    BY <1>1, <1>2 DEF SyncLeaves, Bs!Start, Bs!FetchHead, Bs!Search, Bs!ProbesRefused, Bs!Pull, Bs!PullFails, Bs!Refused,
                      Bs!Synced, Bs!PullNew, Bs!RequestFails, Bs!Crash, Bs!Unpacked
  <2>. QED  BY <2>1, SyncServerLeft
<1>3. CASE Bs!Upload(d)
  BY <1>1, <1>3 DEF Bs!Upload, Bs!Unpacked, SyncServerRow
<1>4. CASE Bs!Push(d) \/ Bs!AnswerLost(d)
  <2>1. PICK h \in Bs!Commits :
          /\ bsHead' = [bsHead EXCEPT ![Server] = h]
          /\ bsRow' = [bsRow EXCEPT ![Server] = h] \/ Server \in bsBehind'
    <3>1. Bs!Accepts(d)
      BY <1>4 DEF Bs!Push, Bs!AnswerLost
    <3>. QED  BY <1>4, <3>1, SyncServerHead DEF Bs!Push, Bs!AnswerLost
  <2>. QED  BY <1>1, <2>1 DEF SyncServerRow
<1>. QED  BY <1>2, <1>3, <1>4 DEF SyncStep, Bs!Continue

(* The device whose sync goes on.                                           *)
LEMMA SyncAskFollows ==
  ASSUME Bs!SyncParams, SyncInv, SyncRows, NEW d \in Devices,
         Bs!Start(d) \/ Bs!FetchHead(d) \/ Bs!Upload(d) \/ Bs!Search(d) \/ Bs!ProbesRefused(d)
  PROVE  SyncDeviceRow(d)'
<1>1. /\ d \in Bs!Repos /\ Server \in Bs!Repos /\ d # Server /\ SyncDeviceRow(d)
      /\ bsJob \in [Devices -> SyncJob] /\ Bs!None \notin Bs!Commits
      /\ bsHead \in [Bs!Repos -> Bs!Commits \cup {Bs!None}]
      /\ UNCHANGED <<bsPast, bsRow, bsSession, bsBehind>>
  BY SyncBasics, SyncTypeOfJob
     DEF SyncInv, Bs!TypeOK, SyncRows, Bs!Start, Bs!FetchHead, Bs!Upload, Bs!Search, Bs!ProbesRefused
<1>2. bsHead'[d] = bsHead[d]
  BY <1>1 DEF Bs!Start, Bs!FetchHead, Bs!Upload, Bs!Search, Bs!ProbesRefused, Bs!Unpacked
<1>3. SUFFICES ASSUME SyncTaken(d) PROVE SyncTaken(d)'
  BY <1>1, <1>2 DEF SyncDeviceRow, Bs!None
<1>4. ~ Bs!Start(d) /\ ~ Bs!Upload(d)
  BY <1>3 DEF SyncTaken, Bs!Start, Bs!Upload
<1>5. CASE Bs!FetchHead(d)
  <2>1. /\ bsRow[d] = Bs!None /\ bsJob[d].local = bsHead[d] /\ bsHead[d] \in Bs!History(bsHead[Server])
        /\ UNCHANGED bsHead
    BY <1>3, <1>5 DEF SyncTaken, Bs!FetchHead
  <2>2. bsHead[Server] # Bs!None
    BY <2>1 DEF Bs!History
  <2>3. bsHead[Server] \in Bs!Commits /\ bsHead[d] \in Bs!Commits
    BY <1>1, <2>1, <2>2, SyncHistories
  <2>4. CASE bsHead[Server] = bsHead[d]
    <3>1. bsJob'[d].pc = "commit"
      BY <1>1, <1>5, <2>1, <2>2, <2>4 DEF Bs!FetchHead, Bs!JobAt
    <3>. QED  BY <3>1 DEF SyncTaken
  <2>5. CASE bsHead[Server] # bsHead[d]
    <3>1. bsJob'[d] = Bs!JobAt("search", bsHead[d], bsHead[Server], Bs!None)
      BY <1>1, <1>5, <2>1, <2>2, <2>5 DEF Bs!FetchHead
    <3>2. bsHead[Server] \notin Bs!History(bsHead[d])
      <4>1. bsHead[d] \in 1 .. bsHead[Server]
        BY <2>1, <2>2, <2>3 DEF Bs!History, SyncRows, SyncOrder
      <4>2. bsHead[Server] \in Bs!History(bsHead[d]) => bsHead[Server] \in 1 .. bsHead[d]
        BY <1>1, <2>3 DEF Bs!History, SyncRows, SyncOrder
      <4>3. bsHead[d] \in Nat /\ bsHead[Server] \in Nat
        BY <2>3 DEF Bs!Commits
      <4>. QED  BY <2>5, <4>1, <4>2, <4>3
    <3>3. bsHead[Server] \in Bs!History(bsHead[Server])
      BY <1>1, <2>2, SyncHistories
    <3>. QED  BY <1>1, <2>1, <3>1, <3>2, <3>3 DEF SyncTaken, Bs!JobAt, Bs!History, Bs!None
  <2>. QED  BY <2>4, <2>5
<1>6. CASE Bs!Search(d) \/ Bs!ProbesRefused(d)
  <2>1. /\ bsRow[d] = Bs!None /\ bsJob[d].local = bsHead[d] /\ bsHead[d] \in Bs!History(bsHead[Server])
        /\ bsJob[d].remote \in Bs!History(bsHead[Server]) \ Bs!History(bsHead[d]) /\ UNCHANGED bsHead
    BY <1>3, <1>6 DEF SyncTaken, Bs!Search, Bs!ProbesRefused
  <2>2. bsHead[d] \in Bs!History(bsHead[d])
    BY <1>1, <2>1, SyncHistories
  <2>3. PICK base \in Bs!History(bsHead[d]) : Bs!Based(d, base)
    BY <1>6, <2>1, <2>2 DEF Bs!Search, Bs!ProbesRefused, Bs!IsAncestor
  <2>4. base # bsJob[d].remote
    BY <2>1, <2>3
  <2>5. \E pc \in {"pull", "merge"} : bsJob'[d] = Bs!JobAt(pc, bsHead[d], bsJob[d].remote, base)
    BY <1>1, <2>1, <2>3, <2>4 DEF Bs!Based
  <2>7. bsHead[Server] \notin Bs!History(bsHead[d])
    BY <1>1, <2>1, SyncHistories
  <2>. QED  BY <1>1, <2>1, <2>3, <2>5, <2>7 DEF SyncTaken, Bs!JobAt, Bs!History, Bs!None
<1>. QED  BY <1>4, <1>5, <1>6

LEMMA SyncPullFollows ==
  ASSUME Bs!SyncParams, SyncInv, SyncInv', SyncRows, NEW d \in Devices, Bs!Pull(d)
  PROVE  SyncDeviceRow(d)'
<1>1. /\ d \in Bs!Repos /\ Server \in Bs!Repos /\ bsJob \in [Devices -> SyncJob]
      /\ bsSession \in [Devices -> Bs!Commits \cup {Bs!None}] /\ bsHead \in [Bs!Repos -> Bs!Commits \cup {Bs!None}]
  BY SyncBasics, SyncTypeOfJob DEF SyncInv, Bs!TypeOK
<1>2. bsSession'[d] = bsHead'[d]
  BY <1>1 DEF Bs!Pull, Bs!Mirrored
<1>3. bsJob'[d].pc \in {"commit", "push"}
  BY <1>1 DEF Bs!Pull, Bs!Goto, SyncJob
<1>4. bsHead'[d] # Bs!None
  <2>1. bsHead[Server] # Bs!None
    BY DEF Bs!Pull, Bs!Bundle, Bs!History
  <2>2. Bs!NextCommit # Bs!None
    BY SyncBasics DEF Bs!NextCommit, Bs!None
  <2>3. Bs!UpToDate(bsHead[d], bsHead[Server]) => bsHead[d] # Bs!None
    BY DEF Bs!UpToDate, Bs!History
  <2>. QED  BY <1>1, <2>1, <2>2, <2>3 DEF Bs!Pull
<1>5. SyncTaken(d)'
  BY <1>3 DEF SyncTaken
<1>. QED  BY <1>2, <1>4, <1>5 DEF SyncDeviceRow, Bs!None

LEMMA SyncPushFollows ==
  ASSUME Bs!SyncParams, SyncInv, SyncRows, NEW d \in Devices, Bs!Push(d) \/ Bs!AnswerLost(d)
  PROVE  SyncDeviceRow(d)'
<1>1. /\ d \in Bs!Repos /\ Server \in Bs!Repos /\ d # Server /\ SyncDeviceRow(d)
      /\ bsJob \in [Devices -> SyncJob] /\ bsHead \in [Bs!Repos -> Bs!Commits \cup {Bs!None}]
      /\ bsRow \in [Bs!Repos -> Bs!Commits \cup {Bs!None}]
  BY SyncBasics, SyncTypeOfJob DEF SyncInv, Bs!TypeOK, SyncRows
<1>2. bsHead'[d] = bsHead[d] /\ bsRow'[d] = bsRow[d] /\ bsSession' = bsSession /\ (d \in bsBehind => d \in bsBehind')
  BY <1>1 DEF Bs!Push, Bs!AnswerLost
<1>3. CASE Bs!Push(d)
  <2>1. bsJob'[d].pc = "commit"
    BY <1>1, <1>3 DEF Bs!Push, Bs!Goto, SyncJob
  <2>2. SyncTaken(d)'
    BY <2>1 DEF SyncTaken
  <2>. QED  BY <1>1, <1>2, <2>2 DEF SyncDeviceRow, Bs!None
<1>4. CASE Bs!AnswerLost(d)
  <2>1. d \in bsBehind'
    BY <1>4 DEF Bs!AnswerLost
  <2>. QED  BY <1>1, <1>2, <2>1 DEF SyncDeviceRow, Bs!None
<1>. QED  BY <1>3, <1>4

(* A sync that ends leaves no row behind it that the failure does not name. *)
LEMMA SyncEndFollows ==
  ASSUME Bs!SyncParams, SyncInv, SyncRows, NEW d \in Devices,
         Bs!PullFails(d) \/ Bs!Refused(d) \/ Bs!Synced(d) \/ Bs!RequestFails(d) \/ Bs!Crash(d)
  PROVE  SyncDeviceRow(d)'
<1>1. /\ d \in Bs!Repos /\ Server \in Bs!Repos /\ SyncDeviceRow(d)
      /\ bsSession \in [Devices -> Bs!Commits \cup {Bs!None}]
      /\ bsRow \in [Bs!Repos -> Bs!Commits \cup {Bs!None}] /\ UNCHANGED bsHead
  BY SyncBasics DEF SyncInv, Bs!TypeOK, SyncRows, Bs!PullFails, Bs!Refused, Bs!Synced, Bs!RequestFails, Bs!Crash
<1>2. CASE Bs!PullFails(d)
  <2>1. UNCHANGED <<bsRow, bsSession, bsBehind>>
    BY <1>2 DEF Bs!PullFails
  <2>2. ~ (SyncTaken(d) /\ bsSession[d] = bsHead[d])
    <3>1. SUFFICES ASSUME SyncTaken(d), bsSession[d] = bsHead[d] PROVE FALSE
      OBVIOUS
    <3>2. /\ bsJob[d].pc \in {"pull", "merge"} /\ bsHead[d] \in Bs!History(bsHead[Server])
          /\ bsJob[d].base \in Bs!History(bsHead[d]) /\ bsHead[Server] \notin Bs!History(bsHead[d])
      BY <1>2, <3>1 DEF SyncTaken, Bs!PullFails
    <3>3. bsHead[d] # Bs!None /\ bsHead[Server] # Bs!None
      BY <1>1, <3>2, SyncHistories DEF Bs!History
    <3>4. bsHead[Server] \in Bs!Bundle(bsJob[d].base, Server)
      BY <1>1, <3>2, <3>3, SyncHistories DEF Bs!Bundle
    <3>5. Bs!HasRow(d)
      BY <3>1, <3>3 DEF Bs!HasRow
    <3>6. ~ Bs!Diverged(bsHead[d], bsHead[Server])
      BY <3>2 DEF Bs!Diverged, Bs!FastForwards
    <3>. QED  BY <1>2, <3>2, <3>4, <3>5, <3>6 DEF Bs!PullFails
  <2>. QED  BY <1>1, <2>1, <2>2 DEF SyncDeviceRow, Bs!None
<1>3. CASE Bs!Refused(d) \/ Bs!RequestFails(d) \/ Bs!Crash(d)
  <2>1. /\ UNCHANGED bsRow /\ bsSession'[d] \in {Bs!None, bsSession[d]}
        /\ bsBehind' = IF bsSession[d] = Bs!None THEN bsBehind ELSE bsBehind \cup {d}
    BY <1>1, <1>3 DEF Bs!Refused, Bs!RequestFails, Bs!Crash
  <2>. QED  BY <1>1, <2>1 DEF SyncDeviceRow, Bs!None
<1>4. CASE Bs!Synced(d)
  <2>1. /\ bsRow'[d] = (IF bsSession[d] = Bs!None THEN bsRow[d] ELSE bsSession[d]) /\ bsSession'[d] = Bs!None
        /\ bsBehind' = IF bsSession[d] = bsHead[d] THEN bsBehind \ {d} ELSE bsBehind
    BY <1>1, <1>4 DEF Bs!Synced
  <2>. QED  BY <1>1, <2>1 DEF SyncDeviceRow, Bs!None
<1>. QED  BY <1>2, <1>3, <1>4

LEMMA SyncPullNewFollows ==
  ASSUME Bs!SyncParams, SyncInv, SyncRows, NEW d \in Devices, Bs!PullNew(d)
  PROVE  SyncDeviceRow(d)'
<1>1. /\ d \in Bs!Repos /\ Server \in Bs!Repos /\ d # Server /\ SyncDeviceRow(d)
      /\ bsJob \in [Devices -> SyncJob] /\ bsHead \in [Bs!Repos -> Bs!Commits \cup {Bs!None}]
      /\ bsSession \in [Devices -> Bs!Commits \cup {Bs!None}] /\ UNCHANGED <<bsPast, bsRow>>
  BY SyncBasics, SyncTypeOfJob DEF SyncInv, Bs!TypeOK, SyncRows, Bs!PullNew
<1>2. CASE UNCHANGED <<bsHead, bsSession, bsBehind, bsJob>>
  BY <1>1, <1>2 DEF SyncDeviceRow, SyncTaken, Bs!History, Bs!None
<1>3. CASE /\ bsHead' = [bsHead EXCEPT ![d] = bsHead[Server]]
           /\ bsSession' = [bsSession EXCEPT ![d] = bsRow[Server]]
           /\ bsBehind' = IF bsRow[Server] = bsHead[Server] THEN bsBehind ELSE bsBehind \cup {d}
           /\ bsJob' = [bsJob EXCEPT ![d] = Bs!JobAt("fetch", bsHead[Server], Bs!None, Bs!None)]
  <2>1. bsRow[d] = Bs!None /\ bsRow[Server] # Bs!None
    BY DEF Bs!PullNew, Bs!HasRow
  <2>2. bsHead[Server] # Bs!None
    BY <2>1 DEF SyncRows, SyncServerRow
  <2>3. bsHead[Server] \in Bs!History(bsHead[Server])
    BY <1>1, <2>2, SyncHistories
  <2>4. bsHead'[d] = bsHead[Server] /\ bsHead'[Server] = bsHead[Server] /\ bsSession'[d] = bsRow[Server]
        /\ bsJob'[d] = Bs!JobAt("fetch", bsHead[Server], Bs!None, Bs!None)
    BY <1>1, <1>3
  <2>5. SyncTaken(d)'
    BY <1>1, <2>1, <2>3, <2>4 DEF SyncTaken, Bs!JobAt, Bs!History, Bs!None
  <2>6. d \notin bsBehind' => bsRow[Server] = bsHead[Server]
    BY <1>3
  <2>. QED  BY <1>1, <2>1, <2>2, <2>4, <2>5, <2>6 DEF SyncDeviceRow, Bs!None
<1>. QED  BY <1>2, <1>3 DEF Bs!PullNew, Bs!Unpacked

(* An edit, of a device or on the server.                                   *)
LEMMA SyncEditFollows ==
  ASSUME Bs!SyncParams, SyncInv, SyncInv', SyncKeeps, SyncGrows, SyncRows, NEW r \in Bs!Repos, Bs!Edit(r)
  PROVE  SyncServerRow' /\ \A d \in Devices : SyncDeviceRow(d)'
<1>1. /\ bsHead \in [Bs!Repos -> Bs!Commits \cup {Bs!None}] /\ bsRow \in [Bs!Repos -> Bs!Commits \cup {Bs!None}]
      /\ bsHead' = [bsHead EXCEPT ![r] = Bs!NextCommit]
      /\ bsRow' = [bsRow EXCEPT ![r] = IF bsRow[r] = bsHead[r] THEN Bs!NextCommit ELSE @]
      /\ bsSession' = [e \in Devices |-> IF e = r /\ bsSession[e] = bsHead[e] THEN Bs!NextCommit ELSE bsSession[e]]
      /\ bsRow[r] # Bs!None /\ bsHead[r] # Bs!None /\ UNCHANGED <<bsJob, bsBehind>>
      /\ Bs!NextCommit # Bs!None
  BY SyncBasics DEF SyncInv, Bs!TypeOK, Bs!Edit, Bs!NextCommit, Bs!None
<1>2. SyncServerRow'
  <2>1. Server \in Bs!Repos
    BY SyncBasics
  <2>. QED  BY <1>1, <2>1 DEF SyncRows, SyncServerRow, Bs!None
<1>3. ASSUME NEW d \in Devices PROVE SyncDeviceRow(d)'
  <2>1. d \in Bs!Repos /\ SyncDeviceRow(d)
    BY SyncBasics DEF SyncRows
  <2>2. CASE d # r
    <3>1. SyncLeaves(d)
      BY <1>1, <2>1, <2>2 DEF SyncLeaves
    <3>. QED  BY <2>1, <3>1, SyncLeft
  <2>3. CASE d = r
    <3>1. /\ bsHead'[d] = Bs!NextCommit
          /\ bsRow'[d] = (IF bsRow[d] = bsHead[d] THEN Bs!NextCommit ELSE bsRow[d])
          /\ bsSession'[d] = (IF bsSession[d] = bsHead[d] THEN Bs!NextCommit ELSE bsSession[d])
      BY <1>1, <2>1, <2>3
    <3>2. SyncTaken(d) => SyncTaken(d)'
      BY <1>1, <2>3 DEF SyncTaken
    <3>. QED  BY <1>1, <2>1, <2>3, <3>1, <3>2 DEF SyncDeviceRow, Bs!None
  <2>. QED  BY <2>2, <2>3
<1>. QED  BY <1>2, <1>3

LEMMA SyncNextFollows ==
  ASSUME Bs!SyncParams, SyncInv, SyncRows, [Bs!Next]_Bs!vars
  PROVE  SyncRows'
<1>1. SyncInv' /\ SyncKeeps /\ SyncOrder' /\ SyncGrows
  BY SyncNextKeeps, SyncOrderKeeps DEF SyncRows
<1>2. CASE UNCHANGED Bs!vars
  <2>1. SyncServerRow'
    BY <1>2 DEF Bs!vars, SyncRows, SyncServerRow, Bs!None
  <2>2. ASSUME NEW d \in Devices PROVE SyncDeviceRow(d)'
    <3>1. SyncLeaves(d)
      BY <1>2 DEF Bs!vars, SyncLeaves
    <3>. QED  BY <1>1, <3>1, SyncLeft DEF SyncRows
  <2>. QED  BY <1>1, <2>1, <2>2 DEF SyncRows
<1>3. ASSUME NEW r \in Bs!Repos, Bs!Edit(r) PROVE SyncRows'
  BY <1>1, <1>3, SyncEditFollows DEF SyncRows
<1>4. ASSUME NEW d \in Devices, SyncStep(d) PROVE SyncRows'
  <2>1. SyncServerRow'
    BY <1>4, SyncServerKeeps DEF SyncRows
  <2>2. SyncDeviceRow(d)'
    BY <1>1, <1>4, SyncAskFollows, SyncPullFollows, SyncPushFollows, SyncEndFollows, SyncPullNewFollows
       DEF SyncStep, Bs!Continue
  <2>3. ASSUME NEW e \in Devices \ {d} PROVE SyncDeviceRow(e)'
    <3>1. SyncLeaves(e)
      BY <1>4, SyncLeavesDevices
    <3>. QED  BY <1>1, <3>1, SyncLeft DEF SyncRows
  <2>. QED  BY <1>1, <2>1, <2>2, <2>3 DEF SyncRows
<1>. QED  BY <1>2, <1>3, <1>4 DEF Bs!Next, SyncStep

LEMMA SyncInitFollows == ASSUME Bs!SyncParams, Bs!Init PROVE SyncRows
<1>1. /\ bsPast = <<{1}>> /\ Len(bsPast) = 1 /\ bsPast[1] = {1} /\ bsHead = bsRow /\ bsBehind = {}
      /\ bsSession = [d \in Devices |-> Bs!None]
  BY DEF Bs!Init
<1>2. SyncOrder
  BY <1>1 DEF SyncOrder, Bs!Commits
<1>. QED  BY <1>1, <1>2 DEF SyncRows, SyncServerRow, SyncDeviceRow

-----------------------------------------------------------------------------
(* Behaviours of BundleSync, and what they are within those of the parts.  *)
LEMMA SyncAlone == Spec => Bs!Init /\ [][Bs!Next]_(Bs!vars)
<1>1. Init => Bs!Init
  BY DEF Init
<1>2. Next => Bs!Next \/ bsVars' = bsVars
  BY DEF Next
<1>3. vars' = vars => bsVars' = bsVars
  BY DEF vars
<1>4. bsVars' = bsVars => UNCHANGED Bs!vars
  BY DEF bsVars, Bs!vars
<1>5. [Next]_vars => [Bs!Next]_(Bs!vars)
  BY <1>2, <1>3, <1>4
<1>. QED  BY <1>1, <1>5, PTL DEF Spec

LEMMA SyncAlways == Bs!Init /\ [][Bs!Next]_(Bs!vars) => []SyncInv
<1>1. Bs!SyncParams
  BY PartParams DEF PartParams
<1>2. Bs!Init => SyncInv
  BY <1>1, SyncInitInv
<1>3. SyncInv /\ [Bs!Next]_(Bs!vars) => SyncInv'
  BY <1>1, SyncNextKeeps
<1>. QED  BY <1>2, <1>3, PTL

(* The types hold in every state, and each commit knows its ancestors.     *)
THEOREM SyncTypes == (Bs!Spec => []Bs!TypeOK) /\ (Spec => []Bs!TypeOK)
<1>1. SyncInv => Bs!TypeOK
  BY DEF SyncInv
<1>. QED  BY <1>1, SyncAlways, SyncAlone, PTL DEF Bs!Spec

(* For any number of devices, edits, failures and crashes: no step takes a    *)
(* commit away from a repository (merge_fetch_head, --ff-only on the server). *)
THEOREM NothingIsLost == (Bs!Spec => Bs!NothingLost) /\ (Spec => NothingLost)
<1>1. Bs!SyncParams
  BY PartParams DEF PartParams
<1>2. SyncInv /\ [Bs!Next]_(Bs!vars)
      => [\A r \in Bs!Repos : Bs!History(bsHead[r]) \subseteq Bs!History(bsHead[r])']_(Bs!vars)
  BY <1>1, SyncNextKeeps DEF SyncKeeps
<1>3. Bs!Init /\ [][Bs!Next]_(Bs!vars) => Bs!NothingLost
  BY <1>2, SyncAlways, PTL DEF Bs!NothingLost
<1>. QED  BY <1>3, SyncAlone, PTL DEF Bs!Spec, NothingLost

LEMMA SyncRowsAlways == Bs!Init /\ [][Bs!Next]_(Bs!vars) => [](SyncInv /\ SyncRows)
<1>1. Bs!SyncParams
  BY PartParams DEF PartParams
<1>2. Bs!Init => SyncRows
  BY <1>1, SyncInitFollows
<1>3. SyncInv /\ SyncRows /\ [Bs!Next]_(Bs!vars) => SyncRows'
  BY <1>1, SyncNextFollows
<1>. QED  BY <1>2, <1>3, SyncAlways, PTL

(* For any number of devices, edits, failures and crashes: a row that lags     *)
(* behind its repository has a sync under way that will mirror it, or a failed *)
(* request, a crash or the loss of an answer came in between (sync_article,    *)
(* pull_incremental, apply_sync).                                             *)
THEOREM RowsFollowHeads == (Bs!Spec => []Bs!RowsFollow) /\ (Spec => []RowsFollow)
<1>1. Bs!SyncParams
  BY PartParams DEF PartParams
<1>2. SyncInv /\ SyncRows => Bs!RowsFollow
  <2>1. SUFFICES ASSUME SyncInv, SyncRows, NEW r \in Bs!Repos \ bsBehind
                 PROVE  \/ bsRow[r] = bsHead[r]
                        \/ r \in Devices /\ bsSession[r] = bsHead[r] /\ bsJob[r].pc # "idle"
                        \/ r = Server /\ bsRow[r] = Bs!None
    BY DEF Bs!RowsFollow
  <2>. QED  BY <2>1 DEF Bs!Repos, SyncRows, SyncServerRow, SyncDeviceRow, SyncTaken
<1>. QED  BY <1>2, SyncRowsAlways, SyncAlone, PTL DEF Bs!Spec, RowsFollow

-----------------------------------------------------------------------------
LEMMA DiscoverInduction ==
  ASSUME NEW T \in SUBSET Nat, 0 \in T, \A n \in T : n + 1 \in T
  PROVE  T = Nat
<1>1. SUFFICES ASSUME Nat \ T # {} PROVE FALSE
  OBVIOUS
<1>2. PICK x \in Nat \ T : \A y \in Nat \ T : ~(<<y, x>> \in OpToRel(<, Nat))
  BY <1>1, NatLessThanWellFounded, WFMin
<1>3. x \in Nat /\ x \notin T
  BY <1>2
<1>7. x # 0 /\ x - 1 \in Nat /\ x - 1 < x
  BY <1>3
<1>4. <<x - 1, x>> \in OpToRel(<, Nat)
  BY <1>3, <1>7 DEF OpToRel
<1>5. x - 1 \in T
  BY <1>2, <1>7, <1>4
<1>6. (x - 1) + 1 \in T /\ (x - 1) + 1 = x
  BY <1>3, <1>5
<1>. QED  BY <1>3, <1>6

(* What a function does over and over, from a first value.                  *)
DiscoverIterates(h, X, x0, F) ==
  h \in [Nat -> X] /\ h[0] = x0 /\ \A n \in Nat : h[n + 1] = F[h[n]]

LEMMA DiscoverIteration ==
  ASSUME NEW X, NEW x0 \in X, NEW F \in [X -> X]
  PROVE  \E h : DiscoverIterates(h, X, x0, F)
<1> DEFINE A(n) == {h \in [0 .. n -> X] : h[0] = x0 /\ \A i \in 0 .. n - 1 : h[i + 1] = F[h[i]]}
<1>1. \A n \in Nat : A(n) # {}
  <2> DEFINE T == {n \in Nat : A(n) # {}}
  <2>1. 0 \in T
    <3>1. [i \in 0 .. 0 |-> x0] \in A(0)
      OBVIOUS
    <3>. QED  BY <3>1
  <2>2. ASSUME NEW n \in T PROVE n + 1 \in T
    <3>1. PICK h \in A(n) : TRUE
      BY <2>2
    <3>2. n \in Nat /\ h \in [0 .. n -> X] /\ h[0] = x0 /\ \A i \in 0 .. n - 1 : h[i + 1] = F[h[i]]
      BY <3>1
    <3>3. PICK y \in X : y = F[h[n]]
      BY <3>2
    <3>4. PICK k : k = [i \in 0 .. n + 1 |-> IF i <= n THEN h[i] ELSE y]
      OBVIOUS
    <3>5. k \in [0 .. n + 1 -> X] /\ k[0] = x0
      BY <3>2, <3>3, <3>4
    <3>6. ASSUME NEW i \in 0 .. (n + 1) - 1 PROVE k[i + 1] = F[k[i]]
      <4>1. CASE i = n
        BY <3>2, <3>3, <3>4, <4>1
      <4>2. CASE i # n
        <5>1. i \in 0 .. n - 1 /\ i + 1 \in 0 .. n + 1 /\ i + 1 <= n /\ i \in 0 .. n + 1 /\ i <= n
          BY <3>2, <4>2
        <5>. QED  BY <3>2, <3>4, <5>1
      <4>. QED  BY <4>1, <4>2
    <3>7. k \in A(n + 1)
      BY <3>5, <3>6
    <3>. QED  BY <3>2, <3>7
  <2>3. T \in SUBSET Nat
    OBVIOUS
  <2>4. T = Nat
    <3>. HIDE DEF T
    <3>. QED  BY <2>1, <2>2, <2>3, DiscoverInduction
  <2>. QED  BY <2>4
<1>2. ASSUME NEW m \in Nat, NEW n \in Nat, NEW h \in A(m), NEW k \in A(n)
      PROVE  \A i \in Nat : i <= m /\ i <= n => h[i] = k[i]
  <2> DEFINE T == {i \in Nat : i <= m /\ i <= n => h[i] = k[i]}
  <2>1. 0 \in T
    OBVIOUS
  <2>2. ASSUME NEW i \in T PROVE i + 1 \in T
    <3>1. SUFFICES ASSUME i + 1 <= m, i + 1 <= n PROVE h[i + 1] = k[i + 1]
      BY <2>2
    <3>2. i \in 0 .. m - 1 /\ i \in 0 .. n - 1 /\ h[i] = k[i]
      BY <2>2, <3>1
    <3>3. h[i + 1] = F[h[i]] /\ k[i + 1] = F[k[i]]
      BY <3>2
    <3>. QED  BY <3>2, <3>3
  <2>3. T \in SUBSET Nat
    OBVIOUS
  <2>4. T = Nat
    <3>. HIDE DEF T
    <3>. QED  BY <2>1, <2>2, <2>3, DiscoverInduction
  <2>. QED  BY <2>4
<1> DEFINE c(n) == CHOOSE h \in A(n) : TRUE
           g == [n \in Nat |-> c(n)[n]]
<1>3. \A n \in Nat : c(n) \in A(n)
  <2>. HIDE DEF A
  <2>. QED  BY <1>1
<1>4. \A n \in Nat : g[n] = c(n)[n] /\ c(n)[n] \in X
  <2>. HIDE DEF c
  <2>. QED  BY <1>3
<1>5. g \in [Nat -> X]
  <2>. HIDE DEF c, A
  <2>. QED  BY <1>4
<1>6. g[0] = x0
  <2>. HIDE DEF c
  <2>. QED  BY <1>3
<1>7. ASSUME NEW n \in Nat PROVE g[n + 1] = F[g[n]]
  <2>1. c(n + 1) \in A(n + 1) /\ c(n) \in A(n) /\ n + 1 \in Nat
    <3>. HIDE DEF A, c
    <3>. QED  BY <1>3
  <2>2. c(n + 1)[n] = c(n)[n]
    <3>. HIDE DEF A, c, g
    <3>. QED  BY <1>2, <2>1
  <2>3. c(n + 1)[n + 1] = F[c(n + 1)[n]]
    <3>. HIDE DEF c, g
    <3>1. n \in 0 .. (n + 1) - 1
      OBVIOUS
    <3>. QED  BY <2>1, <3>1
  <2>4. g[n + 1] = c(n + 1)[n + 1] /\ g[n] = c(n)[n]
    <3>. HIDE DEF c, A
    <3>. QED  BY <2>1
  <2>. HIDE DEF c, A, g
  <2>. QED  BY <2>2, <2>3, <2>4
<1>. HIDE DEF g
<1>. QED  BY <1>5, <1>6, <1>7 DEF DiscoverIterates

-----------------------------------------------------------------------------
(* The users within n follows of the start: the levels of the graph.        *)
DiscoverLevels(w, g, s) ==
  /\ w[0] = {s}
  /\ \A n \in Nat : w[n + 1] = w[n] \cup UNION {Di!Following(g, u) : u \in w[n]}

LEMMA DiscoverGrow ==
  ASSUME NEW w \in [Nat -> SUBSET People], NEW g, NEW s, DiscoverLevels(w, g, s)
  PROVE  \A m, n \in Nat : m <= n => w[m] \subseteq w[n]
<1>. SUFFICES ASSUME NEW m \in Nat PROVE \A n \in Nat : m <= n => w[m] \subseteq w[n]
  OBVIOUS
<1> DEFINE T == {n \in Nat : m <= n => w[m] \subseteq w[n]}
<1>1. 0 \in T
  OBVIOUS
<1>2. ASSUME NEW n \in T PROVE n + 1 \in T
  <2>1. SUFFICES ASSUME m <= n + 1 PROVE w[m] \subseteq w[n + 1]
    BY <1>2
  <2>2. CASE m = n + 1
    BY <2>2
  <2>3. CASE m # n + 1
    <3>1. m <= n /\ n \in Nat
      BY <1>2, <2>1, <2>3
    <3>2. w[m] \subseteq w[n]
      BY <1>2, <3>1
    <3>3. w[n] \subseteq w[n + 1]
      BY <3>1 DEF DiscoverLevels
    <3>. QED  BY <3>2, <3>3
  <2>. QED  BY <2>2, <2>3
<1>3. T \in SUBSET Nat
  OBVIOUS
<1>4. T = Nat
  <2>. HIDE DEF T
  <2>. QED  BY <1>1, <1>2, <1>3, DiscoverInduction
<1>. QED  BY <1>4

LEMMA DiscoverFollowing ==
  ASSUME NEW g \in SUBSET (People \X People), NEW u \in People
  PROVE  /\ Di!Following(g, u) \in SUBSET People
         /\ Di!EdgesOf(u, Di!Following(g, u)) = {e \in g : e[1] = u}
<1>1. Di!Following(g, u) = {e[2] : e \in {f \in g : f[1] = u}}
  BY DEF Di!Following
<1>2. \A e \in g : e = <<e[1], e[2]>> /\ e[2] \in People
  OBVIOUS
<1>3. Di!EdgesOf(u, Di!Following(g, u)) = {<<u, v>> : v \in Di!Following(g, u)}
  BY DEF Di!EdgesOf
<1>. QED  BY <1>1, <1>2, <1>3

(* The definition by recursion is of such levels.                          *)
LEMMA DiscoverWithin ==
  ASSUME diGraph \in SUBSET (People \X People), diWalk.start \in People
  PROVE  Di!Within \in [Nat -> SUBSET People] /\ DiscoverLevels(Di!Within, diGraph, diWalk.start)
<1> DEFINE F == [U \in SUBSET People |-> U \cup UNION {Di!Following(diGraph, u) : u \in U}]
<1>1. F \in [SUBSET People -> SUBSET People]
  <2>. SUFFICES ASSUME NEW U \in SUBSET People
                PROVE  U \cup UNION {Di!Following(diGraph, u) : u \in U} \in SUBSET People
    OBVIOUS
  <2>1. \A u \in U : Di!Following(diGraph, u) \subseteq People
    BY DiscoverFollowing
  <2>. QED  BY <2>1
<1>2. PICK h \in [Nat -> SUBSET People] :
        h[0] = {diWalk.start} /\ \A n \in Nat : h[n + 1] = F[h[n]]
  <2>. HIDE DEF F
  <2>1. PICK X : X = SUBSET People
    OBVIOUS
  <2>2. PICK x0 : x0 = {diWalk.start}
    OBVIOUS
  <2>3. PICK f : f = F
    OBVIOUS
  <2>4. x0 \in X /\ f \in [X -> X]
    BY <1>1, <2>1, <2>2, <2>3
  <2>5. \E h : DiscoverIterates(h, X, x0, f)
    BY <2>4, DiscoverIteration
  <2>. QED  BY <2>1, <2>2, <2>3, <2>5 DEF DiscoverIterates
<1>3. \A n \in Nat : h[n + 1] = h[n] \cup UNION {Di!Following(diGraph, u) : u \in h[n]}
  BY <1>2
<1> DEFINE G(f) == [n \in Nat |-> IF n = 0 THEN {diWalk.start}
                                  ELSE f[n - 1] \cup UNION {Di!Following(diGraph, u) : u \in f[n - 1]}]
<1>4. h = G(h)
  <2>1. \A n \in Nat : h[n] = G(h)[n]
    <3>. SUFFICES ASSUME NEW n \in Nat PROVE h[n] = G(h)[n]
      OBVIOUS
    <3>1. CASE n = 0
      BY <1>2, <3>1
    <3>2. CASE n # 0
      <4>1. n - 1 \in Nat /\ (n - 1) + 1 = n
        BY <3>2
      <4>2. h[(n - 1) + 1] = h[n - 1] \cup UNION {Di!Following(diGraph, u) : u \in h[n - 1]}
        BY <1>3, <4>1
      <4>. QED  BY <3>2, <4>1, <4>2
    <3>. QED  BY <3>1, <3>2
  <2>2. h = [n \in Nat |-> h[n]]
    OBVIOUS
  <2>3. G(h) = [n \in Nat |-> G(h)[n]]
    OBVIOUS
  <2>. HIDE DEF G
  <2>. QED  BY <2>1, <2>2, <2>3
<1>5. Di!Within = CHOOSE f : f = G(f)
  BY DEF Di!Within
<1>6. Di!Within = G(Di!Within)
  <2>. HIDE DEF G
  <2>. QED  BY <1>4, <1>5
<1>7. PICK w : w = Di!Within
  OBVIOUS
<1>8. w = G(w)
  BY <1>6, <1>7
<1>9. w[0] = {diWalk.start}
  BY <1>8
<1>10. \A n \in Nat : w[n + 1] = w[n] \cup UNION {Di!Following(diGraph, u) : u \in w[n]}
  <2>. SUFFICES ASSUME NEW n \in Nat
                PROVE  w[n + 1] = w[n] \cup UNION {Di!Following(diGraph, u) : u \in w[n]}
    OBVIOUS
  <2>1. n + 1 \in Nat /\ n + 1 # 0 /\ (n + 1) - 1 = n
    OBVIOUS
  <2>2. w[n + 1] = G(w)[n + 1]
    BY <1>8
  <2>. QED  BY <2>1, <2>2
<1>11. \A n \in Nat : w[n] \in SUBSET People
  <2> DEFINE T == {n \in Nat : w[n] \in SUBSET People}
  <2>1. 0 \in T
    BY <1>9
  <2>2. ASSUME NEW n \in T PROVE n + 1 \in T
    <3>1. n \in Nat /\ w[n] \in SUBSET People
      BY <2>2
    <3>2. \A u \in w[n] : Di!Following(diGraph, u) \subseteq People
      BY <3>1, DiscoverFollowing
    <3>3. w[n + 1] \in SUBSET People
      BY <1>10, <3>1, <3>2
    <3>. QED  BY <3>1, <3>3
  <2>3. T \in SUBSET Nat
    OBVIOUS
  <2>4. T = Nat
    <3>. HIDE DEF T
    <3>. QED  BY <2>1, <2>2, <2>3, DiscoverInduction
  <2>. QED  BY <2>4
<1>12. w = [n \in Nat |-> w[n]]
  BY <1>8
<1>13. w \in [Nat -> SUBSET People]
  BY <1>11, <1>12
<1>. QED  BY <1>7, <1>9, <1>10, <1>13 DEF DiscoverLevels

-----------------------------------------------------------------------------
DiscoverWalks ==
  [on : BOOLEAN, start : People \cup {"none"}, queue : Seq(People \X Nat), seen : SUBSET People,
   visited : SUBSET People, missed : BOOLEAN, moved : BOOLEAN]

(* The queue holds users by their distance from the start, the nearest      *)
(* first, and no two of its distances differ by more than one.             *)
DiscoverQueue(w, q) ==
  /\ \A i \in DOMAIN q : /\ q[i][2] <= Depth
                         /\ q[i][1] \in w[q[i][2]]
                         /\ \A k \in Nat : k < q[i][2] => q[i][1] \notin w[k]
  /\ \A i, j \in DOMAIN q : (i <= j => q[i][2] <= q[j][2]) /\ q[i][2] <= q[j][2] + 1

(* All that is as near as the next user is seen, who is seen is visited or  *)
(* waits, and who is visited short of the last level has led on.           *)
DiscoverSearched(w, walk, g, live) ==
  /\ DiscoverQueue(w, walk.queue)
  /\ walk.queue # <<>> => w[walk.queue[1][2]] \subseteq walk.seen
  /\ \A u \in walk.seen : u \in walk.visited \/ \E i \in DOMAIN walk.queue : walk.queue[i][1] = u
  /\ walk.visited \subseteq w[Depth]
  /\ \A u \in walk.visited :
       \/ \A k \in Nat : k < Depth => u \notin w[k]
       \/ Di!Following(g, u) \subseteq walk.seen /\ Di!EdgesOf(u, Di!Following(g, u)) \subseteq live

(* A queue without its head and with more behind it.                        *)
DiscoverPopped(S, q, more, r) ==
  /\ r \in Seq(S)
  /\ \A i \in DOMAIN r : \/ i + 1 \in DOMAIN q /\ i + 1 # 1 /\ r[i] = q[i + 1]
                         \/ /\ i >= Len(q) /\ i - Len(q) + 1 \in DOMAIN more
                            /\ r[i] = more[i - Len(q) + 1]
  /\ \A i \in DOMAIN q : i # 1 => i - 1 \in DOMAIN r /\ r[i - 1] = q[i]
  /\ \A i \in DOMAIN more : Len(q) - 1 + i \in DOMAIN r /\ r[Len(q) - 1 + i] = more[i]
  /\ 1 \in DOMAIN q

LEMMA DiscoverTail ==
  ASSUME NEW S, NEW q \in Seq(S), q # <<>>, NEW more \in Seq(S)
  PROVE  DiscoverPopped(S, q, more, Tail(q) \o more)
<1>. PICK r : r = Tail(q) \o more
  OBVIOUS
<1>1. /\ Len(q) \in Nat /\ Len(more) \in Nat /\ Len(q) >= 1
      /\ DOMAIN q = 1 .. Len(q) /\ DOMAIN more = 1 .. Len(more)
  OBVIOUS
<1>2. Tail(q) \in Seq(S) /\ Len(Tail(q)) = Len(q) - 1 /\ \A i \in 1 .. Len(q) - 1 : Tail(q)[i] = q[i + 1]
  OBVIOUS
<1>3. /\ r \in Seq(S) /\ Len(r) = Len(q) - 1 + Len(more) /\ DOMAIN r = 1 .. Len(r)
      /\ \A i \in 1 .. Len(r) : r[i] = IF i <= Len(q) - 1 THEN Tail(q)[i] ELSE more[i - (Len(q) - 1)]
  BY <1>1, <1>2
<1>4. \A i \in DOMAIN r : IF i <= Len(q) - 1 THEN r[i] = q[i + 1] ELSE r[i] = more[i - Len(q) + 1]
  BY <1>1, <1>2, <1>3
<1>. QED  BY <1>1, <1>3, <1>4 DEF DiscoverPopped

(* The user u at distance d is visited, and leads to the users of a page    *)
(* of which more are new.                                                  *)
DiscoverTurn(walk, next, q, u, d, page, more, alive) ==
  /\ walk.queue = q /\ q # <<>> /\ q[1] = <<u, d>>
  /\ next.queue = Tail(q) \o more
  /\ next.visited = walk.visited \cup {u}
  /\ \/ /\ d < Depth
        /\ next.seen = walk.seen \cup page
        /\ Di!EdgesOf(u, page) \subseteq alive
        /\ \A i \in DOMAIN more : more[i][1] \in page \ walk.seen /\ more[i][2] = d + 1
        /\ \A v \in page \ walk.seen : \E i \in DOMAIN more : more[i][1] = v
     \/ ~(d < Depth) /\ next.seen = walk.seen /\ more = <<>>

(* One user is taken from the queue and leads on, short of the last level.  *)
LEMMA DiscoverVisited ==
  ASSUME Depth \in Nat, NEW g \in SUBSET (People \X People), NEW s,
         NEW w \in [Nat -> SUBSET People], DiscoverLevels(w, g, s),
         NEW walk \in DiscoverWalks, NEW next \in DiscoverWalks,
         NEW q \in Seq(People \X Nat), NEW u \in People, NEW d \in Nat,
         NEW page \in SUBSET People, Di!Following(g, u) = page,
         NEW more \in Seq(People \X Nat), NEW live, NEW alive, live \subseteq alive,
         DiscoverSearched(w, walk, g, live), DiscoverTurn(walk, next, q, u, d, page, more, alive)
  PROVE  DiscoverSearched(w, next, g, alive)
<1>. USE DEF DiscoverTurn
<1>. PICK r \in Seq(People \X Nat) : next.queue = r
  BY DEF DiscoverWalks
<1>1. r = Tail(q) \o more
      /\ walk.seen \in SUBSET People /\ walk.visited \in SUBSET People
  BY DEF DiscoverWalks
<1>2. /\ \A i \in DOMAIN r : \/ i + 1 \in DOMAIN q /\ i + 1 # 1 /\ r[i] = q[i + 1]
                             \/ /\ i >= Len(q) /\ i - Len(q) + 1 \in DOMAIN more
                                /\ r[i] = more[i - Len(q) + 1]
      /\ \A i \in DOMAIN q : i # 1 => i - 1 \in DOMAIN r /\ r[i - 1] = q[i]
      /\ \A i \in DOMAIN more : Len(q) - 1 + i \in DOMAIN r /\ r[Len(q) - 1 + i] = more[i]
      /\ 1 \in DOMAIN q
  <2>1. DiscoverPopped(People \X Nat, q, more, r)
    BY <1>1, DiscoverTail
  <2>. QED  BY <2>1 DEF DiscoverPopped
<1>3. /\ \A i \in DOMAIN q : q[i][1] \in People /\ q[i][2] \in Nat
      /\ \A i \in DOMAIN r : r[i][1] \in People /\ r[i][2] \in Nat
      /\ DOMAIN q \subseteq Nat /\ DOMAIN r \subseteq Nat /\ DOMAIN more \subseteq Nat /\ Len(q) \in Nat
      /\ \A i \in DOMAIN q : i >= 1 /\ i <= Len(q)
  <2>1. DOMAIN q = 1 .. Len(q) /\ DOMAIN r = 1 .. Len(r) /\ DOMAIN more = 1 .. Len(more)
        /\ Len(q) \in Nat /\ Len(r) \in Nat /\ Len(more) \in Nat
    OBVIOUS
  <2>2. \A i \in DOMAIN q : q[i] \in People \X Nat
    BY <2>1
  <2>3. \A i \in DOMAIN r : r[i] \in People \X Nat
    BY <2>1
  <2>4. \A i \in DOMAIN q : q[i][1] \in People /\ q[i][2] \in Nat
    BY <2>2
  <2>5. \A i \in DOMAIN r : r[i][1] \in People /\ r[i][2] \in Nat
    BY <2>3
  <2>6. DOMAIN q \subseteq Nat /\ DOMAIN r \subseteq Nat /\ DOMAIN more \subseteq Nat
    BY <2>1
  <2>7. \A i \in DOMAIN q : i >= 1 /\ i <= Len(q)
    BY <2>1
  <2>. QED  BY <2>1, <2>4, <2>5, <2>6, <2>7
<1>4. u = q[1][1] /\ d = q[1][2]
  OBVIOUS
<1>5. DiscoverQueue(w, q) /\ w[d] \subseteq walk.seen
  BY <1>1, <1>4 DEF DiscoverSearched
<1>6. d <= Depth /\ u \in w[d] /\ \A k \in Nat : k < d => u \notin w[k]
  BY <1>2, <1>4, <1>5 DEF DiscoverQueue
<1>7. \A m, n \in Nat : m <= n => w[m] \subseteq w[n]
  BY DiscoverGrow
<1>8. \A i \in DOMAIN r : \/ \E j \in DOMAIN q : j # 1 /\ r[i] = q[j]
                          \/ /\ d < Depth /\ r[i][2] = d + 1
                             /\ r[i][1] \in page /\ r[i][1] \notin walk.seen
  <2>. SUFFICES ASSUME NEW i \in DOMAIN r, ~ \E j \in DOMAIN q : j # 1 /\ r[i] = q[j]
                PROVE  /\ d < Depth /\ r[i][2] = d + 1
                       /\ r[i][1] \in page /\ r[i][1] \notin walk.seen
    OBVIOUS
  <2>1. PICK j \in DOMAIN more : r[i] = more[j]
    BY <1>2
  <2>2. more # <<>>
    BY <2>1
  <2>. QED  BY <2>1, <2>2
<1>9. \A i \in DOMAIN r : d <= r[i][2] /\ r[i][2] <= d + 1
  <2>1. \A j \in DOMAIN q : d <= q[j][2] /\ q[j][2] <= d + 1
    BY <1>2, <1>3, <1>4, <1>5 DEF DiscoverQueue
  <2>. SUFFICES ASSUME NEW i \in DOMAIN r PROVE d <= r[i][2] /\ r[i][2] <= d + 1
    OBVIOUS
  <2>2. CASE \E j \in DOMAIN q : j # 1 /\ r[i] = q[j]
    BY <2>1, <2>2
  <2>3. CASE r[i][2] = d + 1
    BY <1>4, <2>3
  <2>. QED  BY <1>8, <2>2, <2>3
<1>10. ASSUME NEW i \in DOMAIN r
       PROVE  /\ r[i][2] <= Depth
              /\ r[i][1] \in w[r[i][2]]
              /\ \A k \in Nat : k < r[i][2] => r[i][1] \notin w[k]
  <2>1. CASE \E j \in DOMAIN q : j # 1 /\ r[i] = q[j]
    BY <1>5, <2>1 DEF DiscoverQueue
  <2>2. CASE d < Depth /\ r[i][2] = d + 1 /\ r[i][1] \in page /\ r[i][1] \notin walk.seen
    <3>1. r[i][2] <= Depth
      <4>1. d + 1 <= Depth
        BY <1>4, <2>2
      <4>. QED  BY <2>2, <4>1
    <3>2. r[i][1] \in w[d + 1]
      <4>1. w[d + 1] = w[d] \cup UNION {Di!Following(g, v) : v \in w[d]}
        BY <1>4 DEF DiscoverLevels
      <4>. QED  BY <1>6, <2>2, <4>1
    <3>3. \A k \in Nat : k < d + 1 => k <= d
      OBVIOUS
    <3>4. \A k \in Nat : k <= d => r[i][1] \notin w[k]
      BY <1>5, <1>7, <2>2
    <3>. QED  BY <2>2, <3>1, <3>2, <3>3, <3>4
  <2>. QED  BY <1>8, <2>1, <2>2
<1>11. \A i, j \in DOMAIN r : (i <= j => r[i][2] <= r[j][2]) /\ r[i][2] <= r[j][2] + 1
  <2>. SUFFICES ASSUME NEW i \in DOMAIN r, NEW j \in DOMAIN r
                PROVE  (i <= j => r[i][2] <= r[j][2]) /\ r[i][2] <= r[j][2] + 1
    OBVIOUS
  <2>1. PICK a \in Nat, b \in Nat : a = r[i][2] /\ b = r[j][2]
    BY <1>3
  <2>2. d <= a /\ a <= d + 1 /\ d <= b /\ b <= d + 1
    BY <1>9, <2>1
  <2>3. a <= b + 1
    BY <1>4, <2>2
  <2>4. i <= j => a <= b
    <3>1. SUFFICES ASSUME i <= j PROVE a <= b
      OBVIOUS
    <3>2. CASE i + 1 \in DOMAIN q /\ r[i] = q[i + 1]
      <4>1. CASE j + 1 \in DOMAIN q /\ r[j] = q[j + 1]
        <5>1. i + 1 <= j + 1
          BY <1>3, <3>1
        <5>. QED  BY <1>5, <2>1, <3>2, <4>1, <5>1 DEF DiscoverQueue
      <4>2. CASE j - Len(q) + 1 \in DOMAIN more /\ r[j] = more[j - Len(q) + 1]
        <5>1. more # <<>>
          BY <4>2
        <5>2. b = d + 1
          BY <2>1, <4>2, <5>1
        <5>. QED  BY <1>4, <2>2, <5>2
      <4>. QED  BY <1>2, <4>1, <4>2
    <3>3. CASE i >= Len(q) /\ r[i] = more[i - Len(q) + 1]
      <4>1. ~(j + 1 \in DOMAIN q)
        BY <1>3, <3>1, <3>3
      <4>2. j - Len(q) + 1 \in DOMAIN more /\ r[j] = more[j - Len(q) + 1]
        BY <1>2, <4>1
      <4>3. more # <<>>
        BY <4>2
      <4>4. b = d + 1
        BY <2>1, <4>2, <4>3
      <4>. QED  BY <1>4, <2>2, <4>4
    <3>. QED  BY <1>2, <3>2, <3>3
  <2>. QED  BY <2>1, <2>3, <2>4
<1>12. DiscoverQueue(w, r)
  BY <1>10, <1>11 DEF DiscoverQueue
<1>13. walk.seen \subseteq next.seen
  OBVIOUS
<1>14. ASSUME r # <<>> PROVE w[r[1][2]] \subseteq next.seen
  <2>1. 1 \in DOMAIN r
    BY <1>14
  <2>2. r[1][2] \in Nat /\ r[1][2] <= Depth /\ (r[1][2] = d \/ r[1][2] = d + 1)
    <3>1. PICK a \in Nat : a = r[1][2]
      BY <1>3, <2>1
    <3>2. a <= Depth /\ d <= a /\ a <= d + 1
      BY <1>9, <1>10, <2>1, <3>1
    <3>3. a = d \/ a = d + 1
      BY <3>2
    <3>. QED  BY <3>1, <3>2, <3>3
  <2>3. CASE r[1][2] = d
    BY <1>5, <1>13, <2>3
  <2>4. CASE r[1][2] = d + 1
    <3>0. d < Depth
      <4>1. d + 1 <= Depth
        BY <2>2, <2>4
      <4>. QED  BY <1>4, <4>1
    <3>1. d < Depth /\ next.seen = walk.seen \cup page
      BY <3>0
    <3>2. ASSUME NEW y \in w[d], y # u PROVE Di!Following(g, y) \subseteq walk.seen
      <4>1. y \in walk.seen
        BY <1>5, <3>2
      <4>2. CASE y \in walk.visited
        <5>1. ~ \A k \in Nat : k < Depth => y \notin w[k]
          BY <1>4, <3>1, <3>2
        <5>. QED  BY <4>2, <5>1 DEF DiscoverSearched
      <4>3. CASE \E i \in DOMAIN q : q[i][1] = y
        <5>1. PICK i \in DOMAIN q : q[i][1] = y
          BY <4>3
        <5>2. i # 1
          BY <1>4, <3>2, <5>1
        <5>3. i - 1 \in DOMAIN r /\ r[i - 1] = q[i] /\ 1 <= i - 1
          BY <1>2, <1>3, <5>2
        <5>4. r[1][2] <= r[i - 1][2]
          BY <1>11, <2>1, <5>3
        <5>5. d < q[i][2]
          <6>1. PICK b \in Nat : b = q[i][2]
            BY <1>3
          <6>2. d + 1 <= b
            BY <2>4, <5>3, <5>4, <6>1
          <6>. QED  BY <1>4, <6>1, <6>2
        <5>6. q[i][1] \notin w[d]
          BY <1>4, <1>5, <5>5 DEF DiscoverQueue
        <5>. QED  BY <3>2, <5>1, <5>6
      <4>. QED  BY <4>1, <4>2, <4>3 DEF DiscoverSearched
    <3>3. w[d + 1] = w[d] \cup UNION {Di!Following(g, y) : y \in w[d]}
      BY <1>4 DEF DiscoverLevels
    <3>4. w[d] \subseteq next.seen
      BY <1>5, <1>13
    <3>5. \A y \in w[d] : Di!Following(g, y) \subseteq next.seen
      BY <1>13, <3>1, <3>2
    <3>6. w[d + 1] \subseteq next.seen
      <4>. SUFFICES ASSUME NEW x \in w[d + 1] PROVE x \in next.seen
        OBVIOUS
      <4>1. CASE x \in w[d]
        BY <3>4, <4>1
      <4>2. CASE \E y \in w[d] : x \in Di!Following(g, y)
        BY <3>5, <4>2
      <4>. QED  BY <3>3, <4>1, <4>2
    <3>. QED  BY <2>4, <3>6
  <2>. QED  BY <2>2, <2>3, <2>4
<1>15. \A v \in next.seen : v \in next.visited \/ \E i \in DOMAIN r : r[i][1] = v
  <2>. SUFFICES ASSUME NEW v \in next.seen, v \notin next.visited PROVE \E i \in DOMAIN r : r[i][1] = v
    OBVIOUS
  <2>1. CASE v \in walk.seen
    <3>1. PICK i \in DOMAIN q : q[i][1] = v
      BY <2>1 DEF DiscoverSearched
    <3>2. i # 1
      BY <1>4, <3>1
    <3>. QED  BY <1>2, <3>1, <3>2
  <2>2. CASE v \notin walk.seen
    <3>1. PICK i \in DOMAIN more : more[i][1] = v
      BY <2>2
    <3>. QED  BY <1>2, <3>1
  <2>. QED  BY <2>1, <2>2
<1>16. next.visited \subseteq w[Depth]
  BY <1>4, <1>6, <1>7 DEF DiscoverSearched
<1>17. ASSUME NEW v \in next.visited
       PROVE  \/ \A k \in Nat : k < Depth => v \notin w[k]
              \/ Di!Following(g, v) \subseteq next.seen /\ Di!EdgesOf(v, Di!Following(g, v)) \subseteq alive
  <2>1. CASE v \in walk.visited
    <3>1. \/ \A k \in Nat : k < Depth => v \notin w[k]
          \/ Di!Following(g, v) \subseteq walk.seen /\ Di!EdgesOf(v, Di!Following(g, v)) \subseteq live
      BY <2>1 DEF DiscoverSearched
    <3>. QED  BY <1>13, <3>1
  <2>2. CASE v = u /\ d < Depth
    BY <2>2
  <2>3. CASE v = u /\ ~(d < Depth)
    <3>1. d = Depth
      BY <1>4, <1>6, <2>3
    <3>. QED  BY <1>6, <2>3, <3>1
  <2>. QED  BY <2>1, <2>2, <2>3
<1>. QED  BY <1>12, <1>14, <1>15, <1>16, <1>17 DEF DiscoverSearched

-----------------------------------------------------------------------------
DiscoverStored(rows, live, gone, stubs, ever) ==
  /\ rows \in [People -> Di!Row] /\ stubs \subseteq Writings
  /\ live \cup gone \subseteq ever /\ live \cap gone = {}

DiscoverWalking(walk) ==
  /\ walk \in DiscoverWalks
  /\ walk.visited \subseteq walk.seen /\ Cardinality(walk.visited) <= MaxNodes
  /\ \A i \in DOMAIN walk.queue : walk.queue[i][1] \in walk.seen
  /\ walk.on => walk.start \in walk.seen

DiscoverComplete(walk, g, live) ==
  walk.on /\ ~walk.missed /\ ~walk.moved =>
    \A w \in [Nat -> SUBSET People] :
      DiscoverLevels(w, g, walk.start) => DiscoverSearched(w, walk, g, live)

(* What a walk goes back to when it fails is as sound as what it makes.     *)
DiscoverInv ==
  /\ diGraph \subseteq diEver /\ diEver \subseteq Edges
  /\ DiscoverStored(diRows, diLive, diGone, diStubs, diEver)
  /\ diWalk.on => DiscoverStored(diBefore[1], diBefore[2], diBefore[3], diBefore[4], diEver)
  /\ DiscoverWalking(diWalk)
  /\ DiscoverComplete(diWalk, diGraph, diLive)

LEMMA DiscoverCardinality == ASSUME NEW S PROVE Di!Cardinality(S) = Cardinality(S)
  BY DEF Di!Cardinality, Cardinality

LEMMA DiscoverBasics ==
  ASSUME Di!DiscoveryParams
  PROVE  /\ IsFiniteSet(People) /\ Locals \subseteq People /\ Edges \subseteq People \X People
         /\ Depth \in Nat /\ MaxNodes \in Nat
         /\ Di!NoWalk \in DiscoverWalks /\ DiscoverWalking(Di!NoWalk) /\ ~Di!NoWalk.on
<1>1. IsFiniteSet(People)
  BY DEF Di!DiscoveryParams, Di!IsFiniteSet, IsFiniteSet
<1>2. Locals \subseteq People /\ Edges \subseteq People \X People /\ Depth \in Nat /\ MaxNodes \in Nat
  BY DEF Di!DiscoveryParams
<1>3. Di!NoWalk \in DiscoverWalks
  <2>1. <<>> \in Seq(People \X Nat)
    OBVIOUS
  <2>. QED  BY <2>1 DEF Di!NoWalk, DiscoverWalks
<1>4. DiscoverWalking(Di!NoWalk) /\ ~Di!NoWalk.on
  <2>1. /\ Di!NoWalk.visited = {} /\ Di!NoWalk.seen = {} /\ Di!NoWalk.queue = <<>>
        /\ Di!NoWalk.on = FALSE
    BY DEF Di!NoWalk
  <2>. QED  BY <1>2, <1>3, <2>1, FS_EmptySet DEF DiscoverWalking
<1>. QED  BY <1>1, <1>2, <1>3, <1>4

LEMMA DiscoverInitInv == ASSUME Di!DiscoveryParams, Di!Init PROVE DiscoverInv
<1>1. diRows \in [People -> Di!Row]
  BY DEF Di!Init, Di!Row
<1>2. diWalk = Di!NoWalk /\ diEver = diGraph /\ diGraph \subseteq Edges
      /\ diLive = {} /\ diGone = {} /\ diStubs = {}
  BY DEF Di!Init
<1>. QED  BY <1>1, <1>2, DiscoverBasics DEF DiscoverInv, DiscoverStored, DiscoverComplete

LEMMA DiscoverTypeOK == ASSUME Di!DiscoveryParams, DiscoverInv PROVE Di!TypeOK
<1>1. diGraph \subseteq Edges /\ diEver \subseteq Edges /\ diEver \subseteq People \X People
  BY DiscoverBasics DEF DiscoverInv
<1>2. diWalk.seen \in SUBSET People
  BY DEF DiscoverInv, DiscoverWalking, DiscoverWalks
<1>. QED  BY <1>1, <1>2 DEF DiscoverInv, DiscoverStored, DiscoverWalking, Di!TypeOK

(* Without a walk, it is enough that what is stored stays sound.            *)
LEMMA DiscoverIdle ==
  ASSUME DiscoverInv, ~diWalk.on, UNCHANGED <<diWalk, diGraph>>, diEver \subseteq diEver', diEver' \subseteq Edges,
         DiscoverStored(diRows', diLive', diGone', diStubs', diEver')
  PROVE  DiscoverInv'
<1>1. ~diWalk'.on /\ DiscoverWalking(diWalk')
  BY DEF DiscoverInv
<1>2. DiscoverComplete(diWalk', diGraph', diLive')
  BY <1>1 DEF DiscoverComplete
<1>. QED  BY <1>1, <1>2 DEF DiscoverInv

LEMMA DiscoverEnsured ==
  ASSUME NEW known \in [People -> Di!Row], NEW us, NEW how \in Di!Row
  PROVE  Di!Ensured(known, us, how) \in [People -> Di!Row]
  BY DEF Di!Ensured

LEMMA DiscoverHow == {"none", "author", "listed", "account"} \subseteq Di!Row
  BY DEF Di!Row

LEMMA DiscoverReplaced ==
  ASSUME NEW ever, diLive \cup diGone \subseteq ever, diLive \cap diGone = {},
         NEW mine, NEW page, page \subseteq ever, Di!Replace(mine, page)
  PROVE  diLive' \cup diGone' \subseteq ever /\ diLive' \cap diGone' = {}
<1>. PICK stale : stale = Di!Stale(mine, page)
  OBVIOUS
<1>1. stale \subseteq diLive /\ stale \cap page = {}
  BY DEF Di!Stale
<1>2. diLive' = (diLive \ stale) \cup page /\ diGone' = (diGone \ page) \cup stale
  BY DEF Di!Replace
<1>. QED  BY <1>1, <1>2

LEMMA DiscoverIngested ==
  ASSUME Di!DiscoveryParams, DiscoverInv, NEW u \in People, Di!Ingest(u, Di!Following(diGraph, u))
  PROVE  /\ diLive' \cup diGone' \subseteq diEver /\ diLive' \cap diGone' = {}
         /\ diLive' = diLive \cup Di!EdgesOf(u, Di!Following(diGraph, u))
<1>1. diGraph \in SUBSET (People \X People) /\ diGraph \subseteq diEver
  BY DiscoverBasics DEF DiscoverInv
<1>2. Di!EdgesOf(u, Di!Following(diGraph, u)) \subseteq diEver
  BY <1>1, DiscoverFollowing
<1>. PICK new : new = Di!EdgesOf(u, Di!Following(diGraph, u)) \ diLive
  OBVIOUS
<1>3. diLive' = diLive \cup new /\ diGone' = diGone \ new
  BY DEF Di!Ingest
<1>4. diLive \cup diGone \subseteq diEver /\ diLive \cap diGone = {}
  BY DEF DiscoverInv, DiscoverStored
<1>. QED  BY <1>2, <1>3, <1>4

-----------------------------------------------------------------------------
LEMMA DiscoverMove == ASSUME Di!DiscoveryParams, DiscoverInv, NEW e \in Edges, Di!Move(e) PROVE DiscoverInv'
<1>1. diGraph' \subseteq diEver' /\ diEver' \subseteq Edges /\ diEver \subseteq diEver'
  BY DEF Di!Move, DiscoverInv
<1>2. UNCHANGED <<diRows, diLive, diGone, diStubs, diBefore>>
  BY DEF Di!Move
<1>3. diWalk \in DiscoverWalks /\ diWalk' = [diWalk EXCEPT !.moved = diWalk.on]
  BY DEF Di!Move, DiscoverInv, DiscoverWalking
<1>4. /\ diWalk' \in DiscoverWalks /\ diWalk'.on = diWalk.on /\ diWalk'.moved = diWalk.on
      /\ diWalk'.visited = diWalk.visited /\ diWalk'.seen = diWalk.seen
      /\ diWalk'.queue = diWalk.queue /\ diWalk'.start = diWalk.start
  BY <1>3 DEF DiscoverWalks
<1>5. DiscoverWalking(diWalk')
  BY <1>4 DEF DiscoverInv, DiscoverWalking
<1>6. DiscoverComplete(diWalk', diGraph', diLive')
  BY <1>4 DEF DiscoverComplete
<1>7. DiscoverStored(diRows', diLive', diGone', diStubs', diEver')
  BY <1>1, <1>2 DEF DiscoverInv, DiscoverStored
<1>8. diWalk'.on => DiscoverStored(diBefore'[1], diBefore'[2], diBefore'[3], diBefore'[4], diEver')
  BY <1>1, <1>2, <1>4 DEF DiscoverInv, DiscoverStored
<1>. QED  BY <1>1, <1>5, <1>6, <1>7, <1>8 DEF DiscoverInv

LEMMA DiscoverOwnSteps ==
  ASSUME Di!DiscoveryParams, DiscoverInv,
         \/ \E e \in Edges : Di!Follow(e) \/ Di!Unfollow(e)
         \/ \E u \in Locals : Di!Account(u)
         \/ Di!School
  PROVE  DiscoverInv'
<1>1. DiscoverStored(diRows, diLive, diGone, diStubs, diEver) /\ diEver \subseteq Edges
  BY DEF DiscoverInv
<1>2. ASSUME NEW e \in Edges, Di!Follow(e) \/ Di!Unfollow(e) PROVE DiscoverInv'
  <2>1. ~diWalk.on /\ UNCHANGED <<diWalk, diGraph, diRows, diStubs>>
    BY <1>2 DEF Di!Follow, Di!Unfollow, Di!Busy
  <2>2. /\ diEver \subseteq diEver' /\ diEver' \subseteq Edges
        /\ diLive' \cup diGone' \subseteq diEver' /\ diLive' \cap diGone' = {}
    BY <1>1, <1>2 DEF Di!Follow, Di!Unfollow, DiscoverStored
  <2>. QED  BY <1>1, <2>1, <2>2, DiscoverIdle DEF DiscoverStored
<1>3. ASSUME NEW u \in Locals, Di!Account(u) PROVE DiscoverInv'
  <2>1. ~diWalk.on /\ UNCHANGED <<diWalk, diGraph, diLive, diGone, diStubs, diEver>>
    BY <1>3 DEF Di!Account, Di!Busy
  <2>2. diRows' \in [People -> Di!Row]
    BY <1>1, <1>3, DiscoverHow DEF Di!Account, DiscoverStored
  <2>. QED  BY <1>1, <2>1, <2>2, DiscoverIdle DEF DiscoverStored
<1>4. CASE Di!School
  <2>1. ~diWalk.on /\ UNCHANGED <<diWalk, diGraph, diLive, diGone, diStubs, diEver>>
    BY <1>4 DEF Di!School, Di!Busy
  <2>2. diRows' \in [People -> Di!Row]
    BY <1>1, <1>4, DiscoverEnsured, DiscoverHow DEF Di!School, DiscoverStored
  <2>. QED  BY <1>1, <2>1, <2>2, DiscoverIdle DEF DiscoverStored
<1>. QED  BY <1>2, <1>3, <1>4

LEMMA DiscoverFollowSteps ==
  ASSUME Di!DiscoveryParams, DiscoverInv, NEW u \in People,
         Di!DiscoverFollowing(u) \/ Di!DiscoverFollowers(u)
  PROVE  DiscoverInv'
<1>1. /\ DiscoverStored(diRows, diLive, diGone, diStubs, diEver) /\ diEver \subseteq Edges
      /\ diGraph \in SUBSET (People \X People) /\ diGraph \subseteq diEver
  BY DiscoverBasics DEF DiscoverInv
<1>2. ~diWalk.on /\ UNCHANGED <<diWalk, diGraph, diStubs, diEver>>
  BY DEF Di!DiscoverFollowing, Di!DiscoverFollowers, Di!Busy
<1>3. diRows' \in [People -> Di!Row]
  BY <1>1, DiscoverEnsured, DiscoverHow DEF Di!DiscoverFollowing, Di!DiscoverFollowers, DiscoverStored
<1>4. diLive' \cup diGone' \subseteq diEver /\ diLive' \cap diGone' = {}
  <2>1. diLive \cup diGone \subseteq diEver /\ diLive \cap diGone = {}
    BY <1>1 DEF DiscoverStored
  <2>2. CASE Di!DiscoverFollowing(u)
    <3>1. Di!EdgesOf(u, Di!Following(diGraph, u)) \subseteq diEver
      BY <1>1, DiscoverFollowing
    <3>2. \/ Di!Replace({u} \X People, Di!EdgesOf(u, Di!Following(diGraph, u)))
          \/ Di!Ingest(u, Di!Following(diGraph, u))
      BY <2>2 DEF Di!DiscoverFollowing
    <3>. QED  BY <2>1, <3>1, <3>2, DiscoverReplaced, DiscoverIngested
  <2>3. CASE Di!DiscoverFollowers(u)
    <3>1. PICK fans : fans = {e \in diGraph : e[2] = u}
      OBVIOUS
    <3>2. fans \subseteq diEver
      BY <1>1, <3>1
    <3>3. Di!Replace(People \X {u}, fans) \/ Di!Replace({}, fans)
      BY <2>3, <3>1 DEF Di!DiscoverFollowers
    <3>. QED  BY <2>1, <3>2, <3>3, DiscoverReplaced
  <2>. QED  BY <2>2, <2>3
<1>. QED  BY <1>1, <1>2, <1>3, <1>4, DiscoverIdle DEF DiscoverStored

LEMMA DiscoverStart ==
  ASSUME Di!DiscoveryParams, DiscoverInv, NEW u \in Locals, Di!WalkFrom(u)
  PROVE  DiscoverInv'
<1>1. u \in People /\ Depth \in Nat /\ MaxNodes \in Nat
  BY DiscoverBasics
<1>2. /\ UNCHANGED <<diGraph, diRows, diLive, diGone, diStubs, diEver>>
      /\ diBefore' = <<diRows, diLive, diGone, diStubs>>
  BY DEF Di!WalkFrom, Di!db
<1>3. PICK q : q = << <<u, 0>> >>
  OBVIOUS
<1>4. q \in Seq(People \X Nat) /\ DOMAIN q = {1} /\ q[1] = <<u, 0>>
  BY <1>1, <1>3
<1>5. /\ diWalk' \in DiscoverWalks /\ diWalk'.start = u /\ diWalk'.queue = q
      /\ diWalk'.seen = {u} /\ diWalk'.visited = {}
  BY <1>1, <1>3, <1>4 DEF Di!WalkFrom, Di!NoWalk, DiscoverWalks
<1>6. DiscoverWalking(diWalk')
  BY <1>1, <1>4, <1>5, FS_EmptySet DEF DiscoverWalking
<1>7. ASSUME NEW w \in [Nat -> SUBSET People], DiscoverLevels(w, diGraph', diWalk'.start)
      PROVE  DiscoverSearched(w, diWalk', diGraph', diLive')
  <2>1. w[0] = {u} /\ 0 \in Nat
    BY <1>5, <1>7 DEF DiscoverLevels
  <2>2. DiscoverQueue(w, q)
    BY <1>1, <1>4, <2>1 DEF DiscoverQueue
  <2>. QED  BY <1>4, <1>5, <2>1, <2>2 DEF DiscoverSearched
<1>8. DiscoverComplete(diWalk', diGraph', diLive')
  BY <1>7 DEF DiscoverComplete
<1>. QED  BY <1>2, <1>6, <1>8 DEF DiscoverInv, DiscoverStored

(* The users of a page that were not seen, in some order.                   *)
LEMMA DiscoverQueued ==
  ASSUME Di!DiscoveryParams, NEW us \in SUBSET People, NEW d \in Nat, NEW more \in Di!Queued(us, d)
  PROVE  /\ more \in Seq(People \X Nat)
         /\ \A i \in DOMAIN more : more[i][1] \in us /\ more[i][2] = d
         /\ \A v \in us : \E i \in DOMAIN more : more[i][1] = v
<1>1. PICK s \in Di!SetToSeqs(us) : more = [i \in DOMAIN s |-> <<s[i], d>>]
  BY DEF Di!Queued
<1>2. IsFiniteSet(us)
  BY DiscoverBasics, FS_Subset
<1>3. PICK n \in Nat : n = Cardinality(us)
  BY <1>2, FS_CardinalityType
<1>4. s \in [1 .. n -> us] /\ \A i, j \in 1 .. n : i # j => s[i] # s[j]
  BY <1>3, DiscoverCardinality DEF Di!SetToSeqs
<1>5. s \in Injection(1 .. n, us)
  BY <1>4 DEF Injection, IsInjective
<1>6. IsFiniteSet(1 .. n) /\ Cardinality(1 .. n) = n
  BY FS_Interval
<1>7. s \in Surjection(1 .. n, us)
  BY <1>2, <1>3, <1>5, <1>6, FS_Injection
<1>8. DOMAIN more = 1 .. n /\ \A i \in 1 .. n : more[i] = <<s[i], d>>
  BY <1>1, <1>4
<1>9. more \in Seq(People \X Nat)
  BY <1>1, <1>4
<1>. QED  BY <1>4, <1>7, <1>8, <1>9 DEF Surjection

LEMMA DiscoverVisit == ASSUME Di!DiscoveryParams, DiscoverInv, Di!Visit PROVE DiscoverInv'
<1>1. /\ Depth \in Nat /\ MaxNodes \in Nat /\ IsFiniteSet(People)
      /\ diGraph \in SUBSET (People \X People)
      /\ UNCHANGED <<diGraph, diBefore, diEver>>
  BY DiscoverBasics DEF DiscoverInv, Di!Visit
<1>2. /\ diWalk \in DiscoverWalks /\ diWalk.on /\ diWalk.queue # <<>>
      /\ Cardinality(diWalk.visited) < MaxNodes
  BY DiscoverCardinality DEF DiscoverInv, DiscoverWalking, Di!Visit, Di!Walking, Di!Busy
<1>3. PICK q \in Seq(People \X Nat) : diWalk.queue = q
  BY <1>2 DEF DiscoverWalks
<1>4. PICK u \in People, d \in Nat : q[1] = <<u, d>>
  <2>1. q[1] \in People \X Nat
    BY <1>2, <1>3
  <2>. QED  BY <2>1
<1>5. PICK page \in SUBSET People : Di!Following(diGraph, u) = page
  BY <1>1, DiscoverFollowing
<1>6. PICK here : here = [diWalk EXCEPT !.queue = Tail(@), !.visited = @ \cup {u}]
  OBVIOUS
<1>7. Head(diWalk.queue)[1] = u /\ Head(diWalk.queue)[2] = d
  BY <1>2, <1>3, <1>4
<1>8. Tail(q) \in Seq(People \X Nat) /\ 1 \in DOMAIN q /\ \A i \in DOMAIN Tail(q) : i + 1 \in DOMAIN q /\ Tail(q)[i] = q[i + 1]
  BY <1>2, <1>3
<1>9. /\ here \in DiscoverWalks /\ here.on = diWalk.on /\ here.start = diWalk.start
      /\ here.queue = Tail(q) /\ here.seen = diWalk.seen /\ here.visited = diWalk.visited \cup {u}
      /\ here.missed = diWalk.missed /\ here.moved = diWalk.moved
  BY <1>2, <1>3, <1>6, <1>8 DEF DiscoverWalks
<1>10. u \in diWalk.seen
  BY <1>3, <1>4, <1>8 DEF DiscoverInv, DiscoverWalking
<1>11. IsFiniteSet(here.visited) /\ Cardinality(here.visited) <= MaxNodes
  <2>1. IsFiniteSet(diWalk.visited)
    BY <1>1, <1>2, FS_Subset DEF DiscoverWalks
  <2>2. PICK n \in Nat : n = Cardinality(diWalk.visited)
    BY <2>1, FS_CardinalityType
  <2>3. PICK V : V = diWalk.visited
    OBVIOUS
  <2>4. IsFiniteSet(V) /\ here.visited = V \cup {u} /\ n = Cardinality(V)
    BY <1>9, <2>1, <2>2, <2>3
  <2>5. IsFiniteSet(V \cup {u}) /\ Cardinality(V \cup {u}) = IF u \in V THEN n ELSE n + 1
    BY <2>4, FS_AddElement
  <2>6. n < MaxNodes
    BY <1>2, <2>2
  <2>. QED  BY <1>1, <2>4, <2>5, <2>6
<1>12. \A i \in DOMAIN Tail(q) : Tail(q)[i][1] \in diWalk.seen
  BY <1>3, <1>8 DEF DiscoverInv, DiscoverWalking
<1>13. diWalk.visited \subseteq diWalk.seen
  BY DEF DiscoverInv, DiscoverWalking
<1>14. DiscoverWalking(here)
  BY <1>2, <1>9, <1>10, <1>11, <1>12, <1>13 DEF DiscoverInv, DiscoverWalking
<1>15. DiscoverStored(diRows, diLive, diGone, diStubs, diEver)
  BY DEF DiscoverInv
<1>16. CASE /\ d < Depth
            /\ Di!Ingest(u, page)
            /\ \/ Di!Discover(page)
               \/ diRows' = Di!Ensured(diRows, page, "listed") /\ UNCHANGED diStubs
            /\ \E more \in Di!Queued(page \ diWalk.seen, d + 1) :
                 diWalk' = [here EXCEPT !.queue = @ \o more, !.seen = @ \cup page]
  <2>1. PICK more \in Di!Queued(page \ diWalk.seen, d + 1) :
               diWalk' = [here EXCEPT !.queue = @ \o more, !.seen = @ \cup page]
    BY <1>16
  <2>2. /\ more \in Seq(People \X Nat)
        /\ \A i \in DOMAIN more : more[i][1] \in page \ diWalk.seen /\ more[i][2] = d + 1
        /\ \A v \in page \ diWalk.seen : \E i \in DOMAIN more : more[i][1] = v
    <3>1. page \ diWalk.seen \in SUBSET People /\ d + 1 \in Nat
      OBVIOUS
    <3>. QED  BY <3>1, DiscoverQueued
  <2>3. PICK r \in Seq(People \X Nat) : r = Tail(q) \o more
    BY <1>2, <1>3, <2>2, DiscoverTail DEF DiscoverPopped
  <2>4. diWalk.seen \in SUBSET People
    BY <1>2 DEF DiscoverWalks
  <2>5. /\ diWalk' \in DiscoverWalks /\ diWalk'.on = diWalk.on /\ diWalk'.start = diWalk.start
        /\ diWalk'.queue = r /\ diWalk'.seen = diWalk.seen \cup page
        /\ diWalk'.visited = diWalk.visited \cup {u}
        /\ diWalk'.missed = diWalk.missed /\ diWalk'.moved = diWalk.moved
    BY <1>9, <2>1, <2>3, <2>4 DEF DiscoverWalks
  <2>6. \A i \in DOMAIN r : r[i][1] \in diWalk'.seen
    <3>1. DiscoverPopped(People \X Nat, q, more, r)
      BY <1>2, <1>3, <2>2, <2>3, DiscoverTail
    <3>2. \A i \in DOMAIN r : (\E j \in DOMAIN q : r[i] = q[j]) \/ \E j \in DOMAIN more : r[i] = more[j]
      BY <3>1 DEF DiscoverPopped
    <3>3. \A j \in DOMAIN q : q[j][1] \in diWalk.seen
      BY <1>3 DEF DiscoverInv, DiscoverWalking
    <3>. SUFFICES ASSUME NEW i \in DOMAIN r PROVE r[i][1] \in diWalk.seen \cup page
      BY <2>5
    <3>4. CASE \E j \in DOMAIN q : r[i] = q[j]
      BY <3>3, <3>4
    <3>5. CASE \E j \in DOMAIN more : r[i] = more[j]
      BY <2>2, <3>5
    <3>. QED  BY <3>2, <3>4, <3>5
  <2>7. DiscoverWalking(diWalk')
    BY <1>9, <1>11, <1>14, <2>5, <2>6 DEF DiscoverWalking
  <2>8. /\ diLive' \cup diGone' \subseteq diEver /\ diLive' \cap diGone' = {}
        /\ diLive' = diLive \cup Di!EdgesOf(u, page)
    BY <1>5, <1>16, DiscoverIngested
  <2>9. diRows' \in [People -> Di!Row] /\ diStubs' \subseteq Writings
    <3>1. diRows \in [People -> Di!Row] /\ diStubs \subseteq Writings
      BY <1>15 DEF DiscoverStored
    <3>2. Di!Ensured(diRows, page, "listed") \in [People -> Di!Row]
      BY <3>1, DiscoverEnsured, DiscoverHow
    <3>3. CASE Di!Discover(page)
      <4>1. PICK new : new = Di!Published(page) \ diStubs
        OBVIOUS
      <4>2. diStubs' = diStubs \cup new /\ diRows' = Di!WithAuthors(Di!Ensured(diRows, page, "listed"), new)
        BY <3>3, <4>1 DEF Di!Discover
      <4>3. new \subseteq Writings
        BY <4>1 DEF Di!Published
      <4>. QED  BY <3>1, <3>2, <4>2, <4>3, DiscoverEnsured, DiscoverHow DEF Di!WithAuthors
    <3>. QED  BY <1>16, <3>1, <3>2, <3>3
  <2>10. DiscoverStored(diRows', diLive', diGone', diStubs', diEver')
    BY <1>1, <2>8, <2>9 DEF DiscoverStored
  <2>11. ASSUME NEW w \in [Nat -> SUBSET People], DiscoverLevels(w, diGraph, diWalk.start),
                DiscoverSearched(w, diWalk, diGraph, diLive)
         PROVE  DiscoverSearched(w, diWalk', diGraph, diLive')
<3>. PICK walk : walk = diWalk
      OBVIOUS
<3>. PICK next : next = diWalk'
      OBVIOUS
<3>. PICK live : live = diLive
      OBVIOUS
<3>. PICK alive : alive = diLive'
      OBVIOUS
<3>. PICK g : g = diGraph
      OBVIOUS
<3>. PICK s : s = diWalk.start
      OBVIOUS
    <3>1. /\ walk = diWalk /\ next = diWalk' /\ live = diLive /\ alive = diLive' /\ g = diGraph
          /\ s = diWalk.start /\ walk \in DiscoverWalks /\ next \in DiscoverWalks
          /\ g \in SUBSET (People \X People)
      BY <1>1, <1>2, <2>5
    <3>2. /\ DiscoverLevels(w, g, s) /\ DiscoverSearched(w, walk, g, live)
          /\ live \subseteq alive /\ Di!Following(g, u) = page
      BY <1>5, <2>8, <2>11, <3>1
    <3>3. DiscoverTurn(walk, next, q, u, d, page, more, alive)
      BY <1>2, <1>3, <1>4, <1>16, <2>2, <2>3, <2>5, <2>8, <3>1 DEF DiscoverTurn
    <3>4. DiscoverSearched(w, next, g, alive)
      BY <1>1, <2>2, <3>1, <3>2, <3>3, DiscoverVisited
    <3>. QED  BY <3>1, <3>4
  <2>12. DiscoverComplete(diWalk', diGraph', diLive')
    BY <1>1, <2>5, <2>11 DEF DiscoverInv, DiscoverComplete
  <2>. QED  BY <1>1, <2>5, <2>7, <2>10, <2>12 DEF DiscoverInv
<1>17. CASE diWalk' = [here EXCEPT !.missed = TRUE] /\ UNCHANGED Di!db
  <2>1. /\ diWalk' \in DiscoverWalks /\ diWalk'.on = diWalk.on /\ diWalk'.start = diWalk.start
        /\ diWalk'.queue = Tail(q) /\ diWalk'.seen = diWalk.seen
        /\ diWalk'.visited = here.visited /\ diWalk'.missed
    BY <1>9, <1>17 DEF DiscoverWalks
  <2>2. DiscoverWalking(diWalk')
    BY <1>9, <1>14, <2>1 DEF DiscoverWalking
  <2>3. DiscoverComplete(diWalk', diGraph', diLive')
    BY <2>1 DEF DiscoverComplete
  <2>. QED  BY <1>1, <1>17, <2>1, <2>2, <2>3 DEF DiscoverInv, Di!db
<1>18. CASE ~(d < Depth) /\ diWalk' = here /\ UNCHANGED Di!db
  <2>1. UNCHANGED <<diRows, diLive, diGone, diStubs>>
    BY <1>18 DEF Di!db
  <2>2. ASSUME NEW w \in [Nat -> SUBSET People], DiscoverLevels(w, diGraph, diWalk.start),
               DiscoverSearched(w, diWalk, diGraph, diLive)
        PROVE  DiscoverSearched(w, here, diGraph, diLive)
<3>. PICK walk : walk = diWalk
      OBVIOUS
<3>. PICK live : live = diLive
      OBVIOUS
<3>. PICK g : g = diGraph
      OBVIOUS
<3>. PICK s : s = diWalk.start
      OBVIOUS
<3>. PICK more : more = <<>>
      OBVIOUS
    <3>1. /\ walk = diWalk /\ live = diLive /\ g = diGraph /\ more = <<>>
          /\ s = diWalk.start /\ walk \in DiscoverWalks /\ here \in DiscoverWalks
          /\ g \in SUBSET (People \X People) /\ more \in Seq(People \X Nat)
      BY <1>1, <1>2, <1>9
    <3>2. Tail(q) \o more = Tail(q)
      BY <1>8, <3>1
    <3>3. /\ DiscoverLevels(w, g, s) /\ DiscoverSearched(w, walk, g, live)
          /\ live \subseteq live /\ Di!Following(g, u) = page
      BY <1>5, <2>2, <3>1
    <3>4. DiscoverTurn(walk, here, q, u, d, page, more, live)
      BY <1>2, <1>3, <1>4, <1>9, <1>18, <3>1, <3>2 DEF DiscoverTurn
    <3>5. DiscoverSearched(w, here, g, live)
      BY <1>1, <3>1, <3>3, <3>4, DiscoverVisited
    <3>. QED  BY <3>1, <3>5
  <2>3. DiscoverComplete(diWalk', diGraph', diLive')
    BY <1>1, <1>9, <1>18, <2>1, <2>2 DEF DiscoverInv, DiscoverComplete
  <2>. QED  BY <1>1, <1>9, <1>14, <1>18, <2>1, <2>3 DEF DiscoverInv
<1>19. \/ /\ d < Depth
          /\ Di!Ingest(u, page)
          /\ \/ Di!Discover(page)
             \/ diRows' = Di!Ensured(diRows, page, "listed") /\ UNCHANGED diStubs
          /\ \E more \in Di!Queued(page \ diWalk.seen, d + 1) :
               diWalk' = [here EXCEPT !.queue = @ \o more, !.seen = @ \cup page]
       \/ diWalk' = [here EXCEPT !.missed = TRUE] /\ UNCHANGED Di!db
       \/ ~(d < Depth) /\ diWalk' = here /\ UNCHANGED Di!db
  BY <1>5, <1>6, <1>7 DEF Di!Visit, Di!GoesOn
<1>. QED  BY <1>16, <1>17, <1>18, <1>19

LEMMA DiscoverEnd == ASSUME Di!DiscoveryParams, DiscoverInv, Di!Commit \/ Di!Abort PROVE DiscoverInv'
<1>1. /\ diWalk.on /\ diWalk' = Di!NoWalk /\ UNCHANGED <<diGraph, diEver>>
      /\ \/ UNCHANGED <<diRows, diLive, diGone, diStubs>>
         \/ diRows' = diBefore[1] /\ diLive' = diBefore[2] /\ diGone' = diBefore[3] /\ diStubs' = diBefore[4]
  BY DEF Di!Commit, Di!Abort, Di!Busy
<1>2. DiscoverWalking(diWalk') /\ ~diWalk'.on
  BY <1>1, DiscoverBasics
<1>3. DiscoverComplete(diWalk', diGraph', diLive')
  BY <1>2 DEF DiscoverComplete
<1>4. DiscoverStored(diRows', diLive', diGone', diStubs', diEver')
  BY <1>1 DEF DiscoverInv
<1>. QED  BY <1>1, <1>2, <1>3, <1>4 DEF DiscoverInv

LEMMA DiscoverNextKeeps == ASSUME Di!DiscoveryParams, DiscoverInv, [Di!Next]_Di!vars PROVE DiscoverInv'
<1>1. CASE UNCHANGED Di!vars
  BY <1>1 DEF Di!vars, DiscoverInv
<1>. QED  BY <1>1, DiscoverMove, DiscoverOwnSteps, DiscoverFollowSteps, DiscoverStart, DiscoverVisit, DiscoverEnd
          DEF Di!Next

(* A walk that ends without a break has seen the levels up to the last, or   *)
(* stops at its limit.                                                     *)
LEMMA DiscoverWalkIsComplete == ASSUME Di!DiscoveryParams, DiscoverInv PROVE Di!WalkIsComplete
<1>. SUFFICES ASSUME diWalk.on, ~Di!Walking, ~diWalk.missed, ~diWalk.moved
              PROVE  /\ diWalk.visited \subseteq Di!Within[Depth]
                     /\ diWalk.visited = Di!Within[Depth] \/ Di!Cardinality(diWalk.visited) = MaxNodes
                     /\ diWalk.visited = Di!Within[Depth] /\ Depth > 0 =>
                          \A u \in Di!Within[Depth - 1] :
                            Di!EdgesOf(u, Di!Following(diGraph, u)) \subseteq diLive
  BY DEF Di!WalkIsComplete, Di!Busy
<1>1. /\ diWalk \in DiscoverWalks /\ diWalk.start \in People /\ Cardinality(diWalk.visited) <= MaxNodes
      /\ diGraph \in SUBSET (People \X People) /\ Depth \in Nat /\ MaxNodes \in Nat /\ IsFiniteSet(People)
  BY DiscoverBasics DEF DiscoverInv, DiscoverWalking, DiscoverWalks
<1>2. PICK w \in [Nat -> SUBSET People] : w = Di!Within /\ DiscoverLevels(w, diGraph, diWalk.start)
  BY <1>1, DiscoverWithin
<1>3. DiscoverSearched(w, diWalk, diGraph, diLive)
  BY <1>2 DEF DiscoverInv, DiscoverComplete
<1>4. \A m, n \in Nat : m <= n => w[m] \subseteq w[n]
  BY <1>2, DiscoverGrow
<1>5. diWalk.visited \subseteq w[Depth]
  BY <1>3 DEF DiscoverSearched
<1>6. \A u \in diWalk.visited, k \in Nat :
        k < Depth /\ u \in w[k] => /\ Di!Following(diGraph, u) \subseteq diWalk.seen
                                   /\ Di!EdgesOf(u, Di!Following(diGraph, u)) \subseteq diLive
  BY <1>3 DEF DiscoverSearched
<1>7. ASSUME diWalk.queue = <<>> PROVE w[Depth] \subseteq diWalk.visited
  <2>1. diWalk.seen \subseteq diWalk.visited
    BY <1>3, <1>7 DEF DiscoverSearched
  <2>2. diWalk.start \in diWalk.seen
    BY DEF DiscoverInv, DiscoverWalking
  <2> DEFINE T == {n \in Nat : n <= Depth => w[n] \subseteq diWalk.visited}
  <2>3. 0 \in T
    BY <1>2, <2>1, <2>2 DEF DiscoverLevels
  <2>4. ASSUME NEW n \in T PROVE n + 1 \in T
    <3>1. SUFFICES ASSUME n + 1 <= Depth PROVE w[n + 1] \subseteq diWalk.visited
      BY <2>4
    <3>2. n \in Nat /\ n < Depth /\ w[n] \subseteq diWalk.visited
      BY <1>1, <2>4, <3>1
    <3>3. \A u \in w[n] : Di!Following(diGraph, u) \subseteq diWalk.visited
      BY <1>6, <2>1, <3>2
    <3>4. w[n + 1] = w[n] \cup UNION {Di!Following(diGraph, u) : u \in w[n]}
      BY <1>2, <3>2 DEF DiscoverLevels
    <3>. QED  BY <3>2, <3>3, <3>4
  <2>5. T \in SUBSET Nat
    OBVIOUS
  <2>6. T = Nat
    <3>. HIDE DEF T
    <3>. QED  BY <2>3, <2>4, <2>5, DiscoverInduction
  <2>. QED  BY <1>1, <2>6
<1>8. ASSUME ~(Cardinality(diWalk.visited) < MaxNodes) PROVE Di!Cardinality(diWalk.visited) = MaxNodes
  <2>1. IsFiniteSet(diWalk.visited)
    BY <1>1, FS_Subset DEF DiscoverWalks
  <2>2. PICK n \in Nat : n = Cardinality(diWalk.visited)
    BY <2>1, FS_CardinalityType
  <2>3. n = MaxNodes
    BY <1>1, <1>8, <2>2
  <2>. QED  BY <2>2, <2>3, DiscoverCardinality
<1>9. diWalk.queue = <<>> \/ ~(Cardinality(diWalk.visited) < MaxNodes)
  BY DiscoverCardinality DEF Di!Walking, Di!Busy
<1>10. ASSUME diWalk.visited = w[Depth], Depth > 0, NEW u \in w[Depth - 1]
       PROVE  Di!EdgesOf(u, Di!Following(diGraph, u)) \subseteq diLive
  <2>1. Depth - 1 \in Nat /\ Depth - 1 <= Depth /\ Depth - 1 < Depth
    BY <1>1, <1>10
  <2>2. u \in diWalk.visited
    BY <1>1, <1>4, <1>10, <2>1
  <2>. QED  BY <1>6, <1>10, <2>1, <2>2
<1>. QED  BY <1>2, <1>5, <1>7, <1>8, <1>9, <1>10

-----------------------------------------------------------------------------
(* The behaviours of the parts, seen from Discovery, are its own.              *)
LEMMA DiscoverAlone == Spec => Di!Init /\ [][Di!Next]_(Di!vars)
<1>1. Init => Di!Init
  BY DEF Init
<1>2. Next => Di!Next \/ diVars' = diVars
  BY DEF Next
<1>3. vars' = vars => diVars' = diVars
  BY DEF vars
<1>4. diVars' = diVars => UNCHANGED Di!vars
  BY DEF diVars, Di!vars
<1>5. [Next]_vars => [Di!Next]_(Di!vars)
  BY <1>2, <1>3, <1>4
<1>. QED  BY <1>1, <1>5, PTL DEF Spec

LEMMA DiscoverAlways == Di!Init /\ [][Di!Next]_(Di!vars) => []DiscoverInv
<1>1. Di!DiscoveryParams
  BY PartParams DEF PartParams
<1>2. Di!Init => DiscoverInv
  BY <1>1, DiscoverInitInv
<1>3. DiscoverInv /\ [Di!Next]_(Di!vars) => DiscoverInv'
  BY <1>1, DiscoverNextKeeps
<1>. QED  BY <1>2, <1>3, PTL

(* The types hold in every state.                                          *)
THEOREM DiscoveryTypes == (Di!Spec => []Di!TypeOK) /\ (Spec => []Di!TypeOK)
<1>1. Di!DiscoveryParams
  BY PartParams DEF PartParams
<1>2. DiscoverInv => Di!TypeOK
  BY <1>1, DiscoverTypeOK
<1>. QED  BY <1>2, DiscoverAlways, DiscoverAlone, PTL DEF Di!Spec

(* Through walks, syncs, failures and the graph that changes meanwhile, no   *)
(* follow is stored that nobody made, and none as both live and deleted      *)
(* (ingest_following, sync_following, sync_followers).                     *)
THEOREM FollowsAreMade == (Di!Spec => []Di!NothingInvented) /\ (Spec => []NothingInvented)
<1>1. DiscoverInv => Di!NothingInvented /\ NothingInvented
  BY DEF DiscoverInv, DiscoverStored, Di!NothingInvented, NothingInvented
<1>. QED  BY <1>1, DiscoverAlways, DiscoverAlone, PTL DEF Di!Spec

(* For any graph, depth and limit: the search is breadth first, so a walk   *)
(* that nothing disturbed takes in all that is within its depth, or as many *)
(* as it may (bfs_traverse, _bfs_walk).                                    *)
THEOREM WalksAreComplete == (Di!Spec => []Di!WalkIsComplete) /\ (Spec => []WalkIsComplete)
<1>1. Di!DiscoveryParams
  BY PartParams DEF PartParams
<1>2. DiscoverInv => Di!WalkIsComplete /\ WalkIsComplete
  BY <1>1, DiscoverWalkIsComplete DEF WalkIsComplete
<1>. QED  BY <1>2, DiscoverAlways, DiscoverAlone, PTL DEF Di!Spec

-----------------------------------------------------------------------------
(* What an entry says of a server was so within the age of the entry.       *)
HealthSaysTrue(e, s, wasUp, wasDown) ==
  e # Hc!Absent =>
    /\ e.online => wasUp[s] <= e.age
    /\ ~e.online /\ s \in Serves => wasDown[s] <= e.age

HealthStoreTrue(store, wasUp, wasDown) ==
  \A s \in Servers : HealthSaysTrue(store[s], s, wasUp, wasDown)

HealthSeen ==
  \A s \in Servers : /\ s \in hcUp => hcWasUp[s] = 0
                     /\ s \notin hcUp => hcWasDown[s] = 0

(* The files that are about to be written say what is true as well.        *)
HealthInv ==
  /\ Hc!TypeOK
  /\ HealthSeen
  /\ HealthStoreTrue(hcFile, hcWasUp, hcWasDown)
  /\ \A p \in Procs : HealthStoreTrue(hcMemory[p], hcWasUp, hcWasDown)
  /\ \A p \in Procs : hcReplacing[p] \in Hc!Store => HealthStoreTrue(hcReplacing[p], hcWasUp, hcWasDown)

LEMMA HealthBasics ==
  ASSUME Hc!HealthParams
  PROVE  /\ TTL \in Nat /\ Hc!Old = TTL + 1 /\ Hc!Ages = 0 .. TTL + 1
         /\ Hc!Absent \in Hc!Entry /\ Hc!Empty \in Hc!Store
         /\ \A p \in Procs, s \in Servers : Hc!Empty[s] = Hc!Absent
  BY DEF Hc!HealthParams, Hc!Old, Hc!Ages, Hc!Absent, Hc!Entry, Hc!Empty, Hc!Store

LEMMA HealthInitInv == ASSUME Hc!HealthParams, Hc!Init PROVE HealthInv
<1>1. /\ TTL \in Nat /\ Hc!Old = TTL + 1 /\ Hc!Ages = 0 .. TTL + 1
      /\ Hc!Empty \in Hc!Store /\ \A s \in Servers : Hc!Empty[s] = Hc!Absent
  BY HealthBasics DEF Hc!Empty
<1>2. HealthSeen
  BY DEF Hc!Init, HealthSeen
<1>3. hcReplacing \in [Procs -> {Hc!NoWrite}] /\ hcReplacing \in [Procs -> Hc!Store \cup {Hc!NoWrite}]
  BY DEF Hc!Init
<1>4. Hc!TypeOK
  <2>1. hcWasUp \in [Servers -> Hc!Ages] /\ hcWasDown \in [Servers -> Hc!Ages]
    BY <1>1 DEF Hc!Init
  <2>. QED  BY <1>1, <1>3, <2>1 DEF Hc!Init, Hc!TypeOK
<1>5. HealthStoreTrue(Hc!Empty, hcWasUp, hcWasDown)
  BY <1>1 DEF HealthStoreTrue, HealthSaysTrue
<1>6. \A p \in Procs : hcReplacing[p] \in Hc!Store => HealthStoreTrue(hcReplacing[p], hcWasUp, hcWasDown)
  <2>. SUFFICES ASSUME NEW p \in Procs, hcReplacing[p] \in Hc!Store, NEW s \in Servers
                PROVE  FALSE
    BY DEF HealthStoreTrue
  <2>1. DOMAIN hcReplacing[p] = Servers
    BY DEF Hc!Store
  <2>2. hcReplacing[p] = <<>>
    BY <1>3 DEF Hc!NoWrite
  <2>. QED  BY <2>1, <2>2
<1>. QED  BY <1>2, <1>4, <1>5, <1>6 DEF Hc!Init, HealthInv

(* Without a step of the clock or a change of a server, it is enough that   *)
(* the new entries say what is true.                                       *)
LEMMA HealthStill ==
  ASSUME HealthInv, UNCHANGED <<hcUp, hcWasUp, hcWasDown>>,
         hcMemory' \in [Procs -> Hc!Store], hcFile' \in Hc!Store,
         hcReplacing' \in [Procs -> Hc!Store \cup {Hc!NoWrite}],
         HealthStoreTrue(hcFile', hcWasUp, hcWasDown), \A p \in Procs : HealthStoreTrue(hcMemory'[p], hcWasUp, hcWasDown),
         \A p \in Procs : hcReplacing'[p] \in Hc!Store => HealthStoreTrue(hcReplacing'[p], hcWasUp, hcWasDown)
  PROVE  HealthInv'
<1>1. Hc!TypeOK'
  BY DEF HealthInv, Hc!TypeOK
<1>2. HealthSeen'
  BY DEF HealthInv, HealthSeen
<1>. QED  BY <1>1, <1>2 DEF HealthInv

LEMMA HealthPut ==
  ASSUME NEW store \in Hc!Store, HealthStoreTrue(store, hcWasUp, hcWasDown), NEW s \in Servers, NEW e \in Hc!Entry,
         HealthSaysTrue(e, s, hcWasUp, hcWasDown)
  PROVE  [store EXCEPT ![s] = e] \in Hc!Store /\ HealthStoreTrue([store EXCEPT ![s] = e], hcWasUp, hcWasDown)
  BY DEF Hc!Store, HealthStoreTrue

LEMMA HealthAskFile ==
  ASSUME Hc!HealthParams, HealthInv, NEW p \in Procs, NEW s \in Servers, Hc!AskFile(p, s)
  PROVE  HealthInv'
<1>1. hcMemory \in [Procs -> Hc!Store] /\ hcFile \in Hc!Store
  BY DEF HealthInv, Hc!TypeOK
<1>2. hcFile[s] \in Hc!Entry /\ HealthSaysTrue(hcFile[s], s, hcWasUp, hcWasDown)
  BY <1>1 DEF Hc!Store, HealthInv, HealthStoreTrue
<1>3. hcMemory' = [hcMemory EXCEPT ![p] = [hcMemory[p] EXCEPT ![s] = hcFile[s]]]
  BY DEF Hc!AskFile, Hc!Copied
<1>4. /\ [hcMemory[p] EXCEPT ![s] = hcFile[s]] \in Hc!Store
      /\ HealthStoreTrue([hcMemory[p] EXCEPT ![s] = hcFile[s]], hcWasUp, hcWasDown)
  BY <1>1, <1>2, HealthPut DEF HealthInv
<1>5. hcMemory' \in [Procs -> Hc!Store] /\ \A q \in Procs : HealthStoreTrue(hcMemory'[q], hcWasUp, hcWasDown)
  BY <1>1, <1>3, <1>4 DEF HealthInv
<1>6. UNCHANGED <<hcUp, hcWasUp, hcWasDown, hcFile, hcReplacing>>
  BY DEF Hc!AskFile
<1>. QED  BY <1>5, <1>6, HealthStill DEF HealthInv, Hc!TypeOK

(* Pruning takes entries away.                                             *)
LEMMA HealthPruned ==
  ASSUME Hc!HealthParams, NEW store \in Hc!Store, HealthStoreTrue(store, hcWasUp, hcWasDown), NEW kept \in Hc!Pruned(store)
  PROVE  kept \in Hc!Store /\ HealthStoreTrue(kept, hcWasUp, hcWasDown)
<1>1. CASE kept = store
  BY <1>1
<1>2. CASE \E s \in Hc!Kept(store) : kept = [store EXCEPT ![s] = Hc!Absent]
  <2>1. PICK s \in Servers : kept = [store EXCEPT ![s] = Hc!Absent]
    BY <1>2 DEF Hc!Kept
  <2>2. HealthSaysTrue(Hc!Absent, s, hcWasUp, hcWasDown)
    BY DEF HealthSaysTrue
  <2>. QED  BY <2>1, <2>2, HealthBasics, HealthPut
<1>. QED  BY <1>1, <1>2 DEF Hc!Pruned

LEMMA HealthProbe ==
  ASSUME Hc!HealthParams, HealthInv, NEW p \in Procs, NEW s \in Servers, Hc!Probe(p, s)
  PROVE  HealthInv'
<1>1. PICK e : e = [age |-> 0, online |-> s \in hcUp \cap Serves]
  OBVIOUS
<1>2. e \in Hc!Entry
  <2>1. 0 \in Hc!Ages
    BY HealthBasics
  <2>2. (s \in hcUp \cap Serves) \in BOOLEAN
    OBVIOUS
  <2>. QED  BY <1>1, <2>1, <2>2 DEF Hc!Entry
<1>3. HealthSaysTrue(e, s, hcWasUp, hcWasDown)
  <2>1. e.age = 0 /\ e.online = (s \in hcUp \cap Serves)
    BY <1>1
  <2>2. s \in hcUp => hcWasUp[s] <= 0
    BY DEF HealthInv, HealthSeen
  <2>3. s \notin hcUp => hcWasDown[s] <= 0
    BY DEF HealthInv, HealthSeen
  <2>. QED  BY <2>1, <2>2, <2>3 DEF HealthSaysTrue
<1>4. hcMemory \in [Procs -> Hc!Store] /\ hcFile \in Hc!Store
      /\ hcReplacing \in [Procs -> Hc!Store \cup {Hc!NoWrite}]
  BY DEF HealthInv, Hc!TypeOK
<1>5. hcMemory' = [hcMemory EXCEPT ![p] = [hcMemory[p] EXCEPT ![s] = e]]
  BY <1>1 DEF Hc!Probe
<1>6. hcMemory' \in [Procs -> Hc!Store] /\ \A q \in Procs : HealthStoreTrue(hcMemory'[q], hcWasUp, hcWasDown)
  <2>1. /\ [hcMemory[p] EXCEPT ![s] = e] \in Hc!Store
        /\ HealthStoreTrue([hcMemory[p] EXCEPT ![s] = e], hcWasUp, hcWasDown)
    BY <1>2, <1>3, <1>4, HealthPut DEF HealthInv
  <2>. QED  BY <1>4, <1>5, <2>1 DEF HealthInv
<1>7. PICK store \in Hc!Pruned([hcFile EXCEPT ![s] = e]) :
        hcReplacing' = [hcReplacing EXCEPT ![p] = store]
  BY <1>1 DEF Hc!Probe
<1>8. store \in Hc!Store /\ HealthStoreTrue(store, hcWasUp, hcWasDown)
  BY <1>2, <1>3, <1>4, HealthPut, HealthPruned DEF HealthInv
<1>9. /\ hcReplacing' \in [Procs -> Hc!Store \cup {Hc!NoWrite}]
      /\ \A q \in Procs : hcReplacing'[q] \in Hc!Store => HealthStoreTrue(hcReplacing'[q], hcWasUp, hcWasDown)
  BY <1>4, <1>7, <1>8 DEF HealthInv
<1>10. UNCHANGED <<hcUp, hcWasUp, hcWasDown, hcFile>>
  BY DEF Hc!Probe
<1>. QED  BY <1>4, <1>6, <1>9, <1>10, HealthStill DEF HealthInv

LEMMA HealthReplace ==
  ASSUME Hc!HealthParams, HealthInv, NEW p \in Procs, Hc!Replace(p) \/ Hc!Exit(p)
  PROVE  HealthInv'
<1>1. /\ hcMemory \in [Procs -> Hc!Store] /\ hcFile \in Hc!Store
      /\ hcReplacing \in [Procs -> Hc!Store \cup {Hc!NoWrite}]
  BY DEF HealthInv, Hc!TypeOK
<1>2. hcReplacing' = [hcReplacing EXCEPT ![p] = Hc!NoWrite]
  BY DEF Hc!Replace, Hc!Exit
<1>3. hcReplacing' \in [Procs -> Hc!Store \cup {Hc!NoWrite}]
  BY <1>1, <1>2
<1>4. HealthStoreTrue(Hc!Empty, hcWasUp, hcWasDown)
  BY HealthBasics DEF HealthStoreTrue, HealthSaysTrue
<1>5. ASSUME NEW q \in Procs, hcReplacing'[q] \in Hc!Store PROVE HealthStoreTrue(hcReplacing'[q], hcWasUp, hcWasDown)
  <2>1. CASE q # p
    BY <1>1, <1>2, <1>5, <2>1 DEF HealthInv
  <2>2. CASE q = p
    <3>. SUFFICES ASSUME NEW s \in Servers PROVE FALSE
      BY DEF HealthStoreTrue
    <3>1. DOMAIN hcReplacing'[q] = Servers
      BY <1>5 DEF Hc!Store
    <3>2. hcReplacing'[q] = <<>>
      BY <1>1, <1>2, <2>2 DEF Hc!NoWrite
    <3>. QED  BY <3>1, <3>2
  <2>. QED  BY <2>1, <2>2
<1>6. CASE Hc!Replace(p)
  <2>1. hcFile' = hcReplacing[p] /\ hcReplacing[p] \in Hc!Store
    BY <1>1, <1>6 DEF Hc!Replace, Hc!Free
  <2>2. UNCHANGED <<hcUp, hcWasUp, hcWasDown, hcMemory>>
    BY <1>6 DEF Hc!Replace
  <2>. QED  BY <1>1, <1>3, <1>5, <2>1, <2>2, HealthStill DEF HealthInv
<1>7. CASE Hc!Exit(p)
  <2>1. hcMemory' = [hcMemory EXCEPT ![p] = Hc!Empty]
    BY <1>7 DEF Hc!Exit
  <2>2. hcMemory' \in [Procs -> Hc!Store] /\ \A q \in Procs : HealthStoreTrue(hcMemory'[q], hcWasUp, hcWasDown)
    BY <1>1, <1>4, <2>1, HealthBasics DEF HealthInv
  <2>3. UNCHANGED <<hcUp, hcWasUp, hcWasDown, hcFile>>
    BY <1>7 DEF Hc!Exit
  <2>. QED  BY <1>1, <1>3, <1>5, <2>2, <2>3, HealthStill DEF HealthInv
<1>. QED  BY <1>6, <1>7

(* A server that comes or goes was in both states just now.                *)
LEMMA HealthFlip ==
  ASSUME Hc!HealthParams, HealthInv, NEW s \in Serves, Hc!Flip(s)
  PROVE  HealthInv'
<1>1. s \in Servers
  BY DEF Hc!HealthParams
<1>2. hcWasUp \in [Servers -> Hc!Ages] /\ hcWasDown \in [Servers -> Hc!Ages] /\ hcUp \subseteq Servers
      /\ 0 \in Hc!Ages
  BY HealthBasics DEF HealthInv, Hc!TypeOK
<1>3. UNCHANGED <<hcMemory, hcFile, hcReplacing>> /\ hcWasUp' = [hcWasUp EXCEPT ![s] = 0]
      /\ hcWasDown' = [hcWasDown EXCEPT ![s] = 0] /\ hcUp' = IF s \in hcUp THEN hcUp \ {s} ELSE hcUp \cup {s}
  BY DEF Hc!Flip
<1>4. Hc!TypeOK'
  BY <1>1, <1>2, <1>3 DEF HealthInv, Hc!TypeOK
<1>5. HealthSeen'
  BY <1>1, <1>2, <1>3 DEF HealthInv, HealthSeen
<1>6. ASSUME NEW store \in Hc!Store, HealthStoreTrue(store, hcWasUp, hcWasDown) PROVE HealthStoreTrue(store, hcWasUp', hcWasDown')
  <2>. SUFFICES ASSUME NEW t \in Servers PROVE HealthSaysTrue(store[t], t, hcWasUp', hcWasDown')
    BY DEF HealthStoreTrue
  <2>1. store[t].age \in Hc!Ages
    BY DEF Hc!Store, Hc!Entry
  <2>2. store[t].age \in Nat /\ 0 <= store[t].age
    BY <2>1, HealthBasics
  <2>3. HealthSaysTrue(store[t], t, hcWasUp, hcWasDown)
    BY <1>6 DEF HealthStoreTrue
  <2>4. CASE t = s
    BY <1>2, <1>3, <2>2, <2>4 DEF HealthSaysTrue
  <2>5. CASE t # s
    BY <1>2, <1>3, <2>3, <2>5 DEF HealthSaysTrue
  <2>. QED  BY <2>4, <2>5
<1>7. /\ hcMemory \in [Procs -> Hc!Store] /\ hcFile \in Hc!Store
  BY DEF HealthInv, Hc!TypeOK
<1>8. HealthStoreTrue(hcFile', hcWasUp', hcWasDown') /\ \A p \in Procs : HealthStoreTrue(hcMemory'[p], hcWasUp', hcWasDown')
  BY <1>3, <1>6, <1>7 DEF HealthInv
<1>9. \A p \in Procs : hcReplacing'[p] \in Hc!Store => HealthStoreTrue(hcReplacing'[p], hcWasUp', hcWasDown')
  BY <1>3, <1>6 DEF HealthInv
<1>. QED  BY <1>4, <1>5, <1>8, <1>9 DEF HealthInv

LEMMA HealthAged ==
  ASSUME Hc!HealthParams
  PROVE  /\ \A a \in Hc!Ages : Hc!Aged(a) \in Hc!Ages
         /\ \A a, b \in Hc!Ages : a <= b => Hc!Aged(a) <= Hc!Aged(b)
         /\ \A a \in Hc!Ages : 0 <= Hc!Aged(a)
  BY HealthBasics DEF Hc!Aged

LEMMA HealthTick ==
  ASSUME Hc!HealthParams, HealthInv, Hc!Tick
  PROVE  HealthInv'
<1>1. /\ hcWasUp \in [Servers -> Hc!Ages] /\ hcWasDown \in [Servers -> Hc!Ages] /\ hcUp \subseteq Servers
      /\ hcMemory \in [Procs -> Hc!Store] /\ hcFile \in Hc!Store
      /\ hcReplacing \in [Procs -> Hc!Store \cup {Hc!NoWrite}] /\ 0 \in Hc!Ages
  BY HealthBasics DEF HealthInv, Hc!TypeOK
<1>2. /\ hcUp' = hcUp
      /\ \A s \in Servers : /\ hcWasUp'[s] = IF s \in hcUp THEN 0 ELSE Hc!Aged(hcWasUp[s])
                            /\ hcWasDown'[s] = IF s \in hcUp THEN Hc!Aged(hcWasDown[s]) ELSE 0
  BY DEF Hc!Tick
<1>3. hcWasUp' \in [Servers -> Hc!Ages] /\ hcWasDown' \in [Servers -> Hc!Ages]
  <2>1. \A s \in Servers : Hc!Aged(hcWasUp[s]) \in Hc!Ages /\ Hc!Aged(hcWasDown[s]) \in Hc!Ages
    BY <1>1, HealthAged
  <2>. QED  BY <1>1, <2>1 DEF Hc!Tick
<1>4. \A s \in Servers : hcWasUp'[s] <= Hc!Aged(hcWasUp[s]) /\ hcWasDown'[s] <= Hc!Aged(hcWasDown[s])
  <2>. SUFFICES ASSUME NEW s \in Servers
                PROVE  hcWasUp'[s] <= Hc!Aged(hcWasUp[s]) /\ hcWasDown'[s] <= Hc!Aged(hcWasDown[s])
    OBVIOUS
  <2>1. Hc!Aged(hcWasUp[s]) \in Nat /\ Hc!Aged(hcWasDown[s]) \in Nat
    BY <1>1, HealthAged, HealthBasics
  <2>2. PICK a \in Nat, b \in Nat : a = Hc!Aged(hcWasUp[s]) /\ b = Hc!Aged(hcWasDown[s])
    BY <2>1
  <2>. QED  BY <1>2, <2>2
<1>5. ASSUME NEW store \in Hc!Store, HealthStoreTrue(store, hcWasUp, hcWasDown)
      PROVE  Hc!Later(store) \in Hc!Store
             /\ HealthStoreTrue(Hc!Later(store), hcWasUp', hcWasDown')
  <2>1. ASSUME NEW s \in Servers
        PROVE  Hc!Later(store)[s] \in Hc!Entry /\ HealthSaysTrue(Hc!Later(store)[s], s, hcWasUp', hcWasDown')
    <3>1. PICK e \in Hc!Entry : e = store[s]
      BY DEF Hc!Store
    <3>2. PICK b \in Hc!Ages : b = Hc!Aged(e.age)
      BY HealthAged DEF Hc!Entry
    <3>3. Hc!Later(store)[s] = IF b = Hc!Old THEN Hc!Absent ELSE [e EXCEPT !.age = b]
      BY <3>1, <3>2 DEF Hc!Later
    <3>4. CASE b = Hc!Old
      BY <3>3, <3>4, HealthBasics DEF HealthSaysTrue
    <3>5. CASE b # Hc!Old
      <4>1. PICK f : f = [e EXCEPT !.age = b]
        OBVIOUS
      <4>2. f \in Hc!Entry /\ f.age = b /\ f.online = e.online
        BY <4>1 DEF Hc!Entry
      <4>3. e # Hc!Absent
        <5>1. SUFFICES ASSUME e.age = Hc!Old PROVE FALSE
          BY DEF Hc!Absent
        <5>2. b = Hc!Old
          BY <3>2, <5>1, HealthBasics DEF Hc!Aged
        <5>. QED  BY <3>5, <5>2
      <4>4. HealthSaysTrue(e, s, hcWasUp, hcWasDown)
        BY <1>5, <3>1 DEF HealthStoreTrue
      <4>5. e.age \in Hc!Ages /\ hcWasUp[s] \in Hc!Ages /\ hcWasDown[s] \in Hc!Ages
        BY <1>1 DEF Hc!Entry
      <4>6. e.online => hcWasUp'[s] <= b
        <5>. SUFFICES ASSUME e.online PROVE hcWasUp'[s] <= b
          OBVIOUS
        <5>1. hcWasUp[s] <= e.age
          BY <4>3, <4>4 DEF HealthSaysTrue
        <5>2. Hc!Aged(hcWasUp[s]) <= b
          BY <3>2, <4>5, <5>1, HealthAged
        <5>3. PICK a \in Hc!Ages : a = Hc!Aged(hcWasUp[s])
          BY <4>5, HealthAged
        <5>4. PICK w \in Hc!Ages : w = hcWasUp'[s]
          BY <1>3
        <5>5. w <= a /\ a <= b
          BY <1>4, <5>2, <5>3, <5>4
        <5>. QED  BY <5>4, <5>5, HealthBasics
      <4>7. ~e.online /\ s \in Serves => hcWasDown'[s] <= b
        <5>. SUFFICES ASSUME ~e.online, s \in Serves PROVE hcWasDown'[s] <= b
          OBVIOUS
        <5>1. hcWasDown[s] <= e.age
          BY <4>3, <4>4 DEF HealthSaysTrue
        <5>2. Hc!Aged(hcWasDown[s]) <= b
          BY <3>2, <4>5, <5>1, HealthAged
        <5>3. PICK a \in Hc!Ages : a = Hc!Aged(hcWasDown[s])
          BY <4>5, HealthAged
        <5>4. PICK w \in Hc!Ages : w = hcWasDown'[s]
          BY <1>3
        <5>5. w <= a /\ a <= b
          BY <1>4, <5>2, <5>3, <5>4
        <5>. QED  BY <5>4, <5>5, HealthBasics
      <4>8. Hc!Later(store)[s] = f
        BY <3>3, <3>5, <4>1
      <4>9. HealthSaysTrue(f, s, hcWasUp', hcWasDown')
        BY <4>2, <4>6, <4>7 DEF HealthSaysTrue
      <4>. QED  BY <4>2, <4>8, <4>9 DEF HealthSaysTrue
    <3>. QED  BY <3>4, <3>5
  <2>2. Hc!Later(store) \in Hc!Store
    <3>1. Hc!Later(store) = [s \in Servers |-> Hc!Later(store)[s]]
      BY DEF Hc!Later
    <3>. QED  BY <2>1, <3>1 DEF Hc!Store
  <2>. QED  BY <2>1, <2>2 DEF HealthStoreTrue
<1>6. /\ \A p \in Procs : hcMemory'[p] = Hc!Later(hcMemory[p])
      /\ hcFile' = Hc!Later(hcFile)
      /\ \A p \in Procs : hcReplacing'[p] = IF Hc!Free(p) THEN Hc!NoWrite ELSE Hc!Later(hcReplacing[p])
  BY DEF Hc!Tick
<1>7. hcMemory' \in [Procs -> Hc!Store]
  <2>1. \A p \in Procs : Hc!Later(hcMemory[p]) \in Hc!Store
    BY <1>1, <1>5 DEF HealthInv
  <2>. QED  BY <2>1 DEF Hc!Tick
<1>8. hcFile' \in Hc!Store
  BY <1>1, <1>5, <1>6 DEF HealthInv
<1>9. \A p \in Procs : ~Hc!Free(p) => hcReplacing[p] \in Hc!Store /\ HealthStoreTrue(hcReplacing[p], hcWasUp, hcWasDown)
  BY <1>1 DEF HealthInv, Hc!Free
<1>10. hcReplacing' \in [Procs -> Hc!Store \cup {Hc!NoWrite}]
  <2>1. \A p \in Procs : ~Hc!Free(p) => Hc!Later(hcReplacing[p]) \in Hc!Store
    BY <1>5, <1>9
  <2>. QED  BY <2>1 DEF Hc!Tick
<1>11. Hc!TypeOK'
  BY <1>1, <1>2, <1>3, <1>7, <1>8, <1>10 DEF Hc!TypeOK
<1>12. HealthSeen'
  BY <1>2 DEF HealthSeen
<1>13. HealthStoreTrue(hcFile', hcWasUp', hcWasDown')
  <2>1. HealthStoreTrue(hcFile, hcWasUp, hcWasDown)
    BY DEF HealthInv
  <2>. QED  BY <1>1, <1>5, <1>6, <2>1
<1>14. \A p \in Procs : HealthStoreTrue(hcMemory'[p], hcWasUp', hcWasDown')
  BY <1>1, <1>5, <1>6 DEF HealthInv
<1>15. ASSUME NEW p \in Procs, hcReplacing'[p] \in Hc!Store PROVE HealthStoreTrue(hcReplacing'[p], hcWasUp', hcWasDown')
  <2>1. CASE Hc!Free(p)
    <3>1. SUFFICES ASSUME NEW s \in Servers PROVE FALSE
      BY DEF HealthStoreTrue
    <3>2. DOMAIN hcReplacing'[p] = Servers
      BY <1>15 DEF Hc!Store
    <3>3. hcReplacing'[p] = <<>>
      BY <1>6, <2>1 DEF Hc!NoWrite
    <3>. QED  BY <3>2, <3>3
  <2>2. CASE ~Hc!Free(p)
    BY <1>5, <1>6, <1>9, <2>2
  <2>. QED  BY <2>1, <2>2
<1>. QED  BY <1>11, <1>12, <1>13, <1>14, <1>15 DEF HealthInv

LEMMA HealthNextKeeps == ASSUME Hc!HealthParams, HealthInv, [Hc!Next]_Hc!vars PROVE HealthInv'
<1>1. CASE UNCHANGED Hc!vars
  <2>1. UNCHANGED <<hcUp, hcWasUp, hcWasDown, hcMemory, hcFile, hcReplacing>>
    BY <1>1 DEF Hc!vars
  <2>. QED  BY <2>1, HealthStill DEF HealthInv, Hc!TypeOK
<1>. QED  BY <1>1, HealthAskFile, HealthProbe, HealthReplace, HealthFlip, HealthTick DEF Hc!Next

LEMMA HealthRecent == ASSUME Hc!HealthParams, HealthInv PROVE Hc!AnswersAreRecent
<1>. SUFFICES ASSUME NEW s \in Servers, NEW e \in Hc!Entries(s), Hc!Fresh(e)
              PROVE  /\ e.online => hcWasUp[s] < TTL
                     /\ ~e.online /\ s \in Serves => hcWasDown[s] < TTL
  BY DEF Hc!AnswersAreRecent
<1>1. HealthSaysTrue(e, s, hcWasUp, hcWasDown) /\ e \in Hc!Entry
  BY DEF Hc!Entries, HealthInv, HealthStoreTrue, Hc!TypeOK, Hc!Store
<1>2. e.age \in Hc!Ages /\ hcWasUp[s] \in Hc!Ages /\ hcWasDown[s] \in Hc!Ages
  BY <1>1 DEF Hc!Entry, HealthInv, Hc!TypeOK
<1>3. e.age < TTL /\ e # Hc!Absent
  BY DEF Hc!Fresh
<1>. QED  BY <1>1, <1>2, <1>3, HealthBasics DEF HealthSaysTrue

-----------------------------------------------------------------------------
(* The behaviours of the parts, seen from HealthCache, are its own.         *)
LEMMA HealthAlone == Spec => Hc!Init /\ [][Hc!Next]_(Hc!vars)
<1>1. Init => Hc!Init
  BY DEF Init
<1>2. Next => Hc!Next \/ hcVars' = hcVars
  BY DEF Next
<1>3. vars' = vars => hcVars' = hcVars
  BY DEF vars
<1>4. hcVars' = hcVars => UNCHANGED Hc!vars
  BY DEF hcVars, Hc!vars
<1>5. [Next]_vars => [Hc!Next]_(Hc!vars)
  BY <1>2, <1>3, <1>4
<1>. QED  BY <1>1, <1>5, PTL DEF Spec

LEMMA HealthAlways == Hc!Init /\ [][Hc!Next]_(Hc!vars) => []HealthInv
<1>1. Hc!HealthParams
  BY PartParams DEF PartParams
<1>2. Hc!Init => HealthInv
  BY <1>1, HealthInitInv
<1>3. HealthInv /\ [Hc!Next]_(Hc!vars) => HealthInv'
  BY <1>1, HealthNextKeeps
<1>. QED  BY <1>2, <1>3, PTL

(* The types hold in every state.                                          *)
THEOREM HealthTypes == (Hc!Spec => []Hc!TypeOK) /\ (Spec => []Hc!TypeOK)
<1>1. HealthInv => Hc!TypeOK
  BY DEF HealthInv
<1>. QED  BY <1>1, HealthAlways, HealthAlone, PTL DEF Hc!Spec

(* However many processes ask, probe and replace the file over each other,  *)
(* an answer that is given from a cache was true within the life of an      *)
(* entry (is_online, _lookup_cache, _write_health_cache).                  *)
THEOREM AnswersWereTrue == (Hc!Spec => []Hc!AnswersAreRecent) /\ (Spec => []AnswersAreRecent)
<1>1. Hc!HealthParams
  BY PartParams DEF PartParams
<1>2. HealthInv => Hc!AnswersAreRecent /\ AnswersAreRecent
  BY <1>1, HealthRecent DEF AnswersAreRecent
<1>. QED  BY <1>2, HealthAlways, HealthAlone, PTL DEF Hc!Spec
=============================================================================
