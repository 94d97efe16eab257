--------------------------- MODULE Serving_proofs ---------------------------
(***************************************************************************)
(* What a server and the fronts of the commands answer.  For any clients,   *)
(* processes and commands.                                                 *)
(***************************************************************************)
EXTENDS Parts, Owning_proofs, Syncing_proofs, Reviewing_proofs, ArticleLocks_proofs,
        AncestorSearch_proofs, FiniteSetTheorems, TLAPS

RequestStatuses == {0, 200, 201, 400, 404, 409, 422}

RequestConn == [at : {"idle", "body", "read", "written"}, call : Rq!Writes \cup {"none"},
         by : Users \cup {Null}, about : Users \cup Writings \cup {Null},
         status : RequestStatuses]

(* Who asks for people or articles is a user; a follow and an upload that     *)
(* are well have rows to store, and these are sound.                        *)
RequestSound(r) ==
  /\ r.at # "idle" /\ r.call \notin {"sync", "upload"} => r.by \in Users
  /\ r.at = "read" /\ r.call \in {"follow", "sync"} => r.status # 200
  /\ r.at = "written" =>
       /\ r.call = "follow" => r.about \in Users
       /\ r.call = "share" => r.about \in Writings
       /\ r.call = "sync" /\ r.status = 200 => rqRepo = "new"

RequestInv == Rq!TypeOK /\ Rq!OkIsDurable /\ \A c \in Conns : RequestSound(rqConn[c])

LEMMA RequestTypeOfConn == Rq!TypeOK => rqConn \in [Conns -> RequestConn]
  BY DEF Rq!TypeOK, RequestConn, RequestStatuses

LEMMA RequestKinds ==
  /\ Rq!Writes = {"follow", "unfollow", "share", "unshare", "rotate-key", "sync", "upload"}
  /\ Rq!Writes \cap Rq!ArticleCalls = {"sync", "upload"}
  BY DEF Rq!Writes, Rq!ArticleCalls

LEMMA RequestIdleIsSound == Rq!Idle \in RequestConn /\ RequestSound(Rq!Idle)
  BY DEF Rq!Idle, RequestConn, RequestSound, RequestStatuses

(* One connection goes on to a sound record, and no rows change.           *)
LEMMA RequestMoves ==
  ASSUME RequestInv, NEW c \in Conns, NEW r, rqConn' = [rqConn EXCEPT ![c] = r], r \in RequestConn,
         rqRepo' = rqRepo \/ (rqRepo' \in {"none", "old", "new"} /\ rqRepo # "new"), RequestSound(rqConn[c])',
         rqKnown' \subseteq Users, UNCHANGED <<rqFollows, rqNotes, rqShares, rqMirror, rqTold, rqSent>>
  PROVE  RequestInv'
<1>1. rqConn \in [Conns -> RequestConn]
  BY RequestTypeOfConn DEF RequestInv
<1>2. rqConn'[c] = r /\ \A d \in Conns \ {c} : rqConn'[d] = rqConn[d]
  BY <1>1
<1>3. rqConn' \in [Conns -> RequestConn]
  BY <1>1
<1>4. Rq!TypeOK'
  BY <1>3 DEF RequestInv, Rq!TypeOK, RequestConn, RequestStatuses
<1>5. ASSUME NEW d \in Conns PROVE RequestSound(rqConn[d])'
  BY <1>2 DEF RequestInv, RequestSound
<1>. QED  BY <1>4, <1>5 DEF RequestInv, Rq!OkIsDurable

LEMMA RequestMappedErrors ==
  /\ Rq!Status("BadRequestError") = 400 /\ Rq!Status("ConflictError") = 409
  /\ Rq!Status("SignatureVerificationError") = 422 /\ Rq!Status("NotFoundError") = 404
  BY DEF Rq!Status

-----------------------------------------------------------------------------
LEMMA RequestInitInv == ASSUME Rq!RequestParams, Rq!Init PROVE RequestInv
<1>1. rqConn \in [Conns -> RequestConn] /\ \A c \in Conns : rqConn[c] = Rq!Idle
  BY RequestIdleIsSound DEF Rq!Init
<1>2. Rq!TypeOK
  BY <1>1 DEF Rq!Init, Rq!TypeOK, RequestConn, RequestStatuses
<1>. QED  BY <1>1, <1>2, RequestIdleIsSound DEF Rq!Init, RequestInv, Rq!OkIsDurable, RequestSound, Rq!Idle

LEMMA RequestArriveStep ==
  ASSUME RequestInv, NEW c \in Conns, NEW call \in Rq!Writes, NEW u \in Users \cup {Null},
         NEW about \in Users \cup Writings \cup {Null},
         call \notin {"sync", "upload"} => u \in Users, Rq!Arrive(c, call, u, about)
  PROVE  RequestInv'
<1> DEFINE r == [at |-> "body", call |-> call, by |-> u, about |-> about, status |-> 0]
<1>1. rqConn' = [rqConn EXCEPT ![c] = r]
      /\ UNCHANGED <<rqFollows, rqNotes, rqShares, rqMirror, rqRepo, rqTold, rqSent>>
  BY DEF Rq!Arrive
<1>2. rqKnown' \subseteq Users
  BY DEF Rq!Arrive, RequestInv, Rq!TypeOK, Rq!Public, Rq!Writes
<1>3. r \in RequestConn /\ RequestSound(rqConn[c])'
  BY <1>1, RequestTypeOfConn DEF RequestInv, RequestConn, RequestStatuses, RequestSound
<1>. HIDE DEF r
<1>. QED  BY <1>1, <1>2, <1>3, RequestMoves

(* A handler leaves its connection with a status that a sound record has.   *)
LEMMA RequestHandled ==
  ASSUME RequestInv, NEW c \in Conns, NEW at \in {"read", "written"}, NEW status \in RequestStatuses,
         rqConn[c].at = "body", Rq!Goes(c, at, status), UNCHANGED <<Rq!rows, rqTold, rqSent>>,
         rqRepo' = rqRepo \/ (rqRepo' \in {"none", "old", "new"} /\ rqRepo # "new"),
         at = "read" => rqConn[c].call \notin {"follow", "sync"} \/ status # 200,
         at = "written" =>
           /\ rqConn[c].call = "follow" => rqConn[c].about \in Users
           /\ rqConn[c].call = "share" => rqConn[c].about \in Writings
           /\ rqConn[c].call = "sync" /\ status = 200 => rqRepo' = "new"
  PROVE  RequestInv'
<1> DEFINE old == rqConn[c]
           r == [at |-> at, call |-> old.call, by |-> old.by, about |-> old.about,
                 status |-> status]
<1>1. old \in RequestConn /\ RequestSound(old)
  BY RequestTypeOfConn DEF RequestInv
<1>2. rqConn' = [rqConn EXCEPT ![c] = r]
  BY DEF Rq!Goes
<1>3. r \in RequestConn /\ rqConn'[c] = r
  BY <1>1, <1>2, RequestTypeOfConn DEF RequestInv, RequestConn
<1>4. RequestSound(rqConn[c])'
  BY <1>1, <1>3 DEF RequestSound
<1>5. rqKnown' \subseteq Users /\ UNCHANGED <<rqFollows, rqNotes, rqShares, rqMirror, rqTold, rqSent>>
  BY DEF Rq!rows, RequestInv, Rq!TypeOK
<1>. HIDE DEF r
<1>. QED  BY <1>2, <1>3, <1>4, <1>5, RequestMoves

LEMMA RequestClosed ==
  ASSUME RequestInv, NEW c \in Conns, Rq!Fails(c), UNCHANGED <<Rq!rows, rqRepo, rqTold, rqSent>>
  PROVE  RequestInv'
<1>1. RequestSound(rqConn[c])'
  BY RequestTypeOfConn DEF Rq!Fails, RequestInv, RequestSound, Rq!Idle
<1>. QED  BY <1>1, RequestIdleIsSound, RequestMoves DEF Rq!Fails, Rq!rows, RequestInv, Rq!TypeOK

LEMMA RequestHandleStep == ASSUME RequestInv, NEW c \in Conns, Rq!Handle(c) PROVE RequestInv'
<1> DEFINE r == rqConn[c]
<1>1. r.at = "body" /\ r.call \notin {"sync", "upload"} /\ UNCHANGED <<Rq!rows, rqRepo, rqTold, rqSent>>
  BY DEF Rq!Handle, Rq!ArticleCalls
<1>2. rqKnown \subseteq Users
  BY DEF RequestInv, Rq!TypeOK
<1>3. CASE r.call = "follow" /\ r.by = r.about
  BY <1>1, <1>3, RequestHandled, RequestMappedErrors DEF Rq!Handle, RequestStatuses
<1>4. CASE ~(r.call = "follow" /\ r.by = r.about) /\ ~Rq!HasRows(r)
  BY <1>1, <1>4, RequestHandled DEF Rq!Handle, RequestStatuses, Rq!HasRows
<1>5. CASE ~(r.call = "follow" /\ r.by = r.about) /\ Rq!HasRows(r) /\ (Rq!Dangling(r) \/ Rq!Locked)
  BY <1>1, <1>5, RequestClosed DEF Rq!Handle
<1>6. CASE ~(r.call = "follow" /\ r.by = r.about) /\ Rq!HasRows(r) /\ ~(Rq!Dangling(r) \/ Rq!Locked)
  BY <1>1, <1>2, <1>6, RequestHandled DEF Rq!Handle, RequestStatuses, Rq!Dangling
<1>. QED  BY <1>3, <1>4, <1>5, <1>6

LEMMA RequestUploadStep == ASSUME RequestInv, NEW c \in Conns, Rq!HandleUpload(c) PROVE RequestInv'
<1>1. rqConn[c].at = "body" /\ rqConn[c].call = "upload" /\ UNCHANGED <<Rq!rows, rqTold, rqSent>>
  BY DEF Rq!HandleUpload
<1>2. CASE rqRepo = "none"
  BY <1>1, <1>2, RequestHandled DEF Rq!HandleUpload, RequestStatuses
<1>3. CASE rqRepo # "none"
  BY <1>1, <1>3, RequestHandled, RequestMappedErrors DEF Rq!HandleUpload, RequestStatuses
<1>. QED  BY <1>2, <1>3

LEMMA RequestSyncStep == ASSUME RequestInv, NEW c \in Conns, Rq!HandleSync(c) PROVE RequestInv'
<1>1. rqConn[c].at = "body" /\ rqConn[c].call = "sync" /\ UNCHANGED <<Rq!rows, rqTold, rqSent>>
  BY DEF Rq!HandleSync
<1>2. CASE Rq!Goes(c, "read", 422) /\ UNCHANGED rqRepo
  BY <1>1, <1>2, RequestHandled DEF RequestStatuses
<1>3. CASE Rq!Goes(c, "written", 404) /\ UNCHANGED rqRepo
  BY <1>1, <1>3, RequestHandled DEF RequestStatuses
<1>4. CASE Rq!Goes(c, "written", 200) /\ rqRepo' = "new"
  <2>1. rqRepo \in {"none", "old", "new"}
    BY DEF RequestInv, Rq!TypeOK
  <2>. QED  BY <1>1, <1>4, <2>1, RequestHandled DEF RequestStatuses
<1>5. CASE Rq!Fails(c) /\ UNCHANGED rqRepo
  BY <1>1, <1>5, RequestClosed
<1>. QED  BY <1>2, <1>3, <1>4, <1>5, RequestMappedErrors DEF Rq!HandleSync

(* What the client makes of the answer to a write.                         *)
LEMMA RequestYes ==
  ASSUME NEW call \in {"follow", "sync"}, NEW status, Rq!Understood(call, status) = "yes"
  PROVE  status = 200
  BY RequestKinds DEF Rq!Understood, Rq!OfArticles, Rq!OfPeople, Rq!OkOr404, Rq!Writes, Rq!ArticleCalls

LEMMA RequestAnswerStep == ASSUME RequestInv, NEW c \in Conns, Rq!Answer(c) PROVE RequestInv'
<1> DEFINE r == rqConn[c]
           pair == <<r.by, r.about>>
<1>1. r \in RequestConn /\ RequestSound(r) /\ r.at \in {"read", "written"}
  BY RequestTypeOfConn DEF RequestInv, Rq!Answer
<1>2. rqConn' = [rqConn EXCEPT ![c] = Rq!Idle] /\ UNCHANGED rqRepo
  BY DEF Rq!Answer, Rq!Fails
<1>3. /\ r.call = "unfollow" => rqTold' = rqTold \ {pair}
      /\ r.call # "unfollow" =>
           rqTold' = rqTold \/ (r.call = "follow" /\ r.status = 200 /\ rqTold' = rqTold \cup {pair})
  BY RequestYes DEF Rq!Answer
<1>4. rqSent' \in BOOLEAN /\ (rqSent' => rqSent \/ (r.call = "sync" /\ r.status = 200))
  <2>1. PICK status \in {r.status, 0} :
          rqSent' = (rqSent \/ (r.call = "sync" /\ Rq!Understood(r.call, status) = "yes"))
    BY DEF Rq!Answer
  <2>2. r.call = "sync" /\ Rq!Understood(r.call, status) = "yes" => r.status = 200
    BY RequestYes
  <2>. QED  BY <2>1, <2>2
<1>5. RequestSound(Rq!Idle)'
  BY DEF RequestSound, Rq!Idle
<1>6. \A d \in Conns : RequestSound(rqConn[d])'
  BY <1>2, <1>5, RequestTypeOfConn DEF RequestInv, RequestSound
<1>7. ASSUME rqKnown' \subseteq Users, rqFollows' \subseteq Users \X Users,
             rqNotes' \subseteq Users \X Users, rqShares' \subseteq Users \X Writings,
             rqMirror' \in {"old", "authors", "new"},
             rqTold' \subseteq rqFollows' \cap rqNotes',
             rqSent' => rqRepo' = "new" /\ rqMirror' = "new"
      PROVE  RequestInv'
  <2>1. rqConn' \in [Conns -> RequestConn]
    BY <1>2, RequestIdleIsSound, RequestTypeOfConn DEF RequestInv
  <2>2. Rq!TypeOK'
    BY <1>2, <1>4, <1>7, <2>1 DEF RequestInv, Rq!TypeOK, RequestConn, RequestStatuses
  <2>. QED  BY <1>6, <1>7, <2>2 DEF RequestInv, Rq!OkIsDurable
<1>8. CASE r.at = "read"
  <2>1. UNCHANGED Rq!rows
    BY <1>8 DEF Rq!Answer, Rq!Stored
  <2>2. rqTold' \subseteq rqTold /\ (rqSent' => rqSent)
    BY <1>1, <1>3, <1>4, <1>8 DEF RequestSound
  <2>. QED  BY <1>2, <1>7, <2>1, <2>2 DEF RequestInv, Rq!TypeOK, Rq!OkIsDurable, Rq!rows
<1>9. CASE r.at = "written"
  <2>1. UNCHANGED rqKnown /\ r.call \in Rq!Writes \cup {"none"}
    BY <1>1, <1>9 DEF Rq!Answer, Rq!Stored, RequestConn
  <2>2. rqMirror' = IF r.call # "sync" THEN rqMirror
                  ELSE IF r.status = 200 THEN "new"
                  ELSE IF rqMirror = "old" THEN "authors" ELSE rqMirror
    BY <1>9 DEF Rq!Answer, Rq!Stored
  <2>3. rqMirror' \in {"old", "authors", "new"} /\ (rqSent' => rqRepo' = "new" /\ rqMirror' = "new")
    BY <1>1, <1>2, <1>4, <1>9, <2>2 DEF RequestInv, Rq!TypeOK, Rq!OkIsDurable, RequestSound
  <2>4. CASE r.call = "follow"
    <3>1. rqFollows' = rqFollows \cup {pair} /\ rqNotes' = rqNotes \cup {pair} /\ rqShares' = rqShares
      BY <1>9, <2>4 DEF Rq!Answer, Rq!Stored
    <3>2. pair \in Users \X Users
      BY <1>1, <1>9, <2>4 DEF RequestSound
    <3>. QED  BY <1>3, <1>7, <2>1, <2>3, <2>4, <3>1, <3>2 DEF RequestInv, Rq!TypeOK, Rq!OkIsDurable
  <2>5. CASE r.call = "unfollow"
    <3>1. rqFollows' = rqFollows \ {pair} /\ rqNotes' = rqNotes /\ rqShares' = rqShares
      BY <1>9, <2>5 DEF Rq!Answer, Rq!Stored
    <3>. QED  BY <1>3, <1>7, <2>1, <2>3, <2>5, <3>1 DEF RequestInv, Rq!TypeOK, Rq!OkIsDurable
  <2>6. CASE r.call \notin {"follow", "unfollow"}
    <3>1. rqFollows' = rqFollows /\ rqNotes' = rqNotes /\ rqShares' \subseteq Users \X Writings
      BY <1>1, <1>9, <2>6 DEF Rq!Answer, Rq!Stored, RequestSound, RequestInv, Rq!TypeOK
    <3>. QED  BY <1>3, <1>7, <2>1, <2>3, <2>6, <3>1 DEF RequestInv, Rq!TypeOK, Rq!OkIsDurable
  <2>. QED  BY <2>4, <2>5, <2>6
<1>. QED  BY <1>1, <1>8, <1>9

LEMMA RequestRestartStep == ASSUME RequestInv, Rq!Restart PROVE RequestInv'
<1>1. RequestSound(Rq!Idle)' /\ \A c \in Conns : rqConn'[c] = Rq!Idle
  BY DEF RequestSound, Rq!Idle, Rq!Restart
<1>2. rqConn' \in [Conns -> RequestConn]
  BY RequestIdleIsSound DEF Rq!Restart
<1>3. Rq!TypeOK'
  BY <1>2 DEF Rq!Restart, Rq!rows, RequestInv, Rq!TypeOK, RequestConn, RequestStatuses
<1>. QED  BY <1>1, <1>3 DEF Rq!Restart, Rq!rows, RequestInv, Rq!OkIsDurable

LEMMA RequestNextInv == ASSUME Rq!RequestParams, RequestInv, [Rq!Next]_Rq!vars PROVE RequestInv'
<1>1. CASE UNCHANGED Rq!vars
  BY <1>1 DEF Rq!vars, Rq!rows, RequestInv, Rq!TypeOK, Rq!OkIsDurable, RequestSound
<1>2. ASSUME NEW c \in Conns, NEW call \in {"follow", "unfollow"}, NEW u \in Locals,
             NEW v \in Users \cup {Null}, Rq!Arrive(c, call, u, v)
      PROVE  RequestInv'
  BY <1>2, RequestArriveStep, RequestKinds DEF Rq!RequestParams
<1>3. ASSUME NEW c \in Conns, NEW call \in {"share", "unshare"}, NEW u \in Locals,
             NEW a \in Writings \cup {Null}, Rq!Arrive(c, call, u, a)
      PROVE  RequestInv'
  BY <1>3, RequestArriveStep, RequestKinds DEF Rq!RequestParams
<1>4. ASSUME NEW c \in Conns, NEW u \in Locals, Rq!Arrive(c, "rotate-key", u, u)
      PROVE  RequestInv'
  BY <1>4, RequestArriveStep, RequestKinds DEF Rq!RequestParams
<1>5. ASSUME NEW c \in Conns, NEW call \in {"sync", "upload"},
             Rq!Arrive(c, call, Null, Null)
      PROVE  RequestInv'
  BY <1>5, RequestArriveStep, RequestKinds
<1>6. ASSUME NEW c \in Conns, Rq!Abort(c) PROVE RequestInv'
  BY <1>6, RequestClosed DEF Rq!Abort
<1>. QED  BY <1>1, <1>2, <1>3, <1>4, <1>5, <1>6, RequestHandleStep, RequestUploadStep, RequestSyncStep,
             RequestAnswerStep, RequestRestartStep DEF Rq!Next

-----------------------------------------------------------------------------
(* Behaviours of Requests, and what they are within those of the parts.    *)
LEMMA RequestAlone == Spec => Rq!Init /\ [][Rq!Next]_(Rq!vars)
<1>1. Init => Rq!Init
  BY DEF Init
<1>2. Next => Rq!Next \/ rqVars' = rqVars
  BY DEF Next
<1>3. vars' = vars => rqVars' = rqVars
  BY DEF vars
<1>4. rqVars' = rqVars => UNCHANGED Rq!vars
  BY DEF rqVars, Rq!vars, Rq!rows
<1>5. [Next]_vars => [Rq!Next]_(Rq!vars)
  BY <1>2, <1>3, <1>4
<1>. QED  BY <1>1, <1>5, PTL DEF Spec

LEMMA RequestAlways == Rq!Init /\ [][Rq!Next]_(Rq!vars) => []RequestInv
<1>1. Rq!RequestParams
  BY PartParams DEF PartParams
<1>2. Rq!Init => RequestInv
  BY <1>1, RequestInitInv
<1>3. RequestInv /\ [Rq!Next]_(Rq!vars) => RequestInv'
  BY <1>1, RequestNextInv
<1>. QED  BY <1>2, <1>3, PTL

(* The types hold in every state, for any connections, users and articles.  *)
THEOREM RequestTypes == (Rq!Spec => []Rq!TypeOK) /\ (Spec => []Rq!TypeOK)
<1>1. RequestInv => Rq!TypeOK
  BY DEF RequestInv
<1>. QED  BY <1>1, RequestAlways, RequestAlone, PTL DEF Rq!Spec

(* Whatever answers are lost, sessions aborted or crashes happen: a follow a  *)
(* client was told of is stored with its notice until somebody takes it      *)
(* back, and an upload it was told of is in the repository and in the rows   *)
(* (DBSessionMiddleware commits before the answer).                         *)
THEOREM AnswersAreDurable == (Rq!Spec => []Rq!OkIsDurable) /\ (Spec => []OkIsDurable)
<1>1. RequestInv => Rq!OkIsDurable /\ OkIsDurable
  BY DEF RequestInv, OkIsDurable
<1>. QED  BY <1>1, RequestAlways, RequestAlone, PTL DEF Rq!Spec

(* A client takes a status for absence only when it is a 404.               *)
LEMMA RequestNoIs404 ==
  ASSUME NEW call \in Rq!Reads \ {"bundle", "ancestor"}, NEW status,
         Rq!Understood(call, status) = "no"
  PROVE  status = 404
<1>1. call \notin Rq!Writes /\ call # "ancestor" /\ call # "sync" /\ call # "upload"
  BY DEF Rq!Reads, Rq!Writes
<1>2. CASE call \in Rq!ArticleCalls
  <2>1. Rq!Understood(call, status) = Rq!JsonOr404(status)
    BY <1>1, <1>2 DEF Rq!Understood, Rq!OfArticles
  <2>. QED  BY <2>1 DEF Rq!JsonOr404
<1>3. CASE call \notin Rq!ArticleCalls /\ call \in {"peers", "school"}
  BY <1>1, <1>3 DEF Rq!Understood, Rq!OfPeople
<1>4. CASE call \notin Rq!ArticleCalls /\ call \notin {"peers", "school"}
  <2>1. Rq!Understood(call, status) = Rq!JsonOr404(status)
    BY <1>1, <1>4 DEF Rq!Understood, Rq!OfPeople
  <2>. QED  BY <2>1 DEF Rq!JsonOr404
<1>. QED  BY <1>2, <1>3, <1>4

(* A handler answers 404 only for what is not there: a view that cannot be   *)
(* encoded is another error.                                                *)
LEMMA RequestAbsentAnswers ==
  ASSUME NEW call \in Rq!Reads \ {"bundle", "ancestor"}, NEW about, Rq!There(call, about)
  PROVE  404 \notin Rq!Answers(call, about)
<1>1. call # "bundle" /\ Rq!Status("TypeError") = 400
  BY DEF Rq!Status
<1>. QED  BY <1>1 DEF Rq!Answers, Rq!ArticleAnswers, Rq!PeopleAnswers

(* Whatever the rows, the header and the network: a client takes nothing for  *)
(* absent that is there, not for a limit, a lost answer or an error of the    *)
(* server (_require_json_or_none).                                          *)
THEOREM AbsenceIsTrue == (Rq!Spec => []Rq!AbsentIsAbsent) /\ (Spec => []AbsentIsAbsent)
<1>1. Rq!AbsentIsAbsent
  <2>1. SUFFICES ASSUME NEW call \in Rq!Reads \ {"bundle", "ancestor"},
                        NEW about \in Users \cup Writings \cup {Null}, "no" \in Rq!Seen(call, about)
                 PROVE  ~ Rq!There(call, about)
    BY DEF Rq!AbsentIsAbsent
  <2>2. PICK status \in {0, 429} \cup UNION {IF Rq!Verified(call, h) THEN Rq!Answers(call, about) ELSE {401} :
                                             h \in Rq!Headers(call)} :
          Rq!Understood(call, status) = "no"
    BY <2>1 DEF Rq!Seen
  <2>3. status = 404
    BY <2>2, RequestNoIs404
  <2>4. 404 \in Rq!Answers(call, about)
    BY <2>2, <2>3
  <2>. QED  BY <2>4, RequestAbsentAnswers
<1>2. AbsentIsAbsent
  BY <1>1 DEF AbsentIsAbsent
<1>. QED  BY <1>1, <1>2, PTL

-----------------------------------------------------------------------------
(* The limiter.  All requests that may still count are in the bucket.       *)
LimitKept ==
  \A a \in Addresses : \A i \in DOMAIN rlAsked[a] :
    /\ rlAsked[a][i] <= rlNow
    /\ rlNow - rlAsked[a][i] < Window => i \in rlBucket[a]

LimitInv == Rl!TypeOK /\ LimitKept /\ Rl!LimitIsExact

LEMMA LimitCardinality == ASSUME NEW S PROVE Rl!Cardinality(S) = Cardinality(S)
  BY DEF Rl!Cardinality, Cardinality

LEMMA LimitBasics ==
  ASSUME Rl!LimitParams
  PROVE  /\ MaxRequests \in Nat /\ Window \in Nat \ {0} /\ MaxTime \in Nat
         /\ Rl!Times \subseteq Int /\ 0 \in Rl!Times
  BY DEF Rl!LimitParams, Rl!Times

LEMMA LimitFinite ==
  ASSUME NEW s \in Seq(Rl!Times)
  PROVE  IsFiniteSet(DOMAIN s) /\ Len(s) \in Nat /\ DOMAIN s = 1 .. Len(s)
  BY FS_Interval

(* Without requests.                                                        *)
LimitEmpty ==
  /\ rlNow \in Rl!Times /\ rlBucket = Rl!Nothing /\ rlServed = Rl!Nothing
  /\ rlAsked = [a \in Addresses |-> <<>>]

LEMMA LimitCleared ==
  ASSUME Rl!LimitParams, LimitEmpty
  PROVE  LimitInv
<1>1. \A a \in Addresses : rlAsked[a] = <<>> /\ rlBucket[a] = {} /\ rlServed[a] = {} /\ DOMAIN rlAsked[a] = {}
  BY DEF LimitEmpty, Rl!Nothing
<1>2. Rl!TypeOK
  <2>1. <<>> \in Seq(Rl!Times)
    OBVIOUS
  <2>2. rlAsked \in [Addresses -> Seq(Rl!Times)]
    BY <2>1 DEF LimitEmpty
  <2>. QED  BY <1>1, <2>2 DEF LimitEmpty, Rl!TypeOK, Rl!Nothing
<1>3. LimitKept
  BY <1>1 DEF LimitKept
<1>4. ASSUME NEW a \in Addresses, NEW t PROVE Rl!Cardinality(Rl!InWindow(a, rlServed[a], t)) <= MaxRequests
  <2>1. Rl!InWindow(a, rlServed[a], t) = {}
    BY <1>1 DEF Rl!InWindow
  <2>. QED  BY <2>1, FS_EmptySet, LimitCardinality, LimitBasics
<1>5. Rl!LimitIsExact
  BY <1>1, <1>4 DEF Rl!LimitIsExact
<1>. QED  BY <1>2, <1>3, <1>5 DEF LimitInv

LEMMA LimitTick == ASSUME Rl!LimitParams, LimitInv, Rl!Tick PROVE LimitInv'
<1>1. rlNow \in Rl!Times /\ rlAsked \in [Addresses -> Seq(Rl!Times)] /\ Rl!TypeOK'
  BY LimitBasics DEF LimitInv, Rl!TypeOK, Rl!Tick, Rl!Times
<1>2. LimitKept'
  <2>1. rlNow' = rlNow + 1 /\ rlAsked' = rlAsked /\ rlBucket' = rlBucket
    BY DEF Rl!Tick
  <2>2. ASSUME NEW a \in Addresses, NEW i \in DOMAIN rlAsked[a]
        PROVE  rlAsked[a][i] <= rlNow' /\ (rlNow' - rlAsked[a][i] < Window => i \in rlBucket[a])
    <3>1. PICK t \in Int : t = rlAsked[a][i]
      BY <1>1, LimitBasics
    <3>2. t <= rlNow /\ (rlNow - t < Window => i \in rlBucket[a])
      BY <3>1 DEF LimitInv, LimitKept
    <3>. QED  BY <1>1, <2>1, <3>1, <3>2, LimitBasics
  <2>. QED  BY <2>1, <2>2 DEF LimitKept
<1>3. Rl!LimitIsExact'
  BY DEF LimitInv, Rl!LimitIsExact, Rl!InWindow, Rl!Tick
<1>. QED  BY <1>1, <1>2, <1>3 DEF LimitInv

(* A request of one address.                                                *)
LimitAsked(a, n) ==
  /\ rlAsked[a] \in Seq(Rl!Times) /\ n = Len(rlAsked[a]) + 1 /\ n \in Nat /\ n \notin DOMAIN rlAsked[a]
  /\ rlAsked'[a] \in Seq(Rl!Times) /\ DOMAIN rlAsked'[a] = DOMAIN rlAsked[a] \cup {n}
  /\ rlAsked'[a][n] = rlNow /\ \A i \in DOMAIN rlAsked[a] : rlAsked'[a][i] = rlAsked[a][i]
  /\ rlBucket'[a] = {i \in rlBucket[a] : rlNow - rlAsked[a][i] < Window} \cup {n}
  /\ rlBucket[a] \cup rlServed[a] \subseteq DOMAIN rlAsked[a]

LEMMA LimitAsk ==
  ASSUME Rl!LimitParams, LimitInv, NEW a \in Addresses, Rl!Ask(a)
  PROVE  \E n : /\ LimitAsked(a, n) /\ n = Rl!Request(a)
                /\ rlNow' = rlNow /\ rlNow \in Rl!Times
                /\ rlServed'[a] \in {rlServed[a], rlServed[a] \cup {n}}
                /\ \A b \in Addresses \ {a} : rlAsked'[b] = rlAsked[b] /\ rlBucket'[b] = rlBucket[b]
                                              /\ rlServed'[b] = rlServed[b]
                /\ Rl!TypeOK'
<1> DEFINE n == Len(rlAsked[a]) + 1
<1>1. /\ rlAsked \in [Addresses -> Seq(Rl!Times)] /\ rlNow \in Rl!Times
      /\ rlBucket \in [Addresses -> SUBSET Nat] /\ rlServed \in [Addresses -> SUBSET Nat]
      /\ \A b \in Addresses : rlBucket[b] \cup rlServed[b] \subseteq DOMAIN rlAsked[b]
  BY DEF LimitInv, Rl!TypeOK
<1>2. rlAsked' = [rlAsked EXCEPT ![a] = Append(rlAsked[a], rlNow)] /\ rlNow' = rlNow
  BY DEF Rl!Ask
<1>3. rlBucket' = [rlBucket EXCEPT ![a] = {i \in rlBucket[a] : rlNow - rlAsked[a][i] < Window} \cup {n}]
  BY DEF Rl!Ask, Rl!Hit, Rl!Fresh, Rl!Request
<1>4. rlServed' = rlServed \/ rlServed' = [rlServed EXCEPT ![a] = rlServed[a] \cup {n}]
  BY DEF Rl!Ask, Rl!Request
<1>5. /\ n \in Nat /\ n \notin DOMAIN rlAsked[a] /\ Append(rlAsked[a], rlNow) \in Seq(Rl!Times)
      /\ DOMAIN Append(rlAsked[a], rlNow) = DOMAIN rlAsked[a] \cup {n}
      /\ Append(rlAsked[a], rlNow)[n] = rlNow
      /\ \A i \in DOMAIN rlAsked[a] : Append(rlAsked[a], rlNow)[i] = rlAsked[a][i]
  <2>1. rlAsked[a] \in Seq(Rl!Times)
    BY <1>1
  <2>. QED  BY <1>1, <2>1
<1>6. LimitAsked(a, n)
  BY <1>1, <1>2, <1>3, <1>5 DEF LimitAsked
<1>7. /\ rlServed'[a] \in {rlServed[a], rlServed[a] \cup {n}}
      /\ \A b \in Addresses \ {a} : rlAsked'[b] = rlAsked[b] /\ rlBucket'[b] = rlBucket[b]
                                    /\ rlServed'[b] = rlServed[b]
  BY <1>1, <1>2, <1>3, <1>4
<1>8. Rl!TypeOK'
  <2>1. rlAsked' \in [Addresses -> Seq(Rl!Times)]
    BY <1>1, <1>2, <1>5
  <2>2. rlBucket' \in [Addresses -> SUBSET Nat] /\ rlServed' \in [Addresses -> SUBSET Nat]
    <3>1. {i \in rlBucket[a] : rlNow - rlAsked[a][i] < Window} \cup {n} \in SUBSET Nat
          /\ rlServed[a] \cup {n} \in SUBSET Nat
      BY <1>1, <1>5
    <3>. QED  BY <1>1, <1>3, <1>4, <3>1
  <2>3. ASSUME NEW b \in Addresses PROVE rlBucket'[b] \cup rlServed'[b] \subseteq DOMAIN rlAsked'[b]
    <3>1. CASE b = a
      BY <1>6, <1>7, <3>1 DEF LimitAsked
    <3>2. CASE b # a
      BY <1>1, <1>7, <3>2
    <3>. QED  BY <3>1, <3>2
  <2>. QED  BY <1>1, <1>2, <2>1, <2>2, <2>3 DEF Rl!TypeOK, Rl!Times
<1>. QED  BY <1>1, <1>2, <1>6, <1>7, <1>8 DEF Rl!Request

(* Everything that a window with the new request holds was kept.            *)
LEMMA LimitAskKept ==
  ASSUME Rl!LimitParams, LimitInv, NEW a \in Addresses, NEW n, LimitAsked(a, n), rlNow \in Rl!Times
  PROVE  \A i \in DOMAIN rlAsked'[a] :
           /\ rlAsked'[a][i] <= rlNow /\ rlAsked'[a][i] \in Int
           /\ rlNow - rlAsked'[a][i] < Window => i \in rlBucket'[a]
<1>1. SUFFICES ASSUME NEW i \in DOMAIN rlAsked'[a]
               PROVE  /\ rlAsked'[a][i] <= rlNow /\ rlAsked'[a][i] \in Int
                      /\ rlNow - rlAsked'[a][i] < Window => i \in rlBucket'[a]
  OBVIOUS
<1>2. CASE i = n
  BY <1>2, LimitBasics DEF LimitAsked
<1>3. CASE i \in DOMAIN rlAsked[a]
  <2>1. /\ rlAsked'[a][i] = rlAsked[a][i] /\ rlAsked[a][i] \in Rl!Times
        /\ rlAsked[a][i] <= rlNow /\ (rlNow - rlAsked[a][i] < Window => i \in rlBucket[a])
    BY <1>3 DEF LimitAsked, LimitInv, LimitKept
  <2>. QED  BY <2>1, LimitBasics DEF LimitAsked
<1>. QED  BY <1>2, <1>3 DEF LimitAsked

LEMMA LimitAskInv == ASSUME Rl!LimitParams, LimitInv, NEW a \in Addresses, Rl!Ask(a) PROVE LimitInv'
<1>1. PICK n : /\ LimitAsked(a, n) /\ n = Rl!Request(a)
               /\ rlNow' = rlNow /\ rlNow \in Rl!Times
               /\ rlServed'[a] \in {rlServed[a], rlServed[a] \cup {n}}
               /\ \A b \in Addresses \ {a} : rlAsked'[b] = rlAsked[b] /\ rlBucket'[b] = rlBucket[b]
                                             /\ rlServed'[b] = rlServed[b]
               /\ Rl!TypeOK'
  BY LimitAsk
<1>2. \A i \in DOMAIN rlAsked'[a] :
        /\ rlAsked'[a][i] <= rlNow /\ rlAsked'[a][i] \in Int
        /\ rlNow - rlAsked'[a][i] < Window => i \in rlBucket'[a]
  BY <1>1, LimitAskKept
<1>3. LimitKept'
  <2>1. ASSUME NEW b \in Addresses, NEW i \in DOMAIN rlAsked'[b]
        PROVE  rlAsked'[b][i] <= rlNow' /\ (rlNow' - rlAsked'[b][i] < Window => i \in rlBucket'[b])
    <3>1. CASE b = a
      BY <1>1, <1>2, <3>1
    <3>2. CASE b # a
      BY <1>1, <3>2 DEF LimitInv, LimitKept
    <3>. QED  BY <3>1, <3>2
  <2>. QED  BY <2>1 DEF LimitKept
<1>4. IsFiniteSet(DOMAIN rlAsked'[a]) /\ IsFiniteSet(rlBucket'[a])
  <2>1. IsFiniteSet(DOMAIN rlAsked'[a])
    BY <1>1, LimitFinite DEF LimitAsked
  <2>2. rlBucket'[a] \subseteq DOMAIN rlAsked'[a]
    BY <1>1 DEF LimitAsked
  <2>. QED  BY <2>1, <2>2, FS_Subset
<1>5. rlServed'[a] \subseteq DOMAIN rlAsked'[a] /\ rlServed'[a] = (IF Rl!Allowed(rlBucket'[a]) THEN rlServed[a] \cup {n} ELSE rlServed[a])
  <2>1. rlBucket'[a] = Rl!Hit(a)
    BY <1>1 DEF LimitAsked, Rl!Hit, Rl!Fresh
  <2>2. rlServed' = IF Rl!Allowed(Rl!Hit(a)) THEN [rlServed EXCEPT ![a] = @ \cup {Rl!Request(a)}] ELSE rlServed
    BY DEF Rl!Ask
  <2>3. rlServed \in [Addresses -> SUBSET Nat]
    BY DEF LimitInv, Rl!TypeOK
  <2>. QED  BY <1>1, <2>1, <2>2, <2>3 DEF LimitAsked
(* A window with the new request holds only what the bucket holds.          *)
<1>6. ASSUME NEW t \in Rl!Times, rlNow <= t, NEW S \in SUBSET DOMAIN rlAsked'[a]
      PROVE  {i \in S : rlAsked'[a][i] <= t /\ t - rlAsked'[a][i] < Window} \subseteq rlBucket'[a]
  <2>1. rlNow <= t /\ t \in Int /\ rlNow \in Int
    BY <1>1, <1>6, LimitBasics
  <2>2. SUFFICES ASSUME NEW i \in S, rlAsked'[a][i] <= t, t - rlAsked'[a][i] < Window
                 PROVE  i \in rlBucket'[a]
    OBVIOUS
  <2>3. PICK s \in Int : s = rlAsked'[a][i]
    BY <1>2
  <2>4. rlNow - s < Window
    BY <2>1, <2>2, <2>3, LimitBasics
  <2>. QED  BY <1>2, <2>3, <2>4
<1>7. ASSUME NEW t \in Rl!Times
      PROVE  Rl!Cardinality({i \in rlServed'[a] : rlAsked'[a][i] <= t /\ t - rlAsked'[a][i] < Window}) <= MaxRequests
  <2> DEFINE W == {i \in rlServed'[a] : rlAsked'[a][i] <= t /\ t - rlAsked'[a][i] < Window}
  <2>1. CASE n \in W
    <3>1. rlAsked'[a][n] = rlNow /\ Rl!Allowed(rlBucket'[a])
      BY <1>1, <1>5, <2>1 DEF LimitAsked
    <3>2. W \subseteq rlBucket'[a]
      BY <1>5, <1>6, <2>1, <3>1
    <3>3. Cardinality(W) \in Nat /\ Cardinality(rlBucket'[a]) \in Nat /\ Cardinality(W) <= Cardinality(rlBucket'[a])
      BY <1>4, <3>2, FS_Subset, FS_CardinalityType
    <3>4. Cardinality(rlBucket'[a]) <= MaxRequests
      BY <3>1, LimitCardinality DEF Rl!Allowed
    <3>5. Cardinality(W) <= MaxRequests
      BY <3>3, <3>4, LimitBasics
    <3>. QED  BY <3>5, LimitCardinality
  <2>2. CASE n \notin W
    <3>1. W = Rl!InWindow(a, rlServed[a], t)
      BY <1>1, <2>2 DEF Rl!InWindow, LimitAsked
    <3>. QED  BY <3>1 DEF LimitInv, Rl!LimitIsExact
  <2>. QED  BY <2>1, <2>2
<1>8. ASSUME \A t \in Rl!Times :
               Rl!Cardinality({i \in DOMAIN rlAsked'[a] : rlAsked'[a][i] <= t /\ t - rlAsked'[a][i] < Window}) <= MaxRequests
      PROVE  rlServed'[a] = DOMAIN rlAsked'[a]
  <2>1. ASSUME NEW t \in Rl!Times
        PROVE  Rl!Cardinality(Rl!InWindow(a, DOMAIN rlAsked[a], t)) <= MaxRequests
    <3> DEFINE V == Rl!InWindow(a, DOMAIN rlAsked[a], t)
               W == {i \in DOMAIN rlAsked'[a] : rlAsked'[a][i] <= t /\ t - rlAsked'[a][i] < Window}
    <3>1. V \subseteq W
      BY <1>1 DEF Rl!InWindow, LimitAsked
    <3>2. IsFiniteSet(W)
      BY <1>4, FS_Subset
    <3>3. Cardinality(V) \in Nat /\ Cardinality(W) \in Nat /\ Cardinality(V) <= Cardinality(W)
      BY <3>1, <3>2, FS_Subset, FS_CardinalityType
    <3>4. Cardinality(W) <= MaxRequests
      BY <1>8, LimitCardinality
    <3>5. Cardinality(V) <= MaxRequests
      BY <3>3, <3>4, LimitBasics
    <3>. QED  BY <3>5, LimitCardinality
  <2>2. rlServed[a] = DOMAIN rlAsked[a]
    BY <2>1 DEF LimitInv, Rl!LimitIsExact
  <2>3. Rl!Allowed(rlBucket'[a])
    <3> DEFINE W == {i \in DOMAIN rlAsked'[a] : rlAsked'[a][i] <= rlNow /\ rlNow - rlAsked'[a][i] < Window}
    <3>1. rlBucket'[a] \subseteq W
      <4>1. ASSUME NEW i \in rlBucket'[a] PROVE i \in W
        <5>1. i \in DOMAIN rlAsked'[a] /\ rlAsked'[a][i] <= rlNow
          BY <1>1, <1>2 DEF LimitAsked
        <5>2. CASE i = n
          BY <1>1, <5>1, <5>2, LimitBasics DEF LimitAsked
        <5>3. CASE i # n
          BY <1>1, <5>1, <5>3 DEF LimitAsked
        <5>. QED  BY <5>2, <5>3
      <4>. QED  BY <4>1
    <3>2. IsFiniteSet(W)
      BY <1>4, FS_Subset
    <3>3. Cardinality(rlBucket'[a]) \in Nat /\ Cardinality(W) \in Nat /\ Cardinality(rlBucket'[a]) <= Cardinality(W)
      BY <3>1, <3>2, <1>4, FS_Subset, FS_CardinalityType
    <3>4. Cardinality(W) <= MaxRequests
      BY <1>1, <1>8, LimitCardinality
    <3>5. Cardinality(rlBucket'[a]) <= MaxRequests
      BY <3>3, <3>4, LimitBasics
    <3>. QED  BY <3>5, LimitCardinality DEF Rl!Allowed
  <2>. QED  BY <1>1, <1>5, <2>2, <2>3 DEF LimitAsked
<1>9. Rl!LimitIsExact'
  <2>1. ASSUME NEW b \in Addresses
        PROVE  /\ \A t \in Rl!Times :
                    Rl!Cardinality({i \in rlServed'[b] : rlAsked'[b][i] <= t /\ t - rlAsked'[b][i] < Window}) <= MaxRequests
               /\ (\A t \in Rl!Times : Rl!Cardinality({i \in DOMAIN rlAsked'[b] :
                                         rlAsked'[b][i] <= t /\ t - rlAsked'[b][i] < Window}) <= MaxRequests)
                    => rlServed'[b] = DOMAIN rlAsked'[b]
    <3>1. CASE b = a
      BY <1>7, <1>8, <3>1
    <3>2. CASE b # a
      <4>1. rlAsked'[b] = rlAsked[b] /\ rlServed'[b] = rlServed[b]
        BY <1>1, <3>2
      <4>. QED  BY <4>1 DEF LimitInv, Rl!LimitIsExact, Rl!InWindow
    <3>. QED  BY <3>1, <3>2
  <2>. QED  BY <2>1 DEF Rl!LimitIsExact, Rl!InWindow
<1>. QED  BY <1>1, <1>3, <1>9 DEF LimitInv

LEMMA LimitRestart == LimitInv /\ Rl!Restart => LimitInv'
<1>1. Rl!LimitParams
  BY PartParams DEF PartParams
<1>2. LimitEmpty => LimitInv
  BY <1>1, LimitCleared
<1>3. LimitInv /\ Rl!Restart => LimitEmpty'
  BY DEF Rl!Restart, LimitInv, LimitEmpty, Rl!TypeOK, Rl!Nothing, Rl!Times
<1>. QED  BY <1>2, <1>3, PTL

LEMMA LimitNextInv == ASSUME Rl!LimitParams, LimitInv, [Rl!Next]_Rl!vars PROVE LimitInv'
<1>1. CASE UNCHANGED Rl!vars
  BY <1>1 DEF Rl!vars, LimitInv, Rl!TypeOK, LimitKept, Rl!LimitIsExact, Rl!InWindow
<1>. QED  BY <1>1, LimitRestart, LimitTick, LimitAskInv DEF Rl!Next

-----------------------------------------------------------------------------
(* The behaviours of the parts, seen from RateLimit, are its own.              *)
LEMMA LimitAlone == Spec => Rl!Init /\ [][Rl!Next]_(Rl!vars)
<1>1. Init => Rl!Init
  BY DEF Init
<1>2. Next => Rl!Next \/ rlVars' = rlVars
  BY DEF Next
<1>3. vars' = vars => rlVars' = rlVars
  BY DEF vars
<1>4. rlVars' = rlVars => UNCHANGED Rl!vars
  BY DEF rlVars, Rl!vars
<1>5. [Next]_vars => [Rl!Next]_(Rl!vars)
  BY <1>2, <1>3, <1>4
<1>. QED  BY <1>1, <1>5, PTL DEF Spec

LEMMA LimitAlways == Rl!Init /\ [][Rl!Next]_(Rl!vars) => []LimitInv
<1>1. Rl!LimitParams
  BY PartParams DEF PartParams
<1>2. Rl!Init => LimitEmpty
  BY <1>1, LimitBasics DEF Rl!Init, LimitEmpty
<1>3. Rl!Init => LimitInv
  BY <1>1, <1>2, LimitCleared
<1>4. LimitInv /\ [Rl!Next]_(Rl!vars) => LimitInv'
  BY <1>1, LimitNextInv
<1>. QED  BY <1>3, <1>4, PTL

(* The types hold in every state, for any addresses, window and limit.       *)
THEOREM LimitTypes == (Rl!Spec => []Rl!TypeOK) /\ (Spec => []Rl!TypeOK)
<1>1. LimitInv => Rl!TypeOK
  BY DEF LimitInv
<1>. QED  BY <1>1, LimitAlways, LimitAlone, PTL DEF Rl!Spec

(* For any addresses, window and limit: between two restarts no window holds   *)
(* more requests that were let through than the limit, and an address that    *)
(* never asked for more than that in a window was never refused               *)
(* (RateLimitMiddleware.dispatch).                                           *)
THEOREM LimitsAreExact == (Rl!Spec => []Rl!LimitIsExact) /\ (Spec => []LimitIsExact)
<1>1. LimitInv => Rl!LimitIsExact /\ LimitIsExact
  BY DEF LimitInv, LimitIsExact
<1>. QED  BY <1>1, LimitAlways, LimitAlone, PTL DEF Rl!Spec

-----------------------------------------------------------------------------
(* Where a command is before it has a result, and where it can be at all.  *)
CommandOpen == {"scan", "handler", "flushed"}
CommandAts == {"idle", "scan", "handler", "flushed", "render", "sync", "close", "failed"}

CommandFlushes(at, pending, c) ==
  /\ pending \subseteq {c, Cm!OfSync}
  /\ at # "close" => pending \subseteq {c}
  /\ at = "flushed" => pending = {c}

(* Until a command has a result nothing of it is stored, and when one that   *)
(* writes has a result, its rows are; one that fails may have them only if  *)
(* it fails late.                                                          *)
CommandStands(at, c, stored, done) ==
  /\ at \in CommandOpen \cup {"failed"} => c \notin done
  /\ at \in CommandOpen => c \notin stored
  /\ at = "failed" /\ c \in stored => Cm!FailsLate(c)
  /\ at \notin CommandOpen \cup {"failed"} /\ cmGiven[c].id \in Cm!Committing => c \in stored

(* A process has flushed nothing but the rows of its command.              *)
CommandOwn(p) ==
  LET c == cmProc[p].cmd IN
  /\ c \in 1 .. Len(cmGiven)
  /\ CommandFlushes(cmProc[p].at, cmProc[p].pending, c)
  /\ c \notin cmRefused
  /\ CommandStands(cmProc[p].at, c, cmStored, cmDone)

CommandOwnRows == \A p \in Procs : cmProc[p].at # "idle" => CommandOwn(p)

CommandOneEach ==
  \A p, q \in Procs :
    p # q /\ cmProc[p].at # "idle" /\ cmProc[q].at # "idle" => cmProc[p].cmd # cmProc[q].cmd

CommandIdleOnly == \A p \in Procs : cmProc[p].at = "idle" => cmProc[p] = Cm!Idle

CommandInv == Cm!TypeOK /\ CommandOwnRows /\ CommandOneEach /\ CommandIdleOnly /\ Cm!ReportsAreTrue

LEMMA CommandReadersDoNotWrite == Cm!Committing \cap (Cm!Reading \cup Cm!OnlyCli) = {}
  BY DEF Cm!Committing, Cm!AccountWrites, Cm!ArticleWrites, Cm!ReviewWrites, Cm!ForkWrites, Cm!PeopleWrites,
     Cm!MaintainerWrites, Cm!Reading, Cm!AccountReads, Cm!ArticleReads, Cm!PeopleReads, Cm!OnlyCli

LEMMA CommandInitInv == Cm!CommandParams /\ Cm!Init => CommandInv
<1> SUFFICES ASSUME Cm!CommandParams, Cm!Init PROVE CommandInv
  OBVIOUS
<1>1. cmGiven = <<>> /\ Len(cmGiven) = 0 /\ cmGiven \in Seq([front : Cm!Fronts, id : Used])
  BY DEF Cm!Init
<1>2. Cm!TypeOK
  <2>1. 0 \in 0 .. Len(cmGiven) /\ {} \in SUBSET (0 .. Len(cmGiven))
    BY <1>1
  <2>2. \A p \in Procs : cmProc[p] = Cm!Idle
    BY DEF Cm!Init
  <2>. QED  BY <1>1, <2>1, <2>2 DEF Cm!Init, Cm!TypeOK, Cm!Idle, Cm!CommandParams
<1>. QED  BY <1>2 DEF Cm!Init, CommandInv, CommandOwnRows, CommandOneEach, CommandIdleOnly, Cm!ReportsAreTrue, Cm!Idle

-----------------------------------------------------------------------------
(* A step that one process takes with its command leaves the others alone.  *)
LEMMA CommandOneMoves ==
  ASSUME CommandInv, NEW p \in Procs, cmProc[p].at # "idle", NEW new, NEW c,
         c = cmProc[p].cmd, cmProc' = [cmProc EXCEPT ![p] = new],
         UNCHANGED cmGiven,
         cmStored' \in {cmStored, cmStored \cup {c}},
         cmDone' \in {cmDone, cmDone \cup {c}},
         cmRefused' \in {cmRefused, cmRefused \cup {c}},
         new = Cm!Idle \/ /\ new.at \in CommandAts \ {"idle"} /\ new.cmd = c
                          /\ new = [at |-> new.at, cmd |-> c, pending |-> new.pending]
                          /\ CommandFlushes(new.at, new.pending, c)
                          /\ c \notin cmRefused'
                          /\ CommandStands(new.at, c, cmStored', cmDone'),
         c \in cmRefused' /\ c \in cmStored' => Cm!FailsLate(c),
         c \in cmDone' /\ cmGiven[c].id \in Cm!Committing => c \in cmStored'
  PROVE  CommandInv'
<1>1. c \in 1 .. Len(cmGiven) /\ Len(cmGiven) \in Nat
  BY DEF CommandInv, CommandOwnRows, CommandOwn, Cm!TypeOK
<1>2. cmProc'[p] = new /\ \A q \in Procs \ {p} : cmProc'[q] = cmProc[q]
  BY DEF CommandInv, Cm!TypeOK
<1>3. new \in [at : CommandAts, cmd : 0 .. Len(cmGiven), pending : SUBSET (0 .. Len(cmGiven))]
  <2>1. CASE new = Cm!Idle
    BY <1>1, <2>1 DEF Cm!Idle, CommandAts
  <2>2. CASE new # Cm!Idle
    <3>1. new.pending \subseteq 0 .. Len(cmGiven) /\ c \in 0 .. Len(cmGiven)
      BY <1>1, <2>2 DEF CommandFlushes, Cm!OfSync
    <3>. QED  BY <2>2, <3>1
  <2>. QED  BY <2>1, <2>2
<1>4. Cm!TypeOK'
  BY <1>1, <1>2, <1>3 DEF CommandInv, Cm!TypeOK, CommandAts
<1>5. \A q \in Procs \ {p} : cmProc'[q].at # "idle" => cmProc[q].cmd # c
  BY <1>2 DEF CommandInv, CommandOneEach
<1>6. CommandOwnRows'
  <2>1. ASSUME NEW q \in Procs \ {p}, cmProc'[q].at # "idle" PROVE CommandOwn(q)'
    BY <1>2, <1>5, <2>1 DEF CommandInv, CommandOwnRows, CommandOwn, CommandStands, Cm!FailsLate
  <2>2. cmProc'[p].at # "idle" => CommandOwn(p)'
    BY <1>1, <1>2 DEF CommandOwn, CommandStands, Cm!FailsLate, Cm!Idle
  <2>. QED  BY <2>1, <2>2 DEF CommandOwnRows
<1>7. CommandOneEach'
  BY <1>2, <1>5 DEF CommandInv, CommandOneEach, Cm!Idle
<1>8. Cm!ReportsAreTrue'
  BY DEF CommandInv, Cm!ReportsAreTrue, Cm!FailsLate
<1>9. CommandIdleOnly'
  BY <1>2 DEF CommandInv, CommandIdleOnly
<1>. QED  BY <1>4, <1>6, <1>7, <1>8, <1>9 DEF CommandInv

(* The process goes on, and its command is reported as the sets say.       *)
LEMMA CommandGoing ==
  ASSUME CommandInv, NEW p \in Procs, cmProc[p].at # "idle", NEW at \in CommandAts \ {"idle"}, NEW pending,
         Cm!Goes(p, at, pending), NEW c, c = cmProc[p].cmd, UNCHANGED <<cmGiven, cmRefused>>,
         cmStored' \in {cmStored, cmStored \cup {c}}, cmDone' \in {cmDone, cmDone \cup {c}},
         CommandFlushes(at, pending, c), CommandStands(at, c, cmStored', cmDone'),
         c \in cmDone' /\ cmGiven[c].id \in Cm!Committing => c \in cmStored'
  PROVE  CommandInv'
<1> DEFINE new == [at |-> at, cmd |-> c, pending |-> pending]
<1>1. cmProc' = [cmProc EXCEPT ![p] = new]
  BY DEF Cm!Goes
<1>2. c \notin cmRefused'
  BY DEF CommandInv, CommandOwnRows, CommandOwn
<1>3. new.at = at /\ new.cmd = c /\ new.pending = pending
  OBVIOUS
<1>. HIDE DEF new
<1>4. new = [at |-> new.at, cmd |-> c, pending |-> new.pending]
  BY <1>3 DEF new
<1>. QED  BY <1>1, <1>2, <1>3, <1>4, CommandOneMoves

(* The process ends, or is at its next command.                            *)
LEMMA CommandEnding ==
  ASSUME CommandInv, NEW p \in Procs, cmProc[p].at # "idle", Cm!Exits(p), NEW c, c = cmProc[p].cmd,
         UNCHANGED cmGiven,
         cmStored' \in {cmStored, cmStored \cup {c}}, cmDone' \in {cmDone, cmDone \cup {c}},
         cmRefused' \in {cmRefused, cmRefused \cup {c}},
         c \in cmRefused' /\ c \in cmStored' => Cm!FailsLate(c),
         c \in cmDone' /\ cmGiven[c].id \in Cm!Committing => c \in cmStored'
  PROVE  CommandInv'
  BY CommandOneMoves DEF Cm!Exits

-----------------------------------------------------------------------------
LEMMA CommandInvokeStep ==
  ASSUME Cm!CommandParams, CommandInv, NEW p \in Procs, NEW front \in Cm!Fronts,
         NEW id \in Used, Cm!Invoke(p, front, id)
  PROVE  CommandInv'
<1> DEFINE n == Len(cmGiven) + 1
           new == [at |-> IF front = "repl" THEN "handler" ELSE "scan", cmd |-> n, pending |-> {}]
<1>1. /\ cmProc[p] = Cm!Idle /\ Len(cmGiven) < MaxCommands
      /\ cmGiven' = Append(cmGiven, [front |-> front, id |-> id]) /\ cmProc' = [cmProc EXCEPT ![p] = new]
      /\ UNCHANGED <<cmStored, cmDone, cmRefused>>
  BY DEF Cm!Invoke
<1>2. Len(cmGiven) \in Nat /\ MaxCommands \in Nat /\ cmGiven \in Seq([front : Cm!Fronts, id : Used])
  BY DEF CommandInv, Cm!TypeOK, Cm!CommandParams
<1>3. /\ cmGiven' \in Seq([front : Cm!Fronts, id : Used]) /\ Len(cmGiven') = n /\ Len(cmGiven') <= MaxCommands
      /\ \A c \in 1 .. Len(cmGiven) : cmGiven'[c] = cmGiven[c]
  BY <1>1, <1>2
<1>4. cmProc'[p] = new /\ \A q \in Procs \ {p} : cmProc'[q] = cmProc[q]
  BY <1>1 DEF CommandInv, Cm!TypeOK
<1>5. {cmStored, cmDone, cmRefused} \subseteq SUBSET (1 .. Len(cmGiven))
      /\ n \notin cmStored /\ n \notin cmDone /\ n \notin cmRefused
  BY <1>2 DEF CommandInv, Cm!TypeOK
<1>6. 1 .. Len(cmGiven) \subseteq 1 .. n /\ 0 .. Len(cmGiven) \subseteq 0 .. n /\ n \in 1 .. n
  BY <1>2
<1>7. Cm!TypeOK'
  <2>a. n \in 0 .. n /\ SUBSET (0 .. Len(cmGiven)) \subseteq SUBSET (0 .. n)
    BY <1>2, <1>6
  <2>b. new \in [at : CommandAts, cmd : 0 .. n, pending : SUBSET (0 .. n)]
    BY <2>a DEF CommandAts
  <2>c. ASSUME NEW q \in Procs \ {p}
        PROVE  cmProc[q] \in [at : CommandAts, cmd : 0 .. n, pending : SUBSET (0 .. n)]
    BY <1>6, <2>a DEF CommandInv, Cm!TypeOK, CommandAts
  <2>1. \A q \in Procs : cmProc'[q] \in [at : CommandAts, cmd : 0 .. n, pending : SUBSET (0 .. n)]
    BY <1>4, <2>b, <2>c
  <2>2. cmProc' \in [Procs -> [at : CommandAts, cmd : 0 .. n, pending : SUBSET (0 .. n)]]
    BY <1>1, <2>1 DEF CommandInv, Cm!TypeOK
  <2>. QED  BY <1>1, <1>3, <1>5, <1>6, <2>2 DEF Cm!TypeOK, CommandAts
<1>8. CommandOwnRows'
  <2>1. ASSUME NEW q \in Procs \ {p}, cmProc'[q].at # "idle" PROVE CommandOwn(q)'
    BY <1>1, <1>3, <1>4, <1>6, <2>1
       DEF CommandInv, CommandOwnRows, CommandOwn, CommandStands, Cm!FailsLate
  <2>2. CommandOwn(p)'
    BY <1>1, <1>3, <1>4, <1>5, <1>6 DEF CommandOwn, CommandFlushes, CommandStands, CommandOpen
  <2>. QED  BY <2>1, <2>2 DEF CommandOwnRows
<1>9. CommandOneEach'
  BY <1>2, <1>4 DEF CommandInv, CommandOneEach, CommandOwnRows, CommandOwn
<1>10. Cm!ReportsAreTrue'
  BY <1>1, <1>3, <1>5 DEF CommandInv, Cm!ReportsAreTrue, Cm!FailsLate
<1>11. CommandIdleOnly'
  BY <1>4 DEF CommandInv, CommandIdleOnly
<1>. QED  BY <1>7, <1>8, <1>9, <1>10, <1>11 DEF CommandInv

LEMMA CommandStepInv ==
  ASSUME CommandInv, NEW p \in Procs,
         \/ Cm!Scan(p) \/ Cm!Handler(p) \/ Cm!Commit(p) \/ Cm!Render(p) \/ Cm!Sync(p) \/ Cm!Close(p)
         \/ Cm!Failed(p) \/ Cm!Crash(p)
  PROVE  CommandInv'
<1> DEFINE c == cmProc[p].cmd
           pending == cmProc[p].pending
<1>1. cmProc[p].at # "idle" => CommandOwn(p)
  BY DEF CommandInv, CommandOwnRows
<1>2. c \in cmDone /\ cmGiven[c].id \in Cm!Committing => c \in cmStored
  BY DEF CommandInv, Cm!ReportsAreTrue
<1>3. CASE Cm!Scan(p)
  <2>1. cmProc[p].at = "scan" /\ c \notin cmStored \cup cmDone
    BY <1>1, <1>3 DEF Cm!Scan, CommandOwn, CommandOpen, CommandStands
  <2>2. CASE Cm!Goes(p, "handler", {}) /\ UNCHANGED cmRefused
    BY <1>2, <1>3, <2>1, <2>2, CommandGoing DEF Cm!Scan, CommandAts, CommandOpen, CommandFlushes, CommandStands
  <2>3. CASE Cm!Exits(p) /\ cmRefused' = cmRefused \cup {c}
    BY <1>2, <1>3, <2>1, <2>3, CommandEnding DEF Cm!Scan
  <2>. QED  BY <1>3, <2>2, <2>3 DEF Cm!Scan
<1>4. CASE Cm!Handler(p)
  <2>1. cmProc[p].at = "handler" /\ c \notin cmStored \cup cmDone /\ UNCHANGED <<cmGiven, cmStored, cmDone, cmRefused>>
    BY <1>1, <1>4 DEF Cm!Handler, CommandOwn, CommandOpen, CommandStands
  <2>2. CASE Cm!Goes(p, "failed", {})
    BY <1>2, <2>1, <2>2, CommandGoing DEF CommandAts, CommandOpen, CommandFlushes, CommandStands
  <2>3. CASE Cm!Id(p) \in Cm!Reading \cup Cm!OnlyCli /\ Cm!Goes(p, "render", {})
    <3>1. cmGiven[c].id \notin Cm!Committing
      BY <2>3, CommandReadersDoNotWrite DEF Cm!Id
    <3>. QED  BY <2>1, <2>3, <3>1, CommandGoing DEF CommandAts, CommandOpen, CommandFlushes, CommandStands
  <2>4. CASE Cm!Goes(p, "flushed", {c})
    BY <1>2, <2>1, <2>4, CommandGoing DEF CommandAts, CommandOpen, CommandFlushes, CommandStands
  <2>. QED  BY <1>4, <2>2, <2>3, <2>4 DEF Cm!Handler
<1>5. CASE Cm!Commit(p)
  <2>1. /\ cmProc[p].at = "flushed" /\ c \notin cmStored \cup cmDone /\ pending = {c}
        /\ UNCHANGED <<cmGiven, cmDone, cmRefused>>
    BY <1>1, <1>5 DEF Cm!Commit, CommandOwn, CommandOpen, CommandFlushes, CommandStands
  <2>2. CASE Cm!Goes(p, "failed", pending) /\ UNCHANGED cmStored
    BY <1>2, <2>1, <2>2, CommandGoing DEF CommandAts, CommandOpen, CommandFlushes, CommandStands
  <2>3. CASE Cm!Goes(p, "render", {}) /\ cmStored' = cmStored \cup pending
    BY <2>1, <2>3, CommandGoing DEF CommandAts, CommandOpen, CommandFlushes, CommandStands
  <2>4. CASE ~Cm!Commits(Cm!Id(p)) /\ Cm!Goes(p, "render", pending) /\ UNCHANGED cmStored
    <3>1. cmGiven[c].id \notin Cm!Committing
      BY <2>4 DEF Cm!Id, Cm!Commits
    <3>. QED  BY <2>1, <2>4, <3>1, CommandGoing DEF CommandAts, CommandOpen, CommandFlushes, CommandStands
  <2>5. CASE Cm!Id(p) \in Cm!WritesLater /\ Cm!Goes(p, "failed", {}) /\ cmStored' = cmStored \cup pending
    <3>1. Cm!FailsLate(c)
      BY <2>5 DEF Cm!FailsLate, Cm!Id
    <3>. QED  BY <2>1, <2>5, <3>1, CommandGoing DEF CommandAts, CommandOpen, CommandFlushes, CommandStands
  <2>. QED  BY <1>5, <2>2, <2>3, <2>4, <2>5 DEF Cm!Commit
<1>6. CASE Cm!Render(p)
  <2>1. /\ cmProc[p].at = "render" /\ pending \subseteq {c} /\ c \notin cmRefused
        /\ cmGiven[c].id \in Cm!Committing => c \in cmStored
        /\ UNCHANGED <<cmGiven, cmStored>>
    BY <1>1, <1>6 DEF Cm!Render, CommandOwn, CommandOpen, CommandFlushes, CommandStands
  <2>2. CASE Cm!Goes(p, "close", pending) /\ UNCHANGED <<cmDone, cmRefused>>
    BY <2>1, <2>2, CommandGoing DEF CommandAts, CommandOpen, CommandFlushes, CommandStands
  <2>3. CASE Cm!Goes(p, "sync", pending) /\ cmDone' = cmDone \cup {c} /\ UNCHANGED cmRefused
    BY <2>1, <2>3, CommandGoing DEF CommandAts, CommandOpen, CommandFlushes, CommandStands
  <2>4. CASE Cm!Exits(p) /\ cmDone' = cmDone \cup {c} /\ UNCHANGED cmRefused
    BY <2>1, <2>4, CommandEnding
  <2>5. CASE /\ Cm!Front(p) = "rich" \/ Cm!IsError(Cm!Id(p))
             /\ Cm!Exits(p) /\ cmRefused' = cmRefused \cup {c} /\ UNCHANGED cmDone
    <3>1. Cm!FailsLate(c)
      BY <2>5 DEF Cm!FailsLate, Cm!Id, Cm!Front
    <3>. QED  BY <1>2, <2>1, <2>5, <3>1, CommandEnding
  <2>. QED  BY <1>6, <2>2, <2>3, <2>4, <2>5 DEF Cm!Render
<1>7. CASE Cm!Sync(p)
  <2>1. /\ cmProc[p].at = "sync" /\ pending \subseteq {c} /\ c \notin cmRefused
        /\ cmGiven[c].id \in Cm!Committing => c \in cmStored
        /\ UNCHANGED <<cmGiven, cmDone, cmRefused>>
    BY <1>1, <1>7 DEF Cm!Sync, CommandOwn, CommandOpen, CommandFlushes, CommandStands
  <2>2. CASE Cm!Goes(p, "close", pending) /\ UNCHANGED cmStored
    BY <2>1, <2>2, CommandGoing DEF CommandAts, CommandOpen, CommandFlushes, CommandStands
  <2>3. CASE Cm!Goes(p, "close", pending \cup {Cm!OfSync}) /\ UNCHANGED cmStored
    BY <2>1, <2>3, CommandGoing DEF CommandAts, CommandOpen, CommandFlushes, CommandStands
  <2>4. CASE Cm!Goes(p, "close", {}) /\ cmStored' = cmStored \cup pending
    <3>1. cmStored' \in {cmStored, cmStored \cup {c}}
      BY <2>1, <2>4
    <3>. QED  BY <2>1, <2>4, <3>1, CommandGoing DEF CommandAts, CommandOpen, CommandFlushes, CommandStands
  <2>5. CASE Cm!Exits(p) /\ UNCHANGED cmStored
    BY <2>1, <2>5, CommandEnding
  <2>. QED  BY <1>7, <2>2, <2>3, <2>4, <2>5 DEF Cm!Sync
<1>8. CASE Cm!Close(p)
  <2>1. /\ cmProc[p].at = "close" /\ pending \subseteq {c, Cm!OfSync} /\ c \notin cmRefused
        /\ cmGiven[c].id \in Cm!Committing => c \in cmStored
        /\ cmStored' = cmStored \cup (pending \ {Cm!OfSync})
        /\ Cm!Exits(p) /\ UNCHANGED <<cmGiven, cmDone, cmRefused>>
    BY <1>1, <1>8 DEF Cm!Close, CommandOwn, CommandOpen, CommandFlushes, CommandStands
  <2>2. cmStored' \in {cmStored, cmStored \cup {c}}
    BY <2>1
  <2>. QED  BY <2>1, <2>2, CommandEnding
<1>9. CASE Cm!Failed(p)
  <2>1. cmProc[p].at = "failed" /\ c \notin cmDone /\ (c \in cmStored => Cm!FailsLate(c))
    BY <1>1, <1>9 DEF Cm!Failed, CommandOwn, CommandOpen, CommandStands
  <2>. QED  BY <1>9, <2>1, CommandEnding DEF Cm!Failed
<1>10. CASE Cm!Crash(p)
  <2>1. cmProc[p].at # "idle"
    BY <1>10 DEF Cm!Crash, CommandInv, CommandIdleOnly
  <2>2. c \in cmRefused /\ c \in cmStored => Cm!FailsLate(c)
    BY DEF CommandInv, Cm!ReportsAreTrue
  <2>. QED  BY <1>2, <1>10, <2>1, <2>2, CommandEnding DEF Cm!Crash
<1>. QED  BY <1>3, <1>4, <1>5, <1>6, <1>7, <1>8, <1>9, <1>10

LEMMA CommandNextInv == ASSUME Cm!CommandParams, CommandInv, [Cm!Next]_Cm!vars PROVE CommandInv'
<1>1. CASE UNCHANGED Cm!vars
  BY <1>1 DEF Cm!vars, CommandInv, Cm!TypeOK, CommandOwnRows, CommandOwn, CommandStands, CommandOneEach,
     CommandIdleOnly, Cm!ReportsAreTrue, Cm!FailsLate
<1>2. ASSUME NEW p \in Procs, NEW front \in Cm!Fronts, NEW id \in Used,
             Cm!Invoke(p, front, id)
      PROVE  CommandInv'
  BY <1>2, CommandInvokeStep
<1>3. ASSUME NEW p \in Procs,
             \/ Cm!Scan(p) \/ Cm!Handler(p) \/ Cm!Commit(p) \/ Cm!Render(p) \/ Cm!Sync(p) \/ Cm!Close(p)
             \/ Cm!Failed(p) \/ Cm!Crash(p)
      PROVE  CommandInv'
  BY <1>3, CommandStepInv
<1>. QED  BY <1>1, <1>2, <1>3 DEF Cm!Next

-----------------------------------------------------------------------------
(* Behaviours of Commands, and what they are within those of the parts.    *)
LEMMA CommandAlone == Spec => Cm!Init /\ [][Cm!Next]_(Cm!vars)
<1>1. Init => Cm!Init
  BY DEF Init
<1>2. Next => Cm!Next \/ cmVars' = cmVars
  BY DEF Next
<1>3. vars' = vars => cmVars' = cmVars
  BY DEF vars
<1>4. cmVars' = cmVars => UNCHANGED Cm!vars
  BY DEF cmVars, Cm!vars
<1>5. [Next]_vars => [Cm!Next]_(Cm!vars)
  BY <1>2, <1>3, <1>4
<1>. QED  BY <1>1, <1>5, PTL DEF Spec

LEMMA CommandAlways == Cm!Init /\ [][Cm!Next]_(Cm!vars) => []CommandInv
<1>1. Cm!CommandParams
  BY PartParams DEF PartParams
<1>2. Cm!Init => CommandInv
  BY <1>1, CommandInitInv
<1>3. CommandInv /\ [Cm!Next]_(Cm!vars) => CommandInv'
  BY <1>1, CommandNextInv
<1>. QED  BY <1>2, <1>3, PTL

(* The types hold in every state, for any processes and commands.          *)
THEOREM CommandTypes == (Cm!Spec => []Cm!TypeOK) /\ (Spec => []Cm!TypeOK)
<1>1. CommandInv => Cm!TypeOK
  BY DEF CommandInv
<1>. QED  BY <1>1, CommandAlways, CommandAlone, PTL DEF Cm!Spec

(* For any processes and commands: one that was reported as done has its rows  *)
(* committed if it writes any.  One that was reported as failed has none,    *)
(* unless the error came after the commit: of a rich text, of a file of      *)
(* "register" or "bootstrap", or the error that "review decline" always     *)
(* reports (with_context, _out, the commits of the handlers).              *)
THEOREM ReportsAreStored == (Cm!Spec => []Cm!ReportsAreTrue) /\ (Spec => []ReportsAreTrue)
<1>1. CommandInv => Cm!ReportsAreTrue /\ ReportsAreTrue
  BY DEF CommandInv, ReportsAreTrue
<1>. QED  BY <1>1, CommandAlways, CommandAlone, PTL DEF Cm!Spec

-----------------------------------------------------------------------------
(* The parts together.                                                      *)

(* The types of every part hold in every state, for any users, articles,      *)
(* devices, addresses and bounds.                                          *)
THEOREM TypesHold == Spec => []TypeOK
<1>1. /\ Rv!TypeOK /\ Re!TypeOK /\ Bs!TypeOK /\ Di!TypeOK /\ Hc!TypeOK /\ Pe!TypeOK
      /\ Ac!TypeOK /\ Li!TypeOK /\ Ui!TypeOK /\ Rq!TypeOK /\ Rl!TypeOK /\ Cm!TypeOK
      /\ Lk!TypeOK /\ An!TypeOK
      => TypeOK
  BY DEF TypeOK
<1>. QED  BY <1>1, ReviewTypes, ReputationTypes, SyncTypes, DiscoveryTypes, HealthTypes, PeerTypes,
             AccountTypes, LibraryTypes, ReplTypes, RequestTypes, LimitTypes, CommandTypes, LockTypes, SearchTypes, PTL
=============================================================================
