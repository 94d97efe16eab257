------------------------------- MODULE Requests --------------------------------
(***************************************************************************)
(* The server and what its clients make of its answers.  All requests run  *)
(* on one event loop, each in a session of its own: a request is let in,    *)
(* waits for its body, is handled in one piece, and its session is committed *)
(* some turns of the loop later, before the answer is sent.  Meanwhile its  *)
(* flushed rows lock the database, and who else has rows to write fails:    *)
(* the loop stands still until the lock times out.                         *)
(*                                                                         *)
(* Errors that the server maps to a status become answers inside the        *)
(* session, which is then committed; all others roll it back.  Reads change *)
(* nothing; they are what Seen says.  Keys are not told apart.             *)
(***************************************************************************)
EXTENDS Integers, FiniteSets

CONSTANTS Conns, Users, Askers, Articles, Unknown

(* Assumed of the constants where the module is instantiated.  Unknown is   *)
(* an id without a row; Articles are those with one.                       *)
RequestParams == Askers \subseteq Users /\ Unknown \notin Users \cup Articles

VARIABLES
  known,    \* users with a row
  follows,  \* live rows of the table of follows
  notes,    \* pairs <<u, v>>: v is notified that u follows
  shares,   \* pairs of a user and an article
  repo,     \* the uploaded article: "none", "old" commits, or the "new" as well
  mirror,   \* what its rows show: "old", the "authors" of the new, or "new"
  conn,     \* [Conns -> Conn]: the request of each connection
  told,     \* follows that a client was told of and nobody took back
  sent      \* a client was told that its upload was applied

rows == <<known, follows, notes, shares, mirror>>
vars == <<rows, repo, conn, told, sent>>

(* The route table.  Paths that need no header; calls whose client signs.  *)
ArticleCalls == {"head", "bundle", "repo", "ancestor", "article", "source",
                 "search", "articles", "sync", "upload"}
PeopleCalls == {"user", "following", "followers", "shares", "notifications",
                "peers", "school", "follow", "unfollow", "share", "unshare",
                "rotate-key"}
Writes == {"follow", "unfollow", "share", "unshare", "rotate-key", "sync", "upload"}
Reads == (ArticleCalls \cup PeopleCalls) \ Writes
Public == {"head", "bundle", "sync", "repo", "upload", "following", "followers",
           "articles", "shares", "ancestor", "school"}
Signed == (Writes \ {"sync", "upload"}) \cup
          {"following", "followers", "articles", "shares", "search", "notifications"}

Idle == [at |-> "idle", call |-> "none", by |-> Unknown, about |-> Unknown,
         status |-> 0]

Init ==
  /\ known \in {Users, Users \ Askers}
  /\ follows = {} /\ notes = {} /\ shares = {}
  /\ repo \in {"none", "old"} /\ mirror = "old"
  /\ conn = [c \in Conns |-> Idle]
  /\ told = {}
  /\ sent = FALSE

-----------------------------------------------------------------------------
(* _ERROR_MAP; an error that is not in it is a 500.                        *)
Status(error) ==
  CASE error \in {"NotFoundError", "FileNotFoundError"} -> 404
    [] error = "NotAuthorizedError" -> 403
    [] error = "ConflictError" -> 409
    [] error \in {"BadRequestError", "ValueError", "TypeError"} -> 400
    [] error = "SignatureVerificationError" -> 422
    [] error \in {"TransportError", "ProtocolError"} -> 502
    [] OTHER -> 500

(* Mutant: whatever a client does not get is not there.                    *)
JsonOrAnything(status) == IF status = 200 THEN "yes" ELSE "no"

(* How a client reads a status: 0 is a server that does not answer.        *)
JsonOr404(status) ==
  CASE status = 200 -> "yes" [] status = 404 -> "no" [] OTHER -> "error"

OkOr404(status) ==
  CASE status = 200 -> "yes" [] status = 404 -> "no" [] OTHER -> "error"

OfArticles(call, status) ==
  CASE call = "ancestor" /\ status = 0 -> "unknown"
    [] call = "ancestor" -> IF status = 200 THEN "yes" ELSE "no"
    [] call = "sync" /\ status \in {200, 409} -> IF status = 200 THEN "yes" ELSE "conflict"
    [] call = "upload" /\ status \in {200, 201, 409} -> IF status = 409 THEN "no" ELSE "yes"
    [] call \in {"sync", "upload"} -> "error"
    [] OTHER -> JsonOr404(status)

OfPeople(call, status) ==
  CASE call \in {"peers", "school"} -> IF status = 200 THEN "yes" ELSE "error"
    [] call \in Writes -> OkOr404(status)
    [] OTHER -> JsonOr404(status)

Understood(call, status) ==
  IF call \in ArticleCalls THEN OfArticles(call, status) ELSE OfPeople(call, status)

(* A header: all is well with it, or its form, its age or its signature is  *)
(* wrong, or the client sends none.                                        *)
Headers(call) ==
  IF call \in Signed THEN {"sound", "malformed", "late", "unproved"} ELSE {"absent"}

Verified(call, header) == call \in Public \/ header = "sound"

-----------------------------------------------------------------------------
Locked == \E d \in Conns : conn[d].at = "written"

Goes(c, at, status) ==
  conn' = [conn EXCEPT ![c] = [at |-> at, call |-> @.call, by |-> @.by, about |-> @.about,
                               status |-> status]]

(* The connection is closed on an error that is mapped to nothing.         *)
Fails(c) == conn' = [conn EXCEPT ![c] = Idle]

(* The request passes the limiter and the check of its header.  Who signs   *)
(* is who they say: an id without a row gets one, which is committed.  A    *)
(* request whose header is refused, or that meets the lock here, leaves     *)
(* nothing.                                                                *)
Arrive(c, call, u, about) ==
  /\ conn[c] = Idle
  /\ \E header \in Headers(call) : Verified(call, header)
  /\ known' = IF call \in Public THEN known ELSE known \cup {u}
  /\ known' # known => ~Locked
  /\ conn' = [conn EXCEPT ![c] = [at |-> "body", call |-> call, by |-> u,
                                  about |-> about, status |-> 0]]
  /\ UNCHANGED <<follows, notes, shares, mirror, repo, told, sent>>

(* The handler has something to write, given the committed rows.           *)
HasRows(r) ==
  CASE r.call = "unfollow" -> <<r.by, r.about>> \in follows
    [] r.call = "unshare" -> <<r.by, r.about>> \in shares
    [] r.call = "share" -> <<r.by, r.about>> \notin shares
    [] OTHER -> TRUE

(* A foreign key has no row.                                               *)
Dangling(r) ==
  \/ r.call = "follow" /\ ~({r.by, r.about} \subseteq known)
  \/ r.call = "share" /\ r.about \notin Articles

(* A request with a body is handled: its rows are flushed, not committed.  *)
Handle(c) ==
  LET r == conn[c] IN
  /\ r.at = "body" /\ r.call \notin ArticleCalls
  /\ IF r.call = "follow" /\ r.by = r.about
     THEN Goes(c, "read", Status("BadRequestError"))  \* require_not_same
     ELSE IF ~HasRows(r) THEN Goes(c, "read", 200)
     ELSE IF Dangling(r) \/ Locked THEN Fails(c)
     ELSE Goes(c, "written", 200)
  /\ UNCHANGED <<rows, repo, told, sent>>

(* The first upload unpacks the repository and writes no rows.             *)
HandleUpload(c) ==
  /\ conn[c].at = "body" /\ conn[c].call = "upload"
  /\ IF repo = "none" THEN repo' = "old" /\ Goes(c, "read", 201)
     ELSE Goes(c, "read", Status("ConflictError")) /\ UNCHANGED repo
  /\ UNCHANGED <<rows, told, sent>>

(* Later ones: the merge first, then the rows, table by table.  An error     *)
(* resets the repository: it comes before any row, or after the authors.   *)
HandleSync(c) ==
  /\ conn[c].at = "body" /\ conn[c].call = "sync"
  /\ \/ Goes(c, "read", Status("SignatureVerificationError")) /\ UNCHANGED repo
     \/ /\ repo # "none" /\ ~Locked
        /\ \/ Goes(c, "written", Status("NotFoundError")) /\ UNCHANGED repo
           \/ Goes(c, "written", 200) /\ repo' = "new"
     \/ Fails(c) /\ UNCHANGED repo
  /\ UNCHANGED <<rows, told, sent>>

-----------------------------------------------------------------------------
(* Mutant: the session is closed and not committed.                        *)
NotStored(r) == UNCHANGED rows

(* The flushed rows are committed; rotate-key changes a key only.          *)
Stored(r) ==
  /\ r.at = "read" => UNCHANGED rows
  /\ r.at = "written" =>
       LET pair == <<r.by, r.about>> IN
       /\ follows' = CASE r.call = "follow" -> follows \cup {pair}
                       [] r.call = "unfollow" -> follows \ {pair}
                       [] OTHER -> follows
       /\ notes' = IF r.call = "follow" THEN notes \cup {pair} ELSE notes
       /\ shares' = CASE r.call = "share" -> shares \cup {pair}
                      [] r.call = "unshare" -> shares \ {pair}
                      [] OTHER -> shares
       /\ mirror' = IF r.call # "sync" THEN mirror
                    ELSE IF r.status = 200 THEN "new"
                    ELSE IF mirror = "old" THEN "authors" ELSE mirror
       /\ UNCHANGED known

(* The session is committed and then the answer is sent, which may get lost. *)
Answer(c) ==
  LET r == conn[c]
      pair == <<r.by, r.about>> IN
  /\ r.at \in {"read", "written"}
  /\ Stored(r)
  /\ \E status \in {r.status, 0} :
       LET done == Understood(r.call, status) = "yes" IN
       /\ told' = IF r.call = "unfollow" THEN told \ {pair}
                  ELSE IF r.call = "follow" /\ done THEN told \cup {pair} ELSE told
       /\ sent' = (sent \/ (r.call = "sync" /\ done))
  /\ Fails(c)
  /\ UNCHANGED repo

(* The client goes away while its body is awaited.                         *)
Abort(c) ==
  /\ conn[c].at = "body"
  /\ Fails(c)
  /\ UNCHANGED <<rows, repo, told, sent>>

(* A crash loses what is not committed, but no commit of git.              *)
Restart ==
  /\ conn' = [c \in Conns |-> Idle]
  /\ UNCHANGED <<rows, repo, told, sent>>

Next ==
  \/ \E c \in Conns :
       \/ Handle(c) \/ HandleUpload(c) \/ HandleSync(c) \/ Answer(c) \/ Abort(c)
       \/ \E u \in Askers :
            \/ \E v \in Users \cup {Unknown} :
                 Arrive(c, "follow", u, v) \/ Arrive(c, "unfollow", u, v)
            \/ \E a \in Articles \cup {Unknown} :
                 Arrive(c, "share", u, a) \/ Arrive(c, "unshare", u, a)
            \/ Arrive(c, "rotate-key", u, u)
       \/ \E call \in {"sync", "upload"} : Arrive(c, call, Unknown, Unknown)
  \/ Restart

Spec == Init /\ [][Next]_vars

-----------------------------------------------------------------------------
(* What a read asks for is there.                                          *)
There(call, about) ==
  CASE call = "user" -> about \in known
    [] call = "article" -> about \in Articles
    [] call \in {"head", "bundle", "repo", "source"} -> repo # "none"
    [] OTHER -> TRUE

(* The views are records.  They are handed to the encoder as they are, and  *)
(* it takes dictionaries only.                                             *)
Views(call, about) ==
  CASE call \in {"article", "articles", "search"} -> Articles # {}
    [] call = "following" -> \E v \in Users : <<about, v>> \in follows
    [] call = "followers" -> \E u \in Users : <<u, about>> \in follows
    [] call = "notifications" -> \E u \in Users : <<u, about>> \in notes
    [] OTHER -> FALSE

(* What a handler answers.  There is no bundle without new commits.        *)
ArticleAnswers(call, about) ==
  IF ~There(call, about) THEN {Status("NotFoundError")}
  ELSE IF Views(call, about) THEN {Status("TypeError")}
  ELSE IF call = "bundle" THEN {200, Status("NotFoundError")}
  ELSE {200}

PeopleAnswers(call, about) ==
  IF ~There(call, about) THEN {Status("NotFoundError")}
  ELSE IF Views(call, about) THEN {Status("TypeError")}
  ELSE {200}

Answers(call, about) ==
  IF call \in ArticleCalls THEN ArticleAnswers(call, about) ELSE PeopleAnswers(call, about)

(* What a client may make of a read: the limiter, the header, the handler or *)
(* the network answer.                                                     *)
Seen(call, about) ==
  {Understood(call, status) :
     status \in {0, 429} \cup
       UNION {IF Verified(call, h) THEN Answers(call, about) ELSE {401} :
                h \in Headers(call)}}

-----------------------------------------------------------------------------
TypeOK ==
  /\ known \subseteq Users
  /\ follows \subseteq Users \X Users
  /\ notes \subseteq Users \X Users
  /\ shares \subseteq Users \X Articles
  /\ repo \in {"none", "old", "new"}
  /\ mirror \in {"old", "authors", "new"}
  /\ conn \in [Conns -> [at : {"idle", "body", "read", "written"},
                         call : Writes \cup {"none"},
                         by : Users \cup {Unknown},
                         about : Users \cup Articles \cup {Unknown},
                         status : {0, 200, 201, 400, 404, 409, 422}]]
  /\ told \subseteq Users \X Users
  /\ sent \in BOOLEAN

(* What a client was told is so, whatever is lost and whoever else writes:  *)
(* a follow is there with its notice until somebody takes it back, and an   *)
(* upload is in the repository and in the rows (DBSessionMiddleware commits *)
(* before the answer, _push_bundle and _post read it).                     *)
OkIsDurable ==
  /\ told \subseteq follows \cap notes
  /\ sent => repo = "new" /\ mirror = "new"

(* A client takes nothing for absent that is there, not for a limit, a lost *)
(* answer or an error of the server (_require_json_or_none): an absent HEAD *)
(* is answered by uploading the whole repository.  Two calls are left out   *)
(* because it is not so for them: a bundle is absent also when there is     *)
(* nothing new, and a probe of ancestors reads any status but 200 as a no,  *)
(* and any 200 as a yes whatever it says (see BundleSync).                  *)
AbsentIsAbsent ==
  \A call \in Reads \ {"bundle", "ancestor"}, about \in Users \cup Articles \cup {Unknown} :
    "no" \in Seen(call, about) => ~There(call, about)
=============================================================================
