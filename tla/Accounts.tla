-------------------------------- MODULE Accounts --------------------------------
(***************************************************************************)
(* The accounts of a device and its one session file.  Commands of several *)
(* processes register, log in, recover, bootstrap and delete accounts and  *)
(* name users by "@" and an alias; what other peers say adds users, and what *)
(* they sign changes keys.  A command that opens a session does so after    *)
(* its row is committed, in a second step, and may crash between the two.  *)
(*                                                                         *)
(* Who knows the right password is who types it: a wrong one changes        *)
(* nothing, because the failure also rolls back the count of failures.      *)
(***************************************************************************)
EXTENDS Integers, FiniteSets

CONSTANTS Ids, Names, Procs, None

(* Assumed of the constants where the module is instantiated.               *)
AccountParams == None \notin Ids \cup Names

VARIABLES
  user,     \* [Ids -> User]: the rows
  session,  \* the account the session file names, None without a readable file
  follows,  \* pairs of ids: live rows of the table of follows
  alias,    \* [Ids -> [Ids -> Names or None]]: what an owner calls a user
  proc,     \* [Procs -> Proc]: the command of each process
  raced     \* names that two processes were registering at once

vars == <<user, session, follows, alias, proc, raced>>

(* A key that the password derives with the salt of the row ("own"), one     *)
(* that it does not ("foreign"), an empty one ("empty") or none.  Users of   *)
(* whom the device has only heard have no salt, or an empty one.            *)
NoUser == [name |-> None, key |-> "none", how |-> "none", deleted |-> FALSE]
User == [name : Names, key : {"own", "foreign", "empty", "none"},
         how : {"registered", "copied", "heard"}, deleted : BOOLEAN]
Idle == [at |-> "idle", id |-> None, name |-> None]

Init ==
  /\ user = [i \in Ids |-> NoUser]
  /\ session = None
  /\ follows = {}
  /\ alias = [o \in Ids |-> [t \in Ids |-> None]]
  /\ proc = [p \in Procs |-> Idle]
  /\ raced = {}

Known == {i \in Ids : user[i] # NoUser}
Active == {i \in Known : ~user[i].deleted}

(* Mutant: only the accounts with a session block a name.                  *)
NamedInSession(n) == {i \in Active : user[i].name = n /\ i = session}

(* list_users_by_name.                                                     *)
Named(n) == {i \in Active : user[i].name = n}

RegisterBegin(p, n) ==
  /\ proc[p] = Idle
  /\ Named(n) = {}  \* guard_name_available
  /\ proc' = [proc EXCEPT ![p] = [at |-> "register", id |-> None, name |-> n]]
  /\ raced' = IF \E q \in Procs : proc[q].at = "register" /\ proc[q].name = n
              THEN raced \cup {n} ELSE raced
  /\ UNCHANGED <<user, session, follows, alias>>

(* Mutant: the session is opened although the row was not committed.       *)
OpenedUncommitted(p, i) ==
  /\ proc' = [proc EXCEPT ![p] = [at |-> "session", id |-> i, name |-> None]]
  /\ UNCHANGED <<user, session>>

(* The row with name, key and salt is committed; the session follows.      *)
Opened(p, i) ==
  /\ user' = [user EXCEPT ![i] = [name |-> proc[p].name, key |-> "own",
                                  how |-> "registered", deleted |-> FALSE]]
  /\ proc' = [proc EXCEPT ![p] = [at |-> "session", id |-> i, name |-> None]]
  /\ UNCHANGED session

RegisterStore(p) ==
  /\ proc[p].at = "register"
  /\ \E i \in Ids \ Known : Opened(p, i)
  /\ UNCHANGED <<follows, alias, raced>>

WriteSession(p) ==
  /\ proc[p].at = "session"
  /\ session' = proc[p].id
  /\ proc' = [proc EXCEPT ![p] = Idle]
  /\ UNCHANGED <<user, follows, alias, raced>>

(* The process dies, perhaps in the middle of writing the file; or the file  *)
(* cannot be written, and the command fails with its row committed.        *)
Crash(p) ==
  /\ proc[p] # Idle
  /\ proc' = [proc EXCEPT ![p] = Idle]
  /\ session' \in IF proc[p].at = "session" THEN {session, None} ELSE {session}
  /\ UNCHANGED <<user, follows, alias, raced>>

-----------------------------------------------------------------------------
(* require_authenticable_user, verify_user_password: there is a salt, and   *)
(* the key derived with it is the one in the row.                          *)
Verified(i) == user[i].key = "own"

LogIn(p, i) ==
  /\ Verified(i)
  /\ proc' = [proc EXCEPT ![p] = [at |-> "session", id |-> i, name |-> None]]
  /\ UNCHANGED <<user, session, follows, alias, raced>>

(* require_user_by_name: the name must be that of one active user.         *)
Sole(n) == {i \in Ids : Named(n) = {i}}

Login(p, n) ==
  /\ proc[p] = Idle
  /\ \E i \in Sole(n) : LogIn(p, i)

(* An id is looked up among active users, and then among all.              *)
Recover(p, i) ==
  /\ proc[p] = Idle
  /\ i \in Known
  /\ LogIn(p, i)

(* The session stays as it is.                                             *)
Delete(p) ==
  /\ proc[p] = Idle
  /\ session \in Known
  /\ user' = [user EXCEPT ![session].deleted = TRUE]
  /\ UNCHANGED <<session, follows, alias, proc, raced>>

(* bootstrap: the account of another device, unless the id is known.       *)
Bootstrap(p, i, n) ==
  /\ proc[p] = Idle
  /\ i \notin Known  \* guard_user_id_available
  /\ user' = [user EXCEPT ![i] = [name |-> n, key |-> "own", how |-> "copied",
                                  deleted |-> FALSE]]
  /\ UNCHANGED <<session, follows, alias, proc, raced>>

(* A listing of users (no salt) or a school (an empty one) names a user, or  *)
(* a request that a user of the server has signed.                         *)
Heard(i, n, key) ==
  /\ i \notin Known
  /\ user' = [user EXCEPT ![i] = [name |-> n, key |-> key, how |-> "heard",
                                  deleted |-> FALSE]]
  /\ UNCHANGED <<session, follows, alias, proc, raced>>

(* A commit that is pulled or pushed, or a request to the server, is signed  *)
(* with another key, which replaces the one of the row; so does rotate-key. *)
(* It is trusted whatever the row had, and can be the derived one again.    *)
Rotate(i, key) ==
  /\ i \in Known
  /\ key # user[i].key
  /\ key = "own" => user[i].how # "heard"
  /\ user' = [user EXCEPT ![i].key = key]
  /\ UNCHANGED <<session, follows, alias, proc, raced>>

-----------------------------------------------------------------------------
(* "@" n: users of this name, deleted or not, and users whom anybody on the *)
(* device calls so.                                                        *)
Meant(n) == {i \in Known : user[i].name = n \/ \E o \in Ids : alias[o][i] = n}

(* One of them, or the command fails.                                      *)
Resolved(n) == {t \in Ids : Meant(n) = {t}}

(* The table has a unique key over owner and alias.                        *)
Free(o, t, n) == \A v \in Ids \ {t} : alias[o][v] # n

(* follow, unfollow.                                                       *)
Follow(n) ==
  /\ session \in Known
  /\ \E t \in Resolved(n) :
       /\ t # session
       /\ follows' = follows \cup {<<session, t>>}
  /\ UNCHANGED <<user, session, alias, proc, raced>>

(* The alias stays.                                                        *)
Unfollow(n) ==
  /\ session \in Known
  /\ \E t \in Resolved(n) :
       follows' = follows \ {<<session, t>>}
  /\ UNCHANGED <<user, session, alias, proc, raced>>

SetAlias(n, new) ==
  /\ session \in Known
  /\ \E t \in Resolved(n) :
       /\ <<session, t>> \in follows
       /\ Free(session, t, new)
       /\ alias' = [alias EXCEPT ![session][t] = new]
  /\ UNCHANGED <<user, session, follows, proc, raced>>

RemoveAlias(n) ==
  /\ session \in Known
  /\ \E t \in Resolved(n) :
       alias' = [alias EXCEPT ![session][t] = None]
  /\ UNCHANGED <<user, session, follows, proc, raced>>

-----------------------------------------------------------------------------
Next ==
  \/ \E p \in Procs :
       \/ RegisterStore(p)
       \/ WriteSession(p)
       \/ Crash(p)
       \/ Delete(p)
       \/ \E n \in Names : RegisterBegin(p, n) \/ Login(p, n)
       \/ \E i \in Ids : Recover(p, i) \/ \E n \in Names : Bootstrap(p, i, n)
  \/ \E i \in Ids, n \in Names, key \in {"none", "empty", "foreign"} : Heard(i, n, key)
  \/ \E i \in Ids, key \in {"own", "foreign"} : Rotate(i, key)
  \/ \E n, m \in Names : SetAlias(n, m)
  \/ \E n \in Names : Follow(n) \/ Unfollow(n) \/ RemoveAlias(n)

Spec == Init /\ [][Next]_vars

-----------------------------------------------------------------------------
TypeOK ==
  /\ user \in [Ids -> User \cup {NoUser}]
  /\ session \in Ids \cup {None}
  /\ follows \subseteq Ids \X Ids
  /\ alias \in [Ids -> [Ids -> Names \cup {None}]]
  /\ proc \in [Procs -> [at : {"idle", "register", "session"},
                         id : Ids \cup {None}, name : Names \cup {None}]]
  /\ raced \subseteq Names

(* The session file names an account that is committed here and has a       *)
(* password, wherever a process stops and whoever writes the file last      *)
(* (register, login and recover in app/commands/account.py).  Its key is    *)
(* the one that goes with the password, unless another one was signed with. *)
(* It may be deleted: see SessionIsCleared.                                *)
SessionHasAccount ==
  session # None => /\ session \in Known
                    /\ user[session].how # "heard"
                    /\ user[session].key \in {"own", "foreign"}

(* "Callers MUST clear the session file": the session file names no account *)
(* that has been deleted.                                                  *)
SessionIsCleared == session # None => session \in Active

(* Names clash among the accounts registered here only where two processes *)
(* registered at once: the check and the insertion are separate             *)
(* (guard_name_available, create_user).                                    *)
NamesClashByRaces ==
  \A i, j \in Active :
    i # j /\ user[i].how = "registered" /\ user[j].how = "registered"
      /\ user[i].name = user[j].name
    => user[i].name \in raced
=============================================================================
