--------------------------- MODULE Owning_proofs ----------------------------
(***************************************************************************)
(* What the owner of a device has: accounts and their session, articles and *)
(* the counts of their forks, the screens of the REPL, the peers it knows. *)
(* For any users, names, processes, articles and addresses.                *)
(***************************************************************************)
EXTENDS Parts, Lists, FiniteSetTheorems, TLAPS

(* Users of whom the device has only heard have no key that a password       *)
(* derives; the others have that one or one that was signed with since.     *)
AccountKeyed ==
  \A i \in Ac!Known : acUser[i].key \in IF acUser[i].how = "heard" THEN {"foreign", "empty", "none"}
                                                                  ELSE {"own", "foreign"}

(* A process that is about to write the session has a committed account.   *)
AccountSessionInv ==
  /\ \A p \in Procs : acProc[p].at = "session" =>
       acProc[p].id \in Ac!Known /\ acUser[acProc[p].id].how # "heard"
  /\ acSession # Null => acSession \in Ac!Known /\ acUser[acSession].how # "heard"

AccountOwn(i, n) == i \in Ac!Active /\ acUser[i].how = "registered" /\ acUser[i].name = n

(* A name that is being registered is another one's by a race only.        *)
AccountRaceInv ==
  /\ \A p \in Procs : acProc[p].at = "register" => acProc[p].name \in Names
  /\ \A p, q \in Procs :
       p # q /\ acProc[p].at = "register" /\ acProc[q].at = "register"
         /\ acProc[p].name = acProc[q].name
       => acProc[p].name \in acRaced
  /\ \A p \in Procs, i \in Users, n \in Names :
       acProc[p].at = "register" /\ acProc[p].name = n /\ AccountOwn(i, n) => n \in acRaced
  /\ \A i, j \in Users, n \in Names : i # j /\ AccountOwn(i, n) /\ AccountOwn(j, n) => n \in acRaced

AccountInv == Ac!TypeOK /\ AccountKeyed /\ AccountSessionInv /\ AccountRaceInv

(* A row with a name is somebody's.                                        *)
LEMMA AccountRowsAreKnown ==
  ASSUME Ac!AccountParams, NEW row \in Ac!User
  PROVE  row # Ac!NoUser
  BY DEF Ac!AccountParams, Ac!User, Ac!NoUser

LEMMA AccountInitInv == Ac!AccountParams /\ Ac!Init => AccountInv
  BY DEF Ac!AccountParams, Ac!Init, AccountInv, Ac!TypeOK, AccountKeyed, AccountSessionInv, AccountRaceInv, AccountOwn,
     Ac!Active, Ac!Known, Ac!Idle, Ac!NoUser

-----------------------------------------------------------------------------
(* What a row says of a user stays, but for the deletion; a new row is one  *)
(* of somebody who was not known.                                          *)
LEMMA AccountNewRow ==
  ASSUME Ac!AccountParams, AccountInv, NEW i \in Users \ Ac!Known, NEW row \in Ac!User,
         acUser' = [acUser EXCEPT ![i] = row]
  PROVE  /\ acUser' \in [Users -> Ac!User \cup {Ac!NoUser}]
         /\ Ac!Known' = Ac!Known \cup {i}
         /\ \A j \in Ac!Known : j # i /\ acUser'[j] = acUser[j]
         /\ acUser'[i] = row
         /\ \A j \in Users, n \in Names :
              AccountOwn(j, n)' => AccountOwn(j, n) \/ (j = i /\ row.how = "registered" /\ row.name = n)
<1>1. row # Ac!NoUser
  BY AccountRowsAreKnown
<1>. QED  BY <1>1 DEF AccountInv, Ac!TypeOK, Ac!Known, AccountOwn, Ac!Active

(* Without a new account of this device, names clash as before.            *)
LEMMA AccountRacesStay ==
  ASSUME AccountInv, UNCHANGED acRaced,
         \A j \in Users, n \in Names : AccountOwn(j, n)' => AccountOwn(j, n),
         \A p \in Procs : acProc'[p].at = "register" => acProc'[p] = acProc[p]
  PROVE  AccountRaceInv'
<1>1. \A p \in Procs : acProc'[p].at = "register" =>
        acProc[p].at = "register" /\ acProc'[p].name = acProc[p].name
  OBVIOUS
<1>. QED  BY <1>1 DEF AccountInv, AccountRaceInv

(* The names of users are names.                                           *)
LEMMA AccountNamesAreNames ==
  ASSUME AccountInv, NEW i \in Ac!Known
  PROVE  acUser[i] \in Ac!User /\ acUser[i].name \in Names
  BY DEF AccountInv, Ac!TypeOK, Ac!Known, Ac!User

(* Steps that change no row and begin no registration.                     *)
LEMMA AccountSameRows ==
  ASSUME AccountInv, UNCHANGED <<acUser, acRaced>>, Ac!TypeOK', AccountSessionInv',
         \A p \in Procs : acProc'[p].at = "register" => acProc'[p] = acProc[p]
  PROVE  AccountInv'
<1>1. Ac!Known' = Ac!Known /\ Ac!Active' = Ac!Active
  BY DEF Ac!Known, Ac!Active
<1>2. \A j \in Users, n \in Names : AccountOwn(j, n)' => AccountOwn(j, n)
  BY <1>1 DEF AccountOwn
<1>3. AccountKeyed'
  BY <1>1 DEF AccountInv, AccountKeyed
<1>. QED  BY <1>2, <1>3, AccountRacesStay DEF AccountInv

-----------------------------------------------------------------------------
LEMMA AccountBeginStep ==
  ASSUME Ac!AccountParams, AccountInv, NEW p \in Procs, NEW n \in Names, Ac!RegisterBegin(p, n)
  PROVE  AccountInv'
<1>1. /\ acProc' = [acProc EXCEPT ![p] = [at |-> "register", id |-> Null, name |-> n]]
      /\ UNCHANGED <<acUser, acSession, acFollows, acAlias>>
      /\ \A i \in Users : ~AccountOwn(i, n)
      /\ acRaced \subseteq acRaced' /\ acRaced' \subseteq Names
  BY DEF Ac!RegisterBegin, Ac!Named, AccountOwn, AccountInv, Ac!TypeOK
<1>2. \A q \in Procs : acProc[q].at = "register" /\ acProc[q].name = n => n \in acRaced'
  BY DEF Ac!RegisterBegin
<1>3. Ac!TypeOK'
  BY <1>1 DEF AccountInv, Ac!TypeOK
<1>4. AccountSessionInv'
  BY <1>1 DEF AccountInv, Ac!TypeOK, AccountSessionInv, Ac!Known
<1>5. acProc'[p] = [at |-> "register", id |-> Null, name |-> n]
      /\ \A q \in Procs \ {p} : acProc'[q] = acProc[q]
  BY <1>1 DEF AccountInv, Ac!TypeOK
<1>6. Ac!Known' = Ac!Known /\ Ac!Active' = Ac!Active /\ \A i \in Users, m \in Names : AccountOwn(i, m)' <=> AccountOwn(i, m)
  BY <1>1 DEF Ac!Known, Ac!Active, AccountOwn
<1>a. AccountKeyed'
  BY <1>1, <1>6 DEF AccountInv, AccountKeyed
<1>7. AccountRaceInv'
  <2>1. \A q \in Procs : acProc'[q].at = "register" => acProc'[q].name \in Names
    BY <1>5 DEF AccountInv, AccountRaceInv
  <2>2. \A q, r \in Procs :
          q # r /\ acProc'[q].at = "register" /\ acProc'[r].at = "register"
            /\ acProc'[q].name = acProc'[r].name
          => acProc'[q].name \in acRaced'
    BY <1>1, <1>2, <1>5 DEF AccountInv, AccountRaceInv
  <2>3. \A q \in Procs, i \in Users, m \in Names :
          acProc'[q].at = "register" /\ acProc'[q].name = m /\ AccountOwn(i, m)' => m \in acRaced'
    BY <1>1, <1>5, <1>6 DEF AccountInv, AccountRaceInv
  <2>4. \A i, j \in Users, m \in Names : i # j /\ AccountOwn(i, m)' /\ AccountOwn(j, m)' => m \in acRaced'
    BY <1>1, <1>6 DEF AccountInv, AccountRaceInv
  <2>. QED  BY <2>1, <2>2, <2>3, <2>4 DEF AccountRaceInv
<1>. QED  BY <1>3, <1>4, <1>a, <1>7 DEF AccountInv

LEMMA AccountStoreStep ==
  ASSUME Ac!AccountParams, AccountInv, NEW p \in Procs, Ac!RegisterStore(p)
  PROVE  AccountInv'
<1>1. PICK i \in Users \ Ac!Known : Ac!Opened(p, i)
  BY DEF Ac!RegisterStore
<1> DEFINE n == acProc[p].name
           row == [name |-> n, key |-> "own", how |-> "registered", deleted |-> FALSE]
<1>2. /\ acProc[p].at = "register"
      /\ acUser' = [acUser EXCEPT ![i] = row]
      /\ acProc' = [acProc EXCEPT ![p] = [at |-> "session", id |-> i, name |-> Null]]
      /\ UNCHANGED <<acSession, acFollows, acAlias, acRaced>>
  BY <1>1 DEF Ac!RegisterStore, Ac!Opened
<1>3. n \in Names /\ row \in Ac!User /\ row.name = n
  BY <1>2 DEF AccountInv, AccountRaceInv, Ac!User
<1>4. /\ acUser' \in [Users -> Ac!User \cup {Ac!NoUser}]
      /\ Ac!Known' = Ac!Known \cup {i}
      /\ \A j \in Ac!Known : j # i /\ acUser'[j] = acUser[j]
      /\ acUser'[i] = row
      /\ \A j \in Users, m \in Names : AccountOwn(j, m)' => AccountOwn(j, m) \/ (j = i /\ m = n)
  <2>1. acUser' = [acUser EXCEPT ![i] = row]
    BY <1>2
  <2>. HIDE DEF row
  <2>2. \A j \in Users, m \in Names :
          AccountOwn(j, m)' => AccountOwn(j, m) \/ (j = i /\ row.how = "registered" /\ row.name = m)
    BY <1>3, <2>1, AccountNewRow
  <2>. QED  BY <1>3, <2>1, <2>2, AccountNewRow
<1>5. acProc'[p] = [at |-> "session", id |-> i, name |-> Null]
      /\ \A q \in Procs \ {p} : acProc'[q] = acProc[q]
  BY <1>2 DEF AccountInv, Ac!TypeOK
<1>6. Ac!TypeOK'
  BY <1>2, <1>4 DEF AccountInv, Ac!TypeOK
<1>7. AccountSessionInv'
  BY <1>2, <1>4, <1>5 DEF AccountInv, AccountSessionInv
<1>8. \A q \in Procs : acProc'[q].at = "register" =>
        q # p /\ acProc[q].at = "register" /\ acProc'[q].name = acProc[q].name
  BY <1>5
<1>9. \A j \in Users : AccountOwn(j, n) => n \in acRaced
  BY <1>2, <1>3 DEF AccountInv, AccountRaceInv
<1>10. \A q \in Procs, j \in Users, m \in Names :
         acProc'[q].at = "register" /\ acProc'[q].name = m /\ AccountOwn(j, m)' => m \in acRaced
  BY <1>2, <1>4, <1>8 DEF AccountInv, AccountRaceInv
<1>11. \A j, k \in Users, m \in Names : j # k /\ AccountOwn(j, m)' /\ AccountOwn(k, m)' => m \in acRaced
  BY <1>4, <1>9 DEF AccountInv, AccountRaceInv
<1>12. AccountRaceInv'
  BY <1>2, <1>8, <1>10, <1>11 DEF AccountInv, AccountRaceInv
<1>13. AccountKeyed'
  BY <1>4 DEF AccountInv, AccountKeyed
<1>. QED  BY <1>6, <1>7, <1>12, <1>13 DEF AccountInv

(* A row that comes from elsewhere.                                        *)
LEMMA AccountHeardStep ==
  ASSUME Ac!AccountParams, AccountInv, NEW i \in Users \ Ac!Known, NEW row \in Ac!User, row.how # "registered",
         row.key \in IF row.how = "heard" THEN {"foreign", "empty", "none"} ELSE {"own", "foreign"},
         acUser' = [acUser EXCEPT ![i] = row],
         UNCHANGED <<acSession, acFollows, acAlias, acProc, acRaced>>
  PROVE  AccountInv'
<1>1. /\ acUser' \in [Users -> Ac!User \cup {Ac!NoUser}]
      /\ Ac!Known' = Ac!Known \cup {i}
      /\ \A j \in Ac!Known : j # i /\ acUser'[j] = acUser[j]
      /\ acUser'[i] = row
      /\ \A j \in Users, m \in Names : AccountOwn(j, m)' => AccountOwn(j, m)
  BY AccountNewRow
<1>2. Ac!TypeOK'
  BY <1>1 DEF AccountInv, Ac!TypeOK
<1>3. AccountSessionInv'
  BY <1>1 DEF AccountInv, AccountSessionInv
<1>4. AccountKeyed'
  BY <1>1 DEF AccountInv, AccountKeyed
<1>. QED  BY <1>1, <1>2, <1>3, <1>4, AccountRacesStay DEF AccountInv

(* A row of somebody known changes in another field than name and origin.   *)
LEMMA AccountChangedRow ==
  ASSUME Ac!AccountParams, AccountInv, NEW i \in Ac!Known, NEW row \in Ac!User,
         acUser' = [acUser EXCEPT ![i] = row],
         row.how = acUser[i].how, row.name = acUser[i].name, row.deleted \/ ~acUser[i].deleted,
         row.key \in IF row.how = "heard" THEN {"foreign", "empty", "none"} ELSE {"own", "foreign"},
         UNCHANGED <<acSession, acFollows, acAlias, acProc, acRaced>>
  PROVE  AccountInv'
<1>1. row # Ac!NoUser /\ i \in Users
  BY AccountRowsAreKnown DEF Ac!Known
<1>2. /\ acUser' \in [Users -> Ac!User \cup {Ac!NoUser}]
      /\ acUser'[i] = row
      /\ \A j \in Users \ {i} : acUser'[j] = acUser[j]
  BY <1>1 DEF AccountInv, Ac!TypeOK
<1>3. Ac!Known' = Ac!Known
  BY <1>1, <1>2 DEF Ac!Known
<1>4. Ac!Active' \subseteq Ac!Active
  BY <1>2, <1>3 DEF Ac!Active, Ac!Known
<1>5. Ac!TypeOK'
  BY <1>2 DEF AccountInv, Ac!TypeOK
<1>6. AccountSessionInv'
  BY <1>2, <1>3 DEF AccountInv, AccountSessionInv, Ac!Known
<1>7. AccountKeyed'
  BY <1>2, <1>3 DEF AccountInv, AccountKeyed, Ac!Known
<1>8. \A j \in Users, n \in Names : AccountOwn(j, n)' => AccountOwn(j, n)
  BY <1>2, <1>4 DEF AccountOwn
<1>. QED  BY <1>5, <1>6, <1>7, <1>8, AccountRacesStay DEF AccountInv

LEMMA AccountDeleteStep ==
  ASSUME Ac!AccountParams, AccountInv, NEW p \in Procs, Ac!Delete(p)
  PROVE  AccountInv'
<1>1. /\ acSession \in Ac!Known
      /\ acUser' = [acUser EXCEPT ![acSession].deleted = TRUE]
      /\ UNCHANGED <<acSession, acFollows, acAlias, acProc, acRaced>>
  BY DEF Ac!Delete
<1>2. acUser[acSession] \in Ac!User
  BY <1>1, AccountNamesAreNames
<1> DEFINE row == [acUser[acSession] EXCEPT !.deleted = TRUE]
<1>3. /\ row \in Ac!User /\ row.deleted /\ row.how = acUser[acSession].how
      /\ row.key = acUser[acSession].key /\ row.name = acUser[acSession].name
  BY <1>2 DEF Ac!User
<1>4. acUser' = [acUser EXCEPT ![acSession] = row]
  BY <1>1
<1>5. row.key \in IF row.how = "heard" THEN {"foreign", "empty", "none"} ELSE {"own", "foreign"}
  BY <1>1, <1>3 DEF AccountInv, AccountKeyed
<1>. HIDE DEF row
<1>. QED  BY <1>1, <1>3, <1>4, <1>5, AccountChangedRow

LEMMA AccountRotateStep ==
  ASSUME Ac!AccountParams, AccountInv, NEW i \in Users, NEW key \in {"own", "foreign"}, Ac!Rotate(i, key)
  PROVE  AccountInv'
<1>1. /\ i \in Ac!Known /\ (key = "own" => acUser[i].how # "heard")
      /\ acUser' = [acUser EXCEPT ![i].key = key]
      /\ UNCHANGED <<acSession, acFollows, acAlias, acProc, acRaced>>
  BY DEF Ac!Rotate
<1>2. acUser[i] \in Ac!User
  BY <1>1, AccountNamesAreNames
<1> DEFINE row == [acUser[i] EXCEPT !.key = key]
<1>3. /\ row \in Ac!User /\ row.deleted = acUser[i].deleted /\ row.how = acUser[i].how
      /\ row.key = key /\ row.name = acUser[i].name
  BY <1>2 DEF Ac!User
<1>4. acUser' = [acUser EXCEPT ![i] = row]
  BY <1>1
<1>5. row.key \in IF row.how = "heard" THEN {"foreign", "empty", "none"} ELSE {"own", "foreign"}
  BY <1>1, <1>3
<1>. HIDE DEF row
<1>. QED  BY <1>1, <1>3, <1>4, <1>5, AccountChangedRow

-----------------------------------------------------------------------------
LEMMA AccountInvNext ==
  ASSUME Ac!AccountParams, AccountInv, [Ac!Next]_Ac!vars
  PROVE  AccountInv'
<1>1. ASSUME NEW p \in Procs, Ac!WriteSession(p) PROVE AccountInv'
  <2>1. /\ acProc[p].at = "session" /\ acSession' = acProc[p].id
        /\ acProc' = [acProc EXCEPT ![p] = Ac!Idle]
        /\ UNCHANGED <<acUser, acFollows, acAlias, acRaced>>
    BY <1>1 DEF Ac!WriteSession
  <2>2. Ac!TypeOK'
    BY <2>1 DEF AccountInv, Ac!TypeOK, Ac!Idle
  <2>3. AccountSessionInv'
    BY <2>1 DEF AccountInv, Ac!TypeOK, AccountSessionInv, Ac!Known, Ac!Idle
  <2>4. \A q \in Procs : acProc'[q].at = "register" => acProc'[q] = acProc[q]
    BY <2>1 DEF AccountInv, Ac!TypeOK, Ac!Idle
  <2>. QED  BY <2>1, <2>2, <2>3, <2>4, AccountSameRows
<1>2. ASSUME NEW p \in Procs, Ac!Crash(p) PROVE AccountInv'
  <2>1. /\ acSession' \in {acSession, Null}
        /\ acProc' = [acProc EXCEPT ![p] = Ac!Idle]
        /\ UNCHANGED <<acUser, acFollows, acAlias, acRaced>>
    BY <1>2 DEF Ac!Crash
  <2>2. Ac!TypeOK'
    BY <2>1 DEF AccountInv, Ac!TypeOK, Ac!Idle
  <2>3. AccountSessionInv'
    BY <2>1 DEF AccountInv, Ac!TypeOK, AccountSessionInv, Ac!Known, Ac!Idle
  <2>4. \A q \in Procs : acProc'[q].at = "register" => acProc'[q] = acProc[q]
    BY <2>1 DEF AccountInv, Ac!TypeOK, Ac!Idle
  <2>. QED  BY <2>1, <2>2, <2>3, <2>4, AccountSameRows
<1>3. ASSUME NEW p \in Procs, NEW i \in Ac!Known, Ac!LogIn(p, i) PROVE AccountInv'
  <2>1. /\ acUser[i].how # "heard"
        /\ acProc' = [acProc EXCEPT ![p] = [at |-> "session", id |-> i, name |-> Null]]
        /\ UNCHANGED <<acUser, acSession, acFollows, acAlias, acRaced>>
    BY <1>3 DEF Ac!LogIn, Ac!Verified, AccountInv, AccountKeyed
  <2>2. Ac!TypeOK'
    BY <2>1 DEF AccountInv, Ac!TypeOK, Ac!Known
  <2>3. AccountSessionInv'
    BY <2>1 DEF AccountInv, Ac!TypeOK, AccountSessionInv, Ac!Known
  <2>4. \A q \in Procs : acProc'[q].at = "register" => acProc'[q] = acProc[q]
    BY <2>1 DEF AccountInv, Ac!TypeOK
  <2>. QED  BY <2>1, <2>2, <2>3, <2>4, AccountSameRows
<1>4. ASSUME NEW p \in Procs, NEW n \in Names, Ac!Login(p, n) PROVE AccountInv'
  BY <1>3, <1>4 DEF Ac!Login, Ac!Sole, Ac!Named, Ac!Active
<1>5. ASSUME NEW p \in Procs, NEW i \in Users, Ac!Recover(p, i) PROVE AccountInv'
  BY <1>3, <1>5 DEF Ac!Recover
<1>6. ASSUME NEW p \in Procs, NEW i \in Users, NEW n \in Names, Ac!Bootstrap(p, i, n) PROVE AccountInv'
  <2> DEFINE row == [name |-> n, key |-> "own", how |-> "copied", deleted |-> FALSE]
  <2>1. row \in Ac!User
    BY DEF Ac!User
  <2>. QED  BY <1>6, <2>1, AccountHeardStep DEF Ac!Bootstrap
<1>7. ASSUME NEW i \in Users, NEW n \in Names, NEW key \in {"none", "empty", "foreign"}, Ac!Heard(i, n, key)
      PROVE  AccountInv'
  <2> DEFINE row == [name |-> n, key |-> key, how |-> "heard", deleted |-> FALSE]
  <2>1. row \in Ac!User
    BY DEF Ac!User
  <2>. QED  BY <1>7, <2>1, AccountHeardStep DEF Ac!Heard
<1>8. ASSUME NEW n \in Names, Ac!Follow(n) \/ Ac!Unfollow(n) PROVE AccountInv'
  <2>1. /\ acFollows' \subseteq Users \X Users
        /\ UNCHANGED <<acUser, acSession, acAlias, acProc, acRaced>>
    BY <1>8 DEF Ac!Follow, Ac!Unfollow, Ac!Resolved, Ac!Meant, Ac!Known, AccountInv, Ac!TypeOK
  <2>2. Ac!TypeOK' /\ AccountSessionInv'
    BY <2>1 DEF AccountInv, Ac!TypeOK, AccountSessionInv, Ac!Known
  <2>. QED  BY <2>1, <2>2, AccountSameRows
<1>9. ASSUME NEW n \in Names, (\E m \in Names : Ac!SetAlias(n, m)) \/ Ac!RemoveAlias(n) PROVE AccountInv'
  <2>1. PICK t \in Ac!Known, m \in Names \cup {Null} :
          /\ acSession \in Ac!Known
          /\ acAlias' = [acAlias EXCEPT ![acSession][t] = m]
          /\ UNCHANGED <<acUser, acSession, acFollows, acProc, acRaced>>
    BY <1>9 DEF Ac!SetAlias, Ac!RemoveAlias, Ac!Resolved, Ac!Meant
  <2>2. acAlias' \in [Users -> [Users -> Names \cup {Null}]]
    BY <2>1 DEF AccountInv, Ac!TypeOK, Ac!Known
  <2>3. Ac!TypeOK' /\ AccountSessionInv'
    BY <2>1, <2>2 DEF AccountInv, Ac!TypeOK, AccountSessionInv, Ac!Known
  <2>. QED  BY <2>1, <2>3, AccountSameRows
<1>10. CASE UNCHANGED Ac!vars
  <2>1. Ac!TypeOK' /\ AccountSessionInv'
    BY <1>10 DEF Ac!vars, AccountInv, Ac!TypeOK, AccountSessionInv, Ac!Known
  <2>. QED  BY <1>10, <2>1, AccountSameRows DEF Ac!vars
<1>. QED  BY <1>1, <1>2, <1>4, <1>5, <1>6, <1>7, <1>8, <1>9, <1>10, AccountBeginStep, AccountStoreStep, AccountDeleteStep,
             AccountRotateStep
          DEF Ac!Next

(* Behaviours of Accounts, and what they are within those of the parts.    *)
LEMMA AccountAlone == Spec => Ac!Init /\ [][Ac!Next]_(Ac!vars)
<1>1. Init => Ac!Init
  BY DEF Init
<1>2. Next => Ac!Next \/ acVars' = acVars
  BY DEF Next
<1>3. vars' = vars => acVars' = acVars
  BY DEF vars
<1>4. acVars' = acVars => UNCHANGED Ac!vars
  BY DEF acVars, Ac!vars
<1>5. [Next]_vars => [Ac!Next]_(Ac!vars)
  BY <1>2, <1>3, <1>4
<1>. QED  BY <1>1, <1>5, PTL DEF Spec

LEMMA AccountAlways == Ac!Init /\ [][Ac!Next]_(Ac!vars) => []AccountInv
<1>1. Ac!AccountParams
  BY PartParams DEF PartParams
<1>2. Ac!Init => AccountInv
  BY <1>1, AccountInitInv
<1>3. AccountInv /\ [Ac!Next]_(Ac!vars) => AccountInv'
  BY <1>1, AccountInvNext
<1>. QED  BY <1>2, <1>3, PTL

(* The session file names an account that is committed on the device and has *)
(* a password, wherever a process stops and whatever keys are signed with    *)
(* (register, login, recover); it may name one that was deleted.            *)
THEOREM SessionsHaveAccounts ==
  (Ac!Spec => []Ac!SessionHasAccount) /\ (Spec => []SessionHasAccount)
<1>1. AccountInv => Ac!SessionHasAccount
  BY DEF AccountInv, AccountKeyed, AccountSessionInv, Ac!SessionHasAccount
<1>2. Ac!SessionHasAccount => SessionHasAccount
  BY DEF SessionHasAccount
<1>. QED  BY <1>1, <1>2, AccountAlways, AccountAlone, PTL DEF Ac!Spec

(* Two accounts of the device have one name only if two processes were      *)
(* registering it at once (guard_name_available, create_user).              *)
THEOREM NamesClashAfterRaces ==
  (Ac!Spec => []Ac!NamesClashByRaces) /\ (Spec => []NamesClashByRaces)
<1>1. AccountInv => Ac!NamesClashByRaces
  BY AccountNamesAreNames DEF AccountInv, AccountRaceInv, Ac!NamesClashByRaces, AccountOwn,
     Ac!Active, Ac!Known
<1>2. Ac!NamesClashByRaces => NamesClashByRaces
  BY DEF NamesClashByRaces
<1>. QED  BY <1>1, <1>2, AccountAlways, AccountAlone, PTL DEF Ac!Spec

(* The types hold in every state, for any users, names and processes.       *)
THEOREM AccountTypes == (Ac!Spec => []Ac!TypeOK) /\ (Spec => []Ac!TypeOK)
<1>1. AccountInv => Ac!TypeOK
  BY DEF AccountInv
<1>. QED  BY <1>1, AccountAlways, AccountAlone, PTL DEF Ac!Spec

-----------------------------------------------------------------------------
LibraryWas(a) == Li!Exists(a) \/ a \in liDropped

(* An origin is another article, which is here or was deleted.             *)
LibraryOrigins ==
  \A f, o \in Li!Articles : liRow[f].origin = o => o # f /\ LibraryWas(o)

(* Ids that were not given away are new, and a fork under way has its own.   *)
LibraryFresh == \A a \in Li!Articles : a > liUsed => ~LibraryWas(a)

LibraryPending ==
  \A j \in liForking :
    /\ j.to <= liUsed /\ ~LibraryWas(j.to)
    /\ j.from # j.to /\ LibraryWas(j.from)
    /\ \A k \in liForking : j.to = k.to => j = k

LibraryLive == \A a \in Li!Articles : Li!Exists(a) => liRow[a].status # "none"

(* CountsAreForks, with the cardinality of FiniteSets.                     *)
LibraryCounts ==
  \A a \in Li!Articles : Li!Exists(a) =>
    /\ liRow[a].forks <= Cardinality(Li!Forks(a))
    /\ a \notin liDropped => liRow[a].forks = Cardinality(Li!Forks(a))

LibraryInv == Li!TypeOK /\ LibraryLive /\ LibraryOrigins /\ LibraryFresh /\ LibraryPending /\ LibraryCounts

LEMMA LibraryFinite ==
  ASSUME Li!LibraryParams
  PROVE  /\ MaxArticles \in Nat /\ IsFiniteSet(Li!Articles) /\ Cardinality(Li!Articles) = MaxArticles
         /\ Li!NoArticle \notin Li!Articles /\ Li!Articles \subseteq Nat
         /\ \A S \in SUBSET Li!Articles : /\ IsFiniteSet(S) /\ Cardinality(S) \in 0 .. MaxArticles
<1>1. MaxArticles \in Nat /\ Li!NoArticle \notin Li!Articles /\ Li!Articles \subseteq Nat
  BY DEF Li!LibraryParams, Li!Articles, Li!NoArticle
<1>2. IsFiniteSet(Li!Articles) /\ Cardinality(Li!Articles) = MaxArticles
  BY <1>1, FS_Interval DEF Li!Articles
<1>3. ASSUME NEW S \in SUBSET Li!Articles
      PROVE  IsFiniteSet(S) /\ Cardinality(S) \in 0 .. MaxArticles
  <2>1. IsFiniteSet(S) /\ Cardinality(S) <= Cardinality(Li!Articles)
    BY <1>2, FS_Subset
  <2>. QED  BY <1>1, <1>2, <2>1, FS_CardinalityType
<1>. QED  BY <1>1, <1>2, <1>3

LEMMA LibraryNoRowTyped ==
  ASSUME Li!LibraryParams
  PROVE  Li!NoRow \in Li!Row /\ Li!NoRow.origin = Li!NoArticle /\ Li!NoRow.status = "none"
  BY LibraryFinite DEF Li!NoRow, Li!Row

LEMMA LibraryInitInv == ASSUME Li!LibraryParams, Li!Init PROVE LibraryInv
<1>1. \A a \in Li!Articles : liRow[a] = Li!NoRow
  BY DEF Li!Init
<1>2. Li!TypeOK
  BY LibraryNoRowTyped, LibraryFinite DEF Li!Init, Li!TypeOK
<1>3. LibraryLive /\ LibraryCounts /\ \A a \in Li!Articles : ~LibraryWas(a)
  BY <1>1 DEF Li!Init, LibraryLive, LibraryCounts, LibraryWas, Li!Exists
<1>4. LibraryOrigins
  BY <1>1, LibraryNoRowTyped, LibraryFinite DEF LibraryOrigins
<1>. QED  BY <1>2, <1>3, <1>4 DEF Li!Init, LibraryInv, LibraryFresh, LibraryPending

-----------------------------------------------------------------------------
(* Counting changes nothing but the count of one row that is there.        *)
LEMMA LibraryCountedRow ==
  ASSUME Li!LibraryParams, NEW rows \in [Li!Articles -> Li!Row], NEW o \in Li!Articles \cup {Li!NoArticle},
         NEW n \in {-1, 1}, o # Li!NoArticle => rows[o] = Li!NoRow \/ rows[o].status # "none",
         o # Li!NoArticle /\ rows[o] # Li!NoRow => rows[o].forks + n <= MaxArticles
  PROVE  LET new == Li!Counted(rows, o, n) IN
         /\ new \in [Li!Articles -> Li!Row]
         /\ \A b \in Li!Articles \ {o} : new[b] = rows[b]
         /\ o # Li!NoArticle /\ rows[o] = Li!NoRow => new[o] = Li!NoRow
         /\ o # Li!NoArticle /\ rows[o] # Li!NoRow =>
              /\ new[o] # Li!NoRow /\ new[o].status = rows[o].status
              /\ new[o].origin = rows[o].origin
              /\ new[o].forks = IF rows[o].forks + n < 0 THEN 0 ELSE rows[o].forks + n
<1>1. MaxArticles \in Nat /\ Li!NoArticle \notin Li!Articles
  BY LibraryFinite
<1>2. CASE o = Li!NoArticle \/ rows[o] = Li!NoRow
  BY <1>1, <1>2 DEF Li!Counted
<1>3. CASE o # Li!NoArticle /\ rows[o] # Li!NoRow
  <2> DEFINE forks == IF rows[o].forks + n < 0 THEN 0 ELSE rows[o].forks + n
             r == [rows[o] EXCEPT !.forks = forks]
  <2>1. o \in Li!Articles /\ rows[o] \in Li!Row /\ rows[o].status # "none"
    BY <1>3
  <2>2. forks \in 0 .. MaxArticles
    BY <1>1, <1>3, <2>1 DEF Li!Row
  <2>3. Li!Counted(rows, o, n) = [rows EXCEPT ![o] = r]
    BY <1>3 DEF Li!Counted
  <2>. HIDE DEF forks
  <2>4. /\ r \in Li!Row /\ r.status = rows[o].status /\ r.origin = rows[o].origin
        /\ r.forks = forks
    BY <2>1, <2>2 DEF Li!Row
  <2>5. r # Li!NoRow
    BY <2>1, <2>4, LibraryNoRowTyped
  <2>. HIDE DEF r
  <2>. QED  BY <1>1, <1>3, <2>1, <2>3, <2>4, <2>5 DEF forks
<1>. QED  BY <1>2, <1>3

(* A row comes where none was, a fork of o or of nothing, and o counts it.   *)
LEMMA LibraryRowAdded ==
  ASSUME Li!LibraryParams, LibraryInv, NEW a \in Li!Articles, ~Li!Exists(a),
         NEW o \in Li!Articles \cup {Li!NoArticle}, o # a, o # Li!NoArticle => LibraryWas(o),
         NEW authors \in SUBSET Users, NEW status \in Li!Statuses, NEW stub \in BOOLEAN,
         liRow' = Li!Counted(Li!Added(a, o, authors, status, stub), o, 1), UNCHANGED liDropped
  PROVE  /\ liRow' \in [Li!Articles -> Li!Row] /\ LibraryCounts' /\ LibraryOrigins' /\ LibraryLive'
         /\ \A b \in Li!Articles : Li!Exists(b)' <=> Li!Exists(b) \/ b = a
<1> DEFINE new == [status |-> status, origin |-> o, forks |-> 0, authors |-> authors,
                   stub |-> stub]
           rows == [liRow EXCEPT ![a] = new]
<1>1. liRow \in [Li!Articles -> Li!Row] /\ MaxArticles \in Nat /\ Li!NoArticle \notin Li!Articles
  BY LibraryFinite DEF LibraryInv, Li!TypeOK
<1>2. new # Li!NoRow /\ new.origin = o /\ new.forks = 0 /\ new \in Li!Row
      /\ new.status # "none"
  BY <1>1 DEF Li!Row, Li!NoRow, Li!Statuses
<1>. HIDE DEF new
<1>3. rows \in [Li!Articles -> Li!Row] /\ rows[a] = new /\ \A b \in Li!Articles \ {a} : rows[b] = liRow[b]
  BY <1>1, <1>2
<1>4. liRow' = Li!Counted(rows, o, 1)
  BY DEF Li!Added, new
<1>. HIDE DEF rows
<1>5. liRow[a] = Li!NoRow /\ liRow[a].origin = Li!NoArticle
  BY LibraryNoRowTyped DEF Li!Exists
<1>6. \A b \in Li!Articles : IsFiniteSet(Li!Forks(b)) /\ Cardinality(Li!Forks(b)) \in 0 .. MaxArticles
                          /\ a \notin Li!Forks(b)
  BY <1>1, <1>5, LibraryFinite DEF Li!Forks
<1>7. o # Li!NoArticle /\ liRow[o] # Li!NoRow => liRow[o].forks + 1 <= MaxArticles
  <2>1. SUFFICES ASSUME o # Li!NoArticle, liRow[o] # Li!NoRow
                 PROVE  liRow[o].forks + 1 <= MaxArticles
    OBVIOUS
  <2>2. liRow[o].forks <= Cardinality(Li!Forks(o)) /\ liRow[o].forks \in Nat
    BY <1>1, <2>1 DEF LibraryInv, LibraryCounts, Li!Exists, Li!Row
  <2>3. Cardinality(Li!Forks(o) \cup {a}) = Cardinality(Li!Forks(o)) + 1
        /\ Li!Forks(o) \cup {a} \in SUBSET Li!Articles
    BY <1>6, <2>1, FS_AddElement DEF Li!Forks
  <2>4. Cardinality(Li!Forks(o) \cup {a}) <= MaxArticles
    BY <1>1, <2>3, LibraryFinite
  <2>. QED  BY <1>1, <1>6, <2>1, <2>2, <2>3, <2>4
<1>8. o # Li!NoArticle => rows[o] = liRow[o] /\ (rows[o] = Li!NoRow \/ rows[o].status # "none")
  BY <1>1, <1>3 DEF LibraryInv, LibraryLive, Li!Exists
<1>9. /\ liRow' \in [Li!Articles -> Li!Row]
      /\ \A b \in Li!Articles \ {o} : liRow'[b] = rows[b]
      /\ o # Li!NoArticle /\ liRow[o] = Li!NoRow => liRow'[o] = Li!NoRow
      /\ o # Li!NoArticle /\ liRow[o] # Li!NoRow =>
              /\ liRow'[o] # Li!NoRow /\ liRow'[o].status = liRow[o].status
              /\ liRow'[o].origin = liRow[o].origin /\ liRow'[o].forks = liRow[o].forks + 1
  <2>1. o # Li!NoArticle /\ liRow[o] # Li!NoRow => liRow[o].forks \in Nat
    BY <1>1 DEF Li!Row
  <2>2. o # Li!NoArticle /\ rows[o] # Li!NoRow => rows[o].forks + 1 <= MaxArticles
    BY <1>7, <1>8
  <2>. QED  BY <1>3, <1>4, <1>8, <2>1, <2>2, LibraryCountedRow
<1>10. \A b \in Li!Articles :
         /\ liRow'[b].origin = IF b = a THEN o ELSE liRow[b].origin
         /\ Li!Exists(b)' <=> Li!Exists(b) \/ b = a
  BY <1>1, <1>2, <1>3, <1>5, <1>9 DEF Li!Exists
<1>11. LibraryLive'
  <2>1. ASSUME NEW b \in Li!Articles, Li!Exists(b)' PROVE liRow'[b].status # "none"
    <3>1. CASE b = a
      BY <1>2, <1>3, <1>9, <3>1
    <3>2. CASE b # a
      <4>1. Li!Exists(b) /\ liRow[b].status # "none"
        BY <1>10, <2>1, <3>2 DEF LibraryInv, LibraryLive
      <4>. QED  BY <1>1, <1>3, <1>9, <3>2, <4>1 DEF Li!Exists
    <3>. QED  BY <3>1, <3>2
  <2>. QED  BY <2>1 DEF LibraryLive
<1>12. LibraryOrigins'
  <2>1. \A b \in Li!Articles : LibraryWas(b) => LibraryWas(b)'
    BY <1>10 DEF LibraryWas
  <2>2. ASSUME NEW f \in Li!Articles, NEW p \in Li!Articles, liRow'[f].origin = p
        PROVE  p # f /\ LibraryWas(p)'
    <3>1. CASE f = a
      BY <1>1, <1>10, <2>1, <2>2, <3>1
    <3>2. CASE f # a
      BY <1>10, <2>1, <2>2, <3>2 DEF LibraryInv, LibraryOrigins
    <3>. QED  BY <3>1, <3>2
  <2>. QED  BY <2>2 DEF LibraryOrigins
<1>13. \A b \in Li!Articles : Li!Forks(b)' = IF b = o THEN Li!Forks(b) \cup {a} ELSE Li!Forks(b)
  BY <1>1, <1>5, <1>10 DEF Li!Forks
<1>14. ASSUME NEW b \in Li!Articles, Li!Exists(b)'
       PROVE  /\ liRow'[b].forks <= Cardinality(Li!Forks(b)')
              /\ b \notin liDropped => liRow'[b].forks = Cardinality(Li!Forks(b)')
  <2>1. CASE b = a
    <3>1. Li!Forks(b)' = Li!Forks(b) /\ liRow'[b].forks = 0
      BY <1>2, <1>3, <1>9, <1>13, <2>1
    <3>2. b \notin liDropped => Li!Forks(b) = {}
      <4>1. \A f \in Li!Articles : liRow[f].origin = a => LibraryWas(a)
        BY <1>1 DEF LibraryInv, LibraryOrigins
      <4>. QED  BY <1>5, <2>1, <4>1 DEF LibraryWas, Li!Exists, Li!Forks
    <3>. QED  BY <1>6, <3>1, <3>2, FS_EmptySet
  <2>2. CASE b = o
    <3>1. liRow[b] # Li!NoRow /\ liRow'[b].forks = liRow[b].forks + 1 /\ liRow[b].forks \in Nat
      BY <1>1, <1>9, <1>10, <1>14, <2>2 DEF Li!Exists, Li!Row
    <3>2. Cardinality(Li!Forks(b)') = Cardinality(Li!Forks(b)) + 1
      BY <1>6, <1>13, <2>2, FS_AddElement
    <3>. QED  BY <1>6, <3>1, <3>2 DEF LibraryInv, LibraryCounts, Li!Exists
  <2>3. CASE b # a /\ b # o
    <3>1. liRow'[b] = liRow[b] /\ Li!Forks(b)' = Li!Forks(b) /\ Li!Exists(b)
      BY <1>3, <1>9, <1>10, <1>13, <1>14, <2>3
    <3>. QED  BY <3>1 DEF LibraryInv, LibraryCounts
  <2>. QED  BY <2>1, <2>2, <2>3
<1>. QED  BY <1>9, <1>10, <1>11, <1>12, <1>14 DEF LibraryCounts

(* A row goes, and the article it is a fork of counts one less.            *)
LEMMA LibraryRowRemoved ==
  ASSUME Li!LibraryParams, LibraryInv, NEW a \in Li!Articles, Li!Exists(a),
         liRow' = Li!Counted([liRow EXCEPT ![a] = Li!NoRow], liRow[a].origin, -1),
         liDropped' = liDropped \cup {a}
  PROVE  /\ liRow' \in [Li!Articles -> Li!Row] /\ LibraryCounts' /\ LibraryOrigins' /\ LibraryLive'
         /\ \A b \in Li!Articles : Li!Exists(b)' <=> Li!Exists(b) /\ b # a
<1> DEFINE o == liRow[a].origin
           rows == [liRow EXCEPT ![a] = Li!NoRow]
<1>1. liRow \in [Li!Articles -> Li!Row] /\ MaxArticles \in Nat /\ Li!NoArticle \notin Li!Articles
  BY LibraryFinite DEF LibraryInv, Li!TypeOK
<1>2. o \in Li!Articles \cup {Li!NoArticle} /\ o # a
  BY <1>1 DEF LibraryInv, LibraryOrigins, Li!Row
<1>3. rows \in [Li!Articles -> Li!Row] /\ rows[a] = Li!NoRow /\ \A b \in Li!Articles \ {a} : rows[b] = liRow[b]
  BY <1>1, LibraryNoRowTyped
<1>4. liRow' = Li!Counted(rows, o, -1)
  OBVIOUS
<1>5. \A b \in Li!Articles : IsFiniteSet(Li!Forks(b)) /\ Cardinality(Li!Forks(b)) \in 0 .. MaxArticles
  BY <1>1, LibraryFinite DEF Li!Forks
<1>6. o # Li!NoArticle => rows[o] = liRow[o] /\ (rows[o] = Li!NoRow \/ rows[o].status # "none")
  BY <1>1, <1>2, <1>3 DEF LibraryInv, LibraryLive, Li!Exists
<1>. HIDE DEF rows, o
<1>7. /\ liRow' \in [Li!Articles -> Li!Row]
      /\ \A b \in Li!Articles \ {o} : liRow'[b] = rows[b]
      /\ o # Li!NoArticle /\ liRow[o] = Li!NoRow => liRow'[o] = Li!NoRow
      /\ o # Li!NoArticle /\ liRow[o] # Li!NoRow =>
              /\ liRow'[o] # Li!NoRow /\ liRow'[o].status = liRow[o].status
              /\ liRow'[o].origin = liRow[o].origin
              /\ liRow'[o].forks = IF liRow[o].forks - 1 < 0 THEN 0 ELSE liRow[o].forks - 1
  <2>1. o # Li!NoArticle /\ liRow[o] # Li!NoRow => liRow[o].forks \in 0 .. MaxArticles
    BY <1>1, <1>2 DEF Li!Row
  <2>2. o # Li!NoArticle /\ rows[o] # Li!NoRow => rows[o].forks + (-1) <= MaxArticles
    BY <1>1, <1>6, <2>1
  <2>3. -1 \in {-1, 1}
    OBVIOUS
  <2>4. o # Li!NoArticle /\ liRow[o] # Li!NoRow => rows[o].forks + (-1) = liRow[o].forks - 1
    BY <1>6, <2>1
  <2>5. LET new == Li!Counted(rows, o, -1) IN
         /\ new \in [Li!Articles -> Li!Row]
         /\ \A b \in Li!Articles \ {o} : new[b] = rows[b]
         /\ o # Li!NoArticle /\ rows[o] = Li!NoRow => new[o] = Li!NoRow
         /\ o # Li!NoArticle /\ rows[o] # Li!NoRow =>
              /\ new[o] # Li!NoRow /\ new[o].status = rows[o].status
              /\ new[o].origin = rows[o].origin
              /\ new[o].forks = IF rows[o].forks + (-1) < 0 THEN 0 ELSE rows[o].forks + (-1)
    <3>1. o # Li!NoArticle => rows[o] = Li!NoRow \/ rows[o].status # "none"
      BY <1>6
    <3>. QED  BY ONLY Li!LibraryParams, <1>2, <1>3, <2>2, <2>3, <3>1, LibraryCountedRow
  <2>. QED  BY <1>4, <1>6, <2>4, <2>5
<1>8. \A b \in Li!Articles :
         /\ liRow'[b].origin = IF b = a THEN Li!NoArticle ELSE liRow[b].origin
         /\ Li!Exists(b)' <=> Li!Exists(b) /\ b # a
  BY <1>1, <1>2, <1>3, <1>7, LibraryNoRowTyped DEF Li!Exists
<1>9. LibraryLive'
  <2>1. ASSUME NEW b \in Li!Articles, Li!Exists(b)' PROVE liRow'[b].status # "none"
    <3>1. Li!Exists(b) /\ b # a /\ liRow[b].status # "none"
      BY <1>8, <2>1 DEF LibraryInv, LibraryLive
    <3>. QED  BY <1>1, <1>3, <1>7, <3>1 DEF Li!Exists
  <2>. QED  BY <2>1 DEF LibraryLive
<1>10. LibraryOrigins'
  <2>1. \A b \in Li!Articles : LibraryWas(b) => LibraryWas(b)'
    BY <1>8 DEF LibraryWas
  <2>2. ASSUME NEW f \in Li!Articles, NEW p \in Li!Articles, liRow'[f].origin = p
        PROVE  p # f /\ LibraryWas(p)'
    <3>1. liRow[f].origin = p
      BY <1>1, <1>8, <2>2
    <3>. QED  BY <2>1, <3>1 DEF LibraryInv, LibraryOrigins
  <2>. QED  BY <2>2 DEF LibraryOrigins
<1>11. \A b \in Li!Articles : Li!Forks(b)' = IF b = o THEN Li!Forks(b) \ {a} ELSE Li!Forks(b)
  BY <1>1, <1>8 DEF Li!Forks, o
<1>12. o \in Li!Articles => a \in Li!Forks(o)
  BY DEF Li!Forks, o
<1>13. ASSUME NEW b \in Li!Articles, Li!Exists(b)'
       PROVE  /\ liRow'[b].forks <= Cardinality(Li!Forks(b)')
              /\ b \notin liDropped' => liRow'[b].forks = Cardinality(Li!Forks(b)')
  <2>1. Li!Exists(b) /\ b # a
    BY <1>8, <1>13
  <2>2. CASE b = o
    <3>1. /\ liRow[b].forks \in Nat
          /\ liRow'[b].forks = IF liRow[b].forks - 1 < 0 THEN 0 ELSE liRow[b].forks - 1
      <4>1. liRow[b] # Li!NoRow /\ liRow[b] \in Li!Row
        BY <1>1, <2>1 DEF Li!Exists
      <4>2. liRow[b].forks \in 0 .. MaxArticles
        BY <4>1 DEF Li!Row
      <4>3. o # Li!NoArticle /\ liRow[o] # Li!NoRow
        BY <1>1, <2>2, <4>1
      <4>. QED  BY <1>1, <1>7, <2>2, <4>2, <4>3
    <3>2. Cardinality(Li!Forks(b)') = Cardinality(Li!Forks(b)) - 1
      BY <1>5, <1>11, <1>12, <2>2, FS_RemoveElement
    <3>3. Cardinality(Li!Forks(b)') \in Nat
      BY <1>5, <1>11, <2>2, FS_RemoveElement, FS_CardinalityType
    <3>. QED  BY <1>5, <2>1, <3>1, <3>2, <3>3 DEF LibraryInv, LibraryCounts
  <2>3. CASE b # o
    <3>1. liRow'[b] = liRow[b] /\ Li!Forks(b)' = Li!Forks(b)
      BY <1>3, <1>7, <1>11, <2>1, <2>3
    <3>. QED  BY <2>1, <3>1 DEF LibraryInv, LibraryCounts
  <2>. QED  BY <2>2, <2>3
<1>. QED  BY <1>7, <1>8, <1>9, <1>10, <1>13 DEF LibraryCounts

-----------------------------------------------------------------------------
(* Steps that leave the rows what they are forks of, and how many they count. *)
LEMMA LibrarySameForks ==
  ASSUME LibraryInv, liRow' \in [Li!Articles -> Li!Row], UNCHANGED <<liDropped, liForking>>,
         \A a \in Li!Articles :
           /\ Li!Exists(a)' <=> Li!Exists(a)
           /\ liRow'[a].origin = liRow[a].origin /\ liRow'[a].forks = liRow[a].forks
           /\ Li!Exists(a) => liRow'[a].status # "none",
         liUsed' = liUsed
  PROVE  LibraryLive' /\ LibraryOrigins' /\ LibraryFresh' /\ LibraryPending' /\ LibraryCounts'
<1>1. \A a \in Li!Articles : Li!Forks(a)' = Li!Forks(a) /\ (LibraryWas(a)' <=> LibraryWas(a))
  BY DEF Li!Forks, LibraryWas
<1>2. liForking \subseteq [by : Users, from : Li!Articles, to : Li!Articles, authors : SUBSET Users]
  BY DEF LibraryInv, Li!TypeOK
<1>3. LibraryLive' /\ LibraryOrigins' /\ LibraryFresh'
  BY <1>1 DEF LibraryInv, LibraryLive, LibraryOrigins, LibraryFresh
<1>4. LibraryPending'
  BY <1>1, <1>2 DEF LibraryInv, LibraryPending
<1>5. LibraryCounts'
  BY <1>1 DEF LibraryInv, LibraryCounts
<1>. QED  BY <1>3, <1>4, <1>5

LEMMA LibraryRefSteps ==
  ASSUME LibraryInv, NEW u \in Users, NEW a \in Li!Articles,
         \/ Li!Bookmark(u, a) \/ Li!Unbookmark(u, a) \/ Li!Share(u, a) \/ Li!Unshare(u, a)
         \/ Li!Notify(u, a) \/ Li!MarkRead(u, a)
  PROVE  LibraryInv'
<1>1. UNCHANGED <<liRow, liMids, liForking, liUsed, liDropped>>
  BY DEF Li!Bookmark, Li!Unbookmark, Li!Share, Li!Unshare, Li!Notify, Li!MarkRead
<1>2. /\ liSaved' \subseteq Users \X Li!Articles /\ liShared' \subseteq Users \X Li!Articles
      /\ liNotes' \subseteq Users \X Li!Articles \X {"read", "unread"}
  BY DEF Li!Bookmark, Li!Unbookmark, Li!Share, Li!Unshare, Li!Notify, Li!MarkRead, LibraryInv, Li!TypeOK
<1>3. Li!TypeOK'
  BY <1>1, <1>2 DEF LibraryInv, Li!TypeOK
<1>4. \A a2 \in Li!Articles : Li!Exists(a2)' <=> Li!Exists(a2)
  BY <1>1 DEF Li!Exists
<1>. QED  BY <1>1, <1>3, <1>4, LibrarySameForks DEF LibraryInv, Li!TypeOK, LibraryLive

LEMMA LibraryStatusStep == ASSUME Li!LibraryParams, LibraryInv, NEW a \in Li!Articles, Li!SetStatus(a) PROVE LibraryInv'
<1>1. PICK status \in Li!Turns(liRow[a].status) : liRow' = [liRow EXCEPT ![a].status = status]
  BY DEF Li!SetStatus
<1>2. liRow[a] \in Li!Row /\ liRow \in [Li!Articles -> Li!Row]
  BY DEF LibraryInv, Li!TypeOK
<1>3. status \in {"sedimentation", "published", "rejected"} /\ liRow[a].status # "none"
  BY DEF Li!Turns
<1> DEFINE r == [liRow[a] EXCEPT !.status = status]
<1>4. r \in Li!Row /\ r.status = status /\ r.origin = liRow[a].origin /\ r.forks = liRow[a].forks
  BY <1>2, <1>3 DEF Li!Row, Li!Statuses
<1>5. liRow' = [liRow EXCEPT ![a] = r]
  BY <1>1
<1>. HIDE DEF r
<1>6. liRow' \in [Li!Articles -> Li!Row]
  BY <1>2, <1>4, <1>5
<1>7. r # Li!NoRow /\ liRow[a] # Li!NoRow
  BY <1>3, <1>4, LibraryNoRowTyped
<1>8. \A b \in Li!Articles :
        /\ Li!Exists(b)' <=> Li!Exists(b)
        /\ liRow'[b].origin = liRow[b].origin /\ liRow'[b].forks = liRow[b].forks
        /\ Li!Exists(b) => liRow'[b].status # "none"
  BY <1>2, <1>3, <1>4, <1>5, <1>7 DEF Li!Exists, LibraryInv, LibraryLive
<1>9. UNCHANGED <<liMids, liSaved, liShared, liNotes, liForking, liUsed, liDropped>>
  BY DEF Li!SetStatus, Li!refs
<1>10. Li!TypeOK'
  BY <1>6, <1>9 DEF LibraryInv, Li!TypeOK
<1>. QED  BY <1>6, <1>8, <1>9, <1>10, LibrarySameForks DEF LibraryInv

LEMMA LibraryNewRowSteps ==
  ASSUME Li!LibraryParams, LibraryInv, NEW a \in Li!Articles, NEW u \in Users,
         Li!Create(u, a) \/ \E status \in Hearsay, stub \in BOOLEAN : Li!Ingest(a, u, status, stub)
  PROVE  LibraryInv'
<1>1. PICK status \in Li!Statuses, stub \in BOOLEAN :
        liRow' = Li!Added(a, Li!NoArticle, {u}, status, stub)
  BY DEF Li!Create, Li!Ingest, Li!LibraryParams, Li!Statuses
<1>2. liRow' = Li!Counted(Li!Added(a, Li!NoArticle, {u}, status, stub), Li!NoArticle, 1)
  BY <1>1 DEF Li!Counted
<1>3. ~Li!Exists(a) /\ (a \in liDropped \/ a = liUsed + 1) /\ liUsed \in 0 .. MaxArticles
  <2>1. liUsed \in 0 .. MaxArticles /\ liUsed \in Nat /\ a \in Nat
    BY LibraryFinite DEF LibraryInv, Li!TypeOK
  <2>2. a = liUsed + 1 => ~LibraryWas(a)
    BY <2>1 DEF LibraryInv, LibraryFresh
  <2>. QED  BY <2>1, <2>2 DEF Li!Create, Li!Ingest, LibraryWas
<1>4. /\ UNCHANGED <<liSaved, liShared, liNotes, liForking, liDropped>>
      /\ liMids' \in [Li!Articles -> SUBSET Users]
  BY DEF Li!Create, Li!Ingest, Li!refs, LibraryInv, Li!TypeOK
<1>5. liUsed' = (IF a > liUsed THEN a ELSE liUsed) /\ a \in 1 .. MaxArticles /\ MaxArticles \in Nat
  <2>1. a \in 1 .. MaxArticles /\ MaxArticles \in Nat
    BY LibraryFinite DEF Li!Articles
  <2>2. CASE Li!Create(u, a)
    BY <1>3, <2>1, <2>2 DEF Li!Create
  <2>3. CASE \E s \in Hearsay, t \in BOOLEAN : Li!Ingest(a, u, s, t)
    BY <2>1, <2>3 DEF Li!Ingest
  <2>. QED  BY <2>1, <2>2, <2>3
<1>6. /\ liRow' \in [Li!Articles -> Li!Row] /\ LibraryCounts' /\ LibraryOrigins' /\ LibraryLive'
      /\ \A b \in Li!Articles : Li!Exists(b)' <=> Li!Exists(b) \/ b = a
  BY <1>2, <1>3, <1>4, LibraryFinite, LibraryRowAdded
<1>7. Li!TypeOK'
  BY <1>3, <1>4, <1>5, <1>6 DEF LibraryInv, Li!TypeOK
<1>8. LibraryFresh'
  BY <1>3, <1>4, <1>5, <1>6, LibraryFinite DEF LibraryInv, LibraryFresh, LibraryWas, Li!Articles
<1>9. LibraryPending'
  <2>1. liForking \subseteq [by : Users, from : Li!Articles, to : Li!Articles, authors : SUBSET Users]
    BY DEF LibraryInv, Li!TypeOK
  <2>2. ASSUME NEW j \in liForking PROVE j.to # a
    <3>1. CASE a \in liDropped
      BY <3>1 DEF LibraryInv, LibraryPending, LibraryWas
    <3>2. CASE a = liUsed + 1
      BY <1>3, <2>1, <3>2, LibraryFinite DEF LibraryInv, LibraryPending
    <3>. QED  BY <1>3, <3>1, <3>2
  <2>3. liUsed <= liUsed' /\ liUsed \in Nat /\ liUsed' \in Nat
    BY <1>3, <1>5
  <2>4. \A b \in Li!Articles : (LibraryWas(b) => LibraryWas(b)') /\ (b # a /\ LibraryWas(b)' => LibraryWas(b))
    BY <1>4, <1>6 DEF LibraryWas
  <2>5. ASSUME NEW j \in liForking
        PROVE  j.to <= liUsed' /\ ~LibraryWas(j.to)' /\ LibraryWas(j.from)'
    BY <2>1, <2>2, <2>3, <2>4, LibraryFinite DEF LibraryInv, LibraryPending
  <2>. QED  BY <1>4, <2>5 DEF LibraryInv, LibraryPending
<1>. QED  BY <1>6, <1>7, <1>8, <1>9 DEF LibraryInv

LEMMA LibraryForkBeginStep ==
  ASSUME Li!LibraryParams, LibraryInv, NEW u \in Users, NEW a \in Li!Articles, NEW f \in Li!Articles,
         Li!ForkBegin(u, a, f)
  PROVE  LibraryInv'
<1> DEFINE j == [by |-> u, from |-> a, to |-> f, authors |-> liRow[a].authors \cup {u}]
<1>1. /\ Li!Exists(a) /\ f = liUsed + 1 /\ liUsed' = f /\ liForking' = liForking \cup {j}
      /\ UNCHANGED <<liRow, liMids, liSaved, liShared, liNotes, liDropped>>
  BY DEF Li!ForkBegin, Li!refs
<1>2. liUsed \in 0 .. MaxArticles /\ liUsed \in Nat /\ f \in 1 .. MaxArticles
  BY LibraryFinite DEF LibraryInv, Li!TypeOK, Li!Articles
<1>3. f > liUsed /\ ~LibraryWas(f) /\ LibraryWas(a) /\ a # f
  <2>1. f > liUsed /\ ~LibraryWas(f)
    BY <1>1, <1>2 DEF LibraryInv, LibraryFresh
  <2>. QED  BY <1>1, <2>1 DEF LibraryWas
<1>4. \A b \in Li!Articles : /\ LibraryWas(b)' <=> LibraryWas(b)
                             /\ Li!Exists(b)' <=> Li!Exists(b)
                             /\ Li!Forks(b)' = Li!Forks(b)
  BY <1>1 DEF LibraryWas, Li!Exists, Li!Forks
<1>5. j \in [by : Users, from : Li!Articles, to : Li!Articles, authors : SUBSET Users]
      /\ j.from = a /\ j.to = f
  BY DEF LibraryInv, Li!TypeOK, Li!Row
<1>. HIDE DEF j
<1>6. liForking \subseteq [by : Users, from : Li!Articles, to : Li!Articles, authors : SUBSET Users]
  BY DEF LibraryInv, Li!TypeOK
<1>7. Li!TypeOK'
  BY <1>1, <1>2, <1>5, <1>6 DEF LibraryInv, Li!TypeOK
<1>8. LibraryLive' /\ LibraryOrigins' /\ LibraryCounts'
  BY <1>1, <1>4 DEF LibraryInv, LibraryLive, LibraryOrigins, LibraryCounts
<1>9. LibraryFresh'
  BY <1>1, <1>2, <1>4, LibraryFinite DEF LibraryInv, LibraryFresh
<1>10. LibraryPending'
  <2>1. ASSUME NEW k \in liForking PROVE k.to <= liUsed /\ k.to \in Nat /\ k.to # f
    <3>1. k.to \in Nat /\ k.to <= liUsed
      BY <1>6, LibraryFinite DEF LibraryInv, LibraryPending
    <3>. QED  BY <1>2, <1>3, <3>1
  <2>2. ASSUME NEW k \in liForking'
        PROVE  k.to <= liUsed' /\ ~LibraryWas(k.to)' /\ k.from # k.to /\ LibraryWas(k.from)'
    <3>1. CASE k = j
      BY <1>1, <1>2, <1>3, <1>4, <1>5, <3>1
    <3>2. CASE k \in liForking
      <4>1. k.to <= liUsed' /\ k.to \in Li!Articles /\ k.from \in Li!Articles
        BY <1>1, <1>2, <1>6, <2>1, <3>2
      <4>. QED  BY <1>4, <3>2, <4>1 DEF LibraryInv, LibraryPending
    <3>. QED  BY <1>1, <2>2, <3>1, <3>2
  <2>3. \A k, l \in liForking' : k.to = l.to => k = l
    BY <1>1, <1>5, <2>1 DEF LibraryInv, LibraryPending
  <2>. QED  BY <2>2, <2>3 DEF LibraryPending
<1>. QED  BY <1>7, <1>8, <1>9, <1>10 DEF LibraryInv

LEMMA LibraryForkLostStep == ASSUME LibraryInv, NEW j \in liForking, Li!ForkLost(j) PROVE LibraryInv'
<1>1. /\ liForking' \subseteq liForking
      /\ UNCHANGED <<liRow, liMids, liSaved, liShared, liNotes, liUsed, liDropped>>
  BY DEF Li!ForkLost, Li!refs
<1>2. \A b \in Li!Articles : (LibraryWas(b)' <=> LibraryWas(b)) /\ (Li!Exists(b)' <=> Li!Exists(b)) /\ Li!Forks(b)' = Li!Forks(b)
  BY <1>1 DEF LibraryWas, Li!Exists, Li!Forks
<1>3. liForking \subseteq [by : Users, from : Li!Articles, to : Li!Articles, authors : SUBSET Users]
  BY DEF LibraryInv, Li!TypeOK
<1>4. LibraryPending'
  BY <1>1, <1>2, <1>3 DEF LibraryInv, LibraryPending
<1>5. Li!TypeOK'
  BY <1>1 DEF LibraryInv, Li!TypeOK
<1>. QED  BY <1>1, <1>2, <1>4, <1>5 DEF LibraryInv, LibraryLive, LibraryOrigins, LibraryFresh, LibraryCounts

LEMMA LibraryForkStoreStep == ASSUME Li!LibraryParams, LibraryInv, NEW j \in liForking, Li!ForkStore(j) PROVE LibraryInv'
<1> DEFINE a == j.to
<1>1. liForking \subseteq [by : Users, from : Li!Articles, to : Li!Articles, authors : SUBSET Users]
  BY DEF LibraryInv, Li!TypeOK
<1>2. /\ a \in Li!Articles /\ j.from \in Li!Articles /\ j.authors \in SUBSET Users /\ j.by \in Users
      /\ j.from # a /\ LibraryWas(j.from) /\ ~LibraryWas(a) /\ a <= liUsed
      /\ \A k \in liForking \ {j} : k.to # a
  BY <1>1 DEF LibraryInv, LibraryPending
<1>3. /\ liRow' = Li!Counted(Li!Added(a, j.from, j.authors, "draft", FALSE), j.from, 1)
      /\ liMids' = [liMids EXCEPT ![a] = {j.by}] /\ liForking' = liForking \ {j}
      /\ UNCHANGED <<liSaved, liShared, liNotes, liUsed, liDropped>>
  BY DEF Li!ForkStore, Li!refs
<1>. HIDE DEF a
<1>4. "draft" \in Li!Statuses /\ FALSE \in BOOLEAN /\ ~Li!Exists(a)
  BY <1>2 DEF Li!Statuses, LibraryWas
<1>5. /\ liRow' \in [Li!Articles -> Li!Row] /\ LibraryCounts' /\ LibraryOrigins' /\ LibraryLive'
      /\ \A b \in Li!Articles : Li!Exists(b)' <=> Li!Exists(b) \/ b = a
  BY <1>2, <1>3, <1>4, LibraryRowAdded
<1>6. Li!TypeOK'
  BY <1>2, <1>3, <1>5 DEF LibraryInv, Li!TypeOK
<1>7. \A b \in Li!Articles : (LibraryWas(b) => LibraryWas(b)') /\ (b # a /\ LibraryWas(b)' => LibraryWas(b))
  BY <1>3, <1>5 DEF LibraryWas
<1>8. LibraryFresh'
  <2>1. liUsed \in Nat /\ Li!Articles \subseteq Nat
    BY LibraryFinite DEF LibraryInv, Li!TypeOK
  <2>. QED  BY <1>2, <1>3, <1>7, <2>1 DEF LibraryInv, LibraryFresh
<1>9. LibraryPending'
  BY <1>1, <1>2, <1>3, <1>7 DEF LibraryInv, LibraryPending
<1>. QED  BY <1>5, <1>6, <1>8, <1>9 DEF LibraryInv

LEMMA LibraryDeleteStep ==
  ASSUME Li!LibraryParams, LibraryInv, NEW u \in Users, NEW a \in Li!Articles, Li!Delete(u, a)
  PROVE  LibraryInv'
<1>1. /\ liRow' = Li!Counted([liRow EXCEPT ![a] = Li!NoRow], liRow[a].origin, -1)
      /\ liDropped' = liDropped \cup {a} /\ UNCHANGED <<liShared, liNotes, liForking, liUsed>>
      /\ liMids' = [liMids EXCEPT ![a] = {}] /\ liSaved' \subseteq liSaved
  BY DEF Li!Delete
<1>2. Li!Exists(a)
  BY LibraryNoRowTyped DEF Li!Delete, Li!Exists
<1>3. /\ liRow' \in [Li!Articles -> Li!Row] /\ LibraryCounts' /\ LibraryOrigins' /\ LibraryLive'
      /\ \A b \in Li!Articles : Li!Exists(b)' <=> Li!Exists(b) /\ b # a
  BY <1>1, <1>2, LibraryRowRemoved
<1>4. Li!TypeOK'
  BY <1>1, <1>3 DEF LibraryInv, Li!TypeOK
<1>5. \A b \in Li!Articles : LibraryWas(b)' <=> LibraryWas(b)
  BY <1>1, <1>2, <1>3 DEF LibraryWas
<1>6. liForking \subseteq [by : Users, from : Li!Articles, to : Li!Articles, authors : SUBSET Users]
  BY DEF LibraryInv, Li!TypeOK
<1>7. LibraryFresh' /\ LibraryPending'
  BY <1>1, <1>5, <1>6 DEF LibraryInv, LibraryFresh, LibraryPending
<1>. QED  BY <1>3, <1>4, <1>7 DEF LibraryInv

LEMMA LibraryNextInv == ASSUME Li!LibraryParams, LibraryInv, [Li!Next]_Li!vars PROVE LibraryInv'
<1>1. CASE UNCHANGED Li!vars
  <2>1. UNCHANGED <<liRow, liMids, liSaved, liShared, liNotes, liForking, liUsed, liDropped>>
    BY <1>1 DEF Li!vars, Li!refs
  <2>2. Li!TypeOK' /\ \A b \in Li!Articles : Li!Exists(b)' <=> Li!Exists(b)
    BY <2>1 DEF LibraryInv, Li!TypeOK, Li!Exists
  <2>. QED  BY <2>1, <2>2, LibrarySameForks DEF LibraryInv, Li!TypeOK, LibraryLive
<1>2. ASSUME NEW a \in Li!Articles, Li!SetStatus(a) PROVE LibraryInv'
  BY <1>2, LibraryStatusStep
<1>3. ASSUME NEW a \in Li!Articles, NEW u \in Users \ Locals, NEW status \in Hearsay,
             NEW stub \in BOOLEAN, Li!Ingest(a, u, status, stub)
      PROVE  LibraryInv'
  BY <1>3, LibraryNewRowSteps
<1>4. ASSUME NEW a \in Li!Articles, NEW u \in Locals,
             \/ Li!Create(u, a) \/ Li!Delete(u, a) \/ \E f \in Li!Articles : Li!ForkBegin(u, a, f)
             \/ Li!Bookmark(u, a) \/ Li!Unbookmark(u, a) \/ Li!Share(u, a) \/ Li!Unshare(u, a)
             \/ Li!Notify(u, a) \/ Li!MarkRead(u, a)
      PROVE  LibraryInv'
  <2>1. u \in Users
    BY DEF Li!LibraryParams
  <2>. QED  BY <1>4, <2>1, LibraryNewRowSteps, LibraryDeleteStep, LibraryForkBeginStep, LibraryRefSteps
<1>5. ASSUME NEW j \in liForking, Li!ForkStore(j) \/ Li!ForkLost(j) PROVE LibraryInv'
  BY <1>5, LibraryForkStoreStep, LibraryForkLostStep
<1>. QED  BY <1>1, <1>2, <1>3, <1>4, <1>5 DEF Li!Next

-----------------------------------------------------------------------------
(* Behaviours of Library, and what they are within those of the parts.     *)
LEMMA LibraryAlone == Spec => Li!Init /\ [][Li!Next]_(Li!vars)
<1>1. Init => Li!Init
  BY DEF Init
<1>2. Next => Li!Next \/ liVars' = liVars
  BY DEF Next
<1>3. vars' = vars => liVars' = liVars
  BY DEF vars
<1>4. liVars' = liVars => UNCHANGED Li!vars
  BY DEF liVars, Li!vars, Li!refs
<1>5. [Next]_vars => [Li!Next]_(Li!vars)
  BY <1>2, <1>3, <1>4
<1>. QED  BY <1>1, <1>5, PTL DEF Spec

LEMMA LibraryAlways == Li!Init /\ [][Li!Next]_(Li!vars) => []LibraryInv
<1>1. Li!LibraryParams
  BY PartParams DEF PartParams
<1>2. Li!Init => LibraryInv
  BY <1>1, LibraryInitInv
<1>3. LibraryInv /\ [Li!Next]_(Li!vars) => LibraryInv'
  BY <1>1, LibraryNextInv
<1>. QED  BY <1>2, <1>3, PTL

(* The types hold in every state; that a count stays in its range is the      *)
(* matter of the next theorem.                                             *)
THEOREM LibraryTypes == (Li!Spec => []Li!TypeOK) /\ (Spec => []Li!TypeOK)
<1>1. LibraryInv => Li!TypeOK
  BY DEF LibraryInv
<1>. QED  BY <1>1, LibraryAlways, LibraryAlone, PTL DEF Li!Spec

(* For any users, articles and forks under way: the counts of forks that are  *)
(* kept by hand are the numbers of forks, and those of an article that was    *)
(* deleted and heard of again are never more (increment_fork_count,          *)
(* decrement_fork_count).                                                  *)
THEOREM ForksAreCounted ==
  (Li!Spec => []Li!CountsAreForks) /\ (Spec => []CountsAreForks)
<1>1. \A S : Li!Cardinality(S) = Cardinality(S)
  BY DEF Li!Cardinality, Cardinality
<1>2. LibraryInv => Li!CountsAreForks
  BY <1>1 DEF LibraryInv, LibraryCounts, Li!CountsAreForks
<1>3. Li!CountsAreForks => CountsAreForks
  BY DEF CountsAreForks
<1>. QED  BY <1>2, <1>3, LibraryAlways, LibraryAlone, PTL DEF Li!Spec

-----------------------------------------------------------------------------
(* List comprehensions.  Each rank is that of a place, and no other's.      *)
LEMMA KeptPlaces ==
  ASSUME NEW m \in Nat, NEW at \in SUBSET (1 .. m)
  PROVE  /\ IsFiniteSet(at) /\ Cardinality(at) \in Nat /\ Cardinality(at) <= m
         /\ \A n \in 1 .. Cardinality(at) : \E i \in at : Place(at, i) = n
<1> DEFINE Below(i) == {j \in at : j <= i}
<1>1. IsFiniteSet(at) /\ Cardinality(at) \in Nat /\ Cardinality(at) <= m
  <2>1. IsFiniteSet(1 .. m) /\ Cardinality(1 .. m) = m
    BY FS_Interval
  <2>2. IsFiniteSet(at) /\ Cardinality(at) <= Cardinality(1 .. m)
    BY <2>1, FS_Subset
  <2>. QED  BY <2>1, <2>2, FS_CardinalityType
<1>2. ASSUME NEW i \in at
      PROVE  IsFiniteSet(Below(i)) /\ Place(at, i) \in 1 .. Cardinality(at)
  <2>1. Below(i) \in SUBSET at /\ i \in Below(i)
    OBVIOUS
  <2>2. IsFiniteSet(Below(i)) /\ Cardinality(Below(i)) <= Cardinality(at)
    BY <1>1, <2>1, FS_Subset
  <2>3. Cardinality(Below(i)) \in Nat /\ Cardinality(Below(i)) # 0
    BY <2>1, <2>2, FS_CardinalityType, FS_EmptySet
  <2>. QED  BY <1>1, <2>2, <2>3 DEF Place
<1>3. ASSUME NEW i \in at, NEW k \in at, i < k PROVE Place(at, i) # Place(at, k)
  <2>1. i \in Int /\ k \in Int /\ at \subseteq Int
    OBVIOUS
  <2>2. \A j \in at : j <= i => j <= k
    BY <1>3, <2>1
  <2>3. Below(i) \in SUBSET Below(k) /\ k \in Below(k) /\ k \notin Below(i)
    <3>1. ~ (k <= i) /\ k <= k
      BY <1>3, <2>1
    <3>. QED  BY <2>2, <3>1
  <2>4. Cardinality(Below(k)) = Cardinality(Below(i)) => Below(k) = Below(i)
    BY <1>2, <2>3, FS_Subset
  <2>. QED  BY <2>3, <2>4 DEF Place
<1>4. PICK f \in [at -> 1 .. Cardinality(at)] : \A i \in at : f[i] = Place(at, i)
  <2>1. [i \in at |-> Place(at, i)] \in [at -> 1 .. Cardinality(at)]
    BY <1>2
  <2>. QED  BY <2>1
<1>5. \A i, k \in at : f[i] = f[k] => i = k
  <2>1. \A i, k \in at : i = k \/ i < k \/ k < i
    OBVIOUS
  <2>. QED  BY <1>3, <1>4, <2>1
<1>6. f \in Injection(at, 1 .. Cardinality(at))
  BY <1>4, <1>5 DEF Injection, IsInjective
<1>7. IsFiniteSet(1 .. Cardinality(at)) /\ Cardinality(1 .. Cardinality(at)) = Cardinality(at)
  BY <1>1, FS_Interval
<1>8. f \in Surjection(at, 1 .. Cardinality(at))
  BY <1>6, <1>7, FS_Injection
<1>9. \A n \in 1 .. Cardinality(at) : \E i \in at : f[i] = n
  BY <1>8 DEF Surjection
<1>. QED  BY <1>1, <1>4, <1>9

(* What is kept are the items at these places.                              *)
LEMMA KeptItems ==
  ASSUME NEW S, NEW list \in Seq(S), NEW at \in SUBSET (DOMAIN list)
  PROVE  /\ IsFiniteSet(at) /\ Kept(list, at) \in Seq(S) /\ Len(Kept(list, at)) = Cardinality(at)
         /\ Len(Kept(list, at)) \in Nat /\ Len(Kept(list, at)) <= Len(list)
         /\ DOMAIN Kept(list, at) = 1 .. Cardinality(at)
         /\ \A n \in DOMAIN Kept(list, at) : \E i \in at : Kept(list, at)[n] = list[i]
<1>1. Len(list) \in Nat /\ DOMAIN list = 1 .. Len(list) /\ \A i \in at : list[i] \in S
  OBVIOUS
<1>2. /\ IsFiniteSet(at) /\ Cardinality(at) \in Nat /\ Cardinality(at) <= Len(list)
      /\ \A n \in 1 .. Cardinality(at) : \E i \in at : Place(at, i) = n
  BY <1>1, KeptPlaces
<1>3. ASSUME NEW n \in 1 .. Cardinality(at) PROVE \E i \in at : Kept(list, at)[n] = list[i]
  <2>1. (CHOOSE i \in at : Place(at, i) = n) \in at
    BY <1>2
  <2>. QED  BY <2>1 DEF Kept
<1>4. DOMAIN Kept(list, at) = 1 .. Cardinality(at)
  BY DEF Kept
<1>5. Kept(list, at) \in [1 .. Cardinality(at) -> S]
  <2>1. \A n \in 1 .. Cardinality(at) : Kept(list, at)[n] \in S
    BY <1>1, <1>3
  <2>2. Kept(list, at) = [n \in 1 .. Cardinality(at) |-> Kept(list, at)[n]]
    BY DEF Kept
  <2>. QED  BY <2>1, <2>2
<1>6. Kept(list, at) \in Seq(S) /\ Len(Kept(list, at)) = Cardinality(at)
  BY <1>2, <1>5
<1>. QED  BY <1>2, <1>3, <1>4, <1>6

(* Two items that are kept come from two places.                            *)
LEMMA KeptApart ==
  ASSUME NEW S, NEW list \in Seq(S), NEW at \in SUBSET (DOMAIN list),
         NEW n \in DOMAIN Kept(list, at), NEW m \in DOMAIN Kept(list, at), n # m
  PROVE  \E i, k \in at : i # k /\ Kept(list, at)[n] = list[i] /\ Kept(list, at)[m] = list[k]
<1>1. Len(list) \in Nat /\ DOMAIN list = 1 .. Len(list)
  OBVIOUS
<1>2. \A x \in 1 .. Cardinality(at) : \E i \in at : Place(at, i) = x
  BY <1>1, KeptPlaces
<1>3. n \in 1 .. Cardinality(at) /\ m \in 1 .. Cardinality(at)
  BY DEF Kept
<1> DEFINE from(x) == CHOOSE i \in at : Place(at, i) = x
<1>4. \A x \in 1 .. Cardinality(at) : from(x) \in at /\ Place(at, from(x)) = x
  BY <1>2
<1>5. \A x \in 1 .. Cardinality(at) : Kept(list, at)[x] = list[from(x)]
  BY DEF Kept
<1>. HIDE DEF from
<1>6. from(n) # from(m)
  BY <1>3, <1>4
<1>. QED  BY <1>3, <1>4, <1>5, <1>6

-----------------------------------------------------------------------------
(* The screens of the REPL.  The focus of a page is on one of its rows, and   *)
(* unless a command is typed on it, on one that the filter leaves.          *)
ReplPages ==
  [kind : {"articles", "reviews", "school", "profile"}, about : Ui!Rows \cup {Ui!None},
   items : Seq(Ui!Rows), focus : Nat \ {0}, filter : Seq(Chars), on : {"body", "reviewer"}]

ReplFocus(page) ==
  /\ page.focus = 1 \/ page.focus <= Len(page.items)
  /\ ~Ui!IsCommand(page) => page.focus = 1 \/ page.focus <= Len(Ui!Shown(page))

ReplGood == {page \in ReplPages : Len(page.filter) <= MaxTyped /\ ReplFocus(page)}

ReplInv ==
  /\ uiRows \subseteq Viewed /\ uiBuffer \in Ui!Commands \cup {Ui!None} /\ uiMother \in BOOLEAN
  /\ uiOpened \in Ui!Rows \cup {Ui!None} /\ uiStack \in Seq(ReplGood)

LEMMA ReplKept == ASSUME NEW list, NEW at PROVE Ui!Kept(list, at) = Kept(list, at)
  BY DEF Ui!Kept, Kept, Ui!Place, Place, Ui!Cardinality, Cardinality

LEMMA ReplShown ==
  ASSUME NEW page \in ReplPages
  PROVE  /\ Ui!Shown(page) \in Seq(Ui!Rows) /\ Len(Ui!Shown(page)) \in Nat
         /\ Len(Ui!Shown(page)) <= Len(page.items) /\ Len(page.items) \in Nat
         /\ DOMAIN Ui!Shown(page) = 1 .. Len(Ui!Shown(page))
         /\ Ui!Shown(page) = <<>> <=> Len(Ui!Shown(page)) = 0
         /\ page.filter = <<>> => Ui!Shown(page) = page.items
<1>1. page.items \in Seq(Ui!Rows)
  BY DEF ReplPages
<1>2. CASE page.filter = <<>>
  BY <1>1, <1>2 DEF Ui!Shown
<1>3. CASE page.filter # <<>>
  <2> DEFINE at == {i \in DOMAIN page.items : Ui!Matches(page.items[i], page.filter)}
  <2>1. Ui!Shown(page) = Kept(page.items, at)
    BY <1>3, ReplKept DEF Ui!Shown
  <2>2. at \in SUBSET (DOMAIN page.items)
    OBVIOUS
  <2>. HIDE DEF at
  <2>3. Kept(page.items, at) \in Seq(Ui!Rows) /\ Len(Kept(page.items, at)) \in Nat
        /\ Len(Kept(page.items, at)) <= Len(page.items)
    BY <1>1, <2>2, KeptItems
  <2>. QED  BY <1>1, <1>3, <2>1, <2>3
<1>. QED  BY <1>2, <1>3

(* Longer filters leave fewer rows.                                         *)
LEMMA ReplNarrows ==
  ASSUME Ui!ReplParams, NEW page \in ReplPages, NEW other \in ReplPages, other.items = page.items,
         page.filter # <<>>, other.filter = Ui!Front(page.filter)
  PROVE  Len(Ui!Shown(page)) <= Len(Ui!Shown(other))
<1>1. page.filter \in Seq(Chars) /\ Len(page.filter) \in Nat /\ page.items \in Seq(Ui!Rows)
  BY DEF ReplPages
<1>2. /\ Len(other.filter) = Len(page.filter) - 1 /\ DOMAIN other.filter = 1 .. Len(page.filter) - 1
      /\ DOMAIN page.filter = 1 .. Len(page.filter)
      /\ \A n \in DOMAIN other.filter : n \in DOMAIN page.filter /\ other.filter[n] = page.filter[n]
  BY <1>1 DEF Ui!Front
<1>3. CASE other.filter = <<>>
  BY <1>3, ReplShown
<1>4. CASE other.filter # <<>>
  <2> DEFINE at == {i \in DOMAIN page.items : Ui!Matches(page.items[i], page.filter)}
             more == {i \in DOMAIN page.items : Ui!Matches(page.items[i], other.filter)}
  <2>1. ASSUME NEW item, Ui!Matches(item, page.filter) PROVE Ui!Matches(item, other.filter)
    <3>1. item \in DOMAIN Text /\ Len(Text[item]) \in Nat
      BY <2>1 DEF Ui!Matches, Ui!ReplParams
    <3>2. PICK k \in 0 .. Len(Text[item]) - Len(page.filter) :
            \A n \in DOMAIN page.filter : Text[item][k + n] = page.filter[n]
      BY <2>1 DEF Ui!Matches
    <3>3. k \in 0 .. Len(Text[item]) - Len(other.filter)
      BY <1>1, <1>2, <3>1, <3>2
    <3>. QED  BY <1>2, <3>1, <3>2, <3>3 DEF Ui!Matches
  <2>2. at \in SUBSET more /\ at \in SUBSET (DOMAIN page.items) /\ more \in SUBSET (DOMAIN page.items)
    BY <2>1
  <2>3. Ui!Shown(page) = Kept(page.items, at) /\ Ui!Shown(other) = Kept(page.items, more)
    BY <1>4, ReplKept DEF Ui!Shown
  <2>. HIDE DEF at, more
  <2>4. /\ IsFiniteSet(more) /\ Len(Kept(page.items, at)) = Cardinality(at)
        /\ Len(Kept(page.items, more)) = Cardinality(more)
    BY <1>1, <2>2, KeptItems
  <2>. QED  BY <2>2, <2>3, <2>4, FS_Subset
<1>. QED  BY <1>3, <1>4

LEMMA ReplDrawn ==
  ASSUME NEW page \in ReplGood
  PROVE  Ui!Corrected(page) \in ReplGood /\ Ui!Drawn(page) \in ReplGood
<1>1. page \in ReplPages /\ Len(page.filter) <= MaxTyped
  BY DEF ReplGood
<1> DEFINE p == [page EXCEPT !.focus = 1]
<1>2. p \in ReplPages /\ p.filter = page.filter /\ p.focus = 1
  BY <1>1 DEF ReplPages
<1>3. p \in ReplGood
  BY <1>1, <1>2 DEF ReplGood, ReplFocus
<1>. QED  BY <1>3 DEF Ui!Corrected, Ui!Drawn

(* A new page.                                                              *)
LEMMA ReplNewPage ==
  ASSUME Ui!ReplParams, NEW kind \in {"articles", "reviews", "school", "profile"},
         NEW about \in Ui!Rows \cup {Ui!None}, NEW items \in Seq(Ui!Rows)
  PROVE  Ui!Page(kind, about, items) \in ReplGood
<1> DEFINE p == Ui!Page(kind, about, items)
<1>1. p.focus = 1 /\ p.filter = <<>>
  BY DEF Ui!Page
<1>2. p \in ReplPages
  <2>1. <<>> \in Seq(Chars)
    OBVIOUS
  <2>. QED  BY <2>1 DEF Ui!Page, ReplPages
<1>. QED  BY <1>1, <1>2 DEF ReplGood, ReplFocus, Ui!ReplParams

LEMMA ReplListing ==
  ASSUME NEW S, IsFiniteSet(S)
  PROVE  Ui!SetToSeq(S) \in Seq(S) /\ Ui!SetToSeqs(S) \subseteq Seq(S)
<1>1. Cardinality(S) \in Nat /\ Ui!Cardinality(S) = Cardinality(S)
  BY FS_CardinalityType DEF Ui!Cardinality, Cardinality
<1>2. \E f \in [1 .. Cardinality(S) -> S] : Ui!IsInjective(f)
  BY FS_CardinalityType DEF ExistsBijection, Bijection, Injection, IsInjective, Ui!IsInjective
<1>3. Ui!SetToSeq(S) \in [1 .. Cardinality(S) -> S]
  BY <1>1, <1>2 DEF Ui!SetToSeq
<1>4. Ui!SetToSeqs(S) \subseteq [1 .. Cardinality(S) -> S]
  BY <1>1 DEF Ui!SetToSeqs
<1>. QED  BY <1>1, <1>3, <1>4

LEMMA ReplProfile ==
  ASSUME Ui!ReplParams, NEW about \in Ui!Rows
  PROVE  Ui!Profile(about) \in ReplGood
<1>1. IsFiniteSet(Ui!Titles) /\ Ui!Titles \subseteq Ui!Rows
  <2>1. IsFiniteSet({"followers"} \cup {"following"})
    BY FS_Singleton, FS_AddElement
  <2>2. Ui!Titles = {"followers"} \cup {"following"}
    BY DEF Ui!Titles
  <2>. QED  BY <2>1, <2>2 DEF Ui!Rows
<1>2. Ui!SetToSeq(Ui!Titles) \in Seq(Ui!Rows)
  BY <1>1, ReplListing
<1>3. <<about>> \o Ui!SetToSeq(Ui!Titles) \in Seq(Ui!Rows)
  BY <1>2
<1>. QED  BY <1>3, ReplNewPage DEF Ui!Profile

-----------------------------------------------------------------------------
(* What a key does to the stack.                                            *)
LEMMA ReplFront ==
  ASSUME NEW S, NEW seq \in Seq(S), NEW n \in Nat, n <= Len(seq)
  PROVE  SubSeq(seq, 1, Len(seq) - n) \in Seq(S) /\ Len(SubSeq(seq, 1, Len(seq) - n)) = Len(seq) - n
<1> DEFINE m == Len(seq) - n
<1>1. m \in Nat /\ m <= Len(seq) /\ DOMAIN seq = 1 .. Len(seq) /\ Len(seq) \in Nat
  OBVIOUS
<1>2. \A i \in 1 .. m : seq[i] \in S
  BY <1>1
<1>. HIDE DEF m
<1>3. SubSeq(seq, 1, m) \in Seq(S) /\ Len(SubSeq(seq, 1, m)) = m
  BY <1>1, <1>2
<1>. QED  BY <1>3 DEF m

LEMMA ReplNow ==
  ASSUME ReplInv, ~Ui!CommandMode, NEW page \in ReplGood, Ui!Now(page)
  PROVE  uiStack' \in Seq(ReplGood) /\ Len(uiStack') = Len(uiStack)
<1>1. Ui!Drawn(page) \in ReplGood
  BY ReplDrawn
<1>2. uiStack \in Seq(ReplGood) /\ Len(uiStack) \in Nat \ {0}
  BY DEF ReplInv, Ui!CommandMode
<1>3. Ui!Front(uiStack) \in Seq(ReplGood) /\ Len(Ui!Front(uiStack)) = Len(uiStack) - 1
  <2>1. 1 \in Nat /\ 1 <= Len(uiStack)
    BY <1>2
  <2>. QED  BY <1>2, <2>1, ReplFront DEF Ui!Front
<1>. QED  BY <1>1, <1>2, <1>3 DEF Ui!Now

LEMMA ReplPush ==
  ASSUME ReplInv, NEW page \in ReplGood, Ui!Push(page)
  PROVE  uiStack' \in Seq(ReplGood)
<1>1. Ui!Drawn(page) \in ReplGood
  BY ReplDrawn
<1>. QED  BY <1>1 DEF ReplInv, Ui!Push

LEMMA ReplTop ==
  ASSUME ReplInv, ~Ui!CommandMode
  PROVE  Ui!Top \in ReplGood /\ Ui!Top \in ReplPages
<1>1. uiStack \in Seq(ReplGood) /\ Len(uiStack) \in 1 .. Len(uiStack)
  BY DEF ReplInv, Ui!CommandMode
<1>. QED  BY <1>1 DEF Ui!Top, Ui!Last, ReplGood

(* A page without a filter.                                                 *)
LEMMA ReplUnfiltered ==
  ASSUME Ui!ReplParams, NEW page \in ReplGood
  PROVE  [page EXCEPT !.filter = <<>>] \in ReplGood
<1> DEFINE p == [page EXCEPT !.filter = <<>>]
<1>1. page \in ReplPages /\ (page.focus = 1 \/ page.focus <= Len(page.items)) /\ <<>> \in Seq(Chars)
  BY DEF ReplGood, ReplFocus
<1>2. p \in ReplPages /\ p.focus = page.focus /\ p.items = page.items /\ p.filter = <<>>
  BY <1>1 DEF ReplPages
<1>3. Ui!Shown(p) = p.items
  BY <1>2 DEF Ui!Shown
<1>4. ReplFocus(p)
  BY <1>1, <1>2, <1>3 DEF ReplFocus
<1>5. Len(p.filter) <= MaxTyped
  <2>1. Len(<<>>) = 0 /\ MaxTyped \in Nat
    BY DEF Ui!ReplParams
  <2>. QED  BY <1>2, <2>1
<1>. HIDE DEF p
<1>6. p \in ReplGood
  BY <1>2, <1>4, <1>5 DEF ReplGood
<1>. QED  BY <1>6 DEF p

LEMMA ReplMoves ==
  ASSUME Ui!ReplParams, ReplInv, NEW step \in {-1, 1}, Ui!Move(step)
  PROVE  uiStack' \in Seq(ReplGood) /\ Len(uiStack') = Len(uiStack)
<1> DEFINE n == Len(Ui!Shown(Ui!Top))
<1>1. ~Ui!CommandMode /\ Ui!Top \in ReplGood /\ Ui!Top \in ReplPages
  BY ReplTop DEF Ui!Move
<1>2. n \in Nat /\ n <= Len(Ui!Top.items) /\ Len(Ui!Top.items) \in Nat /\ Ui!Top.focus \in Nat
  BY <1>1, ReplShown DEF ReplPages
<1>3. CASE n = 0
  BY <1>3 DEF Ui!Move, ReplInv
<1>4. CASE n # 0
  <2> DEFINE f == ((Ui!Top.focus - 1 + step) % n) + 1
             p == [Ui!Top EXCEPT !.focus = f]
  <2>1. f \in 1 .. n
    <3>1. Ui!Top.focus - 1 + step \in Int /\ n \in Nat \ {0}
      BY <1>2, <1>4
    <3>2. \A z \in Int, m \in Nat \ {0} : (z % m) + 1 \in 1 .. m
      OBVIOUS
    <3>. QED  BY <3>1, <3>2
  <2>2. Ui!Now(p)
    BY <1>4 DEF Ui!Move
  <2>. HIDE DEF f
  <2>3. p \in ReplPages /\ p.focus = f /\ p.items = Ui!Top.items /\ p.filter = Ui!Top.filter
    BY <1>1, <2>1 DEF ReplPages
  <2>4. Ui!Shown(p) = Ui!Shown(Ui!Top)
    BY <2>3 DEF Ui!Shown
  <2>5. f <= n /\ f <= Len(Ui!Top.items)
    BY <1>2, <2>1
  <2>. HIDE DEF p
  <2>6. ReplFocus(p)
    BY <2>3, <2>4, <2>5 DEF ReplFocus
  <2>7. Len(p.filter) <= MaxTyped
    BY <1>1, <2>3 DEF ReplGood
  <2>8. p \in ReplGood
    BY <2>3, <2>6, <2>7 DEF ReplGood
  <2>. QED  BY <1>1, <2>2, <2>8, ReplNow
<1>. QED  BY <1>3, <1>4

LEMMA ReplTypes1 ==
  ASSUME Ui!ReplParams, ReplInv, NEW c \in Chars, Ui!TypeFilter(c)
  PROVE  uiStack' \in Seq(ReplGood) /\ Len(uiStack') = Len(uiStack)
<1> DEFINE p == Ui!Typed(Ui!Top, c)
           longer == Append(Ui!Top.filter, c)
<1>1. ~Ui!CommandMode /\ Ui!Top \in ReplGood /\ Ui!Top \in ReplPages /\ Len(Ui!Top.filter) < MaxTyped
  BY ReplTop DEF Ui!TypeFilter
<1>2. Ui!Top.filter \in Seq(Chars) /\ MaxTyped \in Nat
  BY <1>1 DEF ReplPages, Ui!ReplParams
<1>3. longer \in Seq(Chars) /\ longer # <<>> /\ Len(longer) <= MaxTyped
      /\ longer[1] = (IF Ui!Top.filter = <<>> THEN c ELSE Ui!Top.filter[1])
  BY <1>1, <1>2
<1>. HIDE DEF longer
<1>4. CASE Ui!IsCommand(Ui!Top) \/ (c = Colon /\ Ui!Top.filter = <<>>)
  <2>1. p = [Ui!Top EXCEPT !.filter = longer]
    BY <1>4 DEF Ui!Typed, longer
  <2>2. p \in ReplPages /\ p.filter = longer /\ p.focus = Ui!Top.focus /\ p.items = Ui!Top.items
    BY <1>1, <1>3, <2>1 DEF ReplPages
  <2>3. Ui!IsCommand(p)
    BY <1>3, <1>4, <2>2 DEF Ui!IsCommand
  <2>4. p \in ReplGood
    BY <1>1, <1>3, <2>2, <2>3 DEF ReplGood, ReplFocus
  <2>. QED  BY <1>1, <2>4, ReplNow DEF Ui!TypeFilter
<1>5. CASE ~(Ui!IsCommand(Ui!Top) \/ (c = Colon /\ Ui!Top.filter = <<>>))
  <2>1. p = [Ui!Top EXCEPT !.filter = longer, !.focus = 1]
    BY <1>5 DEF Ui!Typed, longer
  <2> DEFINE q == [Ui!Top EXCEPT !.filter = longer]
  <2>4. q \in ReplPages /\ q.filter = longer
    BY <1>1, <1>3 DEF ReplPages
  <2>5. p = [q EXCEPT !.focus = 1]
    BY <1>1, <2>1 DEF ReplPages
  <2>. HIDE DEF q, p
  <2>2. p \in ReplPages /\ p.filter = longer /\ p.focus = 1
    BY <2>4, <2>5 DEF ReplPages
  <2>. USE DEF p
  <2>3. p \in ReplGood
    BY <1>3, <2>2 DEF ReplGood, ReplFocus
  <2>. QED  BY <1>1, <2>3, ReplNow DEF Ui!TypeFilter
<1>. QED  BY <1>4, <1>5

LEMMA ReplErases ==
  ASSUME Ui!ReplParams, ReplInv, Ui!Backspace
  PROVE  uiStack' \in Seq(ReplGood) /\ Len(uiStack') = Len(uiStack)
<1> DEFINE shorter == Ui!Front(Ui!Top.filter)
           p == [Ui!Top EXCEPT !.filter = shorter]
<1>1. ~Ui!CommandMode /\ Ui!Top \in ReplGood /\ Ui!Top \in ReplPages /\ Ui!Top.filter # <<>> /\ Ui!Now(p)
  BY ReplTop DEF Ui!Backspace
<1>2. Ui!Top.filter \in Seq(Chars) /\ Len(Ui!Top.filter) <= MaxTyped /\ MaxTyped \in Nat
  BY <1>1 DEF ReplPages, ReplGood, Ui!ReplParams
<1>3. /\ shorter \in Seq(Chars) /\ Len(shorter) <= MaxTyped
      /\ shorter # <<>> => shorter[1] = Ui!Top.filter[1]
  BY <1>1, <1>2 DEF Ui!Front
<1>4. p \in ReplPages /\ p.filter = shorter /\ p.focus = Ui!Top.focus /\ p.items = Ui!Top.items
  <2>. HIDE DEF shorter
  <2>. QED  BY <1>1, <1>3 DEF ReplPages
<1>5. ~Ui!IsCommand(p) => p.focus = 1 \/ p.focus <= Len(Ui!Shown(p))
  <2>1. CASE shorter = <<>>
    <3>1. Ui!Shown(p) = Ui!Top.items
      BY <1>4, <2>1 DEF Ui!Shown
    <3>. QED  BY <1>1, <1>4, <3>1 DEF ReplGood, ReplFocus
  <2>2. CASE shorter # <<>> /\ ~Ui!IsCommand(p)
    <3>1. ~Ui!IsCommand(Ui!Top)
      BY <1>1, <1>3, <1>4, <2>2 DEF Ui!IsCommand
    <3>2. Ui!Top.focus = 1 \/ Ui!Top.focus <= Len(Ui!Shown(Ui!Top))
      BY <1>1, <3>1 DEF ReplGood, ReplFocus
    <3>3. Len(Ui!Shown(Ui!Top)) <= Len(Ui!Shown(p))
      BY <1>1, <1>4, ReplNarrows
    <3>4. Ui!Top.focus \in Nat /\ Len(Ui!Shown(Ui!Top)) \in Nat /\ Len(Ui!Shown(p)) \in Nat
      BY <1>1, <1>4, ReplShown DEF ReplPages
    <3>. QED  BY <1>4, <3>2, <3>3, <3>4
  <2>. QED  BY <2>1, <2>2
<1>6. p \in ReplGood
  BY <1>1, <1>3, <1>4, <1>5 DEF ReplGood, ReplFocus
<1>. QED  BY <1>1, <1>6, ReplNow

LEMMA ReplStays ==
  ASSUME Ui!ReplParams, ReplInv, Ui!Tab \/ Ui!PageCommand \/ Ui!OpenNothing \/ Ui!DeleteFocused
  PROVE  uiStack' \in Seq(ReplGood) /\ Len(uiStack') = Len(uiStack)
<1>1. ~Ui!CommandMode /\ Ui!Top \in ReplGood /\ Ui!Top \in ReplPages
  BY ReplTop DEF Ui!Tab, Ui!PageCommand, Ui!OpenNothing, Ui!DeleteFocused
<1>2. CASE Ui!Tab
  <2> DEFINE p == [Ui!Top EXCEPT !.on = IF @ = "body" THEN "reviewer" ELSE "body"]
  <2>1. p \in ReplPages /\ p.filter = Ui!Top.filter /\ p.focus = Ui!Top.focus /\ p.items = Ui!Top.items
    BY <1>1 DEF ReplPages
  <2>2. Ui!Shown(p) = Ui!Shown(Ui!Top) /\ (Ui!IsCommand(p) <=> Ui!IsCommand(Ui!Top))
    BY <2>1 DEF Ui!Shown, Ui!IsCommand
  <2>3. p \in ReplGood
    BY <1>1, <2>1, <2>2 DEF ReplGood, ReplFocus
  <2>. QED  BY <1>1, <1>2, <2>3, ReplNow DEF Ui!Tab
<1>3. CASE Ui!PageCommand
  <2>1. Ui!Corrected(Ui!Top) \in ReplGood
    BY <1>1, ReplDrawn
  <2>2. [Ui!Corrected(Ui!Top) EXCEPT !.filter = <<>>] \in ReplGood
    BY <1>1, ReplDrawn, ReplUnfiltered
  <2>. QED  BY <1>1, <1>3, <2>1, <2>2, ReplNow DEF Ui!PageCommand
<1>4. CASE Ui!OpenNothing \/ Ui!DeleteFocused
  <2>1. Ui!Corrected(Ui!Top) \in ReplGood
    BY <1>1, ReplDrawn
  <2>. QED  BY <1>1, <1>4, <2>1, ReplNow DEF Ui!OpenNothing, Ui!DeleteFocused
<1>. QED  BY <1>2, <1>3, <1>4

LEMMA ReplPops ==
  ASSUME Ui!ReplParams, ReplInv, Ui!Pop
  PROVE  uiStack' \in Seq(ReplGood) /\ Len(uiStack') <= Len(uiStack)
<1>1. uiStack \in Seq(ReplGood) /\ Len(uiStack) \in Nat
  BY DEF ReplInv
<1>2. CASE Len(uiStack) <= 1
  <2>1. uiStack' = <<>>
    BY <1>2 DEF Ui!Pop
  <2>. QED  BY <1>1, <2>1
<1>3. CASE ~(Len(uiStack) <= 1)
  <2> DEFINE below == uiStack[Len(uiStack) - 1]
             top == Ui!Drawn([below EXCEPT !.filter = <<>>])
             rest == SubSeq(uiStack, 1, Len(uiStack) - 2)
  <2>1. uiStack' = Append(rest, top)
    BY <1>3 DEF Ui!Pop
  <2>2. below \in ReplGood
    BY <1>1, <1>3
  <2>3. top \in ReplGood
    BY <2>2, ReplUnfiltered, ReplDrawn
  <2>4. rest \in Seq(ReplGood) /\ Len(rest) = Len(uiStack) - 2
    <3>1. 2 \in Nat /\ 2 <= Len(uiStack)
      BY <1>1, <1>3
    <3>. QED  BY <1>1, <3>1, ReplFront
  <2>. HIDE DEF top, rest
  <2>. QED  BY <1>1, <2>1, <2>3, <2>4
<1>. QED  BY <1>2, <1>3

LEMMA ReplDispatches ==
  ASSUME Ui!ReplParams, ReplInv, Ui!Dispatch
  PROVE  uiStack' \in Seq(ReplGood) /\ uiStack = <<>>
<1>1. uiStack = <<>> /\ uiStack \in Seq(ReplGood) /\ uiRows \subseteq Viewed
  BY DEF Ui!Dispatch, Ui!CommandMode, ReplInv
<1>2. IsFiniteSet(Viewed \cup Users)
  BY DEF Ui!ReplParams, Ui!IsFiniteSet, IsFiniteSet
<1>3. IsFiniteSet(uiRows) /\ IsFiniteSet(Users)
  BY <1>1, <1>2, FS_Subset
<1>4. Viewed \cup Users \subseteq Ui!Rows /\ "typed" \in Ui!Rows
  BY DEF Ui!Rows
<1>5. Ui!SetToSeqs(uiRows) \subseteq Seq(Ui!Rows) /\ Ui!SetToSeq(Users) \in Seq(Ui!Rows)
  BY <1>1, <1>3, <1>4, ReplListing
<1>6. \A s \in Ui!Listed : Ui!Page("articles", Ui!None, s) \in ReplGood
  BY <1>5, ReplNewPage DEF Ui!Listed
<1>7. Ui!Page("school", Ui!None, Ui!SetToSeq(Users)) \in ReplGood
  BY <1>5, ReplNewPage
<1>8. Ui!Profile("typed") \in ReplGood
  BY <1>4, ReplProfile
<1>9. uiStack' = uiStack \/ \E page \in ReplGood : Ui!Push(page)
  BY <1>6, <1>7, <1>8 DEF Ui!Dispatch
<1>. QED  BY <1>1, <1>9, ReplPush

(* Enter on a page: what the screen marks is what the handler asks for.     *)
LEMMA ReplOpens ==
  ASSUME Ui!ReplParams, ReplInv, Ui!Open
  PROVE  uiStack' \in Seq(ReplGood) /\ uiOpened' = Ui!Marked(Ui!Top) /\ uiOpened' \in Ui!Rows
<1> DEFINE item == Ui!Focused(Ui!Top)
<1>1. /\ ~Ui!CommandMode /\ Ui!Top \in ReplGood /\ Ui!Top \in ReplPages /\ ~Ui!IsCommand(Ui!Top)
      /\ Ui!Top.kind \in {"articles", "school"} /\ uiOpened' = item
      /\ item \in IF Ui!Top.kind = "articles" THEN uiRows ELSE Users
  BY ReplTop DEF Ui!Open
<1>2. item \in Ui!Rows
  BY <1>1 DEF ReplInv, Ui!Rows
<1>3. Ui!PageAbout(item) \in ReplGood
  <2>1. Ui!Reviews(item) \in ReplGood
    <3>1. <<>> \in Seq(Ui!Rows)
      OBVIOUS
    <3>. QED  BY <1>2, <3>1, ReplNewPage DEF Ui!Reviews
  <2>2. Ui!Profile(item) \in ReplGood
    BY <1>2, ReplProfile
  <2>. QED  BY <2>1, <2>2 DEF Ui!PageAbout
<1>4. uiStack' \in Seq(ReplGood)
  <2>1. uiStack' = Ui!Front(uiStack) \o <<Ui!Corrected(Ui!Top), Ui!Drawn(Ui!PageAbout(item))>>
    BY DEF Ui!Open
  <2>2. Ui!Corrected(Ui!Top) \in ReplGood /\ Ui!Drawn(Ui!PageAbout(item)) \in ReplGood
    BY <1>1, <1>3, ReplDrawn
  <2>3. uiStack \in Seq(ReplGood) /\ Len(uiStack) \in Nat \ {0}
    BY <1>1 DEF ReplInv, Ui!CommandMode
  <2>4. Ui!Front(uiStack) \in Seq(ReplGood)
    BY <2>3 DEF Ui!Front
  <2>. QED  BY <2>1, <2>2, <2>4
<1>5. item = Ui!Marked(Ui!Top)
  <2>1. /\ Len(Ui!Shown(Ui!Top)) \in Nat /\ DOMAIN Ui!Shown(Ui!Top) = 1 .. Len(Ui!Shown(Ui!Top))
        /\ Ui!Shown(Ui!Top) = <<>> <=> Len(Ui!Shown(Ui!Top)) = 0
    BY <1>1, ReplShown
  <2>2. Ui!Top.focus \in Nat \ {0} /\ (Ui!Top.focus = 1 \/ Ui!Top.focus <= Len(Ui!Shown(Ui!Top)))
    BY <1>1 DEF ReplGood, ReplFocus, ReplPages
  <2>3. Ui!Printed(Ui!Top) = Ui!Shown(Ui!Top)
    BY <1>1 DEF Ui!Printed
  <2>. QED  BY <2>1, <2>2, <2>3 DEF Ui!Focused, Ui!Marked
<1>. QED  BY <1>1, <1>2, <1>4, <1>5

LEMMA ReplNextInv ==
  ASSUME Ui!ReplParams, ReplInv, [Ui!Next]_Ui!vars
  PROVE  /\ ReplInv'
         /\ uiStack # <<>> /\ Len(uiStack') > Len(uiStack) => uiOpened' = Ui!Marked(Ui!Top)
<1>1. uiStack \in Seq(ReplGood) /\ Len(uiStack) \in Nat
  BY DEF ReplInv
<1>2. ASSUME uiStack' \in Seq(ReplGood), Len(uiStack') <= Len(uiStack) \/ uiStack = <<>>
      PROVE  uiStack # <<>> /\ Len(uiStack') > Len(uiStack) => uiOpened' = Ui!Marked(Ui!Top)
  <2>1. Len(uiStack') \in Nat
    BY <1>2
  <2>. QED  BY <1>1, <1>2, <2>1
<1>3. CASE UNCHANGED Ui!vars
  BY <1>1, <1>3 DEF Ui!vars, ReplInv
<1>4. ASSUME NEW c \in Ui!Commands, Ui!TypeCommand(c) \/ Ui!AskMother \/ Ui!Erase
      PROVE  ReplInv' /\ uiStack' = uiStack
  BY <1>4 DEF Ui!TypeCommand, Ui!AskMother, Ui!Erase, ReplInv
<1>5. CASE Ui!AskMother \/ Ui!Erase
  <2>1. ReplInv' /\ uiStack = <<>> /\ uiStack' \in Seq(ReplGood)
    BY <1>5 DEF Ui!AskMother, Ui!Erase, Ui!CommandMode, ReplInv
  <2>. QED  BY <2>1
<1>6. CASE Ui!Dispatch
  <2>1. uiStack' \in Seq(ReplGood) /\ uiStack = <<>>
    BY <1>6, ReplDispatches
  <2>. QED  BY <1>6, <2>1 DEF Ui!Dispatch, ReplInv
<1>7. ASSUME \/ \E step \in {-1, 1} : Ui!Move(step)
             \/ \E c \in Chars : Ui!TypeFilter(c)
             \/ Ui!Backspace \/ Ui!Tab \/ Ui!PageCommand \/ Ui!OpenNothing \/ Ui!DeleteFocused
      PROVE  ReplInv' /\ Len(uiStack') = Len(uiStack)
  <2>1. uiStack' \in Seq(ReplGood) /\ Len(uiStack') = Len(uiStack)
    BY <1>7, ReplMoves, ReplTypes1, ReplErases, ReplStays
  <2>2. uiRows' \subseteq uiRows /\ UNCHANGED <<uiBuffer, uiMother, uiOpened>>
    BY <1>7 DEF Ui!Move, Ui!TypeFilter, Ui!Backspace, Ui!Tab, Ui!PageCommand, Ui!OpenNothing,
       Ui!DeleteFocused
  <2>. QED  BY <2>1, <2>2 DEF ReplInv
<1>8. CASE Ui!Open
  <2>1. uiStack' \in Seq(ReplGood) /\ uiOpened' = Ui!Marked(Ui!Top) /\ uiOpened' \in Ui!Rows
    BY <1>8, ReplOpens
  <2>. QED  BY <1>8, <2>1 DEF Ui!Open, ReplInv
<1>9. CASE Ui!Escape
  <2>1. uiStack' \in Seq(ReplGood) /\ Len(uiStack') <= Len(uiStack)
    BY <1>1, <1>9, ReplPops DEF Ui!Escape
  <2>. QED  BY <1>2, <1>9, <2>1 DEF Ui!Escape, ReplInv
<1>10. ASSUME NEW a \in Viewed, Ui!Elsewhere(a) PROVE ReplInv' /\ uiStack' = uiStack
  BY <1>10 DEF Ui!Elsewhere, ReplInv
<1>. QED  BY <1>1, <1>2, <1>3, <1>4, <1>5, <1>6, <1>7, <1>8, <1>9, <1>10 DEF Ui!Next, ReplInv

-----------------------------------------------------------------------------
(* The behaviours of the parts, seen from Repl, are its own.              *)
LEMMA ReplAlone == Spec => Ui!Init /\ [][Ui!Next]_(Ui!vars)
<1>1. Init => Ui!Init
  BY DEF Init
<1>2. Next => Ui!Next \/ uiVars' = uiVars
  BY DEF Next
<1>3. vars' = vars => uiVars' = uiVars
  BY DEF vars
<1>4. uiVars' = uiVars => UNCHANGED Ui!vars
  BY DEF uiVars, Ui!vars
<1>5. [Next]_vars => [Ui!Next]_(Ui!vars)
  BY <1>2, <1>3, <1>4
<1>. QED  BY <1>1, <1>5, PTL DEF Spec

LEMMA ReplAlways == Ui!Init /\ [][Ui!Next]_(Ui!vars) => []ReplInv
<1>1. Ui!ReplParams
  BY PartParams DEF PartParams
<1>2. Ui!Init => ReplInv
  <2>1. <<>> \in Seq(ReplGood)
    OBVIOUS
  <2>. QED  BY <2>1 DEF Ui!Init, ReplInv
<1>3. ReplInv /\ [Ui!Next]_(Ui!vars) => ReplInv'
  BY <1>1, ReplNextInv
<1>. QED  BY <1>2, <1>3, PTL

(* The types hold in every state, for any rows and texts: the focus of a     *)
(* page is on one of its rows.                                              *)
THEOREM ReplTypes == (Ui!Spec => []Ui!TypeOK) /\ (Spec => []Ui!TypeOK)
<1>1. ReplInv => Ui!TypeOK
  <2>1. SUFFICES ASSUME ReplInv PROVE Ui!TypeOK
    OBVIOUS
  <2>2. ASSUME NEW n \in DOMAIN uiStack
        PROVE  /\ uiStack[n].items \in Seq(Ui!Rows) /\ uiStack[n].about \in Ui!Rows \cup {Ui!None}
               /\ uiStack[n].filter \in Seq(Chars) /\ Len(uiStack[n].filter) <= MaxTyped
               /\ uiStack[n].focus \in 1 .. Len(uiStack[n].items) + 1
               /\ uiStack[n].on \in {"body", "reviewer"}
    <3>1. PICK page \in ReplGood : page = uiStack[n]
      BY <2>1 DEF ReplInv
    <3>2. page \in ReplPages /\ Len(page.filter) <= MaxTyped /\ (page.focus = 1 \/ page.focus <= Len(page.items))
      BY DEF ReplGood, ReplFocus
    <3>3. page.focus \in Nat \ {0} /\ Len(page.items) \in Nat
      BY <3>2 DEF ReplPages
    <3>4. page.focus \in 1 .. Len(page.items) + 1
      BY <3>2, <3>3
    <3>. QED  BY <3>1, <3>2, <3>4 DEF ReplPages
  <2>. QED  BY <2>1, <2>2 DEF Ui!TypeOK, ReplInv
<1>. QED  BY <1>1, ReplAlways, ReplAlone, PTL DEF Ui!Spec

(* Whatever was typed, erased and scrolled before, and whatever changed in     *)
(* the database: Enter opens the row that the screen marks (the render         *)
(* functions compare focus_index, the handlers ask focused_item).            *)
THEOREM EnterOpensTheMarked == (Ui!Spec => Ui!OpensTheMarked) /\ (Spec => OpensTheMarked)
<1>1. Ui!ReplParams
  BY PartParams DEF PartParams
<1>2. ReplInv /\ [Ui!Next]_(Ui!vars)
      => [uiStack # <<>> /\ Len(uiStack') > Len(uiStack) => uiOpened' = Ui!Marked(Ui!Top)]_(Ui!vars)
  BY <1>1, ReplNextInv
<1>3. Ui!Init /\ [][Ui!Next]_(Ui!vars) => Ui!OpensTheMarked
  BY <1>2, ReplAlways, PTL DEF Ui!OpensTheMarked
<1>. QED  BY <1>3, ReplAlone, PTL DEF Ui!Spec, OpensTheMarked

-----------------------------------------------------------------------------
(* The peers a device knows.  A process that has not read the failures of the *)
(* file has none in memory and visits nobody.  What is still to visit is not *)
(* in backoff even now, for only a visit adds a failure and no peer is       *)
(* visited twice in a round; and what the process has met itself is part of *)
(* what it remembers.                                                       *)
PeerFit(list, backoff) ==
  /\ \A i \in DOMAIN list : Pe!IsSeed(list[i]) \/ ~Pe!InBackoff(backoff[list[i]])
  /\ \A i, j \in DOMAIN list : i # j /\ list[i] = list[j] => Pe!IsSeed(list[i])

PeerMet(met, backoff) ==
  \A u \in Urls : met[u].count <= backoff[u].count /\ (met[u].count > 0 => met[u].age = backoff[u].age)

PeerNone == [u \in Urls |-> Pe!Never]

PeerInv ==
  /\ Pe!TypeOK
  /\ \A p \in Procs : Len(peOutput[p]) <= MaxKnown
  /\ \A p \in Syncers \ peLoaded : peTodo[p] = <<>> /\ peMem[p] = PeerNone /\ peOwn[p] = PeerNone
  /\ \A p \in Syncers : PeerFit(peTodo[p], peMem[p]) /\ PeerMet(peOwn[p], peMem[p])

LEMMA PeerKept == ASSUME NEW list, NEW at PROVE Pe!Kept(list, at) = Kept(list, at)
  BY DEF Pe!Kept, Kept, Pe!Place, Place, Pe!Cardinality, Cardinality

LEMMA PeerConstants ==
  ASSUME Pe!PeerParams
  PROVE  /\ Pe!MaxAge \in Nat /\ MaxCount \in Nat \ {0} /\ MaxKnown \in Nat \ {0}
         /\ Pe!Never \in Pe!Failures /\ Pe!Never.count = 0
         /\ DOMAIN Seeds = 1 .. Len(Seeds) /\ Len(Seeds) \in Nat
         /\ \A i \in DOMAIN Seeds : Seeds[i] \in Urls
         /\ Pe!SeedList \in Seq(Pe!Entry)
         /\ \A i \in DOMAIN Pe!SeedList : Pe!SeedList[i].count = 0
         /\ IsFiniteSet(DOMAIN Seeds)
<1>1. MaxCount \in Nat \ {0} /\ MaxKnown \in Nat \ {0} /\ Pe!MaxAge \in Nat
  BY DEF Pe!PeerParams, Pe!MaxAge
<1>2. Pe!Never \in Pe!Failures /\ Pe!Never.count = 0
  BY <1>1 DEF Pe!Never, Pe!Failures
<1>3. DOMAIN Seeds = 1 .. Len(Seeds) /\ Len(Seeds) \in Nat /\ \A i \in DOMAIN Seeds : Seeds[i] \in Urls
  BY DEF Pe!PeerParams
<1>4. \A u \in Urls, f \in Pe!Failures : Pe!Listed(u, f) \in Pe!Entry /\ Pe!Listed(u, f).count = f.count
  BY DEF Pe!Listed, Pe!Entry, Pe!Failures
<1>5. /\ DOMAIN Pe!SeedList = 1 .. Len(Seeds)
      /\ \A i \in DOMAIN Pe!SeedList : Pe!SeedList[i] \in Pe!Entry /\ Pe!SeedList[i].count = 0
  BY <1>2, <1>3, <1>4 DEF Pe!SeedList
<1>6. Pe!SeedList \in [1 .. Len(Seeds) -> Pe!Entry]
  <2>1. Pe!SeedList = [i \in 1 .. Len(Seeds) |-> Pe!SeedList[i]]
    BY <1>3 DEF Pe!SeedList
  <2>. QED  BY <1>5, <2>1
<1>7. Pe!SeedList \in Seq(Pe!Entry)
  BY <1>3, <1>6
<1>8. IsFiniteSet(1 .. Len(Seeds))
  BY <1>3, FS_Interval
<1>. QED  BY <1>1, <1>2, <1>3, <1>5, <1>7, <1>8

LEMMA PeerListed ==
  ASSUME NEW u \in Urls, NEW f \in Pe!Failures
  PROVE  Pe!Listed(u, f) \in Pe!Entry
  BY DEF Pe!Listed, Pe!Entry, Pe!Failures

LEMMA PeerCapped ==
  ASSUME Pe!PeerParams, NEW S, NEW list \in Seq(S)
  PROVE  Pe!Capped(list) \in Seq(S) /\ Len(Pe!Capped(list)) <= MaxKnown
<1> DEFINE m == IF Len(list) > MaxKnown THEN MaxKnown ELSE Len(list)
<1>1. m \in Nat /\ m <= MaxKnown /\ m <= Len(list) /\ Len(list) \in Nat
  BY DEF Pe!PeerParams
<1>2. Pe!Capped(list) = SubSeq(list, 1, m)
  BY DEF Pe!Capped
<1>. HIDE DEF m
<1>3. \A i \in 1 .. m : list[i] \in S
  BY <1>1
<1>4. SubSeq(list, 1, m) \in Seq(S) /\ Len(SubSeq(list, 1, m)) = m
  BY <1>1, <1>3
<1>. QED  BY <1>1, <1>2, <1>4

LEMMA PeerRaw ==
  ASSUME Pe!PeerParams, Pe!TypeOK
  PROVE  Pe!Raw \in Seq(Pe!Entry)
  BY PeerConstants DEF Pe!TypeOK, Pe!Raw

(* The peers that are known: the seeds, and, each once, those that are not in *)
(* backoff.                                                                  *)
LEMMA PeerKnown ==
  ASSUME Pe!PeerParams, Pe!TypeOK, NEW backoff \in [Urls -> Pe!Failures]
  PROVE  Pe!Known(backoff) \in Seq(Urls) /\ PeerFit(Pe!Known(backoff), backoff)
<1> DEFINE raw == Pe!Raw
           all == [i \in DOMAIN raw |-> raw[i].url]
           firsts == {i \in DOMAIN all : \A j \in 1 .. i - 1 : all[j] # all[i]}
           at == {i \in firsts : ~Pe!InBackoff(backoff[all[i]])}
           urls == Kept(all, at)
           left == {i \in DOMAIN Seeds : Seeds[i] \notin Pe!ToSet(urls)}
           seeds == Kept(Seeds, left)
<1>1. Pe!Known(backoff) = urls \o seeds
  BY PeerKept DEF Pe!Known, Pe!WithSeeds
<1>2. raw \in Seq(Pe!Entry)
  BY PeerRaw
<1>. HIDE DEF raw
<1>3. all \in Seq(Urls) /\ DOMAIN all = 1 .. Len(raw)
  <2>1. \A e \in Pe!Entry : e.url \in Urls
    BY DEF Pe!Entry
  <2>3. DOMAIN raw = 1 .. Len(raw) /\ Len(raw) \in Nat /\ \A i \in DOMAIN raw : raw[i] \in Pe!Entry
    BY <1>2
  <2>2. all \in [1 .. Len(raw) -> Urls]
    BY <2>1, <2>3
  <2>. QED  BY <2>2, <2>3
<1>4. /\ at \in SUBSET (DOMAIN all) /\ \A i \in at : ~Pe!InBackoff(backoff[all[i]])
      /\ \A i \in at : \A j \in 1 .. i - 1 : all[j] # all[i]
  OBVIOUS
<1>5. Seeds \in Seq(Urls) /\ left \in SUBSET (DOMAIN Seeds)
  BY DEF Pe!PeerParams
<1>6. \A i \in left : Pe!IsSeed(Seeds[i])
  BY <1>5 DEF Pe!IsSeed, Pe!ToSet
<1>. HIDE DEF all, firsts, at, left
<1>13. ASSUME NEW i \in at, NEW k \in at, i # k PROVE all[i] # all[k]
  <2>1. i \in Int /\ k \in Int /\ 1 <= i /\ 1 <= k
    BY <1>2, <1>3, <1>4
  <2>2. k \in 1 .. i - 1 \/ i \in 1 .. k - 1
    BY <1>13, <2>1
  <2>. QED  BY <1>4, <2>2
<1>14. ASSUME NEW n \in DOMAIN urls, NEW m \in DOMAIN urls, n # m PROVE urls[n] # urls[m]
  <2>1. \E i, k \in at : i # k /\ urls[n] = all[i] /\ urls[m] = all[k]
    BY <1>3, <1>4, <1>14, KeptApart
  <2>. QED  BY <1>13, <2>1
<1>7. /\ urls \in Seq(Urls) /\ Len(urls) \in Nat /\ DOMAIN urls = 1 .. Len(urls)
      /\ \A n \in DOMAIN urls : \E i \in at : urls[n] = all[i]
  <2>1. /\ urls \in Seq(Urls) /\ Len(urls) \in Nat
        /\ \A n \in DOMAIN urls : \E i \in at : urls[n] = all[i]
    BY <1>3, <1>4, KeptItems
  <2>. HIDE DEF urls
  <2>. QED  BY <2>1
<1>8. /\ seeds \in Seq(Urls) /\ Len(seeds) \in Nat /\ DOMAIN seeds = 1 .. Len(seeds)
      /\ \A n \in DOMAIN seeds : \E i \in left : seeds[n] = Seeds[i]
  <2>1. /\ seeds \in Seq(Urls) /\ Len(seeds) \in Nat
        /\ \A n \in DOMAIN seeds : \E i \in left : seeds[n] = Seeds[i]
    BY <1>5, KeptItems
  <2>. HIDE DEF seeds
  <2>. QED  BY <2>1
<1>. HIDE DEF urls, seeds
<1>9. /\ urls \o seeds \in Seq(Urls) /\ DOMAIN (urls \o seeds) = 1 .. Len(urls) + Len(seeds)
      /\ \A n \in DOMAIN urls : (urls \o seeds)[n] = urls[n]
      /\ \A n \in DOMAIN seeds : (urls \o seeds)[Len(urls) + n] = seeds[n]
  BY <1>7, <1>8
<1>10. ASSUME NEW i \in 1 .. Len(urls) + Len(seeds)
       PROVE  \/ i \in DOMAIN urls
              \/ \E n \in DOMAIN seeds : i = Len(urls) + n
  <2>1. CASE i <= Len(urls)
    BY <1>7, <2>1
  <2>2. CASE ~(i <= Len(urls))
    <3>1. i - Len(urls) \in 1 .. Len(seeds) /\ i = Len(urls) + (i - Len(urls))
      BY <1>7, <1>8, <2>2
    <3>. QED  BY <1>8, <3>1
  <2>. QED  BY <2>1, <2>2
<1>11. ASSUME NEW i \in DOMAIN (urls \o seeds)
       PROVE  Pe!IsSeed((urls \o seeds)[i]) \/ ~Pe!InBackoff(backoff[(urls \o seeds)[i]])
  <2>1. CASE i \in DOMAIN urls
    BY <1>4, <1>7, <1>9, <2>1
  <2>2. CASE \E n \in DOMAIN seeds : i = Len(urls) + n
    BY <1>6, <1>8, <1>9, <2>2
  <2>. QED  BY <1>9, <1>10, <2>1, <2>2
<1>12. ASSUME NEW i \in DOMAIN (urls \o seeds), NEW j \in DOMAIN (urls \o seeds),
              i # j, (urls \o seeds)[i] = (urls \o seeds)[j]
       PROVE  Pe!IsSeed((urls \o seeds)[i])
  <2>1. CASE i \in DOMAIN urls /\ j \in DOMAIN urls
    BY <1>9, <1>12, <1>14, <2>1
  <2>2. ASSUME NEW x \in DOMAIN (urls \o seeds), \E n \in DOMAIN seeds : x = Len(urls) + n
        PROVE  Pe!IsSeed((urls \o seeds)[x])
    BY <1>6, <1>8, <1>9, <2>2
  <2>. QED  BY <1>9, <1>10, <1>12, <2>1, <2>2
<1>. QED  BY <1>1, <1>9, <1>11, <1>12 DEF PeerFit

LEMMA PeerPersisted ==
  ASSUME Pe!PeerParams, Pe!TypeOK, NEW backoff \in [Urls -> Pe!Failures]
  PROVE  Pe!Persisted(backoff) \in Seq(Pe!Entry) /\ Len(Pe!Persisted(backoff)) <= MaxKnown
<1> DEFINE known == Pe!Known(backoff)
           list == [i \in DOMAIN known |-> Pe!Listed(known[i], backoff[known[i]])]
<1>1. Pe!Persisted(backoff) = Pe!Capped(list)
  BY DEF Pe!Persisted
<1>2. known \in Seq(Urls)
  BY PeerKnown
<1>. HIDE DEF known
<1>3. DOMAIN known = 1 .. Len(known) /\ Len(known) \in Nat /\ \A i \in DOMAIN known : known[i] \in Urls
  BY <1>2
<1>4. \A i \in DOMAIN known : Pe!Listed(known[i], backoff[known[i]]) \in Pe!Entry
  <2>1. \A i \in DOMAIN known : backoff[known[i]] \in Pe!Failures
    BY <1>3
  <2>. QED  BY <1>3, <2>1, PeerListed
<1>5. list \in [1 .. Len(known) -> Pe!Entry]
  BY <1>3, <1>4
<1>6. list \in Seq(Pe!Entry)
  BY <1>3, <1>5
<1>. QED  BY <1>1, <1>6, PeerCapped

LEMMA PeerHydrated ==
  ASSUME Pe!PeerParams, Pe!TypeOK, NEW p \in Syncers
  PROVE  Pe!Hydrated(p) \in [Urls -> Pe!Failures]
<1>1. peMem[p] \in [Urls -> Pe!Failures] /\ peFile \in Seq(Pe!Entry)
  BY DEF Pe!TypeOK
<1>2. \A i \in DOMAIN peFile : [count |-> peFile[i].count, age |-> peFile[i].age] \in Pe!Failures
  <2>1. \A f \in Pe!Entry : [count |-> f.count, age |-> f.age] \in Pe!Failures
    BY DEF Pe!Entry, Pe!Failures
  <2>2. \A i \in DOMAIN peFile : peFile[i] \in Pe!Entry
    BY <1>1
  <2>. QED  BY <2>1, <2>2
<1>3. CASE p \in peLoaded \/ peTorn
  BY <1>1, <1>3 DEF Pe!Hydrated
<1>4. CASE ~(p \in peLoaded \/ peTorn)
  <2> DEFINE Failing(u, i) == peFile[i].url = u /\ peFile[i].count > 0
             e(u) == peFile[CHOOSE i \in DOMAIN peFile : peFile[i].url = u /\ peFile[i].count > 0]
             new(u) == IF \E i \in DOMAIN peFile : peFile[i].url = u /\ peFile[i].count > 0
                       THEN [count |-> e(u).count, age |-> e(u).age] ELSE peMem[p][u]
  <2>1. ASSUME NEW u \in Urls PROVE new(u) \in Pe!Failures
    <3>1. CASE \E i \in DOMAIN peFile : peFile[i].url = u /\ peFile[i].count > 0
      <4>1. (CHOOSE i \in DOMAIN peFile : peFile[i].url = u /\ peFile[i].count > 0) \in DOMAIN peFile
        BY <3>1
      <4>. QED  BY <1>2, <3>1, <4>1
    <3>2. CASE ~ \E i \in DOMAIN peFile : peFile[i].url = u /\ peFile[i].count > 0
      BY <1>1, <3>2
    <3>. QED  BY <3>1, <3>2
  <2>2. Pe!Hydrated(p) = [u \in Urls |-> new(u)]
    BY <1>4 DEF Pe!Hydrated
  <2>. HIDE DEF new
  <2>. QED  BY <2>1, <2>2
<1>. QED  BY <1>3, <1>4

LEMMA PeerOlder ==
  ASSUME Pe!PeerParams
  PROVE  /\ \A f \in Pe!Failures :
              /\ Pe!Older(f) \in Pe!Failures /\ (f.count = 0 => Pe!Older(f) = f)
              /\ Pe!Older(f).count = f.count /\ (~Pe!InBackoff(f) => ~Pe!InBackoff(Pe!Older(f)))
         /\ \A f, g \in Pe!Failures : f.age = g.age /\ f.count > 0 /\ g.count > 0 => Pe!Older(f).age = Pe!Older(g).age
         /\ \A f \in Pe!Entry : Pe!Older(f) \in Pe!Entry /\ (f.count = 0 => Pe!Older(f) = f)
<1>1. Pe!MaxAge \in Nat
  BY PeerConstants
<1>2. ASSUME NEW f \in Pe!Failures PROVE Pe!Older(f) \in Pe!Failures /\ (f.count = 0 => Pe!Older(f) = f)
  <2>1. f.age \in Nat /\ f.count \in Int
    BY DEF Pe!Failures
  <2>2. f.age < Pe!MaxAge => f.age + 1 \in 0 .. Pe!MaxAge
    BY <1>1, <2>1
  <2>3. f.count = 0 => ~(f.count > 0)
    OBVIOUS
  <2>. QED  BY <2>2, <2>3 DEF Pe!Older, Pe!Failures
<1>3. ASSUME NEW f \in Pe!Entry PROVE Pe!Older(f) \in Pe!Entry /\ (f.count = 0 => Pe!Older(f) = f)
  <2>1. f.age \in Nat /\ f.count \in Int
    BY DEF Pe!Entry
  <2>2. f.age < Pe!MaxAge => f.age + 1 \in 0 .. Pe!MaxAge
    BY <1>1, <2>1
  <2>3. f.count = 0 => ~(f.count > 0)
    OBVIOUS
  <2>. QED  BY <2>2, <2>3 DEF Pe!Older, Pe!Entry
<1>4. ASSUME NEW f \in Pe!Failures
      PROVE  Pe!Older(f).count = f.count /\ Pe!Older(f).age >= f.age
             /\ Pe!Older(f).age = IF f.count > 0 /\ f.age < Pe!MaxAge THEN f.age + 1 ELSE f.age
  <2>1. f.age \in Nat
    BY <1>1 DEF Pe!Failures
  <2>. QED  BY <2>1 DEF Pe!Older, Pe!Failures
<1>5. ASSUME NEW f \in Pe!Failures, ~Pe!InBackoff(f) PROVE ~Pe!InBackoff(Pe!Older(f))
  <2>1. f.age \in Nat /\ f.count \in 0 .. MaxCount /\ MaxCount \in Nat /\ Pe!Older(f).age \in Nat
    BY <1>1, <1>2, PeerConstants DEF Pe!Failures
  <2>2. f.count > 0 => Pe!Delay(f.count) \in Nat
    BY <2>1 DEF Pe!PeerParams
  <2>. HIDE DEF Pe!Delay
  <2>. QED  BY <1>4, <1>5, <2>1, <2>2 DEF Pe!InBackoff
<1>6. \A f, g \in Pe!Failures : f.age = g.age /\ f.count > 0 /\ g.count > 0 => Pe!Older(f).age = Pe!Older(g).age
  BY <1>4
<1>. QED  BY <1>2, <1>3, <1>4, <1>5, <1>6

-----------------------------------------------------------------------------
(* The steps.                                                               *)
LEMMA PeerInvAfter ==
  ASSUME Pe!TypeOK', \A q \in Procs : Len(peOutput'[q]) <= MaxKnown,
         \A q \in Syncers \ peLoaded' : peTodo'[q] = <<>> /\ peMem'[q] = PeerNone /\ peOwn'[q] = PeerNone,
         \A q \in Syncers : PeerFit(peTodo'[q], peMem'[q]) /\ PeerMet(peOwn'[q], peMem'[q])
  PROVE  PeerInv'
  BY DEF PeerInv

LEMMA PeerAdds ==
  ASSUME Pe!PeerParams, PeerInv, NEW p \in Procs, NEW u \in Urls, Pe!AddPeer(p, u)
  PROVE  PeerInv'
<1>1. Pe!WithPeer(u) \in Seq(Pe!Entry) /\ Len(Pe!WithPeer(u)) <= MaxKnown
  <2>1. Pe!WithPeer(u) = Pe!Capped(<<Pe!Listed(u, Pe!Never)>> \o Pe!Raw)
    BY DEF Pe!AddPeer, Pe!WithPeer
  <2>2. Pe!Listed(u, Pe!Never) \in Pe!Entry
    BY PeerConstants, PeerListed
  <2>3. <<Pe!Listed(u, Pe!Never)>> \o Pe!Raw \in Seq(Pe!Entry)
    BY <2>2, PeerRaw DEF PeerInv
  <2>. QED  BY <2>1, <2>3, PeerCapped
<1>2. /\ peOutput' = [peOutput EXCEPT ![p] = Pe!WithPeer(u)] /\ peTorn' = TRUE
      /\ UNCHANGED <<peFile, peMem, peLoaded, peTodo, peOwn>>
  BY DEF Pe!AddPeer
<1>3. Pe!TypeOK'
  BY <1>1, <1>2 DEF PeerInv, Pe!TypeOK
<1>4. \A q \in Procs : Len(peOutput'[q]) <= MaxKnown
  BY <1>1, <1>2 DEF PeerInv, Pe!TypeOK
<1>. QED  BY <1>2, <1>3, <1>4 DEF PeerInv

LEMMA PeerWrites ==
  ASSUME Pe!PeerParams, PeerInv, NEW p \in Procs, Pe!FinishWrite(p) \/ Pe!WriteLost(p)
  PROVE  PeerInv'
<1>1. /\ peOutput' = [peOutput EXCEPT ![p] = <<>>] /\ UNCHANGED <<peMem, peLoaded, peTodo, peOwn>>
      /\ peFile' = peOutput[p] \/ peFile' = peFile
      /\ peTorn' = FALSE \/ peTorn' = peTorn
  BY DEF Pe!FinishWrite, Pe!WriteLost
<1>2. <<>> \in Seq(Pe!Entry) /\ Len(<<>>) = 0 /\ MaxKnown \in Nat
  BY PeerConstants
<1>3. peOutput[p] \in Seq(Pe!Entry) /\ Len(peOutput[p]) <= MaxKnown
  BY DEF PeerInv, Pe!TypeOK
<1>4. \A q \in Procs : Len(peOutput'[q]) <= MaxKnown
  BY <1>1, <1>2 DEF PeerInv, Pe!TypeOK
<1>5. peFile' \in Seq(Pe!Entry) /\ (Len(peFile') <= MaxKnown \/ peFile' = Pe!SeedList)
  BY <1>1, <1>3 DEF PeerInv, Pe!TypeOK
<1>6. peOutput' \in [Procs -> Seq(Pe!Entry)]
  BY <1>1, <1>2 DEF PeerInv, Pe!TypeOK
<1>7. Pe!TypeOK'
  BY <1>1, <1>5, <1>6 DEF PeerInv, Pe!TypeOK
<1>. QED  BY <1>1, <1>4, <1>7 DEF PeerInv

(* A round begins with the peers that are not in backoff; the failures that   *)
(* the process has met itself are in its memory by then.                    *)
LEMMA PeerRounds ==
  ASSUME Pe!PeerParams, PeerInv, NEW p \in Syncers, Pe!BeginRound(p)
  PROVE  PeerInv'
<1> DEFINE h == Pe!Hydrated(p)
           known == Pe!Known(h)
<1>1. h \in [Urls -> Pe!Failures]
  BY PeerHydrated DEF PeerInv
<1>2. known \in Seq(Urls) /\ PeerFit(known, h)
  BY <1>1, PeerKnown DEF PeerInv
<1>3. /\ peTodo' = [peTodo EXCEPT ![p] = known] /\ peMem' = [peMem EXCEPT ![p] = h]
      /\ peLoaded' = peLoaded \cup {p} /\ UNCHANGED <<peFile, peTorn, peOutput, peOwn>>
  BY DEF Pe!BeginRound
<1>4. p \in peLoaded => h = peMem[p]
  BY DEF Pe!Hydrated
<1>. HIDE DEF h, known
<1>5. Pe!TypeOK'
  BY <1>1, <1>2, <1>3 DEF PeerInv, Pe!TypeOK
<1>6. /\ peTodo'[p] = known /\ peMem'[p] = h
      /\ \A q \in Syncers : q # p => peTodo'[q] = peTodo[q] /\ peMem'[q] = peMem[q]
  BY <1>3 DEF PeerInv, Pe!TypeOK
<1>7. PeerMet(peOwn[p], h)
  <2>1. CASE p \in peLoaded
    BY <1>4, <2>1 DEF PeerInv
  <2>2. CASE p \notin peLoaded
    <3>1. \A u \in Urls : peOwn[p][u].count = 0
      BY <2>2, PeerConstants DEF PeerInv, PeerNone
    <3>2. \A u \in Urls : h[u].count \in Nat
      BY <1>1, PeerConstants DEF Pe!Failures
    <3>. QED  BY <3>1, <3>2 DEF PeerMet
  <2>. QED  BY <2>1, <2>2
<1>8. ASSUME NEW q \in Syncers \ peLoaded'
      PROVE  peTodo'[q] = <<>> /\ peMem'[q] = PeerNone /\ peOwn'[q] = PeerNone
  BY <1>3, <1>6, <1>8 DEF PeerInv
<1>9. ASSUME NEW q \in Syncers PROVE PeerFit(peTodo'[q], peMem'[q]) /\ PeerMet(peOwn'[q], peMem'[q])
  <2>1. CASE q = p
    BY <1>2, <1>3, <1>6, <1>7, <2>1
  <2>2. CASE q # p
    BY <1>3, <1>6, <2>2 DEF PeerInv
  <2>. QED  BY <2>1, <2>2
<1>. QED  BY <1>3, <1>5, <1>8, <1>9, PeerInvAfter DEF PeerInv

(* A visit changes what is remembered of the peer visited, and of no other    *)
(* that the round has left.                                                 *)
LEMMA PeerVisits ==
  ASSUME Pe!PeerParams, PeerInv, NEW p \in Syncers, Pe!VisitFails(p) \/ Pe!VisitSucceeds(p)
  PROVE  PeerInv'
<1>1. peTodo[p] # <<>> /\ peTodo' = [peTodo EXCEPT ![p] = Tail(@)] /\ UNCHANGED <<peFile, peLoaded>>
  BY DEF Pe!VisitFails, Pe!VisitSucceeds
<1>2. p \in peLoaded /\ p \in Procs
  BY <1>1 DEF PeerInv, Pe!PeerParams
<1>3. peTodo[p] \in Seq(Urls) /\ peMem[p] \in [Urls -> Pe!Failures] /\ peOwn[p] \in [Urls -> Pe!Failures]
  BY DEF PeerInv, Pe!TypeOK
<1>4. PICK u \in Urls : u = Head(peTodo[p])
  BY <1>1, <1>3
<1>5. Tail(peTodo[p]) \in Seq(Urls)
  BY <1>1, <1>3
<1>6. peMem[p][u] \in Pe!Failures /\ peOwn[p][u] \in Pe!Failures
  BY <1>3
<1> DEFINE more(n) == IF n < MaxCount THEN n + 1 ELSE n
           met == [count |-> more(peOwn[p][u].count), age |-> 0]
<1>7. MaxCount \in Nat \ {0} /\ Pe!MaxAge \in Nat /\ Pe!Never \in Pe!Failures /\ Pe!Never.count = 0
  BY PeerConstants
<1>8. Pe!Failed(peMem[p][u]) \in Pe!Failures /\ met \in Pe!Failures
      /\ met.count <= Pe!Failed(peMem[p][u]).count /\ Pe!Failed(peMem[p][u]).age = met.age
  <2>1. peMem[p][u].count \in 0 .. MaxCount /\ peOwn[p][u].count \in 0 .. MaxCount
    BY <1>6 DEF Pe!Failures
  <2>2. peOwn[p][u].count <= peMem[p][u].count
    BY DEF PeerInv, PeerMet
  <2>3. more(peOwn[p][u].count) \in 0 .. MaxCount /\ 0 \in 0 .. Pe!MaxAge
    BY <1>7, <2>1
  <2>4. (IF peMem[p][u].count < MaxCount THEN peMem[p][u].count + 1 ELSE MaxCount) \in 0 .. MaxCount
        /\ more(peOwn[p][u].count) <= (IF peMem[p][u].count < MaxCount THEN peMem[p][u].count + 1 ELSE MaxCount)
    BY <1>7, <2>1, <2>2
  <2>. QED  BY <2>3, <2>4 DEF Pe!Failed, Pe!Failures
<1>9. \E f, g \in Pe!Failures :
        /\ peOwn' = [peOwn EXCEPT ![p] = [@ EXCEPT ![u] = g]]
        /\ g.count <= f.count /\ (g.count > 0 => g.age = f.age)
        /\ \/ Pe!Record(p, u, [peMem[p] EXCEPT ![u] = f])
           \/ UNCHANGED <<peMem, peOutput, peTorn>> /\ peMem[p][u] = f
  <2>1. CASE Pe!VisitFails(p)
    <3>1. /\ peOwn' = [peOwn EXCEPT ![p] = [@ EXCEPT ![u] = met]]
          /\ Pe!Record(p, u, [peMem[p] EXCEPT ![u] = Pe!Failed(peMem[p][u])])
      BY <1>3, <1>4, <2>1 DEF Pe!VisitFails
    <3>. HIDE DEF met
    <3>. QED  BY <1>8, <3>1
  <2>2. CASE Pe!VisitSucceeds(p)
    <3>1. /\ peOwn' = [peOwn EXCEPT ![p] = [@ EXCEPT ![u] = Pe!Never]]
          /\ IF peMem[p][u].count > 0 THEN Pe!Record(p, u, [peMem[p] EXCEPT ![u] = Pe!Never])
                                      ELSE UNCHANGED <<peMem, peOutput, peTorn>>
      BY <1>4, <2>2 DEF Pe!VisitSucceeds
    <3>2. peMem[p][u].count \in Nat
      BY <1>6, <1>7 DEF Pe!Failures
    <3>3. CASE peMem[p][u].count > 0
      <4>1. Pe!Record(p, u, [peMem[p] EXCEPT ![u] = Pe!Never]) /\ Pe!Never.count <= Pe!Never.count
        BY <1>7, <3>1, <3>3
      <4>. QED  BY <1>7, <3>1, <4>1
    <3>4. CASE ~(peMem[p][u].count > 0)
      <4>1. /\ UNCHANGED <<peMem, peOutput, peTorn>>
            /\ Pe!Never.count <= peMem[p][u].count /\ ~(Pe!Never.count > 0)
        BY <1>7, <3>1, <3>2, <3>4
      <4>. QED  BY <1>6, <1>7, <3>1, <4>1
    <3>. QED  BY <3>3, <3>4
  <2>. QED  BY <2>1, <2>2
<1>. HIDE DEF met
<1>10. PICK f, g \in Pe!Failures :
        /\ peOwn' = [peOwn EXCEPT ![p] = [@ EXCEPT ![u] = g]]
        /\ g.count <= f.count /\ (g.count > 0 => g.age = f.age)
        /\ \/ Pe!Record(p, u, [peMem[p] EXCEPT ![u] = f])
           \/ UNCHANGED <<peMem, peOutput, peTorn>> /\ peMem[p][u] = f
  BY <1>9
<1> DEFINE b == [peMem[p] EXCEPT ![u] = f]
           o == [peOwn[p] EXCEPT ![u] = g]
<1>11. b \in [Urls -> Pe!Failures] /\ o \in [Urls -> Pe!Failures]
       /\ b[u] = f /\ o[u] = g /\ \A v \in Urls : v # u => b[v] = peMem[p][v] /\ o[v] = peOwn[p][v]
  BY <1>3
<1>12. PeerMet(o, b)
  BY <1>10, <1>11 DEF PeerInv, PeerMet
<1>13. PeerFit(Tail(peTodo[p]), b)
  <2>1. /\ DOMAIN Tail(peTodo[p]) = 1 .. Len(peTodo[p]) - 1 /\ DOMAIN peTodo[p] = 1 .. Len(peTodo[p])
        /\ Len(peTodo[p]) \in Nat /\ Len(peTodo[p]) >= 1 /\ peTodo[p][1] = u
        /\ \A i \in DOMAIN Tail(peTodo[p]) : Tail(peTodo[p])[i] = peTodo[p][i + 1]
    BY <1>1, <1>3, <1>4
  <2>2. \A i \in DOMAIN Tail(peTodo[p]) : i + 1 \in DOMAIN peTodo[p] /\ i + 1 # 1 /\ 1 \in DOMAIN peTodo[p]
    BY <2>1
  <2>3. ASSUME NEW i \in DOMAIN Tail(peTodo[p])
        PROVE  Pe!IsSeed(Tail(peTodo[p])[i]) \/ ~Pe!InBackoff(b[Tail(peTodo[p])[i]])
    <3>1. Tail(peTodo[p])[i] = peTodo[p][i + 1] /\ peTodo[p][i + 1] \in Urls
      BY <1>3, <2>1, <2>2
    <3>2. Pe!IsSeed(peTodo[p][i + 1]) \/ peTodo[p][i + 1] # u
      BY <2>1, <2>2 DEF PeerInv, PeerFit
    <3>3. Pe!IsSeed(peTodo[p][i + 1]) \/ ~Pe!InBackoff(peMem[p][peTodo[p][i + 1]])
      BY <2>2 DEF PeerInv, PeerFit
    <3>. QED  BY <1>11, <3>1, <3>2, <3>3
  <2>4. ASSUME NEW i \in DOMAIN Tail(peTodo[p]), NEW j \in DOMAIN Tail(peTodo[p]),
               i # j, Tail(peTodo[p])[i] = Tail(peTodo[p])[j]
        PROVE  Pe!IsSeed(Tail(peTodo[p])[i])
    <3>1. i + 1 # j + 1
      BY <2>1, <2>4
    <3>. QED  BY <2>1, <2>2, <2>4, <3>1 DEF PeerInv, PeerFit
  <2>. QED  BY <2>3, <2>4 DEF PeerFit
<1>14. peMem' = [peMem EXCEPT ![p] = b] /\ peOwn' = [peOwn EXCEPT ![p] = o]
       /\ peOutput' \in [Procs -> Seq(Pe!Entry)] /\ (\A q \in Procs : Len(peOutput'[q]) <= MaxKnown)
       /\ peTorn' \in BOOLEAN
  <2>1. peOwn' = [peOwn EXCEPT ![p] = o]
    BY <1>10 DEF PeerInv, Pe!TypeOK
  <2>2. CASE Pe!Record(p, u, b)
    <3>1. Pe!Persisted(b) \in Seq(Pe!Entry) /\ Len(Pe!Persisted(b)) <= MaxKnown
      BY <1>11, PeerPersisted DEF PeerInv
    <3>. HIDE DEF b, o
    <3>2. /\ peMem' = [peMem EXCEPT ![p] = b] /\ peTorn' = TRUE
          /\ peOutput' = [peOutput EXCEPT ![p] = Pe!Persisted(b)]
      BY <2>2 DEF Pe!Record
    <3>. QED  BY <1>2, <2>1, <3>1, <3>2 DEF PeerInv, Pe!TypeOK
  <2>3. CASE UNCHANGED <<peMem, peOutput, peTorn>> /\ peMem[p][u] = f
    <3>1. b = peMem[p]
      BY <1>3, <2>3
    <3>. HIDE DEF b, o
    <3>. QED  BY <2>1, <2>3, <3>1 DEF PeerInv, Pe!TypeOK
  <2>. QED  BY <1>10, <2>2, <2>3
<1>. HIDE DEF b, o
<1>15. peTodo' \in [Syncers -> Seq(Urls)]
       /\ \A q \in Syncers :
            IF q = p THEN peTodo'[q] = Tail(peTodo[p]) /\ peMem'[q] = b /\ peOwn'[q] = o
            ELSE peTodo'[q] = peTodo[q] /\ peMem'[q] = peMem[q] /\ peOwn'[q] = peOwn[q]
  BY <1>1, <1>5, <1>14 DEF PeerInv, Pe!TypeOK
<1>16. Pe!TypeOK'
  BY <1>1, <1>11, <1>14, <1>15 DEF PeerInv, Pe!TypeOK
<1>17. ASSUME NEW q \in Syncers \ peLoaded'
       PROVE  peTodo'[q] = <<>> /\ peMem'[q] = PeerNone /\ peOwn'[q] = PeerNone
  BY <1>1, <1>2, <1>15, <1>17 DEF PeerInv
<1>18. ASSUME NEW q \in Syncers PROVE PeerFit(peTodo'[q], peMem'[q]) /\ PeerMet(peOwn'[q], peMem'[q])
  BY <1>12, <1>13, <1>15, <1>18 DEF PeerInv
<1>. QED  BY <1>14, <1>16, <1>17, <1>18, PeerInvAfter

LEMMA PeerRestarts ==
  ASSUME Pe!PeerParams, PeerInv, NEW p \in Syncers, Pe!Restart(p)
  PROVE  PeerInv'
<1>1. /\ peMem' = [peMem EXCEPT ![p] = PeerNone] /\ peLoaded' = peLoaded \ {p}
      /\ peOwn' = [peOwn EXCEPT ![p] = PeerNone]
      /\ peTodo' = [peTodo EXCEPT ![p] = <<>>] /\ UNCHANGED <<peFile, peTorn, peOutput>>
  BY DEF Pe!Restart, PeerNone
<1>2. PeerNone \in [Urls -> Pe!Failures] /\ <<>> \in Seq(Urls) /\ \A u \in Urls : PeerNone[u].count = 0
  BY PeerConstants DEF PeerNone
<1>3. Pe!TypeOK'
  BY <1>1, <1>2 DEF PeerInv, Pe!TypeOK
<1>4. \A q \in Syncers :
        IF q = p THEN peTodo'[q] = <<>> /\ peMem'[q] = PeerNone /\ peOwn'[q] = PeerNone
        ELSE peTodo'[q] = peTodo[q] /\ peMem'[q] = peMem[q] /\ peOwn'[q] = peOwn[q]
  BY <1>1 DEF PeerInv, Pe!TypeOK
<1>5. ASSUME NEW q \in Syncers \ peLoaded'
      PROVE  peTodo'[q] = <<>> /\ peMem'[q] = PeerNone /\ peOwn'[q] = PeerNone
  BY <1>1, <1>4, <1>5 DEF PeerInv
<1>6. PeerFit(<<>>, PeerNone) /\ PeerMet(PeerNone, PeerNone)
  BY <1>2 DEF PeerFit, PeerMet
<1>7. ASSUME NEW q \in Syncers PROVE PeerFit(peTodo'[q], peMem'[q]) /\ PeerMet(peOwn'[q], peMem'[q])
  BY <1>4, <1>6, <1>7 DEF PeerInv
<1>8. \A q \in Procs : Len(peOutput'[q]) <= MaxKnown
  BY <1>1 DEF PeerInv
<1>. QED  BY <1>3, <1>5, <1>7, <1>8, PeerInvAfter

(* Time brings no peer into backoff.                                        *)
LEMMA PeerTicks ==
  ASSUME Pe!PeerParams, PeerInv, Pe!Tick
  PROVE  PeerInv'
<1>1. /\ peFile' = [i \in DOMAIN peFile |-> Pe!Older(peFile[i])]
      /\ peMem' = [p \in Syncers |-> [u \in Urls |-> Pe!Older(peMem[p][u])]]
      /\ peOwn' = [p \in Syncers |-> [u \in Urls |-> Pe!Older(peOwn[p][u])]]
      /\ UNCHANGED <<peTorn, peLoaded, peOutput, peTodo>>
  BY DEF Pe!Tick
<1>2. peFile \in Seq(Pe!Entry) /\ DOMAIN peFile = 1 .. Len(peFile) /\ Len(peFile) \in Nat
  BY DEF PeerInv, Pe!TypeOK
<1>3. peFile' \in Seq(Pe!Entry) /\ Len(peFile') = Len(peFile)
  <2>1. peFile' \in [1 .. Len(peFile) -> Pe!Entry]
    BY <1>1, <1>2, PeerOlder
  <2>. QED  BY <1>2, <2>1
<1>4. peFile = Pe!SeedList => peFile' = Pe!SeedList
  <2>1. SUFFICES ASSUME peFile = Pe!SeedList PROVE peFile' = Pe!SeedList
    OBVIOUS
  <2>2. \A i \in DOMAIN peFile : peFile[i] \in Pe!Entry /\ peFile[i].count = 0
    BY <1>2, <2>1, PeerConstants
  <2>3. \A i \in DOMAIN peFile : Pe!Older(peFile[i]) = peFile[i]
    BY <2>2, PeerOlder
  <2>4. peFile' = [i \in DOMAIN peFile |-> peFile[i]]
    BY <1>1, <2>3
  <2>. QED  BY <1>2, <2>1, <2>4
<1>5. peMem' \in [Syncers -> [Urls -> Pe!Failures]] /\ peOwn' \in [Syncers -> [Urls -> Pe!Failures]]
  <2>1. \A p \in Syncers, u \in Urls :
          Pe!Older(peMem[p][u]) \in Pe!Failures /\ Pe!Older(peOwn[p][u]) \in Pe!Failures
    BY PeerOlder DEF PeerInv, Pe!TypeOK
  <2>. QED  BY <1>1, <2>1
<1>6. Pe!TypeOK'
  BY <1>1, <1>3, <1>4, <1>5 DEF PeerInv, Pe!TypeOK
<1>7. [u \in Urls |-> Pe!Older(PeerNone[u])] = PeerNone
  BY PeerOlder, PeerConstants DEF PeerNone
<1>8. ASSUME NEW p \in Syncers \ peLoaded'
      PROVE  peTodo'[p] = <<>> /\ peMem'[p] = PeerNone /\ peOwn'[p] = PeerNone
  BY <1>1, <1>7, <1>8 DEF PeerInv
<1>9. ASSUME NEW p \in Syncers PROVE PeerFit(peTodo'[p], peMem'[p]) /\ PeerMet(peOwn'[p], peMem'[p])
  <2>1. peTodo[p] \in Seq(Urls) /\ peMem[p] \in [Urls -> Pe!Failures] /\ peOwn[p] \in [Urls -> Pe!Failures]
    BY DEF PeerInv, Pe!TypeOK
  <2>2. \A u \in Urls : peMem'[p][u] = Pe!Older(peMem[p][u]) /\ peOwn'[p][u] = Pe!Older(peOwn[p][u])
    BY <1>1
  <2>3. PeerFit(peTodo[p], peMem[p]) /\ PeerMet(peOwn[p], peMem[p])
    BY DEF PeerInv
  <2>4. \A i \in DOMAIN peTodo[p] : peTodo[p][i] \in Urls
    BY <2>1
  <2>5. PeerFit(peTodo[p], peMem'[p])
    BY <2>1, <2>2, <2>3, <2>4, PeerOlder DEF PeerFit
  <2>6. ASSUME NEW u \in Urls
        PROVE  /\ peOwn'[p][u].count <= peMem'[p][u].count
               /\ peOwn'[p][u].count > 0 => peOwn'[p][u].age = peMem'[p][u].age
    <3>1. peMem[p][u] \in Pe!Failures /\ peOwn[p][u] \in Pe!Failures
      BY <2>1
    <3>2. peMem[p][u].count \in Int /\ peOwn[p][u].count \in Int
      BY <3>1 DEF Pe!Failures
    <3>. QED  BY <2>2, <2>3, <3>1, <3>2, PeerOlder DEF PeerMet
  <2>. QED  BY <1>1, <2>5, <2>6 DEF PeerMet
<1>10. \A q \in Procs : Len(peOutput'[q]) <= MaxKnown
  BY <1>1 DEF PeerInv
<1>. QED  BY <1>6, <1>8, <1>9, <1>10, PeerInvAfter

LEMMA PeerNextInv ==
  ASSUME Pe!PeerParams, PeerInv, [Pe!Next]_Pe!vars
  PROVE  PeerInv'
<1>1. CASE UNCHANGED Pe!vars
  BY <1>1 DEF Pe!vars, PeerInv, Pe!TypeOK
<1>2. ASSUME NEW p \in Procs, Pe!FinishWrite(p) \/ Pe!WriteLost(p) PROVE PeerInv'
  BY <1>2, PeerWrites
<1>3. ASSUME NEW p \in Procs, NEW u \in Urls, Pe!AddPeer(p, u) PROVE PeerInv'
  BY <1>3, PeerAdds
<1>4. ASSUME NEW p \in Syncers, Pe!Visit(p) PROVE PeerInv'
  BY <1>4, PeerRounds, PeerVisits DEF Pe!Visit
<1>5. ASSUME NEW p \in Syncers, Pe!Restart(p) PROVE PeerInv'
  BY <1>5, PeerRestarts
<1>6. CASE Pe!Tick
  BY <1>6, PeerTicks
<1>. QED  BY <1>1, <1>2, <1>3, <1>4, <1>5, <1>6 DEF Pe!Next

-----------------------------------------------------------------------------
(* The behaviours of the parts, seen from Peers, are its own.              *)
LEMMA PeerAlone == Spec => Pe!Init /\ [][Pe!Next]_(Pe!vars)
<1>1. Init => Pe!Init
  BY DEF Init
<1>2. Next => Pe!Next \/ peVars' = peVars
  BY DEF Next
<1>3. vars' = vars => peVars' = peVars
  BY DEF vars
<1>4. peVars' = peVars => UNCHANGED Pe!vars
  BY DEF peVars, Pe!vars
<1>5. [Next]_vars => [Pe!Next]_(Pe!vars)
  BY <1>2, <1>3, <1>4
<1>. QED  BY <1>1, <1>5, PTL DEF Spec

LEMMA PeerAlways == Pe!Init /\ [][Pe!Next]_(Pe!vars) => []PeerInv
<1>1. Pe!PeerParams
  BY PartParams DEF PartParams
<1>2. Pe!Init => PeerInv
  <2>1. SUFFICES ASSUME Pe!Init PROVE PeerInv
    OBVIOUS
  <2>2. /\ <<>> \in Seq(Pe!Entry) /\ <<>> \in Seq(Urls) /\ Len(<<>>) = 0
        /\ Pe!Never \in Pe!Failures /\ Pe!SeedList \in Seq(Pe!Entry) /\ MaxKnown \in Nat
    BY <1>1, PeerConstants
  <2>3. Pe!TypeOK
    BY <2>1, <2>2 DEF Pe!Init, Pe!TypeOK
  <2>4. \A p \in Syncers : peTodo[p] = <<>> /\ peMem[p] = PeerNone /\ peOwn[p] = PeerNone
    BY <2>1 DEF Pe!Init, PeerNone
  <2>5. PeerFit(<<>>, PeerNone) /\ PeerMet(PeerNone, PeerNone)
    BY <1>1, PeerConstants DEF PeerFit, PeerMet, PeerNone
  <2>6. \A p \in Procs : Len(peOutput[p]) <= MaxKnown
    BY <2>1, <2>2 DEF Pe!Init
  <2>. QED  BY <2>3, <2>4, <2>5, <2>6 DEF PeerInv
<1>3. PeerInv /\ [Pe!Next]_(Pe!vars) => PeerInv'
  BY <1>1, PeerNextInv
<1>. QED  BY <1>2, <1>3, PTL

(* The types hold in every state, for any processes, addresses and seeds: a   *)
(* file that was ever written has no more than MaxKnown peers.             *)
THEOREM PeerTypes == (Pe!Spec => []Pe!TypeOK) /\ (Spec => []Pe!TypeOK)
<1>1. PeerInv => Pe!TypeOK
  BY DEF PeerInv
<1>. QED  BY <1>1, PeerAlways, PeerAlone, PTL DEF Pe!Spec

(* No peer that a process is about to visit, the seeds excepted, has failed it *)
(* less than its delay ago (get_known_peers leaves those in backoff out, and   *)
(* _peer_failed lengthens the delay), for any processes, addresses and       *)
(* lengths of rounds, whatever the file said when it was read and whoever   *)
(* has rewritten or torn it since.                                          *)
THEOREM PeersAreLeftAlone == (Pe!Spec => []Pe!BacksOff) /\ (Spec => []BacksOff)
<1>1. Pe!PeerParams
  BY PartParams DEF PartParams
<1>2. PeerInv => Pe!BacksOff
  <2>1. SUFFICES ASSUME PeerInv, NEW p \in Syncers, NEW i \in DOMAIN peTodo[p]
                 PROVE  LET u == peTodo[p][i] IN
                          \/ Pe!IsSeed(u) \/ peOwn[p][u].count = 0
                          \/ peOwn[p][u].age >= Pe!Delay(peOwn[p][u].count)
    BY DEF Pe!BacksOff
  <2> DEFINE u == peTodo[p][i]
  <2>2. u \in Urls
    BY <2>1 DEF PeerInv, Pe!TypeOK
  <2>3. SUFFICES ASSUME ~Pe!IsSeed(u), peOwn[p][u].count # 0
                 PROVE  peOwn[p][u].age >= Pe!Delay(peOwn[p][u].count)
    OBVIOUS
  <2>4. ~Pe!InBackoff(peMem[p][u])
    BY <2>1, <2>3 DEF PeerInv, PeerFit
  <2>. HIDE DEF u
  <2>5. PICK f, g \in Pe!Failures : f = peMem[p][u] /\ g = peOwn[p][u]
    BY <2>1, <2>2 DEF PeerInv, Pe!TypeOK
  <2>6. f.count \in 0 .. MaxCount /\ g.count \in 0 .. MaxCount /\ MaxCount \in Nat
        /\ f.age \in Nat /\ g.age \in Nat
    BY <1>1, PeerConstants DEF Pe!Failures
  <2>7. g.count <= f.count /\ (g.count > 0 => g.age = f.age)
    BY <2>1, <2>2, <2>5 DEF PeerInv, PeerMet
  <2>8. g.count \in 1 .. MaxCount /\ f.count \in 1 .. MaxCount /\ f.age = g.age
    BY <2>3, <2>5, <2>6, <2>7
  <2>9. Pe!Delay(g.count) \in Nat /\ Pe!Delay(f.count) \in Nat /\ Pe!Delay(g.count) <= Pe!Delay(f.count)
    BY <1>1, <2>7, <2>8 DEF Pe!PeerParams
  <2>. HIDE DEF Pe!Delay
  <2>10. f.age >= Pe!Delay(f.count)
    BY <2>4, <2>5, <2>6, <2>8, <2>9 DEF Pe!InBackoff
  <2>. QED  BY <2>5, <2>6, <2>8, <2>9, <2>10
<1>3. Pe!Init /\ [][Pe!Next]_(Pe!vars) => []Pe!BacksOff
  BY <1>2, PeerAlways, PTL
<1>4. Pe!BacksOff => BacksOff
  BY DEF BacksOff
<1>. QED  BY <1>3, <1>4, PeerAlone, PTL DEF Pe!Spec
=============================================================================
