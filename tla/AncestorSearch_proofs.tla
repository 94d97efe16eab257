------------------------- MODULE AncestorSearch_proofs -------------------------
(***************************************************************************)
(* The search for a common commit, for every history, every factor of the   *)
(* gallop, every depth, and whatever the probes answer.                    *)
(***************************************************************************)
EXTENDS Parts, TLAPS

(* The interval between the distances answered no and yes.                 *)
SearchBracket ==
  /\ anLo <= anLast /\ anLast + 1 <= anHeight
  /\ anPc \in {"start", "newest"} => anAsked = {}
  /\ anPc = "gallop" => anDist >= 1 /\ anLo < anDist
  /\ anPc = "deepest" => anLo < anLast
  /\ anPc = "bisect" => anLo < anHi
  /\ anPc \in {"bisect", "report"} => anHi <= anLast
  /\ anPc \in {"gallop", "deepest"} => \A d \in anAsked : d <= anLo
  /\ anPc = "bisect" => \A d \in anAsked : d <= anLo \/ d >= anHi

(* While a probe is under way, the phase is one that asks.                 *)
SearchProbing == anAsking # 0 => An!Due

(* What the answers say, as long as distances keep their meaning.           *)
SearchAnswers ==
  /\ anPc # "done" => anFound = 0
  /\ ~anMoved /\ anAsking # 0 => anAsking = anHeight - An!At
  /\ ~anMoved /\ anPc \in {"bisect", "report"} => anHeight - anHi \in anGranted
  /\ An!FoundWasGranted

SearchInv == An!TypeOK /\ SearchBracket /\ SearchProbing /\ SearchAnswers

(* Distances are whole numbers, and a probe looks within reach.             *)
LEMMA SearchAtInReach == ASSUME An!TypeOK, SearchBracket, An!Due PROVE An!At \in 0..anLast
<1>1. CASE anPc = "newest"
  BY <1>1 DEF An!At, An!TypeOK, SearchBracket
<1>2. CASE anPc = "gallop"
  BY <1>2 DEF An!At, An!TypeOK, SearchBracket, An!Due
<1>3. CASE anPc = "deepest"
  BY <1>3 DEF An!At, An!TypeOK, SearchBracket
<1>4. CASE anPc = "bisect"
  <2>1. (anLo + anHi) \div 2 \in Nat /\ (anLo + anHi) \div 2 <= anHi
    BY <1>4 DEF An!TypeOK, SearchBracket
  <2>. QED  BY <1>4, <2>1 DEF An!At, An!TypeOK, SearchBracket
<1>. QED  BY <1>1, <1>2, <1>3, <1>4 DEF An!Due, An!Phases

(* The middle of an interval that is not closed lies strictly inside.       *)
LEMMA SearchMiddle ==
  ASSUME An!TypeOK, An!Due, anPc = "bisect"
  PROVE  anLo < An!At /\ An!At < anHi
  BY DEF An!TypeOK, An!Due, An!At

(* Growing keeps a positive distance positive and makes it greater.         *)
LEMMA SearchGrowth ==
  ASSUME An!SearchParams, NEW d \in Nat, d >= 1
  PROVE  An!Further(d) \in Nat /\ An!Further(d) > d
<1>1. K \in Nat /\ K >= 2
  BY DEF An!SearchParams
<1>2. d * K \in Nat /\ d * K >= d * 2
  BY <1>1
<1>. QED  BY <1>2 DEF An!Further

LEMMA SearchInitInv == An!SearchParams /\ An!Init => SearchInv
<1>. SUFFICES ASSUME An!SearchParams, An!Init PROVE SearchInv
  OBVIOUS
<1>1. MaxDepth \in Nat \ {0} /\ MaxHeight \in Nat /\ Retries \in Nat
  BY DEF An!SearchParams
<1>2. anHeight \in 1..MaxHeight /\ anLast \in Nat /\ anLast + 1 <= anHeight
  BY <1>1 DEF An!Init
<1>3. anHead \in 0..anHeight
  BY <1>2 DEF An!Init
<1>4. /\ anPc = "start" /\ anFailed = FALSE /\ anMoved = FALSE
      /\ anAsked = {} /\ anGranted = {} /\ anDenied = {}
  BY DEF An!Init
<1>5. anDist = 0 /\ anLo = 0 /\ anHi = 0 /\ anAsking = 0 /\ anTries = 0 /\ anFound = 0
  BY DEF An!Init
<1>6. An!TypeOK
  <2>1. anHeight \in Nat /\ anAsking \in 0..anHeight /\ anFound \in 0..anHeight /\ anTries \in 0..Retries
    BY <1>1, <1>2, <1>5
  <2>2. anAsked \in SUBSET Nat /\ anPc \in An!Phases \cup {"start", "report", "done"}
    BY <1>4
  <2>. QED  BY <1>2, <1>3, <1>4, <1>5, <2>1, <2>2 DEF An!TypeOK
<1>7. SearchBracket /\ SearchProbing /\ SearchAnswers
  BY <1>2, <1>3 DEF An!Init, SearchBracket, SearchProbing, SearchAnswers, An!FoundWasGranted
<1>. QED  BY <1>6, <1>7 DEF SearchInv

LEMMA SearchStepInv == An!SearchParams /\ SearchInv /\ [An!Next]_(An!vars) => SearchInv'
<1>. SUFFICES ASSUME An!SearchParams, SearchInv, [An!Next]_(An!vars) PROVE SearchInv'
  OBVIOUS
<1>. USE DEF An!SearchParams, An!world, An!answers
<1>1. CASE An!FastPath
  <2>1. An!TypeOK'
    BY <1>1 DEF SearchInv, An!TypeOK, An!FastPath
  <2>2. SearchBracket' /\ SearchProbing'
    BY <1>1 DEF SearchInv, An!TypeOK, SearchBracket, SearchProbing, An!Due, An!Phases, An!FastPath
  <2>3. SearchAnswers'
    BY <1>1
       DEF SearchInv, SearchAnswers, An!FoundWasGranted, SearchProbing, An!Due, An!Phases, An!FastPath
  <2>. QED  BY <2>1, <2>2, <2>3 DEF SearchInv
<1>2. CASE An!Start
  <2>1. An!TypeOK'
    BY <1>2 DEF SearchInv, An!TypeOK, An!Start, An!Phases
  <2>2. SearchBracket' /\ SearchProbing'
    BY <1>2 DEF SearchInv, An!TypeOK, SearchBracket, SearchProbing, An!Due, An!Phases, An!Start
  <2>3. SearchAnswers'
    BY <1>2
       DEF SearchInv, SearchAnswers, An!FoundWasGranted, SearchProbing, An!Due, An!Phases, An!Start
  <2>. QED  BY <2>1, <2>2, <2>3 DEF SearchInv
<1>3. CASE An!LookUp
  <2>1. An!At \in 0..anLast
    BY <1>3, SearchAtInReach DEF SearchInv, An!LookUp
  <2>2. anHeight - An!At \in 1..anHeight
    BY <2>1 DEF SearchInv, An!TypeOK, SearchBracket
  <2>3. An!TypeOK'
    BY <1>3, <2>2 DEF SearchInv, An!TypeOK, An!LookUp
  <2>4. SearchBracket' /\ SearchProbing'
    BY <1>3 DEF SearchInv, An!TypeOK, SearchBracket, SearchProbing, An!Due, An!LookUp
  <2>5. SearchAnswers'
    BY <1>3 DEF SearchInv, SearchAnswers, An!FoundWasGranted, An!At, An!LookUp
  <2>. QED  BY <2>3, <2>4, <2>5 DEF SearchInv
<1>4. CASE An!Yes
  <2>1. anAsking # 0 /\ An!Due
    BY <1>4 DEF An!Yes, An!Answered, SearchInv, SearchProbing
  <2>2. An!At \in 0..anLast
    BY <2>1, SearchAtInReach DEF SearchInv
  <2>3. An!TypeOK'
    BY <1>4, <2>2 DEF SearchInv, An!TypeOK, An!Yes, An!Answered, An!Phases
  <2>4. SearchProbing'
    BY <1>4 DEF An!Yes, An!Answered, SearchProbing
  <2>5. SearchBracket'
    <3>1. CASE anPc = "newest"
      BY <1>4, <2>2, <3>1 DEF SearchInv, An!TypeOK, SearchBracket, An!Yes, An!Answered
    <3>2. CASE anPc \in {"gallop", "deepest"}
      <4>1. anLo < An!At
        BY <2>1, <3>2 DEF SearchInv, SearchBracket, An!At
      <4>. QED  BY <1>4, <2>2, <3>2, <4>1
                DEF SearchInv, An!TypeOK, SearchBracket, An!Yes, An!Answered
    <3>3. CASE anPc = "bisect"
      <4>1. anLo < An!At /\ An!At < anHi
        BY <2>1, <3>3, SearchMiddle DEF SearchInv
      <4>. QED  BY <1>4, <2>2, <3>3, <4>1
                DEF SearchInv, An!TypeOK, SearchBracket, An!Yes, An!Answered
    <3>. QED  BY <2>1, <3>1, <3>2, <3>3 DEF An!Due, An!Phases
  <2>6. SearchAnswers'
    BY <1>4, <2>1
       DEF SearchInv, SearchAnswers, An!FoundWasGranted, An!Yes, An!Answered, An!Due, An!Phases
  <2>. QED  BY <2>3, <2>4, <2>5, <2>6 DEF SearchInv
<1>5. CASE An!No
  <2>1. anAsking # 0 /\ An!Due
    BY <1>5 DEF An!No, An!Answered, SearchInv, SearchProbing
  <2>2. An!At \in 0..anLast
    BY <2>1, SearchAtInReach DEF SearchInv
  <2>3. anPc = "gallop" => An!Further(anDist) \in Nat /\ An!Further(anDist) > anDist
    BY SearchGrowth DEF SearchInv, An!TypeOK, SearchBracket
  <2>4. anDist' \in Nat /\ anPc' \in An!Phases \cup {"done"}
    BY <1>5, <2>1, <2>3 DEF An!No, An!Due, An!Phases, SearchInv, An!TypeOK
  <2>5. An!TypeOK'
    BY <1>5, <2>2, <2>4 DEF SearchInv, An!TypeOK, An!No, An!Answered
  <2>6. SearchProbing'
    BY <1>5 DEF An!No, An!Answered, SearchProbing
  <2>7. SearchBracket'
    <3>1. CASE anPc = "newest"
      BY <1>5, <2>2, <3>1 DEF SearchInv, An!TypeOK, SearchBracket, An!No, An!Answered, An!At
    <3>2. CASE anPc = "gallop"
      BY <1>5, <2>2, <2>3, <3>2 DEF SearchInv, An!TypeOK, SearchBracket, An!No, An!Answered, An!At
    <3>3. CASE anPc = "deepest"
      BY <1>5, <2>2, <3>3 DEF SearchInv, An!TypeOK, SearchBracket, An!No, An!Answered
    <3>4. CASE anPc = "bisect"
      <4>1. anLo < An!At /\ An!At < anHi
        BY <2>1, <3>4, SearchMiddle DEF SearchInv
      <4>. QED  BY <1>5, <2>2, <3>4, <4>1
                DEF SearchInv, An!TypeOK, SearchBracket, An!No, An!Answered
    <3>. QED  BY <2>1, <3>1, <3>2, <3>3, <3>4 DEF An!Due, An!Phases
  <2>8. SearchAnswers'
    BY <1>5, <2>1
       DEF SearchInv, SearchAnswers, An!FoundWasGranted, An!No, An!Answered, An!Due, An!Phases, An!TypeOK
  <2>. QED  BY <2>5, <2>6, <2>7, <2>8 DEF SearchInv
<1>6. CASE An!Fail
  <2>1. An!TypeOK'
    <3>1. anTries' \in 0..Retries
      BY <1>6 DEF SearchInv, An!TypeOK, An!Fail
    <3>2. anAsking' = anAsking \/ anAsking' = 0
      BY <1>6 DEF An!Fail
    <3>3. anPc' = anPc \/ anPc' = "done"
      BY <1>6 DEF An!Fail
    <3>4. anFailed' \in BOOLEAN
      BY <1>6 DEF An!Fail, SearchInv, An!TypeOK
    <3>5. UNCHANGED <<anLast, anDist, anLo, anHi, An!answers, anFound, An!world>>
      BY <1>6 DEF An!Fail
    <3>. QED  BY <3>1, <3>2, <3>3, <3>4, <3>5 DEF SearchInv, An!TypeOK
  <2>2. SearchBracket' /\ SearchProbing'
    BY <1>6 DEF SearchInv, An!TypeOK, SearchBracket, SearchProbing, An!Due, An!Phases, An!Fail
  <2>3. anFound' = anFound /\ (anPc' = anPc \/ (anPc' = "done" /\ anAsking' = 0)) /\ An!Due
    BY <1>6 DEF An!Fail, SearchInv, SearchProbing
  <2>4. SearchAnswers'
    BY <1>6, <2>3 DEF SearchInv, SearchAnswers, An!FoundWasGranted, An!Fail, An!At
  <2>. QED  BY <2>1, <2>2, <2>4 DEF SearchInv
<1>7. CASE An!Exhausted
  <2>1. An!TypeOK'
    BY <1>7 DEF SearchInv, An!TypeOK, An!Exhausted, An!Phases
  <2>2. SearchBracket' /\ SearchProbing'
    BY <1>7 DEF SearchInv, An!TypeOK, SearchBracket, SearchProbing, An!Due, An!Phases, An!Exhausted
  <2>3. SearchAnswers'
    BY <1>7
       DEF SearchInv, SearchAnswers, An!FoundWasGranted, SearchProbing, An!Due, An!Exhausted, An!At, An!TypeOK, SearchBracket
  <2>. QED  BY <2>1, <2>2, <2>3 DEF SearchInv
<1>8. CASE An!Narrowed
  <2>1. An!TypeOK'
    BY <1>8 DEF SearchInv, An!TypeOK, An!Narrowed
  <2>2. SearchBracket' /\ SearchProbing'
    BY <1>8
       DEF SearchInv, An!TypeOK, SearchBracket, SearchProbing, An!Due, An!Phases, An!Narrowed, An!Close
  <2>3. SearchAnswers'
    BY <1>8, <2>2
       DEF SearchInv, SearchAnswers, An!FoundWasGranted, SearchProbing, An!Due, An!Narrowed, An!Close, An!TypeOK
  <2>. QED  BY <2>1, <2>2, <2>3 DEF SearchInv
<1>9. CASE An!Report
  <2>1. anHeight - anHi \in 1..anHeight
    BY <1>9 DEF SearchInv, An!TypeOK, SearchBracket, An!Report
  <2>2. An!TypeOK'
    BY <1>9, <2>1 DEF SearchInv, An!TypeOK, An!Report, An!Boundary
  <2>3. SearchBracket' /\ SearchProbing'
    BY <1>9 DEF SearchInv, An!TypeOK, SearchBracket, SearchProbing, An!Due, An!Phases, An!Report
  <2>4. SearchAnswers'
    BY <1>9
       DEF SearchInv, SearchAnswers, An!FoundWasGranted, SearchProbing, An!Due, An!Phases, An!Report, An!Boundary
  <2>. QED  BY <2>2, <2>3, <2>4 DEF SearchInv
<1>10. CASE An!LocalCommit
  <2>1. An!TypeOK'
    BY <1>10 DEF SearchInv, An!TypeOK, An!LocalCommit, An!search
  <2>2. SearchBracket' /\ SearchProbing'
    BY <1>10
       DEF SearchInv, An!TypeOK, SearchBracket, SearchProbing, An!Due, An!LocalCommit, An!search
  <2>3. SearchAnswers'
    BY <1>10 DEF SearchInv, SearchAnswers, An!FoundWasGranted, An!LocalCommit, An!search
  <2>. QED  BY <2>1, <2>2, <2>3 DEF SearchInv
<1>11. CASE UNCHANGED An!vars
  <2>1. UNCHANGED <<An!search, An!world>>
    BY <1>11 DEF An!vars
  <2>2. An!TypeOK'
    BY <2>1 DEF SearchInv, An!TypeOK, An!search
  <2>3. SearchBracket'
    BY <2>1 DEF SearchInv, SearchBracket, An!search
  <2>4. SearchProbing'
    BY <2>1 DEF SearchInv, SearchProbing, An!Due, An!search
  <2>5. An!At' = An!At
    BY <2>1 DEF An!At, An!search
  <2>6. SearchAnswers'
    BY <2>1, <2>5 DEF SearchInv, SearchAnswers, An!FoundWasGranted, An!search
  <2>. QED  BY <2>2, <2>3, <2>4, <2>6 DEF SearchInv
<1>. QED  BY <1>1, <1>2, <1>3, <1>4, <1>5, <1>6, <1>7, <1>8, <1>9, <1>10, <1>11
          DEF An!Next, An!Search

(* Behaviours of AncestorSearch, and what they are within those of the parts. *)
LEMMA SearchAlone == Spec => An!Init /\ [][An!Next]_(An!vars)
<1>1. Init => An!Init
  BY DEF Init
<1>2. Next => An!Next \/ anVars' = anVars
  BY DEF Next
<1>3. vars' = vars => anVars' = anVars
  BY DEF vars
<1>4. anVars' = anVars => UNCHANGED An!vars
  BY DEF anVars, An!vars, An!search, An!world, An!answers
<1>5. [Next]_vars => [An!Next]_(An!vars)
  BY <1>2, <1>3, <1>4
<1>. QED  BY <1>1, <1>5, PTL DEF Spec

LEMMA SearchAlways == An!Init /\ [][An!Next]_(An!vars) => []SearchInv
<1>1. An!SearchParams
  BY PartParams DEF PartParams
<1>2. An!Init => SearchInv
  BY <1>1, SearchInitInv
<1>3. SearchInv /\ [An!Next]_(An!vars) => SearchInv'
  BY <1>1, SearchStepInv
<1>. QED  BY <1>2, <1>3, PTL

(* The types hold in every state, for any depth, factor and retries.        *)
THEOREM SearchTypes == (An!Spec => []An!TypeOK) /\ (Spec => []An!TypeOK)
<1>1. SearchInv => An!TypeOK
  BY DEF SearchInv
<1>. QED  BY <1>1, SearchAlways, SearchAlone, PTL DEF An!Spec

(* Whatever the network fails and whatever the answers are worth: unless     *)
(* somebody commits during the search, its result was answered yes, or it    *)
(* is the HEAD of a remote that is behind; it is never a commit that was    *)
(* not asked for (search_monotonic_boundary, _hash_at).                     *)
THEOREM ResultWasGranted == (An!Spec => []An!FoundWasGranted) /\ (Spec => []FoundWasGranted)
<1>1. SearchInv => An!FoundWasGranted /\ FoundWasGranted
  BY DEF SearchInv, SearchAnswers, FoundWasGranted
<1>. QED  BY <1>1, SearchAlways, SearchAlone, PTL DEF An!Spec

(* No distance is asked for twice, even if HEAD moves meanwhile.            *)
THEOREM ProbesDiffer == (An!Spec => []An!NoProbeTwice) /\ (Spec => []NoProbeTwice)
<1>1. SearchInv => An!NoProbeTwice
  <2>. SUFFICES ASSUME SearchInv, anAsking # 0 PROVE An!At \notin anAsked
    BY DEF An!NoProbeTwice
  <2>1. An!Due
    BY DEF SearchInv, SearchProbing
  <2>2. CASE anPc = "newest"
    BY <2>2 DEF SearchInv, SearchBracket
  <2>3. CASE anPc \in {"gallop", "deepest"}
    <3>1. anLo < An!At /\ An!At \in Int
      BY <2>1, <2>3 DEF SearchInv, SearchBracket, An!At, An!TypeOK
    <3>2. \A d \in anAsked : d <= anLo /\ d \in Nat
      BY <2>3 DEF SearchInv, SearchBracket, An!TypeOK
    <3>. QED  BY <3>1, <3>2 DEF SearchInv, An!TypeOK
  <2>4. CASE anPc = "bisect"
    <3>1. anLo < An!At /\ An!At < anHi /\ An!At \in Int
      BY <2>1, <2>4, SearchMiddle, SearchAtInReach DEF SearchInv, An!TypeOK
    <3>2. \A d \in anAsked : (d <= anLo \/ d >= anHi) /\ d \in Nat
      BY <2>4 DEF SearchInv, SearchBracket, An!TypeOK
    <3>. QED  BY <3>1, <3>2 DEF SearchInv, An!TypeOK
  <2>. QED  BY <2>1, <2>2, <2>3, <2>4 DEF An!Due, An!Phases
<1>2. An!NoProbeTwice => NoProbeTwice
  BY DEF NoProbeTwice
<1>. QED  BY <1>1, <1>2, SearchAlways, SearchAlone, PTL DEF An!Spec

(* The commit after c was answered no, or there is none.                    *)
SearchTopmost(c) == c = anHeight \/ c + 1 \in anDenied

(* What was answered no, as long as distances keep their meaning.           *)
SearchExcluded ==
  /\ anPc \in {"gallop", "deepest", "bisect"} => anHeight - anLo \in anDenied
  /\ anPc = "report" => SearchTopmost(anHeight - anHi)
  /\ anPc = "done" /\ ~anFailed =>
       IF anFound = 0 THEN anHeight - anLast \in anDenied
                      ELSE anFound = anHead \/ SearchTopmost(anFound)

SearchDenials ==
  ~anMoved =>
    /\ anLast + 1 = (IF anHeight < MaxDepth THEN anHeight ELSE MaxDepth)
    /\ SearchExcluded

LEMMA SearchInitDenials == An!SearchParams /\ An!Init => SearchDenials
<1>. SUFFICES ASSUME An!SearchParams, An!Init PROVE SearchDenials
  OBVIOUS
<1>1. MaxDepth \in Nat \ {0} /\ anHeight \in Nat
  BY DEF An!SearchParams, An!Init
<1>. QED  BY <1>1 DEF An!Init, SearchDenials, SearchExcluded, SearchTopmost

(* Only the search itself changes what has been ruled out.                  *)
LEMMA SearchStepDenials == SearchInv /\ SearchDenials /\ [An!Next]_(An!vars) => SearchDenials'
<1>. SUFFICES ASSUME SearchInv, SearchDenials, [An!Next]_(An!vars) PROVE SearchDenials'
  OBVIOUS
<1>1. CASE An!FastPath
  BY <1>1 DEF SearchDenials, SearchExcluded, SearchTopmost, An!FastPath, An!world, An!answers
<1>2. CASE An!Start
  BY <1>2 DEF SearchDenials, SearchExcluded, SearchTopmost, An!Start, An!world, An!answers
<1>3. CASE An!LookUp
  BY <1>3 DEF SearchDenials, SearchExcluded, SearchTopmost, An!LookUp, An!world, An!answers
<1>4. CASE An!Yes
  <2>1. anAsking # 0 /\ An!Due /\ anPc \in An!Phases
    BY <1>4 DEF An!Yes, An!Answered, SearchInv, SearchProbing, An!Due
  <2>2. CASE anPc = "newest"
    BY <1>4, <2>2
       DEF SearchInv, An!TypeOK, SearchDenials, SearchExcluded, SearchTopmost, An!Yes, An!Answered, An!world, An!answers, An!At
  <2>3. CASE anPc # "newest"
    BY <1>4, <2>1, <2>3
       DEF SearchDenials, SearchExcluded, SearchTopmost, An!Yes, An!Answered, An!world, An!answers, An!Phases
  <2>. QED  BY <2>2, <2>3
<1>5. CASE An!No
  <2>1. anAsking # 0 /\ An!Due /\ anPc \in An!Phases
    BY <1>5 DEF An!No, An!Answered, SearchInv, SearchProbing, An!Due
  <2>2. ~anMoved => anHeight - anLo' \in anDenied'
    BY <1>5, <2>1 DEF An!No, An!Answered, SearchInv, SearchAnswers
  <2>3. anPc' \in An!Phases \/ (anPc = "deepest" /\ anPc' = "done" /\ anLo' = anLast)
    BY <1>5, <2>1 DEF An!No, An!Phases, An!At
  <2>4. anPc' = "done" => anFound' = 0
    BY <1>5, <2>1 DEF An!No, SearchInv, SearchAnswers, An!Phases
  <2>5. UNCHANGED <<An!world, anLast, anFailed>>
    BY <1>5 DEF An!No, An!Answered
  <2>. QED  BY <2>2, <2>3, <2>4, <2>5
            DEF SearchDenials, SearchExcluded, SearchTopmost, An!Phases, An!world, An!answers
<1>6. CASE An!Fail
  <2>1. anPc \in An!Phases
    BY <1>6 DEF An!Fail, SearchInv, SearchProbing, An!Due
  <2>2. anPc' = anPc \/ (anPc' = "done" /\ anFailed' = TRUE)
    BY <1>6 DEF An!Fail
  <2>3. UNCHANGED <<An!world, An!answers, anLast, anLo, anHi, anFound>>
    BY <1>6 DEF An!Fail
  <2>. QED  BY <2>1, <2>2, <2>3
            DEF SearchDenials, SearchExcluded, SearchTopmost, An!Phases, An!world, An!answers
<1>7. CASE An!Exhausted
  BY <1>7
     DEF SearchInv, SearchAnswers, SearchDenials, SearchExcluded, SearchTopmost, An!Exhausted, An!world, An!answers
<1>8. CASE An!Narrowed
  <2>1. anHi = anLo + 1
    BY <1>8 DEF An!Narrowed, An!Close, SearchInv, An!TypeOK, SearchBracket
  <2>2. anHeight - anHi + 1 = anHeight - anLo
    BY <2>1 DEF SearchInv, An!TypeOK
  <2>. QED  BY <1>8, <2>2
            DEF SearchDenials, SearchExcluded, SearchTopmost, An!Narrowed, An!world, An!answers
<1>9. CASE An!Report
  <2>1. anFound' = anHeight - anHi /\ anHeight - anHi # 0
    BY <1>9 DEF An!Report, An!Boundary, SearchInv, An!TypeOK, SearchBracket
  <2>. QED  BY <1>9, <2>1
            DEF SearchDenials, SearchExcluded, SearchTopmost, An!Report, An!world, An!answers
<1>10. CASE An!LocalCommit
  BY <1>10 DEF SearchDenials, SearchExcluded, SearchTopmost, An!LocalCommit
<1>11. CASE UNCHANGED An!vars
  BY <1>11
     DEF An!vars, An!search, An!world, An!answers, SearchDenials, SearchExcluded, SearchTopmost
<1>. QED  BY <1>1, <1>2, <1>3, <1>4, <1>5, <1>6, <1>7, <1>8, <1>9, <1>10, <1>11
          DEF An!Next, An!Search

(* Unless somebody commits during the search: the commit after its result was *)
(* answered no, or the result is HEAD; and it returns none, other than for    *)
(* want of an answer, only after the oldest commit within reach was answered  *)
(* no.  For any answers, depth, factor and retries                           *)
(* (search_monotonic_boundary).                                             *)
THEOREM ResultIsABoundary == (An!Spec => []An!FoundIsABoundary) /\ (Spec => []FoundIsABoundary)
<1>1. An!SearchParams
  BY PartParams DEF PartParams
<1>2. SearchInv /\ SearchDenials => An!FoundIsABoundary
  <2>. SUFFICES ASSUME SearchInv, SearchDenials, anPc = "done", ~anFailed, ~anMoved
                PROVE  IF anFound = 0 THEN An!Deepest \in anDenied
                       ELSE anFound = anHead \/ anFound = anHeight \/ anFound + 1 \in anDenied
    BY DEF An!FoundIsABoundary
  <2>1. An!Deepest = anHeight - anLast
    BY <1>1 DEF SearchDenials, An!Deepest, An!SearchParams, SearchInv, An!TypeOK
  <2>. QED  BY <2>1 DEF SearchDenials, SearchExcluded, SearchTopmost
<1>3. An!FoundIsABoundary => FoundIsABoundary
  BY DEF FoundIsABoundary
<1>4. An!Init => SearchInv /\ SearchDenials
  BY <1>1, SearchInitInv, SearchInitDenials
<1>5. SearchInv /\ SearchDenials /\ [An!Next]_(An!vars) => (SearchInv /\ SearchDenials)'
  BY <1>1, SearchStepInv, SearchStepDenials
<1>6. An!Init /\ [][An!Next]_(An!vars) => []An!FoundIsABoundary
  BY <1>2, <1>4, <1>5, PTL
<1>. QED  BY <1>3, <1>6, SearchAlone, PTL DEF An!Spec
=============================================================================
