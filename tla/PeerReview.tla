------------------------------ MODULE PeerReview ------------------------------
(***************************************************************************)
(* What peer review promises about an article, without timers, accounts,   *)
(* repositories or tables: nothing is published that too few people        *)
(* approved, a verdict is given in the pool only, rejection is final, and  *)
(* whatever is published keeps its approvals for as long as it stays so.   *)
(***************************************************************************)
EXTENDS Naturals

CONSTANTS Articles, MinApprovals

VARIABLES
  stage,      \* where the article is in its life
  approvals   \* how many approvals count for it now

vars == <<stage, approvals>>

Stages == {"absent", "draft", "sedimentation", "published", "rejected", "deleted"}

Init ==
  /\ stage = [a \in Articles |-> "absent"]
  /\ approvals = [a \in Articles |-> 0]

Move(a, from, to) ==
  /\ stage[a] = from
  /\ stage' = [stage EXCEPT ![a] = to]

(* A draft is nobody's to judge.                                           *)
Draft(a) == Move(a, "absent", "draft") /\ UNCHANGED approvals

Withdraw(a) ==
  /\ Move(a, "draft", "deleted")
  /\ approvals' = [approvals EXCEPT ![a] = 0]

(* The approvals of one article are counted anew.                          *)
Assessed(a) ==
  /\ approvals' = [approvals EXCEPT ![a] = approvals'[a]]
  /\ approvals'[a] \in Nat

Submit(a) == Move(a, "draft", "sedimentation") /\ Assessed(a)

Assess(a) ==
  /\ stage[a] \in {"sedimentation", "published"}
  /\ Assessed(a)
  /\ stage[a] = "published" => approvals'[a] >= approvals[a]
  /\ UNCHANGED stage

Accept(a) ==
  /\ approvals[a] >= MinApprovals
  /\ Move(a, "sedimentation", "published")
  /\ UNCHANGED approvals

Reject(a) ==
  /\ approvals[a] < MinApprovals
  /\ Move(a, "sedimentation", "rejected")
  /\ UNCHANGED approvals

Reopen(a) == Move(a, "published", "sedimentation") /\ Assessed(a)

Next == \E a \in Articles :
  \/ Draft(a)
  \/ Withdraw(a)
  \/ Submit(a)
  \/ Assess(a)
  \/ Accept(a)
  \/ Reject(a)
  \/ Reopen(a)

Spec == Init /\ [][Next]_vars
=============================================================================
