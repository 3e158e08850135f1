-------------------------- MODULE StageApprovalPolicy --------------------------
(***************************************************************************)
(* The pure policy over the human decisions taken on the stages of a       *)
(* Change: createChangeStageApprovalPolicy of                              *)
(* packages/application/src/sdd/change-stage-approval-policy.ts.           *)
(*                                                                         *)
(* A decision is a record [stage, decision, version, digest].  Who took    *)
(* it, when and why is left out: the policy reads none of it.  Decisions   *)
(* on other Changes are left out too: every use filters them away first.   *)
(***************************************************************************)
EXTENDS Naturals

CONSTANT Digests     \* the content digests a Change may be proposed with

Versions == 1 .. 2   \* "1" for a new Change, "2" for one the provider holds

Stages == {"proposal", "design", "task-plan", "apply-readiness",
           "verification-completion"}

\* stageOrder: a stage requires every stage of a smaller rank.
StageRank ==
  [s \in Stages |->
     CASE s = "proposal"                -> 1
       [] s = "design"                  -> 2
       [] s = "task-plan"               -> 3
       [] s = "apply-readiness"         -> 4
       [] s = "verification-completion" -> 5]

Decisions == {"approve", "request-rework", "reject"}

RequiredStages(stage) == {s \in Stages : StageRank[s] <= StageRank[stage]}

DecisionsOn(ds, s, v, d) ==
  {x \in ds : x.stage = s /\ x.version = v /\ x.digest = d}

\* A request-rework or a reject of the same snapshot blocks its stage, whatever
\* approvals came before or after it.
Blocked(ds, s, v, d) ==
  \E x \in DecisionsOn(ds, s, v, d) : x.decision \in {"request-rework", "reject"}

Approved(ds, s, v, d) ==
  \E x \in DecisionsOn(ds, s, v, d) : x.decision = "approve"

\* Mutant: approvals are counted, decisions that block are not.
AllowedDespiteVeto(ds, stage, v, d) ==
  \A s \in RequiredStages(stage) : Approved(ds, s, v, d)

\* evaluate(...).allowed
Allowed(ds, stage, v, d) ==
  \A s \in RequiredStages(stage) : ~Blocked(ds, s, v, d) /\ Approved(ds, s, v, d)

================================================================================
