-------------------------------- MODULE TaskPlan --------------------------------
(***************************************************************************)
(* TaskOrchestrator.plan: the next step that `yh task plan` announces, from *)
(* a snapshot of what is on record (task-orchestrator.ts).                 *)
(*                                                                         *)
(* A snapshot is a record: `item` the WorkItem's status; `specification`   *)
(* and `change` "missing", "drifted" from the binding, or "current" (and   *)
(* "draft" for a Specification nobody approved); `approvals` the decision  *)
(* found for each stage; `materialization`; `execution` "none" or the      *)
(* status of the latest trace; `verification` "none" or the outcome of its *)
(* latest report.  Tasks are part of the Change's digest, so a Change that *)
(* is "current" still has the tasks that were bound with it.               *)
(***************************************************************************)
EXTENDS Sequences, SequencesExt

ApprovalStages == <<"proposal", "design", "task-plan", "apply-readiness">>

Answer(phase, action) == [phase |-> phase, action |-> action]

\* The first stage whose approval is missing, or was refused.
OpenStages(snapshot) ==
  SelectSeq(ApprovalStages, LAMBDA stage : snapshot.approvals[stage] # "approve")

\* The checks in the order the orchestrator makes them.
Rules(s) ==
  << <<s.item = "done",                     Answer("completed", "none")>>,
     <<s.item # "in-progress",              Answer("blocked", "none")>>,
     <<s.specification \in {"missing", "draft"}, Answer("needs-context", "none")>>,
     <<s.specification = "drifted",         Answer("needs-context", "rebind-work-item")>>,
     <<s.change = "missing",                Answer("needs-context", "none")>>,
     <<s.materialization = "recovery-required", Answer("blocked", "none")>>,
     <<s.change = "drifted",                Answer("needs-context", "rebind-work-item")>>,
     <<OpenStages(s) # <<>>,                Answer("awaiting-approval", "approve-change-stage")>>,
     <<s.materialization = "not-materialized", Answer("ready-for-apply", "apply-change")>>,
     <<s.execution = "none",                Answer("ready-for-execution", "execute-work-item")>>,
     <<s.execution # "completed",           Answer("blocked", "none")>>,
     <<s.verification = "none",             Answer("awaiting-verification", "record-evidence-and-verify")>>,
     <<s.verification \in {"verified", "requires-human-review"},
                                            Answer("ready-for-completion", "authorize-completion")>>,
     <<TRUE,                                Answer("blocked", "none")>> >>

Plan(snapshot) ==
  LET rules == Rules(snapshot)
  IN rules[SelectInSeq(rules, LAMBDA rule : rule[1])][2]

================================================================================
