----------------------------- MODULE MCChangeApply -----------------------------
(***************************************************************************)
(* Small instances of ChangeApply for TLC.                                 *)
(***************************************************************************)
EXTENDS ChangeApplyProps, TLC

CONSTANTS d1, d2, p1, p2

MCDigests  == {d1, d2}
OneProc    == {p1}
TwoProcs   == {p1, p2}
NewChange  == {Absent}
Existing   == {d1}
NewOrExisting == {Absent, d1}

Symmetry == Permutations(TwoProcs)

\* What reviewers enter.  The policy treats request-rework as it treats reject.
Approvals == {s \in Stages \X {"approve"} : s[1] # "verification-completion"}
ApprovalsAndVeto == Approvals \cup {<<"design", "reject">>}

\* A handoff that replaces d1 by d2, with some of its stages approved.
Proposal(stages) ==
  /\ content = d1
  /\ handoffs = <<[base |-> d1, version |-> 2, digest |-> d2]>>
  /\ approvals = {[stage |-> s, decision |-> "approve", version |-> 2, digest |-> d2] : s \in stages}
  /\ log = <<>> /\ audits = {}
  /\ job = [p \in Procs |-> Idle]
  /\ overtaken = [p \in Procs |-> 0]
  /\ attempts = 0 /\ crashes = 0 /\ ioErrors = 0 /\ edits = 0

\* Ready to apply.
ReadySpec == Proposal(ApplyStages) /\ [][Next]_vars

\* Where the races start: the reviewers of the last two stages are still at work,
\* and applies and proposals beside them.
RaceInputs == {<<"task-plan", "approve">>, <<"apply-readiness", "approve">>}
RaceSpec == Proposal({"proposal", "design"}) /\ [][Next]_vars

================================================================================
