--------------------------- MODULE VerificationRules ---------------------------
(***************************************************************************)
(* What a verification plan, its evidence and a report say to one another: *)
(* packages/application/src/verification, and the two policies that read   *)
(* the result, completion-authorization-policy.ts and                      *)
(* complete-work-item.ts.                                                  *)
(***************************************************************************)
EXTENDS FiniteSets

\* EvidenceKind, EvidenceOutcome, VerificationOutcome.
EvidenceKinds == {"test-result", "command-result", "artifact-digest", "review-note", "attestation"}
EvidenceOutcomes == {"passed", "failed", "inconclusive"}
VerificationOutcomes == {"verified", "failed", "inconclusive", "requires-human-review"}

\* What a person has to look at, whatever its outcome.
HumanKinds == {"review-note", "attestation"}

\* Evidence on the criterion's own subject, of a kind it expects.
Matching(criterion, evidence) ==
  {e \in evidence : e.subject = criterion.subject /\ e.kind \in criterion.kinds}

\* evaluateCriterion: a failure first, then what is missing, then what is unclear.
CriterionOutcome(criterion, evidence) ==
  LET matching == Matching(criterion, evidence)
  IN IF \E e \in matching : e.outcome = "failed" THEN "failed"
     ELSE IF \/ \E k \in criterion.kinds : \A e \in matching : e.kind # k
             \/ \E e \in matching : e.outcome = "inconclusive"
     THEN "inconclusive"
     ELSE IF \E e \in matching : e.kind \in HumanKinds THEN "requires-human-review"
     ELSE "verified"

\* reportOutcome: what weighs most among the criteria.
ReportOutcome(results) ==
  IF "failed" \in results THEN "failed"
  ELSE IF "requires-human-review" \in results THEN "requires-human-review"
  ELSE IF "inconclusive" \in results THEN "inconclusive"
  ELSE "verified"

Evaluate(criteria, evidence) ==
  ReportOutcome({CriterionOutcome(c, evidence) : c \in criteria})

\* complete-work-item: the outcomes a completion may rest on.
Acceptable == {"verified", "requires-human-review"}

\* completion-authorization-policy: engineers may ask for work, not accept it.
Decisions == {"authorize-completion", "request-rework", "require-further-review"}
Roles == {"engineer", "reviewer", "maintainer", "owner"}
MayDecide(role, decision) == role # "engineer" \/ decision # "authorize-completion"

================================================================================
