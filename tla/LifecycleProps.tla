----------------------------- MODULE LifecycleProps -----------------------------
(***************************************************************************)
(* What the lifecycles of governed Changes and of the domain's aggregates  *)
(* have to guarantee.                                                      *)
(***************************************************************************)
EXTENDS GovernedChange, Aggregates

\* A Change is only completed, or approved, or executing, on a content for which
\* people have approved every stage that this takes, though transitions overlap
\* and decisions are taken between the reading and the saving.
StagesOf(status) ==
  IF status = "completed" THEN Stages
  ELSE IF status \in {"approved", "executing"} THEN Stages \ {"verification-completion"}
  ELSE {}
RecordsAreApproved ==
  \A k \in DOMAIN records :
    /\ \A s \in StagesOf(records[k].status) :
         Approved(decisions, s, records[k].subject.version, records[k].subject.digest)
    /\ records[k].status = "completed" => records[k].authorized

\* While calls do not overlap and each has a later stamp, a record continues the
\* one before it by a legal step: nothing comes after a final status, and a Change
\* starts proposed.  (Nothing holds the calls apart: see the hazards.)
HistoryIsALadder ==
  crossings = 0 =>
    \A k \in DOMAIN records :
      LET before == IF k = 1 THEN "none" ELSE records[k - 1].status
      IN /\ records[k].previous = before
         /\ IF k = 1 THEN records[k].status = "proposed"
            ELSE records[k].status \in Transitions[before]

\* A Specification is approved, and superseded, with what it was submitted with:
\* at least one requirement, which no order of adding, removing, updating and
\* moving on changes once it is under review, nor is it a draft again.  (archive()
\* takes a draft that is empty as well: archived says nothing of content.)  And a
\* Review has a result exactly if it was completed, however it was cancelled.
WhatIsReviewedStands ==
  [][/\ spec'.status \in {"in-review", "approved", "superseded"} =>
          \E r \in RequirementIds : spec'.requirements[r] # {}
     /\ spec.status # "draft" =>
          spec'.status # "draft" /\ spec'.requirements = spec.requirements
     /\ review'.result # "none" <=> review'.status = "completed"]_domainVars

================================================================================
