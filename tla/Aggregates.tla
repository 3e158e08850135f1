------------------------------- MODULE Aggregates -------------------------------
(***************************************************************************)
(* The aggregates of packages/domain/src: what may become of a             *)
(* Specification, a Review, an Intent, a Release and a WorkItem.  They are *)
(* immutable: an operation throws, or returns a new value, which is what   *)
(* its caller goes on with (the next value of the variable).               *)
(*                                                                         *)
(* Titles and names are left out: rename changes nothing else.             *)
(***************************************************************************)
EXTENDS FiniteSets

CONSTANTS RequirementIds, ScenarioIds

VARIABLES
  spec,      \* its status, and the scenario ids of each of its requirements
  review,    \* its status and result
  intent, release, workItem   \* their status

domainVars == <<spec, review, intent, release, workItem>>

--------------------------------------------------------------------------------
(* Specification and Requirement                                           *)

SpecStatuses == {"draft", "in-review", "approved", "superseded", "archived"}

\* new Requirement: at least one scenario.  Ids are not repeated.
Requirements == SUBSET ScenarioIds \ {{}}

Held == {r \in RequirementIds : spec.requirements[r] # {}}
SetRequirement(r, scenarios) == spec' = [spec EXCEPT !.requirements[r] = scenarios]
IsDraft == spec.status = "draft"   \* ensureDraft
Move(status) == spec' = [spec EXCEPT !.status = status]
others == <<review, intent, release, workItem>>

AddRequirement(r, scenarios) ==
  /\ IsDraft /\ r \notin Held
  /\ SetRequirement(r, scenarios)
  /\ UNCHANGED others

\* Mutant: a requirement may go whatever the status.
RemoveAnyTime(r) ==
  /\ r \in Held
  /\ SetRequirement(r, {})
  /\ UNCHANGED others

RemoveRequirement(r) ==
  /\ IsDraft /\ r \in Held
  /\ SetRequirement(r, {})
  /\ UNCHANGED others

\* Requirement.addScenario and removeScenario, which the last one refuses.
WithScenario(scenarios, s) == IF s \in scenarios THEN {} ELSE {scenarios \cup {s}}
WithoutScenario(scenarios, s) == {scenarios \ {s}} \cap Requirements

\* updateRequirement with a changed one.
UpdateRequirement(r, s) ==
  /\ IsDraft /\ r \in Held
  /\ \E changed \in WithScenario(spec.requirements[r], s) \cup WithoutScenario(spec.requirements[r], s) :
       SetRequirement(r, changed)
  /\ UNCHANGED others

SubmitForReview == IsDraft /\ Held # {} /\ Move("in-review") /\ UNCHANGED others
ApproveSpec   == spec.status = "in-review" /\ Move("approved") /\ UNCHANGED others
SupersedeSpec == spec.status = "approved" /\ Move("superseded") /\ UNCHANGED others
ArchiveSpec   == spec.status # "archived" /\ Move("archived") /\ UNCHANGED others

SpecStep ==
  \/ \E r \in RequirementIds :
       \/ \E scenarios \in Requirements : AddRequirement(r, scenarios)
       \/ RemoveRequirement(r)
       \/ \E s \in ScenarioIds : UpdateRequirement(r, s)
  \/ SubmitForReview \/ ApproveSpec \/ SupersedeSpec \/ ArchiveSpec

--------------------------------------------------------------------------------
(* Review                                                                  *)

Conclude(from, status, result) ==
  /\ review.status \in from
  /\ review' = [status |-> status, result |-> result]
  /\ UNCHANGED <<spec, intent, release, workItem>>

StartReview == Conclude({"pending"}, "in-progress", "none")
CompleteReview ==
  \E result \in {"approved", "rejected", "changes-requested"} :
    Conclude({"in-progress"}, "completed", result)
CancelReview == Conclude({"pending", "in-progress", "cancelled"}, "cancelled", review.result)

ReviewStep == StartReview \/ CompleteReview \/ CancelReview

--------------------------------------------------------------------------------
(* Intent, Release and WorkItem: the status is all there is.               *)

\* approve, start, complete, cancel
IntentMoves ==
  {<<"draft", "approved">>, <<"approved", "in-progress">>, <<"in-progress", "completed">>}
    \cup ({"draft", "approved", "in-progress", "cancelled"} \X {"cancelled"})

\* markReady, publish, deprecate
ReleaseMoves == {<<"draft", "ready">>, <<"ready", "released">>, <<"released", "deprecated">>}

\* start, block, resume, complete, cancel
WorkItemMoves ==
  {<<"todo", "in-progress">>, <<"in-progress", "blocked">>, <<"blocked", "in-progress">>,
   <<"in-progress", "done">>}
    \cup ({"todo", "in-progress", "blocked", "cancelled"} \X {"cancelled"})

IntentStep  == \E m \in IntentMoves : intent = m[1] /\ intent' = m[2]
ReleaseStep == \E m \in ReleaseMoves : release = m[1] /\ release' = m[2]
WorkItemStep == \E m \in WorkItemMoves : workItem = m[1] /\ workItem' = m[2]

--------------------------------------------------------------------------------
(* The create use cases save an aggregate in its first status.             *)

DomainInit ==
  /\ spec = [status |-> "draft", requirements |-> [r \in RequirementIds |-> {}]]
  /\ review = [status |-> "pending", result |-> "none"]
  /\ intent = "draft" /\ release = "draft" /\ workItem = "todo"

DomainNext ==
  \/ SpecStep \/ ReviewStep
  \/ IntentStep /\ UNCHANGED <<spec, review, release, workItem>>
  \/ ReleaseStep /\ UNCHANGED <<spec, review, intent, workItem>>
  \/ WorkItemStep /\ UNCHANGED <<spec, review, intent, release>>

DomainSpec == DomainInit /\ [][DomainNext]_domainVars

================================================================================
