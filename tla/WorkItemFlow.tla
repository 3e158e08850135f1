------------------------------ MODULE WorkItemFlow ------------------------------
(***************************************************************************)
(* The life of WorkItems from creation to an authorized completion, as the *)
(* commands `yh work create | bind | start | select | execute | authorize` *)
(* and `yh verification evidence record | plan create | evaluate` drive it *)
(* over the file store (src/cli/commands/register-work-item-commands.ts,   *)
(* register-verification-commands.ts and the use cases they call).         *)
(*                                                                         *)
(* As in ChangeApply a command is a process without a lock.  An action is  *)
(* one access to a record that may change; a record that cannot change any *)
(* more (a trace, a report) is read in the action beside it.  What a       *)
(* command has read, and means to write, is its `job`.                     *)
(***************************************************************************)
EXTENDS Integers, Sequences, FiniteSets, VerificationRules, TaskPlan

CONSTANTS
  Procs,            \* command invocations that may run at the same time
  Items,            \* WorkItems
  Revisions,        \* contentDigests the Specification may have
  ChangeRevisions,  \* contentDigests the Change may have
  Reqs, ReqsOf,     \* the Requirements of each revision
  NoChange,         \* a binding without --change
  RequireChange,    \* runtime.requireSddChangeTraceability
  EvidenceIds, PlanIds,                         \* ids operators type, per terminal
  EvidenceInputs, CriteriaInputs, DecisionInputs,   \* and what else they type
  MaxCommands, MaxTraces, MaxReports, MaxEdits, MaxCrashes          \* bounds

ASSUME WorkItemAssumption ==
  /\ ReqsOf \in [Revisions -> SUBSET Reqs]
  /\ NoChange \notin ChangeRevisions
  /\ RequireChange \in BOOLEAN
  /\ EvidenceInputs \subseteq [subject : Reqs, kind : EvidenceKinds, outcome : EvidenceOutcomes]
  /\ CriteriaInputs \subseteq SUBSET [subject : Reqs, kinds : SUBSET EvidenceKinds]
  /\ \A criteria \in CriteriaInputs : criteria # {} /\ \A c \in criteria : c.kinds # {}
  /\ DecisionInputs \subseteq Roles \X Decisions

VARIABLES
  source,      \* what the provider projects: the Specification's and the Change's digest
  governed,    \* the handoff of the Change and how far it is: see ChangeApply
  item,        \* status of each WorkItem, "none" before it is created
  binding, selection,                    \* of each WorkItem, at most one
  traces,      \* ExecutionTraces in recordedAt order
  evidence, plans, authorizations,
  reports,     \* VerificationReports in createdAt order
  job,         \* what each running command has read and goes on to do
  commands, edits, crashes               \* how many there were

store  == <<item, binding, selection, traces, evidence, plans, reports, authorizations>>
world  == <<source, governed>>
counts == <<commands, edits, crashes>>
vars   == <<world, store, job, counts>>

Statuses == {"none", "todo", "in-progress", "done"}

Binding   == [spec : Revisions, change : ChangeRevisions \cup {NoChange}]
Selection == [spec : Revisions, reqs : SUBSET Reqs]
None      == [none |-> TRUE]

\* How the runtimes end: an error of a session, or of its tools, is an answer.
RuntimeStatuses == {"completed", "failed"}

Trace == [item : Items, spec : Revisions, change : ChangeRevisions \cup {NoChange},
          reqs : SUBSET Reqs, status : RuntimeStatuses]
Evidence == [id : UNION {EvidenceIds[p] : p \in Procs}, trace : 1 .. MaxTraces, subject : Reqs,
             kind : EvidenceKinds, outcome : EvidenceOutcomes]
Criterion == [subject : Reqs, kinds : SUBSET EvidenceKinds]
VerificationPlan == [id : UNION {PlanIds[p] : p \in Procs}, trace : 0 .. MaxTraces, spec : Revisions,
                     criteria : SUBSET Criterion]
Report == [trace : 1 .. MaxTraces, outcome : VerificationOutcomes,
           criteria : SUBSET Criterion]
Authorization == [item : Items, report : 1 .. MaxReports, decision : Decisions, role : Roles]

Job ==
  [pc : {"idle"}]
  \cup [pc : {"save-created", "save-started"}, item : Items]
  \cup [pc : {"save-binding"}, item : Items, binding : Binding]
  \cup [pc : {"save-selection"}, item : Items, selection : Selection]
  \cup [pc : {"find-selection"}, item : Items, binding : Binding]
  \cup [pc : {"read-source"}, item : Items, binding : Binding, selection : Selection]
  \cup [pc : {"run"}, item : Items, trace : Trace]
  \cup [pc : {"save-evidence"}, evidence : Evidence]
  \cup [pc : {"save-plan"}, plan : VerificationPlan]
  \cup [pc : {"save-report"}, report : Report]
  \cup [pc : {"save-done", "save-authorization"}, authorization : Authorization]

Idle == [pc |-> "idle"]

At(p, point) == job[p].pc = point
Goto(p, next) == job' = [job EXCEPT ![p] = next]
Finish(p) == Goto(p, Idle)

\* Somebody types a command, in a terminal where none is running.
Begin(p) ==
  /\ At(p, "idle")
  /\ commands < MaxCommands
  /\ commands' = commands + 1
  /\ UNCHANGED <<world, store, edits, crashes>>

\* Bounds, not code: room for one more record beside those on their way.
Room(records, points, max) ==
  Len(records) + Cardinality({p \in Procs : job[p].pc \in points}) < max

--------------------------------------------------------------------------------
(* yh work create, start                                                   *)

Create(p, i) ==
  /\ Begin(p)
  /\ item[i] = "none"
  /\ Goto(p, [pc |-> "save-created", item |-> i])

\* WorkItem.start refuses a WorkItem that is not to do.
Start(p, i) ==
  /\ Begin(p)
  /\ item[i] = "todo"
  /\ Goto(p, [pc |-> "save-started", item |-> i])

SaveItem(p) ==
  /\ job[p].pc \in {"save-created", "save-started"}
  /\ item' = [item EXCEPT ![job[p].item] = IF At(p, "save-created") THEN "todo" ELSE "in-progress"]
  /\ Finish(p)
  /\ UNCHANGED <<world, binding, selection, traces, evidence, plans, reports, authorizations, counts>>

--------------------------------------------------------------------------------
(* yh work bind, select                                                    *)

\* resolveExecutionSource: what the provider holds now, with a Change or without.
ResolvedSources == {[spec |-> source.spec, change |-> change] : change \in {source.change, NoChange}}

\* What is resolved at this moment is what the command approves.
Bind(p, i, change) ==
  /\ Begin(p)
  /\ item[i] # "none"
  /\ \E resolved \in ResolvedSources :
       /\ resolved.change = change
       /\ Goto(p, [pc |-> "save-binding", item |-> i, binding |-> resolved])

SaveBinding(p) ==
  /\ At(p, "save-binding")
  /\ binding' = [binding EXCEPT ![job[p].item] = job[p].binding]
  /\ Finish(p)
  /\ UNCHANGED <<world, item, selection, traces, evidence, plans, reports, authorizations, counts>>

\* A scope names at least one Requirement, and only those of the Specification.
CanBeScope(reqs) == reqs # {} /\ reqs \subseteq ReqsOf[source.spec]

\* The selection is of the Specification as it is now, not as it was bound.
Select(p, i, reqs) ==
  /\ Begin(p)
  /\ binding[i] # None
  /\ CanBeScope(reqs)
  /\ Goto(p, [pc |-> "save-selection", item |-> i,
              selection |-> [spec |-> source.spec, reqs |-> reqs]])

SaveSelection(p) ==
  /\ At(p, "save-selection")
  /\ selection' = [selection EXCEPT ![job[p].item] = job[p].selection]
  /\ Finish(p)
  /\ UNCHANGED <<world, item, binding, traces, evidence, plans, reports, authorizations, counts>>

--------------------------------------------------------------------------------
(* yh work execute                                                         *)

Execute(p, i) ==
  /\ Begin(p)
  /\ Room(traces, {"find-selection", "read-source", "run"}, MaxTraces)
  /\ binding[i] # None
  /\ Goto(p, [pc |-> "find-selection", item |-> i, binding |-> binding[i]])

\* WORK_ITEM_SCOPE_REQUIRED unless a selection was confirmed.
FindSelection(p) ==
  /\ At(p, "find-selection")
  /\ LET i == job[p].item
     IN IF selection[i] = None
        THEN Finish(p)
        ELSE Goto(p, [pc |-> "read-source", item |-> i, binding |-> job[p].binding,
                      selection |-> selection[i]])
  /\ UNCHANGED <<world, store, counts>>

\* evaluateSddDrift; the orchestrator compares the Change's digests alike.
Drift(approved, current) == IF approved = current THEN "current" ELSE "drifted"

SpecificationStands(bound) == Drift(bound.spec, source.spec) = "current"
ChangeStands(bound) == bound.change = NoChange \/ Drift(bound.change, source.change) = "current"

\* WORK_ITEM_SCOPE_STALE otherwise: the scope was confirmed on another revision.
ScopeStands(selected) == selected.spec = source.spec

\* ExecutionEligibilityPolicy; what is bound was approved with its binding.
IsEligible(bound) == RequireChange => bound.change # NoChange

\* Mutant: the selection's own digest is not compared.
EligibleStaleScope(bound, selected) ==
  SpecificationStands(bound) /\ ChangeStands(bound) /\ IsEligible(bound)

Eligible(bound, selected) ==
  SpecificationStands(bound) /\ ChangeStands(bound) /\ ScopeStands(selected) /\ IsEligible(bound)

\* What the trace will say of the execution: the revisions and the requirements
\* that were assembled into the runtime's context.
ExecutionOf(i, bound, selected) ==
  [item |-> i, spec |-> source.spec, change |-> bound.change, reqs |-> selected.reqs,
   status |-> "completed"]

ReadSource(p) ==
  /\ At(p, "read-source")
  /\ LET bound == job[p].binding  selected == job[p].selection
     IN IF ~Eligible(bound, selected)
        THEN Finish(p)
        ELSE Goto(p, [pc |-> "run", item |-> job[p].item,
                      trace |-> ExecutionOf(job[p].item, bound, selected)])
  /\ UNCHANGED <<world, store, counts>>

SaveTrace(p, status) ==
  /\ At(p, "run")
  /\ status \in RuntimeStatuses
  /\ traces' = Append(traces, [job[p].trace EXCEPT !.status = status])
  /\ Finish(p)
  /\ UNCHANGED <<world, item, binding, selection, evidence, plans, reports, authorizations, counts>>

\* The runtime's guard refuses the workspace: an error, and no trace.
RuntimeThrows(p) ==
  /\ At(p, "run")
  /\ Finish(p)
  /\ UNCHANGED <<world, store, counts>>

--------------------------------------------------------------------------------
(* yh verification evidence record, plan create, evaluate                  *)

\* The trace must be known, and the id new: records are immutable.
RecordEvidence(p, id, t, input) ==
  /\ Begin(p)
  /\ t \in DOMAIN traces
  /\ \A e \in evidence : e.id # id
  /\ Goto(p, [pc |-> "save-evidence",
              evidence |-> [id |-> id, trace |-> t, subject |-> input.subject,
                            kind |-> input.kind, outcome |-> input.outcome]])

\* The file is named after the id: what was there since the check is replaced.
SaveEvidence(p) ==
  /\ At(p, "save-evidence")
  /\ evidence' = {e \in evidence : e.id # job[p].evidence.id} \cup {job[p].evidence}
  /\ Finish(p)
  /\ UNCHANGED <<world, item, binding, selection, traces, plans, reports, authorizations, counts>>

\* An id that no execution has.
UnknownTrace == 0

\* The trace, the revision and the criteria are as typed: nothing is looked up.
CreatePlan(p, id, t, spec, criteria) ==
  /\ Begin(p)
  /\ \A plan \in plans : plan.id # id
  /\ Goto(p, [pc |-> "save-plan",
              plan |-> [id |-> id, trace |-> t, spec |-> spec, criteria |-> criteria]])

SavePlan(p) ==
  /\ At(p, "save-plan")
  /\ plans' = {plan \in plans : plan.id # job[p].plan.id} \cup {job[p].plan}
  /\ Finish(p)
  /\ UNCHANGED <<world, item, binding, selection, traces, evidence, reports, authorizations, counts>>

\* Mutant: evidence of any execution counts.
EvaluateAnyTrace(p, plan) ==
  /\ Begin(p)
  /\ Room(reports, {"save-report"}, MaxReports)
  /\ plan.trace \in DOMAIN traces /\ traces[plan.trace].spec = plan.spec
  /\ Goto(p, [pc |-> "save-report",
              report |-> [trace |-> plan.trace, criteria |-> plan.criteria,
                          outcome |-> Evaluate(plan.criteria, evidence)]])

\* The trace must be found, and the plan name the revision it is of.
EvaluatePlan(p, plan) ==
  /\ Begin(p)
  /\ Room(reports, {"save-report"}, MaxReports)
  /\ plan.trace \in DOMAIN traces /\ traces[plan.trace].spec = plan.spec
  /\ LET scoped == {e \in evidence : e.trace = plan.trace}
     IN Goto(p, [pc |-> "save-report",
                 report |-> [trace |-> plan.trace, criteria |-> plan.criteria,
                             outcome |-> Evaluate(plan.criteria, scoped)]])

SaveReport(p) ==
  /\ At(p, "save-report")
  /\ reports' = Append(reports, job[p].report)
  /\ Finish(p)
  /\ UNCHANGED <<world, item, binding, selection, traces, evidence, plans, authorizations, counts>>

--------------------------------------------------------------------------------
(* yh work authorize                                                       *)

\* Mutant: the report may be about another WorkItem's execution.
LinkedToAny(a) == item[a.item] # "none"

\* What CompleteWorkItemUseCase asks of any decision, and of a completion.
Linked(a) == item[a.item] # "none" /\ traces[reports[a.report].trace].item = a.item
Completes(a) == reports[a.report].outcome \in Acceptable /\ item[a.item] = "in-progress"

\* The policy of roles comes first; a refusal of any kind ends the command.
Authorize(p, a) ==
  /\ Begin(p)
  /\ MayDecide(a.role, a.decision)
  /\ Linked(a)
  /\ \/ /\ a.decision = "authorize-completion" /\ Completes(a)
        /\ Goto(p, [pc |-> "save-done", authorization |-> a])
     \/ /\ a.decision # "authorize-completion"
        /\ Goto(p, [pc |-> "save-authorization", authorization |-> a])

\* The WorkItem is saved as done before the decision itself is.
SaveDone(p) ==
  /\ At(p, "save-done")
  /\ item' = [item EXCEPT ![job[p].authorization.item] = "done"]
  /\ Goto(p, [job[p] EXCEPT !.pc = "save-authorization"])
  /\ UNCHANGED <<world, binding, selection, traces, evidence, plans, reports, authorizations, counts>>

SaveAuthorization(p) ==
  /\ At(p, "save-authorization")
  /\ authorizations' = authorizations \cup {job[p].authorization}
  /\ Finish(p)
  /\ UNCHANGED <<world, item, binding, selection, traces, evidence, plans, reports, counts>>

--------------------------------------------------------------------------------
(* The environment                                                         *)

Crash(p) ==
  /\ ~At(p, "idle")
  /\ crashes < MaxCrashes
  /\ crashes' = crashes + 1
  /\ Finish(p)
  /\ UNCHANGED <<world, store, commands, edits>>

\* A person edits the Specification or the Change.
Edit(spec, change) ==
  /\ edits < MaxEdits
  /\ edits' = edits + 1
  /\ source' = [spec |-> spec, change |-> change]
  /\ source' # source
  /\ UNCHANGED <<governed, store, job, commands, crashes>>

GovernedChangeIs(change, approved, status) ==
  governed' = [change |-> change, approved |-> approved, status |-> status]

\* Another handoff is current: nobody has approved it.
ProposeChange(change) ==
  /\ edits < MaxEdits
  /\ edits' = edits + 1
  /\ change # governed.change
  /\ GovernedChangeIs(change, FALSE, governed.status)
  /\ UNCHANGED <<source, store, job, commands, crashes>>

\* All its stages are approved; it is applied, or the attempt dies, having written
\* the provider or not, and recover begins; recover concludes one way or the other.
GovernedChangeMoves ==
  /\ \/ /\ governed.change # NoChange /\ ~governed.approved
        /\ GovernedChangeIs(governed.change, TRUE, governed.status)
        /\ UNCHANGED source
     \/ /\ governed.approved /\ governed.status = "not-materialized"
        /\ \E status \in {"materialized", "recovery-required"} :
             GovernedChangeIs(governed.change, TRUE, status)
        /\ source' \in {source, [source EXCEPT !.change = governed.change]}
        /\ governed'.status = "materialized" => source'.change = governed.change
     \/ /\ governed.status = "recovery-required"
        /\ GovernedChangeIs(governed.change, governed.approved,
             IF source.change = governed.change THEN "materialized" ELSE "not-materialized")
        /\ UNCHANGED source
  /\ UNCHANGED <<store, job, counts>>

--------------------------------------------------------------------------------
(* yh task plan                                                            *)

\* The latest trace of the WorkItem, and the latest report of its plans.
TracesOf(i) == {t \in DOMAIN traces : traces[t].item = i}
AnyReports(t) == DOMAIN reports   \* mutant: whatever it is a report on
ReportsOn(t) == {r \in DOMAIN reports : reports[r].trace = t}
Latest(numbers) == CHOOSE n \in numbers : \A m \in numbers : m <= n

\* A provider that no longer holds what was materialized needs a recovery, too.
Materialization ==
  IF \/ governed.status = "recovery-required"
     \/ governed.status = "materialized" /\ source.change # governed.change
  THEN "recovery-required" ELSE governed.status

\* What the command collects: the binding against the provider, the governed Change,
\* the execution and the verification.  Its eight reads, each of one moment, are one.
Snapshot(i) ==
  [item |-> item[i],
   specification |-> IF binding[i] = None THEN "missing" ELSE Drift(binding[i].spec, source.spec),
   change |-> IF binding[i] = None \/ binding[i].change = NoChange THEN "missing"
              ELSE Drift(binding[i].change, source.change),
   approvals |-> [stage \in {"proposal", "design", "task-plan", "apply-readiness"} |->
                    IF governed.approved THEN "approve" ELSE "none"],
   materialization |-> Materialization,
   execution |-> IF TracesOf(i) = {} THEN "none" ELSE traces[Latest(TracesOf(i))].status,
   verification |->
     IF TracesOf(i) = {} \/ ReportsOn(Latest(TracesOf(i))) = {} THEN "none"
     ELSE reports[Latest(ReportsOn(Latest(TracesOf(i))))].outcome]

--------------------------------------------------------------------------------

Init ==
  /\ source \in [spec : Revisions, change : ChangeRevisions]
  /\ governed = [change |-> NoChange, approved |-> FALSE, status |-> "not-materialized"]
  /\ item = [i \in Items |-> "none"]
  /\ binding = [i \in Items |-> None]
  /\ selection = [i \in Items |-> None]
  /\ traces = <<>> /\ reports = <<>>
  /\ evidence = {} /\ plans = {} /\ authorizations = {}
  /\ job = [p \in Procs |-> Idle]
  /\ commands = 0 /\ edits = 0 /\ crashes = 0

Command(p) ==
  \/ \E i \in Items :
       \/ Create(p, i) \/ Start(p, i) \/ Execute(p, i)
       \/ \E change \in ChangeRevisions \cup {NoChange} : Bind(p, i, change)
       \/ \E reqs \in SUBSET Reqs : Select(p, i, reqs)
       \/ \E r \in DOMAIN reports, in \in DecisionInputs :
            Authorize(p, [item |-> i, report |-> r, role |-> in[1], decision |-> in[2]])
  \/ \E id \in EvidenceIds[p], t \in DOMAIN traces, input \in EvidenceInputs :
       RecordEvidence(p, id, t, input)
  \/ \E id \in PlanIds[p], t \in DOMAIN traces \cup {UnknownTrace}, spec \in Revisions, criteria \in CriteriaInputs :
       CreatePlan(p, id, t, spec, criteria)
  \/ \E plan \in plans : EvaluatePlan(p, plan)

Step(p) ==
  \/ SaveItem(p) \/ SaveBinding(p) \/ SaveSelection(p)
  \/ FindSelection(p) \/ ReadSource(p) \/ RuntimeThrows(p)
  \/ \E status \in RuntimeStatuses : SaveTrace(p, status)
  \/ SaveEvidence(p) \/ SavePlan(p) \/ SaveReport(p)
  \/ SaveDone(p) \/ SaveAuthorization(p)

Next ==
  \/ \E p \in Procs : Command(p) \/ Step(p) \/ Crash(p)
  \/ \E spec \in Revisions, change \in ChangeRevisions : Edit(spec, change)
  \/ \E change \in ChangeRevisions : ProposeChange(change)
  \/ GovernedChangeMoves

Spec == Init /\ [][Next]_vars

================================================================================
