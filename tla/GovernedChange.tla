----------------------------- MODULE GovernedChange -----------------------------
(***************************************************************************)
(* The governed lifecycle of one Change: TransitionGovernedChangeUseCase   *)
(* of packages/application/src/sdd/transition-governed-change.ts, over the *)
(* transition policy, the stage approvals and the local repository.        *)
(*                                                                         *)
(* The use case reads the current record, evaluates, reads the approvals   *)
(* and saves a new record, each with an await: processes interleave, and   *)
(* decisions are taken meanwhile.  Records are never changed; the one with *)
(* the latest changedAt is current.                                        *)
(***************************************************************************)
EXTENDS StageApprovalPolicy, Sequences

CONSTANTS
  Actors,       \* processes that call the use case
  Subjects,     \* the [version, digest] that records and decisions name
  Decidable,    \* the decisions people may take
  MaxRecords, MaxCrossings    \* bounds

ASSUME SubjectsAssumption ==
  /\ Subjects \subseteq [version : Versions, digest : Digests]
  /\ Decidable \subseteq [stage : Stages, decision : Decisions, version : Versions, digest : Digests]

VARIABLES
  decisions,   \* what changeStageApprovals holds
  records,     \* what governedChanges holds, in the order they were saved
  clock,       \* the latest stamp that a caller has given
  tjob,        \* the call of each actor
  crossings    \* how often a call overlapped another, or had a stamp no later than a record's

governedVars == <<decisions, records, clock, tjob, crossings>>

Statuses == {"proposed", "approved", "executing", "verification-pending", "completed", "withdrawn"}

\* `transitions` of governed-change-policy.ts.
Transitions ==
  [s \in Statuses |->
     CASE s = "proposed"             -> {"approved", "withdrawn"}
       [] s = "approved"             -> {"executing", "withdrawn"}
       [] s = "executing"            -> {"verification-pending", "withdrawn"}
       [] s = "verification-pending" -> {"completed", "withdrawn"}
       [] OTHER                      -> {}]

\* Mutant: the status is not compared with the one before.
AnyTransition(current, requested, authorized) ==
  /\ current # "none" \/ requested = "proposed"
  /\ requested = "completed" => authorized

\* evaluateGovernedChangeTransition(...).allowed
MayMove(current, requested, authorized) ==
  IF current = "none" THEN requested = "proposed"
  ELSE /\ requested \in Transitions[current]
       /\ requested = "completed" => authorized

\* Mutant: completion is content with what execution needs.
RequiresReadiness(requested) ==
  IF requested \in {"approved", "executing", "completed"} THEN {"apply-readiness"} ELSE {}

\* The stage whose approvals the requested status needs, if any.
RequiredStage(requested) ==
  IF requested = "completed" THEN {"verification-completion"}
  ELSE IF requested \in {"approved", "executing"} THEN {"apply-readiness"} ELSE {}

NoTransition ==
  [pc |-> "idle", requested |-> "proposed", current |-> "none", at |-> 0,
   subject |-> CHOOSE s \in Subjects : TRUE, authorized |-> FALSE]

TAt(a, point) == tjob[a].pc = point
TEnd(a) == tjob' = [tjob EXCEPT ![a] = NoTransition]

StampedNow == {k \in DOMAIN records : records[k].at = clock}

\* findCurrentByChangeId: of records with the same stamp, any may come last.
Latest == {k \in DOMAIN records : \A j \in DOMAIN records : records[j].at <= records[k].at}
CurrentStatuses == IF records = <<>> THEN {"none"} ELSE {records[k].status : k \in Latest}

--------------------------------------------------------------------------------

\* ApproveChangeStageUseCase: an approval needs those of the stages before it.
Decide(d) ==
  /\ d \notin decisions
  /\ d.decision = "approve" => Allowed(decisions \cup {d}, d.stage, d.version, d.digest)
  /\ decisions' = decisions \cup {d}
  /\ UNCHANGED <<records, clock, tjob, crossings>>

\* The stamps a caller may give: any of before, or one later than all records.
Stamps == 0..clock \cup {clock + 1 : k \in StampedNow}

\* The caller gives changedAt, whatever the time, and says if completion is
\* authorized.
RequestTransition(a, requested, subject, authorized) ==
  \E at \in Stamps :
    /\ TAt(a, "idle") /\ Len(records) < MaxRecords
    /\ tjob' = [tjob EXCEPT ![a] = [NoTransition EXCEPT
          !.pc = "reading", !.requested = requested, !.subject = subject,
          !.authorized = authorized, !.at = at]]
    /\ clock' = IF at > clock THEN at ELSE clock
    /\ crossings' = IF \/ \E other \in Actors : ~TAt(other, "idle")
                       \/ \E k \in DOMAIN records : at <= records[k].at
                    THEN crossings + 1 ELSE crossings
    /\ crossings' <= MaxCrossings
    /\ UNCHANGED <<decisions, records>>

\* The current record is read and the transition evaluated: an error, or the
\* approvals are next.
ReadCurrent(a) ==
  /\ TAt(a, "reading")
  /\ \E current \in CurrentStatuses :
       IF MayMove(current, tjob[a].requested, tjob[a].authorized)
       THEN tjob' = [tjob EXCEPT ![a].pc = "evaluated", ![a].current = current]
       ELSE TEnd(a)
  /\ UNCHANGED <<decisions, records, clock, crossings>>

\* The approvals of now, for this version and digest.
ReadApprovals(a) ==
  /\ TAt(a, "evaluated")
  /\ IF \A stage \in RequiredStage(tjob[a].requested) :
          Allowed(decisions, stage, tjob[a].subject.version, tjob[a].subject.digest)
     THEN tjob' = [tjob EXCEPT ![a].pc = "saving"]
     ELSE TEnd(a)
  /\ UNCHANGED <<decisions, records, clock, crossings>>

\* A file of its own for every record: nothing is compared again.
SaveRecord(a) ==
  /\ TAt(a, "saving")
  /\ records' = Append(records,
       [status |-> tjob[a].requested, previous |-> tjob[a].current,
        subject |-> tjob[a].subject, authorized |-> tjob[a].authorized, at |-> tjob[a].at])
  /\ TEnd(a)
  /\ UNCHANGED <<decisions, clock, crossings>>

--------------------------------------------------------------------------------

GovernedInit ==
  /\ decisions = {} /\ records = <<>> /\ clock = 1
  /\ tjob = [a \in Actors |-> NoTransition]
  /\ crossings = 0

ActorStep(a) ==
  \/ \E requested \in Statuses, subject \in Subjects, authorized \in BOOLEAN :
       /\ authorized => requested = "completed"
       /\ RequestTransition(a, requested, subject, authorized)
  \/ ReadCurrent(a) \/ ReadApprovals(a) \/ SaveRecord(a)

GovernedNext ==
  \/ \E d \in Decidable : Decide(d)
  \/ \E a \in Actors : ActorStep(a)

GovernedSpec == GovernedInit /\ [][GovernedNext]_governedVars

================================================================================
