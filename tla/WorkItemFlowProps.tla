--------------------------- MODULE WorkItemFlowProps ---------------------------
(***************************************************************************)
(* What the commands on WorkItems have to guarantee together.              *)
(***************************************************************************)
EXTENDS WorkItemFlow

\* Binding, selection and Specification are three reads, and each may be changed
\* by another command or a person between them.  Still no execution is recorded
\* whose confirmed Requirements are not all of the very revision that was run.
ExecutedWithinScope ==
  \A t \in DOMAIN traces :
    traces[t].reqs # {} /\ traces[t].reqs \subseteq ReqsOf[traces[t].spec]

\* A report says `verified` only of what evidence of its own execution shows,
\* for every kind every criterion expects; and the evidence is still on record,
\* whatever was recorded since (ADR-009: "sufficient evidence according to the
\* plan"; evidence is immutable).
VerifiedIsBacked ==
  \A r \in DOMAIN reports : reports[r].outcome = "verified" =>
    \A c \in reports[r].criteria, k \in EvidenceKinds : k \in c.kinds =>
      \E e \in evidence : /\ e.trace = reports[r].trace
                          /\ e.subject = c.subject /\ e.kind = k /\ e.outcome = "passed"

\* The decision that a WorkItem is complete, as it is on record: by somebody who
\* may take it, on a report that allows it, about an execution of that WorkItem.
CompletedBy(a) ==
  /\ a.decision = "authorize-completion" /\ a.role # "engineer"
  /\ reports[a.report].outcome \in Acceptable
  /\ traces[reports[a.report].trace].item = a.item

\* ADR-009: "Only an explicit CompletionAuthorization may call the existing
\* WorkItem.complete()".  A WorkItem that is done has such a decision on record,
\* or the command that saved it is about to write it, however commands overlap.
DoneIsAuthorized ==
  \A i \in Items : item[i] = "done" /\ crashes = 0 =>
    \/ \E a \in authorizations : a.item = i /\ CompletedBy(a)
    \/ \E p \in Procs : /\ At(p, "save-authorization")
                        /\ job[p].authorization.item = i /\ CompletedBy(job[p].authorization)

\* `yh task plan` reads what the commands it announces will read.  With a scope
\* confirmed for the current Specification its two last steps are not refused:
\* an execution is eligible, and a completion would be accepted from a reviewer.
PlannedStepIsAllowed ==
  \A i \in Items :
    LET next == Plan(Snapshot(i)).action
    IN /\ next = "execute-work-item" /\ selection[i] # None /\ selection[i].spec = source.spec
            => Eligible(binding[i], selection[i])
       /\ next = "authorize-completion" =>
            \E r \in DOMAIN reports :
              LET a == [item |-> i, report |-> r,
                        decision |-> "authorize-completion", role |-> "reviewer"]
              IN Linked(a) /\ Completes(a)

================================================================================
