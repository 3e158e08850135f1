--------------------------- MODULE ChangeApplyProps ---------------------------
(***************************************************************************)
(* What the commands on a Change have to guarantee together, and the       *)
(* promises of the repository's documents that a run refutes.              *)
(***************************************************************************)
EXTENDS ChangeApply

TypeOK ==
  /\ content \in Contents
  /\ handoffs \in Seq(Handoff)
  /\ approvals \subseteq Vote
  /\ log \in Seq(Transition)
  /\ audits \subseteq Audit
  /\ job \in [Procs -> Job]
  /\ attempts \in Nat
  /\ overtaken \in [Procs -> Nat]
  /\ crashes \in Nat /\ ioErrors \in Nat /\ edits \in Nat

--------------------------------------------------------------------------------
(* Approvals                                                               *)

ApplyStages == RequiredStages("apply-readiness")

\* Every stage up to Apply Readiness has an approval of exactly this snapshot.
FullyApproved(h) ==
  \A s \in ApplyStages : Approved(approvals, s, handoffs[h].version, handoffs[h].digest)

Vetoed(h) ==
  \E s \in ApplyStages : Blocked(approvals, s, handoffs[h].version, handoffs[h].digest)

\* `change apply` evaluates the approvals long before it writes, and only after
\* it has recorded `applying`.  Still nothing is written, nor audited as
\* materialized, whose four stages nobody approved at that version and digest:
\* not by a retry, a second process, a re-proposal or a run cut off half-way.
WritesAreApproved ==
  /\ \A p \in Procs : job[p].pc \in Writing => FullyApproved(job[p].h)
  /\ \A a \in audits :
       a.strategy = "filesystem" /\ a.outcome = "succeeded" => FullyApproved(a.handoff)

\* Two reviewers read the decisions before either of them saves.  Still every
\* approval on record has the approvals of all earlier stages beside it, for its own
\* snapshot and not for the one that superseded it meanwhile
\* (ApproveChangeStageUseCase evaluates before it saves).
ApprovalsAreOrdered ==
  \A v \in approvals : v.decision = "approve" =>
    \A s \in RequiredStages(v.stage) : Approved(approvals, s, v.version, v.digest)

\* While commands run one at a time, a snapshot somebody has rejected or sent
\* back is never written again, though it is re-proposed, approved once more or
\* retried (MaterializeApprovedChangeUseCase, evaluate).
Installs(p) == At(p, "install") /\ job'[p].pc \in {"cleanup", "verify"}
NoVetoedWrite == [][\A p \in Procs : Installs(p) => ~Vetoed(job[p].h)]_vars

--------------------------------------------------------------------------------
(* The provider                                                            *)

Quiet == Running = {}

\* The status speaks of the provider, without edits, however the attempts before
\* it ended and whoever recorded it.  A Change that is `materialized` stands there;
\* one that is `apply-failed` does not, or a retry could never find its base again.
\* (File-system errors are left out of the second: a backup that cannot be removed
\* leaves the new Change in place, recorded as failed.)
StatusIsTrue ==
  edits = 0 /\ log # <<>> =>
    LET h == handoffs[log[Len(log)].handoff]
    IN /\ Status = "materialized" => content = h.digest
       /\ Quiet /\ Status = "apply-failed" /\ ioErrors = 0 /\ content = h.digest => h.base = h.digest

--------------------------------------------------------------------------------
(* The history of Apply                                                    *)

\* A history that ends "materialized" rests on an audit: the record's own
\* attempt was audited as succeeded, for the same handoff, before the record was
\* saved; also when the attempt that wrote died and recover finished its story.
MaterializedIsAudited ==
  \A i \in DOMAIN log : log[i].to = "materialized" =>
    \E a \in audits : /\ a.attempt = log[i].attempt
                      /\ a.handoff = log[i].handoff
                      /\ a.outcome = "succeeded"

\* The same without the attempt, which holds however many processes run: a
\* second process may find its key audited by the first and rely on that audit.
MaterializedHasAnAudit ==
  \A i \in DOMAIN log : log[i].to = "materialized" =>
    \E a \in audits : a.handoff = log[i].handoff /\ a.key = log[i].key

\* The current status, as every command computes it from the sorted records,
\* lives the promised life: no step is skipped, and `materialized` is final.
Lifecycle == INSTANCE ApplyLifecycle WITH status <- Status
RefinesLifecycle == Lifecycle!Spec

\* Each record conserves the previous and the new status: the records chain.
HistoryChains ==
  \A i \in DOMAIN log : log[i].from = IF i = 1 THEN "none" ELSE log[i - 1].to

\* findByIdempotencyKey takes the first audit it meets: there is only one.
OneAuditPerKey == \A a, b \in audits : a.key = b.key => a = b

\* "repetir una clave devuelve el evento existente y un retry requiere una clave
\* nueva": no two attempts that reached `applying` went under one key.
RetriesUseNewKeys ==
  \A i, j \in DOMAIN log :
    log[i].to = "applying" /\ log[j].to = "applying" /\ log[i].key = log[j].key => i = j

\* A human verdict on an interrupted attempt does not contradict what the attempt
\* itself had already audited: what was written is not resolved as not written.
RecoveryAgreesWithAudit ==
  \A a, b \in audits :
    /\ a.strategy = "filesystem" /\ a.outcome = "succeeded"
    /\ b.strategy = "recovery" /\ b.of = a.attempt
    => b.outcome = "succeeded"

--------------------------------------------------------------------------------
(* Promises of the documents that the code does not keep: the properties   *)
(* of runs that TLC refutes.                                               *)

\* Security-Review.md:15 "No aplicar contra un snapshot obsoleto": what a swap has
\* set aside, and now removes, is what the handoff was reviewed against.  The digest
\* is compared some awaits before the rename takes effect.
ReplacesTheBase == \A p \in Procs : At(p, "cleanup") => job[p].kept = Proposed(p).base

\* What would let the Change go on when no command is running: recover confirms
\* what it observes.
RecoverAccepts ==
  /\ content # Absent
  /\ Reconcile(Status, content, handoffs[Len(handoffs)].base, handoffs[Len(handoffs)].digest)
       # "recovery-required"

\* ADR-012.md:19-23: `recovery-required` is left by a later human decision, to
\* `materialized` or `apply-failed`; so some command has to take that decision.
RecoveryIsResolvable ==
  Quiet /\ Status = "recovery-required" => RecoverAccepts

================================================================================
