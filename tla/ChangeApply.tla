------------------------------ MODULE ChangeApply ------------------------------
(***************************************************************************)
(* The governed life of ONE OpenSpec Change, as the commands `yh change    *)
(* propose | approve | apply | recover` drive it:                          *)
(* src/cli/commands/register-change-commands.ts, the use cases of          *)
(* packages/application/src/sdd, the file store of                         *)
(* src/persistence/local/local-operational-store.ts and the writer         *)
(* src/sdd/openspec/openspec-materializer.ts.                              *)
(*                                                                         *)
(* Every command is a process that lives for one invocation.  It takes no  *)
(* lock: between two of its awaits another command may read and write the  *)
(* same files, the process may be killed, and a person may edit the        *)
(* Change.  So each action below is one access to the store or to the      *)
(* provider's directory, and what a command has read so far is its `job`.  *)
(***************************************************************************)
EXTENDS Integers, Sequences, FiniteSets, ApplyPolicy, StageApprovalPolicy

CONSTANTS
  Procs,            \* command invocations that may run at the same time
  InitialContents,  \* what the provider may hold before the first command
  UserKeys,         \* numbers of the --idempotency-key values operators type
  DecisionInputs,   \* the <<stage, decision>> pairs reviewers may enter
  Ties,             \* may two records of one run carry the same millisecond?
  MaxHandoffs, MaxAttempts, MaxCrashes, MaxIoErrors, MaxEdits   \* bounds

ASSUME ConstantsAssumption ==
  /\ Absent \notin Digests
  /\ InitialContents \subseteq Digests \cup {Absent}
  /\ UserKeys \subseteq Nat
  /\ DecisionInputs \subseteq Stages \X Decisions
  /\ Ties \in BOOLEAN

VARIABLES
  content,    \* digest of openspec/changes/<id>, Absent when it is not there
  handoffs,   \* ChangeDraftHandoffs in createdAt order: the last is current
  approvals,  \* ChangeStageApprovals
  log,        \* ChangeApplyTransitionRecords, as findByChangeId sorts them
  audits,     \* ChangeMaterializationAudits
  job,        \* what each running command has read, and what it does next
  attempts,   \* attempt ids handed out so far (randomUUID)
  overtaken,  \* records saved since a command stamped its own, which it still saves
  crashes, ioErrors, edits   \* how often the environment interfered

store   == <<handoffs, approvals, log, audits>>
counts  == <<overtaken, crashes, ioErrors, edits>>
vars    == <<content, store, job, attempts, counts>>

Contents == Digests \cup {Absent}

\* proposedVersion, baseContentDigest and proposedContentDigest of a handoff;
\* version 0 until previewDraftChange has numbered it.
Handoff == [base : Contents, version : Versions \cup {0}, digest : Contents]
NoDraft == [base |-> Absent, version |-> 0, digest |-> Absent]

\* A decision, bound to the version and the digest of the handoff it is about.
Vote == [stage : Stages \cup {"none"}, decision : Decisions \cup {"none"},
         version : Versions \cup {0}, digest : Contents]
NoVote == [stage |-> "none", decision |-> "none", version |-> 0, digest |-> Absent]

\* An idempotency key is typed by the operator or derived from what it is for:
\* the handoff (apply), the interrupted attempt and the decision (recover).
Key == [kind : {"none", "user", "apply", "recover:materialized", "recover:apply-failed"},
        n : Nat]
NoKey == [kind |-> "none", n |-> 0]
UserKey(n) == [kind |-> "user", n |-> n]

Transition ==
  [attempt : Nat, handoff : Nat, key : Key,
   from : Statuses \cup {"none"}, to : Statuses]

Audit ==
  [attempt : Nat, of : Nat, key : Key, handoff : Nat, digest : Contents,
   strategy : {"filesystem", "recovery"}, outcome : {"succeeded", "failed"}]

Points ==
  {"idle",
   "find-handoff", "preview", "supersede", "save-handoff",           \* propose
   "find-votes", "save-vote",                                        \* approve
   "check-key", "check-status",                                      \* apply
   "transition", "save-transition",                           \* both, next two
   "check-approvals", "read-base", "backup", "install", "cleanup", "verify", "discard",
   "find-audit", "guard-audit", "save-audit",                    \* both, again
   "recover-handoff", "recover-status", "recover-decide"}            \* recover

\* The materializer has passed the approvals and may be writing the Change.
Writing == {"read-base", "backup", "install", "cleanup", "verify", "discard"}

Job ==
  [pc : Points, h : Nat, draft : Handoff, vote : Vote,
   key : Key, attempt : Nat, of : Nat, ofKey : Key,
   strategy : {"filesystem", "recovery"}, from : Statuses \cup {"none"},
   req : Statuses, seen : Contents, kept : Contents,
   outcome : {"succeeded", "failed"}, wrote : BOOLEAN]

Idle ==
  [pc |-> "idle", h |-> 0, draft |-> NoDraft, vote |-> NoVote, key |-> NoKey,
   attempt |-> 0, of |-> 0, ofKey |-> NoKey, strategy |-> "filesystem", from |-> "none",
   req |-> "approved", seen |-> Absent, kept |-> Absent, outcome |-> "failed",
   wrote |-> FALSE]

--------------------------------------------------------------------------------
(* What the commands look up.                                              *)

\* changeApplyTransitions.findCurrentByChangeId
Status == IF log = <<>> THEN "none" ELSE log[Len(log)].to

\* Mutant: only the audits of successes count as already there.
SucceededAuditsWith(key) == {a \in audits : a.key = key /\ a.outcome = "succeeded"}

\* changeMaterializationAudits.findByIdempotencyKey
AuditsWith(key) == {a \in audits : a.key = key}

At(p, point) == job[p].pc = point

Goto(p, point) == job' = [job EXCEPT ![p].pc = point]

\* The command ends, reporting success or an error: nothing else changes.
Finish(p) == job' = [job EXCEPT ![p] = Idle]

Running == {p \in Procs : job[p].pc # "idle"}

Proposed(p) == handoffs[job[p].h]

\* Bounds, not code: room for one more handoff, for one more attempt id.
HandoffsLeft ==
  Len(handoffs) + Cardinality({p \in Procs :
    job[p].pc \in {"find-handoff", "preview", "supersede", "save-handoff"}}) < MaxHandoffs
AttemptsLeft ==
  attempts + Cardinality({p \in Procs :
    job[p].pc \in {"check-key", "recover-handoff", "recover-status", "recover-decide"}})
  < MaxAttempts

--------------------------------------------------------------------------------
(* yh change propose                                                       *)

\* Reads the provider: what it holds becomes the base of the draft.
Propose(p, d) ==
  /\ At(p, "idle")
  /\ HandoffsLeft
  /\ job' = [job EXCEPT ![p] = [Idle EXCEPT !.pc = "find-handoff",
                                           !.draft = [base |-> content, version |-> 0, digest |-> d]]]
  /\ UNCHANGED <<content, store, attempts, counts>>

\* changeDraftHandoffs.findCurrentByChangeId: what the draft says it supersedes.
ProposeFindHandoff(p) ==
  /\ At(p, "find-handoff")
  /\ job' = [job EXCEPT ![p].pc = "preview", ![p].h = Len(handoffs)]
  /\ UNCHANGED <<content, store, attempts, counts>>

\* previewDraftChange reads the provider again: refused when the base is stale.
ProposePreview(p) ==
  /\ At(p, "preview")
  /\ IF content # Absent /\ job[p].draft.base # content
     THEN Finish(p)
     ELSE job' = [job EXCEPT ![p].pc = "supersede",
                             ![p].draft.version = IF content = Absent THEN 1 ELSE 2]
  /\ UNCHANGED <<content, store, attempts, counts>>

\* CreateChangeDraftHandoffUseCase: the superseded handoff must still be current.
ProposeSupersede(p) ==
  /\ At(p, "supersede")
  /\ IF handoffs # <<>> /\ job[p].h # Len(handoffs)
     THEN Finish(p)
     ELSE Goto(p, "save-handoff")
  /\ UNCHANGED <<content, store, attempts, counts>>

ProposeSave(p) ==
  /\ At(p, "save-handoff")
  /\ handoffs' = Append(handoffs, job[p].draft)
  /\ Finish(p)
  /\ UNCHANGED <<content, approvals, log, audits, attempts, counts>>

--------------------------------------------------------------------------------
(* yh change approve                                                       *)

\* Reads the current handoff: the decision is about its version and digest.
Approve(p, stage, decision) ==
  /\ At(p, "idle")
  /\ handoffs # <<>>
  /\ LET h == handoffs[Len(handoffs)]
     IN job' = [job EXCEPT ![p] = [Idle EXCEPT !.pc = "find-votes",
                  !.vote = [stage |-> stage, decision |-> decision,
                            version |-> h.version, digest |-> h.digest]]]
  /\ UNCHANGED <<content, store, attempts, counts>>

\* Mutant: a decision is saved without asking the policy.
ApproveUnordered(p) ==
  /\ At(p, "find-votes")
  /\ Goto(p, "save-vote")
  /\ UNCHANGED <<content, store, attempts, counts>>

\* ApproveChangeStageUseCase: only an approve has to be allowed by the policy,
\* which sees it among the decisions already taken.
ApproveEvaluate(p) ==
  /\ At(p, "find-votes")
  /\ LET v == job[p].vote
     IN IF v.decision = "approve"
            /\ ~Allowed(approvals \cup {v}, v.stage, v.version, v.digest)
        THEN Finish(p)
        ELSE Goto(p, "save-vote")
  /\ UNCHANGED <<content, store, attempts, counts>>

ApproveSave(p) ==
  /\ At(p, "save-vote")
  /\ approvals' = approvals \cup {job[p].vote}
  /\ Finish(p)
  /\ UNCHANGED <<content, handoffs, log, audits, attempts, counts>>

--------------------------------------------------------------------------------
(* TransitionChangeApplyUseCase, which apply and recover both go through   *)

\* Only the last step of a confirmed recovery passes humanConfirmed.
HumanConfirmed(p) == job[p].strategy = "recovery" /\ job[p].req # "recovery-required"

\* changedAt is set before the current record is read, two awaits before the save:
\* what other commands save in between may bear a later stamp.
DropsStamp(p) == overtaken' = [overtaken EXCEPT ![p] = 0]

\* Mutant: the policy's table is not consulted.
TransitionUnchecked(p) ==
  /\ At(p, "transition")
  /\ job' = [job EXCEPT ![p].pc = "save-transition", ![p].from = Status]
  /\ UNCHANGED <<content, store, attempts, counts>>

\* Mutant: the previous status is not read again for every record.
TransitionFromStale(p) ==
  /\ At(p, "transition")
  /\ IF \/ Status = "recovery-required" /\ ~HumanConfirmed(p)
        \/ ~CanTransition(Status, job[p].req)
     THEN Finish(p) /\ DropsStamp(p)
     ELSE Goto(p, "save-transition") /\ UNCHANGED overtaken
  /\ UNCHANGED <<content, store, attempts, crashes, ioErrors, edits>>

\* Reads the current record and evaluates the policy; a refusal ends the command.
TransitionEvaluate(p) ==
  /\ At(p, "transition")
  /\ IF \/ Status = "recovery-required" /\ ~HumanConfirmed(p)
        \/ ~CanTransition(Status, job[p].req)
     THEN Finish(p) /\ DropsStamp(p)
     ELSE job' = [job EXCEPT ![p].pc = "save-transition", ![p].from = Status] /\ UNCHANGED overtaken
  /\ UNCHANGED <<content, store, attempts, crashes, ioErrors, edits>>

\* Mutant: the previous and the new status are swapped.
RecordSwapped(p) ==
  [attempt |-> job[p].attempt, handoff |-> job[p].h, key |-> job[p].key,
   from |-> job[p].req, to |-> job[p].from]

\* The record a command adds; the one that opens a recovery is about the
\* interrupted attempt, every other about the attempt of the command itself.
RecordOf(p) ==
  LET opens == job[p].req = "recovery-required"
  IN [attempt |-> IF opens THEN job[p].of ELSE job[p].attempt,
      handoff |-> job[p].h,
      key     |-> IF opens THEN job[p].ofKey ELSE job[p].key,
      from    |-> job[p].from,
      to      |-> job[p].req]

InsertRecord(k, r) ==
  [i \in 1 .. Len(log) + 1 |-> IF i < k THEN log[i] ELSE IF i = k THEN r ELSE log[i - 1]]

\* Records are sorted by changedAt, to the millisecond: a record goes before those
\* that have overtaken it.  Two records of one run may tie, and a tie is settled by
\* the order readdir lists their random names.
Places(p) ==
  {k \in 1 .. Len(log) + 1 :
     k + overtaken[p] >= Len(log) + (IF Ties /\ job[p].wrote THEN 0 ELSE 1)}

\* A record saved at k overtakes those stamped by now, if it goes where they may.
Overtakes(p, k) ==
  overtaken' = [q \in Procs |->
    IF q = p THEN 0
    ELSE IF job[q].pc \in {"transition", "save-transition"} /\ k + overtaken[q] > Len(log)
         THEN overtaken[q] + 1
         ELSE overtaken[q]]

\* Where a command goes on after its record is saved.
AfterTransition(p) ==
  \/ /\ job[p].req = "approved"
     /\ job' = [job EXCEPT ![p].pc = "transition", ![p].req = "apply-ready", ![p].wrote = TRUE]
  \/ /\ job[p].req = "apply-ready"
     /\ job' = [job EXCEPT ![p].pc = "transition", ![p].req = "applying", ![p].wrote = TRUE]
  \/ /\ job[p].req = "applying"
     /\ job' = [job EXCEPT ![p].pc = "check-approvals", ![p].wrote = TRUE]
  \/ /\ job[p].req = "recovery-required"
     /\ job' = [job EXCEPT ![p].pc = "find-audit", ![p].wrote = TRUE]
  \/ /\ job[p].req \in {"materialized", "apply-failed"}
     /\ Finish(p)

TransitionSave(p) ==
  /\ At(p, "save-transition")
  /\ \E k \in Places(p) : log' = InsertRecord(k, RecordOf(p)) /\ Overtakes(p, k)
  /\ AfterTransition(p)
  /\ UNCHANGED <<content, handoffs, approvals, audits, attempts, crashes, ioErrors, edits>>

--------------------------------------------------------------------------------
(* yh change apply                                                         *)

\* Reads the current handoff and settles on a key, typed or derived from it.
Apply(p, key) ==
  /\ At(p, "idle")
  /\ handoffs # <<>>
  /\ AttemptsLeft
  /\ job' = [job EXCEPT ![p] = [Idle EXCEPT !.pc = "check-key", !.h = Len(handoffs), !.key = key]]
  /\ UNCHANGED <<content, store, attempts, counts>>

\* The default key is `${handoff.id}:${digest}:${by}`.
ApplyKeys == {[kind |-> "apply", n |-> Len(handoffs)]} \cup {UserKey(n) : n \in UserKeys}

\* A known key is replayed or is a conflict: either way the command ends here.
ApplyCheckKey(p) ==
  /\ At(p, "check-key")
  /\ IF AuditsWith(job[p].key) # {}
     THEN Finish(p) /\ UNCHANGED attempts
     ELSE /\ attempts' = attempts + 1
          /\ job' = [job EXCEPT ![p].pc = "check-status", ![p].attempt = attempts + 1]
  /\ UNCHANGED <<content, store, counts>>

\* A first Apply records `approved` and `apply-ready` before `applying`; a retry
\* has to name the attempt recorded as failed; any other status is an error.
ApplyCheckStatus(p) ==
  /\ At(p, "check-status")
  /\ \/ /\ Status = "none"
        /\ job' = [job EXCEPT ![p].pc = "transition", ![p].req = "approved"]
     \/ /\ Status = "apply-failed"      \* --retry-of names that attempt
        /\ job' = [job EXCEPT ![p].pc = "transition", ![p].req = "applying"]
     \/ /\ Status # "none"              \* another --retry-of, or not retryable
        /\ Finish(p)
  /\ UNCHANGED <<content, store, attempts, counts>>

\* The materialization did not happen: it is audited as failed.
Fail(p) == job' = [job EXCEPT ![p].pc = "find-audit", ![p].outcome = "failed"]

\* Mutant: the approvals of any handoff will do.
CheckAnySnapshot(p) ==
  /\ At(p, "check-approvals")
  /\ IF \E i \in DOMAIN handoffs :
          Allowed(approvals, "apply-readiness", handoffs[i].version, handoffs[i].digest)
     THEN Goto(p, "read-base")
     ELSE Fail(p)
  /\ UNCHANGED <<content, store, attempts, counts>>

\* MaterializeApprovedChangeUseCase: only now is Apply Readiness evaluated.
ApplyCheckApprovals(p) ==
  /\ At(p, "check-approvals")
  /\ IF Allowed(approvals, "apply-readiness", Proposed(p).version, Proposed(p).digest)
     THEN Goto(p, "read-base")
     ELSE Fail(p)
  /\ UNCHANGED <<content, store, attempts, counts>>

--------------------------------------------------------------------------------
(* OpenSpecMaterializer.materializeApprovedChange                          *)

\* The environment guard: no workspace.write, path outside, no confirmation.
GuardRefuses(p) ==
  /\ At(p, "read-base")
  /\ Fail(p)
  /\ UNCHANGED <<content, store, attempts, counts>>

\* What the provider holds has to be the handoff's base, if it holds anything.
ReadBase(p) ==
  /\ At(p, "read-base")
  /\ IF content # Absent /\ content # Proposed(p).base
     THEN Fail(p)
     ELSE job' = [job EXCEPT ![p].pc = IF content = Absent THEN "install" ELSE "backup",
                             ![p].seen = content]
  /\ UNCHANGED <<content, store, attempts, counts>>

\* rename(changeRoot, backupRoot), unless the Change is gone by now.
Backup(p) ==
  /\ At(p, "backup")
  /\ IF content = Absent
     THEN Fail(p)
     ELSE job' = [job EXCEPT ![p].pc = "install", ![p].kept = content]
  /\ content' = Absent
  /\ UNCHANGED <<store, attempts, counts>>

\* rename(temporaryRoot, changeRoot), unless something came in its place.
Install(p) ==
  /\ At(p, "install")
  /\ IF content = Absent
     THEN /\ content' = Proposed(p).digest
          /\ Goto(p, IF job[p].seen = Absent THEN "verify" ELSE "cleanup")
     ELSE Fail(p) /\ UNCHANGED content
  /\ UNCHANGED <<store, attempts, counts>>

\* rm(backupRoot)
Cleanup(p) ==
  /\ At(p, "cleanup")
  /\ job' = [job EXCEPT ![p].pc = "verify", ![p].kept = Absent]
  /\ UNCHANGED <<content, store, attempts, counts>>

\* Mutant: the status is recorded before the audit.
VerifyUnaudited(p) ==
  /\ At(p, "verify")
  /\ IF content = Proposed(p).digest
     THEN job' = [job EXCEPT ![p].pc = "transition", ![p].req = "materialized"]
     ELSE Goto(p, "discard")
  /\ UNCHANGED <<content, store, attempts, counts>>

\* The provider is read back ...
Verify(p) ==
  /\ At(p, "verify")
  /\ IF content = Proposed(p).digest
     THEN job' = [job EXCEPT ![p].pc = "find-audit", ![p].outcome = "succeeded"]
     ELSE Goto(p, "discard")
  /\ UNCHANGED <<content, store, attempts, counts>>

\* ... and a Change that differed from the preview is removed, whatever it is now.
Discard(p) ==
  /\ At(p, "discard")
  /\ content' = Absent
  /\ Fail(p)
  /\ UNCHANGED <<store, attempts, counts>>

\* Generation, a rename or the rm fails: the catch block puts the backup back
\* only when nothing stands in its place, and the attempt fails.  It fails too
\* when the provider cannot be read back, by when there is no backup any more.
IoError(p) ==
  /\ job[p].pc \in {"backup", "install", "cleanup", "verify", "discard"}
  /\ ioErrors < MaxIoErrors
  /\ ioErrors' = ioErrors + 1
  /\ content' = IF content = Absent THEN job[p].kept ELSE content
  /\ Fail(p)
  /\ UNCHANGED <<store, attempts, overtaken, crashes, edits>>

--------------------------------------------------------------------------------
(* RecordChangeMaterializationAuditUseCase and the audits' save            *)

\* materializedContentDigest: what was proposed, or what recover observed.
AuditOf(p) ==
  [attempt |-> job[p].attempt, of |-> job[p].of, key |-> job[p].key,
   handoff |-> job[p].h, strategy |-> job[p].strategy, outcome |-> job[p].outcome,
   digest |-> IF job[p].strategy = "recovery" THEN job[p].seen ELSE Proposed(p).digest]

\* sameRequest compares neither the attempt nor the outcome.
SameRequest(a, b) ==
  a.handoff = b.handoff /\ a.digest = b.digest /\ a.strategy = b.strategy

\* With the audit on record the command asks for its last transition.
AfterAudit(p) ==
  job' = [job EXCEPT ![p].pc = "transition",
                     ![p].req = IF job[p].outcome = "succeeded" THEN "materialized"
                                                                ELSE "apply-failed"]

\* apply swallows an error while it audits a failure; any other one ends the command.
AuditThrows(p) ==
  IF job[p].strategy = "filesystem" /\ job[p].outcome = "failed"
  THEN AfterAudit(p)
  ELSE Finish(p)

FindAudit(p) ==
  /\ At(p, "find-audit")
  /\ \/ /\ AuditsWith(job[p].key) = {}
        /\ Goto(p, "guard-audit")
     \/ \E a \in AuditsWith(job[p].key) :
          IF SameRequest(a, AuditOf(p)) THEN AfterAudit(p) ELSE AuditThrows(p)
  /\ UNCHANGED <<content, store, attempts, counts>>

\* save looks again for the attempt and the key, and writes after that.
GuardAudit(p) ==
  /\ At(p, "guard-audit")
  /\ IF AuditsWith(job[p].key) # {} \/ \E a \in audits : a.attempt = job[p].attempt
     THEN AuditThrows(p)
     ELSE Goto(p, "save-audit")
  /\ UNCHANGED <<content, store, attempts, counts>>

SaveAudit(p) ==
  /\ At(p, "save-audit")
  /\ audits' = audits \cup {AuditOf(p)}
  /\ AfterAudit(p)
  /\ UNCHANGED <<content, handoffs, approvals, log, attempts, counts>>

\* The audit of a failed apply cannot be written, and nobody is told.
AuditIoError(p) ==
  /\ At(p, "save-audit")
  /\ ioErrors < MaxIoErrors
  /\ ioErrors' = ioErrors + 1
  /\ AuditThrows(p)
  /\ UNCHANGED <<content, store, attempts, overtaken, crashes, edits>>

--------------------------------------------------------------------------------
(* yh change recover --confirm --decision ...                              *)

\* readChange: CHANGE_NOT_FOUND unless the provider holds the Change.
Recover(p, key) ==
  /\ At(p, "idle")
  /\ AttemptsLeft
  /\ content # Absent
  /\ job' = [job EXCEPT ![p] = [Idle EXCEPT !.pc = "recover-handoff", !.seen = content,
                                           !.strategy = "recovery", !.key = key]]
  /\ UNCHANGED <<content, store, attempts, counts>>

RecoverKeys == {NoKey} \cup {UserKey(n) : n \in UserKeys}

\* The handoff that is current now, which need not be the interrupted one.
RecoverFindHandoff(p) ==
  /\ At(p, "recover-handoff")
  /\ IF handoffs = <<>>
     THEN Finish(p)
     ELSE job' = [job EXCEPT ![p].pc = "recover-status", ![p].h = Len(handoffs)]
  /\ UNCHANGED <<content, store, attempts, counts>>

RecoverFindStatus(p) ==
  /\ At(p, "recover-status")
  /\ IF log = <<>>
     THEN Finish(p)
     ELSE job' = [job EXCEPT ![p].pc = "recover-decide",
                             ![p].from = Status,
                             ![p].of = log[Len(log)].attempt,
                             ![p].ofKey = log[Len(log)].key]
  /\ UNCHANGED <<content, store, attempts, counts>>

RecoveryKey(decision, of) == [kind |-> IF decision = "materialized" THEN "recover:materialized"
                                                                  ELSE "recover:apply-failed",
                              n |-> of]

\* Mutant: base and expected digest are passed in the wrong order.
RecoverSwapped(p) ==
  /\ At(p, "recover-decide")
  /\ LET decision == Reconcile(job[p].from, job[p].seen, Proposed(p).digest, Proposed(p).base)
     IN IF AuditsWith(job[p].key) # {} \/ decision = "recovery-required"
        THEN Finish(p) /\ UNCHANGED attempts
        ELSE /\ attempts' = attempts + 1
             /\ job' = [job EXCEPT
                  ![p].pc = "transition", ![p].req = "recovery-required",
                  ![p].attempt = attempts + 1,
                  ![p].key = IF @ = NoKey THEN RecoveryKey(decision, job[p].of) ELSE @,
                  ![p].outcome = IF decision = "materialized" THEN "succeeded" ELSE "failed"]
  /\ UNCHANGED <<content, store, counts>>

\* Mutant: the operator's decision is not compared with the observation.
RecoverAsTold(p) ==
  /\ At(p, "recover-decide")
  /\ job[p].from = "applying"
  /\ \E decision \in {"materialized", "apply-failed"} :
       /\ attempts' = attempts + 1
       /\ job' = [job EXCEPT
            ![p].pc = "transition", ![p].req = "recovery-required",
            ![p].attempt = attempts + 1,
            ![p].key = IF @ = NoKey THEN RecoveryKey(decision, job[p].of) ELSE @,
            ![p].outcome = IF decision = "materialized" THEN "succeeded" ELSE "failed"]
  /\ UNCHANGED <<content, store, counts>>

\* A typed key that is known is replayed.  Otherwise the operator's decision has
\* to be the one the observation recommends, which rules out `recovery-required`.
RecoverDecide(p) ==
  /\ At(p, "recover-decide")
  /\ LET decision == Reconcile(job[p].from, job[p].seen, Proposed(p).base, Proposed(p).digest)
     IN IF AuditsWith(job[p].key) # {} \/ decision = "recovery-required"
        THEN Finish(p) /\ UNCHANGED attempts
        ELSE /\ attempts' = attempts + 1
             /\ job' = [job EXCEPT
                  ![p].pc = "transition", ![p].req = "recovery-required",
                  ![p].attempt = attempts + 1,
                  ![p].key = IF @ = NoKey THEN RecoveryKey(decision, job[p].of) ELSE @,
                  ![p].outcome = IF decision = "materialized" THEN "succeeded" ELSE "failed"]
  /\ UNCHANGED <<content, store, counts>>

--------------------------------------------------------------------------------
(* The environment.                                                        *)

\* The process dies between two awaits.  What it wrote stays; a backup it had
\* set aside stays under another name, which no command looks for.
Crash(p) ==
  /\ ~At(p, "idle")
  /\ crashes < MaxCrashes
  /\ crashes' = crashes + 1
  /\ Finish(p)
  /\ DropsStamp(p)
  /\ UNCHANGED <<content, store, attempts, ioErrors, edits>>

\* A person edits, creates or deletes the Change in the workspace.
Edit(d) ==
  /\ edits < MaxEdits
  /\ edits' = edits + 1
  /\ d # content
  /\ content' = d
  /\ UNCHANGED <<store, job, attempts, overtaken, crashes, ioErrors>>

--------------------------------------------------------------------------------

Init ==
  /\ content \in InitialContents
  /\ handoffs = <<>>
  /\ approvals = {}
  /\ log = <<>>
  /\ audits = {}
  /\ job = [p \in Procs |-> Idle]
  /\ attempts = 0
  /\ overtaken = [p \in Procs |-> 0]
  /\ crashes = 0 /\ ioErrors = 0 /\ edits = 0

ProposeStep(p) ==
  \/ ProposeFindHandoff(p) \/ ProposePreview(p) \/ ProposeSupersede(p) \/ ProposeSave(p)
ApproveStep(p) == ApproveEvaluate(p) \/ ApproveSave(p)
TransitionStep(p) == TransitionEvaluate(p) \/ TransitionSave(p)
ApplyStep(p) == ApplyCheckKey(p) \/ ApplyCheckStatus(p) \/ ApplyCheckApprovals(p)
MaterializeStep(p) ==
  GuardRefuses(p) \/ ReadBase(p) \/ Backup(p) \/ Install(p) \/ Cleanup(p)
  \/ Verify(p) \/ Discard(p)
AuditStep(p) == FindAudit(p) \/ GuardAudit(p) \/ SaveAudit(p)
RecoverStep(p) == RecoverFindHandoff(p) \/ RecoverFindStatus(p) \/ RecoverDecide(p)

\* A running command goes on to its next await.
Step(p) ==
  \/ ProposeStep(p) \/ ApproveStep(p) \/ TransitionStep(p) \/ ApplyStep(p)
  \/ MaterializeStep(p) \/ AuditStep(p) \/ RecoverStep(p)

\* Somebody runs a command.
Start(p) ==
  \/ \E d \in Digests : Propose(p, d)
  \/ \E in \in DecisionInputs : Approve(p, in[1], in[2])
  \/ \E key \in ApplyKeys : Apply(p, key)
  \/ \E key \in RecoverKeys : Recover(p, key)

Next ==
  \/ \E p \in Procs : Start(p) \/ Step(p) \/ IoError(p) \/ AuditIoError(p) \/ Crash(p)
  \/ \E d \in Contents : Edit(d)

Spec == Init /\ [][Next]_vars

================================================================================
