--------------------------- MODULE ChangeApplyProofs ---------------------------
(***************************************************************************)
(* For any number of processes, keys, digests, crashes, I/O errors and     *)
(* edits, tied records or not: approvals come in the order of the stages,  *)
(* what `change apply` writes was approved, and a Change recorded as       *)
(* `materialized` has its audit.                                           *)
(*                                                                         *)
(* When one command applies or recovers at a time, whatever is             *)
(* proposed and decided beside it and whatever the others left behind as   *)
(* they crashed or failed: the lifecycle and its records, the attempts and *)
(* their keys, what the provider holds and what recover says of it.        *)
(*                                                                         *)
(* A veto is heeded unless it comes between the approvals and the write,   *)
(* however many apply at once; and where one does, the status tells what   *)
(* the provider holds unless a proposal is under way during a swap.        *)
(***************************************************************************)
EXTENDS ChangeApplyProps, TLAPS

\* The points at which a command works on a handoff it has found.
WithHandoff ==
  Points \ {"idle", "find-handoff", "preview", "supersede", "save-handoff",
            "find-votes", "save-vote", "recover-handoff"}

Known(h) == h \in DOMAIN handoffs

Audited(h, key) == \E a \in audits : a.handoff = h /\ a.key = key

Ordered(ds, v) ==
  \A s \in RequiredStages(v.stage) : Approved(ds, s, v.version, v.digest)

\* What a command may rely on at each point ...
Fits(j) ==
  /\ j.pc \in WithHandoff => Known(j.h)
  /\ j.pc \in {"recover-handoff", "recover-status", "recover-decide"} => j.strategy = "recovery"
  /\ j.pc \in Writing => FullyApproved(j.h)
  /\ j.pc \in WithHandoff /\ j.strategy = "filesystem" /\ j.outcome = "succeeded"
       => FullyApproved(j.h)
  /\ j.pc \in {"transition", "save-transition"} /\ j.req = "materialized" => Audited(j.h, j.key)
  /\ j.pc = "save-vote" /\ j.vote.decision = "approve" => Ordered(approvals \cup {j.vote}, j.vote)

\* ... and what the audits and the records on disk say.
AuditInv ==
  \A a \in audits :
    /\ Known(a.handoff)
    /\ a.strategy = "filesystem" /\ a.outcome = "succeeded" => FullyApproved(a.handoff)

LogInv ==
  \A i \in DOMAIN log : log[i].to = "materialized" => Audited(log[i].handoff, log[i].key)

IInv == TypeOK /\ (\A p \in Procs : Fits(job[p])) /\ AuditInv /\ LogInv /\ ApprovalsAreOrdered

\* An idle command is a job, and relies on nothing.
LEMMA IdleFits == Idle \in Job /\ Fits(Idle) /\ Idle.outcome = "failed"
BY DEF Idle, Job, Fits, Points, WithHandoff, Writing, NoDraft, NoVote, NoKey, Handoff, Vote,
       Key, Contents, Statuses, Audited, Known

\* One command goes on, and may rely on what it needs at its next point.
Settles(p) ==
  /\ job' = [job EXCEPT ![p] = job'[p]]
  /\ job'[p] \in Job
  /\ Fits(job'[p])

\* What the steps of one command read, typed.
LEMMA Typed ==
  ASSUME IInv, NEW p \in Procs
  PROVE  /\ job \in [Procs -> Job] /\ job[p] \in Job /\ Fits(job[p])
         /\ content \in Contents /\ attempts \in Nat
         /\ crashes \in Nat /\ ioErrors \in Nat /\ edits \in Nat
         /\ overtaken \in [Procs -> Nat]
         /\ Status \in Statuses \cup {"none"}
         /\ Len(handoffs) \in Nat
         /\ log # <<>> => log[Len(log)] \in Transition
         /\ Known(job[p].h) => Proposed(p) \in Handoff
<1>1. Fits(job[p])
  BY DEF IInv
<1>2. Status \in Statuses \cup {"none"}
  <2>1. CASE log = <<>>
    BY <2>1 DEF Status
  <2>2. CASE log # <<>>
    <3>1. log[Len(log)] \in Transition
      BY <2>2 DEF IInv, TypeOK
    <3> QED
      BY <2>2, <3>1 DEF Status, Transition
  <2> QED
    BY <2>1, <2>2
<1>3. Known(job[p].h) => Proposed(p) \in Handoff
  BY DEF IInv, TypeOK, Known, Proposed
<1> QED
  BY <1>1, <1>2, <1>3 DEF IInv, TypeOK

LEMMA FinishSettles ==
  ASSUME IInv, NEW p \in Procs, Finish(p) PROVE Settles(p)
<1>1. job' = [job EXCEPT ![p] = job'[p]] /\ job'[p] = Idle
  BY DEF IInv, TypeOK, Finish
<1> QED
  BY <1>1, IdleFits DEF Settles

LEMMA ApprovalsStay ==
  ASSUME ApprovalsAreOrdered, UNCHANGED approvals PROVE ApprovalsAreOrdered'
BY DEF ApprovalsAreOrdered, Approved, DecisionsOn

\* A step that leaves the store alone only has to settle its own command.
LEMMA StoreUnchanged ==
  ASSUME IInv, NEW p \in Procs, UNCHANGED store, Settles(p),
         content' \in Contents, attempts' \in Nat,
         crashes' \in Nat, ioErrors' \in Nat, edits' \in Nat, overtaken' \in [Procs -> Nat]
  PROVE  IInv'
<1> USE DEF Settles
<1>1. TypeOK'
  BY DEF IInv, TypeOK, store
<1>2. ASSUME NEW q \in Procs PROVE Fits(job[q])'
  <2>1. Fits(job'[q])
    BY DEF IInv, TypeOK
  <2> QED
    BY <2>1 DEF store, Fits, Known, FullyApproved, Audited, Ordered
<1>3. AuditInv'
  BY DEF IInv, AuditInv, store, Known, FullyApproved
<1>4. LogInv'
  BY DEF IInv, LogInv, store, Audited
<1> QED
  BY <1>1, <1>2, <1>3, <1>4, ApprovalsStay DEF IInv, store

--------------------------------------------------------------------------------
(* The steps that leave the store alone.                                   *)

LEMMA ProposeKeeps ==
  ASSUME IInv, NEW p \in Procs, ~At(p, "save-handoff"), ProposeStep(p) PROVE IInv'
<1>0. job \in [Procs -> Job] /\ job[p] \in Job /\ Fits(job[p])
  BY Typed
<1>1. CASE ProposeFindHandoff(p)
  <2>1. job' = [job EXCEPT ![p] = job'[p]]
    BY <1>0, <1>1 DEF ProposeFindHandoff
  <2>2. job'[p] \in Job
    <3>1. Len(handoffs) \in Nat
      BY Typed
    <3> QED
      BY <1>0, <1>1, <3>1 DEF ProposeFindHandoff, Job, Points
  <2>3. Fits(job'[p])
    BY <1>0, <1>1 DEF ProposeFindHandoff, Job, At, Fits, WithHandoff, Points, Writing
  <2> QED
    BY <1>1, <2>1, <2>2, <2>3, Typed, StoreUnchanged DEF ProposeFindHandoff, Settles, counts
<1>2. CASE ProposePreview(p)
  <2>1. ~Finish(p) => job' = [job EXCEPT ![p] = job'[p]]
    BY <1>0, <1>2 DEF ProposePreview
  <2>2. ~Finish(p) => job'[p] \in Job
    BY <1>0, <1>2, SMTT(30) DEF ProposePreview, Job, Points, Handoff, Versions
  <2>3. ~Finish(p) => Fits(job'[p])
    BY <1>0, <1>2 DEF ProposePreview, Job, At, Fits, WithHandoff, Points, Writing
  <2> QED
    BY <1>2, <2>1, <2>2, <2>3, FinishSettles, Typed, StoreUnchanged DEF ProposePreview, Settles, counts
<1>3. CASE ProposeSupersede(p)
  <2>1. ~Finish(p) => job' = [job EXCEPT ![p] = job'[p]]
    BY <1>0, <1>3 DEF ProposeSupersede, Goto
  <2>2. ~Finish(p) => job'[p] \in Job
    BY <1>0, <1>3, SMTT(30) DEF ProposeSupersede, Job, Points, Goto
  <2>3. ~Finish(p) => Fits(job'[p])
    BY <1>0, <1>3 DEF ProposeSupersede, Job, At, Fits, WithHandoff, Points, Writing, Goto
  <2> QED
    BY <1>3, <2>1, <2>2, <2>3, FinishSettles, Typed, StoreUnchanged DEF ProposeSupersede, Settles, counts
<1> QED
  BY <1>1, <1>2, <1>3 DEF ProposeStep, ProposeSave, At

LEMMA ApproveKeeps ==
  ASSUME IInv, NEW p \in Procs, ~At(p, "save-vote"), ApproveStep(p) PROVE IInv'
<1>0. job \in [Procs -> Job] /\ job[p] \in Job /\ Fits(job[p])
  BY Typed
<1>1. CASE ApproveEvaluate(p)
  <2>1. ~Finish(p) => job' = [job EXCEPT ![p] = job'[p]]
    BY <1>0, <1>1 DEF ApproveEvaluate, Goto
  <2>2. ~Finish(p) => job'[p] \in Job
    BY <1>0, <1>1, SMTT(30) DEF ApproveEvaluate, Job, Points, Goto
  <2>3. ~Finish(p) => Fits(job'[p])
    <3>1. ~Finish(p) => job'[p] = [job[p] EXCEPT !.pc = "save-vote"]
      BY <1>0, <1>1 DEF ApproveEvaluate, Goto
    <3>2. ~Finish(p) /\ job[p].vote.decision = "approve"
          => Ordered(approvals \cup {job[p].vote}, job[p].vote)
      BY <1>1 DEF ApproveEvaluate, Allowed, Ordered
    <3> QED
      BY <1>0, <1>1, <3>1, <3>2 DEF ApproveEvaluate, Job, At, Fits, WithHandoff, Points, Writing
  <2> QED
    BY <1>1, <2>1, <2>2, <2>3, FinishSettles, Typed, StoreUnchanged DEF ApproveEvaluate, Settles, counts
<1> QED
  BY <1>1 DEF ApproveStep, ApproveSave, At

LEMMA TransitionKeeps ==
  ASSUME IInv, NEW p \in Procs, ~At(p, "save-transition"), TransitionStep(p) PROVE IInv'
<1>0. job \in [Procs -> Job] /\ job[p] \in Job /\ Fits(job[p])
  BY Typed
<1>1. CASE TransitionEvaluate(p)
  <2>1. ~Finish(p) => job' = [job EXCEPT ![p] = job'[p]]
    BY <1>0, <1>1 DEF TransitionEvaluate
  <2>2. ~Finish(p) => job'[p] \in Job
    <3>1. Status \in Statuses \cup {"none"}
      BY Typed
    <3> QED
      BY <1>0, <1>1, <3>1, SMTT(30) DEF TransitionEvaluate, Job, Points
  <2>3. ~Finish(p) => Fits(job'[p])
    BY <1>0, <1>1 DEF TransitionEvaluate, Job, At, Fits, WithHandoff, Points, Writing
  <2> QED
    BY <1>1, <2>1, <2>2, <2>3, FinishSettles, Typed, StoreUnchanged DEF TransitionEvaluate, DropsStamp, Settles
<1> QED
  BY <1>1 DEF TransitionStep, TransitionSave, At

LEMMA ApplyKeeps ==
  ASSUME IInv, NEW p \in Procs, ApplyStep(p) PROVE IInv'
<1>0. job \in [Procs -> Job] /\ job[p] \in Job /\ Fits(job[p])
  BY Typed
<1>1. CASE ApplyCheckKey(p)
  <2>1. ~Finish(p) => job' = [job EXCEPT ![p] = job'[p]]
    BY <1>0, <1>1 DEF ApplyCheckKey
  <2>2. ~Finish(p) => job'[p] \in Job
    <3>1. attempts + 1 \in Nat
      BY Typed
    <3> QED
      BY <1>0, <1>1, <3>1, SMTT(30) DEF ApplyCheckKey, Job, Points
  <2>3. ~Finish(p) => Fits(job'[p])
    BY <1>0, <1>1 DEF ApplyCheckKey, Job, At, Fits, WithHandoff, Points, Writing
  <2> QED
    BY <1>1, <2>1, <2>2, <2>3, FinishSettles, Typed, StoreUnchanged DEF ApplyCheckKey, Settles, counts
<1>2. CASE ApplyCheckStatus(p)
  <2>1. ~Finish(p) => job' = [job EXCEPT ![p] = job'[p]]
    BY <1>0, <1>2 DEF ApplyCheckStatus
  <2>2. ~Finish(p) => job'[p] \in Job
    BY <1>0, <1>2, SMTT(30) DEF ApplyCheckStatus, Job, Points, Statuses
  <2>3. ~Finish(p) => Fits(job'[p])
    BY <1>0, <1>2 DEF ApplyCheckStatus, Job, At, Fits, WithHandoff, Points, Writing
  <2> QED
    BY <1>2, <2>1, <2>2, <2>3, FinishSettles, Typed, StoreUnchanged DEF ApplyCheckStatus, Settles, counts
<1>3. CASE ApplyCheckApprovals(p)
  <2>1. job' = [job EXCEPT ![p] = job'[p]]
    BY <1>0, <1>3 DEF ApplyCheckApprovals, Goto, Fail
  <2>2. job'[p] \in Job
    BY <1>0, <1>3, SMTT(30) DEF ApplyCheckApprovals, Job, Points, Goto, Fail
  <2>3. Fits(job'[p])
    BY <1>0, <1>3 DEF ApplyCheckApprovals, Job, At, Fits, WithHandoff, Points, Writing, Goto, Fail, Allowed, FullyApproved, ApplyStages, Proposed
  <2> QED
    BY <1>3, <2>1, <2>2, <2>3, Typed, StoreUnchanged DEF ApplyCheckApprovals, Settles, counts
<1> QED
  BY <1>1, <1>2, <1>3 DEF ApplyStep

LEMMA MaterializeKeeps ==
  ASSUME IInv, NEW p \in Procs, MaterializeStep(p) PROVE IInv'
<1>0. job \in [Procs -> Job] /\ job[p] \in Job /\ Fits(job[p])
  BY Typed
<1>1. CASE GuardRefuses(p)
  <2>1. job' = [job EXCEPT ![p] = job'[p]]
    BY <1>0, <1>1 DEF GuardRefuses, Fail
  <2>2. job'[p] \in Job
    BY <1>0, <1>1 DEF GuardRefuses, Job, Points, Fail
  <2>3. Fits(job'[p])
    BY <1>0, <1>1 DEF GuardRefuses, Job, At, Fits, WithHandoff, Points, Writing, Fail
  <2> QED
    BY <1>1, <2>1, <2>2, <2>3, Typed, StoreUnchanged DEF GuardRefuses, Settles, counts
<1>2. CASE ReadBase(p)
  <2>1. job' = [job EXCEPT ![p] = job'[p]]
    BY <1>0, <1>2 DEF ReadBase, Fail
  <2>2. job'[p] \in Job
    <3>1. content \in Contents
      BY Typed
    <3> QED
      BY <1>0, <1>2, <3>1, SMTT(30) DEF ReadBase, Job, Points, Fail
  <2>3. Fits(job'[p])
    BY <1>0, <1>2 DEF ReadBase, Job, At, Fits, WithHandoff, Points, Writing, Fail
  <2> QED
    BY <1>2, <2>1, <2>2, <2>3, Typed, StoreUnchanged DEF ReadBase, Settles, counts
<1>3. CASE Backup(p)
  <2>1. job' = [job EXCEPT ![p] = job'[p]]
    BY <1>0, <1>3 DEF Backup, Fail
  <2>2. job'[p] \in Job
    <3>1. content \in Contents
      BY Typed
    <3> QED
      BY <1>0, <1>3, <3>1, SMTT(30) DEF Backup, Job, Points, Fail
  <2>3. Fits(job'[p])
    BY <1>0, <1>3 DEF Backup, Job, At, Fits, WithHandoff, Points, Writing, Fail
  <2> QED
    BY <1>3, <2>1, <2>2, <2>3, Typed, StoreUnchanged DEF Backup, Settles, counts, Contents
<1>4. CASE Install(p)
  <2>1. job' = [job EXCEPT ![p] = job'[p]]
    BY <1>0, <1>4 DEF Install, Fail, Goto
  <2>2. job'[p] \in Job
    BY <1>0, <1>4, SMTT(30) DEF Install, Job, Points, Fail, Goto
  <2>3. Fits(job'[p])
    BY <1>0, <1>4 DEF Install, Job, At, Fits, WithHandoff, Points, Writing, Fail, Goto
  <2> QED
    BY <1>4, <2>1, <2>2, <2>3, Typed, StoreUnchanged DEF Install, Settles, counts, Handoff, Fits, WithHandoff, Points, At
<1>5. CASE Cleanup(p)
  <2>1. job' = [job EXCEPT ![p] = job'[p]]
    BY <1>0, <1>5 DEF Cleanup
  <2>2. job'[p] \in Job
    BY <1>0, <1>5 DEF Cleanup, Job, Points, Contents
  <2>3. Fits(job'[p])
    BY <1>0, <1>5 DEF Cleanup, Job, At, Fits, WithHandoff, Points, Writing
  <2> QED
    BY <1>5, <2>1, <2>2, <2>3, Typed, StoreUnchanged DEF Cleanup, Settles, counts
<1>6. CASE Verify(p)
  <2>1. job' = [job EXCEPT ![p] = job'[p]]
    BY <1>0, <1>6 DEF Verify, Goto
  <2>2. job'[p] \in Job
    BY <1>0, <1>6, SMTT(30) DEF Verify, Job, Points, Goto
  <2>3. Fits(job'[p])
    BY <1>0, <1>6 DEF Verify, Job, At, Fits, WithHandoff, Points, Writing, Goto
  <2> QED
    BY <1>6, <2>1, <2>2, <2>3, Typed, StoreUnchanged DEF Verify, Settles, counts
<1>7. CASE Discard(p)
  <2>1. job' = [job EXCEPT ![p] = job'[p]]
    BY <1>0, <1>7 DEF Discard, Fail
  <2>2. job'[p] \in Job
    BY <1>0, <1>7 DEF Discard, Job, Points, Fail
  <2>3. Fits(job'[p])
    BY <1>0, <1>7 DEF Discard, Job, At, Fits, WithHandoff, Points, Writing, Fail
  <2> QED
    BY <1>7, <2>1, <2>2, <2>3, Typed, StoreUnchanged DEF Discard, Settles, counts, Contents
<1> QED
  BY <1>1, <1>2, <1>3, <1>4, <1>5, <1>6, <1>7 DEF MaterializeStep

LEMMA RecoverKeeps ==
  ASSUME IInv, NEW p \in Procs, RecoverStep(p) PROVE IInv'
<1>0. job \in [Procs -> Job] /\ job[p] \in Job /\ Fits(job[p])
  BY Typed
<1>1. CASE RecoverFindHandoff(p)
  <2>1. ~Finish(p) => job' = [job EXCEPT ![p] = job'[p]]
    BY <1>0, <1>1 DEF RecoverFindHandoff
  <2>2. ~Finish(p) => job'[p] \in Job
    <3>1. Len(handoffs) \in Nat
      BY Typed
    <3> QED
      BY <1>0, <1>1, <3>1, SMTT(30) DEF RecoverFindHandoff, Job, Points
  <2>3. ~Finish(p) => Fits(job'[p])
    BY <1>0, <1>1 DEF RecoverFindHandoff, Job, At, Fits, WithHandoff, Points, Writing, IInv, TypeOK, Known
  <2> QED
    BY <1>1, <2>1, <2>2, <2>3, FinishSettles, Typed, StoreUnchanged DEF RecoverFindHandoff, Settles, counts
<1>2. CASE RecoverFindStatus(p)
  <2>1. ~Finish(p) => job' = [job EXCEPT ![p] = job'[p]]
    BY <1>0, <1>2 DEF RecoverFindStatus
  <2>2. ~Finish(p) => job'[p] \in Job
    <3>1. Status \in Statuses \cup {"none"} /\ (log # <<>> => log[Len(log)].attempt \in Nat /\ log[Len(log)].key \in Key)
      BY Typed DEF Transition
    <3> QED
      BY <1>0, <1>2, <3>1, SMTT(30) DEF RecoverFindStatus, Job, Points
  <2>3. ~Finish(p) => Fits(job'[p])
    BY <1>0, <1>2 DEF RecoverFindStatus, Job, At, Fits, WithHandoff, Points, Writing
  <2> QED
    BY <1>2, <2>1, <2>2, <2>3, FinishSettles, Typed, StoreUnchanged DEF RecoverFindStatus, Settles, counts
<1>3. CASE RecoverDecide(p)
  <2>1. ~Finish(p) => job' = [job EXCEPT ![p] = job'[p]]
    BY <1>0, <1>3 DEF RecoverDecide
  <2>2. ~Finish(p) => job'[p] \in Job
    <3>1. attempts + 1 \in Nat
      BY Typed
    <3> QED
      BY <1>0, <1>3, <3>1, SMTT(30) DEF RecoverDecide, Job, Points, RecoveryKey, Key, Statuses
  <2>3. ~Finish(p) => Fits(job'[p])
    BY <1>0, <1>3 DEF RecoverDecide, Job, At, Fits, WithHandoff, Points, Writing
  <2> QED
    BY <1>3, <2>1, <2>2, <2>3, FinishSettles, Typed, StoreUnchanged DEF RecoverDecide, Settles, counts
<1> QED
  BY <1>1, <1>2, <1>3 DEF RecoverStep

LEMMA AuditKeeps ==
  ASSUME IInv, NEW p \in Procs, ~At(p, "save-audit"), AuditStep(p) PROVE IInv'
<1>0. job \in [Procs -> Job] /\ job[p] \in Job /\ Fits(job[p])
  BY Typed
<1>1. CASE FindAudit(p)
  <2>1. ~Finish(p) => job' = [job EXCEPT ![p] = job'[p]]
    BY <1>0, <1>1 DEF FindAudit, Goto, AuditThrows, AfterAudit
  <2>2. ~Finish(p) => job'[p] \in Job
    BY <1>0, <1>1, SMTT(30) DEF FindAudit, Job, Points, Goto, AuditThrows, AfterAudit, Statuses
  <2>3. ~Finish(p) => Fits(job'[p])
    BY <1>0, <1>1 DEF FindAudit, Job, At, Fits, WithHandoff, Points, Writing, Goto, AuditThrows, AfterAudit, SameRequest, AuditOf, AuditsWith, Audited
  <2> QED
    BY <1>1, <2>1, <2>2, <2>3, FinishSettles, Typed, StoreUnchanged DEF FindAudit, Settles, counts
<1>2. CASE GuardAudit(p)
  <2>1. ~Finish(p) => job' = [job EXCEPT ![p] = job'[p]]
    BY <1>0, <1>2 DEF GuardAudit, Goto, AuditThrows, AfterAudit
  <2>2. ~Finish(p) => job'[p] \in Job
    BY <1>0, <1>2, SMTT(30) DEF GuardAudit, Job, Points, Goto, AuditThrows, AfterAudit, Statuses
  <2>3. ~Finish(p) => Fits(job'[p])
    BY <1>0, <1>2 DEF GuardAudit, Job, At, Fits, WithHandoff, Points, Writing, Goto, AuditThrows, AfterAudit
  <2> QED
    BY <1>2, <2>1, <2>2, <2>3, FinishSettles, Typed, StoreUnchanged DEF GuardAudit, Settles, counts
<1> QED
  BY <1>1, <1>2 DEF AuditStep, SaveAudit, At


(* The steps that save something.                                          *)

\* The store only grows: what was approved, audited or found stays so.
Grows ==
  /\ \A h \in DOMAIN handoffs : h \in DOMAIN handoffs' /\ handoffs'[h] = handoffs[h]
  /\ approvals \subseteq approvals'
  /\ audits \subseteq audits'

LEMMA FullyApprovedPersists ==
  ASSUME NEW h, Grows, Known(h), FullyApproved(h) PROVE Known(h)' /\ FullyApproved(h)'
BY DEF Grows, Known, FullyApproved, Approved, DecisionsOn

LEMMA FitsPersists ==
  ASSUME NEW j, Grows, Fits(j) PROVE Fits(j)'
<1>1. Known(j.h) => Known(j.h)'
  BY DEF Grows, Known
<1>2. Known(j.h) /\ FullyApproved(j.h) => FullyApproved(j.h)'
  BY FullyApprovedPersists
<1>3. Audited(j.h, j.key) => Audited(j.h, j.key)'
  BY DEF Grows, Audited
<1>4. Ordered(approvals \cup {j.vote}, j.vote) => Ordered(approvals \cup {j.vote}, j.vote)'
  BY DEF Grows, Ordered, Approved, DecisionsOn
<1> QED
  BY <1>1, <1>2, <1>3, <1>4 DEF Fits, Writing, WithHandoff, Points

LEMMA AuditPersists ==
  ASSUME NEW a \in audits, Grows, AuditInv
  PROVE  /\ Known(a.handoff)'
         /\ a.strategy = "filesystem" /\ a.outcome = "succeeded" => FullyApproved(a.handoff)'
<1>1. /\ Known(a.handoff)
      /\ a.strategy = "filesystem" /\ a.outcome = "succeeded" => FullyApproved(a.handoff)
  BY DEF AuditInv
<1>2. Known(a.handoff)'
  BY <1>1 DEF Grows, Known
<1> QED
  BY <1>1, <1>2, FullyApprovedPersists

LEMMA LogPersists ==
  ASSUME Grows, LogInv, UNCHANGED log PROVE LogInv'
BY DEF Grows, LogInv, Audited

\* Saving a handoff or a decision: the command ends, the others rely on the same.
LEMMA SaveAndFinish ==
  ASSUME IInv, NEW p \in Procs, Grows, Finish(p), UNCHANGED <<log, audits>>,
         TypeOK', ApprovalsAreOrdered'
  PROVE  IInv'
<1>1. Settles(p)
  BY FinishSettles
<1>2. ASSUME NEW q \in Procs PROVE Fits(job[q])'
  <2>1. Fits(job'[q])
    BY <1>1 DEF Settles, IInv, TypeOK
  <2> QED
    BY <2>1, FitsPersists
<1>3. AuditInv'
  BY AuditPersists DEF IInv, AuditInv
<1> QED
  BY <1>2, <1>3, LogPersists DEF IInv

LEMMA SaveKeeps ==
  ASSUME IInv, NEW p \in Procs, ProposeSave(p) \/ ApproveSave(p) PROVE IInv'
<1>0. Finish(p) /\ UNCHANGED <<log, audits>> /\ job' \in [Procs -> Job]
  BY IdleFits DEF ProposeSave, ApproveSave, Finish, IInv, TypeOK
<1>1. CASE ProposeSave(p)
  <2>1. job[p].draft \in Handoff
    BY DEF IInv, TypeOK, Job
  <2>2. handoffs' \in Seq(Handoff) /\ Grows
    BY <1>1, <2>1 DEF ProposeSave, Grows, IInv, TypeOK
  <2>3. TypeOK'
    BY <1>0, <1>1, <2>2 DEF ProposeSave, IInv, TypeOK, counts
  <2>4. ApprovalsAreOrdered'
    BY <1>1, ApprovalsStay DEF ProposeSave, IInv
  <2> QED
    BY <1>0, <2>2, <2>3, <2>4, SaveAndFinish
<1>2. CASE ApproveSave(p)
  <2>1. job[p].vote \in Vote
    BY DEF IInv, TypeOK, Job
  <2>2. TypeOK' /\ Grows
    BY <1>0, <1>2, <2>1 DEF ApproveSave, Grows, IInv, TypeOK, counts
  <2>3. ASSUME NEW v \in approvals', v.decision = "approve" PROVE Ordered(approvals', v)
    <3>1. approvals' = approvals \cup {job[p].vote}
      BY <1>2 DEF ApproveSave
    <3>2. CASE v \in approvals
      BY <2>3, <3>1, <3>2 DEF IInv, ApprovalsAreOrdered, Ordered, Approved, DecisionsOn
    <3>3. CASE v = job[p].vote
      BY <1>2, <2>3, <3>1, <3>3 DEF ApproveSave, At, IInv, Fits
    <3> QED
      BY <3>1, <3>2, <3>3
  <2>4. ApprovalsAreOrdered'
    BY <2>3 DEF ApprovalsAreOrdered, Ordered
  <2> QED
    BY <1>0, <2>2, <2>4, SaveAndFinish
<1> QED
  BY <1>1, <1>2

\* The audit a command saves is the one its last transition needs.
LEMMA SaveAuditKeeps ==
  ASSUME IInv, NEW p \in Procs, SaveAudit(p) PROVE IInv'
<1>0. job \in [Procs -> Job] /\ job[p] \in Job /\ Fits(job[p])
  BY Typed
<1>1. job[p].pc = "save-audit" /\ Known(job[p].h)
  BY <1>0 DEF SaveAudit, At, Fits, WithHandoff, Points
<1>2. AuditOf(p) \in Audit
  <2>1. Proposed(p).digest \in Contents
    BY <1>1, Typed DEF Handoff
  <2> QED
    BY <1>0, <2>1 DEF AuditOf, Audit, Job
<1>3. Grows
  BY DEF SaveAudit, Grows
<1>4. job' = [job EXCEPT ![p] = job'[p]]
  BY <1>0 DEF SaveAudit, AfterAudit
<1>5. job'[p] \in Job
  <2>1. PICK req \in {"materialized", "apply-failed"} :
          job' = [job EXCEPT ![p].pc = "transition", ![p].req = req]
    BY DEF SaveAudit, AfterAudit
  <2>2. PICK j \in Job : j = job[p]
    BY <1>0
  <2>3. [j EXCEPT !.pc = "transition", !.req = req] \in Job
    BY <2>1 DEF Job, Points, Statuses
  <2> QED
    BY <1>0, <2>1, <2>2, <2>3
<1>6. TypeOK'
  BY <1>0, <1>2, <1>4, <1>5 DEF SaveAudit, IInv, TypeOK, counts
<1>7. ASSUME NEW q \in Procs PROVE Fits(job[q])'
  <2>1. CASE q # p
    <3>1. Fits(job'[q])
      BY <1>0, <1>4, <2>1 DEF IInv
    <3> QED
      BY <3>1, <1>3, FitsPersists
  <2>2. CASE q = p
    <3>1. \E a \in audits' : a.handoff = job[p].h /\ a.key = job[p].key
      <4>1. AuditOf(p) \in audits'
        BY DEF SaveAudit
      <4> QED
        BY <4>1 DEF AuditOf
    <3>2. /\ job'[p].h = job[p].h /\ job'[p].key = job[p].key
          /\ job'[p].strategy = job[p].strategy /\ job'[p].outcome = job[p].outcome
          /\ job'[p].pc = "transition"
      BY <1>0 DEF SaveAudit, AfterAudit, Job
    <3>3. Known(job[p].h)'
      BY <1>1, <1>3, <3>2 DEF Known, Grows
    <3>4. job'[p].strategy = "filesystem" /\ job'[p].outcome = "succeeded"
          => FullyApproved(job[p].h)'
      <4>1. job[p].strategy = "filesystem" /\ job[p].outcome = "succeeded"
            => FullyApproved(job[p].h)
        BY <1>0, <1>1 DEF Fits, WithHandoff, Points
      <4> QED
        BY <1>1, <1>3, <3>2, <4>1, FullyApprovedPersists
    <3>5. Audited(job[p].h, job[p].key)'
      BY <3>1, <3>2 DEF Audited
    <3> QED
      BY <2>2, <3>2, <3>3, <3>4, <3>5 DEF Fits, Writing
  <2> QED
    BY <2>1, <2>2
<1>8. AuditInv'
  <2>1. ASSUME NEW a \in audits'
        PROVE  /\ Known(a.handoff)'
               /\ a.strategy = "filesystem" /\ a.outcome = "succeeded" => FullyApproved(a.handoff)'
    <3>1. CASE a \in audits
      BY <1>3, <3>1, AuditPersists DEF IInv
    <3>2. CASE a = AuditOf(p)
      BY <1>0, <1>1, <1>3, <3>2, FullyApprovedPersists DEF AuditOf, Fits, WithHandoff, Points, Grows, Known
    <3> QED
      BY <3>1, <3>2 DEF SaveAudit
  <2> QED
    BY <2>1 DEF AuditInv
<1> QED
  BY <1>3, <1>6, <1>7, <1>8, LogPersists, ApprovalsStay DEF IInv, SaveAudit

LEMMA InsertRecordType ==
  ASSUME NEW k \in 1 .. Len(log) + 1, NEW r \in Transition, log \in Seq(Transition)
  PROVE  /\ InsertRecord(k, r) \in Seq(Transition)
         /\ \A i \in DOMAIN InsertRecord(k, r) :
              InsertRecord(k, r)[i] = r \/ \E j \in DOMAIN log : InsertRecord(k, r)[i] = log[j]
<1> DEFINE L == InsertRecord(k, r)
<1>1. Len(log) \in Nat /\ DOMAIN log = 1 .. Len(log)
  OBVIOUS
<1>2. \A i \in 1 .. Len(log) + 1 : L[i] = r \/ \E j \in DOMAIN log : L[i] = log[j]
  BY <1>1 DEF InsertRecord
<1>3. \A i \in 1 .. Len(log) + 1 : L[i] \in Transition
  BY <1>2
<1>4. L \in [1 .. Len(log) + 1 -> Transition]
  BY <1>3 DEF InsertRecord
<1>5. L \in Seq(Transition)
  BY <1>1, <1>4
<1> QED
  BY <1>2, <1>4, <1>5

LEMMA TransitionSaveKeeps ==
  ASSUME IInv, NEW p \in Procs, TransitionSave(p) PROVE IInv'
<1>0. job \in [Procs -> Job] /\ job[p] \in Job /\ Fits(job[p])
  BY Typed
<1>1. RecordOf(p) \in Transition
  BY <1>0 DEF RecordOf, Transition, Job
<1>2. PICK k \in Places(p) : log' = InsertRecord(k, RecordOf(p)) /\ Overtakes(p, k)
  BY DEF TransitionSave
<1>3. k \in 1 .. Len(log) + 1 /\ log \in Seq(Transition)
  BY DEF Places, IInv, TypeOK
<1>4. /\ log' \in Seq(Transition)
      /\ \A i \in DOMAIN log' :
           log'[i] = RecordOf(p) \/ \E j \in DOMAIN log : log'[i] = log[j]
  BY <1>1, <1>2, <1>3, InsertRecordType
<1>5. Settles(p)
  <2>1. ~Finish(p) => job' = [job EXCEPT ![p] = job'[p]]
    BY <1>0 DEF TransitionSave, AfterTransition
  <2>2. ~Finish(p) => job'[p] \in Job
    BY <1>0, SMTT(30) DEF TransitionSave, AfterTransition, Job, Points, Statuses
  <2>3. ~Finish(p) => Fits(job'[p])
    BY <1>0, SMTT(30) DEF TransitionSave, AfterTransition, Job, At, Fits, WithHandoff, Points, Writing
  <2> QED
    BY <2>1, <2>2, <2>3, FinishSettles DEF Settles
<1>6. TypeOK'
  <2>1. overtaken' \in [Procs -> Nat]
    BY <1>2, Typed DEF Overtakes
  <2> QED
    BY <1>4, <1>5, <2>1 DEF TransitionSave, Settles, IInv, TypeOK
<1>7. Grows
  BY DEF TransitionSave, Grows
<1>8. ASSUME NEW q \in Procs PROVE Fits(job[q])'
  <2>1. Fits(job'[q])
    BY <1>5 DEF Settles, IInv, TypeOK
  <2> QED
    BY <1>7, <2>1, FitsPersists
<1>9. AuditInv'
  BY <1>7, AuditPersists DEF TransitionSave, IInv, AuditInv
<1>10. LogInv'
  <2>1. job[p].req = "materialized" => Audited(job[p].h, job[p].key)
    BY <1>0 DEF TransitionSave, At, Fits
  <2>2. RecordOf(p).to = "materialized" => Audited(RecordOf(p).handoff, RecordOf(p).key)
    BY <2>1 DEF RecordOf
  <2>3. ASSUME NEW i \in DOMAIN log', log'[i].to = "materialized"
        PROVE  Audited(log'[i].handoff, log'[i].key)
    BY <1>4, <2>2, <2>3 DEF IInv, LogInv
  <2> QED
    BY <2>3 DEF TransitionSave, LogInv, Audited
<1> QED
  BY <1>6, <1>8, <1>9, <1>10, ApprovalsStay DEF IInv, TransitionSave

--------------------------------------------------------------------------------
(* The environment, and commands that start.                               *)

\* A command that starts is in a state that fits, whatever it is asked to do.
LEMMA StartKeeps ==
  ASSUME IInv, NEW p \in Procs, Start(p) PROVE IInv'
<1>0. job \in [Procs -> Job] /\ Idle \in Job /\ Idle.outcome = "failed"
  BY Typed, IdleFits
<1>1. ASSUME NEW d \in Digests, Propose(p, d) PROVE Settles(p)
  <2>1. content \in Contents
    BY <1>1, IdleFits, Typed
  <2>2. job' = [job EXCEPT ![p] = job'[p]]
    BY <1>0, <1>1 DEF Propose
  <2>3. job'[p] \in Job
    <3>1. [base |-> content, version |-> 0, digest |-> d] \in Handoff
      BY <2>1 DEF Handoff, Contents
    <3> QED
      BY <1>0, <1>1, <3>1 DEF Propose, Job, Points
  <2>4. Fits(job'[p])
    BY <1>0, <1>1, <2>1 DEF Propose, Job, Points, Fits, WithHandoff, Writing, Known
  <2> QED
    BY <2>2, <2>3, <2>4 DEF Settles
<1>2. ASSUME NEW in \in DecisionInputs, Approve(p, in[1], in[2]) PROVE Settles(p)
  <2>1. handoffs[Len(handoffs)] \in Handoff /\ in[1] \in Stages /\ in[2] \in Decisions
    BY <1>2, ConstantsAssumption DEF Approve, ConstantsAssumption, IInv, TypeOK
  <2>2. job' = [job EXCEPT ![p] = job'[p]]
    BY <1>0, <1>2 DEF Approve
  <2>3. job'[p] \in Job
    <3> DEFINE h == handoffs[Len(handoffs)]
    <3>1. [stage |-> in[1], decision |-> in[2], version |-> h.version, digest |-> h.digest] \in Vote
      BY <2>1 DEF Handoff, Vote
    <3> QED
      BY <1>0, <1>2, <3>1 DEF Approve, Job, Points
  <2>4. Fits(job'[p])
    BY <1>0, <1>2, <2>1 DEF Approve, Job, Points, Fits, WithHandoff, Writing, Known
  <2> QED
    BY <2>2, <2>3, <2>4 DEF Settles
<1>3. ASSUME NEW key \in ApplyKeys, Apply(p, key) PROVE Settles(p)
  <2>1. key \in Key /\ Len(handoffs) \in Nat /\ (handoffs # <<>> => Len(handoffs) \in DOMAIN handoffs)
    BY <1>3, ConstantsAssumption DEF IInv, TypeOK, ApplyKeys, UserKey, Key, ConstantsAssumption
  <2>2. job' = [job EXCEPT ![p] = job'[p]]
    BY <1>0, <1>3 DEF Apply
  <2>3. job'[p] \in Job
    BY <1>0, <1>3, <2>1 DEF Apply, Job, Points
  <2>4. Fits(job'[p])
    BY <1>0, <1>3, <2>1 DEF Apply, Job, Points, Fits, WithHandoff, Writing, Known
  <2> QED
    BY <2>2, <2>3, <2>4 DEF Settles
<1>4. ASSUME NEW key \in RecoverKeys, Recover(p, key) PROVE Settles(p)
  <2>1. key \in Key /\ content \in Contents
    BY <1>4, ConstantsAssumption, Typed DEF RecoverKeys, UserKey, NoKey, Key, ConstantsAssumption
  <2>2. job' = [job EXCEPT ![p] = job'[p]]
    BY <1>0, <1>4 DEF Recover
  <2>3. job'[p] \in Job
    BY <1>0, <1>4, <2>1 DEF Recover, Job, Points
  <2>4. Fits(job'[p])
    BY <1>0, <1>4, <2>1 DEF Recover, Job, Points, Fits, WithHandoff, Writing, Known
  <2> QED
    BY <2>2, <2>3, <2>4 DEF Settles
<1> QED
  BY <1>1, <1>2, <1>3, <1>4, Typed, StoreUnchanged DEF Start, Propose, Approve, Apply, Recover, counts

\* A file-system error or a kill ends a step early: nothing is saved.
LEMMA EnvironmentKeeps ==
  ASSUME IInv, NEW p \in Procs, IoError(p) \/ AuditIoError(p) \/ Crash(p) PROVE IInv'
<1>0. job \in [Procs -> Job] /\ job[p] \in Job /\ Fits(job[p])
  BY Typed
<1>1. CASE IoError(p)
  <2>1. job' = [job EXCEPT ![p] = job'[p]]
    BY <1>0, <1>1 DEF IoError, Fail
  <2>2. job'[p] \in Job
    BY <1>0, <1>1 DEF IoError, Fail, Job, Points
  <2>3. Fits(job'[p])
    BY <1>0, <1>1 DEF IoError, Fail, Job, At, Fits, WithHandoff, Points, Writing
  <2>4. content' \in Contents
    BY <1>0, <1>1, Typed DEF IoError, Job
  <2> QED
    BY <1>1, <2>1, <2>2, <2>3, <2>4, Typed, StoreUnchanged DEF IoError, Settles
<1>2. CASE AuditIoError(p)
  <2>1. ~Finish(p) => job' = [job EXCEPT ![p] = job'[p]]
    BY <1>0, <1>2 DEF AuditIoError, AuditThrows, AfterAudit
  <2>2. ~Finish(p) => job'[p] \in Job
    BY <1>0, <1>2, SMTT(30) DEF AuditIoError, AuditThrows, AfterAudit, Job, Points, Statuses
  <2>3. ~Finish(p) => Fits(job'[p])
    BY <1>0, <1>2, SMTT(30)
    DEF AuditIoError, AuditThrows, AfterAudit, Job, At, Fits, WithHandoff, Points, Writing
  <2> QED
    BY <1>2, <2>1, <2>2, <2>3, FinishSettles, Typed, StoreUnchanged DEF AuditIoError, Settles
<1>3. CASE Crash(p)
  BY <1>3, FinishSettles, Typed, StoreUnchanged DEF Crash, DropsStamp
<1> QED
  BY <1>1, <1>2, <1>3

LEMMA EditKeeps ==
  ASSUME IInv, NEW d \in Contents, Edit(d) PROVE IInv'
<1>1. TypeOK'
  BY DEF Edit, store, IInv, TypeOK
<1>2. Grows /\ UNCHANGED <<log, job, audits, approvals>>
  BY DEF Edit, store, Grows
<1>3. ASSUME NEW q \in Procs PROVE Fits(job[q])'
  <2>1. Fits(job'[q])
    BY <1>2 DEF IInv
  <2> QED
    BY <1>2, <2>1, FitsPersists
<1>4. AuditInv'
  BY <1>2, AuditPersists DEF IInv, AuditInv
<1> QED
  BY <1>1, <1>2, <1>3, <1>4, LogPersists, ApprovalsStay DEF IInv

--------------------------------------------------------------------------------
(* The theorems.                                                           *)

LEMMA InitIInv == Init => IInv
<1> SUFFICES ASSUME Init PROVE IInv
  OBVIOUS
<1>1. TypeOK
  BY ConstantsAssumption, IdleFits DEF Init, TypeOK, ConstantsAssumption, Contents
<1>2. \A p \in Procs : Fits(job[p])
  BY IdleFits DEF Init
<1> QED
  BY <1>1, <1>2 DEF Init, IInv, AuditInv, LogInv, ApprovalsAreOrdered

LEMMA StepKeeps ==
  ASSUME IInv, NEW p \in Procs, Step(p) PROVE IInv'
<1>1. CASE ProposeStep(p)
  BY <1>1, ProposeKeeps, SaveKeeps DEF ProposeStep, ProposeFindHandoff, ProposePreview, ProposeSupersede, At
<1>2. CASE ApproveStep(p)
  BY <1>2, ApproveKeeps, SaveKeeps DEF ApproveStep, ApproveEvaluate, At
<1>3. CASE TransitionStep(p)
  BY <1>3, TransitionKeeps, TransitionSaveKeeps DEF TransitionStep, TransitionEvaluate, At
<1>4. CASE AuditStep(p)
  BY <1>4, AuditKeeps, SaveAuditKeeps DEF AuditStep, FindAudit, GuardAudit, At
<1> QED
  BY <1>1, <1>2, <1>3, <1>4, ApplyKeeps, MaterializeKeeps, RecoverKeeps DEF Step

LEMMA NextIInv == IInv /\ [Next]_vars => IInv'
<1> SUFFICES ASSUME IInv, [Next]_vars PROVE IInv'
  OBVIOUS
<1>1. CASE UNCHANGED vars
  <2>1. Grows /\ UNCHANGED <<log, job, audits, approvals>> /\ TypeOK'
    BY <1>1 DEF vars, store, counts, Grows, IInv, TypeOK
  <2>2. \A q \in Procs : Fits(job[q])'
    BY <2>1, FitsPersists DEF IInv
  <2>3. AuditInv'
    BY <2>1, AuditPersists DEF IInv, AuditInv
  <2> QED
    BY <2>1, <2>2, <2>3, LogPersists, ApprovalsStay DEF IInv
<1>2. CASE Next
  BY <1>2, StartKeeps, StepKeeps, EnvironmentKeeps, EditKeeps DEF Next
<1> QED
  BY <1>1, <1>2

\* What every command relies on at its point, and what the records on disk say,
\* whoever else runs.
THEOREM Invariance == Spec => []IInv
BY InitIInv, NextIInv, PTL DEF Spec

\* Every state of the store and every command that runs has its type.
THEOREM TypeCorrect == Spec => []TypeOK
BY Invariance, PTL DEF IInv

\* No approval on record lacks the approvals of the stages before it.
THEOREM ApprovalsFollowTheStages == Spec => []ApprovalsAreOrdered
BY Invariance, PTL DEF IInv

\* Whatever `change apply` writes or audits as materialized has an approval of
\* every stage up to Apply Readiness, at its version and digest: for any number
\* of processes, however they interleave, die, fail or race with an edit.
THEOREM OnlyApprovedIsWritten == Spec => []WritesAreApproved
<1>1. IInv => WritesAreApproved
  BY DEF IInv, Fits, AuditInv, WritesAreApproved
<1> QED
  BY <1>1, Invariance, PTL

\* A record that says `materialized` has an audit of its handoff under its key.
THEOREM MaterializedWasAudited == Spec => []MaterializedHasAnAudit
<1>1. IInv => MaterializedHasAnAudit
  BY DEF IInv, LogInv, Audited, MaterializedHasAnAudit
<1> QED
  BY <1>1, Invariance, PTL

--------------------------------------------------------------------------------
(* One apply or recover at a time, with proposals and decisions beside it. *)

Drafting == {"find-handoff", "preview", "supersede", "save-handoff", "find-votes", "save-vote"}

\* The command applies or recovers.
AtWork(j) == j.pc \notin {"idle"} \cup Drafting

OneAtWork == \A p, q \in Procs : AtWork(job[p]) /\ AtWork(job[q]) => p = q

\* The command has an attempt id ...
Given == {"check-status", "transition", "save-transition", "check-approvals",
          "find-audit", "guard-audit", "save-audit"} \cup Writing

Recording(j) == j.pc \in {"transition", "save-transition"}
Auditing(j)  == j.pc \in {"find-audit", "guard-audit", "save-audit"}

\* ... and is before `applying`, between `applying` and its audit, or after that.
Admitting(j)  == Recording(j) /\ j.req \in {"approved", "apply-ready", "applying"}
Applying(j)   == j.strategy = "filesystem" /\ (j.pc \in {"check-approvals"} \cup Writing \/ Auditing(j))
Opening(j)    == Recording(j) /\ j.req = "recovery-required"
Judging(j)    == j.strategy = "recovery" /\ Auditing(j)
Concluding(j) == Recording(j) /\ j.req \in {"materialized", "apply-failed"}

Recovers(key) == key.kind \in {"recover:materialized", "recover:apply-failed"}

Last == log[Len(log)]

\* Nothing on record is about an attempt that n would be, or exceed.
Before(n) ==
  \A a \in audits : a.attempt < n /\ a.of < n /\ (Recovers(a.key) => a.key.n < n)

\* Which command is where, and the status it goes by.  A record that ties is read
\* back before the one the command wrote just before, so its status may lag.
Controlled(j) ==
  /\ j.pc \in {"check-key", "check-status", "check-approvals"} \cup Writing => j.strategy = "filesystem"
  /\ Admitting(j) => j.strategy = "filesystem"
  /\ Opening(j) => j.strategy = "recovery" /\ ~j.wrote
  /\ Concluding(j) => (j.req = "materialized" <=> j.outcome = "succeeded")
  /\ j.pc \in {"check-status", "recover-handoff", "recover-status", "recover-decide", "check-key"} => ~j.wrote
  /\ j.pc = "save-transition" => j.from = Status /\ CanTransition(Status, j.req)
  /\ j.pc = "recover-decide" => log # <<>> /\ j.from = Status /\ j.of = Last.attempt
  /\ Admitting(j) /\ j.wrote => Status \in {"approved", "apply-ready"}
  /\ Applying(j) => Status \in {"apply-ready", "applying"}
  /\ Judging(j) => Status = "recovery-required"

\* Its attempt is new, and so is its key until its audit is written.
Numbered(j) ==
  /\ j.pc \in Given => j.attempt = attempts
  /\ j.of <= attempts
  /\ j.strategy = "filesystem" => ~Recovers(j.key)
  /\ Recovers(j.key) => j.key.n <= attempts
  /\ j.pc \in Given /\ ~Concluding(j) => AuditsWith(j.key) = {} /\ Before(attempts)
  /\ Concluding(j) /\ j.req = "materialized" =>
       \E a \in audits : a.attempt = j.attempt /\ a.handoff = j.h /\ a.outcome = "succeeded"

NumbersInv ==
  /\ Before(attempts + 1)
  /\ \A i \in DOMAIN log : log[i].attempt <= attempts /\ Known(log[i].handoff)
  /\ Status = "applying" => \A a \in audits : Recovers(a.key) => a.key.n # Last.attempt
  /\ MaterializedIsAudited
  /\ OneAuditPerKey

\* While nobody dies and nothing fails, every attempt that reached `applying` is
\* audited under its key, or about to be.
AppliedKeys == {key \in Key : \E i \in DOMAIN log : log[i].to = "applying" /\ log[i].key = key}

Served(key) == AuditsWith(key) # {} \/ \E p \in Procs : Applying(job[p]) /\ job[p].key = key

KeysInv ==
  crashes = 0 /\ ioErrors = 0 => (\A key \in AppliedKeys : Served(key)) /\ RetriesUseNewKeys

\* While nobody edits the Change: what the provider holds ...
Observes(j) ==
  /\ j.strategy = "recovery" /\ AtWork(j) => j.seen = content
  /\ j.strategy = "recovery" /\ j.pc \in Given =>
       content = IF j.outcome = "succeeded" THEN handoffs[j.h].digest ELSE handoffs[j.h].base
  /\ j.pc = "backup" => content = handoffs[j.h].base /\ content # Absent
  /\ j.pc = "install" => content = Absent
  /\ j.pc \in {"cleanup", "verify"} => content = handoffs[j.h].digest
  /\ j.pc # "discard"
  /\ j.strategy = "filesystem" /\ j.outcome = "succeeded" /\ (Auditing(j) \/ Concluding(j)) =>
       content = handoffs[j.h].digest

\* ... and that it is what was materialized.
SwapInv ==
  edits = 0 =>
    /\ \A p \in Procs : Observes(job[p])
    /\ Status = "materialized" => content = handoffs[Last.handoff].digest

\* An apply has been audited as succeeded: what it wrote stays, and from then on
\* every command that concludes anything concludes the same.
Won == \E a \in audits : a.strategy = "filesystem" /\ a.outcome = "succeeded"

Agrees(j) ==
  j.pc \in Given \ {"check-status"} =>
    j.outcome = "succeeded" /\ (j.strategy = "recovery" \/ Concluding(j))

WonInv ==
  edits = 0 /\ Len(handoffs) <= 1 =>
    /\ RecoveryAgreesWithAudit
    /\ Won => /\ content = handoffs[1].digest /\ Status \notin {"none", "apply-failed"}
              /\ \A p \in Procs : Agrees(job[p])

--------------------------------------------------------------------------------
(* What a step makes of its command: j before it, t after it.              *)

Same(j, t)  == t.key = j.key /\ t.of = j.of /\ t.strategy = j.strategy /\ t.attempt = j.attempt
Holds(j, t) == Same(j, t) /\ t.h = j.h /\ t.outcome = j.outcome /\ t.seen = j.seen
Keeps(j, t) == Holds(j, t) /\ t.wrote = j.wrote

Reads == UNCHANGED <<content, store, attempts, edits>>

\* Why an apply may be left without its audit.
Cut(j) ==
  crashes' # 0 \/ ioErrors' # 0 \/ AuditsWith(j.key) # {} \/ \E a \in audits : a.attempt = j.attempt

\* It is over; a draft or a decision may be what it saved.
Ends(j, t) ==
  /\ UNCHANGED <<content, log, audits, attempts, edits>>
  /\ t = Idle
  /\ \/ handoffs' = handoffs
     \/ j.pc = "save-handoff" /\ handoffs' = Append(handoffs, j.draft)
  /\ Applying(j) => Cut(j)

\* It proposes or decides, from now on or still.
Drafts(j, t) ==
  /\ Reads
  /\ t.pc \in Drafting
  /\ \E s \in {j, Idle} : Same(s, t) /\ t.seen = s.seen
  /\ \/ t.pc \in {"find-votes", "save-vote"}
     \/ t.pc = "find-handoff" /\ t.draft.base = content
     \/ j.pc \in {"find-handoff", "preview", "supersede"} /\ t.draft.base = j.draft.base
  /\ j.pc \in Drafting \cup {"idle"}

Applies(j, t) ==
  /\ Reads
  /\ j.pc = "idle"
  /\ t.pc = "check-key" /\ t.h = Len(handoffs)
  /\ t.key.kind \in {"apply", "user"}
  /\ t.of = 0 /\ t.strategy = "filesystem" /\ ~t.wrote

Attempts(j, t) ==
  /\ UNCHANGED <<content, store, edits>>
  /\ j.pc = "check-key" /\ t.pc = "check-status"
  /\ AuditsWith(j.key) = {}
  /\ attempts' = attempts + 1 /\ t.attempt = attempts + 1
  /\ t.key = j.key /\ t.of = j.of /\ t.strategy = j.strategy /\ t.h = j.h /\ t.wrote = j.wrote

Admits(j, t) ==
  /\ Reads
  /\ j.pc = "check-status" /\ t.pc = "transition" /\ Keeps(j, t)
  /\ \/ Status = "none" /\ t.req = "approved"
     \/ Status = "apply-failed" /\ t.req = "applying"

Asks(j, t) ==
  /\ Reads
  /\ j.pc = "transition" /\ t.pc = "save-transition" /\ Keeps(j, t)
  /\ t.req = j.req /\ t.from = Status
  /\ CanTransition(Status, j.req)

\* It saves a record in place k.
Records(p, j, t, k) ==
  /\ UNCHANGED <<content, handoffs, approvals, audits, attempts, edits>>
  /\ j.pc = "save-transition" /\ k \in Places(p) /\ log' = InsertRecord(k, RecordOf(p))
  /\ \/ j.req \in {"materialized", "apply-failed"} /\ t = Idle
     \/ /\ Holds(j, t) /\ t.wrote
        /\ \/ j.req = "approved" /\ t.pc = "transition" /\ t.req = "apply-ready"
           \/ j.req = "apply-ready" /\ t.pc = "transition" /\ t.req = "applying"
           \/ j.req = "applying" /\ t.pc = "check-approvals"
           \/ j.req = "recovery-required" /\ t.pc = "find-audit"

\* It works its way to the audit, past the approvals if it is to write ...
GivesUp(j) ==
  \/ ioErrors' # 0
  \/ content' = content /\ j.pc \in {"check-approvals", "read-base"}
  \/ content' = content /\ content # Absent /\ j.pc = "install"
  \/ content = Absent /\ j.pc = "backup"
  \/ j.pc = "discard"

\* ... and swaps what the provider holds for what was proposed.
Swaps(j, t) ==
  \/ t.pc = "find-audit" /\ t.outcome = "failed" /\ GivesUp(j)
  \/ /\ content' = content
     /\ \/ j.pc = "check-approvals" /\ t.pc = "read-base"
        \/ j.pc = "read-base" /\ content # Absent /\ content = handoffs[j.h].base /\ t.pc = "backup"
        \/ j.pc = "read-base" /\ content = Absent /\ t.pc = "install"
        \/ j.pc = "cleanup" /\ t.pc = "verify"
        \/ /\ j.pc = "verify" /\ content = handoffs[j.h].digest
           /\ t.pc = "find-audit" /\ t.outcome = "succeeded"
        \/ j.pc = "verify" /\ content # handoffs[j.h].digest /\ t.pc = "discard"
  \/ j.pc = "backup" /\ content' = Absent /\ t.pc = "install"
  \/ j.pc = "install" /\ content = Absent /\ content' = handoffs[j.h].digest /\ t.pc \in {"verify", "cleanup"}

Works(j, t) ==
  /\ UNCHANGED <<store, attempts, edits>>
  /\ j.pc \in {"check-approvals"} \cup Writing /\ t.pc \in Writing \cup {"find-audit"}
  /\ Same(j, t) /\ t.h = j.h /\ t.wrote = j.wrote
  /\ t.pc \in Writing => (j.pc \in Writing \/ ~Vetoed(j.h))
  /\ Swaps(j, t)

GoesToAudit(j, t) ==
  /\ Reads
  /\ Auditing(j) /\ t.pc \in {"guard-audit", "save-audit"} /\ Keeps(j, t)

Concludes(p, j, t) ==
  /\ UNCHANGED <<content, handoffs, approvals, log, attempts, edits>>
  /\ Auditing(j) /\ t.pc = "transition" /\ Keeps(j, t)
  /\ t.req = IF j.outcome = "succeeded" THEN "materialized" ELSE "apply-failed"
  /\ \/ j.pc = "save-audit" /\ audits' = audits \cup {AuditOf(p)}
     \/ audits' = audits /\ AuditsWith(j.key) # {}
     \/ audits' = audits /\ Cut(j) /\ j.strategy = "filesystem" /\ j.outcome = "failed"

Recovering(j, t) ==
  /\ Reads
  /\ j.pc = "idle"
  /\ t.pc = "recover-handoff" /\ t.strategy = "recovery" /\ t.seen = content
  /\ t.key.kind \in {"none", "user"} /\ t.of = 0 /\ ~t.wrote

FindsHandoff(j, t) ==
  /\ Reads
  /\ j.pc = "recover-handoff" /\ t.pc = "recover-status"
  /\ Same(j, t) /\ t.h = Len(handoffs) /\ t.seen = j.seen /\ t.wrote = j.wrote

FindsStatus(j, t) ==
  /\ Reads
  /\ j.pc = "recover-status" /\ t.pc = "recover-decide"
  /\ log # <<>> /\ t.from = Status /\ t.of = Last.attempt
  /\ t.key = j.key /\ t.strategy = j.strategy /\ t.h = j.h /\ t.seen = j.seen /\ t.wrote = j.wrote

Decides(j, t) ==
  /\ UNCHANGED <<content, store, edits>>
  /\ j.pc = "recover-decide" /\ t.pc = "transition" /\ t.req = "recovery-required"
  /\ AuditsWith(j.key) = {}
  /\ attempts' = attempts + 1 /\ t.attempt = attempts + 1
  /\ t.of = j.of /\ t.strategy = j.strategy /\ t.h = j.h /\ t.seen = j.seen /\ t.wrote = j.wrote
  /\ \E decision \in {"materialized", "apply-failed"} :
       /\ decision = Reconcile(j.from, j.seen, handoffs[j.h].base, handoffs[j.h].digest)
       /\ t.key = IF j.key = NoKey THEN RecoveryKey(decision, j.of) ELSE j.key
       /\ t.outcome = IF decision = "materialized" THEN "succeeded" ELSE "failed"

Goes(p, j, t) ==
  \/ Ends(j, t) \/ Drafts(j, t) \/ Applies(j, t) \/ Attempts(j, t) \/ Admits(j, t) \/ Asks(j, t)
  \/ (\E k \in Places(p) : Records(p, j, t, k))
  \/ Works(j, t) \/ GoesToAudit(j, t) \/ Concludes(p, j, t)
  \/ Recovering(j, t) \/ FindsHandoff(j, t) \/ FindsStatus(j, t) \/ Decides(j, t)

\* One command goes one step: that is all that happens to commands.
Moves(p, t) == job' = [job EXCEPT ![p] = t] /\ t \in Job /\ Goes(p, job[p], t)

LEMMA FinishMoves ==
  ASSUME IInv, NEW p \in Procs, Finish(p), UNCHANGED <<content, store, attempts, edits>>,
         Applying(job[p]) => Cut(job[p])
  PROVE  Moves(p, Idle)
<1>1. Ends(job[p], Idle)
  BY DEF Ends, store
<1> QED
  BY <1>1, IdleFits DEF Moves, Goes, Finish

LEMMA ProposeMoves ==
  ASSUME IInv, NEW p \in Procs, ProposeStep(p) PROVE \E t \in Job : Moves(p, t)
<1>0. job \in [Procs -> Job] /\ job[p] \in Job /\ Len(handoffs) \in Nat
  BY Typed
<1>1. CASE ProposeFindHandoff(p)
  <2>1. PICK t : t = [job[p] EXCEPT !.pc = "preview", !.h = Len(handoffs)]
    OBVIOUS
  <2>2. t \in Job /\ job' = [job EXCEPT ![p] = t]
    BY <1>0, <1>1, <2>1 DEF ProposeFindHandoff, Job, Points
  <2>3. Drafts(job[p], t)
    BY <1>0, <1>1, <2>1 DEF ProposeFindHandoff, Job, Drafts, Drafting, Same, Reads, counts, At
  <2> QED
    BY <2>2, <2>3 DEF Moves, Goes
<1>2. CASE ProposePreview(p)
  <2>1. CASE Finish(p)
    <3>1. ~Applying(job[p])
      BY <1>2 DEF ProposePreview, At, Applying, Writing, Auditing
    <3> QED
      BY <1>2, <2>1, <3>1, FinishMoves, IdleFits DEF ProposePreview, counts
  <2>2. CASE ~Finish(p)
    <3>1. PICK v \in {1, 2} : job' = [job EXCEPT ![p].pc = "supersede", ![p].draft.version = v]
      BY <1>2, <2>2 DEF ProposePreview
    <3>2. PICK t : t = [job[p] EXCEPT !.pc = "supersede", !.draft.version = v]
      OBVIOUS
    <3>0. PICK d : d = [job[p].draft EXCEPT !.version = v]
      OBVIOUS
    <3>6. d \in Handoff /\ d.base = job[p].draft.base
      BY <1>0, <3>0 DEF Job, Handoff, Versions
    <3>7. t = [job[p] EXCEPT !.pc = "supersede", !.draft = d]
      BY <1>0, <3>0, <3>2 DEF Job
    <3>3. t \in Job /\ job' = [job EXCEPT ![p] = t]
      <4>1. t \in Job
        BY <1>0, <3>6, <3>7 DEF Job, Points
      <4> QED
        BY <1>0, <3>1, <3>2, <4>1
    <3>4. t.draft.base = job[p].draft.base
      BY <1>0, <3>6, <3>7 DEF Job
    <3>5. Drafts(job[p], t)
      BY <1>0, <1>2, <3>2, <3>4 DEF ProposePreview, Job, Drafts, Drafting, Same, Reads, counts, At
    <3> QED
      BY <3>3, <3>5 DEF Moves, Goes
  <2> QED
    BY <2>1, <2>2
<1>3. CASE ProposeSupersede(p)
  <2>1. CASE Finish(p)
    <3>1. ~Applying(job[p])
      BY <1>3 DEF ProposeSupersede, At, Applying, Writing, Auditing
    <3> QED
      BY <1>3, <2>1, <3>1, FinishMoves, IdleFits DEF ProposeSupersede, counts
  <2>2. CASE ~Finish(p)
    <3>2. PICK t : t = [job[p] EXCEPT !.pc = "save-handoff"]
      OBVIOUS
    <3>3. t \in Job /\ job' = [job EXCEPT ![p] = t]
      BY <1>0, <1>3, <2>2, <3>2 DEF ProposeSupersede, Goto, Job, Points
    <3>5. Drafts(job[p], t)
      BY <1>0, <1>3, <3>2 DEF ProposeSupersede, Job, Drafts, Drafting, Same, Reads, counts, At
    <3> QED
      BY <3>3, <3>5 DEF Moves, Goes
  <2> QED
    BY <2>1, <2>2
<1>4. CASE ProposeSave(p)
  <2>1. Ends(job[p], Idle)
    BY <1>4 DEF ProposeSave, At, Ends, Applying, Writing, Auditing, counts
  <2> QED
    BY <1>4, <2>1, IdleFits DEF ProposeSave, Finish, Moves, Goes
<1> QED
  BY <1>1, <1>2, <1>3, <1>4 DEF ProposeStep

LEMMA ApproveMoves ==
  ASSUME IInv, NEW p \in Procs, ApproveStep(p) PROVE \E t \in Job : Moves(p, t)
<1>0. job \in [Procs -> Job] /\ job[p] \in Job
  BY Typed
<1>1. CASE ApproveEvaluate(p)
  <2>1. CASE Finish(p)
    <3>1. ~Applying(job[p])
      BY <1>1 DEF ApproveEvaluate, At, Applying, Writing, Auditing
    <3> QED
      BY <1>1, <2>1, <3>1, FinishMoves, IdleFits DEF ApproveEvaluate, counts
  <2>2. CASE ~Finish(p)
    <3>2. PICK t : t = [job[p] EXCEPT !.pc = "save-vote"]
      OBVIOUS
    <3>3. t \in Job /\ job' = [job EXCEPT ![p] = t]
      BY <1>0, <1>1, <2>2, <3>2 DEF ApproveEvaluate, Goto, Job, Points
    <3>5. Drafts(job[p], t)
      BY <1>0, <1>1, <3>2 DEF ApproveEvaluate, Job, Drafts, Drafting, Same, Reads, counts, At
    <3> QED
      BY <3>3, <3>5 DEF Moves, Goes
  <2> QED
    BY <2>1, <2>2
<1>2. CASE ApproveSave(p)
  <2>1. Ends(job[p], Idle)
    BY <1>2 DEF ApproveSave, At, Ends, Applying, Writing, Auditing, counts
  <2> QED
    BY <1>2, <2>1, IdleFits DEF ApproveSave, Finish, Moves, Goes
<1> QED
  BY <1>1, <1>2 DEF ApproveStep

LEMMA TransitionMoves ==
  ASSUME IInv, NEW p \in Procs, TransitionStep(p) PROVE \E t \in Job : Moves(p, t)
<1>0. job \in [Procs -> Job] /\ job[p] \in Job /\ Status \in Statuses \cup {"none"}
  BY Typed
<1>1. CASE TransitionEvaluate(p)
  <2>1. CASE Finish(p)
    <3>1. ~Applying(job[p])
      BY <1>1 DEF TransitionEvaluate, At, Applying, Writing, Auditing
    <3> QED
      BY <1>1, <2>1, <3>1, FinishMoves, IdleFits DEF TransitionEvaluate, counts
  <2>2. CASE ~Finish(p)
    <3>1. job' = [job EXCEPT ![p].pc = "save-transition", ![p].from = Status] /\ CanTransition(Status, job[p].req)
      BY <1>1, <2>2 DEF TransitionEvaluate
    <3>2. PICK t : t = [job[p] EXCEPT !.pc = "save-transition", !.from = Status]
      OBVIOUS
    <3>3. t \in Job /\ job' = [job EXCEPT ![p] = t]
      BY <1>0, <3>1, <3>2 DEF Job, Points
    <3>5. Asks(job[p], t)
      BY <1>0, <1>1, <3>1, <3>2 DEF TransitionEvaluate, Job, Asks, Same, Holds, Keeps, Reads, counts, At
    <3> QED
      BY <3>3, <3>5 DEF Moves, Goes
  <2> QED
    BY <2>1, <2>2
<1>2. CASE TransitionSave(p)
  <2>1. job[p].pc = "save-transition" /\ UNCHANGED <<content, handoffs, approvals, audits, attempts, edits>>
    BY <1>2 DEF TransitionSave, At, counts
  <2>2. PICK k \in Places(p) : log' = InsertRecord(k, RecordOf(p))
    BY <1>2 DEF TransitionSave
  <2>3. \E t \in Job : job' = [job EXCEPT ![p] = t] /\ Records(p, job[p], t, k)
    <3>1. CASE job[p].req = "approved" /\ job' = [job EXCEPT ![p].pc = "transition", ![p].req = "apply-ready", ![p].wrote = TRUE]
      <4>1. PICK t : t = [job[p] EXCEPT !.pc = "transition", !.req = "apply-ready", !.wrote = TRUE]
        OBVIOUS
      <4>2. t \in Job /\ job' = [job EXCEPT ![p] = t]
        BY <1>0, <3>1, <4>1 DEF Job, Points, Statuses
      <4>3. Holds(job[p], t) /\ t.wrote /\ t.pc = "transition" /\ t.req = "apply-ready"
        BY <1>0, <4>1 DEF Job, Holds, Same
      <4> QED
        BY <2>1, <2>2, <3>1, <4>2, <4>3 DEF Records
    <3>2. CASE job[p].req = "apply-ready" /\ job' = [job EXCEPT ![p].pc = "transition", ![p].req = "applying", ![p].wrote = TRUE]
      <4>1. PICK t : t = [job[p] EXCEPT !.pc = "transition", !.req = "applying", !.wrote = TRUE]
        OBVIOUS
      <4>2. t \in Job /\ job' = [job EXCEPT ![p] = t]
        BY <1>0, <3>2, <4>1 DEF Job, Points, Statuses
      <4>3. Holds(job[p], t) /\ t.wrote /\ t.pc = "transition" /\ t.req = "applying"
        BY <1>0, <4>1 DEF Job, Holds, Same
      <4> QED
        BY <2>1, <2>2, <3>2, <4>2, <4>3 DEF Records
    <3>3. CASE job[p].req = "applying" /\ job' = [job EXCEPT ![p].pc = "check-approvals", ![p].wrote = TRUE]
      <4>1. PICK t : t = [job[p] EXCEPT !.pc = "check-approvals", !.wrote = TRUE]
        OBVIOUS
      <4>2. t \in Job /\ job' = [job EXCEPT ![p] = t]
        BY <1>0, <3>3, <4>1 DEF Job, Points
      <4>3. Holds(job[p], t) /\ t.wrote /\ t.pc = "check-approvals"
        BY <1>0, <4>1 DEF Job, Holds, Same
      <4> QED
        BY <2>1, <2>2, <3>3, <4>2, <4>3 DEF Records
    <3>4. CASE job[p].req = "recovery-required" /\ job' = [job EXCEPT ![p].pc = "find-audit", ![p].wrote = TRUE]
      <4>1. PICK t : t = [job[p] EXCEPT !.pc = "find-audit", !.wrote = TRUE]
        OBVIOUS
      <4>2. t \in Job /\ job' = [job EXCEPT ![p] = t]
        BY <1>0, <3>4, <4>1 DEF Job, Points
      <4>3. Holds(job[p], t) /\ t.wrote /\ t.pc = "find-audit"
        BY <1>0, <4>1 DEF Job, Holds, Same
      <4> QED
        BY <2>1, <2>2, <3>4, <4>2, <4>3 DEF Records
    <3>5. CASE job[p].req \in {"materialized", "apply-failed"} /\ Finish(p)
      BY <2>1, <2>2, <3>5, IdleFits DEF Records, Finish
    <3> QED
      BY <1>2, <3>1, <3>2, <3>3, <3>4, <3>5 DEF TransitionSave, AfterTransition
  <2> QED
    BY <2>2, <2>3 DEF Moves, Goes
<1> QED
  BY <1>1, <1>2 DEF TransitionStep

LEMMA ApplyMoves ==
  ASSUME IInv, NEW p \in Procs, ApplyCheckKey(p) \/ ApplyCheckStatus(p) PROVE \E t \in Job : Moves(p, t)
<1>0. job \in [Procs -> Job] /\ job[p] \in Job /\ attempts + 1 \in Nat
  BY Typed
<1>1. ~Applying(job[p])
  BY DEF ApplyCheckKey, ApplyCheckStatus, At, Applying, Writing, Auditing
<1>2. CASE Finish(p) /\ UNCHANGED attempts
  BY <1>1, <1>2, FinishMoves, IdleFits DEF ApplyCheckKey, ApplyCheckStatus, counts
<1>3. CASE ApplyCheckKey(p) /\ ~(Finish(p) /\ UNCHANGED attempts)
  <2>1. /\ AuditsWith(job[p].key) = {} /\ attempts' = attempts + 1
        /\ job' = [job EXCEPT ![p].pc = "check-status", ![p].attempt = attempts + 1]
    BY <1>3 DEF ApplyCheckKey
  <2>2. PICK t : t = [job[p] EXCEPT !.pc = "check-status", !.attempt = attempts + 1]
    OBVIOUS
  <2>3. t \in Job /\ job' = [job EXCEPT ![p] = t]
    BY <1>0, <2>1, <2>2 DEF Job, Points
  <2>4. Attempts(job[p], t)
    BY <1>0, <1>3, <2>1, <2>2 DEF ApplyCheckKey, Job, Attempts, counts, At
  <2> QED
    BY <2>3, <2>4 DEF Moves, Goes
<1>4. CASE ApplyCheckStatus(p) /\ ~Finish(p)
  <2>1. PICK req \in {"approved", "applying"} :
          /\ job' = [job EXCEPT ![p].pc = "transition", ![p].req = req]
          /\ \/ Status = "none" /\ req = "approved"
             \/ Status = "apply-failed" /\ req = "applying"
    BY <1>4 DEF ApplyCheckStatus
  <2>2. PICK t : t = [job[p] EXCEPT !.pc = "transition", !.req = req]
    OBVIOUS
  <2>3. t \in Job /\ job' = [job EXCEPT ![p] = t]
    <3>1. req \in Statuses /\ job[p] \in Job /\ job \in [Procs -> Job]
      BY <1>0 DEF Statuses
    <3>2. t \in Job
      BY <2>2, <3>1 DEF Job, Points
    <3> QED
      BY <2>1, <2>2, <3>1, <3>2
  <2>4. Admits(job[p], t)
    BY <1>0, <1>4, <2>1, <2>2 DEF ApplyCheckStatus, Job, Admits, Same, Holds, Keeps, Reads, counts, At
  <2> QED
    BY <2>3, <2>4 DEF Moves, Goes
<1> QED
  BY <1>2, <1>3, <1>4 DEF ApplyCheckStatus

\* From the approvals to the audit a command only moves on.
LEMMA GoesToWork ==
  ASSUME IInv, NEW p \in Procs, NEW t \in Job, job' = [job EXCEPT ![p] = t],
         UNCHANGED <<store, attempts, edits>>,
         job[p].pc \in {"check-approvals"} \cup Writing, t.pc \in Writing \cup {"find-audit"},
         t.key = job[p].key, t.of = job[p].of, t.strategy = job[p].strategy,
         t.attempt = job[p].attempt, t.h = job[p].h, t.wrote = job[p].wrote,
         t.pc \in Writing => (job[p].pc \in Writing \/ ~Vetoed(job[p].h)),
         Swaps(job[p], t)
  PROVE  Moves(p, t)
<1>1. Works(job[p], t)
  BY DEF Works, Same
<1> QED
  BY <1>1 DEF Moves, Goes

LEMMA FailMoves ==
  ASSUME IInv, NEW p \in Procs, Fail(p), UNCHANGED <<store, attempts, edits>>,
         job[p].pc \in {"check-approvals"} \cup Writing, GivesUp(job[p])
  PROVE  \E t \in Job : Moves(p, t)
<1>0. job \in [Procs -> Job] /\ job[p] \in Job
  BY Typed
<1>1. PICK t : t = [job[p] EXCEPT !.pc = "find-audit", !.outcome = "failed"]
  OBVIOUS
<1>2. t \in Job /\ job' = [job EXCEPT ![p] = t]
  BY <1>0, <1>1 DEF Job, Points, Fail
<1>3. /\ t.pc = "find-audit" /\ t.key = job[p].key /\ t.of = job[p].of /\ t.strategy = job[p].strategy
      /\ t.attempt = job[p].attempt /\ t.h = job[p].h /\ t.wrote = job[p].wrote /\ t.outcome = "failed"
  BY <1>0, <1>1 DEF Job
<1>4. Swaps(job[p], t)
  BY <1>3 DEF Swaps
<1> QED
  BY <1>2, <1>3, <1>4, GoesToWork DEF Writing

LEMMA MaterializeMoves ==
  ASSUME IInv, NEW p \in Procs, ApplyCheckApprovals(p) \/ MaterializeStep(p)
  PROVE  \E t \in Job : Moves(p, t)
<1>0. job \in [Procs -> Job] /\ job[p] \in Job /\ content \in Contents
  BY Typed
<1>1. job[p].pc \in {"check-approvals"} \cup Writing /\ UNCHANGED <<store, attempts, edits>>
  BY DEF ApplyCheckApprovals, MaterializeStep, GuardRefuses, ReadBase, Backup, Install, Cleanup, Verify, Discard,
         At, Writing, counts
<1>2. CASE Fail(p)
  <2>1. job'[p].pc = "find-audit"
    BY <1>0, <1>2 DEF Fail, Job
  <2>2. GivesUp(job[p])
    <3>1. CASE ApplyCheckApprovals(p) \/ GuardRefuses(p) \/ Discard(p)
      BY <3>1 DEF ApplyCheckApprovals, GuardRefuses, Discard, GivesUp, At
    <3>2. CASE ReadBase(p)
      BY <3>2 DEF ReadBase, GivesUp, At
    <3>3. CASE Backup(p)
      BY <1>0, <2>1, <3>3 DEF Backup, GivesUp, At, Job
    <3>4. CASE Install(p)
      BY <1>0, <2>1, <3>4 DEF Install, GivesUp, At, Goto, Job
    <3>5. CASE Cleanup(p)
      BY <1>0, <2>1, <3>5 DEF Cleanup, Job
    <3>6. CASE Verify(p)
      <4>1. job'[p].outcome = "failed"
        BY <1>0, <1>2 DEF Fail, Job
      <4> QED
        BY <1>0, <2>1, <3>6, <4>1 DEF Verify, Goto, Job
    <3> QED
      BY <3>1, <3>2, <3>3, <3>4, <3>5, <3>6 DEF MaterializeStep
  <2> QED
    BY <1>1, <1>2, <2>2, FailMoves
<1>3. CASE ~Fail(p)
  <2>1. CASE ApplyCheckApprovals(p)
    <3>1. PICK t : t = [job[p] EXCEPT !.pc = "read-base"]
      OBVIOUS
    <3>2. t \in Job /\ job' = [job EXCEPT ![p] = t]
      BY <1>0, <1>3, <2>1, <3>1 DEF Job, Points, ApplyCheckApprovals, Goto
    <3>3. /\ t.pc = "read-base" /\ t.key = job[p].key /\ t.of = job[p].of /\ t.strategy = job[p].strategy
          /\ t.attempt = job[p].attempt /\ t.h = job[p].h /\ t.wrote = job[p].wrote
      BY <1>0, <3>1 DEF Job
    <3>4. ~Vetoed(job[p].h)
      BY <1>3, <2>1 DEF ApplyCheckApprovals, Vetoed, Allowed, ApplyStages, Proposed
    <3>5. Swaps(job[p], t)
      BY <2>1, <3>3 DEF ApplyCheckApprovals, At, Swaps
    <3> QED
      BY <1>1, <3>2, <3>3, <3>4, <3>5, GoesToWork DEF Writing
  <2>2. CASE MaterializeStep(p)
    <3>1. PICK t : t = job'[p]
      OBVIOUS
    <3>2. /\ t \in Job /\ job' = [job EXCEPT ![p] = t] /\ t.pc \in Writing \cup {"find-audit"}
          /\ t.key = job[p].key /\ t.of = job[p].of /\ t.strategy = job[p].strategy
          /\ t.attempt = job[p].attempt /\ t.h = job[p].h /\ t.wrote = job[p].wrote
          /\ Swaps(job[p], t)
      <4>1. CASE GuardRefuses(p)
        BY <1>3, <4>1 DEF GuardRefuses
      <4>2. CASE ReadBase(p)
        <5>1. PICK w \in {"install", "backup"} :
                /\ job' = [job EXCEPT ![p].pc = w, ![p].seen = content]
                /\ w = IF content = Absent THEN "install" ELSE "backup"
                /\ content # Absent => content = handoffs[job[p].h].base
          BY <1>3, <4>2 DEF ReadBase, Proposed
        <5>2. t = [job[p] EXCEPT !.pc = w, !.seen = content]
          BY <1>0, <3>1, <5>1
        <5>3. t.pc = w
          BY <1>0, <5>2 DEF Job
        <5>4. Swaps(job[p], t)
          BY <4>2, <5>1, <5>3 DEF ReadBase, At, Swaps
        <5> QED
          BY <1>0, <5>1, <5>2, <5>4 DEF Job, Points, Writing
      <4>3. CASE Backup(p)
        <5>1. job' = [job EXCEPT ![p].pc = "install", ![p].kept = content]
          BY <1>3, <4>3 DEF Backup
        <5>2. t = [job[p] EXCEPT !.pc = "install", !.kept = content]
          BY <1>0, <3>1, <5>1
        <5>3. t.pc = "install"
          BY <1>0, <5>2 DEF Job
        <5>4. Swaps(job[p], t)
          BY <4>3, <5>3 DEF Backup, At, Swaps
        <5> QED
          BY <1>0, <5>1, <5>2, <5>4 DEF Job, Points, Writing
      <4>4. CASE Install(p)
        <5>1. PICK w \in {"verify", "cleanup"} : job' = [job EXCEPT ![p].pc = w]
          BY <1>3, <4>4 DEF Install, Goto
        <5>2. t = [job[p] EXCEPT !.pc = w]
          BY <1>0, <3>1, <5>1
        <5>3. t.pc = w
          BY <1>0, <5>2 DEF Job
        <5>4. Swaps(job[p], t)
          BY <1>3, <4>4, <5>3 DEF Install, At, Swaps, Proposed
        <5> QED
          BY <1>0, <5>1, <5>2, <5>4 DEF Job, Points, Writing
      <4>5. CASE Cleanup(p)
        <5>1. t = [job[p] EXCEPT !.pc = "verify", !.kept = Absent]
          BY <1>0, <3>1, <4>5 DEF Cleanup
        <5>3. t.pc = "verify"
          BY <1>0, <5>1 DEF Job
        <5>4. Swaps(job[p], t)
          BY <4>5, <5>3 DEF Cleanup, At, Swaps
        <5> QED
          BY <1>0, <4>5, <5>1, <5>4 DEF Job, Points, Writing, Contents, Cleanup
      <4>6. CASE Verify(p)
        <5>1. CASE /\ content = handoffs[job[p].h].digest
                   /\ job' = [job EXCEPT ![p].pc = "find-audit", ![p].outcome = "succeeded"]
          <6>1. t = [job[p] EXCEPT !.pc = "find-audit", !.outcome = "succeeded"]
            BY <1>0, <3>1, <5>1
          <6>2. t.pc = "find-audit" /\ t.outcome = "succeeded"
            BY <1>0, <6>1 DEF Job
          <6>3. Swaps(job[p], t)
            BY <4>6, <5>1, <6>2 DEF Verify, At, Swaps
          <6> QED
            BY <1>0, <5>1, <6>1, <6>3 DEF Job, Points, Writing
        <5>2. CASE /\ content # handoffs[job[p].h].digest
                   /\ job' = [job EXCEPT ![p].pc = "discard"]
          <6>1. t = [job[p] EXCEPT !.pc = "discard"]
            BY <1>0, <3>1, <5>2
          <6>2. t.pc = "discard"
            BY <1>0, <6>1 DEF Job
          <6>3. Swaps(job[p], t)
            BY <4>6, <5>2, <6>2 DEF Verify, At, Swaps
          <6> QED
            BY <1>0, <5>2, <6>1, <6>3 DEF Job, Points, Writing
        <5> QED
          BY <4>6, <5>1, <5>2 DEF Verify, Goto, Proposed
      <4>7. CASE Discard(p)
        BY <1>3, <4>7 DEF Discard
      <4> QED
        BY <2>2, <4>1, <4>2, <4>3, <4>4, <4>5, <4>6, <4>7 DEF MaterializeStep
    <3>3. job[p].pc \in Writing
      BY <2>2 DEF MaterializeStep, GuardRefuses, ReadBase, Backup, Install, Cleanup, Verify, Discard, At, Writing
    <3> QED
      BY <1>1, <3>2, <3>3, GoesToWork
  <2> QED
    BY <2>1, <2>2
<1> QED
  BY <1>2, <1>3

LEMMA AuditMoves ==
  ASSUME IInv, NEW p \in Procs, AuditStep(p) \/ AuditIoError(p) PROVE \E t \in Job : Moves(p, t)
<1>0. job \in [Procs -> Job] /\ job[p] \in Job
  BY Typed
<1>1. /\ Auditing(job[p])
      /\ UNCHANGED <<content, handoffs, approvals, log, attempts, edits>>
  BY DEF AuditStep, FindAudit, GuardAudit, SaveAudit, AuditIoError, At, Auditing, store, counts
<1>2. ASSUME AfterAudit(p),
             \/ job[p].pc = "save-audit" /\ audits' = audits \cup {AuditOf(p)}
             \/ audits' = audits /\ AuditsWith(job[p].key) # {}
             \/ audits' = audits /\ Cut(job[p]) /\ job[p].strategy = "filesystem" /\ job[p].outcome = "failed"
      PROVE  \E t \in Job : Moves(p, t)
  <2>1. PICK req \in {"materialized", "apply-failed"} :
          /\ req = IF job[p].outcome = "succeeded" THEN "materialized" ELSE "apply-failed"
          /\ job' = [job EXCEPT ![p].pc = "transition", ![p].req = req]
    BY <1>2 DEF AfterAudit
  <2>2. PICK t : t = [job[p] EXCEPT !.pc = "transition", !.req = req]
    OBVIOUS
  <2>3. t \in Job
    <3>1. req \in Statuses
      BY DEF Statuses
    <3> QED
      BY <1>0, <2>2, <3>1 DEF Job, Points
  <2>4. job' = [job EXCEPT ![p] = t]
    BY <1>0, <2>1, <2>2
  <2>5. Keeps(job[p], t) /\ t.pc = "transition" /\ t.req = req
    BY <1>0, <2>2 DEF Job, Keeps, Holds, Same
  <2>6. Concludes(p, job[p], t)
    BY <1>1, <1>2, <2>1, <2>5 DEF Concludes
  <2> QED
    BY <2>3, <2>4, <2>6 DEF Moves, Goes
<1>3. ASSUME NEW w \in {"guard-audit", "save-audit"}, Goto(p, w), UNCHANGED audits
      PROVE  \E t \in Job : Moves(p, t)
  <2>1. PICK t : t = [job[p] EXCEPT !.pc = w]
    OBVIOUS
  <2>2. t \in Job /\ job' = [job EXCEPT ![p] = t]
    BY <1>0, <1>3, <2>1 DEF Job, Points, Goto
  <2>3. Keeps(job[p], t) /\ t.pc = w
    BY <1>0, <2>1 DEF Job, Keeps, Holds, Same
  <2>4. GoesToAudit(job[p], t)
    BY <1>1, <1>3, <2>3 DEF GoesToAudit, Reads, store
  <2> QED
    BY <2>2, <2>4 DEF Moves, Goes
<1>4. ASSUME AuditThrows(p), UNCHANGED audits, Cut(job[p]) PROVE \E t \in Job : Moves(p, t)
  <2>1. CASE job[p].strategy = "filesystem" /\ job[p].outcome = "failed"
    BY <1>2, <1>4, <2>1 DEF AuditThrows
  <2>2. CASE ~(job[p].strategy = "filesystem" /\ job[p].outcome = "failed")
    BY <1>1, <1>4, <2>2, FinishMoves, IdleFits DEF AuditThrows, store
  <2> QED
    BY <2>1, <2>2
<1>5. CASE FindAudit(p)
  <2>1. UNCHANGED audits
    BY <1>5 DEF FindAudit, store
  <2>2. CASE Goto(p, "guard-audit")
    BY <1>3, <2>1, <2>2
  <2>3. CASE AuditsWith(job[p].key) # {} /\ (AfterAudit(p) \/ AuditThrows(p))
    BY <1>2, <1>4, <2>1, <2>3 DEF Cut
  <2> QED
    BY <1>5, <2>2, <2>3 DEF FindAudit
<1>6. CASE GuardAudit(p)
  BY <1>3, <1>4, <1>6 DEF GuardAudit, Cut, store
<1>7. CASE SaveAudit(p)
  BY <1>2, <1>7 DEF SaveAudit, At
<1>8. CASE AuditIoError(p)
  <2>1. ioErrors' # 0
    <3>1. ioErrors \in Nat
      BY Typed
    <3> QED
      BY <1>8, <3>1 DEF AuditIoError
  <2> QED
    BY <1>4, <1>8, <2>1 DEF AuditIoError, Cut, store
<1> QED
  BY <1>5, <1>6, <1>7, <1>8 DEF AuditStep

LEMMA RecoverMoves ==
  ASSUME IInv, NEW p \in Procs, RecoverStep(p) PROVE \E t \in Job : Moves(p, t)
<1>0. job \in [Procs -> Job] /\ job[p] \in Job
  BY Typed
<1>1. ~Applying(job[p]) /\ UNCHANGED <<content, store, edits>>
  BY DEF RecoverStep, RecoverFindHandoff, RecoverFindStatus, RecoverDecide, At, Applying, Writing, Auditing, counts
<1>2. CASE Finish(p) /\ UNCHANGED attempts
  BY <1>1, <1>2, FinishMoves, IdleFits
<1>3. CASE RecoverFindHandoff(p) /\ ~Finish(p)
  <2>1. job' = [job EXCEPT ![p].pc = "recover-status", ![p].h = Len(handoffs)]
    BY <1>3 DEF RecoverFindHandoff
  <2>2. PICK t : t = [job[p] EXCEPT !.pc = "recover-status", !.h = Len(handoffs)]
    OBVIOUS
  <2>3. t \in Job
    <3>1. Len(handoffs) \in Nat
      BY Typed
    <3> QED
      BY <1>0, <2>2, <3>1 DEF Job, Points
  <2>4. job' = [job EXCEPT ![p] = t]
    BY <1>0, <2>1, <2>2
  <2>5. FindsHandoff(job[p], t)
    BY <1>0, <1>3, <2>2 DEF RecoverFindHandoff, Job, FindsHandoff, Same, Reads, counts, At
  <2> QED
    BY <2>3, <2>4, <2>5 DEF Moves, Goes
<1>4. CASE RecoverFindStatus(p) /\ ~Finish(p)
  <2>1. /\ log # <<>>
        /\ job' = [job EXCEPT ![p].pc = "recover-decide", ![p].from = Status,
                              ![p].of = Last.attempt, ![p].ofKey = Last.key]
    BY <1>4 DEF RecoverFindStatus, Last
  <2>2. PICK t : t = [job[p] EXCEPT !.pc = "recover-decide", !.from = Status,
                                    !.of = Last.attempt, !.ofKey = Last.key]
    OBVIOUS
  <2>3. t \in Job
    <3>1. Status \in Statuses \cup {"none"}
      BY Typed
    <3>2. Last.attempt \in Nat /\ Last.key \in Key
      BY <2>1, Typed DEF Transition, Last
    <3> QED
      BY <1>0, <2>2, <3>1, <3>2 DEF Job, Points
  <2>4. job' = [job EXCEPT ![p] = t]
    BY <1>0, <2>1, <2>2
  <2>5. FindsStatus(job[p], t)
    BY <1>0, <1>4, <2>1, <2>2 DEF RecoverFindStatus, Job, FindsStatus, Reads, counts, At
  <2> QED
    BY <2>3, <2>4, <2>5 DEF Moves, Goes
<1>5. CASE RecoverDecide(p) /\ ~(Finish(p) /\ UNCHANGED attempts)
  <2>0. PICK decision : decision = Reconcile(job[p].from, job[p].seen, handoffs[job[p].h].base, handoffs[job[p].h].digest)
    OBVIOUS
  <2>1. PICK key, outcome :
          /\ key = IF job[p].key = NoKey THEN RecoveryKey(decision, job[p].of) ELSE job[p].key
          /\ outcome = IF decision = "materialized" THEN "succeeded" ELSE "failed"
    OBVIOUS
  <2>2. /\ AuditsWith(job[p].key) = {} /\ decision # "recovery-required" /\ attempts' = attempts + 1
        /\ job' = [job EXCEPT ![p].pc = "transition", ![p].req = "recovery-required",
                              ![p].attempt = attempts + 1, ![p].key = key, ![p].outcome = outcome]
    BY <1>0, <1>5, <2>0, <2>1 DEF RecoverDecide, Proposed
  <2>3. decision \in {"materialized", "apply-failed"}
    BY <2>0, <2>2 DEF Reconcile
  <2>4. PICK t : t = [job[p] EXCEPT !.pc = "transition", !.req = "recovery-required",
                                    !.attempt = attempts + 1, !.key = key, !.outcome = outcome]
    OBVIOUS
  <2>5. t \in Job
    <3>1. attempts + 1 \in Nat
      BY Typed
    <3>2. key \in Key
      BY <1>0, <2>1 DEF Job, RecoveryKey, Key
    <3>3. outcome \in {"succeeded", "failed"}
      BY <2>1
    <3>4. "recovery-required" \in Statuses /\ "transition" \in Points
      BY DEF Statuses, Points
    <3> QED
      BY <1>0, <2>4, <3>1, <3>2, <3>3, <3>4 DEF Job
  <2>6. job' = [job EXCEPT ![p] = t]
    BY <1>0, <2>2, <2>4
  <2>7. /\ t.pc = "transition" /\ t.req = "recovery-required" /\ t.attempt = attempts + 1
        /\ t.key = key /\ t.outcome = outcome
        /\ t.of = job[p].of /\ t.strategy = job[p].strategy /\ t.h = job[p].h
        /\ t.seen = job[p].seen /\ t.wrote = job[p].wrote
    BY <1>0, <2>4 DEF Job
  <2>8. job[p].pc = "recover-decide"
    BY <1>5 DEF RecoverDecide, At
  <2>9. Decides(job[p], t)
    BY <1>1, <2>0, <2>1, <2>2, <2>3, <2>7, <2>8, Zenon DEF Decides
  <2> QED
    BY <2>5, <2>6, <2>9 DEF Moves, Goes
<1> QED
  BY <1>2, <1>3, <1>4, <1>5 DEF RecoverStep, RecoverFindHandoff, RecoverFindStatus

LEMMA StartMoves ==
  ASSUME IInv, NEW p \in Procs, Start(p) PROVE \E t \in Job : Moves(p, t)
<1>0. job \in [Procs -> Job] /\ Idle \in Job /\ content \in Contents
  BY Typed, IdleFits
<1>1. ASSUME NEW d \in Digests, Propose(p, d) PROVE \E t \in Job : Moves(p, t)
  <2>1. PICK h : h = [base |-> content, version |-> 0, digest |-> d]
    OBVIOUS
  <2>2. h \in Handoff /\ h.base = content
    BY <1>0, <2>1 DEF Handoff, Contents
  <2>3. PICK t : t = [Idle EXCEPT !.pc = "find-handoff", !.draft = h]
    OBVIOUS
  <2>4. t \in Job
    BY <1>0, <2>2, <2>3 DEF Job, Points
  <2>5. job' = [job EXCEPT ![p] = t]
    BY <1>0, <1>1, <2>1, <2>3 DEF Propose
  <2>6. /\ t.pc = "find-handoff" /\ t.draft = h /\ Same(Idle, t) /\ t.seen = Idle.seen
    BY <1>0, <2>3 DEF Job, Same
  <2>7. Drafts(job[p], t)
    BY <1>1, <2>2, <2>6 DEF Propose, Drafts, Drafting, Reads, counts, At
  <2> QED
    BY <2>4, <2>5, <2>7 DEF Moves, Goes
<1>2. ASSUME NEW in \in DecisionInputs, Approve(p, in[1], in[2]) PROVE \E t \in Job : Moves(p, t)
  <2>1. PICK h : h = handoffs[Len(handoffs)]
    OBVIOUS
  <2>2. h \in Handoff /\ in[1] \in Stages /\ in[2] \in Decisions
    BY <1>2, <2>1, ConstantsAssumption DEF Approve, ConstantsAssumption, IInv, TypeOK
  <2>3. PICK v : v = [stage |-> in[1], decision |-> in[2], version |-> h.version, digest |-> h.digest]
    OBVIOUS
  <2>4. v \in Vote
    BY <2>2, <2>3 DEF Handoff, Vote
  <2>5. PICK t : t = [Idle EXCEPT !.pc = "find-votes", !.vote = v]
    OBVIOUS
  <2>6. t \in Job
    BY <1>0, <2>4, <2>5 DEF Job, Points
  <2>7. job' = [job EXCEPT ![p] = t]
    BY <1>0, <1>2, <2>1, <2>3, <2>5 DEF Approve
  <2>8. t.pc = "find-votes" /\ Same(Idle, t) /\ t.seen = Idle.seen
    BY <1>0, <2>5 DEF Job, Same
  <2>9. Drafts(job[p], t)
    BY <1>2, <2>8 DEF Approve, Drafts, Drafting, Reads, counts, At
  <2> QED
    BY <2>6, <2>7, <2>9 DEF Moves, Goes
<1>3. ASSUME NEW key \in ApplyKeys, Apply(p, key) PROVE \E t \in Job : Moves(p, t)
  <2>1. key \in Key /\ key.kind \in {"apply", "user"} /\ Len(handoffs) \in Nat
    BY <1>3, ConstantsAssumption DEF IInv, TypeOK, ApplyKeys, UserKey, Key, ConstantsAssumption
  <2>2. PICK t : t = [Idle EXCEPT !.pc = "check-key", !.h = Len(handoffs), !.key = key]
    OBVIOUS
  <2>3. t \in Job
    BY <1>0, <2>1, <2>2 DEF Job, Points
  <2>4. job' = [job EXCEPT ![p] = t]
    BY <1>0, <1>3, <2>2 DEF Apply
  <2>5. /\ t.pc = "check-key" /\ t.h = Len(handoffs) /\ t.key = key
        /\ t.of = 0 /\ t.strategy = "filesystem" /\ ~t.wrote
    BY <1>0, <2>2 DEF Idle
  <2>6. Applies(job[p], t)
    BY <1>3, <2>1, <2>5 DEF Apply, Applies, Reads, counts, At
  <2> QED
    BY <2>3, <2>4, <2>6 DEF Moves, Goes
<1>4. ASSUME NEW key \in RecoverKeys, Recover(p, key) PROVE \E t \in Job : Moves(p, t)
  <2>1. key \in Key /\ key.kind \in {"none", "user"}
    <3>1. CASE key = NoKey
      BY <3>1 DEF NoKey, Key
    <3>2. CASE \E n \in Nat : key = [kind |-> "user", n |-> n]
      BY <3>2 DEF Key
    <3> QED
      BY <3>1, <3>2, ConstantsAssumption DEF RecoverKeys, UserKey, ConstantsAssumption
  <2>2. PICK t : t = [Idle EXCEPT !.pc = "recover-handoff", !.seen = content, !.strategy = "recovery", !.key = key]
    OBVIOUS
  <2>3. t \in Job
    BY <1>0, <2>1, <2>2 DEF Job, Points
  <2>4. job' = [job EXCEPT ![p] = t]
    BY <1>0, <1>4, <2>2 DEF Recover
  <2>5. /\ t.pc = "recover-handoff" /\ t.seen = content /\ t.key = key
        /\ t.of = 0 /\ t.strategy = "recovery" /\ ~t.wrote
    BY <1>0, <2>2 DEF Idle
  <2>6. Recovering(job[p], t)
    BY <1>4, <2>1, <2>5 DEF Recover, Recovering, Reads, counts, At
  <2> QED
    BY <2>3, <2>4, <2>6 DEF Moves, Goes
<1> QED
  BY <1>1, <1>2, <1>3, <1>4 DEF Start

\* Whatever happens, one command goes one step, or a person edits the Change.
LEMMA NextMoves ==
  ASSUME IInv, Next
  PROVE  (\E p \in Procs : \E t \in Job : Moves(p, t)) \/ \E d \in Contents : Edit(d)
<1>1. ASSUME NEW p \in Procs, Step(p) PROVE \E t \in Job : Moves(p, t)
  BY <1>1, ProposeMoves, ApproveMoves, TransitionMoves, ApplyMoves, MaterializeMoves, AuditMoves, RecoverMoves
  DEF Step, ApplyStep
<1>2. ASSUME NEW p \in Procs, IoError(p) PROVE \E t \in Job : Moves(p, t)
  <2>1. ioErrors' # 0
    <3>1. ioErrors \in Nat
      BY <1>2, Typed
    <3> QED
      BY <1>2, <3>1 DEF IoError
  <2> QED
    BY <1>2, <2>1, FailMoves DEF IoError, Writing, GivesUp
<1>3. ASSUME NEW p \in Procs, Crash(p) PROVE \E t \in Job : Moves(p, t)
  <2>1. crashes' # 0
    <3>1. crashes \in Nat
      BY <1>3, Typed
    <3> QED
      BY <1>3, <3>1 DEF Crash
  <2> QED
    BY <1>3, <2>1, FinishMoves, IdleFits DEF Crash, Cut
<1> QED
  BY <1>1, <1>2, <1>3, StartMoves, AuditMoves DEF Next

--------------------------------------------------------------------------------
(* The record a command saves, and where it is read back.                  *)

\* No record has overtaken one that is still to be saved.
InTime == \A p \in Procs : overtaken[p] = 0

\* With one command at work its records are saved in the order of their stamps.
LEMMA NextInTime ==
  ASSUME IInv, OneAtWork, InTime, [Next]_vars PROVE InTime'
<1>0. overtaken \in [Procs -> Nat]
  BY DEF IInv, TypeOK
<1>1. CASE overtaken' = overtaken
  BY <1>1 DEF InTime
<1>2. CASE \E p \in Procs : DropsStamp(p)
  BY <1>0, <1>2 DEF DropsStamp, InTime
<1>3. CASE \E p \in Procs : TransitionSave(p)
  <2>1. PICK p \in Procs : TransitionSave(p)
    BY <1>3
  <2>2. \A q \in Procs : q # p => job[q].pc \notin {"transition", "save-transition"}
    BY <2>1 DEF TransitionSave, At, OneAtWork, AtWork, Drafting
  <2> QED
    BY <1>0, <2>1, <2>2 DEF TransitionSave, Overtakes, InTime
<1> QED
  <2>1. CASE UNCHANGED vars
    BY <1>1, <2>1 DEF vars, counts
  <2>2. ASSUME NEW p \in Procs, Start(p) PROVE overtaken' = overtaken
    BY <2>2 DEF Start, Propose, Approve, Apply, Recover, counts
  <2>3. ASSUME NEW p \in Procs, ProposeStep(p) \/ ApproveStep(p) \/ ApplyStep(p) PROVE overtaken' = overtaken
    BY <2>3 DEF ProposeStep, ProposeFindHandoff, ProposePreview, ProposeSupersede, ProposeSave, ApproveStep,
                ApproveEvaluate, ApproveSave, ApplyStep, ApplyCheckKey, ApplyCheckStatus, ApplyCheckApprovals, counts
  <2>4. ASSUME NEW p \in Procs, MaterializeStep(p) \/ AuditStep(p) \/ RecoverStep(p) PROVE overtaken' = overtaken
    BY <2>4 DEF MaterializeStep, GuardRefuses, ReadBase, Backup, Install, Cleanup, Verify, Discard, AuditStep,
                FindAudit, GuardAudit, SaveAudit, RecoverStep, RecoverFindHandoff, RecoverFindStatus, RecoverDecide,
                counts
  <2>5. ASSUME NEW p \in Procs, TransitionStep(p) PROVE InTime'
    BY <1>1, <1>2, <1>3, <2>5 DEF TransitionStep, TransitionEvaluate
  <2>6. ASSUME NEW p \in Procs, IoError(p) \/ AuditIoError(p) \/ Crash(p) PROVE InTime'
    BY <1>1, <1>2, <2>6 DEF IoError, AuditIoError, Crash
  <2>7. ASSUME NEW d \in Contents, Edit(d) PROVE overtaken' = overtaken
    BY <2>7 DEF Edit
  <2> QED
    BY <1>1, <2>1, <2>2, <2>3, <2>4, <2>5, <2>6, <2>7 DEF Next, Step

\* It is read back last, or else right before the one its command wrote last.
LEMMA Recorded ==
  ASSUME IInv, InTime, NEW p \in Procs, NEW t \in Job, NEW k \in Places(p), Records(p, job[p], t, k)
  PROVE  /\ Len(log) \in Nat /\ DOMAIN log = 1 .. Len(log)
         /\ DOMAIN log' = 1 .. Len(log) + 1 /\ k \in DOMAIN log'
         /\ log'[k] = RecordOf(p)
         /\ \A i \in DOMAIN log' : i # k =>
              \E m \in DOMAIN log : (m = IF i < k THEN i ELSE i - 1) /\ log'[i] = log[m]
         /\ \/ k = Len(log) + 1 /\ Last' = RecordOf(p) /\ Status' = job[p].req
            \/ /\ Ties /\ job[p].wrote /\ log # <<>>
               /\ k = Len(log) /\ Last' = Last /\ Status' = Status
<1>1. log \in Seq(Transition) /\ Len(log) \in Nat /\ DOMAIN log = 1 .. Len(log)
  BY DEF IInv, TypeOK
<1>2. RecordOf(p) \in Transition /\ RecordOf(p).to = job[p].req
  BY Typed DEF RecordOf, Transition, Job
<1>3. /\ k \in {Len(log), Len(log) + 1} /\ k > 0
      /\ k = Len(log) => Ties /\ job[p].wrote /\ log # <<>>
  <2>1. overtaken[p] = 0
    BY DEF InTime
  <2> QED
    BY <1>1, <2>1 DEF Places
<1>4. log' = InsertRecord(k, RecordOf(p))
  BY DEF Records
<1>5. log' \in Seq(Transition)
  BY <1>1, <1>2, <1>3, <1>4, InsertRecordType
<1>6. DOMAIN log' = 1 .. Len(log) + 1
  BY <1>4 DEF InsertRecord
<1>7. Len(log') = Len(log) + 1 /\ log' # <<>>
  BY <1>1, <1>5, <1>6
<1>8. k \in DOMAIN log' /\ log'[k] = RecordOf(p)
  BY <1>1, <1>3, <1>4, <1>6 DEF InsertRecord
<1>9. ASSUME NEW i \in DOMAIN log', i # k
      PROVE  \E m \in DOMAIN log : (m = IF i < k THEN i ELSE i - 1) /\ log'[i] = log[m]
  <2>1. CASE i < k
    <3>1. i \in DOMAIN log /\ log'[i] = log[i]
      BY <1>1, <1>3, <1>4, <1>6, <1>9, <2>1 DEF InsertRecord
    <3> QED
      BY <2>1, <3>1
  <2>2. CASE ~(i < k)
    <3>1. i - 1 \in DOMAIN log /\ log'[i] = log[i - 1]
      BY <1>1, <1>3, <1>4, <1>6, <1>9, <2>2 DEF InsertRecord
    <3> QED
      BY <2>2, <3>1
  <2> QED
    BY <2>1, <2>2
<1>10. CASE k = Len(log) + 1
  <2>1. log'[Len(log')] = RecordOf(p)
    BY <1>7, <1>8, <1>10
  <2>2. Last' = RecordOf(p)
    BY <2>1 DEF Last
  <2>3. Status' = job[p].req
    BY <1>2, <1>7, <2>1 DEF Status
  <2> QED
    BY <1>1, <1>6, <1>8, <1>9, <1>10, <2>2, <2>3
<1>11. CASE k = Len(log)
  <2>1. log'[Len(log')] = log[Len(log)]
    <3>1. Len(log) + 1 \in DOMAIN log' /\ ~(Len(log) + 1 < k) /\ Len(log) + 1 # k
      <4>1. Len(log) \in Nat
        BY <1>1
      <4> QED
        BY <1>6, <1>11, <4>1
    <3>2. log'[Len(log) + 1] = log[Len(log) + 1 - 1]
      BY <1>1, <1>4, <1>6, <3>1 DEF InsertRecord
    <3>3. Len(log) + 1 - 1 = Len(log)
      BY <1>1
    <3> QED
      BY <1>7, <3>2, <3>3
  <2>2. Last' = Last
    BY <2>1 DEF Last
  <2>3. Status' = Status
    BY <1>3, <1>7, <1>11, <2>1 DEF Status
  <2> QED
    BY <1>1, <1>3, <1>6, <1>8, <1>9, <1>11, <2>2, <2>3
<1> QED
  BY <1>3, <1>10, <1>11

LEMMA LogSame == log' = log => Status' = Status /\ Last' = Last
BY DEF Status, Last

\* A handoff on record keeps its place.
LEMMA HandoffsStand ==
  ASSUME IInv, NEW p \in Procs, NEW t \in Job, Moves(p, t)
  PROVE  \A h : Known(h) => Known(h)' /\ handoffs'[h] = handoffs[h]
<1>1. handoffs \in Seq(Handoff) /\ job[p] \in Job
  BY Typed DEF IInv, TypeOK
<1>2. handoffs' = handoffs \/ handoffs' = Append(handoffs, job[p].draft)
  BY DEF Moves, Goes, Ends, Drafts, Applies, Attempts, Admits, Asks, Records, Works, GoesToAudit, Concludes,
         Recovering, FindsHandoff, FindsStatus, Decides, Reads, store
<1>3. PICK d \in Handoff : d = job[p].draft
  BY <1>1 DEF Job
<1> QED
  BY <1>1, <1>2, <1>3 DEF Known

\* A command goes a step beside the one at work: nothing that one relies on changes.
LEMMA BesideWork ==
  ASSUME IInv, OneAtWork, OneAtWork', NEW p \in Procs, NEW t \in Job, Moves(p, t),
         NEW q \in Procs, q # p, AtWork(job[q])
  PROVE  /\ UNCHANGED <<content, log, audits, attempts, edits>>
         /\ Status' = Status /\ Last' = Last
         /\ \A h : Known(h) => Known(h)' /\ handoffs'[h] = handoffs[h]
<1>1. job \in [Procs -> Job] /\ job[p] \in Job /\ handoffs \in Seq(Handoff)
  BY Typed DEF IInv, TypeOK
<1>2. job'[q] = job[q] /\ job'[p] = t
  BY <1>1 DEF Moves
<1>3. ~AtWork(job[p]) /\ ~AtWork(t)
  BY <1>2 DEF OneAtWork, AtWork
<1>4. Ends(job[p], t) \/ Drafts(job[p], t)
  BY <1>3 DEF AtWork, Drafting, Moves, Goes, Applies, Attempts, Admits, Asks, Records, Works, GoesToAudit, Auditing,
              Concludes, Recovering, FindsHandoff, FindsStatus, Decides, Writing
<1>5. UNCHANGED <<content, log, audits, attempts, edits>>
  BY <1>4 DEF Ends, Drafts, Reads, store
<1> QED
  BY <1>5, LogSame, HandoffsStand

\* The commands that do not move stay where they are.
LEMMA Others ==
  ASSUME job \in [Procs -> Job], NEW p \in Procs, NEW t, Moves(p, t)
  PROVE  job'[p] = t /\ \A q \in Procs : q # p => job'[q] = job[q] /\ job[q] \in Job
BY DEF Moves

--------------------------------------------------------------------------------
(* Which command is where.                                                 *)

ControlInv == OneAtWork /\ IInv /\ InTime /\ \A p \in Procs : Controlled(job[p])

LEMMA OffIsControlled ==
  ASSUME NEW j \in Job, ~AtWork(j) PROVE Controlled(j) /\ Controlled(j)'
<1>1. j.pc \in {"idle"} \cup Drafting
  BY DEF AtWork
<1> QED
  BY <1>1 DEF Drafting, Controlled, Admitting, Opening, Concluding, Recording, Applying, Judging, Auditing, Writing

\* The table of change-apply-policy.ts, read backwards.
LEMMA Predecessors ==
  ASSUME NEW s \in Statuses \cup {"none"}, NEW to \in Statuses, CanTransition(s, to)
  PROVE  /\ to = "approved" => s = "none"
         /\ to = "apply-ready" => s = "approved"
         /\ to = "applying" => s \in {"apply-ready", "apply-failed"}
         /\ to = "recovery-required" => s = "applying"
         /\ to \in {"materialized", "apply-failed"} => s \in {"applying", "recovery-required"}
<1>1. Successors[s] =
        CASE s = "none"              -> {"approved"}
          [] s = "approved"          -> {"apply-ready"}
          [] s = "apply-ready"       -> {"applying"}
          [] s = "applying"          -> {"materialized", "apply-failed", "recovery-required"}
          [] s = "apply-failed"      -> {"applying"}
          [] s = "recovery-required" -> {"materialized", "apply-failed"}
          [] s = "materialized"      -> {}
  BY DEF Successors
<1> QED
  BY <1>1 DEF CanTransition, Statuses

LEMMA RecordControls ==
  ASSUME ControlInv, NEW p \in Procs, NEW t \in Job, NEW k \in Places(p), Records(p, job[p], t, k)
  PROVE  Controlled(t)'
<1>1. IInv /\ Controlled(job[p]) /\ job[p] \in Job
  BY Typed DEF ControlInv
<1>2. \/ Status' = job[p].req
      \/ Status' = Status /\ job[p].wrote /\ log # <<>>
  BY <1>1, Recorded DEF ControlInv
<1>3. job[p].pc = "save-transition"
  BY DEF Records
<1>4. CASE t = Idle
  BY <1>4 DEF Idle, Controlled, Admitting, Opening, Concluding, Recording, Applying, Judging, Auditing, Writing
<1>5. CASE t # Idle
  <2>0. Same(job[p], t) /\ t.h = job[p].h /\ t.wrote
    BY <1>5 DEF Records, Holds
  <2>1. t.strategy = job[p].strategy
    BY <2>0 DEF Same
  <2>2. CanTransition(Status, job[p].req) /\ Status \in Statuses \cup {"none"} /\ job[p].req \in Statuses
    BY <1>1, <1>3, Typed DEF Controlled, Job
  <2>3. CASE job[p].req = "approved" /\ t.pc = "transition" /\ t.req = "apply-ready"
    <3>1. Status = "none"
      BY <2>2, <2>3, Predecessors
    <3>2. Status' \in {"approved", "apply-ready"}
      <4>1. log = <<>>
        BY <1>1, <3>1, Typed DEF Status, Transition, Statuses
      <4> QED
        BY <1>2, <2>3, <4>1
    <3>3. t.strategy = "filesystem"
      BY <1>1, <1>3, <2>1, <2>3 DEF Controlled, Admitting, Recording
    <3> QED
      BY <1>3, <2>0, <2>3, <3>2, <3>3 DEF Controlled, Admitting, Opening, Concluding, Recording, Applying, Judging, Auditing, Writing
  <2>4. CASE job[p].req = "apply-ready" /\ t.pc = "transition" /\ t.req = "applying"
    <3>1. Status = "approved"
      BY <2>2, <2>4, Predecessors
    <3>2. Status' \in {"approved", "apply-ready"}
      BY <1>2, <2>4, <3>1
    <3>3. t.strategy = "filesystem"
      BY <1>1, <1>3, <2>1, <2>4 DEF Controlled, Admitting, Recording
    <3> QED
      BY <1>3, <2>0, <2>4, <3>2, <3>3 DEF Controlled, Admitting, Opening, Concluding, Recording, Applying, Judging, Auditing, Writing
  <2>5. CASE job[p].req = "applying" /\ t.pc = "check-approvals"
    <3>1. Status \in {"apply-ready", "apply-failed"}
      BY <2>2, <2>5, Predecessors
    <3>2. job[p].wrote => Status \in {"approved", "apply-ready"}
      BY <1>1, <1>3, <2>5 DEF Controlled, Admitting, Recording
    <3>3. Status' \in {"apply-ready", "applying"}
      BY <1>2, <2>5, <3>1, <3>2
    <3>4. t.strategy = "filesystem"
      BY <1>1, <1>3, <2>1, <2>5 DEF Controlled, Admitting, Recording
    <3> QED
      BY <1>3, <2>0, <2>5, <3>3, <3>4 DEF Controlled, Admitting, Opening, Concluding, Recording, Applying, Judging, Auditing, Writing
  <2>6. CASE job[p].req = "recovery-required" /\ t.pc = "find-audit"
    <3>1. job[p].strategy = "recovery" /\ ~job[p].wrote
      BY <1>1, <1>3, <2>6 DEF Controlled, Opening, Recording
    <3>2. Status' = "recovery-required"
      BY <1>2, <2>6, <3>1
    <3> QED
      BY <1>3, <2>0, <2>1, <2>6, <3>1, <3>2 DEF Controlled, Admitting, Opening, Concluding, Recording, Applying, Judging, Auditing, Writing
  <2> QED
    BY <1>5, <2>3, <2>4, <2>5, <2>6 DEF Records
<1> QED
  BY <1>4, <1>5

LEMMA ControlMoves ==
  ASSUME ControlInv, NEW p \in Procs, NEW t \in Job, Moves(p, t) PROVE Controlled(t)'
<1>1. IInv /\ Controlled(job[p]) /\ job[p] \in Job /\ Fits(job[p])
  BY Typed DEF ControlInv
<1>2. CASE \E k \in Places(p) : Records(p, job[p], t, k)
  BY <1>2, RecordControls
<1>3. CASE ~\E k \in Places(p) : Records(p, job[p], t, k)
  <2>1. Status' = Status /\ Last' = Last /\ log' = log
    BY <1>3, LogSame DEF Moves, Goes, Ends, Drafts, Applies, Attempts, Admits, Asks, Works, GoesToAudit,
                Concludes, Recovering, FindsHandoff, FindsStatus, Decides, store, Reads
  <2>2. CASE Ends(job[p], t) \/ Drafts(job[p], t)
    <3>1. ~AtWork(t)
      BY <2>2 DEF Ends, Drafts, Idle, AtWork
    <3> QED
      BY <3>1, OffIsControlled
  <2>3. CASE Applies(job[p], t) \/ Recovering(job[p], t)
    BY <2>3 DEF Applies, Recovering, Controlled, Admitting, Opening, Concluding, Recording, Applying, Judging, Auditing,
                Writing
  <2>4. CASE Attempts(job[p], t)
    BY <1>1, <2>4 DEF Attempts, Controlled, Admitting, Opening, Concluding, Recording, Applying, Judging, Auditing,
                      Writing
  <2>5. CASE Admits(job[p], t)
    <3>1. job[p].strategy = "filesystem" /\ ~job[p].wrote
      BY <1>1, <2>5 DEF Admits, Controlled
    <3> QED
      BY <2>5, <3>1 DEF Admits, Keeps, Holds, Same, Controlled, Admitting, Opening, Concluding, Recording,
                        Applying, Judging, Auditing, Writing
  <2>6. CASE Asks(job[p], t)
    BY <1>1, <2>1, <2>6 DEF Asks, Keeps, Holds, Same, Controlled, Admitting, Opening, Concluding, Recording,
                            Applying, Judging, Auditing, Writing
  <2>7. CASE Works(job[p], t)
    <3>1. job[p].strategy = "filesystem" /\ Status \in {"apply-ready", "applying"}
      BY <1>1, <2>7 DEF Works, Controlled, Applying, Writing
    <3> QED
      BY <2>1, <2>7, <3>1 DEF Works, Same, Controlled, Admitting, Opening, Concluding, Recording,
                              Applying, Judging, Auditing, Writing
  <2>8. CASE GoesToAudit(job[p], t)
    <3>1. t.strategy = job[p].strategy
      BY <2>8 DEF GoesToAudit, Keeps, Holds, Same
    <3>2. /\ Applying(job[p]) => Status \in {"apply-ready", "applying"}
          /\ Judging(job[p]) => Status = "recovery-required"
      BY <1>1 DEF Controlled
    <3> QED
      BY <2>1, <2>8, <3>1, <3>2 DEF GoesToAudit, Controlled, Admitting, Opening, Concluding, Recording,
                                    Applying, Judging, Auditing, Writing
  <2>9. CASE Concludes(p, job[p], t)
    <3>1. t.outcome = job[p].outcome
      BY <2>9 DEF Concludes, Keeps, Holds
    <3> QED
      BY <2>9, <3>1 DEF Concludes, Controlled, Admitting, Opening, Concluding, Recording,
                        Applying, Judging, Auditing, Writing
  <2>10. CASE FindsHandoff(job[p], t) \/ FindsStatus(job[p], t)
    BY <1>1, <2>1, <2>10 DEF FindsHandoff, FindsStatus, Same, Controlled, Admitting, Opening, Concluding, Recording,
                             Applying, Judging, Auditing, Writing
  <2>11. CASE Decides(job[p], t)
    <3>1. job[p].strategy = "recovery" /\ ~job[p].wrote
      BY <1>1, <2>11 DEF Decides, Fits, Controlled
    <3> QED
      BY <2>1, <2>11, <3>1 DEF Decides, Controlled, Admitting, Opening, Concluding, Recording,
                               Applying, Judging, Auditing, Writing
  <2> QED
    BY <1>3, <2>2, <2>3, <2>4, <2>5, <2>6, <2>7, <2>8, <2>9, <2>10, <2>11 DEF Moves, Goes
<1> QED
  BY <1>2, <1>3

\* Beside the one at work nothing changes that tells where it is.
LEMMA ControlStays ==
  ASSUME ControlInv, OneAtWork', NEW p \in Procs, NEW t \in Job, Moves(p, t),
         NEW q \in Procs, q # p, NEW j \in Job, j = job[q]
  PROVE  Controlled(j)'
<1>1. CASE ~AtWork(j)
  BY <1>1, OffIsControlled
<1>2. CASE AtWork(j)
  <2>1. Status' = Status /\ Last' = Last /\ log' = log
    BY <1>2, BesideWork DEF ControlInv
  <2>2. Controlled(j)
    BY DEF ControlInv
  <2> QED
    BY <2>1, <2>2 DEF Controlled
<1> QED
  BY <1>1, <1>2

LEMMA InitControl == Init => ControlInv
<1> SUFFICES ASSUME Init PROVE ControlInv
  OBVIOUS
<1>1. Idle \in Job /\ ~AtWork(Idle)
  BY IdleFits DEF Idle, AtWork
<1>2. \A p \in Procs : job[p] = Idle
  BY DEF Init
<1> QED
  BY <1>1, <1>2, InitIInv, OffIsControlled DEF ControlInv, OneAtWork, Init, InTime

LEMMA NextControl == ControlInv /\ [Next]_vars /\ OneAtWork' => ControlInv'
<1> SUFFICES ASSUME ControlInv, [Next]_vars, OneAtWork' PROVE \A q \in Procs : Controlled(job[q])'
  BY NextIInv, NextInTime DEF ControlInv
<1>1. IInv /\ job \in [Procs -> Job]
  BY DEF ControlInv, IInv, TypeOK
<1>2. ASSUME NEW p \in Procs, NEW t \in Job, Moves(p, t), NEW q \in Procs PROVE Controlled(job[q])'
  <2>1. PICK j : j = job'[q]
    OBVIOUS
  <2>2. CASE q = p
    <3>1. j = t
      BY <1>1, <1>2, <2>1, <2>2, Others
    <3>2. Controlled(j)'
      BY <1>2, <3>1, ControlMoves
    <3> QED
      BY <2>1, <3>2
  <2>3. CASE q # p
    <3>1. j \in Job /\ j = job[q]
      BY <1>1, <1>2, <2>1, <2>3, Others
    <3>2. Controlled(j)'
      BY <1>2, <2>3, <3>1, ControlStays
    <3> QED
      BY <2>1, <3>2
  <2> QED
    BY <2>2, <2>3
<1>3. ASSUME UNCHANGED <<store, job>>, NEW q \in Procs PROVE Controlled(job[q])'
  <2>1. Status' = Status /\ Last' = Last
    BY <1>3, LogSame DEF store
  <2>2. Controlled(job[q])
    BY DEF ControlInv
  <2> QED
    BY <1>3, <2>1, <2>2 DEF Controlled, store
<1>4. CASE UNCHANGED vars
  BY <1>3, <1>4 DEF vars, store
<1>5. CASE Next
  <2>1. CASE \E d \in Contents : Edit(d)
    BY <1>3, <2>1 DEF Edit
  <2> QED
    BY <1>1, <1>2, <1>5, <2>1, NextMoves
<1> QED
  BY <1>4, <1>5

\* Where each command is and the status it goes by: the layer on which all the
\* others rest.
THEOREM ControlInvariance == Spec /\ []OneAtWork => []ControlInv
BY InitControl, NextControl, PTL DEF Spec

\* A step that saves a record moves the status along the policy's table, or not
\* at all; every other step leaves it alone.
LEMMA StatusMoves ==
  ASSUME ControlInv, NEW p \in Procs, NEW t \in Job, Moves(p, t), Status' # Status
  PROVE  /\ Status \in Statuses \cup {"none"} /\ Status' \in Statuses
         /\ CanTransition(Status, Status')
<1>1. IInv /\ Controlled(job[p]) /\ job[p] \in Job /\ Status \in Statuses \cup {"none"}
  BY Typed DEF ControlInv
<1>2. PICK k \in Places(p) : Records(p, job[p], t, k)
  BY LogSame DEF Moves, Goes, Ends, Drafts, Applies, Attempts, Admits, Asks, Works, GoesToAudit,
                Concludes, Recovering, FindsHandoff, FindsStatus, Decides, store, Reads
<1>3. Status' = job[p].req
  BY <1>1, <1>2, Recorded DEF ControlInv
<1>4. CanTransition(Status, job[p].req)
  BY <1>1, <1>2 DEF Records, Controlled
<1> QED
  BY <1>1, <1>3, <1>4 DEF Job

\* Seen from outside, a Change has one status at a time and lives the life of
\* ApplyLifecycle: crashes, failures, edits and records that tie do not show.
THEOREM LifecycleIsKept == Spec /\ []OneAtWork => RefinesLifecycle
<1>1. Init => Lifecycle!Init
  BY DEF Init, Status, Lifecycle!Init
<1>2. ControlInv /\ [Next]_vars => [Lifecycle!Next]_Status
  <2> SUFFICES ASSUME ControlInv, [Next]_vars, Status' # Status PROVE Lifecycle!Next
    OBVIOUS
  <2>1. Next
    BY LogSame DEF vars, store
  <2>2. PICK p \in Procs, t \in Job : Moves(p, t)
    BY <2>1, NextMoves, LogSame DEF ControlInv, Edit, store
  <2>3. PICK from, to : from = Status /\ to = Status'
    OBVIOUS
  <2>4. from \in Statuses \cup {"none"} /\ to \in Statuses /\ CanTransition(from, to)
    BY <2>2, <2>3, StatusMoves
  <2>5. /\ to = "approved" => from = "none"
        /\ to = "apply-ready" => from = "approved"
        /\ to = "applying" => from \in {"apply-ready", "apply-failed"}
        /\ to = "recovery-required" => from = "applying"
        /\ to \in {"materialized", "apply-failed"} => from \in {"applying", "recovery-required"}
    BY <2>4, Predecessors
  <2> QED
    BY <2>3, <2>4, <2>5 DEF Statuses, Lifecycle!Next, Lifecycle!Step, Lifecycle!Admit, Lifecycle!Prepare, Lifecycle!Begin,
       Lifecycle!Interrupt, Lifecycle!Succeed, Lifecycle!Fail
<1> QED
  BY <1>1, <1>2, ControlInvariance, PTL DEF Spec, RefinesLifecycle, Lifecycle!Spec

\* Without ties every record conserves the status the one before it left.
THEOREM RecordsChain == ~Ties /\ Spec /\ []OneAtWork => []HistoryChains
<1> DEFINE Inv == ~Ties /\ ControlInv /\ HistoryChains
<1>1. ~Ties /\ Init => Inv
  BY InitControl DEF Init, HistoryChains
<1>2. Inv /\ [Next]_vars /\ OneAtWork' => Inv'
  <2> SUFFICES ASSUME Inv, [Next]_vars, OneAtWork' PROVE HistoryChains'
    BY NextControl
  <2>1. CASE log' = log
    BY <2>1 DEF HistoryChains
  <2>2. CASE log' # log
    <3>1. Next
      BY <2>2 DEF vars, store
    <3>2. PICK p \in Procs, t \in Job : Moves(p, t)
      BY <2>2, <3>1, NextMoves DEF ControlInv, Edit, store
    <3>3. PICK k \in Places(p) : Records(p, job[p], t, k)
      BY <2>2, <3>2 DEF Moves, Goes, Ends, Drafts, Applies, Attempts, Admits, Asks, Works, GoesToAudit,
                Concludes, Recovering, FindsHandoff, FindsStatus, Decides, store, Reads
    <3>4. /\ Len(log) \in Nat /\ DOMAIN log = 1 .. Len(log)
          /\ DOMAIN log' = 1 .. Len(log) + 1
          /\ log'[k] = RecordOf(p)
          /\ \A i \in DOMAIN log' : i # k =>
               \E m \in DOMAIN log : (m = IF i < k THEN i ELSE i - 1) /\ log'[i] = log[m]
          /\ k = Len(log) + 1
      BY <3>3, Recorded DEF ControlInv
    <3>5. RecordOf(p).from = Status
      BY <3>3 DEF ControlInv, Controlled, Records, RecordOf
    <3>6. \A i \in 1 .. Len(log) : log'[i] = log[i]
      BY <3>4
    <3>7. Status = IF k = 1 THEN "none" ELSE log[k - 1].to
      <4>1. log = <<>> <=> k = 1
        BY <3>4 DEF ControlInv, IInv, TypeOK
      <4> QED
        BY <3>4, <4>1 DEF Status
    <3>8. ASSUME NEW i \in 1 .. Len(log) + 1
          PROVE  log'[i].from = IF i = 1 THEN "none" ELSE log'[i - 1].to
      <4>1. CASE i = k
        <5>1. k # 1 => log'[k - 1] = log[k - 1]
          BY <3>4, <3>6
        <5> QED
          BY <3>4, <3>5, <3>7, <4>1, <5>1
      <4>2. CASE i # k
        <5>1. i \in DOMAIN log /\ log'[i] = log[i] /\ (i # 1 => log'[i - 1] = log[i - 1])
          BY <3>4, <3>6, <4>2
        <5> QED
          BY <5>1 DEF HistoryChains
      <4> QED
        BY <4>1, <4>2
    <3> QED
      BY <3>4, <3>8 DEF HistoryChains
  <2> QED
    BY <2>1, <2>2
<1>3. Inv => HistoryChains
  OBVIOUS
<1> QED
  BY <1>1, <1>2, <1>3, PTL DEF Spec

--------------------------------------------------------------------------------
(* Attempts, keys and audits are new when they are taken.                  *)

NumberInv == ControlInv /\ (\A p \in Procs : Numbered(job[p])) /\ NumbersInv

\* What the steps of one command read, typed and numbered.
LEMMA Counted ==
  ASSUME NumberInv, NEW p \in Procs
  PROVE  /\ IInv /\ job[p] \in Job /\ Fits(job[p]) /\ Controlled(job[p]) /\ Numbered(job[p])
         /\ attempts \in Nat
         /\ job[p].attempt \in Nat /\ job[p].of \in Nat /\ job[p].key \in Key /\ job[p].key.n \in Nat
         /\ \A a \in audits : a.attempt \in Nat /\ a.of \in Nat /\ a.key.n \in Nat
         /\ Before(attempts + 1)
<1>1. IInv /\ job[p] \in Job /\ Fits(job[p]) /\ attempts \in Nat
  BY Typed DEF NumberInv, ControlInv
<1>2. job[p].attempt \in Nat /\ job[p].of \in Nat /\ job[p].key \in Key /\ job[p].key.n \in Nat
  BY <1>1 DEF Job, Key
<1>3. \A a \in audits : a.attempt \in Nat /\ a.of \in Nat /\ a.key.n \in Nat
  <2>1. \A a \in audits : a \in Audit
    BY <1>1 DEF IInv, TypeOK
  <2> QED
    BY <2>1 DEF Audit, Key
<1> QED
  BY <1>1, <1>2, <1>3 DEF NumberInv, ControlInv, NumbersInv

LEMMA NothingToNumber ==
  ASSUME attempts \in Nat, NEW t \in Job, t.pc \notin Given, attempts' \in Nat,
         t.of \in Nat, t.of <= attempts', t.strategy = "filesystem" => ~Recovers(t.key),
         Recovers(t.key) => t.key.n <= attempts'
  PROVE  Numbered(t)'
<1>1. ~Recording(t)
  BY DEF Given, Recording
<1> QED
  BY <1>1 DEF Numbered, Concluding

\* A recovery that derives its key is the first to decide on its attempt.
LEMMA DecisionIsNew ==
  ASSUME NumberInv, NEW p \in Procs, NEW t \in Job, Decides(job[p], t)
  PROVE  /\ AuditsWith(t.key) = {}
         /\ Recovers(t.key) => t.key.n <= attempts
<1>1. Controlled(job[p]) /\ Numbered(job[p]) /\ attempts \in Nat /\ job[p].of \in Nat
  BY Counted
<1>2. CASE job[p].key # NoKey
  BY <1>1, <1>2 DEF Decides, Numbered
<1>3. CASE job[p].key = NoKey
  <2>1. PICK decision \in {"materialized", "apply-failed"} :
          /\ decision = Reconcile(job[p].from, job[p].seen, handoffs[job[p].h].base, handoffs[job[p].h].digest)
          /\ t.key = RecoveryKey(decision, job[p].of)
    BY <1>3, Zenon DEF Decides
  <2>2. t.key.n = job[p].of /\ Recovers(t.key)
    BY <2>1 DEF RecoveryKey, Recovers
  <2>3. job[p].from = "applying"
    BY <2>1 DEF Reconcile
  <2>4. Status = "applying" /\ job[p].of = Last.attempt
    BY <1>1, <2>3 DEF Decides, Controlled
  <2>5. \A a \in audits : Recovers(a.key) => a.key.n # job[p].of
    BY <2>4 DEF NumberInv, NumbersInv
  <2>6. AuditsWith(t.key) = {}
    BY <2>2, <2>5 DEF AuditsWith
  <2> QED
    BY <1>1, <2>2, <2>6 DEF Numbered
<1> QED
  BY <1>2, <1>3

LEMMA NumberedMoves ==
  ASSUME NumberInv, NEW p \in Procs, NEW t \in Job, Moves(p, t) PROVE Numbered(t)'
<1>1. /\ IInv /\ job[p] \in Job /\ Fits(job[p]) /\ Controlled(job[p]) /\ Numbered(job[p])
      /\ attempts \in Nat
      /\ job[p].attempt \in Nat /\ job[p].of \in Nat /\ job[p].key \in Key /\ job[p].key.n \in Nat
  BY Counted
<1>2. t.of \in Nat
  BY DEF Job
<1>3. ~Recovers(Idle.key) /\ Idle.of = 0 /\ Idle.pc = "idle"
  BY DEF Idle, NoKey, Recovers
<1>4. CASE Ends(job[p], t)
  <2>1. t.pc = "idle" /\ t.of = 0 /\ ~Recovers(t.key) /\ attempts' = attempts
    BY <1>3, <1>4 DEF Ends
  <2>2. t.pc \notin Given /\ t.of <= attempts'
    BY <1>1, <2>1 DEF Given, Writing
  <2> QED
    BY <1>1, <1>2, <2>1, <2>2, NothingToNumber
<1>5. CASE Drafts(job[p], t)
  <2>1. t.of <= attempts /\ (t.strategy = "filesystem" => ~Recovers(t.key)) /\ (Recovers(t.key) => t.key.n <= attempts)
    BY <1>1, <1>3, <1>5 DEF Drafts, Same, Numbered
  <2>2. t.pc \notin Given /\ attempts' = attempts
    BY <1>5 DEF Drafts, Reads, Drafting, Given, Writing
  <2> QED
    BY <1>1, <1>2, <2>1, <2>2, NothingToNumber
<1>6. CASE Applies(job[p], t) \/ Recovering(job[p], t)
  <2>1. t.of = 0 /\ ~Recovers(t.key) /\ t.pc \notin Given /\ attempts' = attempts
    BY <1>6 DEF Applies, Recovering, Reads, Recovers, Given, Writing
  <2> QED
    BY <1>1, <1>2, <2>1, NothingToNumber
<1>7. CASE FindsHandoff(job[p], t)
  <2>1. t.of = job[p].of /\ t.key = job[p].key /\ t.strategy = job[p].strategy /\ t.pc \notin Given /\ attempts' = attempts
    BY <1>7 DEF FindsHandoff, Same, Reads, Given, Writing
  <2>2. t.of <= attempts' /\ (t.strategy = "filesystem" => ~Recovers(t.key)) /\ (Recovers(t.key) => t.key.n <= attempts')
    BY <1>1, <2>1 DEF Numbered
  <2> QED
    BY <1>1, <1>2, <2>1, <2>2, NothingToNumber
<1>8. CASE FindsStatus(job[p], t)
  <2>1. t.key = job[p].key /\ t.strategy = job[p].strategy /\ t.pc \notin Given /\ attempts' = attempts
    BY <1>8 DEF FindsStatus, Reads, Given, Writing
  <2>2. t.of <= attempts
    <3>1. Len(log) \in DOMAIN log /\ t.of = log[Len(log)].attempt
      BY <1>1, <1>8 DEF FindsStatus, Last, IInv, TypeOK
    <3> QED
      BY <3>1 DEF NumberInv, NumbersInv
  <2>3. (t.strategy = "filesystem" => ~Recovers(t.key)) /\ (Recovers(t.key) => t.key.n <= attempts')
    BY <1>1, <2>1 DEF Numbered
  <2> QED
    BY <1>1, <1>2, <2>1, <2>2, <2>3, NothingToNumber
<1>9. CASE Attempts(job[p], t)
  <2>1. /\ t.pc = "check-status" /\ t.attempt = attempts' /\ attempts' = attempts + 1 /\ t.of = job[p].of
        /\ t.key = job[p].key /\ t.strategy = job[p].strategy /\ AuditsWith(t.key) = {} /\ audits' = audits
    BY <1>9 DEF Attempts, store
  <2>2. t.of <= attempts' /\ (t.strategy = "filesystem" => ~Recovers(t.key)) /\ (Recovers(t.key) => t.key.n <= attempts')
    BY <1>1, <2>1 DEF Numbered
  <2>3. Before(attempts)' /\ (AuditsWith(t.key) = {})'
    BY <2>1, Counted DEF Before, AuditsWith
  <2> QED
    BY <2>1, <2>2, <2>3 DEF Numbered, Concluding, Recording
<1>10. CASE Decides(job[p], t)
  <2>1. /\ t.pc = "transition" /\ t.req = "recovery-required" /\ t.attempt = attempts' /\ attempts' = attempts + 1
        /\ t.of = job[p].of /\ t.strategy = job[p].strategy /\ audits' = audits
    BY <1>10 DEF Decides, store
  <2>2. AuditsWith(t.key) = {} /\ (Recovers(t.key) => t.key.n <= attempts)
    BY <1>10, DecisionIsNew
  <2>3. t.strategy = "recovery"
    BY <1>1, <1>10 DEF Decides, Fits
  <2>4. Before(attempts)' /\ (AuditsWith(t.key) = {})'
    BY <2>1, <2>2, Counted DEF Before, AuditsWith
  <2>5. t.of <= attempts' /\ (Recovers(t.key) => t.key.n <= attempts')
    <3>1. job[p].of <= attempts
      BY <1>1 DEF Numbered
    <3>2. t.key.n \in Nat
      BY DEF Job, Key
    <3> QED
      BY <1>1, <2>1, <2>2, <3>1, <3>2
  <2> QED
    BY <2>1, <2>3, <2>4, <2>5 DEF Numbered, Concluding
<1>11. CASE Concludes(p, job[p], t)
  <2>1. /\ t.attempt = job[p].attempt /\ t.of = job[p].of /\ t.key = job[p].key /\ t.strategy = job[p].strategy
        /\ t.h = job[p].h /\ t.outcome = job[p].outcome
        /\ t.pc = "transition" /\ attempts' = attempts /\ Auditing(job[p])
    BY <1>11 DEF Concludes, Keeps, Holds, Same
  <2>2. t.attempt = attempts /\ AuditsWith(job[p].key) = {}
    BY <1>1, <2>1 DEF Numbered, Given, Auditing, Concluding, Recording
  <2>3. Concluding(t)
    BY <1>11 DEF Concludes, Concluding, Recording
  <2>4. t.req = "materialized" =>
          \E a \in audits' : a.attempt = t.attempt /\ a.handoff = t.h /\ a.outcome = "succeeded"
    <3>1. ASSUME t.req = "materialized" PROVE AuditOf(p) \in audits' /\ job[p].outcome = "succeeded"
      BY <1>11, <2>2, <3>1 DEF Concludes
    <3> QED
      BY <2>1, <3>1 DEF AuditOf
  <2> QED
    BY <1>1, <2>1, <2>2, <2>3, <2>4 DEF Numbered
<1>12. CASE Admits(job[p], t) \/ Asks(job[p], t) \/ Works(job[p], t) \/ GoesToAudit(job[p], t)
  <2>1. /\ t.attempt = job[p].attempt /\ t.of = job[p].of /\ t.key = job[p].key /\ t.strategy = job[p].strategy
        /\ t.h = job[p].h /\ attempts' = attempts /\ audits' = audits
        /\ job[p].pc \in Given
    BY <1>12 DEF Admits, Asks, Works, GoesToAudit, Auditing, Keeps, Holds, Same, Reads, store, Given
  <2>2. (Concluding(t) <=> Concluding(job[p])) /\ (Concluding(t) => t.req = job[p].req)
    BY <1>12 DEF Admits, Asks, Works, GoesToAudit, Auditing, Concluding, Recording, Writing
  <2> QED
    BY <1>1, <2>1, <2>2 DEF Numbered, AuditsWith, Before
<1>13. CASE \E k \in Places(p) : Records(p, job[p], t, k)
  <2>1. attempts' = attempts /\ audits' = audits /\ job[p].pc \in Given
    BY <1>13 DEF Records, Given
  <2>2. CASE t = Idle
    BY <1>1, <1>2, <1>3, <2>1, <2>2, NothingToNumber DEF Given, Writing
  <2>3. CASE t # Idle
    <3>1. /\ t.attempt = job[p].attempt /\ t.of = job[p].of /\ t.key = job[p].key /\ t.strategy = job[p].strategy
          /\ t.h = job[p].h
      BY <1>13, <2>3 DEF Records, Holds, Same
    <3>2. ~Concluding(t) /\ ~Concluding(job[p])
      BY <1>13, <2>3 DEF Records, Concluding, Recording
    <3> QED
      BY <1>1, <2>1, <3>1, <3>2 DEF Numbered, AuditsWith, Before
  <2> QED
    BY <2>2, <2>3
<1> QED
  BY <1>4, <1>5, <1>6, <1>7, <1>8, <1>9, <1>10, <1>11, <1>12, <1>13 DEF Moves, Goes

\* An audit that is saved is about a new attempt, under a new key.
LEMMA AuditNumbers ==
  ASSUME NumberInv, NEW p \in Procs, job[p].pc = "save-audit", audits' = audits \cup {AuditOf(p)},
         UNCHANGED <<handoffs, log, attempts>>
  PROVE  NumbersInv'
<1>1. /\ IInv /\ job[p] \in Job /\ Fits(job[p]) /\ Controlled(job[p]) /\ Numbered(job[p])
      /\ attempts \in Nat
      /\ job[p].attempt \in Nat /\ job[p].of \in Nat /\ job[p].key \in Key /\ job[p].key.n \in Nat
      /\ \A a \in audits : a.attempt \in Nat /\ a.of \in Nat /\ a.key.n \in Nat
      /\ Before(attempts + 1)
  BY Counted
<1>2. PICK b : b = AuditOf(p)
  OBVIOUS
<1>3. b.attempt = job[p].attempt /\ b.of = job[p].of /\ b.key = job[p].key
  BY <1>2 DEF AuditOf
<1>4. /\ job[p].attempt = attempts /\ AuditsWith(job[p].key) = {} /\ Before(attempts)
      /\ job[p].of <= attempts /\ (Recovers(job[p].key) => job[p].key.n <= attempts)
  BY <1>1 DEF Numbered, Given, Concluding, Recording
<1>5. audits' = audits \cup {b} /\ log' = log /\ handoffs' = handoffs /\ attempts' = attempts
  BY <1>2
<1>6. Before(attempts + 1)'
  <2>1. \A a \in audits' : a.attempt < attempts + 1 /\ a.of < attempts + 1 /\ (Recovers(a.key) => a.key.n < attempts + 1)
    BY <1>1, <1>3, <1>4, <1>5 DEF Before
  <2> QED
    BY <1>5, <2>1 DEF Before
<1>7. (\A i \in DOMAIN log : log[i].attempt <= attempts /\ Known(log[i].handoff))'
  BY <1>5 DEF NumberInv, NumbersInv, Known
<1>8. (Status = "applying" => \A a \in audits : Recovers(a.key) => a.key.n # Last.attempt)'
  <2>1. Status' = Status /\ Last' = Last
    BY <1>5, LogSame
  <2>2. Status = "applying" => \A a \in audits : Recovers(a.key) => a.key.n # Last.attempt
    BY DEF NumberInv, NumbersInv
  <2>3. Status = "applying" => ~Recovers(job[p].key)
    <3>1. Judging(job[p]) => Status = "recovery-required"
      BY <1>1 DEF Controlled
    <3>2. Status = "applying" => job[p].strategy = "filesystem"
      BY <1>1, <3>1 DEF Judging, Auditing, Job
    <3> QED
      BY <1>1, <3>2 DEF Numbered
  <2> QED
    BY <1>3, <1>5, <2>1, <2>2, <2>3
<1>9. MaterializedIsAudited'
  BY <1>5 DEF NumberInv, NumbersInv, MaterializedIsAudited
<1>10. OneAuditPerKey'
  <2>1. \A a \in audits : a.key # b.key
    BY <1>3, <1>4 DEF AuditsWith
  <2> QED
    BY <1>5, <2>1 DEF NumberInv, NumbersInv, OneAuditPerKey
<1> QED
  BY <1>6, <1>7, <1>8, <1>9, <1>10 DEF NumbersInv

\* What a record says of an attempt, a handoff and an audit is already true.
LEMMA RecordNumbers ==
  ASSUME NumberInv, NEW p \in Procs, NEW t \in Job, NEW k \in Places(p), Records(p, job[p], t, k)
  PROVE  NumbersInv'
<1>1. /\ IInv /\ job[p] \in Job /\ Fits(job[p]) /\ Controlled(job[p]) /\ Numbered(job[p])
      /\ attempts \in Nat /\ job[p].attempt \in Nat /\ job[p].of \in Nat
  BY Counted
<1>2. /\ job[p].pc = "save-transition" /\ audits' = audits /\ handoffs' = handoffs /\ attempts' = attempts
  BY DEF Records
<1>3. /\ log'[k] = RecordOf(p)
      /\ \A i \in DOMAIN log' : i # k =>
           \E m \in DOMAIN log : (m = IF i < k THEN i ELSE i - 1) /\ log'[i] = log[m]
      /\ \/ Last' = RecordOf(p) /\ Status' = job[p].req
         \/ Last' = Last /\ Status' = Status
  BY <1>1, Recorded DEF NumberInv, ControlInv
<1>4. PICK r : r = RecordOf(p)
  OBVIOUS
<1>5. /\ r.attempt = IF job[p].req = "recovery-required" THEN job[p].of ELSE job[p].attempt
      /\ r.handoff = job[p].h /\ r.to = job[p].req
  BY <1>4 DEF RecordOf
<1>6. \A i \in DOMAIN log' : log'[i] = r \/ \E m \in DOMAIN log : log'[i] = log[m]
  BY <1>3, <1>4
<1>7. Before(attempts + 1)'
  BY <1>2, <1>1, Counted DEF Before
<1>8. (\A i \in DOMAIN log : log[i].attempt <= attempts /\ Known(log[i].handoff))'
  <2>1. r.attempt <= attempts
    <3>1. job[p].attempt = attempts /\ job[p].of <= attempts
      BY <1>1, <1>2 DEF Numbered, Given
    <3> QED
      BY <1>1, <1>5, <3>1
  <2>2. r.handoff \in DOMAIN handoffs
    BY <1>1, <1>2, <1>5 DEF Fits, WithHandoff, Points, Known
  <2>3. \A i \in DOMAIN log : log[i].attempt <= attempts /\ log[i].handoff \in DOMAIN handoffs
    BY DEF NumberInv, NumbersInv, Known
  <2>4. \A i \in DOMAIN log' : log'[i].attempt <= attempts /\ log'[i].handoff \in DOMAIN handoffs
    BY <1>6, <2>1, <2>2, <2>3
  <2> QED
    BY <1>2, <2>4 DEF Known
<1>9. (Status = "applying" => \A a \in audits : Recovers(a.key) => a.key.n # Last.attempt)'
  <2>1. CASE Last' = Last /\ Status' = Status
    BY <1>2, <2>1 DEF NumberInv, NumbersInv
  <2>2. CASE Last' = RecordOf(p) /\ Status' = job[p].req
    <3>1. SUFFICES ASSUME job[p].req = "applying", NEW a \in audits, Recovers(a.key) PROVE a.key.n # r.attempt
      BY <1>2, <1>4, <2>2
    <3>2. r.attempt = attempts /\ Before(attempts)
      BY <1>1, <1>2, <1>5, <3>1 DEF Numbered, Given, Concluding
    <3>3. a.key.n < attempts /\ a.key.n \in Nat
      BY <3>1, <3>2, Counted DEF Before
    <3> QED
      BY <1>1, <3>2, <3>3
  <2> QED
    BY <1>3, <2>1, <2>2
<1>10. MaterializedIsAudited'
  <2>1. r.to = "materialized" =>
          \E a \in audits : a.attempt = r.attempt /\ a.handoff = r.handoff /\ a.outcome = "succeeded"
    <3>1. ASSUME r.to = "materialized" PROVE Concluding(job[p]) /\ job[p].req = "materialized" /\ r.attempt = job[p].attempt
      BY <1>2, <1>5, <3>1 DEF Concluding, Recording
    <3> QED
      BY <1>1, <1>5, <3>1 DEF Numbered
  <2>2. \A i \in DOMAIN log : log[i].to = "materialized" =>
          \E a \in audits : a.attempt = log[i].attempt /\ a.handoff = log[i].handoff /\ a.outcome = "succeeded"
    BY DEF NumberInv, NumbersInv, MaterializedIsAudited
  <2>3. \A i \in DOMAIN log' : log'[i].to = "materialized" =>
          \E a \in audits : a.attempt = log'[i].attempt /\ a.handoff = log'[i].handoff /\ a.outcome = "succeeded"
    BY <1>6, <2>1, <2>2
  <2> QED
    BY <1>2, <2>3 DEF MaterializedIsAudited
<1>11. OneAuditPerKey'
  BY <1>2 DEF NumberInv, NumbersInv, OneAuditPerKey
<1> QED
  BY <1>7, <1>8, <1>9, <1>10, <1>11 DEF NumbersInv

LEMMA NumbersStay ==
  ASSUME NumberInv, UNCHANGED <<log, audits>>, attempts' \in {attempts, attempts + 1},
         handoffs' = handoffs \/ \E h : handoffs' = Append(handoffs, h)
  PROVE  NumbersInv'
<1>1. handoffs \in Seq(Handoff) /\ attempts \in Nat
  BY DEF NumberInv, ControlInv, IInv, TypeOK
<1>2. \A a \in audits : a.attempt \in Nat /\ a.of \in Nat /\ a.key.n \in Nat
  <2>1. \A a \in audits : a \in Audit
    BY DEF NumberInv, ControlInv, IInv, TypeOK
  <2> QED
    BY <2>1 DEF Audit, Key
<1>3. \A i \in DOMAIN log : log[i].attempt \in Nat
  <2>1. \A i \in DOMAIN log : log[i] \in Transition
    BY DEF NumberInv, ControlInv, IInv, TypeOK
  <2> QED
    BY <2>1 DEF Transition
<1>4. Before(attempts + 1)'
  <2>1. Before(attempts + 1)
    BY DEF NumberInv, NumbersInv
  <2> QED
    BY <1>1, <1>2, <2>1 DEF Before
<1>5. \A h : Known(h) => Known(h)'
  BY <1>1 DEF Known
<1>6. (\A i \in DOMAIN log : log[i].attempt <= attempts /\ Known(log[i].handoff))'
  <2>1. \A i \in DOMAIN log : log[i].attempt <= attempts /\ Known(log[i].handoff)
    BY DEF NumberInv, NumbersInv
  <2>2. ASSUME NEW i \in DOMAIN log PROVE log[i].attempt <= attempts' /\ Known(log[i].handoff)'
    BY <1>1, <1>3, <1>5, <2>1
  <2> QED
    BY <2>2
<1>7. (Status = "applying" => \A a \in audits : Recovers(a.key) => a.key.n # Last.attempt)'
  BY LogSame DEF NumberInv, NumbersInv
<1>8. MaterializedIsAudited' /\ OneAuditPerKey'
  BY DEF NumberInv, NumbersInv, MaterializedIsAudited, OneAuditPerKey
<1> QED
  BY <1>4, <1>6, <1>7, <1>8 DEF NumbersInv

LEMMA NumbersMove ==
  ASSUME NumberInv, NEW p \in Procs, NEW t \in Job, Moves(p, t) PROVE NumbersInv'
<1>1. CASE \E k \in Places(p) : Records(p, job[p], t, k)
  BY <1>1, RecordNumbers
<1>2. CASE Concludes(p, job[p], t) /\ job[p].pc = "save-audit" /\ audits' = audits \cup {AuditOf(p)}
  BY <1>2, AuditNumbers DEF Concludes
<1>3. CASE /\ ~\E k \in Places(p) : Records(p, job[p], t, k)
           /\ ~(Concludes(p, job[p], t) /\ job[p].pc = "save-audit" /\ audits' = audits \cup {AuditOf(p)})
  <2>1. /\ UNCHANGED <<log, audits>> /\ attempts' \in {attempts, attempts + 1}
        /\ \/ handoffs' = handoffs
           \/ \E h : handoffs' = Append(handoffs, h)
    BY <1>3 DEF Moves, Goes, Ends, Drafts, Applies, Attempts, Admits, Asks, Works, GoesToAudit,
                Concludes, Recovering, FindsHandoff, FindsStatus, Decides, store, Reads
  <2> QED
    BY <2>1, NumbersStay
<1> QED
  BY <1>1, <1>2, <1>3

\* A command that does not move keeps its attempt and its key, and nobody else
\* takes either.
LEMMA NumberStays ==
  ASSUME NumberInv, OneAtWork', NEW p \in Procs, NEW t \in Job, Moves(p, t),
         NEW q \in Procs, q # p, NEW j \in Job, j = job[q]
  PROVE  Numbered(j)'
<1>1. Numbered(j) /\ attempts \in Nat /\ ControlInv /\ j.of \in Nat /\ j.key.n \in Nat
  BY Counted DEF NumberInv
<1>2. CASE AtWork(j)
  <2>1. audits' = audits /\ attempts' = attempts
    BY <1>1, <1>2, BesideWork DEF ControlInv
  <2> QED
    BY <1>1, <2>1 DEF Numbered, AuditsWith, Before
<1>3. CASE ~AtWork(j)
  <2>1. attempts' \in {attempts, attempts + 1}
    BY DEF Moves, Goes, Ends, Drafts, Applies, Attempts, Admits, Asks, Works, GoesToAudit, Records,
           Concludes, Recovering, FindsHandoff, FindsStatus, Decides, Reads
  <2>2. j.pc \notin Given
    BY <1>3 DEF AtWork, Drafting, Given, Writing
  <2>3. /\ j.of <= attempts' /\ attempts' \in Nat
        /\ j.strategy = "filesystem" => ~Recovers(j.key)
        /\ Recovers(j.key) => j.key.n <= attempts'
    BY <1>1, <2>1 DEF Numbered
  <2> QED
    BY <1>1, <2>2, <2>3, NothingToNumber
<1> QED
  BY <1>2, <1>3

LEMMA InitNumber == Init => NumberInv
<1> SUFFICES ASSUME Init PROVE NumberInv
  OBVIOUS
<1>1. \A p \in Procs : Numbered(job[p])
  BY DEF Init, Numbered, Idle, NoKey, Recovers, Given, Writing, Concluding, Recording
<1>2. NumbersInv
  BY DEF Init, NumbersInv, Before, Status, MaterializedIsAudited, OneAuditPerKey
<1> QED
  BY <1>1, <1>2, InitControl DEF NumberInv

LEMMA NextNumber == NumberInv /\ [Next]_vars /\ OneAtWork' => NumberInv'
<1> SUFFICES ASSUME NumberInv, [Next]_vars, OneAtWork'
             PROVE  (\A q \in Procs : Numbered(job[q])') /\ NumbersInv'
  BY NextControl DEF NumberInv
<1>1. IInv /\ job \in [Procs -> Job]
  BY DEF NumberInv, ControlInv, IInv, TypeOK
<1>2. ASSUME NEW p \in Procs, NEW t \in Job, Moves(p, t)
      PROVE  (\A q \in Procs : Numbered(job[q])') /\ NumbersInv'
  <2>1. Numbered(t)' /\ NumbersInv'
    BY <1>2, NumberedMoves, NumbersMove
  <2>2. ASSUME NEW q \in Procs PROVE Numbered(job[q])'
    <3>1. PICK j : j = job'[q]
      OBVIOUS
    <3>2. CASE q = p
      BY <1>1, <1>2, <2>1, <3>2, Others
    <3>3. CASE q # p
      <4>1. j \in Job /\ j = job[q]
        BY <1>1, <1>2, <3>1, <3>3, Others
      <4>2. Numbered(j)'
        BY <1>2, <3>3, <4>1, NumberStays
      <4> QED
        BY <3>1, <4>2
    <3> QED
      BY <3>2, <3>3
  <2> QED
    BY <2>1, <2>2
<1>3. ASSUME UNCHANGED <<store, job, attempts>> PROVE (\A q \in Procs : Numbered(job[q])') /\ NumbersInv'
  <2>1. ASSUME NEW p \in Procs PROVE Numbered(job[p])'
    <3>1. Numbered(job[p])
      BY DEF NumberInv
    <3> QED
      BY <1>3, <3>1 DEF Numbered, AuditsWith, Before, store
  <2>2. NumbersInv'
    BY <1>3, NumbersStay DEF store
  <2> QED
    BY <2>1, <2>2
<1>4. CASE UNCHANGED vars
  BY <1>3, <1>4 DEF vars
<1>5. CASE Next
  <2>1. CASE \E d \in Contents : Edit(d)
    BY <1>3, <2>1 DEF Edit
  <2> QED
    BY <1>1, <1>2, <1>5, <2>1, NextMoves
<1> QED
  BY <1>4, <1>5

\* Attempts, keys and audits are new when they are taken: the layer on which the
\* theorems about audits rest.
THEOREM NumberInvariance == Spec /\ []OneAtWork => []NumberInv
BY InitNumber, NextNumber, PTL DEF Spec

\* A record that says `materialized` has the audit of its own attempt, for its
\* own handoff, that it succeeded: however commands die and who finishes the story.
THEOREM MaterializedHasItsAudit == Spec /\ []OneAtWork => []MaterializedIsAudited
<1>1. NumberInv => MaterializedIsAudited
  BY DEF NumberInv, NumbersInv
<1> QED
  BY <1>1, NumberInvariance, PTL

\* No key is audited twice, typed or derived, by apply or by recover.
THEOREM KeysAreAuditedOnce == Spec /\ []OneAtWork => []OneAuditPerKey
<1>1. NumberInv => OneAuditPerKey
  BY DEF NumberInv, NumbersInv
<1> QED
  BY <1>1, NumberInvariance, PTL

--------------------------------------------------------------------------------
(* While nobody dies and nothing fails, a key serves one attempt.          *)

\* A crash, an I/O error or an edit that has happened has happened for good.
LEMMA CountsGrow ==
  ASSUME IInv, Next
  PROVE  /\ crashes' = 0 => crashes = 0
         /\ ioErrors' = 0 => ioErrors = 0
         /\ edits' = 0 => edits = 0
<1>0. crashes \in Nat /\ ioErrors \in Nat /\ edits \in Nat
  BY DEF IInv, TypeOK
<1>1. ASSUME NEW p \in Procs, Start(p) \/ Step(p) PROVE UNCHANGED <<crashes, ioErrors, edits>>
  <2>1. CASE Start(p)
    BY <2>1 DEF Start, Propose, Approve, Apply, Recover, counts
  <2>2. CASE ProposeStep(p) \/ ApproveStep(p)
    BY <2>2 DEF ProposeStep, ProposeFindHandoff, ProposePreview, ProposeSupersede, ProposeSave,
       ApproveStep, ApproveEvaluate, ApproveSave, counts
  <2>3. CASE TransitionStep(p) \/ ApplyStep(p)
    BY <2>3 DEF TransitionStep, TransitionEvaluate, TransitionSave, ApplyStep, ApplyCheckKey, ApplyCheckStatus,
       ApplyCheckApprovals, counts
  <2>4. CASE MaterializeStep(p)
    BY <2>4 DEF MaterializeStep, GuardRefuses, ReadBase, Backup, Install, Cleanup, Verify, Discard, counts
  <2>5. CASE AuditStep(p) \/ RecoverStep(p)
    BY <2>5 DEF AuditStep, FindAudit, GuardAudit, SaveAudit, RecoverStep, RecoverFindHandoff, RecoverFindStatus,
       RecoverDecide, counts
  <2> QED
    BY <1>1, <2>1, <2>2, <2>3, <2>4, <2>5 DEF Step
<1>2. CASE UNCHANGED <<crashes, ioErrors, edits>>
  BY <1>2
<1>3. CASE ~UNCHANGED <<crashes, ioErrors, edits>>
  <2>1. \/ \E p \in Procs : IoError(p) \/ AuditIoError(p) \/ Crash(p)
        \/ \E d \in Contents : Edit(d)
    BY <1>1, <1>3 DEF Next
  <2>2. /\ crashes' \in {crashes, crashes + 1}
        /\ ioErrors' \in {ioErrors, ioErrors + 1}
        /\ edits' \in {edits, edits + 1}
    BY <2>1 DEF IoError, AuditIoError, Crash, Edit, counts
  <2> QED
    BY <1>0, <2>2
<1> QED
  BY <1>2, <1>3

KeyInv == NumberInv /\ KeysInv

\* An apply that nothing cuts short is audited before its command does anything else.
LEMMA ApplyingIsAudited ==
  ASSUME NumberInv, NEW p \in Procs, NEW t \in Job, Moves(p, t), Applying(job[p]),
         crashes' = 0, ioErrors' = 0, NEW key, job[p].key = key
  PROVE  Served(key)'
<1>1. /\ AuditsWith(job[p].key) = {} /\ job[p].attempt = attempts
      /\ \A a \in audits : a.attempt < attempts
      /\ attempts \in Nat
  BY Counted DEF Numbered, Applying, Auditing, Concluding, Recording, Given, Before, Writing
<1>2. ~Cut(job[p])
  BY <1>1 DEF Cut
<1>3. job'[p] = t
  BY Typed, Others DEF NumberInv, ControlInv
<1>4. job[p].pc \in {"check-approvals"} \cup Writing \cup {"find-audit", "guard-audit", "save-audit"}
  BY DEF Applying, Auditing
<1>5. CASE Works(job[p], t) \/ GoesToAudit(job[p], t)
  <2>1. Applying(t) /\ t.key = key
    BY <1>5 DEF Works, GoesToAudit, Keeps, Holds, Same, Applying, Auditing
  <2> QED
    BY <1>3, <2>1 DEF Served
<1>6. CASE Concludes(p, job[p], t)
  <2>1. AuditOf(p) \in audits'
    BY <1>1, <1>2, <1>6 DEF Concludes
  <2>2. AuditOf(p).key = key
    BY DEF AuditOf
  <2>3. PICK b \in audits' : b.key = key
    BY <2>1, <2>2
  <2> QED
    BY <2>3 DEF Served, AuditsWith
<1>7. ~Ends(job[p], t)
  BY <1>2 DEF Ends
<1> QED
  BY <1>4, <1>5, <1>6, <1>7 DEF Moves, Goes, Drafts, Drafting, Applies, Attempts, Admits, Asks, Records,
     Recovering, FindsHandoff, FindsStatus, Decides, Writing

\* An audit on record stays there.
LEMMA AuditsGrow ==
  ASSUME NEW p \in Procs, NEW t \in Job, Moves(p, t), NEW key, AuditsWith(key) # {}
  PROVE  Served(key)'
<1>1. audits \subseteq audits'
  BY DEF Moves, Goes, Ends, Drafts, Applies, Attempts, Admits, Asks, Works, GoesToAudit, Records,
                Concludes, Recovering, FindsHandoff, FindsStatus, Decides, store, Reads
<1> QED
  BY <1>1 DEF AuditsWith, Served

LEMMA KeysMove ==
  ASSUME KeyInv, NEW p \in Procs, NEW t \in Job, Moves(p, t), Controlled(t)',
         crashes = 0, ioErrors = 0, crashes' = 0, ioErrors' = 0
  PROVE  /\ \A key \in AppliedKeys' : Served(key)'
         /\ RetriesUseNewKeys'
<1>0. job'[p] = t /\ \A q \in Procs : q # p => job'[q] = job[q]
  BY Typed, Others DEF KeyInv, NumberInv, ControlInv
<1>1. IInv /\ job[p] \in Job /\ Controlled(job[p]) /\ Numbered(job[p]) /\ NumberInv
  BY Counted DEF KeyInv
<1>2. (\A key \in AppliedKeys : Served(key)) /\ RetriesUseNewKeys
  BY DEF KeyInv, KeysInv
<1>3. ASSUME NEW key \in AppliedKeys PROVE Served(key)'
  <2>1. CASE AuditsWith(key) # {}
    BY <2>1, AuditsGrow
  <2>2. CASE Applying(job[p]) /\ job[p].key = key
    BY <1>1, <2>2, ApplyingIsAudited
  <2>3. CASE \E q \in Procs : q # p /\ Applying(job[q]) /\ job[q].key = key
    BY <1>0, <2>3 DEF Served
  <2> QED
    BY <1>2, <2>1, <2>2, <2>3 DEF Served
<1>4. CASE log' = log
  BY <1>2, <1>3, <1>4 DEF RetriesUseNewKeys, AppliedKeys
<1>5. CASE log' # log
  <2>1. PICK k \in Places(p) : Records(p, job[p], t, k)
    BY <1>5 DEF Moves, Goes, Ends, Drafts, Applies, Attempts, Admits, Asks, Works, GoesToAudit,
                Concludes, Recovering, FindsHandoff, FindsStatus, Decides, store, Reads
  <2>2. PICK r : r = RecordOf(p)
    OBVIOUS
  <2>3. /\ k \in DOMAIN log' /\ log'[k] = r
        /\ \A i \in DOMAIN log' : i # k =>
             \E m \in DOMAIN log : (m = IF i < k THEN i ELSE i - 1) /\ log'[i] = log[m]
        /\ DOMAIN log' \subseteq Int /\ k \in Int
    BY <1>1, <2>1, <2>2, Recorded DEF NumberInv, ControlInv
  <2>4. r.to = job[p].req /\ (r.to = "applying" => r.key = job[p].key)
    BY <2>2 DEF RecordOf
  <2>5. ASSUME r.to = "applying" PROVE Served(r.key)'
    <3>1. PICK key : key = r.key
      OBVIOUS
    <3>2. t.pc = "check-approvals" /\ t.key = key
      BY <2>1, <2>4, <2>5, <3>1 DEF Records, Holds, Same
    <3>3. t.strategy = "filesystem"
      BY <3>2 DEF Controlled
    <3>4. Served(key)'
      BY <1>0, <3>2, <3>3 DEF Applying, Served
    <3> QED
      BY <3>1, <3>4
  <2>6. ASSUME NEW i \in DOMAIN log, log[i].to = "applying", r.to = "applying" PROVE log[i].key # r.key
    <3>1. \A q \in Procs : ~Applying(job[q])
      <4>1. AtWork(job[p]) /\ ~Applying(job[p])
        BY <2>1 DEF Records, Applying, Auditing, Writing, AtWork, Drafting
      <4>2. \A q \in Procs : Applying(job[q]) => AtWork(job[q])
        BY DEF Applying, Auditing, Writing, AtWork, Drafting
      <4> QED
        BY <1>1, <4>1, <4>2 DEF NumberInv, ControlInv, OneAtWork
    <3>2. AuditsWith(job[p].key) = {}
      BY <1>1, <2>1, <2>4, <2>6 DEF Records, Numbered, Given, Concluding
    <3>3. log[i].key = job[p].key => job[p].key \in AppliedKeys
      BY <1>1, <2>6 DEF AppliedKeys, Job
    <3> QED
      BY <1>2, <2>4, <2>6, <3>1, <3>2, <3>3 DEF Served
  <2>7. ASSUME NEW key \in AppliedKeys' PROVE Served(key)'
    <3>1. PICK i \in DOMAIN log' : log'[i].to = "applying" /\ log'[i].key = key
      BY DEF AppliedKeys
    <3>2. CASE i = k
      BY <2>3, <2>5, <3>1, <3>2
    <3>3. CASE i # k
      <4>1. PICK m \in DOMAIN log : log'[i] = log[m]
        BY <2>3, <3>3
      <4>2. key \in AppliedKeys
        <5>1. key \in Key
          BY DEF AppliedKeys
        <5> QED
          BY <3>1, <4>1, <5>1 DEF AppliedKeys
      <4> QED
        BY <1>3, <4>2
    <3> QED
      BY <3>2, <3>3
  <2>8. ASSUME NEW i \in DOMAIN log', NEW j \in DOMAIN log', log'[i].to = "applying", log'[j].to = "applying",
               log'[i].key = log'[j].key, i # j
        PROVE  FALSE
    <3>1. CASE i = k
      BY <2>3, <2>6, <2>8, <3>1
    <3>2. CASE j = k
      BY <2>3, <2>6, <2>8, <3>2
    <3>3. CASE i # k /\ j # k
      <4>1. PICK m \in DOMAIN log : (m = IF i < k THEN i ELSE i - 1) /\ log'[i] = log[m]
        BY <2>3, <3>3
      <4>2. PICK n \in DOMAIN log : (n = IF j < k THEN j ELSE j - 1) /\ log'[j] = log[n]
        BY <2>3, <3>3
      <4>3. m = n
        BY <1>2, <2>8, <4>1, <4>2 DEF RetriesUseNewKeys
      <4>4. i \in Int /\ j \in Int /\ k \in Int
        BY <2>3
      <4> QED
        BY <2>8, <3>3, <4>1, <4>2, <4>3, <4>4
    <3> QED
      BY <3>1, <3>2, <3>3
  <2> QED
    BY <2>7, <2>8 DEF RetriesUseNewKeys
<1> QED
  BY <1>4, <1>5

LEMMA NextKey == KeyInv /\ [Next]_vars /\ OneAtWork' => KeyInv'
<1> SUFFICES ASSUME KeyInv, [Next]_vars, OneAtWork' PROVE KeysInv'
  BY NextNumber DEF KeyInv
<1>1. NumberInv /\ ControlInv /\ IInv /\ job \in [Procs -> Job]
  BY DEF KeyInv, NumberInv, ControlInv, IInv, TypeOK
<1>2. SUFFICES ASSUME crashes' = 0, ioErrors' = 0
      PROVE  (\A key \in AppliedKeys' : Served(key)') /\ RetriesUseNewKeys'
  BY DEF KeysInv
<1>3. crashes = 0 /\ ioErrors = 0
  BY <1>1, <1>2, CountsGrow DEF vars, counts
<1>4. ASSUME NEW p \in Procs, NEW t \in Job, Moves(p, t)
      PROVE  (\A key \in AppliedKeys' : Served(key)') /\ RetriesUseNewKeys'
  <2>1. Controlled(t)'
    BY <1>1, <1>4, ControlMoves
  <2> QED
    BY <1>2, <1>3, <1>4, <2>1, KeysMove
<1>5. CASE UNCHANGED <<store, job>>
  <2>1. (\A key \in AppliedKeys : Served(key)) /\ RetriesUseNewKeys
    BY <1>3 DEF KeyInv, KeysInv
  <2> QED
    BY <1>5, <2>1 DEF RetriesUseNewKeys, AuditsWith, store, AppliedKeys, Served
<1>6. CASE Next /\ ~UNCHANGED <<store, job>>
  <2>1. PICK p \in Procs, t \in Job : Moves(p, t)
    BY <1>1, <1>6, NextMoves DEF Edit
  <2> QED
    BY <1>4, <2>1
<1> QED
  BY <1>5, <1>6 DEF vars, store

\* No two attempts reach `applying` under one key while none dies and nothing fails.
THEOREM RetriesTakeNewKeys ==
  Spec /\ []OneAtWork => [](crashes = 0 /\ ioErrors = 0 => RetriesUseNewKeys)
<1>1. Init => KeyInv
  <2>1. Init => KeysInv
    BY DEF Init, KeysInv, RetriesUseNewKeys, AppliedKeys
  <2> QED
    BY <2>1, InitNumber DEF KeyInv
<1>2. KeyInv => (crashes = 0 /\ ioErrors = 0 => RetriesUseNewKeys)
  BY DEF KeyInv, KeysInv
<1> QED
  BY <1>1, <1>2, NextKey, PTL DEF Spec

--------------------------------------------------------------------------------
(* What the provider holds while nobody edits the Change.                  *)

HeldInv == NumberInv /\ SwapInv

\* What a step may rely on.
LEMMA Held ==
  ASSUME HeldInv, NEW p \in Procs
  PROVE  /\ NumberInv /\ ControlInv /\ IInv /\ job[p] \in Job /\ Fits(job[p]) /\ Controlled(job[p])
         /\ handoffs \in Seq(Handoff)
         /\ edits = 0 => Observes(job[p])
<1>1. /\ NumberInv /\ IInv /\ job[p] \in Job /\ Fits(job[p]) /\ Controlled(job[p])
  BY Counted DEF HeldInv
<1>2. edits = 0 => Observes(job[p])
  BY DEF HeldInv, SwapInv
<1> QED
  BY <1>1, <1>2 DEF NumberInv, IInv, TypeOK

LEMMA WorksObserves ==
  ASSUME HeldInv, NEW p \in Procs, NEW t \in Job, Works(job[p], t), edits = 0
  PROVE  Observes(t)'
<1>1. Observes(job[p]) /\ Controlled(job[p]) /\ job[p] \in Job
  BY Held
<1>2. /\ t.strategy = "filesystem" /\ t.h = job[p].h /\ handoffs' = handoffs
      /\ t.pc \in Writing \cup {"find-audit"} /\ Swaps(job[p], t)
  BY <1>1 DEF Works, Same, Controlled, store
<1>3. /\ job[p].pc = "backup" => content = handoffs[job[p].h].base /\ content # Absent
      /\ job[p].pc = "install" => content = Absent
      /\ job[p].pc \in {"cleanup", "verify"} => content = handoffs[job[p].h].digest
  BY <1>1 DEF Observes
<1>4. t.pc = "backup" => content' = handoffs[t.h].base /\ content' # Absent
  BY <1>2 DEF Swaps
<1>5. t.pc = "install" => content' = Absent
  BY <1>2 DEF Swaps
<1>6. t.pc \in {"cleanup", "verify"} => content' = handoffs[t.h].digest
  BY <1>2, <1>3 DEF Swaps
<1>7. t.pc # "discard"
  BY <1>2, <1>3 DEF Swaps
<1>8. t.pc = "find-audit" /\ t.outcome = "succeeded" => content' = handoffs[t.h].digest
  BY <1>2 DEF Swaps
<1> QED
  BY <1>2, <1>4, <1>5, <1>6, <1>7, <1>8 DEF Observes, Auditing, Concluding, Recording, Writing

LEMMA ObservesMoves ==
  ASSUME HeldInv, NEW p \in Procs, NEW t \in Job, Moves(p, t), edits = 0
  PROVE  Observes(t)'
<1>1. Observes(job[p]) /\ Controlled(job[p]) /\ job[p] \in Job /\ Fits(job[p])
  BY Held
<1>2. CASE Works(job[p], t)
  BY <1>2, WorksObserves
<1>3. CASE Ends(job[p], t) \/ t = Idle
  BY <1>3 DEF Ends, Idle, AtWork, Observes, Auditing, Concluding, Recording
<1>4. CASE Drafts(job[p], t)
  <2>1. t.pc \in Drafting
    BY <1>4 DEF Drafts
  <2> QED
    BY <2>1 DEF Drafting, AtWork, Observes, Auditing, Concluding, Recording, Given, Writing
<1>5. CASE Applies(job[p], t) \/ Attempts(job[p], t) \/ Admits(job[p], t)
  <2>1. t.strategy = "filesystem"
    BY <1>1, <1>5 DEF Applies, Attempts, Admits, Keeps, Holds, Same, Controlled
  <2> QED
    BY <1>5, <2>1 DEF Applies, Attempts, Admits, Observes, Auditing, Concluding, Recording
<1>6. CASE Recovering(job[p], t) \/ FindsHandoff(job[p], t) \/ FindsStatus(job[p], t)
  <2>1. t.seen = content
    BY <1>1, <1>6 DEF Recovering, FindsHandoff, FindsStatus, Observes, Fits, AtWork, Drafting
  <2> QED
    BY <1>6, <2>1 DEF Recovering, FindsHandoff, FindsStatus, Reads, Observes, Auditing, Concluding, Recording, Given, Writing
<1>7. CASE Decides(job[p], t)
  <2>1. t.seen = content /\ t.strategy = "recovery" /\ content' = content /\ handoffs' = handoffs /\ t.h = job[p].h
    BY <1>1, <1>7 DEF Decides, Observes, Fits, store, AtWork, Drafting
  <2>2. PICK decision \in {"materialized", "apply-failed"} :
          /\ decision = Reconcile(job[p].from, job[p].seen, handoffs[job[p].h].base, handoffs[job[p].h].digest)
          /\ t.outcome = IF decision = "materialized" THEN "succeeded" ELSE "failed"
    BY <1>7, Zenon DEF Decides
  <2>3. job[p].seen = content
    BY <1>7, <2>1 DEF Decides
  <2>4. content = IF t.outcome = "succeeded" THEN handoffs[t.h].digest ELSE handoffs[t.h].base
    BY <2>1, <2>2, <2>3 DEF Reconcile
  <2> QED
    BY <1>7, <2>1, <2>4 DEF Decides, Observes
<1>8. CASE Asks(job[p], t) \/ GoesToAudit(job[p], t) \/ Concludes(p, job[p], t)
           \/ (t # Idle /\ \E k \in Places(p) : Records(p, job[p], t, k))
  <2>1. /\ t.strategy = job[p].strategy /\ t.outcome = job[p].outcome /\ t.seen = job[p].seen /\ t.h = job[p].h
        /\ content' = content /\ handoffs' = handoffs
        /\ job[p].pc \in Given /\ AtWork(job[p])
    BY <1>8 DEF Asks, GoesToAudit, Concludes, Records, Keeps, Holds, Same, Reads, store, Given, Auditing, AtWork, Drafting
  <2>2. (Auditing(t) \/ Concluding(t)) /\ t.strategy = "filesystem" => Auditing(job[p]) \/ Concluding(job[p])
    <3>1. job[p].pc = "save-transition" /\ job[p].req = "recovery-required" => job[p].strategy = "recovery"
      BY <1>1 DEF Controlled, Opening, Recording
    <3> QED
      BY <1>8, <2>1, <3>1 DEF Asks, GoesToAudit, Concludes, Records, Auditing, Concluding, Recording
  <2>3. t.pc \in {"transition", "save-transition", "guard-audit", "save-audit", "check-approvals", "find-audit"}
    BY <1>8 DEF Asks, GoesToAudit, Concludes, Records
  <2> QED
    BY <1>1, <2>1, <2>2, <2>3 DEF Observes
<1> QED
  BY <1>2, <1>3, <1>4, <1>5, <1>6, <1>7, <1>8 DEF Moves, Goes

\* Beside the one at work nobody touches what the provider holds.
LEMMA ObservesStays ==
  ASSUME HeldInv, OneAtWork', NEW p \in Procs, NEW t \in Job, Moves(p, t), edits = 0,
         NEW q \in Procs, q # p, NEW j \in Job, j = job[q]
  PROVE  Observes(j)'
<1>1. Observes(j) /\ Fits(j) /\ IInv /\ ControlInv
  BY Held
<1>2. CASE AtWork(j)
  <2>1. content' = content /\ \A h : Known(h) => handoffs'[h] = handoffs[h]
    BY <1>1, <1>2, BesideWork DEF ControlInv
  <2>2. \/ j.pc \in Given \cup {"backup", "cleanup", "verify"}
        \/ Auditing(j) \/ Concluding(j)
        => handoffs'[j.h] = handoffs[j.h]
    BY <1>1, <2>1 DEF Fits, WithHandoff, Points, Given, Writing, Auditing, Concluding, Recording
  <2> QED
    BY <1>1, <2>1, <2>2 DEF Observes
<1>3. CASE ~AtWork(j)
  BY <1>3 DEF AtWork, Drafting, Observes, Auditing, Concluding, Recording, Given, Writing
<1> QED
  BY <1>2, <1>3

\* The record that says `materialized` is saved when it is true.
Stands == Status = "materialized" => content = handoffs[Last.handoff].digest

LEMMA RecordStands ==
  ASSUME HeldInv, NEW p \in Procs, NEW t \in Job, NEW k \in Places(p), Records(p, job[p], t, k), edits = 0
  PROVE  Stands'
<1>1. IInv /\ Observes(job[p]) /\ Controlled(job[p]) /\ job[p] \in Job
  BY Held
<1>2. job[p].pc = "save-transition" /\ content' = content /\ handoffs' = handoffs
  BY DEF Records
<1>3. \/ Last' = RecordOf(p) /\ Status' = job[p].req
      \/ Last' = Last /\ Status' = Status
  BY <1>1, Recorded DEF HeldInv, NumberInv, ControlInv
<1>4. CASE Last' = Last /\ Status' = Status
  BY <1>2, <1>4 DEF HeldInv, SwapInv, Stands
<1>5. CASE Last' = RecordOf(p) /\ Status' = job[p].req
  <2>1. RecordOf(p).handoff = job[p].h
    BY DEF RecordOf
  <2>2. job[p].strategy \in {"filesystem", "recovery"}
    BY <1>1 DEF Job
  <2>3. job[p].req = "materialized" => Concluding(job[p]) /\ job[p].outcome = "succeeded"
    BY <1>1, <1>2 DEF Controlled, Concluding, Recording
  <2>4. job[p].req = "materialized" => content = handoffs[job[p].h].digest
    BY <1>1, <1>2, <2>2, <2>3 DEF Observes, Given
  <2> QED
    BY <1>2, <1>5, <2>1, <2>4 DEF Stands
<1> QED
  BY <1>3, <1>4, <1>5

LEMMA StandsStill ==
  ASSUME HeldInv, NEW p \in Procs, NEW t \in Job, Moves(p, t), edits = 0
  PROVE  Stands'
<1>1. /\ IInv /\ Controlled(job[p]) /\ job[p] \in Job /\ handoffs \in Seq(Handoff)
  BY Held
<1>2. CASE \E k \in Places(p) : Records(p, job[p], t, k)
  BY <1>2, RecordStands
<1>3. CASE ~\E k \in Places(p) : Records(p, job[p], t, k)
  <2>1. log' = log /\ Status' = Status /\ Last' = Last
    BY <1>3, LogSame DEF Moves, Goes, Ends, Drafts, Applies, Attempts, Admits, Asks, Works, GoesToAudit,
                Concludes, Recovering, FindsHandoff, FindsStatus, Decides, store, Reads
  <2>2. CASE Works(job[p], t)
    <3>1. Applying(job[p])
      BY <1>1, <2>2 DEF Works, Applying, Controlled
    <3>2. Status \in {"apply-ready", "applying"}
      BY <1>1, <3>1 DEF Controlled
    <3> QED
      BY <2>1, <3>2 DEF Stands
  <2>3. CASE ~Works(job[p], t)
    <3>1. /\ content' = content
          /\ handoffs' = handoffs \/ handoffs' = Append(handoffs, job[p].draft)
      BY <1>3, <2>3 DEF Moves, Goes, Ends, Drafts, Applies, Attempts, Admits, Asks, GoesToAudit,
                Concludes, Recovering, FindsHandoff, FindsStatus, Decides, store, Reads
    <3>2. PICK d \in Handoff : d = job[p].draft
      BY <1>1 DEF Job
    <3>3. \A i \in DOMAIN handoffs : handoffs'[i] = handoffs[i]
      BY <1>1, <3>1, <3>2
    <3>4. Status # "none" => Last.handoff \in DOMAIN handoffs
      <4>1. Status # "none" => Len(log) \in DOMAIN log
        BY <1>1 DEF Status, IInv, TypeOK
      <4> QED
        BY <4>1 DEF Last, HeldInv, NumberInv, NumbersInv, Known
    <3>5. Status = "materialized" => content = handoffs[Last.handoff].digest
      BY DEF HeldInv, SwapInv
    <3> QED
      BY <2>1, <3>1, <3>3, <3>4, <3>5 DEF Stands
  <2> QED
    BY <2>2, <2>3
<1> QED
  BY <1>2, <1>3

LEMMA NextHeld == HeldInv /\ [Next]_vars /\ OneAtWork' => HeldInv'
<1> SUFFICES ASSUME HeldInv, [Next]_vars, OneAtWork' PROVE SwapInv'
  BY NextNumber DEF HeldInv
<1>1. IInv /\ job \in [Procs -> Job]
  BY DEF HeldInv, NumberInv, ControlInv, IInv, TypeOK
<1>2. SUFFICES ASSUME edits' = 0
      PROVE  (\A q \in Procs : Observes(job[q])') /\ Stands'
  BY Zenon DEF SwapInv, Stands
<1>3. edits = 0
  BY <1>1, <1>2, CountsGrow DEF vars, counts
<1>4. ASSUME NEW p \in Procs, NEW t \in Job, Moves(p, t), NEW q \in Procs PROVE Observes(job[q])'
  <2>1. PICK j : j = job'[q]
    OBVIOUS
  <2>2. CASE q = p
    <3>1. j = t
      BY <1>1, <1>4, <2>1, <2>2, Others
    <3>2. Observes(j)'
      BY <1>3, <1>4, <3>1, ObservesMoves
    <3> QED
      BY <2>1, <3>2
  <2>3. CASE q # p
    <3>1. j \in Job /\ j = job[q]
      BY <1>1, <1>4, <2>1, <2>3, Others
    <3>2. Observes(j)'
      BY <1>3, <1>4, <2>3, <3>1, ObservesStays
    <3> QED
      BY <2>1, <3>2
  <2> QED
    BY <2>2, <2>3
<1>5. CASE UNCHANGED vars
  <2>1. Status' = Status /\ Last' = Last
    BY <1>5, LogSame DEF vars, store
  <2>2. ASSUME NEW q \in Procs PROVE Observes(job[q])'
    <3>1. Observes(job[q])
      BY <1>3, Held
    <3> QED
      BY <1>5, <3>1 DEF vars, store, Observes
  <2>3. Stands'
    BY <1>3, <1>5, <2>1 DEF vars, store, HeldInv, SwapInv, Stands
  <2> QED
    BY <2>2, <2>3
<1>6. CASE Next
  <2>1. ~\E d \in Contents : Edit(d)
    BY <1>1, <1>2, <1>3 DEF Edit
  <2>2. PICK p \in Procs, t \in Job : Moves(p, t)
    BY <1>1, <1>6, <2>1, NextMoves
  <2> QED
    BY <1>3, <1>4, <2>2, StandsStill
<1> QED
  BY <1>5, <1>6

LEMMA InitHeld == Init => HeldInv
<1> SUFFICES ASSUME Init PROVE SwapInv
  BY InitNumber DEF HeldInv
<1>1. \A p \in Procs : Observes(job[p])
  BY DEF Init, Idle, AtWork, Observes, Auditing, Concluding, Recording
<1>2. Status = "none"
  BY DEF Init, Status
<1> QED
  BY <1>1, <1>2 DEF SwapInv

\* Where nobody edits, the provider holds what the point of the one at work and the
\* records say: the layer on which the theorems about content rest.
THEOREM HeldInvariance == Spec /\ []OneAtWork => []HeldInv
BY InitHeld, NextHeld, PTL DEF Spec

\* Without edits, a Change that is `materialized` is what the handoff proposed.
THEOREM MaterializedStands ==
  Spec /\ []OneAtWork => [](edits = 0 /\ Status = "materialized" => content = handoffs[Last.handoff].digest)
<1>1. HeldInv => (edits = 0 /\ Status = "materialized" => content = handoffs[Last.handoff].digest)
  BY DEF HeldInv, SwapInv
<1> QED
  BY <1>1, HeldInvariance, PTL

--------------------------------------------------------------------------------
(* What recover concludes about an apply that was audited as succeeded.    *)

VerdictInv == HeldInv /\ WonInv

\* What an audited success leaves behind, as long as there is one handoff.
LEMMA Winning ==
  ASSUME VerdictInv, NEW p \in Procs, edits = 0, Len(handoffs) <= 1, Won
  PROVE  /\ Len(handoffs) = 1 /\ content = handoffs[1].digest
         /\ Status \notin {"none", "apply-failed"}
         /\ Agrees(job[p])
<1>1. handoffs \in Seq(Handoff) /\ IInv
  BY Held DEF VerdictInv
<1>2. PICK a \in audits : a.handoff \in DOMAIN handoffs
  BY <1>1 DEF Won, IInv, AuditInv, Known
<1>3. Len(handoffs) = 1
  <2>1. Len(handoffs) \in Nat /\ DOMAIN handoffs = 1 .. Len(handoffs)
    BY <1>1
  <2>2. Len(handoffs) # 0
    BY <1>2, <2>1
  <2> QED
    BY <2>1, <2>2
<1> QED
  BY <1>3 DEF VerdictInv, WonInv

\* After it, every command concludes the same.
LEMMA AgreesStill ==
  ASSUME VerdictInv, NEW p \in Procs, NEW t \in Job, Moves(p, t), edits = 0, Len(handoffs) <= 1, Won
  PROVE  Agrees(t)
<1>1. /\ Observes(job[p]) /\ Controlled(job[p]) /\ job[p] \in Job /\ Fits(job[p])
  BY Held DEF VerdictInv
<1>2. /\ Len(handoffs) = 1 /\ content = handoffs[1].digest
      /\ Status \notin {"none", "apply-failed"} /\ Agrees(job[p])
  BY Winning
<1>3. CASE Ends(job[p], t) \/ Drafts(job[p], t) \/ Applies(job[p], t) \/ Attempts(job[p], t)
           \/ Recovering(job[p], t) \/ FindsHandoff(job[p], t) \/ FindsStatus(job[p], t)
  BY <1>3 DEF Ends, Drafts, Drafting, Applies, Attempts, Recovering, FindsHandoff, FindsStatus, Idle,
              Agrees, Given, Writing
<1>4. ~Admits(job[p], t)
  BY <1>2 DEF Admits
<1>5. ~Works(job[p], t)
  BY <1>1, <1>2 DEF Works, Agrees, Controlled, Given, Concluding, Recording, Writing
<1>6. CASE Asks(job[p], t) \/ GoesToAudit(job[p], t) \/ Concludes(p, job[p], t)
           \/ (t # Idle /\ \E k \in Places(p) : Records(p, job[p], t, k))
  <2>1. t.strategy = job[p].strategy /\ t.outcome = job[p].outcome /\ job[p].pc \in Given \ {"check-status"}
    BY <1>6 DEF Asks, GoesToAudit, Concludes, Records, Keeps, Holds, Same, Given, Auditing
  <2>2. Concluding(job[p]) => Concluding(t)
    BY <1>6 DEF Asks, GoesToAudit, Concludes, Records, Concluding, Recording, Auditing
  <2> QED
    BY <1>2, <2>1, <2>2 DEF Agrees
<1>7. CASE t = Idle
  BY <1>7 DEF Idle, Agrees, Given, Writing
<1>8. CASE Decides(job[p], t)
  <2>0. Known(job[p].h) /\ DOMAIN handoffs = {1}
    <3>1. handoffs \in Seq(Handoff)
      BY Held DEF VerdictInv
    <3> QED
      BY <1>1, <1>2, <1>8, <3>1 DEF Decides, Fits, WithHandoff, Points
  <2>1. job[p].h = 1 /\ job[p].seen = content /\ t.strategy = "recovery"
    BY <1>1, <1>2, <1>8, <2>0 DEF Decides, Observes, Fits, Known, AtWork, Drafting
  <2>2. PICK decision \in {"materialized", "apply-failed"} :
          /\ decision = Reconcile(job[p].from, job[p].seen, handoffs[job[p].h].base, handoffs[job[p].h].digest)
          /\ t.outcome = IF decision = "materialized" THEN "succeeded" ELSE "failed"
    BY <1>8, Zenon DEF Decides
  <2>3. t.outcome = "succeeded"
    BY <1>2, <2>1, <2>2 DEF Reconcile
  <2> QED
    BY <2>1, <2>3 DEF Agrees
<1> QED
  BY <1>3, <1>4, <1>5, <1>6, <1>7, <1>8 DEF Moves, Goes

\* What it wrote stays, and no record takes it back.
LEMMA WonStays ==
  ASSUME VerdictInv, NEW p \in Procs, NEW t \in Job, Moves(p, t), edits = 0, Len(handoffs') <= 1,
         Len(handoffs) <= 1, Won
  PROVE  content' = handoffs'[1].digest /\ Status' \notin {"none", "apply-failed"}
<1>1. /\ Controlled(job[p]) /\ job[p] \in Job /\ IInv /\ handoffs \in Seq(Handoff)
  BY Held DEF VerdictInv
<1>2. /\ Len(handoffs) = 1 /\ content = handoffs[1].digest
      /\ Status \notin {"none", "apply-failed"} /\ Agrees(job[p])
  BY Winning
<1>3. ~Works(job[p], t)
  BY <1>1, <1>2 DEF Works, Agrees, Controlled, Given, Concluding, Recording, Writing
<1>4. /\ content' = content
      /\ handoffs' = handoffs \/ handoffs' = Append(handoffs, job[p].draft)
  BY <1>3 DEF Moves, Goes, Ends, Drafts, Applies, Attempts, Admits, Asks, Records, GoesToAudit,
              Concludes, Recovering, FindsHandoff, FindsStatus, Decides, store, Reads
<1>5. handoffs' = handoffs
  <2>1. PICK d \in Handoff : d = job[p].draft
    BY <1>1 DEF Job
  <2>2. Len(Append(handoffs, d)) = Len(handoffs) + 1
    BY <1>1
  <2> QED
    BY <1>2, <1>4, <2>1, <2>2
<1>6. Status' \notin {"none", "apply-failed"}
  <2>1. CASE \E k \in Places(p) : Records(p, job[p], t, k)
    <3>1. PICK k \in Places(p) : Records(p, job[p], t, k)
      BY <2>1
    <3>2. Status' = job[p].req \/ Status' = Status
      BY <1>1, <3>1, Recorded DEF VerdictInv, HeldInv, NumberInv, ControlInv
    <3>3. job[p].pc = "save-transition" /\ job[p].req # "none" /\ job[p].outcome = "succeeded"
      BY <1>1, <1>2, <3>1 DEF Records, Job, Statuses, Agrees, Given
    <3>4. job[p].req # "apply-failed"
      BY <1>1, <3>3 DEF Controlled, Concluding, Recording
    <3> QED
      BY <1>2, <3>2, <3>3, <3>4
  <2>2. CASE ~\E k \in Places(p) : Records(p, job[p], t, k)
    <3>1. log' = log
      BY <2>2 DEF Moves, Goes, Ends, Drafts, Applies, Attempts, Admits, Asks, Works, GoesToAudit,
                  Concludes, Recovering, FindsHandoff, FindsStatus, Decides, store, Reads
    <3> QED
      BY <1>2, <3>1, LogSame
  <2> QED
    BY <2>1, <2>2
<1> QED
  BY <1>2, <1>4, <1>5, <1>6

\* An apply is audited as succeeded while the provider holds what it wrote.
LEMMA FirstWon ==
  ASSUME VerdictInv, NEW p \in Procs, NEW t \in Job, Concludes(p, job[p], t), job[p].pc = "save-audit",
         edits = 0, Len(handoffs) <= 1, job[p].strategy = "filesystem", job[p].outcome = "succeeded"
  PROVE  /\ content' = handoffs'[1].digest /\ Status' \notin {"none", "apply-failed"}
         /\ Agrees(t)
<1>1. /\ Observes(job[p]) /\ Controlled(job[p]) /\ Fits(job[p]) /\ handoffs \in Seq(Handoff)
  BY Held DEF VerdictInv
<1>2. job[p].h = 1
  <2>1. job[p].h \in DOMAIN handoffs
    BY <1>1 DEF Fits, Known, WithHandoff, Points
  <2>2. Len(handoffs) \in Nat /\ DOMAIN handoffs = 1 .. Len(handoffs)
    BY <1>1
  <2> QED
    BY <2>1, <2>2
<1>3. Auditing(job[p]) /\ Applying(job[p])
  BY DEF Auditing, Applying
<1>4. content = handoffs[1].digest /\ Status \in {"apply-ready", "applying"}
  BY <1>1, <1>2, <1>3 DEF Observes, Controlled
<1>5. content' = content /\ handoffs' = handoffs /\ Status' = Status
  BY LogSame DEF Concludes
<1>6. Agrees(t)
  BY DEF Concludes, Keeps, Holds, Same, Agrees, Concluding, Recording
<1> QED
  BY <1>4, <1>5, <1>6

\* A verdict is only ever added where it agrees.
LEMMA VerdictsAgree ==
  ASSUME VerdictInv, NEW p \in Procs, job[p].pc = "save-audit", audits' = audits \cup {AuditOf(p)},
         edits = 0, Len(handoffs) <= 1
  PROVE  RecoveryAgreesWithAudit'
<1>1. Numbered(job[p]) /\ attempts \in Nat /\ (\A a \in audits : a.attempt \in Nat /\ a.of \in Nat)
  BY Counted DEF VerdictInv, HeldInv
<1>2. PICK n : n = AuditOf(p)
  OBVIOUS
<1>3. n.attempt = job[p].attempt /\ n.strategy = job[p].strategy /\ n.outcome = job[p].outcome
  BY <1>2 DEF AuditOf
<1>4. job[p].attempt = attempts /\ Before(attempts)
  BY <1>1 DEF Numbered, Given, Concluding, Recording
<1>5. \A b \in audits : b.of # n.attempt
  BY <1>1, <1>3, <1>4 DEF Before
<1>6. Won /\ n.strategy = "recovery" => n.outcome = "succeeded"
  BY <1>3, Winning DEF Agrees, Given
<1>7. RecoveryAgreesWithAudit
  BY DEF VerdictInv, WonInv
<1>8. SUFFICES ASSUME NEW a \in audits \cup {n}, NEW b \in audits \cup {n},
                      a.strategy = "filesystem" /\ a.outcome = "succeeded",
                      b.strategy = "recovery" /\ b.of = a.attempt
               PROVE  b.outcome = "succeeded"
  BY <1>2 DEF RecoveryAgreesWithAudit
<1>9. CASE b = n
  BY <1>6, <1>8, <1>9 DEF Won
<1>10. CASE b \in audits /\ a \in audits
  BY <1>7, <1>8, <1>10 DEF RecoveryAgreesWithAudit
<1>11. CASE b \in audits /\ a = n
  BY <1>5, <1>8, <1>11
<1> QED
  BY <1>9, <1>10, <1>11

LEMMA NextVerdict == VerdictInv /\ [Next]_vars /\ OneAtWork' => VerdictInv'
<1> SUFFICES ASSUME VerdictInv, [Next]_vars, OneAtWork' PROVE WonInv'
  BY NextHeld DEF VerdictInv
<1>1. HeldInv /\ ControlInv /\ IInv /\ OneAtWork /\ job \in [Procs -> Job] /\ handoffs \in Seq(Handoff)
  BY DEF VerdictInv, HeldInv, NumberInv, ControlInv, IInv, TypeOK
<1>2. SUFFICES ASSUME edits' = 0, Len(handoffs') <= 1
      PROVE  /\ RecoveryAgreesWithAudit'
             /\ Won' => /\ content' = handoffs'[1].digest /\ Status' \notin {"none", "apply-failed"}
                        /\ \A p \in Procs : Agrees(job[p])'
  BY Zenon DEF WonInv
<1>3. edits = 0
  BY <1>1, <1>2, CountsGrow DEF vars, counts
<1>4. ASSUME NEW p \in Procs, NEW t \in Job, Moves(p, t)
      PROVE  /\ RecoveryAgreesWithAudit'
             /\ Won' => /\ content' = handoffs'[1].digest /\ Status' \notin {"none", "apply-failed"}
                        /\ \A q \in Procs : Agrees(job[q])'
  <2>1. job'[p] = t /\ \A q \in Procs : q # p => job'[q] = job[q] /\ job[q] \in Job
    BY <1>1, <1>4, Others
  <2>2. Len(handoffs) <= 1
    <3>1. handoffs' = handoffs \/ handoffs' = Append(handoffs, job[p].draft)
      BY <1>4 DEF Moves, Goes, Ends, Drafts, Applies, Attempts, Admits, Asks, Records, Works, GoesToAudit,
              Concludes, Recovering, FindsHandoff, FindsStatus, Decides, store, Reads
    <3>2. job[p] \in Job
      BY <1>1
    <3>3. PICK d \in Handoff : d = job[p].draft
      BY <3>2 DEF Job
    <3>4. Len(Append(handoffs, d)) = Len(handoffs) + 1 /\ Len(handoffs) \in Nat
      BY <1>1
    <3> QED
      BY <1>2, <3>1, <3>3, <3>4
  <2>3. \/ audits' = audits
        \/ Concludes(p, job[p], t) /\ job[p].pc = "save-audit" /\ audits' = audits \cup {AuditOf(p)}
    BY <1>4 DEF Moves, Goes, Ends, Drafts, Applies, Attempts, Admits, Asks, Records, Works, GoesToAudit,
              Concludes, Recovering, FindsHandoff, FindsStatus, Decides, store, Reads
  <2>4. RecoveryAgreesWithAudit'
    <3>1. CASE audits' = audits
      BY <1>3, <2>2, <3>1 DEF VerdictInv, WonInv, RecoveryAgreesWithAudit
    <3> QED
      BY <1>3, <2>2, <2>3, <3>1, VerdictsAgree
  <2>5. CASE Won
    <3>1. content' = handoffs'[1].digest /\ Status' \notin {"none", "apply-failed"} /\ Agrees(t)
      BY <1>2, <1>3, <1>4, <2>2, <2>5, WonStays, AgreesStill
    <3>2. \A q \in Procs : Agrees(job[q])
      BY <1>3, <2>2, <2>5, Winning
    <3>3. \A q \in Procs : Agrees(job'[q])
      BY <2>1, <3>1, <3>2
    <3> QED
      BY <2>4, <3>1, <3>3 DEF Agrees, Concluding, Recording
  <2>6. CASE ~Won /\ Won'
    <3>1. Concludes(p, job[p], t) /\ job[p].pc = "save-audit" /\ audits' = audits \cup {AuditOf(p)}
      BY <2>3, <2>6 DEF Won
    <3>2. AuditOf(p).strategy = "filesystem" /\ AuditOf(p).outcome = "succeeded"
      BY <2>6, <3>1 DEF Won
    <3>3. job[p].strategy = "filesystem" /\ job[p].outcome = "succeeded"
      BY <3>2 DEF AuditOf
    <3>4. content' = handoffs'[1].digest /\ Status' \notin {"none", "apply-failed"} /\ Agrees(t)
      BY <1>3, <2>2, <3>1, <3>3, FirstWon
    <3>5. AtWork(job[p])
      BY <3>1 DEF AtWork, Drafting
    <3>6. \A q \in Procs : q # p => ~AtWork(job[q])
      BY <1>1, <3>5 DEF OneAtWork
    <3>7. \A q \in Procs : q # p => Agrees(job[q])
      BY <3>6 DEF AtWork, Drafting, Agrees, Given, Writing
    <3>8. \A q \in Procs : Agrees(job'[q])
      BY <2>1, <3>4, <3>7
    <3> QED
      BY <2>4, <3>4, <3>8 DEF Agrees, Concluding, Recording
  <2> QED
    BY <2>4, <2>5, <2>6
<1>5. CASE UNCHANGED vars
  <2>1. Status' = Status /\ Len(handoffs) <= 1
    BY <1>2, <1>5, LogSame DEF vars, store
  <2> QED
    BY <1>3, <1>5, <2>1 DEF vars, store, VerdictInv, WonInv, RecoveryAgreesWithAudit, Won, Agrees, Concluding, Recording
<1>6. CASE Next
  <2>1. ~\E d \in Contents : Edit(d)
    BY <1>1, <1>2, <1>3 DEF Edit
  <2>2. PICK p \in Procs, t \in Job : Moves(p, t)
    BY <1>1, <1>6, <2>1, NextMoves
  <2> QED
    BY <1>4, <2>2
<1> QED
  BY <1>5, <1>6

LEMMA InitVerdict == Init => VerdictInv
<1> SUFFICES ASSUME Init PROVE WonInv
  BY InitHeld DEF VerdictInv
<1> QED
  BY DEF Init, WonInv, Won, RecoveryAgreesWithAudit

\* The verdicts of recover follow those of the applies: the layers below hold, and
\* what was audited as succeeded is there and is concluded.
THEOREM VerdictInvariance == Spec /\ []OneAtWork => []VerdictInv
BY InitVerdict, NextVerdict, PTL DEF Spec

\* While nobody edits the Change and it was proposed once, recover never concludes
\* `apply-failed` about an attempt whose success is on record: it finds what that
\* attempt wrote, however it was interrupted after its audit.
THEOREM VerdictsAreKept ==
  Spec /\ []OneAtWork => [](edits = 0 /\ Len(handoffs) <= 1 => RecoveryAgreesWithAudit)
<1>1. VerdictInv => (edits = 0 /\ Len(handoffs) <= 1 => RecoveryAgreesWithAudit)
  BY DEF VerdictInv, WonInv
<1> QED
  BY <1>1, VerdictInvariance, PTL

--------------------------------------------------------------------------------
(* Decisions that wait while a command writes.                             *)

\* The command is past the approvals and has not written yet.
AboutToWrite(j) == j.pc \in {"read-base", "backup", "install"}

DecisionsWait == [][(\E p \in Procs : AboutToWrite(job[p])) => approvals' = approvals]_vars

\* What it is about to write was not vetoed when it evaluated the approvals, and
\* is not now.
Clear(j) == AboutToWrite(j) => ~Vetoed(j.h)

ClearInv == IInv /\ \A p \in Procs : Clear(job[p])

\* A veto is about a handoff, which keeps its place.
LEMMA ClearStays ==
  ASSUME NEW j, Clear(j), AboutToWrite(j) => approvals' = approvals /\ handoffs'[j.h] = handoffs[j.h]
  PROVE  Clear(j)'
BY DEF Clear, AboutToWrite, Vetoed

\* A command is only about to write what nobody has vetoed.
LEMMA ClearMoves ==
  ASSUME NEW p \in Procs, NEW t \in Job, Moves(p, t), Clear(job[p]) PROVE Clear(t)'
<1>1. CASE Works(job[p], t)
  <2>1. AboutToWrite(t) => ~Vetoed(job[p].h)
    BY <1>1 DEF Works, Swaps, AboutToWrite, Clear, Writing
  <2>2. handoffs' = handoffs /\ approvals' = approvals /\ t.h = job[p].h
    BY <1>1 DEF Works, store
  <2> QED
    BY <2>1, <2>2 DEF Clear, AboutToWrite, Vetoed
<1>2. CASE ~Works(job[p], t)
  <2>1. ~AboutToWrite(t)
    BY <1>2 DEF Moves, Goes, Ends, Idle, Drafts, Drafting, Applies, Attempts, Admits, Asks, Records, GoesToAudit,
                Concludes, Recovering, FindsHandoff, FindsStatus, Decides, AboutToWrite
  <2> QED
    BY <2>1 DEF Clear, AboutToWrite
<1> QED
  BY <1>1, <1>2

LEMMA NextClear ==
  ASSUME ClearInv, [Next]_vars,
         [(\E p \in Procs : AboutToWrite(job[p])) => approvals' = approvals]_vars
  PROVE  ClearInv'
<1>1. IInv' /\ IInv /\ job \in [Procs -> Job] /\ handoffs \in Seq(Handoff)
  BY NextIInv DEF ClearInv, IInv, TypeOK
<1>2. \A q \in Procs : Clear(job[q]) /\ (AboutToWrite(job[q]) => Known(job[q].h))
  BY <1>1 DEF ClearInv, IInv, Fits, AboutToWrite, WithHandoff, Points
<1>3. ASSUME NEW p \in Procs, NEW t \in Job, Moves(p, t), NEW q \in Procs, Next PROVE Clear(job[q])'
  <2>1. CASE q = p
    <3>1. job'[q] = t
      BY <1>1, <1>3, <2>1 DEF Moves
    <3> QED
      BY <1>2, <1>3, <2>1, <3>1, ClearMoves
  <2>2. CASE q # p
    <3>1. job'[q] = job[q]
      BY <1>1, <1>3, <2>2 DEF Moves
    <3>2. AboutToWrite(job[q]) => handoffs'[job[q].h] = handoffs[job[q].h]
      BY <1>1, <1>2, <1>3, HandoffsStand
    <3>3. AboutToWrite(job[q]) => approvals' = approvals
      BY DEF vars, store
    <3> QED
      BY <1>2, <3>1, <3>2, <3>3, ClearStays
  <2> QED
    BY <2>1, <2>2
<1>4. CASE (\E d \in Contents : Edit(d)) \/ UNCHANGED vars
  <2>1. UNCHANGED <<handoffs, approvals, job>>
    BY <1>4 DEF Edit, vars, store
  <2> QED
    BY <1>1, <1>2, <2>1 DEF ClearInv, Clear, AboutToWrite, Vetoed
<1> QED
  BY <1>1, <1>3, <1>4, NextMoves DEF ClearInv

LEMMA InitClear == Init => ClearInv
BY InitIInv DEF Init, Idle, ClearInv, Clear, AboutToWrite

\* Nothing is installed whose snapshot was rejected or sent back, however often
\* it is proposed, approved once more or retried and whoever applies beside it,
\* unless the veto came between the approvals and the write.
THEOREM VetoesAreHeeded == Spec /\ DecisionsWait => NoVetoedWrite
<1>1. ClearInv /\ [Next]_vars => [\A p \in Procs : Installs(p) => ~Vetoed(job[p].h)]_vars
  BY DEF ClearInv, Clear, AboutToWrite, Installs, At
<1> QED
  BY <1>1, InitClear, NextClear, PTL DEF Spec, DecisionsWait, NoVetoedWrite

--------------------------------------------------------------------------------
(* Proposals that wait while an apply swaps the Change.                    *)

Proposing == {"find-handoff", "preview", "supersede", "save-handoff"}

\* The command is about to set the Change aside, or to put the new one in place.
Swapping(j) == j.pc \in {"backup", "install"}

SwapsApart == \A p, q \in Procs : Swapping(job[p]) => job[q].pc \notin Proposing

\* While nobody edits the Change and file operations do not fail: a draft is based
\* on what the provider holds ...
Based(j) == j.pc \in Proposing => j.draft.base = content

\* The apply has not written, or failed to.
Unwritten(j) ==
  \/ j.pc \in {"check-key", "check-status"} /\ Status \in {"none", "apply-failed"}
  \/ Admitting(j) \/ j.pc \in {"check-approvals", "read-base"}
  \/ j.outcome = "failed" /\ (Auditing(j) \/ Concluding(j))

\* ... and so is the handoff of an apply until it is written, with every later one,
\* and what was proposed since a recovery began ...
Untouched(j) ==
  /\ j.strategy = "filesystem" /\ Unwritten(j) =>
       \A h \in DOMAIN handoffs : h >= j.h => handoffs[h].base = content
  /\ j.strategy = "recovery" /\ j.pc \in WithHandoff =>
       \A h \in DOMAIN handoffs : h > j.h => handoffs[h].base = content

\* ... and again what was not written.
Told ==
  /\ Status = "apply-failed" => content = handoffs[Last.handoff].base
  /\ Status \in {"none", "apply-failed"} /\ handoffs # <<>> => content = handoffs[Len(handoffs)].base

BaseInv ==
  edits = 0 /\ ioErrors = 0 => (\A p \in Procs : Based(job[p]) /\ Untouched(job[p])) /\ Told

ApartInv == SwapsApart /\ HeldInv /\ BaseInv

\* What a step may rely on.
LEMMA Apart ==
  ASSUME ApartInv, edits = 0, ioErrors = 0, NEW p \in Procs
  PROVE  /\ IInv /\ ControlInv /\ job[p] \in Job /\ handoffs \in Seq(Handoff)
         /\ Fits(job[p]) /\ Controlled(job[p]) /\ Observes(job[p])
         /\ Based(job[p]) /\ Untouched(job[p]) /\ Told
BY Held DEF ApartInv, BaseInv

\* What the provider holds changes in a swap only.
LEMMA OnlySwapsWrite ==
  ASSUME ApartInv, edits = 0, ioErrors = 0, ioErrors' = 0, NEW p \in Procs, NEW t \in Job, Moves(p, t),
         ~Swapping(job[p])
  PROVE  content' = content
<1>1. CASE Works(job[p], t)
  <2>1. job[p].pc # "discard"
    BY Apart DEF Observes
  <2> QED
    BY <1>1, <2>1 DEF Works, Swaps, GivesUp, Swapping
<1>2. CASE ~Works(job[p], t)
  BY <1>2 DEF Moves, Goes, Ends, Drafts, Applies, Attempts, Admits, Asks, Records, GoesToAudit, Concludes,
              Recovering, FindsHandoff, FindsStatus, Decides, Reads
<1> QED
  BY <1>1, <1>2

\* What comes on record as a handoff is based on what the provider holds.
LEMMA HandoffsAreBased ==
  ASSUME ApartInv, edits = 0, ioErrors = 0, NEW p \in Procs, NEW t \in Job, Moves(p, t)
  PROVE  \A h \in DOMAIN handoffs' :
           \/ h \in DOMAIN handoffs /\ handoffs'[h] = handoffs[h]
           \/ handoffs'[h].base = content
<1>1. job[p] \in Job /\ handoffs \in Seq(Handoff) /\ Based(job[p])
  BY Apart
<1>2. \/ handoffs' = handoffs
      \/ job[p].pc = "save-handoff" /\ handoffs' = Append(handoffs, job[p].draft)
  BY DEF Moves, Goes, Ends, Drafts, Applies, Attempts, Admits, Asks, Records, Works, GoesToAudit, Concludes,
         Recovering, FindsHandoff, FindsStatus, Decides, Reads, store
<1>3. PICK d \in Handoff : d = job[p].draft
  BY <1>1 DEF Job
<1>4. job[p].pc = "save-handoff" => d.base = content
  BY <1>1, <1>3 DEF Based, Proposing
<1> QED
  BY <1>1, <1>2, <1>3, <1>4

LEMMA BasedMoves ==
  ASSUME NEW p \in Procs, NEW t \in Job, Moves(p, t), Based(job[p]) PROVE Based(t)'
<1>1. CASE Drafts(job[p], t)
  <2>1. content' = content
    BY <1>1 DEF Drafts, Reads
  <2> QED
    BY <1>1, <2>1 DEF Drafts, Based, Proposing
<1>2. CASE ~Drafts(job[p], t)
  BY <1>2 DEF Based, Proposing, Moves, Goes, Ends, Idle, Applies, Attempts, Admits, Asks, Records, Works,
              GoesToAudit, Auditing, Concludes, Recovering, FindsHandoff, FindsStatus, Decides, Writing, Holds
<1> QED
  BY <1>1, <1>2

\* Nobody proposes while another swaps.
LEMMA BasedStays ==
  ASSUME ApartInv, edits = 0, ioErrors = 0, ioErrors' = 0, NEW p \in Procs, NEW t \in Job, Moves(p, t),
         NEW q \in Procs, NEW j \in Job, j = job[q]
  PROVE  Based(j)'
<1>1. Based(j)
  BY Apart
<1>2. CASE j.pc \in Proposing
  <2>1. ~Swapping(job[p])
    BY <1>2 DEF ApartInv, SwapsApart
  <2> QED
    BY <1>1, <2>1, OnlySwapsWrite DEF Based
<1>3. CASE j.pc \notin Proposing
  BY <1>3 DEF Based
<1> QED
  BY <1>2, <1>3

LEMMA UntouchedMoves ==
  ASSUME ApartInv, NEW p \in Procs, NEW t \in Job, Moves(p, t), edits = 0, ioErrors = 0, ioErrors' = 0
  PROVE  Untouched(t)'
<1>1. /\ Observes(job[p]) /\ Controlled(job[p]) /\ job[p] \in Job /\ Fits(job[p])
      /\ Untouched(job[p]) /\ Told /\ handoffs \in Seq(Handoff)
  BY Apart
<1>2. CASE Works(job[p], t)
  <2>1. /\ t.strategy = "filesystem" /\ job[p].strategy = "filesystem" /\ t.h = job[p].h /\ handoffs' = handoffs
        /\ t.pc \in Writing \cup {"find-audit"} /\ Swaps(job[p], t)
    BY <1>1, <1>2 DEF Works, Same, Controlled, store
  <2>2. /\ job[p].pc = "backup" => content # Absent
        /\ job[p].pc = "install" => content = Absent
        /\ job[p].pc # "discard"
    BY <1>1 DEF Observes
  <2>3. t.pc = "read-base" \/ (t.pc = "find-audit" /\ t.outcome = "failed") =>
          content' = content /\ job[p].pc \in {"check-approvals", "read-base"}
    BY <2>1, <2>2 DEF Swaps, GivesUp
  <2>4. Unwritten(t)' => t.pc = "read-base" \/ (t.pc = "find-audit" /\ t.outcome = "failed")
    BY <2>1 DEF Unwritten, Admitting, Auditing, Concluding, Recording, Writing
  <2>5. job[p].pc \in {"check-approvals", "read-base"} => Unwritten(job[p])
    BY DEF Unwritten
  <2> QED
    BY <1>1, <2>1, <2>3, <2>4, <2>5 DEF Untouched
<1>3. CASE Ends(job[p], t) \/ Drafts(job[p], t) \/ Recovering(job[p], t) \/ t = Idle
  <2>1. t.pc \in Drafting \cup {"idle", "recover-handoff"}
    BY <1>3 DEF Ends, Drafts, Recovering, Idle
  <2> QED
    BY <2>1 DEF Untouched, Unwritten, Drafting, WithHandoff, Auditing, Admitting, Concluding, Recording
<1>4. CASE Applies(job[p], t)
  <2>1. /\ t.pc = "check-key" /\ t.strategy = "filesystem" /\ t.h = Len(handoffs)
        /\ content' = content /\ handoffs' = handoffs /\ Status' = Status
    BY <1>4, LogSame DEF Applies, Reads, store
  <2>2. \A h \in DOMAIN handoffs : h >= Len(handoffs) => h = Len(handoffs) /\ handoffs # <<>>
    BY <1>1
  <2>3. Unwritten(t)' => Status \in {"none", "apply-failed"}
    BY <2>1 DEF Unwritten, Admitting, Auditing, Concluding, Recording
  <2> QED
    BY <1>1, <2>1, <2>2, <2>3 DEF Untouched, Told
<1>5. CASE FindsHandoff(job[p], t)
  <2>1. /\ t.pc = "recover-status" /\ t.strategy = "recovery" /\ t.h = Len(handoffs) /\ handoffs' = handoffs
    BY <1>1, <1>5 DEF FindsHandoff, Same, Fits, Reads, store
  <2> QED
    BY <1>1, <2>1 DEF Untouched
<1>6. CASE FindsStatus(job[p], t) \/ Decides(job[p], t)
  <2>1. /\ t.strategy = "recovery" /\ job[p].strategy = "recovery" /\ t.h = job[p].h
        /\ content' = content /\ handoffs' = handoffs /\ job[p].pc \in WithHandoff
    BY <1>1, <1>6 DEF FindsStatus, Decides, Fits, Reads, store, WithHandoff, Points
  <2> QED
    BY <1>1, <2>1 DEF Untouched
<1>7. CASE Attempts(job[p], t) \/ Admits(job[p], t)
  <2>1. /\ t.strategy = "filesystem" /\ job[p].strategy = "filesystem" /\ t.h = job[p].h
        /\ content' = content /\ handoffs' = handoffs /\ Status' = Status
        /\ job[p].pc \in {"check-key", "check-status"}
    BY <1>1, <1>7, LogSame DEF Attempts, Admits, Keeps, Holds, Same, Controlled, Reads, store
  <2>2. Unwritten(t)' => Unwritten(job[p])
    BY <1>7, <2>1 DEF Unwritten, Attempts, Admits, Admitting, Auditing, Concluding, Recording
  <2> QED
    BY <1>1, <2>1, <2>2 DEF Untouched
<1>8. CASE Asks(job[p], t) \/ GoesToAudit(job[p], t) \/ Concludes(p, job[p], t)
           \/ (t # Idle /\ \E k \in Places(p) : Records(p, job[p], t, k))
  <2>1. /\ t.strategy = job[p].strategy /\ t.outcome = job[p].outcome /\ t.h = job[p].h
        /\ content' = content /\ handoffs' = handoffs /\ job[p].pc \in WithHandoff
    BY <1>8 DEF Asks, GoesToAudit, Concludes, Records, Keeps, Holds, Same, Reads, store, Auditing, WithHandoff, Points
  <2>2. job[p].pc = "save-transition" /\ job[p].req = "recovery-required" => job[p].strategy = "recovery"
    BY <1>1 DEF Controlled, Opening, Recording
  <2>3. /\ Admitting(t) \/ t.pc = "check-approvals" => Admitting(job[p])
        /\ t.strategy = "filesystem" /\ (Auditing(t) \/ Concluding(t)) => Auditing(job[p]) \/ Concluding(job[p])
        /\ t.pc \notin {"check-key", "check-status", "read-base"}
    BY <1>8, <2>1, <2>2 DEF Asks, GoesToAudit, Concludes, Records, Auditing, Admitting, Concluding, Recording
  <2>4. t.strategy = "filesystem" /\ Unwritten(t)' => Unwritten(job[p])
    BY <2>1, <2>3 DEF Unwritten, Auditing, Admitting, Concluding, Recording
  <2> QED
    BY <1>1, <2>1, <2>4 DEF Untouched
<1> QED
  BY <1>2, <1>3, <1>4, <1>5, <1>6, <1>7, <1>8 DEF Moves, Goes

\* Beside the one at work only drafts come on record, based on what is there.
LEMMA UntouchedStays ==
  ASSUME ApartInv, OneAtWork', edits = 0, ioErrors = 0, NEW p \in Procs, NEW t \in Job, Moves(p, t),
         NEW q \in Procs, q # p, NEW j \in Job, j = job[q]
  PROVE  Untouched(j)'
<1>1. Untouched(j) /\ IInv /\ ControlInv
  BY Apart
<1>2. CASE AtWork(j)
  <2>1. content' = content /\ Status' = Status
    BY <1>1, <1>2, BesideWork DEF ControlInv
  <2>2. Unwritten(j)' <=> Unwritten(j)
    BY <2>1 DEF Unwritten, Auditing, Admitting, Concluding, Recording
  <2> QED
    BY <1>1, <2>1, <2>2, HandoffsAreBased DEF Untouched
<1>3. CASE ~AtWork(j)
  BY <1>3 DEF AtWork, Drafting, Untouched, Unwritten, WithHandoff, Points, Auditing, Admitting, Concluding, Recording
<1> QED
  BY <1>2, <1>3

LEMMA RecordsTell ==
  ASSUME ApartInv, NEW p \in Procs, NEW t \in Job, NEW k \in Places(p), Records(p, job[p], t, k),
         edits = 0, ioErrors = 0
  PROVE  Told'
<1>1. /\ IInv /\ Observes(job[p]) /\ Controlled(job[p]) /\ job[p] \in Job /\ Fits(job[p])
      /\ Untouched(job[p]) /\ Told /\ handoffs \in Seq(Handoff)
  BY Apart
<1>2. /\ job[p].pc = "save-transition" /\ content' = content /\ handoffs' = handoffs
  BY DEF Records
<1>3. \/ Last' = RecordOf(p) /\ Status' = job[p].req
      \/ Last' = Last /\ Status' = Status
  BY <1>1, Recorded DEF ApartInv, HeldInv, NumberInv, ControlInv
<1>4. CASE Last' = Last /\ Status' = Status
  BY <1>1, <1>2, <1>4 DEF Told
<1>5. CASE Last' = RecordOf(p) /\ Status' = job[p].req
  <2>1. RecordOf(p).handoff = job[p].h /\ job[p].h \in DOMAIN handoffs /\ job[p].pc \in WithHandoff
    BY <1>1, <1>2 DEF RecordOf, Fits, Known, WithHandoff, Points
  <2>2. job[p].strategy \in {"filesystem", "recovery"} /\ job[p].outcome \in {"succeeded", "failed"} /\ job[p].req # "none"
    BY <1>1 DEF Job, Statuses
  <2>3. ASSUME job[p].req = "apply-failed"
        PROVE  \A h \in DOMAIN handoffs : h >= job[p].h => handoffs[h].base = content
    <3>1. job[p].outcome = "failed" /\ Concluding(job[p])
      BY <1>1, <1>2, <2>2, <2>3 DEF Controlled, Concluding, Recording
    <3>2. CASE job[p].strategy = "recovery"
      <4>1. content = handoffs[job[p].h].base
        BY <1>1, <1>2, <3>1, <3>2 DEF Observes, Given
      <4> QED
        BY <1>1, <2>1, <3>2, <4>1 DEF Untouched
    <3>3. CASE job[p].strategy = "filesystem"
      BY <1>1, <3>1, <3>3 DEF Untouched, Unwritten
    <3> QED
      BY <2>2, <3>2, <3>3
  <2>4. Len(handoffs) \in DOMAIN handoffs /\ Len(handoffs) >= job[p].h
    BY <1>1, <2>1
  <2>5. Last'.handoff = job[p].h
    BY <1>5, <2>1
  <2> QED
    BY <1>1, <1>2, <1>5, <2>1, <2>2, <2>3, <2>4, <2>5 DEF Told
<1> QED
  BY <1>3, <1>4, <1>5

LEMMA TellsStill ==
  ASSUME ApartInv, NEW p \in Procs, NEW t \in Job, Moves(p, t), edits = 0, ioErrors = 0
  PROVE  Told'
<1>1. IInv /\ Controlled(job[p]) /\ job[p] \in Job /\ handoffs \in Seq(Handoff) /\ Told
  BY Apart
<1>2. CASE \E k \in Places(p) : Records(p, job[p], t, k)
  BY <1>2, RecordsTell
<1>3. CASE ~\E k \in Places(p) : Records(p, job[p], t, k)
  <2>1. log' = log /\ Status' = Status /\ Last' = Last
    BY <1>3, LogSame DEF Moves, Goes, Ends, Drafts, Applies, Attempts, Admits, Asks, Works, GoesToAudit,
                Concludes, Recovering, FindsHandoff, FindsStatus, Decides, store, Reads
  <2>2. CASE Works(job[p], t)
    <3>1. Applying(job[p])
      BY <1>1, <2>2 DEF Works, Applying, Controlled
    <3>2. Status \in {"apply-ready", "applying"}
      BY <1>1, <3>1 DEF Controlled
    <3> QED
      BY <2>1, <3>2 DEF Told
  <2>3. CASE ~Works(job[p], t)
    <3>1. content' = content
      BY <1>3, <2>3 DEF Moves, Goes, Ends, Drafts, Applies, Attempts, Admits, Asks, GoesToAudit,
                Concludes, Recovering, FindsHandoff, FindsStatus, Decides, Reads
    <3>2. Status # "none" => Last.handoff \in DOMAIN handoffs
      <4>1. Status # "none" => Len(log) \in DOMAIN log
        BY <1>1 DEF Status, IInv, TypeOK
      <4> QED
        BY <4>1 DEF Last, ApartInv, HeldInv, NumberInv, NumbersInv, Known
    <3>3. \A h \in DOMAIN handoffs : handoffs'[h] = handoffs[h]
      BY <1>1, HandoffsStand DEF Known
    <3>4. ASSUME handoffs' # <<>>, Status \in {"none", "apply-failed"} PROVE handoffs'[Len(handoffs')].base = content
      <4>1. CASE handoffs' = handoffs
        BY <1>1, <3>4, <4>1 DEF Told
      <4>2. CASE handoffs' # handoffs
        <5>1. PICK d \in Handoff : handoffs' = Append(handoffs, d)
          BY <1>1, <1>3, <4>2 DEF Moves, Goes, Ends, Drafts, Applies, Attempts, Admits, Asks, Works, GoesToAudit,
                Concludes, Recovering, FindsHandoff, FindsStatus, Decides, store, Reads, Job
        <5>2. Len(handoffs') \in DOMAIN handoffs' /\ Len(handoffs') \notin DOMAIN handoffs
          BY <1>1, <5>1
        <5> QED
          BY <5>2, HandoffsAreBased
      <4> QED
        BY <4>1, <4>2
    <3> QED
      BY <1>1, <2>1, <3>1, <3>2, <3>3, <3>4 DEF Told
  <2> QED
    BY <2>2, <2>3
<1> QED
  BY <1>2, <1>3

LEMMA NextApart == ApartInv /\ [Next]_vars /\ OneAtWork' /\ SwapsApart' => ApartInv'
<1> SUFFICES ASSUME ApartInv, [Next]_vars, OneAtWork', SwapsApart' PROVE BaseInv'
  BY NextHeld DEF ApartInv
<1>1. IInv /\ job \in [Procs -> Job]
  BY DEF ApartInv, HeldInv, NumberInv, ControlInv, IInv, TypeOK
<1>2. SUFFICES ASSUME edits' = 0, ioErrors' = 0
      PROVE  (\A q \in Procs : Based(job[q])' /\ Untouched(job[q])') /\ Told'
  BY Zenon DEF BaseInv
<1>3. edits = 0 /\ ioErrors = 0
  BY <1>1, <1>2, CountsGrow DEF vars, counts
<1>4. ASSUME NEW p \in Procs, NEW t \in Job, Moves(p, t), NEW q \in Procs
      PROVE  Based(job[q])' /\ Untouched(job[q])'
  <2>1. PICK j : j = job'[q]
    OBVIOUS
  <2>2. CASE q = p
    <3>1. j = t
      BY <1>1, <1>4, <2>1, <2>2, Others
    <3>2. Based(j)' /\ Untouched(j)'
      BY <1>2, <1>3, <1>4, <3>1, Apart, BasedMoves, UntouchedMoves
    <3> QED
      BY <2>1, <3>2
  <2>3. CASE q # p
    <3>1. j \in Job /\ j = job[q]
      BY <1>1, <1>4, <2>1, <2>3, Others
    <3>2. Based(j)' /\ Untouched(j)'
      BY <1>2, <1>3, <1>4, <2>3, <3>1, BasedStays, UntouchedStays
    <3> QED
      BY <2>1, <3>2
  <2> QED
    BY <2>2, <2>3
<1>5. CASE UNCHANGED vars
  <2>1. Status' = Status /\ Last' = Last
    BY <1>5, LogSame DEF vars, store
  <2>2. ASSUME NEW q \in Procs PROVE Based(job[q])' /\ Untouched(job[q])'
    <3>1. Based(job[q]) /\ Untouched(job[q])
      BY <1>3, Apart
    <3> QED
      BY <1>5, <2>1, <3>1 DEF vars, store, Based, Untouched, Unwritten, Admitting, Auditing, Concluding, Recording
  <2>3. Told'
    BY <1>3, <1>5, <2>1 DEF vars, store, ApartInv, BaseInv, Told
  <2> QED
    BY <2>2, <2>3
<1>6. CASE Next
  <2>1. ~\E d \in Contents : Edit(d)
    BY <1>1, <1>2, <1>3 DEF Edit
  <2>2. PICK p \in Procs, t \in Job : Moves(p, t)
    BY <1>1, <1>6, <2>1, NextMoves
  <2> QED
    BY <1>3, <1>4, <2>2, TellsStill
<1> QED
  BY <1>5, <1>6

LEMMA InitApart == Init => ApartInv
<1> SUFFICES ASSUME Init PROVE SwapsApart /\ BaseInv
  BY InitHeld DEF ApartInv
<1>1. ASSUME NEW p \in Procs PROVE ~Swapping(job[p]) /\ Based(job[p]) /\ Untouched(job[p])
  BY DEF Init, Idle, Swapping, Based, Proposing, Untouched, Unwritten, WithHandoff, Auditing, Admitting, Concluding, Recording
<1>2. Told
  BY DEF Init, Status, Told
<1> QED
  BY <1>1, <1>2 DEF SwapsApart, BaseInv

\* Where proposals wait for swaps besides, what a handoff was reviewed against stays
\* where it was until it is written.
THEOREM ApartInvariance == Spec /\ []OneAtWork /\ []SwapsApart => []ApartInv
BY InitApart, NextApart, PTL DEF Spec

\* Without edits, the status says what the provider holds.
THEOREM TheStatusIsTrue == Spec /\ []OneAtWork /\ []SwapsApart => []StatusIsTrue
<1>1. ApartInv => StatusIsTrue
  <2> SUFFICES ASSUME ApartInv, edits = 0, log # <<>>
               PROVE  /\ Status = "materialized" => content = handoffs[Last.handoff].digest
                      /\ Quiet /\ Status = "apply-failed" /\ ioErrors = 0 /\ content = handoffs[Last.handoff].digest
                           => handoffs[Last.handoff].base = handoffs[Last.handoff].digest
    BY DEF StatusIsTrue, Last
  <2> QED
    BY DEF ApartInv, HeldInv, SwapInv, BaseInv, Told
<1> QED
  BY <1>1, ApartInvariance, PTL

================================================================================
