--------------------------- MODULE WorkItemFlowProofs ---------------------------
(***************************************************************************)
(* For any number of terminals, WorkItems, revisions and commands: what was*)
(* executed was in scope, what is verified has its evidence, what is done  *)
(* was authorized, and what is announced is allowed, however commands,     *)
(* edits and crashes overlap.                                              *)
(***************************************************************************)
EXTENDS WorkItemFlowProps, Recursion

\* Two terminals type evidence ids of their own.  Only what is verified depends
\* on it: of two commands that save one id at once, the later replaces the record
\* of the earlier, whatever report was made of it since.
OwnIds == \A p, q \in Procs : p # q => EvidenceIds[p] \cap EvidenceIds[q] = {}

Scope == {s \in Selection : s.reqs # {} /\ s.reqs \subseteq ReqsOf[s.spec]}
ScopedTrace == {t \in Trace : t.reqs # {} /\ t.reqs \subseteq ReqsOf[t.spec]}
AnyReport == [trace : Nat, outcome : VerificationOutcomes, criteria : SUBSET Criterion]

\* A report that says `verified` has its evidence among `records`.
Backed(r, records) ==
  r.outcome = "verified" =>
    \A c \in r.criteria, k \in EvidenceKinds : k \in c.kinds =>
      \E e \in records : /\ e.trace = r.trace
                         /\ e.subject = c.subject /\ e.kind = k /\ e.outcome = "passed"

Sound(r) ==
  r \in AnyReport /\ r.trace \in DOMAIN traces /\ (OwnIds => Backed(r, evidence))

Decided(a) ==
  /\ a.report \in DOMAIN reports
  /\ a.decision = "authorize-completion" => CompletedBy(a)

\* What a command may rely on at each point.
Fits(p, j) ==
  /\ j.pc \in {"find-selection", "read-source"} => j.item \in Items
  /\ j.pc \in {"find-selection", "read-source", "save-binding"} => j.binding \in Binding
  /\ j.pc \in {"read-source", "save-selection"} => j.selection \in Scope
  /\ j.pc = "run" => j.trace \in ScopedTrace
  /\ j.pc = "save-evidence" => /\ j.evidence.id \in EvidenceIds[p]
                               /\ j.evidence.outcome \in EvidenceOutcomes
                               /\ OwnIds => \A e \in evidence : e.id # j.evidence.id
  /\ j.pc = "save-plan" => j.plan.criteria \subseteq Criterion
  /\ j.pc = "save-report" => Sound(j.report)
  /\ j.pc \in {"save-done", "save-authorization"} => Decided(j.authorization)
  /\ j.pc = "save-done" => CompletedBy(j.authorization)

\* What is on disk.
Readable ==
  /\ source \in [spec : Revisions, change : ChangeRevisions]
  /\ item \in [Items -> Statuses]
  /\ binding \in [Items -> Binding \cup {None}]
  /\ selection \in [Items -> Scope \cup {None}]
  /\ traces \in Seq(ScopedTrace)
  /\ reports \in Seq(AnyReport)

Consistent ==
  /\ \A e \in evidence : e.outcome \in EvidenceOutcomes
  /\ \A plan \in plans : plan.criteria \subseteq Criterion
  /\ \A r \in DOMAIN reports : Sound(reports[r])
  /\ \A a \in authorizations : Decided(a)
  /\ DoneIsAuthorized

JobsFit == /\ job = [p \in Procs |-> job[p]]
           /\ \A p \in Procs : Fits(p, job[p])

FlowInv == Readable /\ Consistent /\ JobsFit /\ crashes \in Nat

--------------------------------------------------------------------------------
(* The store only grows                                                    *)

\* What a step of `p` may do to the records that others rely on.
Grows(p) ==
  /\ DOMAIN traces \subseteq DOMAIN traces'
  /\ \A t \in DOMAIN traces : traces'[t] = traces[t]
  /\ DOMAIN reports \subseteq DOMAIN reports'
  /\ \A r \in DOMAIN reports : reports'[r] = reports[r]
  /\ OwnIds => evidence \subseteq evidence'
  /\ \A e \in evidence' : e \in evidence \/ e.id \in EvidenceIds[p]

LEMMA SoundStays ==
  ASSUME NEW p, Grows(p), NEW r, Sound(r)
  PROVE  Sound(r)'
<1>1. OwnIds => Backed(r, evidence')
  BY DEF Grows, Sound, Backed
<1>2. QED
  BY <1>1 DEF Sound, Grows, AnyReport, Backed

LEMMA CompletedStays ==
  ASSUME FlowInv, NEW p, Grows(p), NEW a, a.report \in DOMAIN reports, CompletedBy(a)
  PROVE  CompletedBy(a)'
<1>1. Sound(reports[a.report])
  BY DEF FlowInv, Consistent
<1>2. reports'[a.report] = reports[a.report]
  BY DEF Grows
<1>3. traces'[reports[a.report].trace] = traces[reports[a.report].trace]
  BY <1>1 DEF Grows, Sound
<1>4. QED
  BY <1>2, <1>3 DEF CompletedBy

LEMMA DecidedStays ==
  ASSUME FlowInv, NEW p, Grows(p), NEW a, Decided(a)
  PROVE  Decided(a)'
<1>1. a.report \in DOMAIN reports /\ a.report \in DOMAIN reports'
  BY DEF Decided, Grows
<1>2. QED
  BY <1>1, CompletedStays DEF Decided

\* So what one command relies on survives the step of another.
LEMMA FitsStays ==
  ASSUME FlowInv, NEW p \in Procs, Grows(p), NEW q \in Procs, q # p,
         NEW j, Fits(q, j)
  PROVE  Fits(q, j)'
<1>1. j.pc = "save-evidence" /\ OwnIds => \A e \in evidence' : e.id # j.evidence.id
  BY DEF Fits, Grows, OwnIds
<1>2. j.pc = "save-plan" => j.plan.criteria \subseteq Criterion
  BY DEF Fits
<1>3. j.pc = "save-report" => Sound(j.report)'
  BY SoundStays DEF Fits
<1>4. j.pc \in {"save-done", "save-authorization"} => Decided(j.authorization)'
  BY DecidedStays DEF Fits
<1>5. j.pc = "save-done" => CompletedBy(j.authorization)'
  BY CompletedStays DEF Fits, Decided
<1>6. QED
  BY <1>1, <1>2, <1>3, <1>4, <1>5 DEF Fits, Binding, Scope, ScopedTrace

\* The command of `q` has saved `i` as done, and is about to say by whom.
HasDone(q, i) ==
  At(q, "save-authorization") /\ job[q].authorization.item = i /\ CompletedBy(job[q].authorization)

\* A WorkItem that was done stays accounted for: `p` hands over what it held.
LEMMA DoneStays ==
  ASSUME FlowInv, NEW p \in Procs, Grows(p), NEW next, Goto(p, next), crashes' = crashes,
         authorizations \subseteq authorizations',
         At(p, "save-authorization") => job[p].authorization \in authorizations',
         \A i \in Items : item'[i] = "done" => item[i] = "done" \/ HasDone(p, i)'
  PROVE  DoneIsAuthorized'
<1> SUFFICES ASSUME NEW i \in Items, item'[i] = "done", crashes' = 0
             PROVE  \/ \E a \in authorizations' : a.item = i /\ CompletedBy(a)'
                    \/ \E q \in Procs : HasDone(q, i)'
  BY DEF DoneIsAuthorized, HasDone
<1>1. \/ HasDone(p, i)'
      \/ \E a \in authorizations : a.item = i /\ CompletedBy(a)
      \/ \E q \in Procs : HasDone(q, i)
  BY DEF FlowInv, Consistent, DoneIsAuthorized, HasDone
<1>2. ASSUME NEW a \in authorizations, a.item = i, CompletedBy(a)
      PROVE  a \in authorizations' /\ CompletedBy(a)'
  <2>1. a.report \in DOMAIN reports
    BY DEF FlowInv, Consistent, Decided
  <2>2. QED
    BY <1>2, <2>1, CompletedStays
<1>3. ASSUME NEW q \in Procs, HasDone(q, i)
      PROVE  HasDone(q, i)' \/ \E a \in authorizations' : a.item = i /\ CompletedBy(a)'
  <2> PICK a : a = job[q].authorization
    OBVIOUS
  <2>1. a.report \in DOMAIN reports /\ CompletedBy(a) /\ a.item = i
    BY <1>3 DEF HasDone, FlowInv, JobsFit, Fits, At, Decided
  <2>2. CompletedBy(a)'
    BY <2>1, CompletedStays
  <2>3. q # p => job'[q] = job[q]
    BY DEF Goto, FlowInv, JobsFit
  <2>4. q # p => HasDone(q, i)'
    BY <1>3, <2>2, <2>3 DEF HasDone, At
  <2>5. q = p => a \in authorizations'
    BY <1>3 DEF HasDone
  <2>6. QED
    BY <2>1, <2>2, <2>4, <2>5
<1>4. QED
  BY <1>1, <1>2, <1>3

--------------------------------------------------------------------------------
(* A step settles what its own command writes and relies on                *)

LEMMA Settle ==
  ASSUME FlowInv, NEW p \in Procs, Grows(p), NEW next, Goto(p, next), Fits(p, next)',
         Readable', Consistent', crashes' \in Nat
  PROVE  FlowInv'
<1>1. job' = [q \in Procs |-> job'[q]] /\ job'[p] = next
      /\ \A q \in Procs : q # p => job'[q] = job[q]
  BY DEF FlowInv, JobsFit, Goto
<1>2. ASSUME NEW q \in Procs
      PROVE  Fits(q, job[q])'
  <2>1. q = p => Fits(q, job[q])'
    BY <1>1 DEF Fits
  <2>2. ASSUME q # p
        PROVE  Fits(q, job[q])'
    <3>1. Fits(q, job[q])
      BY DEF FlowInv, JobsFit
    <3>2. \A j : j = job[q] => Fits(q, j)'
      BY <2>2, <3>1, FitsStays
    <3>3. QED
      BY <1>1, <2>2, <3>2
  <2>3. QED
    BY <2>1, <2>2
<1>3. QED
  BY <1>1, <1>2 DEF FlowInv, JobsFit

\* A finished command relies on nothing.
LEMMA IdleFits == ASSUME NEW p PROVE Fits(p, Idle)
BY DEF Fits, Idle

LEMMA Saves ==
  ASSUME FlowInv, NEW p \in Procs, Grows(p), NEW next, Goto(p, next), Fits(p, next)',
         crashes' = crashes, Readable', authorizations \subseteq authorizations',
         At(p, "save-authorization") => job[p].authorization \in authorizations',
         \A i \in Items : item'[i] = "done" => item[i] = "done" \/ HasDone(p, i)',
         \A a \in authorizations' : a \in authorizations \/ Decided(a),
         \A e \in evidence' : e \in evidence \/ e.outcome \in EvidenceOutcomes,
         \A plan \in plans' : plan \in plans \/ plan.criteria \subseteq Criterion,
         \A r \in DOMAIN reports' : r \in DOMAIN reports \/ Sound(reports[r])'
  PROVE  FlowInv'
<1>1. DoneIsAuthorized'
  BY DoneStays
<1>2. \A plan \in plans' : plan.criteria \subseteq Criterion
  BY DEF FlowInv, Consistent, Grows
<1>3. ASSUME NEW r \in DOMAIN reports
      PROVE  Sound(reports[r])'
  <2>1. Sound(reports[r]) /\ reports'[r] = reports[r]
    BY DEF FlowInv, Consistent, Grows
  <2>2. \A x : x = reports[r] => Sound(x)'
    BY <2>1, SoundStays
  <2>3. QED
    BY <2>1, <2>2 DEF Sound
<1>4. \A a \in authorizations' : Decided(a)'
  BY DecidedStays DEF FlowInv, Consistent
<1>5. Consistent'
  BY <1>1, <1>2, <1>3, <1>4 DEF FlowInv, Consistent
<1>6. QED
  BY <1>5, Settle DEF FlowInv

\* What the bookkeeping of a command leaves alone.
onRecord == <<item, binding, selection, traces, evidence, plans, reports, authorizations, crashes>>

LEMMA NothingGrows ==
  ASSUME UNCHANGED <<traces, evidence, reports>>, NEW p
  PROVE  Grows(p)
BY DEF Grows

\* A command that writes nothing yet only has to answer for what it has read.
LEMMA GoesOn ==
  ASSUME FlowInv, NEW p \in Procs, NEW next, Goto(p, next), Fits(p, next),
         ~At(p, "save-authorization"), UNCHANGED <<source, onRecord>>
  PROVE  FlowInv'
<1>1. /\ UNCHANGED <<source, item, binding, selection, traces, evidence, plans, reports>>
      /\ UNCHANGED <<authorizations, crashes>>
  BY DEF onRecord
<1>2. Grows(p)
  BY <1>1, NothingGrows
<1>3. Fits(p, next)'
  BY <1>1 DEF Fits, Sound, Backed, Decided, CompletedBy, Binding, Scope, ScopedTrace
<1>4. Readable'
  BY <1>1 DEF FlowInv, Readable
<1>5. QED
  BY <1>1, <1>2, <1>3, <1>4, Saves

--------------------------------------------------------------------------------
(* Commands that begin, and what they read                                 *)

\* A command begins where none was running, and has written nothing.
LEMMA Begins ==
  ASSUME FlowInv, NEW p \in Procs, Begin(p), NEW next, Goto(p, next), Fits(p, next)
  PROVE  FlowInv'
<1>1. UNCHANGED <<source, onRecord>> /\ ~At(p, "save-authorization")
  BY DEF Begin, world, store, onRecord, At
<1>2. QED
  BY <1>1, GoesOn

LEMMA CreateOrStart ==
  ASSUME FlowInv, NEW p \in Procs, NEW i \in Items, Create(p, i) \/ Start(p, i)
  PROVE  FlowInv'
<1>1. ASSUME NEW next, next.pc \in {"save-created", "save-started"}, Goto(p, next), Begin(p)
      PROVE  FlowInv'
  <2>1. Fits(p, next)
    BY <1>1 DEF Fits
  <2>2. QED
    BY <1>1, <2>1, Begins
<1>2. QED
  BY <1>1 DEF Create, Start

LEMMA BindKeepsInv ==
  ASSUME FlowInv, NEW p \in Procs, NEW i \in Items,
         NEW change \in ChangeRevisions \cup {NoChange}, Bind(p, i, change)
  PROVE  FlowInv'
<1>1. PICK resolved \in ResolvedSources :
        Goto(p, [pc |-> "save-binding", item |-> i, binding |-> resolved])
  BY DEF Bind
<1>2. resolved \in Binding
  BY DEF ResolvedSources, Binding, FlowInv, Readable
<1> DEFINE next == [pc |-> "save-binding", item |-> i, binding |-> resolved]
<1>3. Fits(p, next)
  BY <1>2 DEF Fits
<1>4. QED
  BY <1>1, <1>3, Begins DEF Bind

LEMMA SelectKeepsInv ==
  ASSUME FlowInv, NEW p \in Procs, NEW i \in Items, NEW reqs \in SUBSET Reqs,
         Select(p, i, reqs)
  PROVE  FlowInv'
<1>1. PICK next : next = [pc |-> "save-selection", item |-> i,
                          selection |-> [spec |-> source.spec, reqs |-> reqs]]
  OBVIOUS
<1>2. next.selection \in Scope
  BY <1>1 DEF Select, CanBeScope, Scope, Selection, FlowInv, Readable
<1>3. Fits(p, next)
  BY <1>1, <1>2 DEF Fits
<1>4. QED
  BY <1>1, <1>3, Begins DEF Select

LEMMA ExecuteKeepsInv ==
  ASSUME FlowInv, NEW p \in Procs, NEW i \in Items, Execute(p, i)
  PROVE  FlowInv'
<1>1. PICK next : next = [pc |-> "find-selection", item |-> i, binding |-> binding[i]]
  OBVIOUS
<1>2. binding[i] \in Binding
  BY DEF Execute, FlowInv, Readable
<1>3. Fits(p, next)
  BY <1>1, <1>2 DEF Fits
<1>4. QED
  BY <1>1, <1>3, Begins DEF Execute

\* The use case is given one scope, whatever is confirmed meanwhile.
LEMMA FindSelectionKeepsInv ==
  ASSUME FlowInv, NEW p \in Procs, FindSelection(p)
  PROVE  FlowInv'
<1> DEFINE i == job[p].item
<1>1. /\ At(p, "find-selection") /\ UNCHANGED <<source, onRecord>>
      /\ IF selection[i] = None
         THEN Finish(p)
         ELSE Goto(p, [pc |-> "read-source", item |-> i, binding |-> job[p].binding,
                       selection |-> selection[i]])
  BY DEF FindSelection, world, store, counts, onRecord
<1>2. i \in Items /\ job[p].binding \in Binding
  BY <1>1 DEF FlowInv, JobsFit, Fits, At
<1>3. selection[i] = None \/ selection[i] \in Scope
  BY <1>2 DEF FlowInv, Readable
<1>4. PICK next : next = [pc |-> "read-source", item |-> i, binding |-> job[p].binding,
                          selection |-> selection[i]]
  OBVIOUS
<1>5. selection[i] \in Scope => Fits(p, next)
  BY <1>2, <1>4 DEF Fits
<1>6. ~At(p, "save-authorization")
  BY <1>1 DEF At
<1>7. QED
  BY <1>1, <1>3, <1>4, <1>5, <1>6, IdleFits, GoesOn DEF Finish

\* The scope is of the very revision that is read and recorded: that is where
\* the three reads are brought together.
LEMMA EligibleIsScoped ==
  ASSUME FlowInv, NEW i \in Items, NEW bound \in Binding, NEW selected \in Scope,
         Eligible(bound, selected)
  PROVE  ExecutionOf(i, bound, selected) \in ScopedTrace
<1>1. selected.spec = source.spec
  BY DEF Eligible, ScopeStands
<1>2. source.spec \in Revisions /\ bound.change \in ChangeRevisions \cup {NoChange}
      /\ selected.reqs \in SUBSET Reqs /\ selected.reqs # {}
      /\ selected.reqs \subseteq ReqsOf[source.spec]
  BY <1>1 DEF FlowInv, Readable, Binding, Scope, Selection
<1>3. QED
  BY <1>2 DEF ExecutionOf, ScopedTrace, Trace, RuntimeStatuses

LEMMA ReadSourceKeepsInv ==
  ASSUME FlowInv, NEW p \in Procs, ReadSource(p)
  PROVE  FlowInv'
<1> DEFINE trace == ExecutionOf(job[p].item, job[p].binding, job[p].selection)
<1>1. /\ At(p, "read-source") /\ UNCHANGED <<source, onRecord>>
      /\ IF ~Eligible(job[p].binding, job[p].selection)
         THEN Finish(p)
         ELSE Goto(p, [pc |-> "run", item |-> job[p].item, trace |-> trace])
  BY DEF ReadSource, world, store, counts, onRecord
<1>2. job[p].item \in Items /\ job[p].binding \in Binding /\ job[p].selection \in Scope
  BY <1>1 DEF FlowInv, JobsFit, Fits, At
<1>3. Eligible(job[p].binding, job[p].selection) => trace \in ScopedTrace
  BY <1>2, EligibleIsScoped
<1> HIDE DEF trace
<1>4. PICK next : next = [pc |-> "run", item |-> job[p].item, trace |-> trace]
  OBVIOUS
<1>5. trace \in ScopedTrace => Fits(p, next)
  BY <1>4 DEF Fits
<1>6. ~At(p, "save-authorization")
  BY <1>1 DEF At
<1>7. QED
  BY <1>1, <1>3, <1>4, <1>5, <1>6, IdleFits, GoesOn DEF Finish

LEMMA RuntimeThrowsKeepsInv ==
  ASSUME FlowInv, NEW p \in Procs, RuntimeThrows(p)
  PROVE  FlowInv'
<1>1. /\ Goto(p, Idle) /\ ~At(p, "save-authorization") /\ UNCHANGED <<source, onRecord>>
  BY DEF RuntimeThrows, world, store, counts, onRecord, At, Finish
<1>2. QED
  BY <1>1, IdleFits, GoesOn

LEMMA RecordEvidenceKeepsInv ==
  ASSUME FlowInv, NEW p \in Procs, NEW id \in EvidenceIds[p], NEW t,
         NEW input \in EvidenceInputs, RecordEvidence(p, id, t, input)
  PROVE  FlowInv'
<1>1. PICK next : next = [pc |-> "save-evidence",
                          evidence |-> [id |-> id, trace |-> t, subject |-> input.subject,
                                        kind |-> input.kind, outcome |-> input.outcome]]
  OBVIOUS
<1>2. input.outcome \in EvidenceOutcomes
  BY WorkItemAssumption DEF WorkItemAssumption
<1>3. Fits(p, next)
  BY <1>1, <1>2 DEF Fits, RecordEvidence
<1>4. QED
  BY <1>1, <1>3, Begins DEF RecordEvidence

LEMMA CreatePlanKeepsInv ==
  ASSUME FlowInv, NEW p \in Procs, NEW id, NEW t, NEW spec,
         NEW criteria \in CriteriaInputs, CreatePlan(p, id, t, spec, criteria)
  PROVE  FlowInv'
<1>1. PICK next : next = [pc |-> "save-plan", plan |-> [id |-> id, trace |-> t, spec |-> spec,
                                                        criteria |-> criteria]]
  OBVIOUS
<1>2. criteria \subseteq Criterion
  BY WorkItemAssumption DEF WorkItemAssumption, Criterion
<1>3. Fits(p, next)
  BY <1>1, <1>2 DEF Fits
<1>4. QED
  BY <1>1, <1>3, Begins DEF CreatePlan

\* evaluateCriterion and reportOutcome: `verified` says of each kind that each
\* criterion expects that passed evidence of it was among the evidence.
LEMMA VerifiedHasEvidence ==
  ASSUME NEW criteria, NEW scoped, \A e \in scoped : e.outcome \in EvidenceOutcomes,
         Evaluate(criteria, scoped) = "verified", NEW c \in criteria,
         NEW k \in EvidenceKinds, k \in c.kinds
  PROVE  \E e \in scoped : e.subject = c.subject /\ e.kind = k /\ e.outcome = "passed"
<1>1. CriterionOutcome(c, scoped) = "verified"
  <2> DEFINE results == {CriterionOutcome(x, scoped) : x \in criteria}
  <2>1. results \cap {"failed", "requires-human-review", "inconclusive"} = {}
    BY DEF Evaluate, ReportOutcome
  <2>2. CriterionOutcome(c, scoped)
          \in {"failed", "requires-human-review", "inconclusive", "verified"}
    BY DEF CriterionOutcome
  <2>3. CriterionOutcome(c, scoped) \in results
    OBVIOUS
  <2>4. QED
    BY <2>1, <2>2, <2>3
<1>2. /\ \A e \in Matching(c, scoped) : e.outcome # "failed" /\ e.outcome # "inconclusive"
      /\ \E e \in Matching(c, scoped) : e.kind = k
  BY <1>1 DEF CriterionOutcome
<1>3. QED
  BY <1>2 DEF Matching, EvidenceOutcomes

LEMMA EvaluateIsSound ==
  ASSUME FlowInv, NEW plan \in plans, plan.trace \in DOMAIN traces
  PROVE  Sound([trace |-> plan.trace, criteria |-> plan.criteria,
                outcome |-> Evaluate(plan.criteria, {e \in evidence : e.trace = plan.trace})])
<1> DEFINE scoped == {e \in evidence : e.trace = plan.trace}
           outcome == Evaluate(plan.criteria, scoped)
           r == [trace |-> plan.trace, criteria |-> plan.criteria, outcome |-> outcome]
<1>1. plan.trace \in DOMAIN traces /\ plan.criteria \subseteq Criterion
  BY DEF FlowInv, Consistent
<1>2. outcome \in VerificationOutcomes
  BY DEF Evaluate, ReportOutcome, VerificationOutcomes
<1>3. plan.trace \in Nat
  BY <1>1 DEF FlowInv, Readable
<1>4. \A e \in scoped : e.outcome \in EvidenceOutcomes
  BY DEF FlowInv, Consistent
<1>5. ASSUME outcome = "verified", NEW c \in plan.criteria, NEW k \in EvidenceKinds, k \in c.kinds
      PROVE  \E e \in scoped : e.subject = c.subject /\ e.kind = k /\ e.outcome = "passed"
  BY <1>4, <1>5, VerifiedHasEvidence
<1> HIDE DEF outcome
<1>6. Backed(r, evidence)
  BY <1>5 DEF Backed
<1>7. r \in AnyReport
  BY <1>1, <1>2, <1>3 DEF AnyReport
<1>8. QED
  BY <1>1, <1>6, <1>7 DEF Sound, outcome

LEMMA EvaluateKeepsInv ==
  ASSUME FlowInv, NEW p \in Procs, NEW plan \in plans, EvaluatePlan(p, plan)
  PROVE  FlowInv'
<1>1. PICK r : r = [trace |-> plan.trace, criteria |-> plan.criteria,
                    outcome |-> Evaluate(plan.criteria, {e \in evidence : e.trace = plan.trace})]
  OBVIOUS
<1>2. PICK next : next = [pc |-> "save-report", report |-> r]
  OBVIOUS
<1>3. Sound(r)
  BY <1>1, EvaluateIsSound DEF EvaluatePlan
<1>4. Fits(p, next)
  BY <1>2, <1>3 DEF Fits
<1>5. QED
  BY <1>1, <1>2, <1>4, Begins DEF EvaluatePlan

LEMMA AuthorizeKeepsInv ==
  ASSUME FlowInv, NEW p \in Procs, NEW a, a.report \in DOMAIN reports, Authorize(p, a)
  PROVE  FlowInv'
<1>1. a.decision = "authorize-completion" /\ Completes(a) => CompletedBy(a)
  BY DEF Authorize, MayDecide, Linked, Completes, CompletedBy
<1>2. ASSUME NEW next, next = [pc |-> "save-done", authorization |-> a],
             a.decision = "authorize-completion", Completes(a), Goto(p, next)
      PROVE  FlowInv'
  <2>1. Fits(p, next)
    BY <1>1, <1>2 DEF Fits, Decided
  <2>2. QED
    BY <1>2, <2>1, Begins DEF Authorize
<1>3. ASSUME NEW next, next = [pc |-> "save-authorization", authorization |-> a],
             a.decision # "authorize-completion", Goto(p, next)
      PROVE  FlowInv'
  <2>1. Fits(p, next)
    BY <1>3 DEF Fits, Decided
  <2>2. QED
    BY <1>3, <2>1, Begins DEF Authorize
<1>4. QED
  BY <1>2, <1>3 DEF Authorize

--------------------------------------------------------------------------------
(* Commands that write, and end                                            *)

\* What ends without touching an authorization is none of its business.
LEMMA Ends ==
  ASSUME FlowInv, NEW p \in Procs, Grows(p), Finish(p), ~At(p, "save-authorization"),
         UNCHANGED <<authorizations, crashes>>, Readable',
         \A i \in Items : item'[i] = "done" => item[i] = "done",
         \A e \in evidence' : e \in evidence \/ e.outcome \in EvidenceOutcomes,
         \A plan \in plans' : plan \in plans \/ plan.criteria \subseteq Criterion,
         \A r \in DOMAIN reports' : r \in DOMAIN reports \/ Sound(reports[r])'
  PROVE  FlowInv'
<1>1. Fits(p, Idle)'
  BY DEF Fits, Idle
<1>2. QED
  BY <1>1, Saves DEF Finish

LEMMA SaveItemKeepsInv ==
  ASSUME FlowInv, NEW p \in Procs, SaveItem(p)
  PROVE  FlowInv'
<1>1. PICK status \in {"todo", "in-progress"} : item' = [item EXCEPT ![job[p].item] = status]
  BY DEF SaveItem
<1>2. /\ UNCHANGED <<source, binding, selection, traces, reports, evidence, plans>>
      /\ UNCHANGED <<authorizations, crashes>> /\ Finish(p) /\ ~At(p, "save-authorization")
  BY DEF SaveItem, world, counts, At
<1>3. item' \in [Items -> Statuses] /\ \A i \in Items : item'[i] = "done" => item[i] = "done"
  BY <1>1 DEF FlowInv, Readable, Statuses
<1>4. Readable' /\ Grows(p)
  BY <1>2, <1>3, NothingGrows DEF FlowInv, Readable
<1>5. QED
  BY <1>2, <1>3, <1>4, Ends

LEMMA SaveBindingKeepsInv ==
  ASSUME FlowInv, NEW p \in Procs, SaveBinding(p)
  PROVE  FlowInv'
<1>1. /\ binding' = [binding EXCEPT ![job[p].item] = job[p].binding]
      /\ UNCHANGED <<source, item, selection, traces, reports, evidence, plans>>
      /\ UNCHANGED <<authorizations, crashes>> /\ Finish(p) /\ ~At(p, "save-authorization")
  BY DEF SaveBinding, world, counts, At
<1>2. job[p].binding \in Binding
  BY DEF SaveBinding, FlowInv, JobsFit, Fits, At
<1>3. Readable' /\ Grows(p)
  BY <1>1, <1>2, NothingGrows DEF FlowInv, Readable
<1>4. QED
  BY <1>1, <1>3, Ends

LEMMA SaveSelectionKeepsInv ==
  ASSUME FlowInv, NEW p \in Procs, SaveSelection(p)
  PROVE  FlowInv'
<1>1. /\ selection' = [selection EXCEPT ![job[p].item] = job[p].selection]
      /\ UNCHANGED <<source, item, binding, traces, reports, evidence, plans>>
      /\ UNCHANGED <<authorizations, crashes>> /\ Finish(p) /\ ~At(p, "save-authorization")
  BY DEF SaveSelection, world, counts, At
<1>2. job[p].selection \in Scope
  BY DEF SaveSelection, FlowInv, JobsFit, Fits, At
<1>3. Readable' /\ Grows(p)
  BY <1>1, <1>2, NothingGrows DEF FlowInv, Readable
<1>4. QED
  BY <1>1, <1>3, Ends

LEMMA SaveTraceKeepsInv ==
  ASSUME FlowInv, NEW p \in Procs, NEW status, SaveTrace(p, status)
  PROVE  FlowInv'
<1>1. PICK t : t = [job[p].trace EXCEPT !.status = status]
  OBVIOUS
<1>2. /\ traces' = Append(traces, t)
      /\ UNCHANGED <<source, item, binding, selection, reports, evidence, plans>>
      /\ UNCHANGED <<authorizations, crashes>> /\ Finish(p) /\ ~At(p, "save-authorization")
  BY <1>1 DEF SaveTrace, world, counts, At
<1>3. t \in ScopedTrace
  <2>1. job[p].trace \in ScopedTrace /\ status \in RuntimeStatuses
    BY DEF SaveTrace, FlowInv, JobsFit, Fits, At
  <2>2. QED
    BY <1>1, <2>1 DEF ScopedTrace, Trace
<1>4. /\ traces' \in Seq(ScopedTrace) /\ DOMAIN traces \subseteq DOMAIN traces'
      /\ \A k \in DOMAIN traces : traces'[k] = traces[k]
  BY <1>2, <1>3 DEF FlowInv, Readable
<1>5. Readable' /\ Grows(p)
  BY <1>2, <1>4 DEF FlowInv, Readable, Grows
<1>6. QED
  BY <1>2, <1>5, Ends

\* What is replaced under an id is nothing: the id was new when it was checked,
\* and no other command types it.
LEMMA SaveEvidenceKeepsInv ==
  ASSUME FlowInv, NEW p \in Procs, SaveEvidence(p)
  PROVE  FlowInv'
<1>1. PICK e : e = job[p].evidence
  OBVIOUS
<1>2. /\ evidence' = {x \in evidence : x.id # e.id} \cup {e}
      /\ UNCHANGED <<source, item, binding, selection, traces, reports, plans>>
      /\ UNCHANGED <<authorizations, crashes>> /\ Finish(p) /\ ~At(p, "save-authorization")
  BY <1>1 DEF SaveEvidence, world, counts, At
<1>3. /\ e.id \in EvidenceIds[p] /\ e.outcome \in EvidenceOutcomes
      /\ OwnIds => \A x \in evidence : x.id # e.id
  BY <1>1 DEF SaveEvidence, FlowInv, JobsFit, Fits, At
<1>4. OwnIds => evidence' = evidence \cup {e}
  BY <1>2, <1>3
<1>5. Readable'
  BY <1>2 DEF FlowInv, Readable
<1>6. Grows(p)
  BY <1>2, <1>3, <1>4 DEF Grows
<1>7. QED
  BY <1>2, <1>3, <1>4, <1>5, <1>6, Ends

LEMMA SavePlanKeepsInv ==
  ASSUME FlowInv, NEW p \in Procs, SavePlan(p)
  PROVE  FlowInv'
<1>1. /\ \A plan \in plans' : plan \in plans \/ plan = job[p].plan
      /\ UNCHANGED <<source, item, binding, selection, traces, reports, evidence>>
      /\ UNCHANGED <<authorizations, crashes>> /\ Finish(p) /\ ~At(p, "save-authorization")
  BY DEF SavePlan, world, counts, At
<1>2. job[p].plan.criteria \subseteq Criterion
  BY DEF SavePlan, FlowInv, JobsFit, Fits, At
<1>3. Readable' /\ Grows(p)
  BY <1>1, NothingGrows DEF FlowInv, Readable
<1>4. QED
  BY <1>1, <1>2, <1>3, Ends

LEMMA SaveReportKeepsInv ==
  ASSUME FlowInv, NEW p \in Procs, SaveReport(p)
  PROVE  FlowInv'
<1>1. PICK r : r = job[p].report
  OBVIOUS
<1>2. /\ reports' = Append(reports, r)
      /\ UNCHANGED <<source, item, binding, selection, traces, plans, evidence>>
      /\ UNCHANGED <<authorizations, crashes>> /\ Finish(p) /\ ~At(p, "save-authorization")
  BY <1>1 DEF SaveReport, world, counts, At
<1>3. Sound(r)
  BY <1>1 DEF SaveReport, FlowInv, JobsFit, Fits, At
<1>4. /\ reports' \in Seq(AnyReport) /\ DOMAIN reports \subseteq DOMAIN reports'
      /\ \A k \in DOMAIN reports : reports'[k] = reports[k]
      /\ \A k \in DOMAIN reports' : k \in DOMAIN reports \/ reports'[k] = r
  BY <1>2, <1>3 DEF FlowInv, Readable, Sound
<1>5. Readable' /\ Grows(p)
  BY <1>2, <1>4 DEF FlowInv, Readable, Grows
<1>6. Sound(r)'
  BY <1>3, <1>5, SoundStays
<1>7. \A k \in DOMAIN reports' : k \in DOMAIN reports \/ Sound(reports[k])'
  BY <1>4, <1>6 DEF Sound
<1>8. QED
  BY <1>2, <1>5, <1>7, Ends

\* In between, the command itself is what accounts for the WorkItem.
LEMMA SaveDoneKeepsInv ==
  ASSUME FlowInv, NEW p \in Procs, SaveDone(p)
  PROVE  FlowInv'
<1>1. PICK a : a = job[p].authorization
  OBVIOUS
<1>2. PICK next : next = [job[p] EXCEPT !.pc = "save-authorization"]
  OBVIOUS
<1>3. /\ item' = [item EXCEPT ![a.item] = "done"] /\ Goto(p, next) /\ At(p, "save-done")
      /\ UNCHANGED <<source, binding, selection, traces, reports, plans, evidence>>
      /\ UNCHANGED <<authorizations, crashes>>
  BY <1>1, <1>2 DEF SaveDone, world, counts
<1>4. Decided(a) /\ CompletedBy(a)
  BY <1>1, <1>3 DEF FlowInv, JobsFit, Fits, At
<1>5. Readable' /\ Grows(p)
  BY <1>3, NothingGrows DEF FlowInv, Readable, Statuses
<1>6. Decided(a)' /\ CompletedBy(a)'
  BY <1>4, <1>5, DecidedStays, CompletedStays DEF Decided
<1>7. next.pc = "save-authorization" /\ next.authorization = a
  <2>1. job[p].pc = "save-done"
    BY <1>3 DEF At
  <2>2. QED
    BY <1>1, <1>2, <2>1
<1>8. Fits(p, next)'
  BY <1>6, <1>7 DEF Fits
<1>9. job'[p] = next
  BY <1>3 DEF Goto, FlowInv, JobsFit
<1>10. \A i \in Items : item'[i] = "done" => item[i] = "done" \/ HasDone(p, i)'
  <2>1. HasDone(p, a.item)'
    BY <1>6, <1>7, <1>9 DEF HasDone, At
  <2>2. \A i \in Items : i # a.item => item'[i] = item[i]
    BY <1>3 DEF FlowInv, Readable
  <2>3. QED
    BY <2>1, <2>2
<1>11. ~At(p, "save-authorization")
  BY <1>3 DEF At
<1>12. QED
  BY <1>3, <1>5, <1>8, <1>10, <1>11, Saves

LEMMA SaveAuthorizationKeepsInv ==
  ASSUME FlowInv, NEW p \in Procs, SaveAuthorization(p)
  PROVE  FlowInv'
<1>1. /\ authorizations' = authorizations \cup {job[p].authorization} /\ Goto(p, Idle)
      /\ At(p, "save-authorization")
      /\ UNCHANGED <<source, item, binding, selection, traces, reports, plans, evidence, crashes>>
  BY DEF SaveAuthorization, Finish, world, counts
<1>2. Decided(job[p].authorization)
  BY <1>1 DEF FlowInv, JobsFit, Fits, At
<1>3. Readable' /\ Grows(p)
  BY <1>1, NothingGrows DEF FlowInv, Readable
<1>4. Fits(p, Idle)'
  BY DEF Fits, Idle
<1>5. QED
  BY <1>1, <1>2, <1>3, <1>4, Saves

--------------------------------------------------------------------------------
(* The environment, and the theorems                                       *)

LEMMA CrashKeepsInv ==
  ASSUME FlowInv, NEW p \in Procs, Crash(p)
  PROVE  FlowInv'
<1>1. /\ crashes' = crashes + 1 /\ Goto(p, Idle)
      /\ UNCHANGED <<source, item, binding, selection, traces, reports, plans, evidence>>
      /\ UNCHANGED authorizations
  BY DEF Crash, Finish, world, store
<1>2. crashes' \in Nat /\ crashes' # 0
  BY <1>1 DEF FlowInv
<1>3. Readable' /\ Grows(p)
  BY <1>1, NothingGrows DEF FlowInv, Readable
<1>4. DoneIsAuthorized'
  BY <1>2 DEF DoneIsAuthorized
<1>5. /\ \A r \in DOMAIN reports' : Sound(reports[r])'
      /\ \A a \in authorizations' : Decided(a)'
  BY <1>1 DEF FlowInv, Consistent, Sound, Backed, Decided, CompletedBy
<1>6. Consistent'
  BY <1>1, <1>4, <1>5 DEF FlowInv, Consistent
<1>7. Fits(p, Idle)'
  BY DEF Fits, Idle
<1>8. QED
  BY <1>1, <1>2, <1>3, <1>6, <1>7, Settle

\* People edit, and other commands move the governed Change, at any time: what
\* is on record does not depend on what the provider holds since.
LEMMA SourceMoves ==
  ASSUME FlowInv, source' \in [spec : Revisions, change : ChangeRevisions],
         UNCHANGED <<onRecord, job>>
  PROVE  FlowInv'
<1>1. /\ UNCHANGED <<item, binding, selection, traces, reports, plans, evidence>>
      /\ UNCHANGED <<authorizations, crashes, job>>
  BY DEF onRecord
<1>2. Readable'
  BY <1>1 DEF FlowInv, Readable
<1>3. /\ \A r \in DOMAIN reports' : Sound(reports[r])'
      /\ \A a \in authorizations' : Decided(a)'
  BY <1>1 DEF FlowInv, Consistent, Sound, Backed, Decided, CompletedBy
<1>4. DoneIsAuthorized'
  BY <1>1 DEF FlowInv, Consistent, DoneIsAuthorized, CompletedBy, At
<1>5. Consistent'
  BY <1>1, <1>3, <1>4 DEF FlowInv, Consistent
<1>6. ASSUME NEW p \in Procs
      PROVE  Fits(p, job[p])'
  <2>1. Fits(p, job[p])
    BY DEF FlowInv, JobsFit
  <2>2. QED
    BY <1>1, <2>1 DEF Fits, Sound, Backed, Decided, CompletedBy, Binding, Scope, ScopedTrace
<1>7. QED
  BY <1>1, <1>2, <1>5, <1>6 DEF FlowInv, JobsFit

LEMMA CommandKeepsInv ==
  ASSUME FlowInv, NEW p \in Procs, Command(p)
  PROVE  FlowInv'
<1>1. ASSUME NEW i \in Items, Create(p, i) \/ Start(p, i) \/ Execute(p, i)
      PROVE  FlowInv'
  BY <1>1, CreateOrStart, ExecuteKeepsInv
<1>2. ASSUME NEW i \in Items, NEW change \in ChangeRevisions \cup {NoChange}, Bind(p, i, change)
      PROVE  FlowInv'
  BY <1>2, BindKeepsInv
<1>3. ASSUME NEW i \in Items, NEW reqs \in SUBSET Reqs, Select(p, i, reqs)
      PROVE  FlowInv'
  BY <1>3, SelectKeepsInv
<1>4. ASSUME NEW i \in Items, NEW r \in DOMAIN reports, NEW in \in DecisionInputs,
             Authorize(p, [item |-> i, report |-> r, role |-> in[1], decision |-> in[2]])
      PROVE  FlowInv'
  <2>1. PICK a : a = [item |-> i, report |-> r, role |-> in[1], decision |-> in[2]]
    OBVIOUS
  <2>2. QED
    BY <1>4, <2>1, AuthorizeKeepsInv
<1>5. ASSUME NEW id \in EvidenceIds[p], NEW t \in DOMAIN traces, NEW input \in EvidenceInputs,
             RecordEvidence(p, id, t, input)
      PROVE  FlowInv'
  BY <1>5, RecordEvidenceKeepsInv
<1>6. ASSUME NEW id \in PlanIds[p], NEW t \in DOMAIN traces \cup {UnknownTrace}, NEW spec \in Revisions,
             NEW criteria \in CriteriaInputs, CreatePlan(p, id, t, spec, criteria)
      PROVE  FlowInv'
  BY <1>6, CreatePlanKeepsInv
<1>7. ASSUME NEW plan \in plans, EvaluatePlan(p, plan)
      PROVE  FlowInv'
  BY <1>7, EvaluateKeepsInv
<1>8. QED
  BY <1>1, <1>2, <1>3, <1>4, <1>5, <1>6, <1>7 DEF Command

LEMMA StepKeepsInv ==
  ASSUME FlowInv, NEW p \in Procs, Step(p)
  PROVE  FlowInv'
BY SaveItemKeepsInv, SaveBindingKeepsInv, SaveSelectionKeepsInv, FindSelectionKeepsInv,
   ReadSourceKeepsInv, RuntimeThrowsKeepsInv, SaveTraceKeepsInv, SaveEvidenceKeepsInv,
   SavePlanKeepsInv, SaveReportKeepsInv, SaveDoneKeepsInv, SaveAuthorizationKeepsInv DEF Step

\* What is approved, applied or recovered is the Change of a handoff.
Handed ==
  /\ governed.change \in ChangeRevisions \cup {NoChange}
  /\ governed.approved => governed.change # NoChange

LEMMA NextKeepsHanded ==
  Handed /\ [Next]_vars => Handed'
<1> SUFFICES ASSUME Handed, [Next]_vars
             PROVE  Handed'
  OBVIOUS
<1>1. ASSUME governed' = governed
      PROVE  Handed'
  BY <1>1 DEF Handed
<1>2. ASSUME NEW p \in Procs, Command(p)
      PROVE  governed' = governed
  BY <1>2 DEF Command, Create, Start, Execute, Bind, Select, Authorize, RecordEvidence,
              CreatePlan, EvaluatePlan, Begin, world
<1>3. ASSUME NEW p \in Procs, Step(p)
      PROVE  governed' = governed
  BY <1>3 DEF Step, SaveItem, SaveBinding, SaveSelection, FindSelection, ReadSource,
              RuntimeThrows, SaveTrace, SaveEvidence, SavePlan, SaveReport, SaveDone,
              SaveAuthorization, world
<1>4. ASSUME NEW p \in Procs, Crash(p)
      PROVE  governed' = governed
  BY <1>4 DEF Crash, world
<1>5. ASSUME NEW spec, NEW change, Edit(spec, change)
      PROVE  governed' = governed
  BY <1>5 DEF Edit
<1>6. ASSUME NEW change \in ChangeRevisions, ProposeChange(change)
      PROVE  Handed'
  BY <1>6 DEF ProposeChange, GovernedChangeIs, Handed
<1>7. ASSUME GovernedChangeMoves
      PROVE  Handed'
  BY <1>7 DEF GovernedChangeMoves, GovernedChangeIs, Handed
<1>8. ASSUME UNCHANGED vars
      PROVE  governed' = governed
  BY <1>8 DEF vars, world
<1>9. QED
  BY <1>1, <1>2, <1>3, <1>4, <1>5, <1>6, <1>7, <1>8 DEF Next

LEMMA NextKeepsInv ==
  FlowInv /\ Handed /\ [Next]_vars => FlowInv'
<1> SUFFICES ASSUME FlowInv, Handed, [Next]_vars
             PROVE  FlowInv'
  OBVIOUS
<1>1. ASSUME NEW p \in Procs, Command(p) \/ Step(p) \/ Crash(p)
      PROVE  FlowInv'
  BY <1>1, CommandKeepsInv, StepKeepsInv, CrashKeepsInv
<1>2. ASSUME NEW spec \in Revisions, NEW change \in ChangeRevisions, Edit(spec, change)
      PROVE  FlowInv'
  BY <1>2, SourceMoves DEF Edit, store, onRecord
<1>3. ASSUME NEW change \in ChangeRevisions, ProposeChange(change)
      PROVE  FlowInv'
  BY <1>3, SourceMoves DEF ProposeChange, store, onRecord, FlowInv, Readable
<1>5. ASSUME GovernedChangeMoves
      PROVE  FlowInv'
  <2>1. source \in [spec : Revisions, change : ChangeRevisions]
    BY DEF FlowInv, Readable
  <2>2. \/ source' = source
        \/ governed.change \in ChangeRevisions /\ source' = [source EXCEPT !.change = governed.change]
    BY <1>5 DEF GovernedChangeMoves, Handed
  <2>3. source' \in [spec : Revisions, change : ChangeRevisions]
    BY <2>1, <2>2
  <2>4. QED
    BY <1>5, <2>3, SourceMoves DEF GovernedChangeMoves, store, counts, onRecord
<1>4. ASSUME UNCHANGED vars
      PROVE  FlowInv'
  <2>1. UNCHANGED <<source, onRecord, job>>
    BY <1>4 DEF vars, world, store, counts, onRecord
  <2>2. QED
    BY <2>1, SourceMoves DEF FlowInv, Readable
<1>6. QED
  BY <1>1, <1>2, <1>3, <1>4, <1>5 DEF Next

LEMMA InitHasInv == Init => FlowInv
<1> SUFFICES ASSUME Init
             PROVE  FlowInv
  OBVIOUS
<1>1. Readable
  BY DEF Init, Readable, Statuses
<1>2. Consistent
  BY DEF Init, Consistent, DoneIsAuthorized
<1>3. JobsFit
  BY IdleFits DEF Init, JobsFit
<1>4. QED
  BY <1>1, <1>2, <1>3 DEF Init, FlowInv

LEMMA InvMeans ==
  FlowInv => ExecutedWithinScope /\ (OwnIds => VerifiedIsBacked) /\ DoneIsAuthorized
<1> SUFFICES ASSUME FlowInv
             PROVE  ExecutedWithinScope /\ (OwnIds => VerifiedIsBacked) /\ DoneIsAuthorized
  OBVIOUS
<1>1. ExecutedWithinScope
  <2>1. \A t \in DOMAIN traces : traces[t] \in ScopedTrace
    BY DEF FlowInv, Readable
  <2>2. QED
    BY <2>1 DEF ScopedTrace, ExecutedWithinScope
<1>2. OwnIds => VerifiedIsBacked
  BY DEF FlowInv, Consistent, Sound, Backed, VerifiedIsBacked
<1>3. QED
  BY <1>1, <1>2 DEF FlowInv, Consistent

LEMMA FlowInvHolds == Spec => []FlowInv
<1>1. Init => Handed
  BY DEF Init, Handed
<1>2. QED
  BY <1>1, InitHasInv, NextKeepsInv, NextKeepsHanded, PTL DEF Spec

\* yh work execute: the scope, the binding and the Specification are three reads
\* that others overlap; what is recorded was confirmed, and of that revision.
THEOREM ExecutionsKeepTheirScope == Spec => []ExecutedWithinScope
<1>1. FlowInv => ExecutedWithinScope
  BY InvMeans
<1>2. QED
  BY <1>1, FlowInvHolds, PTL

\* yh verification: as long as no two terminals save one id, a report that says
\* `verified` has passed evidence on record for all its plan expected.
THEOREM VerifiedHasItsEvidence ==
  ASSUME OwnIds
  PROVE  Spec => []VerifiedIsBacked
<1>1. FlowInv => VerifiedIsBacked
  BY InvMeans
<1>2. QED
  BY <1>1, FlowInvHolds, PTL

\* yh work authorize: short of a crash, a WorkItem that is done has on record, or
\* in the command that made it so, who decided it, on an acceptable report.
THEOREM DoneWasAuthorized == Spec => []DoneIsAuthorized
<1>1. FlowInv => DoneIsAuthorized
  BY InvMeans
<1>2. QED
  BY <1>1, FlowInvHolds, PTL

--------------------------------------------------------------------------------
(* What `yh task plan` announces                                           *)

\* The orchestrator answers with the first of its rules that holds.
LEMMA FirstRule ==
  ASSUME NEW s
  PROVE  \E k \in 1 .. 14 : /\ Rules(s)[k][1] /\ Plan(s) = Rules(s)[k][2]
                            /\ \A m \in 1 .. 14 : Rules(s)[m][1] => k <= m
<1> DEFINE I == {k \in 1 .. 14 : Rules(s)[k][1]}
<1>1. Len(Rules(s)) = 14 /\ (Rules(s)[14][1] <=> TRUE)
  BY DEF Rules
<1>2. I \in SUBSET Nat /\ I # {}
  <2>1. 14 \in 1 .. 14
    OBVIOUS
  <2>2. 14 \in I
    BY <1>1, <2>1
  <2>3. I \in SUBSET Nat
    OBVIOUS
  <2>4. QED
    BY <2>2, <2>3
<1>3. \E x \in I : \A y \in I : x <= y
  <2> HIDE DEF I
  <2>1. QED
    BY <1>2, NatMin
<1>4. Min(I) \in I /\ \A y \in I : Min(I) <= y
  <2> HIDE DEF I
  <2>1. QED
    BY <1>3, Zenon DEF Min
<1>5. SelectInSeq(Rules(s), LAMBDA rule : rule[1]) = Min(I)
  <2>1. SelectInSeq(Rules(s), LAMBDA rule : rule[1]) =
          IF {k \in 1 .. Len(Rules(s)) : Rules(s)[k][1]} # {}
          THEN Min({k \in 1 .. Len(Rules(s)) : Rules(s)[k][1]}) ELSE 0
    BY DEF SelectInSeq
  <2>2. QED
    BY <1>1, <1>2, <2>1
<1>6. Plan(s) = Rules(s)[Min(I)][2]
  BY <1>5 DEF Plan
<1>7. QED
  BY <1>4, <1>6

\* An execution is announced while the binding stands, with a Change.
LEMMA AnnouncesExecution ==
  ASSUME NEW s, Plan(s).action = "execute-work-item"
  PROVE  s.specification # "missing" /\ s.specification # "drifted" /\ s.change # "missing" /\ s.change # "drifted"
<1>1. PICK k \in 1 .. 14 : /\ Rules(s)[k][1] /\ Plan(s) = Rules(s)[k][2]
                           /\ \A m \in 1 .. 14 : Rules(s)[m][1] => k <= m
  BY FirstRule
<1>2. k = 10
  BY <1>1 DEF Rules, Answer
<1>3. ~Rules(s)[3][1] /\ ~Rules(s)[4][1] /\ ~Rules(s)[5][1] /\ ~Rules(s)[7][1]
  BY <1>1, <1>2
<1>4. QED
  BY <1>3 DEF Rules

\* A completion is announced for a WorkItem in progress whose latest report on its
\* latest execution can be accepted.
LEMMA AnnouncesCompletion ==
  ASSUME NEW s, Plan(s).action = "authorize-completion"
  PROVE  s.item = "in-progress" /\ s.verification \in {"verified", "requires-human-review"}
<1>1. PICK k \in 1 .. 14 : /\ Rules(s)[k][1] /\ Plan(s) = Rules(s)[k][2]
                           /\ \A m \in 1 .. 14 : Rules(s)[m][1] => k <= m
  BY FirstRule
<1>2. k = 13
  BY <1>1 DEF Rules, Answer
<1>3. ~Rules(s)[2][1] /\ Rules(s)[13][1]
  BY <1>1, <1>2
<1>4. QED
  BY <1>3 DEF Rules

\* Of records that are numbered there is a latest.
LEMMA LatestIsOne ==
  ASSUME NEW N \in Nat, NEW numbers \in SUBSET (1 .. N), numbers # {}
  PROVE  Latest(numbers) \in numbers
<1> DEFINE left == {n \in Nat : N - n \in numbers}
<1>1. left # {}
  <2>1. PICK n \in numbers : TRUE
    OBVIOUS
  <2>2. n \in Nat /\ N - n \in Nat /\ N - (N - n) = n
    BY <2>1
  <2>3. QED
    BY <2>1, <2>2
<1>2. PICK x \in left : \A y \in left : x <= y
  <2>1. left \in SUBSET Nat
    OBVIOUS
  <2> HIDE DEF left
  <2>2. QED
    BY <1>1, <2>1, NatMin
<1>3. ASSUME NEW m \in numbers
      PROVE  m <= N - x
  <2>1. m \in Nat /\ N - m \in Nat /\ N - (N - m) = m
    OBVIOUS
  <2>2. N - m \in left
    BY <2>1
  <2>3. x <= N - m
    BY <1>2, <2>2
  <2>4. QED
    BY <2>1, <2>3
<1>4. \E n \in numbers : \A m \in numbers : m <= n
  BY <1>2, <1>3
<1>5. QED
  BY <1>4, Zenon DEF Latest

LEMMA PlannedExecution ==
  ASSUME NEW i \in Items, Plan(Snapshot(i)).action = "execute-work-item",
         selection[i].spec = source.spec
  PROVE  Eligible(binding[i], selection[i])
<1>1. PICK s : s = Snapshot(i)
  OBVIOUS
<1>2. s.specification # "missing" /\ s.specification # "drifted" /\ s.change # "missing" /\ s.change # "drifted"
  BY <1>1, AnnouncesExecution
<1>3. /\ s.specification = IF binding[i] = None THEN "missing" ELSE Drift(binding[i].spec, source.spec)
      /\ s.change = IF binding[i] = None \/ binding[i].change = NoChange THEN "missing"
                    ELSE Drift(binding[i].change, source.change)
  BY <1>1 DEF Snapshot
<1>4. binding[i].change # NoChange /\ binding[i].spec = source.spec /\ binding[i].change = source.change
  BY <1>2, <1>3 DEF Drift
<1>5. QED
  BY <1>4 DEF Eligible, SpecificationStands, ChangeStands, ScopeStands, IsEligible, Drift

LEMMA PlannedCompletion ==
  ASSUME FlowInv, NEW i \in Items, Plan(Snapshot(i)).action = "authorize-completion"
  PROVE  \E r \in DOMAIN reports :
           /\ item[i] = "in-progress" /\ traces[reports[r].trace].item = i
           /\ reports[r].outcome \in Acceptable
<1>1. PICK s : s = Snapshot(i)
  OBVIOUS
<1>2. s.item = "in-progress" /\ s.verification \in Acceptable
  BY <1>1, AnnouncesCompletion DEF Acceptable
<1>3. /\ s.item = item[i]
      /\ s.verification =
           IF TracesOf(i) = {} \/ ReportsOn(Latest(TracesOf(i))) = {} THEN "none"
           ELSE reports[Latest(ReportsOn(Latest(TracesOf(i))))].outcome
  BY <1>1 DEF Snapshot
<1>4. PICK t : t = Latest(TracesOf(i))
  OBVIOUS
<1>5. PICK r : r = Latest(ReportsOn(t))
  OBVIOUS
<1>6. "none" \notin Acceptable
  BY DEF Acceptable
<1>7. TracesOf(i) # {} /\ ReportsOn(t) # {} /\ s.verification = reports[r].outcome
  BY <1>2, <1>3, <1>4, <1>5, <1>6
<1>8. t \in TracesOf(i)
  <2>1. Len(traces) \in Nat /\ TracesOf(i) \in SUBSET (1 .. Len(traces))
    BY DEF FlowInv, Readable, TracesOf
  <2>2. QED
    BY <1>4, <1>7, <2>1, LatestIsOne
<1>9. r \in ReportsOn(t)
  <2>1. Len(reports) \in Nat /\ ReportsOn(t) \in SUBSET (1 .. Len(reports))
    BY DEF FlowInv, Readable, ReportsOn
  <2>2. QED
    BY <1>5, <1>7, <2>1, LatestIsOne
<1>10. QED
  BY <1>2, <1>3, <1>7, <1>8, <1>9 DEF TracesOf, ReportsOn

\* What `yh task plan` announces is accepted when it is done at once: an execution
\* is eligible if the scope is of the current Specification, and a reviewer may
\* authorize a completion.
THEOREM PlannedStepsAreAllowed == Spec => []PlannedStepIsAllowed
<1>1. FlowInv => PlannedStepIsAllowed
  <2> SUFFICES ASSUME FlowInv, NEW i \in Items
               PROVE  /\ Plan(Snapshot(i)).action = "execute-work-item"
                           /\ selection[i] # None /\ selection[i].spec = source.spec
                           => Eligible(binding[i], selection[i])
                      /\ Plan(Snapshot(i)).action = "authorize-completion" =>
                           \E r \in DOMAIN reports :
                             LET a == [item |-> i, report |-> r,
                                       decision |-> "authorize-completion", role |-> "reviewer"]
                             IN Linked(a) /\ Completes(a)
    BY Zenon DEF PlannedStepIsAllowed
  <2>1. ASSUME Plan(Snapshot(i)).action = "authorize-completion"
        PROVE  \E r \in DOMAIN reports :
                 LET a == [item |-> i, report |-> r,
                           decision |-> "authorize-completion", role |-> "reviewer"]
                 IN Linked(a) /\ Completes(a)
    <3>1. PICK r \in DOMAIN reports :
            /\ item[i] = "in-progress" /\ traces[reports[r].trace].item = i
            /\ reports[r].outcome \in Acceptable
      BY <2>1, PlannedCompletion
    <3>2. PICK a : a = [item |-> i, report |-> r, decision |-> "authorize-completion", role |-> "reviewer"]
      OBVIOUS
    <3>3. a.item = i /\ a.report = r
      BY <3>2
    <3>4. Linked(a) /\ Completes(a)
      BY <3>1, <3>3 DEF Linked, Completes
    <3>5. QED
      BY <3>2, <3>4
  <2>2. QED
    BY <2>1, PlannedExecution
<1>2. QED
  BY <1>1, FlowInvHolds, PTL

================================================================================
