---------------------------- MODULE LifecycleProofs ----------------------------
(***************************************************************************)
(* For any number of callers, contents and records, however transitions    *)
(* and decisions overlap and whatever stamps they bear: a record of the    *)
(* lifecycle has the approvals its status takes.  Records of calls that do *)
(* not overlap form a ladder.  And a Specification is approved with what   *)
(* it was submitted with.                                                  *)
(***************************************************************************)
EXTENDS LifecycleProps, TLAPS

\* A call, whatever subject stands in for one that is not made.
Transition ==
  [pc : {"idle", "reading", "evaluated", "saving"}, requested : Statuses,
   current : Statuses \cup {"none"}, at : Nat,
   subject : Subjects \cup {CHOOSE s \in Subjects : TRUE}, authorized : BOOLEAN]

Record ==
  [status : Statuses, previous : Statuses \cup {"none"},
   subject : Subjects \cup {CHOOSE s \in Subjects : TRUE}, authorized : BOOLEAN, at : Nat]

\* What people have approved is enough for a record that says `status`.
Sustains(ds, status, subject) ==
  \A s \in StagesOf(status) : Approved(ds, s, subject.version, subject.digest)

\* What a call relies on: the policy let it complete only with authorization, and
\* when it saves it has seen the approvals, which nobody takes back.
Relies(t) ==
  /\ t.pc \in {"evaluated", "saving"} /\ t.requested = "completed" => t.authorized
  /\ t.pc = "saving" => Sustains(decisions, t.requested, t.subject)

GovernedInv ==
  /\ records \in Seq(Record)
  /\ clock \in Nat
  /\ tjob \in [Actors -> Transition]
  /\ \A a \in Actors : Relies(tjob[a])
  /\ RecordsAreApproved

--------------------------------------------------------------------------------
(* The policy                                                              *)

\* The stage a status requires has all the stages below it, so that one
\* evaluation sees every approval the status takes.
LEMMA RequiredStageSuffices ==
  ASSUME NEW ds, NEW status \in Statuses, NEW subject,
         \A stage \in RequiredStage(status) :
           Allowed(ds, stage, subject.version, subject.digest)
  PROVE  Sustains(ds, status, subject)
<1>1. \A s \in Stages : StageRank[s] <= StageRank["verification-completion"]
  BY DEF Stages, StageRank
<1>2. \A s \in Stages \ {"verification-completion"} : StageRank[s] <= StageRank["apply-readiness"]
  BY DEF Stages, StageRank
<1>3. ASSUME status = "completed"
      PROVE  Sustains(ds, status, subject)
  <2>1. Allowed(ds, "verification-completion", subject.version, subject.digest)
    BY <1>3 DEF RequiredStage
  <2>2. QED
    BY <1>1, <1>3, <2>1 DEF Allowed, RequiredStages, Sustains, StagesOf
<1>4. ASSUME status \in {"approved", "executing"}
      PROVE  Sustains(ds, status, subject)
  <2>1. Allowed(ds, "apply-readiness", subject.version, subject.digest)
    BY <1>4 DEF RequiredStage
  <2>2. QED
    BY <1>2, <1>4, <2>1 DEF Allowed, RequiredStages, Sustains, StagesOf
<1>5. QED
  BY <1>3, <1>4 DEF Sustains, StagesOf

\* Decisions are only added, so what sustained a status goes on to.
LEMMA ApprovalsStay ==
  ASSUME NEW ds, NEW more, ds \subseteq more, NEW status, NEW subject,
         Sustains(ds, status, subject)
  PROVE  Sustains(more, status, subject)
BY DEF Sustains, Approved, DecisionsOn

\* completed is only let through with an authorization.
LEMMA CompletionIsAuthorized ==
  ASSUME NEW current \in Statuses \cup {"none"}, NEW authorized \in BOOLEAN,
         MayMove(current, "completed", authorized)
  PROVE  authorized
BY DEF MayMove

--------------------------------------------------------------------------------
(* The invariant                                                           *)

LEMMA IdleRelies == NoTransition \in Transition /\ Relies(NoTransition)
BY DEF NoTransition, Transition, Relies, Statuses

\* One call goes on, with what it may rely on at its next point.
LEMMA CallGoesOn ==
  ASSUME GovernedInv, NEW a \in Actors, NEW t \in Transition,
         tjob' = [tjob EXCEPT ![a] = t], Relies(t),
         UNCHANGED <<decisions, records>>, clock' \in Nat
  PROVE  GovernedInv'
<1>1. tjob' \in [Actors -> Transition]
  BY DEF GovernedInv
<1>2. \A b \in Actors : Relies(tjob[b])'
  BY DEF GovernedInv, Relies
<1>3. RecordsAreApproved'
  BY DEF GovernedInv, RecordsAreApproved
<1>4. QED
  BY <1>1, <1>2, <1>3 DEF GovernedInv

LEMMA DecideKeepsInv ==
  ASSUME GovernedInv, NEW d, Decide(d)
  PROVE  GovernedInv'
<1>1. decisions \subseteq decisions' /\ UNCHANGED <<records, clock, tjob>>
  BY DEF Decide
<1>2. ASSUME NEW a \in Actors
      PROVE  Relies(tjob[a])'
  BY <1>1, ApprovalsStay DEF GovernedInv, Relies
<1>3. RecordsAreApproved'
  <2>1. ASSUME NEW k \in DOMAIN records
        PROVE  Sustains(decisions', records[k].status, records[k].subject)
    <3>1. Sustains(decisions, records[k].status, records[k].subject)
      BY DEF GovernedInv, RecordsAreApproved, Sustains
    <3>2. QED
      BY <1>1, <3>1, ApprovalsStay
  <2>2. QED
    BY <1>1, <2>1 DEF GovernedInv, RecordsAreApproved, Sustains
<1>4. QED
  BY <1>1, <1>2, <1>3 DEF GovernedInv

LEMMA RequestKeepsInv ==
  ASSUME GovernedInv, NEW a \in Actors, NEW requested \in Statuses,
         NEW subject \in Subjects, NEW authorized \in BOOLEAN,
         RequestTransition(a, requested, subject, authorized)
  PROVE  GovernedInv'
<1> DEFINE t(at) == [NoTransition EXCEPT !.pc = "reading", !.requested = requested,
                   !.subject = subject, !.authorized = authorized, !.at = at]
<1>1. PICK at \in Stamps :
        /\ tjob' = [tjob EXCEPT ![a] = t(at)]
        /\ clock' = IF at > clock THEN at ELSE clock
        /\ UNCHANGED <<decisions, records>>
  BY DEF RequestTransition
<1>2. at \in Nat /\ clock' \in Nat
  BY <1>1 DEF Stamps, GovernedInv
<1>3. t(at) \in Transition /\ Relies(t(at))
  BY <1>2 DEF NoTransition, Transition, Relies, Statuses
<1>4. QED
  BY <1>1, <1>2, <1>3, CallGoesOn

LEMMA ReadCurrentKeepsInv ==
  ASSUME GovernedInv, NEW a \in Actors, ReadCurrent(a)
  PROVE  GovernedInv'
<1>1. CurrentStatuses \subseteq Statuses \cup {"none"}
  <2>1. \A k \in DOMAIN records : records[k] \in Record
    BY DEF GovernedInv
  <2>2. QED
    BY <2>1 DEF CurrentStatuses, Latest, Record
<1>2. PICK current \in CurrentStatuses :
        IF MayMove(current, tjob[a].requested, tjob[a].authorized)
        THEN tjob' = [tjob EXCEPT ![a].pc = "evaluated", ![a].current = current]
        ELSE TEnd(a)
  BY DEF ReadCurrent
<1>3. tjob[a] \in Transition /\ UNCHANGED <<decisions, records, clock>>
  BY DEF ReadCurrent, GovernedInv
<1>4. ASSUME MayMove(current, tjob[a].requested, tjob[a].authorized)
      PROVE  GovernedInv'
  <2> DEFINE t == [tjob[a] EXCEPT !.pc = "evaluated", !.current = current]
  <2>1. t \in Transition /\ t.pc = "evaluated" /\ t.requested = tjob[a].requested
        /\ t.authorized = tjob[a].authorized
    BY <1>1, <1>3 DEF Transition
  <2>2. tjob[a].requested = "completed" => tjob[a].authorized
    BY <1>1, <1>3, <1>4, CompletionIsAuthorized DEF Transition
  <2>3. Relies(t)
    BY <2>1, <2>2 DEF Relies
  <2>4. tjob' = [tjob EXCEPT ![a] = t]
    BY <1>2, <1>4 DEF GovernedInv
  <2>5. QED
    BY <1>3, <2>1, <2>3, <2>4, CallGoesOn DEF GovernedInv
<1>5. ASSUME TEnd(a)
      PROVE  GovernedInv'
  BY <1>3, <1>5, IdleRelies, CallGoesOn DEF TEnd, GovernedInv
<1>6. QED
  BY <1>2, <1>4, <1>5

LEMMA ReadApprovalsKeepsInv ==
  ASSUME GovernedInv, NEW a \in Actors, ReadApprovals(a)
  PROVE  GovernedInv'
<1> DEFINE t == [tjob[a] EXCEPT !.pc = "saving"]
           subject == tjob[a].subject
           passes == \A stage \in RequiredStage(tjob[a].requested) :
                       Allowed(decisions, stage, subject.version, subject.digest)
<1>1. /\ tjob[a] \in Transition /\ Relies(tjob[a]) /\ tjob[a].pc = "evaluated"
      /\ UNCHANGED <<decisions, records, clock>>
  BY DEF ReadApprovals, TAt, GovernedInv
<1>2. IF passes THEN tjob' = [tjob EXCEPT ![a].pc = "saving"] ELSE TEnd(a)
  BY DEF ReadApprovals
<1>3. ASSUME passes
      PROVE  GovernedInv'
  <2>1. tjob[a].requested \in Statuses
    BY <1>1 DEF Transition
  <2>2. Sustains(decisions, tjob[a].requested, subject)
    BY <1>3, <2>1, RequiredStageSuffices
  <2>3. t \in Transition /\ t.requested = tjob[a].requested
        /\ t.subject = subject /\ t.authorized = tjob[a].authorized
    BY <1>1 DEF Transition
  <2>4. Relies(t)
    BY <1>1, <2>2, <2>3 DEF Relies
  <2>5. tjob' = [tjob EXCEPT ![a] = t]
    BY <1>2, <1>3 DEF GovernedInv
  <2>6. QED
    BY <1>1, <2>3, <2>4, <2>5, CallGoesOn DEF GovernedInv
<1>4. ASSUME TEnd(a)
      PROVE  GovernedInv'
  BY <1>1, <1>4, IdleRelies, CallGoesOn DEF TEnd, GovernedInv
<1>5. QED
  BY <1>2, <1>3, <1>4

\* Nothing is compared again: the record rests on what the call has seen.
LEMMA SaveKeepsInv ==
  ASSUME GovernedInv, NEW a \in Actors, SaveRecord(a)
  PROVE  GovernedInv'
<1> DEFINE r == [status |-> tjob[a].requested, previous |-> tjob[a].current,
                 subject |-> tjob[a].subject, authorized |-> tjob[a].authorized,
                 at |-> tjob[a].at]
<1>1. /\ records' = Append(records, r) /\ tjob' = [tjob EXCEPT ![a] = NoTransition]
      /\ UNCHANGED <<decisions, clock>>
  BY DEF SaveRecord, TEnd
<1>2. tjob[a] \in Transition /\ Relies(tjob[a]) /\ tjob[a].pc = "saving"
  BY DEF SaveRecord, TAt, GovernedInv
<1>3. r \in Record
  BY <1>2 DEF Transition, Record
<1>4. records \in Seq(Record)
  BY DEF GovernedInv
<1>5. /\ records' \in Seq(Record)
      /\ \A k \in DOMAIN records' : records'[k] = r \/ (k \in DOMAIN records /\ records'[k] = records[k])
  BY <1>1, <1>3, <1>4
<1>6. Sustains(decisions, r.status, r.subject) /\ (r.status = "completed" => r.authorized)
  BY <1>2 DEF Relies
<1>7. RecordsAreApproved'
  BY <1>1, <1>5, <1>6 DEF GovernedInv, RecordsAreApproved, Sustains
<1>8. tjob' \in [Actors -> Transition]
  BY <1>1, IdleRelies DEF GovernedInv
<1>9. \A b \in Actors : Relies(tjob[b])'
  BY <1>1, IdleRelies DEF GovernedInv, Relies
<1>10. QED
  BY <1>1, <1>5, <1>7, <1>8, <1>9 DEF GovernedInv

LEMMA GovernedStepKeepsInv ==
  GovernedInv /\ [GovernedNext]_governedVars => GovernedInv'
<1> SUFFICES ASSUME GovernedInv, [GovernedNext]_governedVars
             PROVE  GovernedInv'
  OBVIOUS
<1>1. ASSUME NEW d \in Decidable, Decide(d)
      PROVE  GovernedInv'
  BY <1>1, DecideKeepsInv
<1>2. ASSUME NEW a \in Actors, ActorStep(a)
      PROVE  GovernedInv'
  BY <1>2, RequestKeepsInv, ReadCurrentKeepsInv, ReadApprovalsKeepsInv, SaveKeepsInv DEF ActorStep
<1>3. ASSUME UNCHANGED governedVars
      PROVE  GovernedInv'
  BY <1>3 DEF governedVars, GovernedInv, Relies, RecordsAreApproved
<1>4. QED
  BY <1>1, <1>2, <1>3 DEF GovernedNext

\* TransitionGovernedChangeUseCase: no record is approved, executing or completed
\* without the approvals of its own version and digest, and none is completed
\* without authorization, however calls and decisions overlap.
THEOREM LifecycleIsApproved == GovernedSpec => []RecordsAreApproved
<1>1. GovernedInit => GovernedInv
  BY IdleRelies DEF GovernedInit, GovernedInv, RecordsAreApproved
<1>2. GovernedInv => RecordsAreApproved
  BY DEF GovernedInv
<1>3. QED
  BY <1>1, <1>2, GovernedStepKeepsInv, PTL DEF GovernedSpec

--------------------------------------------------------------------------------
(* One call at a time                                                      *)

LastStatus == IF records = <<>> THEN "none" ELSE records[Len(records)].status

\* What a status may follow.
Follows(before, status) ==
  IF before = "none" THEN status = "proposed" ELSE status \in Transitions[before]

\* The stamps of the records go up.
StampsRise == \A j, k \in DOMAIN records : j < k => records[j].at < records[k].at

\* A call has a later stamp, and what it has read is still the last record.
UpToDate(t) ==
  /\ t.pc # "idle" => \A k \in DOMAIN records : records[k].at < t.at
  /\ t.pc \in {"evaluated", "saving"} =>
       t.current = LastStatus /\ Follows(t.current, t.requested)

Ladder ==
  \A k \in DOMAIN records :
    LET before == IF k = 1 THEN "none" ELSE records[k - 1].status
    IN records[k].previous = before /\ Follows(before, records[k].status)

Orderly ==
  /\ \A a, b \in Actors : ~TAt(a, "idle") /\ ~TAt(b, "idle") => a = b
  /\ StampsRise
  /\ \A a \in Actors : UpToDate(tjob[a])
  /\ Ladder

LadderInv ==
  /\ GovernedInv
  /\ crossings \in Nat
  /\ crossings = 0 => Orderly

\* The policy lets a Change move along its lifecycle.
LEMMA MovesFollow ==
  ASSUME NEW current, NEW requested, NEW authorized, MayMove(current, requested, authorized)
  PROVE  Follows(current, requested)
BY DEF MayMove, Follows

LEMMA RecordFields ==
  ASSUME records \in Seq(Record)
  PROVE  \A k \in DOMAIN records : records[k].at \in Nat /\ records[k].status \in Statuses
<1>1. \A k \in DOMAIN records : records[k] \in Record
  OBVIOUS
<1>2. QED
  BY <1>1 DEF Record

\* With rising stamps the record that counts as current is the last one.
LEMMA CurrentIsLast ==
  ASSUME records \in Seq(Record), StampsRise, NEW current \in CurrentStatuses
  PROVE  current = LastStatus
<1>1. CASE records = <<>>
  BY <1>1 DEF CurrentStatuses, LastStatus
<1>2. CASE records # <<>>
  <2>1. PICK k \in Latest : current = records[k].status
    BY <1>2 DEF CurrentStatuses
  <2>2. DOMAIN records = 1..Len(records) /\ Len(records) \in Nat \ {0}
    BY <1>2
  <2>3. k \in DOMAIN records /\ records[Len(records)].at <= records[k].at
    BY <2>1, <2>2 DEF Latest
  <2>4. \A j \in DOMAIN records : records[j].at \in Nat
    BY RecordFields
  <2>5. k = Len(records)
    <3>1. ASSUME k < Len(records)
          PROVE  FALSE
      <4>1. records[k].at < records[Len(records)].at
        BY <2>2, <2>3, <3>1 DEF StampsRise
      <4>2. QED
        BY <2>2, <2>3, <2>4, <4>1
    <3>2. QED
      BY <2>2, <2>3, <3>1
  <2>6. QED
    BY <1>2, <2>1, <2>5 DEF LastStatus
<1>3. QED
  BY <1>1, <1>2

\* One call goes on from where it was, or ends: order stays.
LEMMA CallKeepsOrder ==
  ASSUME GovernedInv, Orderly, NEW a \in Actors, NEW t,
         tjob' = [tjob EXCEPT ![a] = t], UpToDate(t),
         ~TAt(a, "idle") \/ t.pc = "idle", UNCHANGED records
  PROVE  Orderly'
<1>1. \A b \in Actors : tjob'[b] = IF b = a THEN t ELSE tjob[b]
  BY DEF GovernedInv
<1>2. \A b, c \in Actors : ~TAt(b, "idle")' /\ ~TAt(c, "idle")' => b = c
  BY <1>1 DEF Orderly, TAt
<1>3. \A b \in Actors : UpToDate(tjob'[b])
  BY <1>1 DEF Orderly
<1>4. \A b \in Actors : UpToDate(tjob[b])'
  BY <1>3 DEF UpToDate, LastStatus
<1>5. StampsRise' /\ Ladder'
  BY DEF Orderly, StampsRise, Ladder
<1>6. QED
  BY <1>2, <1>4, <1>5 DEF Orderly

LEMMA RequestKeepsLadder ==
  ASSUME LadderInv, NEW a \in Actors, NEW requested \in Statuses,
         NEW subject \in Subjects, NEW authorized \in BOOLEAN,
         RequestTransition(a, requested, subject, authorized)
  PROVE  crossings' \in Nat /\ (crossings' = 0 => Orderly')
<1>1. PICK at \in Stamps :
        /\ tjob' = [tjob EXCEPT ![a] = [NoTransition EXCEPT
              !.pc = "reading", !.requested = requested, !.subject = subject,
              !.authorized = authorized, !.at = at]]
        /\ crossings' = IF \/ \E other \in Actors : ~TAt(other, "idle")
                           \/ \E k \in DOMAIN records : at <= records[k].at
                        THEN crossings + 1 ELSE crossings
        /\ records' = records
  BY DEF RequestTransition
<1>2. /\ crossings' \in Nat
      /\ crossings' = 0 => /\ crossings = 0
                           /\ \A other \in Actors : TAt(other, "idle")
                           /\ \A k \in DOMAIN records : ~(at <= records[k].at)
  BY <1>1 DEF LadderInv
<1>3. SUFFICES ASSUME crossings' = 0
               PROVE  Orderly'
  BY <1>2
<1>4. PICK t : t = [NoTransition EXCEPT !.pc = "reading", !.requested = requested,
                      !.subject = subject, !.authorized = authorized, !.at = at]
  OBVIOUS
<1>5. t.pc = "reading" /\ t.at = at
  BY <1>4 DEF NoTransition
<1>6. tjob' = [tjob EXCEPT ![a] = t]
  BY <1>1, <1>4
<1>7. Orderly /\ records \in Seq(Record) /\ clock \in Nat /\ tjob \in [Actors -> Transition]
  BY <1>2, <1>3 DEF LadderInv, GovernedInv
<1>8. at \in Nat
  BY <1>1, <1>7 DEF Stamps
<1>9. \A k \in DOMAIN records : records[k].at < at
  BY <1>2, <1>3, <1>7, <1>8, RecordFields
<1>10. \A b \in Actors : tjob'[b] = IF b = a THEN t ELSE tjob[b]
  BY <1>6, <1>7
<1>11. \A b \in Actors : tjob[b].pc = "idle"
  BY <1>2, <1>3 DEF TAt
<1>12. \A b, c \in Actors : ~TAt(b, "idle")' /\ ~TAt(c, "idle")' => b = c
  BY <1>10, <1>11 DEF TAt
<1>13. \A b \in Actors : UpToDate(tjob[b])'
  <2>1. ASSUME NEW b \in Actors
        PROVE  /\ tjob'[b].pc # "idle" => tjob'[b].at = at
               /\ tjob'[b].pc \notin {"evaluated", "saving"}
    BY <1>5, <1>10, <1>11
  <2>2. QED
    BY <1>1, <1>9, <2>1 DEF UpToDate
<1>14. StampsRise' /\ Ladder'
  BY <1>1, <1>7 DEF Orderly, StampsRise, Ladder
<1>15. QED
  BY <1>12, <1>13, <1>14 DEF Orderly

LEMMA IdleIsUpToDate == NoTransition.pc = "idle" /\ UpToDate(NoTransition)
BY DEF NoTransition, UpToDate

LEMMA ReadCurrentKeepsOrder ==
  ASSUME GovernedInv, Orderly, NEW a \in Actors, ReadCurrent(a)
  PROVE  Orderly'
<1>1. PICK current \in CurrentStatuses :
        IF MayMove(current, tjob[a].requested, tjob[a].authorized)
        THEN tjob' = [tjob EXCEPT ![a].pc = "evaluated", ![a].current = current]
        ELSE TEnd(a)
  BY DEF ReadCurrent
<1>2. /\ tjob \in [Actors -> Transition] /\ tjob[a] \in Transition /\ tjob[a].pc = "reading"
      /\ UNCHANGED <<records, clock>>
  BY DEF ReadCurrent, TAt, GovernedInv
<1>3. current = LastStatus
  BY CurrentIsLast DEF GovernedInv, Orderly
<1>4. ASSUME MayMove(current, tjob[a].requested, tjob[a].authorized)
      PROVE  Orderly'
  <2>1. PICK t : t = [tjob[a] EXCEPT !.pc = "evaluated", !.current = current]
    OBVIOUS
  <2>2. t.pc = "evaluated" /\ t.current = current /\ t.requested = tjob[a].requested
        /\ t.at = tjob[a].at
    BY <1>2, <2>1 DEF Transition
  <2>3. tjob' = [tjob EXCEPT ![a] = t]
    BY <1>1, <1>2, <1>4, <2>1
  <2>4. UpToDate(tjob[a]) /\ Follows(current, tjob[a].requested)
    BY <1>4, MovesFollow DEF Orderly
  <2>5. UpToDate(t)
    BY <1>2, <1>3, <2>2, <2>4 DEF UpToDate
  <2>6. QED
    BY <1>2, <2>3, <2>5, CallKeepsOrder DEF TAt
<1>5. ASSUME TEnd(a)
      PROVE  Orderly'
  BY <1>2, <1>5, IdleIsUpToDate, CallKeepsOrder DEF TEnd, TAt
<1>6. QED
  BY <1>1, <1>4, <1>5

LEMMA ReadApprovalsKeepsOrder ==
  ASSUME GovernedInv, Orderly, NEW a \in Actors, ReadApprovals(a)
  PROVE  Orderly'
<1>1. /\ tjob \in [Actors -> Transition] /\ tjob[a] \in Transition /\ tjob[a].pc = "evaluated"
      /\ UNCHANGED <<records, clock>>
      /\ tjob' = [tjob EXCEPT ![a].pc = "saving"] \/ TEnd(a)
  BY DEF ReadApprovals, TAt, GovernedInv
<1>2. ASSUME tjob' = [tjob EXCEPT ![a].pc = "saving"]
      PROVE  Orderly'
  <2>1. PICK t : t = [tjob[a] EXCEPT !.pc = "saving"]
    OBVIOUS
  <2>2. t.pc = "saving" /\ t.current = tjob[a].current /\ t.requested = tjob[a].requested
        /\ t.at = tjob[a].at
    BY <1>1, <2>1 DEF Transition
  <2>3. tjob' = [tjob EXCEPT ![a] = t]
    BY <1>1, <1>2, <2>1
  <2>4. UpToDate(t)
    BY <1>1, <2>2 DEF Orderly, UpToDate
  <2>5. QED
    BY <1>1, <2>3, <2>4, CallKeepsOrder DEF TAt
<1>3. ASSUME TEnd(a)
      PROVE  Orderly'
  BY <1>1, <1>3, IdleIsUpToDate, CallKeepsOrder DEF TEnd, TAt
<1>4. QED
  BY <1>1, <1>2, <1>3

\* The record that is saved is a rung of its own, on top of the ladder.
LEMMA SaveKeepsOrder ==
  ASSUME GovernedInv, Orderly, NEW a \in Actors, SaveRecord(a)
  PROVE  Orderly'
<1>1. PICK r : r = [status |-> tjob[a].requested, previous |-> tjob[a].current,
                    subject |-> tjob[a].subject, authorized |-> tjob[a].authorized,
                    at |-> tjob[a].at]
  OBVIOUS
<1>2. /\ r.status = tjob[a].requested /\ r.previous = tjob[a].current /\ r.at = tjob[a].at
      /\ records' = Append(records, r) /\ tjob' = [tjob EXCEPT ![a] = NoTransition]
      /\ tjob[a].pc = "saving"
  BY <1>1 DEF SaveRecord, TEnd, TAt
<1>3. /\ tjob \in [Actors -> Transition] /\ tjob[a] \in Transition /\ records \in Seq(Record)
      /\ UpToDate(tjob[a]) /\ StampsRise /\ Ladder
  BY DEF GovernedInv, Orderly
<1>4. PICK n \in Nat : n = Len(records)
  BY <1>3
<1>5. /\ DOMAIN records = 1..n /\ DOMAIN records' = 1..(n + 1)
      /\ records'[n + 1] = r /\ \A k \in 1..n : records'[k] = records[k]
  BY <1>2, <1>3, <1>4
<1>6. /\ \A k \in 1..n : records[k].at < r.at
      /\ r.previous = LastStatus /\ Follows(r.previous, r.status)
  BY <1>2, <1>3, <1>5 DEF UpToDate
<1>7. \A k \in 1..n : records[k].at \in Nat
  BY <1>3, <1>5, RecordFields
<1>8. StampsRise'
  <2>1. \A k \in 1..(n + 1) : k = n + 1 \/ k \in 1..n
    BY <1>4
  <2>2. ASSUME NEW j \in 1..(n + 1), NEW k \in 1..(n + 1), j < k
        PROVE  records'[j].at < records'[k].at
    <3>1. j \in 1..n
      BY <2>2
    <3>2. ASSUME k \in 1..n
          PROVE  records'[j].at < records'[k].at
      BY <1>3, <1>5, <2>2, <3>1, <3>2 DEF StampsRise
    <3>3. ASSUME k = n + 1
          PROVE  records'[j].at < records'[k].at
      BY <1>5, <1>6, <3>1, <3>3
    <3>4. QED
      BY <2>1, <3>2, <3>3
  <2>3. QED
    BY <1>5, <2>2 DEF StampsRise
<1>9. Ladder'
  <2>1. ASSUME NEW k \in 1..n
        PROVE  LET before == IF k = 1 THEN "none" ELSE records'[k - 1].status
               IN records'[k].previous = before /\ Follows(before, records'[k].status)
    <3>1. k # 1 => k - 1 \in 1..n
      BY <1>4
    <3>2. QED
      BY <1>3, <1>5, <3>1 DEF Ladder
  <2>2. LastStatus = IF n + 1 = 1 THEN "none" ELSE records'[n].status
    <3>1. records # <<>> => Len(records) # 0
      BY <1>3
    <3>2. n # 0 => records # <<>> /\ n \in 1..n /\ n + 1 # 1
      BY <1>4
    <3>3. QED
      BY <1>4, <1>5, <3>1, <3>2 DEF LastStatus
  <2>3. LET before == IF n + 1 = 1 THEN "none" ELSE records'[(n + 1) - 1].status
        IN records'[n + 1].previous = before /\ Follows(before, records'[n + 1].status)
    <3>1. (n + 1) - 1 = n
      BY <1>4
    <3>2. QED
      BY <1>5, <1>6, <2>2, <3>1
  <2>4. \A k \in 1..(n + 1) : k = n + 1 \/ k \in 1..n
    BY <1>4
  <2>5. QED
    BY <1>5, <2>1, <2>3, <2>4 DEF Ladder
<1>10. \A b \in Actors : tjob'[b].pc = "idle"
  <2>1. ASSUME NEW b \in Actors, b # a
        PROVE  tjob[b].pc = "idle"
    BY <1>2, <2>1 DEF Orderly, TAt
  <2>2. QED
    BY <1>2, <1>3, <2>1, IdleIsUpToDate
<1>11. QED
  BY <1>8, <1>9, <1>10 DEF Orderly, TAt, UpToDate

LEMMA LadderStepKeepsInv ==
  LadderInv /\ [GovernedNext]_governedVars => LadderInv'
<1> SUFFICES ASSUME LadderInv, [GovernedNext]_governedVars
             PROVE  LadderInv'
  OBVIOUS
<1>1. GovernedInv /\ GovernedInv'
  BY GovernedStepKeepsInv DEF LadderInv
<1>2. crossings \in Nat
  BY DEF LadderInv
<1>3. ASSUME crossings' = crossings, crossings = 0 /\ Orderly => Orderly'
      PROVE  LadderInv'
  BY <1>1, <1>2, <1>3 DEF LadderInv
<1>4. ASSUME UNCHANGED <<records, clock, tjob>>, Orderly
      PROVE  Orderly'
  BY <1>4 DEF Orderly, TAt, StampsRise, UpToDate, LastStatus, Ladder
<1>5. ASSUME NEW d \in Decidable, Decide(d)
      PROVE  LadderInv'
  BY <1>3, <1>4, <1>5 DEF Decide
<1>6. ASSUME NEW a \in Actors, ActorStep(a)
      PROVE  LadderInv'
  <2>1. ASSUME NEW requested \in Statuses, NEW subject \in Subjects, NEW authorized \in BOOLEAN,
               RequestTransition(a, requested, subject, authorized)
        PROVE  LadderInv'
    BY <1>1, <2>1, RequestKeepsLadder DEF LadderInv
  <2>2. ASSUME ReadCurrent(a) \/ ReadApprovals(a) \/ SaveRecord(a)
        PROVE  LadderInv'
    <3>1. crossings' = crossings
      BY <2>2 DEF ReadCurrent, ReadApprovals, SaveRecord
    <3>2. Orderly => Orderly'
      BY <1>1, <2>2, ReadCurrentKeepsOrder, ReadApprovalsKeepsOrder, SaveKeepsOrder
    <3>3. QED
      BY <1>3, <3>1, <3>2
  <2>3. QED
    BY <1>6, <2>1, <2>2 DEF ActorStep
<1>7. ASSUME UNCHANGED governedVars
      PROVE  LadderInv'
  BY <1>3, <1>4, <1>7 DEF governedVars
<1>8. QED
  BY <1>5, <1>6, <1>7 DEF GovernedNext

LEMMA LadderIsHistory == LadderInv => HistoryIsALadder
<1> SUFFICES ASSUME LadderInv, crossings = 0
             PROVE  HistoryIsALadder
  BY DEF HistoryIsALadder
<1>1. records \in Seq(Record) /\ Ladder
  BY DEF LadderInv, GovernedInv, Orderly
<1>2. \A k \in DOMAIN records : k # 1 => k - 1 \in DOMAIN records /\ records[k - 1].status \in Statuses
  BY <1>1, RecordFields
<1>3. "none" \notin Statuses
  BY DEF Statuses
<1>4. QED
  BY <1>1, <1>2, <1>3 DEF HistoryIsALadder, Ladder, Follows

\* TransitionGovernedChangeUseCase, for any number of callers and any length of the
\* history: calls that do not overlap, each with a stamp of its own, leave records
\* each of which continues the one before it by a legal step.
THEOREM SoleCallsClimb == GovernedSpec => []HistoryIsALadder
<1>1. GovernedInit => LadderInv
  <2>1. ASSUME GovernedInit
        PROVE  GovernedInv
    BY <2>1, IdleRelies DEF GovernedInit, GovernedInv, RecordsAreApproved
  <2>2. ASSUME GovernedInit
        PROVE  Orderly
    BY <2>2, IdleIsUpToDate
       DEF GovernedInit, Orderly, TAt, StampsRise, UpToDate, LastStatus, Ladder
  <2>3. QED
    BY <2>1, <2>2 DEF LadderInv, GovernedInit
<1>2. QED
  BY <1>1, LadderIsHistory, LadderStepKeepsInv, PTL DEF GovernedSpec

--------------------------------------------------------------------------------
(* The aggregates                                                          *)

SpecTyped ==
  spec \in [status : SpecStatuses, requirements : [RequirementIds -> SUBSET ScenarioIds]]

\* Only a completed Review has a result.
ReviewFits ==
  /\ review \in [status : {"pending", "in-progress", "completed", "cancelled"},
                 result : {"none", "approved", "rejected", "changes-requested"}]
  /\ review.result # "none" <=> review.status = "completed"

\* What has been submitted has something in it.
DomainInv ==
  /\ SpecTyped /\ ReviewFits
  /\ spec.status \in {"in-review", "approved", "superseded"} => Held # {}

\* A requirement is set while the Specification is a draft, and that it stays.
LEMMA SetKeepsDraft ==
  ASSUME SpecTyped, IsDraft, NEW r, NEW scenarios \in SUBSET ScenarioIds,
         SetRequirement(r, scenarios)
  PROVE  SpecTyped' /\ IsDraft'
BY DEF SpecTyped, IsDraft, SetRequirement

\* A move leaves the requirements alone.
LEMMA MoveKeepsHeld ==
  ASSUME SpecTyped, NEW status \in SpecStatuses, Move(status)
  PROVE  SpecTyped' /\ spec'.status = status /\ spec'.requirements = spec.requirements
BY DEF SpecTyped, Move

\* What a step of the Specification may do.
SpecGoesOn ==
  /\ SpecTyped'
  /\ spec.status # "draft" => spec'.status # "draft" /\ spec'.requirements = spec.requirements
  /\ spec'.status \in {"in-review", "approved", "superseded"} => Held' # {}

LEMMA SpecStepGoesOn ==
  ASSUME DomainInv, SpecStep
  PROVE  SpecGoesOn /\ UNCHANGED others
<1>1. SpecTyped
  BY DEF DomainInv
<1>2. ASSUME IsDraft, NEW r, NEW scenarios \in SUBSET ScenarioIds, SetRequirement(r, scenarios)
      PROVE  SpecGoesOn
  <2>1. SpecTyped' /\ spec.status = "draft" /\ spec'.status = "draft"
    BY <1>1, <1>2, SetKeepsDraft DEF IsDraft
  <2>2. QED
    BY <2>1 DEF SpecGoesOn
<1>3. ASSUME NEW status \in SpecStatuses \ {"draft"}, Move(status),
             status \in {"in-review", "approved", "superseded"} => Held # {}
      PROVE  SpecGoesOn
  <2>1. SpecTyped' /\ spec'.status = status /\ spec'.requirements = spec.requirements
    BY <1>1, <1>3, MoveKeepsHeld
  <2>2. Held' = Held
    BY <2>1 DEF Held
  <2>3. QED
    BY <1>3, <2>1, <2>2 DEF SpecGoesOn
<1>4. ASSUME NEW r \in RequirementIds, NEW scenarios \in Requirements, AddRequirement(r, scenarios)
      PROVE  SpecGoesOn /\ UNCHANGED others
  BY <1>2, <1>4 DEF AddRequirement, Requirements
<1>5. ASSUME NEW r \in RequirementIds, RemoveRequirement(r)
      PROVE  SpecGoesOn /\ UNCHANGED others
  BY <1>2, <1>5 DEF RemoveRequirement
<1>6. ASSUME NEW r \in RequirementIds, NEW s \in ScenarioIds, UpdateRequirement(r, s)
      PROVE  SpecGoesOn /\ UNCHANGED others
  <2>1. spec.requirements[r] \in SUBSET ScenarioIds
    BY <1>1 DEF SpecTyped
  <2>2. PICK changed \in WithScenario(spec.requirements[r], s)
                           \cup WithoutScenario(spec.requirements[r], s) :
               SetRequirement(r, changed)
    BY <1>6 DEF UpdateRequirement
  <2>3. changed \in SUBSET ScenarioIds
    BY <2>1, <2>2 DEF WithScenario, WithoutScenario, Requirements
  <2>4. QED
    BY <1>2, <1>6, <2>2, <2>3 DEF UpdateRequirement
<1>7. ASSUME SubmitForReview \/ ApproveSpec \/ SupersedeSpec \/ ArchiveSpec
      PROVE  SpecGoesOn /\ UNCHANGED others
  <2>1. ASSUME SubmitForReview
        PROVE  SpecGoesOn /\ UNCHANGED others
    BY <1>3, <2>1 DEF SubmitForReview, SpecStatuses
  <2>2. ASSUME ApproveSpec
        PROVE  SpecGoesOn /\ UNCHANGED others
    BY <1>3, <2>2 DEF ApproveSpec, SpecStatuses, DomainInv
  <2>3. ASSUME SupersedeSpec
        PROVE  SpecGoesOn /\ UNCHANGED others
    BY <1>3, <2>3 DEF SupersedeSpec, SpecStatuses, DomainInv
  <2>4. ASSUME ArchiveSpec
        PROVE  SpecGoesOn /\ UNCHANGED others
    BY <1>3, <2>4 DEF ArchiveSpec, SpecStatuses
  <2>5. QED
    BY <1>7, <2>1, <2>2, <2>3, <2>4
<1>8. QED
  BY <1>4, <1>5, <1>6, <1>7 DEF SpecStep

LEMMA ReviewStepGoesOn ==
  ASSUME ReviewFits, ReviewStep
  PROVE  /\ ReviewFits'
         /\ UNCHANGED <<spec, intent, release, workItem>>
<1>1. ASSUME StartReview
      PROVE  /\ ReviewFits'
             /\ UNCHANGED <<spec, intent, release, workItem>>
  BY <1>1 DEF StartReview, Conclude, ReviewFits
<1>2. ASSUME CompleteReview
      PROVE  /\ ReviewFits'
             /\ UNCHANGED <<spec, intent, release, workItem>>
  BY <1>2 DEF CompleteReview, Conclude, ReviewFits
<1>3. ASSUME CancelReview
      PROVE  /\ ReviewFits'
             /\ UNCHANGED <<spec, intent, release, workItem>>
  BY <1>3 DEF CancelReview, Conclude, ReviewFits
<1>4. QED
  BY <1>1, <1>2, <1>3 DEF ReviewStep

\* What WhatIsReviewedStands says of one step.
Stays ==
  /\ spec'.status \in {"in-review", "approved", "superseded"} =>
       \E r \in RequirementIds : spec'.requirements[r] # {}
  /\ spec.status # "draft" =>
       spec'.status # "draft" /\ spec'.requirements = spec.requirements
  /\ review'.result # "none" <=> review'.status = "completed"

LEMMA DomainStepGoesOn ==
  ASSUME DomainInv, [DomainNext]_domainVars
  PROVE  DomainInv' /\ Stays
<1>1. SpecTyped /\ ReviewFits
  BY DEF DomainInv
<1>2. ASSUME spec' = spec
      PROVE  SpecGoesOn
  BY <1>1, <1>2 DEF SpecGoesOn, SpecTyped, DomainInv, Held
<1>3. ASSUME review' = review
      PROVE  ReviewFits'
  BY <1>1, <1>3 DEF ReviewFits
<1>4. ASSUME SpecGoesOn, ReviewFits'
      PROVE  DomainInv' /\ Stays
  BY <1>4 DEF SpecGoesOn, DomainInv, ReviewFits, Stays, Held
<1>5. ASSUME SpecStep
      PROVE  DomainInv' /\ Stays
  <2>1. SpecGoesOn /\ UNCHANGED others
    BY <1>5, SpecStepGoesOn
  <2>2. QED
    BY <1>3, <1>4, <2>1 DEF others
<1>6. ASSUME ReviewStep
      PROVE  DomainInv' /\ Stays
  BY <1>1, <1>2, <1>4, <1>6, ReviewStepGoesOn
<1>7. ASSUME UNCHANGED <<spec, review>>
      PROVE  DomainInv' /\ Stays
  BY <1>2, <1>3, <1>4, <1>7
<1>8. QED
  BY <1>5, <1>6, <1>7 DEF DomainNext, domainVars

\* Specification and Review, with any requirements and scenarios: what is approved is
\* what was submitted, and it has something in it.
THEOREM ReviewedStands == DomainSpec => WhatIsReviewedStands
<1>1. DomainInit => DomainInv
  BY DEF DomainInit, DomainInv, SpecTyped, ReviewFits, SpecStatuses
<1>2. DomainInv /\ [DomainNext]_domainVars => DomainInv'
  BY DomainStepGoesOn
<1>3. DomainInv /\ [DomainNext]_domainVars => [Stays]_domainVars
  BY DomainStepGoesOn
<1>4. QED
  BY <1>1, <1>2, <1>3, PTL DEF DomainSpec, WhatIsReviewedStands, Stays

================================================================================
