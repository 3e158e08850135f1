-------------------------- MODULE WorkflowEngineProofs --------------------------
(***************************************************************************)
(* For any workflow: a run goes through its graph as DagRun says, and what *)
(* it leaves behind, or runs twice, belongs to an attempt that timed out.  *)
(***************************************************************************)
EXTENDS WorkflowEngineProps, Recursion, FiniteSetTheorems

--------------------------------------------------------------------------------
(***************************************************************************)
(* resolveStepOrder: what its rounds compute.                              *)
(***************************************************************************)

Round(top, deps, done) == done \cup {s \in top : deps[s] \subseteq done}
Rounds(f, top, deps, n) ==
  f = [k \in 0 .. n |-> IF k = 0 THEN {} ELSE Round(top, deps, f[k - 1])]

\* The recursion of `Resolved` has a solution, however many rounds it takes.
LEMMA RoundsExist ==
  ASSUME NEW top, NEW deps, NEW n \in Nat
  PROVE  \E f : Rounds(f, top, deps, n)
<1> DEFINE S == {k \in Nat : \E f : Rounds(f, top, deps, k)}
<1>1. 0 \in S
  <2>1. Rounds([k \in 0 .. 0 |-> {}], top, deps, 0)
    BY DEF Rounds
  <2>2. QED
    BY <2>1
<1>2. ASSUME NEW k \in Nat, k \in S
      PROVE  k + 1 \in S
  <2>1. PICK f : Rounds(f, top, deps, k)
    BY <1>2
  <2>2. PICK more : more = Round(top, deps, f[k])
    OBVIOUS
  <2>3. PICK g : g = [m \in 0 .. k + 1 |-> IF m = k + 1 THEN more ELSE f[m]]
    OBVIOUS
  <2>4. ASSUME NEW m \in 0 .. k + 1
        PROVE  g[m] = IF m = 0 THEN {}
                      ELSE Round(top, deps, g[m - 1])
    <3>1. CASE m = k + 1
      BY <2>2, <2>3, <3>1
    <3>2. CASE m \in 0 .. k
      <4>1. f[m] = IF m = 0 THEN {}
                   ELSE Round(top, deps, f[m - 1])
        BY <2>1, <3>2 DEF Rounds
      <4>2. g[m] = f[m] /\ (m # 0 => g[m - 1] = f[m - 1])
        BY <2>3, <3>2
      <4>3. QED
        BY <4>1, <4>2
    <3>3. QED
      BY <3>1, <3>2
  <2>5. Rounds(g, top, deps, k + 1)
    BY <2>3, <2>4 DEF Rounds
  <2>6. QED
    BY <2>5
<1>3. n \in S
  <2> HIDE DEF S
  <2>1. QED
    BY <1>1, <1>2, SetInduction
<1>4. QED
  BY <1>3

N == Cardinality(def.top)

LEMMA ResolvedGrows ==
  ASSUME def \in Workflows
  PROVE  /\ N \in Nat
         /\ Resolved[0] = {}
         /\ \A n \in 1 .. N :
              Resolved[n] = Round(def.top, def.dependsOn, Resolved[n - 1])
<1>1. N \in Nat
  BY WorkflowAssumption, FS_CardinalityType DEF N
<1>2. PICK f : Rounds(f, def.top, def.dependsOn, N)
  BY <1>1, RoundsExist
<1>3. Rounds(Resolved, def.top, def.dependsOn, N)
  BY <1>2, Zenon DEF Rounds, Round, Resolved, N
<1>4. PICK r : r = Resolved
  OBVIOUS
<1>5. r = [k \in 0 .. N |-> IF k = 0 THEN {} ELSE Round(def.top, def.dependsOn, r[k - 1])]
  BY <1>3, <1>4 DEF Rounds
<1>6. r[0] = {}
  BY <1>1, <1>5
<1>7. ASSUME NEW n \in 1 .. N
      PROVE  r[n] = Round(def.top, def.dependsOn, r[n - 1])
  BY <1>1, <1>5
<1>8. QED
  BY <1>1, <1>4, <1>6, <1>7

--------------------------------------------------------------------------------
(***************************************************************************)
(* Types.                                                                  *)
(***************************************************************************)

Path == Seq([step : Steps, attempt : Nat])
CallNames == [in : Path, step : Steps]
Call == [pc : CallPcs, retries : Nat]
Body == [pc : {"running", "done", "error"}, todo : Seq(Steps)]
WfPcs == {"starting", "level", "completing", "failing", "completed", "failed", "rejected"}

RunTyped ==
  /\ def \in Workflows
  /\ wf \in [pc : WfPcs, level : Nat]
  /\ DOMAIN calls \subseteq CallNames /\ calls \in [DOMAIN calls -> Call]
  /\ DOMAIN bodies \subseteq Path \ {<<>>} /\ bodies \in [DOMAIN bodies -> Body]

Composite == {"parallel", "failFast", "condition"}

LEMMA BranchTyped ==
  ASSUME def \in Workflows, NEW s \in Steps, def.kind[s] \in Composite
  PROVE  /\ Branch(s) \in Seq(Steps)
         /\ Branch(s) = <<>> \/ \E i \in DOMAIN def.parts[s] : Branch(s) = def.parts[s][i].steps
<1> DEFINE open == {i \in DOMAIN def.parts[s] : Holds(def.parts[s][i].when)}
<1>1. /\ open \subseteq Nat
      /\ \A i \in open : def.parts[s][i].steps \in Seq(Steps)
  BY WorkflowAssumption DEF Composite, Steps
<1> HIDE DEF open
<1>2. CASE open = {}
  BY <1>2 DEF Branch, open
<1>3. CASE open # {}
  <2>1. PICK least \in open : \A j \in open : least <= j
    BY <1>1, <1>3, NatMin
  <2>2. PICK first : first = CHOOSE i \in open : \A j \in open : i <= j
    OBVIOUS
  <2>3. first \in open
    BY <2>1, <2>2, Zenon
  <2>4. Branch(s) = def.parts[s][first].steps
    BY <1>3, <2>2 DEF Branch, open
  <2>5. first \in DOMAIN def.parts[s]
    BY <2>3 DEF open
  <2>6. QED
    BY <1>1, <2>3, <2>4, <2>5
<1>4. QED
  BY <1>2, <1>3

LEMMA BodyOfTyped ==
  ASSUME RunTyped, NEW c \in DOMAIN calls
  PROVE  /\ BodyOf(c) \in Path \ {<<>>} /\ Len(BodyOf(c)) = Len(c.in) + 1
         /\ BodyOf(c)[Len(BodyOf(c))] = [step |-> c.step, attempt |-> calls[c].retries]
         /\ SubSeq(BodyOf(c), 1, Len(BodyOf(c)) - 1) = c.in
         /\ Caller(BodyOf(c)) = c /\ KindOf(BodyOf(c)) = def.kind[c.step]
<1>1. PICK e : e = [step |-> c.step, attempt |-> calls[c].retries]
  OBVIOUS
<1>2. e \in [step : Steps, attempt : Nat] /\ c.in \in Path /\ c \in CallNames
  BY <1>1 DEF RunTyped, CallNames, Call
<1>3. BodyOf(c) = Append(c.in, e)
  BY <1>1 DEF BodyOf
<1>4. /\ Append(c.in, e) \in Path /\ Len(Append(c.in, e)) = Len(c.in) + 1
      /\ Append(c.in, e)[Len(Append(c.in, e))] = e /\ Len(c.in) \in Nat
  BY <1>2 DEF Path
<1>5. SubSeq(Append(c.in, e), 1, Len(Append(c.in, e)) - 1) = c.in
  BY <1>2, <1>4 DEF Path
<1>6. Append(c.in, e) # <<>>
  BY <1>4
<1>7. c = [in |-> c.in, step |-> c.step]
  BY <1>2 DEF CallNames
<1>8. e.step = c.step
  BY <1>1
<1>9. QED
  BY <1>1, <1>3, <1>4, <1>5, <1>6, <1>7, <1>8 DEF Caller, KindOf

\* One call goes to another point; the others stay where they are.
Sets(c, pc, n) ==
  /\ DOMAIN calls' = DOMAIN calls /\ calls' \in [DOMAIN calls -> Call]
  /\ calls'[c].pc = pc /\ calls'[c].retries = n
  /\ \A d \in DOMAIN calls : d # c => calls'[d] = calls[d]

\* Some are called; those that are there stay.
Fresh == [pc |-> "starting", retries |-> 0]
Adds(cs) ==
  /\ DOMAIN calls' = DOMAIN calls \cup cs /\ calls' \in [DOMAIN calls \cup cs -> Call]
  /\ \A d \in DOMAIN calls : calls'[d] = calls[d]
  /\ \A d \in cs \ DOMAIN calls : calls'[d] = Fresh

LEMMA GotoSets ==
  ASSUME RunTyped, NEW c \in DOMAIN calls, NEW pc \in CallPcs, Goto(c, pc)
  PROVE  Sets(c, pc, calls[c].retries)
<1>1. PICK new : new = [calls[c] EXCEPT !.pc = pc]
  OBVIOUS
<1>2. new \in Call /\ new.pc = pc /\ new.retries = calls[c].retries
  BY <1>1 DEF RunTyped, Call
<1>3. calls' = [calls EXCEPT ![c] = new]
  BY <1>1 DEF Goto
<1>4. QED
  BY <1>2, <1>3 DEF RunTyped, Sets

LEMMA CatchSets ==
  ASSUME RunTyped, NEW c \in DOMAIN calls, NEW before, Catch(c, before)
  PROVE  \E pc \in {"backoff", "failing"} : Sets(c, pc, calls[c].retries + 1)
<1>1. PICK again : again = (calls[c].retries < def.retries[c.step])
  OBVIOUS
<1>2. PICK pc \in {"backoff", "failing"} : pc = IF again THEN "backoff" ELSE "failing"
  OBVIOUS
<1>3. PICK new : new = [pc |-> pc, retries |-> calls[c].retries + 1]
  OBVIOUS
<1>4. calls[c].retries \in Nat
  BY DEF RunTyped, Call
<1>5. new \in Call /\ new.pc = pc /\ new.retries = calls[c].retries + 1
  BY <1>3, <1>4 DEF Call, CallPcs
<1>6. calls' = [calls EXCEPT ![c] = new]
  BY <1>1, <1>2, <1>3 DEF Catch
<1>7. QED
  BY <1>5, <1>6 DEF RunTyped, Sets

LEMMA CalledAdds ==
  ASSUME RunTyped, NEW cs, calls' = With(calls, Called(cs))
  PROVE  Adds(cs)
<1>1. Fresh \in Call
  BY DEF Fresh, Call, CallPcs
<1>2. DOMAIN calls' = DOMAIN calls \cup cs
  BY DEF Called, With
<1>3. \A d \in DOMAIN calls : calls'[d] = calls[d] /\ calls[d] \in Call
  BY DEF Called, With, RunTyped
<1>4. \A d \in cs \ DOMAIN calls : calls'[d] = Fresh
  BY DEF Called, With, Fresh
<1>5. calls' = [d \in DOMAIN calls \cup cs |-> calls'[d]]
  BY <1>2 DEF Called, With
<1>6. QED
  BY <1>1, <1>2, <1>3, <1>4, <1>5 DEF Adds

\* What a body calls is inside it.
LEMMA CallsInTyped ==
  ASSUME NEW b \in Path \ {<<>>}, NEW ss \in SUBSET Steps
  PROVE  CallsIn(b, ss) \subseteq CallNames /\ \A c \in CallsIn(b, ss) : c.in = b /\ c.in # <<>>
BY DEF CallsIn, CallNames

LEMMA TopCallsTyped ==
  ASSUME def \in Workflows, NEW ss \in SUBSET def.top
  PROVE  {TopCall(s) : s \in ss} \subseteq CallNames
<1>1. <<>> \in Path /\ ss \subseteq Steps
  BY WorkflowAssumption DEF Path, Steps
<1>2. QED
  BY <1>1 DEF TopCall, CallNames

--------------------------------------------------------------------------------
(***************************************************************************)
(* What the steps of calls and bodies do, seen from the graph.             *)
(***************************************************************************)

\* At most one call moves, none that has settled, and none starts in the graph.
NestedStep ==
  /\ UNCHANGED <<def, wf, skipped>>
  /\ DOMAIN calls \subseteq DOMAIN calls'
  /\ \A d \in DOMAIN calls' \ DOMAIN calls : d.in # <<>>
  /\ \A d \in DOMAIN calls : Settled(d) => calls'[d] = calls[d]
  /\ \E c : \A d \in DOMAIN calls : d # c => calls'[d] = calls[d]

LEMMA SetsIsNested ==
  ASSUME RunTyped, NEW c \in DOMAIN calls, NEW pc, NEW n, Sets(c, pc, n), ~Settled(c),
         UNCHANGED <<def, wf, skipped, bodies>>
  PROVE  RunTyped' /\ NestedStep
<1>1. RunTyped'
  BY DEF RunTyped, Sets, Steps, Path, CallNames, Body, Call
<1>2. \A d \in DOMAIN calls : Settled(d) => d # c
  OBVIOUS
<1>3. QED
  BY <1>1, <1>2 DEF Sets, NestedStep

LEMMA CallMoves ==
  ASSUME RunTyped, NEW c \in DOMAIN calls,
         \/ Succeeds(c) \/ Fails(c) \/ TimesOut(c) \/ Retries(c) \/ Returns(c)
         \/ CallbackThrows(c)
  PROVE  RunTyped' /\ NestedStep
<1>1. /\ ~Settled(c)
      /\ UNCHANGED <<def, wf, skipped, bodies>>
  BY DEF Succeeds, Fails, TimesOut, Retries, Returns, CallbackThrows, Settled
<1>2. \/ \E pc \in CallPcs : Goto(c, pc)
      \/ Catch(c, results)
  BY DEF Succeeds, Fails, TimesOut, Retries, Returns, CallbackThrows, CallPcs
<1>3. \E pc, n : Sets(c, pc, n)
  BY <1>2, GotoSets, CatchSets
<1>4. QED
  BY <1>1, <1>3, SetsIsNested

\* The attempt `b` of `c` begins, and calls the steps of `ss`.
BeginsWith(c, b, ss) ==
  /\ DOMAIN calls' = DOMAIN calls \cup CallsIn(b, ss)
  /\ calls' \in [DOMAIN calls' -> Call]
  /\ calls'[c].pc = "running" /\ calls'[c].retries = calls[c].retries
  /\ \A d \in DOMAIN calls : d # c => calls'[d] = calls[d]
  /\ \A d \in CallsIn(b, ss) \ DOMAIN calls : calls'[d] = Fresh

FirstOf(c, branch) ==
  IF def.kind[c.step] = "condition" /\ branch # <<>> THEN {Head(branch)}
  ELSE IF def.kind[c.step] \in {"parallel", "failFast"} THEN StepsOf(branch)
  ELSE {}
BodyFor(c, branch) ==
  [pc   |-> IF def.kind[c.step] = "refused" THEN "error"
            ELSE IF def.kind[c.step] = "plain" THEN "done" ELSE "running",
   todo |-> IF def.kind[c.step] = "condition" /\ branch # <<>>
            THEN Tail(branch) ELSE <<>>]

LEMMA FirstTyped ==
  ASSUME RunTyped, NEW c \in DOMAIN calls
  PROVE  /\ FirstOf(c, Branch(c.step)) \in SUBSET Steps
         /\ BodyFor(c, Branch(c.step)) \in Body
<1>1. c.step \in Steps /\ def \in Workflows /\ <<>> \in Seq(Steps)
  BY DEF RunTyped, CallNames
<1>2. PICK branch : branch = Branch(c.step)
  OBVIOUS
<1>3. def.kind[c.step] \in Composite => branch \in Seq(Steps)
  BY <1>1, <1>2, BranchTyped
<1>4. FirstOf(c, branch) \in SUBSET Steps
  BY <1>3 DEF FirstOf, StepsOf, Composite
<1>5. (IF def.kind[c.step] = "condition" /\ branch # <<>> THEN Tail(branch) ELSE <<>>) \in Seq(Steps)
  BY <1>1, <1>3 DEF Composite
<1>6. BodyFor(c, branch) \in Body
  BY <1>5 DEF BodyFor, Body
<1>7. QED
  BY <1>2, <1>4, <1>6

LEMMA BeginsBegins ==
  ASSUME RunTyped, NEW c \in DOMAIN calls, Begins(c)
  PROVE  /\ BeginsWith(c, BodyOf(c), FirstOf(c, Branch(c.step)))
         /\ bodies' = With(bodies, [new \in {BodyOf(c)} |-> BodyFor(c, Branch(c.step))])
         /\ calls[c].pc = "starting"
         /\ UNCHANGED <<def, wf, skipped, throws>>
<1>1. PICK b : b = BodyOf(c)
  OBVIOUS
<1>2. PICK branch : branch = Branch(c.step)
  OBVIOUS
<1>3. PICK ss : ss = FirstOf(c, branch)
  OBVIOUS
<1>4. PICK cs : cs = CallsIn(b, ss)
  OBVIOUS
<1>5. /\ calls' = With([calls EXCEPT ![c].pc = "running"], Called(cs))
      /\ bodies' = With(bodies, [new \in {b} |-> BodyFor(c, branch)])
      /\ calls[c].pc = "starting" /\ UNCHANGED <<def, wf, skipped, throws>>
  BY <1>1, <1>2, <1>3, <1>4 DEF Begins, FirstOf, BodyFor
<1>6. PICK new : new = [calls[c] EXCEPT !.pc = "running"]
  OBVIOUS
<1>7. new \in Call /\ new.pc = "running" /\ new.retries = calls[c].retries
  BY <1>6 DEF RunTyped, Call, CallPcs
<1>8. PICK now : now = [calls EXCEPT ![c] = new]
  OBVIOUS
<1>9. /\ now \in [DOMAIN calls -> Call] /\ DOMAIN now = DOMAIN calls /\ now[c] = new
      /\ \A d \in DOMAIN calls : d # c => now[d] = calls[d]
  BY <1>7, <1>8 DEF RunTyped
<1>10. calls' = With(now, Called(cs))
  BY <1>5, <1>6, <1>8
<1>11. Fresh \in Call
  BY DEF Fresh, Call, CallPcs
<1>12. /\ DOMAIN calls' = DOMAIN calls \cup cs
       /\ \A d \in DOMAIN calls : calls'[d] = now[d]
       /\ \A d \in cs \ DOMAIN calls : calls'[d] = Fresh
       /\ calls' = [d \in DOMAIN calls' |-> calls'[d]]
  BY <1>9, <1>10 DEF With, Called, Fresh
<1>13. calls' \in [DOMAIN calls' -> Call]
  BY <1>9, <1>11, <1>12
<1>14. BeginsWith(c, b, ss)
  BY <1>4, <1>7, <1>9, <1>12, <1>13 DEF BeginsWith
<1>15. QED
  BY <1>1, <1>2, <1>3, <1>5, <1>14

LEMMA CallBegins ==
  ASSUME RunTyped, NEW c \in DOMAIN calls, Begins(c)
  PROVE  RunTyped' /\ NestedStep
<1>1. PICK b : b = BodyOf(c)
  OBVIOUS
<1>2. PICK ss \in SUBSET Steps : ss = FirstOf(c, Branch(c.step))
  BY FirstTyped
<1>3. PICK body \in Body : body = BodyFor(c, Branch(c.step))
  BY FirstTyped
<1>4. /\ BeginsWith(c, b, ss) /\ bodies' = With(bodies, [new \in {b} |-> body])
      /\ calls[c].pc = "starting" /\ UNCHANGED <<def, wf, skipped>>
  BY <1>1, <1>2, <1>3, BeginsBegins
<1>5. b \in Path \ {<<>>}
  BY <1>1, BodyOfTyped
<1>6. CallsIn(b, ss) \subseteq CallNames /\ \A d \in CallsIn(b, ss) : d.in # <<>>
  BY <1>5, CallsInTyped
<1>7. DOMAIN bodies' = DOMAIN bodies \cup {b} /\ bodies' \in [DOMAIN bodies' -> Body]
  <2>1. DOMAIN bodies' = DOMAIN bodies \cup {b}
    BY <1>4 DEF With
  <2>2. bodies' = [x \in DOMAIN bodies \cup {b} |-> IF x \in DOMAIN bodies THEN bodies[x] ELSE body]
    BY <1>4 DEF With
  <2>3. QED
    BY <2>1, <2>2 DEF RunTyped
<1>8. RunTyped'
  <2>1. UNCHANGED <<CallNames, Path, Body, Call>>
    BY <1>4 DEF CallNames, Path, Body, Call, Steps
  <2>2. DOMAIN calls' \subseteq CallNames /\ calls' \in [DOMAIN calls' -> Call]
    BY <1>4, <1>6 DEF BeginsWith, RunTyped
  <2>3. DOMAIN bodies' \subseteq Path \ {<<>>}
    BY <1>5, <1>7 DEF RunTyped
  <2>4. QED
    BY <1>4, <1>7, <2>1, <2>2, <2>3 DEF RunTyped
<1>9. NestedStep
  <2>1. \A d \in DOMAIN calls : Settled(d) => d # c
    BY <1>4 DEF Settled
  <2>2. QED
    BY <1>4, <1>6, <2>1 DEF BeginsWith, NestedStep
<1>10. QED
  BY <1>8, <1>9

\* A body ends.
LEMMA BodyEnds ==
  ASSUME RunTyped, NEW b \in DOMAIN bodies, NEW pc \in {"done", "error"}, Ends(b, pc),
         UNCHANGED <<def, wf, calls, skipped>>
  PROVE  /\ RunTyped' /\ NestedStep
         /\ DOMAIN bodies' = DOMAIN bodies /\ bodies'[b].pc = pc /\ bodies'[b].todo = bodies[b].todo
         /\ \A other \in DOMAIN bodies : other # b => bodies'[other] = bodies[other]
<1>1. PICK new : new = [bodies[b] EXCEPT !.pc = pc]
  OBVIOUS
<1>2. new \in Body /\ new.pc = pc /\ new.todo = bodies[b].todo
  BY <1>1 DEF RunTyped, Body
<1>3. bodies' = [bodies EXCEPT ![b] = new]
  BY <1>1 DEF Ends
<1>4. /\ DOMAIN bodies' = DOMAIN bodies /\ bodies' \in [DOMAIN bodies -> Body]
      /\ bodies'[b] = new
      /\ \A other \in DOMAIN bodies : other # b => bodies'[other] = bodies[other]
  BY <1>2, <1>3 DEF RunTyped
<1>5. UNCHANGED <<CallNames, Path, Body, Call>>
  BY DEF CallNames, Path, Body, Call, Steps
<1>6. RunTyped'
  BY <1>4, <1>5 DEF RunTyped
<1>7. NestedStep
  BY DEF NestedStep
<1>8. QED
  BY <1>2, <1>4, <1>6, <1>7

LEMMA AnswerEnds ==
  ASSUME RunTyped, NEW b \in DOMAIN bodies, AgentAnswers(b) \/ Joins(b)
  PROVE  /\ UNCHANGED <<def, wf, calls, skipped, throws>>
         /\ \E pc \in {"done", "error"} : Ends(b, pc)
<1>1. CASE AgentAnswers(b)
  BY <1>1 DEF AgentAnswers
<1>2. CASE Joins(b)
  <2>1. PICK failed : failed = \E c \in Kids(b) : calls[c].pc = "failed"
    OBVIOUS
  <2>2. Ends(b, IF failed THEN "error" ELSE "done") => \E pc \in {"done", "error"} : Ends(b, pc)
    OBVIOUS
  <2>3. QED
    BY <1>2, <2>1, <2>2 DEF Joins
<1>3. QED
  BY <1>1, <1>2

\* A branch either calls its next step or ends.
GoesOnTo(b, s) ==
  /\ bodies[b].todo # <<>> /\ s = Head(bodies[b].todo)
  /\ Adds(CallsIn(b, {s}))
  /\ bodies' = [bodies EXCEPT ![b].todo = Tail(@)]

LEMMA BranchGoesOn ==
  ASSUME RunTyped, NEW b \in DOMAIN bodies, GoesOn(b)
  PROVE  /\ UNCHANGED <<def, wf, skipped, throws>>
         /\ bodies[b].pc = "running" /\ KindOf(b) = "condition"
         /\ \A c \in Kids(b) : Settled(c)
         /\ \/ \E s \in Steps : GoesOnTo(b, s)
            \/ UNCHANGED calls /\ \E pc \in {"done", "error"} : Ends(b, pc)
<1>1. CASE /\ bodies[b].todo # <<>>
           /\ calls' = With(calls, Called(CallsIn(b, {Head(bodies[b].todo)})))
           /\ bodies' = [bodies EXCEPT ![b].todo = Tail(@)]
  <2>1. PICK s : s = Head(bodies[b].todo)
    OBVIOUS
  <2>2. bodies[b].todo \in Seq(Steps)
    BY DEF RunTyped, Body
  <2>3. s \in Steps
    BY <1>1, <2>1, <2>2
  <2>4. PICK cs : cs = CallsIn(b, {s})
    OBVIOUS
  <2>5. calls' = With(calls, Called(cs))
    BY <1>1, <2>1, <2>4
  <2>6. Adds(cs)
    BY <2>5, CalledAdds
  <2>7. GoesOnTo(b, s)
    BY <1>1, <2>1, <2>4, <2>6 DEF GoesOnTo
  <2>8. QED
    BY <2>3, <2>7 DEF GoesOn
<1>2. CASE (Ends(b, "done") \/ Ends(b, "error")) /\ UNCHANGED calls
  BY <1>2 DEF GoesOn
<1>3. QED
  BY <1>1, <1>2 DEF GoesOn

LEMMA BodyMoves ==
  ASSUME RunTyped, NEW b \in DOMAIN bodies, AgentAnswers(b) \/ Joins(b) \/ GoesOn(b)
  PROVE  RunTyped' /\ NestedStep
<1>1. ASSUME NEW s \in Steps, GoesOnTo(b, s), UNCHANGED <<def, wf, skipped>>
      PROVE  RunTyped' /\ NestedStep
  <2>1. PICK cs : cs = CallsIn(b, {s})
    OBVIOUS
  <2>2. b \in Path \ {<<>>}
    BY DEF RunTyped
  <2>3. cs \subseteq CallNames /\ \A c \in cs : c.in # <<>>
    BY <2>1, <2>2, CallsInTyped
  <2>4. Adds(cs)
    BY <1>1, <2>1 DEF GoesOnTo
  <2>5. NestedStep
    BY <1>1, <2>3, <2>4 DEF Adds, NestedStep
  <2>6. PICK new : new = [bodies[b] EXCEPT !.todo = Tail(bodies[b].todo)]
    OBVIOUS
  <2>7. bodies[b] \in Body /\ Tail(bodies[b].todo) \in Seq(Steps)
    BY <1>1 DEF RunTyped, Body, GoesOnTo
  <2>8. new \in Body
    BY <2>6, <2>7 DEF Body
  <2>9. bodies' = [bodies EXCEPT ![b] = new]
    BY <1>1, <2>6 DEF GoesOnTo
  <2>10. DOMAIN bodies' = DOMAIN bodies /\ bodies' \in [DOMAIN bodies -> Body]
    BY <2>8, <2>9 DEF RunTyped
  <2>11. UNCHANGED <<CallNames, Path, Body, Call>>
    BY <1>1 DEF CallNames, Path, Body, Call, Steps
  <2>12. DOMAIN calls' \subseteq CallNames /\ calls' \in [DOMAIN calls' -> Call]
    BY <2>3, <2>4 DEF Adds, RunTyped
  <2>13. RunTyped'
    BY <1>1, <2>10, <2>11, <2>12 DEF RunTyped
  <2>14. QED
    BY <2>5, <2>13
<1>2. CASE AgentAnswers(b) \/ Joins(b)
  BY <1>2, AnswerEnds, BodyEnds
<1>3. CASE GoesOn(b)
  BY <1>1, <1>3, BranchGoesOn, BodyEnds
<1>4. QED
  BY <1>2, <1>3

--------------------------------------------------------------------------------
(***************************************************************************)
(* The graph.  Its steps are called, or skipped, level by level; a level   *)
(* begins when all of those before have ended well.                        *)
(***************************************************************************)

IsCalled(s) == TopCall(s) \in DOMAIN calls
Good(s) == s \in skipped \/ (IsCalled(s) /\ calls[TopCall(s)].pc = "ok")
Reached(n) == \A s \in def.top : (IsCalled(s) \/ s \in skipped) <=> s \in Resolved[n]
AllGood(n) == \A s \in Resolved[n] : Good(s)

GraphInv ==
  /\ RunTyped
  /\ skipped \subseteq def.top /\ \A s \in skipped : ~IsCalled(s)
  /\ \A s : IsCalled(s) => s \in def.top
  /\ wf.pc = "starting" => \A s \in def.top : ~IsCalled(s) /\ s \notin skipped
  /\ wf.pc = "level" => /\ wf.level \in 1 .. N /\ Resolved[N] = def.top
                        /\ Reached(wf.level) /\ AllGood(wf.level - 1)
  /\ wf.pc \in {"completing", "completed"} => \A s \in def.top : Good(s)

\* The graph as DagRun sees it.
Deps == [s \in def.top |-> def.dependsOn[s]]
Statuses == [s \in def.top |-> StatusOf(s)]
GraphStep == [Graph!Next]_<<Deps, Statuses, Outcome>>

\* The end of a step of the graph is all that DagRun sees of what is inside it.
LEMMA NestedKeepsGraph ==
  ASSUME GraphInv, RunTyped', NestedStep
  PROVE  GraphInv' /\ GraphStep
<1>1. /\ UNCHANGED <<def, wf, skipped>> /\ UNCHANGED <<N, Resolved, Deps, Outcome>>
  BY DEF NestedStep, N, Resolved, Deps, Outcome
<1>2. \A s : IsCalled(s)' <=> IsCalled(s)
  BY DEF NestedStep, IsCalled, TopCall
<1>3. PICK c : \A d \in DOMAIN calls : d # c => calls'[d] = calls[d]
  BY DEF NestedStep
<1>4. \A d \in DOMAIN calls : Settled(d) => calls'[d] = calls[d] /\ Settled(d)'
  BY DEF NestedStep, Settled
<1>5. \A s : Good(s) => Good(s)'
  BY <1>1, <1>2, <1>4 DEF Good, IsCalled, Settled
<1>6. GraphInv'
  <2>1. \A n : AllGood(n) => AllGood(n)'
    BY <1>1, <1>5 DEF AllGood
  <2>2. \A n : Reached(n) => Reached(n)'
    BY <1>1, <1>2 DEF Reached
  <2>3. QED
    BY <1>1, <1>2, <1>5, <2>1, <2>2 DEF GraphInv
<1>7. ASSUME NEW s \in def.top, TopCall(s) # c
      PROVE  StatusOf(s)' = StatusOf(s)
  BY <1>1, <1>2, <1>3, <1>7 DEF StatusOf, IsCalled, Settled
<1>8. CASE \E s \in def.top : TopCall(s) = c /\ IsCalled(s) /\ ~Settled(c)
  <2>1. PICK s \in def.top : TopCall(s) = c /\ IsCalled(s) /\ ~Settled(c)
    BY <1>8
  <2>2. StatusOf(s) = "running" /\ StatusOf(s)' \in {"running", "ok", "failed"}
    BY <1>1, <1>2, <2>1 DEF StatusOf, IsCalled, GraphInv
  <2>3. \A t \in def.top : t # s => TopCall(t) # c
    BY <2>1 DEF TopCall
  <2>4. PICK now : now = StatusOf(s)'
    OBVIOUS
  <2>5. /\ Statuses' = [Statuses EXCEPT ![s] = now]
        /\ Statuses[s] = "running"
        /\ now = "running" => Statuses' = Statuses
    <3>1. DOMAIN Statuses = def.top /\ def'.top = def.top
      BY <1>1 DEF Statuses
    <3>2. \A t \in def.top : t # s => StatusOf(t)' = StatusOf(t)
      BY <1>7, <2>3
    <3>3. QED
      BY <2>2, <2>4, <3>1, <3>2 DEF Statuses
  <2>6. now # "running" => Graph!Finish(s)
    BY <1>1, <2>2, <2>4, <2>5 DEF Graph!Finish, Deps, Statuses
  <2>7. s \in DOMAIN [t \in def.top |-> def.dependsOn[t]]
    OBVIOUS
  <2>8. QED
    BY <1>1, <1>6, <2>2, <2>4, <2>5, <2>6, <2>7 DEF GraphStep, Graph!Next
<1>9. CASE ~\E s \in def.top : TopCall(s) = c /\ IsCalled(s) /\ ~Settled(c)
  <2>1. ASSUME NEW s \in def.top
        PROVE  StatusOf(s)' = StatusOf(s)
    <3>1. CASE TopCall(s) # c
      BY <1>7, <3>1
    <3>2. CASE TopCall(s) = c /\ ~IsCalled(s)
      BY <1>1, <1>2, <3>2 DEF StatusOf, IsCalled
    <3>3. CASE TopCall(s) = c /\ IsCalled(s) /\ Settled(c)
      BY <1>1, <1>2, <1>4, <3>3 DEF StatusOf, IsCalled
    <3>4. QED
      BY <1>9, <3>1, <3>2, <3>3
  <2>2. Statuses' = Statuses
    BY <1>1, <2>1 DEF Statuses
  <2>3. QED
    BY <1>1, <1>6, <2>2 DEF GraphStep
<1>10. QED
  BY <1>8, <1>9

LEMMA GoodStatus ==
  ASSUME NEW s, Good(s)
  PROVE  StatusOf(s) \in {"ok", "skipped"}
BY DEF Good, StatusOf, IsCalled, Settled

LEMMA WaitingStatus ==
  ASSUME NEW s, ~IsCalled(s), s \notin skipped
  PROVE  StatusOf(s) = "waiting"
BY DEF StatusOf, IsCalled

\* All that was reached has ended well: the next level starts, or the run is over.
LEMMA GoToLevelKeepsGraph ==
  ASSUME GraphInv, NEW n \in 1 .. N + 1, Resolved[N] = def.top,
         Reached(n - 1), AllGood(n - 1), GoToLevel(n),
         wf.pc \in {"starting", "level"}, UNCHANGED <<def, bodies>>
  PROVE  GraphInv' /\ GraphStep
<1>1. N \in Nat /\ UNCHANGED <<N, Resolved, Deps>> /\ def \in Workflows
  BY ResolvedGrows DEF GraphInv, RunTyped, N, Resolved, Deps
<1>2. UNCHANGED <<CallNames, Path, Body, Call>>
  BY DEF CallNames, Path, Body, Call, Steps
<1>3. Outcome = "running"
  BY DEF Outcome
<1>4. CASE Resolved[n - 1] = def.top
  <2>1. wf' = [wf EXCEPT !.pc = "completing"] /\ UNCHANGED <<calls, skipped>>
    BY <1>4 DEF GoToLevel
  <2>2. wf \in [pc : WfPcs, level : Nat]
    BY DEF GraphInv, RunTyped
  <2>3. wf' \in [pc : WfPcs, level : Nat] /\ wf'.pc = "completing"
    BY <2>1, <2>2 DEF WfPcs
  <2>4. RunTyped'
    BY <1>1, <1>2, <2>1, <2>3 DEF GraphInv, RunTyped
  <2>5. \A s \in def.top : Good(s)
    BY <1>4 DEF AllGood
  <2>6. UNCHANGED <<Statuses, Outcome>> /\ \A s : Good(s)' = Good(s) /\ IsCalled(s)' = IsCalled(s)
    BY <1>3, <2>1, <2>3 DEF Statuses, Outcome, StatusOf, Settled, Good, IsCalled
  <2>7. GraphInv'
    BY <2>1, <2>3, <2>4, <2>5, <2>6 DEF GraphInv
  <2>8. QED
    BY <1>1, <2>6, <2>7 DEF GraphStep
<1>5. CASE Resolved[n - 1] # def.top
  <2>1. n \in 1 .. N
    <3>1. n - 1 # N
      BY <1>5
    <3>2. QED
      BY <1>1, <3>1
  <2>2. PICK level : level = Level(n)
    OBVIOUS
  <2>3. PICK run \in SUBSET level : run = {s \in Level(n) : Holds(def.condition[s])}
    BY <2>2
  <2>4. /\ level \subseteq def.top
        /\ Resolved[n] = Resolved[n - 1] \cup level
        /\ \A s \in level : s \notin Resolved[n - 1] /\ def.dependsOn[s] \subseteq Resolved[n - 1]
    BY <1>1, <2>1, <2>2, ResolvedGrows DEF Round, Level
  <2>5. PICK cs : cs = {TopCall(s) : s \in run}
    OBVIOUS
  <2>6. /\ wf' = [pc |-> "level", level |-> n]
        /\ calls' = With(calls, Called(cs))
        /\ skipped' = skipped \cup (level \ run)
    BY <1>5, <2>2, <2>3, <2>5 DEF GoToLevel
  <2>7. Adds(cs)
    BY <2>6, CalledAdds DEF GraphInv
  <2>8. cs \subseteq CallNames
    BY <1>1, <2>3, <2>4, <2>5, TopCallsTyped
  <2>9. RunTyped'
    <3>1. DOMAIN calls' \subseteq CallNames /\ calls' \in [DOMAIN calls' -> Call]
      BY <2>7, <2>8 DEF Adds, GraphInv, RunTyped
    <3>2. wf' \in [pc : WfPcs, level : Nat]
      BY <2>1, <2>6 DEF WfPcs
    <3>3. QED
      BY <1>1, <1>2, <3>1, <3>2 DEF GraphInv, RunTyped
  <2>10. \A s : TopCall(s) \in cs <=> s \in run
    BY <2>5 DEF TopCall
  <2>11. \A s : IsCalled(s)' <=> IsCalled(s) \/ s \in run
    BY <2>7, <2>10 DEF Adds, IsCalled
  <2>12. \A s \in level : ~IsCalled(s) /\ s \notin skipped
    BY <2>4 DEF Reached
  <2>13. \A s : Good(s) => Good(s)'
    BY <2>6, <2>7 DEF Good, Adds, IsCalled
  <2>14. GraphInv'
    <3>1. Reached(n)'
      BY <1>1, <2>3, <2>4, <2>6, <2>11 DEF Reached
    <3>2. AllGood(n - 1)'
      BY <1>1, <2>13 DEF AllGood
    <3>3. skipped' \subseteq def.top /\ \A s \in skipped' : ~IsCalled(s)'
      BY <2>4, <2>6, <2>11, <2>12 DEF GraphInv
    <3>4. \A s : IsCalled(s)' => s \in def.top
      BY <2>3, <2>4, <2>11 DEF GraphInv
    <3>5. wf'.pc = "level" /\ wf'.level = n
      BY <2>6
    <3>6. QED
      BY <1>1, <2>1, <2>9, <3>1, <3>2, <3>3, <3>4, <3>5 DEF GraphInv
  <2>15. ASSUME NEW s \in def.top
         PROVE  /\ s \in run => StatusOf(s)' = "running"
                /\ s \in level \ run => StatusOf(s)' = "skipped"
                /\ s \notin level => StatusOf(s)' = StatusOf(s)
    <3>1. ASSUME s \in run
          PROVE  StatusOf(s)' = "running"
      <4>1. s \notin skipped' /\ IsCalled(s)' /\ ~IsCalled(s)
        BY <2>3, <2>6, <2>11, <2>12, <3>1
      <4>2. calls'[TopCall(s)] = Fresh
        BY <2>7, <2>10, <3>1, <4>1 DEF Adds, IsCalled
      <4>3. QED
        BY <4>1, <4>2 DEF StatusOf, IsCalled, Settled, Fresh
    <3>2. ASSUME s \in level \ run
          PROVE  StatusOf(s)' = "skipped"
      BY <2>6, <3>2 DEF StatusOf
    <3>3. ASSUME s \notin level
          PROVE  StatusOf(s)' = StatusOf(s)
      <4>1. (s \in skipped' <=> s \in skipped) /\ (IsCalled(s)' <=> IsCalled(s))
        BY <2>3, <2>6, <2>11, <3>3
      <4>2. IsCalled(s) => calls'[TopCall(s)] = calls[TopCall(s)]
        BY <2>7 DEF Adds, IsCalled
      <4>3. QED
        BY <4>1, <4>2 DEF StatusOf, IsCalled, Settled
    <3>4. QED
      BY <3>1, <3>2, <3>3
  <2>16. \A s \in Resolved[n - 1] : s \in def.top /\ StatusOf(s) \in {"ok", "skipped"}
    <3>1. \A s : Good(s) => s \in def.top
      BY DEF Good, GraphInv
    <3>2. QED
      BY <3>1, GoodStatus DEF AllGood
  <2>17. \A s \in def.top : s \notin Resolved[n - 1] => StatusOf(s) = "waiting"
    BY WaitingStatus DEF Reached
  <2>18. Statuses' = [s \in def.top |-> IF s \in run THEN "running"
                                       ELSE IF s \in level THEN "skipped" ELSE StatusOf(s)]
    BY <1>1, <2>3, <2>15 DEF Statuses
  <2>19. Graph!Start(level)
    <3>1. Outcome' = "running"
      BY <2>6 DEF Outcome
    <3>2. \A s \in def.top : StatusOf(s) # "failed"
      BY <2>16, <2>17
    <3>3. \A s \in level : s \in def.top /\ StatusOf(s) = "waiting"
                           /\ \A d \in def.dependsOn[s] : d \in def.top /\ StatusOf(d) \in {"ok", "skipped"}
      BY <2>4, <2>16, <2>17
    <3>4. QED
      BY <1>1, <1>3, <2>3, <2>18, <3>1, <3>2, <3>3
      DEF Graph!Start, Graph!GoodEnds, Deps, Statuses
  <2>20. level \in SUBSET DOMAIN [s \in def.top |-> def.dependsOn[s]]
    BY <2>4
  <2>21. QED
    BY <2>14, <2>19, <2>20 DEF GraphStep, Graph!Next
<1>6. QED
  BY <1>4, <1>5

\* The run goes to another point, and neither steps nor their calls do.
LEMMA RunMoves ==
  ASSUME GraphInv, NEW pc \in WfPcs \ {"level", "starting"}, wf' = [wf EXCEPT !.pc = pc],
         UNCHANGED <<def, calls, bodies, skipped>>,
         pc = "completed" => wf.pc = "completing",
         pc = "completing" => \A s \in def.top : Good(s),
         wf.pc \notin {"completed", "failed", "rejected"}
  PROVE  GraphInv' /\ GraphStep
<1>1. UNCHANGED <<CallNames, Path, Body, Call, N, Resolved, Deps, Statuses>>
  BY DEF CallNames, Path, Body, Call, Steps, N, Resolved, Deps, Statuses, StatusOf, Settled
<1>2. wf \in [pc : WfPcs, level : Nat]
  BY DEF GraphInv, RunTyped
<1>3. wf' \in [pc : WfPcs, level : Nat] /\ wf'.pc = pc
  BY <1>2
<1>4. RunTyped'
  BY <1>1, <1>3 DEF GraphInv, RunTyped
<1>5. \A s : Good(s)' = Good(s) /\ IsCalled(s)' = IsCalled(s)
  BY DEF Good, IsCalled
<1>6. GraphInv'
  BY <1>3, <1>4, <1>5 DEF GraphInv
<1>7. Outcome = "running" /\ Outcome' \in {"running", "failed", "completed"}
  BY DEF Outcome
<1>8. CASE Outcome' = "running"
  BY <1>1, <1>6, <1>7, <1>8 DEF GraphStep
<1>9. CASE Outcome' = "failed"
  BY <1>1, <1>6, <1>7, <1>9 DEF GraphStep, Graph!Next, Graph!Conclude, Deps, Statuses
<1>10. CASE Outcome' = "completed"
  <2>1. \A s \in def.top : Good(s)
    BY <1>3, <1>10 DEF Outcome, GraphInv
  <2>2. \A s \in def.top : StatusOf(s) \in {"ok", "skipped"}
    BY <2>1, GoodStatus
  <2>3. Graph!Conclude
    BY <1>1, <1>7, <1>10, <2>2 DEF Graph!Conclude, Graph!GoodEnds, Deps, Statuses
  <2>4. QED
    BY <1>6, <2>3 DEF GraphStep, Graph!Next
<1>11. QED
  BY <1>7, <1>8, <1>9, <1>10

LEMMA BeginKeepsGraph ==
  ASSUME GraphInv, BeginWorkflow
  PROVE  GraphInv' /\ GraphStep
<1>1. N \in Nat /\ Resolved[0] = {} /\ UNCHANGED <<def, bodies>> /\ wf.pc = "starting"
  BY ResolvedGrows DEF GraphInv, RunTyped, BeginWorkflow
<1>2. CASE Circular
  <2>1. wf' = [wf EXCEPT !.pc = "failing"] /\ UNCHANGED <<calls, skipped>>
    BY <1>2 DEF BeginWorkflow
  <2>2. QED
    BY <1>1, <2>1, RunMoves DEF WfPcs
<1>3. CASE ~Circular
  <2>1. GoToLevel(1) /\ Resolved[N] = def.top
    BY <1>3 DEF BeginWorkflow, Circular, N
  <2>2. Reached(0) /\ AllGood(0)
    BY <1>1 DEF Reached, AllGood, GraphInv
  <2>3. 1 \in 1 .. N + 1 /\ 1 - 1 = 0
    BY <1>1
  <2>4. PICK n \in 1 .. N + 1 : n = 1
    BY <2>3
  <2>5. GoToLevel(n) /\ Reached(n - 1) /\ AllGood(n - 1)
    BY <2>1, <2>2, <2>3, <2>4
  <2>6. QED
    BY <1>1, <2>1, <2>5, GoToLevelKeepsGraph
<1>4. QED
  BY <1>2, <1>3

\* Promise.all over a level: only if each of its steps has succeeded does the
\* next one start.
LEMMA EndLevelKeepsGraph ==
  ASSUME GraphInv, EndLevel
  PROVE  GraphInv' /\ GraphStep
<1>1. /\ N \in Nat /\ UNCHANGED <<def, bodies>> /\ wf.pc = "level"
      /\ wf.level \in 1 .. N /\ Resolved[N] = def.top
      /\ Reached(wf.level) /\ AllGood(wf.level - 1)
  BY ResolvedGrows DEF GraphInv, RunTyped, EndLevel
<1>2. PICK level : level = {c \in DOMAIN calls : c.in = <<>> /\ c.step \in Level(wf.level)}
  OBVIOUS
<1>3. CASE \E c \in level : calls[c].pc # "ok"
  <2>1. wf' = [wf EXCEPT !.pc = "failing"] /\ UNCHANGED <<calls, skipped>>
    BY <1>2, <1>3 DEF EndLevel
  <2>2. QED
    BY <1>1, <2>1, RunMoves DEF WfPcs
<1>4. CASE \A c \in level : calls[c].pc = "ok"
  <2>1. GoToLevel(wf.level + 1)
    BY <1>2, <1>4 DEF EndLevel
  <2>2. PICK n \in 1 .. N + 1 : n = wf.level + 1
    BY <1>1
  <2>3. n - 1 = wf.level
    BY <1>1, <2>2
  <2>4. ASSUME NEW s \in Resolved[wf.level]
        PROVE  Good(s)
    <3>1. CASE s \in Resolved[wf.level - 1]
      BY <1>1, <3>1 DEF AllGood
    <3>2. CASE s \in Level(wf.level)
      <4>1. s \in def.top
        BY <1>1, <3>2, ResolvedGrows DEF Round, Level, GraphInv, RunTyped
      <4>2. IsCalled(s) \/ s \in skipped
        BY <1>1, <2>4, <4>1 DEF Reached
      <4>3. IsCalled(s) => TopCall(s) \in level
        BY <1>2, <3>2 DEF IsCalled, TopCall
      <4>4. QED
        BY <1>4, <4>2, <4>3 DEF Good
    <3>3. QED
      BY <2>4, <3>1, <3>2 DEF Level
  <2>5. GoToLevel(n) /\ Reached(n - 1) /\ AllGood(n - 1)
    BY <1>1, <2>1, <2>2, <2>3, <2>4 DEF AllGood
  <2>6. QED
    BY <1>1, <2>5, GoToLevelKeepsGraph
<1>5. QED
  BY <1>3, <1>4

LEMMA EndKeepsGraph ==
  ASSUME GraphInv, EndWorkflow \/ WorkflowCallbackThrows
  PROVE  GraphInv' /\ GraphStep
<1>1. UNCHANGED <<def, calls, bodies, skipped>>
  BY DEF EndWorkflow, WorkflowCallbackThrows
<1>2. \/ wf.pc = "completing" /\ wf' = [wf EXCEPT !.pc = "completed"]
      \/ wf.pc = "completing" /\ wf' = [wf EXCEPT !.pc = "failing"]
      \/ wf.pc = "failing" /\ wf' = [wf EXCEPT !.pc = "failed"]
      \/ wf.pc \in {"starting", "failing"} /\ wf' = [wf EXCEPT !.pc = "rejected"]
  BY DEF EndWorkflow, WorkflowCallbackThrows
<1>3. {"completed", "failing", "failed", "rejected"} \subseteq WfPcs \ {"level", "starting"}
  BY DEF WfPcs
<1>4. QED
  BY <1>1, <1>2, <1>3, RunMoves

LEMMA NextKeepsGraph ==
  ASSUME GraphInv, [Next]_vars
  PROVE  GraphInv' /\ GraphStep
<1> USE DEF Progress, Next
<1>1. ASSUME NEW c \in DOMAIN calls,
             \/ Begins(c) \/ Succeeds(c) \/ Fails(c) \/ TimesOut(c) \/ Retries(c) \/ Returns(c)
             \/ CallbackThrows(c)
      PROVE  GraphInv' /\ GraphStep
  <2>1. RunTyped
    BY DEF GraphInv
  <2>2. RunTyped' /\ NestedStep
    BY <1>1, <2>1, CallBegins, CallMoves
  <2>3. QED
    BY <2>2, NestedKeepsGraph
<1>2. ASSUME NEW b \in DOMAIN bodies, AgentAnswers(b) \/ Joins(b) \/ GoesOn(b)
      PROVE  GraphInv' /\ GraphStep
  <2>1. RunTyped
    BY DEF GraphInv
  <2>2. RunTyped' /\ NestedStep
    BY <1>2, <2>1, BodyMoves
  <2>3. QED
    BY <2>2, NestedKeepsGraph
<1>3. CASE UNCHANGED vars
  <2>1. RunTyped' /\ NestedStep
    BY <1>3 DEF vars, RunTyped, NestedStep, GraphInv, CallNames, Path, Body, Call, Steps
  <2>2. QED
    BY <2>1, NestedKeepsGraph
<1>4. QED
  BY <1>1, <1>2, <1>3, BeginKeepsGraph, EndLevelKeepsGraph, EndKeepsGraph

LEMMA InitGraph == Init => GraphInv /\ Graph!Init
<1> SUFFICES ASSUME Init
             PROVE  GraphInv /\ Graph!Init
  OBVIOUS
<1>1. DOMAIN calls = {} /\ DOMAIN bodies = {}
  BY DEF Init
<1>2. RunTyped
  BY <1>1 DEF Init, RunTyped, WfPcs
<1>3. \A s : ~IsCalled(s) /\ s \notin skipped
  BY <1>1 DEF Init, IsCalled
<1>4. GraphInv
  BY <1>2, <1>3 DEF GraphInv, Init
<1>5. \A s \in def.top : StatusOf(s) = "waiting"
  BY <1>3, WaitingStatus
<1>6. Outcome = "running"
  BY DEF Init, Outcome
<1>7. QED
  BY <1>4, <1>5, <1>6 DEF Graph!Init

LEMMA GraphInvHolds == Spec => []GraphInv
<1>1. GraphInv /\ [Next]_vars => GraphInv'
  BY NextKeepsGraph
<1>2. QED
  BY <1>1, InitGraph, PTL DEF Spec

\* RefinesDagRun: however createWorkflowEngine().execute schedules, retries and
\* times out, and whatever it leaves behind, no step of the graph starts before
\* what it depends on has ended well, none after a failure, what has ended does
\* not change, and a completed run has left nothing out.
THEOREM RunsFollowTheirGraph == Spec => RefinesDagRun
<1>1. GraphInv /\ [Next]_vars => [Graph!Next]_<<Deps, Statuses, Outcome>>
  BY NextKeepsGraph DEF GraphStep
<1>2. GraphInv /\ [Next]_vars => [Graph!Next]_Graph!vars
  BY <1>1 DEF Graph!vars, Deps, Statuses
<1>3. QED
  BY <1>2, InitGraph, GraphInvHolds, PTL DEF Spec, RefinesDagRun, Graph!Spec

--------------------------------------------------------------------------------
(***************************************************************************)
(* What is left running.  Calls and bodies are a tree: each call is inside *)
(* the attempt that made it, each attempt belongs to a call, and an        *)
(* attempt that is over has not left its call.                             *)
(***************************************************************************)

Attempt(b) == b[Len(b)].attempt
GoingOn == {"running", "completing", "ok"}

CallFits(c) ==
  /\ c.in # <<>> => /\ c.in \in DOMAIN bodies /\ KindOf(c.in) \in Composite
                    /\ c.step \in PartsIn(def, Caller(c.in).step)
  /\ calls[c].pc = "running" => BodyOf(c) \in DOMAIN bodies

BodyFits(b) ==
  /\ Caller(b) \in DOMAIN calls
  /\ Attempt(b) <= calls[Caller(b)].retries
  /\ Attempt(b) = calls[Caller(b)].retries => calls[Caller(b)].pc \in GoingOn
  /\ bodies[b].todo # <<>> => KindOf(b) \in Composite
  /\ \A i \in DOMAIN bodies[b].todo : bodies[b].todo[i] \in PartsIn(def, Caller(b).step)

TreeInv ==
  /\ throws \in Nat
  /\ \A c \in DOMAIN calls : CallFits(c)
  /\ \A b \in DOMAIN bodies : BodyFits(b)

\* Who awaits, waits: an attempt that is over has left no call running, nor has
\* a run that is over a step of its graph, but for a callback that throws.
Awaited ==
  throws = 0 =>
    /\ \A c \in DOMAIN calls : calls[c].pc # "threw"
    /\ \A b \in DOMAIN bodies : bodies[b].pc # "running" => \A c \in Kids(b) : Settled(c)
    /\ wf.pc \in {"completing", "completed", "failing", "failed"} =>
         \A s \in def.top : IsCalled(s) => Settled(TopCall(s))
    /\ wf.pc # "rejected"

LEMMA AttemptTyped ==
  ASSUME NEW b \in Path \ {<<>>}
  PROVE  Attempt(b) \in Nat /\ Len(b) \in Nat /\ 1 <= Len(b)
<1>1. PICK R : R = [step : Steps, attempt : Nat]
  OBVIOUS
<1>2. b \in Seq(R) /\ b # <<>>
  BY <1>1 DEF Path
<1>3. Len(b) \in Nat /\ 1 <= Len(b)
  BY <1>2
<1>4. b[Len(b)] \in R
  BY <1>2, <1>3
<1>5. QED
  BY <1>1, <1>3, <1>4 DEF Attempt

LEMMA SameTerms ==
  ASSUME UNCHANGED def
  PROVE  /\ \A b : KindOf(b)' = KindOf(b)
         /\ \A s : PartsIn(def, s)' = PartsIn(def, s)
BY DEF KindOf, PartsIn

\* A call that fails its attempt counts it; else it does not leave what it awaits.
LEMMA MovesFit ==
  ASSUME RunTyped, RunTyped', TreeInv, Awaited, NEW c \in DOMAIN calls, ~Settled(c),
         NEW pc \in CallPcs \ {"running"}, NEW n \in Nat, Sets(c, pc, n),
         \/ n = calls[c].retries + 1 /\ pc \notin GoingOn
         \/ n = calls[c].retries /\ (calls[c].pc \in GoingOn => pc \in GoingOn),
         UNCHANGED <<def, wf, bodies>>, throws' \in Nat, throws' = 0 => throws = 0,
         pc = "threw" => throws' # 0
  PROVE  TreeInv' /\ Awaited'
<1>1. /\ \A b : KindOf(b)' = KindOf(b)
      /\ \A s : PartsIn(def, s)' = PartsIn(def, s)
  BY SameTerms
<1>2. /\ DOMAIN calls' = DOMAIN calls /\ calls'[c].pc = pc /\ calls'[c].retries = n
      /\ \A d \in DOMAIN calls : d # c => calls'[d] = calls[d]
  BY DEF Sets
<1>3. ASSUME NEW d \in DOMAIN calls
      PROVE  CallFits(d)'
  <2>1. CallFits(d)
    BY DEF TreeInv
  <2>2. d # c => BodyOf(d)' = BodyOf(d)
    BY <1>2 DEF BodyOf
  <2>3. QED
    BY <1>1, <1>2, <2>1, <2>2 DEF CallFits
<1>4. ASSUME NEW b \in DOMAIN bodies
      PROVE  BodyFits(b)'
  <2>1. BodyFits(b)
    BY DEF TreeInv
  <2>2. b \in Path \ {<<>>}
    BY DEF RunTyped
  <2>3. Attempt(b) \in Nat
    BY <2>2, AttemptTyped
  <2>4. calls[c].retries \in Nat
    BY DEF RunTyped, Call
  <2>5. CASE Caller(b) # c
    BY <1>1, <1>2, <2>1, <2>5 DEF BodyFits
  <2>6. CASE Caller(b) = c
    <3>1. /\ Attempt(b) <= calls[c].retries
          /\ Attempt(b) = calls[c].retries => calls[c].pc \in GoingOn
      BY <2>1, <2>6 DEF BodyFits
    <3>2. Attempt(b) <= n /\ (Attempt(b) = n => pc \in GoingOn)
      BY <2>3, <2>4, <3>1
    <3>3. QED
      BY <1>1, <1>2, <2>1, <2>6, <3>2 DEF BodyFits
  <2>7. QED
    BY <2>5, <2>6
<1>5. TreeInv'
  BY <1>2, <1>3, <1>4 DEF TreeInv
<1>6. \A d \in DOMAIN calls : Settled(d) => Settled(d)'
  BY <1>2 DEF Settled
<1>7. Awaited'
  <2> SUFFICES ASSUME throws' = 0
               PROVE  Awaited'
    BY DEF Awaited
  <2>1. throws = 0
    OBVIOUS
  <2>2. \A d \in DOMAIN calls' : calls'[d].pc # "threw"
    BY <1>2, <2>1 DEF Awaited
  <2>3. ASSUME NEW b \in DOMAIN bodies', bodies'[b].pc # "running"
        PROVE  \A d \in Kids(b)' : Settled(d)'
    BY <1>2, <1>6, <2>1, <2>3 DEF Awaited, Kids
  <2>4. \A s : IsCalled(s)' => IsCalled(s)
    BY <1>2 DEF IsCalled
  <2>5. wf'.pc \in {"completing", "completed", "failing", "failed"} =>
          \A s \in def'.top : IsCalled(s)' => Settled(TopCall(s))'
    BY <1>6, <2>1, <2>4 DEF Awaited, IsCalled
  <2>6. wf'.pc # "rejected"
    BY <2>1 DEF Awaited
  <2>7. QED
    BY <2>2, <2>3, <2>5, <2>6 DEF Awaited
<1>8. QED
  BY <1>5, <1>7

LEMMA CallMovesFit ==
  ASSUME RunTyped, RunTyped', TreeInv, Awaited, NEW c \in DOMAIN calls,
         \/ Succeeds(c) \/ Fails(c) \/ TimesOut(c) \/ Retries(c) \/ Returns(c)
         \/ CallbackThrows(c)
  PROVE  TreeInv' /\ Awaited'
<1>1. /\ ~Settled(c) /\ calls[c].retries \in Nat /\ throws \in Nat
      /\ UNCHANGED <<def, wf, bodies>>
      /\ throws' = throws \/ throws' = throws + 1
  BY DEF Succeeds, Fails, TimesOut, Retries, Returns, CallbackThrows, Settled, RunTyped, Call,
         TreeInv
<1>2. CASE Catch(c, results)
  <2>1. PICK pc \in {"backoff", "failing"} : Sets(c, pc, calls[c].retries + 1)
    BY <1>2, CatchSets
  <2>2. pc \in CallPcs \ {"running"} /\ pc \notin GoingOn /\ pc # "threw"
    BY DEF CallPcs, GoingOn
  <2>3. calls[c].retries + 1 \in Nat
    BY <1>1
  <2>4. QED
    BY <1>1, <2>1, <2>2, <2>3, MovesFit
<1>3. ASSUME NEW pc \in {"completing", "starting", "ok", "failed", "threw"}, Goto(c, pc),
             calls[c].pc \in GoingOn => pc \in GoingOn, pc = "threw" => throws' # 0
      PROVE  TreeInv' /\ Awaited'
  <2>1. pc \in CallPcs \ {"running"}
    BY DEF CallPcs
  <2>2. Sets(c, pc, calls[c].retries)
    BY <1>3, <2>1, GotoSets
  <2>3. QED
    BY <1>1, <1>3, <2>1, <2>2, MovesFit
<1>4. \/ Catch(c, results)
      \/ calls[c].pc = "running" /\ Goto(c, "completing")
      \/ calls[c].pc = "backoff" /\ Goto(c, "starting")
      \/ calls[c].pc = "completing" /\ Goto(c, "ok")
      \/ calls[c].pc = "failing" /\ Goto(c, "failed")
      \/ calls[c].pc = "failing" /\ Goto(c, "threw") /\ throws' = throws + 1
  BY DEF Succeeds, Fails, TimesOut, Retries, Returns, CallbackThrows
<1>5. QED
  BY <1>1, <1>2, <1>3, <1>4 DEF GoingOn

\* A new attempt is a body of its own: those before it have a smaller count.
LEMMA BeginsFits ==
  ASSUME RunTyped, RunTyped', TreeInv, Awaited, NEW c \in DOMAIN calls, Begins(c)
  PROVE  TreeInv' /\ Awaited'
<1>1. PICK b : b = BodyOf(c)
  OBVIOUS
<1>2. PICK branch : branch = Branch(c.step)
  OBVIOUS
<1>3. PICK ss : ss = FirstOf(c, branch)
  OBVIOUS
<1>4. PICK body : body = BodyFor(c, branch)
  OBVIOUS
<1>5. /\ BeginsWith(c, b, ss) /\ bodies' = With(bodies, [new \in {b} |-> body])
      /\ calls[c].pc = "starting" /\ UNCHANGED <<def, wf, throws>>
  BY <1>1, <1>2, <1>3, <1>4, BeginsBegins
<1>6. /\ b \in Path \ {<<>>} /\ Caller(b) = c /\ KindOf(b) = def.kind[c.step]
      /\ Attempt(b) = calls[c].retries /\ calls[c].retries \in Nat
  <2>1. b[Len(b)] = [step |-> c.step, attempt |-> calls[c].retries]
    BY <1>1, BodyOfTyped
  <2>2. Attempt(b) = calls[c].retries
    BY <2>1 DEF Attempt
  <2>3. QED
    BY <1>1, <2>2, BodyOfTyped DEF RunTyped, Call
<1>7. b \notin DOMAIN bodies
  BY <1>5, <1>6 DEF TreeInv, BodyFits, GoingOn
<1>8. /\ ss \subseteq PartsIn(def, c.step) /\ (ss # {} => def.kind[c.step] \in Composite)
      /\ \A i \in DOMAIN body.todo : body.todo[i] \in PartsIn(def, c.step)
      /\ body.todo # <<>> => def.kind[c.step] \in Composite
      /\ body.pc # "running" => ss = {}
  <2>1. c.step \in Steps /\ def \in Workflows
    BY DEF RunTyped, CallNames
  <2>2. def.kind[c.step] \in Composite =>
          branch \in Seq(Steps) /\ StepsOf(branch) \subseteq PartsIn(def, c.step)
    <3>1. ASSUME def.kind[c.step] \in Composite
          PROVE  branch \in Seq(Steps) /\ StepsOf(branch) \subseteq PartsIn(def, c.step)
      <4>1. branch \in Seq(Steps)
        BY <1>2, <2>1, <3>1, BranchTyped
      <4>2. branch = <<>> \/ \E i \in DOMAIN def.parts[c.step] : branch = def.parts[c.step][i].steps
        BY <1>2, <2>1, <3>1, BranchTyped
      <4>3. QED
        BY <4>1, <4>2 DEF StepsOf, PartsIn
    <3>2. QED
      BY <3>1
  <2>3. ss \subseteq PartsIn(def, c.step) /\ (ss # {} => def.kind[c.step] \in Composite)
    BY <1>3, <2>2 DEF FirstOf, StepsOf, Composite
  <2>4. body.pc # "running" => ss = {}
    BY <1>3, <1>4 DEF FirstOf, BodyFor
  <2>5. body.todo # <<>> =>
          def.kind[c.step] = "condition" /\ branch # <<>> /\ body.todo = Tail(branch)
    BY <1>4 DEF BodyFor
  <2>6. ASSUME NEW i \in DOMAIN body.todo
        PROVE  body.todo[i] \in PartsIn(def, c.step)
    <3>1. body.todo # <<>>
      BY <2>6
    <3>2. branch \in Seq(Steps) /\ StepsOf(branch) \subseteq PartsIn(def, c.step)
      BY <2>2, <2>5, <3>1 DEF Composite
    <3>3. Tail(branch)[i] = branch[i + 1] /\ i + 1 \in DOMAIN branch
      BY <2>5, <2>6, <3>1, <3>2
    <3>4. QED
      BY <2>5, <3>1, <3>2, <3>3 DEF StepsOf
  <2>7. QED
    BY <2>3, <2>4, <2>5, <2>6 DEF Composite
<1>9. /\ DOMAIN bodies' = DOMAIN bodies \cup {b} /\ bodies'[b] = body
      /\ \A other \in DOMAIN bodies : bodies'[other] = bodies[other]
  BY <1>5, <1>7 DEF With
<1>10. \A d \in CallsIn(b, ss) : d.in = b /\ d.step \in ss
  BY DEF CallsIn
<1>11. \A d \in DOMAIN calls : d.in # b
  BY <1>6, <1>7 DEF TreeInv, CallFits
<1>12. /\ \A some : KindOf(some)' = KindOf(some)
       /\ \A s : PartsIn(def, s)' = PartsIn(def, s)
  BY <1>5, SameTerms
<1>13. /\ DOMAIN calls' = DOMAIN calls \cup CallsIn(b, ss)
       /\ calls'[c].pc = "running" /\ calls'[c].retries = calls[c].retries
       /\ \A d \in DOMAIN calls : d # c => calls'[d] = calls[d]
       /\ \A d \in CallsIn(b, ss) \ DOMAIN calls : calls'[d].pc = "starting"
  BY <1>5 DEF BeginsWith, Fresh
<1>14. ASSUME NEW d \in DOMAIN calls'
       PROVE  CallFits(d)'
  <2>1. CASE d = c
    <3>1. CallFits(c)
      BY DEF TreeInv
    <3>2. BodyOf(c)' = b
      BY <1>1, <1>13 DEF BodyOf
    <3>3. QED
      BY <1>9, <1>12, <2>1, <3>1, <3>2 DEF CallFits
  <2>2. CASE d \in DOMAIN calls /\ d # c
    <3>1. CallFits(d)
      BY <2>2 DEF TreeInv
    <3>2. BodyOf(d)' = BodyOf(d) /\ calls'[d] = calls[d]
      BY <1>13, <2>2 DEF BodyOf
    <3>3. QED
      BY <1>9, <1>12, <3>1, <3>2 DEF CallFits
  <2>3. CASE d \in CallsIn(b, ss) \ DOMAIN calls
    <3>1. d.in = b /\ d.step \in ss /\ calls'[d].pc = "starting"
      BY <1>10, <1>13, <2>3
    <3>2. QED
      BY <1>6, <1>8, <1>9, <1>12, <3>1 DEF CallFits
  <2>4. QED
    BY <1>13, <2>1, <2>2, <2>3
<1>15. ASSUME NEW other \in DOMAIN bodies'
       PROVE  BodyFits(other)'
  <2>1. CASE other = b
    BY <1>6, <1>8, <1>9, <1>12, <1>13, <2>1 DEF BodyFits, GoingOn
  <2>2. CASE other \in DOMAIN bodies
    <3>1. BodyFits(other) /\ bodies'[other] = bodies[other]
      BY <1>9, <2>2 DEF TreeInv
    <3>2. Caller(other) = c => Attempt(other) # calls[c].retries
      BY <1>5, <3>1 DEF BodyFits, GoingOn
    <3>3. QED
      BY <1>12, <1>13, <3>1, <3>2 DEF BodyFits
  <2>3. QED
    BY <1>9, <2>1, <2>2
<1>16. TreeInv'
  BY <1>5, <1>14, <1>15 DEF TreeInv
<1>17. \A d \in DOMAIN calls : Settled(d) => Settled(d)'
  BY <1>5, <1>13 DEF Settled
<1>18. Awaited'
  <2> SUFFICES ASSUME throws' = 0
               PROVE  Awaited'
    BY DEF Awaited
  <2>1. throws = 0
    BY <1>5
  <2>2. \A d \in DOMAIN calls' : calls'[d].pc # "threw"
    BY <1>13, <2>1 DEF Awaited
  <2>3. ASSUME NEW other \in DOMAIN bodies', bodies'[other].pc # "running"
        PROVE  \A d \in Kids(other)' : Settled(d)'
    <3>1. CASE other = b
      <4>1. CallsIn(b, ss) = {}
        BY <1>8, <1>9, <2>3, <3>1 DEF CallsIn
      <4>2. Kids(other)' = {}
        BY <1>11, <1>13, <3>1, <4>1 DEF Kids
      <4>3. QED
        BY <4>2
    <3>2. CASE other \in DOMAIN bodies /\ other # b
      <4>1. \A d \in Kids(other)' : d \in Kids(other)
        BY <1>10, <1>13, <3>2 DEF Kids
      <4>2. \A d \in Kids(other) : Settled(d) /\ d \in DOMAIN calls
        BY <1>9, <2>1, <2>3, <3>2 DEF Awaited, Kids
      <4>3. QED
        BY <1>17, <4>1, <4>2
    <3>3. QED
      BY <1>9, <3>1, <3>2
  <2>4. \A s : IsCalled(s)' => IsCalled(s)
    BY <1>6, <1>10, <1>13 DEF IsCalled, TopCall
  <2>5. wf'.pc \in {"completing", "completed", "failing", "failed"} =>
          \A s \in def'.top : IsCalled(s)' => Settled(TopCall(s))'
    BY <1>5, <1>17, <2>1, <2>4 DEF Awaited, IsCalled
  <2>6. wf'.pc # "rejected"
    BY <1>5, <2>1 DEF Awaited
  <2>7. QED
    BY <2>2, <2>3, <2>5, <2>6 DEF Awaited
<1>19. QED
  BY <1>16, <1>18

LEMMA EndsFit ==
  ASSUME RunTyped, TreeInv, Awaited, NEW b \in DOMAIN bodies, NEW pc \in {"done", "error"},
         Ends(b, pc), UNCHANGED <<def, wf, calls, skipped, throws>>,
         throws = 0 => \A c \in Kids(b) : Settled(c)
  PROVE  TreeInv' /\ Awaited'
<1>1. /\ DOMAIN bodies' = DOMAIN bodies /\ bodies'[b].todo = bodies[b].todo
      /\ \A other \in DOMAIN bodies : other # b => bodies'[other] = bodies[other]
  BY BodyEnds
<1>2. /\ \A some : KindOf(some)' = KindOf(some)
      /\ \A s : PartsIn(def, s)' = PartsIn(def, s)
  BY SameTerms
<1>3. \A c \in DOMAIN calls : CallFits(c) => CallFits(c)'
  BY <1>1, <1>2 DEF CallFits, BodyOf
<1>4. \A other \in DOMAIN bodies : BodyFits(other) => BodyFits(other)'
  BY <1>1, <1>2 DEF BodyFits
<1>5. TreeInv'
  BY <1>1, <1>3, <1>4 DEF TreeInv
<1>6. /\ \A c : Settled(c)' = Settled(c) /\ \A some : Kids(some)' = Kids(some)
      /\ \A s : IsCalled(s)' = IsCalled(s)
  BY DEF Settled, Kids, IsCalled
<1>7. Awaited'
  BY <1>1, <1>6 DEF Awaited
<1>8. QED
  BY <1>5, <1>7

LEMMA BodyMovesFit ==
  ASSUME RunTyped, TreeInv, Awaited, NEW b \in DOMAIN bodies,
         AgentAnswers(b) \/ Joins(b) \/ GoesOn(b)
  PROVE  TreeInv' /\ Awaited'
<1>1. b \in Path \ {<<>>}
  BY DEF RunTyped
<1>2. CASE AgentAnswers(b)
  <2>1. KindOf(b) = "agent"
    BY <1>2 DEF AgentAnswers
  <2>2. ASSUME NEW c \in Kids(b)
        PROVE  FALSE
    <3>1. c \in DOMAIN calls /\ c.in = b
      BY <2>2 DEF Kids
    <3>2. KindOf(b) \in Composite
      BY <1>1, <3>1 DEF TreeInv, CallFits
    <3>3. QED
      BY <2>1, <3>2 DEF Composite
  <2>3. QED
    BY <1>2, <2>2, AnswerEnds, EndsFit
<1>3. CASE Joins(b)
  <2>1. throws = 0 => \A c \in Kids(b) : Settled(c)
    <3>1. throws = 0 => \A c \in Kids(b) : calls[c].pc # "threw"
      BY DEF Awaited, Kids
    <3>2. QED
      BY <1>3, <3>1 DEF Joins, Settled
  <2>2. QED
    BY <1>3, <2>1, AnswerEnds, EndsFit
<1>4. CASE GoesOn(b) /\ UNCHANGED calls /\ \E pc \in {"done", "error"} : Ends(b, pc)
  BY <1>4, BranchGoesOn, EndsFit
<1>5. ASSUME NEW s \in Steps, GoesOn(b), GoesOnTo(b, s)
      PROVE  TreeInv' /\ Awaited'
  <2>1. /\ UNCHANGED <<def, wf, throws>> /\ bodies[b].pc = "running" /\ KindOf(b) = "condition"
    BY <1>5, BranchGoesOn
  <2>2. /\ \A some : KindOf(some)' = KindOf(some)
        /\ \A t : PartsIn(def, t)' = PartsIn(def, t)
    BY <2>1, SameTerms
  <2>3. bodies[b] \in Body /\ bodies[b].todo \in Seq(Steps) /\ bodies[b].todo # <<>>
    BY <1>5 DEF RunTyped, Body, GoesOnTo
  <2>4. PICK new : new = [bodies[b] EXCEPT !.todo = Tail(bodies[b].todo)]
    OBVIOUS
  <2>5. new.pc = "running" /\ new.todo = Tail(bodies[b].todo)
    BY <2>1, <2>3, <2>4 DEF Body
  <2>6. bodies' = [bodies EXCEPT ![b] = new]
    BY <1>5, <2>4 DEF GoesOnTo
  <2>7. /\ DOMAIN bodies' = DOMAIN bodies /\ bodies'[b] = new
        /\ \A other \in DOMAIN bodies : other # b => bodies'[other] = bodies[other]
    BY <2>6 DEF RunTyped
  <2>8. PICK cs : cs = CallsIn(b, {s})
    OBVIOUS
  <2>9. \A c \in cs : c.in = b /\ c.step = s
    BY <2>8 DEF CallsIn
  <2>10. /\ DOMAIN calls' = DOMAIN calls \cup cs
         /\ \A c \in DOMAIN calls : calls'[c] = calls[c]
         /\ \A c \in cs \ DOMAIN calls : calls'[c].pc = "starting"
    <3>1. Adds(cs) /\ Fresh.pc = "starting"
      BY <1>5, <2>8 DEF GoesOnTo, Fresh
    <3>2. QED
      BY <3>1 DEF Adds
  <2>11. BodyFits(b) /\ s = bodies[b].todo[1] /\ 1 \in DOMAIN bodies[b].todo
    BY <1>5, <2>3 DEF TreeInv, GoesOnTo
  <2>12. s \in PartsIn(def, Caller(b).step)
    BY <2>11 DEF BodyFits
  <2>13. ASSUME NEW c \in DOMAIN calls'
         PROVE  CallFits(c)'
    <3>1. CASE c \in DOMAIN calls
      <4>1. CallFits(c) /\ BodyOf(c)' = BodyOf(c) /\ calls'[c] = calls[c]
        BY <2>10, <3>1 DEF TreeInv, BodyOf
      <4>2. QED
        BY <2>2, <2>7, <4>1 DEF CallFits
    <3>2. CASE c \in cs \ DOMAIN calls
      <4>1. c.in = b /\ c.step = s /\ calls'[c].pc = "starting"
        BY <2>9, <2>10, <3>2
      <4>2. QED
        BY <2>1, <2>2, <2>7, <2>12, <4>1 DEF CallFits, Composite
    <3>3. QED
      BY <2>10, <3>1, <3>2
  <2>14. ASSUME NEW other \in DOMAIN bodies'
         PROVE  BodyFits(other)'
    <3>1. BodyFits(other)
      BY <2>7 DEF TreeInv
    <3>2. Caller(other) \in DOMAIN calls' /\ calls'[Caller(other)] = calls[Caller(other)]
      BY <2>10, <3>1 DEF BodyFits
    <3>3. CASE other # b
      BY <2>2, <2>7, <3>1, <3>2, <3>3 DEF BodyFits
    <3>4. CASE other = b
      <4>1. \A i \in DOMAIN new.todo : new.todo[i] = bodies[b].todo[i + 1] /\ i + 1 \in DOMAIN bodies[b].todo
        BY <2>3, <2>5
      <4>2. \A i \in DOMAIN new.todo : new.todo[i] \in PartsIn(def, Caller(b).step)
        BY <2>11, <4>1 DEF BodyFits
      <4>3. QED
        BY <2>1, <2>2, <2>7, <3>1, <3>2, <3>4, <4>2 DEF BodyFits, Composite
    <3>5. QED
      BY <3>3, <3>4
  <2>15. TreeInv'
    BY <2>1, <2>13, <2>14 DEF TreeInv
  <2>16. \A c \in DOMAIN calls : Settled(c)' = Settled(c)
    BY <2>10 DEF Settled
  <2>17. Awaited'
    <3> SUFFICES ASSUME throws' = 0
                 PROVE  Awaited'
      BY DEF Awaited
    <3>1. throws = 0
      BY <2>1
    <3>2. \A c \in DOMAIN calls' : calls'[c].pc # "threw"
      BY <2>10, <3>1 DEF Awaited
    <3>3. ASSUME NEW other \in DOMAIN bodies', bodies'[other].pc # "running"
          PROVE  \A c \in Kids(other)' : Settled(c)'
      <4>1. other # b
        BY <2>5, <2>7, <3>3
      <4>2. \A c \in Kids(other)' : c \in Kids(other) /\ c \in DOMAIN calls
        BY <2>9, <2>10, <4>1 DEF Kids
      <4>3. QED
        BY <2>7, <2>16, <3>1, <3>3, <4>1, <4>2 DEF Awaited
    <3>4. \A t : IsCalled(t)' => IsCalled(t)
      BY <1>1, <2>9, <2>10 DEF IsCalled, TopCall
    <3>5. wf'.pc \in {"completing", "completed", "failing", "failed"} =>
            \A t \in def'.top : IsCalled(t)' => Settled(TopCall(t))'
      BY <2>1, <2>16, <3>1, <3>4 DEF Awaited, IsCalled
    <3>6. wf'.pc # "rejected"
      BY <2>1, <3>1 DEF Awaited
    <3>7. QED
      BY <3>2, <3>3, <3>5, <3>6 DEF Awaited
  <2>18. QED
    BY <2>15, <2>17
<1>6. QED
  BY <1>2, <1>3, <1>4, <1>5, BranchGoesOn

\* A new level is outside all attempts.
LEMMA LevelFits ==
  ASSUME GraphInv, TreeInv, Awaited, NEW n, AllGood(n - 1), GoToLevel(n),
         UNCHANGED <<def, bodies, throws>>
  PROVE  TreeInv' /\ Awaited'
<1>1. RunTyped
  BY DEF GraphInv
<1>2. /\ \A some : KindOf(some)' = KindOf(some)
      /\ \A t : PartsIn(def, t)' = PartsIn(def, t)
  BY SameTerms
<1>3. CASE Resolved[n - 1] = def.top
  <2>1. wf' = [wf EXCEPT !.pc = "completing"] /\ UNCHANGED calls
    BY <1>3 DEF GoToLevel
  <2>2. wf'.pc = "completing"
    BY <1>1, <2>1 DEF RunTyped
  <2>3. /\ \A c : Settled(c)' = Settled(c) /\ CallFits(c)' = CallFits(c)
        /\ \A b : Kids(b)' = Kids(b) /\ BodyFits(b)' = BodyFits(b)
        /\ \A s : IsCalled(s)' = IsCalled(s)
    BY <1>2, <2>1 DEF Settled, Kids, IsCalled, CallFits, BodyFits, BodyOf
  <2>4. \A s \in def.top : IsCalled(s) => Settled(TopCall(s))
    BY <1>3 DEF AllGood, Good, GraphInv, Settled
  <2>5. TreeInv'
    BY <2>1, <2>3 DEF TreeInv
  <2>6. Awaited'
    BY <2>1, <2>2, <2>3, <2>4 DEF Awaited
  <2>7. QED
    BY <2>5, <2>6
<1>4. CASE Resolved[n - 1] # def.top
  <2>1. PICK run : run = {s \in Level(n) : Holds(def.condition[s])}
    OBVIOUS
  <2>2. PICK cs : cs = {TopCall(s) : s \in run}
    OBVIOUS
  <2>3. wf'.pc = "level" /\ calls' = With(calls, Called(cs))
    BY <1>4, <2>1, <2>2 DEF GoToLevel
  <2>4. /\ DOMAIN calls' = DOMAIN calls \cup cs
        /\ \A c \in DOMAIN calls : calls'[c] = calls[c]
        /\ \A c \in cs \ DOMAIN calls : calls'[c].pc = "starting"
    <3>1. Adds(cs) /\ Fresh.pc = "starting"
      BY <1>1, <2>3, CalledAdds DEF Fresh
    <3>2. QED
      BY <3>1 DEF Adds
  <2>5. \A c \in cs : c.in = <<>>
    BY <2>2 DEF TopCall
  <2>6. ASSUME NEW c \in DOMAIN calls'
        PROVE  CallFits(c)'
    <3>1. CASE c \in DOMAIN calls
      <4>1. CallFits(c) /\ BodyOf(c)' = BodyOf(c) /\ calls'[c] = calls[c]
        BY <2>4, <3>1 DEF TreeInv, BodyOf
      <4>2. QED
        BY <1>2, <4>1 DEF CallFits
    <3>2. CASE c \in cs \ DOMAIN calls
      BY <2>4, <2>5, <3>2 DEF CallFits
    <3>3. QED
      BY <2>4, <3>1, <3>2
  <2>7. ASSUME NEW b \in DOMAIN bodies
        PROVE  BodyFits(b)'
    <3>1. BodyFits(b)
      BY DEF TreeInv
    <3>2. Caller(b) \in DOMAIN calls' /\ calls'[Caller(b)] = calls[Caller(b)]
      BY <2>4, <3>1 DEF BodyFits
    <3>3. QED
      BY <1>2, <3>1, <3>2 DEF BodyFits
  <2>8. TreeInv'
    BY <2>6, <2>7 DEF TreeInv
  <2>9. \A c \in DOMAIN calls : Settled(c)' = Settled(c)
    BY <2>4 DEF Settled
  <2>10. Awaited'
    <3> SUFFICES ASSUME throws' = 0
                 PROVE  Awaited'
      BY DEF Awaited
    <3>1. \A c \in DOMAIN calls' : calls'[c].pc # "threw"
      BY <2>4 DEF Awaited
    <3>2. ASSUME NEW b \in DOMAIN bodies', bodies'[b].pc # "running"
          PROVE  \A c \in Kids(b)' : Settled(c)'
      <4>1. b # <<>>
        BY <1>1 DEF RunTyped
      <4>2. \A c \in Kids(b)' : c \in Kids(b) /\ c \in DOMAIN calls
        BY <2>4, <2>5, <4>1 DEF Kids
      <4>3. QED
        BY <2>9, <3>2, <4>2 DEF Awaited
    <3>3. QED
      BY <2>3, <3>1, <3>2 DEF Awaited
  <2>11. QED
    BY <2>8, <2>10
<1>5. QED
  BY <1>3, <1>4

LEMMA RunStepFits ==
  ASSUME GraphInv, TreeInv, Awaited,
         BeginWorkflow \/ EndLevel \/ EndWorkflow \/ WorkflowCallbackThrows
  PROVE  TreeInv' /\ Awaited'
<1>1. UNCHANGED <<def, bodies>> /\ RunTyped /\ throws' \in Nat /\ (throws' = 0 => throws = 0)
  BY DEF BeginWorkflow, EndLevel, EndWorkflow, WorkflowCallbackThrows, GraphInv, TreeInv
<1>2. ASSUME NEW pc \in {"failing", "completed", "failed", "rejected"},
             wf' = [wf EXCEPT !.pc = pc], UNCHANGED calls,
             throws' = 0 /\ pc # "rejected" => \A s \in def.top : IsCalled(s) => Settled(TopCall(s)),
             pc = "rejected" => throws' # 0
      PROVE  TreeInv' /\ Awaited'
  <2>1. wf'.pc = pc
    BY <1>1, <1>2 DEF RunTyped
  <2>2. /\ \A some : KindOf(some)' = KindOf(some)
        /\ \A t : PartsIn(def, t)' = PartsIn(def, t)
    BY <1>1, SameTerms
  <2>3. /\ \A c : Settled(c)' = Settled(c) /\ CallFits(c)' = CallFits(c)
        /\ \A b : Kids(b)' = Kids(b) /\ BodyFits(b)' = BodyFits(b)
        /\ \A s : IsCalled(s)' = IsCalled(s)
    BY <1>1, <1>2, <2>2 DEF Settled, Kids, IsCalled, CallFits, BodyFits, BodyOf
  <2>4. TreeInv'
    BY <1>1, <1>2, <2>3 DEF TreeInv
  <2>5. Awaited'
    BY <1>1, <1>2, <2>1, <2>3 DEF Awaited
  <2>6. QED
    BY <2>4, <2>5
<1>3. CASE BeginWorkflow
  <2>1. wf.pc = "starting" /\ throws' = throws /\ \A s \in def.top : ~IsCalled(s)
    BY <1>3 DEF BeginWorkflow, GraphInv
  <2>2. CASE wf' = [wf EXCEPT !.pc = "failing"] /\ UNCHANGED calls
    BY <1>2, <2>1, <2>2
  <2>3. CASE GoToLevel(1)
    <3>1. AllGood(1 - 1)
      BY <1>1, ResolvedGrows DEF AllGood, RunTyped
    <3>2. QED
      BY <1>1, <2>1, <2>3, <3>1, LevelFits
  <2>4. QED
    BY <1>3, <2>2, <2>3 DEF BeginWorkflow
<1>4. CASE EndLevel
  <2>1. /\ wf.pc = "level" /\ throws' = throws /\ wf.level \in 1 .. N /\ N \in Nat
        /\ Reached(wf.level) /\ AllGood(wf.level - 1)
    BY <1>1, <1>4, ResolvedGrows DEF EndLevel, GraphInv, RunTyped
  <2>2. PICK level : level = {c \in DOMAIN calls : c.in = <<>> /\ c.step \in Level(wf.level)}
    OBVIOUS
  <2>3. (\A c \in level : Settled(c)) \/ \E c \in level : calls[c].pc = "threw"
    BY <1>4, <2>2 DEF EndLevel
  <2>4. ASSUME NEW s \in def.top, IsCalled(s)
        PROVE  s \in Resolved[wf.level - 1] \/ TopCall(s) \in level
    <3>1. s \in Resolved[wf.level]
      BY <2>1, <2>4 DEF Reached
    <3>2. QED
      BY <2>2, <2>4, <3>1 DEF Level, IsCalled, TopCall
  <2>5. CASE wf' = [wf EXCEPT !.pc = "failing"] /\ UNCHANGED calls
    <3>1. throws = 0 => \A c \in level : Settled(c)
      BY <2>2, <2>3 DEF Awaited
    <3>2. \A s \in Resolved[wf.level - 1] : IsCalled(s) => Settled(TopCall(s))
      BY <2>1 DEF AllGood, Good, GraphInv, Settled
    <3>3. throws = 0 => \A s \in def.top : IsCalled(s) => Settled(TopCall(s))
      BY <2>4, <3>1, <3>2
    <3>4. QED
      BY <1>1, <1>2, <2>5, <3>3
  <2>6. CASE GoToLevel(wf.level + 1) /\ \A c \in level : calls[c].pc = "ok"
    <3>1. ASSUME NEW s \in Resolved[wf.level]
          PROVE  Good(s)
      <4>1. CASE s \in Resolved[wf.level - 1]
        BY <2>1, <4>1 DEF AllGood
      <4>2. CASE s \notin Resolved[wf.level - 1]
        <5>1. s \in def.top
          BY <1>1, <2>1, <3>1, <4>2, ResolvedGrows DEF Round, RunTyped
        <5>2. IsCalled(s) \/ s \in skipped
          BY <2>1, <3>1, <5>1 DEF Reached
        <5>3. IsCalled(s) => TopCall(s) \in level
          BY <2>4, <4>2, <5>1
        <5>4. QED
          BY <2>6, <5>2, <5>3 DEF Good
      <4>3. QED
        BY <4>1, <4>2
    <3>2. PICK n : n = wf.level + 1
      OBVIOUS
    <3>3. n - 1 = wf.level
      BY <2>1, <3>2
    <3>4. AllGood(n - 1) /\ GoToLevel(n)
      BY <2>6, <3>1, <3>2, <3>3 DEF AllGood
    <3>5. QED
      BY <1>1, <2>1, <3>4, LevelFits
  <2>7. QED
    BY <1>4, <2>2, <2>5, <2>6 DEF EndLevel
<1>5. CASE EndWorkflow \/ WorkflowCallbackThrows
  <2>1. \/ wf.pc = "completing" /\ wf' = [wf EXCEPT !.pc = "completed"]
        \/ wf.pc = "completing" /\ wf' = [wf EXCEPT !.pc = "failing"]
        \/ wf.pc = "failing" /\ wf' = [wf EXCEPT !.pc = "failed"]
        \/ wf' = [wf EXCEPT !.pc = "rejected"] /\ throws' = throws + 1
    BY <1>5 DEF EndWorkflow, WorkflowCallbackThrows
  <2>2. UNCHANGED calls
    BY <1>5 DEF EndWorkflow, WorkflowCallbackThrows
  <2>3. throws = 0 /\ wf.pc \in {"completing", "failing"} =>
          \A s \in def.top : IsCalled(s) => Settled(TopCall(s))
    BY DEF Awaited
  <2>4. throws \in Nat
    BY DEF TreeInv
  <2>5. QED
    BY <1>1, <1>2, <2>1, <2>2, <2>3, <2>4
<1>6. QED
  BY <1>3, <1>4, <1>5

RunInv == GraphInv /\ TreeInv /\ Awaited

LEMMA NextKeepsRun ==
  ASSUME RunInv, [Next]_vars
  PROVE  RunInv'
<1> USE DEF Progress, Next
<1>1. GraphInv' /\ GraphInv /\ TreeInv /\ Awaited /\ RunTyped /\ RunTyped'
  BY NextKeepsGraph DEF RunInv, GraphInv
<1>2. CASE UNCHANGED vars
  <2>1. UNCHANGED <<def, wf, calls, bodies, throws>>
    BY <1>2 DEF vars
  <2>2. /\ \A some : KindOf(some)' = KindOf(some)
        /\ \A t : PartsIn(def, t)' = PartsIn(def, t)
    BY <2>1, SameTerms
  <2>3. /\ \A c : Settled(c)' = Settled(c) /\ CallFits(c)' = CallFits(c)
        /\ \A b : Kids(b)' = Kids(b) /\ BodyFits(b)' = BodyFits(b)
        /\ \A s : IsCalled(s)' = IsCalled(s)
    BY <2>1, <2>2 DEF Settled, Kids, IsCalled, CallFits, BodyFits, BodyOf
  <2>4. TreeInv' /\ Awaited'
    BY <1>1, <2>1, <2>3 DEF TreeInv, Awaited
  <2>5. QED
    BY <1>1, <2>4 DEF RunInv
<1>3. TreeInv' /\ Awaited' => RunInv'
  BY <1>1 DEF RunInv
<1>4. QED
  BY <1>1, <1>2, <1>3, CallMovesFit, BeginsFits, BodyMovesFit, RunStepFits

LEMMA InitRun == Init => RunInv
<1> SUFFICES ASSUME Init
             PROVE  RunInv
  OBVIOUS
<1>1. DOMAIN calls = {} /\ DOMAIN bodies = {}
  BY DEF Init
<1>2. TreeInv /\ Awaited
  BY <1>1 DEF Init, TreeInv, Awaited, IsCalled
<1>3. QED
  BY <1>2, InitGraph DEF RunInv

LEMMA RunInvHolds == Spec => []RunInv
<1>1. RunInv /\ [Next]_vars => RunInv'
  BY NextKeepsRun
<1>2. QED
  BY <1>1, InitRun, PTL DEF Spec

--------------------------------------------------------------------------------
(***************************************************************************)
(* From the tree to what is late: a call that nothing has abandoned is     *)
(* awaited by a call that nothing has abandoned, up to the graph.          *)
(***************************************************************************)

LEMMA AwaitedByItsCaller ==
  ASSUME RunInv, throws = 0, NEW c \in Live, ~UnderAbandoned(c), c.in # <<>>
  PROVE  /\ Caller(c.in) \in Live /\ ~UnderAbandoned(Caller(c.in))
         /\ Len(Caller(c.in).in) < Len(c.in) /\ c.in = BodyOf(Caller(c.in))
         /\ KindOf(c.in) \in Composite /\ c.step \in PartsIn(def, Caller(c.in).step)
<1>1. PICK b : b = c.in
  OBVIOUS
<1>2. PICK d : d = Caller(b)
  OBVIOUS
<1>3. /\ c \in DOMAIN calls /\ ~Settled(c) /\ b \in DOMAIN bodies
      /\ KindOf(b) \in Composite /\ c.step \in PartsIn(def, d.step)
  BY <1>1, <1>2 DEF Live, RunInv, TreeInv, CallFits
<1>4. b \in Path \ {<<>>}
  BY <1>3 DEF RunInv, GraphInv, RunTyped
<1>5. Len(b) \in Nat /\ 1 <= Len(b)
  BY <1>4, AttemptTyped
<1>6. \A n \in 1 .. Len(b) : ~Abandoned(SubSeq(b, 1, n))
  BY <1>1 DEF UnderAbandoned
<1>7. SubSeq(b, 1, Len(b)) = b
  BY <1>4, <1>5 DEF Path
<1>8. c \in Kids(b)
  BY <1>1, <1>3 DEF Kids
<1>9. bodies[b].pc = "running"
  BY <1>3, <1>8 DEF RunInv, Awaited
<1>10. calls[d].pc = "running" /\ b = BodyOf(d)
  <2>1. ~Abandoned(b)
    <3>1. PICK n \in 1 .. Len(b) : n = Len(b)
      BY <1>5
    <3>2. QED
      BY <1>6, <1>7, <3>1
  <2>2. QED
    BY <1>2, <1>9, <2>1 DEF Abandoned
<1>11. d \in Live
  BY <1>2, <1>3, <1>10 DEF RunInv, TreeInv, BodyFits, Live, Settled
<1>12. d.in = SubSeq(b, 1, Len(b) - 1)
  BY <1>2 DEF Caller
<1>13. Len(d.in) = Len(b) - 1
  <2>1. PICK m \in Nat : m = Len(b) - 1
    BY <1>5
  <2>2. d.in = SubSeq(b, 1, m) /\ m <= Len(b)
    BY <1>5, <1>12, <2>1
  <2>3. \A R : b \in Seq(R) => Len(SubSeq(b, 1, m)) = m
    BY <2>2
  <2>4. QED
    BY <1>4, <2>1, <2>2, <2>3 DEF Path
<1>14. \A n \in 1 .. Len(d.in) : SubSeq(d.in, 1, n) = SubSeq(b, 1, n) /\ n \in 1 .. Len(b)
  BY <1>4, <1>5, <1>12, <1>13 DEF Path
<1>15. ~UnderAbandoned(d)
  BY <1>6, <1>14 DEF UnderAbandoned
<1>16. QED
  BY <1>1, <1>2, <1>3, <1>5, <1>10, <1>11, <1>13, <1>15

LEMMA LiveTyped ==
  ASSUME RunInv, NEW c \in Live
  PROVE  /\ c \in DOMAIN calls /\ ~Settled(c) /\ Len(c.in) \in Nat
         /\ c = [in |-> c.in, step |-> c.step]
         /\ c.in = <<>> => c.step \in def.top
<1>1. c \in DOMAIN calls /\ ~Settled(c) /\ c \in CallNames
  BY DEF Live, RunInv, GraphInv, RunTyped
<1>2. c = [in |-> c.in, step |-> c.step] /\ Len(c.in) \in Nat
  BY <1>1 DEF CallNames, Path
<1>3. ASSUME c.in = <<>>
      PROVE  c.step \in def.top
  <2>1. IsCalled(c.step)
    BY <1>1, <1>2, <1>3 DEF IsCalled, TopCall
  <2>2. QED
    BY <2>1 DEF RunInv, GraphInv
<1>4. QED
  BY <1>1, <1>2, <1>3

LEMMA ReturnedAwaitsNothing ==
  ASSUME RunInv, throws = 0, Returned, NEW c \in Live
  PROVE  UnderAbandoned(c)
<1> DEFINE Late == {d \in Live : ~UnderAbandoned(d)}
           Lengths == {Len(d.in) : d \in Late}
<1>1. SUFFICES ASSUME Late # {}
               PROVE  FALSE
  OBVIOUS
<1>2. Lengths \in SUBSET Nat /\ Lengths # {}
  BY <1>1, LiveTyped
<1>3. PICK d \in Late : \A n \in Lengths : Len(d.in) <= n
  <2>1. PICK m \in Lengths : \A n \in Lengths : m <= n
    BY <1>2, NatMin
  <2>2. QED
    BY <2>1
<1>4. d \in Live /\ ~UnderAbandoned(d) /\ \A e \in Late : Len(d.in) <= Len(e.in)
  BY <1>3
<1>5. CASE d.in = <<>>
  <2>1. d \in DOMAIN calls /\ ~Settled(d) /\ d = TopCall(d.step) /\ d.step \in def.top
    BY <1>4, <1>5, LiveTyped DEF TopCall
  <2>2. \A s \in def.top : IsCalled(s) => Settled(TopCall(s))
    BY DEF Returned, RunInv, Awaited
  <2>3. QED
    BY <2>1, <2>2 DEF IsCalled
<1>6. CASE d.in # <<>>
  <2>1. Caller(d.in) \in Late /\ Len(Caller(d.in).in) < Len(d.in)
    BY <1>4, <1>6, AwaitedByItsCaller
  <2>2. Len(d.in) \in Nat /\ Len(Caller(d.in).in) \in Nat
    BY <1>4, <2>1, LiveTyped
  <2>3. QED
    BY <1>4, <2>1, <2>2
<1>7. QED
  BY <1>5, <1>6

\* Two calls of one step that nothing has abandoned are one.
Twins(c, d) == c.step = d.step /\ c # d /\ ~UnderAbandoned(c) /\ ~UnderAbandoned(d)

LEMMA NoTwins ==
  ASSUME RunInv, throws = 0, NEW c \in Live, NEW d \in Live
  PROVE  ~Twins(c, d)
<1> DEFINE Some == {e \in Live : \E f \in Live : Twins(e, f)}
           Lengths == {Len(e.in) : e \in Some}
<1>1. SUFFICES ASSUME Some # {}
               PROVE  FALSE
  OBVIOUS
<1>2. Lengths \in SUBSET Nat /\ Lengths # {}
  BY <1>1, LiveTyped
<1>3. PICK e \in Some : \A n \in Lengths : Len(e.in) <= n
  <2>1. PICK m \in Lengths : \A n \in Lengths : m <= n
    BY <1>2, NatMin
  <2>2. QED
    BY <2>1
<1>4. PICK f \in Live : Twins(e, f)
  BY <1>3
<1>5. /\ e \in Live /\ \A g \in Some : Len(e.in) <= Len(g.in)
      /\ e.step = f.step /\ e # f /\ ~UnderAbandoned(e) /\ ~UnderAbandoned(f)
  BY <1>3, <1>4 DEF Twins
<1>6. /\ e = [in |-> e.in, step |-> e.step] /\ f = [in |-> f.in, step |-> f.step]
      /\ e.in = <<>> => e.step \in def.top
      /\ f.in = <<>> => f.step \in def.top
  BY <1>5, LiveTyped
<1>7. def \in Workflows /\ \A g \in Live : g.step \in Steps
  BY DEF RunInv, GraphInv, RunTyped, Live, CallNames
<1>8. ASSUME NEW p \in Steps, NEW q \in Steps, def.kind[p] \in Composite, def.kind[q] \in Composite
      PROVE  /\ PartsIn(def, p) \cap def.top = {}
             /\ PartsIn(def, p) \cap PartsIn(def, q) # {} => p = q
  BY <1>7, <1>8, OwnSteps DEF Composite, Steps
<1>9. ASSUME NEW g \in Live, g.in # <<>>, ~UnderAbandoned(g)
      PROVE  /\ Caller(g.in) \in Live /\ ~UnderAbandoned(Caller(g.in))
             /\ Len(Caller(g.in).in) < Len(g.in) /\ g.in = BodyOf(Caller(g.in))
             /\ def.kind[Caller(g.in).step] \in Composite /\ Caller(g.in).step \in Steps
             /\ g.step \in PartsIn(def, Caller(g.in).step)
  BY <1>7, <1>9, AwaitedByItsCaller DEF KindOf, Caller
<1>10. CASE e.in = <<>> \/ f.in = <<>>
  <2>1. e.in = <<>> /\ f.in = <<>>
    BY <1>5, <1>6, <1>8, <1>9, <1>10
  <2>2. QED
    BY <1>5, <1>6, <2>1
<1>11. CASE e.in # <<>> /\ f.in # <<>>
  <2>1. PICK p : p = Caller(e.in)
    OBVIOUS
  <2>2. PICK q : q = Caller(f.in)
    OBVIOUS
  <2>3. /\ p \in Live /\ ~UnderAbandoned(p) /\ Len(p.in) < Len(e.in) /\ e.in = BodyOf(p)
        /\ def.kind[p.step] \in Composite /\ p.step \in Steps /\ e.step \in PartsIn(def, p.step)
    BY <1>5, <1>9, <1>11, <2>1
  <2>4. /\ q \in Live /\ ~UnderAbandoned(q) /\ f.in = BodyOf(q)
        /\ def.kind[q.step] \in Composite /\ q.step \in Steps /\ f.step \in PartsIn(def, q.step)
    BY <1>5, <1>9, <1>11, <2>2
  <2>5. p.step = q.step
    BY <1>5, <1>8, <2>3, <2>4
  <2>6. CASE p = q
    BY <1>5, <1>6, <2>3, <2>4, <2>6
  <2>7. CASE p # q
    <3>1. p \in Some
      BY <2>3, <2>4, <2>5, <2>7 DEF Twins
    <3>2. Len(p.in) \in Nat /\ Len(e.in) \in Nat
      BY <1>5, <2>3, LiveTyped
    <3>3. QED
      BY <1>5, <2>3, <3>1, <3>2
  <2>8. QED
    BY <2>6, <2>7
<1>12. QED
  BY <1>10, <1>11

\* executeWithTimeout and the awaits of parallel, condition and the levels: what
\* goes on after execute() has returned, and what runs while another runs the
\* same step, belongs to an attempt that timed out, unless a callback has thrown.
THEOREM LateWorkHasTimedOut == Spec => []OnlyTimedOutWorkIsLate
<1>1. RunInv => OnlyTimedOutWorkIsLate
  BY ReturnedAwaitsNothing, NoTwins DEF OnlyTimedOutWorkIsLate, Twins
<1>2. QED
  BY <1>1, RunInvHolds, PTL

================================================================================
