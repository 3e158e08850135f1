---------------------------- MODULE WorkflowEngine ----------------------------
(***************************************************************************)
(* One run of a workflow: createWorkflowEngine().execute and executeStep   *)
(* of src/workflows/engine.ts.                                             *)
(*                                                                         *)
(* JavaScript runs one callback at a time, so an action is what happens    *)
(* between two awaits.  A call is one execution of executeStep, known by   *)
(* the step and the attempt it runs inside; a body is one attempt of a     *)
(* call, known by the steps and attempts that lead to it.  Promise.race    *)
(* abandons a body that timed out: it goes on, its calls included, while   *)
(* the call that started it retries or fails.                              *)
(***************************************************************************)
EXTENDS Naturals, Sequences, FiniteSets

CONSTANTS
  Workflows,   \* the workflow definitions that may be run
  MaxThrows    \* bound: how often the onEvent callback throws

\* A definition lists its steps, and the branches of those made of others.
ASSUME WorkflowAssumption ==
  \A w \in Workflows :
    /\ IsFiniteSet(w.top) /\ w.top \subseteq DOMAIN w.kind
    /\ \A s \in DOMAIN w.kind : w.kind[s] \in {"parallel", "failFast", "condition"} =>
         /\ DOMAIN w.parts[s] \subseteq Nat
         /\ \A i \in DOMAIN w.parts[s] : w.parts[s][i].steps \in Seq(DOMAIN w.kind)

VARIABLES
  def,       \* the WorkflowDefinition being run
  wf,        \* where execute() is, and in which level
  calls,     \* executeStep: where it is, and its count of retries
  bodies,    \* executeWithTimeout: attempts, and what is left of a branch
  results,   \* context.stepResults
  skipped,   \* steps whose condition was false
  throws     \* how often the callback has thrown

vars == <<def, wf, calls, bodies, results, skipped, throws>>

Steps == DOMAIN def.kind

\* wait and transform ("plain") end at once; command, script, an unknown type
\* and an unknown agent ("refused") throw at once.  An agent answers later or
\* never, and never rejects: AgentRunner.run resolves with success: false.
Kinds == {"agent", "refused", "plain", "parallel", "failFast", "condition"}

CallPcs == {"starting", "running", "completing", "backoff", "failing",
            "ok", "failed", "threw"}
Settled(c) == calls[c].pc \in {"ok", "failed", "threw"}

--------------------------------------------------------------------------------
(* Steps, calls and bodies                                                 *)

\* evaluateCondition: "true", "false", or the name of a step that succeeded.
Holds(when) == when = "true" \/ (when \in Steps /\ results[when] = "ok")

\* The steps of the first branch that applies; the default is a last one.
Branch(s) ==
  LET open == {i \in DOMAIN def.parts[s] : Holds(def.parts[s][i].when)}
  IN  IF open = {} THEN <<>>
      ELSE def.parts[s][CHOOSE i \in open : \A j \in open : i <= j].steps

StepsOf(seq) == {seq[i] : i \in DOMAIN seq}

BodyOf(c)  == Append(c.in, [step |-> c.step, attempt |-> calls[c].retries])
Caller(b)  == [in |-> SubSeq(b, 1, Len(b) - 1), step |-> b[Len(b)].step]
KindOf(b)  == def.kind[b[Len(b)].step]
Kids(b)    == {c \in DOMAIN calls : c.in = b}
CallsIn(b, ss) == {[in |-> b, step |-> s] : s \in ss}

\* What is there stays, and what is new comes with it.
With(f, new) == [x \in DOMAIN f \cup DOMAIN new |-> IF x \in DOMAIN f THEN f[x] ELSE new[x]]

\* executeStep is called: it awaits the callback for step:start first.
Called(cs) == [c \in cs |-> [pc |-> "starting", retries |-> 0]]

\* The catch block: another attempt after a delay, or the step has failed.
Catch(c, before) ==
  LET again == calls[c].retries < def.retries[c.step]
  IN  /\ calls' = [calls EXCEPT ![c] = [pc      |-> IF again THEN "backoff" ELSE "failing",
                                        retries |-> calls[c].retries + 1]]
      /\ results' = IF again THEN before ELSE [before EXCEPT ![c.step] = "failed"]

Goto(c, pc) == calls' = [calls EXCEPT ![c].pc = pc]

--------------------------------------------------------------------------------
(* executeStep and executeWithTimeout                                      *)

\* The callback has returned: the attempt begins, and with it the calls that a
\* composite step makes before its first await.
Begins(c) ==
  /\ calls[c].pc = "starting"
  /\ LET b      == BodyOf(c)
         kind   == def.kind[c.step]
         branch == Branch(c.step)
         first  == IF kind = "condition" /\ branch # <<>> THEN {Head(branch)}
                   ELSE IF kind \in {"parallel", "failFast"} THEN StepsOf(branch)
                   ELSE {}
         body   == [pc   |-> IF kind = "refused" THEN "error"
                             ELSE IF kind = "plain" THEN "done" ELSE "running",
                    todo |-> IF kind = "condition" /\ branch # <<>>
                             THEN Tail(branch) ELSE <<>>]
     IN  /\ bodies' = With(bodies, [new \in {b} |-> body])
         /\ calls' = With([calls EXCEPT ![c].pc = "running"], Called(CallsIn(b, first)))
  /\ UNCHANGED <<def, wf, results, skipped, throws>>

\* Promise.race has settled by its body, and the callback is told.
Succeeds(c) ==
  /\ calls[c].pc = "running" /\ bodies[BodyOf(c)].pc = "done"
  /\ Goto(c, "completing")
  /\ results' = [results EXCEPT ![c.step] = "ok"]
  /\ UNCHANGED <<def, wf, bodies, skipped, throws>>

Fails(c) ==
  /\ calls[c].pc = "running" /\ bodies[BodyOf(c)].pc = "error"
  /\ Catch(c, results)
  /\ UNCHANGED <<def, wf, bodies, skipped, throws>>

\* Mutant: the timeout of a step inside another one is not armed.
TimesOutAtTop(c) ==
  /\ calls[c].pc = "running" /\ c.step \in def.timed /\ c.in = <<>>
  /\ bodies[BodyOf(c)].pc = "running"
  /\ Catch(c, results)
  /\ UNCHANGED <<def, wf, bodies, skipped, throws>>

\* The timer wins the race.  Nothing cancels the body.
TimesOut(c) ==
  /\ calls[c].pc = "running" /\ c.step \in def.timed
  /\ bodies[BodyOf(c)].pc = "running"
  /\ Catch(c, results)
  /\ UNCHANGED <<def, wf, bodies, skipped, throws>>

Retries(c) ==
  /\ calls[c].pc = "backoff"
  /\ Goto(c, "starting")
  /\ UNCHANGED <<def, wf, bodies, results, skipped, throws>>

\* The callback has been told of the end.
Returns(c) ==
  /\ \/ calls[c].pc = "completing" /\ Goto(c, "ok")
     \/ calls[c].pc = "failing" /\ Goto(c, "failed")
  /\ UNCHANGED <<def, wf, bodies, results, skipped, throws>>

\* The callback throws: inside the try block that is a failed attempt, although
\* the step may have succeeded; inside the catch block executeStep rejects.
CallbackThrows(c) ==
  /\ throws < MaxThrows
  /\ throws' = throws + 1
  /\ \/ calls[c].pc \in {"starting", "completing"} /\ Catch(c, results)
     \/ calls[c].pc = "failing" /\ Goto(c, "threw") /\ UNCHANGED results
  /\ UNCHANGED <<def, wf, bodies, skipped>>

--------------------------------------------------------------------------------
(* What the body of a step does                                            *)

Ends(b, pc) == bodies' = [bodies EXCEPT ![b].pc = pc]

AgentAnswers(b) ==
  /\ bodies[b].pc = "running" /\ KindOf(b) = "agent"
  /\ Ends(b, "done")
  /\ UNCHANGED <<def, wf, calls, results, skipped, throws>>

\* Mutant: a failed step rejects, so that Promise.all does not wait.
JoinsAtFirstFailure(b) ==
  /\ bodies[b].pc = "running"
  /\ \/ /\ KindOf(b) = "failFast"
        /\ \/ (\E c \in Kids(b) : calls[c].pc \in {"failed", "threw"}) /\ Ends(b, "error")
           \/ (\A c \in Kids(b) : calls[c].pc = "ok") /\ Ends(b, "done")
     \/ /\ KindOf(b) = "parallel"
        /\ \A c \in Kids(b) : Settled(c)
        /\ Ends(b, "done")
  /\ UNCHANGED <<def, wf, calls, results, skipped, throws>>

\* Promise.all, for failFast, rejects at once when a call rejects; but a step
\* that fails resolves, so it waits for the others.  Promise.allSettled waits in
\* any case and never rejects.
Joins(b) ==
  /\ bodies[b].pc = "running"
  /\ \/ /\ KindOf(b) = "failFast"
        /\ \/ (\E c \in Kids(b) : calls[c].pc = "threw") /\ Ends(b, "error")
           \/ /\ \A c \in Kids(b) : calls[c].pc \in {"ok", "failed"}
              /\ Ends(b, IF \E c \in Kids(b) : calls[c].pc = "failed"
                         THEN "error" ELSE "done")
     \/ /\ KindOf(b) = "parallel"
        /\ \A c \in Kids(b) : Settled(c)
        /\ Ends(b, "done")
  /\ UNCHANGED <<def, wf, calls, results, skipped, throws>>

\* The steps of a branch go one by one.  A failed one ends the branch, and the
\* condition step still succeeds.
GoesOn(b) ==
  /\ bodies[b].pc = "running" /\ KindOf(b) = "condition"
  /\ \A c \in Kids(b) : Settled(c)
  /\ \/ /\ \A c \in Kids(b) : calls[c].pc = "ok"
        /\ bodies[b].todo # <<>>
        /\ calls' = With(calls, Called(CallsIn(b, {Head(bodies[b].todo)})))
        /\ bodies' = [bodies EXCEPT ![b].todo = Tail(@)]
     \/ /\ \A c \in Kids(b) : calls[c].pc \in {"ok", "failed"}
        /\ bodies[b].todo = <<>> \/ \E c \in Kids(b) : calls[c].pc = "failed"
        /\ Ends(b, "done") /\ UNCHANGED calls
     \/ /\ \E c \in Kids(b) : calls[c].pc = "threw"
        /\ Ends(b, "error") /\ UNCHANGED calls
  /\ UNCHANGED <<def, wf, results, skipped, throws>>

--------------------------------------------------------------------------------
(* execute: the levels of the graph, one after the other                   *)

\* Mutant: steps are marked resolved while their level is being gathered.
ResolvedWhileGathering ==
  LET ready(done) == {s \in def.top : def.dependsOn[s] \subseteq done}
      r[n \in 0 .. Cardinality(def.top)] ==
        IF n = 0 THEN {} ELSE ready(r[n - 1] \cup ready(r[n - 1]))
  IN  r

\* resolveStepOrder: what is resolved after n rounds.
Resolved ==
  LET r[n \in 0 .. Cardinality(def.top)] ==
        IF n = 0 THEN {}
        ELSE r[n - 1] \cup {s \in def.top : def.dependsOn[s] \subseteq r[n - 1]}
  IN  r
Circular  == Resolved[Cardinality(def.top)] # def.top
Level(n)  == Resolved[n] \ Resolved[n - 1]
TopCall(s) == [in |-> <<>>, step |-> s]

\* The next level starts, all its steps at once, but those whose condition is
\* false by now; after the last one the workflow is complete.
GoToLevel(n) ==
  IF Resolved[n - 1] = def.top
  THEN wf' = [wf EXCEPT !.pc = "completing"] /\ UNCHANGED <<calls, skipped>>
  ELSE LET run == {s \in Level(n) : Holds(def.condition[s])}
       IN  /\ wf' = [pc |-> "level", level |-> n]
           /\ calls' = With(calls, Called({TopCall(s) : s \in run}))
           /\ skipped' = skipped \cup (Level(n) \ run)

BeginWorkflow ==
  /\ wf.pc = "starting"
  /\ IF Circular THEN wf' = [wf EXCEPT !.pc = "failing"] /\ UNCHANGED <<calls, skipped>>
     ELSE GoToLevel(1)
  /\ UNCHANGED <<def, bodies, results, throws>>

\* Promise.all over the level: the workflow stops when a step failed.
EndLevel ==
  /\ wf.pc = "level"
  /\ LET level == {c \in DOMAIN calls : c.in = <<>> /\ c.step \in Level(wf.level)}
         failed == \E c \in level : calls[c].pc # "ok"
     IN  /\ \/ \A c \in level : Settled(c)
            \/ \E c \in level : calls[c].pc = "threw"
         /\ IF failed THEN wf' = [wf EXCEPT !.pc = "failing"] /\ UNCHANGED <<calls, skipped>>
            ELSE GoToLevel(wf.level + 1)
  /\ UNCHANGED <<def, bodies, results, throws>>

EndWorkflow ==
  /\ \/ wf.pc = "completing" /\ wf' = [wf EXCEPT !.pc = "completed"]
     \/ wf.pc = "failing" /\ wf' = [wf EXCEPT !.pc = "failed"]
  /\ UNCHANGED <<def, calls, bodies, results, skipped, throws>>

\* workflow:start is told outside the try block, workflow:complete inside it.
WorkflowCallbackThrows ==
  /\ throws < MaxThrows
  /\ throws' = throws + 1
  /\ \/ wf.pc \in {"starting", "failing"} /\ wf' = [wf EXCEPT !.pc = "rejected"]
     \/ wf.pc = "completing" /\ wf' = [wf EXCEPT !.pc = "failing"]
  /\ UNCHANGED <<def, calls, bodies, results, skipped>>

--------------------------------------------------------------------------------

Init ==
  /\ def \in Workflows
  /\ wf = [pc |-> "starting", level |-> 0]
  /\ calls = <<>> /\ bodies = <<>>
  /\ results = [s \in Steps |-> "none"]
  /\ skipped = {} /\ throws = 0

\* What the event loop does by itself: timers fire, promises settle, callbacks
\* return, and agents answer, but for those that hang.
Progress ==
  \/ \E c \in DOMAIN calls :
       Begins(c) \/ Succeeds(c) \/ Fails(c) \/ TimesOut(c) \/ Retries(c) \/ Returns(c)
  \/ \E b \in DOMAIN bodies :
       \/ AgentAnswers(b) /\ b[Len(b)].step \notin def.hangs
       \/ Joins(b)
       \/ GoesOn(b)
  \/ BeginWorkflow \/ EndLevel \/ EndWorkflow

Next ==
  \/ Progress
  \/ \E b \in DOMAIN bodies : AgentAnswers(b)
  \/ \E c \in DOMAIN calls : CallbackThrows(c)
  \/ WorkflowCallbackThrows

Spec == Init /\ [][Next]_vars /\ WF_vars(Progress)

================================================================================
