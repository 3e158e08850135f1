-------------------------- MODULE WorkflowEngineProps --------------------------
(***************************************************************************)
(* What a run of a workflow has to guarantee.                              *)
(***************************************************************************)
EXTENDS WorkflowEngine

--------------------------------------------------------------------------------
(* The graph                                                               *)

StatusOf(s) ==
  IF s \in skipped THEN "skipped"
  ELSE IF TopCall(s) \notin DOMAIN calls THEN "waiting"
  ELSE IF Settled(TopCall(s))
       THEN IF calls[TopCall(s)].pc = "ok" THEN "ok" ELSE "failed"
  ELSE "running"

Outcome ==
  IF wf.pc \in {"failed", "rejected"} THEN "failed"
  ELSE IF wf.pc = "completed" THEN "completed" ELSE "running"

\* dependsOn: "IDs de steps que deben completarse antes" (types.ts:33).  A run
\* implements DagRun: no step starts before what it depends on has succeeded or
\* was skipped, none after a failure, a completed run left nothing out; also
\* when steps time out and go on in the background, and callbacks throw.
Graph == INSTANCE DagRun WITH
           deps    <- [s \in def.top |-> def.dependsOn[s]],
           status  <- [s \in def.top |-> StatusOf(s)],
           outcome <- Outcome
RefinesDagRun == Graph!Spec

--------------------------------------------------------------------------------
(* What is left running                                                    *)

\* A step is in one place: its id is its own.  The engine keeps results and levels
\* by id (engine.ts:83, 250), and does not look whether two steps share one.
PartsIn(w, s) == UNION {StepsOf(w.parts[s][i].steps) : i \in DOMAIN w.parts[s]}
ASSUME OwnSteps ==
  \A w \in Workflows :
    LET composite == {s \in DOMAIN w.kind : w.kind[s] \in {"parallel", "failFast", "condition"}}
    IN  \A s \in composite :
          /\ PartsIn(w, s) \cap w.top = {}
          /\ \A t \in composite : PartsIn(w, s) \cap PartsIn(w, t) # {} => s = t

Returned == wf.pc \in {"completed", "failed", "rejected"}

\* A body is abandoned when its call does not wait for it any more.
Abandoned(b) ==
  LET c == Caller(b)
  IN  bodies[b].pc = "running" /\ (calls[c].pc # "running" \/ b # BodyOf(c))
UnderAbandoned(c) == \E n \in 1 .. Len(c.in) : Abandoned(SubSeq(c.in, 1, n))
Live == {c \in DOMAIN calls : ~Settled(c)}

\* execute() waits for all it has started (no callback having thrown): a step
\* that still goes on when it has returned belongs to an attempt that timed out,
\* and so does one of any two that run the same step at the same time, as the
\* retry of what contains it does.  Otherwise the two would overwrite each
\* other's result in context.stepResults.
OnlyTimedOutWorkIsLate ==
  throws = 0 =>
    /\ Returned => \A c \in Live : UnderAbandoned(c)
    /\ \A c, d \in Live : c.step = d.step /\ c # d => UnderAbandoned(c) \/ UnderAbandoned(d)

\* When every agent that may hang is watched by a timeout, its own or that of the
\* step that contains it, every run ends: with a result, or rejected.
Watched  == \A s \in def.hangs : s \in def.timed \/ \E p \in def.timed : s \in PartsIn(def, p)
Terminates == Watched => <>Returned

================================================================================
