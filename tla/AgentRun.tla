-------------------------------- MODULE AgentRun --------------------------------
(***************************************************************************)
(* AgentRunner.run, src/agents/runner.ts: the loop that asks the model,    *)
(* executes the tools it calls for, and shows it their results.  Several   *)
(* runs share one AIManager.                                               *)
(*                                                                         *)
(* A message is what the pairing of calls and results needs of it: who     *)
(* speaks, and the ids of the calls it makes or answers.                   *)
(***************************************************************************)
EXTENDS AiManager

CONSTANTS
  Agents,         \* the runs
  ModelReplies,   \* what a model may answer: sequences of blocks, see Dialects
  MaxIterations,  \* definition.maxIterations
  MaxThrows       \* bound: how often an event callback throws

ASSUME AgentAssumption ==
  /\ Agents \subseteq Callers
  /\ MaxIterations \in Nat
  /\ \A reply \in ModelReplies : reply \in Seq({reply[n] : n \in DOMAIN reply})

VARIABLES run, throws

agentVars == <<run, throws>>

AgentPoints ==
  {"off", "step:start", "ask", "wait", "response", "tool:start", "tool", "tool:complete",
   "step:complete", "final", "final-wait", "agent:error", "agent:complete", "ended", "rejected"}

\* Where the run waits for its event callback.
EventPoints ==
  {"step:start", "response", "tool:start", "tool:complete", "step:complete",
   "agent:error", "agent:complete"}

NotRun == [pc |-> "off", iteration |-> 0, messages |-> <<>>, left |-> <<>>, success |-> FALSE]

AgentAt(a, point) == run[a].pc = point
AgentGoto(a, point) == run' = [run EXCEPT ![a].pc = point]

Says(role, ids) == [role |-> role, ids |-> ids]

RunAgent(a) ==
  /\ AgentAt(a, "off")
  /\ run' = [run EXCEPT ![a] = [NotRun EXCEPT !.messages = <<Says("system", <<>>), Says("user", <<>>)>>,
                                  !.pc = IF MaxIterations = 0 THEN "final" ELSE "step:start"]]
  /\ UNCHANGED <<aiVars, throws>>

\* The loop condition, after `iteration++`.
AskAgain(a) == IF run[a].iteration < MaxIterations THEN "step:start" ELSE "final"

\* onEvent returns, and the run goes on.
EventReturns(a) ==
  /\ run[a].pc \in EventPoints
  /\ run' = [run EXCEPT ![a].pc =
       CASE AgentAt(a, "step:start")     -> "ask"
         [] AgentAt(a, "response")       -> "agent:complete"
         [] AgentAt(a, "tool:start")     -> "tool"
         [] AgentAt(a, "tool:complete")  -> IF run[a].left = <<>> THEN "step:complete" ELSE "tool:start"
         [] AgentAt(a, "step:complete")  -> AskAgain(a)
         [] run[a].pc \in {"agent:error", "agent:complete"} -> "ended"]
  /\ UNCHANGED <<aiVars, throws>>

\* onEvent throws.  In the loop that is an error of the run, though the model
\* may have answered; after the loop the run itself is rejected.
EventThrows(a) ==
  /\ run[a].pc \in EventPoints
  /\ throws < MaxThrows /\ throws' = throws + 1
  /\ run' = [run EXCEPT
       ![a].pc = IF run[a].pc \in {"agent:error", "agent:complete"} THEN "rejected" ELSE "agent:error",
       ![a].success = FALSE]
  /\ UNCHANGED aiVars

\* aiManager.complete, for the default provider.
AskModel(a) ==
  /\ \/ AgentAt(a, "ask") /\ AgentGoto(a, "wait")
     \/ /\ AgentAt(a, "final")
        /\ run' = [run EXCEPT ![a].pc = "final-wait", ![a].messages = Append(@, Says("user", <<>>))]
  /\ Send(a, "complete", NoName)
  /\ UNCHANGED <<registry, default, changes, throws>>

\* The model answers.  Without tool calls that ends the run.
ModelAnswers(a) ==
  /\ AgentAt(a, "wait") /\ call[a].pc = "answered"
  /\ \E reply \in ModelReplies : LET ids == CallsOf(reply) IN
       run' = [run EXCEPT ![a].messages = Append(@, Says("assistant", ids)),
                          ![a].left = ids,
                          ![a].iteration = IF ids = <<>> THEN @ ELSE @ + 1,
                          ![a].pc = IF ids = <<>> THEN "response" ELSE "tool:start",
                          ![a].success = ids = <<>>]
  /\ call' = [call EXCEPT ![a] = NoCall]
  /\ UNCHANGED <<registry, default, online, changes, throws>>

\* The last answer counts as success, tool calls or not.
ModelConcludes(a) ==
  /\ AgentAt(a, "final-wait") /\ call[a].pc = "answered"
  /\ run' = [run EXCEPT ![a].pc = "agent:complete", ![a].success = TRUE]
  /\ call' = [call EXCEPT ![a] = NoCall]
  /\ UNCHANGED <<registry, default, online, changes, throws>>

\* Mutant: only the loop is tried, the last question is not.
ModelFailsInLoop(a) ==
  /\ AgentAt(a, "wait") /\ call[a].pc = "failed"
  /\ AgentGoto(a, "agent:error")
  /\ call' = [call EXCEPT ![a] = NoCall]
  /\ UNCHANGED <<registry, default, online, changes, throws>>

ModelFails(a) ==
  /\ run[a].pc \in {"wait", "final-wait"} /\ call[a].pc = "failed"
  /\ AgentGoto(a, "agent:error")
  /\ call' = [call EXCEPT ![a] = NoCall]
  /\ UNCHANGED <<registry, default, online, changes, throws>>

\* Mutant: a tool that throws leaves its call without a result.
ToolEndsUnlessThrown(a) ==
  /\ AgentAt(a, "tool")
  /\ \E thrown \in BOOLEAN :
       run' = [run EXCEPT ![a].pc = "tool:complete", ![a].left = Tail(@),
                          ![a].messages = IF thrown THEN @
                                          ELSE Append(@, Says("tool", <<Head(run[a].left)>>))]
  /\ UNCHANGED <<aiVars, throws>>

\* The tool returns or throws: either way its call gets a result.  It is pushed
\* after the callback of tool:complete; nobody looks at the messages meanwhile.
ToolEnds(a) ==
  /\ AgentAt(a, "tool")
  /\ run' = [run EXCEPT ![a].pc = "tool:complete", ![a].left = Tail(@),
                        ![a].messages = Append(@, Says("tool", <<Head(run[a].left)>>))]
  /\ UNCHANGED <<aiVars, throws>>

AgentInit == run = [a \in Agents |-> NotRun] /\ throws = 0

AgentStep(a) ==
  \/ EventReturns(a) \/ AskModel(a) \/ ModelAnswers(a) \/ ModelConcludes(a)
  \/ ModelFails(a) \/ ToolEnds(a)

AgentNext == \E a \in Agents : RunAgent(a) \/ AgentStep(a) \/ EventThrows(a)

================================================================================
