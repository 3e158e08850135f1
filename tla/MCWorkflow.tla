------------------------------ MODULE MCWorkflow ------------------------------
(***************************************************************************)
(* Small workflows for TLC.                                                *)
(***************************************************************************)
EXTENDS WorkflowEngineProps

Always(ss) == <<[when |-> "true", steps |-> ss]>>

\* A pipeline in three levels: `check` runs `lint` and `test` side by side under
\* a timeout that `test` may need; `audit` has a condition; `report` branches.
Pipeline(lint, join, timed, report) ==
  [top       |-> {"plan", "check", "audit", "report"},
   dependsOn |-> [plan |-> {}, check |-> {"plan"}, audit |-> {"plan"},
                  report |-> {"check", "audit"}],
   condition |-> [plan |-> "true", check |-> "true", audit |-> "lint", report |-> "true"],
   kind      |-> [plan |-> "agent", check |-> join, lint |-> lint, test |-> "agent",
                  audit |-> "plain", report |-> "condition", sign |-> "plain",
                  publish |-> report, notify |-> "plain"],
   parts     |-> [check |-> Always(<<"lint", "test">>),
                  report |-> <<[when |-> "test", steps |-> <<"sign", "publish", "notify">>],
                               [when |-> "true", steps |-> <<"notify">>]>>],
   retries   |-> [plan |-> 0, check |-> 1, lint |-> 0, test |-> 1, audit |-> 0,
                  report |-> 0, sign |-> 0, publish |-> 0, notify |-> 0],
   timed     |-> timed,
   hangs     |-> {"test"}]

\* Two steps that wait for each other.
Cycle ==
  [top       |-> {"a", "b"},
   dependsOn |-> [a |-> {"b"}, b |-> {"a"}],
   condition |-> [a |-> "true", b |-> "true"],
   kind      |-> [a |-> "plain", b |-> "plain"],
   parts     |-> [a |-> <<>>, b |-> <<>>],
   retries   |-> [a |-> 0, b |-> 0],
   timed     |-> {}, hangs |-> {}]

MCWorkflows ==
  {Cycle,
   Pipeline("agent",   "failFast", {"check"}, "plain"),
   Pipeline("refused", "failFast", {"check"}, "plain"),
   Pipeline("agent",   "failFast", {"test"},  "refused"),
   Pipeline("agent",   "parallel", {"check"}, "refused"),
   Pipeline("refused", "parallel", {"test"},  "plain")}

================================================================================
