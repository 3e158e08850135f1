------------------------------- MODULE MCWorkItem -------------------------------
(***************************************************************************)
(* Small instances of WorkItemFlow for TLC.                                *)
(***************************************************************************)
EXTENDS WorkItemFlowProps

CONSTANTS p1, p2, w1, w2, s1, s2, c1, c2, login, logout

OneItem == {w1}
TwoItems == {w1, w2}

\* The second revision of the Specification has dropped one Requirement.
MCReqsOf == [s \in {s1, s2} |-> IF s = s1 THEN {login, logout} ELSE {login}]

\* Two terminals use ids of their own.
MCEvidenceIds == [p \in {p1, p2} |-> IF p = p1 THEN {1} ELSE {2}]
MCPlanIds == [p \in {p1, p2} |-> IF p = p1 THEN {1} ELSE {2}]

MCEvidence == [subject : {login}, kind : {"test-result"}, outcome : {"passed", "failed"}]

\* Plans have two criteria that tests decide.  The first one of w2 has one beside
\* another whose digest nobody records and a third for a person to look at.
Tests(subject) == [subject |-> subject, kinds |-> {"test-result"}]
Artifact == [subject |-> login, kinds |-> {"test-result", "artifact-digest"}]
Reviewed == [subject |-> login, kinds |-> {"review-note"}]
MCCriteria == {{Tests(login), Tests(logout)}}

MCDecisions == {<<"engineer", "authorize-completion">>, <<"engineer", "request-rework">>,
                <<"reviewer", "authorize-completion">>}

\* w1 is ready to be executed, its Change applied; w2 has been executed, tested and
\* looked at, though nobody has started it.
Passed(id, subject, kind) ==
  [id |-> id, trace |-> 1, subject |-> subject, kind |-> kind, outcome |-> "passed"]
ReadyInit ==
  /\ source = [spec |-> s1, change |-> c1]
  /\ governed = [change |-> c1, approved |-> TRUE, status |-> "materialized"]
  /\ item = (w1 :> "in-progress" @@ w2 :> "todo")
  /\ binding = [i \in {w1, w2} |-> [spec |-> s1, change |-> c1]]
  /\ selection = (w1 :> [spec |-> s1, reqs |-> {logout}] @@ w2 :> [spec |-> s1, reqs |-> {login}])
  /\ traces = <<[item |-> w2, spec |-> s1, change |-> c1, reqs |-> {login},
                 status |-> "completed"]>>
  /\ evidence = {Passed(1, login, "test-result"), Passed(3, logout, "test-result"),
                 Passed(4, login, "review-note")}
  /\ plans = {[id |-> 1, trace |-> 1, spec |-> s1, criteria |-> {Tests(login), Artifact, Reviewed}]}
  /\ reports = <<[trace |-> 1, criteria |-> {Tests(login), Artifact, Reviewed},
                  outcome |-> "requires-human-review"]>>
  /\ authorizations = {}
  /\ job = [p \in Procs |-> Idle]
  /\ commands = 0 /\ edits = 0 /\ crashes = 0
ReadySpec == ((Init /\ source = [spec |-> s1, change |-> c1]) \/ ReadyInit) /\ [][Next]_vars

================================================================================
