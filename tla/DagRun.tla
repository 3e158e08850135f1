-------------------------------- MODULE DagRun --------------------------------
(***************************************************************************)
(* What a run of a workflow promises about the steps of its graph, however *)
(* it schedules, retries and times them out.                               *)
(***************************************************************************)
VARIABLES
  deps,     \* for each step, the steps it depends on
  status,   \* for each step, how far it is
  outcome   \* of the run

vars == <<deps, status, outcome>>

GoodEnds == {"ok", "skipped"}

Init ==
  /\ status = [s \in DOMAIN deps |-> "waiting"]
  /\ outcome = "running"

\* Steps start, or are skipped, when all they depend on has ended well, and
\* only while nothing has failed.  What has ended never changes again.
Start(ss) ==
  /\ outcome = "running"
  /\ \A s \in DOMAIN deps : status[s] # "failed"
  /\ \A s \in ss : status[s] = "waiting" /\ \A d \in deps[s] : status[d] \in GoodEnds
  /\ \E started \in SUBSET ss :
       status' = [s \in DOMAIN deps |-> IF s \in started THEN "running"
                                        ELSE IF s \in ss THEN "skipped" ELSE status[s]]
  /\ UNCHANGED <<deps, outcome>>

Finish(s) ==
  /\ status[s] = "running"
  /\ \E how \in {"ok", "failed"} : status' = [status EXCEPT ![s] = how]
  /\ UNCHANGED <<deps, outcome>>

\* A completed run has every step done or skipped; any run may fail.
Conclude ==
  /\ outcome = "running"
  /\ \/ outcome' = "completed" /\ \A s \in DOMAIN deps : status[s] \in GoodEnds
     \/ outcome' = "failed"
  /\ UNCHANGED <<deps, status>>

Next ==
  \/ \E ss \in SUBSET DOMAIN deps : Start(ss)
  \/ \E s \in DOMAIN deps : Finish(s)
  \/ Conclude

Spec == Init /\ [][Next]_vars

================================================================================
