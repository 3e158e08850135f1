------------------------------ MODULE ApplyPolicy ------------------------------
(***************************************************************************)
(* The pure policies of Apply: which operational status may follow which   *)
(* (change-apply-policy.ts) and how an interrupted Apply is classified     *)
(* from what the provider holds (reconcile-interrupted-change-apply.ts).   *)
(***************************************************************************)

CONSTANT Absent      \* the provider does not hold the Change; also "no base"

Statuses == {"approved", "apply-ready", "applying", "materialized",
             "apply-failed", "recovery-required"}

\* The table `transitions`; "none" stands for a Change with no record at all.
Successors ==
  [s \in Statuses \cup {"none"} |->
     CASE s = "none"              -> {"approved"}
       [] s = "approved"          -> {"apply-ready"}
       [] s = "apply-ready"       -> {"applying"}
       [] s = "applying"          -> {"materialized", "apply-failed", "recovery-required"}
       [] s = "apply-failed"      -> {"applying"}
       [] s = "recovery-required" -> {"materialized", "apply-failed"}
       [] s = "materialized"      -> {}]

\* evaluateChangeApplyTransition(...).allowed
CanTransition(from, to) == to \in Successors[from]

\* reconcileInterruptedChangeApply(...).recommendedStatus: only "materialized"
\* and "apply-failed" may be confirmed, "recovery-required" is inconsistent.
Reconcile(status, current, base, expected) ==
  IF status # "applying" THEN "recovery-required"
  ELSE IF current = expected THEN "materialized"
  ELSE IF base # Absent /\ current = base THEN "apply-failed"
  ELSE "recovery-required"

================================================================================
