----------------------------- MODULE ApplyLifecycle -----------------------------
(***************************************************************************)
(* What Apply promises about one Change, seen from outside: one            *)
(* operational status, admitted once, applied again only after a recorded  *)
(* failure, and final once it is "materialized"; an interrupted apply is   *)
(* resolved by a verdict.  ChangeApply implements it when its commands run *)
(* one at a time, whatever the order in which tied records are read back.  *)
(***************************************************************************)

VARIABLE status

Init == status = "none"

Step(from, to) == status \in from /\ status' = to

Admit     == Step({"none"}, "approved")
Prepare   == Step({"approved"}, "apply-ready")
Begin     == Step({"apply-ready", "apply-failed"}, "applying")
Interrupt == Step({"applying"}, "recovery-required")
Succeed   == Step({"applying", "recovery-required"}, "materialized")
Fail      == Step({"applying", "recovery-required"}, "apply-failed")

Next == Admit \/ Prepare \/ Begin \/ Interrupt \/ Succeed \/ Fail

Spec == Init /\ [][Next]_status

================================================================================
