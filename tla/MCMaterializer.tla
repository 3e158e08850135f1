----------------------------- MODULE MCMaterializer -----------------------------
(***************************************************************************)
(* A small instance of Materializer for TLC: one Change written by hand,   *)
(* two revisions that may replace it, two pids to be handed out again.     *)
(***************************************************************************)
EXTENDS MaterializerProps

CONSTANTS p1, p2, old, new

\* Two orders that differ in what they leave on the way: the specs, which an
\* approved Change has not got, before the files it has, or after them.
SpecsFirstOrLast(left) ==
  IF "proposal" \in left THEN left \cap {"proposal", "specs"}
  ELSE IF "design" \in left THEN {"design"}
  ELSE IF "tasks" \in left THEN {"tasks"} ELSE left

================================================================================
