--------------------------- MODULE MaterializerProps ---------------------------
(***************************************************************************)
(* What a replacement of a Change on disk has to guarantee.                *)
(***************************************************************************)
EXTENDS Materializer

\* The staging of materializeApprovedChange: also with two calls at once, calls
\* that are killed and restarted under the same pid, a failing file system and a
\* stray command, a Change is never rewritten where it stands: a whole one comes
\* where there is none, and what is put back is what was set aside.
Surplus(r, text) == [Approved(r) EXCEPT !["specs"] = text]
Overdone == {Surplus(r, text) : r \in Proposals, text \in Texts}
Trimmed == [t \in Overdone |-> [t EXCEPT !["specs"] = NoFile]]

Sound(t) == Whole(t) \/ t \in Overdone
ContentOf(t) == IF t \in {NoDir, EmptyTree} THEN NoDir ELSE IF Sound(t) THEN t ELSE NoFile
KeptOf(t) == IF Sound(t) THEN t ELSE NoDir
content == ContentOf(dirs[ChangeDir])
kept == [pid \in Pids |-> KeptOf(dirs[BackupDir(pid)])]

Swap == INSTANCE ChangeSwap WITH
          Existing  <- {Handmade(r) : r \in Existing},
          Proposals <- {Approved(r) : r \in Proposals},
          Trim      <- Trimmed,
          Absent    <- NoDir,
          Broken    <- NoFile
RefinesSwap == Swap!Spec

\* While calls do not overlap and no external command goes wrong, some whole
\* Change is left on the disk at every moment once there was one: in its place
\* or set aside, whatever fails and wherever the process dies.
SomewhereWhole == \E n \in Names : n[1] # "temp" /\ Whole(dirs[n])
NothingIsLost ==
  [][SomewhereWhole /\ overlaps' = 0 /\ slips' = 0 => SomewhereWhole']_vars

\* A call that returns, instead of throwing, has left exactly the Change that
\* was approved: also when an external command wrote too much or too little, or
\* a stray one of an earlier call under the same pid wrote among the artifacts.
Returns(p) == At(p, "check") /\ job[p].observing /\ job'[p].pc = "idle"
ReturnsWhatStands ==
  [][\A p \in Procs : Returns(p) /\ overlaps = 0 /\ crashes' = crashes
       => dirs[ChangeDir] = Approved(job[p].rev)]_vars

\* Every call ends, though a spawned command hangs or refuses to be killed: the
\* timer settles its run (openspec-generation-strategy.ts, `settled`).
EveryCallReturns == \A p \in Procs : ~At(p, "idle") ~> At(p, "idle")

================================================================================
