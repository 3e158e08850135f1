------------------------------ MODULE Materializer ------------------------------
(***************************************************************************)
(* How OpenSpecMaterializer.materializeApprovedChange replaces a Change,   *)
(* file by file: src/sdd/openspec/openspec-materializer.ts, the generation *)
(* strategies beside it, and OpenSpecSddProvider, which reads the Change   *)
(* before and after.  ChangeApply models the same calls as a few steps on  *)
(* the digest of the Change; here are the directories those steps rename.  *)
(*                                                                         *)
(* Every action is one call to node:fs.  A process may be killed after     *)
(* any of them, and the next one may get its pid, and with it the names of *)
(* the directories it left behind.                                         *)
(***************************************************************************)
EXTENDS Integers, FiniteSets, Sequences

CONSTANTS
  Procs,       \* calls that may run at the same time
  Pids,        \* process ids: a call gets the next one, or one that is free again
  Existing,    \* revisions a Change may have been written by hand with
  Proposals,   \* revisions that may be approved and materialized
  NoFile, NoDir,
  Strategies,  \* the generation strategies in use
  First(_),    \* the files of a list that rm may remove next
  MaxCalls, MaxTroubles   \* bounds: on the calls, and on all that goes wrong together

ASSUME MaterializerAssumption ==
  /\ Existing \cap Proposals = {}
  /\ Pids \subseteq Nat \ {0}
  /\ NoFile \notin Existing \cup Proposals
  /\ Strategies \subseteq {"filesystem", "command"}

VARIABLES
  dirs,    \* what stands in openspec/changes
  tools,   \* the external command a process has spawned
  job,     \* the calls in progress
  calls, overlaps, crashes, ioErrors,   \* how often something happened
  slips    \* how often an external command wrote what was not approved

counts == <<calls, overlaps, crashes, ioErrors, slips>>
vars   == <<dirs, tools, job, counts>>

Trouble == overlaps + crashes + ioErrors + slips

--------------------------------------------------------------------------------
(* The directories.  A file holds the text of a revision; what the digest  *)
(* covers is exactly the text of every file, so a tree is its own digest.  *)

ChangeDir      == <<"change", 0>>
TempDir(pid)   == <<"temp", pid>>       \* .yh-materialize-<change>-<pid>
BackupDir(pid) == <<"backup", pid>>     \* .yh-backup-<change>-<pid>
Names == {ChangeDir} \cup ({"temp", "backup"} \X Pids)

Files   == {"proposal", "design", "tasks", "specs"}
Written == <<"proposal", "design", "tasks">>   \* in this order, and no specs

Texts     == Existing \cup Proposals
Tree      == [Files -> Texts \cup {NoFile}]
EmptyTree == [f \in Files |-> NoFile]

\* That nothing is there is neither a text nor a directory of texts, and rm
\* takes from a list what is in it.
ASSUME NothingAssumption == NoDir # NoFile /\ {NoDir, NoFile} \cap Tree = {}
ASSUME FirstAssumption ==
  \A left \in SUBSET Files : First(left) \subseteq left /\ (left # {} => First(left) # {})

\* A Change as a person writes it, and as it is generated from a preview.
Handmade(r) == [f \in Files |-> r]
Approved(r) == [f \in Files |-> IF f = "specs" THEN NoFile ELSE r]

Digests == {Handmade(r) : r \in Existing} \cup {Approved(r) : r \in Proposals}
Whole(t) == t \in Digests

Present(t) == {f \in Files : t[f] # NoFile}

\* rename(2) takes the place of nothing, or of an empty directory.
CanRename(from, to) == dirs[from] # NoDir /\ dirs[to] \in {NoDir, EmptyTree}
Renamed(from, to) == [dirs EXCEPT ![to] = dirs[from], ![from] = NoDir]

--------------------------------------------------------------------------------
(* The calls.                                                              *)

Removing == {"cleanup", "catch", "discard"}
Points == {"idle", "list", "read", "specs", "check", "mkdir", "write", "tool",
           "backup", "install", "stat", "restore"} \cup Removing

Job ==
  [pc : Points, pid : Pids \cup {0}, rev : Proposals \cup {NoFile},
   base : Digests \cup {NoDir}, strategy : {"filesystem", "command"},
   seen : Tree \cup {NoDir}, k : 0 .. 4, observing : BOOLEAN, current : BOOLEAN,
   listed : BOOLEAN, left : SUBSET Files]

Idle ==
  [pc |-> "idle", pid |-> 0, rev |-> NoFile, base |-> NoDir, strategy |-> "filesystem",
   seen |-> NoDir, k |-> 0, observing |-> FALSE, current |-> FALSE,
   listed |-> FALSE, left |-> {}]

NoTool == [state |-> "none", rev |-> NoFile]

At(p, point) == job[p].pc = point
Goto(p, point) == job' = [job EXCEPT ![p].pc = point]
Running == {p \in Procs : ~At(p, "idle")}

\* The call returns or throws.
End(p) == job' = [job EXCEPT ![p] = Idle]

\* Something in the try block throws.
Throw(p) == job' = [job EXCEPT ![p].pc = "catch", ![p].listed = FALSE, ![p].left = {}]

\* An apply has passed its approvals and the guard: the preview is the
\* handoff's, of the revision `rev`, against the digest `base`.
Call(p, pid, rev, base, strategy) ==
  /\ Procs # Running /\ p = CHOOSE q \in Procs : At(q, "idle")
  /\ pid <= calls + 1 /\ \A q \in Running : job[q].pid # pid
  /\ calls < MaxCalls
  /\ calls' = calls + 1
  /\ overlaps' = IF Running = {} THEN overlaps ELSE overlaps + 1
  /\ job' = [job EXCEPT ![p] = [Idle EXCEPT !.pc = "list", !.pid = pid, !.rev = rev,
                                           !.base = base, !.strategy = strategy]]
  /\ UNCHANGED <<dirs, tools, crashes, ioErrors, slips>>
  /\ Trouble' <= MaxTroubles

--------------------------------------------------------------------------------
(* OpenSpecSddProvider.readProject, before the swap and after it.          *)

\* readdir of changes/: a Change that is not there now is not read.
List(p) ==
  /\ At(p, "list")
  /\ job' = [job EXCEPT ![p].pc = IF dirs[ChangeDir] = NoDir THEN "check" ELSE "read",
                        ![p].seen = IF dirs[ChangeDir] = NoDir THEN NoDir ELSE EmptyTree,
                        ![p].k = 1]
  /\ UNCHANGED <<dirs, tools, counts>>

TextOf(f) == IF dirs[ChangeDir] = NoDir THEN NoFile ELSE dirs[ChangeDir][f]

\* readOptional: a file that is missing by now reads as an empty one.
Read(p) ==
  /\ At(p, "read")
  /\ LET k == job[p].k
     IN job' = IF k <= Len(Written)
               THEN [job EXCEPT ![p].seen[Written[k]] = TextOf(Written[k]), ![p].k = k + 1]
               ELSE [job EXCEPT ![p].pc = IF TextOf("specs") = NoFile THEN "check" ELSE "specs"]
  /\ UNCHANGED <<dirs, tools, counts>>

\* A file that readdir has listed must be there when it is read.
ReadSpecs(p) ==
  /\ At(p, "specs")
  /\ IF TextOf("specs") = NoFile
     THEN End(p)
     ELSE job' = [job EXCEPT ![p].pc = "check", ![p].seen["specs"] = TextOf("specs")]
  /\ UNCHANGED <<dirs, tools, counts>>

\* A Change that is there has to be the base of the preview.
CheckBase(p) ==
  /\ At(p, "check") /\ ~job[p].observing
  /\ IF job[p].seen # NoDir /\ job[p].seen # job[p].base
     THEN End(p)
     ELSE job' = [job EXCEPT ![p].pc = "mkdir", ![p].current = job[p].seen # NoDir]
  /\ UNCHANGED <<dirs, tools, counts>>

\* Mutant: what stands there now is not compared.
CheckNothing(p) ==
  /\ At(p, "check") /\ job[p].observing
  /\ End(p)
  /\ UNCHANGED <<dirs, tools, counts>>

\* The Change that was observed has to be the one that was approved.
CheckObserved(p) ==
  /\ At(p, "check") /\ job[p].observing
  /\ IF job[p].seen = Approved(job[p].rev) THEN End(p) ELSE Goto(p, "discard")
  /\ UNCHANGED <<dirs, tools, counts>>

--------------------------------------------------------------------------------
(* Generation into the temporary directory.                                *)

\* mkdir fails when a process of the same pid has left its directory behind.
MakeTemp(p) ==
  /\ At(p, "mkdir")
  /\ LET temp == TempDir(job[p].pid)
     IN IF dirs[temp] # NoDir
        THEN Throw(p) /\ UNCHANGED <<dirs, tools>>
        ELSE /\ dirs' = [dirs EXCEPT ![temp] = EmptyTree]
             /\ IF job[p].strategy = "filesystem"
                THEN /\ job' = [job EXCEPT ![p].pc = "write", ![p].k = 1]
                     /\ UNCHANGED tools
                ELSE /\ Goto(p, "tool")
                     /\ tools' = [tools EXCEPT ![job[p].pid] = [state |-> "running", rev |-> job[p].rev]]
  /\ UNCHANGED counts

\* The artifacts are there: an existing Change is set aside first.
Generated(p) == IF job[p].current THEN "backup" ELSE "install"

\* Mutant: the artifacts are written where the Change stands.
WriteInPlace(p) ==
  /\ At(p, "write")
  /\ LET k == job[p].k
         f == Written[k]
         dir == IF dirs[ChangeDir] = NoDir THEN TempDir(job[p].pid) ELSE ChangeDir
     IN /\ dirs' = [dirs EXCEPT ![dir][f] = job[p].rev]
        /\ job' = [job EXCEPT ![p].pc = IF k = Len(Written) THEN Generated(p) ELSE @,
                              ![p].k = k + 1]
  /\ UNCHANGED <<tools, counts>>

\* createFilesystemOpenSpecGenerationStrategy: one writeFile after the other.
WriteFile(p) ==
  /\ At(p, "write")
  /\ LET k == job[p].k
         f == Written[k]
     IN /\ dirs' = [dirs EXCEPT ![TempDir(job[p].pid)][f] = job[p].rev]
        /\ job' = [job EXCEPT ![p].pc = IF k = Len(Written) THEN Generated(p) ELSE @,
                              ![p].k = k + 1]
  /\ UNCHANGED <<tools, counts>>

\* What the external command may leave there: what it was told to, the same
\* with specs, or less.  It is one step, as nobody looks at it meanwhile.  One
\* that was given up, and writes all the same, has gone wrong whatever it writes.
ToolTrees(rev) ==
  {Approved(rev), [f \in Files |-> rev], [Approved(rev) EXCEPT !["tasks"] = NoFile]}

ToolWrites(pid, tree) ==
  /\ tools[pid].state # "none"
  /\ dirs[TempDir(pid)] \notin {NoDir, tree}
  /\ dirs' = [dirs EXCEPT ![TempDir(pid)] = tree]
  /\ slips' = IF tools[pid].state = "running" /\ tree = Approved(tools[pid].rev)
              THEN slips ELSE slips + 1
  /\ UNCHANGED <<tools, job, calls, overlaps, crashes, ioErrors>>
  /\ Trouble' <= MaxTroubles

\* The child closes with exit code 0, or with another one, or never started.
ToolExits(p) ==
  /\ At(p, "tool")
  /\ tools' = [tools EXCEPT ![job[p].pid] = NoTool]
  /\ \/ /\ Goto(p, Generated(p))
        /\ slips' = IF dirs[TempDir(job[p].pid)] = Approved(job[p].rev) THEN slips ELSE slips + 1
     \/ /\ Throw(p)
        /\ UNCHANGED slips
  /\ UNCHANGED <<dirs, calls, overlaps, crashes, ioErrors>>
  /\ Trouble' <= MaxTroubles

\* Mutant: the child is killed, and its close is waited for.
ToolIsKilled(p) ==
  /\ At(p, "tool")
  /\ tools[job[p].pid].state = "running"
  /\ tools' = [tools EXCEPT ![job[p].pid].state = "stray"]
  /\ UNCHANGED <<dirs, job, counts>>

\* The timer kills the child and settles the run; a child that does not obey
\* goes on writing, and its close finds the run settled.
ToolTimesOut(p) ==
  /\ At(p, "tool")
  /\ tools' = [tools EXCEPT ![job[p].pid].state = "stray"]
  /\ Throw(p)
  /\ UNCHANGED <<dirs, counts>>

StrayEnds(pid) ==
  /\ tools[pid].state = "stray"
  /\ tools' = [tools EXCEPT ![pid] = NoTool]
  /\ UNCHANGED <<dirs, job, counts>>

--------------------------------------------------------------------------------
(* The swap.                                                               *)

\* Mutant: the Change is removed instead of set aside.
BackupNothing(p) ==
  /\ At(p, "backup")
  /\ dirs' = [dirs EXCEPT ![ChangeDir] = NoDir]
  /\ Goto(p, "install")
  /\ UNCHANGED <<tools, counts>>

Backup(p) ==
  /\ At(p, "backup")
  /\ LET to == BackupDir(job[p].pid)
     IN IF CanRename(ChangeDir, to)
        THEN dirs' = Renamed(ChangeDir, to) /\ Goto(p, "install")
        ELSE Throw(p) /\ UNCHANGED dirs
  /\ UNCHANGED <<tools, counts>>

\* Only a Change that was set aside has a backup to remove.
Install(p) ==
  /\ At(p, "install")
  /\ LET from == TempDir(job[p].pid)
     IN IF CanRename(from, ChangeDir)
        THEN /\ dirs' = Renamed(from, ChangeDir)
             /\ job' = IF job[p].current
                       THEN [job EXCEPT ![p].pc = "cleanup"]
                       ELSE [job EXCEPT ![p].pc = "list", ![p].observing = TRUE]
        ELSE Throw(p) /\ UNCHANGED dirs
  /\ UNCHANGED <<tools, counts>>

\* The catch block puts the backup back when nothing stands in its place.
Stat(p) ==
  /\ At(p, "stat")
  /\ IF dirs[ChangeDir] = NoDir THEN Goto(p, "restore") ELSE End(p)
  /\ UNCHANGED <<dirs, tools, counts>>

Restore(p) ==
  /\ At(p, "restore")
  /\ LET from == BackupDir(job[p].pid)
     IN dirs' = IF CanRename(from, ChangeDir) THEN Renamed(from, ChangeDir) ELSE dirs
  /\ End(p)
  /\ UNCHANGED <<tools, counts>>

--------------------------------------------------------------------------------
(* rm(..., { recursive: true, force: true }): of the backup when the new   *)
(* Change is installed, of the temporary directory in the catch block, of  *)
(* a Change that is not what was approved.                                 *)

Target(p) ==
  CASE At(p, "cleanup") -> BackupDir(job[p].pid)
    [] At(p, "catch")   -> TempDir(job[p].pid)
    [] At(p, "discard") -> ChangeDir

Removed(p) ==
  \/ /\ At(p, "cleanup")
     /\ job' = [job EXCEPT ![p].pc = "list", ![p].observing = TRUE,
                           ![p].listed = FALSE, ![p].left = {}]
  \/ /\ At(p, "catch") /\ job[p].current
     /\ Goto(p, "stat")
  \/ /\ At(p, "discard") \/ (At(p, "catch") /\ ~job[p].current)
     /\ End(p)

\* In the try block the catch block follows; in the catch block nothing does.
RemovalThrows(p) == IF At(p, "cleanup") THEN Throw(p) ELSE End(p)

RemoveList(p) ==
  /\ job[p].pc \in Removing /\ ~job[p].listed
  /\ IF dirs[Target(p)] = NoDir
     THEN Removed(p)
     ELSE job' = [job EXCEPT ![p].listed = TRUE, ![p].left = Present(dirs[Target(p)])]
  /\ UNCHANGED <<dirs, tools, counts>>

\* One file after the other.  Which one is next is the platform's to say: any
\* of them, unless First is narrower.
RemoveFile(p) ==
  /\ job[p].pc \in Removing
  /\ \E f \in First(job[p].left) :
       /\ dirs' = IF dirs[Target(p)] = NoDir THEN dirs ELSE [dirs EXCEPT ![Target(p)][f] = NoFile]
       /\ job' = [job EXCEPT ![p].left = @ \ {f}]
  /\ UNCHANGED <<tools, counts>>

\* A file that came after the list keeps the directory.
RemoveDir(p) ==
  /\ job[p].pc \in Removing /\ job[p].listed /\ job[p].left = {}
  /\ IF dirs[Target(p)] \in {NoDir, EmptyTree}
     THEN dirs' = [dirs EXCEPT ![Target(p)] = NoDir] /\ Removed(p)
     ELSE RemovalThrows(p) /\ UNCHANGED dirs
  /\ UNCHANGED <<tools, counts>>

--------------------------------------------------------------------------------

\* A call to node:fs fails.  What it did before stays.
IoError(p) ==
  /\ ~At(p, "idle")
  /\ Trouble < MaxTroubles
  /\ ioErrors' = ioErrors + 1
  /\ \/ job[p].pc \in {"mkdir", "write", "backup", "install", "cleanup"} /\ Throw(p)
     \/ job[p].pc \in {"list", "read", "specs", "catch", "restore", "discard"} /\ End(p)
  /\ UNCHANGED <<dirs, tools, calls, overlaps, crashes, slips>>

\* The process dies; a command it has spawned does not.
Crash(p) ==
  /\ ~At(p, "idle")
  /\ Trouble < MaxTroubles
  /\ crashes' = crashes + 1
  /\ tools' = IF At(p, "tool") THEN [tools EXCEPT ![job[p].pid].state = "stray"] ELSE tools
  /\ End(p)
  /\ UNCHANGED <<dirs, calls, overlaps, ioErrors, slips>>

Init ==
  /\ \E change \in {NoDir} \cup {Handmade(r) : r \in Existing} :
       dirs = [n \in Names |-> IF n = ChangeDir THEN change ELSE NoDir]
  /\ tools = [pid \in Pids |-> NoTool]
  /\ job = [p \in Procs |-> Idle]
  /\ calls = 0 /\ overlaps = 0 /\ crashes = 0 /\ ioErrors = 0 /\ slips = 0

ReadStep(p) == List(p) \/ Read(p) \/ ReadSpecs(p) \/ CheckBase(p) \/ CheckObserved(p)
GenerateStep(p) == MakeTemp(p) \/ WriteFile(p)
SwapStep(p) == Backup(p) \/ Install(p) \/ Stat(p) \/ Restore(p)
RemoveStep(p) == RemoveList(p) \/ RemoveFile(p) \/ RemoveDir(p)
Step(p) == ReadStep(p) \/ GenerateStep(p) \/ SwapStep(p) \/ RemoveStep(p)

Next ==
  \/ \E p \in Procs, pid \in Pids, rev \in Proposals, base \in Digests :
       \E strategy \in Strategies : Call(p, pid, rev, base, strategy)
  \/ \E p \in Procs : Step(p) \/ ToolExits(p) \/ ToolTimesOut(p) \/ IoError(p) \/ Crash(p)
  \/ \E pid \in Pids : StrayEnds(pid) \/ \E tree \in ToolTrees(tools[pid].rev) : ToolWrites(pid, tree)

\* The event loop: a call to node:fs answers, and the timer of a run expires.
Fairness == \A p \in Procs : WF_vars(Step(p)) /\ WF_vars(ToolTimesOut(p))

Spec == Init /\ [][Next]_vars /\ Fairness

================================================================================
