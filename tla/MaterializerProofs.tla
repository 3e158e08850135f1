--------------------------- MODULE MaterializerProofs ---------------------------
(***************************************************************************)
(* For any number of calls, pids, revisions and failures: a Change is set  *)
(* aside and replaced, never rewritten; what a call returns for is what    *)
(* stands there; and while no two calls overlap and no command goes wrong, *)
(* a whole Change is somewhere on the disk.                                *)
(***************************************************************************)
EXTENDS MaterializerProps, TLAPS

\* What a command or a writer may have left in a temporary directory.
Drafts == [Files -> Proposals \cup {NoFile}]

Tool == [state : {"none", "running", "stray"}, rev : Proposals \cup {NoFile}]

\* What a call may rely on at each point.
Fits(j) ==
  /\ j \in Job
  /\ j.pc # "idle" => j.pid \in Pids /\ j.rev \in Proposals
  /\ j.pc \in {"read", "specs"} => j.seen \in Tree
  /\ j.pc = "read" => j.k \in 1 .. 4
  /\ j.pc = "write" => j.k \in 1 .. 3 /\ dirs[TempDir(j.pid)] # NoDir

Disk ==
  /\ dirs \in [Names -> Tree \cup {NoDir}]
  /\ \A pid \in Pids : dirs[TempDir(pid)] \in Drafts \cup {NoDir}
  /\ tools \in [Pids -> Tool]
  /\ overlaps \in Nat /\ crashes \in Nat /\ slips \in Nat

JobsFit == /\ job = [p \in Procs |-> job[p]]
           /\ \A p \in Procs : Fits(job[p])

\* Two calls that run at once are of two processes.
OwnPids == \A p, q \in Procs : job[p].pc # "idle" /\ job[q].pc # "idle" /\ p # q
                                 => job[p].pid # job[q].pid

MInv == Disk /\ JobsFit /\ OwnPids

\* What was read of the Change that was installed still stands there.
Observed(j) ==
  /\ j.pc \in {"read", "specs"} => dirs[ChangeDir] \in Tree
  /\ j.pc = "read" =>
       /\ j.seen["specs"] = NoFile
       /\ \A i \in 1 .. 3 : i < j.k => j.seen[Written[i]] = dirs[ChangeDir][Written[i]]
  /\ j.pc = "specs" =>
       \A f \in Files \ {"specs"} : j.seen[f] = dirs[ChangeDir][f]
  /\ j.pc = "check" => j.seen = dirs[ChangeDir]

\* The files that a call has written before the k-th.
Begun(r, k) ==
  [f \in Files |-> IF \E i \in 1 .. 3 : i < k /\ Written[i] = f THEN r ELSE NoFile]

\* What a call has made of the directories when no command has gone wrong.
Calm(j) ==
  /\ j.pc = "write" => dirs[TempDir(j.pid)] = Begun(j.rev, j.k)
  /\ j.pc \in {"backup", "install"} => dirs[TempDir(j.pid)] = Approved(j.rev)
  /\ \/ j.pc = "cleanup"
     \/ j.observing /\ j.pc \in {"list", "read", "specs", "check"}
     => dirs[ChangeDir] = Approved(j.rev)
  /\ j.pc # "discard"

Quiet(j) ==
  overlaps = 0 => /\ j.observing => Observed(j)
                  /\ slips = 0 => Calm(j)

Alone == overlaps = 0 => \A p, q \in Procs : job[p].pc # "idle" /\ job[q].pc # "idle" => p = q

\* Only the call that has spawned it waits for a command.
ToolsAwaited ==
  \A pid \in Pids : tools[pid].state = "running" =>
    \E p \in Procs : job[p].pc = "tool" /\ job[p].pid = pid

QInv == Alone /\ ToolsAwaited /\ \A p \in Procs : Quiet(job[p])

--------------------------------------------------------------------------------
(* The directories and their contents                                      *)

LEMMA NameFacts ==
  /\ ChangeDir \in Names
  /\ \A pid \in Pids : /\ TempDir(pid) \in Names /\ BackupDir(pid) \in Names
                       /\ TempDir(pid) # ChangeDir /\ BackupDir(pid) # ChangeDir
  /\ \A a, b \in Pids : /\ TempDir(a) # BackupDir(b)
                        /\ a # b => TempDir(a) # TempDir(b) /\ BackupDir(a) # BackupDir(b)
BY DEF Names, ChangeDir, TempDir, BackupDir

LEMMA WrittenFacts ==
  /\ Len(Written) = 3
  /\ Written[1] = "proposal" /\ Written[2] = "design" /\ Written[3] = "tasks"
  /\ \A k \in 1 .. 3 : Written[k] \in Files \ {"specs"}
  /\ \A f \in Files \ {"specs"} : \E k \in 1 .. 3 : Written[k] = f
  /\ \A i, k \in 1 .. 3 : i # k => Written[i] # Written[k]
<1>1. Len(Written) = 3 /\ Written[1] = "proposal" /\ Written[2] = "design" /\ Written[3] = "tasks"
  BY DEF Written
<1>2. \A k \in 1 .. 3 : k = 1 \/ k = 2 \/ k = 3
  OBVIOUS
<1>3. QED
  BY <1>1, <1>2 DEF Files

LEMMA TreeFacts ==
  /\ EmptyTree \in Drafts /\ Drafts \subseteq Tree
  /\ \A r \in Proposals : Approved(r) \in Drafts
  /\ \A r \in Existing : Handmade(r) \in Tree
  /\ Digests \subseteq Tree
  /\ NoDir \notin Tree /\ NoFile \notin Tree /\ NoDir # NoFile
BY NothingAssumption DEF EmptyTree, Drafts, Tree, Texts, Approved, Handmade, Digests

LEMMA DraftWith ==
  ASSUME NEW t \in Drafts, NEW f \in Files, NEW r \in Proposals \cup {NoFile}
  PROVE  [t EXCEPT ![f] = r] \in Drafts
BY DEF Drafts

LEMMA TreeWithout ==
  ASSUME NEW t \in Tree, NEW f \in Files
  PROVE  [t EXCEPT ![f] = NoFile] \in Tree
BY DEF Tree

LEMMA ToolTreesAreDrafts ==
  ASSUME NEW r \in Proposals \cup {NoFile}
  PROVE  ToolTrees(r) \subseteq Drafts
<1>1. Approved(r) \in Drafts /\ [f \in Files |-> r] \in Drafts
  BY DEF Drafts, Approved
<1>2. "tasks" \in Files
  BY DEF Files
<1>3. [Approved(r) EXCEPT !["tasks"] = NoFile] \in Drafts
  BY <1>1, <1>2, DraftWith
<1>4. QED
  BY <1>1, <1>3 DEF ToolTrees

--------------------------------------------------------------------------------
(* A step keeps what the other calls rely on                               *)

\* What a step of `p` does to the temporary directories of the others: nothing.
LeavesOthers(p) ==
  \A pid \in Pids : pid = job[p].pid \/ dirs'[TempDir(pid)] = dirs[TempDir(pid)]

LEMMA Settle ==
  ASSUME MInv, NEW p \in Procs, job[p].pc # "idle", LeavesOthers(p), NEW next,
         job' = [job EXCEPT ![p] = next], Disk', Fits(next)',
         next.pc = "idle" \/ next.pid = job[p].pid
  PROVE  MInv'
<1>1. job' = [q \in Procs |-> job'[q]] /\ job'[p] = next
      /\ \A q \in Procs : q # p => job'[q] = job[q]
  BY DEF MInv, JobsFit
<1>2. ASSUME NEW q \in Procs
      PROVE  Fits(job[q])'
  <2>1. q = p => Fits(job[q])'
    BY <1>1 DEF Fits
  <2>2. ASSUME q # p
        PROVE  Fits(job[q])'
    <3> PICK j : j = job[q]
      OBVIOUS
    <3>1. Fits(j) /\ job'[q] = j
      BY <1>1, <2>2 DEF MInv, JobsFit
    <3>2. j.pc # "idle" => j.pid \in Pids /\ j.pid # job[p].pid
      BY <2>2, <3>1 DEF MInv, OwnPids, Fits
    <3>3. j.pc = "write" => dirs'[TempDir(j.pid)] # NoDir
      BY <3>1, <3>2 DEF LeavesOthers, Fits
    <3>4. QED
      BY <3>1, <3>3 DEF Fits
  <2>3. QED
    BY <2>1, <2>2
<1>3. OwnPids'
  BY <1>1 DEF MInv, OwnPids
<1>4. QED
  BY <1>1, <1>2, <1>3 DEF MInv, JobsFit

\* Only its own call moves on.
LEMMA GoesOn ==
  ASSUME MInv, NEW p \in Procs, job[p].pc # "idle", NEW next,
         job' = [job EXCEPT ![p] = next], dirs' = dirs, tools' \in [Pids -> Tool],
         overlaps' \in Nat, crashes' \in Nat, slips' \in Nat, Fits(next),
         next.pc = "idle" \/ next.pid = job[p].pid
  PROVE  MInv'
<1>1. Disk' /\ LeavesOthers(p) /\ Fits(next)'
  BY DEF MInv, Disk, LeavesOthers, Fits
<1>2. QED
  BY <1>1, Settle

LEMMA IdleFits == Fits(Idle) /\ Fits(Idle)'
BY DEF Fits, Idle, Job, Points

LEMMA Gone ==
  ASSUME NEW j, Fits(j), j.pc # "idle", NEW point \in Points \ {"idle", "read", "specs", "write"}
  PROVE  /\ Fits([j EXCEPT !.pc = point]) /\ Fits([j EXCEPT !.pc = point])'
         /\ [j EXCEPT !.pc = point].pid = j.pid
BY DEF Fits, Job

Reads(j, point, seen, k) == [j EXCEPT !.pc = point, !.seen = seen, !.k = k]

LEMMA SeenFits ==
  ASSUME NEW j, Fits(j), j.pc \in {"list", "read", "specs"}, NEW seen \in Tree \cup {NoDir},
         NEW k \in 1 .. 4, NEW point \in {"read", "specs", "check"},
         point \in {"read", "specs"} => seen \in Tree
  PROVE  Fits(Reads(j, point, seen, k)) /\ Reads(j, point, seen, k).pid = j.pid
<1> PICK next : next = Reads(j, point, seen, k)
  OBVIOUS
<1>0. point \in Points /\ k \in 0 .. 4
  BY DEF Points
<1>1. next \in Job
  <2> PICK a : a = [j EXCEPT !.pc = point]
    OBVIOUS
  <2> PICK b : b = [a EXCEPT !.seen = seen]
    OBVIOUS
  <2>1. a \in Job
    BY <1>0 DEF Fits, Job
  <2>2. b \in Job
    BY <2>1 DEF Job
  <2>3. [b EXCEPT !.k = k] \in Job
    BY <1>0, <2>2 DEF Job
  <2>4. QED
    BY <2>3 DEF Reads
<1>2. next.pc = point /\ next.seen = seen /\ next.k = k /\ next.pid = j.pid /\ next.rev = j.rev
  BY DEF Fits, Job, Reads
<1>3. QED
  BY <1>1, <1>2 DEF Fits

Writes(j, point, k) == [j EXCEPT !.pc = point, !.k = k]

LEMMA WritesFit ==
  ASSUME NEW j, Fits(j), j.pc # "idle", NEW point \in Points, NEW k \in 0 .. 4,
         point \notin {"idle", "read", "specs"},
         point = "write" => k \in 1 .. 3 /\ dirs'[TempDir(j.pid)] # NoDir
  PROVE  Fits(Writes(j, point, k))' /\ Writes(j, point, k).pid = j.pid
<1> PICK a : a = [j EXCEPT !.pc = point]
  OBVIOUS
<1> PICK next : next = [a EXCEPT !.k = k]
  OBVIOUS
<1>1. a \in Job
  BY DEF Fits, Job
<1>2. a.pc = point /\ a.pid = j.pid /\ a.rev = j.rev
  BY DEF Fits, Job
<1>3. next \in Job
  BY <1>1 DEF Job
<1>4. next.pc = a.pc /\ next.pid = a.pid /\ next.rev = a.rev /\ next.k = k
  BY <1>1 DEF Job
<1>5. next = Writes(j, point, k)
  BY DEF Writes
<1>6. Fits(next)' /\ next.pid = j.pid
  BY <1>2, <1>3, <1>4 DEF Fits
<1>7. QED
  BY <1>5, <1>6

LEMMA Thrown ==
  ASSUME NEW j, Fits(j), j.pc # "idle"
  PROVE  LET next == [j EXCEPT !.pc = "catch", !.listed = FALSE, !.left = {}]
         IN Fits(next) /\ Fits(next)' /\ next.pid = j.pid
BY DEF Fits, Job, Points, Removing

--------------------------------------------------------------------------------
(* Every step keeps MInv                                                   *)

LEMMA ChooseIdle == ASSUME Running # Procs PROVE At(CHOOSE q \in Procs : At(q, "idle"), "idle")
BY DEF Running, At

LEMMA CallKeeps ==
  ASSUME MInv, NEW p \in Procs, NEW pid \in Pids, NEW rev \in Proposals, NEW base \in Digests,
         NEW strategy \in Strategies, Call(p, pid, rev, base, strategy)
  PROVE  MInv'
<1> PICK next : next = [Idle EXCEPT !.pc = "list", !.pid = pid, !.rev = rev,
                                    !.base = base, !.strategy = strategy]
  OBVIOUS
<1>1. job' = [job EXCEPT ![p] = next] /\ \A q \in Running : job[q].pid # pid
  BY DEF Call
<1>a. strategy \in {"filesystem", "command"} /\ "list" \in Points
  BY MaterializerAssumption DEF Points
<1>b. [pc |-> "list", pid |-> pid, rev |-> rev, base |-> base, strategy |-> strategy,
       seen |-> NoDir, k |-> 0, observing |-> FALSE, current |-> FALSE,
       listed |-> FALSE, left |-> {}] \in Job
  BY <1>a DEF Job
<1>2. next \in Job /\ next.pc = "list" /\ next.pid = pid /\ next.rev = rev
  BY <1>b DEF Idle
<1>3. Fits(next)' /\ next.pid = pid
  BY <1>2 DEF Fits
<1>4. \A q \in Procs : job'[q] = IF q = p THEN next ELSE job[q]
  BY <1>1 DEF MInv, JobsFit
<1>5. dirs' = dirs /\ tools' = tools /\ overlaps' \in Nat /\ crashes' \in Nat /\ slips' \in Nat
  BY DEF Call, MInv, Disk
<1>6. Disk'
  BY <1>5 DEF MInv, Disk
<1>7. ASSUME NEW q \in Procs
      PROVE  Fits(job[q])'
  BY <1>3, <1>4, <1>5 DEF MInv, JobsFit, Fits
<1>8. OwnPids'
  <2> SUFFICES ASSUME NEW a \in Procs, NEW b \in Procs, a # b,
                      job'[a].pc # "idle", job'[b].pc # "idle"
               PROVE  job'[a].pid # job'[b].pid
    BY DEF OwnPids
  <2>1. \A q \in Procs : q # p => job'[q] = job[q]
    BY <1>4
  <2>2. \A q \in Procs : job[q].pc # "idle" => job[q].pid # pid
    BY <1>1 DEF Running, At
  <2>3. job'[p].pid = pid
    BY <1>3, <1>4
  <2>4. CASE a # p /\ b # p
    BY <2>1, <2>4 DEF MInv, OwnPids
  <2>5. CASE a = p
    BY <2>1, <2>2, <2>3, <2>5
  <2>6. CASE b = p
    BY <2>1, <2>2, <2>3, <2>6
  <2>7. QED
    BY <2>4, <2>5, <2>6
<1>9. job' = [q \in Procs |-> job'[q]]
  BY <1>1 DEF MInv, JobsFit
<1>10. QED
  BY <1>6, <1>7, <1>8, <1>9 DEF MInv, JobsFit

LEMMA ListKeeps ==
  ASSUME MInv, NEW p \in Procs, List(p)
  PROVE  MInv'
<1> PICK j : j = job[p]
  OBVIOUS
<1> PICK point, seen : /\ point = IF dirs[ChangeDir] = NoDir THEN "check" ELSE "read"
                       /\ seen = IF dirs[ChangeDir] = NoDir THEN NoDir ELSE EmptyTree
  OBVIOUS
<1> PICK next : next = Reads(j, point, seen, 1)
  OBVIOUS
<1>1. Fits(j) /\ j.pc = "list" /\ job' = [job EXCEPT ![p] = next]
  BY DEF MInv, JobsFit, List, At, Reads
<1>a. /\ point \in {"read", "specs", "check"} /\ seen \in Tree \cup {NoDir}
      /\ point \in {"read", "specs"} => seen \in Tree
  BY TreeFacts
<1>2. Fits(next) /\ next.pid = j.pid
  BY <1>1, <1>a, SeenFits
<1>3. dirs' = dirs /\ tools' \in [Pids -> Tool] /\ overlaps' \in Nat /\ crashes' \in Nat
      /\ slips' \in Nat
  BY DEF List, counts, MInv, Disk
<1>4. QED
  BY <1>1, <1>2, <1>3, GoesOn

LEMMA TextFacts ==
  ASSUME MInv, NEW f \in Files
  PROVE  TextOf(f) \in Texts \cup {NoFile}
BY NameFacts DEF MInv, Disk, TextOf, Tree

LEMMA ReadKeeps ==
  ASSUME MInv, NEW p \in Procs, Read(p)
  PROVE  MInv'
<1> PICK j : j = job[p]
  OBVIOUS
<1>1. Fits(j) /\ j.pc = "read"
  BY DEF MInv, JobsFit, Read, At
<1>2. dirs' = dirs /\ tools' \in [Pids -> Tool] /\ overlaps' \in Nat /\ crashes' \in Nat
      /\ slips' \in Nat
  BY DEF Read, counts, MInv, Disk
<1>3. ASSUME j.k <= 3
      PROVE  MInv'
  <2> PICK f : f = Written[j.k]
    OBVIOUS
  <2> PICK seen : seen = [j.seen EXCEPT ![f] = TextOf(f)]
    OBVIOUS
  <2> PICK next : next = Reads(j, "read", seen, j.k + 1)
    OBVIOUS
  <2>1. job' = [job EXCEPT ![p] = next]
    <3>1. job' = [job EXCEPT ![p] = [j EXCEPT !.seen = seen, !.k = j.k + 1]]
      BY <1>3, WrittenFacts DEF Read
    <3>2. next = [j EXCEPT !.seen = seen, !.k = j.k + 1]
      <4>1. j = [j EXCEPT !.pc = "read"]
        BY <1>1 DEF Fits, Job
      <4>2. QED
        BY <4>1 DEF Reads
    <3>3. QED
      BY <3>1, <3>2
  <2>2. f \in Files
    BY <1>1, <1>3, WrittenFacts DEF Fits
  <2>3. seen \in Tree
    BY <1>1, <2>2, TextFacts DEF Fits, Tree
  <2>4. j.k + 1 \in 1 .. 4
    BY <1>1, <1>3 DEF Fits
  <2>5. Fits(next) /\ next.pid = j.pid
    BY <1>1, <2>3, <2>4, SeenFits
  <2>6. QED
    BY <1>1, <1>2, <2>1, <2>5, GoesOn
<1>4. ASSUME ~(j.k <= 3)
      PROVE  MInv'
  <2> PICK point : point = IF TextOf("specs") = NoFile THEN "check" ELSE "specs"
    OBVIOUS
  <2> PICK next : next = [j EXCEPT !.pc = point]
    OBVIOUS
  <2>1. job' = [job EXCEPT ![p] = next]
    BY <1>4, WrittenFacts DEF Read
  <2>2. Fits(next) /\ next.pid = j.pid
    BY <1>1 DEF Fits, Job, Points
  <2>3. QED
    BY <1>1, <1>2, <2>1, <2>2, GoesOn
<1>5. QED
  BY <1>3, <1>4

LEMMA ReadSpecsKeeps ==
  ASSUME MInv, NEW p \in Procs, ReadSpecs(p)
  PROVE  MInv'
<1> PICK j : j = job[p]
  OBVIOUS
<1>1. Fits(j) /\ j.pc = "specs"
  BY DEF MInv, JobsFit, ReadSpecs, At
<1>2. dirs' = dirs /\ tools' \in [Pids -> Tool] /\ overlaps' \in Nat /\ crashes' \in Nat
      /\ slips' \in Nat
  BY DEF ReadSpecs, counts, MInv, Disk
<1>3. ASSUME End(p)
      PROVE  MInv'
  BY <1>1, <1>2, <1>3, IdleFits, GoesOn DEF End, Idle
<1>4. ASSUME job' = [job EXCEPT ![p].pc = "check", ![p].seen["specs"] = TextOf("specs")]
      PROVE  MInv'
  <2> PICK next : next = [j EXCEPT !.pc = "check", !.seen["specs"] = TextOf("specs")]
    OBVIOUS
  <2>1. job' = [job EXCEPT ![p] = next]
    BY <1>4
  <2>2. [j.seen EXCEPT !["specs"] = TextOf("specs")] \in Tree
    BY <1>1, TextFacts DEF Fits, Tree, Files
  <2>3. next = [j EXCEPT !.pc = "check", !.seen = [j.seen EXCEPT !["specs"] = TextOf("specs")]]
    OBVIOUS
  <2>4. Fits(next) /\ next.pid = j.pid
    BY <1>1, <2>2, <2>3 DEF Fits, Job, Points
  <2>5. QED
    BY <1>1, <1>2, <2>1, <2>4, GoesOn
<1>5. QED
  BY <1>3, <1>4 DEF ReadSpecs

LEMMA CheckKeeps ==
  ASSUME MInv, NEW p \in Procs, CheckBase(p) \/ CheckObserved(p)
  PROVE  MInv'
<1> PICK j : j = job[p]
  OBVIOUS
<1>1. Fits(j) /\ j.pc = "check"
  BY DEF MInv, JobsFit, CheckBase, CheckObserved, At
<1>2. dirs' = dirs /\ tools' \in [Pids -> Tool] /\ overlaps' \in Nat /\ crashes' \in Nat
      /\ slips' \in Nat
  BY DEF CheckBase, CheckObserved, counts, MInv, Disk
<1>3. ASSUME End(p)
      PROVE  MInv'
  BY <1>1, <1>2, <1>3, IdleFits, GoesOn DEF End, Idle
<1>4. ASSUME job' = [job EXCEPT ![p].pc = "mkdir", ![p].current = job[p].seen # NoDir]
      PROVE  MInv'
  <2> PICK next : next = [j EXCEPT !.pc = "mkdir", !.current = j.seen # NoDir]
    OBVIOUS
  <2>1. job' = [job EXCEPT ![p] = next]
    BY <1>4
  <2>2. (j.seen # NoDir) \in BOOLEAN
    OBVIOUS
  <2>3. Fits(next) /\ next.pid = j.pid
    BY <1>1, <2>2 DEF Fits, Job, Points
  <2>4. QED
    BY <1>1, <1>2, <2>1, <2>3, GoesOn
<1>5. ASSUME Goto(p, "discard")
      PROVE  MInv'
  <2> PICK next : next = [j EXCEPT !.pc = "discard"]
    OBVIOUS
  <2>1. job' = [job EXCEPT ![p] = next]
    BY <1>5 DEF Goto
  <2>2. Fits(next) /\ next.pid = j.pid
    BY <1>1, Gone DEF Points, Removing
  <2>3. QED
    BY <1>1, <1>2, <2>1, <2>2, GoesOn
<1>6. QED
  BY <1>3, <1>4, <1>5 DEF CheckBase, CheckObserved

LEMMA Throws ==
  ASSUME MInv, NEW p \in Procs, job[p].pc # "idle", Throw(p), Disk', LeavesOthers(p)
  PROVE  MInv'
<1> PICK j : j = job[p]
  OBVIOUS
<1> PICK next : next = [j EXCEPT !.pc = "catch", !.listed = FALSE, !.left = {}]
  OBVIOUS
<1>1. Fits(j)
  BY DEF MInv, JobsFit
<1>2. Fits(next)' /\ next.pid = j.pid
  BY <1>1, Thrown
<1>3. job' = [job EXCEPT ![p] = next]
  BY DEF Throw
<1>4. QED
  BY <1>2, <1>3, Settle

LEMMA Goes ==
  ASSUME MInv, NEW p \in Procs, job[p].pc # "idle", Disk', LeavesOthers(p),
         NEW point \in Points \ {"idle", "read", "specs", "write"}, Goto(p, point)
  PROVE  MInv'
<1> PICK j : j = job[p]
  OBVIOUS
<1> PICK next : next = [j EXCEPT !.pc = point]
  OBVIOUS
<1>1. Fits(j)
  BY DEF MInv, JobsFit
<1>2. Fits(next)' /\ next.pid = j.pid
  BY <1>1, Gone
<1>3. job' = [job EXCEPT ![p] = next]
  BY DEF Goto
<1>4. QED
  BY <1>2, <1>3, Settle

LEMMA EndsFit ==
  ASSUME MInv, NEW p \in Procs, job[p].pc # "idle", End(p), Disk', LeavesOthers(p)
  PROVE  MInv'
BY IdleFits, Settle DEF End, Idle

LEMMA MakeTempKeeps ==
  ASSUME MInv, NEW p \in Procs, MakeTemp(p)
  PROVE  MInv'
<1> PICK j : j = job[p]
  OBVIOUS
<1>1. Fits(j) /\ j.pc = "mkdir" /\ j.pid \in Pids /\ j.rev \in Proposals
  BY DEF MInv, JobsFit, MakeTemp, At, Fits
<1> PICK temp : temp = TempDir(j.pid)
  OBVIOUS
<1>2. overlaps' \in Nat /\ crashes' \in Nat /\ slips' \in Nat
  BY DEF MakeTemp, counts, MInv, Disk
<1>3. ASSUME Throw(p), UNCHANGED <<dirs, tools>>
      PROVE  MInv'
  <2>1. Disk' /\ LeavesOthers(p)
    BY <1>2, <1>3 DEF MInv, Disk, LeavesOthers
  <2>2. QED
    BY <1>1, <1>3, <2>1, Throws
<1>4. ASSUME dirs' = [dirs EXCEPT ![temp] = EmptyTree]
      PROVE  /\ dirs' \in [Names -> Tree \cup {NoDir}] /\ dirs'[temp] = EmptyTree
             /\ \A pid \in Pids : dirs'[TempDir(pid)] \in Drafts \cup {NoDir}
             /\ LeavesOthers(p)
  <2>1. temp \in Names /\ EmptyTree \in Drafts /\ EmptyTree \in Tree
    BY <1>1, NameFacts, TreeFacts
  <2>2. dirs' \in [Names -> Tree \cup {NoDir}] /\ dirs'[temp] = EmptyTree
        /\ \A n \in Names : n # temp => dirs'[n] = dirs[n]
    BY <1>4, <2>1 DEF MInv, Disk
  <2>3. \A pid \in Pids : pid # j.pid => TempDir(pid) # temp /\ TempDir(pid) \in Names
    BY <1>1, NameFacts
  <2>4. \A pid \in Pids : pid = j.pid \/ dirs'[TempDir(pid)] = dirs[TempDir(pid)]
    BY <2>2, <2>3
  <2>5. QED
    BY <2>1, <2>2, <2>4 DEF MInv, Disk, LeavesOthers
<1>5. ASSUME dirs' = [dirs EXCEPT ![temp] = EmptyTree], tools' = tools,
             job' = [job EXCEPT ![p].pc = "write", ![p].k = 1]
      PROVE  MInv'
  <2> PICK next : next = Writes(j, "write", 1)
    OBVIOUS
  <2>1. job' = [job EXCEPT ![p] = next]
    BY <1>5 DEF Writes
  <2>2. dirs'[TempDir(j.pid)] # NoDir
    BY <1>4, <1>5, TreeFacts
  <2>3. Fits(next)' /\ next.pid = j.pid
    BY <1>1, <2>2, WritesFit DEF Points
  <2>4. Disk' /\ LeavesOthers(p)
    BY <1>2, <1>4, <1>5 DEF MInv, Disk
  <2>5. QED
    BY <1>1, <1>5, <2>1, <2>3, <2>4, Settle
<1>6. ASSUME dirs' = [dirs EXCEPT ![temp] = EmptyTree], Goto(p, "tool"),
             tools' = [tools EXCEPT ![j.pid] = [state |-> "running", rev |-> j.rev]]
      PROVE  MInv'
  <2>1. tools' \in [Pids -> Tool]
    BY <1>1, <1>6 DEF MInv, Disk, Tool
  <2>2. Disk' /\ LeavesOthers(p)
    BY <1>2, <1>4, <1>6, <2>1 DEF MInv, Disk
  <2>3. QED
    BY <1>1, <1>6, <2>2, Goes DEF Points
<1>7. QED
  BY <1>3, <1>5, <1>6 DEF MakeTemp

\* A file written, or a tree left, among the artifacts of one pid.
LEMMA DraftKept ==
  ASSUME MInv, NEW pid \in Pids, NEW t \in Drafts, dirs' = [dirs EXCEPT ![TempDir(pid)] = t]
  PROVE  /\ dirs' \in [Names -> Tree \cup {NoDir}]
         /\ \A q \in Pids : dirs'[TempDir(q)] \in Drafts \cup {NoDir}
         /\ dirs'[TempDir(pid)] = t
         /\ \A n \in Names : n # TempDir(pid) => dirs'[n] = dirs[n]
         /\ \A q \in Pids : q # pid => dirs'[TempDir(q)] = dirs[TempDir(q)]
<1>1. TempDir(pid) \in Names /\ t \in Tree
  BY NameFacts, TreeFacts
<1>2. /\ dirs' \in [Names -> Tree \cup {NoDir}] /\ dirs'[TempDir(pid)] = t
      /\ \A n \in Names : n # TempDir(pid) => dirs'[n] = dirs[n]
  BY <1>1 DEF MInv, Disk
<1>3. \A q \in Pids : q # pid => dirs'[TempDir(q)] = dirs[TempDir(q)]
  BY <1>2, NameFacts
<1>4. QED
  BY <1>2, <1>3 DEF MInv, Disk

LEMMA WriteFileKeeps ==
  ASSUME MInv, NEW p \in Procs, WriteFile(p)
  PROVE  MInv'
<1> PICK j : j = job[p]
  OBVIOUS
<1>1. Fits(j) /\ j.pc = "write" /\ j.pid \in Pids /\ j.rev \in Proposals /\ j.k \in 1 .. 3
      /\ dirs[TempDir(j.pid)] # NoDir
  BY DEF MInv, JobsFit, WriteFile, At, Fits
<1> PICK t : t = [dirs[TempDir(j.pid)] EXCEPT ![Written[j.k]] = j.rev]
  OBVIOUS
<1>2. t \in Drafts /\ dirs' = [dirs EXCEPT ![TempDir(j.pid)] = t]
  <2>1. dirs[TempDir(j.pid)] \in Drafts /\ Written[j.k] \in Files
    BY <1>1, WrittenFacts DEF MInv, Disk
  <2>2. QED
    BY <1>1, <2>1, DraftWith DEF WriteFile
<1>3. overlaps' \in Nat /\ crashes' \in Nat /\ slips' \in Nat /\ tools' = tools
  BY DEF WriteFile, counts, MInv, Disk
<1>a. /\ dirs' \in [Names -> Tree \cup {NoDir}] /\ dirs'[TempDir(j.pid)] = t
      /\ \A q \in Pids : dirs'[TempDir(q)] \in Drafts \cup {NoDir}
      /\ \A q \in Pids : q # j.pid => dirs'[TempDir(q)] = dirs[TempDir(q)]
  <2>1. j.pid \in Pids /\ t \in Drafts /\ dirs' = [dirs EXCEPT ![TempDir(j.pid)] = t]
    BY <1>1, <1>2
  <2>2. QED
    BY ONLY MInv, <2>1, DraftKept, Zenon
<1>4. Disk' /\ LeavesOthers(p) /\ dirs'[TempDir(j.pid)] = t
  <2>1. tools' \in [Pids -> Tool]
    BY <1>3 DEF MInv, Disk
  <2>2. Disk'
    BY <1>3, <1>a, <2>1 DEF Disk
  <2>3. QED
    BY <1>a, <2>2 DEF LeavesOthers
<1> PICK point : point = IF j.k = 3 THEN Generated(p) ELSE j.pc
  OBVIOUS
<1> PICK next : next = Writes(j, point, j.k + 1)
  OBVIOUS
<1>5. job' = [job EXCEPT ![p] = next]
  BY WrittenFacts DEF WriteFile, Writes
<1>6. /\ point \in {"write", "backup", "install"} 
      /\ (point = "write" => j.k + 1 \in 1 .. 3)
      /\ point \in Points /\ j.k + 1 \in 0 .. 4
  BY <1>1 DEF Generated, Points
<1>7. dirs'[TempDir(j.pid)] # NoDir
  <2>1. t # NoDir
    BY <1>2, TreeFacts
  <2>2. QED
    BY <1>4, <2>1
<1>8. Fits(next)' /\ next.pid = j.pid
  BY <1>1, <1>6, <1>7, WritesFit
<1>9. QED
  BY <1>1, <1>4, <1>5, <1>8, Settle

LEMMA ToolWritesKeeps ==
  ASSUME MInv, NEW pid \in Pids, NEW tree \in ToolTrees(tools[pid].rev), ToolWrites(pid, tree)
  PROVE  MInv'
<1>1. tools[pid] \in Tool
  BY DEF MInv, Disk
<1>2. tree \in Drafts
  BY <1>1, ToolTreesAreDrafts DEF Tool
<1>3. dirs' = [dirs EXCEPT ![TempDir(pid)] = tree] /\ tools' = tools /\ job' = job
      /\ overlaps' = overlaps /\ crashes' = crashes /\ slips' \in {slips, slips + 1}
  BY DEF ToolWrites
<1>a. /\ dirs' \in [Names -> Tree \cup {NoDir}]
      /\ \A q \in Pids : dirs'[TempDir(q)] \in Drafts \cup {NoDir}
      /\ \A q \in Pids : q # pid => dirs'[TempDir(q)] = dirs[TempDir(q)]
  BY <1>2, <1>3, DraftKept
<1>4. Disk' /\ \A q \in Pids : q # pid => dirs'[TempDir(q)] = dirs[TempDir(q)]
  BY <1>3, <1>a DEF MInv, Disk
<1>5. dirs'[TempDir(pid)] # NoDir
  BY <1>2, <1>3, DraftKept, TreeFacts
<1>6. ASSUME NEW q \in Procs
      PROVE  Fits(job[q])'
  <2> PICK j : j = job[q]
    OBVIOUS
  <2>1. Fits(j)
    BY DEF MInv, JobsFit
  <2>2. j.pc = "write" => dirs'[TempDir(j.pid)] # NoDir
    BY <1>4, <1>5, <2>1 DEF Fits
  <2>3. QED
    BY <1>3, <2>1, <2>2 DEF Fits
<1>7. QED
  BY <1>3, <1>4, <1>6 DEF MInv, JobsFit, OwnPids

\* What ends a run of the command, and what else leaves the directories alone.
LEMMA StaysOnDisk ==
  ASSUME MInv, dirs' = dirs, tools' \in [Pids -> Tool],
         overlaps' \in Nat, crashes' \in Nat, slips' \in Nat
  PROVE  Disk' /\ \A p \in Procs : LeavesOthers(p)
BY DEF MInv, Disk, LeavesOthers

LEMMA ToolSettled ==
  ASSUME MInv, NEW pid \in Pids
  PROVE  /\ [tools EXCEPT ![pid] = NoTool] \in [Pids -> Tool]
         /\ [tools EXCEPT ![pid].state = "stray"] \in [Pids -> Tool]
<1>1. tools \in [Pids -> Tool] /\ NoTool \in Tool
  BY DEF MInv, Disk, NoTool, Tool
<1>2. [tools[pid] EXCEPT !.state = "stray"] \in Tool
  BY <1>1 DEF Tool
<1>3. QED
  BY <1>1, <1>2

LEMMA ToolExitsKeeps ==
  ASSUME MInv, NEW p \in Procs, ToolExits(p)
  PROVE  MInv'
<1>1. job[p].pc = "tool" /\ job[p].pid \in Pids
  BY DEF MInv, JobsFit, ToolExits, At, Fits
<1>2. Disk' /\ LeavesOthers(p)
  <2>1. tools' \in [Pids -> Tool]
    BY <1>1, ToolSettled DEF ToolExits
  <2>2. dirs' = dirs /\ overlaps' \in Nat /\ crashes' \in Nat /\ slips' \in Nat
    BY DEF ToolExits, MInv, Disk
  <2>3. QED
    BY <2>1, <2>2, StaysOnDisk
<1>3. \/ Throw(p) \/ Goto(p, "backup") \/ Goto(p, "install")
  BY DEF ToolExits, Generated
<1>4. QED
  BY <1>1, <1>2, <1>3, Throws, Goes DEF Points

LEMMA ToolTimesOutKeeps ==
  ASSUME MInv, NEW p \in Procs, ToolTimesOut(p)
  PROVE  MInv'
<1>1. job[p].pc = "tool" /\ job[p].pid \in Pids
  BY DEF MInv, JobsFit, ToolTimesOut, At, Fits
<1>2. Disk' /\ LeavesOthers(p)
  <2>1. tools' \in [Pids -> Tool]
    BY <1>1, ToolSettled DEF ToolTimesOut
  <2>2. dirs' = dirs /\ overlaps' \in Nat /\ crashes' \in Nat /\ slips' \in Nat
    BY DEF ToolTimesOut, counts, MInv, Disk
  <2>3. QED
    BY <2>1, <2>2, StaysOnDisk
<1>3. QED
  BY <1>1, <1>2, Throws DEF ToolTimesOut

LEMMA StrayEndsKeeps ==
  ASSUME MInv, NEW pid \in Pids, StrayEnds(pid)
  PROVE  MInv'
<1>1. dirs' = dirs /\ job' = job /\ overlaps' \in Nat /\ crashes' \in Nat /\ slips' \in Nat
      /\ tools' \in [Pids -> Tool]
  BY ToolSettled DEF StrayEnds, counts, MInv, Disk
<1>2. Disk'
  BY <1>1, StaysOnDisk
<1>3. QED
  BY <1>1, <1>2 DEF MInv, JobsFit, OwnPids, Fits

LEMMA RenameKept ==
  ASSUME MInv, NEW from \in Names, NEW to \in Names, from # to,
         \A pid \in Pids : to # TempDir(pid), dirs' = Renamed(from, to)
  PROVE  /\ dirs' \in [Names -> Tree \cup {NoDir}]
         /\ \A pid \in Pids : dirs'[TempDir(pid)] \in Drafts \cup {NoDir}
         /\ dirs'[to] = dirs[from] /\ dirs'[from] = NoDir
         /\ \A n \in Names : n \notin {from, to} => dirs'[n] = dirs[n]
<1>1. /\ dirs' \in [Names -> Tree \cup {NoDir}]
      /\ dirs'[to] = dirs[from] /\ dirs'[from] = NoDir
      /\ \A n \in Names : n \notin {from, to} => dirs'[n] = dirs[n]
  BY DEF MInv, Disk, Renamed
<1>2. ASSUME NEW pid \in Pids
      PROVE  dirs'[TempDir(pid)] \in Drafts \cup {NoDir}
  BY <1>1, NameFacts DEF MInv, Disk
<1>3. QED
  BY <1>1, <1>2

\* A call renames only its own directories, and the Change.
Own(p) == {ChangeDir, TempDir(job[p].pid), BackupDir(job[p].pid)}

LEMMA MovesKept ==
  ASSUME MInv, NEW p \in Procs, job[p].pid \in Pids, NEW from \in Own(p),
         NEW to \in {ChangeDir, BackupDir(job[p].pid)}, from # to, dirs' = Renamed(from, to),
         UNCHANGED <<tools, counts>>
  PROVE  Disk' /\ LeavesOthers(p)
<1>1. from \in Names /\ to \in Names /\ \A pid \in Pids : to # TempDir(pid)
  BY NameFacts DEF Own
<1>2. /\ dirs' \in [Names -> Tree \cup {NoDir}]
      /\ \A pid \in Pids : dirs'[TempDir(pid)] \in Drafts \cup {NoDir}
      /\ \A n \in Names : n \notin {from, to} => dirs'[n] = dirs[n]
  BY <1>1, RenameKept
<1>3. Disk'
  BY <1>2 DEF MInv, Disk, counts
<1>4. \A pid \in Pids : pid # job[p].pid => TempDir(pid) \in Names \ {from, to}
  BY <1>1, NameFacts DEF Own
<1>5. QED
  BY <1>2, <1>3, <1>4 DEF LeavesOthers

LEMMA BackupKeeps ==
  ASSUME MInv, NEW p \in Procs, Backup(p)
  PROVE  MInv'
<1>1. job[p].pc = "backup" /\ job[p].pid \in Pids
  BY DEF MInv, JobsFit, Backup, At, Fits
<1>2. ASSUME dirs' = Renamed(ChangeDir, BackupDir(job[p].pid)), Goto(p, "install")
      PROVE  MInv'
  <2>1. ChangeDir # BackupDir(job[p].pid) /\ ChangeDir \in Own(p)
    BY <1>1, NameFacts DEF Own
  <2>2. Disk' /\ LeavesOthers(p)
    BY <1>1, <1>2, <2>1, MovesKept DEF Backup
  <2>3. QED
    BY <1>1, <1>2, <2>2, Goes DEF Points
<1>3. ASSUME Throw(p), UNCHANGED dirs
      PROVE  MInv'
  BY <1>1, <1>3, Throws DEF Backup, MInv, Disk, LeavesOthers, counts
<1>4. QED
  BY <1>2, <1>3 DEF Backup

LEMMA InstallKeeps ==
  ASSUME MInv, NEW p \in Procs, Install(p)
  PROVE  MInv'
<1> PICK j : j = job[p]
  OBVIOUS
<1>1. Fits(j) /\ j.pc = "install" /\ j.pid \in Pids
  BY DEF MInv, JobsFit, Install, At, Fits
<1>2. ASSUME dirs' = Renamed(TempDir(j.pid), ChangeDir)
      PROVE  Disk' /\ LeavesOthers(p)
  <2>1. ChangeDir # TempDir(j.pid) /\ TempDir(j.pid) \in Own(p)
    BY <1>1, NameFacts DEF Own
  <2>2. QED
    BY <1>1, <1>2, <2>1, MovesKept DEF Install
<1>3. ASSUME dirs' = Renamed(TempDir(j.pid), ChangeDir), Goto(p, "cleanup")
      PROVE  MInv'
  BY <1>1, <1>2, <1>3, Goes DEF Points, Removing
<1>4. ASSUME dirs' = Renamed(TempDir(j.pid), ChangeDir),
             job' = [job EXCEPT ![p].pc = "list", ![p].observing = TRUE]
      PROVE  MInv'
  <2> PICK a : a = [j EXCEPT !.pc = "list"]
    OBVIOUS
  <2> PICK next : next = [a EXCEPT !.observing = TRUE]
    OBVIOUS
  <2>1. a \in Job /\ a.pc = "list" /\ a.pid = j.pid /\ a.rev = j.rev
    BY <1>1 DEF Fits, Job, Points
  <2>2. next \in Job
    BY <2>1 DEF Job
  <2>3. next.pc = a.pc /\ next.pid = a.pid /\ next.rev = a.rev
    BY <2>1 DEF Job
  <2>4. Fits(next)' /\ next.pid = j.pid
    BY <1>1, <2>1, <2>2, <2>3 DEF Fits
  <2>5. job' = [job EXCEPT ![p] = next]
    BY <1>4
  <2>6. QED
    BY <1>1, <1>2, <1>4, <2>4, <2>5, Settle
<1>5. ASSUME Throw(p), UNCHANGED dirs
      PROVE  MInv'
  BY <1>1, <1>5, Throws DEF Install, MInv, Disk, LeavesOthers, counts
<1>6. QED
  BY <1>3, <1>4, <1>5 DEF Install, Goto

LEMMA StatKeeps ==
  ASSUME MInv, NEW p \in Procs, Stat(p)
  PROVE  MInv'
<1>1. job[p].pc = "stat" /\ Disk' /\ LeavesOthers(p)
  BY DEF Stat, At, MInv, Disk, LeavesOthers, counts
<1>2. Goto(p, "restore") \/ End(p)
  BY DEF Stat
<1>3. QED
  BY <1>1, <1>2, Goes, EndsFit DEF Points

LEMMA RestoreKeeps ==
  ASSUME MInv, NEW p \in Procs, Restore(p)
  PROVE  MInv'
<1>1. job[p].pc = "restore" /\ job[p].pid \in Pids /\ End(p)
  BY DEF MInv, JobsFit, Restore, At, Fits
<1>2. ASSUME dirs' = Renamed(BackupDir(job[p].pid), ChangeDir)
      PROVE  MInv'
  <2>1. ChangeDir # BackupDir(job[p].pid) /\ BackupDir(job[p].pid) \in Own(p)
    BY <1>1, NameFacts DEF Own
  <2>2. Disk' /\ LeavesOthers(p)
    BY <1>1, <1>2, <2>1, MovesKept DEF Restore
  <2>3. QED
    BY <1>1, <2>2, EndsFit
<1>3. ASSUME dirs' = dirs
      PROVE  MInv'
  BY <1>1, <1>3, EndsFit DEF Restore, MInv, Disk, LeavesOthers, counts
<1>4. QED
  BY <1>2, <1>3 DEF Restore

LEMMA RemovingFacts ==
  ASSUME MInv, NEW p \in Procs, job[p].pc \in Removing
  PROVE  /\ Fits(job[p]) /\ job[p].pc # "idle" /\ job[p].pid \in Pids
         /\ Target(p) \in Own(p) /\ Target(p) \in Names
<1>1. Fits(job[p]) /\ job[p].pc # "idle" /\ job[p].pid \in Pids
  BY DEF MInv, JobsFit, Fits, Removing
<1>2. Target(p) \in Own(p)
  BY DEF Target, Own, At, Removing
<1>3. QED
  BY <1>1, <1>2, NameFacts DEF Own

LEMMA RemovedFits ==
  ASSUME MInv, NEW p \in Procs, job[p].pc \in Removing, Removed(p), Disk', LeavesOthers(p)
  PROVE  MInv'
<1> PICK j : j = job[p]
  OBVIOUS
<1>1. Fits(j) /\ j.pc # "idle" /\ j.pid \in Pids
  BY RemovingFacts
<1>2. ASSUME job' = [job EXCEPT ![p].pc = "list", ![p].observing = TRUE,
                                ![p].listed = FALSE, ![p].left = {}]
      PROVE  MInv'
  <2> PICK a : a = [j EXCEPT !.pc = "list"]
    OBVIOUS
  <2> PICK b : b = [a EXCEPT !.observing = TRUE]
    OBVIOUS
  <2> PICK c : c = [b EXCEPT !.listed = FALSE]
    OBVIOUS
  <2> PICK next : next = [c EXCEPT !.left = {}]
    OBVIOUS
  <2>1. a \in Job /\ a.pc = "list" /\ a.pid = j.pid /\ a.rev = j.rev
    BY <1>1 DEF Fits, Job, Points
  <2>2. b \in Job /\ b.pc = a.pc /\ b.pid = a.pid /\ b.rev = a.rev
    BY <2>1 DEF Job
  <2>3. c \in Job /\ c.pc = b.pc /\ c.pid = b.pid /\ c.rev = b.rev
    BY <2>2 DEF Job
  <2>4. next \in Job /\ next.pc = c.pc /\ next.pid = c.pid /\ next.rev = c.rev
    BY <2>3 DEF Job
  <2>5. Fits(next)' /\ next.pid = j.pid
    BY <1>1, <2>1, <2>2, <2>3, <2>4 DEF Fits
  <2>6. job' = [job EXCEPT ![p] = next]
    BY <1>2
  <2>7. QED
    BY <1>1, <2>5, <2>6, Settle
<1>3. ASSUME Goto(p, "stat")
      PROVE  MInv'
  BY <1>1, <1>3, Goes DEF Points, Removing
<1>4. ASSUME End(p)
      PROVE  MInv'
  BY <1>1, <1>4, EndsFit
<1>5. QED
  BY <1>2, <1>3, <1>4 DEF Removed

LEMMA RemoveListKeeps ==
  ASSUME MInv, NEW p \in Procs, RemoveList(p)
  PROVE  MInv'
<1> PICK j : j = job[p]
  OBVIOUS
<1>1. job[p].pc \in Removing /\ Disk' /\ LeavesOthers(p)
  BY DEF RemoveList, MInv, Disk, LeavesOthers, counts
<1>2. ASSUME job' = [job EXCEPT ![p].listed = TRUE, ![p].left = Present(dirs[Target(p)])]
      PROVE  MInv'
  <2> PICK left : left = Present(dirs[Target(p)])
    OBVIOUS
  <2> PICK a : a = [j EXCEPT !.listed = TRUE]
    OBVIOUS
  <2> PICK next : next = [a EXCEPT !.left = left]
    OBVIOUS
  <2>1. left \in SUBSET Files
    BY DEF Present
  <2>2. Fits(j) /\ j.pc \in Removing
    BY <1>1 DEF MInv, JobsFit
  <2>3. a \in Job /\ a.pc = j.pc /\ a.pid = j.pid /\ a.rev = j.rev
    BY <2>2 DEF Fits, Job
  <2>4. next \in Job /\ next.pc = a.pc /\ next.pid = a.pid /\ next.rev = a.rev
    BY <2>1, <2>3 DEF Job
  <2>5. Fits(next)' /\ next.pid = j.pid
    BY <2>2, <2>3, <2>4 DEF Fits, Removing
  <2>6. job' = [job EXCEPT ![p] = next]
    BY <1>2
  <2>7. QED
    BY <1>1, <2>2, <2>5, <2>6, Settle DEF Removing
<1>3. QED
  BY <1>1, <1>2, RemovedFits DEF RemoveList

\* A directory from which something goes.
LEMMA LessKept ==
  ASSUME MInv, NEW p \in Procs, job[p].pid \in Pids, NEW n \in Own(p), NEW t,
         t \in Tree \cup {NoDir}, dirs[n] \in Drafts => t \in Drafts \cup {NoDir},
         dirs[n] # NoDir \/ t = NoDir,
         dirs' = [dirs EXCEPT ![n] = t], UNCHANGED <<tools, counts>>
  PROVE  Disk' /\ LeavesOthers(p)
<1>1. n \in Names
  BY NameFacts DEF Own
<1>2. /\ dirs' \in [Names -> Tree \cup {NoDir}] /\ dirs'[n] = t
      /\ \A m \in Names : m # n => dirs'[m] = dirs[m]
  BY <1>1 DEF MInv, Disk
<1>3. ASSUME NEW pid \in Pids
      PROVE  dirs'[TempDir(pid)] \in Drafts \cup {NoDir}
  <2>1. TempDir(pid) \in Names /\ dirs[TempDir(pid)] \in Drafts \cup {NoDir}
    BY NameFacts DEF MInv, Disk
  <2>2. QED
    BY <1>2, <2>1
<1>4. \A pid \in Pids : pid # job[p].pid => TempDir(pid) \in Names \ {n}
  BY NameFacts DEF Own
<1>5. QED
  BY <1>2, <1>3, <1>4 DEF MInv, Disk, LeavesOthers, counts

LEMMA RemoveFileKeeps ==
  ASSUME MInv, NEW p \in Procs, RemoveFile(p)
  PROVE  MInv'
<1> PICK j : j = job[p]
  OBVIOUS
<1> PICK n : n = Target(p)
  OBVIOUS
<1>1. Fits(j) /\ j.pc \in Removing /\ j.pc # "idle" /\ j.pid \in Pids /\ n \in Own(p) /\ n \in Names
  BY RemovingFacts DEF RemoveFile
<1>2. PICK f \in First(j.left) :
        /\ dirs' = IF dirs[n] = NoDir THEN dirs ELSE [dirs EXCEPT ![n][f] = NoFile]
        /\ job' = [job EXCEPT ![p].left = @ \ {f}]
  BY DEF RemoveFile
<1>3. f \in j.left /\ f \in Files
  BY <1>1, FirstAssumption DEF Fits, Job
<1> PICK next : next = [j EXCEPT !.left = j.left \ {f}]
  OBVIOUS
<1>4. Fits(next)' /\ next.pid = j.pid
  <2>1. next \in Job /\ next.pc = j.pc /\ next.pid = j.pid /\ next.rev = j.rev
    BY <1>1 DEF Fits, Job
  <2>2. QED
    BY <1>1, <2>1 DEF Fits, Removing
<1>5. job' = [job EXCEPT ![p] = next]
  BY <1>2
<1>6. ASSUME dirs[n] = NoDir
      PROVE  Disk' /\ LeavesOthers(p)
  BY <1>2, <1>6 DEF RemoveFile, MInv, Disk, LeavesOthers, counts
<1>7. ASSUME dirs[n] # NoDir
      PROVE  Disk' /\ LeavesOthers(p)
  <2> PICK t : t = [dirs[n] EXCEPT ![f] = NoFile]
    OBVIOUS
  <2>1. t \in Tree /\ (dirs[n] \in Drafts => t \in Drafts)
    BY <1>1, <1>3, <1>7, DraftWith, TreeWithout DEF MInv, Disk
  <2>2. dirs' = [dirs EXCEPT ![n] = t]
    BY <1>2, <1>7
  <2>3. QED
    BY <1>1, <1>7, <2>1, <2>2, LessKept DEF RemoveFile
<1>8. QED
  BY <1>1, <1>4, <1>5, <1>6, <1>7, Settle

LEMMA RemoveDirKeeps ==
  ASSUME MInv, NEW p \in Procs, RemoveDir(p)
  PROVE  MInv'
<1>1. /\ job[p].pc \in Removing /\ job[p].pc # "idle" /\ job[p].pid \in Pids
      /\ Target(p) \in Own(p)
  BY RemovingFacts DEF RemoveDir
<1>2. ASSUME dirs' = [dirs EXCEPT ![Target(p)] = NoDir], Removed(p)
      PROVE  MInv'
  <2>1. Disk' /\ LeavesOthers(p)
    BY <1>1, <1>2, LessKept DEF RemoveDir
  <2>2. QED
    BY <1>1, <1>2, <2>1, RemovedFits
<1>3. ASSUME RemovalThrows(p), UNCHANGED dirs
      PROVE  MInv'
  <2>1. Disk' /\ LeavesOthers(p)
    BY <1>3 DEF RemoveDir, MInv, Disk, LeavesOthers, counts
  <2>2. QED
    BY <1>1, <1>3, <2>1, Throws, EndsFit DEF RemovalThrows
<1>4. QED
  BY <1>2, <1>3 DEF RemoveDir

LEMMA IoErrorKeeps ==
  ASSUME MInv, NEW p \in Procs, IoError(p)
  PROVE  MInv'
<1>1. job[p].pc # "idle" /\ Disk' /\ LeavesOthers(p)
  BY DEF IoError, At, MInv, Disk, LeavesOthers
<1>2. Throw(p) \/ End(p)
  BY DEF IoError
<1>3. QED
  BY <1>1, <1>2, Throws, EndsFit

LEMMA CrashKeeps ==
  ASSUME MInv, NEW p \in Procs, Crash(p)
  PROVE  MInv'
<1>1. job[p].pc # "idle" /\ job[p].pid \in Pids
  BY DEF Crash, At, MInv, JobsFit, Fits
<1>2. tools' \in [Pids -> Tool]
  BY <1>1, ToolSettled DEF Crash, MInv, Disk
<1>3. Disk' /\ LeavesOthers(p)
  BY <1>2 DEF Crash, MInv, Disk, LeavesOthers
<1>4. QED
  BY <1>1, <1>3, EndsFit DEF Crash

LEMMA StepKeeps ==
  ASSUME MInv, NEW p \in Procs, Step(p)
  PROVE  MInv'
<1>1. ASSUME ReadStep(p) PROVE MInv'
  BY <1>1, ListKeeps, ReadKeeps, ReadSpecsKeeps, CheckKeeps DEF ReadStep
<1>2. ASSUME GenerateStep(p) PROVE MInv'
  BY <1>2, MakeTempKeeps, WriteFileKeeps DEF GenerateStep
<1>3. ASSUME SwapStep(p) PROVE MInv'
  BY <1>3, BackupKeeps, InstallKeeps, StatKeeps, RestoreKeeps DEF SwapStep
<1>4. ASSUME RemoveStep(p) PROVE MInv'
  BY <1>4, RemoveListKeeps, RemoveFileKeeps, RemoveDirKeeps DEF RemoveStep
<1>5. QED
  BY <1>1, <1>2, <1>3, <1>4 DEF Step

LEMMA MInvInit == Init => MInv
<1> SUFFICES ASSUME Init
             PROVE  MInv
  OBVIOUS
<1>1. PICK change \in {NoDir} \cup {Handmade(r) : r \in Existing} :
        dirs = [n \in Names |-> IF n = ChangeDir THEN change ELSE NoDir]
  BY DEF Init
<1>2. change \in Tree \cup {NoDir}
  BY TreeFacts
<1>3. dirs \in [Names -> Tree \cup {NoDir}] /\ \A pid \in Pids : dirs[TempDir(pid)] = NoDir
  BY <1>1, <1>2, NameFacts
<1>4. NoTool \in Tool /\ tools \in [Pids -> Tool]
  BY DEF Init, NoTool, Tool
<1>5. Disk
  BY <1>3, <1>4 DEF Init, Disk
<1>6. JobsFit /\ OwnPids
  BY IdleFits DEF Init, JobsFit, OwnPids, Idle
<1>7. QED
  BY <1>5, <1>6 DEF MInv

LEMMA MInvNext == MInv /\ [Next]_vars => MInv'
<1> SUFFICES ASSUME MInv, [Next]_vars
             PROVE  MInv'
  OBVIOUS
<1>1. ASSUME NEW p \in Procs, NEW pid \in Pids, NEW rev \in Proposals, NEW base \in Digests,
             NEW strategy \in Strategies, Call(p, pid, rev, base, strategy)
      PROVE  MInv'
  BY <1>1, CallKeeps
<1>2. ASSUME NEW p \in Procs, \/ Step(p) \/ ToolExits(p) \/ ToolTimesOut(p)
                             \/ IoError(p) \/ Crash(p)
      PROVE  MInv'
  BY <1>2, StepKeeps, ToolExitsKeeps, ToolTimesOutKeeps, IoErrorKeeps, CrashKeeps
<1>3. ASSUME NEW pid \in Pids, StrayEnds(pid)
      PROVE  MInv'
  BY <1>3, StrayEndsKeeps
<1>4. ASSUME NEW pid \in Pids, NEW tree \in ToolTrees(tools[pid].rev), ToolWrites(pid, tree)
      PROVE  MInv'
  BY <1>4, ToolWritesKeeps
<1>5. ASSUME UNCHANGED vars
      PROVE  MInv'
  BY <1>5 DEF vars, counts, MInv, Disk, JobsFit, OwnPids, Fits
<1>6. QED
  BY <1>1, <1>2, <1>3, <1>4, <1>5 DEF Next

LEMMA MInvHolds == Spec => []MInv
BY MInvInit, MInvNext, PTL DEF Spec

--------------------------------------------------------------------------------
(* Every step is one of ChangeSwap, or changes nothing it knows of         *)

LEMMA SoundFacts ==
  /\ \A t : Sound(t) => t \in Tree /\ t \notin {NoDir, NoFile, EmptyTree}
  /\ \A t \in Drafts : Sound(t) => t \in {Approved(r) : r \in Proposals} \cup Overdone
<1>1. "specs" \in Files /\ "proposal" \in Files
  BY DEF Files
<1>2. NoFile \notin Texts
  BY MaterializerAssumption DEF Texts
<1>3. ASSUME NEW r \in Existing
      PROVE  /\ Handmade(r) \in Tree /\ Handmade(r)["proposal"] = r /\ r \in Texts
             /\ r \notin Proposals /\ r # NoFile
  BY <1>1, <1>2, MaterializerAssumption DEF Handmade, Tree, Texts
<1>4. ASSUME NEW r \in Proposals
      PROVE  Approved(r) \in Tree /\ Approved(r)["proposal"] = r /\ r # NoFile
  BY <1>1, <1>2 DEF Approved, Tree, Texts
<1>5. ASSUME NEW r \in Proposals, NEW text \in Texts
      PROVE  Surplus(r, text) \in Tree /\ Surplus(r, text)["proposal"] = r
  BY <1>1, <1>4 DEF Surplus, Tree
<1>6. EmptyTree["proposal"] = NoFile
  BY <1>1 DEF EmptyTree
<1>7. ASSUME NEW t, Sound(t)
      PROVE  t \in Tree /\ t["proposal"] # NoFile
  BY <1>3, <1>4, <1>5, <1>7 DEF Sound, Whole, Digests, Overdone
<1>8. ASSUME NEW t \in Drafts, Sound(t)
      PROVE  t \in {Approved(r) : r \in Proposals} \cup Overdone
  <2>1. t["proposal"] \in Proposals \cup {NoFile}
    BY <1>1 DEF Drafts
  <2>2. QED
    BY <1>3, <1>8, <2>1 DEF Sound, Whole, Digests
<1>9. QED
  BY <1>6, <1>7, <1>8, TreeFacts

\* What is left of a Change when a file goes is whole only if it was too much.
LEMMA WithoutAFile ==
  ASSUME NEW t \in Tree, NEW f \in Files, NEW u, u = [t EXCEPT ![f] = NoFile], Sound(u)
  PROVE  u = t \/ (t \in Overdone /\ u = Trimmed[t])
<1>1. u[f] = NoFile /\ "specs" \in Files /\ NoFile \notin Texts
  BY MaterializerAssumption DEF Tree, Files, Texts
<1>2. ASSUME NEW r \in Existing
      PROVE  u # Handmade(r)
  <2>1. Handmade(r)[f] = r /\ r \in Texts
    BY DEF Handmade, Texts
  <2>2. QED
    BY <1>1, <2>1
<1>3. ASSUME NEW r \in Proposals, NEW text \in Texts
      PROVE  u # Surplus(r, text)
  <2>1. Surplus(r, text)[f] \in Texts
    BY DEF Surplus, Approved, Texts
  <2>2. QED
    BY <1>1, <2>1
<1>4. PICK r \in Proposals : u = Approved(r)
  BY <1>2, <1>3 DEF Sound, Whole, Digests, Overdone
<1>5. f = "specs"
  BY <1>1, <1>4 DEF Approved, Texts
<1>6. ASSUME t["specs"] = NoFile
      PROVE  u = t
  BY <1>5, <1>6 DEF Tree
<1>7. ASSUME t["specs"] # NoFile
      PROVE  t \in Overdone /\ u = Trimmed[t]
  <2>1. t["specs"] \in Texts
    BY <1>1, <1>7 DEF Tree
  <2>2. \A g \in Files : t[g] = Surplus(r, t["specs"])[g]
    BY <1>4, <1>5 DEF Surplus, Approved, Tree
  <2>3. t = Surplus(r, t["specs"])
    BY <2>2 DEF Surplus, Approved, Tree
  <2>4. t \in Overdone
    BY <2>1, <2>3 DEF Overdone
  <2>5. QED
    BY <1>5, <2>4 DEF Trimmed
<1>8. QED
  BY <1>6, <1>7

LEMMA LessContent ==
  ASSUME NEW t \in Tree, NEW f \in Files, NEW u, u = [t EXCEPT ![f] = NoFile]
  PROVE  /\ \/ ContentOf(u) = ContentOf(t)
            \/ ContentOf(u) \in {NoDir, NoFile} /\ ContentOf(t) # NoDir
            \/ ContentOf(t) \in Overdone /\ ContentOf(u) = Trimmed[ContentOf(t)]
         /\ \/ KeptOf(u) = KeptOf(t)
            \/ KeptOf(u) = NoDir
            \/ KeptOf(t) \in Overdone /\ KeptOf(u) = Trimmed[KeptOf(t)]
<1>1. t = EmptyTree => u = EmptyTree
  BY DEF EmptyTree
<1>2. ~Sound(NoDir) /\ ~Sound(NoFile) /\ ~Sound(EmptyTree) /\ t # NoDir /\ NoDir # NoFile
  BY SoundFacts, TreeFacts
<1>3. Sound(u) => u = t \/ (t \in Overdone /\ u = Trimmed[t])
  BY WithoutAFile
<1>4. t \in Overdone => Sound(t)
  BY DEF Sound
<1>5. ContentOf(t) = NoDir => t = EmptyTree
  BY <1>2 DEF ContentOf
<1>6. Sound(t) => ContentOf(t) = t /\ KeptOf(t) = t
  BY <1>2 DEF ContentOf, KeptOf
<1>7. Sound(u) => ContentOf(u) = u /\ KeptOf(u) = u
  BY <1>2 DEF ContentOf, KeptOf
<1>8. ~Sound(u) => ContentOf(u) \in {NoDir, NoFile} /\ KeptOf(u) = NoDir
  BY DEF ContentOf, KeptOf
<1>9. QED
  BY <1>1, <1>3, <1>4, <1>5, <1>6, <1>7, <1>8

\* Of the directories a step changes, the abstract Change sees its own and the
\* backup of one pid.
LEMMA KeptOfOne ==
  ASSUME NEW pid \in Pids,
         \A q \in Pids : q # pid => dirs'[BackupDir(q)] = dirs[BackupDir(q)]
  PROVE  kept' = [kept EXCEPT ![pid] = KeptOf(dirs'[BackupDir(pid)])]
<1>1. kept' = [q \in Pids |-> KeptOf(dirs'[BackupDir(q)])]
  BY DEF kept, KeptOf, Sound, Whole
<1>2. QED
  BY <1>1 DEF kept

LEMMA Unseen ==
  ASSUME dirs'[ChangeDir] = dirs[ChangeDir],
         \A q \in Pids : dirs'[BackupDir(q)] = dirs[BackupDir(q)]
  PROVE  UNCHANGED <<content, kept>>
BY DEF content, kept, ContentOf, KeptOf, Sound, Whole

Swaps == [Swap!Next]_<<content, kept>>

LEMMA BackupSwaps ==
  ASSUME MInv, NEW p \in Procs, Backup(p)
  PROVE  Swaps
<1> PICK pid : pid = job[p].pid
  OBVIOUS
<1>1. pid \in Pids
  BY DEF MInv, JobsFit, Backup, At, Fits
<1>2. ASSUME UNCHANGED dirs PROVE Swaps
  BY <1>2, Unseen DEF Swaps
<1>3. ASSUME CanRename(ChangeDir, BackupDir(pid)), dirs' = Renamed(ChangeDir, BackupDir(pid))
      PROVE  Swaps
  <2> PICK t : t = dirs[ChangeDir]
    OBVIOUS
  <2>1. BackupDir(pid) \in Names /\ ChangeDir \in Names /\ ChangeDir # BackupDir(pid)
        /\ \A q \in Pids : BackupDir(pid) # TempDir(q)
    BY <1>1, NameFacts
  <2>2. /\ dirs'[BackupDir(pid)] = t /\ dirs'[ChangeDir] = NoDir
        /\ \A n \in Names : n \notin {ChangeDir, BackupDir(pid)} => dirs'[n] = dirs[n]
    BY <1>3, <2>1, RenameKept
  <2>3. \A q \in Pids : q # pid => dirs'[BackupDir(q)] = dirs[BackupDir(q)]
    BY <1>1, <2>2, NameFacts
  <2>4. kept' = [kept EXCEPT ![pid] = KeptOf(t)]
    BY <1>1, <2>2, <2>3, KeptOfOne
  <2>5. content' = NoDir /\ content = ContentOf(t)
    BY <2>2 DEF content, ContentOf
  <2>6. kept[pid] = NoDir /\ kept \in [Pids -> {KeptOf(dirs[BackupDir(q)]) : q \in Pids}]
    BY <1>1, <1>3, SoundFacts DEF kept, KeptOf, CanRename
  <2>7. ASSUME Sound(t) PROVE Swap!SetAside(pid)
    <3>1. ContentOf(t) = t /\ KeptOf(t) = t /\ t \notin {NoDir, NoFile}
      BY <2>7, SoundFacts DEF ContentOf, KeptOf
    <3>2. QED
      BY <2>4, <2>5, <2>6, <3>1 DEF Swap!SetAside
  <2>8. ASSUME ~Sound(t) PROVE UNCHANGED kept
    BY <2>4, <2>6, <2>8 DEF KeptOf
  <2>10. QED
    BY <1>1, <2>5, <2>7, <2>8 DEF Swaps, Swap!Next, Swap!Discard
<1>4. QED
  BY <1>2, <1>3 DEF Backup

LEMMA InstallSwaps ==
  ASSUME MInv, NEW p \in Procs, Install(p)
  PROVE  Swaps
<1> PICK pid : pid = job[p].pid
  OBVIOUS
<1>1. pid \in Pids
  BY DEF MInv, JobsFit, Install, At, Fits
<1>2. ASSUME UNCHANGED dirs PROVE Swaps
  BY <1>2, Unseen DEF Swaps
<1>3. ASSUME CanRename(TempDir(pid), ChangeDir), dirs' = Renamed(TempDir(pid), ChangeDir)
      PROVE  Swaps
  <2> PICK t : t = dirs[TempDir(pid)]
    OBVIOUS
  <2>1. TempDir(pid) \in Names /\ ChangeDir \in Names /\ ChangeDir # TempDir(pid)
        /\ \A q \in Pids : ChangeDir # TempDir(q)
    BY <1>1, NameFacts
  <2>2. /\ dirs'[ChangeDir] = t
        /\ \A n \in Names : n \notin {ChangeDir, TempDir(pid)} => dirs'[n] = dirs[n]
    BY <1>3, <2>1, RenameKept
  <2>3. \A q \in Pids : dirs'[BackupDir(q)] = dirs[BackupDir(q)]
    BY <1>1, <2>2, NameFacts
  <2>4. UNCHANGED kept
    BY <2>3 DEF kept, KeptOf, Sound, Whole
  <2>5. t \in Drafts
    BY <1>1, <1>3 DEF MInv, Disk, CanRename
  <2>6. content = NoDir /\ content' = ContentOf(t)
    BY <1>3, <2>2 DEF content, ContentOf, CanRename, Sound, Whole
  <2>7. ContentOf(t) \in {Approved(r) : r \in Proposals} \cup Overdone \cup {NoFile, NoDir}
    BY <2>5, SoundFacts DEF ContentOf
  <2>8. DOMAIN Trimmed = Overdone
    BY DEF Trimmed
  <2>9. content' = NoDir \/ Swap!Install
    BY <2>4, <2>6, <2>7, <2>8 DEF Swap!Install, Swap!Overdone
  <2>10. QED
    BY <2>4, <2>6, <2>9 DEF Swaps, Swap!Next
<1>4. QED
  BY <1>2, <1>3 DEF Install

LEMMA RestoreSwaps ==
  ASSUME MInv, NEW p \in Procs, Restore(p)
  PROVE  Swaps
<1> PICK pid : pid = job[p].pid
  OBVIOUS
<1>1. pid \in Pids
  BY DEF MInv, JobsFit, Restore, At, Fits
<1>2. ASSUME UNCHANGED dirs PROVE Swaps
  BY <1>2, Unseen DEF Swaps
<1>3. ASSUME CanRename(BackupDir(pid), ChangeDir), dirs' = Renamed(BackupDir(pid), ChangeDir)
      PROVE  Swaps
  <2> PICK t : t = dirs[BackupDir(pid)]
    OBVIOUS
  <2>1. BackupDir(pid) \in Names /\ ChangeDir \in Names /\ ChangeDir # BackupDir(pid)
        /\ \A q \in Pids : ChangeDir # TempDir(q)
    BY <1>1, NameFacts
  <2>2. /\ dirs'[ChangeDir] = t /\ dirs'[BackupDir(pid)] = NoDir
        /\ \A n \in Names : n \notin {ChangeDir, BackupDir(pid)} => dirs'[n] = dirs[n]
    BY <1>3, <2>1, RenameKept
  <2>3. \A q \in Pids : q # pid => dirs'[BackupDir(q)] = dirs[BackupDir(q)]
    BY <1>1, <2>2, NameFacts
  <2>4. kept' = [kept EXCEPT ![pid] = NoDir]
    <3>1. KeptOf(NoDir) = NoDir
      BY DEF KeptOf
    <3>2. QED
      BY <1>1, <2>2, <2>3, <3>1, KeptOfOne
  <2>5. content = NoDir /\ content' = ContentOf(t)
    BY <1>3, <2>2 DEF content, ContentOf, CanRename, Sound, Whole
  <2>6. kept[pid] = KeptOf(t) /\ kept = [q \in Pids |-> kept[q]]
    BY <1>1 DEF kept
  <2>7. ASSUME Sound(t) PROVE Swap!PutBack(pid)
    <3>1. ContentOf(t) = t /\ KeptOf(t) = t /\ t \notin {NoDir, NoFile}
      BY <2>7, SoundFacts DEF ContentOf, KeptOf
    <3>2. QED
      BY <2>4, <2>5, <2>6, <3>1 DEF Swap!PutBack
  <2>8. ASSUME ~Sound(t) PROVE UNCHANGED kept /\ content' \in {NoDir, NoFile}
    BY <2>4, <2>5, <2>6, <2>8 DEF KeptOf, ContentOf
  <2>9. ASSUME ~Sound(t) PROVE UNCHANGED <<content, kept>> \/ Swap!Install
    BY <2>5, <2>8, <2>9 DEF Swap!Install
  <2>10. QED
    BY <1>1, <2>7, <2>9 DEF Swaps, Swap!Next
<1>4. QED
  BY <1>2, <1>3 DEF Restore

\* One directory changes: the Change, a backup, or a temporary one.
LEMMA OneDirSwaps ==
  ASSUME MInv, NEW p \in Procs, job[p].pid \in Pids, NEW n \in Own(p), NEW u,
         dirs' = [dirs EXCEPT ![n] = u],
         \/ dirs[n] \in {NoDir, EmptyTree} /\ u = NoDir
         \/ dirs[n] \in Tree /\ \E f \in Files : u = [dirs[n] EXCEPT ![f] = NoFile]
  PROVE  Swaps
<1> PICK t : t = dirs[n]
  OBVIOUS
<1>1. n \in Names /\ dirs'[n] = u /\ \A m \in Names : m # n => dirs'[m] = dirs[m]
  BY NameFacts DEF Own, MInv, Disk
<1>2. /\ \/ ContentOf(u) = ContentOf(t)
         \/ ContentOf(u) \in {NoDir, NoFile} /\ ContentOf(t) # NoDir
         \/ ContentOf(t) \in Overdone /\ ContentOf(u) = Trimmed[ContentOf(t)]
      /\ \/ KeptOf(u) = KeptOf(t)
         \/ KeptOf(u) = NoDir
         \/ KeptOf(t) \in Overdone /\ KeptOf(u) = Trimmed[KeptOf(t)]
  <2>1. ASSUME t \in {NoDir, EmptyTree}, u = NoDir
        PROVE  ContentOf(u) = ContentOf(t) /\ KeptOf(u) = NoDir
    BY <2>1 DEF ContentOf, KeptOf
  <2>2. QED
    BY <2>1, LessContent
<1>3. DOMAIN Trimmed = Overdone
  BY DEF Trimmed
<1>4. ASSUME n = ChangeDir
      PROVE  Swaps
  <2>1. UNCHANGED kept
    BY <1>1, <1>4, NameFacts DEF kept, KeptOf, Sound, Whole
  <2>2. content' = ContentOf(u) /\ content = ContentOf(t)
    BY <1>1, <1>4 DEF content, ContentOf, Sound, Whole
  <2>3. content' = content \/ Swap!Discard \/ Swap!TakeSurplus
    BY <1>2, <1>3, <2>1, <2>2 DEF Swap!Discard, Swap!TakeSurplus, Swap!Overdone
  <2>4. QED
    BY <2>1, <2>3 DEF Swaps, Swap!Next
<1>5. ASSUME NEW pid \in Pids, n = BackupDir(pid)
      PROVE  Swaps
  <2>1. kept' = [kept EXCEPT ![pid] = KeptOf(u)]
    <3>1. \A q \in Pids : q # pid => dirs'[BackupDir(q)] = dirs[BackupDir(q)]
      BY <1>1, <1>5, NameFacts
    <3>2. QED
      BY <1>1, <1>5, <3>1, KeptOfOne
  <2>2. content' = content
    BY <1>1, <1>5, NameFacts DEF content, ContentOf, Sound, Whole
  <2>3. kept[pid] = KeptOf(t) /\ kept = [q \in Pids |-> kept[q]]
    BY <1>5 DEF kept
  <2>4. ASSUME KeptOf(u) = KeptOf(t) PROVE kept' = kept
    BY <2>1, <2>3, <2>4
  <2>5. kept' = kept \/ Swap!Forget(pid) \/ Swap!TakeKeptSurplus(pid)
    BY <1>2, <1>3, <2>1, <2>2, <2>3, <2>4 DEF Swap!Forget, Swap!TakeKeptSurplus, Swap!Overdone
  <2>6. QED
    BY <2>2, <2>5 DEF Swaps, Swap!Next
<1>6. ASSUME n = TempDir(job[p].pid)
      PROVE  Swaps
  BY <1>1, <1>6, NameFacts, Unseen DEF Swaps
<1>7. QED
  BY <1>4, <1>5, <1>6 DEF Own

LEMMA RemoveFileSwaps ==
  ASSUME MInv, NEW p \in Procs, RemoveFile(p)
  PROVE  Swaps
<1> PICK n : n = Target(p)
  OBVIOUS
<1>1. Fits(job[p]) /\ job[p].pid \in Pids /\ n \in Own(p) /\ n \in Names
  BY RemovingFacts DEF RemoveFile
<1>2. PICK f \in First(job[p].left) :
        dirs' = IF dirs[n] = NoDir THEN dirs ELSE [dirs EXCEPT ![n][f] = NoFile]
  BY DEF RemoveFile
<1>3. f \in Files
  BY <1>1, FirstAssumption DEF Fits, Job
<1>4. ASSUME dirs[n] = NoDir PROVE Swaps
  BY <1>2, <1>4, Unseen DEF Swaps
<1>5. ASSUME dirs[n] # NoDir PROVE Swaps
  <2> PICK u : u = [dirs[n] EXCEPT ![f] = NoFile]
    OBVIOUS
  <2>1. dirs' = [dirs EXCEPT ![n] = u] /\ dirs[n] \in Tree
    BY <1>1, <1>2, <1>5 DEF MInv, Disk
  <2>2. QED
    BY <1>1, <1>3, <2>1, OneDirSwaps
<1>6. QED
  BY <1>4, <1>5

LEMMA RemoveDirSwaps ==
  ASSUME MInv, NEW p \in Procs, RemoveDir(p)
  PROVE  Swaps
<1>1. job[p].pid \in Pids /\ Target(p) \in Own(p)
  BY RemovingFacts DEF RemoveDir
<1>2. ASSUME dirs' = [dirs EXCEPT ![Target(p)] = NoDir], dirs[Target(p)] \in {NoDir, EmptyTree}
      PROVE  Swaps
  BY <1>1, <1>2, OneDirSwaps
<1>3. ASSUME UNCHANGED dirs PROVE Swaps
  BY <1>3, Unseen DEF Swaps
<1>4. QED
  BY <1>2, <1>3 DEF RemoveDir

\* What is written goes to a temporary directory.
LEMMA DraftSwaps ==
  ASSUME NEW pid \in Pids, NEW t, dirs' = [dirs EXCEPT ![TempDir(pid)] = t]
  PROVE  Swaps
BY NameFacts, Unseen DEF Swaps

LEMMA StepSwaps ==
  ASSUME MInv, NEW p \in Procs, Step(p)
  PROVE  Swaps
<1>1. ASSUME UNCHANGED dirs PROVE Swaps
  BY <1>1, Unseen DEF Swaps
<1>2. ASSUME ReadStep(p) PROVE Swaps
  BY <1>1, <1>2 DEF ReadStep, List, Read, ReadSpecs, CheckBase, CheckObserved
<1>3. ASSUME MakeTemp(p) PROVE Swaps
  <2>1. job[p].pid \in Pids
    BY <1>3 DEF MakeTemp, At, MInv, JobsFit, Fits
  <2>2. UNCHANGED dirs \/ dirs' = [dirs EXCEPT ![TempDir(job[p].pid)] = EmptyTree]
    BY <1>3 DEF MakeTemp
  <2>3. QED
    BY <1>1, <2>1, <2>2, DraftSwaps
<1>4. ASSUME WriteFile(p) PROVE Swaps
  <2>1. job[p].pid \in Pids
    BY <1>4 DEF WriteFile, At, MInv, JobsFit, Fits
  <2> PICK t : t = [dirs[TempDir(job[p].pid)] EXCEPT ![Written[job[p].k]] = job[p].rev]
    OBVIOUS
  <2>2. dirs' = [dirs EXCEPT ![TempDir(job[p].pid)] = t]
    BY <1>4 DEF WriteFile
  <2>3. QED
    BY <2>1, <2>2, DraftSwaps
<1>5. ASSUME SwapStep(p) PROVE Swaps
  BY <1>1, <1>5, BackupSwaps, InstallSwaps, RestoreSwaps DEF SwapStep, Stat
<1>6. ASSUME RemoveStep(p) PROVE Swaps
  BY <1>1, <1>6, RemoveFileSwaps, RemoveDirSwaps DEF RemoveStep, RemoveList
<1>7. QED
  BY <1>2, <1>3, <1>4, <1>5, <1>6 DEF Step, GenerateStep

LEMMA NextSwaps == MInv /\ [Next]_vars => [Swap!Next]_<<content, kept>>
<1> SUFFICES ASSUME MInv, [Next]_vars
             PROVE  Swaps
  BY DEF Swaps
<1>1. ASSUME UNCHANGED dirs PROVE Swaps
  BY <1>1, Unseen DEF Swaps
<1>2. ASSUME NEW p \in Procs, Step(p) PROVE Swaps
  BY <1>2, StepSwaps
<1>3. ASSUME NEW pid \in Pids, NEW tree, ToolWrites(pid, tree) PROVE Swaps
  BY <1>3, DraftSwaps DEF ToolWrites
<1>4. QED
  BY <1>1, <1>2, <1>3
  DEF Next, Call, ToolExits, ToolTimesOut, IoError, Crash, StrayEnds, vars

LEMMA InitSwaps == Init => Swap!Init
<1> SUFFICES ASSUME Init
             PROVE  Swap!Init
  OBVIOUS
<1>1. PICK change \in {NoDir} \cup {Handmade(r) : r \in Existing} :
        dirs = [n \in Names |-> IF n = ChangeDir THEN change ELSE NoDir]
  BY DEF Init
<1>2. dirs[ChangeDir] = change /\ \A pid \in Pids : dirs[BackupDir(pid)] = NoDir
  BY <1>1, NameFacts
<1>3. change # NoDir => Sound(change)
  BY <1>1 DEF Sound, Whole, Digests
<1>4. content = change
  BY <1>2, <1>3, SoundFacts DEF content, ContentOf
<1>5. KeptOf(NoDir) = NoDir
  BY DEF KeptOf
<1>6. kept = [pid \in Pids |-> NoDir]
  BY <1>2, <1>5 DEF kept
<1>7. QED
  BY <1>4, <1>6 DEF Swap!Init

\* RefinesSwap: whatever calls overlap, die, come back under an old pid or meet a
\* failing disk, and whatever a command writes, the Change itself only ever goes
\* through the steps of ChangeSwap.
THEOREM SwapIsRefined == Spec => RefinesSwap
BY MInvHolds, InitSwaps, NextSwaps, PTL DEF Spec, RefinesSwap, Swap!Spec

--------------------------------------------------------------------------------
(* A call that runs alone                                                  *)

LEMMA NotItsTool ==
  ASSUME MInv, QInv, NEW p \in Procs, job[p].pc \notin {"idle", "tool"}, job[p].pid \in Pids
  PROVE  tools[job[p].pid].state # "running"
BY DEF MInv, OwnPids, QInv, ToolsAwaited

\* What a step of `p` makes of it is all there is to see to: the others are idle.
LEMMA QSettle ==
  ASSUME MInv, QInv, NEW p \in Procs, job[p].pc # "idle", NEW next,
         job' = [job EXCEPT ![p] = next], overlaps' = overlaps, Quiet(next)',
         \A pid \in Pids : tools'[pid].state = "running" =>
           \/ tools[pid].state = "running" /\ pid # job[p].pid
           \/ next.pc = "tool" /\ next.pid = pid
  PROVE  QInv'
<1>1. \A q \in Procs : job'[q] = IF q = p THEN next ELSE job[q]
  BY DEF MInv, JobsFit
<1>2. Alone'
  BY <1>1 DEF QInv, Alone
<1>3. ToolsAwaited'
  <2> SUFFICES ASSUME NEW pid \in Pids, tools'[pid].state = "running"
               PROVE  \E q \in Procs : job'[q].pc = "tool" /\ job'[q].pid = pid
    BY DEF ToolsAwaited
  <2>1. ASSUME tools[pid].state = "running", pid # job[p].pid
        PROVE  \E q \in Procs : job'[q].pc = "tool" /\ job'[q].pid = pid
    <3>1. PICK q \in Procs : job[q].pc = "tool" /\ job[q].pid = pid
      BY <2>1 DEF QInv, ToolsAwaited
    <3>2. QED
      BY <1>1, <2>1, <3>1
  <2>2. QED
    BY <1>1, <2>1
<1>4. ASSUME NEW q \in Procs
      PROVE  Quiet(job[q])'
  <2>1. q = p => Quiet(job[q])'
    BY <1>1 DEF Quiet, Observed, Calm
  <2>2. ASSUME q # p
        PROVE  Quiet(job[q])'
    <3>1. job'[q] = job[q]
      BY <1>1, <2>2
    <3>2. overlaps' = 0 => job'[q].pc = "idle"
      BY <2>2, <3>1 DEF QInv, Alone
    <3>3. QED
      BY <3>2 DEF Quiet, Observed, Calm
  <2>3. QED
    BY <2>1, <2>2
<1>5. QED
  BY <1>2, <1>3, <1>4 DEF QInv

\* Away from the command, nothing is spawned.
LEMMA QMoves ==
  ASSUME MInv, QInv, NEW p \in Procs, job[p].pc \notin {"idle", "tool"}, NEW next,
         job' = [job EXCEPT ![p] = next], overlaps' = overlaps, tools' = tools, Quiet(next)'
  PROVE  QInv'
<1>1. job[p].pid \in Pids
  BY DEF MInv, JobsFit, Fits
<1>2. tools[job[p].pid].state # "running"
  BY <1>1, NotItsTool
<1>3. QED
  BY <1>2, QSettle

\* Nothing is said of a call at these points.
Careless == {"idle", "mkdir", "tool", "catch", "stat", "restore"}

LEMMA QuietPoint == ASSUME NEW next, next.pc \in Careless PROVE Quiet(next)'
BY DEF Careless, Quiet, Observed, Calm

LEMMA QThrows ==
  ASSUME MInv, QInv, NEW p \in Procs, job[p].pc \notin {"idle", "tool"},
         Throw(p) \/ End(p), overlaps' = overlaps, tools' = tools
  PROVE  QInv'
<1> PICK j : j = job[p]
  OBVIOUS
<1>1. j \in Job
  BY DEF MInv, JobsFit, Fits
<1>2. ASSUME End(p)
      PROVE  QInv'
  <2> PICK next : next = Idle
    OBVIOUS
  <2>1. next.pc \in Careless /\ job' = [job EXCEPT ![p] = next]
    BY <1>2 DEF End, Idle, Careless
  <2>2. Quiet(next)'
    BY <2>1, QuietPoint
  <2>3. QED
    BY <2>1, <2>2, QMoves
<1>3. ASSUME Throw(p)
      PROVE  QInv'
  <2> PICK next : next = [j EXCEPT !.pc = "catch", !.listed = FALSE, !.left = {}]
    OBVIOUS
  <2>1. next.pc \in Careless /\ job' = [job EXCEPT ![p] = next]
    BY <1>1, <1>3 DEF Throw, Job, Careless
  <2>2. Quiet(next)'
    BY <2>1, QuietPoint
  <2>3. QED
    BY <2>1, <2>2, QMoves
<1>4. QED
  BY <1>2, <1>3

LEMMA QGoes ==
  ASSUME MInv, QInv, NEW p \in Procs, job[p].pc \notin {"idle", "tool"},
         NEW point \in Careless, Goto(p, point), overlaps' = overlaps, tools' = tools
  PROVE  QInv'
<1> PICK next : next = [job[p] EXCEPT !.pc = point]
  OBVIOUS
<1>1. next.pc = point /\ job' = [job EXCEPT ![p] = next]
  BY DEF Goto, MInv, JobsFit, Fits, Job
<1>2. QED
  BY <1>1, QMoves, QuietPoint

LEMMA CallQuiet ==
  ASSUME MInv, QInv, NEW p \in Procs, NEW pid, NEW rev, NEW base, NEW strategy,
         Call(p, pid, rev, base, strategy)
  PROVE  QInv'
<1> PICK next : next = [Idle EXCEPT !.pc = "list", !.pid = pid, !.rev = rev,
                                    !.base = base, !.strategy = strategy]
  OBVIOUS
<1>1. job' = [job EXCEPT ![p] = next] /\ next.pc = "list" /\ ~next.observing
  BY DEF Call, Idle
<1>2. \A q \in Procs : job'[q] = IF q = p THEN next ELSE job[q]
  BY <1>1 DEF MInv, JobsFit
<1>3. job[p].pc = "idle"
  BY ChooseIdle DEF Call, At
<1>4. dirs' = dirs /\ tools' = tools /\ slips' = slips
      /\ overlaps' = IF Running = {} THEN overlaps ELSE overlaps + 1
  BY DEF Call
<1>5. overlaps' = 0 => \A q \in Procs : job[q].pc = "idle"
  BY <1>4 DEF MInv, Disk, Running, At
<1>6. Alone'
  BY <1>2, <1>5 DEF Alone
<1>7. ToolsAwaited'
  <2>1. \A q \in Procs : job[q].pc = "tool" => job'[q] = job[q]
    BY <1>2, <1>3
  <2>2. QED
    BY <1>4, <2>1 DEF QInv, ToolsAwaited
<1>8. ASSUME NEW q \in Procs
      PROVE  Quiet(job[q])'
  <2>1. overlaps' = 0 => job'[q].pc = "idle" \/ (job'[q].pc = "list" /\ ~job'[q].observing)
    BY <1>1, <1>2, <1>5
  <2>2. QED
    BY <2>1 DEF Quiet, Observed, Calm
<1>9. QED
  BY <1>6, <1>7, <1>8 DEF QInv

LEMMA ReadsFields ==
  ASSUME NEW j \in Job, NEW point, NEW seen, NEW k
  PROVE  LET next == Reads(j, point, seen, k)
         IN  /\ next.pc = point /\ next.seen = seen /\ next.k = k
             /\ next.observing = j.observing /\ next.rev = j.rev /\ next.pid = j.pid
BY DEF Job, Reads

\* Reading changes nothing that a quiet call has made.
LEMMA CalmReads ==
  ASSUME NEW j, NEW next, Calm(j), dirs' = dirs, next.observing = j.observing, next.rev = j.rev,
         j.pc \in {"list", "read", "specs"}, next.pc \in {"read", "specs", "check"}
  PROVE  Calm(next)'
BY DEF Calm

LEMMA ListQuiet ==
  ASSUME MInv, QInv, NEW p \in Procs, List(p)
  PROVE  QInv'
<1> PICK j : j = job[p]
  OBVIOUS
<1> PICK point, seen : /\ point = IF dirs[ChangeDir] = NoDir THEN "check" ELSE "read"
                       /\ seen = IF dirs[ChangeDir] = NoDir THEN NoDir ELSE EmptyTree
  OBVIOUS
<1> PICK next : next = Reads(j, point, seen, 1)
  OBVIOUS
<1>1. j \in Job /\ j.pc = "list" /\ Quiet(j) /\ job' = [job EXCEPT ![p] = next]
  BY DEF MInv, QInv, JobsFit, Fits, List, At, Reads
<1>2. dirs' = dirs /\ tools' = tools /\ overlaps' = overlaps /\ slips' = slips
  BY DEF List, counts
<1>3. /\ next.pc = point /\ next.seen = seen /\ next.k = 1
      /\ next.observing = j.observing /\ next.rev = j.rev
  BY <1>1, ReadsFields
<1>4. Observed(next)'
  <2>1. dirs[ChangeDir] \in Tree \cup {NoDir} /\ EmptyTree["specs"] = NoFile
    BY NameFacts DEF MInv, Disk, EmptyTree, Files
  <2>2. QED
    BY <1>2, <1>3, <2>1 DEF Observed
<1>5. overlaps = 0 /\ slips = 0 => Calm(next)'
  BY <1>1, <1>2, <1>3, CalmReads DEF Quiet
<1>6. Quiet(next)'
  BY <1>2, <1>4, <1>5 DEF Quiet
<1>7. QED
  BY <1>1, <1>2, <1>6, QMoves

LEMMA ReadQuiet ==
  ASSUME MInv, QInv, NEW p \in Procs, Read(p)
  PROVE  QInv'
<1> PICK j : j = job[p]
  OBVIOUS
<1>1. Fits(j) /\ j \in Job /\ j.pc = "read" /\ Quiet(j) /\ j.seen \in Tree /\ j.k \in 1 .. 4
  BY DEF MInv, QInv, JobsFit, Fits, Read, At
<1>2. dirs' = dirs /\ tools' = tools /\ overlaps' = overlaps /\ slips' = slips
  BY DEF Read, counts
<1>3. ASSUME j.k <= 3
      PROVE  QInv'
  <2> PICK f : f = Written[j.k]
    OBVIOUS
  <2> PICK seen : seen = [j.seen EXCEPT ![f] = TextOf(f)]
    OBVIOUS
  <2> PICK next : next = Reads(j, "read", seen, j.k + 1)
    OBVIOUS
  <2>1. job' = [job EXCEPT ![p] = next]
    <3>1. job' = [job EXCEPT ![p] = [j EXCEPT !.seen = seen, !.k = j.k + 1]]
      BY <1>3, WrittenFacts DEF Read
    <3>2. next = [j EXCEPT !.seen = seen, !.k = j.k + 1]
      <4>1. j = [j EXCEPT !.pc = "read"]
        BY <1>1 DEF Job
      <4>2. QED
        BY <4>1 DEF Reads
    <3>3. QED
      BY <3>1, <3>2
  <2>2. /\ next.pc = "read" /\ next.seen = seen /\ next.k = j.k + 1
        /\ next.observing = j.observing /\ next.rev = j.rev
    BY <1>1, ReadsFields
  <2>3. ASSUME Observed(j)
        PROVE  Observed(next)'
    <3>1. dirs[ChangeDir] \in Tree /\ TextOf(f) = dirs[ChangeDir][f]
      BY <1>1, <2>3, TreeFacts DEF Observed, TextOf
    <3>2. f \in Files \ {"specs"} /\ seen[f] = TextOf(f)
      BY <1>1, <1>3, WrittenFacts DEF Tree
    <3>3. seen["specs"] = NoFile
      BY <1>1, <2>3, <3>2 DEF Observed, Tree
    <3>4. ASSUME NEW i \in 1 .. 3, i < j.k + 1
          PROVE  seen[Written[i]] = dirs[ChangeDir][Written[i]]
      <4>1. i = j.k \/ (i < j.k /\ Written[i] # f)
        BY <1>1, <1>3, <3>4, WrittenFacts
      <4>2. i < j.k => j.seen[Written[i]] = dirs[ChangeDir][Written[i]]
        BY <1>1, <2>3 DEF Observed
      <4>3. QED
        BY <1>1, <3>1, <3>2, <4>1, <4>2, WrittenFacts DEF Tree
    <3>5. \A i \in 1 .. 3 : i < next.k => next.seen[Written[i]] = dirs'[ChangeDir][Written[i]]
      BY ONLY <1>2, <2>2, <3>4, Zenon
    <3>6. dirs'[ChangeDir] \in Tree /\ next.seen["specs"] = NoFile
      BY <1>2, <2>2, <3>1, <3>3
    <3>7. QED
      BY ONLY <2>2, <3>5, <3>6 DEF Observed
  <2>4. Quiet(next)'
    BY <1>1, <1>2, <2>2, <2>3, CalmReads DEF Quiet
  <2>5. QED
    BY <1>1, <1>2, <2>1, <2>4, QMoves
<1>4. ASSUME ~(j.k <= 3)
      PROVE  QInv'
  <2> PICK point : point = IF TextOf("specs") = NoFile THEN "check" ELSE "specs"
    OBVIOUS
  <2> PICK next : next = [j EXCEPT !.pc = point]
    OBVIOUS
  <2>1. job' = [job EXCEPT ![p] = next]
    BY <1>4, WrittenFacts DEF Read
  <2>2. /\ next.pc = point /\ next.seen = j.seen
        /\ next.observing = j.observing /\ next.rev = j.rev
    BY <1>1 DEF Job
  <2>3. ASSUME Observed(j)
        PROVE  Observed(next)'
    <3>1. dirs[ChangeDir] \in Tree /\ TextOf("specs") = dirs[ChangeDir]["specs"]
      BY <1>1, <2>3, TreeFacts DEF Observed, TextOf
    <3>2. \A i \in 1 .. 3 : j.seen[Written[i]] = dirs[ChangeDir][Written[i]]
      BY <1>1, <1>4, <2>3 DEF Observed
    <3>3. \A f \in Files \ {"specs"} : j.seen[f] = dirs[ChangeDir][f]
      BY <3>2, WrittenFacts
    <3>4. point = "check" => j.seen = dirs[ChangeDir]
      <4>1. point = "check" => j.seen["specs"] = dirs[ChangeDir]["specs"]
        BY <1>1, <2>3, <3>1 DEF Observed
      <4>2. QED
        BY <1>1, <3>1, <3>3, <4>1 DEF Tree
    <3>5. QED
      BY <1>2, <2>2, <3>1, <3>3, <3>4 DEF Observed
  <2>4. Quiet(next)'
    BY <1>1, <1>2, <2>2, <2>3, CalmReads DEF Quiet
  <2>5. QED
    BY <1>1, <1>2, <2>1, <2>4, QMoves
<1>5. QED
  BY <1>3, <1>4

LEMMA ReadSpecsQuiet ==
  ASSUME MInv, QInv, NEW p \in Procs, ReadSpecs(p)
  PROVE  QInv'
<1> PICK j : j = job[p]
  OBVIOUS
<1>1. j \in Job /\ j.pc = "specs" /\ Quiet(j) /\ j.seen \in Tree
  BY DEF MInv, QInv, JobsFit, Fits, ReadSpecs, At
<1>2. dirs' = dirs /\ tools' = tools /\ overlaps' = overlaps /\ slips' = slips
  BY DEF ReadSpecs, counts
<1>3. ASSUME End(p) PROVE QInv'
  BY <1>1, <1>2, <1>3, QThrows
<1>4. ASSUME job' = [job EXCEPT ![p].pc = "check", ![p].seen["specs"] = TextOf("specs")]
      PROVE  QInv'
  <2> PICK seen : seen = [j.seen EXCEPT !["specs"] = TextOf("specs")]
    OBVIOUS
  <2> PICK next : next = [j EXCEPT !.pc = "check", !.seen = seen]
    OBVIOUS
  <2>1. job' = [job EXCEPT ![p] = next]
    BY <1>4
  <2>2. /\ next.pc = "check" /\ next.seen = seen
        /\ next.observing = j.observing /\ next.rev = j.rev
    BY <1>1 DEF Job
  <2>3. ASSUME Observed(j)
        PROVE  Observed(next)'
    <3>1. dirs[ChangeDir] \in Tree /\ TextOf("specs") = dirs[ChangeDir]["specs"]
      BY <1>1, <2>3, TreeFacts DEF Observed, TextOf
    <3>2. \A f \in Files : seen[f] = dirs[ChangeDir][f]
      BY <1>1, <2>3, <3>1 DEF Observed, Tree
    <3>3. seen = dirs[ChangeDir]
      BY <1>1, <3>1, <3>2 DEF Tree
    <3>4. QED
      BY <1>2, <2>2, <3>3 DEF Observed
  <2>4. Quiet(next)'
    BY <1>1, <1>2, <2>2, <2>3, CalmReads DEF Quiet
  <2>5. QED
    BY <1>1, <1>2, <2>1, <2>4, QMoves
<1>5. QED
  BY <1>3, <1>4 DEF ReadSpecs

LEMMA CheckQuiet ==
  ASSUME MInv, QInv, NEW p \in Procs, CheckBase(p) \/ CheckObserved(p)
  PROVE  QInv'
<1> PICK j : j = job[p]
  OBVIOUS
<1>1. j \in Job /\ j.pc = "check" /\ Quiet(j)
  BY DEF MInv, QInv, JobsFit, Fits, CheckBase, CheckObserved, At
<1>2. dirs' = dirs /\ tools' = tools /\ overlaps' = overlaps /\ slips' = slips
  BY DEF CheckBase, CheckObserved, counts
<1>3. ASSUME End(p) PROVE QInv'
  BY <1>1, <1>2, <1>3, QThrows
<1>4. ASSUME job' = [job EXCEPT ![p].pc = "mkdir", ![p].current = job[p].seen # NoDir]
      PROVE  QInv'
  <2> PICK next : next = [j EXCEPT !.pc = "mkdir", !.current = j.seen # NoDir]
    OBVIOUS
  <2>1. job' = [job EXCEPT ![p] = next] /\ next.pc \in Careless
    BY <1>1, <1>4 DEF Job, Careless
  <2>2. Quiet(next)'
    BY <2>1, QuietPoint
  <2>3. QED
    BY <1>1, <1>2, <2>1, <2>2, QMoves
<1>5. ASSUME CheckObserved(p), Goto(p, "discard")
      PROVE  QInv'
  <2> PICK next : next = [j EXCEPT !.pc = "discard"]
    OBVIOUS
  <2>1. job' = [job EXCEPT ![p] = next] /\ next.pc = "discard"
    BY <1>1, <1>5 DEF Goto, Job
  <2>2. j.observing /\ j.seen # Approved(j.rev)
    <3>1. j.seen = Approved(j.rev) => job' = [job EXCEPT ![p] = Idle]
      BY <1>5 DEF CheckObserved, End
    <3>2. job'[p] = next
      BY <2>1 DEF MInv, JobsFit
    <3>3. job' = [job EXCEPT ![p] = Idle] => job'[p].pc = "idle"
      BY DEF MInv, JobsFit, Idle
    <3>4. QED
      BY <1>5, <2>1, <3>1, <3>2, <3>3 DEF CheckObserved
  <2>3. ~(overlaps = 0 /\ slips = 0)
    BY <1>1, <2>2 DEF Quiet, Observed, Calm
  <2>4. Quiet(next)'
    BY <1>2, <2>1, <2>3 DEF Quiet, Observed
  <2>5. QED
    BY <1>1, <1>2, <2>1, <2>4, QMoves
<1>6. QED
  BY <1>3, <1>4, <1>5 DEF CheckBase, CheckObserved

LEMMA BegunFacts ==
  ASSUME NEW r
  PROVE  /\ Begun(r, 1) = EmptyTree
         /\ \A k \in 1 .. 3 : [Begun(r, k) EXCEPT ![Written[k]] = r] = Begun(r, k + 1)
         /\ Begun(r, 4) = Approved(r)
<1>1. Begun(r, 1) = EmptyTree
  BY DEF Begun, EmptyTree
<1>2. ASSUME NEW k \in 1 .. 3
      PROVE  [Begun(r, k) EXCEPT ![Written[k]] = r] = Begun(r, k + 1)
  <2> PICK t : t = [Begun(r, k) EXCEPT ![Written[k]] = r]
    OBVIOUS
  <2>1. Written[k] \in Files
    BY WrittenFacts
  <2>2. \A f \in Files : t[f] = IF f = Written[k] THEN r ELSE Begun(r, k)[f]
    BY <2>1 DEF Begun
  <2>3. \A f \in Files : (\E i \in 1 .. 3 : i < k + 1 /\ Written[i] = f)
                          <=> (f = Written[k] \/ \E i \in 1 .. 3 : i < k /\ Written[i] = f)
    <3>1. \A i \in 1 .. 3 : i < k + 1 <=> (i = k \/ i < k)
      OBVIOUS
    <3>2. QED
      BY <3>1
  <2>4. t = [f \in Files |-> t[f]]
    BY DEF Begun
  <2>5. \A f \in Files : t[f] = Begun(r, k + 1)[f]
    BY <2>2, <2>3 DEF Begun
  <2>6. QED
    BY <2>4, <2>5 DEF Begun
<1>3. \A f \in Files : (\E i \in 1 .. 3 : i < 4 /\ Written[i] = f) <=> f # "specs"
  BY WrittenFacts
<1>4. Begun(r, 4) = Approved(r)
  BY <1>3 DEF Begun, Approved
<1>5. QED
  BY <1>1, <1>2, <1>4

LEMMA MakeTempQuiet ==
  ASSUME MInv, QInv, NEW p \in Procs, MakeTemp(p)
  PROVE  QInv'
<1> PICK j : j = job[p]
  OBVIOUS
<1>1. j \in Job /\ j.pc = "mkdir" /\ j.pid \in Pids
  BY DEF MInv, JobsFit, Fits, MakeTemp, At
<1>2. overlaps' = overlaps /\ slips' = slips
  BY DEF MakeTemp, counts
<1>3. ASSUME Throw(p), tools' = tools PROVE QInv'
  BY <1>1, <1>2, <1>3, QThrows
<1>4. ASSUME dirs' = [dirs EXCEPT ![TempDir(j.pid)] = EmptyTree], tools' = tools,
             job' = [job EXCEPT ![p].pc = "write", ![p].k = 1]
      PROVE  QInv'
  <2> PICK next : next = Writes(j, "write", 1)
    OBVIOUS
  <2>1. job' = [job EXCEPT ![p] = next]
    BY <1>4 DEF Writes
  <2>2. next.pc = "write" /\ next.k = 1 /\ next.pid = j.pid
    BY <1>1 DEF Writes, Job
  <2>3. dirs'[TempDir(j.pid)] = EmptyTree
    BY <1>1, <1>4, NameFacts DEF MInv, Disk
  <2>4. Quiet(next)'
    BY <2>2, <2>3, BegunFacts DEF Quiet, Observed, Calm
  <2>5. QED
    BY <1>1, <1>2, <1>4, <2>1, <2>4, QMoves
<1>5. ASSUME Goto(p, "tool"),
             tools' = [tools EXCEPT ![j.pid] = [state |-> "running", rev |-> j.rev]]
      PROVE  QInv'
  <2> PICK next : next = [j EXCEPT !.pc = "tool"]
    OBVIOUS
  <2>1. job' = [job EXCEPT ![p] = next] /\ next.pc = "tool" /\ next.pid = j.pid
        /\ next.pc \in Careless
    BY <1>1, <1>5 DEF Goto, Job, Careless
  <2>2. \A pid \in Pids : pid # j.pid => tools'[pid] = tools[pid]
    BY <1>5 DEF MInv, Disk
  <2>3. Quiet(next)'
    BY <2>1, QuietPoint
  <2>4. QED
    BY <1>1, <1>2, <2>1, <2>2, <2>3, QSettle
<1>6. QED
  BY <1>3, <1>4, <1>5 DEF MakeTemp

LEMMA WriteFileQuiet ==
  ASSUME MInv, QInv, NEW p \in Procs, WriteFile(p)
  PROVE  QInv'
<1> PICK j : j = job[p]
  OBVIOUS
<1>1. j \in Job /\ j.pc = "write" /\ j.pid \in Pids /\ j.k \in 1 .. 3 /\ Quiet(j)
  BY DEF MInv, QInv, JobsFit, Fits, WriteFile, At
<1>2. overlaps' = overlaps /\ slips' = slips /\ tools' = tools
  BY DEF WriteFile, counts
<1> PICK point : point = IF j.k = 3 THEN Generated(p) ELSE j.pc
  OBVIOUS
<1> PICK next : next = Writes(j, point, j.k + 1)
  OBVIOUS
<1>3. job' = [job EXCEPT ![p] = next]
  BY WrittenFacts DEF WriteFile, Writes
<1>4. /\ next.pc = point /\ next.k = j.k + 1 /\ next.pid = j.pid /\ next.rev = j.rev
  BY <1>1 DEF Writes, Job
<1>5. \/ point = "write" /\ j.k # 3
      \/ point \in {"backup", "install"} /\ j.k = 3
  BY <1>1 DEF Generated
<1>6. ASSUME overlaps = 0, slips = 0
      PROVE  dirs'[TempDir(j.pid)] = Begun(j.rev, j.k + 1)
  <2>1. dirs[TempDir(j.pid)] = Begun(j.rev, j.k)
    BY <1>1, <1>6 DEF Quiet, Calm
  <2>2. dirs'[TempDir(j.pid)] = [dirs[TempDir(j.pid)] EXCEPT ![Written[j.k]] = j.rev]
    BY <1>1, NameFacts DEF WriteFile, MInv, Disk
  <2>3. QED
    BY <1>1, <2>1, <2>2, BegunFacts
<1>7. ASSUME overlaps = 0, slips = 0
      PROVE  Calm(next)'
  <2>1. point = "write" => dirs'[TempDir(next.pid)] = Begun(next.rev, next.k)
    BY <1>4, <1>6, <1>7
  <2>2. point # "write" => dirs'[TempDir(next.pid)] = Approved(next.rev)
    BY <1>4, <1>5, <1>6, <1>7, BegunFacts
  <2>3. QED
    BY <1>4, <1>5, <2>1, <2>2 DEF Calm
<1>8. Quiet(next)'
  BY <1>2, <1>4, <1>5, <1>7 DEF Quiet, Observed
<1>9. QED
  BY <1>1, <1>2, <1>3, <1>8, QMoves

\* The directories that calls other than that of `pid` rely on stay.
LEMMA ToolWritesQuiet ==
  ASSUME MInv, QInv, NEW pid \in Pids, NEW tree \in ToolTrees(tools[pid].rev), ToolWrites(pid, tree)
  PROVE  QInv'
<1>1. dirs' = [dirs EXCEPT ![TempDir(pid)] = tree] /\ tools' = tools /\ job' = job
      /\ overlaps' = overlaps
      /\ slips' = IF tools[pid].state = "running" /\ tree = Approved(tools[pid].rev)
                  THEN slips ELSE slips + 1
  BY DEF ToolWrites
<1>2. slips' = 0 => slips = 0 /\ tools[pid].state = "running"
  BY <1>1 DEF MInv, Disk
<1>3. dirs'[ChangeDir] = dirs[ChangeDir] /\ \A q \in Pids : q # pid => dirs'[TempDir(q)] = dirs[TempDir(q)]
  BY <1>1, NameFacts DEF MInv, Disk
<1>4. ASSUME NEW q \in Procs
      PROVE  Quiet(job[q])'
  <2> PICK j : j = job[q]
    OBVIOUS
  <2>1. Quiet(j) /\ Fits(j) /\ job'[q] = j
    BY <1>1 DEF QInv, MInv, JobsFit
  <2>2. ASSUME slips' = 0, j.pc \in {"write", "backup", "install"}
        PROVE  j.pid # pid /\ j.pid \in Pids
    <3>1. PICK r \in Procs : job[r].pc = "tool" /\ job[r].pid = pid
      BY <1>2, <2>2 DEF QInv, ToolsAwaited
    <3>2. r # q
      BY <2>2, <3>1
    <3>3. QED
      BY <2>1, <2>2, <3>1, <3>2 DEF MInv, OwnPids, Fits
  <2>3. slips' = 0 /\ Calm(j) => Calm(j)'
    BY <1>3, <2>2 DEF Calm
  <2>4. Observed(j) => Observed(j)'
    BY <1>3 DEF Observed
  <2>5. Quiet(j)'
    BY <1>1, <1>2, <2>1, <2>3, <2>4 DEF Quiet
  <2>6. QED
    BY <2>1, <2>5 DEF Quiet, Observed, Calm
<1>5. QED
  BY <1>1, <1>4 DEF QInv, Alone, ToolsAwaited

LEMMA ToolExitsQuiet ==
  ASSUME MInv, QInv, NEW p \in Procs, ToolExits(p)
  PROVE  QInv'
<1> PICK j : j = job[p]
  OBVIOUS
<1>1. j \in Job /\ j.pc = "tool" /\ j.pid \in Pids
  BY DEF MInv, JobsFit, Fits, ToolExits, At
<1>2. overlaps' = overlaps /\ dirs' = dirs /\ tools' = [tools EXCEPT ![j.pid] = NoTool]
  BY DEF ToolExits
<1>3. \A pid \in Pids : tools'[pid].state = "running" => tools[pid].state = "running" /\ pid # j.pid
  BY <1>1, <1>2 DEF MInv, Disk, NoTool
<1>4. ASSUME NEW point, point = Generated(p), Goto(p, point),
             slips' = IF dirs[TempDir(j.pid)] = Approved(j.rev) THEN slips ELSE slips + 1
      PROVE  QInv'
  <2> PICK next : next = [j EXCEPT !.pc = point]
    OBVIOUS
  <2>1. job' = [job EXCEPT ![p] = next] /\ next.pc = point /\ next.pid = j.pid /\ next.rev = j.rev
    BY <1>1, <1>4 DEF Goto, Job
  <2>2. point \in {"backup", "install"}
    BY <1>4 DEF Generated
  <2>3. slips' = 0 => dirs[TempDir(j.pid)] = Approved(j.rev)
    BY <1>4 DEF MInv, Disk
  <2>4. Quiet(next)'
    BY <1>2, <2>1, <2>2, <2>3 DEF Quiet, Observed, Calm
  <2>5. QED
    BY <1>1, <1>2, <1>3, <2>1, <2>4, QSettle
<1>5. ASSUME Throw(p)
      PROVE  QInv'
  <2> PICK next : next = [j EXCEPT !.pc = "catch", !.listed = FALSE, !.left = {}]
    OBVIOUS
  <2>1. next.pc \in Careless /\ job' = [job EXCEPT ![p] = next]
    BY <1>1, <1>5 DEF Throw, Job, Careless
  <2>2. Quiet(next)'
    BY <2>1, QuietPoint
  <2>3. QED
    BY <1>1, <1>2, <1>3, <2>1, <2>2, QSettle
<1>6. QED
  BY <1>4, <1>5 DEF ToolExits

LEMMA ToolGivenUp ==
  ASSUME MInv, QInv, NEW p \in Procs, job[p].pc = "tool", Throw(p) \/ End(p),
         overlaps' = overlaps, tools' = [tools EXCEPT ![job[p].pid].state = "stray"]
  PROVE  QInv'
<1> PICK j : j = job[p]
  OBVIOUS
<1>1. j \in Job /\ j.pid \in Pids
  BY DEF MInv, JobsFit, Fits
<1>2. \A pid \in Pids : tools'[pid].state = "running" => tools[pid].state = "running" /\ pid # j.pid
  BY <1>1 DEF MInv, Disk, Tool
<1>3. PICK next : next.pc \in Careless /\ job' = [job EXCEPT ![p] = next]
  <2>1. ASSUME Throw(p)
        PROVE  \E next : next.pc \in Careless /\ job' = [job EXCEPT ![p] = next]
    <3> PICK next : next = [j EXCEPT !.pc = "catch", !.listed = FALSE, !.left = {}]
      OBVIOUS
    <3>1. next.pc \in Careless /\ job' = [job EXCEPT ![p] = next]
      BY <1>1, <2>1 DEF Throw, Job, Careless
    <3>2. QED
      BY <3>1
  <2>2. ASSUME End(p)
        PROVE  \E next : next.pc \in Careless /\ job' = [job EXCEPT ![p] = next]
    <3>1. Idle.pc \in Careless /\ job' = [job EXCEPT ![p] = Idle]
      BY <2>2 DEF End, Idle, Careless
    <3>2. QED
      BY <3>1
  <2>3. QED
    BY <2>1, <2>2
<1>4. Quiet(next)'
  BY <1>3, QuietPoint
<1>5. QED
  BY <1>1, <1>2, <1>3, <1>4, QSettle

LEMMA StrayEndsQuiet ==
  ASSUME MInv, QInv, NEW pid \in Pids, StrayEnds(pid)
  PROVE  QInv'
<1>1. dirs' = dirs /\ job' = job /\ overlaps' = overlaps /\ slips' = slips
      /\ tools' = [tools EXCEPT ![pid] = NoTool]
  BY DEF StrayEnds, counts
<1>2. \A q \in Pids : tools'[q].state = "running" => tools[q].state = "running"
  BY <1>1 DEF MInv, Disk, NoTool
<1>3. QED
  BY <1>1, <1>2 DEF QInv, Alone, ToolsAwaited, Quiet, Observed, Calm

LEMMA BackupQuiet ==
  ASSUME MInv, QInv, NEW p \in Procs, Backup(p)
  PROVE  QInv'
<1> PICK j : j = job[p]
  OBVIOUS
<1>1. j \in Job /\ j.pc = "backup" /\ j.pid \in Pids /\ Quiet(j)
  BY DEF MInv, QInv, JobsFit, Fits, Backup, At
<1>2. overlaps' = overlaps /\ slips' = slips /\ tools' = tools
  BY DEF Backup, counts
<1>3. ASSUME Throw(p) PROVE QInv'
  BY <1>1, <1>2, <1>3, QThrows
<1>4. ASSUME dirs' = Renamed(ChangeDir, BackupDir(j.pid)), Goto(p, "install")
      PROVE  QInv'
  <2> PICK next : next = [j EXCEPT !.pc = "install"]
    OBVIOUS
  <2>1. job' = [job EXCEPT ![p] = next] /\ next.pc = "install" /\ next.pid = j.pid /\ next.rev = j.rev
    BY <1>1, <1>4 DEF Goto, Job
  <2>2. dirs'[TempDir(j.pid)] = dirs[TempDir(j.pid)]
    BY <1>1, <1>4, RenameKept, NameFacts
  <2>3. Quiet(next)'
    BY <1>1, <1>2, <2>1, <2>2 DEF Quiet, Observed, Calm
  <2>4. QED
    BY <1>1, <1>2, <2>1, <2>3, QMoves
<1>5. QED
  BY <1>3, <1>4 DEF Backup

LEMMA InstallQuiet ==
  ASSUME MInv, QInv, NEW p \in Procs, Install(p)
  PROVE  QInv'
<1> PICK j : j = job[p]
  OBVIOUS
<1>1. j \in Job /\ j.pc = "install" /\ j.pid \in Pids /\ Quiet(j)
  BY DEF MInv, QInv, JobsFit, Fits, Install, At
<1>2. overlaps' = overlaps /\ slips' = slips /\ tools' = tools
  BY DEF Install, counts
<1>3. ASSUME Throw(p) PROVE QInv'
  BY <1>1, <1>2, <1>3, QThrows
<1>4. ASSUME dirs' = Renamed(TempDir(j.pid), ChangeDir)
      PROVE  dirs'[ChangeDir] = dirs[TempDir(j.pid)]
  BY <1>1, <1>4, RenameKept, NameFacts
<1>5. ASSUME NEW next, job' = [job EXCEPT ![p] = next], next.pc \in {"cleanup", "list"},
             next.rev = j.rev, dirs' = Renamed(TempDir(j.pid), ChangeDir)
      PROVE  QInv'
  <2>1. overlaps = 0 /\ slips = 0 => dirs[TempDir(j.pid)] = Approved(j.rev)
    BY <1>1 DEF Quiet, Calm
  <2>2. overlaps = 0 /\ slips = 0 => dirs'[ChangeDir] = Approved(next.rev)
    BY <1>4, <1>5, <2>1
  <2>3. Quiet(next)'
    BY <1>2, <1>5, <2>2 DEF Quiet, Observed, Calm
  <2>4. QED
    BY <1>1, <1>2, <1>5, <2>3, QMoves
<1>6. PICK next, new : /\ next = [j EXCEPT !.pc = "cleanup"]
                       /\ new = [j EXCEPT !.pc = "list", !.observing = TRUE]
  OBVIOUS
<1>7. next.pc = "cleanup" /\ next.rev = j.rev /\ new.pc = "list" /\ new.rev = j.rev
  BY <1>1, <1>6 DEF Job
<1>8. ASSUME dirs' = Renamed(TempDir(j.pid), ChangeDir)
      PROVE  job' = [job EXCEPT ![p] = next] \/ job' = [job EXCEPT ![p] = new] \/ Throw(p)
  BY <1>6 DEF Install
<1>9. QED
  BY <1>3, <1>5, <1>7, <1>8 DEF Install

LEMMA StatQuiet ==
  ASSUME MInv, QInv, NEW p \in Procs, Stat(p) \/ Restore(p)
  PROVE  QInv'
<1>1. job[p].pc \in {"stat", "restore"} /\ overlaps' = overlaps /\ tools' = tools
  BY DEF Stat, Restore, At, counts
<1>2. End(p) \/ Goto(p, "restore")
  BY DEF Stat, Restore
<1>3. QED
  BY <1>1, <1>2, QThrows, QGoes DEF Careless

\* After the cleanup the Change that was installed is looked at.
LEMMA RemovedQuiet ==
  ASSUME MInv, QInv, NEW p \in Procs, job[p].pc \in Removing, Removed(p),
         overlaps' = overlaps, slips' = slips, tools' = tools,
         job[p].pc = "cleanup" => dirs'[ChangeDir] = dirs[ChangeDir]
  PROVE  QInv'
<1> PICK j : j = job[p]
  OBVIOUS
<1>1. j \in Job /\ j.pc \in Removing /\ j.pc \notin {"idle", "tool"} /\ Quiet(j)
  BY DEF MInv, QInv, JobsFit, Fits, Removing
<1>2. ASSUME j.pc = "cleanup",
             job' = [job EXCEPT ![p].pc = "list", ![p].observing = TRUE,
                                ![p].listed = FALSE, ![p].left = {}]
      PROVE  QInv'
  <2> PICK next : next = [j EXCEPT !.pc = "list", !.observing = TRUE, !.listed = FALSE, !.left = {}]
    OBVIOUS
  <2>1. next.pc = "list" /\ next.rev = j.rev /\ job' = [job EXCEPT ![p] = next]
    BY <1>1, <1>2 DEF Job
  <2>2. Quiet(next)'
    BY <1>1, <1>2, <2>1 DEF Quiet, Observed, Calm
  <2>3. QED
    BY <1>1, <2>1, <2>2, QMoves
<1>3. ASSUME End(p) PROVE QInv'
  BY <1>1, <1>3, QThrows
<1>4. ASSUME Goto(p, "stat") PROVE QInv'
  BY <1>1, <1>4, QGoes DEF Careless
<1>5. QED
  BY <1>2, <1>3, <1>4 DEF Removed, At

\* While it removes, a call changes the Change itself only to discard it.
LEMMA GoesOnRemoving ==
  ASSUME MInv, QInv, NEW p \in Procs, job[p].pc \in Removing, NEW next,
         next.pc = job[p].pc, next.rev = job[p].rev, next.observing = job[p].observing,
         job' = [job EXCEPT ![p] = next], overlaps' = overlaps, slips' = slips, tools' = tools,
         job[p].pc = "cleanup" => dirs'[ChangeDir] = dirs[ChangeDir]
  PROVE  QInv'
<1> PICK j : j = job[p]
  OBVIOUS
<1>1. j.pc \in Removing /\ j.pc \notin {"idle", "tool"} /\ Quiet(j)
  BY DEF QInv, Removing
<1>2. Quiet(next)'
  BY <1>1 DEF Quiet, Observed, Calm, Removing
<1>3. QED
  BY <1>1, <1>2, QMoves

LEMMA CleanupLeavesChange ==
  ASSUME MInv, NEW p \in Procs, job[p].pc = "cleanup"
  PROVE  Target(p) \in Names /\ Target(p) # ChangeDir
<1>1. job[p].pid \in Pids
  BY DEF MInv, JobsFit, Fits
<1>2. Target(p) = BackupDir(job[p].pid)
  BY DEF Target, At
<1>3. QED
  BY <1>1, <1>2, NameFacts

LEMMA RemoveListQuiet ==
  ASSUME MInv, QInv, NEW p \in Procs, RemoveList(p)
  PROVE  QInv'
<1> PICK j : j = job[p]
  OBVIOUS
<1>1. j \in Job /\ job[p].pc \in Removing /\ overlaps' = overlaps /\ slips' = slips
      /\ tools' = tools /\ dirs' = dirs
  BY DEF MInv, JobsFit, Fits, RemoveList, counts
<1>2. ASSUME job' = [job EXCEPT ![p].listed = TRUE, ![p].left = Present(dirs[Target(p)])]
      PROVE  QInv'
  <2> PICK left : left = Present(dirs[Target(p)])
    OBVIOUS
  <2> PICK next : next = [j EXCEPT !.listed = TRUE, !.left = left]
    OBVIOUS
  <2>1. next.pc = j.pc /\ next.rev = j.rev /\ next.observing = j.observing
        /\ job' = [job EXCEPT ![p] = next]
    BY <1>1, <1>2 DEF Job
  <2>2. QED
    BY <1>1, <2>1, GoesOnRemoving
<1>3. QED
  BY <1>1, <1>2, RemovedQuiet DEF RemoveList

LEMMA RemoveFileQuiet ==
  ASSUME MInv, QInv, NEW p \in Procs, RemoveFile(p)
  PROVE  QInv'
<1> PICK j : j = job[p]
  OBVIOUS
<1> PICK n : n = Target(p)
  OBVIOUS
<1>1. j \in Job /\ job[p].pc \in Removing /\ overlaps' = overlaps /\ slips' = slips
      /\ tools' = tools
  BY DEF MInv, JobsFit, Fits, RemoveFile, counts
<1>2. PICK f \in First(j.left) :
        /\ dirs' = IF dirs[n] = NoDir THEN dirs ELSE [dirs EXCEPT ![n][f] = NoFile]
        /\ job' = [job EXCEPT ![p].left = @ \ {f}]
  BY DEF RemoveFile
<1> PICK next : next = [j EXCEPT !.left = j.left \ {f}]
  OBVIOUS
<1>3. next.pc = j.pc /\ next.rev = j.rev /\ next.observing = j.observing
      /\ job' = [job EXCEPT ![p] = next]
  BY <1>1, <1>2 DEF Job
<1>4. j.pc = "cleanup" => dirs'[ChangeDir] = dirs[ChangeDir]
  BY <1>2, CleanupLeavesChange, NameFacts DEF MInv, Disk
<1>5. QED
  BY <1>1, <1>3, <1>4, GoesOnRemoving

LEMMA RemoveDirQuiet ==
  ASSUME MInv, QInv, NEW p \in Procs, RemoveDir(p)
  PROVE  QInv'
<1>1. job[p].pc \in Removing /\ overlaps' = overlaps /\ slips' = slips /\ tools' = tools
      /\ job[p].pc \notin {"idle", "tool"}
  BY DEF RemoveDir, counts, Removing
<1>2. ASSUME dirs' = [dirs EXCEPT ![Target(p)] = NoDir], Removed(p)
      PROVE  QInv'
  <2>1. job[p].pc = "cleanup" => dirs'[ChangeDir] = dirs[ChangeDir]
    BY <1>2, CleanupLeavesChange, NameFacts DEF MInv, Disk
  <2>2. QED
    BY <1>1, <1>2, <2>1, RemovedQuiet
<1>3. ASSUME Throw(p) \/ End(p) PROVE QInv'
  BY <1>1, <1>3, QThrows
<1>4. QED
  BY <1>2, <1>3 DEF RemoveDir, RemovalThrows

LEMMA FailsQuiet ==
  ASSUME MInv, QInv, NEW p \in Procs, IoError(p) \/ Crash(p)
  PROVE  QInv'
<1>1. job[p].pc # "idle" /\ overlaps' = overlaps /\ (Throw(p) \/ End(p))
  BY DEF IoError, Crash, At
<1>2. ASSUME job[p].pc # "tool" PROVE tools' = tools
  BY <1>2 DEF IoError, Crash, At
<1>3. ASSUME job[p].pc = "tool"
      PROVE  tools' = [tools EXCEPT ![job[p].pid].state = "stray"]
  BY <1>3 DEF IoError, Crash, At
<1>4. QED
  BY <1>1, <1>2, <1>3, QThrows, ToolGivenUp

LEMMA StepQuiet ==
  ASSUME MInv, QInv, NEW p \in Procs, Step(p)
  PROVE  QInv'
<1>1. ASSUME ReadStep(p) PROVE QInv'
  BY <1>1, ListQuiet, ReadQuiet, ReadSpecsQuiet, CheckQuiet DEF ReadStep
<1>2. ASSUME GenerateStep(p) PROVE QInv'
  BY <1>2, MakeTempQuiet, WriteFileQuiet DEF GenerateStep
<1>3. ASSUME SwapStep(p) PROVE QInv'
  BY <1>3, BackupQuiet, InstallQuiet, StatQuiet DEF SwapStep
<1>4. ASSUME RemoveStep(p) PROVE QInv'
  BY <1>4, RemoveListQuiet, RemoveFileQuiet, RemoveDirQuiet DEF RemoveStep
<1>5. QED
  BY <1>1, <1>2, <1>3, <1>4 DEF Step

LEMMA QInvInit == Init => QInv
<1> SUFFICES ASSUME Init
             PROVE  QInv
  OBVIOUS
<1>1. \A p \in Procs : job[p].pc = "idle" /\ ~job[p].observing
  BY DEF Init, Idle
<1>2. \A pid \in Pids : tools[pid].state = "none"
  BY DEF Init, NoTool
<1>3. QED
  BY <1>1, <1>2 DEF QInv, Alone, ToolsAwaited, Quiet, Observed, Calm

LEMMA QInvNext == MInv /\ QInv /\ [Next]_vars => QInv'
<1> SUFFICES ASSUME MInv, QInv, [Next]_vars
             PROVE  QInv'
  OBVIOUS
<1>1. ASSUME NEW p \in Procs, NEW pid \in Pids, NEW rev \in Proposals, NEW base \in Digests,
             NEW strategy \in Strategies, Call(p, pid, rev, base, strategy)
      PROVE  QInv'
  BY <1>1, CallQuiet
<1>2. ASSUME NEW p \in Procs, ToolTimesOut(p)
      PROVE  QInv'
  BY <1>2, ToolGivenUp DEF ToolTimesOut, At, counts
<1>3. ASSUME NEW p \in Procs, Step(p) \/ ToolExits(p) \/ IoError(p) \/ Crash(p)
      PROVE  QInv'
  BY <1>3, StepQuiet, ToolExitsQuiet, FailsQuiet
<1>4. ASSUME NEW pid \in Pids, StrayEnds(pid)
      PROVE  QInv'
  BY <1>4, StrayEndsQuiet
<1>5. ASSUME NEW pid \in Pids, NEW tree \in ToolTrees(tools[pid].rev), ToolWrites(pid, tree)
      PROVE  QInv'
  BY <1>5, ToolWritesQuiet
<1>6. ASSUME UNCHANGED vars
      PROVE  QInv'
  BY <1>6 DEF vars, counts, QInv, Alone, ToolsAwaited, Quiet, Observed, Calm
<1>7. QED
  BY <1>1, <1>2, <1>3, <1>4, <1>5, <1>6 DEF Next

LEMMA QInvHolds == Spec => []QInv
BY MInvHolds, QInvInit, QInvNext, PTL DEF Spec

--------------------------------------------------------------------------------
(* What a call that returns has left behind                                *)

\* Every step moves one call on, if any.
LEMMA OneMoves ==
  ASSUME job = [r \in Procs |-> job[r]], NEW p \in Procs, NEW q \in Procs, p # q,
         \/ Step(q) \/ ToolExits(q) \/ ToolTimesOut(q) \/ IoError(q) \/ Crash(q)
  PROVE  job'[p] = job[p]
<1>1. ASSUME NEW x, job' = [job EXCEPT ![q] = x] PROVE job'[p] = job[p]
  BY <1>1
<1>2. ASSUME End(q) \/ Throw(q) \/ \E point : Goto(q, point)
      PROVE  job'[p] = job[p]
  BY <1>2 DEF End, Throw, Goto
<1>3. ASSUME ReadStep(q) PROVE job'[p] = job[p]
  BY <1>2, <1>3 DEF ReadStep, List, Read, ReadSpecs, CheckBase, CheckObserved
<1>4. ASSUME GenerateStep(q) PROVE job'[p] = job[p]
  BY <1>2, <1>4 DEF GenerateStep, MakeTemp, WriteFile
<1>5. ASSUME SwapStep(q) PROVE job'[p] = job[p]
  BY <1>2, <1>5 DEF SwapStep, Backup, Install, Stat, Restore
<1>6. ASSUME Removed(q) \/ RemovalThrows(q) PROVE job'[p] = job[p]
  BY <1>2, <1>6 DEF Removed, RemovalThrows
<1>7. ASSUME RemoveStep(q) PROVE job'[p] = job[p]
  BY <1>6, <1>7 DEF RemoveStep, RemoveList, RemoveFile, RemoveDir
<1>8. ASSUME ToolExits(q) \/ ToolTimesOut(q) \/ IoError(q) \/ Crash(q)
      PROVE  job'[p] = job[p]
  BY <1>2, <1>8 DEF ToolExits, ToolTimesOut, IoError, Crash
<1>9. QED
  BY <1>3, <1>4, <1>5, <1>7, <1>8 DEF Step

\* A call that has observed what it installed can only return by comparing it.
LEMMA OnlyCheckReturns ==
  ASSUME MInv, [Next]_vars, NEW p \in Procs, Returns(p), crashes' = crashes
  PROVE  CheckObserved(p)
<1>1. job[p].pc = "check" /\ job[p].observing /\ job'[p].pc = "idle" /\ job'[p] # job[p]
  BY DEF Returns, At
<1>2. job = [r \in Procs |-> job[r]]
  BY DEF MInv, JobsFit
<1>3. ASSUME NEW q \in Procs, NEW pid \in Pids, NEW rev \in Proposals, NEW base \in Digests,
             NEW strategy \in Strategies, Call(q, pid, rev, base, strategy)
      PROVE  FALSE
  <2>1. job[q].pc = "idle"
    BY <1>3, ChooseIdle DEF Call, At
  <2>2. job'[p] = job[p]
    BY <1>1, <1>2, <1>3, <2>1 DEF Call
  <2>3. QED
    BY <1>1, <2>2
<1>4. ASSUME NEW q \in Procs,
             \/ Step(q) \/ ToolExits(q) \/ ToolTimesOut(q) \/ IoError(q) \/ Crash(q)
      PROVE  q = p
  BY <1>1, <1>2, <1>4, OneMoves
<1>5. crashes + 1 # crashes
  BY DEF MInv, Disk
<1>6. ASSUME \/ Step(p) \/ ToolExits(p) \/ ToolTimesOut(p) \/ IoError(p) \/ Crash(p)
      PROVE  CheckObserved(p)
  <2>1. ~(ToolExits(p) \/ ToolTimesOut(p) \/ IoError(p) \/ Crash(p))
    BY <1>1, <1>5 DEF ToolExits, ToolTimesOut, IoError, Crash, At
  <2>2. ~GenerateStep(p) /\ ~SwapStep(p)
    BY <1>1 DEF GenerateStep, MakeTemp, WriteFile, SwapStep, Backup, Install, Stat, Restore, At
  <2>3. ~RemoveStep(p)
    BY <1>1 DEF RemoveStep, RemoveList, RemoveFile, RemoveDir, Removing
  <2>4. ReadStep(p)
    BY <1>6, <2>1, <2>2, <2>3 DEF Step
  <2>5. QED
    BY <1>1, <2>4 DEF ReadStep, List, Read, ReadSpecs, CheckBase, At
<1>7. ~UNCHANGED job
  BY <1>1
<1>8. QED
  BY <1>3, <1>4, <1>6, <1>7 DEF Next, vars, StrayEnds, ToolWrites

LEMMA ReturnsStep ==
  ASSUME MInv, QInv, [Next]_vars, NEW p \in Procs, Returns(p), overlaps = 0, crashes' = crashes
  PROVE  dirs[ChangeDir] = Approved(job[p].rev)
<1> PICK j : j = job[p]
  OBVIOUS
<1>1. CheckObserved(p) /\ job'[p].pc = "idle"
  BY OnlyCheckReturns DEF Returns
<1>2. j.pc = "check" /\ j.observing /\ Observed(j) /\ j \in Job
  BY <1>1 DEF CheckObserved, At, QInv, Quiet, MInv, JobsFit, Fits
<1>3. j.seen = Approved(j.rev)
  <2>1. Goto(p, "discard") => job'[p].pc = "discard"
    BY <1>2 DEF Goto, MInv, JobsFit, Job
  <2>2. QED
    BY <1>1, <2>1 DEF CheckObserved
<1>4. QED
  BY <1>2, <1>3 DEF Observed

\* ReturnsWhatStands: what materializeApprovedChange returns for is the approved
\* Change, as it stands on the disk, if nobody else was at work meanwhile.
THEOREM ReturnedChangeStands == Spec => ReturnsWhatStands
<1>1. MInv /\ QInv /\ [Next]_vars =>
        [\A p \in Procs : Returns(p) /\ overlaps = 0 /\ crashes' = crashes
           => dirs[ChangeDir] = Approved(job[p].rev)]_vars
  BY ReturnsStep
<1>2. QED
  BY <1>1, MInvHolds, QInvHolds, PTL DEF Spec, ReturnsWhatStands

--------------------------------------------------------------------------------
(* A whole Change stays somewhere                                          *)

LEMMA NameKinds ==
  /\ ChangeDir[1] # "temp"
  /\ \A pid \in Pids : BackupDir(pid)[1] # "temp" /\ TempDir(pid)[1] = "temp"
  /\ \A n \in Names : n[1] # "temp" => n = ChangeDir \/ \E pid \in Pids : n = BackupDir(pid)
BY DEF ChangeDir, BackupDir, TempDir, Names

LEMMA WholeIsSomething == \A t : Whole(t) => t \notin {NoDir, EmptyTree}
BY SoundFacts DEF Sound

\* The whole Change is not where the step removes or replaces something.
LEMMA StaysSomewhere ==
  ASSUME SomewhereWhole,
         \A n \in Names : n[1] # "temp" /\ Whole(dirs[n])
           => \E m \in Names : m[1] # "temp" /\ dirs'[m] = dirs[n]
  PROVE  SomewhereWhole'
BY DEF SomewhereWhole, Whole

LEMMA RenameLosesNothing ==
  ASSUME MInv, SomewhereWhole, NEW from \in Names, NEW to \in Names, from # to, to[1] # "temp",
         \A pid \in Pids : to # TempDir(pid),
         CanRename(from, to), dirs' = Renamed(from, to)
  PROVE  SomewhereWhole'
<1>1. /\ dirs'[to] = dirs[from]
      /\ \A n \in Names : n \notin {from, to} => dirs'[n] = dirs[n]
  BY RenameKept
<1>2. ~Whole(dirs[to])
  BY WholeIsSomething DEF CanRename
<1>3. QED
  BY <1>1, <1>2, StaysSomewhere

LEMMA DraftLosesNothing ==
  ASSUME MInv, SomewhereWhole, NEW pid \in Pids, NEW t, dirs' = [dirs EXCEPT ![TempDir(pid)] = t]
  PROVE  SomewhereWhole'
<1>1. \A n \in Names : n[1] # "temp" => dirs'[n] = dirs[n]
  BY NameKinds DEF MInv, Disk
<1>2. QED
  BY <1>1, StaysSomewhere

LEMMA RemovalLosesNothing ==
  ASSUME MInv, QInv, SomewhereWhole, NEW p \in Procs, job[p].pc \in Removing, NEW u,
         overlaps = 0, slips = 0, dirs' = [dirs EXCEPT ![Target(p)] = u]
  PROVE  SomewhereWhole'
<1> PICK j : j = job[p]
  OBVIOUS
<1>1. Calm(j) /\ j.pid \in Pids
  BY RemovingFacts DEF QInv, Quiet
<1>2. ASSUME j.pc = "cleanup"
      PROVE  SomewhereWhole'
  <2>1. dirs[ChangeDir] = Approved(j.rev) /\ j.rev \in Proposals
    BY <1>1, <1>2 DEF Calm, MInv, JobsFit, Fits
  <2>2. dirs'[ChangeDir] = dirs[ChangeDir]
    BY <1>2, CleanupLeavesChange, NameFacts DEF MInv, Disk
  <2>3. Whole(dirs'[ChangeDir])
    BY <2>1, <2>2 DEF Whole, Digests
  <2>4. QED
    BY <2>3, NameFacts, NameKinds DEF SomewhereWhole, Whole
<1>3. ASSUME j.pc = "catch"
      PROVE  SomewhereWhole'
  <2>1. Target(p) = TempDir(j.pid)
    BY <1>3 DEF Target, At
  <2>2. QED
    BY <1>1, <2>1, DraftLosesNothing
<1>4. j.pc # "discard"
  BY <1>1 DEF Calm
<1>5. QED
  BY <1>2, <1>3, <1>4 DEF Removing

LEMMA StepLosesNothing ==
  ASSUME MInv, QInv, SomewhereWhole, NEW p \in Procs, Step(p), overlaps = 0, slips = 0
  PROVE  SomewhereWhole'
<1>1. ASSUME UNCHANGED dirs PROVE SomewhereWhole'
  BY <1>1, StaysSomewhere
<1>2. job[p].pc # "idle" => job[p].pid \in Pids
  BY DEF MInv, JobsFit, Fits
<1>3. ASSUME ReadStep(p) PROVE SomewhereWhole'
  BY <1>1, <1>3 DEF ReadStep, List, Read, ReadSpecs, CheckBase, CheckObserved
<1>4. ASSUME GenerateStep(p) PROVE SomewhereWhole'
  <2> PICK t : t = [dirs[TempDir(job[p].pid)] EXCEPT ![Written[job[p].k]] = job[p].rev]
    OBVIOUS
  <2>1. job[p].pid \in Pids
    BY <1>2, <1>4 DEF GenerateStep, MakeTemp, WriteFile, At
  <2>2. \/ UNCHANGED dirs
        \/ dirs' = [dirs EXCEPT ![TempDir(job[p].pid)] = EmptyTree]
        \/ dirs' = [dirs EXCEPT ![TempDir(job[p].pid)] = t]
    BY <1>4 DEF GenerateStep, MakeTemp, WriteFile
  <2>3. QED
    BY <1>1, <2>1, <2>2, DraftLosesNothing
<1>5. ASSUME SwapStep(p) PROVE SomewhereWhole'
  <2> PICK pid : pid = job[p].pid
    OBVIOUS
  <2>1. pid \in Pids
    BY <1>2, <1>5 DEF SwapStep, Backup, Install, Stat, Restore, At
  <2>2. \/ UNCHANGED dirs
        \/ CanRename(ChangeDir, BackupDir(pid)) /\ dirs' = Renamed(ChangeDir, BackupDir(pid))
        \/ CanRename(TempDir(pid), ChangeDir) /\ dirs' = Renamed(TempDir(pid), ChangeDir)
        \/ CanRename(BackupDir(pid), ChangeDir) /\ dirs' = Renamed(BackupDir(pid), ChangeDir)
    BY <1>5 DEF SwapStep, Backup, Install, Stat, Restore
  <2>3. /\ ChangeDir \in Names /\ BackupDir(pid) \in Names /\ TempDir(pid) \in Names
        /\ ChangeDir # BackupDir(pid) /\ ChangeDir # TempDir(pid)
        /\ ChangeDir[1] # "temp" /\ BackupDir(pid)[1] # "temp"
        /\ \A q \in Pids : ChangeDir # TempDir(q) /\ BackupDir(pid) # TempDir(q)
    BY <2>1, NameFacts, NameKinds
  <2>4. QED
    BY <1>1, <2>2, <2>3, RenameLosesNothing
<1>6. ASSUME RemoveStep(p) PROVE SomewhereWhole'
  <2>1. job[p].pc \in Removing
    BY <1>6 DEF RemoveStep, RemoveList, RemoveFile, RemoveDir
  <2>2. UNCHANGED dirs \/ \E u : dirs' = [dirs EXCEPT ![Target(p)] = u]
    BY <1>6 DEF RemoveStep, RemoveList, RemoveFile, RemoveDir
  <2>3. QED
    BY <1>1, <2>1, <2>2, RemovalLosesNothing
<1>7. QED
  BY <1>3, <1>4, <1>5, <1>6 DEF Step

LEMMA NextLosesNothing ==
  ASSUME MInv, QInv, [Next]_vars, SomewhereWhole, overlaps' = 0, slips' = 0
  PROVE  SomewhereWhole'
<1>1. ASSUME UNCHANGED dirs PROVE SomewhereWhole'
  BY <1>1, StaysSomewhere
<1>2. overlaps + 1 # 0 /\ slips + 1 # 0
  BY DEF MInv, Disk
<1>3. ASSUME NEW p \in Procs, Step(p) PROVE SomewhereWhole'
  <2>1. overlaps' = overlaps /\ slips' = slips
    BY <1>3 DEF Step, ReadStep, GenerateStep, SwapStep, RemoveStep, counts, List, Read, ReadSpecs,
                CheckBase, CheckObserved, MakeTemp, WriteFile, Backup, Install, Stat, Restore,
                RemoveList, RemoveFile, RemoveDir
  <2>2. QED
    BY <1>3, <2>1, StepLosesNothing
<1>4. ASSUME NEW pid \in Pids, NEW tree, ToolWrites(pid, tree) PROVE SomewhereWhole'
  BY <1>4, DraftLosesNothing DEF ToolWrites
<1>5. QED
  BY <1>1, <1>3, <1>4
  DEF Next, Call, ToolExits, ToolTimesOut, IoError, Crash, StrayEnds, vars

\* NothingIsLost: however a call fails or dies, while calls take their turns and
\* commands do as they are told, what stands for the Change, in its place or set
\* aside, is somewhere whole.
THEOREM WholeChangeStays == Spec => NothingIsLost
<1>1. MInv /\ QInv /\ [Next]_vars =>
        [SomewhereWhole /\ overlaps' = 0 /\ slips' = 0 => SomewhereWhole']_vars
  BY NextLosesNothing
<1>2. QED
  BY <1>1, MInvHolds, QInvHolds, PTL DEF Spec, NothingIsLost

================================================================================
