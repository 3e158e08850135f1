----------------------------- MODULE HarnessProofs -----------------------------
(***************************************************************************)
(* Executions in the Pi runtime, for any number of them, any policies and  *)
(* any files; agents, harness and providers in one process, for any number *)
(* of runs, clients, connectors and servers; streams, for any body and any *)
(* way it is cut.                                                          *)
(***************************************************************************)
EXTENDS HarnessProps, Recursion, FiniteSetTheorems, SequenceTheorems

--------------------------------------------------------------------------------
(* What a policy grants                                                    *)

LEMMA WithinWithin ==
  ASSUME NEW a, NEW b, NEW c, IsPath(a), IsPath(b), IsPath(c), Within(a, b), Within(b, c)
  PROVE  Within(a, c)
<1>1. a = b \/ Len(a) + 1 \in 1 .. Len(b)
  <2>1. ASSUME Len(a) = Len(b)
        PROVE  a = b
    <3>1. \A i \in 1 .. Len(a) : a[i] = b[i]
      BY <2>1 DEF Within, IsPath
    <3>2. QED
      BY <2>1, <3>1 DEF IsPath
  <2>2. Len(a) \in Nat /\ Len(b) \in Nat /\ Len(a) <= Len(b)
    BY DEF Within, IsPath
  <2>3. QED
    BY <2>1, <2>2
<1>2. ASSUME a # b, b # c
      PROVE  Within(a, c)
  <2>1. /\ Len(a) \in Nat /\ Len(b) \in Nat /\ Len(c) \in Nat
        /\ DOMAIN a = 1 .. Len(a) /\ DOMAIN b = 1 .. Len(b)
        /\ Len(a) <= Len(b) /\ Len(b) <= Len(c)
        /\ \A i \in DOMAIN a : b[i] = a[i]
        /\ \A i \in DOMAIN b : c[i] = b[i]
    BY DEF Within, IsPath
  <2>2. Len(a) <= Len(c) /\ DOMAIN a \subseteq DOMAIN b
    BY <2>1
  <2>3. \A i \in DOMAIN a : c[i] = a[i]
    BY <2>1, <2>2
  <2>4. c[Len(a) + 1] = b[Len(a) + 1] /\ b[Len(a) + 1] \notin Dotted
    BY <1>1, <1>2, <2>1 DEF Within
  <2>5. QED
    BY <2>2, <2>3, <2>4 DEF Within
<1>3. QED
  BY <1>2

\* What the first part of GrantsAreExact says of a policy.
ListedIsUsable(p) ==
  /\ (\E path \in Paths : MayMaterialize(p, path, FALSE, TRUE))
       <=> "workspace.write" \in p.capabilities /\ AllowedPaths(p) # {}
  /\ (\E host \in Hosts : MayReach(p, host)) <=> "network.access" \in p.capabilities
  /\ (\E name \in Secrets : MayKnow(p, name)) <=> "secrets.read" \in p.capabilities

LEMMA AcceptedIsUsable ==
  ASSUME policy \in Policies, Accepts(policy)
  PROVE  ListedIsUsable(policy)
<1>1. /\ policy.hosts \subseteq Hosts /\ policy.names \subseteq Secrets
      /\ \A folder \in AllowedPaths(policy) :
           IsPath(folder) /\ (Within(Root, folder) => \E path \in Paths : Within(folder, path))
  BY RuntimeAssumption
<1>2. \A folder \in AllowedPaths(policy) : Within(Root, folder)
  BY DEF Accepts
<1>3. (\E path \in Paths : MayMaterialize(policy, path, FALSE, TRUE))
        <=> "workspace.write" \in policy.capabilities /\ AllowedPaths(policy) # {}
  <2>1. ASSUME NEW path \in Paths, MayMaterialize(policy, path, FALSE, TRUE)
        PROVE  "workspace.write" \in policy.capabilities /\ AllowedPaths(policy) # {}
    BY <2>1 DEF MayMaterialize, MayWrite, MayRead
  <2>2. ASSUME "workspace.write" \in policy.capabilities, NEW folder \in AllowedPaths(policy)
        PROVE  \E path \in Paths : MayMaterialize(policy, path, FALSE, TRUE)
    <3>1. PICK path \in Paths : Within(folder, path)
      BY <1>1, <1>2
    <3>2. MayWrite(policy, path)
      BY <2>2, <3>1 DEF MayWrite, MayRead, Accepts
    <3>3. QED
      BY <3>2 DEF MayMaterialize
  <2>3. QED
    BY <2>1, <2>2
<1>4. (\E host \in Hosts : MayReach(policy, host)) <=> "network.access" \in policy.capabilities
  BY <1>1 DEF MayReach, Accepts
<1>5. (\E name \in Secrets : MayKnow(policy, name)) <=> "secrets.read" \in policy.capabilities
  BY <1>1 DEF MayKnow, Accepts
<1>6. QED
  BY <1>3, <1>4, <1>5 DEF ListedIsUsable

\* An accepted envelope in which the workspace is allowed is the workspace.
LEMMA AllowedRootIsAll ==
  ASSUME policy \in Policies, Accepts(policy), MayRead(policy, Root), NEW path \in Paths
  PROVE  MayRead(policy, path) <=> Within(Root, path)
<1>1. IsPath(Root) /\ IsPath(path) /\ \A folder \in AllowedPaths(policy) : IsPath(folder)
  BY RuntimeAssumption, PathsAssumption
<1>2. \A folder \in AllowedPaths(policy) : Within(Root, folder)
  BY DEF Accepts
<1>3. ASSUME MayRead(policy, path)
      PROVE  Within(Root, path)
  <2>1. PICK folder \in AllowedPaths(policy) : Within(folder, path)
    BY <1>3 DEF MayRead
  <2>2. QED
    BY <1>1, <1>2, <2>1, WithinWithin
<1>4. ASSUME Within(Root, path)
      PROVE  MayRead(policy, path)
  <2>1. PICK folder \in AllowedPaths(policy) : Within(folder, Root)
    BY DEF MayRead
  <2>2. Within(folder, path)
    BY <1>1, <1>4, <2>1, WithinWithin
  <2>3. QED
    BY <2>2 DEF MayRead
<1>5. QED
  BY <1>3, <1>4

LEMMA PolicyStays ==
  ASSUME [RuntimeNext]_runtimeVars
  PROVE  policy' = policy
<1>1. ASSUME NEW e \in Executions,
             ExecutionStep(e) \/ StartExecution(e) \/ CallsRead(e) \/ RecordIsLost(e)
               \/ ExecutionCrashes(e)
      PROVE  policy' = policy
  BY <1>1 DEF ExecutionStep, StartExecution, CallsRead, RecordIsLost, ExecutionCrashes,
              ImportEnds, SessionIsCreated, Accesses, Reads, RecordIsWritten, PromptEnds,
              TraceIsSaved
<1>2. QED
  BY <1>1 DEF RuntimeNext, runtimeVars, Rewritten

--------------------------------------------------------------------------------
(* The records of the read tool                                            *)

Outcomes == {"allowed", "failed", "denied"}

ExecType ==
  [pc : ExecutionPoints, open : BOOLEAN, reads : Nat, path : Paths \cup {<<>>},
   outcome : Outcomes \cup {""}, handed : SUBSET Nat]

RecordType == [call : Executions \X Nat, path : Paths, outcome : Outcomes]

\* The execution x has call n behind it.
Over(x, n) == n < x.reads \/ x.pc \notin {"access", "read", "record", "crashed"}

\* A record says what came of its call.
SaysSo(x, n, r) ==
  /\ r.outcome = "allowed" <=> n \in x.handed
  /\ r.outcome = "denied" <=> ~MayRead(policy, r.path)

\* One record in tr, and nothing lost, or the other way round.
Settled(e, x, tr, lo, n) ==
  \/ <<e, n>> \in lo /\ \A r \in tr : r.call # <<e, n>>
  \/ /\ <<e, n>> \notin lo
     /\ \E r \in tr :
          /\ r.call = <<e, n>> /\ SaysSo(x, n, r)
          /\ \A q \in tr : q.call = <<e, n>> => q = r

\* Nothing is known of call n yet.
Open(e, x, tr, lo, n) ==
  /\ <<e, n>> \notin lo /\ n \notin x.handed
  /\ \A r \in tr : r.call # <<e, n>>

\* The call in progress.
AtWork(e, x, tr, lo) ==
  /\ x.reads # 0 /\ x.path \in Paths
  /\ Open(e, x, tr, lo, x.reads)
  /\ x.pc = "read" => MayRead(policy, x.path)
  /\ x.pc = "record" => x.outcome \in Outcomes /\ (x.outcome = "denied" <=> ~MayRead(policy, x.path))

\* All of an execution x: what it has still to do is open, what is over is settled.
Recorded(e, x, tr, lo) ==
  /\ \A n \in Nat : n > x.reads => Open(e, x, tr, lo, n)
  /\ x.pc \in {"access", "read", "record"} => AtWork(e, x, tr, lo)
  /\ \A n \in 1 .. x.reads : Over(x, n) => Settled(e, x, tr, lo, n)

TrailInv ==
  /\ exec \in [Executions -> ExecType]
  /\ trail \subseteq RecordType
  /\ \A e \in Executions : Recorded(e, exec[e], trail, lost)

LEMMA TrailSuffices ==
  ASSUME TrailInv
  PROVE  EveryCallIsRecorded
<1> SUFFICES ASSUME NEW e \in Executions, NEW n \in 1 .. exec[e].reads, IsOver(e, n)
             PROVE  LET records == {r \in trail : r.call = <<e, n>>} IN
                    /\ Cardinality(records) = IF <<e, n>> \in lost THEN 0 ELSE 1
                    /\ \A r \in records : /\ r.outcome = "allowed" <=> n \in exec[e].handed
                                          /\ r.outcome = "denied"  <=> ~MayRead(policy, r.path)
  BY DEF EveryCallIsRecorded
<1>1. Settled(e, exec[e], trail, lost, n)
  BY DEF TrailInv, Recorded, Over, IsOver
<1>2. PICK records : records = {r \in trail : r.call = <<e, n>>}
  OBVIOUS
<1>3. ASSUME <<e, n>> \in lost
      PROVE  records = {}
  BY <1>1, <1>2, <1>3 DEF Settled
<1>4. ASSUME <<e, n>> \notin lost
      PROVE  \E r \in trail : records = {r} /\ SaysSo(exec[e], n, r)
  <2>1. PICK r \in trail : /\ r.call = <<e, n>> /\ SaysSo(exec[e], n, r)
                           /\ \A q \in trail : q.call = <<e, n>> => q = r
    BY <1>1, <1>4 DEF Settled
  <2>2. records = {r}
    BY <1>2, <2>1
  <2>3. QED
    BY <2>1, <2>2
<1>5. Cardinality(records) = IF <<e, n>> \in lost THEN 0 ELSE 1
  <2>1. ASSUME <<e, n>> \in lost
        PROVE  Cardinality(records) = 0
    BY <1>3, <2>1, FS_EmptySet
  <2>2. ASSUME <<e, n>> \notin lost
        PROVE  Cardinality(records) = 1
    BY <1>4, <2>2, FS_Singleton
  <2>3. QED
    BY <2>1, <2>2
<1>6. \A r \in records : SaysSo(exec[e], n, r)
  BY <1>3, <1>4
<1>7. QED
  BY <1>2, <1>5, <1>6 DEF SaysSo

\* One execution goes on, the records stay.
LEMMA ExecutionGoesOn ==
  ASSUME TrailInv, NEW e \in Executions, NEW x \in ExecType,
         exec' = [exec EXCEPT ![e] = x], UNCHANGED <<policy, trail, lost>>,
         Recorded(e, x, trail, lost)
  PROVE  TrailInv'
<1>1. exec' \in [Executions -> ExecType]
  BY DEF TrailInv
<1>2. ASSUME NEW f \in Executions
      PROVE  Recorded(f, exec'[f], trail, lost)
  BY DEF TrailInv
<1>3. ASSUME NEW f \in Executions
      PROVE  Recorded(f, exec[f], trail, lost)'
  <2>1. PICK y : y = exec'[f]
    OBVIOUS
  <2>2. Recorded(f, y, trail, lost)
    BY <1>2, <2>1
  <2>3. AtWork(f, y, trail, lost) => AtWork(f, y, trail, lost)'
    BY DEF AtWork, Open
  <2>4. \A n \in 1 .. y.reads : Settled(f, y, trail, lost, n) => Settled(f, y, trail, lost, n)'
    BY DEF Settled, SaysSo
  <2>5. Recorded(f, y, trail, lost)'
    BY <2>2, <2>3, <2>4 DEF Recorded, Open
  <2>6. QED
    BY <2>1, <2>5
<1>4. QED
  BY <1>1, <1>3 DEF TrailInv

\* Where an execution is between two calls, or over, only its calls count.
LEMMA BetweenCalls ==
  ASSUME TrailInv, NEW e \in Executions, NEW x \in ExecType,
         exec[e].pc \notin {"access", "read", "record", "crashed"},
         x.pc \notin {"access", "read", "record"},
         x.reads = exec[e].reads, x.handed = exec[e].handed
  PROVE  Recorded(e, x, trail, lost)
<1>1. Recorded(e, exec[e], trail, lost)
  BY DEF TrailInv
<1>2. QED
  BY <1>1 DEF Recorded, Open, Over, Settled, SaysSo

LEMMA BetweenKeeps ==
  ASSUME TrailInv, NEW e \in Executions,
         ImportEnds(e) \/ SessionIsCreated(e) \/ PromptEnds(e) \/ TraceIsSaved(e)
           \/ StartExecution(e)
  PROVE  TrailInv'
<1>1. exec[e] \in ExecType /\ exec \in [Executions -> ExecType]
  BY DEF TrailInv
<1>2. PICK x : /\ exec' = [exec EXCEPT ![e] = x] /\ x \in ExecType
               /\ exec[e].pc \notin {"access", "read", "record", "crashed"}
               /\ x.pc \notin {"access", "read", "record"}
               /\ x.reads = exec[e].reads /\ x.handed = exec[e].handed
               /\ UNCHANGED <<policy, trail, lost>>
  <2>1. ASSUME NEW point \in {"create", "threw", "trace", "import", "saved", "prompt"},
               NEW open \in BOOLEAN,
               exec' = [exec EXCEPT ![e].pc = point, ![e].open = open]
                 \/ exec' = [exec EXCEPT ![e].pc = point]
        PROVE  \E x \in ExecType :
                 /\ exec' = [exec EXCEPT ![e] = x] /\ x.pc = point
                 /\ x.reads = exec[e].reads /\ x.handed = exec[e].handed
    <3>1. PICK x : x = [exec[e] EXCEPT !.pc = point, !.open = open]
      OBVIOUS
    <3>2. PICK y : y = [exec[e] EXCEPT !.pc = point]
      OBVIOUS
    <3>3. x \in ExecType /\ x.pc = point /\ x.reads = exec[e].reads /\ x.handed = exec[e].handed
      BY <1>1, <3>1 DEF ExecType, ExecutionPoints
    <3>4. y \in ExecType /\ y.pc = point /\ y.reads = exec[e].reads /\ y.handed = exec[e].handed
      BY <1>1, <3>2 DEF ExecType, ExecutionPoints
    <3>5. exec' = [exec EXCEPT ![e] = x] \/ exec' = [exec EXCEPT ![e] = y]
      BY <1>1, <2>1, <3>1, <3>2
    <3>6. QED
      BY <3>3, <3>4, <3>5
  <2>2. \A point \in {"create", "threw", "trace", "import", "saved", "prompt"} :
          point \notin {"access", "read", "record"}
    OBVIOUS
  <2>3. /\ UNCHANGED <<policy, trail, lost>>
        /\ exec[e].pc \in {"off", "import", "create", "prompt", "trace"}
        /\ \E point \in {"create", "threw", "trace", "import", "saved", "prompt"} :
             \E open \in BOOLEAN : \/ exec' = [exec EXCEPT ![e].pc = point, ![e].open = open]
                                   \/ exec' = [exec EXCEPT ![e].pc = point]
    <3>1. ASSUME StartExecution(e)
          PROVE  /\ UNCHANGED <<policy, trail, lost>> /\ exec[e].pc = "off"
                 /\ \E point \in {"import", "threw", "trace"} : exec' = [exec EXCEPT ![e].pc = point]
      BY <3>1 DEF StartExecution, ExecutionAt, ExecutionGoto
    <3>2. ASSUME ImportEnds(e)
          PROVE  /\ UNCHANGED <<policy, trail, lost>> /\ exec[e].pc = "import"
                 /\ \E point \in {"create", "threw"} : exec' = [exec EXCEPT ![e].pc = point]
      BY <3>2 DEF ImportEnds, ExecutionAt, ExecutionGoto
    <3>3. ASSUME SessionIsCreated(e)
          PROVE  /\ UNCHANGED <<policy, trail, lost>> /\ exec[e].pc = "create"
                 /\ \/ exec' = [exec EXCEPT ![e].pc = "prompt", ![e].open = TRUE]
                    \/ exec' = [exec EXCEPT ![e].pc = "trace"]
      BY <3>3 DEF SessionIsCreated, ExecutionAt, ExecutionGoto
    <3>4. ASSUME PromptEnds(e)
          PROVE  /\ UNCHANGED <<policy, trail, lost>> /\ exec[e].pc = "prompt"
                 /\ exec' = [exec EXCEPT ![e].pc = "trace", ![e].open = FALSE]
      BY <3>4 DEF PromptEnds, ExecutionAt
    <3>5. ASSUME TraceIsSaved(e)
          PROVE  /\ UNCHANGED <<policy, trail, lost>> /\ exec[e].pc = "trace"
                 /\ \E point \in {"saved", "threw"} : exec' = [exec EXCEPT ![e].pc = point]
      BY <3>5 DEF TraceIsSaved, ExecutionAt, ExecutionGoto
    <3>6. QED
      BY <3>1, <3>2, <3>3, <3>4, <3>5
  <2>4. QED
    BY <2>1, <2>2, <2>3
<1>3. Recorded(e, x, trail, lost)
  BY <1>2, BetweenCalls
<1>4. QED
  BY <1>2, <1>3, ExecutionGoesOn

LEMMA CallsReadKeeps ==
  ASSUME TrailInv, NEW e \in Executions, CallsRead(e)
  PROVE  TrailInv'
<1>1. /\ exec[e] \in ExecType /\ exec \in [Executions -> ExecType]
      /\ Recorded(e, exec[e], trail, lost) /\ exec[e].pc = "prompt"
      /\ UNCHANGED <<policy, trail, lost>>
  BY DEF TrailInv, CallsRead, ExecutionAt
<1>2. PICK path \in Paths :
        exec' = [exec EXCEPT ![e].pc = "access", ![e].reads = @ + 1, ![e].path = path]
  BY DEF CallsRead
<1>3. PICK x : x = [exec[e] EXCEPT !.pc = "access", !.reads = exec[e].reads + 1, !.path = path]
  OBVIOUS
<1>4. /\ x \in ExecType /\ x.pc = "access" /\ x.reads = exec[e].reads + 1
      /\ x.handed = exec[e].handed /\ x.path = path
  <2>1. exec[e].reads \in Nat
    BY <1>1 DEF ExecType
  <2>2. exec[e].reads + 1 \in Nat
    BY <2>1
  <2>3. QED
    BY <1>1, <1>3, <2>2 DEF ExecType, ExecutionPoints
<1>5. exec' = [exec EXCEPT ![e] = x]
  BY <1>1, <1>2, <1>3
<1>6. exec[e].reads \in Nat
  BY <1>1 DEF ExecType
<1>7. \A n \in Nat : n > exec[e].reads => Open(e, x, trail, lost, n)
  BY <1>1, <1>4 DEF Recorded, Open
<1>8. AtWork(e, x, trail, lost)
  <2>1. Open(e, x, trail, lost, x.reads)
    BY <1>4, <1>6, <1>7
  <2>2. QED
    BY <1>4, <1>6, <2>1 DEF AtWork
<1>9. ASSUME NEW n \in 1 .. x.reads, Over(x, n)
      PROVE  Settled(e, x, trail, lost, n)
  <2>1. n \in 1 .. exec[e].reads
    BY <1>4, <1>6, <1>9 DEF Over
  <2>2. Settled(e, exec[e], trail, lost, n)
    BY <1>1, <2>1 DEF Recorded, Over
  <2>3. QED
    BY <1>4, <2>2 DEF Settled, SaysSo
<1>10. Recorded(e, x, trail, lost)
  BY <1>4, <1>6, <1>7, <1>8, <1>9 DEF Recorded
<1>11. QED
  BY <1>1, <1>4, <1>5, <1>10, ExecutionGoesOn

\* A call goes on: what is known of the calls stays.
LEMMA CallGoesOn ==
  ASSUME TrailInv, NEW e \in Executions, NEW x \in ExecType,
         exec[e].pc \in {"access", "read", "record"},
         x.pc \in {"access", "read", "record", "crashed"},
         x.pc # "crashed" => AtWork(e, x, trail, lost),
         x.reads = exec[e].reads, x.handed = exec[e].handed
  PROVE  Recorded(e, x, trail, lost)
<1>1. Recorded(e, exec[e], trail, lost)
  BY DEF TrailInv
<1>2. ASSUME NEW n \in 1 .. x.reads, Over(x, n)
      PROVE  Settled(e, x, trail, lost, n)
  <2>1. Over(exec[e], n)
    BY <1>2 DEF Over
  <2>2. Settled(e, exec[e], trail, lost, n)
    BY <1>1, <1>2, <2>1 DEF Recorded
  <2>3. QED
    BY <2>2 DEF Settled, SaysSo
<1>3. \A n \in Nat : n > x.reads => Open(e, x, trail, lost, n)
  BY <1>1 DEF Recorded, Open
<1>4. QED
  BY <1>2, <1>3 DEF Recorded

LEMMA AccessesKeeps ==
  ASSUME TrailInv, NEW e \in Executions, Accesses(e) \/ Reads(e)
  PROVE  TrailInv'
<1>1. /\ exec[e] \in ExecType /\ exec \in [Executions -> ExecType]
      /\ exec[e].pc \in {"access", "read"} /\ AtWork(e, exec[e], trail, lost)
      /\ UNCHANGED <<policy, trail, lost>>
  BY DEF TrailInv, Recorded, Accesses, Reads, ExecutionAt
<1>2. PICK r : r = [exec[e] EXCEPT !.pc = "read"]
  OBVIOUS
<1>3. PICK d : d = [exec[e] EXCEPT !.pc = "record", !.outcome = Refused(exec[e].path)]
  OBVIOUS
<1>4. PICK a : a = [exec[e] EXCEPT !.pc = "record", !.outcome = "allowed"]
  OBVIOUS
<1>5. /\ r \in ExecType /\ r.pc = "read" /\ r.reads = exec[e].reads /\ r.handed = exec[e].handed
      /\ r.path = exec[e].path
  BY <1>1, <1>2 DEF ExecType, ExecutionPoints
<1>6. /\ d \in ExecType /\ d.pc = "record" /\ d.reads = exec[e].reads /\ d.handed = exec[e].handed
      /\ d.path = exec[e].path /\ d.outcome = Refused(exec[e].path)
  BY <1>1, <1>3 DEF ExecType, ExecutionPoints, Refused, Outcomes
<1>7. /\ a \in ExecType /\ a.pc = "record" /\ a.reads = exec[e].reads /\ a.handed = exec[e].handed
      /\ a.path = exec[e].path /\ a.outcome = "allowed"
  BY <1>1, <1>4 DEF ExecType, ExecutionPoints, Outcomes
<1>8. \/ exec' = [exec EXCEPT ![e] = r] /\ MayRead(policy, exec[e].path)
      \/ exec' = [exec EXCEPT ![e] = d]
      \/ exec' = [exec EXCEPT ![e] = a] /\ MayRead(policy, exec[e].path)
  <2>1. ASSUME Accesses(e)
        PROVE  \/ exec' = [exec EXCEPT ![e] = r] /\ MayRead(policy, exec[e].path)
               \/ exec' = [exec EXCEPT ![e] = d]
    BY <1>1, <1>2, <1>3, <2>1 DEF Accesses
  <2>2. ASSUME Reads(e)
        PROVE  \/ exec' = [exec EXCEPT ![e] = d]
               \/ exec' = [exec EXCEPT ![e] = a] /\ MayRead(policy, exec[e].path)
    <3>1. PICK good \in BOOLEAN :
            /\ exec' = [exec EXCEPT ![e].pc = "record",
                          ![e].outcome = IF good THEN "allowed" ELSE Refused(exec[e].path)]
            /\ good => MayRead(policy, exec[e].path)
      <4>1. (MayRead(policy, exec[e].path) /\ files[exec[e].path] = "small") \in BOOLEAN
        OBVIOUS
      <4>2. QED
        BY <2>2, <4>1 DEF Reads
    <3>2. QED
      BY <1>1, <1>3, <1>4, <3>1
  <2>3. QED
    BY <2>1, <2>2
<1>9. ASSUME NEW x \in {r, d, a}, x = r \/ x = a => MayRead(policy, exec[e].path)
      PROVE  AtWork(e, x, trail, lost)
  <2>1. Open(e, x, trail, lost, x.reads)
    BY <1>1, <1>5, <1>6, <1>7, <1>9 DEF AtWork, Open
  <2>2. x.path \in Paths /\ x.reads # 0
    BY <1>1, <1>5, <1>6, <1>7, <1>9 DEF AtWork
  <2>3. x.pc = "read" => MayRead(policy, x.path)
    BY <1>5, <1>6, <1>7, <1>9
  <2>4. x.pc = "record" => x.outcome \in Outcomes /\ (x.outcome = "denied" <=> ~MayRead(policy, x.path))
    BY <1>5, <1>6, <1>7, <1>9 DEF Refused, Outcomes
  <2>5. QED
    BY <2>1, <2>2, <2>3, <2>4 DEF AtWork
<1>10. PICK x \in {r, d, a} : /\ exec' = [exec EXCEPT ![e] = x]
                              /\ x = r \/ x = a => MayRead(policy, exec[e].path)
  <2>1. ASSUME exec' = [exec EXCEPT ![e] = d], ~MayRead(policy, exec[e].path)
        PROVE  d # r /\ d # a
    <3>1. Refused(exec[e].path) = "denied"
      BY <2>1 DEF Refused
    <3>2. QED
      BY <1>5, <1>6, <1>7, <3>1
  <2>2. QED
    BY <1>8, <2>1
<1>11. x \in ExecType /\ x.pc \in {"read", "record"} /\ x.reads = exec[e].reads /\ x.handed = exec[e].handed
  BY <1>5, <1>6, <1>7
<1>12. AtWork(e, x, trail, lost)
  BY <1>9, <1>10
<1>13. Recorded(e, x, trail, lost)
  BY <1>1, <1>11, <1>12, CallGoesOn
<1>14. QED
  BY <1>1, <1>10, <1>11, <1>13, ExecutionGoesOn

LEMMA CrashKeepsTrail ==
  ASSUME TrailInv, NEW e \in Executions, ExecutionCrashes(e)
  PROVE  TrailInv'
<1>1. /\ exec[e] \in ExecType /\ exec \in [Executions -> ExecType]
      /\ exec[e].pc # "crashed" /\ UNCHANGED <<policy, trail, lost>>
      /\ exec' = [exec EXCEPT ![e].pc = "crashed", ![e].open = FALSE]
  BY DEF TrailInv, ExecutionCrashes
<1>2. PICK x : x = [exec[e] EXCEPT !.pc = "crashed", !.open = FALSE]
  OBVIOUS
<1>3. x \in ExecType /\ x.pc = "crashed" /\ x.reads = exec[e].reads /\ x.handed = exec[e].handed
  BY <1>1, <1>2 DEF ExecType, ExecutionPoints
<1>4. exec' = [exec EXCEPT ![e] = x]
  BY <1>1, <1>2
<1>5. Recorded(e, x, trail, lost)
  BY <1>1, <1>3, BetweenCalls, CallGoesOn
<1>6. QED
  BY <1>1, <1>3, <1>4, <1>5, ExecutionGoesOn

\* The record of a call is written, or lost, and the tool ends.
LEMMA CallEnds ==
  ASSUME TrailInv, NEW e \in Executions, ExecutionAt(e, "record"), ToolReturns(e),
         UNCHANGED policy,
         \/ /\ trail' = trail \cup {[call |-> ThisCall(e), path |-> exec[e].path,
                                     outcome |-> exec[e].outcome]}
            /\ lost' = lost
         \/ trail' = trail /\ lost' = lost \cup {ThisCall(e)}
  PROVE  TrailInv'
<1>1. /\ exec[e] \in ExecType /\ exec \in [Executions -> ExecType]
      /\ Recorded(e, exec[e], trail, lost) /\ exec[e].pc = "record"
  BY DEF TrailInv, ExecutionAt
<1>2. AtWork(e, exec[e], trail, lost) /\ exec[e].reads \in Nat
  BY <1>1 DEF Recorded, ExecType
<1>3. PICK m \in Nat : m = exec[e].reads
  BY <1>2
<1>4. PICK handed : handed = IF exec[e].outcome = "allowed" THEN exec[e].handed \cup {m} ELSE exec[e].handed
  OBVIOUS
<1>5. PICK x : x = [exec[e] EXCEPT !.pc = "prompt", !.handed = handed]
  OBVIOUS
<1>6. handed \in SUBSET Nat
  BY <1>1, <1>4 DEF ExecType
<1>7. x \in ExecType /\ x.pc = "prompt" /\ x.reads = m /\ x.handed = handed
  BY <1>1, <1>3, <1>5, <1>6 DEF ExecType, ExecutionPoints
<1>8. exec' = [exec EXCEPT ![e] = x]
  BY <1>1, <1>3, <1>4, <1>5 DEF ToolReturns
<1>9. PICK new : new = [call |-> <<e, m>>, path |-> exec[e].path, outcome |-> exec[e].outcome]
  OBVIOUS
<1>10. /\ exec[e].path \in Paths /\ exec[e].outcome \in Outcomes /\ m # 0
       /\ exec[e].outcome = "denied" <=> ~MayRead(policy, exec[e].path)
       /\ Open(e, exec[e], trail, lost, m)
  BY <1>1, <1>2, <1>3 DEF AtWork
<1>11. /\ new \in RecordType /\ new.call = <<e, m>>
       /\ new.outcome = exec[e].outcome /\ new.path = exec[e].path
  BY <1>9, <1>10 DEF RecordType
<1>12. PICK tr, lo : tr = trail' /\ lo = lost'
  OBVIOUS
<1>13. \/ tr = trail \cup {new} /\ lo = lost
       \/ tr = trail /\ lo = lost \cup {<<e, m>>}
  BY <1>3, <1>9, <1>12 DEF ThisCall
<1>14. \A f, n : <<f, n>> # <<e, m>> =>
         /\ <<f, n>> \in lo <=> <<f, n>> \in lost
         /\ \A r \in tr : r.call = <<f, n>> => r \in trail
         /\ trail \subseteq tr
  BY <1>11, <1>13
<1>15. ASSUME NEW f \in Executions, NEW y, NEW n, <<f, n>> # <<e, m>>
       PROVE  /\ Settled(f, y, trail, lost, n) => Settled(f, y, tr, lo, n)
              /\ Open(f, y, trail, lost, n) => Open(f, y, tr, lo, n)
  BY <1>14, <1>15 DEF Settled, Open
<1>16. Settled(e, x, tr, lo, m)
  <2>1. <<e, m>> \notin lost /\ m \notin exec[e].handed /\ \A r \in trail : r.call # <<e, m>>
    BY <1>10 DEF Open
  <2>2. ASSUME tr = trail /\ lo = lost \cup {<<e, m>>}
        PROVE  Settled(e, x, tr, lo, m)
    BY <2>1, <2>2 DEF Settled
  <2>3. ASSUME tr = trail \cup {new} /\ lo = lost
        PROVE  Settled(e, x, tr, lo, m)
    <3>1. SaysSo(x, m, new)
      BY <1>4, <1>7, <1>10, <1>11, <2>1 DEF SaysSo
    <3>2. QED
      BY <1>11, <2>1, <2>3, <3>1 DEF Settled
  <2>4. QED
    BY <1>13, <2>2, <2>3
<1>17. Recorded(e, x, tr, lo)
  <2>1. ASSUME NEW n \in Nat, n > m
        PROVE  Open(e, x, tr, lo, n)
    <3>1. Open(e, exec[e], trail, lost, n)
      BY <1>1, <1>3, <2>1 DEF Recorded
    <3>2. <<e, n>> # <<e, m>>
      BY <2>1
    <3>3. Open(e, exec[e], tr, lo, n)
      BY <1>15, <3>1, <3>2
    <3>4. n \notin handed
      BY <1>4, <2>1, <3>1 DEF Open
    <3>5. QED
      BY <1>7, <3>3, <3>4 DEF Open
  <2>2. ASSUME NEW n \in 1 .. m
        PROVE  Settled(e, x, tr, lo, n)
    <3>1. ASSUME n # m
          PROVE  Settled(e, x, tr, lo, n)
      <4>1. n < m
        BY <2>2, <3>1
      <4>2. Settled(e, exec[e], trail, lost, n)
        BY <1>1, <1>3, <4>1 DEF Recorded, Over
      <4>3. Settled(e, exec[e], tr, lo, n)
        BY <1>15, <3>1, <4>2
      <4>4. n \in exec[e].handed <=> n \in x.handed
        BY <1>4, <1>7, <3>1
      <4>5. QED
        BY <4>3, <4>4 DEF Settled, SaysSo
    <3>2. QED
      BY <1>16, <3>1
  <2>3. QED
    BY <1>7, <2>1, <2>2 DEF Recorded
<1>18. ASSUME NEW f \in Executions, f # e
       PROVE  Recorded(f, exec[f], tr, lo)
  <2>1. Recorded(f, exec[f], trail, lost)
    BY DEF TrailInv
  <2>2. \A n : <<f, n>> # <<e, m>>
    BY <1>18
  <2>3. \A n \in Nat : n > exec[f].reads => Open(f, exec[f], tr, lo, n)
    BY <1>15, <2>1, <2>2 DEF Recorded
  <2>4. \A n \in 1 .. exec[f].reads : Over(exec[f], n) => Settled(f, exec[f], tr, lo, n)
    BY <1>15, <2>1, <2>2 DEF Recorded
  <2>5. AtWork(f, exec[f], trail, lost) => AtWork(f, exec[f], tr, lo)
    BY <1>15, <2>2 DEF AtWork
  <2>6. QED
    BY <2>1, <2>3, <2>4, <2>5 DEF Recorded
<1>19. ASSUME NEW f \in Executions
       PROVE  Recorded(f, exec[f], trail, lost)'
  <2>1. PICK y : y = exec'[f]
    OBVIOUS
  <2>2. Recorded(f, y, tr, lo)
    BY <1>1, <1>8, <1>17, <1>18, <2>1
  <2>3. AtWork(f, y, tr, lo) => AtWork(f, y, tr, lo)'
    BY DEF AtWork, Open
  <2>4. \A n \in 1 .. y.reads : Settled(f, y, tr, lo, n) => Settled(f, y, tr, lo, n)'
    BY DEF Settled, SaysSo
  <2>5. Recorded(f, y, tr, lo)'
    BY <2>2, <2>3, <2>4 DEF Recorded, Open
  <2>6. QED
    BY <1>12, <2>1, <2>5
<1>20. exec' \in [Executions -> ExecType] /\ trail' \subseteq RecordType
  BY <1>1, <1>7, <1>8, <1>11, <1>12, <1>13 DEF TrailInv
<1>21. QED
  BY <1>19, <1>20 DEF TrailInv

LEMMA RuntimeKeepsTrail ==
  TrailInv /\ [RuntimeNext]_runtimeVars => TrailInv'
<1> SUFFICES ASSUME TrailInv, [RuntimeNext]_runtimeVars
             PROVE  TrailInv'
  OBVIOUS
<1>1. ASSUME UNCHANGED <<policy, exec, trail, lost>>
      PROVE  TrailInv'
  <2>1. ASSUME NEW f \in Executions
        PROVE  Recorded(f, exec[f], trail, lost)'
    <3>1. PICK y : y = exec[f]
      OBVIOUS
    <3>2. Recorded(f, y, trail, lost)
      BY <3>1 DEF TrailInv
    <3>3. AtWork(f, y, trail, lost) => AtWork(f, y, trail, lost)'
      BY <1>1 DEF AtWork, Open
    <3>4. \A n \in 1 .. y.reads : Settled(f, y, trail, lost, n) => Settled(f, y, trail, lost, n)'
      BY <1>1 DEF Settled, SaysSo
    <3>5. Recorded(f, y, trail, lost)'
      BY <1>1, <3>2, <3>3, <3>4 DEF Recorded, Open
    <3>6. QED
      BY <1>1, <3>1, <3>5
  <2>2. QED
    BY <1>1, <2>1 DEF TrailInv
<1>2. ASSUME NEW e \in Executions, RecordIsWritten(e) \/ RecordIsLost(e)
      PROVE  TrailInv'
  BY <1>2, CallEnds DEF RecordIsWritten, RecordIsLost
<1>3. ASSUME NEW e \in Executions, ExecutionStep(e)
      PROVE  TrailInv'
  BY <1>2, <1>3, BetweenKeeps, AccessesKeeps DEF ExecutionStep
<1>4. ASSUME NEW path \in Paths, Rewritten(path)
      PROVE  TrailInv'
  BY <1>1, <1>4 DEF Rewritten
<1>5. ASSUME UNCHANGED runtimeVars
      PROVE  TrailInv'
  BY <1>1, <1>5 DEF runtimeVars
<1>6. QED
  BY <1>2, <1>3, <1>4, <1>5, BetweenKeeps, CallsReadKeeps, CrashKeepsTrail DEF RuntimeNext

LEMMA RuntimeInitHasTrail == RuntimeInit => TrailInv
<1> SUFFICES ASSUME RuntimeInit
             PROVE  TrailInv
  OBVIOUS
<1>1. NotStarted \in ExecType /\ NotStarted.reads = 0 /\ NotStarted.pc = "off" /\ NotStarted.handed = {}
  BY DEF NotStarted, ExecType, ExecutionPoints
<1>2. \A e \in Executions : Recorded(e, NotStarted, {}, {})
  BY <1>1 DEF Recorded, Open
<1>3. QED
  BY <1>1, <1>2 DEF RuntimeInit, TrailInv

\* The read tool of PiRuntimeAdapter, for any number of executions and files that
\* change at any moment: each call that is over has its record, which says what came
\* of it, unless the record could not be written.
THEOREM CallsAreRecorded == RuntimeSpec => []EveryCallIsRecorded
<1>1. RuntimeInit => TrailInv
  BY RuntimeInitHasTrail
<1>2. TrailInv => EveryCallIsRecorded
  BY TrailSuffices
<1>3. QED
  BY <1>1, <1>2, RuntimeKeepsTrail, PTL DEF RuntimeSpec

--------------------------------------------------------------------------------
(* Grants and executions                                                   *)

\* An execution that got past its start did so under an envelope that is accepted
\* and has the workspace in it; its calls are of a tool it was given.
Enveloped(x) ==
  /\ x.pc \notin {"off", "threw"} \/ x.reads # 0 => Accepts(policy) /\ MayRead(policy, Root)
  /\ x.reads # 0 => "workspace.read" \in policy.capabilities

GrantInv ==
  /\ policy \in Policies /\ exec \in [Executions -> ExecType]
  /\ \A e \in Executions : Enveloped(exec[e])

LEMMA ExecutionMoves ==
  ASSUME GrantInv, NEW e \in Executions, NEW x \in ExecType,
         exec' = [exec EXCEPT ![e] = x], policy' = policy, Enveloped(x)
  PROVE  GrantInv'
<1>1. \A f \in Executions : Enveloped(exec'[f])
  BY DEF GrantInv
<1>2. \A f \in Executions : Enveloped(exec[f])'
  BY <1>1 DEF Enveloped
<1>3. QED
  BY <1>2 DEF GrantInv

LEMMA RuntimeKeepsGrants ==
  ASSUME GrantInv, TrailInv', [RuntimeNext]_runtimeVars
  PROVE  GrantInv'
<1>1. policy' = policy /\ exec \in [Executions -> ExecType] /\ exec' \in [Executions -> ExecType]
  BY PolicyStays DEF GrantInv, TrailInv
<1>2. ASSUME exec' = exec
      PROVE  GrantInv'
  BY <1>1, <1>2 DEF GrantInv, Enveloped
<1>3. ASSUME NEW e \in Executions,
             StartExecution(e) \/ CallsRead(e) \/ RecordIsLost(e) \/ ExecutionStep(e)
               \/ ExecutionCrashes(e)
      PROVE  GrantInv'
  <2>1. exec[e] \in ExecType /\ exec'[e] \in ExecType /\ Enveloped(exec[e])
    BY <1>1 DEF GrantInv
  <2>2. exec' = [exec EXCEPT ![e] = exec'[e]]
    <3>1. \A f \in Executions \ {e} : exec'[f] = exec[f]
      BY <1>1, <1>3 DEF StartExecution, CallsRead, RecordIsLost, ExecutionStep, ExecutionCrashes,
           ImportEnds, SessionIsCreated, Accesses, Reads, RecordIsWritten, PromptEnds,
           TraceIsSaved, ToolReturns, ExecutionGoto
    <3>2. QED
      BY <1>1, <3>1
  <2>3. CASE StartExecution(e)
    <3>1. /\ exec[e].pc = "off" /\ exec'[e].reads = exec[e].reads
          /\ exec'[e].pc # "threw" => Accepts(policy) /\ MayRead(policy, Root)
      BY <1>1, <2>3 DEF StartExecution, ExecutionAt, ExecutionGoto
    <3>2. Enveloped(exec'[e])
      BY <2>1, <3>1 DEF Enveloped
    <3>3. QED
      BY <1>1, <2>1, <2>2, <3>2, ExecutionMoves
  <2>4. CASE CallsRead(e)
    <3>1. exec[e].pc = "prompt" /\ "workspace.read" \in policy.capabilities
      BY <2>4 DEF CallsRead, ExecutionAt
    <3>2. Enveloped(exec'[e])
      BY <2>1, <3>1 DEF Enveloped
    <3>3. QED
      BY <1>1, <2>1, <2>2, <3>2, ExecutionMoves
  <2>5. CASE RecordIsLost(e) \/ ExecutionStep(e) \/ ExecutionCrashes(e)
    <3>1. /\ exec[e].pc \notin {"off", "threw"}
          /\ exec'[e].reads = exec[e].reads
      <4>1. CASE RecordIsLost(e) \/ RecordIsWritten(e)
        <5>1. exec[e].pc = "record" /\ ToolReturns(e)
          BY <4>1 DEF RecordIsLost, RecordIsWritten, ExecutionAt
        <5>2. PICK handed : exec' = [exec EXCEPT ![e].pc = "prompt", ![e].handed = handed]
          BY <5>1 DEF ToolReturns
        <5>3. QED
          BY <1>1, <2>1, <5>1, <5>2 DEF ExecType
      <4>2. CASE Accesses(e) \/ Reads(e)
        <5>1. exec[e].pc \in {"access", "read"}
          BY <4>2 DEF Accesses, Reads, ExecutionAt
        <5>2. PICK outcome : \/ exec' = [exec EXCEPT ![e].pc = "read"]
                             \/ exec' = [exec EXCEPT ![e].pc = "record", ![e].outcome = outcome]
          BY <4>2 DEF Accesses, Reads
        <5>3. ASSUME exec' = [exec EXCEPT ![e].pc = "read"]
              PROVE  exec'[e].reads = exec[e].reads
          BY <1>1, <2>1, <5>3 DEF ExecType
        <5>4. ASSUME exec' = [exec EXCEPT ![e].pc = "record", ![e].outcome = outcome]
              PROVE  exec'[e].reads = exec[e].reads
          BY <1>1, <2>1, <5>4 DEF ExecType
        <5>5. QED
          BY <5>1, <5>2, <5>3, <5>4
      <4>3. CASE ImportEnds(e) \/ SessionIsCreated(e) \/ PromptEnds(e) \/ TraceIsSaved(e)
        <5>1. exec[e].pc \in {"import", "create", "prompt", "trace"}
          BY <4>3 DEF ImportEnds, SessionIsCreated, PromptEnds, TraceIsSaved, ExecutionAt
        <5>2. PICK point, open : \/ exec' = [exec EXCEPT ![e].pc = point]
                                 \/ exec' = [exec EXCEPT ![e].pc = point, ![e].open = open]
          BY <4>3 DEF ImportEnds, SessionIsCreated, PromptEnds, TraceIsSaved, ExecutionGoto
        <5>3. ASSUME exec' = [exec EXCEPT ![e].pc = point]
              PROVE  exec'[e].reads = exec[e].reads
          BY <1>1, <2>1, <5>3 DEF ExecType
        <5>4. ASSUME exec' = [exec EXCEPT ![e].pc = point, ![e].open = open]
              PROVE  exec'[e].reads = exec[e].reads
          BY <1>1, <2>1, <5>4 DEF ExecType
        <5>5. QED
          BY <5>1, <5>2, <5>3, <5>4
      <4>4. CASE ExecutionCrashes(e)
        <5>1. /\ exec[e].pc \notin {"off", "threw"}
              /\ exec' = [exec EXCEPT ![e].pc = "crashed", ![e].open = FALSE]
          BY <4>4 DEF ExecutionCrashes
        <5>2. QED
          BY <1>1, <2>1, <5>1 DEF ExecType
      <4>5. QED
        BY <2>5, <4>1, <4>2, <4>3, <4>4 DEF ExecutionStep
    <3>2. Enveloped(exec'[e])
      BY <2>1, <3>1 DEF Enveloped
    <3>3. QED
      BY <1>1, <2>1, <2>2, <3>2, ExecutionMoves
  <2>6. QED
    BY <1>3, <2>3, <2>4, <2>5
<1>4. QED
  BY <1>2, <1>3 DEF RuntimeNext, runtimeVars, Rewritten

LEMMA GrantsSuffice ==
  ASSUME GrantInv
  PROVE  GrantsAreExact
<1>1. Accepts(policy) => ListedIsUsable(policy)
  BY AcceptedIsUsable DEF GrantInv
<1>2. ASSUME NEW e \in Executions, Started(e), NEW path \in Paths
      PROVE  MayRead(policy, path) <=> Within(Root, path)
  BY <1>2, AllowedRootIsAll DEF GrantInv, Enveloped, Started
<1>3. \A e \in Executions : exec[e].reads # 0 => "workspace.read" \in policy.capabilities
  BY DEF GrantInv, Enveloped
<1>4. QED
  BY <1>1, <1>2, <1>3 DEF GrantsAreExact, ListedIsUsable

\* createExecutionEnvironment, the guards, and the start of an execution in
\* createRuntimeEnvironment and PiRuntimeAdapter, for every policy: what is listed is
\* let through and nothing else is, and executions read the workspace or nothing.
THEOREM GrantsAreKept == RuntimeSpec => []GrantsAreExact
<1>1. RuntimeInit => GrantInv
  <2>1. NotStarted \in ExecType /\ NotStarted.reads = 0 /\ NotStarted.pc = "off"
    BY DEF NotStarted, ExecType, ExecutionPoints
  <2>2. QED
    BY <2>1 DEF RuntimeInit, GrantInv, Enveloped
<1>2. TrailInv /\ GrantInv /\ [RuntimeNext]_runtimeVars => GrantInv'
  BY RuntimeKeepsTrail, RuntimeKeepsGrants
<1>3. GrantInv => GrantsAreExact
  BY GrantsSuffice
<1>4. QED
  BY <1>1, <1>2, <1>3, RuntimeInitHasTrail, RuntimeKeepsTrail, PTL DEF RuntimeSpec

--------------------------------------------------------------------------------
(* The registry and its default                                            *)

\* A Map: one connector for each name.
RegistryStands ==
  /\ registry \in Seq(Connectors)
  /\ \A i, j \in DOMAIN registry : NameOf[registry[i]] = NameOf[registry[j]] => i = j
  /\ IF registry = <<>> THEN default = NoName ELSE Position(default) # {}

CallStands(t) ==
  /\ t.pc = "asked" => t.asked[Len(t.asked)] \in online
  /\ t.pc \in {"asked", "streaming", "answered"} => t.asked # <<>>
  /\ Len(t.asked) <= 2
  /\ \A i, j \in DOMAIN t.asked : t.asked[i] = t.asked[j] => i = j

AiInv ==
  /\ RegistryStands
  /\ call \in [Callers -> Call]
  /\ \A c \in Callers : CallStands(call[c])

LEMMA NamesAreNames == \A k \in Connectors : NameOf[k] \in Names /\ NameOf[k] # NoName
BY AiAssumption DEF Names

LEMMA StandingRegistry ==
  ASSUME AiInv
  PROVE  ProvidersStand
<1>1. ASSUME registry # <<>>
      PROVE  Cardinality(DefaultConnector) = 1
  <2>1. PICK i \in DOMAIN registry : NameOf[registry[i]] = default
    BY <1>1 DEF AiInv, RegistryStands, Position
  <2>2. Position(default) = {i}
    BY <2>1 DEF AiInv, RegistryStands, Position
  <2>3. DefaultConnector = {registry[i]}
    BY <2>2 DEF DefaultConnector, Named
  <2>4. QED
    BY <2>3, FS_Singleton
<1>2. ASSUME NEW c \in Callers
      PROVE  /\ call[c].pc = "asked" => Asked(c) \in online
             /\ Len(call[c].asked) <= 2 /\ S!IsInjective(call[c].asked)
  BY DEF AiInv, CallStands, Asked, S!IsInjective
<1>3. QED
  BY <1>1, <1>2 DEF ProvidersStand, AiInv, RegistryStands

\* The registry changes, the calls stay.
LEMMA RegistryChanges ==
  ASSUME AiInv, RegistryStands', call' = call, online \subseteq online'
  PROVE  AiInv'
<1>1. ASSUME NEW c \in Callers
      PROVE  CallStands(call[c])'
  BY DEF AiInv, CallStands
<1>2. QED
  BY <1>1 DEF AiInv

\* One call changes, the registry stays.
LEMMA OneCallChanges ==
  ASSUME AiInv, NEW c \in Callers, NEW t \in Call, call' = [call EXCEPT ![c] = t],
         UNCHANGED <<registry, default>>, online \subseteq online', CallStands(t)'
  PROVE  AiInv'
<1>1. \A d \in Callers : call'[d] = IF d = c THEN t ELSE call[d]
  BY DEF AiInv
<1>2. ASSUME NEW d \in Callers
      PROVE  CallStands(call[d])'
  <2>1. ASSUME d # c
        PROVE  CallStands(call[d])'
    BY <1>1, <2>1 DEF AiInv, CallStands
  <2>2. QED
    BY <1>1, <2>1 DEF CallStands
<1>3. RegistryStands'
  BY DEF AiInv, RegistryStands, Position
<1>4. call' \in [Callers -> Call]
  BY DEF AiInv
<1>5. QED
  BY <1>2, <1>3, <1>4 DEF AiInv

LEMMA RegisterKeeps ==
  ASSUME AiInv, NEW k \in Connectors, Register(k)
  PROVE  AiInv'
<1>1. /\ registry \in Seq(Connectors) /\ RegistryStands /\ call' = call /\ online' = online
      /\ default' = IF default = NoName THEN NameOf[k] ELSE default
      /\ registry' = IF Position(NameOf[k]) = {} THEN Append(registry, k)
                     ELSE [i \in DOMAIN registry |-> IF i \in Position(NameOf[k]) THEN k ELSE registry[i]]
  BY DEF Register, AiInv, RegistryStands
<1>2. PICK n \in Nat : n = Len(registry) /\ DOMAIN registry = 1 .. n
  BY <1>1
<1>3. registry = <<>> <=> n = 0
  BY <1>1, <1>2
<1>4. NameOf[k] # NoName
  BY NamesAreNames
<1>5. ASSUME Position(NameOf[k]) = {}
      PROVE  RegistryStands'
  <2>1. /\ registry' \in Seq(Connectors) /\ DOMAIN registry' = 1 .. (n + 1)
        /\ registry'[n + 1] = k /\ \A i \in 1 .. n : registry'[i] = registry[i]
    BY <1>1, <1>2, <1>5
  <2>2. \A i \in 1 .. n : NameOf[registry[i]] # NameOf[k]
    BY <1>2, <1>5 DEF Position
  <2>3. \A i \in 1 .. (n + 1) : i = n + 1 \/ i \in 1 .. n
    BY <1>2
  <2>4. \A i, j \in DOMAIN registry' : NameOf[registry'[i]] = NameOf[registry'[j]] => i = j
    BY <1>1, <1>2, <2>1, <2>2, <2>3 DEF RegistryStands
  <2>5. registry' # <<>> /\ 1 .. n \subseteq 1 .. (n + 1) /\ n + 1 \in 1 .. (n + 1)
    BY <2>1
  <2>6. \E i \in DOMAIN registry' : NameOf[registry'[i]] = default'
    <3>1. ASSUME registry = <<>>
          PROVE  NameOf[registry'[n + 1]] = default'
      BY <1>1, <2>1, <3>1 DEF RegistryStands
    <3>2. ASSUME registry # <<>>
          PROVE  \E i \in 1 .. n : NameOf[registry'[i]] = default'
      <4>1. PICK i \in 1 .. n : NameOf[registry[i]] = default
        BY <1>1, <1>2, <3>2 DEF RegistryStands, Position
      <4>2. registry[i] \in Connectors
        BY <1>1, <1>2
      <4>3. default # NoName
        BY <4>1, <4>2, NamesAreNames
      <4>4. default' = default
        BY <1>1, <4>3
      <4>5. NameOf[registry'[i]] = default'
        BY <2>1, <4>1, <4>4
      <4>6. QED
        BY <4>5
    <3>3. QED
      BY <2>1, <2>5, <3>1, <3>2
  <2>7. QED
    BY <2>1, <2>4, <2>5, <2>6 DEF RegistryStands, Position
<1>6. ASSUME NEW p \in Position(NameOf[k])
      PROVE  RegistryStands'
  <2>1. p \in 1 .. n /\ NameOf[registry[p]] = NameOf[k]
    BY <1>2, <1>6 DEF Position
  <2>2. /\ DOMAIN registry' = 1 .. n /\ registry' \in [1 .. n -> Connectors]
        /\ \A i \in 1 .. n : NameOf[registry'[i]] = NameOf[registry[i]]
    <3>1. registry' = [i \in 1 .. n |-> IF i \in Position(NameOf[k]) THEN k ELSE registry[i]]
      BY <1>1, <1>2, <1>6
    <3>2. \A i \in 1 .. n : registry[i] \in Connectors
      BY <1>1, <1>2
    <3>3. \A i \in Position(NameOf[k]) : NameOf[registry[i]] = NameOf[k]
      BY DEF Position
    <3>4. QED
      BY <3>1, <3>2, <3>3
  <2>3. registry' \in Seq(Connectors) /\ registry' # <<>>
    BY <2>1, <2>2
  <2>4. \A i, j \in DOMAIN registry' : NameOf[registry'[i]] = NameOf[registry'[j]] => i = j
    BY <1>1, <1>2, <2>2 DEF RegistryStands
  <2>5. PICK i \in 1 .. n : NameOf[registry[i]] = default
    BY <1>1, <1>2, <1>3, <2>1 DEF RegistryStands, Position
  <2>6. default # NoName
    <3>1. registry[i] \in Connectors
      BY <1>1, <1>2
    <3>2. QED
      BY <2>5, <3>1, NamesAreNames
  <2>7. NameOf[registry'[i]] = default'
    BY <1>1, <2>2, <2>5, <2>6
  <2>8. QED
    BY <2>2, <2>3, <2>4, <2>7 DEF RegistryStands, Position
<1>7. QED
  BY <1>1, <1>5, <1>6, RegistryChanges

LEMMA UnregisterKeeps ==
  ASSUME AiInv, NEW name \in Names, Unregister(name)
  PROVE  AiInv'
<1>1. /\ registry \in Seq(Connectors) /\ RegistryStands /\ call' = call /\ online' = online
      /\ default' = IF default # name THEN default
                    ELSE IF registry' = <<>> THEN NoName ELSE NameOf[registry'[1]]
      /\ \/ Position(name) = {} /\ registry' = registry
         \/ \E i \in Position(name) :
              registry' = SubSeq(registry, 1, i - 1) \o SubSeq(registry, i + 1, Len(registry))
  BY DEF Unregister, AiInv, RegistryStands
<1>2. name # NoName
  BY NamesAreNames, AiAssumption DEF Names
<1>3. PICK n \in Nat : n = Len(registry) /\ DOMAIN registry = 1 .. n
  BY <1>1
<1>4. ASSUME Position(name) = {}, registry' = registry
      PROVE  RegistryStands'
  <2>1. default # name
    BY <1>1, <1>2, <1>4 DEF RegistryStands
  <2>2. default' = default
    BY <1>1, <2>1
  <2>3. QED
    BY <1>1, <1>4, <2>2 DEF RegistryStands, Position
<1>5. ASSUME NEW p \in Position(name),
             registry' = SubSeq(registry, 1, p - 1) \o SubSeq(registry, p + 1, Len(registry))
      PROVE  RegistryStands'
  <2>1. p \in 1 .. n /\ NameOf[registry[p]] = name
    BY <1>3, <1>5 DEF Position
  <2>2. PICK a : a = SubSeq(registry, 1, p - 1)
    OBVIOUS
  <2>3. PICK b : b = SubSeq(registry, p + 1, n)
    OBVIOUS
  <2>4. /\ a \in Seq(Connectors) /\ Len(a) = p - 1
        /\ \A i \in 1 .. (p - 1) : a[i] = registry[i]
    BY <1>1, <1>3, <2>1, <2>2
  <2>5. /\ b \in Seq(Connectors) /\ Len(b) = n - p
        /\ \A i \in 1 .. (n - p) : b[i] = registry[p + i]
    BY <1>1, <1>3, <2>1, <2>3
  <2>6. registry' = a \o b
    BY <1>3, <1>5, <2>2, <2>3
  <2>7. /\ registry' \in Seq(Connectors) /\ Len(registry') = n - 1
        /\ \A i \in 1 .. (n - 1) : registry'[i] = IF i < p THEN registry[i] ELSE registry[i + 1]
    <3>1. registry' \in Seq(Connectors) /\ Len(registry') = (p - 1) + (n - p)
      <4>1. a \o b \in Seq(Connectors) /\ Len(a \o b) = Len(a) + Len(b)
        BY <2>4, <2>5
      <4>2. QED
        BY <2>4, <2>5, <2>6, <4>1
    <3>2. (p - 1) + (n - p) = n - 1
      BY <2>1
    <3>3. ASSUME NEW i \in 1 .. (n - 1), i < p
          PROVE  registry'[i] = registry[i]
      <4>1. i \in 1 .. Len(a) /\ i \in 1 .. (p - 1)
        BY <2>1, <2>4, <3>3
      <4>2. (a \o b)[i] = a[i]
        BY <2>4, <2>5, <4>1
      <4>3. QED
        BY <2>4, <2>6, <4>1, <4>2
    <3>4. ASSUME NEW i \in 1 .. (n - 1), ~(i < p)
          PROVE  registry'[i] = registry[i + 1]
      <4>1. /\ i \in (Len(a) + 1) .. (Len(a) + Len(b)) /\ i - (p - 1) \in 1 .. (n - p)
            /\ p + (i - (p - 1)) = i + 1
        BY <2>1, <2>4, <2>5, <3>4
      <4>2. (a \o b)[i] = b[i - Len(a)]
        BY <2>4, <2>5, <4>1
      <4>3. QED
        BY <2>4, <2>5, <2>6, <4>1, <4>2
    <3>5. QED
      BY <3>1, <3>2, <3>3, <3>4
  <2>8. DOMAIN registry' = 1 .. (n - 1)
    BY <2>7
  <2>9. \A i \in 1 .. (n - 1) : i \in 1 .. n /\ i + 1 \in 1 .. n
    BY <2>1
  <2>10. \A i, j \in DOMAIN registry' : NameOf[registry'[i]] = NameOf[registry'[j]] => i = j
    <3>1. \A i, j \in 1 .. n : NameOf[registry[i]] = NameOf[registry[j]] => i = j
      BY <1>1, <1>3 DEF RegistryStands
    <3>2. ASSUME NEW i \in 1 .. (n - 1), NEW j \in 1 .. (n - 1),
                 NameOf[registry'[i]] = NameOf[registry'[j]]
          PROVE  i = j
      <4>1. PICK i2 : i2 = IF i < p THEN i ELSE i + 1
        OBVIOUS
      <4>2. PICK j2 : j2 = IF j < p THEN j ELSE j + 1
        OBVIOUS
      <4>3. registry'[i] = registry[i2] /\ registry'[j] = registry[j2] /\ i2 \in 1 .. n /\ j2 \in 1 .. n
        BY <2>7, <2>9, <4>1, <4>2
      <4>4. i2 = j2
        BY <3>1, <3>2, <4>3
      <4>5. QED
        BY <2>1, <4>1, <4>2, <4>4
    <3>3. QED
      BY <2>8, <3>2
  <2>11. ASSUME default # name
         PROVE  registry' # <<>> /\ \E i \in 1 .. (n - 1) : NameOf[registry'[i]] = default'
    <3>1. PICK d \in 1 .. n : NameOf[registry[d]] = default
      BY <1>1, <1>3, <2>1 DEF RegistryStands, Position
    <3>2. d # p
      BY <2>1, <2>11, <3>1
    <3>3. PICK i \in 1 .. (n - 1) : d = IF i < p THEN i ELSE i + 1
      <4>1. ASSUME d < p
            PROVE  d \in 1 .. (n - 1)
        BY <2>1, <4>1
      <4>2. ASSUME ~(d < p)
            PROVE  d - 1 \in 1 .. (n - 1) /\ ~(d - 1 < p) /\ d = (d - 1) + 1
        BY <2>1, <3>2, <4>2
      <4>3. QED
        BY <4>1, <4>2
    <3>4. NameOf[registry'[i]] = default'
      BY <1>1, <2>7, <2>11, <3>1, <3>3
    <3>5. registry' # <<>>
      BY <2>8, <3>3
    <3>6. QED
      BY <3>4, <3>5
  <2>12. ASSUME default = name, registry' # <<>>
         PROVE  \E i \in 1 .. (n - 1) : NameOf[registry'[i]] = default'
    <3>1. 1 \in 1 .. (n - 1)
      <4>1. Len(registry') # 0
        BY <2>7, <2>12
      <4>2. QED
        BY <2>1, <2>7, <4>1
    <3>2. QED
      BY <1>1, <2>12, <3>1
  <2>13. default = name /\ registry' = <<>> => default' = NoName
    BY <1>1
  <2>14. QED
    BY <2>7, <2>8, <2>10, <2>11, <2>12, <2>13 DEF RegistryStands, Position
<1>6. QED
  BY <1>1, <1>4, <1>5, RegistryChanges

LEMMA RegistryStepKeeps ==
  ASSUME AiInv, RegistryStep
  PROVE  AiInv'
<1>1. ASSUME NEW name \in Names, SetDefault(name)
      PROVE  AiInv'
  <2>1. RegistryStands'
    <3>1. registry' = registry /\ RegistryStands /\ default' = IF Named(name) # {} THEN name ELSE default
      BY <1>1 DEF SetDefault, AiInv
    <3>2. Named(name) # {} => Position(name) # {} /\ registry # <<>>
      BY DEF Named, Position
    <3>3. QED
      BY <3>1, <3>2 DEF RegistryStands, Position
  <2>2. QED
    BY <1>1, <2>1, RegistryChanges DEF SetDefault
<1>2. ASSUME NEW name \in Names, ConnectProvider(name)
      PROVE  AiInv'
  <2>1. RegistryStands'
    BY <1>2 DEF ConnectProvider, AiInv, RegistryStands, Position
  <2>2. QED
    BY <1>2, <2>1, RegistryChanges DEF ConnectProvider
<1>3. QED
  BY <1>1, <1>2, RegisterKeeps, UnregisterKeeps DEF RegistryStep

\* Who may be asked is a connector.
LEMMA NamedConnectors ==
  ASSUME AiInv, NEW name
  PROVE  Named(name) \subseteq Connectors
BY DEF AiInv, RegistryStands, Named, Position

LEMMA CallFields ==
  ASSUME AiInv, NEW c \in Callers
  PROVE  /\ call[c] \in Call /\ call \in [Callers -> Call]
         /\ call[c].asked \in Seq(Connectors) /\ call[c].chunks \in Seq(Connectors)
         /\ call[c].pc \in {"idle", "asked", "streaming", "answered", "failed"}
         /\ CallStands(call[c])
BY DEF AiInv, Call

LEMMA IdleCall ==
  /\ NoCall \in Call /\ NoCall.pc = "idle" /\ NoCall.asked = <<>> /\ NoCall.chunks = <<>>
  /\ CallStands(NoCall)
<1>1. NoCall \in Call /\ NoCall.pc = "idle" /\ NoCall.asked = <<>> /\ NoCall.chunks = <<>>
  BY DEF NoCall, Call
<1>2. QED
  BY <1>1 DEF CallStands

\* A call goes to another point and nobody else is asked.
LEMMA CallMoves ==
  ASSUME AiInv, NEW c \in Callers, NEW pc \in {"answered", "failed"}, NEW chunks \in Seq(Connectors),
         call[c].pc \in {"asked", "streaming"},
         \/ call' = [call EXCEPT ![c].pc = pc]
         \/ call' = [call EXCEPT ![c].chunks = chunks] /\ call[c].pc = "streaming",
         UNCHANGED <<registry, default>>, online \subseteq online'
  PROVE  AiInv'
<1>1. call[c] \in Call /\ call \in [Callers -> Call] /\ CallStands(call[c])
  BY CallFields
<1>2. PICK t : t = [call[c] EXCEPT !.pc = pc]
  OBVIOUS
<1>3. PICK u : u = [call[c] EXCEPT !.chunks = chunks]
  OBVIOUS
<1>4. t \in Call /\ t.pc = pc /\ t.asked = call[c].asked
  BY <1>1, <1>2 DEF Call
<1>5. u \in Call /\ u.pc = call[c].pc /\ u.asked = call[c].asked
  BY <1>1, <1>3 DEF Call
<1>6. CallStands(t)'
  BY <1>1, <1>4 DEF CallStands
<1>7. call[c].pc = "streaming" => CallStands(u)'
  BY <1>1, <1>5 DEF CallStands
<1>8. \/ call' = [call EXCEPT ![c] = t]
      \/ call' = [call EXCEPT ![c] = u] /\ call[c].pc = "streaming"
  BY <1>1, <1>2, <1>3
<1>9. QED
  BY <1>4, <1>5, <1>6, <1>7, <1>8, OneCallChanges

\* The default is asked after the one that failed, which it is not.
LEMMA RetryKeeps ==
  ASSUME AiInv, NEW c \in Callers, NEW k \in Fallback(c), Retry(c, k),
         call[c].pc \in {"asked", "streaming"}, call[c].pc = "asked" => k \in online',
         UNCHANGED <<registry, default>>, online \subseteq online'
  PROVE  AiInv'
<1>1. /\ call[c] \in Call /\ call \in [Callers -> Call] /\ CallStands(call[c])
      /\ call[c].asked \in Seq(Connectors)
  BY CallFields
<1>2. Len(call[c].asked) = 1 /\ k \in DefaultConnector /\ k # Asked(c)
  BY DEF Fallback
<1>3. k \in Connectors
  BY <1>2, NamedConnectors DEF DefaultConnector
<1>4. PICK whom : whom = Append(call[c].asked, k)
  OBVIOUS
<1>5. /\ whom \in Seq(Connectors) /\ Len(whom) = 2 /\ DOMAIN whom = {1, 2}
      /\ whom[1] = call[c].asked[1] /\ whom[2] = k
  BY <1>1, <1>2, <1>3, <1>4
<1>6. whom[1] # whom[2]
  BY <1>2, <1>5 DEF Asked
<1>7. PICK t : t = [call[c] EXCEPT !.asked = whom]
  OBVIOUS
<1>8. t \in Call /\ t.pc = call[c].pc /\ t.asked = whom
  BY <1>1, <1>5, <1>7 DEF Call
<1>9. whom # <<>> /\ \A i, j \in DOMAIN whom : whom[i] = whom[j] => i = j
  <2>1. \A i, j \in {1, 2} : whom[i] = whom[j] => i = j
    BY <1>6
  <2>2. QED
    BY <1>5, <2>1
<1>10. CallStands(t)'
  <2>1. t.asked # <<>> /\ Len(t.asked) <= 2
    <3>1. Len(whom) = 2
      BY <1>5
    <3>2. Len(whom) <= 2
      BY <3>1
    <3>3. QED
      BY <1>8, <1>9, <3>2
  <2>2. t.pc = "asked" => t.asked[Len(t.asked)] \in online'
    BY <1>5, <1>8
  <2>3. \A i, j \in DOMAIN t.asked : t.asked[i] = t.asked[j] => i = j
    BY <1>8, <1>9
  <2>4. QED
    BY <2>1, <2>2, <2>3 DEF CallStands
<1>11. call' = [call EXCEPT ![c] = t]
  BY <1>1, <1>4, <1>7 DEF Retry
<1>12. QED
  BY <1>8, <1>10, <1>11, OneCallChanges

LEMMA ProviderStepKeeps ==
  ASSUME AiInv, NEW c \in Callers, ProviderStep(c) \/ ChunkArrives(c)
  PROVE  AiInv'
<1>1. ASSUME Answers(c)
      PROVE  AiInv'
  <2>1. call[c].pc \in {"asked", "streaming"} /\ call' = [call EXCEPT ![c].pc = "answered"]
        /\ UNCHANGED <<registry, default, online>>
    BY <1>1 DEF Answers
  <2>2. <<>> \in Seq(Connectors)
    OBVIOUS
  <2>3. QED
    BY <2>1, <2>2, CallMoves
<1>2. ASSUME ChunkArrives(c)
      PROVE  AiInv'
  <2>1. /\ call[c].pc = "streaming" /\ call' = [call EXCEPT ![c].chunks = Append(@, Asked(c))]
        /\ UNCHANGED <<registry, default, online>>
    BY <1>2 DEF ChunkArrives
  <2>2. call[c].asked \in Seq(Connectors) /\ call[c].asked # <<>> /\ call[c].chunks \in Seq(Connectors)
        /\ call \in [Callers -> Call]
    BY <2>1, CallFields DEF CallStands
  <2>3. Asked(c) \in Connectors
    BY <2>2 DEF Asked
  <2>4. PICK chunks : chunks = Append(call[c].chunks, Asked(c))
    OBVIOUS
  <2>5. chunks \in Seq(Connectors) /\ call' = [call EXCEPT ![c].chunks = chunks]
    BY <2>1, <2>2, <2>3, <2>4
  <2>6. QED
    BY <2>1, <2>5, CallMoves
<1>3. ASSUME Fails(c)
      PROVE  AiInv'
  <2>1. /\ call[c].pc = "asked" /\ UNCHANGED <<registry, default>>
        /\ \/ \E k \in Fallback(c) : Retry(c, k) /\ online' = online \cup {k}
           \/ call' = [call EXCEPT ![c].pc = "failed"] /\ online' = online
    BY <1>3 DEF Fails
  <2>2. <<>> \in Seq(Connectors)
    OBVIOUS
  <2>3. ASSUME NEW k \in Fallback(c), Retry(c, k), online' = online \cup {k}
        PROVE  AiInv'
    BY <2>1, <2>3, RetryKeeps
  <2>4. ASSUME call' = [call EXCEPT ![c].pc = "failed"], online' = online
        PROVE  AiInv'
    BY <2>1, <2>2, <2>4, CallMoves
  <2>5. QED
    BY <2>1, <2>3, <2>4
<1>4. ASSUME StreamFails(c)
      PROVE  AiInv'
  <2>1. /\ call[c].pc = "streaming" /\ UNCHANGED <<registry, default, online>>
        /\ \/ \E k \in Fallback(c) : Retry(c, k)
           \/ call' = [call EXCEPT ![c].pc = "failed"]
    BY <1>4 DEF StreamFails
  <2>2. <<>> \in Seq(Connectors)
    OBVIOUS
  <2>3. ASSUME NEW k \in Fallback(c), Retry(c, k)
        PROVE  AiInv'
    BY <2>1, <2>3, RetryKeeps
  <2>4. ASSUME call' = [call EXCEPT ![c].pc = "failed"]
        PROVE  AiInv'
    BY <2>1, <2>2, <2>4, CallMoves
  <2>5. QED
    BY <2>1, <2>3, <2>4
<1>5. QED
  BY <1>1, <1>2, <1>3, <1>4 DEF ProviderStep

LEMMA SendKeeps ==
  ASSUME AiInv, NEW c \in Callers, NEW kind, NEW name, Send(c, kind, name),
         UNCHANGED <<registry, default>>
  PROVE  AiInv'
<1>1. PICK ks : ks = IF name = NoName THEN DefaultConnector ELSE Named(name)
  OBVIOUS
<1>2. ks \subseteq Connectors
  BY <1>1, NamedConnectors DEF DefaultConnector
<1>3. PICK f : f = [NoCall EXCEPT !.pc = "failed"]
  OBVIOUS
<1>4. f \in Call /\ CallStands(f)'
  <2>1. f \in Call /\ f.pc = "failed" /\ f.asked = <<>>
    BY <1>3, IdleCall DEF Call
  <2>2. QED
    BY <2>1 DEF CallStands
<1>5. ASSUME NEW k \in ks, NEW pc \in {"asked", "streaming"}, online' = online \cup {k},
             call' = [call EXCEPT ![c] = [NoCall EXCEPT !.pc = pc, !.asked = <<k>>]]
      PROVE  AiInv'
  <2>1. PICK t : t = [NoCall EXCEPT !.pc = pc, !.asked = <<k>>]
    OBVIOUS
  <2>2. PICK whom : whom = <<k>>
    OBVIOUS
  <2>3. k \in Connectors
    BY <1>2
  <2>4. whom \in Seq(Connectors) /\ Len(whom) = 1 /\ DOMAIN whom = {1} /\ whom[1] = k
    BY <2>2, <2>3
  <2>5. t \in Call /\ t.pc = pc /\ t.asked = whom
    BY <2>1, <2>2, <2>4, IdleCall DEF Call
  <2>6. t.asked # <<>> /\ Len(t.asked) <= 2 /\ t.asked[Len(t.asked)] \in online'
    <3>1. whom # <<>>
      BY <2>2
    <3>2. Len(whom) = 1 /\ whom[1] = k /\ k \in online'
      BY <1>5, <2>4
    <3>3. Len(whom) <= 2
      BY <3>2
    <3>4. whom[Len(whom)] \in online'
      BY <3>2
    <3>5. QED
      BY <2>5, <3>1, <3>3, <3>4
  <2>7. \A i, j \in DOMAIN t.asked : t.asked[i] = t.asked[j] => i = j
    BY <2>4, <2>5
  <2>8. CallStands(t)'
    BY <2>6, <2>7 DEF CallStands
  <2>9. QED
    BY <1>5, <2>1, <2>5, <2>8, OneCallChanges
<1>6. ASSUME call' = [call EXCEPT ![c] = f], online \subseteq online'
      PROVE  AiInv'
  BY <1>4, <1>6, OneCallChanges
<1>7. \/ call' = [call EXCEPT ![c] = f] /\ online \subseteq online'
      \/ \E k \in ks : \E pc \in {"asked", "streaming"} :
           /\ online' = online \cup {k}
           /\ call' = [call EXCEPT ![c] = [NoCall EXCEPT !.pc = pc, !.asked = <<k>>]]
  BY <1>1, <1>3 DEF Send
<1>8. QED
  BY <1>5, <1>6, <1>7

\* What agents and clients do to the providers.
CallerStep(c) ==
  \/ (\E kind, name : Send(c, kind, name)) /\ UNCHANGED <<registry, default>>
  \/ call' = [call EXCEPT ![c] = NoCall] /\ UNCHANGED <<registry, default, online>>

LEMMA CallerStepKeeps ==
  ASSUME AiInv, NEW c \in Callers, CallerStep(c)
  PROVE  AiInv'
<1>1. ASSUME call' = [call EXCEPT ![c] = NoCall], UNCHANGED <<registry, default, online>>
      PROVE  AiInv'
  <2>1. NoCall \in Call /\ CallStands(NoCall)'
    BY IdleCall DEF CallStands
  <2>2. QED
    BY <1>1, <2>1, OneCallChanges
<1>2. QED
  BY <1>1, SendKeeps DEF CallerStep

\* A step of an agent is one of its own call, or of none.
LEMMA AgentCalls ==
  ASSUME AgentNext
  PROVE  (\E a \in Agents : CallerStep(a)) \/ UNCHANGED aiVars
<1>1. ASSUME NEW a \in Agents, RunAgent(a) \/ EventThrows(a) \/ EventReturns(a) \/ ToolEnds(a)
      PROVE  UNCHANGED aiVars
  BY <1>1 DEF RunAgent, EventThrows, EventReturns, ToolEnds
<1>2. ASSUME NEW a \in Agents, AskModel(a)
      PROVE  CallerStep(a)
  BY <1>2 DEF AskModel, CallerStep
<1>3. ASSUME NEW a \in Agents, ModelAnswers(a) \/ ModelConcludes(a) \/ ModelFails(a)
      PROVE  CallerStep(a)
  BY <1>3 DEF ModelAnswers, ModelConcludes, ModelFails, CallerStep
<1>4. QED
  BY <1>1, <1>2, <1>3 DEF AgentNext, AgentStep

LEMMA HarnessCalls ==
  ASSUME HarnessNext
  PROVE  (\E p \in Clients : CallerStep(p)) \/ UNCHANGED aiVars
<1>1. ASSUME SessionStep
      PROVE  UNCHANGED aiVars
  BY <1>1 DEF SessionStep, EndSession, CreateSession
<1>2. ASSUME NEW p \in Clients, Complete(p)
      PROVE  CallerStep(p)
  BY <1>2 DEF Complete, CallerStep
<1>3. ASSUME NEW p \in Clients, Completed(p)
      PROVE  CallerStep(p)
  BY <1>3 DEF Completed, CallerStep
<1>4. ASSUME NEW p \in Clients, HarnessStart(p) \/ ConnectFails(p) \/ Rejects(p)
      PROVE  UNCHANGED aiVars
  BY <1>4 DEF HarnessStart, Begin, Shutdown, ConnectFails, Rejects
<1>5. ASSUME NEW p \in Clients,
             Initializing(p) \/ Connect(p) \/ Announced(p) \/ Initialize(p) \/ Proceed(p)
               \/ ListTools(p) \/ Disconnect(p) \/ Close(p)
      PROVE  UNCHANGED aiVars
  BY <1>5 DEF Initializing, Connect, Announced, Initialize, Proceed, ListTools, Disconnect, Close
<1>6. QED
  BY <1>1, <1>2, <1>3, <1>4, <1>5 DEF HarnessNext, HarnessStep

LEMMA AppKeepsProviders ==
  AiInv /\ [AppNext]_appVars => AiInv'
<1> SUFFICES ASSUME AiInv, [AppNext]_appVars
             PROVE  AiInv'
  OBVIOUS
<1>1. ASSUME UNCHANGED aiVars
      PROVE  AiInv'
  <2>1. RegistryStands'
    BY <1>1 DEF aiVars, AiInv, RegistryStands, Position
  <2>2. QED
    BY <1>1, <2>1, RegistryChanges DEF aiVars
<1>2. ASSUME ProviderNext
      PROVE  AiInv'
  BY <1>2, RegistryStepKeeps, ProviderStepKeeps DEF ProviderNext
<1>3. Agents \subseteq Callers /\ Clients \subseteq Callers
  BY AgentAssumption, HarnessAssumption
<1>4. ASSUME AgentNext \/ HarnessNext
      PROVE  AiInv'
  BY <1>1, <1>3, <1>4, AgentCalls, HarnessCalls, CallerStepKeeps
<1>5. QED
  BY <1>1, <1>2, <1>4 DEF AppNext, appVars

LEMMA AppStarts == AppInit => AiInv
<1> SUFFICES ASSUME AppInit
             PROVE  AiInv
  OBVIOUS
<1>1. RegistryStands
  BY DEF AppInit, AiInit, RegistryStands
<1>2. QED
  BY <1>1, IdleCall DEF AppInit, AiInit, AiInv

\* AIRegistry and AIManager, for any connectors, names, agents and clients, whatever
\* is registered, removed or fails meanwhile: there is a default as long as there is
\* a provider, and a request goes to two of them at most, connected and different.
THEOREM ProvidersAlwaysStand == AppSpec => []ProvidersStand
<1>1. AiInv => ProvidersStand
  BY StandingRegistry
<1>2. QED
  BY <1>1, AppStarts, AppKeepsProviders, PTL DEF AppSpec

--------------------------------------------------------------------------------
(* What an agent says                                                      *)

Blocks == UNION {{reply[n] : n \in DOMAIN reply} : reply \in ModelReplies}

Kept(f, blocks) ==
  f = [n \in 0 .. Len(blocks) |->
         IF n = 0 THEN <<>>
         ELSE IF blocks[n] = "text" THEN f[n - 1] ELSE Append(f[n - 1], blocks[n])]

\* The tool calls of an answer are a sequence of its blocks.
LEMMA CallsAreBlocks ==
  ASSUME NEW reply \in ModelReplies
  PROVE  CallsOf(reply) \in Seq(Blocks)
<1>1. reply \in Seq(Blocks)
  <2>1. {reply[n] : n \in DOMAIN reply} \subseteq Blocks
    BY DEF Blocks
  <2>2. reply \in Seq({reply[n] : n \in DOMAIN reply})
    BY AgentAssumption
  <2>3. QED
    BY <2>1, <2>2
<1>2. PICK n \in Nat : n = Len(reply) /\ DOMAIN reply = 1 .. n
  BY <1>1
<1>3. PICK step : step = [k \in 1 .. n |-> [said \in Seq(Blocks) |->
                            IF reply[k] = "text" THEN said ELSE Append(said, reply[k])]]
  OBVIOUS
<1>4. step \in [1 .. n -> [Seq(Blocks) -> Seq(Blocks)]]
  <2>1. ASSUME NEW k \in 1 .. n
        PROVE  [said \in Seq(Blocks) |-> IF reply[k] = "text" THEN said ELSE Append(said, reply[k])]
                 \in [Seq(Blocks) -> Seq(Blocks)]
    <3>1. reply[k] \in Blocks
      BY <1>1, <1>2
    <3>2. \A said \in Seq(Blocks) : Append(said, reply[k]) \in Seq(Blocks)
      BY <3>1
    <3>3. QED
      BY <3>2
  <2>2. QED
    BY <1>3, <2>1
<1>5. <<>> \in Seq(Blocks)
  OBVIOUS
<1>6. PICK f : Unfolds(f, Seq(Blocks), <<>>, step, n)
  BY <1>4, <1>5, FoldExists
<1>7. \A k \in 1 .. n : f[k] = IF reply[k] = "text" THEN f[k - 1] ELSE Append(f[k - 1], reply[k])
  <2>1. ASSUME NEW k \in 1 .. n
        PROVE  f[k] = IF reply[k] = "text" THEN f[k - 1] ELSE Append(f[k - 1], reply[k])
    <3>1. f[k - 1] \in Seq(Blocks) /\ f[k] = step[k][f[k - 1]]
      BY <1>6 DEF Unfolds
    <3>2. QED
      BY <1>3, <3>1
  <2>2. QED
    BY <2>1
<1>8. Kept(f, reply)
  <2>1. f = [k \in 0 .. n |-> f[k]] /\ f[0] = <<>>
    BY <1>6 DEF Unfolds
  <2>2. \A k \in 0 .. n : f[k] = IF k = 0 THEN <<>>
                                 ELSE IF reply[k] = "text" THEN f[k - 1] ELSE Append(f[k - 1], reply[k])
    BY <1>7, <2>1
  <2>3. QED
    BY <1>2, <2>1, <2>2 DEF Kept
<1>9. PICK g : Kept(g, reply) /\ CallsOf(reply) = g[Len(reply)]
  <2>1. PICK g : g = CHOOSE h : Kept(h, reply)
    OBVIOUS
  <2>2. Kept(g, reply)
    BY <1>8, <2>1, Zenon
  <2>3. CallsOf(reply) = g[Len(reply)]
    BY <2>1, Zenon DEF Kept, CallsOf
  <2>4. QED
    BY <2>2, <2>3
<1>10. \A k \in 0 .. n : g[k] = IF k = 0 THEN <<>>
                                ELSE IF reply[k] = "text" THEN g[k - 1] ELSE Append(g[k - 1], reply[k])
  BY <1>2, <1>9 DEF Kept
<1>11. DEFINE T == {k \in Nat : k <= n => g[k] \in Seq(Blocks)}
<1>12. 0 \in T
  <2>1. g[0] = <<>>
    BY <1>10
  <2>2. QED
    BY <1>5, <2>1
<1>13. ASSUME NEW k \in Nat, k \in T
       PROVE  k + 1 \in T
  <2>1. ASSUME k + 1 <= n
        PROVE  g[k + 1] \in Seq(Blocks)
    <3>1. k + 1 \in 1 .. n /\ k + 1 # 0 /\ (k + 1) - 1 = k /\ k + 1 \in 0 .. n /\ k <= n
      BY <2>1
    <3>2. g[k] \in Seq(Blocks) /\ reply[k + 1] \in Blocks
      BY <1>1, <1>2, <1>13, <3>1
    <3>3. g[k + 1] = IF reply[k + 1] = "text" THEN g[k] ELSE Append(g[k], reply[k + 1])
      BY <1>10, <3>1
    <3>4. QED
      BY <3>2, <3>3
  <2>2. QED
    BY <2>1
<1>14. n \in T
  <2> HIDE DEF T
  <2>1. QED
    BY <1>12, <1>13, SetInduction
<1>15. QED
  BY <1>2, <1>9, <1>14

Roles == {"system", "user", "assistant", "tool"}
Message == [role : Roles, ids : Seq(Blocks)]
RunType ==
  [pc : AgentPoints, iteration : Nat, messages : Seq(Message), left : Seq(Blocks),
   success : BOOLEAN]

\* The results that the calls which are left will have.
Results(left) == [k \in 1 .. Len(left) |-> Says("tool", <<left[k]>>)]

\* The conversation as it will be when all its calls have their results.
Owed(r) == r.messages \o Results(r.left)

\* The results of a message follow it in the order of its calls, and there are no others.
PairedTalk(ms) ==
  /\ \A i \in DOMAIN ms : ms[i].role = "assistant" =>
       \A j \in DOMAIN ms[i].ids :
         i + j \in DOMAIN ms /\ ms[i + j].role = "tool" /\ ms[i + j].ids = <<ms[i].ids[j]>>
  /\ \A i \in DOMAIN ms : ms[i].role = "tool" =>
       \E h \in 1 .. i - 1 : ms[h].role = "assistant" /\ \E j \in DOMAIN ms[h].ids :
         i = h + j /\ ms[i].ids = <<ms[h].ids[j]>>

LEMMA SaysMessage ==
  ASSUME NEW role \in Roles, NEW ids \in Seq(Blocks)
  PROVE  Says(role, ids) \in Message /\ Says(role, ids).role = role /\ Says(role, ids).ids = ids
BY DEF Says, Message

LEMMA ResultsAreMessages ==
  ASSUME NEW left \in Seq(Blocks)
  PROVE  /\ Results(left) \in Seq(Message) /\ Len(Results(left)) = Len(left)
         /\ \A k \in 1 .. Len(left) : Results(left)[k] = Says("tool", <<left[k]>>)
<1>1. PICK n \in Nat : n = Len(left) /\ \A k \in 1 .. n : left[k] \in Blocks
  OBVIOUS
<1>2. ASSUME NEW k \in 1 .. n
      PROVE  Says("tool", <<left[k]>>) \in Message
  <2>1. <<left[k]>> \in Seq(Blocks)
    BY <1>1
  <2>2. QED
    BY <2>1, SaysMessage DEF Roles
<1>3. PICK rs : rs = [k \in 1 .. n |-> Says("tool", <<left[k]>>)]
  OBVIOUS
<1>4. rs \in [1 .. n -> Message]
  BY <1>2, <1>3
<1>5. rs \in Seq(Message) /\ Len(rs) = n /\ \A k \in 1 .. n : rs[k] = Says("tool", <<left[k]>>)
  BY <1>3, <1>4
<1>6. Results(left) = rs
  BY <1>1, <1>3 DEF Results
<1>7. QED
  BY <1>1, <1>5, <1>6

LEMMA Joined ==
  ASSUME NEW T, NEW a \in Seq(T), NEW b \in Seq(T)
  PROVE  /\ a \o b \in Seq(T) /\ Len(a \o b) = Len(a) + Len(b)
         /\ \A i \in 1 .. Len(a) : (a \o b)[i] = a[i]
         /\ \A i \in 1 .. Len(b) : (a \o b)[Len(a) + i] = b[i]
<1>1. a \o b \in Seq(T) /\ Len(a \o b) = Len(a) + Len(b)
  OBVIOUS
<1>2. \A i \in 1 .. Len(a) : (a \o b)[i] = a[i]
  OBVIOUS
<1>3. ASSUME NEW i \in 1 .. Len(b)
      PROVE  (a \o b)[Len(a) + i] = b[i]
  <2>1. Len(a) + i \in (Len(a) + 1) .. (Len(a) + Len(b)) /\ (Len(a) + i) - Len(a) = i
    OBVIOUS
  <2>2. QED
    BY <2>1
<1>4. QED
  BY <1>1, <1>2, <1>3

LEMMA NothingOwed ==
  ASSUME NEW ms \in Seq(Message)
  PROVE  ms \o Results(<<>>) = ms
<1>1. PICK none : none = <<>>
  OBVIOUS
<1>2. none \in Seq(Blocks) /\ Len(none) = 0
  BY <1>1
<1>3. PICK rs \in Seq(Message) : rs = Results(none) /\ Len(rs) = 0
  BY <1>2, ResultsAreMessages
<1>4. ms \o rs \in Seq(Message) /\ Len(ms \o rs) = Len(ms) + Len(rs)
  BY <1>3
<1>5. Len(ms \o rs) = Len(ms)
  BY <1>3, <1>4
<1>6. \A i \in 1 .. Len(ms) : (ms \o rs)[i] = ms[i]
  BY Joined
<1>7. ms \o rs = ms
  BY <1>4, <1>5, <1>6
<1>8. QED
  BY <1>1, <1>3, <1>7

\* A result that comes was owed.
LEMMA ResultIsOwed ==
  ASSUME NEW ms \in Seq(Message), NEW left \in Seq(Blocks), left # <<>>
  PROVE  Append(ms, Says("tool", <<Head(left)>>)) \o Results(Tail(left)) = ms \o Results(left)
<1>1. PICK n \in Nat : n = Len(ms)
  OBVIOUS
<1>2. PICK m \in Nat : m = Len(left) /\ m # 0
  OBVIOUS
<1>3. PICK rest : rest = Tail(left)
  OBVIOUS
<1>4. rest \in Seq(Blocks) /\ Len(rest) = m - 1 /\ \A k \in 1 .. (m - 1) : rest[k] = left[k + 1]
  BY <1>2, <1>3
<1>5. Head(left) = left[1] /\ left[1] \in Blocks
  BY <1>2
<1>6. PICK said : said = Says("tool", <<left[1]>>)
  OBVIOUS
<1>7. said \in Message
  <2>1. <<left[1]>> \in Seq(Blocks)
    BY <1>5
  <2>2. QED
    BY <1>6, <2>1, SaysMessage DEF Roles
<1>8. PICK a : a = Append(ms, said)
  OBVIOUS
<1>9. a \in Seq(Message) /\ Len(a) = n + 1 /\ a[n + 1] = said /\ \A i \in 1 .. n : a[i] = ms[i]
  BY <1>1, <1>7, <1>8
<1>10. PICK rs \in Seq(Message) : rs = Results(left)
  BY ResultsAreMessages
<1>11. Len(rs) = m /\ \A k \in 1 .. m : rs[k] = Says("tool", <<left[k]>>)
  BY <1>2, <1>10, ResultsAreMessages
<1>12. PICK ts \in Seq(Message) : ts = Results(rest)
  BY <1>4, ResultsAreMessages
<1>13. Len(ts) = m - 1 /\ \A k \in 1 .. (m - 1) : ts[k] = Says("tool", <<rest[k]>>)
  BY <1>4, <1>12, ResultsAreMessages
<1>14. \A k \in 1 .. (m - 1) : ts[k] = rs[k + 1]
  <2>1. \A k \in 1 .. (m - 1) : k + 1 \in 1 .. m
    BY <1>2
  <2>2. QED
    BY <1>4, <1>11, <1>13, <2>1
<1>15. rs[1] = said
  BY <1>2, <1>6, <1>11
<1>16. a \o ts \in Seq(Message) /\ Len(a \o ts) = n + m
  <2>1. a \o ts \in Seq(Message) /\ Len(a \o ts) = Len(a) + Len(ts)
    BY <1>9, <1>12, Joined
  <2>2. QED
    BY <1>2, <1>9, <1>13, <2>1
<1>17. ms \o rs \in Seq(Message) /\ Len(ms \o rs) = n + m
  <2>1. ms \o rs \in Seq(Message) /\ Len(ms \o rs) = Len(ms) + Len(rs)
    BY <1>10, Joined
  <2>2. QED
    BY <1>1, <1>11, <2>1
<1>18. PICK one : one = a \o ts
  OBVIOUS
<1>19. PICK other : other = ms \o rs
  OBVIOUS
<1>20. \A i \in 1 .. n + 1 : one[i] = a[i]
  BY <1>9, <1>12, <1>18, Joined
<1>21. \A k \in 1 .. (m - 1) : one[(n + 1) + k] = ts[k]
  BY <1>9, <1>12, <1>13, <1>18, Joined
<1>22. \A i \in 1 .. n : other[i] = ms[i]
  BY <1>1, <1>10, <1>19, Joined
<1>23. \A k \in 1 .. m : other[n + k] = rs[k]
  BY <1>1, <1>10, <1>11, <1>19, Joined
<1>24. ASSUME NEW i \in 1 .. (n + m)
       PROVE  one[i] = other[i]
  <2>1. ASSUME i \in 1 .. n
        PROVE  one[i] = other[i]
    <3>1. i \in 1 .. n + 1
      BY <2>1
    <3>2. one[i] = a[i] /\ a[i] = ms[i] /\ other[i] = ms[i]
      BY <1>9, <1>20, <1>22, <2>1, <3>1
    <3>3. QED
      BY <3>2
  <2>2. one[n + 1] = other[n + 1]
    <3>1. n + 1 \in 1 .. n + 1 /\ 1 \in 1 .. m
      BY <1>2
    <3>2. one[n + 1] = a[n + 1] /\ other[n + 1] = rs[1]
      BY <1>20, <1>23, <3>1
    <3>3. QED
      BY <1>9, <1>15, <3>2
  <2>3. ASSUME NEW k \in 1 .. (m - 1)
        PROVE  one[(n + 1) + k] = other[(n + 1) + k]
    <3>1. k + 1 \in 1 .. m /\ (n + 1) + k = n + (k + 1)
      BY <1>2
    <3>2. one[(n + 1) + k] = ts[k] /\ other[n + (k + 1)] = rs[k + 1]
      BY <1>21, <1>23, <3>1
    <3>3. QED
      BY <1>14, <3>1, <3>2
  <2>4. \/ i \in 1 .. n
        \/ i = n + 1
        \/ i - (n + 1) \in 1 .. (m - 1) /\ i = (n + 1) + (i - (n + 1))
    BY <1>2
  <2>5. QED
    BY <2>1, <2>2, <2>3, <2>4
<1>25. one = other
  <2>1. one \in Seq(Message) /\ Len(one) = n + m
    BY <1>16, <1>18
  <2>2. other \in Seq(Message) /\ Len(other) = n + m
    BY <1>17, <1>19
  <2>3. \A i \in 1 .. Len(one) : one[i] = other[i]
    BY <1>24, <2>1
  <2>4. QED
    BY <2>1, <2>2, <2>3
<1>26. a = Append(ms, Says("tool", <<Head(left)>>))
  BY <1>5, <1>6, <1>8
<1>27. a \o ts = ms \o rs
  BY <1>18, <1>19, <1>25
<1>28. ts = Results(Tail(left))
  BY <1>3, <1>12
<1>29. a \o Results(Tail(left)) = ms \o Results(left)
  BY <1>10, <1>27, <1>28, Zenon
<1>30. QED
  BY <1>26, <1>29, Zenon

\* Nothing is owed for what a user says.
LEMMA UserSpeaks ==
  ASSUME NEW ms \in Seq(Message), PairedTalk(ms), NEW m \in Message, m.role \in {"system", "user"}
  PROVE  PairedTalk(Append(ms, m)) /\ Append(ms, m) \in Seq(Message)
<1>1. PICK n \in Nat : n = Len(ms) /\ DOMAIN ms = 1 .. n
  OBVIOUS
<1>2. PICK a : a = Append(ms, m)
  OBVIOUS
<1>3. /\ a \in Seq(Message) /\ DOMAIN a = 1 .. (n + 1) /\ a[n + 1] = m
      /\ \A i \in 1 .. n : a[i] = ms[i]
  BY <1>1, <1>2
<1>4. \A i \in 1 .. (n + 1) : i = n + 1 \/ i \in 1 .. n
  BY <1>1
<1>5. ASSUME NEW i \in DOMAIN a, a[i].role = "assistant", NEW j \in DOMAIN a[i].ids
      PROVE  i + j \in DOMAIN a /\ a[i + j].role = "tool" /\ a[i + j].ids = <<a[i].ids[j]>>
  <2>1. i \in 1 .. n /\ a[i] = ms[i]
    BY <1>3, <1>4, <1>5
  <2>2. i + j \in 1 .. n /\ ms[i + j].role = "tool" /\ ms[i + j].ids = <<ms[i].ids[j]>>
    BY <1>1, <1>5, <2>1 DEF PairedTalk
  <2>3. i + j \in 1 .. (n + 1)
    BY <2>2
  <2>4. QED
    BY <1>3, <2>1, <2>2, <2>3
<1>6. ASSUME NEW i \in DOMAIN a, a[i].role = "tool"
      PROVE  \E h \in 1 .. i - 1 : a[h].role = "assistant" /\ \E j \in DOMAIN a[h].ids :
               i = h + j /\ a[i].ids = <<a[h].ids[j]>>
  <2>1. i \in 1 .. n /\ a[i] = ms[i]
    BY <1>3, <1>4, <1>6
  <2>2. PICK h \in 1 .. i - 1 : ms[h].role = "assistant" /\ \E j \in DOMAIN ms[h].ids :
               i = h + j /\ ms[i].ids = <<ms[h].ids[j]>>
    BY <1>1, <1>6, <2>1 DEF PairedTalk
  <2>3. h \in 1 .. n
    BY <2>1
  <2>4. QED
    BY <1>3, <2>1, <2>2, <2>3
<1>7. PairedTalk(a)
  BY <1>5, <1>6, Zenon DEF PairedTalk
<1>8. QED
  BY <1>2, <1>3, <1>7

\* An answer with calls: its results are what is owed from then on.
LEMMA ModelSpeaks ==
  ASSUME NEW ms \in Seq(Message), PairedTalk(ms), NEW ids \in Seq(Blocks)
  PROVE  /\ PairedTalk(Append(ms, Says("assistant", ids)) \o Results(ids))
         /\ Append(ms, Says("assistant", ids)) \in Seq(Message)
<1>1. PICK n \in Nat : n = Len(ms) /\ DOMAIN ms = 1 .. n
  OBVIOUS
<1>2. PICK c \in Nat : c = Len(ids) /\ DOMAIN ids = 1 .. c
  OBVIOUS
<1>3. PICK said : said = Says("assistant", ids)
  OBVIOUS
<1>4. said \in Message /\ said.role = "assistant" /\ said.ids = ids
  BY <1>3, SaysMessage DEF Roles
<1>5. PICK a : a = Append(ms, said)
  OBVIOUS
<1>6. a \in Seq(Message) /\ Len(a) = n + 1 /\ a[n + 1] = said /\ \A i \in 1 .. n : a[i] = ms[i]
  BY <1>1, <1>4, <1>5
<1>7. PICK rs \in Seq(Message) : rs = Results(ids)
  BY ResultsAreMessages
<1>8. Len(rs) = c /\ \A k \in 1 .. c : rs[k].role = "tool" /\ rs[k].ids = <<ids[k]>>
  <2>1. Len(rs) = c /\ \A k \in 1 .. c : rs[k] = Says("tool", <<ids[k]>>)
    BY <1>2, <1>7, ResultsAreMessages
  <2>2. ASSUME NEW k \in 1 .. c
        PROVE  Says("tool", <<ids[k]>>).role = "tool" /\ Says("tool", <<ids[k]>>).ids = <<ids[k]>>
    BY DEF Says
  <2>3. QED
    BY <2>1, <2>2
<1>9. PICK all : all = a \o rs
  OBVIOUS
<1>10. all \in Seq(Message) /\ Len(all) = (n + 1) + c
  <2>1. a \o rs \in Seq(Message) /\ Len(a \o rs) = Len(a) + Len(rs)
    BY <1>6, <1>7, Joined
  <2>2. QED
    BY <1>6, <1>8, <1>9, <2>1
<1>11. DOMAIN all = 1 .. ((n + 1) + c)
  BY <1>10
<1>12. \A i \in 1 .. n : all[i] = ms[i]
  <2>1. ASSUME NEW i \in 1 .. n
        PROVE  all[i] = ms[i]
    <3>1. i \in 1 .. Len(a) /\ a[i] = ms[i]
      BY <1>6
    <3>2. QED
      BY <1>6, <1>7, <1>9, <3>1, Joined
  <2>2. QED
    BY <2>1
<1>13. all[n + 1] = said
  <2>1. n + 1 \in 1 .. Len(a)
    BY <1>6
  <2>2. QED
    BY <1>6, <1>7, <1>9, <2>1, Joined
<1>14. ASSUME NEW k \in 1 .. c
       PROVE  all[(n + 1) + k].role = "tool" /\ all[(n + 1) + k].ids = <<ids[k]>>
  <2>1. all[(n + 1) + k] = rs[k]
    BY <1>6, <1>7, <1>8, <1>9, Joined
  <2>2. QED
    BY <1>8, <2>1
<1>15. ASSUME NEW i \in 1 .. ((n + 1) + c)
       PROVE  \/ i \in 1 .. n
              \/ i = n + 1
              \/ \E k \in 1 .. c : i = (n + 1) + k
  <2>1. ASSUME i > n + 1
        PROVE  i - (n + 1) \in 1 .. c /\ i = (n + 1) + (i - (n + 1))
    BY <2>1
  <2>2. QED
    BY <2>1
<1>16. ASSUME NEW i \in DOMAIN all, all[i].role = "assistant", NEW j \in DOMAIN all[i].ids
       PROVE  /\ i + j \in DOMAIN all
              /\ all[i + j].role = "tool" /\ all[i + j].ids = <<all[i].ids[j]>>
  <2>1. ASSUME i \in 1 .. n
        PROVE  /\ i + j \in DOMAIN all
               /\ all[i + j].role = "tool" /\ all[i + j].ids = <<all[i].ids[j]>>
    <3>1. all[i] = ms[i]
      BY <1>12, <2>1
    <3>2. i + j \in 1 .. n /\ ms[i + j].role = "tool" /\ ms[i + j].ids = <<ms[i].ids[j]>>
      BY <1>1, <1>16, <2>1, <3>1 DEF PairedTalk
    <3>3. i + j \in 1 .. ((n + 1) + c)
      BY <3>2
    <3>4. QED
      BY <1>11, <1>12, <3>1, <3>2, <3>3
  <2>2. ASSUME i = n + 1
        PROVE  /\ i + j \in DOMAIN all
               /\ all[i + j].role = "tool" /\ all[i + j].ids = <<all[i].ids[j]>>
    <3>1. all[i].ids = ids /\ j \in 1 .. c
      BY <1>2, <1>4, <1>13, <1>16, <2>2
    <3>2. i + j \in 1 .. ((n + 1) + c) /\ i + j = (n + 1) + j
      BY <2>2, <3>1
    <3>3. QED
      BY <1>11, <1>14, <3>1, <3>2
  <2>3. ASSUME NEW k \in 1 .. c, i = (n + 1) + k
        PROVE  FALSE
    BY <1>14, <1>16, <2>3
  <2>4. QED
    BY <1>11, <1>15, <2>1, <2>2, <2>3
<1>17. ASSUME NEW i \in DOMAIN all, all[i].role = "tool"
       PROVE  \E h \in 1 .. i - 1 : all[h].role = "assistant" /\ \E j \in DOMAIN all[h].ids :
                i = h + j /\ all[i].ids = <<all[h].ids[j]>>
  <2>1. ASSUME i \in 1 .. n
        PROVE  \E h \in 1 .. i - 1 : all[h].role = "assistant" /\ \E j \in DOMAIN all[h].ids :
                 i = h + j /\ all[i].ids = <<all[h].ids[j]>>
    <3>1. all[i] = ms[i]
      BY <1>12, <2>1
    <3>2. PICK h \in 1 .. i - 1 : ms[h].role = "assistant" /\ \E j \in DOMAIN ms[h].ids :
                 i = h + j /\ ms[i].ids = <<ms[h].ids[j]>>
      BY <1>1, <1>17, <2>1, <3>1 DEF PairedTalk
    <3>3. all[h] = ms[h]
      BY <1>12, <2>1
    <3>4. QED
      BY <3>1, <3>2, <3>3
  <2>2. ASSUME i = n + 1
        PROVE  FALSE
    BY <1>4, <1>13, <1>17, <2>2
  <2>3. ASSUME NEW k \in 1 .. c, i = (n + 1) + k
        PROVE  \E h \in 1 .. i - 1 : all[h].role = "assistant" /\ \E j \in DOMAIN all[h].ids :
                 i = h + j /\ all[i].ids = <<all[h].ids[j]>>
    <3>1. n + 1 \in 1 .. i - 1
      BY <2>3
    <3>2. all[n + 1].role = "assistant" /\ all[n + 1].ids = ids /\ k \in DOMAIN ids
      BY <1>2, <1>4, <1>13
    <3>3. all[i].ids = <<ids[k]>>
      BY <1>14, <2>3
    <3>4. QED
      BY <2>3, <3>1, <3>2, <3>3
  <2>4. QED
    BY <1>11, <1>15, <2>1, <2>2, <2>3
<1>18. PairedTalk(all)
  BY <1>16, <1>17, Zenon DEF PairedTalk
<1>19. QED
  BY <1>3, <1>5, <1>6, <1>7, <1>9, <1>18

\* What a provider is sent of a paired conversation is paired.
LEMMA SentPaired ==
  ASSUME NEW ms \in Seq(Message), PairedTalk(ms), NEW type \in Types
  PROVE  PairedHistory(Sends(type, ms))
<1>1. PICK n \in Nat : n = Len(ms) /\ DOMAIN ms = 1 .. n
  OBVIOUS
<1>2. PICK sent : sent = Sends(type, ms)
  OBVIOUS
<1>3. ASSUME type \in {"openai", "copilot", "custom"}
      PROVE  PairedHistory(sent)
  <2>1. sent = [i \in DOMAIN ms |-> OpenAiSends(ms[i])]
    BY <1>2, <1>3 DEF Sends, CopilotSends, CustomSends
  <2>2. DOMAIN sent = DOMAIN ms
    BY <2>1
  <2>3. ASSUME NEW i \in DOMAIN ms
        PROVE  /\ sent[i].tool_calls = IF ms[i].role = "assistant" THEN ms[i].ids ELSE <<>>
               /\ sent[i].tool_call_id = IF ms[i].role = "tool" THEN ms[i].ids ELSE <<>>
    BY <2>1 DEF OpenAiSends
  <2>4. ASSUME NEW i \in DOMAIN sent, NEW j \in DOMAIN sent[i].tool_calls
        PROVE  i + j \in DOMAIN sent /\ sent[i + j].tool_call_id = <<sent[i].tool_calls[j]>>
    <3>1. ms[i].role = "assistant" /\ sent[i].tool_calls = ms[i].ids
      BY <2>2, <2>3, <2>4
    <3>2. i + j \in DOMAIN ms /\ ms[i + j].role = "tool" /\ ms[i + j].ids = <<ms[i].ids[j]>>
      BY <2>2, <2>4, <3>1 DEF PairedTalk
    <3>3. QED
      BY <2>2, <2>3, <3>1, <3>2
  <2>5. ASSUME NEW i \in DOMAIN sent, sent[i].tool_call_id # <<>>
        PROVE  \E h \in 1 .. i - 1 : \E j \in DOMAIN sent[h].tool_calls :
                 i = h + j /\ sent[i].tool_call_id = <<sent[h].tool_calls[j]>>
    <3>1. ms[i].role = "tool" /\ sent[i].tool_call_id = ms[i].ids
      BY <2>2, <2>3, <2>5
    <3>2. PICK h \in 1 .. i - 1 : ms[h].role = "assistant" /\ \E j \in DOMAIN ms[h].ids :
               i = h + j /\ ms[i].ids = <<ms[h].ids[j]>>
      BY <2>2, <3>1 DEF PairedTalk
    <3>3. h \in DOMAIN ms
      BY <1>1, <2>2
    <3>4. sent[h].tool_calls = ms[h].ids
      BY <2>3, <3>2, <3>3
    <3>5. QED
      BY <3>1, <3>2, <3>4
  <2>6. QED
    BY <2>4, <2>5, Zenon DEF PairedHistory
<1>4. ASSUME type \in {"local", "claude"}
      PROVE  PairedHistory(sent)
  <2>1. PICK spoken : spoken = IF type = "claude" THEN SelectSeq(ms, LAMBDA m : m.role # "system")
                               ELSE ms
    OBVIOUS
  <2>2. sent = [i \in DOMAIN spoken |-> LocalSends(spoken[i])]
    BY <1>2, <1>4, <2>1 DEF Sends, ClaudeSends
  <2>3. ASSUME NEW i \in DOMAIN sent
        PROVE  sent[i].tool_calls = <<>> /\ sent[i].tool_call_id = <<>>
    BY <2>2 DEF LocalSends
  <2>4. DOMAIN <<>> = {}
    OBVIOUS
  <2>5. QED
    BY <2>3, <2>4 DEF PairedHistory
<1>5. QED
  BY <1>2, <1>3, <1>4 DEF Types

Waits == {"wait", "final-wait"}
Answered == {"off", "step:start", "ask", "wait", "response", "step:complete", "final", "final-wait"}

\* Where the run asks or is about to, nothing is owed; where it is about to call a
\* tool, that is.
HistoryStands(r) ==
  /\ PairedTalk(Owed(r))
  /\ r.pc \in Answered => r.left = <<>>
  /\ r.pc \in {"tool:start", "tool"} => r.left # <<>>

RunsStand ==
  /\ run \in [Agents -> RunType]
  /\ \A a \in Agents : /\ HistoryStands(run[a])
                       /\ call[a].pc # "idle" => run[a].pc \in Waits

LEMMA RequestsStand ==
  ASSUME AiInv, RunsStand
  PROVE  RequestsArePaired
<1> SUFFICES ASSUME NEW a \in Agents, call[a].pc = "asked"
             PROVE  PairedHistory(Sends(TypeOf[Asked(a)], run[a].messages))
  BY DEF RequestsArePaired
<1>1. /\ run[a] \in RunType /\ run[a].pc \in Waits /\ PairedTalk(Owed(run[a]))
      /\ run[a].pc \in Answered => run[a].left = <<>>
  BY DEF RunsStand, HistoryStands
<1>2. run[a].messages \in Seq(Message) /\ run[a].left = <<>>
  BY <1>1 DEF RunType, Waits, Answered
<1>3. PairedTalk(run[a].messages)
  BY <1>1, <1>2, NothingOwed DEF Owed
<1>4. a \in Callers
  BY AgentAssumption
<1>5. call[a].asked \in Seq(Connectors) /\ call[a].asked # <<>>
  BY <1>4, CallFields DEF CallStands
<1>6. Asked(a) \in Connectors
  BY <1>5 DEF Asked
<1>7. TypeOf[Asked(a)] \in Types
  BY <1>6, AiAssumption
<1>8. QED
  BY <1>2, <1>3, <1>7, SentPaired

\* One run and its call change, the others stay.
LEMMA OneRunChanges ==
  ASSUME RunsStand, NEW a \in Agents, NEW t \in RunType, run' = [run EXCEPT ![a] = t],
         HistoryStands(t), \A b \in Agents : b # a => call'[b] = call[b],
         call'[a].pc # "idle" => t.pc \in Waits
  PROVE  RunsStand'
<1>1. \A b \in Agents : run'[b] = IF b = a THEN t ELSE run[b]
  BY DEF RunsStand
<1>2. run' \in [Agents -> RunType]
  BY DEF RunsStand
<1>3. ASSUME NEW b \in Agents
      PROVE  HistoryStands(run'[b]) /\ (call'[b].pc # "idle" => run'[b].pc \in Waits)
  BY <1>1 DEF RunsStand
<1>4. QED
  BY <1>2, <1>3 DEF RunsStand, HistoryStands, Owed

LEMMA RunFields ==
  ASSUME RunsStand, NEW a \in Agents
  PROVE  /\ run \in [Agents -> RunType] /\ run[a] \in RunType /\ HistoryStands(run[a])
         /\ run[a].pc \in AgentPoints /\ run[a].iteration \in Nat /\ run[a].success \in BOOLEAN
         /\ run[a].messages \in Seq(Message) /\ run[a].left \in Seq(Blocks)
         /\ call[a].pc # "idle" => run[a].pc \in Waits
BY DEF RunsStand, RunType

\* A run goes on without a word.
LEMMA RunGoesOn ==
  ASSUME RunsStand, NEW a \in Agents, NEW pc \in AgentPoints, NEW success \in BOOLEAN,
         run' = [run EXCEPT ![a].pc = pc, ![a].success = success],
         pc \in Answered => run[a].left = <<>>,
         pc \in {"tool:start", "tool"} => run[a].left # <<>>,
         \A b \in Agents : b # a => call'[b] = call[b],
         call'[a].pc # "idle" => pc \in Waits
  PROVE  RunsStand'
<1>1. PICK t : t = [run[a] EXCEPT !.pc = pc, !.success = success]
  OBVIOUS
<1>2. t \in RunType /\ t.pc = pc /\ t.left = run[a].left /\ t.messages = run[a].messages
  BY <1>1, RunFields DEF RunType
<1>3. run' = [run EXCEPT ![a] = t]
  BY <1>1, RunFields
<1>4. HistoryStands(t)
  BY <1>2, RunFields DEF HistoryStands, Owed
<1>5. QED
  BY <1>2, <1>3, <1>4, OneRunChanges

LEMMA BeginsKeeps ==
  ASSUME AiInv, RunsStand, NEW a \in Agents, RunAgent(a)
  PROVE  RunsStand'
<1>1. PICK pc : pc = IF MaxIterations = 0 THEN "final" ELSE "step:start"
  OBVIOUS
<1>2. PICK said : said = <<Says("system", <<>>), Says("user", <<>>)>>
  OBVIOUS
<1>3. PICK t : t = [NotRun EXCEPT !.messages = said, !.pc = pc]
  OBVIOUS
<1>4. run' = [run EXCEPT ![a] = t] /\ call' = call /\ run[a].pc = "off"
  BY <1>1, <1>2, <1>3 DEF RunAgent, aiVars, AgentAt
<1>5. PICK none : none = <<>>
  OBVIOUS
<1>6. none \in Seq(Blocks) /\ Len(none) = 0
  BY <1>5
<1>7. /\ Says("system", none) \in Message /\ Says("system", none).role = "system"
      /\ Says("user", none) \in Message /\ Says("user", none).role = "user"
  BY <1>6, SaysMessage DEF Roles
<1>8. said \in Seq(Message) /\ Len(said) = 2 /\ said[1] = Says("system", none) /\ said[2] = Says("user", none)
  BY <1>2, <1>5, <1>7
<1>9. PairedTalk(said)
  <2>1. \A i \in DOMAIN said : said[i].role \notin {"assistant", "tool"}
    BY <1>7, <1>8
  <2>2. QED
    BY <2>1 DEF PairedTalk
<1>10. t.messages = said /\ t.left = none /\ t.pc = pc /\ t.iteration = 0 /\ t.success = FALSE
  BY <1>3, <1>5 DEF NotRun
<1>11. t \in RunType
  BY <1>1, <1>3, <1>5, <1>6, <1>8 DEF NotRun, RunType, AgentPoints
<1>12. HistoryStands(t)
  <2>1. PairedTalk(Owed(t))
    BY <1>5, <1>8, <1>9, <1>10, NothingOwed DEF Owed
  <2>2. pc \notin {"tool:start", "tool"}
    BY <1>1
  <2>3. QED
    BY <1>5, <1>10, <2>1, <2>2 DEF HistoryStands
<1>13. call[a].pc = "idle"
  BY <1>4, RunFields DEF Waits
<1>14. QED
  BY <1>4, <1>11, <1>12, <1>13, OneRunChanges

LEMMA EventKeeps ==
  ASSUME AiInv, RunsStand, NEW a \in Agents, EventReturns(a) \/ EventThrows(a)
  PROVE  RunsStand'
<1>1. call' = call /\ run[a].pc \in EventPoints
  BY DEF EventReturns, EventThrows, aiVars
<1>2. call[a].pc = "idle"
  BY <1>1, RunFields DEF EventPoints, Waits
<1>3. /\ run \in [Agents -> RunType] /\ run[a] \in RunType
      /\ run[a].pc \in Answered => run[a].left = <<>>
      /\ run[a].pc \in {"tool:start", "tool"} => run[a].left # <<>>
  BY RunFields DEF HistoryStands
<1>4. ASSUME EventReturns(a)
      PROVE  RunsStand'
  <2>1. PICK pc : pc = CASE AgentAt(a, "step:start")     -> "ask"
         [] AgentAt(a, "response")       -> "agent:complete"
         [] AgentAt(a, "tool:start")     -> "tool"
         [] AgentAt(a, "tool:complete")  -> IF run[a].left = <<>> THEN "step:complete" ELSE "tool:start"
         [] AgentAt(a, "step:complete")  -> AskAgain(a)
         [] run[a].pc \in {"agent:error", "agent:complete"} -> "ended"
    OBVIOUS
  <2>2. run' = [run EXCEPT ![a].pc = pc]
    BY <1>4, <2>1 DEF EventReturns
  <2>3. run' = [run EXCEPT ![a].pc = pc, ![a].success = run[a].success]
    BY <1>3, <2>2 DEF RunType
  <2>4. AskAgain(a) \in {"step:start", "final"}
    BY DEF AskAgain
  <2>5. \/ run[a].pc = "step:start" /\ pc = "ask"
        \/ run[a].pc = "response" /\ pc = "agent:complete"
        \/ run[a].pc = "tool:start" /\ pc = "tool"
        \/ run[a].pc = "tool:complete" /\ pc = IF run[a].left = <<>> THEN "step:complete" ELSE "tool:start"
        \/ run[a].pc = "step:complete" /\ pc \in {"step:start", "final"}
        \/ run[a].pc \in {"agent:error", "agent:complete"} /\ pc = "ended"
    BY <1>1, <2>1, <2>4 DEF AgentAt, EventPoints
  <2>6. pc \in AgentPoints
    BY <2>5 DEF AgentPoints
  <2>7. pc \in Answered => run[a].left = <<>>
    BY <1>3, <2>5 DEF Answered
  <2>8. pc \in {"tool:start", "tool"} => run[a].left # <<>>
    BY <1>3, <2>5
  <2>9. run[a].success \in BOOLEAN
    BY RunFields
  <2>10. QED
    BY <1>1, <1>2, <2>3, <2>6, <2>7, <2>8, <2>9, RunGoesOn
<1>5. ASSUME EventThrows(a)
      PROVE  RunsStand'
  <2>1. PICK pc : pc = IF run[a].pc \in {"agent:error", "agent:complete"} THEN "rejected" ELSE "agent:error"
    OBVIOUS
  <2>2. run' = [run EXCEPT ![a].pc = pc, ![a].success = FALSE]
    BY <1>5, <2>1 DEF EventThrows
  <2>3. pc \in AgentPoints /\ pc \notin Answered /\ pc \notin {"tool:start", "tool"}
    BY <2>1 DEF AgentPoints, Answered
  <2>4. QED
    BY <1>1, <1>2, <2>2, <2>3, RunGoesOn
<1>6. QED
  BY <1>4, <1>5

\* A request changes no call but its own.
LEMMA SendOne ==
  ASSUME AiInv, NEW c \in Callers, NEW kind, NEW name, Send(c, kind, name)
  PROVE  \A d \in Callers : d # c => call'[d] = call[d]
<1>1. \E t : call' = [call EXCEPT ![c] = t]
  BY DEF Send
<1>2. QED
  BY <1>1 DEF AiInv

LEMMA AskKeeps ==
  ASSUME AiInv, RunsStand, NEW a \in Agents, AskModel(a)
  PROVE  RunsStand'
<1>1. a \in Callers /\ \A b \in Agents : b \in Callers
  BY AgentAssumption
<1>2. \A b \in Agents : b # a => call'[b] = call[b]
  BY <1>1, SendOne DEF AskModel
<1>3. /\ run \in [Agents -> RunType] /\ run[a] \in RunType /\ PairedTalk(Owed(run[a]))
      /\ run[a].pc \in Answered => run[a].left = <<>>
      /\ run[a].messages \in Seq(Message)
  BY RunFields DEF HistoryStands
<1>4. ASSUME run[a].pc = "ask", run' = [run EXCEPT ![a].pc = "wait"]
      PROVE  RunsStand'
  <2>1. run' = [run EXCEPT ![a].pc = "wait", ![a].success = run[a].success]
    BY <1>3, <1>4 DEF RunType
  <2>2. run[a].left = <<>> /\ run[a].success \in BOOLEAN
    BY <1>3, <1>4, RunFields DEF Answered
  <2>3. "wait" \in AgentPoints /\ "wait" \in Waits /\ "wait" \notin {"tool:start", "tool"}
    BY DEF AgentPoints, Waits
  <2>4. QED
    BY <1>2, <2>1, <2>2, <2>3, RunGoesOn
<1>5. ASSUME run[a].pc = "final",
             run' = [run EXCEPT ![a].pc = "final-wait", ![a].messages = Append(@, Says("user", <<>>))]
      PROVE  RunsStand'
  <2>1. PICK said : said = Append(run[a].messages, Says("user", <<>>))
    OBVIOUS
  <2>2. PICK t : t = [run[a] EXCEPT !.pc = "final-wait", !.messages = said]
    OBVIOUS
  <2>3. run' = [run EXCEPT ![a] = t]
    BY <1>3, <1>5, <2>1, <2>2
  <2>4. PICK none : none = <<>>
    OBVIOUS
  <2>5. none \in Seq(Blocks)
    BY <2>4
  <2>6. Says("user", none) \in Message /\ Says("user", none).role = "user"
    BY <2>5, SaysMessage DEF Roles
  <2>7. run[a].left = none
    BY <1>3, <1>5, <2>4 DEF Answered
  <2>8. PairedTalk(run[a].messages)
    BY <1>3, <2>4, <2>7, NothingOwed DEF Owed
  <2>9. PairedTalk(said) /\ said \in Seq(Message)
    BY <1>3, <2>1, <2>4, <2>6, <2>8, UserSpeaks
  <2>10. t \in RunType /\ t.pc = "final-wait" /\ t.messages = said /\ t.left = none
    BY <1>3, <2>2, <2>7, <2>9 DEF RunType, AgentPoints
  <2>11. PairedTalk(Owed(t))
    BY <2>4, <2>9, <2>10, NothingOwed DEF Owed
  <2>12. HistoryStands(t) /\ t.pc \in Waits
    BY <2>4, <2>10, <2>11 DEF HistoryStands, Waits
  <2>13. QED
    BY <1>2, <2>3, <2>10, <2>12, OneRunChanges
<1>6. QED
  BY <1>4, <1>5 DEF AskModel, AgentAt, AgentGoto

LEMMA AnswerKeeps ==
  ASSUME AiInv, RunsStand, NEW a \in Agents, ModelAnswers(a)
  PROVE  RunsStand'
<1>1. a \in Callers /\ \A b \in Agents : b \in Callers
  BY AgentAssumption
<1>2. /\ \A b \in Agents : b # a => call'[b] = call[b]
      /\ call'[a].pc = "idle"
  BY <1>1, IdleCall DEF ModelAnswers, AiInv
<1>3. /\ run \in [Agents -> RunType] /\ run[a] \in RunType /\ PairedTalk(Owed(run[a]))
      /\ run[a].pc = "wait" /\ run[a].left = <<>>
      /\ run[a].messages \in Seq(Message) /\ run[a].iteration \in Nat
  BY RunFields DEF HistoryStands, ModelAnswers, AgentAt, Answered
<1>4. PairedTalk(run[a].messages)
  BY <1>3, NothingOwed DEF Owed
<1>5. PICK reply \in ModelReplies :
        run' = [run EXCEPT ![a].messages = Append(@, Says("assistant", CallsOf(reply))),
                           ![a].left = CallsOf(reply),
                           ![a].iteration = IF CallsOf(reply) = <<>> THEN @ ELSE @ + 1,
                           ![a].pc = IF CallsOf(reply) = <<>> THEN "response" ELSE "tool:start",
                           ![a].success = CallsOf(reply) = <<>>]
  BY DEF ModelAnswers
<1>6. PICK ids : ids = CallsOf(reply)
  OBVIOUS
<1>7. ids \in Seq(Blocks)
  BY <1>6, CallsAreBlocks
<1>8. PICK said : said = Append(run[a].messages, Says("assistant", ids))
  OBVIOUS
<1>9. PairedTalk(said \o Results(ids)) /\ said \in Seq(Message)
  BY <1>3, <1>4, <1>7, <1>8, ModelSpeaks
<1>10. PICK iteration : iteration = IF ids = <<>> THEN run[a].iteration ELSE run[a].iteration + 1
  OBVIOUS
<1>11. PICK pc : pc = IF ids = <<>> THEN "response" ELSE "tool:start"
  OBVIOUS
<1>12. PICK success \in BOOLEAN : success = (ids = <<>>)
  OBVIOUS
<1>13. PICK t : t = [run[a] EXCEPT !.messages = said, !.left = ids, !.iteration = iteration,
                                   !.pc = pc, !.success = success]
  OBVIOUS
<1>14. run' = [run EXCEPT ![a] = t]
  BY <1>3, <1>5, <1>6, <1>8, <1>10, <1>11, <1>12, <1>13
<1>15. iteration \in Nat
  BY <1>3, <1>10
<1>16. t \in RunType /\ t.pc = pc /\ t.messages = said /\ t.left = ids
  BY <1>3, <1>7, <1>9, <1>11, <1>13, <1>15 DEF RunType, AgentPoints
<1>17. HistoryStands(t)
  BY <1>9, <1>11, <1>16 DEF HistoryStands, Owed, Answered
<1>18. QED
  BY <1>2, <1>14, <1>16, <1>17, OneRunChanges

LEMMA EndKeeps ==
  ASSUME AiInv, RunsStand, NEW a \in Agents, ModelConcludes(a) \/ ModelFails(a)
  PROVE  RunsStand'
<1>1. a \in Callers /\ \A b \in Agents : b \in Callers
  BY AgentAssumption
<1>2. /\ \A b \in Agents : b # a => call'[b] = call[b]
      /\ call'[a].pc = "idle"
  BY <1>1, IdleCall DEF ModelConcludes, ModelFails, AiInv
<1>3. /\ run \in [Agents -> RunType] /\ run[a] \in RunType /\ run[a].success \in BOOLEAN
  BY RunFields
<1>4. \/ run' = [run EXCEPT ![a].pc = "agent:complete", ![a].success = TRUE]
      \/ run' = [run EXCEPT ![a].pc = "agent:error"]
  BY DEF ModelConcludes, ModelFails, AgentGoto
<1>5. \/ run' = [run EXCEPT ![a].pc = "agent:complete", ![a].success = TRUE]
      \/ run' = [run EXCEPT ![a].pc = "agent:error", ![a].success = run[a].success]
  BY <1>3, <1>4 DEF RunType
<1>6. \A pc \in {"agent:complete", "agent:error"} :
        pc \in AgentPoints /\ pc \notin Answered /\ pc \notin {"tool:start", "tool"}
  BY DEF AgentPoints, Answered
<1>7. QED
  BY <1>2, <1>3, <1>5, <1>6, RunGoesOn

LEMMA ToolKeeps ==
  ASSUME AiInv, RunsStand, NEW a \in Agents, ToolEnds(a)
  PROVE  RunsStand'
<1>1. call' = call /\ run[a].pc = "tool"
  BY DEF ToolEnds, aiVars, AgentAt
<1>2. call[a].pc = "idle"
  BY <1>1, RunFields DEF Waits
<1>3. /\ run \in [Agents -> RunType] /\ run[a] \in RunType /\ PairedTalk(Owed(run[a]))
      /\ run[a].left # <<>> /\ run[a].left \in Seq(Blocks)
      /\ run[a].messages \in Seq(Message)
  BY <1>1, RunFields DEF HistoryStands
<1>4. PICK said : said = Append(run[a].messages, Says("tool", <<Head(run[a].left)>>))
  OBVIOUS
<1>5. PICK rest : rest = Tail(run[a].left)
  OBVIOUS
<1>6. rest \in Seq(Blocks) /\ Head(run[a].left) \in Blocks
  BY <1>3, <1>5
<1>7. said \in Seq(Message)
  <2>1. <<Head(run[a].left)>> \in Seq(Blocks)
    BY <1>6
  <2>2. Says("tool", <<Head(run[a].left)>>) \in Message
    BY <2>1, SaysMessage DEF Roles
  <2>3. QED
    BY <1>3, <1>4, <2>2
<1>8. PICK t : t = [run[a] EXCEPT !.pc = "tool:complete", !.left = rest, !.messages = said]
  OBVIOUS
<1>9. run' = [run EXCEPT ![a] = t]
  BY <1>3, <1>4, <1>5, <1>8 DEF ToolEnds
<1>10. t \in RunType /\ t.pc = "tool:complete" /\ t.messages = said /\ t.left = rest
  BY <1>3, <1>6, <1>7, <1>8 DEF RunType, AgentPoints
<1>11. said \o Results(rest) = run[a].messages \o Results(run[a].left)
  BY <1>3, <1>4, <1>5, ResultIsOwed
<1>12. HistoryStands(t)
  BY <1>3, <1>10, <1>11 DEF HistoryStands, Owed, Answered
<1>13. QED
  BY <1>1, <1>2, <1>9, <1>10, <1>12, OneRunChanges

\* Nobody but the run itself asks in its name.
LEMMA OthersAnswer ==
  ASSUME AiInv, RunsStand, run' = run,
         \A a \in Agents : call[a].pc = "idle" => call'[a].pc = "idle"
  PROVE  RunsStand'
BY DEF RunsStand, HistoryStands, Owed

LEMMA ProviderCalls ==
  ASSUME AiInv, ProviderNext, NEW c \in Callers, call[c].pc = "idle"
  PROVE  call'[c].pc = "idle"
<1>1. ASSUME RegistryStep
      PROVE  call' = call
  BY <1>1 DEF RegistryStep, Register, Unregister, SetDefault, ConnectProvider
<1>2. ASSUME NEW d \in Callers, ProviderStep(d) \/ ChunkArrives(d)
      PROVE  call'[c].pc = "idle"
  <2>1. call[d].pc \in {"asked", "streaming"} /\ \E t : call' = [call EXCEPT ![d] = t]
    <3>1. ASSUME Answers(d) \/ ChunkArrives(d)
          PROVE  call[d].pc \in {"asked", "streaming"} /\ \E t : call' = [call EXCEPT ![d] = t]
      BY <3>1 DEF Answers, ChunkArrives
    <3>2. ASSUME Fails(d) \/ StreamFails(d)
          PROVE  call[d].pc \in {"asked", "streaming"} /\ \E t : call' = [call EXCEPT ![d] = t]
      BY <3>2 DEF Fails, StreamFails, Retry
    <3>3. QED
      BY <1>2, <3>1, <3>2 DEF ProviderStep
  <2>2. QED
    BY <2>1 DEF AiInv
<1>3. QED
  BY <1>1, <1>2 DEF ProviderNext

LEMMA AppKeepsRuns ==
  AiInv /\ RunsStand /\ [AppNext]_appVars => RunsStand'
<1> SUFFICES ASSUME AiInv, RunsStand, [AppNext]_appVars
             PROVE  RunsStand'
  OBVIOUS
<1>1. Agents \subseteq Callers /\ Clients \subseteq Callers /\ Agents \cap Clients = {}
  BY AgentAssumption, HarnessAssumption, OwnRequests
<1>2. ASSUME UNCHANGED <<run, call>>
      PROVE  RunsStand'
  BY <1>2, OthersAnswer
<1>3. ASSUME ProviderNext, run' = run
      PROVE  RunsStand'
  BY <1>1, <1>3, ProviderCalls, OthersAnswer
<1>4. ASSUME HarnessNext, run' = run
      PROVE  RunsStand'
  <2>1. ASSUME NEW p \in Clients, CallerStep(p)
        PROVE  \A a \in Agents : call'[a] = call[a]
    <3>1. p \in Callers
      BY <1>1
    <3>2. ASSUME call' = [call EXCEPT ![p] = NoCall]
          PROVE  \A a \in Agents : call'[a] = call[a]
      BY <1>1, <3>2 DEF AiInv
    <3>3. QED
      BY <1>1, <2>1, <3>1, <3>2, SendOne DEF CallerStep
  <2>2. QED
    BY <1>2, <1>4, <2>1, HarnessCalls, OthersAnswer DEF aiVars
<1>5. ASSUME AgentNext
      PROVE  RunsStand'
  BY <1>5, BeginsKeeps, EventKeeps, AskKeeps, AnswerKeeps, EndKeeps, ToolKeeps
     DEF AgentNext, AgentStep
<1>6. QED
  BY <1>2, <1>3, <1>4, <1>5 DEF AppNext, appVars, agentVars, aiVars

\* AgentRunner.run and the connectors, for any runs, providers and answers, tools and
\* callbacks that throw included: every request shows the result of each call it
\* shows, in their order and before anything else, and no other result.
THEOREM RequestsAlwaysPaired == AppSpec => []RequestsArePaired
<1>1. AppInit => AiInv /\ RunsStand
  <2> SUFFICES ASSUME AppInit
               PROVE  AiInv /\ RunsStand
    OBVIOUS
  <2>1. PICK none : none = <<>>
    OBVIOUS
  <2>2. none \in Seq(Blocks) /\ none \in Seq(Message) /\ DOMAIN none = {}
    BY <2>1
  <2>3. NotRun \in RunType /\ NotRun.messages = none /\ NotRun.left = none /\ NotRun.pc = "off"
    BY <2>1, <2>2 DEF NotRun, RunType, AgentPoints
  <2>4. PairedTalk(none)
    BY <2>2 DEF PairedTalk
  <2>5. HistoryStands(NotRun)
    BY <2>1, <2>2, <2>3, <2>4, NothingOwed DEF HistoryStands, Owed
  <2>6. \A a \in Agents : call[a] = NoCall /\ NoCall.pc = "idle"
    BY IdleCall, AgentAssumption DEF AppInit, AiInit
  <2>7. RunsStand
    BY <2>3, <2>5, <2>6 DEF AppInit, AgentInit, RunsStand
  <2>8. AiInv
    BY AppStarts
  <2>9. QED
    BY <2>7, <2>8
<1>2. AiInv /\ RunsStand => RequestsArePaired
  BY RequestsStand
<1>3. QED
  BY <1>1, <1>2, AppKeepsProviders, AppKeepsRuns, PTL DEF AppSpec

--------------------------------------------------------------------------------
(* The flag of the harness and its servers                                 *)

JobType ==
  [pc : HarnessPoints, kind : Kinds, session : Sessions \cup {NoName}, withTools : BOOLEAN,
   left : SUBSET DOMAIN Servers, offered : SUBSET {Servers[i] : i \in DOMAIN Servers}]

\* The places a call has been to; while it announces one, it is the first that is left.
Past(j) ==
  {i \in DOMAIN Servers : i \notin j.left \/ (j.pc = "announcing" /\ \A k \in j.left : i <= k)}

HasTried(j) ==
  /\ j.pc # "closing"
  /\ j.pc \in {"connecting", "announcing"} => \A i \in Past(j) : Servers[i] \in up \cup refused

\* Until the first shutdown.
Trying ==
  /\ \A p \in Clients : HasTried(hjob[p])
  /\ initialized => \A i \in DOMAIN Servers : Servers[i] \in up \cup refused

StandsAlone(j) ==
  /\ j.pc \in {"initialized", "tools", "completing", "waiting"} => initialized
  /\ j.pc = "closing" => up \subseteq {Servers[i] : i \in j.left}

\* Until calls overlap or something fails.
Alone ==
  /\ \A p, q \in Clients : ~HAt(p, "idle") /\ ~HAt(q, "idle") => p = q
  /\ up \subseteq {Servers[i] : i \in DOMAIN Servers}
  /\ Busy = {} /\ ~initialized => up = {}
  /\ \A p \in Clients : StandsAlone(hjob[p])

FlagInv ==
  /\ hjob \in [Clients -> JobType]
  /\ overlaps \in Nat /\ faults \in Nat /\ shutdowns \in Nat
  /\ shutdowns = 0 => Trying
  /\ overlaps = 0 /\ faults = 0 => Alone

LEMMA FlagSuffices == FlagInv => ServersFollowTheFlag
BY DEF FlagInv, Trying, Alone, ServersFollowTheFlag

LEMMA TurnsInOrder ==
  ASSUME FlagInv, NEW p \in Clients, hjob[p].left # {}
  PROVE  /\ Turn(p) \in hjob[p].left /\ Turn(p) \in DOMAIN Servers
         /\ \A k \in hjob[p].left : Turn(p) <= k
<1>1. hjob[p].left \subseteq DOMAIN Servers
  BY DEF FlagInv, JobType
<1>2. hjob[p].left \in SUBSET Nat
  BY <1>1, HarnessAssumption
<1>3. \E i \in hjob[p].left : \A j \in hjob[p].left : i <= j
  BY <1>2, NatMin
<1>4. Turn(p) \in hjob[p].left /\ \A j \in hjob[p].left : Turn(p) <= j
  BY <1>3, Zenon DEF Turn
<1>5. QED
  BY <1>1, <1>4

LEMMA OneJob ==
  ASSUME FlagInv, NEW p \in Clients, NEW j \in JobType, hjob' = [hjob EXCEPT ![p] = j]
  PROVE  /\ hjob' \in [Clients -> JobType]
         /\ \A q \in Clients : hjob'[q] = IF q = p THEN j ELSE hjob[q]
BY DEF FlagInv

LEMMA TryingKeeps ==
  ASSUME FlagInv, NEW p \in Clients, NEW j \in JobType, hjob' = [hjob EXCEPT ![p] = j],
         shutdowns = 0, HasTried(j)', up \cup refused \subseteq up' \cup refused',
         initialized' /\ ~initialized => \A i \in DOMAIN Servers : Servers[i] \in up' \cup refused'
  PROVE  Trying'
<1>1. Trying /\ \A q \in Clients : hjob'[q] = IF q = p THEN j ELSE hjob[q]
  BY OneJob DEF FlagInv
<1>2. ASSUME NEW q \in Clients
      PROVE  HasTried(hjob[q])'
  <2>1. ASSUME q # p
        PROVE  HasTried(hjob[q])'
    BY <1>1, <2>1 DEF Trying, HasTried, Past
  <2>2. ASSUME q = p
        PROVE  HasTried(hjob[q])'
    BY <1>1, <2>2 DEF HasTried, Past
  <2>3. QED
    BY <2>1, <2>2
<1>3. initialized' => \A i \in DOMAIN Servers : Servers[i] \in up' \cup refused'
  BY <1>1 DEF Trying
<1>4. QED
  BY <1>2, <1>3 DEF Trying

\* A call that runs alone leaves the others idle.
LEMMA AloneKeeps ==
  ASSUME FlagInv, NEW p \in Clients, NEW j \in JobType, hjob' = [hjob EXCEPT ![p] = j],
         Alone, \A q \in Clients : q # p => hjob[q].pc = "idle",
         StandsAlone(j)', up' \subseteq {Servers[i] : i \in DOMAIN Servers},
         j.pc = "idle" /\ ~initialized' => up' = {}
  PROVE  Alone'
<1>1. \A q \in Clients : hjob'[q] = IF q = p THEN j ELSE hjob[q]
  BY OneJob
<1>2. \A q \in Clients : q # p => hjob'[q].pc = "idle"
  BY <1>1
<1>3. ASSUME NEW q \in Clients
      PROVE  StandsAlone(hjob[q])'
  <2>1. ASSUME q = p
        PROVE  StandsAlone(hjob[q])'
    BY <1>1, <2>1 DEF StandsAlone
  <2>2. ASSUME q # p
        PROVE  StandsAlone(hjob[q])'
    BY <1>2, <2>2 DEF StandsAlone
  <2>3. QED
    BY <2>1, <2>2
<1>4. Busy' = {} /\ ~initialized' => up' = {}
  <2>1. Busy' = {} => j.pc = "idle"
    BY <1>1 DEF Busy, HAt
  <2>2. QED
    BY <2>1
<1>5. \A q, r \in Clients : ~HAt(q, "idle")' /\ ~HAt(r, "idle")' => q = r
  BY <1>2 DEF HAt
<1>6. QED
  BY <1>3, <1>4, <1>5 DEF Alone

\* Only one call is in progress.
LEMMA OthersIdle ==
  ASSUME Alone, NEW p \in Clients, hjob[p].pc # "idle"
  PROVE  \A q \in Clients : q # p => hjob[q].pc = "idle"
BY DEF Alone, HAt

\* A step of one call, which was in progress or finds no other.
LEMMA CallStep ==
  ASSUME FlagInv, NEW p \in Clients, NEW j \in JobType, hjob' = [hjob EXCEPT ![p] = j],
         overlaps' \in {overlaps, overlaps + 1}, faults' \in {faults, faults + 1},
         shutdowns' \in {shutdowns, shutdowns + 1},
         hjob[p].pc # "idle" \/ (overlaps' = overlaps => Busy = {}),
         shutdowns = 0 /\ shutdowns' = shutdowns =>
           /\ HasTried(j)' /\ up \cup refused \subseteq up' \cup refused'
           /\ initialized' /\ ~initialized => \A i \in DOMAIN Servers : Servers[i] \in up' \cup refused',
         Alone /\ overlaps' = overlaps /\ faults' = faults =>
           /\ StandsAlone(j)' /\ up' \subseteq {Servers[i] : i \in DOMAIN Servers}
           /\ j.pc = "idle" /\ ~initialized' => up' = {}
  PROVE  FlagInv'
<1>1. overlaps \in Nat /\ faults \in Nat /\ shutdowns \in Nat
  BY DEF FlagInv
<1>2. overlaps' \in Nat /\ faults' \in Nat /\ shutdowns' \in Nat
  BY <1>1
<1>3. shutdowns' = 0 => shutdowns' = shutdowns /\ shutdowns = 0
  BY <1>1
<1>4. (overlaps' = 0 => overlaps' = overlaps /\ overlaps = 0) /\ (faults' = 0 => faults' = faults /\ faults = 0)
  BY <1>1
<1>5. shutdowns' = 0 => Trying'
  BY <1>3, TryingKeeps
<1>6. ASSUME overlaps' = 0, faults' = 0
      PROVE  Alone'
  <2>1. Alone /\ overlaps' = overlaps /\ faults' = faults
    BY <1>4, <1>6 DEF FlagInv
  <2>2. \A q \in Clients : q # p => hjob[q].pc = "idle"
    BY <2>1, OthersIdle DEF Busy, HAt
  <2>3. QED
    BY <2>1, <2>2, AloneKeeps
<1>7. hjob' \in [Clients -> JobType]
  BY OneJob
<1>8. QED
  BY <1>2, <1>5, <1>6, <1>7 DEF FlagInv

LEMMA JobFields ==
  ASSUME FlagInv, NEW p \in Clients
  PROVE  /\ hjob \in [Clients -> JobType] /\ hjob[p] \in JobType /\ hjob[p].left \subseteq DOMAIN Servers
         /\ hjob[p].pc \in HarnessPoints
BY DEF FlagInv, JobType

LEMMA Idle == NoJob \in JobType /\ NoJob.pc = "idle"
BY DEF NoJob, JobType, HarnessPoints, Kinds

LEMMA SessionJobs ==
  ASSUME NEW job \in JobType
  PROVE  WithSession(job) \in JobType /\ WithSession(job).pc \in {"idle", "tools", "completing"}
<1>1. [job EXCEPT !.pc = "tools", !.left = Connected] \in JobType
  BY DEF JobType, HarnessPoints, Connected
<1>2. [job EXCEPT !.pc = "completing"] \in JobType
  BY DEF JobType, HarnessPoints
<1>3. /\ [job EXCEPT !.pc = "tools", !.left = Connected].pc = "tools"
      /\ [job EXCEPT !.pc = "completing"].pc = "completing"
  BY DEF JobType
<1>4. QED
  BY <1>1, <1>2, <1>3, Idle DEF WithSession

LEMMA EntersAlone ==
  ASSUME NEW p \in Clients, Enter(p), FlagInv
  PROVE  /\ overlaps' \in {overlaps, overlaps + 1}
         /\ overlaps' = overlaps => Busy = {}
BY DEF Enter, FlagInv

LEMMA BeginKeepsFlag ==
  ASSUME FlagInv, NEW p \in Clients, NEW kind \in Kinds, NEW session \in Sessions,
         NEW withTools \in BOOLEAN, Begin(p, kind, session, withTools)
  PROVE  FlagInv'
<1>1. PICK job : job = [NoJob EXCEPT !.kind = kind, !.session = session, !.withTools = withTools]
  OBVIOUS
<1>2. job \in JobType
  BY <1>1 DEF NoJob, JobType, HarnessPoints
<1>3. PICK j : j = IF ~initialized THEN [job EXCEPT !.pc = "initializing"]
                   ELSE IF kind = "initialize" THEN NoJob ELSE WithSession(job)
  OBVIOUS
<1>4. hjob' = [hjob EXCEPT ![p] = j] /\ Enter(p) /\ UNCHANGED <<initialized, up, refused, faults, shutdowns>>
  BY <1>1, <1>3 DEF Begin
<1>5. [job EXCEPT !.pc = "initializing"] \in JobType /\ [job EXCEPT !.pc = "initializing"].pc = "initializing"
  BY <1>2 DEF JobType, HarnessPoints
<1>6. /\ j \in JobType
      /\ \/ j.pc = "initializing"
         \/ initialized /\ j.pc \in {"idle", "tools", "completing"}
  BY <1>2, <1>3, <1>5, Idle, SessionJobs
<1>7. HasTried(j)'
  BY <1>6 DEF HasTried
<1>8. Alone => StandsAlone(j)' /\ up' \subseteq {Servers[i] : i \in DOMAIN Servers}
               /\ (j.pc = "idle" /\ ~initialized' => up' = {})
  BY <1>4, <1>6 DEF StandsAlone, Alone
<1>9. /\ overlaps' \in {overlaps, overlaps + 1} /\ faults' \in {faults, faults + 1}
      /\ shutdowns' \in {shutdowns, shutdowns + 1}
      /\ overlaps' = overlaps => Busy = {}
  BY <1>4, EntersAlone
<1>10. up \cup refused \subseteq up' \cup refused' /\ ~(initialized' /\ ~initialized)
  BY <1>4
<1>11. QED
  BY <1>4, <1>6, <1>7, <1>8, <1>9, <1>10, CallStep

LEMMA ShutdownKeepsFlag ==
  ASSUME FlagInv, NEW p \in Clients, Shutdown(p)
  PROVE  FlagInv'
<1>1. PICK j : j = [NoJob EXCEPT !.kind = "shutdown", !.pc = "closing", !.left = Connected]
  OBVIOUS
<1>2. j \in JobType /\ j.pc = "closing" /\ j.left = Connected
  BY <1>1 DEF NoJob, JobType, HarnessPoints, Kinds, Connected
<1>3. /\ hjob' = [hjob EXCEPT ![p] = j] /\ Enter(p) /\ UNCHANGED <<initialized, up, refused, faults>>
      /\ shutdowns' = shutdowns + 1
  BY <1>1 DEF Shutdown
<1>4. shutdowns' # shutdowns
  BY <1>3 DEF FlagInv
<1>5. Alone => StandsAlone(j)' /\ up' \subseteq {Servers[i] : i \in DOMAIN Servers}
               /\ (j.pc = "idle" /\ ~initialized' => up' = {})
  BY <1>2, <1>3 DEF StandsAlone, Alone, Connected
<1>6. /\ overlaps' \in {overlaps, overlaps + 1} /\ faults' \in {faults, faults + 1}
      /\ shutdowns' \in {shutdowns, shutdowns + 1}
      /\ overlaps' = overlaps => Busy = {}
  BY <1>3, EntersAlone
<1>7. QED
  BY <1>2, <1>3, <1>4, <1>5, <1>6, CallStep

\* The call goes on where no server is touched.
LEMMA PlainKeepsFlag ==
  ASSUME FlagInv, NEW p \in Clients, NEW j \in JobType, hjob' = [hjob EXCEPT ![p] = j],
         hjob[p].pc # "idle", UNCHANGED <<initialized, up, refused, overlaps, shutdowns>>,
         \/ faults' = faults + 1 /\ j.pc = "idle"
         \/ /\ faults' = faults /\ hjob[p].pc \in {"initialized", "tools", "completing", "waiting"}
            /\ j.pc \in {"idle", "tools", "completing", "waiting"}
  PROVE  FlagInv'
<1>1. HasTried(j)'
  BY DEF HasTried
<1>2. faults' = faults => faults' # faults + 1
  BY DEF FlagInv
<1>3. ASSUME Alone, faults' = faults
      PROVE  StandsAlone(j)' /\ up' \subseteq {Servers[i] : i \in DOMAIN Servers} /\ initialized'
  <2>1. initialized
    BY <1>2, <1>3 DEF Alone, StandsAlone
  <2>2. QED
    BY <1>2, <1>3, <2>1 DEF Alone, StandsAlone
<1>4. QED
  BY <1>1, <1>3, CallStep

LEMMA InitializingKeepsFlag ==
  ASSUME FlagInv, NEW p \in Clients, Initializing(p)
  PROVE  FlagInv'
<1>1. PICK j : j = [hjob[p] EXCEPT !.pc = "connecting", !.left = DOMAIN Servers]
  OBVIOUS
<1>2. j \in JobType /\ j.pc = "connecting" /\ j.left = DOMAIN Servers
  BY <1>1, JobFields DEF JobType, HarnessPoints
<1>3. /\ hjob' = [hjob EXCEPT ![p] = j] /\ hjob[p].pc = "initializing"
      /\ UNCHANGED <<initialized, up, refused, overlaps, faults, shutdowns>>
  BY <1>1, JobFields DEF Initializing, counted, HAt
<1>4. HasTried(j)'
  BY <1>2 DEF HasTried, Past
<1>5. Alone => StandsAlone(j)' /\ up' \subseteq {Servers[i] : i \in DOMAIN Servers}
  BY <1>2, <1>3 DEF Alone, StandsAlone
<1>6. QED
  BY <1>2, <1>3, <1>4, <1>5, CallStep

\* The server whose turn it is has been tried, and is the last of those tried.
LEMMA ConnectKeepsFlag ==
  ASSUME FlagInv, NEW p \in Clients, Connect(p) \/ ConnectFails(p)
  PROVE  FlagInv'
<1>1. PICK j : j = [hjob[p] EXCEPT !.pc = "announcing"]
  OBVIOUS
<1>2. j \in JobType /\ j.pc = "announcing" /\ j.left = hjob[p].left
  BY <1>1, JobFields DEF JobType, HarnessPoints
<1>3. /\ hjob' = [hjob EXCEPT ![p] = j] /\ hjob[p].pc = "connecting" /\ hjob[p].left # {}
      /\ UNCHANGED <<initialized, overlaps, shutdowns>> /\ faults' \in {faults, faults + 1}
      /\ \/ up' = up \cup {Server(p)} /\ refused' = refused \ {Server(p)}
         \/ up' = up /\ refused' = refused \cup {Server(p)}
  BY <1>1, JobFields DEF Connect, ConnectFails, Fault, counted, HAt, HGoto
<1>4. /\ Turn(p) \in hjob[p].left /\ Turn(p) \in DOMAIN Servers /\ Server(p) = Servers[Turn(p)]
      /\ \A k \in hjob[p].left : Turn(p) <= k
  BY <1>3, TurnsInOrder DEF Server
<1>5. up \cup refused \subseteq up' \cup refused' /\ Server(p) \in up' \cup refused'
  BY <1>3
<1>6. ASSUME shutdowns = 0
      PROVE  HasTried(j)'
  <2>1. \A i \in Past(hjob[p]) : Servers[i] \in up \cup refused
    BY <1>3, <1>6 DEF FlagInv, Trying, HasTried
  <2>2. ASSUME NEW i \in Past(j)
        PROVE  Servers[i] \in up' \cup refused'
    <3>1. ASSUME i \notin hjob[p].left
          PROVE  Servers[i] \in up' \cup refused'
      BY <1>5, <2>1, <3>1 DEF Past
    <3>2. ASSUME i \in hjob[p].left
          PROVE  Servers[i] \in up' \cup refused'
      <4>1. i <= Turn(p) /\ Turn(p) <= i /\ i \in DOMAIN Servers
        BY <1>2, <1>4, <3>2 DEF Past
      <4>2. i = Turn(p)
        BY <1>4, <4>1, HarnessAssumption
      <4>3. QED
        BY <1>4, <1>5, <4>2
    <3>3. QED
      BY <3>1, <3>2
  <2>3. QED
    BY <1>2, <2>2 DEF HasTried, Past
<1>7. ASSUME Alone
      PROVE  StandsAlone(j)' /\ up' \subseteq {Servers[i] : i \in DOMAIN Servers}
  <2>1. up' \subseteq up \cup {Server(p)}
    BY <1>3
  <2>2. QED
    BY <1>2, <1>4, <1>7, <2>1 DEF Alone, StandsAlone
<1>8. QED
  BY <1>2, <1>3, <1>5, <1>6, <1>7, CallStep

LEMMA AnnouncedKeepsFlag ==
  ASSUME FlagInv, NEW p \in Clients, Announced(p)
  PROVE  FlagInv'
<1>1. PICK rest : rest = hjob[p].left \ {Turn(p)}
  OBVIOUS
<1>2. PICK j : j = [hjob[p] EXCEPT !.pc = "connecting", !.left = rest]
  OBVIOUS
<1>3. rest \subseteq DOMAIN Servers
  BY <1>1, JobFields
<1>4. j \in JobType /\ j.pc = "connecting" /\ j.left = rest
  BY <1>2, <1>3, JobFields DEF JobType, HarnessPoints
<1>5. /\ hjob' = [hjob EXCEPT ![p] = j] /\ hjob[p].pc = "announcing"
      /\ UNCHANGED <<initialized, up, refused, overlaps, faults, shutdowns>>
  BY <1>1, <1>2, JobFields DEF Announced, counted, HAt
<1>6. ASSUME shutdowns = 0
      PROVE  HasTried(j)'
  <2>1. \A i \in Past(hjob[p]) : Servers[i] \in up \cup refused
    BY <1>5, <1>6 DEF FlagInv, Trying, HasTried
  <2>2. ASSUME NEW i \in DOMAIN Servers, i \notin rest
        PROVE  i \in Past(hjob[p])
    <3>1. ASSUME i \in hjob[p].left
          PROVE  \A k \in hjob[p].left : i <= k
      BY <1>1, <2>2, <3>1, TurnsInOrder
    <3>2. QED
      BY <1>5, <3>1 DEF Past
  <2>3. \A i \in Past(j) : i \in DOMAIN Servers /\ i \notin rest
    BY <1>4 DEF Past
  <2>4. QED
    BY <1>4, <1>5, <2>1, <2>2, <2>3 DEF HasTried, Past
<1>7. Alone => StandsAlone(j)' /\ up' \subseteq {Servers[i] : i \in DOMAIN Servers}
  BY <1>4, <1>5 DEF Alone, StandsAlone
<1>8. QED
  BY <1>4, <1>5, <1>6, <1>7, CallStep

\* Every server has been tried when the flag is set.
LEMMA InitializeKeepsFlag ==
  ASSUME FlagInv, NEW p \in Clients, Initialize(p)
  PROVE  FlagInv'
<1>1. PICK j : j = [hjob[p] EXCEPT !.pc = "initialized"]
  OBVIOUS
<1>2. j \in JobType /\ j.pc = "initialized"
  BY <1>1, JobFields DEF JobType, HarnessPoints
<1>3. /\ hjob' = [hjob EXCEPT ![p] = j] /\ hjob[p].pc = "connecting" /\ hjob[p].left = {}
      /\ initialized' = TRUE /\ UNCHANGED <<up, refused, overlaps, faults, shutdowns>>
  BY <1>1, JobFields DEF Initialize, counted, HAt, HGoto
<1>4. HasTried(j)'
  BY <1>2 DEF HasTried
<1>5. shutdowns = 0 => \A i \in DOMAIN Servers : Servers[i] \in up' \cup refused'
  BY <1>3 DEF FlagInv, Trying, HasTried, Past
<1>6. Alone => StandsAlone(j)' /\ up' \subseteq {Servers[i] : i \in DOMAIN Servers}
  BY <1>2, <1>3 DEF Alone, StandsAlone
<1>7. QED
  BY <1>2, <1>3, <1>4, <1>5, <1>6, CallStep

LEMMA UseKeepsFlag ==
  ASSUME FlagInv, NEW p \in Clients,
         Proceed(p) \/ ListTools(p) \/ Complete(p) \/ Completed(p) \/ Rejects(p)
  PROVE  FlagInv'
<1>1. hjob[p] \in JobType /\ hjob \in [Clients -> JobType]
  BY JobFields
<1>2. ASSUME Proceed(p)
      PROVE  FlagInv'
  <2>1. PICK j : j = IF hjob[p].kind = "initialize" THEN NoJob ELSE WithSession(hjob[p])
    OBVIOUS
  <2>2. j \in JobType /\ j.pc \in {"idle", "tools", "completing"}
    BY <1>1, <2>1, Idle, SessionJobs
  <2>3. hjob' = [hjob EXCEPT ![p] = j] /\ hjob[p].pc = "initialized"
        /\ UNCHANGED <<initialized, up, refused, overlaps, faults, shutdowns>>
    BY <1>1, <1>2, <2>1 DEF Proceed, counted, HAt
  <2>4. QED
    BY <2>2, <2>3, PlainKeepsFlag
<1>3. ASSUME ListTools(p), hjob[p].left = {}
      PROVE  FlagInv'
  <2>1. PICK j : j = [hjob[p] EXCEPT !.pc = "completing"]
    OBVIOUS
  <2>2. j \in JobType /\ j.pc = "completing"
    BY <1>1, <2>1 DEF JobType, HarnessPoints
  <2>3. hjob' = [hjob EXCEPT ![p] = j] /\ hjob[p].pc = "tools"
        /\ UNCHANGED <<initialized, up, refused, overlaps, faults, shutdowns>>
    BY <1>1, <1>3, <2>1 DEF ListTools, counted, HAt
  <2>4. QED
    BY <2>2, <2>3, PlainKeepsFlag
<1>4. ASSUME ListTools(p), hjob[p].left # {}
      PROVE  FlagInv'
  <2>1. PICK rest : rest = hjob[p].left \ {Turn(p)}
    OBVIOUS
  <2>2. PICK offered : offered = hjob[p].offered \cup {Server(p)}
    OBVIOUS
  <2>3. PICK j : j = [hjob[p] EXCEPT !.left = rest, !.offered = offered]
    OBVIOUS
  <2>4. rest \subseteq DOMAIN Servers /\ offered \subseteq {Servers[i] : i \in DOMAIN Servers}
    BY <1>1, <1>4, <2>1, <2>2, TurnsInOrder DEF JobType, Server
  <2>5. hjob' = [hjob EXCEPT ![p] = j] /\ hjob[p].pc = "tools"
        /\ UNCHANGED <<initialized, up, refused, overlaps, faults, shutdowns>>
    BY <1>1, <1>4, <2>1, <2>2, <2>3 DEF ListTools, counted, HAt
  <2>6. j \in JobType /\ j.pc = "tools"
    BY <1>1, <2>3, <2>4, <2>5 DEF JobType
  <2>7. QED
    BY <2>5, <2>6, PlainKeepsFlag
<1>5. ASSUME Complete(p)
      PROVE  FlagInv'
  <2>1. PICK j : j = [hjob[p] EXCEPT !.pc = "waiting"]
    OBVIOUS
  <2>2. j \in JobType /\ j.pc = "waiting"
    BY <1>1, <2>1 DEF JobType, HarnessPoints
  <2>3. hjob' = [hjob EXCEPT ![p] = j] /\ hjob[p].pc = "completing"
        /\ UNCHANGED <<initialized, up, refused, overlaps, faults, shutdowns>>
    BY <1>1, <1>5, <2>1 DEF Complete, counted, HAt, HGoto
  <2>4. QED
    BY <2>2, <2>3, PlainKeepsFlag
<1>6. ASSUME Completed(p)
      PROVE  FlagInv'
  <2>1. hjob' = [hjob EXCEPT ![p] = NoJob] /\ hjob[p].pc = "waiting"
        /\ UNCHANGED <<initialized, up, refused, overlaps, faults, shutdowns>>
    BY <1>6 DEF Completed, counted, HAt, HEnd
  <2>2. QED
    BY <2>1, Idle, PlainKeepsFlag
<1>7. ASSUME Rejects(p)
      PROVE  FlagInv'
  <2>1. hjob' = [hjob EXCEPT ![p] = NoJob] /\ hjob[p].pc # "idle" /\ faults' = faults + 1
        /\ UNCHANGED <<initialized, up, refused, overlaps, shutdowns>>
    BY <1>7 DEF Rejects, counted, HEnd, Fault
  <2>2. QED
    BY <2>1, Idle, PlainKeepsFlag
<1>8. QED
  BY <1>2, <1>3, <1>4, <1>5, <1>6, <1>7

LEMMA ClosingKeepsFlag ==
  ASSUME FlagInv, NEW p \in Clients, Disconnect(p) \/ Close(p)
  PROVE  FlagInv'
<1>1. hjob[p].pc = "closing" /\ hjob[p] \in JobType /\ hjob \in [Clients -> JobType]
  BY JobFields DEF Disconnect, Close, HAt
<1>2. shutdowns # 0
  BY <1>1 DEF FlagInv, Trying, HasTried
<1>3. Alone => up \subseteq {Servers[i] : i \in hjob[p].left}
  BY <1>1 DEF Alone, StandsAlone
<1>4. ASSUME Disconnect(p)
      PROVE  FlagInv'
  <2>1. PICK rest : rest = hjob[p].left \ {Turn(p)}
    OBVIOUS
  <2>2. PICK j : j = [hjob[p] EXCEPT !.left = rest]
    OBVIOUS
  <2>3. rest \subseteq DOMAIN Servers
    BY <2>1, JobFields
  <2>4. j \in JobType /\ j.pc = "closing" /\ j.left = rest
    BY <1>1, <2>2, <2>3 DEF JobType
  <2>5. /\ hjob' = [hjob EXCEPT ![p] = j] /\ up' = up \ {Server(p)} /\ hjob[p].left # {}
        /\ UNCHANGED <<initialized, refused, overlaps, faults, shutdowns>>
    BY <1>1, <1>4, <2>1, <2>2 DEF Disconnect, counted
  <2>6. ASSUME Alone
        PROVE  StandsAlone(j)' /\ up' \subseteq {Servers[i] : i \in DOMAIN Servers}
    <3>1. up' \subseteq {Servers[i] : i \in rest}
      BY <1>3, <2>1, <2>5, <2>6 DEF Server
    <3>2. QED
      BY <2>3, <2>4, <3>1 DEF StandsAlone
  <2>7. QED
    BY <1>1, <1>2, <2>4, <2>5, <2>6, CallStep
<1>5. ASSUME Close(p)
      PROVE  FlagInv'
  <2>1. /\ hjob' = [hjob EXCEPT ![p] = NoJob] /\ hjob[p].left = {}
        /\ UNCHANGED <<up, overlaps, faults, shutdowns>>
    BY <1>5 DEF Close, counted, HEnd
  <2>2. Alone => up' = {}
    BY <1>3, <2>1
  <2>3. ASSUME Alone
        PROVE  StandsAlone(NoJob)' /\ up' \subseteq {Servers[i] : i \in DOMAIN Servers}
    BY <2>2, <2>3, Idle DEF StandsAlone
  <2>4. QED
    BY <1>1, <1>2, <2>1, <2>2, <2>3, Idle, CallStep
<1>6. QED
  BY <1>4, <1>5

LEMMA HarnessKeepsFlag ==
  FlagInv /\ [AppNext]_appVars => FlagInv'
<1> SUFFICES ASSUME FlagInv, [AppNext]_appVars
             PROVE  FlagInv'
  OBVIOUS
<1>1. ASSUME UNCHANGED <<initialized, up, refused, hjob, overlaps, faults, shutdowns>>
      PROVE  FlagInv'
  <2>1. Trying => Trying'
    BY <1>1 DEF Trying, HasTried, Past
  <2>2. Alone => Alone'
    BY <1>1 DEF Alone, StandsAlone, Busy, HAt
  <2>3. QED
    BY <1>1, <2>1, <2>2 DEF FlagInv
<1>2. ASSUME SessionStep
      PROVE  FlagInv'
  BY <1>1, <1>2 DEF SessionStep, CreateSession, EndSession
<1>3. ASSUME NEW p \in Clients, HarnessStart(p)
      PROVE  FlagInv'
  BY <1>3, BeginKeepsFlag, ShutdownKeepsFlag DEF HarnessStart, Kinds
<1>4. ASSUME NEW p \in Clients, HarnessStep(p) \/ ConnectFails(p) \/ Rejects(p)
      PROVE  FlagInv'
  BY <1>4, InitializingKeepsFlag, ConnectKeepsFlag, AnnouncedKeepsFlag, InitializeKeepsFlag,
     UseKeepsFlag, ClosingKeepsFlag DEF HarnessStep
<1>5. ASSUME HarnessNext
      PROVE  FlagInv'
  BY <1>2, <1>3, <1>4, <1>5 DEF HarnessNext
<1>6. QED
  BY <1>1, <1>5 DEF AppNext, appVars, harnessVars

\* The harness, for any clients and servers: until the first shutdown, whoever finds
\* it initialized finds every server tried, also when several calls initialize it at
\* once; and while calls come one at a time and nothing fails, one that is shut down
\* has no server left.
THEOREM ServersAlwaysFollow == AppSpec => []ServersFollowTheFlag
<1>1. AppInit => FlagInv
  <2> SUFFICES ASSUME AppInit
               PROVE  FlagInv
    OBVIOUS
  <2>1. /\ hjob = [p \in Clients |-> NoJob] /\ up = {} /\ initialized = FALSE
        /\ overlaps = 0 /\ faults = 0 /\ shutdowns = 0
    BY DEF AppInit, HarnessInit
  <2>2. hjob \in [Clients -> JobType] /\ \A p \in Clients : hjob[p].pc = "idle"
    BY <2>1, Idle
  <2>3. Trying
    BY <2>1, <2>2 DEF Trying, HasTried
  <2>4. Alone
    BY <2>1, <2>2 DEF Alone, StandsAlone, HAt
  <2>5. QED
    BY <2>1, <2>2, <2>3, <2>4 DEF FlagInv
<1>2. QED
  BY <1>1, FlagSuffices, HarnessKeepsFlag, PTL DEF AppSpec

--------------------------------------------------------------------------------
(* Streams                                                                 *)

Symbols == UNION {{b[n] : n \in DOMAIN b} : b \in Bodies}
Chunks == {"text", "tool", "finish"}

\* The end mark is among the lines that end by i.
Closed(i) == \E j \in LineEnds : j <= i /\ IsDone(LineTo(j))

\* Where the line begins that place i belongs to.
LastEnd(i) == M!Max({0} \cup {j \in LineEnds : j < i})

\* What line end i has to say; a function of the place sums it up.
Adds(i) == IF i \in Heard THEN Worth(LineTo(i)) ELSE <<>>
SumsUp(f) == f = [i \in 0 .. Len(body) |-> IF i = 0 THEN <<>> ELSE f[i - 1] \o Adds(i)]

LEMMA MaxExists ==
  ASSUME NEW n \in Nat, NEW T \in SUBSET (0 .. n), T # {}
  PROVE  M!Max(T) \in T /\ \A y \in T : y <= M!Max(T)
<1>1. PICK U : U = {n - x : x \in T}
  OBVIOUS
<1>2. U \in SUBSET Nat /\ U # {}
  <2>1. \A x \in T : n - x \in Nat
    OBVIOUS
  <2>2. QED
    BY <1>1, <2>1
<1>3. PICK m \in U : \A y \in U : m <= y
  BY <1>2, NatMin
<1>4. PICK x \in T : m = n - x
  BY <1>1, <1>3
<1>5. \A y \in T : x >= y
  <2>1. ASSUME NEW y \in T
        PROVE  x >= y
    <3>1. n - y \in U
      BY <1>1
    <3>2. n - x <= n - y /\ x \in 0 .. n /\ y \in 0 .. n
      BY <1>3, <1>4, <3>1
    <3>3. QED
      BY <3>2
  <2>2. QED
    BY <2>1
<1>6. M!Max(T) \in T /\ \A y \in T : M!Max(T) >= y
  BY <1>5 DEF M!Max
<1>7. QED
  BY <1>6

LEMMA LastEndIs ==
  ASSUME body \in Seq(Symbols), NEW i \in 1 .. Len(body) + 1
  PROVE  /\ LastEnd(i) \in 0 .. i - 1
         /\ LastEnd(i) # 0 => LastEnd(i) \in LineEnds
         /\ \A j \in LineEnds : j < i => j <= LastEnd(i)
<1>1. PICK T : T = {0} \cup {j \in LineEnds : j < i}
  OBVIOUS
<1>2. T \in SUBSET (0 .. i - 1) /\ T # {} /\ i - 1 \in Nat
  BY <1>1 DEF LineEnds
<1>3. M!Max(T) \in T /\ \A y \in T : y <= M!Max(T)
  BY <1>2, MaxExists
<1>4. LastEnd(i) = M!Max(T)
  BY <1>1 DEF LastEnd
<1>5. QED
  BY <1>1, <1>2, <1>3, <1>4

\* A line is known by the end before it.
LEMMA LastEndBy ==
  ASSUME body \in Seq(Symbols), NEW i \in 1 .. Len(body) + 1, NEW m \in 0 .. i - 1,
         m # 0 => m \in LineEnds, \A j \in LineEnds : j < i => j <= m
  PROVE  LastEnd(i) = m
<1>1. LastEnd(i) <= m
  BY LastEndIs
<1>2. m <= LastEnd(i)
  BY LastEndIs
<1>3. QED
  BY <1>1, <1>2, LastEndIs

LEMMA LineIs ==
  ASSUME body \in Seq(Symbols), NEW i \in 1 .. Len(body) + 1
  PROVE  LineTo(i) = SubSeq(body, LastEnd(i) + 1, i - 1) /\ LineTo(i) \in Seq(Symbols)
<1>1. LastEnd(i) \in 0 .. i - 1
  BY LastEndIs
<1>2. LineTo(i) = SubSeq(body, 1 + LastEnd(i), i - 1)
  BY DEF LineTo, LastEnd
<1>3. 1 + LastEnd(i) = LastEnd(i) + 1 /\ LastEnd(i) + 1 \in 1 .. Len(body) + 1 /\ i - 1 \in 0 .. Len(body)
  BY <1>1
<1>4. SubSeq(body, LastEnd(i) + 1, i - 1) \in Seq(Symbols)
  BY <1>3
<1>5. QED
  BY <1>2, <1>3, <1>4

\* One more symbol of the body makes the line longer or ends it.
LEMMA LineGrows ==
  ASSUME body \in Seq(Symbols), NEW i \in 1 .. Len(body)
  PROVE  LineTo(i + 1) = IF body[i] = "NL" THEN <<>> ELSE Append(LineTo(i), body[i])
<1>1. LastEnd(i) \in 0 .. i - 1 /\ i + 1 \in 1 .. Len(body) + 1 /\ i \in 1 .. Len(body) + 1
  BY LastEndIs
<1>2. CASE body[i] = "NL"
  <2>1. i \in LineEnds
    BY <1>2 DEF LineEnds
  <2>2. LastEnd(i + 1) = i
    <3>1. \A j \in LineEnds : j < i + 1 => j <= i
      BY DEF LineEnds
    <3>2. QED
      BY <1>1, <2>1, <3>1, LastEndBy
  <2>3. LineTo(i + 1) = SubSeq(body, i + 1, i)
    BY <1>1, <2>2, LineIs
  <2>4. QED
    BY <1>2, <2>3
<1>3. CASE body[i] # "NL"
  <2>1. i \notin LineEnds
    BY <1>3 DEF LineEnds
  <2>2. LastEnd(i + 1) = LastEnd(i)
    <3>1. LastEnd(i) # 0 => LastEnd(i) \in LineEnds
      BY <1>1, LastEndIs
    <3>2. \A j \in LineEnds : j < i + 1 => j <= LastEnd(i)
      BY <1>1, <2>1, LastEndIs DEF LineEnds
    <3>3. LastEnd(i) \in 0 .. (i + 1) - 1
      BY <1>1
    <3>4. QED
      BY <1>1, <3>1, <3>2, <3>3, LastEndBy
  <2>3. PICK m : m = LastEnd(i)
    OBVIOUS
  <2>4. LineTo(i + 1) = SubSeq(body, m + 1, i) /\ LineTo(i) = SubSeq(body, m + 1, i - 1)
    BY <1>1, <2>2, <2>3, LineIs
  <2>5. m \in 0 .. i - 1
    BY <1>1, <2>3
  <2>6. SubSeq(body, m + 1, i) = Append(SubSeq(body, m + 1, i - 1), body[i])
    <3>1. m + 1 \in 1 .. Len(body) /\ i \in m + 1 .. Len(body)
      BY <2>5
    <3>2. SubSeq(body, m + 1, i) = SubSeq(body, m + 1, i - 1) \o <<body[i]>>
      BY <3>1, SubSeqRecursiveSecond
    <3>3. SubSeq(body, m + 1, i - 1) \in Seq(Symbols) /\ body[i] \in Symbols
      <4>1. LineTo(i) \in Seq(Symbols)
        BY <1>1, LineIs
      <4>2. QED
        BY <2>4, <4>1
    <3>4. QED
      BY <3>2, <3>3, AppendIsConcat
  <2>7. QED
    BY <1>3, <2>4, <2>6
<1>4. QED
  BY <1>2, <1>3

LEMMA OneElement ==
  ASSUME NEW T, NEW x \in T
  PROVE  <<x>> \in Seq(T)
OBVIOUS

LEMMA Regroup ==
  ASSUME NEW s \in Seq(Chunks), NEW t \in Seq(Chunks), NEW u \in Seq(Chunks)
  PROVE  s \o (t \o u) = (s \o t) \o u
BY ConcatAssociative

LEMMA WorthIsSaid ==
  ASSUME NEW line
  PROVE  Worth(line) \in Seq(Chunks)
<1>1. /\ <<>> \in Seq(Chunks) /\ <<"tool">> \in Seq(Chunks) /\ <<"text">> \in Seq(Chunks)
      /\ <<"finish">> \in Seq(Chunks)
  <2>1. \A x \in Chunks : <<x>> \in Seq(Chunks)
    BY OneElement
  <2>2. QED
    BY <2>1 DEF Chunks
<1>2. ASSUME NEW type, NEW event
      PROVE  Yields(type, event) \in Seq(Chunks)
  <2>1. OpenAiYields(event) \in {<<>>, <<"tool">>, <<"text">>, <<"finish">>}
    BY DEF OpenAiYields
  <2>2. ClaudeYields(event) \in {<<>>, <<"tool">>, <<"text">>, <<"finish">>}
    BY DEF ClaudeYields
  <2>3. QED
    BY <1>1, <2>1, <2>2 DEF Yields
<1>3. QED
  BY <1>1, <1>2 DEF Worth

LEMMA SummingUp ==
  ASSUME body \in Seq(Symbols)
  PROVE  \E f \in [0 .. Len(body) -> Seq(Chunks)] : SumsUp(f)
<1>1. PICK n \in Nat : n = Len(body)
  OBVIOUS
<1>2. \A k \in 1 .. n : Adds(k) \in Seq(Chunks)
  <2>1. ASSUME NEW k \in 1 .. n
        PROVE  Adds(k) \in Seq(Chunks)
    <3>1. Worth(LineTo(k)) \in Seq(Chunks) /\ <<>> \in Seq(Chunks)
      BY WorthIsSaid
    <3>2. QED
      BY <3>1 DEF Adds
  <2>2. QED
    BY <2>1
<1>3. PICK step : step = [k \in 1 .. n |-> [w \in Seq(Chunks) |-> w \o Adds(k)]]
  OBVIOUS
<1>4. step \in [1 .. n -> [Seq(Chunks) -> Seq(Chunks)]]
  <2>1. \A k \in 1 .. n : \A w \in Seq(Chunks) : w \o Adds(k) \in Seq(Chunks)
    BY <1>2
  <2>2. QED
    BY <1>3, <2>1
<1>5. <<>> \in Seq(Chunks)
  OBVIOUS
<1>6. PICK f : Unfolds(f, Seq(Chunks), <<>>, step, n)
  BY <1>4, <1>5, FoldExists
<1>7. f \in [0 .. n -> Seq(Chunks)] /\ f[0] = <<>>
  BY <1>6 DEF Unfolds
<1>8. ASSUME NEW k \in 1 .. n
      PROVE  f[k] = f[k - 1] \o Adds(k)
  <2>1. f[k] = step[k][f[k - 1]] /\ f[k - 1] \in Seq(Chunks)
    BY <1>6, <1>7 DEF Unfolds
  <2>2. QED
    BY <1>3, <2>1
<1>9. f = [k \in 0 .. n |-> IF k = 0 THEN <<>> ELSE f[k - 1] \o Adds(k)]
  <2>1. f = [k \in 0 .. n |-> f[k]]
    BY <1>7
  <2>2. \A k \in 0 .. n : f[k] = IF k = 0 THEN <<>> ELSE f[k - 1] \o Adds(k)
    <3>1. \A k \in 0 .. n : k = 0 \/ k \in 1 .. n
      OBVIOUS
    <3>2. QED
      BY <1>7, <1>8, <3>1
  <2>3. QED
    BY <2>1, <2>2
<1>10. QED
  BY <1>1, <1>7, <1>9 DEF SumsUp

\* There is one such function.
LEMMA OneSum ==
  ASSUME NEW f, NEW g, SumsUp(f), SumsUp(g), NEW i \in 0 .. Len(body), Len(body) \in Nat
  PROVE  f[i] = g[i]
<1> DEFINE T == {k \in Nat : k <= Len(body) => f[k] = g[k]}
<1>1. 0 \in T
  BY DEF SumsUp
<1>2. ASSUME NEW k \in Nat, k \in T
      PROVE  k + 1 \in T
  <2>1. SUFFICES ASSUME k + 1 <= Len(body)
                 PROVE  f[k + 1] = g[k + 1]
    OBVIOUS
  <2>2. k + 1 \in 0 .. Len(body) /\ k + 1 # 0 /\ (k + 1) - 1 = k /\ f[k] = g[k]
    BY <1>2, <2>1
  <2>3. f[k + 1] = f[k] \o Adds(k + 1) /\ g[k + 1] = g[k] \o Adds(k + 1)
    BY <2>2 DEF SumsUp
  <2>4. QED
    BY <2>2, <2>3
<1>3. i \in T
  <2> HIDE DEF T
  <2>1. QED
    BY <1>1, <1>2, SetInduction
<1>4. QED
  BY <1>3

Cut == [line : Seq(Symbols), yields : Seq(Chunks), closed : BOOLEAN]

LEMMA TakeIsCut ==
  ASSUME NEW acc \in Cut, NEW x \in Symbols
  PROVE  Take(acc, x) \in Cut
<1>1. Append(acc.line, x) \in Seq(Symbols) /\ acc.yields \o Worth(acc.line) \in Seq(Chunks)
  BY WorthIsSaid DEF Cut
<1>2. QED
  <2>1. <<>> \in Seq(Symbols) /\ IsDone(acc.line) \in BOOLEAN
    BY DEF IsDone
  <2>2. [acc EXCEPT !.line = Append(acc.line, x)] \in Cut
    BY <1>1 DEF Cut
  <2>3. [line |-> <<>>, yields |-> acc.yields \o Worth(acc.line), closed |-> IsDone(acc.line)] \in Cut
    BY <1>1, <2>1 DEF Cut
  <2>4. QED
    BY <2>2, <2>3 DEF Take

Cuts(g, begun, chunk) ==
  g = [n \in 0 .. Len(chunk) |->
         IF n = 0 THEN [line |-> begun, yields |-> <<>>, closed |-> FALSE]
         ELSE Take(g[n - 1], chunk[n])]

\* What Lines computes is what taking one symbol after the other leads to.
LEMMA LinesAreCut ==
  ASSUME NEW begun \in Seq(Symbols), NEW chunk \in Seq(Symbols)
  PROVE  \E g : Cuts(g, begun, chunk) /\ Lines(begun, chunk) = g[Len(chunk)]
<1>1. PICK n \in Nat : n = Len(chunk)
  OBVIOUS
<1>2. PICK step : step = [k \in 1 .. n |-> [acc \in Cut |-> Take(acc, chunk[k])]]
  OBVIOUS
<1>3. step \in [1 .. n -> [Cut -> Cut]]
  <2>1. \A k \in 1 .. n : \A acc \in Cut : Take(acc, chunk[k]) \in Cut
    <3>1. \A k \in 1 .. n : chunk[k] \in Symbols
      BY <1>1
    <3>2. QED
      BY <3>1, TakeIsCut
  <2>2. QED
    BY <1>2, <2>1
<1>4. PICK base : base = [line |-> begun, yields |-> <<>>, closed |-> FALSE]
  OBVIOUS
<1>5. base \in Cut
  BY <1>4 DEF Cut
<1>6. PICK f : Unfolds(f, Cut, base, step, n)
  BY <1>3, <1>5, FoldExists
<1>7. f \in [0 .. n -> Cut] /\ f[0] = base
  BY <1>6 DEF Unfolds
<1>8. ASSUME NEW k \in 1 .. n
      PROVE  f[k] = Take(f[k - 1], chunk[k])
  <2>1. f[k] = step[k][f[k - 1]] /\ f[k - 1] \in Cut
    BY <1>6, <1>7 DEF Unfolds
  <2>2. QED
    BY <1>2, <2>1
<1>9. f = [k \in 0 .. n |-> IF k = 0 THEN base ELSE Take(f[k - 1], chunk[k])]
  BY <1>7, <1>8
<1>10. Cuts(f, begun, chunk)
  BY <1>1, <1>4, <1>9 DEF Cuts
<1>11. PICK g : g = CHOOSE h : Cuts(h, begun, chunk)
  OBVIOUS
<1>12. Cuts(g, begun, chunk)
  BY <1>10, <1>11, Zenon
<1>13. Lines(begun, chunk) = g[Len(chunk)]
  BY <1>11, Zenon DEF Cuts, Lines
<1>14. QED
  BY <1>12, <1>13

\* How far what has been taken has come, out before it included, at place i of the
\* body.
Reached(f, o, acc, i) ==
  /\ acc \in Cut
  /\ o \o acc.yields = f[i]
  /\ acc.closed <=> Closed(i)
  /\ ~acc.closed => acc.line = LineTo(i + 1)

LEMMA ClosedBy ==
  ASSUME body \in Seq(Symbols), NEW i \in 1 .. Len(body)
  PROVE  /\ Closed(i) <=> Closed(i - 1) \/ (i \in LineEnds /\ IsDone(LineTo(i)))
         /\ i \in Heard <=> i \in LineEnds /\ ~Closed(i - 1)
<1>1. \A j \in LineEnds : (j <= i <=> j <= i - 1 \/ j = i) /\ (j < i <=> j <= i - 1)
  BY DEF LineEnds
<1>2. QED
  BY <1>1 DEF Closed, Heard

LEMMA TakeReaches ==
  ASSUME body \in Seq(Symbols), NEW i \in 1 .. Len(body), NEW o \in Seq(Chunks), NEW acc,
         NEW f \in [0 .. Len(body) -> Seq(Chunks)], SumsUp(f), Reached(f, o, acc, i - 1)
  PROVE  Reached(f, o, Take(acc, body[i]), i)
<1>1. PICK more : more = Take(acc, body[i])
  OBVIOUS
<1>2. /\ acc \in Cut /\ more \in Cut /\ body[i] \in Symbols
      /\ o \o acc.yields = f[i - 1] /\ (acc.closed <=> Closed(i - 1))
      /\ ~acc.closed => acc.line = LineTo(i)
  <2>1. body[i] \in Symbols /\ (i - 1) + 1 = i
    OBVIOUS
  <2>2. /\ acc \in Cut /\ o \o acc.yields = f[i - 1] /\ (acc.closed <=> Closed(i - 1))
        /\ ~acc.closed => acc.line = LineTo((i - 1) + 1)
    BY DEF Reached
  <2>3. QED
    BY <1>1, <2>1, <2>2, TakeIsCut
<1>3. f[i] = f[i - 1] \o Adds(i) /\ f[i - 1] \in Seq(Chunks)
  <2>1. i \in 0 .. Len(body) /\ i # 0 /\ i - 1 \in 0 .. Len(body)
    OBVIOUS
  <2>2. f[i] = IF i = 0 THEN <<>> ELSE f[i - 1] \o Adds(i)
    BY <2>1 DEF SumsUp
  <2>3. QED
    BY <2>1, <2>2
<1>4. acc.yields \in Seq(Chunks) /\ acc.line \in Seq(Symbols)
  BY <1>2 DEF Cut
<1>5. /\ Closed(i) <=> Closed(i - 1) \/ (i \in LineEnds /\ IsDone(LineTo(i)))
      /\ i \in Heard <=> i \in LineEnds /\ ~Closed(i - 1)
  BY ClosedBy
<1>6. i \in LineEnds <=> body[i] = "NL"
  BY DEF LineEnds
<1>7. CASE acc.closed
  <2>1. more = acc /\ Adds(i) = <<>> /\ Closed(i)
    BY <1>1, <1>2, <1>5, <1>7 DEF Take, Adds
  <2>2. f[i] = f[i - 1]
    BY <1>3, <2>1
  <2>3. QED
    BY <1>1, <1>2, <1>7, <2>1, <2>2 DEF Reached
<1>8. CASE ~acc.closed /\ body[i] # "NL"
  <2>1. more = [acc EXCEPT !.line = Append(acc.line, body[i])] /\ Adds(i) = <<>> /\ ~Closed(i)
    BY <1>1, <1>2, <1>5, <1>6, <1>8 DEF Take, Adds
  <2>2. more.yields = acc.yields /\ more.closed = acc.closed /\ more.line = Append(LineTo(i), body[i])
    BY <1>2, <1>8, <2>1 DEF Cut
  <2>3. f[i] = f[i - 1]
    BY <1>3, <2>1
  <2>4. LineTo(i + 1) = Append(LineTo(i), body[i])
    BY <1>8, LineGrows
  <2>5. QED
    BY <1>1, <1>2, <1>8, <2>1, <2>2, <2>3, <2>4 DEF Reached
<1>9. CASE ~acc.closed /\ body[i] = "NL"
  <2>1. /\ more.yields = acc.yields \o Worth(LineTo(i))
        /\ more.closed = IsDone(LineTo(i))
        /\ more.line = <<>> /\ LineTo(i + 1) = <<>>
    BY <1>1, <1>2, <1>9, LineGrows DEF Take
  <2>2. Adds(i) = Worth(LineTo(i)) /\ (more.closed <=> Closed(i))
    BY <1>2, <1>5, <1>6, <1>9, <2>1 DEF Adds
  <2>3. o \o more.yields = f[i]
    <3>1. Worth(LineTo(i)) \in Seq(Chunks)
      BY WorthIsSaid
    <3>2. o \o (acc.yields \o Worth(LineTo(i))) = (o \o acc.yields) \o Worth(LineTo(i))
      <4>1. PICK w \in Seq(Chunks) : w = Worth(LineTo(i))
        BY <3>1
      <4>2. PICK y \in Seq(Chunks) : y = acc.yields
        BY <1>4
      <4>3. o \o (y \o w) = (o \o y) \o w
        BY Regroup, Zenon
      <4>4. QED
        BY <4>1, <4>2, <4>3
    <3>3. QED
      BY <1>2, <1>3, <2>1, <2>2, <3>2
  <2>4. QED
    BY <1>1, <1>2, <2>1, <2>2, <2>3 DEF Reached
<1>10. QED
  BY <1>7, <1>8, <1>9

\* A chunk leads from one place to the one behind it.
LEMMA LinesReach ==
  ASSUME body \in Seq(Symbols), NEW r \in 0 .. Len(body), NEW n \in 0 .. Len(body) - r,
         NEW o \in Seq(Chunks), NEW begun \in Seq(Symbols),
         NEW f \in [0 .. Len(body) -> Seq(Chunks)], SumsUp(f),
         Reached(f, o, [line |-> begun, yields |-> <<>>, closed |-> FALSE], r)
  PROVE  Reached(f, o, Lines(begun, SubSeq(body, r + 1, r + n)), r + n)
<1>1. PICK chunk : chunk = SubSeq(body, r + 1, r + n)
  OBVIOUS
<1>2. chunk \in Seq(Symbols) /\ Len(chunk) = n /\ \A k \in 1 .. n : chunk[k] = body[r + k]
  <2>1. \A k \in r + 1 .. r + n : body[k] \in Symbols
    OBVIOUS
  <2>2. r + 1 \in Int /\ r + n \in Int
    OBVIOUS
  <2>3. /\ chunk \in Seq(Symbols)
        /\ Len(chunk) = IF r + 1 <= r + n THEN (r + n) - (r + 1) + 1 ELSE 0
        /\ \A k \in 1 .. (r + n) - (r + 1) + 1 : chunk[k] = body[(r + 1) + k - 1]
    BY <1>1, <2>1, <2>2, SubSeqProperties
  <2>4. Len(chunk) = n
    BY <2>3
  <2>5. \A k \in 1 .. n : (r + 1) + k - 1 = r + k /\ k \in 1 .. (r + n) - (r + 1) + 1
    OBVIOUS
  <2>6. QED
    BY <2>3, <2>4, <2>5
<1> n \in Nat
  OBVIOUS
<1>3. PICK g : Cuts(g, begun, chunk) /\ Lines(begun, chunk) = g[Len(chunk)]
  BY <1>2, LinesAreCut
<1>4. \A k \in 0 .. n : g[k] = IF k = 0 THEN [line |-> begun, yields |-> <<>>, closed |-> FALSE]
                                 ELSE Take(g[k - 1], chunk[k])
  BY <1>2, <1>3 DEF Cuts
<1>5. /\ g[0] = [line |-> begun, yields |-> <<>>, closed |-> FALSE]
      /\ \A k \in 1 .. n : g[k] = Take(g[k - 1], chunk[k])
  <2>1. 0 \in 0 .. n /\ \A k \in 1 .. n : k \in 0 .. n /\ k # 0
    OBVIOUS
  <2>2. QED
    BY <1>4, <2>1
<1> DEFINE T == {k \in Nat : k <= n => Reached(f, o, g[k], r + k)}
<1>6. 0 \in T
  BY <1>5
<1>7. ASSUME NEW k \in Nat, k \in T
      PROVE  k + 1 \in T
  <2>1. SUFFICES ASSUME k + 1 <= n
                 PROVE  Reached(f, o, g[k + 1], r + (k + 1))
    OBVIOUS
  <2>2. k + 1 \in 1 .. n /\ (k + 1) - 1 = k /\ r + (k + 1) \in 1 .. Len(body) /\ (r + (k + 1)) - 1 = r + k
    BY <2>1
  <2>3. Reached(f, o, g[k], (r + (k + 1)) - 1)
    BY <1>7, <2>1, <2>2
  <2>4. g[k + 1] = Take(g[k], body[r + (k + 1)])
    BY <1>2, <1>5, <2>2
  <2>5. QED
    BY <2>2, <2>3, <2>4, TakeReaches
<1>8. n \in T
  <2> HIDE DEF T
  <2>1. QED
    BY <1>6, <1>7, SetInduction
<1>9. Reached(f, o, g[n], r + n)
  BY <1>8
<1>10. QED
  BY <1>1, <1>2, <1>3, <1>9

\* What has been yielded is what the body so far adds up to, and a reader that still
\* reads holds the line that has begun.
ReaderInv ==
  /\ body \in Seq(Symbols) /\ read \in 0 .. Len(body)
  /\ out \in Seq(Chunks) /\ buffer \in Seq(Symbols) /\ reader \in {"reading", "done"}
  /\ reader = "reading" => buffer = LineTo(read + 1)
  /\ reader = "reading" => ~Closed(read)
  /\ \A f \in [0 .. Len(body) -> Seq(Chunks)] : SumsUp(f) => out = f[read]

LEMMA ReaderSuffices ==
  ASSUME ReaderInv
  PROVE  ChunkingDoesNotMatter
<1>1. PICK f \in [0 .. Len(body) -> Seq(Chunks)] : SumsUp(f)
  BY SummingUp DEF ReaderInv
<1>2. PICK g : g = CHOOSE h : SumsUp(h)
  OBVIOUS
<1>3. SumsUp(g)
  BY <1>1, <1>2, Zenon
<1>4. out = f[read] /\ read \in 0 .. Len(body) /\ Len(body) \in Nat
  BY <1>1 DEF ReaderInv
<1>5. out = g[read]
  BY <1>1, <1>3, <1>4, OneSum
<1>6. ChunkingDoesNotMatter <=> out = g[read]
  BY <1>2, Zenon DEF ChunkingDoesNotMatter, SumsUp, Adds
<1>7. QED
  BY <1>5, <1>6

LEMMA ReaderStarts ==
  ASSUME StreamInit
  PROVE  ReaderInv
<1>1. body \in Seq(Symbols)
  <2>1. body \in Bodies
    BY DEF StreamInit
  <2>2. body \in Seq({body[n] : n \in DOMAIN body}) /\ {body[n] : n \in DOMAIN body} \subseteq Symbols
    BY <2>1, StreamAssumption DEF Symbols
  <2>3. QED
    BY <2>2
<1>2. read = 0 /\ out = <<>> /\ buffer = <<>> /\ reader = "reading"
  BY DEF StreamInit
<1>3. LineTo(0 + 1) = <<>>
  <2>1. LastEnd(1) = 0
    BY <1>1, LastEndIs
  <2>2. LineTo(1) = SubSeq(body, 1, 0)
    BY <1>1, <2>1, LineIs
  <2>3. QED
    BY <1>1, <2>2
<1>4. ~Closed(0)
  BY <1>1 DEF Closed, LineEnds
<1>5. \A f : SumsUp(f) => f[0] = <<>>
  BY <1>1 DEF SumsUp
<1>6. 0 \in 0 .. Len(body) /\ <<>> \in Seq(Chunks) /\ <<>> \in Seq(Symbols)
  BY <1>1
<1>7. QED
  BY <1>1, <1>2, <1>3, <1>4, <1>5, <1>6 DEF ReaderInv

LEMMA SameBody ==
  ASSUME UNCHANGED <<dialect, body>>
  PROVE  /\ \A i : LineTo(i)' = LineTo(i)
         /\ \A i : Closed(i)' <=> Closed(i)
         /\ \A g : SumsUp(g)' <=> SumsUp(g)
<1>1. LineEnds' = LineEnds /\ \A i : LineTo(i)' = LineTo(i)
  BY DEF LineTo, LineEnds
<1>2. Heard' = Heard /\ \A i : Closed(i)' <=> Closed(i)
  BY <1>1 DEF Heard, Closed
<1>3. \A line : Worth(line)' = Worth(line)
  BY DEF Worth
<1>4. \A i : Adds(i)' = Adds(i)
  BY <1>1, <1>2, <1>3 DEF Adds
<1>5. QED
  BY <1>1, <1>2, <1>4 DEF SumsUp

LEMMA ChunkKeeps ==
  ASSUME ReaderInv, NEW n \in 1 .. Len(body), ReadChunk(n)
  PROVE  ReaderInv'
<1>1. /\ reader = "reading" /\ read + n <= Len(body) /\ read' = read + n
      /\ UNCHANGED <<dialect, body>>
  BY DEF ReadChunk
<1>2. PICK acc : acc = Lines(buffer, SubSeq(body, read + 1, read + n))
  OBVIOUS
<1>3. /\ buffer' = acc.line /\ out' = out \o acc.yields
      /\ reader' = IF acc.closed THEN "done" ELSE "reading"
  BY <1>2 DEF ReadChunk
<1>4. /\ body \in Seq(Symbols) /\ read \in 0 .. Len(body) /\ n \in 0 .. Len(body) - read
      /\ out \in Seq(Chunks) /\ buffer \in Seq(Symbols)
      /\ buffer = LineTo(read + 1) /\ ~Closed(read)
  BY <1>1 DEF ReaderInv
<1>5. ASSUME NEW f \in [0 .. Len(body) -> Seq(Chunks)], SumsUp(f)
      PROVE  Reached(f, out, acc, read + n)
  <2>1. PICK begun : begun = [line |-> buffer, yields |-> <<>>, closed |-> FALSE]
    OBVIOUS
  <2>2. begun \in Cut /\ begun.yields = <<>> /\ begun.closed = FALSE /\ begun.line = buffer
    BY <1>4, <2>1 DEF Cut
  <2>3. out \o <<>> = f[read]
    BY <1>4, <1>5 DEF ReaderInv
  <2>4. Reached(f, out, begun, read)
    BY <1>4, <2>2, <2>3 DEF Reached
  <2>5. Reached(f, out, [line |-> buffer, yields |-> <<>>, closed |-> FALSE], read)
    BY <2>1, <2>4
  <2>6. QED
    BY <1>2, <1>4, <1>5, <2>5, LinesReach
<1>6. PICK f \in [0 .. Len(body) -> Seq(Chunks)] : SumsUp(f)
  BY <1>4, SummingUp
<1>7. /\ acc \in Cut /\ (acc.closed <=> Closed(read + n))
      /\ ~acc.closed => acc.line = LineTo((read + n) + 1)
  BY <1>5, <1>6 DEF Reached
<1>8. \A g \in [0 .. Len(body) -> Seq(Chunks)] : SumsUp(g) => out' = g[read + n]
  BY <1>3, <1>5 DEF Reached
<1>9. /\ \A i : LineTo(i)' = LineTo(i)
      /\ \A i : Closed(i)' <=> Closed(i)
      /\ \A g : SumsUp(g)' <=> SumsUp(g)
  BY <1>1, SameBody
<1>10. acc.line \in Seq(Symbols) /\ out \o acc.yields \in Seq(Chunks)
  BY <1>4, <1>7 DEF Cut
<1>11. body' = body /\ read' \in 0 .. Len(body)
  BY <1>1, <1>4
<1>12. reader' = "reading" => /\ buffer' = LineTo(read' + 1)
                              /\ ~Closed(read')
  BY <1>1, <1>3, <1>7
<1>13. QED
  BY <1>1, <1>3, <1>4, <1>8, <1>9, <1>10, <1>11, <1>12 DEF ReaderInv

\* For any body of any provider, however the network cuts it: what a connector has
\* yielded is what the whole lines it has read are worth.
THEOREM ChunksAreOfLines == StreamSpec => []ChunkingDoesNotMatter
<1>1. ReaderInv /\ [StreamStep]_streamVars => ReaderInv'
  <2> SUFFICES ASSUME ReaderInv, [StreamStep]_streamVars
               PROVE  ReaderInv'
    OBVIOUS
  <2>1. ASSUME UNCHANGED <<dialect, body, read, buffer, out>>, reader' \in {reader, "done"}
        PROVE  ReaderInv'
    <3>1. /\ \A i : LineTo(i)' = LineTo(i)
          /\ \A i : Closed(i)' <=> Closed(i)
          /\ \A g : SumsUp(g)' <=> SumsUp(g)
      BY <2>1, SameBody
    <3>2. reader' \in {"reading", "done"} /\ (reader' = "reading" => reader = "reading")
      BY <2>1 DEF ReaderInv
    <3>3. QED
      BY <2>1, <3>1, <3>2 DEF ReaderInv
  <2>2. BodyEnds \/ UNCHANGED streamVars => ReaderInv'
    BY <2>1 DEF BodyEnds, streamVars
  <2>3. QED
    BY <2>2, ChunkKeeps DEF StreamStep
<1>2. QED
  BY <1>1, ReaderStarts, ReaderSuffices, PTL DEF StreamSpec

================================================================================
