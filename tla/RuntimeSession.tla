----------------------------- MODULE RuntimeSession -----------------------------
(***************************************************************************)
(* An execution in the Pi runtime: the runtime that the project selects,   *)
(* its guard, the agent session with its one tool, and the record of every *)
(* call of that tool.  src/runtime/{runtime-environment,                   *)
(* pi/pi-runtime-adapter}.ts, and the trace that is saved afterwards.      *)
(*                                                                         *)
(* Each execution has its own process and trace id.  The agent session and *)
(* the model behind it are external: they call the tool as they like, and  *)
(* the prompt is answered or fails between two calls.                      *)
(***************************************************************************)
EXTENDS ExecutionEnvironment

CONSTANTS
  Executions,    \* the ids of execution traces
  Policies,      \* what config.yml may say of the envelope
  Runtimes,      \* what runtime.defaultRuntime or --runtime may name
  MaxReads,      \* bound: calls of the tool in a session
  MaxRewrites,   \* bound: changes of files by others
  MaxLosses      \* bound: records that cannot be written

\* There is something to ask for wherever a policy may point.
ASSUME RuntimeAssumption ==
  \A p \in Policies :
    /\ p.hosts \subseteq Hosts /\ p.names \subseteq Secrets
    /\ \A folder \in AllowedPaths(p) :
         IsPath(folder) /\ (Within(Root, folder) => \E path \in Paths : Within(folder, path))

VARIABLES
  policy,    \* config.yml
  files,     \* for each path: "absent", "small", or "large" (over 256 KiB)
  exec,      \* the executions
  trail,     \* the tool-invocations directory
  lost,      \* the calls whose record could not be written
  rewrites

runtimeVars == <<policy, files, exec, trail, lost, rewrites>>

ExecutionPoints ==
  {"off", "import", "create", "prompt", "access", "read", "record", "trace",
   "saved", "threw", "crashed"}

\* `open`: there is a session that is not disposed.  `reads` counts the calls
\* of the tool; `handed` are those whose content the model was given.
NotStarted ==
  [pc |-> "off", open |-> FALSE, reads |-> 0, path |-> <<>>, outcome |-> "", handed |-> {}]

ExecutionAt(e, point) == exec[e].pc = point
ExecutionGoto(e, point) == exec' = [exec EXCEPT ![e].pc = point]

\* Pi is registered only when it is the one selected.
Registered(selected) == {"fake"} \cup ({"pi"} \cap {selected})

\* Mutant: only the paths that the tool is asked for are guarded.
StartsUnguarded(e) ==
  /\ ExecutionAt(e, "off")
  /\ \E selected \in Runtimes :
       LET starts == Accepts(policy) /\ selected \in Registered(selected)
       IN ExecutionGoto(e, IF ~starts THEN "threw"
                           ELSE IF selected = "pi" THEN "import" ELSE "trace")
  /\ UNCHANGED <<policy, files, trail, lost, rewrites>>

\* createProjectRuntimeEnvironment, resolve, and the guard of the workspace as
\* a whole, which an envelope that is narrower than the workspace refuses.
StartExecution(e) ==
  /\ ExecutionAt(e, "off")
  /\ \E selected \in Runtimes :
       LET starts == /\ Accepts(policy)
                     /\ selected \in Registered(selected)
                     /\ MayRead(policy, Root)
       IN ExecutionGoto(e, IF ~starts THEN "threw"
                           ELSE IF selected = "pi" THEN "import" ELSE "trace")
  /\ UNCHANGED <<policy, files, trail, lost, rewrites>>

\* The import of the agent is outside the try.
ImportEnds(e) ==
  /\ ExecutionAt(e, "import")
  /\ \E point \in {"create", "threw"} : ExecutionGoto(e, point)
  /\ UNCHANGED <<policy, files, trail, lost, rewrites>>

\* createAgentSession; without a session the result is failed.
SessionIsCreated(e) ==
  /\ ExecutionAt(e, "create")
  /\ \/ exec' = [exec EXCEPT ![e].pc = "prompt", ![e].open = TRUE]
     \/ ExecutionGoto(e, "trace")
  /\ UNCHANGED <<policy, files, trail, lost, rewrites>>

\* The model calls the tool, if the envelope has one.
CallsRead(e) ==
  /\ ExecutionAt(e, "prompt") /\ "workspace.read" \in policy.capabilities
  /\ exec[e].reads < MaxReads
  /\ \E path \in Paths :
       exec' = [exec EXCEPT ![e].pc = "access", ![e].reads = @ + 1, ![e].path = path]
  /\ UNCHANGED <<policy, files, trail, lost, rewrites>>

\* The outcome is told by the message of the error.  (It says "outside" also
\* when the path does, and is missing.)
Refused(path) == IF MayRead(policy, path) THEN "failed" ELSE "denied"

\* operations.access
Accesses(e) ==
  /\ ExecutionAt(e, "access")
  /\ LET path == exec[e].path IN
       exec' = IF MayRead(policy, path) /\ files[path] # "absent"
               THEN [exec EXCEPT ![e].pc = "read"]
               ELSE [exec EXCEPT ![e].pc = "record", ![e].outcome = Refused(path)]
  /\ UNCHANGED <<policy, files, trail, lost, rewrites>>

\* Mutant: the content is returned while its record is being written.
ReadsAhead(e) ==
  /\ ExecutionAt(e, "read")
  /\ LET path == exec[e].path
         good == MayRead(policy, path) /\ files[path] = "small"
     IN exec' = IF good
                THEN [exec EXCEPT ![e].pc = "prompt", ![e].handed = @ \cup {exec[e].reads}]
                ELSE [exec EXCEPT ![e].pc = "record", ![e].outcome = Refused(path)]
  /\ UNCHANGED <<policy, files, trail, lost, rewrites>>

\* operations.readFile: the file of now, not the one that was accessed.
Reads(e) ==
  /\ ExecutionAt(e, "read")
  /\ LET path == exec[e].path
         good == MayRead(policy, path) /\ files[path] = "small"
     IN exec' = [exec EXCEPT ![e].pc = "record",
                   ![e].outcome = IF good THEN "allowed" ELSE Refused(path)]
  /\ UNCHANGED <<policy, files, trail, lost, rewrites>>

ThisCall(e) == <<e, exec[e].reads>>

\* The tool returns what it has read, or throws.
ToolReturns(e) ==
  exec' = [exec EXCEPT ![e].pc = "prompt",
             ![e].handed = IF exec[e].outcome = "allowed" THEN @ \cup {exec[e].reads} ELSE @]

\* recordToolInvocation, after which the tool ends.
RecordIsWritten(e) ==
  /\ ExecutionAt(e, "record")
  /\ trail' = trail \cup {[call |-> ThisCall(e), path |-> exec[e].path, outcome |-> exec[e].outcome]}
  /\ ToolReturns(e)
  /\ UNCHANGED <<policy, files, lost, rewrites>>

\* A record that cannot be written changes nothing for the execution.
RecordIsLost(e) ==
  /\ ExecutionAt(e, "record") /\ Cardinality(lost) < MaxLosses
  /\ lost' = lost \cup {ThisCall(e)}
  /\ ToolReturns(e)
  /\ UNCHANGED <<policy, files, trail, rewrites>>

\* Mutant: a prompt that fails leaves its session open.
DisposesOnSuccess(e) ==
  /\ ExecutionAt(e, "prompt")
  /\ \E open \in BOOLEAN : exec' = [exec EXCEPT ![e].pc = "trace", ![e].open = open]
  /\ UNCHANGED <<policy, files, trail, lost, rewrites>>

\* The prompt is answered or fails, and the session is disposed in either case.
PromptEnds(e) ==
  /\ ExecutionAt(e, "prompt")
  /\ exec' = [exec EXCEPT ![e].pc = "trace", ![e].open = FALSE]
  /\ UNCHANGED <<policy, files, trail, lost, rewrites>>

\* ExecuteStoredWorkItemUseCase saves the trace after the runtime is done.
TraceIsSaved(e) ==
  /\ ExecutionAt(e, "trace")
  /\ \E point \in {"saved", "threw"} : ExecutionGoto(e, point)
  /\ UNCHANGED <<policy, files, trail, lost, rewrites>>

\* The process dies, and its session with it.
ExecutionCrashes(e) ==
  /\ exec[e].pc \notin {"off", "saved", "threw", "crashed"}
  /\ exec' = [exec EXCEPT ![e].pc = "crashed", ![e].open = FALSE]
  /\ UNCHANGED <<policy, files, trail, lost, rewrites>>

\* Somebody else writes or removes a file.
Rewritten(path) ==
  /\ rewrites < MaxRewrites /\ rewrites' = rewrites + 1
  /\ \E size \in {"absent", "small", "large"} \ {files[path]} :
       files' = [files EXCEPT ![path] = size]
  /\ UNCHANGED <<policy, exec, trail, lost>>

RuntimeInit ==
  /\ policy \in Policies
  /\ files = [path \in Paths |-> "small"]
  /\ exec = [e \in Executions |-> NotStarted]
  /\ trail = {} /\ lost = {} /\ rewrites = 0

ExecutionStep(e) ==
  \/ ImportEnds(e) \/ SessionIsCreated(e) \/ Accesses(e) \/ Reads(e)
  \/ RecordIsWritten(e) \/ PromptEnds(e) \/ TraceIsSaved(e)

RuntimeNext ==
  \/ \E e \in Executions :
       ExecutionStep(e) \/ StartExecution(e) \/ CallsRead(e) \/ RecordIsLost(e) \/ ExecutionCrashes(e)
  \/ \E path \in Paths : Rewritten(path)

RuntimeSpec == RuntimeInit /\ [][RuntimeNext]_runtimeVars

================================================================================
