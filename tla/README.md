# A verification development of your-harness

TLA+ modules that model *your-harness* (`yh`), the TLC configurations that check
them, and TLAPS proofs of what matters most. `PROJECT.json` lists components,
runs, mutants, the map from definitions to source lines, findings, hazards and
theorems. The code is the reference throughout; documents are quoted only where a
run refutes them.

## 1. The system

`yh` is a command-line harness that puts human approval (HITM) and audit between
coding agents and a project. Each command is a short-lived process. There is no
daemon and no lock: durable state is one JSON file per record under the
workspace, read and written with plain file operations, plus the OpenSpec
directory of the project itself. Inside one process the rest is single-threaded
JavaScript: whatever lies between two awaits is one step.

| Component | State it keeps | Operations | What makes it correct |
|---|---|---|---|
| Governed Change (`register-change-commands.ts`, `packages/application/src/sdd`) | handoffs, stage approvals, apply transitions, materialization audits, the Change in `openspec/changes` | `propose`, `approve`, `apply`, `recover`; `inspect`, `review`, `status` only read | only what was approved is written; what the records say of the provider is so; a failure or a crash can be taken up again |
| Apply and approval policies | none | `evaluate`, `evaluateChangeApplyTransition`, `reconcileInterruptedChangeApply` | a rejection sticks to its snapshot; one table decides what may follow what |
| OpenSpec materializer and generation strategies | the Change, staging and backup directories, a spawned command | `materializeApprovedChange`, `generate` | a Change is replaced as a whole or not at all; what it returns stands there |
| Governed lifecycle (`transition-governed-change.ts`) | lifecycle records | `transition` | each step has the approvals it needs |
| Work items, verification, completion | work items, bindings, selections, traces, evidence, plans, reports, authorizations | create, bind, start, select, execute, record, plan, evaluate, authorize | nothing is executed out of scope, nothing is verified without evidence, nothing is done without a decision |
| Task orchestrator | none: a snapshot of the store | `plan` | it announces steps that are not refused |
| Runtime execution (`src/runtime`) | the envelope, an agent session, tool-invocation records | create, guard, execute, read tool | the envelope means the same to who accepts it and to who guards it; every tool call is on record |
| Workflow engine | the context of one run | sequential, parallel and conditional steps, retries, timeouts | dependants run after what they depend on; a run ends; only what timed out goes on |
| Agents, AI manager, connectors | the registry of providers, one conversation per run, one buffer per stream | register, connect, complete, stream, run | the history sent is one a provider accepts; the fallback is sane; streams survive any chunking |
| Harness, MCP manager | `initialized`, servers, sessions | initialize, complete, stream, shutdown | the flag tells which servers are there |
| MCP server | listeners, tools, pending requests | start, stop, register, handle | every request is answered |
| Plugins, skills | registries | install, discover, enable, disable, uninstall; register, unregister, enable, disable | what is enabled has what it requires; nobody is replaced unasked |
| Domain aggregates | specification, review, intent, release, work item | their operations | what people decided on stays |
| Local operational store | one file per record | `save`, `find...` | a record is never overwritten |

How they interact: a command composes use cases (`packages/application`) with
the local store (`src/persistence`), the SDD provider and materializer
(`src/sdd`) and the runtime. Commands talk to each other through files only: a
command reads a record, awaits, and writes another one. What is hard is
therefore

* **interleaving**: two commands, or two calls on one event loop, each between
  its read and its write;
* **crashes**: an operation is several files, and the next one has to guess from
  what it finds which of them were written;
* **partial failure**: the swap of a directory is many file-system calls; hooks,
  callbacks, tools and handlers throw;
* **time**: the current record is the last by a timestamp in milliseconds; what
  times out is abandoned, not stopped;
* **identity**: replays and retries are told apart by keys, staging directories
  by pids, plugins and providers by names.

`PROJECT.json` lists the hazards at their lines.

## 2. The modules

| Module | What it models | Properties in | Checked with |
|---|---|---|---|
| `ChangeApply`, over `StageApprovalPolicy` and `ApplyPolicy` | the commands on one Change, the store behind them, and the effect of the materializer | `ChangeApplyProps`; abstract: `ApplyLifecycle`; proved in `ChangeApplyProofs` | `MCChangeApply` |
| `Materializer` | `openspec-materializer.ts`, `openspec-generation-strategy.ts`, the provider's reads: directories, files, the spawned command | `MaterializerProps`; abstract: `ChangeSwap`; proved in `MaterializerProofs` | `MCMaterializer` |
| `WorkItemFlow`, over `VerificationRules` and `TaskPlan` | the commands on WorkItems and verification, the planner | `WorkItemFlowProps`; proved in `WorkItemFlowProofs` | `MCWorkItem` |
| `WorkflowEngine` | one run of `src/workflows/engine.ts` | `WorkflowEngineProps`; abstract: `DagRun`; proved in `WorkflowEngineProofs` | `MCWorkflow` |
| `AiManager`, over `Dialects` | `src/core/ai`: registry, default and fallback; what the connectors send, take and yield | `HarnessProps`; proved in `HarnessProofs` | `MCHarness` |
| `AgentRun` | `src/agents/runner.ts` | `HarnessProps`; proved in `HarnessProofs` | `MCHarness` |
| `Harness` | `src/core/harness.ts`, sessions, MCP manager | `HarnessProps`; proved in `HarnessProofs` | `MCHarness` |
| `StreamReader` | the read loop of the connectors | `HarnessProps`; proved in `HarnessProofs` | `MCHarness` |
| `McpServer` | `src/mcp/server.ts` | `HarnessProps` | `MCHarness` |
| `RuntimeSession`, over `ExecutionEnvironment` | `src/runtime`: envelope, guard, Pi session, tool records | `HarnessProps`; proved in `HarnessProofs` | `MCHarness` |
| `Skills`, `Plugins` | `src/skills/manager.ts`, `src/plugins/manager.ts` | `ExtensionsProps`; proved in `ExtensionsProofs` | `MCLifecycle` |
| `GovernedChange`, over `StageApprovalPolicy` | `transition-governed-change.ts` with its policy and repository | `LifecycleProps`; proved in `LifecycleProofs` | `MCLifecycle` |
| `Aggregates` | the aggregates of `packages/domain` | `LifecycleProps`; proved in `LifecycleProofs` | `MCLifecycle` |

`AgentRun` and `Harness` both build on `AiManager`: agents and clients share one
registry and one manager, which is what makes a provider disappear under a
request. `ChangeApply` has the swap of a directory as three steps on its digest;
`Materializer` has every call to `node:fs` in it.

`Recursion` holds what the proofs about recursive functions rest on.

A definition whose comment begins with "Mutant" is a plausible bug of the
definition after it, by which `PROJECT.json` shows that a property can fail.

### ChangeApply

One Change; any number of processes (`Procs`), each idle or running one command.
`job[p]` holds what the command of process `p` has read so far and `job[p].pc`
the await it will perform next; an action is one access to the store or to the
provider, together with everything the code does up to the following await.
`Finish` is the end of a command, in success or in error.

| Variable | Code |
|---|---|
| `content` | the Change in `openspec/changes/<id>`, by its content digest; `Absent` when there is no directory |
| `handoffs` | `changeDraftHandoffs`, in the order of `createdAt`; the last is current |
| `approvals` | `changeStageApprovals`: stage, decision, version and digest |
| `log` | `changeApplyTransitions` as `findByChangeId` sorts them; the last gives the status |
| `audits` | `changeMaterializationAudits` |
| `attempts` | how many attempt ids `randomUUID` has given |
| `overtaken` | for each command: how many records were saved since it stamped (`changedAt`) the one that it still has to save |

| Actions | Code |
|---|---|
| `Propose` ... `ProposeSave` | `propose`: read the provider, the current handoff, the preview (reads the provider again), the use case (reads the current handoff again), the save |
| `Approve`, `ApproveEvaluate`, `ApproveSave` | `approve` and `ApproveChangeStageUseCase` |
| `Apply`, `ApplyCheckKey`, `ApplyCheckStatus`, `ApplyCheckApprovals` | `apply` up to the materializer |
| `TransitionEvaluate`, `TransitionSave` | `TransitionChangeApplyUseCase`, for `apply` and `recover` |
| `GuardRefuses`, `ReadBase`, `Backup`, `Install`, `Cleanup`, `Verify`, `Discard` | `materializeApprovedChange` |
| `FindAudit`, `GuardAudit`, `SaveAudit` | `RecordChangeMaterializationAuditUseCase` and the checks of the store's `save` |
| `Recover` ... `RecoverDecide` | `recover`, confirmed |
| `Crash`, `IoError`, `AuditIoError`, `Edit` | the process is killed; the file system fails; a person edits the Change |

What is abstracted:

* A digest stands for the content: `openSpecChangeDigest` hashes the files and
  leaves the version out, so equal digests are equal contents.
* Versions: the provider always reports `"1"`, so a preview has `"1"` for a new
  Change and `"2"` for an existing one.
* One Change and one actor. Records of other Changes are filtered out by every
  lookup; the actor only enters the default key.
* `log` is kept in the order of the stamps, as `findByChangeId` sorts it. A record
  is stamped before the current status is read, some awaits before the save: a
  command that saves late goes before the records that have overtaken it
  (`Places`). Two stamps that are pending at once may be either way round, more
  than a clock allows. Records of different commands carry different milliseconds;
  two consecutive records of one run may tie (`Ties`), and then either order may
  be read back.
* Handoffs stand in the order of their saves. `createdAt` is taken just before:
  two proposals that overlap may be read back the other way round in the code.
* Errors that stop a command before it has written anything more
  (configuration, an unreadable store) leave what a crash at that point leaves.
* `recover` without `--confirm`, or with a decision that differs from the
  recommendation, writes nothing and is left out.

### Materializer

Calls of `materializeApprovedChange` for one Change, with the directories they
use. An action is one call to `node:fs`, or one event of the spawned command.

| Variable | Code |
|---|---|
| `dirs` | what stands in `openspec/changes`: the Change, and per pid the staging `.yh-<pid>` and backup directories; a directory is a tree of files, each with the revision its text is from |
| `tools` | the external command a process has spawned: running, gone, or a stray that its caller gave up |
| `job` | each call: its pid, revision, reviewed base, strategy, where it is |
| `slips` | how often a command wrote something other than what was approved, or wrote after it was given up |

| Actions | Code |
|---|---|
| `List`, `Read`, `ReadSpecs`, `CheckBase`, `CheckObserved` | the provider's reads before and after, and the two comparisons |
| `MakeTemp`, `WriteFile` | the file-system strategy |
| `ToolWrites`, `ToolExits`, `ToolTimesOut`, `StrayEnds` | the command strategy: `runProcess` with its timer and its `settled` flag |
| `Backup`, `Install`, `Stat`, `Restore` | the renames and the catch block |
| `RemoveList`, `RemoveFile`, `RemoveDir`, `RemovalThrows` | `rm -r`, which is not atomic |
| `IoError`, `Crash` | any call may fail; the process may die and its pid be given again |

In which order `rm -r` removes the files of a directory is the platform's to say:
`First` says which may be next. The run lets the specs, which an approved Change
has not got, go first or last; the proofs take any order. That is why `ChangeSwap`
has contents with more than was approved (`Overdone`), which lose that surplus
before the rest goes.

`EveryCallReturns` assumes a `timeoutMs`; without one a command that hangs is
waited for without end.

### WorkItemFlow

Commands as in `ChangeApply`: `job[p].pc` is the next access to a record that may
change, and a record that cannot change any more (a trace, a report) is read in
the action beside it.

| Variable | Code |
|---|---|
| `source` | the digests of Specification and Change as the provider projects them |
| `governed` | the governed Change: the current handoff, whether its stages are approved, and the status of its materialization (`ChangeApply` has how it gets there) |
| `item`, `binding`, `selection` | the WorkItem, its SDD binding, its confirmed Requirements |
| `traces`, `evidence`, `plans`, `reports`, `authorizations` | the repositories of these names |

| Actions | Code |
|---|---|
| `Create`, `Start`, `SaveItem`; `Bind`, `SaveBinding`; `Select`, `SaveSelection` | `yh work create`, `start`, `bind`, `select` |
| `Execute`, `FindSelection`, `ReadSource`, `SaveTrace`, `RuntimeThrows` | `yh work execute`: binding, selection and Specification are three reads; eligibility and drift are evaluated at the third; the trace is saved after the runtime |
| `RecordEvidence`, `CreatePlan`, `EvaluatePlan` and their saves | `yh verification` |
| `Authorize`, `SaveDone`, `SaveAuthorization` | `yh work authorize`: the WorkItem is saved before the authorization |
| `Crash`, `Edit` | the process is killed; a person edits |
| `ProposeChange`, `GovernedChangeMoves` | another handoff becomes current; the Change is approved, applied, interrupted, recovered |

`VerificationRules` has the evaluation of criteria, `TaskPlan` the checks of
`TaskOrchestrator.plan` in their order, `Snapshot` what `yh task plan` reads. Its
eight reads are one step of the model: `PlannedStepIsAllowed` compares the rules of
the planner with the checks of the commands on one snapshot and does not cover what
changes between two reads. A plan is saved for whatever trace and criteria were
typed (`UnknownTrace` is one that no execution has). A governed Change is approved
as a whole or not: how stages become approved one by one is `ChangeApply`.
Two terminals use evidence and plan ids of their own: an id that exists is
refused, and two saves of one id at the same instant are not modelled.

### WorkflowEngine

One run of one workflow, in one process. A *call* is one execution of
`executeStep`, a *body* one attempt of it (`execute` inside
`executeWithTimeout`). A body that lost `Promise.race` against its timer goes on,
the calls it made included.

| Variable | Code |
|---|---|
| `def` | the `WorkflowDefinition`: graph, conditions, kinds, parts, retries, which steps have a timeout, and which agents may never answer |
| `wf` | where `execute` is, and in which level |
| `calls`, `bodies` | running and settled `executeStep`s; their attempts, with what is left of a condition step's branch |
| `results`, `skipped` | `context.stepResults`, success or not; steps whose condition was false |
| `throws` | how often `onEvent` has thrown (bounded by `MaxThrows`) |

| Actions | Code |
|---|---|
| `Begins`, `Succeeds`, `Fails`, `TimesOut`, `Retries`, `Returns`, `CallbackThrows` | `executeStep`, with its catch block (`Catch`) |
| `AgentAnswers`, `Joins`, `GoesOn` | the body of an agent step, of a parallel step, of a condition step |
| `BeginWorkflow`, `EndLevel`, `EndWorkflow`, `WorkflowCallbackThrows` | `execute`; `Resolved` is `resolveStepOrder` |

Left out: outputs, variables, durations and delays (a timer fires at any time).
A `step:skip` callback that throws is left out, too: `execute` does not await that
one (engine.ts:311), so it is an unhandled rejection, which ends the process.
A failing agent resolves with `success: false`, which the engine takes for a step
that succeeded; the model does the same. Two steps of one id are left out
(`OwnSteps`): results are kept by id, and nothing checks that ids differ.

### AiManager, AgentRun, Harness, StreamReader, McpServer

| Variables | Code |
|---|---|
| `registry`, `default`, `online`, `call` | the Map of connectors and `defaultName`; `connected` of each; the request each caller has in flight, with whom the manager asked |
| `run` | one `AgentRunner.run`: iteration, the messages so far, the tool calls left |
| `initialized`, `up`, `refused`, `sessions`, `hjob` | the harness, its MCP servers, the context manager, the calls in progress |
| `body`, `read`, `buffer`, `out`, `dialect` | one stream: what the provider sends, how far it was read, the line begun, what was yielded |
| `running`, `listeners`, `tools`, `asked`, `answer` | the MCP server on a terminal |

`HarnessProps` puts the three that share the providers together: `AppSpec` is
registry, agents and harness in one process. `hjob[p].left` has the places of the
servers that a call has still to turn to, in the order of the registry.

`Dialects` says what each connector makes of a message, an answer and an event of
a stream. `RequestsArePaired` is stated on what is *sent*, through `Dialects`.
Left out: HTTP, headers, prompts, token usage, and the calls of the MCP manager
that the harness never makes (prompts, resources, tools). A handler of the MCP
server is taken to fail with an error: one that rejects with `undefined` makes the
catch block itself throw (server.ts:168), and its request stays without an answer.

### ExecutionEnvironment, RuntimeSession

`ExecutionEnvironment` is the envelope as functions of a policy: what
`createExecutionEnvironment` accepts and what the guard then lets through (read,
write, network, secrets, confirmations). A path is a sequence of names; a name
that begins with two dots is taken for one that leaves the workspace, as the code
does (`Dotted`). `RuntimeSession` is an execution in the Pi runtime: selection
and guard (`StartExecution`), the import and session (`ImportEnds`,
`SessionIsCreated`), each call of the read tool in its three steps (`CallsRead`,
`Accesses`, `Reads`, `RecordIsWritten` or `RecordIsLost`), the end of the prompt
(`PromptEnds`) and the save of the trace (`TraceIsSaved`); others rewrite files
meanwhile (`Rewritten`) and the process may die (`ExecutionCrashes`). The session
and the model behind it are external.

### Skills, Plugins, GovernedChange, Aggregates

`Skills` has the Map of skills with what each requires; all its operations are
synchronous. `Plugins` has the calls of several users around the awaits of
loading and hooks (`ujob`), the status of each loaded instance and the hooks it
was called with. `GovernedChange` has the use case in its reads and its save
(`RequestTransition`, `ReadCurrent`, `ReadApprovals`, `SaveRecord`), with
decisions taken meanwhile (`Decide`). The caller gives `changedAt`: it may be later
than all records, of before, or that of another record (`Stamps`), and records of
one stamp may be read back in either order; `crossings` counts the calls that
overlapped another or were stamped no later than what is there. `Aggregates` has one of each aggregate and every
operation that changes its state; titles are left out.

## 3. The runs

| Run | Instance | Shows |
|---|---|---|
| `crash` | one command at a time, 2 crashes, 1 I/O error, 4 attempts, one handoff, new or existing Change | `TypeOK`; the history chains (`HistoryChains`); `materialized` was audited for that attempt (`MaterializedIsAudited`), also when recover finished the story; one audit per key (`OneAuditPerKey`); recovery agrees with the audit of the dead attempt (`RecoveryAgreesWithAudit`); the status is true of the provider (`StatusIsTrue`) |
| `retry` | one command at a time, no crash, 2 handoffs, 2 attempts, an edit, ties (2.2 million states) | `RetriesUseNewKeys`; `NoVetoedWrite`: what was rejected is not written, not even when proposed again with the same content; `RefinesLifecycle`: the status as read back implements `ApplyLifecycle` |
| `overlap` | two commands at a time, 2 handoffs, 2 attempts; starts when the first two stages are approved and two reviewers are at the other two (900 thousand) | `WritesAreApproved`, `ApprovalsAreOrdered`, `MaterializedHasAnAudit`, with records read back in the order of their stamps |
| `workflow` | five pipelines of three levels with nine steps, and a cycle; an agent that may hang; timeouts around it or on it; a retry of the whole parallel step and of the agent; one throwing callback | `RefinesDagRun`: no step starts before its dependencies have ended well, none after a failure, and a completed run left nothing out; `Terminates`; `OnlyTimedOutWorkIsLate`: work is only left behind, and a step only runs beside itself, where a timeout abandoned an attempt |
| `workitem` | two terminals, 4 commands, 1 edit, 1 crash, two WorkItems, two revisions of Specification and Change, plans of one and of several criteria of different kinds; from nothing bound, and from a WorkItem ready to execute beside one already verified (1.8 million) | `ExecutedWithinScope`, `VerifiedIsBacked`, `DoneIsAuthorized`, `PlannedStepIsAllowed` |
| `materialize` | two processes under two pids, 2 calls, 2 troubles, both strategies, removals in two orders (350 thousand) | `RefinesSwap`: a Change is never rewritten where it stands (`ChangeSwap`); `NothingIsLost`; `ReturnsWhatStands`; `EveryCallReturns` |
| `harness` | a run of an agent, two clients, three providers of two names, two MCP servers, streams of every dialect cut anywhere, two requests to the MCP server, an execution under 131 envelopes (155 thousand) | `ProvidersStand`, `RequestsArePaired`, `ServersFollowTheFlag`, `ChunkingDoesNotMatter`, `GrantsAreExact`, `EveryCallIsRecorded`, `CallsEnd`, `EveryRequestIsAnswered`, `SessionsAreDisposed` |
| `lifecycle` | governed Changes: two callers, two contents, five records, one call that overlaps or is stamped back; a Specification of two requirements and two scenarios; three skills with any requirements; two callers of the plugin manager, three plugins of two names (760 thousand) | `RecordsAreApproved`, `HistoryIsALadder`, `WhatIsReviewedStands`, `EnabledHasItsRequirements`, `NoRequirementCycle`, `HooksAlternate`, `PluginsTakeTurns` |

`MCHarness` and `MCLifecycle` hold several components that share
little or no state. A variable `focus` picks the one a behaviour is about, so that
TLC explores the union of their states and not the product, which would show
nothing more; agents and clients, which do share the providers, have a focus
each with `AiManager` in both.

`Proposal` of `MCChangeApply` is the state after `propose` and some of the four
`approve` (all of them in `ReadySpec`, two in `RaceSpec`), which the sequential runs
reach; without it the bounds would be spent on getting there. `ReadyInit` of
`MCWorkItem` likewise, beside the plain initial state.

Why these bounds: four attempts under one handoff admit apply, failure, retry,
recovery and a retry after the recovery; two crashes a crash of the apply and one
of its recovery. Two handoffs are the least for superseding, two processes the
least for a race, two digests the least for a base and a proposal, or a proposal
and a foreign edit. The key of `recover` depends on the attempt, so a second
attempt under the same key needs no third key. For workflows three levels admit a
dependency on two steps and a condition on an earlier result; one retry is enough
for an attempt beside its abandoned predecessor. For WorkItems four commands after
`ReadyInit` admit execute, record, plan, evaluate, or two decisions about one
report while two others change the scope. For the materializer two calls and two
troubles admit a crash that leaves both directories and a later call of the same
pid, a failing removal after a failing rename, a stray command of the first call
beside the second. Three providers of two names are the least for a replacement
under a name beside a default of another one. Three skills are the least for a
requirement through another. Five records admit a whole lifecycle.

### Deadlock and fairness

The runs of a Change keep the deadlock check: there is always a command that may
be started. The others are free of it: a run of a workflow, a harness or a call
that has returned really stops, and so does whoever has used up a bound.

None is assumed for commands. They are started by people, and nothing in their
code retries by itself; that they *can* go on is said in other ways
(`RecoveryIsResolvable`, `PlannedStepIsAllowed`). What is assumed, each time weak
fairness of what the event loop or a peer does anyway:

* `WorkflowEngine`: `Progress` - timers fire, settled promises resume their
  callers, agents answer unless `def.hangs` names them, callbacks return or throw.
  `Terminates` requires a timeout on or around each agent that may hang; without
  one the run really hangs.
* `Materializer`: the file system answers, and the timer of a generation fires.
  The spawned command owes nothing: it may hang and refuse to be killed.
* `MCHarness`: providers, tools, MCP servers and the prompt of a Pi session answer
  or fail, handlers of the MCP server return or throw. None of these has a timeout
  in the code, so nothing weaker would do.

### What the code does not keep

Each of these runs refutes one property that a document of the repository states;
`findings` in `PROJECT.json` quotes it.

| Run | What happens |
|---|---|
| `refute_resolvable` | a recovery that dies leaves `recovery-required`, which no command resolves |
| `refute_recovery` | recovery judges a dead attempt by a later handoff, and contradicts its audit |
| `refute_snapshot` | the Change is edited after it was compared with its base: the swap replaces and removes what nobody reviewed |
| `refute_reader` | the documented configuration grants the read tool on two folders of the workspace: it is accepted, and every execution throws |

Other behaviour that a reader of the code may not expect. The models contain it;
no property is stated against it, or the property says what it leaves out.

One Change:

* A new Change whose first apply died cannot be recovered: `recover` wants the
  Change to be there. An apply that dies before `applying` leaves a status that no
  command accepts, and no audit.
* When the backup cannot be removed, a failed apply leaves its Change written.
* `RetriesUseNewKeys` is checked without crashes: the key is looked up among the
  audits only, and an attempt that died has none.
* A handoff that supersedes a *materialized* one can be approved but not applied:
  `apply` looks at the status of the Change, not of the handoff.
* With two processes two applies may both write, one may remove what the other
  wrote, two audits may share a key. The repository accepts that there is no lock
  (docs/07-status/Security-Review.md:26); the properties that need one command at
  a time say so.

The materializer:

* The external strategy is believed until the read-back; when the read-back
  differs, the new Change is removed and the backup is already gone: the old
  Change is lost. `NothingIsLost` leaves out commands that go wrong.
* The swap drops whatever specs the old Change had that the draft has not.
* A catch block that cannot remove the staging directory does not put the backup
  back. Left-over `.yh-*` directories are listed as Changes by the provider. A
  stale staging directory fails the next call of the same pid, which then removes
  it; a stale backup fails every later call of that pid.

Work items:

* Done is saved before its authorization: after a crash in between the WorkItem is
  done, nobody is on record for it, and the decision is refused from then on.
  `DoneIsAuthorized` is stated without crashes.
* The criteria of a plan are free text: a WorkItem can be completed on criteria about
  a Requirement that its execution did not select.
* An authorization accepts any report of the WorkItem, also of an older or a
  failed execution.
* The planner announces `execute-work-item` whether a current scope is confirmed
  or not, `apply-change` for an interrupted apply, and takes the first approval of
  a stage in directory order.

The runtime:

* An `allowedPaths` narrower than the workspace makes every execution throw, since
  the guard is asked for the workspace itself (`refute_reader`); an empty one is
  accepted and grants nothing. With `on-risk` and no list of one's own nothing is confirmed: the
  default classes are names of capabilities, the materializer asks for others.
* Whether a tool call was denied or failed is told by the word "outside" in the
  message. A crash, or a trace that cannot be saved, leaves tool records under a
  trace id that `audit trace` does not find.

Providers, agents, servers:

* The Claude and local connectors drop `toolCalls` and `toolCallId`, so that
  `RequestsArePaired` holds of them for lack of either half. Claude streams yield
  tool arguments as text. Of several tool calls in one delta the first is kept.
* A stream that fails after some chunks begins again at the default, which is not
  connected first: the caller gets the beginning twice.
* A run that has used up its iterations counts as a success.
* `stop` leaves its listener on standard input: after another `start` each request
  is answered twice. Two requests in one chunk are one parse error.

## 4. The proofs

A theorem holds for every value of the constants that its assumptions admit; the
run that checks the same property shows it on a small instance. Each inductive
invariant below was checked by TLC on an instance of its run before it was proved.

### ChangeApplyProofs, commands that overlap

For every number of processes, keys, digests, crashes, I/O errors and edits, tied
records or not, from `ConstantsAssumption` alone:

| Theorem | States |
|---|---|
| `TypeCorrect` | `Spec => []TypeOK` |
| `OnlyApprovedIsWritten` | `Spec => []WritesAreApproved` |
| `ApprovalsFollowTheStages` | `Spec => []ApprovalsAreOrdered` |
| `MaterializedWasAudited` | `Spec => []MaterializedHasAnAudit` |

None of the three invariants is inductive alone: that a write is approved depends
on the command having evaluated the approvals some awaits before, that
`materialized` has an audit on the command having found or saved one. `IInv` adds
to them, in `Fits`, what a command relies on at each point: it knows the handoff
it works on, that handoff is fully approved from the moment the policy passed,
the audit exists before `materialized` is asked for, and the policy allowed the
decision about to be saved. The argument why this survives the other processes is
that the store only grows (`Grows`: handoffs keep their place, approvals and
audits are never removed), so what a command relied on stays so (`FitsPersists`);
a step then only has to settle the command that takes it (`StoreUnchanged`,
`SaveAndFinish`).

### ChangeApplyProofs, one apply or recover at a time

The other properties of a Change are false when two commands apply (section 3),
and the runs check them with one process. The theorems ask for less: `OneAtWork`
says of a state that at most one command applies or recovers. Any number of others
propose and decide beside it, between any two of its steps, and any number of
applies and recoveries follow each other, crash, fail and are taken up by others.

| Theorem | States, under `Spec /\ []OneAtWork` |
|---|---|
| `LifecycleIsKept` | `RefinesLifecycle`: the refinement of `ApplyLifecycle` |
| `RecordsChain` | `[]HistoryChains`, without ties |
| `MaterializedHasItsAudit` | `[]MaterializedIsAudited` |
| `KeysAreAuditedOnce` | `[]OneAuditPerKey` |
| `RetriesTakeNewKeys` | `[]RetriesUseNewKeys`, while nothing has crashed or failed |
| `MaterializedStands` | without edits, a Change that is `materialized` is what its handoff proposed |
| `VerdictsAreKept` | `[]RecoveryAgreesWithAudit`, without edits and with one handoff |

Two properties are refuted by TLC with `OneAtWork` alone.

* `NoVetoedWrite`: `apply` evaluates the approvals and then writes, and a rejection
  that arrives in between is on record before what it rejects is written. That is
  the only way: `VetoesAreHeeded` is
  `Spec /\ DecisionsWait => NoVetoedWrite`, for any number of processes that apply
  and recover at once. `DecisionsWait` says that no decision is saved while a
  command is past the approvals and has not written yet, as is the case when
  commands take turns. `ClearInv` adds to `IInv` that what a command is about to
  write is not vetoed; it stays so as a handoff keeps its place (`HandoffsStand`).
* `StatusIsTrue`: `propose` reads the Change some awaits before it saves the
  handoff, and `previewDraftChange` does not tell a Change that a swap has set aside
  from a new one. A draft from before or amid a swap is saved with a base that is
  gone, and later an apply of it fails over a Change that happens to be what it
  proposes. `TheStatusIsTrue` is
  `Spec /\ []OneAtWork /\ []SwapsApart => []StatusIsTrue`, where `SwapsApart` says
  that no proposal is under way at `backup` and `install`. The first half of the
  property, about `materialized`, stands without that: `MaterializedStands`.

With one process `OneAtWork`, `DecisionsWait` and `SwapsApart` hold at all times:
what the sequential runs check is part of what is proved.

The hypotheses on ties, crashes, failures, edits and handoffs are those under
which the runs check the property, as bounds of the instance (`retry` has no crash
and no I/O error, `crash` no edit, no tie and one handoff), and each is needed:
two tied records are read back in either order; a key is looked up among the
audits only, and an attempt that died has none; `refute_recovery` shows a later
handoff under which recovery contradicts the audit, and an edit has the same
effect.

The proofs first say what a step makes of its command (`Moves`): each such step
is of one of fourteen kinds (`Ends`, `Drafts`, `Applies`, ... `Decides`),
and what follows looks at the kinds only. When a command moves beside the one at
work (`BesideWork`) it ends, drafts or decides: what it saves is a handoff or a
decision, and nothing of what the invariants say of the others can tell. The
invariant has five layers, each resting on those before it:

* `ControlInv` (`Controlled`): which command is where, and the status it goes by.
  A command that is about to record a transition has read the current status, one
  between `applying` and its audit finds the status it left. Ties make this
  delicate: a record may be read back before the one its own command wrote just
  before, so the status may lag by one step, but never at a point where it is read.
  No record overtakes another meanwhile (`InTime`): the commands beside save none.
* `NumberInv` (`Numbered`, `NumbersInv`): the attempt of a running command is the
  last one given out, and nothing on record is about it or exceeds it (`Before`);
  its key has no audit until its own. For a key that `recover` derives from an
  interrupted attempt this rests on the status: as long as it is `applying`,
  nobody has decided on that attempt.
* `KeyInv` (`Served`): while nothing dies or fails, each attempt that reached
  `applying` is audited under its key or is the one at work.
* `HeldInv` (`Observes`, `SwapInv`): while nobody edits, what the provider holds at
  each point of the swap, and that it is what was materialized.
* `VerdictInv` (`Won`, `Agrees`): once an apply is audited as succeeded, what it
  wrote stays, and every command that concludes anything concludes the same.

With `SwapsApart` a sixth layer rests on `HeldInv`: `ApartInv` says that a draft is
based on what the provider holds (`Based`), that so are the handoff of an apply until
it is written and every later one (`Untouched`), and the last one again where the
apply failed (`Told`). The provider changes in a swap only (`OnlySwapsWrite`), so
that what comes on record beside it is based on what is there (`HandoffsAreBased`).

### MaterializerProofs

For every number of calls, pids, revisions, crashes and failures, any order in
which `rm` takes the files, from `MaterializerAssumption`, `NothingAssumption`
(that nothing is there is neither a text nor a directory) and `FirstAssumption`
(`rm` takes from a list what is in it):

| Theorem | States |
|---|---|
| `SwapIsRefined` | `Spec => RefinesSwap`: the refinement of `ChangeSwap` |
| `ReturnedChangeStands` | `Spec => ReturnsWhatStands` |
| `WholeChangeStays` | `Spec => NothingIsLost` |

`MInv` types the disk and says that two calls that run at once have two pids and
that staging directories only ever hold pieces of drafts: a rename from one is an
`Install` of what was proposed or of something broken, every other step is one of
`ChangeSwap` or leaves what it sees alone. `QInv` adds what holds while no two
calls have overlapped (`Quiet`): what was read so far of the installed Change is
still what stands there (`Observed`), and as long as no command wrote what it
should not, each call has made of the directories what it set out to (`Calm`), so
the only whole Change is never the one being removed.

### WorkItemFlowProofs

For every number of terminals, WorkItems, revisions, commands, edits and crashes,
from `WorkItemAssumption`:

| Theorem | States |
|---|---|
| `ExecutionsKeepTheirScope` | `Spec => []ExecutedWithinScope` |
| `VerifiedHasItsEvidence` | `Spec => []VerifiedIsBacked`, if no two terminals type one evidence id (`OwnIds`) |
| `DoneWasAuthorized` | `Spec => []DoneIsAuthorized` |
| `PlannedStepsAreAllowed` | `Spec => []PlannedStepIsAllowed` |

The argument has the shape of the first one. `FlowInv` says of the files that they
are `Readable` and `Consistent` (each report has its trace and its evidence, each
authorization its report), and of each command, in `Fits`, what it may rely on at
the access it does next. `Handed` says the same of the governed Change: what is
approved and applied is the Change of a handoff. Traces, reports and authorizations keep their place and
evidence is only added (`Grows`), so what one command relies on survives the step
of another (`FitsStays`, `Settle`). `item`, `binding` and `selection` do change
under a command; the proof needs nothing of them, since `ReadSource` compares what
it was given with the revision it records (`EligibleIsScoped`). `OwnIds` is a
hypothesis of the one theorem that needs it: the code looks an id up and saves the
record in two steps, and a record replaced in between is evidence lost.

That the planner is right is a matter of its rules: the first that holds answers
(`FirstRule`), and what it and those it passed over say of the snapshot is what
the command will ask (`AnnouncesExecution`, `AnnouncesCompletion`). The latest
trace and report exist since they are numbered (`LatestIsOne`).

### WorkflowEngineProofs

For every set of workflows, of any depth and length, any callbacks that throw,
from `WorkflowAssumption` (definitions are lists of steps that are defined) and,
for the second theorem, `OwnSteps`:

| Theorem | States |
|---|---|
| `RunsFollowTheirGraph` | `Spec => RefinesDagRun`: the refinement of `DagRun` |
| `LateWorkHasTimedOut` | `Spec => []OnlyTimedOutWorkIsLate` |

`GraphInv` ties the run to the rounds of `resolveStepOrder`: at level `n` exactly
the steps resolved by then have been called or skipped, and those of the levels
before have ended well. `Resolved` is a recursive function; its values are fixed
by induction over the naturals, and that `resolveStepOrder` has reached all it can
reach is an argument about cardinality. `TreeInv` says that attempts belong to
calls and calls to attempts, at any depth, and `Awaited` that one who awaits
waits: an attempt that is over, while no callback has thrown, has left no call
running. What is late is then below an attempt that its timer gave up, by
induction along the path to it.

### ExtensionsProofs

For every set of skills, plugins, instances and callers, from nothing for skills
and from `PluginAssumption` for plugins:

| Theorem | States |
|---|---|
| `EnabledSkillsAreServed` | `SkillsSpec => []EnabledHasItsRequirements` |
| `EnableEnds` | `SkillsSpec => []NoRequirementCycle` |
| `SwitchesAlternate` | `PluginsSpec => []HooksAlternate` |
| `NamesAreNotTaken` | `PluginsSpec => PluginsTakeTurns` |

`SkillsInv` adds to the two properties that what a registered skill requires is
registered: a name is only registered after what it requires, and stays while it
is required. A new name is required by nobody, so it closes no cycle; and what
`enable` reaches is closed under `requires` (`NeedsAreClosed`). `PluginsInv` ties
the hooks an instance was called with to its status (`HooksFit`: the last switch
is what the status says), and says that while no two callers have uninstalled one
name, each removes the instance whose hook it has called (`TurnsTaken`).

### LifecycleProofs

For every number of callers, contents and records, however stamps tie, from
`SubjectsAssumption`; for every set of requirements and scenarios:

| Theorem | States |
|---|---|
| `LifecycleIsApproved` | `GovernedSpec => []RecordsAreApproved` |
| `SoleCallsClimb` | `GovernedSpec => []HistoryIsALadder` |
| `ReviewedStands` | `DomainSpec => WhatIsReviewedStands` |

`GovernedInv` adds what a call relies on (`Relies`): the policy let it complete
only with an authorization, and once it goes on to save it has seen the approvals
of its status. Decisions are only added, so they are there when it saves
(`ApprovalsStay`); one evaluation sees all a status takes, since a stage requires
those below it (`RequiredStageSuffices`). `LadderInv` says what holds until two
calls cross and none is stamped back: stamps rise, the record a call has read is
still the last, and its move follows from it (`UpToDate`). `DomainInv` says that what
was submitted has something in it, and `ReviewFits` which results go with which
status of a Review.

### HarnessProofs

For every set of executions, policies, files, agents, clients, connectors, names,
answers and servers:

| Theorem | States |
|---|---|
| `GrantsAreKept` | `RuntimeSpec => []GrantsAreExact` |
| `CallsAreRecorded` | `RuntimeSpec => []EveryCallIsRecorded` |
| `ProvidersAlwaysStand` | `AppSpec => []ProvidersStand` |
| `RequestsAlwaysPaired` | `AppSpec => []RequestsArePaired` |
| `ServersAlwaysFollow` | `AppSpec => []ServersFollowTheFlag` |
| `ChunksAreOfLines` | `StreamSpec => []ChunkingDoesNotMatter` |

* The envelope: `Within` is transitive, so what a guard lets through below an
  accepted folder is below the workspace. `PathsAssumption` says that paths are
  sequences, `RuntimeAssumption` that there is something to ask for wherever a
  policy points: without a path in a folder nothing could show that it is granted.
  `GrantInv` adds that an execution gets past its start only under an envelope that
  holds the workspace itself, which is why a reader of less never starts.
* `TrailInv`: the call in progress has no record yet, each call behind it has one
  record, or is among the lost, and never both.
* `AiInv`: a Map has one connector for each name and its default among them; a
  request was put to connectors that differ, the last of which is connected. It is
  proved of `AppSpec`, where agents and clients use the registry that others
  change (`OwnRequests`: an agent is no client of the harness as well).
* `RunsStand`: of the messages of a run, what the model asked for and got no
  result of is exactly what the run has left to call (`Owed`), and nothing where
  it asks. A callback that throws ends the run there. What a connector sends of
  such a history is paired in its own dialect; `CallsOf`, a recursive function, is
  pinned down by `FoldExists`.
* `FlagInv`: until the first shutdown a call that initializes has tried the
  servers it has been to (`Past`); and while calls take turns and nothing fails, a
  harness that is not initialized has no server, and one that closes has at most
  those it has still to turn to. `HarnessAssumption` says that the servers are a
  list.
* `ReaderInv`: while a reader reads, its buffer is the line of the body it is in
  and no end mark has been heard. What `Lines` makes of a chunk is what taking its
  symbols one by one leads to (`LinesAreCut`), and each symbol takes the reader
  from what the body says up to one place to what it says up to the next.
  `StreamAssumption` says that bodies are sequences.

### What is only model-checked

* Liveness (`Terminates`, `EveryCallReturns`, `CallsEnd`, `EveryRequestIsAnswered`,
  `SessionsAreDisposed`): out of the prover's reach, as is ENABLED.
* The four promises that the code does not keep, which their runs refute:
  `RecoveryIsResolvable`, `ReplacesTheBase`, `GrantedReadersStart`, and
  `RecoveryAgreesWithAudit` when a later handoff supersedes the one to be judged.

Induction: the induction theorems of the library take an operator as parameter,
which no installed prover can instantiate. `Recursion` gets by without:
well-foundedness of the naturals gives least elements (`NatMin`), these give
induction over *sets* of naturals (`SetInduction`), and that the existence of a
recursion along a sequence (`FoldExists`). Where a theorem needs what a recursive
function computes it goes through these.

## 5. The plan

Every safety property of the passing runs has its theorem. What is left:

1. The MCP server has its liveness property only. That a request is answered by its
   own result holds by the shape of the model, in which `answer` is kept per request
   and listener; a model that could say more would have to keep the lines of
   standard output.
2. The components of section 6 that are pure conversions, where a property would be
   about text.

## 6. Not modelled, and why

* **MCP client**: a stub. `connect` sends `initialize` through a function that
  refuses while the client is not connected, so none of its connected branches can
  run (docs/07-status/Capability-Map.md:28 calls it a stub).
* **Spec tools, SDD readers, prompts, rendering of skills, configuration**:
  transformations of text without state. What a configuration may say is an input
  of `RuntimeSession`, what a reader reports an input of the commands.
* **CLI presentation, composition, ports, in-memory repositories, value objects**:
  printing, wiring, interfaces and checks of text. The control of the commands is
  in the components above.
* **HTTP in the connectors**: requests either answer or fail.
* **Encoding and validation of records in the local store**: a record is read back
  as it was saved; an unreadable store stops a command as a crash does.
* **Create use cases of the other aggregates**: each saves one aggregate in its
  initial state and is represented by it. They do not look whether the id exists,
  so that creating one again starts it over; no command calls them so.
