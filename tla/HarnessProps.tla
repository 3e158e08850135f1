------------------------------ MODULE HarnessProps ------------------------------
(***************************************************************************)
(* What the harness, its providers and the agents that share them have to  *)
(* guarantee to each other.                                                *)
(***************************************************************************)
EXTENDS Harness, AgentRun, StreamReader, McpServer, RuntimeSession

M == INSTANCE FiniteSetsExt
S == INSTANCE SequencesExt

\* Agents, harness and registry in one process, with the providers they share.
\* Each has requests of its own.
ASSUME OwnRequests == Agents \cap Clients = {}

appVars == <<aiVars, agentVars, harnessVars>>
AppInit == AiInit /\ AgentInit /\ HarnessInit
AppNext ==
  \/ ProviderNext /\ UNCHANGED <<agentVars, harnessVars>>
  \/ AgentNext /\ UNCHANGED harnessVars
  \/ HarnessNext /\ UNCHANGED agentVars
AppSpec == AppInit /\ [][AppNext]_appVars

--------------------------------------------------------------------------------
(* Providers                                                               *)

\* Whatever comes and goes while a provider is failing, also two providers of one
\* name: the default is registered, and there is one as long as any provider is; a
\* completion asks nobody who is not connected (a stream may: StreamFails); and
\* there is one fallback, never to the provider that has just failed.
ProvidersStand ==
  /\ IF registry = <<>> THEN default = NoName ELSE Cardinality(DefaultConnector) = 1
  /\ \A c \in Callers :
       /\ call[c].pc = "asked" => Asked(c) \in online
       /\ Len(call[c].asked) <= 2 /\ S!IsInjective(call[c].asked)

--------------------------------------------------------------------------------
(* Agents                                                                  *)

\* Every request, as its connector sends it, has the result of each tool call it
\* shows, in the order of the calls and before anything else is said, tools that
\* throw and callbacks that throw included, and no result of a call it does not
\* show: providers refuse a history where one of the two is missing.
PairedHistory(ms) ==
  /\ \A i \in DOMAIN ms : \A j \in DOMAIN ms[i].tool_calls :
       i + j \in DOMAIN ms /\ ms[i + j].tool_call_id = <<ms[i].tool_calls[j]>>
  /\ \A i \in DOMAIN ms : ms[i].tool_call_id # <<>> =>
       \E h \in 1 .. i - 1 : \E j \in DOMAIN ms[h].tool_calls :
         i = h + j /\ ms[i].tool_call_id = <<ms[h].tool_calls[j]>>
RequestsArePaired ==
  \A a \in Agents : call[a].pc = "asked" =>
    PairedHistory(Sends(TypeOf[Asked(a)], run[a].messages))

--------------------------------------------------------------------------------
(* The harness                                                             *)

\* `initialized` tells which servers are there.  While nobody shuts it down, a
\* harness that says it is initialized has tried every server to the end, though
\* several calls initialize it at once.  One that is shut down has no server left,
\* while calls do not overlap and nothing fails.
ServersFollowTheFlag ==
  /\ initialized /\ shutdowns = 0 => \A i \in DOMAIN Servers : Servers[i] \in up \cup refused
  /\ Busy = {} /\ ~initialized /\ overlaps = 0 /\ faults = 0 => up = {}

\* A run of an agent ends, and every call of the harness comes back, whatever
\* models, tools, servers, callbacks and handlers do, once each of them answers
\* or fails: nothing waits for an answer that has come already.
CallsEnd ==
  /\ \A a \in Agents : ~AgentAt(a, "off") ~> run[a].pc \in {"ended", "rejected"}
  /\ \A p \in Clients : ~HAt(p, "idle") ~> HAt(p, "idle")

--------------------------------------------------------------------------------
(* Streams                                                                 *)

\* Where the lines end, and what is between, without reading piece by piece.
LineEnds == {i \in DOMAIN body : body[i] = "NL"}
LineTo(i) == SubSeq(body, 1 + M!Max({0} \cup {j \in LineEnds : j < i}), i - 1)
Heard == {i \in LineEnds : \A j \in LineEnds : j < i => ~IsDone(LineTo(j))}

\* However the network cuts the body, the chunks yielded are those of the whole
\* lines that have been read, each once and in their order, up to the end mark.
ChunkingDoesNotMatter ==
  LET said[i \in 0 .. Len(body)] ==
        IF i = 0 THEN <<>>
        ELSE said[i - 1] \o (IF i \in Heard THEN Worth(LineTo(i)) ELSE <<>>)
  IN out = said[read]

--------------------------------------------------------------------------------
(* The MCP server                                                          *)

\* Every request that listeners have read is answered by each of them, though its
\* tool is taken away or throws and though the server is stopped meanwhile.
EveryRequestIsAnswered ==
  \A r \in Requests :
    asked[r] # "" ~> \A l \in Listeners : answer[r][l] \in {""} \cup Replies

--------------------------------------------------------------------------------
(* Executions in the Pi runtime                                            *)

\* What a policy lists, its guard lets through, and nothing else: writing, hosts and
\* secrets for every accepted policy, since whoever accepts one and whoever guards
\* it read it alike (an empty list of paths is accepted, and grants nothing).
\* Reading is of the whole workspace or not at all: an execution only gets past its
\* start under an envelope that is the workspace, and only a granted tool is called.
\* (That a narrower one is accepted all the same is another matter: see below.)
Started(e) == exec[e].pc \notin {"off", "threw"} \/ exec[e].reads # 0
GrantsAreExact ==
  /\ Accepts(policy) =>
       LET granted == policy.capabilities IN
       /\ (\E path \in Paths : MayMaterialize(policy, path, FALSE, TRUE))
            <=> "workspace.write" \in granted /\ AllowedPaths(policy) # {}
       /\ (\E host \in Hosts : MayReach(policy, host)) <=> "network.access" \in granted
       /\ (\E name \in Secrets : MayKnow(policy, name)) <=> "secrets.read" \in granted
  /\ \A e \in Executions :
       /\ Started(e) => \A path \in Paths : MayRead(policy, path) <=> Within(Root, path)
       /\ exec[e].reads # 0 => "workspace.read" \in policy.capabilities

\* docs/05-reference/Project-Configuration.md:28-33 grants `workspace.read` on two
\* folders of the workspace, and :61-63 asks of `allowedPaths` that they are inside
\* it: an execution with such a grant is started.  The code refuses every one.
GrantedReadersStart ==
  [][\A e \in Executions :
       /\ ExecutionAt(e, "off") /\ Accepts(policy)
       /\ "workspace.read" \in policy.capabilities /\ AllowedPaths(policy) # {}
       => exec'[e].pc # "threw"]_runtimeVars

\* Each call of the read tool that is over has one record, which says what came
\* of it, unless the record could not be written: whatever happens to the file
\* between access and read, and wherever the process dies.
IsOver(e, n) == n < exec[e].reads \/ exec[e].pc \notin {"access", "read", "record", "crashed"}
EveryCallIsRecorded ==
  \A e \in Executions : \A n \in 1 .. exec[e].reads :
    LET records == {r \in trail : r.call = <<e, n>>} IN
    IsOver(e, n) =>
      /\ Cardinality(records) = IF <<e, n>> \in lost THEN 0 ELSE 1
      /\ \A r \in records : /\ r.outcome = "allowed" <=> n \in exec[e].handed
                            /\ r.outcome = "denied"  <=> ~MayRead(policy, r.path)

\* A session that was created is disposed, however the prompt ends, once the
\* model behind it answers or fails.
SessionsAreDisposed == \A e \in Executions : exec[e].open ~> ~exec[e].open

================================================================================
