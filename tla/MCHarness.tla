------------------------------- MODULE MCHarness -------------------------------
(***************************************************************************)
(* The harness and its parts for TLC.  A behaviour is about one of them    *)
(* (`focus`), so that TLC explores their union and not their product.      *)
(***************************************************************************)
EXTENDS HarnessProps

CONSTANTS k1, k2, k3, a1, c1, c2, none

VARIABLE focus

allVars == <<aiVars, agentVars, harnessVars, streamVars, mcpVars, runtimeVars, focus>>

AllConnectors == {k1, k2, k3}
AllNames == [k \in AllConnectors |-> IF k = k2 THEN "second" ELSE "first"]
Streams == {k1, k2}
Runs == {a1}
People == {c1, c2}
Everybody == Runs \cup People
Blocks == {<<"text">>, <<"t1">>, <<"text", "t1", "t2">>}
Providers == [k \in AllConnectors |-> IF k = k1 THEN "openai" ELSE IF k = k2 THEN "local" ELSE "claude"]
WithKeys == {k1}
Both == <<"files", "search">>
SecondOrDefault == {NoName, "second"}
OneBody ==
  {first \o <<"NL">> \o second \o <<"NL">> \o third \o end :
     first \in {<<"data", "text">>, <<>>},
     second \in {<<"data", "tool">>, <<"data", "tools">>, <<"data", "DONE">>, <<"noise">>},
     third \in {<<"data", "finish">>, <<"text">>}, end \in {<<>>, <<"NL">>}}

Workspace == <<"ws">>
AFolder == {<<"ws", "src", "file">>, <<"ws", "notes">>, <<"ws", "..file">>, <<"other">>}
Denied == [allowed |-> <<>>, mode |-> Unset, capabilities |-> {}, network |-> "disabled", hosts |-> {},
           secrets |-> "none", names |-> {}, confirmations |-> "always", risks |-> <<>>]
SomePolicies ==
  {[Denied EXCEPT !.allowed = allowed, !.mode = mode, !.capabilities = capabilities,
                  !.network = network, !.hosts = hosts] :
     allowed \in {<<>>, <<{}>>, <<{<<"ws", "src">>}>>, <<{<<"other">>}>>},
     mode \in {Unset, "read-write"},
     capabilities \in {{}, {"workspace.read"}, {"workspace.read", "workspace.write", "network.access"}},
     network \in {"disabled", "allowlist"}, hosts \in {{}, {"host"}}}
  \cup
  {[Denied EXCEPT !.secrets = secrets, !.names = names, !.capabilities = capabilities,
                  !.confirmations = confirmations, !.mode = "read-write"] :
     secrets \in {"none", "allowlist"}, names \in {{}, {"key"}},
     capabilities \in {{}, {"secrets.read"}, {"secrets.read", "workspace.write"}},
     confirmations \in {"never", "on-risk", "always"}}

\* The harness starts with two providers, and they stay; the agents with none.
Provided ==
  /\ registry = <<k1, k2>> /\ default = NameOf[k1] /\ online = {}
  /\ call = [c \in Callers |-> NoCall]
  /\ changes = MaxChanges

Init ==
  /\ focus \in {"agents", "harness", "stream", "mcp", "runtime"}
  /\ IF focus = "harness" THEN Provided ELSE AiInit
  /\ AgentInit /\ HarnessInit /\ StreamInit /\ McpInit /\ RuntimeInit
  /\ focus = "harness" \/ \A s \in Sessions : sessions[s].servers
  /\ focus = "stream" \/ body = CHOOSE b \in Bodies : TRUE
  /\ focus = "stream" \/ dialect = "openai"
  /\ focus = "runtime" \/ policy = Denied

Focus(f, others) == focus = f /\ UNCHANGED <<others, focus>>

AgentsTurn(a) == Focus("agents", <<harnessVars, streamVars, mcpVars, runtimeVars>>) /\ AgentStep(a)
HarnessTurn(p) == Focus("harness", <<agentVars, streamVars, mcpVars, runtimeVars>>) /\ HarnessStep(p)
ProvidersTurn(c) ==
  /\ focus \in {"agents", "harness"} /\ ProviderStep(c)
  /\ UNCHANGED <<agentVars, harnessVars, streamVars, mcpVars, runtimeVars, focus>>
HandlersTurn ==
  /\ Focus("mcp", <<aiVars, agentVars, harnessVars, streamVars, runtimeVars>>)
  /\ \E r \in Requests, l \in Listeners : HandlerEnds(r, l)
McpTurn == Focus("mcp", <<aiVars, agentVars, harnessVars, streamVars, runtimeVars>>) /\ McpStep
RuntimesTurn(e) == Focus("runtime", <<aiVars, agentVars, harnessVars, streamVars, mcpVars>>) /\ ExecutionStep(e)

Next ==
  \/ Focus("agents", <<harnessVars, streamVars, mcpVars, runtimeVars>>) /\ AgentNext
  \/ Focus("harness", <<agentVars, streamVars, mcpVars, runtimeVars>>) /\ HarnessNext
  \/ Focus("agents", <<agentVars, harnessVars, streamVars, mcpVars, runtimeVars>>) /\ ProviderNext
  \/ /\ Focus("harness", <<agentVars, harnessVars, streamVars, mcpVars, runtimeVars>>)
     /\ \E c \in Callers : ProviderStep(c) \/ ChunkArrives(c)
  \/ Focus("stream", <<aiVars, agentVars, harnessVars, mcpVars, runtimeVars>>) /\ StreamStep
  \/ McpTurn
  \/ Focus("runtime", <<aiVars, agentVars, harnessVars, streamVars, mcpVars>>) /\ RuntimeNext

Fairness ==
  /\ \A a \in Agents : WF_allVars(AgentsTurn(a))
  /\ \A p \in Clients : WF_allVars(HarnessTurn(p))
  /\ \A c \in Callers : WF_allVars(ProvidersTurn(c))
  /\ WF_allVars(HandlersTurn)
  /\ \A e \in Executions : WF_allVars(RuntimesTurn(e))

Spec == Init /\ [][Next]_allVars /\ Fairness

================================================================================
