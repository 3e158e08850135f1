-------------------------- MODULE ExecutionEnvironment --------------------------
(***************************************************************************)
(* The envelope of an execution: which policies the configuration may ask  *)
(* for, and what the guard of an accepted one lets a runtime or a tool do. *)
(* src/runtime/execution-environment.ts                                    *)
(*                                                                         *)
(* A policy is what config.yml says: allowed, mode and confirmations may   *)
(* be left out (Unset).  A path is the sequence of its names.              *)
(***************************************************************************)
EXTENDS Integers, Sequences, FiniteSets

CONSTANTS
  Root,     \* the workspace, resolved
  Paths,    \* the paths a tool may be asked for
  Hosts,    \* the network
  Secrets,  \* names of secrets
  Dotted    \* names of files that begin with two dots

IsPath(path) == Len(path) \in Nat /\ path = [i \in 1 .. Len(path) |-> path[i]]

ASSUME PathsAssumption == IsPath(Root) /\ \A path \in Paths : IsPath(path)

Unset == "unset"

\* path.relative from the one to the other does not begin with "..".
Within(root, path) ==
  /\ Len(root) <= Len(path) /\ \A i \in DOMAIN root : path[i] = root[i]
  /\ path = root \/ path[Len(root) + 1] \notin Dotted

AllowedPaths(policy) == IF policy.allowed = <<>> THEN {Root} ELSE policy.allowed[1]

\* createExecutionEnvironment does not throw.
Accepts(policy) ==
  /\ \A path \in AllowedPaths(policy) : Within(Root, path)
  /\ policy.network = "allowlist" => policy.hosts # {}
  /\ policy.secrets = "allowlist" => policy.names # {}
  /\ "workspace.write" \in policy.capabilities => policy.mode = "read-write"
  /\ "network.access" \in policy.capabilities => policy.network = "allowlist"
  /\ "secrets.read" \in policy.capabilities => policy.secrets = "allowlist"

\* assertWorkspacePath, without and with write access.
MayRead(policy, path) == \E allowed \in AllowedPaths(policy) : Within(allowed, path)
MayWrite(policy, path) ==
  MayRead(policy, path) /\ policy.mode = "read-write" /\ "workspace.write" \in policy.capabilities

\* assertNetworkHost and assertSecret.
MayReach(policy, host) ==
  "network.access" \in policy.capabilities /\ policy.network = "allowlist" /\ host \in policy.hosts
MayKnow(policy, name) ==
  "secrets.read" \in policy.capabilities /\ policy.secrets = "allowlist" /\ name \in policy.names

\* The risk classes that need a human, unless the configuration lists others.
\* None of them is a class that the materializer asks for.
RiskClasses(policy) ==
  IF policy.risks = <<>>
  THEN {"workspace.write", "process.execute", "network.access", "secrets.read"}
  ELSE policy.risks[1]

\* requireConfirmation, when the human has confirmed nothing.
Unconfirmed(policy, risk) ==
  \/ policy.confirmations = "never"
  \/ policy.confirmations = "on-risk" /\ risk \notin RiskClasses(policy)

\* The guards of materializeApprovedChange, with the strategy that is configured.
MayMaterialize(policy, path, external, confirmed) ==
  /\ MayWrite(policy, path)
  /\ confirmed \/ Unconfirmed(policy, "sdd.change.write")
  /\ external =>
       /\ "process.execute" \in policy.capabilities
       /\ confirmed \/ Unconfirmed(policy, "sdd.change.external-generation")

================================================================================
