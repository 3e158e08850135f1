\* The read tool is granted on a folder of the workspace: executions are refused.
SPECIFICATION Spec
CONSTANTS
  k1 = k1  k2 = k2  k3 = k3  a1 = a1  c1 = c1  c2 = c2  none = none
  Connectors <- AllConnectors
  NameOf <- AllNames
  NoName = none
  Streaming <- Streams
  TypeOf <- Providers
  Keyed <- WithKeys
  Callers <- Everybody
  MaxChunks = 1
  MaxChanges = 3
  Agents <- Runs
  ModelReplies <- Blocks
  MaxIterations = 2
  MaxThrows = 1
  Clients <- People
  Servers <- Both
  Sessions = {"s"}
  Options <- SecondOrDefault
  MaxCalls = 2
  MaxOverlaps = 1
  MaxFaults = 1
  Bodies <- OneBody
  Requests = {"r1", "r2"}
  Tools = {"read"}
  MaxStarts = 2
  Root <- Workspace
  Paths <- AFolder
  Hosts = {"host"}
  Secrets = {"key"}
  Dotted = {"..file"}
  Executions = {"x1"}
  Policies <- SomePolicies
  Runtimes = {"fake", "pi"}
  MaxReads = 2
  MaxRewrites = 1
  MaxLosses = 1
PROPERTIES
  GrantedReadersStart
CHECK_DEADLOCK FALSE
