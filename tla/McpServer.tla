------------------------------- MODULE McpServer -------------------------------
(***************************************************************************)
(* The MCP server over stdin, src/mcp/server.ts: requests that come while  *)
(* the handlers of others are running, tools that come and go, a server    *)
(* that is started again.  `stop` does not take the listener off stdin.    *)
(* stdin is a terminal here: without one, `start` listens to nothing.      *)
(***************************************************************************)
EXTENDS Integers, FiniteSets

CONSTANTS
  Requests,    \* ids of requests
  Tools,       \* names of tools, and of resources, which are read alike
  MaxStarts    \* bound

VARIABLES
  running,
  listeners,   \* how many handlers of stdin's "data" there are
  tools,       \* the Map of registered tools
  asked,       \* what each line asks for, a tool or else, "" before it has come
  answer       \* per request and listener: "", "working" or the kind of answer

mcpVars == <<running, listeners, tools, asked, answer>>

Listeners == 1 .. MaxStarts
Replies == {"result", "error", "not-found", "parse-error"}

StartServer ==
  /\ ~running /\ listeners < MaxStarts
  /\ running' = TRUE
  /\ listeners' = listeners + 1
  /\ UNCHANGED <<tools, asked, answer>>

StopServer ==
  /\ running
  /\ running' = FALSE
  /\ UNCHANGED <<listeners, tools, asked, answer>>

RegisterTool(t) ==
  /\ t \notin tools
  /\ tools' = tools \cup {t}
  /\ UNCHANGED <<running, listeners, asked, answer>>

UnregisterTool(t) ==
  /\ t \in tools
  /\ tools' = tools \ {t}
  /\ UNCHANGED <<running, listeners, asked, answer>>

\* What is known of a line at once: "garbage" is no JSON and gets no answer.
AtOnce(t) ==
  IF t \in tools THEN "working"
  ELSE IF t \in Tools THEN "not-found"
  ELSE IF t = "garbage" THEN "parse-error"
  ELSE "result"

\* Every listener parses the line and starts: a handler, or an answer at once.
RequestComes(r, t) ==
  /\ asked[r] = ""
  /\ asked' = [asked EXCEPT ![r] = t]
  /\ answer' = [answer EXCEPT ![r] =
       [l \in Listeners |-> IF l <= listeners THEN AtOnce(t) ELSE ""]]
  /\ UNCHANGED <<running, listeners, tools>>

\* Mutant: a handler that throws is not caught.
HandlerReturns(r, l) ==
  /\ answer[r][l] = "working"
  /\ \E kind \in {"result", "thrown"} : answer' = [answer EXCEPT ![r][l] = kind]
  /\ UNCHANGED <<running, listeners, tools, asked>>

\* The handler returns or throws: a result, or the error -32603.
HandlerEnds(r, l) ==
  /\ answer[r][l] = "working"
  /\ \E kind \in {"result", "error"} : answer' = [answer EXCEPT ![r][l] = kind]
  /\ UNCHANGED <<running, listeners, tools, asked>>

McpInit ==
  /\ running = FALSE /\ listeners = 0 /\ tools = {}
  /\ asked = [r \in Requests |-> ""]
  /\ answer = [r \in Requests |-> [l \in Listeners |-> ""]]

McpStep ==
  \/ StartServer \/ StopServer
  \/ \E t \in Tools : RegisterTool(t) \/ UnregisterTool(t)
  \/ \E r \in Requests, t \in Tools \cup {"garbage", "ping"} : RequestComes(r, t)
  \/ \E r \in Requests, l \in Listeners : HandlerEnds(r, l)

================================================================================
