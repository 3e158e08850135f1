-------------------------------- MODULE Harness --------------------------------
(***************************************************************************)
(* The harness: sessions, MCP servers and completions.                     *)
(* src/core/harness.ts, over src/core/context.ts, src/core/events.ts and   *)
(* src/core/mcp/{manager,registry,connector}.ts.                           *)
(*                                                                         *)
(* Clients of one process call it at the same time.  `initialized` is only *)
(* set at the end of initialize, and nobody waits for anybody else.        *)
(***************************************************************************)
EXTENDS AiManager

CONSTANTS
  Clients,      \* who calls the harness
  Servers,      \* the registered MCP connectors, in order
  Sessions,     \* ids of sessions
  Options,      \* the provider that options name, or NoName
  MaxCalls, MaxOverlaps, MaxFaults   \* bounds

ASSUME HarnessAssumption ==
  /\ Clients \subseteq Callers /\ Options \subseteq Names \cup {NoName}
  /\ DOMAIN Servers = 1 .. Len(Servers) /\ Len(Servers) \in Nat

VARIABLES
  initialized,
  up,         \* the MCP connectors whose `connected` is set
  refused,    \* those an initialize could not connect, since the last shutdown
  sessions,   \* the Map of the context manager: the live ones, and if they name servers
  hjob,       \* the calls in progress
  calls, overlaps, faults, shutdowns   \* how often something happened

harnessVars == <<initialized, up, refused, sessions, hjob, calls, overlaps, faults, shutdowns>>

HarnessPoints ==
  {"idle", "initializing", "connecting", "announcing", "initialized",
   "tools", "completing", "waiting", "closing"}

Kinds == {"initialize", "complete", "stream", "shutdown"}

NoJob == [pc |-> "idle", kind |-> "initialize", session |-> NoName, withTools |-> FALSE,
          left |-> {}, offered |-> {}]

HAt(p, point) == hjob[p].pc = point
HGoto(p, point) == hjob' = [hjob EXCEPT ![p].pc = point]
HEnd(p) == hjob' = [hjob EXCEPT ![p] = NoJob]
Busy == {p \in Clients : ~HAt(p, "idle")}

Connected == {i \in DOMAIN Servers : Servers[i] \in up}   \* listConnected()

\* `left` has the places of the servers that a call still has to turn to, and it
\* turns to them in the order of the registry.
Turn(p) == CHOOSE i \in hjob[p].left : \A j \in hjob[p].left : i <= j
Server(p) == Servers[Turn(p)]

Live == {s \in Sessions : sessions[s].live}

counted == <<calls, overlaps, shutdowns>>

\* A new call, which may find others in progress.
Enter(p) ==
  /\ HAt(p, "idle")
  /\ calls < MaxCalls /\ calls' = calls + 1
  /\ overlaps' = IF Busy = {} THEN overlaps ELSE overlaps + 1
  /\ overlaps' <= MaxOverlaps

Fault == faults < MaxFaults /\ faults' = faults + 1

--------------------------------------------------------------------------------
(* Sessions: a Map, with no word to the calls that use one.                *)

CreateSession(s, servers) ==
  /\ calls < MaxCalls /\ calls' = calls + 1
  /\ s \notin Live
  /\ sessions' = [sessions EXCEPT ![s] = [live |-> TRUE, servers |-> servers]]
  /\ UNCHANGED <<initialized, up, refused, hjob, overlaps, faults, shutdowns, aiVars>>

EndSession(s) ==
  /\ s \in Live
  /\ sessions' = [sessions EXCEPT ![s] = [live |-> FALSE, servers |-> FALSE]]
  /\ UNCHANGED <<initialized, up, refused, hjob, calls, overlaps, faults, shutdowns, aiVars>>

--------------------------------------------------------------------------------
(* initialize                                                              *)

\* A completion that has found its session: it takes the tools of every server
\* that is connected now, if the session names any server, whichever it names.
WithSession(job) ==
  IF job.session \notin Live THEN NoJob
  ELSE IF job.kind = "complete" /\ job.withTools /\ sessions[job.session].servers
  THEN [job EXCEPT !.pc = "tools", !.left = Connected]
  ELSE [job EXCEPT !.pc = "completing"]

\* complete and stream initialize first; initialize twice is nothing.
Begin(p, kind, session, withTools) ==
  LET job == [NoJob EXCEPT !.kind = kind, !.session = session, !.withTools = withTools]
  IN /\ Enter(p)
     /\ hjob' = [hjob EXCEPT ![p] =
          IF ~initialized THEN [job EXCEPT !.pc = "initializing"]
          ELSE IF kind = "initialize" THEN NoJob ELSE WithSession(job)]
     /\ UNCHANGED <<initialized, up, refused, sessions, faults, shutdowns, aiVars>>

\* Mutant: a second call finds the harness initialized while the first connects.
InitializingAtOnce(p) ==
  /\ HAt(p, "initializing")
  /\ hjob' = [hjob EXCEPT ![p].pc = "connecting", ![p].left = DOMAIN Servers]
  /\ initialized' = TRUE
  /\ UNCHANGED <<up, refused, sessions, counted, faults, aiVars>>

\* "harness:initializing" has been emitted: the status of all servers.
Initializing(p) ==
  /\ HAt(p, "initializing")
  /\ hjob' = [hjob EXCEPT ![p].pc = "connecting", ![p].left = DOMAIN Servers]
  /\ UNCHANGED <<initialized, up, refused, sessions, counted, faults, aiVars>>

\* One server after the other, connected or not: connect, then emit.
Connect(p) ==
  /\ HAt(p, "connecting") /\ hjob[p].left # {}
  /\ up' = up \cup {Server(p)}
  /\ refused' = refused \ {Server(p)}
  /\ HGoto(p, "announcing")
  /\ UNCHANGED <<initialized, sessions, counted, faults, aiVars>>

ConnectFails(p) ==
  /\ HAt(p, "connecting") /\ hjob[p].left # {}
  /\ Fault
  /\ refused' = refused \cup {Server(p)}
  /\ HGoto(p, "announcing")
  /\ UNCHANGED <<initialized, up, sessions, counted, aiVars>>

\* "mcp:connected" or "mcp:error" has been emitted.
Announced(p) ==
  /\ HAt(p, "announcing")
  /\ hjob' = [hjob EXCEPT ![p].pc = "connecting", ![p].left = @ \ {Turn(p)}]
  /\ UNCHANGED <<initialized, up, refused, sessions, counted, faults, aiVars>>

\* The flag, then "harness:initialized".
Initialize(p) ==
  /\ HAt(p, "connecting") /\ hjob[p].left = {}
  /\ initialized' = TRUE
  /\ HGoto(p, "initialized")
  /\ UNCHANGED <<up, refused, sessions, counted, faults, aiVars>>

--------------------------------------------------------------------------------
(* complete and stream                                                     *)

\* "harness:initialized" has been emitted; the session may have ended by then.
Proceed(p) ==
  /\ HAt(p, "initialized")
  /\ hjob' = [hjob EXCEPT ![p] = IF @.kind = "initialize" THEN NoJob ELSE WithSession(@)]
  /\ UNCHANGED <<initialized, up, refused, sessions, counted, faults, aiVars>>

ListTools(p) ==
  /\ HAt(p, "tools")
  /\ hjob' = IF hjob[p].left = {}
             THEN [hjob EXCEPT ![p].pc = "completing"]
             ELSE [hjob EXCEPT ![p].left = @ \ {Turn(p)}, ![p].offered = @ \cup {Server(p)}]
  /\ UNCHANGED <<initialized, up, refused, sessions, counted, faults, aiVars>>

\* "ai:completing" has been emitted.
Complete(p) ==
  /\ HAt(p, "completing")
  /\ HGoto(p, "waiting")
  /\ \E name \in Options : Send(p, hjob[p].kind, name)
  /\ UNCHANGED <<initialized, up, refused, sessions, counted, faults, registry, default, changes>>

\* The manager has answered or failed: the caller gets it.
Completed(p) ==
  /\ HAt(p, "waiting") /\ call[p].pc \in {"answered", "failed"}
  /\ HEnd(p)
  /\ call' = [call EXCEPT ![p] = NoCall]
  /\ UNCHANGED <<initialized, up, refused, sessions, counted, faults, registry, default, online, changes>>

--------------------------------------------------------------------------------
(* shutdown                                                                *)

\* "harness:shutting-down" has been emitted: the status of this moment.
Shutdown(p) ==
  /\ Enter(p)
  /\ shutdowns' = shutdowns + 1
  /\ hjob' = [hjob EXCEPT ![p] = [NoJob EXCEPT !.kind = "shutdown", !.pc = "closing", !.left = Connected]]
  /\ UNCHANGED <<initialized, up, refused, sessions, faults, aiVars>>

Disconnect(p) ==
  /\ HAt(p, "closing") /\ hjob[p].left # {}
  /\ up' = up \ {Server(p)}
  /\ hjob' = [hjob EXCEPT ![p].left = @ \ {Turn(p)}]
  /\ UNCHANGED <<initialized, refused, sessions, counted, faults, aiVars>>

Close(p) ==
  /\ HAt(p, "closing") /\ hjob[p].left = {}
  /\ initialized' = FALSE /\ refused' = {}
  /\ HEnd(p)
  /\ UNCHANGED <<up, sessions, counted, faults, aiVars>>

\* A server, or a handler of the event that is emitted, rejects: so does the call.
Rejects(p) ==
  /\ hjob[p].pc \in {"initializing", "announcing", "initialized", "tools", "completing", "closing"}
  /\ Fault
  /\ HEnd(p)
  /\ UNCHANGED <<initialized, up, refused, sessions, counted, aiVars>>

--------------------------------------------------------------------------------

\* The sessions there may be when the clients start.
HarnessInit ==
  /\ initialized = FALSE /\ up = {} /\ refused = {}
  /\ sessions \in [Sessions -> [live : {TRUE}, servers : BOOLEAN]]
  /\ hjob = [p \in Clients |-> NoJob]
  /\ calls = 0 /\ overlaps = 0 /\ faults = 0 /\ shutdowns = 0

HarnessStart(p) ==
  \/ \E kind \in {"initialize", "complete", "stream"}, s \in Sessions, t \in BOOLEAN :
       (t => kind = "complete") /\ Begin(p, kind, s, t)
  \/ Shutdown(p)

HarnessStep(p) ==
  \/ Initializing(p) \/ Connect(p) \/ Announced(p) \/ Initialize(p)
  \/ Proceed(p) \/ ListTools(p) \/ Complete(p) \/ Completed(p)
  \/ Disconnect(p) \/ Close(p)

SessionStep ==
  \E s \in Sessions :
    EndSession(s) \/ \E servers \in BOOLEAN : CreateSession(s, servers)

HarnessNext ==
  \/ SessionStep
  \/ \E p \in Clients : HarnessStart(p) \/ HarnessStep(p) \/ ConnectFails(p) \/ Rejects(p)

================================================================================
