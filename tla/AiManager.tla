------------------------------- MODULE AiManager -------------------------------
(***************************************************************************)
(* The AI providers that agents and harness share: the registry with its   *)
(* default, and the manager that falls back to that default when the       *)
(* provider it asked fails.  src/core/ai/{registry,manager,connector}.ts   *)
(*                                                                         *)
(* All callers run on one event loop: what lies between two awaits is one  *)
(* action.  The registry may change while a provider is thinking.          *)
(***************************************************************************)
EXTENDS Integers, Sequences, FiniteSets, Dialects

CONSTANTS
  Callers,     \* who may have a request in flight
  Connectors,  \* AIConnector objects
  NameOf,      \* the metadata.name of each: two may share one
  NoName,      \* no provider is named, or none is the default
  Streaming,   \* the connectors that have a stream
  TypeOf,      \* the provider each of them talks to
  Keyed,       \* those for which an apiKey is configured
  MaxChunks, MaxChanges   \* bounds: on a stream, on changes of the registry

ASSUME AiAssumption ==
  /\ NameOf \in [Connectors -> {NameOf[k] : k \in Connectors}]
  /\ NoName \notin {NameOf[k] : k \in Connectors} \cup Connectors
  /\ Streaming \cup Keyed \subseteq Connectors
  /\ TypeOf \in [Connectors -> Types]

VARIABLES
  registry,   \* the connectors in the order of the Map
  default,    \* defaultName
  online,     \* the connectors whose `connected` is set
  call,       \* the request of each caller
  changes     \* how often the registry changed

aiVars == <<registry, default, online, call, changes>>

Names == {NameOf[k] : k \in Connectors}

Call ==
  [pc : {"idle", "asked", "streaming", "answered", "failed"},
   asked : Seq(Connectors),    \* whom the manager asked, in this order
   chunks : Seq(Connectors)]   \* who sent the chunks the caller has seen

NoCall == [pc |-> "idle", asked |-> <<>>, chunks |-> <<>>]

Asked(c) == call[c].asked[Len(call[c].asked)]

--------------------------------------------------------------------------------
(* The registry: a Map by name, and the name of the default.               *)

Position(name) == {i \in DOMAIN registry : NameOf[registry[i]] = name}
Named(name) == {registry[i] : i \in Position(name)}
DefaultConnector == Named(default)

\* A connector takes the place of one of its name; the first is the default.
Register(k) ==
  /\ changes < MaxChanges /\ changes' = changes + 1
  /\ registry' = IF Position(NameOf[k]) = {}
                 THEN Append(registry, k)
                 ELSE [i \in DOMAIN registry |-> IF i \in Position(NameOf[k]) THEN k ELSE registry[i]]
  /\ default' = IF default = NoName THEN NameOf[k] ELSE default
  /\ UNCHANGED <<online, call>>

\* The first one that is left becomes the default, if the default goes.
Unregister(name) ==
  /\ changes < MaxChanges /\ changes' = changes + 1
  /\ \/ Position(name) = {} /\ registry' = registry
     \/ \E i \in Position(name) :
          registry' = SubSeq(registry, 1, i - 1) \o SubSeq(registry, i + 1, Len(registry))
  /\ default' = IF default # name THEN default
                ELSE IF registry' = <<>> THEN NoName ELSE NameOf[registry'[1]]
  /\ UNCHANGED <<online, call>>

SetDefault(name) ==
  /\ changes < MaxChanges /\ changes' = changes + 1
  /\ default' = IF Named(name) # {} THEN name ELSE default
  /\ UNCHANGED <<registry, online, call>>

\* AIManager.connect, which nobody undoes.
ConnectProvider(name) ==
  /\ Named(name) # {}
  /\ online' = online \cup Named(name)
  /\ UNCHANGED <<registry, default, call, changes>>

--------------------------------------------------------------------------------
(* AIManager.complete and AIManager.stream                                 *)

\* resolveConnector, then connect if need be, then ask.  A connect() that throws
\* does so before the try: there is no falling back.
Send(c, kind, name) ==
  LET ks == IF name = NoName THEN DefaultConnector ELSE Named(name)
      Fails(on) == /\ call' = [call EXCEPT ![c] = [NoCall EXCEPT !.pc = "failed"]]
                   /\ online' = on
  IN \/ /\ ks = {}
        /\ Fails(online)
     \/ \E k \in ks :
          \/ /\ k \notin online
             /\ Fails(online)
          \/ /\ kind = "stream" /\ k \notin Streaming
             /\ Fails(online \cup {k})
          \/ /\ kind = "stream" => k \in Streaming
             /\ call' = [call EXCEPT ![c] = [NoCall EXCEPT
                           !.pc = IF kind = "stream" THEN "streaming" ELSE "asked",
                           !.asked = <<k>>]]
             /\ online' = online \cup {k}

\* Without its key a provider is never asked: it throws.
HasKey(k) == TypeOf[k] \in NeedsKey => k \in Keyed

Answers(c) ==
  /\ call[c].pc \in {"asked", "streaming"} /\ HasKey(Asked(c))
  /\ call' = [call EXCEPT ![c].pc = "answered"]
  /\ UNCHANGED <<registry, default, online, changes>>

ChunkArrives(c) ==
  /\ call[c].pc = "streaming"
  /\ HasKey(Asked(c)) /\ Len(call[c].chunks) < MaxChunks
  /\ call' = [call EXCEPT ![c].chunks = Append(@, Asked(c))]
  /\ UNCHANGED <<registry, default, online, changes>>

\* The default of now, unless it is the one that failed or the second to fail.
Fallback(c) == IF Len(call[c].asked) = 1 THEN DefaultConnector \ {Asked(c)} ELSE {}

Retry(c, k) == call' = [call EXCEPT ![c].asked = Append(@, k)]

\* Mutant: the default is taken for connected.
FailsOverOffline(c) ==
  /\ call[c].pc = "asked"
  /\ \/ \E k \in Fallback(c) : Retry(c, k)
     \/ /\ Fallback(c) = {}
        /\ call' = [call EXCEPT ![c].pc = "failed"]
  /\ UNCHANGED <<registry, default, online, changes>>

\* The error reaches the caller when there is nobody else to ask, and so does that
\* of a default that cannot be connected.
Fails(c) ==
  /\ call[c].pc = "asked"
  /\ \/ \E k \in Fallback(c) : Retry(c, k) /\ online' = online \cup {k}
     \/ /\ Fallback(c) = {} \/ ~(Fallback(c) \subseteq online)
        /\ call' = [call EXCEPT ![c].pc = "failed"]
        /\ UNCHANGED online
  /\ UNCHANGED <<registry, default, changes>>

\* The default starts its stream from the beginning, connected or not, for a
\* caller who has the chunks of the one that failed.
StreamFails(c) ==
  /\ call[c].pc = "streaming"
  /\ \/ \E k \in Fallback(c) \cap Streaming : Retry(c, k)
     \/ /\ Fallback(c) \cap Streaming = {}
        /\ call' = [call EXCEPT ![c].pc = "failed"]
  /\ UNCHANGED <<registry, default, online, changes>>

--------------------------------------------------------------------------------

AiInit ==
  /\ registry = <<>> /\ default = NoName /\ online = {}
  /\ call = [c \in Callers |-> NoCall]
  /\ changes = 0

RegistryStep ==
  \/ \E k \in Connectors : Register(k)
  \/ \E name \in Names : Unregister(name) \/ SetDefault(name) \/ ConnectProvider(name)

\* What a provider that is asked does in the end.
ProviderStep(c) == Answers(c) \/ Fails(c) \/ StreamFails(c)

ProviderNext == RegistryStep \/ \E c \in Callers : ProviderStep(c) \/ ChunkArrives(c)

================================================================================
