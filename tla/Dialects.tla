------------------------------- MODULE Dialects -------------------------------
(***************************************************************************)
(* What the connectors of src/connectors make of a conversation: which     *)
(* parts of a message reach the provider, which parts of an answer reach   *)
(* the harness, and what a line of a stream is worth.                      *)
(*                                                                         *)
(* A message of the harness is [role, ids], with the ids of the tool calls *)
(* an assistant makes or the id of the call a tool answers.  An answer is  *)
(* a sequence of blocks: "text", or the id of a tool call.                 *)
(***************************************************************************)
EXTENDS Integers, Sequences

Types == {"openai", "copilot", "custom", "local", "claude"}

\* `complete` and `stream` throw at once without an apiKey.
NeedsKey == {"openai", "copilot", "claude"}

OpenAiSends(m) ==
  [role         |-> m.role,
   tool_calls   |-> IF m.role = "assistant" THEN m.ids ELSE <<>>,
   tool_call_id |-> IF m.role = "tool" THEN m.ids ELSE <<>>]
CopilotSends(m) == OpenAiSends(m)
CustomSends(m)  == OpenAiSends(m)

\* The role and the text: who called for a result is not said.
LocalSends(m)  == [role |-> m.role, tool_calls |-> <<>>, tool_call_id |-> <<>>]
ClaudeSends(m) == LocalSends(m)

\* The messages as they are sent; Claude has no system messages among them.
Sends(type, messages) ==
  LET spoken == IF type = "claude"
                THEN SelectSeq(messages, LAMBDA m : m.role # "system") ELSE messages
  IN [i \in DOMAIN spoken |->
        CASE type = "openai"  -> OpenAiSends(spoken[i])
          [] type = "copilot" -> CopilotSends(spoken[i])
          [] type = "custom"  -> CustomSends(spoken[i])
          [] type = "local"   -> LocalSends(spoken[i])
          [] type = "claude"  -> ClaudeSends(spoken[i])]

\* The toolCalls of the message that `complete` returns.
CallsOf(answer) ==
  LET kept[n \in 0 .. Len(answer)] ==
        IF n = 0 THEN <<>>
        ELSE IF answer[n] = "text" THEN kept[n - 1] ELSE Append(kept[n - 1], answer[n])
  IN kept[Len(answer)]

\* What is yielded for an event of the stream, if anything.  Of the tool calls
\* in one delta the first is kept.
OpenAiYields(event) ==
  IF event = "tools" THEN <<"tool">>
  ELSE IF event \in {"text", "tool", "finish"} THEN <<event>> ELSE <<>>

\* Here the arguments of a tool call are yielded as text.
ClaudeYields(event) ==
  IF event \in {"text", "tool"} THEN <<"text">>
  ELSE IF event = "finish" THEN <<"finish">> ELSE <<>>

Yields(type, event) == IF type = "claude" THEN ClaudeYields(event) ELSE OpenAiYields(event)

================================================================================
