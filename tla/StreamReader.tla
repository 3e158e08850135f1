------------------------------ MODULE StreamReader ------------------------------
(***************************************************************************)
(* How a connector reads the stream of a provider: the read loop that the  *)
(* connectors of src/connectors share (custom.ts, openai.ts, copilot.ts,   *)
(* local.ts and, but for what a line says, claude.ts).  The network cuts   *)
(* the body where it likes; the connector cuts it into lines.              *)
(*                                                                         *)
(* A body is a sequence of symbols, a line is what ends with "NL".  A line *)
(* that is `data: ` and an event is worth what the connector yields for    *)
(* it, the stream ends with `data: [DONE]`, and anything else is noise.    *)
(***************************************************************************)
EXTENDS Integers, Sequences, Dialects

CONSTANTS
  Bodies      \* what a provider may send

ASSUME StreamAssumption == \A b \in Bodies : b \in Seq({b[n] : n \in DOMAIN b})

VARIABLES
  dialect,  \* the type of the provider
  body,     \* all that the provider sends
  read,     \* how much of it has been read
  buffer,   \* the line that has begun
  out,      \* the chunks yielded
  reader    \* "reading", "done"

streamVars == <<dialect, body, read, buffer, out, reader>>

IsDone(line) == line = <<"data", "DONE">>

Worth(line) == IF Len(line) = 2 /\ line[1] = "data" THEN Yields(dialect, line[2]) ELSE <<>>

\* One more symbol.  After [DONE] the generator has returned.
Take(acc, x) ==
  IF acc.closed THEN acc
  ELSE IF x # "NL" THEN [acc EXCEPT !.line = Append(@, x)]
  ELSE [line   |-> <<>>,
        yields |-> acc.yields \o Worth(acc.line),
        closed |-> IsDone(acc.line)]

\* Mutant: the line that a chunk cuts in two begins again with the next one.
LinesOfChunk(begun, chunk) ==
  LET acc[n \in 0 .. Len(chunk)] ==
        IF n = 0 THEN [line |-> <<>>, yields |-> <<>>, closed |-> FALSE]
        ELSE Take(acc[n - 1], chunk[n])
  IN acc[Len(chunk)]

\* The lines of a chunk, the first of which has begun already.
Lines(begun, chunk) ==
  LET acc[n \in 0 .. Len(chunk)] ==
        IF n = 0 THEN [line |-> begun, yields |-> <<>>, closed |-> FALSE]
        ELSE Take(acc[n - 1], chunk[n])
  IN acc[Len(chunk)]

\* reader.read: the buffer and the chunk together are cut into lines, and
\* `lines.pop()` keeps the last.
ReadChunk(n) ==
  /\ reader = "reading" /\ read + n <= Len(body)
  /\ LET acc == Lines(buffer, SubSeq(body, read + 1, read + n))
     IN /\ buffer' = acc.line
        /\ out' = out \o acc.yields
        /\ reader' = IF acc.closed THEN "done" ELSE "reading"
  /\ read' = read + n
  /\ UNCHANGED <<dialect, body>>

\* The body ends: a line without its newline is not looked at.
BodyEnds ==
  /\ reader = "reading" /\ read = Len(body)
  /\ reader' = "done"
  /\ UNCHANGED <<dialect, body, read, buffer, out>>

StreamInit ==
  /\ dialect \in Types /\ body \in Bodies
  /\ read = 0 /\ buffer = <<>> /\ out = <<>> /\ reader = "reading"

StreamStep == BodyEnds \/ \E n \in 1 .. Len(body) : ReadChunk(n)

StreamSpec == StreamInit /\ [][StreamStep]_streamVars

================================================================================
