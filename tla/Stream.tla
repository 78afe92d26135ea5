------------------------------- MODULE Stream -------------------------------
(***************************************************************************)
(* A streamed answer: the bytes of the upstream, the decoders and the      *)
(* encoder of src/gateway/transcoder.py, and the handler that writes them  *)
(* to the client and keeps the books (src/gateway/app.py).                 *)
(*                                                                         *)
(* The upstream sends a sequence of events, one frame each, and every      *)
(* frame is two halves: a chunk ends anywhere, between frames or inside    *)
(* one.  Streams of kinds with a decoder are turned into frames of the     *)
(* OpenAI shape, one chunk each; the others are passed on as they come.    *)
(***************************************************************************)
EXTENDS Conversation

CONSTANTS
  EstimatedCharge,  \* what the request is settled at when no usage is found
  MaxChunk          \* bound: halves in a chunk

ASSUME StreamAssumption == EstimatedCharge \in Nat /\ MaxChunk \in Nat \ {0}

VARIABLES
  pos,      \* halves of frames received
  enc,      \* the encoder, see Encoder; for OpenAI clients only its out is used
  usage,    \* usage that was found in the stream, None: none
  noted,    \* texts kept for the memory
  cuts      \* history: frames that a chunk ended in

streamVars == <<pos, enc, usage, noted, cuts>>

EventTypes == {"start", "text", "tool", "finish", "usage", "other"}

Encoder == [out |-> <<>>, started |-> FALSE, open |-> FALSE, tools |-> {},
            finish |-> None, broken |-> FALSE]

StreamInit == pos = 0 /\ enc = Encoder /\ usage = None /\ noted = <<>> /\ cuts = {}

Events == req.events
Raw == req.kind = "openai"

-----------------------------------------------------------------------------
(* The decoders: what becomes of one event of the upstream. *)

Frame(text, tool, finish) == <<[text |-> text, tool |-> tool, finish |-> finish]>>
Empty == Frame(0, None, None)

\* A tool call of Ollama's has an object for its arguments, not a string.
OllamaFrame(i, e) ==
  CASE e.type = "text"   -> Frame(i, None, None)
    [] e.type = "tool"   -> Frame(0, "object", None)
    [] e.type = "finish" -> Frame(0, None, FinishReason(e.reason))
    [] OTHER             -> Empty

\* Pieces of tool calls, pings and block boundaries are dropped.
AnthropicFrame(i, e) ==
  CASE e.type = "start"  -> Empty
    [] e.type = "text"   -> Frame(i, None, None)
    [] e.type = "finish" -> Frame(0, None, FinishReason(e.reason))
    [] OTHER             -> <<>>

\* A call of a function has no text and leaves an empty frame.
GeminiFrame(i, e) ==
  CASE e.type = "text"   -> Frame(i, None, None)
    [] e.type = "tool"   -> Empty
    [] e.type = "finish" -> Frame(0, None, FinishReason(e.reason))
    [] OTHER             -> <<>>

OpenAIFrame(i, e) ==
  CASE e.type = "text"   -> Frame(i, None, None)
    [] e.type = "tool"   -> Frame(0, "string", None)
    [] e.type = "finish" -> Frame(0, None, e.reason)
    [] e.type = "other"  -> <<>>
    [] OTHER             -> Empty

FramesOf(i) ==
  CASE req.kind = "ollama"    -> OllamaFrame(i, Events[i])
    [] req.kind = "anthropic" -> AnthropicFrame(i, Events[i])
    [] req.kind = "gemini"    -> GeminiFrame(i, Events[i])
    [] OTHER                  -> OpenAIFrame(i, Events[i])

\* The usage that the upstream has sent: Anthropic's comes with the first event
\* and again near the end, Ollama's and Gemini's with the last.
Sent ==
  LET types == IF req.kind = "anthropic" THEN {"start", "finish"} ELSE {"finish"}
      with  == {i \in 1 .. pos \div 2 : Events[i].type \in types}
  IN  IF with = {} THEN None ELSE Events[Max(with)].tokens

\* What a decoder passes on of it, after its last event: only Anthropic's has a
\* frame for it, and none for 0.
Told == IF req.kind = "anthropic" /\ Sent # 0 THEN Sent ELSE None

-----------------------------------------------------------------------------
(* AnthropicOutboundStreamEncoder. *)

Said(event, text) == [event |-> event, text |-> text]

\* _handle_payload.  Pieces of a tool call are joined as strings: an object
\* raises, and what this chunk had put out is lost with it.
HandlePayload(e, f) ==
  LET start == IF e.started THEN <<>> ELSE <<Said("message_start", 0)>>
      block == IF e.open \/ f.text = 0 THEN <<>> ELSE <<Said("text_start", 0)>>
      text  == IF f.text = 0 THEN <<>> ELSE <<Said("text_delta", f.text)>>
  IN  IF e.broken THEN e
      ELSE IF f.tool = "object" THEN [e EXCEPT !.broken = TRUE]
      ELSE [e EXCEPT !.out = @ \o start \o block \o text, !.started = TRUE,
                     !.open = @ \/ f.text # 0,
                     !.tools = IF f.tool = None THEN @ ELSE @ \union {f.tool},
                     !.finish = IF f.finish = None THEN @ ELSE f.finish]

\* An OpenAI client is written the frames as they are.
PassOn(e, f) == IF f.text = 0 THEN e ELSE [e EXCEPT !.out = Append(@, Said("text_delta", f.text))]

Feed(e, frames) ==
  FoldLeft(LAMBDA x, f : IF req.wire = "anthropic" THEN HandlePayload(x, f) ELSE PassOn(x, f),
           e, frames)

\* _close: a stream that never began stays empty.
Finished(e) ==
  LET reason == IF e.finish = None /\ e.tools # {} THEN "tool_calls" ELSE e.finish
      tool   == <<Said("tool_start", 0), Said("tool_delta", 0), Said("block_stop", 0)>>
      last   == <<[event |-> "message_delta", text |-> 0, reason |-> StopReason(reason)],
                  Said("message_stop", 0)>>
  IN  IF req.wire # "anthropic" \/ ~e.started THEN e
      ELSE [e EXCEPT !.out = @ \o (IF e.open THEN <<Said("block_stop", 0)>> ELSE <<>>)
                               \o (IF e.tools # {} THEN tool ELSE <<>>) \o last]

-----------------------------------------------------------------------------
(* The handler. *)

\* Mutant: every chunk is taken to hold whole frames.
CompletedInChunk(from, to) == {i \in DOMAIN Events : from <= 2 * i - 2 /\ 2 * i <= to}

\* Frames that are whole now, in whatever chunks their halves came.
Completed(from, to) == {i \in DOMAIN Events : from < 2 * i /\ 2 * i <= to}

Frames(from, to) ==
  LET whole == SetToSortSeq(Completed(from, to), LAMBDA i, j : i < j)
  IN  FlattenSeq([k \in DOMAIN whole |-> FramesOf(whole[k])])

\* What a pattern may find in a chunk that is passed on, of an upstream that
\* writes JSON without spaces: events that are whole in it for certain, the
\* ones that are cut perhaps.  It takes the first.
Matches(type, from, to) ==
  LET here  == {i \in DOMAIN Events : Events[i].type = type /\ from < 2 * i /\ 2 * i - 2 < to}
      whole == {i \in here : from <= 2 * i - 2 /\ 2 * i <= to}
  IN  {IF S = {} THEN 0 ELSE Min(S) : S \in {whole \union more : more \in SUBSET (here \ whole)}}

\* _extract_usage: a chunk may end inside the number.
Extracted(from, to) ==
  LET Read(i) == IF i = 0 THEN {usage}
                 ELSE {Events[i].tokens} \union (IF to = 2 * i - 1 /\ Events[i].tokens > 9
                                                 THEN {Events[i].tokens \div 10} ELSE {})
  IN  UNION {Read(i) : i \in Matches("usage", from, to)}

\* The text kept of decoded chunks: they are spelled with a space after the
\* colon, which only the pattern for the first chunk allows.
FirstText(frames) ==
  IF stage = "opening" /\ frames # <<>> /\ frames[1].text # 0 THEN <<frames[1].text>> ELSE <<>>

\* Some bytes arrive: they are written, then looked through.  With the first
\* chunk the response begins.
Receive(n) ==
  LET to     == pos + n
      frames == Frames(pos, to)
      fed    == Feed(enc, frames)
  IN
  /\ path = "stream" /\ stage \in {"opening", "streaming"} /\ to <= 2 * Len(Events)
  /\ pos' = to /\ enc' = fed
  /\ cuts' = IF to % 2 = 1 THEN cuts \union {(to + 1) \div 2} ELSE cuts
  /\ \/ /\ Raw
        /\ usage' \in Extracted(pos, to)
        /\ \E t \in Matches("text", pos, to) : noted' = IF t = 0 THEN noted ELSE Append(noted, t)
     \/ /\ ~Raw /\ noted' = noted \o FirstText(frames) /\ UNCHANGED usage
  /\ IF fed.broken THEN End("failed")
     ELSE IF stage = "opening" /\ (Raw \/ frames # <<>>) THEN Go("streaming")
     ELSE UNCHANGED reply

Fails == End(IF stage = "opening" THEN "refused" ELSE "failed")

\* The upstream closes.  Half a frame at the end is left out by the encoder; a
\* decoder raises on it, unless it is cut before the data of a server-sent
\* event.  An answer that is passed on and has no chunk is an error.
Close ==
  /\ path = "stream" /\ stage \in {"opening", "streaming"}
  /\ \/ /\ (Raw /\ pos = 0) \/ (~Raw /\ pos % 2 = 1)
        /\ Fails /\ UNCHANGED <<enc, usage>>
     \/ /\ IF Raw THEN pos # 0 ELSE pos % 2 = 1 => req.kind # "ollama"
        /\ enc' = Finished(Feed(enc, IF Told # None THEN Empty ELSE <<>>))
        /\ usage' = IF Raw THEN usage ELSE Told
        /\ End("ok")
  /\ UNCHANGED <<pos, noted, cuts>>

\* An error status, a time-out, an unreadable frame, a client that has gone.
Break ==
  /\ path = "stream" /\ stage \in {"opening", "streaming"}
  /\ Fails /\ UNCHANGED streamVars

\* The first chunk is there and the client has gone: the response cannot be
\* prepared, which raises past the settlement and leaves the reservation booked.
Unprepared ==
  /\ path = "stream" /\ stage = "opening" /\ (Raw => pos < 2 * Len(Events))
  /\ stage' = "ended" /\ outcome' = "lost" /\ charged' = EstimatedCharge
  /\ UNCHANGED <<req, path, streamVars>>

StreamCharge ==
  IF outcome # "ok" THEN 0 ELSE IF usage = None THEN EstimatedCharge ELSE usage

-----------------------------------------------------------------------------
StreamTypeOK ==
  /\ pos \in Nat /\ noted \in Seq(Nat) /\ cuts \subseteq Nat
  /\ enc.started \in BOOLEAN /\ enc.open \in BOOLEAN /\ enc.broken \in BOOLEAN
  /\ path = "stream" => pos <= 2 * Len(Events) /\ usage \in Nat \union {None}

TextsOf(events) == SelectSeq([i \in 1 .. pos \div 2 |-> IF events[i].type = "text" THEN i ELSE 0],
                             LAMBDA i : i # 0)
Deltas == SelectSeq(enc.out, LAMBDA m : m.event = "text_delta")

\* What may follow what in an Anthropic stream.
Follows ==
  {<<"message_start", x>> : x \in {"text_start", "tool_start", "message_delta"}}
  \union {<<"text_start", "text_delta">>, <<"text_delta", "text_delta">>,
          <<"text_delta", "block_stop">>, <<"tool_start", "tool_delta">>,
          <<"tool_delta", "block_stop">>, <<"block_stop", "tool_start">>,
          <<"block_stop", "message_delta">>, <<"message_delta", "message_stop">>}

WellFormed(out) ==
  /\ out # <<>> => out[1].event = "message_start"
  /\ \A i \in 1 .. Len(out) - 1 : <<out[i].event, out[i + 1].event>> \in Follows

\* Wherever the chunks of the upstream end, its texts are written once each
\* and in order as soon as their frames are whole; an Anthropic client reads a
\* well-formed message, closed exactly if the stream ended well; and the
\* memory keeps only texts that were written, or the one the upstream ended in.
Delivered ==
  path = "stream" =>
    /\ StreamTypeOK
    /\ ~enc.broken => [i \in DOMAIN Deltas |-> Deltas[i].text] = TextsOf(req.events)
    /\ req.wire = "anthropic" =>
         /\ WellFormed(enc.out)
         /\ enc.out # <<>> => (Last(enc.out).event = "message_stop" <=> outcome = "ok")
    /\ outcome = "ok" => \A i \in ToSet(noted) : 2 * i - 1 = pos \/ \E k \in DOMAIN Deltas : Deltas[k].text = i

\* A stream that ended well is settled at the usage its upstream sent if that is
\* Anthropic and sent any but 0, or if it is passed on, the usage comes once and
\* no chunk ends inside it; of Ollama and Gemini, and where no usage came, at the
\* estimate.  One that failed costs nothing, but for the one whose response could
\* not be prepared: its reservation stays.
StreamCharged ==
  path = "stream" /\ stage = "ended" =>
    LET with == {i \in 1 .. (pos + 1) \div 2 : req.events[i].type = "usage"} IN
    /\ outcome \notin {"ok", "lost"} => charged = 0
    /\ outcome = "lost" => charged = EstimatedCharge
    /\ outcome = "ok" /\ req.kind = "anthropic" =>
         charged = IF Sent \in {0, None} THEN EstimatedCharge ELSE Sent
    /\ outcome = "ok" /\ req.kind \in {"ollama", "gemini"} => charged = EstimatedCharge
    /\ outcome = "ok" /\ Raw /\ with = {} => charged = EstimatedCharge
    /\ \A i \in with \ cuts : outcome = "ok" /\ Raw /\ with = {i} => charged = req.events[i].tokens

\* "Real token usage, if the upstream reports it in-band ... Stays None when not
\* present" (app.py): a decoded stream is settled at the usage its upstream sent.
\* Refuted: the decoders of Ollama's and Gemini's streams drop it.
SentIsSettled ==
  path = "stream" /\ stage = "ended" /\ outcome = "ok" /\ ~Raw /\ Sent \notin {0, None} =>
    charged = Sent

\* "Try to extract text from SSE chunks for memory recording" (app.py): the
\* memory keeps what was written.  Refuted: of decoded streams it keeps the
\* first text, of others the first text of every chunk.
RecordedWhole ==
  path = "stream" /\ outcome = "ok" => noted = TextsOf(req.events)
=============================================================================
