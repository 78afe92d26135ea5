---------------------------- MODULE Conversation ----------------------------
(***************************************************************************)
(* The translations of src/gateway/transcoder.py between the shapes of a   *)
(* conversation: a request of Anthropic's shape into the OpenAI shape the  *)
(* gateway works on, what the memory adds to it and drops from it          *)
(* (src/gateway/memory_observational.py), the shape of the upstream, and   *)
(* the answer all the way back.                                            *)
(*                                                                         *)
(* A message is a role and its parts: texts, images, calls of tools and    *)
(* results of calls, each with an id; a result also names its call.        *)
(* Texts that the code joins stay parts of their own, in their order.      *)
(* Templates and translations only add to the system's texts: left out.    *)
(***************************************************************************)
EXTENDS Reply

CONSTANTS
  Answers,   \* kind -> answers of its upstreams: [parts, reason, tokens]
  Keep       \* last_messages

ASSUME ConversationAssumption == Keep \in Nat \ {0}

VARIABLES
  sent,   \* what the upstream is sent, None before
  told    \* what the client is answered in one piece, None before

conversation == <<sent, told>>

ConversationInit == sent = None /\ told = None

Kinds == {"openai", "ollama", "anthropic", "gemini"}

Part(type, id, of) == [type |-> type, id |-> id, of |-> of]
Blank == Part("text", None, None)

Of(types, parts) == SelectSeq(parts, LAMBDA p : p.type \in types)
Each(Op(_), seq) == [i \in DOMAIN seq |-> Op(seq[i])]

-----------------------------------------------------------------------------
(* The request. *)

\* Mutant: a message with results of tools is taken to hold nothing else.
PivotedEither(turn) ==
  LET results == Of({"tool_result"}, turn.parts)
      rest    == Of({"text", "image"}, turn.parts)
  IN  IF turn.role = "assistant"
      THEN <<[role |-> "assistant",
              parts |-> Of({"text"}, turn.parts) \o Of({"tool_use"}, turn.parts)]>>
      ELSE IF results # <<>>
      THEN Each(LAMBDA r : [role |-> "tool", parts |-> <<r>>], results)
      ELSE IF rest = <<>> THEN <<>> ELSE <<[role |-> turn.role, parts |-> rest]>>

\* A message of Anthropic's: the texts of an assistant's before its calls; of
\* any other, every result as a message of its own before the rest.
Pivoted(turn) ==
  LET results == Of({"tool_result"}, turn.parts)
      rest    == Of({"text", "image"}, turn.parts)
  IN  IF turn.role = "assistant"
      THEN <<[role |-> "assistant",
              parts |-> Of({"text"}, turn.parts) \o Of({"tool_use"}, turn.parts)]>>
      ELSE Each(LAMBDA r : [role |-> "tool", parts |-> <<r>>], results)
           \o (IF rest = <<>> THEN <<>> ELSE <<[role |-> turn.role, parts |-> rest]>>)

\* decode_inbound_anthropic_request
DecodeInbound(q) ==
  (IF q.system = <<>> THEN <<>> ELSE <<[role |-> "system", parts |-> q.system]>>)
  \o FlattenSeq(Each(Pivoted, q.turns))

\* The messages the gateway works on.
Pivot(q) == IF q.wire = "anthropic" THEN DecodeInbound(q) ELSE q.turns

\* apply_compaction: once there are observations, the latest messages only.
Compacted(q) ==
  LET messages == Pivot(q)
      chat == SelectSeq(messages, LAMBDA m : m.role # "system")
  IN  IF ~q.memory.observed THEN messages
      ELSE SelectSeq(messages, LAMBDA m : m.role = "system")
           \o SubSeq(chat, Max({1, Len(chat) - Keep + 1}), Len(chat))

Note == Part("text", "notes", None)

\* assemble_messages: the notes go before the first text of the system, the
\* messages of the memory before the request's, but for those whose text is
\* found in what the users of the request say.
Assemble(q) ==
  LET kept  == Compacted(q)
      first == SelectInSeq(kept, LAMBDA m : m.role = "system")
      said  == UNION {{p.id : p \in ToSet(m.parts)} : m \in {x \in ToSet(kept) : x.role = "user"}}
      tail  == SelectSeq(q.memory.tail, LAMBDA m : m.parts[1].id \notin said)
  IN  IF ~q.memory.notes THEN tail \o kept
      ELSE IF first = 0 THEN <<[role |-> "system", parts |-> <<Note>>]>> \o tail \o kept
      ELSE tail \o [kept EXCEPT ![first].parts = <<Note>> \o @]

\* A message of a tool is a user's; calls without a text get a blank one.
AnthropicTurn(m) ==
  [role  |-> IF m.role = "tool" THEN "user" ELSE m.role,
   parts |-> IF Of({"tool_use"}, m.parts) # <<>> /\ Of({"text", "image"}, m.parts) = <<>>
             THEN <<Blank>> \o m.parts ELSE m.parts]

\* A result does not name its call: all are called "tool".
GeminiTurn(m) ==
  [role  |-> IF m.role = "assistant" THEN "model" ELSE "user",
   parts |-> IF m.role = "tool" THEN Each(LAMBDA p : [p EXCEPT !.of = None], m.parts)
             ELSE IF Of({"text", "image"}, m.parts) = <<>> THEN <<Blank>> \o m.parts
             ELSE m.parts]

IsSystem(m) == m.role \in {"system", "developer"}

\* The adapters' encode: two take the system's messages out, two pass all on.
Encode(kind, messages) ==
  LET system == FlattenSeq(Each(LAMBDA m : Of({"text"}, m.parts), SelectSeq(messages, IsSystem)))
      chat   == SelectSeq(messages, LAMBDA m : ~IsSystem(m))
  IN  CASE kind = "anthropic" -> [system |-> system, turns |-> Each(AnthropicTurn, chat)]
        [] kind = "gemini"    -> [system |-> system, turns |-> Each(GeminiTurn, chat)]
        [] OTHER              -> [system |-> <<>>, turns |-> messages]

-----------------------------------------------------------------------------
(* The answer. *)

\* _openai_finish_reason; a reason it does not know is passed on.
FinishReason(reason) ==
  CASE reason \in {None, "stop", "end_turn", "stop_sequence"} -> "stop"
    [] reason \in {"length", "max_tokens"} -> "length"
    [] reason \in {"tool_use", "tool_calls"} -> "tool_calls"
    [] reason \in {"content_filter", "safety", "recitation"} -> "content_filter"
    [] OTHER -> reason

\* _anthropic_stop_reason
StopReason(reason) ==
  CASE reason \in {"length", "max_tokens"} -> "max_tokens"
    [] reason \in {"tool_calls", "tool_use", "function_call"} -> "tool_use"
    [] OTHER -> "end_turn"

\* Calls decide Gemini's reason, which else is only put in lower case.
GeminiFinish(a) ==
  IF Of({"tool_use"}, a.parts) # <<>> THEN "tool_calls"
  ELSE IF a.reason = None THEN "stop" ELSE a.reason

\* The answer in the OpenAI shape: its text, then its calls.
Decoded(kind, a) ==
  [parts  |-> IF kind = "openai" THEN a.parts
              ELSE Of({"text"}, a.parts) \o Of({"tool_use"}, a.parts),
   reason |-> CASE kind = "openai" -> a.reason
                [] kind = "gemini" -> GeminiFinish(a)
                [] OTHER -> FinishReason(a.reason),
   tokens |-> a.tokens]

\* encode_outbound_anthropic_response
EncodeOutbound(a) == [a EXCEPT !.reason = StopReason(@)]

\* The upstream answers in one piece, or no endpoint of the ladder does.
Answer ==
  /\ path = "whole" /\ stage = "opening"
  /\ \/ /\ \E a \in Answers[req.kind] :
             LET d == Decoded(req.kind, a) IN
             told' = IF req.wire = "anthropic" THEN EncodeOutbound(d) ELSE d
        /\ End("ok")
     \/ End("refused") /\ UNCHANGED told
  /\ UNCHANGED sent

\* What it is settled at: no usage counts for none, not for the estimate.
WholeCharge == IF outcome # "ok" \/ told.tokens = None THEN 0 ELSE told.tokens

-----------------------------------------------------------------------------
\* What of a request is to reach its upstream: all but images in an answer.
Due(q) ==
  Each(LAMBDA t : [role |-> t.role,
                   parts |-> IF q.wire = "anthropic" /\ t.role = "assistant"
                             THEN Of({"text", "tool_use"}, t.parts) ELSE t.parts],
       SelectSeq(q.turns, LAMBDA t : ~IsSystem(t)))

\* Of whatever shape client and upstream are: every text, image, call and
\* result of the conversation is sent, in the order of its messages and under
\* a role of its side, a result with the call it answers unless the upstream
\* is Gemini's, the system's texts as such; and the memory adds its own but
\* repeats nothing of the conversation except texts of the assistant.  With
\* observations only the latest message must be there.
Requested ==
  sent # None =>
    LET due  == Due(req)
        got  == SelectSeq(sent.turns, LAMBDA t : ~IsSystem(t))
        Ids(turns) == (UNION {{p.id : p \in ToSet(turns[i].parts)} : i \in DOMAIN turns}) \ {None}
        Places(turns, id) == {i \in DOMAIN turns : \E p \in ToSet(turns[i].parts) : p.id = id}
        Side(role) == IF role \in {"assistant", "model"} THEN "assistant" ELSE "user"
        RoleOf(turns, id) == Side(turns[Max(Places(turns, id))].role)
        must == IF req.memory.observed THEN Ids(<<Last(due)>>) ELSE Ids(due)
    IN
    /\ must \subseteq Ids(got)
    /\ Ids(got) \subseteq Ids(due) \union Ids(req.memory.tail)
    /\ \A x \in Ids(due) \intersect Ids(got) :
         /\ Cardinality(Places(got, x)) > 1 => x \in Ids(req.memory.tail) /\ RoleOf(due, x) = "assistant"
         /\ RoleOf(got, x) = RoleOf(due, x)
         /\ \A y \in Ids(due) \intersect Ids(got) :
              Max(Places(due, x)) < Max(Places(due, y)) => Max(Places(got, x)) < Max(Places(got, y))
    /\ req.kind # "gemini" =>
         \A i \in DOMAIN due : \A p \in ToSet(due[i].parts) :
           p.id \in must => \E k \in DOMAIN got : p \in ToSet(got[k].parts)
    /\ {p.id : p \in ToSet(req.system)} \subseteq
         Ids(<<[parts |-> sent.system]>>) \union Ids(SelectSeq(sent.turns, IsSystem))

\* "Don't duplicate", "skip if user already included those messages"
\* (memory_observational.py): nothing is sent twice.  Refuted: the memory's
\* messages are only looked for in what users say, so answers are repeated.
SentOnce ==
  sent # None =>
    \A i, k \in DOMAIN sent.turns : i # k =>
      {p.id : p \in ToSet(sent.turns[i].parts)} \intersect {p.id : p \in ToSet(sent.turns[k].parts)}
        \subseteq {None}

\* A result is sent after the call it answers.  Refuted: with observations the
\* call may be among the messages that are left out.
CallsKept ==
  sent # None =>
    \A i \in DOMAIN sent.turns : \A p \in ToSet(Of({"tool_result"}, sent.turns[i].parts)) :
      p.of # None => \E k \in 1 .. i - 1 : \E c \in ToSet(Of({"tool_use"}, sent.turns[k].parts)) :
                       c.id = p.of

\* An answer reaches the client with every text in order and every call, and a
\* client of Anthropic's is told to go on with its tools exactly if there are
\* calls: Ollama's reason for them is "stop", so not from Ollama.
AnsweredWhole ==
  path = "whole" /\ outcome = "ok" =>
    /\ \E a \in Answers[req.kind] :
         \A type \in {"text", "tool_use"} : Of({type}, told.parts) = Of({type}, a.parts)
    /\ req.wire = "anthropic" /\ req.kind # "ollama" =>
         (told.reason = "tool_use" <=> Of({"tool_use"}, told.parts) # <<>>)

\* What is asked and what is answered gets through the translations.
Conveyed == Requested /\ AnsweredWhole
=============================================================================
