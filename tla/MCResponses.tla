---------------------------- MODULE MCResponses ----------------------------
(* Requests for a swarm, one of which its tenant may not have, streams of   *)
(* the four kinds for both clients, and conversations for all of them.      *)
EXTENDS Responses

MCPolicy ==
  [mode |-> "auto", triggers |-> {"tier4"}, complexity |-> 4, most |-> None,
   estimate |-> None, pyramid |-> <<"tier0", "tier1", "tier2">>, synthesis |-> "tier3",
   planner |-> "tier2", llm |-> TRUE, chunk |-> 6, least |-> 2, greatest |-> 4]

\* tier1 has no endpoint.
MCFirstEndpoint == [tier0 |-> "small", tier1 |-> None, tier2 |-> "medium", tier3 |-> "large"]
MCPrice == [small |-> 1, medium |-> 2, large |-> 4]

Item(id, tier, deps) == [id |-> id, prompt |-> TRUE, tier |-> tier, deps |-> deps]

\* A diamond, a cycle, ids that collide once they are numbered, ids that are
\* missing, a subtask without a prompt, a single subtask.
MCPlans ==
  {<<Item(<<"a">>, "tier0", {}), Item(<<"b">>, "tier2", {<<"a">>}),
     Item(<<"c">>, "tier1", {<<"a">>, <<"z">>}), Item(<<"d">>, "tier0", {<<"b">>, <<"c">>})>>,
   <<Item(<<"a">>, "tier0", {<<"b">>}), Item(<<"b">>, "tier2", {<<"a">>})>>,
   <<Item(<<"a">>, "tier0", {}), Item(<<"a", 2>>, "tier2", {<<"a">>}),
     Item(<<"a">>, "tier9", {<<"a">>})>>,
   <<Item(None, "tier0", {}), Item(None, "tier0", {<<"sub", 0>>, <<"sub", 1>>})>>,
   <<Item(<<"a">>, "tier0", {}), [Item(<<"b">>, "tier0", {}) EXCEPT !.prompt = FALSE]>>,
   <<Item(<<"a">>, "tier0", {})>>}

Text(id) == Part("text", id, None)
Says(role, id) == [role |-> role, parts |-> <<Text(id)>>]
NoMemory == [notes |-> FALSE, observed |-> FALSE, tail |-> <<>>]
Hello == [system |-> <<>>, turns |-> <<Says("user", "hello")>>, memory |-> NoMemory]

\* A conversation with two calls, as a client of either shape tells it.
Turns ==
  [anthropic |->
     <<Says("user", "ask"),
       [role |-> "assistant", parts |-> <<Text("try"), Part("tool_use", "c1", None),
                                          Part("tool_use", "c2", None)>>],
       [role |-> "user", parts |-> <<Text("go"), Part("tool_result", "r1", "c1"),
                                     Part("tool_result", "r2", "c2"), Part("image", "pic", None)>>],
       [role |-> "assistant", parts |-> <<Part("tool_use", "c3", None)>>],
       [role |-> "user", parts |-> <<Part("tool_result", "r3", "c3")>>]>>,
   openai |->
     <<Says("system", "rules"), Says("user", "ask"),
       [role |-> "assistant", parts |-> <<Text("try"), Part("tool_use", "c1", None)>>],
       [role |-> "tool", parts |-> <<Part("tool_result", "r1", "c1")>>],
       [role |-> "user", parts |-> <<Text("go"), Part("image", "pic", None)>>]>>]

\* The memory has an older message, and two of the conversation's.
Recent == <<Says("user", "old"), Says("user", "ask"), Says("assistant", "try")>>

Conversations(wire) ==
  {[system |-> <<Text("rules")>>, turns |-> Turns[wire],
    memory |-> [notes |-> notes, observed |-> observed, tail |-> IF notes THEN Recent ELSE <<>>]] :
     <<notes, observed>> \in {<<FALSE, FALSE>>, <<TRUE, FALSE>>, <<TRUE, TRUE>>}}
  \union (IF wire = "openai" THEN {}
          ELSE {[Hello EXCEPT !.turns = <<[role |-> "user", parts |-> <<Part("tool_result", "r0", "c0")>>]>>]})

\* Paragraphs that fit one chunk, that need one each, one that is heavy.
Swarming(text, access) ==
  [complexity |-> 5, cost |-> 8, flagged |-> TRUE, tier |-> "tier4", access |-> access,
   text |-> text, kind |-> "openai", wire |-> "openai", stream |-> FALSE, events |-> <<>>] @@ Hello

Plain(kind, wire, stream, events) ==
  [complexity |-> 2, cost |-> 8, flagged |-> FALSE, tier |-> "tier2", access |-> {"tier2"},
   text |-> <<1>>, kind |-> kind, wire |-> wire, stream |-> stream, events |-> events]

Event(type) == [type |-> type, reason |-> None, tokens |-> 0]
Ends(reason, tokens) == [type |-> "finish", reason |-> reason, tokens |-> tokens]
Usage(tokens) == [type |-> "usage", reason |-> None, tokens |-> tokens]
Begins(tokens) == [type |-> "start", reason |-> None, tokens |-> tokens]

EventsOf ==
  [openai |-> {<<Event("start"), Event("text"), Event("text"), Ends("stop", 0), Usage(12)>>,
               <<Event("start"), Event("tool"), Ends("tool_calls", 0)>>},
   ollama |-> {<<Event("text"), Event("text"), Ends("length", 6)>>,
               <<Event("text"), Event("tool"), Ends("stop", 0)>>},
   anthropic |-> {<<Begins(3), Event("other"), Event("text"), Event("text"), Ends("end_turn", 7)>>,
                  <<Begins(3), Event("tool"), Ends("tool_use", 0)>>, <<>>},
   gemini |-> {<<Event("text"), Event("tool"), Event("text"), Ends("safety", 6), Event("other")>>}]

Tiers == {"tier0", "tier1", "tier2", "tier3"}

Answered(parts, reason, tokens) == [parts |-> parts, reason |-> reason, tokens |-> tokens]

MCAnswers ==
  LET call == Part("tool_use", "c4", None) IN
  [openai    |-> {Answered(<<Text("yes")>>, "stop", 5), Answered(<<call>>, "tool_calls", 5)},
   ollama    |-> {Answered(<<Text("yes")>>, "length", 5), Answered(<<call>>, "stop", None)},
   anthropic |-> {Answered(<<Text("yes"), call, Text("so")>>, "tool_use", 5),
                  Answered(<<>>, "max_tokens", 5)},
   gemini    |-> {Answered(<<Text("yes"), call>>, "stop", 5), Answered(<<Text("yes")>>, "max_tokens", 5)}]

MCInputs ==
  {Swarming(<<3, 1>>, Tiers), Swarming(<<3, 4, 4001>>, Tiers), Swarming(<<3, 1>>, Tiers \ {"tier3"})}
  \union UNION {{Plain(kind, wire, TRUE, events) @@ Hello : events \in EventsOf[kind]}
                \union {Plain(kind, wire, FALSE, <<>>) @@ c : c \in Conversations(wire)} :
                <<kind, wire>> \in Kinds \X {"openai", "anthropic"}}
=============================================================================
