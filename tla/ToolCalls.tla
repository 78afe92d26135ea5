----------------------------- MODULE ToolCalls -----------------------------
(***************************************************************************)
(* tools/call of the MCP facade (src/gateway/mcp_facade.py) over the       *)
(* registries and the cache: what is cached, else the definition of a      *)
(* federated tool, else the answer of an agent (src/gateway/               *)
(* a2a_registry.py), which is awaited while rows are edited, merged and    *)
(* deleted and the cache is emptied or replaced.                           *)
(***************************************************************************)
EXTENDS Federation, ToolCache

CONSTANTS
  Callers,
  ItemsOf,    \* tool -> the federated tool and the agent that its name may mean
  CallTime,   \* ticks in which an agent answers or the call times out
  MaxStops    \* bound: invalidations, reloads and restarts

ASSUME ToolCallsAssumption ==
  /\ CallTime \in Nat /\ MaxStops \in Nat
  /\ \A k \in Keys : k.tenant \in Tenants /\ ItemsOf[k.tool] \in [tool : Items, agent : Items]

VARIABLES
  cache,        \* entries, or None when there is no cache
  generation,   \* which cache this is: a new one for every init_cache
  calls,        \* caller -> None, or the call of an agent it awaits
  stops,
  since         \* tool -> tenant -> value -> ticks since a call read it last

toolVars == <<cache, generation, calls>>
toolsVars == <<federation, toolVars, stops, since>>

-----------------------------------------------------------------------------
(* What a call reads, and for how long it has not been that. *)

\* What a federated tool or an agent of this content answers.
Values == [from : {"tool", "agent"}, content : Contents \union {None}]

\* A federated tool comes before an agent and is not run: its definition is
\* the answer, enabled or not.  An agent is asked when it is enabled.
Resolved(tool, t) ==
  LET tools  == RowFor(ItemsOf[tool].tool, t)
      agents == RowFor(ItemsOf[tool].agent, t)
  IN  CASE tools # None -> {[from |-> "tool", content |-> tools.content]}
        [] tools = None /\ agents # None /\ agents.enabled ->
             {[from |-> "agent", content |-> agents.content]}
        [] OTHER -> {}

Tools == {k.tool : k \in Keys}
Longest == CallTime + Max({1, MaxTtl}) + 1

\* The values that are cached or awaited.
Held(n, t) ==
  {e.value : e \in {x \in IF cache = None THEN {} ELSE cache : x.key.tool = n /\ x.key.tenant = t}}
  \union {calls[c].value : c \in {x \in Callers : calls[x] # None /\ calls[x].key.tool = n
                                                   /\ calls[x].key.tenant = t}}

\* Ghost.  A value that a call would read has age 0; one that is held grows
\* old, up to Longest.
Watch(ticks) ==
  since' = [n \in Tools |-> [t \in Tenants |->
              LET read == Resolved(n, t)'
                  held == Held(n, t)'
              IN  [v \in Values |-> IF v \in read THEN 0
                                    ELSE IF v \in held THEN Min({Longest, since[n][t][v] + ticks})
                                    ELSE Longest]]]

Idle == [c \in Callers |-> None]

ToolsInit ==
  /\ FederationInit
  /\ cache \in {None, {}} /\ generation = 0
  /\ calls = Idle /\ stops = 0
  /\ since = [n \in Tools |-> [t \in Tenants |-> [v \in Values |->
                IF v \in Resolved(n, t) THEN 0 ELSE Longest]]]

-----------------------------------------------------------------------------
(* Calls. *)

Cached(key) == IF cache = None THEN {} ELSE Found(cache, key)
AfterGet(key) == IF cache = None THEN None ELSE Used(cache, key)

\* What is cached is the answer, whatever the registries say.
Hit(c, key) ==
  /\ calls[c] = None /\ Cached(key) # {}
  /\ cache' = AfterGet(key)
  /\ UNCHANGED <<generation, calls>>

\* The definition is the answer, and is cached.
Define(c, key) ==
  /\ calls[c] = None /\ Cached(key) = {}
  /\ \E v \in Resolved(key.tool, key.tenant) :
       /\ v.from = "tool"
       /\ cache' = IF cache = None THEN None ELSE Stored(AfterGet(key), key, v)
  /\ UNCHANGED <<generation, calls>>

\* The agent's row is read and the agent asked.
Ask(c, key) ==
  /\ calls[c] = None /\ Cached(key) = {}
  /\ \E v \in Resolved(key.tool, key.tenant) :
       /\ v.from = "agent"
       /\ calls' = [calls EXCEPT ![c] =
                      [key |-> key, value |-> v, waited |-> 0,
                       generation |-> IF cache = None THEN None ELSE generation]]
  /\ cache' = AfterGet(key)
  /\ UNCHANGED generation

\* No such tool, or an agent that is disabled.
Reject(c, key) ==
  /\ calls[c] = None /\ Cached(key) = {} /\ Resolved(key.tool, key.tenant) = {}
  /\ cache' = AfterGet(key)
  /\ UNCHANGED <<generation, calls>>

\* The agent answers: its answer is stored in the cache the call began with.
Succeed(c) ==
  LET call == calls[c] IN
  /\ call # None /\ call.value.content # None
  /\ cache' = IF cache # None /\ call.generation = generation
              THEN Stored(cache, call.key, call.value) ELSE cache
  /\ calls' = [calls EXCEPT ![c] = None]
  /\ UNCHANGED generation

\* A refused rate, a URL that is blocked, an error or the time-out: not stored.
CallFails(c) ==
  /\ calls[c] # None /\ calls' = [calls EXCEPT ![c] = None]
  /\ UNCHANGED <<cache, generation>>

-----------------------------------------------------------------------------
(* Time, administrators, reloads and restarts. *)

\* A call that has lasted its time ends before the next tick.
Tick ==
  /\ \A c \in Callers : calls[c] # None => calls[c].waited < CallTime
  /\ calls' = [c \in Callers |-> IF calls[c] = None THEN None
                                 ELSE [calls[c] EXCEPT !.waited = @ + 1]]
  /\ cache' = IF cache = None THEN None
              ELSE {Entry(e.key, e.value, Max({0, e.left - 1}), e.idle) : e \in cache}
  /\ UNCHANGED <<federation, generation, stops>>

Stopped == stops < MaxStops /\ stops' = stops + 1 /\ UNCHANGED edits

Invalidate ==
  /\ Stopped /\ cache # None
  /\ cache' \in {{}} \union {Invalidated(cache, tool) : tool \in Tools}
  /\ UNCHANGED <<registry, offers, syncs, changes, generation, calls>>

\* A reload: a configuration with the cache enabled gives a new one.  One with
\* the cache disabled leaves the one there is, which the facade goes on using.
Reload ==
  /\ Stopped
  /\ \/ cache' = {} /\ generation' = generation + 1
     \/ UNCHANGED <<cache, generation>>
  /\ UNCHANGED <<registry, offers, syncs, changes, calls>>

\* The calls, the synchronisations and the cache are lost.
Restart ==
  /\ Stopped
  /\ cache' \in {None, {}} /\ generation' = 0
  /\ calls' = Idle
  /\ syncs' = [s \in Syncers |-> None]
  /\ UNCHANGED <<registry, offers, changes>>

Serve(c) ==
  \/ \E key \in Keys : Hit(c, key) \/ Define(c, key) \/ Ask(c, key) \/ Reject(c, key)
  \/ Succeed(c) \/ CallFails(c)

ToolsNext ==
  \/ /\ \/ FederationNext /\ UNCHANGED <<toolVars, stops>>
        \/ \E c \in Callers : Serve(c) /\ UNCHANGED <<federation, stops>>
        \/ Invalidate \/ Reload \/ Restart
     /\ Watch(0)
  \/ Tick /\ Watch(1)

\* The loop synchronises for ever (auto_sync), and ContextForge answers at
\* times when it is asked again and again.
ToolsFairness ==
  /\ WF_federation(SyncLoop)
  /\ \A i \in DOMAIN Order : SF_federation(Respond("loop", Order[i]))
  /\ WF_federation(MergeAnswer("loop"))

ToolsSpec == ToolsInit /\ [][ToolsNext]_toolsVars /\ ToolsFairness

-----------------------------------------------------------------------------
\* What a tenant can be given is what a call of that tenant would have read no
\* longer ago than a call and the entry's life take: a row that is changed,
\* disabled, deleted or taken precedence over by the tenant's own, or by a
\* tool of the name, stops answering by then, however often its answers are
\* used and whatever calls were awaited while rows, cache and process changed.
Fresh ==
  /\ \A key \in Keys : \A v \in Cached(key) :
       since[key.tool][key.tenant][v] <= CallTime + Lifetime(key)
  /\ \A c \in Callers : calls[c] # None =>
       since[calls[c].key.tool][calls[c].key.tenant][calls[c].value] <= CallTime
=============================================================================
