------------------------------ MODULE Dispatch ------------------------------
(***************************************************************************)
(* Dispatch of chat requests to upstream endpoints: the breaker snapshot   *)
(* and the choice of an endpoint in chat_completions, the fallback ladder  *)
(* (_forward_with_fallback) and the streaming path in src/gateway/app.py,  *)
(* and the endpoint clients and pool in src/gateway/endpoints.py, over the *)
(* breakers of BreakerRules.                                               *)
(*                                                                         *)
(* Everything runs on one event loop: a step is the code between two       *)
(* awaits.  Requests are the slots of the server's concurrency: a slot     *)
(* that has answered takes the next request.                               *)
(***************************************************************************)
EXTENDS BreakerRules, FiniteSets, SequencesExt

CONSTANTS
  Endpoints,
  Requests,     \* request slots
  Tier,         \* the endpoints of the routed tier, in configured order
  Fallback,     \* routing.cost_first.fallback_endpoint, or NoEndpoint
  NoEndpoint,
  Limit,        \* endpoint -> concurrency (positive: config._validate)
  Config,       \* the breaker configuration of every endpoint
  Blocked,      \* endpoints whose URL the outbound firewall blocks
  Streams,      \* the values body["stream"] takes
  MaxGen        \* bound: rebuilds of an endpoint's client

ASSUME TierAssumption ==
  /\ Tier \in Seq(Endpoints) /\ Tier # <<>> /\ IsInjective(Tier)
  /\ Fallback \in Endpoints \union {NoEndpoint} /\ NoEndpoint \notin Endpoints
ASSUME SlotsAssumption == IsFiniteSet(Requests)
ASSUME LimitAssumption ==
  /\ Limit \in [Endpoints -> Nat \ {0}]
  /\ Config \in BreakerConfigs /\ Blocked \subseteq Endpoints
  /\ Streams \subseteq BOOLEAN /\ MaxGen \in Nat

VARIABLES
  breaker,      \* endpoint -> CircuitBreaker._state
  gen,          \* endpoint -> generation of its client in the pool
  free,         \* client -> value of its semaphore
  queue,        \* client -> requests waiting on its semaphore, first first
  pc,           \* request -> "idle", "routed", "waiting" or "sending"
  streaming,    \* request -> body["stream"]
  todo,         \* request -> positions of the candidates left to try
  client,       \* request -> client it waits on or sends with
  cut,          \* requests sending on a connection a rebuild has closed
  silent        \* history: endpoint -> a call ended without a verdict since
                \* it last half-opened

vars == <<breaker, gen, free, queue, pc, streaming, todo, client, cut, silent>>

\* A client is an endpoint and a generation: EndpointPool.rebuild makes a new
\* one, with a semaphore of its own, when the endpoint's configuration changed.
Clients == Endpoints \X (0 .. MaxGen)
NoClient == <<>>

Init ==
  /\ breaker = [e \in Endpoints |-> ClosedBreaker]
  /\ gen = [e \in Endpoints |-> 0]
  /\ free = [k \in Clients |-> Limit[k[1]]]
  /\ queue = [k \in Clients |-> <<>>]
  /\ pc = [r \in Requests |-> "idle"]
  /\ streaming = [r \in Requests |-> FALSE]
  /\ todo = [r \in Requests |-> {}]
  /\ client = [r \in Requests |-> NoClient]
  /\ cut = {}
  /\ silent = [e \in Endpoints |-> FALSE]

-----------------------------------------------------------------------------
(* Choosing candidates, from the breaker states read once per request.     *)
(* Candidates are tried by position: the tier in its order, the fallback   *)
(* after it.                                                               *)

Positions == 1 .. Len(Tier) + 1

Candidate(i) == IF i \in DOMAIN Tier THEN Tier[i] ELSE Fallback

Skipped(e) == breaker[e].state = "OPEN"

Usable == {i \in DOMAIN Tier : ~Skipped(Tier[i])}

\* _first_endpoint_for_tier: the first endpoint not OPEN, or the first.
FirstEndpoint == IF Usable = {} THEN 1 ELSE Min(Usable)

\* The chosen endpoint, the rest of its tier that is not OPEN, the fallback.
Ladder ==
  LET sofar == {FirstEndpoint} \union Usable
  IN  IF Fallback \in Endpoints \ {Tier[i] : i \in sofar}
        THEN sofar \union {Len(Tier) + 1} ELSE sofar

\* The snapshot is taken here; memory, budgets and the database are awaited
\* before the request is dispatched with it.
Arrive(r) ==
  /\ pc[r] = "idle"
  /\ pc' = [pc EXCEPT ![r] = "routed"]
  /\ \E s \in Streams :
       /\ streaming' = [streaming EXCEPT ![r] = s]
       /\ todo' = [todo EXCEPT ![r] = IF s THEN {FirstEndpoint} ELSE Ladder]
  /\ UNCHANGED <<breaker, gen, free, queue, client, cut, silent>>

-----------------------------------------------------------------------------
(* Asking the breaker.  The ladder calls allow() and then client.send(),   *)
(* which checks the firewall and calls allow() again; a stream goes        *)
(* straight to client.send().                                              *)

Admitted(e, b, stream) ==
  /\ e \notin Blocked
  /\ Allows(b, Config)
  /\ stream \/ Allows(AfterAllow(b, Config), Config)

Asked(e, b, stream) ==
  IF stream
    THEN IF e \in Blocked THEN b ELSE AfterAllow(b, Config)
    ELSE IF Allows(b, Config) /\ e \notin Blocked
           THEN AfterAllow(AfterAllow(b, Config), Config)
           ELSE AfterAllow(b, Config)

\* allow() said yes and nothing was sent.
Wasted(e, b, stream) ==
  Asked(e, b, stream) # b /\ Allows(b, Config) /\ ~Admitted(e, b, stream)

\* pool.get(e): the client of the current generation.
ClientOf(e) == <<e, gen[e]>>

(***************************************************************************)
(* One run of the ladder up to its next await: r tries cands in order      *)
(* until one admits it, then takes a permit or joins the queue; with none  *)
(* left it answers.  b and f are the breakers and permits it starts from,  *)
(* quiet the endpoints whose call has just ended without a verdict.        *)
(***************************************************************************)
Walk(r, cands, b, f, quiet) ==
  LET s     == streaming[r]
      yes   == {i \in cands : Admitted(Candidate(i), b[Candidate(i)], s)}
      n     == Min(yes)
      tried == {Candidate(i) : i \in {j \in cands : \A y \in yes : j <= y}}
      lost  == quiet \union {e \in tried : Wasted(e, b[e], s)}
      k     == ClientOf(Candidate(n))
      enter == f[k] > 0 /\ queue[k] = <<>>
  IN
  /\ breaker' = [e \in Endpoints |-> IF e \in tried THEN Asked(e, b[e], s) ELSE b[e]]
  /\ silent' = [e \in Endpoints |->
                  breaker'[e].state = "HALF_OPEN" /\ (silent[e] \/ e \in lost)]
  /\ IF yes = {}
       THEN /\ pc' = [pc EXCEPT ![r] = "idle"]
            /\ streaming' = [streaming EXCEPT ![r] = FALSE]
            /\ todo' = [todo EXCEPT ![r] = {}]
            /\ client' = [client EXCEPT ![r] = NoClient]
            /\ free' = f /\ queue' = queue
       ELSE /\ pc' = [pc EXCEPT ![r] = IF enter THEN "sending" ELSE "waiting"]
            /\ todo' = [todo EXCEPT ![r] = {i \in cands : i > n}]
            /\ client' = [client EXCEPT ![r] = k]
            /\ free' = IF enter THEN [f EXCEPT ![k] = @ - 1] ELSE f
            /\ queue' = IF enter THEN queue ELSE [queue EXCEPT ![k] = Append(@, r)]
            /\ UNCHANGED streaming
  /\ cut' = cut \ {r}
  /\ UNCHANGED gen

Forward(r) ==
  /\ pc[r] = "routed"
  /\ Walk(r, todo[r], breaker, free, {})

-----------------------------------------------------------------------------
(* The semaphore and the upstream's answer *)

\* Mutant: only waiters of the pool's current client are woken.
ResumeCurrent(k) == k[2] = gen[k[1]] /\ free[k] > 0 /\ queue[k] # <<>>

\* A permit was released and somebody waits: asyncio wakes the first waiter.
CanResume(k) == free[k] > 0 /\ queue[k] # <<>>

\* The first waiter of a client gets its permit and sends, whatever the
\* breaker has become since it was admitted.
Resume(k) ==
  /\ CanResume(k)
  /\ free' = [free EXCEPT ![k] = @ - 1]
  /\ queue' = [queue EXCEPT ![k] = Tail(@)]
  /\ pc' = [pc EXCEPT ![Head(queue[k])] = "sending"]
  /\ UNCHANGED <<breaker, gen, streaming, todo, client, cut, silent>>

\* "ok"; "failed": a retryable status, a timeout or any other exception;
\* "rejected": a 4xx status that is not retryable; "abandoned": the reader of
\* a stream went away and its generator is closed.
Outcomes == {"ok", "failed", "rejected", "abandoned"}

\* The failure count is kept up to the threshold: no rule tells larger counts apart.
Saturated(b) ==
  [b EXCEPT !.failures = IF @ > Config.threshold THEN Config.threshold ELSE @]

\* Mutant: a failure counts only against a closed breaker.
VerdictWhileClosed(b, outcome) ==
  CASE outcome = "ok"                              -> ClosedBreaker
    [] outcome = "failed" /\ b.state = "CLOSED" -> Saturated(AfterFailure(b, Config))
    [] OTHER                                       -> b

Verdict(b, outcome) ==
  CASE outcome = "ok"     -> ClosedBreaker
    [] outcome = "failed" -> Saturated(AfterFailure(b, Config))
    [] OTHER              -> b

\* Mutant: the permit of a stream whose reader left is not given back.
ReleasedUnlessAbandoned(k, outcome) ==
  IF outcome = "abandoned" THEN free ELSE [free EXCEPT ![k] = @ + 1]

\* `async with self.semaphore`: released however the call ends.
Released(k, outcome) == [free EXCEPT ![k] = @ + 1]

\* The call of r ends.  Only a failure that is not a stream's tries the rest
\* of the ladder; every other end answers the request.
Finish(r, outcome) ==
  LET k == client[r]
      rest == IF outcome = "failed" /\ ~streaming[r] THEN todo[r] ELSE {}
  IN
  /\ pc[r] = "sending"
  /\ outcome = "abandoned" => streaming[r]
  /\ r \in cut => outcome = "failed"
  /\ Walk(r, rest, [breaker EXCEPT ![k[1]] = Verdict(@, outcome)],
          Released(k, outcome),
          IF outcome \in {"rejected", "abandoned"} THEN {k[1]} ELSE {})

-----------------------------------------------------------------------------
\* The configuration of e changed: the pool gets a new client.  The session of
\* the old one is closed, which cuts its calls in flight; its waiters stay and
\* will open a session again.
Rebuild(e) ==
  /\ gen[e] < MaxGen
  /\ gen' = [gen EXCEPT ![e] = @ + 1]
  /\ cut' = cut \union {r \in Requests : pc[r] = "sending" /\ client[r] = ClientOf(e)}
  /\ UNCHANGED <<breaker, free, queue, pc, streaming, todo, client, silent>>

Tick ==
  /\ breaker' = [e \in Endpoints |-> Aged(breaker[e])]
  /\ breaker' # breaker
  /\ UNCHANGED <<gen, free, queue, pc, streaming, todo, client, cut, silent>>

Next ==
  \/ \E r \in Requests : Arrive(r)
  \/ \E r \in Requests : Forward(r)
  \/ \E k \in Clients : Resume(k)
  \/ \E r \in Requests, outcome \in Outcomes : Finish(r, outcome)
  \/ \E e \in Endpoints : Rebuild(e)
  \/ Tick

Spec == Init /\ [][Next]_vars

(***************************************************************************)
(* The event loop runs every ready task, every call ends (aiohttp's total  *)
(* timeout), and clients keep sending requests.  Which way a call ends is  *)
(* up to the upstream.                                                     *)
(***************************************************************************)
Fairness ==
  /\ WF_vars(Tick)
  /\ \A r \in Requests :
       /\ WF_vars(Arrive(r))
       /\ WF_vars(Forward(r))
       /\ WF_vars(\E outcome \in Outcomes : Finish(r, outcome))
  /\ \A k \in Clients : WF_vars(Resume(k))

FairSpec == Spec /\ Fairness

-----------------------------------------------------------------------------
TypeOK ==
  /\ breaker \in [Endpoints -> Breakers]
  /\ gen \in [Endpoints -> 0 .. MaxGen]
  /\ free \in [Clients -> Nat] /\ \A k \in Clients : free[k] <= Limit[k[1]]
  /\ queue \in [Clients -> Seq(Requests)]
  /\ pc \in [Requests -> {"idle", "routed", "waiting", "sending"}]
  /\ streaming \in [Requests -> BOOLEAN]
  /\ todo \in [Requests -> SUBSET Positions]
  /\ client \in [Requests -> Clients \union {NoClient}]
  /\ cut \subseteq Requests
  /\ silent \in [Endpoints -> BOOLEAN]

Sending(k) == {r \in Requests : pc[r] = "sending" /\ client[r] = k}

\* No permit is lost or made up, whichever way calls end and clients are
\* replaced, and a request waits in exactly the queue of the client it joined.
PermitsConserved ==
  /\ TypeOK
  /\ \A k \in Clients : free[k] + Cardinality(Sending(k)) = Limit[k[1]]
  /\ \A r \in Requests, k \in Clients :
       (r \in ToSet(queue[k])) <=> (pc[r] = "waiting" /\ client[r] = k)

\* A half-open endpoint that gives out no probe is waiting for the verdict of
\* a call, unless a call to it has ended without one since it half-opened.
ProbesReport ==
  \A e \in Endpoints :
    (breaker[e].state = "HALF_OPEN" /\ breaker[e].probes <= 0 /\ ~silent[e])
      => \E r \in Requests : pc[r] \in {"waiting", "sending"} /\ client[r][1] = e

\* Every request is answered: no permit, queue, rebuild or breaker holds it
\* for ever, as long as upstream calls end.
Answered == \A r \in Requests : pc[r] # "idle" ~> pc[r] = "idle"

\* "No probes left; treat as OPEN until duration elapses" (circuit.py): a
\* half-open breaker without probes does not stay so.  Refuted with one probe:
\* the ladder's allow() takes it and the client's is refused.
HalfOpenEnds ==
  \A e \in Endpoints :
    (breaker[e].state = "HALF_OPEN" /\ breaker[e].probes <= 0)
      ~> ~(breaker[e].state = "HALF_OPEN" /\ breaker[e].probes <= 0)

\* "Auto-transition to HALF_OPEN once the open duration has elapsed"
\* (circuit.py): an endpoint that is OPEN is probed in the end.  Refuted for a
\* tier of two: the filter keeps an OPEN endpoint from being asked.
OpenEnds ==
  \A e \in Endpoints : breaker[e].state = "OPEN" ~> breaker[e].state # "OPEN"
=============================================================================
