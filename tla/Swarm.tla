------------------------------- MODULE Swarm -------------------------------
(***************************************************************************)
(* Swarm mode (src/gateway/swarm.py and its callers in                     *)
(* src/gateway/app.py): a complex request is cut into subtasks, by a       *)
(* planner model or by paragraphs, the subtasks run in layers of their     *)
(* dependencies, and a model puts the answers together.                    *)
(*                                                                         *)
(* The configuration is the snapshot of the request; the pool of clients   *)
(* is the live one, which a reload may rebuild at any await.  A text is    *)
(* the lengths of its paragraphs, an id is what the planner wrote,         *)
(* followed by the number that the code appends to it.                     *)
(***************************************************************************)
EXTENDS Reply

CONSTANTS
  SwarmPolicy,   \* the swarm section of the policy, see the assumption
  FirstEndpoint, \* configured tier -> first of its endpoints, None: no endpoint
  Price,         \* endpoint -> cost of an answered call
  Plans,         \* answers of the planner: sequences of items, None: no plan
  MaxRebuilds    \* bound: rebuilds of the pool

Endpoints == DOMAIN Price

ASSUME SwarmAssumption ==
  /\ Price \in [Endpoints -> Nat] /\ MaxRebuilds \in Nat
  /\ Range(FirstEndpoint) \subseteq Endpoints \union {None}
  /\ SwarmPolicy.mode \in STRING /\ SwarmPolicy.complexity \in Nat
  /\ SwarmPolicy.most \in Nat \union {None} /\ SwarmPolicy.estimate \in Nat \union {None}
  /\ SwarmPolicy.pyramid \in Seq(STRING) \ {<<>>} /\ SwarmPolicy.triggers \subseteq STRING
  /\ {SwarmPolicy.planner, SwarmPolicy.synthesis} \subseteq STRING
  /\ SwarmPolicy.llm \in BOOLEAN
  /\ {SwarmPolicy.chunk, SwarmPolicy.least, SwarmPolicy.greatest} \subseteq Nat
  /\ None \notin Endpoints /\ \A plan \in Plans : plan \in Seq(Range(plan))

VARIABLES
  tasks,      \* id -> [tier, deps]
  layers,     \* sets of ids that are left; the first one is running
  result,     \* id -> "waiting", "running", "ok", "empty", "failed"
  outputs,    \* ids whose output is known to later layers
  saw,        \* history: id -> ids whose output was in its prompt
  cost,       \* total_cost
  spent,      \* history: price of the answered calls of subtasks and synthesis
  pool,       \* endpoints that have a client
  rebuilds

swarmVars == <<tasks, layers, result, outputs, saw, cost, spent, pool, rebuilds>>

SwarmInit ==
  /\ tasks = <<>> /\ layers = <<>> /\ result = <<>> /\ outputs = {} /\ saw = <<>>
  /\ cost = 0 /\ spent = 0 /\ pool = Endpoints /\ rebuilds = 0

EndpointIn(tier) == IF tier \in DOMAIN FirstEndpoint THEN FirstEndpoint[tier] ELSE None

-----------------------------------------------------------------------------
(* Whether, and into what. *)

\* A mode that is none of the three asks for no condition.  Costs in percent.
ShouldSwarm(q) ==
  LET p == SwarmPolicy
      most     == IF p.most = None THEN q.cost * 80 ELSE p.most * 100
      estimate == IF p.estimate = None THEN q.cost * 75 ELSE p.estimate * 100
  IN  /\ p.mode # "off"
      /\ p.mode = "always" => q.complexity >= 4
      /\ p.mode = "auto" =>
           q.tier \in p.triggers /\ q.complexity >= p.complexity /\ q.flagged
      /\ estimate <= most
      /\ q.cost > 0 => estimate < q.cost * 100

\* The tiers of the pyramid and of the synthesis; the planner's is not asked.
Accessible(q) == Range(SwarmPolicy.pyramid) \union {SwarmPolicy.synthesis} \subseteq q.access

\* _split_into_chunks: lengths of the chunks; two characters join paragraphs.
Chunks(text) ==
  LET whole == FoldLeft(LAMBDA sum, n : sum + n, 2 * (Len(text) - 1), text)
      Add(acc, n) ==
        IF acc.open + n + 2 > SwarmPolicy.chunk
        THEN [closed |-> IF acc.open = 0 THEN acc.closed ELSE Append(acc.closed, acc.open),
              open |-> n]
        ELSE [acc EXCEPT !.open = IF @ = 0 THEN n ELSE @ + 2 + n]
      cut == FoldLeft(Add, [closed |-> <<>>, open |-> 0], text)
  IN  IF whole <= SwarmPolicy.chunk THEN <<whole>>
      ELSE IF cut.open = 0 THEN cut.closed ELSE Append(cut.closed, cut.open)

\* _chunk_decompose: tiers in turn, a heavy chunk goes to tier3 whether the
\* tenant may use it or not.  There is no chunk without a paragraph.
Chunked(text) ==
  LET pyramid == SwarmPolicy.pyramid
      chunks  == Chunks(text)
      TierOf(i) == IF chunks[i] > 4000 /\ "tier4" \notin Range(pyramid) THEN "tier3"
                   ELSE pyramid[((i - 1) % Len(pyramid)) + 1]
  IN  [i \in DOMAIN chunks \intersect (1 .. Len(text)) |-> [id |-> <<"sub", i - 1>>, tier |-> TierOf(i), deps |-> {}]]

\* The ids of a plan in their order: the first that is taken gets its number.
Ids(plan) ==
  LET Own(i) == IF plan[i].id = None THEN <<"sub", i - 1>> ELSE plan[i].id
      Add(ids, i) == Append(ids, IF Own(i) \in Range(ids) THEN Append(Own(i), i - 1) ELSE Own(i))
  IN  FoldLeft(Add, <<>>, [i \in DOMAIN plan |-> i])

\* The last subtask of an id stands for it.
ById(subtasks) ==
  [id \in {subtasks[i].id : i \in DOMAIN subtasks} |->
     LET last == Max({i \in DOMAIN subtasks : subtasks[i].id = id})
     IN  [tier |-> subtasks[last].tier, deps |-> subtasks[last].deps]]

HasCycle(graph) ==
  \E S \in (SUBSET DOMAIN graph) \ {{}} : \A x \in S : graph[x].deps \intersect S # {}

\* Mutant: the plan is not looked through for cycles.
PlannedUnchecked(plan) ==
  LET ids == Ids(plan) IN
  IF \E i \in DOMAIN plan : ~plan[i].prompt THEN None
  ELSE [i \in DOMAIN plan |->
          [id |-> ids[i], tier |-> plan[i].tier,
           deps |-> (plan[i].deps \intersect {ids[j] : j \in DOMAIN plan}) \ {ids[i]}]]

\* _llm_plan_subtasks on the planner's answer: None unless it can be used.
Planned(plan) ==
  LET pyramid == SwarmPolicy.pyramid
      ids == Ids(plan)
      TierOf(i) == IF plan[i].tier \in Range(pyramid) THEN plan[i].tier
                   ELSE pyramid[Min({i, Len(pyramid)})]
      subtasks == [i \in DOMAIN plan |->
                     [id |-> ids[i], tier |-> TierOf(i),
                      deps |-> (plan[i].deps \intersect {ids[j] : j \in DOMAIN plan}) \ {ids[i]}]]
  IN  IF \/ Len(plan) \notin SwarmPolicy.least .. SwarmPolicy.greatest
         \/ \E i \in DOMAIN plan : ~plan[i].prompt
         \/ HasCycle(ById(subtasks))
      THEN None ELSE subtasks

\* The first layer in which all that x depends on is done.
InLayer(graph, x, at) ==
  LET before == {at[d] : d \in graph[x].deps \intersect DOMAIN graph}
  IN  (\A n \in before : n < at[x]) /\ (at[x] = 1 \/ at[x] - 1 \in before)

\* _topological_layers: layer by layer, or all at once if that gets stuck.
Layers(graph) ==
  LET ids == DOMAIN graph
      Layerings == {at \in [ids -> 1 .. Cardinality(ids)] : \A x \in ids : InLayer(graph, x, at)}
      at == CHOOSE a \in Layerings : TRUE
  IN  IF Layerings = {} THEN <<ids>>
      ELSE [n \in 1 .. Max({0} \union Range(at)) |-> {x \in ids : at[x] = n}]

-----------------------------------------------------------------------------
(* The run. *)

\* The planner is asked if its endpoint can be; it may fail.
Asked == SwarmPolicy.llm /\ EndpointIn(SwarmPolicy.planner) \in pool

\* Its plan is used if it can be, and the paragraphs otherwise.
Decompose ==
  /\ path = "swarm" /\ stage = "planning"
  /\ \E plan \in IF Asked THEN Plans \union {None} ELSE {None} :
       LET usable   == plan # None /\ Planned(plan) \notin {None, <<>>}
           subtasks == IF usable THEN Planned(plan) ELSE Chunked(req.text)
       IN  /\ tasks' = ById(subtasks)
           /\ layers' = Layers(tasks')
  /\ result' = [x \in DOMAIN tasks' |-> "waiting"]
  /\ saw' = [x \in DOMAIN tasks' |-> {}]
  /\ Go("running")
  /\ UNCHANGED <<outputs, cost, spent, pool, rebuilds>>

Gone(x) == EndpointIn(tasks[x].tier) \notin pool \union {None}

\* Mutant: a subtask of a tier without endpoints is not looked at again.
StartedIfServed(x) ==
  IF EndpointIn(tasks[x].tier) = None THEN "waiting" ELSE IF Gone(x) THEN "failed" ELSE "running"

Started(x) == IF EndpointIn(tasks[x].tier) = None \/ Gone(x) THEN "failed" ELSE "running"

\* run_subtask up to its call, for the whole layer: nothing is awaited between
\* the first and the last.  A client that the pool no longer has raises out
\* of the gather, while the others are sent all the same; a tier without
\* endpoints only fails its subtask.
BeginLayer ==
  /\ path = "swarm" /\ stage = "running" /\ layers # <<>>
  /\ \A x \in Head(layers) : result[x] = "waiting"
  /\ result' = [x \in DOMAIN tasks |-> IF x \in Head(layers) THEN Started(x) ELSE result[x]]
  /\ saw' = [x \in DOMAIN tasks |->
               IF x \in Head(layers) THEN tasks[x].deps \intersect outputs ELSE saw[x]]
  /\ IF \E x \in Head(layers) : Gone(x) THEN End("raised") ELSE UNCHANGED reply
  /\ UNCHANGED <<tasks, layers, outputs, cost, spent, pool, rebuilds>>

\* The call ends, whether the request still waits for it or has been raised
\* out of: with an answer, an answer without content, or an error.
Finish(x) ==
  /\ path = "swarm" /\ x \in DOMAIN result /\ result[x] = "running"
  /\ \E end \in {"ok", "empty", "failed"} :
       /\ result' = [result EXCEPT ![x] = end]
       /\ spent' = IF end = "failed" THEN spent ELSE spent + Price[EndpointIn(tasks[x].tier)]
  /\ UNCHANGED <<reply, tasks, layers, outputs, saw, cost, pool, rebuilds>>

\* Mutant: an answer without content costs nothing.
CostOfContent(x) == IF result[x] = "ok" THEN Price[EndpointIn(tasks[x].tier)] ELSE 0

\* _subtask_cost
CostOf(x) == IF result[x] = "failed" THEN 0 ELSE Price[EndpointIn(tasks[x].tier)]

\* What a set of subtasks costs: the size of the set of the units of its bill.
Units(S) == UNION {{x} \X (1 .. CostOf(x)) : x \in S}

EndLayer ==
  /\ path = "swarm" /\ stage = "running" /\ layers # <<>>
  /\ \A x \in Head(layers) : result[x] \in {"ok", "empty", "failed"}
  /\ outputs' = outputs \union {x \in Head(layers) : result[x] = "ok"}
  /\ cost' = cost + Cardinality(Units(Head(layers)))
  /\ layers' = Tail(layers)
  /\ IF Tail(layers) # <<>> THEN UNCHANGED reply
     ELSE IF outputs' = {} THEN End("aborted") ELSE Go("synthesis")
  /\ UNCHANGED <<tasks, result, saw, spent, pool, rebuilds>>

\* _synthesize: without an endpoint, a client or an answer the outputs are
\* put one after the other.
Synthesize ==
  LET e == EndpointIn(SwarmPolicy.synthesis) IN
  /\ path = "swarm" /\ stage = "synthesis"
  /\ \E paid \in {0} \union (IF e \in pool THEN {Price[e]} ELSE {}) :
       cost' = cost + paid /\ spent' = spent + paid
  /\ End("ok")
  /\ UNCHANGED <<tasks, layers, result, outputs, saw, pool, rebuilds>>

Rebuild ==
  /\ rebuilds < MaxRebuilds /\ rebuilds' = rebuilds + 1
  /\ pool' \in SUBSET Endpoints
  /\ UNCHANGED <<reply, tasks, layers, result, outputs, saw, cost, spent>>

\* What the request is settled at, and for what it was raised out of: nothing.
SwarmCharge == IF outcome = "raised" THEN 0 ELSE cost

-----------------------------------------------------------------------------
SwarmTypeOK ==
  /\ \A i \in DOMAIN layers : layers[i] \subseteq DOMAIN tasks
  /\ DOMAIN result = DOMAIN tasks /\ DOMAIN saw = DOMAIN tasks
  /\ outputs \subseteq DOMAIN tasks /\ pool \subseteq Endpoints
  /\ cost \in Nat /\ spent \in Nat

\* "a subtask that depends on another sees its output before running"
\* (swarm.py): whatever ids and dependencies the planner makes up, a subtask
\* is only sent when all it depends on has ended, with every output of theirs
\* in its prompt, and what goes to the synthesis is what was answered.
InDependencyOrder ==
  /\ SwarmTypeOK
  /\ \A x \in DOMAIN tasks : result[x] # "waiting" =>
       \A d \in tasks[x].deps :
         /\ result[d] \in {"ok", "empty", "failed"}
         /\ result[d] = "ok" => d \in saw[x]
  /\ stage = "synthesis" => outputs = {x \in DOMAIN tasks : result[x] = "ok"}

\* A swarm that answers, or whose subtasks all failed, is settled at the price
\* of every call of it that was answered; the planner's is left out.
SwarmCharged ==
  path = "swarm" /\ stage = "ended" /\ outcome \in {"ok", "aborted"} => charged = spent
=============================================================================
