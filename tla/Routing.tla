------------------------------ MODULE Routing ------------------------------
(***************************************************************************)
(* One chat request from its breaker snapshot to the last endpoint that is *)
(* tried for it (chat_completions and _forward_with_fallback in            *)
(* src/gateway/app.py), over the choices of Policy.  A step is the code    *)
(* between two awaits; at each of them an administrator may change the     *)
(* tiers or the plan of the tenant, and breakers move.                     *)
(***************************************************************************)
EXTENDS Policy

CONSTANTS
  Inputs,       \* requests that arrive: a subset of Requests
  Accesses,     \* values of the tenant's tier_access
  Plans,        \* values of the plan's allowed_models; None: no plan
  Budgets,      \* endpoint -> tokens left today, None where there is no limit
  Outages,      \* sets of endpoints whose breaker is OPEN at the snapshot
  Loads,        \* endpoint -> calls in flight
  Lasts,        \* values of inherit_tier
  Target,       \* the tenant's target_success_probability, in percent
  BudgetAwareOn, \* routing.budget_aware.enabled
  MaxEdits      \* bound: edits of the tenant while the request runs

ASSUME RoutingAssumption ==
  /\ Inputs \subseteq Requests /\ \A q \in Inputs : q.memory <= q.in
  /\ Target \in 0 .. 100 /\ MaxEdits \in Nat
  /\ Accesses \subseteq SUBSET (Tiers \union {OverflowTier})
  /\ Plans \subseteq (SUBSET Endpoints) \union {None}
  /\ Budgets \subseteq [Endpoints -> Nat \union {None}]
  /\ Loads \subseteq [Endpoints -> Nat] /\ Lasts \subseteq Tiers \union {None}
  /\ Outages \subseteq SUBSET Endpoints /\ BudgetAwareOn \in BOOLEAN

VARIABLES
  stage,        \* "idle", "asking", "decided", "checked", "sending", "answered"
  req,          \* the request, <<>> before it arrives
  open,         \* breaker_states: the endpoints that were OPEN
  last,         \* inherit_tier
  quota,        \* plan_quota as read, None before
  decision,
  todo,         \* numbers of the ladder's candidates left to try
  sent,         \* history: candidates a call was made to
  access,       \* tier_access of the tenant now
  plan,         \* allowed_models of its plan now
  granted,      \* history: tiers the tenant had at some time since the arrival
  entitled,     \* history: endpoints its plan allowed at some time since then
  edits

routing == <<stage, req, open, last, quota, decision, todo, sent,
          access, plan, granted, entitled, edits>>

EntitledBy(p) == {e \in Endpoints : p = None \/ Allowed(p, e)}

RoutingInit ==
  /\ stage = "idle" /\ req = <<>> /\ open = {} /\ last = None /\ quota = None
  /\ decision = NoRoute /\ todo = {} /\ sent = {}
  /\ access \in Accesses /\ plan \in Plans
  /\ granted = access /\ entitled = EntitledBy(plan)
  /\ edits = 0

-----------------------------------------------------------------------------
\* What becomes of the first decision before it is logged, in one run of the
\* code: the tenant's access, inheritance, capacity, a dedicated tier for
\* translation.  A request that is refused has stage "answered".
Redirect(q, d, inherited, snapshot) ==
  \E mine \in {Downgraded(d, access, snapshot)} :
  \E tier \in {IF PreRoute(q) = None THEN Inherited(mine, inherited, access, snapshot) ELSE mine} :
  \E rooms \in {IF mine = NoRoute THEN {} ELSE Roomy(tier, q, access, snapshot)} :
    \/ /\ rooms = {}
       /\ stage' = "answered" /\ decision' = NoRoute
    \/ \E room \in rooms :
         /\ stage' = "decided"
         /\ decision' = IF q.dedicated \in Tiers
                        THEN Decision(q.dedicated, FirstOf(q.dedicated, snapshot),
                                      room.by \union {"translation"})
                        ELSE room

\* The snapshot; a named model or a matching rule decides at once.
Arrive(q) ==
  /\ stage = "idle"
  /\ req' = q
  /\ \E o \in Outages, t \in Lasts :
       LET direct == Direct(q, o, access) IN
       /\ q.image => t = None
       /\ open' = o /\ last' = t
       /\ \/ /\ q.model # None /\ direct = NoRoute
             /\ stage' = "answered" /\ decision' = NoRoute
          \/ /\ q.model # None /\ direct # NoRoute
             /\ Redirect(q, direct, t, o)
          \/ /\ q.model = None /\ PreRoute(q) # None
             /\ Redirect(q, Decision(PreRoute(q), FirstOf(PreRoute(q), o), {"pre"}), t, o)
          \/ /\ q.model = None /\ PreRoute(q) = None
             /\ stage' = "asking" /\ UNCHANGED decision
  /\ granted' = access /\ entitled' = EntitledBy(plan)
  /\ UNCHANGED <<quota, todo, sent, access, plan, edits>>

\* The plan is read, a price decides, and memory may redirect.  No route and
\* an unmet target end the request.
Price ==
  /\ stage = "asking"
  /\ quota' = IF BudgetAwareOn THEN plan ELSE None
  /\ \E left \in Budgets, load \in Loads :
       LET limited == plan # None \/ \E e \in Endpoints : left[e] # None
           models  == IF plan = None THEN {} ELSE plan
       IN  \E d \in {IF BudgetAwareOn /\ limited
                    THEN BudgetAware(req, open, models, left, Target)
                    ELSE CostFirst(req, open, load)} :
           \/ /\ d.tier = None
              /\ stage' = "answered" /\ decision' = d
           \/ /\ d.tier # None
              /\ Redirect(req, Compacted(d, req, open), last, open)
  /\ UNCHANGED <<req, open, last, todo, sent, access, plan, granted, entitled, edits>>

Valid(d) == d.tier \in Tiers /\ d.endpoint \in Endpoints

\* The decision is logged; the route exists; the plan allows its endpoint.  A
\* plan read once is not read again.
Check ==
  /\ stage = "decided"
  /\ quota' = IF quota = None THEN plan ELSE quota
  /\ stage' = IF Valid(decision) /\ (quota' = None \/ Allowed(quota', decision.endpoint))
              THEN "checked" ELSE "answered"
  /\ UNCHANGED <<req, open, last, decision, todo, sent,
                 access, plan, granted, entitled, edits>>

\* The candidates of the ladder are numbered: the endpoint decided on (0),
\* those of its tier, by their position, and the fallback in the first tier
\* that lists it.
Home == FirstIn(TierOrder, {t \in Tiers : Fallback \in Range(EndpointsOf(t))})
FallbackRung(d) == Len(EndpointsOf(d.tier)) + 1
Rung(d, n) == CASE n = 0 -> [tier |-> d.tier, endpoint |-> d.endpoint]
                [] n = FallbackRung(d) -> [tier |-> Home, endpoint |-> Fallback]
                [] OTHER -> [tier |-> d.tier, endpoint |-> EndpointsOf(d.tier)[n]]

\* The reservation and, once it holds, the ladder.  The others of the tier
\* are those that are not OPEN, and the fallback is not tried twice.
Reserve ==
  LET tier == {0} \union {n \in DOMAIN EndpointsOf(decision.tier) :
                            EndpointsOf(decision.tier)[n] \notin open \union {decision.endpoint}}
  IN
  /\ stage = "checked"
  /\ \/ stage' = "answered" /\ UNCHANGED todo
     \/ /\ stage' = "sending"
        /\ todo' = tier \union
             (IF Home = None \/ \E n \in tier : Rung(decision, n).endpoint = Fallback
              THEN {} ELSE {FallbackRung(decision)})
  /\ UNCHANGED <<req, open, last, quota, decision, sent,
                 access, plan, granted, entitled, edits>>

\* The next candidate: its breaker refuses it, its call fails, or it answers.
Try ==
  LET n == Min(todo) IN
  /\ stage = "sending"
  /\ \/ sent' = sent \union {Rung(decision, n)} /\ stage' = "answered" /\ todo' = {}
     \/ /\ sent' \in {sent, sent \union {Rung(decision, n)}}
        /\ todo' = todo \ {n}
        /\ stage' = IF todo' = {} THEN "answered" ELSE "sending"
  /\ UNCHANGED <<req, open, last, quota, decision, access, plan, granted, entitled, edits>>

\* The tenant's tiers, or its plan, are edited.
Edit ==
  /\ stage \notin {"idle", "answered"} /\ edits < MaxEdits
  /\ edits' = edits + 1
  /\ access' \in Accesses /\ plan' \in Plans
  /\ granted' = granted \union access'
  /\ entitled' = entitled \union EntitledBy(plan')
  /\ UNCHANGED <<stage, req, open, last, quota, decision, todo, sent>>

RoutingNext == (\E q \in Inputs : Arrive(q)) \/ Price \/ Check \/ Reserve \/ Try \/ Edit

RoutingSpec == RoutingInit /\ [][RoutingNext]_routing

-----------------------------------------------------------------------------
RoutingTypeOK ==
  /\ stage \in {"idle", "asking", "decided", "checked", "sending", "answered"}
  /\ stage # "idle" => req \in Inputs
  /\ open \subseteq Endpoints /\ last \in Tiers \union {None}
  /\ quota \in (SUBSET Endpoints) \union {None} /\ plan \in Plans /\ access \in Accesses
  /\ decision.tier \in Tiers \union {None} /\ decision.endpoint \in Endpoints \union {None}
  /\ stage \in {"checked", "sending"} => Valid(decision)
  /\ \A c \in sent \union {Rung(decision, n) : n \in todo} : c.tier \in Tiers /\ c.endpoint \in Endpoints
  /\ granted \subseteq Tiers \union {OverflowTier} /\ entitled \subseteq Endpoints

\* Where a call may go.  It is the last resort, the fallback in its home; or
\* it is in the tier decided on, which the tenant had at some time since the
\* request arrived unless it is the request's dedicated tier, and its endpoint
\* is the one decided on, which the plan allowed at some time since then, or
\* another of that tier that was not OPEN.  The tenant's rights thus bound the
\* first call of an ordinary request: its plan does not bound the other
\* endpoints (PlanHonoured), and neither bounds the fallback.
SentWithinRights ==
  \A c \in sent :
    \/ c = [tier |-> Home, endpoint |-> Fallback]
    \/ /\ c.tier = decision.tier /\ c.tier \in granted \union {req.dedicated}
       /\ IF c.endpoint = decision.endpoint THEN c.endpoint \in entitled
          ELSE c.endpoint \in Range(EndpointsOf(c.tier)) \ open

\* Downgraded to a tier of the tenant, redirected for its memory, inherited or
\* moved for want of room: the endpoint decided on holds the request and the
\* output it asked for within the window of model and tier less the reserve.
\* It is not promised of the redirect that comes after the measuring, to the
\* dedicated tier of a translation.
WithinWindow ==
  /\ RoutingTypeOK
  /\ stage \in {"decided", "checked", "sending"} /\ decision.tier # req.dedicated
       => \A n \in {Tier[decision.tier].context, Endpoint[decision.endpoint].context} :
            (req.in + req.out) * 100 <= n * Most(0, 100 - ReservePct)

\* A decision by price alone costs at most five percent more than any endpoint
\* that is in service, fits, and lies in a tier fit for the request, although
\* the tie-breaks may pass over the cheapest.
NearCheapest ==
  decision.by = {"arith"} =>
    \A t \in Tiers : Considered(req, t) =>
      \A i \in Offered(req, t, open) :
        CostOf(decision) * 100 <= PriceAt(t, i) * 105

\* "single choke point every routing path passes through right before
\* dispatch" (app.py): no call is made to an endpoint outside the plan.
PlanHonoured == \A c \in sent : c.endpoint \in entitled
=============================================================================
