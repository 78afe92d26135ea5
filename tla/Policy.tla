------------------------------- MODULE Policy -------------------------------
(***************************************************************************)
(* The routing policy of src/gateway/policy.py and the choices that        *)
(* chat_completions makes around it (src/gateway/app.py): which tier and   *)
(* endpoint a request is given, as operators of the request, the           *)
(* configuration and a snapshot of the breakers.                           *)
(*                                                                         *)
(* Numbers that the configuration and the router's scores combine are      *)
(* given by their outcome: the price of an endpoint for a request of one   *)
(* vertical, the tiers whose fit reaches the threshold for it, whether the *)
(* router was in doubt.  Regular expressions and prototypes are the set of *)
(* signals that match.  Token counts stay numbers.                         *)
(***************************************************************************)
EXTENDS Integers, FiniteSets, SequencesExt

CONSTANTS
  Endpoints,
  TierOrder,    \* names of the configured tiers, in their order
  Tier,         \* tier -> [override, vision, context, bump, endpoints]
  Endpoint,     \* endpoint -> [context, success]; success in percent
  ExpectedCost, \* tier -> endpoint -> cost of a request, given the tier's fit
  Capable,      \* vertical -> tiers whose fit reaches the threshold
  SignalOrder,  \* <<signal, target tier>> in the order pre_route asks
  OverflowTier, \* the tier4 of the code, whether configured or not
  SafeTier,     \* routing.escalation.ood_flag_to_tier
  Fallback,     \* routing.cost_first.fallback_endpoint
  ReservePct,   \* ladder.context_reserve_pct
  PreferLowerLoad, \* efficiency_tiebreak.prefer_lower_load
  None          \* no tier, no endpoint, no limit

Tiers == Range(TierOrder)

ASSUME PolicyAssumption ==
  /\ TierOrder \in Seq(Tiers) /\ IsInjective(TierOrder) /\ TierOrder # <<>>
  /\ None \notin Tiers \union Endpoints
  /\ \A t \in Tiers :
       /\ Tier[t].override \in BOOLEAN /\ Tier[t].vision \in BOOLEAN
       /\ Tier[t].context \in Nat /\ Tier[t].bump \in Nat
       /\ Tier[t].endpoints \in Seq(Endpoints)
  /\ \A e \in Endpoints :
       /\ Endpoint[e].context \in Nat /\ Endpoint[e].success \in 0 .. 100
  /\ ExpectedCost \in [Tiers -> [Endpoints -> Nat]]
  /\ ReservePct \in Nat /\ PreferLowerLoad \in BOOLEAN

\* tokens in: of the messages and the memory; memory: of the memory alone;
\* dedicated: the tier for a request found to be a translation, if any.
Requests ==
  [model : Endpoints \union {None}, image : BOOLEAN, signals : SUBSET STRING,
   vertical : DOMAIN Capable, doubt : BOOLEAN, in : Nat, out : Nat, memory : Nat,
   dedicated : Tiers \union {None}]

\* by: what had a hand in the decision (the parts of its source).
Decision(t, e, by) == [tier |-> t, endpoint |-> e, by |-> by]
NoRoute == Decision(None, None, {})

EndpointsOf(t) == IF t \in Tiers THEN Tier[t].endpoints ELSE <<>>
Ordinary(t) == ~Tier[t].override

\* The first entry of a list, from one position on, that is in a set: what a
\* loop that stops at a match finds.
FirstFrom(s, n, S) ==
  LET at == {i \in DOMAIN s : n <= i /\ s[i] \in S}
  IN  IF at = {} THEN None ELSE s[Min(at)]
FirstIn(s, S) == FirstFrom(s, 1, S)

\* _first_endpoint_for_tier: one that is not OPEN, else the first, else "".
FirstOf(t, open) ==
  LET closed == FirstIn(EndpointsOf(t), Endpoints \ open)
  IN  IF closed # None THEN closed ELSE FirstIn(EndpointsOf(t), Endpoints)

\* Python's // on non-negative numbers, and int() of a percentage.
Usable(n) == IF ReservePct > 100 THEN 0 ELSE (n * (100 - ReservePct)) \div 100
Least(m, n) == IF m < n THEN m ELSE n
Most(m, n) == IF m > n THEN m ELSE n
Needed(q, t) == q.in + Most(q.out, Tier[t].bump)
Window(t, e) == Usable(Least(Tier[t].context, Endpoint[e].context))

-----------------------------------------------------------------------------
(* Deterministic routes. *)

\* _direct_model_route: the first accessible tier that lists the endpoint.
Direct(q, open, access) ==
  LET home == FirstIn(TierOrder, {t \in Tiers \intersect access : q.model \in Range(EndpointsOf(t))})
  IN  IF q.model = None \/ q.model \in open \/ home = None THEN NoRoute
      ELSE Decision(home, q.model, {"direct"})

\* pre_route: memory that no ordinary tier could hold, then images, then the
\* first signal that matches.  The tier is taken as it is named.
PreRoute(q) ==
  LET vision  == FirstIn(TierOrder, {t \in Tiers : Tier[t].vision})
      matched == FirstIn(SignalOrder, {s \in Range(SignalOrder) : s[1] \in q.signals})
  IN  IF \A t \in Tiers : Ordinary(t) => (q.memory * 4) \div 3 > Tier[t].context
      THEN OverflowTier
      ELSE IF q.image /\ vision # None THEN vision
      ELSE IF matched # None THEN matched[2]
      ELSE None

-----------------------------------------------------------------------------
(* Cost first. *)

\* The endpoints of a tier that a request may be given by price: their
\* positions in the tier's list.
Offered(q, t, open) ==
  {i \in DOMAIN EndpointsOf(t) :
     LET e == EndpointsOf(t)[i] IN e \notin open /\ Needed(q, t) <= Window(t, e)}

Considered(q, t) ==
  /\ Ordinary(t) /\ (Tier[t].vision => q.image)
  /\ Needed(q, t) <= Usable(Tier[t].context)
  /\ t \in Capable[q.vertical]

CostOf(d) == ExpectedCost[d.tier][d.endpoint]
PriceAt(t, i) == ExpectedCost[t][EndpointsOf(t)[i]]

\* The cheapest endpoint a tier offers, the first of equals.
Cheapest(q, t, open) ==
  LET offered == Offered(q, t, open)
      least   == Min({PriceAt(t, i) : i \in offered})
  IN  Decision(t, EndpointsOf(t)[Min({i \in offered : PriceAt(t, i) = least})], {"arith"})

\* One candidate per tier that is considered and offers an endpoint.
Candidates(q, open) ==
  {Cheapest(q, t, open) : t \in {u \in Tiers : Considered(q, u) /\ Offered(q, u, open) # {}}}

Place(t) == CHOOSE i \in DOMAIN TierOrder : TierOrder[i] = t

\* Mutant: the candidates are left in the order of the tiers.
ForemostUnsorted(c) == CHOOSE d \in c : \A x \in c : Place(d.tier) <= Place(x.tier)

\* The first of some candidates once they are sorted, cheapest first; sort()
\* is stable, so that equals stay in the order of their tiers.
Foremost(c) ==
  LET least == Min({CostOf(d) : d \in c})
      place == Min({Place(d.tier) : d \in {x \in c : CostOf(x) = least}})
  IN  CHOOSE d \in c : CostOf(d) = least /\ Place(d.tier) = place
Others(c) == c \ {Foremost(c)}

\* _escalate_to_safe_tier.  With every endpoint of the safe tier OPEN the
\* fallback is named in the safe tier, whether it is one of its own or not.
Escalated(open) ==
  LET safe   == IF SafeTier \in Tiers THEN SafeTier
                ELSE FirstIn(TierOrder, {t \in Tiers : Ordinary(t)})
      closed == FirstIn(EndpointsOf(safe), Endpoints \ open)
  IN  IF safe = None THEN NoRoute
      ELSE IF closed # None THEN Decision(safe, closed, {"escalation"})
      ELSE IF Fallback \in Endpoints THEN Decision(safe, Fallback, {"fallback"})
      ELSE NoRoute

\* Less than five percent dearer, the default of cost_margin_abstain_pct.
Near(a, b) == CostOf(b) = CostOf(a) \/ (CostOf(b) - CostOf(a)) * 100 < 5 * CostOf(a)

\* The tie-break by load over the candidates at most five percent dearer.
LessLoaded(c, load) ==
  LET first  == Foremost(c)
      rivals == {d \in Others(c) : /\ CostOf(d) * 100 <= CostOf(first) * 105
                                   /\ load[d.endpoint] < load[first.endpoint]}
  IN  IF /\ PreferLowerLoad /\ Others(c) # {} /\ Near(first, Foremost(Others(c)))
         /\ rivals # {}
      THEN Foremost(rivals) ELSE first

\* cost_first_route.  A small but real difference in price abstains to the
\* second candidate, whatever the tie-break chose.
CostFirst(q, open, load) ==
  LET c == Candidates(q, open)
      second == Foremost(Others(c))
  IN  IF c = {} \/ q.doubt THEN Escalated(open)
      ELSE IF /\ Others(c) # {} /\ CostOf(Foremost(c)) < CostOf(second)
              /\ Near(Foremost(c), second)
      THEN second
      ELSE LessLoaded(c, load)

-----------------------------------------------------------------------------
(* Budget aware. *)

\* plan_allowed_endpoint: an empty or missing list allows every endpoint.
Allowed(plan, e) == plan = {} \/ e \in plan

\* 100^n times the chance that the first n of a chain all fail.
Failing(chain) ==
  LET f[n \in 0 .. Len(chain)] ==
        IF n = 0 THEN 1 ELSE f[n - 1] * (100 - Endpoint[chain[n]].success)
  IN  f

Meets(chain, n, target) == (100 ^ n - Failing(chain)[n]) * 100 >= target * 100 ^ n

\* budget_aware_route: the cheapest of each tier, those of them that the plan
\* and the remaining tokens of the day allow, the shortest chain of them in
\* order of price that reaches the target; its head is the decision.
BudgetAware(q, open, plan, remaining, target) ==
  LET c        == Candidates(q, open)
      eligible == {d \in c : /\ Allowed(plan, d.endpoint)
                             /\ \/ remaining[d.endpoint] = None
                                \/ q.in + q.out <= remaining[d.endpoint]}
      ranking  == SetToSortSeq(eligible, LAMBDA d, x :
                    \/ CostOf(d) < CostOf(x)
                    \/ CostOf(d) = CostOf(x) /\ Place(d.tier) < Place(x.tier))
      chain    == [n \in DOMAIN ranking |-> ranking[n].endpoint]
  IN  IF c = {} THEN Escalated(open)
      ELSE IF eligible # {} /\ \E n \in DOMAIN chain : Meets(chain, n, target)
      THEN [Foremost(eligible) EXCEPT !.by = {"budget"}]
      ELSE Decision(None, None, {"quality_target_unmet"})

-----------------------------------------------------------------------------
(* What chat_completions does to a decision. *)

\* should_redirect_for_compaction: the next tier in order that holds the
\* memory, of whatever kind, or the overflow tier.
Compacted(d, q, open) ==
  LET holding == {t \in Tiers : Tier[t].context >= (q.memory * 4) \div 3}
      higher == FirstFrom(TierOrder, Place(d.tier) + 1, holding)
      target == IF higher # None THEN higher
                ELSE IF OverflowTier \in Tiers THEN OverflowTier ELSE None
  IN  IF \/ d.tier \notin Tiers \/ target = None
         \/ q.memory <= (Tier[d.tier].context * 75) \div 100
      THEN d ELSE Decision(target, FirstOf(target, open), {"compaction"})

\* Mutant: the first tier of the configuration, accessible or not.
DowngradedToFirst(d, access, open) ==
  IF d.tier \in access THEN d
  ELSE Decision(TierOrder[1], FirstOf(TierOrder[1], open), d.by \union {"access"})

\* The tenant's access: its first tier in the configuration's order.
Downgraded(d, access, open) ==
  LET mine == FirstIn(TierOrder, access)
  IN  IF d.tier \in access THEN d
      ELSE IF mine = None THEN NoRoute
      ELSE Decision(mine, FirstOf(mine, open), d.by \union {"access"})

Inherited(d, last, access, open) ==
  IF last \in Tiers \intersect access /\ "compaction" \notin d.by
  THEN Decision(last, FirstOf(last, open), d.by \union {"inherited"}) ELSE d

Fits(d, q) ==
  /\ d.tier \in Tiers /\ d.endpoint \in Endpoints
  /\ Needed(q, d.tier) <= Window(d.tier, d.endpoint)

\* Mutant: a tier that memory was redirected to is taken to be large enough.
RoomyUnlessCompacted(d, q, access, open) ==
  IF "compaction" \in d.by \/ Fits(d, q) THEN {d} ELSE {}

\* _ensure_context_capacity: the decision if it fits, else the candidates of
\* the smallest sufficient window; the code takes the first by name.
Roomy(d, q, access, open) ==
  LET from == IF d.tier \in Tiers THEN Tier[d.tier].context ELSE 0
      room == {c \in {Decision(t, e, d.by \union {"context"}) : t \in Tiers, e \in Endpoints} :
                 /\ Ordinary(c.tier) /\ Tier[c.tier].context >= from /\ c.tier \in access
                 /\ c.endpoint \in Range(EndpointsOf(c.tier)) \ open
                 /\ Fits(c, q)}
  IN  IF Fits(d, q) THEN {d}
      ELSE {c \in room : \A b \in room :
              Window(c.tier, c.endpoint) <= Window(b.tier, b.endpoint)}
=============================================================================
