------------------------------ MODULE Tenants ------------------------------
(***************************************************************************)
(* One tenant's limits (src/gateway/tenant.py): the state that is built    *)
(* from the configuration, the tenant's users row and its plan, the edits  *)
(* of administrators that refresh it, the reconfiguration that drops it,   *)
(* and the requests of the chat handler (src/gateway/app.py) that wait for *)
(* the semaphore of the state they found.                                  *)
(*                                                                         *)
(* A state's generation outlives the state: requests that hold or await    *)
(* its semaphore keep it.  The manager's lock is held while a state is     *)
(* built, in a worker thread or on the event loop; the rows change from    *)
(* other threads meanwhile.  concurrent_limit stands for the limits of the *)
(* row, daily_usd_limit for those of the plan.                             *)
(***************************************************************************)
EXTENDS Integers, Sequences, FiniteSets

CONSTANTS
  Requests,
  Limits,       \* values of concurrent_limit
  Quotas,       \* values of a plan's daily_usd_limit, 0 for none
  ColumnLimit,  \* the default of the column in the users table
  None,
  MaxEdits      \* bound: edits by administrators

\* A generation for the cached state and one for every request to hold.
Gens == 1 .. Cardinality(Requests) + 1

ASSUME TenantsAssumption ==
  /\ IsFiniteSet(Requests) /\ Limits \subseteq Nat /\ Quotas \subseteq Nat
  /\ ColumnLimit \in Nat /\ MaxEdits \in Nat /\ None \notin Nat

VARIABLES
  settings,     \* TenantManager._default and _preconfigured
  row,          \* concurrent_limit of the users row, or None
  bound,        \* the tenant has a tenant_plans row
  plan,         \* daily_usd_limit of the plan it names
  building,     \* the limit a build has read, while it holds the lock
  cached,       \* generation of the state in TenantManager._states, or None
  made,         \* generation -> [limit, quota] of its state
  free,         \* generation -> permits of its semaphore
  queue,        \* generation -> requests that wait for a permit
  held,         \* request -> generation whose permit it has, or None
  edits,        \* edits of administrators so far
  unrefreshed,  \* edits written and not yet refreshed
  redefined     \* history: the plan was defined anew since the state was built

tenantVars == <<settings, row, bound, plan, building, cached, made, free, queue, held,
                edits, unrefreshed, redefined>>
records == <<row, bound, plan, edits>>
sems == <<free, queue, held>>

\* The "*" entry of the section, and the tenant's own if it has one.
Settings == [default : Limits, preset : Limits \union {None}]

Holders(g) == {r \in Requests : held[r] = g}
Queued(r) == \E g \in Gens : \E i \in DOMAIN queue[g] : queue[g][i] = r
Fresh == CHOOSE g \in Gens : g # cached /\ Holders(g) = {} /\ queue[g] = <<>>

TenantsInit(s) ==
  /\ settings = s
  /\ row \in {None, ColumnLimit} /\ bound \in BOOLEAN /\ plan = 0
  /\ building = None /\ cached = None
  /\ made = [g \in Gens |-> [limit |-> 0, quota |-> 0]]
  /\ free = [g \in Gens |-> 0] /\ queue = [g \in Gens |-> <<>>]
  /\ held = [r \in Requests |-> None]
  /\ edits = 0 /\ unrefreshed = 0 /\ redefined = FALSE

-----------------------------------------------------------------------------
(* The manager. *)

Store(limit, quota) ==
  /\ cached' = Fresh
  /\ made' = [made EXCEPT ![Fresh] = [limit |-> limit, quota |-> quota]]
  /\ free' = [free EXCEPT ![Fresh] = limit]
  /\ redefined' = FALSE
  /\ UNCHANGED <<queue, held>>

\* get_or_create of a tenant the configuration lists: neither row nor plan is read.
BuildPreset ==
  /\ cached = None /\ building = None /\ settings.preset # None
  /\ Store(settings.preset, 0)
  /\ UNCHANGED <<settings, records, building, unrefreshed>>

\* get_or_create takes the lock and reads the users row, which it creates with
\* the defaults of this moment when there is none...
BuildRead ==
  /\ cached = None /\ building = None /\ settings.preset = None
  /\ row' = IF row = None THEN settings.default ELSE row
  /\ building' = row'
  /\ UNCHANGED <<settings, bound, plan, edits, cached, made, sems, unrefreshed, redefined>>

\* ... then the plan, which overrides the row, and caches the state.
BuildStore ==
  /\ building # None
  /\ Store(building, IF bound THEN plan ELSE 0)
  /\ building' = None
  /\ UNCHANGED <<settings, records, unrefreshed>>

\* Mutant: the state is dropped without the manager's lock.
RefreshUnlocked ==
  /\ unrefreshed > 0
  /\ unrefreshed' = unrefreshed - 1 /\ cached' = None
  /\ UNCHANGED <<settings, records, building, made, sems, redefined>>

\* refresh: what it builds next is BuildRead or BuildPreset.
Refresh ==
  /\ unrefreshed > 0 /\ building = None
  /\ unrefreshed' = unrefreshed - 1 /\ cached' = None
  /\ UNCHANGED <<settings, records, building, made, sems, redefined>>

\* reconfigure, the last of the subsystems to get a snapshot.
Reconfigure(s) ==
  /\ building = None
  /\ settings' = s /\ cached' = None
  /\ UNCHANGED <<records, building, made, sems, unrefreshed, redefined>>

-----------------------------------------------------------------------------
(* The administrators: the row is written, and refreshed in another step. *)

EditLimits(limit) ==
  /\ edits < MaxEdits
  /\ edits' = edits + 1 /\ unrefreshed' = unrefreshed + 1
  /\ row' = limit
  /\ UNCHANGED <<settings, bound, plan, building, cached, made, sems, redefined>>

\* An edit of another field, or of the row's plan_id: a row it has to create
\* takes the columns' defaults, not the configuration's.
TouchRow(isBound) ==
  /\ edits < MaxEdits
  /\ edits' = edits + 1 /\ unrefreshed' = unrefreshed + 1
  /\ row' = IF row = None THEN ColumnLimit ELSE row
  /\ bound' = isBound
  /\ UNCHANGED <<settings, plan, building, cached, made, sems, redefined>>

AssignPlan == TouchRow(TRUE)

\* admin_unassign_plan: the tenant_plans row stays.
UnassignPlan == TouchRow(bound)

\* upsert_plan refreshes nothing.
UpdatePlan(quota) ==
  /\ edits < MaxEdits
  /\ edits' = edits + 1
  /\ plan' = quota /\ redefined' = TRUE
  /\ UNCHANGED <<settings, row, bound, building, cached, made, sems, unrefreshed>>

-----------------------------------------------------------------------------
(* The requests. *)

\* `async with tstate.semaphore`: a permit, or a place in the queue.
Enter(r) ==
  /\ held[r] = None /\ ~Queued(r) /\ cached # None
  /\ IF free[cached] > 0
       THEN /\ free' = [free EXCEPT ![cached] = @ - 1]
            /\ held' = [held EXCEPT ![r] = cached] /\ UNCHANGED queue
       ELSE /\ queue' = [queue EXCEPT ![cached] = Append(@, r)]
            /\ UNCHANGED <<free, held>>
  /\ UNCHANGED <<settings, records, building, cached, made, unrefreshed, redefined>>

\* Mutant: the permit goes back to the tenant's state of now.
LeaveCurrent(r) ==
  LET g == IF cached = None THEN held[r] ELSE cached IN
  /\ held[r] # None
  /\ IF queue[g] = <<>>
       THEN /\ free' = [free EXCEPT ![g] = @ + 1]
            /\ held' = [held EXCEPT ![r] = None] /\ UNCHANGED queue
       ELSE /\ held' = [held EXCEPT ![r] = None, ![Head(queue[g])] = g]
            /\ queue' = [queue EXCEPT ![g] = Tail(@)] /\ UNCHANGED free
  /\ UNCHANGED <<settings, records, building, cached, made, unrefreshed, redefined>>

\* The response, a refusal or an exception: the permit goes to the first that
\* waits for the same semaphore.
Leave(r) ==
  LET g == held[r] IN
  /\ held[r] # None
  /\ IF queue[g] = <<>>
       THEN /\ free' = [free EXCEPT ![g] = @ + 1]
            /\ held' = [held EXCEPT ![r] = None] /\ UNCHANGED queue
       ELSE /\ held' = [held EXCEPT ![r] = None, ![Head(queue[g])] = g]
            /\ queue' = [queue EXCEPT ![g] = Tail(@)] /\ UNCHANGED free
  /\ UNCHANGED <<settings, records, building, cached, made, unrefreshed, redefined>>

\* The process stops: only the rows stay.
Forget ==
  /\ building' = None /\ cached' = None /\ unrefreshed' = 0 /\ redefined' = FALSE
  /\ queue' = [g \in Gens |-> <<>>] /\ held' = [r \in Requests |-> None]
  /\ UNCHANGED <<settings, records, made, free>>

\* What the tenant's manager, administrators and requests do without the
\* configuration.
TenantsNext ==
  \/ BuildPreset \/ BuildRead \/ BuildStore \/ Refresh
  \/ \E l \in Limits : EditLimits(l)
  \/ AssignPlan \/ UnassignPlan
  \/ \E q \in Quotas : UpdatePlan(q)
  \/ \E r \in Requests : Enter(r) \/ Leave(r)

-----------------------------------------------------------------------------
TenantsTypeOK ==
  /\ settings \in Settings
  /\ row \in Limits \union {ColumnLimit, None} /\ bound \in BOOLEAN /\ plan \in Quotas \union {0}
  /\ building \in Limits \union {ColumnLimit, None}
  /\ cached \in Gens \union {None}
  /\ made \in [Gens -> [limit : Limits \union {ColumnLimit, 0}, quota : Quotas \union {0}]]
  /\ free \in [Gens -> Nat] /\ queue \in [Gens -> Seq(Requests)]
  /\ held \in [Requests -> Gens \union {None}]
  /\ edits \in 0 .. MaxEdits /\ unrefreshed \in 0 .. MaxEdits /\ redefined \in BOOLEAN

\* Every permit of a semaphore in use is free or with a request, and nobody
\* waits for a free one, whatever refreshes and reconfigurations replaced the
\* state while requests held or awaited the old one's.
SlotsConserved ==
  /\ TenantsTypeOK
  /\ \A g \in Gens : g = cached \/ Holders(g) # {} \/ queue[g] # <<>> =>
       /\ free[g] + Cardinality(Holders(g)) = made[g].limit
       /\ queue[g] # <<>> => free[g] = 0

\* Once every edit is refreshed, the state requests find is what the
\* configuration, the row and the plan give, though builds read them while
\* they change; a plan defined anew reaches it with the next build only.
RowsServed ==
  cached # None /\ unrefreshed = 0 =>
    IF settings.preset # None THEN made[cached] = [limit |-> settings.preset, quota |-> 0]
    ELSE /\ made[cached].limit = row
         /\ redefined \/ made[cached].quota = (IF bound THEN plan ELSE 0)
=============================================================================
