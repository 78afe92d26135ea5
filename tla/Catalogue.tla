----------------------------- MODULE Catalogue -----------------------------
(***************************************************************************)
(* The catalogue of models: the synchronisation with the providers         *)
(* (src/gateway/model_sync.py), its rows (model_catalog in                 *)
(* src/gateway/memory.py), the administrators' edits, and the registration *)
(* of catalogued models as endpoints in tiers (src/gateway/app.py).        *)
(*                                                                         *)
(* An entry is a model of a provider. What a provider says of a model is   *)
(* reduced to the capability score that is computed from it; a score gives *)
(* a tier. A synchronisation asks every provider at once. An answer is     *)
(* stored row by row without an await, but it may be old by then, and a    *)
(* registration reads the catalogue in a worker thread, which may fall     *)
(* between two rows; it goes on without an await once it is back in the    *)
(* event loop.                                                             *)
(***************************************************************************)
EXTENDS Integers, Sequences, FiniteSets, SequencesExt

CONSTANTS
  Entries,       \* [model, provider] pairs a provider may offer
  Templated,     \* providers in PROVIDER_TEMPLATES
  NameOf,        \* model -> name of its endpoint, provider left out
  ModelOrder,    \* the models in the order of their ids
  Scores,        \* capability scores, in percent
  Tiers,         \* tiers that are configured
  ByHand,        \* names of endpoints that administrators add
  None, Asked,
  FirstOffers,   \* what the providers offer in the beginning
  MaxChanges,    \* bound: changes of the providers' offers
  MaxEdits       \* bound: requests of administrators, and stops of the process

ASSUME CatalogueAssumption ==
  /\ Entries \subseteq [model : DOMAIN NameOf, provider : {e.provider : e \in Entries}]
  /\ Scores \subseteq 0 .. 100
  /\ FirstOffers \subseteq [Entries -> Scores \union {None}]
  /\ MaxChanges \in Nat /\ MaxEdits \in Nat

VARIABLES
  offers,      \* entry -> score, or None when its provider does not offer it
  catalogue,   \* entry -> [score, tier, enabled], or None
  calls,       \* synchronisation -> provider -> None, Asked or the answer
  storing,     \* entry -> score: rows of an answer that are still to be stored
  reading,     \* rows that a registration has read, or None
  endpoints,   \* [name, model, provider]
  members,     \* tier -> names
  changes, edits

catalogueVars == <<offers, catalogue, calls, storing, reading, endpoints, members, changes, edits>>
rows == <<offers, catalogue, changes>>
sync == <<calls, storing>>
configured == <<endpoints, members>>

Providers == {e.provider : e \in Entries}
Syncs == {"loop", "admin"}
\* _tier_from_capability
TierOf(score) ==
  LET reached == Cardinality({least \in {35, 50, 65, 80} : score >= least})
  IN  <<"tier0", "tier1", "tier2", "tier3", "tier4">>[reached + 1]

AllTiers == Tiers \union {TierOf(s) : s \in Scores}
Rows == [score : Scores, tier : AllTiers, enabled : BOOLEAN]
Answers == [Entries -> Scores \union {None}]
Quiet == [s \in Syncs |-> [p \in Providers |-> None]]
Names == {x.name : x \in endpoints}

CatalogueInit ==
  /\ offers \in FirstOffers
  /\ catalogue = [e \in Entries |-> None]
  /\ calls = Quiet /\ storing = <<>>
  /\ reading = None
  /\ endpoints = {} /\ members = [t \in Tiers |-> {}]
  /\ changes = 0 /\ edits = 0

-----------------------------------------------------------------------------
(* The providers and the synchronisation.  The event loop does nothing else *)
(* while an answer is stored.                                              *)

LoopFree == storing = <<>>

Change(e) ==
  /\ changes < MaxChanges /\ changes' = changes + 1
  /\ offers' \in {[offers EXCEPT ![e] = s] : s \in (Scores \union {None}) \ {offers[e]}}
  /\ UNCHANGED <<catalogue, sync, reading, configured, edits>>

\* sync_all by the loop, or by an administrator for all providers or some.
Sync(s, asked) ==
  /\ LoopFree /\ calls[s] = Quiet[s]
  /\ calls' = [calls EXCEPT ![s] = [p \in Providers |-> IF p \in asked THEN Asked ELSE None]]
  /\ UNCHANGED <<rows, storing, reading, configured>>

SyncLoop == Sync("loop", Providers) /\ UNCHANGED edits

\* The provider answers with what it offers at this moment.
Respond(s, p) ==
  /\ calls[s][p] = Asked
  /\ calls' = [calls EXCEPT ![s][p] =
                 Restrict(offers, {e \in Entries : e.provider = p /\ offers[e] # None})]
  /\ UNCHANGED <<rows, storing, reading, configured, edits>>

\* A blocked URL, an error or a time-out: the rows of the provider stay.
FetchFails(s, p) ==
  /\ LoopFree /\ calls[s][p] = Asked
  /\ calls' = [calls EXCEPT ![s][p] = None]
  /\ UNCHANGED <<rows, storing, reading, configured, edits>>

\* The answer is there: its rows follow.  Models that the provider no longer
\* offers keep theirs.
Store(s, p) ==
  /\ LoopFree /\ calls[s][p] \notin {None, Asked}
  /\ storing' = calls[s][p]
  /\ calls' = [calls EXCEPT ![s][p] = None]
  /\ UNCHANGED <<rows, reading, configured, edits>>

\* Mutant: a row that exists is left as it is.
UpsertNew(old, score) ==
  IF old = None THEN [score |-> score, tier |-> TierOf(score), enabled |-> TRUE] ELSE old

\* The row after _upsert_parsed, whether there was one or not: the tier and
\* enabled are written like the rest.
Upsert(old, score) == [score |-> score, tier |-> TierOf(score), enabled |-> TRUE]

StoreRow(e) ==
  /\ e \in DOMAIN storing
  /\ catalogue' = [catalogue EXCEPT ![e] = Upsert(@, storing[e])]
  /\ storing' = Restrict(storing, DOMAIN storing \ {e})
  /\ UNCHANGED <<offers, changes, calls, reading, configured, edits>>

\* An upsert that fails is logged and the next row follows.
SkipRow(e) ==
  /\ e \in DOMAIN storing
  /\ storing' = Restrict(storing, DOMAIN storing \ {e})
  /\ UNCHANGED <<rows, calls, reading, configured, edits>>

-----------------------------------------------------------------------------
(* The administrators. *)

Edited == edits < MaxEdits /\ edits' = edits + 1

SyncNow(asked) == Edited /\ Sync("admin", asked)

SetTier(e, t) ==
  /\ LoopFree /\ Edited /\ catalogue[e] # None
  /\ catalogue' = [catalogue EXCEPT ![e].tier = t]
  /\ UNCHANGED <<offers, changes, sync, reading, configured>>

SetEnabled(e, b) ==
  /\ LoopFree /\ Edited /\ catalogue[e] # None
  /\ catalogue' = [catalogue EXCEPT ![e].enabled = b]
  /\ UNCHANGED <<offers, changes, sync, reading, configured>>

\* The endpoint leaves its tiers too.
RemoveEndpoint(n) ==
  /\ LoopFree /\ Edited /\ n \in Names
  /\ endpoints' = {x \in endpoints : x.name # n}
  /\ members' = [t \in Tiers |-> members[t] \ {n}]
  /\ UNCHANGED <<rows, sync, reading>>

AddEndpoint(n) ==
  /\ LoopFree /\ Edited /\ n \notin Names
  /\ endpoints' = endpoints \union {[name |-> n, model |-> None, provider |-> None]}
  /\ UNCHANGED <<rows, sync, reading, members>>

-----------------------------------------------------------------------------
(* Registration of catalogued models. *)

\* Best score first, then by model; rows of one model in either order.
Before(e, f) ==
  LET at(x) == CHOOSE i \in DOMAIN ModelOrder : ModelOrder[i] = x.model IN
  \/ catalogue[e].score > catalogue[f].score
  \/ catalogue[e].score = catalogue[f].score /\ at(e) <= at(f)

\* filter_catalog_for_registration: enabled rows with the score that is asked
\* for, at most limit of them, and of those the ones that have a template, in
\* their order.
Offered(minimum, limit) ==
  LET listed == {e \in Entries : catalogue[e] # None /\ catalogue[e].enabled
                                 /\ catalogue[e].score >= minimum}
      heads  == {h \in SUBSET listed :
                   /\ Cardinality(h) <= limit /\ (Cardinality(h) < limit => h = listed)
                   /\ \A e \in h, f \in listed \ h : Before(e, f)}
  IN UNION {{o \in SetToSeqs({e \in h : e.provider \in Templated}) :
               \A i, j \in DOMAIN o : i < j => Before(o[i], o[j])} : h \in heads}

\* The worker thread reads, between any two rows that are stored.
ReadCatalogue(minimum, limit) ==
  /\ Edited /\ reading = None
  /\ \E o \in Offered(minimum, limit) :
       reading' = [i \in DOMAIN o |-> [entry |-> o[i], tier |-> catalogue[o[i]].tier]]
  /\ UNCHANGED <<rows, sync, configured>>

\* catalog_to_endpoint_config
EndpointOf(e) == [name |-> NameOf[e.model], model |-> e.model, provider |-> e.provider]

Planned(i) == EndpointOf(reading[i].entry)

\* Mutant: only the names that the plan was made with are looked at.
AddedAsPlanned(n) == {i \in 1 .. n : Planned(i).name \notin Names}

\* The rows among the first n that become endpoints: add_endpoint refuses a
\* name that is taken, by an earlier row or since the rows were read.
Added(n) ==
  {i \in 1 .. n : /\ Planned(i).name \notin Names
                  /\ \A j \in 1 .. i - 1 : Planned(j).name # Planned(i).name}

\* Rows are added and those of tiered are assigned; assigning fails for a tier
\* that is not configured, and the endpoint stays without.
Register(added, tiered) ==
  /\ endpoints' = endpoints \union {Planned(i) : i \in added}
  /\ members' = [t \in Tiers |-> members[t] \union
                   {Planned(i).name : i \in {j \in tiered : reading[j].tier = t}}]

\* admin_models_auto_register from the return of its thread on.
AutoRegister ==
  /\ LoopFree /\ reading # None
  /\ Register(Added(Len(reading)), Added(Len(reading)))
  /\ reading' = None
  /\ UNCHANGED <<rows, sync, edits>>

\* The process stops and starts again; a registration under way has written
\* some of its rows, the last one perhaps without its tier.
Stop ==
  /\ Edited
  /\ \/ UNCHANGED configured
     \/ /\ LoopFree /\ reading # None
        /\ \E n \in DOMAIN reading : \E tiered \in {Added(n - 1), Added(n)} :
             Register(Added(n), tiered)
  /\ calls' = Quiet /\ storing' = <<>> /\ reading' = None
  /\ UNCHANGED rows

CatalogueNext ==
  \/ \E e \in Entries : \/ Change(e) \/ StoreRow(e) \/ SkipRow(e)
                        \/ \E t \in AllTiers : SetTier(e, t)
                        \/ \E b \in BOOLEAN : SetEnabled(e, b)
  \/ SyncLoop
  \/ \E asked \in (SUBSET Providers) \ {{}} : SyncNow(asked)
  \/ \E s \in Syncs, p \in Providers : Respond(s, p) \/ FetchFails(s, p) \/ Store(s, p)
  \/ \E n \in Names : RemoveEndpoint(n)
  \/ \E n \in ByHand : AddEndpoint(n)
  \/ \E minimum \in Scores, limit \in 1 .. Cardinality(Entries) : ReadCatalogue(minimum, limit)
  \/ AutoRegister \/ Stop

\* The loop synchronises for ever.  A provider that is asked again and again
\* answers at times (the time-out ends the fetches it does not answer), what
\* it answered is stored, and a row that is written again and again is
\* written at times.
CatalogueFairness ==
  /\ WF_catalogueVars(SyncLoop)
  /\ \A p \in Providers : SF_catalogueVars(Respond("loop", p)) /\ SF_catalogueVars(Store("loop", p))
  /\ \A e \in Entries : SF_catalogueVars(StoreRow(e))

CatalogueSpec == CatalogueInit /\ [][CatalogueNext]_catalogueVars /\ CatalogueFairness

-----------------------------------------------------------------------------
CatalogueTypeOK ==
  /\ offers \in Answers
  /\ \A e \in Entries : catalogue[e] \in Rows \union {None}
  /\ DOMAIN storing \subseteq Entries /\ \A e \in DOMAIN storing : storing[e] \in Scores
  /\ reading # None => \A i \in DOMAIN reading : reading[i].entry \in Entries
  /\ DOMAIN members = Tiers
  /\ changes \in 0 .. MaxChanges /\ edits \in 0 .. MaxEdits

\* What registrations leave behind is a configuration that validates and says
\* one thing: no name is given twice, no tier names an endpoint that is gone,
\* and no endpoint stands in two tiers, although models of one name are
\* planned together, administrators add and remove endpoints while the thread
\* reads, and the process stops between an endpoint and its tier.
Unambiguous ==
  /\ CatalogueTypeOK
  /\ \A x, y \in endpoints : x.name = y.name => x = y
  /\ \A t \in Tiers : members[t] \subseteq Names
  /\ \A t, u \in Tiers : t # u => members[t] \intersect members[u] = {}

\* Once the providers change no more, the catalogue comes to tell what they
\* offer and stays so: late answers of overlapping synchronisations, failed
\* fetches, failed rows and stops put it back for a while only.
Mirrors ==
  <>[](\A e \in Entries : offers[e] # None =>
         catalogue[e] # None /\ catalogue[e].score = offers[e])

\* "Manually set the tier assignment for a model", "Enable/disable a model"
\* (app.py): an edit is kept until the next one.  Refuted: the next
\* synchronisation gives the model its tier and enables it again.
ManualKept ==
  [][edits' = edits =>
       \A e \in Entries : catalogue[e] # None => catalogue'[e].enabled = catalogue[e].enabled]_catalogueVars
=============================================================================
