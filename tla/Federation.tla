----------------------------- MODULE Federation -----------------------------
(***************************************************************************)
(* The registries of agents, virtual servers, tools and prompt templates   *)
(* (tables of src/gateway/memory.py), what administrators do to them       *)
(* (src/gateway/app.py) and their synchronisation with ContextForge        *)
(* (src/gateway/contextforge_client.py).                                   *)
(*                                                                         *)
(* An item is a kind and a name.  It may have a row for all tenants and,   *)
(* when it is an agent or a template, rows of single tenants.  What a row  *)
(* says, and what ContextForge says of an item, is reduced to one content  *)
(* (an agent's URL, a template's text, a tool's definition) and to whether *)
(* it is enabled; ContextForge may leave either out.  Templates that are built *)
(* in, which nobody deletes, are left out.                                 *)
(***************************************************************************)
EXTENDS Integers, Sequences, FiniteSets, Functions

CONSTANTS
  Items,         \* [kind, name]
  Tenants, All,  \* the scopes of rows
  Contents,
  Unsafe,        \* contents that the scan for injections keeps out
  Cleaned,       \* content -> what the scan leaves of it: less if it only alerts
  Invalid,       \* contents with a type or an authentication no agent may have
  OfferValues,   \* item -> what ContextForge may say of it: [content, enabled]
  FirstOffers,   \* what it says in the beginning
  Writable,      \* rows that administrators write
  None, Asked,
  MaxChanges,    \* bound: changes of what ContextForge offers
  MaxEdits       \* bound: what administrators ask for

Order == <<"agents", "servers", "tools", "prompts">>
RowScopes == {All} \union Tenants

ASSUME FederationAssumption ==
  /\ \A a \in Items : a.kind \in {Order[i] : i \in DOMAIN Order}
  /\ All \notin Tenants /\ Unsafe \subseteq Contents
  /\ Cleaned \in [Contents -> Contents] /\ Invalid \subseteq Contents /\ None \notin Contents
  /\ Writable \subseteq [content : Contents \union {None}, enabled : BOOLEAN]
  /\ \A a \in Items : OfferValues[a] \subseteq [content : Contents \union {None}, enabled : BOOLEAN \union {None}]
  /\ FirstOffers \subseteq [Items -> {None} \union UNION {OfferValues[a] : a \in Items}]
  /\ MaxChanges \in Nat /\ MaxEdits \in Nat

VARIABLES
  registry,   \* item -> scope -> [content, enabled], or None
  offers,     \* item -> what ContextForge says of it, None when it has none
  syncs,      \* syncer -> None or [at, got]: place in Order, Asked or the answer
  changes, edits

federation == <<registry, offers, syncs, changes, edits>>

Syncers == {"loop", "admin"}

-----------------------------------------------------------------------------
(* The tables. *)

\* An agent of an unknown type is never written; who wrote it is told so, but
\* the synchronisation does not look.
Refused(a, content) == a.kind = "agents" /\ content \in Invalid

\* Names of agents are unique in a scope, all others in the table: where a row
\* of another scope has the name, the insert fails and the table stays.
Upsert(a, s, row) ==
  IF \/ Refused(a, row.content)
     \/ /\ a.kind # "agents" /\ registry[a][s] = None
        /\ \E x \in RowScopes : registry[a][x] # None
  THEN registry[a]
  ELSE [registry[a] EXCEPT ![s] = row]

\* The row a tenant is given: its own, or that for all.
RowFor(a, t) == IF registry[a][t] # None THEN registry[a][t] ELSE registry[a][All]

-----------------------------------------------------------------------------
(* ContextForge and the synchronisation. *)

\* Items that are not taken over: flagged by the scan (servers are not
\* scanned), or templates without a text.
Skipped(a, offer) ==
  \/ a.kind # "servers" /\ offer.content \in Unsafe
  \/ a.kind = "prompts" /\ offer.content = None

\* The text that is stored: control tokens are taken out of one that alerts.
Scanned(a, content) ==
  IF a.kind = "servers" \/ content = None THEN content ELSE Cleaned[content]

\* What an agent or a server does not say is taken from the row that is known.
Merged(a, offer, known) ==
  LET kept == a.kind \in {"agents", "servers"} /\ known # None IN
  [content |-> IF offer.content = None /\ kept THEN known.content ELSE Scanned(a, offer.content),
   enabled |-> IF offer.enabled # None THEN offer.enabled ELSE IF kept THEN known.enabled ELSE TRUE]

\* An agent is known by any row of its name, whichever comes first; the others
\* by the row for all.
Known(a) ==
  LET rows == {registry[a][s] : s \in RowScopes} \ {None} IN
  IF a.kind # "agents" THEN {registry[a][All]} ELSE IF rows = {} THEN {None} ELSE rows

\* Mutant: what is known already is left as it is.
MergeNew(a, offer, known) ==
  IF Skipped(a, offer) \/ known # None THEN registry[a] ELSE Upsert(a, All, Merged(a, offer, known))

\* The rows of an item after _merge_agents, _merge_servers, _merge_tools or
\* _merge_prompts: always the row for all is written.
Merge(a, offer, known) ==
  IF Skipped(a, offer) THEN registry[a] ELSE Upsert(a, All, Merged(a, offer, known))

\* A start synchronises before it serves; here that has succeeded.
FederationInit ==
  /\ offers \in FirstOffers
  /\ registry = [a \in Items |-> [s \in RowScopes |->
                   IF \/ s # All \/ offers[a] = None \/ Skipped(a, offers[a])
                      \/ Refused(a, Merged(a, offers[a], None).content)
                   THEN None ELSE Merged(a, offers[a], None)]]
  /\ syncs = [s \in Syncers |-> None]
  /\ changes = 0 /\ edits = 0

Change(a) ==
  /\ changes < MaxChanges /\ changes' = changes + 1
  /\ offers' \in {[offers EXCEPT ![a] = v] : v \in (OfferValues[a] \union {None}) \ {offers[a]}}
  /\ UNCHANGED <<registry, syncs, edits>>

Sync(s) ==
  /\ syncs[s] = None
  /\ syncs' = [syncs EXCEPT ![s] = [at |-> 1, got |-> Asked]]
  /\ UNCHANGED <<registry, offers, changes>>

\* ContextForge answers with what it offers at this moment, of one kind.
Respond(s, kind) ==
  /\ syncs[s] # None /\ syncs[s].got = Asked /\ Order[syncs[s].at] = kind
  /\ syncs' = [syncs EXCEPT ![s].got =
                 Restrict(offers, {a \in Items : a.kind = kind /\ offers[a] # None})]
  /\ UNCHANGED <<registry, offers, changes, edits>>

\* An error, a time-out or an answer of another shape reads as no items.
FetchFails(s) ==
  /\ syncs[s] # None /\ syncs[s].got = Asked
  /\ syncs' = [syncs EXCEPT ![s].got = <<>>]
  /\ UNCHANGED <<registry, offers, changes, edits>>

\* The answer is merged without an await and the next kind asked for.  Rows of
\* items that are not offered any more stay.
MergeAnswer(s) ==
  /\ syncs[s] # None /\ syncs[s].got # Asked
  /\ LET got == syncs[s].got IN
     \E known \in [DOMAIN got -> UNION {Known(a) : a \in DOMAIN got}] :
       /\ \A a \in DOMAIN got : known[a] \in Known(a)
       /\ registry' = [a \in Items |-> IF a \in DOMAIN got THEN Merge(a, got[a], known[a])
                                       ELSE registry[a]]
  /\ syncs' = [syncs EXCEPT ![s] = IF @.at = Len(Order) THEN None ELSE [at |-> @.at + 1, got |-> Asked]]
  /\ UNCHANGED <<offers, changes, edits>>

-----------------------------------------------------------------------------
(* The administrators. *)

Edited == edits < MaxEdits /\ edits' = edits + 1

SyncLoop == Sync("loop") /\ UNCHANGED edits
SyncNow == Edited /\ Sync("admin")

\* A row is registered or changed; tools come from a discovery only, which
\* writes them for all tenants.  An agent is registered with a URL, but one that
\* was taken over without may be changed in what else it says.
Edit(a, s, row) ==
  /\ Edited
  /\ a.kind \in {"servers", "tools"} => s = All
  /\ a.kind = "tools" => row.enabled
  /\ row.content = None =>
       a.kind = "servers" \/ (registry[a][s] # None /\ registry[a][s].content = None)
  /\ registry' = [registry EXCEPT ![a] = Upsert(a, s, row)]
  /\ UNCHANGED <<offers, syncs, changes>>

\* Tools cannot be deleted.
Delete(a, s) ==
  /\ Edited /\ a.kind # "tools" /\ registry[a][s] # None
  /\ registry' = [registry EXCEPT ![a][s] = None]
  /\ UNCHANGED <<offers, syncs, changes>>

FederationNext ==
  \/ SyncLoop \/ SyncNow
  \/ \E s \in Syncers : FetchFails(s) \/ MergeAnswer(s) \/ \E i \in DOMAIN Order : Respond(s, Order[i])
  \/ \E a \in Items :
       \/ Change(a)
       \/ \E s \in RowScopes : Delete(a, s) \/ \E row \in Writable : Edit(a, s, row)

-----------------------------------------------------------------------------
\* A template of a tenant keeps the name from a row for all.
Barred(a) == a.kind # "agents" /\ \E t \in Tenants : registry[a][t] # None

\* Once ContextForge changes what it offers no more, the registries come to
\* tell it, as the scan leaves it, and stay so, but for what is flagged, left out,
\* of an unknown type or barred by a tenant's row of the name: answers that fail
\* or that overlapping synchronisations merge late, an older one over a newer one,
\* edits and restarts put them back for a while.
Told ==
  <>[](\A a \in Items :
         LET offer == offers[a] IN
         /\ offer # None /\ offer.content # None
         /\ ~Skipped(a, offer) /\ ~Refused(a, Scanned(a, offer.content)) /\ ~Barred(a)
         => registry[a][All] # None /\ registry[a][All].content = Scanned(a, offer.content))
=============================================================================
