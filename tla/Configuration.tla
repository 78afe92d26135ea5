--------------------------- MODULE Configuration ---------------------------
(***************************************************************************)
(* The configuration while the gateway runs: the base file and the overlay *)
(* that administrators edit (src/gateway/admin.py), the snapshot that a    *)
(* reload makes of them (src/gateway/config.py), the poller, and the       *)
(* propagation of a snapshot to the subsystems (_apply_runtime_config in   *)
(* src/gateway/app.py).                                                    *)
(*                                                                         *)
(* A handler runs from its checks to the reload without an await; the      *)
(* propagation that follows awaits, and propagations of several handlers   *)
(* and of the poller overlap.  Three sections stand for the file: the      *)
(* endpoints, one tier, and the API keys of auth.                          *)
(***************************************************************************)
EXTENDS Integers, FiniteSets

CONSTANTS
  Names,        \* endpoint names
  Keys,         \* API keys
  Tenants,      \* the tenants section: default limits and overrides
  Bases,        \* base files an operator writes
  Absent,       \* a section the overlay does not have
  Garbled,      \* an overlay that does not parse
  MaxChanges,   \* bound: edits of the files, by handlers or by hand
  MaxCrashes    \* bound: stops of the process

VARIABLES
  base,         \* gateway-config.json
  overlay,      \* gateway-config.runtime.json
  stale,        \* whether a file was written after the snapshot's loaded_at,
                \* or between the reads and loaded_at, where nothing sees it
  up,           \* the process runs
  current,      \* ConfigManager._current
  version,      \* ConfigManager._reload_count
  applying,     \* snapshots being propagated: [version, snapshot, at]
  live,         \* subsystem -> version of the snapshot it has
  changes, crashes,
  asked,        \* history: what accepted edits established, [kind, item] -> in or out
  mixed         \* history: the last propagation overlapped another or failed

configVars == <<base, overlay, stale, up, current, version, applying, live,
                changes, crashes, asked, mixed>>
unapplied == <<base, overlay, stale, up, current, version, changes, crashes, asked>>

\* A tier lists endpoints; sound: its other fields pass _validate.
TierSections == [members : SUBSET Names, sound : BOOLEAN]
Configs == [endpoints : SUBSET Names, tier : TierSections, keys : SUBSET Keys,
            tenants : Tenants]
NoSections == [endpoints |-> Absent, tier |-> Absent, keys |-> Absent, tenants |-> Absent]
Overlays == [endpoints : (SUBSET Names) \union {Absent}, keys : (SUBSET Keys) \union {Absent},
             tier : TierSections \union {Absent}, tenants : {Absent}]
Subsystems == {"pool", "rest"}
Facts == {"endpoint"} \X Names \union {"key"} \X Keys

ASSUME ConfigurationAssumption ==
  /\ MaxChanges \in Nat /\ MaxCrashes \in Nat
  /\ \A v \in (SUBSET Names) \union (SUBSET Keys) \union TierSections : v # Absent
  /\ \A o \in Overlays : o # Garbled

\* _merge_overlay; an overlay that does not parse is left out with a warning.
Merged(b, o) ==
  IF o = Garbled THEN b
  ELSE [s \in DOMAIN b |-> IF o[s] = Absent THEN b[s] ELSE o[s]]

\* _validate, for the sections that are kept.
Valid(c) == c.endpoints # {} /\ c.tier.sound /\ c.tier.members \subseteq c.endpoints

\* Mutant: the overlay is made anew from the section that is written.
WithAlone(section, value) == [NoSections EXCEPT ![section] = value]

\* _set_section: an overlay that does not parse counts as empty.
With(section, value) ==
  [(IF overlay = Garbled THEN NoSections ELSE overlay) EXCEPT ![section] = value]

Files == Merged(base, overlay)

ConfigInit ==
  /\ base \in {b \in Bases : Valid(b)}
  /\ overlay = NoSections /\ stale = "no"
  /\ up = TRUE /\ current = base /\ version = 1
  /\ applying = {} /\ live = [s \in Subsystems |-> 1]
  /\ changes = 0 /\ crashes = 0 /\ mixed = FALSE
  /\ asked = [f \in Facts |-> "unasked"]

-----------------------------------------------------------------------------
(* Reload and propagation. *)

\* policy_mod.set_current_config and the pool's first await.
Propagate(v, c) ==
  /\ applying' = applying \union {[version |-> v, snapshot |-> c, at |-> "pool"]}
  /\ mixed' = (applying # {})

\* reload() of the files as they are after this step, then the propagation.
\* A configuration that is not valid raises, and the snapshot stays.
ReloadAndApply ==
  \/ /\ Valid(Files')
     /\ current' = Files' /\ version' = version + 1 /\ stale' = "no"
     /\ Propagate(version + 1, Files')
  \/ /\ ~Valid(Files') /\ stale' = "yes"
     /\ UNCHANGED <<current, version, applying, mixed>>

\* EndpointPool.rebuild swaps its clients; the database is awaited next.
StepPool(a) ==
  /\ a.at = "pool"
  /\ applying' = (applying \ {a}) \union {[a EXCEPT !.at = "rest"]}
  /\ live' = [live EXCEPT !["pool"] = a.version]
  /\ UNCHANGED <<unapplied, mixed>>

\* The firewall, the tool cache, the keys, the workers and the tenants.
StepRest(a) ==
  /\ a.at = "rest"
  /\ applying' = applying \ {a}
  /\ live' = [live EXCEPT !["rest"] = a.version]
  /\ UNCHANGED <<unapplied, mixed>>

\* An exception, such as that of a pattern that does not compile, ends the
\* propagation; nothing repeats it.
Abort(a) ==
  /\ applying' = applying \ {a} /\ mixed' = TRUE
  /\ UNCHANGED <<unapplied, live>>

\* Mutant: the poller reloads and leaves the subsystems to the handlers.
PollUnapplied ==
  /\ up /\ stale = "yes" /\ Valid(Files)
  /\ current' = Files /\ version' = version + 1 /\ stale' = "no"
  /\ UNCHANGED <<base, overlay, up, live, changes, crashes, asked, applying, mixed>>

\* check_mtime_and_reload, the poller's.
Poll ==
  /\ up /\ stale = "yes"
  /\ UNCHANGED <<base, overlay, up, live, changes, crashes, asked>>
  /\ ReloadAndApply

\* POST /reload: at any time, whatever the time stamps say.  Of files that are not
\* valid it is refused and changes nothing.
ReloadNow ==
  /\ up /\ Valid(Files) /\ changes < MaxChanges /\ changes' = changes + 1
  /\ UNCHANGED <<base, overlay, up, live, crashes, asked>>
  /\ ReloadAndApply

-----------------------------------------------------------------------------
(* The handlers. *)

\* A handler writes a section and reloads.  Only an edit whose reload succeeds
\* is answered with success; the facts of a refused one are in doubt.
Edit(o, facts, now) ==
  /\ up /\ changes < MaxChanges
  /\ changes' = changes + 1
  /\ overlay' = o /\ UNCHANGED <<base, up, live, crashes>>
  /\ ReloadAndApply
  /\ asked' = [f \in Facts |-> IF f \notin facts THEN asked[f]
                              ELSE IF version' > version THEN now ELSE "unasked"]

AddEndpoint(n) ==
  /\ n \notin current.endpoints
  /\ Edit(With("endpoints", current.endpoints \union {n}), {<<"endpoint", n>>}, "in")

\* The fields of an endpoint that the other sections do not name.
UpdateEndpoint(n) ==
  /\ n \in current.endpoints
  /\ Edit(With("endpoints", current.endpoints), {}, "in")

\* The endpoint and its place in the tier: two writes of the overlay.
RemoveEndpoint(n) ==
  LET tier == [current.tier EXCEPT !.members = @ \ {n}]
      once == With("endpoints", current.endpoints \ {n})
  IN
  /\ n \in current.endpoints
  /\ Edit(IF tier = current.tier THEN once ELSE [once EXCEPT !["tier"] = tier],
          {<<"endpoint", n>>}, "out")

\* The second write does not happen.
RemoveHalf(n) ==
  /\ up /\ changes < MaxChanges
  /\ n \in current.endpoints /\ n \in current.tier.members
  /\ overlay' = With("endpoints", current.endpoints \ {n})
  /\ stale' = "yes" /\ changes' = changes + 1
  /\ asked' = [asked EXCEPT ![<<"endpoint", n>>] = "unasked"]
  /\ UNCHANGED <<base, up, current, version, applying, live, crashes, mixed>>

AssignEndpoint(n) ==
  /\ n \in current.endpoints \ current.tier.members
  /\ Edit(With("tier", [current.tier EXCEPT !.members = @ \union {n}]), {}, "in")

UnassignEndpoint(n) ==
  /\ n \in current.tier.members
  /\ Edit(With("tier", [current.tier EXCEPT !.members = @ \ {n}]), {}, "in")

\* The fields of an edited tier are not looked at before they are written.
UpdateTier(t) == Edit(With("tier", t), {}, "in")

GenerateKey(k) ==
  /\ k \notin current.keys
  /\ Edit(With("keys", current.keys \union {k}), {<<"key", k>>}, "in")

RevokeKey(k) ==
  /\ k \in current.keys
  /\ Edit(With("keys", current.keys \ {k}), {<<"key", k>>}, "out")

Administer ==
  \/ \E n \in Names : AddEndpoint(n) \/ UpdateEndpoint(n) \/ RemoveEndpoint(n) \/ RemoveHalf(n)
                      \/ AssignEndpoint(n) \/ UnassignEndpoint(n)
  \/ \E t \in TierSections : UpdateTier(t)
  \/ \E k \in Keys : GenerateKey(k) \/ RevokeKey(k)

-----------------------------------------------------------------------------
(* The operator and the process. *)

\* The base file is edited, or the overlay in a way that does not parse: what
\* administrators asked for is lost with it.
ByHand ==
  /\ changes < MaxChanges /\ changes' = changes + 1
  /\ \/ /\ base' \in Bases /\ UNCHANGED <<overlay, asked>>
     \/ /\ overlay' = Garbled /\ UNCHANGED base
        /\ asked' = [f \in Facts |-> "unasked"]
  /\ stale' \in {"yes"} \union (IF stale = "no" THEN {"missed"} ELSE {})
  /\ UNCHANGED <<up, current, version, applying, live, crashes, mixed>>

Crash ==
  /\ up /\ crashes < MaxCrashes
  /\ up' = FALSE /\ crashes' = crashes + 1 /\ applying' = {}
  /\ UNCHANGED <<base, overlay, stale, current, version, live, changes, asked, mixed>>

\* The process starts only on files that are valid together.
Start ==
  /\ ~up /\ Valid(Files)
  /\ up' = TRUE
  /\ current' = Files /\ version' = version + 1
  /\ live' = [s \in Subsystems |-> version + 1]
  /\ stale' = "no" /\ mixed' = FALSE
  /\ UNCHANGED <<base, overlay, applying, changes, crashes, asked>>

\* Until then the operator repairs them: a valid base and no overlay.
Repair ==
  /\ ~up /\ ~Valid(Files)
  /\ base' \in {b \in Bases : Valid(b)} /\ overlay' = NoSections
  /\ asked' = [f \in Facts |-> "unasked"]
  /\ UNCHANGED <<stale, up, current, version, applying, live, changes, crashes, mixed>>

-----------------------------------------------------------------------------
ConfigTypeOK ==
  /\ base \in Configs /\ overlay \in Overlays \union {Garbled}
  /\ stale \in {"no", "yes", "missed"} /\ up \in BOOLEAN /\ mixed \in BOOLEAN
  /\ current \in Configs /\ Valid(current) /\ version \in Nat
  /\ applying \subseteq [version : 1 .. version, snapshot : Configs, at : Subsystems]
  /\ live \in [Subsystems -> 1 .. version]
  /\ asked \in [Facts -> {"unasked", "in", "out"}]

\* An edit that was answered with success holds in every snapshot from then on,
\* across later edits of other sections, edits of the base file, refused
\* edits and restarts, until an edit asks for the opposite or the overlay is
\* destroyed by hand.
EditsKept ==
  /\ ConfigTypeOK
  /\ \A f \in Facts :
       LET inForce == f[2] \in (IF f[1] = "key" THEN current.keys ELSE current.endpoints)
       IN  (asked[f] = "in" => inForce) /\ (asked[f] = "out" => ~inForce)

\* Once nobody touches the files any more, what they say is in force in every
\* subsystem, however many reloads were refused and processes restarted
\* before: unless the last write fell between the reads of a reload and its
\* time stamp, or the last propagation failed or met another.
PickedUp ==
  <>[](/\ up /\ (Valid(Files) /\ stale # "missed" => current = Files)
       /\ (mixed \/ \A s \in Subsystems : live[s] = version))

\* "Every mutation triggers a config reload + endpoint pool rebuild + auth
\* refresh, so changes take effect immediately" (admin.py): with nothing left
\* to propagate, every subsystem has the current snapshot.
TakesEffect ==
  up /\ applying = {} => \A s \in Subsystems : live[s] = version

\* The overlay "survives restarts" (admin.py): the files load again.
StartsAgain == Valid(Files)
=============================================================================
