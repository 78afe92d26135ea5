----------------------- MODULE LiveConfigurationProofs -----------------------
(***************************************************************************)
(* Theorems of LiveConfiguration, for any endpoints, keys, base files and  *)
(* tenants, any requests and limits, and any number of edits and restarts. *)
(*                                                                         *)
(* EditsKept speaks of the snapshot in force, but the next one is made of  *)
(* the files: ConfigInv adds that the overlay has what was established.    *)
(* SlotsConserved counts the permits of a semaphore: TenantsInv adds that  *)
(* a request waits once and holds nothing while it waits, from which there *)
(* always is a generation for a new state.  RowsServed rests on what a     *)
(* build has read while edits go on (BuildCurrent).                        *)
(***************************************************************************)
EXTENDS LiveConfiguration, FiniteSetTheorems, TLAPS

\* The section of the overlay that a fact is about.
SectionOf(f) == IF f[1] = "key" THEN "keys" ELSE "endpoints"

\* The overlay has the section of a fact, and the fact holds in it or not.
Says(o, f, answer) ==
  o[SectionOf(f)] # Absent /\ (answer = "in" <=> f[2] \in o[SectionOf(f)])

\* What was established is in the overlay of this moment.
AskedInOverlay ==
  \A f \in Facts : asked[f] # "unasked" => overlay # Garbled /\ Says(overlay, f, asked[f])

\* Snapshots have the tenants of a base file.
TenantsKept ==
  /\ base \in Bases /\ current.tenants \in Settings
  /\ \A a \in applying : a.snapshot.tenants \in Settings

ConfigInv == EditsKept /\ AskedInOverlay /\ TenantsKept

-----------------------------------------------------------------------------
\* A request waits in one place at most, and has no permit while it waits.
WaitOnce ==
  /\ \A g, h \in Gens : \A i \in DOMAIN queue[g], j \in DOMAIN queue[h] :
       queue[g][i] = queue[h][j] => g = h /\ i = j
  /\ \A g \in Gens : \A i \in DOMAIN queue[g] : held[queue[g][i]] = None

\* A build has read the row of now, unless an edit is still to be refreshed.
BuildCurrent ==
  building # None => /\ cached = None /\ settings.preset = None
                     /\ unrefreshed = 0 => building = row

TenantsInv == SlotsConserved /\ RowsServed /\ WaitOnce /\ BuildCurrent /\ unrefreshed <= edits

\* A process that does not run has neither a state nor a build.
LiveInv ==
  /\ ConfigInv /\ TenantsInv
  /\ ~up => building = None /\ cached = None

-----------------------------------------------------------------------------
(* The files and the overlay *)

\* A snapshot takes a section from the overlay, if that has it.
LEMMA MergedTyped ==
  ASSUME NEW b \in Configs, NEW o \in Overlays \union {Garbled}
  PROVE  /\ Merged(b, o) \in Configs /\ Merged(b, o).tenants = b.tenants
         /\ o # Garbled => /\ o.endpoints # Absent => Merged(b, o).endpoints = o.endpoints
                           /\ o.keys # Absent => Merged(b, o).keys = o.keys
<1>1. CASE o = Garbled
  BY <1>1 DEF Merged
<1>2. CASE o # Garbled
  <2> DEFINE m == Merged(b, o)
  <2>1. m = [s \in {"endpoints", "tier", "keys", "tenants"} |->
               IF o[s] = Absent THEN b[s] ELSE o[s]]
    <3>1. DOMAIN b = {"endpoints", "tier", "keys", "tenants"}
      BY DEF Configs
    <3> QED
      BY <1>2, <3>1 DEF Merged
  <2>2. m = [endpoints |-> m.endpoints, tier |-> m.tier, keys |-> m.keys,
             tenants |-> m.tenants]
    BY <2>1
  <2> HIDE DEF m
  <2>3. /\ m.endpoints = IF o.endpoints = Absent THEN b.endpoints ELSE o.endpoints
        /\ m.tier = IF o.tier = Absent THEN b.tier ELSE o.tier
        /\ m.keys = IF o.keys = Absent THEN b.keys ELSE o.keys
        /\ m.tenants = IF o.tenants = Absent THEN b.tenants ELSE o.tenants
    BY <2>1
  <2>4. /\ b.endpoints \in SUBSET Names /\ b.tier \in TierSections
        /\ b.keys \in SUBSET Keys /\ b.tenants \in Tenants
    BY DEF Configs
  <2>5. o \in Overlays
    BY <1>2
  <2>6. /\ o.endpoints \in (SUBSET Names) \union {Absent}
        /\ o.tier \in TierSections \union {Absent}
        /\ o.keys \in (SUBSET Keys) \union {Absent} /\ o.tenants = Absent
    BY <2>5 DEF Overlays
  <2>7. /\ m.endpoints \in SUBSET Names /\ m.tier \in TierSections
        /\ m.keys \in SUBSET Keys /\ m.tenants = b.tenants
    BY <2>3, <2>4, <2>6
  <2>8. m \in Configs
    BY <2>2, <2>4, <2>7 DEF Configs
  <2> QED
    BY <2>3, <2>7, <2>8, <1>2 DEF m
<1> QED
  BY <1>1, <1>2

LEMMA NoSectionsTyped == NoSections \in Overlays
<1> DEFINE n == NoSections
<1>1. n.endpoints = Absent /\ n.tier = Absent /\ n.keys = Absent /\ n.tenants = Absent
  BY DEF NoSections
<1>2. n = [endpoints |-> n.endpoints, tier |-> n.tier, keys |-> n.keys, tenants |-> n.tenants]
  BY DEF NoSections
<1> HIDE DEF n
<1>3. n \in Overlays
  BY <1>1, <1>2 DEF Overlays
<1> QED
  BY <1>3 DEF n

\* Writing a section leaves the others as they are, in an overlay that parses.
LEMMA WithTyped ==
  ASSUME overlay \in Overlays \union {Garbled}
  PROVE  /\ \A S \in SUBSET Names :
              /\ With("endpoints", S) \in Overlays /\ With("endpoints", S).endpoints = S
              /\ overlay # Garbled => With("endpoints", S).keys = overlay.keys
         /\ \A S \in SUBSET Keys :
              /\ With("keys", S) \in Overlays /\ With("keys", S).keys = S
              /\ overlay # Garbled => With("keys", S).endpoints = overlay.endpoints
         /\ \A t \in TierSections :
              /\ With("tier", t) \in Overlays
              /\ overlay # Garbled => /\ With("tier", t).endpoints = overlay.endpoints
                                      /\ With("tier", t).keys = overlay.keys
<1> DEFINE o == IF overlay = Garbled THEN NoSections ELSE overlay
<1>1. o \in Overlays
  BY NoSectionsTyped
<1>2. overlay # Garbled => o = overlay
  OBVIOUS
<1>3. /\ \A S : With("endpoints", S) = [o EXCEPT !["endpoints"] = S]
      /\ \A S : With("keys", S) = [o EXCEPT !["keys"] = S]
      /\ \A t : With("tier", t) = [o EXCEPT !["tier"] = t]
  BY DEF With
<1> HIDE DEF o
<1>4. ASSUME NEW S \in SUBSET Names
      PROVE  /\ [o EXCEPT !["endpoints"] = S] \in Overlays
             /\ [o EXCEPT !["endpoints"] = S].endpoints = S
             /\ [o EXCEPT !["endpoints"] = S].keys = o.keys
  BY <1>1 DEF Overlays
<1>5. ASSUME NEW S \in SUBSET Keys
      PROVE  /\ [o EXCEPT !["keys"] = S] \in Overlays
             /\ [o EXCEPT !["keys"] = S].keys = S
             /\ [o EXCEPT !["keys"] = S].endpoints = o.endpoints
  BY <1>1 DEF Overlays
<1>6. ASSUME NEW t \in TierSections
      PROVE  /\ [o EXCEPT !["tier"] = t] \in Overlays
             /\ [o EXCEPT !["tier"] = t].endpoints = o.endpoints
             /\ [o EXCEPT !["tier"] = t].keys = o.keys
  BY <1>1 DEF Overlays
<1>7. \A S \in SUBSET Names :
        /\ With("endpoints", S) \in Overlays /\ With("endpoints", S).endpoints = S
        /\ overlay # Garbled => With("endpoints", S).keys = overlay.keys
  BY <1>2, <1>3, <1>4
<1>8. \A S \in SUBSET Keys :
        /\ With("keys", S) \in Overlays /\ With("keys", S).keys = S
        /\ overlay # Garbled => With("keys", S).endpoints = overlay.endpoints
  BY <1>2, <1>3, <1>5
<1>9. \A t \in TierSections :
        /\ With("tier", t) \in Overlays
        /\ overlay # Garbled => /\ With("tier", t).endpoints = overlay.endpoints
                                /\ With("tier", t).keys = overlay.keys
  BY <1>2, <1>3, <1>6
<1> QED
  BY <1>7, <1>8, <1>9

-----------------------------------------------------------------------------
(* Reloads and edits keep ConfigInv *)

\* A reload of an overlay that has what was established.
LEMMA ReloadKeeps ==
  ASSUME ConfigInv, ReloadAndApply, base' \in Bases, overlay' \in Overlays \union {Garbled},
         UNCHANGED <<up, live>>, asked' \in [Facts -> {"unasked", "in", "out"}],
         AskedInOverlay',
         version' = version => \A f \in Facts : asked'[f] \in {"unasked", asked[f]}
  PROVE  ConfigInv'
<1> USE DEF ConfigInv
<1>1. base' \in Configs /\ base'.tenants \in Settings
  BY SettingsAssumption
<1>2. PICK c : c = Merged(base', overlay')
  OBVIOUS
<1>3. /\ c \in Configs /\ c.tenants \in Settings
      /\ overlay' # Garbled => /\ overlay'.endpoints # Absent => c.endpoints = overlay'.endpoints
                               /\ overlay'.keys # Absent => c.keys = overlay'.keys
  BY <1>1, <1>2, MergedTyped
<1>4. Files' = c
  BY <1>2 DEF Files
<1>5. /\ version \in Nat /\ up' \in BOOLEAN /\ live \in [Subsystems -> 1 .. version]
      /\ applying \subseteq [version : 1 .. version, snapshot : Configs, at : Subsystems]
      /\ mixed \in BOOLEAN
  BY DEF EditsKept, ConfigTypeOK
<1>6. CASE Valid(c) /\ current' = c /\ version' = version + 1 /\ stale' = "no"
           /\ Propagate(version + 1, c)
  <2>1. applying' = applying \union {[version |-> version + 1, snapshot |-> c, at |-> "pool"]}
        /\ mixed' \in BOOLEAN
    BY <1>6 DEF Propagate
  <2>2. applying' \subseteq [version : 1 .. version', snapshot : Configs, at : Subsystems]
    <3>1. [version |-> version + 1, snapshot |-> c, at |-> "pool"]
            \in [version : 1 .. version', snapshot : Configs, at : Subsystems]
      BY <1>3, <1>5, <1>6 DEF Subsystems
    <3>2. 1 .. version \subseteq 1 .. version'
      BY <1>5, <1>6
    <3> QED
      BY <1>5, <2>1, <3>1, <3>2
  <2>3. ConfigTypeOK'
    <3>1. live' \in [Subsystems -> 1 .. version'] /\ version' \in Nat
      BY <1>5, <1>6
    <3> QED
      BY <1>1, <1>3, <1>5, <1>6, <2>1, <2>2, <3>1 DEF ConfigTypeOK
  <2>4. EditsKept'
    BY <1>3, <1>6, <2>3 DEF EditsKept, AskedInOverlay, Says, SectionOf
  <2>5. TenantsKept'
    BY <1>3, <1>6, <2>1 DEF TenantsKept
  <2> QED
    BY <2>4, <2>5
<1>7. CASE stale' = "yes" /\ UNCHANGED <<current, version, applying, mixed>>
  <2>1. ConfigTypeOK'
    BY <1>1, <1>5, <1>7 DEF EditsKept, ConfigTypeOK, Valid
  <2>2. EditsKept'
    BY <1>7, <2>1 DEF EditsKept
  <2>3. TenantsKept'
    BY <1>7 DEF TenantsKept
  <2> QED
    BY <2>2, <2>3
<1> QED
  BY <1>4, <1>6, <1>7 DEF ReloadAndApply

\* An edit writes an overlay that has the facts it is about, and those that
\* were established before.
LEMMA EditKeeps ==
  ASSUME ConfigInv, NEW o \in Overlays, NEW facts \in SUBSET Facts, NEW now \in {"in", "out"},
         Edit(o, facts, now),
         \A f \in Facts \ facts : asked[f] # "unasked" => Says(o, f, asked[f]),
         \A f \in facts : Says(o, f, now)
  PROVE  ConfigInv'
<1>1. /\ overlay' = o /\ UNCHANGED <<base, up, live>> /\ ReloadAndApply
      /\ asked' = [f \in Facts |-> IF f \notin facts THEN asked[f]
                                  ELSE IF version' > version THEN now ELSE "unasked"]
  BY DEF Edit
<1>2. base' \in Bases /\ o # Garbled
  BY <1>1, ConfigurationAssumption DEF ConfigInv, TenantsKept
<1>3. asked \in [Facts -> {"unasked", "in", "out"}] /\ version \in Nat
  BY DEF ConfigInv, EditsKept, ConfigTypeOK
<1>4. asked' \in [Facts -> {"unasked", "in", "out"}]
  BY <1>1, <1>3
<1>5. AskedInOverlay'
  BY <1>1, <1>2 DEF AskedInOverlay, Says
<1>6. version' = version => \A f \in Facts : asked'[f] \in {"unasked", asked[f]}
  BY <1>1, <1>3
<1> QED
  BY <1>1, <1>2, <1>4, <1>5, <1>6, ReloadKeeps

\* Edits of the endpoints, perhaps with the tier.
LEMMA EndpointEdit ==
  ASSUME ConfigInv, NEW o \in Overlays, NEW n \in Names, NEW now \in {"in", "out"},
         NEW facts \in {{}, {<<"endpoint", n>>}}, Edit(o, facts, now),
         o.endpoints \in SUBSET Names, overlay # Garbled => o.keys = overlay.keys,
         \A m \in Names : facts = {} \/ m # n => (m \in o.endpoints <=> m \in current.endpoints),
         facts # {} => (now = "in" <=> n \in o.endpoints)
  PROVE  ConfigInv'
<1>1. facts \in SUBSET Facts
  BY DEF Facts
<1>2. o.endpoints # Absent
  BY ConfigurationAssumption
<1>3. ASSUME NEW f \in Facts \ facts, asked[f] # "unasked" PROVE Says(o, f, asked[f])
  <2>1. overlay # Garbled /\ Says(overlay, f, asked[f]) /\ asked[f] \in {"in", "out"}
    BY <1>3 DEF ConfigInv, AskedInOverlay, EditsKept, ConfigTypeOK
  <2>2. CASE f \in {"key"} \X Keys
    BY <2>1, <2>2 DEF Says, SectionOf
  <2>3. CASE f \in {"endpoint"} \X Names
    <3>1. f[1] # "key" /\ f[2] \in Names /\ f = <<"endpoint", f[2]>>
      BY <2>3
    <3>2. asked[f] = "in" <=> f[2] \in current.endpoints
      BY <2>1, <3>1 DEF ConfigInv, EditsKept
    <3>3. facts = {} \/ f[2] # n
      BY <3>1
    <3> QED
      BY <1>2, <3>1, <3>2, <3>3 DEF Says, SectionOf
  <2> QED
    BY <2>2, <2>3 DEF Facts
<1>4. \A f \in facts : Says(o, f, now)
  BY <1>2 DEF Says, SectionOf
<1> QED
  BY <1>1, <1>3, <1>4, EditKeeps

\* Edits of the keys.
LEMMA KeyEdit ==
  ASSUME ConfigInv, NEW o \in Overlays, NEW k \in Keys, NEW now \in {"in", "out"},
         Edit(o, {<<"key", k>>}, now),
         o.keys \in SUBSET Keys, overlay # Garbled => o.endpoints = overlay.endpoints,
         \A m \in Keys : m # k => (m \in o.keys <=> m \in current.keys),
         now = "in" <=> k \in o.keys
  PROVE  ConfigInv'
<1>1. {<<"key", k>>} \in SUBSET Facts
  BY DEF Facts
<1>2. o.keys # Absent
  BY ConfigurationAssumption
<1>3. ASSUME NEW f \in Facts \ {<<"key", k>>}, asked[f] # "unasked" PROVE Says(o, f, asked[f])
  <2>1. overlay # Garbled /\ Says(overlay, f, asked[f]) /\ asked[f] \in {"in", "out"}
    BY <1>3 DEF ConfigInv, AskedInOverlay, EditsKept, ConfigTypeOK
  <2>2. CASE f \in {"endpoint"} \X Names
    BY <2>1, <2>2 DEF Says, SectionOf
  <2>3. CASE f \in {"key"} \X Keys
    <3>1. f[1] = "key" /\ f[2] \in Keys /\ f[2] # k
      BY <2>3
    <3>2. asked[f] = "in" <=> f[2] \in current.keys
      BY <2>1, <3>1 DEF ConfigInv, EditsKept
    <3> QED
      BY <1>2, <3>1, <3>2 DEF Says, SectionOf
  <2> QED
    BY <2>2, <2>3 DEF Facts
<1>4. \A f \in {<<"key", k>>} : Says(o, f, now)
  BY <1>2 DEF Says, SectionOf
<1> QED
  BY <1>1, <1>3, <1>4, EditKeeps

\* Edits of the tier.
LEMMA TierEdit ==
  ASSUME ConfigInv, NEW t \in TierSections, Edit(With("tier", t), {}, "in")
  PROVE  ConfigInv'
<1>1. overlay \in Overlays \union {Garbled}
  BY DEF ConfigInv, EditsKept, ConfigTypeOK
<1>2. PICK o : o = With("tier", t)
  OBVIOUS
<1>3. o \in Overlays /\ (overlay # Garbled => o.endpoints = overlay.endpoints /\ o.keys = overlay.keys)
  BY <1>1, <1>2, WithTyped
<1>4. \A f \in Facts : asked[f] # "unasked" => Says(o, f, asked[f])
  BY <1>3 DEF ConfigInv, AskedInOverlay, Says, SectionOf, Facts
<1> QED
  BY <1>2, <1>3, <1>4, EditKeeps

-----------------------------------------------------------------------------
(* Every step of the manager keeps ConfigInv *)

LEMMA EndpointsKept ==
  ASSUME ConfigInv, NEW n \in Names,
         AddEndpoint(n) \/ UpdateEndpoint(n) \/ RemoveEndpoint(n) \/ RemoveHalf(n)
  PROVE  ConfigInv'
<1>1. /\ overlay \in Overlays \union {Garbled} /\ current \in Configs
      /\ current.endpoints \in SUBSET Names /\ current.tier \in TierSections
  BY DEF ConfigInv, EditsKept, ConfigTypeOK, Configs
<1>2. CASE AddEndpoint(n)
  <2>1. PICK o : o = With("endpoints", current.endpoints \union {n})
    OBVIOUS
  <2>2. /\ o \in Overlays /\ o.endpoints = current.endpoints \union {n}
        /\ overlay # Garbled => o.keys = overlay.keys
    BY <1>1, <2>1, WithTyped
  <2>3. Edit(o, {<<"endpoint", n>>}, "in")
    BY <1>2, <2>1 DEF AddEndpoint
  <2> QED
    BY <1>1, <2>2, <2>3, EndpointEdit
<1>3. CASE UpdateEndpoint(n)
  <2>1. PICK o : o = With("endpoints", current.endpoints)
    OBVIOUS
  <2>2. /\ o \in Overlays /\ o.endpoints = current.endpoints
        /\ overlay # Garbled => o.keys = overlay.keys
    BY <1>1, <2>1, WithTyped
  <2>3. Edit(o, {}, "in")
    BY <1>3, <2>1 DEF UpdateEndpoint
  <2> QED
    BY <1>1, <2>2, <2>3, EndpointEdit
<1>4. CASE RemoveEndpoint(n)
  <2>1. PICK once : once = With("endpoints", current.endpoints \ {n})
    OBVIOUS
  <2>2. PICK tier : tier = [current.tier EXCEPT !.members = @ \ {n}]
    OBVIOUS
  <2>3. PICK o : o = IF tier = current.tier THEN once ELSE [once EXCEPT !["tier"] = tier]
    OBVIOUS
  <2>4. /\ once \in Overlays /\ once.endpoints = current.endpoints \ {n}
        /\ overlay # Garbled => once.keys = overlay.keys
    BY <1>1, <2>1, WithTyped
  <2>5. tier \in TierSections
    BY <1>1, <2>2 DEF TierSections
  <2>6. /\ o \in Overlays /\ o.endpoints = current.endpoints \ {n}
        /\ overlay # Garbled => o.keys = overlay.keys
    BY <2>3, <2>4, <2>5 DEF Overlays
  <2>7. Edit(o, {<<"endpoint", n>>}, "out")
    BY <1>4, <2>1, <2>2, <2>3 DEF RemoveEndpoint
  <2> QED
    BY <1>1, <2>6, <2>7, EndpointEdit
<1>5. CASE RemoveHalf(n)
  <2>1. PICK o : o = With("endpoints", current.endpoints \ {n})
    OBVIOUS
  <2>2. /\ o \in Overlays /\ o.endpoints = current.endpoints \ {n}
        /\ overlay # Garbled => o.keys = overlay.keys
    BY <1>1, <2>1, WithTyped
  <2>3. /\ overlay' = o /\ stale' = "yes"
        /\ asked' = [asked EXCEPT ![<<"endpoint", n>>] = "unasked"]
        /\ UNCHANGED <<base, up, current, version, applying, live, mixed>>
    BY <1>5, <2>1 DEF RemoveHalf
  <2>4. asked' \in [Facts -> {"unasked", "in", "out"}]
    BY <2>3 DEF ConfigInv, EditsKept, ConfigTypeOK
  <2>5. o # Garbled /\ o.endpoints # Absent
    BY <1>1, <2>2, ConfigurationAssumption
  <2>6. ConfigTypeOK'
    BY <2>2, <2>3, <2>4 DEF ConfigInv, EditsKept, ConfigTypeOK, Valid
  <2>7. EditsKept'
    BY <2>3, <2>6 DEF ConfigInv, EditsKept, ConfigTypeOK
  <2>8. AskedInOverlay'
    <3> SUFFICES ASSUME NEW f \in Facts, asked'[f] # "unasked" PROVE Says(o, f, asked'[f])
      BY <2>3, <2>5 DEF AskedInOverlay, Says
    <3>1. asked'[f] = asked[f] /\ asked[f] \in {"in", "out"} /\ f # <<"endpoint", n>>
      BY <2>3 DEF ConfigInv, EditsKept, ConfigTypeOK
    <3>2. overlay # Garbled /\ Says(overlay, f, asked[f])
      BY <3>1 DEF ConfigInv, AskedInOverlay
    <3>3. CASE f \in {"key"} \X Keys
      BY <2>2, <3>1, <3>2, <3>3 DEF Says, SectionOf
    <3>4. CASE f \in {"endpoint"} \X Names
      <4>1. f[1] # "key" /\ f[2] # n /\ (asked[f] = "in" <=> f[2] \in current.endpoints)
        BY <3>1, <3>4 DEF ConfigInv, EditsKept
      <4> QED
        BY <2>2, <2>5, <3>1, <4>1 DEF Says, SectionOf
    <3> QED
      BY <3>3, <3>4 DEF Facts
  <2>9. TenantsKept'
    BY <2>3 DEF ConfigInv, TenantsKept
  <2> QED
    BY <2>7, <2>8, <2>9 DEF ConfigInv
<1> QED
  BY <1>2, <1>3, <1>4, <1>5

LEMMA TiersKept ==
  ASSUME ConfigInv,
         \/ \E n \in Names : AssignEndpoint(n) \/ UnassignEndpoint(n)
         \/ \E t \in TierSections : UpdateTier(t)
  PROVE  ConfigInv'
<1>1. current.tier \in TierSections
  BY DEF ConfigInv, EditsKept, ConfigTypeOK, Configs
<1>2. CASE \E n \in Names : AssignEndpoint(n)
  <2>1. PICK n \in Names : AssignEndpoint(n)
    BY <1>2
  <2>2. PICK t : t = [current.tier EXCEPT !.members = @ \union {n}]
    OBVIOUS
  <2>3. t \in TierSections
    BY <1>1, <2>2 DEF TierSections
  <2> QED
    BY <2>1, <2>2, <2>3, TierEdit DEF AssignEndpoint
<1>3. CASE \E n \in Names : UnassignEndpoint(n)
  <2>1. PICK n \in Names : UnassignEndpoint(n)
    BY <1>3
  <2>2. PICK t : t = [current.tier EXCEPT !.members = @ \ {n}]
    OBVIOUS
  <2>3. t \in TierSections
    BY <1>1, <2>2 DEF TierSections
  <2> QED
    BY <2>1, <2>2, <2>3, TierEdit DEF UnassignEndpoint
<1> QED
  BY <1>2, <1>3, TierEdit DEF UpdateTier

LEMMA KeysKept ==
  ASSUME ConfigInv, NEW k \in Keys, GenerateKey(k) \/ RevokeKey(k)
  PROVE  ConfigInv'
<1>1. overlay \in Overlays \union {Garbled} /\ current.keys \in SUBSET Keys
  BY DEF ConfigInv, EditsKept, ConfigTypeOK, Configs
<1>2. CASE GenerateKey(k)
  <2>1. PICK o : o = With("keys", current.keys \union {k})
    OBVIOUS
  <2>2. /\ o \in Overlays /\ o.keys = current.keys \union {k}
        /\ overlay # Garbled => o.endpoints = overlay.endpoints
    BY <1>1, <2>1, WithTyped
  <2>3. Edit(o, {<<"key", k>>}, "in")
    BY <1>2, <2>1 DEF GenerateKey
  <2> QED
    BY <1>1, <2>2, <2>3, KeyEdit
<1>3. CASE RevokeKey(k)
  <2>1. PICK o : o = With("keys", current.keys \ {k})
    OBVIOUS
  <2>2. /\ o \in Overlays /\ o.keys = current.keys \ {k}
        /\ overlay # Garbled => o.endpoints = overlay.endpoints
    BY <1>1, <2>1, WithTyped
  <2>3. Edit(o, {<<"key", k>>}, "out")
    BY <1>3, <2>1 DEF RevokeKey
  <2> QED
    BY <1>1, <2>2, <2>3, KeyEdit
<1> QED
  BY <1>2, <1>3

LEMMA PollKept == ASSUME ConfigInv, Poll \/ ReloadNow PROVE ConfigInv'
<1>1. UNCHANGED <<base, overlay, up, live, asked>> /\ ReloadAndApply
  BY DEF Poll, ReloadNow
<1>2. base' \in Bases /\ overlay' \in Overlays \union {Garbled}
      /\ asked' \in [Facts -> {"unasked", "in", "out"}]
  BY <1>1 DEF ConfigInv, TenantsKept, EditsKept, ConfigTypeOK
<1>3. AskedInOverlay'
  BY <1>1 DEF ConfigInv, AskedInOverlay, Says
<1>4. \A f \in Facts : asked'[f] \in {"unasked", asked[f]}
  BY <1>1
<1> QED
  BY <1>1, <1>2, <1>3, <1>4, ReloadKeeps

\* Files written by hand: what was established stays as it was or is in doubt.
LEMMA FilesKept == ASSUME ConfigInv, ByHand \/ Repair PROVE ConfigInv'
<1>1. /\ base' \in Bases /\ stale' \in {"no", "yes", "missed"}
      /\ \/ overlay' = overlay /\ asked' = asked
         \/ /\ overlay' \in {Garbled, NoSections}
            /\ asked' = [f \in Facts |-> "unasked"]
      /\ UNCHANGED <<up, current, version, applying, live, mixed>>
  BY DEF ByHand, Repair, ConfigInv, EditsKept, ConfigTypeOK, TenantsKept
<1>2. base' \in Configs /\ overlay' \in Overlays \union {Garbled}
      /\ asked' \in [Facts -> {"unasked", "in", "out"}]
  BY <1>1, SettingsAssumption, NoSectionsTyped DEF ConfigInv, EditsKept, ConfigTypeOK
<1>3. ConfigTypeOK'
  BY <1>1, <1>2 DEF ConfigInv, EditsKept, ConfigTypeOK, Valid
<1>4. EditsKept'
  BY <1>1, <1>3 DEF ConfigInv, EditsKept
<1>5. AskedInOverlay' /\ TenantsKept'
  BY <1>1 DEF ConfigInv, AskedInOverlay, Says, TenantsKept
<1> QED
  BY <1>4, <1>5 DEF ConfigInv

\* The steps and the end of a propagation, and the end of the process.
LEMMA PropagationKept ==
  ASSUME ConfigInv, (\E a \in applying : StepPool(a) \/ StepRest(a) \/ Abort(a)) \/ Crash
  PROVE  ConfigInv'
<1>1. /\ UNCHANGED <<base, overlay, stale, current, version, asked>>
      /\ up' \in BOOLEAN /\ mixed' \in BOOLEAN
      /\ live' \in [Subsystems -> 1 .. version]
      /\ applying' \subseteq [version : 1 .. version, snapshot : Configs, at : Subsystems]
      /\ \A a \in applying' : a.snapshot.tenants \in Settings
  <2>1. applying \subseteq [version : 1 .. version, snapshot : Configs, at : Subsystems]
        /\ up \in BOOLEAN /\ mixed \in BOOLEAN /\ live \in [Subsystems -> 1 .. version]
    BY DEF ConfigInv, EditsKept, ConfigTypeOK
  <2>2. \A a \in applying : a.snapshot.tenants \in Settings
    BY DEF ConfigInv, TenantsKept
  <2>3. CASE \E a \in applying : StepPool(a)
    <3>1. PICK a \in applying : StepPool(a)
      BY <2>3
    <3>2. /\ [a EXCEPT !.at = "rest"]
               \in [version : 1 .. version, snapshot : Configs, at : Subsystems]
          /\ [a EXCEPT !.at = "rest"].snapshot = a.snapshot
      BY <2>1 DEF Subsystems
    <3>3. applying' = (applying \ {a}) \union {[a EXCEPT !.at = "rest"]}
          /\ live' = [live EXCEPT !["pool"] = a.version] /\ UNCHANGED <<unapplied, mixed>>
      BY <3>1 DEF StepPool
    <3>4. live' \in [Subsystems -> 1 .. version]
      BY <2>1, <3>3
    <3> QED
      BY <2>1, <2>2, <3>2, <3>3, <3>4 DEF unapplied
  <2>4. CASE \E a \in applying : StepRest(a)
    <3>1. PICK a \in applying : StepRest(a)
      BY <2>4
    <3>2. live' \in [Subsystems -> 1 .. version]
      BY <2>1, <3>1 DEF StepRest
    <3> QED
      BY <2>1, <2>2, <3>1, <3>2 DEF StepRest, unapplied
  <2>5. CASE (\E a \in applying : Abort(a)) \/ Crash
    BY <2>1, <2>2, <2>5 DEF Abort, Crash, unapplied
  <2> QED
    BY <2>3, <2>4, <2>5
<1>2. ConfigTypeOK'
  BY <1>1 DEF ConfigInv, EditsKept, ConfigTypeOK, Valid
<1>3. EditsKept'
  BY <1>1, <1>2 DEF ConfigInv, EditsKept
<1>4. AskedInOverlay' /\ TenantsKept'
  BY <1>1 DEF ConfigInv, AskedInOverlay, Says, TenantsKept
<1> QED
  BY <1>3, <1>4 DEF ConfigInv

LEMMA StartKept == ASSUME ConfigInv, Start PROVE ConfigInv'
<1>1. /\ up' = TRUE /\ current' = Files /\ Valid(Files) /\ version' = version + 1
      /\ live' = [s \in Subsystems |-> version + 1]
      /\ stale' = "no" /\ mixed' = FALSE
      /\ UNCHANGED <<base, overlay, applying, asked>>
  BY DEF Start
<1>2. /\ base \in Configs /\ overlay \in Overlays \union {Garbled} /\ base.tenants \in Settings
      /\ version \in Nat
      /\ applying \subseteq [version : 1 .. version, snapshot : Configs, at : Subsystems]
  BY SettingsAssumption DEF ConfigInv, EditsKept, ConfigTypeOK, TenantsKept
<1>3. PICK c : c = Merged(base, overlay)
  OBVIOUS
<1>4. /\ current' = c /\ Valid(c) /\ c \in Configs /\ c.tenants \in Settings
      /\ overlay # Garbled => /\ overlay.endpoints # Absent => c.endpoints = overlay.endpoints
                              /\ overlay.keys # Absent => c.keys = overlay.keys
  BY <1>1, <1>2, <1>3, MergedTyped DEF Files
<1>5. live' \in [Subsystems -> 1 .. version'] /\ version' \in Nat
  BY <1>1, <1>2
<1>6. applying' \subseteq [version : 1 .. version', snapshot : Configs, at : Subsystems]
  <2>1. 1 .. version \subseteq 1 .. version'
    BY <1>1, <1>2
  <2> QED
    BY <1>1, <1>2, <2>1
<1>7. ConfigTypeOK'
  BY <1>1, <1>4, <1>5, <1>6 DEF ConfigInv, EditsKept, ConfigTypeOK
<1>8. EditsKept'
  BY <1>1, <1>4, <1>7 DEF ConfigInv, EditsKept, AskedInOverlay, Says, SectionOf
<1>9. AskedInOverlay' /\ TenantsKept'
  BY <1>1, <1>4 DEF ConfigInv, AskedInOverlay, Says, TenantsKept
<1> QED
  BY <1>8, <1>9 DEF ConfigInv

LEMMA ConfigStutters == ASSUME ConfigInv, UNCHANGED configVars PROVE ConfigInv'
BY DEF configVars, ConfigInv, EditsKept, ConfigTypeOK, Valid, AskedInOverlay, Says, TenantsKept

-----------------------------------------------------------------------------
(* The semaphores *)

\* A generation whose semaphore somebody can still reach.
InUse(g) == g = cached \/ Holders(g) # {} \/ queue[g] # <<>>

Balanced ==
  \A g \in Gens : InUse(g) =>
    /\ free[g] + Cardinality(Holders(g)) = made[g].limit
    /\ queue[g] # <<>> => free[g] = 0

SlotsInv == TenantsTypeOK /\ WaitOnce /\ Balanced

LEMMA HoldersFinite ==
  ASSUME NEW g PROVE IsFiniteSet(Holders(g)) /\ Cardinality(Holders(g)) \in Nat
<1>1. Holders(g) \in SUBSET Requests
  BY DEF Holders
<1> QED
  BY <1>1, FS_Subset, FS_CardinalityType, TenantsAssumption

LEMMA GensCounted ==
  /\ IsFiniteSet(Gens) /\ Cardinality(Gens) = Cardinality(Requests) + 1
  /\ Gens \subseteq Nat /\ None \notin Gens
<1>1. Cardinality(Requests) \in Nat
  BY FS_CardinalityType, TenantsAssumption
<1>2. PICK n \in Nat : n = Cardinality(Requests) + 1
  BY <1>1
<1>3. IsFiniteSet(1 .. n) /\ Cardinality(1 .. n) = IF 1 > n THEN 0 ELSE n - 1 + 1
  BY FS_Interval
<1>4. Gens = 1 .. n /\ n > 0
  BY <1>1, <1>2 DEF Gens
<1>5. IsFiniteSet(Gens) /\ Cardinality(Gens) = Cardinality(Requests) + 1
  BY <1>2, <1>3, <1>4
<1> QED
  BY <1>4, <1>5, TenantsAssumption

\* When no state is cached, some generation is not in use: every other one is
\* that of a request of its own.
LEMMA FreshExists ==
  ASSUME TenantsTypeOK, WaitOnce, cached = None
  PROVE  Fresh \in Gens /\ Holders(Fresh) = {} /\ queue[Fresh] = <<>>
<1>1. ASSUME \A g \in Gens : Holders(g) # {} \/ queue[g] # <<>> PROVE FALSE
  <2> DEFINE Of(g, r) == held[r] = g \/ (1 \in DOMAIN queue[g] /\ queue[g][1] = r)
             f == [g \in Gens |-> CHOOSE r \in Requests : Of(g, r)]
  <2>1. ASSUME NEW g \in Gens PROVE \E r \in Requests : Of(g, r)
    <3>1. CASE Holders(g) # {}
      BY <3>1 DEF Holders
    <3>2. CASE queue[g] # <<>>
      <4>1. queue[g] \in Seq(Requests)
        BY DEF TenantsTypeOK
      <4>2. 1 \in DOMAIN queue[g] /\ queue[g][1] \in Requests
        BY <3>2, <4>1
      <4> QED
        BY <4>2
    <3> QED
      BY <1>1, <3>1, <3>2
  <2>2. \A g \in Gens : f[g] \in Requests /\ Of(g, f[g])
    BY <2>1
  <2>3. f \in [Gens -> Requests]
    BY <2>1
  <2> HIDE DEF f
  <2>4. Cardinality(Requests) < Cardinality(Gens) /\ IsFiniteSet(Gens)
    BY GensCounted, FS_CardinalityType, TenantsAssumption
  <2>5. PICK x \in Gens, y \in Gens : x # y /\ f[x] = f[y]
    BY <2>3, <2>4, FS_PigeonHole, TenantsAssumption
  <2>6. Of(x, f[x]) /\ Of(y, f[x])
    BY <2>2, <2>5
  <2> QED
    BY <2>5, <2>6, GensCounted DEF WaitOnce
<1>2. \E g \in Gens : g # cached /\ Holders(g) = {} /\ queue[g] = <<>>
  BY <1>1, GensCounted
<1> QED
  BY <1>2 DEF Fresh

LEMMA StoreKeeps ==
  ASSUME SlotsInv, cached = None, NEW limit \in Limits \union {ColumnLimit},
         NEW quota \in Quotas \union {0}, Store(limit, quota)
  PROVE  /\ cached' \in Gens /\ made'[cached'] = [limit |-> limit, quota |-> quota]
         /\ made' \in [Gens -> [limit : Limits \union {ColumnLimit, 0}, quota : Quotas \union {0}]]
         /\ free' \in [Gens -> Nat] /\ redefined' = FALSE /\ UNCHANGED <<queue, held>>
         /\ Balanced'
<1> USE DEF SlotsInv
<1>1. PICK n : n = Fresh
  OBVIOUS
<1>2. n \in Gens /\ Holders(n) = {} /\ queue[n] = <<>>
  BY <1>1, FreshExists
<1>3. /\ cached' = n /\ made' = [made EXCEPT ![n] = [limit |-> limit, quota |-> quota]]
      /\ free' = [free EXCEPT ![n] = limit] /\ redefined' = FALSE /\ UNCHANGED <<queue, held>>
  BY <1>1 DEF Store
<1>4. limit \in Nat
  BY TenantsAssumption
<1>5. made'[cached'] = [limit |-> limit, quota |-> quota]
      /\ made' \in [Gens -> [limit : Limits \union {ColumnLimit, 0}, quota : Quotas \union {0}]]
      /\ free' \in [Gens -> Nat]
  BY <1>2, <1>3, <1>4 DEF TenantsTypeOK
<1>6. Balanced'
  <2> SUFFICES ASSUME NEW g \in Gens, InUse(g)'
               PROVE  /\ free'[g] + Cardinality(Holders(g)') = made'[g].limit
                      /\ queue'[g] # <<>> => free'[g] = 0
    BY DEF Balanced
  <2>1. Holders(g)' = Holders(g)
    BY <1>3 DEF Holders
  <2>2. CASE g = n
    <3>1. Cardinality(Holders(g)') = 0
      BY <1>2, <2>1, <2>2, FS_EmptySet
    <3>2. free'[g] = limit /\ made'[g].limit = limit /\ queue'[g] = <<>>
      BY <1>2, <1>3, <2>2 DEF TenantsTypeOK
    <3> QED
      BY <1>4, <3>1, <3>2
  <2>3. CASE g # n
    <3>1. free'[g] = free[g] /\ made'[g] = made[g] /\ queue'[g] = queue[g]
      BY <1>3, <2>3 DEF TenantsTypeOK
    <3>2. InUse(g)
      BY <1>3, <2>1, <2>3, <3>1 DEF InUse
    <3> QED
      BY <2>1, <3>1, <3>2 DEF Balanced
  <2> QED
    BY <2>2, <2>3
<1> QED
  BY <1>2, <1>3, <1>5, <1>6

\* A request takes a free permit of the cached state or waits for one.
LEMMA EnterKeeps ==
  ASSUME SlotsInv, NEW r \in Requests, Enter(r)
  PROVE  /\ free' \in [Gens -> Nat] /\ queue' \in [Gens -> Seq(Requests)]
         /\ held' \in [Requests -> Gens \union {None}]
         /\ WaitOnce' /\ Balanced'
<1> USE DEF SlotsInv
<1>1. PICK c : c = cached
  OBVIOUS
<1>2. /\ held[r] = None /\ ~Queued(r) /\ c \in Gens /\ UNCHANGED <<cached, made>>
  BY <1>1 DEF Enter, TenantsTypeOK
<1>3. /\ free \in [Gens -> Nat] /\ queue \in [Gens -> Seq(Requests)]
      /\ held \in [Requests -> Gens \union {None}]
      /\ made \in [Gens -> [limit : Limits \union {ColumnLimit, 0}, quota : Quotas \union {0}]]
  BY DEF TenantsTypeOK
<1>4. c # None
  BY <1>2, GensCounted
<1>5. CASE free[c] > 0
  <2>1. /\ free' = [free EXCEPT ![c] = @ - 1] /\ held' = [held EXCEPT ![r] = c]
        /\ queue' = queue
    BY <1>1, <1>5 DEF Enter
  <2>2. free' \in [Gens -> Nat] /\ held' \in [Requests -> Gens \union {None}]
    BY <1>2, <1>3, <1>5, <2>1
  <2>3. WaitOnce'
    <3>1. \A g \in Gens : \A i \in DOMAIN queue[g] : queue[g][i] # r
      BY <1>2 DEF Queued
    <3> QED
      BY <1>3, <2>1, <3>1 DEF WaitOnce
  <2>4. Balanced'
    <3> SUFFICES ASSUME NEW g \in Gens, InUse(g)'
                 PROVE  /\ free'[g] + Cardinality(Holders(g)') = made'[g].limit
                        /\ queue'[g] # <<>> => free'[g] = 0
      BY DEF Balanced
    <3>1. CASE g = c
      <4>1. Holders(c)' = Holders(c) \union {r} /\ r \notin Holders(c)
        BY <1>2, <1>3, <1>4, <2>1 DEF Holders
      <4>2. Cardinality(Holders(c)') = Cardinality(Holders(c)) + 1
        BY <4>1, HoldersFinite, FS_AddElement
      <4>3. /\ free[c] + Cardinality(Holders(c)) = made[c].limit
            /\ queue[c] = <<>>
        BY <1>1, <1>2, <1>5 DEF Balanced, InUse
      <4>4. free'[c] = free[c] - 1 /\ free[c] \in Nat
        BY <1>2, <1>3, <2>1
      <4> QED
        BY <1>2, <2>1, <3>1, <4>2, <4>3, <4>4, HoldersFinite
    <3>2. CASE g # c
      <4>1. Holders(g)' = Holders(g)
        BY <1>2, <1>3, <2>1, <3>2, GensCounted DEF Holders
      <4>2. free'[g] = free[g] /\ InUse(g)
        BY <1>1, <1>2, <1>3, <2>1, <3>2, <4>1 DEF InUse
      <4> QED
        BY <1>2, <2>1, <4>1, <4>2 DEF Balanced
    <3> QED
      BY <3>1, <3>2
  <2> QED
    BY <1>3, <2>1, <2>2, <2>3, <2>4
<1>6. CASE ~(free[c] > 0)
  <2>1. /\ queue' = [queue EXCEPT ![c] = Append(@, r)] /\ UNCHANGED <<free, held>>
    BY <1>1, <1>6 DEF Enter
  <2>2. queue' \in [Gens -> Seq(Requests)]
    BY <1>2, <1>3, <2>1
  <2>3. ASSUME NEW g \in Gens, NEW i \in DOMAIN queue'[g]
        PROVE  \/ i \in DOMAIN queue[g] /\ queue'[g][i] = queue[g][i] /\ queue[g][i] # r
               \/ g = c /\ i = Len(queue[c]) + 1 /\ queue'[g][i] = r
    <3>1. CASE g = c
      <4>1. queue[c] \in Seq(Requests) /\ queue'[c] = Append(queue[c], r)
        BY <1>2, <1>3, <2>1
      <4>2. i \in 1 .. Len(queue[c]) + 1
        BY <2>3, <3>1, <4>1
      <4>3. \A j \in DOMAIN queue[c] : queue[c][j] # r
        BY <1>2 DEF Queued
      <4> QED
        BY <3>1, <4>1, <4>2, <4>3
    <3>2. CASE g # c
      BY <1>2, <1>3, <2>1, <2>3, <3>2 DEF Queued
    <3> QED
      BY <3>1, <3>2
  <2>4. WaitOnce'
    <3>1. \A g, h \in Gens : \A i \in DOMAIN queue'[g], j \in DOMAIN queue'[h] :
            queue'[g][i] = queue'[h][j] => g = h /\ i = j
      BY <2>3 DEF WaitOnce
    <3>2. \A g \in Gens : \A i \in DOMAIN queue'[g] : held'[queue'[g][i]] = None
      BY <1>2, <2>1, <2>3 DEF WaitOnce
    <3> QED
      BY <3>1, <3>2 DEF WaitOnce
  <2>5. Balanced'
    <3> SUFFICES ASSUME NEW g \in Gens, InUse(g)'
                 PROVE  /\ free'[g] + Cardinality(Holders(g)') = made'[g].limit
                        /\ queue'[g] # <<>> => free'[g] = 0
      BY DEF Balanced
    <3>1. Holders(g)' = Holders(g) /\ free'[g] = free[g]
      BY <2>1 DEF Holders
    <3>2. CASE g = c
      <4>1. free[c] = 0
        BY <1>2, <1>3, <1>6
      <4> QED
        BY <1>1, <1>2, <3>1, <3>2, <4>1 DEF Balanced, InUse
    <3>3. CASE g # c
      <4>1. queue'[g] = queue[g] /\ InUse(g)
        BY <1>1, <1>2, <1>3, <2>1, <3>1, <3>3 DEF InUse
      <4> QED
        BY <1>2, <3>1, <4>1 DEF Balanced
    <3> QED
      BY <3>2, <3>3
  <2> QED
    BY <1>3, <2>1, <2>2, <2>4, <2>5
<1> QED
  BY <1>5, <1>6

\* A permit goes back to its semaphore, or to the first that waits for it.
LEMMA LeaveKeeps ==
  ASSUME SlotsInv, NEW r \in Requests, Leave(r)
  PROVE  /\ free' \in [Gens -> Nat] /\ queue' \in [Gens -> Seq(Requests)]
         /\ held' \in [Requests -> Gens \union {None}]
         /\ WaitOnce' /\ Balanced'
<1> USE DEF SlotsInv
<1>1. PICK c : c = held[r]
  OBVIOUS
<1>2. /\ free \in [Gens -> Nat] /\ queue \in [Gens -> Seq(Requests)]
      /\ held \in [Requests -> Gens \union {None}]
      /\ made \in [Gens -> [limit : Limits \union {ColumnLimit, 0}, quota : Quotas \union {0}]]
  BY DEF TenantsTypeOK
<1>3. c \in Gens /\ c # None /\ UNCHANGED <<cached, made>>
  BY <1>1, <1>2 DEF Leave
<1>4. InUse(c) /\ r \in Holders(c)
  BY <1>1 DEF InUse, Holders
<1>5. /\ free[c] + Cardinality(Holders(c)) = made[c].limit
      /\ queue[c] # <<>> => free[c] = 0
  BY <1>3, <1>4 DEF Balanced
<1>6. CASE queue[c] = <<>>
  <2>1. /\ free' = [free EXCEPT ![c] = @ + 1] /\ held' = [held EXCEPT ![r] = None]
        /\ queue' = queue
    BY <1>1, <1>6 DEF Leave
  <2>2. free' \in [Gens -> Nat] /\ held' \in [Requests -> Gens \union {None}]
    BY <1>2, <1>3, <2>1
  <2>3. WaitOnce'
    BY <1>2, <2>1 DEF WaitOnce
  <2>4. Balanced'
    <3> SUFFICES ASSUME NEW g \in Gens, InUse(g)'
                 PROVE  /\ free'[g] + Cardinality(Holders(g)') = made'[g].limit
                        /\ queue'[g] # <<>> => free'[g] = 0
      BY DEF Balanced
    <3>1. CASE g = c
      <4>1. Holders(c)' = Holders(c) \ {r}
        BY <1>2, <1>3, <2>1 DEF Holders
      <4>2. Cardinality(Holders(c)') = Cardinality(Holders(c)) - 1
        BY <1>4, <4>1, HoldersFinite, FS_RemoveElement
      <4>3. free'[c] = free[c] + 1 /\ free[c] \in Nat
        BY <1>2, <1>3, <2>1
      <4> QED
        BY <1>3, <1>5, <1>6, <2>1, <3>1, <4>2, <4>3, HoldersFinite
    <3>2. CASE g # c
      <4>1. Holders(g)' = Holders(g)
        BY <1>1, <1>2, <1>3, <2>1, <3>2, GensCounted DEF Holders
      <4>2. free'[g] = free[g] /\ InUse(g)
        BY <1>2, <1>3, <2>1, <3>2, <4>1 DEF InUse
      <4> QED
        BY <1>3, <2>1, <4>1, <4>2 DEF Balanced
    <3> QED
      BY <3>1, <3>2
  <2> QED
    BY <1>2, <2>1, <2>2, <2>3, <2>4
<1>7. CASE queue[c] # <<>>
  <2>1. PICK h : h = Head(queue[c])
    OBVIOUS
  <2>2. /\ held' = [held EXCEPT ![r] = None, ![h] = c]
        /\ queue' = [queue EXCEPT ![c] = Tail(@)] /\ free' = free
    BY <1>1, <1>7, <2>1 DEF Leave
  <2>3. queue[c] \in Seq(Requests) /\ 1 \in DOMAIN queue[c] /\ h = queue[c][1] /\ h \in Requests
    BY <1>2, <1>3, <1>7, <2>1
  <2>4. held[h] = None /\ h # r
    BY <1>1, <1>3, <2>3 DEF WaitOnce
  <2>5. queue' \in [Gens -> Seq(Requests)] /\ held' \in [Requests -> Gens \union {None}]
    <3>1. Tail(queue[c]) \in Seq(Requests)
      BY <1>7, <2>3
    <3>2. queue' \in [Gens -> Seq(Requests)]
      BY <1>2, <2>2, <3>1
    <3>3. [held EXCEPT ![r] = None] \in [Requests -> Gens \union {None}]
      BY <1>2
    <3> QED
      BY <1>3, <2>2, <2>3, <3>2, <3>3
  <2>6. \A x \in Requests : held'[x] = IF x = r THEN None ELSE IF x = h THEN c ELSE held[x]
    BY <1>2, <2>2, <2>3, <2>4
  <2>7. ASSUME NEW g \in Gens, NEW i \in DOMAIN queue'[g]
        PROVE  \/ g # c /\ i \in DOMAIN queue[g] /\ queue'[g][i] = queue[g][i]
               \/ g = c /\ i \in Nat /\ i + 1 \in DOMAIN queue[g]
                        /\ queue'[g][i] = queue[g][i + 1] /\ i + 1 # 1
    <3>1. CASE g = c
      <4>1. queue'[c] = Tail(queue[c])
        BY <1>2, <1>3, <2>2
      <4>2. i \in 1 .. Len(queue[c]) - 1 /\ Len(queue[c]) \in Nat
        BY <1>7, <2>3, <2>7, <3>1, <4>1
      <4> QED
        BY <1>7, <2>3, <3>1, <4>1, <4>2
    <3>2. CASE g # c
      BY <1>2, <1>3, <2>2, <2>7, <3>2
    <3> QED
      BY <3>1, <3>2
  <2>8. WaitOnce'
    <3>1. \A g, k \in Gens : \A i \in DOMAIN queue'[g], j \in DOMAIN queue'[k] :
            queue'[g][i] = queue'[k][j] => g = k /\ i = j
      <4> SUFFICES ASSUME NEW g \in Gens, NEW k \in Gens, NEW i \in DOMAIN queue'[g],
                          NEW j \in DOMAIN queue'[k], queue'[g][i] = queue'[k][j]
                   PROVE  g = k /\ i = j
        OBVIOUS
      <4> QED
        BY <2>7 DEF WaitOnce
    <3>2. ASSUME NEW g \in Gens, NEW i \in DOMAIN queue'[g] PROVE held'[queue'[g][i]] = None
      <4>1. PICK k \in Gens : \E j \in DOMAIN queue[k] :
              queue'[g][i] = queue[k][j] /\ (k # c \/ j # 1)
        BY <2>7
      <4>2. PICK j \in DOMAIN queue[k] : queue'[g][i] = queue[k][j] /\ (k # c \/ j # 1)
        BY <4>1
      <4>3. queue[k][j] \in Requests /\ queue[k][j] # h /\ held[queue[k][j]] = None
        BY <1>2, <1>3, <2>3, <4>2 DEF WaitOnce
      <4> QED
        BY <2>6, <4>2, <4>3
    <3> QED
      BY <3>1, <3>2 DEF WaitOnce
  <2>9. Balanced'
    <3> SUFFICES ASSUME NEW g \in Gens, InUse(g)'
                 PROVE  /\ free'[g] + Cardinality(Holders(g)') = made'[g].limit
                        /\ queue'[g] # <<>> => free'[g] = 0
      BY DEF Balanced
    <3>1. CASE g = c
      <4>1. /\ Holders(c)' = (Holders(c) \ {r}) \union {h}
            /\ h \notin Holders(c) \ {r}
        BY <1>3, <2>3, <2>4, <2>6 DEF Holders
      <4>2. /\ IsFiniteSet(Holders(c) \ {r})
            /\ Cardinality(Holders(c) \ {r}) = Cardinality(Holders(c)) - 1
        BY <1>4, HoldersFinite, FS_RemoveElement
      <4>3. Cardinality(Holders(c)') = Cardinality(Holders(c)) - 1 + 1
        BY <4>1, <4>2, FS_AddElement
      <4> QED
        BY <1>3, <1>5, <1>7, <2>2, <3>1, <4>3, HoldersFinite
    <3>2. CASE g # c
      <4>1. Holders(g)' = Holders(g)
        BY <1>1, <2>4, <2>6, <3>2, GensCounted DEF Holders
      <4>2. queue'[g] = queue[g] /\ InUse(g)
        BY <1>2, <1>3, <2>2, <3>2, <4>1 DEF InUse
      <4> QED
        BY <1>3, <2>2, <4>1, <4>2 DEF Balanced
    <3> QED
      BY <3>1, <3>2
  <2> QED
    BY <1>2, <2>2, <2>5, <2>8, <2>9
<1> QED
  BY <1>6, <1>7

-----------------------------------------------------------------------------
(* Every step of the tenants keeps TenantsInv *)

LEMMA SlotsAre == TenantsInv <=> SlotsInv /\ RowsServed /\ BuildCurrent /\ unrefreshed <= edits
BY DEF TenantsInv, SlotsInv, SlotsConserved, Balanced, InUse

LEMMA SlotsAreNext ==
  ASSUME SlotsInv', RowsServed', BuildCurrent', unrefreshed' <= edits'
  PROVE  TenantsInv'
BY DEF TenantsInv, SlotsInv, SlotsConserved, Balanced, InUse

\* A step that leaves requests and semaphores alone.
LEMMA Untouched ==
  ASSUME SlotsInv, TenantsTypeOK', UNCHANGED <<made, sems>>, cached' \in {cached, None}
  PROVE  SlotsInv'
<1>1. /\ UNCHANGED <<made, free, queue, held>>
      /\ \A g \in Gens : InUse(g)' => InUse(g)
  BY GensCounted DEF sems, InUse, Holders
<1> QED
  BY <1>1 DEF SlotsInv, WaitOnce, Balanced, Holders

LEMMA BuildKeeps ==
  ASSUME TenantsInv, BuildPreset \/ BuildRead \/ BuildStore
  PROVE  TenantsInv'
<1> USE DEF records, sems
<1>1. SlotsInv /\ RowsServed /\ BuildCurrent /\ unrefreshed <= edits
  BY SlotsAre
<1>2. TenantsTypeOK
  BY <1>1 DEF SlotsInv
<1>3. CASE BuildPreset \/ BuildStore
  <2>1. PICK limit, quota :
          /\ limit \in Limits \union {ColumnLimit} /\ quota \in Quotas \union {0}
          /\ Store(limit, quota) /\ cached = None /\ building' = None
          /\ UNCHANGED <<settings, records, unrefreshed>>
          /\ unrefreshed = 0 => IF settings.preset # None
                                  THEN limit = settings.preset /\ quota = 0
                                  ELSE limit = row /\ quota = IF bound THEN plan ELSE 0
    <3>1. CASE BuildPreset
      <4>1. settings.preset \in Limits
        BY <1>2, <3>1 DEF TenantsTypeOK, Settings, BuildPreset
      <4> QED
        BY <3>1, <4>1 DEF BuildPreset
    <3>2. CASE BuildStore
      <4>1. building \in Limits \union {ColumnLimit} /\ plan \in Quotas \union {0}
        BY <1>2, <3>2 DEF TenantsTypeOK, BuildStore
      <4>2. cached = None /\ settings.preset = None /\ (unrefreshed = 0 => building = row)
        BY <1>1, <3>2 DEF BuildStore, BuildCurrent
      <4>3. Store(building, IF bound THEN plan ELSE 0) /\ building' = None
            /\ UNCHANGED <<settings, records, unrefreshed>>
        BY <3>2 DEF BuildStore
      <4>4. (IF bound THEN plan ELSE 0) \in Quotas \union {0}
        BY <4>1
      <4> QED
        BY <4>1, <4>2, <4>3, <4>4
    <3> QED
      BY <1>3, <3>1, <3>2
  <2>2. /\ cached' \in Gens /\ made'[cached'] = [limit |-> limit, quota |-> quota]
        /\ made' \in [Gens -> [limit : Limits \union {ColumnLimit, 0}, quota : Quotas \union {0}]]
        /\ free' \in [Gens -> Nat] /\ redefined' = FALSE /\ UNCHANGED <<queue, held>>
        /\ Balanced'
    BY <1>1, <2>1, StoreKeeps
  <2>3. TenantsTypeOK'
    BY <1>2, <2>1, <2>2 DEF TenantsTypeOK
  <2>4. SlotsInv'
    BY <1>1, <2>2, <2>3 DEF SlotsInv, WaitOnce
  <2>5. RowsServed'
    BY <2>1, <2>2 DEF RowsServed
  <2>6. BuildCurrent' /\ unrefreshed' <= edits'
    BY <1>1, <2>1 DEF BuildCurrent
  <2> QED
    BY <2>4, <2>5, <2>6, SlotsAreNext
<1>4. CASE BuildRead
  <2>1. /\ cached = None /\ settings.preset = None /\ building' = row'
        /\ row' = IF row = None THEN settings.default ELSE row
        /\ UNCHANGED <<settings, bound, plan, edits, cached, made, sems, unrefreshed, redefined>>
    BY <1>4 DEF BuildRead
  <2>2. settings.default \in Limits
    BY <1>2 DEF TenantsTypeOK, Settings
  <2>3. TenantsTypeOK'
    BY <1>2, <2>1, <2>2 DEF TenantsTypeOK
  <2>4. SlotsInv'
    BY <1>1, <2>1, <2>3, Untouched
  <2>5. RowsServed' /\ BuildCurrent' /\ unrefreshed' <= edits'
    BY <1>1, <2>1 DEF RowsServed, BuildCurrent
  <2> QED
    BY <2>4, <2>5, SlotsAreNext
<1> QED
  BY <1>3, <1>4

\* The cached state is dropped by a refresh and by a reconfiguration.
LEMMA DropKeeps ==
  ASSUME TenantsInv, NEW s \in Settings, Refresh \/ Reconfigure(s)
  PROVE  TenantsInv'
<1> USE DEF records, sems
<1>1. SlotsInv /\ unrefreshed <= edits /\ TenantsTypeOK
  BY SlotsAre DEF SlotsInv
<1>2. /\ building = None /\ cached' = None /\ settings' \in Settings
      /\ UNCHANGED <<records, building, made, sems, redefined>>
      /\ unrefreshed' \in 0 .. MaxEdits /\ unrefreshed' <= edits
  BY <1>1, TenantsAssumption DEF TenantsTypeOK, Refresh, Reconfigure
<1>3. TenantsTypeOK'
  BY <1>1, <1>2 DEF TenantsTypeOK
<1>4. SlotsInv'
  BY <1>1, <1>2, <1>3, Untouched
<1>5. RowsServed' /\ BuildCurrent' /\ unrefreshed' <= edits'
  BY <1>2 DEF RowsServed, BuildCurrent
<1> QED
  BY <1>4, <1>5, SlotsAreNext

\* The row changes under a build: the edit is to be refreshed.
LEMMA AdministratorsKeep ==
  ASSUME TenantsInv,
         \/ \E l \in Limits : EditLimits(l)
         \/ AssignPlan \/ UnassignPlan
         \/ \E q \in Quotas : UpdatePlan(q)
  PROVE  TenantsInv'
<1> USE DEF records, sems
<1>1. SlotsInv /\ RowsServed /\ BuildCurrent /\ unrefreshed <= edits /\ TenantsTypeOK
  BY SlotsAre DEF SlotsInv
<1>2. /\ unrefreshed \in Nat /\ edits \in Nat /\ edits <= MaxEdits /\ MaxEdits \in Nat
      /\ bound \in BOOLEAN
  BY <1>1, TenantsAssumption DEF TenantsTypeOK
<1>3. CASE (\E l \in Limits : EditLimits(l)) \/ AssignPlan \/ UnassignPlan
  <2>1. /\ edits < MaxEdits /\ edits' = edits + 1 /\ unrefreshed' = unrefreshed + 1
        /\ row' \in Limits \union {ColumnLimit, None} /\ bound' \in BOOLEAN
        /\ UNCHANGED <<settings, plan, building, cached, made, sems, redefined>>
    BY <1>1, <1>2, <1>3
       DEF TenantsTypeOK, EditLimits, AssignPlan, UnassignPlan, TouchRow
  <2>2. TenantsTypeOK'
    BY <1>1, <1>2, <2>1 DEF TenantsTypeOK
  <2>3. SlotsInv'
    BY <1>1, <2>1, <2>2, Untouched
  <2>4. unrefreshed' # 0 /\ unrefreshed' <= edits'
    BY <1>1, <1>2, <2>1
  <2>5. RowsServed' /\ BuildCurrent'
    BY <1>1, <2>1, <2>4 DEF RowsServed, BuildCurrent
  <2> QED
    BY <2>3, <2>4, <2>5, SlotsAreNext
<1>4. CASE \E q \in Quotas : UpdatePlan(q)
  <2>1. /\ edits < MaxEdits /\ edits' = edits + 1 /\ redefined' = TRUE
        /\ plan' \in Quotas
        /\ UNCHANGED <<settings, row, bound, building, cached, made, sems, unrefreshed>>
    BY <1>4 DEF UpdatePlan
  <2>2. TenantsTypeOK'
    BY <1>1, <1>2, <2>1 DEF TenantsTypeOK
  <2>3. SlotsInv'
    BY <1>1, <2>1, <2>2, Untouched
  <2>4. unrefreshed' <= edits'
    BY <1>1, <1>2, <2>1
  <2>5. RowsServed' /\ BuildCurrent'
    BY <1>1, <2>1 DEF RowsServed, BuildCurrent
  <2> QED
    BY <2>3, <2>4, <2>5, SlotsAreNext
<1> QED
  BY <1>3, <1>4

LEMMA RequestsKeep ==
  ASSUME TenantsInv, NEW r \in Requests, Enter(r) \/ Leave(r)
  PROVE  TenantsInv'
<1> USE DEF records
<1>1. SlotsInv /\ RowsServed /\ BuildCurrent /\ unrefreshed <= edits /\ TenantsTypeOK
  BY SlotsAre DEF SlotsInv
<1>2. UNCHANGED <<settings, row, bound, plan, edits, building, cached, made, unrefreshed,
                  redefined>>
  BY DEF Enter, Leave
<1>3. /\ free' \in [Gens -> Nat] /\ queue' \in [Gens -> Seq(Requests)]
      /\ held' \in [Requests -> Gens \union {None}]
      /\ WaitOnce' /\ Balanced'
  BY <1>1, EnterKeeps, LeaveKeeps
<1>4. TenantsTypeOK'
  BY <1>1, <1>2, <1>3 DEF TenantsTypeOK
<1>5. RowsServed' /\ BuildCurrent' /\ unrefreshed' <= edits'
  BY <1>1, <1>2 DEF RowsServed, BuildCurrent
<1> QED
  BY <1>3, <1>4, <1>5, SlotsAreNext DEF SlotsInv

LEMMA ForgetKeeps ==
  ASSUME TenantsInv, Forget
  PROVE  TenantsInv' /\ building' = None /\ cached' = None
<1> USE DEF records
<1>1. TenantsTypeOK
  BY SlotsAre DEF SlotsInv
<1>2. /\ building' = None /\ cached' = None /\ unrefreshed' = 0 /\ redefined' = FALSE
      /\ queue' = [g \in Gens |-> <<>>] /\ held' = [r \in Requests |-> None]
      /\ UNCHANGED <<settings, row, bound, plan, edits, made, free>>
  BY DEF Forget
<1>3. TenantsTypeOK'
  <2>1. <<>> \in Seq(Requests)
    OBVIOUS
  <2>2. queue' \in [Gens -> Seq(Requests)] /\ held' \in [Requests -> Gens \union {None}]
    BY <1>2, <2>1
  <2>3. unrefreshed' \in 0 .. MaxEdits
    BY <1>2, TenantsAssumption
  <2> QED
    BY <1>1, <1>2, <2>2, <2>3 DEF TenantsTypeOK
<1>4. WaitOnce'
  BY <1>2 DEF WaitOnce
<1>5. Balanced'
  <2>1. ASSUME NEW g \in Gens PROVE ~InUse(g)'
    BY <1>2, GensCounted DEF InUse, Holders
  <2> QED
    BY <2>1 DEF Balanced
<1>6. RowsServed' /\ BuildCurrent' /\ unrefreshed' <= edits'
  BY <1>1, <1>2 DEF RowsServed, BuildCurrent, TenantsTypeOK
<1> QED
  BY <1>2, <1>3, <1>4, <1>5, <1>6, SlotsAreNext DEF SlotsInv

LEMMA ServeKeeps == ASSUME TenantsInv, TenantsNext PROVE TenantsInv'
<1>1. settings \in Settings
  BY SlotsAre DEF SlotsInv, TenantsTypeOK
<1> QED
  BY <1>1, BuildKeeps, DropKeeps, AdministratorsKeep, RequestsKeep DEF TenantsNext

LEMMA TenantsStutter == ASSUME TenantsInv, UNCHANGED tenantVars PROVE TenantsInv'
<1>1. SlotsInv /\ RowsServed /\ BuildCurrent /\ unrefreshed <= edits
  BY SlotsAre
<1>2. /\ UNCHANGED <<settings, row, bound, plan, building, cached, made>>
      /\ UNCHANGED <<free, queue, held, edits, unrefreshed, redefined>>
  BY DEF tenantVars
<1>3. TenantsTypeOK'
  BY <1>1, <1>2 DEF SlotsInv, TenantsTypeOK
<1>4. SlotsInv'
  BY <1>1, <1>2, <1>3, Untouched DEF sems
<1>5. RowsServed' /\ BuildCurrent' /\ unrefreshed' <= edits'
  BY <1>1, <1>2 DEF RowsServed, BuildCurrent
<1> QED
  BY <1>4, <1>5, SlotsAreNext

-----------------------------------------------------------------------------
(* The running gateway *)

LEMMA InitLive == Init => LiveInv
<1> SUFFICES ASSUME Init PROVE LiveInv
  OBVIOUS
<1>1. /\ base \in Bases /\ Valid(base) /\ overlay = NoSections /\ stale = "no"
      /\ up = TRUE /\ current = base /\ version = 1
      /\ applying = {} /\ live = [s \in Subsystems |-> 1] /\ mixed = FALSE
      /\ asked = [f \in Facts |-> "unasked"]
  BY DEF Init, ConfigInit
<1>2. base \in Configs /\ base.tenants \in Settings
  BY <1>1, SettingsAssumption
<1>3. ConfigTypeOK
  <2>1. live \in [Subsystems -> 1 .. version] /\ version \in Nat
    BY <1>1
  <2> QED
    BY <1>1, <1>2, <2>1, NoSectionsTyped DEF ConfigTypeOK
<1>4. EditsKept
  BY <1>1, <1>3 DEF EditsKept
<1>5. ConfigInv
  BY <1>1, <1>2, <1>4 DEF ConfigInv, AskedInOverlay, TenantsKept
<1>6. TenantsInit(base.tenants)
  BY DEF Init
<1>7. TenantsTypeOK
  <2>1. <<>> \in Seq(Requests)
    OBVIOUS
  <2>2. /\ queue \in [Gens -> Seq(Requests)] /\ held \in [Requests -> Gens \union {None}]
        /\ free \in [Gens -> Nat]
        /\ made \in [Gens -> [limit : Limits \union {ColumnLimit, 0}, quota : Quotas \union {0}]]
    BY <1>6, <2>1 DEF TenantsInit
  <2>3. edits \in 0 .. MaxEdits /\ unrefreshed \in 0 .. MaxEdits
    BY <1>6, TenantsAssumption DEF TenantsInit
  <2> QED
    BY <1>2, <1>6, <2>2, <2>3 DEF TenantsInit, TenantsTypeOK
<1>8. WaitOnce
  BY <1>6 DEF TenantsInit, WaitOnce
<1>9. Balanced
  <2>1. ASSUME NEW g \in Gens PROVE ~InUse(g)
    BY <1>6, GensCounted DEF TenantsInit, InUse, Holders
  <2> QED
    BY <2>1 DEF Balanced
<1>10. RowsServed /\ BuildCurrent /\ unrefreshed <= edits
  BY <1>6 DEF TenantsInit, RowsServed, BuildCurrent
<1>11. TenantsInv
  BY <1>7, <1>8, <1>9, <1>10, SlotsAre DEF SlotsInv
<1> QED
  BY <1>1, <1>5, <1>11 DEF LiveInv

LEMMA NextLive == LiveInv /\ [Next]_vars => LiveInv'
<1> SUFFICES ASSUME LiveInv, [Next]_vars PROVE LiveInv'
  OBVIOUS
<1>1. ConfigInv /\ TenantsInv /\ (~up => building = None /\ cached = None)
  BY DEF LiveInv
<1>2. CASE Manage
  <2>1. ConfigInv'
    BY <1>1, <1>2, EndpointsKept, TiersKept, KeysKept, PollKept, FilesKept
       DEF Manage, Administer
  <2>2. up' = up /\ UNCHANGED tenantVars
    BY <1>2 DEF Manage, Administer, AddEndpoint, UpdateEndpoint, RemoveEndpoint, RemoveHalf,
                AssignEndpoint, UnassignEndpoint, UpdateTier, GenerateKey, RevokeKey, Edit,
                Poll, ReloadNow, ByHand, Repair
  <2>3. TenantsInv'
    BY <1>1, <2>2, TenantsStutter
  <2> QED
    BY <1>1, <2>1, <2>2, <2>3 DEF LiveInv, tenantVars
<1>3. CASE \E a \in applying : Advance(a) \/ Fail(a)
  <2>1. ConfigInv' /\ UNCHANGED tenantVars /\ up' = up
    BY <1>1, <1>3, PropagationKept DEF Advance, Fail, StepPool, Abort, unapplied
  <2>2. TenantsInv'
    BY <1>1, <2>1, TenantsStutter
  <2> QED
    BY <1>1, <2>1, <2>2 DEF LiveInv, tenantVars
<1>4. CASE \E a \in applying : Reach(a)
  <2>1. PICK a \in applying : StepRest(a) /\ Reconfigure(a.snapshot.tenants)
    BY <1>4 DEF Reach
  <2>2. a.snapshot.tenants \in Settings
    BY <1>1, <2>1 DEF ConfigInv, TenantsKept
  <2>3. ConfigInv' /\ TenantsInv'
    BY <1>1, <2>1, <2>2, PropagationKept, DropKeeps
  <2>4. building' = None /\ cached' = None
    BY <2>1 DEF Reconfigure
  <2> QED
    BY <2>3, <2>4 DEF LiveInv
<1>5. CASE Serve
  <2>1. up /\ TenantsNext /\ UNCHANGED configVars
    BY <1>5 DEF Serve
  <2>2. ConfigInv' /\ TenantsInv' /\ up'
    BY <1>1, <2>1, ConfigStutters, ServeKeeps DEF configVars
  <2> QED
    BY <2>2 DEF LiveInv
<1>6. CASE Stop
  BY <1>1, <1>6, PropagationKept, ForgetKeeps DEF Stop, LiveInv
<1>7. CASE Begin
  <2>1. /\ Start /\ settings' = current'.tenants
        /\ UNCHANGED <<records, building, cached, made, sems, unrefreshed, redefined>>
    BY <1>7 DEF Begin
  <2>2. ~up /\ up' = TRUE /\ ConfigInv'
    BY <1>1, <2>1, StartKept DEF Start
  <2>3. settings' \in Settings
    BY <2>1, <2>2 DEF ConfigInv, TenantsKept
  <2>4. Reconfigure(settings')
    BY <1>1, <2>1, <2>2 DEF Reconfigure
  <2>5. TenantsInv'
    BY <1>1, <2>3, <2>4, DropKeeps
  <2> QED
    BY <2>2, <2>5 DEF LiveInv
<1>8. CASE UNCHANGED vars
  <2>1. UNCHANGED configVars /\ UNCHANGED tenantVars
    BY <1>8 DEF vars
  <2>2. ConfigInv' /\ TenantsInv'
    BY <1>1, <2>1, ConfigStutters, TenantsStutter
  <2>3. up' = up /\ building' = building /\ cached' = cached
    BY <2>1 DEF configVars, tenantVars
  <2> QED
    BY <1>1, <2>2, <2>3 DEF LiveInv
<1> QED
  BY <1>2, <1>3, <1>4, <1>5, <1>6, <1>7, <1>8 DEF Next, Propagating

\* The inductive invariant, from the first snapshot through every reload,
\* propagation, build, edit, request and restart.
THEOREM LiveInvariant == Spec => []LiveInv
<1> QED
  BY InitLive, NextLive, PTL DEF Spec

\* Configuration, snapshots, tenants and semaphores have their types.
THEOREM TypeCorrect == Spec => []TypeOK
<1>1. LiveInv => TypeOK
  BY DEF LiveInv, ConfigInv, EditsKept, TenantsInv, SlotsConserved, TypeOK
<1> QED
  BY <1>1, LiveInvariant, PTL

\* An edit answered with success holds in every snapshot from then on: across
\* edits of other sections, refused ones, edits of the files by hand and
\* restarts, for any endpoints, keys and base files.
THEOREM EditsAreKept == Spec => []EditsKept
<1>1. LiveInv => EditsKept
  BY DEF LiveInv, ConfigInv
<1> QED
  BY <1>1, LiveInvariant, PTL

\* No permit of a tenant's semaphore is lost or given twice, and none is free
\* while a request waits for it, however many states were replaced meanwhile.
THEOREM SlotsAreConserved == Spec => []SlotsConserved
<1>1. LiveInv => SlotsConserved
  BY DEF LiveInv, TenantsInv
<1> QED
  BY <1>1, LiveInvariant, PTL

\* When every edit is refreshed, requests find what configuration, row and plan
\* give, though a build may have read them while they changed.
THEOREM RowsAreServed == Spec => []RowsServed
<1>1. LiveInv => RowsServed
  BY DEF LiveInv, TenantsInv
<1> QED
  BY <1>1, LiveInvariant, PTL
=============================================================================
