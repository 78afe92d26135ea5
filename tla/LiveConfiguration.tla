------------------------- MODULE LiveConfiguration -------------------------
(***************************************************************************)
(* A running gateway whose configuration is edited: the snapshots of       *)
(* Configuration reach the tenants of Tenants at the end of each           *)
(* propagation, among their requests and the edits of their rows.          *)
(***************************************************************************)
EXTENDS Configuration, Tenants

CONSTANT MaxWork   \* bound: changes of the files and edits of the rows together

vars == <<configVars, tenantVars>>

ASSUME SettingsAssumption == \A b \in Bases : b \in Configs /\ b.tenants \in Settings

\* init_app: the manager starts with the tenants of the first snapshot.
Init == ConfigInit /\ TenantsInit(base.tenants)

\* The files, the handlers and the poller, up to the start of a propagation.
Manage ==
  /\ Administer \/ Poll \/ ReloadNow \/ ByHand \/ Repair
  /\ changes' + edits <= MaxWork /\ UNCHANGED tenantVars

Advance(a) == StepPool(a) /\ UNCHANGED tenantVars

\* The tenants get the snapshot with the last of the subsystems.
Reach(a) == StepRest(a) /\ Reconfigure(a.snapshot.tenants)

Fail(a) == Abort(a) /\ UNCHANGED tenantVars

Serve ==
  /\ up /\ TenantsNext
  /\ changes + edits' <= MaxWork /\ UNCHANGED configVars

Stop == Crash /\ Forget

Begin == Start /\ settings' = current'.tenants
         /\ UNCHANGED <<records, building, cached, made, sems, unrefreshed, redefined>>

Propagating == \E a \in applying : Advance(a) \/ Reach(a)

Next ==
  \/ Manage \/ Propagating \/ (\E a \in applying : Fail(a))
  \/ Serve \/ Stop \/ Begin

\* The poller runs every five seconds, propagations are resumed by the event
\* loop, builds end, and somebody sees to it that the process starts.
Fairness ==
  /\ WF_vars(Poll /\ UNCHANGED tenantVars) /\ WF_vars(Propagating)
  /\ WF_vars(BuildStore /\ up /\ UNCHANGED configVars)
  /\ WF_vars(Begin) /\ WF_vars(Repair /\ UNCHANGED tenantVars)

Spec == Init /\ [][Next]_vars /\ Fairness

TypeOK == ConfigTypeOK /\ TenantsTypeOK
=============================================================================
