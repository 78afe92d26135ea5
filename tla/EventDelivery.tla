---------------------------- MODULE EventDelivery ---------------------------
(***************************************************************************)
(* The event bus and the webhooks together: publish() (src/gateway/        *)
(* events.py) notifies the streams and dispatches to the hooks, in two     *)
(* tasks.                                                                  *)
(***************************************************************************)
EXTENDS EventBus, Webhooks

CONSTANT Origins  \* the tenants whose events are published

ASSUME OriginsAssumption == Origins \subseteq Tenants \union {NoTenant}

vars == <<busVars, hookVars>>

Init == BusInit /\ HooksInit

\* publish(), with the dispatcher initialised.
Emit(t) ==
  /\ Publish(t)
  /\ dispatches' = Append(dispatches, <<Len(published) + 1, t>>)
  /\ UNCHANGED <<hooks, edits, job, line, free, log>>

Next ==
  \/ \E t \in Origins : Emit(t)
  \/ Notify /\ UNCHANGED hookVars
  \/ \E v \in Readers : Stream(v) /\ UNCHANGED hookVars
  \/ HooksNext /\ UNCHANGED busVars

\* The loop runs its tasks; a post ends at the latest by its timeout and a
\* sleep is finite; a delivery has finitely many steps, so fairness to all of
\* them together serves each.  Nobody has to publish, read or administer.
Fairness ==
  /\ WF_vars(Notify /\ UNCHANGED hookVars)
  /\ WF_vars(Dispatch /\ UNCHANGED busVars)
  /\ WF_vars(Acquire /\ UNCHANGED busVars)
  /\ WF_vars((\E k \in DOMAIN job : Deliver(k)) /\ UNCHANGED busVars)

Spec == Init /\ [][Next]_vars
FairSpec == Spec /\ Fairness

-----------------------------------------------------------------------------
Settled(ev) ==
  /\ ev \notin Range(pending)
  /\ \A i \in DOMAIN dispatches : dispatches[i][1] # ev
  /\ \A k \in DOMAIN job : k[1] = ev => job[k].stage = "done"

TypeOK == BusTypeOK /\ HooksTypeOK

\* No tenant learns of another one's events: not by a stream filtered by its
\* tenant, in the replay or live, and not by a webhook, whoever named,
\* renamed or reused it and whatever was edited while deliveries ran.
NoCrossTenant ==
  /\ TypeOK
  /\ \A v \in Readers, i \in 1 .. MaxEvents :
       i \in DOMAIN seen[v] => Visible(v, seen[v][i])
  /\ \A k \in DOMAIN job :
       job[k].stage # "waiting" => job[k].hook.url \in {All, published[k[1]]}

\* Every event published is notified and dispatched, and every delivery of
\* it ends, by an answer or by running out of attempts, whatever its
\* receiver does and whatever is done to its hook.
Concluded == \A ev \in 1 .. MaxEvents : (ev \in Event) ~> Settled(ev)
=============================================================================
