------------------------------ MODULE Webhooks ------------------------------
(***************************************************************************)
(* The webhook dispatcher of src/gateway/webhook_dispatcher.py, the tables *)
(* webhooks and webhook_deliveries with their operations in                *)
(* src/gateway/memory.py, and the administration handlers of               *)
(* src/gateway/app.py.                                                     *)
(*                                                                         *)
(* A dispatch reads the hooks when its task runs and starts one delivery   *)
(* per matching hook; a delivery works on the row it read, whatever is     *)
(* done to the hook meanwhile, and keeps its permit through its attempts   *)
(* and the sleeps between them.                                            *)
(*                                                                         *)
(* A URL is named by the tenant whose receiver it is.  Ids are never       *)
(* given again, as PostgreSQL's are not; SQLite gives the highest one      *)
(* again after its row was deleted.                                        *)
(***************************************************************************)
EXTENDS Tenancy, Integers, FiniteSets, SequencesExt

CONSTANTS
  Names,        \* names of hooks; the column is unique over all tenants
  NoHook,
  Retries,      \* the values max_retries takes in a row
  Shapes,       \* what is upserted: enabled or not, with a URL that the
                \* outbound policy blocks or not
  Unset,        \* max_retries NULL
  DefaultRetries, \* webhooks.max_retries of the configuration
  Permits,      \* max_concurrent_deliveries
  MaxHooks      \* bound: upserts by administrators

ASSUME HookAssumption ==
  /\ Shapes \subseteq [enabled : BOOLEAN, blocked : BOOLEAN]
  /\ Retries \ {Unset} \subseteq Int /\ DefaultRetries \in Int
  /\ Permits \in Nat \ {0} /\ MaxHooks \in Nat

VARIABLES
  hooks,        \* name -> row of the table webhooks, or NoHook
  edits,        \* upserts so far; a new row takes it as its id
  dispatches,   \* dispatch tasks that have not run: <<event, tenant>>
  job,          \* <<event, hook id>> -> the delivery
  line,         \* deliveries waiting on the semaphore, first first
  free,         \* value of the semaphore
  log           \* the attempts that ended: rows of webhook_deliveries (kept),
                \* and as history those that no row tells of

hookVars == <<hooks, edits, dispatches, job, line, free, log>>

Rows ==
  [id : 1 .. MaxHooks, tenant : Tenants \union {All}, url : Tenants \union {All},
   retries : Retries, enabled : BOOLEAN, blocked : BOOLEAN]

Stages == {"waiting", "sending", "asleep", "done"}
Jobs ==
  [hook : Rows, tenant : Tenants \union {NoTenant}, attempt : Nat, stage : Stages]

HooksInit ==
  /\ hooks = [n \in Names |-> NoHook] /\ edits = 0
  /\ dispatches = <<>> /\ job = <<>> /\ line = <<>> /\ free = Permits /\ log = {}

Ids == {hooks[n].id : n \in {m \in Names : hooks[m] # NoHook}}

\* The override of the row, or the configured number; at least one attempt.
Attempts(row) ==
  LET n == IF row.retries = Unset THEN DefaultRetries ELSE row.retries
  IN  IF n < 1 THEN 1 ELSE n

\* The tenant scope of dispatch(); the filter on event types is left out.
Matching(t) ==
  {r \in Range(hooks) \ {NoHook} : r.enabled /\ (r.tenant = All \/ r.tenant = t)}

\* The attempt under way ends; with its hook gone there is nothing to keep.
Ended(k, ok, kept) ==
  IF k[2] \in Ids
  THEN log \union {[hook |-> k[2], event |-> k[1], attempt |-> job[k].attempt,
                    ok |-> ok, kept |-> kept]}
  ELSE log

\* record_webhook_delivery: an error of the database is logged and no more.
Recorded(k, ok) == \E kept \in BOOLEAN : log' = Ended(k, ok, kept)

-----------------------------------------------------------------------------
(* Administration. *)

\* Mutant: the row is looked up by its name alone.
UpsertByName(n, t, r, s) ==
  /\ edits < MaxHooks
  /\ edits' = edits + 1
  /\ hooks' = [hooks EXCEPT ![n] =
       [id |-> IF @ = NoHook THEN edits + 1 ELSE @.id,
        tenant |-> IF @ = NoHook THEN t ELSE @.tenant,
        url |-> t, retries |-> r, enabled |-> s.enabled, blocked |-> s.blocked]]
  /\ UNCHANGED <<dispatches, job, line, free, log>>

\* upsert_webhook: the row is looked up by name and tenant; if the name is
\* another tenant's, the insertion fails on the unique column.
Upsert(n, t, r, s) ==
  /\ edits < MaxHooks
  /\ hooks[n] # NoHook => hooks[n].tenant = t
  /\ edits' = edits + 1
  /\ hooks' = [hooks EXCEPT ![n] =
       [id |-> IF @ = NoHook THEN edits + 1 ELSE @.id, tenant |-> t,
        url |-> t, retries |-> r, enabled |-> s.enabled, blocked |-> s.blocked]]
  /\ UNCHANGED <<dispatches, job, line, free, log>>

Delete(n) ==
  /\ hooks[n] # NoHook
  /\ log' = {r \in log : r.hook # hooks[n].id}
  /\ hooks' = [hooks EXCEPT ![n] = NoHook]
  /\ UNCHANGED <<edits, dispatches, job, line, free>>

-----------------------------------------------------------------------------
(* Dispatch and delivery. *)

\* dispatch(): list_webhooks answers no hook when the database fails.
Dispatch ==
  /\ dispatches # <<>>
  /\ LET ev == Head(dispatches)[1]
         t  == Head(dispatches)[2]
     IN  \E matching \in {Matching(t), {}} :
           LET new == {<<ev, r.id>> : r \in matching}
           IN  /\ job' = [k \in DOMAIN job \union new |->
                    IF k \in DOMAIN job THEN job[k]
                    ELSE [hook |-> CHOOSE r \in matching : r.id = k[2], tenant |-> t,
                          attempt |-> 1, stage |-> "waiting"]]
               /\ line' = line \o SetToSeq(new)
  /\ dispatches' = Tail(dispatches)
  /\ UNCHANGED <<hooks, edits, free, log>>

\* A permit is free.  A URL the outbound policy blocks is recorded once.
Acquire ==
  /\ line # <<>>
  /\ LET k == Head(line) IN
       IF job[k].hook.blocked
       THEN /\ job' = [job EXCEPT ![k].stage = "done"]
            /\ Recorded(k, FALSE)
            /\ free > 0 /\ UNCHANGED free
       ELSE /\ job' = [job EXCEPT ![k].stage = "sending"]
            /\ free > 0 /\ free' = free - 1 /\ UNCHANGED log
  /\ line' = Tail(line)
  /\ UNCHANGED <<hooks, edits, dispatches>>

Spent(k) == job[k].attempt >= Attempts(job[k].hook)

\* Mutant: an answer is recorded and the success not told from the rest.
AnswerRetried(k, ok) ==
  /\ job[k].stage = "sending"
  /\ job' = [job EXCEPT ![k].stage = IF Spent(k) THEN "done" ELSE "asleep"]
  /\ free' = IF Spent(k) THEN free + 1 ELSE free
  /\ Recorded(k, ok)
  /\ UNCHANGED <<hooks, edits, dispatches, line>>

\* The receiver answers: any 2xx ends the delivery.
Answer(k, ok) ==
  /\ job[k].stage = "sending"
  /\ LET over == ok \/ Spent(k) IN
       /\ job' = [job EXCEPT ![k].stage = IF over THEN "done" ELSE "asleep"]
       /\ free' = IF over THEN free + 1 ELSE free
  /\ Recorded(k, ok)
  /\ UNCHANGED <<hooks, edits, dispatches, line>>

\* A timeout or a client error: the receiver may have taken the event in.
TimeOut(k) ==
  /\ job[k].stage = "sending"
  /\ job' = [job EXCEPT ![k].stage = IF Spent(k) THEN "done" ELSE "asleep"]
  /\ free' = IF Spent(k) THEN free + 1 ELSE free
  /\ Recorded(k, FALSE)
  /\ UNCHANGED <<hooks, edits, dispatches, line>>

\* Any other exception ends the delivery without a row or a further attempt:
\* an answer, of whatever status, whose body does not decode (its text is
\* read before the status), a closed session.  gather() keeps the exception
\* and dispatch() drops it.
Break(k) ==
  /\ job[k].stage = "sending"
  /\ job' = [job EXCEPT ![k].stage = "done"]
  /\ free' = free + 1
  /\ log' = Ended(k, FALSE, FALSE)
  /\ UNCHANGED <<hooks, edits, dispatches, line>>

\* Mutant: the attempt is not counted.
WakeAgain(k) ==
  /\ job[k].stage = "asleep"
  /\ job' = [job EXCEPT ![k].stage = "sending"]
  /\ UNCHANGED <<hooks, edits, dispatches, line, free, log>>

Wake(k) ==
  /\ job[k].stage = "asleep"
  /\ job' = [job EXCEPT ![k].stage = "sending", ![k].attempt = @ + 1]
  /\ UNCHANGED <<hooks, edits, dispatches, line, free, log>>

Deliver(k) ==
  \/ \E ok \in BOOLEAN : Answer(k, ok)
  \/ TimeOut(k) \/ Break(k) \/ Wake(k)

Administer ==
  \/ \E n \in Names, t \in Tenants \union {All}, r \in Retries, s \in Shapes :
       Upsert(n, t, r, s)
  \/ \E n \in Names : Delete(n)

HooksNext ==
  \/ Administer \/ Dispatch \/ Acquire
  \/ \E k \in DOMAIN job : Deliver(k)

-----------------------------------------------------------------------------
HooksTypeOK ==
  /\ hooks \in [Names -> Rows \union {NoHook}] /\ edits \in 0 .. MaxHooks
  /\ dispatches \in Seq(Nat \X (Tenants \union {NoTenant}))
  /\ DOMAIN job \subseteq Nat \X (1 .. MaxHooks) /\ job \in [DOMAIN job -> Jobs]
  /\ line \in Seq(DOMAIN job)
  /\ Range(line) = {k \in DOMAIN job : job[k].stage = "waiting"} /\ IsInjective(line)
  /\ free = Permits - Cardinality({k \in DOMAIN job : job[k].stage \in {"sending", "asleep"}})
  /\ free >= 0
  /\ log \subseteq [hook : 1 .. MaxHooks, event : Nat, attempt : Nat, ok : BOOLEAN,
                     kept : BOOLEAN]

Attempted(k) ==
  IF job[k].stage \in {"waiting", "sending"} THEN job[k].attempt - 1 ELSE job[k].attempt

\* While its hook exists, the table tells of the attempts of a delivery, each
\* once and in no more attempts than the row allowed when the event was
\* dispatched, but for those whose insertion failed and a last one whose
\* answer did not decode, of which it tells nothing; and a receiver that was
\* seen to answer 2xx is not sent the event again, logged or not.
AttemptsLogged ==
  \A k \in {j \in DOMAIN job : j[2] \in Ids} :
    LET entries == {r \in log : r.hook = k[2] /\ r.event = k[1]}
        rows    == {r \in entries : r.kept}
        lost    == {r.attempt : r \in entries \ rows}
    IN  /\ {r.attempt : r \in rows} = (1 .. Attempted(k)) \ lost
        /\ \A r, q \in entries : r.attempt = q.attempt => r = q
        /\ Attempted(k) <= Attempts(job[k].hook)
        /\ \A r \in entries : r.ok => job[k].stage = "done" /\ r.attempt = job[k].attempt

\* "Every attempt is logged into webhook_deliveries" (webhook_dispatcher.py:16).
\* Refuted: an answer whose body does not decode leaves no row.
EveryAttemptLogged ==
  \A k \in {j \in DOMAIN job : j[2] \in Ids} : \A n \in 1 .. Attempted(k) :
    \E r \in log : r.kept /\ r.hook = k[2] /\ r.event = k[1] /\ r.attempt = n
=============================================================================
