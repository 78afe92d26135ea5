---------------------------- MODULE UsageLedger -----------------------------
(***************************************************************************)
(* The daily token ledger of one tenant: reserve_usage and                 *)
(* settle_reserved_usage in src/gateway/memory.py, called by the chat      *)
(* handler in src/gateway/app.py from any number of requests and gateway   *)
(* processes.  A reservation books an estimate before dispatch; the        *)
(* settlement books the difference when the upstream has answered, perhaps *)
(* on another day, and perhaps for another endpoint (the fallback).        *)
(*                                                                         *)
(* The usage_counters table is kept as the sums the code reads: one per    *)
(* day and scope, the scope being the whole tenant or one endpoint.  The   *)
(* dollar budget follows the same statements as the tokens; the per-second *)
(* and per-minute windows are left to Refuse.                              *)
(***************************************************************************)
EXTENDS Integers, FiniteSetsExt

CONSTANTS
  Requests, Endpoints,
  Tenant,       \* the scope of the tenant-wide limit
  Limit,        \* scope -> tokens per day, 0 for unlimited
  Estimates,    \* estimates a request may reserve
  Actuals,      \* usage an upstream may report
  MaxDay,       \* bound: midnights
  MaxWait,      \* bound: midnights a reservation may wait for its lock
  Backends      \* the values `serialized` may have

Scopes == Endpoints \union {Tenant}
Days == 0 .. MaxDay

ASSUME ScopesAssumption == Tenant \notin Endpoints /\ Limit \in [Scopes -> Nat]
ASSUME AmountsAssumption ==
  /\ Estimates \subseteq Nat /\ Actuals \subseteq Nat
  /\ MaxDay \in Nat /\ MaxWait \in Nat /\ Backends \subseteq BOOLEAN

VARIABLES
  serialized,   \* reservations of the tenant run one after the other: always
                \* with SQLite (BEGIN IMMEDIATE), with Postgres only when the
                \* tenant has a users row for FOR UPDATE to lock
  day,
  booked,       \* day -> scope -> sum of the rows
  pc,           \* request -> where it is
  chosen,       \* request -> decision.endpoint
  est,          \* request -> estimated tokens
  used,         \* request -> tokens the upstream reported
  served,       \* request -> endpoint that answered
  count,        \* request -> sum of request_count over its rows
  net,          \* history: request -> endpoint -> sum of its rows
  admitted,     \* history: request -> day it was admitted
  overrun       \* history: day -> scope -> usage no check of that day has seen

vars == <<serialized, day, booked, pc, chosen, est, used, served, count, net, admitted, overrun>>
request == <<chosen, est, used, served, admitted>>

Phases == {"idle", "checked", "reserved", "moved", "done", "failed", "refused", "lost"}

Add(f, scopes, delta) ==
  [d \in Days |-> [s \in Scopes |->
     IF d = day /\ s \in scopes THEN f[d][s] + delta ELSE f[d][s]]]

Init ==
  /\ serialized \in Backends
  /\ day = 0
  /\ booked = [d \in Days |-> [s \in Scopes |-> 0]]
  /\ pc = [r \in Requests |-> "idle"]
  /\ chosen \in {[r \in Requests |-> e] : e \in Endpoints}
  /\ served = chosen
  /\ est = [r \in Requests |-> 0] /\ used = [r \in Requests |-> 0]
  /\ count = [r \in Requests |-> 0]
  /\ net = [r \in Requests |-> [e \in Endpoints |-> 0]]
  /\ admitted = [r \in Requests |-> 0]
  /\ overrun = [d \in Days |-> [s \in Scopes |-> 0]]

-----------------------------------------------------------------------------
\* _insert_usage: one row for r at endpoint e, stamped with the day it is
\* written, whatever day the reservation was made.
Insert(r, e, delta, requests) ==
  /\ booked' = Add(booked, {e, Tenant}, delta)
  /\ net' = [net EXCEPT ![r] = [x \in Endpoints |->
                IF x = e THEN net[r][x] + delta ELSE net[r][x]]]
  /\ count' = [count EXCEPT ![r] = count[r] + requests]

\* Mutant: the estimate of the new request is left out of the comparison.
WithinQuotaBefore(e, tokens, today) ==
  \A s \in {e, Tenant} : Limit[s] > 0 => booked[today][s] <= Limit[s]

\* The daily limits of reserve_usage: the tenant's and the chosen endpoint's.
WithinQuota(e, tokens, today) ==
  \A s \in {e, Tenant} : Limit[s] > 0 => booked[today][s] + tokens <= Limit[s]

\* `today` is read before the transaction begins and may be over when the
\* lock is granted.
Todays == {d \in Days : d <= day /\ day <= d + MaxWait}

\* reserve_usage when nothing of the tenant runs between its reads and its
\* insert.
Reserve(r, e, tokens, today) ==
  /\ serialized /\ pc[r] = "idle" /\ WithinQuota(e, tokens, today)
  /\ Insert(r, e, tokens, 1)
  /\ pc' = [pc EXCEPT ![r] = "reserved"]
  /\ chosen' = [chosen EXCEPT ![r] = e] /\ est' = [est EXCEPT ![r] = tokens]
  /\ admitted' = [admitted EXCEPT ![r] = day]
  /\ overrun' = IF today = day THEN overrun ELSE Add(overrun, {e, Tenant}, tokens)
  /\ UNCHANGED <<day, used, served>>

\* reserve_usage when FOR UPDATE locks no row: it reads the sums...
Check(r, e, tokens, today) ==
  /\ ~serialized /\ pc[r] = "idle" /\ WithinQuota(e, tokens, today)
  /\ pc' = [pc EXCEPT ![r] = "checked"]
  /\ chosen' = [chosen EXCEPT ![r] = e] /\ est' = [est EXCEPT ![r] = tokens]
  /\ UNCHANGED <<day, booked, used, served, count, net, admitted, overrun>>

\* ... and inserts its row after other reservations have done the same.
Book(r) ==
  /\ pc[r] = "checked"
  /\ Insert(r, chosen[r], est[r], 1)
  /\ pc' = [pc EXCEPT ![r] = "reserved"]
  /\ admitted' = [admitted EXCEPT ![r] = day]
  /\ UNCHANGED <<day, chosen, est, used, served, overrun>>

\* A quota or a rate limit refuses the request: nothing is written.
Refuse(r) ==
  /\ pc[r] = "idle"
  /\ pc' = [pc EXCEPT ![r] = "refused"]
  /\ UNCHANGED <<day, booked, request, count, net, overrun>>

-----------------------------------------------------------------------------
(* settle_reserved_usage *)

Delta(reserved, actual, completed) ==
  IF completed THEN actual - reserved ELSE 0 - reserved

CountDelta(completed) == IF completed THEN 0 ELSE -1

Beyond(reserved, actual) == IF actual > reserved THEN actual - reserved ELSE 0

Settle(r, e, reserved, actual, completed) ==
  /\ Insert(r, e, Delta(reserved, actual, completed), CountDelta(completed))
  /\ overrun' = IF completed
                  THEN Add(overrun, {e, Tenant}, Beyond(reserved, actual))
                  ELSE overrun

\* The chosen endpoint answered, or a stream or swarm ended well.
Complete(r, tokens) ==
  /\ pc[r] = "reserved"
  /\ Settle(r, chosen[r], est[r], tokens, TRUE)
  /\ pc' = [pc EXCEPT ![r] = "done"]
  /\ used' = [used EXCEPT ![r] = tokens] /\ served' = [served EXCEPT ![r] = chosen[r]]
  /\ UNCHANGED <<day, chosen, est, admitted>>

\* Mutant: the reservation stays with the endpoint first chosen.
MoveWithoutRelease(r, e, tokens) ==
  /\ pc[r] = "reserved" /\ e # chosen[r]
  /\ pc' = [pc EXCEPT ![r] = "moved"]
  /\ used' = [used EXCEPT ![r] = tokens] /\ served' = [served EXCEPT ![r] = e]
  /\ UNCHANGED <<day, booked, chosen, est, count, net, admitted, overrun>>

\* A fallback endpoint answered: first the reservation is taken off the
\* endpoint it was made for...
Move(r, e, tokens) ==
  /\ pc[r] = "reserved" /\ e # chosen[r]
  /\ Settle(r, chosen[r], est[r], 0, TRUE)
  /\ pc' = [pc EXCEPT ![r] = "moved"]
  /\ used' = [used EXCEPT ![r] = tokens] /\ served' = [served EXCEPT ![r] = e]
  /\ UNCHANGED <<day, chosen, est, admitted>>

\* ... then the usage is booked on the one that answered, unreserved.
Rebook(r) ==
  /\ pc[r] = "moved"
  /\ Settle(r, served[r], 0, used[r], TRUE)
  /\ pc' = [pc EXCEPT ![r] = "done"]
  /\ UNCHANGED <<day, request>>

\* Every upstream failed, or the stream broke.
Fail(r) ==
  /\ pc[r] = "reserved"
  /\ Settle(r, chosen[r], est[r], 0, FALSE)
  /\ pc' = [pc EXCEPT ![r] = "failed"]
  /\ UNCHANGED <<day, request>>

\* The process dies, or a statement between dispatch and settlement raises
\* (the decision log, the quality sample, the session, swarm planning): the
\* handler ends without settling.
Lose(r) ==
  /\ pc[r] \in {"reserved", "moved"}
  /\ pc' = [pc EXCEPT ![r] = "lost"]
  /\ UNCHANGED <<day, booked, request, count, net, overrun>>

Midnight ==
  /\ day < MaxDay
  /\ day' = day + 1
  /\ UNCHANGED <<booked, pc, request, count, net, overrun>>

Step ==
  \/ \E r \in Requests, e \in Endpoints, tokens \in Estimates, today \in Todays :
       Reserve(r, e, tokens, today) \/ Check(r, e, tokens, today)
  \/ \E r \in Requests : Book(r)
  \/ \E r \in Requests : Refuse(r)
  \/ \E r \in Requests, tokens \in Actuals : Complete(r, tokens)
  \/ \E r \in Requests, e \in Endpoints, tokens \in Actuals : Move(r, e, tokens)
  \/ \E r \in Requests : Rebook(r)
  \/ \E r \in Requests : Fail(r)
  \/ \E r \in Requests : Lose(r)
  \/ Midnight

\* Neither the database nor the tenant's users row changes on the way.
Next == Step /\ UNCHANGED serialized

Spec == Init /\ [][Next]_vars

-----------------------------------------------------------------------------
TypeOK ==
  /\ serialized \in Backends
  /\ day \in Days
  /\ booked \in [Days -> [Scopes -> Int]]
  /\ pc \in [Requests -> Phases]
  /\ chosen \in [Requests -> Endpoints] /\ served \in [Requests -> Endpoints]
  /\ est \in [Requests -> Nat] /\ used \in [Requests -> Nat]
  /\ count \in [Requests -> {0, 1}]
  /\ net \in [Requests -> [Endpoints -> Int]]
  /\ admitted \in [Requests -> Days]
  /\ overrun \in [Days -> [Scopes -> Nat]]

\* What r's rows should add up to at endpoint e, given how far r has come.
Owed(r, e) ==
  IF pc[r] = "reserved" /\ e = chosen[r]
    THEN est[r]
    ELSE IF pc[r] = "done" /\ e = served[r] THEN used[r] ELSE 0

\* Whatever days and endpoints a request's rows are spread over, they add up
\* to its estimate while it runs, to what it used at the endpoint that served
\* it once settled, and to nothing when it failed or moved: no phantom
\* reservation, no endpoint driven negative (the comment at app.py:1776).
RowsAddUp ==
  \A r \in Requests :
    pc[r] # "lost" =>
      /\ \A e \in Endpoints : net[r][e] = Owed(r, e)
      /\ count[r] = IF pc[r] \in {"reserved", "moved", "done"} THEN 1 ELSE 0

\* No day's sum passes its limit by more than requests used beyond their
\* estimates or reserved against the sum of the day before, although requests
\* settle late, on another day or on another endpoint, or never.
WithinLimits ==
  \A d \in Days, s \in Scopes :
    Limit[s] > 0 => booked[d][s] <= Limit[s] + overrun[d][s]

\* The limits of reserve_usage hold when its transaction is serialized.
QuotaHolds == serialized => WithinLimits

\* "Atomically check quotas and reserve estimated usage for one request"
\* (memory.py:1716): they hold whatever the database and its users rows.
QuotaAtomic == WithinLimits

\* "daily_token_limit: tenant-wide daily token cap" (memory.py:1719): the
\* requests admitted on one day, each at the smaller of its estimate and its
\* usage, stay within the cap.
Charge(r) ==
  CASE pc[r] \in {"reserved", "moved", "lost"} -> est[r]
    [] pc[r] = "done" /\ used[r] < est[r]      -> used[r]
    [] pc[r] = "done" /\ used[r] >= est[r]     -> est[r]
    [] OTHER                                   -> 0

DailyCap ==
  \A d \in Days :
    Limit[Tenant] > 0 =>
      MapThenSumSet(Charge, {r \in Requests : admitted[r] = d}) <= Limit[Tenant]
=============================================================================
