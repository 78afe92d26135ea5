----------------------------- MODULE TenantProofs -----------------------------
(***************************************************************************)
(* Theorems about what a tenant uses: tokens (UsageLedger), for any number of *)
(* requests, endpoints, days and tokens, and tools (ToolCalls), for any    *)
(* tenants, tools, syncs, calls, lives and sizes of the cache.             *)
(*                                                                         *)
(* UsageLedger: RowsAddUp is inductive as it stands; QuotaHolds needs to   *)
(* know that a serialized reservation is never found between its check and *)
(* its insert.                                                             *)
(*                                                                         *)
(* ToolCalls: Fresh is about the answers that could be given next; ToolsInv *)
(* bounds the age of every entry and of every call that may become one.    *)
(***************************************************************************)
EXTENDS UsageLedger, ToolCalls, TLAPS

-----------------------------------------------------------------------------
(***************************************************************************)
(* UsageLedger                                                             *)
(***************************************************************************)

NoneChecked == \A r \in Requests : serialized => pc[r] # "checked"

LedgerInv == TypeOK /\ NoneChecked /\ RowsAddUp /\ QuotaHolds

-----------------------------------------------------------------------------
(* What the helpers return *)

\* Adding to the sums of some scopes keeps them integers.
LEMMA AddType ==
  ASSUME TypeOK, NEW f \in [Days -> [Scopes -> Int]], NEW S, NEW d \in Int
  PROVE  Add(f, S, d) \in [Days -> [Scopes -> Int]]
BY DEF Add

\* The overrun only grows.
LEMMA AddNat ==
  ASSUME NEW f \in [Days -> [Scopes -> Nat]], NEW S, NEW d \in Nat
  PROVE  Add(f, S, d) \in [Days -> [Scopes -> Nat]]
BY DEF Add

\* A row keeps the sums and the rows of each request integers.
LEMMA InsertType ==
  ASSUME TypeOK, NEW r \in Requests, NEW e \in Endpoints,
         NEW delta \in Int, NEW requests \in Int,
         Insert(r, e, delta, requests)
  PROVE  /\ booked' \in [Days -> [Scopes -> Int]]
         /\ net' \in [Requests -> [Endpoints -> Int]]
<1>1. booked' \in [Days -> [Scopes -> Int]]
  BY AddType DEF Insert, TypeOK
<1>2. net \in [Requests -> [Endpoints -> Int]]
  BY DEF TypeOK
<1>3. [x \in Endpoints |-> IF x = e THEN net[r][x] + delta ELSE net[r][x]]
        \in [Endpoints -> Int]
  BY <1>2
<1>4. net' \in [Requests -> [Endpoints -> Int]]
  BY <1>2, <1>3 DEF Insert
<1> QED
  BY <1>1, <1>4

\* A settlement keeps the types, and within limits what was within limits:
\* what it books beyond the reservation it also adds to the overrun.
LEMMA SettleKeeps ==
  ASSUME TypeOK, NEW r \in Requests, NEW e \in Endpoints,
         NEW reserved \in Nat, NEW actual \in Nat, NEW completed \in BOOLEAN,
         Settle(r, e, reserved, actual, completed)
  PROVE  /\ booked' \in [Days -> [Scopes -> Int]]
         /\ net' \in [Requests -> [Endpoints -> Int]]
         /\ overrun' \in [Days -> [Scopes -> Nat]]
         /\ WithinLimits => WithinLimits'
<1>1. Delta(reserved, actual, completed) \in Int /\ CountDelta(completed) \in Int
  BY DEF Delta, CountDelta
<1>2. Beyond(reserved, actual) \in Nat
  BY DEF Beyond
<1>3. Insert(r, e, Delta(reserved, actual, completed), CountDelta(completed))
  BY DEF Settle
<1>4. booked' \in [Days -> [Scopes -> Int]] /\ net' \in [Requests -> [Endpoints -> Int]]
  BY <1>1, <1>3, InsertType
<1>5. overrun' \in [Days -> [Scopes -> Nat]]
  BY <1>2, AddNat DEF Settle, TypeOK
<1>6. ASSUME WithinLimits, NEW d \in Days, NEW s \in Scopes, Limit[s] > 0
      PROVE  booked'[d][s] <= Limit[s] + overrun'[d][s]
  <2>1. booked[d][s] \in Int /\ overrun[d][s] \in Nat /\ Limit[s] \in Nat
    BY ScopesAssumption DEF TypeOK
  <2>2. booked[d][s] <= Limit[s] + overrun[d][s]
    BY <1>6 DEF WithinLimits
  <2>3. booked'[d][s] = IF d = day /\ s \in {e, Tenant}
                          THEN booked[d][s] + Delta(reserved, actual, completed)
                          ELSE booked[d][s]
    BY <1>3 DEF Insert, Add
  <2>4. overrun'[d][s] = IF completed /\ d = day /\ s \in {e, Tenant}
                           THEN overrun[d][s] + Beyond(reserved, actual)
                           ELSE overrun[d][s]
    BY DEF Settle, Add
  <2> QED
    BY <2>1, <2>2, <2>3, <2>4 DEF Delta, Beyond
<1> QED
  BY <1>4, <1>5, <1>6 DEF WithinLimits

-----------------------------------------------------------------------------
LEMMA InitInv == Init => LedgerInv
<1> SUFFICES ASSUME Init PROVE LedgerInv
  OBVIOUS
<1>1. day \in Days
  BY AmountsAssumption DEF Init, Days
<1>2. TypeOK
  BY <1>1 DEF Init, TypeOK, Phases
<1>3. NoneChecked
  BY DEF Init, NoneChecked
<1>4. RowsAddUp
  BY DEF Init, RowsAddUp, Owed
<1>5. WithinLimits
  BY ScopesAssumption DEF Init, WithinLimits
<1> QED
  BY <1>2, <1>3, <1>4, <1>5 DEF LedgerInv, QuotaHolds

-----------------------------------------------------------------------------
(* Types *)

\* A new value for one request keeps the type of a function of requests.
LEMMA UpdateType ==
  ASSUME NEW S, NEW f \in [Requests -> S], NEW r \in Requests, NEW v \in S
  PROVE  [f EXCEPT ![r] = v] \in [Requests -> S]
OBVIOUS

LEMMA ReserveType ==
  ASSUME TypeOK, NEW r \in Requests, NEW e \in Endpoints,
         NEW tokens \in Estimates, NEW today \in Todays,
         Reserve(r, e, tokens, today), RowsAddUp, UNCHANGED serialized
  PROVE  TypeOK'
<1>1. tokens \in Nat
  BY AmountsAssumption
<1>2. booked' \in [Days -> [Scopes -> Int]] /\ net' \in [Requests -> [Endpoints -> Int]]
  BY <1>1, InsertType DEF Reserve
<1>3. overrun' \in [Days -> [Scopes -> Nat]]
  BY <1>1, AddNat DEF Reserve, TypeOK
<1>4. count' \in [Requests -> {0, 1}]
  <2>1. count[r] = 0
    BY DEF Reserve, RowsAddUp
  <2>2. count' = [count EXCEPT ![r] = 1]
    BY <2>1 DEF Reserve, Insert
  <2> QED
    BY <2>2 DEF TypeOK
<1>5. pc' \in [Requests -> Phases] /\ chosen' \in [Requests -> Endpoints]
  BY DEF Reserve, TypeOK, Phases
<1>6. est' \in [Requests -> Nat] /\ admitted' \in [Requests -> Days]
  BY <1>1 DEF Reserve, TypeOK
<1> QED
  BY <1>2, <1>3, <1>4, <1>5, <1>6 DEF TypeOK, Reserve

LEMMA CheckType ==
  ASSUME TypeOK, NEW r \in Requests, NEW e \in Endpoints,
         NEW tokens \in Estimates, NEW today \in Todays,
         Check(r, e, tokens, today), UNCHANGED serialized
  PROVE  TypeOK'
BY AmountsAssumption DEF TypeOK, Check, Phases

LEMMA BookType ==
  ASSUME TypeOK, NEW r \in Requests, Book(r), RowsAddUp, UNCHANGED serialized
  PROVE  TypeOK'
<1>1. chosen[r] \in Endpoints /\ est[r] \in Int
  BY DEF TypeOK
<1>2. booked' \in [Days -> [Scopes -> Int]] /\ net' \in [Requests -> [Endpoints -> Int]]
  BY <1>1, InsertType DEF Book
<1>3. count' \in [Requests -> {0, 1}]
  <2>1. count[r] = 0
    BY DEF Book, RowsAddUp
  <2>2. count' = [count EXCEPT ![r] = 1]
    BY <2>1 DEF Book, Insert
  <2> QED
    BY <2>2 DEF TypeOK
<1>4. pc' \in [Requests -> Phases] /\ admitted' \in [Requests -> Days]
  BY DEF Book, TypeOK, Phases
<1> QED
  BY <1>2, <1>3, <1>4 DEF TypeOK, Book

\* A settlement that completes keeps the request counted.
LEMMA CompletedType ==
  ASSUME TypeOK, NEW r \in Requests, NEW e \in Endpoints,
         NEW reserved \in Nat, NEW actual \in Nat,
         Settle(r, e, reserved, actual, TRUE)
  PROVE  count' = count
<1>1. count' = [count EXCEPT ![r] = count[r] + 0]
  BY DEF Settle, Insert, CountDelta
<1>2. count \in [Requests -> {0, 1}]
  BY DEF TypeOK
<1>3. count[r] \in Int
  BY <1>2
<1>4. count[r] + 0 = count[r]
  BY <1>3
<1> QED
  BY <1>1, <1>2, <1>4

LEMMA SettlingType ==
  ASSUME TypeOK, NEW r \in Requests, RowsAddUp, UNCHANGED serialized,
         \/ \E tokens \in Actuals : Complete(r, tokens)
         \/ \E e \in Endpoints, tokens \in Actuals : Move(r, e, tokens)
         \/ Rebook(r)
         \/ Fail(r)
  PROVE  TypeOK'
<1> chosen[r] \in Endpoints /\ served[r] \in Endpoints /\ est[r] \in Nat /\ used[r] \in Nat
  BY DEF TypeOK
<1>1. CASE \E tokens \in Actuals : Complete(r, tokens)
  <2>1. PICK tokens \in Actuals : Complete(r, tokens)
    BY <1>1
  <2>2. tokens \in Nat /\ Settle(r, chosen[r], est[r], tokens, TRUE)
    BY <2>1, AmountsAssumption DEF Complete
  <2>3. /\ booked' \in [Days -> [Scopes -> Int]] /\ net' \in [Requests -> [Endpoints -> Int]]
        /\ overrun' \in [Days -> [Scopes -> Nat]] /\ count' = count
    BY <2>2, SettleKeeps, CompletedType
  <2>4. /\ pc' \in [Requests -> Phases] /\ used' \in [Requests -> Nat]
        /\ served' \in [Requests -> Endpoints]
    BY <2>1, <2>2 DEF Complete, TypeOK, Phases
  <2> QED
    BY <2>1, <2>3, <2>4 DEF TypeOK, Complete
<1>2. CASE \E e \in Endpoints, tokens \in Actuals : Move(r, e, tokens)
  <2>1. PICK e \in Endpoints, tokens \in Actuals : Move(r, e, tokens)
    BY <1>2
  <2>2. tokens \in Nat /\ Settle(r, chosen[r], est[r], 0, TRUE)
    BY <2>1, AmountsAssumption DEF Move
  <2>3. /\ booked' \in [Days -> [Scopes -> Int]] /\ net' \in [Requests -> [Endpoints -> Int]]
        /\ overrun' \in [Days -> [Scopes -> Nat]] /\ count' = count
    BY <2>2, SettleKeeps, CompletedType
  <2>4. /\ pc' \in [Requests -> Phases] /\ used' \in [Requests -> Nat]
        /\ served' \in [Requests -> Endpoints]
    BY <2>1, <2>2 DEF Move, TypeOK, Phases
  <2> QED
    BY <2>1, <2>3, <2>4 DEF TypeOK, Move
<1>3. CASE Rebook(r)
  <2>1. Settle(r, served[r], 0, used[r], TRUE)
    BY <1>3 DEF Rebook
  <2>2. /\ booked' \in [Days -> [Scopes -> Int]] /\ net' \in [Requests -> [Endpoints -> Int]]
        /\ overrun' \in [Days -> [Scopes -> Nat]] /\ count' = count
    BY <2>1, SettleKeeps, CompletedType
  <2>3. pc' \in [Requests -> Phases]
    BY <1>3 DEF Rebook, TypeOK, Phases
  <2> QED
    BY <1>3, <2>2, <2>3 DEF TypeOK, Rebook, request
<1>4. CASE Fail(r)
  <2>1. Settle(r, chosen[r], est[r], 0, FALSE)
    BY <1>4 DEF Fail
  <2>2. /\ booked' \in [Days -> [Scopes -> Int]] /\ net' \in [Requests -> [Endpoints -> Int]]
        /\ overrun' \in [Days -> [Scopes -> Nat]]
    BY <2>1, SettleKeeps
  <2>3. count' \in [Requests -> {0, 1}]
    <3>1. count[r] = 1
      BY <1>4 DEF Fail, RowsAddUp
    <3>2. count' = [count EXCEPT ![r] = 0]
      BY <2>1, <3>1 DEF Settle, Insert, CountDelta
    <3> QED
      BY <3>2 DEF TypeOK
  <2>4. pc' \in [Requests -> Phases]
    BY <1>4 DEF Fail, TypeOK, Phases
  <2> QED
    BY <1>4, <2>2, <2>3, <2>4 DEF TypeOK, Fail, request
<1> QED
  BY <1>1, <1>2, <1>3, <1>4

LEMMA NextType == TypeOK /\ RowsAddUp /\ [Next]_vars => TypeOK'
<1> SUFFICES ASSUME TypeOK, RowsAddUp, [Next]_vars PROVE TypeOK'
  OBVIOUS
<1>1. ASSUME NEW r \in Requests, NEW e \in Endpoints, NEW tokens \in Estimates,
             NEW today \in Todays, UNCHANGED serialized,
             Reserve(r, e, tokens, today) \/ Check(r, e, tokens, today)
      PROVE  TypeOK'
  BY <1>1, ReserveType, CheckType
<1>2. ASSUME NEW r \in Requests, UNCHANGED serialized, Book(r) PROVE TypeOK'
  BY <1>2, BookType
<1>3. ASSUME NEW r \in Requests, UNCHANGED serialized, Refuse(r) \/ Lose(r) PROVE TypeOK'
  BY <1>3 DEF Refuse, Lose, TypeOK, Phases, request
<1>4. ASSUME UNCHANGED serialized, Midnight PROVE TypeOK'
  BY <1>4, AmountsAssumption DEF Midnight, TypeOK, Days, request
<1>5. ASSUME UNCHANGED vars PROVE TypeOK'
  BY <1>5 DEF vars, TypeOK
<1> QED
  BY <1>1, <1>2, <1>3, <1>4, <1>5, SettlingType DEF Next, Step

-----------------------------------------------------------------------------
(* The rows of each request *)

\* What r's rows add up to at each endpoint is decided by r's own fields.
RowsOf(r) ==
  pc[r] # "lost" =>
    /\ \A e \in Endpoints : net[r][e] = Owed(r, e)
    /\ count[r] = IF pc[r] \in {"reserved", "moved", "done"} THEN 1 ELSE 0

\* One row of r at endpoint e changes r's sum there and nobody else's.
LEMMA InsertRows ==
  ASSUME TypeOK, NEW r \in Requests, NEW e, NEW delta, NEW requests,
         Insert(r, e, delta, requests)
  PROVE  /\ \A q \in Requests : q # r => net'[q] = net[q] /\ count'[q] = count[q]
         /\ \A x \in Endpoints :
              net'[r][x] = IF x = e THEN net[r][x] + delta ELSE net[r][x]
         /\ count'[r] = count[r] + requests
BY DEF TypeOK, Insert

\* The fields of a request that a step of another one leaves alone.
Untouched(q) ==
  /\ pc'[q] = pc[q] /\ chosen'[q] = chosen[q] /\ est'[q] = est[q]
  /\ used'[q] = used[q] /\ served'[q] = served[q]
  /\ net'[q] = net[q] /\ count'[q] = count[q]

LEMMA UntouchedRows ==
  ASSUME NEW q \in Requests, Untouched(q), RowsOf(q)
  PROVE  RowsOf(q)'
BY DEF Untouched, RowsOf, Owed

LEMMA ReservationRows ==
  ASSUME TypeOK, RowsAddUp, NEW r \in Requests,
         \/ \E e \in Endpoints, tokens \in Estimates, today \in Todays :
              Reserve(r, e, tokens, today) \/ Check(r, e, tokens, today)
         \/ Book(r)
  PROVE  RowsOf(r)' /\ \A q \in Requests : q # r => Untouched(q)
<1>1. RowsOf(r)
  BY DEF RowsAddUp, RowsOf
<1>2. ASSUME NEW e \in Endpoints, NEW tokens \in Estimates, NEW today \in Todays,
             Reserve(r, e, tokens, today)
      PROVE  RowsOf(r)' /\ \A q \in Requests : q # r => Untouched(q)
  <2>1. tokens \in Nat
    BY AmountsAssumption
  <2>2. Insert(r, e, tokens, 1)
    BY <1>2 DEF Reserve
  <2>3. /\ pc[r] = "idle" /\ pc' = [pc EXCEPT ![r] = "reserved"]
        /\ chosen' = [chosen EXCEPT ![r] = e] /\ est' = [est EXCEPT ![r] = tokens]
        /\ used' = used /\ served' = served
    BY <1>2 DEF Reserve
  <2>4. /\ pc'[r] = "reserved" /\ chosen'[r] = e /\ est'[r] = tokens
        /\ \A q \in Requests : q # r =>
             pc'[q] = pc[q] /\ chosen'[q] = chosen[q] /\ est'[q] = est[q]
    BY <2>3 DEF TypeOK
  <2>5. \A x \in Endpoints : net[r][x] = 0
    BY <1>1, <2>3 DEF RowsOf, Owed
  <2>6. count[r] = 0
    BY <1>1, <2>3 DEF RowsOf
  <2>7. \A q \in Requests : q # r => Untouched(q)
    BY <2>2, <2>3, <2>4, InsertRows DEF Untouched
  <2>8. \A x \in Endpoints : net'[r][x] = IF x = e THEN tokens ELSE 0
    BY <2>1, <2>2, <2>5, InsertRows
  <2>9. count'[r] = 1
    BY <2>2, <2>6, InsertRows
  <2>10. RowsOf(r)'
    BY <2>4, <2>8, <2>9 DEF RowsOf, Owed
  <2> QED
    BY <2>7, <2>10
<1>3. ASSUME NEW e \in Endpoints, NEW tokens \in Estimates, NEW today \in Todays,
             Check(r, e, tokens, today)
      PROVE  RowsOf(r)' /\ \A q \in Requests : q # r => Untouched(q)
  BY <1>1, <1>3 DEF Check, TypeOK, RowsOf, Owed, Untouched
<1>4. ASSUME Book(r)
      PROVE  RowsOf(r)' /\ \A q \in Requests : q # r => Untouched(q)
  <2>1. /\ Insert(r, chosen[r], est[r], 1)
        /\ pc[r] = "checked" /\ pc' = [pc EXCEPT ![r] = "reserved"]
        /\ chosen' = chosen /\ est' = est /\ used' = used /\ served' = served
    BY <1>4 DEF Book
  <2>2. pc'[r] = "reserved" /\ \A q \in Requests : q # r => pc'[q] = pc[q]
    BY <2>1 DEF TypeOK
  <2>3. \A x \in Endpoints : net[r][x] = 0
    BY <1>1, <2>1 DEF RowsOf, Owed
  <2>4. count[r] = 0 /\ est[r] \in Nat
    BY <1>1, <2>1 DEF RowsOf, TypeOK
  <2>5. \A q \in Requests : q # r => Untouched(q)
    BY <2>1, <2>2, InsertRows DEF Untouched
  <2>6. \A x \in Endpoints : net'[r][x] = IF x = chosen[r] THEN est[r] ELSE 0
    BY <2>1, <2>3, <2>4, InsertRows
  <2>7. count'[r] = 1
    BY <2>1, <2>4, InsertRows
  <2>8. RowsOf(r)'
    BY <2>1, <2>2, <2>6, <2>7 DEF RowsOf, Owed
  <2> QED
    BY <2>5, <2>8
<1> QED
  BY <1>2, <1>3, <1>4

\* A settlement closes the difference between what r's rows add up to and
\* what its next phase owes.
LEMMA SettlingRows ==
  ASSUME TypeOK, RowsAddUp, NEW r \in Requests,
         \/ \E tokens \in Actuals : Complete(r, tokens)
         \/ \E e \in Endpoints, tokens \in Actuals : Move(r, e, tokens)
         \/ Rebook(r)
         \/ Fail(r)
  PROVE  RowsOf(r)' /\ \A q \in Requests : q # r => Untouched(q)
<1>1. /\ RowsOf(r) /\ chosen[r] \in Endpoints /\ served[r] \in Endpoints
      /\ est[r] \in Nat /\ used[r] \in Nat
  BY DEF RowsAddUp, RowsOf, TypeOK
<1>2. ASSUME NEW tokens \in Actuals, Complete(r, tokens)
      PROVE  RowsOf(r)' /\ \A q \in Requests : q # r => Untouched(q)
  <2>1. tokens \in Nat /\ Insert(r, chosen[r], tokens - est[r], 0)
    BY <1>2, AmountsAssumption DEF Complete, Settle, Delta, CountDelta
  <2>2. /\ pc[r] = "reserved" /\ pc' = [pc EXCEPT ![r] = "done"]
        /\ used' = [used EXCEPT ![r] = tokens]
        /\ served' = [served EXCEPT ![r] = chosen[r]]
        /\ chosen' = chosen /\ est' = est
    BY <1>2 DEF Complete
  <2>3. /\ pc'[r] = "done" /\ used'[r] = tokens /\ served'[r] = chosen[r]
        /\ \A q \in Requests : q # r =>
             pc'[q] = pc[q] /\ used'[q] = used[q] /\ served'[q] = served[q]
    BY <2>2 DEF TypeOK
  <2>4. \A x \in Endpoints : net[r][x] = IF x = chosen[r] THEN est[r] ELSE 0
    BY <1>1, <2>2 DEF RowsOf, Owed
  <2>5. \A x \in Endpoints : net'[r][x] = IF x = chosen[r] THEN tokens ELSE 0
    BY <1>1, <2>1, <2>4, InsertRows
  <2>6. count'[r] = 1
    BY <1>1, <2>1, <2>2, InsertRows DEF RowsOf
  <2>7. RowsOf(r)'
    BY <2>2, <2>3, <2>5, <2>6 DEF RowsOf, Owed
  <2> QED
    BY <2>1, <2>2, <2>3, <2>7, InsertRows DEF Untouched
<1>3. ASSUME NEW e \in Endpoints, NEW tokens \in Actuals, Move(r, e, tokens)
      PROVE  RowsOf(r)' /\ \A q \in Requests : q # r => Untouched(q)
  <2>1. Insert(r, chosen[r], 0 - est[r], 0)
    BY <1>3 DEF Move, Settle, Delta, CountDelta
  <2>2. /\ pc[r] = "reserved" /\ pc' = [pc EXCEPT ![r] = "moved"]
        /\ used' = [used EXCEPT ![r] = tokens] /\ served' = [served EXCEPT ![r] = e]
        /\ chosen' = chosen /\ est' = est
    BY <1>3 DEF Move
  <2>3. /\ pc'[r] = "moved"
        /\ \A q \in Requests : q # r =>
             pc'[q] = pc[q] /\ used'[q] = used[q] /\ served'[q] = served[q]
    BY <2>2 DEF TypeOK
  <2>4. \A x \in Endpoints : net[r][x] = IF x = chosen[r] THEN est[r] ELSE 0
    BY <1>1, <2>2 DEF RowsOf, Owed
  <2>5. \A x \in Endpoints : net'[r][x] = 0
    BY <1>1, <2>1, <2>4, InsertRows
  <2>6. count'[r] = 1
    BY <1>1, <2>1, <2>2, InsertRows DEF RowsOf
  <2>7. RowsOf(r)'
    BY <2>3, <2>5, <2>6 DEF RowsOf, Owed
  <2> QED
    BY <2>1, <2>2, <2>3, <2>7, InsertRows DEF Untouched
<1>4. ASSUME Rebook(r)
      PROVE  RowsOf(r)' /\ \A q \in Requests : q # r => Untouched(q)
  <2>1. Insert(r, served[r], used[r] - 0, 0)
    BY <1>4 DEF Rebook, Settle, Delta, CountDelta
  <2>2. /\ pc[r] = "moved" /\ pc' = [pc EXCEPT ![r] = "done"]
        /\ used' = used /\ served' = served /\ chosen' = chosen /\ est' = est
    BY <1>4 DEF Rebook, request
  <2>3. pc'[r] = "done" /\ \A q \in Requests : q # r => pc'[q] = pc[q]
    BY <2>2 DEF TypeOK
  <2>4. \A x \in Endpoints : net[r][x] = 0
    BY <1>1, <2>2 DEF RowsOf, Owed
  <2>5. \A x \in Endpoints : net'[r][x] = IF x = served[r] THEN used[r] ELSE 0
    BY <1>1, <2>1, <2>4, InsertRows
  <2>6. count'[r] = 1
    BY <1>1, <2>1, <2>2, InsertRows DEF RowsOf
  <2>7. RowsOf(r)'
    BY <2>2, <2>3, <2>5, <2>6 DEF RowsOf, Owed
  <2> QED
    BY <2>1, <2>2, <2>3, <2>7, InsertRows DEF Untouched
<1>5. ASSUME Fail(r)
      PROVE  RowsOf(r)' /\ \A q \in Requests : q # r => Untouched(q)
  <2>1. Insert(r, chosen[r], 0 - est[r], -1)
    BY <1>5 DEF Fail, Settle, Delta, CountDelta
  <2>2. /\ pc[r] = "reserved" /\ pc' = [pc EXCEPT ![r] = "failed"]
        /\ used' = used /\ served' = served /\ chosen' = chosen /\ est' = est
    BY <1>5 DEF Fail, request
  <2>3. pc'[r] = "failed" /\ \A q \in Requests : q # r => pc'[q] = pc[q]
    BY <2>2 DEF TypeOK
  <2>4. \A x \in Endpoints : net[r][x] = IF x = chosen[r] THEN est[r] ELSE 0
    BY <1>1, <2>2 DEF RowsOf, Owed
  <2>5. \A x \in Endpoints : net'[r][x] = 0
    BY <1>1, <2>1, <2>4, InsertRows
  <2>6. count'[r] = 0
    BY <1>1, <2>1, <2>2, InsertRows DEF RowsOf
  <2>7. RowsOf(r)'
    BY <2>3, <2>5, <2>6 DEF RowsOf, Owed
  <2> QED
    BY <2>1, <2>2, <2>3, <2>7, InsertRows DEF Untouched
<1> QED
  BY <1>2, <1>3, <1>4, <1>5

LEMMA NextRows == TypeOK /\ RowsAddUp /\ [Next]_vars => RowsAddUp'
<1> SUFFICES ASSUME TypeOK, RowsAddUp, [Next]_vars PROVE RowsAddUp'
  OBVIOUS
<1>1. \A q \in Requests : RowsOf(q)
  BY DEF RowsAddUp, RowsOf
<1>2. ASSUME NEW r \in Requests, RowsOf(r)', \A q \in Requests : q # r => Untouched(q)
      PROVE  RowsAddUp'
  <2>1. \A q \in Requests : RowsOf(q)'
    BY <1>1, <1>2, UntouchedRows
  <2> QED
    BY <2>1 DEF RowsAddUp, RowsOf
<1>3. ASSUME NEW r \in Requests, NEW e \in Endpoints, NEW tokens \in Estimates,
             NEW today \in Todays,
             Reserve(r, e, tokens, today) \/ Check(r, e, tokens, today)
      PROVE  RowsAddUp'
  BY <1>2, <1>3, ReservationRows
<1>4. ASSUME NEW r \in Requests, Book(r) PROVE RowsAddUp'
  BY <1>2, <1>4, ReservationRows
<1>5. ASSUME NEW r \in Requests,
             \/ \E tokens \in Actuals : Complete(r, tokens)
             \/ \E e \in Endpoints, tokens \in Actuals : Move(r, e, tokens)
             \/ Rebook(r)
             \/ Fail(r)
      PROVE  RowsAddUp'
  BY <1>2, <1>5, SettlingRows
<1>6. ASSUME NEW r \in Requests, Refuse(r) \/ Lose(r) PROVE RowsAddUp'
  <2>1. /\ chosen' = chosen /\ est' = est /\ used' = used /\ served' = served
        /\ net' = net /\ count' = count
    BY <1>6 DEF Refuse, Lose, request
  <2>2. \A q \in Requests : q # r => pc'[q] = pc[q]
    BY <1>6 DEF Refuse, Lose, TypeOK
  <2>3. pc'[r] = "lost" \/ (pc[r] = "idle" /\ pc'[r] = "refused")
    BY <1>6 DEF Refuse, Lose, TypeOK
  <2>4. RowsOf(r)'
    BY <1>1, <2>1, <2>3 DEF RowsOf, Owed
  <2>5. \A q \in Requests : q # r => Untouched(q)
    BY <2>1, <2>2 DEF Untouched
  <2> QED
    BY <1>2, <2>4, <2>5
<1>7. ASSUME Midnight \/ UNCHANGED vars PROVE RowsAddUp'
  BY <1>7 DEF Midnight, vars, request, RowsAddUp, Owed
<1> QED
  BY <1>3, <1>4, <1>5, <1>6, <1>7 DEF Next, Step

-----------------------------------------------------------------------------
(* The limits *)

LEMMA NextChecked == TypeOK /\ NoneChecked /\ [Next]_vars => NoneChecked'
<1> SUFFICES ASSUME TypeOK, NoneChecked, [Next]_vars, NEW q \in Requests, serialized
             PROVE  pc'[q] # "checked"
  BY DEF NoneChecked, Next, vars
<1>1. pc[q] # "checked" /\ pc \in [Requests -> Phases]
  BY DEF NoneChecked, TypeOK
<1>2. ASSUME NEW r \in Requests, NEW p \in Phases, p # "checked",
             pc' = [pc EXCEPT ![r] = p]
      PROVE  pc'[q] # "checked"
  BY <1>1, <1>2
<1>3. CASE UNCHANGED vars
  BY <1>1, <1>3 DEF vars
<1>4. "reserved" \in Phases /\ "refused" \in Phases /\ "done" \in Phases
      /\ "moved" \in Phases /\ "failed" \in Phases /\ "lost" \in Phases
  BY DEF Phases
<1>5. ASSUME NEW r \in Requests, NEW e \in Endpoints, NEW tokens \in Estimates,
             NEW today \in Todays, Reserve(r, e, tokens, today) \/ Check(r, e, tokens, today)
      PROVE  pc'[q] # "checked"
  <2>1. Reserve(r, e, tokens, today)
    BY <1>5 DEF Check
  <2> QED
    BY <1>2, <1>4, <2>1 DEF Reserve
<1>6. ASSUME NEW r \in Requests, Book(r) \/ Refuse(r) \/ Rebook(r) \/ Fail(r) \/ Lose(r)
      PROVE  pc'[q] # "checked"
  <2>1. \/ pc' = [pc EXCEPT ![r] = "reserved"]
        \/ pc' = [pc EXCEPT ![r] = "refused"]
        \/ pc' = [pc EXCEPT ![r] = "done"]
        \/ pc' = [pc EXCEPT ![r] = "failed"]
        \/ pc' = [pc EXCEPT ![r] = "lost"]
    BY <1>6 DEF Book, Refuse, Rebook, Fail, Lose
  <2> QED
    BY <1>2, <1>4, <2>1
<1>7. ASSUME NEW r \in Requests, NEW tokens \in Actuals, Complete(r, tokens)
      PROVE  pc'[q] # "checked"
  BY <1>2, <1>4, <1>7 DEF Complete
<1>8. ASSUME NEW r \in Requests, NEW e \in Endpoints, NEW tokens \in Actuals,
             Move(r, e, tokens)
      PROVE  pc'[q] # "checked"
  BY <1>2, <1>4, <1>8 DEF Move
<1>9. CASE Midnight
  BY <1>1, <1>9 DEF Midnight, request
<1> QED
  BY <1>3, <1>5, <1>6, <1>7, <1>8, <1>9 DEF Next, Step

LEMMA ReserveLimits ==
  ASSUME TypeOK, WithinLimits, NEW r \in Requests, NEW e \in Endpoints,
         NEW tokens \in Estimates, NEW today \in Todays, Reserve(r, e, tokens, today)
  PROVE  WithinLimits'
<1> SUFFICES ASSUME NEW d \in Days, NEW s \in Scopes, Limit[s] > 0
             PROVE  booked'[d][s] <= Limit[s] + overrun'[d][s]
  BY DEF WithinLimits
<1>1. /\ booked[d][s] \in Int /\ overrun[d][s] \in Nat /\ Limit[s] \in Nat
      /\ tokens \in Nat
  BY ScopesAssumption, AmountsAssumption DEF TypeOK
<1>2. booked[d][s] <= Limit[s] + overrun[d][s]
  BY DEF WithinLimits
<1>3. booked'[d][s] = IF d = day /\ s \in {e, Tenant}
                        THEN booked[d][s] + tokens ELSE booked[d][s]
  BY DEF Reserve, Insert, Add
<1>4. CASE today = day
  <2>1. overrun' = overrun
    BY <1>4 DEF Reserve
  <2>2. s \in {e, Tenant} => booked[day][s] + tokens <= Limit[s]
    BY <1>4 DEF Reserve, WithinQuota
  <2> QED
    BY <1>1, <1>2, <1>3, <2>1, <2>2
<1>5. CASE today # day
  <2>1. overrun'[d][s] = IF d = day /\ s \in {e, Tenant}
                           THEN overrun[d][s] + tokens ELSE overrun[d][s]
    BY <1>5 DEF Reserve, Add
  <2> QED
    BY <1>1, <1>2, <1>3, <2>1
<1> QED
  BY <1>4, <1>5

LEMMA NextLimits ==
  TypeOK /\ NoneChecked /\ QuotaHolds /\ [Next]_vars => QuotaHolds'
<1> SUFFICES ASSUME TypeOK, NoneChecked, QuotaHolds, [Next]_vars, serialized'
             PROVE  WithinLimits'
  BY DEF QuotaHolds
<1>1. serialized /\ WithinLimits
  BY DEF QuotaHolds, Next, vars
<1>2. ASSUME NEW r \in Requests, NEW e \in Endpoints, NEW tokens \in Estimates,
             NEW today \in Todays,
             Reserve(r, e, tokens, today) \/ Check(r, e, tokens, today)
      PROVE  WithinLimits'
  <2>1. Reserve(r, e, tokens, today)
    BY <1>1, <1>2 DEF Check
  <2> QED
    BY <1>1, <2>1, ReserveLimits
<1>3. ASSUME NEW r \in Requests, Book(r) PROVE WithinLimits'
  BY <1>1, <1>3 DEF Book, NoneChecked
<1>4. ASSUME NEW r \in Requests,
             \/ \E tokens \in Actuals : Complete(r, tokens)
             \/ \E e \in Endpoints, tokens \in Actuals : Move(r, e, tokens)
             \/ Rebook(r)
             \/ Fail(r)
      PROVE  WithinLimits'
  <2>1. /\ chosen[r] \in Endpoints /\ served[r] \in Endpoints
        /\ est[r] \in Nat /\ used[r] \in Nat /\ Actuals \subseteq Nat
    BY AmountsAssumption DEF TypeOK
  <2>2. PICK e \in Endpoints, reserved \in Nat, actual \in Nat, completed \in BOOLEAN :
          Settle(r, e, reserved, actual, completed)
    BY <1>4, <2>1 DEF Complete, Move, Rebook, Fail
  <2> QED
    BY <1>1, <2>2, SettleKeeps
<1>5. ASSUME \/ \E r \in Requests : Refuse(r) \/ Lose(r)
             \/ Midnight \/ UNCHANGED vars
      PROVE  WithinLimits'
  BY <1>1, <1>5 DEF Refuse, Lose, Midnight, vars, WithinLimits
<1> QED
  BY <1>2, <1>3, <1>4, <1>5 DEF Next, Step

-----------------------------------------------------------------------------
(* Theorems *)

\* The invariant of the ledger, for every tenant, limit and number of requests.
THEOREM LedgerInvariant == Spec => []LedgerInv
<1>1. LedgerInv /\ [Next]_vars => LedgerInv'
  BY NextType, NextRows, NextChecked, NextLimits DEF LedgerInv
<1> QED
  BY InitInv, <1>1, PTL DEF Spec

\* The ledger's variables keep their types; no request is counted twice.
THEOREM LedgerTypes == Spec => []TypeOK
<1>1. LedgerInv => TypeOK
  BY DEF LedgerInv
<1> QED
  BY LedgerInvariant, <1>1, PTL

\* The rows of a request add up to what it owes (settle_reserved_usage and
\* its callers), wherever and whenever they were written.
THEOREM RowsBalance == Spec => []RowsAddUp
<1>1. LedgerInv => RowsAddUp
  BY DEF LedgerInv
<1> QED
  BY LedgerInvariant, <1>1, PTL

\* A serialized reserve_usage keeps every day's sums within the limits, but
\* for usage beyond its estimate and reservations checked the day before.
THEOREM LimitsHold == Spec => []QuotaHolds
<1>1. LedgerInv => QuotaHolds
  BY DEF LedgerInv
<1> QED
  BY LedgerInvariant, <1>1, PTL

-----------------------------------------------------------------------------
(***************************************************************************)
(* ToolCalls                                                               *)
(***************************************************************************)

\* Rows of the registry, what an upstream offers, and answers of its list.
RowType == [content : Contents \union {None}, enabled : BOOLEAN]
OfferType == [content : Contents \union {None}, enabled : BOOLEAN \union {None}]
Answers == UNION {[S -> OfferType] : S \in SUBSET Items}

FederationTypeOK ==
  /\ registry \in [Items -> [RowScopes -> RowType \union {None}]]
  /\ offers \in [Items -> OfferType \union {None}]
  /\ syncs \in [Syncers -> [at : Nat, got : {Asked} \union Answers] \union {None}]

\* A call that is awaited.
CallType == [key : Keys, value : Values, waited : 0 .. CallTime, generation : Nat \union {None}]

ToolsTypeOK ==
  /\ since \in [Tools -> [Tenants -> [Values -> 0 .. Longest]]]
  /\ calls \in [Callers -> CallType \union {None}]
  /\ generation \in Nat

\* What a call would read is of age 0.
ReadNow ==
  \A n \in Tools, t \in Tenants, v \in Values : v \in Resolved(n, t) => since[n][t][v] = 0

\* An entry that lives is as old as its call and its time in the cache at most.
Good(key, value, left) ==
  /\ key \in Keys /\ value \in Values /\ left \in Int
  /\ left > 0 => since[key.tool][key.tenant][value] <= CallTime + Lifetime(key) - left

CacheAges == cache # None => \A e \in cache : Good(e.key, e.value, e.left)

\* What is awaited is as old as its call at most.
CallAges ==
  \A c \in Callers : calls[c] # None =>
    since[calls[c].key.tool][calls[c].key.tenant][calls[c].value] <= calls[c].waited

\* Inductive: the age of a value is bounded by the time its holder was waited
\* for and kept, and restarts at 0 whenever it is what would be read.
ToolsInv == FederationTypeOK /\ ToolsTypeOK /\ ReadNow /\ CacheAges /\ CallAges

-----------------------------------------------------------------------------
(* What the helpers return. *)

LEMMA OfTwo ==
  ASSUME NEW a \in Int, NEW b \in Int
  PROVE  /\ Max({a, b}) \in {a, b} /\ Max({a, b}) >= a /\ Max({a, b}) >= b
         /\ Min({a, b}) \in {a, b} /\ Min({a, b}) <= a /\ Min({a, b}) <= b
<1>1. \E x \in {a, b} : \A y \in {a, b} : x >= y
  OBVIOUS
<1>2. \E x \in {a, b} : \A y \in {a, b} : x <= y
  OBVIOUS
<1>3. Max({a, b}) \in {a, b} /\ \A y \in {a, b} : Max({a, b}) >= y
  BY <1>1 DEF Max
<1>4. Min({a, b}) \in {a, b} /\ \A y \in {a, b} : Min({a, b}) <= y
  BY <1>2 DEF Min
<1>5. QED
  BY <1>3, <1>4

LEMMA LifetimeNat ==
  ASSUME NEW key \in Keys
  PROVE  Lifetime(key) \in Nat /\ Lifetime(key) > 0
<1>1. Ttl[key.tool] \in Int
  BY ToolCacheAssumption
<1> DEFINE x == Ttl[key.tool]
<1> HIDE DEF x
<1>2. Max({1, x}) \in {1, x} /\ Max({1, x}) >= 1
  <2>1. 1 \in Int /\ x \in Int
    BY <1>1 DEF x
  <2>2. QED
    BY <2>1, OfTwo, Zenon
<1>3. Lifetime(key) = Max({1, x})
  BY DEF Lifetime, x
<1>4. QED
  BY <1>1, <1>2, <1>3 DEF x

LEMMA LongestNat == Longest \in Nat
<1>1. 1 \in Int /\ MaxTtl \in Int
  BY ToolCacheAssumption
<1>2. Max({1, MaxTtl}) \in {1, MaxTtl} /\ Max({1, MaxTtl}) >= 1
  BY <1>1, OfTwo, Zenon
<1>3. QED
  BY <1>1, <1>2, ToolCallsAssumption DEF Longest

LEMMA KeyType ==
  ASSUME NEW key \in Keys
  PROVE  key.tool \in Tools /\ key.tenant \in Tenants
BY ToolCallsAssumption DEF Tools

-----------------------------------------------------------------------------
(* The registries. *)

LEMMA MergedType ==
  ASSUME NEW a \in Items, NEW offer \in OfferType, NEW known \in RowType \union {None}
  PROVE  Merged(a, offer, known) \in RowType
<1> DEFINE kept == a.kind \in {"agents", "servers"} /\ known # None
<1>1. kept => known.content \in Contents \union {None} /\ known.enabled \in BOOLEAN
  BY DEF RowType
<1>2. offer.content \in Contents \union {None}
  BY DEF OfferType
<1>3. offer.enabled # None => offer.enabled \in BOOLEAN
  BY DEF OfferType
<1> DEFINE content == IF offer.content = None /\ kept THEN known.content
                      ELSE Scanned(a, offer.content)
           enabled == IF offer.enabled # None THEN offer.enabled
                      ELSE IF kept THEN known.enabled ELSE TRUE
<1>4. content \in Contents \union {None}
  <2>1. Scanned(a, offer.content) \in Contents \union {None}
    BY <1>2, FederationAssumption DEF Scanned
  <2>2. QED
    BY <1>1, <2>1
<1>5. enabled \in BOOLEAN
  BY <1>1, <1>3
<1>6. Merged(a, offer, known) = [content |-> content, enabled |-> enabled]
  BY DEF Merged
<1> HIDE DEF content, enabled
<1>7. QED
  BY <1>4, <1>5, <1>6 DEF RowType

LEMMA UpsertType ==
  ASSUME FederationTypeOK, NEW a \in Items, NEW s \in RowScopes, NEW row \in RowType
  PROVE  Upsert(a, s, row) \in [RowScopes -> RowType \union {None}]
BY DEF FederationTypeOK, Upsert

LEMMA KnownType ==
  ASSUME FederationTypeOK, NEW a \in Items
  PROVE  Known(a) \subseteq RowType \union {None}
BY DEF FederationTypeOK, Known, RowScopes

LEMMA MergeType ==
  ASSUME FederationTypeOK, NEW a \in Items, NEW offer \in OfferType, NEW known \in RowType \union {None}
  PROVE  Merge(a, offer, known) \in [RowScopes -> RowType \union {None}]
<1>1. Upsert(a, All, Merged(a, offer, known)) \in [RowScopes -> RowType \union {None}]
  BY MergedType, UpsertType DEF RowScopes
<1>2. registry[a] \in [RowScopes -> RowType \union {None}]
  BY DEF FederationTypeOK
<1>3. QED
  BY <1>1, <1>2 DEF Merge

LEMMA FederationInitType == FederationInit => FederationTypeOK
<1> SUFFICES ASSUME FederationInit PROVE FederationTypeOK
  OBVIOUS
<1>1. offers \in [Items -> OfferType \union {None}]
  <2>1. UNION {OfferValues[a] : a \in Items} \subseteq OfferType
    BY FederationAssumption DEF OfferType
  <2>2. QED
    BY <2>1, FederationAssumption DEF FederationInit
<1>2. registry \in [Items -> [RowScopes -> RowType \union {None}]]
  <2> DEFINE row(a, s) == IF \/ s # All \/ offers[a] = None \/ Skipped(a, offers[a])
                             \/ Refused(a, Merged(a, offers[a], None).content)
                          THEN None ELSE Merged(a, offers[a], None)
  <2>1. ASSUME NEW a \in Items, NEW s \in RowScopes
        PROVE  row(a, s) \in RowType \union {None}
    BY <1>1, MergedType
  <2>2. registry = [a \in Items |-> [s \in RowScopes |-> row(a, s)]]
    BY DEF FederationInit
  <2> HIDE DEF row
  <2>3. QED
    BY <2>1, <2>2
<1>3. QED
  BY <1>1, <1>2 DEF FederationInit, FederationTypeOK

LEMMA SyncType ==
  ASSUME FederationTypeOK, NEW s \in Syncers,
         NEW x \in [at : Nat, got : {Asked} \union Answers] \union {None}
  PROVE  [syncs EXCEPT ![s] = x] \in [Syncers -> [at : Nat, got : {Asked} \union Answers] \union {None}]
BY DEF FederationTypeOK

LEMMA FederationStepType == FederationTypeOK /\ FederationNext => FederationTypeOK'
<1> SUFFICES ASSUME FederationTypeOK, FederationNext PROVE FederationTypeOK'
  OBVIOUS
<1> DEFINE S == [at : Nat, got : {Asked} \union Answers] \union {None}
           R == [RowScopes -> RowType \union {None}]
<1>1. ASSUME NEW s \in Syncers, Sync(s) PROVE FederationTypeOK'
  BY <1>1, SyncType DEF Sync, FederationTypeOK
<1>2. ASSUME NEW s \in Syncers, FetchFails(s) PROVE FederationTypeOK'
  <2>1. <<>> \in Answers
    <3>1. <<>> \in [{} -> OfferType]
      OBVIOUS
    <3>2. QED
      BY <3>1 DEF Answers
  <2>2. syncs' \in [Syncers -> S]
    BY <1>2, <2>1 DEF FetchFails, FederationTypeOK
  <2>3. QED
    BY <1>2, <2>2 DEF FetchFails, FederationTypeOK
<1>3. ASSUME NEW s \in Syncers, MergeAnswer(s) PROVE FederationTypeOK'
  <2> DEFINE got == syncs[s].got
  <2>1. got \in Answers /\ syncs[s].at \in Nat
    BY <1>3 DEF MergeAnswer, FederationTypeOK
  <2>2. DOMAIN got \subseteq Items /\ \A a \in DOMAIN got : got[a] \in OfferType
    BY <2>1 DEF Answers
  <2>3. PICK known : /\ \A a \in DOMAIN got : known[a] \in Known(a)
                     /\ registry' = [a \in Items |-> IF a \in DOMAIN got THEN Merge(a, got[a], known[a])
                                                     ELSE registry[a]]
    BY <1>3 DEF MergeAnswer
  <2> HIDE DEF got
  <2>4. ASSUME NEW a \in DOMAIN got PROVE Merge(a, got[a], known[a]) \in R
    BY <2>2, <2>3, KnownType, MergeType
  <2>5. registry' \in [Items -> R]
    BY <2>3, <2>4 DEF FederationTypeOK
  <2>6. syncs' \in [Syncers -> S]
    <3>1. syncs' = [syncs EXCEPT ![s] = IF syncs[s].at = Len(Order) THEN None
                                        ELSE [at |-> syncs[s].at + 1, got |-> Asked]]
      BY <1>3 DEF MergeAnswer, FederationTypeOK
    <3>2. (IF syncs[s].at = Len(Order) THEN None ELSE [at |-> syncs[s].at + 1, got |-> Asked]) \in S
      BY <2>1
    <3>3. QED
      BY <3>1, <3>2, SyncType
  <2>7. QED
    BY <1>3, <2>5, <2>6 DEF MergeAnswer, FederationTypeOK
<1>4. ASSUME NEW s \in Syncers, NEW kind, Respond(s, kind) PROVE FederationTypeOK'
  <2> DEFINE of == {a \in Items : a.kind = kind /\ offers[a] # None}
  <2>1. Restrict(offers, of) \in [of -> OfferType]
    BY DEF Restrict, FederationTypeOK
  <2>2. Restrict(offers, of) \in Answers
    <3>1. of \in SUBSET Items
      OBVIOUS
    <3> HIDE DEF of
    <3>2. QED
      BY <2>1, <3>1 DEF Answers
  <2>3. syncs' = [syncs EXCEPT ![s] = [syncs[s] EXCEPT !.got = Restrict(offers, of)]]
    BY <1>4 DEF Respond, FederationTypeOK
  <2> HIDE DEF of
  <2>4. [syncs[s] EXCEPT !.got = Restrict(offers, of)] \in S
    BY <1>4, <2>2 DEF Respond, FederationTypeOK
  <2>5. syncs' \in [Syncers -> S]
    BY <2>3, <2>4, SyncType
  <2>6. QED
    BY <1>4, <2>5 DEF Respond, FederationTypeOK
<1>5. ASSUME NEW a \in Items, Change(a) PROVE FederationTypeOK'
  <2>1. OfferValues[a] \subseteq OfferType
    BY FederationAssumption DEF OfferType
  <2>2. offers' \in [Items -> OfferType \union {None}]
    BY <1>5, <2>1 DEF Change, FederationTypeOK
  <2>3. QED
    BY <1>5, <2>2 DEF Change, FederationTypeOK
<1>6. ASSUME NEW a \in Items, NEW s \in RowScopes, Delete(a, s) PROVE FederationTypeOK'
  BY <1>6 DEF Delete, FederationTypeOK
<1>7. ASSUME NEW a \in Items, NEW s \in RowScopes, NEW row \in RowType, Edit(a, s, row)
      PROVE  FederationTypeOK'
  <2>1. Upsert(a, s, row) \in R
    BY UpsertType
  <2>2. registry' \in [Items -> R]
    BY <1>7, <2>1 DEF Edit, FederationTypeOK
  <2>3. QED
    BY <1>7, <2>2 DEF Edit, FederationTypeOK
<1>8. Writable \subseteq RowType
  BY FederationAssumption DEF RowType
<1>9. QED
  BY <1>1, <1>2, <1>3, <1>4, <1>5, <1>6, <1>7, <1>8
  DEF FederationNext, SyncLoop, SyncNow, Syncers, RowType

LEMMA ResolvedType ==
  ASSUME FederationTypeOK, NEW n \in Tools, NEW t \in Tenants
  PROVE  Resolved(n, t) \subseteq Values
<1>1. ItemsOf[n] \in [tool : Items, agent : Items]
  BY ToolCallsAssumption DEF Tools
<1>2. ASSUME NEW a \in Items PROVE RowFor(a, t) \in RowType \union {None}
  BY DEF RowFor, FederationTypeOK, RowScopes
<1> DEFINE federated == RowFor(ItemsOf[n].tool, t)
           agents == RowFor(ItemsOf[n].agent, t)
<1>3. federated \in RowType \union {None} /\ agents \in RowType \union {None}
  BY <1>1, <1>2
<1>4. \/ Resolved(n, t) = {}
      \/ Resolved(n, t) = {[from |-> "tool", content |-> federated.content]} /\ federated # None
      \/ Resolved(n, t) = {[from |-> "agent", content |-> agents.content]} /\ agents # None
  BY DEF Resolved
<1> HIDE DEF federated, agents
<1>5. QED
  BY <1>3, <1>4 DEF Values, RowType

-----------------------------------------------------------------------------
(* The ages. *)

LEMMA WatchAges ==
  ASSUME ToolsTypeOK, NEW k \in Nat, Watch(k), NEW n \in Tools, NEW t \in Tenants, NEW v \in Values
  PROVE  /\ since'[n][t][v] \in 0 .. Longest
         /\ v \in Resolved(n, t)' => since'[n][t][v] = 0
         /\ v \in Held(n, t)' => since'[n][t][v] <= since[n][t][v] + k
<1> DEFINE old == since[n][t][v]
<1>1. since'[n][t][v] = IF v \in Resolved(n, t)' THEN 0
                        ELSE IF v \in Held(n, t)' THEN Min({Longest, old + k})
                        ELSE Longest
  BY DEF Watch
<1>2. old \in 0 .. Longest /\ Longest \in Nat
  BY LongestNat DEF ToolsTypeOK
<1> HIDE DEF old
<1>3. Min({Longest, old + k}) \in {Longest, old + k} /\ Min({Longest, old + k}) <= old + k
      /\ Min({Longest, old + k}) <= Longest
  <2>1. Longest \in Int /\ old + k \in Int
    BY <1>2
  <2>2. QED
    BY <2>1, OfTwo, Zenon
<1>4. QED
  BY <1>1, <1>2, <1>3 DEF old

LEMMA WatchType ==
  ASSUME ToolsTypeOK, NEW k \in Nat, Watch(k)
  PROVE  since' \in [Tools -> [Tenants -> [Values -> 0 .. Longest]]] /\ ReadNow'
<1> DEFINE age(n, t, v) == IF v \in Resolved(n, t)' THEN 0
                           ELSE IF v \in Held(n, t)' THEN Min({Longest, since[n][t][v] + k})
                           ELSE Longest
<1>1. since' = [n \in Tools |-> [t \in Tenants |-> [v \in Values |-> age(n, t, v)]]]
  BY DEF Watch
<1>2. \A n \in Tools, t \in Tenants, v \in Values : since'[n][t][v] \in 0 .. Longest
  BY WatchAges
<1> HIDE DEF age
<1>3. \A n \in Tools, t \in Tenants, v \in Values : since'[n][t][v] = age(n, t, v)
  BY <1>1
<1>4. since' \in [Tools -> [Tenants -> [Values -> 0 .. Longest]]]
  BY <1>1, <1>2, <1>3
<1>5. ReadNow'
  BY WatchAges DEF ReadNow
<1>6. QED
  BY <1>4, <1>5

(* The cache: what becomes of it has the ages of what was in it. *)

LEMMA FoundGood ==
  ASSUME ToolsTypeOK, CacheAges, NEW key \in Keys, NEW v \in Cached(key)
  PROVE  v \in Values /\ since[key.tool][key.tenant][v] <= CallTime + Lifetime(key)
<1>1. cache # None
  BY DEF Cached
<1>2. PICK e \in cache : e.key = key /\ e.left > 0 /\ e.value = v
  BY <1>1 DEF Cached, Found, EntriesOf
<1>3. Good(key, v, e.left) /\ e.left > 0
  BY <1>1, <1>2 DEF CacheAges
<1>4. v \in Values /\ since[key.tool][key.tenant][v] \in Int
  BY <1>3, KeyType DEF Good, ToolsTypeOK
<1>5. QED
  BY <1>3, <1>4, LifetimeNat, ToolCallsAssumption DEF Good

LEMMA BehindSame ==
  ASSUME NEW c, NEW e \in Behind(c)
  PROVE  \E x \in c : e.key = x.key /\ e.value = x.value /\ e.left = x.left
<1>1. PICK x \in c : e = Entry(x.key, x.value, x.left, 1 + Cardinality({y \in c : y.idle < x.idle}))
  BY DEF Behind
<1>2. e.key = x.key /\ e.value = x.value /\ e.left = x.left
  BY <1>1 DEF Entry
<1>3. QED
  BY <1>2

LEMMA UsedGood ==
  ASSUME CacheAges, cache # None, NEW key \in Keys, NEW e \in Used(cache, key)
  PROVE  Good(e.key, e.value, e.left)
<1>1. \E x \in cache : e.key = x.key /\ e.value = x.value /\ e.left = x.left
  <2>1. CASE e \in cache
    BY <2>1
  <2>2. CASE e \in Behind(Without(cache, key))
    BY <2>2, BehindSame DEF Without
  <2>3. CASE e \in {Entry(key, x.value, x.left, 0) : x \in {x \in EntriesOf(cache, key) : x.left > 0}}
    BY <2>3 DEF EntriesOf, Entry
  <2>4. QED
    BY <2>1, <2>2, <2>3 DEF Used
<1>2. QED
  BY <1>1 DEF CacheAges

LEMMA StoredGood ==
  ASSUME NEW c, \A x \in c : Good(x.key, x.value, x.left),
         NEW key \in Keys, NEW v \in Values,
         since[key.tool][key.tenant][v] <= CallTime,
         ToolsTypeOK, NEW e \in Stored(c, key, v)
  PROVE  Good(e.key, e.value, e.left)
<1>1. CASE \E x \in c : e.key = x.key /\ e.value = x.value /\ e.left = x.left
  BY <1>1
<1>2. CASE e = Entry(key, v, Lifetime(key), 0)
  <2>1. Lifetime(key) \in Nat
    BY LifetimeNat
  <2>2. since[key.tool][key.tenant][v] \in Int
    BY KeyType DEF ToolsTypeOK
  <2>3. Good(key, v, Lifetime(key))
    BY <2>1, <2>2, ToolCallsAssumption DEF Good
  <2>4. e.key = key /\ e.value = v /\ e.left = Lifetime(key)
    BY <1>2 DEF Entry
  <2>5. QED
    BY <2>3, <2>4
<1>3. QED
  <2> DEFINE live == {x \in Without(c, key) : x.left > 0}
  <2>1. e \in c \/ e = Entry(key, v, Lifetime(key), 0) \/ e \in Behind(live)
    BY DEF Stored
  <2>2. ASSUME e \in Behind(live)
        PROVE  \E x \in c : e.key = x.key /\ e.value = x.value /\ e.left = x.left
    <3>1. live \subseteq c
      BY DEF Without
    <3> HIDE DEF live
    <3>2. QED
      BY <2>2, <3>1, BehindSame
  <2>3. QED
    BY <1>1, <1>2, <2>1, <2>2

\* A step that takes no time keeps the ages.
LEMMA CacheKept ==
  ASSUME ToolsTypeOK, Watch(0),
         cache' # None => \A e \in cache' : Good(e.key, e.value, e.left)
  PROVE  CacheAges'
<1> SUFFICES ASSUME cache' # None, NEW e \in cache'
             PROVE  Good(e.key, e.value, e.left)'
  BY DEF CacheAges
<1>1. Good(e.key, e.value, e.left)
  OBVIOUS
<1> DEFINE n == e.key.tool
           t == e.key.tenant
<1>2. e.key \in Keys /\ n \in Tools /\ t \in Tenants /\ e.value \in Values
  BY <1>1, KeyType DEF Good
<1>3. e.value \in Held(n, t)'
  BY DEF Held
<1>4. since'[n][t][e.value] <= since[n][t][e.value] + 0
  BY <1>2, <1>3, WatchAges
<1>5. since'[n][t][e.value] <= since[n][t][e.value]
      /\ since'[n][t][e.value] \in Int /\ since[n][t][e.value] \in Int
  BY <1>2, <1>4, WatchAges DEF ToolsTypeOK
<1>6. Lifetime(e.key) \in Nat /\ CallTime \in Nat
  BY <1>2, LifetimeNat, ToolCallsAssumption
<1>7. QED
  BY <1>1, <1>5, <1>6 DEF Good

LEMMA CallsKept ==
  ASSUME ToolsTypeOK, ToolsTypeOK', NEW k \in Nat, Watch(k),
         \A c \in Callers : calls'[c] # None =>
           since[calls'[c].key.tool][calls'[c].key.tenant][calls'[c].value] + k <= calls'[c].waited
  PROVE  CallAges'
<1> SUFFICES ASSUME NEW c \in Callers, calls'[c] # None
             PROVE  since'[calls'[c].key.tool][calls'[c].key.tenant][calls'[c].value] <= calls'[c].waited
  BY DEF CallAges
<1>1. calls'[c] \in CallType
  BY DEF ToolsTypeOK
<1>2. PICK call \in CallType : call = calls'[c]
  BY <1>1
<1> DEFINE n == call.key.tool
           t == call.key.tenant
           v == call.value
<1>3. n \in Tools /\ t \in Tenants /\ v \in Values /\ call.waited \in Int
  BY KeyType, ToolCallsAssumption DEF CallType
<1>4. v \in Held(n, t)'
  BY <1>2 DEF Held
<1>5. since'[n][t][v] <= since[n][t][v] + k /\ since'[n][t][v] \in Int /\ since[n][t][v] \in Int
  BY <1>3, <1>4, WatchAges DEF ToolsTypeOK
<1>6. since[n][t][v] + k <= call.waited
  BY <1>2
<1>7. since'[n][t][v] <= call.waited
  <2> HIDE DEF n, t, v
  <2>1. QED
    BY <1>3, <1>5, <1>6
<1>8. QED
  BY <1>2, <1>7

-----------------------------------------------------------------------------
(* The steps. *)

\* What a step that takes no time has to keep, in the ages before it.
CacheStep == cache' # None => \A e \in cache' : Good(e.key, e.value, e.left)
CallStep ==
  /\ calls' \in [Callers -> CallType \union {None}]
  /\ \A c \in Callers : calls'[c] # None =>
       since[calls'[c].key.tool][calls'[c].key.tenant][calls'[c].value] <= calls'[c].waited
  /\ generation' \in Nat

LEMMA InstantKept ==
  ASSUME ToolsInv, FederationTypeOK', CacheStep, CallStep, Watch(0)
  PROVE  ToolsInv'
<1>1. ToolsTypeOK' /\ ReadNow'
  BY WatchType DEF ToolsInv, ToolsTypeOK, CallStep
<1>2. CacheAges'
  BY CacheKept DEF ToolsInv, CacheStep
<1>3. \A c \in Callers : calls'[c] # None =>
        since[calls'[c].key.tool][calls'[c].key.tenant][calls'[c].value] + 0 <= calls'[c].waited
  <2> SUFFICES ASSUME NEW c \in Callers, calls'[c] # None
               PROVE  since[calls'[c].key.tool][calls'[c].key.tenant][calls'[c].value] + 0 <= calls'[c].waited
    OBVIOUS
  <2>1. PICK call \in CallType : call = calls'[c]
    BY DEF CallStep
  <2>2. since[call.key.tool][call.key.tenant][call.value] \in Int
    BY KeyType DEF ToolsInv, ToolsTypeOK, CallType
  <2>3. since[call.key.tool][call.key.tenant][call.value] <= call.waited
    BY <2>1 DEF CallStep
  <2>4. QED
    BY <2>1, <2>2, <2>3
<1>4. CallAges'
  BY <1>1, <1>3, CallsKept DEF ToolsInv
<1>5. QED
  BY <1>1, <1>2, <1>4 DEF ToolsInv

LEMMA SameCalls == ToolsInv /\ UNCHANGED <<calls, generation>> => CallStep
BY DEF ToolsInv, ToolsTypeOK, CallAges, CallStep

LEMMA SameCache == ToolsInv /\ UNCHANGED cache => CacheStep
BY DEF ToolsInv, CacheAges, CacheStep

LEMMA AfterGetGood ==
  ASSUME ToolsInv, NEW key \in Keys, cache # None, NEW e \in AfterGet(key)
  PROVE  Good(e.key, e.value, e.left)
BY UsedGood DEF AfterGet, ToolsInv

LEMMA ReadAge ==
  ASSUME ToolsInv, NEW key \in Keys, NEW v \in Resolved(key.tool, key.tenant)
  PROVE  v \in Values /\ since[key.tool][key.tenant][v] = 0
<1>1. v \in Values
  BY KeyType, ResolvedType DEF ToolsInv
<1>2. QED
  BY <1>1, KeyType DEF ToolsInv, ReadNow

LEMMA ServeSteps ==
  ASSUME ToolsInv, NEW c \in Callers, Serve(c)
  PROVE  CacheStep /\ CallStep
<1>1. ASSUME NEW key \in Keys, cache' = AfterGet(key) PROVE CacheStep
  BY <1>1, AfterGetGood DEF CacheStep, AfterGet
<1>2. ASSUME NEW key \in Keys, Hit(c, key) PROVE CacheStep /\ CallStep
  BY <1>1, <1>2, SameCalls DEF Hit
<1>3. ASSUME NEW key \in Keys, Reject(c, key) PROVE CacheStep /\ CallStep
  BY <1>1, <1>3, SameCalls DEF Reject
<1>4. ASSUME NEW key \in Keys, Define(c, key) PROVE CacheStep /\ CallStep
  <2>1. PICK v \in Resolved(key.tool, key.tenant) :
          cache' = IF cache = None THEN None ELSE Stored(AfterGet(key), key, v)
    BY <1>4 DEF Define
  <2>2. v \in Values /\ since[key.tool][key.tenant][v] = 0
    BY ReadAge
  <2>3. since[key.tool][key.tenant][v] <= CallTime
    BY <2>2, ToolCallsAssumption
  <2>4. cache # None => \A x \in AfterGet(key) : Good(x.key, x.value, x.left)
    BY AfterGetGood
  <2>5. cache # None => \A e \in Stored(AfterGet(key), key, v) : Good(e.key, e.value, e.left)
    BY <2>2, <2>3, <2>4, StoredGood DEF ToolsInv
  <2>6. CacheStep
    BY <2>1, <2>5 DEF CacheStep
  <2>7. QED
    BY <1>4, <2>6, SameCalls DEF Define
<1>5. ASSUME NEW key \in Keys, Ask(c, key) PROVE CacheStep /\ CallStep
  <2>1. PICK v \in Resolved(key.tool, key.tenant) :
          calls' = [calls EXCEPT ![c] = [key |-> key, value |-> v, waited |-> 0,
                                         generation |-> IF cache = None THEN None ELSE generation]]
    BY <1>5 DEF Ask
  <2> DEFINE call == [key |-> key, value |-> v, waited |-> 0,
                      generation |-> IF cache = None THEN None ELSE generation]
  <2>2. v \in Values /\ since[key.tool][key.tenant][v] = 0
    BY ReadAge
  <2>3. call \in CallType
    BY <2>2, ToolCallsAssumption DEF CallType, ToolsInv, ToolsTypeOK
  <2>4. call.key = key /\ call.value = v /\ call.waited = 0
    OBVIOUS
  <2>5. calls' = [calls EXCEPT ![c] = call]
    BY <2>1
  <2> HIDE DEF call
  <2>6. generation' \in Nat
    BY <1>5 DEF Ask, ToolsInv, ToolsTypeOK
  <2>7. \A d \in Callers : calls'[d] = IF d = c THEN call ELSE calls[d]
    BY <2>5 DEF ToolsInv, ToolsTypeOK
  <2>8. ASSUME NEW d \in Callers, calls'[d] # None
        PROVE  since[calls'[d].key.tool][calls'[d].key.tenant][calls'[d].value] <= calls'[d].waited
    <3>1. CASE d = c
      BY <2>2, <2>4, <2>7, <3>1
    <3>2. CASE d # c
      BY <2>7, <2>8, <3>2 DEF ToolsInv, CallAges
    <3>3. QED
      BY <3>1, <3>2
  <2>9. CallStep
    BY <2>3, <2>5, <2>6, <2>8 DEF CallStep, ToolsInv, ToolsTypeOK
  <2>10. QED
    BY <1>1, <1>5, <2>9 DEF Ask
<1>6. ASSUME calls' = [calls EXCEPT ![c] = None], UNCHANGED generation PROVE CallStep
  <2>1. \A d \in Callers : calls'[d] = IF d = c THEN None ELSE calls[d]
    BY <1>6 DEF ToolsInv, ToolsTypeOK
  <2>2. QED
    BY <1>6, <2>1 DEF CallStep, ToolsInv, ToolsTypeOK, CallAges
<1>7. ASSUME Succeed(c) PROVE CacheStep /\ CallStep
  <2> DEFINE call == calls[c]
  <2>1. call \in CallType /\ calls[c] # None
    BY <1>7 DEF Succeed, ToolsInv, ToolsTypeOK
  <2>2. since[call.key.tool][call.key.tenant][call.value] <= call.waited
    BY <2>1 DEF ToolsInv, CallAges
  <2>3. call.key \in Keys /\ call.value \in Values /\ call.waited \in 0 .. CallTime
    BY <2>1 DEF CallType
  <2>4. since[call.key.tool][call.key.tenant][call.value] \in Int
    BY <2>3, KeyType DEF ToolsInv, ToolsTypeOK
  <2>5. \/ UNCHANGED cache
        \/ cache # None /\ cache' = Stored(cache, call.key, call.value)
    BY <1>7 DEF Succeed
  <2> HIDE DEF call
  <2>6. since[call.key.tool][call.key.tenant][call.value] <= CallTime
    BY <2>2, <2>3, <2>4, ToolCallsAssumption
  <2>7. cache # None => \A e \in Stored(cache, call.key, call.value) : Good(e.key, e.value, e.left)
    BY <2>3, <2>6, StoredGood DEF ToolsInv, CacheAges
  <2>8. CacheStep
    BY <2>5, <2>7, SameCache DEF CacheStep
  <2>9. QED
    BY <1>6, <1>7, <2>8 DEF Succeed
<1>8. ASSUME CallFails(c) PROVE CacheStep /\ CallStep
  BY <1>6, <1>8, SameCache DEF CallFails
<1>9. QED
  BY <1>2, <1>3, <1>4, <1>5, <1>7, <1>8 DEF Serve

LEMMA StopSteps ==
  ASSUME ToolsInv, Invalidate \/ Reload \/ Restart
  PROVE  CacheStep /\ CallStep /\ FederationTypeOK'
<1>1. ASSUME Invalidate PROVE CacheStep /\ CallStep /\ FederationTypeOK'
  <2>1. cache # None /\ (cache' = {} \/ \E tool \in Tools : cache' = Invalidated(cache, tool))
    BY <1>1 DEF Invalidate
  <2>2. CacheStep
    BY <2>1 DEF Invalidated, CacheStep, ToolsInv, CacheAges
  <2>3. QED
    BY <1>1, <2>2, SameCalls DEF Invalidate, ToolsInv, FederationTypeOK
<1>2. ASSUME Reload PROVE CacheStep /\ CallStep /\ FederationTypeOK'
  <2>1. CacheStep
    BY <1>2, SameCache DEF Reload, CacheStep
  <2>2. CallStep
    BY <1>2 DEF Reload, ToolsInv, ToolsTypeOK, CallAges, CallStep
  <2>3. QED
    BY <1>2, <2>1, <2>2 DEF Reload, ToolsInv, FederationTypeOK
<1>3. ASSUME Restart PROVE CacheStep /\ CallStep /\ FederationTypeOK'
  <2>1. CacheStep
    BY <1>3 DEF Restart, CacheStep
  <2>2. CallStep
    BY <1>3 DEF Restart, Idle, CallStep
  <2>3. QED
    BY <1>3, <2>1, <2>2 DEF Restart, ToolsInv, FederationTypeOK
<1>4. QED
  BY <1>1, <1>2, <1>3

LEMMA TickKept == ToolsInv /\ Tick /\ Watch(1) => ToolsInv'
<1> SUFFICES ASSUME ToolsInv, Tick, Watch(1) PROVE ToolsInv'
  OBVIOUS
<1>1. FederationTypeOK'
  BY DEF Tick, federation, ToolsInv, FederationTypeOK
<1>2. \A c \in Callers : calls'[c] = IF calls[c] = None THEN None
                                     ELSE [calls[c] EXCEPT !.waited = calls[c].waited + 1]
  BY DEF Tick
<1>3. ASSUME NEW c \in Callers, calls[c] # None
      PROVE  /\ calls'[c] \in CallType /\ calls'[c].key = calls[c].key
             /\ calls'[c].value = calls[c].value /\ calls'[c].waited = calls[c].waited + 1
  <2>1. PICK call \in CallType : call = calls[c]
    BY <1>3 DEF ToolsInv, ToolsTypeOK
  <2>2. call.waited < CallTime /\ call.waited \in Nat
    BY <1>3, <2>1, ToolCallsAssumption DEF Tick, CallType
  <2>3. calls'[c] = [call EXCEPT !.waited = call.waited + 1]
    BY <1>2, <1>3, <2>1
  <2>4. QED
    BY <2>1, <2>2, <2>3, ToolCallsAssumption DEF CallType
<1>4. calls' \in [Callers -> CallType \union {None}]
  <2>1. \A c \in Callers : calls'[c] \in CallType \union {None}
    BY <1>2, <1>3
  <2>2. QED
    BY <2>1 DEF Tick
<1>5. ToolsTypeOK' /\ ReadNow'
  BY <1>4, WatchType DEF ToolsInv, ToolsTypeOK, Tick
<1>6. ASSUME NEW c \in Callers, calls'[c] # None
      PROVE  since[calls'[c].key.tool][calls'[c].key.tenant][calls'[c].value] + 1 <= calls'[c].waited
  <2>1. calls[c] # None
    BY <1>2, <1>6
  <2>2. PICK call \in CallType : call = calls[c]
    BY <2>1 DEF ToolsInv, ToolsTypeOK
  <2>3. since[call.key.tool][call.key.tenant][call.value] <= call.waited
    BY <2>1, <2>2 DEF ToolsInv, CallAges
  <2>4. since[call.key.tool][call.key.tenant][call.value] \in Int /\ call.waited \in Int
    BY KeyType, ToolCallsAssumption DEF ToolsInv, ToolsTypeOK, CallType
  <2>5. calls'[c].key = call.key /\ calls'[c].value = call.value /\ calls'[c].waited = call.waited + 1
    BY <1>3, <2>1, <2>2
  <2>6. QED
    BY <2>3, <2>4, <2>5
<1>7. CallAges'
  BY <1>5, <1>6, CallsKept DEF ToolsInv
<1>8. CacheAges'
  <2> SUFFICES ASSUME cache' # None, NEW e \in cache'
               PROVE  Good(e.key, e.value, e.left)'
    BY DEF CacheAges
  <2>1. cache # None /\ cache' = {Entry(x.key, x.value, Max({0, x.left - 1}), x.idle) : x \in cache}
    BY DEF Tick
  <2>2. PICK x \in cache : e = Entry(x.key, x.value, Max({0, x.left - 1}), x.idle)
    BY <2>1
  <2>3. e.key = x.key /\ e.value = x.value /\ e.left = Max({0, x.left - 1})
    BY <2>2 DEF Entry
  <2>4. Good(x.key, x.value, x.left)
    BY <2>1 DEF ToolsInv, CacheAges
  <2> DEFINE n == x.key.tool
             t == x.key.tenant
             old == since[n][t][x.value]
             new == since'[n][t][x.value]
  <2>5. x.key \in Keys /\ n \in Tools /\ t \in Tenants /\ x.value \in Values /\ x.left \in Int
    BY <2>4, KeyType DEF Good
  <2>6. x.value \in Held(n, t)'
    BY <2>3 DEF Held
  <2>7. new <= old + 1 /\ new \in Int /\ old \in Int
    BY <2>5, <2>6, WatchAges DEF ToolsInv, ToolsTypeOK
  <2>8. e.left \in {0, x.left - 1}
    <3>1. 0 \in Int /\ x.left - 1 \in Int
      BY <2>5
    <3>2. Max({0, x.left - 1}) \in {0, x.left - 1}
      BY <3>1, OfTwo, Zenon
    <3>3. QED
      BY <2>3, <3>2
  <2>9. Lifetime(x.key) \in Nat /\ CallTime \in Nat
    BY <2>5, LifetimeNat, ToolCallsAssumption
  <2>10. x.left > 0 => old <= CallTime + Lifetime(x.key) - x.left
    BY <2>4 DEF Good
  <2>11. e.left > 0 => new <= CallTime + Lifetime(x.key) - e.left
    <3> HIDE DEF old, new
    <3>1. QED
      BY <2>5, <2>7, <2>8, <2>9, <2>10
  <2>12. QED
    BY <2>3, <2>5, <2>8, <2>11 DEF Good
<1>9. QED
  BY <1>1, <1>5, <1>7, <1>8 DEF ToolsInv

LEMMA ToolsInitInv == ToolsInit => ToolsInv
<1> SUFFICES ASSUME ToolsInit PROVE ToolsInv
  OBVIOUS
<1>1. FederationTypeOK
  BY FederationInitType DEF ToolsInit
<1>2. since \in [Tools -> [Tenants -> [Values -> 0 .. Longest]]] /\ ReadNow
  BY LongestNat DEF ToolsInit, ReadNow
<1>3. ToolsTypeOK /\ CallAges
  BY <1>2 DEF ToolsInit, Idle, ToolsTypeOK, CallAges
<1>4. CacheAges
  BY DEF ToolsInit, CacheAges
<1>5. QED
  BY <1>1, <1>2, <1>3, <1>4 DEF ToolsInv

LEMMA ToolsNextInv == ToolsInv /\ [ToolsNext]_toolsVars => ToolsInv'
<1> SUFFICES ASSUME ToolsInv, [ToolsNext]_toolsVars PROVE ToolsInv'
  OBVIOUS
<1>1. CASE FederationNext /\ UNCHANGED <<toolVars, stops>> /\ Watch(0)
  <2>1. FederationTypeOK'
    BY <1>1, FederationStepType DEF ToolsInv
  <2>2. CacheStep /\ CallStep
    BY <1>1, SameCache, SameCalls DEF toolVars
  <2>3. QED
    BY <1>1, <2>1, <2>2, InstantKept
<1>2. ASSUME NEW c \in Callers, Serve(c), UNCHANGED <<federation, stops>>, Watch(0) PROVE ToolsInv'
  <2>1. FederationTypeOK'
    BY <1>2 DEF federation, ToolsInv, FederationTypeOK
  <2>2. CacheStep /\ CallStep
    BY <1>2, ServeSteps
  <2>3. QED
    BY <1>2, <2>1, <2>2, InstantKept
<1>3. CASE (Invalidate \/ Reload \/ Restart) /\ Watch(0)
  BY <1>3, StopSteps, InstantKept
<1>4. CASE Tick /\ Watch(1)
  BY <1>4, TickKept
<1>5. CASE UNCHANGED toolsVars
  <2>1. UNCHANGED <<federation, cache, generation, calls, since>>
    BY <1>5 DEF toolsVars, toolVars
  <2>2. FederationTypeOK' /\ ToolsTypeOK'
    BY <2>1 DEF federation, ToolsInv, FederationTypeOK, ToolsTypeOK
  <2>3. CacheAges'
    BY <2>1 DEF ToolsInv, CacheAges, Good
  <2>4. CallAges'
    BY <2>1 DEF ToolsInv, CallAges
  <2>5. ReadNow'
    <3>1. \A n \in Tools, t \in Tenants : Resolved(n, t)' = Resolved(n, t)
      BY <2>1 DEF federation, Resolved, RowFor
    <3>2. QED
      BY <2>1, <3>1 DEF ToolsInv, ReadNow
  <2>6. QED
    BY <2>2, <2>3, <2>4, <2>5 DEF ToolsInv
<1>6. QED
  BY <1>1, <1>2, <1>3, <1>4, <1>5 DEF ToolsNext

LEMMA InvFresh == ToolsInv => Fresh
<1> SUFFICES ASSUME ToolsInv PROVE Fresh
  OBVIOUS
<1>1. \A key \in Keys : \A v \in Cached(key) :
        since[key.tool][key.tenant][v] <= CallTime + Lifetime(key)
  BY FoundGood DEF ToolsInv
<1>2. ASSUME NEW c \in Callers, calls[c] # None
      PROVE  since[calls[c].key.tool][calls[c].key.tenant][calls[c].value] <= CallTime
  <2>1. PICK call \in CallType : call = calls[c]
    BY <1>2 DEF ToolsInv, ToolsTypeOK
  <2>2. since[call.key.tool][call.key.tenant][call.value] <= call.waited
    BY <1>2, <2>1 DEF ToolsInv, CallAges
  <2>3. since[call.key.tool][call.key.tenant][call.value] \in Int /\ call.waited \in 0 .. CallTime
    BY KeyType DEF ToolsInv, ToolsTypeOK, CallType
  <2>4. QED
    BY <2>1, <2>2, <2>3, ToolCallsAssumption
<1>3. QED
  BY <1>1, <1>2 DEF Fresh

\* Every entry of the cache, and every call that is awaited, is as old as its
\* life and its wait allow.
THEOREM ToolsInvariant == ToolsSpec => []ToolsInv
<1>1. QED
  BY ToolsInitInv, ToolsNextInv, PTL DEF ToolsSpec

\* What a tenant is answered with was the answer a call and an entry's life ago
\* at most, whatever changed meanwhile (tool_cache.py, app.py).
THEOREM AnswersAreFresh == ToolsSpec => []Fresh
<1>1. QED
  BY ToolsInvariant, InvFresh, PTL
=============================================================================
