------------------------- MODULE EventDeliveryProofs -------------------------
(***************************************************************************)
(* Theorems of EventDelivery, for any number of streams, events, hooks and *)
(* permits, any filters and any sizes of the ring and the queues.          *)
(*                                                                         *)
(* The streams and the deliveries share only the events published, and     *)
(* have an invariant each.  For a stream it is where its subscription      *)
(* joined the notifications (Joined); for the deliveries it is which rows  *)
(* of the log each of them has left (LogInv), which rests on ids that are  *)
(* never given again and on one dispatch per event (DispatchedInOrder).    *)
(***************************************************************************)
EXTENDS EventDelivery, FiniteSetTheorems, TLAPS

(* The streams *)

\* The events whose tasks of publish() have run: the first ones published.
Notified == Len(published) - Len(pending)
Dispatched == Len(published) - Len(dispatches)

NotifiedInOrder ==
  /\ Len(pending) <= Len(published)
  /\ \A i \in DOMAIN pending : pending[i] = Notified + i

DispatchedInOrder ==
  /\ Len(dispatches) <= Len(published)
  /\ \A i \in DOMAIN dispatches :
       dispatches[i] = <<Dispatched + i, published[Dispatched + i]>>

\* A stream that replays has shown the events before those still to yield.
Replaying(v) ==
  /\ \A i, j \in DOMAIN seen[v] : i < j => seen[v][i] < seen[v][j]
  /\ \A i \in DOMAIN seen[v] :
       seen[v][i] <= since[v] /\ \A ev \in replay[v] : seen[v][i] < ev

\* A live stream that showed m events of its replay subscribed after s were
\* notified: from there on it has each event in order, but for those dropped.
Joined(v, s, m) ==
  /\ \A i, j \in DOMAIN seen[v] : i < j /\ (j <= m \/ m < i) => seen[v][i] < seen[v][j]
  /\ \A i \in DOMAIN seen[v] : IF i <= m THEN seen[v][i] <= since[v]
                               ELSE s < seen[v][i] /\ seen[v][i] <= Notified
  /\ \A i, j \in DOMAIN queue[v] : i < j => queue[v][i] < queue[v][j]
  /\ \A i \in DOMAIN queue[v] : s < queue[v][i] /\ queue[v][i] <= Notified
  /\ \A i \in DOMAIN seen[v], j \in DOMAIN queue[v] : m < i => seen[v][i] < queue[v][j]
  /\ \A ev \in Event : s < ev /\ ev <= Notified /\ Visible(v, ev) /\ ev \notin dropped[v]
       => \/ \E i \in DOMAIN seen[v] : m < i /\ seen[v][i] = ev
          \/ \E i \in DOMAIN queue[v] : queue[v][i] = ev

StreamInv(v) ==
  /\ \A ev \in replay[v] : Visible(v, ev) /\ ev <= since[v]
  /\ \A i \in DOMAIN seen[v] : Visible(v, seen[v][i])
  /\ phase[v] # "replay" => replay[v] = {}
  /\ ~Subscribed(v) => queue[v] = <<>>
  /\ phase[v] = "new" => seen[v] = <<>>
  /\ phase[v] = "replay" => Replaying(v)
  /\ phase[v] = "live" => \E s \in 0 .. Notified, m \in 0 .. Len(seen[v]) : Joined(v, s, m)

StreamsInv == BusTypeOK /\ NotifiedInOrder /\ \A v \in Readers : StreamInv(v)

-----------------------------------------------------------------------------
(* The deliveries *)

HooksInv ==
  \A n \in Names : hooks[n] # NoHook =>
    /\ hooks[n].id <= edits /\ hooks[n].url = hooks[n].tenant
    /\ \A other \in Names : hooks[other] # NoHook /\ hooks[other].id = hooks[n].id => other = n

JobsInv ==
  \A k \in DOMAIN job :
    /\ k[1] \in 1 .. Dispatched /\ k[2] <= edits
    /\ job[k].hook.url \in {All, published[k[1]]}
    /\ job[k].attempt \in 1 .. Attempts(job[k].hook)
    /\ job[k].stage = "waiting" => job[k].attempt = 1
    /\ job[k].stage = "asleep" => ~Spent(k)

\* The deliveries that hold a permit, and how many of them a stage makes.
Held == {k \in DOMAIN job : job[k].stage \in {"sending", "asleep"}}
Takes(stage) == IF stage \in {"sending", "asleep"} THEN 1 ELSE 0

LogRows == [hook : 1 .. MaxHooks, event : Nat, attempt : Nat, ok : BOOLEAN, kept : BOOLEAN]
RowsOf(k) == {r \in log : r.hook = k[2] /\ r.event = k[1]}

LogInv ==
  /\ \A r \in log : r.hook <= edits /\ r.event <= Dispatched
  /\ \A k \in DOMAIN job : k[2] \in Ids =>
       /\ \A r, q \in RowsOf(k) : r.attempt = q.attempt => r = q
       /\ \A r \in RowsOf(k) : r.attempt \in 1 .. Attempted(k)
       /\ \A n \in 1 .. Attempted(k) : \E r \in RowsOf(k) : r.attempt = n
       /\ \A r \in RowsOf(k) : r.ok => job[k].stage = "done" /\ r.attempt = job[k].attempt

DeliveriesInv == HooksTypeOK /\ DispatchedInOrder /\ HooksInv /\ JobsInv /\ LogInv

DeliveryInv == StreamsInv /\ DeliveriesInv

-----------------------------------------------------------------------------
(* The steps of the streams *)

LEMMA WiderSequence ==
  ASSUME NEW S, NEW T, S \subseteq T, NEW s \in Seq(S)
  PROVE  s \in Seq(T)
  OBVIOUS

\* What a stream's invariant reads of another stream does not matter.
LEMMA StreamFramed ==
  ASSUME NEW v \in Readers, StreamInv(v), UNCHANGED <<published, pending>>,
         phase'[v] = phase[v], replay'[v] = replay[v], queue'[v] = queue[v],
         seen'[v] = seen[v], since'[v] = since[v], dropped'[v] = dropped[v]
  PROVE  StreamInv(v)'
<1>1. Notified' = Notified /\ Event' = Event
  BY DEF Notified, Event
<1>2. \A ev : Visible(v, ev)' = Visible(v, ev)
  BY DEF Visible
<1>3. Subscribed(v)' = Subscribed(v) /\ (Replaying(v)' = Replaying(v))
  BY DEF Subscribed, Replaying
<1>4. ASSUME NEW s, NEW m PROVE Joined(v, s, m) => Joined(v, s, m)'
  BY <1>1, <1>2 DEF Joined
<1> QED
  BY <1>1, <1>2, <1>3, <1>4 DEF StreamInv

LEMMA EmitStreams ==
  ASSUME StreamsInv, NEW t \in Tenants \union {NoTenant}, Publish(t)
  PROVE  StreamsInv'
<1> USE BusAssumption
<1>1. /\ published \in Seq(Tenants \union {NoTenant}) /\ pending \in Seq(Event)
      /\ Len(published) < MaxEvents
      /\ published' = Append(published, t)
      /\ pending' = Append(pending, Len(published) + 1)
      /\ UNCHANGED <<phase, replay, queue, seen, since, dropped>>
  BY DEF StreamsInv, BusTypeOK, Publish
<1>2. /\ Len(published') = Len(published) + 1 /\ Event \subseteq Event'
      /\ Len(published) + 1 \in Event'
      /\ \A ev \in Event : published'[ev] = published[ev]
  BY <1>1 DEF Event
<1>3. BusTypeOK'
  <2>1. published' \in Seq(Tenants \union {NoTenant}) /\ Len(published') <= MaxEvents
    BY <1>1, <1>2
  <2>2. pending \in Seq(Event')
    BY <1>1, <1>2, WiderSequence
  <2>3. pending' \in Seq(Event')
    BY <1>1, <1>2, <2>2
  <2>4. replay' \in [Readers -> SUBSET Event'] /\ dropped' \in [Readers -> SUBSET Event']
    BY <1>1, <1>2 DEF StreamsInv, BusTypeOK
  <2>5. ASSUME NEW v \in Readers PROVE seen[v] \in Seq(Event') /\ queue[v] \in Seq(Event')
    <3>1. seen[v] \in Seq(Event) /\ queue[v] \in Seq(Event)
      BY DEF StreamsInv, BusTypeOK
    <3> QED
      BY <3>1, <1>2, WiderSequence
  <2>6. seen' \in [Readers -> Seq(Event')] /\ queue' \in [Readers -> Seq(Event')]
    BY <1>1, <2>5 DEF StreamsInv, BusTypeOK
  <2> QED
    BY <1>1, <2>1, <2>3, <2>4, <2>6 DEF StreamsInv, BusTypeOK
<1>4. Notified' = Notified
  BY <1>1, <1>2 DEF Notified
<1>5. NotifiedInOrder'
  BY <1>1, <1>2, <1>4 DEF StreamsInv, NotifiedInOrder, Notified
<1>6. ASSUME NEW v \in Readers PROVE StreamInv(v)'
  <2>1. \A ev \in Event : Visible(v, ev)' = Visible(v, ev)
    BY <1>2 DEF Visible
  <2>2. Notified <= Len(published) /\ Notified \in Nat
    BY <1>1 DEF StreamsInv, NotifiedInOrder, Notified
  <2>3. ASSUME NEW s \in Nat, NEW m, Joined(v, s, m) PROVE Joined(v, s, m)'
    <3>1. \A ev \in Event' : s < ev /\ ev <= Notified => ev \in Event
      BY <1>2, <2>2 DEF Event
    <3> QED
      BY <1>1, <1>4, <2>1, <2>3, <3>1 DEF Joined
  <2>4. (Subscribed(v)' = Subscribed(v)) /\ (Replaying(v)' = Replaying(v))
    BY <1>1 DEF Subscribed, Replaying
  <2>5. seen[v] \in Seq(Event) /\ replay[v] \subseteq Event
    BY DEF StreamsInv, BusTypeOK
  <2>6. \A i \in DOMAIN seen[v] : seen[v][i] \in Event
    BY <2>5
  <2>7. StreamInv(v)
    BY DEF StreamsInv
  <2> QED
    BY <1>1, <1>4, <2>1, <2>2, <2>3, <2>4, <2>5, <2>6, <2>7 DEF StreamInv
<1> QED
  BY <1>3, <1>5, <1>6 DEF StreamsInv

LEMMA NotifyStreams ==
  ASSUME StreamsInv, Notify
  PROVE  StreamsInv'
<1> USE BusAssumption
<1> DEFINE full == {v \in Readers : Subscribed(v) /\ Len(queue[v]) >= MaxQueue}
<1>1. /\ published \in Seq(Tenants \union {NoTenant}) /\ pending \in Seq(Event)
      /\ pending # <<>> /\ pending' = Tail(pending)
      /\ queue' = [v \in Readers |-> IF Subscribed(v) /\ v \notin full
                                     THEN Append(queue[v], Head(pending)) ELSE queue[v]]
      /\ dropped' = [v \in Readers |-> dropped[v] \union
                                       (IF v \in full THEN {Head(pending)} ELSE {})]
      /\ UNCHANGED <<published, phase, replay, seen, since>>
  BY DEF StreamsInv, BusTypeOK, Notify
<1> HIDE DEF full
<1>2. /\ Head(pending) \in Event /\ Head(pending) = Notified + 1
      /\ Notified \in Nat /\ Notified' = Notified + 1
  BY <1>1 DEF StreamsInv, NotifiedInOrder, Notified, Event
<1>3. Event' = Event
  BY <1>1 DEF Event
<1>4. BusTypeOK'
  <2>1. pending' \in Seq(Event')
    BY <1>1, <1>3
  <2>2. ASSUME NEW v \in Readers
        PROVE  queue'[v] \in Seq(Event') /\ Len(queue'[v]) <= MaxQueue
    <3>1. queue[v] \in Seq(Event) /\ Len(queue[v]) <= MaxQueue
      BY DEF StreamsInv, BusTypeOK
    <3>2. CASE Subscribed(v) /\ v \notin full
      <4>1. queue'[v] = Append(queue[v], Head(pending)) /\ Len(queue[v]) < MaxQueue
        BY <1>1, <3>1, <3>2 DEF full
      <4> QED
        BY <1>2, <1>3, <3>1, <4>1
    <3>3. CASE ~(Subscribed(v) /\ v \notin full)
      <4>1. queue'[v] = queue[v]
        BY <1>1, <3>3
      <4> QED
        BY <1>3, <3>1, <4>1
    <3> QED
      BY <3>2, <3>3
  <2>3. queue' \in [Readers -> Seq(Event')]
    BY <1>1, <2>2
  <2>4. dropped' \in [Readers -> SUBSET Event']
    BY <1>1, <1>2, <1>3 DEF StreamsInv, BusTypeOK
  <2> QED
    BY <1>1, <1>3, <2>1, <2>2, <2>3, <2>4 DEF StreamsInv, BusTypeOK
<1>5. NotifiedInOrder'
  <2>1. /\ pending \in Seq(Event) /\ pending # <<>> /\ pending' = Tail(pending)
        /\ Len(pending) <= Len(published) /\ published' = published
        /\ Len(published) \in Nat
    BY <1>1 DEF StreamsInv, BusTypeOK, NotifiedInOrder
  <2>2. \A i \in DOMAIN pending : pending[i] = Notified + i
    BY DEF StreamsInv, NotifiedInOrder
  <2>3. Len(pending') <= Len(published')
    BY <2>1
  <2>4. ASSUME NEW i \in DOMAIN pending' PROVE pending'[i] = Notified' + i
    <3>1. i \in Nat /\ i + 1 \in DOMAIN pending /\ pending'[i] = pending[i + 1]
      BY <2>1
    <3> QED
      BY <1>2, <2>2, <3>1
  <2> QED
    BY <2>3, <2>4 DEF NotifiedInOrder
<1>6. ASSUME NEW v \in Readers PROVE StreamInv(v)'
  <2>1. StreamInv(v) /\ queue[v] \in Seq(Event) /\ seen[v] \in Seq(Event)
    BY DEF StreamsInv, BusTypeOK
  <2>2. \A ev : Visible(v, ev)' = Visible(v, ev)
    BY <1>1 DEF Visible
  <2>3. (Subscribed(v)' = Subscribed(v)) /\ (Replaying(v)' = Replaying(v))
    BY <1>1 DEF Subscribed, Replaying
  <2>4. ~Subscribed(v) => queue'[v] = queue[v]
    BY <1>1
  <2>5. ASSUME NEW s \in 0 .. Notified, NEW m \in 0 .. Len(seen[v]), Joined(v, s, m),
               phase[v] = "live"
        PROVE  Joined(v, s, m)'
    <3>1. \A i \in DOMAIN queue[v] : queue[v][i] \in Event
      BY <2>1
    <3>2. \A i \in DOMAIN seen[v] : seen[v][i] \in Event
      BY <2>1
    <3>5. Event \subseteq Nat /\ s \in Nat /\ m \in Nat
      BY <1>1, <1>2, <2>1 DEF Event
    <3>6. /\ \A i, j \in DOMAIN queue[v] : i < j => queue[v][i] < queue[v][j]
          /\ \A i \in DOMAIN queue[v] :
               queue[v][i] \in Nat /\ s < queue[v][i] /\ queue[v][i] <= Notified
      BY <2>5, <3>1, <3>5 DEF Joined
    <3>7. /\ \A i \in DOMAIN seen[v] : i \in Nat /\ seen[v][i] \in Nat
          /\ \A i \in DOMAIN seen[v] : IF i <= m THEN seen[v][i] <= since[v]
                                        ELSE s < seen[v][i] /\ seen[v][i] <= Notified
      <4>1. \A i \in DOMAIN seen[v] : i \in Nat
        BY <2>1
      <4>2. \A i \in DOMAIN seen[v] : seen[v][i] \in Nat
        BY <3>2, <3>5
      <4> QED
        BY <2>5, <4>1, <4>2 DEF Joined
    <3>8. s <= Notified
      BY <1>2, <2>5
    <3>3. CASE v \in full
      <4>1. queue'[v] = queue[v] /\ dropped'[v] = dropped[v] \union {Head(pending)}
        BY <1>1, <3>3
      <4>2. ASSUME NEW ev \in Event, ev <= Notified', ev \notin dropped'[v]
            PROVE  ev <= Notified /\ ev \notin dropped[v]
        BY <1>2, <3>5, <4>1, <4>2
      <4>3. ASSUME NEW i \in DOMAIN queue[v] PROVE queue[v][i] <= Notified'
        <5>1. queue[v][i] <= Notified /\ queue[v][i] \in Nat
          BY <3>6
        <5> QED
          BY <1>2, <5>1
      <4>4. ASSUME NEW i \in DOMAIN seen[v], ~(i <= m)
            PROVE  s < seen[v][i] /\ seen[v][i] <= Notified'
        <5>1. s < seen[v][i] /\ seen[v][i] <= Notified /\ seen[v][i] \in Nat
          BY <3>7, <4>4
        <5> QED
          BY <1>2, <5>1
      <4>5. \A ev \in Event : s < ev /\ ev <= Notified' /\ Visible(v, ev) /\ ev \notin dropped'[v]
              => \/ \E i \in DOMAIN seen[v] : m < i /\ seen[v][i] = ev
                 \/ \E i \in DOMAIN queue[v] : queue[v][i] = ev
        BY <2>5, <4>2 DEF Joined
      <4>6. /\ \A i, j \in DOMAIN seen[v] : i < j /\ (j <= m \/ m < i) => seen[v][i] < seen[v][j]
            /\ \A i \in DOMAIN seen[v], j \in DOMAIN queue[v] : m < i => seen[v][i] < queue[v][j]
        BY <2>5 DEF Joined
      <4>7. UNCHANGED <<seen, since>>
        BY <1>1
      <4> QED
        BY <1>3, <2>2, <3>6, <3>7, <4>1, <4>3, <4>4, <4>5, <4>6, <4>7 DEF Joined
    <3>4. CASE v \notin full
      <4>1. queue'[v] = Append(queue[v], Head(pending)) /\ dropped'[v] = dropped[v]
        BY <1>1, <2>5, <3>4 DEF Subscribed
      <4>2. /\ DOMAIN queue'[v] = 1 .. Len(queue[v]) + 1 /\ DOMAIN queue[v] = 1 .. Len(queue[v])
            /\ \A i \in DOMAIN queue[v] : queue'[v][i] = queue[v][i]
            /\ queue'[v][Len(queue[v]) + 1] = Notified + 1 /\ Len(queue[v]) \in Nat
        BY <1>2, <2>1, <4>1
      <4>9. \A i \in DOMAIN queue'[v] : i \in DOMAIN queue[v] \/ i = Len(queue[v]) + 1
        BY <4>2
      <4>3. ASSUME NEW i \in DOMAIN queue'[v], NEW j \in DOMAIN queue'[v], i < j
            PROVE  queue'[v][i] < queue'[v][j]
        <5>1. i \in DOMAIN queue[v]
          BY <4>2, <4>3
        <5>2. CASE j \in DOMAIN queue[v]
          BY <3>6, <4>2, <4>3, <5>1, <5>2
        <5>3. CASE j = Len(queue[v]) + 1
          <6>1. queue[v][i] <= Notified /\ queue[v][i] \in Nat
            BY <3>6, <5>1
          <6> QED
            BY <1>2, <4>2, <5>1, <5>3, <6>1
        <5> QED
          BY <4>2, <5>2, <5>3
      <4>4. \A i \in DOMAIN queue'[v] : s < queue'[v][i] /\ queue'[v][i] <= Notified'
        <5>1. s < Notified + 1 /\ Notified + 1 <= Notified'
          BY <1>2, <3>5, <3>8
        <5>2. \A i \in DOMAIN queue[v] : s < queue[v][i] /\ queue[v][i] <= Notified'
          BY <1>2, <3>6
        <5> QED
          BY <4>2, <4>9, <5>1, <5>2
      <4>5. \A i \in DOMAIN seen[v], j \in DOMAIN queue'[v] :
              m < i => seen[v][i] < queue'[v][j]
        <5>1. \A i \in DOMAIN seen[v], j \in DOMAIN queue[v] : m < i => seen[v][i] < queue[v][j]
          BY <2>5 DEF Joined
        <5>2. \A i \in DOMAIN seen[v] : m < i => seen[v][i] < Notified + 1
          BY <1>2, <3>5, <3>7
        <5> QED
          BY <4>2, <4>9, <5>1, <5>2
      <4>6. ASSUME NEW ev \in Event, s < ev, ev <= Notified', Visible(v, ev), ev \notin dropped[v]
            PROVE  \/ \E i \in DOMAIN seen[v] : m < i /\ seen[v][i] = ev
                   \/ \E i \in DOMAIN queue'[v] : queue'[v][i] = ev
        <5>1. CASE ev = Notified + 1
          <6>1. Len(queue[v]) + 1 \in DOMAIN queue'[v] /\ queue'[v][Len(queue[v]) + 1] = ev
            BY <4>2, <5>1
          <6> QED
            BY <6>1
        <5>2. CASE ev # Notified + 1
          <6>1. ev <= Notified
            BY <1>2, <4>6, <5>2 DEF Event
          <6>2. \/ \E i \in DOMAIN seen[v] : m < i /\ seen[v][i] = ev
                \/ \E i \in DOMAIN queue[v] : queue[v][i] = ev
            BY <2>5, <4>6, <6>1 DEF Joined
          <6> QED
            BY <4>2, <6>2
        <5> QED
          BY <5>1, <5>2
      <4>7. \A i \in DOMAIN seen[v] : IF i <= m THEN seen[v][i] <= since[v]
                                      ELSE s < seen[v][i] /\ seen[v][i] <= Notified'
        BY <1>2, <3>5, <3>7
      <4>8. \A i, j \in DOMAIN seen[v] : i < j /\ (j <= m \/ m < i) => seen[v][i] < seen[v][j]
        BY <2>5 DEF Joined
      <4>10. \A ev \in Event' : s < ev /\ ev <= Notified' /\ Visible(v, ev)' /\ ev \notin dropped'[v]
               => \/ \E i \in DOMAIN seen[v] : m < i /\ seen[v][i] = ev
                  \/ \E i \in DOMAIN queue'[v] : queue'[v][i] = ev
        BY <1>3, <2>2, <4>1, <4>6
      <4>11. seen'[v] = seen[v] /\ since'[v] = since[v]
        BY <1>1
      <4> QED
        BY <4>3, <4>4, <4>5, <4>7, <4>8, <4>10, <4>11 DEF Joined
    <3> QED
      BY <3>3, <3>4
  <2>6. phase'[v] = "live" =>
          \E s \in 0 .. Notified', m \in 0 .. Len(seen'[v]) : Joined(v, s, m)'
    <3> SUFFICES ASSUME phase[v] = "live"
                 PROVE  \E s \in 0 .. Notified', m \in 0 .. Len(seen'[v]) : Joined(v, s, m)'
      BY <1>1
    <3>1. PICK s \in 0 .. Notified : \E m \in 0 .. Len(seen[v]) : Joined(v, s, m)
      BY <2>1 DEF StreamInv
    <3>2. PICK m \in 0 .. Len(seen[v]) : Joined(v, s, m)
      BY <3>1
    <3>3. Joined(v, s, m)' /\ s \in 0 .. Notified' /\ m \in 0 .. Len(seen'[v])
      BY <1>1, <1>2, <2>5, <3>2
    <3> QED
      BY <3>3
  <2> QED
    BY <1>1, <2>1, <2>2, <2>3, <2>4, <2>6 DEF StreamInv
<1> QED
  BY <1>4, <1>5, <1>6 DEF StreamsInv

\* A step of one stream: its own invariant is what has to be shown.
LEMMA StreamSteps ==
  ASSUME StreamsInv, NEW v \in Readers, BusTypeOK', StreamInv(v)',
         UNCHANGED <<published, pending>>,
         \A w \in Readers \ {v} :
           /\ phase'[w] = phase[w] /\ replay'[w] = replay[w] /\ queue'[w] = queue[w]
           /\ seen'[w] = seen[w] /\ since'[w] = since[w] /\ dropped'[w] = dropped[w]
  PROVE  StreamsInv'
<1>1. NotifiedInOrder'
  BY DEF StreamsInv, NotifiedInOrder, Notified
<1>2. ASSUME NEW w \in Readers, w # v PROVE StreamInv(w)'
  BY <1>2, StreamFramed DEF StreamsInv
<1> QED
  BY <1>1, <1>2 DEF StreamsInv

LEMMA OpenStreams ==
  ASSUME StreamsInv, NEW v \in Readers, Open(v)
  PROVE  StreamsInv'
<1> USE BusAssumption
<1>1. /\ phase[v] = "new" /\ phase' = [phase EXCEPT ![v] = "replay"]
      /\ replay' = [replay EXCEPT ![v] = Recent(v)]
      /\ since' = [since EXCEPT ![v] = Len(published)]
      /\ UNCHANGED <<published, pending, queue, seen, dropped>>
  BY DEF Open
<1>2. Recent(v) \subseteq {ev \in Event : Visible(v, ev)}
  BY DEF Recent, LastOf
<1>3. Event' = Event /\ Len(published) \in 0 .. MaxEvents
  BY <1>1 DEF StreamsInv, BusTypeOK, Event
<1>4. BusTypeOK'
  BY <1>1, <1>2, <1>3 DEF StreamsInv, BusTypeOK
<1>5. StreamInv(v)'
  <2>1. StreamInv(v) /\ phase \in [Readers -> {"new", "replay", "live", "gone", "removed"}]
        /\ replay \in [Readers -> SUBSET Event] /\ since \in [Readers -> 0 .. MaxEvents]
    BY DEF StreamsInv, BusTypeOK
  <2>2. seen[v] = <<>> /\ queue[v] = <<>>
    BY <1>1, <2>1 DEF StreamInv, Subscribed
  <2>3. phase'[v] = "replay" /\ replay'[v] = Recent(v) /\ since'[v] = Len(published)
    BY <1>1, <2>1
  <2>4. \A ev : Visible(v, ev)' = Visible(v, ev)
    BY <1>1 DEF Visible
  <2>5. Replaying(v)'
    BY <1>1, <2>2 DEF Replaying
  <2>6. \A ev \in replay'[v] : Visible(v, ev)' /\ ev <= since'[v]
    BY <1>2, <1>3, <2>3, <2>4 DEF Event
  <2> QED
    BY <1>1, <2>2, <2>3, <2>5, <2>6 DEF StreamInv, Subscribed
<1> QED
  BY <1>1, <1>4, <1>5, StreamSteps DEF StreamsInv, BusTypeOK

LEMMA YieldReplayStreams ==
  ASSUME StreamsInv, NEW v \in Readers, YieldReplay(v)
  PROVE  StreamsInv'
<1> USE BusAssumption
<1>1. PICK ev \in replay[v] :
        /\ \A other \in replay[v] : ev <= other
        /\ seen' = [seen EXCEPT ![v] = Append(@, ev)]
        /\ replay' = [replay EXCEPT ![v] = @ \ {ev}]
  BY DEF YieldReplay
<1>2. phase[v] = "replay" /\ UNCHANGED <<published, pending, phase, queue, since, dropped>>
  BY DEF YieldReplay
<1>3. Event' = Event
  BY <1>2 DEF Event
<1>4. /\ StreamInv(v) /\ Replaying(v)
      /\ seen \in [Readers -> Seq(Event)] /\ replay \in [Readers -> SUBSET Event]
  BY <1>2 DEF StreamsInv, BusTypeOK, StreamInv
<1>5. /\ seen[v] \in Seq(Event) /\ ev \in Event /\ ev <= since[v] /\ Visible(v, ev)
      /\ seen'[v] = Append(seen[v], ev) /\ replay'[v] = replay[v] \ {ev}
  BY <1>1, <1>4 DEF StreamInv
<1>6. BusTypeOK'
  <2>1. seen' \in [Readers -> Seq(Event)] /\ replay' \in [Readers -> SUBSET Event]
    BY <1>1, <1>4, <1>5
  <2> QED
    BY <1>2, <1>3, <2>1 DEF StreamsInv, BusTypeOK
<1>7. StreamInv(v)'
  <2>1. \A e : Visible(v, e)' = Visible(v, e)
    BY <1>2 DEF Visible
  <2>2. /\ DOMAIN seen'[v] = 1 .. Len(seen[v]) + 1 /\ DOMAIN seen[v] = 1 .. Len(seen[v])
        /\ \A i \in DOMAIN seen[v] : seen'[v][i] = seen[v][i] /\ seen[v][i] \in Event
        /\ seen'[v][Len(seen[v]) + 1] = ev /\ Len(seen[v]) \in Nat
    BY <1>5
  <2>10. \A i \in DOMAIN seen'[v] : i \in DOMAIN seen[v] \/ i = Len(seen[v]) + 1
    BY <2>2
  <2>3. \A i, j \in DOMAIN seen'[v] : i < j => seen'[v][i] < seen'[v][j]
    BY <1>4, <1>5, <2>2 DEF Replaying
  <2>4. \A i \in DOMAIN seen'[v] :
          seen'[v][i] <= since[v] /\ \A e \in replay'[v] : seen'[v][i] < e
    <3>1. \A e \in replay'[v] : e \in replay[v] /\ ev < e
      BY <1>1, <1>4, <1>5 DEF Event
    <3> QED
      BY <1>4, <1>5, <2>2, <3>1 DEF Replaying
  <2>5. Replaying(v)'
    BY <1>2, <2>3, <2>4 DEF Replaying
  <2>6. \A e \in replay'[v] : Visible(v, e)' /\ e <= since'[v]
    BY <1>2, <1>4, <1>5, <2>1 DEF StreamInv
  <2>7. \A i \in DOMAIN seen'[v] : Visible(v, seen[v][i])'
    <3>1. \A i \in DOMAIN seen[v] : Visible(v, seen[v][i])
      BY <1>4 DEF StreamInv
    <3> QED
      BY <1>5, <2>1, <2>2, <2>10, <3>1
  <2>8. queue'[v] = queue[v] /\ phase'[v] = "replay" /\ (~Subscribed(v))
    BY <1>2 DEF Subscribed
  <2>9. ~Subscribed(v)' /\ queue'[v] = <<>>
    BY <1>4, <2>8 DEF StreamInv, Subscribed
  <2> QED
    BY <2>5, <2>6, <2>7, <2>8, <2>9 DEF StreamInv
<1> QED
  BY <1>1, <1>2, <1>4, <1>6, <1>7, StreamSteps

LEMMA SubscribeStreams ==
  ASSUME StreamsInv, NEW v \in Readers, Subscribe(v)
  PROVE  StreamsInv'
<1>1. /\ phase[v] = "replay" /\ phase' = [phase EXCEPT ![v] = "live"]
      /\ UNCHANGED <<published, pending, replay, queue, seen, since, dropped>>
  BY DEF Subscribe
<1>2. Event' = Event
  BY <1>1 DEF Event
<1>3. BusTypeOK'
  BY <1>1, <1>2 DEF StreamsInv, BusTypeOK
<1>4. StreamInv(v)'
  <2>1. /\ StreamInv(v) /\ Replaying(v) /\ queue[v] = <<>> /\ seen[v] \in Seq(Event)
        /\ phase'[v] = "live"
    BY <1>1 DEF StreamsInv, BusTypeOK, StreamInv, Subscribed
  <2>2. Notified \in Nat /\ Notified' = Notified
    BY <1>1 DEF StreamsInv, BusTypeOK, NotifiedInOrder, Notified
  <2>3. \A ev : Visible(v, ev)' = Visible(v, ev)
    BY <1>1 DEF Visible
  <2>4. DOMAIN seen[v] = 1 .. Len(seen[v]) /\ Len(seen[v]) \in Nat
    BY <2>1
  <2>5. Joined(v, Notified, Len(seen[v]))
    BY <2>1, <2>2, <2>4 DEF Joined, Replaying, Event
  <2>6. Joined(v, Notified, Len(seen[v]))'
    BY <1>1, <1>2, <2>2, <2>3, <2>5 DEF Joined
  <2>8. replay'[v] = {}
    BY <1>1 DEF Subscribe
  <2>7. \E s \in 0 .. Notified', m \in 0 .. Len(seen'[v]) : Joined(v, s, m)'
    BY <1>1, <2>2, <2>4, <2>6
  <2> QED
    BY <1>1, <2>1, <2>3, <2>7, <2>8 DEF StreamInv, Subscribed
<1> QED
  BY <1>1, <1>3, <1>4, StreamSteps DEF StreamsInv, BusTypeOK

LEMMA TakeStreams ==
  ASSUME StreamsInv, NEW v \in Readers, Take(v)
  PROVE  StreamsInv'
<1> DEFINE ev == Head(queue[v])
<1>1. /\ phase[v] = "live" /\ queue[v] # <<>>
      /\ seen' = [seen EXCEPT ![v] = IF Visible(v, ev) THEN Append(@, ev) ELSE @]
      /\ queue' = [queue EXCEPT ![v] = Tail(@)]
      /\ UNCHANGED <<published, pending, phase, replay, since, dropped>>
  BY DEF Take
<1> HIDE DEF ev
<1>2. Event' = Event /\ Notified' = Notified
  BY <1>1 DEF Event, Notified
<1>3. /\ StreamInv(v) /\ queue \in [Readers -> Seq(Event)] /\ seen \in [Readers -> Seq(Event)]
      /\ queue[v] \in Seq(Event) /\ seen[v] \in Seq(Event) /\ Len(queue[v]) <= MaxQueue
  BY DEF StreamsInv, BusTypeOK
<1>4. /\ ev \in Event /\ ev = queue[v][1]
      /\ queue'[v] = Tail(queue[v])
      /\ seen'[v] = IF Visible(v, ev) THEN Append(seen[v], ev) ELSE seen[v]
  BY <1>1, <1>3 DEF ev
<1>5. BusTypeOK'
  <2>1. Tail(queue[v]) \in Seq(Event) /\ Len(Tail(queue[v])) <= MaxQueue
    BY <1>1, <1>3, BusAssumption
  <2>2. queue' \in [Readers -> Seq(Event)] /\ \A w \in Readers : Len(queue'[w]) <= MaxQueue
    BY <1>1, <1>3, <2>1 DEF StreamsInv, BusTypeOK
  <2>3. seen' \in [Readers -> Seq(Event)]
    BY <1>1, <1>3, <1>4
  <2> QED
    BY <1>1, <1>2, <2>2, <2>3 DEF StreamsInv, BusTypeOK
<1>6. StreamInv(v)'
  <2>1. \A e : Visible(v, e)' = Visible(v, e)
    BY <1>1 DEF Visible
  <2>2. PICK s \in 0 .. Notified : \E m \in 0 .. Len(seen[v]) : Joined(v, s, m)
    BY <1>1, <1>3 DEF StreamInv
  <2>3. PICK m \in 0 .. Len(seen[v]) : Joined(v, s, m)
    BY <2>2
  <2>4. /\ DOMAIN queue[v] = 1 .. Len(queue[v]) /\ DOMAIN seen[v] = 1 .. Len(seen[v])
        /\ DOMAIN queue'[v] = 1 .. Len(queue[v]) - 1
        /\ Len(queue[v]) \in Nat \ {0} /\ Len(seen[v]) \in Nat
        /\ \A i \in DOMAIN queue'[v] : queue'[v][i] = queue[v][i + 1]
        /\ \A i \in DOMAIN queue[v] : queue[v][i] \in Event
        /\ \A i \in DOMAIN seen[v] : seen[v][i] \in Event
    BY <1>1, <1>3, <1>4
  <2>5. Notified \in Nat
    BY DEF StreamsInv, BusTypeOK, NotifiedInOrder, Notified
  <2>6. /\ \A i, j \in DOMAIN queue'[v] : i < j => queue'[v][i] < queue'[v][j]
        /\ \A i \in DOMAIN queue'[v] :
             /\ s < queue'[v][i] /\ queue'[v][i] <= Notified /\ ev < queue'[v][i]
    <3>1. /\ \A i, j \in DOMAIN queue[v] : i < j => queue[v][i] < queue[v][j]
          /\ \A i \in DOMAIN queue[v] : s < queue[v][i] /\ queue[v][i] <= Notified
      BY <2>3 DEF Joined
    <3>2. \A i \in DOMAIN queue'[v] : i \in Nat /\ i + 1 \in DOMAIN queue[v] /\ 1 < i + 1
      BY <2>4
    <3>3. \A i, j \in DOMAIN queue'[v] : i < j => i + 1 < j + 1
      BY <2>4
    <3>4. 1 \in DOMAIN queue[v]
      BY <2>4
    <3> QED
      BY <1>4, <2>4, <3>1, <3>2, <3>3, <3>4
  <2>9. /\ s < ev /\ ev <= Notified /\ s \in Nat /\ m \in Nat
        /\ \A i \in DOMAIN seen[v] : m < i => seen[v][i] < ev
    <3>1. 1 \in DOMAIN queue[v]
      BY <2>4
    <3> QED
      BY <1>4, <2>3, <2>5, <3>1 DEF Joined
  <2>10. /\ \A i, j \in DOMAIN seen[v] : i < j /\ (j <= m \/ m < i) => seen[v][i] < seen[v][j]
         /\ \A i \in DOMAIN seen[v] : IF i <= m THEN seen[v][i] <= since[v]
                                       ELSE s < seen[v][i] /\ seen[v][i] <= Notified
    BY <2>3 DEF Joined
  <2>11. m <= Len(seen[v])
    BY <2>3
  <2>7. CASE Visible(v, ev)
    <3>1. /\ DOMAIN seen'[v] = 1 .. Len(seen[v]) + 1
          /\ \A i \in DOMAIN seen[v] : seen'[v][i] = seen[v][i]
          /\ seen'[v][Len(seen[v]) + 1] = ev /\ Len(seen'[v]) = Len(seen[v]) + 1
      BY <1>3, <1>4, <2>4, <2>7
    <3>9. \A i \in DOMAIN seen'[v] : i \in DOMAIN seen[v] \/ i = Len(seen[v]) + 1
      BY <2>4, <3>1
    <3>2. \A i, j \in DOMAIN seen'[v] :
            i < j /\ (j <= m \/ m < i) => seen'[v][i] < seen'[v][j]
      <4>1. ASSUME NEW i \in DOMAIN seen'[v], NEW j \in DOMAIN seen'[v],
                   i < j, j <= m \/ m < i
            PROVE  seen'[v][i] < seen'[v][j]
        <5>1. i \in DOMAIN seen[v]
          BY <2>4, <3>1, <4>1
        <5>2. CASE j \in DOMAIN seen[v]
          BY <2>10, <3>1, <4>1, <5>1, <5>2
        <5>3. CASE j = Len(seen[v]) + 1
          <6>1. m < i
            BY <2>4, <2>9, <2>11, <4>1, <5>3
          <6> QED
            BY <2>9, <3>1, <5>1, <5>3, <6>1
        <5> QED
          BY <3>9, <5>2, <5>3
      <4> QED
        BY <4>1
    <3>3. \A i \in DOMAIN seen'[v] : IF i <= m THEN seen'[v][i] <= since[v]
                                     ELSE s < seen'[v][i] /\ seen'[v][i] <= Notified
      BY <2>4, <2>9, <2>10, <2>11, <3>1
    <3>4. \A i \in DOMAIN seen'[v], j \in DOMAIN queue'[v] :
            m < i => seen'[v][i] < queue'[v][j]
      <4>1. ASSUME NEW i \in DOMAIN seen[v], NEW j \in DOMAIN queue'[v], m < i
            PROVE  seen[v][i] < queue'[v][j]
        <5>1. j + 1 \in DOMAIN queue[v] /\ queue'[v][j] = queue[v][j + 1]
          BY <2>4
        <5> QED
          BY <2>3, <4>1, <5>1 DEF Joined
      <4> QED
        BY <2>6, <3>1, <3>9, <4>1
    <3>5. ASSUME NEW e \in Event, s < e, e <= Notified, Visible(v, e), e \notin dropped[v]
          PROVE  \/ \E i \in DOMAIN seen'[v] : m < i /\ seen'[v][i] = e
                 \/ \E i \in DOMAIN queue'[v] : queue'[v][i] = e
      <4>1. CASE \E i \in DOMAIN seen[v] : m < i /\ seen[v][i] = e
        BY <2>4, <3>1, <4>1
      <4>2. CASE \E i \in DOMAIN queue[v] : queue[v][i] = e
        <5>1. PICK i \in DOMAIN queue[v] : queue[v][i] = e
          BY <4>2
        <5>2. CASE i = 1
          <6>1. seen'[v][Len(seen[v]) + 1] = e /\ m < Len(seen[v]) + 1
            BY <1>4, <2>4, <3>1, <5>1, <5>2
          <6> QED
            BY <2>4, <3>1, <6>1
        <5>3. CASE i # 1
          <6>1. i - 1 \in DOMAIN queue'[v] /\ queue'[v][i - 1] = e
            BY <2>4, <5>1, <5>3
          <6> QED
            BY <6>1
        <5> QED
          BY <5>2, <5>3
      <4> QED
        BY <2>3, <3>5, <4>1, <4>2 DEF Joined
    <3>6. Joined(v, s, m)'
      BY <1>1, <1>2, <2>1, <2>6, <3>2, <3>3, <3>4, <3>5 DEF Joined
    <3>7. \A i \in DOMAIN seen'[v] : Visible(v, seen[v][i])'
      <4>1. \A i \in DOMAIN seen[v] : Visible(v, seen[v][i])
        BY <1>3 DEF StreamInv
      <4> QED
        BY <2>1, <2>7, <3>1, <3>9, <4>1
    <3>8. s \in 0 .. Notified' /\ m \in 0 .. Len(seen'[v])
      BY <1>2, <2>4, <3>1
    <3> QED
      BY <1>1, <1>3, <2>1, <3>6, <3>7, <3>8 DEF StreamInv, Subscribed
  <2>8. CASE ~Visible(v, ev)
    <3>1. seen'[v] = seen[v]
      BY <1>4, <2>8
    <3>2. ASSUME NEW e \in Event, s < e, e <= Notified, Visible(v, e), e \notin dropped[v]
          PROVE  \/ \E i \in DOMAIN seen'[v] : m < i /\ seen'[v][i] = e
                 \/ \E i \in DOMAIN queue'[v] : queue'[v][i] = e
      <4>1. CASE \E i \in DOMAIN queue[v] : queue[v][i] = e
        <5>1. PICK i \in DOMAIN queue[v] : queue[v][i] = e
          BY <4>1
        <5>2. i # 1
          BY <1>4, <2>8, <3>2, <5>1
        <5>3. i - 1 \in DOMAIN queue'[v] /\ queue'[v][i - 1] = e
          BY <2>4, <5>1, <5>2
        <5> QED
          BY <5>3
      <4> QED
        BY <2>3, <3>1, <3>2, <4>1 DEF Joined
    <3>3. \A i \in DOMAIN seen'[v], j \in DOMAIN queue'[v] :
            m < i => seen'[v][i] < queue'[v][j]
      <4>1. ASSUME NEW i \in DOMAIN seen[v], NEW j \in DOMAIN queue'[v], m < i
            PROVE  seen[v][i] < queue'[v][j]
        <5>1. j + 1 \in DOMAIN queue[v] /\ queue'[v][j] = queue[v][j + 1]
          BY <2>4
        <5> QED
          BY <2>3, <4>1, <5>1 DEF Joined
      <4> QED
        BY <3>1, <4>1
    <3>4. Joined(v, s, m)'
      BY <1>1, <1>2, <2>1, <2>3, <2>6, <3>1, <3>2, <3>3 DEF Joined
    <3>5. s \in 0 .. Notified' /\ m \in 0 .. Len(seen'[v])
      BY <1>2, <3>1
    <3> QED
      BY <1>1, <1>3, <2>1, <3>1, <3>4, <3>5 DEF StreamInv, Subscribed
  <2> QED
    BY <2>7, <2>8
<1> QED
  BY <1>1, <1>3, <1>5, <1>6, StreamSteps

LEMMA LeavingStreams ==
  ASSUME StreamsInv, NEW v \in Readers, LeaveReplay(v) \/ Leave(v) \/ Unlist(v)
  PROVE  StreamsInv'
<1> USE BusAssumption
<1>1. UNCHANGED <<published, pending>> /\ Event' = Event
  BY DEF LeaveReplay, Leave, Unlist, Event
<1>2. \A ev : Visible(v, ev)' = Visible(v, ev)
  BY <1>1 DEF Visible
<1>3. StreamInv(v) /\ BusTypeOK
  BY DEF StreamsInv
<1>4. CASE LeaveReplay(v)
  <2>1. BusTypeOK'
    BY <1>1, <1>3, <1>4 DEF LeaveReplay, Forget, BusTypeOK
  <2>2. /\ queue'[v] = <<>> /\ seen'[v] = <<>> /\ phase'[v] = "removed" /\ replay'[v] = {}
    BY <1>3, <1>4 DEF LeaveReplay, Forget, BusTypeOK, StreamInv, Subscribed
  <2>3. StreamInv(v)'
    BY <2>2 DEF StreamInv, Subscribed
  <2> QED
    BY <1>1, <1>3, <1>4, <2>1, <2>3, StreamSteps DEF LeaveReplay, Forget, BusTypeOK
<1>5. CASE Leave(v)
  <2>1. BusTypeOK'
    BY <1>1, <1>3, <1>5 DEF Leave, BusTypeOK
  <2>2. /\ phase[v] = "live" /\ phase'[v] = "gone"
        /\ UNCHANGED <<replay, queue, seen, since>>
    BY <1>3, <1>5 DEF Leave, BusTypeOK
  <2>3. StreamInv(v)'
    BY <1>2, <1>3, <2>2 DEF StreamInv, Subscribed
  <2> QED
    BY <1>1, <1>3, <1>5, <2>1, <2>3, StreamSteps DEF Leave, BusTypeOK
<1>6. CASE Unlist(v)
  <2>1. BusTypeOK'
    <3>1. queue' \in [Readers -> Seq(Event)] /\ \A w \in Readers : Len(queue'[w]) <= MaxQueue
      BY <1>3, <1>6 DEF Unlist, BusTypeOK
    <3> QED
      BY <1>1, <1>3, <1>6, <3>1 DEF Unlist, Forget, BusTypeOK
  <2>2. /\ queue'[v] = <<>> /\ seen'[v] = <<>> /\ phase'[v] = "removed"
        /\ replay'[v] = replay[v]
    BY <1>3, <1>6 DEF Unlist, Forget, BusTypeOK
  <2>3. replay'[v] = {}
    BY <1>3, <1>6 DEF Unlist, StreamInv
  <2>4. StreamInv(v)'
    BY <2>2, <2>3 DEF StreamInv, Subscribed
  <2> QED
    BY <1>1, <1>3, <1>6, <2>1, <2>4, StreamSteps DEF Unlist, Forget, BusTypeOK
<1> QED
  BY <1>4, <1>5, <1>6

LEMMA StreamsStart ==
  ASSUME BusInit
  PROVE  StreamsInv
<1> USE BusAssumption
<1>1. BusTypeOK
  <2>1. <<>> \in Seq(Tenants \union {NoTenant}) /\ Len(<<>>) = 0
    OBVIOUS
  <2>2. \A S : <<>> \in Seq(S)
    OBVIOUS
  <2> QED
    BY <2>1, <2>2 DEF BusInit, BusTypeOK
<1>2. NotifiedInOrder
  BY DEF BusInit, NotifiedInOrder, Notified
<1>3. ASSUME NEW v \in Readers PROVE StreamInv(v)
  BY DEF BusInit, StreamInv, Subscribed
<1> QED
  BY <1>1, <1>2, <1>3 DEF StreamsInv

\* Streams that nothing touches.
LEMMA StreamsStutter ==
  ASSUME StreamsInv, UNCHANGED busVars
  PROVE  StreamsInv'
<1>1. UNCHANGED <<published, pending, phase, replay, queue, seen, since, dropped>>
  BY DEF busVars
<1>2. BusTypeOK'
  BY <1>1 DEF StreamsInv, BusTypeOK, Event
<1>3. NotifiedInOrder'
  BY <1>1 DEF StreamsInv, NotifiedInOrder, Notified
<1>4. ASSUME NEW v \in Readers PROVE StreamInv(v)'
  BY <1>1, StreamFramed DEF StreamsInv
<1> QED
  BY <1>2, <1>3, <1>4 DEF StreamsInv

LEMMA JoinedUp ==
  ASSUME NEW S, NEW p \in Seq(S), NEW q \in Seq(S)
  PROVE  /\ \A i \in DOMAIN p : i \in DOMAIN (p \o q) /\ (p \o q)[i] = p[i] /\ i <= Len(p)
         /\ \A i \in DOMAIN q :
              Len(p) + i \in DOMAIN (p \o q) /\ (p \o q)[Len(p) + i] = q[i]
         /\ \A i \in DOMAIN (p \o q) :
              /\ i \in Nat
              /\ i \notin DOMAIN p => /\ i > Len(p) /\ i - Len(p) \in DOMAIN q
                                      /\ (p \o q)[i] = q[i - Len(p)]
<1>1. DOMAIN p = 1 .. Len(p) /\ Len(p) \in Nat /\ DOMAIN q = 1 .. Len(q) /\ Len(q) \in Nat
  OBVIOUS
<1>2. DOMAIN (p \o q) = 1 .. Len(p) + Len(q)
  OBVIOUS
<1>3. ASSUME NEW i \in DOMAIN p
      PROVE  i \in DOMAIN (p \o q) /\ (p \o q)[i] = p[i] /\ i <= Len(p)
  BY <1>1, <1>2
<1>4. ASSUME NEW i \in DOMAIN q
      PROVE  Len(p) + i \in DOMAIN (p \o q) /\ (p \o q)[Len(p) + i] = q[i]
  BY <1>1, <1>2
<1>5. ASSUME NEW i \in DOMAIN (p \o q), i \notin DOMAIN p
      PROVE  i > Len(p) /\ i - Len(p) \in DOMAIN q /\ (p \o q)[i] = q[i - Len(p)]
  BY <1>1, <1>2, <1>5
<1>6. \A i \in DOMAIN (p \o q) : i \in Nat
  BY <1>1, <1>2
<1> QED
  BY <1>3, <1>4, <1>5, <1>6, Zenon

\* An event shown twice is shown by the replay and again by the subscription.
LEMMA SeamHolds ==
  ASSUME StreamsInv
  PROVE  SeamOneSided
<1> SUFFICES ASSUME NEW v \in Readers, phase[v] = "live"
             PROVE  /\ Twice(v) = {} \/ Missed(v) = {}
                    /\ \A ev \in Twice(v) : ev <= since[v]
  BY DEF SeamOneSided
<1>1. /\ StreamInv(v) /\ seen[v] \in Seq(Event) /\ queue[v] \in Seq(Event)
      /\ pending \in Seq(Event) /\ published \in Seq(Tenants \union {NoTenant})
      /\ since[v] \in Nat
  BY BusAssumption DEF StreamsInv, BusTypeOK
<1>2. PICK s \in 0 .. Notified : \E m \in 0 .. Len(seen[v]) : Joined(v, s, m)
  BY <1>1 DEF StreamInv
<1>3. PICK m \in 0 .. Len(seen[v]) : Joined(v, s, m)
  BY <1>2
<1>4. /\ Event \subseteq Nat /\ Notified \in Nat /\ s \in Nat /\ m \in Nat
  <2>1. Len(published) \in Nat /\ Notified \in Nat
    BY <1>1 DEF StreamsInv, NotifiedInOrder, Notified
  <2> QED
    BY <1>1, <2>1 DEF Event
<1>5. /\ \A i \in DOMAIN seen[v] :
           i \in DOMAIN Shown(v) /\ Shown(v)[i] = seen[v][i] /\ i <= Len(seen[v])
      /\ \A i \in DOMAIN queue[v] :
           Len(seen[v]) + i \in DOMAIN Shown(v) /\ Shown(v)[Len(seen[v]) + i] = queue[v][i]
      /\ \A i \in DOMAIN Shown(v) :
           /\ i \in Nat
           /\ i \notin DOMAIN seen[v] =>
                /\ i > Len(seen[v]) /\ i - Len(seen[v]) \in DOMAIN queue[v]
                /\ Shown(v)[i] = queue[v][i - Len(seen[v])]
  <2>1. seen[v] \in Seq(Event) /\ queue[v] \in Seq(Event)
    BY <1>1
  <2>2. PICK p \in Seq(Event) : p = seen[v]
    BY <2>1
  <2>3. PICK q \in Seq(Event) : q = queue[v]
    BY <2>1
  <2>4. Shown(v) = p \o q
    BY <2>2, <2>3 DEF Shown
  <2>5. /\ \A i \in DOMAIN p : i \in DOMAIN (p \o q) /\ (p \o q)[i] = p[i] /\ i <= Len(p)
        /\ \A i \in DOMAIN q :
             Len(p) + i \in DOMAIN (p \o q) /\ (p \o q)[Len(p) + i] = q[i]
        /\ \A i \in DOMAIN (p \o q) :
             /\ i \in Nat
             /\ i \notin DOMAIN p => /\ i > Len(p) /\ i - Len(p) \in DOMAIN q
                                     /\ (p \o q)[i] = q[i - Len(p)]
    BY JoinedUp
  <2> QED
    BY <2>2, <2>3, <2>4, <2>5, Zenon
<1>12. /\ \A i \in DOMAIN seen[v] : seen[v][i] \in Nat
       /\ \A i \in DOMAIN queue[v] : queue[v][i] \in Nat
  <2>1. seen[v] \in Seq(Nat) /\ queue[v] \in Seq(Nat)
    BY <1>1, <1>4, WiderSequence
  <2> QED
    BY <2>1
<1>6. ASSUME NEW i \in DOMAIN Shown(v), ~(i \in DOMAIN seen[v])
      PROVE  /\ i - Len(seen[v]) \in DOMAIN queue[v] /\ i > Len(seen[v])
             /\ Shown(v)[i] = queue[v][i - Len(seen[v])]
  BY <1>5, <1>6, Zenon
<1>7. ASSUME NEW i \in DOMAIN Shown(v)
      PROVE  Shown(v)[i] \in Nat
  <2>1. CASE i \in DOMAIN seen[v]
    BY <1>5, <1>12, <2>1, Zenon
  <2>2. CASE ~(i \in DOMAIN seen[v])
    BY <1>6, <1>12, <2>2, Zenon
  <2> QED
    BY <2>1, <2>2
<1>8. ASSUME NEW i \in DOMAIN Shown(v)
      PROVE  IF i <= m THEN Shown(v)[i] <= since[v] ELSE s < Shown(v)[i]
  <2>1. CASE i \in DOMAIN seen[v]
    BY <1>3, <1>5, <2>1 DEF Joined
  <2>2. CASE ~(i \in DOMAIN seen[v])
    <3>1. ~(i <= m)
      BY <1>3, <1>5, <2>2
    <3>2. s < queue[v][i - Len(seen[v])]
      BY <1>3, <1>6, <2>2 DEF Joined
    <3> QED
      BY <1>6, <2>2, <3>1, <3>2
  <2> QED
    BY <2>1, <2>2
<1>9. ASSUME NEW i \in DOMAIN Shown(v), NEW j \in DOMAIN Shown(v), i < j, j <= m \/ m < i
      PROVE  Shown(v)[i] < Shown(v)[j]
  <2>1. CASE i \in DOMAIN seen[v] /\ j \in DOMAIN seen[v]
    BY <1>3, <1>5, <1>9, <2>1 DEF Joined
  <2>2. CASE i \in DOMAIN seen[v] /\ ~(j \in DOMAIN seen[v])
    <3>1. m < i
      BY <1>3, <1>4, <1>5, <1>9, <2>2
    <3>2. j - Len(seen[v]) \in DOMAIN queue[v] /\ Shown(v)[j] = queue[v][j - Len(seen[v])]
      BY <1>6, <2>2
    <3>3. seen[v][i] < queue[v][j - Len(seen[v])]
      BY <1>3, <2>2, <3>1, <3>2 DEF Joined
    <3> QED
      BY <1>5, <2>2, <3>2, <3>3
  <2>3. CASE ~(i \in DOMAIN seen[v])
    <3>1. ~(j \in DOMAIN seen[v])
      BY <1>5, <1>9, <2>3
    <3>2. /\ i - Len(seen[v]) \in DOMAIN queue[v] /\ Shown(v)[i] = queue[v][i - Len(seen[v])]
          /\ j - Len(seen[v]) \in DOMAIN queue[v] /\ Shown(v)[j] = queue[v][j - Len(seen[v])]
      BY <1>6, <2>3, <3>1
    <3>3. i - Len(seen[v]) < j - Len(seen[v])
      BY <1>5, <1>9
    <3>4. queue[v][i - Len(seen[v])] < queue[v][j - Len(seen[v])]
      BY <1>3, <3>2, <3>3 DEF Joined
    <3> QED
      BY <3>2, <3>4
  <2> QED
    BY <2>1, <2>2, <2>3
<1>10. ASSUME NEW ev \in Twice(v)
       PROVE  ev <= since[v] /\ s < ev /\ ev \in Nat
  <2>1. PICK i \in DOMAIN Shown(v) : \E j \in DOMAIN Shown(v) :
           i # j /\ Shown(v)[i] = ev /\ Shown(v)[j] = ev
    BY DEF Twice
  <2>2. PICK j \in DOMAIN Shown(v) : i # j /\ Shown(v)[i] = ev /\ Shown(v)[j] = ev
    BY <2>1
  <2>3. i \in Nat /\ j \in Nat /\ ev \in Nat
    BY <1>5, <1>7, <2>1, <2>2, Zenon
  <2>4. CASE i < j
    <3>1. i <= m /\ m < j
      BY <1>4, <1>9, <2>2, <2>3, <2>4
    <3> QED
      BY <1>4, <1>8, <2>2, <2>3, <3>1
  <2>5. CASE j < i
    <3>1. j <= m /\ m < i
      BY <1>4, <1>9, <2>2, <2>3, <2>5
    <3> QED
      BY <1>4, <1>8, <2>2, <2>3, <3>1
  <2> QED
    BY <2>2, <2>3, <2>4, <2>5
<1>11. ASSUME NEW ev \in Missed(v)
       PROVE  since[v] < ev /\ ev <= s /\ ev \in Nat
  <2>1. /\ ev \in Event /\ ev > since[v] /\ Visible(v, ev) /\ ev \notin dropped[v]
        /\ ev \notin Range(Shown(v)) /\ ev \notin Range(pending) /\ ev \in Nat
    BY <1>4 DEF Missed
  <2>2. ev <= Notified
    <3>1. SUFFICES ASSUME ~(ev <= Notified) PROVE FALSE
      OBVIOUS
    <3>2. ev - Notified \in DOMAIN pending
      BY <1>1, <1>4, <2>1, <3>1 DEF StreamsInv, NotifiedInOrder, Notified, Event
    <3>3. pending[ev - Notified] = ev
      BY <1>4, <2>1, <3>2 DEF StreamsInv, NotifiedInOrder
    <3> QED
      BY <2>1, <3>2, <3>3 DEF Range
  <2>3. \A i \in DOMAIN Shown(v) : Shown(v)[i] # ev
    BY <2>1 DEF Range
  <2>4. \A i \in DOMAIN seen[v] : seen[v][i] # ev
    BY <1>5, <2>3, Zenon
  <2>5. \A i \in DOMAIN queue[v] : queue[v][i] # ev
    BY <1>5, <2>3, Zenon
  <2>6. ~(s < ev)
    BY <1>3, <2>1, <2>2, <2>4, <2>5 DEF Joined
  <2> QED
    BY <1>1, <1>4, <2>1, <2>6
<1> QED
  BY <1>1, <1>4, <1>10, <1>11

-----------------------------------------------------------------------------
(* The steps of the deliveries *)

LEMMA AttemptsType ==
  ASSUME NEW row \in Rows
  PROVE  Attempts(row) \in Nat \ {0}
<1>1. row.retries \in Retries
  BY DEF Rows
<1>2. row.retries = Unset \/ row.retries \in Int
  BY <1>1, HookAssumption
<1> QED
  BY <1>2, HookAssumption DEF Attempts

LEMMA JobsFinite ==
  ASSUME HooksTypeOK, JobsInv, Dispatched \in Nat
  PROVE  IsFiniteSet(DOMAIN job)
<1>1. IsFiniteSet(1 .. Dispatched) /\ IsFiniteSet(1 .. MaxHooks)
  BY FS_Interval, HookAssumption
<1>2. IsFiniteSet((1 .. Dispatched) \X (1 .. MaxHooks))
  BY <1>1, FS_Product
<1>3. DOMAIN job \subseteq (1 .. Dispatched) \X (1 .. MaxHooks)
  BY DEF HooksTypeOK, JobsInv
<1> QED
  BY <1>2, <1>3, FS_Subset

\* One delivery that takes another stage changes the permits by its own.
LEMMA HeldMoved ==
  ASSUME IsFiniteSet(DOMAIN job), NEW k \in DOMAIN job, NEW x,
         job' = [job EXCEPT ![k] = x]
  PROVE  /\ Cardinality(Held) \in Nat /\ Cardinality(Held') \in Nat
         /\ Cardinality(Held') =
              Cardinality(Held) - Takes(job[k].stage) + Takes(x.stage)
<1>1. IsFiniteSet(Held) /\ Cardinality(Held) \in Nat
  BY FS_Subset, FS_CardinalityType DEF Held
<1>2. Held' = {j \in DOMAIN job : IF j = k THEN x.stage \in {"sending", "asleep"}
                                 ELSE job[j].stage \in {"sending", "asleep"}}
  BY DEF Held
<1>3. Held' = IF x.stage \in {"sending", "asleep"} THEN Held \union {k} ELSE Held \ {k}
  <2>1. CASE x.stage \in {"sending", "asleep"}
    BY <1>2, <2>1 DEF Held
  <2>2. CASE ~(x.stage \in {"sending", "asleep"})
    BY <1>2, <2>2 DEF Held
  <2> QED
    BY <2>1, <2>2
<1>4. k \in Held <=> job[k].stage \in {"sending", "asleep"}
  BY DEF Held
<1>5. /\ Cardinality(Held \union {k}) =
           IF k \in Held THEN Cardinality(Held) ELSE Cardinality(Held) + 1
      /\ Cardinality(Held \ {k}) =
           IF k \in Held THEN Cardinality(Held) - 1 ELSE Cardinality(Held)
      /\ IsFiniteSet(Held \union {k}) /\ IsFiniteSet(Held \ {k})
  BY <1>1, FS_AddElement, FS_RemoveElement
<1>6. Cardinality(Held') \in Nat
  BY <1>3, <1>5, FS_CardinalityType
<1> QED
  BY <1>1, <1>3, <1>4, <1>5, <1>6 DEF Takes

\* SetToSeq lists each member of a finite set once.
LEMMA ListOf ==
  ASSUME NEW S, IsFiniteSet(S)
  PROVE  SetToSeq(S) \in Seq(S) /\ IsInjective(SetToSeq(S)) /\ Range(SetToSeq(S)) = S
<1>1. PICK n \in Nat : n = Cardinality(S) /\ ExistsBijection(1 .. n, S)
  BY FS_CardinalityType
<1>2. PICK f \in [1 .. n -> S] : IsInjective(f)
  BY <1>1 DEF ExistsBijection, Bijection, Injection
<1>3. SetToSeq(S) \in [1 .. n -> S] /\ IsInjective(SetToSeq(S))
  BY <1>1, <1>2 DEF SetToSeq
<1>4. SetToSeq(S) \in Injection(1 .. n, S)
  BY <1>3 DEF Injection
<1>5. IsFiniteSet(1 .. n) /\ Cardinality(1 .. n) = n
  BY <1>1, FS_Interval
<1>6. SetToSeq(S) \in Surjection(1 .. n, S)
  BY <1>1, <1>4, <1>5, FS_Injection
<1>7. Range(SetToSeq(S)) = S
  BY <1>3, <1>6 DEF Surjection, Range
<1> QED
  BY <1>3, <1>7

\* Two lists with nothing in common, one after the other.
LEMMA ListsJoined ==
  ASSUME NEW S, NEW p \in Seq(S), NEW q \in Seq(S), IsInjective(p), IsInjective(q),
         Range(p) \intersect Range(q) = {}
  PROVE  p \o q \in Seq(S) /\ IsInjective(p \o q) /\ Range(p \o q) = Range(p) \union Range(q)
<1>1. p \o q \in Seq(S)
  OBVIOUS
<1>2. PICK r : r = p \o q
  OBVIOUS
<1>3. /\ \A i \in DOMAIN p : i \in DOMAIN r /\ r[i] = p[i] /\ i <= Len(p)
      /\ \A i \in DOMAIN q : Len(p) + i \in DOMAIN r /\ r[Len(p) + i] = q[i]
      /\ \A i \in DOMAIN r :
           /\ i \in Nat
           /\ i \notin DOMAIN p => /\ i > Len(p) /\ i - Len(p) \in DOMAIN q
                                   /\ r[i] = q[i - Len(p)]
  BY <1>2, JoinedUp
<1>4. Range(r) = Range(p) \union Range(q)
  BY <1>3 DEF Range
<1>7. \A i \in DOMAIN r : i \in DOMAIN p => r[i] \in Range(p)
  BY <1>3 DEF Range
<1>8. \A i \in DOMAIN r : i \notin DOMAIN p => r[i] \in Range(q)
  BY <1>3 DEF Range
<1>5. ASSUME NEW i \in DOMAIN r, NEW j \in DOMAIN r, r[i] = r[j]
      PROVE  i = j
  <2>1. CASE i \in DOMAIN p /\ j \in DOMAIN p
    BY <1>3, <1>5, <2>1 DEF IsInjective
  <2>2. CASE i \in DOMAIN p /\ j \notin DOMAIN p
    BY <1>5, <1>7, <1>8, <2>2
  <2>3. CASE i \notin DOMAIN p /\ j \in DOMAIN p
    BY <1>5, <1>7, <1>8, <2>3
  <2>4. CASE i \notin DOMAIN p /\ j \notin DOMAIN p
    <3>1. i - Len(p) = j - Len(p)
      BY <1>3, <1>5, <2>4 DEF IsInjective
    <3>2. Len(p) \in Nat /\ i \in Nat /\ j \in Nat
      BY <1>3
    <3> QED
      BY <3>1, <3>2
  <2> QED
    BY <2>1, <2>2, <2>3, <2>4
<1>6. IsInjective(r)
  BY <1>5 DEF IsInjective
<1> QED
  BY <1>1, <1>2, <1>4, <1>6

\* What the deliveries read of the hooks, the events and the log.
LEMMA Dispatches ==
  ASSUME DeliveriesInv, published \in Seq(Tenants \union {NoTenant})
  PROVE  /\ Dispatched \in Nat /\ edits \in Nat /\ free \in Nat
         /\ Dispatched + Len(dispatches) = Len(published)
         /\ IsFiniteSet(DOMAIN job)
<1>1. Len(published) \in Nat /\ Len(dispatches) \in Nat /\ Len(dispatches) <= Len(published)
  BY DEF DeliveriesInv, HooksTypeOK, DispatchedInOrder
<1>2. Dispatched \in Nat /\ Dispatched + Len(dispatches) = Len(published)
  BY <1>1 DEF Dispatched
<1>3. IsFiniteSet(DOMAIN job)
  BY <1>2, JobsFinite DEF DeliveriesInv
<1>4. edits \in Nat
  BY HookAssumption DEF DeliveriesInv, HooksTypeOK
<1>5. Cardinality({k \in DOMAIN job : job[k].stage \in {"sending", "asleep"}}) \in Nat
  <2>1. IsFiniteSet({k \in DOMAIN job : job[k].stage \in {"sending", "asleep"}})
    BY <1>3, FS_Subset
  <2> QED
    BY <2>1, FS_CardinalityType
<1>6. free \in Nat
  BY <1>5, HookAssumption DEF DeliveriesInv, HooksTypeOK
<1> QED
  BY <1>2, <1>3, <1>4, <1>6

LEMMA DeliveriesStart ==
  ASSUME BusInit, HooksInit
  PROVE  DeliveriesInv
<1>1. /\ hooks = [n \in Names |-> NoHook] /\ edits = 0 /\ dispatches = <<>> /\ job = <<>>
      /\ line = <<>> /\ free = Permits /\ log = {} /\ published = <<>>
  BY DEF HooksInit, BusInit
<1>2. DOMAIN job = {} /\ Range(line) = {} /\ IsInjective(line) /\ line \in Seq(DOMAIN job)
  BY <1>1 DEF Range, IsInjective
<1>3. Cardinality({k \in DOMAIN job : job[k].stage \in {"sending", "asleep"}}) = 0
  BY <1>2, FS_EmptySet
<1>4. job \in [DOMAIN job -> Jobs]
  BY <1>1, <1>2
<1>5. dispatches \in Seq(Nat \X (Tenants \union {NoTenant})) /\ Len(dispatches) = 0
  BY <1>1
<1>6. HooksTypeOK
  BY <1>1, <1>2, <1>3, <1>4, <1>5, HookAssumption DEF HooksTypeOK
<1>7. DispatchedInOrder
  BY <1>1 DEF DispatchedInOrder
<1>8. HooksInv /\ JobsInv /\ LogInv
  BY <1>1, <1>2 DEF HooksInv, JobsInv, LogInv
<1> QED
  BY <1>6, <1>7, <1>8 DEF DeliveriesInv

\* A step that leaves the dispatcher alone, but for what is published.
LEMMA EmitDeliveries ==
  ASSUME DeliveriesInv, published \in Seq(Tenants \union {NoTenant}),
         NEW t \in Tenants \union {NoTenant}, published' = Append(published, t),
         dispatches' = Append(dispatches, <<Len(published) + 1, t>>),
         UNCHANGED <<hooks, edits, job, line, free, log>>
  PROVE  DeliveriesInv'
<1>1. /\ Len(published) \in Nat /\ Len(dispatches) \in Nat /\ Dispatched \in Nat
      /\ Dispatched + Len(dispatches) = Len(published)
      /\ dispatches \in Seq(Nat \X (Tenants \union {NoTenant}))
  BY Dispatches DEF DeliveriesInv, HooksTypeOK
<1>2. /\ Len(published') = Len(published) + 1 /\ Len(dispatches') = Len(dispatches) + 1
      /\ \A i \in 1 .. Len(published) : published'[i] = published[i]
      /\ published'[Len(published) + 1] = t
      /\ DOMAIN dispatches' = 1 .. Len(dispatches) + 1
      /\ \A i \in 1 .. Len(dispatches) : dispatches'[i] = dispatches[i]
      /\ dispatches'[Len(dispatches) + 1] = <<Len(published) + 1, t>>
      /\ DOMAIN dispatches = 1 .. Len(dispatches)
  BY <1>1
<1>3. Dispatched' = Dispatched
  BY <1>1, <1>2 DEF Dispatched
<1>4. HooksTypeOK'
  <2>1. dispatches' \in Seq(Nat \X (Tenants \union {NoTenant}))
    BY <1>1
  <2> QED
    BY <2>1 DEF DeliveriesInv, HooksTypeOK
<1>5. DispatchedInOrder'
  <2>1. ASSUME NEW i \in DOMAIN dispatches'
        PROVE  dispatches'[i] = <<Dispatched + i, published'[Dispatched + i]>>
    <3>1. CASE i \in DOMAIN dispatches
      <4>1. dispatches[i] = <<Dispatched + i, published[Dispatched + i]>>
        BY <3>1 DEF DeliveriesInv, DispatchedInOrder
      <4>2. Dispatched + i \in 1 .. Len(published)
        BY <1>1, <1>2, <3>1
      <4> QED
        BY <1>2, <3>1, <4>1, <4>2
    <3>2. CASE i = Len(dispatches) + 1
      <4>1. Dispatched + i = Len(published) + 1
        <5>1. /\ Len(published) \in Nat /\ Len(dispatches) \in Nat /\ Dispatched \in Nat
              /\ Dispatched + Len(dispatches) = Len(published)
          BY <1>1
        <5> QED
          BY <3>2, <5>1
      <4> QED
        BY <1>2, <3>2, <4>1
    <3>3. i \in 1 .. Len(dispatches) + 1 /\ Len(dispatches) \in Nat
      BY <1>1, <1>2
    <3>4. i \in 1 .. Len(dispatches) \/ i = Len(dispatches) + 1
      BY <3>3
    <3> QED
      BY <1>2, <3>1, <3>2, <3>4
  <2> QED
    BY <1>1, <1>2, <1>3, <2>1 DEF DispatchedInOrder
<1>6. HooksInv'
  BY DEF DeliveriesInv, HooksInv
<1>7. JobsInv'
  <2>1. \A k \in DOMAIN job : published'[k[1]] = published[k[1]]
    BY <1>1, <1>2 DEF DeliveriesInv, JobsInv
  <2> QED
    BY <1>3, <2>1 DEF DeliveriesInv, JobsInv, Spent
<1>8. LogInv'
  BY <1>3 DEF DeliveriesInv, LogInv, Ids, RowsOf, Attempted
<1> QED
  BY <1>4, <1>5, <1>6, <1>7, <1>8 DEF DeliveriesInv

\* Hooks that nothing touches.
LEMMA DeliveriesStutter ==
  ASSUME DeliveriesInv, UNCHANGED hookVars, UNCHANGED published
  PROVE  DeliveriesInv'
<1>1. UNCHANGED <<hooks, edits, dispatches, job, line, free, log>>
  BY DEF hookVars
<1>2. HooksTypeOK'
  BY <1>1 DEF DeliveriesInv, HooksTypeOK
<1>3. DispatchedInOrder' /\ Dispatched' = Dispatched
  BY <1>1 DEF DeliveriesInv, DispatchedInOrder, Dispatched
<1>4. HooksInv' /\ JobsInv'
  BY <1>1, <1>3 DEF DeliveriesInv, HooksInv, JobsInv, Spent
<1>5. LogInv'
  BY <1>1, <1>3 DEF DeliveriesInv, LogInv, Ids, RowsOf, Attempted
<1> QED
  BY <1>2, <1>3, <1>4, <1>5 DEF DeliveriesInv

LEMMA UpsertDeliveries ==
  ASSUME DeliveriesInv, NEW n \in Names, NEW t \in Tenants \union {All},
         NEW r \in Retries, NEW s \in Shapes, Upsert(n, t, r, s), UNCHANGED published
  PROVE  DeliveriesInv'
<1> DEFINE id == IF hooks[n] = NoHook THEN edits + 1 ELSE hooks[n].id
           row == [id |-> id, tenant |-> t, url |-> t, retries |-> r,
                   enabled |-> s.enabled, blocked |-> s.blocked]
<1>1. /\ edits < MaxHooks /\ edits' = edits + 1 /\ hooks' = [hooks EXCEPT ![n] = row]
      /\ UNCHANGED <<dispatches, job, line, free, log, published>>
  BY DEF Upsert
<1>2. /\ hooks \in [Names -> Rows \union {NoHook}] /\ edits \in Nat /\ edits' \in 0 .. MaxHooks
  BY <1>1, HookAssumption DEF DeliveriesInv, HooksTypeOK
<1>3. id \in 1 .. MaxHooks /\ id <= edits'
  <2>1. CASE hooks[n] = NoHook
    BY <1>1, <1>2, <2>1, HookAssumption
  <2>2. CASE hooks[n] # NoHook
    <3>1. hooks[n] \in Rows
      BY <1>2, <2>2
    <3>2. hooks[n].id \in 1 .. MaxHooks /\ hooks[n].id <= edits
      BY <2>2, <3>1 DEF DeliveriesInv, HooksInv, Rows
    <3> QED
      BY <1>1, <1>2, <2>2, <3>2, HookAssumption
  <2> QED
    BY <2>1, <2>2
<1>4. row \in Rows
  <2>1. s.enabled \in BOOLEAN /\ s.blocked \in BOOLEAN
    BY HookAssumption
  <2> QED
    BY <1>3, <2>1 DEF Rows
<1>5. \A m \in Names : m # n /\ hooks[m] # NoHook => hooks[m].id # id
  <2> SUFFICES ASSUME NEW m \in Names, m # n, hooks[m] # NoHook PROVE hooks[m].id # id
    OBVIOUS
  <2>1. hooks[m] \in Rows /\ hooks[m].id <= edits
    BY <1>2 DEF DeliveriesInv, HooksInv
  <2>2. hooks[m].id \in Nat
    BY <2>1, HookAssumption DEF Rows
  <2> QED
    BY <1>2, <2>1, <2>2 DEF DeliveriesInv, HooksInv
<1>6. row.id = id /\ row.url = row.tenant
  OBVIOUS
<1>7. ASSUME NEW i \in Ids' PROVE i \in Ids \/ i = edits + 1
  <2>1. PICK m \in Names : hooks'[m] # NoHook /\ i = hooks'[m].id
    BY DEF Ids
  <2>2. CASE m = n
    <3>1. i = id
      BY <1>1, <1>2, <2>1, <2>2
    <3> QED
      BY <2>2, <3>1 DEF Ids
  <2>3. CASE m # n
    BY <1>1, <1>2, <2>1, <2>3 DEF Ids
  <2> QED
    BY <2>2, <2>3
<1>8. hooks'[n] = row /\ \A m \in Names : m # n => hooks'[m] = hooks[m]
  BY <1>1, <1>2
<1> HIDE DEF id, row
<1>9. HooksTypeOK'
  <2>1. hooks' \in [Names -> Rows \union {NoHook}]
    BY <1>1, <1>2, <1>4
  <2> QED
    BY <1>1, <1>2, <2>1 DEF DeliveriesInv, HooksTypeOK
<1>10. DispatchedInOrder' /\ Dispatched' = Dispatched
  BY <1>1 DEF DeliveriesInv, DispatchedInOrder, Dispatched
<1>11. HooksInv'
  <2>1. ASSUME NEW m \in Names, hooks'[m] # NoHook
        PROVE  hooks'[m].id <= edits' /\ hooks'[m].url = hooks'[m].tenant
    <3>1. CASE m = n
      BY <1>3, <1>6, <1>8, <3>1
    <3>2. CASE m # n
      <4>1. hooks[m] \in Rows /\ hooks[m].id <= edits /\ hooks[m].url = hooks[m].tenant
        BY <1>2, <1>8, <2>1, <3>2 DEF DeliveriesInv, HooksInv
      <4>2. hooks[m].id \in Nat
        BY <4>1, HookAssumption DEF Rows
      <4> QED
        BY <1>1, <1>2, <1>8, <3>2, <4>1, <4>2
    <3> QED
      BY <3>1, <3>2
  <2>2. ASSUME NEW m \in Names, NEW o \in Names, hooks'[m] # NoHook, hooks'[o] # NoHook,
               hooks'[o].id = hooks'[m].id
        PROVE  o = m
    BY <1>5, <1>6, <1>8, <2>2 DEF DeliveriesInv, HooksInv
  <2> QED
    BY <2>1, <2>2 DEF HooksInv
<1>12. JobsInv'
  <2>1. \A k \in DOMAIN job : k[2] \in Nat
    BY HookAssumption DEF DeliveriesInv, HooksTypeOK
  <2>2. \A k \in DOMAIN job : k[2] <= edits'
    BY <1>1, <1>2, <2>1 DEF DeliveriesInv, JobsInv
  <2> QED
    BY <1>1, <1>10, <2>2 DEF DeliveriesInv, JobsInv, Spent
<1>13. LogInv'
  <2>1. \A r_1 \in log : r_1.hook <= edits' /\ r_1.event <= Dispatched
    <3>1. \A r_1 \in log : r_1.hook \in Nat /\ r_1.hook <= edits /\ r_1.event <= Dispatched
      BY HookAssumption DEF DeliveriesInv, HooksTypeOK, LogInv
    <3> QED
      BY <1>1, <1>2, <3>1
  <2>2. ASSUME NEW k \in DOMAIN job, k[2] \in Ids' PROVE k[2] \in Ids
    <3>1. k[2] \in Nat /\ k[2] <= edits
      BY HookAssumption DEF DeliveriesInv, HooksTypeOK, JobsInv
    <3> QED
      BY <1>2, <1>7, <2>2, <3>1
  <2>3. \A k : (RowsOf(k)' = RowsOf(k)) /\ (Attempted(k)' = Attempted(k))
    BY <1>1 DEF RowsOf, Attempted
  <2> QED
    BY <1>1, <1>10, <2>1, <2>2, <2>3 DEF DeliveriesInv, LogInv
<1> QED
  BY <1>9, <1>10, <1>11, <1>12, <1>13 DEF DeliveriesInv

LEMMA DeleteDeliveries ==
  ASSUME DeliveriesInv, NEW n \in Names, Delete(n), UNCHANGED published
  PROVE  DeliveriesInv'
<1>1. /\ hooks[n] # NoHook /\ hooks' = [hooks EXCEPT ![n] = NoHook]
      /\ log' = {r \in log : r.hook # hooks[n].id}
      /\ UNCHANGED <<edits, dispatches, job, line, free, published>>
  BY DEF Delete
<1>2. hooks \in [Names -> Rows \union {NoHook}]
  BY DEF DeliveriesInv, HooksTypeOK
<1>3. hooks'[n] = NoHook /\ \A m \in Names : m # n => hooks'[m] = hooks[m]
  BY <1>1, <1>2
<1>4. HooksTypeOK'
  <2>1. hooks' \in [Names -> Rows \union {NoHook}] /\ log' \subseteq log
    BY <1>1, <1>2
  <2> QED
    BY <1>1, <2>1 DEF DeliveriesInv, HooksTypeOK
<1>5. DispatchedInOrder' /\ Dispatched' = Dispatched
  BY <1>1 DEF DeliveriesInv, DispatchedInOrder, Dispatched
<1>6. HooksInv'
  BY <1>1, <1>3 DEF DeliveriesInv, HooksInv
<1>7. JobsInv'
  BY <1>1, <1>5 DEF DeliveriesInv, JobsInv, Spent
<1>8. ASSUME NEW i \in Ids' PROVE i \in Ids /\ i # hooks[n].id
  <2>1. PICK m \in Names : hooks'[m] # NoHook /\ i = hooks'[m].id
    BY DEF Ids
  <2>2. m # n /\ hooks[m] # NoHook /\ i = hooks[m].id
    BY <1>3, <2>1
  <2> QED
    BY <1>1, <2>2 DEF DeliveriesInv, HooksInv, Ids
<1>9. ASSUME NEW k, k[2] \in Ids' PROVE RowsOf(k)' = RowsOf(k)
  BY <1>1, <1>8, <1>9 DEF RowsOf
<1>10. LogInv'
  <2>1. \A k : Attempted(k)' = Attempted(k)
    BY <1>1 DEF Attempted
  <2> QED
    BY <1>1, <1>5, <1>8, <1>9, <2>1 DEF DeliveriesInv, LogInv
<1> QED
  BY <1>4, <1>5, <1>6, <1>7, <1>10 DEF DeliveriesInv

\* A delivery that goes to another stage, apart from what it logs.
LEMMA JobMoved ==
  ASSUME DeliveriesInv, published \in Seq(Tenants \union {NoTenant}),
         NEW k \in DOMAIN job, NEW x \in Jobs, job' = [job EXCEPT ![k] = x],
         x.stage # "waiting", x.hook = job[k].hook,
         x.attempt \in 1 .. Attempts(x.hook),
         x.stage = "asleep" => x.attempt < Attempts(x.hook),
         line' \in Seq(DOMAIN job), IsInjective(line'), Range(line') = Range(line) \ {k},
         free' = free + Takes(job[k].stage) - Takes(x.stage), free' >= 0,
         log' \subseteq LogRows,
         UNCHANGED <<hooks, edits, dispatches, published>>
  PROVE  HooksTypeOK' /\ DispatchedInOrder' /\ HooksInv' /\ JobsInv'
<1>1. /\ DOMAIN job' = DOMAIN job /\ job'[k] = x
      /\ \A j \in DOMAIN job : j # k => job'[j] = job[j]
  OBVIOUS
<1>2. /\ job \in [DOMAIN job -> Jobs] /\ DOMAIN job \subseteq Nat \X (1 .. MaxHooks)
      /\ Range(line) = {j \in DOMAIN job : job[j].stage = "waiting"}
      /\ free = Permits - Cardinality(Held)
  BY DEF DeliveriesInv, HooksTypeOK, Held
<1>3. IsFiniteSet(DOMAIN job) /\ free \in Nat
  BY Dispatches
<1>4. free' = Permits - Cardinality(Held')
  <2>1. /\ Cardinality(Held) \in Nat /\ Cardinality(Held') \in Nat
        /\ Cardinality(Held') = Cardinality(Held) - Takes(job[k].stage) + Takes(x.stage)
    BY <1>3, HeldMoved
  <2>2. Takes(job[k].stage) \in Nat /\ Takes(x.stage) \in Nat /\ Permits \in Nat
    BY HookAssumption DEF Takes
  <2> QED
    BY <1>2, <2>1, <2>2
<1>5. Range(line') = {j \in DOMAIN job' : job'[j].stage = "waiting"}
  BY <1>1, <1>2
<1>6. job' \in [DOMAIN job' -> Jobs]
  BY <1>1, <1>2
<1>7. HooksTypeOK'
  BY <1>1, <1>2, <1>4, <1>5, <1>6 DEF DeliveriesInv, HooksTypeOK, Held, LogRows
<1>8. DispatchedInOrder' /\ Dispatched' = Dispatched
  BY DEF DeliveriesInv, DispatchedInOrder, Dispatched
<1>9. HooksInv'
  BY DEF DeliveriesInv, HooksInv
<1>10. JobsInv'
  <2>1. ASSUME NEW j \in DOMAIN job
        PROVE  /\ job'[j].hook = job[j].hook
               /\ job'[j].attempt \in 1 .. Attempts(job'[j].hook)
               /\ job'[j].stage = "waiting" => job'[j].attempt = 1
               /\ job'[j].stage = "asleep" =>
                    ~(job'[j].attempt >= Attempts(job'[j].hook))
    <3>1. CASE j = k
      <4>1. x.hook \in Rows /\ x.attempt \in Nat
        BY DEF Jobs
      <4>2. Attempts(x.hook) \in Nat
        BY <4>1, AttemptsType
      <4> QED
        BY <1>1, <3>1, <4>1, <4>2
    <3>2. CASE j # k
      BY <1>1, <3>2 DEF DeliveriesInv, JobsInv, Spent
    <3> QED
      BY <3>1, <3>2
  <2>2. \A j \in DOMAIN job : /\ j[1] \in 1 .. Dispatched /\ j[2] <= edits
                              /\ job[j].hook.url \in {All, published[j[1]]}
    BY DEF DeliveriesInv, JobsInv
  <2> QED
    BY <1>1, <1>8, <2>1, <2>2 DEF JobsInv, Spent
<1> QED
  BY <1>7, <1>8, <1>9, <1>10

\* The keys of the deliveries are pairs.
LEMMA OtherKey ==
  ASSUME HooksTypeOK, NEW j \in DOMAIN job, NEW k \in DOMAIN job,
         j[1] = k[1], j[2] = k[2]
  PROVE  j = k
<1>1. j \in Nat \X (1 .. MaxHooks) /\ k \in Nat \X (1 .. MaxHooks)
  BY DEF HooksTypeOK
<1>2. j = <<j[1], j[2]>> /\ k = <<k[1], k[2]>>
  BY <1>1
<1> QED
  BY <1>2, Zenon

\* An attempt that ends leaves its row while the hook exists.
LEMMA AttemptRecorded ==
  ASSUME DeliveriesInv, NEW k \in DOMAIN job, NEW ok \in BOOLEAN, NEW x \in Jobs,
         job' = [job EXCEPT ![k] = x], job[k].stage \in {"waiting", "sending"},
         x.stage \in {"done", "asleep"}, x.attempt = job[k].attempt,
         NEW kept \in BOOLEAN, ok => x.stage = "done", log' = Ended(k, ok, kept),
         UNCHANGED <<hooks, edits, dispatches, published>>
  PROVE  /\ LogInv'
         /\ log' \subseteq LogRows
<1> DEFINE new == [hook |-> k[2], event |-> k[1], attempt |-> job[k].attempt,
                   ok |-> ok, kept |-> kept]
<1>1. log' = IF k[2] \in Ids THEN log \union {new} ELSE log
  BY DEF Ended
<1>2. /\ new.hook = k[2] /\ new.event = k[1] /\ new.attempt = job[k].attempt /\ new.ok = ok
  OBVIOUS
<1>3. /\ k[1] \in Nat /\ k[2] \in 1 .. MaxHooks /\ k[1] <= Dispatched /\ k[2] <= edits
      /\ job[k] \in Jobs /\ job[k].attempt \in Nat /\ job[k].attempt >= 1
  <2>1. k \in Nat \X (1 .. MaxHooks) /\ job[k] \in Jobs
    BY DEF DeliveriesInv, HooksTypeOK
  <2>2. k[1] \in 1 .. Dispatched /\ k[2] <= edits
        /\ job[k].attempt \in 1 .. Attempts(job[k].hook)
    BY DEF DeliveriesInv, JobsInv
  <2>3. k[1] <= Dispatched /\ job[k].attempt >= 1
    BY <2>2
  <2> QED
    BY <2>1, <2>2, <2>3 DEF Jobs
<1>4. new \in LogRows
  BY <1>3 DEF LogRows
<1> HIDE DEF new
<1>5. log' \subseteq LogRows
  BY <1>1, <1>4 DEF DeliveriesInv, HooksTypeOK, LogRows
<1>6. Ids' = Ids /\ Dispatched' = Dispatched
  BY DEF Ids, Dispatched
<1>7. \A r \in log' : r.hook <= edits' /\ r.event <= Dispatched'
  BY <1>1, <1>2, <1>3, <1>6 DEF DeliveriesInv, LogInv
<1>8. /\ DOMAIN job' = DOMAIN job /\ job'[k] = x
      /\ \A j \in DOMAIN job : j # k => job'[j] = job[j]
  OBVIOUS
<1>9. ASSUME NEW j \in DOMAIN job', j[2] \in Ids'
      PROVE  /\ \A r, q \in RowsOf(j)' : r.attempt = q.attempt => r = q
             /\ \A r \in RowsOf(j)' : r.attempt \in 1 .. Attempted(j)'
             /\ \A n \in 1 .. Attempted(j)' : \E r \in RowsOf(j)' : r.attempt = n
             /\ \A r \in RowsOf(j)' :
                  r.ok => job'[j].stage = "done" /\ r.attempt = job'[j].attempt
  <2>1. /\ \A r, q \in RowsOf(j) : r.attempt = q.attempt => r = q
        /\ \A r \in RowsOf(j) : r.attempt \in 1 .. Attempted(j)
        /\ \A n \in 1 .. Attempted(j) : \E r \in RowsOf(j) : r.attempt = n
        /\ \A r \in RowsOf(j) : r.ok => job[j].stage = "done" /\ r.attempt = job[j].attempt
    BY <1>6, <1>8, <1>9 DEF DeliveriesInv, LogInv
  <2>2. CASE j # k
    <3>1. ~(j[1] = k[1] /\ j[2] = k[2])
      BY <1>8, <2>2, OtherKey DEF DeliveriesInv
    <3>2. RowsOf(j)' = RowsOf(j)
      BY <1>1, <1>2, <3>1 DEF RowsOf
    <3>3. (Attempted(j)' = Attempted(j)) /\ job'[j] = job[j]
      BY <1>8, <2>2 DEF Attempted
    <3> QED
      BY <2>1, <3>2, <3>3
  <2>3. CASE j = k
    <3>1. RowsOf(k)' = RowsOf(k) \union {new}
      BY <1>1, <1>2, <1>6, <1>9, <2>3 DEF RowsOf
    <3>2. Attempted(k) = job[k].attempt - 1
      BY DEF Attempted
    <3>3. Attempted(k)' = job[k].attempt
      BY <1>8 DEF Attempted
    <3>4. \A r \in RowsOf(k) : r.attempt \in 1 .. job[k].attempt - 1 /\ ~r.ok
      BY <2>1, <2>3, <3>2
    <3>5. \A r \in RowsOf(k) : r.attempt \in 1 .. job[k].attempt /\ r.attempt # job[k].attempt
      BY <1>3, <3>4
    <3>6. \A r, q \in RowsOf(k)' : r.attempt = q.attempt => r = q
      BY <1>2, <2>1, <2>3, <3>1, <3>5
    <3>7. \A r \in RowsOf(k)' : r.attempt \in 1 .. Attempted(k)'
      <4>1. job[k].attempt \in 1 .. job[k].attempt
        BY <1>3
      <4> QED
        BY <1>2, <3>1, <3>3, <3>5, <4>1
    <3>8. ASSUME NEW n \in 1 .. Attempted(k)' PROVE \E r \in RowsOf(k)' : r.attempt = n
      <4>1. CASE n = job[k].attempt
        BY <1>2, <3>1, <4>1
      <4>2. CASE n # job[k].attempt
        <5>1. n \in 1 .. Attempted(k)
          BY <1>3, <3>2, <3>3, <4>2
        <5>2. \E r \in RowsOf(k) : r.attempt = n
          BY <2>1, <2>3, <5>1
        <5> QED
          BY <3>1, <5>2
      <4> QED
        BY <4>1, <4>2
    <3>9. \A r \in RowsOf(k)' : r.ok => job'[k].stage = "done" /\ r.attempt = job'[k].attempt
      BY <1>2, <1>8, <3>1, <3>4
    <3> QED
      BY <2>3, <3>6, <3>7, <3>8, <3>9
  <2> QED
    BY <2>2, <2>3
<1>10. LogInv'
  BY <1>7, <1>9 DEF LogInv
<1> QED
  BY <1>5, <1>10

\* A delivery that goes to another stage without a row.
LEMMA NothingRecorded ==
  ASSUME DeliveriesInv, NEW k \in DOMAIN job, NEW x \in Jobs,
         job' = [job EXCEPT ![k] = x],
         \/ job[k].stage = "waiting" /\ x.stage = "sending" /\ x.attempt = job[k].attempt
         \/ job[k].stage = "asleep" /\ x.stage = "sending" /\ x.attempt = job[k].attempt + 1,
         UNCHANGED <<hooks, edits, dispatches, published, log>>
  PROVE  LogInv'
<1>1. Ids' = Ids /\ Dispatched' = Dispatched /\ \A j : RowsOf(j)' = RowsOf(j)
  BY DEF Ids, Dispatched, RowsOf
<1>2. /\ DOMAIN job' = DOMAIN job /\ job'[k] = x
      /\ \A j \in DOMAIN job : j # k => job'[j] = job[j]
  OBVIOUS
<1>3. job[k].attempt \in Nat /\ job[k].attempt >= 1
  <2>1. job[k] \in Jobs /\ job[k].attempt \in 1 .. Attempts(job[k].hook)
    BY DEF DeliveriesInv, HooksTypeOK, JobsInv
  <2> QED
    BY <2>1 DEF Jobs
<1>4. ASSUME NEW j \in DOMAIN job, j[2] \in Ids
      PROVE  /\ \A r, q \in RowsOf(j) : r.attempt = q.attempt => r = q
             /\ \A r \in RowsOf(j) : r.attempt \in 1 .. Attempted(j)'
             /\ \A n \in 1 .. Attempted(j)' : \E r \in RowsOf(j) : r.attempt = n
             /\ \A r \in RowsOf(j) :
                  r.ok => job'[j].stage = "done" /\ r.attempt = job'[j].attempt
  <2>1. /\ \A r, q \in RowsOf(j) : r.attempt = q.attempt => r = q
        /\ \A r \in RowsOf(j) : r.attempt \in 1 .. Attempted(j)
        /\ \A n \in 1 .. Attempted(j) : \E r \in RowsOf(j) : r.attempt = n
        /\ \A r \in RowsOf(j) : r.ok => job[j].stage = "done" /\ r.attempt = job[j].attempt
    BY <1>4 DEF DeliveriesInv, LogInv
  <2>2. CASE j # k
    <3>1. (Attempted(j)' = Attempted(j)) /\ job'[j] = job[j]
      BY <1>2, <2>2 DEF Attempted
    <3> QED
      BY <2>1, <3>1
  <2>3. CASE j = k
    <3>1. (Attempted(k)' = Attempted(k)) /\ job[k].stage # "done"
      BY <1>2, <1>3, <2>3 DEF Attempted
    <3> QED
      BY <2>1, <2>3, <3>1
  <2> QED
    BY <2>2, <2>3
<1>5. \A r \in log : r.hook <= edits /\ r.event <= Dispatched
  BY DEF DeliveriesInv, LogInv
<1> QED
  BY <1>1, <1>2, <1>4, <1>5 DEF LogInv

LEMMA StageSet ==
  ASSUME HooksTypeOK, NEW k \in DOMAIN job, NEW st \in Stages,
         job' = [job EXCEPT ![k].stage = st]
  PROVE  \E x \in Jobs : /\ job' = [job EXCEPT ![k] = x] /\ x.hook = job[k].hook
                         /\ x.attempt = job[k].attempt /\ x.stage = st
<1>1. job[k] \in Jobs
  BY DEF HooksTypeOK
<1>2. [job[k] EXCEPT !.stage = st] \in Jobs
  BY <1>1 DEF Jobs
<1>3. /\ [job[k] EXCEPT !.stage = st].hook = job[k].hook
      /\ [job[k] EXCEPT !.stage = st].attempt = job[k].attempt
      /\ [job[k] EXCEPT !.stage = st].stage = st
  BY <1>1 DEF Jobs
<1>4. job' = [job EXCEPT ![k] = [job[k] EXCEPT !.stage = st]]
  OBVIOUS
<1> QED
  BY <1>2, <1>3, <1>4

\* The line with its first delivery gone.
LEMMA LineTaken ==
  ASSUME HooksTypeOK, line # <<>>
  PROVE  /\ Head(line) \in DOMAIN job /\ job[Head(line)].stage = "waiting"
         /\ Tail(line) \in Seq(DOMAIN job) /\ IsInjective(Tail(line))
         /\ Range(Tail(line)) = Range(line) \ {Head(line)}
<1>1. line \in Seq(DOMAIN job) /\ IsInjective(line)
      /\ Range(line) = {k \in DOMAIN job : job[k].stage = "waiting"}
  BY DEF HooksTypeOK
<1>2. /\ Len(line) \in Nat \ {0} /\ DOMAIN line = 1 .. Len(line) /\ Head(line) = line[1]
      /\ DOMAIN Tail(line) = 1 .. Len(line) - 1 /\ Tail(line) \in Seq(DOMAIN job)
      /\ \A i \in 1 .. Len(line) - 1 : Tail(line)[i] = line[i + 1]
  BY <1>1
<1>3. 1 \in DOMAIN line
  BY <1>2
<1>4. Head(line) \in Range(line)
  BY <1>2, <1>3 DEF Range
<1>5. \A i \in 1 .. Len(line) - 1 : i \in Nat /\ i + 1 \in DOMAIN line /\ i + 1 # 1
  BY <1>2
<1>6. IsInjective(Tail(line))
  <2>1. ASSUME NEW i \in DOMAIN Tail(line), NEW j \in DOMAIN Tail(line),
               Tail(line)[i] = Tail(line)[j]
        PROVE  i = j
    <3>1. line[i + 1] = line[j + 1] /\ i + 1 \in DOMAIN line /\ j + 1 \in DOMAIN line
      BY <1>2, <1>5, <2>1
    <3>2. i + 1 = j + 1 /\ i \in Nat /\ j \in Nat
      BY <1>1, <1>2, <1>5, <3>1 DEF IsInjective
    <3> QED
      BY <3>2
  <2> QED
    BY <2>1 DEF IsInjective
<1>7. ASSUME NEW x \in Range(Tail(line)) PROVE x \in Range(line) /\ x # Head(line)
  <2>1. PICK i \in DOMAIN Tail(line) : x = Tail(line)[i]
    BY DEF Range
  <2>2. x = line[i + 1] /\ i + 1 \in DOMAIN line /\ i + 1 # 1
    BY <1>2, <1>5, <2>1
  <2> QED
    BY <1>1, <1>2, <1>3, <2>2 DEF IsInjective, Range
<1>8. ASSUME NEW x \in Range(line), x # Head(line) PROVE x \in Range(Tail(line))
  <2>1. PICK i \in DOMAIN line : x = line[i]
    BY DEF Range
  <2>2. i # 1
    BY <1>2, <1>8, <2>1
  <2>3. i - 1 \in 1 .. Len(line) - 1 /\ (i - 1) + 1 = i
    BY <1>2, <2>2
  <2>4. x = Tail(line)[i - 1] /\ i - 1 \in DOMAIN Tail(line)
    BY <1>2, <2>1, <2>3
  <2> QED
    BY <2>4 DEF Range
<1> QED
  BY <1>1, <1>2, <1>4, <1>6, <1>7, <1>8

LEMMA AcquireDeliveries ==
  ASSUME DeliveriesInv, published \in Seq(Tenants \union {NoTenant}),
         Acquire, UNCHANGED published
  PROVE  DeliveriesInv'
<1>1. PICK k : k = Head(line)
  OBVIOUS
<1>2. /\ line # <<>> /\ free > 0 /\ line' = Tail(line)
      /\ UNCHANGED <<hooks, edits, dispatches, published>>
      /\ IF job[k].hook.blocked
         THEN /\ job' = [job EXCEPT ![k].stage = "done"]
              /\ Recorded(k, FALSE) /\ free' = free
         ELSE /\ job' = [job EXCEPT ![k].stage = "sending"]
              /\ free' = free - 1 /\ log' = log
  BY <1>1 DEF Acquire
<1>3. /\ HooksTypeOK /\ k \in DOMAIN job /\ job[k].stage = "waiting"
      /\ line' \in Seq(DOMAIN job) /\ IsInjective(line') /\ Range(line') = Range(line) \ {k}
      /\ free \in Nat
  BY <1>1, <1>2, LineTaken, Dispatches DEF DeliveriesInv
<1>4. job[k].attempt \in 1 .. Attempts(job[k].hook)
  BY <1>3 DEF DeliveriesInv, JobsInv
<1>5. CASE job[k].hook.blocked
  <2>1. PICK x \in Jobs : /\ job' = [job EXCEPT ![k] = x] /\ x.hook = job[k].hook
                          /\ x.attempt = job[k].attempt /\ x.stage = "done"
    BY <1>2, <1>3, <1>5, StageSet DEF Stages
  <2>2. LogInv' /\ log' \subseteq LogRows
    <3>1. PICK kept \in BOOLEAN : log' = Ended(k, FALSE, kept)
      BY <1>2, <1>5 DEF Recorded
    <3> QED
      BY <1>2, <1>3, <2>1, <3>1, AttemptRecorded
  <2>3. free' = free + Takes(job[k].stage) - Takes(x.stage) /\ free' >= 0
    BY <1>2, <1>3, <1>5, <2>1 DEF Takes
  <2>4. HooksTypeOK' /\ DispatchedInOrder' /\ HooksInv' /\ JobsInv'
    BY <1>2, <1>3, <1>4, <2>1, <2>2, <2>3, JobMoved
  <2> QED
    BY <2>2, <2>4 DEF DeliveriesInv
<1>6. CASE ~job[k].hook.blocked
  <2>1. PICK x \in Jobs : /\ job' = [job EXCEPT ![k] = x] /\ x.hook = job[k].hook
                          /\ x.attempt = job[k].attempt /\ x.stage = "sending"
    BY <1>2, <1>3, <1>6, StageSet DEF Stages
  <2>2. log' = log /\ log' \subseteq LogRows
    BY <1>2, <1>3, <1>6 DEF HooksTypeOK, LogRows
  <2>3. free' = free + Takes(job[k].stage) - Takes(x.stage) /\ free' >= 0
    BY <1>2, <1>3, <1>6, <2>1 DEF Takes
  <2>4. HooksTypeOK' /\ DispatchedInOrder' /\ HooksInv' /\ JobsInv'
    BY <1>2, <1>3, <1>4, <2>1, <2>2, <2>3, JobMoved
  <2>5. LogInv'
    BY <1>2, <1>3, <2>1, <2>2, NothingRecorded
  <2> QED
    BY <2>4, <2>5 DEF DeliveriesInv
<1> QED
  BY <1>5, <1>6

\* An attempt that ends: answered, timed out or failed.
LEMMA AttemptEnds ==
  ASSUME DeliveriesInv, published \in Seq(Tenants \union {NoTenant}),
         NEW k \in DOMAIN job, NEW ok \in BOOLEAN, NEW over \in BOOLEAN,
         NEW kept \in BOOLEAN,
         job[k].stage = "sending", ok => over, Spent(k) => over,
         job' = [job EXCEPT ![k].stage = IF over THEN "done" ELSE "asleep"],
         free' = IF over THEN free + 1 ELSE free, log' = Ended(k, ok, kept),
         UNCHANGED <<hooks, edits, dispatches, line, published>>
  PROVE  DeliveriesInv'
<1>1. PICK st \in {"done", "asleep"} : st = IF over THEN "done" ELSE "asleep"
  OBVIOUS
<1>2. HooksTypeOK /\ free \in Nat
  BY Dispatches DEF DeliveriesInv
<1>3. PICK x \in Jobs : /\ job' = [job EXCEPT ![k] = x] /\ x.hook = job[k].hook
                        /\ x.attempt = job[k].attempt /\ x.stage = st
  <2>1. st \in Stages /\ job' = [job EXCEPT ![k].stage = st]
    BY <1>1 DEF Stages
  <2> QED
    BY <1>2, <2>1, StageSet
<1>4. LogInv' /\ log' \subseteq LogRows
  BY <1>1, <1>3, AttemptRecorded
<1>5. free' = free + Takes(job[k].stage) - Takes(x.stage) /\ free' >= 0
  BY <1>1, <1>2, <1>3 DEF Takes
<1>6. line' \in Seq(DOMAIN job) /\ IsInjective(line') /\ Range(line') = Range(line) \ {k}
  BY <1>2 DEF HooksTypeOK
<1>7. /\ x.attempt \in 1 .. Attempts(x.hook)
      /\ x.stage = "asleep" => x.attempt < Attempts(x.hook)
  <2>1. x.attempt \in 1 .. Attempts(x.hook)
    BY <1>3 DEF DeliveriesInv, JobsInv
  <2>2. Attempts(x.hook) \in Nat /\ x.attempt \in Nat
    BY AttemptsType DEF Jobs
  <2> QED
    BY <1>1, <1>3, <2>1, <2>2 DEF Spent
<1>8. HooksTypeOK' /\ DispatchedInOrder' /\ HooksInv' /\ JobsInv'
  BY <1>1, <1>3, <1>4, <1>5, <1>6, <1>7, JobMoved
<1> QED
  BY <1>4, <1>8 DEF DeliveriesInv

LEMMA DeliverDeliveries ==
  ASSUME DeliveriesInv, published \in Seq(Tenants \union {NoTenant}),
         NEW k \in DOMAIN job, Deliver(k), UNCHANGED published
  PROVE  DeliveriesInv'
<1>1. HooksTypeOK /\ free \in Nat /\ Spent(k) \in BOOLEAN
  BY Dispatches DEF DeliveriesInv, Spent
<1>2. ASSUME NEW ok \in BOOLEAN, Answer(k, ok) PROVE DeliveriesInv'
  <2>1. PICK over \in BOOLEAN : over = (ok \/ Spent(k))
    BY <1>1
  <2>2. /\ job[k].stage = "sending" /\ (ok => over) /\ (Spent(k) => over)
        /\ job' = [job EXCEPT ![k].stage = IF over THEN "done" ELSE "asleep"]
        /\ free' = IF over THEN free + 1 ELSE free
        /\ UNCHANGED <<hooks, edits, dispatches, line>>
    BY <1>2, <2>1 DEF Answer
  <2>3. PICK kept \in BOOLEAN : log' = Ended(k, ok, kept)
    BY <1>2 DEF Answer, Recorded
  <2> QED
    BY <2>1, <2>2, <2>3, AttemptEnds
<1>3. CASE TimeOut(k)
  <2>1. PICK over \in BOOLEAN : over = Spent(k)
    BY <1>1
  <2>2. /\ job[k].stage = "sending" /\ (Spent(k) => over)
        /\ job' = [job EXCEPT ![k].stage = IF over THEN "done" ELSE "asleep"]
        /\ free' = IF over THEN free + 1 ELSE free
        /\ UNCHANGED <<hooks, edits, dispatches, line>>
    BY <1>3, <2>1 DEF TimeOut
  <2>3. PICK kept \in BOOLEAN : log' = Ended(k, FALSE, kept)
    BY <1>3 DEF TimeOut, Recorded
  <2> QED
    BY <2>1, <2>2, <2>3, AttemptEnds
<1>4. job[k] \in Jobs /\ job[k].hook \in Rows /\ job[k].attempt \in 1 .. Attempts(job[k].hook)
  BY <1>1 DEF DeliveriesInv, HooksTypeOK, JobsInv, Jobs
<1>5. /\ line \in Seq(DOMAIN job) /\ IsInjective(line)
      /\ job[k].stage # "waiting" => Range(line) = Range(line) \ {k}
      /\ log \subseteq LogRows
  BY <1>1 DEF HooksTypeOK, LogRows
<1>6. CASE Break(k)
  <2>1. /\ job[k].stage = "sending" /\ free' = free + 1
        /\ job' = [job EXCEPT ![k].stage = "done"] /\ log' = Ended(k, FALSE, FALSE)
        /\ UNCHANGED <<hooks, edits, dispatches, line>>
    BY <1>6 DEF Break
  <2> QED
    BY <2>1, AttemptEnds
<1>7. CASE Wake(k)
  <2>1. /\ job[k].stage = "asleep"
        /\ job' = [job EXCEPT ![k].stage = "sending", ![k].attempt = @ + 1]
        /\ UNCHANGED <<hooks, edits, dispatches, line, free, log>>
    BY <1>7 DEF Wake
  <2>2. PICK x \in Jobs : /\ job' = [job EXCEPT ![k] = x] /\ x.hook = job[k].hook
                          /\ x.attempt = job[k].attempt + 1 /\ x.stage = "sending"
    <3>1. [job[k] EXCEPT !.stage = "sending", !.attempt = @ + 1] \in Jobs
      <4>1. job[k].attempt + 1 \in Nat
        BY <1>4 DEF Jobs
      <4>2. job[k] \in Jobs /\ "sending" \in Stages
        BY <1>4 DEF Stages
      <4> QED
        BY <4>1, <4>2 DEF Jobs
    <3>2. job' = [job EXCEPT ![k] = [job[k] EXCEPT !.stage = "sending", !.attempt = @ + 1]]
      BY <2>1
    <3>3. /\ [job[k] EXCEPT !.stage = "sending", !.attempt = @ + 1].hook = job[k].hook
          /\ [job[k] EXCEPT !.stage = "sending", !.attempt = @ + 1].attempt = job[k].attempt + 1
          /\ [job[k] EXCEPT !.stage = "sending", !.attempt = @ + 1].stage = "sending"
      BY <1>4 DEF Jobs
    <3> QED
      BY <3>1, <3>2, <3>3
  <2>3. free' = free + Takes(job[k].stage) - Takes(x.stage) /\ free' >= 0
    BY <1>1, <2>1, <2>2 DEF Takes
  <2>4. x.attempt \in 1 .. Attempts(x.hook)
    <3>1. ~(job[k].attempt >= Attempts(job[k].hook))
      BY <2>1 DEF DeliveriesInv, JobsInv, Spent
    <3>2. Attempts(job[k].hook) \in Nat
      BY <1>4, AttemptsType
    <3> QED
      BY <1>4, <2>2, <3>1, <3>2
  <2>5. HooksTypeOK' /\ DispatchedInOrder' /\ HooksInv' /\ JobsInv'
    BY <1>4, <1>5, <2>1, <2>2, <2>3, <2>4, JobMoved
  <2>6. LogInv'
    BY <2>1, <2>2, NothingRecorded
  <2> QED
    BY <2>5, <2>6 DEF DeliveriesInv
<1> QED
  BY <1>2, <1>3, <1>6, <1>7 DEF Deliver

\* The first dispatch waiting is that of the first event not yet dispatched.
LEMMA NextDispatch ==
  ASSUME DeliveriesInv, published \in Seq(Tenants \union {NoTenant}),
         dispatches # <<>>, dispatches' = Tail(dispatches), UNCHANGED published
  PROVE  /\ Head(dispatches) = <<Dispatched + 1, published[Dispatched + 1]>>
         /\ Dispatched + 1 \in 1 .. Len(published)
         /\ Dispatched' = Dispatched + 1 /\ DispatchedInOrder'
         /\ dispatches' \in Seq(Nat \X (Tenants \union {NoTenant}))
<1>1. /\ dispatches \in Seq(Nat \X (Tenants \union {NoTenant}))
      /\ \A i \in DOMAIN dispatches :
           dispatches[i] = <<Dispatched + i, published[Dispatched + i]>>
  BY DEF DeliveriesInv, HooksTypeOK, DispatchedInOrder
<1>2. /\ Dispatched \in Nat /\ Len(dispatches) \in Nat \ {0} /\ Len(published) \in Nat
      /\ Dispatched + Len(dispatches) = Len(published)
  BY <1>1, Dispatches
<1>3. /\ Head(dispatches) = dispatches[1] /\ DOMAIN dispatches = 1 .. Len(dispatches)
      /\ Len(dispatches') = Len(dispatches) - 1
      /\ DOMAIN dispatches' = 1 .. Len(dispatches) - 1
      /\ \A i \in 1 .. Len(dispatches) - 1 : dispatches'[i] = dispatches[i + 1]
      /\ dispatches' \in Seq(Nat \X (Tenants \union {NoTenant}))
  BY <1>1
<1>4. 1 \in DOMAIN dispatches /\ Dispatched + 1 \in 1 .. Len(published)
  BY <1>2, <1>3
<1>5. Dispatched' = Dispatched + 1
  BY <1>2, <1>3 DEF Dispatched
<1>6. ASSUME NEW i \in DOMAIN dispatches'
      PROVE  dispatches'[i] = <<Dispatched' + i, published'[Dispatched' + i]>>
  <2>1. i \in 1 .. Len(dispatches) - 1
    BY <1>3
  <2>2. i + 1 \in 1 .. Len(dispatches) /\ Dispatched + (i + 1) = (Dispatched + 1) + i
    <3>1. \A d, n \in Nat : \A j \in 1 .. n - 1 : j + 1 \in 1 .. n /\ d + (j + 1) = (d + 1) + j
      OBVIOUS
    <3> QED
      BY <1>2, <2>1, <3>1
  <2>3. dispatches'[i] = dispatches[i + 1] /\ i + 1 \in DOMAIN dispatches
    BY <1>3, <2>1, <2>2
  <2>4. dispatches[i + 1] = <<Dispatched + (i + 1), published[Dispatched + (i + 1)]>>
    BY <1>1, <2>3
  <2> QED
    BY <1>5, <2>2, <2>3, <2>4
<1>7. DispatchedInOrder'
  BY <1>2, <1>3, <1>6 DEF DispatchedInOrder
<1> QED
  BY <1>1, <1>3, <1>4, <1>5, <1>7

LEMMA DispatchDeliveries ==
  ASSUME DeliveriesInv, published \in Seq(Tenants \union {NoTenant}),
         Dispatch, UNCHANGED published
  PROVE  DeliveriesInv'
<1>1. /\ dispatches # <<>> /\ dispatches' = Tail(dispatches)
      /\ UNCHANGED <<hooks, edits, free, log, published>>
  BY DEF Dispatch
<1> DEFINE ev == Head(dispatches)[1]
           t  == Head(dispatches)[2]
           Keys(matching) == {<<ev, r.id>> : r \in matching}
<1>5. PICK matching \in {Matching(t), {}} :
        /\ job' = [k \in DOMAIN job \union Keys(matching) |->
             IF k \in DOMAIN job THEN job[k]
             ELSE [hook |-> CHOOSE r \in matching : r.id = k[2], tenant |-> t,
                   attempt |-> 1, stage |-> "waiting"]]
        /\ line' = line \o SetToSeq(Keys(matching))
  BY Zenon DEF Dispatch
<1> HIDE DEF ev, t
<1>4. /\ ev \in 1 .. Len(published) /\ t = published[ev] /\ ev \in Nat
      /\ Dispatched' = ev /\ DispatchedInOrder' /\ t \in Tenants \union {NoTenant}
      /\ dispatches' \in Seq(Nat \X (Tenants \union {NoTenant}))
  BY <1>1, NextDispatch DEF ev, t
<1>2. ev = Dispatched + 1
  BY <1>1, NextDispatch DEF ev
<1>3. t = published[ev]
  BY <1>4
<1>6. PICK new : new = {<<ev, r.id>> : r \in matching}
  OBVIOUS
<1>7. /\ job' = [k \in DOMAIN job \union new |->
             IF k \in DOMAIN job THEN job[k]
             ELSE [hook |-> CHOOSE r \in matching : r.id = k[2], tenant |-> t,
                   attempt |-> 1, stage |-> "waiting"]]
      /\ line' = line \o SetToSeq(new)
  BY <1>5, <1>6
<1>8. ASSUME NEW r \in matching
      PROVE  /\ r \in Rows /\ r.id \in 1 .. MaxHooks /\ r.id <= edits
             /\ r.url \in {All, t}
  <2>1. r \in Range(hooks) /\ r # NoHook /\ (r.tenant = All \/ r.tenant = t)
    BY DEF Matching
  <2>2. hooks \in [Names -> Rows \union {NoHook}]
    BY DEF DeliveriesInv, HooksTypeOK
  <2>3. PICK n \in Names : r = hooks[n]
    BY <2>1, <2>2 DEF Range
  <2>4. r.id <= edits /\ r.url = r.tenant
    BY <2>1, <2>3 DEF DeliveriesInv, HooksInv
  <2> QED
    BY <2>1, <2>2, <2>3, <2>4 DEF Rows
<1>9. ASSUME NEW k \in new
      PROVE  /\ k[1] = ev /\ k \in Nat \X (1 .. MaxHooks) /\ k[2] <= edits
             /\ k \notin DOMAIN job /\ \E r \in matching : r.id = k[2]
  <2>1. PICK r \in matching : k = <<ev, r.id>>
    BY <1>6
  <2>2. k[1] = ev /\ k[2] = r.id
    BY <2>1
  <2>3. k \notin DOMAIN job
    <3>1. \A j \in DOMAIN job : j[1] \in 1 .. Dispatched
      BY DEF DeliveriesInv, JobsInv
    <3>2. ~(ev \in 1 .. Dispatched)
      BY <1>2, Dispatches
    <3> QED
      BY <2>2, <3>1, <3>2
  <2>4. ev \in Nat
    BY <1>4
  <2> QED
    BY <1>8, <2>1, <2>2, <2>3, <2>4
<1>10. IsFiniteSet(new)
  <2>1. IsFiniteSet(1 .. MaxHooks) /\ IsFiniteSet({ev})
    <3>1. MaxHooks \in Int /\ 1 \in Int
      BY HookAssumption
    <3> QED
      BY <3>1, FS_Interval, FS_Singleton
  <2>2. IsFiniteSet({ev} \X (1 .. MaxHooks))
    BY <2>1, FS_Product
  <2>3. new \subseteq {ev} \X (1 .. MaxHooks)
    BY <1>6, <1>8
  <2> QED
    BY <2>2, <2>3, FS_Subset
<1>11. /\ DOMAIN job' = DOMAIN job \union new
       /\ \A k \in DOMAIN job : job'[k] = job[k]
  BY <1>7
<1>12. ASSUME NEW k \in new
       PROVE  /\ job'[k] \in Jobs /\ job'[k].hook \in matching /\ job'[k].attempt = 1
              /\ job'[k].stage = "waiting" /\ job'[k].hook.url \in {All, published[k[1]]}
  <2>1. PICK row \in matching : row = CHOOSE r \in matching : r.id = k[2]
    BY <1>9
  <2>2. job'[k] = [hook |-> row, tenant |-> t, attempt |-> 1, stage |-> "waiting"]
    BY <1>7, <1>9, <1>11, <2>1
  <2>3. row \in Rows /\ row.url \in {All, t}
    BY <1>8
  <2>4. job'[k] \in Jobs
    BY <1>4, <2>2, <2>3 DEF Jobs, Stages
  <2> QED
    BY <1>3, <1>9, <2>2, <2>3, <2>4
<1>13. /\ job \in [DOMAIN job -> Jobs] /\ DOMAIN job \subseteq Nat \X (1 .. MaxHooks)
       /\ line \in Seq(DOMAIN job) /\ IsInjective(line)
       /\ Range(line) = {k \in DOMAIN job : job[k].stage = "waiting"}
       /\ free = Permits - Cardinality(Held)
  BY DEF DeliveriesInv, HooksTypeOK, Held
<1>14. /\ line' \in Seq(DOMAIN job') /\ IsInjective(line') /\ Range(line') = Range(line) \union new
  <2>1. SetToSeq(new) \in Seq(new) /\ IsInjective(SetToSeq(new)) /\ Range(SetToSeq(new)) = new
    BY <1>10, ListOf
  <2>2. line \in Seq(DOMAIN job') /\ SetToSeq(new) \in Seq(DOMAIN job')
    <3>1. DOMAIN job \subseteq DOMAIN job' /\ new \subseteq DOMAIN job'
      BY <1>11
    <3> QED
      BY <1>13, <2>1, <3>1, WiderSequence
  <2>3. Range(line) \intersect Range(SetToSeq(new)) = {}
    BY <1>9, <1>13, <2>1
  <2>4. /\ line \o SetToSeq(new) \in Seq(DOMAIN job') /\ IsInjective(line \o SetToSeq(new))
        /\ Range(line \o SetToSeq(new)) = Range(line) \union Range(SetToSeq(new))
    BY <1>13, <2>1, <2>2, <2>3, ListsJoined
  <2> QED
    BY <1>7, <2>1, <2>4
<1>15. HooksTypeOK'
  <2>1. DOMAIN job' \subseteq Nat \X (1 .. MaxHooks)
    BY <1>9, <1>11, <1>13
  <2>2. job' \in [DOMAIN job' -> Jobs]
    <3>1. \A k \in DOMAIN job' : job'[k] \in Jobs
      BY <1>11, <1>12, <1>13
    <3>2. job' = [k \in DOMAIN job' |-> job'[k]]
      BY <1>7, <1>11
    <3> QED
      BY <3>1, <3>2
  <2>3. Range(line') = {k \in DOMAIN job' : job'[k].stage = "waiting"}
    BY <1>11, <1>12, <1>13, <1>14
  <2>4. Held' = Held
    BY <1>9, <1>11, <1>12 DEF Held
  <2>5. free' = Permits - Cardinality({k \in DOMAIN job' : job'[k].stage \in {"sending", "asleep"}})
    BY <1>1, <1>13, <2>4 DEF Held
  <2> QED
    BY <1>1, <1>4, <1>14, <2>1, <2>2, <2>3, <2>5 DEF DeliveriesInv, HooksTypeOK
<1>16. HooksInv'
  BY <1>1 DEF DeliveriesInv, HooksInv
<1>17. JobsInv'
  <2>1. ASSUME NEW k \in DOMAIN job'
        PROVE  /\ k[1] \in 1 .. Dispatched' /\ k[2] <= edits
               /\ job'[k].hook.url \in {All, published[k[1]]}
               /\ job'[k].attempt \in 1 .. Attempts(job'[k].hook)
               /\ job'[k].stage = "waiting" => job'[k].attempt = 1
               /\ job'[k].stage = "asleep" =>
                    ~(job'[k].attempt >= Attempts(job'[k].hook))
    <3>1. CASE k \in DOMAIN job
      <4>1. k[1] \in 1 .. Dispatched
        BY <3>1 DEF DeliveriesInv, JobsInv
      <4>2. k[1] \in 1 .. Dispatched'
        BY <1>2, <1>4, <4>1, Dispatches
      <4> QED
        BY <1>11, <3>1, <4>2 DEF DeliveriesInv, JobsInv, Spent
    <3>2. CASE k \in new
      <4>1. Attempts(job'[k].hook) \in Nat \ {0}
        BY <1>8, <1>12, <3>2, AttemptsType
      <4>2. 1 \in 1 .. Attempts(job'[k].hook)
        BY <4>1
      <4>3. k[1] \in 1 .. Dispatched'
        BY <1>4, <1>9, <3>2
      <4> QED
        BY <1>9, <1>12, <3>2, <4>2, <4>3
    <3> QED
      BY <1>11, <3>1, <3>2
  <2> QED
    BY <1>1, <2>1 DEF JobsInv, Spent
<1>18. LogInv'
  <2>1. \A r \in log : r.hook <= edits /\ r.event <= Dispatched /\ r.event \in Nat
    BY DEF DeliveriesInv, HooksTypeOK, LogInv
  <2>2. \A r \in log : r.event <= Dispatched' /\ r.event # ev
    BY <1>2, <1>4, <2>1, Dispatches
  <2>3. Ids' = Ids /\ \A k : RowsOf(k)' = RowsOf(k)
    BY <1>1 DEF Ids, RowsOf
  <2>4. ASSUME NEW k \in DOMAIN job', k[2] \in Ids
        PROVE  /\ \A r, q \in RowsOf(k) : r.attempt = q.attempt => r = q
               /\ \A r \in RowsOf(k) : r.attempt \in 1 .. Attempted(k)'
               /\ \A n \in 1 .. Attempted(k)' : \E r \in RowsOf(k) : r.attempt = n
               /\ \A r \in RowsOf(k) :
                    r.ok => job'[k].stage = "done" /\ r.attempt = job'[k].attempt
    <3>1. CASE k \in DOMAIN job
      <4>1. Attempted(k)' = Attempted(k) /\ job'[k] = job[k]
        BY <1>11, <3>1 DEF Attempted
      <4> QED
        BY <2>4, <3>1, <4>1 DEF DeliveriesInv, LogInv
    <3>2. CASE k \in new
      <4>1. RowsOf(k) = {}
        BY <1>9, <2>2, <3>2 DEF RowsOf
      <4>2. Attempted(k)' = 0
        BY <1>12, <3>2 DEF Attempted
      <4>3. 1 .. Attempted(k)' = {}
        BY <4>2
      <4> QED
        BY <4>1, <4>3
    <3> QED
      BY <1>11, <3>1, <3>2
  <2> QED
    BY <1>1, <2>1, <2>2, <2>3, <2>4 DEF LogInv
<1> QED
  BY <1>4, <1>15, <1>16, <1>17, <1>18 DEF DeliveriesInv

-----------------------------------------------------------------------------
(* What the log tells *)

LEMMA LogHolds ==
  ASSUME DeliveriesInv
  PROVE  AttemptsLogged
<1> SUFFICES ASSUME NEW k \in DOMAIN job, k[2] \in Ids
             PROVE  LET entries == {r \in log : r.hook = k[2] /\ r.event = k[1]}
                        rows    == {r \in entries : r.kept}
                        lost    == {r.attempt : r \in entries \ rows}
                    IN  /\ {r.attempt : r \in rows} = (1 .. Attempted(k)) \ lost
                        /\ \A r, q \in entries : r.attempt = q.attempt => r = q
                        /\ Attempted(k) <= Attempts(job[k].hook)
                        /\ \A r \in entries :
                             r.ok => job[k].stage = "done" /\ r.attempt = job[k].attempt
  BY Zenon DEF AttemptsLogged
<1> DEFINE rows == {r \in RowsOf(k) : r.kept}
           lost == {r.attempt : r \in RowsOf(k) \ rows}
<1>1. /\ \A r, q \in RowsOf(k) : r.attempt = q.attempt => r = q
      /\ \A r \in RowsOf(k) : r.attempt \in 1 .. Attempted(k)
      /\ \A n \in 1 .. Attempted(k) : \E r \in RowsOf(k) : r.attempt = n
      /\ \A r \in RowsOf(k) : r.ok => job[k].stage = "done" /\ r.attempt = job[k].attempt
  BY DEF DeliveriesInv, LogInv
<1>2. Attempted(k) <= Attempts(job[k].hook)
  <2>1. job[k] \in Jobs /\ job[k].attempt \in 1 .. Attempts(job[k].hook)
    BY DEF DeliveriesInv, HooksTypeOK, JobsInv
  <2>2. job[k].attempt \in Nat /\ job[k].attempt >= 1 /\ Attempts(job[k].hook) \in Nat
    BY <2>1, AttemptsType DEF Jobs
  <2>3. job[k].attempt <= Attempts(job[k].hook)
    BY <2>1
  <2> QED
    BY <2>2, <2>3 DEF Attempted
<1>3. {r.attempt : r \in rows} = (1 .. Attempted(k)) \ lost
  <2>1. ASSUME NEW r \in rows PROVE r.attempt \in (1 .. Attempted(k)) \ lost
    BY <1>1
  <2>2. ASSUME NEW n \in (1 .. Attempted(k)) \ lost PROVE n \in {r.attempt : r \in rows}
    BY <1>1
  <2> QED
    BY <2>1, <2>2
<1>4. RowsOf(k) = {r \in log : r.hook = k[2] /\ r.event = k[1]}
  BY DEF RowsOf
<1> QED
  BY <1>1, <1>2, <1>3, <1>4, Zenon

\* No stream shows, and no job carries, what is not for it.
LEMMA ApartHolds ==
  ASSUME DeliveryInv
  PROVE  NoCrossTenant
<1>1. TypeOK
  BY DEF DeliveryInv, StreamsInv, DeliveriesInv, TypeOK
<1>2. \A v \in Readers : \A i \in DOMAIN seen[v] : Visible(v, seen[v][i])
  BY DEF DeliveryInv, StreamsInv, StreamInv
<1>3. \A k \in DOMAIN job : job[k].hook.url \in {All, published[k[1]]}
  BY DEF DeliveryInv, DeliveriesInv, JobsInv
<1> QED
  BY <1>1, <1>2, <1>3 DEF NoCrossTenant

-----------------------------------------------------------------------------
(* Theorems *)

\* The invariant holds of every behaviour: what the streams have shown and may
\* still show, and what the deliveries have tried and the log tells of them.
THEOREM DeliveryInvariant == Spec => []DeliveryInv
<1>1. Init => DeliveryInv
  BY StreamsStart, DeliveriesStart DEF Init, DeliveryInv
<1>2. DeliveryInv /\ [Next]_vars => DeliveryInv'
  <2> SUFFICES ASSUME DeliveryInv, [Next]_vars PROVE DeliveryInv'
    OBVIOUS
  <2>1. StreamsInv /\ DeliveriesInv /\ published \in Seq(Tenants \union {NoTenant})
    BY DEF DeliveryInv, StreamsInv, BusTypeOK
  <2>2. ASSUME NEW t \in Origins, Emit(t) PROVE DeliveryInv'
    <3>1. t \in Tenants \union {NoTenant}
      BY OriginsAssumption
    <3>2. StreamsInv'
      BY <2>1, <2>2, <3>1, EmitStreams DEF Emit
    <3>3. DeliveriesInv'
      BY <2>1, <2>2, <3>1, EmitDeliveries DEF Emit, Publish
    <3> QED
      BY <3>2, <3>3 DEF DeliveryInv
  <2>3. CASE Notify /\ UNCHANGED hookVars
    <3>1. StreamsInv'
      BY <2>1, <2>3, NotifyStreams
    <3>2. DeliveriesInv'
      BY <2>1, <2>3, DeliveriesStutter DEF Notify
    <3> QED
      BY <3>1, <3>2 DEF DeliveryInv
  <2>4. ASSUME NEW v \in Readers, Stream(v), UNCHANGED hookVars PROVE DeliveryInv'
    <3>1. StreamsInv'
      BY <2>1, <2>4, OpenStreams, YieldReplayStreams, SubscribeStreams, TakeStreams,
         LeavingStreams DEF Stream
    <3>2. UNCHANGED published
      BY <2>4 DEF Stream, Open, YieldReplay, Subscribe, Take, LeaveReplay, Leave, Unlist
    <3>3. DeliveriesInv'
      BY <2>1, <2>4, <3>2, DeliveriesStutter
    <3> QED
      BY <3>1, <3>3 DEF DeliveryInv
  <2>5. CASE HooksNext /\ UNCHANGED busVars
    <3>1. StreamsInv' /\ UNCHANGED published
      BY <2>1, <2>5, StreamsStutter DEF busVars
    <3>2. CASE Administer
      BY <2>1, <3>1, <3>2, UpsertDeliveries, DeleteDeliveries DEF Administer, DeliveryInv
    <3>3. CASE Dispatch
      BY <2>1, <3>1, <3>3, DispatchDeliveries DEF DeliveryInv
    <3>4. CASE Acquire
      BY <2>1, <3>1, <3>4, AcquireDeliveries DEF DeliveryInv
    <3>5. CASE \E k \in DOMAIN job : Deliver(k)
      BY <2>1, <3>1, <3>5, DeliverDeliveries DEF DeliveryInv
    <3> QED
      BY <2>5, <3>2, <3>3, <3>4, <3>5 DEF HooksNext
  <2>6. CASE UNCHANGED vars
    BY <2>1, <2>6, StreamsStutter, DeliveriesStutter DEF vars, busVars, DeliveryInv
  <2> QED
    BY <2>2, <2>3, <2>4, <2>5, <2>6 DEF Next
<1> QED
  BY <1>1, <1>2, PTL DEF Spec

\* The variables keep their types; the line holds the waiting deliveries, each
\* once, and the permits taken are those of the deliveries that send or sleep.
THEOREM TypeCorrect == Spec => []TypeOK
<1>1. DeliveryInv => TypeOK
  BY DEF DeliveryInv, StreamsInv, DeliveriesInv, TypeOK
<1> QED
  BY <1>1, DeliveryInvariant, PTL

\* No tenant learns of another one's events, by a stream or by a webhook.
THEOREM TenantsApart == Spec => []NoCrossTenant
<1>1. DeliveryInv => NoCrossTenant
  BY ApartHolds
<1> QED
  BY <1>1, DeliveryInvariant, PTL

\* The seam of replay and subscription errs on one side only.
THEOREM SeamOnOneSide == Spec => []SeamOneSided
<1>1. DeliveryInv => SeamOneSided
  BY SeamHolds DEF DeliveryInv
<1> QED
  BY <1>1, DeliveryInvariant, PTL

\* The log (record_webhook_delivery) tells of each attempt of a delivery once, but
\* for those whose insertion failed and a last one whose answer did not decode, and
\* there is no attempt after a success that was seen (_deliver_with_retry).
THEOREM AttemptsAreLogged == Spec => []AttemptsLogged
<1>1. DeliveryInv => AttemptsLogged
  BY LogHolds DEF DeliveryInv
<1> QED
  BY <1>1, DeliveryInvariant, PTL
=============================================================================
