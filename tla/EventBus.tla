------------------------------ MODULE EventBus ------------------------------
(***************************************************************************)
(* The event bus of src/gateway/events.py and its streams                  *)
(* (events_stream, events_recent in src/gateway/app.py).                   *)
(*                                                                         *)
(* publish appends to the ring and creates a task that notifies; the loop  *)
(* runs those tasks first created, first run, each without an await.  A    *)
(* stream yields the replay one event at a time, its consumer awaiting in  *)
(* between, and only then subscribes.  Every publisher runs on the loop.   *)
(*                                                                         *)
(* An event is the number of its publication.  The source filter of a      *)
(* stream works as its tenant filter does and is left out.                 *)
(***************************************************************************)
EXTENDS Tenancy, Integers, FiniteSets, SequencesExt

CONSTANTS
  Readers,      \* event streams; each is opened once
  Filter,       \* reader -> tenant its stream is filtered by, or All
  RingSize,     \* ring_buffer_size
  ReplayLimit,  \* the limit of recent() in stream()
  MaxQueue,     \* max_queue of subscribe()
  MaxEvents     \* bound: events published

ASSUME BusAssumption ==
  /\ Filter \in [Readers -> Tenants \union {All}]
  /\ {RingSize, ReplayLimit, MaxQueue} \subseteq Nat \ {0} /\ MaxEvents \in Nat

VARIABLES
  published,    \* tenant of every event published, in order
  pending,      \* events whose _notify task has not run, first first
  phase,        \* reader -> "new", "replay", "live", "gone" or "removed"
  replay,       \* reader -> events of the replay still to yield, first first
  queue,        \* reader -> its asyncio.Queue
  seen,         \* reader -> events written to its client
  since,        \* history: reader -> events published when it took its replay
  dropped       \* history: reader -> events lost to QueueFull

busVars == <<published, pending, phase, replay, queue, seen, since, dropped>>

Event == 1 .. Len(published)

BusInit ==
  /\ published = <<>> /\ pending = <<>>
  /\ phase = [v \in Readers |-> "new"]
  /\ replay = [v \in Readers |-> {}]
  /\ queue = [v \in Readers |-> <<>>]
  /\ seen = [v \in Readers |-> <<>>]
  /\ since = [v \in Readers |-> 0]
  /\ dropped = [v \in Readers |-> {}]

\* A stream shows the events of its tenant and those of no tenant.
Visible(v, ev) == Filter[v] = All \/ published[ev] \in {NoTenant, Filter[v]}

\* The last n events of a set.
LastOf(events, n) ==
  {ev \in events : Cardinality({later \in events : later > ev}) < n}

\* recent(): the last `limit` events of the ring that pass the filter.
Recent(v) ==
  LastOf({ev \in LastOf(Event, RingSize) : Visible(v, ev)}, ReplayLimit)

\* A queue in the bus's list; it stays there until the task that
\* unsubscribe() creates has run.
Subscribed(v) == phase[v] \in {"live", "gone"}

-----------------------------------------------------------------------------
Publish(t) ==
  /\ Len(published) < MaxEvents
  /\ published' = Append(published, t)
  /\ pending' = Append(pending, Len(published) + 1)
  /\ UNCHANGED <<phase, replay, queue, seen, since, dropped>>

\* Mutant: a notification per event with no order among them.
AnyNotified ==
  /\ pending # <<>>
  /\ \E i \in 1 .. Len(pending) :
       /\ queue' = [v \in Readers |-> IF Subscribed(v) /\ Len(queue[v]) < MaxQueue
                                      THEN Append(queue[v], pending[i]) ELSE queue[v]]
       /\ pending' = RemoveAt(pending, i)
  /\ UNCHANGED <<published, phase, replay, seen, since, dropped>>

\* _notify: put_nowait into every subscriber's queue; a full one drops it.
Notify ==
  /\ pending # <<>>
  /\ LET ev   == Head(pending)
         full == {v \in Readers : Subscribed(v) /\ Len(queue[v]) >= MaxQueue}
     IN  /\ queue' = [v \in Readers |-> IF Subscribed(v) /\ v \notin full
                                        THEN Append(queue[v], ev) ELSE queue[v]]
         /\ dropped' = [v \in Readers |-> dropped[v] \union
                                          (IF v \in full THEN {ev} ELSE {})]
  /\ pending' = Tail(pending)
  /\ UNCHANGED <<published, phase, replay, seen, since>>

Open(v) ==
  /\ phase[v] = "new"
  /\ phase' = [phase EXCEPT ![v] = "replay"]
  /\ replay' = [replay EXCEPT ![v] = Recent(v)]
  /\ since' = [since EXCEPT ![v] = Len(published)]
  /\ UNCHANGED <<published, pending, queue, seen, dropped>>

YieldReplay(v) ==
  /\ phase[v] = "replay"
  /\ \E ev \in replay[v] :
       /\ \A other \in replay[v] : ev <= other
       /\ seen' = [seen EXCEPT ![v] = Append(@, ev)]
       /\ replay' = [replay EXCEPT ![v] = @ \ {ev}]
  /\ UNCHANGED <<published, pending, phase, queue, since, dropped>>

Subscribe(v) ==
  /\ phase[v] = "replay" /\ replay[v] = {}
  /\ phase' = [phase EXCEPT ![v] = "live"]
  /\ UNCHANGED <<published, pending, replay, queue, seen, since, dropped>>

Take(v) ==
  /\ phase[v] = "live" /\ queue[v] # <<>>
  /\ LET ev == Head(queue[v]) IN
       seen' = [seen EXCEPT ![v] = IF Visible(v, ev) THEN Append(@, ev) ELSE @]
  /\ queue' = [queue EXCEPT ![v] = Tail(@)]
  /\ UNCHANGED <<published, pending, phase, replay, since, dropped>>

\* A stream that has left is of no further interest.
Forget(v) ==
  /\ seen' = [seen EXCEPT ![v] = <<>>]
  /\ since' = [since EXCEPT ![v] = 0]
  /\ dropped' = [dropped EXCEPT ![v] = {}]

\* The client goes: during the replay nothing is subscribed yet.
LeaveReplay(v) ==
  /\ phase[v] = "replay"
  /\ phase' = [phase EXCEPT ![v] = "removed"]
  /\ replay' = [replay EXCEPT ![v] = {}]
  /\ Forget(v)
  /\ UNCHANGED <<published, pending, queue>>

\* Later the finally clause creates the task that removes the queue.
Leave(v) ==
  /\ phase[v] = "live"
  /\ phase' = [phase EXCEPT ![v] = "gone"]
  /\ UNCHANGED <<published, pending, replay, queue, seen, since, dropped>>

Unlist(v) ==
  /\ phase[v] = "gone"
  /\ phase' = [phase EXCEPT ![v] = "removed"]
  /\ queue' = [queue EXCEPT ![v] = <<>>]
  /\ Forget(v)
  /\ UNCHANGED <<published, pending, replay>>

Stream(v) ==
  \/ Open(v) \/ YieldReplay(v) \/ Subscribe(v) \/ Take(v)
  \/ LeaveReplay(v) \/ Leave(v) \/ Unlist(v)

-----------------------------------------------------------------------------
BusTypeOK ==
  /\ published \in Seq(Tenants \union {NoTenant}) /\ Len(published) <= MaxEvents
  /\ pending \in Seq(Event)
  /\ phase \in [Readers -> {"new", "replay", "live", "gone", "removed"}]
  /\ replay \in [Readers -> SUBSET Event] /\ seen \in [Readers -> Seq(Event)]
  /\ queue \in [Readers -> Seq(Event)] /\ \A v \in Readers : Len(queue[v]) <= MaxQueue
  /\ since \in [Readers -> 0 .. MaxEvents]
  /\ dropped \in [Readers -> SUBSET Event]

\* What a live stream has shown or may show, in order.
Shown(v) == seen[v] \o queue[v]

\* Events it shows twice, and events it will never show though they were
\* published after its replay was taken and found its queue free.
Twice(v) ==
  {ev \in Event : /\ Visible(v, ev)
                  /\ \E i, j \in DOMAIN Shown(v) : i # j /\ Shown(v)[i] = ev /\ Shown(v)[j] = ev}
Missed(v) ==
  {ev \in Event : /\ ev > since[v] /\ Visible(v, ev) /\ ev \notin dropped[v]
                  /\ ev \notin Range(Shown(v)) \union Range(pending)}

\* The seam of replay and subscription errs on one side only: a stream that
\* shows an event twice (published before the replay, notified after the
\* subscription) misses none, and one that misses events shows none twice.
\* This rests on the tasks of publish() running in the order of publication.
SeamOneSided ==
  \A v \in Readers : phase[v] = "live" =>
    /\ Twice(v) = {} \/ Missed(v) = {}
    /\ \A ev \in Twice(v) : ev <= since[v]
=============================================================================
