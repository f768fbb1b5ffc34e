------------------------- MODULE PollingEventsProps -------------------------
(***************************************************************************)
(* What must be true of PollingEvents, and what its comments say of it.    *)
(***************************************************************************)
EXTENDS PollingEvents

Header == [arr : Nat, len : Nat]

TypeOK ==
  /\ clock \in Nat /\ mem \in Seq(Seq(Sub \cup {NoSub})) /\ subscribers \in Header
  /\ stream \in [Sub -> {"new", "starting", "on", "stopping", "draining", "closed"}]
  /\ buf \in [Sub -> 0..BufferSize]
  /\ rec \in [Event -> {"new", "casting", "done"}] /\ created \in [Event -> Nat]
  /\ queue \in Seq(Event) /\ Len(queue) <= QueueSize
  /\ saving \in SUBSET Event /\ stored \in SUBSET Event
  /\ punctual \in SUBSET Event /\ startedAt \in Nat /\ lastTick \in Nat /\ overrun \in BOOLEAN
  /\ polling \in BOOLEAN /\ lastPollTime \in Nat
  /\ pollers \in [Poller -> [pc : {"idle", "waiting", "since", "query", "advance", "events"},
                             now : Nat, since : Nat, todo : SUBSET Event]]
  /\ recentEvents \in SUBSET Event
  /\ casts \in SUBSET [by : Event \cup Poller, evt : Event, slice : Header, i : Nat,
                       snap : Seq(Sub), left : BOOLEAN]
  /\ polls \in [Event -> Nat]
  /\ cancelled \in BOOLEAN /\ panicked \in BOOLEAN

Subscribed == {mem[subscribers.arr][i] : i \in 1..subscribers.len}
Switching  == \E s \in Sub : stream[s] \in {"starting", "stopping"}

-----------------------------------------------------------------------------
(* What holds.                                                             *)

\* However many poll goroutines run, and however lastPollTime jumps between
\* them, they broadcast an event at most once (shouldProcess).
PolledOnce == \A e \in Event : polls[e] <= 1

\* Streams that join during a broadcast never disturb it: as long as nobody
\* left, it reads the subscribers it started with.
SnapshotStable == \A k \in casts : ~k.left => Elements(k.slice) = k.snap

\* The subscribers are the streams that joined and did not leave, each once.
ExactSubscribers ==
  /\ Subscribed = {s \in Sub : stream[s] \in {"starting", "on"}}
  /\ \A i, j \in 1..subscribers.len :
       mem[subscribers.arr][i] = mem[subscribers.arr][j] => i = j

\* "Lazy polling": once every stream has gone and its handler returned, the
\* polling is off, whatever the order in which the last ones came and went.
LazyPolling == subscribers = Nil /\ ~Switching => ~polling

\* An event stored before the first tick after its creation, and created since
\* polling was last switched on, is not lost: lastPollTime, which several
\* goroutines share without a lock and may even set back, passes it only when
\* one of them has it in hand or has broadcast it, unless a query hit its limit.
PunctualPolled ==
  ~overrun =>
    \A e \in punctual :
      created[e] > startedAt /\ created[e] <= lastPollTime =>
        e \in recentEvents \/ \E p \in Poller : e \in pollers[p].todo

-----------------------------------------------------------------------------
(* What the comments say, and the code does not do.                        *)

\* polling.go:142 "Subscribe creates a new subscription for a user and starts
\* polling if needed".
PollsWhileSubscribed == subscribers # Nil /\ ~Switching /\ ~cancelled => polling

\* polling.go:202 "Graceful drain - consume remaining events before closing":
\* nothing is sent to a channel that was closed.
NoSendAfterClose == ~panicked
=============================================================================
