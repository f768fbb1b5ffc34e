---------------------------- MODULE PollingEvents ----------------------------
(***************************************************************************)
(* Event delivery on a single instance: PollingBroadcaster and the part of *)
(* baseBroadcaster it uses.  Event streams subscribe and leave, requests   *)
(* record events, database workers store them, and poll goroutines look    *)
(* for stored events, all concurrently.  An action is what happens under   *)
(* one lock, or one channel operation.                                     *)
(*                                                                         *)
(* One user, and streams without a type filter.  The subscribers of the    *)
(* user are a Go slice: a header [arr, len] on a backing array, which      *)
(* Unsubscribe shifts in place and a running broadcast still reads.  Every *)
(* read of the clock returns a later time.  The deduplication TTL is 30    *)
(* minutes; no step here takes that long, so an id never expires.          *)
(***************************************************************************)
EXTENDS Naturals, Sequences, FiniteSets

CONSTANTS
  Event,       \* events recorded, each once
  Sub,         \* event streams, each subscribes at most once
  NoSub,       \* an array element never written
  Poller,      \* poll goroutines: bounds how many are alive
  BufferSize,  \* capacity of a stream's channel (100)
  QueueSize,   \* capacity of dbWorkerCh (1000)
  PollLimit,   \* LIMIT of GetSince (1000)
  MaxTime      \* bound: reads of the clock

ASSUME CapacityAssumption ==
  /\ BufferSize \in Nat \ {0} /\ QueueSize \in Nat \ {0} /\ PollLimit \in Nat \ {0}
  /\ MaxTime \in Nat
ASSUME NoSubAssumption == NoSub \notin Sub

VARIABLES
  clock,         \* the last time read
  mem,           \* backing arrays, in the order they were allocated
  subscribers,   \* slice header of the user's subscribers; Nil if absent
  stream,        \* stream[s]: where the handler of stream s is
  buf,           \* buf[s]: events waiting in the channel of s
  rec,           \* rec[e]: where the Record call of e is
  created,       \* created[e]: CreatedAt, 0 before
  queue,         \* dbWorkerCh
  saving,        \* events a database worker has taken
  stored,        \* rows of the events table
  polling,       \* b.polling
  lastPollTime,  \* b.lastPollTime
  pollers,       \* pollers[p]: [pc, now, since, todo]
  recentEvents,  \* ids seen by shouldProcess
  casts,         \* running broadcasts
  cancelled,     \* b.ctx is cancelled
  \* History.
  startedAt,     \* when polling was last switched on
  punctual,      \* events stored before the first tick after their creation
  lastTick,      \* when a poll goroutine last read the clock
  overrun,       \* a query met more than PollLimit events
  polls,         \* polls[e]: broadcasts of e by poll goroutines
  panicked       \* a send on a closed channel was executed

slices  == <<mem, subscribers>>
streams == <<stream, buf>>
records == <<rec, created, queue, saving, stored, punctual>>
switch  == <<polling, lastPollTime, startedAt>>
handled == <<recentEvents, polls>>
poll    == <<switch, pollers, lastTick, overrun, handled>>
sends   == <<casts, panicked>>
vars    == <<clock, slices, streams, records, poll, sends, cancelled>>

-----------------------------------------------------------------------------
(* Slices and time.  Overwriting, AnyCount, OffByOne, LateClock and Unseen *)
(* are faulty variants of the definition after each of them; no action     *)
(* uses them.                                                              *)

Nil          == [arr |-> 0, len |-> 0]
Cap(a)       == IF a = 0 THEN 0 ELSE Len(mem[a])
Elements(sl) == [i \in 1..sl.len |-> mem[sl.arr][i]]
Idle         == [pc |-> "idle", now |-> 0, since |-> 0, todo |-> {}]

\* append(slice, s): in place when the array has room, else into a copy of
\* twice the capacity.
Overwriting(i) == 1
Position(i)    == i
Appended(s) ==
  LET n == subscribers.len + 1 IN
  IF n <= Cap(subscribers.arr)
  THEN /\ mem' = [mem EXCEPT ![subscribers.arr][Position(n)] = s]
       /\ subscribers' = [subscribers EXCEPT !.len = n]
  ELSE LET cap == IF n = 1 THEN 1 ELSE 2 * (n - 1) IN
       /\ mem' = Append(mem, [i \in 1..cap |-> IF i < n THEN mem[subscribers.arr][i]
                                               ELSE IF i = n THEN s ELSE NoSub])
       /\ subscribers' = [arr |-> Len(mem) + 1, len |-> n]

\* append(subs[:i], subs[i+1:]...): the rest moves down in the same array.
Removed(i) ==
  LET a == subscribers.arr
      n == subscribers.len IN
  /\ mem' = [mem EXCEPT ![a] = [j \in DOMAIN @ |-> IF i <= j /\ j < n THEN @[j + 1] ELSE @[j]]]
  /\ subscribers' = IF n = 1 THEN Nil ELSE [arr |-> a, len |-> n - 1]

\* time.Now()
Now == clock + 1
ReadClock == clock < MaxTime /\ clock' = Now

-----------------------------------------------------------------------------
Init ==
  /\ clock = 0 /\ mem = <<>> /\ subscribers = Nil
  /\ stream = [s \in Sub |-> "new"] /\ buf = [s \in Sub |-> 0]
  /\ rec = [e \in Event |-> "new"] /\ created = [e \in Event |-> 0]
  /\ queue = <<>> /\ saving = {} /\ stored = {}
  /\ polling = FALSE /\ lastPollTime = 0
  /\ pollers = [p \in Poller |-> Idle]
  /\ startedAt = 0 /\ punctual = {} /\ lastTick = 0 /\ overrun = FALSE
  /\ recentEvents = {} /\ casts = {} /\ cancelled = FALSE
  /\ polls = [e \in Event |-> 0] /\ panicked = FALSE

-----------------------------------------------------------------------------
(* Subscribe and Unsubscribe: the subscribers are counted under subMu; the *)
(* polling is switched afterwards, under pollMu.                           *)

FirstSub(n) == n = 1
AnyCount(n) == FALSE
LastSub(n)  == n = 0

Subscribe(s) ==
  /\ stream[s] = "new" /\ Appended(s)
  /\ stream' = [stream EXCEPT ![s] = IF FirstSub(subscribers'.len) THEN "starting" ELSE "on"]
  /\ UNCHANGED <<clock, buf, records, poll, sends, cancelled>>

StartPolling(s) ==
  /\ stream[s] = "starting"
  /\ \/ /\ polling
        /\ UNCHANGED <<clock, poll>>
     \/ /\ ~polling /\ ReadClock
        /\ polling' = TRUE /\ lastPollTime' = Now /\ startedAt' = Now
        /\ \E p \in Poller :
             /\ pollers[p] = Idle
             /\ pollers' = [pollers EXCEPT ![p].pc = "waiting"]
        /\ UNCHANGED <<lastTick, overrun, handled>>
  /\ stream' = [stream EXCEPT ![s] = "on"]
  /\ UNCHANGED <<slices, buf, records, sends, cancelled>>

\* The client went away; broadcasts that read the slice may go on.
Unsubscribe(s) ==
  /\ stream[s] = "on"
  /\ \E i \in 1..subscribers.len : mem[subscribers.arr][i] = s /\ Removed(i)
  /\ stream' = [stream EXCEPT ![s] = IF LastSub(subscribers'.len) THEN "stopping" ELSE "draining"]
  /\ casts' = {[k EXCEPT !.left = TRUE] : k \in casts}
  /\ UNCHANGED <<clock, buf, records, poll, panicked, cancelled>>

StopPolling(s) ==
  /\ stream[s] = "stopping"
  /\ polling' = FALSE
  /\ stream' = [stream EXCEPT ![s] = "draining"]
  /\ UNCHANGED <<clock, slices, buf, records, lastPollTime, startedAt, pollers, lastTick,
                 overrun, handled, sends, cancelled>>

\* The handler writes an event to its client, or the drain discards it.
Receive(s) ==
  /\ stream[s] \in {"on", "draining"} /\ buf[s] > 0
  /\ buf' = [buf EXCEPT ![s] = @ - 1]
  /\ UNCHANGED <<clock, slices, stream, records, poll, sends, cancelled>>

\* After 100ms of draining.
Close(s) ==
  /\ stream[s] = "draining"
  /\ stream' = [stream EXCEPT ![s] = "closed"]
  /\ UNCHANGED <<clock, slices, buf, records, poll, sends, cancelled>>

-----------------------------------------------------------------------------
(* broadcast: the slice header is read under subMu, the elements after.    *)

Broadcast(by, e) ==
  casts' = IF subscribers.len = 0 THEN casts
           ELSE casts \cup {[by |-> by, evt |-> e, slice |-> subscribers, i |-> 1,
                             snap |-> Elements(subscribers), left |-> FALSE]}
Broadcasting(by) == \E k \in casts : k.by = by

\* select { case sub.ch <- evt: default: }
OffByOne(s) == buf[s] <= BufferSize
Fits(s)     == buf[s] < BufferSize
Send(k) ==
  LET s == mem[k.slice.arr][k.i] IN
  /\ k.i <= k.slice.len
  /\ IF stream[s] = "closed" THEN panicked' = TRUE /\ UNCHANGED buf
     ELSE /\ panicked' = panicked
          /\ \/ /\ Fits(s)
                /\ buf' = [buf EXCEPT ![s] = @ + 1]
             \/ /\ ~Fits(s)
                /\ UNCHANGED buf
  /\ casts' = (casts \ {k}) \cup {[k EXCEPT !.i = @ + 1]}
  /\ UNCHANGED <<clock, slices, stream, records, poll, cancelled>>

Sent(k) ==
  /\ k.i > k.slice.len
  /\ casts' = casts \ {k}
  /\ UNCHANGED <<clock, slices, streams, records, poll, panicked, cancelled>>

-----------------------------------------------------------------------------
(* Record, and the database workers.                                       *)

Record(e) ==
  /\ rec[e] = "new" /\ ReadClock
  /\ created' = [created EXCEPT ![e] = Now]
  /\ rec' = [rec EXCEPT ![e] = "casting"]
  /\ Broadcast(e, e)
  /\ UNCHANGED <<slices, streams, queue, saving, stored, punctual, poll, panicked, cancelled>>

\* select { case b.dbWorkerCh <- evt: default: }: a full queue drops the event.
Enqueue(e) ==
  /\ rec[e] = "casting" /\ ~Broadcasting(e)
  /\ queue' = IF Len(queue) < QueueSize THEN Append(queue, e) ELSE queue
  /\ rec' = [rec EXCEPT ![e] = "done"]
  /\ UNCHANGED <<clock, slices, streams, created, saving, stored, punctual, poll, sends, cancelled>>

\* One of several workers takes the event; their inserts are unordered.
Take ==
  /\ queue # <<>>
  /\ saving' = saving \cup {Head(queue)} /\ queue' = Tail(queue)
  /\ UNCHANGED <<clock, slices, streams, rec, created, stored, punctual, poll, sends, cancelled>>

\* The insert fails, or its context is cancelled.
Save(e) ==
  /\ saving' = saving \ {e}
  /\ \/ /\ ~cancelled /\ stored' = stored \cup {e}
        /\ punctual' = IF lastTick < created[e] THEN punctual \cup {e} ELSE punctual
     \/ UNCHANGED <<stored, punctual>>
  /\ UNCHANGED <<clock, slices, streams, rec, created, queue, poll, sends, cancelled>>

-----------------------------------------------------------------------------
(* poll.  The goroutines use lastPollTime without a lock.                  *)

\* The ticker fires.
PollTick(p) ==
  /\ pollers[p].pc = "waiting"
  /\ \/ /\ ~polling
        /\ pollers' = [pollers EXCEPT ![p] = Idle]
        /\ UNCHANGED <<clock, lastTick>>
     \/ /\ polling /\ ReadClock
        /\ pollers' = [pollers EXCEPT ![p].pc = "since", ![p].now = Now]
        /\ lastTick' = Now
  /\ UNCHANGED <<slices, streams, records, switch, overrun, handled, sends, cancelled>>

PollSince(p) ==
  /\ pollers[p].pc = "since"
  /\ pollers' = [pollers EXCEPT ![p].pc = "query", ![p].since = lastPollTime]
  /\ UNCHANGED <<clock, slices, streams, records, switch, lastTick, overrun, handled, sends,
                 cancelled>>

\* GetSince: the oldest events after the time, up to the limit ...
Due(since)   == {e \in stored : created[e] > since}
Oldest(S)    == {e \in S : Cardinality({x \in S : created[x] <= created[e]}) <= PollLimit}
PollQuery(p) ==
  LET due == Due(pollers[p].since) IN
  /\ pollers[p].pc = "query" /\ ~cancelled
  /\ pollers' = [pollers EXCEPT ![p].pc = "advance", ![p].todo = Oldest(due)]
  /\ overrun' = (overrun \/ due # Oldest(due))
  /\ UNCHANGED <<clock, slices, streams, records, switch, lastTick, handled, sends, cancelled>>

\* ... or it fails.
PollError(p) ==
  /\ pollers[p].pc = "query"
  /\ pollers' = [pollers EXCEPT ![p] = [Idle EXCEPT !.pc = "waiting"]]
  /\ UNCHANGED <<clock, slices, streams, records, switch, lastTick, overrun, handled, sends,
                 cancelled>>

\* The clock was read before the query.
LateClock(p)   == clock
PolledUpTo(p)  == pollers[p].now
PollAdvance(p) ==
  /\ pollers[p].pc = "advance"
  /\ lastPollTime' = PolledUpTo(p)
  /\ pollers' = [pollers EXCEPT ![p].pc = "events"]
  /\ UNCHANGED <<clock, slices, streams, records, polling, startedAt, lastTick, overrun, handled,
                 sends, cancelled>>

\* shouldProcess: marks the id and tells whether it is new.
Unseen(e)        == TRUE
ShouldProcess(e) == e \notin recentEvents

\* The next event, by CreatedAt, unless it was processed before.
PollEvent(p) ==
  /\ pollers[p].pc = "events" /\ ~Broadcasting(p)
  /\ \E e \in pollers[p].todo :
       /\ \A x \in pollers[p].todo : created[e] <= created[x]
       /\ pollers' = [pollers EXCEPT ![p].todo = @ \ {e}]
       /\ recentEvents' = recentEvents \cup {e}
       /\ \/ /\ ShouldProcess(e) /\ Broadcast(p, e)
             /\ polls' = [polls EXCEPT ![e] = @ + 1]
          \/ /\ ~ShouldProcess(e) /\ UNCHANGED <<casts, polls>>
  /\ UNCHANGED <<clock, slices, streams, records, switch, lastTick, overrun, panicked, cancelled>>

PollDone(p) ==
  /\ pollers[p].pc = "events" /\ pollers[p].todo = {} /\ ~Broadcasting(p)
  /\ pollers' = [pollers EXCEPT ![p] = [Idle EXCEPT !.pc = "waiting"]]
  /\ UNCHANGED <<clock, slices, streams, records, switch, lastTick, overrun, handled, sends,
                 cancelled>>

-----------------------------------------------------------------------------
(* Shutdown: polling is switched off and the context cancelled.            *)

Shutdown ==
  /\ ~cancelled /\ cancelled' = TRUE
  /\ polling' = FALSE
  /\ UNCHANGED <<clock, slices, streams, records, lastPollTime, startedAt, pollers, lastTick,
                 overrun, handled, sends>>

PollCancelled(p) ==
  /\ pollers[p].pc = "waiting" /\ cancelled
  /\ pollers' = [pollers EXCEPT ![p] = Idle]
  /\ UNCHANGED <<clock, slices, streams, records, switch, lastTick, overrun, handled, sends,
                 cancelled>>

-----------------------------------------------------------------------------
Next ==
  \/ \E s \in Sub : \/ Subscribe(s) \/ StartPolling(s) \/ Unsubscribe(s)
                    \/ StopPolling(s) \/ Receive(s) \/ Close(s)
  \/ \E k \in casts : Send(k) \/ Sent(k)
  \/ \E e \in Event : Record(e) \/ Enqueue(e)
  \/ Take
  \/ \E e \in saving : Save(e)
  \/ \E p \in Poller : \/ PollTick(p) \/ PollSince(p) \/ PollQuery(p) \/ PollError(p) \/ PollAdvance(p)
                       \/ PollEvent(p) \/ PollDone(p) \/ PollCancelled(p)
  \/ Shutdown

Spec == Init /\ [][Next]_vars
=============================================================================
