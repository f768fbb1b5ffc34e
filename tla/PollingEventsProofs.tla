------------------------- MODULE PollingEventsProofs -------------------------
(***************************************************************************)
(* Proofs about PollingEvents, for any numbers of streams, events and poll *)
(* goroutines, any capacities and any limit of the query.                  *)
(***************************************************************************)
EXTENDS PollingEventsProps, TLAPS

-----------------------------------------------------------------------------
(* The inductive invariant.                                                *)

ArrayOf(sl) == sl.arr \in 1..Len(mem) /\ sl.len \in 1..Len(mem[sl.arr])

\* The header of the subscribers is Nil, or within its array; so is the header
\* that a broadcast has read.  As long as nobody left, the array of the broadcast
\* was not written below its length: what is appended goes behind what the
\* subscribers' header covers, and that covers no less than it did.
SlicesOK ==
  /\ subscribers # Nil => ArrayOf(subscribers)
  /\ \A i \in 1..subscribers.len : mem[subscribers.arr][i] \in Sub
  /\ \A k \in casts :
       /\ ArrayOf(k.slice)
       /\ ~k.left /\ k.slice.arr = subscribers.arr => k.slice.len <= subscribers.len

\* An event is queued, saved and stored after it was recorded.
Recorded ==
  \A e \in Event : e \in saving \cup stored \cup punctual \/ (\E i \in 1..Len(queue) : queue[i] = e)
                     => rec[e] = "done"

\* Time goes on; what lastPollTime was set to is a tick or a start, and no later
\* than the last one of these.
Times ==
  /\ startedAt <= clock /\ lastTick <= clock /\ lastPollTime <= clock
  /\ \A e \in Event : created[e] <= clock
  /\ lastPollTime <= lastTick \/ lastPollTime <= startedAt
  /\ \A p \in Poller : /\ pollers[p].now <= lastTick
                       /\ pollers[p].since <= lastTick \/ pollers[p].since <= startedAt

Handed(e) == e \in recentEvents \/ \E p \in Poller : e \in pollers[p].todo

\* A poll goroutine has events in hand only after its query.  What was created
\* before the time it queries from, or after the query before the time it will
\* set, is in hand or was broadcast.
Polled ==
  /\ punctual \subseteq stored
  /\ \A p \in Poller : pollers[p].pc \notin {"advance", "events"} => pollers[p].todo = {}
  /\ ~overrun => \A p \in Poller, e \in punctual :
       /\ pollers[p].pc = "query" /\ startedAt < created[e] /\ created[e] <= pollers[p].since => Handed(e)
       /\ pollers[p].pc = "advance" /\ startedAt < created[e] /\ created[e] <= pollers[p].now => Handed(e)

Counted == \A e \in Event : polls[e] = 0 \/ (polls[e] = 1 /\ e \in recentEvents)

Joined == SlicesOK /\ ExactSubscribers /\ SnapshotStable /\ LazyPolling
Seen   == Recorded /\ Times /\ Polled /\ Counted /\ PunctualPolled
IInv   == TypeOK /\ Joined /\ Seen

-----------------------------------------------------------------------------
(* Types, in groups of variables that are changed together.                *)

PollerType == [pc : {"idle", "waiting", "since", "query", "advance", "events"},
               now : Nat, since : Nat, todo : SUBSET Event]
CastType == [by : Event \cup Poller, evt : Event, slice : Header, i : Nat, snap : Seq(Sub),
             left : BOOLEAN]

RecordTypes ==
  /\ clock \in Nat /\ rec \in [Event -> {"new", "casting", "done"}] /\ created \in [Event -> Nat]
  /\ queue \in Seq(Event) /\ Len(queue) <= QueueSize
  /\ saving \in SUBSET Event /\ stored \in SUBSET Event /\ punctual \in SUBSET Event
PollTypes ==
  /\ startedAt \in Nat /\ lastTick \in Nat /\ lastPollTime \in Nat
  /\ pollers \in [Poller -> PollerType]
  /\ recentEvents \in SUBSET Event /\ polls \in [Event -> Nat]
FlagTypes ==
  overrun \in BOOLEAN /\ polling \in BOOLEAN /\ cancelled \in BOOLEAN /\ panicked \in BOOLEAN
StreamTypes ==
  /\ stream \in [Sub -> {"new", "starting", "on", "stopping", "draining", "closed"}]
  /\ buf \in [Sub -> 0..BufferSize]
SliceTypes ==
  mem \in Seq(Seq(Sub \cup {NoSub})) /\ subscribers \in Header /\ casts \in SUBSET CastType

LEMMA TypesAre ==
  TypeOK <=> RecordTypes /\ PollTypes /\ FlagTypes /\ StreamTypes /\ SliceTypes
BY DEF TypeOK, RecordTypes, PollTypes, FlagTypes, StreamTypes, SliceTypes, PollerType, CastType

LEMMA RecordTypesStep == RecordTypes /\ [Next]_vars => RecordTypes'
<1> SUFFICES ASSUME RecordTypes, [Next]_vars PROVE RecordTypes'
  OBVIOUS
<1>1. ASSUME UNCHANGED records, clock' = clock \/ ReadClock PROVE RecordTypes'
  BY <1>1 DEF RecordTypes, records, ReadClock, Now
<1>2. ASSUME NEW s \in Sub, \/ Subscribe(s) \/ StartPolling(s) \/ Unsubscribe(s)
                            \/ StopPolling(s) \/ Receive(s) \/ Close(s)
      PROVE  RecordTypes'
  BY <1>1, <1>2 DEF Subscribe, StartPolling, Unsubscribe, StopPolling, Receive, Close
<1>3. ASSUME NEW k \in casts, Send(k) \/ Sent(k) PROVE RecordTypes'
  BY <1>1, <1>3 DEF Send, Sent
<1>4. ASSUME NEW e \in Event, Record(e) PROVE RecordTypes'
  BY <1>4 DEF Record, ReadClock, Now, RecordTypes
<1>5. ASSUME NEW e \in Event, Enqueue(e) PROVE RecordTypes'
  BY <1>5, CapacityAssumption DEF Enqueue, RecordTypes
<1>6. CASE Take
  BY <1>6, CapacityAssumption DEF Take, RecordTypes
<1>7. ASSUME NEW e \in saving, Save(e) PROVE RecordTypes'
  BY <1>7 DEF Save, RecordTypes
<1>8. ASSUME NEW p \in Poller,
             \/ PollTick(p) \/ PollSince(p) \/ PollQuery(p) \/ PollError(p) \/ PollAdvance(p)
             \/ PollEvent(p) \/ PollDone(p) \/ PollCancelled(p)
      PROVE  RecordTypes'
  BY <1>1, <1>8 DEF PollTick, PollSince, PollQuery, PollError, PollAdvance, PollEvent, PollDone,
                    PollCancelled
<1>9. CASE Shutdown \/ UNCHANGED vars
  BY <1>1, <1>9 DEF Shutdown, vars
<1> QED  BY <1>2, <1>3, <1>4, <1>5, <1>6, <1>7, <1>8, <1>9 DEF Next

LEMMA PollTypesStep == PollTypes /\ RecordTypes /\ [Next]_vars => PollTypes'
<1> SUFFICES ASSUME PollTypes, RecordTypes, [Next]_vars PROVE PollTypes'
  OBVIOUS
<1>1. ASSUME UNCHANGED <<startedAt, lastTick, lastPollTime, pollers, handled>> PROVE PollTypes'
  BY <1>1 DEF PollTypes, handled
<1>2. ASSUME NEW p \in Poller, NEW d \in PollerType, pollers' = [pollers EXCEPT ![p] = d],
             {startedAt', lastTick', lastPollTime'} \subseteq Nat, UNCHANGED handled
      PROVE  PollTypes'
  BY <1>2 DEF PollTypes, handled
<1>3. Now \in Nat /\ Idle \in PollerType /\ [Idle EXCEPT !.pc = "waiting"] \in PollerType
  BY DEF RecordTypes, Now, Idle, PollerType
<1>4. ASSUME NEW s \in Sub, StartPolling(s) PROVE PollTypes'
  <2>1. CASE UNCHANGED poll
    BY <1>1, <2>1 DEF poll, switch
  <2>2. CASE ~polling
    <3>1. PICK p \in Poller :
            pollers[p] = Idle /\ pollers' = [pollers EXCEPT ![p].pc = "waiting"]
      BY <1>4, <2>2 DEF StartPolling
    <3>2. pollers' = [pollers EXCEPT ![p] = [Idle EXCEPT !.pc = "waiting"]]
      BY <3>1 DEF PollTypes
    <3>3. /\ lastPollTime' = Now /\ startedAt' = Now /\ UNCHANGED <<lastTick, handled>>
      BY <1>4, <2>2 DEF StartPolling
    <3>4. {startedAt', lastTick', lastPollTime'} \subseteq Nat
      BY <1>3, <3>3 DEF PollTypes
    <3> QED  BY <1>2, <1>3, <3>2, <3>3, <3>4
  <2> QED  BY <1>4, <2>1, <2>2 DEF StartPolling
<1>5. ASSUME NEW s \in Sub, \/ Subscribe(s) \/ Unsubscribe(s) \/ StopPolling(s) \/ Receive(s)
                            \/ Close(s)
      PROVE  PollTypes'
  BY <1>1, <1>5 DEF Subscribe, Unsubscribe, StopPolling, Receive, Close, poll, switch
<1>6. ASSUME NEW k \in casts, Send(k) \/ Sent(k) PROVE PollTypes'
  BY <1>1, <1>6 DEF Send, Sent, poll, switch
<1>7. ASSUME NEW e, Record(e) \/ Enqueue(e) \/ Take \/ Save(e) PROVE PollTypes'
  BY <1>1, <1>7 DEF Record, Enqueue, Take, Save, poll, switch
<1>8. ASSUME NEW p \in Poller, PollTick(p) PROVE PollTypes'
  <2>1. [pollers[p] EXCEPT !.pc = "since", !.now = Now] \in PollerType
    BY <1>3 DEF PollTypes, PollerType
  <2>2. pollers' = [pollers EXCEPT ![p] = [pollers[p] EXCEPT !.pc = "since", !.now = Now]]
        \/ pollers' = [pollers EXCEPT ![p] = Idle]
    BY <1>8 DEF PollTick, PollTypes
  <2> QED  BY <1>2, <1>3, <1>8, <2>1, <2>2 DEF PollTick, switch, PollTypes
<1>9. ASSUME NEW p \in Poller, PollSince(p) PROVE PollTypes'
  <2>1. [pollers[p] EXCEPT !.pc = "query", !.since = lastPollTime] \in PollerType
    BY DEF PollTypes, PollerType
  <2>2. pollers' = [pollers EXCEPT ![p] = [pollers[p] EXCEPT !.pc = "query", !.since = lastPollTime]]
    BY <1>9 DEF PollSince, PollTypes
  <2>3. UNCHANGED <<startedAt, lastTick, lastPollTime, handled>>
    BY <1>9 DEF PollSince, switch
  <2>4. {startedAt', lastTick', lastPollTime'} \subseteq Nat
    BY <2>3 DEF PollTypes
  <2> QED  BY <1>2, <2>1, <2>2, <2>3, <2>4
<1>10. ASSUME NEW p \in Poller, PollQuery(p) PROVE PollTypes'
  <2>1. PICK T \in SUBSET Event : T = Oldest(Due(pollers[p].since))
    BY DEF Oldest, Due, RecordTypes
  <2>2. [pollers[p] EXCEPT !.pc = "advance", !.todo = T] \in PollerType
    BY DEF PollTypes, PollerType
  <2> QED  BY <1>2, <1>10, <2>1, <2>2 DEF PollQuery, switch, PollTypes
<1>11. ASSUME NEW p \in Poller, PollError(p) \/ PollDone(p) \/ PollCancelled(p) PROVE PollTypes'
  BY <1>2, <1>3, <1>11 DEF PollError, PollDone, PollCancelled, switch, PollTypes
<1>12. ASSUME NEW p \in Poller, PollAdvance(p) PROVE PollTypes'
  <2>1. [pollers[p] EXCEPT !.pc = "events"] \in PollerType /\ pollers[p].now \in Nat
    BY DEF PollTypes, PollerType
  <2> QED  BY <1>2, <1>12, <2>1 DEF PollAdvance, PolledUpTo, PollTypes
<1>13. ASSUME NEW p \in Poller, PollEvent(p) PROVE PollTypes'
  <2>1. PICK e \in pollers[p].todo :
          /\ pollers' = [pollers EXCEPT ![p].todo = @ \ {e}]
          /\ recentEvents' = recentEvents \cup {e}
          /\ polls' = [polls EXCEPT ![e] = @ + 1] \/ polls' = polls
    BY <1>13 DEF PollEvent
  <2>2. [pollers[p] EXCEPT !.todo = @ \ {e}] \in PollerType /\ e \in Event
    BY DEF PollTypes, PollerType
  <2>3. pollers' \in [Poller -> PollerType]
    BY <2>1, <2>2 DEF PollTypes
  <2>4. polls' \in [Event -> Nat] /\ recentEvents' \in SUBSET Event
    BY <2>1, <2>2 DEF PollTypes
  <2> QED  BY <1>13, <2>3, <2>4 DEF PollEvent, PollTypes, switch
<1>14. CASE Shutdown \/ UNCHANGED vars
  BY <1>1, <1>14 DEF Shutdown, vars, poll, switch
<1> QED
  BY <1>4, <1>5, <1>6, <1>7, <1>8, <1>9, <1>10, <1>11, <1>12, <1>13, <1>14 DEF Next

LEMMA FlagTypesStep == FlagTypes /\ [Next]_vars => FlagTypes'
<1> SUFFICES ASSUME FlagTypes, [Next]_vars PROVE FlagTypes'
  OBVIOUS
<1> USE DEF FlagTypes
<1>1. ASSUME UNCHANGED <<overrun, cancelled, panicked>>, polling' = polling \/ polling' \in BOOLEAN
      PROVE  FlagTypes'
  BY <1>1
<1>2. ASSUME NEW s \in Sub, \/ Subscribe(s) \/ StartPolling(s) \/ Unsubscribe(s)
                            \/ StopPolling(s) \/ Receive(s) \/ Close(s)
      PROVE  FlagTypes'
  BY <1>1, <1>2 DEF Subscribe, StartPolling, Unsubscribe, StopPolling, Receive, Close, poll, switch,
                    sends
<1>3. ASSUME NEW k \in casts, Send(k) PROVE FlagTypes'
  BY <1>3 DEF Send, poll, switch
<1>4. ASSUME NEW k \in casts, Sent(k) PROVE FlagTypes'
  BY <1>1, <1>4 DEF Sent, poll, switch
<1>5. ASSUME NEW e, Record(e) \/ Enqueue(e) \/ Take \/ Save(e) PROVE FlagTypes'
  BY <1>1, <1>5 DEF Record, Enqueue, Take, Save, poll, switch, sends
<1>6. ASSUME NEW p \in Poller, PollQuery(p) PROVE FlagTypes'
  BY <1>6 DEF PollQuery, switch, sends
<1>7. ASSUME NEW p \in Poller, \/ PollTick(p) \/ PollSince(p) \/ PollError(p) \/ PollAdvance(p)
                               \/ PollEvent(p) \/ PollDone(p) \/ PollCancelled(p)
      PROVE  FlagTypes'
  BY <1>1, <1>7 DEF PollTick, PollSince, PollError, PollAdvance, PollEvent, PollDone, PollCancelled,
                    switch, sends
<1>8. CASE Shutdown
  BY <1>8 DEF Shutdown, sends
<1>9. CASE UNCHANGED vars
  BY <1>1, <1>9 DEF vars, poll, switch, sends
<1> QED  BY <1>2, <1>3, <1>4, <1>5, <1>6, <1>7, <1>8, <1>9 DEF Next

\* A message is counted for a stream only when its channel has room.
LEMMA StreamTypesStep == StreamTypes /\ [Next]_vars => StreamTypes'
<1> SUFFICES ASSUME StreamTypes, [Next]_vars PROVE StreamTypes'
  OBVIOUS
<1>1. ASSUME UNCHANGED streams PROVE StreamTypes'
  BY <1>1 DEF StreamTypes, streams
<1>2. ASSUME NEW s \in Sub, UNCHANGED buf,
             NEW st \in {"starting", "on", "stopping", "draining", "closed"},
             stream' = [stream EXCEPT ![s] = st]
      PROVE  StreamTypes'
  BY <1>2 DEF StreamTypes
<1>3. ASSUME NEW s \in Sub, Subscribe(s) PROVE StreamTypes'
  <2>1. PICK st \in {"starting", "on"} : stream' = [stream EXCEPT ![s] = st] /\ buf' = buf
    BY <1>3 DEF Subscribe
  <2> QED  BY <1>2, <2>1
<1>4. ASSUME NEW s \in Sub, Unsubscribe(s) PROVE StreamTypes'
  <2>1. PICK st \in {"stopping", "draining"} : stream' = [stream EXCEPT ![s] = st] /\ buf' = buf
    BY <1>4 DEF Unsubscribe
  <2> QED  BY <1>2, <2>1
<1>5. ASSUME NEW s \in Sub, StartPolling(s) \/ StopPolling(s) \/ Close(s) PROVE StreamTypes'
  <2>1. PICK st \in {"on", "draining", "closed"} : stream' = [stream EXCEPT ![s] = st] /\ buf' = buf
    BY <1>5 DEF StartPolling, StopPolling, Close
  <2> QED  BY <1>2, <2>1
<1>6. ASSUME NEW s \in Sub, Receive(s) PROVE StreamTypes'
  BY <1>6, CapacityAssumption DEF Receive, StreamTypes
<1>7. ASSUME NEW k \in casts, Send(k) PROVE StreamTypes'
  <2>1. PICK s : s = mem[k.slice.arr][k.i]
    OBVIOUS
  <2>2. UNCHANGED stream /\ (buf' = buf \/ (buf' = [buf EXCEPT ![s] = @ + 1] /\ buf[s] < BufferSize))
    BY <1>7, <2>1 DEF Send, Fits
  <2> QED  BY <2>2, CapacityAssumption DEF StreamTypes
<1>8. ASSUME NEW k \in casts, Sent(k) PROVE StreamTypes'
  BY <1>1, <1>8 DEF Sent
<1>9. ASSUME NEW e, Record(e) \/ Enqueue(e) \/ Take \/ Save(e) PROVE StreamTypes'
  BY <1>1, <1>9 DEF Record, Enqueue, Take, Save
<1>10. ASSUME NEW p \in Poller,
              \/ PollTick(p) \/ PollSince(p) \/ PollQuery(p) \/ PollError(p) \/ PollAdvance(p)
              \/ PollEvent(p) \/ PollDone(p) \/ PollCancelled(p)
       PROVE  StreamTypes'
  BY <1>1, <1>10 DEF PollTick, PollSince, PollQuery, PollError, PollAdvance, PollEvent, PollDone,
                     PollCancelled
<1>11. CASE Shutdown \/ UNCHANGED vars
  BY <1>1, <1>11 DEF Shutdown, vars
<1> QED  BY <1>3, <1>4, <1>5, <1>6, <1>7, <1>8, <1>9, <1>10, <1>11 DEF Next

-----------------------------------------------------------------------------
(* Slices: what append and the removal of an element do to the header, to  *)
(* what it covers, and to the arrays that running broadcasts read.         *)

Elem == Sub \cup {NoSub}

LEMMA NilIs == Nil \in Header /\ Nil.arr = 0 /\ Nil.len = 0
BY DEF Nil, Header

LEMMA HeaderIs ==
  ASSUME SliceTypes, SlicesOK
  PROVE  /\ subscribers.len \in Nat /\ subscribers.arr \in Nat
         /\ subscribers.len = 0 <=> subscribers = Nil
         /\ subscribers.arr = 0 <=> subscribers = Nil
         /\ subscribers # Nil => /\ subscribers.arr \in 1..Len(mem)
                                 /\ subscribers.len \in 1..Len(mem[subscribers.arr])
<1>1. subscribers.len \in Nat /\ subscribers.arr \in Nat
  BY DEF SliceTypes, Header
<1>2. CASE subscribers = Nil
  BY <1>1, <1>2, NilIs
<1>3. CASE subscribers # Nil
  BY <1>1, <1>3 DEF SlicesOK, ArrayOf
<1> QED  BY <1>2, <1>3, <1>1

\* append writes behind what any header on the array covers, or moves to an array
\* of its own.
LEMMA AppendedIs ==
  ASSUME SliceTypes, SlicesOK, NEW s \in Sub, Appended(s)
  PROVE  /\ mem' \in Seq(Seq(Elem)) /\ subscribers' \in Header /\ subscribers' # Nil
         /\ subscribers'.len = subscribers.len + 1
         /\ subscribers'.arr \in 1..Len(mem') /\ subscribers'.len \in 1..Len(mem'[subscribers'.arr])
         /\ subscribers'.arr = subscribers.arr \/ subscribers'.arr = Len(mem) + 1
         /\ \A i \in 1..subscribers.len :
               mem'[subscribers'.arr][i] = mem[subscribers.arr][i]
         /\ mem'[subscribers'.arr][subscribers.len + 1] = s
         /\ Len(mem) <= Len(mem')
         /\ \A a \in 1..Len(mem) : /\ Len(mem'[a]) = Len(mem[a])
                                   /\ \A i \in 1..Len(mem[a]) : mem'[a][i] # mem[a][i] =>
                                         a = subscribers.arr /\ i > subscribers.len
<1>1. PICK n : n = subscribers.len + 1 /\ n \in Nat \ {0}
  BY HeaderIs
<1>2. mem \in Seq(Seq(Elem)) /\ Len(mem) \in Nat
  BY DEF SliceTypes, Elem
<1>3. CASE n <= Cap(subscribers.arr)
  <2>1. subscribers # Nil
    BY <1>1, <1>3, NilIs DEF Cap
  <2>2. PICK a \in 1..Len(mem) : a = subscribers.arr
    BY <2>1, HeaderIs
  <2>3. mem[a] \in Seq(Elem) /\ Len(mem[a]) \in Nat /\ n \in 1..Len(mem[a])
    BY <1>1, <1>2, <1>3, <2>2 DEF Cap
  <2>4. PICK b : b = [mem[a] EXCEPT ![n] = s]
    OBVIOUS
  <2>5. b \in Seq(Elem) /\ Len(b) = Len(mem[a]) /\ b[n] = s /\ \A i \in 1..Len(mem[a]) : i # n => b[i] = mem[a][i]
    BY <2>3, <2>4 DEF Elem
  <2>6. mem' = [mem EXCEPT ![a] = b] /\ subscribers' = [subscribers EXCEPT !.len = n]
    BY <1>1, <1>2, <1>3, <2>2, <2>4 DEF Appended, Position
  <2>7. mem' \in Seq(Seq(Elem)) /\ Len(mem') = Len(mem) /\ mem'[a] = b
        /\ \A c \in 1..Len(mem) : c # a => mem'[c] = mem[c]
    BY <1>2, <2>2, <2>5, <2>6
  <2>8. subscribers' \in Header /\ subscribers'.len = n /\ subscribers'.arr = a
    BY <1>1, <2>2, <2>6 DEF SliceTypes, Header
  <2>9. subscribers' # Nil
    BY <1>1, <2>8, NilIs
  <2>10. ASSUME NEW c \in 1..Len(mem)
         PROVE  /\ Len(mem'[c]) = Len(mem[c])
                /\ \A i \in 1..Len(mem[c]) : mem'[c][i] # mem[c][i] =>
                      c = subscribers.arr /\ i > subscribers.len
    <3>1. CASE c = a
      <4>1. mem'[c] = b /\ mem[c] = mem[a] /\ Len(b) = Len(mem[a])
        BY <2>5, <2>7, <3>1
      <4>2. n > subscribers.len
        BY <1>1, HeaderIs
      <4> QED  BY <2>2, <2>5, <3>1, <4>1, <4>2
    <3>2. CASE c # a
      BY <2>7, <3>2
    <3> QED  BY <3>1, <3>2
  <2>11. ASSUME NEW i \in 1..subscribers.len PROVE mem'[a][i] = mem[a][i]
    <3>1. subscribers.len \in Nat
      BY HeaderIs
    <3>2. i \in 1..Len(mem[a]) /\ i # n
      BY <1>1, <2>3, <3>1
    <3>3. b[i] = mem[a][i]
      BY <2>5, <3>2
    <3> QED  BY <2>7, <3>3
  <2>12. subscribers'.arr \in 1..Len(mem') /\ subscribers'.len \in 1..Len(mem'[subscribers'.arr])
    BY <2>2, <2>3, <2>5, <2>7, <2>8
  <2>13. mem'[subscribers'.arr][subscribers.len + 1] = s
    BY <1>1, <2>5, <2>7, <2>8
  <2>14. Len(mem) <= Len(mem')
    BY <1>2, <2>7
  <2> QED  BY <1>1, <2>2, <2>7, <2>8, <2>9, <2>10, <2>11, <2>12, <2>13, <2>14
<1>4. CASE ~(n <= Cap(subscribers.arr))
  <2>1. PICK cap : cap = IF n = 1 THEN 1 ELSE 2 * (n - 1)
    OBVIOUS
  <2>2. cap \in Nat /\ n <= cap
    BY <1>1, <2>1
  <2>3. PICK b : b = [i \in 1..cap |-> IF i < n THEN mem[subscribers.arr][i]
                                      ELSE IF i = n THEN s ELSE NoSub]
    OBVIOUS
  <2>4. \A i \in 1..cap : b[i] \in Elem
    <3>1. ASSUME NEW i \in 1..cap, i < n PROVE mem[subscribers.arr][i] \in Sub
      <4>1. i \in 1..subscribers.len
        BY <1>1, <3>1, HeaderIs
      <4> QED  BY <4>1 DEF SlicesOK
    <3> QED  BY <2>3, <3>1 DEF Elem
  <2>5. b \in Seq(Elem) /\ Len(b) = cap
    BY <2>2, <2>3, <2>4
  <2>6. mem' = Append(mem, b) /\ subscribers' = [arr |-> Len(mem) + 1, len |-> n]
    BY <1>1, <1>4, <2>1, <2>3 DEF Appended
  <2>7. /\ mem' \in Seq(Seq(Elem)) /\ Len(mem') = Len(mem) + 1 /\ mem'[Len(mem) + 1] = b
        /\ \A c \in 1..Len(mem) : mem'[c] = mem[c]
    BY <1>2, <2>5, <2>6
  <2>8. subscribers' \in Header /\ subscribers'.len = n /\ subscribers'.arr = Len(mem) + 1
    BY <1>1, <1>2, <2>6 DEF Header
  <2>9. subscribers' # Nil
    BY <1>1, <2>8, NilIs
  <2>10. b[n] = s /\ \A i \in 1..subscribers.len : b[i] = mem[subscribers.arr][i]
    BY <1>1, <2>2, <2>3, HeaderIs
  <2>11. subscribers'.arr \in 1..Len(mem') /\ mem'[subscribers'.arr] = b
    BY <1>2, <2>7, <2>8
  <2>12. subscribers'.len = subscribers.len + 1 /\ subscribers'.len \in 1..Len(mem'[subscribers'.arr])
    BY <1>1, <2>2, <2>5, <2>8, <2>11
  <2>13. \A i \in 1..subscribers.len : mem'[subscribers'.arr][i] = mem[subscribers.arr][i]
    BY <2>10, <2>11
  <2>14. mem'[subscribers'.arr][subscribers.len + 1] = s
    BY <1>1, <2>10, <2>11
  <2>15. Len(mem) <= Len(mem')
    BY <1>2, <2>7
  <2> QED  BY <2>7, <2>8, <2>9, <2>11, <2>12, <2>13, <2>14, <2>15
<1> QED  BY <1>3, <1>4

\* A removal moves what follows down, in the same array.
LEMMA RemovedIs ==
  ASSUME SliceTypes, SlicesOK, NEW i \in 1..subscribers.len, Removed(i)
  PROVE  /\ mem' \in Seq(Seq(Elem)) /\ subscribers' \in Header
         /\ subscribers'.len = subscribers.len - 1
         /\ subscribers' # Nil => /\ subscribers'.arr = subscribers.arr
                                  /\ subscribers'.arr \in 1..Len(mem')
                                  /\ subscribers'.len \in 1..Len(mem'[subscribers'.arr])
         /\ \A j \in 1..(subscribers.len - 1) :
               mem'[subscribers'.arr][j] = mem[subscribers.arr][IF i <= j THEN j + 1 ELSE j]
         /\ Len(mem') = Len(mem) /\ \A a \in 1..Len(mem) : Len(mem'[a]) = Len(mem[a])
<1>1. PICK n : n = subscribers.len /\ n \in Nat \ {0}
  BY HeaderIs
<1>2. mem \in Seq(Seq(Elem)) /\ Len(mem) \in Nat
  BY DEF SliceTypes, Elem
<1>3. PICK a \in 1..Len(mem) : a = subscribers.arr /\ n \in 1..Len(mem[a])
  BY <1>1, HeaderIs
<1>4. mem[a] \in Seq(Elem) /\ Len(mem[a]) \in Nat
  BY <1>2
<1>5. PICK b : b = [j \in DOMAIN mem[a] |-> IF i <= j /\ j < n THEN mem[a][j + 1] ELSE mem[a][j]]
  OBVIOUS
<1>6. DOMAIN mem[a] = 1..Len(mem[a]) /\ i \in Nat
  BY <1>1, <1>4
<1>7. \A j \in 1..Len(mem[a]) : b[j] \in Elem
  BY <1>3, <1>4, <1>5, <1>6
<1>8. b \in Seq(Elem) /\ Len(b) = Len(mem[a])
  <2>1. b = [j \in 1..Len(mem[a]) |-> b[j]]
    BY <1>5, <1>6
  <2>2. b \in [1..Len(mem[a]) -> Elem]
    BY <1>7, <2>1
  <2> QED  BY <1>4, <2>2
<1>9. /\ mem' = [mem EXCEPT ![a] = b]
      /\ subscribers' = IF n = 1 THEN Nil ELSE [arr |-> a, len |-> n - 1]
  BY <1>1, <1>2, <1>3, <1>5 DEF Removed
<1>10. mem' \in Seq(Seq(Elem)) /\ Len(mem') = Len(mem) /\ mem'[a] = b
       /\ \A c \in 1..Len(mem) : c # a => mem'[c] = mem[c]
  BY <1>2, <1>8, <1>9
<1>11. \A c \in 1..Len(mem) : Len(mem'[c]) = Len(mem[c])
  BY <1>8, <1>10
<1>12. CASE n = 1
  BY <1>1, <1>9, <1>10, <1>11, <1>12, NilIs
<1>13. CASE n # 1
  <2>1. subscribers' \in Header /\ subscribers'.arr = a /\ subscribers'.len = n - 1
    BY <1>1, <1>3, <1>9, <1>13 DEF Header
  <2>2. \A j \in 1..(n - 1) : b[j] = mem[a][IF i <= j THEN j + 1 ELSE j]
    BY <1>1, <1>3, <1>4, <1>5, <1>6
  <2> QED  BY SMTT(30), <1>1, <1>3, <1>4, <1>8, <1>10, <1>11, <1>13, <2>1, <2>2
<1> QED  BY <1>12, <1>13

-----------------------------------------------------------------------------
(* Streams come and go.                                                    *)

JInv == SliceTypes /\ StreamTypes /\ Joined

LEMMA CastIs ==
  ASSUME SliceTypes, SlicesOK, NEW k \in casts
  PROVE  /\ k \in CastType /\ k.slice.arr \in 1..Len(mem) /\ k.slice.len \in Nat
         /\ k.slice.len \in 1..Len(mem[k.slice.arr])
BY DEF SliceTypes, SlicesOK, ArrayOf, CastType, Header

LEMMA SubscribedStep == ASSUME JInv, NEW s \in Sub, Subscribe(s) PROVE JInv'
<1>1. /\ SliceTypes /\ SlicesOK /\ ExactSubscribers /\ SnapshotStable /\ LazyPolling /\ Appended(s)
      /\ casts' = casts /\ polling' = polling /\ stream[s] = "new"
  BY DEF JInv, Joined, Subscribe, sends, poll, switch
<1>2. PICK n \in Nat : n = subscribers.len
  BY <1>1, HeaderIs
<1>3. /\ mem' \in Seq(Seq(Elem)) /\ subscribers' \in Header /\ subscribers' # Nil
      /\ subscribers'.len = n + 1
      /\ subscribers'.arr \in 1..Len(mem') /\ subscribers'.len \in 1..Len(mem'[subscribers'.arr])
      /\ subscribers'.arr = subscribers.arr \/ subscribers'.arr = Len(mem) + 1
      /\ \A i \in 1..n : mem'[subscribers'.arr][i] = mem[subscribers.arr][i]
      /\ mem'[subscribers'.arr][n + 1] = s
  BY <1>1, <1>2, AppendedIs
<1>4. /\ Len(mem) <= Len(mem') /\ Len(mem) \in Nat /\ Len(mem') \in Nat
      /\ \A a \in 1..Len(mem) : /\ Len(mem'[a]) = Len(mem[a])
                                /\ \A i \in 1..Len(mem[a]) : mem'[a][i] # mem[a][i] =>
                                      a = subscribers.arr /\ i > n
  BY SMTT(30), <1>1, <1>2, <1>3, AppendedIs DEF SliceTypes
<1>5. SliceTypes'
  BY <1>1, <1>3 DEF SliceTypes, Elem
<1>6. StreamTypes'
  <2>1. PICK st \in {"starting", "on"} : stream' = [stream EXCEPT ![s] = st] /\ buf' = buf
    BY DEF Subscribe
  <2> QED  BY <2>1 DEF JInv, StreamTypes
<1>7. ASSUME NEW k \in casts PROVE ArrayOf(k.slice)'
  <2>1. k.slice.arr \in 1..Len(mem) /\ k.slice.len \in 1..Len(mem[k.slice.arr])
    BY <1>1, CastIs
  <2> QED  BY <1>4, <2>1 DEF ArrayOf
<1>8. ASSUME NEW k \in casts, ~k.left, k.slice.arr = subscribers'.arr
      PROVE  k.slice.len <= subscribers'.len
  <2>1. k.slice.arr \in 1..Len(mem) /\ k.slice.len \in Nat
    BY <1>1, CastIs
  <2>2. k.slice.arr = subscribers.arr
    BY <1>3, <1>4, <1>8, <2>1
  <2>3. k.slice.len <= n
    BY <1>1, <1>2, <1>8, <2>2 DEF SlicesOK
  <2> QED  BY <1>3, <2>1, <2>3
<1>9. \A i \in 1..(n + 1) : mem'[subscribers'.arr][i] \in Sub
  <2>1. \A i \in 1..n : mem[subscribers.arr][i] \in Sub
    BY <1>1, <1>2 DEF SlicesOK
  <2>2. ASSUME NEW i \in 1..(n + 1) PROVE mem'[subscribers'.arr][i] \in Sub
    <3>1. CASE i \in 1..n
      BY <1>3, <2>1, <3>1
    <3>2. CASE i = n + 1
      BY <1>3, <3>2
    <3> QED  BY <1>2, <3>1, <3>2
  <2> QED  BY <2>2
<1>10. SlicesOK'
  <2>1. (subscribers # Nil => ArrayOf(subscribers))'
    BY <1>3 DEF ArrayOf
  <2> QED  BY <1>1, <1>3, <1>7, <1>8, <1>9, <2>1 DEF SlicesOK
<1>11. ASSUME NEW k \in casts, ~k.left PROVE Elements(k.slice)' = k.snap
  <2>1. PICK a, l : a = k.slice.arr /\ l = k.slice.len
    OBVIOUS
  <2>2. a \in 1..Len(mem) /\ l \in 1..Len(mem[a]) /\ l \in Nat
    BY <1>1, <2>1, CastIs
  <2>3. a = subscribers.arr => l <= n
    BY <1>1, <1>2, <1>11, <2>1 DEF SlicesOK
  <2>4. \A i \in 1..l : mem'[a][i] = mem[a][i]
    <3>1. Len(mem[a]) \in Nat
      BY <1>1, <2>2 DEF SliceTypes
    <3> QED  BY <1>2, <1>4, <2>2, <2>3, <3>1
  <2>5. [i \in 1..l |-> mem[a][i]] = k.snap
    BY <1>1, <1>11, <2>1 DEF SnapshotStable, Elements
  <2> QED  BY <2>1, <2>4, <2>5 DEF Elements
<1>12. SnapshotStable'
  BY <1>1, <1>11 DEF SnapshotStable
<1>13. ExactSubscribers'
  <2>1. PICK st \in {"starting", "on"} : stream' = [stream EXCEPT ![s] = st]
    BY DEF Subscribe
  <2>2. {t \in Sub : stream'[t] \in {"starting", "on"}} = {t \in Sub : stream[t] \in {"starting", "on"}} \cup {s}
    BY <2>1 DEF JInv, StreamTypes
  <2>3. Subscribed' = Subscribed \cup {s}
    <3>1. Subscribed' = {mem'[subscribers'.arr][i] : i \in 1..(n + 1)}
      BY <1>3 DEF Subscribed
    <3>2. Subscribed = {mem[subscribers.arr][i] : i \in 1..n}
      BY <1>2 DEF Subscribed
    <3>3. 1..(n + 1) = 1..n \cup {n + 1}
      BY <1>2
    <3>4. /\ \A i \in 1..n : mem'[subscribers'.arr][i] = mem[subscribers.arr][i]
          /\ mem'[subscribers'.arr][n + 1] = s
      BY <1>3
    <3> QED  BY <3>1, <3>2, <3>3, <3>4
  <2>4. \A i \in 1..n : mem[subscribers.arr][i] # s
    <3>1. s \notin Subscribed
      BY <1>1 DEF ExactSubscribers
    <3> QED  BY <1>2, <3>1 DEF Subscribed
  <2>5. ASSUME NEW i \in 1..(n + 1), NEW j \in 1..(n + 1),
               mem'[subscribers'.arr][i] = mem'[subscribers'.arr][j]
        PROVE  i = j
    <3>1. CASE i \in 1..n /\ j \in 1..n
      BY <1>1, <1>2, <1>3, <2>5, <3>1 DEF ExactSubscribers
    <3>2. CASE i = n + 1 /\ j = n + 1
      BY <3>2
    <3>3. CASE i = n + 1 /\ j \in 1..n
      BY <1>3, <2>4, <2>5, <3>3
    <3>4. CASE i \in 1..n /\ j = n + 1
      BY <1>3, <2>4, <2>5, <3>4
    <3> QED  BY <1>2, <3>1, <3>2, <3>3, <3>4
  <2> QED  BY <1>1, <1>3, <2>2, <2>3, <2>5 DEF ExactSubscribers
<1>14. LazyPolling'
  BY <1>3 DEF LazyPolling
<1> QED  BY <1>5, <1>6, <1>10, <1>12, <1>13, <1>14 DEF JInv, Joined

LEMMA UnsubscribedStep == ASSUME JInv, NEW s \in Sub, Unsubscribe(s) PROVE JInv'
<1>1. /\ SliceTypes /\ SlicesOK /\ ExactSubscribers /\ stream[s] = "on"
      /\ casts' = {[k EXCEPT !.left = TRUE] : k \in casts}
  BY DEF JInv, Joined, Unsubscribe
<1>2. PICK n \in Nat : n = subscribers.len
  BY <1>1, HeaderIs
<1>3. PICK i \in 1..n : mem[subscribers.arr][i] = s /\ Removed(i)
  BY <1>2 DEF Unsubscribe
<1>4. /\ mem' \in Seq(Seq(Elem)) /\ subscribers' \in Header /\ subscribers'.len = n - 1
      /\ subscribers' # Nil => /\ subscribers'.arr \in 1..Len(mem')
                               /\ subscribers'.len \in 1..Len(mem'[subscribers'.arr])
      /\ \A j \in 1..(n - 1) :
            mem'[subscribers'.arr][j] = mem[subscribers.arr][IF i <= j THEN j + 1 ELSE j]
      /\ Len(mem') = Len(mem) /\ \A a \in 1..Len(mem) : Len(mem'[a]) = Len(mem[a])
  BY <1>1, <1>2, <1>3, RemovedIs
<1>5. ASSUME NEW k \in casts', NEW l \in casts, k = [l EXCEPT !.left = TRUE]
      PROVE  k \in CastType /\ ArrayOf(k.slice)' /\ k.left = TRUE
  <2>1. l \in CastType /\ l.slice.arr \in 1..Len(mem) /\ l.slice.len \in 1..Len(mem[l.slice.arr])
    BY <1>1, CastIs
  <2>2. k \in CastType /\ k.slice = l.slice /\ k.left = TRUE
    BY <1>5, <2>1 DEF CastType
  <2>3. k.slice.arr \in 1..Len(mem') /\ k.slice.len \in 1..Len(mem'[k.slice.arr])
    BY <1>4, <2>1, <2>2
  <2> QED  BY <2>2, <2>3 DEF ArrayOf
<1>6. \A k \in casts' : k \in CastType /\ ArrayOf(k.slice)' /\ k.left = TRUE
  BY <1>1, <1>5
<1>7. SliceTypes'
  BY <1>4, <1>6 DEF SliceTypes, Elem
<1>8. PICK st \in {"stopping", "draining"} :
        /\ stream' = [stream EXCEPT ![s] = st] /\ buf' = buf
        /\ subscribers'.len = 0 => st = "stopping"
  BY DEF Unsubscribe, LastSub
<1>9. StreamTypes'
  BY <1>8 DEF JInv, StreamTypes
<1>10. \A j \in 1..(n - 1) : mem'[subscribers'.arr][j] \in Sub
  <2>1. \A j \in 1..n : mem[subscribers.arr][j] \in Sub
    BY <1>1, <1>2 DEF SlicesOK
  <2>2. ASSUME NEW j \in 1..(n - 1)
        PROVE  (IF i <= j THEN j + 1 ELSE j) \in 1..n
    BY <1>2, <1>3
  <2> QED  BY <1>4, <2>1, <2>2
<1>11. SlicesOK'
  <2>1. (subscribers # Nil => ArrayOf(subscribers))'
    BY <1>4 DEF ArrayOf
  <2> QED  BY <1>4, <1>6, <1>10, <2>1 DEF SlicesOK
<1>12. SnapshotStable'
  BY <1>6 DEF SnapshotStable
<1>13. ExactSubscribers'
  <2> DEFINE M(j) == mem[subscribers.arr][j]
             P(j) == IF i <= j THEN j + 1 ELSE j
  <2>1. \A j, l \in 1..n : M(j) = M(l) => j = l
    BY <1>1, <1>2 DEF ExactSubscribers
  <2>2. Subscribed = {M(j) : j \in 1..n}
    BY <1>2 DEF Subscribed
  <2>3. Subscribed' = {M(P(j)) : j \in 1..(n - 1)}
    BY <1>4 DEF Subscribed
  <2>4. \A j \in 1..(n - 1) : P(j) \in 1..n /\ P(j) # i
    BY <1>2, <1>3
  <2>5. ASSUME NEW l \in 1..n, l # i PROVE \E j \in 1..(n - 1) : P(j) = l
    <3>1. CASE l < i
      <4>1. l \in 1..(n - 1) /\ P(l) = l
        BY <1>2, <1>3, <3>1
      <4> QED  BY <4>1
    <3>2. CASE l > i
      <4>1. l - 1 \in 1..(n - 1) /\ P(l - 1) = l
        BY <1>2, <1>3, <3>2
      <4> QED  BY <4>1
    <3> QED  BY <1>2, <1>3, <2>5, <3>1, <3>2
  <2>6. \A j, l \in 1..(n - 1) : P(j) = P(l) => j = l
    BY <1>2, <1>3
  <2>7. M(i) = s
    BY <1>3
  <2>8. \A j, l \in 1..(n - 1) : mem'[subscribers'.arr][j] = mem'[subscribers'.arr][l] => j = l
    <3>1. \A j \in 1..(n - 1) : mem'[subscribers'.arr][j] = M(P(j))
      BY <1>4
    <3> HIDE DEF M, P
    <3> QED  BY <2>1, <2>4, <2>6, <3>1
  <2>9. Subscribed' = Subscribed \ {s}
    <3> HIDE DEF M, P
    <3> QED  BY <1>3, <2>1, <2>2, <2>3, <2>4, <2>5, <2>7
  <2>10. {t \in Sub : stream'[t] \in {"starting", "on"}} = {t \in Sub : stream[t] \in {"starting", "on"}} \ {s}
    BY <1>8 DEF JInv, StreamTypes
  <2> QED  BY <1>1, <1>4, <2>8, <2>9, <2>10 DEF ExactSubscribers
<1>14. LazyPolling'
  <2>1. subscribers' = Nil => st = "stopping"
    BY <1>8, NilIs
  <2>2. stream'[s] = st
    BY <1>8 DEF JInv, StreamTypes
  <2> QED  BY <2>1, <2>2 DEF LazyPolling, Switching
<1> QED  BY <1>7, <1>9, <1>11, <1>12, <1>13, <1>14 DEF JInv, Joined

\* The polling is switched on for a stream that is subscribed, and off otherwise.
LEMMA SwitchedStep ==
  ASSUME JInv, NEW s \in Sub, StartPolling(s) \/ StopPolling(s) \/ Close(s) PROVE JInv'
<1>1. PICK st \in {"on", "draining", "closed"} : stream' = [stream EXCEPT ![s] = st]
  BY DEF StartPolling, StopPolling, Close
<1>2. UNCHANGED <<mem, subscribers, casts, buf>>
  BY DEF StartPolling, StopPolling, Close, slices, sends
<1>3. SliceTypes' /\ SlicesOK' /\ SnapshotStable'
  BY <1>2 DEF JInv, Joined, SliceTypes, SlicesOK, SnapshotStable, ArrayOf, Elements
<1>4. StreamTypes'
  BY <1>1, <1>2 DEF JInv, StreamTypes
<1>5. \A t \in Sub : stream'[t] = IF t = s THEN st ELSE stream[t]
  BY <1>1 DEF JInv, StreamTypes
<1>6. st = "on" <=> stream[s] \in {"starting", "on"}
  BY <1>5 DEF StartPolling, StopPolling, Close, JInv, StreamTypes
<1>7. ExactSubscribers'
  <2>1. {t \in Sub : stream'[t] \in {"starting", "on"}} = {t \in Sub : stream[t] \in {"starting", "on"}}
    BY <1>5, <1>6
  <2> QED  BY <1>2, <2>1 DEF JInv, Joined, ExactSubscribers, Subscribed
<1>8. LazyPolling'
  <2>1. CASE StopPolling(s)
    BY <2>1 DEF StopPolling, LazyPolling
  <2>2. CASE StartPolling(s)
    <3>1. subscribers # Nil
      <4>1. s \in Subscribed
        BY <2>2 DEF StartPolling, JInv, Joined, ExactSubscribers
      <4> QED  BY <4>1, NilIs DEF Subscribed
    <3> QED  BY <1>2, <3>1 DEF LazyPolling
  <2>3. CASE Close(s)
    <3>1. polling' = polling /\ stream[s] = "draining"
      BY <2>3 DEF Close, poll, switch
    <3>2. Switching => Switching'
      BY <1>5, <3>1 DEF Switching
    <3> QED  BY <1>2, <3>1, <3>2 DEF JInv, Joined, LazyPolling
  <2> QED  BY <2>1, <2>2, <2>3
<1> QED  BY <1>3, <1>4, <1>7, <1>8 DEF JInv, Joined

LEMMA NobodyMoves ==
  ASSUME JInv, StreamTypes', UNCHANGED <<mem, subscribers, stream, casts>>,
         polling' = polling \/ ~polling'
  PROVE  JInv'
BY SMTT(30) DEF JInv, Joined, SliceTypes, SlicesOK, SnapshotStable, ArrayOf, Elements, ExactSubscribers,
       Subscribed, LazyPolling, Switching

\* Broadcasts begin with what is subscribed, and read it in order.
LEMMA BroadcastsStep ==
  ASSUME JInv, NEW by \in Event \cup Poller, NEW e \in Event, Broadcast(by, e),
         UNCHANGED <<slices, streams, polling>>
  PROVE  JInv'
<1>1. UNCHANGED <<mem, subscribers, stream, buf>>
  BY DEF slices, streams
<1>2. CASE casts' = casts
  <2>1. StreamTypes'
    BY <1>1 DEF JInv, StreamTypes
  <2> QED  BY <1>1, <1>2, <2>1, NobodyMoves
<1>3. CASE subscribers.len # 0
  <2>1. PICK n \in Nat \ {0} : n = subscribers.len
    BY <1>3, HeaderIs DEF JInv, Joined
  <2>2. PICK k : k = [by |-> by, evt |-> e, slice |-> subscribers, i |-> 1,
                      snap |-> Elements(subscribers), left |-> FALSE]
    OBVIOUS
  <2>3. casts' = casts \cup {k}
    BY <1>3, <2>2 DEF Broadcast
  <2>4. subscribers # Nil /\ ArrayOf(subscribers)
    BY <1>3, NilIs DEF JInv, Joined, SlicesOK
  <2>5. Elements(subscribers) \in Seq(Sub)
    <3>1. \A i \in 1..n : mem[subscribers.arr][i] \in Sub
      BY <2>1 DEF JInv, Joined, SlicesOK
    <3>2. [i \in 1..n |-> mem[subscribers.arr][i]] \in [1..n -> Sub]
      BY <3>1
    <3> QED  BY <2>1, <3>2 DEF Elements
  <2>6. k \in CastType /\ k.slice = subscribers /\ k.snap = Elements(subscribers)
    BY <2>2, <2>5 DEF CastType, JInv, SliceTypes
  <2>7. SliceTypes'
    BY <1>1, <2>3, <2>6 DEF JInv, SliceTypes
  <2>8. SlicesOK'
    <3>1. \A j \in casts' : j \in casts \/ j = k
      BY <2>3
    <3>2. k.slice.len <= subscribers.len
      BY <2>1, <2>6
    <3>3. \A sl : ArrayOf(sl) => ArrayOf(sl)'
      BY <1>1 DEF ArrayOf
    <3>4. ArrayOf(k.slice)
      BY <2>4, <2>6
    <3>5. ASSUME NEW j \in casts'
          PROVE  /\ ArrayOf(j.slice)'
                 /\ ~j.left /\ j.slice.arr = subscribers.arr => j.slice.len <= subscribers.len
      <4>1. CASE j \in casts
        BY <3>3, <4>1 DEF JInv, Joined, SlicesOK
      <4>2. CASE j = k
        BY <3>2, <3>3, <3>4, <4>2
      <4> QED  BY <3>1, <4>1, <4>2
    <3>6. (subscribers # Nil => ArrayOf(subscribers))'
      BY <1>1, <2>4 DEF ArrayOf
    <3>7. (\A i \in 1..subscribers.len : mem[subscribers.arr][i] \in Sub)'
      BY <1>1 DEF JInv, Joined, SlicesOK
    <3> QED  BY <1>1, <3>5, <3>6, <3>7 DEF SlicesOK
  <2>9. SnapshotStable'
    <3>1. \A j \in casts : ~j.left => Elements(j.slice) = j.snap
      BY DEF JInv, Joined, SnapshotStable
    <3> QED  BY <1>1, <2>3, <2>6, <3>1 DEF SnapshotStable, Elements
  <2>10. StreamTypes' /\ ExactSubscribers' /\ LazyPolling'
    BY <1>1 DEF JInv, Joined, StreamTypes, ExactSubscribers, Subscribed, LazyPolling, Switching
  <2> QED  BY <2>7, <2>8, <2>9, <2>10 DEF JInv, Joined
<1> QED  BY <1>2, <1>3 DEF Broadcast

LEMMA SendsStep == ASSUME JInv, NEW k \in casts, Send(k) \/ Sent(k), StreamTypes' PROVE JInv'
<1>1. UNCHANGED <<mem, subscribers, stream, polling>>
  BY DEF Send, Sent, slices, streams, poll, switch
<1>2. ASSUME NEW j \in casts' PROVE \E l \in casts : /\ j \in CastType /\ j.slice = l.slice
                                                     /\ j.left = l.left /\ j.snap = l.snap
  <2>1. CASE j \in casts
    BY <2>1 DEF JInv, SliceTypes
  <2>2. CASE j \notin casts
    <3>1. j = [k EXCEPT !.i = @ + 1]
      BY <1>2, <2>2 DEF Send, Sent
    <3>2. k \in CastType
      BY DEF JInv, SliceTypes
    <3> QED  BY <3>1, <3>2 DEF CastType
  <2> QED  BY <2>1, <2>2
<1>3. SliceTypes'
  BY <1>1, <1>2 DEF JInv, SliceTypes
<1>4. SlicesOK'
  BY <1>1, <1>2 DEF JInv, Joined, SlicesOK, ArrayOf
<1>5. SnapshotStable'
  BY <1>1, <1>2 DEF JInv, Joined, SnapshotStable, Elements
<1>6. ExactSubscribers' /\ LazyPolling'
  BY <1>1 DEF JInv, Joined, ExactSubscribers, Subscribed, LazyPolling, Switching
<1> QED  BY <1>3, <1>4, <1>5, <1>6 DEF JInv, Joined

LEMMA JoinedStep == JInv /\ PollTypes /\ [Next]_vars => JInv'
<1> SUFFICES ASSUME JInv, PollTypes, [Next]_vars PROVE JInv'
  OBVIOUS
<1>1. StreamTypes'
  BY StreamTypesStep DEF JInv
<1>2. ASSUME UNCHANGED <<mem, subscribers, stream, casts>>, polling' = polling \/ ~polling' PROVE JInv'
  BY <1>1, <1>2, NobodyMoves
<1>3. ASSUME NEW s \in Sub, Receive(s) PROVE JInv'
  BY <1>2, <1>3 DEF Receive, slices, poll, switch, sends
<1>4. ASSUME NEW e \in Event, Record(e) PROVE JInv'
  BY <1>4, BroadcastsStep DEF Record, poll, switch
<1>5. ASSUME NEW e, Enqueue(e) \/ Take \/ Save(e) PROVE JInv'
  BY <1>2, <1>5 DEF Enqueue, Take, Save, slices, streams, poll, switch, sends
<1>6. ASSUME NEW p \in Poller, PollEvent(p) PROVE JInv'
  <2>1. PICK e \in pollers[p].todo : Broadcast(p, e) \/ casts' = casts
    BY <1>6 DEF PollEvent
  <2>2. e \in Event
    BY DEF PollTypes, PollerType
  <2>3. UNCHANGED <<slices, streams, polling>>
    BY <1>6 DEF PollEvent, switch
  <2>4. CASE Broadcast(p, e)
    BY <2>2, <2>3, <2>4, BroadcastsStep
  <2>5. CASE casts' = casts
    BY <1>2, <2>3, <2>5 DEF slices, streams
  <2> QED  BY <2>1, <2>4, <2>5
<1>7. ASSUME NEW p \in Poller, \/ PollTick(p) \/ PollSince(p) \/ PollQuery(p) \/ PollError(p)
                               \/ PollAdvance(p) \/ PollDone(p) \/ PollCancelled(p)
      PROVE  JInv'
  BY <1>2, <1>7 DEF PollTick, PollSince, PollQuery, PollError, PollAdvance, PollDone, PollCancelled,
                    slices, streams, switch, sends
<1>8. CASE Shutdown \/ UNCHANGED vars
  BY <1>2, <1>8 DEF Shutdown, vars, slices, streams, poll, switch, sends
<1> QED
  BY <1>1, <1>3, <1>4, <1>5, <1>6, <1>7, <1>8, SubscribedStep, UnsubscribedStep, SwitchedStep, SendsStep
  DEF Next

-----------------------------------------------------------------------------
(* Events are recorded, saved and polled.                                  *)

LEMMA RecordedStep == RecordTypes /\ Recorded /\ [Next]_vars => Recorded'
<1> SUFFICES ASSUME RecordTypes, Recorded, [Next]_vars PROVE Recorded'
  OBVIOUS
<1>1. ASSUME UNCHANGED records PROVE Recorded'
  BY <1>1 DEF Recorded, records
<1>2. ASSUME NEW s \in Sub, \/ Subscribe(s) \/ StartPolling(s) \/ Unsubscribe(s)
                            \/ StopPolling(s) \/ Receive(s) \/ Close(s)
      PROVE  Recorded'
  BY <1>1, <1>2 DEF Subscribe, StartPolling, Unsubscribe, StopPolling, Receive, Close
<1>3. ASSUME NEW k \in casts, Send(k) \/ Sent(k) PROVE Recorded'
  BY <1>1, <1>3 DEF Send, Sent
<1>4. ASSUME NEW e \in Event, Record(e) PROVE Recorded'
  BY <1>4 DEF Record, RecordTypes, Recorded
<1>5. ASSUME NEW e \in Event, Enqueue(e) PROVE Recorded'
  <2>1. \A i \in 1..Len(queue') : queue'[i] = e \/ (i \in 1..Len(queue) /\ queue'[i] = queue[i])
    BY <1>5 DEF Enqueue, RecordTypes
  <2>2. \A d \in Event : rec'[d] = IF d = e THEN "done" ELSE rec[d]
    BY <1>5 DEF Enqueue, RecordTypes
  <2> QED  BY <1>5, <2>1, <2>2 DEF Enqueue, Recorded
<1>6. CASE Take
  <2>1. \A i \in 1..Len(queue') : i + 1 \in 1..Len(queue) /\ queue'[i] = queue[i + 1]
    BY <1>6 DEF Take, RecordTypes
  <2>2. 1 \in 1..Len(queue) /\ saving' = saving \cup {queue[1]}
    BY <1>6 DEF Take, RecordTypes
  <2> QED  BY <1>6, <2>1, <2>2 DEF Take, Recorded
<1>7. ASSUME NEW e \in saving, Save(e) PROVE Recorded'
  <2>1. saving' \cup stored' \cup punctual' \subseteq saving \cup stored \cup punctual
    BY <1>7 DEF Save
  <2> QED  BY <1>7, <2>1 DEF Save, Recorded
<1>8. ASSUME NEW p \in Poller,
             \/ PollTick(p) \/ PollSince(p) \/ PollQuery(p) \/ PollError(p) \/ PollAdvance(p)
             \/ PollEvent(p) \/ PollDone(p) \/ PollCancelled(p)
      PROVE  Recorded'
  BY <1>1, <1>8 DEF PollTick, PollSince, PollQuery, PollError, PollAdvance, PollEvent, PollDone,
                    PollCancelled
<1>9. CASE Shutdown \/ UNCHANGED vars
  BY <1>1, <1>9 DEF Shutdown, vars
<1> QED  BY <1>2, <1>3, <1>4, <1>5, <1>6, <1>7, <1>8, <1>9 DEF Next

LEMMA CountedStep == PollTypes /\ Counted /\ [Next]_vars => Counted'
<1> SUFFICES ASSUME PollTypes, Counted, [Next]_vars PROVE Counted'
  OBVIOUS
<1>1. ASSUME UNCHANGED handled PROVE Counted'
  BY <1>1 DEF Counted, handled
<1>2. ASSUME NEW s \in Sub, \/ Subscribe(s) \/ StartPolling(s) \/ Unsubscribe(s)
                            \/ StopPolling(s) \/ Receive(s) \/ Close(s)
      PROVE  Counted'
  BY <1>1, <1>2 DEF Subscribe, StartPolling, Unsubscribe, StopPolling, Receive, Close, poll
<1>3. ASSUME NEW k \in casts, Send(k) \/ Sent(k) PROVE Counted'
  BY <1>1, <1>3 DEF Send, Sent, poll
<1>4. ASSUME NEW e, Record(e) \/ Enqueue(e) \/ Take \/ Save(e) PROVE Counted'
  BY <1>1, <1>4 DEF Record, Enqueue, Take, Save, poll
<1>5. ASSUME NEW p \in Poller, PollEvent(p) PROVE Counted'
  <2>1. PICK e \in pollers[p].todo :
          /\ recentEvents' = recentEvents \cup {e}
          /\ \/ e \notin recentEvents /\ polls' = [polls EXCEPT ![e] = @ + 1]
             \/ polls' = polls
    BY <1>5 DEF PollEvent, ShouldProcess
  <2> QED  BY <2>1 DEF Counted, PollTypes
<1>6. ASSUME NEW p \in Poller,
             \/ PollTick(p) \/ PollSince(p) \/ PollQuery(p) \/ PollError(p) \/ PollAdvance(p)
             \/ PollDone(p) \/ PollCancelled(p)
      PROVE  Counted'
  BY <1>1, <1>6 DEF PollTick, PollSince, PollQuery, PollError, PollAdvance, PollDone, PollCancelled
<1>7. CASE Shutdown \/ UNCHANGED vars
  BY <1>1, <1>7 DEF Shutdown, vars, poll
<1> QED  BY <1>2, <1>3, <1>4, <1>5, <1>6, <1>7 DEF Next

SInv == RecordTypes /\ PollTypes /\ FlagTypes /\ Seen

\* What streams and broadcasts do leaves all this alone.
Aside == UNCHANGED <<clock, records, startedAt, lastPollTime, pollers, lastTick, overrun, handled>>

LEMMA AsideStep ==
  ASSUME [Next]_vars,
         \/ \E s \in Sub : \/ Subscribe(s) \/ Unsubscribe(s) \/ StopPolling(s) \/ Receive(s) \/ Close(s)
         \/ \E k \in casts : Send(k) \/ Sent(k)
         \/ Shutdown \/ UNCHANGED vars
  PROVE  Aside
BY DEF Subscribe, Unsubscribe, StopPolling, Receive, Close, Send, Sent, Shutdown, vars, poll, switch,
       handled, Aside

LEMMA Undisturbed == SInv /\ Aside => Seen'
BY DEF SInv, Aside, Seen, Recorded, Times, Polled, Handed, Counted, PunctualPolled, records, handled

LEMMA RecordsPolled ==
  ASSUME SInv, \/ \E e \in Event : Record(e) \/ Enqueue(e)
               \/ Take
               \/ \E e \in saving : Save(e)
  PROVE  Times' /\ Polled' /\ PunctualPolled'
<1>1. UNCHANGED <<startedAt, lastPollTime, pollers, lastTick, overrun, handled>>
  BY DEF Record, Enqueue, Take, Save, poll, switch
<1>2. \A e : Handed(e) => Handed(e)'
  BY <1>1 DEF Handed, handled
<1>3. Times /\ Polled /\ PunctualPolled /\ Recorded
  BY DEF SInv, Seen
<1>4. ASSUME UNCHANGED <<clock, created>>, punctual' \subseteq stored', stored \subseteq stored',
             \A e \in punctual' : e \in punctual \/ (e \in Event /\ lastTick < created[e])
      PROVE  Times' /\ Polled' /\ PunctualPolled'
  <2>1. Times'
    BY <1>1, <1>3, <1>4 DEF Times
  <2>2. \A e \in punctual' : e \notin punctual /\ startedAt < created[e] =>
           /\ created[e] > lastPollTime
           /\ \A p \in Poller : created[e] > pollers[p].since /\ created[e] > pollers[p].now
    <3>1. ASSUME NEW e \in Event, lastTick < created[e], startedAt < created[e]
          PROVE  created[e] > lastPollTime
      BY <1>3, <3>1 DEF Times, SInv, RecordTypes, PollTypes
    <3>2. ASSUME NEW e \in Event, lastTick < created[e], startedAt < created[e], NEW p \in Poller
          PROVE  created[e] > pollers[p].since /\ created[e] > pollers[p].now
      <4>1. {created[e], pollers[p].since, pollers[p].now, lastTick, startedAt} \subseteq Nat
        BY DEF SInv, RecordTypes, PollTypes, PollerType
      <4> QED  BY <1>3, <3>2, <4>1 DEF Times
    <3> QED  BY <1>4, <3>1, <3>2
  <2>3. Polled'
    <3>1. ASSUME ~overrun, NEW p \in Poller, NEW e \in punctual', startedAt < created[e],
                 \/ pollers[p].pc = "query" /\ created[e] <= pollers[p].since
                 \/ pollers[p].pc = "advance" /\ created[e] <= pollers[p].now
          PROVE  Handed(e)'
      <4>1. {created[e], pollers[p].since, pollers[p].now} \subseteq Nat
        BY <1>4 DEF SInv, RecordTypes, PollTypes, PollerType
      <4>2. e \in punctual
        BY <2>2, <3>1, <4>1
      <4> QED  BY <1>2, <1>3, <3>1, <4>2 DEF Polled
    <3> QED  BY <1>1, <1>3, <1>4, <3>1 DEF Polled
  <2>4. PunctualPolled'
    <3>1. ASSUME ~overrun, NEW e \in punctual', created[e] > startedAt, created[e] <= lastPollTime
          PROVE  Handed(e)'
      <4>1. {created[e], lastPollTime, startedAt} \subseteq Nat
        BY <1>4 DEF SInv, RecordTypes, PollTypes
      <4>2. e \in punctual
        BY <2>2, <3>1, <4>1
      <4>3. Handed(e)
        BY <1>3, <3>1, <4>2 DEF PunctualPolled, Handed
      <4> QED  BY <1>2, <4>3
    <3> QED  BY <1>1, <1>4, <3>1 DEF PunctualPolled, Handed
  <2> QED  BY <2>1, <2>3, <2>4
<1>5. ASSUME NEW e \in Event, Enqueue(e) PROVE Times' /\ Polled' /\ PunctualPolled'
  BY <1>3, <1>4, <1>5 DEF Enqueue, Polled
<1>6. ASSUME NEW e \in saving, Save(e) PROVE Times' /\ Polled' /\ PunctualPolled'
  <2>1. e \in Event /\ UNCHANGED <<clock, created>>
    BY <1>6 DEF Save, SInv, RecordTypes
  <2>2. punctual' \subseteq stored' /\ stored \subseteq stored'
    BY <1>3, <1>6 DEF Save, Polled
  <2>3. \A d \in punctual' : d \in punctual \/ (d = e /\ lastTick < created[e])
    BY <1>6 DEF Save
  <2> QED  BY <1>4, <2>1, <2>2, <2>3
<1>7. ASSUME NEW e \in Event, Record(e) PROVE Times' /\ Polled' /\ PunctualPolled'
  <2>1. /\ clock' = clock + 1 /\ UNCHANGED <<stored, punctual>> /\ rec[e] = "new"
        /\ created' = [created EXCEPT ![e] = clock + 1]
    BY <1>7 DEF Record, ReadClock, Now
  <2>2. e \notin punctual /\ punctual \subseteq Event
    BY <1>3, <2>1 DEF Recorded, SInv, RecordTypes
  <2>3. \A d \in punctual : created'[d] = created[d]
    BY <2>1, <2>2 DEF SInv, RecordTypes
  <2>4. Times'
    <3>1. \A d \in Event : created'[d] <= clock'
      BY <1>3, <2>1 DEF Times, SInv, RecordTypes
    <3>2. startedAt <= clock' /\ lastTick <= clock' /\ lastPollTime <= clock'
      BY <1>3, <2>1 DEF Times, SInv, RecordTypes, PollTypes
    <3> QED  BY <1>1, <1>3, <3>1, <3>2 DEF Times
  <2>5. Polled'
    BY <1>1, <1>2, <1>3, <2>1, <2>3 DEF Polled
  <2>6. PunctualPolled'
    <3>1. \A d \in punctual : created'[d] > startedAt' /\ created'[d] <= lastPollTime' /\ ~overrun'
             => Handed(d)'
      BY <1>1, <1>2, <1>3, <2>3 DEF PunctualPolled, Handed
    <3> QED  BY <2>1, <3>1 DEF PunctualPolled, Handed
  <2> QED  BY <2>4, <2>5, <2>6
<1>8. CASE Take
  BY <1>3, <1>4, <1>8 DEF Take, Polled
<1> QED  BY <1>5, <1>6, <1>7, <1>8

\* A poll goroutine goes on from its state to d, and keeps what it has in hand.
LEMMA PollerMoves ==
  ASSUME SInv, NEW p \in Poller, NEW d \in PollerType, pollers' = [pollers EXCEPT ![p] = d],
         \A e : e \in pollers[p].todo => e \in d.todo \/ e \in recentEvents',
         recentEvents \subseteq recentEvents'
  PROVE  /\ \A e : Handed(e) => Handed(e)'
         /\ pollers'[p] = d /\ \A q \in Poller : q # p => pollers'[q] = pollers[q]
<1>1. pollers'[p] = d /\ \A q \in Poller : q # p => pollers'[q] = pollers[q]
  BY DEF SInv, PollTypes
<1>2. ASSUME NEW e, Handed(e) PROVE Handed(e)'
  <2>1. CASE e \in recentEvents
    BY <2>1 DEF Handed
  <2>2. CASE \E q \in Poller : e \in pollers[q].todo
    <3>1. PICK q \in Poller : e \in pollers[q].todo
      BY <2>2
    <3> QED  BY <1>1, <3>1 DEF Handed
  <2> QED  BY <1>2, <2>1, <2>2 DEF Handed
<1> QED  BY <1>1, <1>2

\* What the invariant asks of a poll goroutine that is in state d.
PollerOK(d) ==
  /\ d.now <= lastTick /\ (d.since <= lastTick \/ d.since <= startedAt)
  /\ d.pc \notin {"advance", "events"} => d.todo = {}
  /\ ~overrun => \A e \in punctual :
       /\ d.pc = "query" /\ startedAt < created[e] /\ created[e] <= d.since => Handed(e) \/ e \in d.todo
       /\ d.pc = "advance" /\ startedAt < created[e] /\ created[e] <= d.now => Handed(e) \/ e \in d.todo

LEMMA PollersOK == SInv => \A p \in Poller : PollerOK(pollers[p])
BY DEF SInv, Seen, Times, Polled, PollerOK

\* Moves that change neither the clock nor lastPollTime.
LEMMA PollerStep ==
  ASSUME SInv, NEW p \in Poller, NEW d \in PollerType, pollers' = [pollers EXCEPT ![p] = d],
         \A e : e \in pollers[p].todo => e \in d.todo \/ e \in recentEvents',
         recentEvents \subseteq recentEvents', PollerOK(d), overrun' = overrun,
         UNCHANGED <<clock, records, startedAt, lastPollTime, lastTick>>
  PROVE  Times' /\ Polled' /\ PunctualPolled'
<1>1. /\ \A e : Handed(e) => Handed(e)'
      /\ pollers'[p] = d /\ \A q \in Poller : q # p => pollers'[q] = pollers[q]
  BY PollerMoves
<1>2. Times /\ Polled /\ PunctualPolled /\ UNCHANGED <<created, punctual, stored>>
  BY DEF SInv, Seen, records
<1>3. \A q \in Poller : PollerOK(pollers'[q])
  BY <1>1, PollersOK
<1>4. \A q \in Poller : \A e : e \in pollers'[q].todo => Handed(e)'
  BY DEF Handed
<1>5. Times'
  BY <1>2, <1>3 DEF Times, PollerOK
<1>6. Polled'
  BY <1>1, <1>2, <1>3, <1>4 DEF Polled, PollerOK
<1>7. PunctualPolled'
  BY <1>1, <1>2 DEF PunctualPolled, Handed
<1> QED  BY <1>5, <1>6, <1>7

LEMMA PollingStarts == ASSUME SInv, NEW s \in Sub, StartPolling(s) PROVE Times' /\ Polled' /\ PunctualPolled'
<1>1. Times /\ Polled /\ PunctualPolled
  BY DEF SInv, Seen
<1>2. CASE UNCHANGED clock /\ UNCHANGED poll
  BY <1>1, <1>2, Undisturbed DEF StartPolling, Aside, poll, switch, Seen
<1>3. CASE ~polling
  <2>1. PICK p \in Poller :
          pollers[p] = Idle /\ pollers' = [pollers EXCEPT ![p].pc = "waiting"]
    BY <1>3 DEF StartPolling
  <2>2. PICK d : d = [Idle EXCEPT !.pc = "waiting"]
    OBVIOUS
  <2>3. d \in PollerType /\ d.pc = "waiting" /\ d.now = 0 /\ d.since = 0 /\ d.todo = {}
    BY <2>2 DEF Idle, PollerType
  <2>4. pollers' = [pollers EXCEPT ![p] = d]
    BY <2>1, <2>2 DEF SInv, PollTypes
  <2>5. /\ clock' = clock + 1 /\ lastPollTime' = clock + 1 /\ startedAt' = clock + 1
        /\ UNCHANGED <<lastTick, overrun, handled, records>>
    BY <1>3 DEF StartPolling, ReadClock, Now
  <2>6. pollers'[p] = d /\ \A q \in Poller : q # p => pollers'[q] = pollers[q]
    BY <2>4 DEF SInv, PollTypes
  <2>7. {clock, lastTick, startedAt, lastPollTime} \subseteq Nat
    BY DEF SInv, RecordTypes, PollTypes
  <2>8. \A e \in Event : created'[e] = created[e] /\ created[e] \in Nat /\ created[e] <= clock
    BY <1>1, <2>5 DEF Times, SInv, RecordTypes, records
  <2>9. ASSUME NEW q \in Poller
        PROVE  pollers'[q].now <= lastTick /\ (pollers'[q].since <= lastTick \/ pollers'[q].since <= clock + 1)
    <3>1. pollers[q].since \in Nat
      BY DEF SInv, PollTypes, PollerType
    <3>2. CASE q = p
      BY <2>3, <2>6, <2>7, <3>2
    <3>3. CASE q # p
      BY <1>1, <2>6, <2>7, <3>1, <3>3 DEF Times
    <3> QED  BY <3>2, <3>3
  <2>10. Times'
    <3>1. \A e \in Event : created'[e] <= clock'
      BY <2>5, <2>7, <2>8
    <3>2. startedAt' <= clock' /\ lastTick' <= clock' /\ lastPollTime' <= clock' /\ lastPollTime' <= startedAt'
      BY <1>1, <2>5, <2>7 DEF Times
    <3> QED  BY <2>5, <2>9, <3>1, <3>2 DEF Times
  <2>11. \A e \in punctual' : e \in Event /\ ~(startedAt' < created'[e])
    BY <2>5, <2>7, <2>8 DEF SInv, RecordTypes, records
  <2>12. Polled'
    <3>1. punctual' \subseteq stored'
      BY <1>1, <2>5 DEF Polled, records
    <3>2. \A q \in Poller : pollers'[q].pc \notin {"advance", "events"} => pollers'[q].todo = {}
      BY <1>1, <2>3, <2>6 DEF Polled
    <3> QED  BY <2>11, <3>1, <3>2 DEF Polled
  <2>13. PunctualPolled'
    <3>1. \A e \in punctual' : ~(created'[e] > startedAt')
      BY <2>5, <2>7, <2>8, <2>11
    <3> QED  BY <3>1 DEF PunctualPolled
  <2> QED  BY <2>10, <2>12, <2>13
<1> QED  BY <1>2, <1>3 DEF StartPolling

LEMMA Ticks == ASSUME SInv, NEW p \in Poller, PollTick(p) PROVE Times' /\ Polled' /\ PunctualPolled'
<1>1. /\ Times /\ Polled /\ PunctualPolled /\ pollers[p].pc = "waiting" /\ pollers[p].todo = {}
      /\ pollers[p] \in PollerType
  BY DEF SInv, Seen, Polled, PollTick, PollTypes
<1>2. CASE pollers' = [pollers EXCEPT ![p] = Idle] /\ UNCHANGED <<clock, lastTick>>
  <2>1. Idle \in PollerType /\ Idle.pc = "idle" /\ Idle.now = 0 /\ Idle.since = 0 /\ Idle.todo = {}
    BY DEF Idle, PollerType
  <2>2. PollerOK(Idle)
    BY <2>1 DEF PollerOK, SInv, PollTypes
  <2> QED  BY <1>1, <1>2, <2>1, <2>2, PollerStep DEF PollTick, switch, handled
<1>3. CASE ReadClock /\ lastTick' = Now
           /\ pollers' = [pollers EXCEPT ![p].pc = "since", ![p].now = Now]
  <2>1. PICK d : d = [pollers[p] EXCEPT !.pc = "since", !.now = Now]
    OBVIOUS
  <2>2. clock' = clock + 1 /\ lastTick' = clock + 1 /\ Now = clock + 1 /\ clock \in Nat
    BY <1>3 DEF ReadClock, Now, SInv, RecordTypes
  <2>3. /\ d \in PollerType /\ d.pc = "since" /\ d.now = clock + 1 /\ d.since = pollers[p].since
        /\ d.todo = {}
    <3>1. PICK t \in Nat : t = Now /\ t = clock + 1
      BY <2>2
    <3>2. d = [pollers[p] EXCEPT !.pc = "since", !.now = t]
      BY <2>1, <3>1
    <3>3. d \in PollerType /\ d.pc = "since" /\ d.now = t
      BY <1>1, <3>2 DEF PollerType
    <3>4. d.since = pollers[p].since /\ d.todo = pollers[p].todo
      BY <1>1, <3>2 DEF PollerType
    <3> QED  BY <1>1, <3>1, <3>3, <3>4
  <2>4. pollers' = [pollers EXCEPT ![p] = d]
    BY <1>3, <2>1 DEF SInv, PollTypes
  <2>5. UNCHANGED <<records, startedAt, lastPollTime, overrun, handled>>
    BY DEF PollTick, switch
  <2>6. /\ \A e : Handed(e) => Handed(e)'
        /\ pollers'[p] = d /\ \A q \in Poller : q # p => pollers'[q] = pollers[q]
    BY <1>1, <2>3, <2>4, <2>5, PollerMoves DEF handled
  <2>7. {lastTick, startedAt, lastPollTime} \subseteq Nat
    BY DEF SInv, PollTypes
  <2>8. Times'
    <3>1. \A e \in Event : created'[e] <= clock'
      BY <1>1, <2>2, <2>5 DEF Times, SInv, RecordTypes, records
    <3>2. startedAt' <= clock' /\ lastTick' <= clock' /\ lastPollTime' <= clock' /\ lastPollTime' <= lastTick'
      BY <1>1, <2>2, <2>5, <2>7 DEF Times
    <3>3. ASSUME NEW q \in Poller
          PROVE  pollers'[q].now <= lastTick' /\ pollers'[q].since <= lastTick'
      <4>1. pollers[q].now <= clock /\ pollers[q].since <= clock /\ {pollers[q].now, pollers[q].since} \subseteq Nat
        BY <1>1, <2>2, <2>7 DEF Times, SInv, PollTypes, PollerType
      <4>2. CASE q = p
        BY <2>2, <2>3, <2>6, <4>1, <4>2
      <4>3. CASE q # p
        BY <2>2, <2>6, <4>1, <4>3
      <4> QED  BY <4>2, <4>3
    <3> QED  BY <3>1, <3>2, <3>3 DEF Times
  <2>9. Polled'
    BY <1>1, <2>3, <2>5, <2>6 DEF Polled, records
  <2>10. PunctualPolled'
    BY <1>1, <2>5, <2>6 DEF PunctualPolled, Handed, records
  <2> QED  BY <2>8, <2>9, <2>10
<1> QED  BY <1>2, <1>3 DEF PollTick

LEMMA Sinces == ASSUME SInv, NEW p \in Poller, PollSince(p) PROVE Times' /\ Polled' /\ PunctualPolled'
<1>1. /\ Times /\ Polled /\ PunctualPolled /\ pollers[p].pc = "since" /\ pollers[p].todo = {}
      /\ pollers[p] \in PollerType /\ PollerOK(pollers[p])
  BY PollersOK DEF SInv, Seen, Polled, PollSince, PollTypes
<1>2. PICK d : d = [pollers[p] EXCEPT !.pc = "query", !.since = lastPollTime]
  OBVIOUS
<1>3. /\ d \in PollerType /\ d.pc = "query" /\ d.now = pollers[p].now /\ d.since = lastPollTime
      /\ d.todo = {}
  BY <1>1, <1>2 DEF PollerType, SInv, PollTypes
<1>4. pollers' = [pollers EXCEPT ![p] = d] /\ UNCHANGED <<clock, records, switch, lastTick, overrun, handled>>
  BY <1>2 DEF PollSince, SInv, PollTypes
<1>5. ASSUME ~overrun, NEW e \in punctual, startedAt < created[e], created[e] <= lastPollTime
      PROVE  Handed(e)
  <2>1. created[e] > startedAt
    BY <1>5 DEF SInv, RecordTypes, PollTypes
  <2> QED  BY <1>1, <1>5, <2>1 DEF PunctualPolled, Handed
<1>6. PollerOK(d)
  BY <1>1, <1>3, <1>5 DEF PollerOK, Times
<1> QED  BY <1>1, <1>3, <1>4, <1>6, PollerStep DEF switch, handled

\* The query hands over what was created after the time it asks for, unless there
\* is more than its limit.
LEMMA Queries == ASSUME SInv, NEW p \in Poller, PollQuery(p) PROVE Times' /\ Polled' /\ PunctualPolled'
<1>1. /\ Times /\ Polled /\ PunctualPolled /\ pollers[p].pc = "query" /\ pollers[p].todo = {}
      /\ pollers[p] \in PollerType /\ PollerOK(pollers[p])
  BY PollersOK DEF SInv, Seen, Polled, PollQuery, PollTypes
<1>2. PICK since, T : since = pollers[p].since /\ T = Oldest(Due(since))
  OBVIOUS
<1>3. T \in SUBSET Event /\ since \in Nat
  BY <1>1, <1>2 DEF Oldest, Due, SInv, RecordTypes, PollerType
<1>4. PICK d : d = [pollers[p] EXCEPT !.pc = "advance", !.todo = T]
  OBVIOUS
<1>5. /\ d \in PollerType /\ d.pc = "advance" /\ d.now = pollers[p].now /\ d.since = since
      /\ d.todo = T
  BY <1>1, <1>2, <1>3, <1>4 DEF PollerType
<1>6. /\ pollers' = [pollers EXCEPT ![p] = d] /\ UNCHANGED <<clock, records, switch, lastTick, handled>>
      /\ overrun' = (overrun \/ Due(since) # T)
  BY <1>2, <1>4 DEF PollQuery, SInv, PollTypes
<1>7. CASE overrun'
  <2>1. /\ pollers'[p] = d /\ \A q \in Poller : q # p => pollers'[q] = pollers[q]
    BY <1>1, <1>5, <1>6, PollerMoves DEF handled
  <2>2. Times'
    BY <1>1, <1>2, <1>5, <1>6, <2>1 DEF Times, records, switch
  <2>3. Polled'
    BY <1>1, <1>5, <1>6, <1>7, <2>1 DEF Polled, records
  <2> QED  BY <1>7, <2>2, <2>3 DEF PunctualPolled
<1>8. CASE ~overrun'
  <2>1. overrun = FALSE /\ overrun' = FALSE /\ Due(since) = T
    BY <1>6, <1>8 DEF SInv, FlagTypes
  <2>2. ASSUME NEW e \in punctual, startedAt < created[e], created[e] <= pollers[p].now
        PROVE  Handed(e) \/ e \in T
    <3>1. CASE created[e] <= since
      BY <1>1, <1>2, <2>1, <2>2, <3>1 DEF PollerOK
    <3>2. CASE ~(created[e] <= since)
      <4>1. created[e] > since /\ e \in stored
        BY <1>1, <1>3, <3>2 DEF Polled, SInv, RecordTypes
      <4> QED  BY <2>1, <4>1 DEF Due
    <3> QED  BY <3>1, <3>2
  <2>3. PollerOK(d)
    BY <1>1, <1>2, <1>5, <2>2 DEF PollerOK
  <2> QED  BY <1>1, <1>5, <1>6, <2>1, <2>3, PollerStep DEF switch, handled
<1> QED  BY <1>7, <1>8

LEMMA GivesUp ==
  ASSUME SInv, NEW p \in Poller, PollError(p) \/ PollDone(p) \/ PollCancelled(p)
  PROVE  Times' /\ Polled' /\ PunctualPolled'
<1>1. PICK d \in {Idle, [Idle EXCEPT !.pc = "waiting"]} : pollers' = [pollers EXCEPT ![p] = d]
  BY DEF PollError, PollDone, PollCancelled
<1>2. d \in PollerType /\ d.pc \in {"idle", "waiting"} /\ d.now = 0 /\ d.since = 0 /\ d.todo = {}
  BY <1>1 DEF Idle, PollerType
<1>3. pollers[p].todo = {} /\ UNCHANGED <<clock, records, switch, lastTick, overrun, handled>>
  BY DEF PollError, PollDone, PollCancelled, SInv, Seen, Polled
<1>4. PollerOK(d)
  BY <1>2 DEF PollerOK, SInv, PollTypes
<1> QED  BY <1>1, <1>2, <1>3, <1>4, PollerStep DEF switch, handled

\* lastPollTime is set to the time of the tick, up to which all is in hand.
LEMMA Advances == ASSUME SInv, NEW p \in Poller, PollAdvance(p) PROVE Times' /\ Polled' /\ PunctualPolled'
<1>1. /\ Times /\ Polled /\ PunctualPolled /\ pollers[p].pc = "advance"
      /\ pollers[p] \in PollerType /\ PollerOK(pollers[p])
  BY PollersOK DEF SInv, Seen, PollAdvance, PollTypes
<1>2. PICK d : d = [pollers[p] EXCEPT !.pc = "events"]
  OBVIOUS
<1>3. /\ d \in PollerType /\ d.pc = "events" /\ d.now = pollers[p].now /\ d.since = pollers[p].since
      /\ d.todo = pollers[p].todo
  BY <1>1, <1>2 DEF PollerType
<1>4. /\ pollers' = [pollers EXCEPT ![p] = d] /\ lastPollTime' = pollers[p].now
      /\ UNCHANGED <<clock, records, startedAt, lastTick, overrun, handled>>
  BY <1>2 DEF PollAdvance, PolledUpTo, SInv, PollTypes
<1>5. /\ \A e : Handed(e) => Handed(e)'
      /\ pollers'[p] = d /\ \A q \in Poller : q # p => pollers'[q] = pollers[q]
  BY <1>3, <1>4, PollerMoves DEF handled
<1>6. Times'
  <2>1. pollers[p].now <= lastTick /\ pollers[p].now <= clock
    BY <1>1 DEF Times, SInv, RecordTypes, PollTypes, PollerType
  <2> QED  BY <1>1, <1>3, <1>4, <1>5, <2>1 DEF Times, records
<1>7. Polled'
  BY <1>1, <1>3, <1>4, <1>5 DEF Polled, records
<1>8. PunctualPolled'
  <2>1. ASSUME ~overrun, NEW e \in punctual, created[e] > startedAt, created[e] <= pollers[p].now
        PROVE  Handed(e)
    <3>1. startedAt < created[e]
      BY <2>1 DEF SInv, RecordTypes, PollTypes
    <3> QED  BY <1>1, <2>1, <3>1 DEF Polled
  <2> QED  BY <1>4, <1>5, <2>1 DEF PunctualPolled, Handed, records
<1> QED  BY <1>6, <1>7, <1>8

LEMMA Polls == ASSUME SInv, NEW p \in Poller, PollEvent(p) PROVE Times' /\ Polled' /\ PunctualPolled'
<1>1. /\ pollers[p].pc = "events" /\ pollers[p] \in PollerType /\ PollerOK(pollers[p])
  BY PollersOK DEF SInv, PollEvent, PollTypes
<1>2. PICK e \in pollers[p].todo : /\ pollers' = [pollers EXCEPT ![p].todo = @ \ {e}]
                                   /\ recentEvents' = recentEvents \cup {e}
  BY DEF PollEvent
<1>3. PICK d : d = [pollers[p] EXCEPT !.todo = @ \ {e}]
  OBVIOUS
<1>4. /\ d \in PollerType /\ d.pc = "events" /\ d.now = pollers[p].now /\ d.since = pollers[p].since
      /\ d.todo = pollers[p].todo \ {e}
  BY <1>1, <1>3 DEF PollerType
<1>5. pollers' = [pollers EXCEPT ![p] = d]
  BY <1>2, <1>3 DEF SInv, PollTypes
<1>6. PollerOK(d)
  BY <1>1, <1>4 DEF PollerOK
<1> QED  BY <1>2, <1>4, <1>5, <1>6, PollerStep DEF PollEvent, switch

LEMMA SeenStep == SInv /\ [Next]_vars => Seen'
<1> SUFFICES ASSUME SInv, [Next]_vars PROVE Seen'
  OBVIOUS
<1>1. Recorded' /\ Counted'
  BY RecordedStep, CountedStep DEF SInv, Seen
<1>2. ASSUME Times' /\ Polled' /\ PunctualPolled' PROVE Seen'
  BY <1>1, <1>2 DEF Seen
<1>3. ASSUME NEW s \in Sub, StartPolling(s) PROVE Seen'
  BY <1>2, <1>3, PollingStarts
<1>4. ASSUME \/ \E s \in Sub : \/ Subscribe(s) \/ Unsubscribe(s) \/ StopPolling(s) \/ Receive(s)
                               \/ Close(s)
             \/ \E k \in casts : Send(k) \/ Sent(k)
             \/ Shutdown \/ UNCHANGED vars
      PROVE  Seen'
  BY <1>4, AsideStep, Undisturbed
<1>5. ASSUME \/ \E e \in Event : Record(e) \/ Enqueue(e)
             \/ Take
             \/ \E e \in saving : Save(e)
      PROVE  Seen'
  BY <1>2, <1>5, RecordsPolled
<1>6. ASSUME NEW p \in Poller,
             \/ PollTick(p) \/ PollSince(p) \/ PollQuery(p) \/ PollError(p) \/ PollAdvance(p)
             \/ PollEvent(p) \/ PollDone(p) \/ PollCancelled(p)
      PROVE  Seen'
  BY <1>2, <1>6, Ticks, Sinces, Queries, GivesUp, Advances, Polls
<1> QED  BY <1>3, <1>4, <1>5, <1>6 DEF Next

-----------------------------------------------------------------------------
LEMMA Starts == Init => IInv
<1> SUFFICES ASSUME Init PROVE IInv
  OBVIOUS
<1>1. subscribers = Nil /\ mem = <<>> /\ casts = {} /\ queue = <<>> /\ punctual = {}
  BY DEF Init
<1>2. RecordTypes
  BY CapacityAssumption DEF Init, RecordTypes
<1>3. PollTypes /\ FlagTypes
  BY DEF Init, PollTypes, FlagTypes, PollerType, Idle
<1>4. StreamTypes /\ SliceTypes
  BY <1>1, NilIs, CapacityAssumption DEF Init, StreamTypes, SliceTypes
<1>5. Joined
  <2>1. SlicesOK /\ SnapshotStable
    BY <1>1, NilIs DEF SlicesOK, SnapshotStable
  <2>2. ExactSubscribers
    BY <1>1, NilIs DEF Init, ExactSubscribers, Subscribed
  <2>3. LazyPolling
    BY DEF Init, LazyPolling
  <2> QED  BY <2>1, <2>2, <2>3 DEF Joined
<1>6. Seen
  <2>1. Recorded
    BY <1>1 DEF Init, Recorded
  <2>2. Times
    BY DEF Init, Times, Idle
  <2>3. Polled /\ PunctualPolled
    BY <1>1 DEF Init, Polled, PunctualPolled, Idle
  <2>4. Counted
    BY DEF Init, Counted
  <2> QED  BY <2>1, <2>2, <2>3, <2>4 DEF Seen
<1> QED  BY <1>2, <1>3, <1>4, <1>5, <1>6, TypesAre DEF IInv

LEMMA IInvStep == IInv /\ [Next]_vars => IInv'
<1> SUFFICES ASSUME IInv, [Next]_vars PROVE IInv'
  OBVIOUS
<1>1. RecordTypes /\ PollTypes /\ FlagTypes /\ StreamTypes /\ SliceTypes
  BY TypesAre DEF IInv
<1>2. RecordTypes' /\ PollTypes' /\ FlagTypes'
  BY <1>1, RecordTypesStep, PollTypesStep, FlagTypesStep
<1>3. SliceTypes' /\ StreamTypes' /\ Joined'
  BY <1>1, JoinedStep DEF IInv, JInv
<1>4. Seen'
  BY <1>1, SeenStep DEF IInv, SInv
<1>5. TypeOK'
  BY <1>2, <1>3 DEF TypeOK, RecordTypes, PollTypes, FlagTypes, StreamTypes, SliceTypes, PollerType,
                    CastType
<1> QED  BY <1>3, <1>4, <1>5 DEF IInv

LEMMA Invariant == Spec => []IInv
BY Starts, IInvStep, PTL DEF Spec

\* Every variable keeps its type, and every channel and queue its capacity.
THEOREM TypeCorrect == Spec => []TypeOK
BY Invariant, PTL DEF IInv

\* In whatever order streams subscribe, leave, and switch the polling on and off,
\* the slice of subscribers has each stream that joined and did not leave, once,
\* though it is appended to and shifted in place (Subscribe, Unsubscribe).
THEOREM SubscribersExact == Spec => []ExactSubscribers
<1>1. IInv => ExactSubscribers
  BY DEF IInv, Joined
<1> QED  BY <1>1, Invariant, PTL

\* Streams that join do not disturb a broadcast that has read the slice before:
\* append writes behind its length, or to another array (broadcast).
THEOREM BroadcastsStable == Spec => []SnapshotStable
<1>1. IInv => SnapshotStable
  BY DEF IInv, Joined
<1> QED  BY <1>1, Invariant, PTL

\* When the last stream has gone and its handler returned, the polling is off,
\* for any number of streams (Unsubscribe, stopPolling).
THEOREM PollingIsLazy == Spec => []LazyPolling
<1>1. IInv => LazyPolling
  BY DEF IInv, Joined
<1> QED  BY <1>1, Invariant, PTL

\* However many poll goroutines there are, they broadcast an event at most once
\* (shouldProcess).
THEOREM PolledAtMostOnce == Spec => []PolledOnce
<1>1. Counted => PolledOnce
  BY DEF Counted, PolledOnce
<1> QED  BY <1>1, Invariant, PTL DEF IInv, Seen

\* An event that was stored before the first tick after its creation is not passed
\* by lastPollTime, however many poll goroutines set it, in any order, unless a
\* query met its limit (poll).
THEOREM PunctualIsPolled == Spec => []PunctualPolled
<1>1. IInv => PunctualPolled
  BY DEF IInv, Seen
<1> QED  BY <1>1, Invariant, PTL
=============================================================================
