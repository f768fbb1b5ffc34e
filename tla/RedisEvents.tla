---------------------------- MODULE RedisEvents ------------------------------
(***************************************************************************)
(* Event delivery with several instances of the program: Record queues the *)
(* event for the database and publishes it through Redis from a goroutine; *)
(* every instance, the one that recorded it as well, is given what is      *)
(* published while it is connected, drops what it has seen before, and     *)
(* hands the rest to its streams.  One user, one stream per instance.      *)
(***************************************************************************)
EXTENDS Naturals, Sequences, FiniteSets

CONSTANTS
  Instance,   \* instances of the program
  Event,      \* events, each recorded once
  InboxSize,  \* messages go-redis keeps for the subscriber (100)
  StreamSize, \* capacity of a stream's channel (100)
  QueueSize,  \* capacity of dbWorkerCh (1000)
  Trouble     \* bound: publications repeated, connections and streams lost, stops

ASSUME RedisAssumption ==
  {InboxSize, StreamSize, QueueSize} \subseteq Nat \ {0} /\ Trouble \in Nat

VARIABLES
  origin,   \* origin[e]: instances that recorded the event, none or one
  publish,  \* events whose goroutine publishes
  link,     \* instances subscribed at Redis
  inbox,    \* inbox[i]: messages that arrived and were not looked at
  recent,   \* recent[i]: ids seen by shouldProcess
  joined,   \* instances with a stream
  channel,  \* channel[i]: events in the stream's channel
  got,      \* history: got[i][e], times the stream's channel took the event
  waiting,  \* waiting[i]: dbWorkerCh
  saved,    \* events in the table
  down,     \* instances that were shut down
  trouble   \* trouble still to come

reVars == <<origin, publish, link, inbox, recent, joined, channel, got, waiting, saved,
            down, trouble>>

-----------------------------------------------------------------------------
\* Record: a full queue loses the row, not the message.
Record(i, e) ==
  /\ origin[e] = {} /\ i \notin down
  /\ origin' = [origin EXCEPT ![e] = {i}] /\ publish' = publish \cup {e}
  /\ waiting' = IF Len(waiting[i]) < QueueSize THEN [waiting EXCEPT ![i] = Append(@, e)]
                ELSE waiting
  /\ UNCHANGED <<link, inbox, recent, joined, channel, got, saved, down, trouble>>

\* The message goes to every instance that is subscribed and has room; when the
\* answer is lost, the client of Redis sends the command again.
Delivered(e) ==
  inbox' = [i \in Instance |-> IF i \in link /\ Len(inbox[i]) < InboxSize
                               THEN Append(inbox[i], e) ELSE inbox[i]]
Publish(e) ==
  /\ e \in publish /\ origin[e] \cap down = {} /\ Delivered(e)
  /\ \/ publish' = publish \ {e} /\ UNCHANGED trouble
     \/ trouble > 0 /\ trouble' = trouble - 1 /\ UNCHANGED publish
  /\ UNCHANGED <<origin, link, recent, joined, channel, got, waiting, saved, down>>

PublishFails(e) ==
  /\ e \in publish /\ publish' = publish \ {e}
  /\ UNCHANGED <<origin, link, inbox, recent, joined, channel, got, waiting, saved, down, trouble>>

\* subscribe: connects, now or after the delay; a lost connection loses what is
\* published meanwhile.
Connect(i) ==
  /\ i \notin link \cup down /\ link' = link \cup {i}
  /\ UNCHANGED <<origin, publish, inbox, recent, joined, channel, got, waiting, saved, down, trouble>>

LoseConnection(i) ==
  /\ trouble > 0 /\ trouble' = trouble - 1
  /\ i \in link /\ link' = link \ {i}
  /\ UNCHANGED <<origin, publish, inbox, recent, joined, channel, got, waiting, saved, down>>

\* shouldProcess, then broadcast: a full channel loses the event for its stream.
\* Anything is a faulty variant.
Anything(i, e)      == TRUE
ShouldProcess(i, e) == e \notin recent[i]
Receive(i) ==
  LET e    == Head(inbox[i])
      sent == /\ ShouldProcess(i, e) /\ i \in joined /\ Len(channel[i]) < StreamSize IN
  /\ i \notin down /\ inbox[i] # <<>>
  /\ inbox' = [inbox EXCEPT ![i] = Tail(@)]
  /\ recent' = [recent EXCEPT ![i] = @ \cup {e}]
  /\ channel' = IF sent THEN [channel EXCEPT ![i] = Append(@, e)] ELSE channel
  /\ got' = IF sent THEN [got EXCEPT ![i][e] = @ + 1] ELSE got
  /\ UNCHANGED <<origin, publish, link, joined, waiting, saved, down, trouble>>

Join(i) ==
  /\ i \notin joined \cup down /\ joined' = joined \cup {i}
  /\ channel' = [channel EXCEPT ![i] = <<>>]
  /\ got' = [got EXCEPT ![i] = [e \in Event |-> 0]]
  /\ UNCHANGED <<origin, publish, link, inbox, recent, waiting, saved, down, trouble>>

Leave(i) ==
  /\ trouble > 0 /\ trouble' = trouble - 1
  /\ i \in joined /\ joined' = joined \ {i}
  /\ UNCHANGED <<origin, publish, link, inbox, recent, channel, got, waiting, saved, down>>

StreamSends(i) ==
  /\ i \in joined /\ channel[i] # <<>> /\ channel' = [channel EXCEPT ![i] = Tail(@)]
  /\ UNCHANGED <<origin, publish, link, inbox, recent, joined, got, waiting, saved, down, trouble>>

\* dbWorker: the row, or an error that is logged.
SaveEvent(i) ==
  /\ i \notin down /\ waiting[i] # <<>> /\ waiting' = [waiting EXCEPT ![i] = Tail(@)]
  /\ saved' \in {saved, saved \cup {Head(waiting[i])}}
  /\ UNCHANGED <<origin, publish, link, inbox, recent, joined, channel, got, down, trouble>>

\* Shutdown: the context is cancelled, what waits is lost.
StopInstance(i) ==
  /\ trouble > 0 /\ trouble' = trouble - 1
  /\ i \notin down /\ down' = down \cup {i} /\ link' = link \ {i} /\ joined' = joined \ {i}
  /\ inbox' = [inbox EXCEPT ![i] = <<>>]
  /\ UNCHANGED <<origin, publish, recent, channel, got, waiting, saved>>

-----------------------------------------------------------------------------
ReInit ==
  /\ origin = [e \in Event |-> {}] /\ publish = {} /\ link = {}
  /\ inbox = [i \in Instance |-> <<>>] /\ recent = [i \in Instance |-> {}]
  /\ joined = {} /\ channel = [i \in Instance |-> <<>>]
  /\ got = [i \in Instance |-> [e \in Event |-> 0]]
  /\ waiting = [i \in Instance |-> <<>>] /\ saved = {} /\ down = {} /\ trouble = Trouble

ReNext ==
  \/ \E i \in Instance :
       \/ \E e \in Event : Record(i, e)
       \/ Connect(i) \/ LoseConnection(i) \/ Receive(i) \/ Join(i) \/ Leave(i)
       \/ StreamSends(i) \/ SaveEvent(i) \/ StopInstance(i)
  \/ \E e \in Event : Publish(e) \/ PublishFails(e)

ReSpec == ReInit /\ [][ReNext]_reVars

-----------------------------------------------------------------------------
\* A stream gets an event at most once, though its message may come several
\* times, and on the recording instance too; what a stream got is what its
\* instance has seen (shouldProcess before broadcast).
StreamedOnce ==
  \A i \in Instance, e \in Event : got[i][e] <= 1 /\ (got[i][e] = 1 => e \in recent[i])
=============================================================================
