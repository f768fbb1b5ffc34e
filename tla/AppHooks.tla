------------------------------ MODULE AppHooks -------------------------------
(***************************************************************************)
(* Start and stop of the server: New opens the database, Redis and the     *)
(* event workers, Run starts the queue and the HTTP server; a signal, a    *)
(* crash of the HTTP server, or a start that fails stops what there is, in *)
(* reverse and within the grace period.  Requests, jobs and event workers  *)
(* use what was opened before them.                                        *)
(***************************************************************************)
EXTENDS Naturals, Sequences

CONSTANT MaxWork   \* bound: requests, and jobs, in progress

ASSUME AppAssumption == MaxWork \in Nat

Hook  == <<"database", "redis", "events", "queue", "http">>
Opens == {"database", "redis", "events"}   \* opened by New

VARIABLES
  phase,    \* "new", "start", "run", "stop" or "over"
  hook,     \* the hook that comes next, in either direction
  on,       \* what was opened or started and not stopped
  work,     \* work[h]: event workers, jobs and requests in progress
  draining,  \* the hook that stops waits for its work
  grace,    \* the grace period lasts
  ended     \* why the server stops: nothing, "signal", "crash"

appVars == <<phase, hook, on, work, draining, grace, ended>>

Working(h) == h \in DOMAIN work /\ work[h] > 0

-----------------------------------------------------------------------------
\* New; when a step fails, deferred cleanups close what was opened, in reverse.
Open ==
  /\ phase = "new" /\ Hook[hook] \in Opens
  /\ \/ /\ on' = on \cup {Hook[hook]} /\ hook' = hook + 1 /\ UNCHANGED phase
        /\ work' = IF Hook[hook] = "events" THEN [work EXCEPT !["events"] = 1] ELSE work
     \/ phase' = "stop" /\ hook' = hook - 1 /\ UNCHANGED <<on, work>>
  /\ UNCHANGED <<draining, grace, ended>>

\* buildHTTPServer; Run begins with the hooks that have a Start.
Build ==
  /\ phase = "new" /\ Hook[hook] \notin Opens
  /\ \/ phase' = "start" /\ UNCHANGED hook
     \/ phase' = "stop" /\ hook' = hook - 1
  /\ UNCHANGED <<on, work, draining, grace, ended>>

\* A hook that fails is not stopped, those before it are.
StartHook ==
  /\ phase = "start"
  /\ \/ /\ on' = on \cup {Hook[hook]}
        /\ IF hook = Len(Hook) THEN phase' = "run" /\ UNCHANGED hook
           ELSE hook' = hook + 1 /\ UNCHANGED phase
     \/ Hook[hook] = "queue" /\ phase' = "stop" /\ hook' = hook - 1 /\ UNCHANGED on
  /\ UNCHANGED <<work, draining, grace, ended>>

\* The context of the command is done, at any time, or ListenAndServe fails (the
\* port was taken after findAvailablePort released it).
Signal ==
  /\ ended = "nothing" /\ ended' = "signal"
  /\ UNCHANGED <<phase, hook, on, work, draining, grace>>

Crash ==
  /\ "http" \in on /\ on' = on \ {"http"}
  /\ ended' = IF ended = "nothing" THEN "crash" ELSE ended
  /\ UNCHANGED <<phase, hook, work, draining, grace>>

EndRun ==
  /\ phase = "run" /\ ended # "nothing" /\ phase' = "stop"
  /\ UNCHANGED <<hook, on, work, draining, grace, ended>>

-----------------------------------------------------------------------------
\* stop: the HTTP server accepts no more requests, the queue takes no more jobs,
\* the event workers' context is cancelled; each waits for its work.  FromFirst
\* is a faulty variant: the order of the start.
FromFirst(i) == Len(Hook) + 1 - i
Stopped(i)   == i
StopHook ==
  LET h == Hook[Stopped(hook)] IN
  /\ phase = "stop" /\ hook > 0 /\ ~draining
  /\ on' = on \ {h}
  /\ IF h \in DOMAIN work THEN draining' = TRUE /\ UNCHANGED hook
     ELSE hook' = hook - 1 /\ UNCHANGED draining
  /\ UNCHANGED <<phase, work, grace, ended>>

\* ... but not longer than the grace period (the workers: five seconds).
Waited ==
  /\ draining /\ (Working(Hook[Stopped(hook)]) => ~grace)
  /\ draining' = FALSE /\ hook' = hook - 1
  /\ UNCHANGED <<phase, on, work, grace, ended>>

GraceEnds ==
  /\ phase = "stop" /\ grace /\ grace' = FALSE
  /\ UNCHANGED <<phase, hook, on, work, draining, ended>>

Return ==
  /\ phase = "stop" /\ hook = 0 /\ phase' = "over"
  /\ UNCHANGED <<hook, on, work, draining, grace, ended>>

-----------------------------------------------------------------------------
\* A request or a job; the queue takes no job when the context is done.
BeginWork(h) ==
  /\ h \in on /\ h # "events" /\ (h = "queue" => ended # "signal")
  /\ work[h] < MaxWork /\ work' = [work EXCEPT ![h] = @ + 1]
  /\ UNCHANGED <<phase, hook, on, draining, grace, ended>>

\* Event workers end when their context is done.
EndWork(h) ==
  /\ Working(h) /\ (h = "events" => h \notin on \/ ended = "signal")
  /\ work' = [work EXCEPT ![h] = @ - 1]
  /\ UNCHANGED <<phase, hook, on, draining, grace, ended>>

-----------------------------------------------------------------------------
AppInit ==
  /\ phase = "new" /\ hook = 1 /\ on = {} /\ work = [h \in {"events", "queue", "http"} |-> 0]
  /\ draining = FALSE /\ grace = TRUE /\ ended = "nothing"

AppNext ==
  \/ Open \/ Build \/ StartHook \/ Signal \/ Crash \/ EndRun
  \/ StopHook \/ Waited \/ GraceEnds \/ Return
  \/ \E h \in DOMAIN work : BeginWork(h) \/ EndWork(h)

-----------------------------------------------------------------------------
\* However the program ends, what it opened is closed, and nothing is closed
\* under a request, a job or a worker that uses it before the time for them to
\* end is over.
ClosedAfterUse ==
  /\ phase = "over" => on = {}
  /\ grace => /\ Working("events") => {"database", "redis"} \subseteq on
              /\ Working("queue") \/ Working("http") => Opens \subseteq on
=============================================================================
