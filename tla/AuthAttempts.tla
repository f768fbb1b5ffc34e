---------------------------- MODULE AuthAttempts -----------------------------
(***************************************************************************)
(* One attempt to log in to Telegram: requests put commands in its queue,  *)
(* a worker runs them one by one, clients poll its state, and timers       *)
(* remove it.  An attempt ends by its time to live, by the client, after   *)
(* it succeeded, or when the connection fails.                             *)
(***************************************************************************)
EXTENDS Naturals, Sequences

CONSTANTS
  Slot,       \* requests in progress at a time
  QueueCap,   \* capacity of the queue of commands (8 in the code)
  Requests    \* bound: requests after the first

ASSUME AttemptAssumption == QueueCap \in Nat \ {0} /\ Requests \in Nat

Command == {"send", "signin", "password"}

VARIABLES
  attempt,  \* [there, state, session]: in the manager's map, what is shown
  worker,   \* "none", "idle", a command being run, "stopping", "over"
  queue,    \* commands waiting
  ctx,      \* "none", "live", "cancelled" or "deadline"
  done,     \* the attempt was closed
  timers,   \* cleanups that wait for their timer, and that marked the attempt
  slot,     \* slot[r]: [st, cmd]
  requests  \* requests still to come

atVars == <<attempt, worker, queue, ctx, done, timers, slot, requests>>

FreeSlotOf == [st |-> "free", cmd |-> "none"]

Shown(state) == attempt' = [attempt EXCEPT !.state = state]

\* close, once: cancels the context and closes done.
Closed ==
  /\ done' = TRUE
  /\ ctx' = IF ctx = "live" THEN "cancelled" ELSE ctx

-----------------------------------------------------------------------------
(* Requests.                                                               *)

\* AuthCreateAttempt: a QR login, or a code to be sent, or nothing yet.
CreateAttempt ==
  /\ worker = "none"
  /\ attempt' = [there |-> TRUE, state |-> "created", session |-> FALSE]
  /\ ctx' = "live" /\ worker' = "idle"
  /\ \E first \in {<<"qr">>, <<"send">>, <<>>} : queue' = first
  /\ UNCHANGED <<done, timers, slot, requests>>

\* AuthSendCode, AuthSignIn, AuthPassword and AuthDeleteAttempt look it up ...
BeginRequest(r, cmd) ==
  /\ slot[r].st = "free" /\ requests > 0 /\ requests' = requests - 1
  /\ attempt.there
  /\ slot' = [slot EXCEPT ![r] = [st |-> "found", cmd |-> cmd]]
  /\ UNCHANGED <<attempt, worker, queue, ctx, done, timers>>

\* ... and then put the command in the queue, waiting for room; when the
\* attempt is closed as well, the select takes either.
\* (Unbounded is a faulty variant.)
Unbounded == TRUE
HasRoom   == Len(queue) < QueueCap
Enqueue(r) ==
  /\ slot[r].st = "found" /\ slot[r].cmd \in Command
  /\ \/ done /\ UNCHANGED queue
     \/ HasRoom /\ queue' = Append(queue, slot[r].cmd)
  /\ slot' = [slot EXCEPT ![r] = FreeSlotOf]
  /\ UNCHANGED <<attempt, worker, ctx, done, timers, requests>>

DeleteAttempt(r) ==
  /\ slot[r].st = "found" /\ slot[r].cmd = "delete"
  /\ IF attempt.there THEN attempt' = [attempt EXCEPT !.there = FALSE] /\ Closed
     ELSE UNCHANGED <<attempt, ctx, done>>
  /\ slot' = [slot EXCEPT ![r] = FreeSlotOf]
  /\ UNCHANGED <<worker, queue, timers, requests>>

-----------------------------------------------------------------------------
(* The worker.                                                             *)

TakeCommand ==
  /\ worker = "idle" /\ queue # <<>>
  /\ worker' = Head(queue) /\ queue' = Tail(queue)
  /\ UNCHANGED <<attempt, ctx, done, timers, slot, requests>>

Running == worker \in Command \cup {"qr"}

\* Every QR token is published, the command goes on.
QRToken ==
  /\ worker = "qr" /\ ctx = "live" /\ attempt.state # "qr_pending" /\ Shown("qr_pending")
  /\ UNCHANGED <<worker, queue, ctx, done, timers, slot, requests>>

\* Telegram answers.  A user who is not allowed, or a session that cannot be
\* read, fails like any other error.
Answer(state) ==
  /\ Running /\ ctx # "cancelled" /\ Shown(state) /\ worker' = "idle"
  /\ UNCHANGED <<queue, ctx, done, timers, slot, requests>>
CodeSent == worker = "send" /\ Answer("code_sent")
PasswordRequired == worker \in {"qr", "signin"} /\ Answer("password_required")
CommandFails == Running /\ Answer("failed")

\* A cleanup in a minute; NoCleanup is a faulty variant.
NoCleanup(t) == t
Scheduled(t) == [t EXCEPT !.due = @ + 1]

\* completeAuthAttempt.
Success ==
  /\ worker \in {"qr", "signin", "password"} /\ ctx = "live"
  /\ attempt' = [attempt EXCEPT !.state = "authenticated", !.session = TRUE]
  /\ timers' = Scheduled(timers)
  /\ worker' = "idle"
  /\ UNCHANGED <<queue, ctx, done, slot, requests>>

\* A cancelled command shows nothing.
CommandCancelled ==
  /\ Running /\ ctx = "cancelled" /\ worker' = "idle"
  /\ UNCHANGED <<attempt, queue, ctx, done, timers, slot, requests>>

\* Run returns: the context is done, or the connection failed.
RunReturns ==
  /\ worker # "none"
  /\ \/ worker = "idle" /\ ctx # "live" /\ UNCHANGED attempt
     \/ (worker = "idle" \/ Running) /\ ctx # "cancelled" /\ Shown("failed")
  /\ worker' = "stopping"
  /\ UNCHANGED <<queue, ctx, done, timers, slot, requests>>

\* The end of runAuthAttempt: a cleanup in a minute, then close.
WorkerEnds ==
  /\ worker = "stopping" /\ worker' = "over"
  /\ timers' = Scheduled(timers)
  /\ Closed
  /\ UNCHANGED <<attempt, queue, slot, requests>>

-----------------------------------------------------------------------------
(* Time.                                                                   *)

TimeToLive ==
  /\ ctx = "live" /\ ctx' = "deadline"
  /\ UNCHANGED <<attempt, worker, queue, done, timers, slot, requests>>

\* scheduleAttemptCleanup: marks an attempt that is still there as expired,
\* unless it succeeded, and then deletes it; a command may show its state in
\* between.
CleanupMark ==
  /\ timers.due > 0
  /\ timers' = [due |-> timers.due - 1, marked |-> timers.marked + 1]
  /\ IF attempt.there /\ attempt.state # "authenticated" THEN Shown("expired")
     ELSE UNCHANGED attempt
  /\ UNCHANGED <<worker, queue, ctx, done, slot, requests>>

CleanupDelete ==
  /\ timers.marked > 0 /\ timers' = [timers EXCEPT !.marked = @ - 1]
  /\ IF attempt.there THEN attempt' = [attempt EXCEPT !.there = FALSE] /\ Closed
     ELSE UNCHANGED <<attempt, ctx, done>>
  /\ UNCHANGED <<worker, queue, slot, requests>>

-----------------------------------------------------------------------------
AtInit ==
  /\ attempt = [there |-> FALSE, state |-> "created", session |-> FALSE]
  /\ worker = "none" /\ queue = <<>> /\ ctx = "none" /\ done = FALSE
  /\ timers = [due |-> 0, marked |-> 0] /\ slot = [r \in Slot |-> FreeSlotOf] /\ requests = Requests

AtNext ==
  \/ CreateAttempt
  \/ \E r \in Slot : \/ \E cmd \in Command \cup {"delete"} : BeginRequest(r, cmd)
                     \/ Enqueue(r) \/ DeleteAttempt(r)
  \/ TakeCommand \/ QRToken \/ CodeSent \/ PasswordRequired \/ CommandFails
  \/ Success \/ CommandCancelled \/ RunReturns \/ WorkerEnds
  \/ TimeToLive \/ CleanupMark \/ CleanupDelete

\* Timers fire, the worker runs when it can, and a command ends when its context
\* is done (CommandFails after the deadline); Telegram need not answer otherwise.
AtFairness ==
  /\ WF_atVars(TimeToLive) /\ WF_atVars(CleanupMark) /\ WF_atVars(CleanupDelete)
  /\ WF_atVars(RunReturns /\ ctx # "live") /\ WF_atVars(WorkerEnds)
  /\ WF_atVars(CommandCancelled)
  /\ \A r \in Slot : WF_atVars(Enqueue(r)) /\ WF_atVars(DeleteAttempt(r))

AtSpec == AtInit /\ [][AtNext]_atVars /\ AtFairness

-----------------------------------------------------------------------------
\* Every attempt leaves the map in the end, and every request to it is answered,
\* though Telegram may never answer and the queue may be full (the time to live,
\* and the cleanup after Run returned).
AttemptsEnd ==
  /\ attempt.there ~> ~attempt.there
  /\ \A r \in Slot : slot[r].st = "found" ~> slot[r].st = "free"
=============================================================================
