---------------------------- MODULE PeriodicJobs -----------------------------
(***************************************************************************)
(* The periodic jobs of one user: their table, and River's registry of     *)
(* what to insert when, which every request brings up to date after it     *)
(* wrote the table, and which is built from the table when the program     *)
(* starts.  A request reads the row, writes it, and then changes the       *)
(* registry with the row it has in hand.                                   *)
(***************************************************************************)
EXTENDS Naturals, FiniteSets

CONSTANTS
  Preset,      \* jobs every user has
  SyncJob,     \* jobs the user creates
  Cron,        \* schedules with arguments
  Outdated,    \* those whose arguments an earlier version of the program wrote
  Default,     \* what the program gives a preset
  NoJob,       \* no row, nothing registered
  Client,      \* requests in progress at a time
  JobRequests  \* bound: requests and restarts

ASSUME PeriodicAssumption == /\ Preset \cap SyncJob = {} /\ NoJob \notin Cron
                             /\ NoJob \notin [cron : Cron, enabled : BOOLEAN]
                             /\ Outdated \subseteq Cron /\ Default \in Cron \ Outdated
                             /\ JobRequests \in Nat

VARIABLES
  row,      \* row[j]: [cron, enabled] in the table, or NoJob
  registry, \* registry[j]: what River inserts for the job, or NoJob
  client,   \* client[p]: [op, st, job, seen], seen being the row in hand
  mixed,    \* history: jobs on which the latest requests overlapped
  off,      \* history: jobs left by such requests, or by one that failed half way
  budget    \* requests and restarts still to come

pjVars == <<row, registry, client, mixed, off, budget>>

Job == Preset \cup SyncJob
Resting == [op |-> "none", st |-> "idle", job |-> NoJob, seen |-> NoJob]
Busy(j) == {p \in Client : client[p].st # "idle" /\ client[p].job = j}

\* normalizePeriodicJobArgs, of the arguments of every row that is read, and of
\* those that River inserts.
Normal(j, c) == IF j \in Preset /\ c \in Outdated THEN Default ELSE c
AsRead(j) == [row[j] EXCEPT !.cron = Normal(j, @)]

\* What River inserts for a job with this row.
Runtime(j, r) == IF r.enabled THEN Normal(j, r.cron) ELSE NoJob

\* The rows that PeriodicJobsCreate and insertPeriodicPreset may insert, and the
\* schedules and arguments that a request may write in place of those of a row.
Made(j) == [cron : IF j \in Preset THEN {Default} ELSE Cron \ Outdated,
            enabled : IF j \in Preset THEN {TRUE} ELSE BOOLEAN]
Writable(c) == (Cron \ Outdated) \cup {c}

Takes(p, st, seen) == client' = [client EXCEPT ![p].st = st, ![p].seen = seen]
Rests(p)  == client' = [client EXCEPT ![p] = Resting]
Breaks(p) == Rests(p) /\ off' = off \cup {client[p].job}

-----------------------------------------------------------------------------
BeginRequestOn(p, op, j) ==
  /\ client[p].st = "idle" /\ budget > 0 /\ budget' = budget - 1
  /\ client' = [client EXCEPT ![p] = [Resting EXCEPT !.op = op, !.job = j,
                                        !.st = IF op = "create" THEN "insert" ELSE "read"]]
  /\ IF Busy(j) = {} THEN mixed' = mixed \ {j} /\ UNCHANGED off
                     ELSE mixed' = mixed \cup {j} /\ off' = off \cup {j}
  /\ UNCHANGED <<row, registry>>

\* PeriodicJobsCreate; Update, Enable, Disable and Delete; and
\* ensureDefaultPeriodicJobs, at a login and whenever the jobs are listed.
BeginJobRequest(p) ==
  \/ \E j \in SyncJob : row[j] = NoJob /\ Busy(j) = {} /\ BeginRequestOn(p, "create", j)
  \/ \E j \in Job, op \in {"update", "enable", "disable"} : BeginRequestOn(p, op, j)
  \/ \E j \in SyncJob : BeginRequestOn(p, "delete", j)
  \/ \E j \in Preset : BeginRequestOn(p, "ensure", j)

\* getPeriodicJobRow and getPeriodicJobByName.  The arguments in hand are those of
\* today, so that ensurePeriodicPresetArgs never finds any to write.
ReadRow(p) ==
  LET q == client[p] IN
  /\ q.st = "read"
  /\ \/ /\ row[q.job] # NoJob
        /\ Takes(p, CASE q.op = "delete" -> "unregister"
                      [] q.op = "ensure" -> "sync"
                      [] OTHER           -> "write", AsRead(q.job))
     \/ row[q.job] = NoJob /\ q.op = "ensure" /\ Takes(p, "insert", NoJob)
     \/ Rests(p)      \* not found, or the database fails
  /\ UNCHANGED <<row, registry, mixed, off, budget>>

\* The insert fails when another request made the job meanwhile; the new row
\* is read again before it is registered.
InsertRow(p) ==
  LET j == client[p].job IN
  /\ client[p].st = "insert"
  /\ \/ row[j] # NoJob /\ Rests(p) /\ UNCHANGED row
     \/ /\ row[j] = NoJob
        /\ \E new \in Made(j) : row' = [row EXCEPT ![j] = new]
        /\ Takes(p, "reread", NoJob)
  /\ UNCHANGED <<registry, mixed, off, budget>>

\* The row may be gone, and the database may fail, or the request be cut off,
\* before the new row is registered.
ReadAgain(p) ==
  LET j == client[p].job IN
  /\ client[p].st = "reread"
  /\ \/ row[j] = NoJob /\ Rests(p) /\ UNCHANGED off
     \/ row[j] # NoJob /\ Takes(p, "sync", AsRead(j)) /\ UNCHANGED off
     \/ Breaks(p)
  /\ UNCHANGED <<row, registry, mixed, budget>>

\* Update writes every column, SetEnabled one; neither asks whether the row is
\* still there.  A request that gives no arguments keeps those in hand.  The
\* request goes on to the registry, unless the answer to its write is lost.
Written(p, new) ==
  row' = IF row[client[p].job] = NoJob THEN row ELSE [row EXCEPT ![client[p].job] = new]
GoesOn(p, new) == \/ Takes(p, "sync", new) /\ UNCHANGED off
                  \/ Breaks(p)
WriteRow(p) ==
  LET q == client[p] IN
  /\ q.st = "write"
  /\ \/ /\ q.op = "update"
        /\ \E c \in Writable(q.seen.cron), e \in BOOLEAN :
             LET new == [cron |-> c, enabled |-> e] IN Written(p, new) /\ GoesOn(p, new)
     \/ /\ q.op \in {"enable", "disable"}
        /\ Written(p, [row[q.job] EXCEPT !.enabled = (q.op = "enable")])
        /\ GoesOn(p, [q.seen EXCEPT !.enabled = (q.op = "enable")])
     \/ Rests(p) /\ UNCHANGED <<row, off>>      \* the database fails
  /\ UNCHANGED <<registry, mixed, budget>>

\* syncPeriodicJobRegistry: adding a job that is registered removes it first.
\* Create and ensure leave the registry alone when the job is disabled.
\* Kept is a faulty variant.
Kept(old, new)     == IF old = NoJob THEN new ELSE old
Replaced(old, new) == new
KeepsAsIs(q) == q.op \in {"create", "ensure"} /\ ~q.seen.enabled
SyncRegistry(p) ==
  LET q == client[p] IN
  /\ q.st = "sync" /\ Rests(p)
  /\ registry' = [registry EXCEPT ![q.job] =
                    IF q.seen.enabled THEN Replaced(@, Runtime(q.job, q.seen))
                    ELSE IF KeepsAsIs(q) THEN @ ELSE NoJob]
  /\ off' = IF q.job \in mixed \/ KeepsAsIs(q) THEN off ELSE off \ {q.job}
  /\ UNCHANGED <<row, mixed, budget>>

\* PeriodicJobsDelete: the registry first, then the row, which may fail.
Unregister(p) ==
  /\ client[p].st = "unregister" /\ Takes(p, "delete", client[p].seen)
  /\ registry' = [registry EXCEPT ![client[p].job] = NoJob]
  /\ UNCHANGED <<row, mixed, off, budget>>

DeleteJob(p) ==
  LET j == client[p].job IN
  /\ client[p].st = "delete"
  /\ \/ /\ row' = [row EXCEPT ![j] = NoJob]
        /\ Rests(p) /\ off' = IF j \in mixed THEN off ELSE off \ {j}
     \/ Breaks(p) /\ UNCHANGED row
  /\ UNCHANGED <<registry, mixed, budget>>

\* RegisterPeriodicJobs, and the start of the program that calls it.
Registered(r) ==
  [j \in Job |-> IF r[j] = NoJob THEN NoJob ELSE Runtime(j, r[j])]
Restart ==
  /\ budget > 0 /\ budget' = budget - 1
  /\ registry' = Registered(row)
  /\ client' = [p \in Client |-> Resting]
  /\ mixed' = {} /\ off' = {}
  /\ UNCHANGED row

-----------------------------------------------------------------------------
\* A user's first start, or that of a version that changed the arguments.
PjInit ==
  /\ row \in [Job -> {NoJob} \cup [cron : Outdated, enabled : BOOLEAN]]
  /\ \A j \in SyncJob : row[j] = NoJob
  /\ registry = Registered(row)
  /\ client = [p \in Client |-> Resting]
  /\ mixed = {} /\ off = {} /\ budget = JobRequests

PjNext ==
  \/ \E p \in Client : \/ BeginJobRequest(p) \/ ReadRow(p) \/ InsertRow(p) \/ ReadAgain(p)
                       \/ WriteRow(p) \/ SyncRegistry(p) \/ Unregister(p) \/ DeleteJob(p)
  \/ Restart

PjSpec == PjInit /\ [][PjNext]_pjVars

-----------------------------------------------------------------------------
\* Between requests River has exactly the enabled jobs, each with the schedule
\* and arguments of its row, after any sequence of requests and restarts.  Only
\* requests that overlapped, and one that failed after its first write, leave a
\* job out of step, and at most until the next start or the next request that has
\* the job to itself and reaches the registry.
InStep ==
  \A j \in Job \ off : Busy(j) = {} => registry[j] = Registered(row)[j]
=============================================================================
