------------------------- MODULE ContentStoreProps --------------------------
(***************************************************************************)
(* What must be true of ContentStore: its type, the safety of the parts of *)
(* a file against the two cleaners and "check", and what the cleaners owe. *)
(***************************************************************************)
EXTENDS ContentStore

TypeOK ==
  /\ tg \in SUBSET Message /\ lastId \in [Channel -> Nat]
  /\ uploads \in SUBSET Row /\ files \in SUBSET File /\ lastFid \in Nat
  /\ selected \in Channel /\ session \in BOOLEAN
  /\ phase \in [Upload -> {"open", "final", "done", "abandoned"}]
  /\ staging \in SUBSET Staging /\ creates \in SUBSET Create
  /\ updates \in SUBSET Update /\ copies \in SUBSET Copy
  /\ stale \in [pc : {"idle", "delete", "rows"}, todo : SUBSET Key, group : SUBSET Key]
  /\ pend \in [pc : {"idle", "delete"}, todo : SUBSET Key, listed : SUBSET Key]
  /\ chk \in [pc : {"idle", "messages", "uploads", "mark", "purge"}, chan : Channel,
              files : SUBSET File, msgs : SUBSET Nat, missing : SUBSET Nat,
              orphans : SUBSET Key]

\* Clients and operators that keep to the documented protocol.
Disciplined == Liberty = {} /\ \A u \in Upload : "parts" \notin Ways[u]

-----------------------------------------------------------------------------
(* Safety.                                                                 *)

\* Every part of every active file is a message that exists: no cleaner, no
\* check and no interleaving of requests deletes it (FilesCreate, FilesUpdate,
\* FilesCopy against queue_executor.go and cmd/check.go).
PartsPresent == RefsOf(Active) \subseteq TgKeys

\* The parts of an active file, in order, are the parts 1, 2, ... of one upload:
\* reading the file yields what the client sent.
Reassembles == \A f \in Active : Whole(f)

\* No two file rows and no file row and uploads row share a message, whatever
\* their status: deleting on behalf of one never harms another.
OneHolder ==
  /\ \A f, g \in files : f # g => Refs(f) \cap Refs(g) = {}
  /\ \A f \in files, row \in uploads : KeyOf(row) \notin Refs(f)

\* A file built from the uploads rows has left no row behind that the stale
\* cleaner could act on, even with retried, duplicated or late requests.
RowXorFile ==
  \A f \in files, row \in uploads : f.via = "rows" => KeyOf(row) \notin Refs(f)

\* On an idle server check marks no file whose parts are all present.
NoFalseMissing ==
  chk.pc = "mark" =>
    \A f \in Active : f.fid \in chk.missing => ~(Refs(f) \subseteq TgKeys)

\* One request fits the ids of a group: an uploads row that the stale cleaner
\* removes leaves no message behind.
StaleCleanerNoLeak ==
  [][\A row \in uploads \ uploads' :
       KeyOf(row) \in stale.group => KeyOf(row) \notin TgKeys]_vars

\* Of the messages that the job on deleted files listed, with a session, only those
\* that it has still to delete are there, none when it comes to the sweep.  The
\* sweep deletes other rows, too, whose messages stay.
SweepAfterPurge == pend.pc = "delete" => pend.listed \cap TgKeys \subseteq pend.todo

-----------------------------------------------------------------------------
(* The life of a part, and the promise it refines.                         *)

Parts == Channel \X (1..MaxMsg)

Owned   == RefsOf(Active)
Doomed  == RefsOf(Pending)
Expired == {KeyOf(row) : row \in {x \in uploads : x.stale}}
Staged  == {KeyOf(row) : row \in {x \in uploads : ~x.stale}}

StateOf(p) ==
  IF p[2] > lastId[p[1]] THEN "none"
  ELSE IF p \in Owned   THEN IF p \in TgKeys THEN "owned" ELSE "lost"
  ELSE IF p \notin TgKeys THEN "gone"
  ELSE IF p \in Doomed  THEN "doomed"
  ELSE IF p \in Expired THEN "expired"
  ELSE IF p \in Staged  THEN "staged"
  ELSE "loose"

Life == [p \in Parts |-> StateOf(p)]

Promise == INSTANCE PartLife WITH Part <- Parts, life <- Life

\* The store keeps the promise of PartLife: owned and staged parts stay.
KeepsPromise == Promise!Spec

-----------------------------------------------------------------------------
(* Liveness.  Both jobs are periodic and enabled by default, and River     *)
(* retries a job that failed: a run that reaches Telegram comes again and  *)
(* again.  A session is there whenever the user uses the program.          *)

StaleSucceeds(c) == StaleDelete(c) /\ stale'.pc = "rows"
PendSucceeds(c)  == PendDelete(c) /\ pend'.pc = "delete"

Fairness ==
  /\ \A c \in Channel : SF_vars(StaleSucceeds(c)) /\ SF_vars(PendSucceeds(c))
  /\ SF_vars(StaleList) /\ SF_vars(StaleRows) /\ SF_vars(PendList) /\ SF_vars(PendSweep)
  /\ WF_vars(\E row \in uploads : Age(row))
  /\ WF_vars(LogInOut /\ session')
  /\ WF_vars(CheckMessages) /\ WF_vars(CheckUploads) /\ WF_vars(CheckMark) /\ WF_vars(CheckPurge)

FairSpec == Spec /\ Fairness

\* What an abandoned upload left in the uploads table is eventually removed.
AbandonedCleaned == \A u \in Upload : phase[u] = "abandoned" ~> RowsOf(u) = {}

\* A deleted file's row is eventually removed.
DeletedSwept ==
  \A n \in 1..MaxFile :
    (\E f \in Pending : f.fid = n) ~> (\A f \in files : f.fid # n)
=============================================================================
