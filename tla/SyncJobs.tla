------------------------------ MODULE SyncJobs -------------------------------
(***************************************************************************)
(* Synchronisation of a remote directory into the drive.  A sync.run job   *)
(* compares source and destination, deletes what the source does not have  *)
(* and inserts one sync.transfer task for every file to copy; it then      *)
(* snoozes until every task has ended.  A transfer stages its file part by *)
(* part as rows of the uploads table, and makes a file of the rows.  River *)
(* runs a failed job again, a transfer then goes on after the parts whose  *)
(* rows it finds; the stale cleaner removes rows older than its retention. *)
(*                                                                         *)
(* Paths are sequences of names below the destination.  The source does    *)
(* not change, so the upload id of a transfer, a hash of its parent, name, *)
(* size and time, is the path of its file.  Sizes count bytes of any unit. *)
(***************************************************************************)
EXTENDS Naturals, Sequences, FiniteSets, SequencesExt

CONSTANTS
  Run,          \* sync.run jobs 1..n, one after the other
  Listing,      \* the paths of the files that the remote lists
  Size,         \* Size[p]: size of the file p
  Include,      \* filters: what a pattern of the run includes (all, without one)
  Exclude,      \* and what one excludes, the bounds of the size (0: none), and the
  MinSize,      \* names of files whose directory is left out
  MaxSize,
  Marker,
  Before,       \* the destinations at the start: functions on paths
  PartSize,     \* PartSize[r], Encrypted[r], Mirror[r]: options of the run
  Encrypted,
  Mirror,
  MaxAttempts,  \* attempts of a job before River discards it
  PageCap,      \* entries of a folder that FilesList shows at most
  Liberty       \* "stale": the cleaner finds rows that a later attempt would resume;
                \* "overlap": a run starts while transfers of an earlier one go on

\* excludedByMarker: the directory of the file, and those above it.
ExcludedByMarker(p) ==
  \E i \in 0..(Len(p) - 1), m \in Marker : Append(SubSeq(p, 1, i), m) \in Listing

\* listSourceFiles, with filterSourceEntries.
Source ==
  {p \in Listing : /\ MinSize > 0 => Size[p] >= MinSize
                   /\ MaxSize > 0 => Size[p] <= MaxSize
                   /\ p \in Include \ Exclude
                   /\ ~ExcludedByMarker(p)}

VARIABLES
  dest,   \* dest[p]: the active file or folder at p
  rows,   \* rows[p]: uploads rows of the transfer of p, oldest first
  run,    \* run[r]: the sync.run job, [st, tries, todo, all]: todo has what it has
          \* to delete, all says whether it saw every entry
  task    \* task[r][p]: the sync.transfer job, [st, tries, next, got]

vars == <<dest, rows, run, task>>

Nothing == [kind |-> "none"]
Folder  == [kind |-> "folder"]
Stored(parts, enc, cur) == [kind |-> "file", parts |-> parts, enc |-> enc, current |-> cur]

Above(p)   == {SubSeq(p, 1, i) : i \in 1..(Len(p) - 1)}
Path       == UNION {DOMAIN b : b \in Before}

\* impliedSourceDirs: the folders above a file of the source.
ParentDirs == {Front(p) : p \in {q \in Source : Len(q) > 1}}
SourceDirs == UNION {Above(p) : p \in Source}
NewTask    == [st |-> "none", tries |-> 0, next |-> 0, got |-> <<>>]
NewRun     == [st |-> "waiting", tries |-> 0, todo |-> {}, all |-> TRUE]

ASSUME SyncAssumption ==
  /\ Run \subseteq Nat /\ MaxAttempts \in Nat \ {0} /\ PageCap \in Nat \ {0}
  /\ \A p \in Listing : Size[p] \in Nat
  /\ \A r \in Run : PartSize[r] \in Nat \ {0}

\* Source and destination are trees: what is in a folder is below it, and a file
\* has nothing below it.
ASSUME PathAssumption ==
  /\ \A p \in Path : p \in Seq(Range(p)) /\ Above(p) \subseteq Path
  /\ Source \subseteq Path /\ Source \cap SourceDirs = {}
  /\ \A b \in Before : DOMAIN b = Path
  /\ \A b \in Before, p \in Path :
       /\ b[p] \in {Nothing, Folder} \/ (b[p].kind = "file" /\ b[p].current \in BOOLEAN)
       /\ b[p] # Nothing => \A q \in Above(p) : b[q] = Folder

-----------------------------------------------------------------------------
(* A transfer.  ParentDirs, FirstPart, Forever, AnyVersion and GaveUp are  *)
(* faulty variants of the definition after each of them; no action uses    *)
(* them.                                                                   *)

Least(a, b)      == IF a < b THEN a ELSE b
Start(r, no)     == (no - 1) * PartSize[r]
Expected(r, p, no) == Least(PartSize[r], Size[p] - Start(r, no))
TotalParts(r, p) == (Size[p] + PartSize[r] - 1) \div PartSize[r]

\* syncTransferResumeState: the parts in front whose latest row fits.
Latest(p, no) == CHOOSE i \in DOMAIN rows[p] :
                   /\ rows[p][i].no = no
                   /\ \A j \in DOMAIN rows[p] : rows[p][j].no = no => j <= i
FitsPart(r, p, no) ==
  /\ \E i \in DOMAIN rows[p] : rows[p][i].no = no
  /\ LET row == rows[p][Latest(p, no)] IN
     row.len = Expected(r, p, no) /\ row.enc = Encrypted[r]
FirstPart(r, p) == 1
NextPart(r, p)  == CHOOSE no \in 1..(TotalParts(r, p) + 1) :
                     /\ \A k \in 1..(no - 1) : FitsPart(r, p, k)
                     /\ no <= TotalParts(r, p) => ~FitsPart(r, p, no)

\* GetByUploadID: ORDER BY part_no.
InOrder(s, f) == \A i, j \in DOMAIN s : i < j => s[f[i]].no <= s[f[j]].no
ByPartNo(s) ==
  LET f == CHOOSE f \in Bijection(DOMAIN s, DOMAIN s) : InOrder(s, f)
  IN  [i \in DOMAIN s |-> s[f[i]]]

TypeOfTask(r, p, st) == task[r][p].st = st
Step(r, p, f) == task' = [task EXCEPT ![r][p] = f]

\* River runs a failed job again, up to its last attempt.
Forever(st, tries) == st
Retried(st, tries) == IF tries + 1 = MaxAttempts THEN "discarded" ELSE st
Retry(r, p) == Step(r, p, [st |-> Retried("waiting", task[r][p].tries),
                           tries |-> task[r][p].tries + 1, next |-> 0, got |-> <<>>])

\* A worker of the uploads queue takes the job.
Begin(r, p) ==
  /\ TypeOfTask(r, p, "waiting")
  /\ Step(r, p, [task[r][p] EXCEPT !.st = "opening"])
  /\ UNCHANGED <<dest, rows, run>>

\* The source opens, and the folders above the file exist or are created; an
\* empty source is refused.
OpenSource(r, p) ==
  /\ TypeOfTask(r, p, "opening")
  /\ \/ Size[p] = 0 /\ Retry(r, p) /\ UNCHANGED dest
     \/ /\ Size[p] > 0
        /\ dest' = [q \in Path |-> IF q \in Above(p) /\ dest[q] = Nothing THEN Folder ELSE dest[q]]
        /\ Step(r, p, [task[r][p] EXCEPT !.st = "resuming"])
  /\ UNCHANGED <<rows, run>>

Resume(r, p) ==
  /\ TypeOfTask(r, p, "resuming")
  /\ Step(r, p, [task[r][p] EXCEPT !.st = "staging", !.next = NextPart(r, p)])
  /\ UNCHANGED <<dest, rows, run>>

\* StagePart: the reader stands behind the parts before this one.
StagePart(r, p) ==
  LET no == task[r][p].next IN
  /\ TypeOfTask(r, p, "staging") /\ no <= TotalParts(r, p)
  /\ rows' = [rows EXCEPT ![p] = Append(@, [no |-> no, from |-> Start(r, no),
                                            len |-> Expected(r, p, no), enc |-> Encrypted[r]])]
  /\ Step(r, p, [task[r][p] EXCEPT !.next = no + 1])
  /\ UNCHANGED <<dest, run>>

\* FilesCreate: every row of the upload becomes a part of the file ...
CreateFile(r, p) ==
  /\ TypeOfTask(r, p, "staging") /\ task[r][p].next > TotalParts(r, p)
  /\ Step(r, p, [task[r][p] EXCEPT !.st = "creating", !.got = ByPartNo(rows[p])])
  /\ UNCHANGED <<dest, rows, run>>

\* ... which replaces the active file of its name and the rows, in one
\* transaction.  A folder of that name keeps its type.
CommitFile(r, p) ==
  /\ TypeOfTask(r, p, "creating")
  /\ dest' = [dest EXCEPT ![p] = IF @ = Folder THEN Folder
                                 ELSE Stored(task[r][p].got, Encrypted[r], TRUE)]
  /\ rows' = [rows EXCEPT ![p] = <<>>]
  /\ Step(r, p, [task[r][p] EXCEPT !.st = "recording", !.got = <<>>])
  /\ UNCHANGED run

EndTransfer(r, p) ==
  /\ TypeOfTask(r, p, "recording")
  /\ Step(r, p, [task[r][p] EXCEPT !.st = "completed", !.next = 0])
  /\ UNCHANGED <<dest, rows, run>>

\* An error, a timeout or a crash of the process.
Active == {"opening", "resuming", "staging", "creating", "recording"}
FailTransfer(r, p) ==
  /\ task[r][p].st \in Active
  /\ Retry(r, p)
  /\ UNCHANGED <<dest, rows, run>>

\* JobsCancel by the user.
CancelTransfer(r, p) ==
  /\ task[r][p].st \in Active \cup {"waiting"}
  /\ Step(r, p, [task[r][p] EXCEPT !.st = "cancelled", !.next = 0, !.got = <<>>])
  /\ UNCHANGED <<dest, rows, run>>

-----------------------------------------------------------------------------
(* A run.                                                                  *)

Reached(p) == \A q \in Above(p) : dest[q] = Folder

\* What FilesList shows of the folders: of one with more than PageCap entries only
\* so many, and no cursor to the others, since the walk asks for a longer page.
Present     == {p \in Path : dest[p] # Nothing}
In(f)       == {p \in Present : Front(p) = f}
FitsPage(f) == Cardinality(In(f)) <= PageCap
Parents     == {Front(p) : p \in Path}
Views       == {S \in SUBSET Present : \A f \in Parents :
                  IF FitsPage(f) THEN In(f) \subseteq S ELSE Cardinality(S \cap In(f)) = PageCap}

\* extraDestinationEntries: a walk through the folders of the destination, which
\* meets the entries in S.
Extra(S) == {p \in S : /\ Reached(p) /\ Above(p) \subseteq S
                       /\ \/ dest[p].kind = "file" /\ p \notin Source
                          \/ dest[p] = Folder /\ p \notin SourceDirs}

\* compareDestinationFingerprint: size and time, or the hashes.
Exists(p) == (\A q \in Above(p) : dest[q] # Nothing) /\ dest[p] # Nothing
SameFingerprint(p) == Exists(p) /\ dest[p].kind = "file" /\ dest[p].current
AnyVersion(r, p) == Exists(p)
Skipped(r, p)   == SameFingerprint(p) \/ (Exists(p) /\ ~Mirror[r])

Tasks(r)     == {p \in Source : task[r][p].st # "none"}
Ended(r, p)  == task[r][p].st \in {"none", "completed", "discarded", "cancelled"}
RunEnded(r)  == run[r].st \in {"completed", "discarded"}
RunStep(r, f) == run' = [run EXCEPT ![r] = f]

\* A worker takes the job: inserted, retried, or snoozed before.
BeginRun(r) ==
  /\ run[r].st = "waiting"
  /\ \A q \in Run : q < r => /\ RunEnded(q)
                             /\ "overlap" \in Liberty \/ \A p \in Source : Ended(q, p)
  /\ RunStep(r, [run[r] EXCEPT !.st = IF Tasks(r) # {} THEN "summary" ELSE "listing"])
  /\ UNCHANGED <<dest, rows, task>>

ListExtra(r) ==
  /\ run[r].st = "listing"
  /\ \E S \in Views :
       RunStep(r, [run[r] EXCEPT !.st = "deleting", !.todo = IF Mirror[r] THEN Extra(S) ELSE {},
                                 !.all = \A f \in Parents : FitsPage(f)])
  /\ UNCHANGED <<dest, rows, task>>

\* Files first, then the deepest folder; a deletion takes what is below.
DeleteNext(S) == {p \in S : /\ dest[p] = Folder => \A q \in S : dest[q].kind # "file"
                            /\ dest[p] = Folder => \A q \in S : Len(q) <= Len(p)}
Deleted(p) == [q \in Path |-> IF q = p \/ p \in Above(q) THEN Nothing ELSE dest[q]]
DeleteExtra(r) ==
  /\ run[r].st = "deleting"
  /\ \E p \in DeleteNext(run[r].todo) :
       /\ dest' = Deleted(p)
       /\ RunStep(r, [run[r] EXCEPT !.todo = @ \ {p}])
  /\ UNCHANGED <<rows, task>>

\* Every other file becomes a task, all of them inserted together.
InsertTasks(r) ==
  /\ run[r].st = "deleting" /\ run[r].todo = {}
  /\ task' = [task EXCEPT ![r] = [p \in Source |-> IF Skipped(r, p) THEN NewTask
                                                   ELSE [NewTask EXCEPT !.st = "waiting"]]]
  /\ RunStep(r, [run[r] EXCEPT !.st = "summary"])
  /\ UNCHANGED <<dest, rows>>

GaveUp(r, p)   == task[r][p].st = "discarded"
Failed(r, p)   == task[r][p].st \in {"cancelled", "discarded"}
Transferred(r) == \A p \in Tasks(r) : task[r][p].st = "completed"

Snooze(r) ==
  /\ run[r].st = "summary"
  /\ ~Transferred(r) /\ \A p \in Source : ~Failed(r, p)
  /\ RunStep(r, [run[r] EXCEPT !.st = "waiting"])
  /\ UNCHANGED <<dest, rows, task>>

CompleteRun(r) ==
  /\ run[r].st = "summary" /\ Transferred(r)
  /\ RunStep(r, [run[r] EXCEPT !.st = "completed"])
  /\ UNCHANGED <<dest, rows, task>>

\* An error, or a task that ended without success.
RetryRun(r) == RunStep(r, [st |-> Retried("waiting", run[r].tries),
                           tries |-> run[r].tries + 1, todo |-> {}, all |-> run[r].all])
FailRun(r) ==
  /\ run[r].st \in {"listing", "deleting", "summary"}
  /\ RetryRun(r)
  /\ UNCHANGED <<dest, rows, task>>
ReportFailure(r) ==
  /\ run[r].st = "summary" /\ \E p \in Source : Failed(r, p)
  /\ RetryRun(r)
  /\ UNCHANGED <<dest, rows, task>>

-----------------------------------------------------------------------------
(* CleanStaleUploadsForUser removes the rows older than the retention.  An *)
(* attempt, of three hours at most, is shorter than that.                  *)

Abandoned(p) == \A r \in Run : Ended(r, p)
CleanStale(p) ==
  /\ \A r \in Run : task[r][p].st \notin Active
  /\ \E k \in 1..Len(rows[p]) :
       /\ "stale" \in Liberty \/ (Abandoned(p) /\ k = Len(rows[p]))
       /\ rows' = [rows EXCEPT ![p] = SubSeq(@, k + 1, Len(@))]
  /\ UNCHANGED <<dest, run, task>>

-----------------------------------------------------------------------------
Init ==
  /\ dest \in Before
  /\ rows = [p \in Source |-> <<>>]
  /\ run = [r \in Run |-> NewRun]
  /\ task = [r \in Run |-> [p \in Source |-> NewTask]]

Transfer(r, p) ==
  \/ Begin(r, p) \/ OpenSource(r, p) \/ Resume(r, p) \/ StagePart(r, p)
  \/ CreateFile(r, p) \/ CommitFile(r, p) \/ EndTransfer(r, p)
Work(r) ==
  \/ BeginRun(r) \/ ListExtra(r) \/ DeleteExtra(r) \/ InsertTasks(r)
  \/ Snooze(r) \/ CompleteRun(r) \/ ReportFailure(r)

Next ==
  \/ \E r \in Run, p \in Source : Transfer(r, p) \/ FailTransfer(r, p) \/ CancelTransfer(r, p)
  \/ \E r \in Run : Work(r) \/ FailRun(r)
  \/ \E p \in Source : CleanStale(p)

Spec == Init /\ [][Next]_vars

\* River's workers go on with every job that is inserted.
FairSpec ==
  /\ Spec
  /\ \A r \in Run : WF_vars(Work(r))
  /\ \A r \in Run, p \in Source : WF_vars(Transfer(r, p))
=============================================================================
