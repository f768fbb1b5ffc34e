---------------------------- MODULE SyncJobsProps ----------------------------
(* What synchronisation promises.                                          *)
EXTENDS SyncJobs

TypeOK ==
  /\ \A p \in Path : \/ dest[p] \in {Nothing, Folder}
                     \/ dest[p].kind = "file" /\ dest[p].current \in BOOLEAN
  /\ \A p \in Source : \A i \in DOMAIN rows[p] : rows[p][i].no \in Nat \ {0}
  /\ \A r \in Run : /\ run[r].st \in {"waiting", "listing", "deleting", "summary",
                                      "completed", "discarded"}
                    /\ run[r].tries \in 0..MaxAttempts /\ run[r].all \in BOOLEAN
  /\ \A r \in Run, p \in Source :
       /\ task[r][p].st \in Active \cup {"none", "waiting", "completed", "discarded", "cancelled"}
       /\ task[r][p].tries \in 0..MaxAttempts

\* The parts are the bytes of the file, all of them once and in order.
Whole(p, f) ==
  LET n == Len(f.parts) IN
  IF Size[p] = 0 THEN n = 0
  ELSE /\ n > 0 /\ f.parts[1].from = 0
       /\ \A i \in 1..(n - 1) : f.parts[i + 1].from = f.parts[i].from + f.parts[i].len
       /\ f.parts[n].from + f.parts[n].len = Size[p]
       /\ \A i \in 1..n : f.parts[i].enc = f.enc

\* A file made by a transfer is the file of the source, however often the
\* transfer failed and was resumed between its parts (SyncTransfer,
\* syncTransferResumeState, FilesCreate from the rows of an upload).
TransferredWhole ==
  \A p \in Source : dest[p].kind = "file" /\ dest[p].current => Whole(p, dest[p])

\* When a run has completed and no later one has begun, the destination has at
\* least something at every path of the source, and a mirroring run left no older
\* version there; when it saw every entry of the destination, too, it left the files
\* of the source and no others, and the folders above them (SyncRun,
\* initializeSyncWorkflow, summarizeSyncWorkflow).  Of a folder with more entries
\* than a page has it does not see all, and promises no more than that.
Untouched(r) == run[r] = NewRun /\ Tasks(r) = {}
Mirrored ==
  \A r \in Run : run[r].st = "completed" /\ (\A q \in Run : q > r => Untouched(q)) =>
    /\ \A p \in Source : /\ dest[p] # Nothing
                         /\ Mirror[r] /\ dest[p].kind = "file" => dest[p].current
    /\ Mirror[r] /\ run[r].all => /\ {p \in Path : dest[p].kind = "file"} = Source
                                  /\ {p \in Path : dest[p] = Folder} = SourceDirs

\* A file that the source has, below folders, may be replaced but is never
\* missing, not even while a run deletes what is extra (extraDestinationEntries).
SourceKept ==
  [][\A p \in Source : dest[p].kind = "file" /\ Reached(p) => dest'[p].kind = "file"]_vars

\* Every run ends: its tasks end after finitely many attempts, and then it
\* completes or fails (JobSnooze while tasks are under way).
RunsEnd == \A r \in Run : <>RunEnded(r)
=============================================================================
