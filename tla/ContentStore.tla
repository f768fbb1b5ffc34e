---------------------------- MODULE ContentStore ----------------------------
(***************************************************************************)
(* Where the bytes of a file live.  A part of a file is a document message *)
(* in a Telegram channel; what teldrive keeps in PostgreSQL is only the    *)
(* reference to it: a row of "uploads" while the upload is in progress and *)
(* an entry of files.parts once the file is created.  This module models   *)
(* the requests that stage parts and turn them into files, the two         *)
(* maintenance jobs that delete messages, and the "teldrive check" command *)
(* that reconciles a channel with the database, all interleaved at the     *)
(* granularity of their database statements and Telegram calls.            *)
(*                                                                         *)
(* One user: every statement below filters by the user id.  Sizes, hashes, *)
(* salts and MIME types are abstracted; a part's content is the pair of    *)
(* the upload it belongs to and its part number.                           *)
(***************************************************************************)
EXTENDS Naturals, Sequences, FiniteSets

CONSTANTS
  Channel,    \* Telegram channels of the user
  NoChan,     \* "channelId not set" in a FilesUpdate request
  Upload,     \* upload session ids chosen by clients
  Name,       \* file names (one folder)
  Req,        \* request slots of the server: bounds the requests in flight
  MaxPart,    \* bound: part numbers of an upload are 1..MaxPart
  MaxMsg,     \* bound: messages ever sent to one channel
  MaxFile,    \* bound: file rows ever inserted
  BatchSize,  \* ids per ChannelsDeleteMessages call (100 in the code)
  Home,       \* Home[u]: the channelId the client of upload u sends
  Ways,       \* Ways[u]: how the client of u may turn its parts into a file
  Title,      \* Title[u]: the name of the file it creates
  Target,     \* Target[u]: the id of the file it updates
  Liberty     \* what the environment may do beyond the documented protocol

(***************************************************************************)
(* The liberties.  With Liberty = {} a client passes the same channelId in *)
(* every request of an upload, finalises it once, after every part was     *)
(* acknowledged, and within the retention; check runs on an idle server.   *)
(*   "slow"    an upload in progress outlives the retention                *)
(*   "retry"   a request whose answer was lost is sent again               *)
(*   "default" no channelId is sent: the server uses the selected channel  *)
(*   "online"  check runs while the server handles requests and jobs       *)
(* The ways: FilesCreate with the uploadId, FilesCreate with the parts     *)
(* themselves (the rows then stay behind), FilesUpdate with the uploadId.  *)
(***************************************************************************)
Liberties == {"slow", "retry", "default", "online"}

ASSUME LibertyAssumption == Liberty \subseteq Liberties
ASSUME ClientAssumption ==
  /\ Ways \in [Upload -> SUBSET {"create", "parts", "update"}]
  /\ Title \in [Upload -> Name] /\ Target \in [Upload -> Nat]
ASSUME BoundAssumption ==
  MaxPart \in Nat /\ MaxMsg \in Nat /\ MaxFile \in Nat /\ BatchSize \in Nat
ASSUME HomeAssumption == Home \in [Upload -> Channel] /\ NoChan \notin Channel

VARIABLES
  tg,        \* messages present in Telegram: [chan, id, up, no]
  lastId,    \* lastId[c]: last message id Telegram gave out in channel c
  uploads,   \* rows of the uploads table; stale: older than the retention
  files,     \* rows of the files table
  lastFid,   \* file ids given out so far (uuid.New never repeats)
  selected,  \* the user's selected (default) channel
  session,   \* the user has a Telegram session stored
  phase,     \* phase[u]: where the client of upload u believes it is
  staging,   \* UploadsUpload handlers between Telegram and the uploads row
  creates,   \* FilesCreate handlers between reading the rows and the commit
  updates,   \* FilesUpdate handlers between reading the rows and the commit
  copies,    \* FilesCopy handlers between reading the file and the insert
  stale,     \* the running clean.stale_uploads job
  pend,      \* the running clean.pending_files job
  chk        \* the running "teldrive check" of one channel

store == <<tg, lastId, uploads, files, lastFid>>
env   == <<selected, session, phase>>
reqs  == <<staging, creates, updates, copies>>
jobs  == <<stale, pend, chk>>
vars  == <<store, env, reqs, jobs>>

-----------------------------------------------------------------------------
(* Types and derived values.  AnyStatus, KeptRows, Unordered,              *)
(* ErrorsIgnored, IdsOnly, Required, NoParts, ListedOnly, AnyFiles and     *)
(* NoStaged are faulty variants of the definition that follows each of     *)
(* them; no action uses them, they serve to show that the properties       *)
(* notice the fault.                                                       *)

Key     == Channel \X Nat
PartNo  == 1..MaxPart
Message == [chan : Channel, id : Nat, up : Upload, no : PartNo]
Row     == [chan : Channel, id : Nat, up : Upload, no : PartNo, stale : BOOLEAN]
File    == [fid : Nat, name : Name, status : {"active", "pending_deletion"},
            chan : Channel, parts : Seq(Nat), src : Upload, via : {"rows", "parts", "copy"}]
Staging == [r : Req, chan : Channel, id : Nat, up : Upload, no : PartNo]
Create  == [r : Req, up : Upload, name : Name, chan : Channel,
            parts : Seq(Nat), via : {"rows", "parts"}]
Update  == [r : Req, up : Upload, fid : Nat, chan : Channel \cup {NoChan},
            parts : Seq(Nat)]
Copy    == [r : Req, pc : {"fetch", "send"}, name : Name, from : Channel, chan : Channel,
            ids : Seq(Nat), docs : Seq(SUBSET Message), parts : Seq(Nat), src : Upload]

StaleIdle == [pc |-> "idle", todo |-> {}, group |-> {}]
PendIdle  == [pc |-> "idle", todo |-> {}, listed |-> {}]
CheckIdle(c) == [pc |-> "idle", chan |-> c, files |-> {}, msgs |-> {},
                 missing |-> {}, orphans |-> {}]

KeyOf(m)      == <<m.chan, m.id>>
TgKeys        == {KeyOf(m) : m \in tg}
RowsOf(u)     == {row \in uploads : row.up = u}
Active        == {f \in files : f.status = "active"}
AnyStatus     == files
Pending       == {f \in files : f.status = "pending_deletion"}
Refs(f)       == {<<f.chan, f.parts[i]>> : i \in DOMAIN f.parts}
RefsOf(F)     == UNION {Refs(f) : f \in F}

\* Uploads.Delete: every row of the upload, also one inserted meanwhile.
KeptRows(u)    == uploads
WithoutRows(u) == uploads \ RowsOf(u)

\* ORDER BY part_no: rows with the same number come in either order.
Unordered(R)  ==
  {s \in [1..Cardinality(R) -> R] : \A i, j \in 1..Cardinality(R) : i # j => s[i] # s[j]}
PartOrders(R) ==
  {s \in [1..Cardinality(R) -> R] :
     \A i, j \in 1..Cardinality(R) : i < j => s[i] # s[j] /\ s[i].no <= s[j].no}
Ids(s) == [i \in DOMAIN s |-> s[i].id]

FreeSlot(r) ==
  /\ \A s \in staging : s.r # r
  /\ \A k \in creates : k.r # r
  /\ \A k \in updates \cup copies : k.r # r
\* The server is up: check is not running, or runs beside it.
Serving == chk.pc = "idle" \/ "online" \in Liberty
Idle    == /\ staging = {} /\ creates = {} /\ updates = {} /\ copies = {}
           /\ stale.pc = "idle" /\ pend.pc = "idle"

\* The outcomes of tgc.DeleteMessages.  One batch is one call.  With several,
\* each may fail on its own, and the goroutines assign one shared err: a
\* success can overwrite a failure before the failing goroutine returns it.
ErrorsIgnored(ids)  == [gone : {{}, ids}, ok : BOOLEAN]
DeleteOutcomes(ids) ==
  {o \in [gone : SUBSET ids, ok : BOOLEAN] :
     IF Cardinality(ids) <= BatchSize
     THEN o.gone \in {{}, ids} /\ (o.ok => o.gone = ids)
     ELSE o.ok => o.gone # {}}
\* What one call covers: the ids of a group are those of one channel.
IdsOnly(keys, c) == {<<c, key[2]>> : key \in keys}
Group(keys, c)   == {key \in keys : key[1] = c}
Surviving(gone)  == {m \in tg : KeyOf(m) \notin gone}

-----------------------------------------------------------------------------
Init ==
  /\ tg = {} /\ lastId = [c \in Channel |-> 0]
  /\ uploads = {} /\ files = {} /\ lastFid = 0
  /\ selected \in Channel /\ session = TRUE
  /\ phase = [u \in Upload |-> "open"]
  /\ staging = {} /\ creates = {} /\ updates = {} /\ copies = {}
  /\ stale = StaleIdle /\ pend = PendIdle /\ chk \in {CheckIdle(c) : c \in Channel}

-----------------------------------------------------------------------------
(* UploadsUpload: one part.                                                *)

\* resolveUploadChannel: the requested channel, else the selected one.
Resolved(u) == IF "default" \in Liberty THEN selected ELSE Home[u]

MayStage(u, n) ==
  /\ phase[u] = "open"
  /\ \/ "retry" \in Liberty
     \/ \A row \in RowsOf(u) \cup {s \in staging : s.up = u} : row.no # n

\* The document reaches Telegram ...
StageUpload(r, u, n) ==
  LET c == Resolved(u)
      i == lastId[c] + 1 IN
  /\ Serving /\ FreeSlot(r) /\ MayStage(u, n) /\ i <= MaxMsg
  /\ tg' = tg \cup {[chan |-> c, id |-> i, up |-> u, no |-> n]}
  /\ lastId' = [lastId EXCEPT ![c] = i]
  /\ staging' = staging \cup {[r |-> r, chan |-> c, id |-> i, up |-> u, no |-> n]}
  /\ UNCHANGED <<uploads, files, lastFid, env, creates, updates, copies, jobs>>

\* ... and then the row is inserted,
StageInsert(s) ==
  /\ uploads' = uploads \cup {[chan |-> s.chan, id |-> s.id, up |-> s.up,
                               no |-> s.no, stale |-> FALSE]}
  /\ staging' = staging \ {s}
  /\ UNCHANGED <<tg, lastId, files, lastFid, env, creates, updates, copies, jobs>>

\* unless the size differs, the insert fails or the server stops in between:
\* nothing deletes the message that was sent.
StageFail(s) ==
  /\ staging' = staging \ {s}
  /\ UNCHANGED <<store, env, creates, updates, copies, jobs>>

\* The rows go, their messages stay in the channel.
UploadsDelete(u) ==
  /\ Serving /\ phase[u] = "open" /\ RowsOf(u) # {}
  /\ uploads' = WithoutRows(u)
  /\ UNCHANGED <<tg, lastId, files, lastFid, env, reqs, jobs>>

-----------------------------------------------------------------------------
(* FilesCreate and FilesUpdate from an upload: read the rows, then commit. *)

\* Every part the client sent was acknowledged.
Complete(u) ==
  /\ \E n \in PartNo : {row.no : row \in RowsOf(u)} = 1..n
  /\ "retry" \in Liberty \/ \A s \in staging : s.up # u

MayFinalise(u) ==
  \/ phase[u] = "open" /\ Complete(u)
  \/ "retry" \in Liberty /\ phase[u] \in {"final", "done"}

CreateRead(r, u, via) ==
  /\ Serving /\ FreeSlot(r) /\ MayFinalise(u)
  /\ \/ via = "rows" /\ "create" \in Ways[u]
     \/ via = "parts" /\ "parts" \in Ways[u] /\ RowsOf(u) # {}
  /\ \E s \in PartOrders(RowsOf(u)) :
       creates' = creates \cup {[r |-> r, up |-> u, name |-> Title[u], chan |-> Resolved(u),
                                 parts |-> Ids(s), via |-> via]}
  /\ phase' = [phase EXCEPT ![u] = IF @ = "open" THEN "final" ELSE @]
  /\ UNCHANGED <<store, selected, session, staging, updates, copies, jobs>>

\* The row f with new content; its id, name and status are kept.
Filled(f, c, parts, u, via) ==
  [fid |-> f.fid, name |-> f.name, status |-> f.status,
   chan |-> c, parts |-> parts, src |-> u, via |-> via]

\* A transaction: UpsertActive by (name, parent, user) among active rows, then
\* Uploads.Delete when the file was built from an uploadId.
CreateCommit(k) ==
  LET same == {f \in Active : f.name = k.name} IN
  /\ \/ /\ same = {} /\ lastFid < MaxFile
        /\ lastFid' = lastFid + 1
        /\ files' = files \cup {[fid |-> lastFid + 1, name |-> k.name, status |-> "active",
                                 chan |-> k.chan, parts |-> k.parts,
                                 src |-> k.up, via |-> k.via]}
     \/ /\ lastFid' = lastFid
        /\ \E f \in same :
             files' = (files \ {f}) \cup {Filled(f, k.chan, k.parts, k.up, k.via)}
  /\ uploads' = IF k.via = "rows" THEN WithoutRows(k.up) ELSE uploads
  /\ creates' = creates \ {k}
  /\ phase' = [phase EXCEPT ![k.up] = "done"]
  /\ UNCHANGED <<tg, lastId, selected, session, staging, updates, copies, jobs>>

\* Rolled back, an error returned, or the server stopped before the commit.
Reopened(u) == [phase EXCEPT ![u] = IF @ = "final" THEN "open" ELSE @]
CreateFail(k) ==
  /\ creates' = creates \ {k}
  /\ phase' = Reopened(k.up)
  /\ UNCHANGED <<store, selected, session, staging, updates, copies, jobs>>

UpdateRead(r, u) ==
  /\ Serving /\ FreeSlot(r) /\ MayFinalise(u) /\ "update" \in Ways[u]
  /\ \E f \in files : f.fid = Target[u]
  /\ \E s \in PartOrders(RowsOf(u)) :
       updates' = updates \cup {[r |-> r, up |-> u, fid |-> Target[u], parts |-> Ids(s),
                     chan |-> IF "default" \in Liberty THEN NoChan ELSE Home[u]]}
  /\ phase' = [phase EXCEPT ![u] = IF @ = "open" THEN "final" ELSE @]
  /\ UNCHANGED <<store, selected, session, staging, creates, copies, jobs>>

\* UpdateReturning finds the row by id alone, whatever its status; parts are
\* written only when the upload had any.
Required(k, f) == k.chan
ChannelOf(k, f) == IF k.chan = NoChan THEN f.chan ELSE k.chan

UpdateCommit(k) ==
  /\ \E f \in files :
       /\ f.fid = k.fid
       /\ files' = (files \ {f}) \cup
            {IF k.parts = <<>> THEN Filled(f, ChannelOf(k, f), f.parts, f.src, f.via)
                               ELSE Filled(f, ChannelOf(k, f), k.parts, k.up, "rows")}
  /\ uploads' = WithoutRows(k.up)
  /\ updates' = updates \ {k}
  /\ phase' = [phase EXCEPT ![k.up] = "done"]
  /\ UNCHANGED <<tg, lastId, lastFid, selected, session, staging, creates, copies, jobs>>

\* The row is gone (ErrNotFound), or any failure before the commit.
UpdateFail(k) ==
  /\ updates' = updates \ {k}
  /\ phase' = Reopened(k.up)
  /\ UNCHANGED <<store, selected, session, staging, creates, copies, jobs>>

-----------------------------------------------------------------------------
(* FilesCopy: every part is sent again to the selected channel.            *)

CopyRead(r, f, n) ==
  /\ Serving /\ FreeSlot(r) /\ f.status = "active"
  /\ copies' = copies \cup {[r |-> r, pc |-> "fetch", name |-> n, from |-> f.chan,
                             chan |-> selected, ids |-> f.parts, docs |-> <<>>,
                             parts |-> <<>>, src |-> f.src]}
  /\ UNCHANGED <<store, env, staging, creates, updates, jobs>>

\* GetMessages: the documents of all parts; a document outlives its message.
CopyFetch(k) ==
  /\ k.pc = "fetch"
  /\ copies' = (copies \ {k}) \cup
       {[k EXCEPT !.pc = "send",
                  !.docs = [i \in DOMAIN k.ids |-> {m \in tg : KeyOf(m) = <<k.from, k.ids[i]>>}]]}
  /\ UNCHANGED <<store, env, staging, creates, updates, jobs>>

CopyPart(k) ==
  LET i == lastId[k.chan] + 1 IN
  /\ k.docs # <<>> /\ i <= MaxMsg
  /\ \E m \in Head(k.docs) : tg' = tg \cup {[m EXCEPT !.chan = k.chan, !.id = i]}
  /\ lastId' = [lastId EXCEPT ![k.chan] = i]
  /\ copies' = (copies \ {k}) \cup {[k EXCEPT !.docs = Tail(@), !.parts = Append(@, i)]}
  /\ UNCHANGED <<uploads, files, lastFid, env, staging, creates, updates, jobs>>

\* A message that was gone is passed over.
CopySkip(k) ==
  /\ k.docs # <<>> /\ Head(k.docs) = {}
  /\ copies' = (copies \ {k}) \cup {[k EXCEPT !.docs = Tail(@)]}
  /\ UNCHANGED <<store, env, staging, creates, updates, jobs>>

\* All parts were copied.  Files.Create fails when an active file has the name.
CopyCommit(k) ==
  /\ k.pc = "send" /\ k.docs = <<>> /\ Len(k.parts) = Len(k.ids) /\ lastFid < MaxFile
  /\ \A f \in Active : f.name # k.name
  /\ lastFid' = lastFid + 1
  /\ files' = files \cup {[fid |-> lastFid + 1, name |-> k.name, status |-> "active",
                            chan |-> k.chan, parts |-> k.parts,
                            src |-> k.src, via |-> "copy"]}
  /\ copies' = copies \ {k}
  /\ UNCHANGED <<tg, lastId, uploads, env, staging, creates, updates, jobs>>

\* A part is missing, a name conflict, or any failure: the copies stay behind.
CopyFail(k) ==
  /\ copies' = copies \ {k}
  /\ UNCHANGED <<store, env, staging, creates, updates, jobs>>

-----------------------------------------------------------------------------
(* FilesDelete(ById) and FilesMove with a new name.                        *)

DeleteFile(f) ==
  /\ Serving /\ f.status = "active"
  /\ files' = (files \ {f}) \cup {[f EXCEPT !.status = "pending_deletion"]}
  /\ UNCHANGED <<tg, lastId, uploads, lastFid, env, reqs, jobs>>

\* An active file that already has the name is deleted, row and references.
MoveFile(f, n) ==
  /\ Serving /\ f.status = "active" /\ f.name # n
  /\ files' = (files \ ({f} \cup {g \in Active : g.name = n}))
                \cup {[f EXCEPT !.name = n]}
  /\ UNCHANGED <<tg, lastId, uploads, lastFid, env, reqs, jobs>>

-----------------------------------------------------------------------------
(* The environment: time, sessions, the selected channel, giving up.       *)

\* created_at falls behind now - retention.
Age(row) ==
  /\ ~row.stale
  /\ phase[row.up] \in {"abandoned", "done"} \/ "slow" \in Liberty
  /\ uploads' = (uploads \ {row}) \cup {[row EXCEPT !.stale = TRUE]}
  /\ UNCHANGED <<tg, lastId, files, lastFid, env, reqs, jobs>>

Abandon(u) ==
  /\ phase[u] = "open"
  /\ \A s \in staging : s.up # u
  /\ phase' = [phase EXCEPT ![u] = "abandoned"]
  /\ UNCHANGED <<store, selected, session, reqs, jobs>>

SelectChannel(c) ==
  /\ c # selected
  /\ selected' = c
  /\ UNCHANGED <<store, session, phase, reqs, jobs>>

LogInOut ==
  /\ session' = ~session
  /\ UNCHANGED <<store, selected, phase, reqs, jobs>>

-----------------------------------------------------------------------------
(* CleanStaleUploadsForUser.                                               *)

\* Without a session every group is skipped and the job ends at once.
StaleList ==
  /\ Serving /\ stale.pc = "idle" /\ session
  /\ \E row \in uploads : row.stale
  /\ stale' = [pc |-> "delete", group |-> {},
               todo |-> {KeyOf(row) : row \in {x \in uploads : x.stale}}]
  /\ UNCHANGED <<store, env, reqs, pend, chk>>

\* One group per channel: its messages first ...
StaleDelete(c) ==
  LET group == Group(stale.todo, c) IN
  /\ stale.pc = "delete" /\ group # {}
  /\ \E o \in DeleteOutcomes(group) :
       /\ tg' = Surviving(o.gone)
       /\ stale' = IF o.ok THEN [stale EXCEPT !.pc = "rows", !.group = group]
                           ELSE StaleIdle
  /\ UNCHANGED <<lastId, uploads, files, lastFid, env, reqs, pend, chk>>

\* ... then its rows, by channel, user and part id.
NoParts(keys)      == uploads
WithoutParts(keys) == {row \in uploads : KeyOf(row) \notin keys}
StaleRows ==
  LET rest == stale.todo \ stale.group IN
  /\ stale.pc = "rows"
  /\ uploads' = WithoutParts(stale.group)
  /\ stale' = IF rest = {} THEN StaleIdle
              ELSE [pc |-> "delete", todo |-> rest, group |-> {}]
  /\ UNCHANGED <<tg, lastId, files, lastFid, env, reqs, pend, chk>>

StaleCrash ==
  /\ stale.pc # "idle" /\ stale' = StaleIdle
  /\ UNCHANGED <<store, env, reqs, pend, chk>>

-----------------------------------------------------------------------------
(* CleanPendingFilesForUser.                                               *)

\* Without a session no group is formed, and the job goes on to the sweep.
PendList ==
  LET keys == IF session THEN RefsOf(Pending) ELSE {} IN
  /\ Serving /\ pend.pc = "idle" /\ Pending # {}
  /\ pend' = [pc |-> "delete", todo |-> keys, listed |-> keys]
  /\ UNCHANGED <<store, env, reqs, stale, chk>>

PendDelete(c) ==
  LET group == Group(pend.todo, c) IN
  /\ pend.pc = "delete" /\ group # {}
  /\ \E o \in DeleteOutcomes(group) :
       /\ tg' = Surviving(o.gone)
       /\ pend' = IF o.ok THEN [pend EXCEPT !.todo = @ \ group] ELSE PendIdle
  /\ UNCHANGED <<lastId, uploads, files, lastFid, env, reqs, stale, chk>>

\* DeletePendingForDeletionByUser: every row pending now, listed or not.
ListedOnly == {f \in files : f.status = "active" \/ ~(Refs(f) \subseteq pend.listed)}
Swept      == files \ Pending
PendSweep ==
  /\ pend.pc = "delete" /\ pend.todo = {}
  /\ files' = Swept
  /\ pend' = PendIdle
  /\ UNCHANGED <<tg, lastId, uploads, lastFid, env, reqs, stale, chk>>

PendCrash ==
  /\ pend.pc # "idle" /\ pend' = PendIdle
  /\ UNCHANGED <<store, env, reqs, stale, chk>>

-----------------------------------------------------------------------------
(* teldrive check, one channel: files, then messages, then uploads rows.   *)

AnyFiles(c) == Active
FilesOf(c)  == {f \in Active : f.chan = c}

CheckFiles(c) ==
  /\ chk.pc = "idle" /\ session /\ (Idle \/ "online" \in Liberty)
  /\ chk' = [CheckIdle(c) EXCEPT !.pc = "messages",
                                 !.files = FilesOf(c)]
  /\ UNCHANGED <<store, env, reqs, stale, pend>>

\* Telegram's message 1 says that the channel was created; check ignores it, but
\* as long as it is there the list is not empty, and check goes on.
CheckMessages ==
  LET ids == {m.id : m \in {x \in tg : x.chan = chk.chan}} IN
  /\ chk.pc = "messages"
  /\ \/ chk' = [chk EXCEPT !.pc = "uploads", !.msgs = ids]
     \/ ids = {} /\ chk' = CheckIdle(chk.chan)
  /\ UNCHANGED <<store, env, reqs, stale, pend>>

\* Parts after the first missing one of a file are not counted as its parts.
PresentIn(f, ids)  == \A i \in DOMAIN f.parts : f.parts[i] \in ids
PartsSeen(f, ids)  ==
  {f.parts[i] : i \in {j \in DOMAIN f.parts : \A h \in 1..(j - 1) : f.parts[h] \in ids}}

\* loadUploadPartMap: ListPartIDsByChannel.
NoStaged(c)  == {}
StagedIds(c) == {row.id : row \in {x \in uploads : x.chan = c}}

\* The messages are what the client sent, so their sizes add up to the file's.
\* Other messages may add up to it or not, but no parts never do.
Whole(f) ==
  \A i \in DOMAIN f.parts :
    \E m \in tg : KeyOf(m) = <<f.chan, f.parts[i]>> /\ m.up = f.src /\ m.no = i

CheckUploads ==
  LET ids == chk.msgs \ StagedIds(chk.chan) IN
  /\ chk.pc = "uploads"
  /\ \E odd \in SUBSET {f \in chk.files : ~Whole(f)} :
       chk' = [chk EXCEPT !.pc = "mark",
         !.missing = {f.fid : f \in {g \in chk.files : \/ ~PresentIn(g, ids)
                                                      \/ g.parts = <<>> \/ g \in odd}},
         !.orphans = {<<chk.chan, id>> :
                        id \in ids \ UNION {PartsSeen(f, ids) : f \in chk.files}}]
  /\ UNCHANGED <<store, env, reqs, stale, pend>>

\* deleteFilesBulk: the incomplete files become pending,
CheckMark ==
  /\ chk.pc = "mark"
  /\ files' = {IF f.fid \in chk.missing THEN [f EXCEPT !.status = "pending_deletion"]
                                        ELSE f : f \in files}
  /\ chk' = [chk EXCEPT !.pc = "purge"]
  /\ UNCHANGED <<tg, lastId, uploads, lastFid, env, reqs, stale, pend>>

\* and the messages no file or upload names are deleted.
CheckPurge ==
  /\ chk.pc = "purge"
  /\ \E o \in DeleteOutcomes(chk.orphans) : tg' = Surviving(o.gone)
  /\ chk' = CheckIdle(chk.chan)
  /\ UNCHANGED <<lastId, uploads, files, lastFid, env, reqs, stale, pend>>

CheckCrash ==
  /\ chk.pc # "idle" /\ chk' = CheckIdle(chk.chan)
  /\ UNCHANGED <<store, env, reqs, stale, pend>>

-----------------------------------------------------------------------------
Requests ==
  \/ \E r \in Req, u \in Upload, n \in PartNo : StageUpload(r, u, n)
  \/ \E s \in staging : StageInsert(s) \/ StageFail(s)
  \/ \E u \in Upload : UploadsDelete(u)
  \/ \E r \in Req, u \in Upload, via \in {"rows", "parts"} : CreateRead(r, u, via)
  \/ \E k \in creates : CreateCommit(k) \/ CreateFail(k)
  \/ \E r \in Req, u \in Upload : UpdateRead(r, u)
  \/ \E k \in updates : UpdateCommit(k) \/ UpdateFail(k)
  \/ \E r \in Req, f \in files, n \in Name : CopyRead(r, f, n)
  \/ \E k \in copies : CopyFetch(k) \/ CopyPart(k) \/ CopySkip(k) \/ CopyCommit(k) \/ CopyFail(k)
  \/ \E f \in files : DeleteFile(f)
  \/ \E f \in files, n \in Name : MoveFile(f, n)

Environment ==
  \/ \E row \in uploads : Age(row)
  \/ \E u \in Upload : Abandon(u)
  \/ \E c \in Channel : SelectChannel(c)
  \/ LogInOut

StaleJob == StaleList \/ (\E c \in Channel : StaleDelete(c)) \/ StaleRows \/ StaleCrash
PendJob  == PendList \/ (\E c \in Channel : PendDelete(c)) \/ PendSweep \/ PendCrash
Check    == \/ \E c \in Channel : CheckFiles(c)
            \/ CheckMessages \/ CheckUploads \/ CheckMark \/ CheckPurge \/ CheckCrash

Next == Requests \/ Environment \/ StaleJob \/ PendJob \/ Check

Spec == Init /\ [][Next]_vars
=============================================================================
