# teldrive in TLA+

teldrive is a file server whose storage is Telegram. A file is a row of a
PostgreSQL table; its bytes are document messages in a Telegram channel, one
per part. This directory holds models of the parts of the program where
concurrent requests, background jobs, retries and partial failures meet, the TLC
runs that check them, and machine-checked proofs.

Paths below are relative to the root of the repository; `PROJECT.json` gives them
with the prefix `src/`.

## 1. The system

| component | code | state | operations | what is hard | what makes it correct | module |
|---|---|---|---|---|---|---|
| Upload staging | `pkg/services/upload.go`, `upload_staging.go`, `pkg/repositories/upload_repo.go` | `uploads` rows; messages in channels | UploadsUpload, UploadsDelete, reads | the message exists before the row; retries; age | a part whose answer was sent is there when the file is created | `ContentStore` |
| Files | `pkg/services/file.go`, `pkg/repositories/file_repo.go` | `files` rows with `parts` and `channel_id` | create, update, copy, move, delete | read-then-commit; unique active name; two phase deletion | every part of an active file exists, in order, and belongs to it alone | `ContentStore` |
| Maintenance jobs | `pkg/services/queue_executor.go`, `internal/tgc/helpers.go` | none of their own; River rows | clean stale uploads, clean pending files, clean events, refresh folder sizes | messages and rows are deleted in separate steps; batches fail alone; restarts | they delete only what nothing needs, and in the end all of it | `ContentStore`, `FileTree` |
| `teldrive check` | `cmd/check.go` | lists held while it runs | compare a channel with the database, mark, purge | three reads at three times | it marks and deletes only what is broken or orphaned | `ContentStore` |
| Events, polling | `internal/events/polling.go`, `broadcaster.go`, `pkg/services/raw.go` | subscriber slices, channels, queue, `lastPollTime`, dedup map, `events` rows | Subscribe, Unsubscribe, Record, poll, workers, Shutdown | a dozen goroutines, locks held briefly | each stream sees each event once; nothing blocks a request | `PollingEvents` |
| Events, Redis | `internal/events/redis.go` | a Redis subscription per instance, dedup map | Record, subscribe loop, workers, Shutdown | reconnects, duplicates | a stream sees an event at most once | `RedisEvents` |
| Folder tree | `file_repo.go`, `file.go` | `files` rows, `parent_id` | CreateDirectories, ResolvePathID, moves, DeleteBulk, folder sizes | concurrent mkdir, moves and deletions around a walk | names are unique, paths lead back, sizes add up | `FileTree` |
| Listing | `file.go`, `filesquery/builder.go` | none: a cursor at the client | pages of a folder or a search | the folder changes between pages; NULL keys; limits | what stays is listed once | `FileList` |
| Channels and bots | `internal/tgc/channel_manager.go`, `bot_selector.go`, `pkg/services/user.go` | `channels` and `bots` rows, cache, an index | CurrentChannel, CreateNewChannel, select, delete, AddBots, Next | rollover at the limit; a lock that does nothing | a channel stays selected | `Channels` |
| Sync jobs | `pkg/services/imports_jobs.go`, `sync_args_helpers.go`, `sync_chunk_size.go` | workflow tasks, staged rows | SyncRun, SyncTransfer | resume after failure, mirror deletions, waiting for tasks | files are whole, a mirror equals its source, runs end | `SyncJobs` |
| Periodic jobs | `pkg/services/periodic_jobs.go`, `pkg/queue/` | `periodic_jobs` rows, River's registry | create, update, enable, disable, delete, ensure, register | registry and rows change apart | what runs is what is stored | `PeriodicJobs` |
| Range reader | `internal/reader/`, `internal/http_range`, `internal/crypt` | chunk channel, position, nonce | Read, Close | first and last chunk, block and part boundaries, a slow client | exactly the bytes asked for; every download ends | `StreamReader` |
| Login attempts | `pkg/services/auth_attempts.go` | attempts with a queue, a worker, timers | create, commands, delete, clean-up | deadline, clean-up and answers race | an attempt ends, a request is answered | `AuthAttempts` |
| Sessions, tokens, API keys | `internal/auth`, `pkg/services/auth.go`, `user.go` | `sessions`, `api_keys` rows, cache | login, refresh, logout, verify, revoke | fills and invalidations of the cache overlap; the cache fails | what was revoked stays so, but for entries of the cache that section 5 names | `Sessions` |
| Shares | `pkg/services/share.go`, `file.go` | `file_shares` rows, cache, tokens | create, delete, unlock, list, stream | the same | the same of what was removed; a password is asked for | `Shares` |
| Application | `internal/app/app.go` | started hooks | New, Run, stop | failure in the middle, a crash, the grace period | what started is stopped, in reverse, after its users | `AppHooks` |

The components meet in the database and in Telegram. A request or job takes no
lock that another one honours; what orders them is the database transaction
(`WithTx`, read committed) and nothing else. Events are recorded by requests
after their commit. The cache (`internal/cache/`) is modelled where it is used.

The file `PROJECT.json` lists every component with its status, every hazard
with its line, and for every definition of the models the lines it stands for.

## 2. Modules

| module | contents |
|---|---|
| `ContentStore` | requests, both cleaners, check and the environment, interleaved |
| `ContentStoreProps` | its properties and the refinement mapping to `PartLife` |
| `PartLife` | the abstract specification: the life of one message |
| `ContentStoreInv` | the inductive invariants: `IInv`, and `StoreInv`, which adds what is in the messages and what the cleaners leave |
| `ContentStoreSafety` | proofs that every state has its type, of `IInv`, and of what follows from it |
| `ContentStoreRefinement` | proof that every step moves a message only as `PartLife` allows |
| `ContentStoreContent` | proof of `StoreInv` and what follows from it |
| `PollingEvents`, `PollingEventsProps` | the polling broadcaster, streams, workers; their properties |
| `PollingEventsProofs` | proofs of its types and the five safety properties that hold |
| `SyncJobs`, `SyncJobsProps` | a run, its transfers, River's retries and the stale cleaner; their properties |
| `SyncJobsProofs` | proofs of its types and its three safety properties |
| `FileTree`, `FileTreeProps` | the folder tree and the requests that walk it; their properties |
| `FileTreeProofs` | proofs of all of them |
| `StreamReader` | one download, from the Range header to the last byte, with its properties |
| `StreamReaderInv` | its inductive invariant, `ReadInv` |
| `StreamReaderProofs` | proof of `ReadInv` and of its types and both safety properties |
| `FileList`, `Channels`, `AuthAttempts`, `Sessions`, `PeriodicJobs`, `RedisEvents`, `Shares`, `AppHooks` | small components, each with its properties |
| `Services` | the eight small components put together |
| `ServicesProofs` | proofs of their invariants |
| `MC*` | constants for TLC |

Faulty variants of a definition (`PROJECT.json` lists them under `mutants`)
stand before it in its module; no action uses them.

### ContentStore

State: `tg` is what is in Telegram, `lastId` the id counter of each channel
(ids repeat between channels, as in Telegram), `uploads` and `files` are the
tables, `selected` and `session` are the user's selected channel and whether a
Telegram session is stored. `staging`, `creates`, `updates` and `copies` hold
requests between two of their statements; `stale`, `pend` and `chk` are the two
jobs and the check command with what they have read. `phase[u]` is what the
client of an upload believes.

Granularity: one action per database transaction or statement and per Telegram
call. `FilesCreate` and `FilesUpdate` are a read of the rows and a commit
(`CreateRead`, `CreateCommit`), `UploadsUpload` a send and an insert, `FilesCopy`
a read, a fetch of the documents, one send per part and an insert. Each has an
action that fails at that point: an error return, a rolled back transaction or
a stopped server. The jobs are list, delete one channel's messages, delete rows;
they may stop between any two. Check is four reads and writes.

Abstractions: one user (all statements filter by it), one folder, no folders
among the files, content as a pair of upload and part number. Sizes appear only
where check compares them: parts that are what the client sent (`Whole`) add up to
the file's size, no parts never do, other messages may or may not. Clients are
taken to send the size of a file (without it, `pkg/services/file.go:793` takes the
sum of the rows there are). A row's age is
one bit, `stale`. `DeleteOutcomes` gives what `tgc.DeleteMessages` may have done: a single
batch does all or nothing and may report an error either way; with several
batches each is on its own, and because the goroutines share one `err`
variable, success may be reported although a batch failed. Telegram's message
1 (the channel's creation) is left out of the ids, so the model's ids start where
a channel's documents do. A copied document outlives the message that it was
read from, as in Telegram.

Clients. What clients do is not in the repository's Go code, so it is a
parameter. `Liberty = {}` is a client that sends the same channelId with every
part and with the file, finalises once when every part was acknowledged, within
the retention, and an operator who runs check on an idle server. The liberties
`slow`, `retry`, `default` and `online` lift these one by one. `Disciplined`
also asks that files are made from the uploadId and not from a list of parts.

### PollingEvents

State: `mem` and `subscribers` are Go's slices: an array that `append` writes in
place or copies, and that `Unsubscribe` shifts in place, and the header that a
broadcast reads under the lock and uses after it. `stream`, `buf` are handlers
and their channels, `rec`, `queue`, `saving`, `stored` the way of an event from
Record to the table, `polling`, `lastPollTime`, `pollers`, `recentEvents` the
poll goroutines. `startedAt`, `lastTick`,
`punctual`, `overrun`, `polls` and `panicked` are history.

An action is what happens under one lock or in one channel operation. The
switch of polling after Subscribe and Unsubscribe is an action of its own
(`StartPolling`, `StopPolling`), as the code counts under `subMu` and switches
under `pollMu`. Merged into one action: reading the flag and the clock at a
tick; stopPolling and cancel in Shutdown. Abstracted: one user, no type
filters, ids that never expire from the deduplication map (30 minutes), a clock
that grows with every read. Time is not metric: `Close` may come while a
broadcast is still running, which needs it to outlast 100 ms.

### SyncJobs

`dest[p]` is what the drive has at the path `p`, `rows[p]` the staged rows of the
transfer of `p`, `run[r]` and `task[r][p]` the jobs as River stores them together
with where their worker is. A transfer opens the source, refuses an empty one and
makes the folders (`OpenSource`), looks for rows to go on from (`Resume`, `NextPart`), stages a part
at a time, reads the rows (`CreateFile`) and commits the file (`CommitFile`).
It may fail, crash or time out in each state (`FailTransfer`) and be cancelled;
River runs it again until `MaxAttempts`. A run lists, deletes what is extra one
entry at a time, inserts its tasks in one transaction and then snoozes until they
have ended. What it deletes is what it saw of the destination: `FilesList` gives no more than
`PageCap` entries of a folder and the walk gets no cursor, so of a larger folder it
sees any `PageCap` of them (`Views`), and not what lies below the others; `all` is
history: no folder was too large. `Source` is what the filters of a run leave of what the remote
lists; the source does not change. The stale cleaner is that of `ContentStore`,
reduced to the rows. `Liberty` lifts two conditions: `stale`, that the cleaner leaves
rows alone that an attempt would resume from (an attempt may come days after
the one before, since River backs off); `overlap`, that runs into one
destination follow each other.

### FileTree

`files[i]` is a row. A request walks its path a name at a time, a query each
(`WalkFound`, `WalkMissing`), and then inserts or updates; deletion, purge and
the refresh of sizes are one statement. The unique index is `Unique`; an insert
that meets it reads again who was first (`OnConflict`). `calm` and `left` are
history and a bound. When a move begins its destination is not below the entry,
as far as the client sees; moves run beside each other, and two of them may still put two folders
below each other, in the model as in the code, which takes no lock. No name
begins with `root` (section 5 says what happens otherwise). Content is `size`: a
file has 1.

### StreamReader

Bytes are positions. A request is `Parse`d, cut into ranges of the parts
(`OpenPart`), and each is read either directly or through the decrypter, which is
a state machine: header, fill a block, serve it. Under both lies the multi
reader: `producer` is its goroutine, `batch` the chunks of one round of fetches,
`buffers` the channel and `cur` the chunk at hand. A nonce is a number
of digits, the lowest first, to which `Increment` and `Add` carry: `Add` adds to the low digits
at once what the code adds digit by digit, and carries on as the code does. `Seals` is the
nonce that each block was sealed with, one increment after another; `Opens` says
when a block can be decrypted. `Halved` is the loop of `CalculateChunkSize`.
`Close` ends the goroutine and both readers of a part: at the end of a request, and
when `MoveToNextPart` goes on to another part. `wrong` is history: a byte went out that was not
the one at its position. All sizes are constants, small in the run; the code's
values are in comments.

### The small components

* `FileList`: one listing, page by page; every page is a query by (key, id)
  with the cursor of the page before, while others change the folder.
* `Channels`: an upload looks up its channel and bot, through the caches, and
  rolls over to a new channel; a user creates, selects and deletes channels and
  adds bots. Transactions update rows one by one and hold them until they commit.
* `AuthAttempts`: an attempt, its queue, worker and timers, and the requests to it.
* `Sessions`, `Shares`: a table and the cache in front of it. A check reads the
  table and then fills the cache; a revocation writes the table and then drops
  cache entries, which the cache may fail to do: the code ignores its errors, and
  the request may be cut off before. Each is a step.
* `PeriodicJobs`: a request reads the row, writes it, and changes River's
  registry with what it has in hand; a restart builds the registry from the
  table. Arguments may come from an earlier version of the program (`Outdated`); they are
  normalised whenever a row is read. A request may fail after it wrote the row, on
  the second read or because the answer to the write is lost. `off` has the jobs
  left by such a request or by requests that overlapped (`mixed`).
* `RedisEvents`: two instances, their subscriptions, which are lost and come
  again, the messages that go-redis keeps, streams and the database queue.
* `AppHooks`: the hooks of the server, opened, started and stopped in order,
  with the work that uses them.

`Services` runs one of them (`part`) while the others rest. They share no
variable, so no state of one is missed; putting them together only saves runs.

## 3. Runs

Bounds are named in the `.cfg` files. The ContentStore runs that check safety
use symmetry over the request slots, the PollingEvents runs over streams, events
and poll goroutines, `tree` over names and requests; runs with liveness
properties use none.

| run | expects | properties | what it shows |
|---|---|---|---|
| `requests` | pass | PartsPresent, Reassembles, OneHolder, StoreInv, StaleCleanerNoLeak, KeepsPromise | two uploads, two requests at a time, two parts, one channel: files are created and updated between the cleaners and check |
| `copies` | pass | NoFalseMissing, SweepAfterPurge, KeepsPromise | the same message ids in two channels; two names, so copies and moves |
| `free` | pass | TypeOK, RowXorFile | retried requests, no channelId, old rows, files from a list of parts, deletions in several batches |
| `live` | pass | AbandonedCleaned, DeletedSwept | the cleaners get done |
| `streams` | pass | SnapshotStable, ExactSubscribers, LazyPolling | three streams, two pollers |
| `polls` | pass | TypeOK, PolledOnce, PunctualPolled | two pollers that share `lastPollTime`, over a longer time; full channels |
| `sync` | pass | TypeOK, TransferredWhole, Mirrored, SourceKept, RunsEnd | a copying and then a mirroring run, with failures, resumption and cancellation, over seven destinations |
| `resume` | violation | TransferredWhole | the cleaner removed the oldest rows before a transfer resumes (section 5) |
| `tree` | pass | TreeTypeOK, RoundTrip, SameFolder, SizesAddUp | two requests walk and change a drive of up to three entries |
| `pages` | violation | ListedOnce | a client asks for longer pages than the cap (section 5) |
| `services` | pass | ServicesTypeOK, ListedOnce, SomeSelected, NothingRevived, InStep, StreamedOnce, ClosedAfterUse, AttemptsEnd | the eight small components |
| `reading` | pass | ReadTypeOK, InOrder, WholeUnlessDisturbed, DownloadEnds | every range of three files, plain and encrypted |

`requests` and `copies` check the refinement: `KeepsPromise` says that the state
of every message, computed by `Life` from the tables and the channels, makes only
moves that `PartLife` allows.

Why the bounds are enough. The hazards of ContentStore involve two actors and
one upload or file each: a request against another one, a cleaner or check.
Two uploads let a file replace another one's content; two parts give an order to get
wrong; two channels with the same ids give a key to mistake; three messages let
a copy or a replacement exist beside the original; `BatchSize = 1` (in `free`)
makes every deletion of two messages one of several batches, 100 one of a single
batch; `StaleCleanerNoLeak` and `SweepAfterPurge` hold for a single batch only,
because with several the shared `err` can hide a failure. `SweepAfterPurge` is
about the keys that the job listed with a session; the sweep takes other rows, too (section 5).

In PollingEvents three streams are the least for a shift that passes over a stream
that stayed, and two poll goroutines the least for a race between them;
the `MaxTime = 5` of `polls` leaves time to switch polling on, record an event and
poll three times, or to do so with polling switched on twice.
With one event the `LIMIT` of `GetSince` is never reached; `PunctualPolled` says
nothing about a poll that reaches it (`overrun`), which loses the newest events.

In `sync` a file of two parts is the least that can be resumed in the middle,
the other file lies two folders deep, and the remote also lists an empty file and
files that filters leave out. The seven destinations have every kind of obstacle: older and
current versions, extra files and folders, a file where a folder belongs and the
reverse, and a folder with more entries than a page of 3. Two attempts let a job fail once and once for all. `tree` has names that
collide (two names, paths of up to two) and requests that meet while both walk;
three ids are enough for a folder in a folder with a file in it. `reading` takes
parts of 5, 5 and 3 bytes, and uneven ones, with blocks of 2 bytes, headers of 1
and 3, chunks of 1 to 4 and batches of 2, so that ranges begin and end on, before
and after every kind of boundary and the nonce overflows its low digits. In
`services` two requests, callers or instances at a time meet in each part, for
as many requests as its properties take to break, and one more; a queue of 2
is full at once, and pages of at most 2 are shorter than what is listed.

Deadlock is not checked: the bounds on messages, files, requests and time end every
behaviour, and the program itself may be idle for ever.

Fairness.

* The jobs of ContentStore are periodic (`0 */12 * * *`, enabled by default,
  `pkg/services/periodic_jobs.go`) and River retries a job that failed, so a job
  comes again and again: `SF` on its listing, its deletion of rows, and on
  Telegram accepting a deletion. `SF` and not `WF`, because a session may be
  missing or the process may stop in between, time after time. Time passes (`Age`)
  and a user who uses the program logs in again (`LogInOut` to a session). Nothing
  is assumed of clients. Check is assumed to end, as an idle server is a
  condition for it and it is a command.
* SyncJobs: River's workers go on with every job that is inserted, so `WF` on the
  work of a run and of a transfer. Failures are not fair, and bounded by
  River's attempts, not by the model.
* StreamReader: a fetch answers, fails or times out (`internal/reader/tg_reader.go` gives each chunk a timeout), the
  goroutine and the handler go on, and the client reads; a client that does
  not read disconnects in the end.
* AuthAttempts: timers fire, and the worker notices that its context is done.
  Telegram need not answer.

PollingEvents has no liveness property.

Every property of a passing run has a faulty variant of one definition under
which TLC finds the property violated: rows not deleted with the file, ids
compared without their channel, errors of a deletion ignored, a cursor that
compares keys without ids, hooks stopped in the order of their start, a nonce
that is kept, and so on.

## 4. Proofs

All for any values of the constants that satisfy the named assumptions: any sets
of channels, uploads, requests, streams, jobs and instances, any drives, and any
bounds. What a theorem asks for beyond that stands in its statement and below.

| theorems | of | under |
|---|---|---|
| `TypeCorrect` (ContentStoreSafety) | TypeOK | any liberties; needs that `uploads` is finite, as a file's parts are the rows in an order |
| `SafetyInvariant`, `PartsArePresent`, `MessagesHaveOneHolder` | IInv, PartsPresent, OneHolder | `Disciplined` |
| `FilesReassemble`, `CheckMarksNoFile` | Reassembles, NoFalseMissing | `Disciplined` |
| `StoreInvariant`, `StaleRowsLeaveNoMessage`, `SweptFilesLeaveNoMessage` | StoreInv, StaleCleanerNoLeak, SweepAfterPurge | `Disciplined` and `[]OneRequest` |
| `NoRowOfAFile` | RowXorFile | `UsesOne(main)`, any liberties |
| `StoreImplementsPartLife` | KeepsPromise: ContentStore implements PartLife | `Disciplined` |
| `TypeCorrect` (PollingEventsProofs), `SubscribersExact`, `BroadcastsStable`, `PollingIsLazy`, `PolledAtMostOnce`, `PunctualIsPolled` | TypeOK, ExactSubscribers, SnapshotStable, LazyPolling, PolledOnce, PunctualPolled | |
| `TypeCorrect` (SyncJobsProofs) | TypeOK | any liberties |
| `MirroredHolds`, `SourceIsKept` | Mirrored, SourceKept (an action property) | `OneAfterTheOther` |
| `TransferredIsWhole` | TransferredWhole | `SameParts` |
| `TreeTypeCorrect`, `PathsRoundTrip`, `FoldersAgree`, `SizesAlwaysAddUp` | TreeTypeOK, RoundTrip, SameFolder, SizesAddUp | |
| `ReaderInvariant`, `ReadTypeCorrect`, `InOrderHolds`, `WholeHolds` | ReadInv, ReadTypeOK, InOrder, WholeUnlessDisturbed | |
| `ServicesTypeCorrect` | ServicesTypeOK | |
| `ListedOnceHolds` | ListedOnce | `Asked \subseteq 1..MaxPage` |
| `SomeSelectedHolds`, `NothingComesBack`, `InStepHolds`, `StreamedOnceHolds`, `HooksCloseInOrder` | SomeSelected, NothingRevived, InStep, StreamedOnce, ClosedAfterUse | |

What the conditions mean.

* `Disciplined`: the clients of section 2. It cannot be dropped: with the liberty
  `slow` or `default` alone TLC finds `PartsPresent` violated (section 5).
* `OneRequest`: the messages of every group that a cleaner deletes fit one call of
  ChannelsDeleteMessages (`BatchSize`, 100). With more, one batch's success can
  hide another one's failure in the shared `err`, and rows go while messages stay.
* `UsesOne(main)`: everything is in one channel. An update whose rows are gone
  takes the channel that it names for the parts the file has
  (section 5), and a message of that channel may have the same id.
* `OneAfterTheOther`: no two runs into one destination at a time (`overlap`).
* `SameParts`: that, and no cleaning between attempts (`Liberty = {}`); all runs have
  one part size and one choice of encryption, since the upload id that rows are
  found by depends on neither, and files that are up to date at the start are
  whole. Runs `resume` and the hazard at `imports_jobs.go:815` are what it excludes.
* `Asked \subseteq 1..MaxPage`: run `pages` is what it excludes.
* `TreeAssumption` is about the drives that FileTree starts from: rows of the
  right kind, one of each name in a folder. That nothing is below itself is not
  assumed; no proof needs it.
* `BlocksAssumption` is about the files that StreamReader serves: the number of a block fits the
  low digits of a nonce. In the code that is fewer than 2^64 blocks of 64 KiB,
  and `add` takes a `uint64`. `ReaderAssumption` only asks that sizes are
  positive, parts are not empty, and nonces have `NonceDigits` digits in a base of at
  least 2; blocks, chunks, batches, the channel and the client's buffer may have any
  size, and none has to divide another.
* `InOrder` and `WholeUnlessDisturbed` speak of even parts (`Even`) themselves;
  section 5 says what the code does with others.

The invariants. No property of ContentStore is inductive: a cleaner holds keys
that it read earlier, and a request holds rows that it read earlier. `IInv` says
when a message is live (an active file, a copy in progress, an upload that was
not abandoned or a part about to get its row needs it) and that

* `Present`: live messages exist;
* `DoomedNotLive`: what a cleaner or check has listed for deletion is not live,
  so deleting it keeps `Present`;
* `Exclusive`: a message has one holder, so what stops being live for one is
  not live for another;
* `Fresh`: ids are above all known ones, so a new message is nobody's;
* `InFlight`, `Phases`: a request between read and commit is the only one of its
  upload, and the rows that it read are still there;
* `Checking`: while check runs nothing else does, and its lists are accurate.

Each action is a lemma with one step per conjunct; `Exclusive` and the set of
live keys are operators on sets of files, rows, staged parts and copies, and
what happens to them (a row is added, a file takes the rows' messages, ...) is
stated in lemmas without actions. On `IInv` rest three more parts of `StoreInv`:

* `Recorded`: a message has one row, and a job that is about to delete it has found
  that row stale, or none. The refinement needs it;
* `Content`: a message has one content, and whoever holds it takes it for what it
  is: rows, parts on their way, what a request has read, files and copies;
* `Purged`: what a job listed with a session, asked Telegram to delete, and was told
  is deleted, is gone. It says nothing of rows that the job did not list.

The refinement mapping `Life` is computed from the sets of keys that are owned,
doomed, expired, staged and in Telegram. The proof says for each action which keys enter and leave
which set; that the sets overlap only where `PartLife` allows a choice follows
from `IInv` and `Recorded`. `PartLife` makes one move per part and step.

`Separate`, behind `NoRowOfAFile`, needs no discipline: a key is in a row or a file
because a commit moves it in one transaction, whoever sent the request.

PollingEvents. `SlicesOK` says of every header, the current one and those that
broadcasts have in hand, that it lies within its array, and that the current one is
not shorter than one of a broadcast in the same array, as long as nobody left; so
`append` writes behind what a broadcast reads. `Times` orders the clock, `lastPollTime`
and what each goroutine read; `Polled` says that an event stored in time is in hand
or was broadcast when it is older than the time a goroutine queries from, or than the one
it is going to set.

SyncJobs. `Turns` puts runs in order; `Walked` says that a listing to which every folder
fits is the whole destination; `Doomed` that what a run is
about to delete is extra now, and `AllDoomed` that it is all that is extra, if the run
mirrors and saw every entry (`Clears`); `Tree` and `Opened` that a
file has its folders, once a transfer has made them; `Settled` that a run that
only waits has what it promises, for each task that is done, and nothing else if
it clears. `Staged`, behind
`TransferredIsWhole`, says that the rows of a transfer are its first n parts in
order, at every point where an attempt may end.

FileTree. `TreeInv` says that a name in a folder is one row, and of a request on
its way that it stands where the part of its path that it walked leads. With one row per
name a path has one walk; an entry that is shown with a path has been climbed from
to the root, and the walk down is that climb reversed. A climb that reaches the
root passes no entry twice, so it is at most as long as there are
entries; cycles, which moves beside each other can make, are out of sight and no
proof excludes them. The sum over folders counts a file once, as its folder is
one. That the functions defined by recursion (`Above`) exist is proved by
taking a least number at which the claim fails, which the library's
well-founded induction would need an operator for.

StreamReader. `BaseInv` holds of every file: the range is the one that was asked for,
what was given is less than the range until it is whole, and a part is open only while one
is left. `EvenInv` says for even parts where everything stands, and
is what makes the properties inductive: that a byte is right depends on the
block that was filled, that on the chunks that wait, and those on what the goroutine
will still fetch.

* `Place`: a request between two parts has given all up to the first byte of the next one.
* `InLine` (`Source`): `cur`, the channel, the batch and the chunks still to be cut follow each other
  without gaps, from the next byte of the source (`At`) to its end (`Stop`), and the
  end is within what is stored; so the slice of a chunk exists (`Exists`) and no fetch panics.
* `Plain`: without encryption the next byte of the source is the next one for the client.
* `Header`, `Block`: with it, the decrypter has read a part of the header, or fills the
  block of the next byte from that block's beginning with the nonce that
  sealed it, or serves what it decrypted, up to the end of that block, with the nonce of
  the next block in hand.

Three facts about data carry it, each for any input: `BlocksAre`, that
`calculateUnderlying` skips and reads exactly the blocks from the one of the first byte
to the one of the last; `AddIsSeal`, that adding b to a nonce gives what b
increments give, also when the low digits overflow; and that chunks cut at
multiples of a size that was halved until it fits cover a range. Halving, the powers of the base,
the value of a nonce and the seals are functions defined by recursion; that they exist, and what
they satisfy, is proved as in FileTree by a least number at which
the claim fails. Each action has a lemma for `BaseInv` and one for `EvenInv`. TLC had checked the parts of `ReadInv`, over finite sets, on the instance of
`reading` and on one with larger blocks, batches and channel, before they were proved.

The small components.

* `LiInv`: what a listing has given is what precedes its cursor in the order of the
  page (NULL keys last), among what stayed; the cursor splits what was given from what is to come.
* `ChInv`: a transaction that is about to commit has written its own channel as
  selected, whatever others wrote meanwhile, and only deletions remove rows; a
  selection by the user has either found its row in the list or written it.
* `SeInv`, `ShInv`: what is cached and revoked is what a revocation under way still has to
  drop, which is told by where it stands, or what a check filled in that had read before, or
  what the cache kept when it was to be dropped (`stale`, `late`); a
  cached share agrees with the table on its password.
* `PjInv`: of a job outside `off` and `mixed`, the one request at work
  has the row of the table in hand once it read or wrote it, and until it writes
  the registry is what is due for that row; when none is at work it is due anyway.
  `Alone` says so stage by stage. A lemma for a request that goes on (`Taking`) and
  one for a request that ends (`Leaving`) do for nearly all actions.
* `SeenInv`: what a stream was given its instance has seen, and once.
* `AppInv`: what is open or has work is at or below the hook that the start has
  come to or the stop has not.
* `ChBounded`, `AtTyped`, `ReTyped`, `LiTyped`: what `ServicesTypeOK` needs beside these. The
  stored turn of the bots stays below the length of the longest list there can be, as every list a
  caller has in hand was once that of the table or the cache. That it is an index of the list at
  hand is not said, and false (section 5). What waits for the database
  was recorded.

The theorems about them are of `ServicesSpec`, so they are about what run
`services` checks; `PartsStep` says that a step of it is a step of one of them
and leaves the others alone.

`StoreInv` is an invariant of run `requests`, and `ReadInv` stands in `StreamReaderInv`; the other
inductive invariants stand in the modules of their proofs, which TLC does not read.

Only model-checked: `AbandonedCleaned`, `DeletedSwept`, `RunsEnd`, `AttemptsEnd` and
`DownloadEnds`, liveness under fairness, which TLAPS cannot prove. Every invariant and
action property of a passing run is stated by a theorem.

## 5. Findings

| run | the code | says otherwise |
|---|---|---|
| `resume` | a transfer whose oldest rows the stale cleaner removed stages its parts again beside the rows that stayed, and `FilesCreate` makes a part of every row: the file has a part twice (`pkg/services/imports_jobs.go:645`) | `docs/docs/guides/jobs-and-sync.md:62` |
| `pages` | the query caps a page at 100 rows, the cursor is given only if the page is as long as the client asked: with the default of 500 a folder ends after 100 entries (`pkg/services/file.go:531`) | `openapi/openapi.yaml:3154`, `2195-2205` |

Disagreements that the models show when such a property is stated or such a
condition lifted, without a run here:

* `ListStale` goes by `created_at` alone: parts of an upload in progress are
  deleted when they are older than the retention (`Liberty = {"slow"}`, PartsPresent),
  against `docs/docs/guides/jobs-and-sync.md:63`.
* `FilesCreate` without channelId takes the channel that is selected now, the parts
  are in the one selected then (`Liberty = {"default"}`, PartsPresent); SyncTransfer
  works this way, against `jobs-and-sync.md:62`.
* Polling is switched after the lock is released: streams without polling
  (`PollsWhileSubscribed` in `PollingEventsProps`, against `polling.go:142`), and a
  broadcast may send to a closed channel (`NoSendAfterClose`, against
  `polling.go:202`).
* `check` beside a running server (`Liberty = {"online"}`) deletes the parts of a
  file that is created between its reading of the files and of the uploads rows;
  `cmd/check.go:104` and `docs/docs/cli/check.md:4` do not ask for an idle server.
* Record broadcasts at once and poll broadcasts the stored event again, which
  `polling.go:217` and `223-224` deny.
* Polling that is switched off and on within one tick leaves two poll goroutines
  running, against `polling.go:43`.
* An event that a worker stores after the poll that covers its `CreatedAt` is
  never polled, against `polling.go:223`.
* A broadcast over a slice that Unsubscribe shifts in place passes over a stream
  that stayed, against `broadcaster.go:176`.
* `acquireAdvisoryLock` does nothing, against `channel_manager.go:72`: rollovers and
  selections that overlap leave two selected channels; `SomeSelected` is what holds.
* `cache.Fetch` reads the table and then sets the key (`internal/cache/cache.go:155`): a
  check that had read before a revocation caches the session, key or share again
  (`stale` and `late`, which `NothingRevived` excludes).
* The errors of `cache.Delete` and `DeletePattern` are ignored
  (`pkg/services/auth.go:220-221`, `user.go:303`, `321-322`, `file.go:447`), and the request may be cut off
  after it wrote the row: what was revoked stays cached (also `stale` and `late`), a key for
  a day, a session until it is evicted, as it is cached without an expiry.
* The turn of the bots is kept while their list shrinks, and
  `bots[idx]` panics (`internal/tgc/bot_selector.go:56`). The request of the model
  starts again then.
* A periodic job whose row was inserted is read again before it is registered; if
  that fails, the enabled row is not registered until the next request that
  registers it or a restart (`pkg/services/periodic_jobs.go:107`, `520`). So is
  an update whose answer is lost. `InStep` excludes such jobs until then (`off`).
* A run of the sweep deletes every pending row, also those marked after it listed and, without a
  session, all of them: their messages stay (`pkg/repositories/file_repo.go:428`,
  `pkg/services/queue_executor.go:188`; `SweepAfterPurge` speaks of the listed ones only).
* A file or folder that another one is moved onto is deleted at once, its messages
  stay (`pkg/services/file.go:664`).

Seen while modelling, outside of what the models can show or excluded from them:

* An API key stays cached for a day, beyond its own expiry
  (`internal/auth/auth.go:230`); a share is cached without regard to its expiry
  (`pkg/services/share.go:224`).
* `FilesEditShare` updates the share whose id is that of the file
  (`pkg/services/file.go:465`), so an edit changes nothing
  (`openapi/openapi.yaml:946`).
* Listing by size stops with a nil pointer when a page ends with a row without a size
  (`pkg/services/file.go:538`; `FileList` has it as the state `failed`).
* A folder can be moved below itself, by one request or by two that move two folders
  below each other at a time (`pkg/services/file.go:622`); the recursive
  queries over the cycle do not end (`pkg/repositories/file_repo.go:548`). FileTree has the
  second kind only.
* `ensurePeriodicPresetArgs` never finds arguments to update, since the row it is
  given was normalised when it was read (`pkg/services/periodic_jobs.go:442`, `551`): the
  table keeps the old ones, which does no harm, as every reader normalises them.
* A FilesUpdate with an uploadId whose rows are gone, and a channelId, leaves the file its
  part ids and moves them to that channel (`pkg/services/file.go:809`).
* Paths whose first name begins with `root` are not resolved
  (`pkg/repositories/file_repo.go:599`, `655`).
* Ranges of a file whose parts are not equally long give wrong bytes or stop the
  program (`internal/reader/reader.go:72`; `InOrder` and `WholeUnlessDisturbed` hold
  for even parts, which the clients make).
* `extraDestinationEntries` asks for pages of 1000 and gets 100
  (`pkg/services/imports_jobs.go:419`), so a mirroring run that completes may leave
  extra entries in a large folder. `Mirrored` asks that nothing extra is left only of a run that saw
  every entry (`all`).
* Shutdown of the HTTP server waits for event streams, which do not end by
  themselves, so that the grace period is used up (`internal/app/app.go:128-160`).
* Events that wait in the queue at shutdown are stored with a cancelled context and
  lost (`internal/events/polling.go:236`).

## 6. Plan

Done: ContentStore, with proofs of its safety and of its refinement of PartLife;
PollingEvents, SyncJobs, FileTree and StreamReader, with proofs of their safety;
the eight small components, with proofs of all their invariants.

Modelling to come: cancellation of a run while its tasks go on (`overlap`) with a
property of its own; a source that changes between attempts; SyncJobs composed
with ContentStore's channels.

## 7. Not modelled, and why

See `components` in `PROJECT.json`. Cryptographic transforms and hashes are
data; remote file systems and the Telegram transport are input and output;
River, PostgreSQL, Redis and Go's runtime are external and appear as what they
guarantee. `internal/tgc/client_pool.go` is used by nothing in the program.
Configuration, logging, HTTP plumbing and generated code hold no
state that the properties speak of. Reading endpoints (statistics, categories,
listings of jobs, events, channels and sessions) change nothing. UsersSyncChannels,
the bot selector in Redis and the removal of old events are a loop of upserts,
an atomic increment and one statement.
