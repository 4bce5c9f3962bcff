# A verification project for THLS

THLS (`Telegram-HLS-Streamer-v2`, `src/`) is one server process, in Rust, that takes
video uploads, turns them into HLS segments with FFmpeg, stores the segments as
Telegram documents, keeps its records in SQLite and serves playback, and the pages
it serves, whose scripts (`src/static`) upload files in chunks, watch, browse, edit
and configure. This directory holds TLA+ models of the parts where concurrency and
failure are hard, on both sides, TLC configurations that check them, and TLAPS
proofs of their main properties.

Paths below are relative to the root of the repository's sources: `src/api` is the
directory of that name in the crate, `static` holds the scripts of the pages.

- [1. Inventory](#1-inventory)
- [2. Modules and how they correspond to the code](#2-modules-and-how-they-correspond-to-the-code)
- [3. What the runs check](#3-what-the-runs-check)
- [4. Assumptions: bounds, fairness, environment](#4-assumptions-bounds-fairness-environment)
- [5. What is proved](#5-what-is-proved)
- [6. What is not modelled](#6-what-is-not-modelled)
- [7. Known defects](#7-known-defects)

## 1. Inventory

| Component | Code | State it keeps | Operations | What makes it correct |
|---|---|---|---|---|
| job lifecycle | `src/api/jobs/{processing,processing_lifecycle,handlers}.rs` | jobs map (status, cancel request, shared cancel flag), job channel, semaphore, rows of `jobs`, source files, processing directories | submit, dispatch, process, cancel, time out, forget, delete, recover | one verdict per job, permits balance, row and entry agree, nothing left on disk, every job settles |
| URL ingest | `src/api/ingest.rs` | an entry in the jobs map, a file under `uploads/` | download, then submit | a failed or cancelled download ends its job and row |
| chunked upload | `src/api/uploads.rs` | map of pending uploads, files under `uploads/`, rate limits | init, chunk, finalize, status, sweep, clean-up at start | counts agree with the chunks stored, one writer per chunk, one job per upload, no leaked file |
| playback | `src/api/playback/` | segment cache, map of flights, played set, segment metadata cache, disk cache files | serve real, reconstructed and virtual segments, prefetch, warm up | one fetch at a time per key, no waiter left behind, budget respected |
| watch folder | `src/api/watch_folder.rs` | settings file, sizes and times of files seen | scan, stability check, rename, submit | a file is submitted once and not lost |
| DB sync and transfer | `src/api/db_transfer*.rs`, `src/db/transfer.rs` | snapshots, descriptor in settings and `.env`, the live database and its pool | snapshot, upload, bootstrap merge, import, replace | the newest snapshot is the one restored; a replacement loses no job |
| Telegram runtime | `src/telegram/`, `src/api/jobs/processing_upload.rs` | health and failure counts per bot, per-bot upload locks, next bot index | assign bots, upload with retries, download | bots are used evenly, rate limits obeyed, nothing sent twice needlessly |
| media pipelines | `src/media/` | files of one job | probe, encode tiers, split, markers | sequential inside one worker |
| database | `src/db/` | SQLite schema and migrations | queries | migrations are idempotent |
| settings and bots | `static/settings.js`, `src/api/bots_settings.rs`, `src/config.rs` | table, `.env`, process environment, live configuration; fields and rows of each page | load, edit, save, reset, add and delete a bot, restart | memory and table agree; a save changes what was changed |
| upload page | `static/upload.js` | selected files, runs, workers, the record in localStorage, the table of metadata | select, start, send with retries, resume, finalize, poll, cancel, reload; edit, search, link | every counted chunk is stored, an upload is one file, a cancel holds, a run ends, metadata reach their own file |
| watch page | `static/watch.js`, `src/db/queries_playback.rs` | player, listeners, positions in localStorage and on the server, the edit box | play, seek, save, resume, recover; edit, search, link | no position goes back, one recovery, page and server agree on an edit |
| browsing | `static/browse.js`, `browse-home.js`, `browse-palette.js`, `shared.js` | grid, pages, seasons, pill, palette | search, more, delete, edit, select a season, poll | what is shown answers what was asked |
| metadata | `src/api/metadata.rs`, `src/api/jobs/processing_markers.rs` | links of jobs, fields of rows | link, automatic link, rename a series, normalise | a link is what was chosen |
| playlists, auth, tunnel | `src/api/playlists.rs`, `auth.rs`, `src/cloudflared.rs` | single rows, text | requests and answers | little concurrency of their own |

**How they interact.** Upload finalize, watch folder, reprocess and URL ingest all
submit through `enqueue_job`, which puts an entry in the jobs map, a marker row in
SQLite and a request in a bounded channel. `job_dispatcher` takes requests, waits
for a permit and spawns `process_job`, which runs FFmpeg, uploads to Telegram and
saves the rows. Cancel handlers and the timeout watcher reach the worker through
the jobs map and a shared flag. A finished job triggers a DB sync and webhooks.
Playback reads the rows, fetches documents from Telegram into the cache, and, once
every segment of a job was played, deletes a retained source. The pages talk to
the server by requests they mostly do not wait for, share state between the
continuations of those requests, and keep records of their own in localStorage.

**What is hard.** tokio may switch tasks at every await, so every handler is a
sequence of short critical sections with others in between; hyper drops the future
of a handler whose client has gone; SQLite calls can fail and are mostly logged
and forgotten; the process may stop at any point, and only rows and files survive. A
page's script runs uninterrupted from one await to the next, but two of its
functions interleave at every await, answers come in any order or never, and the
element, object or variable a continuation goes on with may belong to something else
by then.
`PROJECT.json` lists the hazards one by one with the property that covers each.

## 2. Modules and how they correspond to the code

| Module | Role |
|---|---|
| `JobLifecycle` | URL ingest, submission, channel, dispatcher, worker, cancel, watcher, shutdown, restart |
| `WorkerPool` | abstract: a bounded pool that runs every request at most once |
| `SingleFlight` | playback: cache, flights, leaders, followers, guards |
| `ChunkedUpload` | the upload protocol, its sweeper and its clean-up |
| `UploadPage` | the upload page against the server of the uploads |
| `Settings` | settings pages against the handlers of settings and bots |
| `Browse` | grid, seasons, pill, home page and command palette against the library |
| `WatchPage` | watch page and home page against the stored positions |
| `Metadata` | the table of the upload page, its run, and the edit box, against links and rows |
| `MC...` | model values and small sets for TLC |
| `..._proofs` | theorems and proofs about the module of that name |

In every module one action is the code between two points at which another task
may run: a critical section of the mutex, one SQLite statement, or one file
operation; of a page, what its script does from one await to the next. Where the guards or updates of several handlers are the same idea
(`Stop`, `Refuses`, `Updated`, `Busy`, `Resume`, ...) they are one operator. The
operators whose names end in `_Slip` (and `StartTask_NoWait`) are deliberately
wrong variants: swapped in for the operator of that name they show that each
checked property can fail. No specification uses them.

### JobLifecycle (`src/api/jobs`, `src/api/ingest.rs`, `src/main.rs`)

`mem`, `cancelReq` and `flag` are the entry's `status`, `cancel_requested` and
`cancel_flag`; `db` is the status column of the row; `sub` is the control state of
the submitting task and `wk` that of `process_job`; `queue`, `open`, `held` and
`permits` are the channel, its receiver, the request the dispatcher holds and the
semaphore; `sweep` is the watcher's list; `cancelling` a cancel handler between its
critical section and its row update; `src`, `dir` are the job's files, `hooks` the
webhooks sent, `saved` whether `save_job` committed.

- *Submission*: `Submit` (or `BeginDownload`, `DownloadMark`, `StreamEnds`,
  `StreamSeesStop`, `DownloadBreaks`, `Requeue` for a URL), `QueuedMark`, `Send` or
  `SendRefused`, `AfterRefusal`, and `Abandon` when the client leaves.
- *Dispatch*: `Receive`, `Spawn`, `DispatcherStops`.
- *Worker*: `WorkerStarts`, `ProcessingMark`, `Prepare`, `Admit`, `Detect`,
  `MediaSucceeds`/`MediaFails`, `UploadEnds`, `SaveJob`, `FinishComplete`,
  `Announce`, `FinishError`, `PersistError`, `Cleanup`.
- *Others*: `Cancel`, `CancelPersist`, `DeleteRow`, the watcher's `Forget`,
  `TimeoutScan`, `TimeoutPersist`, `TimeoutClean`, and the life of the process:
  `Shutdown`, `Drained`, `DrainDeadline`, `Reboot`, `ListStuck`, `RecoverRows`,
  `ListActive`, `CleanDirs`. As in `main`, the background tasks run already while
  the recovery passes do.

`WorkerPool` has one variable, where each request is; `JobLifecycle!Place` maps the
detailed state to it.

### SingleFlight (`src/api/playback`)

A request has the key it wants and the key it works on, which is a source of the
first while a virtual segment is made. `flight` is `SegmentCache.inflight`,
`outcome` the `Inflight.outcome` of the flight a request leads, `leads` its armed
guards plus the virtual flight, which has none, and `finisher` the tasks that
`InflightGuard::drop` and `serve_reconstructed_segment` spawn. `finish_inflight` is
two steps, `Settle` and `Remove`, because the outcome and the map have locks of
their own. `Disconnect` drops the future at any await.

### ChunkedUpload (`src/api/uploads.rs`)

`stage` says whether the map has an entry, or which part of `handle_upload_init` is
reached; `received`, `inFlight`, `bytes`, `finalizing` are the fields of
`PendingUpload`; `idle` abstracts `last_activity`; `content` and `flushing` tell the
chunks whose bytes are in the file from those that tokio still has to write;
`doomed` is the sweeper's list; `jobs` counts what `enqueue_job` accepted. The
actions follow `handle_upload_init` (`CheckLimit`, `CreateFile`, `InsertEntry`,
`InitDropped`), `handle_upload_chunk` (`ChunkArrives`, `Unlink`, `OpenFile`,
`WriteChunk`, `Clear`, `Store`), `handle_upload_finalize` (`FinalizeStarts`,
`Enqueue`, `RemoveEntry`, `Reset`), `cleanup_expired_uploads` (`Sweep`,
`SweepFile`) and `cleanup_orphaned_uploads` (`Reboot`).

### UploadPage (`static/upload.js`)

`page` is what the functions of the page share: `pendingFiles` (`list`), the Start
button, `isCancelled`, `currentJobId`, the `AbortController` (by the run it was made
for), and the record in localStorage. `run` is one click on Start, the loop over the
files with `uploadSingleFile` in it; `worker` is one of its `UPLOAD_CONCURRENCY`
workers with `sendChunkWithRetry`; `upload` is the server. Two runs may be alive at
once, since nothing disables the selection of files during a run and a selection
enables Start: that is why the signal of a worker and the controller of its run are
separate. `Throws` is an exception in a worker, `Aborts` what `abort()` does to the
fetches that carry the signal. `Arrives`, `Stores`, `LateStore` are the server's side
of a chunk, as in `ChunkedUpload`.

### Settings (`static/settings.js`, `src/api/bots_settings.rs`)

A request goes through `sent`, `checked` (validated, the mask of a secret dropped),
`stored` (table written), `written` (`.env`), `loaded` (`Config::load`), `answered`.
`page[p].form` holds the fields as they are shown: number and unit, or a masked text;
`saving` is the save that disabled the button. `touched` and `current` are history:
which fields the user changed since the page was rendered, and whether what it showed
was still what the server has. `WriteDelete` removes a bot from the list, and those
behind it move down.

### Browse (`static/browse*.js`, `static/shared.js`)

`lib` is the server's library; a behaviour stays on one kind of page (`view`).
`calls` are the requests under way, each with its answer once the server has served
it, so that serving and taking happen in any order; `pill.polls` the same for the
polls of the pill. `Take` is the continuation of a request of grid, seasons and edit
box, `TakePalette` that of the palette. `hist.calm` is history: did the requests for
the list follow one another on a library that nobody else changed. `Filter` is
JavaScript's `filter` and the condition of a query: the elements of a list that are in
a set, by their ranks in the list.

### WatchPage (`static/watch.js`, `static/browse-home.js`)

`tab.run` are calls of `initPlayer`, from one await to the next (`destroy`, `attach`,
`markers`, `progress`, `load`); a second one is started by the error handler of the
player the first one made. `listeners` is the run whose listeners are on the video
element. `posts` are positions under way to `save_playback_progress`, `local` the
entry of localStorage, `stored` the row.

### Metadata (`static/upload.js`, `static/watch.js`, `src/api/metadata.rs`)

`rows` are the objects of the table, by selection and place, because searches and the
run hold on to them when the table is rebuilt; `table.sel` is the selection that is
`pendingFiles`. `run` is reduced to where it is in the list. `server.jobs` holds the
fields of each video as stored, `links` its linked item, `auto` the automatic search.
`clicked` is, of a row, every result that was clicked in it, in order. `SortByEpisode`
is the set of the sorted lists, of which there is one.
`page` is the watch page with its edit box. `Updated` is what
`update_job_metadata_fields` stores of an edit, `Merged` what the page makes of its own
copy.

## 3. What the runs check

Runs that pass:

| Run | Question | Properties |
|---|---|---|
| `JobFull` | one job of any origin against cancel, timeout, retention, deletion, shutdown, crash and recovery | `CompleteWasSaved`, `OneVerdict`, `QuietLeavesNoDir`, `ErrorIsRecorded`, `NoOrphanRows`, `VerdictIsFinal`, `JobsSettle` |
| `JobPair` | two jobs, one place in the channel, one permit, SQLite calls that fail | `PermitsBalance`, `RequestInOnePlace`, `SendersProceed`, `ImplementsPool` |
| `FlightAll` | two clients and a prefetch, a split segment and a virtual one made of it | `LeadersHoldTheirFlights`, `FlightsAreFinished`, `FollowersAreAnswered` |
| `UploadAll` | one upload of two chunks, four requests, sweeper and restart | `BytesMatch`, `OneWriter`, `FinalizedIsFrozen`, `OneJobPerUpload`, `FilesAreOwned`, `UploadsEnd` |
| `PageAll` | two files, two runs of the upload page that may overlap, a fault or a reload | `TypeOK`, `AckedReachedServer`, `OneSender`, `UploadsHoldOneFile`, `CancelHolds` |
| `PageEnds` | the same page: does every run end | `RunsEnd` |
| `SettingsAll` | two settings pages, three requests, a failing step or a restart | `TypeOK`, `LoneHandlerIsCurrent`, `UntouchedIsKept` |
| `BrowseAll` | each page with four requests that overlap and two changes or failures | `TypeOK`, `CalmListIsPrefix`, `AnswersFitQuestions`, `PillSettles` |
| `WatchAll` | three visits, three moves, two posts under way, a lost request | `FurthestIsStored`, `RecoversOnce`, `LeftIsContinued` |
| `MetadataAll` | two selections and a run, or the edit box with two requests and the automatic link | `TypeOK`, `LinkWasChosen`, `ShownIsStored`, `StoredIsComplete` |

Runs that find a disagreement between the code and what its documentation, comments
or tests say; each is a shortest trace TLC prints:

| Run | Property | What happens |
|---|---|---|
| `JobCancelRow` | `CancelledLeavesNoCompleteRow` | cancel comes between the worker's last check and `save_job` (`processing.rs:538`), against `src/api/tests/jobs.rs:324` |
| `FlightPoison` | `NoPoisonedFlight` | the leader of a virtual segment has no guard (`virtual_.rs:78`), against `cache.rs:227` |

What the passing properties leave room for is said in their comments: `VerdictIsFinal`
excepts a failing download, which overwrites a cancellation; `NoOrphanRows` excepts a
cancel that overtakes the submitter's own row write; `FilesAreOwned` excepts files of
clients that left, which stay until the next start; `LoneHandlerIsCurrent` speaks of
handlers that ran alone; `CalmListIsPrefix` of lists whose requests did not overlap;
`LinkWasChosen` excepts two links at once and the automatic one; `StoredIsComplete`
runs during which nothing was selected. Section 7 lists the defects behind these.

## 4. Assumptions: bounds, fairness, environment

**Bounds.** `MaxBoots` bounds restarts: two starts reach every crash point followed
by a full recovery; a third start finds only what the second could have left.
`JobFull` uses one job because everything but the channel and the semaphore is per
job; `JobPair` uses two jobs for those, with capacity and permits of one, so that
both limits bind. `JobFull` sets `MaxConcurrentJobs` to 0, which the code raises to
1. `FlightAll` has three requests (leader, follower, and one that comes between),
two keys, and makes the virtual segment of the same source twice, which exercises
the loop over sources without a third key. `UploadAll` has one upload, since
uploads share only the limit, which has its own run with two; three bytes in chunks
of two make the last chunk shorter; four requests are two chunks, a repeat and a
finalize, or a chunk and three finalizes. Ids are fresh in the code (UUIDs), so a
job or an upload id is used once.

`PageAll` has two files of three chunks and one, two workers, two starts and one fault:
a chunk is left for the worker that is done first, the second run overlaps the first
or resumes it, and the second file is started from the list of the first run. `PageEnds`
has a chunk less, for liveness. `SettingsAll` has two pages, one number with two units and
one secret, and three requests, which is what two overlapping handlers and a reload
take. `BrowseAll` has pages of one video, so that three videos make three pages and one
still comes; four requests are a list, two overlapping ones and a delete. `WatchAll` has
positions 0 to 4, of which 3 counts as watched: one in the middle before and one after
any other; three visits are two to the video and one to the home page. `MetadataAll` has
a category with a required number and "Anime TV", two files of which one lacks the
number, one edit, and two requests, which are what can overtake one another. That this
can be too few the proof of `LinkWasChosen` showed: an earlier form of it, that what a
file is linked to stands in one of its rows, held with two requests and fails with
three (link, the run fails, another result of the same row is clicked). It now speaks of
what was clicked.

**Time** is abstracted: any job of `Expirable` that is not terminal may be found
overdue, any terminal one past its retention, any pending upload idle. One case is
excluded, in `ClockFresh`: the timeout, hours by default, does not pass between the
reset of `queued_at` or `started_at` and the row write that directly follows it.

**Fairness.** tokio runs tasks that are ready, so weak fairness holds of the steps of
dispatcher, worker, watcher, leaders and finishers; every FFmpeg run and every
request to Telegram is bounded by a timeout, so each of these steps ends. A tokio
channel serves blocked senders in turn: strong fairness of `Send`/`SendRefused`. The
watcher compares clocks every five seconds: strong fairness of its finding a job.
On the pages, timers go off, the server answers
or the request fails, and continuations run: weak fairness of the steps of workers,
runs and polls. Nothing is assumed of users, clients, remote servers, signals, crashes, retention or
the 300 second wait of a follower.

**Environment.** hyper drops the future of a handler when its client disconnects;
the repository's own `InflightGuard` is there for that. `tokio::fs::File` hands the
last buffer of `write_all` to a blocking thread and reports a failure only to the
next operation on the file; `src/api/ingest.rs:421` flushes for that reason.
SQLite statements are atomic; where `DbOutcomes` has FALSE each may fail, and the
code goes on as it does.

**Pages.** `fetch`, timers, localStorage and the video element are used as the browser
defines them: a script is not interrupted, an aborted fetch throws, a request that
fails may have been served. A reload loses all but localStorage. Shaka Player is
modelled by the calls and events `watch.js` uses.

Runs have `CHECK_DEADLOCK FALSE`: requests are finite in number, so every instance
comes to rest.

## 5. What is proved

TLAPS checks the following for all values of the constants that satisfy the named
assumptions (`JobsAssumption`, `ConfigAssumption`, `FlightAssumption`,
`UploadAssumption`, `PageAssumption`, `WatchAssumption`, `SettingsAssumption`,
`MetadataAssumption`, `BrowseAssumption`), which say that ids are distinct from the null values, the sets
counted are finite and the numbers are natural, and little more: that the initial bots
are bots (`FirstBots`), and that a list sorts each file to one place (`Order`).

`JobLifecycle_proofs`
- `ShapeHolds`, `RequestInOnePlaceHolds`, `PermitsBalanceHolds`, `TypeOKHolds`,
  `AtMostMaxPermitsRun`. That no request is in two places has to come first: only
  because a received request has no worker yet does `StartTask` add exactly one
  element to `Running` for the permit it takes, and only then do permits and workers
  balance.
- `PoolImplemented`: `Spec => ImplementsPool`, step by step: every action moves at most
  one request between the places of `WorkerPool` or leaves all where they are, and
  restart and shutdown are its `Lose`.

- `CompleteWasSavedHolds`, `OneVerdictHolds`, `VerdictIsFinalHolds`, from the invariant
  `VerdictInv`. The properties alone are not inductive: it adds that a job on its way
  to "complete" is committed (`Committed`), that a completed job is worked off and has
  no cancel under way (`Completed`), and that an accepted cancellation stays until the
  entry is dropped or a failing download, which then has no request left, overwrites
  it (`CancelAccepted`). The last is where `RequestInOnePlace` is needed: nobody else
  can still take the job up.

- `QuietLeavesNoDirHolds`, `ErrorIsRecordedHolds`, `NoOrphanRowsHolds`, from `TraceInv`,
  for runs in which SQLite calls succeed (`RowsAreWritten`; with a failing call a row
  stays as it was and all three can break). The invariant says who still owes the
  directory or the row its end: a directory without worker and watcher is left of an
  earlier process, and follows the start-up passes until they remove it (`DirOwned`);
  whoever is about to create a row does so for a job that has not failed (`MarkFits`,
  the reason why a job that times out between its entry and its row would be a defect);
  a failed job's row says so unless its writer is under way, or a worker that outran the
  watcher is about to make the job complete (`ErrorRow`); a row without an entry is
  among those the recovery pass has read (`ForgottenRow`).

`SingleFlight_proofs`
- `TypeOKHolds`, `LeadersHoldTheirFlightsHolds`, `OneLeaderHolds`,
  `FlightsAreFinishedHolds`, from `FlightInv`. `Holding` ties the flights a request
  leads to its control state; `Agreement` ties the map of flights to leaders and
  finishers: the map names a request as long as it, or a finisher it left behind, but
  never both, has the flight to finish. Without the finishers in it, a guard that
  finishes late could be thought to remove the flight of the next leader.

`ChunkedUpload_proofs`
- `TypeOKHolds`, `BytesMatchHolds`, `OneWriterHolds`, `FinalizedIsFrozenHolds`,
  `OneJobPerUploadHolds`, `FinalizeTestsAgree`, `FilesAreOwnedHolds`, from `UploadInv`:
  types, the count of bytes, who holds the claim of a chunk (`Claims`), and what
  `finalizing` excludes (`Finals`). `FinalizedIsFrozen` needs the count argument: finalize looks only at the
  number of received chunks, and that all are received, so that none can be in flight,
  follows because a subset of a finite set with as many elements is the set.
  `FilesAreOwned` needs to know that a finalize about to drop its entry has queued the
  job, which then owns the file.

`UploadPage_proofs`
- `TypeOKHolds`, `AckedReachedServerHolds`, `OneSenderHolds`, `UploadsHoldOneFileHolds`,
  `ChunksExistHolds`, from `PageInv`, and `CancelHoldsHolds`, a property of every step
  from a state of that invariant. It adds where a worker may still be at work: only for
  a run that sends chunks or has failed (`Places`); that a chunk whose answer is under
  way has been seen by the server (`Acked`); and that what the server has of a file, what
  is left to take and what is being sent are chunks of the file (`Fits`), without which a
  resume could begin with chunks that do not exist. Most steps only end runs and workers
  and only add to what the server has seen; `Kept` says once that such steps keep the
  invariant, `RunMoves` and `WorkerAdvances` treat the others. That the first chunks
  dealt to the workers are distinct needs the rank of an element of a finite set
  (`NthElement`), which is proved without induction: ranks are an injection into
  0..n-1, hence onto it.

`WatchPage_proofs`
- `TypeOKHolds`, `FurthestIsStoredHolds`, `RecoversOnceHolds`, `LeftIsContinuedHolds`, from
  `WatchInv`: the furthest position is on its way or stored unless a post was lost
  (`Furthest`), and a second run of `initPlayer` has used up the one attempt
  (`Recovery`).

`Settings_proofs`
- `TypeOKHolds`. The types are inductive only together with the list of bots, from which
  a delete removes the place it was asked for.
- `LoneHandlerIsCurrentHolds`: what a handler that runs alone has loaded is what table and
  environment say, and what it stores last is what it loaded.
- `UntouchedIsKeptHolds`, from `KeptInv`: a page that is current shows what is stored, and
  only its own save can be under way (`PageFits`); a save that is current carries what is
  stored, of the secret its mask, and no handler is under way (`SaveFits`), which is why
  the check compares the mask with the right key. That the split of a number into value
  and unit loses nothing (`RoundTrip`) needs a largest unit that divides the value: it
  exists because the natural numbers are well founded (`LeastOf`), without induction.

`Metadata_proofs`
- `TypeOKHolds`. That each button is disabled exactly while its request is under way
  needs `Waiting`: there is at most one edit, one search of the box and one link of the
  run.
- `LinkWasChosenHolds`, from `LinkInv`: a row's buttons are those of the results it holds
  (`RowFits`), since a click takes the result by its place; every link under way carries
  what was clicked in a row of its file (`UploadLinks`); while links do not overlap, the
  one under way is what the video will be linked to (`WatchLinks`). A row is only ever
  left behind, never changed, by a later selection, so that what was clicked in it stays
  (`ClickedStays`).
- `ShownIsStoredHolds`, from `ShownInv`: an edit that the server has done and the page has
  not taken yet agrees with what `Merged` will make of the page's copy. This is a lemma
  about the two functions, `EditsAgree`: of the fields both keep, `Updated` and `Merged`
  make the same.
- `StoredIsCompleteHolds`, from `CompleteInv`: a run that nothing disturbs sends rows of the
  table there is, which is hidden and was valid when the run began; and a valid row has
  all its category requires once it is normalised (`ValidIsComplete`), up to the numbers
  the server drops.

`Browse_proofs`
- `TypeOKHolds`, with the button of the edit box from `Saving`: there is at most one edit
  under way, however many boxes were opened and closed since.
- `CalmListIsPrefixHolds`, from `GridFits`: in a calm grid at most one request concerns the
  list, and `Awaits` says what it owes. The answer to a list is the first page; that to a
  further page is what follows the pages there are, which have to end at a page's end, so
  that nothing may have been deleted since the list was loaded (`Settled`, `removed`); and
  between the server's delete and the page's, it is the grid without the deleted video that
  shows the beginning of the list. Without a request, the grid is settled.
- `AnswersFitQuestionsHolds`, from `Fits` (an answer that is still to be taken is of the
  season that was asked for, and an edit that was done is of an edited video) and `PalFits`
  (every request of a calm palette is for what is typed).
- What `Filter` does is proved as lemmas, again by ranks instead of induction: it keeps the
  order and repeats nothing (`FilterInjective`), filtering twice is filtering by both sets
  (`FilterTwice`, which lets a search and a delete change places), and the beginning of a
  list stays a beginning when both are filtered, a proper one exactly if it was one,
  provided that all that follows passes the filter (`FilterPrefix`).

Only model-checked: the liveness properties (`JobsSettle`, `SendersProceed`,
`FollowersAreAnswered`, `UploadsEnd`, `RunsEnd`, `PillSettles`), since liveness under
fairness is out of the prover's reach. Every invariant and action property that a passing
run checks is proved. Not proved is that the recursive or chosen operators compute what the
code's loops do: sorting by episode is given by what it yields, and parsing of file names
by a table.

## 6. What is not modelled

- FFmpeg pipelines, encryption, Telegram requests, requests to TMDB and AniList: one
  step each with every outcome.
- Played-segment cleanup, the files of the disk cache, the stability check of the watch
  folder, DB sync and replacement, bot assignment and retries of uploads to Telegram.
  The steps in which they meet the job lifecycle are in `JobLifecycle`.
- The sliding-window rate limiter, the choice of segments to prefetch, playlists and the
  rewriting of `.env`: text and arithmetic without interleaving of their own.
- Of the settings page: the buttons that start one request on the server and show its
  outcome (export, import, backup, loading a database).
- Of the watch page: panels that are rendered once from one answer (information, more
  like this, neighbouring episodes, comments), buffer sizes, and deleting, which
  leaves the page. Of the home page: the slides and the rows other than the one of
  videos to continue. Everywhere: HTML, styling, wording, theme.
- `shaka-player.ui.js`, which is vendored and minified.
- Authentication, migrations, the tunnel.

## 7. Known defects

Met while modelling; the models contain them, and the properties say where they give
way to them.

Server:
- the watcher times a queued job out, and the worker that receives it looks only for a
  cancellation and processes it (`processing.rs:303`);
- the watcher removes the directory of a running worker (`processing_lifecycle.rs:130`);
- cancel between the last check and `save_job` leaves a complete row
  (`processing.rs:538`);
- the leader of a virtual segment has no guard (`virtual_.rs:78`), and the cache is not
  looked up again after a claim, so that a segment may be fetched twice
  (`real_fetch.rs:34`);
- a client that leaves during the write leaves its chunk in flight until the sweep
  (`uploads.rs:291`); nothing waits for the last buffer of a chunk (`uploads.rs:317`);
  two inits pass the limit of pending uploads together (`uploads.rs:120`);
- handlers of settings that overlap may leave memory and table in disagreement, although
  a comment says that reloading eliminates this (`bots_settings.rs:96`); after a
  restart a reset gives what `.env` says, not the default;
- the mask of a key that has changed meanwhile is stored as the key;
- deleting a bot moves the later ones down, while segments keep the index they were
  stored with (`telegram/download.rs:30`);
- the row of a position only moves forward: who seeks back, or watches again, resumes at
  the furthest position (`queries_playback.rs:24`);
- the automatic search for metadata overwrites a link the user made while it ran,
  although it is to skip videos that are linked (`processing_markers.rs:398`);
- edits and links of a job that is processed are overwritten by `save_job`; of "Anime TV"
  the server drops the numbers the form requires (`models.rs:473`).

Pages:
- a selection or a category chosen during a run changes the list of that run: files are
  left out, or stored under the category of the first (`upload.js:363`);
- a failing status request throws the record of a resumable upload away
  (`upload.js:500`); a poll never ends on a cancelled or deleted job;
- a save sends every field of its section and undoes what another tab saved
  (`settings.js:528`);
- a late page of another search is appended to the list (`browse.js:83`), and the errors
  of lists and seasons are taken for empty answers (`browse.js:379`); the answer to an
  edit closes the box of another video (`browse.js:563`);
- the pill of the home page stays on "Processing" (`shared.js:177`);
- the palette asks with a parameter the server does not know (`browse-palette.js:52`), so
  that it shows the newest videos whatever is typed; a debounce timer survives closing;
- the label says where localStorage is, while playback resumes where the server is
  (`watch.js:354`);
- a link renames every video of the series, and a later save of a box that was opened
  before renames one of them back.
