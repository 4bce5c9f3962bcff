---------------------------- MODULE JobLifecycle ----------------------------
(***************************************************************************)
(* The life of a media job in src/src/api/jobs: submission (upload         *)
(* finalize, watch folder, reprocess, URL ingest), the bounded job queue,  *)
(* the dispatcher and its semaphore, the worker process_job split at the   *)
(* points where it gives up the jobs lock, the cancel handler, the timeout *)
(* watcher, graceful shutdown, and restart with its recovery passes.       *)
(*                                                                         *)
(* One step is one critical section of the jobs mutex, one SQLite          *)
(* statement or one file operation: those are the points between which     *)
(* tokio may run another task.  Time is abstracted: any non-terminal job   *)
(* of Expirable may outlive its timeout, any terminal one its retention.   *)
(***************************************************************************)
EXTENDS Naturals, Sequences, FiniteSets

CONSTANTS
  Jobs,               \* job identifiers; every submission draws a fresh one
  NoJob,              \* the dispatcher holds no request
  Origins,            \* which submitters run: "upload", "library", "url"
  QueueCapacity,      \* capacity of the job channel
  MaxConcurrentJobs,  \* configuration value max_concurrent_jobs
  DbOutcomes,         \* may a SQLite call fail? {TRUE} or {TRUE, FALSE}
  Expirable,          \* jobs that may outlive the job or queue timeout
  MaxBoots            \* bound: how often the process starts

ASSUME JobsAssumption == IsFiniteSet(Jobs) /\ NoJob \notin Jobs
ASSUME ConfigAssumption ==
  /\ Origins \subseteq {"upload", "library", "url"}
  /\ QueueCapacity \in Nat \ {0}
  /\ MaxConcurrentJobs \in Nat
  /\ DbOutcomes \in (SUBSET BOOLEAN) \ {{}}
  /\ Expirable \subseteq Jobs
  /\ MaxBoots \in Nat

VARIABLES
  phase,      \* of the process: start-up passes, serving, shutting down
  boots,      \* number of process starts so far
  listed,     \* job ids the start-up pass under way has read from the rows
  mem,        \* status in the jobs map; "absent" when there is no entry
  cancelReq,  \* JobState.cancel_requested
  flag,       \* JobState.cancel_flag, shared with the worker
  origin,     \* who submitted the job
  db,         \* status column of the jobs row; "none" when there is no row
  sub,        \* control state of the task that submits the job
  queue,      \* requests in the job channel
  open,       \* does the dispatcher still hold the receiver?
  held,       \* request the dispatcher took and waits to get a permit for
  permits,    \* free permits of the dispatcher's semaphore
  wk,         \* control state of process_job
  cancelling, \* a cancel handler has still to write the row
  sweep,      \* the watcher's list: what it still does for a timed-out job
  src,        \* source file: "none", "present", renamed to "pending"
  dir,        \* does the job's processing directory exist?
  hooks,      \* terminal statuses announced by webhook
  saved       \* history: save_job committed for this job

requestVars == <<sub, queue, open, held, permits, wk>>
memVars     == <<mem, cancelReq, flag>>
diskVars    == <<src, dir>>
lifeVars    == <<phase, boots, listed>>
vars == <<lifeVars, memVars, origin, db, requestVars, cancelling, sweep,
          diskVars, hooks, saved>>

-----------------------------------------------------------------------------
Terminal == {"complete", "error", "cancelled"}
Active   == {"queued", "downloading", "analyzing", "processing", "uploading"}
Status   == Terminal \cup Active \cup {"absent"}
RowStatus == Terminal \cup {"none", "queued", "downloading", "processing"}
Booting  == {"starting", "recovering", "cleaning", "sweeping"}
Phases   == Booting \cup {"serving", "draining", "exiting"}
SubState == {"none", "downloadMark", "stream", "requeue", "mark", "send",
             "failing", "failPersist", "done"}
WkState  == {"idle", "spawned", "marker", "prepare", "admit", "detect",
             "media", "upload", "save", "finish", "announce", "failing",
             "persist", "cleanup"}

MaxPermits == IF MaxConcurrentJobs = 0 THEN 1 ELSE MaxConcurrentJobs

\* Handlers run until the process has drained: axum lets the requests that it
\* accepted before the shutdown signal finish.
Answering    == phase \in {"serving", "draining"}
Gone(j)      == mem[j] = "absent"
Cancelled(j) == cancelReq[j] \/ mem[j] = "cancelled"
Deletes(j)   == origin[j] # "library"

\* Variants of the operators below, each with a plausible slip.
Stop_Slip(j)          == Gone(j)
Refuses_Slip(j)       == Gone(j)
Updated_Slip(j, status) == [db EXCEPT ![j] = IF @ = "none" THEN status ELSE @]
Stuck_Slip(status)    == status = "processing"
Orphaned_Slip(j)      == j \notin listed /\ db[j] = "none"
AfterUpload_Slip(j)   == IF Gone(j) \/ Cancelled(j) THEN "cleanup" ELSE "finish"
AfterRefusal_Slip(j)  == "send"
MayBeOverdue_Slip(j)  == mem[j] \in Active \ {"queued"}
StartTask_Slip(j) == UNCHANGED permits /\ wk' = [wk EXCEPT ![j] = "spawned"]
StartTask_NoWait(j) ==
  /\ permits' = IF permits > 0 THEN permits - 1 ELSE 0
  /\ wk' = [wk EXCEPT ![j] = "spawned"]
EndTask_Slip(j) == UNCHANGED permits /\ wk' = [wk EXCEPT ![j] = "idle"]
Receive_Slip ==
  /\ open /\ held = NoJob /\ queue # <<>>
  /\ held' = Head(queue)
  /\ UNCHANGED <<lifeVars, memVars, origin, db, sub, queue, open, permits, wk,
                 cancelling, sweep, diskVars, hooks, saved>>

\* process_job gives a job up at its checks: no entry, or a cancelled one.
Stop(j) == Gone(j) \/ Cancelled(j)
\* finish_job_complete and finish_job_error leave such an entry alone.
Refuses(j) == Gone(j) \/ mem[j] = "cancelled"

\* INSERT OR IGNORE: a row that exists keeps its status.
Marked(j, status)  == [db EXCEPT ![j] = IF @ = "none" THEN status ELSE @]
\* UPDATE ... WHERE job_id: a row that does not exist is not created.
Updated(j, status) == [db EXCEPT ![j] = IF @ = "none" THEN @ ELSE status]
\* defer_source_delete renames the source only if it is there.
Deferred(j) == [src EXCEPT ![j] = IF Deletes(j) /\ @ = "present"
                                  THEN "pending" ELSE @]

\* The statuses that recovery, directory cleanup and the drain deadline look
\* for in the rows.
Stuck(status) == status \in Active
\* A directory under processing/ whose job no row claimed to be active.
Orphaned(j) == j \notin listed

\* A spawned task takes a permit and drops it when it ends.
StartTask(j) ==
  /\ permits > 0
  /\ permits' = permits - 1
  /\ wk' = [wk EXCEPT ![j] = "spawned"]

EndTask(j) ==
  /\ wk' = [wk EXCEPT ![j] = "idle"]
  /\ permits' = permits + 1

-----------------------------------------------------------------------------
Init ==
  /\ phase = "starting" /\ boots = 1 /\ listed = {}
  /\ mem = [j \in Jobs |-> "absent"]
  /\ cancelReq = [j \in Jobs |-> FALSE]
  /\ flag = [j \in Jobs |-> FALSE]
  /\ origin \in [Jobs -> Origins]
  /\ db = [j \in Jobs |-> "none"]
  /\ sub = [j \in Jobs |-> "none"]
  /\ queue = <<>> /\ open = TRUE /\ held = NoJob /\ permits = MaxPermits
  /\ wk = [j \in Jobs |-> "idle"]
  /\ cancelling = [j \in Jobs |-> FALSE]
  /\ sweep = [j \in Jobs |-> "no"]
  /\ src = [j \in Jobs |-> "none"]
  /\ dir = [j \in Jobs |-> FALSE]
  /\ hooks = [j \in Jobs |-> {}]
  /\ saved = [j \in Jobs |-> FALSE]

-----------------------------------------------------------------------------
(* Submission.                                                             *)

\* enqueue_job: the queued entry goes into the map under the lock.  HTTP
\* submitters need an answering process, the watch folder runs from the start.
Submit(j) ==
  /\ sub[j] = "none" /\ origin[j] # "url"
  /\ Answering \/ (origin[j] = "library" /\ phase \in Booting)
  /\ mem' = [mem EXCEPT ![j] = "queued"]
  /\ sub' = [sub EXCEPT ![j] = "mark"]
  /\ src' = [src EXCEPT ![j] = "present"]
  /\ UNCHANGED <<lifeVars, cancelReq, flag, origin, db, queue, open, held,
                 permits, wk, cancelling, sweep, dir, hooks, saved>>

\* insert_download_state: the entry of a URL ingest.
BeginDownload(j) ==
  /\ sub[j] = "none" /\ origin[j] = "url" /\ Answering
  /\ mem' = [mem EXCEPT ![j] = "downloading"]
  /\ sub' = [sub EXCEPT ![j] = "downloadMark"]
  /\ UNCHANGED <<lifeVars, cancelReq, flag, origin, db, queue, open, held,
                 permits, wk, cancelling, sweep, diskVars, hooks, saved>>

\* The best-effort "downloading" row; then the download task starts writing.
DownloadMark(j) ==
  /\ sub[j] = "downloadMark"
  /\ \E ok \in DbOutcomes : db' = IF ok THEN Marked(j, "downloading") ELSE db
  /\ sub' = [sub EXCEPT ![j] = "stream"]
  /\ src' = [src EXCEPT ![j] = "present"]
  /\ UNCHANGED <<lifeVars, memVars, origin, queue, open, held, permits, wk,
                 cancelling, sweep, dir, hooks, saved>>

\* The body has arrived: a job that was stopped or timed out is left alone.
StreamEnds(j) ==
  /\ sub[j] = "stream"
  /\ sub' = [sub EXCEPT ![j] =
               IF Stop(j) \/ mem[j] = "error" THEN "done" ELSE "requeue"]
  /\ UNCHANGED <<lifeVars, memVars, origin, db, queue, open, held, permits, wk,
                 cancelling, sweep, diskVars, hooks, saved>>

\* A chunk's progress update notices a cancelled or failed job.
StreamSeesStop(j) ==
  /\ sub[j] = "stream"
  /\ ~Gone(j) /\ (Cancelled(j) \/ mem[j] = "error")
  /\ sub' = [sub EXCEPT ![j] = "done"]
  /\ UNCHANGED <<lifeVars, memVars, origin, db, queue, open, held, permits, wk,
                 cancelling, sweep, diskVars, hooks, saved>>

\* A remote, size or file error, or the wall-clock limit that also covers
\* the hand-over to the queue.
DownloadBreaks(j) ==
  /\ origin[j] = "url" /\ sub[j] \in {"stream", "requeue", "mark", "send"}
  /\ sub' = [sub EXCEPT ![j] = "failing"]
  /\ UNCHANGED <<lifeVars, memVars, origin, db, queue, open, held, permits, wk,
                 cancelling, sweep, diskVars, hooks, saved>>

\* enqueue_existing_job with insert_state = false.
Requeue(j) ==
  /\ sub[j] = "requeue"
  /\ IF Stop(j) \/ mem[j] \in Terminal
       THEN sub' = [sub EXCEPT ![j] = "failing"] /\ UNCHANGED mem
       ELSE /\ mem' = [mem EXCEPT ![j] = "queued"]
            /\ sub' = [sub EXCEPT ![j] = "mark"]
  /\ UNCHANGED <<lifeVars, cancelReq, flag, origin, db, queue, open, held,
                 permits, wk, cancelling, sweep, diskVars, hooks, saved>>

\* download_failed removes the file and marks whatever entry it finds.
DownloadFailed(j) ==
  /\ sub[j] = "failing"
  /\ src' = [src EXCEPT ![j] = IF @ = "present" THEN "none" ELSE @]
  /\ mem' = [mem EXCEPT ![j] = IF Gone(j) THEN @ ELSE "error"]
  /\ sub' = [sub EXCEPT ![j] = "failPersist"]
  /\ UNCHANGED <<lifeVars, cancelReq, flag, origin, db, queue, open, held,
                 permits, wk, cancelling, sweep, dir, hooks, saved>>

DownloadFailPersist(j) ==
  /\ sub[j] = "failPersist"
  /\ \E ok \in DbOutcomes : db' = IF ok THEN Updated(j, "error") ELSE db
  /\ sub' = [sub EXCEPT ![j] = "done"]
  /\ UNCHANGED <<lifeVars, memVars, origin, queue, open, held, permits, wk,
                 cancelling, sweep, diskVars, hooks, saved>>

\* The best-effort "queued" row.
QueuedMark(j) ==
  /\ sub[j] = "mark"
  /\ \E ok \in DbOutcomes : db' = IF ok THEN Marked(j, "queued") ELSE db
  /\ sub' = [sub EXCEPT ![j] = "send"]
  /\ UNCHANGED <<lifeVars, memVars, origin, queue, open, held, permits, wk,
                 cancelling, sweep, diskVars, hooks, saved>>

\* job_queue.send waits for room in the channel.
Send(j) ==
  /\ sub[j] = "send" /\ open /\ Len(queue) < QueueCapacity
  /\ queue' = Append(queue, j)
  /\ sub' = [sub EXCEPT ![j] = "done"]
  /\ UNCHANGED <<lifeVars, memVars, origin, db, open, held, permits, wk,
                 cancelling, sweep, diskVars, hooks, saved>>

\* The caller's error path: reset the upload, move the file back, or fail the
\* download.
AfterRefusal(j) == IF origin[j] = "url" THEN "failing" ELSE "done"

\* The receiver is gone: the entry is removed, the row is not.
SendRefused(j) ==
  /\ sub[j] = "send" /\ ~open
  /\ mem' = [mem EXCEPT ![j] = "absent"]
  /\ sub' = [sub EXCEPT ![j] = AfterRefusal(j)]
  /\ UNCHANGED <<lifeVars, cancelReq, flag, origin, db, queue, open, held,
                 permits, wk, cancelling, sweep, diskVars, hooks, saved>>

\* The HTTP client disconnects and the handler's future is dropped.
Abandon(j) ==
  /\ sub[j] = "downloadMark" \/ (origin[j] = "upload" /\ sub[j] \in {"mark", "send"})
  /\ sub' = [sub EXCEPT ![j] = "done"]
  /\ UNCHANGED <<lifeVars, memVars, origin, db, queue, open, held, permits, wk,
                 cancelling, sweep, diskVars, hooks, saved>>

-----------------------------------------------------------------------------
(* Dispatcher.                                                             *)

Receive ==
  /\ open /\ held = NoJob /\ queue # <<>>
  /\ held' = Head(queue) /\ queue' = Tail(queue)
  /\ UNCHANGED <<lifeVars, memVars, origin, db, sub, open, permits, wk,
                 cancelling, sweep, diskVars, hooks, saved>>

Spawn ==
  /\ held # NoJob
  /\ StartTask(held)
  /\ held' = NoJob
  /\ UNCHANGED <<lifeVars, memVars, origin, db, sub, queue, open,
                 cancelling, sweep, diskVars, hooks, saved>>

\* The shutdown branch of the select: the receiver and its backlog are dropped.
DispatcherStops ==
  /\ open /\ held = NoJob /\ phase \in {"draining", "exiting"}
  /\ open' = FALSE /\ queue' = <<>>
  /\ UNCHANGED <<lifeVars, memVars, origin, db, sub, held, permits, wk,
                 cancelling, sweep, diskVars, hooks, saved>>

-----------------------------------------------------------------------------
(* The worker.                                                             *)

\* First critical section; it returns without touching any file.
WorkerStarts(j) ==
  /\ wk[j] = "spawned"
  /\ IF Stop(j)
       THEN EndTask(j) /\ UNCHANGED mem
       ELSE /\ mem' = [mem EXCEPT ![j] = "analyzing"]
            /\ wk' = [wk EXCEPT ![j] = "marker"]
            /\ UNCHANGED permits
  /\ UNCHANGED <<lifeVars, cancelReq, flag, origin, db, sub, queue, open, held,
                 cancelling, sweep, diskVars, hooks, saved>>

ProcessingMark(j) ==
  /\ wk[j] = "marker"
  /\ \E ok \in DbOutcomes : db' = IF ok THEN Marked(j, "processing") ELSE db
  /\ wk' = [wk EXCEPT ![j] = "prepare"]
  /\ UNCHANGED <<lifeVars, memVars, origin, sub, queue, open, held, permits,
                 cancelling, sweep, diskVars, hooks, saved>>

\* create_dir_all and analyze_media; the analysis needs the source in place.
Prepare(j) ==
  /\ wk[j] = "prepare"
  /\ \/ /\ src[j] = "present"
        /\ dir' = [dir EXCEPT ![j] = TRUE]
        /\ wk' = [wk EXCEPT ![j] = "admit"]
     \/ /\ \E made \in BOOLEAN : dir' = [dir EXCEPT ![j] = @ \/ made]
        /\ wk' = [wk EXCEPT ![j] = "failing"]
  /\ UNCHANGED <<lifeVars, memVars, origin, db, sub, queue, open, held, permits,
                 cancelling, sweep, src, hooks, saved>>

Admit(j) ==
  /\ wk[j] = "admit"
  /\ IF Stop(j)
       THEN wk' = [wk EXCEPT ![j] = "cleanup"] /\ UNCHANGED mem
       ELSE /\ mem' = [mem EXCEPT ![j] = "processing"]
            /\ wk' = [wk EXCEPT ![j] = "detect"]
  /\ UNCHANGED <<lifeVars, cancelReq, flag, origin, db, sub, queue, open, held,
                 permits, cancelling, sweep, diskVars, hooks, saved>>

\* Marker detection is over; the free-space check may fail the job.
Detect(j) ==
  /\ wk[j] = "detect"
  /\ \E next \in IF Stop(j) THEN {"cleanup"} ELSE {"media", "failing"} :
       wk' = [wk EXCEPT ![j] = next]
  /\ UNCHANGED <<lifeVars, memVars, origin, db, sub, queue, open, held, permits,
                 cancelling, sweep, diskVars, hooks, saved>>

\* process_media succeeds and the job moves on to the upload.
MediaSucceeds(j) ==
  /\ wk[j] = "media"
  /\ dir' = [dir EXCEPT ![j] = TRUE]
  /\ IF Stop(j)
       THEN wk' = [wk EXCEPT ![j] = "cleanup"] /\ UNCHANGED mem
       ELSE /\ mem' = [mem EXCEPT ![j] = "uploading"]
            /\ wk' = [wk EXCEPT ![j] = "upload"]
  /\ UNCHANGED <<lifeVars, cancelReq, flag, origin, db, sub, queue, open, held,
                 permits, cancelling, sweep, src, hooks, saved>>

\* process_media fails; with the flag set no terminal status is written.
MediaFails(j) ==
  /\ wk[j] = "media"
  /\ \E made \in BOOLEAN : dir' = [dir EXCEPT ![j] = @ \/ made]
  /\ wk' = [wk EXCEPT ![j] = IF flag[j] THEN "cleanup" ELSE "failing"]
  /\ UNCHANGED <<lifeVars, memVars, origin, db, sub, queue, open, held, permits,
                 cancelling, sweep, src, hooks, saved>>

AfterUpload(j) == IF Stop(j) THEN "cleanup" ELSE "save"

\* upload_outputs and set_last_bot_index, then the last cancellation check.
UploadEnds(j) ==
  /\ wk[j] = "upload"
  /\ \E next \in {AfterUpload(j), "failing"} : wk' = [wk EXCEPT ![j] = next]
  /\ UNCHANGED <<lifeVars, memVars, origin, db, sub, queue, open, held, permits,
                 cancelling, sweep, diskVars, hooks, saved>>

\* save_job inserts or overwrites the row in one transaction.
SaveJob(j) ==
  /\ wk[j] = "save"
  /\ \E ok \in DbOutcomes :
       /\ db' = IF ok THEN [db EXCEPT ![j] = "complete"] ELSE db
       /\ saved' = [saved EXCEPT ![j] = @ \/ ok]
       /\ wk' = [wk EXCEPT ![j] = IF ok THEN "finish" ELSE "failing"]
  /\ UNCHANGED <<lifeVars, memVars, origin, sub, queue, open, held, permits,
                 cancelling, sweep, diskVars, hooks>>

\* finish_job_complete refuses a cancelled entry and nothing else.
FinishComplete(j) ==
  /\ wk[j] = "finish"
  /\ IF Refuses(j)
       THEN wk' = [wk EXCEPT ![j] = "cleanup"] /\ UNCHANGED mem
       ELSE /\ mem' = [mem EXCEPT ![j] = "complete"]
            /\ wk' = [wk EXCEPT ![j] = "announce"]
  /\ UNCHANGED <<lifeVars, cancelReq, flag, origin, db, sub, queue, open, held,
                 permits, cancelling, sweep, diskVars, hooks, saved>>

Announce(j) ==
  /\ wk[j] = "announce"
  /\ hooks' = [hooks EXCEPT ![j] = @ \cup {"complete"}]
  /\ wk' = [wk EXCEPT ![j] = "cleanup"]
  /\ UNCHANGED <<lifeVars, memVars, origin, db, sub, queue, open, held, permits,
                 cancelling, sweep, diskVars, saved>>

\* finish_job_error, first the entry, then the row and the webhook.
FinishError(j) ==
  /\ wk[j] = "failing"
  /\ IF Refuses(j)
       THEN wk' = [wk EXCEPT ![j] = "cleanup"] /\ UNCHANGED mem
       ELSE /\ mem' = [mem EXCEPT ![j] = "error"]
            /\ wk' = [wk EXCEPT ![j] = "persist"]
  /\ UNCHANGED <<lifeVars, cancelReq, flag, origin, db, sub, queue, open, held,
                 permits, cancelling, sweep, diskVars, hooks, saved>>

PersistError(j) ==
  /\ wk[j] = "persist"
  /\ \E ok \in DbOutcomes : db' = IF ok THEN Updated(j, "error") ELSE db
  /\ hooks' = [hooks EXCEPT ![j] = @ \cup {"error"}]
  /\ wk' = [wk EXCEPT ![j] = "cleanup"]
  /\ UNCHANGED <<lifeVars, memVars, origin, sub, queue, open, held, permits,
                 cancelling, sweep, diskVars, saved>>

\* cleanup_request_paths; then the task ends and drops its permit.
Cleanup(j) ==
  /\ wk[j] = "cleanup"
  /\ src' = Deferred(j)
  /\ dir' = [dir EXCEPT ![j] = FALSE]
  /\ EndTask(j)
  /\ UNCHANGED <<lifeVars, memVars, origin, db, sub, queue, open, held,
                 cancelling, sweep, hooks, saved>>

-----------------------------------------------------------------------------
(* Cancellation, timeout, retention.                                       *)

Cancel(j) ==
  /\ Answering /\ mem[j] \in Active
  /\ cancelReq' = [cancelReq EXCEPT ![j] = TRUE]
  /\ flag' = [flag EXCEPT ![j] = TRUE]
  /\ mem' = [mem EXCEPT ![j] = "cancelled"]
  /\ cancelling' = [cancelling EXCEPT ![j] = TRUE]
  /\ UNCHANGED <<lifeVars, origin, db, requestVars, sweep, diskVars, hooks, saved>>

CancelPersist(j) ==
  /\ cancelling[j]
  /\ \E ok \in DbOutcomes : db' = IF ok THEN Updated(j, "cancelled") ELSE db
  /\ hooks' = [hooks EXCEPT ![j] = @ \cup {"cancelled"}]
  /\ cancelling' = [cancelling EXCEPT ![j] = FALSE]
  /\ UNCHANGED <<lifeVars, memVars, origin, requestVars, sweep, diskVars, saved>>

WatcherAtTop ==
  /\ phase \notin {"draining", "exiting"}
  /\ \A j \in Jobs : sweep[j] = "no"

\* cleanup_old_terminal_jobs: the entries whose retention has passed.
Forget(old) ==
  /\ WatcherAtTop
  /\ old # {} /\ \A j \in old : mem[j] \in Terminal
  /\ mem' = [j \in Jobs |-> IF j \in old THEN "absent" ELSE mem[j]]
  /\ cancelReq' = [j \in Jobs |-> cancelReq[j] /\ j \notin old]
  /\ UNCHANGED <<lifeVars, flag, origin, db, requestVars, cancelling, sweep,
                 diskVars, hooks, saved>>

\* The row write that directly follows a reset of queued_at or started_at is
\* still to come: no timeout, hours by default, ends within that moment.
ClockFresh(j) == sub[j] \in {"mark", "downloadMark"} \/ wk[j] = "marker"

\* started_at or, before that, queued_at is too long ago.
MayBeOverdue(j) == mem[j] \in Active /\ ~ClockFresh(j)

\* The watcher's critical section: every job that outlived its timeout.
TimeoutScan(late) ==
  /\ WatcherAtTop
  /\ late # {} /\ \A j \in late : MayBeOverdue(j)
  /\ mem' = [j \in Jobs |-> IF j \in late THEN "error" ELSE mem[j]]
  /\ flag' = [j \in Jobs |-> flag[j] \/ j \in late]
  /\ sweep' = [j \in Jobs |-> IF j \in late THEN "mark" ELSE sweep[j]]
  /\ UNCHANGED <<lifeVars, cancelReq, origin, db, requestVars, cancelling,
                 diskVars, hooks, saved>>

\* After the lock: the row of one job of the list.
TimeoutPersist(j) ==
  /\ sweep[j] = "mark" /\ \A k \in Jobs : sweep[k] # "clean"
  /\ \E ok \in DbOutcomes : db' = IF ok THEN Updated(j, "error") ELSE db
  /\ sweep' = [sweep EXCEPT ![j] = "clean"]
  /\ UNCHANGED <<lifeVars, memVars, origin, requestVars, cancelling, diskVars,
                 hooks, saved>>

\* Its files and its webhook, whether or not a worker is on the job.
TimeoutClean(j) ==
  /\ sweep[j] = "clean"
  /\ src' = Deferred(j)
  /\ dir' = [dir EXCEPT ![j] = FALSE]
  /\ hooks' = [hooks EXCEPT ![j] = @ \cup {"error"}]
  /\ sweep' = [sweep EXCEPT ![j] = "no"]
  /\ UNCHANGED <<lifeVars, memVars, origin, db, requestVars, cancelling, saved>>

\* handle_delete_job, and delete_old_jobs of the watcher's retention pass.
DeleteRow(j) ==
  /\ phase # "exiting" /\ db[j] # "none"
  /\ db' = [db EXCEPT ![j] = "none"]
  /\ UNCHANGED <<lifeVars, memVars, origin, requestVars, cancelling, sweep,
                 diskVars, hooks, saved>>

-----------------------------------------------------------------------------
(* Shutdown, crash, restart.                                               *)

Shutdown ==
  /\ phase = "serving"
  /\ phase' = "draining"
  /\ UNCHANGED <<boots, listed, memVars, origin, db, requestVars, cancelling, sweep,
                 diskVars, hooks, saved>>

\* axum's graceful shutdown lets the request handlers finish first.
HandlersDone ==
  \A j \in Jobs :
    /\ ~cancelling[j] /\ sub[j] # "downloadMark"
    /\ origin[j] = "upload" => sub[j] \in {"none", "done"}

Drained ==
  /\ phase = "draining" /\ HandlersDone
  /\ \A j \in Jobs : mem[j] \notin Active
  /\ phase' = "exiting"
  /\ UNCHANGED <<boots, listed, memVars, origin, db, requestVars, cancelling, sweep,
                 diskVars, hooks, saved>>

\* The drain deadline passes: entries and rows that are left become errors.
DrainDeadline ==
  /\ phase = "draining" /\ HandlersDone
  /\ \E j \in Jobs : mem[j] \in Active
  /\ phase' = "exiting"
  /\ mem' = [j \in Jobs |-> IF mem[j] \in Active THEN "error" ELSE mem[j]]
  /\ flag' = [j \in Jobs |-> flag[j] \/ mem[j] \in Active]
  /\ \E ok \in DbOutcomes :
       db' = [j \in Jobs |-> IF ok /\ Stuck(db[j]) THEN "error" ELSE db[j]]
  /\ UNCHANGED <<boots, listed, cancelReq, origin, requestVars, cancelling, sweep,
                 diskVars, hooks, saved>>

\* The process dies, or exits after the drain, and starts again: memory is
\* lost, the uploads directory is emptied, rows and directories remain.
Reboot ==
  /\ boots < MaxBoots
  /\ boots' = boots + 1 /\ phase' = "starting" /\ listed' = {}
  /\ mem' = [j \in Jobs |-> "absent"]
  /\ cancelReq' = [j \in Jobs |-> FALSE]
  /\ flag' = [j \in Jobs |-> FALSE]
  /\ sub' = [j \in Jobs |-> IF sub[j] = "none" THEN "none" ELSE "done"]
  /\ queue' = <<>> /\ open' = TRUE /\ held' = NoJob /\ permits' = MaxPermits
  /\ wk' = [j \in Jobs |-> "idle"]
  /\ cancelling' = [j \in Jobs |-> FALSE]
  /\ sweep' = [j \in Jobs |-> "no"]
  /\ src' = [j \in Jobs |-> IF Deletes(j) THEN "none" ELSE src[j]]
  /\ UNCHANGED <<origin, db, dir, hooks, saved>>

\* recover_stuck_processing_jobs: the query, then one update per row.
ListStuck ==
  /\ phase = "starting"
  /\ \E ok \in DbOutcomes :
       listed' = {j \in Jobs : ok /\ Stuck(db[j])}
  /\ phase' = "recovering"
  /\ UNCHANGED <<boots, memVars, origin, db, requestVars, cancelling, sweep,
                 diskVars, hooks, saved>>

\* The updates stop at the first that fails.
RecoverRows ==
  /\ phase = "recovering"
  /\ \E done \in SUBSET listed :
       /\ done = listed \/ FALSE \in DbOutcomes
       /\ db' = [j \in Jobs |-> IF j \in done /\ db[j] # "none"
                               THEN "error" ELSE db[j]]
  /\ phase' = "cleaning"
  /\ UNCHANGED <<boots, listed, memVars, origin, requestVars, cancelling, sweep,
                 diskVars, hooks, saved>>

\* clean_orphaned_processing_dirs: the query, which ends the pass if it fails,
\* then the directories.
ListActive ==
  /\ phase = "cleaning"
  /\ \/ listed' = {j \in Jobs : Stuck(db[j])} /\ phase' = "sweeping"
     \/ FALSE \in DbOutcomes /\ listed' = {} /\ phase' = "serving"
  /\ UNCHANGED <<boots, memVars, origin, db, requestVars, cancelling, sweep,
                 diskVars, hooks, saved>>

CleanDirs ==
  /\ phase = "sweeping"
  /\ dir' = [j \in Jobs |-> dir[j] /\ ~Orphaned(j)]
  /\ listed' = {} /\ phase' = "serving"
  /\ UNCHANGED <<boots, memVars, origin, db, requestVars, cancelling, sweep,
                 src, hooks, saved>>

-----------------------------------------------------------------------------
SubmitStep(j) ==
  \/ Submit(j) \/ BeginDownload(j) \/ DownloadMark(j) \/ StreamEnds(j)
  \/ StreamSeesStop(j) \/ DownloadBreaks(j) \/ Requeue(j) \/ DownloadFailed(j)
  \/ DownloadFailPersist(j) \/ QueuedMark(j) \/ Send(j) \/ SendRefused(j)
  \/ Abandon(j)

WorkerStep(j) ==
  \/ WorkerStarts(j) \/ ProcessingMark(j) \/ Prepare(j) \/ Admit(j)
  \/ Detect(j) \/ MediaSucceeds(j) \/ MediaFails(j) \/ UploadEnds(j)
  \/ SaveJob(j) \/ FinishComplete(j) \/ Announce(j) \/ FinishError(j)
  \/ PersistError(j) \/ Cleanup(j)

DispatcherStep == Receive \/ Spawn \/ DispatcherStops

WatcherStep(j) == TimeoutPersist(j) \/ TimeoutClean(j)

LifeStep == \/ Shutdown \/ Drained \/ DrainDeadline \/ Reboot
            \/ ListStuck \/ RecoverRows \/ ListActive \/ CleanDirs

Next ==
  \/ \E j \in Jobs : SubmitStep(j) \/ WorkerStep(j) \/ WatcherStep(j)
                     \/ Cancel(j) \/ CancelPersist(j) \/ DeleteRow(j)
  \/ \E old \in SUBSET Jobs : Forget(old)
  \/ \E late \in SUBSET Expirable : TimeoutScan(late)
  \/ DispatcherStep \/ LifeStep

Spec == Init /\ [][Next]_vars

\* Tasks that tokio has started run on: a submitter writes its row, the
\* dispatcher serves its channel, every external wait of a worker is bounded by
\* a timeout, the watcher wakes every five seconds and the clock goes on.
\* The channel serves blocked senders in turn.  Users, remote servers, the
\* retention pass, signals and crashes owe nothing.
Fairness ==
  /\ \A j \in Jobs :
       /\ WF_vars(DownloadMark(j) \/ QueuedMark(j))
       /\ SF_vars(Send(j) \/ SendRefused(j))
       /\ WF_vars(WorkerStep(j))
       /\ WF_vars(WatcherStep(j))
       /\ SF_vars(\E late \in SUBSET Expirable : j \in late /\ TimeoutScan(late))
  /\ WF_vars(Receive \/ Spawn) /\ WF_vars(DispatcherStops)
  /\ WF_vars(ListStuck \/ RecoverRows \/ ListActive \/ CleanDirs)

FairSpec == Spec /\ Fairness
-----------------------------------------------------------------------------
(* Properties.                                                             *)

Running == {j \in Jobs : wk[j] # "idle"}

InQueue(j) == \E i \in 1..Len(queue) : queue[i] = j

\* No task has anything left to do for the job.
Quiet(j) == /\ sub[j] \in {"none", "done"} /\ ~InQueue(j) /\ held # j
            /\ wk[j] = "idle" /\ ~cancelling[j] /\ sweep[j] = "no"

StateShape ==
  /\ phase \in Phases /\ boots \in Nat /\ listed \subseteq Jobs
  /\ mem \in [Jobs -> Status]
  /\ cancelReq \in [Jobs -> BOOLEAN] /\ flag \in [Jobs -> BOOLEAN]
  /\ origin \in [Jobs -> Origins]
  /\ db \in [Jobs -> RowStatus]
  /\ sub \in [Jobs -> SubState]
  /\ queue \in Seq(Jobs) /\ open \in BOOLEAN /\ held \in Jobs \cup {NoJob}
  /\ permits \in Nat
  /\ wk \in [Jobs -> WkState]
  /\ cancelling \in [Jobs -> BOOLEAN]
  /\ sweep \in [Jobs -> {"no", "mark", "clean"}]
  /\ src \in [Jobs -> {"none", "present", "pending"}]
  /\ dir \in [Jobs -> BOOLEAN]
  /\ hooks \in [Jobs -> SUBSET Terminal]
  /\ saved \in [Jobs -> BOOLEAN]

\* The state has the shape of the program's data, and the semaphore never has
\* more free permits than it was created with.
TypeOK == StateShape /\ permits <= MaxPermits

\* Every way out of process_job, the early returns included, gives its permit
\* back exactly once, so at most max_concurrent_jobs (at least one) jobs run.
PermitsBalance == permits + Cardinality(Running) = MaxPermits

\* A request is in one place only: with its submitter, in the channel, with
\* the dispatcher or with one worker.  No job is ever processed twice.
RequestInOnePlace ==
  \A j \in Jobs :
    /\ InQueue(j) \/ held = j \/ wk[j] # "idle" => sub[j] = "done"
    /\ InQueue(j) => held # j /\ wk[j] = "idle"
    /\ held = j => wk[j] = "idle"
    /\ \A m, n \in 1..Len(queue) : queue[m] = j /\ queue[n] = j => m = n

\* The status API shows "complete" only after save_job has committed.
CompleteWasSaved == \A j \in Jobs : mem[j] = "complete" => saved[j]

\* No listener is told both that a job completed and that it was cancelled.
OneVerdict == \A j \in Jobs : ~({"complete", "cancelled"} \subseteq hooks[j])

\* Once nobody works on a job its processing directory is gone: on every error
\* path, after a timeout that raced the worker, and after a restart.
QuietLeavesNoDir ==
  phase = "serving" => \A j \in Jobs : Quiet(j) => ~dir[j]

\* The row of a job the API reports as failed says neither that it is complete
\* nor that it is still under way, whichever of worker, watcher, download and
\* cancel handler wrote last.
ErrorIsRecorded ==
  phase = "serving" =>
    \A j \in Jobs :
      Quiet(j) /\ mem[j] = "error" => db[j] \notin Active \cup {"complete"}

\* After recovery no row claims to be in progress while nobody works on it and
\* no entry exists that the watcher could still time out.  (A cancel that
\* overtakes the submitter's own row write can leave such a row.)
NoOrphanRows ==
  phase = "serving" =>
    \A j \in Jobs :
      Quiet(j) /\ Gone(j) /\ "cancelled" \notin hooks[j] => db[j] \notin Active

\* A cancelled or completed entry keeps its status until it is dropped; only a
\* failing URL download overwrites "cancelled" (download_failed does not look).
VerdictIsFinal ==
  [][\A j \in Jobs :
       /\ mem[j] = "complete" => mem'[j] \in {"complete", "absent"}
       /\ mem[j] = "cancelled" =>
            \/ mem'[j] \in {"cancelled", "absent"}
            \/ sub[j] = "failing" /\ mem'[j] = "error"]_vars

\* Every job reaches a terminal status as long as the process serves, whatever
\* happened to its submitter, its request or its worker.
JobsSettle ==
  \A j \in Jobs :
    mem[j] \in Active ~> (mem[j] \notin Active \/ phase # "serving")

\* A submitter blocked on a full channel gets its request in, or is refused
\* once the dispatcher has stopped: it never waits for ever.
SendersProceed == \A j \in Jobs : sub[j] = "send" ~> sub[j] # "send"

\* Channel, dispatcher and semaphore implement the bounded pool of WorkerPool:
\* no request is ever run twice, and a free permit means a free slot.
Place(j) == IF wk[j] # "idle" THEN "running"
            ELSE IF InQueue(j) \/ held = j THEN "waiting"
            ELSE IF sub[j] = "done" THEN "out" ELSE "new"

Pool == INSTANCE WorkerPool WITH Requests <- Jobs, Size <- MaxPermits,
                                 place <- [j \in Jobs |-> Place(j)]

ImplementsPool == Pool!Spec

-----------------------------------------------------------------------------
(* What the documentation says and the code does not do.                   *)

\* The test of the cancel handler: a cancelled job leaves no completed row.
CancelledLeavesNoCompleteRow ==
  \A j \in Jobs : Quiet(j) /\ mem[j] = "cancelled" => db[j] # "complete"
=============================================================================
