------------------------------ MODULE UploadPage ------------------------------
(***************************************************************************)
(* The upload page, src/static/upload.js: the selected files, the loop of  *)
(* the Start button over them, the workers that send the missing chunks of *)
(* one file and retry, cancelling, the record in localStorage from which   *)
(* an upload is resumed, finalize, and polling the job.                    *)
(*                                                                         *)
(* A script runs without interruption from one await to the next, so that  *)
(* is one step; a request, what the server does with it and its answer are *)
(* steps of their own.  Nothing disables the selection of files while a    *)
(* run is under way, and a selection enables the Start button: two runs    *)
(* may be alive at once, and they share the variables of the page.         *)
(* The server is that of ChunkedUpload, seen from the page; the id of a    *)
(* job is the id of its upload.                                            *)
(***************************************************************************)
EXTENDS Naturals, Sequences, FiniteSets

CONSTANTS
  Files, NoFile, \* files the user may select, told apart by name and size
  Selections,    \* what the user selects: sequences of files
  NumChunks,     \* chunks of a file
  Concurrency,   \* UPLOAD_CONCURRENCY
  MaxRetries,    \* MAX_RETRIES
  MaxStarts,     \* bound: clicks on Start
  MaxInits,      \* bound: uploads the server opens
  MaxFaults      \* bound: failures of network, disk or server, and reloads

ASSUME PageAssumption ==
  /\ NoFile \notin Files
  /\ NumChunks \in [Files -> Nat \ {0}]
  /\ Selections \subseteq Seq(Files) /\ \A s \in Selections : s # <<>>
  /\ Concurrency \in Nat \ {0} /\ MaxRetries \in Nat \ {0}
  /\ MaxStarts \in Nat /\ MaxInits \in Nat /\ MaxFaults \in Nat

VARIABLES
  page,   \* what the runs share: pendingFiles, is Start enabled, isCancelled,
          \* currentJobId, the run whose controller is current, the runs whose
          \* controller was aborted, the saved record; 0 stands for null
  run,    \* of a run: where it is, its index in the list, its file and upload,
          \* receivedIndices, and the missingChunks that no worker has taken
  worker, \* of a worker of a run: where it is, its chunk, attempt and signal
  upload, \* of an upload on the server: the file it was opened for, has it an
          \* entry, the chunks received, in flight and, as a history, those of
          \* a write that failed; and its job
  count   \* starts and faults so far

vars == <<page, run, worker, upload, count>>

-----------------------------------------------------------------------------
Runs    == 1..MaxStarts
Uploads == 1..MaxInits
Slots   == Runs \X (1..Concurrency)

Live     == {"status", "init", "opened", "chunks", "finalize", "queued", "poll"}
Ended    == {"done", "failed", "gone"}
Fetching == {"send", "write", "ok"}
Sleeping == {"backoff", "limited"}
Working  == Fetching \cup Sleeping
JobOver  == {"complete", "error", "cancelled", "deleted"}

Off      == [at |-> "off", chunk |-> 0, try |-> 0, signal |-> 0]
Dead     == [Off EXCEPT !.at = "dead"]
Sending(c, signal) == [at |-> "send", chunk |-> c, try |-> 0, signal |-> signal]
NoRecord == [upload |-> 0, file |-> NoFile]

Chunks(f) == 0..(NumChunks[f] - 1)
Up(w)     == run[w[1]].upload

\* The n-th chunk of a set, in the order of missingChunks.
Nth(S, n) == CHOOSE c \in S : Cardinality({d \in S : d < c}) = n - 1

\* Variants of the operators below, each with a plausible slip.
SameFile_Slip(f)        == page.saved.upload # 0
Taken_Slip(r, c)        == run[r].todo
Acknowledges_Slip(u, c) == TRUE
MaySave_Slip            == TRUE
GivesUp_Slip(w)         == worker[w].try > MaxRetries
JobSettled_Slip(u)      == upload[u].job = "complete"

\* The saved record is of this file: same name, same size.
SameFile(f) == page.saved.upload # 0 /\ page.saved.file = f

\* nextWork moves past the chunk before the worker first waits.
Taken(r, c) == run[r].todo \ {c}

\* The server answers without writing: the chunk is there or under way.
Acknowledges(u, c) == c \in upload[u].received \cup upload[u].inFlight

\* The test after the workers are done.
SeesCancel == page.cancelled

\* The test between the answer to a chunk and saving the record.
MaySave == ~page.cancelled

\* The attempt that failed was the last one.
GivesUp(w) == worker[w].try + 1 >= MaxRetries

\* The two states at which pollStatus stops.
JobSettled(u) == upload[u].job \in {"complete", "error"}

-----------------------------------------------------------------------------
Init ==
  /\ page = [list |-> <<>>, enabled |-> FALSE, cancelled |-> FALSE, jobId |-> 0,
             ctrl |-> 0, aborted |-> {}, saved |-> NoRecord]
  /\ run = [r \in Runs |-> [at |-> "idle", index |-> 0, file |-> NoFile,
                            upload |-> 0, acked |-> {}, todo |-> {}]]
  /\ worker = [w \in Slots |-> Off]
  /\ upload = [u \in Uploads |-> [owner |-> NoFile, live |-> FALSE, received |-> {},
                                  inFlight |-> {}, failed |-> {}, job |-> "none"]]
  /\ count = [starts |-> 0, faults |-> 0]

\* An entry that goes takes along what was received.
Removed(u, j) == [upload[u] EXCEPT !.live = FALSE, !.received = {}, !.inFlight = {},
                                   !.failed = {}, !.job = j]

Fault == count.faults < MaxFaults /\ count' = [count EXCEPT !.faults = @ + 1]

-----------------------------------------------------------------------------
(* Choosing files.                                                         *)

\* handleSelectedFiles, with metadata that validates.
Select(s) ==
  /\ count.starts < MaxStarts \* a bound: the last start sees the last selection
  /\ page' = [page EXCEPT !.list = s, !.enabled = TRUE]
  /\ UNCHANGED <<run, worker, upload, count>>

\* Another category empties the list.
ChooseCategory ==
  /\ page.list # <<>>
  /\ page' = [page EXCEPT !.list = <<>>]
  /\ UNCHANGED <<run, worker, upload, count>>

\* The banner offers a resume until the page is first used.
DismissResume ==
  /\ page.saved # NoRecord /\ \A r \in Runs : run[r].at \in {"idle", "gone"}
  /\ page' = [page EXCEPT !.saved = NoRecord]
  /\ UNCHANGED <<run, worker, upload, count>>

-----------------------------------------------------------------------------
(* The loop of the Start button.                                           *)

\* The head of uploadSingleFile: a saved record of the file is looked up.
BeginFile(r, i) ==
  LET f == page.list[i]
  IN run' = [run EXCEPT ![r] =
       [at |-> IF SameFile(f) THEN "status" ELSE "init", index |-> i, file |-> f,
        upload |-> IF SameFile(f) THEN page.saved.upload ELSE 0,
        acked |-> {}, todo |-> {}]]

Start ==
  /\ page.enabled /\ page.list # <<>> /\ count.starts < MaxStarts
  /\ count' = [count EXCEPT !.starts = @ + 1]
  /\ page' = [page EXCEPT !.enabled = FALSE, !.cancelled = FALSE, !.jobId = 0]
  /\ BeginFile(count.starts + 1, 1)
  /\ UNCHANGED <<worker, upload>>

\* An error ends the loop and the button comes back.
Fails(r) ==
  /\ run' = [run EXCEPT ![r].at = "failed"]
  /\ page' = [page EXCEPT !.enabled = TRUE]

-----------------------------------------------------------------------------
(* uploadSingleFile up to the first chunks.                                *)

\* The controller, the missing chunks, and the first of them for each worker;
\* or the end of it all when the page is cancelled by now.
Prepare(r, got) ==
  LET missing == Chunks(run[r].file) \ got
      n == IF Cardinality(missing) < Concurrency THEN Cardinality(missing)
           ELSE Concurrency
      first == {Nth(missing, k) : k \in 1..n}
      after(state) == run' = [run EXCEPT ![r].at = state, ![r].acked = got,
                                         ![r].todo = missing \ first]
  IN \/ /\ IF missing = {} THEN SeesCancel ELSE page.cancelled
        /\ after("failed")
        /\ page' = [page EXCEPT !.ctrl = 0, !.enabled = TRUE]
        /\ UNCHANGED worker
     \/ /\ missing = {} /\ ~SeesCancel
        /\ after("finalize")
        /\ page' = [page EXCEPT !.ctrl = 0]
        /\ UNCHANGED worker
     \/ /\ missing # {} /\ ~page.cancelled
        /\ after("chunks")
        /\ page' = [page EXCEPT !.ctrl = r, !.aborted = @ \ {r}]
        /\ worker' = [w \in Slots |-> IF w[1] = r /\ w[2] <= n
                        THEN Sending(Nth(missing, w[2]), r) ELSE worker[w]]

\* The server still has the upload: go on with what it has not received.
Resume(r) ==
  /\ run[r].at = "status" /\ upload[run[r].upload].live
  /\ Prepare(r, upload[run[r].upload].received)
  /\ UNCHANGED <<upload, count>>

\* It has not, or the request fails: the record goes and the upload starts anew.
CannotResume(r) ==
  /\ run[r].at = "status"
  /\ (~upload[run[r].upload].live /\ UNCHANGED count) \/ Fault
  /\ page' = [page EXCEPT !.saved = NoRecord]
  /\ run' = [run EXCEPT ![r].at = "init", ![r].upload = 0]
  /\ UNCHANGED <<worker, upload>>

\* The server opens the next upload,
Open(r, u) ==
  /\ run[r].at = "init"
  /\ upload[u].owner = NoFile /\ (u > 1 => upload[u - 1].owner # NoFile)
  /\ upload' = [upload EXCEPT ![u].owner = run[r].file, ![u].live = TRUE]
  /\ run' = [run EXCEPT ![r].at = "opened", ![r].upload = u]
  /\ UNCHANGED <<page, worker, count>>

\* and its answer arrives.
Opened(r) ==
  /\ run[r].at = "opened"
  /\ Prepare(r, {})
  /\ UNCHANGED <<upload, count>>

\* The init is refused, or it or its answer is lost.
OpenFails(r) ==
  /\ \/ /\ run[r].at = "init" /\ \A u \in Uploads : upload[u].owner # NoFile
        /\ UNCHANGED count
     \/ run[r].at \in {"init", "opened"} /\ Fault
  /\ Fails(r)
  /\ UNCHANGED <<worker, upload>>

-----------------------------------------------------------------------------
(* The workers.                                                            *)

\* Aborting a controller makes the fetches that carry its signal throw, and with
\* them their workers and runs.  The server need not notice: what it was writing
\* stays in flight.
Hit(w, c) == c # 0 /\ worker[w].signal = c /\ worker[w].at \in Fetching

Aborts(c, dead, ended) ==
  /\ worker' = [w \in Slots |-> IF w \in dead \/ Hit(w, c) THEN Dead ELSE worker[w]]
  /\ run' = [r \in Runs |->
       IF run[r].at = "chunks" /\ (r \in ended \/ \E w \in Slots : w[1] = r /\ Hit(w, c))
         THEN [run[r] EXCEPT !.at = "failed"] ELSE run[r]]

Aborted(c) == IF c = 0 THEN page.aborted ELSE page.aborted \cup {c}

\* The first worker to throw ends its run, and aborts the current controller,
\* whosever that is; one that throws later is not heard.
Throws(w, shared) ==
  \/ /\ run[w[1]].at = "chunks"
     /\ Aborts(page.ctrl, {w}, {w[1]})
     /\ page' = [shared EXCEPT !.ctrl = 0, !.aborted = Aborted(page.ctrl),
                               !.enabled = TRUE]
  \/ run[w[1]].at # "chunks" /\ Aborts(0, {w}, {}) /\ page' = shared

\* The catch of sendChunkWithRetry: give up, or sleep and try again.
Caught(w) ==
  \/ (page.cancelled \/ GivesUp(w)) /\ Throws(w, page)
  \/ /\ ~page.cancelled /\ ~GivesUp(w)
     /\ worker' = [worker EXCEPT ![w].at = "backoff", ![w].try = @ + 1]
     /\ UNCHANGED <<page, run>>

\* The chunk reaches the server: it is claimed, or is there or under way.
Arrives(w) ==
  /\ worker[w].at = "send" /\ upload[Up(w)].live
  /\ LET u == Up(w) c == worker[w].chunk
     IN \/ /\ Acknowledges(u, c)
           /\ worker' = [worker EXCEPT ![w].at = "ok"] /\ UNCHANGED upload
        \/ /\ ~Acknowledges(u, c)
           /\ worker' = [worker EXCEPT ![w].at = "write"]
           /\ upload' = [upload EXCEPT ![u].inFlight = @ \cup {c}]
  /\ UNCHANGED <<page, run, count>>

\* The server has no such upload (any more).
NotFound(w) ==
  /\ worker[w].at \in {"send", "write"} /\ ~upload[Up(w)].live
  /\ Caught(w)
  /\ UNCHANGED <<upload, count>>

\* The chunk of an upload is stored.
Stored(u, c) == upload' = [upload EXCEPT ![u].received = @ \cup {c},
                                         ![u].inFlight = @ \ {c}]

Stores(w) ==
  /\ worker[w].at = "write" /\ upload[Up(w)].live
  /\ Stored(Up(w), worker[w].chunk)
  /\ worker' = [worker EXCEPT ![w].at = "ok"]
  /\ UNCHANGED <<page, run, count>>

\* A chunk that was being written when its connection broke may still be stored.
LateStore(u, c) ==
  /\ upload[u].live /\ c \in upload[u].inFlight
  /\ \A w \in Slots : ~ (worker[w].at = "write" /\ Up(w) = u /\ worker[w].chunk = c)
  /\ Stored(u, c)
  /\ UNCHANGED <<page, run, worker, count>>

WriteFails(w) ==
  /\ worker[w].at = "write" /\ upload[Up(w)].live /\ Fault
  /\ upload' = [upload EXCEPT ![Up(w)].inFlight = @ \ {worker[w].chunk},
                              ![Up(w)].failed = @ \cup {worker[w].chunk}]
  /\ Caught(w)

\* The connection breaks before, while or after the server does its part.
Breaks(w) ==
  /\ worker[w].at \in Fetching /\ Fault
  /\ Caught(w)
  /\ UNCHANGED upload

\* The rate limit: the worker waits a minute, and the attempt does not count.
Limited(w) ==
  /\ worker[w].at = "send" /\ Fault
  /\ worker' = [worker EXCEPT ![w].at = "limited"]
  /\ UNCHANGED <<page, run, upload>>

\* A sleep ends.  A fetch whose signal was aborted meanwhile throws.
Wakes(w) ==
  /\ worker[w].at \in Sleeping
  /\ IF page.cancelled \/ worker[w].signal \in page.aborted THEN Throws(w, page)
     ELSE /\ worker' = [worker EXCEPT ![w].at = "send"]
          /\ UNCHANGED <<page, run>>
  /\ UNCHANGED <<upload, count>>

\* The answer to a chunk: it counts, the record is saved, and on to the next
\* one, under the controller that is current by now and must not be null; the
\* last worker to find no more goes on to finalize.
Continues(w) ==
  LET r == w[1] me == run[r] c == worker[w].chunk
      next == Nth(me.todo, 1)
      counted == [run EXCEPT ![r].acked = @ \cup {c}]
      saved == [page EXCEPT !.saved = [upload |-> me.upload, file |-> me.file]]
      last == me.at = "chunks"
              /\ \A k \in 1..Concurrency : k = w[2] \/ worker[<<r, k>>].at = "off"
  IN /\ worker[w].at = "ok"
     /\ \/ ~MaySave /\ Throws(w, page)
        \/ MaySave /\ me.todo # {} /\ page.ctrl = 0 /\ Throws(w, saved)
        \/ /\ MaySave /\ me.todo # {} /\ page.ctrl # 0
           /\ worker' = [worker EXCEPT ![w] = Sending(next, page.ctrl)]
           /\ run' = [counted EXCEPT ![r].todo = Taken(r, next)]
           /\ page' = saved
        \/ /\ MaySave /\ me.todo = {}
           /\ worker' = [worker EXCEPT ![w] = Off]
           /\ run' = IF last THEN [counted EXCEPT ![r].at = "finalize"] ELSE counted
           /\ page' = IF last THEN [saved EXCEPT !.ctrl = 0] ELSE saved
     /\ UNCHANGED <<upload, count>>

-----------------------------------------------------------------------------
(* Finalize and the job.                                                   *)

Complete(u) == upload[u].live /\ upload[u].received = Chunks(upload[u].owner)

\* A complete upload becomes a job and its entry goes.
Queues(r) ==
  /\ run[r].at = "finalize" /\ Complete(run[r].upload)
  /\ upload' = [upload EXCEPT ![run[r].upload] = Removed(run[r].upload, "active")]
  /\ run' = [run EXCEPT ![r].at = "queued"]
  /\ UNCHANGED <<page, worker, count>>

\* The upload is unknown or incomplete, the queue is closed, or the request or
\* its answer is lost.  The record stays.
FinalizeFails(r) ==
  /\ \/ run[r].at = "finalize" /\ ~Complete(run[r].upload) /\ UNCHANGED count
     \/ run[r].at \in {"finalize", "queued"} /\ Fault
  /\ Fails(r)
  /\ UNCHANGED <<worker, upload>>

\* The answer with the job.  Nobody looks whether the run was cancelled.
Queued(r) ==
  /\ run[r].at = "queued"
  /\ page' = [page EXCEPT !.jobId = run[r].upload, !.saved = NoRecord]
  /\ run' = [run EXCEPT ![r].at = "poll"]
  /\ UNCHANGED <<worker, upload, count>>

\* A tick of pollStatus that meets a state it waits for.  After a file comes the
\* next one of the list as it is by now; at the end what is selected is gone.
Poll(r) ==
  LET i == run[r].index + 1
  IN /\ run[r].at = "poll" /\ JobSettled(run[r].upload)
     /\ \/ /\ upload[run[r].upload].job = "error"
           /\ run' = [run EXCEPT ![r].at = "failed"]
           /\ page' = [page EXCEPT !.jobId = 0, !.enabled = TRUE]
        \/ /\ upload[run[r].upload].job = "complete"
           /\ ~page.cancelled /\ i <= Len(page.list)
           /\ BeginFile(r, i)
           /\ page' = [page EXCEPT !.jobId = 0]
        \/ /\ upload[run[r].upload].job = "complete"
           /\ page.cancelled \/ i > Len(page.list)
           /\ run' = [run EXCEPT ![r].at = "done"]
           /\ page' = [page EXCEPT !.jobId = 0, !.list = <<>>, !.enabled = TRUE]
     /\ UNCHANGED <<worker, upload, count>>

JobEnds(u) ==
  /\ upload[u].job = "active"
  /\ \E s \in {"complete", "error"} : upload' = [upload EXCEPT ![u].job = s]
  /\ UNCHANGED <<page, run, worker, count>>

\* Another client cancels the job, or deletes it once it is over.
JobTaken(u) ==
  /\ upload[u].job \notin {"none", "deleted"} /\ Fault
  /\ upload' = [upload EXCEPT ![u].job = IF @ = "active" THEN "cancelled" ELSE "deleted"]
  /\ UNCHANGED <<page, run, worker>>

\* cleanup_expired_uploads, or a restart of the server.
Expires(u) ==
  /\ upload[u].live /\ Fault
  /\ upload' = [upload EXCEPT ![u] = Removed(u, "none")]
  /\ UNCHANGED <<page, run, worker>>

-----------------------------------------------------------------------------
(* Cancel and reload.                                                      *)

\* cancelUpload.  Only the fetches of the current controller are aborted, and
\* the server may never hear of the cancelled job.
Cancel ==
  /\ ~page.cancelled /\ \E r \in Runs : run[r].at \in Live
  /\ Aborts(page.ctrl, {}, {})
  /\ page' = [page EXCEPT !.cancelled = TRUE, !.enabled = TRUE, !.ctrl = 0,
                          !.aborted = Aborted(page.ctrl), !.saved = NoRecord, !.jobId = 0]
  /\ \/ /\ upload' = [u \in Uploads |-> IF u = page.jobId /\ upload[u].job = "active"
                        THEN [upload[u] EXCEPT !.job = "cancelled"] ELSE upload[u]]
        /\ UNCHANGED count
     \/ page.jobId # 0 /\ Fault /\ UNCHANGED upload

\* The page goes and comes back, with nothing but the saved record.
Reload ==
  /\ Fault
  /\ page' = [page EXCEPT !.list = <<>>, !.enabled = FALSE, !.cancelled = FALSE,
                          !.jobId = 0, !.ctrl = 0]
  /\ run' = [r \in Runs |-> IF run[r].at \in Live THEN [run[r] EXCEPT !.at = "gone"]
                            ELSE run[r]]
  /\ worker' = [w \in Slots |-> IF worker[w].at \in Working THEN Dead ELSE worker[w]]
  /\ UNCHANGED upload

-----------------------------------------------------------------------------
WorkerStep(w) == Arrives(w) \/ NotFound(w) \/ Stores(w) \/ WriteFails(w)
                 \/ Breaks(w) \/ Limited(w) \/ Wakes(w) \/ Continues(w)

RunStep(r) == Resume(r) \/ CannotResume(r) \/ (\E u \in Uploads : Open(r, u))
              \/ Opened(r) \/ OpenFails(r) \/ Queues(r) \/ FinalizeFails(r)
              \/ Queued(r) \/ Poll(r)

Next ==
  \/ \E s \in Selections : Select(s)
  \/ ChooseCategory \/ DismissResume \/ Start \/ Cancel \/ Reload
  \/ \E r \in Runs : RunStep(r)
  \/ \E w \in Slots : WorkerStep(w)
  \/ \E u \in Uploads :
       \/ JobEnds(u) \/ JobTaken(u) \/ Expires(u)
       \/ \E c \in upload[u].inFlight : LateStore(u, c)

Spec == Init /\ [][Next]_vars

\* Requests are answered or fail, sleeps end, scripts go on and jobs end.  The
\* user owes nothing.
Fairness ==
  /\ \A r \in Runs : WF_vars(RunStep(r))
  /\ \A w \in Slots : WF_vars(WorkerStep(w))
  /\ \A u \in Uploads : WF_vars(JobEnds(u))

FairSpec == Spec /\ Fairness

-----------------------------------------------------------------------------
(* Properties.                                                             *)

PageType == [list : {<<>>} \cup Selections, enabled : BOOLEAN, cancelled : BOOLEAN,
             jobId : {0} \cup Uploads, ctrl : {0} \cup Runs, aborted : SUBSET Runs,
             saved : [upload : Uploads, file : Files] \cup {NoRecord}]
RunType == [at : {"idle"} \cup Live \cup Ended, index : Nat,
            file : Files \cup {NoFile}, upload : {0} \cup Uploads,
            acked : SUBSET Nat, todo : SUBSET Nat]
WorkerType == [at : {"off", "dead"} \cup Working, chunk : Nat,
               try : 0..(MaxRetries - 1), signal : {0} \cup Runs]
UploadType == [owner : Files \cup {NoFile}, live : BOOLEAN, received : SUBSET Nat,
               inFlight : SUBSET Nat, failed : SUBSET Nat,
               job : {"none", "active"} \cup JobOver]

\* Variables have their types, and no attempt is beyond the last; the current
\* controller is one that was not aborted, of a run whose workers are sending.
TypeOK ==
  /\ page \in PageType
  /\ run \in [Runs -> RunType]
  /\ worker \in [Slots -> WorkerType]
  /\ upload \in [Uploads -> UploadType]
  /\ count \in [starts : 0..MaxStarts, faults : 0..MaxFaults]
  /\ page.ctrl # 0 => page.ctrl \notin page.aborted /\ run[page.ctrl].at = "chunks"

\* A chunk that a run counts as received is at the server or being written
\* there, whatever was cut, repeated or answered early, unless a write of that
\* very chunk failed: so a finalize is refused only for a reason of the server.
AckedReachedServer ==
  \A r \in Runs : (run[r].at \in {"chunks", "finalize"} /\ upload[run[r].upload].live) =>
    LET u == upload[run[r].upload]
    IN run[r].acked \subseteq u.received \cup u.inFlight \cup u.failed

\* The workers of a run never send the same chunk at once, and none that is
\* still to be taken or already counted; together these are all its chunks.
OneSender ==
  \A r \in Runs : run[r].at = "chunks" =>
    LET mine == {w \in Slots : w[1] = r /\ worker[w].at \in Working}
        held == {worker[w].chunk : w \in mine}
    IN /\ \A v, w \in mine : worker[v].chunk = worker[w].chunk => v = w
       /\ held \cap run[r].todo = {} /\ run[r].acked \cap (run[r].todo \cup held) = {}
       /\ run[r].acked \cup run[r].todo \cup held = Chunks(run[r].file)

\* However runs are cancelled, repeated and resumed, an upload only gets the
\* chunks of the file it was opened for, and the saved record says which.
UploadsHoldOneFile ==
  /\ page.saved # NoRecord => upload[page.saved.upload].owner = page.saved.file
  /\ \A r \in Runs : run[r].upload # 0 => upload[run[r].upload].owner = run[r].file

\* A cancel holds until the next start, for every run and worker that it did not
\* abort: the record is gone and no late answer brings it back, and no run begins
\* a finalize, so that what was cancelled makes no job.
CancelHolds ==
  [][page.cancelled /\ page'.cancelled =>
       /\ page'.saved \in {page.saved, NoRecord}
       /\ \A r \in Runs : run'[r].at = "finalize" => run[r].at = "finalize"]_vars

\* Every run ends, whatever fails, however often it is limited, and with
\* another one beside it; unless somebody else takes its job away, for then
\* its polling goes on.
RunsEnd ==
  \A r \in Runs : run[r].at \in Live ~>
    \/ run[r].at \in Ended
    \/ run[r].at = "poll" /\ upload[run[r].upload].job \in {"cancelled", "deleted"}
=============================================================================
