---------------------------- MODULE ChunkedUpload ----------------------------
(***************************************************************************)
(* The resumable upload protocol of src/src/api/uploads.rs: init, chunks   *)
(* that arrive in any order, again or at once, finalize, which turns the   *)
(* file into a job, the sweeper of idle uploads and the clean-up of the    *)
(* uploads directory at start.                                             *)
(*                                                                         *)
(* One step is one critical section of the pending_uploads lock or one     *)
(* file operation; hyper may drop the handler of a client that left at     *)
(* any of the awaits in between.  All clients share one address.  A chunk  *)
(* is its index: a retry carries the same bytes.                           *)
(***************************************************************************)
EXTENDS Naturals, FiniteSets

CONSTANTS
  Uploads,    \* upload ids; every init draws a fresh one
  Requests,   \* chunk and finalize requests
  NoUpload,   \* a request that names no upload yet
  TotalSize,  \* total_size of every upload
  ChunkSize,  \* upload_chunk_size
  MaxPending, \* max_pending_uploads_per_ip; 0 for no limit
  MaxBoots    \* bound: how often the process starts

ASSUME UploadAssumption ==
  /\ IsFiniteSet(Uploads) /\ NoUpload \notin Uploads
  /\ TotalSize \in [Uploads -> Nat \ {0}]
  /\ ChunkSize \in Nat \ {0}
  /\ MaxPending \in Nat /\ MaxBoots \in Nat

VARIABLES
  stage,      \* "pending" while pending_uploads has an entry for the upload
  received,   \* PendingUpload.received_chunks
  inFlight,   \* PendingUpload.in_flight
  bytes,      \* PendingUpload.received_bytes
  finalizing, \* PendingUpload.finalizing
  idle,       \* last_activity lies more than the time to live back
  file,       \* does the upload's file exist?
  content,    \* chunks whose bytes the file has
  flushing,   \* chunks whose last buffer tokio has still to write
  doomed,     \* uploads whose files the sweeper has still to remove
  jobs,       \* jobs queued for the upload
  pc, up, chunk, \* control state of a request, its upload and its chunk
  boots       \* number of process starts so far

entryVars == <<stage, received, inFlight, bytes, finalizing, idle>>
fileVars  == <<file, content, flushing, doomed>>
reqVars   == <<pc, up, chunk>>
vars == <<entryVars, fileVars, jobs, reqVars, boots>>

-----------------------------------------------------------------------------
Stages  == {"new", "checked", "filed", "pending", "gone", "left"}
Writing == {"open", "write", "store"}
Finalizing == {"enqueue", "remove", "reset"}
Over    == {"done", "dropped"}
Control == Writing \cup Finalizing \cup Over \cup {"idle", "clear", "unlink"}

NumChunks(u) == (TotalSize[u] + ChunkSize - 1) \div ChunkSize
Chunks(u) == 0..(NumChunks(u) - 1)
Pending == {u \in Uploads : stage[u] = "pending"}

\* Variants of the operators below, each with a plausible slip.
Size_Slip(u, c)      == ChunkSize
Busy_Slip(u, c)      == c \in received[u]
Complete_Slip(u)     == received[u] \cup inFlight[u] = Chunks(u)
MayFinalize_Slip(u)  == u \in Pending
Expired_Slip(u)      == u \in Pending /\ idle[u] /\ ~finalizing[u]
Released_Slip(r)     == inFlight
Removed_Slip(u)      == UNCHANGED file

\* expected_chunk_size: the last chunk is what is left.
Size(u, c) == IF TotalSize[u] - c * ChunkSize < ChunkSize
                THEN TotalSize[u] - c * ChunkSize ELSE ChunkSize

\* A chunk that is stored or being written is answered as a retry.
Busy(u, c) == c \in received[u] \cup inFlight[u]

\* finalize accepts the upload: both counts agree.
Complete(u) == Cardinality(received[u]) = NumChunks(u) /\ bytes[u] = TotalSize[u]

\* finalize finds the entry, and nobody else is finalizing it.
MayFinalize(u) == u \in Pending /\ ~finalizing[u]

\* What the sweeper, and a chunk that comes too late, remove.
Expired(u) == u \in Pending /\ idle[u]

\* The request's chunk may be sent again, if its entry is still there.
Released(r) == [inFlight EXCEPT ![up[r]] =
                  IF up[r] \in Pending THEN @ \ {chunk[r]} ELSE @]

Removed(u) == file' = [file EXCEPT ![u] = FALSE]

-----------------------------------------------------------------------------
Init ==
  /\ stage = [u \in Uploads |-> "new"]
  /\ received = [u \in Uploads |-> {}] /\ inFlight = [u \in Uploads |-> {}]
  /\ bytes = [u \in Uploads |-> 0]
  /\ finalizing = [u \in Uploads |-> FALSE]
  /\ idle = [u \in Uploads |-> FALSE]
  /\ file = [u \in Uploads |-> FALSE]
  /\ content = [u \in Uploads |-> {}] /\ flushing = [u \in Uploads |-> {}]
  /\ doomed = {}
  /\ jobs = [u \in Uploads |-> 0]
  /\ pc = [r \in Requests |-> "idle"]
  /\ up = [r \in Requests |-> NoUpload]
  /\ chunk = [r \in Requests |-> 0]
  /\ boots = 1

-----------------------------------------------------------------------------
(* handle_upload_init.                                                     *)

\* The limit is checked in a critical section of its own.
CheckLimit(u) ==
  /\ stage[u] = "new"
  /\ MaxPending = 0 \/ Cardinality(Pending) < MaxPending
  /\ stage' = [stage EXCEPT ![u] = "checked"]
  /\ UNCHANGED <<received, inFlight, bytes, finalizing, idle, fileVars, jobs,
                 reqVars, boots>>

\* The free space check, the file and its length; a file that cannot have that
\* length is removed again.
CreateFile(u) ==
  /\ stage[u] = "checked"
  /\ \/ /\ stage' = [stage EXCEPT ![u] = "filed"]
        /\ file' = [file EXCEPT ![u] = TRUE]
     \/ stage' = [stage EXCEPT ![u] = "gone"] /\ UNCHANGED file
  /\ UNCHANGED <<received, inFlight, bytes, finalizing, idle, content,
                 flushing, doomed, jobs, reqVars, boots>>

InsertEntry(u) ==
  /\ stage[u] = "filed"
  /\ stage' = [stage EXCEPT ![u] = "pending"]
  /\ UNCHANGED <<received, inFlight, bytes, finalizing, idle, fileVars, jobs,
                 reqVars, boots>>

\* The client leaves: the file, if there is one, stays without an entry.
InitDropped(u) ==
  /\ stage[u] \in {"checked", "filed"}
  /\ stage' = [stage EXCEPT ![u] = "left"]
  /\ UNCHANGED <<received, inFlight, bytes, finalizing, idle, fileVars, jobs,
                 reqVars, boots>>

-----------------------------------------------------------------------------
(* handle_upload_chunk.                                                    *)

\* The critical section before the write: an upload that is too old goes, a
\* chunk that is there or under way is answered, any other is claimed.
ChunkArrives(r, u, c) ==
  /\ pc[r] = "idle" /\ u \in Pending /\ c \in Chunks(u)
  /\ up' = [up EXCEPT ![r] = u] /\ chunk' = [chunk EXCEPT ![r] = c]
  /\ \/ /\ Expired(u)
        /\ stage' = [stage EXCEPT ![u] = "gone"]
        /\ pc' = [pc EXCEPT ![r] = "unlink"]
        /\ UNCHANGED <<inFlight, idle>>
     \/ /\ ~Expired(u) /\ Busy(u, c)
        /\ idle' = [idle EXCEPT ![u] = FALSE]
        /\ pc' = [pc EXCEPT ![r] = "done"]
        /\ UNCHANGED <<stage, inFlight>>
     \/ /\ ~Expired(u) /\ ~Busy(u, c)
        /\ idle' = [idle EXCEPT ![u] = FALSE]
        /\ inFlight' = [inFlight EXCEPT ![u] = @ \cup {c}]
        /\ pc' = [pc EXCEPT ![r] = "open"]
        /\ UNCHANGED stage
  /\ UNCHANGED <<received, bytes, finalizing, fileVars, jobs, boots>>

\* The file of the upload that was too old.
Unlink(r) ==
  /\ pc[r] = "unlink"
  /\ Removed(up[r])
  /\ pc' = [pc EXCEPT ![r] = "done"]
  /\ UNCHANGED <<entryVars, content, flushing, doomed, jobs, up, chunk, boots>>

\* Open and seek.
OpenFile(r) ==
  /\ pc[r] = "open"
  /\ \E next \in IF file[up[r]] THEN {"write", "clear"} ELSE {"clear"} :
       pc' = [pc EXCEPT ![r] = next]
  /\ UNCHANGED <<entryVars, fileVars, jobs, up, chunk, boots>>

\* write_all returns when tokio has taken the last buffer, not when that is
\* written, and the handler does not flush.
WriteChunk(r) ==
  /\ pc[r] = "write"
  /\ \/ /\ flushing' = [flushing EXCEPT ![up[r]] = @ \cup {chunk[r]}]
        /\ pc' = [pc EXCEPT ![r] = "store"]
     \/ pc' = [pc EXCEPT ![r] = "clear"] /\ UNCHANGED flushing
  /\ UNCHANGED <<entryVars, file, content, doomed, jobs, up, chunk, boots>>

\* The blocking write in the background ends; nobody sees it fail.
FlushEnds(u, c) ==
  /\ c \in flushing[u]
  /\ flushing' = [flushing EXCEPT ![u] = @ \ {c}]
  /\ \E ok \in BOOLEAN :
       content' = [content EXCEPT ![u] = IF ok THEN @ \cup {c} ELSE @]
  /\ UNCHANGED <<entryVars, file, doomed, jobs, reqVars, boots>>

\* An error: the client may send the chunk again.
Clear(r) ==
  /\ pc[r] = "clear"
  /\ inFlight' = Released(r)
  /\ pc' = [pc EXCEPT ![r] = "done"]
  /\ UNCHANGED <<stage, received, bytes, finalizing, idle, fileVars, jobs, up,
                 chunk, boots>>

\* The critical section after the write, unless the entry is gone.
Store(r) ==
  /\ pc[r] = "store"
  /\ LET u == up[r] c == chunk[r]
     IN IF u \in Pending
          THEN /\ inFlight' = Released(r)
               /\ received' = [received EXCEPT ![u] = @ \cup {c}]
               /\ bytes' = [bytes EXCEPT ![u] =
                              IF c \in received[u] THEN @ ELSE @ + Size(u, c)]
               /\ idle' = [idle EXCEPT ![u] = FALSE]
          ELSE UNCHANGED <<inFlight, received, bytes, idle>>
  /\ pc' = [pc EXCEPT ![r] = "done"]
  /\ UNCHANGED <<stage, finalizing, fileVars, jobs, up, chunk, boots>>

-----------------------------------------------------------------------------
(* handle_upload_finalize.                                                 *)

FinalizeStarts(r, u) ==
  /\ pc[r] = "idle" /\ MayFinalize(u) /\ Complete(u)
  /\ finalizing' = [finalizing EXCEPT ![u] = TRUE]
  /\ up' = [up EXCEPT ![r] = u]
  /\ pc' = [pc EXCEPT ![r] = "enqueue"]
  /\ UNCHANGED <<stage, received, inFlight, bytes, idle, fileVars, jobs, chunk,
                 boots>>

\* enqueue_job queues the job or fails.
Enqueue(r) ==
  /\ pc[r] = "enqueue"
  /\ \/ /\ jobs' = [jobs EXCEPT ![up[r]] = @ + 1]
        /\ pc' = [pc EXCEPT ![r] = "remove"]
     \/ pc' = [pc EXCEPT ![r] = "reset"] /\ UNCHANGED jobs
  /\ UNCHANGED <<entryVars, fileVars, up, chunk, boots>>

RemoveEntry(r) ==
  /\ pc[r] = "remove"
  /\ stage' = [stage EXCEPT ![up[r]] = "gone"]
  /\ pc' = [pc EXCEPT ![r] = "done"]
  /\ UNCHANGED <<received, inFlight, bytes, finalizing, idle, fileVars, jobs,
                 up, chunk, boots>>

Reset(r) ==
  /\ pc[r] = "reset"
  /\ finalizing' = [finalizing EXCEPT ![up[r]] =
                      IF up[r] \in Pending THEN FALSE ELSE @]
  /\ pc' = [pc EXCEPT ![r] = "done"]
  /\ UNCHANGED <<stage, received, inFlight, bytes, idle, fileVars, jobs, up,
                 chunk, boots>>

\* The client of a chunk or finalize request leaves.
Disconnect(r) ==
  /\ pc[r] \notin Over \cup {"idle"}
  /\ pc' = [pc EXCEPT ![r] = "dropped"]
  /\ UNCHANGED <<entryVars, fileVars, jobs, up, chunk, boots>>

-----------------------------------------------------------------------------
(* Time, the sweeper, restart.                                             *)

\* The time to live passes without activity.
TimePasses(u) ==
  /\ u \in Pending /\ ~idle[u]
  /\ idle' = [idle EXCEPT ![u] = TRUE]
  /\ UNCHANGED <<stage, received, inFlight, bytes, finalizing, fileVars, jobs,
                 reqVars, boots>>

\* cleanup_expired_uploads: the entries in one critical section,
Sweep ==
  /\ doomed = {}
  /\ doomed' = {u \in Uploads : Expired(u)} /\ doomed' # {}
  /\ stage' = [u \in Uploads |-> IF Expired(u) THEN "gone" ELSE stage[u]]
  /\ UNCHANGED <<received, inFlight, bytes, finalizing, idle, file, content,
                 flushing, jobs, reqVars, boots>>

\* then their files.
SweepFile(u) ==
  /\ u \in doomed
  /\ Removed(u)
  /\ doomed' = doomed \ {u}
  /\ UNCHANGED <<entryVars, content, flushing, jobs, reqVars, boots>>

\* The process dies and starts again: cleanup_orphaned_uploads empties the
\* directory.
Reboot ==
  /\ boots < MaxBoots
  /\ boots' = boots + 1
  /\ stage' = [u \in Uploads |-> IF stage[u] = "new" THEN "new" ELSE "gone"]
  /\ file' = [u \in Uploads |-> FALSE]
  /\ flushing' = [u \in Uploads |-> {}] /\ doomed' = {}
  /\ pc' = [r \in Requests |-> IF pc[r] \in Over \cup {"idle"} THEN pc[r]
                               ELSE "dropped"]
  /\ UNCHANGED <<received, inFlight, bytes, finalizing, idle, content, jobs,
                 up, chunk>>

-----------------------------------------------------------------------------
InitStep(u) == CheckLimit(u) \/ CreateFile(u) \/ InsertEntry(u) \/ InitDropped(u)

ChunkStep(r) == Unlink(r) \/ OpenFile(r) \/ WriteChunk(r) \/ Clear(r) \/ Store(r)

FinalizeStep(r) == Enqueue(r) \/ RemoveEntry(r) \/ Reset(r)

Next ==
  \/ \E u \in Uploads :
       \/ InitStep(u) \/ TimePasses(u) \/ SweepFile(u)
       \/ \E c \in Chunks(u) : FlushEnds(u, c)
       \/ \E r \in Requests :
            \/ \E c \in Chunks(u) : ChunkArrives(r, u, c)
            \/ FinalizeStarts(r, u)
  \/ \E r \in Requests : ChunkStep(r) \/ FinalizeStep(r) \/ Disconnect(r)
  \/ Sweep \/ Reboot

Spec == Init /\ [][Next]_vars

\* The clock goes on and the sweeper wakes up at its interval.  Clients owe
\* nothing, and a finalize may wait for the queue as long as it likes.
Fairness ==
  /\ \A u \in Uploads : WF_vars(TimePasses(u)) /\ WF_vars(SweepFile(u))
  /\ WF_vars(Sweep)

FairSpec == Spec /\ Fairness
-----------------------------------------------------------------------------
(* Properties.                                                             *)

Writers(u, c) == {r \in Requests : pc[r] \in Writing /\ up[r] = u /\ chunk[r] = c}

\* Variables have their types; a stored chunk is not in flight any more.
TypeOK ==
  /\ stage \in [Uploads -> Stages]
  /\ bytes \in [Uploads -> Nat]
  /\ finalizing \in [Uploads -> BOOLEAN] /\ idle \in [Uploads -> BOOLEAN]
  /\ file \in [Uploads -> BOOLEAN]
  /\ received \in [Uploads -> SUBSET Nat] /\ inFlight \in [Uploads -> SUBSET Nat]
  /\ content \in [Uploads -> SUBSET Nat] /\ flushing \in [Uploads -> SUBSET Nat]
  /\ \A u \in Uploads :
       /\ received[u] \subseteq Chunks(u) /\ inFlight[u] \subseteq Chunks(u)
       /\ content[u] \subseteq Chunks(u) /\ flushing[u] \subseteq Chunks(u)
       /\ received[u] \cap inFlight[u] = {}
  /\ doomed \subseteq Uploads
  /\ jobs \in [Uploads -> Nat]
  /\ pc \in [Requests -> Control]
  /\ up \in [Requests -> Uploads \cup {NoUpload}]
  /\ chunk \in [Requests -> Nat]
  /\ \A r \in Requests : pc[r] # "idle" => up[r] \in Uploads
  /\ boots \in Nat

\* received_bytes is the size of the received chunks, the shorter last one
\* included, whatever was sent twice or failed: so the two tests of finalize
\* agree, and an upload that has all its chunks is never refused.
BytesMatch ==
  \A u \in Uploads :
    LET whole == ChunkSize * Cardinality(received[u])
        missing == ChunkSize * NumChunks(u) - TotalSize[u]
    IN bytes[u] = IF NumChunks(u) - 1 \in received[u] THEN whole - missing
                  ELSE whole

\* No two requests write the same part of the file at once, and each of them
\* has the chunk claimed as long as the upload is pending.
OneWriter ==
  \A u \in Uploads : \A c \in Chunks(u) :
    /\ \A r, s \in Writers(u, c) : r = s
    /\ Writers(u, c) # {} => c \in inFlight[u]

\* A file that is being handed over to a job, or was, is not written by any
\* request any more.
FinalizedIsFrozen ==
  \A u \in Uploads : finalizing[u] \/ jobs[u] > 0 =>
    \A r \in Requests : up[r] = u => pc[r] \notin Writing

\* However often finalize is sent, fails, or loses its client, at most one job
\* is queued for an upload.
OneJobPerUpload == \A u \in Uploads : jobs[u] <= 1

\* A file without a pending entry is about to be removed, belongs to a job, or
\* is left by a client that left: nothing else leaks space until a restart.
FilesAreOwned ==
  \A u \in Uploads : file[u] =>
    \/ stage[u] \in {"filed", "pending", "left"} \/ u \in doomed \/ jobs[u] > 0
    \/ \E r \in Requests : up[r] = u /\ pc[r] \in {"unlink", "dropped"}

\* Every pending upload ends, a finalize that hangs or that lost its client
\* included: the upload is queued, or its idle entry is swept.
UploadsEnd == \A u \in Uploads : stage[u] = "pending" ~> stage[u] # "pending"
=============================================================================
