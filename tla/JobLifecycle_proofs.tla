------------------------ MODULE JobLifecycle_proofs ------------------------
(* Theorems of JobLifecycle for any set of jobs and any configuration: its *)
(* queue and permits, the verdict on a job, and what a job leaves behind.  *)
EXTENDS JobLifecycle, FiniteSetTheorems, TLAPS

USE JobsAssumption, ConfigAssumption

-----------------------------------------------------------------------------
(* The shape of the state.                                                 *)

LEMMA ShapeInit == Init => StateShape
  BY DEF Init, StateShape, Phases, Booting, Status, Terminal, Active, RowStatus,
         SubState, WkState, MaxPermits

LEMMA ShapeStep == StateShape /\ [Next]_vars => StateShape'
<1> SUFFICES ASSUME StateShape, [Next]_vars PROVE StateShape'
  OBVIOUS
<1> USE DEF StateShape, Phases, Booting, Status, Terminal, Active, RowStatus, SubState,
            WkState, memVars, diskVars, lifeVars, requestVars
<1>1. ASSUME NEW j \in Jobs, SubmitStep(j) PROVE StateShape'
  <2>1. CASE Submit(j) BY <2>1 DEF Submit
  <2>2. CASE BeginDownload(j) BY <2>2 DEF BeginDownload
  <2>3. CASE DownloadMark(j) BY <2>3 DEF DownloadMark, Marked
  <2>4. CASE StreamEnds(j) BY <2>4 DEF StreamEnds
  <2>5. CASE StreamSeesStop(j) BY <2>5 DEF StreamSeesStop
  <2>6. CASE DownloadBreaks(j) BY <2>6 DEF DownloadBreaks
  <2>7. CASE Requeue(j)
    <3>1. mem' = mem \/ mem' = [mem EXCEPT ![j] = "queued"] BY <2>7 DEF Requeue
    <3>2. sub' = [sub EXCEPT ![j] = "failing"] \/ sub' = [sub EXCEPT ![j] = "mark"]
      BY <2>7 DEF Requeue
    <3>3. mem' \in [Jobs -> Status] BY <3>1
    <3>4. sub' \in [Jobs -> SubState] BY <3>2
    <3> QED BY <2>7, <3>3, <3>4 DEF Requeue
  <2>8. CASE DownloadFailed(j) BY <2>8 DEF DownloadFailed
  <2>9. CASE DownloadFailPersist(j) BY <2>9 DEF DownloadFailPersist, Updated
  <2>10. CASE QueuedMark(j) BY <2>10 DEF QueuedMark, Marked
  <2>11. CASE Send(j) BY <2>11 DEF Send
  <2>12. CASE SendRefused(j) BY <2>12 DEF SendRefused, AfterRefusal
  <2>13. CASE Abandon(j) BY <2>13 DEF Abandon
  <2> QED BY <1>1, <2>1, <2>2, <2>3, <2>4, <2>5, <2>6, <2>7, <2>8, <2>9, <2>10, <2>11, <2>12, <2>13 DEF SubmitStep
<1>2. ASSUME NEW j \in Jobs, WorkerStep(j) PROVE StateShape'
  <2>1. CASE WorkerStarts(j)
    <3>1. mem' = mem \/ mem' = [mem EXCEPT ![j] = "analyzing"]
      BY <2>1 DEF WorkerStarts
    <3>2. wk' = [wk EXCEPT ![j] = "idle"] \/ wk' = [wk EXCEPT ![j] = "marker"]
      BY <2>1 DEF WorkerStarts, EndTask
    <3>3. mem' \in [Jobs -> Status] BY <3>1
    <3>4. wk' \in [Jobs -> WkState] BY <3>2
    <3>5. permits' \in Nat BY <2>1 DEF WorkerStarts, EndTask
    <3> QED BY <2>1, <3>3, <3>4, <3>5 DEF WorkerStarts
  <2>2. CASE ProcessingMark(j) BY <2>2 DEF ProcessingMark, Marked
  <2>3. CASE Prepare(j)
    <3>0. wk' = [wk EXCEPT ![j] = "admit"] \/ wk' = [wk EXCEPT ![j] = "failing"]
      BY <2>3, Zenon DEF Prepare
    <3>1. wk' \in [Jobs -> WkState] BY <3>0
    <3>2. \E b \in BOOLEAN : dir' = [dir EXCEPT ![j] = b]
      <4>1. CASE dir' = [dir EXCEPT ![j] = TRUE] BY <4>1
      <4>2. ASSUME NEW made \in BOOLEAN, dir' = [dir EXCEPT ![j] = @ \/ made]
            PROVE \E b \in BOOLEAN : dir' = [dir EXCEPT ![j] = b]
        <5>1. (dir[j] \/ made) \in BOOLEAN BY Zenon
        <5> QED BY <4>2, <5>1, Zenon
      <4> QED BY <2>3, <4>1, <4>2, Zenon DEF Prepare
    <3>3. dir' \in [Jobs -> BOOLEAN] BY <3>2
    <3> QED BY <2>3, <3>1, <3>3 DEF Prepare
  <2>4. CASE Admit(j)
    <3>1. mem' = mem \/ mem' = [mem EXCEPT ![j] = "processing"]
      BY <2>4 DEF Admit
    <3>2. wk' = [wk EXCEPT ![j] = "cleanup"] \/ wk' = [wk EXCEPT ![j] = "detect"]
      BY <2>4 DEF Admit
    <3>3. mem' \in [Jobs -> Status] BY <3>1
    <3>4. wk' \in [Jobs -> WkState] BY <3>2
    <3> QED BY <2>4, <3>3, <3>4 DEF Admit
  <2>5. CASE Detect(j) BY <2>5 DEF Detect
  <2>6. CASE MediaSucceeds(j)
    <3>1. mem' = mem \/ mem' = [mem EXCEPT ![j] = "uploading"]
      BY <2>6 DEF MediaSucceeds
    <3>2. wk' = [wk EXCEPT ![j] = "cleanup"] \/ wk' = [wk EXCEPT ![j] = "upload"]
      BY <2>6 DEF MediaSucceeds
    <3>3. mem' \in [Jobs -> Status] BY <3>1
    <3>4. wk' \in [Jobs -> WkState] BY <3>2
    <3> QED BY <2>6, <3>3, <3>4 DEF MediaSucceeds
  <2>7. CASE MediaFails(j) BY <2>7 DEF MediaFails
  <2>8. CASE UploadEnds(j) BY <2>8 DEF UploadEnds, AfterUpload
  <2>9. CASE SaveJob(j) BY <2>9 DEF SaveJob
  <2>10. CASE FinishComplete(j)
    <3>1. mem' = mem \/ mem' = [mem EXCEPT ![j] = "complete"]
      BY <2>10 DEF FinishComplete
    <3>2. wk' = [wk EXCEPT ![j] = "cleanup"] \/ wk' = [wk EXCEPT ![j] = "announce"]
      BY <2>10 DEF FinishComplete
    <3>3. mem' \in [Jobs -> Status] BY <3>1
    <3>4. wk' \in [Jobs -> WkState] BY <3>2
    <3> QED BY <2>10, <3>3, <3>4 DEF FinishComplete
  <2>11. CASE Announce(j) BY <2>11 DEF Announce
  <2>12. CASE FinishError(j)
    <3>1. mem' = mem \/ mem' = [mem EXCEPT ![j] = "error"]
      BY <2>12 DEF FinishError
    <3>2. wk' = [wk EXCEPT ![j] = "cleanup"] \/ wk' = [wk EXCEPT ![j] = "persist"]
      BY <2>12 DEF FinishError
    <3>3. mem' \in [Jobs -> Status] BY <3>1
    <3>4. wk' \in [Jobs -> WkState] BY <3>2
    <3> QED BY <2>12, <3>3, <3>4 DEF FinishError
  <2>13. CASE PersistError(j) BY <2>13 DEF PersistError, Updated
  <2>14. CASE Cleanup(j) BY <2>14 DEF Cleanup, EndTask, Deferred
  <2> QED BY <1>2, <2>1, <2>2, <2>3, <2>4, <2>5, <2>6, <2>7, <2>8, <2>9, <2>10, <2>11, <2>12, <2>13, <2>14 DEF WorkerStep
<1>3. ASSUME NEW j \in Jobs, WatcherStep(j) \/ Cancel(j) \/ CancelPersist(j) \/ DeleteRow(j) PROVE StateShape'
  <2>1. CASE TimeoutPersist(j) BY <2>1 DEF TimeoutPersist, Updated
  <2>2. CASE TimeoutClean(j) BY <2>2 DEF TimeoutClean, Deferred
  <2>3. CASE Cancel(j) BY <2>3 DEF Cancel
  <2>4. CASE CancelPersist(j) BY <2>4 DEF CancelPersist, Updated
  <2>5. CASE DeleteRow(j) BY <2>5 DEF DeleteRow
  <2> QED BY <1>3, <2>1, <2>2, <2>3, <2>4, <2>5 DEF WatcherStep
<1>4. CASE DispatcherStep \/ LifeStep
  <2>1. CASE Receive BY <2>1 DEF Receive
  <2>2. CASE Spawn BY <2>2 DEF Spawn, StartTask
  <2>3. CASE DispatcherStops
    <3>1. queue' \in Seq(Jobs) BY <2>3 DEF DispatcherStops
    <3>2. open' \in BOOLEAN BY <2>3 DEF DispatcherStops
    <3> QED BY <3>2, <2>3, <3>1 DEF DispatcherStops
  <2>4. CASE Shutdown BY <2>4 DEF Shutdown
  <2>5. CASE Drained BY <2>5 DEF Drained
  <2>6. CASE DrainDeadline BY <2>6 DEF DrainDeadline
  <2>7. CASE Reboot BY <2>7 DEF Reboot, MaxPermits
  <2>8. CASE ListStuck BY <2>8 DEF ListStuck
  <2>9. CASE RecoverRows BY <2>9 DEF RecoverRows
  <2>10. CASE ListActive BY <2>10 DEF ListActive
  <2>11. CASE CleanDirs BY <2>11 DEF CleanDirs
  <2> QED BY <1>4, <2>1, <2>2, <2>3, <2>4, <2>5, <2>6, <2>7, <2>8, <2>9, <2>10, <2>11
       DEF DispatcherStep, LifeStep
<1>5. ASSUME NEW old \in SUBSET Jobs, Forget(old) PROVE StateShape'
  BY <1>5 DEF Forget
<1>6. ASSUME NEW late \in SUBSET Expirable, TimeoutScan(late) PROVE StateShape'
  BY <1>6 DEF TimeoutScan
<1>7. CASE UNCHANGED vars BY <1>7 DEF vars
<1> QED BY <1>1, <1>2, <1>3, <1>4, <1>5, <1>6, <1>7 DEF Next
THEOREM ShapeHolds == Spec => []StateShape
<1> QED BY ShapeInit, ShapeStep, PTL DEF Spec

-----------------------------------------------------------------------------
(* Where requests are.  All but six kinds of step leave the channel, the   *)
(* dispatcher and the pool of workers alone.                               *)

Frame ==
  /\ UNCHANGED <<queue, held, permits>>
  /\ \A k \in Jobs : sub[k] = "done" => sub'[k] = "done"
  /\ \A k \in Jobs : wk'[k] = "idle" <=> wk[k] = "idle"

\* A worker ends, by its first return or after its cleanup.
WorkerEnds(j) ==
  wk[j] # "idle" /\ EndTask(j) /\ UNCHANGED <<queue, held, sub>>

LEMMA FrameStep ==
  ASSUME StateShape, [Next]_vars
  PROVE  \/ Frame
         \/ \E j \in Jobs : Send(j) \/ WorkerEnds(j)
         \/ DispatcherStep \/ Reboot
<1> DEFINE Goal == \/ Frame
                   \/ \E j \in Jobs : Send(j) \/ WorkerEnds(j)
                   \/ DispatcherStep \/ Reboot
<1> USE DEF memVars, diskVars, lifeVars, requestVars
<1>0. sub \in [Jobs -> SubState] /\ wk \in [Jobs -> WkState] BY DEF StateShape
<1>1. ASSUME NEW j \in Jobs, SubmitStep(j) PROVE Goal
  <2>0. SUFFICES ASSUME ~Send(j) PROVE Frame
    OBVIOUS
  <2>1. CASE Submit(j) BY <1>0, <2>1 DEF Frame, Submit
  <2>2. CASE BeginDownload(j) BY <1>0, <2>2 DEF Frame, BeginDownload
  <2>3. CASE DownloadMark(j) BY <1>0, <2>3 DEF Frame, DownloadMark
  <2>4. CASE StreamEnds(j) BY <1>0, <2>4 DEF Frame, StreamEnds
  <2>5. CASE StreamSeesStop(j) BY <1>0, <2>5 DEF Frame, StreamSeesStop
  <2>6. CASE DownloadBreaks(j) BY <1>0, <2>6 DEF Frame, DownloadBreaks
  <2>7. CASE Requeue(j) BY <1>0, <2>7 DEF Frame, Requeue
  <2>8. CASE DownloadFailed(j) BY <1>0, <2>8 DEF Frame, DownloadFailed
  <2>9. CASE DownloadFailPersist(j) BY <1>0, <2>9 DEF Frame, DownloadFailPersist
  <2>10. CASE QueuedMark(j) BY <1>0, <2>10 DEF Frame, QueuedMark
  <2>11. CASE SendRefused(j) BY <1>0, <2>11 DEF Frame, SendRefused, AfterRefusal
  <2>12. CASE Abandon(j) BY <1>0, <2>12 DEF Frame, Abandon
  <2> QED BY <1>1, <2>0, <2>1, <2>2, <2>3, <2>4, <2>5, <2>6, <2>7, <2>8, <2>9, <2>10, <2>11, <2>12
       DEF SubmitStep
<1>2. ASSUME NEW j \in Jobs, WorkerStep(j) PROVE Goal
  <2>1. CASE WorkerStarts(j)
    <3>1. CASE Stop(j)
      <4>1. WorkerEnds(j) BY <2>1, <3>1 DEF WorkerStarts, WorkerEnds
      <4> QED BY <4>1
    <3>2. CASE ~Stop(j)
      <4>1. Frame BY <1>0, <2>1, <3>2 DEF WorkerStarts, Frame
      <4> QED BY <4>1
    <3> QED BY <3>1, <3>2
  <2>2. CASE ProcessingMark(j) BY <1>0, <2>2 DEF Frame, ProcessingMark
  <2>3. CASE Prepare(j) BY <1>0, <2>3 DEF Frame, Prepare
  <2>4. CASE Admit(j) BY <1>0, <2>4 DEF Frame, Admit
  <2>5. CASE Detect(j) BY <1>0, <2>5 DEF Frame, Detect
  <2>6. CASE MediaSucceeds(j) BY <1>0, <2>6 DEF Frame, MediaSucceeds
  <2>7. CASE MediaFails(j) BY <1>0, <2>7 DEF Frame, MediaFails
  <2>8. CASE UploadEnds(j) BY <1>0, <2>8 DEF Frame, UploadEnds, AfterUpload
  <2>9. CASE SaveJob(j) BY <1>0, <2>9 DEF Frame, SaveJob
  <2>10. CASE FinishComplete(j) BY <1>0, <2>10 DEF Frame, FinishComplete
  <2>11. CASE Announce(j) BY <1>0, <2>11 DEF Frame, Announce
  <2>12. CASE FinishError(j) BY <1>0, <2>12 DEF Frame, FinishError
  <2>13. CASE PersistError(j) BY <1>0, <2>13 DEF Frame, PersistError
  <2>14. CASE Cleanup(j)
    <3>1. WorkerEnds(j) BY <2>14 DEF Cleanup, WorkerEnds
    <3> QED BY <3>1
  <2> QED BY <1>2, <2>1, <2>2, <2>3, <2>4, <2>5, <2>6, <2>7, <2>8, <2>9, <2>10, <2>11, <2>12, <2>13, <2>14 DEF WorkerStep
<1>3. ASSUME NEW j \in Jobs,
             WatcherStep(j) \/ Cancel(j) \/ CancelPersist(j) \/ DeleteRow(j)
      PROVE  Frame
  BY <1>3 DEF Frame, WatcherStep, TimeoutPersist, TimeoutClean, Cancel, CancelPersist, DeleteRow
<1>4. ASSUME LifeStep, ~Reboot PROVE Frame
  BY <1>4 DEF Frame, LifeStep, Shutdown, Drained, DrainDeadline, ListStuck,
              RecoverRows, ListActive, CleanDirs
<1>5. ASSUME NEW old \in SUBSET Jobs, Forget(old) PROVE Frame
  BY <1>5 DEF Frame, Forget
<1>6. ASSUME NEW late \in SUBSET Expirable, TimeoutScan(late) PROVE Frame
  BY <1>6 DEF Frame, TimeoutScan
<1>7. CASE UNCHANGED vars BY <1>7 DEF Frame, vars
<1> QED BY <1>1, <1>2, <1>3, <1>4, <1>5, <1>6, <1>7 DEF Next

LEMMA PlaceInit == Init => RequestInOnePlace
  BY DEF Init, RequestInOnePlace, InQueue

LEMMA PlaceStep ==
  ASSUME StateShape, RequestInOnePlace, [Next]_vars
  PROVE  RequestInOnePlace'
<1> USE DEF requestVars, memVars, diskVars, lifeVars
<1>0. /\ queue \in Seq(Jobs) /\ held \in Jobs \cup {NoJob}
      /\ sub \in [Jobs -> SubState] /\ wk \in [Jobs -> WkState]
  BY DEF StateShape
<1>1. CASE Frame
  BY <1>1 DEF Frame, RequestInOnePlace, InQueue
<1>2. ASSUME NEW j \in Jobs, Send(j) PROVE RequestInOnePlace'
  <2>1. /\ queue' = Append(queue, j) /\ held' = held /\ wk' = wk
        /\ sub' = [sub EXCEPT ![j] = "done"] /\ sub[j] = "send"
    BY <1>2 DEF Send
  <2>2. ~InQueue(j) /\ held # j /\ wk[j] = "idle"
    BY <2>1 DEF RequestInOnePlace
  <2>3. Len(queue') = Len(queue) + 1 /\ queue'[Len(queue) + 1] = j
        /\ \A i \in 1..Len(queue) : queue'[i] = queue[i]
    BY <1>0, <2>1
  <2>4. \A k \in Jobs : InQueue(k)' => InQueue(k) \/ k = j
    BY <1>0, <2>3 DEF InQueue
  <2>5. \A k \in Jobs, m, n \in 1..Len(queue') :
           queue'[m] = k /\ queue'[n] = k => m = n
    BY <1>0, <2>2, <2>3 DEF InQueue, RequestInOnePlace
  <2> QED BY <1>0, <2>1, <2>2, <2>4, <2>5 DEF RequestInOnePlace
<1>3. ASSUME NEW j \in Jobs, WorkerEnds(j) PROVE RequestInOnePlace'
  <2>1. queue' = queue /\ held' = held /\ sub' = sub /\ wk' = [wk EXCEPT ![j] = "idle"]
    BY <1>3 DEF WorkerEnds, EndTask
  <2> QED BY <1>0, <2>1 DEF RequestInOnePlace, InQueue
<1>4. CASE Receive
  <2>1. /\ queue # <<>> /\ held = NoJob /\ held' = Head(queue)
        /\ queue' = Tail(queue) /\ sub' = sub /\ wk' = wk
    BY <1>4 DEF Receive
  <2>2. /\ Len(queue) \in Nat \ {0} /\ held' = queue[1] /\ held' \in Jobs
        /\ Len(queue') = Len(queue) - 1
        /\ \A i \in 1..Len(queue') : i + 1 \in 1..Len(queue) /\ queue'[i] = queue[i + 1]
    BY <1>0, <2>1
  <2>3. \A k \in Jobs : InQueue(k)' => InQueue(k) /\ k # held'
    BY <1>0, <2>2 DEF InQueue, RequestInOnePlace
  <2>4. InQueue(held')
    BY <2>2 DEF InQueue
  <2>5. \A k \in Jobs, m, n \in 1..Len(queue') :
           queue'[m] = k /\ queue'[n] = k => m = n
    BY <1>0, <2>2 DEF RequestInOnePlace
  <2> QED BY <1>0, <2>1, <2>3, <2>4, <2>5 DEF RequestInOnePlace
<1>5. CASE Spawn
  <2>1. /\ held \in Jobs /\ held' = NoJob /\ queue' = queue /\ sub' = sub
        /\ wk' = [wk EXCEPT ![held] = "spawned"]
    BY <1>0, <1>5 DEF Spawn, StartTask
  <2> QED BY <1>0, <2>1 DEF RequestInOnePlace, InQueue
<1>6. CASE DispatcherStops
  <2>1. queue' = <<>> /\ held' = held /\ sub' = sub /\ wk' = wk
    BY <1>6 DEF DispatcherStops
  <2> QED BY <2>1 DEF RequestInOnePlace, InQueue
<1>7. CASE Reboot
  <2>1. queue' = <<>> /\ held' = NoJob /\ wk' = [j \in Jobs |-> "idle"]
    BY <1>7 DEF Reboot
  <2> QED BY <2>1 DEF RequestInOnePlace, InQueue
<1> QED BY FrameStep, <1>1, <1>2, <1>3, <1>4, <1>5, <1>6, <1>7 DEF DispatcherStep

\* A request is never in two places: enqueue_job, the channel, job_dispatcher
\* and process_job hand it on, and no job is ever processed twice.
THEOREM RequestInOnePlaceHolds == Spec => []RequestInOnePlace
<1> QED BY ShapeHolds, PlaceInit, PlaceStep, PTL DEF Spec

-----------------------------------------------------------------------------
(* The semaphore.                                                          *)

LEMMA RunningFinite == IsFiniteSet(Running) /\ Cardinality(Running) \in Nat
<1>1. Running \subseteq Jobs BY DEF Running
<1> QED BY <1>1, FS_Subset, FS_CardinalityType

LEMMA PermitsInit == Init => PermitsBalance
<1> SUFFICES ASSUME Init PROVE PermitsBalance
  OBVIOUS
<1>1. Running = {} BY DEF Init, Running
<1>2. Cardinality(Running) = 0 BY <1>1, FS_EmptySet
<1> QED BY <1>2 DEF Init, PermitsBalance, MaxPermits

LEMMA PermitsStep ==
  ASSUME StateShape, RequestInOnePlace, PermitsBalance, [Next]_vars
  PROVE  PermitsBalance'
<1> USE DEF requestVars, memVars, diskVars, lifeVars
<1>0. /\ permits \in Nat /\ held \in Jobs \cup {NoJob} /\ wk \in [Jobs -> WkState]
      /\ MaxPermits \in Nat
  BY DEF StateShape, MaxPermits
<1>1. CASE Frame
  <2>1. Running' = Running BY <1>1 DEF Frame, Running
  <2> QED BY <1>1, <2>1 DEF Frame, PermitsBalance, MaxPermits
<1>2. ASSUME NEW j \in Jobs, Send(j) PROVE PermitsBalance'
  BY <1>2 DEF Send, PermitsBalance, MaxPermits, Running
<1>3. ASSUME NEW j \in Jobs, WorkerEnds(j) PROVE PermitsBalance'
  <2>1. permits' = permits + 1 /\ wk' = [wk EXCEPT ![j] = "idle"] /\ wk[j] # "idle"
    BY <1>3 DEF WorkerEnds, EndTask
  <2>2. Running' = Running \ {j} /\ j \in Running BY <1>0, <2>1 DEF Running
  <2>3. Cardinality(Running') = Cardinality(Running) - 1
    BY <2>2, RunningFinite, FS_RemoveElement
  <2> QED BY <1>0, <2>1, <2>3, RunningFinite DEF PermitsBalance, MaxPermits
<1>4. CASE Spawn
  <2>1. /\ held \in Jobs /\ permits' = permits - 1
        /\ wk' = [wk EXCEPT ![held] = "spawned"]
    BY <1>0, <1>4 DEF Spawn, StartTask
  <2>2. wk[held] = "idle" BY <2>1 DEF RequestInOnePlace
  <2>3. Running' = Running \cup {held} /\ held \notin Running
    BY <1>0, <2>1, <2>2 DEF Running, WkState
  <2>4. Cardinality(Running') = Cardinality(Running) + 1
    BY <2>3, RunningFinite, FS_AddElement
  <2> QED BY <1>0, <2>1, <2>4, RunningFinite DEF PermitsBalance, MaxPermits
<1>5. CASE Receive \/ DispatcherStops
  BY <1>5 DEF Receive, DispatcherStops, PermitsBalance, MaxPermits, Running
<1>6. CASE Reboot
  <2>1. Running' = {} /\ permits' = MaxPermits BY <1>6 DEF Reboot, Running
  <2>2. Cardinality(Running') = 0 BY <2>1, FS_EmptySet
  <2> QED BY <1>0, <2>1, <2>2 DEF PermitsBalance, MaxPermits
<1> QED BY FrameStep, <1>1, <1>2, <1>3, <1>4, <1>5, <1>6 DEF DispatcherStep

\* Every return of process_job gives its permit back exactly once.
THEOREM PermitsBalanceHolds == Spec => []PermitsBalance
<1> QED BY ShapeHolds, RequestInOnePlaceHolds, PermitsInit, PermitsStep,
           PTL DEF Spec

\* The state keeps its shape and the semaphore its bound.
THEOREM TypeOKHolds == Spec => []TypeOK
<1>1. StateShape /\ PermitsBalance => TypeOK
  BY RunningFinite DEF TypeOK, PermitsBalance, StateShape, MaxPermits
<1> QED BY <1>1, ShapeHolds, PermitsBalanceHolds, PTL

\* At most max_concurrent_jobs workers run, one when that is configured as 0.
COROLLARY AtMostMaxPermitsRun == Spec => [](Cardinality(Running) <= MaxPermits)
<1>1. StateShape /\ PermitsBalance => Cardinality(Running) <= MaxPermits
  BY RunningFinite DEF PermitsBalance, StateShape, MaxPermits
<1> QED BY <1>1, ShapeHolds, PermitsBalanceHolds, PTL

-----------------------------------------------------------------------------
(* The queue, the dispatcher and the semaphore implement a bounded pool.   *)

place == [j \in Jobs |-> Place(j)]

LEMMA PoolInit == Init => Pool!Init
  BY DEF Init, Pool!Init, Place, InQueue

LEMMA PoolRunning == Pool!At("running") = Running
  BY DEF Pool!At, Place, Running

\* Cardinality as the instance of WorkerPool sees it.
LEMMA PoolCardinality == \A S : Pool!Cardinality(S) = Cardinality(S)
  BY Zenon DEF Pool!Cardinality, Cardinality

LEMMA PoolStep ==
  ASSUME StateShape, RequestInOnePlace, PermitsBalance, [Next]_vars
  PROVE  Pool!Next \/ UNCHANGED place
<1> USE DEF requestVars, memVars, diskVars, lifeVars
<1>0. /\ permits \in Nat /\ held \in Jobs \cup {NoJob} /\ wk \in [Jobs -> WkState]
      /\ sub \in [Jobs -> SubState] /\ queue \in Seq(Jobs) /\ MaxPermits \in Nat
  BY DEF StateShape, MaxPermits
<1>1. ASSUME NEW lost \in SUBSET Jobs,
             \A k \in Jobs : Place(k)' = IF k \in lost THEN "out" ELSE Place(k)
      PROVE  Pool!Next
  <2>1. place' = [k \in Jobs |-> IF k \in lost THEN "out" ELSE place[k]]
    BY <1>1 DEF place
  <2> QED BY <2>1 DEF Pool!Next, Pool!Lose, place
<1>2. CASE Frame
  <2> DEFINE lost == {k \in Jobs : Place(k) = "new" /\ sub'[k] = "done"}
  <2>1. \A k \in Jobs : Place(k)' = IF k \in lost THEN "out" ELSE Place(k)
    BY <1>2 DEF Frame, Place, InQueue
  <2> QED BY <1>1, <2>1
<1>3. ASSUME NEW j \in Jobs, Send(j) PROVE Pool!Next
  <2>1. /\ queue' = Append(queue, j) /\ held' = held /\ wk' = wk
        /\ sub' = [sub EXCEPT ![j] = "done"] /\ sub[j] = "send"
    BY <1>3 DEF Send
  <2>2. \A k \in Jobs : InQueue(k)' <=> InQueue(k) \/ k = j
    <3>1. Len(queue') = Len(queue) + 1 /\ queue'[Len(queue) + 1] = j
          /\ \A i \in 1..Len(queue) : queue'[i] = queue[i]
      BY <1>0, <2>1
    <3> QED BY <1>0, <3>1 DEF InQueue
  <2>3. ~InQueue(j) /\ held # j /\ wk[j] = "idle" BY <2>1 DEF RequestInOnePlace
  <2>4. place[j] = "new" /\ place' = [place EXCEPT ![j] = "waiting"]
    BY <1>0, <2>1, <2>2, <2>3 DEF place, Place
  <2> QED BY <2>4 DEF Pool!Next, Pool!Accept, Pool!Move, place
<1>4. ASSUME NEW j \in Jobs, WorkerEnds(j) PROVE Pool!Next
  <2>1. /\ queue' = queue /\ held' = held /\ sub' = sub
        /\ wk' = [wk EXCEPT ![j] = "idle"] /\ wk[j] # "idle"
    BY <1>4 DEF WorkerEnds, EndTask
  <2>2. sub[j] = "done" /\ ~InQueue(j) /\ held # j BY <2>1 DEF RequestInOnePlace
  <2>3. \A k \in Jobs : InQueue(k)' <=> InQueue(k) BY <2>1 DEF InQueue
  <2>4. place[j] = "running" /\ place' = [place EXCEPT ![j] = "out"]
    BY <1>0, <2>1, <2>2, <2>3 DEF place, Place
  <2> QED BY <2>4 DEF Pool!Next, Pool!End, Pool!Move, place
<1>5. CASE Receive
  <2>1. /\ queue # <<>> /\ held = NoJob /\ held' = Head(queue)
        /\ queue' = Tail(queue) /\ sub' = sub /\ wk' = wk
    BY <1>5 DEF Receive
  <2>2. /\ Len(queue) \in Nat \ {0} /\ held' = queue[1] /\ held' \in Jobs
        /\ Len(queue') = Len(queue) - 1
        /\ \A i \in 1..Len(queue') : i + 1 \in 1..Len(queue) /\ queue'[i] = queue[i + 1]
    BY <1>0, <2>1
  <2>3. \A k \in Jobs : InQueue(k)' \/ held' = k <=> InQueue(k)
    <3>1. \A i \in 1..Len(queue) : i = 1 \/ (i - 1 \in 1..Len(queue') /\ queue'[i - 1] = queue[i])
      BY <2>2
    <3> QED BY <2>2, <3>1 DEF InQueue
  <2>4. \A k \in Jobs : Place(k)' = Place(k) BY <2>1, <2>3 DEF Place
  <2> QED BY <2>4 DEF place
<1>6. CASE Spawn
  <2>1. /\ held \in Jobs /\ held' = NoJob /\ permits > 0 /\ queue' = queue
        /\ sub' = sub /\ wk' = [wk EXCEPT ![held] = "spawned"]
    BY <1>0, <1>6 DEF Spawn, StartTask
  <2>2. wk[held] = "idle" BY <2>1 DEF RequestInOnePlace
  <2>3. place[held] = "waiting" BY <2>1, <2>2 DEF place, Place
  <2>4. \A k \in Jobs : InQueue(k)' <=> InQueue(k) BY <2>1 DEF InQueue
  <2>5. place' = [place EXCEPT ![held] = "running"]
    BY <1>0, <2>1, <2>4 DEF place, Place, WkState
  <2>6. Cardinality(Pool!At("running")) < MaxPermits
    BY <1>0, <2>1, PoolRunning, RunningFinite DEF PermitsBalance
  <2>7. Pool!Move(held, "waiting", "running")
    BY <2>3, <2>5 DEF Pool!Move, place
  <2>8. Pool!Start(held) BY <2>6, <2>7, PoolCardinality DEF Pool!Start
  <2> QED BY <2>1, <2>8 DEF Pool!Next
<1>7. CASE DispatcherStops \/ Reboot
  <2> DEFINE lost == {k \in Jobs : Place(k)' = "out"}
  <2>1. \A k \in Jobs : Place(k)' = IF k \in lost THEN "out" ELSE Place(k)
    <3>1. CASE DispatcherStops
      <4>1. queue' = <<>> /\ held' = held /\ sub' = sub /\ wk' = wk
        BY <3>1 DEF DispatcherStops
      <4> QED BY <4>1 DEF Place, InQueue, RequestInOnePlace
    <3>2. CASE Reboot
      <4>1. /\ queue' = <<>> /\ held' = NoJob /\ wk' = [j \in Jobs |-> "idle"]
            /\ sub' = [j \in Jobs |-> IF sub[j] = "none" THEN "none" ELSE "done"]
        BY <3>2 DEF Reboot
      <4> QED BY <4>1 DEF Place, InQueue, RequestInOnePlace
    <3> QED BY <1>7, <3>1, <3>2
  <2> QED BY <1>1, <2>1
<1> QED BY FrameStep, <1>2, <1>3, <1>4, <1>5, <1>6, <1>7 DEF DispatcherStep

\* The job channel, job_dispatcher and its semaphore are a bounded pool.
THEOREM PoolImplemented == Spec => ImplementsPool
<1>1. StateShape /\ RequestInOnePlace /\ PermitsBalance /\ [Next]_vars
      => [Pool!Next]_place
  BY PoolStep
<1> QED BY <1>1, PoolInit, ShapeHolds, RequestInOnePlaceHolds,
           PermitsBalanceHolds, PTL DEF Spec, ImplementsPool, Pool!Spec, place

-----------------------------------------------------------------------------
-----------------------------------------------------------------------------
(* Terminal statuses: what the status API and the webhooks tell about a    *)
(* job is true and final.                                                  *)

Waiting(j) == InQueue(j) \/ held = j

\* The request has been worked off, up to telling about it.
WorkedOff(j) == /\ sub[j] = "done" /\ ~Waiting(j)
                /\ wk[j] \in {"announce", "cleanup", "idle"}

\* Before submission nothing is known of a job.
Unknown(j) == sub[j] = "none" => /\ mem[j] = "absent" /\ hooks[j] = {}
                                 /\ ~cancelling[j] /\ sweep[j] = "no"

\* Only a committed job is on its way to "complete".
Committed(j) == wk[j] = "finish" \/ mem[j] = "complete" => saved[j]

\* A completed job is worked off, and nobody cancels it any more.
Completed(j) ==
  mem[j] = "complete" \/ wk[j] = "announce" \/ "complete" \in hooks[j] =>
    /\ WorkedOff(j) /\ mem[j] \in {"complete", "absent"}
    /\ ~cancelling[j] /\ "cancelled" \notin hooks[j]

\* A job whose cancellation was accepted keeps that status until it is
\* dropped, or until its failing download overwrites it: then no request of
\* it is left.
CancelAccepted(j) ==
  cancelling[j] \/ "cancelled" \in hooks[j] =>
    \/ mem[j] \in {"cancelled", "absent"}
    \/ /\ mem[j] = "error" /\ sub[j] \in {"failPersist", "done"}
       /\ ~Waiting(j) /\ wk[j] = "idle"

JobInv(j) == Unknown(j) /\ Committed(j) /\ Completed(j) /\ CancelAccepted(j)

VerdictInv == \A j \in Jobs : JobInv(j)

-----------------------------------------------------------------------------
(* Where a job's request is, as far as the verdict goes.                   *)

\* Where RequestInOnePlace leaves the request of a job.
Placed(j) == /\ wk[j] # "idle" => sub[j] = "done" /\ ~Waiting(j)
             /\ sub[j] # "done" => wk[j] = "idle" /\ ~Waiting(j)

LEMMA PlacedHolds ==
  ASSUME RequestInOnePlace, NEW j \in Jobs PROVE Placed(j)
  BY DEF RequestInOnePlace, Placed, Waiting

\* A request that was handed over and taken is not waiting again.
LEMMA WaitStep ==
  ASSUME StateShape, RequestInOnePlace, [Next]_vars,
         NEW k \in Jobs, sub[k] = "done", ~Waiting(k)
  PROVE  ~Waiting(k)'
<1> USE DEF Waiting
<1>0. queue \in Seq(Jobs) /\ sub \in [Jobs -> SubState] BY DEF StateShape
<1>1. CASE Frame BY <1>1 DEF Frame, InQueue
<1>2. ASSUME NEW j \in Jobs, Send(j) PROVE ~Waiting(k)'
  <2>1. queue' = Append(queue, j) /\ held' = held /\ j # k
    BY <1>0, <1>2 DEF Send, requestVars
  <2>2. Len(queue') = Len(queue) + 1 /\ queue'[Len(queue) + 1] = j
        /\ \A i \in 1..Len(queue) : queue'[i] = queue[i]
    BY <1>0, <2>1
  <2> QED BY <1>0, <2>1, <2>2 DEF InQueue
<1>3. ASSUME NEW j \in Jobs, WorkerEnds(j) PROVE ~Waiting(k)'
  BY <1>3 DEF WorkerEnds, InQueue
<1>4. CASE Receive
  <2>1. queue # <<>> /\ held' = Head(queue) /\ queue' = Tail(queue)
    BY <1>4 DEF Receive
  <2>2. /\ Len(queue) \in Nat \ {0} /\ held' = queue[1]
        /\ Len(queue') = Len(queue) - 1
        /\ \A i \in 1..Len(queue') : i + 1 \in 1..Len(queue) /\ queue'[i] = queue[i + 1]
    BY <1>0, <2>1
  <2> QED BY <2>2 DEF InQueue
<1>5. CASE Spawn BY <1>5 DEF Spawn, InQueue
<1>6. CASE DispatcherStops BY <1>6 DEF DispatcherStops, InQueue
<1>7. CASE Reboot BY <1>7 DEF Reboot, InQueue
<1> QED BY FrameStep, <1>1, <1>2, <1>3, <1>4, <1>5, <1>6, <1>7 DEF DispatcherStep

-----------------------------------------------------------------------------
(* The invariant.                                                          *)

\* What every step may rely on.
Before(k) == /\ StateShape /\ Placed(k) /\ Placed(k)' /\ JobInv(k)
             /\ sub[k] = "done" /\ ~Waiting(k) => ~Waiting(k)'

\* A step that is none of the job's business.
Same(k) == /\ mem'[k] = mem[k] /\ hooks'[k] = hooks[k] /\ sub'[k] = sub[k]
           /\ wk'[k] = wk[k] /\ cancelling'[k] = cancelling[k]
           /\ saved'[k] = saved[k] /\ sweep'[k] = sweep[k]

LEMMA SameStep ==
  ASSUME NEW k \in Jobs, Before(k), Same(k) PROVE JobInv(k)'
  BY DEF Before, Same, Placed, JobInv, Unknown, Committed, Completed,
         WorkedOff, CancelAccepted

\* A step of a submitter changes nothing of another job, and keeps the
\* invariant of its own.
LEMMA SubmitKeeps ==
  ASSUME NEW j \in Jobs, NEW k \in Jobs, SubmitStep(j), Before(k)
  PROVE  JobInv(k)'
<1> USE DEF memVars, diskVars, lifeVars, requestVars, StateShape, Before
<1>0. /\ mem \in [Jobs -> Status] /\ sub \in [Jobs -> SubState]
      /\ wk \in [Jobs -> WkState]
  OBVIOUS
<1>1. ASSUME k # j PROVE Same(k)
  <2>1. CASE Submit(j) BY <1>1, <2>1 DEF Same, Submit
  <2>2. CASE BeginDownload(j) BY <1>1, <2>2 DEF Same, BeginDownload
  <2>3. CASE DownloadMark(j) BY <1>1, <2>3 DEF Same, DownloadMark
  <2>4. CASE StreamEnds(j) BY <1>1, <2>4 DEF Same, StreamEnds
  <2>5. CASE StreamSeesStop(j) BY <1>1, <2>5 DEF Same, StreamSeesStop
  <2>6. CASE DownloadBreaks(j) BY <1>1, <2>6 DEF Same, DownloadBreaks
  <2>7. CASE Requeue(j) BY <1>1, <2>7 DEF Same, Requeue
  <2>8. CASE DownloadFailed(j) BY <1>1, <2>8 DEF Same, DownloadFailed
  <2>9. CASE DownloadFailPersist(j) BY <1>1, <2>9 DEF Same, DownloadFailPersist
  <2>10. CASE QueuedMark(j) BY <1>1, <2>10 DEF Same, QueuedMark
  <2>11. CASE Send(j) BY <1>1, <2>11 DEF Same, Send
  <2>12. CASE SendRefused(j) BY <1>1, <2>12 DEF Same, SendRefused
  <2>13. CASE Abandon(j) BY <1>1, <2>13 DEF Same, Abandon
  <2> QED BY <2>1, <2>2, <2>3, <2>4, <2>5, <2>6, <2>7, <2>8, <2>9, <2>10, <2>11, <2>12, <2>13 DEF SubmitStep
<1>2. ASSUME k = j PROVE JobInv(k)'
  <2>0. SUFFICES JobInv(j)' BY <1>2
  <2> USE <1>2
  <2>1. CASE Submit(j)
    BY <2>1, SameStep DEF Same, Submit, Placed, JobInv,
       Unknown, Committed, Completed, WorkedOff, CancelAccepted
  <2>2. CASE BeginDownload(j)
    BY <2>2, SameStep DEF Same, BeginDownload, Placed, JobInv,
       Unknown, Committed, Completed, WorkedOff, CancelAccepted
  <2>3. CASE DownloadMark(j)
    BY <2>3, SameStep DEF Same, DownloadMark, Placed, JobInv,
       Unknown, Committed, Completed, WorkedOff, CancelAccepted
  <2>4. CASE StreamEnds(j)
    BY <2>4, SameStep DEF Same, StreamEnds, Placed, JobInv,
       Unknown, Committed, Completed, WorkedOff, CancelAccepted
  <2>5. CASE StreamSeesStop(j)
    BY <2>5, SameStep DEF Same, StreamSeesStop, Placed, JobInv,
       Unknown, Committed, Completed, WorkedOff, CancelAccepted
  <2>6. CASE DownloadBreaks(j)
    BY <2>6, SameStep DEF Same, DownloadBreaks, Placed, JobInv,
       Unknown, Committed, Completed, WorkedOff, CancelAccepted
  <2>7. CASE Requeue(j)
    BY <2>7, SameStep DEF Same, Requeue, Stop, Gone, Cancelled, Placed, JobInv,
       Unknown, Committed, Completed, WorkedOff, CancelAccepted
  <2>8. CASE DownloadFailed(j)
    BY <2>8, SameStep DEF Same, DownloadFailed, Gone, Placed, JobInv,
       Unknown, Committed, Completed, WorkedOff, CancelAccepted
  <2>9. CASE DownloadFailPersist(j)
    BY <2>9, SameStep DEF Same, DownloadFailPersist, Waiting, InQueue, Placed, JobInv,
       Unknown, Committed, Completed, WorkedOff, CancelAccepted
  <2>10. CASE QueuedMark(j)
    BY <2>10, SameStep DEF Same, QueuedMark, Placed, JobInv,
       Unknown, Committed, Completed, WorkedOff, CancelAccepted
  <2>11. CASE Send(j)
    BY <2>11, SameStep DEF Same, Send, Placed, JobInv,
       Unknown, Committed, Completed, WorkedOff, CancelAccepted
  <2>12. CASE SendRefused(j)
    BY <2>12, SameStep DEF Same, SendRefused, AfterRefusal, Placed, JobInv,
       Unknown, Committed, Completed, WorkedOff, CancelAccepted
  <2>13. CASE Abandon(j)
    BY <2>13, SameStep DEF Same, Abandon, Placed, JobInv,
       Unknown, Committed, Completed, WorkedOff, CancelAccepted
  <2> QED BY <2>1, <2>2, <2>3, <2>4, <2>5, <2>6, <2>7, <2>8, <2>9, <2>10, <2>11, <2>12, <2>13 DEF SubmitStep
<1> QED BY <1>1, <1>2, SameStep

\* Likewise a step of a worker.
LEMMA WorkerKeeps ==
  ASSUME NEW j \in Jobs, NEW k \in Jobs, WorkerStep(j), Before(k)
  PROVE  JobInv(k)'
<1> USE DEF memVars, diskVars, lifeVars, requestVars, StateShape, Before
<1>1. ASSUME k # j PROVE Same(k)
  <2>1. CASE WorkerStarts(j) BY <1>1, <2>1 DEF Same, WorkerStarts, EndTask
  <2>2. CASE ProcessingMark(j) BY <1>1, <2>2 DEF Same, ProcessingMark
  <2>3. CASE Prepare(j) BY <1>1, <2>3 DEF Same, Prepare
  <2>4. CASE Admit(j) BY <1>1, <2>4 DEF Same, Admit
  <2>5. CASE Detect(j) BY <1>1, <2>5 DEF Same, Detect
  <2>6. CASE MediaSucceeds(j) BY <1>1, <2>6 DEF Same, MediaSucceeds
  <2>7. CASE MediaFails(j) BY <1>1, <2>7 DEF Same, MediaFails
  <2>8. CASE UploadEnds(j) BY <1>1, <2>8 DEF Same, UploadEnds
  <2>9. CASE SaveJob(j) BY <1>1, <2>9 DEF Same, SaveJob
  <2>10. CASE FinishComplete(j) BY <1>1, <2>10 DEF Same, FinishComplete
  <2>11. CASE Announce(j) BY <1>1, <2>11 DEF Same, Announce
  <2>12. CASE FinishError(j) BY <1>1, <2>12 DEF Same, FinishError
  <2>13. CASE PersistError(j) BY <1>1, <2>13 DEF Same, PersistError
  <2>14. CASE Cleanup(j) BY <1>1, <2>14 DEF Same, Cleanup, EndTask
  <2> QED BY <2>1, <2>2, <2>3, <2>4, <2>5, <2>6, <2>7, <2>8, <2>9, <2>10, <2>11, <2>12, <2>13, <2>14 DEF WorkerStep
<1>2. ASSUME k = j PROVE JobInv(k)'
  <2>0. SUFFICES JobInv(j)' BY <1>2
  <2> USE <1>2
  <2>1. CASE WorkerStarts(j)
    BY <2>1, SameStep DEF Same, WorkerStarts, Stop, Gone, Cancelled, EndTask, Placed, JobInv,
       Unknown, Committed, Completed, WorkedOff, CancelAccepted
  <2>2. CASE ProcessingMark(j)
    BY <2>2, SameStep DEF Same, ProcessingMark, Placed, JobInv,
       Unknown, Committed, Completed, WorkedOff, CancelAccepted
  <2>3. CASE Prepare(j)
    BY <2>3, SameStep DEF Same, Prepare, Placed, JobInv,
       Unknown, Committed, Completed, WorkedOff, CancelAccepted
  <2>4. CASE Admit(j)
    BY <2>4, SameStep DEF Same, Admit, Stop, Gone, Cancelled, Placed, JobInv,
       Unknown, Committed, Completed, WorkedOff, CancelAccepted
  <2>5. CASE Detect(j)
    BY <2>5, SameStep DEF Same, Detect, Placed, JobInv,
       Unknown, Committed, Completed, WorkedOff, CancelAccepted
  <2>6. CASE MediaSucceeds(j)
    BY <2>6, SameStep DEF Same, MediaSucceeds, Stop, Gone, Cancelled, Placed, JobInv,
       Unknown, Committed, Completed, WorkedOff, CancelAccepted
  <2>7. CASE MediaFails(j)
    BY <2>7, SameStep DEF Same, MediaFails, Placed, JobInv,
       Unknown, Committed, Completed, WorkedOff, CancelAccepted
  <2>8. CASE UploadEnds(j)
    BY <2>8, SameStep DEF Same, UploadEnds, AfterUpload, Placed, JobInv,
       Unknown, Committed, Completed, WorkedOff, CancelAccepted
  <2>9. CASE SaveJob(j)
    BY <2>9, SameStep DEF Same, SaveJob, Placed, JobInv,
       Unknown, Committed, Completed, WorkedOff, CancelAccepted
  <2>10. CASE FinishComplete(j)
    BY <2>10, SameStep DEF Same, FinishComplete, Refuses, Gone, Placed, JobInv,
       Unknown, Committed, Completed, WorkedOff, CancelAccepted
  <2>11. CASE Announce(j)
    BY <2>11, SameStep DEF Same, Announce, Placed, JobInv,
       Unknown, Committed, Completed, WorkedOff, CancelAccepted
  <2>12. CASE FinishError(j)
    BY <2>12, SameStep DEF Same, FinishError, Refuses, Gone, Placed, JobInv,
       Unknown, Committed, Completed, WorkedOff, CancelAccepted
  <2>13. CASE PersistError(j)
    BY <2>13, SameStep DEF Same, PersistError, Placed, JobInv,
       Unknown, Committed, Completed, WorkedOff, CancelAccepted
  <2>14. CASE Cleanup(j)
    BY <2>14, SameStep DEF Same, Cleanup, EndTask, Placed, JobInv,
       Unknown, Committed, Completed, WorkedOff, CancelAccepted
  <2> QED BY <2>1, <2>2, <2>3, <2>4, <2>5, <2>6, <2>7, <2>8, <2>9, <2>10, <2>11, <2>12, <2>13, <2>14 DEF WorkerStep
<1> QED BY <1>1, <1>2, SameStep

\* Handlers, watcher, dispatcher and the life of the process.
LEMMA OthersKeep ==
  ASSUME NEW k \in Jobs, Before(k),
         \/ \E j \in Jobs : WatcherStep(j) \/ Cancel(j) \/ CancelPersist(j) \/ DeleteRow(j)
         \/ \E old \in SUBSET Jobs : Forget(old)
         \/ \E late \in SUBSET Expirable : TimeoutScan(late)
         \/ DispatcherStep \/ LifeStep \/ UNCHANGED vars
  PROVE  JobInv(k)'
<1> USE DEF memVars, diskVars, lifeVars, requestVars, StateShape, Before
<1>1. ASSUME NEW j \in Jobs, DeleteRow(j) PROVE Same(k)
  BY <1>1 DEF Same, DeleteRow
<1>2. ASSUME NEW j \in Jobs, WatcherStep(j) PROVE JobInv(k)'
  <2>1. CASE TimeoutPersist(j)
    BY <2>1 DEF TimeoutPersist, Placed, JobInv, Unknown, Committed, Completed,
                WorkedOff, CancelAccepted
  <2>2. CASE TimeoutClean(j)
    BY <2>2 DEF TimeoutClean, Placed, JobInv, Unknown, Committed, Completed,
                WorkedOff, CancelAccepted
  <2> QED BY <1>2, <2>1, <2>2 DEF WatcherStep
<1>3. ASSUME NEW j \in Jobs, Cancel(j) PROVE JobInv(k)'
  BY <1>3 DEF Cancel, Active, Placed, JobInv, Unknown, Committed, Completed,
              WorkedOff, CancelAccepted
<1>4. ASSUME NEW j \in Jobs, CancelPersist(j) PROVE JobInv(k)'
  BY <1>4 DEF CancelPersist, Placed, JobInv, Unknown, Committed, Completed,
              WorkedOff, CancelAccepted
<1>5. ASSUME NEW old \in SUBSET Jobs, Forget(old) PROVE JobInv(k)'
  BY <1>5 DEF Forget, Placed, JobInv, Unknown, Committed, Completed,
              WorkedOff, CancelAccepted
<1>6. ASSUME NEW late \in SUBSET Expirable, TimeoutScan(late) PROVE JobInv(k)'
  BY <1>6 DEF TimeoutScan, MayBeOverdue, Active, Placed, JobInv, Unknown,
              Committed, Completed, WorkedOff, CancelAccepted
<1>7. CASE Receive \/ DispatcherStops
  <2>1. Same(k) BY <1>7 DEF Same, Receive, DispatcherStops
  <2> QED BY <2>1, SameStep
<1>8. CASE Spawn
  <2>1. held = k \/ Same(k) BY <1>8 DEF Same, Spawn, StartTask
  <2>2. CASE held = k
    BY <1>8, <2>2 DEF Spawn, StartTask, Waiting, Placed, JobInv, Unknown,
                      Committed, Completed, WorkedOff, CancelAccepted
  <2> QED BY <2>1, <2>2, SameStep
<1>9. CASE Shutdown \/ Drained \/ ListStuck \/ RecoverRows \/ ListActive \/ CleanDirs
  <2>1. Same(k)
    BY <1>9 DEF Same, Shutdown, Drained, ListStuck, RecoverRows, ListActive,
                CleanDirs
  <2> QED BY <2>1, SameStep
<1>10. CASE DrainDeadline
  BY <1>10 DEF DrainDeadline, Active, Placed, JobInv, Unknown, Committed,
               Completed, WorkedOff, CancelAccepted
<1>11. CASE Reboot
  BY <1>11 DEF Reboot, Placed, JobInv, Unknown, Committed, Completed,
               WorkedOff, CancelAccepted
<1>12. CASE UNCHANGED vars
  <2>1. Same(k) BY <1>12 DEF Same, vars
  <2> QED BY <2>1, SameStep
<1> QED BY <1>1, <1>2, <1>3, <1>4, <1>5, <1>6, <1>7, <1>8, <1>9, <1>10, <1>11,
           <1>12, SameStep DEF DispatcherStep, LifeStep

LEMMA VerdictInit == Init => VerdictInv
  BY DEF Init, VerdictInv, JobInv, Unknown, Committed, Completed, CancelAccepted

LEMMA VerdictStep ==
  ASSUME StateShape, RequestInOnePlace, VerdictInv, [Next]_vars
  PROVE  VerdictInv'
<1>1. SUFFICES ASSUME NEW k \in Jobs PROVE JobInv(k)'
  BY DEF VerdictInv
<1>2. RequestInOnePlace' BY PlaceStep
<1>3. Placed(k)' BY <1>2 DEF RequestInOnePlace, Placed, Waiting
<1>4. Before(k) BY <1>3, PlacedHolds, WaitStep DEF Before, VerdictInv
<1> QED BY <1>4, SubmitKeeps, WorkerKeeps, OthersKeep DEF Next

THEOREM VerdictInvHolds == Spec => []VerdictInv
<1> QED BY ShapeHolds, RequestInOnePlaceHolds, VerdictInit, VerdictStep,
           PTL DEF Spec

-----------------------------------------------------------------------------
(* What follows from it.                                                   *)

\* The status API shows "complete" only for jobs whose rows are committed.
THEOREM CompleteWasSavedHolds == Spec => []CompleteWasSaved
<1>1. VerdictInv => CompleteWasSaved
  BY DEF VerdictInv, JobInv, Committed, CompleteWasSaved
<1> QED BY <1>1, VerdictInvHolds, PTL

\* No listener hears of a job that it completed and that it was cancelled.
THEOREM OneVerdictHolds == Spec => []OneVerdict
<1>1. VerdictInv => OneVerdict
  BY DEF VerdictInv, JobInv, Completed, OneVerdict
<1> QED BY <1>1, VerdictInvHolds, PTL

\* What VerdictIsFinal says of one job.
Final(k) ==
  /\ mem[k] = "complete" => mem'[k] \in {"complete", "absent"}
  /\ mem[k] = "cancelled" => \/ mem'[k] \in {"cancelled", "absent"}
                             \/ sub[k] = "failing" /\ mem'[k] = "error"

LEMMA FinalStep ==
  ASSUME NEW k \in Jobs, StateShape, Placed(k), JobInv(k), [Next]_vars
  PROVE  Final(k)
<1> USE DEF memVars, diskVars, lifeVars, requestVars, StateShape, Final, Placed,
            JobInv, Unknown, Completed, WorkedOff, Terminal, Active
<1>1. ASSUME NEW j \in Jobs, SubmitStep(j) PROVE Final(k)
  <2>1. CASE Submit(j)
    BY <2>1 DEF Submit
  <2>2. CASE BeginDownload(j)
    BY <2>2 DEF BeginDownload
  <2>3. CASE Requeue(j)
    BY <2>3 DEF Requeue, Stop, Gone, Cancelled
  <2>4. CASE DownloadFailed(j)
    BY <2>4 DEF DownloadFailed, Gone
  <2>5. CASE SendRefused(j)
    BY <2>5 DEF SendRefused, AfterRefusal
  <2>6. CASE mem' = mem BY <2>6
  <2> QED BY <1>1, <2>1, <2>2, <2>3, <2>4, <2>5, <2>6 DEF SubmitStep,
         DownloadMark, StreamEnds, StreamSeesStop, DownloadBreaks,
         DownloadFailPersist, QueuedMark, Send, Abandon
<1>2. ASSUME NEW j \in Jobs, WorkerStep(j) PROVE Final(k)
  <2>1. CASE WorkerStarts(j)
    BY <2>1 DEF WorkerStarts, Stop, Gone, Cancelled, EndTask
  <2>2. CASE Admit(j)
    BY <2>2 DEF Admit, Stop, Gone, Cancelled
  <2>3. CASE MediaSucceeds(j)
    BY <2>3 DEF MediaSucceeds, Stop, Gone, Cancelled
  <2>4. CASE FinishComplete(j)
    BY <2>4 DEF FinishComplete, Refuses, Gone
  <2>5. CASE FinishError(j)
    BY <2>5 DEF FinishError, Refuses, Gone
  <2>6. CASE mem' = mem BY <2>6
  <2> QED BY <1>2, <2>1, <2>2, <2>3, <2>4, <2>5, <2>6 DEF WorkerStep,
         ProcessingMark, Prepare, Detect, MediaFails, UploadEnds, SaveJob,
         Announce, PersistError, Cleanup
<1>3. ASSUME NEW j \in Jobs,
             WatcherStep(j) \/ Cancel(j) \/ CancelPersist(j) \/ DeleteRow(j)
      PROVE  Final(k)
  BY <1>3 DEF WatcherStep, TimeoutPersist, TimeoutClean, Cancel, CancelPersist,
              DeleteRow
<1>4. ASSUME NEW old \in SUBSET Jobs, Forget(old) PROVE Final(k)
  BY <1>4 DEF Forget
<1>5. ASSUME NEW late \in SUBSET Expirable, TimeoutScan(late) PROVE Final(k)
  BY <1>5 DEF TimeoutScan, MayBeOverdue
<1>6. CASE DispatcherStep
  BY <1>6 DEF DispatcherStep, Receive, Spawn, DispatcherStops
<1>7. CASE LifeStep
  <2>1. CASE DrainDeadline BY <2>1 DEF DrainDeadline
  <2>2. CASE Reboot BY <2>2 DEF Reboot
  <2>3. CASE mem' = mem BY <2>3
  <2> QED BY <1>7, <2>1, <2>2, <2>3 DEF LifeStep, Shutdown, Drained, ListStuck,
             RecoverRows, ListActive, CleanDirs
<1>8. CASE UNCHANGED vars BY <1>8 DEF vars
<1> QED BY <1>1, <1>2, <1>3, <1>4, <1>5, <1>6, <1>7, <1>8 DEF Next

\* What the API said of a job stays said: complete jobs stay complete, and of
\* the cancelled ones only failing downloads turn into failed ones.
THEOREM VerdictIsFinalHolds == Spec => VerdictIsFinal
<1>1. StateShape /\ RequestInOnePlace /\ VerdictInv /\ [Next]_vars
      => [\A j \in Jobs :
            /\ mem[j] = "complete" => mem'[j] \in {"complete", "absent"}
            /\ mem[j] = "cancelled" =>
                 \/ mem'[j] \in {"cancelled", "absent"}
                 \/ sub[j] = "failing" /\ mem'[j] = "error"]_vars
  BY FinalStep, PlacedHolds DEF VerdictInv, Final
<1> QED BY <1>1, ShapeHolds, RequestInOnePlaceHolds, VerdictInvHolds,
           PTL DEF Spec, VerdictIsFinal

-----------------------------------------------------------------------------
-----------------------------------------------------------------------------
(* What a job leaves behind when nobody works on it any more: its          *)
(* directory and its row.  The theorems speak of runs in which the         *)
(* database answers, as those that check the properties do.                *)

\* No SQLite call fails.
RowsAreWritten == DbOutcomes = {TRUE}

-----------------------------------------------------------------------------
(* The invariant.                                                          *)

\* The dispatcher keeps its receiver until the shutdown.
ReceiverKept == open \/ phase \in {"draining", "exiting"}

\* A job has no directory before its worker prepares one.  A directory that
\* neither worker nor watcher will remove is left of an earlier process, and
\* the start-up passes are about to find that no row claims it.
DirOwned(j) ==
  /\ sub[j] # "done" \/ Waiting(j) \/ wk[j] = "spawned" => ~dir[j]
  /\ dir[j] /\ wk[j] = "idle" /\ sweep[j] = "no" =>
       /\ phase \in Booting
       /\ phase = "recovering" /\ db[j] \in Active => j \in listed
       /\ phase = "cleaning" => db[j] \notin Active
       /\ phase = "sweeping" => j \notin listed

\* A cancelled entry has been, or will be, told about.
CancelTold(j) == cancelling[j] \/ "cancelled" \in hooks[j]

\* Whoever is about to create a row does it for a job under way: one that
\* timed out or failed has no such step left.
MarkFits(j) ==
  phase # "exiting" /\ ClockFresh(j) =>
    mem[j] # "error" /\ (Gone(j) => CancelTold(j))

\* Someone is about to record that the job failed.
ErrorUnderWay(j) == wk[j] = "persist" \/ sub[j] = "failPersist"

\* The row of a failed job says so, unless its writer is still under way, or a
\* worker that outran the watcher is about to declare the job complete.
ErrorRow(j) ==
  phase # "exiting" /\ mem[j] = "error" /\ sweep[j] # "mark" /\ ~ErrorUnderWay(j) =>
    db[j] \notin Active /\ (db[j] = "complete" => wk[j] = "finish")

\* A saved job is not marked again.
SavedRow(j) == mem[j] = "complete" \/ wk[j] = "finish" => db[j] \notin Active

\* A job without an entry has no row in progress once the rows are recovered.
ForgottenRow(j) ==
  Gone(j) /\ ~CancelTold(j) /\ ~ErrorUnderWay(j) =>
    /\ phase = "recovering" /\ db[j] \in Active => j \in listed
    /\ phase \in {"cleaning", "sweeping", "serving"} => db[j] \notin Active

RowInv(j) == /\ sub[j] = "none" => db[j] = "none"
             /\ mem[j] = "cancelled" => CancelTold(j)
             /\ MarkFits(j) /\ ErrorRow(j) /\ SavedRow(j) /\ ForgottenRow(j)

TraceOf(j) == DirOwned(j) /\ RowInv(j)

TraceInv == ReceiverKept /\ \A j \in Jobs : TraceOf(j)

-----------------------------------------------------------------------------
(* Every step keeps it.                                                    *)

\* What every step may rely on.
Given(k) == /\ StateShape /\ Placed(k) /\ Placed(k)' /\ JobInv(k)
            /\ sub[k] = "done" /\ ~Waiting(k) => ~Waiting(k)'
            /\ TraceOf(k) /\ ReceiverKept /\ RowsAreWritten

\* A step that is none of the job's business.
Untouched(k) ==
  /\ phase' = phase /\ listed' = listed
  /\ mem'[k] = mem[k] /\ hooks'[k] = hooks[k] /\ sub'[k] = sub[k]
  /\ wk'[k] = wk[k] /\ cancelling'[k] = cancelling[k]
  /\ db'[k] = db[k] /\ dir'[k] = dir[k] /\ sweep'[k] = sweep[k]

LEMMA UntouchedStep ==
  ASSUME NEW k \in Jobs, Given(k), Untouched(k) PROVE TraceOf(k)'
  BY DEF Given, Untouched, Placed,
  TraceOf, DirOwned, RowInv, MarkFits, ErrorRow, SavedRow, ForgottenRow,
  CancelTold, ErrorUnderWay, ClockFresh, Gone

\* A step of a submitter leaves the other jobs alone and keeps the invariant
\* of its own.
LEMMA SubmitKeepsTraces ==
  ASSUME NEW j \in Jobs, NEW k \in Jobs, SubmitStep(j), Given(k)
  PROVE  TraceOf(k)'
<1> USE DEF memVars, diskVars, lifeVars, requestVars, StateShape
<1>1. ASSUME k # j PROVE Untouched(k)
  <2> USE <1>1 DEF Given, Untouched
  <2>1. CASE Submit(j) BY <2>1 DEF Submit
  <2>2. CASE BeginDownload(j) BY <2>2 DEF BeginDownload
  <2>3. CASE DownloadMark(j) BY <2>3 DEF DownloadMark, Marked
  <2>4. CASE StreamEnds(j) BY <2>4 DEF StreamEnds
  <2>5. CASE StreamSeesStop(j) BY <2>5 DEF StreamSeesStop
  <2>6. CASE DownloadBreaks(j) BY <2>6 DEF DownloadBreaks
  <2>7. CASE Requeue(j) BY <2>7 DEF Requeue
  <2>8. CASE DownloadFailed(j) BY <2>8 DEF DownloadFailed
  <2>9. CASE DownloadFailPersist(j) BY <2>9 DEF DownloadFailPersist, Updated
  <2>10. CASE QueuedMark(j) BY <2>10 DEF QueuedMark, Marked
  <2>11. CASE Send(j) BY <2>11 DEF Send
  <2>12. CASE SendRefused(j) BY <2>12 DEF SendRefused
  <2>13. CASE Abandon(j) BY <2>13 DEF Abandon
  <2> QED BY <2>1, <2>2, <2>3, <2>4, <2>5, <2>6, <2>7, <2>8, <2>9, <2>10, <2>11, <2>12, <2>13 DEF SubmitStep
<1>2. ASSUME k = j PROVE TraceOf(k)'
  <2>0. SUFFICES TraceOf(j)' BY <1>2
  <2> USE <1>2 DEF Given, Placed, JobInv, Completed, WorkedOff, Stop,
        Cancelled, Active, ReceiverKept, RowsAreWritten, TraceOf, DirOwned,
        RowInv, MarkFits, ErrorRow, SavedRow, ForgottenRow, CancelTold,
        ErrorUnderWay, ClockFresh, Gone
  <2>1. CASE Submit(j)
    BY <2>1 DEF Submit
  <2>2. CASE BeginDownload(j)
    BY <2>2 DEF BeginDownload
  <2>3. CASE DownloadMark(j)
    BY <2>3 DEF DownloadMark, Marked
  <2>4. CASE StreamEnds(j)
    BY <2>4 DEF StreamEnds
  <2>5. CASE StreamSeesStop(j)
    BY <2>5 DEF StreamSeesStop
  <2>6. CASE DownloadBreaks(j)
    BY <2>6 DEF DownloadBreaks
  <2>7. CASE Requeue(j)
    BY <2>7 DEF Requeue
  <2>8. CASE DownloadFailed(j)
    BY <2>8 DEF DownloadFailed
  <2>9. CASE DownloadFailPersist(j)
    BY <2>9 DEF DownloadFailPersist, Updated
  <2>10. CASE QueuedMark(j)
    BY <2>10 DEF QueuedMark, Marked
  <2>11. CASE Send(j)
    BY <2>11 DEF Send
  <2>12. CASE SendRefused(j)
    BY <2>12 DEF SendRefused, AfterRefusal
  <2>13. CASE Abandon(j)
    BY <2>13 DEF Abandon
  <2> QED BY <2>1, <2>2, <2>3, <2>4, <2>5, <2>6, <2>7, <2>8, <2>9, <2>10, <2>11, <2>12, <2>13 DEF SubmitStep
<1> QED BY <1>1, <1>2, UntouchedStep

\* Likewise a step of a worker.
LEMMA WorkerKeepsTraces ==
  ASSUME NEW j \in Jobs, NEW k \in Jobs, WorkerStep(j), Given(k)
  PROVE  TraceOf(k)'
<1> USE DEF memVars, diskVars, lifeVars, requestVars, StateShape
<1>1. ASSUME k # j PROVE Untouched(k)
  <2> USE <1>1 DEF Given, Untouched
  <2>1. CASE WorkerStarts(j) BY <2>1 DEF WorkerStarts, EndTask
  <2>2. CASE ProcessingMark(j) BY <2>2 DEF ProcessingMark, Marked
  <2>3. CASE Prepare(j) BY <2>3 DEF Prepare
  <2>4. CASE Admit(j) BY <2>4 DEF Admit
  <2>5. CASE Detect(j) BY <2>5 DEF Detect
  <2>6. CASE MediaSucceeds(j) BY <2>6 DEF MediaSucceeds
  <2>7. CASE MediaFails(j) BY <2>7 DEF MediaFails
  <2>8. CASE UploadEnds(j) BY <2>8 DEF UploadEnds
  <2>9. CASE SaveJob(j) BY <2>9 DEF SaveJob
  <2>10. CASE FinishComplete(j) BY <2>10 DEF FinishComplete
  <2>11. CASE Announce(j) BY <2>11 DEF Announce
  <2>12. CASE FinishError(j) BY <2>12 DEF FinishError
  <2>13. CASE PersistError(j) BY <2>13 DEF PersistError, Updated
  <2>14. CASE Cleanup(j) BY <2>14 DEF Cleanup, EndTask
  <2> QED BY <2>1, <2>2, <2>3, <2>4, <2>5, <2>6, <2>7, <2>8, <2>9, <2>10, <2>11, <2>12, <2>13, <2>14 DEF WorkerStep
<1>2. ASSUME k = j PROVE TraceOf(k)'
  <2>0. SUFFICES TraceOf(j)' BY <1>2
  <2> USE <1>2 DEF Given, Placed, JobInv, Completed, WorkedOff, Stop,
        Cancelled, Active, ReceiverKept, RowsAreWritten, TraceOf, DirOwned,
        RowInv, MarkFits, ErrorRow, SavedRow, ForgottenRow, CancelTold,
        ErrorUnderWay, ClockFresh, Gone
  <2>1. CASE WorkerStarts(j)
    BY <2>1 DEF WorkerStarts, EndTask
  <2>2. CASE ProcessingMark(j)
    BY <2>2 DEF ProcessingMark, Marked
  <2>3. CASE Prepare(j)
    BY <2>3 DEF Prepare
  <2>4. CASE Admit(j)
    BY <2>4 DEF Admit
  <2>5. CASE Detect(j)
    BY <2>5 DEF Detect
  <2>6. CASE MediaSucceeds(j)
    BY <2>6 DEF MediaSucceeds
  <2>7. CASE MediaFails(j)
    BY <2>7 DEF MediaFails
  <2>8. CASE UploadEnds(j)
    BY <2>8 DEF UploadEnds, AfterUpload
  <2>9. CASE SaveJob(j)
    BY <2>9 DEF SaveJob
  <2>10. CASE FinishComplete(j)
    BY <2>10 DEF FinishComplete, Refuses
  <2>11. CASE Announce(j)
    BY <2>11 DEF Announce
  <2>12. CASE FinishError(j)
    BY <2>12 DEF FinishError, Refuses
  <2>13. CASE PersistError(j)
    BY <2>13 DEF PersistError, Updated
  <2>14. CASE Cleanup(j)
    BY <2>14 DEF Cleanup, EndTask
  <2> QED BY <2>1, <2>2, <2>3, <2>4, <2>5, <2>6, <2>7, <2>8, <2>9, <2>10, <2>11, <2>12, <2>13, <2>14 DEF WorkerStep
<1> QED BY <1>1, <1>2, UntouchedStep

\* Handlers, watcher and dispatcher.
LEMMA HandlersKeepTraces ==
  ASSUME NEW k \in Jobs, Given(k),
         \/ \E j \in Jobs : WatcherStep(j) \/ Cancel(j) \/ CancelPersist(j) \/ DeleteRow(j)
         \/ \E old \in SUBSET Jobs : Forget(old)
         \/ \E late \in SUBSET Expirable : TimeoutScan(late)
         \/ DispatcherStep
  PROVE  TraceOf(k)'
<1> USE DEF memVars, diskVars, lifeVars, requestVars, StateShape, Given,
  TraceOf, DirOwned, RowInv, MarkFits, ErrorRow, SavedRow, ForgottenRow,
  CancelTold, ErrorUnderWay, ClockFresh, Gone
<1>1. ASSUME NEW j \in Jobs, DeleteRow(j) PROVE TraceOf(k)'
  BY <1>1 DEF DeleteRow, Placed, Active
<1>2. ASSUME NEW j \in Jobs, TimeoutPersist(j) PROVE TraceOf(k)'
  BY <1>2 DEF TimeoutPersist, Updated, RowsAreWritten, Placed, Active
<1>3. ASSUME NEW j \in Jobs, TimeoutClean(j) PROVE TraceOf(k)'
  BY <1>3 DEF TimeoutClean, Placed
<1>4. ASSUME NEW j \in Jobs, Cancel(j) PROVE TraceOf(k)'
  BY <1>4 DEF Cancel, Placed, JobInv, Completed, Active
<1>5. ASSUME NEW j \in Jobs, CancelPersist(j) PROVE TraceOf(k)'
  BY <1>5 DEF CancelPersist, Updated, Placed, Active, JobInv, Completed
<1>6. ASSUME NEW old \in SUBSET Jobs, Forget(old) PROVE TraceOf(k)'
  BY <1>6 DEF Forget, WatcherAtTop, Terminal, Active, Placed, JobInv, Completed,
              WorkedOff
<1>7. ASSUME NEW late \in SUBSET Expirable, TimeoutScan(late) PROVE TraceOf(k)'
  BY <1>7 DEF TimeoutScan, MayBeOverdue, Active, Placed
<1>8. CASE Receive \/ DispatcherStops
  <2>1. Untouched(k) BY <1>8 DEF Untouched, Receive, DispatcherStops
  <2> QED BY <2>1, UntouchedStep
<1>9. CASE Spawn
  <2>1. held = k \/ Untouched(k) BY <1>9 DEF Untouched, Spawn, StartTask
  <2>2. CASE held = k
    BY <1>9, <2>2 DEF Spawn, StartTask, Waiting, Placed
  <2> QED BY <2>1, <2>2, UntouchedStep
<1> QED BY <1>1, <1>2, <1>3, <1>4, <1>5, <1>6, <1>7, <1>8, <1>9
        DEF WatcherStep, DispatcherStep

\* Shutdown, restart and the start-up passes: what an earlier process left is
\* found by the passes, since nobody works on those jobs meanwhile.
LEMMA LifeKeepsTraces ==
  ASSUME NEW k \in Jobs, Given(k), LifeStep \/ UNCHANGED vars
  PROVE  TraceOf(k)'
<1> USE DEF memVars, diskVars, lifeVars, requestVars, StateShape, Given,
  TraceOf, DirOwned, RowInv, MarkFits, ErrorRow, SavedRow, ForgottenRow,
  CancelTold, ErrorUnderWay, ClockFresh, Gone
<1>1. CASE Shutdown BY <1>1 DEF Shutdown, Booting, Placed
<1>2. CASE Drained BY <1>2 DEF Drained, Booting, Placed
<1>3. CASE DrainDeadline
  BY <1>3 DEF DrainDeadline, Stuck, Booting, Active, Placed
<1>4. CASE Reboot BY <1>4 DEF Reboot, Booting, Placed, Waiting, InQueue
<1>5. CASE ListStuck
  BY <1>5 DEF ListStuck, Stuck, Booting, RowsAreWritten, Placed
<1>6. CASE RecoverRows
  BY <1>6 DEF RecoverRows, Booting, Active, RowsAreWritten, Placed
<1>7. CASE ListActive
  BY <1>7 DEF ListActive, Stuck, Booting, RowsAreWritten, Placed
<1>8. CASE CleanDirs
  BY <1>8 DEF CleanDirs, Orphaned, Booting, Placed
<1>9. CASE UNCHANGED vars
  <2>1. Untouched(k) BY <1>9 DEF Untouched, vars
  <2> QED BY <2>1, UntouchedStep
<1> QED BY <1>1, <1>2, <1>3, <1>4, <1>5, <1>6, <1>7, <1>8, <1>9 DEF LifeStep

LEMMA ReceiverStep ==
  ASSUME StateShape, ReceiverKept, [Next]_vars PROVE ReceiverKept'
<1> USE DEF memVars, diskVars, lifeVars, requestVars, StateShape, ReceiverKept
<1>1. ASSUME NEW j \in Jobs, SubmitStep(j)
      PROVE  open' = open /\ phase' = phase
  BY <1>1 DEF SubmitStep, Submit, BeginDownload, DownloadMark, StreamEnds,
       StreamSeesStop, DownloadBreaks, Requeue, DownloadFailed,
       DownloadFailPersist, QueuedMark, Send, SendRefused, Abandon
<1>2. ASSUME NEW j \in Jobs, WorkerStep(j)
      PROVE  open' = open /\ phase' = phase
  BY <1>2 DEF WorkerStep, WorkerStarts, ProcessingMark, Prepare, Admit, Detect,
       MediaSucceeds, MediaFails, UploadEnds, SaveJob, FinishComplete, Announce,
       FinishError, PersistError, Cleanup
<1>3. ASSUME \/ \E j \in Jobs : WatcherStep(j) \/ Cancel(j) \/ CancelPersist(j) \/ DeleteRow(j)
             \/ \E old \in SUBSET Jobs : Forget(old)
             \/ \E late \in SUBSET Expirable : TimeoutScan(late)
      PROVE  open' = open /\ phase' = phase
  BY <1>3 DEF WatcherStep, TimeoutPersist, TimeoutClean, Cancel, CancelPersist,
       DeleteRow, Forget, TimeoutScan
<1>4. CASE DispatcherStep
  BY <1>4 DEF DispatcherStep, Receive, Spawn, DispatcherStops
<1>5. CASE LifeStep
  BY <1>5 DEF LifeStep, Shutdown, Drained, DrainDeadline, Reboot, ListStuck,
       RecoverRows, ListActive, CleanDirs
<1>6. CASE UNCHANGED vars BY <1>6 DEF vars
<1> QED BY <1>1, <1>2, <1>3, <1>4, <1>5, <1>6 DEF Next

LEMMA TraceInit == Init => TraceInv
  BY DEF Init, TraceInv, ReceiverKept, Waiting, InQueue, Active,
         TraceOf, DirOwned, RowInv, MarkFits, ErrorRow, SavedRow, ForgottenRow,
         CancelTold, ErrorUnderWay, ClockFresh, Gone

LEMMA TraceStep ==
  ASSUME RowsAreWritten, StateShape, RequestInOnePlace, VerdictInv, TraceInv,
         [Next]_vars
  PROVE  TraceInv'
<1>1. ReceiverKept' BY ReceiverStep DEF TraceInv
<1>2. RequestInOnePlace' BY PlaceStep
<1>3. ASSUME NEW k \in Jobs PROVE TraceOf(k)'
  <2>1. Placed(k)' BY <1>2 DEF RequestInOnePlace, Placed, Waiting
  <2>2. Given(k)
    BY <2>1, PlacedHolds, WaitStep DEF Given, VerdictInv, TraceInv, TraceOf
  <2> QED BY <2>2, SubmitKeepsTraces, WorkerKeepsTraces, HandlersKeepTraces,
             LifeKeepsTraces DEF Next
<1> QED BY <1>1, <1>3 DEF TraceInv, TraceOf

THEOREM TraceInvHolds == Spec => [](RowsAreWritten => TraceInv)
<1>1. Init => (RowsAreWritten => TraceInv) BY TraceInit
<1>2. /\ StateShape /\ RequestInOnePlace /\ VerdictInv
      /\ RowsAreWritten => TraceInv
      /\ [Next]_vars
      => (RowsAreWritten => TraceInv)'
  BY TraceStep DEF RowsAreWritten
<1> QED BY <1>1, <1>2, ShapeHolds, RequestInOnePlaceHolds, VerdictInvHolds,
           PTL DEF Spec

-----------------------------------------------------------------------------
(* What follows from it.                                                   *)

\* Once nobody works on a job its processing directory is gone, whichever of
\* the worker's error paths, the timeout or a restart ended the work.
THEOREM QuietLeavesNoDirHolds == Spec => [](RowsAreWritten => QuietLeavesNoDir)
<1>1. TraceInv => QuietLeavesNoDir
  BY DEF TraceInv, TraceOf, DirOwned, QuietLeavesNoDir, Quiet, Booting
<1> QED BY <1>1, TraceInvHolds, PTL

\* The row of a job the status API reports as failed says neither that it is
\* complete nor that it is under way.
THEOREM ErrorIsRecordedHolds == Spec => [](RowsAreWritten => ErrorIsRecorded)
<1>1. TraceInv => ErrorIsRecorded
  BY DEF TraceInv, TraceOf, RowInv, ErrorRow, ErrorUnderWay, ErrorIsRecorded, Quiet
<1> QED BY <1>1, TraceInvHolds, PTL

\* After recovery no row claims to be in progress of which neither a task nor
\* an entry knows, save for jobs whose cancellation was told.
THEOREM NoOrphanRowsHolds == Spec => [](RowsAreWritten => NoOrphanRows)
<1>1. TraceInv => NoOrphanRows
  BY DEF TraceInv, TraceOf, RowInv, ForgottenRow, CancelTold, ErrorUnderWay,
         NoOrphanRows, Quiet
<1> QED BY <1>1, TraceInvHolds, PTL
=============================================================================
