------------------------ MODULE ChunkedUpload_proofs ------------------------
(***************************************************************************)
(* The upload protocol's invariants for any number of uploads, requests,   *)
(* chunk sizes and restarts.                                               *)
(***************************************************************************)
EXTENDS ChunkedUpload, FiniteSetTheorems, TLAPS

USE UploadAssumption

Claiming == Writing \cup {"clear"}

\* Who writes a chunk, or gives it back after an error, has it claimed, and
\* nobody else has.
Claims ==
  \A r \in Requests : pc[r] \in Claiming =>
    /\ chunk[r] \in inFlight[up[r]]
    /\ \A s \in Requests : pc[s] \in Claiming /\ up[s] = up[r] /\ chunk[s] = chunk[r]
                           => s = r

\* Finalizing starts with all chunks received; its request is the only one, and
\* has queued nothing until the job is in the queue.
Finals ==
  /\ \A u \in Uploads :
       /\ finalizing[u] => received[u] = Chunks(u)
       /\ jobs[u] \in {0, 1}
       /\ jobs[u] = 1 => finalizing[u]
  /\ \A r \in Requests : pc[r] \in Finalizing =>
       /\ finalizing[up[r]]
       /\ pc[r] # "remove" => jobs[up[r]] = 0
       /\ \A s \in Requests : pc[s] \in Finalizing /\ up[s] = up[r] => s = r

UploadInv == TypeOK /\ BytesMatch /\ Claims /\ Finals

-----------------------------------------------------------------------------
(* Arithmetic of chunks.                                                   *)

\* What div_ceil computes: the last chunk is not empty and nothing is left over.
LEMMA DivCeil ==
  ASSUME NEW u \in Uploads
  PROVE  /\ NumChunks(u) \in Nat \ {0}
         /\ ChunkSize * (NumChunks(u) - 1) < TotalSize[u]
         /\ TotalSize[u] <= ChunkSize * NumChunks(u)
<1> DEFINE t == TotalSize[u]  s == t + ChunkSize - 1  q == s \div ChunkSize
<1>1. t \in Nat \ {0} /\ s \in Nat /\ s >= ChunkSize
  OBVIOUS
<1>2. q \in Int /\ ChunkSize * q <= s /\ s < ChunkSize * q + ChunkSize
  <2> HIDE DEF s
  <2> QED BY <1>1
<1>3. q > 0
  <2> HIDE DEF q
  <2> QED BY <1>1, <1>2
<1> QED BY <1>1, <1>2, <1>3 DEF NumChunks

\* An upload has that many chunks, and a last one.
LEMMA ChunkSet ==
  ASSUME NEW u \in Uploads
  PROVE  /\ IsFiniteSet(Chunks(u)) /\ Cardinality(Chunks(u)) = NumChunks(u)
         /\ NumChunks(u) - 1 \in Chunks(u)
<1> DEFINE n == NumChunks(u)
<1>1. n \in Nat \ {0}
  BY DivCeil
<1> HIDE DEF n
<1>2. IsFiniteSet(0..(n - 1)) /\ Cardinality(0..(n - 1)) = n
  BY <1>1, FS_Interval
<1>3. n - 1 \in 0..(n - 1)
  BY <1>1
<1> QED BY <1>2, <1>3 DEF Chunks, n

\* Every chunk but the last has the full size.
LEMMA SizeOf ==
  ASSUME NEW u \in Uploads, NEW c \in Chunks(u)
  PROVE  Size(u, c) = IF c = NumChunks(u) - 1
                        THEN TotalSize[u] - ChunkSize * (NumChunks(u) - 1)
                        ELSE ChunkSize
<1> DEFINE n == NumChunks(u)  t == TotalSize[u]
<1>1. n \in Nat \ {0} /\ t \in Nat /\ c \in Nat /\ c <= n - 1
      /\ ChunkSize * (n - 1) < t /\ t <= ChunkSize * n
  BY DivCeil DEF Chunks
<1> HIDE DEF n, t
<1>2. CASE c = n - 1
  <2>1. ChunkSize * n = ChunkSize * (n - 1) + ChunkSize
    BY <1>1
  <2>2. c * ChunkSize = ChunkSize * (n - 1)
    BY <1>1, <1>2
  <2> QED BY <1>1, <1>2, <2>1, <2>2 DEF Size, n, t
<1>3. CASE c < n - 1
  <2>1. c * ChunkSize + ChunkSize <= ChunkSize * (n - 1)
    BY <1>1, <1>3
  <2>2. ~(t - c * ChunkSize < ChunkSize)
    BY <1>1, <2>1
  <2> QED BY <1>1, <1>3, <2>2 DEF Size, n, t
<1> QED BY <1>1, <1>2, <1>3

-----------------------------------------------------------------------------
(* The invariant holds at the start and is kept.                           *)

LEMMA UploadInit == Init => UploadInv
<1> SUFFICES ASSUME Init PROVE UploadInv
  OBVIOUS
<1>1. TypeOK
  BY DEF Init, TypeOK, Stages, Control
<1>2. BytesMatch
  BY DivCeil, FS_EmptySet DEF Init, BytesMatch
<1>3. Claims /\ Finals
  BY DEF Init, Claims, Finals, Claiming, Writing, Finalizing
<1> QED BY <1>1, <1>2, <1>3 DEF UploadInv

\* The claim of a chunk or of the hand-over, by one request only.
LEMMA ClaimOf ==
  ASSUME UploadInv, NEW r \in Requests, pc[r] \in Claiming
  PROVE  /\ up[r] \in Uploads /\ chunk[r] \in inFlight[up[r]]
         /\ chunk[r] \in Chunks(up[r]) /\ chunk[r] \notin received[up[r]]
BY DEF UploadInv, TypeOK, Claims, Claiming, Writing

\* The sets of chunks of an upload.
Sets(v) == /\ received[v] \subseteq Chunks(v) /\ inFlight[v] \subseteq Chunks(v)
           /\ content[v] \subseteq Chunks(v) /\ flushing[v] \subseteq Chunks(v)
           /\ received[v] \cap inFlight[v] = {}

LEMMA TypesStep == UploadInv /\ [Next]_vars => TypeOK'
<1> SUFFICES ASSUME UploadInv, [Next]_vars PROVE TypeOK'
  OBVIOUS
<1> USE DEF UploadInv, TypeOK, Stages, Control, Writing, Finalizing, Over, Pending,
            entryVars, fileVars, reqVars
<1>1. ASSUME NEW u \in Uploads, InitStep(u) PROVE TypeOK'
  <2>1. CASE CheckLimit(u)
    BY <2>1 DEF CheckLimit
  <2>2. CASE CreateFile(u)
    BY <2>2 DEF CreateFile
  <2>3. CASE InsertEntry(u)
    BY <2>3 DEF InsertEntry
  <2>4. CASE InitDropped(u)
    BY <2>4 DEF InitDropped
  <2> QED BY <1>1, <2>1, <2>2, <2>3, <2>4 DEF InitStep
<1>2. ASSUME NEW u \in Uploads, TimePasses(u) \/ SweepFile(u) PROVE TypeOK'
  <2>1. CASE TimePasses(u)
    BY <2>1 DEF TimePasses
  <2>2. CASE SweepFile(u)
    BY <2>2 DEF SweepFile, Removed
  <2> QED BY <1>2, <2>1, <2>2
<1>3. ASSUME NEW u \in Uploads, NEW c \in Chunks(u), FlushEnds(u, c) PROVE TypeOK'
  BY <1>3 DEF FlushEnds
<1>4. ASSUME NEW u \in Uploads, NEW c \in Chunks(u), NEW r \in Requests,
             ChunkArrives(r, u, c)
      PROVE  TypeOK'
  <2>1. c \in Nat
    BY DivCeil, <1>4 DEF Chunks
  <2>2. /\ UNCHANGED <<received, bytes, finalizing, fileVars, jobs, boots>>
        /\ up' = [up EXCEPT ![r] = u] /\ chunk' = [chunk EXCEPT ![r] = c]
        /\ \E p \in Control : pc' = [pc EXCEPT ![r] = p]
        /\ stage' \in [Uploads -> Stages] /\ idle' \in [Uploads -> BOOLEAN]
    BY <1>4 DEF ChunkArrives
  <2>3. /\ up' \in [Requests -> Uploads \cup {NoUpload}] /\ pc' \in [Requests -> Control]
        /\ chunk' \in [Requests -> Nat]
        /\ \A s \in Requests : pc'[s] # "idle" => up'[s] \in Uploads
    BY <2>1, <2>2
  <2>4. CASE UNCHANGED inFlight
    BY <2>2, <2>3, <2>4
  <2>5. CASE ~Busy(u, c) /\ inFlight' = [inFlight EXCEPT ![u] = inFlight[u] \cup {c}]
    <3>1. ASSUME NEW v \in Uploads PROVE Sets(v)'
      <4>1. Sets(v)
        BY DEF Sets
      <4>2. UNCHANGED <<received, content, flushing>>
        BY <2>2
      <4>3. CASE v = u
        BY <2>5, <4>1, <4>2, <4>3 DEF Sets, Busy
      <4>4. CASE v # u
        BY <2>5, <4>1, <4>2, <4>4 DEF Sets
      <4> QED BY <4>3, <4>4
    <3>2. inFlight' \in [Uploads -> SUBSET Nat]
      BY <2>1, <2>5
    <3> QED BY <2>2, <2>3, <3>1, <3>2 DEF Sets
  <2> QED BY <1>4, <2>4, <2>5 DEF ChunkArrives
<1>5. ASSUME NEW u \in Uploads, NEW r \in Requests, FinalizeStarts(r, u) PROVE TypeOK'
  BY <1>5 DEF FinalizeStarts, MayFinalize
<1>6. ASSUME NEW r \in Requests, ChunkStep(r) PROVE TypeOK'
  <2>1. CASE Unlink(r)
    BY <2>1 DEF Unlink, Removed
  <2>2. CASE OpenFile(r)
    BY <2>2 DEF OpenFile
  <2>3. CASE WriteChunk(r)
    BY <2>3, ClaimOf DEF WriteChunk, Claiming
  <2>4. CASE Clear(r)
    BY <2>4 DEF Clear, Released
  <2>5. CASE Store(r)
    <3>1. /\ up[r] \in Uploads /\ chunk[r] \in Chunks(up[r])
          /\ chunk[r] \in inFlight[up[r]]
      BY <2>5, ClaimOf DEF Store, Claiming
    <3>2. Size(up[r], chunk[r]) \in Nat
      BY <3>1, SizeOf, DivCeil
    <3>3. CASE up[r] \in Pending
      <4>1. ASSUME NEW v \in Uploads PROVE Sets(v)'
        <5>1. Sets(v)
          BY DEF Sets
        <5>2. CASE v = up[r]
          BY <2>5, <3>1, <3>3, <5>1, <5>2 DEF Store, Released, Sets
        <5>3. CASE v # up[r]
          BY <2>5, <3>1, <3>3, <5>1, <5>3 DEF Store, Released, Sets
        <5> QED BY <5>2, <5>3
      <4>2. received' \in [Uploads -> SUBSET Nat] /\ inFlight' \in [Uploads -> SUBSET Nat]
        BY <2>5, <3>1, <3>3 DEF Store, Released
      <4>3. bytes' \in [Uploads -> Nat]
        BY <2>5, <3>1, <3>2, <3>3 DEF Store
      <4> QED BY <2>5, <3>1, <3>3, <4>1, <4>2, <4>3 DEF Store, Sets
    <3>4. CASE up[r] \notin Pending
      BY <2>5, <3>4 DEF Store
    <3> QED BY <3>3, <3>4
  <2> QED BY <1>6, <2>1, <2>2, <2>3, <2>4, <2>5 DEF ChunkStep
<1>7. ASSUME NEW r \in Requests, FinalizeStep(r) PROVE TypeOK'
  <2>1. CASE Enqueue(r)
    BY <2>1 DEF Enqueue
  <2>2. CASE RemoveEntry(r)
    BY <2>2 DEF RemoveEntry
  <2>3. CASE Reset(r)
    BY <2>3 DEF Reset
  <2> QED BY <1>7, <2>1, <2>2, <2>3 DEF FinalizeStep
<1>8. ASSUME NEW r \in Requests, Disconnect(r) PROVE TypeOK'
  BY <1>8 DEF Disconnect
<1>9. CASE Sweep
  BY <1>9 DEF Sweep
<1>10. CASE Reboot
  BY <1>10 DEF Reboot
<1>11. CASE UNCHANGED vars
  BY <1>11 DEF vars
<1> QED BY <1>1, <1>2, <1>3, <1>4, <1>5, <1>6, <1>7, <1>8, <1>9, <1>10, <1>11 DEF Next

\* received_bytes follows received_chunks: only Store changes either.
LEMMA BytesStep == UploadInv /\ [Next]_vars => BytesMatch'
<1> SUFFICES ASSUME UploadInv, [Next]_vars PROVE BytesMatch'
  OBVIOUS
<1>1. CASE UNCHANGED <<received, bytes>>
  BY <1>1 DEF UploadInv, BytesMatch
<1>2. ASSUME NEW r \in Requests, Store(r), up[r] \in Pending PROVE BytesMatch'
  <2> DEFINE u == up[r]  c == chunk[r]  n == NumChunks(u)
  <2>1. /\ u \in Uploads /\ c \in Chunks(u) /\ c \notin received[u]
    BY <1>2, ClaimOf DEF Store, Claiming, Writing
  <2>2. /\ received' = [received EXCEPT ![u] = received[u] \cup {c}]
        /\ bytes' = [bytes EXCEPT ![u] = bytes[u] + Size(u, c)]
    BY <1>2, <2>1 DEF Store
  <2>3. /\ received \in [Uploads -> SUBSET Nat] /\ bytes \in [Uploads -> Nat]
        /\ received[u] \subseteq Chunks(u) /\ BytesMatch
    BY <2>1 DEF UploadInv, TypeOK
  <2>4. /\ Cardinality(received[u]) \in Nat
        /\ Cardinality(received[u] \cup {c}) = Cardinality(received[u]) + 1
    <3>1. IsFiniteSet(Chunks(u))
      BY <2>1, ChunkSet
    <3>2. IsFiniteSet(received[u])
      BY <2>3, <3>1, FS_Subset
    <3> QED BY <2>1, <3>2, FS_AddElement, FS_CardinalityType
  <2>5. ASSUME NEW v \in Uploads, v # u
        PROVE  received'[v] = received[v] /\ bytes'[v] = bytes[v]
    BY <2>2, <2>3, <2>5
  <2>6. received'[u] = received[u] \cup {c} /\ bytes'[u] = bytes[u] + Size(u, c)
    BY <2>1, <2>2, <2>3
  <2>7. /\ n \in Nat \ {0} /\ TotalSize[u] \in Nat /\ ChunkSize \in Nat
        /\ Size(u, c) = IF c = n - 1 THEN TotalSize[u] - ChunkSize * (n - 1)
                        ELSE ChunkSize
        /\ ChunkSize * (n - 1) = ChunkSize * n - ChunkSize
    BY <2>1, SizeOf, DivCeil
  <2>8. ChunkSize * (Cardinality(received[u]) + 1)
          = ChunkSize * Cardinality(received[u]) + ChunkSize
    BY <2>4
  <2>9. n - 1 \in received'[u] <=> n - 1 \in received[u] \/ c = n - 1
    BY <2>6
  <2>10. bytes'[u] = IF n - 1 \in received'[u]
                       THEN ChunkSize * Cardinality(received'[u])
                              - (ChunkSize * n - TotalSize[u])
                       ELSE ChunkSize * Cardinality(received'[u])
    <3>1. bytes[u] = IF n - 1 \in received[u]
                       THEN ChunkSize * Cardinality(received[u])
                              - (ChunkSize * n - TotalSize[u])
                       ELSE ChunkSize * Cardinality(received[u])
      BY <2>1, <2>3 DEF BytesMatch
    <3>2. Cardinality(received'[u]) = Cardinality(received[u]) + 1
      BY <2>4, <2>6
    <3> DEFINE k == Cardinality(received[u])  p == ChunkSize * k  m == ChunkSize * n
    <3>3. p \in Nat /\ m \in Nat
      BY <2>4, <2>7
    <3>4. ChunkSize * Cardinality(received'[u]) = p + ChunkSize
      BY <2>8, <3>2
    <3>5. Size(u, c) = IF c = n - 1 THEN TotalSize[u] - (m - ChunkSize) ELSE ChunkSize
      BY <2>7
    <3>6. c = n - 1 => n - 1 \notin received[u]
      BY <2>1
    <3> HIDE DEF n, p, m, u, c
    <3> QED BY <2>6, <2>7, <2>9, <3>1, <3>3, <3>4, <3>5, <3>6 DEF p, m
  <2>11. UNCHANGED <<n>>
    BY <2>1, <1>2 DEF Store, NumChunks
  <2> QED BY <2>3, <2>5, <2>10 DEF BytesMatch, NumChunks
<1>3. ASSUME NEW r \in Requests, Store(r), up[r] \notin Pending PROVE BytesMatch'
  BY <1>1, <1>3 DEF Store
<1>4. CASE \E r \in Requests : Store(r)
  BY <1>2, <1>3, <1>4
<1>5. CASE ~\E r \in Requests : Store(r)
  <2> USE DEF entryVars
  <2>1. ASSUME NEW u \in Uploads, InitStep(u) \/ TimePasses(u) \/ SweepFile(u)
        PROVE  UNCHANGED <<received, bytes>>
    BY <2>1 DEF InitStep, CheckLimit, CreateFile, InsertEntry, InitDropped, TimePasses,
                SweepFile
  <2>2. ASSUME NEW u \in Uploads, NEW c \in Chunks(u), FlushEnds(u, c)
        PROVE  UNCHANGED <<received, bytes>>
    BY <2>2 DEF FlushEnds
  <2>3. ASSUME NEW u \in Uploads, NEW r \in Requests,
               (\E c \in Chunks(u) : ChunkArrives(r, u, c)) \/ FinalizeStarts(r, u)
        PROVE  UNCHANGED <<received, bytes>>
    BY <2>3 DEF ChunkArrives, FinalizeStarts
  <2>4. ASSUME NEW r \in Requests, ChunkStep(r)
        PROVE  UNCHANGED <<received, bytes>>
    BY <1>5, <2>4 DEF ChunkStep, Unlink, OpenFile, WriteChunk, Clear
  <2>5. ASSUME NEW r \in Requests, FinalizeStep(r) \/ Disconnect(r)
        PROVE  UNCHANGED <<received, bytes>>
    BY <2>5 DEF FinalizeStep, Enqueue, RemoveEntry, Reset, Disconnect
  <2>6. Sweep \/ Reboot => UNCHANGED <<received, bytes>>
    BY DEF Sweep, Reboot
  <2>7. UNCHANGED <<received, bytes>>
    BY <2>1, <2>2, <2>3, <2>4, <2>5, <2>6 DEF Next, vars
  <2> QED BY <1>1, <2>7
<1> QED BY <1>4, <1>5

\* A claim is taken by one request, which finds the chunk free, and lasts until
\* that request gives it up.
LEMMA ClaimsStep == UploadInv /\ [Next]_vars => Claims'
<1> SUFFICES ASSUME UploadInv, [Next]_vars PROVE Claims'
  OBVIOUS
<1>0. /\ Claims /\ inFlight \in [Uploads -> SUBSET Nat] /\ pc \in [Requests -> Control]
      /\ up \in [Requests -> Uploads \cup {NoUpload}] /\ chunk \in [Requests -> Nat]
  BY DEF UploadInv, TypeOK
\* A step that touches no claim, and lets no request reach one.
<1>1. CASE /\ UNCHANGED inFlight
           /\ \A s \in Requests : pc'[s] \in Claiming =>
                pc[s] \in Claiming /\ up'[s] = up[s] /\ chunk'[s] = chunk[s]
  BY <1>0, <1>1 DEF Claims
<1>2. ASSUME NEW r \in Requests, pc[r] \in Claiming, inFlight' = Released(r),
             pc' = [pc EXCEPT ![r] = "done"], UNCHANGED <<up, chunk>>
      PROVE  Claims'
  <2>1. ASSUME NEW s \in Requests, pc'[s] \in Claiming
        PROVE  s # r /\ pc[s] \in Claiming /\ chunk[s] \in inFlight'[up[s]]
    <3>1. s # r /\ pc[s] \in Claiming
      BY <1>0, <1>2, <2>1 DEF Claiming, Writing
    <3>2. /\ up[s] \in Uploads /\ up[r] \in Uploads /\ chunk[s] \in inFlight[up[s]]
          /\ ~(up[s] = up[r] /\ chunk[s] = chunk[r])
      BY <1>2, <3>1, ClaimOf, <1>0 DEF Claims
    <3> QED BY <1>0, <1>2, <3>1, <3>2 DEF Released
  <2> QED BY <1>0, <1>2, <2>1 DEF Claims
<1>3. ASSUME NEW u \in Uploads, NEW c \in Chunks(u), NEW r \in Requests,
             ChunkArrives(r, u, c)
      PROVE  Claims'
  <2>1. c \in Nat /\ pc[r] = "idle"
    BY <1>3, DivCeil DEF ChunkArrives, Chunks
  <2>2. CASE UNCHANGED inFlight
    <3>1. pc'[r] \notin Claiming
      <4> HIDE DEF Busy
      <4>1. ~Expired(u) /\ ~Busy(u, c) => c \notin inFlight[u]
        BY DEF Busy
      <4>2. ~Expired(u) /\ ~Busy(u, c) => inFlight' # [inFlight EXCEPT ![u] = @ \cup {c}]
        BY <1>0, <2>2, <4>1
      <4> QED BY <1>0, <1>3, <4>2 DEF ChunkArrives, Claiming, Writing
    <3> QED BY <1>0, <1>1, <1>3, <2>2, <3>1 DEF ChunkArrives, Claiming, Writing
  <2>3. CASE /\ ~Busy(u, c) /\ inFlight' = [inFlight EXCEPT ![u] = inFlight[u] \cup {c}]
             /\ pc' = [pc EXCEPT ![r] = "open"]
    <3>1. c \notin inFlight[u] /\ up'[r] = u /\ chunk'[r] = c
      BY <1>0, <1>3, <2>1, <2>3 DEF ChunkArrives, Busy
    <3>2. ASSUME NEW s \in Requests, s # r
          PROVE  pc'[s] = pc[s] /\ up'[s] = up[s] /\ chunk'[s] = chunk[s]
      BY <1>0, <1>3, <2>3, <3>2 DEF ChunkArrives
    <3>3. \A s \in Requests : s # r /\ pc[s] \in Claiming => ~(up[s] = u /\ chunk[s] = c)
      BY <1>0, <3>1 DEF Claims
    <3>4. ASSUME NEW s \in Requests, pc'[s] \in Claiming
          PROVE  chunk'[s] \in inFlight'[up'[s]]
      <4>1. CASE s = r
        BY <1>0, <2>3, <3>1, <4>1
      <4>2. CASE s # r
        BY <1>0, <2>3, <3>2, <3>4, <4>2, ClaimOf DEF Claims
      <4> QED BY <4>1, <4>2
    <3> QED BY <1>0, <3>1, <3>2, <3>3, <3>4 DEF Claims
  <2> QED BY <1>3, <2>2, <2>3 DEF ChunkArrives
<1>4. ASSUME NEW r \in Requests, ChunkStep(r) PROVE Claims'
  <2>1. CASE Unlink(r) \/ OpenFile(r) \/ WriteChunk(r)
    BY <1>0, <1>1, <2>1
    DEF Unlink, OpenFile, WriteChunk, Claiming, Writing, entryVars
  <2>2. CASE Clear(r) \/ (Store(r) /\ up[r] \in Pending)
    BY <1>2, <2>2 DEF Clear, Store, Claiming, Writing
  <2>3. CASE Store(r) /\ up[r] \notin Pending
    BY <1>0, <1>1, <2>3 DEF Store, Claiming, Writing
  <2> QED BY <1>4, <2>1, <2>2, <2>3 DEF ChunkStep
<1>5. ASSUME NEW u \in Uploads, NEW r \in Requests, FinalizeStarts(r, u) PROVE Claims'
  BY <1>0, <1>1, <1>5 DEF FinalizeStarts, Claiming, Writing
<1>6. ASSUME NEW r \in Requests, FinalizeStep(r) \/ Disconnect(r) PROVE Claims'
  BY <1>0, <1>1, <1>6
  DEF FinalizeStep, Enqueue, RemoveEntry, Reset, Disconnect, Claiming, Writing, entryVars
<1>7. CASE Reboot
  BY <1>0, <1>1, <1>7 DEF Reboot, Claiming, Writing
<1>8. CASE UNCHANGED <<inFlight, reqVars>>
  BY <1>1, <1>8 DEF reqVars
<1> QED
  BY <1>3, <1>4, <1>5, <1>6, <1>7, <1>8
  DEF Next, vars, entryVars, fileVars, InitStep, CheckLimit, CreateFile,
      InsertEntry, InitDropped, TimePasses, SweepFile, FlushEnds, Sweep

\* An upload whose chunks are all received keeps them, and its one finalizing
\* request decides about its job.
LEMMA FinalsStep == UploadInv /\ [Next]_vars => Finals'
<1> SUFFICES ASSUME UploadInv, [Next]_vars PROVE Finals'
  OBVIOUS
<1>0. /\ Finals /\ finalizing \in [Uploads -> BOOLEAN] /\ pc \in [Requests -> Control]
      /\ up \in [Requests -> Uploads \cup {NoUpload}] /\ jobs \in [Uploads -> Nat]
      /\ received \in [Uploads -> SUBSET Nat]
      /\ \A r \in Requests : pc[r] # "idle" => up[r] \in Uploads
  BY DEF UploadInv, TypeOK
\* A step that changes no decision, and lets no request take part in one.
<1>1. CASE /\ UNCHANGED <<received, finalizing, jobs>>
           /\ \A s \in Requests : pc'[s] \in Finalizing =>
                pc[s] = pc'[s] /\ up'[s] = up[s]
  BY <1>0, <1>1 DEF Finals
<1>2. ASSUME NEW r \in Requests, Store(r), up[r] \in Pending PROVE Finals'
  <2>1. /\ up[r] \in Uploads /\ chunk[r] \in Chunks(up[r]) /\ chunk[r] \notin received[up[r]]
    BY <1>2, ClaimOf DEF Store, Claiming, Writing
  <2>2. ~finalizing[up[r]]
    BY <1>0, <2>1 DEF Finals
  <2>3. ASSUME NEW v \in Uploads, v # up[r] PROVE received'[v] = received[v]
    BY <1>0, <1>2, <2>3 DEF Store
  <2> QED BY <1>0, <1>2, <2>1, <2>2, <2>3 DEF Store, Finals, Finalizing
<1>3. ASSUME NEW u \in Uploads, NEW r \in Requests, FinalizeStarts(r, u) PROVE Finals'
  <2>1. received[u] = Chunks(u)
    <3>1. IsFiniteSet(Chunks(u)) /\ Cardinality(Chunks(u)) = NumChunks(u)
      BY ChunkSet
    <3>2. received[u] \subseteq Chunks(u)
      BY DEF UploadInv, TypeOK
    <3> QED BY <1>3, <3>1, <3>2, FS_Subset DEF FinalizeStarts, Complete
  <2>2. jobs[u] = 0 /\ \A s \in Requests : pc[s] \in Finalizing => up[s] # u
    BY <1>0, <1>3 DEF FinalizeStarts, MayFinalize, Finals
  <2> QED BY <1>0, <1>3, <2>1, <2>2 DEF FinalizeStarts, Finals, Finalizing
<1>4. ASSUME NEW r \in Requests, Enqueue(r) PROVE Finals'
  <2>1. pc[r] \in Finalizing /\ up[r] \in Uploads /\ finalizing[up[r]] /\ jobs[up[r]] = 0
    BY <1>0, <1>4 DEF Enqueue, Finals, Finalizing
  <2> QED BY <1>0, <1>4, <2>1 DEF Enqueue, Finals, Finalizing, entryVars
<1>5. ASSUME NEW r \in Requests, Reset(r) PROVE Finals'
  <2>1. pc[r] \in Finalizing /\ up[r] \in Uploads /\ jobs[up[r]] = 0
    BY <1>0, <1>5 DEF Reset, Finals, Finalizing
  <2> QED BY <1>0, <1>5, <2>1 DEF Reset, Finals, Finalizing
<1>6. ASSUME NEW r \in Requests, RemoveEntry(r) \/ Disconnect(r) PROVE Finals'
  BY <1>0, <1>1, <1>6 DEF RemoveEntry, Disconnect, Finalizing, entryVars
<1>7. ASSUME NEW r \in Requests, ChunkStep(r) PROVE Finals'
  <2>1. CASE Store(r) /\ up[r] \notin Pending
    BY <1>0, <1>1, <2>1 DEF Store, Finalizing
  <2>2. CASE ~Store(r)
    BY <1>0, <1>1, <1>7, <2>2
    DEF ChunkStep, Unlink, OpenFile, WriteChunk, Clear, Finalizing, entryVars
  <2> QED BY <1>2, <1>7, <2>1, <2>2
<1>8. ASSUME NEW u \in Uploads, NEW c \in Chunks(u), NEW r \in Requests,
             ChunkArrives(r, u, c)
      PROVE  Finals'
  BY <1>0, <1>1, <1>8 DEF ChunkArrives, Finalizing
<1>9. CASE Reboot
  BY <1>0, <1>1, <1>9 DEF Reboot, Finalizing
<1>10. CASE UNCHANGED <<received, finalizing, jobs, reqVars>>
  BY <1>1, <1>10 DEF reqVars
<1> QED
  BY <1>3, <1>4, <1>5, <1>6, <1>7, <1>8, <1>9, <1>10
  DEF Next, vars, entryVars, fileVars, FinalizeStep, InitStep, CheckLimit,
      CreateFile, InsertEntry, InitDropped, TimePasses, SweepFile, FlushEnds, Sweep

\* The inductive invariant.
THEOREM UploadInvHolds == Spec => []UploadInv
<1>1. UploadInv /\ [Next]_vars => UploadInv'
  BY TypesStep, BytesStep, ClaimsStep, FinalsStep DEF UploadInv
<1> QED BY UploadInit, <1>1, PTL DEF Spec

-----------------------------------------------------------------------------
(* What follows from it.                                                   *)

\* Every variable keeps its type, and a stored chunk is not in flight.
THEOREM TypeOKHolds == Spec => []TypeOK
<1>1. UploadInv => TypeOK
  BY DEF UploadInv
<1> QED BY UploadInvHolds, <1>1, PTL

\* received_bytes is the size of received_chunks.
THEOREM BytesMatchHolds == Spec => []BytesMatch
<1>1. UploadInv => BytesMatch
  BY DEF UploadInv
<1> QED BY UploadInvHolds, <1>1, PTL

\* A chunk is written by one request at a time.
THEOREM OneWriterHolds == Spec => []OneWriter
<1>1. UploadInv => OneWriter
  BY DEF UploadInv, Claims, OneWriter, Writers, Claiming
<1> QED BY UploadInvHolds, <1>1, PTL

\* No request writes a file that a job has or is about to get.
THEOREM FinalizedIsFrozenHolds == Spec => []FinalizedIsFrozen
<1>1. ASSUME UploadInv PROVE FinalizedIsFrozen
  <2> SUFFICES ASSUME NEW u \in Uploads, finalizing[u] \/ jobs[u] > 0,
                      NEW r \in Requests, up[r] = u, pc[r] \in Writing
               PROVE  FALSE
    BY DEF FinalizedIsFrozen
  <2>1. received[u] = Chunks(u)
    BY <1>1 DEF UploadInv, Finals
  <2> QED BY <1>1, <2>1, ClaimOf DEF Claiming
<1> QED BY UploadInvHolds, <1>1, PTL

\* No upload is queued twice.
THEOREM OneJobPerUploadHolds == Spec => []OneJobPerUpload
<1>1. UploadInv => OneJobPerUpload
  BY DEF UploadInv, Finals, OneJobPerUpload
<1> QED BY UploadInvHolds, <1>1, PTL

\* The two tests of finalize agree: an upload passes them when, and only when,
\* it has received every chunk.
THEOREM FinalizeTestsAgree ==
  Spec => [](\A u \in Uploads : received[u] = Chunks(u) <=> Complete(u))
<1>1. ASSUME UploadInv, NEW u \in Uploads
      PROVE  received[u] = Chunks(u) <=> Complete(u)
  <2>1. /\ IsFiniteSet(Chunks(u)) /\ Cardinality(Chunks(u)) = NumChunks(u)
        /\ NumChunks(u) - 1 \in Chunks(u) /\ NumChunks(u) \in Nat
    BY ChunkSet, DivCeil
  <2>2. received[u] \subseteq Chunks(u)
    BY <1>1 DEF UploadInv, TypeOK
  <2>3. received[u] = Chunks(u) => bytes[u] = TotalSize[u]
    <3> DEFINE m == ChunkSize * NumChunks(u)
    <3>1. m \in Nat /\ TotalSize[u] \in Nat
      BY <2>1
    <3>2. received[u] = Chunks(u) => bytes[u] = m - (m - TotalSize[u])
      BY <1>1, <2>1 DEF UploadInv, BytesMatch
    <3> HIDE DEF m
    <3> QED BY <3>1, <3>2
  <2> QED BY <2>1, <2>2, <2>3, FS_Subset DEF Complete
<1>2. UploadInv => \A u \in Uploads : received[u] = Chunks(u) <=> Complete(u)
  BY <1>1
<1> QED BY UploadInvHolds, <1>2, PTL

-----------------------------------------------------------------------------
(* Files.                                                                  *)

\* A finalize that is about to drop the entry has queued the job.
Queued == \A r \in Requests : pc[r] = "remove" => jobs[up[r]] > 0

LEMMA QueuedStep == UploadInv /\ Queued /\ [Next]_vars => Queued'
<1> SUFFICES ASSUME UploadInv, Queued, [Next]_vars PROVE Queued'
  OBVIOUS
<1>0. /\ jobs \in [Uploads -> Nat] /\ pc \in [Requests -> Control]
      /\ up \in [Requests -> Uploads \cup {NoUpload}]
      /\ \A r \in Requests : pc[r] # "idle" => up[r] \in Uploads
  BY DEF UploadInv, TypeOK
<1>1. CASE UNCHANGED jobs /\ \A r \in Requests : pc'[r] = "remove" => pc[r] = "remove" /\ up'[r] = up[r]
  BY <1>1 DEF Queued
<1>2. ASSUME NEW r \in Requests, Enqueue(r) PROVE Queued'
  <2>1. up[r] \in Uploads /\ UNCHANGED up
    BY <1>0, <1>2 DEF Enqueue
  <2>2. CASE /\ jobs' = [jobs EXCEPT ![up[r]] = @ + 1]
             /\ pc' = [pc EXCEPT ![r] = "remove"]
    <3>1. \A u \in Uploads : jobs'[u] >= jobs[u] /\ (u = up[r] => jobs'[u] > 0)
      BY <1>0, <2>1, <2>2
    <3>2. \A s \in Requests : s = r \/ pc'[s] = pc[s]
      BY <1>0, <2>2
    <3>3. \A u \in Uploads : jobs[u] \in Nat /\ jobs'[u] \in Nat
      BY <1>0, <2>1, <2>2
    <3> QED BY <1>0, <2>1, <3>1, <3>2, <3>3 DEF Queued
  <2>3. CASE pc' = [pc EXCEPT ![r] = "reset"] /\ UNCHANGED jobs
    BY <1>0, <1>1, <2>1, <2>3
  <2> QED BY <1>2, <2>2, <2>3 DEF Enqueue
<1>3. ASSUME NEW r \in Requests, RemoveEntry(r) \/ Reset(r) \/ Disconnect(r) \/ ChunkStep(r)
      PROVE  Queued'
  BY <1>0, <1>1, <1>3
  DEF RemoveEntry, Reset, Disconnect, ChunkStep, Unlink, OpenFile, WriteChunk, Clear, Store
<1>4. ASSUME NEW r \in Requests, NEW u \in Uploads,
             FinalizeStarts(r, u) \/ \E c \in Chunks(u) : ChunkArrives(r, u, c)
      PROVE  Queued'
  BY <1>0, <1>1, <1>4 DEF FinalizeStarts, ChunkArrives
<1>5. CASE Reboot
  BY <1>0, <1>1, <1>5 DEF Reboot
<1>6. CASE UNCHANGED <<jobs, reqVars>>
  BY <1>1, <1>6 DEF reqVars
<1> QED
  BY <1>2, <1>3, <1>4, <1>5, <1>6
  DEF Next, vars, FinalizeStep, InitStep, CheckLimit, CreateFile, InsertEntry, InitDropped,
      TimePasses, SweepFile, FlushEnds, Sweep

\* Who answers for the file of an upload that has no entry.
Owned(u) == \/ stage[u] \in {"filed", "pending", "left"} \/ u \in doomed \/ jobs[u] > 0
            \/ \E r \in Requests : up[r] = u /\ pc[r] \in {"unlink", "dropped"}

LEMMA FilesStep == UploadInv /\ Queued /\ FilesAreOwned /\ [Next]_vars => FilesAreOwned'
<1> SUFFICES ASSUME UploadInv, Queued, FilesAreOwned, [Next]_vars,
                    NEW u \in Uploads, file'[u] PROVE Owned(u)'
  BY DEF FilesAreOwned, Owned
<1>0. /\ jobs \in [Uploads -> Nat] /\ pc \in [Requests -> Control] /\ stage \in [Uploads -> Stages]
      /\ up \in [Requests -> Uploads \cup {NoUpload}] /\ file \in [Uploads -> BOOLEAN]
      /\ \A r \in Requests : pc[r] # "idle" => up[r] \in Uploads
  BY DEF UploadInv, TypeOK
<1>1. file[u] => Owned(u)
  BY DEF FilesAreOwned, Owned
\* Nobody takes an owner away.
<1>2. CASE /\ file[u]
           /\ stage[u] \in {"filed", "pending", "left"} => stage'[u] \in {"filed", "pending", "left"}
           /\ doomed \subseteq doomed' /\ UNCHANGED jobs
           /\ \A r \in Requests : pc[r] \in {"unlink", "dropped"} =>
                pc'[r] \in {"unlink", "dropped"} /\ up'[r] = up[r]
  BY <1>1, <1>2 DEF Owned
<1>3. ASSUME NEW v \in Uploads, InitStep(v) PROVE Owned(u)'
  <2>1. CASE CreateFile(v) /\ v = u /\ stage'[u] = "filed"
    BY <2>1 DEF Owned
  <2>2. CASE ~ (CreateFile(v) /\ v = u /\ stage'[u] = "filed")
    BY <1>0, <1>2, <1>3, <2>2
    DEF InitStep, CheckLimit, CreateFile, InsertEntry, InitDropped, reqVars, fileVars
  <2> QED BY <2>1, <2>2
<1>4. ASSUME NEW r \in Requests, NEW v \in Uploads, NEW c \in Chunks(v), ChunkArrives(r, v, c)
      PROVE  Owned(u)'
  <2>1. CASE /\ v = u /\ stage' = [stage EXCEPT ![v] = "gone"]
             /\ pc' = [pc EXCEPT ![r] = "unlink"]
    <3>1. pc'[r] = "unlink" /\ up'[r] = u
      BY <1>0, <1>4, <2>1 DEF ChunkArrives
    <3> QED BY <3>1 DEF Owned
  <2>2. CASE v # u \/ UNCHANGED stage
    BY <1>0, <1>2, <1>4, <2>2 DEF ChunkArrives, fileVars
  <2> QED BY <1>4, <2>1, <2>2 DEF ChunkArrives
<1>5. ASSUME NEW r \in Requests, ChunkStep(r) PROVE Owned(u)'
  <2>1. CASE Unlink(r)
    <3>1. file[u] /\ u # up[r]
      BY <1>0, <2>1 DEF Unlink, Removed
    <3> QED BY <1>0, <1>1, <2>1, <3>1 DEF Unlink, Owned, entryVars
  <2>2. CASE ~Unlink(r)
    BY <1>0, <1>2, <1>5, <2>2
    DEF ChunkStep, OpenFile, WriteChunk, Clear, Store, fileVars, entryVars
  <2> QED BY <2>1, <2>2
<1>6. ASSUME NEW r \in Requests, FinalizeStep(r) PROVE Owned(u)'
  <2>1. CASE Enqueue(r)
    <3>1. jobs[u] > 0 => jobs'[u] > 0
      BY <1>0, <2>1 DEF Enqueue
    <3> QED BY <1>0, <1>1, <2>1, <3>1 DEF Enqueue, Owned, entryVars, fileVars
  <2>2. CASE RemoveEntry(r)
    <3>1. CASE up[r] = u
      BY <2>2, <3>1 DEF RemoveEntry, Queued, Owned
    <3>2. CASE up[r] # u
      BY <1>0, <1>2, <2>2, <3>2 DEF RemoveEntry, fileVars
    <3> QED BY <3>1, <3>2
  <2>3. CASE Reset(r)
    BY <1>0, <1>2, <2>3 DEF Reset, fileVars
  <2> QED BY <1>6, <2>1, <2>2, <2>3 DEF FinalizeStep
<1>7. ASSUME NEW r \in Requests, Disconnect(r) \/ \E v \in Uploads : FinalizeStarts(r, v)
      PROVE  Owned(u)'
  BY <1>0, <1>2, <1>7 DEF Disconnect, FinalizeStarts, entryVars, fileVars
<1>8. CASE Sweep
  BY <1>0, <1>1, <1>8 DEF Sweep, Expired, Owned, reqVars
<1>9. ASSUME NEW v \in Uploads, SweepFile(v) PROVE Owned(u)'
  <2>1. file[u] /\ u # v
    BY <1>0, <1>9 DEF SweepFile, Removed
  <2> QED BY <1>1, <1>9, <2>1 DEF SweepFile, Owned, entryVars, reqVars
<1>10. CASE Reboot
  BY <1>10 DEF Reboot
<1>11. CASE UNCHANGED <<stage, file, doomed, jobs, reqVars>>
  BY <1>2, <1>11 DEF reqVars
<1> QED
  BY <1>3, <1>4, <1>5, <1>6, <1>7, <1>8, <1>9, <1>10, <1>11
  DEF Next, vars, entryVars, fileVars, TimePasses, FlushEnds

\* No file is left behind without an entry, a job, or somebody who removes it, except
\* by clients that leave.
THEOREM FilesAreOwnedHolds == Spec => []FilesAreOwned
<1>1. Init => Queued /\ FilesAreOwned
  BY DEF Init, Queued, FilesAreOwned
<1>2. UploadInv /\ Queued /\ FilesAreOwned /\ [Next]_vars => (Queued /\ FilesAreOwned)'
  BY QueuedStep, FilesStep
<1> QED BY UploadInvHolds, <1>1, <1>2, PTL DEF Spec
=============================================================================
