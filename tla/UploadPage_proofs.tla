---------------------------- MODULE UploadPage_proofs ----------------------------
(***************************************************************************)
(* The upload page's invariants for any files, numbers of chunks, workers, *)
(* retries, starts, uploads and faults.                                    *)
(***************************************************************************)
EXTENDS UploadPage, FiniteSetTheorems, TLAPS

USE PageAssumption

\* Where a run has got to, and which workers may still be at work for it.
Begun == {"status", "opened", "chunks", "finalize", "queued", "poll"}

Places ==
  /\ \A r \in Runs : r > count.starts => run[r].at = "idle"
  /\ \A r \in Runs : run[r].at \in Begun => run[r].upload # 0
  /\ \A r \in Runs : run[r].at \in Live => run[r].file \in Files
  /\ \A r \in Runs : IsFiniteSet(run[r].todo)
  /\ \A w \in Slots : worker[w].at \in Working =>
       run[w[1]].at \in {"chunks", "failed"} /\ run[w[1]].upload # 0

\* A run works for the file its upload was opened for.
Owners ==
  /\ UploadsHoldOneFile
  /\ \A r \in Runs : run[r].upload # 0 => run[r].file \in Files

\* What the server has seen of an upload, and what runs and workers believe of it.
Seen(u) == upload[u].received \cup upload[u].inFlight \cup upload[u].failed

Acked ==
  /\ AckedReachedServer
  /\ \A w \in Slots : (worker[w].at = "ok" /\ upload[Up(w)].live) =>
       worker[w].chunk \in Seen(Up(w))
  /\ \A w \in Slots : (worker[w].at = "write" /\ upload[Up(w)].live) =>
       worker[w].chunk \in Seen(Up(w))

\* All of these chunks are of the file: those the server has, those that are left to
\* take, and those that workers send, be their run over or not.
Extent(f) == IF f = NoFile THEN {} ELSE Chunks(f)

Stays(up) == up.received \cup up.inFlight \subseteq Extent(up.owner)

Fits ==
  /\ \A u \in Uploads : Stays(upload[u])
  /\ \A r \in Runs : run[r].todo \subseteq Extent(run[r].file)
  /\ \A w \in Slots : worker[w].at \in Working => worker[w].chunk \in Extent(run[w[1]].file)

PageInv == TypeOK /\ Places /\ Owners /\ Acked /\ Fits /\ OneSender

-----------------------------------------------------------------------------
(* The n-th chunk of a set.                                                *)

\* The ranks of the members of a finite set of numbers are 0, 1, 2, ...: ranks are
\* distinct, below the cardinality, and as many as there are members.
LEMMA NthElement ==
  ASSUME NEW S \in SUBSET Nat, IsFiniteSet(S), NEW k \in 1..Cardinality(S)
  PROVE  Nth(S, k) \in S /\ Cardinality({d \in S : d < Nth(S, k)}) = k - 1
<1> DEFINE n == Cardinality(S)
           Below(c) == {d \in S : d < c}
           rank == [c \in S |-> Cardinality(Below(c))]
<1>1. n \in Nat
  BY FS_CardinalityType
<1>2. ASSUME NEW c \in S PROVE IsFiniteSet(Below(c)) /\ Cardinality(Below(c)) \in 0..(n - 1)
  <2>1. Below(c) \in SUBSET (S \ {c})
    OBVIOUS
  <2>2. IsFiniteSet(S \ {c}) /\ Cardinality(S \ {c}) = n - 1
    BY FS_RemoveElement
  <2> HIDE DEF Below, n
  <2>3. IsFiniteSet(Below(c)) /\ Cardinality(Below(c)) <= n - 1
    BY <2>1, <2>2, FS_Subset
  <2> QED BY <1>1, <2>3, FS_CardinalityType
<1>3. ASSUME NEW c \in S, NEW e \in S, c < e PROVE Cardinality(Below(c)) < Cardinality(Below(e))
  <2>0. c \in Int /\ e \in Int /\ ~ (c < c) /\ \A d \in S : d \in Int
    OBVIOUS
  <2>1. Below(c) \cup {c} \in SUBSET Below(e) /\ c \notin Below(c)
    <3>1. \A d \in S : d < c => d < e
      BY <1>3, <2>0
    <3>2. \A d \in Below(c) : d \in Below(e)
      BY <3>1
    <3>3. c \in Below(e)
      BY <1>3
    <3>4. c \notin Below(c)
      BY <2>0
    <3> HIDE DEF Below
    <3> QED BY <3>2, <3>3, <3>4
  <2> HIDE DEF Below
  <2>2. Cardinality(Below(c) \cup {c}) = Cardinality(Below(c)) + 1
    BY <1>2, <2>1, FS_AddElement
  <2>3. Cardinality(Below(c) \cup {c}) <= Cardinality(Below(e))
    BY <1>2, <2>1, FS_Subset
  <2> QED BY <1>1, <1>2, <2>2, <2>3
<1>4. rank \in Injection(S, 0..(n - 1))
  <2>1. rank \in [S -> 0..(n - 1)]
    BY <1>2
  <2>2. ASSUME NEW c \in S, NEW e \in S, c # e PROVE rank[c] # rank[e]
    <3>1. c < e \/ e < c
      BY <2>2
    <3>2. rank[c] = Cardinality(Below(c)) /\ rank[e] = Cardinality(Below(e))
      OBVIOUS
    <3> HIDE DEF rank, Below
    <3> QED BY <1>1, <1>2, <1>3, <3>1, <3>2
  <2> HIDE DEF rank
  <2> QED BY <2>1, <2>2 DEF Injection, IsInjective
<1>5. IsFiniteSet(0..(n - 1)) /\ Cardinality(0..(n - 1)) = n
  <2> HIDE DEF n
  <2>1. 0 \in Int /\ n - 1 \in Int /\ ~ (0 > n - 1 /\ n # 0) /\ (n - 1) - 0 + 1 = n
    BY <1>1
  <2> QED BY <1>1, <2>1, FS_Interval
<1>6. rank \in Surjection(S, 0..(n - 1))
  <2> HIDE DEF rank
  <2> QED BY <1>4, <1>5, FS_Injection
<1>7. PICK c \in S : rank[c] = k - 1
  <2>1. k - 1 \in 0..(n - 1)
    BY <1>1
  <2> HIDE DEF rank
  <2> QED BY <1>6, <2>1 DEF Surjection
<1>8. Cardinality(Below(c)) = k - 1
  BY <1>7
<1> QED BY <1>8 DEF Nth

\* They are distinct.
LEMMA NthDistinct ==
  ASSUME NEW S \in SUBSET Nat, IsFiniteSet(S),
         NEW j \in 1..Cardinality(S), NEW k \in 1..Cardinality(S), Nth(S, j) = Nth(S, k)
  PROVE  j = k
<1>1. j \in Int /\ k \in Int
  BY FS_CardinalityType
<1>2. Cardinality({d \in S : d < Nth(S, j)}) = j - 1
  BY NthElement
<1>3. Cardinality({d \in S : d < Nth(S, k)}) = k - 1
  BY NthElement
<1> QED BY <1>1, <1>2, <1>3

LEMMA ChunksFinite ==
  ASSUME NEW f \in Files
  PROVE  Chunks(f) \in SUBSET Nat /\ IsFiniteSet(Chunks(f))
<1>1. NumChunks[f] \in Nat \ {0}
  OBVIOUS
<1> QED BY <1>1, FS_Interval DEF Chunks

-----------------------------------------------------------------------------
(* What most steps leave: runs go on or end, workers too, and the server   *)
(* forgets nothing of an upload it still has.                              *)

RunsKept ==
  /\ run' \in [Runs -> RunType]
  /\ \A r \in Runs :
       \/ run'[r] = run[r]
       \/ run[r].at \in Live /\ \E s \in Ended : run'[r] = [run[r] EXCEPT !.at = s]

WorkersKept ==
  /\ worker' \in [Slots -> WorkerType]
  /\ \A w \in Slots :
       \/ worker'[w] = worker[w]
       \/ worker'[w] = Dead /\ run'[w[1]].at # "chunks"
       \/ /\ worker[w].at \in Working /\ worker'[w].at \in Working
          /\ worker'[w].chunk = worker[w].chunk
  /\ \A w \in Slots : worker'[w].at \in Working =>
       run'[w[1]] = run[w[1]] \/ run'[w[1]].at = "failed"

UploadsKept ==
  /\ upload' \in [Uploads -> UploadType]
  /\ \A u \in Uploads : Stays(upload'[u])
  /\ \A u \in Uploads : upload[u].owner # NoFile =>
       /\ upload'[u].owner = upload[u].owner
       /\ upload'[u].live => upload[u].live /\ Seen(u) \subseteq Seen(u)'

\* Answers under way are of chunks that the server has seen.
AnswersKept ==
  \A w \in Slots : worker'[w].at \in {"ok", "write"} =>
    \/ worker[w].at \in {"ok", "write"} /\ worker'[w].chunk = worker[w].chunk
    \/ run[w[1]].upload # 0 /\ (upload'[Up(w)].live => worker'[w].chunk \in Seen(Up(w))')

PageKept ==
  /\ page' \in PageType
  /\ page'.ctrl # 0 => page'.ctrl \notin page'.aborted /\ run'[page'.ctrl].at = "chunks"
  /\ \/ page'.saved \in {page.saved, NoRecord}
     \/ \E r \in Runs : /\ run[r].upload # 0
                        /\ page'.saved = [upload |-> run[r].upload, file |-> run[r].file]

CountKept ==
  /\ count' \in [starts : 0..MaxStarts, faults : 0..MaxFaults]
  /\ count'.starts = count.starts

LEMMA SlotRuns == \A w \in Slots : w[1] \in Runs /\ w[2] \in 1..Concurrency /\ w = <<w[1], w[2]>>
  BY DEF Slots

LEMMA RunFacts ==
  ASSUME PageInv, RunsKept, NEW r \in Runs
  PROVE  /\ run'[r] = run[r] \/ (run[r].at \in Live /\ run'[r].at \in Ended)
         /\ run'[r].upload = run[r].upload /\ run'[r].file = run[r].file
         /\ run'[r].todo = run[r].todo /\ run'[r].acked = run[r].acked
<1>1. run[r] \in RunType
  BY DEF PageInv, TypeOK
<1> QED BY <1>1 DEF RunsKept, RunType, Ended

LEMMA PlacesKept ==
  ASSUME PageInv, RunsKept, WorkersKept, CountKept
  PROVE  Places'
<1> USE DEF PageInv, Places
<1>1. ASSUME NEW r \in Runs, r > count'.starts PROVE run'[r].at = "idle"
  BY <1>1, RunFacts DEF CountKept, Live
<1>2. ASSUME NEW r \in Runs PROVE /\ run'[r].at \in Begun => run'[r].upload # 0
                                  /\ run'[r].at \in Live => run'[r].file \in Files
                                  /\ IsFiniteSet(run'[r].todo)
  BY RunFacts DEF Ended, Live, Begun
<1>3. ASSUME NEW w \in Slots, worker'[w].at \in Working
      PROVE  run'[w[1]].at \in {"chunks", "failed"} /\ run'[w[1]].upload # 0
  <2>1. worker[w].at \in Working
    BY <1>3 DEF WorkersKept, Dead, Off, Working, Fetching, Sleeping
  <2> QED BY <1>3, <2>1, SlotRuns, RunFacts DEF WorkersKept
<1> QED BY <1>1, <1>2, <1>3

\* The workers of a run that are at work, and their chunks.
Mine(r) == {w \in Slots : w[1] = r /\ worker[w].at \in Working}
Held(r) == {worker[w].chunk : w \in Mine(r)}

Apart(r) ==
  /\ \A v, w \in Mine(r) : worker[v].chunk = worker[w].chunk => v = w
  /\ Held(r) \cap run[r].todo = {} /\ run[r].acked \cap (run[r].todo \cup Held(r)) = {}
  /\ run[r].acked \cup run[r].todo \cup Held(r) = Chunks(run[r].file)

LEMMA SendersApart == OneSender <=> \A r \in Runs : run[r].at = "chunks" => Apart(r)
  BY DEF OneSender, Apart, Held, Mine

LEMMA SendersKept ==
  ASSUME PageInv, RunsKept, WorkersKept
  PROVE  OneSender'
<1> SUFFICES ASSUME NEW r \in Runs, run'[r].at = "chunks" PROVE Apart(r)'
  BY DEF OneSender, Apart, Held, Mine
<1>1. run'[r] = run[r] /\ run[r].at = "chunks"
  BY RunFacts DEF Ended
<1>2. ASSUME NEW w \in Slots, w[1] = r
      PROVE  /\ worker'[w].at \in Working <=> worker[w].at \in Working
             /\ worker[w].at \in Working => worker'[w].chunk = worker[w].chunk
  BY <1>2 DEF WorkersKept
<1>3. Mine(r)' = Mine(r)
  BY <1>2 DEF Mine
<1>4. Held(r)' = Held(r) /\ \A w \in Mine(r) : worker'[w].chunk = worker[w].chunk
  <2>1. \A w \in Mine(r) : worker'[w].chunk = worker[w].chunk
    BY <1>2 DEF Mine
  <2> QED BY <1>3, <2>1 DEF Held
<1>5. Apart(r)
  BY <1>1, SendersApart DEF PageInv
<1> QED BY <1>1, <1>3, <1>4, <1>5 DEF Apart

LEMMA OwnersKept ==
  ASSUME PageInv, RunsKept, UploadsKept, PageKept
  PROVE  Owners'
<1> USE DEF PageInv, Owners, UploadsHoldOneFile
<1>1. ASSUME NEW r \in Runs, run[r].upload # 0
      PROVE  /\ run[r].upload \in Uploads /\ run[r].file \in Files
             /\ upload[run[r].upload].owner = run[r].file
             /\ upload'[run[r].upload].owner = run[r].file
  <2>1. run[r] \in RunType
    BY DEF TypeOK
  <2> QED BY <1>1, <2>1 DEF RunType, UploadsKept
<1>2. page'.saved # NoRecord => upload'[page'.saved.upload].owner = page'.saved.file
  <2>1. CASE page'.saved = page.saved
    <3>1. page.saved = NoRecord \/ (page.saved.upload \in Uploads /\ page.saved.file \in Files)
      BY DEF TypeOK, PageType
    <3> QED BY <2>1, <3>1 DEF UploadsKept
  <2>2. CASE \E r \in Runs : /\ run[r].upload # 0
                        /\ page'.saved = [upload |-> run[r].upload, file |-> run[r].file]
    BY <1>1, <2>2
  <2> QED BY <2>1, <2>2 DEF PageKept
<1>3. ASSUME NEW r \in Runs, run'[r].upload # 0
      PROVE  upload'[run'[r].upload].owner = run'[r].file /\ run'[r].file \in Files
  BY <1>1, <1>3, RunFacts
<1> QED BY <1>2, <1>3

LEMMA AckedKept ==
  ASSUME PageInv, RunsKept, UploadsKept, WorkersKept, AnswersKept
  PROVE  Acked'
<1> USE DEF PageInv
<1>1. ASSUME NEW r \in Runs, run[r].upload # 0
      PROVE  /\ run'[r].upload = run[r].upload
             /\ upload'[run[r].upload].live =>
                  /\ upload[run[r].upload].live
                  /\ Seen(run[r].upload) \subseteq Seen(run[r].upload)'
  <2>1. run[r] \in RunType
    BY DEF TypeOK
  <2>2. run[r].upload \in Uploads /\ upload[run[r].upload].owner # NoFile
    BY <1>1, <2>1 DEF RunType, Owners, UploadsHoldOneFile
  <2> QED BY <2>2, RunFacts DEF UploadsKept
<1>2. AckedReachedServer'
  <2> SUFFICES ASSUME NEW r \in Runs, run'[r].at \in {"chunks", "finalize"},
                      upload'[run'[r].upload].live
               PROVE  run'[r].acked \subseteq Seen(run[r].upload)'
    BY DEF AckedReachedServer, Seen
  <2>1. run'[r] = run[r] /\ run[r].at \in {"chunks", "finalize"} /\ run[r].upload # 0
    BY RunFacts DEF Ended, Places, Begun
  <2>2. upload[run[r].upload].live
    BY <1>1, <2>1
  <2>3. run[r].acked \subseteq Seen(run[r].upload)
    BY <2>1, <2>2 DEF Acked, AckedReachedServer, Seen
  <2> QED BY <1>1, <2>1, <2>3
<1>3. ASSUME NEW w \in Slots, worker'[w].at \in {"ok", "write"}, upload'[Up(w)'].live
      PROVE  worker'[w].chunk \in Seen(Up(w))'
  <2>1. Up(w)' = Up(w)
    BY SlotRuns, RunFacts DEF Up
  <2>2. CASE worker[w].at \in {"ok", "write"} /\ worker'[w].chunk = worker[w].chunk
    <3>1. run[w[1]].upload # 0
      BY <2>2 DEF Places, Working, Fetching
    <3>2. upload[Up(w)].live /\ Seen(Up(w)) \subseteq Seen(Up(w))'
      BY <1>1, <1>3, <2>1, <3>1, SlotRuns DEF Up
    <3> QED BY <2>1, <2>2, <3>2 DEF Acked
  <2> QED BY <1>3, <2>1, <2>2 DEF AnswersKept
<1> QED BY <1>2, <1>3 DEF Acked

LEMMA FitsKept ==
  ASSUME PageInv, RunsKept, UploadsKept, WorkersKept
  PROVE  Fits'
<1>1. \A u \in Uploads : Stays(upload'[u])
  BY DEF UploadsKept
<1>2. \A r \in Runs : run'[r].todo \subseteq Extent(run'[r].file)
  BY RunFacts DEF PageInv, Fits
<1>3. ASSUME NEW w \in Slots, worker'[w].at \in Working
      PROVE  worker'[w].chunk \in Extent(run'[w[1]].file)
  <2>1. worker[w].at \in Working /\ worker'[w].chunk = worker[w].chunk
    BY <1>3 DEF WorkersKept, Dead, Off, Working, Fetching, Sleeping
  <2> QED BY <2>1, SlotRuns, RunFacts DEF PageInv, Fits
<1> QED BY <1>1, <1>2, <1>3 DEF Fits, Stays

\* Together.
LEMMA Kept ==
  ASSUME PageInv, RunsKept, WorkersKept, UploadsKept, AnswersKept, PageKept, CountKept
  PROVE  PageInv'
<1>1. TypeOK'
  BY DEF TypeOK, RunsKept, WorkersKept, UploadsKept, PageKept, CountKept
<1> QED BY <1>1, PlacesKept, SendersKept, OwnersKept, AckedKept, FitsKept DEF PageInv

-----------------------------------------------------------------------------
LEMMA InitInv == Init => PageInv
<1> SUFFICES ASSUME Init PROVE PageInv
  OBVIOUS
<1>1. TypeOK
  <2>1. page \in PageType
    BY DEF Init, PageType, NoRecord
  <2>2. run \in [Runs -> RunType] /\ worker \in [Slots -> WorkerType]
    BY DEF Init, RunType, WorkerType, Off
  <2>3. upload \in [Uploads -> UploadType]
    <3>1. [owner |-> NoFile, live |-> FALSE, received |-> {}, inFlight |-> {},
           failed |-> {}, job |-> "none"] \in UploadType
      BY DEF UploadType
    <3> QED BY <3>1 DEF Init
  <2>4. count \in [starts : 0..MaxStarts, faults : 0..MaxFaults] /\ page.ctrl = 0
    <3>1. 0 \in 0..MaxStarts /\ 0 \in 0..MaxFaults
      OBVIOUS
    <3> QED BY <3>1 DEF Init
  <2> QED BY <2>1, <2>2, <2>3, <2>4 DEF TypeOK
<1>2. Places
  BY FS_EmptySet DEF Init, Places, Begun, Live, Working, Fetching, Sleeping, Off
<1>3. Owners /\ Acked /\ OneSender
  BY DEF Init, Owners, UploadsHoldOneFile, Acked, AckedReachedServer, OneSender, Off, NoRecord
<1>4. Fits
  BY DEF Init, Fits, Stays, Off, Working, Fetching, Sleeping
<1> QED BY <1>1, <1>2, <1>3, <1>4 DEF PageInv

-----------------------------------------------------------------------------
(* What is kept by what a step leaves alone.                               *)

LEMMA Unchanged ==
  ASSUME PageInv
  PROVE  /\ UNCHANGED run => RunsKept
         /\ UNCHANGED <<run, worker>> => WorkersKept
         /\ UNCHANGED upload => UploadsKept
         /\ UNCHANGED <<run, worker, upload>> => AnswersKept
         /\ UNCHANGED <<page, run>> => PageKept
         /\ UNCHANGED count => CountKept
<1> USE DEF PageInv, TypeOK
<1>1. UNCHANGED run => RunsKept
  BY DEF RunsKept
<1>2. UNCHANGED <<run, worker>> => WorkersKept
  BY SlotRuns DEF WorkersKept
<1>3. UNCHANGED upload => UploadsKept
  BY DEF UploadsKept, Seen, Fits
<1>4. UNCHANGED <<run, worker, upload>> => AnswersKept
  BY DEF AnswersKept
<1>5. UNCHANGED <<page, run>> => PageKept
  BY DEF PageKept
<1>6. UNCHANGED count => CountKept
  BY DEF CountKept
<1> QED BY <1>1, <1>2, <1>3, <1>4, <1>5, <1>6

LEMMA FaultKept == ASSUME PageInv, Fault PROVE CountKept
<1>1. count \in [starts : 0..MaxStarts, faults : 0..MaxFaults]
  BY DEF PageInv, TypeOK
<1> QED BY <1>1 DEF Fault, CountKept

\* One worker goes on with its chunk.
LEMMA WorkerGoesOn ==
  ASSUME PageInv, UNCHANGED run, NEW w \in Slots, NEW x \in WorkerType,
         worker' = [worker EXCEPT ![w] = x],
         worker[w].at \in Working, x.at \in Working, x.chunk = worker[w].chunk
  PROVE  RunsKept /\ WorkersKept
<1>1. worker \in [Slots -> WorkerType]
  BY DEF PageInv, TypeOK
<1>2. worker' \in [Slots -> WorkerType] /\ worker'[w] = x
      /\ \A v \in Slots \ {w} : worker'[v] = worker[v]
  BY <1>1
<1>3. RunsKept
  BY Unchanged
<1>4. WorkersKept
  BY <1>2, SlotRuns DEF WorkersKept
<1> QED BY <1>3, <1>4

\* Exceptions.
LEMMA AbortsKeep ==
  ASSUME PageInv, NEW c, NEW dead \in SUBSET Slots, NEW ended \in SUBSET Runs, Aborts(c, dead, ended),
         \A w \in dead : run[w[1]].at # "chunks" \/ w[1] \in ended
  PROVE  /\ RunsKept /\ WorkersKept
         /\ (c = 0 /\ ended = {}) => UNCHANGED run
         /\ \A w \in Slots : worker'[w] = worker[w] \/ worker'[w] = Dead
<1> USE DEF PageInv, TypeOK
<1>1. \A r \in Runs : run'[r] = run[r]
        \/ (run[r].at = "chunks" /\ run'[r] = [run[r] EXCEPT !.at = "failed"])
  BY DEF Aborts
<1>2. RunsKept
  <2>1. \A r \in Runs : [run[r] EXCEPT !.at = "failed"] \in RunType
    <3> SUFFICES ASSUME NEW r \in Runs, NEW x \in RunType
                 PROVE  [x EXCEPT !.at = "failed"] \in RunType
      OBVIOUS
    <3> QED BY DEF RunType, Ended
  <2>2. run' \in [Runs -> RunType]
    BY <1>1, <2>1 DEF Aborts
  <2> QED BY <1>1, <2>2 DEF RunsKept, Ended, Live
<1>3. \A w \in Slots : worker'[w] = worker[w] \/ (worker'[w] = Dead /\ (w \in dead \/ Hit(w, c)))
  BY DEF Aborts
<1>4. \A w \in dead : run'[w[1]].at # "chunks"
  <2> SUFFICES ASSUME NEW w \in dead, run'[w[1]].at = "chunks" PROVE FALSE
    OBVIOUS
  <2>1. w[1] \in Runs
    BY SlotRuns
  <2>2. run[w[1]].at = "chunks" /\ w[1] \in ended
    BY <2>1, <1>1
  <2>3. run'[w[1]] = [run[w[1]] EXCEPT !.at = "failed"]
    BY <2>1, <2>2 DEF Aborts
  <2>4. run[w[1]] \in RunType
    BY <2>1
  <2> QED BY <2>3, <2>4 DEF RunType
<1>5. ASSUME NEW w \in Slots, Hit(w, c) PROVE run'[w[1]].at # "chunks"
  <2>1. w[1] \in Runs /\ run[w[1]] \in RunType
    BY SlotRuns
  <2>2. CASE run[w[1]].at = "chunks"
    <3>1. run'[w[1]] = [run[w[1]] EXCEPT !.at = "failed"]
      BY <1>5, <2>1, <2>2 DEF Aborts
    <3> QED BY <2>1, <3>1 DEF RunType
  <2> QED BY <1>1, <2>1, <2>2
<1>6. WorkersKept
  <2>1. Dead \in WorkerType /\ Dead.at \notin Working
    BY DEF Dead, Off, WorkerType, Working, Fetching, Sleeping
  <2>2. worker' \in [Slots -> WorkerType]
    BY <1>3, <2>1 DEF Aborts
  <2>3. \A w \in Slots : worker'[w].at \in Working =>
          run'[w[1]] = run[w[1]] \/ run'[w[1]].at = "failed"
    <3> SUFFICES ASSUME NEW w \in Slots
                 PROVE  run'[w[1]] = run[w[1]] \/ run'[w[1]].at = "failed"
      OBVIOUS
    <3>1. w[1] \in Runs /\ run[w[1]] \in RunType
      BY SlotRuns
    <3> QED BY <1>1, <3>1, ZenonT(40) DEF RunType
  <2> QED BY <1>3, <1>4, <1>5, <2>2, <2>3 DEF WorkersKept
<1>7. (c = 0 /\ ended = {}) => UNCHANGED run
  BY DEF Aborts, Hit
<1> QED BY <1>2, <1>3, <1>6, <1>7

\* No worker comes to have an answer.
NoAnswers == \A w \in Slots : worker'[w] = worker[w] \/ worker'[w].at \notin {"ok", "write"}

LEMMA NoAnswersKeep == ASSUME NoAnswers PROVE AnswersKept
  BY DEF NoAnswers, AnswersKept

LEMMA PageTypes ==
  ASSUME PageInv
  PROVE  /\ page \in PageType /\ page.ctrl \in {0} \cup Runs /\ Aborted(page.ctrl) \in SUBSET Runs
         /\ page.ctrl # 0 => page.ctrl \notin page.aborted /\ run[page.ctrl].at = "chunks"
  BY DEF PageInv, TypeOK, PageType, Aborted

LEMMA ThrowsKeep ==
  ASSUME PageInv, NEW w \in Slots, NEW shared \in PageType,
         shared.ctrl = page.ctrl, shared.aborted = page.aborted,
         \/ shared.saved = page.saved
         \/ /\ run[w[1]].upload # 0
            /\ shared.saved = [upload |-> run[w[1]].upload, file |-> run[w[1]].file],
         Throws(w, shared)
  PROVE  RunsKept /\ WorkersKept /\ PageKept /\ NoAnswers
<1>0. w[1] \in Runs
  BY SlotRuns
<1>1. CASE /\ run[w[1]].at = "chunks"
           /\ Aborts(page.ctrl, {w}, {w[1]})
           /\ page' = [shared EXCEPT !.ctrl = 0, !.aborted = Aborted(page.ctrl),
                                     !.enabled = TRUE]
  <2>1. RunsKept /\ WorkersKept /\ \A v \in Slots : worker'[v] = worker[v] \/ worker'[v] = Dead
    BY <1>0, <1>1, AbortsKeep
  <2>2. page' \in PageType /\ page'.ctrl = 0 /\ page'.saved = shared.saved
    <3>1. Aborted(page.ctrl) \in SUBSET Runs
      BY PageTypes
    <3> QED BY <1>1, <3>1 DEF PageType
  <2> QED BY <1>0, <2>1, <2>2 DEF PageKept, NoAnswers, Dead, Off
<1>2. CASE run[w[1]].at # "chunks" /\ Aborts(0, {w}, {}) /\ page' = shared
  <2>1. RunsKept /\ WorkersKept /\ UNCHANGED run
        /\ \A v \in Slots : worker'[v] = worker[v] \/ worker'[v] = Dead
    BY <1>2, AbortsKeep
  <2> QED BY <1>0, <1>2, <2>1, PageTypes DEF PageKept, NoAnswers, Dead, Off
<1> QED BY <1>1, <1>2 DEF Throws

LEMMA CaughtKeeps ==
  ASSUME PageInv, NEW w \in Slots, worker[w].at \in Working, Caught(w)
  PROVE  RunsKept /\ WorkersKept /\ PageKept /\ NoAnswers
<1>1. CASE Throws(w, page)
  BY <1>1, ThrowsKeep, PageTypes
<1>2. CASE /\ ~GivesUp(w) /\ UNCHANGED <<page, run>>
           /\ worker' = [worker EXCEPT ![w].at = "backoff", ![w].try = @ + 1]
  <2> DEFINE x == [worker[w] EXCEPT !.at = "backoff", !.try = @ + 1]
  <2>1. worker \in [Slots -> WorkerType] /\ worker[w] \in WorkerType
    BY DEF PageInv, TypeOK
  <2>2. x \in WorkerType /\ x.at = "backoff" /\ x.chunk = worker[w].chunk
    <3>1. worker[w].try + 1 \in 0..(MaxRetries - 1)
      BY <1>2, <2>1 DEF GivesUp, WorkerType
    <3> QED BY <2>1, <3>1 DEF WorkerType, Working, Sleeping
  <2>3. worker' = [worker EXCEPT ![w] = x]
    BY <1>2, <2>1
  <2> HIDE DEF x
  <2>4. RunsKept /\ WorkersKept
    BY <1>2, <2>2, <2>3, WorkerGoesOn DEF Working, Sleeping
  <2>5. NoAnswers
    BY <2>1, <2>2, <2>3 DEF NoAnswers
  <2> QED BY <1>2, <2>4, <2>5, Unchanged
<1> QED BY <1>1, <1>2 DEF Caught

\* Of one upload the server receives, writes or fails to write a chunk.
LEMMA UploadGrows ==
  ASSUME PageInv, NEW u \in Uploads, NEW x \in UploadType, upload' = [upload EXCEPT ![u] = x],
         x.owner = upload[u].owner, Stays(x),
         x.live => upload[u].live /\ Seen(u) \subseteq x.received \cup x.inFlight \cup x.failed
  PROVE  UploadsKept /\ upload'[u] = x
<1>1. upload \in [Uploads -> UploadType]
  BY DEF PageInv, TypeOK
<1>2. upload' \in [Uploads -> UploadType] /\ upload'[u] = x
      /\ \A v \in Uploads \ {u} : upload'[v] = upload[v]
  BY <1>1
<1> QED BY <1>2 DEF UploadsKept, Seen, PageInv, Fits

LEMMA WorkerFacts ==
  ASSUME PageInv, NEW w \in Slots, worker[w].at \in Working
  PROVE  /\ w[1] \in Runs /\ run[w[1]] \in RunType /\ run[w[1]].at \in {"chunks", "failed"}
         /\ Up(w) \in Uploads /\ Up(w) # 0 /\ upload[Up(w)] \in UploadType
         /\ run[w[1]].file \in Files /\ upload[Up(w)].owner = run[w[1]].file
         /\ worker[w].chunk \in Extent(upload[Up(w)].owner)
         /\ worker \in [Slots -> WorkerType] /\ worker[w] \in WorkerType
<1>1. w[1] \in Runs /\ run[w[1]] \in RunType
  BY SlotRuns DEF PageInv, TypeOK
<1>2. Up(w) \in Uploads /\ Up(w) # 0
  BY <1>1 DEF PageInv, Places, RunType, Up, Uploads
<1> QED BY <1>1, <1>2 DEF PageInv, TypeOK, Places, Owners, UploadsHoldOneFile, Fits, Up

-----------------------------------------------------------------------------
(* The steps of a worker.                                                  *)

LEMMA ArrivesInv == ASSUME PageInv, NEW w \in Slots, Arrives(w) PROVE PageInv'
<1> DEFINE u == Up(w)  c == worker[w].chunk
<1>1. worker[w].at \in Working
  BY DEF Arrives, Working, Fetching
<1>2. RunsKept /\ PageKept /\ CountKept
  BY Unchanged DEF Arrives
<1>3. ASSUME NEW s \in {"ok", "write"}, worker' = [worker EXCEPT ![w].at = s]
      PROVE  /\ WorkersKept
             /\ \A v \in Slots : worker'[v] = worker[v] \/ (v = w /\ worker'[v].chunk = c)
  <2> DEFINE x == [worker[w] EXCEPT !.at = s]
  <2>1. x \in WorkerType /\ x.at = s /\ x.chunk = c
    BY <1>1, WorkerFacts DEF WorkerType, Working, Fetching
  <2>2. worker' = [worker EXCEPT ![w] = x]
    BY <1>1, <1>3, WorkerFacts
  <2> HIDE DEF x
  <2>3. WorkersKept
    BY <1>1, <2>1, <2>2, WorkerGoesOn DEF Arrives, Working, Fetching
  <2> QED BY <1>1, <2>1, <2>2, <2>3, WorkerFacts
<1>4. CASE Acknowledges(u, c) /\ worker' = [worker EXCEPT ![w].at = "ok"] /\ UNCHANGED upload
  <2>1. c \in Seen(Up(w))'
    BY <1>4 DEF Acknowledges, Seen, Up, Arrives
  <2>2. AnswersKept
    BY <1>1, <1>3, <1>4, <2>1, WorkerFacts DEF AnswersKept, Up
  <2> QED BY <1>2, <1>3, <1>4, <2>2, Unchanged, Kept
<1>5. CASE /\ worker' = [worker EXCEPT ![w].at = "write"]
           /\ upload' = [upload EXCEPT ![u].inFlight = @ \cup {c}]
  <2> DEFINE x == [upload[u] EXCEPT !.inFlight = @ \cup {c}]
  <2>0. /\ c \in Nat /\ upload[u] \in UploadType /\ c \in Extent(upload[u].owner)
        /\ Stays(upload[u])
    BY <1>1, WorkerFacts DEF WorkerType, PageInv, Fits
  <2>1. x \in UploadType /\ x.owner = upload[u].owner /\ x.live = upload[u].live /\ Stays(x)
        /\ Seen(u) \cup {c} = x.received \cup x.inFlight \cup x.failed
    <3> HIDE DEF u, c
    <3> QED BY <2>0 DEF UploadType, Seen, Stays
  <2>2. upload' = [upload EXCEPT ![u] = x]
    BY <1>5
  <2> HIDE DEF x, u, c
  <2>3. UploadsKept /\ upload'[u] = x
    <3>1. u \in Uploads
      BY <1>1, WorkerFacts DEF u
    <3> QED BY <2>1, <2>2, <3>1, UploadGrows
  <2>4. c \in Seen(Up(w))'
    <3>1. Up(w)' = u
      BY DEF Arrives, Up, u
    <3> QED BY <2>1, <2>3, <3>1 DEF Seen
  <2>5. AnswersKept
    BY <1>1, <1>3, <1>5, <2>3, <2>4, WorkerFacts DEF AnswersKept, Up, u, Arrives
  <2> QED BY <1>2, <1>3, <1>5, <2>3, <2>5, Kept
<1> QED BY <1>4, <1>5 DEF Arrives

LEMMA NotFoundInv == ASSUME PageInv, NEW w \in Slots, NotFound(w) PROVE PageInv'
<1>1. worker[w].at \in Working
  BY DEF NotFound, Working, Fetching
<1> QED BY <1>1, CaughtKeeps, NoAnswersKeep, Unchanged, Kept DEF NotFound

LEMMA BreaksInv == ASSUME PageInv, NEW w \in Slots, Breaks(w) PROVE PageInv'
<1>1. worker[w].at \in Working
  BY DEF Breaks, Working
<1> QED BY <1>1, CaughtKeeps, NoAnswersKeep, Unchanged, FaultKept, Kept DEF Breaks

\* A chunk that was being written is stored, or not.
LEMMA StoredKeeps ==
  ASSUME PageInv, NEW u \in Uploads, NEW c \in Extent(upload[u].owner), c \in Seen(u), Stored(u, c)
  PROVE  UploadsKept
<1> DEFINE x == [upload[u] EXCEPT !.received = @ \cup {c}, !.inFlight = @ \ {c}]
<1>1. upload[u] \in UploadType
  BY DEF PageInv, TypeOK
<1>2. x \in UploadType /\ x.owner = upload[u].owner /\ x.live = upload[u].live /\ Stays(x)
      /\ Seen(u) \cup {c} = x.received \cup x.inFlight \cup x.failed
  BY <1>1 DEF UploadType, Seen, Stays, PageInv, Fits
<1>3. upload' = [upload EXCEPT ![u] = x]
  BY DEF Stored
<1> HIDE DEF x
<1> QED BY <1>2, <1>3, UploadGrows

LEMMA StoresInv == ASSUME PageInv, NEW w \in Slots, Stores(w) PROVE PageInv'
<1>1. worker[w].at \in Working /\ worker[w].at = "write"
  BY DEF Stores, Working, Fetching
<1>2. RunsKept /\ PageKept /\ CountKept
  BY Unchanged DEF Stores
<1> DEFINE x == [worker[w] EXCEPT !.at = "ok"]
<1>3. x \in WorkerType /\ x.at = "ok" /\ x.chunk = worker[w].chunk
  BY <1>1, WorkerFacts DEF WorkerType, Working, Fetching
<1>4. worker' = [worker EXCEPT ![w] = x]
  BY <1>1, WorkerFacts DEF Stores
<1> HIDE DEF x
<1>5. WorkersKept
  BY <1>1, <1>3, <1>4, WorkerGoesOn DEF Stores, Working, Fetching
<1>6. UploadsKept
  <2>1. worker[w].chunk \in Seen(Up(w))
    BY <1>1 DEF PageInv, Acked, Stores
  <2> QED BY <1>1, <2>1, WorkerFacts, StoredKeeps DEF Stores
<1>7. AnswersKept
  BY <1>1, <1>3, <1>4, WorkerFacts DEF AnswersKept
<1> QED BY <1>2, <1>5, <1>6, <1>7, Kept

LEMMA LateStoreInv ==
  ASSUME PageInv, NEW u \in Uploads, NEW c \in upload[u].inFlight, LateStore(u, c)
  PROVE  PageInv'
<1>1. UploadsKept
  BY StoredKeeps DEF LateStore, Seen, PageInv, Fits, Stays
<1>2. AnswersKept
  BY DEF LateStore, AnswersKept
<1> QED BY <1>1, <1>2, Unchanged, Kept DEF LateStore

LEMMA WriteFailsInv == ASSUME PageInv, NEW w \in Slots, WriteFails(w) PROVE PageInv'
<1> DEFINE u == Up(w)  c == worker[w].chunk
<1>1. worker[w].at \in Working
  BY DEF WriteFails, Working, Fetching
<1>2. UploadsKept
  <2> DEFINE x == [upload[u] EXCEPT !.inFlight = @ \ {c}, !.failed = @ \cup {c}]
  <2>0. c \in Nat /\ upload[u] \in UploadType /\ Stays(upload[u])
    BY <1>1, WorkerFacts DEF WorkerType, PageInv, Fits
  <2>1. x \in UploadType /\ x.owner = upload[u].owner /\ x.live = upload[u].live /\ Stays(x)
        /\ Seen(u) \subseteq x.received \cup x.inFlight \cup x.failed
    <3> HIDE DEF u, c
    <3> QED BY <2>0 DEF UploadType, Seen, Stays
  <2>2. upload' = [upload EXCEPT ![u] = x]
    BY DEF WriteFails
  <2> HIDE DEF x, u, c
  <2> QED BY <1>1, <2>1, <2>2, WorkerFacts, UploadGrows DEF u
<1> QED BY <1>1, <1>2, CaughtKeeps, NoAnswersKeep, FaultKept, Kept DEF WriteFails

LEMMA SleepInv ==
  ASSUME PageInv, NEW w \in Slots, Limited(w) \/ Wakes(w)
  PROVE  PageInv'
<1>1. worker[w].at \in Working
  BY DEF Limited, Wakes, Working, Fetching
<1>2. ASSUME NEW s \in {"limited", "send"}, worker' = [worker EXCEPT ![w].at = s],
             UNCHANGED <<page, run>>
      PROVE  RunsKept /\ WorkersKept /\ PageKept /\ NoAnswers
  <2> DEFINE x == [worker[w] EXCEPT !.at = s]
  <2>1. x \in WorkerType /\ x.at = s /\ x.chunk = worker[w].chunk
    BY <1>1, WorkerFacts DEF WorkerType, Working, Fetching, Sleeping
  <2>2. worker' = [worker EXCEPT ![w] = x]
    BY <1>1, <1>2, WorkerFacts
  <2> HIDE DEF x
  <2>3. RunsKept /\ WorkersKept
    BY <1>1, <1>2, <2>1, <2>2, WorkerGoesOn DEF Working, Fetching, Sleeping
  <2> QED BY <1>1, <1>2, <2>1, <2>2, <2>3, Unchanged, WorkerFacts DEF NoAnswers
<1>3. CASE Limited(w)
  BY <1>2, <1>3, NoAnswersKeep, Unchanged, FaultKept, Kept DEF Limited
<1>4. CASE Wakes(w)
  <2>1. RunsKept /\ WorkersKept /\ PageKept /\ NoAnswers
    <3>1. CASE Throws(w, page)
      BY <3>1, ThrowsKeep, PageTypes
    <3> QED BY <1>2, <1>4, <3>1 DEF Wakes
  <2> QED BY <1>4, <2>1, NoAnswersKeep, Unchanged, Kept DEF Wakes
<1> QED BY <1>3, <1>4

\* A worker has its answer and takes another chunk, or there is none left.
LEMMA WorkerAdvances ==
  ASSUME PageInv, NEW w \in Slots, worker[w].at = "ok", NEW x \in WorkerType,
         worker' = [worker EXCEPT ![w] = x], x.at \in {"send", "off"},
         run' \in [Runs -> RunType], \A q \in Runs \ {w[1]} : run'[q] = run[q],
         run'[w[1]].upload = run[w[1]].upload, run'[w[1]].file = run[w[1]].file,
         run'[w[1]].acked = run[w[1]].acked \cup {worker[w].chunk},
         x.at = "send" => /\ run'[w[1]].at = run[w[1]].at /\ x.chunk \in run[w[1]].todo
                          /\ run'[w[1]].todo = run[w[1]].todo \ {x.chunk},
         x.at = "off" => run[w[1]].todo = {} /\ run'[w[1]].todo = {},
         \/ run'[w[1]].at = run[w[1]].at
         \/ /\ run'[w[1]].at = "finalize" /\ run[w[1]].at = "chunks"
            /\ \A v \in Slots : v[1] = w[1] => v = w \/ worker[v].at = "off",
         PageKept, UNCHANGED <<upload, count>>
  PROVE  PageInv'
<1> DEFINE r == w[1]  c == worker[w].chunk
<1>1. /\ worker[w].at \in Working /\ r \in Runs /\ run[r] \in RunType /\ Up(w) = run[r].upload
      /\ run[r].upload # 0 /\ run[r].at \in {"chunks", "failed"} /\ run[r].file \in Files
      /\ \A v \in Slots \ {w} : worker'[v] = worker[v]
      /\ worker'[w] = x /\ worker' \in [Slots -> WorkerType]
  BY WorkerFacts DEF Working, Fetching, Up
<1>2. TypeOK'
  BY DEF PageInv, TypeOK, PageKept
<1>3. Places'
  <2>1. \A q \in Runs : q > count'.starts => run'[q].at = "idle"
    BY <1>1 DEF PageInv, Places
  <2>2. ASSUME NEW q \in Runs PROVE /\ run'[q].at \in Begun => run'[q].upload # 0
                                    /\ run'[q].at \in Live => run'[q].file \in Files
                                    /\ IsFiniteSet(run'[q].todo)
    <3>1. CASE q = r
      <4>0. IsFiniteSet(run[r].todo)
        BY <1>1 DEF PageInv, Places
      <4>1. IsFiniteSet(run'[r].todo)
        BY <4>0, FS_RemoveElement, FS_EmptySet
      <4> QED BY <1>1, <3>1, <4>1
    <3>2. CASE q # r
      BY <3>2 DEF PageInv, Places
    <3> QED BY <3>1, <3>2
  <2>3. ASSUME NEW v \in Slots, worker'[v].at \in Working
        PROVE  run'[v[1]].at \in {"chunks", "failed"} /\ run'[v[1]].upload # 0
    <3>1. worker[v].at \in Working
      BY <1>1, <2>3
    <3>2. v[1] \in Runs /\ run[v[1]].at \in {"chunks", "failed"} /\ run[v[1]].upload # 0
      BY <3>1, SlotRuns DEF PageInv, Places
    <3>3. CASE v[1] # r
      BY <3>2, <3>3
    <3>4. CASE v[1] = r /\ run'[r].at = run[r].at
      BY <3>2, <3>4
    <3>5. CASE v[1] = r /\ run'[r].at # run[r].at
      <4>1. v = w \/ worker[v].at = "off"
        BY <3>5
      <4>2. x.at # "send"
        BY <3>5
      <4> QED BY <1>1, <2>3, <3>1, <4>1, <4>2 DEF Working, Fetching, Sleeping
    <3> QED BY <3>3, <3>4, <3>5
  <2> QED BY <2>1, <2>2, <2>3 DEF Places
<1>4. Owners'
  <2>2. page'.saved # NoRecord => upload'[page'.saved.upload].owner = page'.saved.file
    <3>1. \A q \in Runs : run[q].upload # 0 => upload[run[q].upload].owner = run[q].file
      BY DEF PageInv, Owners, UploadsHoldOneFile
    <3>2. page.saved # NoRecord => upload[page.saved.upload].owner = page.saved.file
      BY DEF PageInv, Owners, UploadsHoldOneFile
    <3>3. CASE page'.saved \in {page.saved, NoRecord}
      BY <3>2, <3>3
    <3>4. CASE \E q \in Runs : /\ run[q].upload # 0
                        /\ page'.saved = [upload |-> run[q].upload, file |-> run[q].file]
      BY <3>1, <3>4
    <3> QED BY <3>3, <3>4 DEF PageKept
  <2>3. ASSUME NEW q \in Runs, run'[q].upload # 0
        PROVE  upload'[run'[q].upload].owner = run'[q].file /\ run'[q].file \in Files
    <3>1. run'[q].upload = run[q].upload /\ run'[q].file = run[q].file
      BY <1>1
    <3> QED BY <2>3, <3>1 DEF PageInv, Owners, UploadsHoldOneFile
  <2> QED BY <2>2, <2>3 DEF Owners, UploadsHoldOneFile
<1>5. Acked'
  <2>1. \A q \in Runs : run'[q].upload = run[q].upload
    BY <1>1
  <2>2. AckedReachedServer'
    <3> SUFFICES ASSUME NEW q \in Runs, run'[q].at \in {"chunks", "finalize"},
                        upload[run[q].upload].live
                 PROVE  run'[q].acked \subseteq Seen(run[q].upload)
      BY <2>1 DEF AckedReachedServer, Seen
    <3>1. CASE q = r
      <4>1. run[r].at \in {"chunks", "finalize"}
        BY <3>1
      <4>2. run[r].acked \subseteq Seen(run[r].upload)
        BY <1>1, <3>1, <4>1 DEF PageInv, Acked, AckedReachedServer, Seen
      <4>3. c \in Seen(run[r].upload)
        BY <1>1, <3>1 DEF PageInv, Acked
      <4> QED BY <3>1, <4>2, <4>3
    <3>2. CASE q # r
      BY <3>2 DEF PageInv, Acked, AckedReachedServer, Seen
    <3> QED BY <3>1, <3>2
  <2>3. ASSUME NEW v \in Slots, worker'[v].at \in {"ok", "write"}, upload[Up(v)].live
        PROVE  worker'[v].chunk \in Seen(Up(v))
    BY <1>1, <2>3 DEF PageInv, Acked
  <2>4. \A v \in Slots : Up(v)' = Up(v)
    BY <2>1, SlotRuns DEF Up
  <2>5. \A v \in Slots : Seen(Up(v))' = Seen(Up(v))
    BY <2>4 DEF Seen
  <2> QED BY <2>2, <2>3, <2>4, <2>5 DEF Acked
<1>6. OneSender'
  <2> SUFFICES ASSUME NEW q \in Runs, run'[q].at = "chunks" PROVE Apart(q)'
    BY DEF OneSender, Apart, Held, Mine
  <2>1. run[q].at = "chunks"
    BY <1>1
  <2>2. Apart(q)
    BY <2>1, SendersApart DEF PageInv
  <2>3. CASE q # r
    <3>1. run'[q] = run[q] /\ \A v \in Slots : v[1] = q => worker'[v] = worker[v]
      BY <1>1, <2>3
    <3>2. Mine(q)' = Mine(q) /\ \A v \in Mine(q) : worker'[v] = worker[v]
      BY <3>1 DEF Mine
    <3>3. Held(q)' = Held(q)
      BY <3>2 DEF Held
    <3> QED BY <2>2, <3>1, <3>2, <3>3 DEF Apart
  <2>4. CASE q = r
    <3>1. w \in Mine(r) /\ c \in Held(r) /\ \A v \in Mine(r) \ {w} : worker[v].chunk # c
      BY <1>1, <2>2, <2>4 DEF Mine, Held, Apart
    <3>2. \A v \in Mine(r) \ {w} : worker'[v] = worker[v] /\ worker[v].chunk \in Held(r)
      BY <1>1 DEF Mine, Held
    <3>3. CASE x.at = "send"
      <4>1. Mine(r)' = Mine(r)
        BY <1>1, <3>3 DEF Mine, Working, Fetching
      <4>2. Held(r)' = (Held(r) \ {c}) \cup {x.chunk}
        BY <1>1, <3>1, <3>2, <4>1 DEF Held
      <4>3. x.chunk \notin Held(r) /\ x.chunk \in run[r].todo
        BY <2>2, <2>4, <3>3 DEF Apart
      <4>4. \A v \in Mine(r) \ {w} : worker'[v].chunk # x.chunk
        BY <3>2, <4>3
      <4>5. \A u, v \in Mine(r)' : worker'[u].chunk = worker'[v].chunk => u = v
        BY <1>1, <2>2, <2>4, <3>2, <4>1, <4>4 DEF Apart
      <4>6. /\ run'[r].acked = run[r].acked \cup {c} /\ run'[r].todo = run[r].todo \ {x.chunk}
            /\ run'[r].file = run[r].file
        BY <3>3
      <4> HIDE DEF r, c
      <4>7. /\ Held(r)' \cap run'[r].todo = {}
            /\ run'[r].acked \cap (run'[r].todo \cup Held(r)') = {}
            /\ run'[r].acked \cup run'[r].todo \cup Held(r)' = Chunks(run'[r].file)
        BY <2>2, <2>4, <3>1, <4>2, <4>3, <4>6 DEF Apart
      <4> QED BY <2>4, <4>5, <4>7 DEF Apart
    <3>4. CASE x.at = "off"
      <4>1. Mine(r)' = Mine(r) \ {w}
        BY <1>1, <3>4 DEF Mine, Working, Fetching, Sleeping
      <4>2. Held(r)' = Held(r) \ {c}
        BY <3>1, <3>2, <4>1 DEF Held
      <4>3. \A u, v \in Mine(r)' : worker'[u].chunk = worker'[v].chunk => u = v
        BY <2>2, <2>4, <3>2, <4>1 DEF Apart
      <4>4. /\ run'[r].acked = run[r].acked \cup {c} /\ run'[r].todo = {} /\ run[r].todo = {}
            /\ run'[r].file = run[r].file
        BY <3>4
      <4> HIDE DEF r, c
      <4>5. /\ Held(r)' \cap run'[r].todo = {}
            /\ run'[r].acked \cap (run'[r].todo \cup Held(r)') = {}
            /\ run'[r].acked \cup run'[r].todo \cup Held(r)' = Chunks(run'[r].file)
        BY <2>2, <2>4, <3>1, <4>2, <4>4 DEF Apart
      <4> QED BY <2>4, <4>3, <4>5 DEF Apart
    <3> QED BY <3>3, <3>4
  <2> QED BY <2>3, <2>4
<1>7. Fits'
  <2>1. \A u \in Uploads : Stays(upload'[u])
    BY DEF PageInv, Fits
  <2>2. \A q \in Runs : run'[q].file = run[q].file /\ run'[q].todo \subseteq run[q].todo
    BY <1>1
  <2>3. \A q \in Runs : run'[q].todo \subseteq Extent(run'[q].file)
    BY <2>2 DEF PageInv, Fits
  <2>4. ASSUME NEW v \in Slots, worker'[v].at \in Working
        PROVE  worker'[v].chunk \in Extent(run'[v[1]].file)
    <3>1. CASE v = w
      <4>1. x.at = "send"
        BY <1>1, <2>4, <3>1 DEF Working, Fetching, Sleeping
      <4> QED BY <1>1, <2>2, <3>1, <4>1 DEF PageInv, Fits
    <3>2. CASE v # w
      BY <1>1, <2>2, <2>4, <3>2, SlotRuns DEF PageInv, Fits
    <3> QED BY <3>1, <3>2
  <2> QED BY <2>1, <2>3, <2>4 DEF Fits, Stays
<1> QED BY <1>2, <1>3, <1>4, <1>5, <1>6, <1>7 DEF PageInv

LEMMA ContinuesInv == ASSUME PageInv, NEW w \in Slots, Continues(w) PROVE PageInv'
<1> DEFINE r == w[1]
           me == run[r]
           c == worker[w].chunk
           next == Nth(me.todo, 1)
           saved == [page EXCEPT !.saved = [upload |-> me.upload, file |-> me.file]]
           last == me.at = "chunks"
                   /\ \A k \in 1..Concurrency : k = w[2] \/ worker[<<r, k>>].at = "off"
<1>0. worker[w].at = "ok" /\ UNCHANGED <<upload, count>>
  BY DEF Continues
<1>1. /\ worker[w].at \in Working /\ r \in Runs /\ me \in RunType /\ me.upload \in Uploads
      /\ me.upload # 0 /\ me.at \in {"chunks", "failed"} /\ me.file \in Files
      /\ worker[w] \in WorkerType /\ run \in [Runs -> RunType]
  BY <1>0, WorkerFacts DEF Working, Fetching, Up, PageInv, TypeOK
<1>2. saved \in PageType /\ saved.ctrl = page.ctrl /\ saved.aborted = page.aborted
      /\ saved.saved = [upload |-> me.upload, file |-> me.file]
  <2>1. [upload |-> me.upload, file |-> me.file] \in [upload : Uploads, file : Files]
    BY <1>1
  <2> HIDE DEF me
  <2> QED BY <2>1, PageTypes DEF PageType
<1>3. ASSUME NEW shared \in {page, saved}, Throws(w, shared) PROVE PageInv'
  <2>1. RunsKept /\ WorkersKept /\ PageKept /\ NoAnswers
    <3> HIDE DEF saved
    <3> QED BY <1>1, <1>2, <1>3, PageTypes, ThrowsKeep
  <2> QED BY <1>0, <2>1, NoAnswersKeep, Unchanged, Kept
<1>4. me.todo \in SUBSET Nat /\ IsFiniteSet(me.todo)
  BY <1>1 DEF RunType, PageInv, Places
<1>5. me.todo # {} => next \in me.todo
  <2> HIDE DEF me
  <2>1. me.todo # {} => 1 \in 1..Cardinality(me.todo)
    BY <1>4, FS_CardinalityType, FS_EmptySet
  <2> QED BY <1>4, <2>1, NthElement
<1>6. ASSUME NEW a \in {me.at, "finalize"}, NEW T \in SUBSET me.todo
      PROVE  [me EXCEPT !.at = a, !.acked = @ \cup {c}, !.todo = T] \in RunType
  <2>1. c \in Nat
    BY <1>1 DEF WorkerType
  <2> HIDE DEF me, c
  <2> QED BY <1>1, <1>4, <2>1 DEF RunType, Live
<1>7. CASE /\ me.todo # {} /\ page.ctrl # 0
           /\ worker' = [worker EXCEPT ![w] = Sending(next, page.ctrl)]
           /\ run' = [[run EXCEPT ![r].acked = @ \cup {c}] EXCEPT ![r].todo = Taken(r, next)]
           /\ page' = saved
  <2> DEFINE y == [me EXCEPT !.at = me.at, !.acked = @ \cup {c}, !.todo = me.todo \ {next}]
             x == Sending(next, page.ctrl)
  <2>1. y \in RunType
    BY <1>6
  <2>2. run'[r] = y /\ (\A q \in Runs \ {r} : run'[q] = run[q])
        /\ run' \in [Runs -> RunType]
    <3>1. run'[r] = y
      BY <1>1, <1>7 DEF Taken, RunType
    <3> HIDE DEF y
    <3> QED BY <1>1, <1>7, <2>1, <3>1
  <2>3. x \in WorkerType /\ x.at = "send" /\ x.chunk = next
    BY <1>4, <1>5, <1>7, PageTypes DEF Sending, WorkerType, Working, Fetching
  <2>4. PageKept
    <3>1. page'.ctrl # 0 => run'[page'.ctrl].at = "chunks"
      BY <1>1, <1>2, <1>7, <2>2, PageTypes DEF RunType
    <3> HIDE DEF saved
    <3> QED BY <1>1, <1>2, <1>7, <3>1, PageTypes DEF PageKept
  <2>5. y.upload = me.upload /\ y.file = me.file /\ y.acked = me.acked \cup {c}
        /\ y.todo = me.todo \ {next} /\ y.at = me.at
    BY <1>1 DEF RunType
  <2> HIDE DEF x, y, next
  <2> QED BY <1>0, <1>1, <1>5, <1>7, <2>2, <2>3, <2>4, <2>5, WorkerAdvances, ZenonT(40) DEF x
<1>8. CASE /\ me.todo = {}
           /\ worker' = [worker EXCEPT ![w] = Off]
           /\ run' = IF last THEN [[run EXCEPT ![r].acked = @ \cup {c}] EXCEPT ![r].at = "finalize"]
                     ELSE [run EXCEPT ![r].acked = @ \cup {c}]
           /\ page' = IF last THEN [saved EXCEPT !.ctrl = 0] ELSE saved
  <2> DEFINE a == IF last THEN "finalize" ELSE me.at
             y == [me EXCEPT !.at = a, !.acked = @ \cup {c}, !.todo = {}]
  <2>1. y \in RunType
    BY <1>6
  <2>2. run'[r] = y /\ (\A q \in Runs \ {r} : run'[q] = run[q])
        /\ run' \in [Runs -> RunType]
    <3>1. run'[r] = y
      BY <1>1, <1>8 DEF RunType
    <3> HIDE DEF y
    <3> QED BY <1>1, <1>8, <2>1, <3>1
  <2>3. Off \in WorkerType /\ Off.at = "off"
    BY DEF Off, WorkerType
  <2>4. y.upload = me.upload /\ y.file = me.file /\ y.acked = me.acked \cup {c}
        /\ y.todo = {} /\ y.at = a
    BY <1>1 DEF RunType
  <2>5. PageKept
    <3>1. page' \in PageType /\ page'.saved = saved.saved
      <4> HIDE DEF saved
      <4> QED BY <1>2, <1>8 DEF PageType
    <3>2. page'.ctrl # 0 => ~last /\ page'.ctrl = page.ctrl /\ page'.aborted = page.aborted
      <4> HIDE DEF saved
      <4> QED BY <1>2, <1>8 DEF PageType
    <3>3. ASSUME page'.ctrl # 0 PROVE page'.ctrl \notin page'.aborted /\ run'[page'.ctrl].at = "chunks"
      <4>1. /\ page'.ctrl = page.ctrl /\ page'.aborted = page.aborted /\ ~last /\ page.ctrl \in Runs
            /\ page.ctrl \notin page.aborted /\ run[page.ctrl].at = "chunks"
        BY <3>2, <3>3, PageTypes
      <4>2. y.at = me.at
        BY <2>4, <4>1
      <4> HIDE DEF y, last, a
      <4> QED BY <2>2, <4>1, <4>2
    <3> HIDE DEF saved
    <3> QED BY <1>1, <1>2, <3>1, <3>3 DEF PageKept
  <2>6. last => \A v \in Slots : v[1] = r => v = w \/ worker[v].at = "off"
    <3> SUFFICES ASSUME last, NEW v \in Slots, v[1] = r PROVE v = w \/ worker[v].at = "off"
      OBVIOUS
    <3> QED BY SlotRuns
  <2>7. \/ y.at = me.at
        \/ /\ y.at = "finalize" /\ me.at = "chunks"
           /\ \A v \in Slots : v[1] = r => v = w \/ worker[v].at = "off"
    BY <2>4, <2>6
  <2> HIDE DEF y, a, last
  <2> QED BY <1>0, <1>1, <1>8, <2>2, <2>3, <2>4, <2>5, <2>7, WorkerAdvances
<1>9. \/ \E shared \in {page, saved} : Throws(w, shared)
      \/ /\ me.todo # {} /\ page.ctrl # 0
         /\ worker' = [worker EXCEPT ![w] = Sending(next, page.ctrl)]
         /\ run' = [[run EXCEPT ![r].acked = @ \cup {c}] EXCEPT ![r].todo = Taken(r, next)]
         /\ page' = saved
      \/ /\ me.todo = {}
         /\ worker' = [worker EXCEPT ![w] = Off]
         /\ run' = IF last THEN [[run EXCEPT ![r].acked = @ \cup {c}] EXCEPT ![r].at = "finalize"]
                   ELSE [run EXCEPT ![r].acked = @ \cup {c}]
         /\ page' = IF last THEN [saved EXCEPT !.ctrl = 0] ELSE saved
  BY DEF Continues
<1> HIDE DEF saved, last, me, next
<1> QED BY <1>3, <1>7, <1>8, <1>9

-----------------------------------------------------------------------------
(* The steps of a run that has no worker at work.                          *)

LEMMA RunMoves ==
  ASSUME PageInv, NEW r \in Runs, NEW y \in RunType, run' = [run EXCEPT ![r] = y],
         run[r].at \notin {"chunks", "failed"}, y.at # "idle", r <= count'.starts,
         y.at \in Begun => y.upload # 0, y.file \in Files, IsFiniteSet(y.todo),
         y.todo \subseteq Extent(y.file),
         y.upload # 0 => upload'[y.upload].owner = y.file,
         (y.at \in {"chunks", "finalize"} /\ upload'[y.upload].live) =>
           LET up == upload'[y.upload] IN y.acked \subseteq up.received \cup up.inFlight \cup up.failed,
         count' \in [starts : 0..MaxStarts, faults : 0..MaxFaults],
         count'.starts >= count.starts,
         worker' \in [Slots -> WorkerType],
         \A w \in Slots : \/ worker'[w] = worker[w]
                          \/ w[1] = r /\ y.at = "chunks" /\ worker'[w].at = "send",
         y.at = "chunks" => Apart(r)',
         UploadsKept, page' \in PageType, page'.saved \in {page.saved, NoRecord},
         \/ page'.ctrl = 0
         \/ page'.ctrl = page.ctrl /\ page'.aborted = page.aborted
         \/ page'.ctrl = r /\ y.at = "chunks" /\ r \notin page'.aborted
  PROVE  PageInv'
<1>1. /\ run'[r] = y /\ run' \in [Runs -> RunType]
      /\ \A q \in Runs \ {r} : run'[q] = run[q]
  BY DEF PageInv, TypeOK
<1>2. \A w \in Slots : worker[w].at \in Working =>
        w[1] \in Runs /\ w[1] # r /\ worker'[w] = worker[w] /\ run'[w[1]] = run[w[1]]
  BY <1>1, SlotRuns DEF PageInv, Places
<1>3. TypeOK'
  <2>1. page'.ctrl # 0 => page'.ctrl \notin page'.aborted /\ run'[page'.ctrl].at = "chunks"
    BY <1>1, PageTypes
  <2> QED BY <1>1, <2>1 DEF TypeOK, UploadsKept
<1>4. Places'
  <2>1. count.starts \in Int /\ count'.starts \in Int /\ \A q \in Runs : q \in Int
    BY DEF PageInv, TypeOK, Runs
  <2>2. ASSUME NEW q \in Runs, q > count'.starts PROVE run'[q].at = "idle"
    <3>1. q # r /\ q > count.starts
      BY <2>1, <2>2
    <3> QED BY <1>1, <3>1 DEF PageInv, Places
  <2>3. ASSUME NEW q \in Runs PROVE /\ run'[q].at \in Begun => run'[q].upload # 0
                                    /\ run'[q].at \in Live => run'[q].file \in Files
                                    /\ IsFiniteSet(run'[q].todo)
    BY <1>1 DEF PageInv, Places
  <2>4. ASSUME NEW w \in Slots, worker'[w].at \in Working
        PROVE  run'[w[1]].at \in {"chunks", "failed"} /\ run'[w[1]].upload # 0
    <3>1. CASE worker[w].at \in Working
      BY <1>2, <3>1 DEF PageInv, Places
    <3>2. CASE worker[w].at \notin Working
      BY <1>1, <2>3, <2>4, <3>2 DEF Begun
    <3> QED BY <3>1, <3>2
  <2> QED BY <2>2, <2>3, <2>4 DEF Places
<1>5. \A u \in Uploads : upload[u].owner # NoFile =>
        /\ upload'[u].owner = upload[u].owner
        /\ upload'[u].live => upload[u].live /\ Seen(u) \subseteq Seen(u)'
  BY DEF UploadsKept
<1>6. \A q \in Runs : run[q].upload # 0 =>
        /\ run[q].upload \in Uploads /\ run[q].file \in Files
        /\ upload[run[q].upload].owner = run[q].file
  <2>1. \A q \in Runs : run[q] \in RunType
    BY DEF PageInv, TypeOK
  <2> QED BY <2>1 DEF PageInv, Owners, UploadsHoldOneFile, RunType
<1>7. Owners'
  <2>1. page'.saved # NoRecord => upload'[page'.saved.upload].owner = page'.saved.file
    <3>1. page.saved = NoRecord \/ (page.saved.upload \in Uploads /\ page.saved.file \in Files)
      BY PageTypes DEF PageType
    <3> QED BY <1>5, <3>1 DEF PageInv, Owners, UploadsHoldOneFile
  <2>2. ASSUME NEW q \in Runs, run'[q].upload # 0
        PROVE  upload'[run'[q].upload].owner = run'[q].file /\ run'[q].file \in Files
    <3>1. CASE q = r
      BY <1>1, <2>2, <3>1
    <3>2. CASE q # r
      BY <1>1, <1>5, <1>6, <2>2, <3>2
    <3> QED BY <3>1, <3>2
  <2> QED BY <2>1, <2>2 DEF Owners, UploadsHoldOneFile
<1>8. Acked'
  <2>1. ASSUME NEW q \in Runs, q # r, run[q].upload # 0
        PROVE  upload'[run[q].upload].live =>
                 /\ upload[run[q].upload].live
                 /\ Seen(run[q].upload) \subseteq Seen(run[q].upload)'
    BY <1>5, <1>6, <2>1
  <2>2. AckedReachedServer'
    <3> SUFFICES ASSUME NEW q \in Runs, run'[q].at \in {"chunks", "finalize"},
                        upload'[run'[q].upload].live
                 PROVE  LET u == run'[q].upload
                        IN  run'[q].acked \subseteq upload'[u].received \cup upload'[u].inFlight
                                                      \cup upload'[u].failed
      BY DEF AckedReachedServer
    <3>1. CASE q = r
      BY <1>1, <3>1 DEF Seen
    <3>2. CASE q # r
      <4>1. run'[q] = run[q] /\ run[q].upload # 0
        BY <1>1, <3>2 DEF PageInv, Places, Begun
      <4>2. run[q].acked \subseteq Seen(run[q].upload)
        BY <2>1, <3>2, <4>1 DEF PageInv, Acked, AckedReachedServer, Seen
      <4>3. Seen(run[q].upload) \subseteq Seen(run[q].upload)'
        BY <2>1, <3>2, <4>1
      <4> QED BY <4>1, <4>2, <4>3 DEF Seen
    <3> QED BY <3>1, <3>2
  <2>3. ASSUME NEW w \in Slots, worker'[w].at \in {"ok", "write"}, upload'[Up(w)'].live
        PROVE  worker'[w].chunk \in Seen(Up(w))'
    <3>1. worker'[w] = worker[w] /\ worker[w].at \in Working
      BY <2>3 DEF Working, Fetching
    <3>2. w[1] \in Runs /\ w[1] # r /\ run'[w[1]] = run[w[1]] /\ run[w[1]].upload # 0
      BY <1>2, <3>1 DEF PageInv, Places
    <3>3. Up(w)' = Up(w)
      BY <3>2 DEF Up
    <3>4. worker[w].chunk \in Seen(Up(w)) /\ Seen(Up(w)) \subseteq Seen(Up(w))'
      BY <2>1, <2>3, <3>1, <3>2, <3>3 DEF PageInv, Acked, Up
    <3> QED BY <3>1, <3>4
  <2> QED BY <2>2, <2>3 DEF Acked
<1>9. OneSender'
  <2> SUFFICES ASSUME NEW q \in Runs, run'[q].at = "chunks" PROVE Apart(q)'
    BY DEF OneSender, Apart, Held, Mine
  <2>0. CASE q = r
    BY <1>1, <2>0
  <2> SUFFICES ASSUME q # r PROVE Apart(q)'
    BY <2>0
  <2>1. run'[q] = run[q] /\ \A w \in Slots : w[1] = q => worker'[w] = worker[w]
    BY <1>1
  <2>2. Mine(q)' = Mine(q) /\ \A w \in Mine(q) : worker'[w] = worker[w]
    BY <2>1 DEF Mine
  <2>3. Held(q)' = Held(q)
    BY <2>2 DEF Held
  <2>4. Apart(q)
    BY <2>1, SendersApart DEF PageInv
  <2> QED BY <2>1, <2>2, <2>3, <2>4 DEF Apart
<1>10. Fits'
  <2>1. \A u \in Uploads : Stays(upload'[u])
    BY DEF UploadsKept
  <2>2. \A q \in Runs : run'[q].todo \subseteq Extent(run'[q].file)
    BY <1>1 DEF PageInv, Fits
  <2>3. ASSUME NEW w \in Slots, worker'[w].at \in Working
        PROVE  worker'[w].chunk \in Extent(run'[w[1]].file)
    <3>1. CASE worker[w].at \in Working
      BY <1>2, <3>1 DEF PageInv, Fits
    <3>2. CASE worker[w].at \notin Working
      <4>1. w[1] = r /\ y.at = "chunks"
        BY <2>3, <3>2
      <4>2. worker'[w].chunk \in Held(r)'
        BY <2>3, <4>1 DEF Held, Mine
      <4>3. Held(r)' \subseteq Chunks(run'[r].file)
        BY <4>1 DEF Apart
      <4> QED BY <1>1, <4>1, <4>2, <4>3 DEF Extent
    <3> QED BY <3>1, <3>2
  <2> QED BY <2>1, <2>2, <2>3 DEF Fits, Stays
<1> QED BY <1>3, <1>4, <1>7, <1>8, <1>9, <1>10 DEF PageInv

\* What a step may do to the counts, without starting a run.
LEMMA CountTypes ==
  ASSUME PageInv, CountKept
  PROVE  /\ count' \in [starts : 0..MaxStarts, faults : 0..MaxFaults] /\ count'.starts >= count.starts
         /\ \A r \in Runs : run[r].at # "idle" => r <= count'.starts
<1>1. count.starts \in Nat /\ \A r \in Runs : r \in Nat
  BY DEF PageInv, TypeOK, Runs
<1> QED BY <1>1 DEF CountKept, PageInv, Places

\* The head of uploadSingleFile.
LEMMA BeginFileInv ==
  ASSUME PageInv, NEW r \in Runs, NEW i \in Nat, BeginFile(r, i), page.list[i] \in Files,
         run[r].at \notin {"chunks", "failed"}, r <= count'.starts,
         count' \in [starts : 0..MaxStarts, faults : 0..MaxFaults],
         count'.starts >= count.starts,
         page' \in PageType, page'.saved = page.saved, page'.ctrl = page.ctrl,
         page'.aborted = page.aborted, UNCHANGED <<worker, upload>>
  PROVE  PageInv'
<1> DEFINE f == page.list[i]
           y == [at |-> IF SameFile(f) THEN "status" ELSE "init", index |-> i, file |-> f,
                 upload |-> IF SameFile(f) THEN page.saved.upload ELSE 0,
                 acked |-> {}, todo |-> {}]
<1>1. run' = [run EXCEPT ![r] = y]
  BY DEF BeginFile
<1>2. SameFile(f) => /\ page.saved.upload \in Uploads /\ page.saved.upload # 0
                     /\ upload[page.saved.upload].owner = f
  BY PageTypes DEF SameFile, PageType, NoRecord, PageInv, Owners, UploadsHoldOneFile
<1>3. /\ y \in RunType /\ y.at \in {"status", "init"} /\ (y.at \in Begun => y.upload # 0)
      /\ y.file \in Files /\ IsFiniteSet(y.todo) /\ y.todo \subseteq Extent(y.file)
      /\ y.upload # 0 => upload[y.upload].owner = y.file
  <2> HIDE DEF f
  <2> QED BY <1>2, FS_EmptySet DEF RunType, Live, Begun, f
<1>4. UploadsKept /\ worker' \in [Slots -> WorkerType]
  BY Unchanged DEF PageInv, TypeOK
<1> HIDE DEF y
<1> QED BY <1>1, <1>3, <1>4, RunMoves

\* The files of a list.
LEMMA ListFiles == ASSUME PageInv, NEW i \in 1..Len(page.list) PROVE page.list[i] \in Files
  BY DEF PageInv, TypeOK, PageType

LEMMA StartInv == ASSUME PageInv, Start PROVE PageInv'
<1>1. count.starts \in 0..MaxStarts /\ count.faults \in 0..MaxFaults
      /\ count = [starts |-> count.starts, faults |-> count.faults]
  BY DEF PageInv, TypeOK
<1> DEFINE r == count.starts + 1
<1>2. /\ r \in Runs /\ run[r].at = "idle" /\ r <= count'.starts /\ count'.starts >= count.starts
      /\ count' \in [starts : 0..MaxStarts, faults : 0..MaxFaults]
  BY <1>1 DEF Start, Runs, PageInv, Places
<1>3. page.list[1] \in Files
  <2>1. page.list \in Seq(Files) /\ page.list # <<>>
    BY DEF Start, PageInv, TypeOK, PageType
  <2> QED BY <2>1
<1>4. page' \in PageType /\ page'.saved = page.saved /\ page'.ctrl = page.ctrl
      /\ page'.aborted = page.aborted
  BY PageTypes DEF Start, PageType
<1> QED BY <1>2, <1>3, <1>4, BeginFileInv DEF Start

LEMMA FailsKeep ==
  ASSUME PageInv, NEW r \in Runs, run[r].at \in Live \ {"chunks"}, Fails(r)
  PROVE  RunsKept /\ PageKept
<1>1. run[r] \in RunType /\ run \in [Runs -> RunType]
  BY DEF PageInv, TypeOK
<1> DEFINE y == [run[r] EXCEPT !.at = "failed"]
<1>2. y \in RunType
  BY <1>1 DEF RunType, Ended
<1>3. run' = [run EXCEPT ![r] = y]
  BY <1>1 DEF Fails
<1>4. RunsKept
  <2>1. run'[r] = y /\ run' \in [Runs -> RunType] /\ \A q \in Runs \ {r} : run'[q] = run[q]
    <3> HIDE DEF y
    <3> QED BY <1>1, <1>2, <1>3
  <2> QED BY <2>1 DEF RunsKept, Ended
<1>5. page' \in PageType /\ page'.saved = page.saved /\ page'.ctrl = page.ctrl
      /\ page'.aborted = page.aborted
  BY PageTypes DEF Fails, PageType
<1>6. page'.ctrl # 0 => run'[page'.ctrl].at = "chunks"
  <2> HIDE DEF y
  <2> QED BY <1>1, <1>3, <1>5, PageTypes
<1> QED BY <1>4, <1>5, <1>6, PageTypes DEF PageKept

\* A run that ends, by a failed request.
LEMMA RunFailsInv ==
  ASSUME PageInv, NEW r \in Runs, OpenFails(r) \/ FinalizeFails(r)
  PROVE  PageInv'
<1>1. run[r].at \in Live \ {"chunks"} /\ Fails(r) /\ UNCHANGED <<worker, upload>>
  BY DEF OpenFails, FinalizeFails, Live
<1>2. CountKept
  BY FaultKept, Unchanged DEF OpenFails, FinalizeFails
<1>3. RunsKept /\ PageKept
  BY <1>1, FailsKeep
<1>4. WorkersKept /\ AnswersKept
  <2>1. NoAnswers
    BY <1>1 DEF NoAnswers
  <2>2. WorkersKept
    <3>1. \A w \in Slots : worker[w].at \in Working => run'[w[1]] = run[w[1]]
      BY <1>1, WorkerFacts DEF Fails, Live, RunType, PageInv, TypeOK, Places
    <3> QED BY <1>1, <3>1 DEF WorkersKept, PageInv, TypeOK
  <2> QED BY <2>1, <2>2, NoAnswersKeep
<1> QED BY <1>1, <1>2, <1>3, <1>4, Unchanged, Kept

\* A run whose file, chunks and server stay goes on to another request.
LEMMA CannotResumeInv ==
  ASSUME PageInv, NEW r \in Runs, CannotResume(r)
  PROVE  PageInv'
<1> DEFINE y == [run[r] EXCEPT !.at = "init", !.upload = 0]
<1>1. run[r] \in RunType /\ run \in [Runs -> RunType] /\ run[r].at = "status"
  BY DEF PageInv, TypeOK, CannotResume
<1>2. y \in RunType /\ y.at = "init" /\ y.upload = 0 /\ y.file = run[r].file
      /\ y.todo = run[r].todo
  BY <1>1 DEF RunType, Live
<1>3. run' = [run EXCEPT ![r] = y]
  BY <1>1 DEF CannotResume
<1>4. /\ run[r].file \in Files /\ IsFiniteSet(run[r].todo)
      /\ run[r].todo \subseteq Extent(run[r].file)
  BY <1>1 DEF PageInv, Places, Live, Fits
<1>5. page' \in PageType /\ page'.saved = NoRecord /\ page'.ctrl = page.ctrl
      /\ page'.aborted = page.aborted
  BY PageTypes DEF CannotResume, PageType
<1>6. CountKept
  BY FaultKept, Unchanged DEF CannotResume
<1>7. UploadsKept /\ worker' = worker /\ worker' \in [Slots -> WorkerType]
  BY Unchanged DEF PageInv, TypeOK, CannotResume
<1>8. "init" \notin Begun
  BY DEF Begun
<1> HIDE DEF y
<1> QED BY <1>1, <1>2, <1>3, <1>4, <1>5, <1>6, <1>7, <1>8, CountTypes, RunMoves

\* The new upload is nobody's yet.
LEMMA OpenInv ==
  ASSUME PageInv, NEW r \in Runs, NEW u \in Uploads, Open(r, u)
  PROVE  PageInv'
<1> DEFINE y == [run[r] EXCEPT !.at = "opened", !.upload = u]
           x == [upload[u] EXCEPT !.owner = run[r].file, !.live = TRUE]
<1>1. run[r] \in RunType /\ run \in [Runs -> RunType] /\ run[r].at = "init"
      /\ upload[u] \in UploadType /\ upload \in [Uploads -> UploadType]
  BY DEF PageInv, TypeOK, Open
<1>2. y \in RunType /\ y.at = "opened" /\ y.upload = u /\ y.file = run[r].file
      /\ y.todo = run[r].todo
  BY <1>1 DEF RunType, Live
<1>3. run' = [run EXCEPT ![r] = y] /\ upload' = [upload EXCEPT ![u] = x]
  BY <1>1 DEF Open
<1>4. /\ run[r].file \in Files /\ IsFiniteSet(run[r].todo)
      /\ run[r].todo \subseteq Extent(run[r].file)
  BY <1>1 DEF PageInv, Places, Live, Fits
<1>5. x \in UploadType /\ x.owner = run[r].file /\ Stays(x)
  <2>1. upload[u].received = {} /\ upload[u].inFlight = {}
    BY DEF Open, PageInv, Fits, Stays, Extent
  <2> QED BY <1>1, <1>4, <2>1 DEF UploadType, Stays
<1>6. UploadsKept /\ upload'[u].owner = run[r].file
  <2>1. upload'[u] = x /\ upload' \in [Uploads -> UploadType]
        /\ \A v \in Uploads \ {u} : upload'[v] = upload[v]
    <3> HIDE DEF x, y
    <3> QED BY <1>1, <1>3, <1>5
  <2>2. upload[u].owner = NoFile
    BY DEF Open
  <2> HIDE DEF x
  <2> QED BY <1>5, <2>1, <2>2 DEF UploadsKept, Seen, PageInv, Fits
<1>7. CountKept /\ worker' = worker /\ worker' \in [Slots -> WorkerType] /\ page' = page
  BY Unchanged DEF PageInv, TypeOK, Open
<1>8. u # 0
  BY DEF Uploads
<1> HIDE DEF y, x
<1> QED BY <1>1, <1>2, <1>3, <1>4, <1>6, <1>7, <1>8, CountTypes, PageTypes, RunMoves

\* The upload's entry goes, and what was known of it no longer matters.
LEMMA RemovedKeeps ==
  ASSUME PageInv, NEW u \in Uploads, NEW j \in {"none", "active"} \cup JobOver,
         upload' = [upload EXCEPT ![u] = Removed(u, j)]
  PROVE  UploadsKept
<1>1. Removed(u, j) \in UploadType /\ Removed(u, j).owner = upload[u].owner
      /\ ~Removed(u, j).live /\ Stays(Removed(u, j))
  <2>1. upload[u] \in UploadType
    BY DEF PageInv, TypeOK
  <2> QED BY <2>1 DEF Removed, UploadType, Stays
<1> QED BY <1>1, UploadGrows

LEMMA QueuesInv ==
  ASSUME PageInv, NEW r \in Runs, Queues(r)
  PROVE  PageInv'
<1> DEFINE y == [run[r] EXCEPT !.at = "queued"]
<1>1. run[r] \in RunType /\ run \in [Runs -> RunType] /\ run[r].at = "finalize"
  BY DEF PageInv, TypeOK, Queues
<1>2. y \in RunType /\ y.at = "queued" /\ y.upload = run[r].upload /\ y.file = run[r].file
      /\ y.todo = run[r].todo
  BY <1>1 DEF RunType, Live
<1>3. run' = [run EXCEPT ![r] = y]
  BY <1>1 DEF Queues
<1>4. /\ run[r].file \in Files /\ IsFiniteSet(run[r].todo) /\ run[r].upload # 0
      /\ run[r].todo \subseteq Extent(run[r].file)
      /\ run[r].upload \in Uploads /\ upload[run[r].upload].owner = run[r].file
  BY <1>1 DEF PageInv, Places, Live, Begun, Owners, UploadsHoldOneFile, RunType, Fits
<1>5. UploadsKept
  BY <1>4, RemovedKeeps DEF Queues
<1>6. upload'[run[r].upload].owner = run[r].file
  BY <1>4, <1>5 DEF UploadsKept
<1>7. CountKept /\ worker' = worker /\ worker' \in [Slots -> WorkerType] /\ page' = page
  BY Unchanged DEF PageInv, TypeOK, Queues
<1> HIDE DEF y
<1> QED BY <1>1, <1>2, <1>3, <1>4, <1>5, <1>6, <1>7, CountTypes, PageTypes, RunMoves

LEMMA QueuedInv ==
  ASSUME PageInv, NEW r \in Runs, Queued(r)
  PROVE  PageInv'
<1> DEFINE y == [run[r] EXCEPT !.at = "poll"]
<1>1. run[r] \in RunType /\ run \in [Runs -> RunType] /\ run[r].at = "queued"
  BY DEF PageInv, TypeOK, Queued
<1>2. y \in RunType /\ y.at = "poll" /\ y.upload = run[r].upload /\ y.file = run[r].file
      /\ y.todo = run[r].todo
  BY <1>1 DEF RunType, Live
<1>3. run' = [run EXCEPT ![r] = y]
  BY <1>1 DEF Queued
<1>4. /\ run[r].file \in Files /\ IsFiniteSet(run[r].todo) /\ run[r].upload # 0
      /\ run[r].todo \subseteq Extent(run[r].file)
      /\ run[r].upload \in Uploads /\ upload[run[r].upload].owner = run[r].file
  BY <1>1 DEF PageInv, Places, Live, Begun, Owners, UploadsHoldOneFile, RunType, Fits
<1>5. page' \in PageType /\ page'.saved = NoRecord /\ page'.ctrl = page.ctrl
      /\ page'.aborted = page.aborted
  BY <1>4, PageTypes DEF Queued, PageType
<1>6. UploadsKept /\ CountKept /\ UNCHANGED <<worker, upload>>
      /\ worker' \in [Slots -> WorkerType]
  BY Unchanged DEF PageInv, TypeOK, Queued
<1> HIDE DEF y
<1> QED BY <1>1, <1>2, <1>3, <1>4, <1>5, <1>6, CountTypes, RunMoves

LEMMA PollInv ==
  ASSUME PageInv, NEW r \in Runs, Poll(r)
  PROVE  PageInv'
<1> DEFINE i == run[r].index + 1
<1>1. run[r] \in RunType /\ run \in [Runs -> RunType] /\ run[r].at = "poll" /\ i \in Nat
      /\ page.list \in Seq(Files) /\ i > 0
  <2>1. run[r] \in RunType /\ run \in [Runs -> RunType] /\ run[r].at = "poll"
    BY DEF PageInv, TypeOK, Poll
  <2>2. run[r].index \in Nat
    BY <2>1 DEF RunType
  <2>3. page.list \in {<<>>} \cup Selections
    BY PageTypes DEF PageType
  <2>4. Selections \subseteq Seq(Files) /\ <<>> \in Seq(Files)
    OBVIOUS
  <2>5. page.list \in Seq(Files)
    <3>1. CASE page.list = <<>>
      BY <2>4, <3>1
    <3>2. CASE page.list \in Selections
      BY <2>4, <3>2
    <3> QED BY <2>3, <3>1, <3>2
  <2>6. i \in Nat /\ i > 0
    BY <2>2
  <2> HIDE DEF i
  <2> QED BY <2>1, <2>5, <2>6
<1>2. CountKept /\ UNCHANGED <<worker, upload, count>> /\ worker' \in [Slots -> WorkerType]
      /\ UploadsKept
  BY Unchanged DEF PageInv, TypeOK, Poll
<1>3. CASE /\ i <= Len(page.list) /\ BeginFile(r, i)
           /\ page' = [page EXCEPT !.jobId = 0]
  <2>1. page.list[i] \in Files
    BY <1>1, <1>3
  <2>2. page' \in PageType /\ page'.saved = page.saved /\ page'.ctrl = page.ctrl
        /\ page'.aborted = page.aborted
    BY <1>3, PageTypes DEF PageType
  <2> HIDE DEF i
  <2> QED BY <1>1, <1>2, <1>3, <2>1, <2>2, CountTypes, BeginFileInv
<1>4. ASSUME NEW s \in {"failed", "done"}, run' = [run EXCEPT ![r].at = s], page' \in PageType,
             page'.saved = page.saved, page'.ctrl = page.ctrl, page'.aborted = page.aborted
      PROVE  PageInv'
  <2> DEFINE y == [run[r] EXCEPT !.at = s]
  <2>1. y \in RunType /\ y.at = s /\ y.upload = run[r].upload /\ y.file = run[r].file
        /\ y.todo = run[r].todo
    BY <1>1 DEF RunType, Ended
  <2>2. run' = [run EXCEPT ![r] = y]
    BY <1>1, <1>4
  <2>3. /\ run[r].file \in Files /\ IsFiniteSet(run[r].todo) /\ run[r].upload # 0
        /\ run[r].todo \subseteq Extent(run[r].file)
        /\ upload[run[r].upload].owner = run[r].file
    BY <1>1 DEF PageInv, Places, Live, Begun, Owners, UploadsHoldOneFile, Fits
  <2>4. s \notin Begun /\ s \notin {"idle", "chunks", "finalize"}
    BY DEF Begun
  <2> HIDE DEF y, i
  <2> QED BY <1>1, <1>2, <1>4, <2>1, <2>2, <2>3, <2>4, CountTypes, RunMoves, ZenonT(40)
<1>5. CASE page' = [page EXCEPT !.jobId = 0, !.enabled = TRUE]
           /\ run' = [run EXCEPT ![r].at = "failed"]
  <2>1. page' \in PageType /\ page'.saved = page.saved /\ page'.ctrl = page.ctrl
        /\ page'.aborted = page.aborted
    BY <1>5, PageTypes DEF PageType
  <2> QED BY <1>4, <1>5, <2>1
<1>6. CASE page' = [page EXCEPT !.jobId = 0, !.list = <<>>, !.enabled = TRUE]
           /\ run' = [run EXCEPT ![r].at = "done"]
  <2>1. page' \in PageType /\ page'.saved = page.saved /\ page'.ctrl = page.ctrl
        /\ page'.aborted = page.aborted
    BY <1>6, PageTypes DEF PageType
  <2> QED BY <1>4, <1>6, <2>1
<1> QED BY <1>3, <1>5, <1>6 DEF Poll

\* The chunks that are missing are dealt out: the first of them to the workers, one
\* each, and the others are left.
LEMMA PrepareInv ==
  ASSUME PageInv, NEW r \in Runs, run[r].at \in {"status", "opened"},
         NEW got \in SUBSET Chunks(run[r].file), got \subseteq Seen(run[r].upload),
         Prepare(r, got), UNCHANGED <<upload, count>>
  PROVE  PageInv'
<1> DEFINE all == Chunks(run[r].file)
           missing == all \ got
           n == IF Cardinality(missing) < Concurrency THEN Cardinality(missing)
                ELSE Concurrency
           first == {Nth(missing, k) : k \in 1..n}
           y(state) == [run[r] EXCEPT !.at = state, !.acked = got, !.todo = missing \ first]
<1>1. /\ run[r] \in RunType /\ run \in [Runs -> RunType] /\ run[r].file \in Files
      /\ run[r].upload # 0 /\ run[r].upload \in Uploads
      /\ upload[run[r].upload].owner = run[r].file
      /\ worker \in [Slots -> WorkerType]
      /\ \A w \in Slots : worker[w].at \in Working => w[1] # r
  BY DEF PageInv, TypeOK, Places, Live, Begun, Owners, UploadsHoldOneFile, RunType
<1>2. all \in SUBSET Nat /\ missing \in SUBSET Nat /\ IsFiniteSet(missing)
      /\ Cardinality(missing) \in Nat
  BY <1>1, ChunksFinite, FS_Difference, FS_CardinalityType
<1>3. n \in Nat /\ n <= Cardinality(missing) /\ n <= Concurrency
  <2> HIDE DEF missing
  <2> QED BY <1>2
<1>4. /\ \A k \in 1..n : Nth(missing, k) \in missing
      /\ \A j, k \in 1..n : Nth(missing, j) = Nth(missing, k) => j = k
  <2>1. \A k \in 1..n : k \in 1..Cardinality(missing)
    <3> HIDE DEF missing, n
    <3> QED BY <1>2, <1>3
  <2> HIDE DEF missing, n
  <2> QED BY <1>2, <2>1, NthElement, NthDistinct
<1>5. first \subseteq missing /\ IsFiniteSet(missing \ first) /\ missing \ first \in SUBSET Nat
  <2>1. first \subseteq missing
    BY <1>4
  <2> HIDE DEF missing, first
  <2> QED BY <1>2, <2>1, FS_Difference
<1>6. ASSUME NEW s \in {"failed", "finalize", "chunks"}
      PROVE  /\ y(s) \in RunType /\ y(s).at = s /\ y(s).upload = run[r].upload
             /\ y(s).file = run[r].file /\ y(s).acked = got /\ y(s).todo = missing \ first
             /\ run' = [run EXCEPT ![r].at = s, ![r].acked = got, ![r].todo = missing \ first]
                  => run' = [run EXCEPT ![r] = y(s)]
  <2> DEFINE rest == missing \ first
  <2>1. got \in SUBSET Nat /\ rest \in SUBSET Nat
    BY <1>2, <1>5
  <2> HIDE DEF rest, missing, first
  <2>2. [run[r] EXCEPT !.at = s, !.acked = got, !.todo = rest] \in RunType
    BY <1>1, <2>1 DEF RunType, Live, Ended
  <2>3. LET z == [run[r] EXCEPT !.at = s, !.acked = got, !.todo = rest]
        IN  /\ z.at = s /\ z.upload = run[r].upload /\ z.file = run[r].file /\ z.acked = got
            /\ z.todo = rest
            /\ [run EXCEPT ![r].at = s, ![r].acked = got, ![r].todo = rest] = [run EXCEPT ![r] = z]
    BY <1>1 DEF RunType
  <2> QED BY <2>2, <2>3 DEF rest
<1>7. UploadsKept /\ CountKept
  BY Unchanged
<1>8. ASSUME NEW s \in {"failed", "finalize", "chunks"}, run' = [run EXCEPT ![r] = y(s)],
             worker' \in [Slots -> WorkerType],
             \A w \in Slots : \/ worker'[w] = worker[w]
                              \/ w[1] = r /\ s = "chunks" /\ worker'[w].at = "send",
             s = "chunks" => Apart(r)',
             page' \in PageType, page'.saved = page.saved,
             \/ page'.ctrl = 0
             \/ page'.ctrl = r /\ s = "chunks" /\ r \notin page'.aborted
      PROVE  PageInv'
  <2> DEFINE z == y(s)
  <2>1. /\ z \in RunType /\ z.at = s /\ z.upload = run[r].upload /\ z.file = run[r].file
        /\ z.acked = got /\ IsFiniteSet(z.todo) /\ run' = [run EXCEPT ![r] = z]
    BY <1>5, <1>6, <1>8
  <2>2. LET up == upload'[z.upload] IN z.acked \subseteq up.received \cup up.inFlight \cup up.failed
    BY <2>1 DEF Seen
  <2>3. z.todo \subseteq Extent(z.file)
    <3>1. z.todo \subseteq Chunks(z.file)
      BY <1>6
    <3> QED BY <1>1, <2>1, <3>1 DEF Extent
  <2>4. /\ r <= count'.starts /\ count'.starts >= count.starts
        /\ count' \in [starts : 0..MaxStarts, faults : 0..MaxFaults]
    BY <1>7, CountTypes
  <2>5. upload'[z.upload].owner = z.file /\ (z.at \in Begun => z.upload # 0) /\ z.file \in Files
        /\ z.at # "idle"
    BY <1>1, <2>1
  <2>6. z.at = "chunks" => Apart(r)'
    BY <1>8, <2>1
  <2>7. page'.saved \in {page.saved, NoRecord}
    BY <1>8
  <2>8. run[r].at \notin {"chunks", "failed"}
    OBVIOUS
  <2>9. page'.ctrl = 0 \/ (page'.ctrl = r /\ z.at = "chunks" /\ r \notin page'.aborted)
    BY <1>8, <2>1
  <2>10. \A w \in Slots : \/ worker'[w] = worker[w]
                          \/ w[1] = r /\ z.at = "chunks" /\ worker'[w].at = "send"
    BY <1>8, <2>1
  <2> HIDE DEF z, y, missing, first, n, all
  <2>11. UploadsKept /\ worker' \in [Slots -> WorkerType] /\ page' \in PageType
    BY <1>7, <1>8
  <2> QED BY ONLY PageInv, r \in Runs, <2>1, <2>2, <2>3, <2>4, <2>5, <2>6, <2>7, <2>8, <2>9, <2>10,
                  <2>11, RunMoves
<1>9. ASSUME NEW s \in {"failed", "finalize"},
             run' = [run EXCEPT ![r].at = s, ![r].acked = got, ![r].todo = missing \ first],
             \/ page' = [page EXCEPT !.ctrl = 0, !.enabled = TRUE] 
             \/ page' = [page EXCEPT !.ctrl = 0],
             UNCHANGED worker
      PROVE  PageInv'
  <2>1. page' \in PageType /\ page'.saved = page.saved /\ page'.ctrl = 0
    BY <1>9, PageTypes DEF PageType
  <2>2. run' = [run EXCEPT ![r] = y(s)]
    <3> HIDE DEF y, missing, first, n
    <3> QED BY <1>6, <1>9
  <2> HIDE DEF y, missing, first, n
  <2> QED BY <1>1, <1>8, <1>9, <2>1, <2>2
<1>10. CASE /\ missing # {}
            /\ run' = [run EXCEPT ![r].at = "chunks", ![r].acked = got,
                                  ![r].todo = missing \ first]
            /\ page' = [page EXCEPT !.ctrl = r, !.aborted = @ \ {r}]
            /\ worker' = [w \in Slots |-> IF w[1] = r /\ w[2] <= n
                             THEN Sending(Nth(missing, w[2]), r) ELSE worker[w]]
  <2>1. page' \in PageType /\ page'.saved = page.saved /\ page'.ctrl = r
        /\ r \notin page'.aborted
    BY <1>10, PageTypes DEF PageType
  <2>2. run' = [run EXCEPT ![r] = y("chunks")]
    BY <1>6, <1>10
  <2>3. \A w \in Slots : w[1] = r /\ w[2] <= n => w[2] \in 1..n
    <3> SUFFICES ASSUME NEW w \in Slots, w[2] <= n PROVE w[2] \in 1..n
      OBVIOUS
    <3>1. w[2] \in 1..Concurrency
      BY SlotRuns
    <3> HIDE DEF n
    <3> QED BY <1>3, <3>1
  <2>4. ASSUME NEW w \in Slots
        PROVE  /\ worker'[w] \in WorkerType
               /\ \/ w[1] = r /\ w[2] \in 1..n /\ worker'[w] = Sending(Nth(missing, w[2]), r)
                  \/ ~ (w[1] = r /\ w[2] <= n) /\ worker'[w] = worker[w]
    <3>1. CASE w[1] = r /\ w[2] <= n
      <4>1. Nth(missing, w[2]) \in Nat
        BY <1>2, <1>4, <2>3, <3>1
      <4>2. 0 \in 0..(MaxRetries - 1)
        OBVIOUS
      <4>3. worker'[w] = Sending(Nth(missing, w[2]), r)
        BY <1>10, <3>1
      <4> HIDE DEF missing, n
      <4> QED BY <2>3, <3>1, <4>1, <4>2, <4>3 DEF Sending, WorkerType, Working, Fetching
    <3>2. CASE ~ (w[1] = r /\ w[2] <= n)
      BY <1>1, <1>10, <3>2
    <3> QED BY <3>1, <3>2
  <2>5. worker' \in [Slots -> WorkerType]
        /\ \A w \in Slots : \/ worker'[w] = worker[w] \/ (w[1] = r /\ worker'[w].at = "send")
    <3> HIDE DEF missing, n
    <3> QED BY <1>10, <2>4 DEF Sending
  <2>6. \A w \in Slots : w \in Mine(r)' <=> w[1] = r /\ w[2] \in 1..n
    <3>1. \A w \in Slots : w[2] \in 1..n => w[2] <= n
      <4> HIDE DEF missing, n
      <4> QED BY <1>3
    <3>2. \A w \in Slots : worker'[w].at \in Working /\ w[1] = r => w[2] \in 1..n
      <4> HIDE DEF missing, n
      <4> QED BY <1>1, <2>4
    <3>3. \A w \in Slots : w[1] = r /\ w[2] \in 1..n => worker'[w].at \in Working
      <4> SUFFICES ASSUME NEW w \in Slots, w[1] = r, w[2] \in 1..n PROVE worker'[w].at \in Working
        OBVIOUS
      <4> HIDE DEF missing, n
      <4>1. worker'[w] = Sending(Nth(missing, w[2]), r)
        BY <2>4, <3>1
      <4> QED BY <4>1 DEF Sending, Working, Fetching
    <3> HIDE DEF missing, n
    <3> QED BY <3>2, <3>3 DEF Mine
  <2>7. \A w \in Mine(r)' : w \in Slots /\ w[1] = r /\ w[2] \in 1..n
                            /\ worker'[w].chunk = Nth(missing, w[2])
    <3>1. \A w \in Mine(r)' : w \in Slots
      BY DEF Mine
    <3>2. \A w \in Slots : w[2] \in 1..n => w[2] <= n
      <4> HIDE DEF missing, n
      <4> QED BY <1>3
    <3>3. \A w \in Mine(r)' : w[1] = r /\ w[2] \in 1..n
      BY <2>6, <3>1
    <3>4. \A w \in Slots : w[1] = r /\ w[2] \in 1..n => worker'[w].chunk = Nth(missing, w[2])
      <4> SUFFICES ASSUME NEW w \in Slots, w[1] = r, w[2] \in 1..n
                   PROVE  worker'[w].chunk = Nth(missing, w[2])
        OBVIOUS
      <4> HIDE DEF missing, n
      <4>1. worker'[w] = Sending(Nth(missing, w[2]), r)
        BY <2>4, <3>2
      <4> QED BY <4>1 DEF Sending
    <3> HIDE DEF missing, n
    <3> QED BY <3>1, <3>3, <3>4
  <2>8. \A v, w \in Mine(r)' : worker'[v].chunk = worker'[w].chunk => v = w
    <3> SUFFICES ASSUME NEW v \in Mine(r)', NEW w \in Mine(r)',
                        worker'[v].chunk = worker'[w].chunk
                 PROVE  v = w
      OBVIOUS
    <3>1. v[2] = w[2]
      <4> HIDE DEF missing, n
      <4> QED BY <1>4, <2>7
    <3> QED BY <2>7, <3>1, SlotRuns
  <2>9. Held(r)' = first
    <3>1. ASSUME NEW k \in 1..n PROVE Nth(missing, k) \in Held(r)'
      <4>1. k \in 1..Concurrency
        <5> HIDE DEF n
        <5> QED BY <1>3
      <4>2. <<r, k>> \in Slots /\ <<r, k>>[1] = r /\ <<r, k>>[2] = k
        BY <4>1 DEF Slots
      <4> HIDE DEF missing, n
      <4>3. <<r, k>> \in Mine(r)' /\ worker'[<<r, k>>].chunk = Nth(missing, k)
        BY <2>6, <2>7, <4>2
      <4> QED BY <4>3 DEF Held
    <3>2. ASSUME NEW w \in Mine(r)' PROVE worker'[w].chunk \in first
      BY <2>7
    <3>3. Held(r)' = {worker'[w].chunk : w \in Mine(r)'}
      BY DEF Held
    <3> HIDE DEF missing, n
    <3> QED BY <3>1, <3>2, <3>3
  <2>10. got \subseteq all
    OBVIOUS
  <2>11. Apart(r)'
    <3>1. run'[r].acked = got /\ run'[r].todo = missing \ first /\ run'[r].file = run[r].file
      BY <1>1, <1>6, <2>2
    <3>2. /\ first \cap (missing \ first) = {}
          /\ got \cap ((missing \ first) \cup first) = {}
          /\ got \cup (missing \ first) \cup first = all
      <4> HIDE DEF first, all
      <4> QED BY <1>5, <2>10
    <3> HIDE DEF first, missing
    <3> QED BY <2>8, <2>9, <3>1, <3>2 DEF Apart
  <2> HIDE DEF y, missing, first, n
  <2> QED BY <1>8, <2>1, <2>2, <2>5, <2>11
<1> HIDE DEF y, missing, first, n
<1> QED BY <1>9, <1>10 DEF Prepare, missing, first, n

LEMMA ResumeInv ==
  ASSUME PageInv, NEW r \in Runs, Resume(r)
  PROVE  PageInv'
<1>1. run[r] \in RunType /\ run[r].at = "status"
  BY DEF PageInv, TypeOK, Resume
<1>2. /\ run[r].upload \in Uploads /\ run[r].file \in Files
      /\ upload[run[r].upload].owner = run[r].file
  BY <1>1 DEF PageInv, Places, Begun, Owners, UploadsHoldOneFile, RunType
<1> DEFINE got == upload[run[r].upload].received
<1>3. got \subseteq Chunks(run[r].file) /\ got \subseteq Seen(run[r].upload)
  BY <1>2 DEF PageInv, Fits, Stays, Extent, Seen
<1>4. Prepare(r, got) /\ UNCHANGED <<upload, count>>
  BY DEF Resume
<1> HIDE DEF got
<1> QED BY <1>1, <1>3, <1>4, PrepareInv

LEMMA OpenedInv ==
  ASSUME PageInv, NEW r \in Runs, Opened(r)
  PROVE  PageInv'
<1>1. run[r].at = "opened" /\ Prepare(r, {}) /\ UNCHANGED <<upload, count>>
  BY DEF Opened
<1> QED BY <1>1, PrepareInv

-----------------------------------------------------------------------------
(* The steps of the user, and of others at the server.                     *)

\* Steps that change only the page, and not who may abort whom.
LEMMA PageOnly ==
  ASSUME PageInv, page' \in PageType, page'.ctrl = page.ctrl, page'.aborted = page.aborted,
         page'.saved \in {page.saved, NoRecord}, UNCHANGED <<run, worker, upload, count>>
  PROVE  PageInv'
<1>1. PageKept
  BY PageTypes DEF PageKept
<1> QED BY <1>1, Unchanged, Kept

LEMMA ChoosesInv ==
  ASSUME PageInv, (\E s \in Selections : Select(s)) \/ ChooseCategory \/ DismissResume
  PROVE  PageInv'
<1>1. CASE \E s \in Selections : Select(s)
  <2>1. page' \in PageType /\ page'.ctrl = page.ctrl /\ page'.aborted = page.aborted
        /\ page'.saved = page.saved
    BY <1>1, PageTypes DEF Select, PageType
  <2> QED BY <1>1, <2>1, PageOnly DEF Select
<1>2. CASE ChooseCategory
  <2>1. page' \in PageType /\ page'.ctrl = page.ctrl /\ page'.aborted = page.aborted
        /\ page'.saved = page.saved
    BY <1>2, PageTypes DEF ChooseCategory, PageType
  <2> QED BY <1>2, <2>1, PageOnly DEF ChooseCategory
<1>3. CASE DismissResume
  <2>1. page' \in PageType /\ page'.ctrl = page.ctrl /\ page'.aborted = page.aborted
        /\ page'.saved = NoRecord
    BY <1>3, PageTypes DEF DismissResume, PageType
  <2> QED BY <1>3, <2>1, PageOnly DEF DismissResume
<1> QED BY <1>1, <1>2, <1>3

\* Jobs come and go without a word about chunks.
LEMMA JobKeeps ==
  ASSUME PageInv, NEW u \in Uploads, NEW j \in {"none", "active"} \cup JobOver,
         upload' = [upload EXCEPT ![u].job = j]
  PROVE  UploadsKept
<1> DEFINE x == [upload[u] EXCEPT !.job = j]
<1>1. upload[u] \in UploadType /\ upload \in [Uploads -> UploadType] /\ Stays(upload[u])
  BY DEF PageInv, TypeOK, Fits
<1>2. x \in UploadType /\ x.owner = upload[u].owner /\ Stays(x) /\ x.live = upload[u].live
      /\ Seen(u) = x.received \cup x.inFlight \cup x.failed
  BY <1>1 DEF UploadType, Stays, Seen
<1>3. upload' = [upload EXCEPT ![u] = x]
  BY <1>1
<1> HIDE DEF x
<1> QED BY <1>2, <1>3, UploadGrows

\* Nothing changes but uploads.
LEMMA UploadsOnly ==
  ASSUME PageInv, UploadsKept, CountKept, UNCHANGED <<page, run, worker>>
  PROVE  PageInv'
<1>1. NoAnswers
  BY DEF NoAnswers
<1> QED BY <1>1, NoAnswersKeep, Unchanged, Kept

LEMMA JobInv ==
  ASSUME PageInv, NEW u \in Uploads, JobEnds(u) \/ JobTaken(u) \/ Expires(u)
  PROVE  PageInv'
<1>1. CASE JobEnds(u)
  <2>1. PICK s \in {"complete", "error"} : upload' = [upload EXCEPT ![u].job = s]
    BY <1>1 DEF JobEnds
  <2>2. UploadsKept
    BY <2>1, JobKeeps DEF JobOver
  <2> QED BY <1>1, <2>2, Unchanged, UploadsOnly DEF JobEnds
<1>2. CASE JobTaken(u)
  <2> DEFINE j == IF upload[u].job = "active" THEN "cancelled" ELSE "deleted"
  <2>1. upload' = [upload EXCEPT ![u].job = j]
    BY <1>2 DEF JobTaken
  <2>2. j \in {"none", "active"} \cup JobOver
    BY DEF JobOver
  <2> HIDE DEF j
  <2>3. UploadsKept
    BY <2>1, <2>2, JobKeeps
  <2> QED BY <1>2, <2>3, FaultKept, UploadsOnly DEF JobTaken
<1>3. CASE Expires(u)
  <2>1. UploadsKept
    BY <1>3, RemovedKeeps DEF Expires
  <2> QED BY <1>3, <2>1, FaultKept, UploadsOnly DEF Expires
<1> QED BY <1>1, <1>2, <1>3

LEMMA CancelInv == ASSUME PageInv, Cancel PROVE PageInv'
<1>1. RunsKept /\ WorkersKept /\ \A w \in Slots : worker'[w] = worker[w] \/ worker'[w] = Dead
  <2> DEFINE none == {}
  <2>1. Aborts(page.ctrl, none, none) /\ none \in SUBSET Slots /\ none \in SUBSET Runs
        /\ \A w \in none : FALSE
    BY DEF Cancel
  <2> HIDE DEF none
  <2> QED BY <2>1, AbortsKeep
<1>2. NoAnswers
  BY <1>1 DEF NoAnswers, Dead, Off
<1>3. PageKept
  <2>1. page' \in PageType /\ page'.ctrl = 0 /\ page'.saved = NoRecord
    BY PageTypes DEF Cancel, PageType
  <2> QED BY <2>1 DEF PageKept
<1>4. CASE /\ upload' = [u \in Uploads |-> IF u = page.jobId /\ upload[u].job = "active"
                            THEN [upload[u] EXCEPT !.job = "cancelled"] ELSE upload[u]]
           /\ UNCHANGED count
  <2>1. UploadsKept
    <3>1. CASE page.jobId \in Uploads /\ upload[page.jobId].job = "active"
      <4>1. upload' = [upload EXCEPT ![page.jobId].job = "cancelled"]
        <5>1. upload \in [Uploads -> UploadType]
          BY DEF PageInv, TypeOK
        <5> QED BY <1>4, <3>1, <5>1
      <4> QED BY <3>1, <4>1, JobKeeps DEF JobOver
    <3>2. CASE ~ (page.jobId \in Uploads /\ upload[page.jobId].job = "active")
      <4>1. upload' = upload
        <5>1. upload \in [Uploads -> UploadType]
          BY DEF PageInv, TypeOK
        <5> QED BY <1>4, <3>2, <5>1
      <4> QED BY <4>1, Unchanged
    <3> QED BY <3>1, <3>2
  <2> QED BY <1>1, <1>2, <1>3, <1>4, <2>1, NoAnswersKeep, Unchanged, Kept
<1>5. CASE Fault /\ UNCHANGED upload
  BY <1>1, <1>2, <1>3, <1>5, NoAnswersKeep, FaultKept, Unchanged, Kept
<1> QED BY <1>4, <1>5 DEF Cancel

LEMMA ReloadInv == ASSUME PageInv, Reload PROVE PageInv'
<1>1. run \in [Runs -> RunType] /\ worker \in [Slots -> WorkerType]
  BY DEF PageInv, TypeOK
<1>2. RunsKept
  <2>1. \A r \in Runs : [run[r] EXCEPT !.at = "gone"] \in RunType
    <3> SUFFICES ASSUME NEW x \in RunType PROVE [x EXCEPT !.at = "gone"] \in RunType
      BY <1>1
    <3> QED BY DEF RunType, Ended
  <2>2. run' \in [Runs -> RunType]
    BY <1>1, <2>1 DEF Reload
  <2> QED BY <2>2 DEF Reload, RunsKept, Ended
<1>3. \A w \in Slots : /\ worker'[w] = worker[w] \/ worker'[w] = Dead
                       /\ worker'[w].at \notin Working
  BY DEF Reload, Dead, Off, Working, Fetching, Sleeping
<1>4. WorkersKept /\ NoAnswers
  <2>1. Dead \in WorkerType
    BY DEF Dead, Off, WorkerType
  <2>2. worker' \in [Slots -> WorkerType]
    BY <1>1, <2>1 DEF Reload
  <2>3. ASSUME NEW w \in Slots, run'[w[1]].at = "chunks" PROVE FALSE
    <3>1. w[1] \in Runs /\ run[w[1]] \in RunType
      BY <1>1, SlotRuns
    <3> QED BY <2>3, <3>1 DEF Reload, RunType, Live
  <2> QED BY <1>3, <2>2, <2>3 DEF WorkersKept, NoAnswers, Working, Fetching
<1>5. PageKept
  <2>1. page' \in PageType /\ page'.ctrl = 0 /\ page'.saved = page.saved
    BY PageTypes DEF Reload, PageType
  <2> QED BY <2>1 DEF PageKept
<1>6. CountKept /\ UploadsKept
  BY FaultKept, Unchanged DEF Reload
<1> QED BY <1>2, <1>4, <1>5, <1>6, NoAnswersKeep, Kept

-----------------------------------------------------------------------------
LEMMA StepInv == ASSUME PageInv, [Next]_vars PROVE PageInv'
<1>1. ASSUME NEW r \in Runs, RunStep(r) PROVE PageInv'
  BY <1>1, ResumeInv, CannotResumeInv, OpenInv, OpenedInv, RunFailsInv, QueuesInv, QueuedInv,
     PollInv DEF RunStep
<1>2. ASSUME NEW w \in Slots, WorkerStep(w) PROVE PageInv'
  BY <1>2, ArrivesInv, NotFoundInv, StoresInv, WriteFailsInv, BreaksInv, SleepInv, ContinuesInv
     DEF WorkerStep
<1>3. ASSUME NEW u \in Uploads,
             \/ JobEnds(u) \/ JobTaken(u) \/ Expires(u)
             \/ \E c \in upload[u].inFlight : LateStore(u, c)
      PROVE  PageInv'
  BY <1>3, JobInv, LateStoreInv
<1>4. CASE UNCHANGED vars
  BY <1>4, Unchanged, Kept DEF vars
<1> QED BY <1>1, <1>2, <1>3, <1>4, ChoosesInv, StartInv, CancelInv, ReloadInv DEF Next

\* Hence PageInv holds always: the page's variables have their types, and what runs,
\* workers and server believe of each other fits together.
THEOREM PageInvHolds == Spec => []PageInv
<1>1. PageInv /\ [Next]_vars => PageInv'
  BY StepInv
<1> QED BY InitInv, <1>1, PTL DEF Spec

\* No attempt at a chunk goes beyond MAX_RETRIES, and the current AbortController is
\* one that was not aborted, of an uploadSingleFile that is sending chunks.
THEOREM TypeOKHolds == Spec => []TypeOK
<1>1. PageInv => TypeOK
  BY DEF PageInv
<1> QED BY PageInvHolds, <1>1, PTL

\* Every chunk in the receivedIndices of an uploadSingleFile is at the server or being
\* written there, unless a write of it failed.
THEOREM AckedReachedServerHolds == Spec => []AckedReachedServer
<1>1. PageInv => AckedReachedServer
  BY DEF PageInv, Acked
<1> QED BY PageInvHolds, <1>1, PTL

\* No two workers of an uploadSingleFile send one chunk, and no chunk is left out.
THEOREM OneSenderHolds == Spec => []OneSender
<1>1. PageInv => OneSender
  BY DEF PageInv
<1> QED BY PageInvHolds, <1>1, PTL

\* An upload only gets chunks of the file it was opened for, also when it is resumed
\* from the saved record, by a second run or after a cancel.
THEOREM UploadsHoldOneFileHolds == Spec => []UploadsHoldOneFile
<1>1. PageInv => UploadsHoldOneFile
  BY DEF PageInv, Owners
<1> QED BY PageInvHolds, <1>1, PTL

\* The server only ever holds or writes chunks that the file of the upload has.
ChunksExist ==
  \A u \in Uploads : upload[u].owner # NoFile =>
    upload[u].received \cup upload[u].inFlight \subseteq Chunks(upload[u].owner)

THEOREM ChunksExistHolds == Spec => []ChunksExist
<1>1. PageInv => ChunksExist
  BY DEF PageInv, Fits, Stays, Extent, ChunksExist
<1> QED BY PageInvHolds, <1>1, PTL

-----------------------------------------------------------------------------
(* After a cancel.                                                         *)

\* What a cancel promises of one step.
Holds ==
  page.cancelled /\ page'.cancelled =>
    /\ page'.saved \in {page.saved, NoRecord}
    /\ \A r \in Runs : run'[r].at = "finalize" => run[r].at = "finalize"

\* A run that is kept, or that goes on to a state other than finalize.
LEMMA NotToFinalize ==
  ASSUME PageInv
  PROVE  /\ RunsKept => \A r \in Runs : run'[r].at = "finalize" => run[r].at = "finalize"
         /\ \A r \in Runs, s \in {"failed", "chunks", "init", "opened", "queued", "poll", "done"} :
              (run'[r].at = s /\ \A q \in Runs \ {r} : run'[q] = run[q]) =>
                \A q \in Runs : run'[q].at = "finalize" => run[q].at = "finalize"
  BY RunFacts DEF Ended

LEMMA ThrowsHold ==
  ASSUME PageInv, page.cancelled, NEW w \in Slots, worker[w].at \in Working,
         Throws(w, page) \/ Caught(w)
  PROVE  Holds
<1>1. RunsKept
  BY ThrowsKeep, CaughtKeeps, PageTypes
<1>2. page'.saved = page.saved
  BY PageTypes DEF Throws, Caught, PageType
<1> QED BY <1>1, <1>2, NotToFinalize DEF Holds

LEMMA WorkersHold ==
  ASSUME PageInv, page.cancelled, NEW w \in Slots, WorkerStep(w)
  PROVE  Holds
<1>1. CASE Arrives(w) \/ Stores(w) \/ Limited(w)
  BY <1>1 DEF Arrives, Stores, Limited, Holds
<1>2. CASE NotFound(w) \/ WriteFails(w) \/ Breaks(w)
  BY <1>2, ThrowsHold DEF NotFound, WriteFails, Breaks, Working, Fetching
<1>3. CASE Wakes(w)
  BY <1>3, ThrowsHold DEF Wakes, Working
<1>4. CASE Continues(w)
  BY <1>4, ThrowsHold DEF Continues, MaySave, Working, Fetching
<1> QED BY <1>1, <1>2, <1>3, <1>4 DEF WorkerStep

LEMMA RunsHold ==
  ASSUME PageInv, page.cancelled, NEW r \in Runs, RunStep(r)
  PROVE  Holds
<1>0. /\ run \in [Runs -> RunType] /\ run[r] \in RunType /\ page \in PageType
  BY DEF PageInv, TypeOK
<1>1. ASSUME NEW got, Prepare(r, got) PROVE Holds
  <2>1. /\ page'.saved = page.saved
        /\ run'[r].at = "failed"
        /\ \A q \in Runs \ {r} : run'[q] = run[q]
    <3>1. PICK rest : /\ run' = [run EXCEPT ![r].at = "failed", ![r].acked = got, ![r].todo = rest]
                      /\ page' = [page EXCEPT !.ctrl = 0, !.enabled = TRUE]
      BY <1>1 DEF Prepare, SeesCancel
    <3> QED BY <1>0, <3>1 DEF PageType, RunType
  <2> QED BY <2>1, NotToFinalize DEF Holds
<1>2. CASE Resume(r) \/ Opened(r)
  BY <1>1, <1>2 DEF Resume, Opened
<1>3. CASE CannotResume(r)
  <2>1. page'.saved = NoRecord /\ run'[r].at = "init" /\ \A q \in Runs \ {r} : run'[q] = run[q]
    BY <1>0, <1>3 DEF CannotResume, PageType, RunType
  <2> QED BY <2>1, NotToFinalize DEF Holds
<1>4. CASE \E u \in Uploads : Open(r, u)
  <2>1. page'.saved = page.saved /\ run'[r].at = "opened" /\ \A q \in Runs \ {r} : run'[q] = run[q]
    BY <1>0, <1>4 DEF Open, RunType
  <2> QED BY <2>1, NotToFinalize DEF Holds
<1>5. CASE OpenFails(r) \/ FinalizeFails(r)
  <2>1. page'.saved = page.saved /\ run'[r].at = "failed" /\ \A q \in Runs \ {r} : run'[q] = run[q]
    BY <1>0, <1>5 DEF OpenFails, FinalizeFails, Fails, RunType, PageType
  <2> QED BY <2>1, NotToFinalize DEF Holds
<1>6. CASE Queues(r)
  <2>1. page'.saved = page.saved /\ run'[r].at = "queued" /\ \A q \in Runs \ {r} : run'[q] = run[q]
    BY <1>0, <1>6 DEF Queues, RunType
  <2> QED BY <2>1, NotToFinalize DEF Holds
<1>7. CASE Queued(r)
  <2>1. page'.saved = NoRecord /\ run'[r].at = "poll" /\ \A q \in Runs \ {r} : run'[q] = run[q]
    BY <1>0, <1>7 DEF Queued, RunType, PageType
  <2> QED BY <2>1, NotToFinalize DEF Holds
<1>8. CASE Poll(r)
  <2>1. page'.saved = page.saved /\ \A q \in Runs \ {r} : run'[q] = run[q]
    BY <1>0, <1>8 DEF Poll, BeginFile, PageType
  <2>2. run'[r].at \in {"failed", "done"}
    BY <1>0, <1>8 DEF Poll, RunType
  <2> QED BY <2>1, <2>2, NotToFinalize DEF Holds
<1> QED BY <1>2, <1>3, <1>4, <1>5, <1>6, <1>7, <1>8 DEF RunStep

LEMMA StepHolds == ASSUME PageInv, [Next]_vars PROVE Holds
<1> SUFFICES ASSUME page.cancelled, page'.cancelled PROVE Holds
  BY DEF Holds
<1>1. CASE (\E s \in Selections : Select(s)) \/ ChooseCategory \/ DismissResume
  BY <1>1, PageTypes DEF Select, ChooseCategory, DismissResume, PageType, Holds
<1>2. CASE Start \/ Cancel \/ Reload
  BY <1>2, PageTypes DEF Start, Cancel, Reload, PageType
<1>3. CASE \E u \in Uploads : \/ JobEnds(u) \/ JobTaken(u) \/ Expires(u)
                              \/ \E c \in upload[u].inFlight : LateStore(u, c)
  BY <1>3 DEF JobEnds, JobTaken, Expires, LateStore, Holds
<1>4. CASE UNCHANGED vars
  BY <1>4 DEF vars, Holds
<1> QED BY <1>1, <1>2, <1>3, <1>4, WorkersHold, RunsHold DEF Next

\* Once cancelled, and until the next start, the page never saves a record again and no
\* uploadSingleFile goes on to finalize.
THEOREM CancelHoldsHolds == Spec => CancelHolds
<1>1. PageInv /\ [Next]_vars => [Holds]_vars
  BY StepHolds
<1>2. Spec => [][Holds]_vars
  BY PageInvHolds, <1>1, PTL DEF Spec
<1> QED BY <1>2 DEF CancelHolds, Holds
=============================================================================
