---------------------------- MODULE WatchPage_proofs ----------------------------
(***************************************************************************)
(* The watch page's invariants for videos of any length, and any number of *)
(* visits, moves, posts and lost requests.                                 *)
(***************************************************************************)
EXTENDS WatchPage, TLAPS

USE WatchAssumption

\* Row and posts never exceed the furthest position, and one of them has it
\* unless a post was lost.
Furthest ==
  /\ stored # Nothing => hist.furthest # Nothing /\ stored <= hist.furthest
  /\ \A x \in posts : hist.furthest # Nothing /\ x <= hist.furthest
  /\ hist.furthest # Nothing /\ ~hist.lost => hist.furthest \in posts \cup {stored}
  /\ hist.lost => hist.faults > 0

\* A second run of initPlayer has used up the one attempt.
Recovery ==
  /\ tab.run[3] = "off"
  /\ tab.run[2] # "off" => tab.attempted

WatchInv == TypeOK /\ Furthest /\ Recovery

LEMMA MaxOfTwo ==
  ASSUME NEW a \in Int, NEW b \in Int
  PROVE  Max({a, b}) = IF a >= b THEN a ELSE b
<1>1. \E m \in {a, b} : \A y \in {a, b} : m >= y
  OBVIOUS
<1> QED BY <1>1 DEF Max

\* The answer of the server, or that of the browser.
LEMMA ResumeType ==
  ASSUME TypeOK, NEW remote \in Saved
  PROVE  ResumeAt(remote) \in Positions /\ Continues(remote) \in Saved
  BY DEF TypeOK, Saved, ResumeAt, Continues, Positions

LEMMA TypesMeet ==
  /\ 0 \in Positions /\ 0 \in Players /\ Runs \subseteq Players
  /\ Nothing \in Saved /\ Positions \subseteq Saved
  BY DEF Positions, Players, Saved

LEMMA ClosedType ==
  ASSUME NEW p \in {"none", "watch", "home"}, NEW x \in Saved
  PROVE  /\ LET t == [Closed EXCEPT !.page = p, !.run[1] = "attach"]
            IN t \in TabType /\ t.run[3] = "off" /\ t.run[2] = "off"
         /\ LET t == [Closed EXCEPT !.page = p, !.shows = x]
            IN t \in TabType /\ t.run[3] = "off" /\ t.run[2] = "off"
<1> DEFINE f == [[r \in Runs |-> "off"] EXCEPT ![1] = "attach"]
<1>1. /\ f \in StageOf /\ f[3] = "off" /\ f[2] = "off"
      /\ [r \in Runs |-> "off"] \in StageOf /\ [r \in Runs |-> 0] \in PositionOf
  BY DEF StageOf, PositionOf, Positions, Stages, Runs
<1>2. Closed.run = [r \in Runs |-> "off"]
  BY DEF Closed
<1> HIDE DEF f
<1>3. [Closed EXCEPT !.page = p, !.run[1] = "attach"] \in TabType
      /\ [Closed EXCEPT !.page = p, !.run[1] = "attach"].run = f
  BY <1>1, TypesMeet DEF TabType, Closed, f
<1>4. [Closed EXCEPT !.page = p, !.shows = x] \in TabType
      /\ [Closed EXCEPT !.page = p, !.shows = x].run = [r \in Runs |-> "off"]
  BY <1>1, TypesMeet DEF TabType, Closed
<1> QED BY <1>1, <1>3, <1>4 DEF Runs

LEMMA ClosedAsIs == Closed \in TabType /\ Closed.run[3] = "off" /\ Closed.run[2] = "off"
<1>1. [r \in Runs |-> "off"] \in StageOf /\ [r \in Runs |-> 0] \in PositionOf
  BY DEF StageOf, Stages, PositionOf, Positions
<1> QED BY <1>1, TypesMeet DEF TabType, Closed, Runs

\* A run of initPlayer goes on.
LEMMA RunGoesOn ==
  ASSUME WatchInv, NEW r \in Runs, NEW s \in Stages, tab.run[r] # "off"
  PROVE  LET f == [tab.run EXCEPT ![r] = s]
         IN f \in StageOf /\ f[3] = "off" /\ (f[2] # "off" => tab.attempted)
<1>1. tab.run \in StageOf
  BY DEF WatchInv, TypeOK, TabType
<1> QED BY <1>1 DEF WatchInv, Recovery, StageOf, Runs

\* What a post of a position does to the furthest one.
LEMMA PostedKeeps ==
  ASSUME WatchInv, NEW x \in Positions, NEW n \in Nat, Posted(x, n)
  PROVE  /\ posts' \subseteq Positions /\ hist' \in HistType
         /\ UNCHANGED stored => Furthest'
<1> DEFINE f == IF hist.furthest = Nothing \/ x >= hist.furthest THEN x ELSE hist.furthest
<1>0. f \in Positions
  BY DEF WatchInv, TypeOK, HistType, Saved
<1>1. hist' = [hist EXCEPT !.moves = hist.moves + n, !.last = x, !.furthest = f]
  <2>1. hist.furthest = Nothing \/ hist.furthest \in Int
    BY DEF WatchInv, TypeOK, HistType, Saved, Positions
  <2>2. hist.furthest # Nothing =>
          Max({hist.furthest, x}) = IF hist.furthest >= x THEN hist.furthest ELSE x
    BY <2>1, MaxOfTwo DEF Positions
  <2>3. f = IF hist.furthest = Nothing THEN x ELSE Max({hist.furthest, x})
    BY <2>1, <2>2 DEF Positions
  <2> HIDE DEF f
  <2> QED BY <2>3 DEF Posted
<1>2. /\ hist' \in HistType /\ hist'.lost = hist.lost /\ hist'.faults = hist.faults
      /\ hist'.furthest = f
  <2> HIDE DEF f
  <2>1. hist.moves + n \in Nat /\ f \in Saved /\ x \in Saved /\ hist \in HistType
    BY <1>0 DEF WatchInv, TypeOK, HistType, Saved
  <2> QED BY <1>1, <2>1 DEF HistType
<1>3. posts' = posts \cup {x} /\ posts' \subseteq Positions
  BY DEF Posted, WatchInv, TypeOK
<1>4. ASSUME UNCHANGED stored PROVE Furthest'
  BY <1>1, <1>2, <1>3, <1>4 DEF WatchInv, TypeOK, Furthest, HistType, Saved, Positions
<1> QED BY <1>2, <1>3, <1>4

-----------------------------------------------------------------------------
LEMMA InitInv == Init => WatchInv
<1> SUFFICES ASSUME Init PROVE WatchInv
  OBVIOUS
<1>1. TypeOK
  <2>1. Closed \in TabType
    BY ClosedAsIs
  <2> QED BY <2>1 DEF Init, TypeOK, HistType, Saved
<1>2. Furthest /\ Recovery
  BY ClosedAsIs DEF Init, Furthest, Recovery
<1> QED BY <1>1, <1>2 DEF WatchInv

\* Steps of a page that keep the row, the browser's entry and the posts.
LEMMA PageSteps ==
  ASSUME WatchInv,
         \/ OpenWatch \/ OpenHome \/ Leave
         \/ \E r \in Runs : Destroyed(r) \/ Attached(r) \/ Marked(r) \/ Progress(r)
                            \/ Loaded(r) \/ LoadFails(r)
         \/ Plays
  PROVE  WatchInv'
<1> USE DEF WatchInv
<1>1. CASE OpenWatch
  <2>1. hist' \in HistType
    BY <1>1 DEF OpenWatch, TypeOK, HistType
  <2>2. tab' \in TabType /\ Recovery'
    BY <1>1, ClosedType, TypesMeet DEF OpenWatch, Recovery
  <2>3. hist'.furthest = hist.furthest /\ hist'.lost = hist.lost /\ hist'.faults = hist.faults
    BY <1>1 DEF OpenWatch, TypeOK, HistType
  <2> QED BY <1>1, <2>1, <2>2, <2>3 DEF OpenWatch, TypeOK, Furthest, Middle
<1>2. CASE OpenHome
  <2>1. PICK remote \in {IF Watched(stored) THEN Nothing ELSE stored}
                        \cup (IF Fault THEN {Nothing} ELSE {}) :
          /\ tab' = [Closed EXCEPT !.page = "home", !.shows = Continues(remote)]
          /\ hist' = [hist EXCEPT !.visits = @ + 1,
                        !.faults = IF remote = stored \/ Watched(stored) THEN @ ELSE @ + 1]
          /\ UNCHANGED <<stored, local, posts>> /\ hist.visits < MaxVisits
    BY <1>2 DEF OpenHome
  <2>2. remote \in Saved /\ (remote = stored \/ Watched(stored) \/ Fault)
    BY <2>1 DEF TypeOK, Saved
  <2>3. tab' \in TabType /\ Recovery'
    <3>1. Continues(remote) \in Saved
      BY <2>2, ResumeType
    <3> QED BY <2>1, <3>1, ClosedType DEF Recovery
  <2>4. /\ hist' \in HistType /\ hist'.furthest = hist.furthest /\ hist'.lost = hist.lost
        /\ hist'.faults >= hist.faults
    <3> DEFINE n == IF remote = stored \/ Watched(stored) THEN hist.faults
                    ELSE hist.faults + 1
    <3> DEFINE v == hist.visits + 1
    <3>1. hist \in HistType /\ n \in Nat /\ n >= hist.faults /\ v \in Nat
      BY DEF TypeOK, HistType
    <3>2. hist' = [hist EXCEPT !.visits = v, !.faults = n]
      BY <2>1
    <3> HIDE DEF n, v
    <3>3. hist' \in HistType
      BY <3>1, <3>2 DEF HistType
    <3>4. hist'.furthest = hist.furthest /\ hist'.lost = hist.lost /\ hist'.faults = n
      BY <3>1, <3>2 DEF HistType
    <3> QED BY <3>1, <3>3, <3>4
  <2>5. hist.faults \in Int /\ hist'.faults \in Int
    BY <2>4 DEF TypeOK, HistType
  <2> QED BY <2>1, <2>3, <2>4, <2>5 DEF TypeOK, Furthest, Middle
<1>3. CASE Leave
  BY <1>3, ClosedAsIs DEF Leave, TypeOK, Furthest, Recovery, Middle
<1>4. ASSUME NEW r \in Runs, Destroyed(r) \/ Attached(r) \/ Marked(r) \/ Loaded(r)
      PROVE  WatchInv'
  <2>1. tab' \in TabType /\ Recovery'
    <3>0. /\ tab \in TabType /\ tab.full[r] \in Positions /\ tab.start[r] \in Positions
          /\ {"attach", "markers", "progress", "done"} \subseteq Stages
      BY DEF TypeOK, TabType, PositionOf, Stages
    <3>1. ASSUME Destroyed(r) PROVE tab' \in TabType /\ Recovery'
      BY <3>0, <3>1, RunGoesOn, TypesMeet DEF Destroyed, TabType, Recovery
    <3>2. ASSUME Attached(r) PROVE tab' \in TabType /\ Recovery'
      BY <3>0, <3>2, RunGoesOn, TypesMeet DEF Attached, TabType, Recovery
    <3>3. ASSUME Marked(r) PROVE tab' \in TabType /\ Recovery'
      BY <3>0, <3>3, RunGoesOn DEF Marked, Goes, TabType, Recovery
    <3>4. ASSUME Loaded(r) PROVE tab' \in TabType /\ Recovery'
      BY <3>0, <3>4, RunGoesOn, ZenonT(40) DEF Loaded, TabType, Recovery
    <3> QED BY <1>4, <3>1, <3>2, <3>3, <3>4
  <2>3. UNCHANGED <<stored, local, posts, hist>>
    BY <1>4 DEF Destroyed, Attached, Marked, Loaded
  <2> QED BY <2>1, <2>3 DEF TypeOK, Furthest, Middle
<1>5. ASSUME NEW r \in Runs, Progress(r)
      PROVE  WatchInv'
  <2>1. PICK remote \in {stored} \cup (IF Fault THEN {Nothing} ELSE {}) :
          /\ tab' = [tab EXCEPT !.run[r] = "load", !.start[r] = ResumeAt(remote),
                                !.listeners = r]
          /\ hist' = [hist EXCEPT !.faults = IF remote = stored THEN @ ELSE @ + 1]
          /\ UNCHANGED <<stored, local, posts>> /\ tab.run[r] = "progress"
    BY <1>5 DEF Progress
  <2>2. remote \in Saved /\ (remote = stored \/ Fault)
    BY <2>1 DEF TypeOK, Saved
  <2>3. tab' \in TabType /\ Recovery'
    <3>1. [tab.start EXCEPT ![r] = ResumeAt(remote)] \in PositionOf
      BY <2>2, ResumeType DEF TypeOK, TabType, PositionOf
    <3>2. tab \in TabType /\ "load" \in Stages
      BY DEF TypeOK, Stages
    <3> QED BY <2>1, <3>1, <3>2, RunGoesOn, TypesMeet DEF TabType, Recovery
  <2>5. /\ hist' \in HistType /\ hist'.furthest = hist.furthest /\ hist'.lost = hist.lost
        /\ hist'.faults >= hist.faults
    BY <2>1, <2>2 DEF Fault, TypeOK, HistType
  <2>6. hist.faults \in Int /\ hist'.faults \in Int
    BY <2>5 DEF TypeOK, HistType
  <2> QED BY <2>1, <2>3, <2>5, <2>6 DEF TypeOK, Furthest, Middle
<1>6. ASSUME NEW r \in Runs, LoadFails(r)
      PROVE  WatchInv'
  <2>1. tab' = [tab EXCEPT !.run[r] = "failed"] /\ tab.run[r] = "load"
    BY <1>6 DEF LoadFails, Goes
  <2>2. tab' \in TabType /\ Recovery'
    <3>1. tab \in TabType /\ "failed" \in Stages
      BY DEF TypeOK, Stages
    <3> QED BY <2>1, <3>1, RunGoesOn DEF TabType, Recovery
  <2>3. /\ hist' \in HistType /\ hist'.furthest = hist.furthest /\ hist'.lost = hist.lost
        /\ hist'.faults >= hist.faults
    BY <1>6 DEF LoadFails, Fault, TypeOK, HistType
  <2>4. hist.faults \in Int /\ hist'.faults \in Int
    BY <2>3 DEF TypeOK, HistType
  <2> QED BY <1>6, <2>2, <2>3, <2>4 DEF LoadFails, TypeOK, Furthest, Middle
<1>7. CASE Plays
  <2>1. tab' \in TabType /\ tab'.run = tab.run /\ tab'.attempted = tab.attempted
    BY <1>7 DEF Plays, TypeOK, TabType, Positions
  <2>2. /\ hist' \in HistType /\ hist'.furthest = hist.furthest /\ hist'.lost = hist.lost
        /\ hist'.faults = hist.faults
    BY <1>7 DEF Plays, Move, TypeOK, HistType
  <2> QED BY <1>7, <2>1, <2>2 DEF Plays, TypeOK, Furthest, Recovery, Middle
<1> QED BY <1>1, <1>2, <1>3, <1>4, <1>5, <1>6, <1>7

\* The player is made anew only before the attempt is used up.
LEMMA QuotaErrorStep ==
  ASSUME WatchInv, NEW r \in Runs, NEW n \in Runs, QuotaError(r, n)
  PROVE  WatchInv'
<1> USE DEF WatchInv
<1>1. tab' = [tab EXCEPT !.run[n] = "destroy", !.full[n] = tab.pos, !.attempted = Attempted(n)]
      /\ UNCHANGED <<stored, local, posts, hist>>
  BY DEF QuotaError
<1>2. n = 2
  <2>1. tab.run[2] = "off" /\ tab.run[3] = "off" /\ tab.run[r] # "off"
    BY DEF QuotaError, Recovery
  <2>2. r = 1 /\ n # 1 /\ n <= 2
    BY <2>1 DEF QuotaError, Runs
  <2> QED BY <2>2 DEF Runs
<1>3. tab' \in TabType /\ Recovery'
  <2>1. /\ tab' = [tab EXCEPT !.run[2] = "destroy", !.full[2] = tab.pos,
                             !.attempted = Attempted(2)]
        /\ Attempted(2) = TRUE
    BY <1>1, <1>2 DEF Attempted
  <2>2. tab \in TabType
    BY DEF TypeOK
  <2>3. [tab.full EXCEPT ![2] = tab.pos] \in PositionOf
    BY <2>2 DEF TabType, PositionOf
  <2>4. LET f == [tab.run EXCEPT ![2] = "destroy"] IN f \in StageOf /\ f[3] = "off"
    <3>1. tab.run \in StageOf /\ "destroy" \in Stages
      BY <2>2 DEF TabType, Stages
    <3> QED BY <3>1 DEF StageOf, Recovery, Runs
  <2> QED BY <2>1, <2>2, <2>3, <2>4 DEF TabType, Recovery
<1> QED BY <1>1, <1>3 DEF TypeOK, Furthest, Middle

\* Steps that post, save or store a position.
LEMMA ProgressSteps ==
  ASSUME WatchInv,
         \/ SaveProgress \/ Post \/ Ended
         \/ \E x \in Positions : Seek(x) \/ SavePlaybackProgress(x) \/ LosePost(x)
  PROVE  WatchInv'
<1> USE DEF WatchInv
<1>1. tab.pos \in Positions /\ Kept(tab.pos) \in Saved /\ End \in Positions
      /\ (Kept(tab.pos) = Nothing \/ Middle(Kept(tab.pos)))
  BY DEF TypeOK, TabType, Kept, Saved, Positions
<1>3. CASE SaveProgress
  BY <1>1, <1>3 DEF SaveProgress, TypeOK, Furthest, Recovery, Middle
<1>4. CASE Post
  <2>1. Posted(tab.pos, 0) /\ UNCHANGED <<stored, local, tab>>
    BY <1>4 DEF Post
  <2> QED BY <1>1, <2>1, PostedKeeps DEF TypeOK, Recovery, Middle
<1>5. CASE Ended
  <2>1. Posted(End, 0) /\ UNCHANGED <<stored, tab>> /\ local' = Nothing
    BY <1>5 DEF Ended, Kept, Middle
  <2> QED BY <1>1, <2>1, PostedKeeps DEF TypeOK, Recovery, Saved
<1>6. ASSUME NEW x \in Positions, Seek(x)
      PROVE  WatchInv'
  <2>1. Posted(x, 1) /\ UNCHANGED <<stored, local>> /\ tab' = [tab EXCEPT !.pos = x]
    BY <1>6 DEF Seek
  <2>2. tab' \in TabType /\ tab'.run = tab.run /\ tab'.attempted = tab.attempted
    BY <2>1 DEF TypeOK, TabType
  <2> QED BY <2>1, <2>2, PostedKeeps DEF TypeOK, Recovery, Middle
<1>7. ASSUME NEW x \in Positions, SavePlaybackProgress(x)
      PROVE  WatchInv'
  <2>1. x \in posts /\ posts' = posts \ {x} /\ UNCHANGED <<local, tab, hist>>
        /\ stored' = IF stored = Nothing \/ x > stored THEN x ELSE stored
    BY <1>7 DEF SavePlaybackProgress, Overwrites
  <2>2. TypeOK' /\ Recovery'
    BY <2>1 DEF TypeOK, Recovery, Saved, Middle
  <2>3. Furthest'
    BY <2>1 DEF TypeOK, HistType, Furthest, Saved, Positions
  <2> QED BY <2>2, <2>3
<1>8. ASSUME NEW x \in Positions, LosePost(x)
      PROVE  WatchInv'
  <2>1. /\ posts' = posts \ {x} /\ UNCHANGED <<stored, local, tab>>
        /\ hist' = [hist EXCEPT !.faults = hist.faults + 1, !.lost = TRUE]
    BY <1>8 DEF LosePost
  <2>2. hist' \in HistType /\ hist'.furthest = hist.furthest /\ hist'.lost /\ hist'.faults > 0
    <3>1. hist \in HistType /\ hist.faults \in Nat
      BY <2>1 DEF TypeOK, HistType
    <3>2. hist' \in HistType /\ hist'.furthest = hist.furthest
      <4> DEFINE n == hist.faults + 1
      <4>1. n \in Nat /\ hist' = [hist EXCEPT !.faults = n, !.lost = TRUE]
        BY <2>1, <3>1
      <4> HIDE DEF n
      <4> QED BY <3>1, <4>1 DEF HistType
    <3>3. hist'.lost = TRUE /\ hist'.faults = hist.faults + 1
      BY <2>1, <3>1 DEF HistType
    <3> QED BY <3>1, <3>2, <3>3
  <2> QED BY <2>1, <2>2 DEF TypeOK, Furthest, Recovery, Middle
<1> QED BY <1>3, <1>4, <1>5, <1>6, <1>7, <1>8

LEMMA NextInv == WatchInv /\ [Next]_vars => WatchInv'
<1> SUFFICES ASSUME WatchInv, [Next]_vars PROVE WatchInv'
  OBVIOUS
<1>1. CASE Next
  BY <1>1, PageSteps, QuotaErrorStep, ProgressSteps DEF Next
<1>2. CASE UNCHANGED vars
  BY <1>2 DEF vars, WatchInv, TypeOK, Furthest, Recovery, Middle
<1> QED BY <1>1, <1>2

LEMMA WatchInvHolds == Spec => []WatchInv
<1> QED BY InitInv, NextInv, PTL DEF Spec

-----------------------------------------------------------------------------
\* Type correctness, for videos of any length; an entry of localStorage is always
\* a position in the middle.
THEOREM TypeOKHolds == Spec => []TypeOK
<1>1. WatchInv => TypeOK
  BY DEF WatchInv
<1> QED BY <1>1, WatchInvHolds, PTL

\* Whatever the order in which serverSaveProgress's posts arrive, the row ends up
\* with the furthest position.
THEOREM FurthestIsStoredHolds == Spec => []FurthestIsStored
<1>1. WatchInv => FurthestIsStored
  BY DEF WatchInv, Furthest, FurthestIsStored
<1> QED BY <1>1, WatchInvHolds, PTL

\* Full buffers make initPlayer run a second time, never a third.
THEOREM RecoversOnceHolds == Spec => []RecoversOnce
<1>1. WatchInv => RecoversOnce
  BY DEF WatchInv, Recovery, RecoversOnce
<1> QED BY <1>1, WatchInvHolds, PTL

\* "Continue Watching" shows the furthest position of a video left in the middle.
THEOREM LeftIsContinuedHolds == Spec => LeftIsContinued
<1> DEFINE Opens == tab.page # "home" /\ tab'.page = "home" /\ posts = {}
                    /\ hist'.faults = 0 /\ Middle(hist.furthest)
<1>1. ASSUME WatchInv, Next, Opens
      PROVE  tab'.shows = hist.furthest
  <2>1. OpenHome
    <3>1. ASSUME NEW r \in Runs, NEW n \in Runs, QuotaError(r, n) PROVE FALSE
      BY <1>1, <3>1 DEF QuotaError, WatchInv, TypeOK, TabType
    <3>2. ASSUME NEW r \in Runs, \/ Destroyed(r) \/ Attached(r) \/ Marked(r) \/ Progress(r)
                                 \/ Loaded(r) \/ LoadFails(r)
          PROVE FALSE
      BY <1>1, <3>2 DEF Destroyed, Attached, Marked, Progress, Loaded, LoadFails, Goes,
                        WatchInv, TypeOK, TabType
    <3>3. ~OpenWatch /\ ~Leave
      <4>1. Closed.page = "none" /\ [Closed EXCEPT !.page = "watch", !.run[1] = "attach"].page = "watch"
        BY DEF Closed
      <4> QED BY <1>1, <4>1 DEF OpenWatch, Leave
    <3>4. ~Plays /\ ~SaveProgress /\ ~Post /\ ~Ended
      BY <1>1 DEF Plays, SaveProgress, Post, Ended, WatchInv, TypeOK, TabType
    <3>5. ASSUME NEW x \in Positions, Seek(x) \/ SavePlaybackProgress(x) \/ LosePost(x)
          PROVE FALSE
      BY <1>1, <3>5 DEF Seek, SavePlaybackProgress, LosePost, WatchInv, TypeOK, TabType
    <3> QED BY <1>1, <3>1, <3>2, <3>3, <3>4, <3>5 DEF Next
  <2>2. stored = hist.furthest
    <3>1. hist'.faults >= hist.faults /\ hist.faults \in Nat
      BY <1>1, <2>1 DEF OpenHome, WatchInv, TypeOK, HistType
    <3>2. ~hist.lost
      BY <1>1, <3>1 DEF WatchInv, Furthest
    <3> QED BY <1>1, <3>2 DEF WatchInv, Furthest, Middle
  <2>3. PICK remote : /\ tab'.shows = Continues(remote)
                      /\ remote = stored \/ Watched(stored)
    <3>1. PICK remote \in {IF Watched(stored) THEN Nothing ELSE stored}
                          \cup (IF Fault THEN {Nothing} ELSE {}) :
            /\ tab' = [Closed EXCEPT !.page = "home", !.shows = Continues(remote)]
            /\ hist' = [hist EXCEPT !.visits = @ + 1,
                          !.faults = IF remote = stored \/ Watched(stored) THEN @ ELSE @ + 1]
      BY <2>1 DEF OpenHome
    <3>2. hist'.faults = IF remote = stored \/ Watched(stored) THEN hist.faults
                         ELSE hist.faults + 1
      BY <1>1, <3>1 DEF WatchInv, TypeOK, HistType
    <3>3. hist.faults \in Nat
      BY <1>1 DEF WatchInv, TypeOK, HistType
    <3> QED BY <1>1, <3>1, <3>2, <3>3 DEF Closed
  <2>4. ~Watched(stored)
    <3>1. stored \in Int
      BY <1>1, <2>2 DEF WatchInv, TypeOK, Saved, Positions, Middle
    <3> QED BY <1>1, <2>2, <3>1 DEF Watched, Middle
  <2> QED BY <1>1, <2>2, <2>3, <2>4 DEF Continues
<1>2. WatchInv /\ [Next]_vars => [Opens => tab'.shows = hist.furthest]_vars
  BY <1>1 DEF vars
<1> QED BY <1>2, WatchInvHolds, PTL DEF Spec, LeftIsContinued
=============================================================================
