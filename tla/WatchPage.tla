------------------------------- MODULE WatchPage -------------------------------
(***************************************************************************)
(* Watching one video: the watch page, src/static/watch.js, the progress   *)
(* that it keeps in the browser and posts to the server, the server's rule *)
(* for it (src/src/db/queries_playback.rs) and the home page, which reads  *)
(* both for "Continue Watching" (src/static/browse-home.js).               *)
(*                                                                         *)
(* initPlayer awaits six times, and runs a second time, from the error     *)
(* handler of the player of the first, when the buffer is full; events of  *)
(* the video element come in between.  Posts are not awaited: they arrive  *)
(* in any order, later than the page lives, or never.                      *)
(*                                                                         *)
(* A position is a step of the video: 0 counts as not started, Done and    *)
(* what follows as watched (95 %), End is the end of it.                   *)
(***************************************************************************)
EXTENDS Integers, FiniteSets, FiniteSetsExt

CONSTANTS
  Done, End,     \* first position that counts as watched, last position
  MaxVisits,     \* bound: pages opened
  MaxMoves,      \* bound: steps played and seeks
  MaxPosts,      \* bound: posts under way at once
  MaxFaults,     \* bound: lost requests
  Nothing

ASSUME WatchAssumption ==
  /\ Done \in Nat /\ End \in Nat /\ 1 < Done /\ Done <= End /\ Nothing \notin Int
  /\ MaxVisits \in Nat /\ MaxMoves \in Nat /\ MaxPosts \in Nat /\ MaxFaults \in Nat

Positions == 0..End
Runs      == 1..3 \* calls of initPlayer; one more than there should be
Stages    == {"off", "destroy", "attach", "markers", "progress", "load", "done", "failed"}

VARIABLES
  stored, \* position in the server's row, or none
  local,  \* position in localStorage, or none
  posts,  \* positions under way to the server
  tab,    \* the page that is open; of the watch page: position of the video, the
          \* calls of initPlayer, whose player exists, whose listeners are on the
          \* video element, where each was told to start, where it was when the
          \* buffer was full, has that happened; of the home page: what it shows
  hist    \* visits, moves, faults so far, furthest and last position posted, is a
          \* post lost

vars == <<stored, local, posts, tab, hist>>

-----------------------------------------------------------------------------
\* A plausible slip in each of the operators below.
Kept_Slip(x)           == x
Overwrites_Slip(x)     == TRUE
Attempted_Slip(r)      == FALSE
Continues_Slip(remote) == local

Watched(x) == x # Nothing /\ x >= Done
Middle(x)  == x # Nothing /\ x > 0 /\ x < Done

\* saveProgress: no entry for a video that is not started or watched.
Kept(x) == IF Middle(x) THEN x ELSE Nothing

\* save_playback_progress: the row keeps the furthest position.
Overwrites(x) == stored = Nothing \/ x > stored

\* attemptedQuotaRecovery: set before the first await of a recovery, and cleared
\* by an initialisation that is none.
Attempted(r) == r > 1

\* Where the watch page starts: the row of the server, which is also there when
\* the video is watched, before that of the browser; not at the very end.
ResumeAt(remote) ==
  LET saved == IF remote # Nothing THEN remote ELSE local
  IN IF saved = Nothing \/ saved = End THEN 0 ELSE saved

\* The progress that the home page shows, if any: the list of the server holds no
\* videos that are watched.
Continues(remote) ==
  IF Middle(remote) THEN remote ELSE IF Middle(local) THEN local ELSE Nothing

-----------------------------------------------------------------------------
Closed == [page |-> "none", pos |-> 0, run |-> [r \in Runs |-> "off"], player |-> 0,
           listeners |-> 0, start |-> [r \in Runs |-> 0], full |-> [r \in Runs |-> 0],
           attempted |-> FALSE, shows |-> Nothing]

Init ==
  /\ stored = Nothing /\ local = Nothing /\ posts = {}
  /\ tab = Closed
  /\ hist = [visits |-> 0, moves |-> 0, faults |-> 0, furthest |-> Nothing,
             last |-> Nothing, lost |-> FALSE]

Fault == hist.faults < MaxFaults
Move  == hist.moves < MaxMoves

-----------------------------------------------------------------------------
(* The pages.                                                              *)

OpenWatch ==
  /\ tab.page = "none" /\ hist.visits < MaxVisits
  /\ tab' = [Closed EXCEPT !.page = "watch", !.run[1] = "attach"]
  /\ hist' = [hist EXCEPT !.visits = @ + 1]
  /\ UNCHANGED <<stored, local, posts>>

\* renderRows; the list of the server may not be had.
OpenHome ==
  /\ tab.page = "none" /\ hist.visits < MaxVisits
  /\ \E remote \in {IF Watched(stored) THEN Nothing ELSE stored}
                   \cup (IF Fault THEN {Nothing} ELSE {}) :
       /\ tab' = [Closed EXCEPT !.page = "home", !.shows = Continues(remote)]
       /\ hist' = [hist EXCEPT !.visits = @ + 1,
                     !.faults = IF remote = stored \/ Watched(stored) THEN @ ELSE @ + 1]
  /\ UNCHANGED <<stored, local, posts>>

Leave ==
  /\ tab.page # "none"
  /\ tab' = Closed
  /\ UNCHANGED <<stored, local, posts, hist>>

-----------------------------------------------------------------------------
(* initPlayer.                                                             *)

Goes(r, stage) == tab' = [tab EXCEPT !.run[r] = stage]

\* The player of the run before is gone, and with it the position of the video.
Destroyed(r) ==
  /\ tab.run[r] = "destroy"
  /\ tab' = [tab EXCEPT !.run[r] = "attach", !.player = 0, !.pos = 0]
  /\ UNCHANGED <<stored, local, posts, hist>>

Attached(r) ==
  /\ tab.run[r] = "attach"
  /\ tab' = [tab EXCEPT !.run[r] = "markers", !.player = r]
  /\ UNCHANGED <<stored, local, posts, hist>>

\* loadMarkers never fails.
Marked(r) ==
  /\ tab.run[r] = "markers"
  /\ Goes(r, "progress")
  /\ UNCHANGED <<stored, local, posts, hist>>

\* serverLoadProgress, which may find nothing because it fails; then the
\* listeners of an earlier run are taken off the element and new ones put on.
Progress(r) ==
  /\ tab.run[r] = "progress"
  /\ \E remote \in {stored} \cup (IF Fault THEN {Nothing} ELSE {}) :
       /\ tab' = [tab EXCEPT !.run[r] = "load", !.start[r] = ResumeAt(remote), !.listeners = r]
       /\ hist' = [hist EXCEPT !.faults = IF remote = stored THEN @ ELSE @ + 1]
  /\ UNCHANGED <<stored, local, posts>>

\* The stream is loaded at the start; after a recovery the video is put back to
\* where it was, unless that was the beginning.
Loaded(r) ==
  /\ tab.run[r] = "load" /\ tab.player = r
  /\ tab' = [tab EXCEPT !.run[r] = "done",
                        !.pos = IF tab.full[r] > 0 THEN tab.full[r] ELSE tab.start[r]]
  /\ UNCHANGED <<stored, local, posts, hist>>

\* The stream is not there, or the player was destroyed.
LoadFails(r) ==
  /\ tab.run[r] = "load"
  /\ tab.player # r \/ Fault
  /\ Goes(r, "failed")
  /\ hist' = [hist EXCEPT !.faults = IF tab.player = r THEN @ + 1 ELSE @]
  /\ UNCHANGED <<stored, local, posts>>

\* Error 3017 of a player: the buffer is full.  The first time the player is made
\* anew, with a smaller buffer.
QuotaError(r, n) ==
  /\ tab.player = r /\ tab.run[r] \in {"load", "done"}
  /\ ~tab.attempted
  /\ tab.run[n] = "off" /\ \A m \in Runs : tab.run[m] = "off" => n <= m
  /\ tab' = [tab EXCEPT !.run[n] = "destroy", !.full[n] = tab.pos,
                        !.attempted = Attempted(n)]
  /\ UNCHANGED <<stored, local, posts, hist>>

-----------------------------------------------------------------------------
(* Events of the video element, and what their listeners do.               *)

Playing == tab.player # 0 /\ tab.run[tab.player] = "done"

Plays ==
  /\ Playing /\ Move /\ tab.pos < End
  /\ tab' = [tab EXCEPT !.pos = @ + 1]
  /\ hist' = [hist EXCEPT !.moves = @ + 1]
  /\ UNCHANGED <<stored, local, posts>>

\* saveProgress, at most every five seconds.
SaveProgress ==
  /\ tab.listeners # 0
  /\ local' = Kept(tab.pos)
  /\ UNCHANGED <<stored, posts, tab, hist>>

Posted(x, moves) ==
  /\ Cardinality(posts \cup {x}) <= MaxPosts
  /\ posts' = posts \cup {x}
  /\ hist' = [hist EXCEPT !.moves = @ + moves, !.last = x,
                          !.furthest = IF @ = Nothing THEN x ELSE Max({@, x})]

\* serverSaveProgress, every thirty seconds and when the video is paused.
Post ==
  /\ tab.listeners # 0
  /\ Posted(tab.pos, 0)
  /\ UNCHANGED <<stored, local, tab>>

\* The user, the button that skips an intro, or a comment's time stamp.
Seek(x) ==
  /\ Playing /\ Move /\ x # tab.pos
  /\ tab' = [tab EXCEPT !.pos = x]
  /\ Posted(x, 1)
  /\ UNCHANGED <<stored, local>>

Ended ==
  /\ Playing /\ tab.pos = End
  /\ Posted(End, 0)
  /\ local' = Kept(End)
  /\ UNCHANGED <<stored, tab>>

-----------------------------------------------------------------------------
(* The server.                                                             *)

SavePlaybackProgress(x) ==
  /\ x \in posts
  /\ posts' = posts \ {x}
  /\ stored' = IF Overwrites(x) THEN x ELSE stored
  /\ UNCHANGED <<local, tab, hist>>

LosePost(x) ==
  /\ x \in posts /\ Fault
  /\ posts' = posts \ {x}
  /\ hist' = [hist EXCEPT !.faults = @ + 1, !.lost = TRUE]
  /\ UNCHANGED <<stored, local, tab>>

-----------------------------------------------------------------------------
Next ==
  \/ OpenWatch \/ OpenHome \/ Leave
  \/ \E r \in Runs : Destroyed(r) \/ Attached(r) \/ Marked(r) \/ Progress(r)
                     \/ Loaded(r) \/ LoadFails(r)
                     \/ \E n \in Runs : QuotaError(r, n)
  \/ Plays \/ SaveProgress \/ Post \/ Ended
  \/ \E x \in Positions : Seek(x) \/ SavePlaybackProgress(x) \/ LosePost(x)

Spec == Init /\ [][Next]_vars

-----------------------------------------------------------------------------
(* Properties.                                                             *)

Saved      == Positions \cup {Nothing}
Players    == Runs \cup {0}
StageOf    == [Runs -> Stages]
PositionOf == [Runs -> Positions]

TabType == [page : {"none", "watch", "home"}, pos : Positions, run : StageOf,
            player : Players, listeners : Players, start : PositionOf,
            full : PositionOf, attempted : BOOLEAN, shows : Saved]
HistType == [visits : Nat, moves : Nat, faults : Nat,
             furthest : Saved, last : Saved, lost : BOOLEAN]

\* The types of the state; the browser keeps no position of a video that is not
\* started or watched.
TypeOK ==
  /\ {stored, local} \subseteq Saved /\ posts \subseteq Positions
  /\ tab \in TabType /\ hist \in HistType
  /\ local = Nothing \/ Middle(local)

\* Posts that overtake one another, also from one visit to the next, leave the
\* furthest position on the server: none is undone by one that is older.
FurthestIsStored == (posts = {} /\ ~hist.lost) => stored = hist.furthest

\* The buffer may be full again, on the new player or once more on the old one
\* while it is being replaced: the player is made anew at most once.
RecoversOnce == tab.run[3] = "off"

\* A video that was left in the middle is on the home page, at the furthest
\* position, as long as the server can be asked, whatever became of the entry of
\* the browser.
LeftIsContinued ==
  [][(tab.page # "home" /\ tab'.page = "home" /\ posts = {} /\ hist'.faults = 0
      /\ Middle(hist.furthest)) => tab'.shows = hist.furthest]_vars

=============================================================================
