--------------------------------- MODULE Browse ---------------------------------
(***************************************************************************)
(* The pages that show the library: a category as a grid with a search     *)
(* field and a button for more, a series with a tab per season, both of    *)
(* src/static/browse.js, the pill in the bar of every page, polled by      *)
(* src/static/shared.js, which the home page (browse-home.js) writes too,  *)
(* and the command palette of every page (browse-palette.js).              *)
(*                                                                         *)
(* A page never waits for one request before it sends the next, and takes  *)
(* answers in whatever order they come.  A behaviour stays on one page; of *)
(* the page under the palette nothing is looked at.                        *)
(***************************************************************************)
EXTENDS Integers, Sequences, FiniteSets, SequencesExt, FiniteSetsExt

CONSTANTS
  Jobs,          \* videos
  First,         \* the videos there are at the start, newest first
  Found,         \* videos that the one search word finds
  Seasons,       \* seasons of the series, and of each video its own
  SeasonOf,
  Nothing,       \* no video, no season, no answer yet
  PageSize,      \* JOBS_PER_PAGE
  PaletteSize,   \* videos the palette asks for
  Actions,       \* quick actions, those that the word finds, and the one that
  ActionsFound,  \* stays on the page
  Theme,
  MaxRequests,   \* bound: requests for lists, deletes and edits
  MaxPolls,      \* bound: polls under way at once
  MaxChanges     \* bound: failures, uploads that complete, words typed

ASSUME BrowseAssumption ==
  /\ Nothing \notin BOOLEAN
  /\ IsFiniteSet(Jobs) /\ First \in Seq(Jobs) /\ IsInjective(First)
  /\ Found \subseteq Jobs /\ SeasonOf \in [Jobs -> Seasons] /\ Seasons # {}
  /\ PageSize \in Nat \ {0} /\ PaletteSize \in Nat
  /\ Actions \in Seq(ToSet(Actions)) /\ ActionsFound \in Seq(ToSet(Actions))
  /\ Theme \in ToSet(Actions)
  /\ MaxRequests \in Nat /\ MaxPolls \in Nat /\ MaxChanges \in Nat

VARIABLES
  lib,   \* of the server: the videos, newest first, those edited, jobs at work
  view,  \* the page: "grid", "seasons", "home" or "other"; or "palette"
  page,  \* of a list: videos, last page, is there more, is the button visible,
         \* search word, is the debounce timer set; of the edit box: its video,
         \* is its button disabled; the videos that are shown as edited
  tabs,  \* of a series: selected season, cached and shown episodes
  pill,  \* text of the pill, the polls, and what the home page asks when it opens:
         \* "idle", "sent", or the answer, are there jobs at work
  pal,   \* the palette: is it open, is a word typed, is the debounce timer set,
         \* the rows, the word they answer, activeIdx counted from 1, 0 for none
  calls, \* requests: kind, argument, search word, and the answer once there is one
  hist   \* requests and changes so far; is what the list, or the palette, shows the
         \* outcome of one request after the other on a library that stood still

vars == <<lib, view, page, tabs, pill, pal, calls, hist>>

-----------------------------------------------------------------------------
\* A plausible slip in each of the operators below.
NextPage_Slip(no)         == no
CacheKey_Slip(n)          == tabs.selected
Frees_Slip(n)            == FALSE
PillText_Slip(jobs, text) == IF jobs = "some" THEN "processing" ELSE text

\* loadMoreJobs counts from the page that is shown.
NextPage(no) == no + 1

\* Episodes are cached under the season they were asked for.
CacheKey(n) == calls[n].arg

\* The button of the edit box comes back without an answer, too.
Frees(n) == calls[n].kind = "edit"

\* An edit is shown for the video whose box was saved.
EditedJob(n) == calls[n].arg

\* updatePill: the home page keeps the text, which it has written itself.
PillText(jobs, text) ==
  IF jobs = "some" THEN "processing" ELSE IF view = "home" THEN text ELSE "idle"

\* The n-th of a set of numbers, counted from 1.
Nth(S, n) == CHOOSE c \in S : Cardinality({d \in S : d < c}) = n - 1

\* filter, and WHERE: the elements of a list that are in S, in their order.
Places(s, S) == {i \in DOMAIN s : s[i] \in S}
Filter(s, S) == [k \in 1..Cardinality(Places(s, S)) |-> s[Nth(Places(s, S), k)]]

\* A video in a list is found by the search word of the list, if it has one.
Matching(word) ==
  IF word THEN Filter(lib.jobs, Found) ELSE lib.jobs

\* handle_list_jobs: a page of the matching videos.
Page(word, no) ==
  LET all == Matching(word)
  IN [jobs |-> SubSeq(all, (no - 1) * PageSize + 1, Min({no * PageSize, Len(all)})),
      more |-> no * PageSize < Len(all)]

\* What a page takes an error for, which it does not look at.
Error == [jobs |-> <<>>, more |-> FALSE]

\* quickActions
QuickActions(word) == IF word THEN ActionsFound ELSE Actions

Episodes(s) == {j \in ToSet(lib.jobs) : SeasonOf[j] = s}

-----------------------------------------------------------------------------
Request == hist.asked < MaxRequests
Change  == hist.changes < MaxChanges

Call(kind, arg, word) == [kind |-> kind, arg |-> arg, word |-> word, ans |-> Nothing]
Over == Call("none", Nothing, FALSE)

\* The first page has been asked for.
Init ==
  /\ lib = [jobs |-> First, edited |-> {}, active |-> 0]
  /\ view \in {"grid", "seasons", "home", "other", "palette"}
  /\ page = [all |-> <<>>, no |-> 1, more |-> FALSE, button |-> FALSE, word |-> FALSE,
             timer |-> FALSE, box |-> Nothing, saving |-> FALSE, edited |-> {}]
  /\ tabs = [selected |-> Nothing, cache |-> [s \in Seasons |-> Nothing], shown |-> Nothing]
  /\ pill = [text |-> "idle", polls |-> [p \in 1..MaxPolls |-> "idle"],
             home |-> IF view = "home" THEN "sent" ELSE "idle"]
  /\ pal = [open |-> FALSE, word |-> FALSE, timer |-> FALSE, list |-> <<>>,
            shown |-> Nothing, active |-> 0]
  /\ calls = [n \in 0..MaxRequests |->
                IF n = 0 /\ view = "grid" THEN Call("list", 1, FALSE) ELSE Over]
  /\ hist = [asked |-> 0, changes |-> 0, calm |-> TRUE, removed |-> FALSE]

UnderWay == {n \in 0..MaxRequests : calls[n] # Over}
Lists    == {n \in UnderWay : calls[n].kind \in {"list", "more"}}
Alone    == \A n \in UnderWay : calls[n].kind \notin {"list", "more", "delete", "palette"}

\* A request leaves.
Asks(q) ==
  /\ Request
  /\ calls' = [calls EXCEPT ![hist.asked + 1] = q]

-----------------------------------------------------------------------------
(* The grid.                                                               *)

\* setSearchQuery: the list is loaded when nothing was typed for a while.
Type ==
  /\ view = "grid" /\ Change
  /\ page' = [page EXCEPT !.word = ~@, !.timer = TRUE]
  /\ hist' = [hist EXCEPT !.changes = @ + 1, !.calm = FALSE]
  /\ UNCHANGED <<lib, view, tabs, pill, pal, calls>>

\* loadJobs: the list is emptied, the button stays.
LoadJobs ==
  /\ page.timer
  /\ Asks(Call("list", 1, page.word))
  /\ page' = [page EXCEPT !.timer = FALSE, !.all = <<>>]
  /\ hist' = [hist EXCEPT !.asked = @ + 1, !.calm = Alone, !.removed = FALSE]
  /\ UNCHANGED <<lib, view, tabs, pill, pal>>

\* After a delete the next page starts one video too late.
LoadMoreJobs ==
  /\ page.button
  /\ Asks(Call("more", NextPage(page.no), page.word))
  /\ hist' = [hist EXCEPT !.asked = @ + 1, !.calm = @ /\ Alone /\ ~hist.removed]
  /\ UNCHANGED <<lib, view, page, tabs, pill, pal>>

DeleteJob(j) ==
  /\ j \in ToSet(page.all)
  /\ Asks(Call("delete", j, FALSE))
  /\ hist' = [hist EXCEPT !.asked = @ + 1, !.calm = @ /\ Alone, !.removed = TRUE]
  /\ UNCHANGED <<lib, view, page, tabs, pill, pal>>

OpenEditModal(j) ==
  /\ j \in ToSet(page.all) /\ page.box # j
  /\ page' = [page EXCEPT !.box = j]
  /\ UNCHANGED <<lib, view, tabs, pill, pal, calls, hist>>

CloseEditModal ==
  /\ page.box # Nothing
  /\ page' = [page EXCEPT !.box = Nothing]
  /\ UNCHANGED <<lib, view, tabs, pill, pal, calls, hist>>

SaveEditModal ==
  /\ page.box # Nothing /\ ~page.saving
  /\ Asks(Call("edit", page.box, FALSE))
  /\ page' = [page EXCEPT !.saving = TRUE]
  /\ hist' = [hist EXCEPT !.asked = @ + 1]
  /\ UNCHANGED <<lib, view, tabs, pill, pal>>

-----------------------------------------------------------------------------
(* The seasons.                                                            *)

\* loadSeasonEpisodes, of the first season and of the tab that is clicked.
LoadSeasonEpisodes(s) ==
  /\ view = "seasons" /\ tabs.selected # s
  /\ IF tabs.cache[s] # Nothing
     THEN /\ tabs' = [tabs EXCEPT !.selected = s, !.shown = tabs.cache[s]]
          /\ UNCHANGED <<calls, hist>>
     ELSE /\ tabs' = [tabs EXCEPT !.selected = s]
          /\ Asks(Call("episodes", s, FALSE))
          /\ hist' = [hist EXCEPT !.asked = @ + 1]
  /\ UNCHANGED <<lib, view, page, pill, pal>>

-----------------------------------------------------------------------------
(* The palette.                                                            *)

\* open: what is typed is forgotten, but neither the timer nor a request.
OpenPalette ==
  /\ view = "palette" /\ ~pal.open
  /\ Asks(Call("palette", Nothing, FALSE))
  /\ pal' = [pal EXCEPT !.open = TRUE, !.word = FALSE, !.list = <<>>, !.shown = Nothing,
                        !.active = 0]
  /\ hist' = [hist EXCEPT !.asked = @ + 1, !.calm = Alone /\ ~pal.timer]
  /\ UNCHANGED <<lib, view, page, tabs, pill>>

ClosePalette ==
  /\ pal.open
  /\ pal' = [pal EXCEPT !.open = FALSE]
  /\ UNCHANGED <<lib, view, page, tabs, pill, calls, hist>>

\* scheduleSearch: a word waits a moment, without one the newest videos are asked
\* for at once.
TypeInPalette ==
  /\ pal.open /\ Change
  /\ pal' = [pal EXCEPT !.word = ~@, !.timer = ~pal.word, !.active = 0]
  /\ IF pal.word
     THEN /\ Asks(Call("palette", Nothing, FALSE))
          /\ hist' = [hist EXCEPT !.changes = @ + 1, !.asked = @ + 1, !.calm = Alone]
     ELSE /\ hist' = [hist EXCEPT !.changes = @ + 1]
          /\ UNCHANGED calls
  /\ UNCHANGED <<lib, view, page, tabs, pill>>

PaletteSearch ==
  /\ pal.timer
  /\ Asks(Call("palette", Nothing, TRUE))
  /\ pal' = [pal EXCEPT !.timer = FALSE]
  /\ hist' = [hist EXCEPT !.asked = @ + 1, !.calm = @ /\ Alone]
  /\ UNCHANGED <<lib, view, page, tabs, pill>>

\* moveActive
MoveActive(dir) ==
  LET rows == Len(pal.list) IN
  /\ pal.open /\ rows > 0
  /\ pal' = [pal EXCEPT !.active =
       IF @ = 0 THEN IF dir > 0 THEN 1 ELSE rows ELSE Max({1, Min({rows, @ + dir})})]
  /\ UNCHANGED <<lib, view, page, tabs, pill, calls, hist>>

\* activate, and a click on a row: all but one of them leave the page.
Activate(i) ==
  /\ pal.open /\ i \in DOMAIN pal.list /\ pal.list[i] = Theme
  /\ pal' = [pal EXCEPT !.open = FALSE]
  /\ UNCHANGED <<lib, view, page, tabs, pill, calls, hist>>

Enter == Activate(IF pal.active > 0 THEN pal.active ELSE 1)

-----------------------------------------------------------------------------
(* The server, and the answers.                                            *)

\* Of an edit or a delete the answer is whether the video was there.  The word of
\* the palette is in a parameter that handle_list_jobs does not know.
Serve(n) ==
  LET q    == calls[n]
      j    == q.arg
      there == j \in ToSet(lib.jobs)
      ans == CASE q.kind \in {"list", "more"}   -> Page(q.word, q.arg)
               [] q.kind = "episodes"           -> Episodes(q.arg)
               [] q.kind = "palette"            -> SubSeq(lib.jobs, 1,
                                                     Min({PaletteSize, Len(lib.jobs)}))
               [] q.kind \in {"delete", "edit"} -> there
  IN /\ q.ans = Nothing
     /\ calls' = [calls EXCEPT ![n].ans = ans]
     /\ lib' = IF q.kind = "delete" /\ there
               THEN [lib EXCEPT !.jobs = Filter(@, Jobs \ {j})]
               ELSE IF q.kind = "edit" /\ there THEN [lib EXCEPT !.edited = @ \cup {j}]
               ELSE lib
     /\ UNCHANGED <<view, page, tabs, pill, pal, hist>>

\* The server answers with an error, which lists take for an empty answer.
Refuse(n) ==
  /\ calls[n].ans = Nothing /\ Change
  /\ calls' = [calls EXCEPT ![n].ans =
       CASE n \in Lists                 -> Error
         [] calls[n].kind = "episodes" -> {}
         [] calls[n].kind = "palette"  -> <<>>
         [] OTHER                      -> FALSE]
  /\ hist' = [hist EXCEPT !.changes = @ + 1, !.calm = @ /\ n \notin Lists]
  /\ UNCHANGED <<lib, view, page, tabs, pill, pal>>

\* No answer, to the palette as good as an error.
Lose(n) ==
  /\ Change /\ calls[n].kind # "palette"
  /\ calls' = [calls EXCEPT ![n] = Over]
  /\ page' = [page EXCEPT !.saving = @ /\ ~Frees(n)]
  /\ hist' = [hist EXCEPT !.changes = @ + 1,
                          !.calm = @ /\ calls[n].kind \notin {"list", "delete"}]
  /\ UNCHANGED <<lib, view, tabs, pill, pal>>

\* The answer changes the page.
Take(n) ==
  LET q == calls[n] IN
  /\ q.ans # Nothing
  /\ calls' = [calls EXCEPT ![n] = Over]
  /\ \/ /\ q.kind = "list"
        /\ page' = [page EXCEPT !.all = q.ans.jobs, !.no = 1, !.more = q.ans.more,
                                !.button = q.ans.more, !.edited = {}]
        /\ UNCHANGED tabs
     \/ /\ q.kind = "more"
        /\ page' = [page EXCEPT !.all = @ \o q.ans.jobs, !.no = q.arg, !.more = q.ans.more,
                                !.button = q.ans.more]
        /\ UNCHANGED tabs
     \/ /\ q.kind = "delete"
        /\ page' = IF q.ans THEN [page EXCEPT !.all = Filter(@, Jobs \ {q.arg})]
                   ELSE page
        /\ UNCHANGED tabs
     \/ /\ q.kind = "edit"
        /\ page' = [page EXCEPT !.saving = FALSE, !.box = IF q.ans THEN Nothing ELSE @,
                                !.edited = IF q.ans THEN @ \cup {EditedJob(n)} ELSE @]
        /\ UNCHANGED tabs
     \/ /\ q.kind = "episodes"
        /\ tabs' = [tabs EXCEPT !.cache[CacheKey(n)] = q.ans, !.shown = q.ans]
        /\ UNCHANGED page
  /\ UNCHANGED <<lib, view, pill, pal, hist>>

\* render, open or not; the active row stays.
TakePalette(n) ==
  LET q == calls[n] IN
  /\ q.kind = "palette" /\ q.ans # Nothing
  /\ calls' = [calls EXCEPT ![n] = Over]
  /\ pal' = [pal EXCEPT !.list = q.ans \o QuickActions(q.word), !.shown = q.word]
  /\ UNCHANGED <<lib, view, page, tabs, pill, hist>>

\* An upload completes.
NewJob(j) ==
  /\ view \in {"grid", "seasons"}
  /\ Change /\ j \notin ToSet(lib.jobs)
  /\ lib' = [lib EXCEPT !.jobs = <<j>> \o @]
  /\ hist' = [hist EXCEPT !.changes = @ + 1, !.calm = FALSE]
  /\ UNCHANGED <<view, page, tabs, pill, pal, calls>>

-----------------------------------------------------------------------------
(* The pill, looked at on the pages without a list.                        *)

\* Jobs begin and end to be processed.
Work ==
  /\ view \in {"home", "other"}
  /\ lib' = [lib EXCEPT !.active = 1 - @]
  /\ UNCHANGED <<view, page, tabs, pill, pal, calls, hist>>

AtWork == IF lib.active > 0 THEN "some" ELSE "none"

\* The home page asks for its rows and the health of the server and writes the pill
\* once; without rows it does not, without health it sees no job at work.
HomeServed ==
  /\ pill.home = "sent"
  /\ \/ pill' = [pill EXCEPT !.home = AtWork] /\ UNCHANGED hist
     \/ /\ Change
        /\ \E a \in {"idle", "none"} : pill' = [pill EXCEPT !.home = a]
        /\ hist' = [hist EXCEPT !.changes = @ + 1]
  /\ UNCHANGED <<lib, view, page, tabs, pal, calls>>

HomeTaken ==
  /\ pill.home \in {"some", "none"}
  /\ pill' = [pill EXCEPT !.home = "idle",
                          !.text = IF pill.home = "some" THEN "processing" ELSE "health"]
  /\ UNCHANGED <<lib, view, page, tabs, pal, calls, hist>>

\* pollActiveJobs, by the timers and when the panel is opened.
Poll(p) ==
  /\ view \in {"home", "other"}
  /\ pill.polls[p] = "idle"
  /\ pill' = [pill EXCEPT !.polls[p] = "sent"]
  /\ UNCHANGED <<lib, view, page, tabs, pal, calls, hist>>

PollServed(p) ==
  /\ pill.polls[p] = "sent"
  /\ pill' = [pill EXCEPT !.polls[p] = AtWork]
  /\ UNCHANGED <<lib, view, page, tabs, pal, calls, hist>>

PollTaken(p) ==
  /\ pill.polls[p] \in {"some", "none"}
  /\ pill' = [pill EXCEPT !.polls[p] = "idle",
                          !.text = PillText(pill.polls[p], @)]
  /\ UNCHANGED <<lib, view, page, tabs, pal, calls, hist>>

-----------------------------------------------------------------------------
Next ==
  \/ Type \/ LoadJobs \/ LoadMoreJobs \/ CloseEditModal \/ SaveEditModal \/ Work
  \/ HomeServed \/ HomeTaken
  \/ OpenPalette \/ ClosePalette \/ TypeInPalette \/ PaletteSearch \/ Enter
  \/ \E dir \in {1, -1} : MoveActive(dir)
  \/ \E i \in DOMAIN pal.list : Activate(i)
  \/ \E j \in Jobs : DeleteJob(j) \/ OpenEditModal(j) \/ NewJob(j)
  \/ \E s \in Seasons : LoadSeasonEpisodes(s)
  \/ \E n \in UnderWay : Serve(n) \/ Refuse(n) \/ Lose(n) \/ Take(n) \/ TakePalette(n)
  \/ \E p \in 1..MaxPolls : Poll(p) \/ PollServed(p) \/ PollTaken(p)

Spec == Init /\ [][Next]_vars

\* The timers of the page go on, the server answers, and the page takes the answers.
FairSpec ==
  Spec /\ \A p \in 1..MaxPolls :
            WF_vars(Poll(p)) /\ WF_vars(PollServed(p)) /\ WF_vars(PollTaken(p))

-----------------------------------------------------------------------------
(* Properties.                                                             *)

\* The types of the state; and the button of the edit box is disabled exactly
\* while a save is under way, whatever boxes were opened and closed since.
TypeOK ==
  /\ lib.jobs \in Seq(Jobs) /\ lib.edited \subseteq Jobs /\ lib.active \in 0..1
  /\ page.all \in Seq(Jobs) /\ page.no \in Nat \ {0} /\ page.edited \subseteq Jobs
  /\ {page.more, page.button, page.word, page.timer, page.saving} \subseteq BOOLEAN
  /\ page.box \in Jobs \cup {Nothing}
  /\ tabs.selected \in Seasons \cup {Nothing}
  /\ \A s \in Seasons : tabs.cache[s] = Nothing \/ tabs.cache[s] \subseteq Jobs
  /\ pill.text \in {"health", "processing", "idle"}
  /\ \A n \in UnderWay : calls[n].kind \in {"list", "more", "delete", "edit", "episodes", "palette"}
  /\ pal.active \in Nat /\ pal.shown \in BOOLEAN \cup {Nothing}
  /\ page.saving <=> \E n \in UnderWay : calls[n].kind = "edit"

\* As long as requests for the list follow one another and nobody else changes the
\* library, the grid shows the first of the matching videos, in order and none
\* twice, through searches, pages and deletes, and says whether there are more.
CalmListIsPrefix ==
  (view = "grid" /\ hist.calm /\ UnderWay = {}) =>
    /\ IsPrefix(page.all, Matching(page.word))
    /\ page.more = (Len(page.all) < Len(Matching(page.word)))

\* Answers may come when another season is selected, another box is open or something
\* else is typed.  Still what is cached of a season are episodes of it, an edit is
\* shown only for a video that was edited, and the palette, when its requests did not
\* overlap, in the end shows the rows for what is typed.
AnswersFitQuestions ==
  /\ \A s \in Seasons : tabs.cache[s] # Nothing =>
       \A j \in tabs.cache[s] : SeasonOf[j] = s
  /\ page.edited \subseteq lib.edited
  /\ (pal.open /\ hist.calm /\ UnderWay = {} /\ ~pal.timer) => pal.shown = pal.word

\* On every page but the home page the pill says idle in the end if no job is at
\* work any more, whatever order the polls are answered in.
PillSettles == (view = "other" /\ <>[](lib.active = 0)) => <>[](pill.text = "idle")
=============================================================================
