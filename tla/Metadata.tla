-------------------------------- MODULE Metadata --------------------------------
(***************************************************************************)
(* What is known about a video: the table of the upload page, filled from  *)
(* the names of the files, edited, and searched for at TMDB and AniList    *)
(* (src/static/upload.js); the run that uploads the files of the table one *)
(* after the other; and the edit box of the watch page (src/static/        *)
(* watch.js), with what the server makes of both.  A behaviour stays on    *)
(* one page.                                                               *)
(*                                                                         *)
(* A row of the table is an object that searches and the run hold on to,   *)
(* so rows are kept by selection and index, and never change their place.  *)
(* Chunks, cancelling and a second run are those of UploadPage.            *)
(***************************************************************************)
EXTENDS Naturals, Sequences, SequencesExt

CONSTANTS
  Nothing,        \* null, undefined, no answer yet
  Files, Video,   \* files, and the one whose watch page may be open
  Order,          \* the files in the order of sortByEpisode
  Parsed,         \* what the name of a file says, per field
  Categories,     \* categories the user uploads under
  Texts, Numbers, \* what the user types, the empty text and Nothing included
  Typed,          \* what the user leaves in the edit box: values of all fields
  Words, Results, \* search words, and what the provider finds
  Items, TitleOf, \* what can be found, and titles
  AutoItem,       \* what the automatic search takes
  MaxSelections, MaxRequests, MaxInputs, MaxFaults  \* bounds

Keys == {"title", "series", "season", "episode", "part"}
TextKeys == {"title", "series"}

\* CATEGORY_DB
DbFields(cat) ==
  [media  |-> CASE cat \in {"Film", "Film Series"}         -> "Film"
                [] cat = "TV Series"                       -> "Series"
                [] cat = "Anime Film"                      -> "Anime Film"
                [] cat \in {"Anime TV", "Anime TV Series"} -> "Anime TV",
   series |-> cat \in {"Film Series", "TV Series", "Anime TV Series"}]

AllCategories ==
  {"Film", "Film Series", "TV Series", "Anime Film", "Anime TV", "Anime TV Series"}

\* A form has a text in "title" and "series", a number or Nothing elsewhere.
Values(k) == IF k \in TextKeys THEN Texts ELSE Numbers
IsForm(v) == DOMAIN v = Keys /\ \A k \in Keys : v[k] \in Values(k)

ASSUME MetadataAssumption ==
  /\ Nothing \notin BOOLEAN \cup (Nat \X Nat)
  /\ Video \in Files /\ Order \in Seq(Files) /\ ToSet(Order) = Files
  /\ IsInjective(Order)
  /\ Categories \subseteq AllCategories /\ "" \in Texts /\ Nothing \in Numbers
  /\ \A f \in Files : IsForm(Parsed[f])
  /\ \A v \in Typed : IsForm(v)
  /\ \A w \in Words : Results[w] \in Seq(Items)
  /\ TitleOf \in [Items -> STRING] /\ AutoItem \in Items
  /\ {MaxSelections, MaxRequests, MaxInputs, MaxFaults} \subseteq Nat

VARIABLES
  place,  \* the page that is open: "upload" or "watch"
  table,  \* category, the selection that is pendingFiles (0 when it is empty),
          \* is the table to be seen, is the Start button enabled
  rows,   \* per selection its rows: file, metadata, external_metadata,
          \* _metadata_results, the results there are buttons for, the ones clicked
  run,    \* of the run: where it is, its dbFields, the row it uploads
  server, \* per file its job as stored, the linked item, and the automatic search
  page,   \* the watch page: currentJob, is the box open, are its two buttons
          \* disabled, the results it lists
  calls,  \* requests, with their answer once there is one
  hist    \* what was done so far, see Init

vars == <<place, table, rows, run, server, page, calls, hist>>

-----------------------------------------------------------------------------
(* The forms.                                                              *)

\* The columns of the table, and with the title the fields of the edit box.
Columns(cat) ==
  CASE cat \in {"Film", "Anime Film"} -> {"title"}
    [] cat = "Film Series"            -> {"series", "title", "part"}
    [] OTHER                          -> {"series", "season", "episode"}

BoxFields(cat) == Columns(cat) \cup {"title"}

Required(cat) == Columns(cat) \ {"season"}

Blank(k) == IF k \in TextKeys THEN "" ELSE Nothing

\* A form in which only some of the keys are filled in.
Only(v, ks) == [k \in Keys |-> IF k \in ks THEN v[k] ELSE Blank(k)]

\* parseMetadata
ParseMetadata(f, cat) == Only(Parsed[f], Columns(cat))

\* getCategoryFromJob
CategoryOf(job) == CHOOSE c \in AllCategories : DbFields(c) = job.db

-----------------------------------------------------------------------------
\* A plausible slip in each of the operators below.
Valid_Slip(list, cat) ==
  \A i \in DOMAIN list : \A k \in Required(cat) \ {"part"} : list[i].meta[k] # Blank(k)
Holder_Slip(n) ==
  LET to == <<table.sel, calls[n].to[2]>>
  IN IF table.sel # 0 /\ to[2] \in DOMAIN rows[table.sel] THEN to ELSE calls[n].to
Updated_Slip(job, cat, v) ==
  [db |-> DbFields(cat), saved |-> job.saved,
   form |-> [k \in Keys |-> IF v[k] # Blank(k) THEN v[k] ELSE job.form[k]]]
Frees_Slip(kind, n) == calls[n].kind = kind /\ calls[n].ans # FALSE

\* validateMetadata
Valid(list, cat) ==
  \A i \in DOMAIN list : \A k \in Required(cat) : list[i].meta[k] # Blank(k)

\* The results of a search go to the row that was searched for.
Holder(n) == calls[n].to

\* normalize_job_metadata: what is no series has no numbers.
Normalized(job) ==
  IF job.db.series THEN job ELSE [job EXCEPT !.form = Only(@, TextKeys)]

\* update_job_metadata_fields: the box sends the texts and the numbers of its
\* form; an empty number is a null.
Updated(job, cat, v) ==
  [db |-> DbFields(cat), saved |-> job.saved,
   form |-> [k \in Keys |-> IF k \in TextKeys \cup Columns(cat) THEN v[k] ELSE job.form[k]]]

\* What the page makes of its own copy.
Merged(cat, v) ==
  [db |-> DbFields(cat), saved |-> TRUE,
   form |-> Only(v, BoxFields(cat))]

\* A button of the box comes back when its request ends in any way.
Frees(kind, n) == calls[n].kind = kind

-----------------------------------------------------------------------------
Over == [kind |-> "none", to |-> Nothing, arg |-> Nothing, ans |-> Nothing]
Call(kind, to, arg) == [kind |-> kind, to |-> to, arg |-> arg, ans |-> Nothing]

UnderWay == {n \in 1..MaxRequests : calls[n] # Over}
Asking(kind) == \E n \in UnderWay : calls[n].kind = kind

Asks(q) ==
  /\ hist.asked < MaxRequests
  /\ calls' = [calls EXCEPT ![hist.asked + 1] = q]

Idle == [at |-> 0, stage |-> "idle", db |-> Nothing, row |-> Nothing]

\* finalize: a video without a title has the name of its file.
Request(meta) == [meta EXCEPT !["title"] = IF @ = "" THEN "file" ELSE @]

\* insert_job_marker: a row with nothing but the name of the file.
Marker ==
  [db |-> DbFields("Film"), saved |-> FALSE,
   form |-> [k \in Keys |-> IF k = "title" THEN "file" ELSE Blank(k)]]

\* The watch page is of a job that some upload has saved.
Stored ==
  UNION {{[db |-> DbFields(c), saved |-> TRUE, form |-> Only(v, BoxFields(c))] :
            v \in {w \in Typed : w["title"] # ""}} : c \in AllCategories}

Init ==
  /\ place \in {"upload", "watch"}
  /\ table \in {[cat |-> c, sel |-> 0, shown |-> FALSE, start |-> FALSE] : c \in Categories}
  /\ rows = [s \in 1..MaxSelections |-> <<>>]
  /\ run = Idle
  /\ \E job \in Stored :
       LET stored == Normalized(job) IN
       /\ server = [jobs |-> [f \in Files |->
                      IF place = "watch" /\ f = Video THEN stored ELSE Nothing],
                    links |-> [f \in Files |-> Nothing],
                    auto |-> IF place = "watch" THEN "pending" ELSE "off"]
       /\ page = [job |-> stored, open |-> FALSE, saving |-> FALSE, searching |-> FALSE,
                  hits |-> <<>>]
       /\ place = "upload" => job = CHOOSE j \in Stored : TRUE
       /\ place = "watch" => table.cat = CHOOSE c \in Categories : TRUE
  /\ calls = [n \in 1..MaxRequests |-> Over]
  /\ hist = [asked |-> 0, typed |-> 0, chosen |-> 0, faults |-> 0,
             calm    |-> TRUE,     \* was nothing selected during a run
             agree   |-> TRUE,     \* has nobody but the box changed the stored job
             ordered |-> TRUE,     \* was each link asked for when none was under way
             linked  |-> Nothing]  \* the item of the last link that was answered

-----------------------------------------------------------------------------
(* The table of the upload page.                                           *)

Current == IF table.sel = 0 THEN <<>> ELSE rows[table.sel]

InTable == place = "upload" /\ table.shown

\* A click on a category empties the list and hides the table.
ChooseCategory(cat) ==
  /\ place = "upload" /\ cat # table.cat
  /\ table' = [table EXCEPT !.cat = cat, !.sel = 0, !.shown = FALSE]
  /\ hist' = [hist EXCEPT !.calm = @ /\ run = Idle]
  /\ UNCHANGED <<place, rows, run, server, page, calls>>

\* sortByEpisode: the files in their order.
Precedes(f, g) == \E i, j \in DOMAIN Order : i < j /\ Order[i] = f /\ Order[j] = g

SortByEpisode(fs) ==
  {l \in UNION {[1..n -> fs] : n \in DOMAIN Order} :
     ToSet(l) = fs /\ \A i, j \in DOMAIN l : i < j => Precedes(l[i], l[j])}

\* A row as rebuildMetadataTable makes it.
Row(f, cat) ==
  [file |-> f, meta |-> ParseMetadata(f, cat), ext |-> Nothing,
   results |-> Nothing, buttons |-> <<>>, clicked |-> <<>>]

\* handleSelectedFiles: a film is the first of the files, a series all of them.
HandleSelectedFiles(fs) ==
  LET n    == hist.chosen + 1
      cat  == table.cat
      list == IF cat \in {"Film", "Anime Film"} THEN {<<f>> : f \in fs}
              ELSE SortByEpisode(fs)
  IN /\ place = "upload" /\ n <= MaxSelections
     /\ \E l \in list :
          LET new == [i \in DOMAIN l |-> Row(l[i], cat)] IN
          /\ rows' = [rows EXCEPT ![n] = new]
          /\ table' = [table EXCEPT !.sel = n, !.shown = TRUE, !.start = Valid(new, cat)]
     /\ hist' = [hist EXCEPT !.chosen = n, !.calm = @ /\ run = Idle]
     /\ UNCHANGED <<place, run, server, page, calls>>

Types(new) ==
  /\ InTable /\ table.sel # 0 /\ hist.typed < MaxInputs
  /\ new # Current
  /\ rows' = [rows EXCEPT ![table.sel] = new]
  /\ table' = [table EXCEPT !.start = Valid(new, table.cat)]
  /\ hist' = [hist EXCEPT !.typed = @ + 1]
  /\ UNCHANGED <<place, run, server, page, calls>>

\* The input handler of the table.
Input(i, k, v) ==
  /\ i \in DOMAIN Current /\ k \in Columns(table.cat)
  /\ Types([Current EXCEPT ![i].meta[k] = v])

\* "Apply to all": the name of the series.
ApplyAll(v) ==
  /\ DbFields(table.cat).series /\ v # ""
  /\ Types([i \in DOMAIN Current |-> [Current[i] EXCEPT !.meta["series"] = v]])

\* searchUploadMetadata: "Searching..." takes the place of the buttons.
SearchUploadMetadata(i, w) ==
  /\ InTable /\ i \in DOMAIN Current
  /\ Asks(Call("search", <<table.sel, i>>, w))
  /\ rows' = [rows EXCEPT ![table.sel][i].buttons = <<>>]
  /\ hist' = [hist EXCEPT !.asked = @ + 1]
  /\ UNCHANGED <<place, table, run, server, page>>

\* selectUploadMetadata: the button knows the number of its item only.
SelectUploadMetadata(i, k) ==
  /\ InTable /\ i \in DOMAIN Current
  /\ LET row == Current[i] IN
     /\ k \in DOMAIN row.buttons
     /\ row.results # Nothing /\ k \in DOMAIN row.results
     /\ rows' = [rows EXCEPT ![table.sel][i] =
          [row EXCEPT !.ext = row.results[k], !.clicked = Append(@, row.buttons[k]),
                      !.buttons = <<>>]]
  /\ UNCHANGED <<place, table, run, server, page, calls, hist>>

-----------------------------------------------------------------------------
(* The run.                                                                *)

RowOfRun == rows[run.row[1]][run.row[2]]

\* The Start button: the category is looked at once.
Start ==
  /\ InTable /\ table.start /\ run = Idle /\ table.sel # 0
  /\ table' = [table EXCEPT !.shown = FALSE, !.start = FALSE]
  /\ run' = [at |-> 1, stage |-> "sending", db |-> DbFields(table.cat),
             row |-> <<table.sel, 1>>]
  /\ UNCHANGED <<place, rows, server, page, calls, hist>>

\* All chunks are there: finalize, and the link if there is one.
Finalize ==
  LET row == RowOfRun IN
  /\ run.stage = "sending"
  /\ server' = [server EXCEPT !.jobs[row.file] = Marker, !.links[row.file] = Nothing]
  /\ IF row.ext # Nothing
     THEN /\ Asks(Call("link", row.file, row.ext))
          /\ run' = [run EXCEPT !.stage = "linking"]
          /\ hist' = [hist EXCEPT !.asked = @ + 1]
     ELSE /\ run' = [run EXCEPT !.stage = "polling"]
          /\ UNCHANGED <<calls, hist>>
  /\ UNCHANGED <<place, table, rows, page>>

\* The job is done: save_job writes what finalize was told, and the run goes on
\* with the next row of the list there is now, or ends and empties it.
Saved ==
  LET row  == RowOfRun
      next == run.at + 1
  IN
  /\ run.stage = "polling"
  /\ server' = [server EXCEPT !.jobs[row.file] =
                  Normalized([db |-> run.db, saved |-> TRUE, form |-> Request(row.meta)])]
  /\ IF next \in DOMAIN Current
     THEN /\ run' = [run EXCEPT !.at = next, !.stage = "sending", !.row = <<table.sel, next>>]
          /\ UNCHANGED table
     ELSE /\ run' = Idle
          /\ table' = [table EXCEPT !.sel = 0, !.shown = TRUE, !.start = TRUE]
  /\ UNCHANGED <<place, rows, page, calls, hist>>

\* The upload or the job fails: the list stays.
RunFails ==
  /\ run.stage \in {"sending", "polling"} /\ hist.faults < MaxFaults
  /\ run' = Idle
  /\ table' = [table EXCEPT !.shown = TRUE, !.start = TRUE]
  /\ hist' = [hist EXCEPT !.faults = @ + 1]
  /\ UNCHANGED <<place, rows, server, page, calls>>

-----------------------------------------------------------------------------
(* The edit box of the watch page.                                         *)

OpenEditModal ==
  /\ place = "watch" /\ ~page.open
  /\ page' = [page EXCEPT !.open = TRUE]
  /\ UNCHANGED <<place, table, rows, run, server, calls, hist>>

Closed(p) == [p EXCEPT !.open = FALSE, !.hits = <<>>]

CloseEditModal ==
  /\ page.open
  /\ page' = Closed(page)
  /\ UNCHANGED <<place, table, rows, run, server, calls, hist>>

\* searchExternalMetadata
SearchExternalMetadata(w) ==
  /\ page.open /\ ~page.searching
  /\ Asks(Call("search", Nothing, w))
  /\ page' = [page EXCEPT !.searching = TRUE]
  /\ hist' = [hist EXCEPT !.asked = @ + 1]
  /\ UNCHANGED <<place, table, rows, run, server>>

\* linkMetadata, of a result or of an address that was typed.  Nothing keeps the
\* user from asking for another while one is under way.
LinkMetadata(item, direct) ==
  /\ page.open
  /\ IF direct THEN ~page.searching ELSE item \in ToSet(page.hits)
  /\ Asks(Call("link", Video, item))
  /\ hist' = [hist EXCEPT !.asked = @ + 1, !.ordered = @ /\ ~Asking("link")]
  /\ UNCHANGED <<place, table, rows, run, server, page>>

SaveEditModal(cat, v) ==
  /\ page.open /\ ~page.saving
  /\ Asks(Call("edit", cat, v))
  /\ page' = [page EXCEPT !.saving = TRUE]
  /\ hist' = [hist EXCEPT !.asked = @ + 1]
  /\ UNCHANGED <<place, table, rows, run, server>>

-----------------------------------------------------------------------------
(* The server.                                                             *)

\* handle_link_job: the link of the video, and every video of its series gets the
\* title of the item for the name of the series.
Renamed(jobs, f, item) ==
  LET old  == jobs[f]
      Same(g) == /\ jobs[g] # Nothing /\ jobs[g].db.media = old.db.media
                 /\ jobs[g].form["series"] = old.form["series"]
  IN IF old.form["series"] = "" \/ TitleOf[item] = "" THEN jobs
     ELSE [g \in Files |->
             IF Same(g) THEN [jobs[g] EXCEPT !.form["series"] = TitleOf[item]] ELSE jobs[g]]

HandleLinkJob(n) ==
  LET f    == calls[n].to
      jobs == Renamed(server.jobs, f, calls[n].arg)
  IN /\ calls[n].kind = "link" /\ calls[n].ans = Nothing
     /\ server' = [server EXCEPT !.links[f] = calls[n].arg, !.jobs = jobs]
     /\ calls' = [calls EXCEPT ![n].ans = TRUE]
     /\ hist' = [hist EXCEPT !.agree = @ /\ jobs = server.jobs]
     /\ UNCHANGED <<place, table, rows, run, page>>

HandleSearch(n) ==
  /\ calls[n].kind = "search" /\ calls[n].ans = Nothing
  /\ calls' = [calls EXCEPT ![n].ans = Results[calls[n].arg]]
  /\ UNCHANGED <<place, table, rows, run, server, page, hist>>

\* handle_patch_job: there is no video without a title.
HandlePatchJob(n) ==
  LET q  == calls[n]
      ok == q.arg["title"] # ""
  IN /\ q.kind = "edit" /\ q.ans = Nothing
     /\ calls' = [calls EXCEPT ![n].ans = ok]
     /\ IF ok
        THEN /\ server' = [server EXCEPT !.jobs[Video] = Normalized(Updated(@, q.to, q.arg))]
             /\ hist' = [hist EXCEPT !.agree = TRUE]
        ELSE UNCHANGED <<server, hist>>
     /\ UNCHANGED <<place, table, rows, run, page>>

\* auto_fetch_metadata_if_enabled: is there a link, and if not a search, whose
\* outcome is linked without another look.
AutoCheck ==
  /\ server.auto = "pending"
  /\ server' = [server EXCEPT !.auto = IF server.links[Video] = Nothing THEN "search" ELSE "off"]
  /\ UNCHANGED <<place, table, rows, run, page, calls, hist>>

AutoLink ==
  /\ server.auto = "search"
  /\ server' = [server EXCEPT !.auto = "off", !.links[Video] = AutoItem]
  /\ hist' = [hist EXCEPT !.ordered = FALSE]
  /\ UNCHANGED <<place, table, rows, run, page, calls>>

\* Nothing was found, or the provider failed.
AutoFails ==
  /\ server.auto = "search"
  /\ server' = [server EXCEPT !.auto = "off"]
  /\ UNCHANGED <<place, table, rows, run, page, calls, hist>>

-----------------------------------------------------------------------------
(* The answers.                                                            *)

\* An error, or no answer at all; the server may have done what it was asked.  For a
\* search it is as if nothing had been found.
Fails(n) ==
  /\ hist.faults < MaxFaults
  /\ calls' = [calls EXCEPT ![n].ans = IF calls[n].kind = "search" THEN <<>> ELSE FALSE]
  /\ hist' = [hist EXCEPT !.faults = @ + 1,
                          !.agree = @ /\ (calls[n].kind = "edit" => calls[n].ans = Nothing),
                          !.ordered = @ /\ calls[n].kind # "link"]
  /\ UNCHANGED <<place, table, rows, run, server, page>>

\* Of a search in the table.
TakeRowResults(n) ==
  LET q  == calls[n]
      el == q.to
      pf == Holder(n)
      shown == [rows EXCEPT ![el[1]][el[2]].buttons = q.ans]
  IN /\ q.kind = "search" /\ q.ans # Nothing /\ q.to # Nothing
     /\ calls' = [calls EXCEPT ![n] = Over]
     /\ rows' = IF q.ans = <<>> THEN shown
                ELSE [shown EXCEPT ![pf[1]][pf[2]].results = q.ans]
     /\ UNCHANGED <<place, table, run, server, page, hist>>

\* Of a search in the box, which may have been closed.
TakeBoxResults(n) ==
  LET q == calls[n] IN
  /\ q.kind = "search" /\ q.ans # Nothing /\ q.to = Nothing
  /\ calls' = [calls EXCEPT ![n] = Over]
  /\ page' = [page EXCEPT !.hits = q.ans,
                          !.searching = @ /\ ~Frees("search", n)]
  /\ UNCHANGED <<place, table, rows, run, server, hist>>

\* linkUploadedMetadata does not care, linkMetadata hides the results.
TakeLink(n) ==
  LET q == calls[n] IN
  /\ q.kind = "link" /\ q.ans # Nothing
  /\ calls' = [calls EXCEPT ![n] = Over]
  /\ IF place = "upload"
     THEN /\ run' = [run EXCEPT !.stage = "polling"]
          /\ UNCHANGED <<page, hist>>
     ELSE /\ page' = IF q.ans THEN [page EXCEPT !.hits = <<>>] ELSE page
          /\ hist' = IF q.ans THEN [hist EXCEPT !.linked = q.arg] ELSE hist
          /\ UNCHANGED run
  /\ UNCHANGED <<place, table, rows, server>>

TakeEdit(n) ==
  LET q == calls[n] IN
  /\ q.kind = "edit" /\ q.ans # Nothing
  /\ calls' = [calls EXCEPT ![n] = Over]
  /\ page' = LET p == [page EXCEPT !.saving = @ /\ ~Frees("edit", n)]
             IN IF q.ans THEN Closed([p EXCEPT !.job = Merged(q.to, q.arg)]) ELSE p
  /\ UNCHANGED <<place, table, rows, run, server, hist>>

-----------------------------------------------------------------------------
Next ==
  \/ Start \/ Finalize \/ Saved \/ RunFails
  \/ OpenEditModal \/ CloseEditModal \/ AutoCheck \/ AutoLink \/ AutoFails
  \/ \E c \in Categories : ChooseCategory(c)
  \/ \E c \in AllCategories, v \in Typed : SaveEditModal(c, v)
  \/ \E fs \in (SUBSET Files) \ {{}} : HandleSelectedFiles(fs)
  \/ \E i \in DOMAIN Current :
       \/ \E k \in Keys : \E v \in Values(k) : Input(i, k, v)
       \/ \E w \in Words : SearchUploadMetadata(i, w)
       \/ \E k \in DOMAIN Current[i].buttons : SelectUploadMetadata(i, k)
  \/ \E v \in Texts : ApplyAll(v)
  \/ \E w \in Words : SearchExternalMetadata(w)
  \/ \E item \in Items, direct \in BOOLEAN : LinkMetadata(item, direct)
  \/ \E n \in UnderWay :
       \/ HandleLinkJob(n) \/ HandleSearch(n) \/ HandlePatchJob(n) \/ Fails(n)
       \/ TakeRowResults(n) \/ TakeBoxResults(n) \/ TakeLink(n) \/ TakeEdit(n)

Spec == Init /\ [][Next]_vars

-----------------------------------------------------------------------------
(* Properties.                                                             *)

IsJob(job) == CategoryOf(job) \in AllCategories /\ job.saved \in BOOLEAN

\* The types of the state; and the two buttons of the edit box are disabled exactly
\* while their request is under way, whatever was opened and closed since.
TypeOK ==
  /\ place \in {"upload", "watch"} /\ table.sel \in 0..MaxSelections
  /\ \A s \in 1..MaxSelections : \A i \in DOMAIN rows[s] :
       rows[s][i].file \in Files /\ DOMAIN rows[s][i].meta = Keys
  /\ run.stage \in {"idle", "sending", "linking", "polling"}
  /\ \A f \in Files : server.jobs[f] = Nothing \/ IsJob(server.jobs[f])
  /\ IsJob(page.job) /\ page.hits \in Seq(Items)
  /\ page.saving <=> Asking("edit")
  /\ page.searching <=> \E n \in UnderWay : calls[n].kind = "search" /\ calls[n].to = Nothing
  /\ run.stage = "linking" <=> place = "upload" /\ Asking("link")

\* Answers to searches come late, in any order, and after other files were selected.
\* Still a row holds what was written on the button that was clicked last in it, a
\* file is linked to what was clicked in a row of its own, and a video to what its last
\* link asked for, unless two links were under way at once or the automatic search
\* linked something.
LinkWasChosen ==
  /\ \A s \in 1..MaxSelections : \A i \in DOMAIN rows[s] :
       LET row == rows[s][i] IN
       row.ext = IF row.clicked = <<>> THEN Nothing ELSE Last(row.clicked)
  /\ (place = "upload") => \A f \in Files : server.links[f] # Nothing =>
       \E s \in 1..MaxSelections : \E i \in DOMAIN rows[s] :
         rows[s][i].file = f /\ server.links[f] \in ToSet(rows[s][i].clicked)
  /\ (place = "watch" /\ hist.ordered /\ ~Asking("link")) => server.links[Video] = hist.linked

\* The page and the server each work out what an edit leaves of a video.  They agree
\* on every field of the form of its category, as long as no answer is lost and no
\* link renames the series; but of "Anime TV" the server drops the numbers.
ShownIsStored ==
  LET job == page.job
      cat == CategoryOf(job)
  IN (place = "watch" /\ hist.agree /\ ~Asking("edit")) =>
       /\ job.db = server.jobs[Video].db
       /\ \A k \in BoxFields(cat) \ (IF cat = "Anime TV" THEN {"season", "episode"} ELSE {}) :
            job.form[k] = server.jobs[Video].form[k]

\* A video that was uploaded has what its category requires, but for the episode of
\* "Anime TV", whatever was typed, applied to all and failed before; unless files or
\* a category were chosen while a run was under way.
StoredIsComplete ==
  (place = "upload" /\ hist.calm) =>
    /\ (table.start /\ run = Idle) => Valid(Current, table.cat)
    /\ \A f \in Files : LET job == server.jobs[f] IN
         (job # Nothing /\ job.saved) =>
           \A k \in Required(CategoryOf(job)) :
             job.form[k] # Blank(k) \/ (CategoryOf(job) = "Anime TV" /\ k = "episode")
=============================================================================
