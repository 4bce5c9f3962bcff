----------------------------- MODULE Metadata_proofs -----------------------------
(***************************************************************************)
(* For any files, categories, texts and results, and any number of         *)
(* selections, requests, inputs and faults: what is linked was clicked in  *)
(* a row of its own file, the page shows what the server stores, and what  *)
(* an undisturbed run stores is complete.                                  *)
(***************************************************************************)
EXTENDS Metadata, TLAPS

Slots == 1..MaxRequests
Selections == 1..MaxSelections
Dbs == {DbFields(c) : c \in AllCategories}

-----------------------------------------------------------------------------
(* The shape of the state.                                                 *)

IsRow(row) ==
  /\ DOMAIN row = {"file", "meta", "ext", "results", "buttons", "clicked"}
  /\ row.file \in Files /\ DOMAIN row.meta = Keys
  /\ row.buttons \in Seq(Items) /\ row.clicked \in Seq(Items)

IsVideo(job) ==
  /\ DOMAIN job = {"db", "saved", "form"}
  /\ job.db \in Dbs /\ job.saved \in BOOLEAN /\ DOMAIN job.form = Keys

\* Selections are made one after the other, each of some files.
RowsShape ==
  /\ DOMAIN rows = Selections
  /\ \A s \in Selections :
       /\ DOMAIN rows[s] \subseteq Nat
       /\ IF s <= hist.chosen THEN 1 \in DOMAIN rows[s] ELSE DOMAIN rows[s] = {}
       /\ \A i \in DOMAIN rows[s] : IsRow(rows[s][i])

PageShape ==
  /\ DOMAIN table = {"cat", "sel", "shown", "start"} /\ table.cat \in AllCategories
  /\ table.sel \in 0..hist.chosen
  /\ DOMAIN page = {"job", "open", "saving", "searching", "hits"}
  /\ IsVideo(page.job) /\ page.hits \in Seq(Items)
  /\ page.open \in BOOLEAN /\ page.saving \in BOOLEAN /\ page.searching \in BOOLEAN

RunShape ==
  /\ DOMAIN run = {"at", "stage", "db", "row"}
  /\ run = Idle \/ /\ place = "upload" /\ run.at \in Nat
                   /\ run.stage \in {"sending", "linking", "polling"} /\ run.db \in Dbs
                   /\ \E s \in Selections : \E i \in DOMAIN rows[s] : run.row = <<s, i>>

ServerShape ==
  /\ DOMAIN server = {"jobs", "links", "auto"}
  /\ DOMAIN server.jobs = Files /\ DOMAIN server.links = Files
  /\ \A f \in Files : server.jobs[f] = Nothing \/ IsVideo(server.jobs[f])
  /\ place = "watch" => IsVideo(server.jobs[Video])

\* A request of the upload page is a search for a row, or a link of a file, and one
\* of the watch page is a search of the box, or a link or an edit of the video.
IsCall(q) ==
  /\ DOMAIN q = {"kind", "to", "arg", "ans"}
  /\ \/ q = Over
     \/ /\ q.kind = "search" /\ q.arg \in Words
        /\ q.ans # Nothing => q.ans \in Seq(Items)
        /\ \/ place = "watch" /\ q.to = Nothing
           \/ place = "upload" /\ \E s \in Selections : \E i \in DOMAIN rows[s] : q.to = <<s, i>>
     \/ /\ q.kind = "link" /\ q.to \in Files /\ q.ans \in {Nothing, TRUE, FALSE}
        /\ place = "watch" => q.to = Video
     \/ /\ q.kind = "edit" /\ place = "watch" /\ q.ans \in {Nothing, TRUE, FALSE}
        /\ q.to \in AllCategories /\ q.arg \in Typed

CallsShape ==
  /\ DOMAIN calls = Slots /\ \A n \in Slots : IsCall(calls[n])
  /\ \A n \in Slots : n > hist.asked => calls[n] = Over

HistShape ==
  /\ DOMAIN hist = {"asked", "typed", "chosen", "faults", "calm", "agree", "ordered", "linked"}
  /\ hist.asked \in Nat /\ hist.chosen \in 0..MaxSelections
  /\ hist.calm \in BOOLEAN /\ hist.agree \in BOOLEAN /\ hist.ordered \in BOOLEAN

Shape ==
  /\ place \in {"upload", "watch"}
  /\ place = "upload" => ~page.open
  /\ RowsShape /\ PageShape /\ RunShape /\ ServerShape /\ CallsShape /\ HistShape

Has(kind)  == \E n \in Slots : calls[n].kind = kind
Once(kind) == \A n, m \in Slots : calls[n].kind = kind /\ calls[m].kind = kind => n = m

\* Who waits, waits for one request.
Waiting ==
  /\ Once("edit") /\ (page.saving <=> Has("edit"))
  /\ place = "watch" => Once("search") /\ (page.searching <=> Has("search"))
  /\ place = "upload" => /\ ~page.searching /\ Once("link")
                         /\ (run.stage = "linking" <=> Has("link"))

-----------------------------------------------------------------------------
(* Links.                                                                  *)

\* The buttons of a row are those of the results it holds.
RowFits(row) ==
  /\ row.buttons # <<>> => row.results = row.buttons
  /\ row.ext = IF row.clicked = <<>> THEN Nothing ELSE Last(row.clicked)

\* The item was clicked in a row of the file.
Clicked(f, item) ==
  \E s \in Selections : \E i \in DOMAIN rows[s] :
    rows[s][i].file = f /\ item \in ToSet(rows[s][i].clicked)

RowsFit == \A s \in Selections : \A i \in DOMAIN rows[s] : RowFits(rows[s][i])

\* A run links what was clicked, and nothing else is linked on the upload page.
UploadLinks ==
  place = "upload" =>
    /\ server.auto = "off"
    /\ \A f \in Files : server.links[f] # Nothing => Clicked(f, server.links[f])
    /\ \A n \in Slots : calls[n].kind = "link" => Clicked(calls[n].to, calls[n].arg)

\* The one link that is under way is what will be linked.
WatchLinks ==
  (place = "watch" /\ hist.ordered) =>
    /\ Once("link")
    /\ \A n \in Slots : calls[n].kind = "link" =>
         /\ calls[n].ans \in {Nothing, TRUE}
         /\ server.links[Video] = IF calls[n].ans = TRUE THEN calls[n].arg ELSE hist.linked
    /\ ~Has("link") => server.links[Video] = hist.linked

LinkInv == RowsFit /\ UploadLinks /\ WatchLinks

-----------------------------------------------------------------------------
(* What the page shows.                                                    *)

\* The fields of the box that the server keeps.
Kept(cat) == BoxFields(cat) \ (IF cat = "Anime TV" THEN {"season", "episode"} ELSE {})

Agree(shown, stored) ==
  /\ shown.db = stored.db
  /\ \A k \in Kept(CategoryOf(shown)) : shown.form[k] = stored.form[k]

\* An edit that was done is what the page will show.
ShownInv ==
  (place = "watch" /\ hist.agree) =>
    /\ \A n \in Slots : calls[n].kind = "edit" =>
         Agree(IF calls[n].ans = TRUE THEN Merged(calls[n].to, calls[n].arg) ELSE page.job,
               server.jobs[Video])
    /\ ~Has("edit") => Agree(page.job, server.jobs[Video])

-----------------------------------------------------------------------------
(* What a run stores.                                                      *)

Complete(job) ==
  \A k \in Required(CategoryOf(job)) :
    job.form[k] # Blank(k) \/ (CategoryOf(job) = "Anime TV" /\ k = "episode")

\* An undisturbed run is of the table there is, which is hidden and was valid.
CompleteInv ==
  (place = "upload" /\ hist.calm) =>
    /\ table.start => Valid(Current, table.cat)
    /\ run # Idle => /\ ~table.shown /\ table.sel # 0 /\ run.row[1] = table.sel
                     /\ run.db = DbFields(table.cat) /\ Valid(Current, table.cat)
    /\ \A f \in Files :
         (server.jobs[f] # Nothing /\ server.jobs[f].saved) => Complete(server.jobs[f])

-----------------------------------------------------------------------------
(* The steps: of the table, of the run, of the edit box, of the automatic  *)
(* search, and of a request.                                               *)

TableStep ==
  \/ \E c \in Categories : ChooseCategory(c)
  \/ \E fs \in (SUBSET Files) \ {{}} : HandleSelectedFiles(fs)
  \/ \E i \in DOMAIN Current :
       \/ \E k \in Keys : \E v \in Values(k) : Input(i, k, v)
       \/ \E w \in Words : SearchUploadMetadata(i, w)
       \/ \E k \in DOMAIN Current[i].buttons : SelectUploadMetadata(i, k)
  \/ \E v \in Texts : ApplyAll(v)

RunStep == Start \/ Finalize \/ Saved \/ RunFails

BoxStep ==
  \/ OpenEditModal \/ CloseEditModal
  \/ \E c \in AllCategories, v \in Typed : SaveEditModal(c, v)
  \/ \E w \in Words : SearchExternalMetadata(w)
  \/ \E item \in Items, direct \in BOOLEAN : LinkMetadata(item, direct)

AutoStep == AutoCheck \/ AutoLink \/ AutoFails

AnswerStep(n) == HandleLinkJob(n) \/ HandleSearch(n) \/ HandlePatchJob(n) \/ Fails(n)
TakeStep(n) == TakeRowResults(n) \/ TakeBoxResults(n) \/ TakeLink(n) \/ TakeEdit(n)

LEMMA Steps ==
  Next => \/ TableStep \/ RunStep \/ BoxStep \/ AutoStep
          \/ \E n \in UnderWay : AnswerStep(n) \/ TakeStep(n)
  BY DEF Next, TableStep, RunStep, BoxStep, AutoStep, AnswerStep, TakeStep

-----------------------------------------------------------------------------
(* The categories and the forms.                                           *)

\* CATEGORY_DB, line by line.
LEMMA TableOfCategories ==
  /\ DbFields("Film").media = "Film"             /\ ~DbFields("Film").series
  /\ DbFields("Film Series").media = "Film"      /\ DbFields("Film Series").series
  /\ DbFields("TV Series").media = "Series"      /\ DbFields("TV Series").series
  /\ DbFields("Anime Film").media = "Anime Film" /\ ~DbFields("Anime Film").series
  /\ DbFields("Anime TV").media = "Anime TV"     /\ ~DbFields("Anime TV").series
  /\ DbFields("Anime TV Series").media = "Anime TV" /\ DbFields("Anime TV Series").series
<1>1. /\ DbFields("Film").media = "Film" /\ DbFields("Film Series").media = "Film"
      /\ DbFields("TV Series").media = "Series" /\ DbFields("Anime Film").media = "Anime Film"
      /\ DbFields("Anime TV").media = "Anime TV"
      /\ DbFields("Anime TV Series").media = "Anime TV"
  BY DEF DbFields
<1>2. /\ ~DbFields("Film").series /\ DbFields("Film Series").series
      /\ DbFields("TV Series").series /\ ~DbFields("Anime Film").series
      /\ ~DbFields("Anime TV").series /\ DbFields("Anime TV Series").series
  BY DEF DbFields
<1> QED BY <1>1, <1>2

\* No two categories are stored in the same way, so that a page can read off the
\* category of a video.
LEMMA CategoryOfDb ==
  ASSUME NEW cat \in AllCategories, NEW job, job.db = DbFields(cat)
  PROVE  CategoryOf(job) = cat
<1>1. ASSUME NEW c \in AllCategories, DbFields(c) = DbFields(cat) PROVE c = cat
  <2>1. DbFields(c).media = DbFields(cat).media
        /\ (DbFields(c).series <=> DbFields(cat).series)
    BY <1>1
  <2> QED BY <2>1, TableOfCategories DEF AllCategories
<1> QED BY <1>1 DEF CategoryOf

LEMMA DbsAreCategories ==
  ASSUME NEW job, job.db \in Dbs
  PROVE  CategoryOf(job) \in AllCategories /\ job.db = DbFields(CategoryOf(job))
  BY CategoryOfDb DEF Dbs

LEMMA TableOfColumns ==
  /\ Columns("Film") = {"title"} /\ Columns("Anime Film") = {"title"}
  /\ Columns("Film Series") = {"series", "title", "part"}
  /\ Columns("TV Series") = {"series", "season", "episode"}
  /\ Columns("Anime TV") = {"series", "season", "episode"}
  /\ Columns("Anime TV Series") = {"series", "season", "episode"}
  BY DEF Columns

LEMMA OnlyForm ==
  ASSUME NEW v, NEW ks
  PROVE  /\ DOMAIN Only(v, ks) = Keys
         /\ \A k \in Keys : Only(v, ks)[k] = IF k \in ks THEN v[k] ELSE Blank(k)
  BY DEF Only

LEMMA NormalizedVideo ==
  ASSUME NEW job, IsVideo(job)
  PROVE  /\ IsVideo(Normalized(job))
         /\ Normalized(job).db = job.db /\ Normalized(job).saved = job.saved
         /\ \A k \in Keys : Normalized(job).form[k] =
              IF job.db.series \/ k \in TextKeys THEN job.form[k] ELSE Blank(k)
<1>1. CASE job.db.series
  BY <1>1 DEF Normalized, IsVideo
<1>2. CASE ~job.db.series
  <2>1. Normalized(job) = [job EXCEPT !.form = Only(job.form, TextKeys)]
    BY <1>2 DEF Normalized
  <2> QED BY <1>2, <2>1, OnlyForm DEF IsVideo
<1> QED BY <1>1, <1>2

LEMMA UpdatedVideo ==
  ASSUME NEW job, IsVideo(job), NEW cat \in AllCategories, NEW v
  PROVE  /\ IsVideo(Updated(job, cat, v)) /\ Updated(job, cat, v).db = DbFields(cat)
         /\ \A k \in TextKeys \cup Columns(cat) : k \in Keys => Updated(job, cat, v).form[k] = v[k]
  BY DEF Updated, IsVideo, Dbs

LEMMA MergedVideo ==
  ASSUME NEW cat \in AllCategories, NEW v
  PROVE  /\ IsVideo(Merged(cat, v)) /\ Merged(cat, v).db = DbFields(cat)
         /\ \A k \in BoxFields(cat) : k \in Keys => Merged(cat, v).form[k] = v[k]
  BY OnlyForm DEF Merged, IsVideo, Dbs

\* What the page makes of an edit is what the server makes of it, on the fields the
\* server keeps.
LEMMA EditsAgree ==
  ASSUME NEW job, IsVideo(job), NEW cat \in AllCategories, NEW v
  PROVE  Agree(Merged(cat, v), Normalized(Updated(job, cat, v)))
<1> DEFINE new == Updated(job, cat, v)
<1>1. IsVideo(new) /\ new.db = DbFields(cat)
      /\ \A k \in TextKeys \cup Columns(cat) : k \in Keys => new.form[k] = v[k]
  BY UpdatedVideo
<1>2. /\ Normalized(new).db = DbFields(cat)
      /\ \A k \in Keys : Normalized(new).form[k] =
           IF DbFields(cat).series \/ k \in TextKeys THEN new.form[k] ELSE Blank(k)
  BY <1>1, NormalizedVideo
<1>3. /\ Merged(cat, v).db = DbFields(cat)
      /\ \A k \in BoxFields(cat) : k \in Keys => Merged(cat, v).form[k] = v[k]
      /\ CategoryOf(Merged(cat, v)) = cat
  BY MergedVideo, CategoryOfDb
<1>4. ASSUME NEW k \in Kept(cat)
      PROVE  /\ k \in Keys /\ k \in BoxFields(cat) /\ k \in TextKeys \cup Columns(cat)
             /\ DbFields(cat).series \/ k \in TextKeys
  BY TableOfColumns, TableOfCategories DEF Kept, BoxFields, Keys, TextKeys, AllCategories
<1> HIDE DEF new
<1>5. \A k \in Kept(cat) : Merged(cat, v).form[k] = Normalized(new).form[k]
  BY <1>1, <1>2, <1>3, <1>4
<1> QED BY <1>2, <1>3, <1>5 DEF Agree, new

\* A row that is valid becomes a video that is complete.
LEMMA ValidIsComplete ==
  ASSUME NEW cat \in AllCategories, NEW list, Valid(list, cat), NEW i \in DOMAIN list,
         DOMAIN list[i].meta = Keys
  PROVE  Complete(Normalized([db |-> DbFields(cat), saved |-> TRUE,
                              form |-> Request(list[i].meta)]))
<1> DEFINE meta == list[i].meta
           form == Request(meta)
           job  == [db |-> DbFields(cat), saved |-> TRUE, form |-> form]
<1>1. DOMAIN form = Keys
      /\ \A k \in Keys : form[k] = IF k = "title" /\ meta[k] = "" THEN "file" ELSE meta[k]
  BY DEF Request, Keys
<1>2. IsVideo(job) /\ job.db = DbFields(cat) /\ job.form = form
  BY <1>1 DEF IsVideo, Dbs
<1> HIDE DEF job, form
<1>3. /\ Normalized(job).db = DbFields(cat)
      /\ \A k \in Keys : Normalized(job).form[k] =
           IF DbFields(cat).series \/ k \in TextKeys THEN form[k] ELSE Blank(k)
  BY <1>2, NormalizedVideo
<1>4. CategoryOf(Normalized(job)) = cat
  BY <1>3, CategoryOfDb
<1>5. ASSUME NEW k \in Required(cat)
      PROVE  /\ k \in Keys /\ meta[k] # Blank(k)
             /\ DbFields(cat).series \/ k \in TextKeys \/ (cat = "Anime TV" /\ k = "episode")
  <2>1. meta[k] # Blank(k)
    BY DEF Valid
  <2> QED BY <2>1, TableOfColumns, TableOfCategories DEF Required, Keys, TextKeys, AllCategories
<1>6. ASSUME NEW k \in Required(cat)
      PROVE  Normalized(job).form[k] # Blank(k) \/ (cat = "Anime TV" /\ k = "episode")
  <2>1. form[k] # Blank(k)
    BY <1>1, <1>5 DEF Blank, TextKeys
  <2> QED BY <1>3, <1>5, <2>1
<1> QED BY <1>4, <1>6 DEF Complete, job, form

\* The rename of a series touches the series of some videos only.
RenamedAs(old, new, title) ==
  /\ IsVideo(new) /\ new.db = old.db /\ new.saved = old.saved /\ title # ""
  /\ \A k \in Keys : new.form[k] = IF k = "series" THEN title ELSE old.form[k]

LEMMA RenamedSeries ==
  ASSUME ServerShape, NEW f \in Files, NEW item, NEW jobs,
         jobs = Renamed(server.jobs, f, item)
  PROVE  /\ DOMAIN jobs = Files
         /\ \A g \in Files :
              \/ jobs[g] = server.jobs[g]
              \/ server.jobs[g] # Nothing /\ RenamedAs(server.jobs[g], jobs[g], TitleOf[item])
<1>1. DOMAIN jobs = Files
  BY DEF ServerShape, Renamed
<1>2. ASSUME NEW g \in Files, jobs[g] # server.jobs[g]
      PROVE  server.jobs[g] # Nothing /\ RenamedAs(server.jobs[g], jobs[g], TitleOf[item])
  <2>1. /\ server.jobs[g] # Nothing /\ TitleOf[item] # ""
        /\ jobs[g] = [server.jobs[g] EXCEPT !.form["series"] = TitleOf[item]]
    BY <1>2 DEF Renamed
  <2>2. IsVideo(server.jobs[g])
    BY <2>1 DEF ServerShape
  <2> QED BY <2>1, <2>2 DEF IsVideo, RenamedAs
<1> QED BY <1>1, <1>2

-----------------------------------------------------------------------------
(* How the rows change.                                                    *)

LEMMA Bounds == MaxSelections \in Nat /\ MaxRequests \in Nat /\ Order \in Seq(Files)
  BY MetadataAssumption

LEMMA NoItems == <<>> \in Seq(Items)
  OBVIOUS

\* No row goes away: a request and the run may hold on to it.
RowsGrow == \A s \in Selections : DOMAIN rows[s] \subseteq DOMAIN rows'[s]

\* Rows are as they were, but for what is written in them.
RowsStay ==
  /\ DOMAIN rows' = Selections
  /\ \A s \in Selections :
       /\ DOMAIN rows'[s] = DOMAIN rows[s]
       /\ \A i \in DOMAIN rows[s] :
            IsRow(rows'[s][i]) /\ rows'[s][i].file = rows[s][i].file

\* What the user types changes no search, and no search what the user typed.
LinksStay ==
  \A s \in Selections : \A i \in DOMAIN rows[s] :
    /\ rows'[s][i].ext = rows[s][i].ext /\ rows'[s][i].results = rows[s][i].results
    /\ rows'[s][i].buttons = rows[s][i].buttons /\ rows'[s][i].clicked = rows[s][i].clicked

MetaStays ==
  \A s \in Selections : \A i \in DOMAIN rows[s] : rows'[s][i].meta = rows[s][i].meta

LEMMA StayGrow == ASSUME RowsStay PROVE RowsGrow
  BY DEF RowsStay, RowsGrow

LEMMA RowsStayShape ==
  ASSUME Shape, RowsStay, hist'.chosen = hist.chosen
  PROVE  RowsShape'
  BY DEF Shape, RowsShape, RowsStay

LEMMA SameRowsStay ==
  ASSUME Shape, UNCHANGED rows
  PROVE  RowsStay /\ LinksStay /\ MetaStays
  BY DEF Shape, RowsShape, RowsStay, LinksStay, MetaStays

\* One row is written to.
LEMMA OneRow ==
  ASSUME Shape, NEW s \in Selections, NEW i \in DOMAIN rows[s], NEW new, IsRow(new),
         new.file = rows[s][i].file, rows' = [rows EXCEPT ![s][i] = new]
  PROVE  /\ RowsStay /\ rows'[s][i] = new
         /\ \A t \in Selections : \A j \in DOMAIN rows[t] :
              (t # s \/ j # i) => rows'[t][j] = rows[t][j]
<1>1. DOMAIN rows = Selections
      /\ \A t \in Selections : \A j \in DOMAIN rows[t] : IsRow(rows[t][j])
  BY DEF Shape, RowsShape
<1>2. /\ DOMAIN rows' = Selections
      /\ \A t \in Selections : t # s => rows'[t] = rows[t]
      /\ rows'[s] = [rows[s] EXCEPT ![i] = new]
  BY <1>1
<1>3. /\ DOMAIN rows'[s] = DOMAIN rows[s] /\ rows'[s][i] = new
      /\ \A j \in DOMAIN rows[s] : j # i => rows'[s][j] = rows[s][j]
  BY <1>2
<1> QED BY <1>1, <1>2, <1>3 DEF RowsStay

\* The selection that is shown.
LEMMA CurrentRows ==
  ASSUME Shape, NEW i \in DOMAIN Current
  PROVE  /\ table.sel \in Selections /\ Current = rows[table.sel]
         /\ IsRow(rows[table.sel][i])
<1>1. table.sel # 0
  BY DEF Current
<1>2. table.sel \in Selections
  BY <1>1, Bounds DEF Shape, PageShape, HistShape, Selections
<1> QED BY <1>1, <1>2 DEF Shape, RowsShape, Current

LEMMA TypesRows ==
  ASSUME Shape, NEW new, Types(new), DOMAIN new = DOMAIN Current,
         \A i \in DOMAIN Current :
           \/ new[i] = Current[i]
           \/ \E meta : DOMAIN meta = Keys /\ new[i] = [Current[i] EXCEPT !.meta = meta]
  PROVE  RowsStay /\ LinksStay
<1>1. /\ table.sel \in Selections /\ Current = rows[table.sel]
      /\ rows' = [rows EXCEPT ![table.sel] = new]
      /\ \A i \in DOMAIN Current : IsRow(rows[table.sel][i])
  <2>1. table.sel \in Selections
    BY Bounds DEF Types, Shape, PageShape, HistShape, Selections
  <2> QED BY <2>1, CurrentRows DEF Types, Current
<1>2. DOMAIN rows = Selections
      /\ \A t \in Selections : \A j \in DOMAIN rows[t] : IsRow(rows[t][j])
  BY DEF Shape, RowsShape
<1>3. /\ DOMAIN rows' = Selections /\ rows'[table.sel] = new
      /\ \A t \in Selections : t # table.sel => rows'[t] = rows[t]
  BY <1>1, <1>2
<1>4. ASSUME NEW i \in DOMAIN rows[table.sel]
      PROVE  /\ IsRow(new[i]) /\ new[i].file = rows[table.sel][i].file
             /\ new[i].ext = rows[table.sel][i].ext
             /\ new[i].results = rows[table.sel][i].results
             /\ new[i].buttons = rows[table.sel][i].buttons
             /\ new[i].clicked = rows[table.sel][i].clicked
  <2>1. CASE new[i] = rows[table.sel][i]
    BY <1>1, <2>1
  <2>2. CASE new[i] # rows[table.sel][i]
    <3>1. PICK meta : DOMAIN meta = Keys /\ new[i] = [rows[table.sel][i] EXCEPT !.meta = meta]
      BY <1>1, <2>2
    <3> QED BY <1>1, <3>1 DEF IsRow
  <2> QED BY <2>1, <2>2
<1> QED BY <1>1, <1>2, <1>3, <1>4 DEF RowsStay, LinksStay

LEMMA InputRows ==
  ASSUME Shape, NEW i, NEW k \in Keys, NEW v, Input(i, k, v)
  PROVE  RowsStay /\ LinksStay
<1> DEFINE new == [Current EXCEPT ![i].meta[k] = v]
<1>1. \A j \in DOMAIN Current : IsRow(Current[j])
  BY CurrentRows
<1>2. i \in DOMAIN Current /\ Types(new) /\ DOMAIN new = DOMAIN Current
  BY DEF Input
<1>3. ASSUME NEW j \in DOMAIN Current
      PROVE  \/ new[j] = Current[j]
             \/ \E meta : DOMAIN meta = Keys /\ new[j] = [Current[j] EXCEPT !.meta = meta]
  <2>1. CASE j = i
    <3> DEFINE meta == [Current[j].meta EXCEPT ![k] = v]
    <3>1. DOMAIN meta = Keys /\ new[j] = [Current[j] EXCEPT !.meta = meta]
      BY <1>1, <2>1 DEF IsRow
    <3> QED BY <3>1
  <2>2. CASE j # i
    BY <2>2
  <2> QED BY <2>1, <2>2
<1> HIDE DEF new
<1> QED BY <1>2, <1>3, TypesRows

LEMMA ApplyAllRows ==
  ASSUME Shape, NEW v, ApplyAll(v)
  PROVE  RowsStay /\ LinksStay
<1> DEFINE new == [i \in DOMAIN Current |-> [Current[i] EXCEPT !.meta["series"] = v]]
<1>1. \A j \in DOMAIN Current : IsRow(Current[j])
  BY CurrentRows
<1>2. Types(new) /\ DOMAIN new = DOMAIN Current
  BY DEF ApplyAll
<1>3. ASSUME NEW j \in DOMAIN Current
      PROVE  \E meta : DOMAIN meta = Keys /\ new[j] = [Current[j] EXCEPT !.meta = meta]
  <2> DEFINE meta == [Current[j].meta EXCEPT !["series"] = v]
  <2>1. DOMAIN meta = Keys /\ new[j] = [Current[j] EXCEPT !.meta = meta]
    BY <1>1 DEF IsRow
  <2> QED BY <2>1
<1> HIDE DEF new
<1> QED BY <1>2, <1>3, TypesRows

LEMMA SearchRows ==
  ASSUME Shape, NEW i, NEW w, SearchUploadMetadata(i, w)
  PROVE  /\ RowsStay /\ MetaStays /\ table.sel \in Selections /\ i \in DOMAIN rows[table.sel]
         /\ \A s \in Selections : \A j \in DOMAIN rows[s] :
              /\ rows'[s][j].ext = rows[s][j].ext /\ rows'[s][j].clicked = rows[s][j].clicked
              /\ rows'[s][j].results = rows[s][j].results
              /\ rows'[s][j].buttons \in {rows[s][j].buttons, <<>>}
<1> DEFINE s == table.sel
           new == [rows[s][i] EXCEPT !.buttons = <<>>]
<1>1. i \in DOMAIN Current /\ rows' = [rows EXCEPT ![s][i].buttons = <<>>]
  BY DEF SearchUploadMetadata
<1>2. s \in Selections /\ i \in DOMAIN rows[s] /\ IsRow(rows[s][i])
  BY <1>1, CurrentRows
<1>3. rows' = [rows EXCEPT ![s][i] = new]
  BY <1>1
<1>4. /\ IsRow(new) /\ new.file = rows[s][i].file /\ new.meta = rows[s][i].meta
      /\ new.ext = rows[s][i].ext /\ new.clicked = rows[s][i].clicked
      /\ new.results = rows[s][i].results /\ new.buttons = <<>>
  BY <1>2 DEF IsRow
<1> HIDE DEF new
<1>5. /\ RowsStay /\ rows'[s][i] = new
      /\ \A t \in Selections : \A j \in DOMAIN rows[t] :
           (t # s \/ j # i) => rows'[t][j] = rows[t][j]
  BY <1>2, <1>3, <1>4, OneRow
<1> QED BY <1>2, <1>4, <1>5 DEF MetaStays

\* A click on button k of a row.
Clicks(s, j, k) ==
  LET row == rows[s][j] IN
  /\ k \in DOMAIN row.buttons
  /\ rows'[s][j] = [row EXCEPT !.ext = row.results[k],
                               !.clicked = Append(@, row.buttons[k]),
                               !.buttons = <<>>]
  /\ \A t \in Selections : \A h \in DOMAIN rows[t] :
       (t # s \/ h # j) => rows'[t][h] = rows[t][h]

LEMMA SelectRows ==
  ASSUME Shape, NEW i, NEW k, SelectUploadMetadata(i, k)
  PROVE  /\ RowsStay /\ MetaStays
         /\ \E s \in Selections : \E j \in DOMAIN rows[s] : Clicks(s, j, k)
<1> DEFINE s == table.sel
           row == rows[s][i]
           new == [row EXCEPT !.ext = row.results[k],
                              !.clicked = Append(row.clicked, row.buttons[k]),
                              !.buttons = <<>>]
<1>1. i \in DOMAIN Current
  BY DEF SelectUploadMetadata
<1>2. /\ s \in Selections /\ i \in DOMAIN rows[s] /\ IsRow(row) /\ Current = rows[s]
  BY <1>1, CurrentRows
<1>3. k \in DOMAIN row.buttons /\ rows' = [rows EXCEPT ![s][i] = new]
  BY <1>2 DEF SelectUploadMetadata
<1>4. IsRow(new) /\ new.file = row.file /\ new.meta = row.meta
  <2>1. row.buttons[k] \in Items
    BY <1>2, <1>3 DEF IsRow
  <2>2. Append(row.clicked, row.buttons[k]) \in Seq(Items)
    BY <1>2, <2>1 DEF IsRow
  <2> QED BY <1>2, <2>2 DEF IsRow
<1> HIDE DEF new
<1>5. /\ RowsStay /\ rows'[s][i] = new
      /\ \A t \in Selections : \A j \in DOMAIN rows[t] :
           (t # s \/ j # i) => rows'[t][j] = rows[t][j]
  BY <1>2, <1>3, <1>4, OneRow
<1>6. MetaStays
  BY <1>4, <1>5 DEF MetaStays
<1>7. Clicks(s, i, k)
  BY <1>3, <1>5 DEF Clicks, new
<1> QED BY <1>2, <1>5, <1>6, <1>7

\* A request is of one of the kinds.
LEMMA SearchIsTyped ==
  ASSUME Shape, NEW n \in Slots, calls[n].kind = "search", calls[n].ans # Nothing
  PROVE  /\ calls[n].ans \in Seq(Items)
         /\ \/ place = "watch" /\ calls[n].to = Nothing
            \/ place = "upload"
               /\ \E s \in Selections : \E i \in DOMAIN rows[s] : calls[n].to = <<s, i>>
<1>1. IsCall(calls[n])
  BY DEF Shape, CallsShape
<1>2. calls[n] # Over
  BY DEF Over
<1> QED BY <1>1, <1>2 DEF IsCall

LEMMA TakeRows ==
  ASSUME Shape, NEW n \in Slots, TakeRowResults(n)
  PROVE  /\ RowsStay /\ MetaStays /\ place = "upload"
         /\ \E s \in Selections : \E j \in DOMAIN rows[s] :
              LET row == rows[s][j] IN
              /\ rows'[s][j].ext = row.ext /\ rows'[s][j].clicked = row.clicked
              /\ \/ rows'[s][j].buttons = <<>>
                 \/ rows'[s][j].buttons = rows'[s][j].results
              /\ \A t \in Selections : \A h \in DOMAIN rows[t] :
                   (t # s \/ h # j) => rows'[t][h] = rows[t][h]
<1> DEFINE ans == calls[n].ans
<1>1. /\ ans \in Seq(Items) /\ place = "upload"
      /\ \E s \in Selections : \E i \in DOMAIN rows[s] : calls[n].to = <<s, i>>
  BY SearchIsTyped DEF TakeRowResults
<1>2. PICK s \in Selections : \E i \in DOMAIN rows[s] : calls[n].to = <<s, i>>
  BY <1>1
<1>3. PICK i \in DOMAIN rows[s] : calls[n].to = <<s, i>>
  BY <1>2
<1> DEFINE row == rows[s][i]
           found == IF ans = <<>> THEN row.results ELSE ans
           new == [row EXCEPT !.buttons = ans, !.results = found]
           shown == [rows EXCEPT ![s][i].buttons = ans]
<1>4. rows' = IF ans = <<>> THEN shown ELSE [shown EXCEPT ![s][i].results = ans]
  BY <1>3 DEF TakeRowResults, Holder
<1>5. /\ DOMAIN rows = Selections
      /\ \A t \in Selections : \A j \in DOMAIN rows[t] : IsRow(rows[t][j])
  BY DEF Shape, RowsShape
<1>6. /\ DOMAIN shown = Selections /\ DOMAIN shown[s] = DOMAIN rows[s]
      /\ \A t \in Selections : t # s => shown[t] = rows[t]
      /\ \A j \in DOMAIN rows[s] : j # i => shown[s][j] = rows[s][j]
      /\ shown[s][i] = [row EXCEPT !.buttons = ans]
  BY <1>5
<1> HIDE DEF shown
<1>7. /\ DOMAIN rows' = Selections /\ DOMAIN rows'[s] = DOMAIN rows[s]
      /\ \A t \in Selections : t # s => rows'[t] = rows[t]
      /\ \A j \in DOMAIN rows[s] : j # i => rows'[s][j] = rows[s][j]
      /\ rows'[s][i] = IF ans = <<>> THEN shown[s][i] ELSE [shown[s][i] EXCEPT !.results = ans]
  BY <1>4, <1>6
<1>8. /\ IsRow(rows'[s][i]) /\ rows'[s][i].file = row.file /\ rows'[s][i].meta = row.meta
      /\ rows'[s][i].ext = row.ext /\ rows'[s][i].clicked = row.clicked
      /\ rows'[s][i].buttons = ans /\ rows'[s][i].results = found
  BY <1>1, <1>5, <1>6, <1>7 DEF IsRow
<1> HIDE DEF ans
<1>9. RowsStay /\ MetaStays
  BY <1>5, <1>7, <1>8 DEF RowsStay, MetaStays
<1>10. \A t \in Selections : \A h \in DOMAIN rows[t] :
         (t # s \/ h # i) => rows'[t][h] = rows[t][h]
  BY <1>7
<1> QED BY <1>1, <1>8, <1>9, <1>10

\* Files are selected: never none.
LEMMA SelectedRows ==
  ASSUME Shape, NEW fs \in SUBSET Files, fs # {}, HandleSelectedFiles(fs)
  PROVE  LET n == hist.chosen + 1 IN
         /\ n \in Selections /\ hist.chosen \in Nat /\ DOMAIN rows[n] = {}
         /\ DOMAIN rows' = Selections
         /\ \A s \in Selections : s # n => rows'[s] = rows[s]
         /\ DOMAIN rows'[n] \subseteq Nat /\ 1 \in DOMAIN rows'[n]
         /\ \A i \in DOMAIN rows'[n] :
              /\ IsRow(rows'[n][i]) /\ rows'[n][i].ext = Nothing
              /\ rows'[n][i].buttons = <<>> /\ rows'[n][i].clicked = <<>>
         /\ RowsGrow
         /\ table'.start = Valid(rows'[n], table.cat)
<1> DEFINE n == hist.chosen + 1
<1>1. n \in Selections /\ hist.chosen \in Nat /\ DOMAIN rows[n] = {} /\ DOMAIN rows = Selections
  <2>1. n <= MaxSelections
    BY DEF HandleSelectedFiles
  <2>2. hist.chosen \in Nat /\ n \in Selections
    BY <2>1, Bounds DEF Shape, HistShape, Selections
  <2> QED BY <2>2 DEF Shape, RowsShape
<1>2. PICK l :
        /\ l \in IF table.cat \in {"Film", "Anime Film"} THEN {<<f>> : f \in fs}
                ELSE SortByEpisode(fs)
        /\ rows' = [rows EXCEPT ![n] = [i \in DOMAIN l |-> Row(l[i], table.cat)]]
        /\ table' = [table EXCEPT !.sel = n, !.shown = TRUE,
                                  !.start = Valid([i \in DOMAIN l |-> Row(l[i], table.cat)],
                                                  table.cat)]
  BY DEF HandleSelectedFiles
<1>3. 1 \in DOMAIN l /\ DOMAIN l \subseteq Nat /\ \A i \in DOMAIN l : l[i] \in Files
  <2>1. CASE table.cat \in {"Film", "Anime Film"}
    <3>1. PICK f \in fs : l = <<f>>
      BY <1>2, <2>1
    <3>2. DOMAIN l = 1..1 /\ l[1] = f
      BY <3>1
    <3> QED BY <3>2
  <2>2. CASE table.cat \notin {"Film", "Anime Film"}
    <3>1. /\ l \in UNION {[1..m -> fs] : m \in DOMAIN Order} /\ ToSet(l) = fs
      BY <1>2, <2>2 DEF SortByEpisode
    <3>2. PICK m \in DOMAIN Order : l \in [1..m -> fs]
      BY <3>1
    <3>3. m \in Nat /\ m >= 1
      BY <3>2, Bounds
    <3>4. DOMAIN l = 1..m /\ \A i \in 1..m : l[i] \in fs
      BY <3>2
    <3> QED BY <3>3, <3>4
  <2> QED BY <2>1, <2>2
<1> DEFINE new == [i \in DOMAIN l |-> Row(l[i], table.cat)]
<1>4. ASSUME NEW i \in DOMAIN l
      PROVE  /\ IsRow(new[i]) /\ new[i].ext = Nothing
             /\ new[i].buttons = <<>> /\ new[i].clicked = <<>>
  <2>1. DOMAIN ParseMetadata(l[i], table.cat) = Keys
    BY OnlyForm DEF ParseMetadata
  <2>2. new[i] = Row(l[i], table.cat)
    OBVIOUS
  <2> HIDE DEF new
  <2> QED BY <1>3, <2>1, <2>2, NoItems DEF IsRow, Row
<1>5. DOMAIN new = DOMAIN l
  OBVIOUS
<1>6. DOMAIN table = {"cat", "sel", "shown", "start"}
  BY DEF Shape, PageShape
<1>7. /\ DOMAIN rows' = Selections /\ rows'[n] = new
      /\ \A s \in Selections : s # n => rows'[s] = rows[s]
      /\ table'.start = Valid(new, table.cat)
  BY <1>1, <1>2, <1>6
<1> HIDE DEF new
<1>8. RowsGrow
  BY <1>1, <1>7 DEF RowsGrow
<1> QED BY <1>1, <1>3, <1>4, <1>5, <1>7, <1>8

-----------------------------------------------------------------------------
(* Every step keeps the shape.                                             *)

\* What a step does not touch keeps its shape.
LEMMA Untouched ==
  ASSUME Shape, UNCHANGED place
  PROVE  /\ (UNCHANGED rows /\ hist'.chosen = hist.chosen) => RowsShape' /\ RowsGrow
         /\ (UNCHANGED <<table, page>> /\ hist'.chosen = hist.chosen) => PageShape'
         /\ (UNCHANGED run /\ RowsGrow) => RunShape'
         /\ UNCHANGED server => ServerShape'
         /\ UNCHANGED hist => HistShape'
         /\ (UNCHANGED calls /\ RowsGrow /\ hist'.asked = hist.asked) => CallsShape'
         /\ UNCHANGED page => (place' = "upload" => ~page'.open)
<1>1. (UNCHANGED rows /\ hist'.chosen = hist.chosen) => RowsShape' /\ RowsGrow
  BY DEF Shape, RowsShape, RowsGrow
<1>2. (UNCHANGED <<table, page>> /\ hist'.chosen = hist.chosen) => PageShape'
  BY DEF Shape, PageShape
<1>3. (UNCHANGED run /\ RowsGrow) => RunShape'
  BY DEF Shape, RunShape, RowsGrow, Idle
<1>4. UNCHANGED server => ServerShape'
  BY DEF Shape, ServerShape
<1>5. UNCHANGED hist => HistShape'
  BY DEF Shape, HistShape
<1>6. ASSUME UNCHANGED calls, RowsGrow, hist'.asked = hist.asked PROVE CallsShape'
  <2>1. ASSUME NEW n \in Slots PROVE IsCall(calls[n])'
    <3>1. IsCall(calls[n])
      BY DEF Shape, CallsShape
    <3> QED BY <1>6, <3>1 DEF IsCall, RowsGrow, Over
  <2> QED BY <1>6, <2>1 DEF Shape, CallsShape
<1> QED BY <1>1, <1>2, <1>3, <1>4, <1>5, <1>6 DEF Shape

\* A request leaves.
LEMMA Asked ==
  ASSUME Shape, NEW q, Asks(q)
  PROVE  /\ hist.asked \in Nat /\ hist.asked + 1 \in Slots
         /\ calls[hist.asked + 1] = Over
         /\ DOMAIN calls' = Slots /\ calls'[hist.asked + 1] = q
         /\ \A n \in Slots : n # hist.asked + 1 => calls'[n] = calls[n]
<1>1. hist.asked \in Nat /\ hist.asked + 1 \in Slots
  BY Bounds DEF Asks, Shape, HistShape, Slots
<1> QED BY <1>1 DEF Asks, Shape, CallsShape

LEMMA AskedShape ==
  ASSUME Shape, UNCHANGED place, RowsGrow, NEW q, Asks(q), hist'.asked = hist.asked + 1,
         IsCall(q)'
  PROVE  CallsShape'
<1>1. /\ hist.asked \in Nat /\ hist.asked + 1 \in Slots
      /\ DOMAIN calls' = Slots /\ calls'[hist.asked + 1] = q
      /\ \A n \in Slots : n # hist.asked + 1 => calls'[n] = calls[n]
  BY Asked
<1>2. ASSUME NEW n \in Slots PROVE IsCall(calls[n])'
  <2>1. CASE n = hist.asked + 1
    BY <1>1, <2>1
  <2>2. CASE n # hist.asked + 1
    <3>1. IsCall(calls[n]) /\ calls'[n] = calls[n]
      BY <1>1, <2>2 DEF Shape, CallsShape
    <3> QED BY <3>1 DEF IsCall, RowsGrow, Over
  <2> QED BY <2>1, <2>2
<1>3. ASSUME NEW n \in Slots, n > hist'.asked PROVE calls'[n] = Over
  BY <1>1, <1>3 DEF Shape, CallsShape, Slots
<1> QED BY <1>1, <1>2, <1>3 DEF CallsShape

\* A request is answered, or its answer taken.
LEMMA OneCall ==
  ASSUME Shape, NEW n \in UnderWay, NEW q, calls' = [calls EXCEPT ![n] = q]
  PROVE  /\ n \in Slots /\ DOMAIN calls' = Slots /\ calls'[n] = q
         /\ \A m \in Slots : m # n => calls'[m] = calls[m]
         /\ IsCall(calls[n]) /\ calls[n] # Over
         /\ (UNCHANGED place /\ RowsGrow /\ hist'.asked = hist.asked /\ IsCall(q)') => CallsShape'
<1>1. /\ n \in Slots /\ DOMAIN calls' = Slots /\ calls'[n] = q
      /\ \A m \in Slots : m # n => calls'[m] = calls[m]
      /\ IsCall(calls[n]) /\ calls[n] # Over
  BY DEF UnderWay, Shape, CallsShape, Slots
<1>2. ASSUME UNCHANGED place, RowsGrow, hist'.asked = hist.asked, IsCall(q)' PROVE CallsShape'
  <2>1. ASSUME NEW m \in Slots PROVE IsCall(calls[m])'
    <3>1. CASE m = n
      BY <1>1, <1>2, <3>1
    <3>2. CASE m # n
      <4>1. IsCall(calls[m]) /\ calls'[m] = calls[m]
        BY <1>1, <3>2 DEF Shape, CallsShape
      <4> QED BY <1>2, <4>1 DEF IsCall, RowsGrow, Over
    <3> QED BY <3>1, <3>2
  <2>2. ASSUME NEW m \in Slots, m > hist'.asked PROVE calls'[m] = Over
    BY <1>1, <1>2, <2>2 DEF Shape, CallsShape
  <2> QED BY <1>1, <2>1, <2>2 DEF CallsShape
<1> QED BY <1>1, <1>2

\* The history of one step.
LEMMA HistStep ==
  ASSUME Shape, DOMAIN hist' = DOMAIN hist,
         hist'.asked \in {hist.asked, hist.asked + 1}, hist'.chosen \in 0..MaxSelections,
         hist'.calm \in BOOLEAN, hist'.agree \in BOOLEAN, hist'.ordered \in BOOLEAN
  PROVE  HistShape'
  BY DEF Shape, HistShape

LEMMA InitShape == Init => Shape
<1> SUFFICES ASSUME Init PROVE Shape
  OBVIOUS
<1>1. RowsShape
  BY Bounds DEF Init, RowsShape, Selections
<1>2. CallsShape /\ HistShape /\ place \in {"upload", "watch"}
  BY Bounds DEF Init, CallsShape, HistShape, IsCall, Over, Slots
<1>3. RunShape
  BY DEF Init, RunShape, Idle
<1>4. PICK job \in Stored :
        LET stored == Normalized(job) IN
        /\ server = [jobs |-> [f \in Files |->
                       IF place = "watch" /\ f = Video THEN stored ELSE Nothing],
                     links |-> [f \in Files |-> Nothing],
                     auto |-> IF place = "watch" THEN "pending" ELSE "off"]
        /\ page = [job |-> stored, open |-> FALSE, saving |-> FALSE, searching |-> FALSE,
                   hits |-> <<>>]
  BY DEF Init
<1>5. IsVideo(job)
  <2>1. PICK c \in AllCategories :
          job \in {[db |-> DbFields(c), saved |-> TRUE, form |-> Only(v, BoxFields(c))] :
                     v \in {w \in Typed : w["title"] # ""}}
    BY DEF Stored
  <2>2. PICK v : job = [db |-> DbFields(c), saved |-> TRUE, form |-> Only(v, BoxFields(c))]
    BY <2>1
  <2> QED BY <2>2, OnlyForm DEF IsVideo, Dbs
<1>6. IsVideo(Normalized(job))
  BY <1>5, NormalizedVideo
<1>7. Video \in Files
  BY MetadataAssumption
<1>8. ServerShape
  BY <1>4, <1>6, <1>7 DEF ServerShape
<1>9. PICK c \in Categories : table = [cat |-> c, sel |-> 0, shown |-> FALSE, start |-> FALSE]
  BY DEF Init
<1>10. c \in AllCategories
  BY MetadataAssumption
<1>11. PageShape /\ ~page.open
  BY <1>2, <1>4, <1>6, <1>9, <1>10, NoItems DEF PageShape, HistShape
<1> QED BY <1>1, <1>2, <1>3, <1>8, <1>11 DEF Shape

\* The table, and what is typed, searched for and clicked in it.
LEMMA TableShape ==
  ASSUME Shape, TableStep
  PROVE  Shape'
<1>0. HistShape /\ PageShape /\ DOMAIN table = {"cat", "sel", "shown", "start"}
      /\ DOMAIN hist = {"asked", "typed", "chosen", "faults", "calm", "agree", "ordered", "linked"}
  BY DEF Shape, PageShape, HistShape
<1>1. ASSUME NEW c \in Categories, ChooseCategory(c) PROVE Shape'
  <2>1. /\ UNCHANGED <<place, rows, run, server, page, calls>>
        /\ table' = [table EXCEPT !.cat = c, !.sel = 0, !.shown = FALSE]
        /\ hist' = [hist EXCEPT !.calm = @ /\ run = Idle]
    BY <1>1 DEF ChooseCategory
  <2>2. c \in AllCategories
    BY MetadataAssumption
  <2>3. PageShape'
    BY <1>0, <2>1, <2>2 DEF PageShape, HistShape
  <2>4. HistShape'
    <3>1. (hist.calm /\ run = Idle) \in BOOLEAN
      OBVIOUS
    <3> QED BY <1>0, <2>1, <3>1 DEF HistShape
  <2>5. hist'.chosen = hist.chosen /\ hist'.asked = hist.asked
    BY <1>0, <2>1
  <2> QED BY <2>1, <2>3, <2>4, <2>5, Untouched DEF Shape
<1>2. ASSUME NEW fs \in (SUBSET Files) \ {{}}, HandleSelectedFiles(fs) PROVE Shape'
  <2> DEFINE n == hist.chosen + 1
  <2>1. /\ n \in Selections /\ hist.chosen \in Nat /\ DOMAIN rows[n] = {}
        /\ DOMAIN rows' = Selections
        /\ \A s \in Selections : s # n => rows'[s] = rows[s]
        /\ DOMAIN rows'[n] \subseteq Nat /\ 1 \in DOMAIN rows'[n]
        /\ \A i \in DOMAIN rows'[n] : IsRow(rows'[n][i])
        /\ RowsGrow
    BY <1>2, SelectedRows
  <2>2. /\ UNCHANGED <<place, run, server, page, calls>>
        /\ hist' = [hist EXCEPT !.chosen = n, !.calm = @ /\ run = Idle]
        /\ \E start : table' = [table EXCEPT !.sel = n, !.shown = TRUE, !.start = start]
    BY <1>2 DEF HandleSelectedFiles
  <2>3. hist'.chosen = n /\ hist'.asked = hist.asked
    BY <1>0, <2>2
  <2>4. RowsShape'
    BY <2>1, <2>3 DEF RowsShape, Shape, Selections
  <2>5. PageShape'
    BY <1>0, <2>1, <2>2, <2>3 DEF PageShape, HistShape
  <2>6. HistShape'
    <3>1. (hist.calm /\ run = Idle) \in BOOLEAN /\ n \in 0..MaxSelections
      BY <2>1 DEF Selections
    <3> QED BY <1>0, <2>2, <2>3, <3>1 DEF HistShape
  <2> QED BY <2>1, <2>2, <2>3, <2>4, <2>5, <2>6, Untouched DEF Shape
<1>3. ASSUME NEW new, Types(new), RowsStay PROVE Shape'
  <2>1. /\ UNCHANGED <<place, run, server, page, calls>>
        /\ hist' = [hist EXCEPT !.typed = @ + 1]
        /\ \E start : table' = [table EXCEPT !.start = start]
    BY <1>3 DEF Types
  <2>2. HistShape' /\ hist'.chosen = hist.chosen /\ hist'.asked = hist.asked
    BY <1>0, <2>1 DEF HistShape
  <2>3. PageShape'
    BY <1>0, <2>1, <2>2 DEF PageShape
  <2> QED BY <1>3, <2>1, <2>2, <2>3, Untouched, StayGrow, RowsStayShape DEF Shape
<1>4. ASSUME NEW i, NEW k \in Keys, NEW v, Input(i, k, v) PROVE Shape'
  BY <1>3, <1>4, InputRows DEF Input
<1>5. ASSUME NEW v, ApplyAll(v) PROVE Shape'
  BY <1>3, <1>5, ApplyAllRows DEF ApplyAll
<1>6. ASSUME NEW i, NEW w \in Words, SearchUploadMetadata(i, w) PROVE Shape'
  <2>0. PICK q : q = Call("search", <<table.sel, i>>, w)
    OBVIOUS
  <2>1. /\ UNCHANGED <<place, table, run, server, page>> /\ Asks(q) /\ place = "upload"
        /\ hist' = [hist EXCEPT !.asked = @ + 1]
    BY <1>6, <2>0 DEF SearchUploadMetadata, InTable
  <2>2. RowsStay /\ table.sel \in Selections /\ i \in DOMAIN rows[table.sel]
    BY <1>6, SearchRows
  <2>3. HistShape' /\ hist'.chosen = hist.chosen /\ hist'.asked = hist.asked + 1
    BY <1>0, <2>1 DEF HistShape
  <2>4. RowsGrow
    BY <2>2, StayGrow
  <2>5. IsCall(q)'
    <3>1. i \in DOMAIN rows'[table.sel]
      BY <2>2, <2>4 DEF RowsGrow
    <3> QED BY <2>0, <2>1, <2>2, <3>1 DEF IsCall, Call
  <2>6. CallsShape'
    BY <2>1, <2>3, <2>4, <2>5, AskedShape
  <2> QED BY <2>1, <2>2, <2>3, <2>4, <2>6, Untouched, RowsStayShape DEF Shape
<1>7. ASSUME NEW i, NEW k, SelectUploadMetadata(i, k) PROVE Shape'
  <2>1. UNCHANGED <<place, table, run, server, page, calls, hist>>
    BY <1>7 DEF SelectUploadMetadata
  <2>2. RowsStay
    BY <1>7, SelectRows
  <2> QED BY <2>1, <2>2, Untouched, StayGrow, RowsStayShape DEF Shape
<1>8. ASSUME NEW i \in DOMAIN Current,
             \/ \E k \in Keys : \E v \in Values(k) : Input(i, k, v)
             \/ \E w \in Words : SearchUploadMetadata(i, w)
             \/ \E k \in DOMAIN Current[i].buttons : SelectUploadMetadata(i, k)
      PROVE  Shape'
  BY <1>4, <1>6, <1>7, <1>8
<1> QED BY <1>1, <1>2, <1>5, <1>8 DEF TableStep

\* The row of the run.
LEMMA RunRow ==
  ASSUME Shape, run.stage # "idle"
  PROVE  /\ place = "upload" /\ run.at \in Nat /\ run.db \in Dbs /\ run # Idle
         /\ run.stage \in {"sending", "linking", "polling"}
         /\ DOMAIN run = {"at", "stage", "db", "row"}
         /\ IsRow(RowOfRun) /\ RowOfRun.file \in Files
         /\ \E s \in Selections : \E i \in DOMAIN rows[s] :
              run.row = <<s, i>> /\ RowOfRun = rows[s][i]
<1>1. run # Idle
  BY DEF Idle
<1>2. RunShape /\ RowsShape
  BY DEF Shape
<1>3. PICK s \in Selections : \E i \in DOMAIN rows[s] : run.row = <<s, i>>
  BY <1>1, <1>2 DEF RunShape
<1>4. PICK i \in DOMAIN rows[s] : run.row = <<s, i>>
  BY <1>3
<1>5. RowOfRun = rows[s][i] /\ IsRow(rows[s][i])
  BY <1>2, <1>4 DEF RowOfRun, RowsShape
<1> QED BY <1>1, <1>2, <1>4, <1>5 DEF RunShape, IsRow

LEMMA RunsShape ==
  ASSUME Shape, RunStep
  PROVE  Shape'
<1>0. /\ DOMAIN run = {"at", "stage", "db", "row"} /\ HistShape /\ PageShape /\ ServerShape
      /\ DOMAIN table = {"cat", "sel", "shown", "start"}
      /\ DOMAIN hist = {"asked", "typed", "chosen", "faults", "calm", "agree", "ordered", "linked"}
      /\ DOMAIN server = {"jobs", "links", "auto"}
  BY DEF Shape, RunShape, HistShape, PageShape, ServerShape
<1>1. CASE Start
  <2>1. /\ UNCHANGED <<place, rows, server, page, calls, hist>> /\ place = "upload"
        /\ table.sel # 0 /\ table' = [table EXCEPT !.shown = FALSE, !.start = FALSE]
        /\ run' = [at |-> 1, stage |-> "sending", db |-> DbFields(table.cat),
                   row |-> <<table.sel, 1>>]
    BY <1>1 DEF Start, InTable
  <2>2. PageShape'
    BY <1>0, <2>1 DEF PageShape
  <2>3. table.sel \in Selections /\ 1 \in DOMAIN rows[table.sel]
    BY <1>0, <2>1, Bounds DEF Shape, RowsShape, PageShape, HistShape, Selections
  <2>4. DbFields(table.cat) \in Dbs
    BY <1>0 DEF Dbs, PageShape
  <2>5. RunShape'
    BY <2>1, <2>3, <2>4 DEF RunShape
  <2> QED BY <2>1, <2>2, <2>5, Untouched DEF Shape
<1>2. CASE Finalize
  <2>0. PICK f, q : f = RowOfRun.file /\ q = Call("link", f, RowOfRun.ext)
    OBVIOUS
  <2>1. /\ UNCHANGED <<place, table, rows, page>> /\ run.stage = "sending"
        /\ server' = [server EXCEPT !.jobs[f] = Marker, !.links[f] = Nothing]
        /\ \/ /\ Asks(q)
              /\ run' = [run EXCEPT !.stage = "linking"]
              /\ hist' = [hist EXCEPT !.asked = @ + 1]
           \/ /\ run' = [run EXCEPT !.stage = "polling"]
              /\ UNCHANGED <<calls, hist>>
    BY <1>2, <2>0 DEF Finalize
  <2>2. /\ place = "upload" /\ f \in Files /\ run.at \in Nat /\ run.db \in Dbs
        /\ \E s \in Selections : \E i \in DOMAIN rows[s] : run.row = <<s, i>>
    BY <2>0, <2>1, RunRow
  <2>3. IsVideo(Marker)
    BY DEF Marker, IsVideo, Dbs, AllCategories
  <2>4. ServerShape'
    BY <1>0, <2>1, <2>2, <2>3 DEF ServerShape
  <2>5. RunShape'
    BY <1>0, <2>1, <2>2 DEF RunShape
  <2>6. RowsGrow
    BY <2>1 DEF RowsGrow
  <2>7. CASE Asks(q) /\ hist' = [hist EXCEPT !.asked = @ + 1]
    <3>1. HistShape' /\ hist'.chosen = hist.chosen /\ hist'.asked = hist.asked + 1
      BY <1>0, <2>7 DEF HistShape
    <3>2. IsCall(q)'
      BY <2>0, <2>1, <2>2 DEF IsCall, Call
    <3>3. CallsShape'
      BY <2>1, <2>6, <2>7, <3>1, <3>2, AskedShape
    <3> QED BY <2>1, <2>4, <2>5, <3>1, <3>3, Untouched DEF Shape
  <2>8. CASE UNCHANGED <<calls, hist>>
    BY <2>1, <2>4, <2>5, <2>8, Untouched DEF Shape
  <2> QED BY <2>1, <2>7, <2>8
<1>3. CASE Saved
  <2> DEFINE next == run.at + 1
             job  == [db |-> run.db, saved |-> TRUE, form |-> Request(RowOfRun.meta)]
  <2>1. /\ UNCHANGED <<place, rows, page, calls, hist>> /\ run.stage = "polling"
        /\ server' = [server EXCEPT !.jobs[RowOfRun.file] = Normalized(job)]
        /\ \/ /\ next \in DOMAIN Current /\ UNCHANGED table
              /\ run' = [run EXCEPT !.at = next, !.stage = "sending", !.row = <<table.sel, next>>]
           \/ /\ run' = Idle
              /\ table' = [table EXCEPT !.sel = 0, !.shown = TRUE, !.start = TRUE]
    BY <1>3 DEF Saved
  <2>2. /\ place = "upload" /\ run.at \in Nat /\ run.db \in Dbs /\ IsRow(RowOfRun)
    BY <2>1, RunRow
  <2>3. IsVideo(Normalized(job))
    <3>1. DOMAIN Request(RowOfRun.meta) = Keys
      BY <2>2 DEF Request, IsRow
    <3>2. IsVideo(job)
      BY <2>2, <3>1 DEF IsVideo
    <3> HIDE DEF job
    <3> QED BY <3>2, NormalizedVideo
  <2> HIDE DEF job
  <2>4. ServerShape'
    BY <1>0, <2>1, <2>2, <2>3 DEF ServerShape, IsRow
  <2>5. RunShape' /\ PageShape'
    <3>1. CASE next \in DOMAIN Current /\ UNCHANGED table
      /\ run' = [run EXCEPT !.at = next, !.stage = "sending", !.row = <<table.sel, next>>]
      <4>1. table.sel \in Selections /\ next \in DOMAIN rows[table.sel]
        BY <3>1, CurrentRows
      <4> HIDE DEF next
      <4>2. RunShape'
        BY <1>0, <2>1, <2>2, <3>1, <4>1 DEF RunShape, next
      <4> QED BY <1>0, <2>1, <3>1, <4>2 DEF PageShape
    <3>2. CASE run' = Idle /\ table' = [table EXCEPT !.sel = 0, !.shown = TRUE, !.start = TRUE]
      <4>1. RunShape'
        BY <3>2 DEF RunShape, Idle
      <4> QED BY <1>0, <2>1, <3>2, <4>1 DEF PageShape, HistShape
    <3> QED BY <2>1, <3>1, <3>2
  <2> QED BY <2>1, <2>4, <2>5, Untouched DEF Shape
<1>4. CASE RunFails
  <2>1. /\ UNCHANGED <<place, rows, server, page, calls>> /\ run' = Idle
        /\ table' = [table EXCEPT !.shown = TRUE, !.start = TRUE]
        /\ hist' = [hist EXCEPT !.faults = @ + 1]
    BY <1>4 DEF RunFails
  <2>2. HistShape' /\ hist'.chosen = hist.chosen /\ hist'.asked = hist.asked
    BY <1>0, <2>1 DEF HistShape
  <2>3. PageShape'
    BY <1>0, <2>1, <2>2 DEF PageShape
  <2>4. RunShape'
    BY <2>1 DEF RunShape, Idle
  <2> QED BY <2>1, <2>2, <2>3, <2>4, Untouched DEF Shape
<1> QED BY <1>1, <1>2, <1>3, <1>4 DEF RunStep

\* The edit box.
LEMMA BoxShape ==
  ASSUME Shape, BoxStep
  PROVE  Shape'
<1>0. /\ HistShape /\ PageShape /\ DOMAIN page = {"job", "open", "saving", "searching", "hits"}
      /\ DOMAIN hist = {"asked", "typed", "chosen", "faults", "calm", "agree", "ordered", "linked"}
      /\ page.open => place = "watch"
  <2>1. page.open => place = "watch"
    BY DEF Shape
  <2> QED BY <2>1 DEF Shape, PageShape, HistShape
<1>1. CASE OpenEditModal
  <2>1. /\ UNCHANGED <<place, table, rows, run, server, calls, hist>> /\ place = "watch"
        /\ page' = [page EXCEPT !.open = TRUE]
    BY <1>1 DEF OpenEditModal
  <2>2. PageShape'
    BY <1>0, <2>1 DEF PageShape
  <2> QED BY <2>1, <2>2, Untouched DEF Shape
<1>2. CASE CloseEditModal
  <2>1. /\ UNCHANGED <<place, table, rows, run, server, calls, hist>>
        /\ page' = [page EXCEPT !.open = FALSE, !.hits = <<>>]
    BY <1>2 DEF CloseEditModal, Closed
  <2>2. PageShape' /\ ~page'.open
    BY <1>0, <2>1, NoItems DEF PageShape
  <2> QED BY <2>1, <2>2, Untouched DEF Shape
\* A request of the box.
<1>3. ASSUME NEW q, Asks(q), IsCall(q)', UNCHANGED <<place, table, rows, run, server>>,
             page.open, HistShape', hist'.asked = hist.asked + 1, hist'.chosen = hist.chosen,
             PageShape'
      PROVE  Shape'
  <2>2. RowsGrow
    BY <1>3 DEF RowsGrow
  <2>3. CallsShape'
    BY <1>3, <2>2, AskedShape
  <2> QED BY <1>0, <1>3, <2>2, <2>3, Untouched DEF Shape
<1>4. ASSUME NEW c \in AllCategories, NEW v \in Typed, SaveEditModal(c, v) PROVE Shape'
  <2>0. PICK q : q = Call("edit", c, v)
    OBVIOUS
  <2>1. /\ UNCHANGED <<place, table, rows, run, server>> /\ Asks(q) /\ page.open
        /\ page' = [page EXCEPT !.saving = TRUE]
        /\ hist' = [hist EXCEPT !.asked = hist.asked + 1]
    BY <1>4, <2>0 DEF SaveEditModal
  <2>2. IsCall(q)'
    BY <1>0, <2>0, <2>1 DEF IsCall, Call
  <2>3. HistShape' /\ hist'.asked = hist.asked + 1 /\ hist'.chosen = hist.chosen
    BY <1>0, <2>1 DEF HistShape
  <2>4. PageShape'
    BY <1>0, <2>1, <2>3 DEF PageShape
  <2> QED BY <1>3, <2>1, <2>2, <2>3, <2>4
<1>5. ASSUME NEW w \in Words, SearchExternalMetadata(w) PROVE Shape'
  <2>0. PICK q : q = Call("search", Nothing, w)
    OBVIOUS
  <2>1. /\ UNCHANGED <<place, table, rows, run, server>> /\ Asks(q) /\ page.open
        /\ page' = [page EXCEPT !.searching = TRUE]
        /\ hist' = [hist EXCEPT !.asked = hist.asked + 1]
    BY <1>5, <2>0 DEF SearchExternalMetadata
  <2>2. IsCall(q)'
    BY <1>0, <2>0, <2>1 DEF IsCall, Call
  <2>3. HistShape' /\ hist'.asked = hist.asked + 1 /\ hist'.chosen = hist.chosen
    BY <1>0, <2>1 DEF HistShape
  <2>4. PageShape'
    BY <1>0, <2>1, <2>3 DEF PageShape
  <2> QED BY <1>3, <2>1, <2>2, <2>3, <2>4
<1>6. ASSUME NEW item, NEW direct, LinkMetadata(item, direct) PROVE Shape'
  <2>0. PICK q : q = Call("link", Video, item)
    OBVIOUS
  <2>1. /\ UNCHANGED <<place, table, rows, run, server, page>> /\ Asks(q) /\ page.open
    BY <1>6, <2>0 DEF LinkMetadata
  <2>2. IsCall(q)'
    <3>1. Video \in Files
      BY MetadataAssumption
    <3> QED BY <1>0, <2>0, <2>1, <3>1 DEF IsCall, Call
  <2>3. HistShape' /\ hist'.asked = hist.asked + 1 /\ hist'.chosen = hist.chosen
    <3>1. PICK b : b = (hist.ordered /\ ~Asking("link"))
      OBVIOUS
    <3>2. b \in BOOLEAN
      BY <3>1
    <3>3. hist' = [hist EXCEPT !.asked = hist.asked + 1, !.ordered = b]
      BY <1>6, <3>1 DEF LinkMetadata
    <3> QED BY <1>0, <3>2, <3>3 DEF HistShape
  <2>4. PageShape'
    BY <1>0, <2>1, <2>3 DEF PageShape
  <2> QED BY <1>3, <2>1, <2>2, <2>3, <2>4
<1> QED BY <1>1, <1>2, <1>4, <1>5, <1>6 DEF BoxStep

\* What the server does of its own.
LEMMA AutoShape ==
  ASSUME Shape, AutoStep
  PROVE  Shape'
<1>1. /\ UNCHANGED <<place, table, rows, run, page, calls>>
      /\ hist'.chosen = hist.chosen /\ hist'.asked = hist.asked /\ HistShape'
  BY DEF AutoStep, AutoCheck, AutoLink, AutoFails, Shape, HistShape
<1>2. Video \in Files
  BY MetadataAssumption
<1>3. ServerShape'
  <2>0. ServerShape
    BY DEF Shape
  <2>1. CASE AutoLink
    BY <1>1, <1>2, <2>0, <2>1 DEF AutoLink, ServerShape
  <2>2. CASE AutoCheck
    <3>1. \E a : server' = [server EXCEPT !.auto = a]
      BY <2>2 DEF AutoCheck
    <3> QED BY <1>1, <2>0, <3>1 DEF ServerShape
  <2>3. CASE AutoFails
    BY <1>1, <2>0, <2>3 DEF AutoFails, ServerShape
  <2> QED BY <2>1, <2>2, <2>3 DEF AutoStep
<1> QED BY <1>1, <1>3, Untouched DEF Shape

\* What the server does with a request, and what the page does with its answer.
LEMMA HandlersShape ==
  ASSUME Shape, NEW n \in UnderWay, AnswerStep(n)
  PROVE  Shape'
<1>0. /\ n \in Slots /\ IsCall(calls[n]) /\ HistShape /\ ServerShape /\ DOMAIN calls = Slots
      /\ calls[n] # Over /\ Nothing \notin BOOLEAN /\ Video \in Files
      /\ DOMAIN hist = {"asked", "typed", "chosen", "faults", "calm", "agree", "ordered", "linked"}
  BY MetadataAssumption DEF UnderWay, Shape, CallsShape, Slots, HistShape
\* An answer of the kind of the request.
<1>1. ASSUME NEW a, calls' = [calls EXCEPT ![n].ans = a], UNCHANGED <<place, rows>>,
             hist'.asked = hist.asked,
             IF calls[n].kind = "search" THEN a \in Seq(Items) ELSE a \in BOOLEAN
      PROVE  CallsShape' /\ RowsGrow
  <2>0. PICK q : q = [calls[n] EXCEPT !.ans = a]
    OBVIOUS
  <2>1. calls' = [calls EXCEPT ![n] = q]
    BY <1>0, <1>1, <2>0
  <2>2. /\ DOMAIN q = {"kind", "to", "arg", "ans"} /\ q.kind = calls[n].kind
        /\ q.to = calls[n].to /\ q.arg = calls[n].arg /\ q.ans = a
    BY <1>0, <2>0 DEF IsCall
  <2>3. IsCall(q)'
    BY <1>0, <1>1, <2>2 DEF IsCall, Over
  <2>4. RowsGrow
    BY <1>1 DEF RowsGrow
  <2> QED BY <1>1, <2>1, <2>3, <2>4, OneCall
<1>2. CASE HandleLinkJob(n)
  <2>0. PICK f, item, jobs : /\ f = calls[n].to /\ item = calls[n].arg
                             /\ jobs = Renamed(server.jobs, f, item)
    OBVIOUS
  <2>1. /\ UNCHANGED <<place, table, rows, run, page>> /\ calls[n].kind = "link"
        /\ server' = [server EXCEPT !.links[f] = item, !.jobs = jobs]
        /\ calls' = [calls EXCEPT ![n].ans = TRUE]
        /\ hist' = [hist EXCEPT !.agree = @ /\ jobs = server.jobs]
    BY <1>2, <2>0 DEF HandleLinkJob
  <2>2. f \in Files
    BY <1>0, <2>0, <2>1 DEF IsCall, Over
  <2>3. HistShape' /\ hist'.asked = hist.asked /\ hist'.chosen = hist.chosen
    <3>1. (hist.agree /\ jobs = server.jobs) \in BOOLEAN
      OBVIOUS
    <3> QED BY <1>0, <2>1, <3>1 DEF HistShape
  <2>4. CallsShape' /\ RowsGrow
    BY <1>1, <2>1, <2>3
  <2>5. ServerShape'
    <3>1. /\ DOMAIN jobs = Files
          /\ \A g \in Files :
               \/ jobs[g] = server.jobs[g]
               \/ server.jobs[g] # Nothing /\ RenamedAs(server.jobs[g], jobs[g], TitleOf[item])
      BY <1>0, <2>0, <2>2, RenamedSeries
    <3>2. \A g \in Files : IsVideo(server.jobs[g]) => IsVideo(jobs[g])
      BY <3>1 DEF RenamedAs
    <3>3. \A g \in Files : jobs[g] = Nothing \/ IsVideo(jobs[g])
      BY <1>0, <3>1 DEF ServerShape, RenamedAs
    <3>4. /\ DOMAIN server' = {"jobs", "links", "auto"} /\ server'.jobs = jobs
          /\ DOMAIN server'.links = Files
      BY <1>0, <2>1 DEF ServerShape
    <3> QED BY <1>0, <2>1, <3>1, <3>2, <3>3, <3>4 DEF ServerShape
  <2> QED BY <2>1, <2>3, <2>4, <2>5, Untouched DEF Shape
<1>3. CASE HandleSearch(n)
  <2>1. /\ UNCHANGED <<place, table, rows, run, server, page, hist>> /\ calls[n].kind = "search"
        /\ calls' = [calls EXCEPT ![n].ans = Results[calls[n].arg]]
    BY <1>3 DEF HandleSearch
  <2>2. calls[n].arg \in Words
    BY <1>0, <2>1 DEF IsCall, Over
  <2>3. Results[calls[n].arg] \in Seq(Items)
    BY <2>2, MetadataAssumption
  <2>4. CallsShape' /\ RowsGrow
    BY <1>1, <2>1, <2>3
  <2> QED BY <2>1, <2>4, Untouched DEF Shape
<1>4. CASE HandlePatchJob(n)
  <2>0. PICK ok : ok = (calls[n].arg["title"] # "") /\ ok \in BOOLEAN
    OBVIOUS
  <2>1. /\ UNCHANGED <<place, table, rows, run, page>> /\ calls[n].kind = "edit"
        /\ calls' = [calls EXCEPT ![n].ans = ok]
        /\ \/ /\ server' = [server EXCEPT !.jobs[Video] =
                              Normalized(Updated(@, calls[n].to, calls[n].arg))]
              /\ hist' = [hist EXCEPT !.agree = TRUE]
           \/ UNCHANGED <<server, hist>>
    BY <1>4, <2>0 DEF HandlePatchJob
  <2>2. HistShape' /\ hist'.asked = hist.asked /\ hist'.chosen = hist.chosen
    BY <1>0, <2>1 DEF HistShape
  <2>3. CallsShape' /\ RowsGrow
    BY <1>1, <2>0, <2>1, <2>2
  <2>4. place = "watch" /\ calls[n].to \in AllCategories
    BY <1>0, <2>1 DEF IsCall, Over
  <2>5. IsVideo(Normalized(Updated(server.jobs[Video], calls[n].to, calls[n].arg)))
    <3>1. IsVideo(server.jobs[Video])
      BY <1>0, <2>4 DEF ServerShape
    <3> QED BY <2>4, <3>1, UpdatedVideo, NormalizedVideo
  <2>6. ServerShape'
    BY <1>0, <2>1, <2>5 DEF ServerShape
  <2> QED BY <2>1, <2>2, <2>3, <2>6, Untouched DEF Shape
<1>5. CASE Fails(n)
  <2>0. PICK a : a = IF calls[n].kind = "search" THEN <<>> ELSE FALSE
    OBVIOUS
  <2>1. /\ UNCHANGED <<place, table, rows, run, server, page>>
        /\ calls' = [calls EXCEPT ![n].ans = a]
    BY <1>5, <2>0 DEF Fails
  <2>2. HistShape' /\ hist'.asked = hist.asked /\ hist'.chosen = hist.chosen
    <3>1. PICK b, c : /\ b = (hist.agree /\ (calls[n].kind = "edit" => calls[n].ans = Nothing))
                      /\ c = (hist.ordered /\ calls[n].kind # "link")
      OBVIOUS
    <3>2. b \in BOOLEAN /\ c \in BOOLEAN
      BY <3>1
    <3>3. hist' = [hist EXCEPT !.faults = @ + 1, !.agree = b, !.ordered = c]
      BY <1>5, <3>1 DEF Fails
    <3> QED BY <1>0, <3>2, <3>3 DEF HistShape
  <2>3. CallsShape' /\ RowsGrow
    BY <1>1, <2>0, <2>1, <2>2, NoItems
  <2> QED BY <2>1, <2>2, <2>3, Untouched DEF Shape
<1> QED BY <1>2, <1>3, <1>4, <1>5 DEF AnswerStep

LEMMA TakesShape ==
  ASSUME Shape, Waiting, NEW n \in UnderWay, TakeStep(n)
  PROVE  Shape'
<1>0. /\ n \in Slots /\ IsCall(calls[n]) /\ HistShape /\ PageShape
      /\ calls[n] # Over /\ DOMAIN page = {"job", "open", "saving", "searching", "hits"}
      /\ DOMAIN hist = {"asked", "typed", "chosen", "faults", "calm", "agree", "ordered", "linked"}
  BY DEF UnderWay, Shape, CallsShape, Slots, HistShape, PageShape
<1>1. ASSUME calls' = [calls EXCEPT ![n] = Over], UNCHANGED place, RowsGrow,
             hist'.asked = hist.asked
      PROVE  CallsShape'
  <2>1. IsCall(Over)'
    BY DEF IsCall, Over
  <2>2. PICK q : q = Over
    OBVIOUS
  <2> QED BY <1>1, <2>1, <2>2, OneCall
<1>2. CASE TakeRowResults(n)
  <2>1. /\ UNCHANGED <<place, table, run, server, page, hist>>
        /\ calls' = [calls EXCEPT ![n] = Over]
    BY <1>2 DEF TakeRowResults
  <2>2. RowsStay /\ RowsGrow
    BY <1>0, <1>2, TakeRows, StayGrow
  <2> QED BY <1>1, <2>1, <2>2, RowsStayShape, Untouched DEF Shape
<1>3. CASE TakeBoxResults(n)
  <2>0. PICK b : b = (page.searching /\ ~Frees("search", n)) /\ b \in BOOLEAN
    OBVIOUS
  <2>1. /\ UNCHANGED <<place, table, rows, run, server, hist>>
        /\ calls[n].kind = "search" /\ calls[n].ans # Nothing
        /\ calls' = [calls EXCEPT ![n] = Over]
        /\ page' = [page EXCEPT !.hits = calls[n].ans, !.searching = b]
    BY <1>3, <2>0 DEF TakeBoxResults
  <2>2. calls[n].ans \in Seq(Items)
    BY <1>0, <2>1, SearchIsTyped
  <2>3. PageShape' /\ page'.open = page.open
    BY <1>0, <2>0, <2>1, <2>2 DEF PageShape
  <2> QED BY <1>1, <2>1, <2>3, Untouched DEF Shape
<1>4. CASE TakeLink(n)
  <2>1. /\ UNCHANGED <<place, table, rows, server>> /\ calls[n].kind = "link"
        /\ calls' = [calls EXCEPT ![n] = Over]
        /\ \/ /\ place = "upload" /\ run' = [run EXCEPT !.stage = "polling"]
              /\ UNCHANGED <<page, hist>>
           \/ /\ page' \in {page, [page EXCEPT !.hits = <<>>]}
              /\ hist' \in {hist, [hist EXCEPT !.linked = calls[n].arg]}
              /\ UNCHANGED run
    BY <1>4 DEF TakeLink
  <2>2. HistShape' /\ hist'.asked = hist.asked /\ hist'.chosen = hist.chosen
    BY <1>0, <2>1 DEF HistShape
  <2>3. PageShape' /\ page'.open = page.open
    BY <1>0, <2>1, <2>2, NoItems DEF PageShape
  <2>4. RowsGrow
    BY <2>1 DEF RowsGrow
  <2>5. RunShape'
    <3>1. CASE UNCHANGED run
      BY <2>1, <2>4, <3>1, Untouched
    <3>2. CASE place = "upload" /\ run' = [run EXCEPT !.stage = "polling"]
      <4>1. run.stage = "linking"
        BY <1>0, <2>1, <3>2 DEF Waiting, Has
      <4>2. run # Idle
        BY <4>1 DEF Idle
      <4> QED BY <2>1, <3>2, <4>2 DEF Shape, RunShape
    <3> QED BY <2>1, <3>1, <3>2
  <2> QED BY <1>1, <2>1, <2>2, <2>3, <2>4, <2>5, Untouched DEF Shape
<1>5. CASE TakeEdit(n)
  <2>0. PICK b : b = (page.saving /\ ~Frees("edit", n)) /\ b \in BOOLEAN
    OBVIOUS
  <2>1. /\ UNCHANGED <<place, table, rows, run, server, hist>>
        /\ calls[n].kind = "edit" /\ calls[n].ans # Nothing
        /\ calls' = [calls EXCEPT ![n] = Over]
        /\ \/ page' = Closed([[page EXCEPT !.saving = b]
                                EXCEPT !.job = Merged(calls[n].to, calls[n].arg)])
           \/ page' = [page EXCEPT !.saving = b]
    BY <1>5, <2>0 DEF TakeEdit
  <2>2. calls[n].to \in AllCategories
    BY <1>0, <2>1 DEF IsCall, Over
  <2>3. IsVideo(Merged(calls[n].to, calls[n].arg))
    BY <2>2, MergedVideo
  <2>4. PageShape' /\ (page'.open => page.open)
    BY <1>0, <2>0, <2>1, <2>3, NoItems DEF PageShape, Closed
  <2> QED BY <1>1, <2>1, <2>4, Untouched DEF Shape
<1> QED BY <1>2, <1>3, <1>4, <1>5 DEF TakeStep

LEMMA NextShape == Shape /\ Waiting /\ [Next]_vars => Shape'
<1> SUFFICES ASSUME Shape, Waiting, [Next]_vars PROVE Shape'
  OBVIOUS
<1>1. CASE UNCHANGED vars
  BY <1>1, Untouched DEF vars, Shape
<1> QED BY <1>1, Steps, TableShape, RunsShape, BoxShape, AutoShape, HandlersShape, TakesShape

-----------------------------------------------------------------------------
(* Who waits, waits for one request.                                       *)

\* The kinds of the requests, when one leaves, is answered, and when its answer is taken.
LEMMA KindsAsked ==
  ASSUME Shape, NEW q, Asks(q), NEW kind, kind # "none"
  PROVE  /\ Has(kind)' <=> Has(kind) \/ q.kind = kind
         /\ Once(kind) /\ (q.kind # kind \/ ~Has(kind)) => Once(kind)'
<1> DEFINE new == hist.asked + 1
<1>1. /\ new \in Slots /\ calls[new] = Over /\ calls'[new] = q
      /\ \A n \in Slots : n # new => calls'[n] = calls[n]
  BY Asked
<1>2. Over.kind # kind
  BY DEF Over
<1> HIDE DEF new
<1>3. \A n \in Slots : calls'[n].kind = kind <=> calls[n].kind = kind \/ (n = new /\ q.kind = kind)
  BY <1>1, <1>2
<1> QED BY <1>1, <1>3 DEF Has, Once

LEMMA KindsAnswered ==
  ASSUME Shape, NEW n \in UnderWay, NEW a, calls' = [calls EXCEPT ![n].ans = a], NEW kind
  PROVE  /\ n \in Slots /\ calls'[n] = [calls[n] EXCEPT !.ans = a]
         /\ \A m \in Slots : m # n => calls'[m] = calls[m]
         /\ \A m \in Slots : /\ calls'[m].kind = calls[m].kind
                             /\ calls'[m].to = calls[m].to /\ calls'[m].arg = calls[m].arg
         /\ Has(kind)' <=> Has(kind)
         /\ Once(kind)' <=> Once(kind)
<1>1. /\ n \in Slots /\ DOMAIN calls = Slots /\ IsCall(calls[n])
  BY DEF UnderWay, Slots, Shape, CallsShape
<1>2. /\ calls'[n] = [calls[n] EXCEPT !.ans = a]
      /\ \A m \in Slots : m # n => calls'[m] = calls[m]
  BY <1>1
<1>3. \A m \in Slots : /\ calls'[m].kind = calls[m].kind
                       /\ calls'[m].to = calls[m].to /\ calls'[m].arg = calls[m].arg
  BY <1>1, <1>2 DEF IsCall
<1>4. (Has(kind)' <=> Has(kind)) /\ (Once(kind)' <=> Once(kind))
  BY <1>3 DEF Has, Once
<1> QED BY <1>1, <1>2, <1>3, <1>4

LEMMA KindsTaken ==
  ASSUME Shape, NEW n \in UnderWay, calls' = [calls EXCEPT ![n] = Over],
         NEW kind, kind # "none"
  PROVE  /\ Once(kind) => Once(kind)'
         /\ calls[n].kind # kind => (Has(kind)' <=> Has(kind))
         /\ calls[n].kind = kind => (Has(kind) /\ (Once(kind) => ~Has(kind)'))
<1>1. /\ n \in Slots /\ calls'[n] = Over /\ \A m \in Slots : m # n => calls'[m] = calls[m]
  BY DEF UnderWay, Slots, Shape, CallsShape
<1>2. Over.kind # kind
  BY DEF Over
<1>3. \A m \in Slots : calls'[m].kind = kind <=> calls[m].kind = kind /\ m # n
  BY <1>1, <1>2
<1> QED BY <1>1, <1>3 DEF Has, Once

LEMMA AskingIsHas ==
  ASSUME NEW kind, kind # "none"
  PROVE  Asking(kind) <=> Has(kind)
<1>1. Over.kind = "none"
  BY DEF Over
<1> QED BY <1>1 DEF Asking, Has, UnderWay, Slots

\* Edits are of the watch page.
LEMMA NoEdits ==
  ASSUME Shape, place = "upload"
  PROVE  ~Has("edit")
<1>1. ASSUME NEW n \in Slots, calls[n].kind = "edit" PROVE FALSE
  <2>1. IsCall(calls[n]) /\ calls[n] # Over
    BY <1>1 DEF Shape, CallsShape, Over
  <2> QED BY <1>1, <2>1 DEF IsCall
<1> QED BY <1>1 DEF Has

\* A step that asks for nothing and takes no answer.
LEMMA QuietWaiting ==
  ASSUME Waiting, UNCHANGED <<place, calls>>, page'.saving = page.saving,
         page'.searching = page.searching, run'.stage = "linking" <=> run.stage = "linking"
  PROVE  Waiting'
  BY DEF Waiting, Has, Once

LEMMA InitWaiting == Init => Waiting
<1> SUFFICES ASSUME Init PROVE Waiting
  OBVIOUS
<1>1. \A n \in Slots : calls[n].kind = "none"
  BY DEF Init, Slots, Over
<1>2. ~page.saving /\ ~page.searching /\ run.stage = "idle"
  BY DEF Init, Idle
<1>3. page.saving = FALSE /\ page.searching = FALSE
  BY DEF Init
<1> QED BY <1>1, <1>2, <1>3 DEF Waiting, Has, Once

LEMMA AskingWaiting ==
  ASSUME Shape, Waiting,
         \/ \E i \in DOMAIN Current : \E w \in Words : SearchUploadMetadata(i, w)
         \/ Finalize
         \/ \E c \in AllCategories, v \in Typed : SaveEditModal(c, v)
         \/ \E w \in Words : SearchExternalMetadata(w)
         \/ \E item \in Items, direct \in BOOLEAN : LinkMetadata(item, direct)
  PROVE  Waiting'
<1>0. /\ PageShape /\ DOMAIN page = {"job", "open", "saving", "searching", "hits"}
      /\ DOMAIN run = {"at", "stage", "db", "row"} /\ (page.open => place = "watch")
  <2>1. page.open => place = "watch"
    BY DEF Shape
  <2> QED BY <2>1 DEF Shape, PageShape, RunShape
<1>1. ASSUME NEW i \in DOMAIN Current, NEW w \in Words, SearchUploadMetadata(i, w) PROVE Waiting'
  <2>1. PICK q : q = Call("search", <<table.sel, i>>, w)
    OBVIOUS
  <2>2. Asks(q) /\ UNCHANGED <<place, page, run>> /\ q.kind = "search" /\ place = "upload"
    BY <1>1, <2>1 DEF SearchUploadMetadata, InTable, Call
  <2>3. /\ Has("edit")' <=> Has("edit")
        /\ Once("edit") => Once("edit")'
        /\ Has("link")' <=> Has("link")
        /\ Once("link") => Once("link")'
    BY <2>2, KindsAsked
  <2> QED BY <2>2, <2>3 DEF Waiting
<1>2. CASE Finalize
  <2>1. PICK q : q = Call("link", RowOfRun.file, RowOfRun.ext)
    OBVIOUS
  <2>2. /\ UNCHANGED <<place, page>> /\ run.stage = "sending"
        /\ \/ Asks(q) /\ run'.stage = "linking"
           \/ run'.stage = "polling" /\ UNCHANGED calls
    BY <1>0, <1>2, <2>1 DEF Finalize
  <2>3. place = "upload" /\ ~Has("link")
    BY <2>2, RunRow DEF Waiting
  <2>4. CASE Asks(q) /\ run'.stage = "linking"
    <3>1. q.kind = "link"
      BY <2>1 DEF Call
    <3>2. /\ Has("edit")' <=> Has("edit")
          /\ Once("edit") => Once("edit")'
          /\ Has("link")' /\ (Once("link") => Once("link")')
      BY <2>3, <2>4, <3>1, KindsAsked
    <3> QED BY <2>2, <2>3, <2>4, <3>2 DEF Waiting
  <2>5. CASE run'.stage = "polling" /\ UNCHANGED calls
    BY <2>2, <2>5, QuietWaiting
  <2> QED BY <2>2, <2>4, <2>5
<1>3. ASSUME NEW c \in AllCategories, NEW v \in Typed, SaveEditModal(c, v) PROVE Waiting'
  <2>1. PICK q : q = Call("edit", c, v)
    OBVIOUS
  <2>2. /\ Asks(q) /\ UNCHANGED <<place, run>> /\ page.open /\ ~page.saving
        /\ page' = [page EXCEPT !.saving = TRUE]
    BY <1>3, <2>1 DEF SaveEditModal
  <2>3. q.kind = "edit" /\ ~Has("edit") /\ place = "watch"
    BY <1>0, <2>1, <2>2 DEF Call, Waiting
  <2>4. /\ Has("edit")' /\ (Once("edit") => Once("edit")')
        /\ Has("search")' <=> Has("search")
        /\ Once("search") => Once("search")'
    BY <2>2, <2>3, KindsAsked
  <2>5. page'.saving = TRUE /\ page'.searching = page.searching
    BY <1>0, <2>2
  <2> QED BY <2>2, <2>3, <2>4, <2>5 DEF Waiting
<1>4. ASSUME NEW w \in Words, SearchExternalMetadata(w) PROVE Waiting'
  <2>1. PICK q : q = Call("search", Nothing, w)
    OBVIOUS
  <2>2. /\ Asks(q) /\ UNCHANGED <<place, run>> /\ page.open /\ ~page.searching
        /\ page' = [page EXCEPT !.searching = TRUE]
    BY <1>4, <2>1 DEF SearchExternalMetadata
  <2>3. q.kind = "search" /\ place = "watch"
    BY <1>0, <2>1, <2>2 DEF Call
  <2>4. ~Has("search")
    BY <2>2, <2>3 DEF Waiting
  <2>5. /\ Has("search")' /\ (Once("search") => Once("search")')
        /\ Has("edit")' <=> Has("edit")
        /\ Once("edit") => Once("edit")'
    BY <2>2, <2>3, <2>4, KindsAsked
  <2>6. page'.searching = TRUE /\ page'.saving = page.saving
    BY <1>0, <2>2
  <2> QED BY <2>2, <2>3, <2>5, <2>6 DEF Waiting
<1>5. ASSUME NEW item, NEW direct, LinkMetadata(item, direct) PROVE Waiting'
  <2>1. PICK q : q = Call("link", Video, item)
    OBVIOUS
  <2>2. Asks(q) /\ UNCHANGED <<place, run, page>> /\ page.open
    BY <1>5, <2>1 DEF LinkMetadata
  <2>3. q.kind = "link" /\ place = "watch"
    BY <1>0, <2>1, <2>2 DEF Call
  <2>4. /\ Has("search")' <=> Has("search")
        /\ Once("search") => Once("search")'
        /\ Has("edit")' <=> Has("edit")
        /\ Once("edit") => Once("edit")'
    BY <2>2, <2>3, KindsAsked
  <2> QED BY <2>2, <2>3, <2>4 DEF Waiting
<1> QED BY <1>1, <1>2, <1>3, <1>4, <1>5

LEMMA QuietStepsWaiting ==
  ASSUME Shape, Waiting,
         \/ \E c \in Categories : ChooseCategory(c)
         \/ \E fs \in (SUBSET Files) \ {{}} : HandleSelectedFiles(fs)
         \/ \E i \in DOMAIN Current :
              \/ \E k \in Keys : \E v \in Values(k) : Input(i, k, v)
              \/ \E k \in DOMAIN Current[i].buttons : SelectUploadMetadata(i, k)
         \/ \E v \in Texts : ApplyAll(v)
         \/ Start \/ Saved \/ RunFails
         \/ OpenEditModal \/ CloseEditModal \/ AutoCheck \/ AutoLink \/ AutoFails
  PROVE  Waiting'
<1>0. /\ DOMAIN page = {"job", "open", "saving", "searching", "hits"}
      /\ DOMAIN run = {"at", "stage", "db", "row"}
  BY DEF Shape, PageShape, RunShape
<1>1. ASSUME UNCHANGED <<place, run, page, calls>> PROVE Waiting'
  BY <1>1, QuietWaiting
<1>2. CASE \E c \in Categories : ChooseCategory(c)
  BY <1>1, <1>2 DEF ChooseCategory
<1>3. CASE \E fs \in (SUBSET Files) \ {{}} : HandleSelectedFiles(fs)
  <2>1. PICK fs : HandleSelectedFiles(fs)
    BY <1>3
  <2> QED BY <1>1, <2>1 DEF HandleSelectedFiles
<1>4. ASSUME NEW new, Types(new) PROVE Waiting'
  BY <1>1, <1>4 DEF Types
<1>5. ASSUME NEW i, NEW k, NEW v, Input(i, k, v) PROVE Waiting'
  BY <1>4, <1>5 DEF Input
<1>6. ASSUME NEW i, NEW k, SelectUploadMetadata(i, k) PROVE Waiting'
  BY <1>1, <1>6 DEF SelectUploadMetadata
<1>7. ASSUME NEW v, ApplyAll(v) PROVE Waiting'
  BY <1>4, <1>7 DEF ApplyAll
<1>8. CASE Start \/ Saved \/ RunFails
  <2>1. /\ UNCHANGED <<place, page, calls>>
        /\ run.stage # "linking" /\ run'.stage # "linking"
    <3>1. CASE Start
      BY <3>1 DEF Start, Idle
    <3>2. CASE Saved
      <4>1. /\ UNCHANGED <<place, page, calls>> /\ run.stage = "polling"
            /\ \/ run' = Idle
               \/ \E at, row : run' = [run EXCEPT !.at = at, !.stage = "sending", !.row = row]
        BY <3>2 DEF Saved
      <4>2. run'.stage # "linking"
        <5>1. CASE run' = Idle
          BY <5>1 DEF Idle
        <5>2. ASSUME NEW a, NEW r,
                     run' = [run EXCEPT !.at = a, !.stage = "sending", !.row = r]
              PROVE  run'.stage = "sending"
          BY <1>0, <5>2
        <5> QED BY <4>1, <5>1, <5>2
      <4> QED BY <4>1, <4>2
    <3>3. CASE RunFails
      BY <3>3 DEF RunFails, Idle
    <3> QED BY <1>8, <3>1, <3>2, <3>3
  <2> QED BY <2>1, QuietWaiting
<1>9. CASE OpenEditModal \/ CloseEditModal
  <2>1. /\ UNCHANGED <<place, run, calls>>
        /\ page'.saving = page.saving /\ page'.searching = page.searching
    BY <1>0, <1>9 DEF OpenEditModal, CloseEditModal, Closed
  <2> QED BY <2>1, QuietWaiting
<1>10. CASE AutoCheck \/ AutoLink \/ AutoFails
  BY <1>1, <1>10 DEF AutoCheck, AutoLink, AutoFails
<1> QED BY <1>2, <1>3, <1>5, <1>6, <1>7, <1>8, <1>9, <1>10

LEMMA AnswersWaiting ==
  ASSUME Shape, Waiting, NEW n \in UnderWay, AnswerStep(n)
  PROVE  Waiting'
<1>1. /\ UNCHANGED <<place, page, run>>
      /\ \E a : calls' = [calls EXCEPT ![n].ans = a]
  BY DEF AnswerStep, HandleLinkJob, HandleSearch, HandlePatchJob, Fails
<1>2. PICK a : calls' = [calls EXCEPT ![n].ans = a]
  BY <1>1
<1>3. \A kind : (Has(kind)' <=> Has(kind)) /\ (Once(kind)' <=> Once(kind))
  BY <1>2, KindsAnswered
<1> QED BY <1>1, <1>3 DEF Waiting

LEMMA TakesWaiting ==
  ASSUME Shape, Waiting, NEW n \in UnderWay, TakeStep(n)
  PROVE  Waiting'
<1>0. /\ DOMAIN page = {"job", "open", "saving", "searching", "hits"} /\ PageShape
      /\ DOMAIN run = {"at", "stage", "db", "row"}
      /\ place \in {"upload", "watch"} /\ n \in Slots
  BY DEF Shape, PageShape, RunShape, UnderWay, Slots
<1>1. calls' = [calls EXCEPT ![n] = Over]
  BY DEF TakeStep, TakeRowResults, TakeBoxResults, TakeLink, TakeEdit
<1>2. \A kind \in {"edit", "search", "link"} :
        /\ Once(kind) => Once(kind)'
        /\ calls[n].kind # kind => (Has(kind)' <=> Has(kind))
        /\ calls[n].kind = kind => (Has(kind) /\ (Once(kind) => ~Has(kind)'))
  BY <1>1, KindsTaken
<1>3. CASE TakeRowResults(n)
  <2>1. /\ UNCHANGED <<place, page, run>> /\ calls[n].kind = "search" /\ calls[n].ans # Nothing
    BY <1>3 DEF TakeRowResults
  <2>2. place = "upload"
    BY <1>0, <1>3, TakeRows
  <2> QED BY <1>2, <2>1, <2>2 DEF Waiting
<1>4. CASE TakeBoxResults(n)
  <2>0. PICK b : b = (page.searching /\ ~Frees("search", n)) /\ b \in BOOLEAN
    OBVIOUS
  <2>1. /\ UNCHANGED <<place, run>> /\ calls[n].kind = "search"
        /\ calls[n].ans # Nothing /\ calls[n].to = Nothing
        /\ page' = [page EXCEPT !.hits = calls[n].ans, !.searching = b]
    BY <1>4, <2>0 DEF TakeBoxResults
  <2>2. place = "watch"
    <3>1. ASSUME NEW s \in Nat, NEW i \in Nat PROVE Nothing # <<s, i>>
      <4>1. <<s, i>> \in Nat \X Nat
        OBVIOUS
      <4> QED BY <4>1, MetadataAssumption
    <3>2. ASSUME NEW s \in Selections, NEW i \in DOMAIN rows[s] PROVE Nothing # <<s, i>>
      BY <3>1 DEF Shape, RowsShape, Selections
    <3> QED BY <1>0, <2>1, <3>2, SearchIsTyped
  <2>3. ~b
    BY <2>0, <2>1 DEF Frees
  <2>4. page'.saving = page.saving /\ ~page'.searching
    BY <1>0, <2>1, <2>3
  <2> QED BY <1>2, <2>1, <2>2, <2>4 DEF Waiting
<1>5. CASE TakeLink(n)
  <2>1. /\ UNCHANGED place /\ calls[n].kind = "link"
        /\ page'.saving = page.saving /\ page'.searching = page.searching
        /\ \/ place = "upload" /\ run'.stage = "polling"
           \/ place # "upload" /\ UNCHANGED run
    BY <1>0, <1>5 DEF TakeLink
  <2> QED BY <1>2, <2>1 DEF Waiting
<1>6. CASE TakeEdit(n)
  <2>0. PICK b : b = (page.saving /\ ~Frees("edit", n)) /\ b \in BOOLEAN
    OBVIOUS
  <2>1. /\ UNCHANGED <<place, run>> /\ calls[n].kind = "edit"
        /\ \/ page' = Closed([[page EXCEPT !.saving = b]
                                EXCEPT !.job = Merged(calls[n].to, calls[n].arg)])
           \/ page' = [page EXCEPT !.saving = b]
    BY <1>6, <2>0 DEF TakeEdit
  <2>2. ~b
    BY <2>0, <2>1 DEF Frees
  <2>3. ~page'.saving /\ page'.searching = page.searching
    BY <1>0, <2>1, <2>2 DEF Closed
  <2>4. place = "watch"
    BY <1>0, <2>1, NoEdits DEF Has
  <2> QED BY <1>2, <2>1, <2>3, <2>4 DEF Waiting
<1> QED BY <1>3, <1>4, <1>5, <1>6 DEF TakeStep

LEMMA NextWaiting == Shape /\ Waiting /\ [Next]_vars => Waiting'
<1> SUFFICES ASSUME Shape, Waiting, [Next]_vars PROVE Waiting'
  OBVIOUS
<1>1. CASE UNCHANGED vars
  BY <1>1, QuietWaiting DEF vars
<1>2. CASE TableStep \/ RunStep \/ BoxStep \/ AutoStep
  BY <1>2, QuietStepsWaiting, AskingWaiting DEF TableStep, RunStep, BoxStep, AutoStep
<1> QED BY <1>1, <1>2, Steps, AnswersWaiting, TakesWaiting

-----------------------------------------------------------------------------
(* The rows: what a click leaves is what the button said.                  *)

\* What was clicked stays clicked.
ClicksStay ==
  \A s \in Selections : \A i \in DOMAIN rows[s] :
    /\ i \in DOMAIN rows'[s] /\ rows'[s][i].file = rows[s][i].file
    /\ ToSet(rows[s][i].clicked) \subseteq ToSet(rows'[s][i].clicked)

LEMMA ClickedStays ==
  ASSUME ClicksStay, NEW f, NEW item, Clicked(f, item)
  PROVE  Clicked(f, item)'
<1>1. PICK s \in Selections : \E i \in DOMAIN rows[s] :
        rows[s][i].file = f /\ item \in ToSet(rows[s][i].clicked)
  BY DEF Clicked
<1>2. PICK i \in DOMAIN rows[s] :
        rows[s][i].file = f /\ item \in ToSet(rows[s][i].clicked)
  BY <1>1
<1>3. /\ i \in DOMAIN rows'[s] /\ rows'[s][i].file = f
      /\ item \in ToSet(rows'[s][i].clicked)
  BY <1>2 DEF ClicksStay
<1> QED BY <1>3 DEF Clicked

LEMMA LastClick ==
  ASSUME NEW c \in Seq(Items), c # <<>>
  PROVE  Last(c) \in ToSet(c)
<1>1. Len(c) \in DOMAIN c
  OBVIOUS
<1> QED BY <1>1 DEF Last, ToSet

LEMMA OneMoreClick ==
  ASSUME NEW c \in Seq(Items), NEW x \in Items
  PROVE  /\ Append(c, x) # <<>> /\ Last(Append(c, x)) = x
         /\ ToSet(c) \subseteq ToSet(Append(c, x))
<1>1. /\ Append(c, x) \in Seq(Items) /\ Len(Append(c, x)) = Len(c) + 1
      /\ Append(c, x)[Len(c) + 1] = x
      /\ \A i \in DOMAIN c : i \in DOMAIN Append(c, x) /\ Append(c, x)[i] = c[i]
  OBVIOUS
<1>2. Append(c, x) # <<>> /\ Last(Append(c, x)) = x
  BY <1>1 DEF Last
<1> QED BY <1>1, <1>2 DEF ToSet

LEMMA SameRowsFit ==
  ASSUME Shape, RowsFit, UNCHANGED rows
  PROVE  RowsFit' /\ ClicksStay
  BY DEF RowsFit, ClicksStay

LEMMA TypedRowsFit ==
  ASSUME RowsFit, RowsStay, LinksStay
  PROVE  RowsFit' /\ ClicksStay
  BY DEF RowsFit, ClicksStay, RowsStay, LinksStay, RowFits

LEMMA SelectedRowsFit ==
  ASSUME Shape, RowsFit, NEW fs \in SUBSET Files, fs # {}, HandleSelectedFiles(fs)
  PROVE  RowsFit' /\ ClicksStay
<1> DEFINE n == hist.chosen + 1
<1>1. /\ n \in Selections /\ DOMAIN rows[n] = {}
      /\ \A s \in Selections : s # n => rows'[s] = rows[s]
      /\ \A i \in DOMAIN rows'[n] :
           /\ rows'[n][i].ext = Nothing /\ rows'[n][i].buttons = <<>>
           /\ rows'[n][i].clicked = <<>>
  BY SelectedRows
<1> HIDE DEF n
<1> QED BY <1>1 DEF RowsFit, ClicksStay, RowFits

LEMMA SearchRowsFit ==
  ASSUME Shape, RowsFit, NEW i, NEW w, SearchUploadMetadata(i, w)
  PROVE  RowsFit' /\ ClicksStay
<1>1. /\ RowsStay
      /\ \A s \in Selections : \A j \in DOMAIN rows[s] :
           /\ rows'[s][j].ext = rows[s][j].ext /\ rows'[s][j].clicked = rows[s][j].clicked
           /\ rows'[s][j].results = rows[s][j].results
           /\ rows'[s][j].buttons \in {rows[s][j].buttons, <<>>}
  BY SearchRows
<1> QED BY <1>1 DEF RowsFit, ClicksStay, RowsStay, RowFits

\* The results a row holds are those there are buttons for.
LEMMA SelectRowsFit ==
  ASSUME Shape, RowsFit, NEW i, NEW k, SelectUploadMetadata(i, k)
  PROVE  RowsFit' /\ ClicksStay
<1>1. RowsStay
  BY SelectRows
<1>2. PICK s \in Selections : \E j \in DOMAIN rows[s] : Clicks(s, j, k)
  BY SelectRows
<1>3. PICK j \in DOMAIN rows[s] : Clicks(s, j, k)
  BY <1>2
<1> DEFINE row == rows[s][j]
           new == rows'[s][j]
<1>4. IsRow(row) /\ RowFits(row)
  BY DEF Shape, RowsShape, RowsFit
<1>5. row.buttons # <<>> /\ row.results = row.buttons /\ row.buttons[k] \in Items
  BY <1>3, <1>4 DEF Clicks, IsRow, RowFits
<1>6. /\ new.ext = row.buttons[k] /\ new.clicked = Append(row.clicked, row.buttons[k])
      /\ new.buttons = <<>>
  BY <1>3, <1>4, <1>5 DEF Clicks, IsRow
<1>7. /\ new.clicked # <<>> /\ Last(new.clicked) = new.ext
      /\ ToSet(row.clicked) \subseteq ToSet(new.clicked)
  BY <1>4, <1>5, <1>6, OneMoreClick DEF IsRow
<1>8. RowFits(new)
  BY <1>6, <1>7 DEF RowFits
<1>9. ASSUME NEW t \in Selections, NEW h \in DOMAIN rows[t]
      PROVE  RowFits(rows'[t][h]) /\ ToSet(rows[t][h].clicked) \subseteq ToSet(rows'[t][h].clicked)
  <2>1. CASE t = s /\ h = j
    BY <1>7, <1>8, <2>1
  <2>2. CASE t # s \/ h # j
    BY <1>3, <2>2 DEF Clicks, RowsFit
  <2> QED BY <2>1, <2>2
<1> HIDE DEF new, row
<1> QED BY <1>1, <1>9 DEF RowsFit, ClicksStay, RowsStay

LEMMA TakeRowsFit ==
  ASSUME Shape, RowsFit, NEW n \in Slots, TakeRowResults(n)
  PROVE  RowsFit' /\ ClicksStay
<1>1. RowsStay
  BY TakeRows
<1>2. PICK s \in Selections : \E j \in DOMAIN rows[s] :
        LET row == rows[s][j] IN
        /\ rows'[s][j].ext = row.ext /\ rows'[s][j].clicked = row.clicked
        /\ \/ rows'[s][j].buttons = <<>>
           \/ rows'[s][j].buttons = rows'[s][j].results
        /\ \A t \in Selections : \A h \in DOMAIN rows[t] :
             (t # s \/ h # j) => rows'[t][h] = rows[t][h]
  BY TakeRows
<1>3. PICK j \in DOMAIN rows[s] :
        LET row == rows[s][j] IN
        /\ rows'[s][j].ext = row.ext /\ rows'[s][j].clicked = row.clicked
        /\ \/ rows'[s][j].buttons = <<>>
           \/ rows'[s][j].buttons = rows'[s][j].results
        /\ \A t \in Selections : \A h \in DOMAIN rows[t] :
             (t # s \/ h # j) => rows'[t][h] = rows[t][h]
  BY <1>2
<1>4. ASSUME NEW t \in Selections, NEW h \in DOMAIN rows[t]
      PROVE  RowFits(rows'[t][h]) /\ rows'[t][h].clicked = rows[t][h].clicked
  <2>1. RowFits(rows[t][h])
    BY DEF RowsFit
  <2>2. CASE t = s /\ h = j
    BY <1>3, <2>1, <2>2 DEF RowFits
  <2>3. CASE t # s \/ h # j
    BY <1>3, <2>1, <2>3
  <2> QED BY <2>2, <2>3
<1> QED BY <1>1, <1>4 DEF RowsFit, ClicksStay, RowsStay

LEMMA NextRowsFit ==
  ASSUME Shape, RowsFit, [Next]_vars
  PROVE  RowsFit' /\ ClicksStay
<1>1. CASE UNCHANGED rows
  BY <1>1, SameRowsFit
<1>2. ASSUME NEW fs \in (SUBSET Files) \ {{}}, HandleSelectedFiles(fs)
      PROVE  RowsFit' /\ ClicksStay
  BY <1>2, SelectedRowsFit
<1>3. ASSUME NEW i, NEW k \in Keys, NEW v, Input(i, k, v) PROVE RowsFit' /\ ClicksStay
  BY <1>3, InputRows, TypedRowsFit
<1>4. ASSUME NEW v, ApplyAll(v) PROVE RowsFit' /\ ClicksStay
  BY <1>4, ApplyAllRows, TypedRowsFit
<1>5. ASSUME NEW i, NEW w, SearchUploadMetadata(i, w) PROVE RowsFit' /\ ClicksStay
  BY <1>5, SearchRowsFit
<1>6. ASSUME NEW i, NEW k, SelectUploadMetadata(i, k) PROVE RowsFit' /\ ClicksStay
  BY <1>6, SelectRowsFit
<1>7. ASSUME NEW n \in UnderWay, TakeRowResults(n) PROVE RowsFit' /\ ClicksStay
  BY <1>7, TakeRowsFit DEF UnderWay, Slots
<1>8. \/ UNCHANGED rows
      \/ \E fs \in (SUBSET Files) \ {{}} : HandleSelectedFiles(fs)
      \/ \E i \in DOMAIN Current :
           \/ \E k \in Keys : \E v \in Values(k) : Input(i, k, v)
           \/ \E w \in Words : SearchUploadMetadata(i, w)
           \/ \E k \in DOMAIN Current[i].buttons : SelectUploadMetadata(i, k)
      \/ \E v \in Texts : ApplyAll(v)
      \/ \E n \in UnderWay : TakeRowResults(n)
  BY DEF Next, vars, Start, Finalize, Saved, RunFails, OpenEditModal, CloseEditModal,
         AutoCheck, AutoLink, AutoFails, ChooseCategory, SaveEditModal, SearchExternalMetadata,
         LinkMetadata, HandleLinkJob, HandleSearch, HandlePatchJob, Fails, TakeBoxResults,
         TakeLink, TakeEdit
<1> QED BY <1>1, <1>2, <1>3, <1>4, <1>5, <1>6, <1>7, <1>8

-----------------------------------------------------------------------------
(* The links.                                                              *)

\* On which page a step is made.
LEMMA Places ==
  ASSUME Shape
  PROVE  /\ (TableStep \/ RunStep) => place = "upload"
         /\ BoxStep => place = "watch"
<1>1. page.open => place = "watch"
  BY DEF Shape
<1>2. TableStep => place = "upload"
  <2>1. ASSUME NEW fs, HandleSelectedFiles(fs) PROVE place = "upload"
    BY <2>1 DEF HandleSelectedFiles
  <2>2. ASSUME NEW new, Types(new) PROVE place = "upload"
    BY <2>2 DEF Types, InTable
  <2>3. ASSUME NEW i, NEW k,
               (\E v : Input(i, k, v)) \/ ApplyAll(k)
               \/ SearchUploadMetadata(i, k) \/ SelectUploadMetadata(i, k)
        PROVE  place = "upload"
    BY <2>2, <2>3 DEF Input, ApplyAll, SearchUploadMetadata, SelectUploadMetadata, InTable
  <2> QED BY <2>1, <2>3 DEF TableStep, ChooseCategory
<1>3. RunStep => place = "upload"
  BY RunRow DEF RunStep, Start, InTable, Finalize, Saved, RunFails
<1>4. BoxStep => place = "watch"
  BY <1>1 DEF BoxStep, OpenEditModal, CloseEditModal, SaveEditModal, SearchExternalMetadata,
              LinkMetadata
<1> QED BY <1>2, <1>3, <1>4

LEMMA SamePlace == [Next]_vars => UNCHANGED place
<1> SUFFICES ASSUME [Next]_vars PROVE UNCHANGED place
  OBVIOUS
<1>1. ASSUME NEW fs, HandleSelectedFiles(fs) PROVE UNCHANGED place
  BY <1>1 DEF HandleSelectedFiles
<1>2. TableStep => UNCHANGED place
  BY <1>1 DEF TableStep, ChooseCategory, Input, ApplyAll, Types, SearchUploadMetadata,
              SelectUploadMetadata
<1>3. RunStep => UNCHANGED place
  BY DEF RunStep, Start, Finalize, Saved, RunFails
<1>4. BoxStep \/ AutoStep => UNCHANGED place
  BY DEF BoxStep, OpenEditModal, CloseEditModal, SaveEditModal, SearchExternalMetadata,
         LinkMetadata, AutoStep, AutoCheck, AutoLink, AutoFails
<1>5. ASSUME NEW n, AnswerStep(n) \/ TakeStep(n) PROVE UNCHANGED place
  BY <1>5 DEF AnswerStep, HandleLinkJob, HandleSearch, HandlePatchJob, Fails,
              TakeStep, TakeRowResults, TakeBoxResults, TakeLink, TakeEdit
<1> QED BY <1>2, <1>3, <1>4, <1>5, Steps DEF vars

\* What a link of a run must have, after any step of the upload page.
LEMMA UploadLinksStep ==
  ASSUME UploadLinks, ClicksStay, UNCHANGED place,
         place = "upload" => server'.auto = server.auto,
         place = "upload" =>
           \A f \in Files : \/ server'.links[f] \in {server.links[f], Nothing}
                            \/ Clicked(f, server.links[f])',
         place = "upload" =>
           \A n \in Slots : calls'[n].kind = "link" =>
             \/ /\ calls[n].kind = "link" /\ calls'[n].to = calls[n].to
                /\ calls'[n].arg = calls[n].arg
             \/ Clicked(calls[n].to, calls[n].arg)'
  PROVE  UploadLinks'
<1> SUFFICES ASSUME place = "upload" PROVE UploadLinks'
  BY DEF UploadLinks
<1>1. ASSUME NEW f \in Files, server'.links[f] # Nothing PROVE Clicked(f, server.links[f])'
  <2>1. CASE server'.links[f] = server.links[f]
    <3>1. PICK item : item = server.links[f] /\ item = server'.links[f]
      BY <2>1
    <3>2. Clicked(f, item)
      BY <1>1, <3>1 DEF UploadLinks
    <3>3. Clicked(f, item)'
      BY <3>2, ClickedStays
    <3> QED BY <3>1, <3>3
  <2> QED BY <1>1, <2>1
<1>2. ASSUME NEW n \in Slots, calls'[n].kind = "link" PROVE Clicked(calls[n].to, calls[n].arg)'
  <2>1. CASE /\ calls[n].kind = "link" /\ calls'[n].to = calls[n].to
             /\ calls'[n].arg = calls[n].arg
    <3>1. PICK f, item : /\ f = calls[n].to /\ f = calls'[n].to
                         /\ item = calls[n].arg /\ item = calls'[n].arg
      BY <2>1
    <3>2. Clicked(f, item)
      BY <2>1, <3>1 DEF UploadLinks
    <3>3. Clicked(f, item)'
      BY <3>2, ClickedStays
    <3> QED BY <3>1, <3>3
  <2> QED BY <1>2, <2>1
<1> QED BY <1>1, <1>2 DEF UploadLinks

LEMMA UploadLinksNext ==
  ASSUME Shape, RowsFit, UploadLinks, ClicksStay, UNCHANGED place,
         \/ TableStep \/ RunStep \/ AutoStep
         \/ \E n \in UnderWay : AnswerStep(n) \/ TakeStep(n)
  PROVE  UploadLinks'
<1> SUFFICES ASSUME place = "upload" PROVE UploadLinks'
  BY DEF UploadLinks
<1>0. DOMAIN server = {"jobs", "links", "auto"} /\ DOMAIN server.links = Files
  BY DEF Shape, ServerShape
<1>1. CASE UNCHANGED <<server, calls>>
  BY <1>1, UploadLinksStep
\* A request that is no link.
<1>2. ASSUME NEW q, Asks(q), q.kind # "link", UNCHANGED server PROVE UploadLinks'
  <2>1. \A n \in Slots : calls'[n] = calls[n] \/ calls'[n] = q
    BY <1>2, Asked
  <2> QED BY <1>2, <2>1, UploadLinksStep
<1>3. CASE TableStep
  <2>1. ASSUME NEW i, NEW w, SearchUploadMetadata(i, w) PROVE UploadLinks'
    <3>1. PICK q : q = Call("search", <<table.sel, i>>, w)
      OBVIOUS
    <3>2. Asks(q) /\ q.kind = "search" /\ UNCHANGED server
      BY <2>1, <3>1 DEF SearchUploadMetadata, Call
    <3> QED BY <1>2, <3>2
  <2>2. ASSUME NEW fs, HandleSelectedFiles(fs) PROVE UploadLinks'
    BY <1>1, <2>2 DEF HandleSelectedFiles
  <2>3. ASSUME NEW new, Types(new) PROVE UploadLinks'
    BY <1>1, <2>3 DEF Types
  <2>4. ASSUME NEW i, NEW k, SelectUploadMetadata(i, k) \/ \E v : Input(i, k, v)
        PROVE  UploadLinks'
    BY <1>1, <2>3, <2>4 DEF SelectUploadMetadata, Input
  <2>5. ASSUME NEW v, ApplyAll(v) \/ ChooseCategory(v) PROVE UploadLinks'
    BY <1>1, <2>3, <2>5 DEF ApplyAll, ChooseCategory
  <2> QED BY <1>3, <2>1, <2>2, <2>4, <2>5 DEF TableStep
<1>4. CASE Start \/ RunFails
  BY <1>1, <1>4 DEF Start, RunFails
<1>5. CASE Saved
  <2>1. /\ UNCHANGED calls
        /\ server'.links = server.links /\ server'.auto = server.auto
    BY <1>0, <1>5 DEF Saved
  <2> QED BY <2>1, UploadLinksStep
<1>6. CASE Finalize
  <2>1. PICK f, item, q : /\ f = RowOfRun.file /\ item = RowOfRun.ext
                          /\ q = Call("link", f, item)
    OBVIOUS
  <2>2. /\ run.stage = "sending"
        /\ server' = [server EXCEPT !.jobs[f] = Marker, !.links[f] = Nothing]
        /\ \/ item # Nothing /\ Asks(q)
           \/ UNCHANGED calls
    BY <1>6, <2>1 DEF Finalize
  <2>3. /\ server'.auto = server.auto
        /\ \A g \in Files : server'.links[g] \in {server.links[g], Nothing}
    BY <1>0, <2>2
  <2>4. item # Nothing => Clicked(f, item)
    <3>1. PICK s \in Selections : \E i \in DOMAIN rows[s] :
            run.row = <<s, i>> /\ RowOfRun = rows[s][i]
      BY <2>2, RunRow
    <3>2. PICK i \in DOMAIN rows[s] : run.row = <<s, i>> /\ RowOfRun = rows[s][i]
      BY <3>1
    <3>3. RowFits(rows[s][i]) /\ IsRow(rows[s][i])
      BY DEF RowsFit, Shape, RowsShape
    <3>4. ASSUME item # Nothing PROVE item \in ToSet(rows[s][i].clicked)
      BY <2>1, <3>2, <3>3, <3>4, LastClick DEF RowFits, IsRow
    <3> QED BY <2>1, <3>2, <3>4 DEF Clicked
  <2>5. CASE item # Nothing /\ Asks(q)
    <3>1. \A n \in Slots : calls'[n] = calls[n] \/ calls'[n] = q
      BY <2>5, Asked
    <3>2. Clicked(f, item)'
      BY <2>4, <2>5, ClickedStays
    <3>3. q.to = f /\ q.arg = item
      BY <2>1 DEF Call
    <3>4. ASSUME NEW n \in Slots, calls'[n] = q PROVE Clicked(calls[n].to, calls[n].arg)'
      BY <3>2, <3>3, <3>4
    <3> QED BY <2>3, <3>1, <3>4, UploadLinksStep
  <2>6. CASE UNCHANGED calls
    BY <2>3, <2>6, UploadLinksStep
  <2> QED BY <2>2, <2>5, <2>6
<1>7. CASE AutoStep
  BY <1>7 DEF AutoStep, AutoCheck, AutoLink, AutoFails, UploadLinks
<1>8. ASSUME NEW n \in UnderWay, AnswerStep(n) PROVE UploadLinks'
  <2>1. PICK a : calls' = [calls EXCEPT ![n].ans = a]
    BY <1>8 DEF AnswerStep, HandleLinkJob, HandleSearch, HandlePatchJob, Fails
  <2>2. /\ n \in Slots
        /\ \A m \in Slots : /\ calls'[m].kind = calls[m].kind
                            /\ calls'[m].to = calls[m].to /\ calls'[m].arg = calls[m].arg
    BY <2>1, KindsAnswered
  <2>3. CASE HandleLinkJob(n)
    <3>1. PICK f, item, jobs : /\ f = calls[n].to /\ item = calls[n].arg
                               /\ jobs = Renamed(server.jobs, f, item)
      OBVIOUS
    <3>2. /\ calls[n].kind = "link"
          /\ server' = [server EXCEPT !.links[f] = item, !.jobs = jobs]
      BY <2>3, <3>1 DEF HandleLinkJob
    <3>3. Clicked(f, item)'
      BY <2>2, <3>1, <3>2, ClickedStays DEF UploadLinks
    <3>4. /\ server'.auto = server.auto
          /\ \A g \in Files : server'.links[g] = IF g = f THEN item ELSE server.links[g]
      BY <1>0, <3>2
    <3>5. ASSUME NEW g \in Files
          PROVE  server'.links[g] \in {server.links[g], Nothing} \/ Clicked(g, server.links[g])'
      BY <3>3, <3>4
    <3> QED BY <2>2, <3>4, <3>5, UploadLinksStep
  <2>4. CASE HandlePatchJob(n)
    <3>1. calls[n].kind = "edit"
      BY <2>4 DEF HandlePatchJob
    <3> QED BY <2>2, <3>1, NoEdits DEF Has
  <2>5. CASE HandleSearch(n) \/ Fails(n)
    <3>1. UNCHANGED server
      BY <2>5 DEF HandleSearch, Fails
    <3> QED BY <2>2, <3>1, UploadLinksStep
  <2> QED BY <1>8, <2>3, <2>4, <2>5 DEF AnswerStep
<1>9. ASSUME NEW n \in UnderWay, TakeStep(n) PROVE UploadLinks'
  <2>1. UNCHANGED server /\ calls' = [calls EXCEPT ![n] = Over]
    BY <1>9 DEF TakeStep, TakeRowResults, TakeBoxResults, TakeLink, TakeEdit
  <2>2. \A m \in Slots : calls'[m] = calls[m] \/ calls'[m] = Over
    BY <2>1, OneCall
  <2>3. Over.kind # "link"
    BY DEF Over
  <2> QED BY <2>1, <2>2, <2>3, UploadLinksStep
<1> QED BY <1>3, <1>4, <1>5, <1>6, <1>7, <1>8, <1>9 DEF RunStep

\* A step that changes neither a link nor a request for one.
LEMMA QuietLinks ==
  ASSUME WatchLinks, UNCHANGED place, place = "watch" => hist'.ordered = hist.ordered,
         server'.links[Video] = server.links[Video], hist'.linked = hist.linked,
         \A n \in Slots : \/ calls'[n] = calls[n]
                          \/ calls'[n].kind # "link" /\ calls[n].kind # "link"
  PROVE  WatchLinks'
<1> SUFFICES ASSUME place = "watch", hist.ordered PROVE WatchLinks'
  BY DEF WatchLinks
<1>1. Once("link") => Once("link")'
  BY DEF Once
<1>2. Has("link")' <=> Has("link")
  BY DEF Has
<1>3. \A n \in Slots : calls'[n].kind = "link" => calls'[n] = calls[n] /\ calls[n].kind = "link"
  OBVIOUS
<1> QED BY <1>1, <1>2, <1>3 DEF WatchLinks

LEMMA WatchLinksNext ==
  ASSUME Shape, WatchLinks, UNCHANGED place,
         \/ BoxStep \/ AutoStep
         \/ \E n \in UnderWay : AnswerStep(n) \/ TakeStep(n)
  PROVE  WatchLinks'
<1> SUFFICES ASSUME place = "watch" PROVE WatchLinks'
  BY DEF WatchLinks
<1>0. /\ DOMAIN server = {"jobs", "links", "auto"} /\ DOMAIN server.links = Files
      /\ DOMAIN hist = {"asked", "typed", "chosen", "faults", "calm", "agree", "ordered", "linked"}
      /\ Video \in Files /\ Nothing \notin BOOLEAN /\ hist.ordered \in BOOLEAN
      /\ place # "upload"
  BY MetadataAssumption DEF Shape, ServerShape, HistShape
\* A request that is no link.
<1>1. ASSUME NEW q, Asks(q), q.kind # "link", UNCHANGED server, hist'.ordered = hist.ordered,
             hist'.linked = hist.linked
      PROVE  WatchLinks'
  <2>1. /\ hist.asked + 1 \in Slots /\ calls[hist.asked + 1] = Over
        /\ calls'[hist.asked + 1] = q
        /\ \A n \in Slots : n # hist.asked + 1 => calls'[n] = calls[n]
    BY <1>1, Asked
  <2>2. Over.kind # "link"
    BY DEF Over
  <2> QED BY <1>1, <2>1, <2>2, QuietLinks
<1>2. CASE BoxStep
  <2>1. CASE OpenEditModal \/ CloseEditModal
    BY <2>1, QuietLinks DEF OpenEditModal, CloseEditModal
  <2>2. ASSUME NEW c, NEW v, SaveEditModal(c, v) PROVE WatchLinks'
    <3>1. PICK q : q = Call("edit", c, v)
      OBVIOUS
    <3>2. /\ Asks(q) /\ q.kind = "edit" /\ UNCHANGED server
          /\ hist'.ordered = hist.ordered /\ hist'.linked = hist.linked
      BY <1>0, <2>2, <3>1 DEF SaveEditModal, Call
    <3> QED BY <1>1, <3>2
  <2>3. ASSUME NEW w, SearchExternalMetadata(w) PROVE WatchLinks'
    <3>1. PICK q : q = Call("search", Nothing, w)
      OBVIOUS
    <3>2. /\ Asks(q) /\ q.kind = "search" /\ UNCHANGED server
          /\ hist'.ordered = hist.ordered /\ hist'.linked = hist.linked
      BY <1>0, <2>3, <3>1 DEF SearchExternalMetadata, Call
    <3> QED BY <1>1, <3>2
  <2>4. ASSUME NEW item, NEW direct, LinkMetadata(item, direct) PROVE WatchLinks'
    <3>1. PICK q, b : q = Call("link", Video, item) /\ b = (hist.ordered /\ ~Asking("link"))
                      /\ b \in BOOLEAN
      OBVIOUS
    <3>2. /\ Asks(q) /\ UNCHANGED server
          /\ hist' = [hist EXCEPT !.asked = hist.asked + 1, !.ordered = b]
      BY <2>4, <3>1 DEF LinkMetadata
    <3>3. hist'.ordered = b /\ hist'.linked = hist.linked
      BY <1>0, <3>2
    <3>4. SUFFICES ASSUME b PROVE WatchLinks'
      BY <3>3 DEF WatchLinks
    <3>5. hist.ordered /\ ~Has("link")
      BY <3>1, <3>4, AskingIsHas
    <3>6. /\ server.links[Video] = hist.linked /\ Once("link")
      BY <3>5 DEF WatchLinks
    <3>7. q.kind = "link" /\ q.ans = Nothing
      BY <3>1 DEF Call
    <3>8. Once("link")' /\ Has("link")'
      BY <3>2, <3>5, <3>6, <3>7, KindsAsked
    <3>9. ASSUME NEW n \in Slots, calls'[n].kind = "link" PROVE calls'[n] = q
      <4>1. n # hist.asked + 1 => calls'[n] = calls[n]
        BY <3>2, Asked
      <4>2. calls[n].kind # "link"
        BY <3>5 DEF Has
      <4>3. calls'[hist.asked + 1] = q
        BY <3>2, Asked
      <4> QED BY <3>9, <4>1, <4>2, <4>3
    <3>10. ASSUME NEW n \in Slots, calls'[n].kind = "link"
           PROVE  calls'[n].ans = Nothing
      BY <3>7, <3>9, <3>10
    <3>11. server'.links[Video] = hist'.linked
      BY <3>2, <3>3, <3>6
    <3> QED BY <1>0, <3>8, <3>10, <3>11 DEF WatchLinks
  <2> QED BY <1>2, <2>1, <2>2, <2>3, <2>4 DEF BoxStep
<1>3. CASE AutoStep
  <2>1. CASE AutoCheck \/ AutoFails
    <3>1. UNCHANGED <<calls, hist>> /\ server'.links = server.links
      BY <1>0, <2>1 DEF AutoCheck, AutoFails
    <3> QED BY <3>1, QuietLinks
  <2>2. CASE AutoLink
    BY <1>0, <2>2 DEF AutoLink, WatchLinks
  <2> QED BY <1>3, <2>1, <2>2 DEF AutoStep
<1>4. ASSUME NEW n \in UnderWay, AnswerStep(n) PROVE WatchLinks'
  <2>0. n \in Slots
    BY DEF UnderWay, Slots
  <2>1. PICK a : calls' = [calls EXCEPT ![n].ans = a]
    BY <1>4 DEF AnswerStep, HandleLinkJob, HandleSearch, HandlePatchJob, Fails
  <2>2. \A m \in Slots : /\ m # n => calls'[m] = calls[m]
                         /\ calls'[m].kind = calls[m].kind
                         /\ calls'[m].to = calls[m].to /\ calls'[m].arg = calls[m].arg
    BY <2>1, KindsAnswered
  <2>3. (Has("link")' <=> Has("link")) /\ (Once("link")' <=> Once("link"))
    BY <2>1, KindsAnswered
  <2>4. CASE HandleLinkJob(n)
    <3>1. PICK f, item, jobs, b : /\ f = calls[n].to /\ item = calls[n].arg
                                  /\ jobs = Renamed(server.jobs, f, item)
                                  /\ b = (hist.agree /\ jobs = server.jobs)
      OBVIOUS
    <3>2. /\ calls[n].kind = "link"
          /\ server' = [server EXCEPT !.links[f] = item, !.jobs = jobs]
          /\ calls' = [calls EXCEPT ![n].ans = TRUE]
          /\ hist' = [hist EXCEPT !.agree = b]
      BY <2>4, <3>1 DEF HandleLinkJob
    <3>3. f = Video
      <4>1. IsCall(calls[n]) /\ calls[n] # Over
        BY <2>0, <3>2 DEF Shape, CallsShape, Over
      <4> QED BY <1>0, <3>1, <3>2, <4>1 DEF IsCall
    <3>4. /\ server'.links[Video] = item /\ hist'.ordered = hist.ordered
      BY <1>0, <3>2, <3>3
    <3>5. SUFFICES ASSUME hist.ordered PROVE WatchLinks'
      BY <3>4 DEF WatchLinks
    <3>6. Once("link")
      BY <3>5 DEF WatchLinks
    <3>7. calls'[n].ans = TRUE
      <4>1. calls'[n] = [calls[n] EXCEPT !.ans = TRUE] /\ IsCall(calls[n])
        BY <2>0, <3>2, KindsAnswered DEF Shape, CallsShape
      <4> QED BY <4>1 DEF IsCall
    <3>8. ASSUME NEW m \in Slots, calls'[m].kind = "link" PROVE m = n
      BY <2>0, <2>2, <3>2, <3>6, <3>8 DEF Once
    <3>9. ASSUME NEW m \in Slots, calls'[m].kind = "link"
          PROVE  calls'[m].ans = TRUE /\ server'.links[Video] = calls'[m].arg
      BY <2>2, <3>1, <3>4, <3>7, <3>8, <3>9
    <3>10. Has("link")
      BY <2>0, <3>2 DEF Has
    <3> QED BY <2>3, <3>6, <3>9, <3>10 DEF WatchLinks
  <2>5. CASE HandleSearch(n) \/ HandlePatchJob(n)
    <3>1. /\ calls[n].kind # "link" /\ server'.links = server.links
          /\ hist'.ordered = hist.ordered /\ hist'.linked = hist.linked
      <4>1. CASE HandleSearch(n)
        BY <4>1 DEF HandleSearch
      <4>2. CASE HandlePatchJob(n)
        <5>1. /\ calls[n].kind = "edit"
              /\ \/ UNCHANGED <<server, hist>>
                 \/ /\ \E job : server' = [server EXCEPT !.jobs[Video] = job]
                    /\ hist' = [hist EXCEPT !.agree = TRUE]
          BY <4>2 DEF HandlePatchJob
        <5> QED BY <1>0, <5>1
      <4> QED BY <2>5, <4>1, <4>2
    <3> QED BY <2>0, <2>2, <3>1, QuietLinks
  <2>6. CASE Fails(n)
    <3>1. PICK b, c : /\ b = (hist.agree /\ (calls[n].kind = "edit" => calls[n].ans = Nothing))
                      /\ c = (hist.ordered /\ calls[n].kind # "link") /\ c \in BOOLEAN
      OBVIOUS
    <3>2. /\ hist' = [hist EXCEPT !.faults = @ + 1, !.agree = b, !.ordered = c]
          /\ UNCHANGED server
      BY <2>6, <3>1 DEF Fails
    <3>3. hist'.ordered = c /\ hist'.linked = hist.linked
      BY <1>0, <3>2
    <3>4. SUFFICES ASSUME c PROVE WatchLinks'
      BY <3>3 DEF WatchLinks
    <3>5. calls[n].kind # "link" /\ hist'.ordered = hist.ordered
      BY <1>0, <3>1, <3>3, <3>4
    <3> QED BY <2>0, <2>2, <3>2, <3>3, <3>5, QuietLinks
  <2> QED BY <1>4, <2>4, <2>5, <2>6 DEF AnswerStep
<1>5. ASSUME NEW n \in UnderWay, TakeStep(n) PROVE WatchLinks'
  <2>1. UNCHANGED server /\ calls' = [calls EXCEPT ![n] = Over]
    BY <1>5 DEF TakeStep, TakeRowResults, TakeBoxResults, TakeLink, TakeEdit
  <2>2. /\ n \in Slots /\ calls'[n] = Over
        /\ \A m \in Slots : m # n => calls'[m] = calls[m]
    BY <2>1, OneCall
  <2>3. Over.kind # "link"
    BY DEF Over
  <2>4. CASE calls[n].kind # "link"
    <3>1. UNCHANGED hist
      BY <1>5, <2>4 DEF TakeStep, TakeRowResults, TakeBoxResults, TakeLink, TakeEdit
    <3> QED BY <2>1, <2>2, <2>3, <2>4, <3>1, QuietLinks
  <2>5. CASE calls[n].kind = "link"
    <3>1. /\ hist' = IF calls[n].ans THEN [hist EXCEPT !.linked = calls[n].arg] ELSE hist
          /\ calls[n].ans # Nothing
      BY <1>0, <1>5, <2>5 DEF TakeStep, TakeRowResults, TakeBoxResults, TakeLink, TakeEdit
    <3>2. hist'.ordered = hist.ordered
      BY <1>0, <3>1
    <3>3. SUFFICES ASSUME hist.ordered PROVE WatchLinks'
      BY <3>2 DEF WatchLinks
    <3>4. /\ Once("link") /\ calls[n].ans \in {Nothing, TRUE}
          /\ server.links[Video] = IF calls[n].ans = TRUE THEN calls[n].arg ELSE hist.linked
      BY <2>2, <2>5, <3>3 DEF WatchLinks
    <3>5. calls[n].ans = TRUE
      BY <3>1, <3>4
    <3>6. server'.links[Video] = hist'.linked
      BY <1>0, <2>1, <3>1, <3>4, <3>5
    <3>7. Once("link")' /\ ~Has("link")'
      BY <2>1, <2>5, <3>4, KindsTaken
    <3> QED BY <3>6, <3>7 DEF WatchLinks, Has
  <2> QED BY <2>4, <2>5
<1> QED BY <1>2, <1>3, <1>4, <1>5

LEMMA NextLinkInv == Shape /\ LinkInv /\ [Next]_vars => LinkInv'
<1> SUFFICES ASSUME Shape, LinkInv, [Next]_vars PROVE LinkInv'
  OBVIOUS
<1>1. RowsFit' /\ ClicksStay /\ UNCHANGED place
  BY NextRowsFit, SamePlace DEF LinkInv
<1>2. CASE UNCHANGED vars
  BY <1>1, <1>2, UploadLinksStep, QuietLinks DEF vars, LinkInv
<1>3. CASE Next
  <2>1. UploadLinks'
    <3>1. BoxStep => UploadLinks'
      BY <1>1, Places DEF UploadLinks
    <3> QED BY <1>1, <1>3, <3>1, Steps, UploadLinksNext DEF LinkInv
  <2>2. WatchLinks'
    <3>1. TableStep \/ RunStep => WatchLinks'
      BY <1>1, Places DEF WatchLinks
    <3> QED BY <1>1, <1>3, <3>1, Steps, WatchLinksNext DEF LinkInv
  <2> QED BY <1>1, <2>1, <2>2 DEF LinkInv
<1> QED BY <1>2, <1>3

LEMMA InitLinkInv == Init => LinkInv
<1> SUFFICES ASSUME Init PROVE LinkInv
  OBVIOUS
<1>1. /\ RowsFit /\ \A n \in Slots : calls[n].kind # "link"
  BY Bounds DEF Init, RowsFit, Selections, Slots, Over
<1>2. /\ \A f \in Files : server.links[f] = Nothing
      /\ place = "upload" => server.auto = "off"
      /\ hist.linked = Nothing /\ Video \in Files
  <2>1. PICK stored :
          server = [jobs |-> [f \in Files |->
                      IF place = "watch" /\ f = Video THEN stored ELSE Nothing],
                    links |-> [f \in Files |-> Nothing],
                    auto |-> IF place = "watch" THEN "pending" ELSE "off"]
    BY DEF Init
  <2>2. hist.linked = Nothing /\ Video \in Files
    BY MetadataAssumption DEF Init
  <2> QED BY <2>1, <2>2
<1> QED BY <1>1, <1>2 DEF LinkInv, UploadLinks, WatchLinks, Has, Once

-----------------------------------------------------------------------------
(* What is shown is what is stored.                                        *)

\* A step that changes neither what is shown, nor what is stored, nor an edit; an edit
\* may be refused.
QuietEdit(n) ==
  \/ calls'[n] = calls[n]
  \/ calls'[n].kind # "edit" /\ calls[n].kind # "edit"
  \/ calls[n].kind = "edit" /\ calls[n].ans = Nothing /\ calls'[n].ans = FALSE
     /\ calls'[n].kind = "edit"

LEMMA QuietShown ==
  ASSUME ShownInv, UNCHANGED place,
         (place = "watch" /\ hist'.agree) =>
           hist.agree /\ page'.job = page.job /\ server'.jobs[Video] = server.jobs[Video],
         place = "watch" => \A n \in Slots : QuietEdit(n)
  PROVE  ShownInv'
<1> SUFFICES ASSUME place = "watch", hist'.agree PROVE ShownInv'
  BY DEF ShownInv
<1>0. Nothing # TRUE
  BY MetadataAssumption
<1>1. Has("edit")' <=> Has("edit")
  BY DEF Has, QuietEdit
<1>2. PICK job, stored : /\ job = page.job /\ job = page'.job
                         /\ stored = server.jobs[Video] /\ stored = server'.jobs[Video]
  OBVIOUS
<1>3. ~Has("edit") => Agree(job, stored)
  BY <1>2 DEF ShownInv
<1>4. ASSUME NEW n \in Slots, calls'[n].kind = "edit"
      PROVE  Agree(IF calls'[n].ans = TRUE THEN Merged(calls'[n].to, calls'[n].arg) ELSE job,
                   stored)
  <2>1. calls[n].kind = "edit"
    BY <1>4 DEF QuietEdit
  <2>2. Agree(IF calls[n].ans = TRUE THEN Merged(calls[n].to, calls[n].arg) ELSE job, stored)
    BY <1>2, <2>1 DEF ShownInv
  <2>3. CASE calls'[n] = calls[n]
    BY <2>2, <2>3
  <2>4. CASE calls[n].ans = Nothing /\ calls'[n].ans = FALSE
    BY <1>0, <2>2, <2>4
  <2> QED BY <1>4, <2>1, <2>3, <2>4 DEF QuietEdit
<1> QED BY <1>1, <1>2, <1>3, <1>4 DEF ShownInv

LEMMA ShownNext ==
  ASSUME Shape, Waiting, ShownInv, UNCHANGED place,
         \/ BoxStep \/ AutoStep
         \/ \E n \in UnderWay : AnswerStep(n) \/ TakeStep(n)
  PROVE  ShownInv'
<1> SUFFICES ASSUME place = "watch" PROVE ShownInv'
  BY DEF ShownInv
<1>0. /\ DOMAIN server = {"jobs", "links", "auto"} /\ DOMAIN server.jobs = Files
      /\ DOMAIN page = {"job", "open", "saving", "searching", "hits"}
      /\ DOMAIN hist = {"asked", "typed", "chosen", "faults", "calm", "agree", "ordered", "linked"}
      /\ Video \in Files /\ Nothing \notin BOOLEAN /\ hist.agree \in BOOLEAN
      /\ place # "upload"
  BY MetadataAssumption DEF Shape, ServerShape, HistShape, PageShape
\* A request that is no edit.
<1>1. ASSUME NEW q, Asks(q), q.kind # "edit", UNCHANGED server, hist'.agree = hist.agree,
             page'.job = page.job
      PROVE  ShownInv'
  <2>1. /\ hist.asked + 1 \in Slots /\ calls[hist.asked + 1] = Over
        /\ calls'[hist.asked + 1] = q
        /\ \A n \in Slots : n # hist.asked + 1 => calls'[n] = calls[n]
    BY <1>1, Asked
  <2>2. Over.kind # "edit"
    BY DEF Over
  <2>3. \A n \in Slots : QuietEdit(n)
    BY <1>1, <2>1, <2>2 DEF QuietEdit
  <2> QED BY <1>1, <2>3, QuietShown
<1>2. CASE BoxStep
  <2>1. CASE OpenEditModal \/ CloseEditModal
    <3>1. UNCHANGED <<server, calls, hist>> /\ page'.job = page.job
      BY <1>0, <2>1 DEF OpenEditModal, CloseEditModal, Closed
    <3> QED BY <3>1, QuietShown DEF QuietEdit
  <2>2. ASSUME NEW c, NEW v, SaveEditModal(c, v) PROVE ShownInv'
    <3>1. PICK q : q = Call("edit", c, v)
      OBVIOUS
    <3>2. /\ Asks(q) /\ q.ans = Nothing /\ UNCHANGED server /\ ~page.saving
          /\ page'.job = page.job /\ hist'.agree = hist.agree
      BY <1>0, <2>2, <3>1 DEF SaveEditModal, Call
    <3>3. SUFFICES ASSUME hist.agree PROVE ShownInv'
      BY <3>2 DEF ShownInv
    <3>4. ~Has("edit") /\ Agree(page.job, server.jobs[Video])
      BY <3>2, <3>3 DEF Waiting, ShownInv
    <3>5. PICK job, stored : /\ job = page.job /\ job = page'.job
                             /\ stored = server.jobs[Video] /\ stored = server'.jobs[Video]
      BY <3>2
    <3>6. ASSUME NEW n \in Slots, calls'[n].kind = "edit" PROVE calls'[n].ans = Nothing
      <4>1. n # hist.asked + 1 => calls'[n] = calls[n]
        BY <3>2, Asked
      <4>2. calls'[hist.asked + 1] = q
        BY <3>2, Asked
      <4>3. calls[n].kind # "edit"
        BY <3>4 DEF Has
      <4> QED BY <3>2, <3>6, <4>1, <4>2, <4>3
    <3>7. Agree(job, stored)
      BY <3>4, <3>5
    <3> QED BY <1>0, <3>5, <3>6, <3>7 DEF ShownInv
  <2>3. ASSUME NEW w, SearchExternalMetadata(w) PROVE ShownInv'
    <3>1. PICK q : q = Call("search", Nothing, w)
      OBVIOUS
    <3>2. /\ Asks(q) /\ q.kind = "search" /\ UNCHANGED server
          /\ hist'.agree = hist.agree /\ page'.job = page.job
      BY <1>0, <2>3, <3>1 DEF SearchExternalMetadata, Call
    <3> QED BY <1>1, <3>2
  <2>4. ASSUME NEW item, NEW direct, LinkMetadata(item, direct) PROVE ShownInv'
    <3>1. PICK q, b : q = Call("link", Video, item) /\ b = (hist.ordered /\ ~Asking("link"))
      OBVIOUS
    <3>2. /\ Asks(q) /\ UNCHANGED <<server, page>> /\ q.kind = "link"
          /\ hist' = [hist EXCEPT !.asked = hist.asked + 1, !.ordered = b]
      BY <2>4, <3>1 DEF LinkMetadata, Call
    <3>3. hist'.agree = hist.agree
      BY <1>0, <3>2
    <3> QED BY <1>1, <3>2, <3>3
  <2> QED BY <1>2, <2>1, <2>2, <2>3, <2>4 DEF BoxStep
<1>3. CASE AutoStep
  <2>1. /\ UNCHANGED <<calls, page>> /\ hist'.agree = hist.agree
        /\ server'.jobs = server.jobs
    BY <1>0, <1>3 DEF AutoStep, AutoCheck, AutoLink, AutoFails
  <2> QED BY <2>1, QuietShown DEF QuietEdit
<1>4. ASSUME NEW n \in UnderWay, AnswerStep(n) PROVE ShownInv'
  <2>0. n \in Slots
    BY DEF UnderWay, Slots
  <2>1. PICK a : calls' = [calls EXCEPT ![n].ans = a]
    BY <1>4 DEF AnswerStep, HandleLinkJob, HandleSearch, HandlePatchJob, Fails
  <2>2. \A m \in Slots : /\ m # n => calls'[m] = calls[m]
                         /\ calls'[m].kind = calls[m].kind
                         /\ calls'[m].to = calls[m].to /\ calls'[m].arg = calls[m].arg
    BY <2>1, KindsAnswered
  <2>3. calls'[n].ans = a
    <3>1. calls'[n] = [calls[n] EXCEPT !.ans = a] /\ IsCall(calls[n])
      BY <2>0, <2>1, KindsAnswered DEF Shape, CallsShape
    <3> QED BY <3>1 DEF IsCall
  <2>4. CASE HandleLinkJob(n) \/ HandleSearch(n)
    <3>1. /\ calls[n].kind # "edit" /\ UNCHANGED page
          /\ hist'.agree => hist.agree /\ server'.jobs = server.jobs
      <4>1. CASE HandleSearch(n)
        BY <4>1 DEF HandleSearch
      <4>2. CASE HandleLinkJob(n)
        <5>1. PICK f, item, jobs, b : /\ f = calls[n].to /\ item = calls[n].arg
                                      /\ jobs = Renamed(server.jobs, f, item)
                                      /\ b = (hist.agree /\ jobs = server.jobs) /\ b \in BOOLEAN
          OBVIOUS
        <5>2. /\ calls[n].kind = "link" /\ UNCHANGED page
              /\ server' = [server EXCEPT !.links[f] = item, !.jobs = jobs]
              /\ hist' = [hist EXCEPT !.agree = b]
          BY <4>2, <5>1 DEF HandleLinkJob
        <5>3. hist'.agree = b /\ server'.jobs = jobs
          BY <1>0, <5>2
        <5> QED BY <1>0, <5>1, <5>2, <5>3
      <4> QED BY <2>4, <4>1, <4>2
    <3>2. \A m \in Slots : QuietEdit(m)
      BY <2>0, <2>2, <3>1 DEF QuietEdit
    <3> QED BY <3>1, <3>2, QuietShown
  <2>5. CASE HandlePatchJob(n)
    <3>1. calls[n].kind = "edit" /\ calls[n].ans = Nothing /\ UNCHANGED page
      BY <2>5 DEF HandlePatchJob
    <3>2. CASE calls[n].arg["title"] = ""
      <4>1. UNCHANGED <<server, hist>> /\ calls' = [calls EXCEPT ![n].ans = FALSE]
        BY <2>5, <3>2 DEF HandlePatchJob
      <4>2. calls'[n].ans = FALSE
        <5>1. calls'[n] = [calls[n] EXCEPT !.ans = FALSE] /\ IsCall(calls[n])
          BY <2>0, <4>1, KindsAnswered DEF Shape, CallsShape
        <5> QED BY <5>1 DEF IsCall
      <4>3. \A m \in Slots : QuietEdit(m)
        BY <2>0, <2>2, <3>1, <4>2 DEF QuietEdit
      <4> QED BY <3>1, <4>1, <4>3, QuietShown
    <3>3. CASE calls[n].arg["title"] # ""
      <4>1. PICK cat, v, old : cat = calls[n].to /\ v = calls[n].arg /\ old = server.jobs[Video]
        OBVIOUS
      <4>2. /\ server' = [server EXCEPT !.jobs[Video] = Normalized(Updated(old, cat, v))]
            /\ calls' = [calls EXCEPT ![n].ans = TRUE]
        BY <2>5, <3>3, <4>1 DEF HandlePatchJob
      <4>3. cat \in AllCategories /\ IsVideo(old)
        <5>1. IsCall(calls[n]) /\ calls[n] # Over /\ ServerShape
          BY <2>0, <3>1 DEF Shape, CallsShape, Over
        <5> QED BY <3>1, <4>1, <5>1 DEF IsCall, ServerShape
      <4>4. Agree(Merged(cat, v), Normalized(Updated(old, cat, v)))
        BY <4>3, EditsAgree
      <4>5. server'.jobs[Video] = Normalized(Updated(old, cat, v))
        BY <1>0, <4>2
      <4>6. calls'[n].ans = TRUE /\ calls'[n].to = cat /\ calls'[n].arg = v
        <5>1. calls'[n] = [calls[n] EXCEPT !.ans = TRUE] /\ IsCall(calls[n])
          BY <2>0, <4>2, KindsAnswered DEF Shape, CallsShape
        <5> QED BY <4>1, <5>1 DEF IsCall
      <4>7. ASSUME NEW m \in Slots, calls'[m].kind = "edit" PROVE m = n
        BY <2>0, <2>2, <3>1, <4>7 DEF Waiting, Once
      <4>8. ASSUME NEW m \in Slots, calls'[m].kind = "edit"
            PROVE  /\ calls'[m].ans = TRUE
                   /\ Agree(Merged(calls'[m].to, calls'[m].arg), server'.jobs[Video])
        BY <4>4, <4>5, <4>6, <4>7, <4>8
      <4>9. Has("edit")'
        BY <2>0, <2>2, <3>1 DEF Has
      <4> QED BY <4>8, <4>9 DEF ShownInv
    <3> QED BY <3>2, <3>3
  <2>6. CASE Fails(n)
    <3>1. PICK b, c : /\ b = (hist.agree /\ (calls[n].kind = "edit" => calls[n].ans = Nothing))
                      /\ b \in BOOLEAN
                      /\ c = (hist.ordered /\ calls[n].kind # "link")
      OBVIOUS
    <3>2. /\ hist' = [hist EXCEPT !.faults = @ + 1, !.agree = b, !.ordered = c]
          /\ UNCHANGED <<server, page>>
          /\ calls[n].kind = "edit" => calls' = [calls EXCEPT ![n].ans = FALSE]
      BY <2>6, <3>1 DEF Fails
    <3>3. hist'.agree = b
      BY <1>0, <3>2
    <3>4. SUFFICES ASSUME b PROVE ShownInv'
      BY <3>3 DEF ShownInv
    <3>5. hist.agree /\ (calls[n].kind = "edit" => calls[n].ans = Nothing)
      BY <1>0, <3>1, <3>4
    <3>6. calls[n].kind = "edit" => calls'[n].ans = FALSE
      <4>1. SUFFICES ASSUME calls[n].kind = "edit" PROVE calls'[n].ans = FALSE
        OBVIOUS
      <4>2. calls'[n] = [calls[n] EXCEPT !.ans = FALSE] /\ IsCall(calls[n])
        BY <2>0, <3>2, <4>1, KindsAnswered DEF Shape, CallsShape
      <4> QED BY <4>2 DEF IsCall
    <3>7. \A m \in Slots : QuietEdit(m)
      BY <2>0, <2>2, <3>5, <3>6 DEF QuietEdit
    <3> QED BY <3>2, <3>5, <3>7, QuietShown
  <2> QED BY <1>4, <2>4, <2>5, <2>6 DEF AnswerStep
<1>5. ASSUME NEW n \in UnderWay, TakeStep(n) PROVE ShownInv'
  <2>1. UNCHANGED server /\ calls' = [calls EXCEPT ![n] = Over]
    BY <1>5 DEF TakeStep, TakeRowResults, TakeBoxResults, TakeLink, TakeEdit
  <2>2. /\ n \in Slots /\ calls'[n] = Over
        /\ \A m \in Slots : m # n => calls'[m] = calls[m]
    BY <2>1, OneCall
  <2>3. Over.kind # "edit"
    BY DEF Over
  <2>4. CASE ~TakeEdit(n)
    <3>1. /\ calls[n].kind # "edit" /\ hist'.agree = hist.agree /\ page'.job = page.job
      BY <1>0, <1>5, <2>4 DEF TakeStep, TakeRowResults, TakeBoxResults, TakeLink
    <3>2. \A m \in Slots : QuietEdit(m)
      BY <2>2, <2>3, <3>1 DEF QuietEdit
    <3> QED BY <2>1, <3>1, <3>2, QuietShown
  <2>5. CASE TakeEdit(n)
    <3>1. PICK cat, v, b : /\ cat = calls[n].to /\ v = calls[n].arg
                           /\ b = (page.saving /\ ~Frees("edit", n))
      OBVIOUS
    <3>2. /\ calls[n].kind = "edit" /\ UNCHANGED hist
          /\ page' = IF calls[n].ans
                     THEN Closed([[page EXCEPT !.saving = b] EXCEPT !.job = Merged(cat, v)])
                     ELSE [page EXCEPT !.saving = b]
          /\ calls[n].ans # Nothing
      BY <2>5, <3>1 DEF TakeEdit
    <3>3. calls[n].ans \in BOOLEAN
      <4>1. IsCall(calls[n]) /\ calls[n] # Over
        BY <2>1, OneCall
      <4> QED BY <3>2, <4>1 DEF IsCall, Over
    <3>4. page'.job = IF calls[n].ans = TRUE THEN Merged(cat, v) ELSE page.job
      BY <1>0, <3>2, <3>3 DEF Closed
    <3>5. SUFFICES ASSUME hist.agree PROVE ShownInv'
      BY <3>2 DEF ShownInv
    <3>6. Agree(IF calls[n].ans = TRUE THEN Merged(cat, v) ELSE page.job, server.jobs[Video])
      BY <2>2, <3>1, <3>2, <3>5 DEF ShownInv
    <3>7. Agree(page'.job, server'.jobs[Video])
      BY <2>1, <3>4, <3>6
    <3>8. ~Has("edit")'
      BY <2>1, <3>2, KindsTaken DEF Waiting
    <3> QED BY <3>7, <3>8 DEF ShownInv, Has
  <2> QED BY <2>4, <2>5
<1> QED BY <1>2, <1>3, <1>4, <1>5

LEMMA NextShownInv == Shape /\ Waiting /\ ShownInv /\ [Next]_vars => ShownInv'
<1> SUFFICES ASSUME Shape, Waiting, ShownInv, [Next]_vars PROVE ShownInv'
  OBVIOUS
<1>1. UNCHANGED place
  BY SamePlace
<1>2. CASE UNCHANGED vars
  BY <1>2, QuietShown DEF vars, QuietEdit
<1>3. TableStep \/ RunStep => ShownInv'
  BY <1>1, Places DEF ShownInv
<1> QED BY <1>1, <1>2, <1>3, Steps, ShownNext

LEMMA InitShownInv == Init => ShownInv
<1> SUFFICES ASSUME Init, place = "watch" PROVE ShownInv
  BY DEF ShownInv
<1>1. \A n \in Slots : calls[n].kind # "edit"
  BY DEF Init, Slots, Over
<1>2. PICK stored :
        /\ server = [jobs |-> [f \in Files |->
                       IF place = "watch" /\ f = Video THEN stored ELSE Nothing],
                     links |-> [f \in Files |-> Nothing],
                     auto |-> IF place = "watch" THEN "pending" ELSE "off"]
        /\ page = [job |-> stored, open |-> FALSE, saving |-> FALSE, searching |-> FALSE,
                   hits |-> <<>>]
  BY DEF Init
<1>3. Video \in Files
  BY MetadataAssumption
<1>4. server.jobs[Video] = page.job
  BY <1>2, <1>3
<1>5. Agree(page.job, server.jobs[Video])
  BY <1>4 DEF Agree
<1> QED BY <1>1, <1>5 DEF ShownInv, Has

-----------------------------------------------------------------------------
(* What a run stores is complete.                                          *)

\* Nothing is missing in a table that is empty, or whose fields stay as they are.
LEMMA NothingMissing ==
  ASSUME table.sel = 0
  PROVE  Valid(Current, table.cat)
<1>1. Current = <<>> /\ DOMAIN Current = {}
  BY DEF Current
<1> QED BY <1>1 DEF Valid

LEMMA SameValid ==
  ASSUME Shape, RowsStay, MetaStays, UNCHANGED <<table, place>>, Valid(Current, table.cat)
  PROVE  Valid(Current, table.cat)'
<1>1. CASE table.sel = 0
  BY <1>1 DEF Current, Valid
<1>2. CASE table.sel # 0
  <2>1. table.sel \in Selections
    BY <1>2, Bounds DEF Shape, PageShape, HistShape, Selections
  <2>2. Current = rows[table.sel] /\ Current' = rows'[table.sel]
    BY <1>2 DEF Current
  <2>3. /\ DOMAIN rows'[table.sel] = DOMAIN rows[table.sel]
        /\ \A i \in DOMAIN rows[table.sel] : rows'[table.sel][i].meta = rows[table.sel][i].meta
    BY <2>1 DEF RowsStay, MetaStays
  <2> QED BY <2>2, <2>3 DEF Valid
<1> QED BY <1>1, <1>2

\* The videos that are stored.
AllComplete ==
  \A f \in Files : (server.jobs[f] # Nothing /\ server.jobs[f].saved) => Complete(server.jobs[f])

LEMMA QuietComplete ==
  ASSUME Shape, CompleteInv, RowsStay, MetaStays, UNCHANGED <<place, table>>,
         hist'.calm = hist.calm, run' # Idle => run # Idle,
         run'.row = run.row, run'.db = run.db,
         (place = "upload" /\ hist.calm /\ AllComplete) => AllComplete'
  PROVE  CompleteInv'
<1> SUFFICES ASSUME place = "upload", hist.calm PROVE CompleteInv'
  BY DEF CompleteInv
<1>1. AllComplete'
  BY DEF CompleteInv, AllComplete
<1>2. table'.start => Valid(Current, table.cat)'
  BY SameValid DEF CompleteInv
<1>3. ASSUME run' # Idle
      PROVE  /\ ~table'.shown /\ table'.sel # 0 /\ run'.row[1] = table'.sel
             /\ run'.db = DbFields(table'.cat) /\ Valid(Current, table.cat)'
  BY <1>3, SameValid DEF CompleteInv
<1> QED BY <1>1, <1>2, <1>3 DEF CompleteInv, AllComplete

LEMMA TableComplete ==
  ASSUME Shape, CompleteInv, TableStep
  PROVE  CompleteInv'
<1>0. /\ place = "upload" /\ DOMAIN table = {"cat", "sel", "shown", "start"}
      /\ DOMAIN hist = {"asked", "typed", "chosen", "faults", "calm", "agree", "ordered", "linked"}
      /\ hist.calm \in BOOLEAN
  BY Places DEF Shape, PageShape, HistShape
<1>1. ASSUME NEW c, ChooseCategory(c) PROVE CompleteInv'
  <2>1. PICK b : b = (hist.calm /\ run = Idle) /\ b \in BOOLEAN
    OBVIOUS
  <2>2. /\ UNCHANGED <<place, rows, run, server, page, calls>>
        /\ table' = [table EXCEPT !.cat = c, !.sel = 0, !.shown = FALSE]
        /\ hist' = [hist EXCEPT !.calm = b]
    BY <1>1, <2>1 DEF ChooseCategory
  <2>3. hist'.calm = b /\ table'.sel = 0
    BY <1>0, <2>2
  <2>4. Valid(Current, table.cat)'
    BY <2>3, NothingMissing DEF Current, Valid
  <2>5. SUFFICES ASSUME b PROVE CompleteInv'
    BY <2>3 DEF CompleteInv
  <2>6. hist.calm /\ run' = Idle
    BY <1>0, <2>1, <2>2, <2>5
  <2> QED BY <1>0, <2>2, <2>4, <2>6 DEF CompleteInv
<1>2. ASSUME NEW fs \in (SUBSET Files) \ {{}}, HandleSelectedFiles(fs) PROVE CompleteInv'
  <2>1. PICK n, b : n = hist.chosen + 1 /\ b = (hist.calm /\ run = Idle) /\ b \in BOOLEAN
    OBVIOUS
  <2>2. /\ UNCHANGED <<place, run, server>>
        /\ hist' = [hist EXCEPT !.chosen = n, !.calm = b]
        /\ \E start : table' = [table EXCEPT !.sel = n, !.shown = TRUE, !.start = start]
    BY <1>2, <2>1 DEF HandleSelectedFiles
  <2>3. n \in Selections /\ table'.start = Valid(rows'[n], table.cat)
    BY <1>2, <2>1, SelectedRows
  <2>4. hist'.calm = b /\ table'.sel = n /\ table'.cat = table.cat /\ n # 0
    BY <1>0, <2>2, <2>3 DEF Selections
  <2>5. Current' = rows'[n]
    BY <2>4 DEF Current
  <2>6. table'.start => Valid(Current, table.cat)'
    BY <2>3, <2>4, <2>5 DEF Valid
  <2>7. SUFFICES ASSUME b PROVE CompleteInv'
    BY <2>4 DEF CompleteInv
  <2>8. hist.calm /\ run' = Idle
    BY <1>0, <2>1, <2>2, <2>7
  <2> QED BY <1>0, <2>2, <2>6, <2>8 DEF CompleteInv
<1>3. ASSUME NEW new, Types(new) PROVE CompleteInv'
  <2>1. PICK b : b = Valid(new, table.cat) /\ b \in BOOLEAN
    BY DEF Valid
  <2>2. /\ UNCHANGED <<place, run, server>> /\ table.shown /\ table.sel # 0
        /\ hist' = [hist EXCEPT !.typed = @ + 1]
        /\ rows' = [rows EXCEPT ![table.sel] = new]
        /\ table' = [table EXCEPT !.start = b]
    BY <1>3, <2>1 DEF Types, InTable
  <2>3. /\ hist'.calm = hist.calm /\ table'.sel = table.sel /\ table'.cat = table.cat
        /\ table'.start = b
    BY <1>0, <2>2
  <2>4. table.sel \in Selections /\ DOMAIN rows = Selections
    BY <2>2, Bounds DEF Shape, PageShape, RowsShape, HistShape, Selections
  <2>5. Current' = new
    BY <2>2, <2>3, <2>4 DEF Current
  <2>6. table'.start => Valid(Current, table.cat)'
    BY <2>1, <2>3, <2>5 DEF Valid
  <2>7. SUFFICES ASSUME hist.calm PROVE CompleteInv'
    BY <2>3 DEF CompleteInv
  <2>8. run' = Idle
    BY <1>0, <2>2, <2>7 DEF CompleteInv
  <2> QED BY <1>0, <2>2, <2>6, <2>7, <2>8 DEF CompleteInv
<1>4. ASSUME NEW i, NEW w, SearchUploadMetadata(i, w) PROVE CompleteInv'
  <2>1. UNCHANGED <<place, table, run, server>> /\ hist'.calm = hist.calm
    BY <1>0, <1>4 DEF SearchUploadMetadata
  <2>2. RowsStay /\ MetaStays
    BY <1>4, SearchRows
  <2> QED BY <2>1, <2>2, QuietComplete DEF AllComplete
<1>5. ASSUME NEW i, NEW k, SelectUploadMetadata(i, k) PROVE CompleteInv'
  <2>1. UNCHANGED <<place, table, run, server, hist>>
    BY <1>5 DEF SelectUploadMetadata
  <2>2. RowsStay /\ MetaStays
    BY <1>5, SelectRows
  <2> QED BY <2>1, <2>2, QuietComplete DEF AllComplete
<1>6. ASSUME NEW i, NEW k, (\E v : Input(i, k, v)) \/ ApplyAll(k) PROVE CompleteInv'
  BY <1>3, <1>6 DEF Input, ApplyAll
<1> QED BY <1>1, <1>2, <1>4, <1>5, <1>6 DEF TableStep

LEMMA RunComplete ==
  ASSUME Shape, CompleteInv, RunStep
  PROVE  CompleteInv'
<1>0. /\ place = "upload" /\ place' = place
      /\ DOMAIN table = {"cat", "sel", "shown", "start"} /\ table.cat \in AllCategories
      /\ DOMAIN hist = {"asked", "typed", "chosen", "faults", "calm", "agree", "ordered", "linked"}
      /\ DOMAIN run = {"at", "stage", "db", "row"}
      /\ DOMAIN server = {"jobs", "links", "auto"} /\ DOMAIN server.jobs = Files
  <2>1. place = "upload" /\ place' = place
    BY Places DEF RunStep, Start, Finalize, Saved, RunFails
  <2> QED BY <2>1 DEF Shape, PageShape, HistShape, RunShape, ServerShape
<1>1. hist'.calm = hist.calm /\ UNCHANGED rows
  BY <1>0 DEF RunStep, Start, Finalize, Saved, RunFails
<1>2. SUFFICES ASSUME hist.calm PROVE CompleteInv'
  BY <1>1 DEF CompleteInv
<1>3. AllComplete
  BY <1>0, <1>2 DEF CompleteInv, AllComplete
<1>4. (UNCHANGED table /\ Valid(Current, table.cat)) => Valid(Current, table.cat)'
  BY <1>1 DEF Valid, Current
<1>5. CASE Start
  <2>1. /\ UNCHANGED server /\ table.start /\ table.sel # 0
        /\ table' = [table EXCEPT !.shown = FALSE, !.start = FALSE]
        /\ run' = [at |-> 1, stage |-> "sending", db |-> DbFields(table.cat),
                   row |-> <<table.sel, 1>>]
    BY <1>5 DEF Start
  <2>2. Valid(Current, table.cat)
    BY <1>0, <1>2, <2>1 DEF CompleteInv
  <2>3. /\ ~table'.shown /\ ~table'.start /\ table'.sel = table.sel /\ table'.cat = table.cat
    BY <1>0, <2>1
  <2>4. Valid(Current, table.cat)'
    BY <1>1, <2>2, <2>3 DEF Valid, Current
  <2>5. run'.row[1] = table'.sel /\ run'.db = DbFields(table'.cat)
    BY <2>1, <2>3
  <2> QED BY <1>3, <2>1, <2>3, <2>4, <2>5 DEF CompleteInv, AllComplete
<1>6. CASE RunFails
  <2>1. /\ UNCHANGED server /\ run' = Idle /\ run.stage \in {"sending", "polling"}
        /\ table' = [table EXCEPT !.shown = TRUE, !.start = TRUE]
    BY <1>6 DEF RunFails
  <2>2. run # Idle
    BY <2>1 DEF Idle
  <2>3. Valid(Current, table.cat)
    BY <1>0, <1>2, <2>2 DEF CompleteInv
  <2>4. table'.sel = table.sel /\ table'.cat = table.cat
    BY <1>0, <2>1
  <2>5. Valid(Current, table.cat)'
    BY <1>1, <2>3, <2>4 DEF Valid, Current
  <2> QED BY <1>3, <2>1, <2>5 DEF CompleteInv, AllComplete
<1>7. CASE Finalize
  <2>1. PICK f : f = RowOfRun.file
    OBVIOUS
  <2>2. /\ run.stage = "sending" /\ UNCHANGED table
        /\ server' = [server EXCEPT !.jobs[f] = Marker, !.links[f] = Nothing]
        /\ \E stage : run' = [run EXCEPT !.stage = stage]
    BY <1>7, <2>1 DEF Finalize
  <2>3. run # Idle /\ run'.row = run.row /\ run'.db = run.db
    BY <1>0, <2>2 DEF Idle
  <2>4. \A g \in Files : server'.jobs[g] \in {server.jobs[g], Marker}
    BY <1>0, <2>2
  <2>5. ~Marker.saved
    BY DEF Marker
  <2>6. AllComplete'
    BY <1>3, <2>4, <2>5 DEF AllComplete
  <2>7. RowsStay /\ MetaStays
    BY <1>1, SameRowsStay
  <2> QED BY <1>0, <1>1, <2>2, <2>3, <2>6, <2>7, QuietComplete
<1>8. CASE Saved
  <2>1. PICK job, next, row, new : /\ row = RowOfRun /\ next = run.at + 1
                              /\ job = [db |-> run.db, saved |-> TRUE, form |-> Request(row.meta)]
                              /\ new = Normalized(job)
    OBVIOUS
  <2>2. /\ run.stage = "polling"
        /\ server' = [server EXCEPT !.jobs[row.file] = new]
        /\ \/ /\ next \in DOMAIN Current /\ UNCHANGED table
              /\ run' = [run EXCEPT !.at = next, !.stage = "sending", !.row = <<table.sel, next>>]
           \/ /\ run' = Idle
              /\ table' = [table EXCEPT !.sel = 0, !.shown = TRUE, !.start = TRUE]
    BY <1>8, <2>1 DEF Saved
  <2>3. run # Idle
    BY <2>2 DEF Idle
  <2>4. /\ ~table.shown /\ table.sel # 0 /\ run.row[1] = table.sel
        /\ run.db = DbFields(table.cat) /\ Valid(Current, table.cat)
    BY <1>0, <1>2, <2>3 DEF CompleteInv
  <2>5. Complete(new)
    <3>1. PICK s \in Selections : \E i \in DOMAIN rows[s] :
            run.row = <<s, i>> /\ RowOfRun = rows[s][i]
      BY <2>2, RunRow
    <3>2. PICK i \in DOMAIN rows[s] : run.row = <<s, i>> /\ RowOfRun = rows[s][i]
      BY <3>1
    <3>3. s = table.sel
      BY <2>4, <3>2
    <3>4. PICK list, cat : list = rows[s] /\ cat = table.cat
      OBVIOUS
    <3>5. Valid(list, cat) /\ i \in DOMAIN list /\ DOMAIN list[i].meta = Keys /\ row = list[i]
      <4>1. Current = rows[s] /\ IsRow(RowOfRun)
        BY <2>2, <2>4, <3>3, RunRow DEF Current
      <4> QED BY <2>1, <2>4, <3>2, <3>4, <4>1 DEF IsRow
    <3> QED BY <1>0, <2>1, <2>4, <3>4, <3>5, ValidIsComplete
  <2>6. AllComplete'
    <3>1. \A g \in Files : server'.jobs[g] \in {server.jobs[g], new}
      BY <1>0, <2>2
    <3> QED BY <1>3, <2>5, <3>1 DEF AllComplete
  <2>7. CASE /\ UNCHANGED table
             /\ run' = [run EXCEPT !.at = next, !.stage = "sending", !.row = <<table.sel, next>>]
    <3>1. run'.row[1] = table'.sel /\ run'.db = DbFields(table'.cat)
      BY <1>0, <2>4, <2>7
    <3> QED BY <1>4, <2>4, <2>6, <2>7, <3>1 DEF CompleteInv, AllComplete
  <2>8. CASE run' = Idle /\ table' = [table EXCEPT !.sel = 0, !.shown = TRUE, !.start = TRUE]
    <3>1. table'.sel = 0
      BY <1>0, <2>8
    <3>2. Valid(Current, table.cat)'
      BY <3>1, NothingMissing DEF Current, Valid
    <3> QED BY <2>6, <2>8, <3>2 DEF CompleteInv, AllComplete
  <2> QED BY <2>2, <2>7, <2>8
<1> QED BY <1>5, <1>6, <1>7, <1>8 DEF RunStep

\* A video that is renamed stays complete: it gets a series.
LEMMA RenamedComplete ==
  ASSUME NEW old, NEW new, NEW title, RenamedAs(old, new, title), Complete(old)
  PROVE  Complete(new)
<1>1. CategoryOf(new) = CategoryOf(old)
  BY DEF RenamedAs, CategoryOf
<1>2. ASSUME NEW k \in Required(CategoryOf(new))
      PROVE  new.form[k] # Blank(k) \/ (CategoryOf(new) = "Anime TV" /\ k = "episode")
  <2>1. old.form[k] # Blank(k) \/ (CategoryOf(new) = "Anime TV" /\ k = "episode")
    BY <1>1 DEF Complete
  <2>2. k \in Keys
    BY DEF Required, Columns, Keys
  <2>3. new.form[k] = IF k = "series" THEN title ELSE old.form[k]
    BY <2>2 DEF RenamedAs
  <2>4. k = "series" => new.form[k] # Blank(k)
    BY <2>3 DEF RenamedAs, Blank, TextKeys
  <2> QED BY <2>1, <2>3, <2>4
<1> QED BY <1>2 DEF Complete

LEMMA RequestComplete ==
  ASSUME Shape, Waiting, CompleteInv, NEW n \in UnderWay, AnswerStep(n) \/ TakeStep(n)
  PROVE  CompleteInv'
<1>0. /\ DOMAIN run = {"at", "stage", "db", "row"} /\ n \in Slots /\ ServerShape
      /\ DOMAIN server = {"jobs", "links", "auto"} /\ DOMAIN server.jobs = Files
      /\ DOMAIN hist = {"asked", "typed", "chosen", "faults", "calm", "agree", "ordered", "linked"}
  BY DEF Shape, RunShape, ServerShape, HistShape, UnderWay, Slots
<1>1. CASE TakeRowResults(n)
  <2>1. UNCHANGED <<place, table, run, server, hist>> /\ RowsStay /\ MetaStays
    BY <1>0, <1>1, TakeRows DEF TakeRowResults
  <2> QED BY <2>1, QuietComplete DEF AllComplete
<1>2. CASE TakeLink(n)
  <2>1. /\ UNCHANGED <<place, table, rows, server>> /\ hist'.calm = hist.calm
        /\ calls[n].kind = "link"
        /\ \/ place = "upload" /\ run' = [run EXCEPT !.stage = "polling"]
           \/ UNCHANGED run
    BY <1>0, <1>2 DEF TakeLink
  <2>2. place = "upload" => run # Idle
    BY <1>0, <2>1 DEF Waiting, Has, Idle
  <2>3. run' # Idle => run # Idle
    BY <2>1, <2>2
  <2>4. run'.row = run.row /\ run'.db = run.db
    BY <1>0, <2>1
  <2>5. RowsStay /\ MetaStays
    BY <2>1, SameRowsStay
  <2> QED BY <2>1, <2>3, <2>4, <2>5, QuietComplete DEF AllComplete
<1>3. CASE TakeBoxResults(n) \/ TakeEdit(n) \/ HandleSearch(n)
  <2>1. UNCHANGED <<place, table, rows, run, server, hist>>
    BY <1>3 DEF TakeBoxResults, TakeEdit, HandleSearch
  <2>2. RowsStay /\ MetaStays
    BY <2>1, SameRowsStay
  <2> QED BY <2>1, <2>2, QuietComplete DEF AllComplete
<1>4. CASE Fails(n)
  <2>1. UNCHANGED <<place, table, rows, run, server>> /\ hist'.calm = hist.calm
    BY <1>0, <1>4 DEF Fails
  <2>2. RowsStay /\ MetaStays
    BY <2>1, SameRowsStay
  <2> QED BY <2>1, <2>2, QuietComplete DEF AllComplete
<1>5. CASE HandlePatchJob(n)
  <2>1. calls[n].kind = "edit" /\ UNCHANGED place
    BY <1>5 DEF HandlePatchJob
  <2>2. place # "upload"
    BY <1>0, <2>1, NoEdits DEF Has
  <2> QED BY <2>1, <2>2 DEF CompleteInv
<1>6. CASE HandleLinkJob(n)
  <2>1. PICK f, item, jobs : /\ f = calls[n].to /\ item = calls[n].arg
                             /\ jobs = Renamed(server.jobs, f, item)
    OBVIOUS
  <2>2. /\ UNCHANGED <<place, table, rows, run>> /\ calls[n].kind = "link"
        /\ server' = [server EXCEPT !.links[f] = item, !.jobs = jobs]
        /\ hist'.calm = hist.calm
    BY <1>0, <1>6, <2>1 DEF HandleLinkJob
  <2>3. f \in Files
    <3>1. IsCall(calls[n]) /\ calls[n] # Over
      BY <1>0, <2>2 DEF Shape, CallsShape, Over
    <3> QED BY <2>1, <2>2, <3>1 DEF IsCall
  <2>4. \A g \in Files :
          \/ jobs[g] = server.jobs[g]
          \/ server.jobs[g] # Nothing /\ RenamedAs(server.jobs[g], jobs[g], TitleOf[item])
    BY <1>0, <2>1, <2>3, RenamedSeries
  <2>5. server'.jobs = jobs
    BY <1>0, <2>2
  <2>6. ASSUME AllComplete PROVE AllComplete'
    <3>1. ASSUME NEW g \in Files, jobs[g] # Nothing, jobs[g].saved PROVE Complete(jobs[g])
      <4>1. CASE jobs[g] = server.jobs[g]
        BY <2>6, <3>1, <4>1 DEF AllComplete
      <4>2. CASE server.jobs[g] # Nothing /\ RenamedAs(server.jobs[g], jobs[g], TitleOf[item])
        <5>1. server.jobs[g].saved
          BY <3>1, <4>2 DEF RenamedAs
        <5>2. Complete(server.jobs[g])
          BY <2>6, <4>2, <5>1 DEF AllComplete
        <5>3. PICK old, new, title : /\ old = server.jobs[g] /\ new = jobs[g]
                                     /\ title = TitleOf[item]
          OBVIOUS
        <5> QED BY <4>2, <5>2, <5>3, RenamedComplete
      <4> QED BY <2>4, <4>1, <4>2
    <3> QED BY <2>5, <3>1 DEF AllComplete
  <2>7. RowsStay /\ MetaStays
    BY <2>2, SameRowsStay
  <2> QED BY <2>2, <2>6, <2>7, QuietComplete
<1> QED BY <1>1, <1>2, <1>3, <1>4, <1>5, <1>6 DEF AnswerStep, TakeStep

LEMMA NextCompleteInv == Shape /\ Waiting /\ CompleteInv /\ [Next]_vars => CompleteInv'
<1> SUFFICES ASSUME Shape, Waiting, CompleteInv, [Next]_vars PROVE CompleteInv'
  OBVIOUS
<1>1. CASE UNCHANGED vars
  <2>1. UNCHANGED <<place, table, rows, run, server, hist>>
    BY <1>1 DEF vars
  <2>2. RowsStay /\ MetaStays
    BY <2>1, SameRowsStay
  <2> QED BY <2>1, <2>2, QuietComplete DEF AllComplete
<1>2. CASE BoxStep
  BY <1>2, Places, SamePlace DEF CompleteInv
<1>3. CASE AutoStep
  <2>0. /\ DOMAIN server = {"jobs", "links", "auto"}
        /\ DOMAIN hist = {"asked", "typed", "chosen", "faults", "calm", "agree", "ordered", "linked"}
    BY DEF Shape, ServerShape, HistShape
  <2>1. /\ UNCHANGED <<place, table, rows, run>> /\ hist'.calm = hist.calm
        /\ server'.jobs = server.jobs
    BY <1>3, <2>0 DEF AutoStep, AutoCheck, AutoLink, AutoFails
  <2>2. RowsStay /\ MetaStays
    BY <2>1, SameRowsStay
  <2> QED BY <2>1, <2>2, QuietComplete DEF AllComplete
<1> QED BY <1>1, <1>2, <1>3, Steps, TableComplete, RunComplete, RequestComplete

LEMMA InitCompleteInv == Init => CompleteInv
<1> SUFFICES ASSUME Init, place = "upload" PROVE CompleteInv
  BY DEF CompleteInv
<1>1. run = Idle /\ \E c : table = [cat |-> c, sel |-> 0, shown |-> FALSE, start |-> FALSE]
  BY DEF Init
<1>2. PICK stored :
        server = [jobs |-> [f \in Files |->
                    IF place = "watch" /\ f = Video THEN stored ELSE Nothing],
                  links |-> [f \in Files |-> Nothing],
                  auto |-> IF place = "watch" THEN "pending" ELSE "off"]
  BY DEF Init
<1> QED BY <1>1, <1>2 DEF CompleteInv

-----------------------------------------------------------------------------
(* The theorems.                                                           *)

Inv == Shape /\ Waiting /\ LinkInv /\ ShownInv /\ CompleteInv

LEMMA InitInv == Init => Inv
  BY InitShape, InitWaiting, InitLinkInv, InitShownInv, InitCompleteInv DEF Inv

LEMMA NextInv == Inv /\ [Next]_vars => Inv'
  BY NextShape, NextWaiting, NextLinkInv, NextShownInv, NextCompleteInv DEF Inv

LEMMA InvHolds == Spec => []Inv
  BY InitInv, NextInv, PTL DEF Spec

LEMMA InvIsTyped == Inv => TypeOK
<1> SUFFICES ASSUME Shape, Waiting PROVE TypeOK
  BY DEF Inv
<1>1. place \in {"upload", "watch"} /\ table.sel \in 0..MaxSelections
  BY Bounds DEF Shape, PageShape, HistShape
<1>2. \A s \in 1..MaxSelections : \A i \in DOMAIN rows[s] :
        rows[s][i].file \in Files /\ DOMAIN rows[s][i].meta = Keys
  BY DEF Shape, RowsShape, Selections, IsRow
<1>3. run.stage \in {"idle", "sending", "linking", "polling"}
  BY DEF Shape, RunShape, Idle
<1>4. ASSUME NEW job, IsVideo(job) PROVE IsJob(job)
  BY <1>4, DbsAreCategories DEF IsVideo, IsJob
<1>5. \A f \in Files : server.jobs[f] = Nothing \/ IsJob(server.jobs[f])
  BY <1>4 DEF Shape, ServerShape
<1>6. IsJob(page.job) /\ page.hits \in Seq(Items)
  BY <1>4 DEF Shape, PageShape
<1>7. page.saving <=> Asking("edit")
  BY AskingIsHas DEF Waiting
<1>8. page.searching <=> \E n \in UnderWay : calls[n].kind = "search" /\ calls[n].to = Nothing
  <2>1. ASSUME NEW n \in Slots, calls[n].kind = "search"
        PROVE  n \in UnderWay /\ (calls[n].to = Nothing <=> place = "watch")
    <3>1. IsCall(calls[n]) /\ calls[n] # Over
      BY <2>1 DEF Shape, CallsShape, Over
    <3>2. ASSUME NEW s \in Selections, NEW i \in DOMAIN rows[s] PROVE Nothing # <<s, i>>
      <4>1. <<s, i>> \in Nat \X Nat
        BY DEF Shape, RowsShape, Selections
      <4> QED BY <4>1, MetadataAssumption
    <3>3. \/ place = "watch" /\ calls[n].to = Nothing
          \/ place = "upload" /\ calls[n].to # Nothing
      BY <2>1, <3>1, <3>2 DEF IsCall
    <3> QED BY <3>1, <3>3 DEF UnderWay, Slots
  <2>2. UnderWay \subseteq Slots
    BY DEF UnderWay, Slots
  <2>3. CASE place = "watch"
    BY <2>1, <2>2, <2>3 DEF Waiting, Has
  <2>4. CASE place = "upload"
    BY <2>1, <2>2, <2>4 DEF Waiting
  <2> QED BY <1>1, <2>3, <2>4
<1>9. run.stage = "linking" <=> place = "upload" /\ Asking("link")
  <2>1. CASE place = "upload"
    BY <2>1, AskingIsHas DEF Waiting
  <2>2. CASE place # "upload"
    BY <2>2, RunRow
  <2> QED BY <2>1, <2>2
<1> QED BY <1>1, <1>2, <1>3, <1>5, <1>6, <1>7, <1>8, <1>9 DEF TypeOK

\* The state has its types, and a button of the edit box is disabled exactly while its
\* request is under way, whatever was opened and closed since: a request of the box is
\* made only when none of its kind is under way, so the answer that frees the button
\* is the one that was waited for.
THEOREM TypeOKHolds == Spec => []TypeOK
  BY InvHolds, InvIsTyped, PTL

LEMMA InvIsChosen == Inv => LinkWasChosen
<1> SUFFICES ASSUME LinkInv PROVE LinkWasChosen
  BY DEF Inv
<1>1. \A s \in 1..MaxSelections : \A i \in DOMAIN rows[s] :
        LET row == rows[s][i] IN
        row.ext = IF row.clicked = <<>> THEN Nothing ELSE Last(row.clicked)
  BY DEF LinkInv, RowsFit, RowFits, Selections
<1>2. ASSUME place = "upload", NEW f \in Files, server.links[f] # Nothing
      PROVE  \E s \in 1..MaxSelections : \E i \in DOMAIN rows[s] :
               rows[s][i].file = f /\ server.links[f] \in ToSet(rows[s][i].clicked)
  BY <1>2 DEF LinkInv, UploadLinks, Clicked, Selections
<1>3. (place = "watch" /\ hist.ordered /\ ~Asking("link")) => server.links[Video] = hist.linked
  BY AskingIsHas DEF LinkInv, WatchLinks
<1> QED BY <1>1, <1>2, <1>3 DEF LinkWasChosen

\* Whatever answers are late, or come after other files were selected: a file is linked
\* to nothing but what was clicked in a row of its own, and a video to what its last
\* link asked for.
THEOREM LinkWasChosenHolds == Spec => []LinkWasChosen
  BY InvHolds, InvIsChosen, PTL

LEMMA InvIsShown == Inv => ShownIsStored
<1> SUFFICES ASSUME ShownInv, place = "watch", hist.agree, ~Asking("edit")
             PROVE  Agree(page.job, server.jobs[Video])
  BY DEF Inv, ShownIsStored, Agree, Kept
<1> QED BY AskingIsHas DEF ShownInv

\* The page and the server come to the same fields of a video after any number of
\* edits, refused ones and failed ones included, until an answer is lost or a link
\* renames a series.
THEOREM ShownIsStoredHolds == Spec => []ShownIsStored
  BY InvHolds, InvIsShown, PTL

LEMMA InvIsComplete == Inv => StoredIsComplete
  BY DEF Inv, CompleteInv, StoredIsComplete, Complete

\* What an undisturbed run stores has all its category requires.
THEOREM StoredIsCompleteHolds == Spec => []StoredIsComplete
  BY InvHolds, InvIsComplete, PTL
=============================================================================
