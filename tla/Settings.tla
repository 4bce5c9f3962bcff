-------------------------------- MODULE Settings --------------------------------
(***************************************************************************)
(* Settings and bots: the settings pages of some browsers,                 *)
(* src/static/settings.js, and the handlers that serve them,               *)
(* src/src/api/bots_settings.rs, which keep a setting in three places: the *)
(* settings table, the .env file, which becomes the process environment at *)
(* the next start, and the live configuration, which the handlers reload   *)
(* from the other two.                                                     *)
(*                                                                         *)
(* A handler is not alone between two of its awaits: checking, writing the *)
(* table, writing .env, loading a configuration and storing it are steps   *)
(* of their own, and so is the arrival of the answer at the page.          *)
(***************************************************************************)
EXTENDS Integers, Sequences, FiniteSets, SequencesExt

CONSTANTS
  Pages,         \* open settings pages
  Ints, Secret,  \* integer settings with a unit; TMDB_API_KEY, shown masked
  Numbers,       \* what may be typed into the number field; an empty one is a 0
  Units, Least,  \* factors of the units, smallest value the registry allows
  Default,       \* default of the integer settings
  Words, NoWord, \* what may be typed as the secret, and the empty text
  Absent,        \* no row, no line
  FirstBots,     \* rows of the bots table at the start
  MaxBot,        \* bound: ids of bots
  MaxRequests,   \* bound: requests of all pages, and requests and faults together
  MaxEdits,      \* bound: changes of fields on all pages
  MaxFaults      \* bound: failures and restarts

Keys == Ints \cup {Secret}
EnvBot == 0 \* the bot from the environment, which comes first

ASSUME SettingsAssumption ==
  /\ Secret \notin Ints /\ NoWord \notin Words
  /\ Numbers \subseteq Nat /\ Default \in Nat /\ Least \in Nat
  /\ Units \subseteq Nat \ {0} /\ 1 \in Units /\ IsFiniteSet(Units)
  /\ FirstBots \in Seq(1..(MaxBot - 1)) /\ IsInjective(FirstBots)
  /\ MaxBot \in Nat \ {0} /\ MaxRequests \in Nat /\ MaxEdits \in Nat /\ MaxFaults \in Nat

VARIABLES
  srv,  \* table, .env, process environment, live configuration, bots table, live
        \* pool of bots, next id of a bot
  req,  \* the requests: kind, page, where it is, argument, the configuration it
        \* loaded; of a save, as a history, the keys touched since the page was
        \* rendered and whether what it showed was current
  page, \* of a page: the fields, the keys touched and is the rest current, the
        \* save that disabled the button, and the bots in the rows
  hist  \* requests, edits and faults so far, and has something gone wrong since the last
        \* handler that had the server to itself began to write

vars == <<srv, req, page, hist>>

-----------------------------------------------------------------------------
(* Values, and how a page shows them.                                      *)

\* A text is a word, or the mask of one: its first and last two characters.
Text(w)  == [of |-> w, masked |-> FALSE]
NoText   == Text(NoWord)
Mask(t)  == IF t = NoText THEN t ELSE [t EXCEPT !.masked = TRUE]

Defaults == [k \in Keys |-> IF k = Secret THEN NoText ELSE Default]

Requests == 1..MaxRequests

\* Variants of the operators below, each with a plausible slip.
IsUnchangedMask_Slip(t) == FALSE
Reloads_Slip(r)         == req[r].kind = "save"
Released_Slip(p, r)     == page[p].saving

\* The largest unit the value is a multiple of.
BestUnit(v) ==
  CHOOSE u \in Units :
    /\ u = 1 \/ (v >= u /\ v % u = 0)
    /\ \A x \in Units : (v >= x /\ v % x = 0) => x <= u

\* What the field of a setting holds, and what is sent for it.
Show(k, v) == IF k = Secret THEN Mask(v)
              ELSE [n |-> v \div BestUnit(v), unit |-> BestUnit(v)]
Send(k, x) == IF k = Secret THEN x ELSE x.n * x.unit

\* The button that a save disabled is enabled when the save is over, unless the
\* section has been rendered anew.
Released(p, r) == IF page[p].saving = r THEN 0 ELSE page[p].saving

\* The mask of the secret came back as it was sent.
IsUnchangedMask(t) == srv.cfg[Secret] # NoText /\ t = Mask(srv.cfg[Secret])

\* Handlers that load the configuration from the database after they wrote.
Reloads(r) == req[r].kind \in {"save", "reset", "add", "delete"}

\* The table over the environment over the defaults.
Effective(db, boot) ==
  [k \in Keys |-> IF db[k] # Absent THEN db[k]
                  ELSE IF boot[k] # Absent THEN boot[k] ELSE Defaults[k]]

Pool(table) == <<EnvBot>> \o table

Loaded == [values |-> Effective(srv.db, srv.boot), pool |-> Pool(srv.bots)]
Live   == [values |-> srv.cfg, pool |-> srv.pool]

\* What a page makes of the settings it receives.
Rendered(pg, a, current) ==
  [pg EXCEPT !.form = [k \in Keys |-> Show(k, a.values[k])], !.touched = {},
             !.current = current, !.saving = 0]

-----------------------------------------------------------------------------
Nowhere == [k \in Keys |-> Absent]

Off == [kind |-> "none", page |-> Absent, at |-> "off", arg |-> 0,
        ans |-> [values |-> Defaults, pool |-> <<>>],
        touched |-> {}, current |-> FALSE]

\* The server runs and the pages have loaded.
Init ==
  /\ srv = [db |-> Nowhere, env |-> Nowhere, boot |-> Nowhere, cfg |-> Defaults,
            bots |-> FirstBots, pool |-> Pool(FirstBots), next |-> MaxBot]
  /\ req = [r \in Requests |-> Off]
  /\ page = [p \in Pages |->
       [form |-> [k \in Keys |-> Show(k, Defaults[k])], touched |-> {},
        current |-> TRUE, saving |-> 0, rows |-> Pool(FirstBots)]]
  /\ hist = [asked |-> 0, edits |-> 0, faults |-> 0, dirty |-> FALSE]

\* One more request, one more fault.
Request == hist.asked + hist.faults < MaxRequests
Fault   == Request /\ hist.faults < MaxFaults

-----------------------------------------------------------------------------
(* The pages.                                                              *)

\* A request leaves.
Asks(q) ==
  /\ Request
  /\ hist' = [hist EXCEPT !.asked = @ + 1]
  /\ req' = [req EXCEPT ![hist.asked + 1] = q]

Ask(p, kind, arg) == [Off EXCEPT !.kind = kind, !.page = p, !.at = "sent", !.arg = arg]

\* The page is opened again: loadSettings and loadBots, taken as one request.
Load(p) ==
  /\ Asks(Ask(p, "load", 0))
  /\ UNCHANGED <<srv, page>>

\* The user changes a field.
Edit(p, k) ==
  /\ hist.edits < MaxEdits
  /\ hist' = [hist EXCEPT !.edits = @ + 1]
  /\ \E x \in IF k = Secret THEN {Text(w) : w \in Words \cup {NoWord}}
              ELSE [n : Numbers, unit : Units] :
       /\ x # page[p].form[k]
       /\ page' = [page EXCEPT ![p].form[k] = x, ![p].touched = @ \cup {k}]
  /\ UNCHANGED <<srv, req>>

\* saveSection sends every field of the section, touched or not.
Save(p) ==
  /\ page[p].saving = 0
  /\ Asks([Ask(p, "save", [k \in Keys |-> Send(k, page[p].form[k])])
             EXCEPT !.touched = page[p].touched, !.current = page[p].current])
  /\ page' = [page EXCEPT ![p].saving = hist.asked + 1]
  /\ UNCHANGED srv

Reset(p, k) ==
  /\ Asks(Ask(p, "reset", k))
  /\ UNCHANGED <<srv, page>>

\* A delete names the id of the bot.  A bot of the environment has no delete button.
DeleteBot(p, i) ==
  /\ page[p].rows[i] # EnvBot
  /\ Asks(Ask(p, "delete", page[p].rows[i]))
  /\ UNCHANGED <<srv, page>>

AddBot(p) ==
  /\ Asks(Ask(p, "add", 0))
  /\ UNCHANGED <<srv, page>>

\* The answer to a request reaches its page.  Settings are rendered anew, and
\* with them go the edits that were not saved; a save renders nothing; after a
\* change of bots they are listed again.
Answer(r) ==
  LET p == req[r].page
      a == req[r].ans
      over == [req EXCEPT ![r] = Off]
      current == a = Loaded /\ a = Live
                 /\ \A q \in Requests : req[q].at \notin {"stored", "written", "loaded"}
  IN /\ req[r].at = "answered"
     /\ \/ /\ req[r].kind \in {"load", "reset"}
           /\ page' = [page EXCEPT ![p] = Rendered(@, a, current),
                                  ![p].rows = IF req[r].kind = "load" THEN a.pool ELSE @]
           /\ req' = over /\ UNCHANGED hist
        \/ /\ req[r].kind = "list"
           /\ page' = [page EXCEPT ![p].rows = a.pool]
           /\ req' = over /\ UNCHANGED hist
        \/ /\ req[r].kind = "save"
           /\ page' = [page EXCEPT ![p].saving = Released(p, r)]
           /\ req' = over /\ UNCHANGED hist
        \/ /\ req[r].kind \in {"add", "delete"}
           /\ Request
           /\ hist' = [hist EXCEPT !.asked = @ + 1]
           /\ req' = [over EXCEPT ![hist.asked + 1] = Ask(p, "list", 0)]
           /\ UNCHANGED page
     /\ UNCHANGED srv

\* An error reaches the page, or nothing does.
Failed(r) ==
  /\ req[r].at = "failed"
  /\ req' = [req EXCEPT ![r] = Off]
  /\ page' = [page EXCEPT ![req[r].page].saving = Released(req[r].page, r)]
  /\ UNCHANGED <<srv, hist>>

-----------------------------------------------------------------------------
(* The handlers.                                                           *)

Busy == {r \in Requests : req[r].at \in {"stored", "written", "loaded"}}

Goes(r, state) == req' = [req EXCEPT ![r].at = state]

\* handle_get_settings and handle_get_bots: the live configuration.
Get(r) ==
  /\ req[r].kind \in {"load", "list"} /\ req[r].at = "sent"
  /\ req' = [req EXCEPT ![r].at = "answered", ![r].ans = Live]
  /\ UNCHANGED <<srv, page, hist>>

\* A save is refused as a whole, or goes on without the mask of the secret.
Valid(values) == \A k \in Ints : values[k] >= Least

Refuse(r) ==
  /\ req[r].kind = "save" /\ req[r].at = "sent" /\ ~Valid(req[r].arg)
  /\ Goes(r, "failed")
  /\ UNCHANGED <<srv, page, hist>>

Check(r) ==
  LET keeps == IF IsUnchangedMask(req[r].arg[Secret]) THEN Ints ELSE Keys
  IN /\ req[r].kind = "save" /\ req[r].at = "sent" /\ Valid(req[r].arg)
     /\ req' = [req EXCEPT ![r].at = "checked", ![r].arg = [k \in keeps |-> @[k]]]
     /\ UNCHANGED <<srv, page, hist>>

\* The database is written.  What pages show, and what other saves carry, is no
\* longer current, but for the page that shows what is saved here; and if another
\* handler is between its write and its store, neither may the live configuration
\* be when both are done.
Writes(r, table) ==
  /\ srv' = table
  /\ req' = [q \in Requests |-> IF q = r THEN [req[q] EXCEPT !.at = "stored"]
                                ELSE [req[q] EXCEPT !.current = FALSE]]
  /\ hist' = [hist EXCEPT !.dirty = Busy # {}]
  /\ page' = [p \in Pages |-> IF page[p].saving = r THEN page[p]
                              ELSE [page[p] EXCEPT !.current = FALSE]]

WriteSave(r) ==
  /\ req[r].kind = "save" /\ req[r].at = "checked"
  /\ Writes(r, [srv EXCEPT !.db = [k \in Keys |-> IF k \in DOMAIN req[r].arg
                                                   THEN req[r].arg[k] ELSE @[k]]])

WriteReset(r) ==
  /\ req[r].kind = "reset" /\ req[r].at = "sent"
  /\ Writes(r, [srv EXCEPT !.db[req[r].arg] = Absent])

\* The new bot has passed its probe; ids are not used twice.
WriteAdd(r) ==
  /\ req[r].kind = "add" /\ req[r].at = "sent"
  /\ srv.next <= MaxBot
  /\ Writes(r, [srv EXCEPT !.bots = Append(@, srv.next), !.next = @ + 1])

\* Ids are unique.
WriteDelete(r) ==
  /\ req[r].kind = "delete" /\ req[r].at = "sent"
  /\ \E i \in DOMAIN srv.bots :
       /\ srv.bots[i] = req[r].arg
       /\ Writes(r, [srv EXCEPT !.bots = RemoveAt(@, i)])

\* The bot is not there (any more), or the new one is refused.
Rejected(r) ==
  /\ req[r].at = "sent"
  /\ \/ req[r].kind = "delete" /\ \A i \in 1..Len(srv.bots) : srv.bots[i] # req[r].arg
     \/ req[r].kind = "add"
  /\ Goes(r, "failed")
  /\ UNCHANGED <<srv, page, hist>>

\* .env gets what was saved, or what the environment or the default says of a
\* setting that was reset.
WriteEnv(r) ==
  /\ req[r].kind \in {"save", "reset"} /\ req[r].at = "stored"
  /\ srv' = [srv EXCEPT !.env = [k \in Keys |->
       IF req[r].kind = "save" /\ k \in DOMAIN req[r].arg THEN req[r].arg[k]
       ELSE IF req[r].kind = "reset" /\ k = req[r].arg THEN Effective(Nowhere, srv.boot)[k]
       ELSE @[k]]]
  /\ Goes(r, "written")
  /\ UNCHANGED <<page, hist>>

\* A save that cannot write .env ends with an error, a reset goes on.
WriteEnvFails(r) ==
  /\ req[r].kind \in {"save", "reset"} /\ req[r].at = "stored"
  /\ Fault
  /\ Goes(r, IF req[r].kind = "save" THEN "failed" ELSE "written")
  /\ hist' = [hist EXCEPT !.faults = @ + 1, !.dirty = @ \/ req[r].kind = "save"]
  /\ UNCHANGED <<srv, page>>

\* Config::load.
LoadConfig(r) ==
  /\ req[r].at = IF req[r].kind \in {"add", "delete"} THEN "stored" ELSE "written"
  /\ req' = [req EXCEPT ![r].at = "loaded", ![r].ans = IF Reloads(r) THEN Loaded ELSE Live]
  /\ UNCHANGED <<srv, page, hist>>

LoadFails(r) ==
  /\ req[r].at = IF req[r].kind \in {"add", "delete"} THEN "stored" ELSE "written"
  /\ Fault
  /\ Goes(r, "failed")
  /\ hist' = [hist EXCEPT !.faults = @ + 1, !.dirty = TRUE]
  /\ UNCHANGED <<srv, page>>

\* The loaded configuration becomes the live one.
StoreConfig(r) ==
  /\ req[r].at = "loaded"
  /\ srv' = [srv EXCEPT !.cfg = req[r].ans.values, !.pool = req[r].ans.pool]
  /\ Goes(r, "answered")
  /\ UNCHANGED <<page, hist>>

\* A restart: .env is the environment, and what was under way is lost.
Restart ==
  /\ Fault
  /\ srv' = [srv EXCEPT !.boot = srv.env, !.cfg = Effective(srv.db, srv.env),
                        !.pool = Pool(srv.bots)]
  /\ req' = [r \in Requests |-> IF req[r].at \in {"off", "answered"} THEN req[r]
                                ELSE [req[r] EXCEPT !.at = "failed"]]
  /\ page' = [p \in Pages |-> [page[p] EXCEPT !.current = FALSE]]
  /\ hist' = [hist EXCEPT !.faults = @ + 1, !.dirty = FALSE]

-----------------------------------------------------------------------------
Handler(r) == Get(r) \/ Refuse(r) \/ Check(r) \/ WriteSave(r) \/ WriteReset(r)
              \/ WriteAdd(r) \/ WriteDelete(r) \/ Rejected(r) \/ WriteEnv(r)
              \/ WriteEnvFails(r) \/ LoadConfig(r) \/ LoadFails(r) \/ StoreConfig(r)

Next ==
  \/ \E p \in Pages :
       \/ Load(p) \/ Save(p) \/ AddBot(p)
       \/ \E k \in Keys : Edit(p, k) \/ Reset(p, k)
       \/ \E i \in 1..Len(page[p].rows) : DeleteBot(p, i)
  \/ \E r \in Requests : Handler(r) \/ Answer(r) \/ Failed(r)
  \/ Restart

Spec == Init /\ [][Next]_vars

-----------------------------------------------------------------------------
(* Properties.                                                             *)

Values == [k \in Keys |-> IF k = Secret THEN [of : Words \cup {NoWord}, masked : BOOLEAN]
                          ELSE Nat]

\* The types of the state; and a disabled button waits for a save that is under
\* way, on any error too.
TypeOK ==
  /\ DOMAIN srv = {"db", "env", "boot", "cfg", "bots", "pool", "next"}
  /\ \A k \in Keys :
       /\ srv.cfg[k] \in Values[k]
       /\ {srv.db[k], srv.env[k], srv.boot[k]} \subseteq Values[k] \cup {Absent}
  /\ srv.bots \in Seq(1..MaxBot) /\ srv.pool \in Seq(0..MaxBot)
  /\ srv.next \in 1..(MaxBot + 1)
  /\ \A r \in Requests :
       /\ req[r].kind \in {"none", "load", "list", "save", "reset", "add", "delete"}
       /\ req[r].at \in {"off", "sent", "checked", "stored", "written", "loaded",
                        "answered", "failed"}
       /\ req[r].at = "off" <=> req[r].kind = "none"
  /\ \A p \in Pages :
       /\ page[p].touched \subseteq Keys /\ page[p].rows \in Seq(0..MaxBot)
       /\ page[p].saving # 0 =>
            req[page[p].saving].kind = "save" /\ req[page[p].saving].page = p
  /\ hist.asked \in 0..MaxRequests /\ hist.edits \in 0..MaxEdits
  /\ hist.faults \in 0..MaxFaults /\ hist.dirty \in BOOLEAN

IsCurrent == srv.cfg = Effective(srv.db, srv.boot) /\ srv.pool = Pool(srv.bots)

\* The live configuration is the stored one whenever no handler is between its
\* write and its store, unless two of them overlapped or one broke off; and the
\* next handler that has the server to itself, of whatever kind, repairs that.
LoneHandlerIsCurrent == (Busy = {} /\ ~hist.dirty) => IsCurrent

\* A save sends every field of its section.  If what the page showed was current
\* the fields that the user did not touch still leave their settings as they
\* were, through the split into number and unit and the mask of the secret.
UntouchedIsKept ==
  [][\A r \in Requests :
       (/\ req[r].kind = "save" /\ req[r].at = "checked" /\ req'[r].at = "stored"
        /\ req[r].current) =>
         \A k \in Keys \ req[r].touched :
           Effective(srv'.db, srv'.boot)[k] = Effective(srv.db, srv.boot)[k]]_vars
=============================================================================
