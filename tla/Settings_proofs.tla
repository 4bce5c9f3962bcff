----------------------------- MODULE Settings_proofs -----------------------------
(***************************************************************************)
(* For any pages, settings, bots and number of requests and faults: the    *)
(* live configuration is the stored one as long as handlers do not         *)
(* overlap, and a save keeps what the user did not touch.                  *)
(***************************************************************************)
EXTENDS Settings, TLAPS, WellFoundedInduction

USE SettingsAssumption

Changing  == {"save", "reset", "add", "delete"}
Underway  == {"stored", "written", "loaded"}

\* The parts of the state that the proof is about.
Shape ==
  /\ DOMAIN srv = {"db", "env", "boot", "cfg", "bots", "pool", "next"}
  /\ DOMAIN req = Requests
  /\ \A r \in Requests :
       DOMAIN req[r] = {"kind", "page", "at", "arg", "ans", "touched", "current"}
  /\ DOMAIN hist = {"asked", "edits", "faults", "dirty"}
  /\ hist.asked \in Nat /\ hist.faults \in Nat /\ hist.dirty \in BOOLEAN

\* Requests that were not made yet are off, and only those that change something
\* get between a write and a store.
Slots ==
  \A r \in Requests :
    /\ r > hist.asked => req[r].at = "off"
    /\ req[r].at \in Underway => req[r].kind \in Changing

\* Without an overlap one handler at most is under way, what it has loaded is what
\* is stored, and when there is none the live configuration is.
Alone ==
  ~hist.dirty =>
    /\ \A r, q \in Busy : r = q
    /\ Busy = {} => IsCurrent
    /\ \A r \in Requests : req[r].at = "loaded" => req[r].ans = Loaded

ConfigInv == Shape /\ Slots /\ Alone

-----------------------------------------------------------------------------
\* A step keeps the invariant that changes neither the configuration nor who is
\* between a write and a store.
Apart ==
  /\ Shape' /\ Slots'
  /\ hist'.dirty = hist.dirty
  /\ srv'.db = srv.db /\ srv'.boot = srv.boot /\ srv'.bots = srv.bots
  /\ srv'.cfg = srv.cfg /\ srv'.pool = srv.pool
  /\ \A r \in Requests : (req'[r].at \in Underway \/ req[r].at \in Underway)
                         => req'[r].at = req[r].at /\ req'[r].ans = req[r].ans

LEMMA ApartKeeps ==
  ASSUME ConfigInv, Apart
  PROVE  ConfigInv'
<1>1. Busy' = Busy
  BY DEF Apart, Busy, Underway
<1>2. Loaded' = Loaded /\ (IsCurrent' <=> IsCurrent)
  BY DEF Apart, Loaded, IsCurrent, Effective
<1>3. Alone'
  BY <1>1, <1>2 DEF ConfigInv, Alone, Apart, Underway
<1> QED BY <1>3 DEF ConfigInv, Apart

\* The slot of the next request is free.
LEMMA FreeSlot ==
  ASSUME ConfigInv, Request
  PROVE  hist.asked + 1 \in Requests /\ req[hist.asked + 1].at = "off"
  BY DEF ConfigInv, Shape, Slots, Request, Requests

\* A request that leaves a page.
LEMMA AsksApart ==
  ASSUME ConfigInv, NEW q, Asks(q), UNCHANGED srv, q.at = "sent",
         DOMAIN q = {"kind", "page", "at", "arg", "ans", "touched", "current"}
  PROVE  Apart
<1>1. hist.asked + 1 \in Requests /\ req[hist.asked + 1].at = "off"
  BY FreeSlot DEF Asks
<1>2. /\ DOMAIN hist' = {"asked", "edits", "faults", "dirty"}
      /\ hist'.asked = hist.asked + 1 /\ hist'.faults = hist.faults /\ hist'.dirty = hist.dirty
  BY DEF Asks, ConfigInv, Shape
<1>3. DOMAIN req' = Requests /\ \A r \in Requests :
        req'[r] = IF r = hist.asked + 1 THEN q ELSE req[r]
  BY DEF Asks, ConfigInv, Shape
<1>4. Shape'
  BY <1>2, <1>3 DEF ConfigInv, Shape
<1>5. Slots'
  <2> SUFFICES ASSUME NEW r \in Requests
               PROVE  /\ r > hist.asked + 1 => req'[r].at = "off"
                      /\ req'[r].at \in Underway => req'[r].kind \in Changing
    BY <1>2 DEF Slots
  <2>1. CASE r = hist.asked + 1
    BY <1>3, <2>1 DEF Underway, Requests
  <2>2. CASE r # hist.asked + 1
    BY <1>3, <2>2 DEF ConfigInv, Shape, Slots, Requests
  <2> QED BY <2>1, <2>2
<1> QED BY <1>1, <1>2, <1>3, <1>4, <1>5 DEF Apart, Underway

LEMMA AskShape ==
  ASSUME NEW p, NEW k, NEW a
  PROVE  /\ DOMAIN Ask(p, k, a) = {"kind", "page", "at", "arg", "ans", "touched", "current"}
         /\ Ask(p, k, a).at = "sent"
  BY DEF Ask, Off

\* A request that goes on, outside the part between write and store.
LEMMA GoesApart ==
  ASSUME ConfigInv, NEW r \in Requests, UNCHANGED <<srv, hist>>,
         NEW new, req' = [req EXCEPT ![r] = new],
         DOMAIN new = {"kind", "page", "at", "arg", "ans", "touched", "current"},
         req[r].at \notin Underway \cup {"off"} \/ new.at = "off",
         req[r].at \notin Underway, new.at \notin Underway
  PROVE  Apart
<1>1. DOMAIN req' = Requests
      /\ \A q \in Requests : req'[q] = IF q = r THEN new ELSE req[q]
  BY DEF ConfigInv, Shape
<1>2. Shape'
  BY <1>1 DEF ConfigInv, Shape
<1>3. Slots'
  BY <1>1 DEF ConfigInv, Slots
<1> QED BY <1>1, <1>2, <1>3 DEF Apart, ConfigInv, Shape

-----------------------------------------------------------------------------
LEMMA InitInv == Init => ConfigInv
<1> SUFFICES ASSUME Init PROVE ConfigInv
  OBVIOUS
<1>1. \A r \in Requests : req[r] = Off
  BY DEF Init
<1>2. Shape /\ Slots
  BY <1>1 DEF Init, Shape, Slots, Off, Requests, Underway
<1>3. Busy = {}
  BY <1>1 DEF Busy, Off
<1>4. IsCurrent
  BY DEF Init, IsCurrent, Effective, Nowhere, Defaults
<1> QED BY <1>1, <1>2, <1>3, <1>4 DEF ConfigInv, Alone, Off

\* What pages do.
LEMMA PageSteps ==
  ASSUME ConfigInv, NEW p \in Pages,
         \/ Load(p) \/ Save(p) \/ AddBot(p)
         \/ \E k \in Keys : Edit(p, k) \/ Reset(p, k)
         \/ \E i \in 1..Len(page[p].rows) : DeleteBot(p, i)
  PROVE  ConfigInv'
<1>1. CASE Load(p)
  BY <1>1, AsksApart, AskShape, ApartKeeps DEF Load
<1>2. CASE Save(p)
  <2> DEFINE q == [Ask(p, "save", [k \in Keys |-> Send(k, page[p].form[k])])
                     EXCEPT !.touched = page[p].touched, !.current = page[p].current]
  <2>1. q.at = "sent" /\ DOMAIN q = {"kind", "page", "at", "arg", "ans", "touched", "current"}
    BY AskShape
  <2>2. Asks(q) /\ UNCHANGED srv
    BY <1>2 DEF Save
  <2> HIDE DEF q
  <2> QED BY <2>1, <2>2, AsksApart, ApartKeeps
<1>3. CASE AddBot(p)
  BY <1>3, AsksApart, AskShape, ApartKeeps DEF AddBot
<1>4. ASSUME NEW k \in Keys, Edit(p, k) PROVE ConfigInv'
  <2>1. UNCHANGED <<srv, req>> /\ hist' = [hist EXCEPT !.edits = @ + 1]
    BY <1>4 DEF Edit
  <2>2. /\ DOMAIN hist' = {"asked", "edits", "faults", "dirty"} /\ hist'.asked = hist.asked
        /\ hist'.faults = hist.faults /\ hist'.dirty = hist.dirty
    BY <2>1 DEF ConfigInv, Shape
  <2>3. Apart
    BY <2>1, <2>2 DEF Apart, ConfigInv, Shape, Slots
  <2> QED BY <2>3, ApartKeeps
<1>5. ASSUME NEW k \in Keys, Reset(p, k) PROVE ConfigInv'
  BY <1>5, AsksApart, AskShape, ApartKeeps DEF Reset
<1>6. ASSUME NEW i \in 1..Len(page[p].rows), DeleteBot(p, i) PROVE ConfigInv'
  BY <1>6, AsksApart, AskShape, ApartKeeps DEF DeleteBot
<1> QED BY <1>1, <1>2, <1>3, <1>4, <1>5, <1>6

\* What answers do, and handlers that write nothing.
LEMMA OuterSteps ==
  ASSUME ConfigInv, NEW r \in Requests,
         Answer(r) \/ Failed(r) \/ Get(r) \/ Refuse(r) \/ Check(r) \/ Rejected(r)
  PROVE  ConfigInv'
<1> DEFINE fields == {"kind", "page", "at", "arg", "ans", "touched", "current"}
<1>0. DOMAIN req = Requests /\ DOMAIN req[r] = fields /\ DOMAIN Off = fields /\ Off.at = "off"
  BY DEF ConfigInv, Shape, Off
<1>1. CASE Answer(r)
  <2>1. req[r].at = "answered" /\ UNCHANGED srv
    BY <1>1 DEF Answer
  <2>2. CASE req' = [req EXCEPT ![r] = Off] /\ UNCHANGED hist
    BY <1>0, <2>1, <2>2, GoesApart, ApartKeeps DEF Underway
  <2>3. CASE /\ Request /\ hist' = [hist EXCEPT !.asked = @ + 1]
             /\ req' = [[req EXCEPT ![r] = Off]
                          EXCEPT ![hist.asked + 1] = Ask(req[r].page, "list", 0)]
    <3>1. hist.asked + 1 \in Requests /\ req[hist.asked + 1].at = "off"
      BY <2>3, FreeSlot
    <3>2. /\ DOMAIN hist' = {"asked", "edits", "faults", "dirty"}
          /\ hist'.asked = hist.asked + 1 /\ hist'.faults = hist.faults
          /\ hist'.dirty = hist.dirty
      BY <2>3 DEF ConfigInv, Shape
    <3> DEFINE q == Ask(req[r].page, "list", 0)
    <3>3. DOMAIN q = fields /\ q.at = "sent"
      BY AskShape
    <3> HIDE DEF q
    <3>4. DOMAIN req' = Requests
          /\ \A s \in Requests : req'[s] = IF s = hist.asked + 1 THEN q
                                           ELSE IF s = r THEN Off ELSE req[s]
      BY <1>0, <2>3 DEF q
    <3>5. Shape'
      <4>1. hist.asked + 1 \in Nat /\ hist.faults \in Nat /\ hist.dirty \in BOOLEAN
        BY DEF ConfigInv, Shape
      <4> QED BY <1>0, <2>1, <3>2, <3>3, <3>4, <4>1 DEF ConfigInv, Shape
    <3>6. Slots'
      <4> SUFFICES ASSUME NEW s \in Requests
                   PROVE  /\ s > hist.asked + 1 => req'[s].at = "off"
                          /\ req'[s].at \in Underway => req'[s].kind \in Changing
        BY <3>2 DEF Slots
      <4>1. CASE s = hist.asked + 1
        BY <3>3, <3>4, <4>1 DEF Underway, Requests
      <4>2. CASE s # hist.asked + 1 /\ s = r
        BY <1>0, <3>4, <4>2 DEF Underway
      <4>3. CASE s # hist.asked + 1 /\ s # r
        BY <3>4, <4>3 DEF ConfigInv, Shape, Slots, Requests
      <4> QED BY <4>1, <4>2, <4>3
    <3>7. Apart
      BY <1>0, <2>1, <3>1, <3>2, <3>3, <3>4, <3>5, <3>6 DEF Apart, Underway
    <3> QED BY <3>7, ApartKeeps
  <2> QED BY <1>1, <2>2, <2>3 DEF Answer
<1>2. CASE Failed(r)
  BY <1>0, <1>2, GoesApart, ApartKeeps DEF Failed, Underway
<1>3. CASE Get(r)
  <2> DEFINE new == [req[r] EXCEPT !.at = "answered", !.ans = Live]
  <2>1. DOMAIN new = fields /\ new.at = "answered"
    BY <1>0
  <2>2. req' = [req EXCEPT ![r] = new] /\ UNCHANGED <<srv, hist>> /\ req[r].at = "sent"
    BY <1>0, <1>3 DEF Get
  <2> HIDE DEF new
  <2> QED BY <2>1, <2>2, GoesApart, ApartKeeps DEF Underway
<1>4. CASE Refuse(r) \/ Rejected(r)
  <2> DEFINE new == [req[r] EXCEPT !.at = "failed"]
  <2>1. DOMAIN new = fields /\ new.at = "failed"
    BY <1>0
  <2>2. req' = [req EXCEPT ![r] = new] /\ UNCHANGED <<srv, hist>> /\ req[r].at = "sent"
    BY <1>0, <1>4 DEF Refuse, Rejected, Goes
  <2> HIDE DEF new
  <2> QED BY <2>1, <2>2, GoesApart, ApartKeeps DEF Underway
<1>5. CASE Check(r)
  <2> DEFINE keeps == IF IsUnchangedMask(req[r].arg[Secret]) THEN Ints ELSE Keys
             new == [req[r] EXCEPT !.at = "checked", !.arg = [k \in keeps |-> @[k]]]
  <2>1. DOMAIN new = fields /\ new.at = "checked"
    BY <1>0
  <2>2. req' = [req EXCEPT ![r] = new] /\ UNCHANGED <<srv, hist>> /\ req[r].at = "sent"
    BY <1>0, <1>5 DEF Check
  <2> HIDE DEF new
  <2> QED BY <2>1, <2>2, GoesApart, ApartKeeps DEF Underway
<1> QED BY <1>1, <1>2, <1>3, <1>4, <1>5

\* A write makes its handler the only one under way, or marks the overlap.
LEMMA WriteSteps ==
  ASSUME ConfigInv, NEW r \in Requests,
         WriteSave(r) \/ WriteReset(r) \/ WriteAdd(r) \/ WriteDelete(r)
  PROVE  ConfigInv'
<1> DEFINE fields == {"kind", "page", "at", "arg", "ans", "touched", "current"}
<1>1. \E table : Writes(r, table) /\ DOMAIN table = DOMAIN srv
  <2>1. ASSUME WriteSave(r) PROVE \E table : Writes(r, table) /\ DOMAIN table = DOMAIN srv
    <3> DEFINE table == [srv EXCEPT !.db = [k \in Keys |-> IF k \in DOMAIN req[r].arg
                                                   THEN req[r].arg[k] ELSE @[k]]]
    <3>1. Writes(r, table) /\ DOMAIN table = DOMAIN srv
      BY <2>1 DEF WriteSave
    <3> QED BY <3>1
  <2>2. ASSUME WriteReset(r) PROVE \E table : Writes(r, table) /\ DOMAIN table = DOMAIN srv
    <3> DEFINE table == [srv EXCEPT !.db[req[r].arg] = Absent]
    <3>1. Writes(r, table) /\ DOMAIN table = DOMAIN srv
      BY <2>2 DEF WriteReset
    <3> QED BY <3>1
  <2>3. ASSUME WriteAdd(r) PROVE \E table : Writes(r, table) /\ DOMAIN table = DOMAIN srv
    <3> DEFINE table == [srv EXCEPT !.bots = Append(@, srv.next), !.next = @ + 1]
    <3>1. Writes(r, table) /\ DOMAIN table = DOMAIN srv
      BY <2>3 DEF WriteAdd
    <3> QED BY <3>1
  <2>4. ASSUME WriteDelete(r) PROVE \E table : Writes(r, table) /\ DOMAIN table = DOMAIN srv
    <3>1. PICK i \in DOMAIN srv.bots : Writes(r, [srv EXCEPT !.bots = RemoveAt(srv.bots, i)])
      BY <2>4 DEF WriteDelete
    <3> QED BY <3>1
  <2> QED BY <2>1, <2>2, <2>3, <2>4
<1>8. DOMAIN srv' = DOMAIN srv
  BY <1>1 DEF Writes
<1>2. req[r].at \notin Underway \cup {"off"} /\ req[r].kind \in Changing
  BY DEF WriteSave, WriteReset, WriteAdd, WriteDelete, Underway, Changing
<1>3. /\ DOMAIN req' = Requests /\ \A q \in Requests : DOMAIN req'[q] = fields
      /\ \A q \in Requests : req'[q].at = (IF q = r THEN "stored" ELSE req[q].at)
                             /\ req'[q].kind = req[q].kind /\ req'[q].ans = req[q].ans
  BY <1>1 DEF Writes, ConfigInv, Shape
<1>4. /\ DOMAIN hist' = {"asked", "edits", "faults", "dirty"} /\ hist'.asked = hist.asked
      /\ hist'.faults = hist.faults /\ hist'.dirty = (Busy # {})
  BY <1>1 DEF Writes, ConfigInv, Shape
<1>5. Shape'
  <2>1. hist.asked \in Nat /\ hist.faults \in Nat /\ (Busy # {}) \in BOOLEAN
    BY DEF ConfigInv, Shape
  <2> QED BY <1>8, <1>3, <1>4, <2>1 DEF ConfigInv, Shape
<1>6. Slots'
  BY <1>2, <1>3, <1>4 DEF ConfigInv, Slots
<1>7. Alone'
  <2> SUFFICES ASSUME Busy = {} PROVE Alone'
    BY <1>4 DEF Alone
  <2>1. \A q \in Requests : req[q].at \notin Underway
    BY DEF Busy, Underway
  <2>2. Busy' = {r}
    BY <1>3, <2>1 DEF Busy, Underway
  <2>3. \A q \in Requests : req'[q].at # "loaded"
    BY <1>3, <2>1 DEF Underway
  <2> QED BY <2>2, <2>3 DEF Alone
<1> QED BY <1>5, <1>6, <1>7 DEF ConfigInv

\* The rest of a handler that changes something.
LEMMA InnerSteps ==
  ASSUME ConfigInv, NEW r \in Requests,
         WriteEnv(r) \/ WriteEnvFails(r) \/ LoadConfig(r) \/ LoadFails(r) \/ StoreConfig(r)
  PROVE  ConfigInv'
<1> DEFINE fields == {"kind", "page", "at", "arg", "ans", "touched", "current"}
<1>0. /\ DOMAIN req = Requests /\ DOMAIN req[r] = fields /\ req[r].at \in Underway
      /\ r \in Busy
  BY DEF ConfigInv, Shape, WriteEnv, WriteEnvFails, LoadConfig, LoadFails, StoreConfig,
         Underway, Busy
<1>1. /\ DOMAIN req' = Requests /\ \A q \in Requests : DOMAIN req'[q] = fields
      /\ \A q \in Requests : q # r => req'[q] = req[q]
      /\ req'[r].kind = req[r].kind /\ req'[r].at # "off"
  BY <1>0 DEF ConfigInv, Shape, WriteEnv, WriteEnvFails, LoadConfig, LoadFails, StoreConfig,
              Goes
<1>2. /\ DOMAIN hist' = {"asked", "edits", "faults", "dirty"} /\ hist'.asked = hist.asked
      /\ hist'.faults \in Nat /\ hist'.dirty \in BOOLEAN
  <2>0. /\ DOMAIN hist = {"asked", "edits", "faults", "dirty"}
        /\ hist.asked \in Nat /\ hist.faults \in Nat /\ hist.dirty \in BOOLEAN
        /\ hist.faults + 1 \in Nat
    BY DEF ConfigInv, Shape
  <2>1. CASE WriteEnvFails(r)
    <3> DEFINE d == hist.dirty \/ req[r].kind = "save"
    <3>1. d \in BOOLEAN
      OBVIOUS
    <3>2. hist' = [hist EXCEPT !.faults = hist.faults + 1, !.dirty = d]
      BY <2>1 DEF WriteEnvFails
    <3> HIDE DEF d
    <3> QED BY <2>0, <3>1, <3>2
  <2>2. CASE LoadFails(r)
    BY <2>0, <2>2 DEF LoadFails
  <2>3. CASE UNCHANGED hist
    BY <2>0, <2>3
  <2> QED BY <2>1, <2>2, <2>3 DEF WriteEnv, LoadConfig, StoreConfig
<1>3. DOMAIN srv' = DOMAIN srv
  BY DEF WriteEnv, WriteEnvFails, LoadConfig, LoadFails, StoreConfig
<1>4. Shape'
  BY <1>1, <1>2, <1>3 DEF ConfigInv, Shape
<1>5. Slots'
  <2>1. ~(r > hist.asked) /\ req[r].kind \in Changing
    BY <1>0 DEF ConfigInv, Slots, Underway
  <2> QED BY <1>1, <1>2, <2>1 DEF ConfigInv, Slots
<1>6. Alone'
  <2> SUFFICES ASSUME ~hist'.dirty PROVE Alone'
    BY DEF Alone
  <2>1. CASE WriteEnv(r) \/ WriteEnvFails(r)
    <3>1. /\ ~hist.dirty /\ req'[r].at = "written"
          /\ srv'.db = srv.db /\ srv'.boot = srv.boot /\ srv'.bots = srv.bots
          /\ srv'.cfg = srv.cfg /\ srv'.pool = srv.pool
      <4>1. CASE WriteEnv(r)
        BY <1>0, <4>1 DEF WriteEnv, Goes, ConfigInv, Shape
      <4>2. CASE WriteEnvFails(r)
        <5>1. hist'.dirty = (hist.dirty \/ req[r].kind = "save")
          BY <4>2 DEF WriteEnvFails, ConfigInv, Shape
        <5>2. ~hist.dirty /\ req[r].kind # "save"
          BY <5>1
        <5> QED BY <1>0, <4>2, <5>2 DEF WriteEnvFails, Goes
      <4> QED BY <2>1, <4>1, <4>2
    <3>2. Busy' = Busy /\ Loaded' = Loaded
      BY <1>0, <1>1, <3>1 DEF Busy, Underway, Loaded, Effective
    <3> QED BY <1>0, <1>1, <3>1, <3>2 DEF ConfigInv, Alone
  <2>2. CASE LoadConfig(r)
    <3>1. /\ UNCHANGED <<srv, hist>> /\ req'[r].at = "loaded"
          /\ req'[r].ans = Loaded
      BY <1>0, <2>2 DEF LoadConfig, Reloads, ConfigInv, Slots, Changing
    <3>2. Busy' = Busy /\ Loaded' = Loaded
      BY <1>0, <1>1, <3>1 DEF Busy, Underway, Loaded, Effective
    <3> QED BY <1>0, <1>1, <3>1, <3>2 DEF ConfigInv, Alone
  <2>3. CASE LoadFails(r)
    BY <2>3 DEF LoadFails, ConfigInv, Shape
  <2>4. CASE StoreConfig(r)
    <3>1. ~hist.dirty /\ req[r].ans = Loaded
      BY <2>4 DEF StoreConfig, ConfigInv, Alone
    <3>2. /\ srv'.db = srv.db /\ srv'.boot = srv.boot /\ srv'.bots = srv.bots
          /\ srv'.cfg = Loaded.values /\ srv'.pool = Loaded.pool
          /\ req'[r].at = "answered"
      BY <1>0, <2>4, <3>1 DEF StoreConfig, Goes, ConfigInv, Shape
    <3>3. Busy' = {}
      BY <1>0, <1>1, <3>1, <3>2 DEF Busy, ConfigInv, Alone
    <3>4. IsCurrent'
      BY <3>2 DEF IsCurrent, Loaded, Effective
    <3>5. \A q \in Requests : req'[q].at # "loaded"
      BY <3>3 DEF Busy
    <3> QED BY <3>3, <3>4, <3>5 DEF Alone
  <2> QED BY <2>1, <2>2, <2>3, <2>4
<1> QED BY <1>4, <1>5, <1>6 DEF ConfigInv

\* A restart loads the configuration, and leaves no handler under way.
LEMMA RestartStep ==
  ASSUME ConfigInv, Restart
  PROVE  ConfigInv'
<1> DEFINE fields == {"kind", "page", "at", "arg", "ans", "touched", "current"}
<1>1. /\ DOMAIN req' = Requests /\ \A q \in Requests : DOMAIN req'[q] = fields
      /\ \A q \in Requests :
           req'[q].at = IF req[q].at \in {"off", "answered"} THEN req[q].at ELSE "failed"
  BY DEF Restart, ConfigInv, Shape
<1>2. /\ DOMAIN hist' = {"asked", "edits", "faults", "dirty"} /\ hist'.asked = hist.asked
      /\ hist'.faults = hist.faults + 1 /\ hist'.dirty = FALSE
  BY DEF Restart, ConfigInv, Shape
<1>3. /\ DOMAIN srv' = DOMAIN srv
      /\ srv'.db = srv.db /\ srv'.boot = srv.env /\ srv'.bots = srv.bots
      /\ srv'.cfg = Effective(srv.db, srv.env) /\ srv'.pool = Pool(srv.bots)
  BY DEF Restart, ConfigInv, Shape
<1>4. Shape'
  <2>1. hist.asked \in Nat /\ hist.faults + 1 \in Nat
    BY DEF ConfigInv, Shape
  <2> QED BY <1>1, <1>2, <1>3, <2>1 DEF ConfigInv, Shape
<1>5. \A q \in Requests : req'[q].at \notin Underway
  BY <1>1 DEF Underway
<1>6. Slots'
  BY <1>1, <1>2, <1>5 DEF ConfigInv, Slots
<1>7. IsCurrent'
  BY <1>3 DEF IsCurrent
<1>8. Alone'
  BY <1>5, <1>7 DEF Alone, Busy, Underway
<1> QED BY <1>4, <1>6, <1>8 DEF ConfigInv

LEMMA NextInv == ConfigInv /\ [Next]_vars => ConfigInv'
<1> SUFFICES ASSUME ConfigInv, [Next]_vars PROVE ConfigInv'
  OBVIOUS
<1>1. CASE Next
  BY <1>1, PageSteps, OuterSteps, WriteSteps, InnerSteps, RestartStep DEF Next, Handler
<1>2. CASE UNCHANGED vars
  BY <1>2 DEF vars, ConfigInv, Shape, Slots, Alone, Busy, IsCurrent, Loaded, Effective
<1> QED BY <1>1, <1>2

\* A handler of bots_settings.rs that has the server to itself leaves the live
\* configuration and the pool of bots as they are stored, whatever overlaps, failed
\* writes and restarts there were before.
THEOREM LoneHandlerIsCurrentHolds == Spec => []LoneHandlerIsCurrent
<1>1. ConfigInv => LoneHandlerIsCurrent
  BY DEF ConfigInv, Alone, LoneHandlerIsCurrent
<1> QED BY <1>1, InitInv, NextInv, PTL DEF Spec

-----------------------------------------------------------------------------
(* What the user did not touch: a save sends it all the same.               *)

E == Effective(srv.db, srv.boot)

\* The types the conversions rely on.
PageShape(pg) ==
  /\ DOMAIN pg = {"form", "touched", "current", "saving", "rows"}
  /\ DOMAIN pg.form = Keys /\ pg.current \in BOOLEAN
  /\ \A k \in Ints : pg.form[k].n \in Nat /\ pg.form[k].unit \in Nat

SrvTypes ==
  /\ DOMAIN srv.db = Keys
  /\ \A k \in Ints :
       /\ srv.cfg[k] \in Nat
       /\ srv.db[k] \in Nat \cup {Absent}
       /\ srv.env[k] \in Nat \cup {Absent} /\ srv.boot[k] \in Nat \cup {Absent}

ReqTypes(q) ==
  /\ q.current \in BOOLEAN
  /\ \A k \in Ints : q.ans.values[k] \in Nat
  /\ q.kind = "save" => /\ \A k \in Ints : q.arg[k] \in Nat
                        /\ q.at = "sent" => DOMAIN q.arg = Keys

Types == /\ SrvTypes
         /\ DOMAIN page = Pages /\ \A p \in Pages : PageShape(page[p])
         /\ \A r \in Requests : ReqTypes(req[r])

\* The save that has disabled a button is one of that page.
Button(p) ==
  page[p].saving # 0 =>
    /\ page[p].saving \in Requests /\ page[p].saving <= hist.asked
    /\ req[page[p].saving].kind = "save" /\ req[page[p].saving].page = p

\* The secret is as it is stored, unless the user changed it.
SecretKept(touched, values) == Secret \notin touched => values[Secret] = E[Secret]

\* What the save that disabled the button carries is on the page.
SaverFits(pg, s) ==
  /\ s.touched \subseteq pg.touched
  /\ s.at \in {"sent", "checked"} => s.current
  /\ s.at = "loaded" => SecretKept(pg.touched, s.ans.values)

\* A page that is current shows what is stored, and the only handler that can be
\* under way is that of its own save.
PageFits(p) ==
  page[p].current =>
    /\ \A k \in Keys \ page[p].touched : page[p].form[k] = Show(k, E[k])
    /\ SecretKept(page[p].touched, srv.cfg)
    /\ \A q \in Busy : q = page[p].saving
    /\ page[p].saving # 0 => SaverFits(page[p], req[page[p].saving])

\* A save that is current carries what is stored: of the secret its mask, which
\* the check recognises and takes out.
SaveFits(r) ==
  req[r].kind = "save" /\ req[r].at \in {"sent", "checked"} /\ req[r].current =>
    /\ Busy = {}
    /\ SecretKept(req[r].touched, srv.cfg)
    /\ \A k \in DOMAIN req[r].arg \ req[r].touched :
         req[r].arg[k] = IF k = Secret /\ req[r].at = "sent" THEN Mask(E[k]) ELSE E[k]

KeptInv == /\ Types /\ \A p \in Pages : Button(p) /\ PageFits(p)
           /\ \A r \in Requests : SaveFits(r)

-----------------------------------------------------------------------------
(* Number and unit.                                                        *)

LEMMA LeastOf ==
  ASSUME NEW T \in SUBSET Nat, T # {} PROVE \E x \in T : \A y \in T : x <= y
<1> DEFINE R == OpToRel(<, Nat)
<1>1. IsWellFoundedOn(R, Nat)
  BY NatLessThanWellFounded
<1>2. \A x, y \in Nat : y < x => <<y, x>> \in R
  BY DEF OpToRel
<1> HIDE DEF R
<1>3. PICK x \in T : \A y \in T : ~ (<<y, x>> \in R)
  BY <1>1, WFMin
<1>4. \A y \in T : x \in Nat /\ y \in Nat /\ ~ (y < x)
  BY <1>2, <1>3
<1>5. \A y \in T : x <= y
  BY <1>4
<1> QED BY <1>5

\* bestUnit finds a unit, and the value is a multiple of it.
LEMMA BestUnitDivides ==
  ASSUME NEW v \in Nat
  PROVE  BestUnit(v) \in Units /\ v % BestUnit(v) = 0
<1> DEFINE Fits(u) == u = 1 \/ (v >= u /\ v % u = 0)
           T == {n \in Nat : \E u \in Units : Fits(u) /\ n = v + 1 - u}
<1>1. ASSUME NEW u \in Units, Fits(u) PROVE v + 1 - u \in Nat
  <2>1. u \in Nat /\ (u = 1 \/ v >= u)
    BY <1>1
  <2> QED BY <2>1
<1>2. \A u \in Units : Fits(u) => v + 1 - u \in T
  BY <1>1
<1>3. T \in SUBSET Nat /\ T # {}
  BY <1>2
<1>4. PICK n \in T : \A m \in T : n <= m
  BY <1>3, LeastOf
<1>5. PICK u \in Units : Fits(u) /\ n = v + 1 - u
  BY <1>4
<1>6. \A x \in Units : v >= x /\ v % x = 0 => x <= u
  <2> SUFFICES ASSUME NEW x \in Units, v >= x, v % x = 0 PROVE x <= u
    OBVIOUS
  <2>1. v + 1 - x \in T
    BY <1>2
  <2>2. n <= v + 1 - x
    BY <1>4, <2>1
  <2> QED BY <1>5, <2>2
<1>7. /\ BestUnit(v) \in Units
      /\ BestUnit(v) = 1 \/ (v >= BestUnit(v) /\ v % BestUnit(v) = 0)
  BY <1>5, <1>6 DEF BestUnit
<1>8. v % 1 = 0
  OBVIOUS
<1> QED BY <1>7, <1>8

LEMMA DivideTimes ==
  ASSUME NEW v \in Nat, NEW u \in Nat \ {0}, v % u = 0
  PROVE  (v \div u) * u = v /\ v \div u \in Nat
  BY SMT

\* The field of a number comes back as the value it shows.
LEMMA RoundTrip ==
  ASSUME NEW k \in Ints, NEW v \in Nat
  PROVE  /\ Send(k, Show(k, v)) = v
         /\ Show(k, v).n \in Nat /\ Show(k, v).unit \in Nat
<1>1. BestUnit(v) \in Nat \ {0} /\ v % BestUnit(v) = 0
  BY BestUnitDivides
<1>2. (v \div BestUnit(v)) * BestUnit(v) = v /\ v \div BestUnit(v) \in Nat
  BY <1>1, DivideTimes
<1>3. k # Secret
  OBVIOUS
<1> QED BY <1>1, <1>2, <1>3 DEF Show, Send

-----------------------------------------------------------------------------
(* Every step keeps the invariant.                                         *)

LEMMA EffectiveInNat ==
  ASSUME NEW k \in Ints, NEW db, NEW boot,
         db[k] \in Nat \cup {Absent}, boot[k] \in Nat \cup {Absent}
  PROVE  Effective(db, boot)[k] \in Nat
<1>1. k \in Keys /\ k # Secret /\ Default \in Nat
  BY DEF Keys
<1>2. Effective(db, boot)[k] = IF db[k] # Absent THEN db[k]
                               ELSE IF boot[k] # Absent THEN boot[k] ELSE Default
  BY <1>1 DEF Effective, Defaults
<1> QED BY <1>1, <1>2

LEMMA KeptInit == Init => KeptInv
<1> SUFFICES ASSUME Init PROVE KeptInv
  OBVIOUS
<1>1. \A k \in Ints : k \in Keys /\ k # Secret /\ Default \in Nat
  BY DEF Keys
<1>2. \A k \in Ints : /\ Defaults[k] = Default /\ Nowhere[k] = Absent
                      /\ Show(k, Defaults[k]).n \in Nat /\ Show(k, Defaults[k]).unit \in Nat
  BY <1>1, RoundTrip DEF Defaults, Nowhere
<1>3. Types
  BY <1>1, <1>2 DEF Init, Types, SrvTypes, ReqTypes, PageShape, Off, Nowhere
<1>4. Busy = {} /\ \A r \in Requests : req[r].kind = "none"
  BY DEF Init, Busy, Off
<1>5. E = Defaults /\ srv.cfg = Defaults
  BY DEF Init, E, Effective, Nowhere, Defaults
<1>6. ASSUME NEW p \in Pages PROVE Button(p) /\ PageFits(p)
  BY <1>4, <1>5 DEF Init, Button, PageFits, SecretKept
<1> QED BY <1>3, <1>4, <1>6 DEF KeptInv, SaveFits

\* One request goes on, and writes nothing that a page shows.
LEMMA MoveKeeps ==
  ASSUME ConfigInv, KeptInv, NEW r \in Requests,
         UNCHANGED page, SrvTypes', hist'.asked = hist.asked,
         srv'.db = srv.db, srv'.boot = srv.boot, srv'.cfg = srv.cfg,
         \A q \in Requests : q # r => req'[q] = req[q],
         req'[r].kind = req[r].kind, req'[r].page = req[r].page,
         req'[r].touched = req[r].touched, req'[r].current = req[r].current,
         ReqTypes(req'[r]),
         req'[r].at \in Underway => req[r].at \in Underway,
         req'[r].at \in {"sent", "checked"} => req[r].at \in {"sent", "checked"} /\ SaveFits(r)',
         req'[r].at = "loaded" => req'[r].ans.values = E
  PROVE  KeptInv'
<1>1. E' = E
  BY DEF E, Effective
<1>2. Busy' \subseteq Busy
  BY DEF Busy, Underway
<1>3. Types'
  BY DEF KeptInv, Types
<1>4. ASSUME NEW p \in Pages PROVE Button(p)'
  BY DEF KeptInv, Button
<1>5. ASSUME NEW p \in Pages, page[p].current PROVE PageFits(p)'
  <2>1. PageFits(p) /\ Button(p)
    BY DEF KeptInv
  <2>2. SecretKept(page[p].touched, srv.cfg)'
    BY <1>1, <1>5, <2>1 DEF PageFits, SecretKept
  <2>3. page[p].saving # 0 => SaverFits(page[p], req[page[p].saving])'
    <3> SUFFICES ASSUME page[p].saving # 0
                 PROVE  SaverFits(page[p], req[page[p].saving])'
      OBVIOUS
    <3>1. SaverFits(page[p], req[page[p].saving]) /\ page[p].saving \in Requests
      BY <1>5, <2>1 DEF PageFits, Button
    <3>2. CASE page[p].saving = r
      BY <1>1, <3>1, <3>2 DEF SaverFits, SecretKept
    <3>3. CASE page[p].saving # r
      BY <1>1, <3>1, <3>3 DEF SaverFits, SecretKept
    <3> QED BY <3>2, <3>3
  <2> QED BY <1>1, <1>2, <1>5, <2>1, <2>2, <2>3 DEF PageFits
<1>6. ASSUME NEW p \in Pages PROVE PageFits(p)'
  BY <1>5 DEF PageFits
<1>7. ASSUME NEW q \in Requests PROVE SaveFits(q)'
  <2>1. CASE q = r
    BY <2>1 DEF SaveFits
  <2>2. CASE q # r
    BY <1>1, <1>2, <2>2 DEF KeptInv, SaveFits, SecretKept
  <2> QED BY <2>1, <2>2
<1> QED BY <1>3, <1>4, <1>6, <1>7 DEF KeptInv

\* A request leaves its page.
LEMMA Asked ==
  ASSUME ConfigInv, NEW q, Asks(q), q.at = "sent"
  PROVE  /\ hist.asked \in Nat /\ hist.asked + 1 \in Requests
         /\ hist'.asked = hist.asked + 1
         /\ \A r \in Requests : req'[r] = IF r = hist.asked + 1 THEN q ELSE req[r]
         /\ Busy' = Busy
<1>1. hist.asked + 1 \in Requests /\ req[hist.asked + 1].at = "off"
  BY FreeSlot DEF Asks
<1>2. \A r \in Requests : req'[r] = IF r = hist.asked + 1 THEN q ELSE req[r]
  BY DEF Asks, ConfigInv, Shape
<1>3. Busy' = Busy
  BY <1>1, <1>2 DEF Busy
<1> QED BY <1>1, <1>2, <1>3 DEF Asks, ConfigInv, Shape

LEMMA AskKeeps ==
  ASSUME ConfigInv, KeptInv, NEW q, Asks(q), UNCHANGED <<srv, page>>,
         q.at = "sent", q.kind # "save", ReqTypes(q)
  PROVE  KeptInv'
<1> DEFINE new == hist.asked + 1
<1>1. /\ hist.asked \in Nat /\ new \in Requests /\ hist'.asked = new
      /\ \A r \in Requests : req'[r] = IF r = new THEN q ELSE req[r]
      /\ Busy' = Busy
  BY Asked
<1>2. E' = E
  BY DEF E
<1>3. Types'
  BY <1>1 DEF KeptInv, Types, SrvTypes
<1>4. ASSUME NEW p \in Pages PROVE Button(p)' /\ PageFits(p)'
  <2>1. Button(p) /\ PageFits(p)
    BY DEF KeptInv
  <2>2. page[p].saving # 0 => /\ page[p].saving \in Requests /\ page[p].saving \in Nat
                              /\ page[p].saving <= hist.asked
    BY <2>1 DEF Button, Requests
  <2>3. page[p].saving # 0 => req'[page[p].saving] = req[page[p].saving]
    BY <1>1, <2>2
  <2>4. Button(p)'
    BY <1>1, <2>1, <2>2, <2>3 DEF Button
  <2> QED BY <1>1, <1>2, <2>1, <2>3, <2>4 DEF PageFits, SaverFits, SecretKept
<1>5. ASSUME NEW r \in Requests PROVE SaveFits(r)'
  <2>1. CASE r = new
    BY <1>1, <2>1 DEF SaveFits
  <2>2. CASE r # new
    BY <1>1, <1>2, <2>2 DEF KeptInv, SaveFits, SecretKept
  <2> QED BY <2>1, <2>2
<1> QED BY <1>3, <1>4, <1>5 DEF KeptInv

\* What Load, Reset and the buttons of the bots send.
LEMMA AskFits ==
  ASSUME NEW p, NEW kind, NEW a, kind # "save"
  PROVE  ReqTypes(Ask(p, kind, a)) /\ Ask(p, kind, a).at = "sent" /\ Ask(p, kind, a).kind = kind
<1>1. \A k \in Ints : Defaults[k] \in Nat
  BY DEF Defaults, Keys
<1> QED BY <1>1 DEF ReqTypes, Ask, Off

LEMMA SaveKeeps ==
  ASSUME ConfigInv, KeptInv, NEW p \in Pages, Save(p)
  PROVE  KeptInv'
<1> DEFINE new == hist.asked + 1
           a == [k \in Keys |-> Send(k, page[p].form[k])]
           q == [Ask(p, "save", a) EXCEPT !.touched = page[p].touched,
                                          !.current = page[p].current]
<1>1. PageShape(page[p]) /\ PageFits(p) /\ page[p].saving = 0
  BY DEF KeptInv, Types, Save
<1>2. /\ q.at = "sent" /\ q.kind = "save" /\ q.page = p /\ q.arg = a
      /\ q.touched = page[p].touched /\ q.current = page[p].current
      /\ q.ans = Off.ans
  BY DEF Ask, Off
<1>3. ReqTypes(q)
  <2>1. \A k \in Ints : k \in Keys /\ k # Secret /\ Default \in Nat
    BY DEF Keys
  <2>2. ASSUME NEW k \in Ints PROVE a[k] \in Nat /\ Defaults[k] \in Nat
    <3>1. a[k] = page[p].form[k].n * page[p].form[k].unit
      BY <2>1 DEF Send
    <3>2. page[p].form[k].n \in Nat /\ page[p].form[k].unit \in Nat
      BY <1>1 DEF PageShape
    <3>3. \A m, n \in Nat : m * n \in Nat
      OBVIOUS
    <3> QED BY <2>1, <3>1, <3>2, <3>3 DEF Defaults
  <2>3. \A k \in Ints : Off.ans.values[k] = Defaults[k]
    BY DEF Off
  <2> QED BY <1>1, <1>2, <2>2, <2>3 DEF ReqTypes, PageShape
<1>4. /\ Asks(q) /\ UNCHANGED srv /\ page' = [page EXCEPT ![p].saving = new]
  BY DEF Save
<1>5. DOMAIN a = Keys /\ \A k \in Keys : a[k] = Send(k, page[p].form[k])
  OBVIOUS
<1> HIDE DEF q, a
<1>6. /\ hist.asked \in Nat /\ new \in Requests /\ hist'.asked = new
      /\ \A r \in Requests : req'[r] = IF r = new THEN q ELSE req[r]
      /\ Busy' = Busy
  BY <1>2, <1>4, Asked
<1>7. E' = E
  BY <1>4 DEF E
<1>8. /\ DOMAIN page' = Pages
      /\ \A o \in Pages : o # p => page'[o] = page[o]
      /\ page'[p] = [page[p] EXCEPT !.saving = new]
  BY <1>4 DEF KeptInv, Types
<1>9. /\ PageShape(page'[p]) /\ page'[p].saving = new /\ page'[p].touched = page[p].touched
      /\ page'[p].current = page[p].current /\ page'[p].form = page[p].form
  BY <1>1, <1>8 DEF PageShape
<1>10. Types'
  BY <1>3, <1>4, <1>6, <1>8, <1>9 DEF KeptInv, Types, SrvTypes
<1>11. page[p].current => Busy = {}
  <2>1. 0 \notin Busy
    BY DEF Busy, Requests
  <2> QED BY <1>1, <2>1 DEF PageFits
<1>12. Button(p)' /\ PageFits(p)'
  <2>1. Button(p)'
    BY <1>2, <1>6, <1>9 DEF Button
  <2>2. page[p].current => SaverFits(page[p], req[page[p].saving])'
    BY <1>2, <1>6, <1>9 DEF SaverFits, SecretKept
  <2> QED BY <1>1, <1>4, <1>6, <1>7, <1>9, <1>11, <2>1, <2>2 DEF PageFits, SecretKept
<1>13. ASSUME NEW o \in Pages, o # p PROVE Button(o)' /\ PageFits(o)'
  <2>1. Button(o) /\ PageFits(o)
    BY DEF KeptInv
  <2>2. page[o].saving # 0 => /\ page[o].saving \in Requests /\ page[o].saving \in Nat
                              /\ page[o].saving <= hist.asked
    BY <2>1 DEF Button, Requests
  <2>3. page[o].saving # 0 => req'[page[o].saving] = req[page[o].saving]
    BY <1>6, <2>2
  <2>4. Button(o)'
    BY <1>6, <1>8, <1>13, <2>1, <2>2, <2>3 DEF Button
  <2> QED BY <1>4, <1>6, <1>7, <1>8, <1>13, <2>1, <2>3, <2>4 DEF PageFits, SaverFits, SecretKept
<1>14. ASSUME NEW r \in Requests, r = new PROVE SaveFits(r)'
  <2> SUFFICES ASSUME page[p].current PROVE SaveFits(r)'
    BY <1>2, <1>6, <1>14 DEF SaveFits
  <2>1. ASSUME NEW k \in Keys \ page[p].touched
        PROVE  a[k] = IF k = Secret THEN Mask(E[k]) ELSE E[k]
    <3>1. a[k] = Send(k, Show(k, E[k]))
      BY <1>1, <1>5 DEF PageFits
    <3>2. CASE k = Secret
      BY <3>1, <3>2 DEF Send, Show
    <3>3. CASE k # Secret
      <4>1. k \in Ints
        BY <3>3 DEF Keys
      <4>2. E[k] \in Nat
        BY <4>1, EffectiveInNat DEF KeptInv, Types, SrvTypes, E
      <4> QED BY <3>1, <3>3, <4>1, <4>2, RoundTrip
    <3> QED BY <3>2, <3>3
  <2>2. Busy' = {}
    BY <1>6, <1>11
  <2>3. SecretKept(page[p].touched, srv.cfg)
    BY <1>1 DEF PageFits
  <2> QED BY <1>2, <1>14, <1>4, <1>5, <1>6, <1>7, <2>1, <2>2, <2>3 DEF SaveFits, SecretKept
<1>15. ASSUME NEW r \in Requests, r # new PROVE SaveFits(r)'
  BY <1>4, <1>6, <1>7, <1>15 DEF KeptInv, SaveFits, SecretKept
<1> QED BY <1>10, <1>12, <1>13, <1>14, <1>15 DEF KeptInv

\* A change of a field is one the page remembers.
LEMMA EditKeeps ==
  ASSUME ConfigInv, KeptInv, NEW p \in Pages, NEW k \in Keys, Edit(p, k)
  PROVE  KeptInv'
<1>1. PICK x \in IF k = Secret THEN {Text(w) : w \in Words \cup {NoWord}}
                 ELSE [n : Numbers, unit : Units] :
        page' = [page EXCEPT ![p].form[k] = x, ![p].touched = @ \cup {k}]
  BY DEF Edit
<1>2. UNCHANGED <<srv, req>> /\ hist'.asked = hist.asked
  BY DEF Edit, ConfigInv, Shape
<1>3. /\ DOMAIN page' = Pages
      /\ \A o \in Pages : o # p => page'[o] = page[o]
  BY <1>1 DEF KeptInv, Types
<1>4. PageShape(page[p])
  BY DEF KeptInv, Types
<1>5. /\ DOMAIN page'[p] = {"form", "touched", "current", "saving", "rows"}
      /\ page'[p].form = [page[p].form EXCEPT ![k] = x]
      /\ page'[p].touched = page[p].touched \cup {k}
      /\ page'[p].current = page[p].current /\ page'[p].saving = page[p].saving
  BY <1>1, <1>4 DEF PageShape, KeptInv, Types
<1>6. PageShape(page'[p])
  <2>1. k # Secret => x.n \in Nat /\ x.unit \in Nat
    BY <1>1
  <2>2. DOMAIN page'[p].form = Keys
        /\ \A o \in Keys : page'[p].form[o] = IF o = k THEN x ELSE page[p].form[o]
    BY <1>4, <1>5 DEF PageShape
  <2>3. \A i \in Ints : i \in Keys /\ i # Secret
    BY DEF Keys
  <2>4. \A i \in Ints : page'[p].form[i].n \in Nat /\ page'[p].form[i].unit \in Nat
    BY <1>4, <2>1, <2>2, <2>3 DEF PageShape
  <2> QED BY <1>4, <1>5, <2>2, <2>4 DEF PageShape
<1>7. E' = E /\ Busy' = Busy
  BY <1>2 DEF E, Busy
<1>8. Types'
  BY <1>2, <1>3, <1>6 DEF KeptInv, Types, SrvTypes
<1>9. ASSUME NEW o \in Pages PROVE Button(o)'
  BY <1>2, <1>3, <1>5 DEF KeptInv, Button
<1>10. ASSUME NEW o \in Pages, o # p PROVE PageFits(o)'
  BY <1>2, <1>3, <1>7, <1>10 DEF KeptInv, PageFits, SaverFits, SecretKept
<1>11. PageFits(p)'
  <2> SUFFICES ASSUME page[p].current PROVE PageFits(p)'
    BY <1>5 DEF PageFits
  <2>1. PageFits(p)
    BY DEF KeptInv
  <2>2. \A i \in Keys \ page'[p].touched :
          i \in Keys \ page[p].touched /\ page'[p].form[i] = page[p].form[i]
    BY <1>4, <1>5 DEF PageShape
  <2>3. page[p].saving # 0 =>
          SaverFits(page[p], req[page[p].saving])'
    BY <1>2, <1>5, <1>7, <2>1 DEF PageFits, SaverFits, SecretKept
  <2> QED BY <1>2, <1>5, <1>7, <2>1, <2>2, <2>3 DEF PageFits, SecretKept
<1>12. \A r \in Requests : SaveFits(r)'
  BY <1>2, <1>7 DEF KeptInv, SaveFits, SecretKept
<1> QED BY <1>8, <1>9, <1>10, <1>11, <1>12 DEF KeptInv

\* The steps of handlers that move one request on.
LEMMA HandlerKeeps ==
  ASSUME ConfigInv, KeptInv, NEW r \in Requests,
         \/ Get(r) \/ Refuse(r) \/ Check(r) \/ Rejected(r)
         \/ WriteEnv(r) \/ WriteEnvFails(r) \/ LoadConfig(r) \/ LoadFails(r)
  PROVE  KeptInv'
<1> DEFINE fields == {"kind", "page", "at", "arg", "ans", "touched", "current"}
<1>0. /\ DOMAIN req = Requests /\ DOMAIN req[r] = fields
      /\ DOMAIN srv = {"db", "env", "boot", "cfg", "bots", "pool", "next"}
      /\ SrvTypes /\ ReqTypes(req[r]) /\ SaveFits(r)
  BY DEF ConfigInv, Shape, KeptInv, Types
<1>1. \A k \in Ints : E[k] \in Nat /\ Live.values[k] \in Nat
  BY <1>0, EffectiveInNat DEF SrvTypes, E, Live
<1>2. CASE Refuse(r) \/ Rejected(r) \/ WriteEnvFails(r) \/ LoadFails(r)
  <2>1. /\ UNCHANGED <<srv, page>> /\ hist'.asked = hist.asked
        /\ \E state \in {"failed", "written"} : Goes(r, state)
        /\ WriteEnvFails(r) \/ Goes(r, "failed")
    BY <1>2 DEF Refuse, Rejected, WriteEnvFails, LoadFails, ConfigInv, Shape
  <2>2. /\ \A q \in Requests : q # r => req'[q] = req[q]
        /\ req'[r].kind = req[r].kind /\ req'[r].page = req[r].page
        /\ req'[r].touched = req[r].touched /\ req'[r].current = req[r].current
        /\ req'[r].arg = req[r].arg /\ req'[r].ans = req[r].ans
        /\ req'[r].at \in {"failed", "written"}
        /\ WriteEnvFails(r) \/ req'[r].at = "failed"
    BY <1>0, <2>1 DEF Goes
  <2>3. WriteEnvFails(r) => req[r].at \in Underway
    BY DEF WriteEnvFails, Underway
  <2> QED BY <1>0, <2>1, <2>2, <2>3, MoveKeeps DEF ReqTypes, SrvTypes, Underway
<1>3. CASE Get(r)
  <2>1. /\ UNCHANGED <<srv, page, hist>>
        /\ req' = [req EXCEPT ![r].at = "answered", ![r].ans = Live]
    BY <1>3 DEF Get
  <2>2. /\ \A q \in Requests : q # r => req'[q] = req[q]
        /\ req'[r].kind = req[r].kind /\ req'[r].page = req[r].page
        /\ req'[r].touched = req[r].touched /\ req'[r].current = req[r].current
        /\ req'[r].arg = req[r].arg /\ req'[r].ans = Live /\ req'[r].at = "answered"
    BY <1>0, <2>1
  <2> QED BY <1>0, <1>1, <2>1, <2>2, MoveKeeps DEF ReqTypes, SrvTypes, Underway
<1>4. CASE Check(r)
  <2> DEFINE keeps == IF IsUnchangedMask(req[r].arg[Secret]) THEN Ints ELSE Keys
             arg == [k \in keeps |-> req[r].arg[k]]
  <2>1. /\ UNCHANGED <<srv, page, hist>> /\ req[r].kind = "save" /\ req[r].at = "sent"
        /\ req' = [req EXCEPT ![r].at = "checked", ![r].arg = arg]
    BY <1>4 DEF Check
  <2>2. /\ \A q \in Requests : q # r => req'[q] = req[q]
        /\ req'[r].kind = req[r].kind /\ req'[r].page = req[r].page
        /\ req'[r].touched = req[r].touched /\ req'[r].current = req[r].current
        /\ req'[r].arg = arg /\ req'[r].ans = req[r].ans /\ req'[r].at = "checked"
    BY <1>0, <2>1
  <2>3. /\ Ints \subseteq keeps /\ keeps \subseteq Keys
        /\ Secret \in keeps => ~IsUnchangedMask(req[r].arg[Secret])
        /\ \A k \in Ints : k # Secret
    BY DEF Keys
  <2>4. DOMAIN arg = keeps /\ \A k \in keeps : arg[k] = req[r].arg[k]
    OBVIOUS
  <2> HIDE DEF keeps, arg
  <2>5. ReqTypes(req'[r])
    BY <1>0, <2>1, <2>2, <2>3, <2>4 DEF ReqTypes
  <2>6. SaveFits(r)'
    <3> SUFFICES ASSUME req[r].current PROVE SaveFits(r)'
      BY <2>2 DEF SaveFits
    <3>1. /\ Busy = {} /\ SecretKept(req[r].touched, srv.cfg)
          /\ \A k \in DOMAIN req[r].arg \ req[r].touched :
               req[r].arg[k] = IF k = Secret THEN Mask(E[k]) ELSE E[k]
      BY <1>0, <2>1 DEF SaveFits
    <3>2. Busy' = {}
      BY <2>2, <3>1 DEF Busy
    <3>3. E' = E
      BY <2>1 DEF E
    <3>4. DOMAIN req[r].arg = Keys
      BY <1>0, <2>1 DEF ReqTypes
    <3>5. ASSUME NEW k \in keeps \ req[r].touched PROVE arg[k] = E[k]
      <4>1. CASE k # Secret
        BY <2>3, <2>4, <3>1, <3>4, <4>1
      <4>2. CASE k = Secret
        <5>1. srv.cfg[Secret] = E[Secret] /\ req[r].arg[Secret] = Mask(E[Secret])
          BY <2>3, <3>1, <3>4, <4>2 DEF SecretKept
        <5>2. ~IsUnchangedMask(req[r].arg[Secret])
          BY <2>3, <4>2
        <5>3. E[Secret] = NoText
          BY <5>1, <5>2 DEF IsUnchangedMask
        <5> QED BY <2>4, <4>2, <5>1, <5>3 DEF Mask
      <4> QED BY <4>1, <4>2
    <3>6. SecretKept(req[r].touched, srv.cfg)'
      BY <2>1, <2>2, <3>1, <3>3 DEF SecretKept
    <3>7. \A k \in DOMAIN req'[r].arg \ req'[r].touched :
            req'[r].arg[k] = IF k = Secret /\ req'[r].at = "sent" THEN Mask(E'[k]) ELSE E'[k]
      BY <2>2, <2>4, <3>3, <3>5
    <3> QED BY <3>2, <3>6, <3>7 DEF SaveFits
  <2> QED BY <1>0, <2>1, <2>2, <2>5, <2>6, MoveKeeps DEF SrvTypes, Underway
<1>5. CASE WriteEnv(r)
  <2>1. /\ UNCHANGED <<page, hist>> /\ Goes(r, "written") /\ req[r].at = "stored"
        /\ srv' = [srv EXCEPT !.env = [k \in Keys |->
             IF req[r].kind = "save" /\ k \in DOMAIN req[r].arg THEN req[r].arg[k]
             ELSE IF req[r].kind = "reset" /\ k = req[r].arg THEN Effective(Nowhere, srv.boot)[k]
             ELSE srv.env[k]]]
    BY <1>5 DEF WriteEnv
  <2>2. /\ \A q \in Requests : q # r => req'[q] = req[q]
        /\ req'[r].kind = req[r].kind /\ req'[r].page = req[r].page
        /\ req'[r].touched = req[r].touched /\ req'[r].current = req[r].current
        /\ req'[r].arg = req[r].arg /\ req'[r].ans = req[r].ans /\ req'[r].at = "written"
    BY <1>0, <2>1 DEF Goes
  <2>3. /\ srv'.db = srv.db /\ srv'.boot = srv.boot /\ srv'.cfg = srv.cfg
        /\ \A k \in Keys : srv'.env[k] =
             IF req[r].kind = "save" /\ k \in DOMAIN req[r].arg THEN req[r].arg[k]
             ELSE IF req[r].kind = "reset" /\ k = req[r].arg THEN Effective(Nowhere, srv.boot)[k]
             ELSE srv.env[k]
    BY <1>0, <2>1
  <2>4. ASSUME NEW k \in Ints PROVE srv'.env[k] \in Nat \cup {Absent}
    <3>1. k \in Keys /\ Nowhere[k] = Absent
      BY DEF Keys, Nowhere
    <3>2. Effective(Nowhere, srv.boot)[k] \in Nat
      BY <1>0, <3>1, EffectiveInNat DEF SrvTypes
    <3> QED BY <1>0, <2>3, <3>1, <3>2 DEF SrvTypes, ReqTypes
  <2>5. SrvTypes'
    BY <1>0, <2>3, <2>4 DEF SrvTypes
  <2> QED BY <1>0, <2>1, <2>2, <2>3, <2>5, MoveKeeps DEF ReqTypes, Underway
<1>6. CASE LoadConfig(r)
  <2>1. /\ UNCHANGED <<srv, page, hist>> /\ req[r].at \in Underway
        /\ req' = [req EXCEPT ![r].at = "loaded",
                              ![r].ans = IF Reloads(r) THEN Loaded ELSE Live]
    BY <1>6 DEF LoadConfig, Underway
  <2>2. Reloads(r)
    BY <2>1 DEF Reloads, ConfigInv, Slots, Changing
  <2>3. /\ \A q \in Requests : q # r => req'[q] = req[q]
        /\ req'[r].kind = req[r].kind /\ req'[r].page = req[r].page
        /\ req'[r].touched = req[r].touched /\ req'[r].current = req[r].current
        /\ req'[r].arg = req[r].arg /\ req'[r].ans = Loaded /\ req'[r].at = "loaded"
    BY <1>0, <2>1, <2>2
  <2>4. Loaded.values = E
    BY DEF Loaded, E
  <2> QED BY <1>0, <1>1, <2>1, <2>3, <2>4, MoveKeeps DEF ReqTypes, SrvTypes, Underway
<1> QED BY <1>2, <1>3, <1>4, <1>5, <1>6

\* A page that was rendered anew; and one whose answer only released the button.
Anew(pg) == /\ PageShape(pg) /\ pg.saving = 0
            /\ pg.current => /\ Busy = {} /\ srv.cfg = E
                             /\ \A k \in Keys : pg.form[k] = Show(k, E[k])

Freed(pg, old, r) ==
  /\ PageShape(pg) /\ pg.form = old.form /\ pg.touched = old.touched
  /\ pg.current = old.current
  /\ pg.saving = IF old.saving = r THEN 0 ELSE old.saving

\* A request is over, and perhaps a list is asked for.
LEMMA OverKeeps ==
  ASSUME ConfigInv, KeptInv, NEW r \in Requests, req[r].at \in {"answered", "failed"},
         UNCHANGED srv, hist.asked <= hist'.asked, hist'.asked \in Nat,
         \A q \in Requests : q # r /\ q <= hist.asked => req'[q] = req[q],
         \A q \in Requests : q = r \/ q > hist.asked =>
           /\ req'[q].at \in {"off", "sent"} /\ ReqTypes(req'[q])
           /\ req'[q].at = "sent" => req'[q].kind # "save",
         DOMAIN page' = Pages,
         \A p \in Pages : Anew(page'[p]) \/ Freed(page'[p], page[p], r)
  PROVE  KeptInv'
<1>0. hist.asked \in Nat /\ \A q \in Requests : q \in Nat
  BY DEF ConfigInv, Shape, Requests
<1>1. E' = E
  BY DEF E
<1>2. Busy' = Busy
  BY <1>0 DEF Busy, ConfigInv, Slots
<1>3. Types'
  <2>1. \A p \in Pages : PageShape(page'[p])
    BY DEF Anew, Freed
  <2>2. \A q \in Requests : ReqTypes(req'[q])
    BY <1>0 DEF KeptInv, Types
  <2> QED BY <2>1, <2>2 DEF KeptInv, Types, SrvTypes
<1>4. ASSUME NEW p \in Pages PROVE Button(p)' /\ PageFits(p)'
  <2>1. CASE Anew(page'[p])
    BY <1>1, <1>2, <2>1 DEF Anew, Button, PageFits, SecretKept
  <2>2. CASE Freed(page'[p], page[p], r)
    <3>1. Button(p) /\ PageFits(p)
      BY DEF KeptInv
    <3>2. page'[p].saving # 0 => /\ page'[p].saving = page[p].saving
                                 /\ req'[page[p].saving] = req[page[p].saving]
      BY <2>2, <3>1 DEF Freed, Button
    <3>3. Button(p)'
      BY <1>0, <3>1, <3>2 DEF Button
    <3> SUFFICES ASSUME page[p].current PROVE PageFits(p)'
      BY <2>2, <3>3 DEF PageFits, Freed
    <3>4. r \notin Busy
      BY DEF Busy
    <3>5. \A q \in Busy' : q = page'[p].saving
      BY <1>2, <2>2, <3>1, <3>4 DEF PageFits, Freed
    <3>6. page'[p].saving # 0 => SaverFits(page[p], req[page[p].saving])'
      BY <1>1, <2>2, <3>1, <3>2 DEF PageFits, SaverFits, SecretKept, Freed
    <3>7. SecretKept(page[p].touched, srv.cfg)'
          /\ \A k \in Keys \ page'[p].touched : page'[p].form[k] = Show(k, E'[k])
      BY <1>1, <2>2, <3>1 DEF PageFits, SecretKept, Freed
    <3> QED BY <3>3, <3>5, <3>6, <3>7 DEF PageFits
  <2> QED BY <2>1, <2>2
<1>5. ASSUME NEW q \in Requests PROVE SaveFits(q)'
  <2>1. CASE q = r \/ q > hist.asked
    BY <2>1 DEF SaveFits
  <2>2. CASE q # r /\ q <= hist.asked
    <3>1. req'[q] = req[q] /\ SaveFits(q)
      BY <2>2 DEF KeptInv
    <3> QED BY <1>1, <1>2, <3>1 DEF SaveFits, SecretKept
  <2> QED BY <1>0, <2>1, <2>2
<1> QED BY <1>3, <1>4, <1>5 DEF KeptInv

LEMMA OffFits == ReqTypes(Off) /\ Off.at = "off" /\ Off.kind = "none"
<1>1. \A k \in Ints : Defaults[k] \in Nat
  BY DEF Defaults, Keys
<1> QED BY <1>1 DEF ReqTypes, Off

\* A request is over, and no other asked for.
LEMMA IsOver ==
  ASSUME ConfigInv, KeptInv, NEW r \in Requests, req[r].at \in {"answered", "failed"},
         UNCHANGED <<srv, hist>>, req' = [req EXCEPT ![r] = Off], DOMAIN page' = Pages,
         \A p \in Pages : Anew(page'[p]) \/ Freed(page'[p], page[p], r)
  PROVE  KeptInv'
<1>1. hist.asked \in Nat /\ DOMAIN req = Requests
  BY DEF ConfigInv, Shape
<1>2. \A q \in Requests : q > hist.asked => req[q].at = "off" /\ ReqTypes(req[q])
  BY DEF ConfigInv, Slots, KeptInv, Types
<1>3. \A q \in Requests : req'[q] = IF q = r THEN Off ELSE req[q]
  BY <1>1
<1>4. /\ \A q \in Requests : q # r /\ q <= hist.asked => req'[q] = req[q]
      /\ \A q \in Requests : q = r \/ q > hist.asked =>
           /\ req'[q].at \in {"off", "sent"} /\ ReqTypes(req'[q])
           /\ req'[q].at = "sent" => req'[q].kind # "save"
  BY <1>2, <1>3, OffFits
<1>5. hist.asked <= hist'.asked /\ hist'.asked \in Nat
  BY <1>1
<1> QED BY <1>4, <1>5, OverKeeps

LEMMA FailedKeeps ==
  ASSUME ConfigInv, KeptInv, NEW r \in Requests, Failed(r)
  PROVE  KeptInv'
<1> DEFINE o == req[r].page
<1>1. /\ req[r].at = "failed" /\ UNCHANGED <<srv, hist>>
      /\ req' = [req EXCEPT ![r] = Off]
      /\ page' = [page EXCEPT ![o].saving = Released(o, r)]
  BY DEF Failed
<1>4. DOMAIN page' = Pages
  BY <1>1 DEF KeptInv, Types
<1>5. ASSUME NEW p \in Pages PROVE Freed(page'[p], page[p], r)
  <2>1. PageShape(page[p]) /\ Button(p)
    BY DEF KeptInv, Types
  <2>2. CASE p = o
    <3>1. page'[p] = [page[p] EXCEPT !.saving = Released(p, r)]
      BY <1>1, <2>2 DEF KeptInv, Types
    <3> QED BY <2>1, <3>1 DEF Freed, PageShape, Released
  <2>3. CASE p # o
    <3>1. page'[p] = page[p]
      BY <1>1, <2>3 DEF KeptInv, Types
    <3>2. page[p].saving # r
      BY <2>1, <2>3 DEF Button, Requests
    <3> QED BY <2>1, <3>1, <3>2 DEF Freed
  <2> QED BY <2>2, <2>3
<1> QED BY <1>1, <1>4, <1>5, IsOver

\* A rendered page shows what the answer says, in fields of the right types.
LEMMA RenderedFits ==
  ASSUME ConfigInv, KeptInv, NEW p \in Pages, NEW a, NEW b \in BOOLEAN, NEW rows,
         \A k \in Ints : a.values[k] \in Nat,
         b => Busy = {} /\ srv.cfg = E /\ \A k \in Keys : a.values[k] = E[k]
  PROVE  /\ Anew(Rendered(page[p], a, b))
         /\ Anew([Rendered(page[p], a, b) EXCEPT !.rows = rows])
<1> DEFINE pg == Rendered(page[p], a, b)
<1>1. PageShape(page[p])
  BY DEF KeptInv, Types
<1>2. /\ DOMAIN pg = {"form", "touched", "current", "saving", "rows"}
      /\ pg.form = [k \in Keys |-> Show(k, a.values[k])]
      /\ pg.current = b /\ pg.saving = 0
  BY <1>1 DEF Rendered, PageShape
<1>3. DOMAIN pg.form = Keys /\ \A k \in Keys : pg.form[k] = Show(k, a.values[k])
  BY <1>2
<1>4. \A k \in Ints : k \in Keys /\ pg.form[k].n \in Nat /\ pg.form[k].unit \in Nat
  BY <1>3, RoundTrip DEF Keys
<1> DEFINE pr == [pg EXCEPT !.rows = rows]
<1> HIDE DEF pg
<1>5. /\ DOMAIN pr = DOMAIN pg /\ pr.form = pg.form /\ pr.current = pg.current
      /\ pr.saving = pg.saving
  BY <1>2
<1> HIDE DEF pr
<1>6. PageShape(pg) /\ PageShape(pr)
  BY <1>2, <1>3, <1>4, <1>5 DEF PageShape
<1>7. pg.current => /\ Busy = {} /\ srv.cfg = E
                    /\ \A k \in Keys : pg.form[k] = Show(k, E[k])
  BY <1>2, <1>3
<1>8. Anew(pg) /\ Anew(pr)
  BY <1>2, <1>5, <1>6, <1>7 DEF Anew
<1> QED BY <1>8 DEF pg, pr

LEMMA AnswerKeeps ==
  ASSUME ConfigInv, KeptInv, NEW r \in Requests, Answer(r)
  PROVE  KeptInv'
<1> DEFINE o == req[r].page
           a == req[r].ans
           over == [req EXCEPT ![r] = Off]
           current == a = Loaded /\ a = Live
                      /\ \A q \in Requests : req[q].at \notin {"stored", "written", "loaded"}
<1>1. req[r].at = "answered" /\ UNCHANGED srv
  BY DEF Answer
<1>2. hist.asked \in Nat /\ DOMAIN req = Requests /\ r <= hist.asked
  <2>1. hist.asked \in Nat /\ DOMAIN req = Requests /\ r \in Nat
    BY DEF ConfigInv, Shape, Requests
  <2>2. ~ (r > hist.asked)
    BY <1>1 DEF ConfigInv, Slots
  <2> QED BY <2>1, <2>2
<1>3. \A q \in Requests : over[q] = IF q = r THEN Off ELSE req[q]
  BY <1>2
<1>4. \A q \in Requests : q > hist.asked => req[q].at = "off" /\ ReqTypes(req[q])
  BY DEF ConfigInv, Slots, KeptInv, Types
<1>5. DOMAIN page = Pages /\ \A p \in Pages : PageShape(page[p]) /\ Button(p)
  BY DEF KeptInv, Types
<1>6. ASSUME NEW p \in Pages, page'[p] = page[p], p # o \/ req[r].kind # "save"
      PROVE  Freed(page'[p], page[p], r)
  <2>1. page[p].saving # r
    BY <1>5, <1>6 DEF Button, Requests
  <2> QED BY <1>5, <1>6, <2>1 DEF Freed
<1>7. CASE /\ req[r].kind \in {"load", "reset"}
           /\ page' = [page EXCEPT ![o] = Rendered(@, a, current),
                                   ![o].rows = IF req[r].kind = "load" THEN a.pool ELSE @]
           /\ req' = over /\ UNCHANGED hist
  <2>1. /\ \A k \in Ints : a.values[k] \in Nat
        /\ current \in BOOLEAN
        /\ current => Busy = {} /\ srv.cfg = E /\ \A k \in Keys : a.values[k] = E[k]
    BY DEF KeptInv, Types, ReqTypes, Busy, Loaded, Live, E
  <2>2. ASSUME NEW p \in Pages, p = o PROVE Anew(page'[p])
    <3> DEFINE b == current
    <3> HIDE DEF b
    <3>1. PICK rows : page'[p] = [Rendered(page[p], a, b) EXCEPT !.rows = rows]
      BY <1>5, <1>7, <2>2 DEF b
    <3>2. /\ \A k \in Ints : a.values[k] \in Nat
          /\ b \in BOOLEAN
          /\ b => Busy = {} /\ srv.cfg = E /\ \A k \in Keys : a.values[k] = E[k]
      BY <2>1 DEF b
    <3> HIDE DEF a
    <3>3. Anew([Rendered(page[p], a, b) EXCEPT !.rows = rows])
      BY <3>2, RenderedFits
    <3> QED BY <3>1, <3>3
  <2>3. ASSUME NEW p \in Pages, p # o PROVE Freed(page'[p], page[p], r)
    BY <1>5, <1>6, <1>7, <2>3
  <2>4. DOMAIN page' = Pages
    BY <1>5, <1>7
  <2> HIDE DEF over, current
  <2>5. \A p \in Pages : Anew(page'[p]) \/ Freed(page'[p], page[p], r)
    BY <2>2, <2>3
  <2>6. UNCHANGED <<srv, hist>> /\ req' = [req EXCEPT ![r] = Off]
        /\ req[r].at \in {"answered", "failed"}
    BY <1>1, <1>7 DEF over
  <2> QED BY ONLY ConfigInv, KeptInv, r \in Requests, <2>4, <2>5, <2>6, IsOver
<1>8. CASE /\ req[r].kind = "list"
           /\ page' = [page EXCEPT ![o].rows = a.pool]
           /\ req' = over /\ UNCHANGED hist
  <2>1. ASSUME NEW p \in Pages PROVE Freed(page'[p], page[p], r)
    <3>0. Button(p) /\ req[r].kind # "save" /\ r # 0
      BY <1>5, <1>8 DEF Requests
    <3>1. page[p].saving # r
      BY <3>0 DEF Button
    <3>2. page'[p] = page[p] \/ page'[p] = [page[p] EXCEPT !.rows = a.pool]
      BY <1>5, <1>8
    <3> QED BY <1>5, <3>1, <3>2 DEF Freed, PageShape
  <2>2. DOMAIN page' = Pages
    BY <1>5, <1>8
  <2>3. UNCHANGED <<srv, hist>> /\ req' = [req EXCEPT ![r] = Off]
        /\ req[r].at \in {"answered", "failed"}
    BY <1>1, <1>8
  <2>4. \A p \in Pages : Anew(page'[p]) \/ Freed(page'[p], page[p], r)
    BY <2>1
  <2> QED BY ONLY ConfigInv, KeptInv, r \in Requests, <2>2, <2>3, <2>4, IsOver
<1>9. CASE /\ req[r].kind = "save"
           /\ page' = [page EXCEPT ![o].saving = Released(o, r)]
           /\ req' = over /\ UNCHANGED hist
  <2>1. ASSUME NEW p \in Pages, p = o PROVE Freed(page'[p], page[p], r)
    <3>1. page'[p] = [page[p] EXCEPT !.saving = Released(p, r)]
      BY <1>5, <1>9, <2>1
    <3> QED BY <1>5, <3>1 DEF Freed, PageShape, Released
  <2>2. ASSUME NEW p \in Pages, p # o PROVE Freed(page'[p], page[p], r)
    BY <1>5, <1>6, <1>9, <2>2
  <2>3. DOMAIN page' = Pages
    BY <1>5, <1>9
  <2>4. UNCHANGED <<srv, hist>> /\ req' = [req EXCEPT ![r] = Off]
        /\ req[r].at \in {"answered", "failed"}
    BY <1>1, <1>9
  <2>5. \A p \in Pages : Anew(page'[p]) \/ Freed(page'[p], page[p], r)
    BY <2>1, <2>2
  <2> QED BY ONLY ConfigInv, KeptInv, r \in Requests, <2>3, <2>4, <2>5, IsOver
<1>10. CASE /\ req[r].kind \in {"add", "delete"} /\ Request
            /\ hist' = [hist EXCEPT !.asked = @ + 1]
            /\ req' = [over EXCEPT ![hist.asked + 1] = Ask(o, "list", 0)]
            /\ UNCHANGED page
  <2> DEFINE q == Ask(o, "list", 0)
  <2>1. hist'.asked = hist.asked + 1 /\ hist.asked + 1 \in Requests
    BY <1>10, FreeSlot DEF ConfigInv, Shape
  <2>2. ReqTypes(q) /\ q.at = "sent" /\ q.kind = "list"
    BY AskFits
  <2> HIDE DEF q
  <2>3. \A s \in Requests : req'[s] = IF s = hist.asked + 1 THEN q
                                      ELSE IF s = r THEN Off ELSE req[s]
    BY <1>2, <1>10 DEF q
  <2>4. \A p \in Pages : Freed(page'[p], page[p], r)
    BY <1>6, <1>10
  <2>5. \A s \in Requests : s # r /\ s <= hist.asked => req'[s] = req[s]
    BY <1>2, <2>3
  <2>6. \A s \in Requests : s = r \/ s > hist.asked =>
          /\ req'[s].at \in {"off", "sent"} /\ ReqTypes(req'[s])
          /\ req'[s].at = "sent" => req'[s].kind # "save"
    BY <1>4, <2>2, <2>3, OffFits
  <2>7. hist.asked <= hist'.asked /\ hist'.asked \in Nat
    BY <1>2, <2>1
  <2> HIDE DEF over
  <2> QED BY <1>1, <1>5, <1>10, <2>4, <2>5, <2>6, <2>7, OverKeeps
<1> QED BY <1>7, <1>8, <1>9, <1>10 DEF Answer

-----------------------------------------------------------------------------
(* The server's steps that pages can see.                                  *)

\* A current save puts what was there where the user changed nothing.
LEMMA SaveKeepsUntouched ==
  ASSUME ConfigInv, KeptInv, NEW r \in Requests, WriteSave(r), req[r].current,
         NEW k \in Keys \ req[r].touched
  PROVE  E'[k] = E[k]
<1>1. /\ req[r].kind = "save" /\ req[r].at = "checked"
      /\ srv' = [srv EXCEPT !.db = [i \in Keys |-> IF i \in DOMAIN req[r].arg
                                                   THEN req[r].arg[i] ELSE srv.db[i]]]
  BY DEF WriteSave, Writes
<1>2. /\ srv'.boot = srv.boot
      /\ srv'.db[k] = IF k \in DOMAIN req[r].arg THEN req[r].arg[k] ELSE srv.db[k]
  BY <1>1 DEF ConfigInv, Shape
<1>3. k \in DOMAIN req[r].arg => req[r].arg[k] = E[k]
  BY <1>1 DEF KeptInv, SaveFits
<1> QED BY <1>2, <1>3 DEF E, Effective

\* A handler writes: the table and the environment stay well typed, and the
\* live configuration is not touched.
LEMMA WriteFrame ==
  ASSUME ConfigInv, KeptInv, NEW r \in Requests,
         WriteSave(r) \/ WriteReset(r) \/ WriteAdd(r) \/ WriteDelete(r)
  PROVE  /\ SrvTypes' /\ srv'.cfg = srv.cfg /\ \E table : Writes(r, table)
         /\ req[r].at \notin Underway
         /\ req[r].kind = "save" => WriteSave(r) /\ req[r].at = "checked"
<1>0. /\ DOMAIN srv = {"db", "env", "boot", "cfg", "bots", "pool", "next"}
      /\ SrvTypes /\ ReqTypes(req[r])
  BY DEF ConfigInv, Shape, KeptInv, Types
<1>1. CASE WriteSave(r)
  <2>1. /\ req[r].kind = "save" /\ req[r].at = "checked"
        /\ srv' = [srv EXCEPT !.db = [i \in Keys |-> IF i \in DOMAIN req[r].arg
                                                     THEN req[r].arg[i] ELSE srv.db[i]]]
    BY <1>1 DEF WriteSave, Writes
  <2>2. /\ srv'.env = srv.env /\ srv'.boot = srv.boot /\ srv'.cfg = srv.cfg
        /\ srv'.db = [i \in Keys |-> IF i \in DOMAIN req[r].arg
                                     THEN req[r].arg[i] ELSE srv.db[i]]
    BY <1>0, <2>1
  <2>3. \A k \in Ints : k \in Keys /\ srv'.db[k] \in Nat \cup {Absent}
    BY <1>0, <2>1, <2>2 DEF Keys, SrvTypes, ReqTypes
  <2>4. SrvTypes'
    BY <1>0, <2>2, <2>3 DEF SrvTypes
  <2>5. \E table : Writes(r, table)
    BY <1>1 DEF WriteSave
  <2> QED BY <1>1, <2>1, <2>2, <2>4, <2>5 DEF Underway
<1>2. CASE WriteReset(r)
  <2>1. /\ req[r].kind = "reset" /\ req[r].at = "sent"
        /\ srv' = [srv EXCEPT !.db[req[r].arg] = Absent]
    BY <1>2 DEF WriteReset, Writes
  <2>2. /\ srv'.env = srv.env /\ srv'.boot = srv.boot /\ srv'.cfg = srv.cfg
        /\ srv'.db = [srv.db EXCEPT ![req[r].arg] = Absent]
    BY <1>0, <2>1
  <2>3. DOMAIN srv'.db = Keys
        /\ \A k \in Ints : k \in Keys /\ srv'.db[k] \in Nat \cup {Absent}
    BY <1>0, <2>2 DEF Keys, SrvTypes
  <2>4. SrvTypes'
    BY <1>0, <2>2, <2>3 DEF SrvTypes
  <2>5. \E table : Writes(r, table)
    BY <1>2 DEF WriteReset
  <2> QED BY <2>1, <2>2, <2>4, <2>5 DEF Underway
<1>3. CASE WriteAdd(r) \/ WriteDelete(r)
  <2>1. /\ req[r].kind \in {"add", "delete"} /\ req[r].at = "sent"
        /\ \E table : Writes(r, table)
    BY <1>3 DEF WriteAdd, WriteDelete
  <2>2. /\ srv'.env = srv.env /\ srv'.boot = srv.boot /\ srv'.cfg = srv.cfg
        /\ srv'.db = srv.db
    BY <1>0, <1>3 DEF WriteAdd, WriteDelete, Writes
  <2>3. SrvTypes'
    BY <1>0, <2>2 DEF SrvTypes
  <2> QED BY <2>1, <2>2, <2>3 DEF Underway
<1> QED BY <1>1, <1>2, <1>3

LEMMA WriteKeeps ==
  ASSUME ConfigInv, KeptInv, NEW r \in Requests,
         WriteSave(r) \/ WriteReset(r) \/ WriteAdd(r) \/ WriteDelete(r)
  PROVE  KeptInv'
<1>1. /\ SrvTypes' /\ srv'.cfg = srv.cfg /\ \E table : Writes(r, table)
      /\ req[r].at \notin Underway
      /\ req[r].kind = "save" => WriteSave(r) /\ req[r].at = "checked"
  BY WriteFrame
<1>2. /\ \A q \in Requests :
           /\ DOMAIN req[q] = {"kind", "page", "at", "arg", "ans", "touched", "current"}
           /\ ReqTypes(req[q])
      /\ DOMAIN req = Requests /\ DOMAIN page = Pages
      /\ \A p \in Pages : PageShape(page[p]) /\ Button(p) /\ PageFits(p)
  BY DEF ConfigInv, Shape, KeptInv, Types
<1>3. \A q \in Requests :
        /\ req'[q].kind = req[q].kind /\ req'[q].page = req[q].page
        /\ req'[q].arg = req[q].arg /\ req'[q].ans = req[q].ans
        /\ req'[q].touched = req[q].touched
        /\ req'[q].at = (IF q = r THEN "stored" ELSE req[q].at)
        /\ req'[q].current = (IF q = r THEN req[q].current ELSE FALSE)
  BY <1>1, <1>2 DEF Writes
<1>4. /\ DOMAIN page' = Pages
      /\ \A p \in Pages : page'[p] = IF page[p].saving = r THEN page[p]
                                     ELSE [page[p] EXCEPT !.current = FALSE]
  BY <1>1 DEF Writes
<1>5. hist'.asked = hist.asked
  BY <1>1 DEF Writes, ConfigInv, Shape
<1>6. ASSUME NEW p \in Pages
      PROVE  /\ PageShape(page'[p]) /\ page'[p].saving = page[p].saving
             /\ page'[p].current => page[p].saving = r /\ page'[p] = page[p]
  <2>1. PageShape(page[p])
    BY <1>2
  <2>2. CASE page[p].saving = r
    BY <1>4, <2>1, <2>2
  <2>3. CASE page[p].saving # r
    <3>1. page'[p] = [page[p] EXCEPT !.current = FALSE]
      BY <1>4, <2>3
    <3> QED BY <2>1, <3>1 DEF PageShape
  <2> QED BY <2>2, <2>3
<1>7. Types'
  <2>1. ASSUME NEW q \in Requests PROVE ReqTypes(req'[q])
    <3>1. req'[q].current \in BOOLEAN
      BY <1>2, <1>3 DEF ReqTypes
    <3>2. /\ req'[q].kind = req[q].kind /\ req'[q].arg = req[q].arg
          /\ req'[q].ans = req[q].ans /\ (req'[q].at = "sent" => req[q].at = "sent")
      BY <1>3
    <3>3. ReqTypes(req[q])
      BY <1>2
    <3> QED BY <3>1, <3>2, <3>3 DEF ReqTypes
  <2> QED BY <1>1, <1>4, <1>6, <2>1 DEF Types
<1>8. ASSUME NEW p \in Pages PROVE Button(p)'
  <2>1. page'[p].saving = page[p].saving /\ Button(p)
    BY <1>2, <1>6
  <2> QED BY <1>3, <1>5, <2>1 DEF Button
<1>9. ASSUME NEW p \in Pages, page'[p].current PROVE PageFits(p)'
  <2>1. page[p].saving = r /\ page'[p] = page[p] /\ page[p].current /\ r # 0
    BY <1>6, <1>9 DEF Requests
  <2>2. PageFits(p) /\ SaverFits(page[p], req[r]) /\ req[r].kind = "save"
    BY <1>2, <2>1 DEF PageFits, Button
  <2>3. req[r].at = "checked" /\ req[r].current /\ WriteSave(r)
    BY <1>1, <2>2 DEF SaverFits
  <2>4. \A k \in Keys \ page[p].touched : E'[k] = E[k]
    BY <2>2, <2>3, SaveKeepsUntouched DEF SaverFits
  <2>5. Busy = {}
    BY <2>2, <2>3 DEF KeptInv, SaveFits
  <2>6. \A q \in Busy' : q = r
    BY <1>3, <2>5 DEF Busy
  <2>7. \A k \in Keys \ page'[p].touched : page'[p].form[k] = Show(k, E'[k])
    BY <2>1, <2>2, <2>4 DEF PageFits
  <2>8. SecretKept(page[p].touched, srv.cfg)'
    BY <1>1, <2>1, <2>2, <2>4 DEF PageFits, SecretKept, Keys
  <2>9. SaverFits(page[p], req[page[p].saving])'
    <3>1. PICK q : q = req'[r]
      OBVIOUS
    <3>2. q.touched = req[r].touched /\ q.at \notin {"sent", "checked", "loaded"}
      BY <1>3, <3>1
    <3>3. page'[p] = page[p] /\ req'[page'[p].saving] = q
      BY <2>1, <3>1
    <3>4. q.touched \subseteq page'[p].touched
      BY <2>2, <3>2, <3>3 DEF SaverFits
    <3> QED BY <3>2, <3>3, <3>4 DEF SaverFits
  <2> QED BY <2>1, <2>6, <2>7, <2>8, <2>9 DEF PageFits
<1>10. \A p \in Pages : PageFits(p)'
  BY <1>9 DEF PageFits
<1>11. \A q \in Requests : SaveFits(q)'
  BY <1>3 DEF SaveFits
<1> QED BY <1>7, <1>8, <1>10, <1>11 DEF KeptInv

\* A loaded configuration becomes the live one.
LEMMA StoreKeeps ==
  ASSUME ConfigInv, KeptInv, NEW r \in Requests, StoreConfig(r)
  PROVE  KeptInv'
<1>1. /\ req[r].at = "loaded" /\ UNCHANGED <<page, hist>> /\ r \in Busy /\ r # 0
      /\ req' = [req EXCEPT ![r].at = "answered"]
      /\ srv' = [srv EXCEPT !.cfg = req[r].ans.values, !.pool = req[r].ans.pool]
  BY DEF StoreConfig, Goes, Busy, Requests
<1>2. /\ srv'.db = srv.db /\ srv'.env = srv.env /\ srv'.boot = srv.boot
      /\ srv'.cfg = req[r].ans.values
  BY <1>1 DEF ConfigInv, Shape
<1>3. \A q \in Requests :
        /\ req'[q].kind = req[q].kind /\ req'[q].page = req[q].page
        /\ req'[q].arg = req[q].arg /\ req'[q].ans = req[q].ans
        /\ req'[q].touched = req[q].touched /\ req'[q].current = req[q].current
        /\ req'[q].at = (IF q = r THEN "answered" ELSE req[q].at)
  BY <1>1 DEF ConfigInv, Shape
<1>4. E' = E /\ Busy' \subseteq Busy
  BY <1>2, <1>3 DEF E, Effective, Busy
<1>5. Types'
  <2>1. \A q \in Requests : ReqTypes(req'[q])
    BY <1>3 DEF KeptInv, Types, ReqTypes
  <2>2. SrvTypes'
    BY <1>2 DEF KeptInv, Types, SrvTypes, ReqTypes
  <2> QED BY <1>1, <2>1, <2>2 DEF KeptInv, Types
<1>6. \A p \in Pages : Button(p)'
  BY <1>1, <1>3 DEF KeptInv, Button
<1>7. ASSUME NEW p \in Pages, page[p].current PROVE PageFits(p)'
  <2>1. PageFits(p) /\ Button(p) /\ page[p].saving = r
    BY <1>1, <1>7 DEF KeptInv, PageFits
  <2>2. SaverFits(page[p], req[r])
    BY <1>1, <1>7, <2>1 DEF PageFits
  <2>3. SecretKept(page[p].touched, srv.cfg)'
    BY <1>1, <1>2, <1>4, <2>2 DEF SaverFits, SecretKept
  <2>4. SaverFits(page[p], req[page[p].saving])'
    BY <1>1, <1>3, <2>1, <2>2 DEF SaverFits
  <2>5. \A q \in Busy' : q = page'[p].saving
    BY <1>1, <1>4, <1>7, <2>1 DEF PageFits
  <2>6. \A k \in Keys \ page'[p].touched : page'[p].form[k] = Show(k, E'[k])
    BY <1>1, <1>4, <1>7, <2>1 DEF PageFits
  <2> QED BY <2>3, <2>4, <2>5, <2>6 DEF PageFits
<1>8. \A p \in Pages : PageFits(p)'
  BY <1>1, <1>7 DEF PageFits
<1>9. \A q \in Requests : SaveFits(q)'
  <2>1. Busy # {}
    BY <1>1
  <2> QED BY <1>3, <2>1 DEF KeptInv, SaveFits
<1> QED BY <1>5, <1>6, <1>8, <1>9 DEF KeptInv

LEMMA RestartKeeps ==
  ASSUME ConfigInv, KeptInv, Restart
  PROVE  KeptInv'
<1>1. \A q \in Requests :
        /\ req'[q].kind = req[q].kind /\ req'[q].page = req[q].page
        /\ req'[q].arg = req[q].arg /\ req'[q].ans = req[q].ans
        /\ req'[q].touched = req[q].touched /\ req'[q].current = req[q].current
        /\ req'[q].at \notin {"sent", "checked"}
  BY DEF Restart, ConfigInv, Shape
<1>2. /\ DOMAIN page' = Pages
      /\ \A p \in Pages : page'[p] = [page[p] EXCEPT !.current = FALSE]
  BY DEF Restart
<1>3. ASSUME NEW p \in Pages
      PROVE  /\ PageShape(page'[p]) /\ ~page'[p].current
             /\ page'[p].saving = page[p].saving
  <2>1. PageShape(page[p])
    BY DEF KeptInv, Types
  <2>2. page'[p] = [page[p] EXCEPT !.current = FALSE]
    BY <1>2
  <2> QED BY <2>1, <2>2 DEF PageShape
<1>4. /\ srv'.db = srv.db /\ srv'.env = srv.env /\ srv'.boot = srv.env
      /\ srv'.cfg = Effective(srv.db, srv.env)
      /\ hist'.asked = hist.asked
  BY DEF Restart, ConfigInv, Shape
<1>5. SrvTypes'
  BY <1>4, EffectiveInNat DEF KeptInv, Types, SrvTypes
<1>6. Types'
  <2>1. \A q \in Requests : ReqTypes(req'[q])
    BY <1>1 DEF KeptInv, Types, ReqTypes
  <2> QED BY <1>2, <1>3, <1>5, <2>1 DEF Types
<1>7. \A p \in Pages : Button(p)' /\ PageFits(p)'
  BY <1>1, <1>3, <1>4 DEF KeptInv, Button, PageFits
<1>8. \A q \in Requests : SaveFits(q)'
  BY <1>1 DEF SaveFits
<1> QED BY <1>6, <1>7, <1>8 DEF KeptInv

LEMMA KeptStep ==
  ASSUME ConfigInv, KeptInv, [Next]_vars
  PROVE  KeptInv'
<1>1. ASSUME NEW p \in Pages, Load(p) \/ AddBot(p) PROVE KeptInv'
  BY <1>1, AskFits, AskKeeps DEF Load, AddBot
<1>2. ASSUME NEW p \in Pages, NEW k \in Keys, Reset(p, k) PROVE KeptInv'
  BY <1>2, AskFits, AskKeeps DEF Reset
<1>3. ASSUME NEW p \in Pages, NEW i \in 1..Len(page[p].rows), DeleteBot(p, i)
      PROVE  KeptInv'
  BY <1>3, AskFits, AskKeeps DEF DeleteBot
<1>4. ASSUME NEW r \in Requests, Handler(r) PROVE KeptInv'
  BY <1>4, HandlerKeeps, WriteKeeps, StoreKeeps DEF Handler
<1>5. CASE UNCHANGED vars
  BY <1>5 DEF vars, KeptInv, Types, SrvTypes, Button, PageFits, SaveFits, SaverFits,
              SecretKept, Busy, E
<1> QED BY <1>1, <1>2, <1>3, <1>4, <1>5, SaveKeeps, EditKeeps, AnswerKeeps, FailedKeeps,
           RestartKeeps DEF Next

\* Only the write of a save takes a checked request to a stored one.
LEMMA StoredBySave ==
  ASSUME ConfigInv, Next, NEW r \in Requests, req[r].at = "checked", req'[r].at = "stored"
  PROVE  WriteSave(r)
<1> DEFINE fields == {"kind", "page", "at", "arg", "ans", "touched", "current"}
<1>0. DOMAIN req = Requests /\ \A q \in Requests : DOMAIN req[q] = fields
  BY DEF ConfigInv, Shape
<1>1. ASSUME NEW q, Asks(q), q.at = "sent" PROVE FALSE
  BY <1>1, Asked
<1>2. ASSUME NEW p \in Pages, Load(p) \/ AddBot(p) PROVE FALSE
  BY <1>1, <1>2, AskShape DEF Load, AddBot
<1>3. ASSUME NEW p \in Pages, Save(p) PROVE FALSE
  <2> DEFINE q == [Ask(p, "save", [k \in Keys |-> Send(k, page[p].form[k])])
                     EXCEPT !.touched = page[p].touched, !.current = page[p].current]
  <2>1. q.at = "sent"
    BY DEF Ask, Off
  <2>2. Asks(q)
    BY <1>3 DEF Save
  <2> HIDE DEF q
  <2> QED BY <1>1, <2>1, <2>2
<1>4. ASSUME NEW p \in Pages, NEW k \in Keys, Reset(p, k) PROVE FALSE
  BY <1>1, <1>4, AskShape DEF Reset
<1>5. ASSUME NEW p \in Pages, NEW k \in Keys, Edit(p, k) PROVE FALSE
  BY <1>5 DEF Edit
<1>6. ASSUME NEW p \in Pages, NEW i \in 1..Len(page[p].rows), DeleteBot(p, i) PROVE FALSE
  BY <1>1, <1>6, AskShape DEF DeleteBot
<1>7. ASSUME NEW q \in Requests, Failed(q) PROVE FALSE
  BY <1>0, <1>7, OffFits DEF Failed
<1>8. ASSUME NEW q \in Requests, Answer(q) PROVE FALSE
  <2> DEFINE over == [req EXCEPT ![q] = Off]
             a == Ask(req[q].page, "list", 0)
  <2>1. over[r].at # "stored" /\ DOMAIN over = Requests
    BY <1>0, OffFits
  <2>2. a.at = "sent"
    BY AskShape
  <2>3. \/ req' = over
        \/ req' = [over EXCEPT ![hist.asked + 1] = a]
    BY <1>8 DEF Answer
  <2> HIDE DEF over, a
  <2> QED BY <2>1, <2>2, <2>3
<1>9. ASSUME NEW q \in Requests, Handler(q) PROVE q = r /\ WriteSave(r)
  <2>1. q = r
    BY <1>0, <1>9 DEF Handler, Get, Refuse, Check, WriteSave, WriteReset, WriteAdd,
       WriteDelete, Writes, Rejected, WriteEnv, WriteEnvFails, LoadConfig, LoadFails,
       StoreConfig, Goes
  <2>2. ~ (Get(r) \/ Refuse(r) \/ Check(r) \/ WriteReset(r) \/ WriteAdd(r) \/ WriteDelete(r)
           \/ Rejected(r))
    BY DEF Get, Refuse, Check, WriteReset, WriteAdd, WriteDelete, Rejected
  <2>3. ~ (WriteEnv(r) \/ WriteEnvFails(r) \/ LoadConfig(r) \/ LoadFails(r) \/ StoreConfig(r))
    BY DEF WriteEnv, WriteEnvFails, LoadConfig, LoadFails, StoreConfig
  <2> QED BY <1>9, <2>1, <2>2, <2>3 DEF Handler
<1>10. CASE Restart
  BY <1>0, <1>10 DEF Restart
<1> QED BY <1>2, <1>3, <1>4, <1>5, <1>6, <1>7, <1>8, <1>9, <1>10 DEF Next

\* saveSection sends every field of its section.  Whatever number and unit or mask a
\* field shows, and whatever else is under way, one that the user did not touch on
\* a page that was current is stored as it was.
THEOREM UntouchedIsKeptHolds == Spec => UntouchedIsKept
<1> DEFINE Kept(r) ==
      /\ req[r].kind = "save" /\ req[r].at = "checked" /\ req'[r].at = "stored"
      /\ req[r].current
      => \A k \in Keys \ req[r].touched :
           Effective(srv'.db, srv'.boot)[k] = Effective(srv.db, srv.boot)[k]
<1>1. ConfigInv /\ KeptInv /\ [Next]_vars => [\A r \in Requests : Kept(r)]_vars
  <2> SUFFICES ASSUME ConfigInv, KeptInv, Next, NEW r \in Requests,
                      req[r].at = "checked", req'[r].at = "stored", req[r].current,
                      NEW k \in Keys \ req[r].touched
               PROVE  Effective(srv'.db, srv'.boot)[k] = Effective(srv.db, srv.boot)[k]
    OBVIOUS
  <2>1. WriteSave(r)
    BY StoredBySave
  <2> QED BY <2>1, SaveKeepsUntouched DEF E
<1>2. ConfigInv /\ KeptInv /\ [Next]_vars => KeptInv'
  BY KeptStep
<1> QED BY <1>1, <1>2, InitInv, NextInv, KeptInit, PTL DEF Spec, UntouchedIsKept
-----------------------------------------------------------------------------
(* The types of the state.                                                 *)

Kinds  == {"none", "load", "list", "save", "reset", "add", "delete"}
Places == {"off", "sent", "checked", "stored", "written", "loaded", "answered", "failed"}

\* A setting of each kind, or none.
Set(f)   == \A k \in Keys : f[k] \in Values[k]
Maybe(f) == \A k \in Keys : f[k] \in Values[k] \cup {Absent}

SrvFull ==
  /\ Set(srv.cfg) /\ Maybe(srv.db) /\ Maybe(srv.env) /\ Maybe(srv.boot)
  /\ srv.bots \in Seq(1..MaxBot) /\ srv.pool \in Seq(0..MaxBot)
  /\ srv.next \in 1..(MaxBot + 1)

\* What a request carries, and what it has loaded.
ReqFull(q) ==
  /\ q.kind \in Kinds /\ q.at \in Places /\ (q.at = "off" <=> q.kind = "none")
  /\ Set(q.ans.values) /\ q.ans.pool \in Seq(0..MaxBot)
  /\ q.kind = "save" => \A k \in Keys : k \in DOMAIN q.arg => q.arg[k] \in Values[k]

PageFull(pg) ==
  /\ pg.touched \subseteq Keys /\ pg.rows \in Seq(0..MaxBot)
  /\ pg.form[Secret] \in Values[Secret]

HistFull ==
  /\ hist.asked \in 0..MaxRequests /\ hist.edits \in 0..MaxEdits
  /\ hist.faults \in 0..MaxFaults /\ hist.dirty \in BOOLEAN

FullTypes ==
  /\ SrvFull /\ HistFull
  /\ \A r \in Requests : ReqFull(req[r])
  /\ \A p \in Pages : PageFull(page[p])

LEMMA ValuesOf ==
  /\ \A k \in Ints : k # Secret /\ k \in Keys /\ Values[k] = Nat
  /\ Secret \in Keys /\ Values[Secret] = [of : Words \cup {NoWord}, masked : BOOLEAN]
  /\ \A k \in Keys : k # Secret => k \in Ints
  BY DEF Values, Keys

LEMMA TextIsValue == \A w \in Words \cup {NoWord} : Text(w) \in Values[Secret]
  BY ValuesOf DEF Text

LEMMA MaskIsValue == ASSUME NEW t \in Values[Secret] PROVE Mask(t) \in Values[Secret]
<1> DEFINE texts == [of : Words \cup {NoWord}, masked : BOOLEAN]
<1>1. t \in texts
  BY ValuesOf
<1>2. [t EXCEPT !.masked = TRUE] \in texts
  BY <1>1
<1>3. Mask(t) \in texts
  BY <1>1, <1>2 DEF Mask
<1> QED BY <1>3, ValuesOf

LEMMA DefaultsSet == Set(Defaults)
  BY ValuesOf, TextIsValue DEF Set, Defaults, NoText

LEMMA EffectiveSet ==
  ASSUME NEW db, NEW boot, Maybe(db), Maybe(boot)
  PROVE  Set(Effective(db, boot))
  BY DefaultsSet DEF Set, Maybe, Effective

\* The pool of a table of bots.
LEMMA PoolTypes ==
  ASSUME NEW table \in Seq(1..MaxBot) PROVE Pool(table) \in Seq(0..MaxBot)
<1>1. table \in Seq(0..MaxBot)
  <2>1. \A i \in 1..Len(table) : table[i] \in 1..MaxBot
    OBVIOUS
  <2> QED BY <2>1
<1>2. EnvBot \in 0..MaxBot
  BY DEF EnvBot
<1> QED BY <1>1, <1>2 DEF Pool

LEMMA RemoveTypes ==
  ASSUME NEW S, NEW s \in Seq(S), NEW i \in DOMAIN s
  PROVE  RemoveAt(s, i) \in Seq(S)
<1>1. i \in 1..Len(s) /\ Len(s) \in Nat
  OBVIOUS
<1>2. SubSeq(s, 1, i - 1) \in Seq(S)
  BY <1>1
<1>3. SubSeq(s, i + 1, Len(s)) \in Seq(S)
  BY <1>1
<1> QED BY <1>2, <1>3 DEF RemoveAt

\* A step of one request.
LEMMA OneRequest ==
  ASSUME ConfigInv, FullTypes, NEW r \in Requests, NEW q, ReqFull(q),
         req' = [req EXCEPT ![r] = q]
  PROVE  \A s \in Requests : ReqFull(req'[s])
  BY DEF ConfigInv, Shape, FullTypes

LEMMA AskFull ==
  ASSUME NEW p, NEW k \in Kinds \ {"none", "save"}, NEW a
  PROVE  ReqFull(Ask(p, k, a))
<1>1. Set(Defaults) /\ <<>> \in Seq(0..MaxBot)
  BY DefaultsSet
<1>2. /\ Ask(p, k, a).kind = k /\ Ask(p, k, a).at = "sent"
      /\ Ask(p, k, a).ans.values = Defaults /\ Ask(p, k, a).ans.pool = <<>>
  BY DEF Ask, Off
<1> QED BY <1>1, <1>2 DEF ReqFull, Kinds, Places

LEMMA OffFull == ReqFull(Off)
<1>1. Set(Defaults) /\ <<>> \in Seq(0..MaxBot)
  BY DefaultsSet
<1> QED BY <1>1 DEF Off, ReqFull, Kinds, Places

\* A request that leaves is within the bound.
LEMMA AsksTypes ==
  ASSUME ConfigInv, FullTypes, NEW q, ReqFull(q), Asks(q)
  PROVE  HistFull' /\ \A s \in Requests : ReqFull(req'[s])
<1>1. hist.asked + 1 \in Requests
  BY FreeSlot DEF Asks
<1>2. /\ hist'.asked = hist.asked + 1 /\ hist'.edits = hist.edits
      /\ hist'.faults = hist.faults /\ hist'.dirty = hist.dirty
  BY DEF Asks, ConfigInv, Shape
<1>3. HistFull'
  BY <1>1, <1>2 DEF HistFull, FullTypes, Requests
<1> QED BY <1>1, <1>3, OneRequest DEF Asks

LEMMA Asking ==
  ASSUME ConfigInv, FullTypes, NEW p, NEW k \in Kinds \ {"none", "save"}, NEW a,
         Asks(Ask(p, k, a)), UNCHANGED <<srv, page>>
  PROVE  FullTypes'
<1> DEFINE q == Ask(p, k, a)
<1>1. ReqFull(q)
  BY AskFull
<1> HIDE DEF q
<1>2. HistFull' /\ \A s \in Requests : ReqFull(req'[s])
  BY <1>1, AsksTypes DEF q
<1> QED BY <1>2 DEF FullTypes, SrvFull

\* The user changes a field.
LEMMA EditTypes ==
  ASSUME ConfigInv, KeptInv, FullTypes, NEW p \in Pages, NEW k \in Keys, Edit(p, k)
  PROVE  FullTypes'
<1>1. PICK x \in IF k = Secret THEN {Text(w) : w \in Words \cup {NoWord}}
                 ELSE [n : Numbers, unit : Units] :
        page' = [page EXCEPT ![p].form[k] = x, ![p].touched = @ \cup {k}]
  BY DEF Edit
<1>2. UNCHANGED <<srv, req>> /\ HistFull'
  BY DEF Edit, FullTypes, HistFull, ConfigInv, Shape
<1>3. PageShape(page[p]) /\ PageFull(page[p]) /\ DOMAIN page = Pages
  BY DEF KeptInv, Types, FullTypes
<1>4. \A o \in Pages : o # p => page'[o] = page[o]
  BY <1>1, <1>3
<1>5. /\ page'[p].form = [page[p].form EXCEPT ![k] = x]
      /\ page'[p].touched = page[p].touched \cup {k} /\ page'[p].rows = page[p].rows
  BY <1>1, <1>3 DEF PageShape
<1>6. page'[p].form[Secret] \in Values[Secret]
  <2>1. CASE k = Secret
    <3>1. x \in Values[Secret]
      BY <1>1, <2>1, TextIsValue
    <3> QED BY <1>3, <1>5, <2>1, <3>1 DEF PageShape
  <2>2. CASE k # Secret
    BY <1>3, <1>5, <2>2 DEF PageShape, PageFull
  <2> QED BY <2>1, <2>2
<1>7. PageFull(page'[p])
  BY <1>3, <1>5, <1>6 DEF PageFull
<1> QED BY <1>2, <1>4, <1>7 DEF FullTypes, SrvFull

LEMMA SaveTypes ==
  ASSUME ConfigInv, KeptInv, FullTypes, NEW p \in Pages, Save(p)
  PROVE  FullTypes'
<1> DEFINE a == [k \in Keys |-> Send(k, page[p].form[k])]
           q == [Ask(p, "save", a) EXCEPT !.touched = page[p].touched,
                                          !.current = page[p].current]
<1>1. PageShape(page[p]) /\ PageFull(page[p]) /\ DOMAIN page = Pages
  BY DEF KeptInv, Types, FullTypes
<1>2. \A k \in Keys : a[k] \in Values[k]
  <2>1. a[Secret] \in Values[Secret]
    BY <1>1, ValuesOf DEF Send, PageFull
  <2>2. ASSUME NEW k \in Ints PROVE a[k] \in Values[k]
    <3>1. a[k] = page[p].form[k].n * page[p].form[k].unit
      BY ValuesOf DEF Send
    <3>2. page[p].form[k].n \in Nat /\ page[p].form[k].unit \in Nat
      BY <1>1 DEF PageShape
    <3>3. \A m, n \in Nat : m * n \in Nat
      OBVIOUS
    <3> QED BY <3>1, <3>2, <3>3, ValuesOf
  <2> QED BY <2>1, <2>2, ValuesOf
<1> HIDE DEF a
<1>3. ReqFull(q)
  <2>1. Set(Defaults) /\ <<>> \in Seq(0..MaxBot)
    BY DefaultsSet
  <2>2. /\ q.kind = "save" /\ q.at = "sent" /\ q.arg = a
        /\ q.ans.values = Defaults /\ q.ans.pool = <<>>
    BY DEF Ask, Off
  <2> HIDE DEF q
  <2> QED BY <1>2, <2>1, <2>2 DEF ReqFull, Kinds, Places
<1>4. Asks(q) /\ UNCHANGED srv /\ page' = [page EXCEPT ![p].saving = hist.asked + 1]
  BY DEF Save, a
<1> HIDE DEF q
<1>5. HistFull' /\ \A s \in Requests : ReqFull(req'[s])
  BY <1>3, <1>4, AsksTypes
<1>6. \A o \in Pages : PageFull(page'[o])
  BY <1>1, <1>4 DEF FullTypes, PageFull, PageShape
<1> QED BY <1>4, <1>5, <1>6 DEF FullTypes, SrvFull

\* What a page makes of what it receives.
LEMMA RenderedFull ==
  ASSUME NEW pg, PageShape(pg), PageFull(pg), NEW a, Set(a.values), NEW current
  PROVE  PageFull(Rendered(pg, a, current))
         /\ DOMAIN Rendered(pg, a, current) = DOMAIN pg
<1>1. Show(Secret, a.values[Secret]) \in Values[Secret]
  BY MaskIsValue, ValuesOf DEF Show, Set
<1>2. /\ Rendered(pg, a, current).form[Secret] = Show(Secret, a.values[Secret])
      /\ Rendered(pg, a, current).touched = {}
      /\ Rendered(pg, a, current).rows = pg.rows
      /\ DOMAIN Rendered(pg, a, current) = DOMAIN pg
  BY ValuesOf DEF Rendered, PageShape
<1> QED BY <1>1, <1>2 DEF PageFull

LEMMA AnswerTypes ==
  ASSUME ConfigInv, KeptInv, FullTypes, NEW r \in Requests, Answer(r)
  PROVE  FullTypes'
<1> DEFINE p == req[r].page
           a == req[r].ans
           over == [req EXCEPT ![r] = Off]
           current == a = Loaded /\ a = Live
                      /\ \A q \in Requests : req[q].at \notin {"stored", "written", "loaded"}
<1>0. /\ DOMAIN req = Requests /\ DOMAIN page = Pages
      /\ \A o \in Pages : PageShape(page[o]) /\ PageFull(page[o])
      /\ \A q \in Requests : ReqFull(req[q])
      /\ Set(a.values) /\ a.pool \in Seq(0..MaxBot)
  BY DEF ConfigInv, Shape, KeptInv, Types, FullTypes, ReqFull
<1>1. DOMAIN over = Requests /\ \A q \in Requests : ReqFull(over[q])
  BY <1>0, OffFull
<1>2. SrvFull'
  BY DEF Answer, FullTypes, SrvFull
<1>3. HistFull' /\ \A q \in Requests : ReqFull(req'[q])
  <2>1. CASE req' = over /\ UNCHANGED hist
    BY <1>1, <2>1 DEF FullTypes, HistFull
  <2>2. CASE /\ Request /\ hist' = [hist EXCEPT !.asked = @ + 1]
             /\ req' = [over EXCEPT ![hist.asked + 1] = Ask(p, "list", 0)]
    <3> HIDE DEF over, p
    <3>1. hist.asked + 1 \in Requests
      BY <2>2, FreeSlot
    <3>2. HistFull'
      BY <2>2, <3>1 DEF FullTypes, HistFull, Requests, ConfigInv, Shape
    <3>3. ReqFull(Ask(p, "list", 0))
      BY AskFull DEF Kinds
    <3> QED BY <1>1, <2>2, <3>2, <3>3
  <2> QED BY <2>1, <2>2 DEF Answer
<1>4. \A o \in Pages : PageFull(page'[o])
  <2> HIDE DEF a, current, over
  <2>1. CASE page' = [page EXCEPT ![p] = Rendered(@, a, current),
                                  ![p].rows = IF req[r].kind = "load" THEN a.pool ELSE @]
    <3> SUFFICES ASSUME NEW o \in Pages, o = p PROVE PageFull(page'[o])
      BY <1>0, <2>1
    <3> DEFINE new == Rendered(page[o], a, current)
    <3>1. PageFull(new) /\ DOMAIN new = {"form", "touched", "current", "saving", "rows"}
      <4>1. PageShape(page[o]) /\ PageFull(page[o]) /\ Set(a.values)
        BY <1>0 DEF a
      <4>2. PageFull(new) /\ DOMAIN new = DOMAIN page[o]
        BY <4>1, RenderedFull
      <4> QED BY <4>1, <4>2 DEF PageShape
    <3> HIDE DEF new
    <3>2. page'[o] = [new EXCEPT !.rows = IF req[r].kind = "load" THEN a.pool ELSE @]
      BY <1>0, <2>1 DEF new
    <3> QED BY <1>0, <3>1, <3>2 DEF PageFull
  <2>2. CASE page' = [page EXCEPT ![p].rows = a.pool]
    BY <1>0, <2>2 DEF PageFull, PageShape
  <2>3. CASE page' = [page EXCEPT ![p].saving = Released(p, r)]
    BY <1>0, <2>3 DEF PageFull, PageShape
  <2>4. CASE UNCHANGED page
    BY <1>0, <2>4
  <2> QED BY <2>1, <2>2, <2>3, <2>4 DEF Answer, a, current
<1> QED BY <1>2, <1>3, <1>4 DEF FullTypes

LEMMA FailedTypes ==
  ASSUME ConfigInv, KeptInv, FullTypes, NEW r \in Requests, Failed(r)
  PROVE  FullTypes'
<1>1. \A q \in Requests : ReqFull(req'[q])
  BY OffFull, OneRequest DEF Failed
<1>2. /\ DOMAIN page = Pages
      /\ \A o \in Pages : PageShape(page[o]) /\ PageFull(page[o])
      /\ page' = [page EXCEPT ![req[r].page].saving = Released(req[r].page, r)]
  BY DEF KeptInv, Types, FullTypes, Failed
<1>3. \A o \in Pages : PageFull(page'[o])
  BY <1>2 DEF PageFull, PageShape
<1> QED BY <1>1, <1>3 DEF FullTypes, SrvFull, HistFull, Failed
\* A request goes on with what it carries.
LEMMA GoesTypes ==
  ASSUME ConfigInv, FullTypes, NEW r \in Requests, NEW at \in Places, at # "off",
         req[r].at # "off", Goes(r, at)
  PROVE  \A q \in Requests : ReqFull(req'[q])
<1>1. /\ DOMAIN req = Requests /\ ReqFull(req[r])
      /\ DOMAIN req[r] = {"kind", "page", "at", "arg", "ans", "touched", "current"}
  BY DEF ConfigInv, Shape, FullTypes
<1> DEFINE q == [req[r] EXCEPT !.at = at]
<1>2. ReqFull(q)
  BY <1>1 DEF ReqFull
<1>3. req' = [req EXCEPT ![r] = q]
  BY <1>1 DEF Goes
<1> HIDE DEF q
<1> QED BY <1>2, <1>3, OneRequest

\* What is live and what is stored are settings.
LEMMA AnswersFull ==
  ASSUME FullTypes
  PROVE  /\ Set(Live.values) /\ Live.pool \in Seq(0..MaxBot)
         /\ Set(Loaded.values) /\ Loaded.pool \in Seq(0..MaxBot)
  BY EffectiveSet, PoolTypes DEF FullTypes, SrvFull, Live, Loaded

\* The handlers that write neither table, nor file, nor live configuration.
LEMMA MoveTypes ==
  ASSUME ConfigInv, KeptInv, FullTypes, NEW r \in Requests,
         \/ Get(r) \/ Refuse(r) \/ Check(r) \/ Rejected(r)
         \/ WriteEnvFails(r) \/ LoadConfig(r) \/ LoadFails(r)
  PROVE  FullTypes'
<1>0. /\ DOMAIN req = Requests /\ ReqFull(req[r]) /\ req[r].at # "off"
      /\ DOMAIN req[r] = {"kind", "page", "at", "arg", "ans", "touched", "current"}
  BY DEF ConfigInv, Shape, FullTypes, Get, Refuse, Check, Rejected, WriteEnvFails,
         LoadConfig, LoadFails
<1>1. UNCHANGED <<srv, page>>
  BY DEF Get, Refuse, Check, Rejected, WriteEnvFails, LoadConfig, LoadFails
<1>2. HistFull'
  <2>0. /\ DOMAIN hist = {"asked", "edits", "faults", "dirty"} /\ HistFull
        /\ Fault => hist.faults + 1 \in 0..MaxFaults
    BY DEF ConfigInv, Shape, FullTypes, HistFull, Fault
  <2>1. CASE WriteEnvFails(r)
    <3> DEFINE d == hist.dirty \/ req[r].kind = "save"
    <3>1. d \in BOOLEAN
      OBVIOUS
    <3>2. Fault /\ hist' = [hist EXCEPT !.faults = hist.faults + 1, !.dirty = d]
      BY <2>1 DEF WriteEnvFails
    <3> HIDE DEF d
    <3> QED BY <2>0, <3>1, <3>2 DEF HistFull
  <2>2. CASE LoadFails(r)
    BY <2>0, <2>2 DEF LoadFails, HistFull
  <2>3. CASE UNCHANGED hist
    BY <2>0, <2>3 DEF HistFull
  <2> QED BY <2>1, <2>2, <2>3 DEF Get, Refuse, Check, Rejected, LoadConfig
<1>3. \A q \in Requests : ReqFull(req'[q])
  <2>1. CASE Refuse(r) \/ Rejected(r) \/ WriteEnvFails(r) \/ LoadFails(r)
    <3>1. \E at \in {"failed", "written"} : Goes(r, at)
      BY <2>1 DEF Refuse, Rejected, WriteEnvFails, LoadFails
    <3> QED BY <1>0, <3>1, GoesTypes DEF Places
  <2>2. CASE Get(r)
    <3> DEFINE q == [req[r] EXCEPT !.at = "answered", !.ans = Live]
    <3>1. /\ q.kind = req[r].kind /\ q.at = "answered" /\ q.arg = req[r].arg
          /\ q.ans = Live
      BY <1>0
    <3>2. req' = [req EXCEPT ![r] = q]
      BY <1>0, <2>2 DEF Get
    <3> HIDE DEF q
    <3>3. ReqFull(q)
      BY <1>0, <3>1, AnswersFull DEF ReqFull, Places
    <3> QED BY <3>2, <3>3, OneRequest
  <2>3. CASE Check(r)
    <3> DEFINE keeps == IF IsUnchangedMask(req[r].arg[Secret]) THEN Ints ELSE Keys
               arg == [k \in keeps |-> req[r].arg[k]]
               q == [req[r] EXCEPT !.at = "checked", !.arg = arg]
    <3>1. /\ q.kind = req[r].kind /\ q.at = "checked" /\ q.ans = req[r].ans
          /\ q.arg = arg
      BY <1>0
    <3>2. req' = [req EXCEPT ![r] = q] /\ req[r].kind = "save" /\ req[r].at = "sent"
      BY <1>0, <2>3 DEF Check
    <3>3. \A k \in Keys : k \in DOMAIN arg => arg[k] = req[r].arg[k]
      OBVIOUS
    <3>4. DOMAIN req[r].arg = Keys
      BY <3>2 DEF KeptInv, Types, ReqTypes
    <3> HIDE DEF q, arg
    <3>5. ReqFull(q)
      BY <1>0, <3>1, <3>2, <3>3, <3>4 DEF ReqFull, Places
    <3> QED BY <3>2, <3>5, OneRequest
  <2>4. CASE LoadConfig(r)
    <3> DEFINE ans == IF Reloads(r) THEN Loaded ELSE Live
               q == [req[r] EXCEPT !.at = "loaded", !.ans = ans]
    <3>1. /\ q.kind = req[r].kind /\ q.at = "loaded" /\ q.arg = req[r].arg
          /\ q.ans = ans
      BY <1>0
    <3>2. req' = [req EXCEPT ![r] = q]
      BY <1>0, <2>4 DEF LoadConfig
    <3> HIDE DEF q
    <3>3. ReqFull(q)
      BY <1>0, <3>1, AnswersFull DEF ReqFull, Places
    <3> QED BY <3>2, <3>3, OneRequest
  <2> QED BY <2>1, <2>2, <2>3, <2>4
<1> QED BY <1>1, <1>2, <1>3 DEF FullTypes, SrvFull

\* The handlers that write the database.
LEMMA WriteTypes ==
  ASSUME ConfigInv, KeptInv, FullTypes, NEW r \in Requests,
         WriteSave(r) \/ WriteReset(r) \/ WriteAdd(r) \/ WriteDelete(r)
  PROVE  FullTypes'
<1>0. /\ DOMAIN srv = {"db", "env", "boot", "cfg", "bots", "pool", "next"}
      /\ DOMAIN srv.db = Keys /\ SrvFull /\ ReqFull(req[r]) /\ req[r].at # "off"
      /\ \A q \in Requests :
           DOMAIN req[q] = {"kind", "page", "at", "arg", "ans", "touched", "current"}
  BY DEF ConfigInv, Shape, KeptInv, Types, SrvTypes, FullTypes, WriteSave, WriteReset,
         WriteAdd, WriteDelete
<1>1. SrvFull'
  <2>1. CASE WriteSave(r)
    <3> DEFINE db == [k \in Keys |-> IF k \in DOMAIN req[r].arg THEN req[r].arg[k]
                                     ELSE srv.db[k]]
    <3>1. Maybe(db)
      BY <1>0, <2>1 DEF WriteSave, SrvFull, Maybe, ReqFull
    <3>2. srv' = [srv EXCEPT !.db = db]
      BY <1>0, <2>1 DEF WriteSave, Writes
    <3> HIDE DEF db
    <3> QED BY <1>0, <3>1, <3>2 DEF SrvFull
  <2>2. CASE WriteReset(r)
    <3> DEFINE db == [srv.db EXCEPT ![req[r].arg] = Absent]
    <3>1. Maybe(db)
      BY <1>0 DEF SrvFull, Maybe
    <3>2. srv' = [srv EXCEPT !.db = db]
      BY <1>0, <2>2 DEF WriteReset, Writes
    <3> HIDE DEF db
    <3> QED BY <1>0, <3>1, <3>2 DEF SrvFull
  <2>3. CASE WriteAdd(r)
    <3>1. srv.next \in 1..MaxBot /\ srv.next + 1 \in 1..(MaxBot + 1)
      BY <1>0, <2>3 DEF WriteAdd, SrvFull
    <3>2. Append(srv.bots, srv.next) \in Seq(1..MaxBot)
      BY <1>0, <3>1 DEF SrvFull
    <3>3. srv' = [srv EXCEPT !.bots = Append(srv.bots, srv.next), !.next = srv.next + 1]
      BY <2>3 DEF WriteAdd, Writes
    <3> QED BY <1>0, <3>1, <3>2, <3>3 DEF SrvFull
  <2>4. CASE WriteDelete(r)
    <3>1. PICK i \in DOMAIN srv.bots : srv' = [srv EXCEPT !.bots = RemoveAt(srv.bots, i)]
      BY <2>4 DEF WriteDelete, Writes
    <3>2. RemoveAt(srv.bots, i) \in Seq(1..MaxBot)
      BY <1>0, RemoveTypes DEF SrvFull
    <3> QED BY <1>0, <3>1, <3>2 DEF SrvFull
  <2> QED BY <2>1, <2>2, <2>3, <2>4
<1>2. PICK table : Writes(r, table)
  BY DEF WriteSave, WriteReset, WriteAdd, WriteDelete
<1>3. HistFull'
  <2>1. (Busy # {}) \in BOOLEAN /\ hist' = [hist EXCEPT !.dirty = Busy # {}]
    BY <1>2 DEF Writes
  <2> QED BY <2>1 DEF FullTypes, HistFull, ConfigInv, Shape
<1>4. ASSUME NEW q \in Requests PROVE ReqFull(req'[q])
  <2>1. ReqFull(req[q])
    BY DEF FullTypes
  <2>2. /\ req'[q].kind = req[q].kind /\ req'[q].arg = req[q].arg
        /\ req'[q].ans = req[q].ans
        /\ req'[q].at = (IF q = r THEN "stored" ELSE req[q].at)
    BY <1>0, <1>2 DEF Writes
  <2> QED BY <1>0, <2>1, <2>2 DEF ReqFull, Places
<1>5. ASSUME NEW o \in Pages PROVE PageFull(page'[o])
  <2>1. PageFull(page[o]) /\ PageShape(page[o])
    BY DEF FullTypes, KeptInv, Types
  <2>2. /\ page'[o].form = page[o].form /\ page'[o].touched = page[o].touched
        /\ page'[o].rows = page[o].rows
    BY <1>2, <2>1 DEF Writes, PageShape
  <2> QED BY <2>1, <2>2 DEF PageFull
<1> QED BY <1>1, <1>3, <1>4, <1>5 DEF FullTypes

\* The handlers that write .env or the live configuration.
LEMMA StoreTypes ==
  ASSUME ConfigInv, FullTypes, NEW r \in Requests, WriteEnv(r) \/ StoreConfig(r)
  PROVE  FullTypes'
<1>0. /\ DOMAIN srv = {"db", "env", "boot", "cfg", "bots", "pool", "next"}
      /\ SrvFull /\ ReqFull(req[r])
  BY DEF ConfigInv, Shape, FullTypes
<1>1. UNCHANGED <<page, hist>> /\ req[r].at # "off"
      /\ \E at \in {"written", "answered"} : Goes(r, at)
  BY DEF WriteEnv, StoreConfig
<1>2. \A q \in Requests : ReqFull(req'[q])
  BY <1>1, GoesTypes DEF Places
<1>3. SrvFull'
  <2>1. CASE WriteEnv(r)
    <3> DEFINE env == [k \in Keys |->
                 IF req[r].kind = "save" /\ k \in DOMAIN req[r].arg THEN req[r].arg[k]
                 ELSE IF req[r].kind = "reset" /\ k = req[r].arg
                      THEN Effective(Nowhere, srv.boot)[k]
                 ELSE srv.env[k]]
    <3>1. Maybe(Nowhere)
      BY DEF Maybe, Nowhere
    <3>2. Set(Effective(Nowhere, srv.boot))
      BY <1>0, <3>1, EffectiveSet DEF SrvFull
    <3>3. Maybe(env)
      BY <1>0, <3>2 DEF SrvFull, ReqFull, Set, Maybe
    <3>4. srv' = [srv EXCEPT !.env = env]
      BY <2>1 DEF WriteEnv
    <3> HIDE DEF env
    <3> QED BY <1>0, <3>3, <3>4 DEF SrvFull
  <2>2. CASE StoreConfig(r)
    BY <1>0, <2>2 DEF StoreConfig, SrvFull, ReqFull
  <2> QED BY <2>1, <2>2
<1> QED BY <1>1, <1>2, <1>3 DEF FullTypes, HistFull

LEMMA RestartTypes ==
  ASSUME ConfigInv, KeptInv, FullTypes, Restart
  PROVE  FullTypes'
<1>0. /\ DOMAIN srv = {"db", "env", "boot", "cfg", "bots", "pool", "next"}
      /\ SrvFull /\ DOMAIN hist = {"asked", "edits", "faults", "dirty"}
  BY DEF ConfigInv, Shape, FullTypes
<1>1. SrvFull'
  <2>1. Set(Effective(srv.db, srv.env)) /\ Pool(srv.bots) \in Seq(0..MaxBot)
    BY <1>0, EffectiveSet, PoolTypes DEF SrvFull
  <2>2. srv' = [srv EXCEPT !.boot = srv.env, !.cfg = Effective(srv.db, srv.env),
                           !.pool = Pool(srv.bots)]
    BY DEF Restart
  <2> QED BY <1>0, <2>1, <2>2 DEF SrvFull
<1>2. HistFull'
  BY <1>0 DEF Restart, Fault, FullTypes, HistFull
<1>3. ASSUME NEW q \in Requests PROVE ReqFull(req'[q])
  <2>1. ReqFull(req[q])
    BY DEF FullTypes
  <2>2. /\ req'[q].kind = req[q].kind /\ req'[q].arg = req[q].arg
        /\ req'[q].ans = req[q].ans
        /\ req'[q].at = IF req[q].at \in {"off", "answered"} THEN req[q].at ELSE "failed"
    BY DEF Restart, ConfigInv, Shape
  <2> QED BY <2>1, <2>2 DEF ReqFull, Places
<1>4. ASSUME NEW o \in Pages PROVE PageFull(page'[o])
  <2>1. PageFull(page[o]) /\ PageShape(page[o])
    BY DEF FullTypes, KeptInv, Types
  <2>2. /\ page'[o].form = page[o].form /\ page'[o].touched = page[o].touched
        /\ page'[o].rows = page[o].rows
    BY <2>1 DEF Restart, PageShape
  <2> QED BY <2>1, <2>2 DEF PageFull
<1> QED BY <1>1, <1>2, <1>3, <1>4 DEF FullTypes

LEMMA TypesInit == Init => FullTypes
<1> SUFFICES ASSUME Init PROVE FullTypes
  OBVIOUS
<1>1. FirstBots \in Seq(1..MaxBot) /\ Pool(FirstBots) \in Seq(0..MaxBot)
  <2>1. \A i \in 1..Len(FirstBots) : FirstBots[i] \in 1..MaxBot
    OBVIOUS
  <2>2. FirstBots \in Seq(1..MaxBot)
    BY <2>1
  <2> QED BY <2>2, PoolTypes
<1>2. SrvFull
  BY <1>1, DefaultsSet DEF Init, SrvFull, Nowhere, Maybe
<1>3. HistFull
  BY DEF Init, HistFull
<1>4. \A r \in Requests : ReqFull(req[r])
  BY OffFull DEF Init
<1>5. ASSUME NEW p \in Pages PROVE PageFull(page[p])
  <2>1. Show(Secret, Defaults[Secret]) \in Values[Secret]
    BY DefaultsSet, MaskIsValue, ValuesOf DEF Show, Set
  <2>2. /\ page[p].form[Secret] = Show(Secret, Defaults[Secret])
        /\ page[p].touched = {} /\ page[p].rows = Pool(FirstBots)
    BY ValuesOf DEF Init
  <2> QED BY <1>1, <2>1, <2>2 DEF PageFull
<1> QED BY <1>2, <1>3, <1>4, <1>5 DEF FullTypes

LEMMA TypesStep ==
  ASSUME ConfigInv, KeptInv, FullTypes, [Next]_vars
  PROVE  FullTypes'
<1>1. ASSUME NEW p \in Pages, Load(p) \/ AddBot(p) PROVE FullTypes'
  BY <1>1, Asking DEF Load, AddBot, Kinds
<1>2. ASSUME NEW p \in Pages, NEW k \in Keys, Reset(p, k) PROVE FullTypes'
  BY <1>2, Asking DEF Reset, Kinds
<1>3. ASSUME NEW p \in Pages, NEW i \in 1..Len(page[p].rows), DeleteBot(p, i)
      PROVE  FullTypes'
  BY <1>3, Asking DEF DeleteBot, Kinds
<1>4. ASSUME NEW r \in Requests, Handler(r) PROVE FullTypes'
  BY <1>4, MoveTypes, WriteTypes, StoreTypes DEF Handler
<1>5. CASE UNCHANGED vars
  BY <1>5 DEF vars, FullTypes, SrvFull, HistFull
<1> QED BY <1>1, <1>2, <1>3, <1>4, <1>5, SaveTypes, EditTypes, AnswerTypes, FailedTypes,
           RestartTypes DEF Next

\* In every state the settings are values of their kinds in the table, the file, the
\* environment and the live configuration; and a disabled save button waits for a
\* save of that page which is still under way, whichever error ended another one.
THEOREM TypeOKHolds == Spec => []TypeOK
<1>1. ConfigInv /\ KeptInv /\ FullTypes => TypeOK
  <2> SUFFICES ASSUME ConfigInv, KeptInv, FullTypes PROVE TypeOK
    OBVIOUS
  <2>1. ASSUME NEW k \in Keys
        PROVE  /\ srv.cfg[k] \in Values[k]
               /\ {srv.db[k], srv.env[k], srv.boot[k]} \subseteq Values[k] \cup {Absent}
    BY DEF FullTypes, SrvFull, Set, Maybe
  <2>2. \A r \in Requests : ReqFull(req[r])
    BY DEF FullTypes
  <2>3. \A p \in Pages : PageFull(page[p]) /\ Button(p)
    BY DEF FullTypes, KeptInv
  <2>4. SrvFull /\ HistFull
        /\ DOMAIN srv = {"db", "env", "boot", "cfg", "bots", "pool", "next"}
    BY DEF FullTypes, ConfigInv, Shape
  <2> QED BY <2>1, <2>2, <2>3, <2>4
          DEF TypeOK, SrvFull, HistFull, ReqFull, PageFull, Button, Kinds, Places
<1>2. ConfigInv /\ KeptInv /\ FullTypes /\ [Next]_vars => FullTypes'
  BY TypesStep
<1>3. ConfigInv /\ KeptInv /\ [Next]_vars => KeptInv'
  BY KeptStep
<1> QED BY <1>1, <1>2, <1>3, InitInv, NextInv, KeptInit, TypesInit, PTL DEF Spec
=============================================================================
