------------------------ MODULE SingleFlight_proofs ------------------------
(***************************************************************************)
(* Theorems about SingleFlight, for any number of requests, keys and       *)
(* virtual segments: its types, that leaders hold their flights, and that  *)
(* no flight of a real segment is left without somebody to finish it.      *)
(*                                                                         *)
(* The inductive invariant says of each request exactly which flights it   *)
(* leads (Holding), and of the map of flights that its entries and the     *)
(* requests agree (Agreement).                                             *)
(***************************************************************************)
EXTENDS SingleFlight, TLAPS

Types ==
  /\ want \in [Requests -> Keys] /\ key \in [Requests -> Keys]
  /\ left \in [Requests -> Seq(Keys \ Virtual)]
  /\ pc \in [Requests -> Control]
  /\ follows \in [Requests -> Requests \cup {NoOne}]
  /\ got \in [Requests -> Result]
  /\ leads \in [Requests -> SUBSET Keys]
  /\ flight \in [Keys -> Requests \cup {NoOne}]
  /\ outcome \in [Requests -> [Keys -> Result]]
  /\ finisher \in [Requests -> [Keys -> Finisher]]
  /\ cached \subseteq Keys

Leading == {"fetch", "insert", "settle", "remove"}

\* While a request works on the source it leads the virtual segment; from the
\* fetch on it leads the key it works on; it leads nothing else.
Led(r) ==
  IF pc[r] = "dropped" THEN {}
  ELSE {k \in Keys : \/ k = want[r] /\ key[r] # want[r]
                     \/ k = key[r] /\ pc[r] \in Leading}

Holding(r) ==
  /\ leads[r] = Led(r)
  /\ key[r] # want[r] => want[r] \in Virtual /\ key[r] \notin Virtual
  /\ pc[r] \in {"idle", "served", "failed"} => key[r] = want[r]
  /\ pc[r] = "wait" => follows[r] # NoOne

\* The map names a request under a key only if the request, or a finisher it
\* left behind, but not both, will finish that flight (real segments), and
\* whenever it will (all segments).
Agreement(r) ==
  /\ \A k \in leads[r] : flight[k] = r
  /\ \A k \in Keys : finisher[r][k] # "no" => flight[k] = r /\ k \notin leads[r]
  /\ \A k \in Keys \ Virtual :
       flight[k] = r => k \in leads[r] \/ finisher[r][k] # "no"

FlightInv == Types /\ \A r \in Requests : Holding(r) /\ Agreement(r)

-----------------------------------------------------------------------------
\* No request is mistaken for the absence of a flight.
LEMMA NoOneLeads == NoOne \notin Requests
  BY FlightAssumption

\* The initial state satisfies the invariant.
LEMMA FlightInit == Init => FlightInv
  BY FlightAssumption
  DEF Init, FlightInv, Types, Holding, Led, Agreement, Leading, Control, Over,
      Result, Finisher

\* A result lets a request go on with a key and a state of its types.
LEMMA ResumeTypes ==
  ASSUME Types, NEW r \in Requests, NEW res \in Result, Resume(r, res)
  PROVE  /\ key' \in [Requests -> Keys] /\ pc' \in [Requests -> Control]
         /\ left' \in [Requests -> Seq(Keys \ Virtual)]
         /\ got' \in [Requests -> Result]
<1>1. CASE key[r] = want[r]
  <2>1. /\ pc' = [pc EXCEPT ![r] = IF res = "ok" THEN "served" ELSE "failed"]
        /\ key' = key /\ got' = got /\ left' = left
    BY <1>1 DEF Resume
  <2> QED
    BY <2>1 DEF Types, Control, Over
<1>2. CASE key[r] # want[r] /\ res = "ok" /\ left[r] # <<>>
  <2>1. /\ key' = [key EXCEPT ![r] = Head(left[r])]
        /\ left' = [left EXCEPT ![r] = Tail(left[r])]
        /\ pc' = [pc EXCEPT ![r] = "look"] /\ got' = got
    BY <1>2 DEF Resume
  <2>2. left[r] \in Seq(Keys \ Virtual)
    BY DEF Types
  <2>3. Head(left[r]) \in Keys /\ Tail(left[r]) \in Seq(Keys \ Virtual)
    BY <1>2, <2>2
  <2> QED
    BY <2>1, <2>3 DEF Types, Control
<1>3. CASE key[r] # want[r] /\ res = "ok" /\ left[r] = <<>>
  <2>1. /\ key' = [key EXCEPT ![r] = want[r]] /\ left' = left
        /\ pc' = [pc EXCEPT ![r] = "fetch"] /\ got' = got
    BY <1>3 DEF Resume
  <2> QED
    BY <2>1 DEF Types, Control
<1>4. CASE key[r] # want[r] /\ res # "ok"
  <2>1. /\ key' = [key EXCEPT ![r] = want[r]]
        /\ left' = [left EXCEPT ![r] = <<>>]
        /\ pc' = [pc EXCEPT ![r] = "settle"]
        /\ got' = [got EXCEPT ![r] = "err"]
    BY <1>4 DEF Resume
  <2>2. <<>> \in Seq(Keys \ Virtual)
    OBVIOUS
  <2>3. left' \in [Requests -> Seq(Keys \ Virtual)]
    BY <2>1, <2>2 DEF Types
  <2>4. key' \in [Requests -> Keys] /\ got' \in [Requests -> Result]
    BY <2>1 DEF Types, Result
  <2>5. pc' \in [Requests -> Control]
    BY <2>1 DEF Types, Control
  <2> QED
    BY <2>3, <2>4, <2>5
<1> QED
  BY <1>1, <1>2, <1>3, <1>4

\* A virtual segment has a first source, and all its sources are real.
LEMMA SourcesAreReal ==
  ASSUME NEW k \in Virtual
  PROVE  /\ Head(Source[k]) \in Keys \ Virtual
         /\ Tail(Source[k]) \in Seq(Keys \ Virtual)
<1>1. Source[k] \in Seq(Keys \ Virtual) /\ Source[k] # <<>>
  BY FlightAssumption
<1> QED
  BY <1>1

\* Every step keeps the types.
LEMMA TypesStep == ASSUME FlightInv, [Next]_vars PROVE Types'
<1> USE DEF FlightInv
<1>1. ASSUME NEW r \in Requests, Arrive(r) PROVE Types'
  BY <1>1 DEF Types, Arrive, Control
<1>2. ASSUME NEW r \in Requests, Step(r) PROVE Types'
  <2>1. CASE Hit(r)
    BY <2>1, ResumeTypes DEF Types, Hit, Result
  <2>2. CASE Miss(r)
    BY <2>2 DEF Types, Miss, Control
  <2>3. CASE Lead(r)
    BY <2>3 DEF Types, Lead, Claim, Control
  <2>11. CASE LeadVirtual(r)
    <3>1. leads' \in [Requests -> SUBSET Keys] /\ flight' \in [Keys -> Requests \cup {NoOne}]
      BY <2>11 DEF Types, LeadVirtual, Claim
    <3>2. /\ Head(Source[key[r]]) \in Keys
          /\ Tail(Source[key[r]]) \in Seq(Keys \ Virtual)
      BY <2>11, SourcesAreReal DEF LeadVirtual
    <3>3. /\ key' \in [Requests -> Keys]
          /\ left' \in [Requests -> Seq(Keys \ Virtual)]
      <4>1. CASE UNCHANGED <<key, left>>
        BY <4>1 DEF Types
      <4>2. CASE /\ key' = [key EXCEPT ![r] = Head(Source[key[r]])]
                 /\ left' = [left EXCEPT ![r] = Tail(Source[key[r]])]
        BY <4>2, <3>2 DEF Types
      <4> QED
        BY <2>11, <4>1, <4>2 DEF LeadVirtual
    <3>4. pc' \in [Requests -> Control] /\ got' \in [Requests -> Result]
      BY <2>11 DEF Types, LeadVirtual, Control, Result
    <3> QED
      BY <2>11, <3>1, <3>3, <3>4 DEF Types, LeadVirtual
  <2>4. CASE Follow(r)
    BY <2>4 DEF Types, Follow, Control
  <2>5. CASE Wake(r)
    <3>1. outcome[follows[r]][key[r]] \in Result
      BY <2>5 DEF Types, Wake, Holding
    <3> QED
      BY <2>5, <3>1, ResumeTypes DEF Types, Wake
  <2>6. CASE Fetched(r)
    BY <2>6 DEF Types, Fetched, Control, Result
  <2>7. CASE Insert(r)
    BY <2>7 DEF Types, Insert, Control
  <2>8. CASE Detach(r)
    BY <2>8 DEF Types, Detach, Disarmed, Control, Over, Finisher
  <2>9. CASE Settle(r)
    BY <2>9 DEF Types, Settle, Publish, Control
  <2>10. CASE Remove(r)
    <3>1. got[r] \in Result
      BY DEF Types
    <3>2. leads' \in [Requests -> SUBSET Keys] /\ flight' \in [Keys -> Requests \cup {NoOne}]
      BY <2>10 DEF Types, Remove, Disarmed
    <3> QED
      BY <2>10, <3>1, <3>2, ResumeTypes DEF Types, Remove
  <2> QED
    BY <1>2, <2>1, <2>2, <2>3, <2>4, <2>5, <2>6, <2>7, <2>8, <2>9, <2>10, <2>11
    DEF Step
<1>3. ASSUME NEW r \in Requests, LookupFails(r) \/ WaitTimesOut(r) PROVE Types'
  BY <1>3, ResumeTypes DEF Types, LookupFails, WaitTimesOut, Result
<1>4. ASSUME NEW r \in Requests, Disconnect(r) PROVE Types'
  BY <1>4 DEF Types, Disconnect, Armed, Control, Over, Finisher
<1>5. ASSUME NEW r \in Requests, NEW k \in Keys, Finish(r, k) PROVE Types'
  <2>1. CASE FinisherSettles(r, k)
    <3>1. PICK res \in Result : outcome' = Publish(r, k, res)
      BY <2>1 DEF FinisherSettles, Result
    <3>2. outcome' \in [Requests -> [Keys -> Result]]
      BY <3>1 DEF Types, Publish
    <3>3. finisher' \in [Requests -> [Keys -> Finisher]]
      BY <2>1 DEF Types, FinisherSettles, Finisher
    <3> QED
      BY <2>1, <3>2, <3>3 DEF Types, FinisherSettles
  <2>2. CASE FinisherRemoves(r, k)
    BY <2>2 DEF Types, FinisherRemoves, Finisher
  <2> QED
    BY <1>5, <2>1, <2>2 DEF Finish
<1>6. ASSUME NEW k \in Keys, Evict(k) PROVE Types'
  BY <1>6 DEF Types, Evict
<1>7. CASE UNCHANGED vars
  BY <1>7 DEF vars, Types
<1> QED
  BY <1>1, <1>2, <1>3, <1>4, <1>5, <1>6, <1>7 DEF Next

-----------------------------------------------------------------------------
\* What a request does to the state the invariant is about.
Act(r) == \/ Arrive(r) \/ Step(r) \/ LookupFails(r) \/ WaitTimesOut(r)
          \/ Disconnect(r) \/ \E k \in Keys : Finish(r, k)

\* It leaves the others alone, in the map of flights too.
Local(r) ==
  /\ \A q \in Requests \ {r} :
       /\ key'[q] = key[q] /\ want'[q] = want[q] /\ pc'[q] = pc[q]
       /\ follows'[q] = follows[q] /\ leads'[q] = leads[q]
       /\ finisher'[q] = finisher[q]
  /\ \A k \in Keys : \/ flight'[k] = flight[k]
                     \/ flight[k] \in {NoOne, r} /\ flight'[k] \in {NoOne, r}

\* A result concerns only the request that has it.
LEMMA ResumeIsLocal ==
  ASSUME Types, NEW r \in Requests, NEW res, Resume(r, res),
         NEW q \in Requests \ {r}
  PROVE  key'[q] = key[q] /\ pc'[q] = pc[q]
<1>1. CASE key[r] = want[r]
  BY <1>1 DEF Types, Resume
<1>2. CASE key[r] # want[r]
  BY <1>2 DEF Types, Resume
<1> QED
  BY <1>1, <1>2

\* So does every other step of a request or of a finisher it left behind.
LEMMA ActIsLocal ==
  ASSUME FlightInv, NEW r \in Requests, Act(r) PROVE Local(r)
<1> USE DEF FlightInv, Local
<1>1. CASE Arrive(r)
  BY <1>1 DEF Types, Arrive
<1>2. CASE Hit(r)
  BY <1>2, ResumeIsLocal DEF Hit
<1>3. CASE Miss(r)
  BY <1>3 DEF Types, Miss
<1>4. CASE Lead(r) \/ LeadVirtual(r)
  BY <1>4 DEF Types, Lead, LeadVirtual, Claim
<1>5. CASE Follow(r)
  BY <1>5 DEF Types, Follow
<1>6. CASE Wake(r) \/ LookupFails(r) \/ WaitTimesOut(r)
  BY <1>6, ResumeIsLocal DEF Wake, LookupFails, WaitTimesOut
<1>7. CASE Fetched(r) \/ Insert(r)
  BY <1>7 DEF Types, Fetched, Insert
<1>8. CASE Detach(r) \/ Settle(r)
  BY <1>8 DEF Types, Detach, Settle, Disarmed
<1>9. CASE Remove(r)
  <2>1. flight[key[r]] = r
    BY <1>9 DEF Types, Remove, Holding, Led, Agreement, Leading
  <2>2. \A k \in Keys : flight'[k] = flight[k] \/ (flight[k] = r /\ flight'[k] = NoOne)
    <3>1. /\ flight \in [Keys -> Requests \cup {NoOne}]
          /\ flight' = [flight EXCEPT ![key[r]] = NoOne]
      BY <1>9 DEF Types, Remove
    <3>2. key[r] \in Keys
      BY DEF Types
    <3>3. ASSUME NEW k \in Keys
          PROVE  flight'[k] = IF k = key[r] THEN NoOne ELSE flight[k]
      BY <3>1
    <3> QED
      BY <2>1, <3>2, <3>3
  <2>3. \A q \in Requests \ {r} : leads'[q] = leads[q]
    BY <1>9 DEF Types, Remove, Disarmed
  <2> QED
    BY <1>9, <2>2, <2>3, ResumeIsLocal DEF Remove
<1>10. CASE Disconnect(r)
  BY <1>10 DEF Types, Disconnect
<1>11. ASSUME NEW k \in Keys, FinisherSettles(r, k) PROVE Local(r)
  BY <1>11 DEF Types, FinisherSettles
<1>12. ASSUME NEW k \in Keys, FinisherRemoves(r, k) PROVE Local(r)
  <2>1. flight[k] = r
    BY <1>12 DEF FinisherRemoves, Agreement
  <2> QED
    BY <1>12, <2>1 DEF Types, FinisherRemoves
<1> HIDE DEF FlightInv, Local
<1>13. CASE Step(r)
  BY <1>13, <1>2, <1>3, <1>4, <1>5, <1>6, <1>7, <1>8, <1>9 DEF Step
<1>14. CASE \E k \in Keys : Finish(r, k)
  BY <1>14, <1>11, <1>12 DEF Finish
<1> QED
  BY <1>1, <1>6, <1>10, <1>13, <1>14 DEF Act

\* Nobody else's part of the invariant depends on what a request does.
LEMMA OthersKeep ==
  ASSUME FlightInv, NEW r \in Requests, Local(r), NEW q \in Requests \ {r}
  PROVE  Holding(q)' /\ Agreement(q)'
<1>1. Holding(q)'
  <2>1. /\ key'[q] = key[q] /\ want'[q] = want[q] /\ pc'[q] = pc[q]
        /\ follows'[q] = follows[q] /\ leads'[q] = leads[q]
    BY DEF Local
  <2>2. Led(q)' = Led(q)
    BY <2>1 DEF Led
  <2>3. Holding(q)
    BY DEF FlightInv
  <2> QED
    BY <2>1, <2>2, <2>3 DEF Holding
<1>2. \A k \in Keys : flight'[k] = q <=> flight[k] = q
  BY NoOneLeads DEF Local
<1> QED
  BY <1>1, <1>2 DEF FlightInv, Types, Local, Agreement

-----------------------------------------------------------------------------
\* A request that gets a result while it leads, at most, a virtual segment
\* whose source it was after, still leads exactly what it should.
LEMMA ResumeHolds ==
  ASSUME FlightInv, NEW r \in Requests, NEW res, Resume(r, res),
         UNCHANGED <<want, follows>>, pc[r] # "dropped",
         leads'[r] = {k \in Keys : k = want[r] /\ key[r] # want[r]}
  PROVE  Holding(r)'
<1>1. CASE key[r] = want[r]
  <2>1. pc'[r] \in {"served", "failed"} /\ key' = key
    BY <1>1 DEF FlightInv, Types, Resume
  <2> QED
    BY <1>1, <2>1 DEF Holding, Led, Leading
<1>2. CASE key[r] # want[r] /\ res = "ok" /\ left[r] # <<>>
  <2>1. pc'[r] = "look" /\ key'[r] = Head(left[r])
    BY <1>2 DEF FlightInv, Types, Resume
  <2>2. left[r] \in Seq(Keys \ Virtual)
    BY DEF FlightInv, Types
  <2>3. key'[r] \notin Virtual
    BY <1>2, <2>1, <2>2
  <2> QED
    BY <1>2, <2>1, <2>3 DEF FlightInv, Holding, Led, Leading
<1>3. CASE key[r] # want[r] /\ ~(res = "ok" /\ left[r] # <<>>)
  <2>1. pc'[r] \in {"fetch", "settle"} /\ key'[r] = want[r]
    BY <1>3 DEF FlightInv, Types, Resume
  <2> QED
    BY <1>3, <2>1 DEF Holding, Led, Leading
<1> QED
  BY <1>1, <1>2, <1>3

\* The acting request still leads exactly what it should.
LEMMA ActHolds ==
  ASSUME FlightInv, NEW r \in Requests, Act(r) PROVE Holding(r)'
<1> USE DEF FlightInv
<1>1. CASE Arrive(r)
  BY <1>1 DEF Types, Arrive, Holding, Led, Leading
<1>2. CASE Hit(r) \/ Wake(r) \/ LookupFails(r) \/ WaitTimesOut(r)
  <2>1. leads[r] = {k \in Keys : k = want[r] /\ key[r] # want[r]}
    BY <1>2 DEF Holding, Led, Leading, Hit, Wake, LookupFails, WaitTimesOut
  <2> QED
    BY <1>2, <2>1, ResumeHolds DEF Hit, Wake, LookupFails, WaitTimesOut
<1>3. CASE Miss(r)
  BY <1>3 DEF Types, Miss, Holding, Led, Leading
<1>4. CASE Lead(r)
  <2>1. /\ key' = key /\ pc'[r] = "fetch" /\ want' = want
        /\ leads'[r] = leads[r] \cup {key[r]}
    BY <1>4 DEF Types, Lead, Claim
  <2>2. pc[r] = "claim" /\ key[r] \in Keys
    BY <1>4 DEF Types, Lead, Claim
  <2>3. leads'[r] = Led(r)'
    BY <2>1, <2>2 DEF Holding, Led, Leading
  <2> QED
    BY <2>1, <2>3 DEF Holding
<1>11. CASE LeadVirtual(r)
  <2>1. /\ leads'[r] = leads[r] \cup {key[r]} /\ want' = want
        /\ key[r] = want[r] /\ pc[r] = "claim" /\ key[r] \in Virtual
    BY <1>11 DEF Types, LeadVirtual, Claim, Holding
  <2>2. leads'[r] = {want[r]} /\ want[r] \in Keys
    BY <2>1 DEF Types, Holding, Led, Leading
  <2>3. \/ key'[r] \notin Virtual /\ pc'[r] = "look"
        \/ key'[r] = key[r] /\ pc'[r] = "settle"
    BY <1>11, <2>1, SourcesAreReal DEF Types, LeadVirtual
  <2> QED
    BY <2>1, <2>2, <2>3 DEF Holding, Led, Leading
<1>5. CASE Follow(r)
  BY <1>5 DEF Types, Follow, Holding, Led, Leading
<1>6. CASE Fetched(r) \/ Insert(r) \/ Settle(r)
  <2>1. pc[r] \in Leading /\ pc'[r] \in Leading
    BY <1>6 DEF Types, Fetched, Insert, Settle, Leading
  <2> QED
    BY <1>6, <2>1 DEF Fetched, Insert, Settle, Holding, Led, Leading
<1>7. CASE Detach(r)
  <2>1. leads'[r] = leads[r] \ {key[r]} /\ pc'[r] = "served" /\ key[r] = want[r]
    BY <1>7 DEF Types, Detach, Detaches, Disarmed
  <2> QED
    BY <1>7, <2>1 DEF Detach, Holding, Led, Leading
<1>8. CASE Remove(r)
  <2>1. leads'[r] = leads[r] \ {key[r]} /\ UNCHANGED <<want, follows>>
    BY <1>8 DEF Types, Remove, Disarmed
  <2>2. leads'[r] = {k \in Keys : k = want[r] /\ key[r] # want[r]}
    BY <1>8, <2>1 DEF Remove, Holding, Led, Leading
  <2> QED
    BY <1>8, <2>1, <2>2, ResumeHolds DEF Remove
<1>9. CASE Disconnect(r)
  BY <1>9 DEF Types, Disconnect, Holding, Led
<1>10. ASSUME NEW k \in Keys, Finish(r, k) PROVE Holding(r)'
  BY <1>10 DEF Finish, FinisherSettles, FinisherRemoves, Holding, Led
<1> QED
  BY <1>1, <1>2, <1>3, <1>4, <1>5, <1>6, <1>7, <1>8, <1>9, <1>10, <1>11
  DEF Act, Step

\* After a step of a request, the map agrees with it again.
LEMMA ActAgrees ==
  ASSUME FlightInv, NEW r \in Requests, Act(r) PROVE Agreement(r)'
<1> USE DEF FlightInv
<1>1. CASE \/ Arrive(r) \/ Hit(r) \/ Miss(r) \/ Follow(r) \/ Wake(r)
           \/ Fetched(r) \/ Insert(r) \/ Settle(r)
           \/ LookupFails(r) \/ WaitTimesOut(r)
  <2>1. UNCHANGED <<leads, flight, finisher>>
    BY <1>1 DEF Arrive, Hit, Miss, Follow, Wake, Fetched, Insert, Settle,
                LookupFails, WaitTimesOut
  <2> QED
    BY <2>1 DEF Agreement
<1>2. CASE Lead(r) \/ LeadVirtual(r)
  <2>1. /\ key[r] \in Keys /\ flight[key[r]] = NoOne /\ NoOne # r
        /\ leads'[r] = leads[r] \cup {key[r]} /\ finisher' = finisher
        /\ \A k \in Keys : flight'[k] = IF k = key[r] THEN r ELSE flight[k]
    BY <1>2, NoOneLeads DEF Types, Lead, LeadVirtual, Claim
  <2> QED
    BY <2>1 DEF Types, Agreement
<1>3. CASE Detach(r)
  <2>1. /\ leads'[r] = leads[r] \ {key[r]} /\ flight' = flight
        /\ \A k \in Keys :
             finisher'[r][k] = IF k = key[r] THEN "setOk" ELSE finisher[r][k]
    BY <1>3 DEF Types, Detach, Disarmed
  <2>2. key[r] \in leads[r]
    BY <1>3 DEF Types, Detach, Holding, Led, Leading
  <2> QED
    BY <2>1, <2>2 DEF Types, Agreement
<1>4. CASE Remove(r)
  <2>1. /\ leads'[r] = leads[r] \ {key[r]} /\ finisher' = finisher
        /\ \A k \in Keys : flight'[k] = IF k = key[r] THEN NoOne ELSE flight[k]
    BY <1>4 DEF Types, Remove, Disarmed
  <2>2. key[r] \in leads[r] /\ leads[r] \subseteq Keys /\ NoOne # r
    BY <1>4, NoOneLeads DEF Types, Remove, Holding, Led, Leading
  <2>3. \A k \in leads'[r] : flight'[k] = r
    BY <2>1, <2>2 DEF Agreement
  <2>4. \A k \in Keys :
          finisher'[r][k] # "no" => flight'[k] = r /\ k \notin leads'[r]
    BY <2>1, <2>2 DEF Agreement
  <2>5. \A k \in Keys \ Virtual :
          flight'[k] = r => k \in leads'[r] \/ finisher'[r][k] # "no"
    BY <2>1, <2>2 DEF Agreement
  <2> QED
    BY <2>3, <2>4, <2>5 DEF Agreement
<1>5. CASE Disconnect(r)
  <2>1. /\ leads'[r] = {} /\ flight' = flight
        /\ \A k \in Keys : finisher'[r][k] =
             IF k \in leads[r] \ Virtual THEN "setErr" ELSE finisher[r][k]
    BY <1>5 DEF Types, Disconnect, Armed
  <2>2. leads[r] \subseteq Keys
    BY DEF Types
  <2>3. \A k \in Keys :
          finisher'[r][k] # "no" => flight'[k] = r /\ k \notin leads'[r]
    BY <2>1, <2>2 DEF Agreement
  <2>4. \A k \in Keys \ Virtual : flight'[k] = r => finisher'[r][k] # "no"
    BY <2>1, <2>2 DEF Agreement
  <2> QED
    BY <2>1, <2>3, <2>4 DEF Agreement
<1>6. ASSUME NEW k \in Keys, FinisherSettles(r, k) PROVE Agreement(r)'
  <2>1. /\ leads' = leads /\ flight' = flight /\ finisher[r][k] # "no"
        /\ \A m \in Keys :
             finisher'[r][m] = IF m = k THEN "remove" ELSE finisher[r][m]
    BY <1>6 DEF Types, FinisherSettles
  <2> QED
    BY <2>1 DEF Agreement
<1>7. ASSUME NEW k \in Keys, FinisherRemoves(r, k) PROVE Agreement(r)'
  <2>1. /\ leads' = leads /\ finisher[r][k] # "no"
        /\ \A m \in Keys : flight'[m] = IF m = k THEN NoOne ELSE flight[m]
        /\ \A m \in Keys :
             finisher'[r][m] = IF m = k THEN "no" ELSE finisher[r][m]
    BY <1>7 DEF Types, FinisherRemoves
  <2>2. k \notin leads[r] /\ leads[r] \subseteq Keys /\ NoOne # r
    BY <2>1, NoOneLeads DEF Types, Agreement
  <2> QED
    BY <2>1, <2>2 DEF Agreement
<1> QED
  BY <1>1, <1>2, <1>3, <1>4, <1>5, <1>6, <1>7 DEF Act, Step, Finish

\* Every step keeps the invariant.
LEMMA FlightStep == FlightInv /\ [Next]_vars => FlightInv'
<1> SUFFICES ASSUME FlightInv, [Next]_vars PROVE FlightInv'
  OBVIOUS
<1>1. Types'
  BY TypesStep
<1>2. ASSUME NEW r \in Requests, Act(r), NEW q \in Requests
      PROVE  Holding(q)' /\ Agreement(q)'
  BY <1>2, ActIsLocal, OthersKeep, ActHolds, ActAgrees
<1>3. ASSUME (\E k \in Keys : Evict(k)) \/ UNCHANGED vars, NEW q \in Requests
      PROVE  Holding(q)' /\ Agreement(q)'
  <2>1. UNCHANGED <<want, key, pc, follows, leads, flight, finisher>>
    BY <1>3 DEF Evict, vars
  <2>2. Holding(q)'
    BY <2>1 DEF FlightInv, Holding, Led
  <2>3. Agreement(q)'
    BY <2>1 DEF FlightInv, Agreement
  <2> QED
    BY <2>2, <2>3
<1> QED
  BY <1>1, <1>2, <1>3 DEF FlightInv, Next, Act

\* The invariant holds in every reachable state.
THEOREM FlightInvHolds == Spec => []FlightInv
  BY FlightInit, FlightStep, PTL DEF Spec

-----------------------------------------------------------------------------
\* The types hold, no request answers a client with the source of what it
\* asked for, and none ends while it leads a flight.
THEOREM TypeOKHolds == Spec => []TypeOK
<1>1. FlightInv => TypeOK
  <2> SUFFICES ASSUME FlightInv PROVE TypeOK
    OBVIOUS
  <2>1. left \in [Requests -> Seq(Keys)]
    <3>1. ASSUME NEW r \in Requests PROVE left[r] \in Seq(Keys)
      <4>1. left[r] \in Seq(Keys \ Virtual)
        BY DEF FlightInv, Types
      <4> QED
        BY <4>1
    <3> QED
      BY <3>1 DEF FlightInv, Types
  <2>2. ASSUME NEW r \in Requests
        PROVE  /\ key[r] # want[r] => want[r] \in leads[r] \/ pc[r] = "dropped"
               /\ pc[r] \in Over => leads[r] = {}
    BY DEF FlightInv, Types, Holding, Led, Over, Leading
  <2> QED
    BY <2>1, <2>2 DEF FlightInv, Types, TypeOK
<1> QED
  BY <1>1, FlightInvHolds, PTL

\* However requests, disconnects and finishers interleave, the flight of a
\* key that a request leads is its own: claim_inflight never admits two.
THEOREM LeadersHoldTheirFlightsHolds == Spec => []LeadersHoldTheirFlights
<1>1. FlightInv => LeadersHoldTheirFlights
  BY DEF FlightInv, Agreement, LeadersHoldTheirFlights
<1> QED
  BY <1>1, FlightInvHolds, PTL

\* Two requests never lead the flight of the same key: only one of them
\* downloads the segment or transcodes it.
COROLLARY OneLeaderHolds ==
  Spec => [](\A p, q \in Requests : p # q => leads[p] \cap leads[q] = {})
<1>1. FlightInv => \A p, q \in Requests : p # q => leads[p] \cap leads[q] = {}
  BY DEF FlightInv, Agreement
<1> QED
  BY <1>1, FlightInvHolds, PTL

\* InflightGuard keeps its promise for the paths that use it: a flight of a
\* real segment always has a leader, or its guard's task, to finish it.
THEOREM FlightsAreFinishedHolds == Spec => []FlightsAreFinished
<1>1. FlightInv => FlightsAreFinished
  BY NoOneLeads DEF FlightInv, Types, Agreement, FlightsAreFinished
<1> QED
  BY <1>1, FlightInvHolds, PTL
=============================================================================
