---------------------------- MODULE SingleFlight ----------------------------
(***************************************************************************)
(* How src/src/api/playback serves a segment: the cache lookup, the claim  *)
(* of the flight of its key, leaders that fetch, followers that wait for   *)
(* the outcome, finish_inflight, and InflightGuard, which finishes the     *)
(* flight of a leader whose future is dropped.  A virtual segment is made  *)
(* from source segments, so its leader claims further flights inside its   *)
(* own.                                                                    *)
(*                                                                         *)
(* One step is one critical section of the cache lock, of the map of       *)
(* flights or of an outcome: hyper may drop the handler of a client that   *)
(* left at any of the awaits in between.  Bytes are left out: an outcome   *)
(* is "ok" with the segment or "err".                                      *)
(***************************************************************************)
EXTENDS Naturals, Sequences, FiniteSets

CONSTANTS
  Requests,   \* requests for a segment, each for one key
  NoOne,      \* no leader: no flight under the key
  Keys,       \* cache keys
  Source,     \* Source[k]: the segments that the virtual segment k is made of
  Split,      \* keys of segments that are kept in several parts
  Clients     \* requests of HTTP clients; the others are prefetch and warm-up

Virtual == DOMAIN Source

ASSUME FlightAssumption ==
  /\ NoOne \notin Requests
  /\ Source \in [Virtual -> Seq(Keys \ Virtual) \ {<<>>}] /\ Virtual \subseteq Keys
  /\ Split \subseteq Keys \ Virtual
  /\ Clients \subseteq Requests

VARIABLES
  want,      \* the key a request asks for
  key,       \* the key it works on: that one, or a source of it
  left,      \* the sources it has not turned to yet
  pc,        \* its control state
  follows,   \* the leader whose flight it waits for
  got,       \* the result of the fetch it leads
  leads,     \* keys whose flights it has to finish (its armed guards)
  flight,    \* SegmentCache.inflight: the leader of the flight of a key
  outcome,   \* outcome[r][k] of the flight that r leads for k
  finisher,  \* finisher[r][k]: what a spawned finish_inflight has still to do
  cached     \* keys in the cache

vars == <<want, key, left, pc, follows, got, leads, flight, outcome, finisher, cached>>

-----------------------------------------------------------------------------
Result   == {"none", "ok", "err"}
Finisher == {"no", "setOk", "setErr", "remove"}
Over     == {"served", "failed", "dropped"}
Control  == Over \cup {"idle", "look", "claim", "wait", "fetch", "insert",
                       "settle", "remove"}

\* Variants of the operators below, each with a plausible slip.
Armed_Slip(r)           == {}
Disarmed_Slip(r)        == leads
Publish_Slip(r, k, res) == IF res = "ok" THEN [outcome EXCEPT ![r][k] = res]
                                         ELSE outcome
Resume_Slip(r, res) ==
  /\ pc' = [pc EXCEPT ![r] = IF res = "ok" THEN "served" ELSE "failed"]
  /\ UNCHANGED <<key, left, got>>

\* The flights that the drop of a request's future still finishes: those of
\* fetch_virtual_with_singleflight have no guard.
Armed(r) == leads[r] \ Virtual

Disarmed(r) == [leads EXCEPT ![r] = @ \ {key[r]}]

\* finish_inflight stores the outcome and wakes the followers.
Publish(r, k, res) == [outcome EXCEPT ![r][k] = res]

\* The request has the result for its key and answers with it; or that was a
\* source of a virtual segment, and it turns to the next one, transcodes them,
\* or fails its own flight.
Resume(r, res) ==
  IF key[r] = want[r]
    THEN /\ pc' = [pc EXCEPT ![r] = IF res = "ok" THEN "served" ELSE "failed"]
         /\ UNCHANGED <<key, left, got>>
    ELSE \/ /\ res = "ok" /\ left[r] # <<>>
            /\ key' = [key EXCEPT ![r] = Head(left[r])]
            /\ left' = [left EXCEPT ![r] = Tail(left[r])]
            /\ pc' = [pc EXCEPT ![r] = "look"]
            /\ UNCHANGED got
         \/ /\ res = "ok" /\ left[r] = <<>>
            /\ key' = [key EXCEPT ![r] = want[r]]
            /\ pc' = [pc EXCEPT ![r] = "fetch"]
            /\ UNCHANGED <<left, got>>
         \/ /\ res # "ok"
            /\ key' = [key EXCEPT ![r] = want[r]]
            /\ left' = [left EXCEPT ![r] = <<>>]
            /\ pc' = [pc EXCEPT ![r] = "settle"]
            /\ got' = [got EXCEPT ![r] = "err"]

-----------------------------------------------------------------------------
Init ==
  /\ want \in [Requests -> Keys] /\ key = want
  /\ left = [r \in Requests |-> <<>>]
  /\ pc = [r \in Requests |-> "idle"]
  /\ follows = [r \in Requests |-> NoOne]
  /\ got = [r \in Requests |-> "none"]
  /\ leads = [r \in Requests |-> {}]
  /\ flight = [k \in Keys |-> NoOne]
  /\ outcome = [r \in Requests |-> [k \in Keys |-> "none"]]
  /\ finisher = [r \in Requests |-> [k \in Keys |-> "no"]]
  /\ cached = {}

Arrive(r) ==
  /\ pc[r] = "idle"
  /\ pc' = [pc EXCEPT ![r] = "look"]
  /\ UNCHANGED <<want, key, left, follows, got, leads, flight, outcome, finisher, cached>>

\* The lookup in the cache.
Hit(r) ==
  /\ pc[r] = "look" /\ key[r] \in cached
  /\ Resume(r, "ok")
  /\ UNCHANGED <<want, follows, leads, flight, outcome, finisher, cached>>

Miss(r) ==
  /\ pc[r] = "look" /\ key[r] \notin cached
  /\ pc' = [pc EXCEPT ![r] = "claim"]
  /\ UNCHANGED <<want, key, left, follows, got, leads, flight, outcome, finisher, cached>>

\* The rows of the segment are missing or cannot be read.
LookupFails(r) ==
  /\ pc[r] = "claim" /\ key[r] \notin Virtual
  /\ Resume(r, "err")
  /\ UNCHANGED <<want, follows, leads, flight, outcome, finisher, cached>>

\* claim_inflight: the first becomes the leader, and nobody looks into the
\* cache again.
Claim(r) ==
  /\ pc[r] = "claim" /\ flight[key[r]] = NoOne
  /\ flight' = [flight EXCEPT ![key[r]] = r]
  /\ leads' = [leads EXCEPT ![r] = @ \cup {key[r]}]

Lead(r) ==
  /\ Claim(r) /\ key[r] \notin Virtual
  /\ pc' = [pc EXCEPT ![r] = "fetch"]
  /\ UNCHANGED <<want, key, left, follows, got, outcome, finisher, cached>>

\* The leader of a virtual segment turns to its sources, unless the tier is
\* not configured or the job cannot be read.
LeadVirtual(r) ==
  /\ Claim(r) /\ key[r] \in Virtual
  /\ \/ /\ key' = [key EXCEPT ![r] = Head(Source[key[r]])]
        /\ left' = [left EXCEPT ![r] = Tail(Source[key[r]])]
        /\ pc' = [pc EXCEPT ![r] = "look"]
        /\ UNCHANGED got
     \/ /\ got' = [got EXCEPT ![r] = "err"]
        /\ pc' = [pc EXCEPT ![r] = "settle"]
        /\ UNCHANGED <<key, left>>
  /\ UNCHANGED <<want, follows, outcome, finisher, cached>>

Follow(r) ==
  /\ pc[r] = "claim" /\ flight[key[r]] # NoOne
  /\ follows' = [follows EXCEPT ![r] = flight[key[r]]]
  /\ pc' = [pc EXCEPT ![r] = "wait"]
  /\ UNCHANGED <<want, key, left, got, leads, flight, outcome, finisher, cached>>

\* wait_for_outcome: the notification is registered before the outcome is
\* read, so none is missed.
Wake(r) ==
  /\ pc[r] = "wait" /\ outcome[follows[r]][key[r]] # "none"
  /\ Resume(r, outcome[follows[r]][key[r]])
  /\ UNCHANGED <<want, follows, leads, flight, outcome, finisher, cached>>

\* It gives up after 300 seconds.
WaitTimesOut(r) ==
  /\ pc[r] = "wait" /\ outcome[follows[r]][key[r]] = "none"
  /\ Resume(r, "err")
  /\ UNCHANGED <<want, follows, leads, flight, outcome, finisher, cached>>

\* The download, with decryption and recovery, or the transcoding ends.
Fetched(r) ==
  /\ pc[r] = "fetch"
  /\ \/ /\ got' = [got EXCEPT ![r] = "ok"]
        /\ pc' = [pc EXCEPT ![r] = "insert"]
     \/ /\ got' = [got EXCEPT ![r] = "err"]
        /\ pc' = [pc EXCEPT ![r] = "settle"]
  /\ UNCHANGED <<want, key, left, follows, leads, flight, outcome, finisher, cached>>

Insert(r) ==
  /\ pc[r] = "insert"
  /\ cached' = cached \cup {key[r]}
  /\ pc' = [pc EXCEPT ![r] = "settle"]
  /\ UNCHANGED <<want, key, left, follows, got, leads, flight, outcome, finisher>>

\* serve_reconstructed_segment leaves a successful finish to a task of its own.
Detaches(r) == /\ got[r] = "ok" /\ key[r] = want[r] /\ key[r] \in Split
               /\ r \in Clients

Detach(r) ==
  /\ pc[r] = "settle" /\ Detaches(r)
  /\ finisher' = [finisher EXCEPT ![r][key[r]] = "setOk"]
  /\ leads' = Disarmed(r)
  /\ pc' = [pc EXCEPT ![r] = "served"]
  /\ UNCHANGED <<want, key, left, follows, got, flight, outcome, cached>>

\* finish_inflight, first part.
Settle(r) ==
  /\ pc[r] = "settle" /\ ~Detaches(r)
  /\ outcome' = Publish(r, key[r], got[r])
  /\ pc' = [pc EXCEPT ![r] = "remove"]
  /\ UNCHANGED <<want, key, left, follows, got, leads, flight, finisher, cached>>

\* Second part; then the guard is disarmed.
Remove(r) ==
  /\ pc[r] = "remove"
  /\ flight' = [flight EXCEPT ![key[r]] = NoOne]
  /\ leads' = Disarmed(r)
  /\ Resume(r, got[r])
  /\ UNCHANGED <<want, follows, outcome, finisher, cached>>

\* The client leaves and the handler's future is dropped, its guards with it.
Disconnect(r) ==
  /\ r \in Clients /\ pc[r] \notin Over \cup {"idle"}
  /\ pc' = [pc EXCEPT ![r] = "dropped"]
  /\ finisher' = [finisher EXCEPT ![r] =
                    [k \in Keys |-> IF k \in Armed(r) THEN "setErr" ELSE @[k]]]
  /\ leads' = [leads EXCEPT ![r] = {}]
  /\ UNCHANGED <<want, key, left, follows, got, flight, outcome, cached>>

\* A spawned finish_inflight: its two parts.
FinisherSettles(r, k) ==
  /\ finisher[r][k] \in {"setOk", "setErr"}
  /\ outcome' = Publish(r, k, IF finisher[r][k] = "setOk" THEN "ok" ELSE "err")
  /\ finisher' = [finisher EXCEPT ![r][k] = "remove"]
  /\ UNCHANGED <<want, key, left, pc, follows, got, leads, flight, cached>>

FinisherRemoves(r, k) ==
  /\ finisher[r][k] = "remove"
  /\ flight' = [flight EXCEPT ![k] = NoOne]
  /\ finisher' = [finisher EXCEPT ![r][k] = "no"]
  /\ UNCHANGED <<want, key, left, pc, follows, got, leads, outcome, cached>>

\* Other insertions push the key out of the cache.
Evict(k) ==
  /\ k \in cached
  /\ cached' = cached \ {k}
  /\ UNCHANGED <<want, key, left, pc, follows, got, leads, flight, outcome, finisher>>

-----------------------------------------------------------------------------
Step(r) == \/ Hit(r) \/ Miss(r) \/ Lead(r) \/ LeadVirtual(r) \/ Follow(r) \/ Wake(r)
           \/ Fetched(r) \/ Insert(r) \/ Detach(r) \/ Settle(r) \/ Remove(r)

Finish(r, k) == FinisherSettles(r, k) \/ FinisherRemoves(r, k)

Next ==
  \/ \E r \in Requests : \/ Arrive(r) \/ Step(r) \/ LookupFails(r)
                         \/ WaitTimesOut(r) \/ Disconnect(r)
                         \/ \E k \in Keys : Finish(r, k)
  \/ \E k \in Keys : Evict(k)

Spec == Init /\ [][Next]_vars

\* Tasks run on, and every download and transcoding is bounded by a timeout.
\* Nothing is assumed of the timeout of a wait.
Fairness == \A r \in Requests :
              WF_vars(Step(r)) /\ \A k \in Keys : WF_vars(Finish(r, k))

FairSpec == Spec /\ Fairness
-----------------------------------------------------------------------------
(* Properties.                                                             *)

\* Variables have their types, and a request works on its own key or on a
\* source of it: it never answers with a source, and never ends while it
\* still has a flight to finish.
TypeOK ==
  /\ want \in [Requests -> Keys] /\ key \in [Requests -> Keys]
  /\ left \in [Requests -> Seq(Keys)]
  /\ pc \in [Requests -> Control]
  /\ follows \in [Requests -> Requests \cup {NoOne}]
  /\ got \in [Requests -> Result]
  /\ leads \in [Requests -> SUBSET Keys]
  /\ flight \in [Keys -> Requests \cup {NoOne}]
  /\ outcome \in [Requests -> [Keys -> Result]]
  /\ finisher \in [Requests -> [Keys -> Finisher]]
  /\ cached \subseteq Keys
  /\ \A r \in Requests :
       /\ key[r] # want[r] => want[r] \in leads[r] \/ pc[r] = "dropped"
       /\ pc[r] \in Over => leads[r] = {}

\* A segment is fetched by one request at a time: the flight of a key a
\* request leads is its own, whoever else finished, was dropped or gave up.
LeadersHoldTheirFlights ==
  \A r \in Requests : \A k \in leads[r] : flight[k] = r

\* No flight of a real segment is left in the map with nobody to finish it,
\* even if its leader's client leaves in the middle of finish_inflight.
FlightsAreFinished ==
  \A k \in Keys \ Virtual :
    flight[k] # NoOne =>
      k \in leads[flight[k]] \/ finisher[flight[k]][k] # "no"

\* Who waits for a real segment gets an answer from its leader or the
\* leader's guard and never depends on the 300 second timeout.
FollowersAreAnswered ==
  \A r \in Requests :
    pc[r] = "wait" /\ key[r] \notin Virtual ~> pc[r] # "wait"

-----------------------------------------------------------------------------
(* What the documentation says and the code does not do.                   *)

\* The comment on InflightGuard: no poisoned entry, whose outcome is never
\* set, stays in the map.
NoPoisonedFlight ==
  \A k \in Keys :
    flight[k] # NoOne =>
      k \in leads[flight[k]] \/ finisher[flight[k]][k] # "no"
=============================================================================
