----------------------------- MODULE WorkerPool -----------------------------
(***************************************************************************)
(* What enqueue_job, the job channel, job_dispatcher and its semaphore      *)
(* promise together: a bounded pool that takes every request in at most    *)
(* once, runs it at most once, and never runs more than Size at a time.    *)
(* JobLifecycle implements it (JobLifecycle!Pool).                         *)
(***************************************************************************)
EXTENDS Naturals, FiniteSets

CONSTANTS Requests, Size

VARIABLE place    \* "new", "waiting", "running" or "out"

Places == {"new", "waiting", "running", "out"}

At(p) == {r \in Requests : place[r] = p}

Init == place = [r \in Requests |-> "new"]

Move(r, from, to) ==
  /\ place[r] = from
  /\ place' = [place EXCEPT ![r] = to]

\* A request is accepted, or its submitter gives up before that.
Accept(r) == Move(r, "new", "waiting")
Refuse(r) == Move(r, "new", "out")

\* It gets one of the free slots, and frees it when it ends.
Start(r) == Cardinality(At("running")) < Size /\ Move(r, "waiting", "running")
End(r)   == Move(r, "running", "out")

\* A shutdown loses requests that wait, a restart all that are under way.
Lose ==
  \E lost \in SUBSET Requests :
    place' = [r \in Requests |-> IF r \in lost THEN "out" ELSE place[r]]

Next == \/ \E r \in Requests : Accept(r) \/ Refuse(r) \/ Start(r) \/ End(r)
        \/ Lose

Spec == Init /\ [][Next]_place
=============================================================================
