--------------------------- MODULE MCTripRequests ---------------------------
(***************************************************************************)
(* TripSessionSteps for TLC, in four parts that differ in the operations,  *)
(* the bounds and the client.  A behaviour is of one part, chosen at the   *)
(* beginning: "follow", for which the constants of the module stand, or    *)
(* one of the instances.                                                   *)
(***************************************************************************)
EXTENDS TripSessionSteps, TLC

CONSTANTS p1, p2, p3

VARIABLE part

TwoSlots == {p1, p2}

\* Slots are interchangeable (where liveness is not checked).
SlotSymmetry == Permutations(TwoSlots)

\* One request after another, which may be abandoned at any await, with edits.
Crash == INSTANCE TripSessionSteps WITH
    Slots <- {p3}, InitialItems <- 2, MaxActivities <- 4, MaxSessions <- 1, MaxFailures <- 2,
    Ops <- {"startTrip", "completeActivity", "skipActivity", "addActivity", "deleteActivity"}

\* Two requests at a time of a client that goes on completing.
Ends == INSTANCE TripSessionSteps WITH
    Slots <- TwoSlots, InitialItems <- 3, MaxActivities <- 3, MaxSessions <- 1, MaxFailures <- 0,
    Ops <- {"startTrip", "startActivity", "completeActivity", "skipActivity", "syncLocation"}

\* Two requests at a time of a client that polls, while the itinerary is deleted.
Orphans == INSTANCE TripSessionSteps WITH
    Slots <- TwoSlots, InitialItems <- 1, MaxActivities <- 3, MaxSessions <- 2, MaxFailures <- 0,
    Ops <- {"startTrip", "getActiveSession", "deleteItinerary", "addActivity", "cancelTrip"}

-----------------------------------------------------------------------------
SafetyInit ==
    /\ part \in {"follow", "crash"}
    /\ IF part = "follow" THEN Init ELSE Crash!Init

SafetyNext ==
    \/ part = "follow" /\ Next /\ UNCHANGED part
    \/ part = "crash" /\ Crash!Next /\ UNCHANGED part

partVars == <<part, vars>>

SafetySpec == SafetyInit /\ [][SafetyNext]_partVars

LivenessInit ==
    /\ part \in {"ends", "orphans"}
    /\ IF part = "ends" THEN Ends!Init ELSE Orphans!Init

LivenessNext ==
    \/ part = "ends" /\ Ends!Next /\ UNCHANGED part
    \/ part = "orphans" /\ Orphans!Next /\ UNCHANGED part

\* GuidedSpec of the one and PollingSpec of the other.
Fairness ==
    /\ \A p \in TwoSlots :
          /\ WF_partVars(part = "ends" /\ Ends!Continue(p) /\ UNCHANGED part)
          /\ WF_partVars(part = "orphans" /\ Orphans!Continue(p) /\ UNCHANGED part)
    /\ SF_partVars(part = "ends" /\ (\E p \in TwoSlots : Ends!completeNext(p, 1)) /\ UNCHANGED part)
    /\ SF_partVars(part = "orphans" /\ (\E p \in TwoSlots : Orphans!findOrphan(p)) /\ UNCHANGED part)

LivenessSpec == LivenessInit /\ [][LivenessNext]_partVars /\ Fairness

-----------------------------------------------------------------------------
(* Properties: those of the parts.                                         *)

\* The tables and the requests have their types, and no interleaving of requests on the
\* same activity loses the mark of the itinerary.
StepsInv == IF part = "follow" THEN TypeOK /\ FlagFollowsRow ELSE Crash!TypeOK

\* Once all requests are answered, an ACTIVE session has something left to do.
NobodyStranded == part = "follow" => NotStrandedAtRest

\* Without edits, a request that found a session ACTIVE does not bring it back after
\* another has ended it.
EndedStaysEnded == [][part = "follow" => StaysEnded]_partVars

\* A reconciliation that runs to its end repairs the session, whatever step earlier
\* ones were abandoned at.
CrashRepaired == [][part = "crash" => Crash!Repairs]_partVars

\* With a client that keeps completing activities a trip ends by itself, whatever
\* other requests do at the same time.
EveryTripEnds == part = "ends" => Ends!TripEnds

\* With a client that polls for its active session, deleting an itinerary ends
\* every session on it for good: also one that a startTrip in progress creates,
\* or an edit in progress reconciles, after the deletion cancelled the others.
NoOrphanLeft ==
    part = "orphans" /\ ~ live ~> [](part = "orphans" => Orphans!ActiveSessions = {})

=============================================================================
