--------------------------- MODULE TripLifecycle ---------------------------
(***************************************************************************)
(* What trip-sessions.service.ts promises about the lifetime of trips,     *)
(* without itineraries, activities or healing: a user travels on at most   *)
(* one session at a time, a session belongs to one user for good, and a    *)
(* session that is over stays over.                                        *)
(***************************************************************************)
CONSTANTS Users, Sessions

VARIABLES
    open,    \* open[u]: the sessions user u travels on
    over     \* the sessions that have ended

lifecycle == <<open, over>>

Init == open = [u \in Users |-> {}] /\ over = {}

Fresh(s) == s \notin over /\ \A u \in Users : s \notin open[u]

\* A trip starts; a trip whose itinerary was archived is ended by that.
Begin(u, s) ==
    /\ Fresh(s)
    /\ open' = [open EXCEPT ![u] = {s}]
    /\ over' = over \union open[u]

\* Starting an itinerary with nothing left to visit: over as soon as it begins.
BeginDone(u, s) ==
    /\ Fresh(s)
    /\ open' = [open EXCEPT ![u] = {}]
    /\ over' = over \union open[u] \union {s}

End(u) ==
    /\ open[u] # {}
    /\ open' = [open EXCEPT ![u] = {}]
    /\ over' = over \union open[u]

Next ==
    \E u \in Users :
        \/ End(u)
        \/ \E s \in Sessions : Begin(u, s) \/ BeginDone(u, s)

Spec == Init /\ [][Next]_lifecycle

=============================================================================
