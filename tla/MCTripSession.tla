--------------------------- MODULE MCTripSession ---------------------------
(* Constants for checking TripSession: one user who owns both itineraries. *)
EXTENDS TripSession

MCOwner == [i \in Itineraries |-> CHOOSE u \in Users : TRUE]
=============================================================================
