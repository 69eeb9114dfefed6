-------------------------- MODULE MCItineraryPlan --------------------------
(* The instance of ItineraryPlan that TLC checks.                          *)
EXTENDS ItineraryPlan

CONSTANTS p1, p2

\* One minute from one place to the other.
MCTravel == [pq \in Places \X Places |-> IF pq[1] = pq[2] THEN 0 ELSE 1]

\* A template that is priced too low, and counts a leg before its first activity and none
\* between two far places.
MCTemplates ==
    {[travel |-> 1, budget |-> 0,
      day |-> <<[travel |-> 1, cost |-> 1], [travel |-> 0, cost |-> 1]>>,
      item |-> [a \in 1 .. 2 |-> [day |-> a, idx |-> 0, place |-> IF a = 1 THEN p1 ELSE p2,
                                  cost |-> 1, leg |-> 2 - a, start |-> 1]]]}

\* No action reads edited, and the properties of a step read its new value only.
Rows == <<plan, day, item>>

=============================================================================
