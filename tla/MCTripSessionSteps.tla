------------------------- MODULE MCTripSessionSteps -------------------------
(* TripSessionSteps for TLC. *)
EXTENDS TripSessionSteps, TLC

CONSTANTS p1, p2

OneSlot == {p1}
TwoSlots == {p1, p2}

\* Slots are interchangeable (safety runs only).
SlotSymmetry == Permutations(Slots)
=============================================================================
