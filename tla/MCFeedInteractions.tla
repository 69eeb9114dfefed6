------------------------- MODULE MCFeedInteractions -------------------------
(* FeedInteractions for TLC. *)
EXTENDS FeedInteractions, TLC

CONSTANTS u1, u2, r1, r2

TwoUsers == {u1, u2}
TwoSlots == {r1, r2}

=============================================================================
