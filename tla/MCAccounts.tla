----------------------------- MODULE MCAccounts -----------------------------
(* Accounts for TLC: each user has a Google account with the same address. *)
EXTENDS Accounts, TLC

CONSTANTS u1, u2, g1, g2, r1, r2

TwoUsers == {u1, u2}
TwoGoogleAccounts == {g1, g2}
TwoSlots == {r1, r2}
MCGoogleEmail == (g1 :> u1) @@ (g2 :> u2)

SlotSymmetry == Permutations(Slots)
=============================================================================
