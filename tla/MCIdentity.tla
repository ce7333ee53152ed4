----------------------------- MODULE MCIdentity -----------------------------
(* The identity module on small instances. *)
EXTENDS Identity, TLC

CONSTANTS alice, bob, carol, g1

MCGoogleEmail == [g \in Googles |-> carol]
MCSymmetry == Permutations(Calls)
=============================================================================
