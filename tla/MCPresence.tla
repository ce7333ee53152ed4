------------------------------ MODULE MCPresence ------------------------------
(* One browser of two tabs.  Its tabs, its pages and the slots of its requests may be *)
(* exchanged.                                                                         *)
EXTENDS Presence, TLC

MCSymmetry == Permutations(Tabs) \cup Permutations(Pages) \cup Permutations(Beats)
=============================================================================
