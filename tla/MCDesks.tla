------------------------------ MODULE MCDesks --------------------------------
(* The seven services on small instances.  c1 and c2 stand for the two customers, for *)
(* the two slots of calls and for the two operators on a notice: each pair may be      *)
(* exchanged, so all may be at once.                                                   *)
EXTENDS Desks, TLC

CONSTANTS c1, c2

MCSymmetry == Permutations({c1, c2})
=============================================================================
