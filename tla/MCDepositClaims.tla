-------------------------- MODULE MCDepositClaims --------------------------
(* Deposit claims on small instances. *)
EXTENDS DepositClaims, TLC

CONSTANTS alice, bob, carol, coin

MCOpening == [a \in AccountIds |-> IF a \in CustomerIds THEN 1
                                  ELSE IF a[1] = "custody" THEN -1 * Cardinality(Users) ELSE 0]

MCSymmetry == Permutations(Calls)
============================================================================
