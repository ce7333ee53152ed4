--------------------------- MODULE MCWithdrawals ---------------------------
(* Withdrawals on small instances. *)
EXTENDS Withdrawals, TLC

CONSTANTS alice, bob, carol, coin

MCOneAmount == {2}
MCOpening == [a \in AccountIds |-> IF a \in CustomerIds THEN 4
                                  ELSE IF a[1] = "custody" THEN -4 * Cardinality(Users) ELSE 0]
MCFreeCoin == [s \in Assets |-> 0]
MCOwnGas == [s \in Assets |-> s]

MCSymmetry == Permutations(Calls)
============================================================================
