------------------------------ MODULE MCLedger ------------------------------
(* The whole ledger on small instances. *)
EXTENDS Ledger, TLC

CONSTANTS alice, bob, coin, token

MCOpening == [a \in AccountIds |-> IF a \in CustomerIds THEN 3
                                  ELSE IF a[1] = "custody" THEN -3 * Cardinality(Users) ELSE 0]
MCFee == [s \in Assets |-> 1]
MCNativeAsset == [s \in Assets |-> s]
MCCoinGas == [s \in Assets |-> coin]

MCSymmetry == Permutations(Calls)
=============================================================================
