------------------------------- MODULE Ledger -------------------------------
(***************************************************************************)
(* The whole ledger: withdrawals and deposits run against the same account *)
(* rows.  They meet nowhere else: neither reads the other's records.       *)
(***************************************************************************)
EXTENDS Withdrawals, DepositClaims

\* The null is no row.
ASSUME NoRecordAssumption == None \notin TransferRow \cup WithdrawalRow \cup ClaimRow

vars == <<storeVars, withdrawalVars, claimVars>>

Init == StoreInit /\ WithdrawalInit /\ ClaimInit

WithdrawalStep(c) == (Request(c) \/ Decide(c)) /\ UNCHANGED claimVars
ClaimStep(c) ==
  (Submit(c) \/ Mark(c) \/ Settle(c) \/ CreditDirectly(c)) /\ UNCHANGED withdrawalVars
CrashStep(c) == CrashCall(c) /\ UNCHANGED <<withdrawalVars, claimVars>>

Next == \E c \in Calls : WithdrawalStep(c) \/ ClaimStep(c) \/ CrashStep(c)

Spec == Init /\ [][Next]_vars

\* The tables and the memory of the calls hold what their columns and fields may
\* hold, and a call at a step has the command and the copy that step works on.
LedgerTypeOK == WithdrawalTypeOK /\ ClaimTypeOK
=============================================================================
