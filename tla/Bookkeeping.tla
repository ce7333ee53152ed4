---------------------------- MODULE Bookkeeping ----------------------------
(***************************************************************************)
(* What the ledger promises about money, with no calls, copies or versions *)
(* in it: each step looks at the balances as they are and changes them at  *)
(* once.  Customers' money enters from custody or demo, is reserved, is    *)
(* given back, or is paid out of a reservation to payable and fees.        *)
(***************************************************************************)
EXTENDS Integers

CONSTANTS Users, Assets

VARIABLES
  balance,  \* balance[<<owner, asset>>]
  held      \* held[<<owner, asset>>]: the part of it that is reserved

Sources == {"custody", "demo"}
Ids == (Users \cup Sources \cup {"fees", "payable"}) \X Assets

\* The ledger opens with nothing reserved and no customer in debt.
Init ==
  /\ balance \in [Ids -> Int]
  /\ held = [a \in Ids |-> 0]
  /\ \A u \in Users, s \in Assets : balance[<<u, s>>] >= 0

\* A positive amount enters, from custody or as demo funds.
Credit(u, s, source) ==
  LET n == balance'[<<u, s>>] - balance[<<u, s>>]
  IN /\ n > 0
     /\ balance' = [balance EXCEPT ![<<u, s>>] = @ + n, ![<<source, s>>] = @ - n]
     /\ UNCHANGED held

\* Some of what is free is set aside.
Reserve(u, s) ==
  /\ \E n \in 1..(balance[<<u, s>>] - held[<<u, s>>]) :
       held' = [held EXCEPT ![<<u, s>>] = @ + n]
  /\ UNCHANGED balance

\* A reservation, or a part of it, is given back.
GiveBack(u, s) ==
  /\ \E n \in 1..held[<<u, s>>] : held' = [held EXCEPT ![<<u, s>>] = @ - n]
  /\ UNCHANGED balance

\* What was reserved leaves the customer: the amount to payable, the rest to fees.
PayOut(u, s) ==
  \E n \in 1..held[<<u, s>>] : \E fee \in 0..(n - 1) :
    /\ balance' = [balance EXCEPT ![<<u, s>>] = @ - n,
                                  ![<<"payable", s>>] = @ + (n - fee),
                                  ![<<"fees", s>>] = @ + fee]
    /\ held' = [held EXCEPT ![<<u, s>>] = @ - n]

Next ==
  \E u \in Users, s \in Assets :
    \/ \E source \in Sources : Credit(u, s, source)
    \/ Reserve(u, s)
    \/ GiveBack(u, s)
    \/ PayOut(u, s)

Spec == Init /\ [][Next]_<<balance, held>>
============================================================================
