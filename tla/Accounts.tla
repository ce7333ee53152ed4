------------------------------ MODULE Accounts ------------------------------
(***************************************************************************)
(* What the identity module promises about an account, with no calls,      *)
(* copies or versions in it: each decision is taken on the account as it   *)
(* stands and carried out at once.                                         *)
(***************************************************************************)
EXTENDS UserRules

CONSTANTS
  People,     \* addresses an account may be registered under
  Passwords   \* every password anybody ever sets

VARIABLE account  \* account[e]: the account of address e, or None

Account == [password : Passwords \cup {None}, status : {"active", "locked", "disabled"},
            admin : BOOLEAN, verified : BOOLEAN, failed : Nat, locked : BOOLEAN]

Becomes(e, row) == account' = [account EXCEPT ![e] = row]
Exists(e) == account[e] # None
Enabled(e) == Exists(e) /\ account[e].status # "disabled"

Init == account \in [People -> Account \cup {None}]

\* An address is taken once, by a form with a password or by Google with none.
Open(e) ==
  /\ ~Exists(e)
  /\ \E p \in Passwords \cup {None} :
       Becomes(e, [password |-> p, status |-> "active", admin |-> FALSE,
                   verified |-> p = None, failed |-> 0, locked |-> FALSE])

\* An attempt counts, or clears the count, only on an account that is not disabled.
Miss(e) == Enabled(e) /\ Becomes(e, RecordFailedAttempt(account[e]))
Enter(e) == Enabled(e) /\ Becomes(e, RecordSuccess(account[e]))
EnterByGoogle(e) == Enabled(e) /\ Becomes(e, Vouched(account[e]))

Confirm(e) == Exists(e) /\ Becomes(e, VerifyEmail(account[e]))
Recover(e) == Exists(e) /\ \E p \in Passwords : Becomes(e, Recovered(account[e], p))
Change(e) == Enabled(e) /\ \E p \in Passwords : Becomes(e, ReplacePassword(account[e], p))

\* Only operators are suspended and reinstated.
TakeOut(e) == Exists(e) /\ account[e].admin /\ Becomes(e, Suspend(account[e]))
BringBack(e) == Exists(e) /\ account[e].admin /\ Becomes(e, Reinstate(account[e]))

Next ==
  \E e \in People :
    Open(e) \/ Miss(e) \/ Enter(e) \/ EnterByGoogle(e) \/ Confirm(e) \/ Recover(e)
      \/ Change(e) \/ TakeOut(e) \/ BringBack(e)

Spec == Init /\ [][Next]_account
=============================================================================
