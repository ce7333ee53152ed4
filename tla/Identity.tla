------------------------------ MODULE Identity ------------------------------
(***************************************************************************)
(* The identity module: every use case of SignIn and AccountCare, run by   *)
(* any number of people and operators at once over one set of tables.      *)
(***************************************************************************)
EXTENDS AccountCare

Next == \E c \in Calls : WayIn(c) \/ Care(c) \/ CrashCall(c)

Spec == StoreInit /\ [][Next]_vars

----------------------------------------------------------------------------
Steps == SignInSteps \cup GoogleSteps \cup LinkSteps \cup MailSteps \cup SessionSteps
           \cup RedeemSteps \cup ChangeSteps \cup TeamSteps \cup {"revokeAll"}
Commands == SignInCommand \cup RegisterCommand \cup GoogleCommand \cup LinkCommand
              \cup SessionCommand \cup AskCommand \cup RedeemCommand \cup ChangeCommand
              \cup StatusCommand

\* The tables hold what their columns may hold, and so does the memory of the calls:
\* a call under way has a command.
IdentityTypeOK ==
  /\ user \in [People -> UserRow \cup {None}]
  /\ session \in [SessionIds -> SessionRow \cup {None}]
  /\ token \in [Calls -> TokenRow \cup {None}]
  /\ link \in [Googles -> People \cup {None}]
  /\ redeemed \in [Calls -> SUBSET Calls]
  /\ pc \in [Calls -> Steps \cup Ended \cup {"idle"}]
  /\ cmd \in [Calls -> Commands \cup {None}]
  /\ mem \in [Calls -> UserRow \cup {None}]
  /\ seen \in [Calls -> SessionRow \cup TokenRow \cup {None}]
  /\ \A c \in Calls : Running(c) <=> cmd[c] # None

\* Seen from outside, every write to the users table is one decision of the abstract
\* account, taken on the account as it is and not as a call read it earlier: no failed
\* attempt is lost, no suspension or new password is overwritten by a sign-in that
\* began before it.  This rests on the version in users.save.
AccountOf(u) ==
  [password |-> u.password, status |-> u.status, admin |-> u.admin,
   verified |-> u.verified, failed |-> u.failed, locked |-> u.locked]
AccountsNow == [e \in People |-> IF user[e] = None THEN None ELSE AccountOf(user[e])]
Abstract == INSTANCE Accounts WITH account <- AccountsNow
AccountsAreAtomic == Abstract!Spec

\* The null is no row, no command and no account.
ASSUME NoRecordAssumption ==
  None \notin UserRow \cup SessionRow \cup TokenRow \cup Commands \cup Abstract!Account

\* "Nothing clears it except somebody deciding to" (user.ts:266): an account stops
\* being disabled only in the step in which an operator's reinstatement is saved.
SuspensionStands ==
  [][\A e \in People :
       user[e] # None /\ user[e].status = "disabled" /\ user'[e].status # "disabled"
         => \E c \in Calls : /\ pc[c] = "saveStatus" /\ cmd[c].user = e
                             /\ cmd[c].action = "reinstate"]_user

\* An account that is not disabled is marked locked exactly when its failures have
\* reached the limit, with a lockout set, and a copy of it no less than the row.
LockMatchesFailures ==
  \A e \in People :
    user[e] # None =>
      /\ user[e].locked <=> user[e].failed >= MaxFailed
      /\ user[e].status # "disabled" => (user[e].status = "locked" <=> user[e].locked)

\* "Consume before mutating the user" (verify-email.ts:45): wherever a reset stops, a
\* link that has set a password can set no other.
SpentBeforeUse == \A t \in Calls : redeemed[t] # {} => token[t].spent

\* A link stays spent, whoever writes the row back.
SpentStaysSpent ==
  [][\A t \in Calls : token[t] # None /\ token[t].spent => token'[t].spent]_token

\* "The check that stops somebody locking themselves out of their own account"
\* (google-connection.ts:69): who has a way in, a password or a Google account, is not
\* left without one, even by two requests that each see the other way still there.
HasWayIn(e) == user[e] # None /\ (user[e].password # None \/ Linked(e))
NobodyIsLockedOut ==
  [][\A e \in People : HasWayIn(e) => HasWayIn(e)']_<<user, link>>

----------------------------------------------------------------------------
(* What holds when calls about one person wait for each other. *)

\* A session that was revoked stays revoked ("a cookie somebody already copied would
\* otherwise keep working", resolve-session.ts:76).
RevocationStands ==
  [][\A s \in SessionIds : session[s] # None /\ session[s].revoked => session'[s].revoked]_session

\* "The token is consumed, so the link cannot be replayed" (reset-password.ts:32).
LinkSetsOnePassword == \A t \in Calls : Cardinality(redeemed[t]) <= 1

\* Once a reset or a change of password is through, no session is live that was opened
\* with a password no longer in force ("every existing session", reset-password.ts:34).
OldPasswordOpensNothing ==
  \A s \in SessionIds :
    /\ Live(s) /\ session[s].password # None
    /\ ~Busy(session[s].user)
    => session[s].password = user[session[s].user].password

\* "Never the last one standing" (set-admin-status.ts:32): some operator can still act.
AnOperatorRemains ==
  Admins # {} => \E a \in Admins : user[a].status # "disabled"
=============================================================================
