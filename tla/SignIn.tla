------------------------------- MODULE SignIn -------------------------------
(***************************************************************************)
(* The ways to a session: registerUser, authenticate, signInWithGoogle,    *)
(* and connecting and disconnecting a Google account.                      *)
(*                                                                         *)
(* The forms enumerated are those that pass the checks no table is needed  *)
(* for (a well-formed address, a password within the policy).              *)
(***************************************************************************)
EXTENDS IdentityStore

SignInSteps == {"saveAttempt", "issue"}
GoogleSteps == {"googleEmail", "googleInsert", "googleLink", "googleUser", "saveVouched"}
LinkSteps == {"connectLink", "unlink"}
MailSteps == {"supersede", "mailLink"}

SignInCommand == [op : {"signIn"}, user : People, right : BOOLEAN,
                  password : Passwords \cup {None}]
RegisterCommand == [op : {"register"}, user : People, password : Calls,
                    purpose : {"email-verification"}]
GoogleCommand == [op : {"google"}, user : People, google : Googles, password : {None}]
LinkCommand == [op : {"connect", "disconnect"}, user : People, google : Googles \cup {None}]

----------------------------------------------------------------------------
(* authenticate *)

\* The account may be attempted: it exists, is not disabled and has a password.
Attemptable(e) ==
  user[e] # None /\ user[e].status # "disabled" /\ user[e].password # None

\* The row is read and checked before the password is; a lockout refuses while it lasts.
ReadForSignIn(c, e, right) ==
  /\ Start(c, {e})
  /\ \/ /\ Attemptable(e)
        /\ ReadUser(c, e)
        /\ Command(c, [op |-> "signIn", user |-> e, right |-> right,
                       password |-> user[e].password])
        /\ GoTo(c, "saveAttempt")
        /\ UNCHANGED seen
     \/ /\ Attemptable(e) => user[e].locked
        /\ End(c, "refused")
  /\ UNCHANGED tables

\* After the comparison with the hash that was read: the failure is counted, or the
\* count is cleared.
SaveAttempt(c) ==
  /\ pc[c] = "saveAttempt"
  /\ \/ LoseRace(c)
     \/ /\ CanSaveUser(c)
        /\ IF cmd[c].right
           THEN SaveUser(c, RecordSuccess(mem[c])) /\ GoTo(c, "issue")
                  /\ UNCHANGED <<cmd, mem, seen>>
           ELSE SaveUser(c, RecordFailedAttempt(mem[c])) /\ End(c, "refused")
        /\ UNCHANGED <<session, token, link, redeemed>>

\* issueSession, the last write of every way in.
IssueSession(c) ==
  /\ pc[c] = "issue"
  /\ session' = [session EXCEPT ![c] =
       [user |-> cmd[c].user, revoked |-> FALSE, password |-> cmd[c].password]]
  /\ End(c, "ok")
  /\ UNCHANGED <<user, token, link, redeemed>>

----------------------------------------------------------------------------
(* registerUser *)

\* The unique index on the address decides who registers it.
Register(c, e) ==
  /\ Start(c, {e})
  /\ IF user[e] # None
     THEN End(c, "refused") /\ UNCHANGED user
     ELSE /\ Insert(c, e, c)
          /\ Command(c, [op |-> "register", user |-> e, password |-> c,
                         purpose |-> "email-verification"])
          /\ GoTo(c, "supersede")
          /\ UNCHANGED seen
  /\ UNCHANGED <<session, token, link, redeemed>>

\* sendVerificationEmail and sendPasswordResetEmail: what follows them.
AfterMail(c) ==
  IF cmd[c].op = "register" THEN GoTo(c, "issue") /\ UNCHANGED <<cmd, mem, seen>>
                            ELSE End(c, "ok")

\* issueToken: the links mailed before are spent, and the new one is saved, in two
\* statements.
Supersede(c) ==
  /\ pc[c] = "supersede"
  /\ ConsumeOutstanding(cmd[c].user, cmd[c].purpose)
  /\ GoTo(c, "mailLink")
  /\ UNCHANGED <<user, session, link, redeemed, cmd, mem, seen>>
MailLink(c) ==
  /\ pc[c] = "mailLink"
  /\ token' = [token EXCEPT
       ![c] = [user |-> cmd[c].user, purpose |-> cmd[c].purpose, spent |-> FALSE]]
  /\ AfterMail(c)
  /\ UNCHANGED <<user, session, link, redeemed>>

\* Either statement fails: the error is logged, and the caller carries on.
MailFails(c) == pc[c] \in MailSteps /\ AfterMail(c) /\ UNCHANGED tables

----------------------------------------------------------------------------
(* signInWithGoogle *)

\* The link is looked up first; without one the address must be verified at Google.
FindLink(c, g) ==
  LET e == IF link[g] # None THEN link[g] ELSE GoogleEmail[g]
  IN /\ Start(c, {e})
     /\ \/ /\ Command(c, [op |-> "google", user |-> e, google |-> g, password |-> None])
           /\ GoTo(c, IF link[g] # None THEN "googleUser" ELSE "googleEmail")
           /\ UNCHANGED <<mem, seen>>
        \/ link[g] = None /\ End(c, "refused")
     /\ UNCHANGED tables

\* An account with that address is linked; without one, it is created.
FindByEmail(c) ==
  /\ pc[c] = "googleEmail"
  /\ IF user[cmd[c].user] # None
     THEN ReadUser(c, cmd[c].user) /\ GoTo(c, "googleLink")
     ELSE GoTo(c, "googleInsert") /\ UNCHANGED mem
  /\ UNCHANGED <<tables, cmd, seen>>

\* Losing the address to a registration falls back to linking it.
InsertByGoogle(c) ==
  /\ pc[c] = "googleInsert"
  /\ IF user[cmd[c].user] = None
     THEN Insert(c, cmd[c].user, None) /\ GoTo(c, "googleLink")
     ELSE GoTo(c, "googleEmail") /\ UNCHANGED <<user, mem>>
  /\ UNCHANGED <<session, token, link, redeemed, cmd, seen>>

\* A disabled account is refused, and only after it has been linked.
Admit(c, row) ==
  IF row.status = "disabled"
  THEN End(c, "refused")
  ELSE GoTo(c, "saveVouched") /\ mem' = [mem EXCEPT ![c] = row] /\ UNCHANGED <<cmd, seen>>

LinkByGoogle(c) ==
  /\ pc[c] = "googleLink"
  /\ IF MayLink(cmd[c].google, cmd[c].user)
     THEN link' = [link EXCEPT ![cmd[c].google] = cmd[c].user] /\ Admit(c, mem[c])
     ELSE End(c, "refused") /\ UNCHANGED link
  /\ UNCHANGED <<user, session, token, redeemed>>

ReadLinkedUser(c) ==
  pc[c] = "googleUser" /\ Admit(c, user[cmd[c].user]) /\ UNCHANGED tables

SaveVouched(c) ==
  /\ pc[c] = "saveVouched"
  /\ \/ LoseRace(c)
     \/ /\ CanSaveUser(c)
        /\ SaveUser(c, Vouched(mem[c]))
        /\ GoTo(c, "issue")
        /\ UNCHANGED <<session, token, link, redeemed, cmd, mem, seen>>

----------------------------------------------------------------------------
(* connectGoogle and disconnectGoogle, from the security page of who is signed in. *)

ReadLinks(c, e, g) ==
  /\ Start(c, {e}) /\ SignedIn(e)
  /\ IF Linked(e)
     THEN End(c, "refused")
     ELSE /\ Command(c, [op |-> "connect", user |-> e, google |-> g])
          /\ GoTo(c, "connectLink")
          /\ UNCHANGED <<mem, seen>>
  /\ UNCHANGED tables

ConnectLink(c) ==
  /\ pc[c] = "connectLink"
  /\ IF MayLink(cmd[c].google, cmd[c].user)
     THEN link' = [link EXCEPT ![cmd[c].google] = cmd[c].user] /\ End(c, "ok")
     ELSE UNCHANGED link /\ End(c, "refused")
  /\ UNCHANGED <<user, session, token, redeemed>>

\* Mutant: the last way in may be disconnected.
HasPasswordAlways(e) == TRUE
HasPassword(e) == user[e].password # None

ReadMethods(c, e) ==
  /\ Start(c, {e}) /\ SignedIn(e)
  /\ IF HasPassword(e)
     THEN /\ Command(c, [op |-> "disconnect", user |-> e, google |-> None])
          /\ GoTo(c, "unlink")
          /\ UNCHANGED <<mem, seen>>
     ELSE End(c, "refused")
  /\ UNCHANGED tables

Unlink(c) ==
  /\ pc[c] = "unlink"
  /\ link' = [g \in Googles |-> IF link[g] = cmd[c].user THEN None ELSE link[g]]
  /\ End(c, IF Linked(cmd[c].user) THEN "ok" ELSE "refused")
  /\ UNCHANGED <<user, session, token, redeemed>>

----------------------------------------------------------------------------
WayIn(c) ==
  \/ \E e \in People, right \in BOOLEAN : ReadForSignIn(c, e, right)
  \/ SaveAttempt(c)
  \/ IssueSession(c)
  \/ \E e \in People : Register(c, e)
  \/ Supersede(c)
  \/ MailLink(c)
  \/ MailFails(c)
  \/ \E g \in Googles : FindLink(c, g)
  \/ FindByEmail(c)
  \/ InsertByGoogle(c)
  \/ LinkByGoogle(c)
  \/ ReadLinkedUser(c)
  \/ SaveVouched(c)
  \/ \E e \in People, g \in Googles : ReadLinks(c, e, g)
  \/ ConnectLink(c)
  \/ \E e \in People : ReadMethods(c, e)
  \/ Unlink(c)
=============================================================================
