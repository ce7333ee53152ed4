----------------------------- MODULE AccountCare -----------------------------
(***************************************************************************)
(* What happens to an account that exists: sessions are resolved and       *)
(* ended, passwords are changed and reset, addresses are confirmed, and    *)
(* operators are suspended and reinstated.                                 *)
(***************************************************************************)
EXTENDS SignIn

SessionSteps == {"readOwner", "slide", "revokeOne"}
RedeemSteps == {"readHolder", "spend", "saveHolder"}
ChangeSteps == {"readKept", "saveChange", "revokeOthers"}
TeamSteps == {"countAdmins", "saveStatus"}

SessionCommand == [op : {"resolve", "signOut"}, user : People, session : SessionIds]
AskCommand == [op : {"ask"}, user : People, purpose : Purposes]
RedeemCommand == [op : {"redeem"}, user : People, token : Calls, purpose : Purposes]
ChangeCommand == [op : {"change"}, user : People, keep : SessionIds]
StatusCommand == [op : {"setStatus"}, user : People, actor : Admins,
                  action : {"suspend", "reinstate"}]

----------------------------------------------------------------------------
(* resolveSession: every request of somebody signed in. *)

\* Mutant: revocation is not looked at.
ReadSessionRevoked(c, s) ==
  /\ session[s] # None /\ Start(c, {session[s].user})
  /\ seen' = [seen EXCEPT ![c] = [session[s] EXCEPT !.revoked = FALSE]]
  /\ Command(c, [op |-> "resolve", user |-> session[s].user, session |-> s])
  /\ GoTo(c, "readOwner")
  /\ UNCHANGED <<tables, mem>>
ReadSession(c, s) ==
  /\ session[s] # None /\ Start(c, {session[s].user})
  /\ \/ /\ Live(s)
        /\ seen' = [seen EXCEPT ![c] = session[s]]
        /\ Command(c, [op |-> "resolve", user |-> session[s].user, session |-> s])
        /\ GoTo(c, "readOwner")
        /\ UNCHANGED mem
     \/ End(c, "refused")
  /\ UNCHANGED tables

\* A disabled account is refused at once; the row is saved once a minute at most.
ReadOwner(c) ==
  /\ pc[c] = "readOwner"
  /\ IF user[cmd[c].user].status = "disabled"
     THEN End(c, "refused")
     ELSE \/ End(c, "ok")
          \/ GoTo(c, "slide") /\ UNCHANGED <<cmd, mem, seen>>
  /\ UNCHANGED tables

Slide(c) ==
  /\ pc[c] = "slide"
  /\ SaveSession(cmd[c].session, seen[c])
  /\ End(c, "ok")
  /\ UNCHANGED <<user, token, link, redeemed>>

----------------------------------------------------------------------------
(* signOut, and "log out everywhere" *)

ReadToSignOut(c, s) ==
  /\ session[s] # None /\ Start(c, {session[s].user})
  /\ seen' = [seen EXCEPT ![c] = [session[s] EXCEPT !.revoked = TRUE]]
  /\ Command(c, [op |-> "signOut", user |-> session[s].user, session |-> s])
  /\ GoTo(c, "revokeOne")
  /\ UNCHANGED <<tables, mem>>

RevokeOne(c) ==
  /\ pc[c] = "revokeOne"
  /\ SaveSession(cmd[c].session, seen[c])
  /\ End(c, "ok")
  /\ UNCHANGED <<user, token, link, redeemed>>

RevokeAllSessions(c, e) ==
  /\ Start(c, {e}) /\ SignedIn(e)
  /\ RevokeAllForUser(e)
  /\ End(c, "ok")
  /\ UNCHANGED <<user, token, link, redeemed>>

----------------------------------------------------------------------------
(* requestPasswordReset and resendVerification *)

Sendable(e, p) ==
  /\ user[e] # None
  /\ p = "password-reset" => user[e].status # "disabled"
  /\ p = "email-verification" => ~user[e].verified

AskForLink(c, e, p) ==
  /\ Start(c, {e})
  /\ p = "email-verification" => SignedIn(e)
  /\ IF Sendable(e, p)
     THEN /\ Command(c, [op |-> "ask", user |-> e, purpose |-> p])
          /\ GoTo(c, "supersede")
          /\ UNCHANGED <<mem, seen>>
     ELSE End(c, "refused")
  /\ UNCHANGED tables

----------------------------------------------------------------------------
(* confirmEmail and resetPassword *)

\* Mutant: a link that was spent is taken again.
CanBeRedeemedAgain(t, p) == token[t].purpose = p
CanBeRedeemed(t, p) == token[t].purpose = p /\ ~token[t].spent

\* A link is presented for a purpose, its own or not; it may have expired.
ReadToken(c, t, p) ==
  /\ token[t] # None /\ Start(c, {token[t].user})
  /\ \/ /\ CanBeRedeemed(t, p)
        /\ seen' = [seen EXCEPT ![c] = token[t]]
        /\ Command(c, [op |-> "redeem", user |-> token[t].user, token |-> t, purpose |-> p])
        /\ GoTo(c, "readHolder")
        /\ UNCHANGED mem
     \/ End(c, "refused")
  /\ UNCHANGED tables

ReadHolder(c) ==
  /\ pc[c] = "readHolder"
  /\ ReadUser(c, cmd[c].user)
  /\ GoTo(c, "spend")
  /\ UNCHANGED <<tables, cmd, seen>>

\* The link is spent before the user is saved.  An address that was already confirmed
\* when it was read needs no more.
Spend(c) ==
  /\ pc[c] = "spend"
  /\ token' = [token EXCEPT ![cmd[c].token].spent = TRUE]
  /\ IF cmd[c].purpose = "email-verification" /\ mem[c].verified
     THEN End(c, "ok")
     ELSE GoTo(c, "saveHolder") /\ UNCHANGED <<cmd, mem, seen>>
  /\ UNCHANGED <<user, session, link, redeemed>>

\* The user is saved after the hash of the new password; the sessions go afterwards.
SaveHolder(c) ==
  /\ pc[c] = "saveHolder"
  /\ \/ LoseRace(c)
     \/ /\ CanSaveUser(c)
        /\ IF cmd[c].purpose = "password-reset"
           THEN /\ SaveUser(c, Recovered(mem[c], c))
                /\ redeemed' = [redeemed EXCEPT ![cmd[c].token] = @ \cup {c}]
                /\ GoTo(c, "revokeAll")
                /\ UNCHANGED <<cmd, mem, seen>>
           ELSE SaveUser(c, VerifyEmail(mem[c])) /\ End(c, "ok") /\ UNCHANGED redeemed
        /\ UNCHANGED <<session, token, link>>

\* Mutant: the sessions are left open.
RevokeAllSkipped(c) ==
  pc[c] = "revokeAll" /\ End(c, "ok") /\ UNCHANGED tables
RevokeAll(c) ==
  /\ pc[c] = "revokeAll"
  /\ RevokeAllForUser(cmd[c].user)
  /\ End(c, "ok")
  /\ UNCHANGED <<user, token, link, redeemed>>

----------------------------------------------------------------------------
(* changePassword *)

ReadToChange(c, e, s) ==
  /\ Start(c, {e}) /\ user[e] # None /\ session[s] # None
  /\ IF user[e].status = "disabled"
     THEN End(c, "refused")
     ELSE /\ ReadUser(c, e)
          /\ Command(c, [op |-> "change", user |-> e, keep |-> s])
          /\ GoTo(c, "readKept")
          /\ UNCHANGED seen
  /\ UNCHANGED tables

\* The session must be the person's own and valid.  The proof asked for may fail: the
\* current password, or a recent sign-in for an account without one.
ReadKept(c) ==
  LET s == cmd[c].keep
  IN /\ pc[c] = "readKept"
     /\ \/ /\ session[s].user = cmd[c].user /\ Live(s)
           /\ GoTo(c, "saveChange")
           /\ UNCHANGED <<cmd, mem, seen>>
        \/ End(c, "refused")
     /\ UNCHANGED tables

SaveChange(c) ==
  /\ pc[c] = "saveChange"
  /\ \/ LoseRace(c)
     \/ /\ CanSaveUser(c)
        /\ SaveUser(c, ReplacePassword(mem[c], c))
        /\ GoTo(c, "revokeOthers")
        /\ UNCHANGED <<session, token, link, redeemed, cmd, mem, seen>>

RevokeOthers(c) ==
  /\ pc[c] = "revokeOthers"
  /\ RevokeOthersForUser(cmd[c].user, cmd[c].keep, c)
  /\ End(c, "ok")
  /\ UNCHANGED <<user, token, link, redeemed>>

----------------------------------------------------------------------------
(* setAdminStatus *)

\* requireAdmin lets an operator in whose session resolves.
MayOperate(a) == user[a].status # "disabled" /\ SignedIn(a)

IsOperator(e) == user[e] # None /\ user[e].admin

\* Mutant: an operator may take themselves out.
ReadTargetSelf(c, a, e, action) ==
  /\ MayOperate(a) /\ Start(c, {a, e}) /\ IsOperator(e)
  /\ ReadUser(c, e)
  /\ Command(c, [op |-> "setStatus", user |-> e, actor |-> a, action |-> action])
  /\ GoTo(c, IF action = "suspend" THEN "countAdmins" ELSE "saveStatus")
  /\ UNCHANGED <<tables, seen>>
ReadTarget(c, a, e, action) ==
  /\ a # e /\ MayOperate(a) /\ Start(c, {a, e})
  /\ IF IsOperator(e)
     THEN /\ ReadUser(c, e)
          /\ Command(c, [op |-> "setStatus", user |-> e, actor |-> a, action |-> action])
          /\ GoTo(c, IF action = "suspend" THEN "countAdmins" ELSE "saveStatus")
          /\ UNCHANGED seen
     ELSE End(c, "refused")
  /\ UNCHANGED tables

\* countMatching asks for active administrators; userFilter knows no role, so it
\* counts active accounts of any kind.
CountAdmins(c) ==
  /\ pc[c] = "countAdmins"
  /\ IF Cardinality({e \in People : user[e] # None /\ user[e].status = "active"}) <= 1
     THEN End(c, "refused")
     ELSE GoTo(c, "saveStatus") /\ UNCHANGED <<cmd, mem, seen>>
  /\ UNCHANGED tables

SaveStatus(c) ==
  /\ pc[c] = "saveStatus"
  /\ \/ LoseRace(c)
     \/ /\ CanSaveUser(c)
        /\ IF cmd[c].action = "suspend"
           THEN SaveUser(c, Suspend(mem[c])) /\ GoTo(c, "revokeAll")
                  /\ UNCHANGED <<cmd, mem, seen>>
           ELSE SaveUser(c, Reinstate(mem[c])) /\ End(c, "ok")
        /\ UNCHANGED <<session, token, link, redeemed>>

----------------------------------------------------------------------------
Care(c) ==
  \/ \E s \in SessionIds : ReadSession(c, s)
  \/ ReadOwner(c)
  \/ Slide(c)
  \/ \E s \in SessionIds : ReadToSignOut(c, s)
  \/ RevokeOne(c)
  \/ \E e \in People : RevokeAllSessions(c, e)
  \/ \E e \in People, p \in Purposes : AskForLink(c, e, p)
  \/ \E t \in Calls, p \in Purposes : ReadToken(c, t, p)
  \/ ReadHolder(c)
  \/ Spend(c)
  \/ SaveHolder(c)
  \/ RevokeAll(c)
  \/ \E e \in People, s \in SessionIds : ReadToChange(c, e, s)
  \/ ReadKept(c)
  \/ SaveChange(c)
  \/ RevokeOthers(c)
  \/ \E a \in Admins, e \in People, action \in {"suspend", "reinstate"} :
       ReadTarget(c, a, e, action)
  \/ CountAdmins(c)
  \/ SaveStatus(c)
=============================================================================
