---------------------------- MODULE IdentityProofs ----------------------------
(***************************************************************************)
(* What holds of every account whatever calls overlap: each write to the   *)
(* users table is one decision taken on the row as it is, and so the       *)
(* identity module implements Accounts; a suspension is lifted by nothing  *)
(* but a reinstatement; who has a way in keeps one.                        *)
(*                                                                         *)
(* And what holds while the calls about one person take turns: what a call *)
(* has read of its person still stands when it writes, so a revocation     *)
(* stands, a link sets one password, an operator remains, and, as long as  *)
(* no call stops half way, a replaced password opens nothing.              *)
(***************************************************************************)
EXTENDS IdentityTypeProofs, FiniteSetTheorems

\* What a call may make of a row u.
Outcome(c, u, v) ==
  \/ u.status # "disabled" /\ v = RecordFailedAttempt(u)
  \/ u.status # "disabled" /\ v = RecordSuccess(u)
  \/ u.status # "disabled" /\ v = Vouched(u)
  \/ u.status # "disabled" /\ v = ReplacePassword(u, c)
  \/ v = VerifyEmail(u)
  \/ v = Recovered(u, c)
  \/ u.admin /\ v = Suspend(u)
  \/ u.admin /\ v = Reinstate(u) /\ pc[c] = "saveStatus" /\ cmd[c].action = "reinstate"

\* Call c decides about a row as it stands, not as it once read it.
Decides(c) ==
  /\ cmd[c].user \in People /\ user[cmd[c].user] \in UserRow
  /\ \E v \in UserRow : /\ Outcome(c, user[cmd[c].user], v)
                        /\ user' = [user EXCEPT ![cmd[c].user] = [v EXCEPT !.version = @ + 1]]

Opens(e) ==
  user[e] = None /\ \E p \in Passwords \cup {None} : user' = [user EXCEPT ![e] = NewUser(p)]

----------------------------------------------------------------------------
(* Accounts *)

\* The accounts behind typed rows are accounts.
LEMMA AccountsTyped ==
  ASSUME user \in [People -> UserRow \cup {None}]
  PROVE  Abstract!Init
<1>1. \A u \in UserRow : AccountOf(u) \in Abstract!Account
  BY DEF UserRow, AccountOf, Abstract!Account
<1>2. AccountsNow \in [People -> Abstract!Account \cup {None}]
  BY <1>1 DEF AccountsNow
<1> QED BY <1>2 DEF Abstract!Init

\* A column the account has may be set in the row or in the account.
WithLockout(u, n, b, st) == [u EXCEPT !.failed = n, !.locked = b, !.status = st]

\* Lockout columns may be set before or after a row is read as an account.
LEMMA SetLockout ==
  ASSUME NEW u \in UserRow, NEW n, NEW b, NEW st
  PROVE  AccountOf(WithLockout(u, n, b, st)) = WithLockout(AccountOf(u), n, b, st)
<1>1. WithLockout(AccountOf(u), n, b, st)
        = [password |-> u.password, status |-> st, admin |-> u.admin,
           verified |-> u.verified, failed |-> n, locked |-> b]
  <2>1. ASSUME NEW pw, NEW old, NEW ad, NEW ve, NEW fa, NEW lo
        PROVE  WithLockout([password |-> pw, status |-> old, admin |-> ad, verified |-> ve,
                            failed |-> fa, locked |-> lo], n, b, st)
                 = [password |-> pw, status |-> st, admin |-> ad, verified |-> ve,
                    failed |-> n, locked |-> b]
    <3> DEFINE r == [password |-> pw, status |-> old, admin |-> ad, verified |-> ve,
                     failed |-> fa, locked |-> lo]
               r1 == [r EXCEPT !.failed = n]
               r2 == [r1 EXCEPT !.locked = b]
               r3 == [r2 EXCEPT !.status = st]
    <3>1. r1 = [password |-> pw, status |-> old, admin |-> ad, verified |-> ve,
                failed |-> n, locked |-> lo]
      OBVIOUS
    <3> HIDE DEF r1
    <3>2. r2 = [password |-> pw, status |-> old, admin |-> ad, verified |-> ve,
                failed |-> n, locked |-> b]
      BY <3>1
    <3> HIDE DEF r2
    <3>3. r3 = [password |-> pw, status |-> st, admin |-> ad, verified |-> ve,
                failed |-> n, locked |-> b]
      BY <3>2
    <3> QED BY <3>3 DEF WithLockout, r1, r2
  <2> QED BY <2>1 DEF AccountOf
<1> DEFINE w == WithLockout(u, n, b, st)
<1>2. /\ w.password = u.password /\ w.status = st /\ w.admin = u.admin
      /\ w.verified = u.verified /\ w.failed = n /\ w.locked = b
  BY DEF UserRow, WithLockout
<1> HIDE DEF w
<1>3. AccountOf(w) = [password |-> u.password, status |-> st, admin |-> u.admin,
                      verified |-> u.verified, failed |-> n, locked |-> b]
  BY <1>2 DEF AccountOf
<1> QED BY <1>1, <1>3 DEF w

\* So may any one column.
LEMMA SetColumn ==
  ASSUME NEW u \in UserRow, NEW x
  PROVE  /\ AccountOf([u EXCEPT !.password = x]) = [AccountOf(u) EXCEPT !.password = x]
         /\ AccountOf([u EXCEPT !.verified = x]) = [AccountOf(u) EXCEPT !.verified = x]
         /\ AccountOf([u EXCEPT !.status = x]) = [AccountOf(u) EXCEPT !.status = x]
BY DEF UserRow, AccountOf

\* The outcome of each decision about the row, seen from outside, is that of the decision
\* about the account.
LEMMA SameLockout ==
  ASSUME NEW u \in UserRow
  PROVE  /\ AccountOf(RecordFailedAttempt(u)) = Abstract!RecordFailedAttempt(AccountOf(u))
         /\ AccountOf(RecordSuccess(u)) = Abstract!RecordSuccess(AccountOf(u))
         /\ AccountOf(Reinstate(u)) = Abstract!Reinstate(AccountOf(u))
<1>1. AccountOf(u).failed = u.failed /\ AccountOf(u).status = u.status
  BY DEF AccountOf
<1>2. AccountOf(RecordFailedAttempt(u)) = Abstract!RecordFailedAttempt(AccountOf(u))
  <2> DEFINE n == u.failed + 1
             b == n >= MaxFailed
             st == IF b /\ u.status = "active" THEN "locked" ELSE u.status
  <2>1. RecordFailedAttempt(u) = WithLockout(u, n, b, st)
    BY Zenon DEF RecordFailedAttempt, WithLockout
  <2>2. Abstract!RecordFailedAttempt(AccountOf(u)) = WithLockout(AccountOf(u), n, b, st)
    BY <1>1, Zenon DEF Abstract!RecordFailedAttempt, WithLockout
  <2> HIDE DEF n, b, st
  <2> QED BY <2>1, <2>2, SetLockout
<1>3. AccountOf(RecordSuccess(u)) = Abstract!RecordSuccess(AccountOf(u))
  <2> DEFINE st == IF u.status = "locked" THEN "active" ELSE u.status
             b == FALSE
  <2>1. RecordSuccess(u) = WithLockout(u, 0, b, st)
    BY Zenon DEF RecordSuccess, WithLockout
  <2>2. Abstract!RecordSuccess(AccountOf(u)) = WithLockout(AccountOf(u), 0, b, st)
    BY <1>1, Zenon DEF Abstract!RecordSuccess, WithLockout
  <2> HIDE DEF b, st
  <2> QED BY <2>1, <2>2, SetLockout
<1>4. AccountOf(Reinstate(u)) = Abstract!Reinstate(AccountOf(u))
  <2> DEFINE b == FALSE
  <2>1. Reinstate(u) = WithLockout(u, 0, b, "active")
    BY DEF Reinstate, WithLockout, UserRow
  <2>2. Abstract!Reinstate(AccountOf(u)) = WithLockout(AccountOf(u), 0, b, "active")
    BY DEF Abstract!Reinstate, WithLockout, AccountOf
  <2> HIDE DEF b
  <2> QED BY <2>1, <2>2, SetLockout
<1> QED BY <1>2, <1>3, <1>4

\* The rules decide of a row what the abstract ones decide of its account.
LEMMA SameDecisions ==
  ASSUME NEW u \in UserRow, NEW p \in Passwords
  PROVE  /\ AccountOf(ReplacePassword(u, p)) = Abstract!ReplacePassword(AccountOf(u), p)
         /\ AccountOf(VerifyEmail(u)) = Abstract!VerifyEmail(AccountOf(u))
         /\ AccountOf(Suspend(u)) = Abstract!Suspend(AccountOf(u))
         /\ AccountOf(Vouched(u)) = Abstract!Vouched(AccountOf(u))
         /\ AccountOf(Recovered(u, p)) = Abstract!Recovered(AccountOf(u), p)
<1>1. AccountOf(ReplacePassword(u, p)) = Abstract!ReplacePassword(AccountOf(u), p)
  BY SetColumn, Zenon DEF ReplacePassword, Abstract!ReplacePassword
<1>2. \A w \in UserRow : AccountOf(VerifyEmail(w)) = Abstract!VerifyEmail(AccountOf(w))
  BY SetColumn, Zenon DEF VerifyEmail, Abstract!VerifyEmail
<1>3. AccountOf(Suspend(u)) = Abstract!Suspend(AccountOf(u))
  BY SetColumn, Zenon DEF Suspend, Abstract!Suspend
<1>4. ReplacePassword(u, p) \in UserRow /\ \A w \in UserRow : RecordSuccess(w) \in UserRow
  BY RulesDecide DEF Decision
<1>5. AccountOf(Vouched(u)) = Abstract!Vouched(AccountOf(u))
  BY <1>2, <1>4, SameLockout, Zenon DEF Vouched, Abstract!Vouched
<1>6. AccountOf(Recovered(u, p)) = Abstract!Recovered(AccountOf(u), p)
  <2> DEFINE x == ReplacePassword(u, p)
             y == RecordSuccess(x)
  <2>1. AccountOf(y) = Abstract!RecordSuccess(AccountOf(x))
    BY <1>4, SameLockout, Zenon
  <2>2. AccountOf(VerifyEmail(y)) = Abstract!VerifyEmail(AccountOf(y))
    BY <1>2, <1>4, Zenon
  <2> QED BY <1>1, <2>1, <2>2, Zenon DEF Recovered, Abstract!Recovered
<1> QED BY <1>1, <1>2, <1>3, <1>5, <1>6

\* A decision about one account, carried out at once, is a step of Accounts.
LEMMA DecisionIsStep ==
  ASSUME NEW d \in People, NEW p \in Passwords, NEW a, NEW new, AccountsNow[d] = a, a # None,
         AccountsNow' = [AccountsNow EXCEPT ![d] = new],
         \/ a.status # "disabled" /\ new = Abstract!RecordFailedAttempt(a)
         \/ a.status # "disabled" /\ new = Abstract!RecordSuccess(a)
         \/ a.status # "disabled" /\ new = Abstract!Vouched(a)
         \/ a.status # "disabled" /\ new = Abstract!ReplacePassword(a, p)
         \/ new = Abstract!VerifyEmail(a)
         \/ new = Abstract!Recovered(a, p)
         \/ a.admin /\ new = Abstract!Suspend(a)
         \/ a.admin /\ new = Abstract!Reinstate(a)
  PROVE  Abstract!Next
<1>1. Abstract!Becomes(d, new) /\ Abstract!Exists(d)
  BY DEF Abstract!Becomes, Abstract!Exists
<1>2. AccountsNow[d] = a
  OBVIOUS
<1>3. a.status # "disabled" => Abstract!Enabled(d)
  BY <1>1, <1>2 DEF Abstract!Enabled
<1>4. CASE a.status # "disabled" /\ new = Abstract!RecordFailedAttempt(a)
  BY <1>1, <1>2, <1>3, <1>4 DEF Abstract!Next, Abstract!Miss
<1>5. CASE a.status # "disabled" /\ new = Abstract!RecordSuccess(a)
  BY <1>1, <1>2, <1>3, <1>5 DEF Abstract!Next, Abstract!Enter
<1>6. CASE a.status # "disabled" /\ new = Abstract!Vouched(a)
  BY <1>1, <1>2, <1>3, <1>6 DEF Abstract!Next, Abstract!EnterByGoogle
<1>7. CASE a.status # "disabled" /\ new = Abstract!ReplacePassword(a, p)
  BY <1>1, <1>2, <1>3, <1>7 DEF Abstract!Next, Abstract!Change
<1>8. CASE new = Abstract!VerifyEmail(a)
  BY <1>1, <1>2, <1>8 DEF Abstract!Next, Abstract!Confirm
<1>9. CASE new = Abstract!Recovered(a, p)
  BY <1>1, <1>2, <1>9 DEF Abstract!Next, Abstract!Recover
<1>10. CASE a.admin /\ new = Abstract!Suspend(a)
  BY <1>1, <1>2, <1>10 DEF Abstract!Next, Abstract!TakeOut
<1>11. CASE a.admin /\ new = Abstract!Reinstate(a)
  BY <1>1, <1>2, <1>11 DEF Abstract!Next, Abstract!BringBack
<1> QED BY <1>4, <1>5, <1>6, <1>7, <1>8, <1>9, <1>10, <1>11

\* A decision carried out on the row is the abstract one carried out on the account.
LEMMA DecisionIsAbstract ==
  ASSUME user \in [People -> UserRow \cup {None}], NEW c \in Calls, Decides(c)
  PROVE  Abstract!Next
<1>1. PICK d \in People, u \in UserRow, v \in UserRow :
        /\ user[d] = u /\ Outcome(c, u, v)
        /\ user' = [user EXCEPT ![d] = [v EXCEPT !.version = @ + 1]]
  BY DEF Decides
<1>2. u # None /\ c \in Passwords
  BY NoneIsNoRecord DEF Passwords
<1> DEFINE a == AccountOf(u)
           new == AccountOf(v)
<1>3. AccountsNow[d] = a /\ a # None /\ a.status = u.status /\ a.admin = u.admin
  <2>1. a \in Abstract!Account
    BY DEF UserRow, AccountOf, Abstract!Account
  <2> QED BY <1>1, <1>2, <2>1, NoneIsNoRecord DEF AccountsNow, AccountOf
<1>4. AccountsNow' = [AccountsNow EXCEPT ![d] = new]
  <2> DEFINE row == [v EXCEPT !.version = @ + 1]
  <2>1. row \in UserRow /\ row # None /\ AccountOf(row) = AccountOf(v)
    BY NoneIsNoRecord DEF UserRow, AccountOf
  <2>2. \A e \in People : user'[e] = IF e = d THEN row ELSE user[e]
    BY <1>1
  <2> HIDE DEF row
  <2> QED BY <2>1, <2>2 DEF AccountsNow
<1>5. \/ a.status # "disabled" /\ new = Abstract!RecordFailedAttempt(a)
      \/ a.status # "disabled" /\ new = Abstract!RecordSuccess(a)
      \/ a.status # "disabled" /\ new = Abstract!Vouched(a)
      \/ a.status # "disabled" /\ new = Abstract!ReplacePassword(a, c)
      \/ new = Abstract!VerifyEmail(a)
      \/ new = Abstract!Recovered(a, c)
      \/ a.admin /\ new = Abstract!Suspend(a)
      \/ a.admin /\ new = Abstract!Reinstate(a)
  BY <1>1, <1>2, <1>3, SameLockout, SameDecisions DEF Outcome
<1> HIDE DEF a, new
<1> QED BY <1>2, <1>3, <1>4, <1>5, DecisionIsStep
USE DEF SignInSteps, GoogleSteps, LinkSteps, MailSteps, SessionSteps, RedeemSteps, ChangeSteps,
        TeamSteps, Ended

----------------------------------------------------------------------------
\* A save that succeeds decides about the row as it is, since the versions agree.
LEMMA SaveDecides ==
  ASSUME IdentityInv, NEW c \in Calls, Running(c), mem[c] # None, CanSaveUser(c),
         NEW v, Outcome(c, mem[c], v), SaveUser(c, v)
  PROVE  Decides(c)
<1>1. cmd[c].user \in People /\ mem[c] \in UserRow /\ user[cmd[c].user] = mem[c] /\ c \in Passwords
  BY CallUnderWay DEF CallFits, CopyIsSound, CanSaveUser, Passwords
<1>2. v \in UserRow
  BY <1>1, RulesDecide DEF Outcome, Decision
<1> QED BY <1>1, <1>2 DEF Decides, SaveUser

\* The calls that save a user.
LEMMA SavesDecide ==
  ASSUME IdentityInv, NEW c \in Calls,
         SaveAttempt(c) \/ SaveVouched(c) \/ SaveHolder(c) \/ SaveChange(c) \/ SaveStatus(c)
  PROVE  UNCHANGED user \/ Decides(c)
<1>1. MemoryFits(c)
  BY CallUnderWay DEF CallFits
<1>2. CASE LoseRace(c)
  BY <1>2 DEF LoseRace, tables
<1>3. CASE ~LoseRace(c)
  <2>1. CanSaveUser(c)
    BY <1>3 DEF SaveAttempt, SaveVouched, SaveHolder, SaveChange, SaveStatus
  <2>2. CASE SaveAttempt(c)
    <3>1. Running(c) /\ mem[c] # None /\ mem[c].status # "disabled"
      BY <1>1, <2>2 DEF SaveAttempt, MemoryFits, Running
    <3>2. \E v : Outcome(c, mem[c], v) /\ SaveUser(c, v)
      BY <1>3, <2>2, <3>1 DEF SaveAttempt, Outcome
    <3> QED BY <2>1, <3>1, <3>2, SaveDecides
  <2>3. CASE SaveVouched(c)
    <3>1. Running(c) /\ mem[c] # None /\ mem[c].status # "disabled"
      BY <1>1, <2>3 DEF SaveVouched, MemoryFits, Running
    <3>2. \E v : Outcome(c, mem[c], v) /\ SaveUser(c, v)
      BY <1>3, <2>3, <3>1 DEF SaveVouched, Outcome
    <3> QED BY <2>1, <3>1, <3>2, SaveDecides
  <2>4. CASE SaveHolder(c)
    <3>1. Running(c) /\ mem[c] # None
      BY <1>1, <2>4 DEF SaveHolder, MemoryFits, Running
    <3>2. \E v : Outcome(c, mem[c], v) /\ SaveUser(c, v)
      BY <1>3, <2>4, <3>1 DEF SaveHolder, Outcome
    <3> QED BY <2>1, <3>1, <3>2, SaveDecides
  <2>5. CASE SaveChange(c)
    <3>1. Running(c) /\ mem[c] # None /\ mem[c].status # "disabled"
      BY <1>1, <2>5 DEF SaveChange, MemoryFits, Running
    <3>2. \E v : Outcome(c, mem[c], v) /\ SaveUser(c, v)
      BY <1>3, <2>5, <3>1 DEF SaveChange, Outcome
    <3> QED BY <2>1, <3>1, <3>2, SaveDecides
  <2>6. CASE SaveStatus(c)
    <3>1. /\ Running(c) /\ mem[c] # None /\ mem[c].admin /\ pc[c] = "saveStatus"
          /\ cmd[c].action \in {"suspend", "reinstate"}
      BY <1>1, <2>6, CallUnderWay DEF SaveStatus, MemoryFits, Running, CallFits, CommandFits, StatusCommand
    <3>2. \E v : Outcome(c, mem[c], v) /\ SaveUser(c, v)
      BY <1>3, <2>6, <3>1 DEF SaveStatus, Outcome
    <3> QED BY <2>1, <3>1, <3>2, SaveDecides
  <2> QED BY <2>2, <2>3, <2>4, <2>5, <2>6
<1> QED BY <1>2, <1>3

\* Signing in and up opens an account, decides about one, or touches none.
LEMMA WayInDecides ==
  ASSUME IdentityInv, NEW c \in Calls, WayIn(c)
  PROVE  UNCHANGED user \/ (\E e \in People : Opens(e)) \/ Decides(c)
<1>1. CASE SaveAttempt(c) \/ SaveVouched(c)
  BY <1>1, SavesDecide
<1>2. ASSUME NEW e \in People, Register(c, e) PROVE UNCHANGED user \/ Opens(e)
  BY <1>2 DEF Register, Insert, Opens, Passwords
<1>3. CASE InsertByGoogle(c)
  <2>1. cmd[c].user \in People
    BY <1>3, CallUnderWay DEF InsertByGoogle, Running
  <2> QED BY <1>3, <2>1 DEF InsertByGoogle, Insert, Opens
<1>4. CASE \/ \E e \in People, right \in BOOLEAN : ReadForSignIn(c, e, right)
           \/ IssueSession(c) \/ Supersede(c) \/ MailLink(c) \/ MailFails(c)
  BY <1>4 DEF ReadForSignIn, IssueSession, Supersede, MailLink, MailFails, tables
<1>5. CASE \/ \E g \in Googles : FindLink(c, g)
           \/ FindByEmail(c) \/ LinkByGoogle(c) \/ ReadLinkedUser(c)
  BY <1>5 DEF FindLink, FindByEmail, LinkByGoogle, ReadLinkedUser, tables
<1>6. CASE \/ \E e \in People, g \in Googles : ReadLinks(c, e, g)
           \/ ConnectLink(c) \/ (\E e \in People : ReadMethods(c, e)) \/ Unlink(c)
  BY <1>6 DEF ReadLinks, ConnectLink, ReadMethods, Unlink, tables
<1> QED BY <1>1, <1>2, <1>3, <1>4, <1>5, <1>6 DEF WayIn

\* Looking after an account decides about it, or touches none.
LEMMA CareDecides ==
  ASSUME IdentityInv, NEW c \in Calls, Care(c)
  PROVE  UNCHANGED user \/ Decides(c)
<1>1. CASE SaveHolder(c) \/ SaveChange(c) \/ SaveStatus(c)
  BY <1>1, SavesDecide
<1>2. CASE \/ (\E s \in SessionIds : ReadSession(c, s)) \/ ReadOwner(c) \/ Slide(c)
           \/ (\E s \in SessionIds : ReadToSignOut(c, s)) \/ RevokeOne(c)
           \/ \E e \in People : RevokeAllSessions(c, e)
  BY <1>2 DEF ReadSession, ReadOwner, Slide, ReadToSignOut, RevokeOne, RevokeAllSessions, tables
<1>3. CASE \/ \E e \in People, p \in Purposes : AskForLink(c, e, p)
           \/ \E t \in Calls, p \in Purposes : ReadToken(c, t, p)
           \/ ReadHolder(c) \/ Spend(c) \/ RevokeAll(c)
  BY <1>3 DEF AskForLink, ReadToken, ReadHolder, Spend, RevokeAll, tables
<1>4. CASE \/ \E e \in People, s \in SessionIds : ReadToChange(c, e, s)
           \/ ReadKept(c) \/ RevokeOthers(c) \/ CountAdmins(c)
           \/ \E a \in Admins, e \in People, action \in {"suspend", "reinstate"} :
                ReadTarget(c, a, e, action)
  BY <1>4 DEF ReadToChange, ReadKept, RevokeOthers, CountAdmins, ReadTarget, tables
<1> QED BY <1>1, <1>2, <1>3, <1>4 DEF Care

\* A step leaves the users alone, opens an account, or carries out one decision.
LEMMA UserSteps ==
  ASSUME IdentityInv, [Next]_vars
  PROVE  UNCHANGED user \/ (\E e \in People : Opens(e)) \/ (\E c \in Calls : Decides(c))
BY WayInDecides, CareDecides DEF Next, CrashCall, vars, tables

----------------------------------------------------------------------------
(* Suspension *)

\* An account stops being disabled only as an operator's reinstatement of it is saved,
\* whatever sign-ins, resets and other decisions overlap (user.ts:266).
THEOREM SuspensionsStand == Spec => SuspensionStands
<1> DEFINE Stands ==
      \A e \in People :
        user[e] # None /\ user[e].status = "disabled" /\ user'[e].status # "disabled"
          => \E c \in Calls : /\ pc[c] = "saveStatus" /\ cmd[c].user = e
                              /\ cmd[c].action = "reinstate"
<1>1. ASSUME IdentityInv, [Next]_vars PROVE [Stands]_user
  <2>1. user \in [People -> UserRow \cup {None}]
    BY <1>1 DEF IdentityInv, IdentityTypeOK
  <2>2. ASSUME NEW d \in People, Opens(d) PROVE Stands
    BY <2>1, <2>2 DEF Opens
  <2>3. ASSUME NEW c \in Calls, Decides(c) PROVE Stands
    <3> DEFINE d == cmd[c].user
    <3>1. PICK v \in UserRow : /\ Outcome(c, user[d], v)
                               /\ user' = [user EXCEPT ![d] = [v EXCEPT !.version = @ + 1]]
      BY <2>3 DEF Decides
    <3>2. user[d] \in UserRow /\ d \in People
      BY <2>3 DEF Decides
    <3>3. user'[d].status = v.status
      BY <2>1, <3>1, <3>2 DEF UserRow
    <3>4. user[d].status = "disabled" /\ v.status # "disabled"
            => pc[c] = "saveStatus" /\ cmd[c].action = "reinstate"
      BY <3>1, <3>2 DEF Outcome, UserRow, VerifyEmail, Recovered, RecordSuccess, ReplacePassword, Suspend
    <3>5. \A e \in People : e # d => user'[e] = user[e]
      BY <2>1, <3>1
    <3> QED BY <3>3, <3>4, <3>5
  <2> QED BY <1>1, <2>2, <2>3, UserSteps
<1>2. Spec => [][Stands]_user
  BY <1>1, IdentityInvariant, PTL DEF Spec
<1> QED BY <1>2 DEF SuspensionStands

----------------------------------------------------------------------------
(* The lockout *)

LocksFit(u) ==
  /\ u.locked <=> u.failed >= MaxFailed
  /\ u.status # "disabled" => (u.status = "locked" <=> u.locked)

\* A new user is not locked.
LEMMA NewUserLocksFit ==
  ASSUME NEW p
  PROVE  LocksFit(NewUser(p)) /\ \A b : LocksFit([NewUser(p) EXCEPT !.admin = b])
BY MaxFailedAssumption DEF LocksFit, NewUser

\* Every decision sets the lock by the failures it counts.
LEMMA OutcomeLocksFit ==
  ASSUME NEW c, NEW u \in UserRow, LocksFit(u), NEW v, Outcome(c, u, v)
  PROVE  LocksFit([v EXCEPT !.version = @ + 1])
<1>1. /\ u.failed \in Nat /\ u.status \in {"active", "locked", "disabled"} /\ u.locked \in BOOLEAN
      /\ MaxFailed \in Nat /\ MaxFailed > 0
  BY MaxFailedAssumption DEF UserRow
<1>2. CASE u.status # "disabled" /\ v = RecordFailedAttempt(u)
  <2> DEFINE n == u.failed + 1
             st == IF n >= MaxFailed /\ u.status = "active" THEN "locked" ELSE u.status
  <2>1. /\ v.failed = n /\ v.status = st /\ (v.locked <=> n >= MaxFailed)
        /\ [v EXCEPT !.version = @ + 1].failed = v.failed
        /\ [v EXCEPT !.version = @ + 1].status = v.status
        /\ [v EXCEPT !.version = @ + 1].locked = v.locked
    BY <1>2 DEF RecordFailedAttempt, UserRow
  <2>2. n \in Nat /\ (u.failed >= MaxFailed => n >= MaxFailed)
    BY <1>1
  <2>3. st # "disabled" /\ (st = "locked" <=> n >= MaxFailed)
    BY <1>1, <1>2, <2>2 DEF LocksFit
  <2> QED BY <2>1, <2>3 DEF LocksFit
<1>3. CASE v = RecordSuccess(u) \/ v = Vouched(u)
  <2>1. v.failed = 0 /\ v.locked = FALSE /\ v.status # "locked"
    BY <1>1, <1>3 DEF RecordSuccess, Vouched, VerifyEmail, UserRow
  <2>2. /\ [v EXCEPT !.version = @ + 1].failed = v.failed
        /\ [v EXCEPT !.version = @ + 1].status = v.status
        /\ [v EXCEPT !.version = @ + 1].locked = v.locked
    BY <1>3 DEF RecordSuccess, Vouched, VerifyEmail, UserRow
  <2>3. ~([v EXCEPT !.version = @ + 1].failed >= MaxFailed)
    BY <1>1, <2>1, <2>2
  <2> QED BY <2>1, <2>2, <2>3 DEF LocksFit
<1>4. CASE v = Recovered(u, c)
  BY <1>1, <1>4 DEF LocksFit, Recovered, RecordSuccess, ReplacePassword, VerifyEmail, UserRow
<1>5. CASE v = ReplacePassword(u, c) \/ v = VerifyEmail(u)
  BY <1>1, <1>5 DEF LocksFit, ReplacePassword, VerifyEmail, UserRow
<1>6. CASE v = Suspend(u)
  <2>1. /\ [v EXCEPT !.version = @ + 1].failed = u.failed
        /\ [v EXCEPT !.version = @ + 1].status = "disabled"
        /\ [v EXCEPT !.version = @ + 1].locked = u.locked
    BY <1>6 DEF Suspend, UserRow
  <2> QED BY <2>1, Zenon DEF LocksFit
<1>7. CASE v = Reinstate(u)
  <2>1. /\ [v EXCEPT !.version = @ + 1].failed = 0
        /\ [v EXCEPT !.version = @ + 1].status = "active"
        /\ [v EXCEPT !.version = @ + 1].locked = FALSE
    BY <1>7 DEF Reinstate, UserRow
  <2>2. ~([v EXCEPT !.version = @ + 1].failed >= MaxFailed)
    BY <1>1, <2>1
  <2> QED BY <2>1, <2>2 DEF LocksFit
<1> QED BY <1>2, <1>3, <1>4, <1>5, <1>6, <1>7 DEF Outcome

\* An account is marked locked exactly when its failures have reached the limit, however
\* many attempts, resets and suspensions overlap (user.ts, recordFailedAttempt).
THEOREM LocksMatchFailures == Spec => []LockMatchesFailures
<1>1. StoreInit => LockMatchesFailures
  BY NewUserLocksFit DEF StoreInit, LockMatchesFailures, LocksFit
<1>2. ASSUME IdentityInv, LockMatchesFailures, [Next]_vars PROVE LockMatchesFailures'
  <2>1. user \in [People -> UserRow \cup {None}]
    BY <1>2 DEF IdentityInv, IdentityTypeOK
  <2>2. CASE UNCHANGED user
    BY <1>2, <2>2 DEF LockMatchesFailures
  <2>3. ASSUME NEW d \in People, Opens(d) PROVE LockMatchesFailures'
    <3>1. PICK p \in Passwords \cup {None} : user' = [user EXCEPT ![d] = NewUser(p)]
      BY <2>3 DEF Opens
    <3>2. \A e \in People : user'[e] = IF e = d THEN NewUser(p) ELSE user[e]
      BY <2>1, <3>1
    <3>3. LocksFit(NewUser(p))
      BY NewUserLocksFit
    <3> QED BY <1>2, <3>2, <3>3 DEF LockMatchesFailures, LocksFit
  <2>4. ASSUME NEW c \in Calls, Decides(c) PROVE LockMatchesFailures'
    <3> DEFINE d == cmd[c].user
    <3>1. PICK v \in UserRow : /\ Outcome(c, user[d], v)
                               /\ user' = [user EXCEPT ![d] = [v EXCEPT !.version = @ + 1]]
      BY <2>4 DEF Decides
    <3>2. user[d] \in UserRow /\ user[d] # None /\ d \in People
      BY <2>4, NoneIsNoRecord DEF Decides
    <3>3. LocksFit([v EXCEPT !.version = @ + 1])
      BY <1>2, <3>1, <3>2, OutcomeLocksFit DEF LockMatchesFailures, LocksFit
    <3> DEFINE row == [v EXCEPT !.version = @ + 1]
    <3> HIDE DEF row
    <3>4. \A e \in People : user'[e] = IF e = d THEN row ELSE user[e]
      BY <2>1, <3>1 DEF row
    <3>5. LocksFit(row)
      BY <3>3 DEF row
    <3> QED BY <1>2, <3>4, <3>5 DEF LockMatchesFailures, LocksFit
  <2> QED BY <1>2, <2>2, <2>3, <2>4, UserSteps
<1> QED BY <1>1, <1>2, IdentityInvariant, PTL DEF Spec

----------------------------------------------------------------------------
(* A way in *)

Connects(g, e) == link[g] = None /\ link' = [link EXCEPT ![g] = e]
Disconnects(e) ==
  /\ user[e].password # None
  /\ link' = [g \in Googles |-> IF link[g] = e THEN None ELSE link[g]]

\* Links come and go by inserts and by disconnecting one's own.
LEMMA WayInConnects ==
  ASSUME IdentityInv, NEW c \in Calls, WayIn(c)
  PROVE  \/ UNCHANGED link \/ (\E g \in Googles, e \in People : Connects(g, e))
         \/ \E e \in People : Disconnects(e)
<1>1. CASE LinkByGoogle(c)
  <2>1. cmd[c].google \in Googles /\ cmd[c].user \in People
    BY <1>1, CallUnderWay DEF LinkByGoogle, CallFits, CommandFits, GoogleCommand
  <2> QED BY <1>1, <2>1 DEF LinkByGoogle, MayLink, Connects
<1>2. CASE ConnectLink(c)
  <2>1. cmd[c].google \in Googles /\ cmd[c].user \in People
    BY <1>2, CallUnderWay DEF ConnectLink, CallFits, CommandFits, LinkCommand
  <2> QED BY <1>2, <2>1 DEF ConnectLink, MayLink, Connects
<1>3. CASE Unlink(c)
  <2>1. user[cmd[c].user].password # None /\ cmd[c].user \in People
    BY <1>3, CallUnderWay DEF Unlink, CallFits, CommandFits, TablesFit, LinkCommand
  <2> QED BY <1>3, <2>1 DEF Unlink, Disconnects
<1>4. CASE \/ \E e \in People, right \in BOOLEAN : ReadForSignIn(c, e, right)
           \/ SaveAttempt(c) \/ IssueSession(c) \/ (\E e \in People : Register(c, e))
           \/ Supersede(c) \/ MailLink(c) \/ MailFails(c)
  BY <1>4 DEF ReadForSignIn, SaveAttempt, IssueSession, Register, Supersede, MailLink, MailFails,
     LoseRace, tables
<1>5. CASE \/ (\E g \in Googles : FindLink(c, g)) \/ FindByEmail(c) \/ InsertByGoogle(c)
           \/ ReadLinkedUser(c) \/ SaveVouched(c)
           \/ (\E e \in People, g \in Googles : ReadLinks(c, e, g))
           \/ \E e \in People : ReadMethods(c, e)
  BY <1>5 DEF FindLink, FindByEmail, InsertByGoogle, ReadLinkedUser, SaveVouched, ReadLinks,
     ReadMethods, LoseRace, tables
<1> QED BY <1>1, <1>2, <1>3, <1>4, <1>5 DEF WayIn

\* Nothing else touches a link.
LEMMA CareLeavesLinks ==
  ASSUME NEW c \in Calls, Care(c)
  PROVE  UNCHANGED link
<1>1. CASE \/ (\E s \in SessionIds : ReadSession(c, s)) \/ ReadOwner(c) \/ Slide(c)
           \/ (\E s \in SessionIds : ReadToSignOut(c, s)) \/ RevokeOne(c)
           \/ \E e \in People : RevokeAllSessions(c, e)
  BY <1>1 DEF ReadSession, ReadOwner, Slide, ReadToSignOut, RevokeOne, RevokeAllSessions, tables
<1>2. CASE \/ \E e \in People, p \in Purposes : AskForLink(c, e, p)
           \/ \E t \in Calls, p \in Purposes : ReadToken(c, t, p)
           \/ ReadHolder(c) \/ Spend(c) \/ SaveHolder(c) \/ RevokeAll(c)
  BY <1>2 DEF AskForLink, ReadToken, ReadHolder, Spend, SaveHolder, RevokeAll, LoseRace, tables
<1>3. CASE \/ \E e \in People, s \in SessionIds : ReadToChange(c, e, s)
           \/ ReadKept(c) \/ SaveChange(c) \/ RevokeOthers(c)
  BY <1>3 DEF ReadToChange, ReadKept, SaveChange, RevokeOthers, LoseRace, tables
<1>4. CASE \/ \E a \in Admins, e \in People, action \in {"suspend", "reinstate"} :
                ReadTarget(c, a, e, action)
           \/ CountAdmins(c) \/ SaveStatus(c)
  BY <1>4 DEF ReadTarget, CountAdmins, SaveStatus, LoseRace, tables
<1> QED BY <1>1, <1>2, <1>3, <1>4 DEF Care

\* A step connects a Google account nobody has, or disconnects those of somebody who has
\* a password.
LEMMA LinkStep ==
  ASSUME IdentityInv, Next
  PROVE  \/ UNCHANGED link \/ (\E g \in Googles, e \in People : Connects(g, e))
         \/ \E e \in People : Disconnects(e)
BY WayInConnects, CareLeavesLinks DEF Next, CrashCall, tables

\* Who has a way in, a password or a Google account, is never left without one, even by
\* two requests that each see the other way still there (google-connection.ts:69).
THEOREM NobodyGetsLockedOut == Spec => NobodyIsLockedOut
<1> DEFINE Kept == \A e \in People : HasWayIn(e) => HasWayIn(e)'
<1>1. ASSUME IdentityInv, [Next]_vars PROVE [Kept]_<<user, link>>
  <2>1. CASE UNCHANGED vars
    BY <2>1 DEF vars, tables
  <2>2. CASE Next
    <3> SUFFICES ASSUME NEW e \in People, HasWayIn(e) PROVE HasWayIn(e)'
      OBVIOUS
    <3>1. \E c \in Calls : TablesGrow(c)
      BY <1>1, <2>2, StepFits DEF FittingStep
    <3>2. user[e] # None /\ user'[e] # None /\ (user[e].password # None => user'[e].password # None)
      BY <3>1 DEF TablesGrow, HasWayIn
    <3>3. CASE user[e].password # None
      BY <3>2, <3>3 DEF HasWayIn
    <3>4. CASE user[e].password = None
      <4>1. PICK g \in Googles : link[g] = e
        BY <3>4 DEF HasWayIn, Linked
      <4>2. link \in [Googles -> People \cup {None}] /\ e # None
        BY <1>1, NoneAssumption DEF IdentityInv, IdentityTypeOK
      <4>3. link'[g] = e
        <5>1. CASE UNCHANGED link
          BY <4>1, <5>1
        <5>2. ASSUME NEW h \in Googles, NEW d \in People, Connects(h, d) PROVE link'[g] = e
          BY <4>1, <4>2, <5>2 DEF Connects
        <5>3. ASSUME NEW d \in People, Disconnects(d) PROVE link'[g] = e
          BY <3>4, <4>1, <5>3 DEF Disconnects
        <5> QED BY <1>1, <2>2, <5>1, <5>2, <5>3, LinkStep
      <4> QED BY <3>2, <4>3 DEF HasWayIn, Linked
    <3> QED BY <3>3, <3>4
  <2> QED BY <1>1, <2>1, <2>2
<1>2. Spec => [][Kept]_<<user, link>>
  BY <1>1, IdentityInvariant, PTL DEF Spec
<1> QED BY <1>2 DEF NobodyIsLockedOut

----------------------------------------------------------------------------
(* The identity module implements Accounts *)

\* An insert is the opening of an account.
LEMMA OpeningIsStep ==
  ASSUME user \in [People -> UserRow \cup {None}], NEW e \in People, Opens(e)
  PROVE  Abstract!Next
<1>1. PICK p \in Passwords \cup {None} : user[e] = None /\ user' = [user EXCEPT ![e] = NewUser(p)]
  BY DEF Opens
<1> DEFINE new == [password |-> p, status |-> "active", admin |-> FALSE, verified |-> p = None,
                   failed |-> 0, locked |-> FALSE]
<1>2. AccountOf(NewUser(p)) = new
  BY Zenon DEF AccountOf, NewUser
<1>3. NewUser(p) # None
  BY NewUserTyped, NoneIsNoRecord
<1>4. AccountsNow' = [AccountsNow EXCEPT ![e] = new]
  <2>1. \A d \in People : user'[d] = IF d = e THEN NewUser(p) ELSE user[d]
    BY <1>1
  <2> HIDE DEF new
  <2> QED BY <1>2, <1>3, <2>1 DEF AccountsNow
<1>5. AccountsNow[e] = None
  BY <1>1 DEF AccountsNow
<1>6. Abstract!Becomes(e, new) /\ ~Abstract!Exists(e)
  BY <1>4, <1>5, Zenon DEF Abstract!Becomes, Abstract!Exists
<1>7. Abstract!Open(e)
  BY <1>6, Zenon DEF Abstract!Open
<1> QED BY <1>7, Zenon DEF Abstract!Next

\* Seen from outside, every write to the users table is one decision of the abstract
\* account, on the account as it stands: no overlap of calls loses a failed attempt or
\* overwrites a suspension or a new password (repositories.ts, users.save).
THEOREM AccountsRefine == Spec => AccountsAreAtomic
<1>1. StoreInit => Abstract!Init
  BY IdentityInvInit, AccountsTyped DEF IdentityInv, IdentityTypeOK
<1>2. ASSUME IdentityInv, [Next]_vars PROVE [Abstract!Next]_AccountsNow
  <2>1. user \in [People -> UserRow \cup {None}]
    BY <1>2 DEF IdentityInv, IdentityTypeOK
  <2>2. CASE UNCHANGED user
    BY <2>2 DEF AccountsNow
  <2>3. CASE (\E e \in People : Opens(e)) \/ \E c \in Calls : Decides(c)
    BY <2>1, <2>3, OpeningIsStep, DecisionIsAbstract
  <2> QED BY <1>2, <2>2, <2>3, UserSteps
<1> QED BY <1>1, <1>2, IdentityInvariant, PTL DEF Spec, AccountsAreAtomic, Abstract!Spec

----------------------------------------------------------------------------
(* One call about a person at a time *)

\* Whom a step of call c is about: the person of its command, or somebody no call that is
\* under way concerns.
IsAbout(c, e) ==
  \/ Running(c) /\ e = cmd[c].user
  \/ pc[c] = "idle" /\ (OneAtATime => ~Busy(e))

\* The rows of everybody but e stay as they are, and whose a row is does not change.  A
\* session is opened by the step that ends its call.
OnlyOf(c, e) ==
  /\ \A d \in People \ {e} : user'[d] = user[d]
  /\ \A s \in SessionIds : session[s] # None =>
       /\ session'[s].user = session[s].user
       /\ session[s].user # e => session'[s] = session[s]
  /\ \A s \in SessionIds : session[s] = None /\ session'[s] # None =>
       s = c /\ pc'[c] = "ok" /\ session'[s].user = e
  /\ \A t \in Calls : token[t] # None =>
       /\ token'[t].user = token[t].user
       /\ token[t].user # e => token'[t] = token[t] /\ redeemed'[t] = redeemed[t]
  /\ \A t \in Calls : token[t] = None => redeemed'[t] = redeemed[t]

\* Calls under way concern different people.
Apart ==
  \A c, d \in Calls : c # d /\ Running(c) /\ Running(d) => Concerns(c) \cap Concerns(d) = {}

\* The session or link a call works on is its person's own.
BelongsFit(c) ==
  /\ pc[c] \in SessionSteps => session[cmd[c].session].user = cmd[c].user
  /\ pc[c] \in RedeemSteps => token[cmd[c].token].user = cmd[c].user
  /\ pc[c] \in {"saveChange", "revokeOthers"} => session[cmd[c].keep].user = cmd[c].user
  /\ pc[c] = "revokeOne" => seen[c].revoked

\* What a call has read of its people is still so.
TurnFits(c) ==
  /\ pc[c] \in {"readOwner", "slide"} => ~session[cmd[c].session].revoked
  /\ pc[c] \in {"readHolder", "spend"} => ~token[cmd[c].token].spent
  /\ pc[c] = "saveHolder" => redeemed[cmd[c].token] = {}
  /\ pc[c] \in TeamSteps => /\ cmd[c].actor # cmd[c].user
                            /\ user[cmd[c].actor].status # "disabled"

EntrySteps == SignInSteps \cup MailSteps \cup GoogleSteps

\* A session about to be opened is opened with the password in force.
PasswordFits(c) ==
  /\ pc[c] \in EntrySteps /\ cmd[c].op # "ask" =>
       cmd[c].password = None \/ cmd[c].password = user[cmd[c].user].password
  /\ pc[c] = "revokeOthers" => user[cmd[c].user].password = c

OpensLast(c) == session[c] # None => pc[c] = "ok"

OwnFits(c) == BelongsFit(c) /\ TurnFits(c) /\ PasswordFits(c)

TurnInv == Apart /\ \A c \in Calls : OwnFits(c) /\ OpensLast(c)

----------------------------------------------------------------------------
(* A step is about one person *)

\* A step that leaves those tables alone is about whom one likes.
LEMMA AboutAnybody ==
  ASSUME NEW c, NEW e, UNCHANGED <<user, session, token, redeemed>>
  PROVE  OnlyOf(c, e)
BY DEF OnlyOf

\* A call under way is about the person of its command.
LEMMA RunningIsAbout ==
  ASSUME IdentityInv, NEW c \in Calls, Running(c)
  PROVE  IsAbout(c, cmd[c].user) /\ cmd[c].user \in People
BY CallUnderWay DEF IsAbout

\* A save writes the row of that person alone.
LEMMA SavesAreOfOne ==
  ASSUME IdentityInv, TurnInv, NEW c \in Calls,
         SaveAttempt(c) \/ SaveVouched(c) \/ SaveHolder(c) \/ SaveChange(c) \/ SaveStatus(c)
  PROVE  OnlyOf(c, cmd[c].user) /\ Running(c)
<1> DEFINE e == cmd[c].user
<1>1. Running(c) /\ UNCHANGED <<session, token>>
  BY DEF Running, SaveAttempt, SaveVouched, SaveHolder, SaveChange, SaveStatus, LoseRace, tables
<1>2. e \in People /\ TablesTyped
  BY <1>1, CallUnderWay
<1>3. \A d \in People \ {e} : user'[d] = user[d]
  <2>1. UNCHANGED user \/ \E v : SaveUser(c, v)
    BY DEF SaveAttempt, SaveVouched, SaveHolder, SaveChange, SaveStatus, LoseRace, tables
  <2> QED BY <1>2, <2>1 DEF SaveUser, TablesTyped
<1>4. \A t \in Calls : \/ redeemed'[t] = redeemed[t]
                       \/ token[t] # None /\ token[t].user = e
  <2>1. CASE SaveHolder(c)
    <3>1. /\ token[cmd[c].token] # None /\ token[cmd[c].token].user = e
          /\ UNCHANGED redeemed \/ redeemed' = [redeemed EXCEPT ![cmd[c].token] = @ \cup {c}]
      BY <2>1, CallUnderWay DEF SaveHolder, LoseRace, tables, CallFits, TablesFit, TurnInv,
         OwnFits, BelongsFit
    <3> QED BY <1>2, <3>1 DEF TablesTyped
  <2>2. CASE ~SaveHolder(c)
    BY <2>2 DEF SaveAttempt, SaveVouched, SaveChange, SaveStatus, LoseRace, tables
  <2> QED BY <2>1, <2>2
<1> QED BY <1>1, <1>3, <1>4 DEF OnlyOf

\* An insert writes the row of one whom no call concerns.
LEMMA OpeningsAreOfOne ==
  ASSUME IdentityInv, NEW c \in Calls, NEW e \in People, user[e] = None, NEW p, Insert(c, e, p),
         UNCHANGED <<session, token, link, redeemed>>
  PROVE  OnlyOf(c, e)
BY CallUnderWay DEF Insert, OnlyOf, TablesTyped

\* Sessions that are only marked.
LEMMA MarkedSessionsAreOfOne ==
  ASSUME IdentityInv, NEW c, NEW e, UNCHANGED <<user, token, redeemed>>,
         \A s \in SessionIds :
           \/ session'[s] = session[s]
           \/ session[s] # None /\ session[s].user = e /\ session'[s].user = e
  PROVE  OnlyOf(c, e)
BY DEF OnlyOf

\* Sessions are written of that person alone.
LEMMA SessionWritesAreOfOne ==
  ASSUME IdentityInv, TurnInv, NEW c \in Calls,
         Slide(c) \/ RevokeOne(c) \/ RevokeAll(c) \/ RevokeOthers(c)
  PROVE  OnlyOf(c, cmd[c].user) /\ Running(c)
<1> DEFINE e == cmd[c].user
<1>1. Running(c) /\ UNCHANGED <<user, token, redeemed>>
  BY DEF Running, Slide, RevokeOne, RevokeAll, RevokeOthers
<1>2. TablesTyped /\ CallFits(c) /\ OwnFits(c)
  BY CallUnderWay DEF TurnInv
<1>3. ASSUME NEW s \in SessionIds
      PROVE  \/ session'[s] = session[s]
             \/ session[s] # None /\ session[s].user = e /\ session'[s].user = e
  <2>1. session[s] # None => \A b, p : /\ [session[s] EXCEPT !.revoked = b].user = session[s].user
                                       /\ [session[s] EXCEPT !.password = p].user = session[s].user
    BY <1>2 DEF TablesTyped, SessionRow
  <2>2. CASE Slide(c) \/ RevokeOne(c)
    <3>1. /\ cmd[c].session \in SessionIds /\ session[cmd[c].session] # None
          /\ session[cmd[c].session].user = e
      BY <1>2, <2>2 DEF Slide, RevokeOne, CallFits, CommandFits, TablesFit, SessionCommand, OwnFits,
         BelongsFit
    <3>2. session' = [session EXCEPT ![cmd[c].session].revoked = seen[c].revoked]
      BY <2>2 DEF Slide, RevokeOne, SaveSession
    <3> QED BY <1>2, <2>1, <3>1, <3>2 DEF TablesTyped
  <2>3. CASE RevokeAll(c)
    BY <2>1, <2>3 DEF RevokeAll, RevokeAllForUser, Revoke, SessionsOf
  <2>4. CASE RevokeOthers(c)
    <3>1. session[cmd[c].keep] # None /\ session[cmd[c].keep].user = e
      BY <1>2, <2>4 DEF RevokeOthers, CallFits, TablesFit, OwnFits, BelongsFit
    <3> QED BY <2>1, <2>4, <3>1 DEF RevokeOthers, RevokeOthersForUser, SessionsOf
  <2> QED BY <2>2, <2>3, <2>4, SessionWritesFit
<1> QED BY <1>1, <1>3, MarkedSessionsAreOfOne

\* So are mailed links.
LEMMA TokenWritesAreOfOne ==
  ASSUME IdentityInv, TurnInv, NEW c \in Calls, Supersede(c) \/ MailLink(c) \/ Spend(c)
  PROVE  OnlyOf(c, cmd[c].user) /\ Running(c)
<1> DEFINE e == cmd[c].user
<1>1. Running(c) /\ UNCHANGED <<user, session, redeemed>>
  BY DEF Running, Supersede, MailLink, Spend
<1>2. TablesTyped /\ CallFits(c) /\ OwnFits(c)
  BY CallUnderWay DEF TurnInv
<1>3. ASSUME NEW t \in Calls, token[t] # None
      PROVE  token'[t] = token[t] \/ (token[t].user = e /\ token'[t].user = e)
  <2>1. [token[t] EXCEPT !.spent = TRUE].user = token[t].user
    BY <1>2, <1>3 DEF TablesTyped, TokenRow
  <2>2. CASE Supersede(c)
    BY <2>1, <2>2 DEF Supersede, ConsumeOutstanding, Outstanding
  <2>3. CASE MailLink(c)
    <3>1. t # c
      BY <1>2, <1>3, <2>3 DEF MailLink, CallFits, TablesFit
    <3> QED BY <1>2, <2>3, <3>1 DEF MailLink, TablesTyped
  <2>4. CASE Spend(c)
    <3>1. token[cmd[c].token].user = e
      BY <1>2, <2>4 DEF Spend, OwnFits, BelongsFit
    <3>2. token' = [token EXCEPT ![cmd[c].token].spent = TRUE]
      BY <2>4 DEF Spend
    <3> QED BY <1>2, <2>1, <3>1, <3>2 DEF TablesTyped
  <2> QED BY <2>2, <2>3, <2>4
<1> QED BY <1>1, <1>3 DEF OnlyOf

\* A session is opened for that person alone.
LEMMA IssuingIsOfOne ==
  ASSUME IdentityInv, TurnInv, NEW c \in Calls, IssueSession(c)
  PROVE  OnlyOf(c, cmd[c].user) /\ Running(c)
<1>1. Running(c) /\ UNCHANGED <<user, token, redeemed>> /\ pc'[c] = "ok"
  BY CallUnderWay DEF Running, IssueSession, End, CallsTyped
<1>2. session[c] = None /\ c \in SessionIds /\ TablesTyped
  BY CallUnderWay DEF TurnInv, OpensLast, IssueSession, SessionIds
<1>3. session' = [session EXCEPT ![c] = [user |-> cmd[c].user, revoked |-> FALSE,
                                         password |-> cmd[c].password]]
  BY DEF IssueSession
<1> QED BY <1>1, <1>2, <1>3 DEF OnlyOf, TablesTyped

\* A step leaves users, sessions, links in mail and their use alone, or is about one person.
LEMMA StepIsOfOne ==
  ASSUME IdentityInv, TurnInv, NEW c \in Calls, WayIn(c) \/ Care(c) \/ CrashCall(c)
  PROVE  \/ UNCHANGED <<user, session, token, redeemed>>
         \/ \E e \in People : IsAbout(c, e) /\ OnlyOf(c, e)
<1>1. CASE \/ SaveAttempt(c) \/ SaveVouched(c) \/ SaveHolder(c) \/ SaveChange(c) \/ SaveStatus(c)
           \/ Slide(c) \/ RevokeOne(c) \/ RevokeAll(c) \/ RevokeOthers(c)
           \/ Supersede(c) \/ MailLink(c) \/ Spend(c) \/ IssueSession(c)
  <2>1. OnlyOf(c, cmd[c].user) /\ Running(c)
    BY <1>1, SavesAreOfOne, SessionWritesAreOfOne, TokenWritesAreOfOne, IssuingIsOfOne
  <2> QED BY <2>1, RunningIsAbout
<1>2. ASSUME NEW e \in People, Register(c, e)
      PROVE  UNCHANGED <<user, session, token, redeemed>> \/ (IsAbout(c, e) /\ OnlyOf(c, e))
  BY <1>2, OpeningsAreOfOne DEF Register, Start, IsAbout
<1>3. CASE InsertByGoogle(c)
  <2>1. Running(c)
    BY <1>3 DEF InsertByGoogle, Running
  <2> QED BY <1>3, <2>1, RunningIsAbout, OpeningsAreOfOne DEF InsertByGoogle
<1>4. ASSUME NEW e \in People, RevokeAllSessions(c, e) PROVE IsAbout(c, e) /\ OnlyOf(c, e)
  <2>1. IsAbout(c, e) /\ UNCHANGED <<user, token, redeemed>>
    BY <1>4 DEF RevokeAllSessions, Start, IsAbout
  <2>2. TablesTyped
    BY CallUnderWay
  <2>3. ASSUME NEW s \in SessionIds
        PROVE  \/ session'[s] = session[s]
               \/ session[s] # None /\ session[s].user = e /\ session'[s].user = e
    <3>1. session[s] # None => [session[s] EXCEPT !.revoked = TRUE].user = session[s].user
      BY <2>2 DEF TablesTyped, SessionRow
    <3> QED BY <1>4, <3>1 DEF RevokeAllSessions, RevokeAllForUser, Revoke, SessionsOf
  <2> QED BY <2>1, <2>3, MarkedSessionsAreOfOne
<1>5. CASE \/ \E e \in People, right \in BOOLEAN : ReadForSignIn(c, e, right)
           \/ MailFails(c) \/ (\E g \in Googles : FindLink(c, g)) \/ FindByEmail(c)
           \/ LinkByGoogle(c) \/ ReadLinkedUser(c)
  BY <1>5 DEF ReadForSignIn, MailFails, FindLink, FindByEmail, LinkByGoogle, ReadLinkedUser, tables
<1>6. CASE \/ \E e \in People, g \in Googles : ReadLinks(c, e, g)
           \/ ConnectLink(c) \/ (\E e \in People : ReadMethods(c, e)) \/ Unlink(c)
  <2>1. CASE Unlink(c)
    BY <2>1 DEF Unlink
  <2> QED BY <1>6, <2>1 DEF ReadLinks, ConnectLink, ReadMethods, tables
<1>7. CASE \/ (\E s \in SessionIds : ReadSession(c, s)) \/ ReadOwner(c)
           \/ (\E s \in SessionIds : ReadToSignOut(c, s))
           \/ (\E e \in People, p \in Purposes : AskForLink(c, e, p))
           \/ (\E t \in Calls, p \in Purposes : ReadToken(c, t, p)) \/ ReadHolder(c)
  BY <1>7 DEF ReadSession, ReadOwner, ReadToSignOut, AskForLink, ReadToken, ReadHolder, tables
<1>8. CASE \/ (\E e \in People, s \in SessionIds : ReadToChange(c, e, s)) \/ ReadKept(c)
           \/ (\E a \in Admins, e \in People, action \in {"suspend", "reinstate"} :
                 ReadTarget(c, a, e, action))
           \/ CountAdmins(c) \/ CrashCall(c)
  BY <1>8 DEF ReadToChange, ReadKept, ReadTarget, CountAdmins, CrashCall, tables
<1>9. CASE WayIn(c)
  BY <1>1, <1>2, <1>3, <1>5, <1>6, <1>9, Zenon DEF WayIn
<1>10. CASE Care(c)
  BY <1>1, <1>4, <1>7, <1>8, <1>10, Zenon DEF Care
<1> QED BY <1>8, <1>9, <1>10

----------------------------------------------------------------------------
(* How a call goes on *)

\* A call ends, goes on with its command, or begins on behalf of people nothing under way
\* concerns.
GoesOn(c) ==
  \/ pc'[c] \in Ended
  \/ Running(c) /\ cmd'[c] = cmd[c]
  \/ pc[c] = "idle" /\ (OneAtATime => \A e \in Concerns(c)' : ~Busy(e))

\* A call that ends is no longer about anybody.
LEMMA EndingGoesOn ==
  ASSUME CallsTyped, NEW c \in Calls, NEW how \in Ended, End(c, how)
  PROVE  GoesOn(c)
BY DEF End, CallsTyped, GoesOn

\* A call begins about one whom no other concerns.
LEMMA BeginningGoesOn ==
  ASSUME CallsTyped, NEW c \in Calls, NEW e, NEW command, Command(c, command), command.user = e,
         Start(c, {e}), command.op # "setStatus"
  PROVE  GoesOn(c)
BY DEF Command, CallsTyped, GoesOn, Start, Concerns

\* Every handler stays with its person.
LEMMA WayInGoesOn ==
  ASSUME IdentityInv, NEW c \in Calls, WayIn(c)
  PROVE  GoesOn(c)
<1>1. CallsTyped
  BY CallUnderWay
<1>2. CASE \E how \in Ended : End(c, how)
  BY <1>1, <1>2, EndingGoesOn
<1>3. CASE ~ \E how \in Ended : End(c, how)
  <2>1. CASE \/ SaveAttempt(c) \/ Supersede(c) \/ MailLink(c) \/ MailFails(c) \/ FindByEmail(c)
             \/ InsertByGoogle(c) \/ LinkByGoogle(c) \/ ReadLinkedUser(c) \/ SaveVouched(c)
    <3>1. Running(c)
      BY <2>1 DEF Running, SaveAttempt, Supersede, MailLink, MailFails, FindByEmail,
         InsertByGoogle, LinkByGoogle, ReadLinkedUser, SaveVouched
    <3>2. UNCHANGED cmd
      BY <1>3, <2>1 DEF SaveAttempt, Supersede, MailLink, MailFails, AfterMail, FindByEmail,
         InsertByGoogle, LinkByGoogle, ReadLinkedUser, Admit, SaveVouched, LoseRace
    <3> QED BY <3>1, <3>2 DEF GoesOn
  <2>2. CASE IssueSession(c) \/ ConnectLink(c) \/ Unlink(c)
    BY <1>3, <2>2 DEF IssueSession, ConnectLink, Unlink
  <2>3. ASSUME NEW e \in People, NEW right \in BOOLEAN, ReadForSignIn(c, e, right) PROVE GoesOn(c)
    BY <1>1, <1>3, <2>3, BeginningGoesOn DEF ReadForSignIn
  <2>4. ASSUME NEW e \in People, Register(c, e) PROVE GoesOn(c)
    BY <1>1, <1>3, <2>4, BeginningGoesOn DEF Register
  <2>5. ASSUME NEW g \in Googles, FindLink(c, g) PROVE GoesOn(c)
    BY <1>1, <1>3, <2>5, BeginningGoesOn DEF FindLink
  <2>6. ASSUME NEW e \in People, NEW g \in Googles, ReadLinks(c, e, g) PROVE GoesOn(c)
    BY <1>1, <1>3, <2>6, BeginningGoesOn DEF ReadLinks
  <2>7. ASSUME NEW e \in People, ReadMethods(c, e) PROVE GoesOn(c)
    BY <1>1, <1>3, <2>7, BeginningGoesOn DEF ReadMethods
  <2> QED BY <2>1, <2>2, <2>3, <2>4, <2>5, <2>6, <2>7, Zenon DEF WayIn
<1> QED BY <1>2, <1>3

\* So does every handler of accounts, sessions and the team.
LEMMA CareGoesOn ==
  ASSUME IdentityInv, NEW c \in Calls, Care(c)
  PROVE  GoesOn(c)
<1>1. CallsTyped
  BY CallUnderWay
<1>2. CASE \E how \in Ended : End(c, how)
  BY <1>1, <1>2, EndingGoesOn
<1>3. CASE ~ \E how \in Ended : End(c, how)
  <2>1. CASE \/ ReadOwner(c) \/ ReadHolder(c) \/ Spend(c) \/ SaveHolder(c) \/ ReadKept(c)
             \/ SaveChange(c) \/ CountAdmins(c) \/ SaveStatus(c)
    <3>1. Running(c)
      BY <2>1 DEF Running, ReadOwner, ReadHolder, Spend, SaveHolder, ReadKept, SaveChange,
         CountAdmins, SaveStatus
    <3>2. UNCHANGED cmd
      BY <1>3, <2>1 DEF ReadOwner, ReadHolder, Spend, SaveHolder, ReadKept, SaveChange,
         CountAdmins, SaveStatus, LoseRace
    <3> QED BY <3>1, <3>2 DEF GoesOn
  <2>2. CASE \/ Slide(c) \/ RevokeOne(c) \/ RevokeAll(c) \/ RevokeOthers(c)
             \/ \E e \in People : RevokeAllSessions(c, e)
    BY <1>3, <2>2 DEF Slide, RevokeOne, RevokeAll, RevokeOthers, RevokeAllSessions
  <2>3. ASSUME NEW s \in SessionIds, ReadSession(c, s) \/ ReadToSignOut(c, s) PROVE GoesOn(c)
    BY <1>1, <1>3, <2>3, BeginningGoesOn DEF ReadSession, ReadToSignOut
  <2>4. ASSUME NEW e \in People, NEW p \in Purposes, AskForLink(c, e, p) PROVE GoesOn(c)
    BY <1>1, <1>3, <2>4, BeginningGoesOn DEF AskForLink
  <2>5. ASSUME NEW t \in Calls, NEW p \in Purposes, ReadToken(c, t, p) PROVE GoesOn(c)
    BY <1>1, <1>3, <2>5, BeginningGoesOn DEF ReadToken
  <2>6. ASSUME NEW e \in People, NEW s \in SessionIds, ReadToChange(c, e, s) PROVE GoesOn(c)
    BY <1>1, <1>3, <2>6, BeginningGoesOn DEF ReadToChange
  <2>7. ASSUME NEW a \in Admins, NEW e \in People, NEW action \in {"suspend", "reinstate"},
               ReadTarget(c, a, e, action)
        PROVE  GoesOn(c)
    <3>1. Start(c, {a, e}) /\ cmd'[c].user = e /\ cmd'[c].actor = a
      BY <1>1, <1>3, <2>7 DEF ReadTarget, Command, CallsTyped
    <3> QED BY <3>1 DEF GoesOn, Start, Concerns
  <2> QED BY <2>1, <2>2, <2>3, <2>4, <2>5, <2>6, <2>7, Zenon DEF Care
<1> QED BY <1>2, <1>3

\* And so does a call that stops half way.
LEMMA StepGoesOn ==
  ASSUME IdentityInv, NEW c \in Calls, WayIn(c) \/ Care(c) \/ CrashCall(c)
  PROVE  GoesOn(c)
BY WayInGoesOn, CareGoesOn, EndingGoesOn, CallUnderWay DEF CrashCall

\* One step leaves the calls under way about different people.
LEMMA ApartStep ==
  ASSUME IdentityInv, OneAtATime, Apart, NEW c \in Calls, GoesOn(c), LeavesOthers(c)
  PROVE  Apart'
<1>1. ASSUME NEW d \in Calls \ {c}
      PROVE  (Running(d)' <=> Running(d)) /\ Concerns(d)' = Concerns(d)
  BY <1>1 DEF LeavesOthers, Running, Concerns
<1>2. ASSUME NEW d \in Calls \ {c}, Running(c)', Running(d)
      PROVE  Concerns(c)' \cap Concerns(d) = {}
  <2>1. CASE Running(c) /\ cmd'[c] = cmd[c]
    BY <1>2, <2>1 DEF Apart, Concerns
  <2>2. CASE \A e \in Concerns(c)' : ~Busy(e)
    BY <1>2, <2>2 DEF Busy
  <2>3. pc'[c] \notin Ended
    BY <1>2 DEF Running
  <2> QED BY <2>1, <2>2, <2>3 DEF GoesOn
<1>3. ASSUME NEW a \in Calls, NEW b \in Calls, a # b, Running(a)', Running(b)'
      PROVE  Concerns(a)' \cap Concerns(b)' = {}
  <2>1. CASE a # c /\ b # c
    BY <1>1, <1>3, <2>1 DEF Apart
  <2>2. CASE a = c
    BY <1>1, <1>2, <1>3, <2>2
  <2>3. CASE b = c
    BY <1>1, <1>2, <1>3, <2>3
  <2> QED BY <2>1, <2>2, <2>3
<1> QED BY <1>3 DEF Apart

\* The person a step of c is about is none that another call under way concerns.
LEMMA AboutNobodyElses ==
  ASSUME OneAtATime, Apart, NEW c \in Calls, NEW d \in Calls \ {c}, Running(d),
         NEW e, IsAbout(c, e)
  PROVE  e \notin Concerns(d)
<1>1. CASE Running(c) /\ e = cmd[c].user
  BY <1>1 DEF Apart, Concerns
<1>2. CASE ~Busy(e)
  BY <1>2 DEF Busy
<1> QED BY <1>1, <1>2 DEF IsAbout

\* What a call has read of its people stays so while others take their steps.
LEMMA OthersStillOwn ==
  ASSUME IdentityInv, OneAtATime, TurnInv, NEW c \in Calls, NEW d \in Calls \ {c},
         LeavesOthers(c),
         \/ UNCHANGED <<user, session, token, redeemed>>
         \/ \E e \in People : IsAbout(c, e) /\ OnlyOf(c, e)
  PROVE  OwnFits(d)'
<1>1. /\ pc'[d] = pc[d] /\ cmd'[d] = cmd[d] /\ seen'[d] = seen[d]
      /\ OwnFits(d) /\ CallFits(d)
      /\ Running(d) => cmd[d].user \in People
  BY CallUnderWay DEF LeavesOthers, TurnInv
<1>2. CASE ~Running(d)
  BY <1>1, <1>2 DEF Running, OwnFits, BelongsFit, TurnFits, PasswordFits, EntrySteps
<1>3. CASE Running(d)
  <2>1. CASE UNCHANGED <<user, session, token, redeemed>>
    BY <1>1, <2>1 DEF OwnFits, BelongsFit, TurnFits, PasswordFits
  <2>2. ASSUME NEW e \in People, IsAbout(c, e), OnlyOf(c, e) PROVE OwnFits(d)'
    <3>1. e # cmd[d].user /\ (pc[d] \in TeamSteps => e # cmd[d].actor)
      <4>1. pc[d] \in TeamSteps => cmd[d].op = "setStatus"
        BY <1>1 DEF CallFits, CommandFits, StatusCommand
      <4> QED BY <1>3, <2>2, <4>1, AboutNobodyElses DEF TurnInv, Concerns
    <3>2. user'[cmd[d].user] = user[cmd[d].user]
      BY <1>1, <1>3, <2>2, <3>1, CallUnderWay DEF OnlyOf
    <3>3. pc[d] \in TeamSteps => user'[cmd[d].actor] = user[cmd[d].actor]
      <4>1. pc[d] \in TeamSteps => cmd[d].actor \in People
        BY <1>1, PeopleAssumption DEF CallFits, CommandFits, StatusCommand
      <4> QED BY <2>2, <3>1, <4>1 DEF OnlyOf
    <3>4. pc[d] \in SessionSteps => session'[cmd[d].session] = session[cmd[d].session]
      <4>1. pc[d] \in SessionSteps => /\ cmd[d].session \in SessionIds /\ session[cmd[d].session] # None
                                      /\ session[cmd[d].session].user = cmd[d].user
        BY <1>1 DEF CallFits, CommandFits, TablesFit, SessionCommand, OwnFits, BelongsFit
      <4> QED BY <2>2, <3>1, <4>1 DEF OnlyOf
    <3>5. pc[d] \in {"saveChange", "revokeOthers"} =>
            session'[cmd[d].keep] = session[cmd[d].keep]
      <4>1. pc[d] \in {"saveChange", "revokeOthers"} =>
              /\ cmd[d].keep \in SessionIds /\ session[cmd[d].keep] # None
              /\ session[cmd[d].keep].user = cmd[d].user
        BY <1>1 DEF CallFits, CommandFits, TablesFit, ChangeCommand, OwnFits, BelongsFit
      <4> QED BY <2>2, <3>1, <4>1 DEF OnlyOf
    <3>6. pc[d] \in RedeemSteps => /\ token'[cmd[d].token] = token[cmd[d].token]
                                   /\ redeemed'[cmd[d].token] = redeemed[cmd[d].token]
      <4>1. pc[d] \in RedeemSteps => /\ cmd[d].token \in Calls /\ token[cmd[d].token] # None
                                     /\ token[cmd[d].token].user = cmd[d].user
        BY <1>1 DEF CallFits, CommandFits, TablesFit, RedeemCommand, OwnFits, BelongsFit
      <4> QED BY <2>2, <3>1, <4>1 DEF OnlyOf
    <3>7. BelongsFit(d)'
      BY <1>1, <3>4, <3>5, <3>6 DEF OwnFits, BelongsFit
    <3>8. TurnFits(d)'
      BY <1>1, <3>3, <3>4, <3>6 DEF OwnFits, TurnFits
    <3>9. PasswordFits(d)'
      BY <1>1, <3>2 DEF OwnFits, PasswordFits
    <3> QED BY <3>7, <3>8, <3>9 DEF OwnFits
  <2> QED BY <2>1, <2>2
<1> QED BY <1>2, <1>3

\* A session is opened by the last step of the call it is named after.
LEMMA OpeningIsLast ==
  ASSUME IdentityInv, OneAtATime, TurnInv, NEW c \in Calls, GoesOn(c), LeavesOthers(c),
         \/ UNCHANGED <<user, session, token, redeemed>>
         \/ \E e \in People : IsAbout(c, e) /\ OnlyOf(c, e),
         Running(c) \/ pc[c] = "idle", NEW d \in Calls
  PROVE  OpensLast(d)'
<1>1. d \in SessionIds /\ OpensLast(d)
  BY DEF TurnInv, SessionIds
<1>2. session'[d] # None => session[d] # None \/ (d = c /\ pc'[c] = "ok")
  BY <1>1 DEF OnlyOf
<1>3. session[d] # None => d # c
  BY <1>1 DEF OpensLast, Running
<1>4. d # c => pc'[d] = pc[d]
  BY DEF LeavesOthers
<1> QED BY <1>1, <1>2, <1>3, <1>4 DEF OpensLast

----------------------------------------------------------------------------
(* What a call keeps true for itself *)

\* At these steps there is nothing of the kind to keep.
Unwatched == Ended \cup {"idle", "connectLink", "unlink", "revokeAll", "readKept"}

\* Nothing is asked of a call there.
LEMMA UnwatchedFits ==
  ASSUME NEW c, pc'[c] \in Unwatched
  PROVE  OwnFits(c)'
BY DEF Unwatched, OwnFits, BelongsFit, TurnFits, PasswordFits, EntrySteps

\* A call on its way to a session: its password stays the one in force.
LEMMA EntryFits ==
  ASSUME NEW c, pc'[c] \in EntrySteps,
         cmd'[c].op # "ask" =>
           cmd'[c].password = None \/ cmd'[c].password = user'[cmd'[c].user].password
  PROVE  OwnFits(c)'
BY DEF OwnFits, BelongsFit, TurnFits, PasswordFits, EntrySteps

\* A save sets the password of the decision it took on the row as read.
LEMMA SavedPassword ==
  ASSUME IdentityInv, NEW c \in Calls, Running(c), mem[c] # None, CanSaveUser(c), NEW v,
         Decision(mem[c], v), SaveUser(c, v)
  PROVE  user'[cmd[c].user].password = v.password /\ user[cmd[c].user] = mem[c]
<1>1. /\ TablesTyped /\ CopyIsSound(c) /\ cmd[c].user \in People /\ mem[c] \in UserRow
  BY CallUnderWay DEF CallFits
<1>2. user'[cmd[c].user] = [v EXCEPT !.version = @ + 1] /\ user[cmd[c].user] = mem[c]
  BY <1>1, SavedUser
<1>3. [v EXCEPT !.version = @ + 1].password = v.password
  BY DEF Decision, UserRow
<1> QED BY <1>2, <1>3

\* A call that is over has nothing to stand.
LEMMA EndedFits ==
  ASSUME CallsTyped, NEW c \in Calls, NEW how \in Ended, End(c, how)
  PROVE  OwnFits(c)'
BY UnwatchedFits DEF End, CallsTyped, Unwatched

\* What a handler reads is so when it has read it.
LEMMA WayInKeepsOwn ==
  ASSUME IdentityInv, TurnInv, NEW c \in Calls, WayIn(c)
  PROVE  OwnFits(c)'
<1>1. CallsTyped /\ TablesTyped /\ CallFits(c) /\ PasswordFits(c)
  BY CallUnderWay DEF TurnInv, OwnFits
<1>2. CASE \E how \in Ended : End(c, how)
  BY <1>1, <1>2, EndedFits
<1>3. CASE ~ \E how \in Ended : End(c, how)
  <2>1. ASSUME NEW e \in People, NEW right \in BOOLEAN, ReadForSignIn(c, e, right) PROVE OwnFits(c)'
    <3>1. /\ pc'[c] = "saveAttempt" /\ cmd'[c].user = e /\ cmd'[c].password = user[e].password
          /\ user'[e] = user[e]
      BY <1>1, <1>3, <2>1 DEF ReadForSignIn, GoTo, Command, CallsTyped, tables
    <3> QED BY <3>1, EntryFits DEF EntrySteps
  <2>2. CASE SaveAttempt(c)
    <3>1. /\ SaveUser(c, RecordSuccess(mem[c])) /\ CanSaveUser(c) /\ Running(c) /\ mem[c] # None
          /\ pc'[c] = "issue" /\ cmd'[c] = cmd[c] /\ pc[c] = "saveAttempt"
      BY <1>1, <1>3, <2>2 DEF SaveAttempt, LoseRace, GoTo, CallsTyped, Running, CallFits, MemoryFits
    <3>2. mem[c] \in UserRow /\ Decision(mem[c], RecordSuccess(mem[c]))
      BY <3>1, CallUnderWay, RulesDecide DEF Passwords
    <3>3. user'[cmd[c].user].password = user[cmd[c].user].password
      <4>1. RecordSuccess(mem[c]).password = mem[c].password
        BY <3>2 DEF RecordSuccess, UserRow
      <4> QED BY <3>1, <3>2, <4>1, SavedPassword
    <3> QED BY <1>1, <3>1, <3>3, EntryFits DEF PasswordFits, EntrySteps
  <2>3. CASE IssueSession(c) \/ ConnectLink(c) \/ Unlink(c)
    BY <1>3, <2>3 DEF IssueSession, ConnectLink, Unlink
  <2>4. ASSUME NEW e \in People, Register(c, e) PROVE OwnFits(c)'
    <3>1. /\ pc'[c] = "supersede" /\ cmd'[c].user = e /\ cmd'[c].password = c
          /\ user'[e] = NewUser(c)
      BY <1>1, <1>3, <2>4 DEF Register, Insert, GoTo, Command, CallsTyped, TablesTyped
    <3>2. NewUser(c).password = c
      BY DEF NewUser
    <3> QED BY <3>1, <3>2, EntryFits DEF EntrySteps
  <2>5. CASE Supersede(c) \/ MailLink(c) \/ MailFails(c)
    <3>1. /\ pc'[c] \in EntrySteps /\ cmd'[c] = cmd[c] /\ user' = user /\ pc[c] \in EntrySteps
      BY <1>1, <1>3, <2>5 DEF Supersede, MailLink, MailFails, AfterMail, GoTo, CallsTyped,
         EntrySteps, tables
    <3> QED BY <1>1, <3>1, EntryFits DEF PasswordFits
  <2>6. ASSUME NEW g \in Googles, FindLink(c, g) PROVE OwnFits(c)'
    <3>1. pc'[c] \in EntrySteps /\ cmd'[c].password = None
      BY <1>1, <1>3, <2>6 DEF FindLink, GoTo, Command, CallsTyped, EntrySteps
    <3> QED BY <3>1, EntryFits
  <2>7. CASE FindByEmail(c) \/ InsertByGoogle(c) \/ LinkByGoogle(c) \/ ReadLinkedUser(c) \/ SaveVouched(c)
    <3>1. pc'[c] \in EntrySteps /\ cmd'[c] = cmd[c] /\ pc[c] \in GoogleSteps
      BY <1>1, <1>3, <2>7 DEF FindByEmail, InsertByGoogle, LinkByGoogle, ReadLinkedUser, SaveVouched,
         LoseRace, Admit, GoTo, CallsTyped, EntrySteps
    <3>2. cmd[c].password = None
      BY <1>1, <3>1 DEF CallFits, CommandFits, GoogleCommand
    <3> QED BY <3>1, <3>2, EntryFits
  <2>8. ASSUME NEW e \in People, NEW g \in Googles, ReadLinks(c, e, g) PROVE OwnFits(c)'
    BY <1>1, <1>3, <2>8, UnwatchedFits DEF ReadLinks, GoTo, CallsTyped, Unwatched
  <2>9. ASSUME NEW e \in People, ReadMethods(c, e) PROVE OwnFits(c)'
    BY <1>1, <1>3, <2>9, UnwatchedFits DEF ReadMethods, GoTo, CallsTyped, Unwatched
  <2> QED BY <2>1, <2>2, <2>3, <2>4, <2>5, <2>6, <2>7, <2>8, <2>9, Zenon DEF WayIn
<1> QED BY <1>2, <1>3

\* The same of the calls about sessions.
LEMMA SessionCallsKeepOwn ==
  ASSUME IdentityInv, TurnInv, NEW c \in Calls, NEW s \in SessionIds,
         ReadSession(c, s) \/ ReadOwner(c) \/ ReadToSignOut(c, s)
  PROVE  OwnFits(c)'
<1>1. CallsTyped /\ TablesTyped /\ UNCHANGED tables /\ OwnFits(c)
  BY CallUnderWay DEF ReadSession, ReadOwner, ReadToSignOut, TurnInv
<1>2. CASE \E how \in Ended : End(c, how)
  BY <1>1, <1>2, EndedFits
<1>3. CASE ~ \E how \in Ended : End(c, how)
  <2>1. CASE ReadSession(c, s)
    <3>1. /\ pc'[c] = "readOwner" /\ cmd'[c].session = s /\ cmd'[c].user = session[s].user
          /\ ~session[s].revoked
      BY <1>1, <1>3, <2>1 DEF ReadSession, Live, GoTo, Command, CallsTyped
    <3> QED BY <1>1, <3>1 DEF OwnFits, BelongsFit, TurnFits, PasswordFits, EntrySteps, tables
  <2>2. CASE ReadOwner(c)
    <3>1. pc'[c] = "slide" /\ cmd'[c] = cmd[c] /\ pc[c] = "readOwner"
      BY <1>1, <1>3, <2>2 DEF ReadOwner, GoTo, CallsTyped
    <3> QED BY <1>1, <3>1 DEF OwnFits, BelongsFit, TurnFits, PasswordFits, EntrySteps, tables
  <2>3. CASE ReadToSignOut(c, s)
    <3>1. /\ pc'[c] = "revokeOne" /\ cmd'[c].session = s /\ cmd'[c].user = session[s].user
          /\ seen'[c] = [session[s] EXCEPT !.revoked = TRUE]
      BY <1>1, <2>3 DEF ReadToSignOut, GoTo, Command, CallsTyped
    <3>2. seen'[c].revoked
      BY <1>1, <2>3, <3>1 DEF ReadToSignOut, TablesTyped, SessionRow
    <3> QED BY <1>1, <3>1, <3>2 DEF OwnFits, BelongsFit, TurnFits, PasswordFits, EntrySteps, tables
  <2> QED BY <1>3, <2>1, <2>2, <2>3
<1> QED BY <1>2, <1>3

\* The same of the redemption of a link.
LEMMA RedemptionsKeepOwn ==
  ASSUME IdentityInv, TurnInv, NEW c \in Calls, NEW t \in Calls, NEW p \in Purposes,
         ReadToken(c, t, p) \/ ReadHolder(c) \/ Spend(c) \/ SaveHolder(c)
  PROVE  OwnFits(c)'
<1>1. CallsTyped /\ TablesTyped /\ References /\ OwnFits(c) /\ CallFits(c)
  BY CallUnderWay DEF TurnInv
<1>2. CASE \E how \in Ended : End(c, how)
  BY <1>1, <1>2, EndedFits
<1>3. CASE ~ \E how \in Ended : End(c, how)
  <2>1. CASE ReadToken(c, t, p)
    <3>1. /\ pc'[c] = "readHolder" /\ cmd'[c].token = t /\ cmd'[c].user = token[t].user
          /\ ~token[t].spent /\ token' = token
      BY <1>1, <1>3, <2>1 DEF ReadToken, CanBeRedeemed, GoTo, Command, CallsTyped, tables
    <3> QED BY <3>1 DEF OwnFits, BelongsFit, TurnFits, PasswordFits, EntrySteps
  <2>2. CASE ReadHolder(c)
    <3>1. pc'[c] = "spend" /\ cmd'[c] = cmd[c] /\ pc[c] = "readHolder" /\ token' = token
      BY <1>1, <2>2 DEF ReadHolder, GoTo, CallsTyped, tables
    <3> QED BY <1>1, <3>1 DEF OwnFits, BelongsFit, TurnFits, PasswordFits, EntrySteps
  <2>3. CASE Spend(c)
    <3>1. /\ pc'[c] = "saveHolder" /\ cmd'[c] = cmd[c] /\ pc[c] = "spend"
          /\ token' = [token EXCEPT ![cmd[c].token].spent = TRUE] /\ redeemed' = redeemed
      BY <1>1, <1>3, <2>3 DEF Spend, GoTo, CallsTyped
    <3>2. cmd[c].token \in Calls /\ token[cmd[c].token] # None /\ token[cmd[c].token].user = cmd[c].user
      BY <1>1, <3>1 DEF CallFits, CommandFits, TablesFit, RedeemCommand, OwnFits, BelongsFit
    <3>3. token'[cmd[c].token].user = cmd[c].user
      BY <1>1, <3>1, <3>2 DEF TablesTyped, TokenRow
    <3>4. redeemed[cmd[c].token] = {}
      BY <1>1, <3>1, <3>2 DEF References, OwnFits, TurnFits
    <3> QED BY <3>1, <3>3, <3>4 DEF OwnFits, BelongsFit, TurnFits, PasswordFits, EntrySteps
  <2>4. CASE SaveHolder(c)
    <3>1. pc'[c] = "revokeAll"
      BY <1>1, <1>3, <2>4 DEF SaveHolder, LoseRace, GoTo, CallsTyped
    <3> QED BY <3>1, UnwatchedFits DEF Unwatched
  <2> QED BY <2>1, <2>2, <2>3, <2>4
<1> QED BY <1>2, <1>3

\* The same of a password change.
LEMMA ChangesKeepOwn ==
  ASSUME IdentityInv, TurnInv, NEW c \in Calls, NEW e \in People, NEW s \in SessionIds,
         ReadToChange(c, e, s) \/ ReadKept(c) \/ SaveChange(c)
  PROVE  OwnFits(c)'
<1>1. CallsTyped /\ TablesTyped /\ OwnFits(c) /\ CallFits(c)
  BY CallUnderWay DEF TurnInv
<1>2. CASE \E how \in Ended : End(c, how)
  BY <1>1, <1>2, EndedFits
<1>3. CASE ~ \E how \in Ended : End(c, how)
  <2>1. CASE ReadToChange(c, e, s)
    BY <1>1, <1>3, <2>1, UnwatchedFits DEF ReadToChange, GoTo, CallsTyped, Unwatched
  <2>2. CASE ReadKept(c)
    <3>1. /\ pc'[c] = "saveChange" /\ cmd'[c] = cmd[c] /\ session' = session
          /\ session[cmd[c].keep].user = cmd[c].user
      BY <1>1, <1>3, <2>2 DEF ReadKept, GoTo, CallsTyped, tables
    <3> QED BY <3>1 DEF OwnFits, BelongsFit, TurnFits, PasswordFits, EntrySteps
  <2>3. CASE SaveChange(c)
    <3>1. /\ pc'[c] = "revokeOthers" /\ cmd'[c] = cmd[c] /\ session' = session
          /\ pc[c] = "saveChange" /\ Running(c) /\ mem[c] # None /\ CanSaveUser(c)
          /\ SaveUser(c, ReplacePassword(mem[c], c))
      BY <1>1, <1>3, <2>3 DEF SaveChange, LoseRace, GoTo, CallsTyped, Running, CallFits, MemoryFits
    <3>2. c \in Passwords /\ mem[c] \in UserRow
      BY <3>1, CallUnderWay DEF Passwords
    <3>3. Decision(mem[c], ReplacePassword(mem[c], c)) /\ ReplacePassword(mem[c], c).password = c
      BY <3>2, RulesDecide DEF ReplacePassword, UserRow
    <3>4. user'[cmd[c].user].password = c
      BY <3>1, <3>3, SavedPassword
    <3> QED BY <1>1, <3>1, <3>4 DEF OwnFits, BelongsFit, TurnFits, PasswordFits, EntrySteps
  <2> QED BY <2>1, <2>2, <2>3
<1> QED BY <1>2, <1>3

\* The same of a suspension and a reinstatement.
LEMMA TeamCallsKeepOwn ==
  ASSUME IdentityInv, TurnInv, NEW c \in Calls, NEW a \in Admins, NEW e \in People,
         NEW action \in {"suspend", "reinstate"},
         ReadTarget(c, a, e, action) \/ CountAdmins(c) \/ SaveStatus(c)
  PROVE  OwnFits(c)'
<1>1. CallsTyped /\ OwnFits(c)
  BY CallUnderWay DEF TurnInv
<1>2. CASE \E how \in Ended : End(c, how)
  BY <1>1, <1>2, EndedFits
<1>3. CASE ~ \E how \in Ended : End(c, how)
  <2>1. CASE ReadTarget(c, a, e, action)
    <3>1. /\ pc'[c] \in TeamSteps /\ cmd'[c].user = e /\ cmd'[c].actor = a /\ a # e
          /\ user' = user /\ user[a].status # "disabled"
      BY <1>1, <1>3, <2>1 DEF ReadTarget, MayOperate, GoTo, Command, CallsTyped, tables
    <3> QED BY <3>1 DEF OwnFits, BelongsFit, TurnFits, PasswordFits, EntrySteps
  <2>2. CASE CountAdmins(c)
    <3>1. pc'[c] \in TeamSteps /\ pc[c] \in TeamSteps /\ cmd'[c] = cmd[c] /\ user' = user
      BY <1>1, <1>3, <2>2 DEF CountAdmins, GoTo, CallsTyped, tables
    <3> QED BY <1>1, <3>1 DEF OwnFits, BelongsFit, TurnFits, PasswordFits, EntrySteps
  <2>3. CASE SaveStatus(c)
    BY <1>1, <1>3, <2>3, UnwatchedFits DEF SaveStatus, LoseRace, GoTo, CallsTyped, Unwatched
  <2> QED BY <2>1, <2>2, <2>3
<1> QED BY <1>2, <1>3

\* The same of every handler of accounts, sessions and the team.
LEMMA CareKeepsOwn ==
  ASSUME IdentityInv, TurnInv, NEW c \in Calls, Care(c)
  PROVE  OwnFits(c)'
<1>1. CallsTyped
  BY CallUnderWay
<1>2. CASE \/ Slide(c) \/ RevokeOne(c) \/ RevokeAll(c) \/ RevokeOthers(c)
           \/ \E e \in People : RevokeAllSessions(c, e)
  <2>1. End(c, "ok")
    BY <1>2 DEF Slide, RevokeOne, RevokeAll, RevokeOthers, RevokeAllSessions
  <2> QED BY <1>1, <2>1, EndedFits
<1>3. ASSUME NEW e \in People, NEW p \in Purposes, AskForLink(c, e, p) PROVE OwnFits(c)'
  <2>1. CASE End(c, "refused")
    BY <1>1, <2>1, EndedFits
  <2>2. CASE ~End(c, "refused")
    <3>1. pc'[c] = "supersede" /\ cmd'[c].op = "ask"
      BY <1>1, <1>3, <2>2 DEF AskForLink, GoTo, Command, CallsTyped
    <3> QED BY <3>1, EntryFits DEF EntrySteps
  <2> QED BY <2>1, <2>2
<1>4. c \in SessionIds /\ (Running(c) => cmd[c].user \in People) /\ "password-reset" \in Purposes
  BY CallUnderWay DEF SessionIds, Purposes
<1>5. CASE ReadKept(c) \/ SaveChange(c)
  <2>1. Running(c)
    BY <1>5 DEF Running, ReadKept, SaveChange
  <2> QED BY <1>4, <1>5, <2>1, ChangesKeepOwn
<1>6. CASE CountAdmins(c) \/ SaveStatus(c)
  <2>1. Running(c) /\ cmd[c].actor \in Admins
    BY <1>6, CallUnderWay DEF Running, CountAdmins, SaveStatus, CallFits, CommandFits, StatusCommand
  <2> QED BY <1>4, <1>6, <2>1, TeamCallsKeepOwn
<1> QED
  BY <1>2, <1>3, <1>4, <1>5, <1>6, SessionCallsKeepOwn, RedemptionsKeepOwn, ChangesKeepOwn,
     TeamCallsKeepOwn DEF Care

----------------------------------------------------------------------------
(* The invariant *)

\* What is known of a step of the system in which calls take turns.
TurnStep(c) ==
  /\ WayIn(c) \/ Care(c) \/ CrashCall(c)
  /\ GoesOn(c) /\ LeavesOthers(c) /\ (Running(c) \/ pc[c] = "idle")
  /\ \/ UNCHANGED <<user, session, token, redeemed>>
     \/ \E e \in People : IsAbout(c, e) /\ OnlyOf(c, e)

\* A step is of one call, and about one person.
LEMMA StepsTakeTurns ==
  ASSUME IdentityInv, TurnInv, Next
  PROVE  \E c \in Calls : TurnStep(c)
<1>1. PICK c \in Calls : WayIn(c) \/ Care(c) \/ CrashCall(c)
  BY DEF Next
<1>2. FittingStep(c)
  BY <1>1, WayInFits, CareFits, CrashCallFits
<1>3. Running(c) \/ pc[c] = "idle"
  <2>1. CASE WayIn(c)
    BY <2>1 DEF WayIn, ReadForSignIn, SaveAttempt, IssueSession, Register, Supersede, MailLink,
       MailFails, FindLink, FindByEmail, InsertByGoogle, LinkByGoogle, ReadLinkedUser, SaveVouched,
       ReadLinks, ConnectLink, ReadMethods, Unlink, Start, Running
  <2>2. CASE Care(c)
    BY <2>2 DEF Care, ReadSession, ReadOwner, Slide, ReadToSignOut, RevokeOne, RevokeAllSessions,
       AskForLink, ReadToken, ReadHolder, Spend, SaveHolder, RevokeAll, ReadToChange, ReadKept,
       SaveChange, RevokeOthers, ReadTarget, CountAdmins, SaveStatus, Start, Running
  <2> QED BY <1>1, <2>1, <2>2 DEF CrashCall
<1> QED BY <1>1, <1>2, <1>3, StepGoesOn, StepIsOfOne DEF FittingStep, TurnStep

\* No call is under way yet.
LEMMA TurnInvInit == StoreInit => TurnInv
<1> SUFFICES ASSUME StoreInit PROVE TurnInv
  OBVIOUS
<1>1. \A c \in Calls : pc[c] = "idle" /\ ~Running(c)
  BY DEF StoreInit, Running
<1>2. \A c \in Calls : session[c] = None
  BY NamesAssumption DEF StoreInit, SessionIds
<1> QED BY <1>1, <1>2 DEF TurnInv, Apart, OwnFits, BelongsFit, TurnFits, PasswordFits, OpensLast,
        EntrySteps

\* What a call about one person has read is not touched by the calls about others.
LEMMA TurnInvStep ==
  ASSUME OneAtATime, IdentityInv, TurnInv, [Next]_vars
  PROVE  TurnInv'
<1>1. CASE UNCHANGED vars
  BY <1>1 DEF vars, tables, callVars, TurnInv, Apart, Running, Concerns, OwnFits, BelongsFit,
     TurnFits, PasswordFits, OpensLast
<1>2. CASE Next
  <2>1. PICK c \in Calls : TurnStep(c)
    BY <1>2, StepsTakeTurns
  <2>2. Apart'
    BY <2>1, ApartStep DEF TurnStep, TurnInv
  <2>3. ASSUME NEW d \in Calls PROVE OpensLast(d)'
    BY <2>1, <2>3, OpeningIsLast DEF TurnStep
  <2>4. ASSUME NEW d \in Calls \ {c} PROVE OwnFits(d)'
    BY <2>1, <2>4, OthersStillOwn DEF TurnStep
  <2>5. OwnFits(c)'
    BY <2>1, WayInKeepsOwn, CareKeepsOwn, EndedFits, CallUnderWay DEF TurnStep, CrashCall
  <2> QED BY <2>2, <2>3, <2>4, <2>5 DEF TurnInv
<1> QED BY <1>1, <1>2

\* So it holds throughout.
LEMMA TurnInvariant == ASSUME OneAtATime PROVE Spec => []TurnInv
<1>1. IdentityInv /\ TurnInv /\ [Next]_vars => TurnInv'
  BY TurnInvStep
<1> QED BY <1>1, TurnInvInit, IdentityInvariant, PTL DEF Spec

----------------------------------------------------------------------------
(* Sessions that were ended *)

\* A call writes a session back as it now is, or as ended.
LEMMA StepKeepsRevoked ==
  ASSUME IdentityInv, TurnInv, NEW c \in Calls, TurnStep(c), NEW s \in SessionIds,
         session[s] # None, session[s].revoked
  PROVE  session'[s].revoked
<1>1. TablesTyped /\ CallFits(c) /\ OwnFits(c)
  BY CallUnderWay DEF TurnInv
<1>2. session[s] \in SessionRow
  BY <1>1 DEF TablesTyped
<1>3. \A p : [session[s] EXCEPT !.revoked = TRUE].revoked /\ [session[s] EXCEPT !.password = p].revoked
  BY <1>2 DEF SessionRow
<1>4. CASE Slide(c) \/ RevokeOne(c)
  <2>1. /\ cmd[c].session \in SessionIds
        /\ session' = [session EXCEPT ![cmd[c].session] =
                         [session[cmd[c].session] EXCEPT !.revoked = seen[c].revoked]]
    BY <1>1, <1>4 DEF Slide, RevokeOne, SaveSession, CallFits, CommandFits, SessionCommand
  <2>2. CASE cmd[c].session = s
    <3>1. seen[c].revoked
      BY <1>1, <1>4, <2>2 DEF Slide, RevokeOne, OwnFits, BelongsFit, TurnFits
    <3>2. [session[s] EXCEPT !.revoked = seen[c].revoked].revoked
      BY <1>2, <3>1 DEF SessionRow
    <3> QED BY <1>1, <2>1, <2>2, <3>2 DEF TablesTyped
  <2>3. CASE cmd[c].session # s
    BY <1>1, <2>1, <2>3 DEF TablesTyped
  <2> QED BY <2>2, <2>3
<1>5. CASE RevokeAll(c) \/ \E e \in People : RevokeAllSessions(c, e)
  BY <1>3, <1>5 DEF RevokeAll, RevokeAllSessions, RevokeAllForUser, Revoke
<1>6. CASE RevokeOthers(c)
  BY <1>3, <1>6 DEF RevokeOthers, RevokeOthersForUser
<1>7. CASE IssueSession(c)
  <2>1. s # c
    BY <1>7 DEF TurnInv, OpensLast, IssueSession
  <2> QED BY <1>1, <1>7, <2>1 DEF IssueSession, TablesTyped
<1>8. CASE UNCHANGED session
  BY <1>8
<1>9. WayIn(c) => IssueSession(c) \/ UNCHANGED session
  BY DEF WayIn, ReadForSignIn, SaveAttempt, Register, Supersede, MailLink, MailFails, FindLink,
     FindByEmail, InsertByGoogle, LinkByGoogle, ReadLinkedUser, SaveVouched, ReadLinks, ConnectLink,
     ReadMethods, Unlink, LoseRace, tables
<1>10. Care(c) => \/ Slide(c) \/ RevokeOne(c) \/ RevokeAll(c) \/ RevokeOthers(c) \/ UNCHANGED session
                  \/ \E e \in People : RevokeAllSessions(c, e)
  BY DEF Care, ReadSession, ReadOwner, ReadToSignOut, AskForLink, ReadToken, ReadHolder, Spend,
     SaveHolder, ReadToChange, ReadKept, SaveChange, ReadTarget, CountAdmins, SaveStatus, LoseRace,
     tables
<1> QED BY <1>4, <1>5, <1>6, <1>7, <1>8, <1>9, <1>10 DEF TurnStep, CrashCall, tables

\* Where calls about one person take turns, a session that was ended stays ended: the
\* request that keeps it alive writes back nothing older (resolve-session.ts:76).
THEOREM RevocationsStand == ASSUME OneAtATime PROVE Spec => RevocationStands
<1> DEFINE Stands == \A s \in SessionIds :
                       session[s] # None /\ session[s].revoked => session'[s].revoked
<1>1. ASSUME IdentityInv, TurnInv, [Next]_vars PROVE [Stands]_session
  BY <1>1, StepsTakeTurns, StepKeepsRevoked DEF vars, tables
<1>2. Spec => [][Stands]_session
  BY <1>1, IdentityInvariant, TurnInvariant, PTL DEF Spec
<1> QED BY <1>2 DEF RevocationStands

----------------------------------------------------------------------------
(* Links in mail *)

UsedOnce == \A t \in Calls : redeemed[t] = {} \/ \E d \in Calls : redeemed[t] = {d}

\* A link is redeemed by saving its holder only.
LEMMA OnlyHoldersRedeem ==
  ASSUME NEW c, WayIn(c) \/ Care(c) \/ CrashCall(c), ~SaveHolder(c)
  PROVE  UNCHANGED redeemed
<1>1. WayIn(c) => UNCHANGED redeemed
  BY DEF WayIn, ReadForSignIn, SaveAttempt, IssueSession, Register, Supersede, MailLink,
     MailFails, FindLink, FindByEmail, InsertByGoogle, LinkByGoogle, ReadLinkedUser, SaveVouched,
     ReadLinks, ConnectLink, ReadMethods, Unlink, LoseRace, tables
<1>2. Care(c) => UNCHANGED redeemed
  BY DEF Care, ReadSession, ReadOwner, Slide, ReadToSignOut, RevokeOne, RevokeAllSessions,
     AskForLink, ReadToken, ReadHolder, Spend, SaveHolder, RevokeAll, ReadToChange, ReadKept,
     SaveChange, RevokeOthers, ReadTarget, CountAdmins, SaveStatus, LoseRace, tables
<1> QED BY <1>1, <1>2 DEF CrashCall, tables

\* Where calls about one person take turns, a link in mail sets one password, whoever
\* else presents it and wherever the resets stop (reset-password.ts:32).
THEOREM LinksSetOnePassword == ASSUME OneAtATime PROVE Spec => []LinkSetsOnePassword
<1>1. StoreInit => UsedOnce
  BY DEF StoreInit, UsedOnce
<1>2. ASSUME IdentityInv, TurnInv, UsedOnce, [Next]_vars PROVE UsedOnce'
  <2>1. CASE UNCHANGED redeemed
    BY <1>2, <2>1 DEF UsedOnce
  <2>2. CASE ~UNCHANGED redeemed
    <3>1. PICK c \in Calls : SaveHolder(c)
      BY <1>2, <2>2, StepsTakeTurns, OnlyHoldersRedeem DEF TurnStep, vars, tables
    <3>2. /\ redeemed' = [redeemed EXCEPT ![cmd[c].token] = @ \cup {c}]
          /\ redeemed[cmd[c].token] = {}
      BY <1>2, <2>2, <3>1 DEF SaveHolder, LoseRace, tables, TurnInv, OwnFits, TurnFits
    <3>3. redeemed \in [Calls -> SUBSET Calls]
      BY <1>2 DEF IdentityInv, IdentityTypeOK
    <3> QED BY <1>2, <3>2, <3>3 DEF UsedOnce
  <2> QED BY <2>1, <2>2
<1>3. UsedOnce => LinkSetsOnePassword
  <2>1. Cardinality({}) = 0 /\ \A d : Cardinality({d}) = 1
    BY FS_EmptySet, FS_Singleton
  <2>2. Cardinality({}) <= 1 /\ \A d : Cardinality({d}) <= 1
    BY <2>1
  <2> QED BY <2>2, Zenon DEF UsedOnce, LinkSetsOnePassword
<1> QED BY <1>1, <1>2, <1>3, IdentityInvariant, TurnInvariant, PTL DEF Spec

----------------------------------------------------------------------------
(* The last operator *)

\* A row becomes disabled by a suspension only.
LEMMA OnlySuspensionDisables ==
  ASSUME IdentityInv, TurnInv, NEW c \in Calls, TurnStep(c), NEW e \in People,
         user[e] # None, user[e].status # "disabled", user'[e].status = "disabled"
  PROVE  pc[c] \in TeamSteps /\ cmd[c].user = e
<1>1. TablesTyped /\ CallFits(c) /\ (Running(c) => cmd[c].user \in People)
  BY CallUnderWay
<1>2. user'[e] # user[e]
  OBVIOUS
<1>3. CASE SaveAttempt(c) \/ SaveVouched(c) \/ SaveHolder(c) \/ SaveChange(c)
  <2>1. Running(c) /\ CanSaveUser(c) /\ mem[c] # None
    BY <1>1, <1>2, <1>3 DEF SaveAttempt, SaveVouched, SaveHolder, SaveChange, LoseRace, tables,
       Running, CallFits, MemoryFits
  <2>2. mem[c] \in UserRow /\ user[cmd[c].user] = mem[c] /\ c \in Passwords
    BY <1>1, <2>1, CallUnderWay DEF CallFits, CopyIsSound, CanSaveUser, Passwords
  <2>3. PICK v : SaveUser(c, v) /\ v \in {RecordFailedAttempt(mem[c]), RecordSuccess(mem[c]),
                    Vouched(mem[c]), VerifyEmail(mem[c]), Recovered(mem[c], c),
                    ReplacePassword(mem[c], c)}
    BY <1>2, <1>3 DEF SaveAttempt, SaveVouched, SaveHolder, SaveChange, LoseRace, tables
  <2>4. v.status = "disabled" => mem[c].status = "disabled"
    BY <2>2, <2>3 DEF RecordFailedAttempt, RecordSuccess, Vouched, VerifyEmail, Recovered,
       ReplacePassword, UserRow
  <2>5. v \in UserRow
    BY <2>2, <2>3, RulesDecide DEF Decision
  <2>6. [v EXCEPT !.version = @ + 1].status = v.status
    BY <2>5 DEF UserRow
  <2>7. user' = [user EXCEPT ![cmd[c].user] = [v EXCEPT !.version = @ + 1]]
    BY <2>3 DEF SaveUser
  <2> QED BY <1>1, <1>2, <2>1, <2>2, <2>4, <2>6, <2>7 DEF TablesTyped
<1>4. CASE SaveStatus(c)
  <2>1. Running(c) /\ pc[c] \in TeamSteps /\ \E v : SaveUser(c, v)
    BY <1>2, <1>4 DEF SaveStatus, LoseRace, tables, Running
  <2> QED BY <1>1, <1>2, <2>1 DEF SaveUser, TablesTyped
<1>5. CASE InsertByGoogle(c) \/ \E d \in People : Register(c, d)
  BY <1>1, <1>2, <1>5 DEF InsertByGoogle, Register, Insert, TablesTyped
<1>6. WayIn(c) => \/ SaveAttempt(c) \/ SaveVouched(c) \/ InsertByGoogle(c) \/ UNCHANGED user
                  \/ \E d \in People : Register(c, d)
  BY DEF WayIn, ReadForSignIn, IssueSession, Supersede, MailLink, MailFails, FindLink,
     FindByEmail, LinkByGoogle, ReadLinkedUser, ReadLinks, ConnectLink, ReadMethods, Unlink, tables
<1>7. Care(c) => SaveHolder(c) \/ SaveChange(c) \/ SaveStatus(c) \/ UNCHANGED user
  BY DEF Care, ReadSession, ReadOwner, Slide, ReadToSignOut, RevokeOne, RevokeAllSessions,
     AskForLink, ReadToken, ReadHolder, Spend, RevokeAll, ReadToChange, ReadKept, RevokeOthers,
     ReadTarget, CountAdmins, tables
<1> QED BY <1>2, <1>3, <1>4, <1>5, <1>6, <1>7 DEF TurnStep, CrashCall, tables

\* Where calls about one person take turns, some operator can still act: who suspends
\* another is not suspended meanwhile (set-admin-status.ts:32).
THEOREM OperatorsRemain == ASSUME OneAtATime PROVE Spec => []AnOperatorRemains
<1> DEFINE OperatorsExist == \A a \in Admins : user[a] # None
<1>1. StoreInit => AnOperatorRemains /\ OperatorsExist
  <2> SUFFICES ASSUME StoreInit, NEW a \in Admins PROVE user[a].status # "disabled" /\ user[a] # None
    BY DEF AnOperatorRemains
  <2>1. user[a] = [NewUser(a) EXCEPT !.admin = a \in Admins]
    BY PeopleAssumption DEF StoreInit
  <2>2. user[a] # None
    <3>1. user \in [People -> UserRow \cup {None}] /\ a \in People /\ a \in Passwords
      BY IdentityInvInit, PeopleAssumption DEF IdentityInv, IdentityTypeOK, Passwords
    <3>2. [NewUser(a) EXCEPT !.admin = a \in Admins] \in UserRow
      BY <3>1, NewUserTyped
    <3> QED BY <2>1, <3>2, NoneIsNoRecord
  <2> QED BY <2>1, <2>2 DEF NewUser
<1>2. ASSUME IdentityInv, OperatorsExist, [Next]_vars PROVE OperatorsExist'
  BY <1>2, StepFits, PeopleAssumption DEF FittingStep, TablesGrow, vars, tables
<1>3. ASSUME IdentityInv, TurnInv, OperatorsExist, AnOperatorRemains, [Next]_vars PROVE AnOperatorRemains'
  <2> SUFFICES ASSUME Admins # {} PROVE \E a \in Admins : user'[a].status # "disabled"
    BY DEF AnOperatorRemains
  <2>1. PICK a \in Admins : user[a].status # "disabled"
    BY <1>3 DEF AnOperatorRemains
  <2>2. CASE UNCHANGED vars
    BY <2>1, <2>2 DEF vars, tables
  <2>3. CASE Next
    <3>1. PICK c \in Calls : TurnStep(c)
      BY <1>3, <2>3, StepsTakeTurns
    <3>2. CASE user'[a].status # "disabled"
      BY <3>2
    <3>3. CASE user'[a].status = "disabled" /\ user[a] # None
      <4>1. pc[c] \in TeamSteps /\ cmd[c].user = a
        BY <1>3, <2>1, <3>1, <3>3, OnlySuspensionDisables, PeopleAssumption
      <4> DEFINE b == cmd[c].actor
      <4>2. b \in Admins /\ b # a /\ user[b].status # "disabled"
        BY <1>3, <4>1, CallUnderWay DEF TurnInv, OwnFits, TurnFits, CallFits, CommandFits, StatusCommand
      <4>3. user'[b] = user[b]
        <5>1. \A e : IsAbout(c, e) => e = a
          BY <4>1 DEF IsAbout
        <5> QED BY <3>1, <4>2, <5>1, PeopleAssumption DEF TurnStep, OnlyOf
      <4> QED BY <4>2, <4>3
    <3>4. user[a] # None
      BY <1>3, <2>1 DEF OperatorsExist
    <3> QED BY <3>2, <3>3, <3>4
  <2> QED BY <1>3, <2>2, <2>3
<1> QED BY <1>1, <1>2, <1>3, IdentityInvariant, TurnInvariant, PTL DEF Spec

----------------------------------------------------------------------------
(* Sessions opened with an old password *)

\* A new password is in force, and the sessions opened with the old one are about to go.
Revoking(e) ==
  \E c \in Calls : pc[c] \in {"revokeAll", "revokeOthers"} /\ cmd[c].user = e

SessionFits(s) ==
  Live(s) /\ session[s].password # None /\ ~Revoking(session[s].user)
    => session[s].password = user[session[s].user].password

\* The steps at which sessions are revoked.
LEMMA OnlyRevokingEnds ==
  ASSUME NEW c, WayIn(c) \/ Care(c), pc[c] \in {"revokeAll", "revokeOthers"}
  PROVE  RevokeAll(c) \/ RevokeOthers(c)
<1>1. ~WayIn(c)
  BY DEF WayIn, ReadForSignIn, SaveAttempt, IssueSession, Register, Supersede, MailLink,
     MailFails, FindLink, FindByEmail, InsertByGoogle, LinkByGoogle, ReadLinkedUser, SaveVouched,
     ReadLinks, ConnectLink, ReadMethods, Unlink, Start
<1>2. Care(c) => RevokeAll(c) \/ RevokeOthers(c)
  BY DEF Care, ReadSession, ReadOwner, Slide, ReadToSignOut, RevokeOne, RevokeAllSessions,
     AskForLink, ReadToken, ReadHolder, Spend, SaveHolder, ReadToChange, ReadKept, SaveChange,
     ReadTarget, CountAdmins, SaveStatus, Start
<1> QED BY <1>1, <1>2

\* Who is about to lose sessions stays so until the call gets to it.
LEMMA RevokingStays ==
  ASSUME NEW c \in Calls, TurnStep(c), ~CrashCall(c), NEW e,
         (RevokeAll(c) \/ RevokeOthers(c)) => cmd[c].user # e
  PROVE  Revoking(e) => Revoking(e)'
<1> SUFFICES ASSUME NEW d \in Calls, pc[d] \in {"revokeAll", "revokeOthers"}, cmd[d].user = e
             PROVE  Revoking(e)'
  BY DEF Revoking
<1>1. d # c
  BY OnlyRevokingEnds DEF TurnStep
<1> QED BY <1>1 DEF TurnStep, LeavesOthers, Revoking

\* A step that sets a new password is on its way to the sessions opened with the old one.
LEMMA StepsKeepPasswords ==
  ASSUME IdentityInv, TurnInv, NEW c \in Calls, TurnStep(c), NEW e \in People, user[e] # None,
         ~Revoking(e)'
  PROVE  user'[e].password = user[e].password
<1>1. TablesTyped /\ CallsTyped /\ CallFits(c) /\ (Running(c) => cmd[c].user \in People)
  BY CallUnderWay
<1>2. CASE SaveAttempt(c) \/ SaveVouched(c) \/ SaveHolder(c) \/ SaveChange(c) \/ SaveStatus(c)
  <2>1. CASE UNCHANGED user
    BY <2>1
  <2>2. CASE ~UNCHANGED user
    <3>1. Running(c) /\ CanSaveUser(c) /\ mem[c] # None
      BY <1>1, <1>2, <2>2 DEF SaveAttempt, SaveVouched, SaveHolder, SaveChange, SaveStatus, LoseRace,
         tables, Running, CallFits, MemoryFits
    <3>2. mem[c] \in UserRow /\ c \in Passwords
      BY <3>1, CallUnderWay DEF Passwords
    <3>3. cmd[c].user = e => pc'[c] \notin {"revokeAll", "revokeOthers"} \/ cmd'[c] # cmd[c]
      BY DEF Revoking
    <3>4. CASE cmd[c].user = e
      <4>1. \/ SaveUser(c, RecordFailedAttempt(mem[c])) \/ SaveUser(c, RecordSuccess(mem[c]))
            \/ SaveUser(c, Vouched(mem[c])) \/ SaveUser(c, VerifyEmail(mem[c]))
            \/ SaveUser(c, Suspend(mem[c])) \/ SaveUser(c, Reinstate(mem[c]))
        BY <1>1, <1>2, <2>2, <3>3, <3>4 DEF SaveAttempt, SaveVouched, SaveHolder, SaveChange,
           SaveStatus, LoseRace, GoTo, CallsTyped, tables
      <4>2. PICK v : /\ SaveUser(c, v)
                     /\ v \in {RecordFailedAttempt(mem[c]), RecordSuccess(mem[c]),
                               Vouched(mem[c]), VerifyEmail(mem[c]), Suspend(mem[c]),
                               Reinstate(mem[c])}
        BY <4>1
      <4>3. v.password = mem[c].password
        BY <3>2, <4>2 DEF RecordFailedAttempt, RecordSuccess, Vouched, VerifyEmail, Suspend,
           Reinstate, UserRow
      <4>4. Decision(mem[c], v)
        BY <3>2, <4>2, RulesDecide
      <4> QED BY <3>1, <3>4, <4>2, <4>3, <4>4, SavedPassword
    <3>5. CASE cmd[c].user # e
      BY <1>2, <3>5, SavesAreOfOne DEF OnlyOf
    <3> QED BY <3>4, <3>5
  <2> QED BY <2>1, <2>2
<1>3. CASE InsertByGoogle(c) \/ \E d \in People : Register(c, d)
  BY <1>1, <1>3 DEF InsertByGoogle, Register, Insert, TablesTyped
<1>4. WayIn(c) => \/ SaveAttempt(c) \/ SaveVouched(c) \/ InsertByGoogle(c) \/ UNCHANGED user
                  \/ \E d \in People : Register(c, d)
  BY DEF WayIn, ReadForSignIn, IssueSession, Supersede, MailLink, MailFails, FindLink,
     FindByEmail, LinkByGoogle, ReadLinkedUser, ReadLinks, ConnectLink, ReadMethods, Unlink, tables
<1>5. Care(c) => SaveHolder(c) \/ SaveChange(c) \/ SaveStatus(c) \/ UNCHANGED user
  BY DEF Care, ReadSession, ReadOwner, Slide, ReadToSignOut, RevokeOne, RevokeAllSessions,
     AskForLink, ReadToken, ReadHolder, Spend, RevokeAll, ReadToChange, ReadKept, RevokeOthers,
     ReadTarget, CountAdmins, tables
<1> QED BY <1>2, <1>3, <1>4, <1>5 DEF TurnStep, CrashCall, tables

\* A session stays one that the present password opened, or one that is about to be revoked.
LEMMA StepKeepsSessionsFit ==
  ASSUME IdentityInv, TurnInv, ~MayCrash, NEW c \in Calls, TurnStep(c), NEW s \in SessionIds,
         SessionFits(s)
  PROVE  SessionFits(s)'
<1>a. PICK e : e = session'[s].user
  OBVIOUS
<1> SUFFICES ASSUME Live(s)', session'[s].password # None, ~Revoking(e)'
             PROVE  session'[s].password = user'[e].password
  BY <1>a DEF SessionFits, Revoking
<1>1. TablesTyped /\ References /\ ~CrashCall(c) /\ (WayIn(c) \/ Care(c)) /\ e = session'[s].user
  BY <1>a, CallUnderWay DEF CrashCall, TurnStep
<1>2. CASE session[s] # None /\ session'[s].password = session[s].password
           /\ ~(RevokeAll(c) /\ cmd[c].user = e) /\ ~(RevokeOthers(c) /\ cmd[c].user = e)
  <2>1. Live(s) /\ session[s].user = e
    BY <1>1, <1>2, StepKeepsRevoked DEF Live, TurnStep, OnlyOf
  <2>2. e \in People /\ user[e] # None
    BY <1>1, <1>2, <2>1 DEF TablesTyped, SessionRow, References
  <2>3. ~Revoking(e)
    BY <1>1, <1>2, RevokingStays
  <2>4. user'[e].password = user[e].password
    BY <2>2, StepsKeepPasswords
  <2> QED BY <1>2, <2>1, <2>3, <2>4 DEF SessionFits
<1>3. CASE IssueSession(c)
  <2>1. CASE s = c
    BY <1>1, <1>3, <2>1, CallUnderWay DEF IssueSession, TurnInv, OwnFits, PasswordFits, EntrySteps,
       CallFits, CommandFits, SignInCommand, RegisterCommand, GoogleCommand, TablesTyped
  <2>2. CASE s # c
    <3>1. session'[s] = session[s] /\ ~RevokeAll(c) /\ ~RevokeOthers(c)
      BY <1>1, <1>3, <2>2 DEF IssueSession, TablesTyped, RevokeAll, RevokeOthers
    <3> QED BY <1>2, <3>1 DEF Live
  <2> QED BY <2>1, <2>2
<1>4. CASE RevokeAll(c) \/ \E d \in People : RevokeAllSessions(c, d)
  <2>1. PICK d : RevokeAllForUser(d) /\ (RevokeAll(c) => d = cmd[c].user)
    BY <1>4 DEF RevokeAll, RevokeAllSessions
  <2>2. ~RevokeOthers(c)
    BY <1>4 DEF RevokeAll, RevokeAllSessions, RevokeOthers, Start
  <2>3. CASE s \in SessionsOf(d)
    <3>1. session'[s] = [session[s] EXCEPT !.revoked = TRUE] /\ session[s] \in SessionRow
      BY <1>1, <2>1, <2>3 DEF RevokeAllForUser, Revoke, SessionsOf, TablesTyped
    <3> QED BY <3>1 DEF Live, SessionRow
  <2>4. CASE s \notin SessionsOf(d)
    <3>1. session'[s] = session[s]
      BY <2>1, <2>4 DEF RevokeAllForUser, Revoke
    <3>2. e # d
      BY <1>1, <2>4, <3>1 DEF SessionsOf, Live
    <3> QED BY <1>2, <2>1, <2>2, <3>1, <3>2 DEF Live
  <2> QED BY <2>3, <2>4
<1>5. CASE RevokeOthers(c)
  <2> DEFINE d == cmd[c].user
  <2>1. /\ session[cmd[c].keep].user = d /\ session[cmd[c].keep] # None /\ user[d].password = c
        /\ UNCHANGED user /\ RevokeOthersForUser(d, cmd[c].keep, c) /\ ~RevokeAll(c)
    BY <1>5, CallUnderWay DEF RevokeOthers, RevokeAll, TurnInv, OwnFits, BelongsFit, PasswordFits,
       CallFits, TablesFit
  <2>2. CASE s = cmd[c].keep
    <3>1. session'[s] = [session[s] EXCEPT !.password = c] /\ session[s] \in SessionRow
      BY <1>1, <2>1, <2>2 DEF RevokeOthersForUser, TablesTyped
    <3>2. session'[s].password = c /\ session'[s].user = d
      BY <2>1, <2>2, <3>1 DEF SessionRow
    <3> QED BY <1>1, <2>1, <3>2
  <2>3. CASE s # cmd[c].keep /\ s \in SessionsOf(d)
    <3>1. session'[s] = [session[s] EXCEPT !.revoked = TRUE] /\ session[s] \in SessionRow
      BY <1>1, <2>1, <2>3 DEF RevokeOthersForUser, SessionsOf, TablesTyped
    <3> QED BY <3>1 DEF Live, SessionRow
  <2>4. CASE s # cmd[c].keep /\ s \notin SessionsOf(d)
    <3>1. session'[s] = session[s]
      BY <2>1, <2>4 DEF RevokeOthersForUser
    <3>2. e # d
      BY <1>1, <2>4, <3>1 DEF SessionsOf, Live
    <3> QED BY <1>2, <2>1, <3>1, <3>2 DEF Live
  <2> QED BY <2>2, <2>3, <2>4
<1>6. CASE Slide(c) \/ RevokeOne(c)
  <2>1. session' = [session EXCEPT ![cmd[c].session] =
                      [session[cmd[c].session] EXCEPT !.revoked = seen[c].revoked]]
    BY <1>6 DEF Slide, RevokeOne, SaveSession
  <2>2. session[cmd[c].session] \in SessionRow
    BY <1>1, <1>6, CallUnderWay DEF Slide, RevokeOne, CallFits, CommandFits, TablesFit,
       SessionCommand, TablesTyped
  <2>3. session[s] # None /\ session'[s].password = session[s].password
    BY <1>1, <2>1, <2>2, NoneIsNoRecord DEF TablesTyped, SessionRow, Live
  <2>4. ~RevokeAll(c) /\ ~RevokeOthers(c)
    BY <1>6 DEF Slide, RevokeOne, RevokeAll, RevokeOthers
  <2> QED BY <1>2, <2>3, <2>4
<1>7. CASE UNCHANGED session /\ ~RevokeAll(c) /\ ~RevokeOthers(c)
  BY <1>2, <1>7 DEF Live
<1>8. WayIn(c) => IssueSession(c) \/ UNCHANGED session
  BY DEF WayIn, ReadForSignIn, SaveAttempt, Register, Supersede, MailLink, MailFails, FindLink,
     FindByEmail, InsertByGoogle, LinkByGoogle, ReadLinkedUser, SaveVouched, ReadLinks, ConnectLink,
     ReadMethods, Unlink, LoseRace, tables
<1>9. Care(c) => \/ Slide(c) \/ RevokeOne(c) \/ RevokeAll(c) \/ RevokeOthers(c) \/ UNCHANGED session
                 \/ \E d \in People : RevokeAllSessions(c, d)
  BY DEF Care, ReadSession, ReadOwner, ReadToSignOut, AskForLink, ReadToken, ReadHolder, Spend,
     SaveHolder, ReadToChange, ReadKept, SaveChange, ReadTarget, CountAdmins, SaveStatus, LoseRace,
     tables
<1> QED BY <1>1, <1>3, <1>4, <1>5, <1>6, <1>7, <1>8, <1>9

\* Where calls about one person take turns and none stops half way, a password that was
\* reset or changed has left no session open that it did not open (reset-password.ts:34).
THEOREM OldPasswordsOpenNothing ==
  ASSUME OneAtATime, ~MayCrash PROVE Spec => []OldPasswordOpensNothing
<1> DEFINE Fit == \A s \in SessionIds : SessionFits(s)
<1>1. StoreInit => Fit
  <2> SUFFICES ASSUME StoreInit, NEW s \in SessionIds, Live(s)
               PROVE  session[s].password = user[session[s].user].password
    BY DEF SessionFits
  <2>1. s \in Seeded /\ session[s].user = s /\ session[s].password = s
    BY DEF StoreInit, Live
  <2>2. user[s] = [NewUser(s) EXCEPT !.admin = s \in Admins]
    BY <2>1, PeopleAssumption DEF StoreInit
  <2> QED BY <2>1, <2>2 DEF NewUser
<1>2. ASSUME IdentityInv, TurnInv, Fit, [Next]_vars PROVE Fit'
  <2>1. CASE UNCHANGED vars
    BY <1>2, <2>1 DEF vars, tables, callVars, SessionFits, Live, Revoking
  <2>2. CASE Next
    BY <1>2, <2>2, StepsTakeTurns, StepKeepsSessionsFit
  <2> QED BY <1>2, <2>1, <2>2
<1>3. Fit => OldPasswordOpensNothing
  <2>1. \A e : Revoking(e) => Busy(e)
    BY DEF Revoking, Busy, Running, Concerns
  <2> QED BY <2>1 DEF SessionFits, OldPasswordOpensNothing
<1> QED BY <1>1, <1>2, <1>3, IdentityInvariant, TurnInvariant, PTL DEF Spec
=============================================================================
