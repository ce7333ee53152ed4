------------------------- MODULE IdentityTypeProofs -------------------------
(***************************************************************************)
(* What the identity module's tables and calls are like for any number of  *)
(* people, Google accounts and calls, overlapping and stopping anywhere.   *)
(*                                                                         *)
(* A step belongs to one call, which it moves to a step it is ready for.   *)
(* It leaves the other calls alone, and the tables only grow on them: a    *)
(* row is never taken away, a user's version never goes back, and a copy   *)
(* under the current version is the row itself.                            *)
(***************************************************************************)
EXTENDS Identity, TLAPS

\* Sessions, links in mail and linked Google accounts are of people who have an account,
\* and a link that set a password has been spent.
References ==
  /\ \A s \in SessionIds : session[s] # None => user[session[s].user] # None
  /\ \A t \in Calls : token[t] # None => user[token[t].user] # None
  /\ \A g \in Googles : link[g] # None => user[link[g]] # None
  /\ \A t \in Calls : redeemed[t] # {} => token[t] # None /\ token[t].spent

\* The copy of a user is no newer than the row, and under its version is the row.
CopyIsSound(c) ==
  mem[c] # None =>
    LET row == user[cmd[c].user]
    IN /\ row # None /\ mem[c].version <= row.version
       /\ mem[c].version = row.version => mem[c] = row

NewAddressSteps == {"googleEmail", "googleInsert"}
UserReadSteps == SignInSteps \cup {"googleLink", "saveVouched", "spend", "saveHolder"}
                   \cup ChangeSteps \cup TeamSteps

\* At each step, what the steps before it have left the call with.
CommandFits(c) ==
  /\ pc[c] = "saveAttempt" => cmd[c] \in SignInCommand
  /\ pc[c] = "issue" => cmd[c] \in SignInCommand \cup RegisterCommand \cup GoogleCommand
  /\ pc[c] \in GoogleSteps => cmd[c] \in GoogleCommand
  /\ pc[c] \in LinkSteps => cmd[c] \in LinkCommand
  /\ pc[c] = "connectLink" => cmd[c].google \in Googles
  /\ pc[c] \in MailSteps => cmd[c] \in RegisterCommand \cup AskCommand
  /\ pc[c] \in SessionSteps => cmd[c] \in SessionCommand
  /\ pc[c] \in RedeemSteps => cmd[c] \in RedeemCommand
  /\ pc[c] \in ChangeSteps => cmd[c] \in ChangeCommand
  /\ pc[c] \in TeamSteps => cmd[c] \in StatusCommand
  /\ pc[c] = "revokeAll" => cmd[c] \in RedeemCommand \cup StatusCommand

MemoryFits(c) ==
  /\ pc[c] \in {"saveAttempt", "googleLink", "saveVouched", "spend", "saveHolder", "readKept",
                "saveChange"} \cup TeamSteps => mem[c] # None
  /\ pc[c] \in {"saveAttempt", "saveVouched", "readKept", "saveChange"} =>
       mem[c].status # "disabled"
  /\ pc[c] \in TeamSteps => mem[c].admin
  /\ pc[c] \in SessionSteps => seen[c] \in SessionRow
  /\ pc[c] \notin Ended \cup {"idle"} => cmd[c] # None
  /\ pc[c] \in Ended \cup {"idle"} => cmd[c] = None /\ mem[c] = None

TablesFit(c) ==
  /\ Running(c) /\ pc[c] \notin NewAddressSteps => user[cmd[c].user] # None
  /\ pc[c] \in SessionSteps => session[cmd[c].session] # None
  /\ pc[c] \in ChangeSteps => session[cmd[c].keep] # None
  /\ pc[c] \in RedeemSteps => token[cmd[c].token] # None
  /\ pc[c] = "saveHolder" => token[cmd[c].token].spent
  /\ pc[c] = "unlink" => user[cmd[c].user].password # None
  /\ token[c] # None => pc[c] \in Ended \cup {"issue"}

CallFits(c) == CommandFits(c) /\ MemoryFits(c) /\ TablesFit(c) /\ CopyIsSound(c)

IdentityInv == IdentityTypeOK /\ References /\ \A c \in Calls : CallFits(c)

----------------------------------------------------------------------------
(* What a step does *)

TablesTyped ==
  /\ user \in [People -> UserRow \cup {None}]
  /\ session \in [SessionIds -> SessionRow \cup {None}]
  /\ token \in [Calls -> TokenRow \cup {None}]
  /\ link \in [Googles -> People \cup {None}]
  /\ redeemed \in [Calls -> SUBSET Calls]

CallsTyped ==
  /\ pc \in [Calls -> Steps \cup Ended \cup {"idle"}]
  /\ cmd \in [Calls -> Commands \cup {None}]
  /\ mem \in [Calls -> UserRow \cup {None}]
  /\ seen \in [Calls -> SessionRow \cup TokenRow \cup {None}]

LeavesOthers(c) ==
  \A d \in Calls \ {c} : /\ pc'[d] = pc[d] /\ cmd'[d] = cmd[d]
                         /\ mem'[d] = mem[d] /\ seen'[d] = seen[d]

\* The tables only grow; the one link a step may add to those in mail is its own.
TablesGrow(c) ==
  /\ \A e \in People : user[e] # None =>
       /\ user'[e] # None /\ user[e].version <= user'[e].version
       /\ user'[e].version = user[e].version => user'[e] = user[e]
       /\ user[e].password # None => user'[e].password # None
  /\ \A s \in SessionIds : session[s] # None => session'[s] # None
  /\ \A t \in Calls : token[t] # None => /\ token'[t] # None
                                         /\ token[t].spent => token'[t].spent
  /\ \A t \in Calls \ {c} : token[t] = None => token'[t] = None

\* All there is to show of one step of call c.
FittingStep(c) ==
  /\ TablesTyped' /\ References' /\ CallsTyped' /\ CallFits(c)'
  /\ LeavesOthers(c) /\ TablesGrow(c)

----------------------------------------------------------------------------
\* The null is no row, no command and no account.
LEMMA NoneIsNoRecord ==
  /\ None \notin UserRow /\ None \notin SessionRow /\ None \notin TokenRow
  /\ None \notin Commands /\ None \notin Abstract!Account
BY NoRecordAssumption

\* A user that is inserted is a row, admin or not.
LEMMA NewUserTyped ==
  ASSUME NEW p \in Passwords \cup {None}
  PROVE  /\ NewUser(p) \in UserRow /\ NewUser(p).version = 0
         /\ \A b \in BOOLEAN : [NewUser(p) EXCEPT !.admin = b] \in UserRow
<1>1. \A a, b \in BOOLEAN :
        [password |-> p, status |-> "active", admin |-> a, verified |-> b, failed |-> 0,
         locked |-> FALSE, version |-> 0] \in UserRow
  BY DEF UserRow
<1>2. (p = None) \in BOOLEAN /\ FALSE \in BOOLEAN
  OBVIOUS
<1>3. NewUser(p) \in UserRow
  BY <1>1, <1>2 DEF NewUser
<1>4. ASSUME NEW b \in BOOLEAN PROVE [NewUser(p) EXCEPT !.admin = b] \in UserRow
  BY <1>3 DEF UserRow
<1>5. NewUser(p).version = 0
  BY DEF NewUser
<1> QED BY <1>3, <1>4, <1>5

\* The seeded users are rows, and nothing is under way.
LEMMA IdentityInvInit == StoreInit => IdentityInv
<1> SUFFICES ASSUME StoreInit PROVE IdentityInv
  OBVIOUS
<1>1. ASSUME NEW e \in Seeded
      PROVE  [NewUser(e) EXCEPT !.admin = e \in Admins] \in UserRow
  <2>1. e \in Passwords /\ (e \in Admins) \in BOOLEAN
    BY DEF Passwords
  <2> QED BY <2>1, NewUserTyped
<1>2. \A e \in Seeded : [NewUser(e) EXCEPT !.admin = e \in Admins] \in UserRow
  BY <1>1
<1>3. \A s \in Seeded : [user |-> s, revoked |-> FALSE, password |-> s] \in SessionRow
  BY PeopleAssumption DEF SessionRow, Passwords
<1>4. TablesTyped
  BY <1>2, <1>3 DEF StoreInit, TablesTyped
<1>5. References
  <2>1. \A s \in SessionIds : session[s] # None => session[s].user \in Seeded
    BY DEF StoreInit
  <2>2. \A e \in Seeded : e \in People /\ user[e] # None
    BY <1>2, PeopleAssumption, NoneIsNoRecord DEF StoreInit
  <2> QED BY <2>1, <2>2 DEF StoreInit, References
<1>6. CallsTyped /\ \A c \in Calls : pc[c] = "idle" /\ cmd[c] = None /\ mem[c] = None /\ token[c] = None
  BY DEF StoreInit, CallsTyped
<1>7. IdentityTypeOK
  BY <1>4, <1>6 DEF IdentityTypeOK, TablesTyped, CallsTyped, Running, Ended
<1>8. ASSUME NEW c \in Calls PROVE CallFits(c)
  BY <1>6 DEF CallFits, CommandFits, MemoryFits, TablesFit, CopyIsSound, Running, Ended, GoogleSteps,
     LinkSteps, MailSteps, SessionSteps, RedeemSteps, ChangeSteps, TeamSteps
<1> QED BY <1>5, <1>7, <1>8 DEF IdentityInv

----------------------------------------------------------------------------
(* The rules of User, and saving what they make of a row *)

\* A decision is a row of the same version, and takes no password away.
Decision(u, v) ==
  v \in UserRow /\ v.version = u.version /\ (u.password # None => v.password # None)

\* The rules change columns of their own and keep a row a row.
LEMMA RulesDecide ==
  ASSUME NEW u \in UserRow, NEW p \in Passwords
  PROVE  /\ Decision(u, RecordFailedAttempt(u)) /\ Decision(u, RecordSuccess(u))
         /\ Decision(u, VerifyEmail(u)) /\ Decision(u, Vouched(u))
         /\ Decision(u, Suspend(u)) /\ Decision(u, Reinstate(u))
         /\ Decision(u, ReplacePassword(u, p)) /\ Decision(u, Recovered(u, p))
<1>1. /\ u.failed \in Nat /\ u.status \in {"active", "locked", "disabled"}
      /\ (u.failed + 1 >= MaxFailed) \in BOOLEAN
  BY DEF UserRow
<1>2. Decision(u, RecordFailedAttempt(u))
  <2>1. ASSUME NEW st \in {"active", "locked", "disabled"}, NEW n \in Nat
        PROVE  Decision(u, [u EXCEPT !.failed = n, !.locked = TRUE, !.status = st])
    BY DEF UserRow, Decision
  <2>5. ASSUME NEW st \in {"active", "locked", "disabled"}, NEW n \in Nat
        PROVE  Decision(u, [u EXCEPT !.failed = n, !.locked = FALSE, !.status = st])
    BY DEF UserRow, Decision
  <2>2. u.failed + 1 \in Nat
    BY <1>1
  <2>3. CASE u.failed + 1 >= MaxFailed
    <3> DEFINE st == IF TRUE /\ u.status = "active" THEN "locked" ELSE u.status
    <3>1. (u.failed + 1 >= MaxFailed) = TRUE
      BY <2>3
    <3>2. RecordFailedAttempt(u) = [u EXCEPT !.failed = u.failed + 1, !.locked = TRUE, !.status = st]
      BY <3>1, Zenon DEF RecordFailedAttempt
    <3>3. st \in {"active", "locked", "disabled"}
      BY <1>1
    <3> HIDE DEF st
    <3> QED BY <2>1, <2>2, <3>2, <3>3
  <2>4. CASE ~(u.failed + 1 >= MaxFailed)
    <3> DEFINE st == IF FALSE /\ u.status = "active" THEN "locked" ELSE u.status
    <3>1. (u.failed + 1 >= MaxFailed) = FALSE
      BY <2>4
    <3>2. RecordFailedAttempt(u) = [u EXCEPT !.failed = u.failed + 1, !.locked = FALSE, !.status = st]
      BY <3>1, Zenon DEF RecordFailedAttempt
    <3>3. st \in {"active", "locked", "disabled"}
      BY <1>1
    <3> HIDE DEF st
    <3> QED BY <2>2, <2>5, <3>2, <3>3
  <2> QED BY <2>3, <2>4
<1>3. \A v \in UserRow : Decision(v, RecordSuccess(v))
  BY DEF UserRow, RecordSuccess, Decision
<1>4. \A v \in UserRow : Decision(v, VerifyEmail(v))
  BY DEF UserRow, VerifyEmail, Decision
<1>5. Decision(u, Suspend(u)) /\ Decision(u, Reinstate(u))
  BY DEF UserRow, Suspend, Reinstate, Decision
<1>6. Decision(u, ReplacePassword(u, p)) /\ ReplacePassword(u, p).password # None
  BY NoneAssumption, PeopleAssumption DEF UserRow, ReplacePassword, Decision, Passwords
<1>7. \A v, w \in UserRow : \A x : Decision(v, w) /\ Decision(w, x) => Decision(v, x)
  BY DEF Decision
<1>8. Decision(u, Vouched(u))
  BY <1>3, <1>4, <1>7 DEF Vouched, Decision
<1>9. Decision(u, Recovered(u, p))
  BY <1>3, <1>4, <1>6, <1>7 DEF Recovered, Decision
<1> QED BY <1>2, <1>3, <1>4, <1>5, <1>6, <1>8, <1>9

\* A save under the current version: the row is the copy, and becomes what was decided.
LEMMA SavedUser ==
  ASSUME TablesTyped, NEW c \in Calls, cmd[c].user \in People, mem[c] \in UserRow, CopyIsSound(c),
         CanSaveUser(c), NEW v, Decision(mem[c], v), SaveUser(c, v)
  PROVE  LET e == cmd[c].user IN
         /\ user[e] = mem[c] /\ user[e] # None
         /\ user'[e] = [v EXCEPT !.version = @ + 1] /\ user'[e] \in UserRow
         /\ user'[e].version = user[e].version + 1
         /\ \A d \in People \ {e} : user'[d] = user[d]
         /\ user' \in [People -> UserRow \cup {None}]
         /\ \A d \in People : user[d] # None =>
              /\ user'[d] # None /\ user[d].version <= user'[d].version
              /\ user'[d].version = user[d].version => user'[d] = user[d]
              /\ user[d].password # None => user'[d].password # None
<1> DEFINE e == cmd[c].user
<1>1. user[e] = mem[c] /\ user[e] # None
  BY NoneIsNoRecord DEF CopyIsSound, CanSaveUser
<1>2. /\ [v EXCEPT !.version = @ + 1] \in UserRow
      /\ [v EXCEPT !.version = @ + 1].version = v.version + 1
      /\ [v EXCEPT !.version = @ + 1].password = v.password
  BY DEF Decision, UserRow
<1>3. user' = [user EXCEPT ![e] = [v EXCEPT !.version = @ + 1]]
  BY DEF SaveUser
<1>4. /\ user'[e] = [v EXCEPT !.version = @ + 1] /\ user'[e] \in UserRow
      /\ \A d \in People \ {e} : user'[d] = user[d]
      /\ user' \in [People -> UserRow \cup {None}]
  BY <1>2, <1>3 DEF TablesTyped
<1>5. user'[e].version = user[e].version + 1 /\ user[e].version \in Nat
      /\ (user[e].password # None => user'[e].password # None)
  BY <1>1, <1>2, <1>4 DEF Decision, UserRow
<1>6. \A d \in People : user[d] # None => user[d].version \in Nat
  BY DEF TablesTyped, UserRow
<1>7. user'[e] # None /\ user[e].version <= user'[e].version /\ user'[e].version # user[e].version
  BY <1>4, <1>5, NoneIsNoRecord
<1>8. \A d \in People : user[d] # None =>
        /\ user'[d] # None /\ user[d].version <= user'[d].version
        /\ user'[d].version = user[d].version => user'[d] = user[d]
        /\ user[d].password # None => user'[d].password # None
  <2> SUFFICES ASSUME NEW d \in People, user[d] # None
               PROVE  /\ user'[d] # None /\ user[d].version <= user'[d].version
                      /\ user'[d].version = user[d].version => user'[d] = user[d]
                      /\ user[d].password # None => user'[d].password # None
    OBVIOUS
  <2>1. CASE d = e
    BY <1>5, <1>7, <2>1
  <2>2. CASE d # e
    <3>1. user'[d] = user[d]
      BY <1>4, <2>2
    <3> QED BY <1>6, <3>1
  <2> QED BY <2>1, <2>2
<1> QED BY <1>1, <1>4, <1>5, <1>8

----------------------------------------------------------------------------
(* How calls end and what a step leaves the others *)

\* A call that ends carries nothing any more.
LEMMA EndFits ==
  ASSUME CallsTyped, NEW c \in Calls, NEW how \in Ended, End(c, how)
  PROVE  CallsTyped' /\ CallFits(c)' /\ LeavesOthers(c)
<1>1. CallsTyped' /\ LeavesOthers(c)
  BY DEF CallsTyped, End, LeavesOthers
<1>2. pc'[c] \in Ended /\ cmd'[c] = None /\ mem'[c] = None
  BY DEF CallsTyped, End
<1> QED
  BY <1>1, <1>2 DEF CallFits, CommandFits, MemoryFits, TablesFit, CopyIsSound, Running, Ended,
     GoogleSteps, LinkSteps, MailSteps, SessionSteps, RedeemSteps, ChangeSteps, TeamSteps

\* The columns that name a person, a session or a link name one there may be.
LEMMA CommandNames ==
  ASSUME NEW x \in Commands
  PROVE  x.user \in People
BY DEF Commands, SignInCommand, RegisterCommand, GoogleCommand, LinkCommand, SessionCommand,
   AskCommand, RedeemCommand, ChangeCommand, StatusCommand

\* What a step leaves alone still fits when the tables only grow.
LEMMA OthersStillFit ==
  ASSUME IdentityInv, TablesTyped', NEW c \in Calls, LeavesOthers(c), TablesGrow(c),
         NEW d \in Calls \ {c}
  PROVE  CallFits(d)'
<1>1. CallFits(d) /\ (cmd[d] # None => cmd[d].user \in People)
  BY CommandNames DEF IdentityInv, IdentityTypeOK
<1>2. pc'[d] = pc[d] /\ cmd'[d] = cmd[d] /\ mem'[d] = mem[d] /\ seen'[d] = seen[d]
  BY DEF LeavesOthers
<1>3. CommandFits(d)' /\ MemoryFits(d)'
  BY <1>1, <1>2 DEF CallFits, CommandFits, MemoryFits
<1>4. pc[d] \in SessionSteps => cmd[d].session \in SessionIds
  BY <1>1 DEF CallFits, CommandFits, SessionCommand
<1>5. pc[d] \in ChangeSteps => cmd[d].keep \in SessionIds
  BY <1>1 DEF CallFits, CommandFits, ChangeCommand
<1>6. pc[d] \in RedeemSteps => cmd[d].token \in Calls
  BY <1>1 DEF CallFits, CommandFits, RedeemCommand
<1>7. Running(d) => cmd[d].user \in People
  BY <1>1 DEF CallFits, MemoryFits, Running
<1>8. Running(d)' <=> Running(d)
  BY <1>2 DEF Running
<1>9. pc[d] = "unlink" => Running(d)
  BY DEF Running, Ended
<1>10. pc[d] = "saveHolder" => pc[d] \in RedeemSteps
  BY DEF RedeemSteps
<1>11. TablesFit(d)'
  <2>1. TablesFit(d)
    BY <1>1 DEF CallFits
  <2>2. (Running(d) /\ pc[d] \notin NewAddressSteps => user[cmd[d].user] # None)'
    BY <1>2, <1>7, <1>8, <2>1 DEF TablesFit, TablesGrow
  <2>3. /\ (pc[d] \in SessionSteps => session[cmd[d].session] # None)'
        /\ (pc[d] \in ChangeSteps => session[cmd[d].keep] # None)'
    BY <1>2, <1>4, <1>5, <2>1 DEF TablesFit, TablesGrow
  <2>4. /\ (pc[d] \in RedeemSteps => token[cmd[d].token] # None)'
        /\ (pc[d] = "saveHolder" => token[cmd[d].token].spent)'
    BY <1>2, <1>6, <1>10, <2>1 DEF TablesFit, TablesGrow
  <2>5. (pc[d] = "unlink" => user[cmd[d].user].password # None)'
    <3>1. pc[d] = "unlink" => pc[d] \notin NewAddressSteps
      BY DEF NewAddressSteps
    <3> QED BY <1>2, <1>7, <1>9, <2>1, <3>1 DEF TablesFit, TablesGrow
  <2>6. (token[d] # None => pc[d] \in Ended \cup {"issue"})'
    BY <1>2, <2>1 DEF TablesFit, TablesGrow
  <2> QED BY <2>2, <2>3, <2>4, <2>5, <2>6 DEF TablesFit
<1>12. CopyIsSound(d)'
  <2> SUFFICES ASSUME mem[d] # None
               PROVE  LET row == user'[cmd[d].user]
                      IN /\ row # None /\ mem[d].version <= row.version
                         /\ mem[d].version = row.version => mem[d] = row
    BY <1>2 DEF CopyIsSound
  <2> DEFINE e == cmd[d].user
  <2>1. e \in People
    BY <1>1, <1>7 DEF CallFits, MemoryFits, Running
  <2>2. user[e] # None /\ mem[d].version <= user[e].version
        /\ (mem[d].version = user[e].version => mem[d] = user[e])
    BY <1>1 DEF CallFits, CopyIsSound
  <2>3. user'[e] # None /\ user[e].version <= user'[e].version
        /\ (user'[e].version = user[e].version => user'[e] = user[e])
    BY <2>1, <2>2 DEF TablesGrow
  <2>4. mem[d].version \in Nat /\ user[e].version \in Nat /\ user'[e].version \in Nat
    BY <2>1, <2>2, <2>3 DEF IdentityInv, IdentityTypeOK, TablesTyped, UserRow
  <2> QED BY <2>2, <2>3, <2>4
<1> QED BY <1>3, <1>11, <1>12 DEF CallFits

\* A step that writes no table keeps them typed.
LEMMA TablesAlone ==
  ASSUME IdentityInv, UNCHANGED tables, NEW c \in Calls
  PROVE  TablesTyped' /\ References' /\ TablesGrow(c)
<1>1. TablesTyped' /\ References'
  BY DEF IdentityInv, IdentityTypeOK, TablesTyped, References, tables
<1>2. \A e \in People : user[e] # None => user[e].version \in Nat
  BY DEF IdentityInv, IdentityTypeOK, UserRow
<1> QED BY <1>1, <1>2 DEF TablesGrow, tables

\* The course of a call that goes on.
Moves(c, where, command, copy, row) ==
  /\ pc' = [pc EXCEPT ![c] = where] /\ cmd' = [cmd EXCEPT ![c] = command]
  /\ mem' = [mem EXCEPT ![c] = copy] /\ seen' = [seen EXCEPT ![c] = row]

\* A call that moves on is a call.
LEMMA MovesTyped ==
  ASSUME CallsTyped, NEW c \in Calls, NEW where \in Steps, NEW command \in Commands,
         NEW copy \in UserRow \cup {None}, NEW row \in SessionRow \cup TokenRow \cup {None},
         Moves(c, where, command, copy, row)
  PROVE  /\ CallsTyped' /\ LeavesOthers(c)
         /\ pc'[c] = where /\ cmd'[c] = command /\ mem'[c] = copy /\ seen'[c] = row
         /\ command # None
BY NoneIsNoRecord DEF CallsTyped, Moves, LeavesOthers

\* A call whose command, copy and session stay as they are.
LEMMA GoesOnAsItIs ==
  ASSUME CallsTyped, NEW c \in Calls, NEW where \in Steps, GoTo(c, where), UNCHANGED <<cmd, mem, seen>>
  PROVE  /\ CallsTyped' /\ LeavesOthers(c)
         /\ pc'[c] = where /\ cmd'[c] = cmd[c] /\ mem'[c] = mem[c] /\ seen'[c] = seen[c]
BY DEF CallsTyped, GoTo, LeavesOthers

\* What the steps before have left a call under way with.
LEMMA CallUnderWay ==
  ASSUME IdentityInv, NEW c \in Calls
  PROVE  /\ TablesTyped /\ CallsTyped /\ References /\ CallFits(c)
         /\ Running(c) => cmd[c] \in Commands /\ cmd[c].user \in People
         /\ Running(c) => (mem[c] # None => mem[c] \in UserRow)
         /\ mem[c] \in UserRow \cup {None}
<1>1. CallFits(c) /\ TablesTyped /\ CallsTyped /\ References /\ mem[c] \in UserRow \cup {None}
  BY DEF IdentityInv, IdentityTypeOK, TablesTyped, CallsTyped
<1>2. Running(c) => cmd[c] \in Commands
  BY <1>1 DEF CallFits, MemoryFits, Running, CallsTyped
<1> QED BY <1>1, <1>2, CommandNames

\* A call that saves a user: nobody else's row moves, and the copy falls behind.
LEMMA SavingFits ==
  ASSUME IdentityInv, NEW c \in Calls, Running(c), mem[c] # None, CanSaveUser(c),
         NEW v, Decision(mem[c], v), SaveUser(c, v), UNCHANGED <<session, token, link>>,
         redeemed' \in [Calls -> SUBSET Calls],
         \A t \in Calls : redeemed'[t] # {} => token[t] # None /\ token[t].spent
  PROVE  /\ TablesTyped' /\ References' /\ TablesGrow(c)
         /\ user[cmd[c].user] = mem[c] /\ user'[cmd[c].user] # None
         /\ cmd'[c] = cmd[c] /\ mem'[c] = mem[c] => CopyIsSound(c)'
<1> DEFINE e == cmd[c].user
<1>1. /\ TablesTyped /\ References /\ CopyIsSound(c) /\ e \in People /\ mem[c] \in UserRow
  BY CallUnderWay DEF CallFits
<1>2. /\ user[e] = mem[c] /\ user[e] # None /\ user'[e] # None
      /\ user'[e].version = user[e].version + 1
      /\ user' \in [People -> UserRow \cup {None}]
      /\ \A d \in People : user[d] # None =>
           /\ user'[d] # None /\ user[d].version <= user'[d].version
           /\ user'[d].version = user[d].version => user'[d] = user[d]
           /\ user[d].password # None => user'[d].password # None
  BY <1>1, SavedUser
<1>3. TablesTyped' /\ TablesGrow(c)
  BY <1>1, <1>2 DEF TablesTyped, TablesGrow
<1>4. References'
  <2>1. \A s \in SessionIds : session[s] # None => session[s].user \in People
    BY <1>1 DEF TablesTyped, SessionRow
  <2>2. \A t \in Calls : token[t] # None => token[t].user \in People
    BY <1>1 DEF TablesTyped, TokenRow
  <2>3. \A g \in Googles : link[g] # None => link[g] \in People
    BY <1>1 DEF TablesTyped
  <2> QED BY <1>1, <1>2, <2>1, <2>2, <2>3 DEF References
<1>5. ASSUME cmd'[c] = cmd[c], mem'[c] = mem[c] PROVE CopyIsSound(c)'
  <2>1. mem[c].version \in Nat
    BY <1>1 DEF UserRow
  <2> QED BY <1>2, <1>5, <2>1 DEF CopyIsSound
<1> QED BY <1>2, <1>3, <1>4, <1>5

USE DEF SignInSteps, GoogleSteps, LinkSteps, MailSteps, SessionSteps, RedeemSteps, ChangeSteps,
        TeamSteps, Ended

----------------------------------------------------------------------------
(* Calls of SignIn *)

LEMMA ReadForSignInFits ==
  ASSUME IdentityInv, NEW c \in Calls, NEW e \in People, NEW right \in BOOLEAN, ReadForSignIn(c, e, right)
  PROVE  FittingStep(c)
<1>1. CallsTyped /\ pc[c] = "idle" /\ CallFits(c)
  BY DEF IdentityInv, IdentityTypeOK, CallsTyped, ReadForSignIn, Start
<1>2. TablesTyped' /\ References' /\ TablesGrow(c) /\ UNCHANGED tables
  BY TablesAlone DEF ReadForSignIn
<1>3. CASE End(c, "refused")
  BY <1>1, <1>2, <1>3, EndFits DEF FittingStep
<1>4. CASE ~End(c, "refused")
  <2> DEFINE command == [op |-> "signIn", user |-> e, right |-> right, password |-> user[e].password]
  <2>1. Attemptable(e) /\ Moves(c, "saveAttempt", command, user[e], seen[c])
    BY <1>1, <1>4 DEF ReadForSignIn, ReadUser, Command, GoTo, Moves, CallsTyped
  <2>2. user[e] \in UserRow
    BY <2>1 DEF Attemptable, IdentityInv, IdentityTypeOK
  <2>3. command \in SignInCommand
    BY <2>2 DEF UserRow, SignInCommand
  <2>4. "saveAttempt" \in Steps /\ command \in Commands /\ seen[c] \in SessionRow \cup TokenRow \cup {None}
    BY <1>1, <2>3 DEF Steps, Commands, CallsTyped
  <2>5. /\ CallsTyped' /\ LeavesOthers(c)
        /\ pc'[c] = "saveAttempt" /\ cmd'[c] = command /\ mem'[c] = user[e] /\ command # None
    BY <1>1, <2>1, <2>2, <2>4, MovesTyped
  <2>6. CommandFits(c)'
    BY <2>3, <2>5 DEF CommandFits
  <2>7. MemoryFits(c)'
    BY <2>1, <2>5 DEF MemoryFits, Attemptable
  <2>8. TablesFit(c)'
    BY <1>1, <1>2, <2>1, <2>5 DEF TablesFit, CallFits, Running, Attemptable, tables
  <2>9. CopyIsSound(c)'
    BY <1>2, <2>1, <2>2, <2>5 DEF CopyIsSound, UserRow, tables, Attemptable
  <2> QED BY <1>2, <2>5, <2>6, <2>7, <2>8, <2>9 DEF FittingStep, CallFits
<1> QED BY <1>3, <1>4

LEMMA SaveAttemptFits ==
  ASSUME IdentityInv, NEW c \in Calls, SaveAttempt(c)
  PROVE  FittingStep(c)
<1>1. /\ TablesTyped /\ CallsTyped /\ References /\ CallFits(c)
      /\ pc[c] = "saveAttempt" /\ Running(c) /\ cmd[c] \in SignInCommand /\ cmd[c].user \in People
      /\ mem[c] \in UserRow /\ mem[c] # None /\ c \in Passwords
  BY CallUnderWay DEF SaveAttempt, CallFits, CommandFits, MemoryFits, Running, Passwords
<1>2. CASE UNCHANGED tables /\ End(c, "failed")
  BY <1>1, <1>2, TablesAlone, EndFits DEF FittingStep
<1>3. CASE CanSaveUser(c) /\ ~(UNCHANGED tables /\ End(c, "failed"))
  <2>1. PICK v : SaveUser(c, v) /\ Decision(mem[c], v)
                  /\ (\/ End(c, "refused")
                      \/ GoTo(c, "issue") /\ UNCHANGED <<cmd, mem, seen>>)
    <3>1. CASE cmd[c].right
      BY <1>1, <1>3, <3>1, RulesDecide DEF SaveAttempt, LoseRace
    <3>2. CASE ~cmd[c].right
      BY <1>1, <1>3, <3>2, RulesDecide DEF SaveAttempt, LoseRace
    <3> QED BY <3>1, <3>2
  <2>2. UNCHANGED <<session, token, link, redeemed>>
    BY <1>3 DEF SaveAttempt, LoseRace
  <2>3. /\ TablesTyped' /\ References' /\ TablesGrow(c) /\ user'[cmd[c].user] # None
        /\ (cmd'[c] = cmd[c] /\ mem'[c] = mem[c] => CopyIsSound(c)')
    BY <1>1, <1>3, <2>1, <2>2, SavingFits DEF References, TablesTyped
  <2>4. CASE End(c, "refused")
    BY <1>1, <2>3, <2>4, EndFits DEF FittingStep
  <2>5. CASE GoTo(c, "issue") /\ UNCHANGED <<cmd, mem, seen>>
    <3>1. /\ CallsTyped' /\ LeavesOthers(c)
          /\ pc'[c] = "issue" /\ cmd'[c] = cmd[c] /\ mem'[c] = mem[c] /\ seen'[c] = seen[c]
      BY <1>1, <2>5, GoesOnAsItIs DEF Steps
    <3>2. CommandFits(c)' /\ MemoryFits(c)' /\ TablesFit(c)'
      BY <1>1, <2>2, <2>3, <3>1 DEF CommandFits, MemoryFits, TablesFit, CallFits, Running
    <3> QED BY <2>3, <3>1, <3>2 DEF FittingStep, CallFits
  <2> QED BY <2>1, <2>4, <2>5
<1> QED BY <1>2, <1>3 DEF SaveAttempt, LoseRace

LEMMA IssueSessionFits ==
  ASSUME IdentityInv, NEW c \in Calls, IssueSession(c)
  PROVE  FittingStep(c)
<1> DEFINE row == [user |-> cmd[c].user, revoked |-> FALSE, password |-> cmd[c].password]
<1>1. /\ TablesTyped /\ CallsTyped /\ References /\ CallFits(c)
      /\ cmd[c] \in SignInCommand \cup RegisterCommand \cup GoogleCommand
      /\ cmd[c].user \in People /\ user[cmd[c].user] # None
  BY CallUnderWay DEF IssueSession, CallFits, CommandFits, TablesFit, Running, NewAddressSteps
<1>2. row \in SessionRow /\ c \in SessionIds
  BY <1>1 DEF SessionRow, SessionIds, SignInCommand, RegisterCommand, GoogleCommand, Passwords
<1>3. session' = [session EXCEPT ![c] = row] /\ UNCHANGED <<user, token, link, redeemed>>
  BY DEF IssueSession
<1>4. TablesTyped' /\ References'
  BY <1>1, <1>2, <1>3 DEF TablesTyped, References
<1>5. \A e \in People : user[e] # None => user[e].version \in Nat
  BY <1>1 DEF TablesTyped, UserRow
<1>6. TablesGrow(c)
  <2>1. \A s \in SessionIds : session[s] # None => session'[s] # None
    BY <1>1, <1>2, <1>3, NoneIsNoRecord DEF TablesTyped
  <2> QED BY <1>3, <1>5, <2>1 DEF TablesGrow
<1> QED BY <1>1, <1>4, <1>6, EndFits DEF IssueSession, FittingStep

\* A new user, in the table and in the memory of the call that inserted it.
LEMMA InsertFits ==
  ASSUME IdentityInv, NEW c \in Calls, NEW e \in People, user[e] = None,
         NEW p \in Passwords \cup {None}, Insert(c, e, p), UNCHANGED <<session, token, link, redeemed>>
  PROVE  /\ TablesTyped' /\ References' /\ TablesGrow(c)
         /\ user'[e] = NewUser(p) /\ user'[e] # None
<1>1. TablesTyped /\ References
  BY CallUnderWay
<1>2. NewUser(p) \in UserRow /\ NewUser(p) # None
  BY NewUserTyped, NoneIsNoRecord
<1>3. /\ user' \in [People -> UserRow \cup {None}] /\ user'[e] = NewUser(p)
      /\ \A d \in People : d # e => user'[d] = user[d]
  BY <1>1, <1>2 DEF Insert, TablesTyped
<1>4. TablesTyped' /\ References'
  <2>1. /\ \A s \in SessionIds : session[s] # None => session[s].user \in People
        /\ \A t \in Calls : token[t] # None => token[t].user \in People
        /\ \A g \in Googles : link[g] # None => link[g] \in People
    BY <1>1 DEF TablesTyped, SessionRow, TokenRow
  <2> QED BY <1>1, <1>2, <1>3, <2>1 DEF TablesTyped, References
<1>5. \A d \in People : user[d] # None => user[d].version \in Nat
  BY <1>1 DEF TablesTyped, UserRow
<1>6. TablesGrow(c)
  BY <1>3, <1>5 DEF TablesGrow
<1> QED BY <1>2, <1>3, <1>4, <1>6

LEMMA RegisterFits ==
  ASSUME IdentityInv, NEW c \in Calls, NEW e \in People, Register(c, e)
  PROVE  FittingStep(c)
<1> DEFINE command == [op |-> "register", user |-> e, password |-> c, purpose |-> "email-verification"]
<1>1. TablesTyped /\ CallsTyped /\ CallFits(c) /\ pc[c] = "idle" /\ c \in Passwords
  BY CallUnderWay DEF Register, Start, Passwords
<1>2. CASE user[e] # None
  <2>1. UNCHANGED tables /\ End(c, "refused")
    BY <1>2 DEF Register, tables
  <2> QED BY <1>1, <2>1, TablesAlone, EndFits DEF FittingStep
<1>3. CASE user[e] = None
  <2>1. Insert(c, e, c) /\ UNCHANGED <<session, token, link, redeemed>>
    BY <1>3 DEF Register
  <2>2. TablesTyped' /\ References' /\ TablesGrow(c) /\ user'[e] = NewUser(c) /\ user'[e] # None
    BY <1>1, <1>3, <2>1, InsertFits
  <2>3. NewUser(c) \in UserRow /\ command \in RegisterCommand /\ "supersede" \in Steps
    BY <1>1, NewUserTyped DEF RegisterCommand, Steps
  <2>4. command \in Commands /\ seen[c] \in SessionRow \cup TokenRow \cup {None}
    BY <1>1, <2>3 DEF Commands, CallsTyped
  <2>5. Moves(c, "supersede", command, NewUser(c), seen[c])
    BY <1>1, <1>3, <2>1 DEF Register, Insert, GoTo, Command, Moves, CallsTyped
  <2>6. /\ CallsTyped' /\ LeavesOthers(c)
        /\ pc'[c] = "supersede" /\ cmd'[c] = command /\ mem'[c] = NewUser(c) /\ command # None
    BY <1>1, <2>3, <2>4, <2>5, MovesTyped
  <2>7. CommandFits(c)' /\ MemoryFits(c)'
    BY <2>3, <2>6 DEF CommandFits, MemoryFits
  <2>8. TablesFit(c)'
    BY <1>1, <2>1, <2>2, <2>6 DEF TablesFit, CallFits, Running
  <2>9. CopyIsSound(c)'
    <3>1. NewUser(c).version = 0 /\ command.user = e
      BY <1>1, NewUserTyped
    <3> QED BY <2>2, <2>6, <3>1 DEF CopyIsSound
  <2> QED BY <2>2, <2>6, <2>7, <2>8, <2>9 DEF FittingStep, CallFits
<1> QED BY <1>2, <1>3

\* After a link was mailed, or was not.
LEMMA AfterMailFits ==
  ASSUME IdentityInv, NEW c \in Calls, pc[c] \in MailSteps, AfterMail(c), UNCHANGED user,
         TablesTyped', References', TablesGrow(c)
  PROVE  FittingStep(c)
<1>1. /\ CallsTyped /\ CallFits(c) /\ cmd[c] \in RegisterCommand \cup AskCommand
      /\ cmd[c].user \in People /\ user[cmd[c].user] # None
  BY CallUnderWay DEF CallFits, CommandFits, TablesFit, Running, NewAddressSteps
<1>2. CASE cmd[c].op = "register"
  <2>1. cmd[c] \in RegisterCommand /\ "issue" \in Steps
    BY <1>1, <1>2 DEF RegisterCommand, AskCommand, Steps
  <2>2. /\ CallsTyped' /\ LeavesOthers(c)
        /\ pc'[c] = "issue" /\ cmd'[c] = cmd[c] /\ mem'[c] = mem[c] /\ seen'[c] = seen[c]
    BY <1>1, <1>2, <2>1, GoesOnAsItIs DEF AfterMail
  <2>3. CommandFits(c)' /\ MemoryFits(c)' /\ TablesFit(c)' /\ CopyIsSound(c)'
    BY <1>1, <2>1, <2>2 DEF CommandFits, MemoryFits, TablesFit, CopyIsSound, CallFits, Running
  <2> QED BY <2>2, <2>3 DEF FittingStep, CallFits
<1>3. CASE cmd[c].op # "register"
  BY <1>1, <1>3, EndFits DEF AfterMail, FittingStep
<1> QED BY <1>2, <1>3

\* The links of one person and purpose are spent, and others left as they are.
LEMMA ConsumingFits ==
  ASSUME IdentityInv, NEW c \in Calls, NEW e, NEW p, ConsumeOutstanding(e, p),
         UNCHANGED <<user, session, link, redeemed>>
  PROVE  /\ TablesTyped' /\ References' /\ TablesGrow(c)
         /\ \A t \in Calls : token[t] = None => token'[t] = None
<1>1. TablesTyped /\ References
  BY CallUnderWay
<1>2. ASSUME NEW t \in Calls
      PROVE  /\ token'[t] \in TokenRow \cup {None} /\ (token'[t] = None <=> token[t] = None)
             /\ token[t] # None => /\ token'[t].user = token[t].user
                                   /\ token[t].spent => token'[t].spent
  <2>1. CASE t \in Outstanding(e, p)
    <3>1. token[t] \in TokenRow /\ token'[t] = [token[t] EXCEPT !.spent = TRUE]
      BY <1>1, <2>1 DEF TablesTyped, ConsumeOutstanding, Outstanding
    <3>2. token'[t] \in TokenRow /\ token'[t].user = token[t].user /\ token'[t].spent
      BY <3>1 DEF TokenRow
    <3> QED BY <3>1, <3>2, NoneIsNoRecord
  <2>2. CASE t \notin Outstanding(e, p)
    BY <1>1, <2>2 DEF TablesTyped, ConsumeOutstanding
  <2> QED BY <2>1, <2>2
<1>3. token' \in [Calls -> TokenRow \cup {None}]
  BY <1>2 DEF ConsumeOutstanding
<1>4. \A d \in People : user[d] # None => user[d].version \in Nat
  BY <1>1 DEF TablesTyped, UserRow
<1> QED BY <1>1, <1>2, <1>3, <1>4 DEF TablesTyped, References, TablesGrow

LEMMA SupersedeFits ==
  ASSUME IdentityInv, NEW c \in Calls, Supersede(c)
  PROVE  FittingStep(c)
<1>1. /\ CallsTyped /\ CallFits(c) /\ pc[c] = "supersede" /\ "mailLink" \in Steps
      /\ user[cmd[c].user] # None
  BY CallUnderWay DEF Supersede, Steps, CallFits, TablesFit, Running, NewAddressSteps
<1>2. /\ TablesTyped' /\ References' /\ TablesGrow(c)
      /\ \A t \in Calls : token[t] = None => token'[t] = None
  BY ConsumingFits DEF Supersede
<1>3. /\ CallsTyped' /\ LeavesOthers(c) /\ UNCHANGED user
      /\ pc'[c] = "mailLink" /\ cmd'[c] = cmd[c] /\ mem'[c] = mem[c] /\ seen'[c] = seen[c]
  BY <1>1, GoesOnAsItIs DEF Supersede
<1>4. CommandFits(c)' /\ MemoryFits(c)' /\ CopyIsSound(c)'
  BY <1>1, <1>3 DEF CommandFits, MemoryFits, CopyIsSound, CallFits
<1>5. TablesFit(c)'
  BY <1>1, <1>2, <1>3 DEF TablesFit, CallFits, Running
<1> QED BY <1>2, <1>3, <1>4, <1>5 DEF FittingStep, CallFits

LEMMA MailLinkFits ==
  ASSUME IdentityInv, NEW c \in Calls, MailLink(c)
  PROVE  FittingStep(c)
<1> DEFINE row == [user |-> cmd[c].user, purpose |-> cmd[c].purpose, spent |-> FALSE]
<1>1. /\ TablesTyped /\ References /\ CallFits(c) /\ pc[c] = "mailLink"
      /\ cmd[c] \in RegisterCommand \cup AskCommand
      /\ cmd[c].user \in People /\ user[cmd[c].user] # None /\ token[c] = None
  BY CallUnderWay DEF MailLink, CallFits, CommandFits, TablesFit, Running, NewAddressSteps
<1>2. row \in TokenRow /\ token' = [token EXCEPT ![c] = row] /\ UNCHANGED <<user, session, link, redeemed>>
  BY <1>1 DEF TokenRow, RegisterCommand, AskCommand, Purposes, MailLink
<1>3. TablesTyped' /\ References'
  BY <1>1, <1>2 DEF TablesTyped, References
<1>4. \A d \in People : user[d] # None => user[d].version \in Nat
  BY <1>1 DEF TablesTyped, UserRow
<1>5. TablesGrow(c)
  BY <1>1, <1>2, <1>4 DEF TablesGrow, TablesTyped
<1> QED BY <1>1, <1>2, <1>3, <1>5, AfterMailFits DEF MailLink

LEMMA MailFailsFits ==
  ASSUME IdentityInv, NEW c \in Calls, MailFails(c)
  PROVE  FittingStep(c)
BY TablesAlone, AfterMailFits DEF MailFails, tables

----------------------------------------------------------------------------
(* Google *)

LEMMA FindLinkFits ==
  ASSUME IdentityInv, NEW c \in Calls, NEW g \in Googles, FindLink(c, g)
  PROVE  FittingStep(c)
<1> DEFINE e == IF link[g] # None THEN link[g] ELSE GoogleEmail[g]
           command == [op |-> "google", user |-> e, google |-> g, password |-> None]
           next == IF link[g] # None THEN "googleUser" ELSE "googleEmail"
<1>1. /\ TablesTyped /\ CallsTyped /\ References /\ CallFits(c) /\ pc[c] = "idle"
      /\ token[c] = None /\ mem[c] = None
  BY CallUnderWay DEF FindLink, Start, CallFits, TablesFit, MemoryFits
<1>2. TablesTyped' /\ References' /\ TablesGrow(c) /\ UNCHANGED tables
  BY TablesAlone DEF FindLink
<1>3. CASE End(c, "refused")
  BY <1>1, <1>2, <1>3, EndFits DEF FittingStep
<1>4. CASE ~End(c, "refused")
  <2>1. e \in People /\ (link[g] # None => user[e] # None)
    BY <1>1, GoogleAssumption DEF TablesTyped, References
  <2>2. command \in GoogleCommand /\ next \in Steps /\ next \in GoogleSteps
    BY <2>1 DEF GoogleCommand, Steps
  <2>3. command \in Commands /\ seen[c] \in SessionRow \cup TokenRow \cup {None}
    BY <1>1, <2>2 DEF Commands, CallsTyped
  <2>4. Moves(c, next, command, None, seen[c])
    BY <1>1, <1>4 DEF FindLink, GoTo, Command, Moves, CallsTyped
  <2>5. /\ CallsTyped' /\ LeavesOthers(c)
        /\ pc'[c] = next /\ cmd'[c] = command /\ mem'[c] = None /\ command # None
    BY <1>1, <2>2, <2>3, <2>4, MovesTyped
  <2>6. next \in {"googleUser", "googleEmail"} /\ (next = "googleUser" => user'[e] # None)
    BY <1>2, <2>1 DEF tables
  <2>7. command.user = e /\ token'[c] = None
    BY <1>1, <1>2 DEF tables
  <2> HIDE DEF next, command, e
  <2>8. CommandFits(c)' /\ MemoryFits(c)' /\ CopyIsSound(c)'
    BY <2>2, <2>5, <2>6 DEF CommandFits, MemoryFits, CopyIsSound
  <2>9. TablesFit(c)'
    BY <2>5, <2>6, <2>7 DEF TablesFit, Running, NewAddressSteps
  <2> QED BY <1>2, <2>5, <2>8, <2>9 DEF FittingStep, CallFits
<1> QED BY <1>3, <1>4

LEMMA FindByEmailFits ==
  ASSUME IdentityInv, NEW c \in Calls, FindByEmail(c)
  PROVE  FittingStep(c)
<1>1. /\ TablesTyped /\ CallsTyped /\ CallFits(c) /\ pc[c] = "googleEmail" /\ Running(c)
      /\ cmd[c] \in GoogleCommand /\ cmd[c] \in Commands /\ cmd[c].user \in People
      /\ token[c] = None
  BY CallUnderWay DEF FindByEmail, CallFits, CommandFits, TablesFit, Running
<1>2. TablesTyped' /\ References' /\ TablesGrow(c) /\ UNCHANGED tables
  BY TablesAlone DEF FindByEmail
<1>3. CASE user[cmd[c].user] # None
  <2>1. user[cmd[c].user] \in UserRow /\ "googleLink" \in Steps
        /\ seen[c] \in SessionRow \cup TokenRow \cup {None}
    BY <1>1, <1>3 DEF TablesTyped, CallsTyped, Steps
  <2>2. Moves(c, "googleLink", cmd[c], user[cmd[c].user], seen[c])
    BY <1>1, <1>3 DEF FindByEmail, ReadUser, GoTo, Moves, CallsTyped
  <2>3. /\ CallsTyped' /\ LeavesOthers(c)
        /\ pc'[c] = "googleLink" /\ cmd'[c] = cmd[c] /\ mem'[c] = user[cmd[c].user]
    BY <1>1, <2>1, <2>2, MovesTyped
  <2>4. CommandFits(c)' /\ MemoryFits(c)'
    BY <1>1, <1>3, <2>3 DEF CommandFits, MemoryFits, CallFits
  <2>5. TablesFit(c)' /\ CopyIsSound(c)'
    BY <1>1, <1>2, <1>3, <2>1, <2>3 DEF TablesFit, CopyIsSound, UserRow, tables
  <2> QED BY <1>2, <2>3, <2>4, <2>5 DEF FittingStep, CallFits
<1>4. CASE user[cmd[c].user] = None
  <2>1. /\ CallsTyped' /\ LeavesOthers(c)
        /\ pc'[c] = "googleInsert" /\ cmd'[c] = cmd[c] /\ mem'[c] = mem[c]
    BY <1>1, <1>4, GoesOnAsItIs DEF FindByEmail, Steps
  <2>2. CommandFits(c)' /\ MemoryFits(c)'
    BY <1>1, <2>1 DEF CommandFits, MemoryFits, CallFits
  <2>3. TablesFit(c)' /\ CopyIsSound(c)'
    BY <1>1, <1>2, <2>1 DEF TablesFit, CopyIsSound, CallFits, NewAddressSteps, tables
  <2> QED BY <1>2, <2>1, <2>2, <2>3 DEF FittingStep, CallFits
<1> QED BY <1>3, <1>4

LEMMA InsertByGoogleFits ==
  ASSUME IdentityInv, NEW c \in Calls, InsertByGoogle(c)
  PROVE  FittingStep(c)
<1> DEFINE e == cmd[c].user
<1>1. /\ TablesTyped /\ CallsTyped /\ CallFits(c) /\ pc[c] = "googleInsert" /\ Running(c)
      /\ cmd[c] \in GoogleCommand /\ cmd[c] \in Commands /\ e \in People /\ token[c] = None
  BY CallUnderWay DEF InsertByGoogle, CallFits, CommandFits, TablesFit, Running
<1>2. UNCHANGED <<session, token, link, redeemed>>
  BY DEF InsertByGoogle
<1>3. CASE user[e] = None
  <2>1. Insert(c, e, None)
    BY <1>3 DEF InsertByGoogle
  <2>2. TablesTyped' /\ References' /\ TablesGrow(c) /\ user'[e] = NewUser(None) /\ user'[e] # None
    BY <1>1, <1>2, <1>3, <2>1, InsertFits
  <2>3. NewUser(None) \in UserRow /\ NewUser(None).version = 0 /\ "googleLink" \in Steps
        /\ seen[c] \in SessionRow \cup TokenRow \cup {None}
    BY <1>1, NewUserTyped DEF CallsTyped, Steps
  <2>4. Moves(c, "googleLink", cmd[c], NewUser(None), seen[c])
    BY <1>1, <1>3 DEF InsertByGoogle, Insert, GoTo, Moves, CallsTyped
  <2>5. /\ CallsTyped' /\ LeavesOthers(c)
        /\ pc'[c] = "googleLink" /\ cmd'[c] = cmd[c] /\ mem'[c] = NewUser(None)
    BY <1>1, <2>3, <2>4, MovesTyped
  <2>6. CommandFits(c)' /\ MemoryFits(c)'
    BY <1>1, <2>3, <2>5, NoneIsNoRecord DEF CommandFits, MemoryFits, CallFits
  <2>7. TablesFit(c)' /\ CopyIsSound(c)'
    BY <1>1, <1>2, <2>2, <2>3, <2>5 DEF TablesFit, CopyIsSound
  <2> QED BY <2>2, <2>5, <2>6, <2>7 DEF FittingStep, CallFits
<1>4. CASE user[e] # None
  <2>1. TablesTyped' /\ References' /\ TablesGrow(c) /\ UNCHANGED tables
    BY <1>2, <1>4, TablesAlone DEF InsertByGoogle, tables
  <2>2. /\ CallsTyped' /\ LeavesOthers(c)
        /\ pc'[c] = "googleEmail" /\ cmd'[c] = cmd[c] /\ mem'[c] = mem[c]
    BY <1>1, <1>4, GoesOnAsItIs DEF InsertByGoogle, Steps
  <2>3. CommandFits(c)' /\ MemoryFits(c)'
    BY <1>1, <2>2 DEF CommandFits, MemoryFits, CallFits
  <2>4. TablesFit(c)' /\ CopyIsSound(c)'
    BY <1>1, <2>1, <2>2 DEF TablesFit, CopyIsSound, CallFits, NewAddressSteps, tables
  <2> QED BY <2>1, <2>2, <2>3, <2>4 DEF FittingStep, CallFits
<1> QED BY <1>3, <1>4

\* Let in, or refused as disabled: on a copy that is sound.
LEMMA AdmitFits ==
  ASSUME IdentityInv, NEW c \in Calls, pc[c] \in {"googleLink", "googleUser"}, NEW row \in UserRow,
         Admit(c, row), UNCHANGED <<user, token>>, TablesTyped', References', TablesGrow(c),
         user[cmd[c].user] # None, row.version <= user[cmd[c].user].version,
         row.version = user[cmd[c].user].version => row = user[cmd[c].user]
  PROVE  FittingStep(c)
<1>1. /\ TablesTyped /\ CallsTyped /\ CallFits(c) /\ Running(c)
      /\ cmd[c] \in GoogleCommand /\ cmd[c] \in Commands /\ token[c] = None
      /\ seen[c] \in SessionRow \cup TokenRow \cup {None} /\ "saveVouched" \in Steps
  BY CallUnderWay DEF CallFits, CommandFits, TablesFit, Running, CallsTyped, Steps
<1>2. CASE row.status = "disabled"
  BY <1>1, <1>2, EndFits DEF Admit, FittingStep
<1>3. CASE row.status # "disabled"
  <2>1. Moves(c, "saveVouched", cmd[c], row, seen[c])
    BY <1>1, <1>3 DEF Admit, GoTo, Moves, CallsTyped
  <2>2. /\ CallsTyped' /\ LeavesOthers(c)
        /\ pc'[c] = "saveVouched" /\ cmd'[c] = cmd[c] /\ mem'[c] = row
    BY <1>1, <2>1, MovesTyped
  <2>3. CommandFits(c)' /\ MemoryFits(c)'
    BY <1>1, <1>3, <2>2, NoneIsNoRecord DEF CommandFits, MemoryFits, CallFits
  <2>4. TablesFit(c)' /\ CopyIsSound(c)'
    BY <1>1, <2>2 DEF TablesFit, CopyIsSound
  <2> QED BY <2>2, <2>3, <2>4 DEF FittingStep, CallFits
<1> QED BY <1>2, <1>3

LEMMA ReadLinkedUserFits ==
  ASSUME IdentityInv, NEW c \in Calls, ReadLinkedUser(c)
  PROVE  FittingStep(c)
<1>1. /\ TablesTyped /\ CallFits(c) /\ cmd[c].user \in People /\ user[cmd[c].user] # None
  BY CallUnderWay DEF ReadLinkedUser, CallFits, TablesFit, Running, NewAddressSteps
<1>2. user[cmd[c].user] \in UserRow /\ user[cmd[c].user].version \in Nat
  BY <1>1 DEF TablesTyped, UserRow
<1>3. UNCHANGED tables /\ UNCHANGED <<user, token>>
  BY DEF ReadLinkedUser, tables
<1>4. user[cmd[c].user].version <= user[cmd[c].user].version
  BY <1>2
<1> QED BY <1>1, <1>2, <1>3, <1>4, TablesAlone, AdmitFits DEF ReadLinkedUser

\* A row of the connected accounts is added.
LEMMA LinkingFits ==
  ASSUME IdentityInv, NEW c \in Calls, NEW g \in Googles, NEW e \in People, user[e] # None,
         link' = [link EXCEPT ![g] = e], UNCHANGED <<user, session, token, redeemed>>
  PROVE  TablesTyped' /\ References' /\ TablesGrow(c)
<1>1. TablesTyped /\ References
  BY CallUnderWay
<1>2. \A d \in People : user[d] # None => user[d].version \in Nat
  BY <1>1 DEF TablesTyped, UserRow
<1>3. TablesTyped' /\ References'
  BY <1>1 DEF TablesTyped, References
<1> QED BY <1>2, <1>3 DEF TablesGrow

LEMMA LinkByGoogleFits ==
  ASSUME IdentityInv, NEW c \in Calls, LinkByGoogle(c)
  PROVE  FittingStep(c)
<1>1. /\ TablesTyped /\ CallsTyped /\ CallFits(c) /\ pc[c] = "googleLink" /\ Running(c)
      /\ cmd[c] \in GoogleCommand /\ cmd[c].user \in People /\ user[cmd[c].user] # None
      /\ mem[c] \in UserRow /\ mem[c] # None /\ CopyIsSound(c)
  BY CallUnderWay DEF LinkByGoogle, CallFits, CommandFits, MemoryFits, TablesFit, Running, NewAddressSteps
<1>2. UNCHANGED <<user, session, token, redeemed>> /\ cmd[c].google \in Googles
  BY <1>1 DEF LinkByGoogle, GoogleCommand
<1>3. CASE MayLink(cmd[c].google, cmd[c].user)
  <2>1. TablesTyped' /\ References' /\ TablesGrow(c)
    BY <1>1, <1>2, <1>3, LinkingFits DEF LinkByGoogle
  <2> QED BY <1>1, <1>2, <1>3, <2>1, AdmitFits DEF LinkByGoogle, CopyIsSound
<1>4. CASE ~MayLink(cmd[c].google, cmd[c].user)
  <2>1. UNCHANGED tables /\ End(c, "refused")
    BY <1>4 DEF LinkByGoogle, tables
  <2> QED BY <1>1, <2>1, TablesAlone, EndFits DEF FittingStep
<1> QED BY <1>3, <1>4

LEMMA SaveVouchedFits ==
  ASSUME IdentityInv, NEW c \in Calls, SaveVouched(c)
  PROVE  FittingStep(c)
<1>1. /\ TablesTyped /\ CallsTyped /\ References /\ CallFits(c)
      /\ pc[c] = "saveVouched" /\ Running(c) /\ cmd[c] \in GoogleCommand
      /\ mem[c] \in UserRow /\ mem[c] # None /\ c \in Passwords /\ "issue" \in Steps
  BY CallUnderWay DEF SaveVouched, CallFits, CommandFits, MemoryFits, Running, Passwords, Steps
<1>2. CASE LoseRace(c)
  BY <1>1, <1>2, TablesAlone, EndFits DEF LoseRace, FittingStep
<1>3. CASE ~LoseRace(c)
  <2>1. CanSaveUser(c) /\ SaveUser(c, Vouched(mem[c])) /\ UNCHANGED <<session, token, link, redeemed>>
    BY <1>3 DEF SaveVouched
  <2>2. Decision(mem[c], Vouched(mem[c]))
    BY <1>1, RulesDecide
  <2>3. /\ TablesTyped' /\ References' /\ TablesGrow(c) /\ user'[cmd[c].user] # None
        /\ (cmd'[c] = cmd[c] /\ mem'[c] = mem[c] => CopyIsSound(c)')
    BY <1>1, <2>1, <2>2, SavingFits DEF References, TablesTyped
  <2>4. /\ CallsTyped' /\ LeavesOthers(c)
        /\ pc'[c] = "issue" /\ cmd'[c] = cmd[c] /\ mem'[c] = mem[c] /\ seen'[c] = seen[c]
    BY <1>1, <1>3, GoesOnAsItIs DEF SaveVouched
  <2>5. CommandFits(c)' /\ MemoryFits(c)' /\ TablesFit(c)'
    BY <1>1, <2>1, <2>3, <2>4 DEF CommandFits, MemoryFits, TablesFit, CallFits, Running
  <2> QED BY <2>3, <2>4, <2>5 DEF FittingStep, CallFits
<1> QED BY <1>2, <1>3

\* A call that ends and has written nothing.
LEMMA EndingFits ==
  ASSUME IdentityInv, NEW c \in Calls, NEW how \in Ended, End(c, how), UNCHANGED tables
  PROVE  FittingStep(c)
BY CallUnderWay, TablesAlone, EndFits DEF FittingStep

\* A call that begins, on what it read.
LEMMA BeginningMoves ==
  ASSUME IdentityInv, NEW c \in Calls, pc[c] = "idle", NEW where \in Steps, NEW command \in Commands,
         NEW copy \in UserRow \cup {None}, NEW row \in SessionRow \cup TokenRow \cup {None},
         Moves(c, where, command, copy, row), UNCHANGED tables
  PROVE  /\ TablesTyped' /\ References' /\ TablesGrow(c) /\ CallsTyped' /\ LeavesOthers(c)
         /\ pc'[c] = where /\ cmd'[c] = command /\ mem'[c] = copy /\ seen'[c] = row
         /\ command # None /\ token'[c] = None
<1>1. CallsTyped /\ token[c] = None
  BY CallUnderWay DEF CallFits, TablesFit
<1> QED BY <1>1, MovesTyped, TablesAlone DEF tables

\* A call that has not begun holds nothing.
LEMMA IdleCall ==
  ASSUME IdentityInv, NEW c \in Calls, pc[c] = "idle"
  PROVE  /\ mem[c] = None /\ mem[c] \in UserRow \cup {None}
         /\ seen[c] \in SessionRow \cup TokenRow \cup {None}
BY CallUnderWay DEF CallFits, MemoryFits, CallsTyped

\* A session belongs to a user there is.
LEMMA SignedInExists ==
  ASSUME IdentityInv, NEW e \in People, SignedIn(e)
  PROVE  user[e] # None
BY DEF IdentityInv, References, SignedIn, SessionsOf

----------------------------------------------------------------------------
(* Connected accounts *)

LEMMA ReadLinksFits ==
  ASSUME IdentityInv, NEW c \in Calls, NEW e \in People, NEW g \in Googles, ReadLinks(c, e, g)
  PROVE  FittingStep(c)
<1> DEFINE command == [op |-> "connect", user |-> e, google |-> g]
<1>1. pc[c] = "idle" /\ UNCHANGED tables /\ user[e] # None /\ CallsTyped
  BY SignedInExists, CallUnderWay DEF ReadLinks, Start
<1>2. CASE Linked(e)
  BY <1>1, <1>2, EndingFits DEF ReadLinks
<1>3. CASE ~Linked(e)
  <2>1. command \in LinkCommand /\ command \in Commands /\ "connectLink" \in Steps
    BY DEF LinkCommand, Commands, Steps
  <2>2. Moves(c, "connectLink", command, None, seen[c])
    BY <1>1, <1>3, IdleCall DEF ReadLinks, Command, GoTo, Moves, CallsTyped
  <2>3. /\ TablesTyped' /\ References' /\ TablesGrow(c) /\ CallsTyped' /\ LeavesOthers(c)
        /\ pc'[c] = "connectLink" /\ cmd'[c] = command /\ mem'[c] = None
        /\ command # None /\ token'[c] = None
    BY <1>1, <2>1, <2>2, IdleCall, BeginningMoves
  <2>4. CallFits(c)'
    BY <1>1, <2>1, <2>3 DEF CallFits, CommandFits, MemoryFits, TablesFit, CopyIsSound, tables
  <2> QED BY <2>3, <2>4 DEF FittingStep
<1> QED BY <1>2, <1>3

LEMMA ConnectLinkFits ==
  ASSUME IdentityInv, NEW c \in Calls, ConnectLink(c)
  PROVE  FittingStep(c)
<1>1. /\ CallsTyped /\ cmd[c].google \in Googles /\ cmd[c].user \in People /\ user[cmd[c].user] # None
  BY CallUnderWay DEF ConnectLink, CallFits, CommandFits, TablesFit, Running, NewAddressSteps
<1>2. CASE MayLink(cmd[c].google, cmd[c].user)
  BY <1>1, <1>2, LinkingFits, EndFits DEF ConnectLink, FittingStep
<1>3. CASE ~MayLink(cmd[c].google, cmd[c].user)
  BY <1>3, EndingFits DEF ConnectLink, tables
<1> QED BY <1>2, <1>3

LEMMA ReadMethodsFits ==
  ASSUME IdentityInv, NEW c \in Calls, NEW e \in People, ReadMethods(c, e)
  PROVE  FittingStep(c)
<1> DEFINE command == [op |-> "disconnect", user |-> e, google |-> None]
<1>1. pc[c] = "idle" /\ UNCHANGED tables /\ user[e] # None /\ CallsTyped
  BY SignedInExists, CallUnderWay DEF ReadMethods, Start
<1>2. CASE ~HasPassword(e)
  BY <1>1, <1>2, EndingFits DEF ReadMethods
<1>3. CASE HasPassword(e)
  <2>1. command \in LinkCommand /\ command \in Commands /\ "unlink" \in Steps
    BY DEF LinkCommand, Commands, Steps
  <2>2. Moves(c, "unlink", command, None, seen[c])
    BY <1>1, <1>3, IdleCall DEF ReadMethods, Command, GoTo, Moves, CallsTyped
  <2>3. /\ TablesTyped' /\ References' /\ TablesGrow(c) /\ CallsTyped' /\ LeavesOthers(c)
        /\ pc'[c] = "unlink" /\ cmd'[c] = command /\ mem'[c] = None
        /\ command # None /\ token'[c] = None
    BY <1>1, <2>1, <2>2, IdleCall, BeginningMoves
  <2>4. CallFits(c)'
    BY <1>1, <1>3, <2>1, <2>3
       DEF CallFits, CommandFits, MemoryFits, TablesFit, CopyIsSound, tables, HasPassword
  <2> QED BY <2>3, <2>4 DEF FittingStep
<1> QED BY <1>2, <1>3

LEMMA UnlinkFits ==
  ASSUME IdentityInv, NEW c \in Calls, Unlink(c)
  PROVE  FittingStep(c)
<1>1. TablesTyped /\ CallsTyped /\ References
  BY CallUnderWay
<1>2. \A d \in People : user[d] # None => user[d].version \in Nat
  BY <1>1 DEF TablesTyped, UserRow
<1>3. UNCHANGED <<user, session, token, redeemed>>
      /\ link' = [g \in Googles |-> IF link[g] = cmd[c].user THEN None ELSE link[g]]
  BY DEF Unlink
<1>4. TablesTyped' /\ References' /\ TablesGrow(c)
  BY <1>1, <1>2, <1>3 DEF TablesTyped, References, TablesGrow
<1>5. \E how \in Ended : End(c, how)
  BY DEF Unlink
<1> QED BY <1>1, <1>4, <1>5, EndFits DEF FittingStep

----------------------------------------------------------------------------
(* Sessions *)

\* Sessions that are written are still those of the same people.
LEMMA SessionsFit ==
  ASSUME IdentityInv, NEW c \in Calls, UNCHANGED <<user, token, link, redeemed>>,
         session' \in [SessionIds -> SessionRow \cup {None}],
         \A s \in SessionIds : session'[s] = None <=> session[s] = None,
         \A s \in SessionIds : session[s] # None => session'[s].user = session[s].user
  PROVE  TablesTyped' /\ References' /\ TablesGrow(c)
<1>1. TablesTyped /\ References
  BY CallUnderWay
<1>2. \A d \in People : user[d] # None => user[d].version \in Nat
  BY <1>1 DEF TablesTyped, UserRow
<1> QED BY <1>1, <1>2 DEF TablesTyped, References, TablesGrow

\* A session that is saved is the one that was read, but for what it sets.
LEMMA SaveSessionFits ==
  ASSUME IdentityInv, NEW c \in Calls, pc[c] \in {"slide", "revokeOne"},
         SaveSession(cmd[c].session, seen[c]), End(c, "ok"), UNCHANGED <<user, token, link, redeemed>>
  PROVE  FittingStep(c)
<1> DEFINE s == cmd[c].session
<1>1. /\ TablesTyped /\ CallsTyped /\ s \in SessionIds /\ session[s] # None /\ seen[c] \in SessionRow
  BY CallUnderWay DEF CallFits, CommandFits, MemoryFits, TablesFit, SessionCommand
<1>2. session[s] \in SessionRow /\ seen[c].revoked \in BOOLEAN
  BY <1>1 DEF TablesTyped, SessionRow
<1>3. [session[s] EXCEPT !.revoked = seen[c].revoked] \in SessionRow
      /\ [session[s] EXCEPT !.revoked = seen[c].revoked].user = session[s].user
  BY <1>2 DEF SessionRow
<1>4. session' = [session EXCEPT ![s] = [session[s] EXCEPT !.revoked = seen[c].revoked]]
  BY DEF SaveSession
<1>5. /\ session' \in [SessionIds -> SessionRow \cup {None}]
      /\ \A r \in SessionIds : session'[r] = None <=> session[r] = None
      /\ \A r \in SessionIds : session[r] # None => session'[r].user = session[r].user
  BY <1>1, <1>3, <1>4, NoneIsNoRecord DEF TablesTyped
<1> QED BY <1>1, <1>5, SessionsFit, EndFits DEF FittingStep

\* Revoking a user's sessions keeps each of them a session.
LEMMA RevokingFits ==
  ASSUME IdentityInv, NEW c \in Calls, NEW e, RevokeAllForUser(e), UNCHANGED <<user, token, link, redeemed>>
  PROVE  TablesTyped' /\ References' /\ TablesGrow(c)
<1>1. TablesTyped
  BY CallUnderWay
<1>2. ASSUME NEW s \in SessionIds
      PROVE  /\ session'[s] \in SessionRow \cup {None} /\ (session'[s] = None <=> session[s] = None)
             /\ session[s] # None => session'[s].user = session[s].user
  <2>1. CASE s \in SessionsOf(e)
    <3>1. session[s] \in SessionRow /\ session'[s] = [session[s] EXCEPT !.revoked = TRUE]
      BY <1>1, <2>1 DEF TablesTyped, SessionsOf, RevokeAllForUser, Revoke
    <3>2. session'[s] \in SessionRow /\ session'[s].user = session[s].user
      BY <3>1 DEF SessionRow
    <3> QED BY <3>1, <3>2, NoneIsNoRecord
  <2>2. CASE s \notin SessionsOf(e)
    BY <1>1, <2>2 DEF TablesTyped, RevokeAllForUser, Revoke
  <2> QED BY <2>1, <2>2
<1>3. session' \in [SessionIds -> SessionRow \cup {None}]
  BY <1>2 DEF RevokeAllForUser, Revoke
<1> QED BY <1>2, <1>3, SessionsFit

LEMMA ReadSessionFits ==
  ASSUME IdentityInv, NEW c \in Calls, NEW s \in SessionIds, ReadSession(c, s)
  PROVE  FittingStep(c)
<1> DEFINE command == [op |-> "resolve", user |-> session[s].user, session |-> s]
<1>1. /\ TablesTyped /\ CallsTyped /\ References /\ pc[c] = "idle" /\ UNCHANGED tables
      /\ session[s] # None
  BY CallUnderWay DEF ReadSession, Start
<1>2. session[s] \in SessionRow /\ session[s].user \in People /\ user[session[s].user] # None
  BY <1>1 DEF TablesTyped, References, SessionRow
<1>3. CASE End(c, "refused")
  BY <1>1, <1>3, EndingFits
<1>4. CASE ~End(c, "refused")
  <2>1. command \in SessionCommand /\ "readOwner" \in Steps
    BY <1>2 DEF SessionCommand, Steps
  <2>2. command \in Commands
    BY <2>1 DEF Commands
  <2>3. Moves(c, "readOwner", command, None, session[s])
    BY <1>1, <1>4, IdleCall DEF ReadSession, Command, GoTo, Moves, CallsTyped
  <2>4. /\ TablesTyped' /\ References' /\ TablesGrow(c) /\ CallsTyped' /\ LeavesOthers(c)
        /\ pc'[c] = "readOwner" /\ cmd'[c] = command /\ mem'[c] = None /\ seen'[c] = session[s]
        /\ command # None /\ token'[c] = None
    BY <1>1, <1>2, <2>1, <2>2, <2>3, BeginningMoves
  <2>5. CallFits(c)'
    BY <1>1, <1>2, <2>1, <2>4 DEF CallFits, CommandFits, MemoryFits, TablesFit, CopyIsSound, tables
  <2> QED BY <2>4, <2>5 DEF FittingStep
<1> QED BY <1>3, <1>4

LEMMA ReadOwnerFits ==
  ASSUME IdentityInv, NEW c \in Calls, ReadOwner(c)
  PROVE  FittingStep(c)
<1>1. TablesTyped /\ CallsTyped /\ CallFits(c) /\ pc[c] = "readOwner" /\ UNCHANGED tables
  BY CallUnderWay DEF ReadOwner
<1>2. CASE \E how \in {"refused", "ok"} : End(c, how)
  BY <1>1, <1>2, EndingFits
<1>3. CASE ~ \E how \in {"refused", "ok"} : End(c, how)
  <2>1. TablesTyped' /\ References' /\ TablesGrow(c)
    BY <1>1, TablesAlone
  <2>2. /\ CallsTyped' /\ LeavesOthers(c)
        /\ pc'[c] = "slide" /\ cmd'[c] = cmd[c] /\ mem'[c] = mem[c] /\ seen'[c] = seen[c]
    BY <1>1, <1>3, GoesOnAsItIs DEF ReadOwner, Steps
  <2>3. CallFits(c)'
    BY <1>1, <2>2 DEF CallFits, CommandFits, MemoryFits, TablesFit, CopyIsSound, Running,
       NewAddressSteps, tables
  <2> QED BY <2>1, <2>2, <2>3 DEF FittingStep
<1> QED BY <1>2, <1>3

LEMMA ReadToSignOutFits ==
  ASSUME IdentityInv, NEW c \in Calls, NEW s \in SessionIds, ReadToSignOut(c, s)
  PROVE  FittingStep(c)
<1> DEFINE command == [op |-> "signOut", user |-> session[s].user, session |-> s]
           copy == [session[s] EXCEPT !.revoked = TRUE]
<1>1. /\ TablesTyped /\ CallsTyped /\ References /\ pc[c] = "idle" /\ UNCHANGED tables
      /\ session[s] # None
  BY CallUnderWay DEF ReadToSignOut, Start
<1>2. session[s] \in SessionRow /\ session[s].user \in People /\ user[session[s].user] # None
  BY <1>1 DEF TablesTyped, References, SessionRow
<1>3. copy \in SessionRow
  BY <1>2 DEF SessionRow
<1>4. command \in SessionCommand /\ "revokeOne" \in Steps
  BY <1>2 DEF SessionCommand, Steps
<1>5. command \in Commands
  BY <1>4 DEF Commands
<1>6. Moves(c, "revokeOne", command, None, copy)
  BY <1>1, IdleCall DEF ReadToSignOut, Command, GoTo, Moves, CallsTyped
<1> HIDE DEF copy
<1>7. /\ TablesTyped' /\ References' /\ TablesGrow(c) /\ CallsTyped' /\ LeavesOthers(c)
      /\ pc'[c] = "revokeOne" /\ cmd'[c] = command /\ mem'[c] = None /\ seen'[c] = copy
      /\ command # None /\ token'[c] = None
  BY <1>1, <1>3, <1>4, <1>5, <1>6, BeginningMoves
<1>8. CallFits(c)'
  BY <1>1, <1>2, <1>3, <1>4, <1>7 DEF CallFits, CommandFits, MemoryFits, TablesFit, CopyIsSound, tables
<1> QED BY <1>7, <1>8 DEF FittingStep

\* The calls that write sessions.
LEMMA SessionWritesFit ==
  ASSUME IdentityInv, NEW c \in Calls,
         Slide(c) \/ RevokeOne(c) \/ RevokeAll(c) \/ \E e \in People : RevokeAllSessions(c, e)
  PROVE  FittingStep(c)
<1>1. CASE Slide(c)
  BY <1>1, SaveSessionFits DEF Slide
<1>2. CASE RevokeOne(c)
  BY <1>2, SaveSessionFits DEF RevokeOne
<1>3. CASE RevokeAll(c)
  BY <1>3, CallUnderWay, RevokingFits, EndFits DEF RevokeAll, FittingStep
<1>4. ASSUME NEW e \in People, RevokeAllSessions(c, e) PROVE FittingStep(c)
  BY <1>4, CallUnderWay, RevokingFits, EndFits DEF RevokeAllSessions, FittingStep
<1> QED BY <1>1, <1>2, <1>3, <1>4

----------------------------------------------------------------------------
(* Links in mail *)

LEMMA AskForLinkFits ==
  ASSUME IdentityInv, NEW c \in Calls, NEW e \in People, NEW p \in Purposes, AskForLink(c, e, p)
  PROVE  FittingStep(c)
<1> DEFINE command == [op |-> "ask", user |-> e, purpose |-> p]
<1>1. pc[c] = "idle" /\ UNCHANGED tables /\ CallsTyped
  BY CallUnderWay DEF AskForLink, Start
<1>2. CASE ~Sendable(e, p)
  BY <1>1, <1>2, EndingFits DEF AskForLink
<1>3. CASE Sendable(e, p)
  <2>1. command \in AskCommand /\ command \in Commands /\ "supersede" \in Steps /\ user[e] # None
    BY <1>3 DEF AskCommand, Commands, Steps, Sendable
  <2>2. Moves(c, "supersede", command, None, seen[c])
    BY <1>1, <1>3, IdleCall DEF AskForLink, Command, GoTo, Moves, CallsTyped
  <2>3. /\ TablesTyped' /\ References' /\ TablesGrow(c) /\ CallsTyped' /\ LeavesOthers(c)
        /\ pc'[c] = "supersede" /\ cmd'[c] = command /\ mem'[c] = None
        /\ command # None /\ token'[c] = None
    BY <1>1, <2>1, <2>2, IdleCall, BeginningMoves
  <2>4. CallFits(c)'
    BY <1>1, <2>1, <2>3 DEF CallFits, CommandFits, MemoryFits, TablesFit, CopyIsSound, tables
  <2> QED BY <2>3, <2>4 DEF FittingStep
<1> QED BY <1>2, <1>3

LEMMA ReadTokenFits ==
  ASSUME IdentityInv, NEW c \in Calls, NEW t \in Calls, NEW p \in Purposes, ReadToken(c, t, p)
  PROVE  FittingStep(c)
<1> DEFINE command == [op |-> "redeem", user |-> token[t].user, token |-> t, purpose |-> p]
<1>1. /\ TablesTyped /\ CallsTyped /\ References /\ pc[c] = "idle" /\ UNCHANGED tables
      /\ token[t] # None
  BY CallUnderWay DEF ReadToken, Start
<1>2. token[t] \in TokenRow /\ token[t].user \in People /\ user[token[t].user] # None
  BY <1>1 DEF TablesTyped, References, TokenRow
<1>3. CASE End(c, "refused")
  BY <1>1, <1>3, EndingFits
<1>4. CASE ~End(c, "refused")
  <2>1. command \in RedeemCommand /\ "readHolder" \in Steps
    BY <1>2 DEF RedeemCommand, Steps
  <2>2. command \in Commands
    BY <2>1 DEF Commands
  <2>3. Moves(c, "readHolder", command, None, token[t])
    BY <1>1, <1>4, IdleCall DEF ReadToken, Command, GoTo, Moves, CallsTyped
  <2>4. /\ TablesTyped' /\ References' /\ TablesGrow(c) /\ CallsTyped' /\ LeavesOthers(c)
        /\ pc'[c] = "readHolder" /\ cmd'[c] = command /\ mem'[c] = None /\ seen'[c] = token[t]
        /\ command # None /\ token'[c] = None
    BY <1>1, <1>2, <2>1, <2>2, <2>3, BeginningMoves
  <2>5. CallFits(c)'
    BY <1>1, <1>2, <2>1, <2>4 DEF CallFits, CommandFits, MemoryFits, TablesFit, CopyIsSound, tables
  <2> QED BY <2>4, <2>5 DEF FittingStep
<1> QED BY <1>3, <1>4

LEMMA ReadHolderFits ==
  ASSUME IdentityInv, NEW c \in Calls, ReadHolder(c)
  PROVE  FittingStep(c)
<1>1. /\ TablesTyped /\ CallsTyped /\ CallFits(c) /\ pc[c] = "readHolder" /\ UNCHANGED tables
      /\ cmd[c] \in RedeemCommand /\ cmd[c] \in Commands /\ cmd[c].user \in People
      /\ user[cmd[c].user] # None /\ token[cmd[c].token] # None /\ token[c] = None
  BY CallUnderWay DEF ReadHolder, CallFits, CommandFits, TablesFit, Running, NewAddressSteps
<1>2. user[cmd[c].user] \in UserRow /\ user[cmd[c].user].version \in Nat /\ "spend" \in Steps
      /\ seen[c] \in SessionRow \cup TokenRow \cup {None}
  BY <1>1 DEF TablesTyped, CallsTyped, UserRow, Steps
<1>3. Moves(c, "spend", cmd[c], user[cmd[c].user], seen[c])
  BY <1>1 DEF ReadHolder, ReadUser, GoTo, Moves, CallsTyped
<1>4. /\ CallsTyped' /\ LeavesOthers(c) /\ cmd[c] # None
      /\ pc'[c] = "spend" /\ cmd'[c] = cmd[c] /\ mem'[c] = user[cmd[c].user]
  BY <1>1, <1>2, <1>3, MovesTyped
<1>5. TablesTyped' /\ References' /\ TablesGrow(c)
  BY <1>1, TablesAlone
<1>6. CallFits(c)'
  BY <1>1, <1>2, <1>4 DEF CallFits, CommandFits, MemoryFits, TablesFit, CopyIsSound, tables
<1> QED BY <1>4, <1>5, <1>6 DEF FittingStep

LEMMA SpendFits ==
  ASSUME IdentityInv, NEW c \in Calls, Spend(c)
  PROVE  FittingStep(c)
<1> DEFINE t == cmd[c].token
           row == [token[t] EXCEPT !.spent = TRUE]
<1>1. /\ TablesTyped /\ CallsTyped /\ References /\ CallFits(c) /\ pc[c] = "spend"
      /\ cmd[c] \in RedeemCommand /\ t \in Calls /\ token[t] # None /\ token[c] = None
      /\ user[cmd[c].user] # None
  BY CallUnderWay DEF Spend, CallFits, CommandFits, TablesFit, Running, NewAddressSteps, RedeemCommand
<1>2. token[t] \in TokenRow
  BY <1>1 DEF TablesTyped
<1>3. row \in TokenRow /\ row.user = token[t].user /\ row.spent
  BY <1>2 DEF TokenRow
<1>4. token' = [token EXCEPT ![t] = row] /\ UNCHANGED <<user, session, link, redeemed>>
  BY DEF Spend
<1> HIDE DEF row
<1>5. /\ token' \in [Calls -> TokenRow \cup {None}] /\ token'[t] = row
      /\ \A u \in Calls : u # t => token'[u] = token[u]
  BY <1>1, <1>3, <1>4 DEF TablesTyped
<1>6. row # None
  BY <1>3, NoneIsNoRecord
<1>7. TablesTyped' /\ References'
  BY <1>1, <1>3, <1>4, <1>5, <1>6 DEF TablesTyped, References
<1>8. \A d \in People : user[d] # None => user[d].version \in Nat
  BY <1>1 DEF TablesTyped, UserRow
<1>9. TablesGrow(c)
  BY <1>1, <1>3, <1>4, <1>5, <1>6, <1>8 DEF TablesGrow
<1>10. CASE End(c, "ok")
  BY <1>1, <1>7, <1>9, <1>10, EndFits DEF FittingStep
<1>11. CASE ~End(c, "ok")
  <2>1. /\ CallsTyped' /\ LeavesOthers(c)
        /\ pc'[c] = "saveHolder" /\ cmd'[c] = cmd[c] /\ mem'[c] = mem[c] /\ seen'[c] = seen[c]
    BY <1>1, <1>11, GoesOnAsItIs DEF Spend, Steps
  <2>2. CommandFits(c)' /\ MemoryFits(c)' /\ CopyIsSound(c)'
    BY <1>1, <1>4, <2>1 DEF CommandFits, MemoryFits, CopyIsSound, CallFits
  <2>3. token'[c] = None
    BY <1>1, <1>5
  <2>4. TablesFit(c)'
    BY <1>1, <1>3, <1>4, <1>5, <1>6, <2>1, <2>3 DEF TablesFit
  <2> QED BY <1>7, <1>9, <2>1, <2>2, <2>4 DEF FittingStep, CallFits
<1> QED BY <1>10, <1>11

LEMMA SaveHolderFits ==
  ASSUME IdentityInv, NEW c \in Calls, SaveHolder(c)
  PROVE  FittingStep(c)
<1> DEFINE t == cmd[c].token
<1>1. /\ TablesTyped /\ CallsTyped /\ References /\ CallFits(c)
      /\ pc[c] = "saveHolder" /\ Running(c) /\ cmd[c] \in RedeemCommand /\ cmd[c].user \in People
      /\ mem[c] \in UserRow /\ mem[c] # None /\ c \in Passwords
      /\ t \in Calls /\ token[t] # None /\ token[t].spent /\ token[c] = None
  BY CallUnderWay DEF SaveHolder, CallFits, CommandFits, MemoryFits, TablesFit, Running, Passwords,
     RedeemCommand
<1>2. CASE LoseRace(c)
  BY <1>2, EndingFits DEF LoseRace
<1>3. CASE ~LoseRace(c) /\ cmd[c].purpose = "password-reset"
  <2>1. /\ CanSaveUser(c) /\ SaveUser(c, Recovered(mem[c], c)) /\ UNCHANGED <<session, token, link>>
        /\ redeemed' = [redeemed EXCEPT ![t] = @ \cup {c}]
        /\ GoTo(c, "revokeAll") /\ UNCHANGED <<cmd, mem, seen>>
    BY <1>3 DEF SaveHolder
  <2>2. Decision(mem[c], Recovered(mem[c], c))
    BY <1>1, RulesDecide
  <2>3. redeemed' \in [Calls -> SUBSET Calls]
        /\ \A u \in Calls : redeemed'[u] # {} => token[u] # None /\ token[u].spent
    BY <1>1, <2>1 DEF TablesTyped, References
  <2>4. /\ TablesTyped' /\ References' /\ TablesGrow(c) /\ user'[cmd[c].user] # None
        /\ (cmd'[c] = cmd[c] /\ mem'[c] = mem[c] => CopyIsSound(c)')
    BY <1>1, <2>1, <2>2, <2>3, SavingFits
  <2>5. /\ CallsTyped' /\ LeavesOthers(c)
        /\ pc'[c] = "revokeAll" /\ cmd'[c] = cmd[c] /\ mem'[c] = mem[c] /\ seen'[c] = seen[c]
    BY <1>1, <2>1, GoesOnAsItIs DEF Steps
  <2>6. CommandFits(c)' /\ MemoryFits(c)' /\ TablesFit(c)'
    BY <1>1, <2>1, <2>4, <2>5 DEF CommandFits, MemoryFits, TablesFit, CallFits, Running
  <2> QED BY <2>4, <2>5, <2>6 DEF FittingStep, CallFits
<1>4. CASE ~LoseRace(c) /\ cmd[c].purpose # "password-reset"
  <2>1. /\ CanSaveUser(c) /\ SaveUser(c, VerifyEmail(mem[c]))
        /\ UNCHANGED <<session, token, link, redeemed>> /\ End(c, "ok")
    BY <1>4 DEF SaveHolder
  <2>2. Decision(mem[c], VerifyEmail(mem[c]))
    BY <1>1, RulesDecide
  <2>3. TablesTyped' /\ References' /\ TablesGrow(c)
    BY <1>1, <2>1, <2>2, SavingFits DEF References, TablesTyped
  <2> QED BY <1>1, <2>1, <2>3, EndFits DEF FittingStep
<1> QED BY <1>2, <1>3, <1>4

----------------------------------------------------------------------------
(* A password is changed *)

LEMMA ReadToChangeFits ==
  ASSUME IdentityInv, NEW c \in Calls, NEW e \in People, NEW s \in SessionIds, ReadToChange(c, e, s)
  PROVE  FittingStep(c)
<1> DEFINE command == [op |-> "change", user |-> e, keep |-> s]
<1>1. /\ TablesTyped /\ CallsTyped /\ pc[c] = "idle" /\ UNCHANGED tables
      /\ user[e] # None /\ session[s] # None
  BY CallUnderWay DEF ReadToChange, Start
<1>2. user[e] \in UserRow /\ user[e].version \in Nat
  BY <1>1 DEF TablesTyped, UserRow
<1>3. CASE user[e].status = "disabled"
  BY <1>1, <1>3, EndingFits DEF ReadToChange
<1>4. CASE user[e].status # "disabled"
  <2>1. command \in ChangeCommand /\ command \in Commands /\ "readKept" \in Steps
    BY DEF ChangeCommand, Commands, Steps
  <2>2. Moves(c, "readKept", command, user[e], seen[c])
    BY <1>1, <1>4 DEF ReadToChange, ReadUser, Command, GoTo, Moves, CallsTyped
  <2>3. /\ TablesTyped' /\ References' /\ TablesGrow(c) /\ CallsTyped' /\ LeavesOthers(c)
        /\ pc'[c] = "readKept" /\ cmd'[c] = command /\ mem'[c] = user[e]
        /\ command # None /\ token'[c] = None
    BY <1>1, <1>2, <2>1, <2>2, IdleCall, BeginningMoves
  <2>4. CallFits(c)'
    BY <1>1, <1>2, <1>4, <2>1, <2>3
       DEF CallFits, CommandFits, MemoryFits, TablesFit, CopyIsSound, tables
  <2> QED BY <2>3, <2>4 DEF FittingStep
<1> QED BY <1>3, <1>4

LEMMA ReadKeptFits ==
  ASSUME IdentityInv, NEW c \in Calls, ReadKept(c)
  PROVE  FittingStep(c)
<1>1. CallsTyped /\ CallFits(c) /\ pc[c] = "readKept" /\ UNCHANGED tables
  BY CallUnderWay DEF ReadKept
<1>2. CASE End(c, "refused")
  BY <1>1, <1>2, EndingFits
<1>3. CASE ~End(c, "refused")
  <2>1. TablesTyped' /\ References' /\ TablesGrow(c)
    BY <1>1, TablesAlone
  <2>2. /\ CallsTyped' /\ LeavesOthers(c)
        /\ pc'[c] = "saveChange" /\ cmd'[c] = cmd[c] /\ mem'[c] = mem[c] /\ seen'[c] = seen[c]
    BY <1>1, <1>3, GoesOnAsItIs DEF ReadKept, Steps
  <2>3. CallFits(c)'
    BY <1>1, <2>2 DEF CallFits, CommandFits, MemoryFits, TablesFit, CopyIsSound, Running,
       NewAddressSteps, tables
  <2> QED BY <2>1, <2>2, <2>3 DEF FittingStep
<1> QED BY <1>2, <1>3

LEMMA SaveChangeFits ==
  ASSUME IdentityInv, NEW c \in Calls, SaveChange(c)
  PROVE  FittingStep(c)
<1>1. /\ TablesTyped /\ CallsTyped /\ References /\ CallFits(c)
      /\ pc[c] = "saveChange" /\ Running(c) /\ cmd[c] \in ChangeCommand
      /\ mem[c] \in UserRow /\ mem[c] # None /\ c \in Passwords /\ "revokeOthers" \in Steps
  BY CallUnderWay DEF SaveChange, CallFits, CommandFits, MemoryFits, Running, Passwords, Steps
<1>2. CASE LoseRace(c)
  BY <1>2, EndingFits DEF LoseRace
<1>3. CASE ~LoseRace(c)
  <2>1. /\ CanSaveUser(c) /\ SaveUser(c, ReplacePassword(mem[c], c))
        /\ UNCHANGED <<session, token, link, redeemed>>
    BY <1>3 DEF SaveChange
  <2>2. Decision(mem[c], ReplacePassword(mem[c], c))
    BY <1>1, RulesDecide
  <2>3. /\ TablesTyped' /\ References' /\ TablesGrow(c) /\ user'[cmd[c].user] # None
        /\ (cmd'[c] = cmd[c] /\ mem'[c] = mem[c] => CopyIsSound(c)')
    BY <1>1, <2>1, <2>2, SavingFits DEF References, TablesTyped
  <2>4. /\ CallsTyped' /\ LeavesOthers(c)
        /\ pc'[c] = "revokeOthers" /\ cmd'[c] = cmd[c] /\ mem'[c] = mem[c] /\ seen'[c] = seen[c]
    BY <1>1, <1>3, GoesOnAsItIs DEF SaveChange
  <2>5. CommandFits(c)' /\ MemoryFits(c)' /\ TablesFit(c)'
    BY <1>1, <2>1, <2>3, <2>4 DEF CommandFits, MemoryFits, TablesFit, CallFits, Running
  <2> QED BY <2>3, <2>4, <2>5 DEF FittingStep, CallFits
<1> QED BY <1>2, <1>3

LEMMA RevokeOthersFits ==
  ASSUME IdentityInv, NEW c \in Calls, RevokeOthers(c)
  PROVE  FittingStep(c)
<1> DEFINE keep == cmd[c].keep
           e == cmd[c].user
<1>1. /\ TablesTyped /\ CallsTyped /\ keep \in SessionIds /\ session[keep] # None /\ c \in Passwords
  BY CallUnderWay DEF RevokeOthers, CallFits, CommandFits, TablesFit, ChangeCommand, Passwords
<1>2. RevokeOthersForUser(e, keep, c) /\ End(c, "ok") /\ UNCHANGED <<user, token, link, redeemed>>
  BY DEF RevokeOthers
<1>3. ASSUME NEW s \in SessionIds
      PROVE  /\ session'[s] \in SessionRow \cup {None} /\ (session'[s] = None <=> session[s] = None)
             /\ session[s] # None => session'[s].user = session[s].user
  <2>1. CASE s = keep
    <3>1. session[s] \in SessionRow /\ session'[s] = [session[s] EXCEPT !.password = c]
      BY <1>1, <1>2, <2>1 DEF TablesTyped, RevokeOthersForUser
    <3>2. session'[s] \in SessionRow /\ session'[s].user = session[s].user
      BY <1>1, <3>1 DEF SessionRow
    <3> QED BY <3>1, <3>2, NoneIsNoRecord
  <2>2. CASE s # keep /\ s \in SessionsOf(e)
    <3>1. session[s] \in SessionRow /\ session'[s] = [session[s] EXCEPT !.revoked = TRUE]
      BY <1>1, <1>2, <2>2 DEF TablesTyped, SessionsOf, RevokeOthersForUser
    <3>2. session'[s] \in SessionRow /\ session'[s].user = session[s].user
      BY <3>1 DEF SessionRow
    <3> QED BY <3>1, <3>2, NoneIsNoRecord
  <2>3. CASE s # keep /\ s \notin SessionsOf(e)
    BY <1>1, <1>2, <2>3 DEF TablesTyped, RevokeOthersForUser
  <2> QED BY <2>1, <2>2, <2>3
<1>4. session' \in [SessionIds -> SessionRow \cup {None}]
  BY <1>2, <1>3 DEF RevokeOthersForUser
<1> QED BY <1>1, <1>2, <1>3, <1>4, SessionsFit, EndFits DEF FittingStep

----------------------------------------------------------------------------
(* An operator is suspended or reinstated *)

LEMMA ReadTargetFits ==
  ASSUME IdentityInv, NEW c \in Calls, NEW a \in Admins, NEW e \in People,
         NEW action \in {"suspend", "reinstate"}, ReadTarget(c, a, e, action)
  PROVE  FittingStep(c)
<1> DEFINE command == [op |-> "setStatus", user |-> e, actor |-> a, action |-> action]
           next == IF action = "suspend" THEN "countAdmins" ELSE "saveStatus"
<1>1. TablesTyped /\ CallsTyped /\ pc[c] = "idle" /\ UNCHANGED tables
  BY CallUnderWay DEF ReadTarget, Start
<1>2. CASE ~IsOperator(e)
  BY <1>1, <1>2, EndingFits DEF ReadTarget
<1>3. CASE IsOperator(e)
  <2>1. user[e] \in UserRow /\ user[e].version \in Nat /\ user[e] # None /\ user[e].admin
    BY <1>1, <1>3 DEF TablesTyped, UserRow, IsOperator
  <2>2. command \in StatusCommand /\ command \in Commands /\ next \in Steps /\ next \in TeamSteps
    BY DEF StatusCommand, Commands, Steps
  <2>3. Moves(c, next, command, user[e], seen[c])
    BY <1>1, <1>3 DEF ReadTarget, ReadUser, Command, GoTo, Moves, CallsTyped
  <2>4. command.user = e
    OBVIOUS
  <2> HIDE DEF command, next
  <2>5. /\ TablesTyped' /\ References' /\ TablesGrow(c) /\ CallsTyped' /\ LeavesOthers(c)
        /\ pc'[c] = next /\ cmd'[c] = command /\ mem'[c] = user[e]
        /\ command # None /\ token'[c] = None
    BY <1>1, <2>1, <2>2, <2>3, IdleCall, BeginningMoves
  <2>6. CallFits(c)'
    BY <1>1, <2>1, <2>2, <2>4, <2>5
       DEF CallFits, CommandFits, MemoryFits, TablesFit, CopyIsSound, tables
  <2> QED BY <2>5, <2>6 DEF FittingStep
<1> QED BY <1>2, <1>3

LEMMA CountAdminsFits ==
  ASSUME IdentityInv, NEW c \in Calls, CountAdmins(c)
  PROVE  FittingStep(c)
<1>1. CallsTyped /\ CallFits(c) /\ pc[c] = "countAdmins" /\ UNCHANGED tables
  BY CallUnderWay DEF CountAdmins
<1>2. CASE End(c, "refused")
  BY <1>1, <1>2, EndingFits
<1>3. CASE ~End(c, "refused")
  <2>1. TablesTyped' /\ References' /\ TablesGrow(c)
    BY <1>1, TablesAlone
  <2>2. /\ CallsTyped' /\ LeavesOthers(c)
        /\ pc'[c] = "saveStatus" /\ cmd'[c] = cmd[c] /\ mem'[c] = mem[c] /\ seen'[c] = seen[c]
    BY <1>1, <1>3, GoesOnAsItIs DEF CountAdmins, Steps
  <2>3. CallFits(c)'
    BY <1>1, <2>2 DEF CallFits, CommandFits, MemoryFits, TablesFit, CopyIsSound, Running,
       NewAddressSteps, tables
  <2> QED BY <2>1, <2>2, <2>3 DEF FittingStep
<1> QED BY <1>2, <1>3

LEMMA SaveStatusFits ==
  ASSUME IdentityInv, NEW c \in Calls, SaveStatus(c)
  PROVE  FittingStep(c)
<1>1. /\ TablesTyped /\ CallsTyped /\ References /\ CallFits(c)
      /\ pc[c] = "saveStatus" /\ Running(c) /\ cmd[c] \in StatusCommand
      /\ mem[c] \in UserRow /\ mem[c] # None /\ Passwords # {} /\ "revokeAll" \in Steps
  BY CallUnderWay DEF SaveStatus, CallFits, CommandFits, MemoryFits, Running, Passwords, Steps
<1>2. CASE LoseRace(c)
  BY <1>2, EndingFits DEF LoseRace
<1>3. CASE ~LoseRace(c) /\ cmd[c].action = "suspend"
  <2>1. /\ CanSaveUser(c) /\ SaveUser(c, Suspend(mem[c]))
        /\ UNCHANGED <<session, token, link, redeemed>>
        /\ GoTo(c, "revokeAll") /\ UNCHANGED <<cmd, mem, seen>>
    BY <1>3 DEF SaveStatus
  <2>2. Decision(mem[c], Suspend(mem[c]))
    BY <1>1, RulesDecide
  <2>3. /\ TablesTyped' /\ References' /\ TablesGrow(c) /\ user'[cmd[c].user] # None
        /\ (cmd'[c] = cmd[c] /\ mem'[c] = mem[c] => CopyIsSound(c)')
    BY <1>1, <2>1, <2>2, SavingFits DEF References, TablesTyped
  <2>4. /\ CallsTyped' /\ LeavesOthers(c)
        /\ pc'[c] = "revokeAll" /\ cmd'[c] = cmd[c] /\ mem'[c] = mem[c] /\ seen'[c] = seen[c]
    BY <1>1, <2>1, GoesOnAsItIs
  <2>5. CommandFits(c)' /\ MemoryFits(c)' /\ TablesFit(c)'
    BY <1>1, <2>1, <2>3, <2>4 DEF CommandFits, MemoryFits, TablesFit, CallFits, Running
  <2> QED BY <2>3, <2>4, <2>5 DEF FittingStep, CallFits
<1>4. CASE ~LoseRace(c) /\ cmd[c].action # "suspend"
  <2>1. /\ CanSaveUser(c) /\ SaveUser(c, Reinstate(mem[c]))
        /\ UNCHANGED <<session, token, link, redeemed>> /\ End(c, "ok")
    BY <1>4 DEF SaveStatus
  <2>2. Decision(mem[c], Reinstate(mem[c]))
    BY <1>1, RulesDecide
  <2>3. TablesTyped' /\ References' /\ TablesGrow(c)
    BY <1>1, <2>1, <2>2, SavingFits DEF References, TablesTyped
  <2> QED BY <1>1, <2>1, <2>3, EndFits DEF FittingStep
<1> QED BY <1>2, <1>3, <1>4

LEMMA CrashCallFits ==
  ASSUME IdentityInv, NEW c \in Calls, CrashCall(c)
  PROVE  FittingStep(c)
BY EndingFits DEF CrashCall

----------------------------------------------------------------------------
(* Every step *)

\* Signing in, registering, Google and links: every handler keeps the types.
LEMMA WayInFits ==
  ASSUME IdentityInv, NEW c \in Calls, WayIn(c)
  PROVE  FittingStep(c)
BY ReadForSignInFits, SaveAttemptFits, IssueSessionFits, RegisterFits, SupersedeFits,
   MailLinkFits, MailFailsFits, FindLinkFits, FindByEmailFits, InsertByGoogleFits,
   LinkByGoogleFits, ReadLinkedUserFits, SaveVouchedFits, ReadLinksFits, ConnectLinkFits,
   ReadMethodsFits, UnlinkFits DEF WayIn

\* So does every handler of accounts, sessions and the team.
LEMMA CareFits ==
  ASSUME IdentityInv, NEW c \in Calls, Care(c)
  PROVE  FittingStep(c)
BY ReadSessionFits, ReadOwnerFits, ReadToSignOutFits, SessionWritesFit, AskForLinkFits,
   ReadTokenFits, ReadHolderFits, SpendFits, SaveHolderFits, ReadToChangeFits, ReadKeptFits,
   SaveChangeFits, RevokeOthersFits, ReadTargetFits, CountAdminsFits, SaveStatusFits DEF Care

\* A step of the system is one of some call, and leaves everything fit.
LEMMA StepFits ==
  ASSUME IdentityInv, Next
  PROVE  \E c \in Calls : FittingStep(c)
BY WayInFits, CareFits, CrashCallFits DEF Next

\* So every step keeps it.
LEMMA IdentityInvStep == IdentityInv /\ [Next]_vars => IdentityInv'
<1> SUFFICES ASSUME IdentityInv, [Next]_vars PROVE IdentityInv'
  OBVIOUS
<1>1. CASE UNCHANGED vars
  <2>1. UNCHANGED <<user, session, token, link, redeemed, pc, cmd, mem, seen>>
    BY <1>1 DEF vars, tables, callVars
  <2>2. IdentityTypeOK' /\ References'
    BY <2>1 DEF IdentityInv, IdentityTypeOK, References, Running
  <2>3. ASSUME NEW c \in Calls PROVE CallFits(c)'
    BY <2>1 DEF IdentityInv, CallFits, CommandFits, MemoryFits, TablesFit, CopyIsSound, Running
  <2> QED BY <2>2, <2>3 DEF IdentityInv
<1>2. CASE Next
  <2>1. PICK c \in Calls : FittingStep(c)
    BY <1>2, StepFits
  <2>2. TablesTyped' /\ References' /\ CallsTyped'
    BY <2>1 DEF FittingStep
  <2>3. ASSUME NEW d \in Calls PROVE CallFits(d)'
    <3>1. CASE d = c
      BY <2>1, <3>1 DEF FittingStep
    <3>2. CASE d # c
      BY <2>1, <2>2, <3>2, OthersStillFit DEF FittingStep
    <3> QED BY <3>1, <3>2
  <2>4. (\A d \in Calls : Running(d) <=> cmd[d] # None)'
    BY <2>3 DEF CallFits, MemoryFits, Running
  <2>5. IdentityTypeOK'
    BY <2>2, <2>4 DEF IdentityTypeOK, TablesTyped, CallsTyped
  <2> QED BY <2>2, <2>3, <2>5 DEF IdentityInv
<1> QED BY <1>1, <1>2

\* So the types hold throughout.
LEMMA IdentityInvariant == Spec => []IdentityInv
BY IdentityInvInit, IdentityInvStep, PTL DEF Spec

\* Whatever calls overlap and wherever they stop, the tables hold what their columns may
\* hold, and a call is under way exactly while it has a command.
THEOREM IdentityTypesHold == Spec => []IdentityTypeOK
<1>1. IdentityInv => IdentityTypeOK
  BY DEF IdentityInv
<1> QED BY <1>1, IdentityInvariant, PTL

\* A link in mail that has set a password was spent before it did (reset-password.ts).
THEOREM ResetLinksAreSpent == Spec => []SpentBeforeUse
<1>1. IdentityInv => SpentBeforeUse
  BY DEF IdentityInv, References, SpentBeforeUse
<1> QED BY <1>1, IdentityInvariant, PTL

\* A link in mail that was spent stays spent, whatever copies of it are written back.
THEOREM SpentLinksStaySpent == Spec => SpentStaysSpent
<1> DEFINE Stays == \A t \in Calls : token[t] # None /\ token[t].spent => token'[t].spent
<1>1. ASSUME IdentityInv, [Next]_vars PROVE [Stays]_token
  <2>1. CASE UNCHANGED vars
    BY <2>1 DEF vars, tables
  <2>2. CASE Next
    <3>1. PICK c \in Calls : FittingStep(c)
      BY <1>1, <2>2, StepFits
    <3> QED BY <3>1 DEF FittingStep, TablesGrow
  <2> QED BY <1>1, <2>1, <2>2
<1>2. Spec => [][Stays]_token
  BY <1>1, IdentityInvariant, PTL DEF Spec
<1> QED BY <1>2 DEF SpentStaysSpent
=============================================================================
