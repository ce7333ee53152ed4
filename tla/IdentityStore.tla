--------------------------- MODULE IdentityStore ---------------------------
(***************************************************************************)
(* The tables of the identity module and what its repositories do to them. *)
(*                                                                         *)
(* A use case runs as a call, and everything between two awaits is one     *)
(* step.  Users carry a version and are saved under it; sessions and links *)
(* in mail carry none, and are saved whatever the row holds by then.       *)
(* A call opens at most one session, mails at most one link and sets at    *)
(* most one password, so the call itself names them.  Ages are left out: a *)
(* session, a link or a lockout may turn out to have run out whenever it   *)
(* is looked at.                                                           *)
(***************************************************************************)
EXTENDS UserRules, FiniteSets

CONSTANTS
  People,      \* the addresses accounts are registered under
  Seeded,      \* those registered when the model starts, each signed in once
  Admins,      \* the operators among them
  Googles,     \* accounts at Google
  GoogleEmail, \* GoogleEmail[g]: the address Google vouches for
  Calls,       \* executions of a use case; the bound on how many there are
  OneAtATime,  \* whether calls about one person wait for each other
  MayCrash     \* whether a call may stop between two awaits

ASSUME PeopleAssumption == Admins \subseteq Seeded /\ Seeded \subseteq People
ASSUME GoogleAssumption == GoogleEmail \in [Googles -> People]
ASSUME NoneAssumption == None \notin Calls \cup People
ASSUME NamesAssumption == Calls \cap Seeded = {}
ASSUME SwitchAssumption == OneAtATime \in BOOLEAN /\ MayCrash \in BOOLEAN

VARIABLES
  user,      \* user[e]: the row registered under address e, or None
  session,   \* session[s]: the row of session s, or None
  token,     \* token[c]: the link call c mailed, or None
  link,      \* link[g]: whose account Google account g signs in to, or None
  redeemed,  \* redeemed[t]: the calls that set a password by link t (history)
  pc,        \* pc[c]: the await call c stands at, or how it ended
  cmd,       \* cmd[c]: the command of call c while it runs
  mem,       \* mem[c]: the user as call c read it, or None
  seen       \* seen[c]: the session or link as call c read it, or None

tables == <<user, session, token, link, redeemed>>
callVars == <<pc, cmd, mem, seen>>
vars == <<tables, callVars>>

\* A password is named by who set it: a seeded user, or the call that did.
Passwords == Seeded \cup Calls
SessionIds == Seeded \cup Calls
Purposes == {"email-verification", "password-reset"}

UserRow == [password : Passwords \cup {None}, status : {"active", "locked", "disabled"},
            admin : BOOLEAN, verified : BOOLEAN, failed : Nat, locked : BOOLEAN,
            version : Nat]
\* password is history: what the session was opened with, None for Google.
SessionRow == [user : People, revoked : BOOLEAN, password : Passwords \cup {None}]
TokenRow == [user : People, purpose : Purposes, spent : BOOLEAN]

Ended == {"ok", "refused", "failed", "crashed"}

----------------------------------------------------------------------------
(* DrizzleUserRepository *)

\* Mutant: the update is not conditional on the version.
CanSaveUserAnyVersion(c) == TRUE
\* save: zero rows under the version that was read is a ConcurrencyError.
CanSaveUser(c) == user[cmd[c].user].version = mem[c].version
SaveUser(c, row) ==
  user' = [user EXCEPT ![cmd[c].user] = [row EXCEPT !.version = @ + 1]]

NewUser(p) == [password |-> p, status |-> "active", admin |-> FALSE,
               verified |-> p = None, failed |-> 0, locked |-> FALSE, version |-> 0]

\* insertIfEmailFree, where the unique index let the row in.
Insert(c, e, p) ==
  /\ user' = [user EXCEPT ![e] = NewUser(p)]
  /\ mem' = [mem EXCEPT ![c] = NewUser(p)]

----------------------------------------------------------------------------
(* DrizzleSessionRepository *)

SessionsOf(e) == {s \in SessionIds : session[s] # None /\ session[s].user = e}
Live(s) == session[s] # None /\ ~session[s].revoked
SignedIn(e) == \E s \in SessionsOf(e) : Live(s)

\* save of a session that was read: revokedAt is written back with the rest of it.
SaveSession(s, row) == session' = [session EXCEPT ![s].revoked = row.revoked]

Revoke(gone) ==
  session' = [s \in SessionIds |->
                IF s \in gone THEN [session[s] EXCEPT !.revoked = TRUE] ELSE session[s]]
RevokeAllForUser(e) == Revoke(SessionsOf(e))
\* The session that changed the password now stands on the new one.
RevokeOthersForUser(e, keep, p) ==
  session' = [s \in SessionIds |->
                IF s = keep THEN [session[s] EXCEPT !.password = p]
                ELSE IF s \in SessionsOf(e) THEN [session[s] EXCEPT !.revoked = TRUE]
                ELSE session[s]]

----------------------------------------------------------------------------
(* DrizzleVerificationTokenRepository *)

Outstanding(e, p) ==
  {t \in Calls : token[t] # None /\ token[t].user = e /\ token[t].purpose = p
                   /\ ~token[t].spent}
ConsumeOutstanding(e, p) ==
  token' = [t \in Calls |->
              IF t \in Outstanding(e, p) THEN [token[t] EXCEPT !.spent = TRUE] ELSE token[t]]

----------------------------------------------------------------------------
(* DrizzleConnectedAccountRepository *)

\* link: the primary key and the index on user and provider both let the row in.
MayLink(g, e) == link[g] = None /\ \A h \in Googles : link[h] # e
Linked(e) == \E g \in Googles : link[g] = e

----------------------------------------------------------------------------
(* The course of a call. *)

Running(c) == pc[c] \notin Ended \cup {"idle"}
Concerns(c) == {cmd[c].user} \cup (IF cmd[c].op = "setStatus" THEN {cmd[c].actor} ELSE {})
Busy(e) == \E c \in Calls : Running(c) /\ e \in Concerns(c)

\* Call c may start, on behalf of or about the people of es.
Start(c, es) ==
  /\ pc[c] = "idle"
  /\ OneAtATime => \A e \in es : ~Busy(e)

GoTo(c, where) == pc' = [pc EXCEPT ![c] = where]
Command(c, command) == cmd' = [cmd EXCEPT ![c] = command]
ReadUser(c, e) == mem' = [mem EXCEPT ![c] = user[e]]

\* A call ends: what it held in memory is gone.
End(c, how) ==
  /\ pc' = [pc EXCEPT ![c] = how]
  /\ cmd' = [cmd EXCEPT ![c] = None]
  /\ mem' = [mem EXCEPT ![c] = None]
  /\ seen' = [seen EXCEPT ![c] = None]

\* Saving the user fails on the version: the error leaves the use case.
LoseRace(c) == ~CanSaveUser(c) /\ End(c, "failed") /\ UNCHANGED tables

\* The process serving call c dies, and nothing resumes the call.
CrashCall(c) == MayCrash /\ Running(c) /\ End(c, "crashed") /\ UNCHANGED tables

----------------------------------------------------------------------------
\* Seeded users registered with a password, and are signed in.
StoreInit ==
  /\ user = [e \in People |-> IF e \in Seeded
                              THEN [NewUser(e) EXCEPT !.admin = e \in Admins] ELSE None]
  /\ session = [s \in SessionIds |-> IF s \in Seeded
                  THEN [user |-> s, revoked |-> FALSE, password |-> s] ELSE None]
  /\ token = [c \in Calls |-> None]
  /\ link = [g \in Googles |-> None]
  /\ redeemed = [c \in Calls |-> {}]
  /\ pc = [c \in Calls |-> "idle"]
  /\ cmd = [c \in Calls |-> None]
  /\ mem = [c \in Calls |-> None]
  /\ seen = [c \in Calls |-> None]
=============================================================================
