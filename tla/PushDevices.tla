----------------------------- MODULE PushDevices -----------------------------
(***************************************************************************)
(* The push registration of one browser: the tokens the push service gives *)
(* it, the devices collection of the server, the cookie that remembers     *)
(* which token this browser registered, and the account that turned        *)
(* notifications on here, which the page keeps in local storage.           *)
(*                                                                         *)
(* One page is open at a time, with one request under way; other browsers  *)
(* and the senders of pushes go on meanwhile.  A page may be left, or hear *)
(* nothing, while the server does what it was asked.  What a sign-out      *)
(* deletes behind its answer is deleted with it, or fails to be.           *)
(***************************************************************************)
EXTENDS Integers

CONSTANTS Accounts,       \* the accounts people use on this browser
          Tokens,         \* 1..n; bound: how many tokens the browser is ever given
          MaxLost,        \* bound: how many requests, or their answers, are lost
          MaxForgetFails, \* bound: how often the server fails to delete devices
          None, Releasing

ASSUME PushAssumption ==
  /\ None \notin Accounts /\ Releasing \notin Accounts /\ None # Releasing
  /\ None \notin Tokens \cup {0}
  /\ Tokens \subseteq Nat \ {0} /\ 1 \in Tokens
  /\ MaxLost \in Nat /\ MaxForgetFails \in Nat

VARIABLES
  device,      \* the devices collection: the account of each token, or None
  cookie,      \* the token of the novex_push_device cookie, or None
  owner,       \* novex:push-owner in local storage
  session,     \* the account signed in on this browser, or None
  permitted,   \* whether the browser may show notifications
  token,       \* the token the browser's SDK has, 0 before the first one
  alive,       \* whether the push service still delivers to that token
  call,        \* the request of the page that is under way, or None
  lost, failed, \* requests and answers lost, and deletions failed, so far
  astray       \* history: the devices this browser lost its hold on through a fault

pushVars == <<device, cookie, owner, session, permitted, token, alive, call, lost, failed, astray>>

PageRequest == [does : {"enable", "renew", "replace"}, who : Accounts, sets : BOOLEAN]
        \cup [does : {"release"}, sent : Tokens \cup {None}]

PushInit ==
  /\ device = [t \in Tokens |-> None] /\ cookie = None /\ owner = None
  /\ session = None /\ permitted = FALSE
  /\ token = 0 /\ alive = FALSE
  /\ call = None /\ lost = 0 /\ failed = 0 /\ astray = {}

\* forget, of a set of tokens; and where some deletions may have failed.
Forget(ts) == device' = [t \in Tokens |-> IF t \in ts THEN None ELSE device[t]]
Delete(ts, done) ==
  /\ Forget(done)
  /\ IF done = ts THEN UNCHANGED failed ELSE failed < MaxForgetFails /\ failed' = failed + 1
Lose == lost < MaxLost /\ lost' = lost + 1
\* Of the devices that were astray, or go astray with this step, those there still are.
Stray(ts) == astray' = {t \in Tokens : t \in astray \cup ts /\ device'[t] # None}
CookieDropped == {cookie} \ {cookie'}
\* What a page's DELETE finds to forget: the token it sent, and the cookie's.
Named(sent) == {sent, cookie} \ {None}

----------------------------------------------------------------------------
(* The browser and its page *)
\* The SDK hands out the token it has, dead or not, and asks for one only without it.
Subscribe ==
  IF token = 0 THEN token' = 1 /\ alive' = TRUE ELSE UNCHANGED <<token, alive>>

PushSignIn(a) ==
  /\ session = None /\ call = None /\ session' = a
  /\ UNCHANGED <<device, cookie, owner, permitted, token, alive, call, lost, failed, astray>>

\* signOutAction: the cookie goes with the answer, its device behind it, best-effort.
PushSignOut ==
  /\ session # None /\ call = None /\ session' = None /\ cookie' = None
  /\ \E done \in SUBSET ({cookie} \ {None}) : Delete({cookie} \ {None}, done)
  /\ Stray(CookieDropped)
  /\ UNCHANGED <<owner, permitted, token, alive, call, lost>>

\* The session lapses or is revoked elsewhere: nothing tells this browser's registration.
PushSessionEnds ==
  /\ session # None /\ session' = None
  /\ UNCHANGED <<device, cookie, owner, permitted, token, alive, call, lost, failed, astray>>

\* "Sign out everywhere": every device of the account goes, or none; the browser it is
\* pressed on loses its cookie as well, whoever registered the device it names.
SignOutEverywhere(a) ==
  /\ LET registered == {t \in Tokens : device[t] = a}
     IN \E done \in {{}, registered} : Delete(registered, done)
  /\ session' = IF session = a THEN None ELSE session
  /\ \/ UNCHANGED cookie
     \/ session = a /\ call = None /\ cookie' = None
  /\ Stray(CookieDropped)
  /\ UNCHANGED <<owner, permitted, token, alive, call, lost>>

Enable ==
  /\ session # None /\ call = None /\ permitted' = TRUE /\ Subscribe
  /\ call' = [does |-> "enable", who |-> session, sets |-> TRUE]
  /\ UNCHANGED <<device, cookie, owner, session, lost, failed, astray>>

\* Given up first, so that the next load tries again whatever becomes of the request.
Disable ==
  /\ session # None /\ owner = session /\ permitted /\ call = None
  /\ owner' = Releasing
  /\ \E sent \in {None} \cup ({token} \ {0}) : call' = [does |-> "release", sent |-> sent]
  /\ UNCHANGED <<device, cookie, session, permitted, token, alive, lost, failed, astray>>

\* usePushSync, on every load of a page by somebody signed in.
Load ==
  /\ session # None /\ call = None /\ owner # None
  /\ IF owner # session \/ ~permitted
     THEN call' = [does |-> "release", sent |-> None] /\ UNCHANGED <<token, alive>>
     ELSE call' = [does |-> "renew", who |-> session, sets |-> FALSE] /\ Subscribe
  /\ UNCHANGED <<device, cookie, owner, session, permitted, lost, failed, astray>>

\* The person withdraws the permission, or the push service drops or rotates the token.
TokenDies ==
  /\ token # 0 /\ alive /\ alive' = FALSE
  /\ permitted' \in {permitted, FALSE}
  /\ UNCHANGED <<device, cookie, owner, session, token, call, lost, failed, astray>>

----------------------------------------------------------------------------
(* The devices endpoint, and what the page makes of its answer *)
Registering == call # None /\ call.does \in {"enable", "renew", "replace"}

\* POST: the token is tried on the push service and stored for the account signed in,
\* unless the service says that it is dead: a check that fails otherwise refuses nothing.
StoreDevice ==
  /\ Registering /\ session = call.who
  /\ device' = [device EXCEPT ![token] = session] /\ call' = None
  /\ UNCHANGED <<session, permitted, token, alive, failed>>

RegisterDevice ==
  /\ StoreDevice /\ cookie' = token
  /\ owner' = IF call.sets THEN call.who ELSE owner
  /\ astray' = astray \ {token}
  /\ UNCHANGED lost

\* The page hears nothing, or of a failure, though the device was stored: it writes down
\* no owner, and the cookie comes only where the answer does.
RegisterUnheard ==
  /\ StoreDevice /\ Lose /\ UNCHANGED owner
  /\ cookie' \in {cookie, token}
  /\ astray' = IF cookie' = token /\ owner # None THEN astray \ {token}
                                                 ELSE astray \cup {token}

\* A dead one is forgotten instead, best-effort; the page subscribes anew and asks once
\* more, where it hears of it.
RefuseStaleToken ==
  /\ Registering /\ session = call.who /\ ~alive
  /\ \E done \in SUBSET {token} : Delete({token}, done)
  /\ Stray({})
  /\ \/ /\ call.does # "replace" /\ permitted /\ token + 1 \in Tokens
        /\ token' = token + 1 /\ alive' = TRUE /\ call' = [call EXCEPT !.does = "replace"]
        /\ UNCHANGED lost
     \/ /\ ~(call.does # "replace" /\ permitted /\ token + 1 \in Tokens)
        /\ call' = None /\ UNCHANGED <<token, alive, lost>>
     \/ Lose /\ call' = None /\ UNCHANGED <<token, alive>>
  /\ UNCHANGED <<cookie, owner, session, permitted>>

\* Nobody is signed in any more: 401.
RefuseStranger ==
  /\ Registering /\ session # call.who /\ call' = None
  /\ UNCHANGED <<device, cookie, owner, session, permitted, token, alive, lost, failed, astray>>

\* Mutant: the page takes the device for released whatever the server answered.
FinishReleaseAnyway(confirmed) == owner' = None /\ call' = None
FinishRelease(confirmed) == owner' = (IF confirmed THEN None ELSE owner) /\ call' = None

\* DELETE: each device is deleted for itself, and the cookie is dropped with every answer,
\* that of a failure too.
ReleaseDevice ==
  /\ call # None /\ call.does = "release"
  /\ \E done \in SUBSET Named(call.sent) :
       /\ Delete(Named(call.sent), done)
       /\ \/ cookie' = None /\ FinishRelease(done = Named(call.sent)) /\ UNCHANGED lost
          \/ cookie' \in {cookie, None} /\ FinishRelease(FALSE) /\ Lose
  /\ Stray(CookieDropped)
  /\ UNCHANGED <<session, permitted, token, alive>>

\* The request never reaches the server.
LoseRequest ==
  /\ call # None /\ Lose
  /\ FinishRelease(FALSE)
  /\ UNCHANGED <<device, cookie, session, permitted, token, alive, failed, astray>>

\* notify: devices the push service reports dead are forgotten.
NotifyAccount(a) ==
  /\ \E t \in Tokens : device[t] = a /\ (t # token \/ ~alive)
  /\ Forget({t \in Tokens : device[t] = a /\ (t # token \/ ~alive)})
  /\ Stray({})
  /\ UNCHANGED <<cookie, owner, session, permitted, token, alive, call, lost, failed>>

PushNext ==
  \/ \E a \in Accounts : PushSignIn(a) \/ SignOutEverywhere(a) \/ NotifyAccount(a)
  \/ PushSignOut \/ PushSessionEnds \/ Enable \/ Disable \/ Load \/ TokenDies
  \/ RegisterDevice \/ RegisterUnheard \/ RefuseStaleToken \/ RefuseStranger
  \/ ReleaseDevice \/ LoseRequest

PushSpec == PushInit /\ [][PushNext]_pushVars

----------------------------------------------------------------------------
PushTypeOK ==
  /\ device \in [Tokens -> Accounts \cup {None}] /\ cookie \in Tokens \cup {None}
  /\ owner \in Accounts \cup {None, Releasing} /\ session \in Accounts \cup {None}
  /\ permitted \in BOOLEAN /\ token \in Tokens \cup {0} /\ alive \in BOOLEAN
  /\ call \in PageRequest \cup {None} /\ lost \in 0..MaxLost /\ failed \in 0..MaxForgetFails
  /\ astray \subseteq Tokens

\* "Off either way. It is what was asked for, and the removal is retried"
\* (use-push.ts:179): while the browser can be reached through a registration, an owner
\* is left that makes the next load renew it or release it, and the cookie names what to
\* release, so that also a sign-out or the next person ends it.  Three faults break that,
\* and nothing else does: the device was stored but the answer never came, its deletion
\* failed behind the dropped cookie, or somebody else's "sign out everywhere" took it.
RemovalIsRetried ==
  (alive /\ device[token] # None /\ token \notin astray) => owner # None /\ cookie = token
=============================================================================
