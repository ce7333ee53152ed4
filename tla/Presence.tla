------------------------------- MODULE Presence -------------------------------
(***************************************************************************)
(* Presence of one browser: its tabs report the page they are on, the      *)
(* server keeps one row per browsing context, overwritten in place, and    *)
(* operators are told when somebody arrives.  A beat reads the row, waits  *)
(* for a location and saves what it made of the row it read; whether the   *)
(* arrival is announced is decided after the answer has gone out.          *)
(*                                                                         *)
(* Time is counted in ticks.  Reads of the tables do not fail here: a      *)
(* failed one costs a beat or an announcement, by design.                  *)
(***************************************************************************)
EXTENDS Integers, Sequences, FiniteSets

CONSTANTS Tabs,            \* the tabs of the browser
          Visitors,        \* the accounts signed in on it
          Pages,           \* the routes reported
          Beats,           \* the requests under way at once
          MaxContexts,     \* bound: how many context ids are minted
          MaxBeats,        \* bound: how many beats are sent
          MaxTime,         \* bound: how many ticks pass
          Grace, Gap, FixAge, Retention,  \* the code's windows, in ticks
          OneBeatAtATime,  \* whether a tab sends a beat only when its last one is answered
          Tracked,         \* bound: the contexts whose location is followed
          NoOne, NoRow, NoFix, NoBeat, Never

ASSUME PresenceAssumption ==
  /\ {MaxContexts, MaxBeats, MaxTime, Grace, Gap, FixAge, Retention} \subseteq Nat
  /\ Grace <= Gap /\ Gap <= FixAge /\ FixAge <= Retention
  /\ NoOne \notin Visitors /\ OneBeatAtATime \in BOOLEAN
  /\ Tracked \subseteq 1..MaxContexts

VARIABLES
  now,         \* the server's clock
  session,     \* the account signed in on the browser, or NoOne
  signedInAt,  \* when each account last signed in, or Never
  tab,         \* each tab: whether it is open, its page, its context id (0 without one)
  minter,      \* the tab that minted each context id, in order
  presences,   \* the table: the row of each context, or NoRow
  beat,        \* each request under way, or NoBeat
  sent,        \* how many beats have been sent
  announced    \* arrivals operators were told of, in order

presenceVars ==
  <<now, session, signedInAt, tab, minter, presences, beat, sent, announced>>

Contexts == 1..MaxContexts
Times == 0..MaxTime
Someone == Visitors \cup {NoOne}
Fix == [exact : BOOLEAN, at : Times]
PresenceRow == [user : Someone, path : Pages, views : 1..MaxBeats,
                seen : Times, gone : BOOLEAN, location : Fix \cup {NoFix}]
Report == [id : Contexts, user : Someone, path : Pages, leaves : BOOLEAN,
           stage : {"sent", "read", "tabs", "tell"},
           at : Times, existing : PresenceRow \cup {NoRow}]

\* The null of each column is no value of it.
ASSUME NoValueAssumption == NoRow \notin PresenceRow /\ NoFix \notin Fix /\ NoBeat \notin Report

PresenceInit ==
  /\ now = 0 /\ session \in Someone /\ signedInAt = [v \in Visitors |-> Never]
  /\ \E p \in Pages : tab = [t \in Tabs |-> [open |-> FALSE, page |-> p, id |-> 0]]
  /\ minter = <<>> /\ presences = [c \in Contexts |-> NoRow]
  /\ beat = [b \in Beats |-> NoBeat] /\ sent = 0
  /\ announced = <<>>

----------------------------------------------------------------------------
(* The browser *)
\* A beat of this tab has been sent and not answered.
Unanswered(t) ==
  \E b \in Beats :
    beat[b] # NoBeat /\ minter[beat[b].id] = t /\ beat[b].stage \in {"sent", "read"}

\* send, under the tab's context id, minted on first use.
Send(t, p, leaves) ==
  LET known == tab[t].id # 0
      id == IF known THEN tab[t].id ELSE Len(minter) + 1
  IN /\ OneBeatAtATime => ~Unanswered(t)
     /\ sent < MaxBeats /\ sent' = sent + 1
     /\ id \in Contexts
     /\ minter' = IF known THEN minter ELSE Append(minter, t)
     /\ tab' = [tab EXCEPT ![t] = [open |-> ~leaves, page |-> p, id |-> id]]
     /\ \E b \in Beats :
          /\ beat[b] = NoBeat
          /\ beat' = [beat EXCEPT ![b] =
               [id |-> id, user |-> session, path |-> p, leaves |-> leaves,
                stage |-> "sent", at |-> now, existing |-> NoRow]]
     /\ UNCHANGED <<now, session, signedInAt, presences, announced>>

\* The reporter mounts and beats at once; a tab that comes back has kept its id.
OpenTab(t) ==
  /\ ~tab[t].open
  /\ \E p \in Pages : (tab[t].id # 0 => p = tab[t].page) /\ Send(t, p, FALSE)

Navigate(t) == tab[t].open /\ \E p \in Pages \ {tab[t].page} : Send(t, p, FALSE)

\* The timer, a change of visibility, or a first fix from the device.
BeatAgain(t) == tab[t].open /\ Send(t, tab[t].page, FALSE)

\* pagehide: a beacon, unless the tab has no id to send it under.
HidePage(t) ==
  /\ tab[t].open
  /\ \/ tab[t].id # 0 /\ Send(t, tab[t].page, TRUE)
     \/ /\ tab[t].id = 0 /\ tab' = [tab EXCEPT ![t].open = FALSE]
        /\ UNCHANGED <<now, session, signedInAt, minter, presences, beat, sent, announced>>

\* Signing in is recorded, and announced, by the sign-in itself.
VisitorSignsIn(v) ==
  /\ session = NoOne /\ session' = v /\ signedInAt' = [signedInAt EXCEPT ![v] = now]
  /\ UNCHANGED <<now, tab, minter, presences, beat, sent, announced>>

VisitorSignsOut ==
  /\ session # NoOne /\ session' = NoOne
  /\ UNCHANGED <<now, signedInAt, tab, minter, presences, beat, sent, announced>>

----------------------------------------------------------------------------
(* recordPresence *)
MayClaim(owner, requester) == owner = NoOne \/ owner = requester

\* The row is read; one that names another account is refused, and the tab forgets its id.
FindPresence(b) ==
  /\ beat[b] # NoBeat /\ beat[b].stage = "sent"
  /\ LET call == beat[b]
         row == presences[call.id]
     IN IF row # NoRow /\ ~MayClaim(row.user, call.user)
        THEN /\ beat' = [beat EXCEPT ![b] = NoBeat]
             /\ tab' = IF call.leaves THEN tab ELSE [tab EXCEPT ![minter[call.id]].id = 0]
        ELSE /\ beat' = [beat EXCEPT ![b].stage = "read", ![b].at = now, ![b].existing = row]
             /\ UNCHANGED tab
  /\ UNCHANGED <<now, session, signedInAt, minter, presences, sent, announced>>

Stale(fix) == now - fix.at > FixAge
\* Mutant: the newer fix wins, whatever the two are worth.
SupersedesByDate(fix, other) == other = NoFix \/ fix.at >= other.at
Supersedes(fix, other) ==
  \/ other = NoFix \/ Stale(other)
  \/ fix.exact /\ ~other.exact
  \/ fix.exact = other.exact /\ fix.at > other.at
Locate(location, fix) == IF Supersedes(fix, location) THEN fix ELSE location

\* Mutant: the page a context opens on is not counted as a view.
RecordedUncounted(call) ==
  IF call.existing = NoRow
  THEN [user |-> call.user, path |-> call.path, views |-> 0,
        seen |-> call.at, gone |-> FALSE, location |-> NoFix]
  ELSE [call.existing EXCEPT !.user = call.user, !.path = call.path, !.seen = call.at]
\* What the row says after this beat, before it is located.
Recorded(call) ==
  IF call.existing = NoRow
  THEN [user |-> call.user, path |-> call.path, views |-> 1,
        seen |-> call.at, gone |-> FALSE, location |-> NoFix]
  ELSE LET moves == call.path # call.existing.path
       IN [call.existing EXCEPT
             !.user = call.user, !.path = call.path, !.seen = call.at, !.gone = FALSE,
             !.views = IF moves THEN @ + 1 ELSE @]

\* The location after this beat.  The address is looked up when it has moved or the fix
\* held is not live, and the lookup may find nothing; a device's fix, if any, comes after it.
Located(call, location) ==
  LET address == [exact |-> FALSE, at |-> call.at]
      device == [exact |-> TRUE, at |-> call.at]
      looked == {location, Locate(location, address)}
  IN IF call.id \in Tracked THEN looked \cup {Locate(f, device) : f \in looked} ELSE {location}

Arrived(call) ==
  call.user # NoOne /\ (call.existing = NoRow \/ call.existing.user # call.user)
Landed(call) == call.existing = NoRow

\* Mutant: a tab that is closing is kept on the board like one that is not.
RowAfterStaying(call, row) ==
  {[row EXCEPT !.location = f] : f \in Located(call, row.location)}
\* The rows the beat may save: a closing tab is marked gone and not located.
RowAfter(call, row) ==
  IF call.leaves THEN {[row EXCEPT !.gone = TRUE]}
  ELSE {[row EXCEPT !.location = f] : f \in Located(call, row.location)}

\* The upsert overwrites the row, whatever it holds by now.
SavePresence(b) ==
  /\ beat[b] # NoBeat /\ beat[b].stage = "read"
  /\ LET call == beat[b]
         row == Recorded(call)
     IN /\ \E saved \in RowAfter(call, row) : presences' = [presences EXCEPT ![call.id] = saved]
        /\ beat' = [beat EXCEPT ![b] =
             IF call.leaves \/ ~(Arrived(call) \/ Landed(call)) THEN NoBeat
             ELSE [call EXCEPT !.stage = IF call.user = NoOne THEN "tell" ELSE "tabs"]]
  /\ UNCHANGED <<now, session, signedInAt, tab, minter, sent, announced>>

----------------------------------------------------------------------------
(* announceVisit, after the answer *)
\* Mutant: only a tab on the board counts, so closing one and opening another is a visit.
OtherTabOnBoard(v, id) ==
  \E c \in Contexts \ {id} :
    presences[c] # NoRow /\ presences[c].user = v /\ ~presences[c].gone
                         /\ presences[c].seen >= now - Gap
HasOtherOpenTab(v, id) ==
  \E c \in Contexts \ {id} :
    presences[c] # NoRow /\ presences[c].user = v /\ presences[c].seen >= now - Gap

CheckTabs(b) ==
  /\ beat[b] # NoBeat /\ beat[b].stage = "tabs"
  /\ beat' = [beat EXCEPT ![b] = IF HasOtherOpenTab(beat[b].user, beat[b].id) THEN NoBeat
                                 ELSE [beat[b] EXCEPT !.stage = "tell"]]
  /\ UNCHANGED <<now, session, signedInAt, tab, minter, presences, sent, announced>>

SaidBySignIn(v) ==
  v # NoOne /\ signedInAt[v] # Never /\ now - signedInAt[v] < Grace

Announce(b) ==
  /\ beat[b] # NoBeat /\ beat[b].stage = "tell"
  /\ announced' = IF SaidBySignIn(beat[b].user) THEN announced
                  ELSE Append(announced, [user |-> beat[b].user, id |-> beat[b].id,
                                          at |-> beat[b].at, told |-> now])
  /\ beat' = [beat EXCEPT ![b] = NoBeat]
  /\ UNCHANGED <<now, session, signedInAt, tab, minter, presences, sent>>

\* sweepPresence: a row past its retention is deleted.
SweepPresence(c) ==
  /\ presences[c] # NoRow /\ presences[c].seen < now - Retention
  /\ presences' = [presences EXCEPT ![c] = NoRow]
  /\ UNCHANGED <<now, session, signedInAt, tab, minter, beat, sent, announced>>

\* A request is answered within the tick after the one it began in.
PassTime ==
  /\ now < MaxTime /\ now' = now + 1
  /\ \A b \in Beats : beat[b] # NoBeat => beat[b].at = now
  /\ UNCHANGED <<session, signedInAt, tab, minter, presences, beat, sent, announced>>

PresenceNext ==
  \/ \E t \in Tabs : OpenTab(t) \/ Navigate(t) \/ BeatAgain(t) \/ HidePage(t)
  \/ (\E v \in Visitors : VisitorSignsIn(v)) \/ VisitorSignsOut
  \/ \E b \in Beats : FindPresence(b) \/ SavePresence(b) \/ CheckTabs(b) \/ Announce(b)
  \/ (\E c \in Contexts : SweepPresence(c)) \/ PassTime

PresenceSpec == PresenceInit /\ [][PresenceNext]_presenceVars

----------------------------------------------------------------------------
PresenceTypeOK ==
  /\ now \in Times /\ session \in Someone /\ signedInAt \in [Visitors -> Times \cup {Never}]
  /\ tab \in [Tabs -> [open : BOOLEAN, page : Pages, id : Contexts \cup {0}]]
  /\ minter \in Seq(Tabs) /\ Len(minter) <= MaxContexts
  /\ presences \in [Contexts -> PresenceRow \cup {NoRow}]
  /\ beat \in [Beats -> Report \cup {NoBeat}] /\ sent \in 0..MaxBeats
  /\ announced \in Seq([user : Someone, id : Contexts, at : Times, told : Times])

Quiet == \A b \in Beats : beat[b] = NoBeat

\* "Once per visit ... one notification, not five" (admin-alerts.ts:129): a customer is
\* not announced again before the gap has passed, in whatever order the tabs beat and
\* the checks run, and a signed-out visitor not again under the same id.
OncePerVisit ==
  \A i, j \in DOMAIN announced : (i < j /\ announced[i].user = announced[j].user) =>
    IF announced[i].user # NoOne THEN announced[j].told - announced[i].at > Gap
    ELSE announced[i].id = announced[j].id => announced[j].at - announced[i].at > Retention

\* A signed-out visitor who has closed the tab is off the board once the beats are
\* answered: the last one in does not put the tab back.
ClosedTabIsGone ==
  Quiet => \A t \in Tabs : (~tab[t].open /\ tab[t].id # 0) =>
    LET row == presences[tab[t].id] IN (row # NoRow /\ row.user = NoOne) => row.gone

\* A consented fix that is still live is not overwritten by a guess from an address
\* (record-presence.ts:125).
ConsentedFixStands ==
  [][\A c \in Contexts :
       (/\ presences[c] # NoRow /\ presences'[c] # NoRow
        /\ presences[c].location # NoFix /\ presences[c].location.exact
        /\ ~Stale(presences[c].location)) =>
          presences'[c].location # NoFix /\ presences'[c].location.exact]_presenceVars
=============================================================================
