---------------------------- MODULE PresenceProofs ----------------------------
(***************************************************************************)
(* What holds of presence for any number of tabs, visitors and pages and   *)
(* any of the code's windows.  The row of a context is written by the one  *)
(* beat of its tab that is not answered, and by the sweep: so what that    *)
(* beat read still stands when it saves, and an arrival that was announced *)
(* leaves a row by which the next one is recognised until it is old.       *)
(***************************************************************************)
EXTENDS Presence, FiniteSetTheorems, SequenceTheorems, TLAPS

Pending(b) == beat[b] # NoBeat /\ beat[b].stage \in {"sent", "read"}
InHand(b) == beat[b] # NoBeat /\ beat[b].stage \in {"tabs", "tell"}
PendingBeats == {b \in Beats : Pending(b)}

\* A beat lasts into the next tick at most.
BeatFits(b) ==
  beat[b] # NoBeat => /\ beat[b].at <= now /\ now <= beat[b].at + 1
                      /\ beat[b].id <= Len(minter)

TabFits(t) == tab[t].id # 0 => tab[t].id <= Len(minter) /\ minter[tab[t].id] = t

\* No row has more views than there have been beats for it, those pending left out.
ViewsFit ==
  /\ IsFiniteSet(PendingBeats) /\ Cardinality(PendingBeats) <= sent
  /\ \A c \in Contexts : presences[c] # NoRow =>
       presences[c].views + Cardinality(PendingBeats) <= sent
  /\ \A b \in Beats : beat[b] # NoBeat /\ beat[b].stage = "read" /\ beat[b].existing # NoRow =>
       beat[b].existing.views + Cardinality(PendingBeats) <= sent

PresenceInv ==
  /\ PresenceTypeOK /\ ViewsFit
  /\ \A b \in Beats : BeatFits(b)
  /\ \A t \in Tabs : TabFits(t)
  /\ \A c \in Contexts : presences[c] # NoRow => presences[c].seen <= now

----------------------------------------------------------------------------
(* Numbers and records *)

\* The windows and bounds are numbers, in the order the code has them.
LEMMA BoundsAreNat ==
  /\ MaxContexts \in Nat /\ MaxBeats \in Nat /\ MaxTime \in Nat
  /\ Grace \in Nat /\ Gap \in Nat /\ FixAge \in Nat /\ Retention \in Nat
  /\ Gap <= Retention
BY PresenceAssumption

\* What a beat saves: its own account, page and time, and one view more at most.
LEMMA SavedRow ==
  ASSUME NEW call \in Report, NEW saved \in RowAfter(call, Recorded(call)),
         NEW n \in 0..MaxBeats - 1, call.existing # NoRow => call.existing.views <= n
  PROVE  /\ saved \in PresenceRow /\ saved # NoRow /\ saved.views <= n + 1
         /\ saved.user = call.user /\ saved.seen = call.at /\ saved.gone = call.leaves
<1> DEFINE row == Recorded(call)
<1>1. call.at \in Times /\ call.user \in Someone /\ call.path \in Pages /\ call.leaves \in BOOLEAN
  BY DEF Report
<1>2. MaxBeats \in Nat
  BY BoundsAreNat
<1>3. /\ row \in PresenceRow /\ row.views <= n + 1
      /\ row.user = call.user /\ row.seen = call.at /\ row.gone = FALSE
  <2>1. CASE call.existing = NoRow
    <3>1. row = [user |-> call.user, path |-> call.path, views |-> 1,
                 seen |-> call.at, gone |-> FALSE, location |-> NoFix]
      BY <2>1, Zenon DEF Recorded
    <3>2. 1 \in 1..MaxBeats /\ 1 <= n + 1
      BY <1>2
    <3> QED BY <1>1, <3>1, <3>2 DEF PresenceRow
  <2>2. CASE call.existing # NoRow
    <3> DEFINE old == call.existing
               views == IF call.path # old.path THEN old.views + 1 ELSE old.views
    <3>1. old \in PresenceRow
      BY <2>2 DEF Report
    <3>2. row = [old EXCEPT !.user = call.user, !.path = call.path, !.seen = call.at,
                            !.gone = FALSE, !.views = views]
      BY <2>2, Zenon DEF Recorded
    <3>3. views \in 1..MaxBeats /\ views <= n + 1
      BY <1>2, <2>2, <3>1 DEF PresenceRow
    <3> HIDE DEF views, old, row
    <3> QED BY <1>1, <3>1, <3>2, <3>3 DEF PresenceRow
  <2> QED BY <2>1, <2>2
<1> HIDE DEF row
<1>4. CASE call.leaves
  <2>1. saved = [row EXCEPT !.gone = TRUE]
    BY <1>4 DEF RowAfter, row
  <2> QED BY <1>3, <1>4, <2>1, NoValueAssumption DEF PresenceRow
<1>5. CASE ~call.leaves
  <2>1. PICK f \in Located(call, row.location) : saved = [row EXCEPT !.location = f]
    BY <1>5 DEF RowAfter, row
  <2>2. f \in Fix \cup {NoFix}
    <3>1. /\ [exact |-> FALSE, at |-> call.at] \in Fix /\ [exact |-> TRUE, at |-> call.at] \in Fix
          /\ row.location \in Fix \cup {NoFix}
      BY <1>1, <1>3 DEF Fix, PresenceRow
    <3> QED BY <2>1, <3>1 DEF Located, Locate
  <2>3. call.leaves = FALSE
    BY <1>1, <1>5
  <2> QED BY <1>3, <2>1, <2>2, <2>3, NoValueAssumption DEF PresenceRow
<1> QED BY <1>4, <1>5

----------------------------------------------------------------------------
(* What each step does *)

OtherBeatsStay(b) ==
  beat' = [d \in Beats |-> beat'[d]] /\ \A d \in Beats \ {b} : beat'[d] = beat[d]

\* A beat of tab t is sent by b under context id.
Sends(t, p, leaves, b, id) ==
  /\ OneBeatAtATime => ~Unanswered(t)
  /\ sent < MaxBeats /\ sent' = sent + 1
  /\ id = (IF tab[t].id # 0 THEN tab[t].id ELSE Len(minter) + 1)
  /\ minter' = (IF tab[t].id # 0 THEN minter ELSE Append(minter, t))
  /\ tab'[t] = [open |-> ~leaves, page |-> p, id |-> id]
  /\ tab' = [d \in Tabs |-> tab'[d]] /\ \A d \in Tabs \ {t} : tab'[d] = tab[d]
  /\ beat[b] = NoBeat /\ OtherBeatsStay(b)
  /\ beat'[b] = [id |-> id, user |-> session, path |-> p, leaves |-> leaves,
                 stage |-> "sent", at |-> now, existing |-> NoRow]
  /\ UNCHANGED <<now, session, signedInAt, presences, announced>>

\* A beat is sent by the tab, under its own id.
LEMMA SendSends ==
  ASSUME PresenceTypeOK, NEW t \in Tabs, NEW p \in Pages, NEW leaves \in BOOLEAN, Send(t, p, leaves)
  PROVE  \E b \in Beats, id \in Contexts : Sends(t, p, leaves, b, id)
<1> DEFINE id == IF tab[t].id # 0 THEN tab[t].id ELSE Len(minter) + 1
<1>1. PICK b \in Beats :
        /\ beat[b] = NoBeat
        /\ beat' = [beat EXCEPT ![b] =
               [id |-> id, user |-> session, path |-> p, leaves |-> leaves,
                stage |-> "sent", at |-> now, existing |-> NoRow]]
  BY DEF Send
<1>2. /\ id \in Contexts
      /\ tab' = [tab EXCEPT ![t] = [open |-> ~leaves, page |-> p, id |-> id]]
      /\ minter' = (IF tab[t].id # 0 THEN minter ELSE Append(minter, t))
  BY Zenon DEF Send
<1>3. /\ OneBeatAtATime => ~Unanswered(t)
      /\ sent < MaxBeats /\ sent' = sent + 1
      /\ UNCHANGED <<now, session, signedInAt, presences, announced>>
  BY DEF Send
<1> HIDE DEF id
<1>4. /\ beat'[b] = [id |-> id, user |-> session, path |-> p, leaves |-> leaves,
                     stage |-> "sent", at |-> now, existing |-> NoRow]
      /\ OtherBeatsStay(b)
  BY <1>1 DEF PresenceTypeOK, OtherBeatsStay
<1>5. /\ tab'[t] = [open |-> ~leaves, page |-> p, id |-> id]
      /\ tab' = [d \in Tabs |-> tab'[d]] /\ \A d \in Tabs \ {t} : tab'[d] = tab[d]
  BY <1>2 DEF PresenceTypeOK
<1>6. id = (IF tab[t].id # 0 THEN tab[t].id ELSE Len(minter) + 1)
  BY DEF id
<1>7. Sends(t, p, leaves, b, id)
  BY <1>1, <1>2, <1>3, <1>4, <1>5, <1>6 DEF Sends
<1> QED BY <1>2, <1>7

\* The row is read: the beat goes on with it, or is refused.
Finds(b) ==
  LET row == presences[beat[b].id]
  IN /\ Pending(b) /\ beat[b].stage = "sent" /\ OtherBeatsStay(b)
     /\ row = NoRow \/ MayClaim(row.user, beat[b].user)
     /\ beat'[b] = [beat[b] EXCEPT !.stage = "read", !.at = now, !.existing = row]
     /\ UNCHANGED <<now, session, signedInAt, tab, minter, presences, sent, announced>>
Refuses(b) ==
  LET row == presences[beat[b].id]
  IN /\ Pending(b) /\ OtherBeatsStay(b) /\ beat'[b] = NoBeat
     /\ row # NoRow /\ ~MayClaim(row.user, beat[b].user)
     /\ tab' = (IF beat[b].leaves THEN tab ELSE [tab EXCEPT ![minter[beat[b].id]].id = 0])
     /\ UNCHANGED <<now, session, signedInAt, minter, presences, sent, announced>>

\* A read goes on with the row, or is refused.
LEMMA FindingFinds ==
  ASSUME PresenceTypeOK, NEW b \in Beats, FindPresence(b)
  PROVE  Finds(b) \/ Refuses(b)
<1> DEFINE row == presences[beat[b].id]
<1>1. beat[b] # NoBeat /\ beat[b].stage = "sent" /\ beat[b] \in Report
  BY DEF FindPresence, PresenceTypeOK
<1>2. Pending(b)
  BY <1>1 DEF Pending
<1>3. CASE row # NoRow /\ ~MayClaim(row.user, beat[b].user)
  BY <1>1, <1>2, <1>3 DEF FindPresence, PresenceTypeOK, Refuses, OtherBeatsStay
<1>4. CASE row = NoRow \/ MayClaim(row.user, beat[b].user)
  <2>1. /\ beat' = [beat EXCEPT ![b] =
                      [beat[b] EXCEPT !.stage = "read", !.at = now, !.existing = row]]
        /\ UNCHANGED tab
    <3>1. /\ beat' = [beat EXCEPT ![b].stage = "read", ![b].at = now, ![b].existing = row]
          /\ UNCHANGED tab
      BY <1>4 DEF FindPresence
    <3> HIDE DEF row
    <3> QED BY <1>1, <3>1 DEF PresenceTypeOK
  <2> QED BY <1>1, <1>2, <1>4, <2>1 DEF FindPresence, PresenceTypeOK, Finds, OtherBeatsStay
<1> QED BY <1>3, <1>4

Saves(b, saved) ==
  LET call == beat[b]
  IN /\ Pending(b) /\ call.stage = "read" /\ OtherBeatsStay(b)
     /\ saved \in RowAfter(call, Recorded(call))
     /\ presences'[call.id] = saved /\ presences' = [c \in Contexts |-> presences'[c]]
     /\ \A c \in Contexts \ {call.id} : presences'[c] = presences[c]
     /\ \/ beat'[b] = NoBeat
        \/ /\ ~call.leaves /\ (Arrived(call) \/ Landed(call))
           /\ beat'[b] = [call EXCEPT !.stage = IF call.user = NoOne THEN "tell" ELSE "tabs"]
     /\ UNCHANGED <<now, session, signedInAt, tab, minter, sent, announced>>

\* A save writes one row, and the beat is over or an arrival.
LEMMA SavingSaves ==
  ASSUME PresenceTypeOK, NEW b \in Beats, SavePresence(b)
  PROVE  \E saved : Saves(b, saved)
<1>1. beat[b] # NoBeat /\ beat[b].stage = "read" /\ beat[b] \in Report /\ Pending(b)
  BY DEF SavePresence, PresenceTypeOK, Pending
<1>2. PICK saved \in RowAfter(beat[b], Recorded(beat[b])) :
        presences' = [presences EXCEPT ![beat[b].id] = saved]
  BY Zenon DEF SavePresence
<1> DEFINE next == IF beat[b].leaves \/ ~(Arrived(beat[b]) \/ Landed(beat[b])) THEN NoBeat
                   ELSE [beat[b] EXCEPT !.stage = IF beat[b].user = NoOne THEN "tell" ELSE "tabs"]
<1>3. beat' = [beat EXCEPT ![b] = next]
  BY Zenon DEF SavePresence
<1>4. UNCHANGED <<now, session, signedInAt, tab, minter, sent, announced>>
  BY DEF SavePresence
<1>5. \/ next = NoBeat
      \/ /\ ~beat[b].leaves /\ (Arrived(beat[b]) \/ Landed(beat[b]))
         /\ next = [beat[b] EXCEPT !.stage = IF beat[b].user = NoOne THEN "tell" ELSE "tabs"]
  BY Zenon
<1> HIDE DEF next
<1>6. beat'[b] = next /\ OtherBeatsStay(b)
  BY <1>3 DEF PresenceTypeOK, OtherBeatsStay
<1>7. /\ presences'[beat[b].id] = saved /\ presences' = [c \in Contexts |-> presences'[c]]
      /\ \A c \in Contexts \ {beat[b].id} : presences'[c] = presences[c]
  BY <1>1, <1>2 DEF PresenceTypeOK, Report
<1> QED BY <1>1, <1>2, <1>4, <1>5, <1>6, <1>7 DEF Saves

\* An arrival is dropped, cleared to be told, or told.
Drops(b) ==
  /\ InHand(b) /\ OtherBeatsStay(b) /\ beat'[b] = NoBeat
  /\ UNCHANGED <<now, session, signedInAt, tab, minter, presences, sent, announced>>
Clears(b) ==
  /\ InHand(b) /\ beat[b].stage = "tabs" /\ OtherBeatsStay(b)
  /\ ~HasOtherOpenTab(beat[b].user, beat[b].id)
  /\ beat'[b] = [beat[b] EXCEPT !.stage = "tell"]
  /\ UNCHANGED <<now, session, signedInAt, tab, minter, presences, sent, announced>>
Tells(b) ==
  /\ InHand(b) /\ beat[b].stage = "tell" /\ OtherBeatsStay(b) /\ beat'[b] = NoBeat
  /\ announced' = Append(announced, [user |-> beat[b].user, id |-> beat[b].id,
                                     at |-> beat[b].at, told |-> now])
  /\ UNCHANGED <<now, session, signedInAt, tab, minter, presences, sent>>

\* An arrival is dropped, cleared or told.
LEMMA ArrivalStep ==
  ASSUME PresenceTypeOK, NEW b \in Beats, CheckTabs(b) \/ Announce(b)
  PROVE  Drops(b) \/ Clears(b) \/ Tells(b)
<1>1. InHand(b) /\ OtherBeatsStay(b)
  BY DEF CheckTabs, Announce, InHand, OtherBeatsStay, PresenceTypeOK
<1>2. CASE CheckTabs(b)
  BY <1>1, <1>2 DEF CheckTabs, PresenceTypeOK, Drops, Clears
<1>3. CASE Announce(b)
  BY <1>1, <1>3 DEF Announce, PresenceTypeOK, Drops, Tells
<1> QED BY <1>2, <1>3

\* The tab goes without a word, and the browser's account changes.
Quietly ==
  /\ \A t \in Tabs : tab'[t] = tab[t] \/ (tab[t].id = 0 /\ tab'[t] = [tab[t] EXCEPT !.open = FALSE])
  /\ tab' \in [Tabs -> [open : BOOLEAN, page : Pages, id : Contexts \cup {0}]]
  /\ session' \in Someone /\ signedInAt' \in [Visitors -> Times \cup {Never}]
  /\ UNCHANGED <<now, minter, presences, beat, sent, announced>>

\* The visitor signs in or out, or closes a tab that has no id.
LEMMA VisitorStep ==
  ASSUME PresenceTypeOK,
         \/ \E v \in Visitors : VisitorSignsIn(v)
         \/ VisitorSignsOut
         \/ /\ \E t \in Tabs : tab[t].id = 0 /\ tab' = [tab EXCEPT ![t].open = FALSE]
            /\ UNCHANGED <<now, session, signedInAt, minter, presences, beat, sent, announced>>
  PROVE  Quietly
<1>1. CASE VisitorSignsOut \/ \E v \in Visitors : VisitorSignsIn(v)
  BY <1>1 DEF VisitorSignsOut, VisitorSignsIn, PresenceTypeOK, Quietly, Someone
<1>2. ASSUME NEW t \in Tabs, tab[t].id = 0, tab' = [tab EXCEPT ![t].open = FALSE],
             UNCHANGED <<now, session, signedInAt, minter, presences, beat, sent, announced>>
      PROVE  Quietly
  <2> DEFINE Column == [open : BOOLEAN, page : Pages, id : Contexts \cup {0}]
  <2>1. tab \in [Tabs -> Column]
    BY DEF PresenceTypeOK
  <2>2. [tab[t] EXCEPT !.open = FALSE] \in Column
    BY <2>1
  <2> QED BY <1>2, <2>1, <2>2 DEF PresenceTypeOK, Quietly
<1> QED BY <1>1, <1>2

Sweeps(c) ==
  /\ presences[c] # NoRow /\ presences[c].seen < now - Retention
  /\ presences'[c] = NoRow /\ presences' = [d \in Contexts |-> presences'[d]]
  /\ \A d \in Contexts \ {c} : presences'[d] = presences[d]
  /\ UNCHANGED <<now, session, signedInAt, tab, minter, beat, sent, announced>>

\* All there is to know of a step.
Effect ==
  \/ \E t \in Tabs, p \in Pages, leaves \in BOOLEAN, b \in Beats, id \in Contexts :
       Sends(t, p, leaves, b, id)
  \/ Quietly
  \/ \E b \in Beats : Finds(b) \/ Refuses(b) \/ (\E saved : Saves(b, saved))
                      \/ Drops(b) \/ Clears(b) \/ Tells(b)
  \/ (\E c \in Contexts : Sweeps(c)) \/ PassTime

\* Every step is one of these.
LEMMA StepHasEffect ==
  ASSUME PresenceTypeOK, PresenceNext
  PROVE  Effect
<1>1. ASSUME NEW t \in Tabs, NEW p \in Pages, NEW leaves \in BOOLEAN, Send(t, p, leaves) PROVE Effect
  BY <1>1, SendSends DEF Effect
<1>2. ASSUME NEW t \in Tabs, OpenTab(t) \/ Navigate(t) \/ BeatAgain(t) \/ HidePage(t) PROVE Effect
  <2>1. tab[t].page \in Pages
    BY DEF PresenceTypeOK
  <2>2. CASE \E p \in Pages, leaves \in BOOLEAN : Send(t, p, leaves)
    BY <1>1, <2>2
  <2>3. CASE ~ \E p \in Pages, leaves \in BOOLEAN : Send(t, p, leaves)
    <3>1. /\ tab[t].id = 0 /\ tab' = [tab EXCEPT ![t].open = FALSE]
          /\ UNCHANGED <<now, session, signedInAt, minter, presences, beat, sent, announced>>
      BY <1>2, <2>1, <2>3 DEF OpenTab, Navigate, BeatAgain, HidePage
    <3> QED BY <3>1, VisitorStep DEF Effect
  <2> QED BY <2>2, <2>3
<1>3. CASE VisitorSignsOut \/ \E v \in Visitors : VisitorSignsIn(v)
  BY <1>3, VisitorStep DEF Effect
<1>4. ASSUME NEW b \in Beats, FindPresence(b) \/ SavePresence(b) \/ CheckTabs(b) \/ Announce(b)
      PROVE  Effect
  BY <1>4, FindingFinds, SavingSaves, ArrivalStep DEF Effect
<1>5. ASSUME NEW c \in Contexts, SweepPresence(c) PROVE Effect
  BY <1>5 DEF SweepPresence, Sweeps, PresenceTypeOK, Effect
<1> QED BY <1>2, <1>3, <1>4, <1>5 DEF PresenceNext, Effect

----------------------------------------------------------------------------
(* Types *)

\* What a step does to the beats: the one of b is now x.
BeatBecomes(b, x) == OtherBeatsStay(b) /\ beat'[b] = x

\* One beat changes at a time.
LEMMA BeatsTyped ==
  ASSUME PresenceTypeOK, NEW b \in Beats, NEW x \in Report \cup {NoBeat}, BeatBecomes(b, x)
  PROVE  beat' \in [Beats -> Report \cup {NoBeat}]
<1>1. beat' = [d \in Beats |-> beat'[d]]
  BY DEF BeatBecomes, OtherBeatsStay
<1>2. \A d \in Beats : beat'[d] \in Report \cup {NoBeat}
  BY DEF BeatBecomes, OtherBeatsStay, PresenceTypeOK
<1> QED BY <1>1, <1>2

\* How the pending beats change with one beat.
LEMMA PendingStep ==
  ASSUME PresenceTypeOK, ViewsFit, NEW b \in Beats, NEW x \in Report \cup {NoBeat}, BeatBecomes(b, x)
  PROVE  /\ IsFiniteSet(PendingBeats)'
         /\ Cardinality(PendingBeats) \in Nat /\ Cardinality(PendingBeats)' \in Nat
         /\ Pending(b)' <=> x # NoBeat /\ x.stage \in {"sent", "read"}
         /\ (Pending(b)' <=> Pending(b)) => Cardinality(PendingBeats)' = Cardinality(PendingBeats)
         /\ Pending(b)' /\ ~Pending(b) => Cardinality(PendingBeats)' = Cardinality(PendingBeats) + 1
         /\ ~Pending(b)' /\ Pending(b) => Cardinality(PendingBeats)' = Cardinality(PendingBeats) - 1
<1>1. IsFiniteSet(PendingBeats) /\ Cardinality(PendingBeats) \in Nat
  BY FS_CardinalityType DEF ViewsFit
<1>2. \A d \in Beats \ {b} : Pending(d)' <=> Pending(d)
  BY DEF BeatBecomes, OtherBeatsStay, Pending
<1>3. Pending(b)' <=> x # NoBeat /\ x.stage \in {"sent", "read"}
  BY DEF BeatBecomes, Pending
<1>4. CASE Pending(b)' <=> Pending(b)
  <2>1. PendingBeats' = PendingBeats
    BY <1>2, <1>4 DEF PendingBeats
  <2> QED BY <1>1, <1>3, <1>4, <2>1
<1>5. CASE Pending(b)' /\ ~Pending(b)
  <2>1. PendingBeats' = PendingBeats \cup {b} /\ b \notin PendingBeats
    BY <1>2, <1>5 DEF PendingBeats
  <2> QED BY <1>1, <1>3, <1>5, <2>1, FS_AddElement
<1>6. CASE ~Pending(b)' /\ Pending(b)
  <2>1. PendingBeats' = PendingBeats \ {b} /\ b \in PendingBeats
    BY <1>2, <1>6 DEF PendingBeats
  <2>2. IsFiniteSet(PendingBeats') /\ Cardinality(PendingBeats') = Cardinality(PendingBeats) - 1
    BY <1>1, <2>1, FS_RemoveElement
  <2>3. Cardinality(PendingBeats') \in Nat
    BY <2>2, FS_CardinalityType
  <2> QED BY <1>1, <1>3, <1>6, <2>2, <2>3
<1> QED BY <1>4, <1>5, <1>6

\* Nothing is open, recorded or under way yet.
LEMMA PresenceInvInit == PresenceInit => PresenceInv
<1> SUFFICES ASSUME PresenceInit PROVE PresenceInv
  OBVIOUS
<1>1. 0 \in Times /\ 0 \in 0..MaxBeats /\ 0 <= MaxContexts
  BY BoundsAreNat DEF Times
<1>2. PresenceTypeOK
  <2>1. PICK p \in Pages : tab = [t \in Tabs |-> [open |-> FALSE, page |-> p, id |-> 0]]
    BY DEF PresenceInit
  <2>2. tab \in [Tabs -> [open : BOOLEAN, page : Pages, id : Contexts \cup {0}]]
    BY <2>1
  <2> QED BY <1>1, <2>2 DEF PresenceInit, PresenceTypeOK
<1>3. PendingBeats = {}
  BY DEF PresenceInit, PendingBeats, Pending
<1>4. ViewsFit
  BY <1>3, FS_EmptySet DEF PresenceInit, ViewsFit
<1>5. \A t \in Tabs : tab[t].id = 0
  BY DEF PresenceInit
<1> QED BY <1>2, <1>4, <1>5 DEF PresenceInit, PresenceInv, BeatFits, TabFits

\* A beat that is sent adds one to the pending and to the count.
LEMMA SendKeepsInv ==
  ASSUME PresenceInv, NEW t \in Tabs, NEW p \in Pages, NEW leaves \in BOOLEAN, NEW b \in Beats,
         NEW id \in Contexts, Sends(t, p, leaves, b, id)
  PROVE  PresenceInv'
<1> DEFINE x == [id |-> id, user |-> session, path |-> p, leaves |-> leaves,
                 stage |-> "sent", at |-> now, existing |-> NoRow]
           n == Cardinality(PendingBeats)
<1>1. PresenceTypeOK /\ ViewsFit /\ now \in Times /\ sent \in 0..MaxBeats
  BY DEF PresenceInv, PresenceTypeOK
<1>2. x \in Report /\ x # NoBeat
  <2>1. x \in Report
    BY <1>1 DEF PresenceTypeOK, Report
  <2> QED BY <2>1, NoValueAssumption
<1>3. x.id = id /\ x.at = now /\ x.stage = "sent"
  OBVIOUS
<1>4. BeatBecomes(b, x) /\ ~Pending(b)
  BY DEF Sends, BeatBecomes, Pending
<1> HIDE DEF x
<1>5. beat' \in [Beats -> Report \cup {NoBeat}]
  BY <1>1, <1>2, <1>4, BeatsTyped
<1>6. /\ IsFiniteSet(PendingBeats)' /\ n \in Nat /\ Cardinality(PendingBeats)' = n + 1
  BY <1>1, <1>2, <1>3, <1>4, PendingStep
<1>7. /\ minter' \in Seq(Tabs) /\ Len(minter') <= MaxContexts /\ Len(minter) <= Len(minter')
      /\ \A i \in 1..Len(minter) : minter'[i] = minter[i]
      /\ id <= Len(minter') /\ minter'[id] = t /\ Len(minter) \in Nat /\ Len(minter') \in Nat
  <2>1. minter \in Seq(Tabs) /\ Len(minter) \in Nat /\ MaxContexts \in Nat /\ id \in 1..MaxContexts
    BY <1>1, BoundsAreNat DEF PresenceTypeOK, Contexts
  <2>2. CASE tab[t].id # 0
    BY <1>1, <2>1, <2>2 DEF Sends, PresenceInv, TabFits, PresenceTypeOK
  <2>3. CASE tab[t].id = 0
    <3>1. minter' = Append(minter, t) /\ id = Len(minter) + 1
      BY <2>3 DEF Sends
    <3> QED BY <2>1, <3>1
  <2> QED BY <2>2, <2>3
<1>8. tab' \in [Tabs -> [open : BOOLEAN, page : Pages, id : Contexts \cup {0}]]
  <2> DEFINE Column == [open : BOOLEAN, page : Pages, id : Contexts \cup {0}]
  <2>1. tab' = [d \in Tabs |-> tab'[d]] /\ tab \in [Tabs -> Column]
    BY <1>1 DEF Sends, PresenceTypeOK
  <2>2. tab'[t] \in Column
    <3>1. tab'[t] = [open |-> ~leaves, page |-> p, id |-> id]
      BY DEF Sends
    <3>2. \E o \in BOOLEAN : o = ~leaves
      BY Zenon
    <3> QED BY <3>1, <3>2
  <2>3. \A d \in Tabs \ {t} : tab'[d] = tab[d]
    BY DEF Sends
  <2> QED BY <2>1, <2>2, <2>3
<1>9. sent' \in 0..MaxBeats /\ sent' = sent + 1
  BY <1>1, BoundsAreNat DEF Sends
<1>10. PresenceTypeOK'
  BY <1>1, <1>5, <1>7, <1>8, <1>9 DEF PresenceTypeOK, Sends
<1>11. ViewsFit'
  <2>1. n <= sent /\ sent \in Nat
    BY <1>1 DEF ViewsFit
  <2>2. ASSUME NEW c \in Contexts, presences'[c] # NoRow
        PROVE  presences'[c].views + (n + 1) <= sent + 1
    <3>1. presences[c] \in PresenceRow /\ presences[c].views + n <= sent
      BY <1>1, <2>2 DEF Sends, PresenceTypeOK, ViewsFit
    <3> QED BY <1>6, <2>1, <2>2, <3>1 DEF Sends, PresenceRow
  <2>3. ASSUME NEW d \in Beats, beat'[d] # NoBeat, beat'[d].stage = "read", beat'[d].existing # NoRow
        PROVE  beat'[d].existing.views + (n + 1) <= sent + 1
    <3>1. d # b
      BY <1>3, <1>4, <2>3 DEF BeatBecomes
    <3>2. beat'[d] = beat[d] /\ beat[d] \in Report
      BY <1>1, <2>3, <3>1 DEF Sends, OtherBeatsStay, PresenceTypeOK
    <3>3. beat[d].existing \in PresenceRow /\ beat[d].existing.views + n <= sent
      BY <1>1, <2>3, <3>2 DEF Report, ViewsFit
    <3> QED BY <1>6, <2>1, <3>2, <3>3 DEF PresenceRow
  <2> QED BY <1>6, <1>9, <2>1, <2>2, <2>3 DEF ViewsFit
<1>12. ASSUME NEW d \in Beats PROVE BeatFits(d)'
  <2>1. CASE d = b
    BY <1>1, <1>3, <1>4, <1>7, <2>1 DEF BeatFits, BeatBecomes, Times, Sends
  <2>2. CASE d # b
    <3>1. beat'[d] = beat[d] /\ BeatFits(d) /\ now' = now
      BY <2>2 DEF Sends, OtherBeatsStay, PresenceInv
    <3>2. beat[d] # NoBeat => beat[d].id \in Nat
      BY <1>1 DEF PresenceTypeOK, Report, Contexts
    <3> QED BY <1>7, <3>1, <3>2 DEF BeatFits
  <2> QED BY <2>1, <2>2
<1>13. ASSUME NEW d \in Tabs PROVE TabFits(d)'
  <2>1. CASE d = t
    BY <1>7, <2>1 DEF TabFits, Sends
  <2>2. CASE d # t
    <3>1. tab'[d] = tab[d] /\ TabFits(d) /\ tab[d].id \in Contexts \cup {0}
      BY <1>1, <2>2 DEF Sends, PresenceInv, PresenceTypeOK
    <3> QED BY <1>7, <3>1 DEF TabFits, Contexts
  <2> QED BY <2>1, <2>2
<1>14. (\A c \in Contexts : presences[c] # NoRow => presences[c].seen <= now)'
  BY DEF Sends, PresenceInv
<1> QED BY <1>10, <1>11, <1>12, <1>13, <1>14 DEF PresenceInv

\* What is left to show of a step of one beat that is under way.
LEMMA BeatMoves ==
  ASSUME PresenceInv, NEW b \in Beats, NEW x \in Report \cup {NoBeat}, BeatBecomes(b, x),
         beat[b] # NoBeat,
         x # NoBeat => x.id = beat[b].id /\ x.at \in {beat[b].at, now},
         Pending(b)' => Pending(b),
         UNCHANGED <<now, session, signedInAt, minter, sent>>,
         presences' \in [Contexts -> PresenceRow \cup {NoRow}],
         \A c \in Contexts : presences'[c] # NoRow =>
           presences'[c].seen <= now /\ presences'[c].views + Cardinality(PendingBeats)' <= sent,
         x # NoBeat /\ x.stage = "read" /\ x.existing # NoRow =>
           x.existing.views + Cardinality(PendingBeats) <= sent,
         tab' \in [Tabs -> [open : BOOLEAN, page : Pages, id : Contexts \cup {0}]],
         \A t \in Tabs : TabFits(t)',
         announced' \in Seq([user : Someone, id : Contexts, at : Times, told : Times])
  PROVE  PresenceInv'
<1> DEFINE n == Cardinality(PendingBeats)
           m == Cardinality(PendingBeats)'
<1>1. PresenceTypeOK /\ ViewsFit /\ sent \in Nat /\ now \in Nat
  BY BoundsAreNat DEF PresenceInv, PresenceTypeOK, Times
<1>2. /\ IsFiniteSet(PendingBeats)' /\ n \in Nat /\ m \in Nat /\ m <= n
      /\ Pending(b)' => m = n
      /\ Pending(b)' <=> x # NoBeat /\ x.stage \in {"sent", "read"}
  BY <1>1, PendingStep
<1>3. PresenceTypeOK'
  <2>1. beat' \in [Beats -> Report \cup {NoBeat}]
    BY <1>1, BeatsTyped
  <2> QED BY <1>1, <2>1 DEF PresenceTypeOK
<1>4. ViewsFit'
  <2>1. n <= sent
    BY <1>1 DEF ViewsFit
  <2>2. ASSUME NEW d \in Beats, beat'[d] # NoBeat, beat'[d].stage = "read", beat'[d].existing # NoRow
        PROVE  beat'[d].existing.views + m <= sent
    <3>1. CASE d = b
      <4>1. beat'[d] = x
        BY <3>1 DEF BeatBecomes
      <4> QED BY <1>2, <2>2, <4>1
    <3>2. CASE d # b
      <4>1. beat'[d] = beat[d] /\ beat[d] \in Report
        BY <1>1, <2>2, <3>2 DEF BeatBecomes, OtherBeatsStay, PresenceTypeOK
      <4>2. beat[d].existing \in PresenceRow /\ beat[d].existing.views + n <= sent
        BY <1>1, <2>2, <4>1 DEF Report, ViewsFit
      <4> QED BY <1>1, <1>2, <4>1, <4>2 DEF PresenceRow
    <3> QED BY <3>1, <3>2
  <2> QED BY <1>1, <1>2, <2>1, <2>2 DEF ViewsFit
<1>5. ASSUME NEW d \in Beats PROVE BeatFits(d)'
  <2>1. CASE d = b
    <3>1. beat'[d] = x /\ BeatFits(b) /\ beat[b] \in Report
      BY <1>1, <2>1 DEF BeatBecomes, PresenceInv, PresenceTypeOK
    <3> QED BY <1>1, <3>1 DEF BeatFits
  <2>2. CASE d # b
    <3>1. beat'[d] = beat[d] /\ BeatFits(d)
      BY <2>2 DEF BeatBecomes, OtherBeatsStay, PresenceInv
    <3> QED BY <3>1 DEF BeatFits
  <2> QED BY <2>1, <2>2
<1> QED BY <1>3, <1>4, <1>5 DEF PresenceInv

\* A beat takes the row's views as it finds them.
LEMMA FindKeepsInv ==
  ASSUME PresenceInv, NEW b \in Beats, Finds(b)
  PROVE  PresenceInv'
<1> DEFINE row == presences[beat[b].id]
           x == [beat[b] EXCEPT !.stage = "read", !.at = now, !.existing = row]
<1>1. /\ PresenceTypeOK /\ now \in Times /\ beat[b] # NoBeat /\ beat[b] \in Report
      /\ row \in PresenceRow \cup {NoRow} /\ beat[b].id \in Contexts
  BY DEF PresenceInv, PresenceTypeOK, Finds, Pending, Report
<1>2. /\ x \in Report /\ x # NoBeat /\ x.id = beat[b].id /\ x.at = now /\ x.existing = row
      /\ x.stage = "read"
  <2> HIDE DEF row
  <2>1. /\ x \in Report /\ x.id = beat[b].id /\ x.at = now /\ x.existing = row
        /\ x.stage = "read"
    BY <1>1 DEF Report
  <2> QED BY <2>1, NoValueAssumption
<1>3. BeatBecomes(b, x) /\ Pending(b) /\ beat'[b] = x
  BY DEF Finds, BeatBecomes
<1> HIDE DEF x
<1>4. Pending(b)'
  BY <1>2, <1>3 DEF Pending
<1>5. ViewsFit
  BY DEF PresenceInv
<1>6. Cardinality(PendingBeats)' = Cardinality(PendingBeats)
  BY <1>1, <1>2, <1>3, <1>4, <1>5, PendingStep
<1>7. UNCHANGED <<now, session, signedInAt, tab, minter, presences, sent, announced>>
  BY DEF Finds
<1>8. \A c \in Contexts : presences'[c] # NoRow =>
        presences'[c].seen <= now /\ presences'[c].views + Cardinality(PendingBeats)' <= sent
  BY <1>6, <1>7, <1>5 DEF PresenceInv, ViewsFit
<1>9. x.existing # NoRow => x.existing.views + Cardinality(PendingBeats) <= sent
  BY <1>1, <1>2, <1>5 DEF ViewsFit
<1>10. \A t \in Tabs : TabFits(t)'
  BY <1>7 DEF PresenceInv, TabFits
<1> QED BY <1>1, <1>2, <1>3, <1>7, <1>8, <1>9, <1>10, BeatMoves DEF PresenceTypeOK

\* A beat that is over takes nothing with it.
LEMMA EndKeepsInv ==
  ASSUME PresenceInv, NEW b \in Beats, Refuses(b) \/ Drops(b) \/ Tells(b)
  PROVE  PresenceInv'
<1>1. /\ PresenceTypeOK /\ now \in Times /\ beat[b] # NoBeat /\ beat[b] \in Report
      /\ beat[b].id \in Contexts /\ sent \in Nat
  BY BoundsAreNat DEF PresenceInv, PresenceTypeOK, Refuses, Drops, Tells, Pending, InHand, Report
<1>2. BeatBecomes(b, NoBeat)
  BY DEF Refuses, Drops, Tells, BeatBecomes
<1>3. ~Pending(b)'
  BY <1>2 DEF Pending, BeatBecomes
<1>4. ViewsFit
  BY DEF PresenceInv
<1>5. /\ Cardinality(PendingBeats) \in Nat /\ Cardinality(PendingBeats)' \in Nat
      /\ Cardinality(PendingBeats)' <= Cardinality(PendingBeats)
  BY <1>1, <1>2, <1>3, <1>4, PendingStep
<1>6. UNCHANGED <<now, session, signedInAt, minter, presences, sent>>
  BY DEF Refuses, Drops, Tells
<1>7. ASSUME NEW c \in Contexts, presences'[c] # NoRow
      PROVE  presences'[c].seen <= now /\ presences'[c].views + Cardinality(PendingBeats)' <= sent
  <2>1. presences[c] \in PresenceRow /\ presences'[c] = presences[c]
    BY <1>1, <1>6, <1>7 DEF PresenceTypeOK
  <2>2. presences[c].views + Cardinality(PendingBeats) <= sent /\ presences[c].seen <= now
    BY <1>4, <1>7, <2>1 DEF ViewsFit, PresenceInv
  <2> QED BY <1>1, <1>5, <2>1, <2>2 DEF PresenceRow
<1>8. /\ tab' \in [Tabs -> [open : BOOLEAN, page : Pages, id : Contexts \cup {0}]]
      /\ \A t \in Tabs : TabFits(t)'
  <2>1. CASE tab' = tab
    BY <1>1, <1>6, <2>1 DEF PresenceTypeOK, PresenceInv, TabFits
  <2>2. CASE tab' # tab
    <3> DEFINE Column == [open : BOOLEAN, page : Pages, id : Contexts \cup {0}]
               t == minter[beat[b].id]
    <3>1. tab' = [tab EXCEPT ![t].id = 0] /\ tab \in [Tabs -> Column]
      BY <1>1, <2>2 DEF Refuses, Drops, Tells, PresenceTypeOK
    <3>2. BeatFits(b)
      BY DEF PresenceInv
    <3>3. minter \in Seq(Tabs) /\ beat[b].id \in 1..Len(minter)
      BY <1>1, <3>2 DEF BeatFits, PresenceTypeOK, Contexts
    <3>4. t \in Tabs
      BY <3>3
    <3> HIDE DEF t
    <3>5. [tab[t] EXCEPT !.id = 0] \in Column /\ [tab[t] EXCEPT !.id = 0].id = 0
      BY <3>1, <3>4
    <3>6. tab' = [tab EXCEPT ![t] = [tab[t] EXCEPT !.id = 0]]
      BY <3>1
    <3>7. tab' \in [Tabs -> Column]
      BY <3>1, <3>5, <3>6
    <3>8. \A d \in Tabs : tab'[d].id = 0 \/ tab'[d] = tab[d]
      BY <3>1, <3>4, <3>5, <3>6
    <3> QED BY <1>6, <3>7, <3>8 DEF PresenceInv, TabFits
  <2> QED BY <2>1, <2>2
<1>9. announced' \in Seq([user : Someone, id : Contexts, at : Times, told : Times])
  <2> DEFINE Arrival == [user : Someone, id : Contexts, at : Times, told : Times]
             e == [user |-> beat[b].user, id |-> beat[b].id, at |-> beat[b].at, told |-> now]
  <2>1. announced \in Seq(Arrival) /\ e \in Arrival
    BY <1>1 DEF PresenceTypeOK, Report
  <2>2. announced' = announced \/ announced' = Append(announced, e)
    BY DEF Refuses, Drops, Tells
  <2> HIDE DEF e, Arrival
  <2>3. announced' \in Seq(Arrival)
    BY <2>1, <2>2
  <2> QED BY <2>3 DEF Arrival
<1> QED BY <1>1, <1>2, <1>3, <1>6, <1>7, <1>8, <1>9, BeatMoves DEF PresenceTypeOK

\* An arrival that is cleared is the same beat.
LEMMA ClearKeepsInv ==
  ASSUME PresenceInv, NEW b \in Beats, Clears(b)
  PROVE  PresenceInv'
<1> DEFINE x == [beat[b] EXCEPT !.stage = "tell"]
<1>1. /\ PresenceTypeOK /\ beat[b] # NoBeat /\ beat[b] \in Report /\ ViewsFit
      /\ beat[b].at \in Times /\ beat[b].existing \in PresenceRow \cup {NoRow}
  BY DEF PresenceInv, PresenceTypeOK, Clears, InHand, Report
<1>2. x \in Report /\ x.id = beat[b].id /\ x.at = beat[b].at /\ x.stage = "tell"
  BY <1>1 DEF Report
<1>3. BeatBecomes(b, x) /\ ~Pending(b) /\ beat'[b] = x
  BY DEF Clears, BeatBecomes, Pending
<1> HIDE DEF x
<1>4. ~Pending(b)'
  BY <1>2, <1>3 DEF Pending
<1>5. Cardinality(PendingBeats)' = Cardinality(PendingBeats)
  BY <1>1, <1>2, <1>3, <1>4, PendingStep
<1>6. UNCHANGED <<now, session, signedInAt, tab, minter, presences, sent, announced>>
  BY DEF Clears
<1>7. \A c \in Contexts : presences'[c] # NoRow =>
        presences'[c].seen <= now /\ presences'[c].views + Cardinality(PendingBeats)' <= sent
  BY <1>1, <1>5, <1>6 DEF PresenceInv, ViewsFit
<1>8. \A t \in Tabs : TabFits(t)'
  BY <1>6 DEF PresenceInv, TabFits
<1> QED BY <1>1, <1>2, <1>3, <1>4, <1>6, <1>7, <1>8, BeatMoves DEF PresenceTypeOK

\* The row a beat saves is one: of its own visitor, at its own time, gone if it leaves.
LEMMA SaveMeans ==
  ASSUME PresenceInv, NEW b \in Beats, NEW saved, Saves(b, saved)
  PROVE  /\ saved \in PresenceRow /\ saved # NoRow
         /\ saved.views <= (sent - Cardinality(PendingBeats)) + 1
         /\ saved.user = beat[b].user /\ saved.seen = beat[b].at /\ saved.gone = beat[b].leaves
<1> DEFINE call == beat[b]
           n == Cardinality(PendingBeats)
<1>1. /\ call \in Report /\ ViewsFit /\ sent \in 0..MaxBeats /\ Pending(b) /\ call # NoBeat
      /\ call.stage = "read"
  BY DEF PresenceInv, PresenceTypeOK, Saves, Pending
<1>2. b \in PendingBeats /\ IsFiniteSet(PendingBeats) /\ n <= sent
  BY <1>1 DEF PendingBeats, ViewsFit
<1>3. n \in Nat /\ n # 0
  BY <1>2, FS_CardinalityType, FS_EmptySet
<1>4. sent - n \in 0..MaxBeats - 1
  BY <1>1, <1>2, <1>3, BoundsAreNat
<1>5. call.existing # NoRow => call.existing.views <= sent - n
  <2> SUFFICES ASSUME call.existing # NoRow PROVE call.existing.views <= sent - n
    OBVIOUS
  <2>1. call.existing.views + n <= sent /\ call.existing \in PresenceRow
    BY <1>1 DEF ViewsFit, Report
  <2> QED BY <1>1, <1>3, <2>1 DEF PresenceRow
<1>6. saved \in RowAfter(call, Recorded(call))
  BY DEF Saves
<1> HIDE DEF n, call
<1>7. /\ saved \in PresenceRow /\ saved # NoRow /\ saved.views <= (sent - n) + 1
       /\ saved.user = call.user /\ saved.seen = call.at /\ saved.gone = call.leaves
  BY <1>1, <1>4, <1>5, <1>6, SavedRow
<1> QED BY <1>7 DEF n, call

\* A beat that saves leaves the pending and adds one view at most.
LEMMA SaveKeepsInv ==
  ASSUME PresenceInv, NEW b \in Beats, NEW saved, Saves(b, saved)
  PROVE  PresenceInv'
<1> DEFINE call == beat[b]
           n == Cardinality(PendingBeats)
<1>1. /\ PresenceTypeOK /\ call # NoBeat /\ call \in Report /\ ViewsFit /\ call.id \in Contexts
      /\ call.at \in Times /\ now \in Times /\ sent \in 0..MaxBeats /\ Pending(b)
      /\ call.stage = "read" /\ call.existing \in PresenceRow \cup {NoRow}
  BY DEF PresenceInv, PresenceTypeOK, Saves, Pending, Report
<1>2. PICK x \in Report \cup {NoBeat} :
        /\ beat'[b] = x
        /\ x # NoBeat => x.id = call.id /\ x.at = call.at /\ x.stage \in {"tabs", "tell"}
  <2>1. \A stage \in {"tabs", "tell"} :
          /\ [call EXCEPT !.stage = stage] \in Report
          /\ [call EXCEPT !.stage = stage].id = call.id
          /\ [call EXCEPT !.stage = stage].at = call.at
          /\ [call EXCEPT !.stage = stage].stage = stage
    BY <1>1 DEF Report
  <2>2. \/ beat'[b] = NoBeat
        \/ \E stage \in {"tabs", "tell"} : beat'[b] = [call EXCEPT !.stage = stage]
    BY DEF Saves
  <2> QED BY <2>1, <2>2
<1>3. BeatBecomes(b, x)
  BY <1>2 DEF Saves, BeatBecomes
<1>4. ~Pending(b)'
  BY <1>2 DEF Pending
<1>5. /\ n \in Nat /\ Cardinality(PendingBeats)' = n - 1 /\ Cardinality(PendingBeats)' \in Nat
      /\ n <= sent
  BY <1>1, <1>3, <1>4, PendingStep DEF ViewsFit
<1>6. UNCHANGED <<now, session, signedInAt, tab, minter, sent, announced>>
  BY DEF Saves
<1>7. saved \in PresenceRow /\ saved # NoRow /\ saved.views <= (sent - n) + 1 /\ saved.seen = call.at
  BY SaveMeans
<1>8. /\ presences'[call.id] = saved
      /\ presences' = [c \in Contexts |-> presences'[c]]
      /\ \A c \in Contexts \ {call.id} : presences'[c] = presences[c]
  BY DEF Saves
<1>9. presences' \in [Contexts -> PresenceRow \cup {NoRow}]
  BY <1>1, <1>7, <1>8 DEF PresenceTypeOK
<1>10. ASSUME NEW c \in Contexts, presences'[c] # NoRow
       PROVE presences'[c].seen <= now /\ presences'[c].views + Cardinality(PendingBeats)' <= sent
  <2>1. CASE c = call.id
    <3>1. call.at <= now
      BY <1>1 DEF PresenceInv, BeatFits
    <3> QED BY <1>1, <1>5, <1>7, <1>8, <2>1, <3>1 DEF PresenceRow
  <2>2. CASE c # call.id
    <3>1. presences'[c] = presences[c] /\ presences[c] \in PresenceRow
      BY <1>1, <1>8, <1>10, <2>2 DEF PresenceTypeOK
    <3>2. presences[c].views + n <= sent /\ presences[c].seen <= now
      BY <1>1, <1>10, <3>1 DEF ViewsFit, PresenceInv
    <3> QED BY <1>1, <1>5, <3>1, <3>2 DEF PresenceRow
  <2> QED BY <2>1, <2>2
<1>11. \A t \in Tabs : TabFits(t)'
  BY <1>6 DEF PresenceInv, TabFits
<1>12. x # NoBeat => x.stage # "read"
  BY <1>2
<1> QED BY <1>1, <1>2, <1>3, <1>4, <1>6, <1>9, <1>10, <1>11, <1>12, BeatMoves DEF PresenceTypeOK

\* The browser, the sweep and the clock leave the beats alone.
LEMMA OtherKeepsInv ==
  ASSUME PresenceInv, Quietly \/ (\E c \in Contexts : Sweeps(c)) \/ PassTime
         \/ UNCHANGED presenceVars
  PROVE  PresenceInv'
<1>1. PresenceTypeOK /\ ViewsFit /\ now \in Nat /\ now' \in Times /\ now <= now' /\ now' \in Nat
  BY BoundsAreNat DEF PresenceInv, PresenceTypeOK, Times, Quietly, Sweeps, PassTime, presenceVars
<1>2. UNCHANGED <<minter, beat, sent, announced>>
  BY DEF Quietly, Sweeps, PassTime, presenceVars
<1>3. ASSUME NEW c \in Contexts PROVE presences'[c] = presences[c] \/ presences'[c] = NoRow
  BY DEF Quietly, Sweeps, PassTime, presenceVars
<1>4. presences' \in [Contexts -> PresenceRow \cup {NoRow}]
  <2>1. presences' = [c \in Contexts |-> presences'[c]]
    BY <1>1 DEF Quietly, Sweeps, PassTime, presenceVars, PresenceTypeOK
  <2> QED BY <1>1, <1>3, <2>1 DEF PresenceTypeOK
<1>5. /\ session' \in Someone /\ signedInAt' \in [Visitors -> Times \cup {Never}]
      /\ tab' \in [Tabs -> [open : BOOLEAN, page : Pages, id : Contexts \cup {0}]]
  BY <1>1 DEF Quietly, Sweeps, PassTime, presenceVars, PresenceTypeOK
<1>6. PresenceTypeOK'
  BY <1>1, <1>2, <1>4, <1>5 DEF PresenceTypeOK
<1>7. PendingBeats' = PendingBeats
  BY <1>2 DEF PendingBeats, Pending
<1>8. ViewsFit'
  BY <1>1, <1>2, <1>3, <1>7 DEF ViewsFit
<1>9. ASSUME NEW d \in Beats PROVE BeatFits(d)'
  <2>1. BeatFits(d) /\ beat[d] \in Report \cup {NoBeat}
    BY <1>1 DEF PresenceInv, PresenceTypeOK
  <2>2. CASE PassTime
    <3>1. beat[d] # NoBeat => beat[d].at = now
      BY <2>2 DEF PassTime
    <3>2. now' = now + 1
      BY <2>2 DEF PassTime
    <3> QED BY <1>1, <1>2, <2>1, <3>1, <3>2 DEF BeatFits
  <2>3. CASE ~PassTime
    BY <1>2, <2>1, <2>3 DEF BeatFits, Quietly, Sweeps, presenceVars
  <2> QED BY <2>2, <2>3
<1>10. ASSUME NEW t \in Tabs PROVE TabFits(t)'
  <2>1. tab'[t] = tab[t] \/ (tab[t].id = 0 /\ tab'[t] = [tab[t] EXCEPT !.open = FALSE])
    BY DEF Quietly, Sweeps, PassTime, presenceVars
  <2>2. tab'[t].id = tab[t].id
    BY <1>1, <2>1 DEF PresenceTypeOK
  <2> QED BY <1>2, <2>2 DEF PresenceInv, TabFits
<1>11. ASSUME NEW c \in Contexts, presences'[c] # NoRow PROVE presences'[c].seen <= now'
  <2>1. presences'[c] = presences[c] /\ presences[c] \in PresenceRow /\ presences[c].seen <= now
    BY <1>1, <1>3, <1>11 DEF PresenceInv, PresenceTypeOK
  <2> QED BY <1>1, <2>1 DEF PresenceRow, Times
<1> QED BY <1>6, <1>8, <1>9, <1>10, <1>11 DEF PresenceInv

\* So every step keeps it.
LEMMA PresenceInvStep ==
  ASSUME PresenceInv, [PresenceNext]_presenceVars
  PROVE  PresenceInv'
<1>1. Effect \/ UNCHANGED presenceVars
  BY StepHasEffect DEF PresenceInv
<1>2. ASSUME NEW t \in Tabs, NEW p \in Pages, NEW leaves \in BOOLEAN, NEW b \in Beats,
             NEW id \in Contexts, Sends(t, p, leaves, b, id)
      PROVE  PresenceInv'
  BY <1>2, SendKeepsInv
<1>3. ASSUME NEW b \in Beats,
             Finds(b) \/ Refuses(b) \/ (\E saved : Saves(b, saved)) \/ Drops(b) \/ Clears(b) \/ Tells(b)
      PROVE  PresenceInv'
  BY <1>3, FindKeepsInv, EndKeepsInv, SaveKeepsInv, ClearKeepsInv
<1> QED BY <1>1, <1>2, <1>3, OtherKeepsInv DEF Effect

\* The columns hold what their types allow: above all a row's view counter, which grows
\* with the beats of its context and never past the beats that were sent.
THEOREM PresenceTypesHold == PresenceSpec => []PresenceTypeOK
<1>1. PresenceInv => PresenceTypeOK
  BY DEF PresenceInv
<1> QED BY <1>1, PresenceInvInit, PresenceInvStep, PTL DEF PresenceSpec

----------------------------------------------------------------------------
(* One beat of a tab at a time *)

\* A tab has one beat unanswered, which says what the tab is.
Alone(b, d) == b # d /\ Pending(b) /\ Pending(d) => minter[beat[b].id] # minter[beat[d].id]
TellsTab(b) ==
  LET t == minter[beat[b].id]
  IN Pending(b) => tab[t].id = beat[b].id /\ tab[t].open = ~beat[b].leaves
\* What a beat has read still stands, or has been swept.
ReadStands(b) ==
  LET call == beat[b]
  IN Pending(b) /\ call.stage = "read" =>
       /\ presences[call.id] \in {call.existing, NoRow}
       /\ call.existing # NoRow =>
            MayClaim(call.existing.user, call.user) /\ call.existing.seen <= call.at
\* A tab that has closed has said so, or will.
LeaveTold(t) ==
  LET row == presences[tab[t].id]
  IN ~tab[t].open /\ tab[t].id # 0 =>
       \/ row = NoRow \/ row.user # NoOne \/ row.gone
       \/ \E b \in Beats : Pending(b) /\ beat[b].leaves /\ beat[b].id = tab[t].id
TurnInv ==
  /\ \A b, d \in Beats : Alone(b, d)
  /\ \A b \in Beats : TellsTab(b) /\ ReadStands(b)
  /\ \A t \in Tabs : LeaveTold(t)


\* Where a beat is under way, it is of a tab.
LEMMA BeatIsOfATab ==
  ASSUME PresenceInv, NEW b \in Beats, beat[b] # NoBeat
  PROVE  /\ beat[b] \in Report /\ beat[b].id \in Contexts /\ beat[b].id \in 1..Len(minter)
         /\ minter[beat[b].id] \in Tabs /\ beat[b].leaves \in BOOLEAN
         /\ beat[b].at \in Nat /\ now \in Nat /\ beat[b].at <= now /\ now <= beat[b].at + 1
<1>1. beat[b] \in Report /\ minter \in Seq(Tabs) /\ now \in Nat
  BY BoundsAreNat DEF PresenceInv, PresenceTypeOK, Times
<1>2. BeatFits(b)
  BY DEF PresenceInv
<1>3. beat[b].id \in 1..Len(minter)
  BY <1>1, <1>2 DEF BeatFits, Report, Contexts
<1>4. minter[beat[b].id] \in Tabs
  BY <1>1, <1>3
<1> QED BY <1>1, <1>2, <1>3, <1>4, BoundsAreNat DEF BeatFits, Report, Times

\* How a closed tab stands: the step keeps the tab, and its row unless it makes it harmless.
LEMMA LeaveStaysTold ==
  ASSUME PresenceTypeOK, NEW t \in Tabs, LeaveTold(t),
         tab'[t].id = tab[t].id, tab'[t].open = tab[t].open,
         \/ presences'[tab[t].id] = presences[tab[t].id]
         \/ presences'[tab[t].id] = NoRow,
         \A b \in Beats : Pending(b) /\ beat[b].leaves /\ beat[b].id = tab[t].id =>
           \/ (Pending(b)' /\ beat'[b].leaves /\ beat'[b].id = beat[b].id)
           \/ (presences[tab[t].id] # NoRow /\ presences[tab[t].id].user # NoOne)
  PROVE  LeaveTold(t)'
BY DEF LeaveTold

\* Steps that send nothing, read nothing and save nothing.
LEMMA OthersKeepTurn ==
  ASSUME PresenceInv, TurnInv, UNCHANGED minter,
         \A b \in Beats : Pending(b)' <=> Pending(b),
         \A b \in Beats : Pending(b) => beat'[b] = beat[b],
         \A c \in Contexts : presences'[c] = presences[c] \/ presences'[c] = NoRow,
         \A t \in Tabs : tab'[t] = tab[t]
                         \/ (tab[t].id = 0 /\ tab'[t] = [tab[t] EXCEPT !.open = FALSE])
  PROVE  TurnInv'
<1>1. PresenceTypeOK
  BY DEF PresenceInv
<1>2. ASSUME NEW b \in Beats, NEW d \in Beats PROVE Alone(b, d)'
  BY DEF TurnInv, Alone
<1>3. ASSUME NEW t \in Tabs PROVE tab'[t].id = tab[t].id /\ (tab[t].id # 0 => tab'[t] = tab[t])
  <2>1. tab[t] \in [open : BOOLEAN, page : Pages, id : Contexts \cup {0}]
    BY <1>1 DEF PresenceTypeOK
  <2> QED BY <2>1
<1>4. ASSUME NEW b \in Beats, Pending(b) PROVE TellsTab(b)' /\ ReadStands(b)'
  <2>1. beat'[b] = beat[b] /\ beat[b] # NoBeat /\ TellsTab(b) /\ ReadStands(b)
    BY <1>4 DEF TurnInv, Pending
  <2>2. minter[beat[b].id] \in Tabs /\ beat[b].id \in Contexts
    BY <2>1, BeatIsOfATab
  <2>3. tab[minter[beat[b].id]].id # 0
    BY <1>4, <2>1, <2>2 DEF TellsTab, Contexts
  <2> QED BY <1>3, <1>4, <2>1, <2>2, <2>3 DEF TellsTab, ReadStands
<1>5. ASSUME NEW b \in Beats PROVE TellsTab(b)' /\ ReadStands(b)'
  <2>1. CASE Pending(b)
    BY <1>4, <2>1
  <2>2. CASE ~Pending(b)
    BY <2>2 DEF TellsTab, ReadStands
  <2> QED BY <2>1, <2>2
<1>6. ASSUME NEW t \in Tabs PROVE LeaveTold(t)'
  <2>1. CASE tab[t].id = 0
    BY <1>3, <2>1 DEF LeaveTold
  <2>2. CASE tab[t].id # 0
    <3>1. tab'[t] = tab[t] /\ tab[t].id \in Contexts /\ LeaveTold(t)
      BY <1>1, <1>3, <2>2 DEF PresenceTypeOK, TurnInv
    <3> QED BY <1>1, <3>1, LeaveStaysTold
  <2> QED BY <2>1, <2>2
<1> QED BY <1>2, <1>5, <1>6 DEF TurnInv

\* The beat of a tab that has none is the only one, and says what the tab is now.
LEMMA SendKeepsTurn ==
  ASSUME OneBeatAtATime, PresenceInv, TurnInv, NEW t \in Tabs, NEW p \in Pages,
         NEW leaves \in BOOLEAN, NEW b \in Beats, NEW id \in Contexts, Sends(t, p, leaves, b, id)
  PROVE  TurnInv'
<1> DEFINE x == [id |-> id, user |-> session, path |-> p, leaves |-> leaves,
                 stage |-> "sent", at |-> now, existing |-> NoRow]
<1>1. /\ PresenceTypeOK /\ PresenceInv' /\ minter \in Seq(Tabs) /\ ~Unanswered(t)
      /\ tab'[t].id = id /\ tab'[t].open = ~leaves /\ \A d \in Tabs \ {t} : tab'[d] = tab[d]
      /\ UNCHANGED presences
  <2>1. tab'[t] = [open |-> ~leaves, page |-> p, id |-> id] /\ UNCHANGED presences
    BY DEF Sends
  <2>2. PICK o \in BOOLEAN : o = ~leaves
    BY Zenon
  <2>3. tab'[t].id = id /\ tab'[t].open = o
    BY <2>1, <2>2
  <2>4. ~Unanswered(t) /\ \A d \in Tabs \ {t} : tab'[d] = tab[d]
    BY DEF Sends
  <2> QED BY <2>1, <2>2, <2>3, <2>4, SendKeepsInv DEF PresenceInv, PresenceTypeOK
<1>2. beat'[b] = x /\ ~Pending(b) /\ \A d \in Beats \ {b} : beat'[d] = beat[d]
  BY DEF Sends, OtherBeatsStay, Pending
<1>3. x.id = id /\ x.leaves = leaves /\ x.stage = "sent"
  OBVIOUS
<1> HIDE DEF x
<1>4. minter'[id] = t
  <2>1. TabFits(t)'
    BY <1>1 DEF PresenceInv
  <2> QED BY <1>1, <2>1 DEF TabFits, Contexts
<1>5. \A d \in Beats \ {b} : Pending(d)' <=> Pending(d)
  BY <1>2 DEF Pending
<1>6. ASSUME NEW d \in Beats \ {b}, Pending(d)
      PROVE  /\ beat'[d] = beat[d] /\ minter'[beat[d].id] = minter[beat[d].id]
             /\ minter[beat[d].id] \in Tabs \ {t} /\ beat[d].id \in Contexts
  <2>1. beat[d] # NoBeat
    BY <1>6 DEF Pending
  <2>2. beat[d].id \in 1..Len(minter) /\ minter[beat[d].id] \in Tabs /\ beat[d].id \in Contexts
    BY <2>1, BeatIsOfATab
  <2>3. minter'[beat[d].id] = minter[beat[d].id]
    BY <1>1, <2>2 DEF Sends
  <2>4. minter[beat[d].id] # t
    BY <1>1, <1>6 DEF Unanswered, Pending
  <2> QED BY <1>2, <2>2, <2>3, <2>4
<1>7. ASSUME NEW c \in Beats, NEW d \in Beats PROVE Alone(c, d)'
  BY <1>2, <1>3, <1>4, <1>5, <1>6 DEF Alone, TurnInv
<1>8. ASSUME NEW d \in Beats PROVE TellsTab(d)' /\ ReadStands(d)'
  <2>1. CASE d = b
    BY <1>1, <1>2, <1>3, <1>4, <2>1 DEF TellsTab, ReadStands
  <2>2. CASE d # b /\ Pending(d)
    <3>1. TellsTab(d) /\ ReadStands(d)
      BY DEF TurnInv
    <3>2. tab'[minter[beat[d].id]] = tab[minter[beat[d].id]]
      BY <1>1, <1>6, <2>2
    <3> QED BY <1>1, <1>6, <2>2, <3>1, <3>2 DEF TellsTab, ReadStands
  <2>3. CASE d # b /\ ~Pending(d)
    BY <1>5, <2>3 DEF TellsTab, ReadStands
  <2> QED BY <2>1, <2>2, <2>3
<1>9. Pending(b)'
  BY <1>2, <1>3, NoValueAssumption, <1>1 DEF Pending, PresenceInv, PresenceTypeOK, Sends, Report
<1>10. ASSUME NEW d \in Tabs PROVE LeaveTold(d)'
  <2>1. CASE d = t
    <3>1. leaves => Pending(b)' /\ beat'[b].leaves /\ beat'[b].id = tab'[t].id
      BY <1>1, <1>2, <1>3, <1>9
    <3> QED BY <1>1, <2>1, <3>1 DEF LeaveTold
  <2>2. CASE d # t
    <3>1. \A c \in Beats : Pending(c) => Pending(c)' /\ beat'[c] = beat[c]
      BY <1>2, <1>5
    <3> QED BY <1>1, <2>2, <3>1, LeaveStaysTold DEF TurnInv
  <2> QED BY <2>1, <2>2
<1> QED BY <1>7, <1>8, <1>10 DEF TurnInv

\* What has just been read stands.
LEMMA FindKeepsTurn ==
  ASSUME PresenceInv, TurnInv, NEW b \in Beats, Finds(b)
  PROVE  TurnInv'
<1> DEFINE row == presences[beat[b].id]
           x == [beat[b] EXCEPT !.stage = "read", !.at = now, !.existing = row]
<1>1. /\ PresenceTypeOK /\ now \in Times /\ beat[b] # NoBeat /\ beat[b] \in Report /\ Pending(b)
      /\ row \in PresenceRow \cup {NoRow} /\ beat[b].id \in Contexts
  BY DEF PresenceInv, PresenceTypeOK, Finds, Pending, Report
<1>2. /\ x.id = beat[b].id /\ x.at = now /\ x.existing = row /\ x.leaves = beat[b].leaves
      /\ x.stage = "read" /\ x.user = beat[b].user /\ x \in Report /\ x # NoBeat
  <2> HIDE DEF row
  <2>1. /\ x.id = beat[b].id /\ x.at = now /\ x.existing = row /\ x.leaves = beat[b].leaves
        /\ x.stage = "read" /\ x.user = beat[b].user /\ x \in Report
    BY <1>1 DEF Report
  <2> QED BY <2>1, NoValueAssumption
<1>3. beat'[b] = x /\ \A d \in Beats \ {b} : beat'[d] = beat[d]
  BY DEF Finds, OtherBeatsStay
<1>4. UNCHANGED <<now, tab, minter, presences>>
  BY DEF Finds
<1>5. (row # NoRow => MayClaim(row.user, beat[b].user)) /\ (row # NoRow => row.seen <= now)
  BY <1>1 DEF Finds, PresenceInv
<1> HIDE DEF x
<1>6. \A d \in Beats : /\ Pending(d)' <=> Pending(d)
                       /\ Pending(d) => beat'[d].id = beat[d].id /\ beat'[d].leaves = beat[d].leaves
  BY <1>1, <1>2, <1>3 DEF Pending
<1>7. ASSUME NEW c \in Beats, NEW d \in Beats PROVE Alone(c, d)'
  BY <1>4, <1>6 DEF TurnInv, Alone
<1>8. ASSUME NEW d \in Beats PROVE TellsTab(d)'
  BY <1>4, <1>6 DEF TurnInv, TellsTab
<1>9. ASSUME NEW d \in Beats PROVE ReadStands(d)'
  <2>1. CASE d = b
    BY <1>2, <1>3, <1>4, <1>5, <2>1 DEF ReadStands
  <2>2. CASE d # b
    BY <1>3, <1>4, <1>6, <2>2 DEF TurnInv, ReadStands
  <2> QED BY <2>1, <2>2
<1>10. ASSUME NEW t \in Tabs PROVE LeaveTold(t)'
  BY <1>1, <1>4, <1>6, LeaveStaysTold DEF TurnInv
<1> QED BY <1>7, <1>8, <1>9, <1>10 DEF TurnInv

\* A tab that is refused forgets its id, and its closing concerns a row with an owner.
LEMMA RefusalKeepsTurn ==
  ASSUME PresenceInv, TurnInv, NEW b \in Beats, Refuses(b)
  PROVE  TurnInv'
<1> DEFINE Column == [open : BOOLEAN, page : Pages, id : Contexts \cup {0}]
           row == presences[beat[b].id]
<1>1. PICK t \in Tabs : t = minter[beat[b].id]
  BY BeatIsOfATab DEF Refuses, Pending
<1>2. /\ PresenceTypeOK /\ tab \in [Tabs -> Column] /\ Pending(b) /\ TellsTab(b)
      /\ beat[b].leaves \in BOOLEAN
  BY BeatIsOfATab DEF PresenceInv, PresenceTypeOK, Refuses, TurnInv, Pending
<1>3. ~Pending(b)' /\ \A d \in Beats \ {b} : beat'[d] = beat[d] /\ (Pending(d)' <=> Pending(d))
  BY DEF Refuses, OtherBeatsStay, Pending
<1>4. UNCHANGED <<now, minter, presences>> /\ row # NoRow /\ row.user # NoOne
  BY DEF Refuses, MayClaim
<1>5. /\ \A d \in Tabs \ {t} : tab'[d] = tab[d]
      /\ beat[b].leaves => tab' = tab
      /\ ~beat[b].leaves => tab'[t].id = 0
  <2>1. tab' = (IF beat[b].leaves THEN tab ELSE [tab EXCEPT ![t].id = 0])
    BY <1>1, Zenon DEF Refuses
  <2> QED BY <1>2, <2>1
<1>6. ASSUME NEW c \in Beats, NEW d \in Beats PROVE Alone(c, d)'
  BY <1>3, <1>4 DEF TurnInv, Alone
<1>7. ASSUME NEW d \in Beats PROVE TellsTab(d)' /\ ReadStands(d)'
  <2>1. CASE d = b \/ ~Pending(d)
    BY <1>3, <2>1 DEF TellsTab, ReadStands
  <2>2. CASE d # b /\ Pending(d)
    <3>1. TellsTab(d) /\ ReadStands(d) /\ Alone(b, d)
      BY DEF TurnInv
    <3>2. minter[beat[d].id] \in Tabs \ {t}
      BY <1>1, <1>2, <2>2, <3>1, BeatIsOfATab DEF Alone, Pending
    <3> QED BY <1>3, <1>4, <1>5, <2>2, <3>1, <3>2 DEF TellsTab, ReadStands
  <2> QED BY <2>1, <2>2
<1>8. ASSUME NEW d \in Tabs PROVE LeaveTold(d)'
  <2>1. CASE tab'[d].id = 0
    BY <2>1 DEF LeaveTold
  <2>2. CASE tab'[d].id # 0
    <3>1. tab'[d] = tab[d]
      BY <1>5, <2>2
    <3>2. ASSUME NEW c \in Beats, Pending(c), beat[c].leaves, beat[c].id = tab[d].id
          PROVE  \/ (Pending(c)' /\ beat'[c].leaves /\ beat'[c].id = beat[c].id)
                 \/ (presences[tab[d].id] # NoRow /\ presences[tab[d].id].user # NoOne)
      BY <1>3, <1>4, <3>2
    <3> QED BY <1>2, <1>4, <3>1, <3>2, LeaveStaysTold DEF TurnInv
  <2> QED BY <2>1, <2>2
<1> QED BY <1>6, <1>7, <1>8 DEF TurnInv

\* A beat that saves is the one of its tab: nobody else has read its row, and the tab is
\* as it says.
LEMMA SaveKeepsTurn ==
  ASSUME PresenceInv, TurnInv, NEW b \in Beats, NEW saved, Saves(b, saved)
  PROVE  TurnInv'
<1> DEFINE call == beat[b]
<1>1. /\ PresenceTypeOK /\ Pending(b) /\ call # NoBeat /\ call \in Report /\ call.id \in Contexts
      /\ call.leaves \in BOOLEAN /\ minter[call.id] \in Tabs /\ TellsTab(b)
  BY BeatIsOfATab DEF PresenceInv, Saves, Pending, TurnInv
<1>2. /\ presences'[call.id] = saved /\ saved # NoRow /\ saved.gone = call.leaves
      /\ \A c \in Contexts \ {call.id} : presences'[c] = presences[c]
  BY SaveMeans DEF Saves
<1>3. ~Pending(b)' /\ \A d \in Beats \ {b} : beat'[d] = beat[d] /\ (Pending(d)' <=> Pending(d))
  <2>1. \/ beat'[b] = NoBeat
        \/ \E stage \in {"tabs", "tell"} : beat'[b] = [call EXCEPT !.stage = stage]
    BY DEF Saves
  <2>2. \A stage \in {"tabs", "tell"} : [call EXCEPT !.stage = stage].stage = stage
    BY <1>1 DEF Report
  <2>3. ~Pending(b)'
    BY <2>1, <2>2 DEF Pending
  <2> QED BY <2>3 DEF Saves, OtherBeatsStay, Pending
<1>4. UNCHANGED <<now, tab, minter>>
  BY DEF Saves
<1>5. ASSUME NEW c \in Beats, NEW d \in Beats PROVE Alone(c, d)'
  BY <1>3, <1>4 DEF TurnInv, Alone
<1>6. ASSUME NEW d \in Beats PROVE TellsTab(d)' /\ ReadStands(d)'
  <2>1. CASE d = b \/ ~Pending(d)
    BY <1>3, <2>1 DEF TellsTab, ReadStands
  <2>2. CASE d # b /\ Pending(d)
    <3>1. TellsTab(d) /\ ReadStands(d) /\ Alone(b, d)
      BY DEF TurnInv
    <3>2. beat[d].id \in Contexts \ {call.id}
      BY <1>1, <2>2, <3>1, BeatIsOfATab DEF Alone, Pending
    <3> QED BY <1>2, <1>3, <1>4, <2>2, <3>1, <3>2 DEF TellsTab, ReadStands
  <2> QED BY <2>1, <2>2
<1>7. ASSUME NEW t \in Tabs PROVE LeaveTold(t)'
  <2>1. CASE tab[t].open \/ tab[t].id = 0
    BY <1>4, <2>1 DEF LeaveTold
  <2>2. CASE ~tab[t].open /\ tab[t].id = call.id
    <3>1. minter[call.id] = t
      BY <1>1, <2>2 DEF PresenceInv, TabFits, Contexts
    <3>2. call.leaves
      BY <1>1, <2>2, <3>1 DEF TellsTab
    <3> QED BY <1>2, <1>4, <2>2, <3>2 DEF LeaveTold
  <2>3. CASE tab[t].id # 0 /\ tab[t].id # call.id
    <3>1. tab[t].id \in Contexts
      BY <1>1, <2>3 DEF PresenceTypeOK
    <3>2. presences'[tab[t].id] = presences[tab[t].id]
      BY <1>2, <2>3, <3>1
    <3> QED BY <1>1, <1>3, <1>4, <2>3, <3>2, LeaveStaysTold DEF TurnInv
  <2> QED BY <2>1, <2>2, <2>3
<1> QED BY <1>5, <1>6, <1>7 DEF TurnInv

\* No beat is under way yet.
LEMMA TurnInvInit == PresenceInit => TurnInv
<1> SUFFICES ASSUME PresenceInit PROVE TurnInv
  OBVIOUS
<1>1. (\A b \in Beats : ~Pending(b)) /\ \A t \in Tabs : tab[t].id = 0
  BY DEF PresenceInit, Pending
<1> QED BY <1>1 DEF TurnInv, Alone, TellsTab, ReadStands, LeaveTold

\* So every step keeps it.
LEMMA TurnInvStep ==
  ASSUME OneBeatAtATime, PresenceInv, TurnInv, [PresenceNext]_presenceVars
  PROVE  TurnInv'
<1>1. Effect \/ UNCHANGED presenceVars
  BY StepHasEffect DEF PresenceInv
<1>2. ASSUME NEW t \in Tabs, NEW p \in Pages, NEW leaves \in BOOLEAN, NEW b \in Beats,
             NEW id \in Contexts, Sends(t, p, leaves, b, id)
      PROVE  TurnInv'
  BY <1>2, SendKeepsTurn
<1>3. ASSUME NEW b \in Beats, Finds(b) \/ Refuses(b) \/ (\E saved : Saves(b, saved))
      PROVE  TurnInv'
  BY <1>3, FindKeepsTurn, RefusalKeepsTurn, SaveKeepsTurn
<1>4. ASSUME NEW b \in Beats, Drops(b) \/ Clears(b) \/ Tells(b) PROVE TurnInv'
  <2>1. ~Pending(b) /\ ~Pending(b)'
    <3>1. beat[b] \in Report \cup {NoBeat}
      BY DEF PresenceInv, PresenceTypeOK
    <3>2. beat[b] # NoBeat => [beat[b] EXCEPT !.stage = "tell"].stage = "tell"
      BY <3>1 DEF Report
    <3> QED BY <1>4, <3>2 DEF Drops, Clears, Tells, InHand, Pending
  <2>2. \A d \in Beats \ {b} : beat'[d] = beat[d]
    BY <1>4 DEF Drops, Clears, Tells, OtherBeatsStay
  <2>3. \A d \in Beats : (Pending(d)' <=> Pending(d)) /\ (Pending(d) => beat'[d] = beat[d])
    BY <2>1, <2>2 DEF Pending
  <2>4. UNCHANGED <<tab, minter, presences>>
    BY <1>4 DEF Drops, Clears, Tells
  <2> QED BY <2>3, <2>4, OthersKeepTurn
<1>5. CASE Quietly \/ (\E c \in Contexts : Sweeps(c)) \/ PassTime \/ UNCHANGED presenceVars
  <2>1. UNCHANGED <<minter, beat>>
    BY <1>5 DEF Quietly, Sweeps, PassTime, presenceVars
  <2>2. \A c \in Contexts : presences'[c] = presences[c] \/ presences'[c] = NoRow
    BY <1>5 DEF Quietly, Sweeps, PassTime, presenceVars
  <2>3. \A t \in Tabs : tab'[t] = tab[t]
                        \/ (tab[t].id = 0 /\ tab'[t] = [tab[t] EXCEPT !.open = FALSE])
    BY <1>5 DEF Quietly, Sweeps, PassTime, presenceVars
  <2>4. \A d \in Beats : (Pending(d)' <=> Pending(d)) /\ (Pending(d) => beat'[d] = beat[d])
    BY <2>1 DEF Pending
  <2> QED BY <2>1, <2>2, <2>3, <2>4, OthersKeepTurn
<1> QED BY <1>1, <1>2, <1>3, <1>4, <1>5 DEF Effect

\* While a tab waits for each answer, the last beat of a tab that has closed says so: once
\* the beats are answered, a signed-out visitor's closed tab is off the board.
THEOREM ClosedTabsAreGone ==
  ASSUME OneBeatAtATime
  PROVE  PresenceSpec => []ClosedTabIsGone
<1>1. PresenceInv /\ TurnInv => ClosedTabIsGone
  BY DEF TurnInv, LeaveTold, ClosedTabIsGone, Quiet, Pending
<1>2. PresenceInit => PresenceInv /\ TurnInv
  BY PresenceInvInit, TurnInvInit
<1>3. PresenceInv /\ TurnInv /\ [PresenceNext]_presenceVars => PresenceInv' /\ TurnInv'
  BY PresenceInvStep, TurnInvStep
<1> QED BY <1>1, <1>2, <1>3, PTL DEF PresenceSpec

----------------------------------------------------------------------------
(* Locations *)

\* A live fix from a device yields to nothing but another one from a device.
LEMMA LiveFixHolds ==
  ASSUME NEW call \in Report, call.existing # NoRow, call.existing.location # NoFix,
         call.existing.location.exact, ~Stale(call.existing.location),
         NEW saved \in RowAfter(call, Recorded(call))
  PROVE  saved.location # NoFix /\ saved.location.exact
<1> DEFINE fix == call.existing.location
           row == Recorded(call)
           address == [exact |-> FALSE, at |-> call.at]
           device == [exact |-> TRUE, at |-> call.at]
<1>1. /\ call.existing \in PresenceRow /\ fix \in Fix /\ fix.exact = TRUE
      /\ call.user \in Someone /\ call.path \in Pages /\ call.at \in Times
  BY DEF Report, PresenceRow, Fix
<1>2. row.location = fix /\ row = [row EXCEPT !.user = row.user]
  BY <1>1 DEF Recorded, PresenceRow
<1>3. address \in Fix /\ device \in Fix /\ device # NoFix /\ device.exact /\ address.exact = FALSE
  <2>1. address \in Fix /\ device \in Fix
    BY <1>1 DEF Fix
  <2>2. device # NoFix
    BY <2>1, NoValueAssumption
  <2>3. device.exact /\ address.exact = FALSE
    OBVIOUS
  <2> QED BY <2>1, <2>2, <2>3
<1>4. Locate(fix, address) = fix
  BY <1>1, <1>3 DEF Locate, Supersedes
<1>5. ASSUME NEW f \in Located(call, fix) PROVE f # NoFix /\ f.exact
  BY <1>1, <1>3, <1>4, <1>5 DEF Located, Locate
<1> HIDE DEF fix
<1>6. CASE call.leaves
  <2>1. saved = [row EXCEPT !.gone = TRUE]
    BY <1>6 DEF RowAfter
  <2> HIDE DEF row
  <2>2. saved.location = fix
    BY <1>2, <2>1
  <2> QED BY <1>1, <2>2 DEF fix
<1>7. CASE ~call.leaves
  <2>1. PICK f \in Located(call, row.location) : saved = [row EXCEPT !.location = f]
    BY <1>7 DEF RowAfter
  <2>2. "location" \in DOMAIN row
    BY <1>1 DEF Recorded, PresenceRow
  <2> HIDE DEF row
  <2>3. saved.location = f
    BY <2>1, <2>2
  <2> QED BY <1>2, <1>5, <2>1, <2>3
<1> QED BY <1>6, <1>7

\* While a tab waits for each answer, the row a beat saves over is the row it read, so a fix
\* the visitor consented to and that is still live is kept: no address replaces it.
THEOREM ConsentedFixesStand ==
  ASSUME OneBeatAtATime
  PROVE  PresenceSpec => ConsentedFixStands
<1> DEFINE Keeps(c) ==
      (/\ presences[c] # NoRow /\ presences'[c] # NoRow
       /\ presences[c].location # NoFix /\ presences[c].location.exact
       /\ ~Stale(presences[c].location)) =>
         presences'[c].location # NoFix /\ presences'[c].location.exact
<1>1. ASSUME PresenceInv, TurnInv, PresenceNext PROVE \A c \in Contexts : Keeps(c)
  <2> SUFFICES ASSUME NEW c \in Contexts PROVE Keeps(c)
    OBVIOUS
  <2>1. CASE presences'[c] = presences[c] \/ presences'[c] = NoRow
    BY <2>1
  <2>2. CASE ~(presences'[c] = presences[c] \/ presences'[c] = NoRow)
    <3>1. PICK b \in Beats : \E saved : Saves(b, saved)
      BY <1>1, <2>2, StepHasEffect
         DEF PresenceInv, Effect, Sends, Quietly, Finds, Refuses, Drops, Clears, Tells, Sweeps, PassTime
    <3>2. PICK saved : Saves(b, saved)
      BY <3>1
    <3>3. /\ beat[b] \in Report /\ c = beat[b].id /\ presences'[c] = saved
          /\ saved \in RowAfter(beat[b], Recorded(beat[b]))
      BY <1>1, <2>2, <3>2 DEF Saves, PresenceInv, PresenceTypeOK, Pending
    <3>4. ReadStands(b)
      BY <1>1 DEF TurnInv
    <3>5. presences[c] # NoRow => beat[b].existing = presences[c]
      BY <3>2, <3>3, <3>4 DEF ReadStands, Saves
    <3> QED BY <3>3, <3>5, LiveFixHolds
  <2> QED BY <2>1, <2>2
<1>2. PresenceInv /\ TurnInv /\ [PresenceNext]_presenceVars
        => [\A c \in Contexts : Keeps(c)]_presenceVars
  BY <1>1
<1>3. PresenceInit => PresenceInv /\ TurnInv
  BY PresenceInvInit, TurnInvInit
<1>4. PresenceInv /\ TurnInv /\ [PresenceNext]_presenceVars => PresenceInv' /\ TurnInv'
  BY PresenceInvStep, TurnInvStep
<1> QED BY <1>2, <1>3, <1>4, PTL DEF PresenceSpec, ConsentedFixStands

----------------------------------------------------------------------------
(* Arrivals *)

\* An arrival at a under context id leaves a row of its visitor until it is old.
Attested(id, v, a) ==
  \/ now - a > Retention
  \/ /\ presences[id] # NoRow /\ presences[id].seen >= a
     /\ v # NoOne => presences[id].user = v
InHandAttested(b) ==
  InHand(b) => /\ Attested(beat[b].id, beat[b].user, beat[b].at)
               /\ beat[b].stage = "tabs" => beat[b].user # NoOne
\* No two arrivals are on the way to be told as one.
NoRival(b, d) ==
  b # d /\ InHand(b) /\ InHand(d) /\ beat[b].user = beat[d].user =>
    /\ beat[b].id # beat[d].id
    /\ beat[b].user # NoOne => beat[b].stage = "tabs" \/ beat[d].stage = "tabs"
\* An arrival that will be told is far from those that were.
Fresh(b, e) ==
  InHand(b) /\ e.user = beat[b].user =>
    IF e.user # NoOne THEN beat[b].stage = "tell" \/ e.id = beat[b].id => now - e.at > Gap
    ELSE e.id = beat[b].id => beat[b].at - e.at > Retention
FindsNothing(b) == Pending(b) /\ beat[b].stage = "read" /\ beat[b].existing = NoRow
FreshRow(b, e) ==
  FindsNothing(b) /\ e.user = NoOne /\ e.id = beat[b].id => beat[b].at - e.at > Retention
VisitInv ==
  /\ \A b \in Beats : InHandAttested(b)
  /\ \A i \in DOMAIN announced : Attested(announced[i].id, announced[i].user, announced[i].at)
  /\ \A b, d \in Beats : NoRival(b, d)
  /\ \A b, d \in Beats : FindsNothing(b) /\ InHand(d) => beat[b].id # beat[d].id
  /\ \A b \in Beats, i \in DOMAIN announced : Fresh(b, announced[i]) /\ FreshRow(b, announced[i])
  /\ OncePerVisit

\* What operators were told, by its columns.
LEMMA EntryTyped ==
  ASSUME PresenceTypeOK, NEW i \in DOMAIN announced
  PROVE  /\ announced[i].user \in Someone /\ announced[i].id \in Contexts
         /\ announced[i].at \in Nat /\ announced[i].told \in Nat
<1> DEFINE Arrival == [user : Someone, id : Contexts, at : Times, told : Times]
<1>1. announced \in Seq(Arrival)
  BY DEF PresenceTypeOK
<1> HIDE DEF Arrival
<1>2. announced[i] \in Arrival
  BY <1>1
<1> QED BY <1>2, BoundsAreNat DEF Arrival, Times

\* Rivals are rivals either way.
LEMMA RivalsBothWays ==
  ASSUME NEW b \in Beats, NEW d \in Beats, NoRival(b, d)
  PROVE  NoRival(d, b)
BY DEF NoRival

\* The row of an arrival stays until it is old.
LEMMA AttestedStays ==
  ASSUME PresenceTypeOK, now \in Nat, now' \in Nat, now <= now',
         NEW id \in Contexts, NEW v, NEW a \in Nat, Attested(id, v, a),
         \/ presences'[id] = presences[id]
         \/ presences[id].seen < now - Retention
  PROVE  Attested(id, v, a)'
<1>1. presences[id] # NoRow => presences[id].seen \in Nat
  BY BoundsAreNat DEF PresenceTypeOK, PresenceRow, Times
<1>2. CASE now - a > Retention
  <2>1. now' - a > Retention
    BY <1>2, BoundsAreNat
  <2> QED BY <2>1 DEF Attested
<1>3. CASE ~(now - a > Retention)
  <2>1. presences[id] # NoRow /\ presences[id].seen >= a /\ (v # NoOne => presences[id].user = v)
    BY <1>3 DEF Attested
  <2>2. ~(presences[id].seen < now - Retention)
    BY <1>1, <1>3, <2>1, BoundsAreNat
  <2> QED BY <2>1, <2>2 DEF Attested
<1> QED BY <1>2, <1>3

\* Steps after which no more arrivals are on the way and no more beats have found nothing.
LEMMA QuietStepsKeepVisits ==
  ASSUME PresenceInv, VisitInv, now' \in Nat, now <= now', announced' = announced,
         \A b \in Beats : InHand(b)' => InHand(b) /\ beat'[b] = beat[b],
         \A b \in Beats : FindsNothing(b)' => FindsNothing(b) /\ beat'[b] = beat[b],
         \A c \in Contexts : \/ presences'[c] = presences[c]
                             \/ presences[c].seen < now - Retention
  PROVE  VisitInv'
<1>1. PresenceTypeOK /\ now \in Nat
  BY BoundsAreNat DEF PresenceInv, PresenceTypeOK, Times
<1>2. \A b \in Beats : InHand(b) => beat[b].id \in Contexts /\ beat[b].at \in Nat
  BY BeatIsOfATab DEF InHand
<1>3. ASSUME NEW b \in Beats PROVE InHandAttested(b)'
  BY <1>1, <1>2, AttestedStays DEF VisitInv, InHandAttested
<1>4. ASSUME NEW i \in DOMAIN announced
      PROVE  Attested(announced[i].id, announced[i].user, announced[i].at)'
  <2>1. PICK e : e = announced[i]
    OBVIOUS
  <2>2. e.id \in Contexts /\ e.at \in Nat /\ Attested(e.id, e.user, e.at)
    BY <1>1, <2>1, EntryTyped DEF VisitInv
  <2>3. Attested(e.id, e.user, e.at)'
    BY <1>1, <2>2, AttestedStays
  <2> QED BY <2>1, <2>3
<1>5. ASSUME NEW b \in Beats, NEW d \in Beats
      PROVE  NoRival(b, d)' /\ (FindsNothing(b) /\ InHand(d) => beat[b].id # beat[d].id)'
  BY DEF VisitInv, NoRival
<1>6. ASSUME NEW b \in Beats, NEW i \in DOMAIN announced
      PROVE  Fresh(b, announced[i])' /\ FreshRow(b, announced[i])'
  <2>1. announced[i].at \in Nat
    BY <1>1, EntryTyped
  <2>2. Fresh(b, announced[i]) /\ FreshRow(b, announced[i])
    BY DEF VisitInv
  <2> QED BY <1>1, <2>1, <2>2, BoundsAreNat DEF Fresh, FreshRow
<1> QED BY <1>3, <1>4, <1>5, <1>6 DEF VisitInv, OncePerVisit

\* A beat that finds nothing comes long after anything that is on the way or was told.
LEMMA FindKeepsVisits ==
  ASSUME Gap >= 1, PresenceInv, VisitInv, NEW b \in Beats, Finds(b)
  PROVE  VisitInv'
<1> DEFINE row == presences[beat[b].id]
           x == [beat[b] EXCEPT !.stage = "read", !.at = now, !.existing = row]
<1>1. /\ PresenceTypeOK /\ now \in Nat /\ now \in Times /\ beat[b] # NoBeat /\ beat[b] \in Report
      /\ row \in PresenceRow \cup {NoRow} /\ beat[b].id \in Contexts
      /\ Retention \in Nat /\ Gap \in Nat /\ Gap <= Retention
  BY BoundsAreNat DEF PresenceInv, PresenceTypeOK, Finds, Pending, Report, Times
<1>2. x.id = beat[b].id /\ x.at = now /\ x.existing = row /\ x.stage = "read"
  <2> HIDE DEF row
  <2> QED BY <1>1 DEF Report
<1>3. beat'[b] = x /\ \A d \in Beats \ {b} : beat'[d] = beat[d]
  BY DEF Finds, OtherBeatsStay
<1> HIDE DEF x
<1>4. UNCHANGED <<now, presences, announced>>
  BY DEF Finds
<1>5. ~InHand(b)'
  BY <1>2, <1>3 DEF InHand
<1>6. ASSUME NEW d \in Beats \ {b}
      PROVE  /\ beat'[d] = beat[d] /\ (InHand(d)' <=> InHand(d))
             /\ FindsNothing(d)' <=> FindsNothing(d)
  BY <1>3 DEF InHand, FindsNothing, Pending
<1>7. ASSUME NEW v, NEW a \in Nat, row = NoRow, Attested(beat[b].id, v, a)
      PROVE  now - a > Retention
  BY <1>7 DEF Attested
<1>8. ASSUME NEW d \in Beats PROVE InHandAttested(d)'
  <2>1. CASE d = b
    BY <1>5, <2>1 DEF InHandAttested
  <2>2. CASE d # b
    BY <1>4, <1>6, <2>2 DEF VisitInv, InHandAttested, Attested
  <2> QED BY <2>1, <2>2
<1>9. ASSUME NEW i \in DOMAIN announced
      PROVE  Attested(announced[i].id, announced[i].user, announced[i].at)'
  BY <1>4 DEF VisitInv, Attested
<1>10. ASSUME NEW c \in Beats, NEW d \in Beats PROVE NoRival(c, d)'
  <2>1. CASE c = b \/ d = b
    BY <1>5, <2>1 DEF NoRival
  <2>2. CASE c # b /\ d # b
    BY <1>6, <2>2 DEF VisitInv, NoRival
  <2> QED BY <2>1, <2>2
<1>11. ASSUME NEW c \in Beats, NEW d \in Beats, FindsNothing(c)', InHand(d)'
       PROVE  beat'[c].id # beat'[d].id
  <2>1. d # b /\ InHand(d) /\ beat'[d] = beat[d]
    BY <1>5, <1>6, <1>11
  <2>2. CASE c = b
    <3>1. row = NoRow
      BY <1>2, <1>3, <1>11, <2>2 DEF FindsNothing
    <3>2. beat[d].at \in Nat /\ now <= beat[d].at + 1
      BY <2>1, BeatIsOfATab DEF InHand
    <3>3. Attested(beat[d].id, beat[d].user, beat[d].at)
      BY <2>1 DEF VisitInv, InHandAttested
    <3>4. ~(now - beat[d].at > Retention)
      BY <1>1, <3>2
    <3>5. beat[d].id # beat[b].id
      BY <1>7, <3>1, <3>2, <3>3, <3>4
    <3> QED BY <1>2, <1>3, <2>1, <2>2, <3>5
  <2>3. CASE c # b
    BY <1>6, <1>11, <2>1, <2>3 DEF VisitInv
  <2> QED BY <2>2, <2>3
<1>12. ASSUME NEW d \in Beats, NEW i \in DOMAIN announced
       PROVE  Fresh(d, announced[i])' /\ FreshRow(d, announced[i])'
  <2> PICK e : e = announced[i]
    OBVIOUS
  <2>1. announced'[i] = e /\ Fresh(d, e) /\ FreshRow(d, e)
    BY <1>4 DEF VisitInv
  <2>2. CASE d = b
    <3>1. e.at \in Nat /\ e.id \in Contexts /\ Attested(e.id, e.user, e.at)
      BY <1>1, EntryTyped DEF VisitInv
    <3>2. ASSUME row = NoRow, e.id = beat[b].id PROVE now - e.at > Retention
      BY <1>7, <3>1, <3>2
    <3>3. Fresh(d, e)'
      BY <1>5, <2>2 DEF Fresh
    <3>4. FreshRow(d, e)'
      BY <1>2, <1>3, <2>2, <3>2 DEF FreshRow, FindsNothing
    <3> QED BY <2>1, <3>3, <3>4 DEF Fresh, FreshRow
  <2>3. CASE d # b
    BY <1>4, <1>6, <2>1, <2>3 DEF Fresh, FreshRow
  <2> QED BY <2>2, <2>3
<1>13. OncePerVisit'
  BY <1>4 DEF VisitInv, OncePerVisit
<1> QED BY <1>4, <1>8, <1>9, <1>10, <1>11, <1>12, <1>13 DEF VisitInv

\* What was told of a visitor is far enough from an arrival with no other open tab.
LEMMA ClearedIsFar ==
  ASSUME PresenceInv, NEW b \in Beats, Clears(b), InHandAttested(b),
         NEW id \in Contexts \ {beat[b].id}, NEW a \in Nat, Attested(id, beat[b].user, a)
  PROVE  now - a > Gap
<1>1. /\ now \in Nat /\ Gap \in Nat /\ Retention \in Nat /\ Gap <= Retention
      /\ presences[id] # NoRow => presences[id].seen \in Nat
  BY BoundsAreNat DEF PresenceInv, PresenceTypeOK, PresenceRow, Times
<1>2. beat[b].user # NoOne /\ ~HasOtherOpenTab(beat[b].user, beat[b].id)
  BY DEF Clears, InHandAttested
<1>3. CASE now - a > Retention
  BY <1>1, <1>3
<1>4. CASE ~(now - a > Retention)
  <2>1. presences[id] # NoRow /\ presences[id].seen >= a /\ presences[id].user = beat[b].user
    BY <1>2, <1>4 DEF Attested
  <2>2. ~(presences[id].seen >= now - Gap)
    BY <1>2, <2>1 DEF HasOtherOpenTab
  <2> QED BY <1>1, <2>1, <2>2
<1> QED BY <1>3, <1>4

\* An arrival is cleared when no other tab was seen within the gap.
LEMMA ClearKeepsVisits ==
  ASSUME Gap >= 1, PresenceInv, VisitInv, NEW b \in Beats, Clears(b)
  PROVE  VisitInv'
<1> DEFINE x == [beat[b] EXCEPT !.stage = "tell"]
<1>1. /\ PresenceTypeOK /\ now \in Nat /\ beat[b] \in Report /\ Gap \in Nat /\ InHand(b)
      /\ beat[b].id \in Contexts /\ beat[b].stage = "tabs" /\ beat[b].at \in Nat
  BY BoundsAreNat, BeatIsOfATab DEF PresenceInv, PresenceTypeOK, Clears, InHand, Times
<1>2. /\ x.id = beat[b].id /\ x.at = beat[b].at /\ x.stage = "tell" /\ x.user = beat[b].user
      /\ x \in Report /\ x # NoBeat
  <2>1. /\ x.id = beat[b].id /\ x.at = beat[b].at /\ x.stage = "tell" /\ x.user = beat[b].user
        /\ x \in Report
    BY <1>1 DEF Report
  <2> QED BY <2>1, NoValueAssumption
<1>3. beat'[b] = x /\ \A d \in Beats \ {b} : beat'[d] = beat[d]
  BY DEF Clears, OtherBeatsStay
<1> HIDE DEF x
<1>4. UNCHANGED <<now, presences, announced>>
  BY DEF Clears
<1>5. InHand(b)' /\ ~FindsNothing(b)' /\ InHandAttested(b) /\ beat[b].user # NoOne
  BY <1>1, <1>2, <1>3 DEF InHand, FindsNothing, VisitInv, InHandAttested
<1>6. ASSUME NEW d \in Beats
      PROVE  /\ InHand(d)' <=> InHand(d)
             /\ FindsNothing(d)' <=> FindsNothing(d)
             /\ InHand(d) => /\ beat'[d].id = beat[d].id /\ beat'[d].user = beat[d].user
                             /\ beat'[d].at = beat[d].at
                             /\ d # b => beat'[d] = beat[d]
             /\ FindsNothing(d) => beat'[d] = beat[d]
  BY <1>1, <1>2, <1>3, <1>5 DEF InHand, FindsNothing, Pending
<1>7. ASSUME NEW d \in Beats PROVE InHandAttested(d)'
  BY <1>1, <1>2, <1>3, <1>4, <1>6 DEF VisitInv, InHandAttested, Attested
<1>8. ASSUME NEW i \in DOMAIN announced
      PROVE  Attested(announced[i].id, announced[i].user, announced[i].at)'
  BY <1>4 DEF VisitInv, Attested
<1>9. ASSUME NEW d \in Beats \ {b} PROVE NoRival(b, d)' /\ NoRival(d, b)'
  <2> SUFFICES ASSUME InHand(d), beat[d].user = beat[b].user
               PROVE  beat[b].id # beat[d].id /\ beat[d].stage = "tabs"
    BY <1>2, <1>3, <1>6 DEF NoRival
  <2>1. beat[b].id # beat[d].id
    BY <1>1 DEF VisitInv, NoRival
  <2>2. /\ beat[d].id \in Contexts /\ beat[d].at \in Nat /\ now <= beat[d].at + 1
        /\ Attested(beat[d].id, beat[b].user, beat[d].at)
    BY BeatIsOfATab DEF InHand, VisitInv, InHandAttested
  <2>3. now - beat[d].at > Gap
    BY <1>5, <2>1, <2>2, ClearedIsFar
  <2> QED BY <1>1, <2>2, <2>3
<1>10. ASSUME NEW c \in Beats, NEW d \in Beats
       PROVE  NoRival(c, d)' /\ (FindsNothing(c) /\ InHand(d) => beat[c].id # beat[d].id)'
  <2>1. NoRival(c, d)'
    <3>1. CASE c = b \/ d = b
      BY <1>9, <3>1 DEF NoRival
    <3>2. CASE c # b /\ d # b
      BY <1>6, <3>2 DEF VisitInv, NoRival
    <3> QED BY <3>1, <3>2
  <2> QED BY <1>6, <2>1 DEF VisitInv
<1>11. ASSUME NEW d \in Beats, NEW i \in DOMAIN announced
       PROVE  Fresh(d, announced[i])' /\ FreshRow(d, announced[i])'
  <2> PICK e : e = announced[i]
    OBVIOUS
  <2>1. announced'[i] = e /\ Fresh(d, e) /\ FreshRow(d, e)
    BY <1>4 DEF VisitInv
  <2>2. CASE d = b
    <3>1. e.at \in Nat /\ e.id \in Contexts /\ Attested(e.id, e.user, e.at)
      BY <1>1, EntryTyped DEF VisitInv
    <3>2. ASSUME e.user = beat[b].user PROVE now - e.at > Gap
      <4>1. CASE e.id = beat[b].id
        BY <1>1, <1>5, <2>1, <2>2, <3>2, <4>1 DEF Fresh
      <4>2. CASE e.id # beat[b].id
        BY <1>5, <3>1, <3>2, <4>2, ClearedIsFar
      <4> QED BY <4>1, <4>2
    <3>3. Fresh(d, e)'
      BY <1>2, <1>3, <1>4, <1>5, <2>2, <3>2 DEF Fresh
    <3>4. FreshRow(d, e)'
      BY <1>5, <2>2 DEF FreshRow
    <3> QED BY <2>1, <3>3, <3>4 DEF Fresh, FreshRow
  <2>3. CASE d # b
    BY <1>4, <1>6, <2>1, <2>3 DEF Fresh, FreshRow
  <2> QED BY <2>2, <2>3
<1>12. OncePerVisit'
  BY <1>4 DEF VisitInv, OncePerVisit
<1> QED BY <1>4, <1>7, <1>8, <1>10, <1>11, <1>12 DEF VisitInv

\* A beat that saves keeps the row what it was to every earlier arrival, and is an arrival
\* of its own only where none of the same visitor and context is recent.
LEMMA ArrivalIsNew ==
  ASSUME PresenceInv, TurnInv, NEW b \in Beats, NEW saved, Saves(b, saved),
         NEW id \in Contexts, id = beat[b].id, NEW v \in Someone, NEW a \in Nat, Attested(id, v, a)
  PROVE  /\ Attested(id, v, a)'
         /\ beat'[b] # NoBeat /\ v # NoOne /\ beat[b].user = v => now - a > Retention
<1> DEFINE call == beat[b]
           row == presences[call.id]
<1>1. /\ Pending(b) /\ call.stage = "read" /\ call \in Report /\ call.id \in Contexts
      /\ call.at \in Nat /\ ReadStands(b) /\ now' = now
  BY BeatIsOfATab DEF Saves, Pending, TurnInv
<1>2. saved # NoRow /\ saved.user = call.user /\ saved.seen = call.at /\ presences'[call.id] = saved
  BY SaveMeans DEF Saves
<1>3. CASE now - a > Retention
  BY <1>1, <1>3 DEF Attested
<1>4. CASE ~(now - a > Retention)
  <2>1. row # NoRow /\ row.seen >= a /\ (v # NoOne => row.user = v)
    BY <1>4 DEF Attested
  <2>2. call.existing = row /\ MayClaim(row.user, call.user) /\ row.seen <= call.at
    BY <1>1, <2>1 DEF ReadStands
  <2>3. row.seen \in Nat
    BY <1>1, <2>1, BoundsAreNat DEF PresenceInv, PresenceTypeOK, PresenceRow, Times
  <2>4. call.at >= a
    BY <1>1, <2>1, <2>2, <2>3
  <2>5. v # NoOne => call.user = v
    BY <2>1, <2>2 DEF MayClaim
  <2>6. Attested(id, v, a)'
    BY <1>1, <1>2, <2>4, <2>5 DEF Attested
  <2>7. v # NoOne => ~Arrived(call) /\ ~Landed(call)
    BY <2>1, <2>2, <2>5 DEF Arrived, Landed
  <2>8. v # NoOne => beat'[b] = NoBeat
    BY <2>7 DEF Saves
  <2> QED BY <2>6, <2>8
<1> QED BY <1>3, <1>4

\* What becomes of a beat that saves: over, or on the way with what it was.
LEMMA SavedBeat ==
  ASSUME PresenceInv, NEW b \in Beats, NEW saved, Saves(b, saved)
  PROVE  /\ ~FindsNothing(b)'
         /\ InHand(b)' <=> beat'[b] # NoBeat
         /\ InHand(b)' => /\ beat'[b].id = beat[b].id /\ beat'[b].user = beat[b].user
                          /\ beat'[b].at = beat[b].at
                          /\ beat'[b].stage = (IF beat[b].user = NoOne THEN "tell" ELSE "tabs")
                          /\ beat[b].user = NoOne => FindsNothing(b)
<1> DEFINE call == beat[b]
           stage == IF call.user = NoOne THEN "tell" ELSE "tabs"
           x == [call EXCEPT !.stage = stage]
<1>1. call \in Report /\ Pending(b) /\ call.stage = "read"
  BY BeatIsOfATab DEF Saves, Pending
<1>2. stage \in {"tell", "tabs"}
  OBVIOUS
<1>3. \/ beat'[b] = NoBeat
      \/ (Arrived(call) \/ Landed(call)) /\ beat'[b] = x
  BY DEF Saves
<1>4. (Arrived(call) \/ Landed(call)) /\ call.user = NoOne => FindsNothing(b)
  BY <1>1 DEF Arrived, Landed, FindsNothing
<1> HIDE DEF stage
<1>5. /\ x.id = call.id /\ x.user = call.user /\ x.at = call.at /\ x.stage = stage
      /\ x \in Report
  BY <1>1, <1>2 DEF Report
<1> HIDE DEF x
<1>6. x # NoBeat
  BY <1>5, NoValueAssumption
<1>7. CASE beat'[b] = NoBeat
  BY <1>7 DEF InHand, FindsNothing, Pending
<1>8. CASE beat'[b] = x /\ (Arrived(call) \/ Landed(call))
  BY <1>2, <1>4, <1>5, <1>6, <1>8 DEF InHand, FindsNothing, Pending, stage
<1> QED BY <1>3, <1>7, <1>8

\* An arrival comes on its way: its row is saved, and none like it is recent.
LEMMA SaveKeepsVisits ==
  ASSUME Gap >= 1, PresenceInv, TurnInv, VisitInv, NEW b \in Beats, NEW saved, Saves(b, saved)
  PROVE  VisitInv'
<1> DEFINE call == beat[b]
<1>1. /\ PresenceTypeOK /\ now \in Nat /\ call # NoBeat /\ call \in Report /\ call.id \in Contexts
      /\ call.at \in Nat /\ Pending(b) /\ call.user \in Someone
      /\ Retention \in Nat /\ Gap \in Nat /\ Gap <= Retention
  BY BoundsAreNat, BeatIsOfATab DEF PresenceInv, PresenceTypeOK, Saves, Pending, Times, Report
<1>2. /\ ~FindsNothing(b)'
      /\ InHand(b)' <=> beat'[b] # NoBeat
      /\ InHand(b)' => /\ beat'[b].id = call.id /\ beat'[b].user = call.user
                       /\ beat'[b].at = call.at
                       /\ beat'[b].stage = (IF call.user = NoOne THEN "tell" ELSE "tabs")
                       /\ call.user = NoOne => FindsNothing(b)
  BY SavedBeat
<1>3. UNCHANGED <<now, announced, minter>> /\ \A d \in Beats \ {b} : beat'[d] = beat[d]
  BY DEF Saves, OtherBeatsStay
<1>4. ASSUME NEW d \in Beats \ {b}
      PROVE  /\ beat'[d] = beat[d] /\ (InHand(d)' <=> InHand(d))
             /\ FindsNothing(d)' <=> FindsNothing(d)
  BY <1>3 DEF InHand, FindsNothing, Pending
<1>5. ASSUME NEW id \in Contexts, NEW v \in Someone, NEW a \in Nat, Attested(id, v, a)
      PROVE  Attested(id, v, a)'
  <2>1. CASE id = call.id
    BY <1>5, <2>1, ArrivalIsNew
  <2>2. CASE id # call.id
    <3>1. presences'[id] = presences[id]
      BY <2>2 DEF Saves
    <3> QED BY <1>3, <1>5, <3>1 DEF Attested
  <2> QED BY <2>1, <2>2
<1>6. ASSUME NEW d \in Beats, InHand(d)
      PROVE  /\ beat[d].id \in Contexts /\ beat[d].user \in Someone /\ beat[d].at \in Nat
             /\ now <= beat[d].at + 1 /\ d # b
             /\ Attested(beat[d].id, beat[d].user, beat[d].at)
  BY <1>1, <1>6, BeatIsOfATab DEF InHand, Pending, Report, VisitInv, InHandAttested
<1>7. ASSUME NEW d \in Beats PROVE InHandAttested(d)'
  <2>1. CASE d = b
    <3> PICK old : old = call
      OBVIOUS
    <3>1. saved # NoRow /\ saved.user = old.user /\ saved.seen = old.at /\ presences'[old.id] = saved
      BY SaveMeans DEF Saves
    <3>2. Attested(old.id, old.user, old.at)'
      BY <1>1, <3>1 DEF Attested
    <3>3. InHand(b)' => Attested(beat[b].id, beat[b].user, beat[b].at)'
      BY <1>2, <1>3, <3>2 DEF Attested
    <3> QED BY <1>2, <2>1, <3>3 DEF InHandAttested
  <2>2. CASE d # b
    <3> PICK old : old = beat[d]
      OBVIOUS
    <3>1. InHand(d)' => Attested(old.id, old.user, old.at)'
      BY <1>4, <1>5, <1>6, <2>2
    <3>2. InHand(d)' => Attested(beat[d].id, beat[d].user, beat[d].at)'
      BY <1>4, <2>2, <3>1 DEF Attested
    <3>3. InHand(d)' => (beat[d].stage = "tabs" => beat[d].user # NoOne)
      BY <1>4, <2>2 DEF VisitInv, InHandAttested
    <3> QED BY <1>3, <1>4, <2>2, <3>2, <3>3 DEF InHandAttested, Attested
  <2> QED BY <2>1, <2>2
<1>8. ASSUME NEW i \in DOMAIN announced
      PROVE  Attested(announced[i].id, announced[i].user, announced[i].at)'
  <2> PICK e : e = announced[i]
    OBVIOUS
  <2>1. e.id \in Contexts /\ e.user \in Someone /\ e.at \in Nat /\ Attested(e.id, e.user, e.at)
    BY <1>1, EntryTyped DEF VisitInv
  <2>2. Attested(e.id, e.user, e.at)'
    BY <1>5, <2>1
  <2> QED BY <1>3, <2>2 DEF Attested
<1>9. ASSUME NEW d \in Beats, InHand(b)', InHand(d), beat[d].user = call.user
      PROVE  beat[d].id # call.id
  <2>1. CASE call.user = NoOne
    BY <1>2, <1>9, <2>1 DEF VisitInv
  <2>2. CASE call.user # NoOne
    <3> SUFFICES ASSUME beat[d].id = call.id PROVE FALSE
      OBVIOUS
    <3>1. now - beat[d].at > Retention
      BY <1>1, <1>2, <1>6, <1>9, <2>2, ArrivalIsNew
    <3> QED BY <1>1, <1>6, <1>9, <3>1
  <2> QED BY <2>1, <2>2
<1>10. ASSUME NEW d \in Beats \ {b} PROVE NoRival(b, d)' /\ NoRival(d, b)'
  BY <1>2, <1>4, <1>9 DEF NoRival
<1>11. ASSUME NEW c \in Beats, NEW d \in Beats PROVE NoRival(c, d)'
  <2>1. CASE c = b \/ d = b
    BY <1>10, <2>1 DEF NoRival
  <2>2. CASE c # b /\ d # b
    BY <1>4, <2>2 DEF VisitInv, NoRival
  <2> QED BY <2>1, <2>2
<1>12. ASSUME NEW c \in Beats, NEW d \in Beats, FindsNothing(c)', InHand(d)'
       PROVE  beat'[c].id # beat'[d].id
  <2>1. c # b /\ FindsNothing(c) /\ beat'[c] = beat[c]
    BY <1>2, <1>4, <1>12
  <2>2. CASE d = b
    <3>1. Alone(b, c) /\ Pending(c)
      BY <2>1 DEF TurnInv, FindsNothing
    <3> QED BY <1>1, <1>2, <1>12, <2>1, <2>2, <3>1 DEF Alone
  <2>3. CASE d # b
    BY <1>4, <1>12, <2>1, <2>3 DEF VisitInv
  <2> QED BY <2>2, <2>3
<1>13. ASSUME NEW d \in Beats, NEW i \in DOMAIN announced
       PROVE  Fresh(d, announced[i])' /\ FreshRow(d, announced[i])'
  <2> PICK e : e = announced[i]
    OBVIOUS
  <2>1. announced'[i] = e /\ Fresh(d, e) /\ FreshRow(d, e)
    BY <1>3 DEF VisitInv
  <2>2. CASE d = b
    <3>1. e.at \in Nat /\ e.id \in Contexts /\ e.user \in Someone /\ Attested(e.id, e.user, e.at)
      BY <1>1, EntryTyped DEF VisitInv
    <3>2. ASSUME InHand(b)', e.user = call.user, call.user # NoOne, e.id = call.id
          PROVE  now - e.at > Gap
      <4>1. now - e.at > Retention
        BY <1>2, <3>1, <3>2, ArrivalIsNew
      <4> QED BY <1>1, <3>1, <4>1
    <3>3. ASSUME InHand(b)', e.user = call.user, call.user = NoOne, e.id = call.id
          PROVE  call.at - e.at > Retention
      BY <1>2, <2>1, <2>2, <3>3 DEF FreshRow
    <3>4. Fresh(d, e)'
      BY <1>2, <1>3, <2>2, <3>2, <3>3 DEF Fresh
    <3>5. FreshRow(d, e)'
      BY <1>2, <2>2 DEF FreshRow
    <3> QED BY <2>1, <3>4, <3>5 DEF Fresh, FreshRow
  <2>3. CASE d # b
    BY <1>3, <1>4, <2>1, <2>3 DEF Fresh, FreshRow
  <2> QED BY <2>2, <2>3
<1>14. OncePerVisit'
  BY <1>3 DEF VisitInv, OncePerVisit
<1> QED BY <1>3, <1>7, <1>8, <1>11, <1>12, <1>13, <1>14 DEF VisitInv

\* An arrival that is told is far from those told before, and has no rival on the way.
LEMMA TellKeepsVisits ==
  ASSUME PresenceInv, VisitInv, NEW b \in Beats, Tells(b)
  PROVE  VisitInv'
<1> DEFINE Arrival == [user : Someone, id : Contexts, at : Times, told : Times]
           new == [user |-> beat[b].user, id |-> beat[b].id, at |-> beat[b].at, told |-> now]
           n == Len(announced) + 1
<1>1. /\ PresenceTypeOK /\ now \in Nat /\ now \in Times /\ beat[b] \in Report /\ InHand(b)
      /\ beat[b].stage = "tell" /\ announced \in Seq(Arrival) /\ beat[b].at \in Nat
  BY BoundsAreNat, BeatIsOfATab DEF PresenceInv, PresenceTypeOK, Tells, InHand, Times
<1>2. /\ new.user = beat[b].user /\ new.id = beat[b].id /\ new.at = beat[b].at /\ new.told = now
      /\ new \in Arrival
  BY <1>1 DEF Report
<1>3. UNCHANGED <<now, presences>> /\ announced' = Append(announced, new) /\ beat'[b] = NoBeat
  BY DEF Tells
<1> HIDE DEF new, Arrival
<1>4. /\ DOMAIN announced = 1..n - 1 /\ DOMAIN announced' = 1..n /\ n \in Nat /\ announced'[n] = new
      /\ \A i \in 1..n - 1 : announced'[i] = announced[i]
  BY <1>1, <1>2, <1>3
<1> HIDE DEF n
<1>5. \A e : (\E i \in DOMAIN announced' : e = announced'[i])
               => e = new \/ \E i \in DOMAIN announced : e = announced[i]
  BY <1>4
<1>6. ASSUME NEW d \in Beats
      PROVE  /\ InHand(d)' => InHand(d) /\ d # b /\ beat'[d] = beat[d]
             /\ FindsNothing(d)' => FindsNothing(d) /\ d # b /\ beat'[d] = beat[d]
  BY <1>3 DEF Tells, OtherBeatsStay, InHand, FindsNothing, Pending
<1>7. ASSUME NEW d \in Beats PROVE InHandAttested(d)'
  BY <1>3, <1>6 DEF VisitInv, InHandAttested, Attested
<1>8. ASSUME NEW i \in DOMAIN announced'
      PROVE  Attested(announced[i].id, announced[i].user, announced[i].at)'
  <2> PICK e : e = announced'[i]
    OBVIOUS
  <2>1. Attested(e.id, e.user, e.at)
    <3>1. CASE e = new
      BY <1>1, <1>2, <3>1 DEF VisitInv, InHandAttested
    <3>2. CASE e # new
      BY <1>5, <3>2 DEF VisitInv
    <3> QED BY <3>1, <3>2
  <2> QED BY <1>3, <2>1 DEF Attested
<1>9. ASSUME NEW c \in Beats, NEW d \in Beats
      PROVE  NoRival(c, d)' /\ (FindsNothing(c) /\ InHand(d) => beat[c].id # beat[d].id)'
  BY <1>6 DEF VisitInv, NoRival
<1>10. ASSUME NEW d \in Beats, NEW i \in DOMAIN announced'
       PROVE  Fresh(d, announced[i])' /\ FreshRow(d, announced[i])'
  <2> PICK e : e = announced'[i]
    OBVIOUS
  <2>1. CASE e = new
    <3>1. InHand(d)' /\ beat[d].user = beat[b].user =>
             /\ beat[b].id # beat[d].id
             /\ beat[b].user # NoOne => beat[d].stage = "tabs"
      BY <1>1, <1>6 DEF VisitInv, NoRival
    <3>2. Fresh(d, e)'
      BY <1>2, <1>6, <2>1, <3>1 DEF Fresh
    <3>3. FindsNothing(d)' => beat[d].id # beat[b].id
      BY <1>1, <1>6 DEF VisitInv
    <3>4. FreshRow(d, e)'
      BY <1>2, <1>6, <2>1, <3>3 DEF FreshRow
    <3> QED BY <3>2, <3>4 DEF Fresh, FreshRow
  <2>2. CASE e # new
    <3>1. Fresh(d, e) /\ FreshRow(d, e)
      BY <1>5, <2>2 DEF VisitInv
    <3> QED BY <1>3, <1>6, <3>1 DEF Fresh, FreshRow
  <2> QED BY <2>1, <2>2
<1>11. OncePerVisit'
  <2> SUFFICES ASSUME NEW i \in 1..n, NEW j \in 1..n, i < j,
                      announced'[i].user = announced'[j].user
               PROVE  IF announced'[i].user # NoOne
                      THEN announced'[j].told - announced'[i].at > Gap
                      ELSE announced'[i].id = announced'[j].id =>
                             announced'[j].at - announced'[i].at > Retention
    BY <1>4 DEF OncePerVisit
  <2>1. i \in 1..n - 1 /\ announced'[i] = announced[i]
    BY <1>4
  <2>2. CASE j = n
    <3>1. Fresh(b, announced[i])
      BY <1>4, <2>1 DEF VisitInv
    <3> QED BY <1>1, <1>2, <1>4, <2>1, <2>2, <3>1 DEF Fresh
  <2>3. CASE j # n
    <3>1. j \in 1..n - 1 /\ announced'[j] = announced[j]
      BY <1>4, <2>3
    <3> QED BY <1>4, <2>1, <3>1 DEF VisitInv, OncePerVisit
  <2> QED BY <2>2, <2>3
<1> QED BY <1>7, <1>8, <1>9, <1>10, <1>11 DEF VisitInv

\* Nobody has arrived yet.
LEMMA VisitInvInit == PresenceInit => VisitInv
<1> SUFFICES ASSUME PresenceInit PROVE VisitInv
  OBVIOUS
<1>1. (\A b \in Beats : beat[b] = NoBeat) /\ announced = <<>>
  BY DEF PresenceInit
<1>2. DOMAIN announced = {}
  BY <1>1
<1> QED BY <1>1, <1>2
        DEF VisitInv, InHandAttested, NoRival, Fresh, FreshRow, FindsNothing, InHand, Pending, OncePerVisit

\* So every step keeps it.
LEMMA VisitInvStep ==
  ASSUME Gap >= 1, PresenceInv, TurnInv, VisitInv, [PresenceNext]_presenceVars
  PROVE  VisitInv'
<1>1. Effect \/ UNCHANGED presenceVars
  BY StepHasEffect DEF PresenceInv
<1>2. PresenceTypeOK /\ now \in Nat
  BY BoundsAreNat DEF PresenceInv, PresenceTypeOK, Times
<1>3. ASSUME NEW t \in Tabs, NEW p \in Pages, NEW leaves \in BOOLEAN, NEW b \in Beats,
             NEW id \in Contexts, Sends(t, p, leaves, b, id)
      PROVE  VisitInv'
  <2> DEFINE x == [id |-> id, user |-> session, path |-> p, leaves |-> leaves,
                   stage |-> "sent", at |-> now, existing |-> NoRow]
  <2>1. beat'[b] = x /\ \A d \in Beats \ {b} : beat'[d] = beat[d]
    BY <1>3 DEF Sends, OtherBeatsStay
  <2>2. x.stage = "sent"
    OBVIOUS
  <2> HIDE DEF x
  <2>3. UNCHANGED <<now, presences, announced>>
    BY <1>3 DEF Sends
  <2>4. \A d \in Beats : /\ InHand(d)' => InHand(d) /\ beat'[d] = beat[d]
                         /\ FindsNothing(d)' => FindsNothing(d) /\ beat'[d] = beat[d]
    BY <2>1, <2>2 DEF InHand, FindsNothing, Pending
  <2> QED BY <1>2, <2>3, <2>4, QuietStepsKeepVisits
<1>4. ASSUME NEW b \in Beats, Refuses(b) \/ Drops(b) PROVE VisitInv'
  <2>1. beat'[b] = NoBeat /\ \A d \in Beats \ {b} : beat'[d] = beat[d]
    BY <1>4 DEF Refuses, Drops, OtherBeatsStay
  <2>2. UNCHANGED <<now, presences, announced>>
    BY <1>4 DEF Refuses, Drops
  <2>3. \A d \in Beats : /\ InHand(d)' => InHand(d) /\ beat'[d] = beat[d]
                         /\ FindsNothing(d)' => FindsNothing(d) /\ beat'[d] = beat[d]
    BY <2>1 DEF InHand, FindsNothing, Pending
  <2> QED BY <1>2, <2>2, <2>3, QuietStepsKeepVisits
<1>5. ASSUME NEW b \in Beats, Finds(b) \/ Clears(b) \/ Tells(b) \/ (\E saved : Saves(b, saved))
      PROVE  VisitInv'
  BY <1>5, FindKeepsVisits, ClearKeepsVisits, TellKeepsVisits, SaveKeepsVisits
<1>6. CASE Quietly \/ (\E c \in Contexts : Sweeps(c)) \/ PassTime \/ UNCHANGED presenceVars
  <2>1. UNCHANGED <<beat, announced>> /\ now' \in Nat /\ now <= now'
    BY <1>2, <1>6 DEF Quietly, Sweeps, PassTime, presenceVars
  <2>2. \A c \in Contexts : presences'[c] = presences[c] \/ presences[c].seen < now - Retention
    BY <1>6 DEF Quietly, Sweeps, PassTime, presenceVars
  <2>3. \A d \in Beats : /\ InHand(d)' => InHand(d) /\ beat'[d] = beat[d]
                         /\ FindsNothing(d)' => FindsNothing(d) /\ beat'[d] = beat[d]
    BY <2>1 DEF InHand, FindsNothing, Pending
  <2> QED BY <2>1, <2>2, <2>3, QuietStepsKeepVisits
<1> QED BY <1>1, <1>3, <1>4, <1>5, <1>6 DEF Effect

\* While a tab waits for each answer, and the gap is at least the tick by which requests are
\* measured, operators are told of a visit once: an arrival that was told leaves a row by which
\* the next one is recognised, or is older than the gap.
THEOREM VisitsAreToldOnce ==
  ASSUME OneBeatAtATime, Gap >= 1
  PROVE  PresenceSpec => []OncePerVisit
<1>1. VisitInv => OncePerVisit
  BY DEF VisitInv
<1>2. PresenceInit => PresenceInv /\ TurnInv /\ VisitInv
  BY PresenceInvInit, TurnInvInit, VisitInvInit
<1>3. PresenceInv /\ TurnInv /\ VisitInv /\ [PresenceNext]_presenceVars
        => PresenceInv' /\ TurnInv' /\ VisitInv'
  BY PresenceInvStep, TurnInvStep, VisitInvStep
<1> QED BY <1>1, <1>2, <1>3, PTL DEF PresenceSpec
=============================================================================
