---------------------------- MODULE Announcements ----------------------------
(***************************************************************************)
(* The platform's notices: drafts, schedules, publications and the archive, *)
(* moved by operators from the console.  A move reads the row, applies the  *)
(* aggregate's rule to its copy and saves the copy; nothing compares a      *)
(* version.  Nothing fires when a scheduled moment comes: a notice is live  *)
(* when the clock says so.                                                  *)
(*                                                                         *)
(* Text, surface and tone ride along unchanged.  An operator types local   *)
(* times; the server reads them in its own zone.                           *)
(***************************************************************************)
EXTENDS Integers, FiniteSets

CONSTANTS Notices,      \* the ids notices may be written under
          Operators,
          MaxTime,      \* bound: how many ticks pass
          ZoneLag,      \* how many ticks later the server's zone reads a typed time
          NoNotice, NoTime, NoMove

ASSUME AnnouncementAssumption ==
  /\ MaxTime \in Nat /\ ZoneLag \in Nat
  /\ NoTime \notin Int

VARIABLES
  clock,    \* the server's clock
  notice,   \* the row of each notice, or NoNotice
  move,     \* the move each operator has under way, or NoMove
  chosen    \* what was last asked of each notice and answered as done, or NoMove

announcementVars == <<clock, notice, move, chosen>>

Typed == 0..MaxTime + 1                    \* what an operator may type
Moments == 0..MaxTime + 1 + ZoneLag
Maybe(S) == S \cup {NoTime}
Moves == {"publish", "unpublish", "archive", "schedule"}

AnnouncementRow == [status : {"draft", "scheduled", "published", "archived"},
                    publishAt : Maybe(Moments), expiresAt : Maybe(Moments)]
Choice == [action : Moves \cup {"draft"}, typed : Maybe(Typed)]
Move == [target : Notices, row : AnnouncementRow, choice : Choice]

\* The nulls are no rows.
ASSUME NoNoticeAssumption == NoNotice \notin AnnouncementRow /\ NoMove \notin Move

\* parseInstant: a typed time is read in the server's zone.
ParseInstant(t) == IF t = NoTime THEN NoTime ELSE t + ZoneLag

Expired(row, t) == row.expiresAt # NoTime /\ row.expiresAt <= t

\* Mutant: a scheduled notice waits for a job to promote it.
IsLiveAtOncePublished(row, t) ==
  /\ row.status = "published"
  /\ row.publishAt # NoTime /\ row.publishAt <= t
  /\ ~Expired(row, t)

\* Announcement.isLiveAt, which is also the window of listLive.
IsLiveAt(row, t) ==
  /\ row.status \in {"published", "scheduled"}
  /\ row.publishAt # NoTime /\ row.publishAt <= t
  /\ ~Expired(row, t)

\* A schedule throws unless its time is to come and before the expiry.
MaySchedule(row, at) == at # NoTime /\ at > clock /\ ~Expired(row, at)

\* Mutant: a notice taken down keeps the time it was published at.
MovedKeepingTime(row, action, at) ==
  CASE action = "publish" -> [row EXCEPT !.status = "published", !.publishAt = clock]
    [] action = "unpublish" -> [row EXCEPT !.status = "draft"]
    [] action = "archive" -> [row EXCEPT !.status = "archived"]
    [] action = "schedule" -> [row EXCEPT !.status = "scheduled", !.publishAt = at]

\* What each move leaves of a row.
Moved(row, action, at) ==
  CASE action = "publish" -> [row EXCEPT !.status = "published", !.publishAt = clock]
    [] action = "unpublish" -> [row EXCEPT !.status = "draft", !.publishAt = NoTime]
    [] action = "archive" -> [row EXCEPT !.status = "archived"]
    [] action = "schedule" -> [row EXCEPT !.status = "scheduled", !.publishAt = at]

----------------------------------------------------------------------------
AnnouncementInit ==
  /\ clock = 0
  /\ notice = [n \in Notices |-> NoNotice]
  /\ move = [o \in Operators |-> NoMove]
  /\ chosen = [n \in Notices |-> NoMove]

\* composeAnnouncement: one insert.  Asked to schedule with no time typed, it keeps
\* the draft and answers as it does to a schedule.
Compose(n, action, from, until) ==
  LET at == ParseInstant(from)
      draft == [status |-> "draft", publishAt |-> NoTime, expiresAt |-> ParseInstant(until)]
  IN /\ notice[n] = NoNotice
     /\ ~Expired(draft, clock)
     /\ action # "schedule" => from = NoTime
     /\ action = "schedule" /\ at # NoTime => MaySchedule(draft, at)
     /\ notice' = [notice EXCEPT ![n] =
          IF action = "draft" \/ (action = "schedule" /\ at = NoTime) THEN draft
          ELSE Moved(draft, action, at)]
     /\ chosen' = [chosen EXCEPT ![n] = [action |-> action, typed |-> from]]
     /\ UNCHANGED <<clock, move>>

\* moveAnnouncement up to its write: the row is read and the rule applied to the copy.
\* A move the rules refuse ends here.  The cards of the console offer to take down a
\* notice that was live when they were drawn, which may be long ago.
ReadToMove(o, n, action, from) ==
  LET row == notice[n]
      at == ParseInstant(from)
  IN /\ move[o] = NoMove
     /\ row # NoNotice /\ row.status # "archived"
     /\ action = "schedule" => MaySchedule(row, at)
     /\ action # "schedule" => from = NoTime
     /\ move' = [move EXCEPT ![o] = [target |-> n, row |-> Moved(row, action, at),
                                     choice |-> [action |-> action, typed |-> from]]]
     /\ UNCHANGED <<clock, notice, chosen>>

\* The upsert, which overwrites whatever the row holds by now.
SaveMove(o) ==
  /\ move[o] # NoMove
  /\ notice' = [notice EXCEPT ![move[o].target] = move[o].row]
  /\ chosen' = [chosen EXCEPT ![move[o].target] = move[o].choice]
  /\ move' = [move EXCEPT ![o] = NoMove]
  /\ UNCHANGED clock

\* The write of a move fails, or its process stops before it.  A write that commits is
\* taken to be answered.
MoveFails(o) ==
  /\ move[o] # NoMove
  /\ move' = [move EXCEPT ![o] = NoMove]
  /\ UNCHANGED <<clock, notice, chosen>>

PassTime == /\ clock < MaxTime
            /\ clock' = clock + 1
            /\ UNCHANGED <<notice, move, chosen>>

AnnouncementNext ==
  \/ \E n \in Notices, action \in {"draft", "publish", "schedule"},
        from \in Maybe(Typed), until \in Maybe(Typed) : Compose(n, action, from, until)
  \/ \E o \in Operators, n \in Notices, action \in Moves, from \in Maybe(Typed) :
       ReadToMove(o, n, action, from)
  \/ \E o \in Operators : SaveMove(o) \/ MoveFails(o)
  \/ PassTime

AnnouncementSpec == AnnouncementInit /\ [][AnnouncementNext]_announcementVars

Composed == {n \in Notices : notice[n] # NoNotice}
Live(n) == IsLiveAt(notice[n], clock)

----------------------------------------------------------------------------
\* The tables and the copies under way hold what their columns may hold, and a draft has
\* no time to appear at.
AnnouncementTypeOK ==
  /\ clock \in 0..MaxTime
  /\ notice \in [Notices -> AnnouncementRow \cup {NoNotice}]
  /\ \A n \in Composed : notice[n].status = "draft" => notice[n].publishAt = NoTime
  /\ move \in [Operators -> Move \cup {NoMove}]
  /\ chosen \in [Notices -> Choice \cup {NoMove}]

\* The clock alone puts a notice up and takes it down: at every moment the notices on
\* the customer surface are those whose last answered move put them there, from the
\* time it named until they expire, also when two operators move one notice at once.
ShowsWhatWasChosen ==
  \A n \in Composed :
    Live(n) <=> /\ \/ chosen[n].action = "publish"
                   \/ /\ chosen[n].action = "schedule" /\ chosen[n].typed # NoTime
                      /\ clock >= ParseInstant(chosen[n].typed)
                /\ ~Expired(notice[n], clock)
=============================================================================
