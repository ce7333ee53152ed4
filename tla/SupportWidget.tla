---------------------------- MODULE SupportWidget ----------------------------
(***************************************************************************)
(* The customer's support widget in one tab: the box, the bubbles drawn    *)
(* before the server has the message, the queue that posts one message     *)
(* after another, and the transcript a listener or a poll replaces.  The   *)
(* server appends a message, refuses it, or its answer is lost; images     *)
(* are left out.  Messages are told apart by their text alone, as the      *)
(* widget does until a post has answered.                                  *)
(***************************************************************************)
EXTENDS Integers, Sequences, SequencesExt

CONSTANTS Texts,     \* what the customer types
          MaxSends,  \* bound: how often Enter is pressed
          Empty      \* the empty box

ASSUME WidgetAssumption == MaxSends \in Nat /\ Texts # {} /\ Empty \notin Texts

VARIABLES
  box,         \* the draft in the composer
  pending,     \* the bubbles: their text, and the stored message they adopted, or 0
  queue,       \* the sends that wait or are under way, as bubble numbers
  posted,      \* whether the server has dealt with the head of the queue
  stored,      \* the thread's messages on the server, the first one from before
  seen,        \* how many of them the transcript on screen holds
  sends,       \* how often Enter was pressed
  owed         \* history: the texts sent and not taken out of the box again since

widgetVars == <<box, pending, queue, posted, stored, seen, sends, owed>>

Bubble == [number : 1..MaxSends, text : Texts, adopted : Nat]
Outcomes == {"waiting", "created", "refused"}
LastStored == Len(stored)

WidgetInit ==
  /\ box = Empty /\ pending = <<>> /\ queue = <<>> /\ posted = "waiting"
  /\ stored = <<CHOOSE text \in Texts : TRUE>>
  /\ seen = 1 /\ sends = 0 /\ owed = {}

----------------------------------------------------------------------------
(* The customer *)
\* Anything in the box is replaced; a text given back by a refusal may be thrown away.
Type(text) ==
  /\ text # box /\ box' = text /\ owed' = owed \ {box}
  /\ UNCHANGED <<pending, queue, posted, stored, seen, sends>>

\* send: the bubble is drawn and the box emptied on the keystroke.
Send ==
  /\ box # Empty /\ sends < MaxSends /\ sends' = sends + 1
  /\ pending' = Append(pending, [number |-> sends', text |-> box, adopted |-> 0])
  /\ queue' = Append(queue, sends')
  /\ box' = Empty /\ owed' = owed \cup {box}
  /\ UNCHANGED <<posted, stored, seen>>

----------------------------------------------------------------------------
(* The server and the transcript *)
PlaceOf(n) == CHOOSE k \in DOMAIN pending : pending[k].number = n
TextOf(n) == pending[PlaceOf(n)].text

\* The head of the queue is posted; nothing behind it is until it has been answered.
StoreMessage ==
  /\ queue # <<>> /\ posted = "waiting" /\ posted' = "created"
  /\ stored' = Append(stored, TextOf(Head(queue)))
  /\ UNCHANGED <<box, pending, queue, seen, sends, owed>>
RefuseMessage ==
  /\ queue # <<>> /\ posted = "waiting" /\ posted' = "refused"
  /\ UNCHANGED <<box, pending, queue, stored, seen, sends, owed>>

\* A snapshot or a poll; a read that failed answers an empty thread (route.ts:66).
ShowTranscript ==
  /\ seen' \in {0, LastStored} \ {seen}
  /\ UNCHANGED <<box, pending, queue, posted, stored, sends, owed>>

----------------------------------------------------------------------------
(* deliver, once the answer is there *)
Answered == posted' = "waiting" /\ queue' = Tail(queue)
Without(n) == RemoveAt(pending, PlaceOf(n))

\* 201: the bubble adopts the server's id, or goes if the body will not parse.
Confirm ==
  /\ posted = "created" /\ Answered
  /\ \/ pending' = [k \in DOMAIN pending |->
           IF pending[k].number = Head(queue) THEN [pending[k] EXCEPT !.adopted = LastStored]
           ELSE pending[k]]
     \/ pending' = Without(Head(queue))
  /\ UNCHANGED <<box, stored, seen, sends, owed>>

\* Mutant: the text goes back into the box whatever has been typed there since.
GiveBackAlways(n) == box' = TextOf(n) /\ pending' = Without(n)
\* refuse: back into the box when it is free; otherwise the bubble stays, as not sent.
GiveBack(n) ==
  IF box = Empty THEN box' = TextOf(n) /\ pending' = Without(n) ELSE UNCHANGED <<box, pending>>

\* Refused, or the connection broke before the answer arrived.
Refuse ==
  /\ posted \in {"created", "refused"} /\ Answered
  /\ GiveBack(Head(queue))
  /\ UNCHANGED <<stored, seen, sends, owed>>

WidgetNext ==
  \/ \E text \in Texts \cup {Empty} : Type(text)
  \/ Send \/ StoreMessage \/ RefuseMessage \/ ShowTranscript \/ Confirm \/ Refuse

WidgetSpec == WidgetInit /\ [][WidgetNext]_widgetVars

----------------------------------------------------------------------------
(* shown: what is drawn *)
\* The bubbles drawn after the transcript. Going through them in order, one that adopted
\* a message on screen is not drawn, and one that a message of the same text echoes takes
\* that echo; every message but the first is recent enough to be one.
Echo(text, taken) == {k \in 2..seen : stored[k] = text /\ k \notin taken}
NothingDrawn == [drawn |-> <<>>, taken |-> {}]
DrawNext(acc, b) ==
  LET echoes == Echo(b.text, acc.taken)
  IN  IF b.adopted \in 1..seen THEN acc
      ELSE IF echoes = {} THEN [acc EXCEPT !.drawn = Append(@, b.text)]
      ELSE [acc EXCEPT !.taken = @ \cup {CHOOSE k \in echoes : \A l \in echoes : k <= l}]
Drawing[n \in 0..Len(pending)] ==
  IF n = 0 THEN NothingDrawn ELSE DrawNext(Drawing[n - 1], pending[n])
Unconfirmed == Drawing[Len(pending)].drawn
Shown == SubSeq(stored, 1, seen) \o Unconfirmed

WidgetTypeOK ==
  /\ box \in Texts \cup {Empty} /\ pending \in Seq(Bubble) /\ queue \in Seq(1..MaxSends)
  /\ posted \in Outcomes /\ stored \in Seq(Texts) /\ seen \in 0..LastStored
  /\ sends \in 0..MaxSends /\ owed \subseteq Texts

\* "overwriting what somebody has just typed to hand back what they typed a minute ago
\* loses one to save the other" (support-widget.tsx:302): whatever is queued, refused,
\* lost on the way back or wiped by a failed read, a text the customer sent is with the
\* server, on screen after the transcript, or back in the box.
NothingTypedIsLost ==
  \A text \in owed :
    \/ box = text \/ text \in Range(Unconfirmed)
    \/ \E k \in 2..LastStored : stored[k] = text
=============================================================================
