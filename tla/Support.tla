------------------------------- MODULE Support -------------------------------
(***************************************************************************)
(* The support conversations of one customer.  A conversation is two       *)
(* documents in Firestore, its summary and its transcript; the images are  *)
(* rows of a table in Postgres.  postMessage and decideConversation read   *)
(* the summary, append to the transcript and write the whole summary back, *)
(* each await a step of its own.                                           *)
(*                                                                         *)
(* OneAtATime lets one call at a time touch a thread; StopsAnywhere lets a *)
(* request stop between the append and the save as well as before them.    *)
(***************************************************************************)
EXTENDS Integers, Sequences, FiniteSets

CONSTANTS MaxThreads,    \* bound: conversations ever opened; their ids are 1..MaxThreads
          Images,        \* the images ever uploaded
          MaxMessages,   \* bound: messages ever written, in all threads
          Requests,      \* bound: the requests under way at once
          OneAtATime, StopsAnywhere,
          Nothing

ASSUME SupportAssumption ==
  /\ MaxThreads \in Nat /\ MaxMessages \in Nat
  /\ OneAtATime \in BOOLEAN /\ StopsAnywhere \in BOOLEAN

VARIABLES
  summary,     \* conversations/{id}: status and unread count, or Nothing
  transcript,  \* conversations/{id}/messages, in the order they were written
  image,       \* support_attachments: uploader and conversation of each row, or Nothing
  request,     \* per slot, the call under way
  readTo       \* history: how much of each transcript an operator had read

supportVars == <<summary, transcript, image, request, readTo>>

Threads == 1..MaxThreads
People == {"customer", "operator"}
Summary == [status : {"open", "resolved"}, unread : 0..MaxMessages]
ImageRow == [uploader : People, thread : Threads \cup {0}]
\* Who wrote a message: a person, or the system noting a claim or a resolution.
Message == [author : People \cup {"claimed", "resolved"}, image : Images \cup {Nothing}]
Actions == {"claim", "resolve", "prioritise", "mark-read"}
Notes == [action \in {"claim", "resolve"} |-> IF action = "claim" THEN "claimed" ELSE "resolved"]
Draft == [by : People, thread : Threads, image : Images \cup {Nothing}]

\* The null is no row.
ASSUME NoRowOfSupport == Nothing \notin Summary \cup ImageRow

IsIdle(q) == request[q].at = "idle"

SupportInit ==
  /\ summary = [t \in Threads |-> Nothing] /\ transcript = [t \in Threads |-> <<>>]
  /\ image = [i \in Images |-> Nothing]
  /\ request = [q \in Requests |-> [at |-> "idle"]]
  /\ readTo = [t \in Threads |-> 0]

Opened(t) == summary[t] # Nothing
Busy == {request[q].draft.thread : q \in {r \in Requests : ~IsIdle(r)}}
\* No other call is between its read and its write of this thread.
Free(t) == OneAtATime => t \notin Busy
Taken(t) == Opened(t) \/ t \in Busy
Written == {w \in Threads \X (1..MaxMessages) : w[2] <= Len(transcript[w[1]])}
Room == Cardinality(Written) < MaxMessages
Become(q, to) == request' = [request EXCEPT ![q] = to]
Finish(q) == Become(q, [at |-> "idle"])

----------------------------------------------------------------------------
(* postMessage *)
\* Where a message goes after locate: through the claim of its image, if it has one.
AfterLocate(draft) == IF draft.image = Nothing THEN "append" ELSE "claim"

\* locate, of a thread named by its id: the customer's own, or any for an operator.
PostTo(q, by, t, i) ==
  /\ IsIdle(q) /\ Opened(t) /\ Free(t)
  /\ LET draft == [by |-> by, thread |-> t, image |-> i]
     IN  Become(q, [at |-> AfterLocate(draft), draft |-> draft, copy |-> summary[t], read |-> 0])
  /\ UNCHANGED <<summary, transcript, image, readTo>>

\* locate, of no thread: an open one of the customer's, or a new one. Which of two open
\* ones is the latest is left open.
PostUnnamed(q, i) ==
  /\ IsIdle(q)
  /\ IF \E t \in Threads : Opened(t) /\ summary[t].status = "open"
     THEN \E t \in Threads :
            Opened(t) /\ summary[t].status = "open" /\ PostTo(q, "customer", t, i)
     ELSE \E t \in Threads :
            /\ ~Taken(t) /\ \A u \in 1..(t - 1) : Taken(u)
            /\ Become(q, [at |-> "open", draft |-> [by |-> "customer", thread |-> t, image |-> i],
                          copy |-> [status |-> "open", unread |-> 0], read |-> 0])
            /\ UNCHANGED <<summary, transcript, image, readTo>>

OpenThread(q) ==
  /\ request[q].at = "open"
  /\ summary' = [summary EXCEPT ![request[q].draft.thread] = request[q].copy]
  /\ Become(q, [request[q] EXCEPT !.at = AfterLocate(request[q].draft)])
  /\ UNCHANGED <<transcript, image, readTo>>

\* Mutant: the update does not ask whether the image is already in a conversation.
ClaimableTwice(i, by) == image[i] # Nothing /\ image[i].uploader = by
\* attach: one update, scoped to the uploader and to an image no message has.
Claimable(i, by) == image[i] # Nothing /\ image[i].uploader = by /\ image[i].thread = 0

ClaimImage(q) ==
  /\ request[q].at = "claim"
  /\ LET d == request[q].draft
     IN  IF Claimable(d.image, d.by)
         THEN /\ image' = [image EXCEPT ![d.image].thread = d.thread]
              /\ Become(q, [request[q] EXCEPT !.at = "append"])
         ELSE Finish(q) /\ UNCHANGED image
  /\ UNCHANGED <<summary, transcript, readTo>>

\* recordMessage: a customer's message reopens the thread and counts as unread.
RecordMessage(s, author) ==
  IF author = "customer" THEN [status |-> "open", unread |-> s.unread + 1] ELSE s

\* Message.create and append.
AppendMessage(q) ==
  /\ request[q].at = "append"
  /\ LET d == request[q].draft
     IN  /\ Room
         /\ transcript' = [transcript EXCEPT ![d.thread] =
              Append(@, [author |-> d.by, image |-> d.image])]
         /\ Become(q, [request[q] EXCEPT !.at = "save", !.copy = RecordMessage(@, d.by)])
  /\ UNCHANGED <<summary, image, readTo>>

\* save: every field of the summary, from the copy.
SaveSummary(q) ==
  /\ request[q].at = "save"
  /\ LET t == request[q].draft.thread
     IN  /\ summary' = [summary EXCEPT ![t] = request[q].copy]
         /\ readTo' = IF request[q].read = 0 THEN readTo ELSE [readTo EXCEPT ![t] = request[q].read]
  /\ Finish(q)
  /\ UNCHANGED <<transcript, image>>

----------------------------------------------------------------------------
(* decideConversation, the upload of an image, and a stop *)
\* Mutant: a resolution leaves the badge up.
ResolveUnread(s) == [s EXCEPT !.status = "resolved"]
Resolve(s) == [status |-> "resolved", unread |-> 0]

Transition(s, action) ==
  CASE action = "resolve" -> Resolve(s)
    [] action = "mark-read" -> [s EXCEPT !.unread = 0]
    [] OTHER -> s                             \* claim and prioritise: fields left out here

\* A claim and a resolution are noted in the transcript before the summary is saved.
Decide(q, t, action) ==
  /\ IsIdle(q) /\ Opened(t) /\ Free(t)
  /\ Become(q, [at |-> IF action \in DOMAIN Notes THEN "note" ELSE "save",
                draft |-> [by |-> "operator", thread |-> t, image |-> Nothing],
                copy |-> Transition(summary[t], action),
                note |-> IF action \in DOMAIN Notes THEN Notes[action] ELSE "none",
                read |-> IF action \in {"resolve", "mark-read"} THEN Len(transcript[t]) ELSE 0])
  /\ UNCHANGED <<summary, transcript, image, readTo>>

AppendNote(q) ==
  /\ request[q].at = "note"
  /\ LET t == request[q].draft.thread
         note == request[q].note
     IN  /\ Room
         /\ transcript' = [transcript EXCEPT ![t] = Append(@, [author |-> note, image |-> Nothing])]
         /\ Become(q, [request[q] EXCEPT !.at = "save", !.copy = RecordMessage(@, note)])
  /\ UNCHANGED <<summary, image, readTo>>

Upload(by, i) ==
  /\ image[i] = Nothing
  /\ image' = [image EXCEPT ![i] = [uploader |-> by, thread |-> 0]]
  /\ UNCHANGED <<summary, transcript, request, readTo>>

StopRequest(q) ==
  /\ ~IsIdle(q) /\ (request[q].at # "save" \/ StopsAnywhere)
  /\ Finish(q)
  /\ UNCHANGED <<summary, transcript, image, readTo>>

SupportNext ==
  \/ \E q \in Requests :
       \/ \E i \in Images \cup {Nothing} :
            PostUnnamed(q, i) \/ \E by \in People, t \in Threads : PostTo(q, by, t, i)
       \/ \E t \in Threads, action \in Actions : Decide(q, t, action)
       \/ OpenThread(q) \/ ClaimImage(q) \/ AppendMessage(q) \/ AppendNote(q)
       \/ SaveSummary(q) \/ StopRequest(q)
  \/ \E by \in People, i \in Images : Upload(by, i)

SupportSpec == SupportInit /\ [][SupportNext]_supportVars

----------------------------------------------------------------------------
SupportCall == [at : {"idle"}]
  \cup [at : {"open", "claim", "append", "save"}, draft : Draft, copy : Summary, read : {0}]
  \cup [at : {"save"}, draft : Draft, copy : Summary, note : {"none"}, read : 0..MaxMessages]
  \cup [at : {"note", "save"}, draft : Draft, copy : Summary, note : {"claimed", "resolved"},
        read : 0..MaxMessages]
SupportTypeOK ==
  /\ summary \in [Threads -> Summary \cup {Nothing}]
  /\ transcript \in [Threads -> Seq(Message)]
  /\ \A t \in Threads : Len(transcript[t]) <= MaxMessages
  /\ image \in [Images -> ImageRow \cup {Nothing}]
  /\ request \in [Requests -> SupportCall] /\ readTo \in [Threads -> 0..MaxMessages]

\* Both documents of the thread have been written by the calls that touched it.
Settled(t) ==
  Opened(t) /\ \A q \in Requests : request[q].at = "save" => request[q].draft.thread # t
Wrote(t, k, author) == transcript[t][k].author = author

\* Two promises about the summary of a thread that no call is about to save. "A customer
\* writing to a resolved thread reopens it. The alternative is a reply nobody is looking
\* at" (conversation.ts:126): its status is what the last resolution and the messages after
\* it make it. "unreadForOperator counts exactly the customer messages nobody has read"
\* (support-widget.tsx:203-208), which the widget turns into ticks by position. Claims,
\* readings and requests that stopped come between.
SummaryTellsTranscript ==
  \A t \in Threads : Settled(t) =>
    /\ summary[t].status = "resolved" <=>
         \E k \in DOMAIN transcript[t] :
           /\ Wrote(t, k, "resolved")
           /\ \A l \in (k + 1)..Len(transcript[t]) : ~Wrote(t, l, "customer")
    /\ summary[t].unread =
         Cardinality({k \in (readTo[t] + 1)..Len(transcript[t]) : Wrote(t, k, "customer")})

\* An image claimed by several messages at once, in several threads and over retries
\* (attachments.ts:71-74), ends in at most one of them, and in the conversation its row
\* says, which is what decides who may open it.
ImageOnOneMessage ==
  \A t, u \in Threads : \A k \in DOMAIN transcript[t], l \in DOMAIN transcript[u] :
    LET i == transcript[t][k].image
    IN  i # Nothing =>
          /\ image[i].thread = t
          /\ transcript[u][l].image = i => <<t, k>> = <<u, l>>
=============================================================================
