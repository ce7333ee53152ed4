--------------------------- MODULE TransactionFeed ---------------------------
(***************************************************************************)
(* The console's feed of deposit claims and withdrawals: two tables, each  *)
(* read newest first below a cursor, merged and cut to a page.  Customers  *)
(* go on filing while an operator scrolls, and a record is stamped before  *)
(* it is inserted, so it may land below records that are there already.    *)
(***************************************************************************)
EXTENDS Integers, FiniteSets, SequencesExt

CONSTANTS Records,              \* bound: the ids of the records ever filed, compared as numbers
          Instants,             \* bound: the timestamps they carry, some of them equal
          FirstPage, NextPage,  \* the page sizes of the console
          Unfiled

ASSUME FeedAssumption ==
  /\ Records \subseteq Nat \ {0} /\ Instants \subseteq Nat
  /\ FirstPage \in Nat \ {0} /\ NextPage \in Nat \ {0}
  /\ Unfiled \notin [kind : {"deposit", "withdrawal"}, at : Instants]
  /\ \A rows \in SUBSET Records : rows # Unfiled

VARIABLES
  filed,    \* deposit_claims and withdrawals: kind and timestamp of each record, or Unfiled
  feed,     \* what the console makes of its last page: "closed", "more", "end" or "degraded"
  listed,   \* the rows on screen, as ids
  cursor,   \* nextCursor, as the id of the row it points at, or 0
  reading,  \* the page being read: for each table its rows, or Unfiled
  began     \* history: the records there were when the first page was asked for

feedVars == <<filed, feed, listed, cursor, reading, began>>

Kinds == {"deposit", "withdrawal"}
Filed == {r \in Records : filed[r] # Unfiled}
NotReading == [kind \in Kinds |-> Unfiled]

FeedInit ==
  /\ filed = [r \in Records |-> Unfiled]
  /\ feed = "closed" /\ listed = <<>> /\ cursor = 0 /\ reading = NotReading /\ began = {}

----------------------------------------------------------------------------
(* The order and the page *)
\* (occurred_at, id) < (?, ?), and newestFirst.
Below(r, s) == filed[r].at < filed[s].at \/ (filed[r].at = filed[s].at /\ r < s)

\* Mutant: the cursor compares timestamps alone.
BelowCursorByTime(r) == cursor = 0 \/ filed[r].at < filed[cursor].at
\* feedScope
BelowCursor(r) == cursor = 0 \/ Below(r, cursor)

Limit == IF cursor = 0 THEN FirstPage ELSE NextPage
NewestFirst(rows) == \A k, l \in DOMAIN rows : k < l => Below(rows[l], rows[k])
\* order by ... desc limit n
Newest(rs, n) == {r \in rs : Cardinality({s \in rs : Below(r, s)}) < n}
ListPage(kind) == Newest({r \in Filed : filed[r].kind = kind /\ BelowCursor(r)}, Limit)

----------------------------------------------------------------------------
(* Customers file; an operator opens the feed, scrolls, and starts over *)
File(r, kind, at) ==
  /\ filed[r] = Unfiled /\ filed' = [filed EXCEPT ![r] = [kind |-> kind, at |-> at]]
  /\ UNCHANGED <<feed, listed, cursor, reading, began>>

OpenFeed ==
  /\ reading = NotReading
  /\ feed' = "more" /\ listed' = <<>> /\ cursor' = 0 /\ began' = Filed
  /\ UNCHANGED <<filed, reading>>

\* listTransactions: the two tables are read by statements of their own.
ReadTable(kind) ==
  /\ feed = "more" /\ reading[kind] = Unfiled
  /\ reading' = [reading EXCEPT ![kind] = ListPage(kind)]
  /\ UNCHANGED <<filed, feed, listed, cursor, began>>

\* Both have been read: the page is merged, and a short one is the end.
MergePage ==
  /\ \A kind \in Kinds : reading[kind] # Unfiled
  /\ LET merged == Newest(UNION {reading[kind] : kind \in Kinds}, Limit)
     IN  \E page \in [1..Cardinality(merged) -> merged] :
           /\ NewestFirst(page)
           /\ listed' = listed \o page
           /\ IF Len(page) = Limit THEN cursor' = Last(page) /\ UNCHANGED feed
              ELSE cursor' = 0 /\ feed' = "end"
  /\ reading' = NotReading
  /\ UNCHANGED <<filed, began>>

\* Either table cannot be read: an empty page, marked degraded, with no cursor.
FailPage ==
  /\ feed = "more" /\ feed' = "degraded" /\ cursor' = 0 /\ reading' = NotReading
  /\ UNCHANGED <<filed, listed, began>>

FeedNext ==
  \/ \E r \in Records, kind \in Kinds, at \in Instants : File(r, kind, at)
  \/ OpenFeed \/ MergePage \/ FailPage
  \/ \E kind \in Kinds : ReadTable(kind)

FeedSpec == FeedInit /\ [][FeedNext]_feedVars

----------------------------------------------------------------------------
FeedTypeOK ==
  /\ filed \in [Records -> [kind : Kinds, at : Instants] \cup {Unfiled}]
  /\ feed \in {"closed", "more", "end", "degraded"}
  /\ listed \in Seq(Records) /\ cursor \in Records \cup {0}
  /\ reading \in [Kinds -> {Unfiled} \cup SUBSET Records]
  /\ began \subseteq Records

\* "a row inserted above the window shifts every later offset by one, and the reader
\* silently skips a transaction. A cursor describes a position in the data ... so neither
\* happens" (ports.ts:95-99): the rows on screen are in strict order, so none is there
\* twice, and a feed that says it has ended shows every record that was filed when it
\* was opened, whatever was filed at whichever timestamp while the pages were read.
FeedReachesEveryRow ==
  /\ NewestFirst(listed)
  /\ feed = "end" => began \subseteq Range(listed)
=============================================================================
