----------------------------- MODULE AlertsProofs -----------------------------
(***************************************************************************)
(* What holds of price alerts for any customers, symbols, prices, batches  *)
(* and numbers of alerts, whatever fails and whenever the process stops.   *)
(*                                                                         *)
(* The types hold however many evaluations go on at once.  That a customer *)
(* is told once per arming holds while evaluations take turns: an arming   *)
(* is then in one of three places - the row is armed, the one batch in     *)
(* hand has it, or its telling is on the way - and moves forward only.     *)
(***************************************************************************)
EXTENDS Alerts, FiniteSetTheorems, SequenceTheorems, TLAPS

----------------------------------------------------------------------------
(* Types *)

\* The two halves of the type invariant: the market and the passes, and the alerts.
MarketTyped ==
  /\ now \in 0..MaxTime /\ market \in [Symbols -> Prices]
  /\ ticker \in Quotes
  /\ heal \in [step : {"off", "fetch", "record"}, quotes : Quotes]
  /\ tried \in (-Cooldown - 1)..MaxTime
  /\ ticking \in Passes \cup {None} /\ faults \in 0..MaxFaults
  /\ pc \in [Passes -> {"idle", "fetch", "record", "read", "await", "reread", "list", "fire"}]
  /\ quotes \in [Passes -> Quotes]
  /\ ticking # None => pc[ticking] # "idle"
AlertsTyped ==
  /\ alert \in [AlertIds -> AlertRow \cup {None}]
  /\ next \in 1..(Cardinality(AlertIds) + 1)
  /\ queue \in [Passes -> Seq(Draft)] /\ news \in [Passes -> Seq(AlertIds)]
  /\ step \in [Clients -> {"idle", "save"}]
  /\ draft \in [Clients -> Draft \cup {None}]
  /\ \A c \in Clients : step[c] = "idle" <=> draft[c] = None
  /\ due \in [AlertIds -> Int]

\* The halves make the whole.
LEMMA HalvesOfTypes ==
  /\ AlertTypeOK <=> MarketTyped /\ AlertsTyped
  /\ AlertTypeOK' <=> MarketTyped' /\ AlertsTyped'
BY DEF AlertTypeOK, MarketTyped, AlertsTyped

LEMMA NoQuotesTyped == NoQuotes \in Quotes
BY DEF NoQuotes, Quotes

\* What is observed, read or recorded is a table of quotes.
LEMMA ObservedTyped ==
  ASSUME MarketTyped, NEW S
  PROVE  Observed(S) \in Quotes
<1>1. now \in 0..MaxTime /\ \A s \in Symbols : market[s] \in Prices
  BY DEF MarketTyped
<1> QED
  BY <1>1 DEF Observed, Quotes, Observation

LEMMA UpsertTyped ==
  ASSUME MarketTyped, NEW batch \in Quotes, Upsert(batch)
  PROVE  ticker' \in Quotes
BY DEF MarketTyped, Upsert, Quotes

LEMMA LiveTyped == MarketTyped => Live \in Quotes
BY DEF MarketTyped, Live, Quotes

\* A fault is used up only while some are left.
LEMMA FaultsTyped ==
  ASSUME MarketTyped, Fails \/ UNCHANGED faults
  PROVE  faults' \in 0..MaxFaults
BY MarketAssumption DEF MarketTyped, Fails

\* However passes end, they are idle and the loop is free if it ran one of them.
LEMMA EndPassesTyped ==
  ASSUME MarketTyped, NEW R \in SUBSET Passes, EndPasses(R)
  PROVE  /\ ticking' \in Passes \cup {None}
         /\ pc' \in [Passes -> {"idle", "fetch", "record", "read", "await", "reread", "list", "fire"}]
         /\ quotes' \in [Passes -> Quotes]
         /\ ticking' # None => pc'[ticking'] # "idle"
  <1>1. quotes' \in [Passes -> Quotes]
    BY NoQuotesTyped DEF MarketTyped, EndPasses
  <1> QED
    BY <1>1 DEF MarketTyped, EndPasses

LEMMA EndPassTyped ==
  ASSUME MarketTyped, NEW r \in Passes, EndPass(r)
  PROVE  /\ ticking' \in Passes \cup {None}
         /\ pc' \in [Passes -> {"idle", "fetch", "record", "read", "await", "reread", "list", "fire"}]
         /\ quotes' \in [Passes -> Quotes]
         /\ ticking' # None => pc'[ticking'] # "idle"
  <1>1. {r} \in SUBSET Passes /\ EndPasses({r})
    BY DEF EndPass
  <1> QED
    BY <1>1, EndPassesTyped

\* The refresh that readers share fetches, records, and lets them go or ends their passes.
LEMMA HealTyped ==
  ASSUME MarketTyped, HealStep
  PROVE  MarketTyped'
<1>1. \A S : Observed(S) \in Quotes
  BY ObservedTyped
<1>2. heal.quotes \in Quotes
  BY DEF MarketTyped
<1>3. ticker' \in Quotes
  BY <1>2, UpsertTyped DEF HealStep, MarketTyped
<1>4. faults' \in 0..MaxFaults
  BY FaultsTyped DEF HealStep, Answers
<1>5. heal' \in [step : {"off", "fetch", "record"}, quotes : Quotes]
  BY <1>1, NoQuotesTyped DEF HealStep, RefreshSettles, RefreshRejects
<1>6. /\ ticking' \in Passes \cup {None}
      /\ pc' \in [Passes -> {"idle", "fetch", "record", "read", "await", "reread", "list", "fire"}]
      /\ quotes' \in [Passes -> Quotes]
      /\ ticking' # None => pc'[ticking'] # "idle"
  <2>1. CASE UNCHANGED <<pc, quotes, ticking>>
    BY <2>1 DEF MarketTyped
  <2>2. CASE RefreshSettles
    BY <2>2 DEF RefreshSettles, MarketTyped
  <2>3. CASE RefreshRejects
    <3>1. Awaiting \in SUBSET Passes /\ EndPasses(Awaiting)
      BY <2>3 DEF RefreshRejects, Awaiting
    <3> QED
      BY <3>1, EndPassesTyped
  <2> QED
    BY <2>1, <2>2, <2>3 DEF HealStep
<1> QED
  BY <1>3, <1>4, <1>5, <1>6 DEF HealStep, MarketTyped

\* What a pass reads of the tickers, and what it costs when they cannot be read.
LEMMA ReadTyped ==
  ASSUME MarketTyped, NEW r \in Passes, NEW rows \in {Live, NoQuotes}, LatestFor(rows),
         quotes' = [quotes EXCEPT ![r] = rows]
  PROVE  quotes' \in [Passes -> Quotes] /\ faults' \in 0..MaxFaults
<1>1. rows \in Quotes
  BY LiveTyped, NoQuotesTyped
<1>2. Fails \/ UNCHANGED faults
  BY DEF LatestFor
<1> QED
  BY <1>1, <1>2, FaultsTyped DEF MarketTyped

\* The market moves, and the refreshes go on, as their types say.
LEMMA MarketStepTyped ==
  ASSUME MarketTyped,
         Move \/ HealStep \/ \E r \in Passes :
           \/ StartTick(r) \/ StartPost(r) \/ FetchQuotes(r) \/ RecordTickers(r)
           \/ ReadMarkets(r) \/ StopWaiting(r) \/ ReadAgain(r)
  PROVE  MarketTyped'
<1>1. CASE Move
  BY <1>1, MarketAssumption DEF Move, MarketTyped
<1>2. CASE HealStep
  BY <1>2, HealTyped
<1>3. CASE \E r \in Passes : StartTick(r) \/ StartPost(r)
  BY <1>3, MarketAssumption DEF StartTick, StartPost, At, Goto, MarketTyped
<1>4. ASSUME NEW r \in Passes, FetchQuotes(r)
      PROVE  MarketTyped'
  <2>1. faults' \in 0..MaxFaults
    BY <1>4, FaultsTyped DEF FetchQuotes, Answers
  <2>2. CASE EndPass(r)
    BY <1>4, <2>1, <2>2, EndPassTyped DEF FetchQuotes, MarketTyped, EndPass
  <2>3. CASE \E S \in SUBSET Symbols : Answers(S) /\ quotes' = [quotes EXCEPT ![r] = Observed(S)]
    <3>1. quotes' \in [Passes -> Quotes]
      BY <2>3, ObservedTyped DEF MarketTyped
    <3> QED
      BY <1>4, <2>1, <3>1, EndPassTyped DEF FetchQuotes, MarketTyped, At, Goto
  <2> QED
    BY <1>4, <2>2, <2>3 DEF FetchQuotes
<1>5. ASSUME NEW r \in Passes, RecordTickers(r)
      PROVE  MarketTyped'
  <2>1. faults' \in 0..MaxFaults
    BY <1>5, FaultsTyped DEF RecordTickers
  <2>2. ticker' \in Quotes
    BY <1>5, UpsertTyped DEF RecordTickers, MarketTyped
  <2>3. CASE Fails /\ EndPass(r) /\ UNCHANGED ticker
    BY <1>5, <2>1, <2>2, <2>3, EndPassTyped DEF RecordTickers, MarketTyped
  <2>4. CASE Goto(r, "read") /\ quotes' = [quotes EXCEPT ![r] = NoQuotes] /\ UNCHANGED <<ticking, faults>>
    <3>1. quotes' \in [Passes -> Quotes]
      BY <2>4, NoQuotesTyped DEF MarketTyped
    <3> QED
      BY <1>5, <2>1, <2>2, <2>4, <3>1 DEF RecordTickers, MarketTyped, At, Goto
  <2> QED
    BY <1>5, <2>3, <2>4 DEF RecordTickers
<1>6. ASSUME NEW r \in Passes, ReadMarkets(r)
      PROVE  MarketTyped'
  <2>1. PICK rows \in {Live, NoQuotes} : LatestFor(rows) /\ quotes' = [quotes EXCEPT ![r] = rows]
    BY <1>6 DEF ReadMarkets
  <2>2. quotes' \in [Passes -> Quotes] /\ faults' \in 0..MaxFaults
    BY <2>1, ReadTyped
  <2>3. heal' \in [step : {"off", "fetch", "record"}, quotes : Quotes]
    BY <1>6 DEF ReadMarkets, MarketTyped
  <2>4. tried' \in (-Cooldown - 1)..MaxTime
    BY <1>6, MarketAssumption DEF ReadMarkets, MarketTyped
  <2> QED
    BY <1>6, <2>2, <2>3, <2>4 DEF ReadMarkets, MarketTyped, At, Goto
<1>7. ASSUME NEW r \in Passes, StopWaiting(r)
      PROVE  MarketTyped'
  BY <1>7 DEF StopWaiting, MarketTyped, At, Goto
<1>8. ASSUME NEW r \in Passes, ReadAgain(r)
      PROVE  MarketTyped'
  <2>1. PICK rows \in {Live, NoQuotes} : LatestFor(rows) /\ quotes' = [quotes EXCEPT ![r] = rows]
    BY <1>8 DEF ReadAgain
  <2>2. quotes' \in [Passes -> Quotes] /\ faults' \in 0..MaxFaults
    BY <2>1, ReadTyped
  <2> QED
    BY <1>8, <2>2 DEF ReadAgain, MarketTyped, At, Goto
<1> QED
  BY <1>1, <1>2, <1>3, <1>4, <1>5, <1>6, <1>7, <1>8

\* A row that is saved, or taken away.
LEMMA SaveTyped ==
  ASSUME AlertsTyped, NEW a \in AlertIds, NEW row \in AlertRow \cup {None}, Save(a, row)
  PROVE  /\ alert' \in [AlertIds -> AlertRow \cup {None}]
         /\ \A b \in AlertIds : alert'[b] = IF b = a THEN row ELSE alert[b]
BY DEF AlertsTyped, Save

\* The rows a batch takes, oldest first, as they will be saved.
Batch(r) ==
  {a \in OldestArmed : LET quote == quotes[r][alert[a].key.symbol]
                       IN quote # None /\ IsSatisfiedBy(alert[a], quote.price)}

LEMMA BatchListed ==
  ASSUME AlertTypeOK, NEW r \in Passes, ListArmed(r)
  PROVE  /\ queue' = [queue EXCEPT ![r] = queue'[r]] /\ queue'[r] \in Seq(Draft)
         /\ DOMAIN queue'[r] = 1..Len(queue'[r]) /\ Len(queue'[r]) \in Nat
         /\ \A k \in DOMAIN queue'[r] :
              /\ queue'[r][k].id \in AlertIds /\ Armed(queue'[r][k].id)
              /\ queue'[r][k].row.status = "triggered"
         /\ \A k, l \in DOMAIN queue'[r] : k < l => queue'[r][k].id < queue'[r][l].id
<1>1. PICK order \in [1..Cardinality(Batch(r)) -> Batch(r)] :
        /\ \A k, l \in DOMAIN order : k < l => order[k] < order[l]
        /\ queue' = [queue EXCEPT ![r] =
                       [k \in DOMAIN order |-> [id |-> order[k], row |-> Fire(alert[order[k]])]]]
  BY Zenon DEF ListArmed, Batch
<1> DEFINE n == Cardinality(Batch(r))
           q == [k \in 1..n |-> [id |-> order[k], row |-> Fire(alert[order[k]])]]
<1>2. n \in Nat
  <2>1. Batch(r) \in SUBSET AlertIds
    BY DEF Batch, OldestArmed, ArmedIds
  <2> QED
    BY <2>1, AlertIdsAssumption, FS_Subset, FS_CardinalityType
<1>3. \A a \in Batch(r) : a \in AlertIds /\ Armed(a) /\ alert[a] \in AlertRow
  <2>1. \A a \in Batch(r) : a \in AlertIds /\ Armed(a)
    BY DEF Batch, OldestArmed, ArmedIds
  <2> QED
    BY <2>1 DEF Armed, Exists, AlertTypeOK
<1> HIDE DEF n
<1>4. queue'[r] = q /\ queue' = [queue EXCEPT ![r] = q]
  BY <1>1 DEF AlertTypeOK, n
<1>5. \A k \in 1..n : /\ order[k] \in AlertIds /\ Armed(order[k])
                      /\ Fire(alert[order[k]]) \in AlertRow
                      /\ Fire(alert[order[k]]).status = "triggered"
  BY <1>1, <1>3 DEF Fire, AlertRow, n
<1>6. q \in Seq(Draft) /\ Len(q) = n /\ DOMAIN q = 1..n
  BY <1>2, <1>5 DEF Draft
<1>7. \A k \in 1..n : q[k].id = order[k] /\ q[k].row = Fire(alert[order[k]])
  OBVIOUS
<1>8. \A k, l \in 1..n : k < l => order[k] < order[l]
  BY <1>1 DEF n
<1> HIDE DEF q
<1> QED
  BY <1>2, <1>4, <1>5, <1>6, <1>7, <1>8

\* The steps of an evaluation.
LEMMA EvaluateTyped ==
  ASSUME AlertTypeOK, NEW r \in Passes, Evaluate(r)
  PROVE  AlertTypeOK'
<1>1. MarketTyped /\ AlertsTyped
  BY HalvesOfTypes
<1>2. CASE ListArmed(r)
  <2>1. queue' = [queue EXCEPT ![r] = queue'[r]] /\ queue'[r] \in Seq(Draft)
    BY <1>2, BatchListed
  <2>2. queue' \in [Passes -> Seq(Draft)]
    BY <2>1, <1>1 DEF AlertsTyped
  <2>3. quotes' \in [Passes -> Quotes]
    BY <1>1, <1>2, NoQuotesTyped DEF ListArmed, MarketTyped
  <2> QED
    BY <1>1, <1>2, <2>2, <2>3, HalvesOfTypes DEF ListArmed, MarketTyped, AlertsTyped, At, Goto
<1>3. CASE FireNext(r)
  <2>1. queue[r] \in Seq(Draft) /\ queue[r] # <<>> /\ news[r] \in Seq(AlertIds)
    BY <1>1, <1>3 DEF AlertsTyped, FireNext
  <2>2. Head(queue[r]) \in Draft /\ Tail(queue[r]) \in Seq(Draft)
    BY <2>1, HeadTailProperties
  <2>3. Head(queue[r]).id \in AlertIds /\ Head(queue[r]).row \in AlertRow
    BY <2>2 DEF Draft
  <2>4. queue' \in [Passes -> Seq(Draft)]
    BY <1>1, <1>3, <2>2 DEF AlertsTyped, FireNext
  <2>5. news' \in [Passes -> Seq(AlertIds)]
    <3>1. Append(news[r], Head(queue[r]).id) \in Seq(AlertIds)
      BY <2>1, <2>3, AppendProperties
    <3> QED
      BY <1>1, <1>3, <3>1 DEF AlertsTyped, FireNext
  <2>6. alert' \in [AlertIds -> AlertRow \cup {None}]
    BY <1>1, <1>3, <2>3, SaveTyped DEF AlertsTyped, FireNext
  <2>7. faults' \in 0..MaxFaults
    BY <1>1, <1>3, FaultsTyped DEF FireNext
  <2> QED
    BY <1>1, <1>3, <2>4, <2>5, <2>6, <2>7, HalvesOfTypes DEF FireNext, MarketTyped, AlertsTyped
<1>4. CASE TellNext(r)
  <2>1. news[r] \in Seq(AlertIds) /\ news[r] # <<>>
    BY <1>1, <1>4 DEF AlertsTyped, TellNext
  <2>2. Head(news[r]) \in AlertIds /\ Tail(news[r]) \in Seq(AlertIds)
    BY <2>1, HeadTailProperties
  <2>3. news' \in [Passes -> Seq(AlertIds)] /\ due' \in [AlertIds -> Int]
    BY <1>1, <1>4, <2>2 DEF AlertsTyped, TellNext
  <2> QED
    BY <1>1, <1>4, <2>3, HalvesOfTypes DEF TellNext, MarketTyped, AlertsTyped, marketVars
<1>5. CASE FinishPass(r)
  BY <1>1, <1>5, EndPassTyped, HalvesOfTypes DEF FinishPass, MarketTyped, AlertsTyped, alertVars
<1>6. CASE ListFails(r)
  <2>1. faults' \in 0..MaxFaults
    BY <1>1, <1>6, FaultsTyped DEF ListFails
  <2> QED
    BY <1>1, <1>6, <2>1, EndPassTyped, HalvesOfTypes DEF ListFails, MarketTyped, AlertsTyped, alertVars
<1> QED
  BY <1>2, <1>3, <1>4, <1>5, <1>6 DEF Evaluate

\* A restart leaves the tables and forgets the rest.
LEMMA RestartTyped == AlertTypeOK /\ Restart => AlertTypeOK'
<1> SUFFICES ASSUME AlertTypeOK, Restart PROVE AlertTypeOK'
  OBVIOUS
<1>1. MarketTyped /\ AlertsTyped
  BY HalvesOfTypes
<1>2. faults' \in 0..MaxFaults
  BY <1>1, FaultsTyped DEF Restart
<1>3. quotes' \in [Passes -> Quotes] /\ heal' \in [step : {"off", "fetch", "record"}, quotes : Quotes]
  BY NoQuotesTyped DEF Restart
<1>4. tried' \in (-Cooldown - 1)..MaxTime
  BY MarketAssumption DEF Restart
<1>5. MarketTyped'
  BY <1>1, <1>2, <1>3, <1>4 DEF Restart, MarketTyped
<1>6. queue' \in [Passes -> Seq(Draft)] /\ news' \in [Passes -> Seq(AlertIds)]
  <2>1. <<>> \in Seq(Draft) /\ <<>> \in Seq(AlertIds)
    BY EmptySeq
  <2> QED
    BY <2>1 DEF Restart
<1>7. AlertsTyped'
  BY <1>1, <1>6 DEF Restart, AlertsTyped
<1> QED
  BY <1>5, <1>7, HalvesOfTypes

\* A request that has its row ready, and one that saves it.
LEMMA PrepareTyped ==
  ASSUME AlertsTyped, NEW c \in Clients, NEW a \in AlertIds, NEW row \in AlertRow, Prepare(c, a, row)
  PROVE  /\ step' \in [Clients -> {"idle", "save"}] /\ draft' \in [Clients -> Draft \cup {None}]
         /\ \A d \in Clients : step'[d] = "idle" <=> draft'[d] = None
<1>1. [id |-> a, row |-> row] \in Draft
  BY DEF Draft
<1> QED
  BY <1>1, NoAlertAssumption DEF Prepare, AlertsTyped

LEMMA EndRequestTyped ==
  ASSUME AlertsTyped, NEW c \in Clients, EndRequest(c)
  PROVE  /\ step' \in [Clients -> {"idle", "save"}] /\ draft' \in [Clients -> Draft \cup {None}]
         /\ \A d \in Clients : step'[d] = "idle" <=> draft'[d] = None
BY DEF EndRequest, AlertsTyped

LEMMA CustomerTyped ==
  ASSUME AlertTypeOK, NEW c \in Clients, Customer(c)
  PROVE  AlertTypeOK'
<1>1. MarketTyped /\ AlertsTyped
  BY HalvesOfTypes
<1>2. AlertIds = 1..Cardinality(AlertIds) /\ Cardinality(AlertIds) \in Nat
  BY AlertIdsAssumption, FS_CardinalityType
<1>3. CASE CreateAlert(c)
  <2>1. PICK k \in Keys : Prepare(c, next, [key |-> k, status |-> "armed"])
    BY <1>3 DEF CreateAlert
  <2>2. next \in AlertIds /\ [key |-> k, status |-> "armed"] \in AlertRow
    BY <1>3 DEF CreateAlert, AlertRow
  <2>3. /\ step' \in [Clients -> {"idle", "save"}] /\ draft' \in [Clients -> Draft \cup {None}]
        /\ \A d \in Clients : step'[d] = "idle" <=> draft'[d] = None
    BY <1>1, <2>1, <2>2, PrepareTyped
  <2>4. next' \in 1..(Cardinality(AlertIds) + 1)
    BY <1>2, <1>3, <2>2 DEF CreateAlert
  <2> QED
    BY <1>1, <1>3, <2>3, <2>4, HalvesOfTypes DEF CreateAlert, MarketTyped, AlertsTyped, marketVars
<1>4. CASE FindAlert(c)
  <2>1. PICK a \in AlertIds, status \in {"muted", "armed"} :
          Exists(a) /\ Prepare(c, a, [alert[a] EXCEPT !.status = status])
    BY <1>4 DEF FindAlert
  <2>2. [alert[a] EXCEPT !.status = status] \in AlertRow
    <3>1. alert[a] \in AlertRow
      BY <1>1, <2>1 DEF AlertsTyped, Exists
    <3> QED
      BY <3>1 DEF AlertRow
  <2>3. /\ step' \in [Clients -> {"idle", "save"}] /\ draft' \in [Clients -> Draft \cup {None}]
        /\ \A d \in Clients : step'[d] = "idle" <=> draft'[d] = None
    BY <1>1, <2>1, <2>2, PrepareTyped
  <2> QED
    BY <1>1, <1>4, <2>3, HalvesOfTypes DEF FindAlert, MarketTyped, AlertsTyped, marketVars
<1>5. CASE SaveAlert(c)
  <2>1. /\ step' \in [Clients -> {"idle", "save"}] /\ draft' \in [Clients -> Draft \cup {None}]
        /\ \A d \in Clients : step'[d] = "idle" <=> draft'[d] = None
    BY <1>1, <1>5, EndRequestTyped DEF SaveAlert
  <2>2. draft[c] \in Draft /\ draft[c].id \in AlertIds /\ draft[c].row \in AlertRow
    BY <1>1, <1>5 DEF SaveAlert, AlertsTyped, Draft
  <2>3. alert' \in [AlertIds -> AlertRow \cup {None}]
    BY <1>1, <1>5, <2>2, SaveTyped DEF SaveAlert, AlertsTyped
  <2>4. due' \in [AlertIds -> Int]
    BY <1>1, <1>5, <2>2 DEF SaveAlert, AlertsTyped
  <2> QED
    BY <1>1, <1>5, <2>1, <2>3, <2>4, HalvesOfTypes DEF SaveAlert, MarketTyped, AlertsTyped, marketVars
<1>6. CASE RemoveAlert(c)
  <2>1. alert' \in [AlertIds -> AlertRow \cup {None}]
    BY <1>1, <1>6, SaveTyped DEF RemoveAlert
  <2> QED
    BY <1>1, <1>6, <2>1, HalvesOfTypes DEF RemoveAlert, MarketTyped, AlertsTyped, marketVars
<1> QED
  BY <1>3, <1>4, <1>5, <1>6 DEF Customer

\* The steps of the market and of refreshes leave the alerts alone.
MarketStep ==
  /\ UNCHANGED alertVars
  /\ Move \/ HealStep \/ \E r \in Passes :
       \/ StartTick(r) \/ StartPost(r) \/ FetchQuotes(r) \/ RecordTickers(r)
       \/ ReadMarkets(r) \/ StopWaiting(r) \/ ReadAgain(r)

LEMMA StepsOfAlerts ==
  Next => MarketStep \/ Restart \/ (\E r \in Passes : Evaluate(r)) \/ \E c \in Clients : Customer(c)
BY DEF Next, MarketStep, Tick, Heal, Post, Refresh

LEMMA AlertInitTyped == AlertInit => AlertTypeOK
<1> SUFFICES ASSUME AlertInit PROVE AlertTypeOK
  OBVIOUS
<1>1. Cardinality(AlertIds) \in Nat
  BY AlertIdsAssumption, FS_CardinalityType
<1>2. MarketTyped
  BY NoQuotesTyped, MarketAssumption DEF AlertInit, MarketInit, MarketTyped
<1>3. AlertsTyped
  BY <1>1 DEF AlertInit, AlertsTyped
<1> QED
  BY <1>2, <1>3, HalvesOfTypes

LEMMA AlertStepTyped == AlertTypeOK /\ [Next]_vars => AlertTypeOK'
<1>1. AlertTypeOK /\ UNCHANGED vars => AlertTypeOK'
  BY DEF vars, marketVars, alertVars, AlertTypeOK
<1>2. AlertTypeOK /\ MarketStep => AlertTypeOK'
  <2> SUFFICES ASSUME AlertTypeOK, MarketStep PROVE AlertTypeOK'
    OBVIOUS
  <2>1. MarketTyped'
    BY MarketStepTyped, HalvesOfTypes DEF MarketStep
  <2>2. AlertsTyped'
    BY HalvesOfTypes DEF MarketStep, alertVars, AlertsTyped
  <2> QED
    BY <2>1, <2>2, HalvesOfTypes
<1> QED
  BY <1>1, <1>2, StepsOfAlerts, RestartTyped, EvaluateTyped, CustomerTyped

\* The tables, the passes and the requests hold what they may hold, with any number of
\* evaluations and requests at once.
THEOREM AlertTypesHold == Spec => []AlertTypeOK
BY AlertInitTyped, AlertStepTyped, PTL DEF Spec

----------------------------------------------------------------------------
(* Told once per arming *)

\* Evaluations take turns: the loop of one process, and no cron request beside it.
OneEvaluation == \A r, s \in Passes : r = s

\* An alert that the batch of pass r still has to fire, or that it has fired and not told of.
InBatch(r, a) == \E k \in DOMAIN queue[r] : queue[r][k].id = a
InNews(r, a) == \E k \in DOMAIN news[r] : news[r][k] = a

\* A pass has alerts in hand only while it fires them; each once, in one place, and
\* fired alerts will be saved as such.
BatchInOrder(r) ==
  /\ pc[r] # "fire" => queue[r] = <<>> /\ news[r] = <<>>
  /\ \A k \in DOMAIN queue[r] : queue[r][k].row.status = "triggered"
  /\ \A k, l \in DOMAIN queue[r] : k < l => queue[r][k].id < queue[r][l].id
  /\ \A k, l \in DOMAIN news[r] : k < l => news[r][k] # news[r][l]
  /\ \A a : ~ (InBatch(r, a) /\ InNews(r, a))

\* An arming not used up: of the row, or of the batch that has read it; and one that is
\* used up and not told of yet.
Open(a) == Armed(a) \/ \E r \in Passes : InBatch(r, a)
Untold(a) == \E r \in Passes : InNews(r, a)
ArmingsAccounted ==
  \A a \in AlertIds :
    due[a] >= (IF Open(a) THEN 1 ELSE 0) + (IF Untold(a) THEN 1 ELSE 0)

AlertInv == AlertTypeOK /\ (\A r \in Passes : BatchInOrder(r)) /\ ArmingsAccounted

LEMMA AlertInvInit == AlertInit => AlertInv
<1> SUFFICES ASSUME AlertInit PROVE AlertInv
  OBVIOUS
<1>1. \A r \in Passes : queue[r] = <<>> /\ news[r] = <<>>
  BY DEF AlertInit
<1>2. \A a \in AlertIds : ~ Open(a) /\ ~ Untold(a)
  BY <1>1 DEF AlertInit, Open, Untold, Armed, Exists, InBatch, InNews
<1>3. ArmingsAccounted
  BY <1>2 DEF AlertInit, ArmingsAccounted
<1> QED
  BY <1>1, <1>3, AlertInitTyped DEF AlertInv, BatchInOrder, InNews

\* A step that adds to no batch and no news keeps them in order.
LEMMA NothingInHand ==
  ASSUME NEW r \in Passes, queue'[r] = <<>>, news'[r] = <<>>
  PROVE  BatchInOrder(r)' /\ \A a : ~ InBatch(r, a)' /\ ~ InNews(r, a)'
BY DEF BatchInOrder, InBatch, InNews

\* A batch is listed: what was armed is now in the batch as well.
LEMMA ListKeeps ==
  ASSUME OneEvaluation, AlertInv, NEW r \in Passes, ListArmed(r)
  PROVE  AlertInv'
<1>1. AlertTypeOK'
  BY EvaluateTyped DEF AlertInv, Evaluate
<1>2. /\ DOMAIN queue'[r] = 1..Len(queue'[r]) /\ Len(queue'[r]) \in Nat
      /\ \A k \in DOMAIN queue'[r] :
           /\ queue'[r][k].id \in AlertIds /\ Armed(queue'[r][k].id)
           /\ queue'[r][k].row.status = "triggered"
      /\ \A k, l \in DOMAIN queue'[r] : k < l => queue'[r][k].id < queue'[r][l].id
  BY BatchListed DEF AlertInv
<1>3. news[r] = <<>> /\ queue[r] = <<>>
  BY DEF ListArmed, At, AlertInv, BatchInOrder
<1>4. news' = news /\ alert' = alert /\ due' = due /\ pc'[r] = "fire"
  BY DEF ListArmed, Goto, AlertInv, AlertTypeOK
<1>5. \A s \in Passes : s = r
  BY DEF OneEvaluation
<1>6. BatchInOrder(r)'
  BY <1>2, <1>3, <1>4 DEF BatchInOrder, InNews
<1>7. \A a \in AlertIds : Open(a)' => Open(a)
  BY <1>2, <1>4, <1>5 DEF Open, InBatch, Armed, Exists
<1>8. \A a \in AlertIds : Untold(a)' <=> Untold(a)
  BY <1>4 DEF Untold, InNews
<1>9. ArmingsAccounted'
  <2>1. \A a \in AlertIds : due[a] \in Int
    BY DEF AlertInv, AlertTypeOK
  <2> QED
    BY <2>1, <1>4, <1>7, <1>8 DEF AlertInv, ArmingsAccounted
<1> QED
  BY <1>1, <1>5, <1>6, <1>9 DEF AlertInv

\* The first of the batch: what is left is the rest, which it is not part of.
LEMMA HeadOfBatch ==
  ASSUME AlertInv, NEW r \in Passes, queue[r] # <<>>, queue' = [queue EXCEPT ![r] = Tail(@)],
         NEW hit, hit = Head(queue[r])
  PROVE  /\ hit.id \in AlertIds /\ hit.row \in AlertRow /\ hit.row.status = "triggered"
         /\ InBatch(r, hit.id) /\ ~ InBatch(r, hit.id)'
         /\ \A a : InBatch(r, a)' => InBatch(r, a)
         /\ \A k \in DOMAIN queue'[r] : queue'[r][k].row.status = "triggered"
         /\ \A k, l \in DOMAIN queue'[r] : k < l => queue'[r][k].id < queue'[r][l].id
<1> DEFINE q == queue[r]
<1>1. q \in Seq(Draft) /\ q # <<>> /\ queue'[r] = Tail(q)
  BY DEF AlertInv, AlertTypeOK
<1>2. /\ Tail(q) \in Seq(Draft) /\ Len(Tail(q)) = Len(q) - 1 /\ Len(q) \in Nat \ {0}
      /\ \A k \in 1..Len(Tail(q)) : Tail(q)[k] = q[k + 1]
      /\ DOMAIN Tail(q) = 1..Len(Tail(q)) /\ DOMAIN q = 1..Len(q) /\ hit = q[1]
  BY <1>1, HeadTailProperties, LenProperties, EmptySeq
<1>3. \A k \in DOMAIN q : q[k] \in Draft
  BY <1>1, <1>2, ElementOfSeq
<1>4. \A d \in Draft : d.id \in AlertIds /\ d.id \in Int /\ d.row \in AlertRow
  <2>1. \A a \in AlertIds : a \in Int
    BY AlertIdsAssumption, FS_CardinalityType
  <2> QED
    BY <2>1 DEF Draft
<1>5. /\ \A k \in DOMAIN q : q[k].row.status = "triggered"
      /\ \A k, l \in DOMAIN q : k < l => q[k].id < q[l].id
  BY DEF AlertInv, BatchInOrder
<1>6. \A a : InBatch(r, a) <=> \E k \in DOMAIN q : q[k].id = a
  BY DEF InBatch
<1>7. \A a : InBatch(r, a)' <=> \E k \in DOMAIN Tail(q) : Tail(q)[k].id = a
  BY <1>1 DEF InBatch
<1> HIDE DEF q
<1>8. 1 \in DOMAIN q /\ \A k \in DOMAIN Tail(q) : k + 1 \in DOMAIN q /\ 1 < k + 1 /\ Tail(q)[k] = q[k + 1]
  BY <1>2
<1>9. \A k \in DOMAIN Tail(q) : Tail(q)[k].id # hit.id
  BY <1>2, <1>3, <1>4, <1>5, <1>8
<1>10. \A k, l \in DOMAIN Tail(q) : k < l => Tail(q)[k].id < Tail(q)[l].id
  BY <1>2, <1>5, <1>8
<1>11. \A a : InBatch(r, a)' => InBatch(r, a)
  BY <1>6, <1>7, <1>8
<1>12. ~ InBatch(r, hit.id)'
  BY <1>7, <1>9
<1>13. /\ hit.id \in AlertIds /\ hit.row \in AlertRow /\ hit.row.status = "triggered"
       /\ InBatch(r, hit.id)
  BY <1>2, <1>3, <1>4, <1>5, <1>6, <1>8
<1>14. \A k \in DOMAIN Tail(q) : Tail(q)[k].row.status = "triggered"
  BY <1>5, <1>8
<1> QED
  BY <1>1, <1>10, <1>11, <1>12, <1>13, <1>14

\* An alert that is fired moves from the batch to the news and is armed no longer; one
\* whose save failed leaves the batch.
LEMMA FireKeeps ==
  ASSUME OneEvaluation, AlertInv, NEW r \in Passes, FireNext(r)
  PROVE  AlertInv'
<1> PICK hit : hit = Head(queue[r])
  OBVIOUS
<1>1. AlertTypeOK'
  BY EvaluateTyped DEF AlertInv, Evaluate
<1>2. /\ hit.id \in AlertIds /\ hit.row \in AlertRow /\ hit.row.status = "triggered"
      /\ InBatch(r, hit.id) /\ ~ InNews(r, hit.id) /\ ~ InBatch(r, hit.id)'
      /\ \A a : InBatch(r, a)' => InBatch(r, a)
      /\ \A k \in DOMAIN queue'[r] : queue'[r][k].row.status = "triggered"
      /\ \A k, l \in DOMAIN queue'[r] : k < l => queue'[r][k].id < queue'[r][l].id
  BY HeadOfBatch DEF FireNext, AlertInv, BatchInOrder
<1>3. pc[r] = "fire" /\ pc' = pc /\ due' = due
  BY DEF FireNext, At
<1>4. \A s \in Passes : s = r
  BY DEF OneEvaluation
<1>5. \A a \in AlertIds : due[a] \in Int
  BY DEF AlertInv, AlertTypeOK
<1>6. AlertsTyped
  BY HalvesOfTypes DEF AlertInv
<1>7. CASE UNCHANGED <<alert, news>>
  <2>1. \A a : InNews(r, a)' <=> InNews(r, a)
    BY <1>7 DEF InNews
  <2>2. BatchInOrder(r)'
    BY <1>2, <1>3, <1>7, <2>1 DEF AlertInv, BatchInOrder
  <2>3. \A a \in AlertIds : (Open(a)' => Open(a)) /\ (Untold(a)' <=> Untold(a))
    BY <1>2, <1>4, <1>7, <2>1 DEF Open, Untold, Armed, Exists
  <2>4. ArmingsAccounted'
    BY <2>3, <1>3, <1>5 DEF AlertInv, ArmingsAccounted
  <2> QED
    BY <1>1, <1>4, <2>2, <2>4 DEF AlertInv
<1>8. CASE /\ Save(hit.id, hit.row)
           /\ news' = [news EXCEPT ![r] = Append(@, hit.id)]
  <2>1. \A b \in AlertIds : alert'[b] = IF b = hit.id THEN hit.row ELSE alert[b]
    BY <1>2, <1>6, <1>8, SaveTyped
  <2>2. news[r] \in Seq(AlertIds) /\ news'[r] = Append(news[r], hit.id)
    BY <1>6, <1>8 DEF AlertsTyped
  <2>3. /\ DOMAIN news[r] = 1..Len(news[r]) /\ Len(news[r]) \in Nat
        /\ DOMAIN news'[r] = 1..(Len(news[r]) + 1)
        /\ \A k \in 1..Len(news[r]) : news'[r][k] = news[r][k]
        /\ news'[r][Len(news[r]) + 1] = hit.id
    BY <1>2, <2>2, AppendProperties, LenProperties
  <2>4. \A a : InNews(r, a)' <=> InNews(r, a) \/ a = hit.id
    BY <2>3 DEF InNews
  <2>5. \A k, l \in DOMAIN news'[r] : k < l => news'[r][k] # news'[r][l]
    <3>1. \A k, l \in 1..Len(news[r]) : k < l => news[r][k] # news[r][l]
      BY <2>3 DEF AlertInv, BatchInOrder
    <3>2. \A k \in 1..Len(news[r]) : news[r][k] # hit.id
      BY <1>2, <2>3 DEF InNews
    <3> QED
      BY <2>3, <3>1, <3>2
  <2>6. \A a : ~ (InBatch(r, a)' /\ InNews(r, a)')
    BY <1>2, <2>4 DEF AlertInv, BatchInOrder
  <2>7. BatchInOrder(r)'
    BY <1>2, <1>3, <2>5, <2>6 DEF BatchInOrder
  <2>8. ASSUME NEW a \in AlertIds
        PROVE  due[a] >= (IF Open(a)' THEN 1 ELSE 0) + (IF Untold(a)' THEN 1 ELSE 0)
    <3>1. CASE a = hit.id
      <4>1. ~ Armed(a)'
        BY <3>1, <1>2, <2>1 DEF Armed
      <4>2. ~ Open(a)' /\ Open(a) /\ ~ Untold(a)
        BY <3>1, <4>1, <1>2, <1>4 DEF Open, Untold
      <4> QED
        BY <4>2, <1>5 DEF AlertInv, ArmingsAccounted
    <3>2. CASE a # hit.id
      <4>1. (Open(a)' => Open(a)) /\ (Untold(a)' <=> Untold(a))
        BY <3>2, <1>2, <1>4, <2>1, <2>4 DEF Open, Untold, Armed, Exists
      <4> QED
        BY <4>1, <1>5 DEF AlertInv, ArmingsAccounted
    <3> QED
      BY <3>1, <3>2
  <2>9. ArmingsAccounted'
    BY <2>8, <1>3 DEF ArmingsAccounted
  <2> QED
    BY <1>1, <1>4, <2>7, <2>9 DEF AlertInv
<1> QED
  BY <1>7, <1>8 DEF FireNext

\* Telling uses up what was owed: an alert is among the untold at most once.
LEMMA TellKeeps ==
  ASSUME OneEvaluation, AlertInv, NEW r \in Passes, TellNext(r)
  PROVE  AlertInv'
<1> DEFINE s == news[r]
<1> PICK told : told = Head(news[r])
  OBVIOUS
<1>1. AlertTypeOK'
  BY EvaluateTyped DEF AlertInv, Evaluate
<1>2. s \in Seq(AlertIds) /\ s # <<>> /\ news'[r] = Tail(s) /\ queue' = queue /\ alert' = alert /\ pc' = pc
  BY DEF TellNext, AlertInv, AlertTypeOK, marketVars
<1>3. /\ Tail(s) \in Seq(AlertIds) /\ Len(Tail(s)) = Len(s) - 1 /\ Len(s) \in Nat \ {0}
      /\ \A k \in 1..Len(Tail(s)) : Tail(s)[k] = s[k + 1]
      /\ DOMAIN Tail(s) = 1..Len(Tail(s)) /\ DOMAIN s = 1..Len(s) /\ Head(s) = s[1]
      /\ Head(s) \in AlertIds
  BY <1>2, HeadTailProperties, LenProperties, EmptySeq
<1>4. \A k, l \in DOMAIN s : k < l => s[k] # s[l]
  BY DEF AlertInv, BatchInOrder
<1>5. \A a : InNews(r, a) <=> \E k \in DOMAIN s : s[k] = a
  BY DEF InNews
<1>6. \A a : InNews(r, a)' <=> \E k \in DOMAIN Tail(s) : Tail(s)[k] = a
  BY <1>2 DEF InNews
<1>7. told = s[1] /\ due' = [due EXCEPT ![told] = @ - 1]
  BY <1>3 DEF TellNext
<1> HIDE DEF s
<1>8. 1 \in DOMAIN s /\ \A k \in DOMAIN Tail(s) : k + 1 \in DOMAIN s /\ 1 < k + 1 /\ Tail(s)[k] = s[k + 1]
  BY <1>3
<1>9. InNews(r, told) /\ ~ InNews(r, told)' /\ \A a : InNews(r, a)' => InNews(r, a)
  BY <1>4, <1>5, <1>6, <1>7, <1>8
<1>10. \A k, l \in DOMAIN Tail(s) : k < l => Tail(s)[k] # Tail(s)[l]
  BY <1>3, <1>4, <1>8
<1>11. \A p \in Passes : p = r
  BY DEF OneEvaluation
<1>12. BatchInOrder(r)'
  <2>1. /\ \A k \in DOMAIN queue'[r] : queue'[r][k].row.status = "triggered"
        /\ \A a : ~ (InBatch(r, a)' /\ InNews(r, a)')
    BY <1>2, <1>9 DEF AlertInv, BatchInOrder, InBatch
  <2>2. \A k, l \in DOMAIN queue'[r] : k < l => queue'[r][k].id < queue'[r][l].id
    BY <1>2 DEF AlertInv, BatchInOrder
  <2>3. pc'[r] = "fire"
    BY <1>2, <1>8 DEF AlertInv, BatchInOrder, s
  <2>4. \A k, l \in DOMAIN news'[r] : k < l => news'[r][k] # news'[r][l]
    BY <1>2, <1>10
  <2> QED
    BY <2>1, <2>2, <2>3, <2>4 DEF BatchInOrder
<1>13. \A a \in AlertIds : Open(a)' <=> Open(a)
  BY <1>2 DEF Open, InBatch, Armed, Exists
<1>14. told \in AlertIds /\ \A a \in AlertIds : due[a] \in Int /\ due'[a] = IF a = told THEN due[a] - 1 ELSE due[a]
  BY <1>3, <1>7 DEF AlertInv, AlertTypeOK
<1>15. Untold(told) /\ ~ Untold(told)' /\ \A a \in AlertIds : Untold(a)' => Untold(a)
  BY <1>9, <1>11 DEF Untold
<1>16. ArmingsAccounted'
  BY <1>13, <1>14, <1>15 DEF AlertInv, ArmingsAccounted
<1> QED
  BY <1>1, <1>11, <1>12, <1>16 DEF AlertInv

\* A step after which nothing is in hand, no alert newly armed and nothing told.
LEMMA HandsEmptied ==
  ASSUME AlertInv, AlertTypeOK', alert' = alert, due' = due,
         \A r \in Passes : queue'[r] = <<>> /\ news'[r] = <<>>
  PROVE  AlertInv'
<1>1. \A r \in Passes : BatchInOrder(r)' /\ \A a : ~ InBatch(r, a)' /\ ~ InNews(r, a)'
  BY NothingInHand
<1>2. \A a \in AlertIds : (Open(a)' => Open(a)) /\ ~ Untold(a)'
  BY <1>1 DEF Open, Untold, Armed, Exists
<1>3. \A a \in AlertIds : due[a] \in Int
  BY DEF AlertInv, AlertTypeOK
<1>4. ArmingsAccounted'
  BY <1>2, <1>3 DEF AlertInv, ArmingsAccounted
<1> QED
  BY <1>1, <1>4 DEF AlertInv

\* A customer's request touches no batch; the one that arms an alert is counted.
LEMMA CustomerKeeps ==
  ASSUME AlertInv, NEW c \in Clients, Customer(c)
  PROVE  AlertInv'
<1>1. AlertTypeOK'
  BY CustomerTyped DEF AlertInv
<1>2. queue' = queue /\ news' = news /\ pc' = pc
  BY DEF Customer, CreateAlert, FindAlert, SaveAlert, RemoveAlert, marketVars
<1>3. \A r \in Passes : BatchInOrder(r)'
  BY <1>2 DEF AlertInv, BatchInOrder, InBatch, InNews
<1>4. \A a : /\ Untold(a)' <=> Untold(a)
             /\ \A r \in Passes : InBatch(r, a)' <=> InBatch(r, a)
  BY <1>2 DEF Untold, InNews, InBatch
<1>5. AlertsTyped
  BY HalvesOfTypes DEF AlertInv
<1>6. \A a \in AlertIds : /\ due[a] \in Int /\ due'[a] \in Int /\ due'[a] >= due[a]
                          /\ Armed(a)' /\ ~ Armed(a) => due'[a] = due[a] + 1
  <2>1. \A a \in AlertIds : due[a] \in Int
    BY <1>5 DEF AlertsTyped
  <2>2. CASE alert' = alert /\ due' = due
    BY <2>1, <2>2 DEF Armed, Exists
  <2>3. CASE RemoveAlert(c)
    <3>1. PICK a \in AlertIds : Save(a, None)
      BY <2>3 DEF RemoveAlert
    <3>2. \A b \in AlertIds : alert'[b] = IF b = a THEN None ELSE alert[b]
      BY <3>1, <1>5, SaveTyped
    <3> QED
      BY <2>1, <2>3, <3>2 DEF RemoveAlert, Armed, Exists
  <2>4. CASE SaveAlert(c) /\ ~ (alert' = alert /\ due' = due)
    <3> DEFINE d == draft[c]
    <3>1. /\ Save(d.id, d.row)
          /\ due' = [due EXCEPT ![d.id] = IF d.row.status = "armed" THEN @ + 1 ELSE @]
      BY <2>4 DEF SaveAlert
    <3>2. d.id \in AlertIds /\ d.row \in AlertRow
      BY <2>4, <1>5 DEF SaveAlert, AlertsTyped, Draft
    <3> HIDE DEF d
    <3>3. \A b \in AlertIds : alert'[b] = IF b = d.id THEN d.row ELSE alert[b]
      BY <3>1, <3>2, <1>5, SaveTyped
    <3>4. \A b \in AlertIds : due'[b] = IF b = d.id /\ d.row.status = "armed" THEN due[b] + 1 ELSE due[b]
      BY <3>1, <3>2, <1>5 DEF AlertsTyped
    <3> QED
      BY <2>1, <3>3, <3>4 DEF Armed, Exists
  <2> QED
    BY <2>2, <2>3, <2>4 DEF Customer, CreateAlert, FindAlert
<1>7. \A a \in AlertIds : Open(a)' => Open(a) \/ (Armed(a)' /\ ~ Armed(a))
  BY <1>4 DEF Open
<1>8. ArmingsAccounted'
  BY <1>4, <1>6, <1>7 DEF AlertInv, ArmingsAccounted
<1> QED
  BY <1>1, <1>3, <1>8 DEF AlertInv

\* The market and the refreshes touch no batch, and no pass leaves its batch unfinished.
LEMMA MarketKeeps == AlertInv /\ MarketStep => AlertInv'
<1> SUFFICES ASSUME AlertInv, MarketStep PROVE AlertInv'
  OBVIOUS
<1>1. AlertTypeOK'
  <2>1. MarketTyped'
    BY MarketStepTyped, HalvesOfTypes DEF MarketStep, AlertInv
  <2>2. AlertsTyped'
    BY HalvesOfTypes DEF MarketStep, alertVars, AlertsTyped, AlertInv
  <2> QED
    BY <2>1, <2>2, HalvesOfTypes
<1>2. queue' = queue /\ news' = news /\ alert' = alert /\ due' = due
  BY DEF MarketStep, alertVars
<1>3. \A r \in Passes : pc[r] = "fire" => pc'[r] = "fire"
  BY DEF MarketStep, Move, HealStep, StartTick, StartPost, FetchQuotes, RecordTickers, ReadMarkets,
         StopWaiting, ReadAgain, RefreshSettles, RefreshRejects, Awaiting, At, Goto, EndPass,
         EndPasses, AlertInv, AlertTypeOK
<1>4. \A r \in Passes : BatchInOrder(r)'
  BY <1>2, <1>3 DEF AlertInv, BatchInOrder, InBatch, InNews
<1>5. ArmingsAccounted'
  BY <1>2 DEF AlertInv, ArmingsAccounted, Open, Untold, Armed, Exists, InBatch, InNews
<1> QED
  BY <1>1, <1>4, <1>5 DEF AlertInv

LEMMA AlertInvStep ==
  ASSUME OneEvaluation
  PROVE  AlertInv /\ [Next]_vars => AlertInv'
<1> SUFFICES ASSUME AlertInv, [Next]_vars PROVE AlertInv'
  OBVIOUS
<1>1. CASE UNCHANGED vars
  BY <1>1 DEF vars, marketVars, alertVars, AlertInv, AlertTypeOK, BatchInOrder, ArmingsAccounted,
              Open, Untold, Armed, Exists, InBatch, InNews
<1>2. CASE Restart
  <2>1. AlertTypeOK'
    BY <1>2, RestartTyped DEF AlertInv
  <2> QED
    BY <1>2, <2>1, HandsEmptied DEF Restart
<1>3. ASSUME NEW r \in Passes, FinishPass(r) PROVE AlertInv'
  <2>1. AlertTypeOK'
    BY <1>3, EvaluateTyped DEF AlertInv, Evaluate
  <2>2. \A s \in Passes : queue'[s] = <<>> /\ news'[s] = <<>>
    BY <1>3 DEF FinishPass, alertVars, OneEvaluation
  <2> QED
    BY <1>3, <2>1, <2>2, HandsEmptied DEF FinishPass, alertVars
<1>4. ASSUME NEW r \in Passes, ListFails(r) PROVE AlertInv'
  <2>1. AlertTypeOK'
    BY <1>4, EvaluateTyped DEF AlertInv, Evaluate
  <2>2. queue[r] = <<>> /\ news[r] = <<>>
    BY <1>4 DEF ListFails, At, AlertInv, BatchInOrder
  <2>3. \A s \in Passes : queue'[s] = <<>> /\ news'[s] = <<>>
    BY <1>4, <2>2 DEF ListFails, alertVars, OneEvaluation
  <2> QED
    BY <1>4, <2>1, <2>3, HandsEmptied DEF ListFails, alertVars
<1> QED
  BY <1>1, <1>2, <1>3, <1>4, StepsOfAlerts, MarketKeeps, ListKeeps, FireKeeps, TellKeeps, CustomerKeeps
  DEF Evaluate

\* While evaluations take turns, a customer is told at most once for each time an alert was
\* armed: for any number of alerts and requests, whatever fails and whenever the process
\* stops.
THEOREM AlertsTellOncePerArming ==
  ASSUME OneEvaluation
  PROVE  Spec => []ToldOncePerArming
<1>1. AlertInv => ToldOncePerArming
  <2> SUFFICES ASSUME AlertInv, NEW a \in AlertIds PROVE due[a] >= 0
    BY DEF ToldOncePerArming
  <2>1. due[a] \in Int
    BY DEF AlertInv, AlertTypeOK
  <2> QED
    BY <2>1 DEF AlertInv, ArmingsAccounted
<1> QED
  BY <1>1, AlertInvInit, AlertInvStep, PTL DEF Spec
=============================================================================
