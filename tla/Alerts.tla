------------------------------- MODULE Alerts -------------------------------
(***************************************************************************)
(* Price alerts: the evaluation that runs where new prices land, and the   *)
(* customers who create, mute, re-arm and delete alerts meanwhile.         *)
(*                                                                         *)
(* Ids are given out in order, so an alert's id is also its createdAt.     *)
(***************************************************************************)
EXTENDS MarketData, Sequences

CONSTANTS Users, Levels,   \* who sets alerts, and at which targets
          AlertIds,        \* 1..n; the bound on how many are ever created
          Clients,         \* requests of customers, each of which may come again
          BatchLimit,      \* the limit of listArmed
          MaxDue           \* bound: how often one alert is armed ahead of being told of

ASSUME AlertIdsAssumption == IsFiniteSet(AlertIds) /\ AlertIds = 1..Cardinality(AlertIds)
ASSUME BatchAssumption == BatchLimit \in Nat \ {0}

VARIABLES
  alert,                  \* the price_alerts table
  next,                   \* the id the next alert will have
  queue, news,            \* of each pass: alerts still to fire, and those it fired
  step, draft,            \* of each client: where it stands, and the row it will save
  due                     \* of each alert: armings less tellings (history)

alertVars == <<alert, next, queue, news, step, draft, due>>
vars == <<marketVars, alertVars>>

Keys == [user : Users, symbol : Symbols, direction : {"above", "below"}, target : Levels]
AlertRow == [key : Keys, status : {"armed", "triggered", "muted"}]
Draft == [id : AlertIds, row : AlertRow]

ASSUME NoAlertAssumption == None \notin AlertRow /\ None \notin Draft

AlertInit ==
  /\ MarketInit
  /\ alert = [a \in AlertIds |-> None] /\ next = 1
  /\ queue = [r \in Passes |-> <<>>] /\ news = [r \in Passes |-> <<>>]
  /\ step = [c \in Clients |-> "idle"] /\ draft = [c \in Clients |-> None]
  /\ due = [a \in AlertIds |-> 0]

----------------------------------------------------------------------------
(* DrizzlePriceAlertRepository *)
Exists(a) == alert[a] # None
\* The index price_alerts_unique: one alert per account, symbol, direction and target.
CanSave(a, row) == \A b \in AlertIds \ {a} : Exists(b) => alert[b].key # row.key
Save(a, row) == alert' = [alert EXCEPT ![a] = row]

Armed(a) == Exists(a) /\ alert[a].status = "armed"
ArmedIds == {a \in AlertIds : Armed(a)}
OldestArmed == {a \in ArmedIds : Cardinality({b \in ArmedIds : b < a}) < BatchLimit}

Satisfies(price, key) == IF key.direction = "above" THEN price >= key.target
                                                   ELSE price <= key.target
\* Mutant: an alert whose target is met exactly is not satisfied.
IsSatisfiedByCrossing(row, price) ==
  row.status = "armed" /\ Satisfies(price, row.key) /\ price # row.key.target
IsSatisfiedBy(row, price) == row.status = "armed" /\ Satisfies(price, row.key)
\* Mutant: the alert that fires stays armed.
FireArmed(row) == row
Fire(row) == [row EXCEPT !.status = "triggered"]

----------------------------------------------------------------------------
(* evaluateAlerts *)
\* The rows are read once; those with a quote that satisfies them will be fired.
ListArmed(r) ==
  /\ At(r, "list")
  /\ LET Priced(a) == quotes[r][alert[a].key.symbol]
         Hit(a) == Priced(a) # None /\ IsSatisfiedBy(alert[a], Priced(a).price)
         hits == {a \in OldestArmed : Hit(a)}
     IN \E oldestFirst \in [1..Cardinality(hits) -> hits] :
          /\ \A k, l \in DOMAIN oldestFirst : k < l => oldestFirst[k] < oldestFirst[l]
          /\ queue' = [queue EXCEPT ![r] =
                         [k \in DOMAIN oldestFirst |->
                            [id |-> oldestFirst[k], row |-> Fire(alert[oldestFirst[k]])]]]
  /\ quotes' = [quotes EXCEPT ![r] = NoQuotes]
  /\ Goto(r, "fire")
  /\ UNCHANGED <<now, market, ticker, heal, tried, ticking, faults>>
  /\ UNCHANGED <<alert, next, news, step, draft, due>>

\* They cannot be read: the evaluation throws, and the pass is over.
ListFails(r) ==
  /\ At(r, "list") /\ Fails /\ EndPass(r)
  /\ UNCHANGED <<now, market, ticker, heal, tried, alertVars>>

\* One alert is saved as fired, or the save fails and the next one is tried.
FireNext(r) ==
  /\ At(r, "fire") /\ queue[r] # <<>>
  /\ queue' = [queue EXCEPT ![r] = Tail(@)]
  /\ LET hit == Head(queue[r])
     IN \/ /\ CanSave(hit.id, hit.row) /\ Save(hit.id, hit.row)
           /\ news' = [news EXCEPT ![r] = Append(@, hit.id)]
           /\ UNCHANGED faults
        \/ /\ \/ ~CanSave(hit.id, hit.row) /\ UNCHANGED faults
              \/ Fails
           /\ UNCHANGED <<alert, news>>
  /\ UNCHANGED <<now, market, ticker, heal, tried, ticking, pc, quotes>>
  /\ UNCHANGED <<next, step, draft, due>>

\* recordAndPush, for each alert that fired: best effort, and never thrown.
TellNext(r) ==
  /\ At(r, "fire") /\ queue[r] = <<>> /\ news[r] # <<>>
  /\ news' = [news EXCEPT ![r] = Tail(@)]
  /\ due' = [due EXCEPT ![Head(news[r])] = @ - 1]
  /\ UNCHANGED <<marketVars, alert, next, queue, step, draft>>

FinishPass(r) ==
  /\ At(r, "fire") /\ queue[r] = <<>> /\ news[r] = <<>>
  /\ EndPass(r)
  /\ UNCHANGED <<now, market, ticker, heal, tried, faults, alertVars>>

\* The process stops: nothing a pass held in memory survives it.
Restart ==
  /\ Fails
  /\ pc' = [r \in Passes |-> "idle"] /\ quotes' = [r \in Passes |-> NoQuotes]
  /\ queue' = [r \in Passes |-> <<>>] /\ news' = [r \in Passes |-> <<>>]
  /\ step' = [c \in Clients |-> "idle"] /\ draft' = [c \in Clients |-> None]
  /\ heal' = [step |-> "off", quotes |-> NoQuotes] /\ tried' = -Cooldown - 1
  /\ ticking' = None
  /\ UNCHANGED <<now, market, ticker, alert, next, due>>

----------------------------------------------------------------------------
(* manage-alerts *)
\* Mutant: the request leaves its row behind.
EndRequestHalf(c) == step' = [step EXCEPT ![c] = "idle"] /\ UNCHANGED draft
EndRequest(c) == step' = [step EXCEPT ![c] = "idle"] /\ draft' = [draft EXCEPT ![c] = None]
Prepare(c, a, row) ==
  /\ step' = [step EXCEPT ![c] = "save"]
  /\ draft' = [draft EXCEPT ![c] = [id |-> a, row |-> row]]
MayArm(a) == due[a] < MaxDue
Drafted(a) == \E c \in Clients : draft[c] # None /\ draft[c].id = a /\ draft[c].row.status = "armed"

\* The customer's alerts are listed and one like the new one is refused.
CreateAlert(c) ==
  /\ step[c] = "idle" /\ next \in AlertIds
  /\ \E k \in Keys :
       /\ \A a \in AlertIds : Exists(a) => alert[a].key # k
       /\ Prepare(c, next, [key |-> k, status |-> "armed"])
  /\ next' = next + 1
  /\ UNCHANGED <<marketVars, alert, queue, news, due>>

\* mute and rearm look at nothing but the owner.
FindAlert(c) ==
  /\ step[c] = "idle"
  /\ \E u \in Users, a \in AlertIds, status \in {"muted", "armed"} :
       /\ Exists(a) /\ alert[a].key.user = u
       /\ status = "armed" => MayArm(a) /\ ~Drafted(a)
       /\ Prepare(c, a, [alert[a] EXCEPT !.status = status])
  /\ UNCHANGED <<marketVars, alert, next, queue, news, due>>

\* An upsert: the row is inserted again if it was deleted meanwhile.
SaveAlert(c) ==
  /\ step[c] = "save" /\ EndRequest(c)
  /\ LET d == draft[c]
     IN \/ /\ CanSave(d.id, d.row) /\ Save(d.id, d.row)
           /\ due' = [due EXCEPT ![d.id] = IF d.row.status = "armed" THEN @ + 1 ELSE @]
        \/ ~CanSave(d.id, d.row) /\ UNCHANGED <<alert, due>>
  /\ UNCHANGED <<marketVars, next, queue, news>>

RemoveAlert(c) ==
  /\ step[c] = "idle"
  /\ \E u \in Users, a \in AlertIds : /\ Exists(a) /\ alert[a].key.user = u
                                      /\ Save(a, None)
  /\ UNCHANGED <<marketVars, next, queue, news, step, draft, due>>

----------------------------------------------------------------------------
Refresh(r) == (FetchQuotes(r) \/ RecordTickers(r) \/ ReadMarkets(r)
               \/ StopWaiting(r) \/ ReadAgain(r)) /\ UNCHANGED alertVars
Evaluate(r) == ListArmed(r) \/ ListFails(r) \/ FireNext(r) \/ TellNext(r) \/ FinishPass(r)
Tick == (\E r \in Passes : StartTick(r)) /\ UNCHANGED alertVars
Post(r) == StartPost(r) /\ UNCHANGED alertVars
Heal == HealStep /\ UNCHANGED alertVars
Customer(c) == CreateAlert(c) \/ FindAlert(c) \/ SaveAlert(c) \/ RemoveAlert(c)

Next ==
  \/ Move /\ UNCHANGED alertVars
  \/ Tick \/ Heal \/ Restart
  \/ \E r \in Passes : Post(r) \/ Refresh(r) \/ Evaluate(r)
  \/ \E c \in Clients : Customer(c)

\* The timer of the loop goes off again and again, and every await of a pass - the
\* feed's has a timeout - comes back, as does the refresh it may have to wait for.
Fairness ==
  WF_vars(Tick) /\ WF_vars(Heal) /\ \A r \in Passes : WF_vars(Refresh(r) \/ Evaluate(r))

Spec == AlertInit /\ [][Next]_vars /\ Fairness

----------------------------------------------------------------------------
AlertTypeOK ==
  /\ now \in 0..MaxTime /\ market \in [Symbols -> Prices]
  /\ ticker \in Quotes
  /\ heal \in [step : {"off", "fetch", "record"}, quotes : Quotes]
  /\ tried \in (-Cooldown - 1)..MaxTime
  /\ ticking \in Passes \cup {None} /\ faults \in 0..MaxFaults
  /\ pc \in [Passes -> {"idle", "fetch", "record", "read", "await", "reread", "list", "fire"}]
  /\ quotes \in [Passes -> Quotes]
  /\ ticking # None => pc[ticking] # "idle"
  /\ alert \in [AlertIds -> AlertRow \cup {None}]
  /\ next \in 1..(Cardinality(AlertIds) + 1)
  /\ queue \in [Passes -> Seq(Draft)] /\ news \in [Passes -> Seq(AlertIds)]
  /\ step \in [Clients -> {"idle", "save"}]
  /\ draft \in [Clients -> Draft \cup {None}]
  /\ \A c \in Clients : step[c] = "idle" <=> draft[c] = None
  /\ due \in [AlertIds -> Int]

\* "Fire once, then stay quiet" (price-alert.ts:9): the customer is told at most once
\* for each time the alert was armed, though saves fail, rows are put back after they
\* were deleted and an alert is re-armed while it is being evaluated.
ToldOncePerArming == \A a \in AlertIds : due[a] >= 0

\* "Works through them rather than starving the same tail on every pass"
\* (alerts/repository.ts:91): an alert does not stay armed for good while the market
\* satisfies it.
CrossingsAreNoticed ==
  \A a \in AlertIds :
    []<>~(Armed(a) /\ Satisfies(market[alert[a].key.symbol], alert[a].key))
=============================================================================
