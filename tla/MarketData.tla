----------------------------- MODULE MarketData -----------------------------
(***************************************************************************)
(* Quotes: an upstream feed, the tickers table, and everything that copies *)
(* from one to the other - the refresh loop of the server, the refresh     *)
(* endpoint a cron may call, and the refresh a reader starts when it finds *)
(* a quote stale.  What a refresh hands on to the evaluation of alerts is  *)
(* the map of live quotes it read back.                                    *)
(***************************************************************************)
EXTENDS Integers, FiniteSets

CONSTANTS Symbols, Prices,
          Passes,    \* bound: how many refreshes, with what follows them, go on at once
          MaxTime,   \* bound: how often the market moves
          MaxAge,    \* MAX_TICKER_AGE_SECONDS, in moves of the market
          Cooldown,  \* COOLDOWN_MS, in moves of the market
          MaxFaults, \* bound: how many awaits fail, and how often the process stops
          None

VARIABLES
  now, market,      \* the upstream: the time, and the price of each symbol at it
  ticker,           \* the tickers table
  heal, tried,      \* inFlight and lastAttemptAt of server/market-data.ts
  ticking,          \* the pass the loop is running, or None: its running flag
  faults,           \* how many more failures there will be
  pc, quotes        \* where each pass is, and the quotes it holds

marketVars == <<now, market, ticker, heal, tried, ticking, faults, pc, quotes>>

Observation == [price : Prices, at : 0..MaxTime]
Quotes == [Symbols -> Observation \cup {None}]
NoQuotes == [s \in Symbols |-> None]

ASSUME MarketAssumption ==
  /\ None \notin Passes /\ None \notin Observation
  /\ MaxTime \in Nat /\ MaxAge \in Nat /\ Cooldown \in Nat /\ MaxFaults \in Nat

MarketInit ==
  /\ now = 0 /\ market \in [Symbols -> Prices]
  /\ ticker = NoQuotes
  /\ heal = [step |-> "off", quotes |-> NoQuotes] /\ tried = -Cooldown - 1
  /\ ticking = None
  /\ faults = MaxFaults
  /\ pc = [r \in Passes |-> "idle"]
  /\ quotes = [r \in Passes |-> NoQuotes]

----------------------------------------------------------------------------
Move ==
  /\ now < MaxTime /\ now' = now + 1
  /\ market' \in [Symbols -> Prices]
  /\ UNCHANGED <<ticker, heal, tried, ticking, faults, pc, quotes>>

\* An await that fails, or answers for fewer symbols than were asked about.
Fails == faults > 0 /\ faults' = faults - 1

Observed(S) == [s \in Symbols |-> IF s \in S THEN [price |-> market[s], at |-> now] ELSE None]
Answers(S) == IF S = Symbols THEN UNCHANGED faults ELSE Fails

Upsert(batch) == ticker' = [s \in Symbols |-> IF batch[s] = None THEN ticker[s] ELSE batch[s]]

\* The end of passes, however they ended: the loop's finally clause.
EndPasses(R) ==
  /\ pc' = [r \in Passes |-> IF r \in R THEN "idle" ELSE pc[r]]
  /\ quotes' = [r \in Passes |-> IF r \in R THEN NoQuotes ELSE quotes[r]]
  /\ ticking' = IF ticking \in R THEN None ELSE ticking
EndPass(r) == EndPasses({r})

At(r, step) == pc[r] = step
Goto(r, step) == pc' = [pc EXCEPT ![r] = step]

----------------------------------------------------------------------------
StartTick(r) ==
  /\ ticking = None /\ ticking' = r
  /\ At(r, "idle") /\ Goto(r, "fetch")
  /\ UNCHANGED <<now, market, ticker, heal, tried, faults, quotes>>

StartPost(r) ==
  /\ At(r, "idle") /\ Goto(r, "fetch")
  /\ UNCHANGED <<now, market, ticker, heal, tried, ticking, faults, quotes>>

FetchQuotes(r) ==
  /\ At(r, "fetch")
  /\ \/ /\ \E S \in SUBSET Symbols :
             Answers(S) /\ quotes' = [quotes EXCEPT ![r] = Observed(S)]
        /\ Goto(r, "record") /\ UNCHANGED ticking
     \/ Fails /\ EndPass(r)
  /\ UNCHANGED <<now, market, ticker, heal, tried>>

RecordTickers(r) ==
  /\ At(r, "record")
  /\ \/ /\ Upsert(quotes[r]) /\ Goto(r, "read")
        /\ quotes' = [quotes EXCEPT ![r] = NoQuotes]
        /\ UNCHANGED <<ticking, faults>>
     \/ Fails /\ EndPass(r) /\ UNCHANGED ticker
  /\ UNCHANGED <<now, market, heal, tried>>

----------------------------------------------------------------------------
Fresh(row) == row # None /\ now - row.at <= MaxAge
Live == [s \in Symbols |-> IF Fresh(ticker[s]) THEN ticker[s] ELSE None]
Healing == heal.step # "off"
Awaiting == {r \in Passes : At(r, "await")}

\* latestFor: a table that cannot be read has no rows, and every market is unavailable.
LatestFor(rows) ==
  \/ rows = Live /\ UNCHANGED faults
  \/ rows = NoQuotes /\ Fails

\* getMarkets, as a pass calls it: it keeps what it read, and where a quote was missing or
\* stale it starts the shared refresh or joins it.
ReadMarkets(r) ==
  /\ At(r, "read")
  /\ \E rows \in {Live, NoQuotes} :
       LET stale == \E s \in Symbols : rows[s] = None
           starts == stale /\ ~Healing /\ now - tried > Cooldown
       IN /\ LatestFor(rows)
          /\ quotes' = [quotes EXCEPT ![r] = rows]
          /\ heal' = IF starts THEN [heal EXCEPT !.step = "fetch"] ELSE heal
          /\ tried' = IF starts THEN now ELSE tried
          /\ Goto(r, IF stale /\ (Healing \/ starts) THEN "await" ELSE "list")
  /\ UNCHANGED <<now, market, ticker, ticking>>

\* The reader has waited REFRESH_TIMEOUT_MS and goes on with what it read.
StopWaiting(r) ==
  /\ At(r, "await") /\ Goto(r, "list")
  /\ UNCHANGED <<now, market, ticker, heal, tried, ticking, faults, quotes>>

\* The refresh it waited for has finished: the markets are read again.
ReadAgain(r) ==
  /\ At(r, "reread") /\ Goto(r, "list")
  /\ \E rows \in {Live, NoQuotes} : LatestFor(rows) /\ quotes' = [quotes EXCEPT ![r] = rows]
  /\ UNCHANGED <<now, market, ticker, heal, tried, ticking>>

\* What the shared refresh does to those who wait for it: an upstream that fails is no
\* error to them, a record of tickers that fails rejects, and ends their passes.
RefreshSettles ==
  /\ heal' = [step |-> "off", quotes |-> NoQuotes]
  /\ pc' = [r \in Passes |-> IF r \in Awaiting THEN "reread" ELSE pc[r]]
  /\ UNCHANGED <<quotes, ticking>>
RefreshRejects ==
  /\ heal' = [step |-> "off", quotes |-> NoQuotes]
  /\ EndPasses(Awaiting)

HealStep ==
  /\ \/ /\ heal.step = "fetch"
        /\ \/ /\ \E S \in SUBSET Symbols :
                   Answers(S) /\ heal' = [step |-> "record", quotes |-> Observed(S)]
              /\ UNCHANGED <<pc, quotes, ticking>>
           \/ Fails /\ RefreshSettles
        /\ UNCHANGED ticker
     \/ /\ heal.step = "record"
        /\ \/ Upsert(heal.quotes) /\ RefreshSettles /\ UNCHANGED faults
           \/ Fails /\ RefreshRejects /\ UNCHANGED ticker
  /\ UNCHANGED <<now, market, tried>>
=============================================================================
