# A formal model of Novex

Novex is a modular monolith (Next.js, TypeScript, PostgreSQL, a little Firestore).
This directory holds TLA+ modules that model the parts of it that keep state, TLC
configurations that check them on small instances, and proofs, checked by TLAPS, of
what holds for every instance. Paths are relative to the repository root;
`src/modules/x` stands for `src/src/modules/x` in PROJECT.json, which maps every
definition to the lines it models.

Contents: 1 inventory, 2 modules, 3 runs, 4 disagreements between code and promise,
5 proofs, 6 what is only model-checked, 7 not modelled.

## 1. Inventory

| Component | State | Operations | What is hard, and what makes it correct |
|---|---|---|---|
| Ledger: accounts, transfers | `accounts` (balance, held, version), append-only `transfers`, `entries` | `findOrOpen`, `saveAccounts`, `post` | Rows are read, computed on in memory and written under the version read. No update is lost, held never exceeds balance |
| Ledger: withdrawals | `withdrawals`, `withdrawal_approvals` | request, approve, reject | Two writes per request, two per decision, several operators. Paid once, never after a rejection |
| Ledger: deposit claims and credits | `deposit_claims`, `deposit_proofs` | submit, mark, approve, reject, credit, grant demo funds | Proof and claim are separate writes, and so are credit and verdict. Credited once; a verdict stands; a claim has its proof |
| Ledger: transaction feed | none of its own | keyset pages over two tables | Rows are filed while an operator pages: each is shown exactly once |
| Identity: users, sign-in, lockout | `users` (version-guarded) | register, authenticate, change password, suspend, reinstate | Slow hashes between read and save. No attempt is lost, no suspension written over |
| Identity: sessions | `sessions` (unguarded upsert) | issue, resolve (slides the window), sign out, revoke all or others | A revoked session stays revoked |
| Identity: mailed links | `verification_tokens` (unguarded upsert) | issue, confirm, reset | Single use; a reset ends every session |
| Identity: Google | `connected_accounts`, two unique indexes | sign in, connect, disconnect | Somebody with a way in keeps one |
| Identity: KYC | `identity_verifications` | submit, decide | One case at a time, the first decision stands |
| Wallet link | `linked_wallets`, `link_challenges` | challenge, link, watch, rename, disconnect | A nonce proves once; verified means signed |
| Presence, announcements of visits | `presences`, one row per tab | beat, leave, sweep, announce | Beats wait for a lookup between read and save |
| Price alerts | `price_alerts` | create, mute, re-arm, delete, evaluate | Told once per arming; every crossing is noticed |
| Market data, refresh loop | `tickers`, the running flag, the shared refresh | tick, cron post, heal | Refreshes go on after every failure |
| Support | Firestore conversations and messages, attachments in PostgreSQL | post, assign, resolve, note, upload | Whole documents are written back; images are claimed before messages are appended |
| Support widget | the box, the bubbles, the queue of one tab | type, send, refuse, echo | Nothing a customer sent is lost |
| Push devices | Firestore devices, a cookie, local storage, the browser's token | enable, disable, load, register, release | A registration keeps what renews or releases it |
| Announcements | `announcements` | compose, publish, schedule, unpublish, archive | The clock alone puts a notice up |
| Activity, risk dispositions, receipts, queries | an append-only trail, an upsert per signal | record, sweep, decide, mail | Best effort; nothing acts on them |
| Kernel, platform, content, pages, scripts | none, or configuration | arithmetic, I/O, rendering | |

How they interact. A page or action authenticates through `src/server/auth.ts`
(`resolveSession`) and calls one use case of one module. Modules do not import each
other; the facades of `src/server` compose them: the refresh loop refreshes tickers and
then evaluates alerts; a sign-in is recorded and keeps the visit that follows it from
being announced; a suspension revokes sessions. Those couplings are in the
models. A ledger action also records an event and may be pushed to a device; nothing
in the ledger reads what becomes of that.

Concurrency. Between two `await`s of a use case nothing else runs in its process, but
there are many processes and requests, so anything may happen at every `await`.
`platform/db/client.ts` gives out a pool of connections at READ COMMITTED; a single
statement is atomic, and the only transaction of the ledger is the one in
`DrizzleLedgerRepository.post`.

## 2. The modules

| Module | What it is |
|---|---|
| `Bookkeeping` | The abstract ledger: balances and holds, and four indivisible movements |
| `LedgerStore` | The tables, the repository, the arithmetic of `LedgerAccount`, and the frame of a call |
| `Withdrawals`, `DepositClaims` | The use cases, one action per await |
| `Ledger` | Both over the same account rows |
| `UserRules` | What the aggregate does to a user: attempts, lockout, suspension, passwords |
| `Accounts` | The abstract account: each decision is taken on the account as it stands |
| `IdentityStore` | Users, sessions, links in mail, Google connections, and their repositories |
| `SignIn`, `AccountCare` | The use cases that open sessions, and those about an account that exists |
| `Identity` | Their composition, and the properties |
| `MarketData`, `Alerts` | Quotes and the loop that copies them; the evaluation and the customer's alerts on top of it |
| `Verifications`, `Support`, `SupportWidget`, `WalletLink`, `PushDevices`, `TransactionFeed`, `Announcements` | One service each |
| `Desks` | Those seven in one specification |
| `Presence` | One browser's tabs, the rows of its contexts and the announcements |
| `MCLedger`, `MCWithdrawals`, `MCDepositClaims`, `MCIdentity`, `MCAlerts`, `MCDesks`, `MCPresence` | Constants and symmetry for TLC |
| `LedgerBooksProofs`, `LedgerDecisionProofs`, `LedgerSumProofs`, `IdentityTypeProofs`, `IdentityProofs`, `DesksProofs`, `PresenceProofs`, `AlertsProofs` | Section 5 |

**Calls.** A step takes the code from one await to the next: its guard comes from the
early returns and the domain's refusals, its write is the statement the code awaits.
In the ledger and in identity `pc[c]`, `cmd[c]` and the copies read (`mem`, `seen`)
are what an execution has between two awaits; a call names the records it creates, so
the number of calls bounds the state. The other modules keep a record per request
under way.

**Switches.** `OneAtATime` puts a withdrawal, a claim, a person or a support thread in
one call's hands at a time, `SerialSubmissions` does it for a customer's KYC cases,
`OneBeatAtATime` for a tab's beats. Nothing in the code enforces them. A run with one
of them says what the code guarantees to calls that do not meet; the same property
without it is listed in section 4. They limit only calls about the *same* record.
`MayCrash` and `StopsAnywhere` let a call stop between its writes, `RepliesMayFail`
lets an insert raise before or after it committed. `MaxFaults`, `MaxLost` and
`MaxForgetFails` bound how often something fails, requests or answers are lost, and the
server fails to delete devices.

**Abstractions.**

- Ledger: amounts are integers (`Money` is an unbounded integer at the asset's scale); the
  fee is a function of the asset; validation that reads no table is taken as passed;
  timestamps, text and references are left out. A missing account and a zero one
  answer every read alike, so accounts always exist.
- Identity: the age of a session, a link or a lockout is nondeterministic: each may turn
  out to have run out whenever it is looked at. Each password is named by the call that set it.
- Market and alerts: prices are small integers; a customer's alerts are found again by their
  key. A fault budget covers the feed, the reads, the saves and the restarts of the process. A read
  of tickers that fails leaves every market unavailable; a record of tickers that fails in the
  shared refresh rejects for all who wait for it and ends their evaluations, as does a list
  of armed alerts that cannot be read.
- Wallet link: `linkWallet` hands the driver an `EvmAddress` where the other paths hand
  it a string, and the driver stores the object's JSON: the two spellings of one address
  are two row keys. The opt-in is taken as on.
- Support widget: messages are told apart by their text until a post has answered, as the
  code does.
- Presence: time is counted in ticks and the windows are scaled to one or two of them; a request is
  answered within the tick after it began; reads do not fail and beacons are not lost.
  A fix is reduced to whether it is exact and when it was taken, and the location is
  followed for one context (`Tracked`).
- Push: what a sign-out deletes behind its response (`after`) is deleted with it, or fails to
  be, and the response of a sign-out arrives. A registration or a release may be refused, be lost on
  the way, or be done without the page hearing of it; the cookie then came or did not.
- Announcements: the limit of three notices per surface and the text of a notice are
  left out. `ZoneLag` is how much later the server's zone reads a typed time.
  A write that commits is taken to be answered.

## 3. Runs

| Run | Instance | Shows |
|---|---|---|
| `ledger_races` | 1 customer, 1 operator identity on any number of calls, 4 calls of any kind, crashes anywhere | Types; a copy whose version is current is current; held within balance; every balance is the sum of its entries; an approval has its money; a claim has its proof; every write is a movement of `Bookkeeping` |
| `ledger_desk` | 4 calls, a coin and a token that pays its fee in the coin, one call per record, inserts that fail or lose their reply | Paid and credited at most once and never after a rejection; decisions and verdicts stand; what is held is exactly what is undecided |
| `identity_races` | 3 people (two of them operators, one unregistered), 1 Google account, 3 overlapping calls, crashes | Types; lock and failures agree; the users table implements `Accounts`; a suspension is lifted only by a reinstatement; nobody is locked out of their own account |
| `identity_desk` | 2 people, 4 calls, one at a time per person | A link sets one password; a reset or a change leaves no session on the old one; revoked stays revoked; an operator remains |
| `market_alerts` | 1 symbol, 2 prices, 2 alerts, 1 pass, 1 client, 1 fault | Told at most once per arming; **liveness**: no alert stays armed while the market satisfies it, whichever await of a tick fails |
| `desks` | Seven services, one running in each behaviour | See below |
| `presence_visits` | 2 tabs, 1 account, 3 contexts, 3 beats, 3 ticks, 2 requests at once | A visit is announced once; a closed tab is off the board; a live fix the visitor consented to is not replaced by a guess |
| `withdrawal_paid_twice` | 2 operators, no crash | *Violated*: two operators pay one withdrawal |
| `withdrawal_hold_leaks` | a request that stops | *Violated*: a hold with no withdrawal |
| `claim_credited_twice` | 2 operators | *Violated*: one claim credited twice |
| `session_comes_back` | 2 calls | *Violated*: a slide undoes a revocation |
| `alert_starves` | 2 alerts, a batch of 1 | *Violated*: the younger alert is never evaluated |

**`desks`.** The seven services share no table, lock or message; `focus`, chosen in the
initial state, says which of them runs. This is a disjoint union, not a composition:
the run is seven small models in one state graph, and no state of one is
multiplied by the others. Its instances: two customers and two operators on three KYC
cases; two threads, three messages and one image over two requests; three sends of two
texts; two owners, two addresses and two nonces over two link calls and a rename or
disconnection each; two accounts and three tokens with two
lost requests or answers and one failed deletion; four records with
two timestamps in pages of one and then two; one notice, two operators and three ticks
with a zone one tick off. Notices do not influence one another, so one is enough.

**Bounds.** Four ledger calls are the fewest with which two requests are filed and two
operators act on one of them while the other's hold covers the second release, which
is the shape of `withdrawal_paid_twice`. Amounts of 1 with a fee of 1 and an opening
balance of 3 make requests that fit, compete and are refused. Customers share only the
platform's accounts, which two calls of one customer already contend for. Three
identity calls give every pair of use cases a third that crosses both. Two alerts and
a batch of one or two tell the head of the queue from its tail. Three beats and three
ticks let a row go idle, be swept and come back, and let a fix grow stale while its row lives.

**Symmetry.** Calls, tabs, pages and request slots are interchangeable and only safety
is checked under symmetry; `market_alerts` and `alert_starves`, which check liveness, use none. In
`desks` the two model values stand for several sets at once and are exchanged in all of
them together.

**Fairness.** Only `Alerts` states it: weak fairness of the timer's tick, of the shared
refresh and of each pass. The code justifies it: `setInterval` fires again whatever the
last tick did, the feed's fetches have a timeout, a reader stops waiting after
`REFRESH_TIMEOUT_MS`, and the `finally` of the tick clears the flag. It does not cover a
database call that never returns: nothing times one out, and the loop would stay off.
No fairness is assumed of customers, of the market, or of a failure.
Elsewhere nothing obliges an operator to decide or a caller to retry, so no liveness is
stated. Deadlock is not checked where calls or bounds run out.

**Vacuity.** Every action fires in the passing runs. Every property of a passing run
has a mutant in PROJECT.json: a plausible bug in a mapped definition that breaks it under
the same configuration. The mutants stand beside the definitions they change.

## 4. Where the code and its promises part

Five are runs, quoted in PROJECT.json.

- **Decisions carry no version.** `decideWithdrawal` and `decideDepositClaim` read the
  record before the account and save the record over whatever it holds, so two operators
  can pay or credit one record twice as soon as the account allows it. The money stays
  conserved (`MovementsAreAtomic` holds in the same races): a legal movement is made twice.
- **A hold is written before its withdrawal** and outlives a stop between the two.
- **A slide writes `revokedAt` back** from the copy it read.
- **The batch of alerts is always the oldest**, whether or not they can fire.

The following came up while modelling. The first group can be reproduced by changing
constants of a run, or by leaving out a premise of its property:

| Change | Then TLC breaks |
|---|---|
| `ledger_desk` with `MayCrash` | `CreditedAtMostOnce`: the money moves before the decision is saved |
| `withdrawal_paid_twice` with `OneAtATime` and `MayCrash` on | `PaidAtMostOnce`, for the same reason, where another hold covers the second payment |
| `ledger_races` with `RepliesMayFail` | `ClaimHasProof`: the cleanup after a lost reply removes the proof of a claim that was saved (submit-deposit-claim.ts:95) |
| `identity_desk` with `OneAtATime` off | `LinkSetsOnePassword`, `OldPasswordOpensNothing`, and `AnOperatorRemains` (two operators who suspend each other) |
| `market_alerts` with two passes | `ToldOncePerArming`: a cron request evaluates beside the loop |
| `desks` with `SerialSubmissions` off | `OneCasePerCustomer`, which submit-verification.ts:87-89 accepts; the property then has to drop its premise |
| `desks` with `OneAtATime` off, or `StopsAnywhere` | `SummaryTellsTranscript`: a resolved summary over an unanswered reply |
| `desks`, the property without `token \notin astray` | `RemovalIsRetried`, in three ways: a first enable is stored and its answer lost, so there is no owner to retry (use-push.ts:205, 370) and, when the cookie was lost with it, a sign-out and the next person leave the device as it is; a deletion fails behind the dropped cookie, and the retry of the next load has only the cookie (api/support/devices/route.ts:84, use-push.ts:176-179, 215), or there is no retry after a sign-out; "sign out everywhere" drops the cookie another account's device was to be released by |
| `presence_visits` with `OneBeatAtATime` off | `OncePerVisit`: a navigation beats again at once, both beats find no row and both arrive. `ClosedTabIsGone` and `ConsentedFixStands` also break, until the next beat repairs them |

The second group was seen in reading and is in the models' behaviour, or beside it:

- Two tabs that open together each find the other and neither is announced (`server/presence.ts:152`).
- A stay is recorded when its page is left and again after the page has come back (record-presence.ts:197).
- A row keeps the previous account on the board after a sign-out in the same tab (record-presence.ts:147, presence.ts:266).
- `moveAnnouncement` tests the copy it read: a publish saved after an archive brings the
  notice back (repository.ts:37, manage-announcement.ts:21). A notice published after its
  expiry is seen by nobody (announcement.ts:168). A schedule without a time stays a draft and is answered
  "Scheduled." (manage-announcement.ts:92). Typed times are read in the server's zone (announcements
  `_lib/actions.ts:152`). An expired scheduled notice counts as scheduled (read-announcements.ts:62).
- The loser of two KYC decisions is told, and tells the customer, a verdict that was not
  recorded (decide-verification.ts:59-65).
- `Withdrawal.approve` has its rule against one's own withdrawal commented out
  (withdrawal.ts:181, docs/architecture.md:730).
- `setAdminStatus` counts customers among the operators that remain.
- A crash between the save of a fired alert and its notice loses the notice (`alerts.ts:113`).
- Marking the bell read stores the time of the mark, not of the newest item shown
  (`notifications.ts:151-161`).
- `findByAddress` does not find rows `linkWallet` wrote, and proving a watched address
  meets its own primary key. The checks of the opt-in on watching and of uploads are commented out.
- In the widget, one text sent twice within the clock's tolerance hides the second bubble, a lost answer
  leads to a duplicate, and an image claimed by a failed append is refused to its retry.
- The transactions route does not know the status `confirming` (`api/admin/transactions/route.ts:24`).
- The coin that pays a token's fee is checked and not reserved (request-withdrawal.ts:133).
- Two requests for a mailed link at once leave two live links (send-verification-email.ts:33).

## 5. Proofs

Each proof module EXTENDS the module it is about. Assumptions are the named ASSUMEs of the
modules: platform owners are not customers, customers open with no debt, amounts are
positive and fees not negative, the seeded people are people and their ids are not those of
later calls (`NamesAssumption`), the calls of a ledger are finitely many (`CallsAssumption`),
and the null of a column is not one of its values (`NoRecordAssumption`, `NoNoticeAssumption`,
`NoRowOfSupport`, `NoValueAssumption`, `NoAlertAssumption`); ids of feed rows and alerts are
positive numbers (`FeedAssumption`, `AlertIdsAssumption`). Further premises stand in the theorem. Three of them recur:

- `OneAtATime`: the calls, or requests, about one record, person or conversation take
  turns. Section 4 shows what overlaps cost; these theorems say that nothing but overlap does.
- no crash (`~MayCrash`, `~StopsAnywhere`): a call that began runs to its end.
- `OneBeatAtATime`: a tab waits for its answer before its next beat.

Where a fact is about a list, a sum or a page, induction is done by hand: the set of numbers at
which the fact fails would have a least one, and that one is impossible.

**Ledger**, for any customers, assets, operators and calls.

1. `TypesHold`. Inductive once it says that a call at a step has the command and
   copy that step works on.
2. `ReadsStaySound`: a row in memory with the stored version is the stored row. `SoundInv`
   adds that versions are never negative, so a row never read is never current.
3. `LedgerImplementsBooks`: a write that passes its guard was computed on the row as it
   stands, so what was checked on the copy holds of the row; each write maps to one
   movement of `Bookkeeping`, every other step to a stutter.
4. `HoldsStayCovered` follows through the refinement.
5. `ApprovedIsPaid`, `ApprovedIsCredited`: from `PostedInv` (a transfer is posted once,
   posted before the decision on the way is saved, and no step takes one back).
   They hold under overlap and crashes.
6. `DecisionsStand`, `VerdictsStand`, given `OneAtATime`: from `HandInv` (a record whose
   call is over has none on it; a call that decides is alone; the copy it read is the row).
7. `PaidOnce`, `CreditedOnce`, given `OneAtATime` and no crash: `OnceInv` adds that what was
   paid is decided, or being decided by the one call that paid it. Without either premise
   the property fails (section 4).
8. `ClaimsHaveProofs`, given that no reply fails: a submission that saved its claim would
   otherwise take the proof away again. Crashes anywhere are allowed.
9. `BalancesAreTheirEntries`: each step posts one transfer and moves every balance by its
   entry, or neither (`StepPostsWhatItMoves`). A sum over the calls is a fold; that it gains
   the entry of a call added to it is proved without an induction principle, by the least
   prefix at which it would fail. This holds under overlap and crashes.
10. `HeldIsPending`, given `OneAtATime` and no crash: the same sums, over the withdrawals that
    are reserved. A request is reserved from its hold to the step that takes the hold, though
    its row is filed later and decided later; without either premise it fails.

**Identity.** Under any overlap and any crash:

11. `IdentityTypesHold`; `ResetLinksAreSpent` and `SpentLinksStaySpent` (a link that set a
    password was spent before, and stays spent), from `IdentityInv`, which adds where each reference
    of a call points.
12. `AccountsRefine`: every write to the users table decides about the row as it stands,
    because it is saved under the version it was read with; so the module implements `Accounts`.
13. `SuspensionsStand`, `LocksMatchFailures`, `NobodyGetsLockedOut` from the same outcome lemma.

Sessions and mailed links carry no version, so the rest needs turns:

14. `TurnInv`: the calls under way are about different people, a step writes rows of its own
    person only, and what a call has read of the person still is so when it writes. From it
    `RevocationsStand` (a slide writes back the session as it is), `LinksSetOnePassword`
    (an unspent link has set none) and `OperatorsRemain` (a suspension of an operator counted
    another one), with crashes anywhere.
15. `OldPasswordsOpenNothing` needs in addition that no call stops between the new password and the
    revocation: a session stays one that the present password opened, or one whose revocation is
    the next step of a call under way.

**Services** (`DesksProofs`), for any number of customers, requests and rows.

16. `VerdictsAreFinal` and `OneCaseAtATime` (KYC); `NoncesProveOnce` and
    `VerifiedRowsWereSigned` (wallets; the invariant follows a challenge from its issue
    through its one consumption to the row); `PushTypesHold` and `RemovalRetriedAlways`
    (push, under any losses, failures and sign-outs: a
    registration the browser did not lose its hold on, by one of the three faults of section 4,
    has an owner and the cookie).
17. `NoticesShowTheChoice` and `AnnouncementTypesHold`: whatever operators read and save at once,
    a row in any status is one that the last choice could have made, at every later time.
18. `SupportTypesHold`, with the count the unread columns need (nobody has more unread than was
    written), and `ImagesAreOnOneMessage` (an image that a message holds is claimed, and the one
    update that claims it gives it to one request): under overlap and crashes.
    `SummariesTellTranscripts`, given turns and no crash: each request saves the summary it
    read with its own message added, so it counts what the transcript holds.
19. `TypedTextsStay` (widget): a text that is owed is in the box, is stored, or is in a bubble
    waiting for its message; and a waiting bubble that no stored message on screen echoes is among
    those drawn, by the least prefix of the waiting bubbles at which the drawing would pass it over.
20. `FeedsReachEveryRow`: a page is the newest rows below the cursor, so what it leaves out is
    older than all of it, and below the next cursor. That gives the property for any order of
    filing, any timestamps and any page size.
21. `EachServiceRuns`: a behaviour of `Desks` is one of each service, so these hold there, and
    `DesksTypesHold` puts the services' types together.

**Presence**, for any tabs, visitors, pages and windows.

22. `PresenceTypesHold`, under any overlap. A row's view counter is bounded only because a row,
    a copy a beat has read, and the beats not yet answered together never count more views than
    beats were sent.
23. `ClosedTabsAreGone` and `ConsentedFixesStand`, given `OneBeatAtATime`: from `TurnInv` (the
    unanswered beats are of different tabs and say what their tab is; the row a beat has read is
    the row, or was swept).
24. `VisitsAreToldOnce`, given also that the gap is at least the tick by which a request is
    answered: an arrival, on its way or told, leaves a row of its visitor that is not older than it,
    until it is past retention. So the next beat of that context is recognised; the next context
    finds that row when it looks for other tabs; and an arrival that finds no row comes after
    retention. The code's gap is ten minutes.

**Alerts**, for any alerts, prices and batch limit.

25. `AlertTypesHold`, whatever passes overlap.
26. `AlertsTellOncePerArming`, given `OneEvaluation` (one pass at a time): an arming not used up is an
    armed row or a member of the batch the pass holds, one used up and not told of is among the
    pass's news, and none is in two places. Two passes at once read the same armed row, and both
    tell.

## 6. Only model-checked

- Liveness under fairness, and ENABLED: `CrossingsAreNoticed`. It is the one property of a
  passing run that no theorem states.
- The five disagreements of section 4: TLC finds them.

No module declares a RECURSIVE operator.

## 7. Not modelled

- Read-only queries, statements, summaries and boards; receipts and mail; cryptography;
  content; migrations; one-off scripts. They keep no state that another part acts on.
- Risk dispositions (one upsert per signal) and the activity trail (append-only, best effort).
- The notification bell, wallet evidence (bytes nothing refers to) and settings, profiles.
- The support console (reply box and unread marks of the operator), typing and presence lines of
  the widget, images in it, the sweep of orphaned uploads.
- Order books, candles, the tape and yields: read on demand.
- Most of the repository's lines are pages, forms, charts, copy and fixtures. What a
  form holds is lost with its page and no other part reads it, so a model of it would
  say nothing; this is why the map covers a small share of all lines while it covers
  the use cases, repositories and aggregates above nearly whole.
