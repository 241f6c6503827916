# TLA+ models of the stock trading simulator

The repository is a simulator in which AI agents trade Chinese shares on paper: a
Python backend (`src/core`), a React user interface (`src/web`), specifications in
Chinese (`src/spec-01` to `src/spec-06`). This directory holds TLA+ models of the
backend, the TLC configurations that check them, and proofs that TLAPS checks.
`PROJECT.json` says for every definition which lines of the source it models.

## 1. The system

One process: FastAPI over SQLite (WAL), one connection per thread (`db.py`). Every
write goes through `write_txn`: a global lock, `BEGIN IMMEDIATE`, commit or rollback.
Reads are often outside of it, and most hazards below come from that. Threads:

- the asyncio loop runs `EodSettleTrigger.run_forever` every minute (settlement, gaps,
  trial backfill, expiry of approvals, narratives, pushes) and the market collector
  every three seconds;
- the scheduler's tick runs in a worker thread every minute;
- synchronous HTTP routes run in a thread pool, any number at a time.

At start-up: `recover_on_startup`, expiry of stale decision tasks, backup, catch-up of
missed trading days (in a thread), then the loops.

| component | state | operations | hard part | what makes it correct |
|---|---|---|---|---|
| condition orders (`orderstore`) | `condition_orders` | place, emergency sell, cancel by freezing | orders come in while a settlement holds older rows | no buy rests on a frozen security; a closed order stays closed |
| accounts and direct control (`accountstore`) | `accounts`, `agents`, `frozen_securities` | pause, halt, resume, freeze, unfreeze; trial and validation accounts | races with orders and settlement | as above |
| settlement engine (`eodengine`) | `trades`, `lots`, `holdings`, `accounts.cash/nav`, `settlement_log` | `settle_account` | order of the replay, several triggers, rollback, days out of order | cash, lots, trades and orders explain each other; T+1; no look-ahead; a settled day is final |
| corporate actions (`eodengine`) | `lots`, `holdings`, flags of a lot, `audit_logs` | split, dividend, rights, delisting | provider fails, retry, days out of order | each event once and to all it is due to |
| signals and exits (`signalstore`, `eodengine.settle_exits`) | `signal_registry`, `exit_trackings` | register, advance a day | days retried, skipped, caught up | a window counts each later day once |
| settlement of a day (`settle_day`) | - | `run_day` | reads before the transaction | same |
| settlement trigger (`settle_scheduler`) | `_done_dates`, `_gap_accounts` (memory) | window, catch-up, gaps, trial backfill | restart, late orders, days out of order | every trading day is settled or reported absent |
| task queue (`tasks`) | `task_schedule` | enqueue, claim, requeue, finish, recover, interrupt | two executing threads, crash, time-out | one runner, done is final, no orphan |
| scheduler tick (`scheduler`) | - | `tick` | order of its scans | a late decision has no effect |
| autonomous mode (`manager`) | `manager_state` | health and resume counters | its probe is a task of the queue it slows down | recovers when the provider does or its check is starved; backlog kept and served |
| approvals (`approval`, `capability_center`) | `approval_requests`, the account's configuration, bindings | submit, decide, expire, close; unbind, deprecate | check and write in different transactions | configuration changes only by a granted request |
| validation windows, strategy versions (`evoquant`, `strategy_versions`) | windows, versions, `active_version_no` | open, advance, decide; checkpoint, activate, rollback | several transactions, crash in between | one window, one active version at most, a pointer with a verdict behind it |
| reports (`reporting`, `reconcile`, `narrative`) | `daily_reports` | first version, absent, narrative, push | absent against settled; two threads | reports and chat tell what was settled |
| conversations (`chatstore`, `engine`, `conv`) | `messages` | send, process, review, page back | several writes, each may fail; lost on restart; ids of one second | receipts are true, paging misses nothing |
| market data (`collector`, `l0store`, `source_chain`, `market_data`) | samples, coverage, source bindings, two caches | sampling, finalization, selection of the feed | restart, sources changed, caches filled too early | what a settlement takes is whole or marked, of one source |
| knowledge base (`kb`) | `kb_entries`, `kb_stats`, `kb_tag_aliases` | create, transition, merge, recompute, dispatch | the recomputation reads outside its write | statistics invent nothing and lose no dispatch |
| trials (`accountstore`, `settle_scheduler`) | `trial_replays`, `replay_sessions` | create, backfill, launch, reject | the user decides while days settle | a launch rests on frozen evidence |
| backup (`backup`, `runtime_flags`) | files | daily backup, export | starts against a settlement; partial file | a backup that counts is whole |
| memory, context, LLM, sessions, UI | | | content or small sequential state | left out |

How they interact: routes and (in demonstration mode) conversations place orders;
`run_day` reads orders and holdings, fetches feeds from `market_data` and calls
`settle_account`, which also writes signals, exits and the day's report in its
transaction; the tick executes tasks, which an approval may suspend; the manager's mode
decides what the tick puts off, and the manager's health check is itself such a task.

## 2. Modules

| module | models | composed of | proofs |
|---|---|---|---|
| `OrderRules` | when and at what price an order is tried, in closed form | | |
| `OrderReplay` | the three replay loops for one order, sample by sample | `OrderRules` | `MarketProof` |
| `EodSettlement` | one account: orders, control, settlement transactions | `OrderRules` | `EodSettlementProof` |
| `CorpActions` | the events of an ex-date within a settlement | | `CorpActionsProof` |
| `SettleTrigger` | what settles a day, reports and their delivery | | `SchedulerProof` |
| `TrialReplay` | a trial, its replay and its decision | | `ValidationProof` |
| `TaskQueue` | task rows, tick, route, approval wait, restart | | `SchedulerProof` |
| `ManagerMode` | autonomous mode with the deferral of heavy tasks | | `ManagerProof` |
| `AccountConfig` | abstract: how an account's configuration may change | | |
| `Approval` | requests, racing threads, effects, expiry | implements `AccountConfig` | `ManagerProof` |
| `Evolution` | validation windows and strategy versions | | `ValidationProof` |
| `Conversation` | messages, engine, review, paging | | `AgentProof` |
| `MarketFeed` | collector, caches and the feed of a settlement | | `MarketProof` |
| `Signals` | forward windows of signals and sales | | |
| `Knowledge` | the knowledge base over the signals | `Signals` | `AgentProof` |
| `SumTheorems` | lemmas on sums over finite sets and on queues | | itself |
| `MC...` | the instances TLC checks, one per run | | |

A proof module extends the modules it is about; two of them may share one, and then the
definitions every specification has (`Init`, `Next`, `TypeOK`, ...) carry the module's name
in one of the two (`TrialInit`, `TriggerNext`, `ManagerSpec`, `ReplayTypeOK`, `ChatInit`).

Beside some definitions stands a mutated form (`...Mut...`): the run of the property it
names in `PROJECT.json` finds the property violated when the mutant takes the
definition's place. No definition uses one.

Modules that are not joined meet in an abstraction of each other: `EodSettlement` takes
any feed `MarketFeed` may hand out; to `SettleTrigger`, `TrialReplay` and `Signals` a
settlement is one step that succeeds, is refused or leaves a gap; `Evolution`'s
verdict reads any evidence. Every module assumes that a write transaction is one step,
which `write_txn`'s lock gives, and that everything else interleaves.

### OrderRules and OrderReplay

A trading day has samples `1..NSamples`; an order is created after sample `slot` of day
`day`. A feed is what `settle_input` may return for one symbol and day: `l0` (3-second
samples), `l1` (minute bars), `l2` (the daily range), or `susp` (suspended, only a
valuation price). `OrderReplay` is the loops of `settle_account` as they are written,
one iteration per step, with the loop's local variables: `pinned` is `ever_pinned`,
`refHigh` is `ref_high`, then `touched_prev`, `prev_failed`, `seen_after`.
`OrderRules` says the same as a set of samples (`Attempts`) and a price per sample.
`ReplayMatchesRules` is the agreement of the two for every case, and is what allows
`EodSettlement` to replay an order in one step. It also shows something about the code:
the minute loop's rule on crossings never makes an order miss a fill that it could pay.

Prices are integers and a price that is a quotient is kept as a fraction; `RoundDiv` is
the rounding half up that the code applies to an amount and to a percentage price.
A minute bar has high and low, or its close only (`full` is false, `_norm_l1`): such a bar,
the kind the data service delivers today, touches at the close only and is never taken as
sealed or muted (`PinnedAt`), while its `lo = hi = px` is how the model writes "no others".

### EodSettlement

State: `status` and `frozen` (the user's controls), `orders` (the table, in order of
creation), the books `cash`, `lots`, `hold`, `avg`, `trades`, `exits`, `settled`
(`settlement_log`), `nav`, and two places inside a settlement: `plan`, what `run_day`
has read before the feeds arrive, and `tx`, what the write transaction has changed and
not committed.

| action | code |
|---|---|
| `PlaceOrder`, `EmergencySell` | `place_order` with its gate; `emergency_sell_all` |
| `Control`, `FreezeSecurity`, `UnfreezeSecurity` | `control_agent`, `freeze_security` with the cancellation of resting buys, `unfreeze_security` |
| `PlanDay(d)` | `run_day`: eligibility, `_orders_for`, `_held_symbols`; today after the close or any earlier day |
| `SettleAccount(market)` | `settle_account` up to the loops: refusals, working copy |
| `JudgeOrder(k)` | one order in its loop, in the code's order: L0 symbols, L1, L2; symbols in order; orders by creation |
| `Commit` | write-back of orders, audit, net value, `settlement_log` |
| `Abort`, `GiveUp` | errors and crashes after and before the transaction begins |

Requests interleave with the plan and not with the transaction (the global lock).
The feeds of the day are chosen when they are first used. `EmergencySell` joins the
read of a holding and the order for it: holdings change in settlements only. A position's
lots of one day are taken in the order of random row ids; `LotId` is one such order.
`run_day` passes no board, so price limits exist in `OrderReplay` only.

### CorpActions

`official` is what happens on each day of a calendar; the provider may fail to tell it,
and the day is then settled without events (`ProviderGap`). `SettleAccount(d)` opens a
day, earlier ones too; each event of the day is a step (`Split`, `Dividend`, `Rights`,
`Delist`, or `NothingDue` when the code's filters leave nothing), with the lot flags that
make an event apply once, the holding-period tax, the fees of a delisting, the test of a
rights issue against the account's row; then `BuyFill` and `SellFill` in the order of lots,
`Commit` with the conservation audit, `Abort`. An illegal event refuses the whole day.
Prices and costs of lots are left out. `create_app` sets no provider of events, so in
the deployment as shipped this code runs only under another wiring.

### SettleTrigger

State: the clock of a day, `mode` and `orders` of each account, `log`
(`settlement_log`), `rep` (the versions of a day's report), `chat` (deliveries), and what
lives in memory: `done` (`_done_dates`), `gaps` (`_gap_accounts`), `th` the settlement
thread. `Step` is the thread: catch-up of missed days at the start (`FetchAxis`,
`CatchupDay`, `CatchupDayRun`), then the window with one account after the other
(`SettleOnceIdle`, `SettleOnceTracking`, `SettleOnceRun`, `LiveDayRun`), closing of gaps
(`CloseDay`), the two halves of an absent report (`FillCheck`, `FillInsert`), `Push`. Beside
it the tick's `TickCheck` and `TickInsert`, the user's `PlaceOrder`, `Switch`, `SwitchAll`,
and `Restart` with `Start`.

### TrialReplay

`Create` opens the trial account and the replay; `Backfill` is the thread: a round over
the replays that need days, the latest missing days, `Settle` or `DayFails`, `Count` of a
session; `Finish` decides, with the gates `Preview` shows the user; restarts lose `th`.
`ordered` and `active` are the days of the trial's orders, `sess` the `replay_sessions`.

### TaskQueue

One row per task with its status, heartbeat and time of suspension; each thread has a place, the
batch it claimed and the task it is executing. `claim_due` and every UPDATE is a step; `Enqueue`
ignores a key that has a row, one that failed too; the SELECTs of `recover_crashed`,
`scan_interrupt_timeouts`, `idle_window` and `decide_approval` are steps of their own because they
are outside the write transaction. `tickNow` is the time the tick was given at its start and works
with. A unit of time is 30 minutes, both limits. A handler takes any time and its result is
written whatever the row says by then, as `finish` does. Suspension is a row that stays running
while its handler executes. The docstring of `enter_interrupt` (`tasks.py:205-207`) has the
execution return and the row stay running, which no handler does today and `_dispatch` would turn
into `done`. An exception between the claim and the call of a handler is not modelled.

### ManagerMode

The counters of `manager_state`, and the pending tasks as numbers: llm-heavy ones that are more
urgent than the health check, and health checks. A thread claims (heavy first, `Limit` rows; there
may be more of them than that), reads the mode once, puts the heavy rows back in autonomous mode
and executes the rest. `Ping` and `Record` are two steps: `record_health` writes what it computed
from an earlier read.

### AccountConfig and Approval

`AccountConfig` has the account's configuration, the deprecated capabilities, which
request asked for what and which were granted; `Grant` applies the whole effect of a
request. In `Approval` a submission is `Check` (hash, cooldown, quota, without a lock) and
`Insert`, a decision is `Read` and then `Late`, `Approve`, `EffectFails` or `Reject`, and
`Tell` for the message; `Expire` and `CloseForInterrupt` come from the two sweeps. The
refinement maps `asked` to `payload` and `granted` to `applied`, the requests that an audit
row calls approved.

### Evolution

The agent starts as the code creates it, without a version, and `active_version_no` is empty
(`"none"`). `Open(c)` is a call of `open_validation` in its four transactions (`Ask`,
`Checkpoint`, `Provision`, `OpenWindow`/`Register`), `Advance` the settlement thread over the days
and windows: `AddSession`, `Start`, `Count`, and the verdict in four transactions (`Activate` or
`Reject`, `Memo`, `Close`, or `Seal`). `Rollback` is the user's; when it is refused (no active
version, no validated one) it leaves an audit row only, and that is no step. `Restart` loses the
calls and the thread's place; the tables stay, and the days of the look-back are advanced again.
Validation accounts are refused by `place_order`, so in the program as it stands a window gathers
no sales; the model's evidence is any.

### Conversation

Messages by id with direction, time, status and review. A request keeps the message
(`Send`), writes its audit row and creates the engine's task (`Schedule`); the task is
`Process`, `DemoOrder`, `Reply`, `Answered`, `Finish`. Any step may raise: inside the `try`
the message fails (`Fails`); `Dies` is an exception that nothing catches, in the audit row
before the task exists, in the read of the agent before the `try`, or in the handler's own
write, and the message stays as it is. Without the stub engine (`stub`, a setting that a
restart may change) a message is passed on as delivered and gets no reply (`Pass`).
`Deliver` is an agent's message, review a read and a write, and a reader: `Open` gives the
newest page and `Load` each older one, until `has_older` is false.

### MarketFeed

The collector: `Cycle` takes a sample of every watched symbol, finalizes a day after the
close and builds the watch list; `Bind` is apart from the samples because the process may
die in between. The service: `Take` is the settlement's `_build_feeds`, choosing the level
(`Level`: samples if covered, minutes, daily range) and filling both caches; `Peek` and
`PullMinute` are the pages' requests, which fill the same caches at any hour. A fetch of
daily rows replaces the cached ones (`daily_cache_put`); `peeked` marks the rows that come
from a page's fetch while their session ran, and a later fetch that replaces a row clears it.
A half day is one sample. `record_failure` has no caller, so the router never leaves its first source,
and only a restart with another configuration changes it; one adapter is registered.

### Signals and Knowledge

`Signals`: rows registered by trades and by candidates, advanced once per settled day
(`AdvanceExits`, `AdvanceSignals`), live or in the catch-up, for N days, with the base price
and the days each was advanced on. `Knowledge` adds the entries with their states, merges of tags, the
statistics, and the two recomputations (the settlement's and the task's), each of which
reads an entry in one step and writes it in another, beside the requests (`TransitionRead`
and `TransitionWrite`, `Delete`, `Restore`, `MergeTag`, `DispatchRead` and `DispatchWrite`). All rows
are of one account and symbol and a price is named by its day. In the code a trade's
signal carries no tag and so is never evidence for an entry, and
`register_candidate`, `register_pitfall` have no caller yet; the model includes them.

## 3. Runs

| run | question | states | bounds |
|---|---|---|---|
| `replay` | do the loops fill when and for what the rules say? | 1.5 M | 3 samples, prices 9 to 11, every order type, minutes with and without high and low |
| `settle` | do orders, control and settlements in any order keep the books? | 2.3 M | 2 symbols, 2 days, 2 samples, 3 orders, a buy of 2 shares |
| `corp` | is each event applied once, to all it is due to, and every share explained? | 0.37 M | 2 symbols, 3 days, 5 calendars, 2 trades |
| `trigger` | do reports and chat tell what was settled, and does a start make up for what was missed? | 0.24 M | 1 account, 2 days, 3 restarts |
| `trial` | are the counted sessions real, is a launch's evidence frozen, does the replay complete? | 0.11 M | 2 trials, window 2, 4 days, 2 restarts |
| `tasks` | is a row in one hand only, is what is done left alone, is nothing left running? | 4.6 M | 3 tasks, claim of 2, 2 threads, 3 points of time |
| `manager` | does autonomous mode end unless heavy tasks fill every claim, is its backlog kept and served? | 0.34 M | claim of 2, up to 3 heavy tasks |
| `approval` | does the configuration change only as granted, by any race? | 0.65 M | 2 requests, 3 payloads, 2 threads of each kind |
| `evolution` | one window, one active version at most and none only at first, lasting rejections? | 3.2 M | 2 callers, 3 versions, window 2, 3 days, 1 crash |
| `conversation` | are receipts true, does paging miss nothing, is every message answered, failed or lost? | 1.9 M | 3 ids, 2 seconds, page of 1 |
| `feed` | is a settlement's input whole or marked, of one source, at the official close? | 1.75 M | 1 symbol, 2 sources, 2 days, 1 restart, 1 page request |
| `knowledge` | does a window count each day once, do statistics invent and lose nothing? | 4.1 M | 1 row, 1 entry, N = 2, 3 days, 2 starts |

All hold. What each property excludes stands in the comment above it; in short:

- `settle`. `BooksBalance`: orders of a day compete for cash; cash is the capital and the flow of
  all trades, a position the sum of its lots, through partial sales, rollbacks and late days, and
  cash is negative by no more than what sales cost beyond their proceeds. `OneTradePerOrder`,
  `SettledDayIsSealed`: repetition, retry and rollback change nothing twice. `TPlusOne` over the
  whole history. `NoLookAhead`: no fill before the order. `FrozenHasNoBuys` under all
  interleavings of freezing, ordering and settling.
- `corp`. `EventsOnce`, `EntitledAreServed` (on days the provider did not fail),
  `SharesAreExplained` (but for a delisting that finds lots too young: bought since, when it is
  settled after a later day, or of a call paid on its own day), `OverdraftNeedsTwoCalls`: the
  ways in which an account can owe money, two calls of a day tested against the same cash, or
  a delisting or a sale whose fees exceed its proceeds.
- `trigger`. `ReportsTellTheSettlement`: two threads write absent reports beside the
  settlement. `CatchupServes` (liveness).
- `trial`. `SessionsAreHonest`, `LaunchStandsOnEvidence`, `PreviewTellsTheGate`, and
  `ReplayCompletes` (liveness).
- `tasks`. `OneRunner`, `NoOrphan`; `DoneIsFinal`: nothing that a thread read before, a recovery,
  a put-back or a late result, touches a task that is done or starts it once more.
- `manager`. `BacklogIsKept`, and in liveness `RecoversOrStarves`, the mode ends once the provider
  is back unless the heavy tasks put back fill a claim for ever, and `BacklogIsServed`.
- `approval`. `ImplementsAccountConfig` is the refinement; `NothingGrantedIsLost`;
  `QuotaOverrun` bounds by how much racing submissions exceed the quota.
- `evolution`. `WindowsAreSeparate`, `OneActive` (at most one, and never none again once a version
  was promoted), `RejectedStaysOut`, `PointerIsEarned`.
- `conversation`. `ReceiptsAreTrue`, `PagingIsComplete`, `AnsweredOrFailed` (liveness): only a
  message whose request or task was lost, to a restart or an exception that escapes, waits for ever.
- `feed`. `OneSourceADay`, `GapsAreMarked`, `OfficialUnlessPeeked`.
- `knowledge`. `WindowIsForward`, `DispatchIsKept`, `EvidenceIsReal`.

The type invariants are proved where a module has proofs (they are part of the inductive
invariant); they are not listed as properties of the runs.

### Bounds

- `replay`: three samples are the least for "crossed before", "failed before" and
  "closing minute" to be different samples; prices 9, 10, 11 lie below, at and above
  every trigger; every order type, direction, creation moment, each series; funds that
  pay never, only the lowest price, or always.
- `settle`: two symbols (the replay's order between symbols matters), two days (T+1, a
  late day), two samples, three orders: a buy at market, a resting buy and a resting
  sell, each at most in every slot; the buy is of two shares and the sell of one, so that a
  lot is sold in part; the fee is higher than a sale's proceeds, so that debts occur; capital
  for one or two buys. Four kinds of
  feed for the first symbol and two for the second.
- `corp`: each calendar brings together events that depend on order, repetition or the same cash,
  and one pays a call on the day of the delisting; `MaxLots` and `MaxTrades` name the bounds and
  the lots never reach theirs; three days are the least for a late day between two others; the
  dates lie on both sides of the holding periods of the dividend tax.
- `trigger`: one account, since accounts meet only in the queue of a day; two days and three
  restarts allow a missed day, a crash in its catch-up and one in the day after.
- `trial`: a window of two of three or four days, so that a failed day has a substitute, and
  two trials, so that the thread has another account to go to.
- `tasks`: three tasks of which a claim takes two, two threads, and times 0 to 2, so that a task
  can pass the limit of one unit twice.
- `manager`: the code's thresholds 3 and 2; a claim of 2 rows (10 in the code) and up to three heavy
  tasks: they may fill a claim, leave room in it for the check, or be fewer.
- `approval`: a quota of one (3 in the code) that two racing submissions exceed, two
  exemptions that share a JSON column and a capability, expiry at once and a
  cooldown of a day.
- `evolution`: three versions, so that one is active, one demoted and one a candidate; evidence
  for each branch of the verdict, its limits included.
- `conversation`: three ids in two seconds, so that two messages share a second in either
  order of their ids; a page of one makes every message a page boundary.
- `feed`: samples and requests are of day 1, and day 2 is there for the next start's
  catch-up of day 1.
- `knowledge`: N = 2 of three days, a day to skip; one key is the entry's name and one can be
  merged into it. The theorems have any number of each.

`CHECK_DEADLOCK FALSE` in `replay`, `trial`, `evolution`, `conversation`, `feed` and `knowledge`:
an order is replayed, a trial decided, a window closed, all messages sent, the last day over, and
nothing is left to do. In the other runs deadlock is checked. Symmetry is used in `approval`,
`evolution` and `feed`, which have no liveness property.

### Fairness

- `SettleTrigger`: `WF(Step)`. `run_forever` catches what a round raises and goes on.
- `TrialReplay`: `WF(Backfill)`, the same thread, and strong fairness of the settlement of each
  account: the data of a day may be missing for long but not at every attempt.
  Without it a trial may wait for ever for a day that nobody publishes.
- `Conversation`: `WF(∃i Engine(i))`: a request comes to its end and the event loop goes on while it
  has a task. Which one it takes, and whether a step raises, is free.
- `ManagerMode`: `WF(EnsureHealth)`: the tick enqueues a check every half hour.
  `WF(Claim("tick"))`: the tick comes every minute and the idle windows in which it claims
  recur every night; a claim by a user's request, which fairness does not demand, leaves
  the check done. `WF(Work(th))`: a thread that claimed a batch goes on with it.

Users, restarts, the provider, the market and the failures have none. Restarts are
bounded, so "for ever after the last one" has a meaning.

### Faults

Restarts that lose what lives in memory, at any point between two transactions:
`TaskQueue`, `SettleTrigger`, `TrialReplay`, `Evolution`, `Conversation`, `MarketFeed`,
`Knowledge`. A transaction that rolls back: `EodSettlement`, `CorpActions`,
`Approval` (an effect that fails). A provider that does not answer: `CorpActions`, `SettleTrigger`,
`TrialReplay`, `MarketFeed`, `ManagerMode`.

## 4. Proofs

Every safety property of every run is a theorem, for every value of the constants under
the assumptions named in the modules, which the runs evaluate: any number of symbols,
days, samples, orders, accounts, threads, tasks, messages, entries. The assumptions say
that days and limits are natural numbers, that "nobody" is not one of the accounts, that
the rows the requests create are well formed (`OrderSpecsAssumption`, `FeedsAssumption`,
`CasesAssumption`, `CalendarAssumption`, `OrdersAssumption`), that fees and capital are natural
numbers (`MoneyAssumption`), and that the ids of lots are a primary key (`LotIdAssumption`).

`SumTheorems`: what the sums of money and shares need. `SubsetInduction` is induction over
the subsets of a finite set, without an operator as parameter: a set of subsets that has every
subset all of whose smaller ones it has is all of them (take a failing subset of least
cardinality). From it follow the sums: split, one element more or less, image,
monotony. `QueueGives`: taking a quantity from the lots of a queue in order, each
giving what it has until it is reached, takes exactly that quantity if they have it; this is
why the code's first-in-first-out sale closes.

`EodSettlementProof`: `OrdersTyped`, `NoFrozenBuy`, `OrdersTradeOnce`, `ReplayIsCausal`,
`SettlementIsFinal`, `NoOrderReopens`. `IInv` says what the properties leave out: the day of
the open transaction is not settled; its working copy has a status exactly for the orders
active now (so freezing must be locked out while it is open); an order is marked filled
in the copy exactly if the copy has one new trade of it; every trade, committed or new,
belongs to a filled order and an eligible sample; the plan names feeds for its orders.
Without the relation between the copy and the table `OneTradePerOrder` is not inductive: a
commit could add a trade to an order closed in the meantime. `FillEffect`, `TriesFinite`
and `AttemptsEligible` are the lemmas about the operators a fill is built from.

`BooksStayBalanced` and `SalesWaitADay` rest on `Account`, stated of cash, lots, positions
and trades and true of the books and of the open settlement's working copy alike, so
that a commit has nothing to show. `TPlusOne` alone is not inductive: nothing in the trades
says which shares are still there to be sold. `Account` has, for each day, that what was sold
up to it and what the older lots still hold together are no more than what had been
bought before it; a sale moves shares from the second number to the first (`AccountSells`).
The cash is never below the flow of the dear sales, those whose fee is more than
their proceeds: every buy is tested against the cash, and any other sale adds to it.

`CorpActionsProof`: `SharesExplained`, `EventsAppliedOnce`, `EntitledServed`,
`OverdraftExplained`. `Account` is again stated of the books and of the open settlement with
its day counted as settled. All four events go through one lemma (`AppliedStep`): the row
fits the event, the position and its lots change by the row's shares, the lots that were
entitled get the event's tag, and each new lot descends from one (`Heirs`). In an open settlement
an event that is not yet served is still on its list, and the entitled lots of a
symbol have all of them the tag of an event or none has it, which makes the code's test of
any lot's tag as good as a test of each. Two properties were found too strong in the course
of it and state more cases now: shares go missing also when a call is paid and the symbol delisted on
one day, and money is owed also after a sale or a delisting that costs more than it
brings.

`SchedulerProof`, over `TaskQueue`: `NoDoubleDelivery`, `NothingDoneTwice`, `NothingIsOrphaned`, for
any number of threads, tasks and rows of a claim. The invariant follows a row through the
hands of the threads: a row in a hand was claimed, and one that is pending, absent or done is
in none, so that only its own thread can finish it. Over `SettleTrigger`: `ReportsAreTrue`. The place
of the settlement thread and of the tick says what each knows of the report it is about to
insert, and the chat has the first version only.

`ValidationProof`, over `TrialReplay`: `SessionsHonest`, `LaunchIsFounded`, `PreviewIsTheGate`.
The argument is the thread's list: a day on it is over and not counted, and counted and
listed days together never exceed the window (`Cardinality` lemmas over
`FiniteSetTheorems`); a replay that is done has a full window. Over `Evolution`: `Separate`,
`ActiveIsKept`, `RejectionLasts`, `PointerStandsForAVerdict`. The invariant ties a window,
its account and the verdict under way together, over the transactions between which a
crash or a rollback by hand may fall; whenever a version was demoted, an activation is waiting for
its window to be closed, or a window ended with one, some version is active (`SomeActive`).

`ManagerProof`, over `Approval`: `Typed`, `GrantedIsKept`, `QuotaHolds`, `Refines`. The refinement
is step by step: `Approve` maps to `Grant`, `Insert` to `Ask`, the rest stutters. `QuotaHolds`
counts the threads between check and insert. Over `ManagerMode`: `DutiesAreKept`. What
the threads hold is a sum over them; a step changes one thread's share and the number of
waiting rows by opposite amounts, and the invariant adds that a thread's place says which
rows it may hold.

`MarketProof`, over `MarketFeed`: `OneSource`, `InputIsHonest`, `CloseIsTheDays`. The caches are
the argument: a cached daily row is either the official close or marked peeked, by the fetch that
put it there, and a cached minute series says how much of the day it had. Over `OrderReplay`:
`ReplayIsRules`. The loops agree with the closed rules after every
sample (`AfterSample`): filled as the rules say, or unfilled, past no sample the rules would have
filled at, with one insufficient event per sample tried. The local variables are tied to
the samples so far: the high is their maximum (`HighKnown`), `pinned` says one was at the
limit (`BoardKnown`), a time order has not met its time (`TimeKnown`). `MinuteKnown` is the
finding: a counted minute that touched was tried and failed, so the rule that wants a
crossing after a touched minute never blocks an order that the rules would try.

`AgentProof`, over `Knowledge` and `Signals`: `WindowsAreForward`, `ResultsAreFinal`,
`DispatchesAreKept`, `EvidenceStands`, `LifeHolds`. A row's counters are functions of the days
it was advanced on; a statistic, and what a recomputation has read and not yet written,
never exceeds the settled signals of the entry's names, a set that only grows; a dispatch
count is kept in the same transaction that replaces a row. Over `Conversation`: `ReceiptsHold`
and `PagingHolds`. A task's place says what its message has so far, a status, a reply, an order,
also when an exception takes the task from that place, and a reply names a message of the user that
no other reply names. For the pages: the second and the id of a
kept message never change (`TimesStay`); they order all messages (`BeforeOrders`), so any set of
them can be listed (`CanBeSorted`) and the latest of a set come after all its others
(`LatestAre`). The reader has then read in order up to a point, and what was there when it
began is either read or older than that point; when no page is left nothing is older.

`ResultsStand`, `LifeIsLawful` and `ClosedOrdersStayClosed` are proved and have no run of their own.

Only model-checked: the liveness properties (`CatchupServes`, `ReplayCompletes`,
`RecoversOrStarves`, `BacklogIsServed`, `AnsweredOrFailed`): the provers do not reason about
fairness together with `ENABLED`.

## 5. Statements the code does not meet

These definitions stand in the modules, say what a document or comment of the
repository says or suggests, and fail in the model. None is part of a run. To see a
counterexample, add the definition to the configuration named, as an INVARIANT unless
the table says PROPERTY.

| definition | configuration, with | who says so | what happens |
|---|---|---|---|
| `SingleCapHolds` | `MCEodSettlement.cfg`, `CapPct = 50`, as PROPERTY | `eodengine.py:1328` | the minute loop (`eodengine.py:1567`) tests the cash only and buys beyond the single-stock cap |
| `NavIsLatest` | `MCEodSettlement.cfg` | `spec-04:68` | a day caught up after a later one (`settle_scheduler.py:380`) leaves its own net value as the account's |
| `FundsAreCausal` | `MCEodSettlement.cfg`, `InitCash = 8`, `FeeMin = 1`, `CapPct = 100` | `spec-01:194` | one running cash over symbols replayed one after the other (`eodengine.py:1381`): money of the afternoon is spent in the morning |
| `SealedDayNeverTrades` | `MCOrderReplay.cfg` | `spec-01` 3.5, `eodengine.py:1549` | minutes without high and low are never taken as sealed (`eodengine.py:1546`), so an order fills on a day whose every minute closed at its limit |
| `AverageCostIsAmortized` | `MCEodSettlement.cfg` | `eodengine.py:1253` | a second buy overwrites the average cost (`eodengine.py:1364`) |
| `TodayOrdersTradeTheirDay` | `MCEodSettlement.cfg` | `spec-01:163` | a day order placed after the close stays active (`eodengine.py:1070`, `:1852`) and is filled the next day |
| `NeverOverdrawn` | `MCCorpActions.cfg` | `eodengine.py:735` | two calls of one day are tested against the same cash |
| `GapsAreMadeUp` | `MCCorpActions.cfg` | `settle_scheduler.py:76` | the `settle_key` of a day settled without events keeps them out for ever |
| `GapsAreClosed` | `MCSettleTrigger.cfg`, as PROPERTY | `settle_scheduler.py:414-423` | a gap of a round after the window is forgotten without a report |
| `FailedCanRunAgain` | `MCTaskQueue.cfg` | `tasks.py:303`, `:312`, `:331`, `db.py:1176`, `spec-04:62` | the row of a task that failed with a crash blocks its dedup key (`enqueue`, `tasks.py:51-88`) and nothing sets it to pending |
| `LateDecisionHasNoEffect` | `MCTaskQueue.cfg`, as PROPERTY | `spec-04:113` | the tick recovers the task (`scheduler.py:74`) before it scans for time-outs (`:83`), so its approval stays pending and can still be decided |
| `DegradationIsNotified` | `MCManagerMode.cfg` | `spec-04:285` | a second degradation has the same text and is taken for a repetition (`manager.py:73-77`) |
| `RecoversWhenHealthy` | `MCManagerMode.cfg`, as PROPERTY | `scheduler.py:117` | heavy tasks that fill a claim are put back ahead of the health check for ever (`tasks.py:431-442`) |
| `DecisionIsFinal` | `MCApproval.cfg`, as PROPERTY | `approval.py:325` | two decisions read the request as pending; the second one's status stays |
| `SessionsAfterOpening` | `MCEvolution.cfg` | `evoquant.py:11` | the look-back after a restart advances a window by days before its opening |
| `FailuresAreNoted` | `MCConversation.cfg`, as PROPERTY | `engine.py:105` | an exception of the audit row (`conv.py:346`), of the read of the agent (`engine.py:112`) or of the handler's write (`:148`) leaves the message queued or processing |
| `RepliesFollow` | `MCConversation.cfg` | `chatstore.py:206` | ids are random, so a reply may be listed before its message |
| `CloseIsOfficial` | `MCMarketFeed.cfg` | `market_data.py:7` | a page's request during the session caches the day's unfinished row (`_fetch_day_rows`) |
| `EndsOnTheNthDay` | `MCKnowledge.cfg`, `N = 1` | `signalstore.py:124-127` | a skipped day is refused once a later one was counted, and the window ends late |
| `BaseIsRegistration` | `MCKnowledge.cfg`, two rows | `settle_scheduler.py:179-192` | one base price per symbol serves signals of different days |
| `MovesAlongTheMachine` | `MCKnowledge.cfg`, `Clients = {u1, u2}`, as PROPERTY | `kb.py:311-343` | the second of two requests that read the status together makes a sealed entry valid |

Observed while modelling, without a definition:

- A restart after the settlement window leaves the day until the next start; a failed fetch
  of the trading days skips the catch-up; an order placed once the day is in
  `_done_dates` waits for the next start.
- Nothing resumes a queued or processing message whose task was lost, to a restart or an
  exception (`AnsweredOrFailed` excepts them).
- A rollback by hand changes the versions and not `accounts.active_version_no`
  (`strategy_versions.py:215-272`), which goes on naming the version rolled back.
- A rollback by hand between two steps of a verdict makes "activate" raise and leaves the window
  open; an opening that fails leaves a draft and an account behind.
- A statistic whose signals were all merged away keeps its old row; the task of a failed
  recomputation is the only retry.
- `restore` writes an audit row that says "observing" and leaves the status.
- Trial backfill over days without data and without orders completes a replay at once.
- A partial series of minutes is cached for good, and the day is served by its range.

## 6. Not modelled

- Backup (a property of the file system), memory, context assembly, narrative texts and
  the numbers of reports (content), queries for trades and analytics (read-only),
  sessions and login (small and sequential), the web UI, deployment.
- `EodSettlement`: circuit freeze, buy restrictions, exemptions and price limits
  (`run_day` passes none of them), validation of payloads (only valid rows exist),
  rounding of money to cents. Corporate actions are in `CorpActions`, without prices and
  costs of lots, and not joined with the replay.
- `TaskQueue`: `run_pending`, non-deferrable tasks, `skip`, tasks without a handler, audits.
  Time-limited tasks: only their absent reports (`SettleTrigger`).
- `SettleTrigger`, `TrialReplay`, `Signals`: days that are no trading days.
- `Conversation`: `mark_conversation_read` is there; pushes to clients keep no state.
- `MarketFeed`: the table of source health, which no decision reads; adapters other than the one
  registered.
- `Knowledge`: edits of an entry's text, manual statistics, more than one environment.
- Everywhere: texts, ids, wall-clock formats, audit rows no property reads.
