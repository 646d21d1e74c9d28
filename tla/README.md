# TLA+ models of the Kalshi trading system

The modules here model what this repository runs around the clock: the cycle
that settles, scores and trades, the database lock that keeps cycles apart, the
ledger the trades are written to, the kill switches, the paper gate in front of
real money, the protocol of one live order, and the services around them: the
session that runs the cycles, the recorder and its tape, shadow orders judged on
that tape, the odds quota, weather pricing, ingest, sizing, storage and reports.
TLC checks small instances; the theorems of the eight `*Proofs` modules hold for
every value of the constants.

Paths below are relative to `src/src/` unless they start with `src/`.

## The system

| Component | State | Operations | Interacts with |
|---|---|---|---|
| Trading ledger (`trading/engine.py`, `portfolio/tracker.py`, `models/`) | tables `trades`, `positions`, the one row of `trading_settings` | paper fill, live row and its end, close, retire, resync, sync | written by the cycle and by maintenance jobs, read by everything |
| Trading cycle (`run_trading.py`) | local: the qualifying list, the execution funnel | ingest, mark legacy, resync, settle, sync, score, switches, execute, record | all of the others |
| Cycle lock (`cycle_lock.py`) | a Postgres advisory lock and the connection that holds it | try, unlock, release by the server | session cycles, manual dispatches |
| Kill switches (`risk/halts.py`), cycle log (`cycle_log.py`) | `halt_events`, `cycle_runs` | trip, clear, check, record | the cycle; a person clears |
| Live orders (`trading/engine.py`, `kalshi/client.py`) | the exchange's order, the row written ahead of it | place, poll, cancel, fee, mark | exchange |
| Settlement (`trading/settler.py`) | none of its own | fetch results, close | exchange, ledger |
| Paper gate (`legacy_cutoff.py`, `maintenance/retire_deploy.py`) | `paper_trade_count`, `is_legacy` | mark, retire, resync | ledger; the job takes no lock |
| Risk, limits, Kelly, ramp (`risk/`), scoring (`ev/`) | settings, opportunities, `ramp_events` | score, size, evaluate | ledger |
| Fee schedules (`trading/fee_schedule.py`) | `series_fees` | resolve per series, at most once a cycle; sweep | exchange |
| Session (`session.py`, `session_kick.py`, `session_watchdog.py`) | a chain of workflow links on a 15-minute grid | run link, dispatch successor, kick, alarm | cycle, recorder |
| Recorder (`recorder/`) | buffer, subscriptions; `orderbook_delta_raw`, `orderbook_gaps` | connect, handle, flush, finish | exchange feed |
| Shadow orders, replay (`execution/`) | `shadow_maker_orders` | place, judge, rebuild a book | the recorder's tape |
| Odds (`modeling/odds_api.py`, `odds_store.py`) | cache and monthly ledger of requests | charge, fetch, reconcile, fall back | two providers |
| Weather (`weather/`) | fits per lead, archived runs, guard state | refit, price, pause, resume | scoring |
| Ingest (`ingestion/`), expiry and purge (`maintenance/`) | `markets`, `price_snapshots` | upsert, snapshot, expire, purge | cycle |
| Storage (`maintenance/`) | the file under the provider's cap | retain, compact, vacuum, defend, shrink | recorder |
| Reporting (`digest_health.py`, `milestones.py`, `run_trading.py`) | last-announced marks | build digest, escalate, announce | cycle |
| API, frontend, backtest, research, migrations, workflows | – | – | reads, offline work, configuration |

What makes it correct, and what makes that hard:

- **Several processes, one database.** The session's cycles, a manual dispatch
  and maintenance jobs run at once, each a fresh process, with a transaction per
  helper. The cycle lock is the only mutual exclusion and maintenance does not
  take it. Correct means: one cycle at a time; what a process checked before a
  write still holds when it writes.
- **Failure anywhere.** A cycle is killed at eight minutes, an exception can
  leave any stage, reports about failures swallow their own failures. Correct
  means: the lock comes free, positions settle in the end, repeated failures
  stop trading.
- **Latched switches.** They are read at two places in a loop and tripped at
  several. Correct means: nothing is entered under an active switch.
- **Evidence before money.** Live orders need a number of paper trades; the
  counter is derived from rows that can be retired.
- **An exchange on its own schedule.** Orders fill while they are being polled
  and cancelled, replies get lost. Correct means: the tables never claim more
  than was filled, no order is placed twice, every execution ends.
- **A tape with holes.** Messages are lost and repeated, connections die, batches
  cannot be written, old payloads are nulled; shadow orders are judged on what is
  stored by then. Correct means: replay emits only books the exchange had, a
  verdict stands, a hole is never read as silence.
- **Work handed on.** Links hand the day to one another, reports are stamped after
  they are sent, a purge works from an old plan beside the cycles. Correct means:
  no slot is run twice or silently dropped, an announcement is repeated only for a
  cycle that died over it, what is stored is what was published.
- **Budgets.** Requests per month, bytes under a cap, the age of a fee, a quote or
  a fit. Correct means: the ledger never counts too little, tape is given up only
  while live data is high, nothing is priced on data past its limit.
- **Money.** Positions are in their own side's terms and exits on the YES
  scale; a trade is settled by a lookup on market and status alone. Correct
  means: each realized PnL follows from its own row, and the paper bankroll
  moves by realized PnL only, though a closing reads, waits and writes without a
  lock on what it read.

`PROJECT.json` lists every hazard with its line and the properties that cover it.

## The modules

```
Ledger                 transactions + LedgerSpec (abstract)
  |-- TradingCycle     EXTENDS Ledger, KillSwitches     implements LedgerSpec
  |     `-- MCTradingCycle
  |-- LiveOrder        EXTENDS Ledger                   implements LedgerSpec
  |     |-- MCLiveOrder
  |     `-- MCProviders   with Odds
  `-- LedgerProofs  with SumProofs
        |-- TradingCycleProofs
        `-- ProvidersProofs     with MCProviders

ShadowPromise (abstract)      WalkUp, Replay, Pricing: operators, no state
Recorder
  |-- ShadowOrders     EXTENDS Recorder, WalkUp         implements ShadowPromise
  |-- TapeCare         EXTENDS Recorder, Replay
  `-- MCTape           composes both over one tape  <--  TapeProofs   with SumProofs

Sizing                 EXTENDS Pricing;  MCSizing gives it inputs
Session, Markets, Storage, Reports, Weather, WalkUp, MCSizing  -- MCServices
Session  <--  SessionProofs;  Markets, Storage, SumProofs  <--  StorageProofs
SessionProofs, StorageProofs  <--  ServicesProofs   with MCServices
```

**Ledger.** `trades` and `positions` are sequences of rows in insertion order;
`bankroll`, `peak`, `paperCount`, `mode` are the columns of `trading_settings`
the trading path uses; `delisted` is the set of markets whose local row is
`finalized`. Money is in whole cents. The first half has one operator per
database transaction (`RecordPaperFill` is `_execute_paper`, `MarkTradeFilled` is
`_mark_trade_filled`, and so on), with exactly the code's guards, so a module can
run them in the program's order. `close_position` is three: `SeeOpen` reads the
open position; its UPDATE, which names the row by id, waits for the row's lock and
then finds it whatever its status has become; under the lock `LockedClose` reads the
trade, the bankroll and the peak, and `CommitClose` writes what was computed from
them. The second half, `LedgerSpec`, is the promise: the same transactions, an
entry only on a market that is neither held nor finalized, a live row only in live
mode, and a closing (`ClosePosition`) as one step for the book. What the bankroll
becomes when closings overlap is left open there; `BankrollMovesByRealizedPnL` is
about it.

**KillSwitches.** The set of latched switches and the newest cycle records.
`CycleHalts` is the arithmetic of the per-cycle switches; the 24-hour window is
any prefix of the kept records. Two of the code's switches need a word.
`fill_slippage` cannot trip, because `execute` returns nothing unless the fill
price equals the evaluated one, so it is left out. The ramp demotion inside
`trip` has nothing to demote: `promote` requires every bar of `eligibility`, and
the bar `ledger_parity` is the constant `False` (`risk/ramp.py` 135-139), so the
ramp stays at stage 0 and `StageCap` is its cap.

**TradingCycle.** One action per transaction or exchange call, a program
counter and local variables per runner. The correspondence, in program order:

| Action | Code |
|---|---|
| `Begin`, `Unlock`, `ServerRelease`, `DropConnection` | `cycle_lock` |
| `MarkLegacy`, `CountGate`, `ResyncGate` | `mark_legacy_trades`, the two transactions of `resync_gate_counter` |
| `FetchResults`, `SettleOne`, `LockSettled`, `CommitSettled`, `Settled`, `SyncBankroll` | `Settler.settle_all` with the read, the lock and the commit of each `close_position`; `sync_live_bankroll` |
| `Score` | `score_all_markets`: any set of markets that are not finalized qualifies |
| `CheckSwitches`, `ReadHalts`, `HaltedMidway`, `Implausible` | `check_cycle_halts` and the reads of `active_halts` in `execute_qualifying` |
| `Refuse`, `Approve` | the fee schedule and `RiskManager.evaluate`: any answer |
| `CheckHeld`, `Route`, `PaperFill`, `LiveOrder`, `LiveResult` | `TradeEngine.execute` |
| `RecordOk`, `RecordFailed`, `CheckErrors`, `Raise`, `Kill` | the end of `run_pipeline`, the eight-minute kill of `session.py` |
| `PlanRetirement` ... `ResyncForJob` | `plan_retirement`, `execute_retirement`; `CloseMarked`, `LockMarked`, `CommitMarked` are its closings |
| `Finalize`, `HumanClears`, `GoLive` | the exchange, an operator |

**LiveOrder.** `_execute_live` call by call: the pending row, `place_order`,
the saved id, the polls, the read after the timeout, the cancel, the fee, the
last status, and the `except` clause. The exchange (external, modelled from how
the client uses it) fills one contract at a time, cancels when a market closes,
and can lose a reply. `FaultKinds` names every failure; a fault that has
happened may happen again, so `MaxFaults` bounds kinds, not occurrences.
`TradingCycle` takes all this as two steps, `LiveOrder` and `LiveResult`;
`LedgerKept` of this module is what entitles it to.

**Recorder, TapeCare, Replay, ShadowOrders** share one tape, `tape`, a sequence of
rows in insertion order, with `gaps`. The recorder's code is synchronous between
two messages, so handling one message, its flush included, is one action.

| Action | Code |
|---|---|
| `StartRecorder`, `Connect`, `Disconnect`, `Finish` | `recorder/__main__.py`, `BookRecorder.run` |
| `Snapshot`, `BookChanges`, `Trades` with `HandleOne`/`HandleTwice` | one message through `handle`, `_record_gap`, `_flush`, `_attempt_write`; a fault loses it, repeats it, or has the database down |
| `CompactBatch`, `PruneBatch` | one committed batch of `compact_tape`, `prune_tape` |
| `ReplayRows`, `ReplayStep`, `ApplyRow`, `CheckSequence`, `ApplyDelta` | `replay`, `BookReplay` |
| `Place` | `place_order` with `build_plan` (`WalkUp`) |
| `ResolveBegin`, `ResolveLook`, `ResolveWalk`, `ResolveCommit`, `ResolveFails` | `resolve_pending`: the pending rows, `coverage` and `has_gap`, `_walk`, the one commit, an exception before it |

The queries of one judgement are separate steps because the recorder writes
between them; the one transaction that stores the verdicts is the last step.

**ShadowPromise** is what an order promises whatever the recorder does: judged at
most once, never before its last window has closed, credited with no contract the
market did not print through it. `ShadowOrders.Promise` is its instance: `status`
and `filled` are columns of the order, `closed` is the set of placed orders whose
last window is over by the clock, `through` counts what the exchange really
printed (`prints`, which no code reads), so the promise is about the market and
not about the tape. `PromiseKept` is the refinement.

**Session.** Links (`JobStarts` to `LinkEnds`) follow `run_session`: `plan_link`'s
three answers, the sleep, the loop with recorder segments and cycles, the
dispatch of a successor. `LinkRequested` is cron or a person, `Kick` and
`Watchdog` are the jobs of those names. GitHub runs one link and keeps one
request, as `session.yml` asks of it. `CycleStarts` stands for a whole cycle,
which lasts up to its time limit. `FirstPoints` is what `_next_grid(now())` can
answer when a link begins to loop: a link that slept to the open wakes past it, so
the open itself is behind it; a link that came later can read its clock exactly on
a point or a moment past it.

**Storage.** `disk` is the file: tape per day of age (with payload, without, none),
the rows of the other tables, and for each of three tables (`orderbook_delta_raw`,
`price_snapshots`, the rest) its dead space and the space its own new rows reuse.
`RecordTape`, `InsertRows` and `UpdateRows` write at any time, also between two steps
of the job, and a write that would extend the file past the cap is refused.
`Autovacuum` is Postgres' own. The retention job of `prune.main` is
`RetentionStarts` to `Judge`: `ApplyRetention` (or `ApplyDies`, which nothing
catches), `CompactTape`, `Vacuum`, `DefendCap` with `CutDay` and `Recheck` for each
day it cuts. Each of them can raise and leaves the rest to run; a delete or a
VACUUM that raises may have done a part. `Measure` is the moment the verdict is
about, which is earlier than the verdict. `ShrinkStarts` ... `ShrinkEnds` and
`VacuumFull` are the tools run by hand.

**Markets.** A cycle is `CycleFetches`, `SyncMarkets`, `RecordSnapshots`,
`ExpireClosed`, `ScoreMarkets`, and can die between them; beside it run
`PlanPurge`, `DeleteRow`, `ArchiveRow`. `row` holds what is stored and its hash.

**Reports.** The digest is built section by section (`BuildSection`,
`AlertSection`), sent and stamped (`SendHeartbeat`, `RecordHeartbeat`); milestones
follow a trade (`Announce`, `NoteMilestone`). The cycle can die between any two.

**Weather.** `RefitStarts`, `RefitLead`, `RefitStops` are the refit job, which
stores one lead at a time; `CycleBegins`, `SyncGuard`, `FetchForecast`,
`Estimate`, `PlaceTrade` a cycle of `WeatherModel`; `RunPublished`, `PhasePasses`
and `Repointed` the world, the last of them a contract whose rules text names
another site or authority.

**Odds.** One cycle's `fetch`, sport by sport: `ChargeFirst` commits the charge,
`RequestAnswered` is the provider counting and replying, `StoreAnswer`
reconciles and caches, `AnswerUnreadable`, `RequestFails`, `RequestRefused` and
`Fallback` are the paths of `_fetch` and `get_odds`. It can die between any two.

**Pricing, Sizing.** `Pricing` has the arithmetic of `ev/` and `risk/` in cents and
per mille: fill price, fee, net value, the filter, Kelly, shrinkage, the size in
contracts. `Sizing` runs a cycle over it: `ScoreContract`, `FlushOpportunities`, the
daily sweep in the digest (`SweepFees`), then the trading stage with a fee book of
its own (`TradingBegins`, `LookUpFee`, `PlacePaper` with the guard `AfterFee` and
`RiskApproves`), with settlements and changes of the exchange's tariff in between.

**Composition.** `LedgerKept == LedgerSpec` is refinement under the identity
mapping: the ledger's variables are the same in all three modules, so the
abstract specification itself is the property. `MCTape` interleaves recorder,
maintenance and judging over one tape. `MCServices` and `MCProviders` check parts
that share a database and no rows: every interleaving of two such parts is a
behaviour of each, so a behaviour picks its part at the start.

Simplifications a reader should know of:

- `check_cycle_halts` trips its switches in separate transactions; here they
  are one step, since trading asks only whether any is active.
- `Route` reads the mode and the counter once; the code reads them twice in a
  row. A person goes live, and nobody goes back to paper: between the reads and
  the order that would let one live order through.
- Equity is the bankroll. `total_equity` adds unrealized PnL, but a position's
  `current_price` is written when it opens and never again, so the sum is zero.
- A cycle record always carries its equity (the code records it without when it
  cannot be computed).
- The exchange reports what did not fill as remaining, and never reports a
  finalized market as open again.
- A transaction is one step, except `close_position`. The increment of the paper
  counter and `sync_live_bankroll` also write a sum of what they have read; beside
  another cycle, or a closing of the retirement job in live mode, that sum can be
  old, and here it is not. A killed process gives up its row lock at once.
- `LiveResult` ends every live row; a row that stays pending after a kill is
  reached by `Kill` before it, or in `LiveOrder`.
- Tape: a commit whose acknowledgement is lost makes the code write the batch
  again; those duplicate rows are not modelled. A print at the common end of two
  windows belongs to both, as in the code. A market's book is one price level.
- Storage: the live size is exact (the code reads the planner's statistics and
  counts index and TOAST bloat as live, so it errs high), and only writes that would
  extend the file are refused (a comment has DELETEs refused too). Midnight falls
  while no job runs, a shrink or a VACUUM FULL while no retention job does, and the
  market purge's deletions from the other tables are left out.
- Weather: a score is a class (clears the bar, misses it, not a number), a rules
  text the set of what it names correctly.
- Sizing: the halts, the ramp and the lock are `TradingCycle`'s; maker mode and the
  allowlist are left out.

What the models say of the code, and no document denies:

- A dropped batch and a disconnect write no gap row: coverage alone sees them.
- The daily loss counts trades by the day they were opened; a limit can be passed
  by the newest trade.
- `int(0.29 * 100)` is 28: a last trade at 29, 57 or 58 cents is sized one cent
  low (`Pricing.Truncated`).
- An empty ESPN slate is served for a day though older real odds are stored, and
  one refusal (429 or 401) spends the rest of the calendar month.
- A purge acts on its plan without asking again: a market that a sync brings back
  between the plan and its archiving is archived, and skipped as unchanged after
  (`late` in `Markets`; `StoredAsPublished` excepts it).
- A series the live guard pauses places no trades, so its evidence never changes
  once its open trades have settled.

## The runs

| Run | Instance | Shows |
|---|---|---|
| `cycle_safety` | 2 runners, 2 markets, 2 trades, the retirement job, a kill, halts cleared by hand | types, mutual exclusion, matching book, explained PnL, refinement, no entry under a halt |
| `cycle_live` | 1 runner, 2 markets, up to four exceptions, going live, trades without a stamp | live orders follow the gate, three recorded failures stop trading, the paper bankroll moves by realized PnL |
| `cycle_crash` | 1 runner, fair, three of: exception, kill, failed fetch, swallowed report, going live | settlement happens, the lock comes free |
| `cycle_overlap` | 2 runners, the lock's connection drops, stale prices | what survives an overlap: funnels, a halt draining |
| `providers` | 2 executions of 2 contracts, 2 polls, two kinds of fault; 1 league, a quota of 2, cycles that die at will | order protocol, refinement, termination; a ledger never too low, a league that comes back |
| `tape` | 2 markets, 2 connections, 1 order of 2 steps or less, one fault of six kinds, batches of 2 | replay, compaction, refinement of the promise, verdicts that stand, each order judged |
| `services` | one of seven services per behaviour | slots, hand-offs, stored content, ages of quotes, what a green verdict says of live data, days cut only while it is high, escalation, announcements, prices, plans, fees |
| `cycle_lock_lost` | as `cycle_overlap` | violation: two cycles at once |
| `cycle_gate_retired` | 1 runner and the retirement job | violation: a live order on retired evidence |
| `live_fill_lost` | no faults | violation: a fill between last read and cancel is lost |
| `tape_hole` | 1 disconnect | violation: unfilled for want of tape |
| `sizing_last` | 2 contracts, a book away from the last trade | violation: one trade past its limit |

Why the bounds are enough. Two runners are all a mutual exclusion needs to
fail, two markets make a list with a first and a later opportunity and let one
market be closed while another is entered, two trades let a market be entered
again after it was closed. The start bankroll is three dollars, so that a losing
contract is past the 10% drop and two are past the 20% latch: both switches
fire. `GateTarget` is 1: the gate is reached, and is lost when that one trade is
retired. A two-contract order has a partial fill, and two polls let it fill
before, between and after them. `KeptCycles` is 3 where repeated failures
matter and 1 elsewhere. `MaxEvents` bounds exceptions, kills, failed fetches and
jobs per behaviour: any three out of five kinds is what `cycle_crash` runs.
`cycle_live` has
up to four exceptions, so that three failed cycles can be followed by one more
thing that goes wrong; `ShortHistory` leaves out behaviours with a second trade
and a second exception, which none of its properties needs. It has no
swallowed reports, kills or cleared switches, for which see the last of the
disagreements below. Runners and markets are symmetric except in the runs that check
liveness, which use no symmetry.

`providers`: one league is enough, leagues meet only in the shared quota, and a
quota of 2 lets it be spent with one request that failed. `BillingTurns` lets
the provider's month turn with the calendar's or a tick later.
`tape`: verdicts are given within two hours and maintenance touches nothing for two
days, so a behaviour is about prints with the clock in minutes (`MaxMinutes` 4:
two windows of one tick, and the two hours after them), or about books with the clock
in days (`MaxDays` 2: kept whole, nulled, deleted). Two connections are one
reconnect; batches of two let a batch straddle a disconnect. The second market has
no book of its own to change; its snapshots and rows are what coverage can
mistake for the first one's.
`services`: a window of seven ticks for the session, with links of five and a cycle
every two, has points inside a link, at the end of one and between two; one market
with a cycle every 3 ticks and a heartbeat of 4 has an age limit of
`MaxSnapshotAge` = 10, and its clock runs to 13, past it: a quote can be too old, and
the oldest one allowed, a heartbeat with a missed cycle, is reached; four dates are
what two degraded days and a recovery need; six phases are two weather days, with
leads 1 and 2, so a run can be late by one; two placements in sizing let the second
meet the first's exposure, and the fee cache ages past its limit in `LastTick`. The
walk-up plan is a function: its run is over all listed quotes, beliefs and edges.
In its storage a day of tape is two units with its payloads and one without, so three
days of it and a few rows pass `Target` (3), `Trigger` (4) and the fail line (5) of a
cap of 6; two cuts lead from the window of 3 to the floor of 1. `DayWrites` = 2 is a
day of tape between what two verdicts measured.
Deadlock checking is off where an instance runs out of its bounds: `providers`,
`live_fill_lost`, `tape`, `tape_hole` and `services`.

Fairness. `FairSpec` makes each runner's own steps weakly fair (a process that
runs goes on until it ends or is killed, and the server notices a dead
connection) and the start of a cycle by somebody (the session starts one each
quarter of an hour). No fairness for people, results, faults or jobs. The steps
of one runner are fair together, not one by one: which of the enabled steps it
takes is its code's business. `LiveSpec` and `OrderFairness` make an execution
that has begun go on, which the client's call timeouts justify; fills are not fair.
The tape's `Fairness` is the clock and the judging, which every cycle does each
quarter of an hour: a pass that raises leaves it enabled for the next. The recorder
is not fair, so `EveryOrderJudged` holds with no recorder at all.
`OddsFairness`: cycles are started, and get through local steps (weak fairness).
A death can always come next and disables the step it comes before, so what
must happen now and again though cycles die has strong fairness: getting to the
next sport, its charge, an answer while the provider has room, storing it, and
the calendar, which waits while a cycle is inside its fetch. `services` states no
fairness.

## The violations

- `cycle_lock.py:1` says one cycle at a time, enforced by the database. The
  advisory lock belongs to a connection that runs one statement and is idle for
  the rest of the cycle, and `database.py:21` records that the provider closes
  idle connections. `cycle_lock_lost` shows the second cycle; `cycle_overlap`
  shows what still holds then.
- `legacy_cutoff.py:111` says the gate counter must agree with the rows.
  Retirement marks rows and resyncs the counter in later transactions, without
  the cycle's lock; `cycle_gate_retired` shows the live order in between.
- `trading/engine.py:377` says a partial fill at the timeout keeps what filled.
  Between the read after the timeout and the cancel the order can fill more;
  `live_fill_lost` shows a row that holds less than its order filled.
- `execution/shadow.py:188` says never unfilled for want of tape. Coverage wants a
  row of the same connection after the window; the query (`fill_sim.py:196`) takes
  any row before this market's next snapshot. With the connection lost inside the
  window and back after it, the other market's snapshot on the new connection will
  do; `tape_hole` shows the order judged unfilled, and the print that filled it
  never recorded.
- The trading design (`src/docs/superpowers/specs/2026-04-19-kalshi-trading-dashboard-design.md:117`)
  and `src/frontend/src/pages/Settings.tsx:115` give a single trade 3% of the
  bankroll, not to be overridden. `risk/manager.py:43` computes contracts from the
  last trade's price, the engine pays the book's; `sizing_last` shows half the
  bankroll in one trade.
Some disagreements have no run. The models do what the code does, and no property
claims what the text says:

- `portfolio/tracker.py:79` says the ledger is moved by the realized PnL. A cycle and
  the retirement job can both see a position open. The second one's UPDATE waits for
  the first one's commit and then goes through, since it names the row by id alone, and
  the bankroll it reads after that gets its PnL again. With `Env = {"retire"}` TLC finds
  `BankrollMovesByRealizedPnL` violated: two movements for one closed trade.
- `session.py:94` says of the grid that a hand-off neither doubles a cycle nor skips
  one. A point between the end of a link and the moment its successor has installed is
  behind the successor's first point, with nothing killed and nothing refused. That
  none is doubled is `SlotsRunOnce`.
- `cycle_log.py:31` counts the cycles of a full session from 15:00. A link that sleeps
  to the open asks for the next point after it (`FirstPoints`) and aims at 15:15.
  `SESSION_EXPECTED` is one more than such a session runs.
- `maintenance/purge_markets.py:10` allows only rows without dependents to be deleted,
  and the batches delete what the plan listed: also a row that a cycle reopened and
  gave a snapshot before its batch came (`DeleteRow`).
- `milestones.py:1` says once each, the live gate once, ever. The message goes out
  before its note is committed, so a death between the two sends it again.
  `MilestonesToldAgainOnlyAfterDeath` bounds the repetitions by those deaths, and
  `SilenceMeansTold` is the other half: no milestone is passed over.
- `maintenance/retention.py:27` puts the 90% line on the file. The code judges live data
  there and the file at 97%, less than a day of tape below the cap, and free space
  serves only the table it is in: a write can be refused after a green job.
  `GreenBoundsLive` is what a green verdict does say.
- The switch of repeated failures. The plan of the switches
  (`src/tasks/todo.md:2095`) has `repeated_errors` latch when the last three cycles all
  failed, and each switch block the next trade. `run_trading.py:375` evaluates it
  only after a failed cycle has been recorded and swallows an exception of the
  evaluation; `check_cycle_halts`, which every cycle runs before it trades,
  evaluates the other switches and not this one. With `Env = {"raise", "swallow"}`,
  `KeptCycles = 3` and `MaxEvents = 4` TLC finds the check of the third failure lost
  and the next cycle entering a trade; a kill between the record and the check does
  the same. `SwitchHeeded` below is the assumption that it does not happen.

## The proofs

`LedgerProofs` proves, for `LedgerSpec` and any constants that satisfy
`LedgerAssumption`, that the open book and the filled trades are the same book
and that every realized PnL is explained by its row. The inductive invariant
`LedgerInv` is `LedgerTypeOK`, `OneOpenPerMarket`, `BookMatchesTrades` and
`RealizedExplained` together: none is inductive alone. The PnL is computed from
the position and stored in the trade, so explaining it needs the two to match;
that they match after a close needs the market to have had one position; and
that an entry keeps one position is what the guard of `LedgerSpec` promises.
There is one lemma per transaction.

A closing reads, locks and writes in three steps, and two of them may overlap; the
book still follows the promise, because whoever commits second finds the row closed
and no filled trade (`CloseAgain`). The bankroll does not, and the abstract ledger
says nothing of it. It moves by realized PnL where closings do not overlap: see
`CycleBankrollMoves` below. The realized PnL is a sum over a table of any length. A
sum over a set is a fold, that is a recursive function behind a `CHOOSE`, and the
library's induction theorems cannot be used; `SumProofs` argues by the smallest
counterexample instead. No finite set is a smallest one without an additive function
of its parts (`SumExists`), so the fold's `CHOOSE` has something to choose, what it
chooses is that function (`SumIsAdditive`), and from there a sum gains what a new
element brings and keeps what the others had (`SumStep`, `SumSame`). For the ledger
this says that closing one row adds its PnL to the total and that no other
transaction touches a closed row (`RowsKeepPnL`).

`TradingCycleProofs` proves the cycle for any number of runners and markets,
with exceptions, kills, failed fetches and the retirement job, under one
assumption: `"drop" \notin Env`, the server does not close the lock's
connection under a running cycle. `cycle_lock_lost` shows the assumption is
needed.

1. `MutexInv`: a runner that is not idle holds the lock. Killed runners count,
   since the server still holds the lock for them. Hence `OneCycleAtATime`.
2. `CycleInv`: `MutexInv`, `LedgerInv`, and per runner the facts it relies on
   from one transaction to the next (`RunnerInv`): after `CheckHeld` its market
   is not held, what it has qualified is not finalized, a live order was routed
   in live mode, its pending row is still pending. Its own steps establish them;
   other runners are idle; and the steps of everyone else are `Quiet`: the
   retirement job only closes positions and changes standings. So every step is
   a step of the ledger (`CycleKeepsLedger`), and the ledger's theorems carry
   over (`CycleBookMatches`, `CycleRealizedExplained`).
3. `HaltInv`: from its first look at the switches to the end of its list no
   switch is active, hence `HaltsRefuseEntries`.
4. `FunnelInv`: attributed, still to do and in hand make up what qualified,
   hence `FunnelsBalance`; and `CycleTyped` collects the types.

5. `HaltsDrain` assumes nothing, the lock may be lost: `Locals`, the shape of
   each runner's local variables, is all it needs, since each step of a runner
   that takes up an opportunity has read the switches in that step.
6. `RepeatedFailuresStop`: while the last cycles all failed the switch is
   latched, or some runner is about to ask (`RepeatInv`). The assumption
   `SwitchHeeded` excludes what can come between: a swallowed check, a kill, a
   person who clears, a lost lock. The section above says what the first two do.
7. `GateFollowed`: from the resync to the end of the cycle the counter promises no
   more than the rows hold (`GateInv`), because nobody retires a row meanwhile:
   `NoRetirement` excludes the job (and the lost lock, with which another cycle's
   `MarkLegacy` is one). `cycle_gate_retired` shows it is needed. What keeps the
   rows is a count: rows are only added, and a closed row keeps its standing.
8. `CycleBankrollMoves`, under the same `NoRetirement`: one closing at a time
   (`SerialInv`), so the position it saw is still open, and what it has read of the
   bankroll is the bankroll, when it commits. Beside the job it fails, as said above.

`ProvidersProofs` begins with one live order at a time, for any size, number of
polls and number of faults. `LiveInv` relates three things that can differ at
any moment, the row, the exchange's order and what the runner has seen:
`RowsInv` (the three properties), `RunInv` (at each call the order in hand is the
one the row names, and the runner has seen no more than was filled), `StoppedInv`
(nothing is looked up or written for an order that can still fill, unless the
exchange failed to cancel it). The first
alone is not inductive: `MarkFilled` writes what the runner has seen, and a
terminal status is only right because the order had stopped. Hence
`LedgerNeverOverstated`, `PlacedOncePerRow`, `EndedOrdersStopped`, and with
`LedgerInv` the refinement `LiveKeepsLedger`. All are theorems of `LiveSafety`,
the specification without its fairness.

It then proves the odds ledger, for any quota and month, when the provider's period
turns with the calendar's (`turn` is 0; of other turns the property says nothing):
`OddsNeverUnderCounts`. Counting too little could only begin
when the provider counts a request, and then it has been charged
(`ChargedAhead`); the strengthening is that one conjunct, and the work is in the
calendar's steps, which reset one side and not the other. Then
`ProvidersKeepTheirPromises`: a behaviour of `ProvidersSpec` is one of each part
(`EachProviderAlone`), so what holds of the parts holds of what the run checks.

`SessionProofs` proves `SessionRunsOnce` for any window, link length, cycle length
and timeout that `SessionAssumption` allows (a timeout shorter than the cycle's
length). The points of the day are split by a front: `Loops` and `Cycles`
say that every point from the link's first to its next has been run once and
none after it has; `Waits` says the same of a link that has yet to start, which
is what hands the front from link to link; `InTime` keeps the clock where the
loop expects it. `SessionNeverSilent` needs in addition that a link that hands
nothing off runs to the end of the window (`LastLink`).

`StorageProofs` proves, for any universe, cycle length and heartbeat:
`SyncStoresPublished`, since a row's hash is that of what it holds (`RowsInv`:
skipping by hash skips nothing new) and what a late purge has hidden is in `late`;
and `QuietMarketsScorable`, by arithmetic on the age of the newest snapshot
(`SnapsInv`: younger than a heartbeat at the last fetch, younger than a heartbeat
and a cycle with one fetch missed).

Of the storage it proves three facts, for any cap, lines, windows and weights within
`StorageAssumption`, with writes, autovacuum and shrinks in between and steps that
fail in part. Each step is followed by what it does to the file: a prune moves rows
from live to dead and conserves their sum (`PrunedFile`, `ThinnedFile`), a compaction
makes live rows lighter, a VACUUM turns dead space into reusable space
(`VacuumedFile`), and a write adds to live data what `since` counts. The tape's weight
is a sum over its ages, so `SumProofs` is needed here too. `StorageInv` is the types
with the file under its cap (`StorageTyped`), `GreenBoundsLive`, and what makes it
inductive: a job that is not red so far has measured live data under the fail line,
and what it does not know of was written since (`MeasuredBounds`); a day about to be
cut was chosen while live data was high (`Cutting`: nothing lowers live data between
the choice and the cut, since only the job itself deletes). Hence
`StorageGreenBoundsLive` and `StorageCutsWhileHigh`, step by step, and `StorageTypes`.

`TapeProofs` proves of the whole tape system (`MCTape`) that the recorder accounts
for each message it handled, for any batch size and number of faults of any kind:
handling, flushing, a batch that is dropped and the last flush move one message
from one count to another, and nobody else touches them. That is `RecorderInv`, with
the types.

It then proves the two promises of the shadow orders, for any order size, prices,
windows, grace and faults (`VerdictsNeverChange`, `ShadowKeepsPromise`, from
`TapeInvariant`). An order is judged on the tape, while the promises are about what is
recorded later and about what the market did. Three facts bridge that:

- `HeardInv`: what the recorder has heard is the tape and then the buffer (`Heard`).
  It is in the order of its times, however batches are flushed, lost or cut short,
  and every print in it is backed by a print of the market of its own (`Backed`: an
  injection), save where a gap is recorded at its time: a message that arrives
  twice breaks the sequence, so the second copy comes with a gap.
- Coverage demands a row after the window (`CoveredPast`), so by the order of the times
  every row still to come is later than the window: what the tape fills is fixed
  (`FillingKept`).
- With no gap from the window's start to the first row after it (`NoGapInside`), the
  fills of the walk map injectively to pairs of a print and a window it went through
  the price of (`FillingCredited`). The walk is a recursive function, reasoned about
  by its least counterexample (`WalkExists`, `WalkWithin`, `WalkCredited`).

`TapeInv` adds that a verdict held by an unfinished pass stands already and belongs to a
pending order whose grace period is over (`PassStands`), since the recorder
writes between a pass's reads and its commit. Each step of the system is
then a step of `ShadowPromise` or a stutter (`TapeInvStep`).

Last, it proves what replay promises, for any number of markets, losses, repeats,
reconnects, lost batches, prunes and compactions: every book it emits is the
exchange's (`ReplayIsSound`), and nulling payloads changes nothing it emits or
refuses (`CompactionIsTransparent`). Replay sees only what is left of what was heard,
so the invariant, `BooksInv`, is about the set of what heard rows say of a book
(`Cores`), which maintenance can only shrink:

- Any two of them that are numbered one after the other on a subscription, in one
  market, differ by the second one's change (`Follows`), whether or not rows lie
  between them or are gone. For the message being sent this needs that what was sent
  last on the current subscription tells its market's book as it is now (`HeardOf`),
  which holds because a market's changes are all sent once its snapshot was.
- Numbers start over with a connection, so a subscription that is no longer current
  gains nothing (`SaidLess`), and the messages of the current one are numbered by what
  was sent, heard or not (`SaidMore`).
- Only deltas are without their payload (`Whole`).

A replay of such a tape always holds the book of a row of it (`Holds`), so the next
number in sequence gives the next book (`Applying`), and a gap, a repeat or a missing
base refuses. Two tapes that differ in the payload of deltas replay alike, row by row
(`ReplaysAlike`). `ReplayRows` is a recursive function of the number of rows, reasoned
about by its least counterexample (`ReplayIs`, `ReplayStays`).

`ServicesProofs` proves the rest of the services, each for all its constants, and
then the composition (`EachAlone`, `ServicesKeepTheirPromises`), with its types.

- Reports: `MilestonesNotPassedOver` needs that what is noted, or about to be, was sent
  (`NotedWasTold`); `MilestonesToldAgainOnlyAfterDeath`, which no run checks, the link
  between a told milestone and the note that is still to be written (`ToldAndDied`),
  and that what is told only climbs; `OutagesEscalatedOnce` needs each section's count tied to the dates
  behind it (`StreakCounted`), since the alert depends on the count and the
  property is about the dates.
- Weather: `WeatherPricedOnMeasuredError` needs that a run a cycle holds is in the
  archive and was published before its target (`RunsHeld`, `RunsPublished`) and
  that no fit is newer than today; the price is then what `Estimate` checks.
- Walk-up: `PlansKeepEdge` is a property of the function `ShadowPlan`, for every
  offer. `PlanClimbs`, `CeilingKeepsEdge` and `LadderKeepsEdge` are its lemmas:
  the plan is a selection from a ladder, which climbs by one and stops at the
  last price that keeps the edge, below the taker's.
- Sizing: types (`SizingTypes`), and `SizingTradesPay`, for any snapshots, estimates and tariffs: an
  entry of the cache was published when it was stored (`TariffInv`, `FeeInv`),
  the schedule a pass charges was published within the cache's age of the start of
  its trading (`PassInv`), and the placement asks again with the fee of the whole trade.

`SessionSpec`, `MarketsSpec`, `StorageSpec`, `ReportsSpec`, `WeatherSpec`, `SizingSpec` and `OddsSpec`
are the components' initial states and steps. None of the theorems uses
fairness. A specification with fairness implies the one without, so they hold of
it too. The assumptions on constants are those the modules state (`ASSUME`) and
TLC evaluates; beyond them only the three named above, on the environment of
the trading cycle.

Only model-checked:

- Liveness under fairness, out of the prover's reach: `SettlesEventually`,
  `LockComesFree`, `ExecutionReturns`, `EveryOrderJudged`, `SportsComeBack`.

Every invariant and every action property that the passing runs check is a theorem.

## What is not modelled, and the plan

Not modelled because there is nothing for these tools: the probability models
and their statistics, the parsing of contract terms and guidance text, the
backtester and research, the dashboard, migrations, message formatting, the
database statistics and growth reports, the wipe and unwind commands of the
maintenance command line (one statement each, run by hand with nothing beside
them), the market terms a model never reads. In `PROJECT.json` every component has its status
and reason.

Planned: the reconciler the ramp waits for, when the code has one: the exchange's
positions and cash beside the tables. The read and the write of a fill's counter
increment and of `sync_live_bankroll` apart, as `close_position` has them.

## Running

```
tlc -workers 2 -config cycle_safety.cfg MCTradingCycle
tlc -workers 2 -config tape.cfg MCTape
tlc -workers 2 -config services.cfg MCServices
tlapm TradingCycleProofs.tla
tlapm TapeProofs.tla
tlapm ServicesProofs.tla
```
