# A TLA+ model of the quant-fund trading bot

The bot trades perpetual swaps on OKX: it reads candles, looks for setups, asks
Claude, checks guardrails, places orders and keeps every position behind a
stop-loss until it is closed. Beside it run paper books, the journal of a manual
account, an alert system, backtests and a scanner of manual "top-down" trades. This
directory models the control of all of them. TLC checks the models on small
instances; TLAPS proves what matters most for every value of the constants.

## The system

One asyncio process (`main.py`), OKX, Redis and PostgreSQL; the Bybit journal, the
scanner, the watch daemon and the dashboard are programs of their own. Coroutines
interleave only at an `await`: the hazards are what happens there, what another
program did meanwhile, what a failed call left behind, and what a restart forgets.

```
OKX candles -> data service -> pipeline (one task per candle, one at a time per pair)
                 detectors -> setups, engines -> dedup -> Claude -> guardrails -> execute -> OKX orders
OKX orders <- poll loop of the position monitor (every 5 s, all pairs in turn)
                 fills, exits, repairs -> risk state tracker -> Redis
HTF candles -> campaigns -> campaign monitor          the same exchange position per pair
setups not traded -> shadow monitor                   paper positions, snapshot in Redis
dashboard -> Redis (cancel request) -> monitor        Telegram -> panic button
Bybit account -> watcher -> journal rows <- links <- alerts of the hourly scanner
PostgreSQL: trades, read back at startup to rebuild the day's drawdown
```

| component | state | operations | hard behaviour | correct when |
|---|---|---|---|---|
| Market data (`data_service/`) | candles, CVD windows, RECOVERING/RUNNING/DEGRADED, breaker | connect, backfill, warm up, gate, poll | reconnects while candles close; storms; clean closes nobody is told of | RUNNING means no unexplained gap; a storm blocks trading; it recovers |
| Detectors (`market_structure.py`, `order_blocks.py`, `fvg.py`, `liquidity.py`) | blocks, gaps, levels carried from candle to candle | update, match | a sliding window; retests; no look-ahead | a zone handed out still stands |
| Setups, engines, scalp signals, profile, classifier | cooldowns, previous open interest, seen impulses | evaluate | cascades of fallbacks, everything written twice for long and short | plans are ordered and on structure; neither side is favoured; signals keep apart |
| Pipeline (`pipeline_router.py`), AI service | dedup cache, one task per pair | route the setups of a candle | awaits between check and record; lost answers; one cache for many kinds | one order per key and TTL, one per pair |
| Risk service, guardrails, sizer | capital cache | check, size, notify | reads counters before the awaits whose effect it is to limit | the caps hold; an approval stays within the account |
| Risk state tracker (`state_tracker.py`) | PnL of day and week, trades, last loss, open rows; mirrored in Redis | opened, filled, closed, cancelled, reset, save, load, reconcile | midnight and weeks, keys saved one by one, rows found again by pair, direction and time | it forgets no loss, invents none, its rows are the managed positions |
| Execution service, executor | the exchange | execute, replace, adopt, panic | everything it replaces may be filling; any call fails with or without effect | an order only for a free pair |
| Position monitor (`monitor.py`) | one `ManagedPosition` per pair | fills, stop-loss repair, trailing, timeouts, emergency closes, cancels | four coroutines share a position; it is replaced under a handler that waits | protected, counted once, ended |
| Campaign monitor | HTF campaigns, pyramid adds | entries, adds, trail, timeout | adds that fill while the stop is moved | the stop covers every lot; nothing is left at the end |
| Shadow monitor, PnL engine, Dual Thrust shadow | paper positions | follow candles, restore, emit | snapshot and rows written apart; a replay over a sliding window | a restart changes no outcome |
| Backtests (`backtest.py`, `backtest_topdown.py`) | simulated books | replay | the order of events inside a candle | the books balance, no look-ahead |
| Alerts (`alert_manager.py`) | silences, rate windows, whale batch | alert, silence, digest | timers and retries around a silence | nothing is swallowed behind a served silence |
| Whale, news, funding, OI polls | last seen, caches with expiry | poll, dedup | failed, empty and overlapping pages | an event is told once |
| Bybit watcher | memory rebuilt from its rows | diff, insert, link, close | killed between two writes | one open annotation; the journal catches up |
| Manual journal | trades, partial closes, balances | requests of the dashboard | each call commits on its own | all closed is closed |
| Top-down edge (`topdown_*`, `signal_scanner.py`) | alert rows, bias file | scan, alert, link, push | a message that fails beside a row that is written | alerts are apart, links stand |
| Startup and shutdown (`main.py`) | what exists | build, connect, sync, stop | the tracker is built before Redis connects | restarts lose nothing |

`PROJECT.json` lists every component with its files and status, and the hazards at
their lines.

## The modules

| module | what it models | code |
|---|---|---|
| `RiskTracker` | the tracker as pure operators: a record of its fields, one operator per method, the Redis mirror with its expiry | `state_tracker.py`, `data_store.py` |
| `RiskRestart` | the tracker over the life of the process: trades, crash, stop, restart, Redis connecting late, adoption | `main.py`, `execution_service/service.py` |
| `RiskGate` | all pairs from candle to order, at the awaits | `pipeline_router.py`, `guardrails.py`, `service.py` |
| `RiskSizing` | what a check approves: sizes, margins, the capital's cache, all guardrails on the size | `risk_service/` |
| `PositionMonitor` | one pair: monitor, execute, dashboard cancel, panic button and the exchange | `monitor.py`, `executor.py`, `service.py` |
| `PositionLifecycle` | what a position's life promises to be; `PositionMonitor` is shown to implement it | `models.py` |
| `TwoBooks` | the intraday and the campaign book of each pair, up to their orders and through a restart; Claude's filter and answer | `pipeline_router.py`, `execution_service/service.py`, `ai_service/` |
| `CampaignMonitor` | one campaign, step by exchange call | `campaign_monitor.py` |
| `DataFeed` | streams of candles, the service's state machine, breaker, warm-up, gap backfill | `websocket_feeds.py`, `data_service/service.py` |
| `CvdFeed`, `Indicators`, `WhaleFeed` | the trade tape, the polls with their Redis lifetimes and health, the whale clients | `cvd_calculator.py`, `exchange_client.py`, `news_client.py`, `oi_flush_detector.py`, `etherscan_client.py`, `btc_whale_client.py` |
| `Detectors` | swings, breaks, blocks, gaps, levels, sweeps; the volume profile | `strategy_service/` |
| `Setups`, `Engine1` | entries, stops and targets; setups A, B, F, G, D; the impulse retest with its benchmarks | `setups.py`, `quick_setups.py`, `engines/` |
| `SetupRouter` | what becomes of each setup of a candle, Engine 1's live gate and kill switch | `pipeline_router.py`, `ml_instrumentation.py`, `engine1_kill_switch.py` |
| `ScalpSignals`, `TradeClassifier` | what their names say | `scalp_setups.py`, `trade_classifier.py` |
| `DualThrust`, `ShadowMonitor`, `PnlEngine` | the paper books and the engine that advances a position by a candle | `dual_thrust*.py`, `shadow_monitor.py`, `pnl_engine.py` |
| `Backtest`, `CampaignBacktest` | the two simulators | `scripts/backtest.py` |
| `Topdown`, `TopdownAlerts` | the snapshot and its replay; scanner, links, watch daemon | `scripts/topdown_snapshot.py`, `backtest_topdown.py`, `signal_scanner.py`, `topdown_push.py` |
| `AlertManager`, `BybitWatcher`, `ManualTrades` | what their names say | `alert_manager.py`, `bybit_watcher.py`, `trade_manager.py` |
| `MC*` | values of the constants, and the sums described below | |
| `*_proofs` | the theorems | |

`RiskRestart` and `RiskGate` both EXTEND `RiskTracker`: one writes it over time and
restarts, the other reads it from many pairs. `ShadowMonitor` EXTENDS `PnlEngine`; `TwoBooks`
composes the pipeline, Claude's filter and answer, and both monitors. `PositionMonitor` implements `PositionLifecycle` through
`INSTANCE` with a refinement mapping.

**RiskTracker, RiskRestart.** The fields keep their meaning: `daily`, `weekly` (realised
PnL), `trades`, `lastLoss`, `day`, `week`, `open` (rows with pair, direction, time and
phase). `Saved(store, t, n, now)` writes the first `n` keys in the order of `_save_to_redis`; a
save may end after any prefix. `Restart` builds the tracker (from Redis only if `RedisAtInit`),
reconciles it with PostgreSQL, and `SyncPair` adopts what the exchange holds. Two ghosts: `real`
has the losses that were made, `lost` those of them that the last start found no record of.

**RiskGate.** `pipe[p]` is the task of a pair and where it waits: for Claude, for the
cancellation of the entry it replaces, for the order. `Look` walks the setups of a candle
as the loop does. An order's answer may be lost (`Placed`). `sent` is a ghost: when a
key's order was last sent.

**PositionMonitor.** A coroutine is a record: where it waits (`pc`), on which position,
for which call, and its answer. `Ask` makes a request, `Serve` has the exchange carry it
out (or fail, with or without effect), `Resume` runs the code from that `await` to the
next one, on the positions as they are by then. The exchange fills, triggers and
cancels between any two steps. Prices are the level a stop-loss sits at.

**CampaignMonitor.** A step is one exchange call, its answer and the code up to the
next call; the poll loop and the task that evaluates adds share the campaign. Sizes
are lots, stops are levels.

**DataFeed, CvdFeed.** A candle or a trade is known by its age; what leaves the longest
window is forgotten, as in the code. The breaker keeps how many reconnects lie in its
window. **Indicators, WhaleFeed, AlertManager** keep ages the same way.

**Detectors, DualThrust, Setups, Engine1, ScalpSignals, Topdown.** The code's
functions as operators over a window of bars (or over a market: what the detectors hand
over), with the memory the code keeps from call to call as the state. Prices are small
integers; ratios are compared by cross-multiplication.

**ShadowMonitor, BybitWatcher.** The process' memory, the database's rows and Redis are
three pieces of state, written in the code's order; a crash comes between any two writes. The watcher's
`Hydrated` may fail before or between its two loads, which the code only logs: `blind` counts the starts that
missed an open annotation, `sighted` says that the last one read everything.

**ManualTrades.** A step is one statement of a handler, which commits on its own; `Abort` stops a handler
between two of them (a statement that fails, or the end of the process).

**Backtest, CampaignBacktest.** One action is one candle of the replay; what the
strategy would find is any member of a small set of plans, or nothing.

### Reductions

- RiskGate leaves partial fills, and the monitor's removal of a position by its pair,
  to PositionMonitor; percentages of capital are risk units there, RiskSizing has them.
- PositionMonitor has one pair: pairs share the poll loop, so another pair only delays
  this one, which the interleaving allows already. Levels stand for prices, so two
  orders at one level look alike to the search for attached orders. Waiting
  (`asyncio.sleep`) is part of the call that follows it.
- TwoBooks cuts the two monitors down to fills and ends. BybitWatcher has one symbol and
  side; ManualTrades one trade, of which `MaxAborts` handlers stop half way; CampaignMonitor one campaign, in the long direction.
- Rounding to tick sizes, contract sizes, client order ids and wordings are left out.

## The runs

Every cfg fixes small values for the limits of `settings.py`; `Max...` constants are
the bounds. `CHECK_DEADLOCK FALSE` everywhere: with the bounds used up, a behaviour stops.

`MCServices`, `MCSignals` and `MCBooks` are sums: their parts share no variable, so a
behaviour is one of a single part, chosen in Init, while the others stay as they are.
Their properties are conjunctions, or choices by part, of the modules' own properties;
what holds of each part alone holds of all of them together.

| run | states | question and answer |
|---|---|---|
| `deployed` | 2.6 M | As `main.py` starts it, with two pairs, a restart and a week's end: every managed position has its row (`TrackedHasRow`), rows and positions are as many (`OpenCountExact`), the trade cap sees at least the closes of the database (`TradeCapCovered`), and the drawdown guardrails miss no loss but those a start found no record of (`DrawdownCovered`) and count none of another day or week (`DrawdownNotInvented`). |
| `restart_cooldown` | violation | As `main.py` starts it, a restart forgets the last loss and lets a trade through that the cooldown would have blocked. |
| `gate` | 1.0 M | Two pairs race to the caps over a day's end: a day's trades, with the open positions and the orders on their way, pass the cap by less than the number of pairs (`DayBound`); nothing is placed beside a managed position (`PlacingAlone`); two orders of a key are a TTL apart (`NoRepeat`). |
| `monitor_safety` | 0.3 M | Two failures among failed calls, partial fills and missing attached orders, and the time running out: an active position has a stop-loss on the exchange (`Protected`), also while it is moved; and its life is that of `PositionLifecycle`. |
| `monitor_lifecycle` | 3.8 M | The same life when the pending entry is replaced while the poll loop works on it. |
| `monitor_race` | 4.0 M | With a dashboard cancel, the panic button, a failure, and a user who cancels stop-losses: the Risk Service counts exactly the managed position (`CountExact`), and a stop that is put back is at the trailed level (`StopWhereRecorded`). |
| `monitor_live` | 0.5 M | Liveness, two failures of any kind: a position without a stop-loss gets one, is closed, or is given up with an alert (`NakedRepaired`); when time runs out every position ends (`EveryPositionEnds`). |
| `monitor_duplicate` | violation | Replacing a pending entry while the poll loop awaits its status leaves two live entries: `_close_position` removes by pair and drops the new one. |
| `feed` | 0.4 M | Two streams, drops, clean closes, candles without volume, failed backfills, storms: RUNNING is entered on candles whose holes are all explained (`RunningHolesExplained`), a tripped breaker blocks (`StormBlocks`), a candle starts one pipeline (`OnePipelinePerCandle`), and when the faults stop the service is RUNNING for good (`EventuallyRunning`). |
| `services` | 0.6 M | CVD feed, shadow monitor, campaign monitor and Bybit watcher under broken connections, failed calls and crashes: VALID means complete (`ValidIsTrue`), a shadow stands where the engine would (`ShadowsTrue`), a campaign's stop covers it and nothing is left (`CampaignCovered`), no more open annotations than one and one per start that missed it (`NotesBounded`); outcomes, last stops and trailed levels are not undone (`NothingUndone`); tape, campaigns and journal come to rest (`TapeRecovers`, `CampaignEnds`, `JournalCatchesUp`, which a failed hydration lifts). |
| `signals` | 1.3 M | Every sequence of a few kinds of candle or market through detectors, Dual Thrust, setups, Engine 1, scalp signals, profile, router, classifier and the top-down replay: no look-ahead (`FromThePast`), zones stand (`ZonesHold`), neither side is favoured (`NoFavourite`), plans are sound (`PlansSound`), signals keep their distance (`SignalsKeepApart`), what was recorded stands, also when the window slides (`HistoryKept`). |
| `books` | 1.5 M | Sizing, two books, backtests, manual journal, alerts, polls, scanner and watch daemon: a served silence leaves nothing behind (`AlertsHeard`), an event is told once (`EventsOnce`), a pair is in one book (`BooksApart`), money adds up (`MoneyAccounted`), what must only move one way does (`OneWay`). |

Why the bounds are enough. RiskRestart: one restart, before and after which trades close; four
clock ticks with two to a day and two days to a week cross a midnight and a week's end; saves are left out of the
run, since as deployed no start reads them (the theorem `NothingInvented` has them, of any length); two pairs make one pair's rows removable by mistake for
another's. RiskGate: the caps are at most 2, so that two pairs meet them; five ticks
with four to a day cross midnight, and a TTL of two expires twice. PositionMonitor: two
attempts at a stop-loss (3 in the code), two missing answers before the repair (12) and
three retries of an emergency close (5) keep a first, a repeated and a last attempt
where the code tells them apart; two failures let the second hit the handling of the
first; one object suffices but for the replacement (two, three for the duplicate).
DataFeed: two streams of different length; two reconnects trip the breaker; two candles of
warm-up. CvdFeed: a short and a long window. ShadowMonitor: two shadows with the same
plan, so that one may take the other's candle. CampaignMonitor: an initial entry and one
add, with one fault in the middle, which may be a cancel of the add; two failures in a row give up. BybitWatcher:
two orders and two trades, so that the second opens while the first's rows are open, and one fault. Signals: windows of
five bars in a life of seven, so that they slide twice; markets and bars chosen so that every
action of every part fires and every kind of setup is emitted. Books: two pairs; candles that fill, stop and take profit in one
bar; five requests, enough for two partial closes that add up and one beside them,
and one of them that stops half way.

Fairness. `PositionMonitor!FairSpec`: every request is served and every coroutine
resumes, and the poll loop starts again; the event loop runs every ready coroutine, each call
has a timeout (or raises, which is an answer), and `_poll_loop` catches every exception.
`DataFeed!FairSpec`: the connections' loops, the backfill and the warm-up go on, time passes and
the exchange closes candles; the variable `calm` says that the faults have stopped, which is
the premise of `EventuallyRunning`. `MCServices!FairSpec`: the CVD's loops, a market that trades while its
connection is up, the campaign's poll and time, the watcher's tick, and the supervisor that
starts it again. No fairness is assumed of fills, users, failures or commands.

## What disagrees with the docs

`monitor_duplicate` and `restart_cooldown` are runs of their own, each with a finding in `PROJECT.json`. While
modelling we met more. Where a formula is named, the module has it and it is violated by what
the code does (add it to the module's run, with the change given); it is not kept as a run.

| text | code | formula |
|---|---|---|
| `state_tracker.py:145-146` "the order never filled"; `05-execution.md:48` closes what a timeout leaves | An entry that fills as its timeout cancels it is reported cancelled and is not managed (`monitor.py:231-234`); a timeout whose market close fails drops an open position without a stop-loss (`monitor.py:1194-1201`). | `PositionMonitor!CancelledNeverFilled`, `TimeoutFlat`, one fault, `Expiry` |
| `service.py:510` "on PLACE, not fill (prevents exceeding max positions)" | Two pairs pass the open-positions check before either is recorded. | `RiskGate!OpenCap` |
| `state_tracker.py:296` "never undercount drawdown after a restart" | `main.py:235` builds the tracker before Redis connects (324), so nothing is restored from Redis: a close with no row in PostgreSQL is forgotten. | `RiskRestart!NoDrawdownUndercount` |
| `bybit_watcher.py:122` "Hydrate in-memory state from DB so restarts don't silence the diff" | A load that fails is only logged (135): an open position is then taken for a new one and annotated twice, and rows open from before are never closed. | `BybitWatcher!OneOpenNote` |
| `trade_manager.py:226` "Auto-updates trade status if total closed >= 100%." | INSERT (249), balance, sums and UPDATE (287) commit one by one: a close that stops in between leaves an active trade of which everything is closed. | `ManualTrades!NoneForgotten` |
| `dual_thrust_shadow.py:69-70` "the trades that are NEW since the last processed bar" | They are told by their number (216), and the window of 500 bars (`main.py:271-274`) always slides: when an old trade leaves it as a new one ends, the new one is never handed on. | `DualThrust!LastBarEmitted` |
| `execution_service/service.py` "No position on exchange → orphaned trade" | One failed fetch at startup writes off a live trade. | `TwoBooks!OrphansAreGone` |
| `settings.py:844` caps campaigns; `05-execution.md:290` says 1, `settings.py:845` 3 | The cap is read before the awaits, two pairs pass it. | `TwoBooks!CampaignCap` |
| `data_integrity.py:107` "RUNNING implies candles OK" | After a gap whose backfill failed, one live candle is enough for RUNNING (`data_service/service.py:963`). | `DataFeed!GapKeepsRecovering` |
| `order_blocks.py` "How many times price has wicked into the OB zone" | The counts shrink when candles leave the window. | `Detectors!RetestsRemembered`, `LastBarNo = 11` |
| `setups.py` "TP2 = next structural level beyond TP1" | The fallbacks may put it before TP1. | `Setups!TakeProfitsOrdered` |
| "the same impulse must not fire 5+ shadow setups" | A sliding window renames the impulse. | `Engine1!ImpulseOnce` |
| `pipeline_router.py:48`: the shadow TTL only collects data | The gate sends Engine 1's live orders under it (5 min); and the kill switch sees only the trades its query fetches. | `SetupRouter!EngineOrdersApart`, `KillCoversHistory` |
| `bybit_watcher.py` statuses; "cancel pending limit orders that have no thesis_pre" | After a failed fetch or a crash a filled order is left as cancelled or the reverse; an order whose thesis arrives while the deadline cancels is not spared. | `BybitWatcher!StatusTrue`, `ThesisSpares` |
| `backtest.py` "Applies the same risk guardrails as the live RiskService", "(no look-ahead)" | Pairs are replayed one after another on one risk state, so losses count before they happened; a higher timeframe's candle is visible when it opens. | `Backtest!LossIsPast`, `NoFutureCandle` |
| `btc_whale_client.py` "to avoid duplicates" | The explorer lists unconfirmed transactions first: when they confirm in another order, the last one seen moves down the page and those above it are told again. | `WhaleFeed!BtcOnce` |
| `oi_flush_detector.py:4`; `settings.py:577` | Open interest is in dollars, so a fall of the price alone is a flush; Redis forgets funding (9 h) before it counts as stale (16 h). | `Indicators!FlushIsADrop`, `OneMissIsBridged` |
| `trade_manager.py` "Auto-updates pair balance with PnL." | A trade that is closed twice, or two requests at once, leave a balance its PnL does not explain. | `ManualTrades!BalanceCounts` |
| `strategy_service/service.py:661-662` "a real signal always wins the slot" | A baseline signal of an earlier candle holds the slot for the whole window. | `ScalpSignals!RealSignalWins` |
| `trade_classifier.py`: a nearer level is no worse | `abs(x or 999)` makes distance zero the farthest. | `TradeClassifier!NearerIsNoWorse` |
| `risk_service/service.py:81-83` shadow mode "should not be blocked by live account state" | The heat of live positions counts against a shadow. | `RiskSizing!ShadowUnblocked` |
| `backtest_topdown.py:464-466` "Mirrors the production 1h dedup cache", 837 "SL: -1 R", 43-44 "All are direction-aligned" | Only the last emission is compared; a trade that times out may lose more than 1 R; inducement counts for either side. | `Topdown!IdeasOnce`, `LossIsRisk`, `TagsAlign` |
| `bybit_watcher.py:523-526` "must never block a trade open" | A failed alert lookup aborts the transaction, the insert fails. The scanner records an alert whose message failed; the push saves a bias nobody was told. | `TopdownAlerts!TradesBooked`, `AlertedIsHeard`, `FailedIsRetried` |

More of the kind, read while modelling; the models do what the code does:

- Monitor: a dashboard cancel starts a task and the poll loop goes on with the same position:
  both close it and the PnL is counted twice (`monitor.py:196`; `LifecycleSpec` with
  `MaxCancels = 1`). `breakeven_hit` and `trailing_sl_moved` are set when the move failed (887,
  923, against `models.py:82`). A moved stop that the exchange drops silently leaves none
  (1122; `Protected` with one `"silent"` fault). A position found flat by `_verify_sl_exists` is
  closed and its handler goes on to place a stop (776). A replaced entry is un-counted by the handler
  that waited on it (`CountExact` with `MaxObjs = 2`). The backoff of an emergency close sleeps in
  the poll loop (998). The panic button passes `"long"`/`"short"` for the closing side and reports
  success (`service.py:287`).
- Risk: overlapping pairs exceed MAX_PORTFOLIO_HEAT_PCT; positions open below the cap of trades per
  day close above it (`guardrails.py:102` counts closed trades). A second that begins between two
  `int(time.time())` of `execute` (`service.py:513`, 542) leaves a row that is never removed.
  MAX_MARGIN_PCT never decides, the heat cap is reached first. A campaign is opened without
  size or stop, so the heat does not see it.
- Market data: the circuit breaker's alert in `_check_warmup` is unreachable; a trip skips the gap
  backfill; `backfill_candles` repeats a NetworkError for ever; gaps inside the window are
  never filled.
- Alerts: a whale message that arrives while the digest is sent waits for the next one; `/unsilence`
  is undone by the history; CRITICAL lifecycle messages share their rate limit with data states.
- Campaigns: one closed by its stop leaves a pending add resting; an entry filled before the
  timeout's cancel is closed "cancelled" with its position left; `stop()` between the books of an add and its
  new stop leaves a stop that is too small; campaigns live in memory only.
- Detectors and setups: blocks and gaps come back or change when candles leave the window; detectors
  are skipped while the bias is undefined or a campaign holds the pair; B's entry beyond its wick
  gets a mirrored stop; the branch of MIN_RISK_REWARD_QUICK and `_apply_atr_sl_floor` are never reached.
- Shadows: two confirmation closes make the three engines disagree (`ShadowIsEngine` with
  `confirm |-> 2`), and breakeven is never armed; a failed read at restore lets the next save overwrite the snapshot.
- Journal: partial fills are never linked; a
  position closed and opened again between two polls keeps the old annotation.
- Backtests: heat counts the entry about to be replaced; entry and target are taken in one candle; the
  campaign stop does not move to the mean entry as the live one does; the top-down replay sees the candle
  that opens at its own time as closed.
- Texts only: the candle TTL of the docs (48 h) is 7 days in the code; the entry timeout of
  `05-execution.md` (4 h) is 24 h; `05-execution.md:368` names `filled_timeout` what
  `service.py:242` calls `filled_orphaned`.

## What is proved

By TLAPS, for every set of pairs, keys, streams and orders, every limit and bound that
meets the modules' assumptions (`Pairs` finite, limits natural, `MaxTrades` positive, thresholds at
least two where the code compares neighbours, no or one close that arms breakeven):

- `RiskTracker_proofs`: what the operators return: removal of a row keeps the others
  (`RemovedKeeps`), the reset and every update keep the types.
- `RiskRestart_proofs`: `TypeCorrect`; and `RowsTracked`: if the clock does not tick inside a
  handler, every managed position has its row, over any number of restarts, adoptions
  and failures. `TrackedHasRow` is not inductive: the strengthening `RowsInv` is
  `TypeOK /\ TrackedHasRow /\ NothingWhenDown`. A process that is down manages nothing, so a new
  process may start from an empty list of rows. Every invariant its passing runs check is a theorem; each
  step is first shown to be one of seven kinds (`StepKinds`) as far as the counters go.
  - `RowsCount` (`OpenCountExact`), in the order main.py builds the services: one row per managed
    position. It needs that a removal takes exactly one row (`RemovedLength`, from `TrackedHasRow`) and
    that the startup loop has not yet adopted what it has still to visit (`NotYetAdopted`).
  - `NothingInvented` (`DrawdownNotInvented`), without any condition: a save writes the sums before the
    day and the week they are of, so a cut one never leaves a new day beside an old sum (`SaveFits`). What
    it can leave is an old day beside a new sum, which no start reads as today's. The invariant
    `InventInv` says so of the database, the store and the tracker.
  - `RecordedLossesCount` (`DrawdownCovered`), with or without Redis and whatever fails: the tracker's sums are at least as
    bad as the losses made, less those of which PostgreSQL showed the last start no record. The invariant (`CoveredInv`) adds that
    the tracker's day and week are not ahead of the clock, so that a reset drops only what has ended.
  - `TradesCovered` (`TradeCapCovered`): whenever PostgreSQL answers at startup, with or without Redis.
- `RiskGate_proofs`: `TypeCorrect`, `PlacesAlone`, `DayBounded`, from one invariant,
  `TypeOK /\ DayKnown /\ PlacingAlone /\ DayBound`: the sum of trades, positions and tasks
  that place can only grow by a task that has passed the checks while its own pair was not
  counted, so it is at most the cap less one plus one per pair; `DayKnown` (the tracker's day is not
  in the future) makes a reset lower the sum only. `OrdersApart` (`NoRepeat`) needs `KeyInv`: a task
  that waits has found its key's last order a TTL old (`Awaiting`), which the lock per pair keeps true, and
  an order once sent is covered by the stamp or by the task that will stamp it (`SentKnown`).
  The proof covers several setups per candle and setups that need no answer from Claude,
  which the run leaves out.
- `PositionMonitor_proofs`, in four parts:
  - `ManagedCounted`: the Risk Service counts the position the monitor manages,
    for every number of positions that replace each other, every failure, cancel and panic;
    `CountedExactly`: with one position it counts that one and nothing else (`CountExact`), which is false
    with two. The invariant `MonitorInv` says what a coroutine may hold while it waits (`Holds`): an
    object that was registered, or for `execute` the fresh one it will register. Every handler between two
    awaits is first shown to be one of a few moves on its own object (`Moves`), then each move
    to keep the invariant.
  - `LifecycleKept`: the monitor implements `PositionLifecycle` (`LifecycleSpec`), step by step, for every number of
    positions, faults and panics. `LifeInv` has the phase of the object at every place of the poll loop, and
    that an object at work was not left. It is for a monitor whose user does not cancel from the
    dashboard (`MaxCancels = 0`, as in the runs that check it): a cancel beside the poll loop may close one position twice.
  - `StopsWhereRecorded` (`StopWhereRecorded`), for every value of the constants. A stop is placed by a call and
    named when the answer is read, some steps later, when the order may have been filled or cancelled.
    `LevelInv` has, for every place of the poll loop, which call is awaited there and at which level, and that the
    answer to one that asks for a stop names an order at that level.
  - `AlwaysProtected` (`Protected`), for one position (`MaxObjs = 1`) with any number of attempts, retries,
    cancels, panics and failed calls, entries that fill in part and orders attached or not. `SingleInv` adds what is on the
    exchange: one entry order, which is filled once; who has cancelled what; and at which places a stop-loss is known to
    be there. The faults are those of
    `monitor_safety`: a stop-loss that the user cancels, or that is accepted and does not exist, or an entry whose answer is
    lost, make the property false, and then the monitor's repair is what `NakedRepaired` is about. With a replacement it
    is false as well: an entry filled in part stays on the exchange beside its replacement, and one stop-loss that is
    filled ends the protection of both.
- `Books_proofs`, on `MCBooks!Spec`, where again a step of one part leaves the others' invariants:
  - `KeptApart` (`BooksApart`). Neither book asks the other when its order is sent. The proof needs that a
    task which waits owns its pair (`TaskOwnsPair`), so that what it checked before Claude's answer still holds
    after it, and that adoption at startup meets a pair with no campaign (`AdoptsAlone`).
  - `AlertsAreHeard` (`AlertsHeard`). What an auto-silence leaves behind is the list of recent alerts that set it
    off. It is clean because those alerts are as old as the silence (`Served`), whose length is at least the
    window they are counted in (`SilenceAssumption`), so that the next pruning drops them all (`KeptIs`).
  - `ToldOnce` (`EventsOnce`), from three invariants. `WhaleInv`: a transaction is processed once because a page
    is read down to the last one seen, and what is on a page before that one is later (`EthNewIs`: the page is the
    newest of all, so a last one that has dropped off it is older than every one on it); it is told once because
    a poll tells what lies behind the place where the list ended when the poll began, and pruning moves entries
    to the front only (`Follows`). `FlushInv`: polls are one window apart, so the snapshot a fall is measured from is the
    last one. `ScanInv`: an alert heard and written has a row of its time, which is what the next scan looks for, and
    no trade is of the same time as an alert, so the link a trade keeps is the one the rule gives (`LinksAre`).
  - `MoneyIsAccounted` (`MoneyAccounted`), from three more. `SizeInv`: whatever balance is cached or refreshed, what is granted
    was cut to the cap on the risk and to the leverage on the capital it names; rounding only loses
    (`DivLe`), and the bet factor is no more than the whole (`BetIs`). `BooksOK`: a pair has an order or a trade, never both, and every
    entry created is in one place of the funnel; a candle is a loop over the trades, whose invariant (`TradesTurned`)
    is that each trade seen so far is kept or has become one more result. `HtfInvOf`: a campaign that ends in a loss puts its key where no
    later one is taken, and its adds stay within their number whatever is filled or given up.
  - `NothingTurnsBack` (`OneWay`): three action properties. The stop of a simulated trade is where its flags or its
    level say (`TradeOK`), and these only grow (`StepsGrow`); a partial close keeps the trade `Settling` from its insert to the
    status it sets, so that only one which stops on the way, or an update, leaves it open; a source that was polled is polled again before it expires, so only a failure can lose it (`HealthInv`).
- `Services_proofs`, on `MCServices!Spec`; each service has an invariant of its own, and a step of one leaves the others':
  - `CampaignSafe` and, beside the other services, `CampaignIsCovered` (`CampaignCovered`), from one invariant of five parts,
    `CamInv`: the types; where the poll may be in which phase (`Control`); what an add may still fill (`Pending`); at which
    stop the campaign points, and that outside of a replacement it is for the size counted (`Attachments`); and, in behaviours
    with neither a fault nor one of the races the code leaves open, that what is held and what is live agree at every await
    (`CleanLots`). `NothingLeft` needs the last: that nothing is left at the end follows from what was cancelled before, not from
    the end.
  - `ValidComplete` (`ValidIsTrue`): a pair that is not invalid has missed nothing since its oldest trade (`Gapless`). A
    reconnect keeps this because the drop has made every pair invalid and nothing is added while the link is down (`Connection`).
  - `ShadowsAbreast` (`ShadowsTrue`): the monitor makes a new engine for every candle out of four fields. They are
    enough (`StepAlike`) when no or one close through the first take profit arms breakeven (`PlansAssumption`), which
    is false with two. The memory and the Redis snapshot have the same invariant, since a restart makes one of the other.
  - `NotesAreBounded` (`NotesBounded`), wherever the process is killed: from the end of the hydration on the watcher's memory
    of an open position is true of its rows, or a start was blind to an open one, which is then the one more that is allowed
    (`NotesCounted`).
  - `NothingIsUndone` (`NothingUndone`): three action properties. An outcome stands because a followed shadow has none yet
    (`Undecided`); the last stop because the new one is live before the old is cancelled.
- `DataFeed_proofs`: `StormsBlock` (`StormBlocks`, inductive as it stands: every way to RUNNING tests the
  breaker) and `OnePipeline` (a candle starts a pipeline only when it becomes the newest confirmed
  one, which it does once). `HolesAccounted` (`RunningHolesExplained`): the window is looked at once, when RUNNING begins,
  and candles are appended later, so the invariant (`FeedInv`) is about the gap *before* a candle arrives: of a stream in touch, every candle
  younger than its last one has no volume, is lost to a clean close, or is on its way (`Fresh`); the candle that
  arrives turns that gap into an explained hole (`ConfirmFollows`), and a `Tick` ages all of it together (`TickFollows`).
  From a drop until the next connect the service is out of touch (`Deaf`), and it leaves RUNNING before the backfill writes.
  The order of an answer is a `CHOOSE`; that there is one is proved by induction on the least counterexample (`SetsOrdered`).

- `Signals_proofs`, on `MCSignals!Spec`:
  - `KeptApart` (`SignalsKeepApart`): the router's stamp of a type is at least as late as its last order, and an order of
    the present candle has taken the slot (`RouterInv`); likewise the memory of the scalp signals (`ScalpInv`) and of the
    quick setups (`SetupsInv`), whose stamps are never in the future.
  - `NothingForeseen` (`FromThePast`): the state is only the candles, so the work is in what the two
    functions compute, for every window. `After` is the loop invariant of the Dual Thrust replay: its trades are sound so far, and
    what is open or pending follows from a signal already seen; `WalkedSound` is that of the structure's walk.
    The replay and the walk are recursive functions. `LoopInduction` replaces the library's induction theorems, which
    take an operator: the induction is over the *set* of turns after which the invariant holds, by its least
    counterexample (`LeastExists`).
  - `PlansAreSound` (`PlansSound`): three invariants, one per part (`PlansInv`). `SoundSheet`: the setup shown is the best
    of its cascade, which is the loop invariant of `BestOf` (`BestIs`): what passes has a risk, so to be `Better`, a
    comparison of two fractions, is transitive (`CrossMultiplied`); its stop is one of `Stops`; and the reference of the
    open interest is moved exactly when a setup was asked about it. `EngineInv`: an entry
    lies strictly within its impulse and the stop beyond it, since a pullback stays short of the impulse's origin.
    `TdInv`: the first targets of a play lie on its side, and an emission made is apart from those of the last `DedupBars`.
  - `NoSideIsFavoured` (`NoFavourite`): the invariant is types only (`MirrorInv`); the work is that each function
    commutes with turning the market over, up to the gate on the book, which is one-sided by design: what it refuses
    on either side is told apart in the statement (`OpenTo`). Prices turn about the close, so a greatest becomes a least
    (`TurnedEnds`), what one condition keeps of a set turns into what the other keeps of the turned set (`KeptTurns`), and a
    deviation squared, a distance and a trend's weight stay. The long branch on a market is the short one on
    its mirror and the other way round (`BranchesTurn`), so one lemma settles both sides of the triplet; the
    tags agree fact by fact (`FactsTurn`).
  - `ZonesAreSound` (`ZonesHold`): what the detectors know is true of the bars they were shown (`DetInv`). A new
    block's break and a new gap lie in the window, whose later bars are all tested now; one that was kept was tested against
    the bars seen before. The profile is a function of its candles (`ProfileIs`). Its volume is a table of candles by bins,
    summed by columns and by rows (`TableAdds`), and a candle's row adds up to its volume since it is spread evenly
    (`EvenShare`); the expansion of the value area has a loop invariant (`Area`), with each step decreasing what is outside; the median is
    a volume that some bin has (`RankedIs`), which puts the nodes above it and the gaps below it (`NodesApart`, `GapsApart`).
  - `HistoryStands` (`HistoryKept`), three invariants in one (`HistoryInv`). The structure is analyzed anew over every window, and
    the window slides. Which bars are marked as breaks depends on the swings and the closes only, not on the label or on what
    was broken before (`WalkedMarks`, `MarksAre`): a swing is marked by the first bar after its confirmation that closes
    beyond it, so the window after shows the marks of the window before, but for those whose bars have left (`MarksSlide`). The
    first candle at which an emission ends, and its exit with it, stays the least when a candle joins the tape
    (`LeastStays`, `OutcomeStays`). After every result the kill switch's
    curve has the last partial sum, the highest so far and the greatest fall (`AtWorst`); such a fall is a sum of results in a row.

Assumptions on constants are named and checked by TLC on every run: bars have positive prices and close in
their range (`BarsAssumption`, `DtAssumption`), TTLs, cooldowns and windows are natural numbers, the open interest is
polled once per window (`PollAssumption`: `OI_CHECK_INTERVAL` and `OI_DROP_WINDOW_SECONDS` are both 300 s), Redis
keeps a source longer than its poll takes to come back (`LifetimeAssumption`: 9 h for funding every 8 h, 10 min for open interest every 5),
and no address is one of both chains (`WalletsAssumption`). Capital, caps and prices are numbers, and what divides is not
zero (`CapsAssumption`, `AccountAssumption`, `MoneyAssumption`, `HtfAssumption`); the least bet is no more than a whole one
(`BetAssumption`); and the stop and the first target of a backtested setup are on their sides of its entry (`SidesAssumption`),
where the detectors put them: with a target on the other side, breakeven would loosen the stop.
A pullback stays short of the origin of its impulse (`EngineAssumption`: `PULLBACK_MAX_RETRACE` 0.85) and an engine's targets are
one risk away and one more (`TP1_RR` 1.0, `TP2_RR_FIXED` 2.0); the entries of a cascade lie in its zone (`EntriesAssumption`); a
block's wicks enclose its body and every market is followed by one of its own kind (`MarketAssumption`); moves and
readings are well formed (`MovesAssumption`, `ReadingAssumption`, `ScalpAssumption`). Every bin count divides the unit of
volume, so that an even share is exact, and the value area is a share of the whole (`VpAssumption`: `VP_VALUE_AREA_PCT` 0.70).
A limit order rests for a whole number of candles (`FillAssumption`), and the warm up of the Dual Thrust replay, the greatest of
its look backs and the ATR's, covers each of them (`LengthAssumption`).

Every property of `signals` is stated by a theorem. Only model-checked: `PositionLifecycle` and `Protected` outside of the conditions above; and all
liveness, which the prover does not do. No module uses RECURSIVE. What the folds of the community modules compute
for every input is out of the prover's reach, since they take an operator; what a recursive function computes is
not, by `LoopInduction`.

## Not modelled

Listed with reasons in `PROJECT.json`. In short: the position guardian (off, shadow mode), the market
context and the Bybit sync are functions of their input or idempotent upserts; metrics, dashboard views,
Telegram menus, reports and statistics are input and output; settings are constants. Of modelled
components: the split entry (`monitor.py:285-400`), the progressive trail (off by default) and the pair in
sandbox mode; setups C, E and H; feature rows and scores, which nothing reads back into a decision; the
rendering of the top-down brief; parsing of messages.

Hazards outside the list for being of narrow effect, or in a part that is not modelled: an open order within
0.5% of the take-profit's price is taken for the attached one (`monitor.py:645`), two stops rest without
reduceOnly while one is moved (`executor.py:255`), client order ids repeat with pair, side, price and size
(`executor.py:199`), adopted positions have a fresh timeout (`service.py:78`).

## Plan

Done: every module above, the runs, the theorems. Left, in the order of what it would add:

1. The split entry in PositionMonitor: an entry filled between the fetch and the cancel of its timeout is
   closed "cancelled"; a held position stays "pending" until the second entry fills or times out, and the second may fill after
   the first one's stop.
2. Larger windows for the detectors, so that retests and gap fills are lost inside the passing properties' reach.
