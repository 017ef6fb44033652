------------------------------ MODULE Backtest ------------------------------
(***************************************************************************)
(* The backtest (scripts/backtest.py): the replay of stored candles        *)
(* through the strategy (run_backtest), the simulated cursor of the market *)
(* data (BacktestDataService) and the simulator of orders and trades       *)
(* (TradeSimulator) with its copies of the risk guardrails.                *)
(*                                                                         *)
(* Time is counted in the shortest trigger candle.  What the strategy finds*)
(* in a candle is a member of Plans or nothing.  Money is in 1/FeeScale    *)
(* of a price unit and sizes are whole; settings are CONSTANTS.            *)
(***************************************************************************)
EXTENDS PnlEngine, FiniteSets

CONSTANTS
    Pairs,              \* the pairs in the order they are replayed
    Horizon,            \* the stored period
    Spans,              \* trigger timeframes, as ordered at one timestamp
    HigherSpans,        \* timeframes the strategy reads and never triggers on
    DayLength, WeekLength,
    Plans,              \* setups: dir, entry, sl, tp1, tp2, quick
    Candles,            \* low, high, close and the 1m candles inside
    Capital, RiskPct, MaxLeverage, HeatPct, FeeRate, FeeScale,
    MaxOpen, MaxPerDay, CooldownTime, DailyPct, WeeklyPct,
    MinRiskPct, MaxSlPct, MinRR(_), \* percent of the entry; whole R by quickness
    Conservative, FillBuffer, SureFill, AiEnabled,
    EntryTime(_), TradeTime(_),     \* timeouts by quickness
    Trailing, TrailStep, TrailActivation, TrailCeiling, \* in tenths of R
    Warmup, DedupTime

ASSUME MoneyAssumption ==
    /\ {FeeScale, TrailStep} \subseteq Nat \ {0}
    /\ {Capital, RiskPct, MaxLeverage, FeeRate, TrailCeiling, TrailActivation} \subseteq Nat
    /\ \A c \in Candles : {c.low, c.high, c.close} \subseteq Nat
\* A setup's stop and first target are on their sides of its entry.
ASSUME SidesAssumption ==
    \A plan \in Plans :
       /\ plan.entry \in Nat \ {0} /\ {plan.sl, plan.tp1, plan.tp2} \subseteq Nat
       /\ IF plan.dir = "long" THEN plan.sl <= plan.entry /\ plan.entry <= plan.tp1
          ELSE plan.sl >= plan.entry /\ plan.entry >= plan.tp1

VARIABLES
    turn, place,    \* the pair replayed and the position in its candles
    pending,        \* pending: pair -> trade
    active, closed, \* the open trades, and what became of the others
    equity,
    risk,           \* _last_loss_time_ms and the day's and week's counters
    funnel,         \* _pending_created, _replaced, _timeout, _filled
    dedup           \* _dedup_cache

backtestVars == <<turn, place, pending, active, closed, equity, risk, funnel, dedup>>

Never == -1

BacktestInit ==
    /\ turn = 1 /\ place = 1
    /\ pending = << >> /\ active = << >> /\ closed = << >>
    /\ equity = Capital * FeeScale
    /\ risk = [lastLoss |-> Never, day |-> Never, week |-> Never,
               trades |-> 0, daily |-> 0, weekly |-> 0]
    /\ funnel = [created |-> 0, replaced |-> 0, timeout |-> 0, filled |-> 0]
    /\ dedup = << >>

-----------------------------------------------------------------------------
(* The replayed data.                                                      *)

\* get_trigger_candles: every timeframe's candles by their opening time.
Schedule ==
    LET At(t) == SelectSeq([i \in 1..Len(Spans) |-> [at |-> t, span |-> Spans[i]]],
                           LAMBDA k : t % k.span = 0)
    IN  FlattenSeq([t \in 1..Horizon |-> At(t - 1)])

Cursor == Schedule[place]
Now    == Cursor.at

\* get_candles: the last stored candle of a timeframe that has opened by now.
LastVisible(span) == [at |-> (Now \div span) * span, span |-> span]

-----------------------------------------------------------------------------
(* One trade in one candle.                                                *)

Long(t)         == t.dir = "long"
Reached(t, c, price) == IF Long(t) THEN c.high >= price ELSE c.low <= price
StopHit(t, c)   == IF Long(t) THEN c.low <= t.stop ELSE c.high >= t.stop
Distance(t)     == IF t.entry > t.sl THEN t.entry - t.sl ELSE t.sl - t.entry
InFavour(t, d)  == IF Long(t) THEN t.entry + d ELSE t.entry - d
Target(t)       == IF Trailing THEN InFavour(t, (Distance(t) * TrailCeiling) \div 10) ELSE t.tp2

\* _check_entry_fill, less the fill probability.
EntryReached(t, c) ==
    LET buffer == IF Conservative THEN FillBuffer ELSE 0
    IN  IF Long(t) THEN c.low <= t.entry - buffer ELSE c.high >= t.entry + buffer

\* _resolve_ambiguous_exit: the 1m candles show the target before the stop.
TargetFirst(t, c) ==
    LET deciding == {i \in DOMAIN c.detail : StopHit(t, c.detail[i])
                                             \/ Reached(t, c.detail[i], Target(t))}
    IN  deciding # {} /\ ~StopHit(t, c.detail[CHOOSE i \in deciding : \A j \in deciding : i <= j])

StopReason(t) == IF t.moved \/ (Trailing /\ t.level > 0) THEN "trailing_sl"
                 ELSE IF t.breakeven THEN "breakeven_sl" ELSE "sl"

\* How the candle ends the trade, which stays open otherwise.
Exit(t, c) ==
    IF Now - t.filledAt >= TradeTime(t.quick) THEN [reason |-> "timeout", price |-> c.close]
    ELSE IF StopHit(t, c) /\ ~(Reached(t, c, Target(t)) /\ TargetFirst(t, c))
         THEN [reason |-> StopReason(t), price |-> t.stop]
    ELSE IF Reached(t, c, Target(t)) THEN [reason |-> "tp", price |-> Target(t)]
    ELSE [reason |-> "open", price |-> 0]

\* Mutant of Trailed: a level below the one reached moves the stop too.
TrailedBack(t, c) ==
    LET best  == IF Long(t) THEN c.high - t.entry ELSE t.entry - c.low
        level == (best * 10) \div (Distance(t) * TrailStep)
    IN  IF best * 10 < Distance(t) * TrailActivation THEN t
        ELSE [t EXCEPT !.level = level, !.breakeven = TRUE,
                       !.stop = InFavour(t, (Distance(t) * (level - 1) * TrailStep) \div 10)]

\* _progressive_trail: one step behind the best price of the candle.
Trailed(t, c) ==
    LET best  == IF Long(t) THEN c.high - t.entry ELSE t.entry - c.low
        level == (best * 10) \div (Distance(t) * TrailStep)
    IN  IF best * 10 < Distance(t) * TrailActivation \/ level <= t.level THEN t
        ELSE [t EXCEPT !.level = level, !.breakeven = TRUE,
                       !.stop = InFavour(t, (Distance(t) * (level - 1) * TrailStep) \div 10)]

\* The stop management of a candle that leaves the trade open.
Managed(t, c) ==
    LET arms  == ~t.breakeven /\ Reached(t, c, t.tp1)
        moves == (t.breakeven \/ arms) /\ ~t.moved /\ Reached(t, c, (t.tp1 + t.tp2) \div 2)
    IN  IF Trailing THEN Trailed(t, c)
        ELSE [t EXCEPT !.breakeven = @ \/ arms, !.moved = @ \/ moves,
                       !.stop = IF moves THEN t.tp1 ELSE IF arms THEN t.entry ELSE @]

Result(t, reason, pnl) == [pair |-> t.pair, reason |-> reason, pnl |-> pnl]

-----------------------------------------------------------------------------
(* A candle of the simulator (on_candle): pending entries, then trades.    *)

Without(f, p) == Restrict(f, DOMAIN f \ {p})
With(f, p, t) == [q \in DOMAIN f \cup {p} |-> IF q = p THEN t ELSE f[q]]

\* _process_pending, for a touched entry that the fill probability lets in or
\* not.
AfterPending(p, c, lucky) ==
    LET t == pending[p]
    IN  IF p \notin DOMAIN pending
        THEN [pending |-> pending, active |-> active, closed |-> closed, funnel |-> funnel]
        ELSE IF Now > t.deadline
        THEN [pending |-> Without(pending, p), active |-> active,
              closed |-> Append(closed, Result(t, "entry_timeout", 0)),
              funnel |-> [funnel EXCEPT !.timeout = @ + 1]]
        ELSE IF EntryReached(t, c) /\ lucky
        THEN [pending |-> Without(pending, p), active |-> Append(active, [t EXCEPT !.filledAt = Now]),
              closed |-> closed, funnel |-> [funnel EXCEPT !.filled = @ + 1]]
        ELSE [pending |-> pending, active |-> active, closed |-> closed, funnel |-> funnel]

\* What _close_trade keeps for the guardrails.
Realised(r, pnl) == [r EXCEPT !.daily = @ + pnl, !.weekly = @ + pnl,
                              !.lastLoss = IF pnl < 0 THEN Now ELSE @]

\* One trade of _process_active, with _close_trade.
ProcessTrade(acc, t, p, c) ==
    LET exit == Exit(t, c)
        pnl  == NetPnl(t, exit.price, FeeRate, FeeScale)
    IN  IF t.pair # p THEN [acc EXCEPT !.active = Append(@, t)]
        ELSE IF exit.reason = "open" THEN [acc EXCEPT !.active = Append(@, Managed(t, c))]
        ELSE [acc EXCEPT !.closed = Append(@, Result(t, exit.reason, pnl)),
                         !.equity = @ + pnl, !.risk = Realised(@, pnl)]

-----------------------------------------------------------------------------
(* A setup of the strategy.                                                *)

\* _update_day_week.
Today(r) ==
    LET newDay  == r.day # Now \div DayLength
        newWeek == r.week # Now \div WeekLength
    IN  [r EXCEPT !.day = Now \div DayLength, !.week = Now \div WeekLength,
                  !.trades = IF newDay THEN 0 ELSE @, !.daily = IF newDay THEN 0 ELSE @,
                  !.weekly = IF newWeek THEN 0 ELSE @]

SizeOf(plan, money) ==
    LET byRisk == (money * RiskPct) \div (100 * FeeScale * Distance(plan))
    IN  IF byRisk * plan.entry * FeeScale > money * MaxLeverage
        THEN (money * MaxLeverage) \div (plan.entry * FeeScale) ELSE byRisk

Heat(open) == FoldSeq(LAMBDA t, sum : sum + t.size * Distance(t), 0, open)

\* The guardrails of on_setup, on the day's counters r.
Accepted(s, p, plan, r) ==
    LET others == {q \in DOMAIN s.pending : q # p}
        reward == IF plan.tp2 > plan.entry THEN plan.tp2 - plan.entry ELSE plan.entry - plan.tp2
        held   == s.active \o [i \in 1..Cardinality(DOMAIN s.pending) |->
                                  s.pending[SetToSeq(DOMAIN s.pending)[i]]]
    IN  /\ \A i \in DOMAIN s.active : s.active[i].pair # p
        /\ Cardinality(others) + Len(s.active) < MaxOpen
        /\ s.equity > 0
        /\ Distance(plan) # 0
        /\ Distance(plan) * 100 >= MinRiskPct * plan.entry
        /\ Distance(plan) * 100 <= MaxSlPct * plan.entry
        /\ reward >= MinRR(plan.quick) * Distance(plan)
        /\ r.lastLoss = Never \/ Now - r.lastLoss >= CooldownTime
        /\ r.trades < MaxPerDay
        /\ -r.daily * 100 < DailyPct * Capital * FeeScale
        /\ -r.weekly * 100 < WeeklyPct * Capital * FeeScale
        /\ HeatPct = 0 \/ (Heat(held) + SizeOf(plan, s.equity) * Distance(plan)) * 100 * FeeScale
                             <= HeatPct * s.equity

\* The pending entry on_setup makes of a plan.
Entry(p, plan, money) ==
    [pair |-> p, dir |-> plan.dir, entry |-> plan.entry, sl |-> plan.sl, tp1 |-> plan.tp1,
     tp2 |-> plan.tp2, quick |-> plan.quick, size |-> SizeOf(plan, money), stop |-> plan.sl,
     breakeven |-> FALSE, moved |-> FALSE, level |-> 0,
     deadline |-> Now + EntryTime(plan.quick), filledAt |-> Never]

\* Its counters.
OneMoreToday(r) == [Today(r) EXCEPT !.trades = @ + 1]
Created(f, old) == [f EXCEPT !.created = @ + 1, !.replaced = IF old THEN @ + 1 ELSE @]

\* on_setup past its guardrails: a pending entry of the pair is replaced.
Placed(s, p, plan) ==
    LET old == p \in DOMAIN s.pending
    IN  [s EXCEPT !.pending = With(@, p, Entry(p, plan, s.equity)),
                  !.closed = IF old THEN Append(@, Result(s.pending[p], "pending_replaced", 0)) ELSE @,
                  !.risk = OneMoreToday(@), !.funnel = Created(@, old)]

OnSetup(s, p, plan) ==
    IF Accepted(s, p, plan, Today(s.risk)) THEN Placed(s, p, plan)
    ELSE [s EXCEPT !.risk = Today(@)]

\* The dedup cache of the replay lets the setup of the pair through.
Fresh(p, plan) == <<p, plan>> \in DOMAIN dedup => Now - dedup[<<p, plan>>] >= DedupTime

-----------------------------------------------------------------------------
(* run_backtest: the candles of a pair in order, then those of the next.   *)

Replaying == turn <= Len(Pairs)

Advanced ==
    IF place < Len(Schedule) THEN turn' = turn /\ place' = place + 1
    ELSE turn' = turn + 1 /\ place' = 1

\* The simulator after the candle c of the pair.
AfterCandle(p, c, lucky) ==
    LET filled == AfterPending(p, c, lucky)
        start  == [pending |-> filled.pending, active |-> << >>, closed |-> filled.closed,
                   equity |-> equity, risk |-> risk, funnel |-> filled.funnel]
        after[k \in 0..Len(filled.active)] ==
            IF k = 0 THEN start ELSE ProcessTrade(after[k - 1], filled.active[k], p, c)
    IN  after[Len(filled.active)]

Becomes(s) ==
    /\ pending' = s.pending /\ active' = s.active /\ closed' = s.closed
    /\ equity' = s.equity /\ risk' = s.risk /\ funnel' = s.funnel

Replay ==
    /\ Replaying
    /\ \E c \in Candles, lucky \in (IF SureFill THEN {TRUE} ELSE BOOLEAN) :
         \E s \in {AfterCandle(Pairs[turn], c, lucky)} :
            \/ Becomes(s) /\ UNCHANGED dedup
            \/ /\ place > Warmup
               /\ \E plan \in Plans, passed \in (IF AiEnabled THEN BOOLEAN ELSE {TRUE}) :
                    /\ plan.quick => passed
                    /\ Fresh(Pairs[turn], plan)
                    /\ dedup' = (<<Pairs[turn], plan>> :> Now) @@ dedup
                    /\ Becomes(IF passed THEN OnSetup(s, Pairs[turn], plan) ELSE s)
    /\ Advanced

BacktestNext == Replay
BacktestSpec == BacktestInit /\ [][BacktestNext]_backtestVars

-----------------------------------------------------------------------------
(* compute_metrics, as far as it counts.                                   *)

Trades(cs) == {i \in DOMAIN cs : cs[i].reason \notin {"entry_timeout", "pending_replaced"}}
Wins(cs)   == {i \in Trades(cs) : cs[i].pnl > 0}
Losses(cs) == {i \in Trades(cs) : cs[i].pnl <= 0}
Earned(cs) ==
    LET sum[k \in 0..Len(cs)] == IF k = 0 THEN 0 ELSE sum[k - 1] + cs[k].pnl
    IN  sum[Len(cs)]

\* A pair has one order or one trade, whatever was replaced, filled and closed
\* in between, and the report loses none: every entry ever created is pending,
\* replaced, timed out, open or a counted win or loss, and the equity is what
\* they made of the capital.
BooksBalance ==
    /\ \A i, j \in DOMAIN active : active[i].pair = active[j].pair => i = j
    /\ \A i \in DOMAIN active : active[i].pair \notin DOMAIN pending
    /\ funnel.created = funnel.replaced + funnel.timeout + funnel.filled
                        + Cardinality(DOMAIN pending)
    /\ funnel.replaced + funnel.timeout = Len(closed) - Cardinality(Trades(closed))
    /\ funnel.filled = Len(active) + Cardinality(Wins(closed)) + Cardinality(Losses(closed))
    /\ equity = Capital * FeeScale + Earned(closed)

\* The stop of an open trade only moves in its favour (_progressive_trail and
\* the breakeven and trailing moves), whatever order the candles come in.
StopTightens ==
    [][\A i \in DOMAIN active, j \in DOMAIN active' :
          (active'[j].pair = active[i].pair /\ active'[j].filledAt = active[i].filledAt)
             => IF Long(active[i]) THEN active'[j].stop >= active[i].stop
                ELSE active'[j].stop <= active[i].stop]_backtestVars

\* What the cooldown counts from has happened: the guardrails of the simulator
\* see the past only.
LossIsPast == Replaying => risk.lastLoss <= Now

\* The strategy sees no candle that ends after the one it is evaluated on.
NoFutureCandle ==
    Replaying => \A span \in HigherSpans :
                    LastVisible(span).at + span <= Now + Cursor.span
=============================================================================
