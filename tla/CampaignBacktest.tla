------------------------- MODULE CampaignBacktest --------------------------
(***************************************************************************)
(* The campaign simulator of the backtest (CampaignSimulator of            *)
(* scripts/backtest.py, and the campaign mode of run_backtest): one        *)
(* campaign at a time, pyramid adds at a falling margin, a stop trailed    *)
(* over the 4H swings.                                                     *)
(*                                                                         *)
(* One pair; time is counted in trigger candles, every SignalSpan-th being *)
(* a 4H candle.  Money is in 1/FeeScale of a price unit, sizes are whole,  *)
(* the swings a 4H candle leaves are part of it (newest first).            *)
(***************************************************************************)
EXTENDS PnlEngine, FiniteSets

CONSTANTS
    Horizon, SignalSpan,
    Plans,              \* setups: dir, entry, sl
    Candles,            \* low, high, close, and the prices of the swings
    InitialMargin, AddMargins, Leverage, MinSize,
    MaxAdds, AddMinRR,  \* in tenths of R
    FeeRate, FeeScale, Conservative, FillBuffer,
    InitialTime, AddTime, CampaignTime, DedupTime

VARIABLES
    at,         \* the candle replayed
    book,       \* pending and active (sets of at most one), closed and
                \* _failed_entries
    seen        \* _campaign_dedup

replayVars == <<at, book, seen>>

ReplayInit ==
    /\ at = 0 /\ seen = << >>
    /\ book = [order |-> {}, camp |-> {}, ended |-> << >>, failed |-> {}]

Signal       == at % SignalSpan = 0
Key(k)       == <<k.dir, k.entry>>
Ahead(k, price, level) == IF k.dir = "long" THEN price > level ELSE price < level

\* _check_fill.
Fills(dir, price, c) ==
    LET buffer == IF Conservative THEN FillBuffer ELSE 0
    IN  IF dir = "long" THEN c.low <= price - buffer ELSE c.high >= price + buffer

\* on_setup: the guards and the pending campaign.
NewCampaign(s, plan) ==
    LET size == (InitialMargin * Leverage) \div plan.entry
    IN  IF s.order # {} \/ s.camp # {} \/ Key(plan) \in s.failed \/ size < MinSize THEN s
        ELSE [s EXCEPT !.order =
                {[dir |-> plan.dir, entry |-> plan.entry, sl |-> plan.sl, stop |-> plan.sl,
                  mean |-> plan.entry, size |-> size, adds |-> 0, add |-> {},
                  deadline |-> at + InitialTime, filledAt |-> -1]}]

\* try_add: the pending add on the campaign k.
TryAdd(k, plan, c) ==
    LET risk   == IF k.mean > k.sl THEN k.mean - k.sl ELSE k.sl - k.mean
        profit == IF k.dir = "long" THEN c.close - k.mean ELSE k.mean - c.close
    IN  IF k.add # {} \/ k.adds >= MaxAdds \/ plan.dir # k.dir \/ risk <= 0
           \/ profit * 10 < AddMinRR * risk
        THEN k
        ELSE [k EXCEPT !.add = {[price |-> plan.entry, deadline |-> at + AddTime,
                                 size |-> (AddMargins[k.adds + 1] * Leverage) \div plan.entry]}]

\* _check_add_fill: the mean entry is rounded down here.
AddChecked(k, c) ==
    IF k.add = {} THEN k
    ELSE LET add == CHOOSE x \in k.add : TRUE
             size == k.size + add.size
         IN  IF at > add.deadline THEN [k EXCEPT !.add = {}]
             ELSE IF ~Fills(k.dir, add.price, c) THEN k
             ELSE [k EXCEPT !.add = {}, !.adds = @ + 1, !.size = size,
                            !.mean = (k.mean * k.size + add.price * add.size) \div size]

\* _trail_sl: the newest swing between the stop and the mean entry.
TrailedTo(k, c) ==
    LET fit == {i \in DOMAIN c.swings : Ahead(k, c.swings[i], k.stop) /\ Ahead(k, k.mean, c.swings[i])}
    IN  IF ~Signal \/ fit = {} THEN k ELSE [k EXCEPT !.stop = c.swings[Min(fit)]]

\* The entries a closed campaign spoils (_close_campaign).
Lost(k, reason, pnl) == IF pnl < 0 THEN {Key(k)} ELSE {}

PnlOf(k, price) == NetPnl([k EXCEPT !.entry = k.mean], price, FeeRate, FeeScale)

\* _close_campaign.
Closed(s, k, reason, price) ==
    [s EXCEPT !.camp = {},
              !.ended = Append(@, [key |-> Key(k), reason |-> reason, pnl |-> PnlOf(k, price)]),
              !.failed = @ \cup Lost(k, reason, PnlOf(k, price))]

\* _process_pending, for the pending campaign k.
PendingCandle(s, k, c) ==
    IF at > k.deadline
    THEN [s EXCEPT !.order = {},
                   !.ended = Append(@, [key |-> Key(k), reason |-> "entry_timeout", pnl |-> 0])]
    ELSE IF Fills(k.dir, k.entry, c) THEN [s EXCEPT !.order = {}, !.camp = {[k EXCEPT !.filledAt = at]}]
    ELSE s

\* _process_active, for the active campaign k.
ActiveCandle(s, k, c) ==
    IF at - k.filledAt >= CampaignTime THEN Closed(s, k, "timeout", c.close)
    ELSE IF (IF k.dir = "long" THEN c.low <= k.stop ELSE c.high >= k.stop)
    THEN Closed(s, k, "trailing_sl", k.stop)
    ELSE [s EXCEPT !.camp = {TrailedTo(AddChecked(k, c), c)}]

\* on_candle: the candle that fills the entry is not held against the stop.
OnCandle(s, c) ==
    IF s.order # {} THEN PendingCandle(s, CHOOSE k \in s.order : TRUE, c)
    ELSE IF s.camp # {} THEN ActiveCandle(s, CHOOSE k \in s.camp : TRUE, c)
    ELSE s

\* What run_backtest does with the setup evaluate_htf finds in a 4H candle.
OnSignal(s, plan, c) ==
    IF s.order # {} THEN s
    ELSE IF s.camp # {} THEN [s EXCEPT !.camp = {TryAdd(k, plan, c) : k \in s.camp}]
    ELSE NewCampaign(s, plan)

ReplayCandle ==
    /\ at < Horizon
    /\ \E c \in Candles : book' = OnCandle(book, c)
    /\ at' = at + 1 /\ UNCHANGED seen

\* A 4H candle with a setup the dedup cache lets through.
ReplaySignal ==
    /\ at < Horizon /\ Signal
    /\ \E c \in Candles, plan \in Plans :
         /\ Key(plan) \in DOMAIN seen => at - seen[Key(plan)] >= DedupTime
         /\ seen' = (Key(plan) :> at) @@ seen
         /\ book' = OnSignal(OnCandle(book, c), plan, c)
    /\ at' = at + 1

ReplayNext == ReplayCandle \/ ReplaySignal
ReplaySpec == ReplayInit /\ [][ReplayNext]_replayVars

-----------------------------------------------------------------------------
\* An entry whose campaign lost money, by its stop or at its timeout, is not
\* taken again for the rest of the replay; adds filled and pending stay within
\* MaxAdds and no swing loosens the stop, although adds move the mean entry.
FailedStayOut ==
    /\ book.order = {} \/ book.camp = {}
    /\ \A k \in book.order \cup book.camp :
          /\ k.adds + Cardinality(k.add) <= MaxAdds
          /\ ~Ahead(k, k.sl, k.stop)
          /\ \A i \in DOMAIN book.ended : book.ended[i].pnl < 0 => book.ended[i].key # Key(k)
=============================================================================
