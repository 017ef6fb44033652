------------------------------ MODULE Topdown -------------------------------
(***************************************************************************)
(* The top-down edge (scripts/topdown_snapshot.py) and its replay          *)
(* (scripts/backtest_topdown.py): a snapshot reconciles the trends of four *)
(* timeframes into a side, the triplet takes entry, stop and target from   *)
(* the liquidity levels and the 4H swings, the replay collects the         *)
(* emissions of the 15m bars and walks the 5m candles for their outcome.   *)
(*                                                                         *)
(* A view is what the analyzers read at a bar (Detectors models them):     *)
(* trends and breaks per timeframe, levels with their touches, 4H swings,  *)
(* blocks, gaps, the last impulse and the daily ATR.  Prices are whole.    *)
(* There is one 5m candle to a 15m bar, and both are numbered by the time  *)
(* they open.                                                              *)
(***************************************************************************)
EXTENDS Integers, FiniteSets, Sequences, FiniteSetsExt

CONSTANTS
    TdViews,        \* the readings a bar may have
    TdCandles,      \* 5m candles: low, high, close
    DedupBars,      \* DEDUP_WINDOW_BARS
    FillBars,       \* timeout_hours, in candles
    LastTdBar,      \* bound: the last bar of the window; the candles go on for
    MaxTdBars       \* bound: the slack of a day that run_simulator leaves

Frames == {"4h", "1h", "30m", "15m"}

\* What the analyzers hand over.
ASSUME ReadingAssumption ==
    /\ TdViews \subseteq
          [trend   : [Frames -> {"bullish", "bearish", "undefined"}],
           breaks  : [Frames -> Seq([dir : {"bullish", "bearish"}, at : Int])],
           levels  : SUBSET [frame : Frames, type : {"bsl", "ssl"}, price : Int, swept : BOOLEAN,
                             touches : Int, last : Int],
           lows    : SUBSET Int, highs : SUBSET Int, atr : Nat,
           blocks  : SUBSET [dir : {"bullish", "bearish"}, price : Int],
           gaps    : SUBSET {"bullish", "bearish"},
           impulse : [size : {"normal", "big", "extreme"}, dir : {"bull", "bear", "doji"}]]
    /\ \A v \in TdViews : IsFiniteSet(v.levels) /\ IsFiniteSet(v.lows) /\ IsFiniteSet(v.highs)
    /\ TdCandles \subseteq [low : Int, high : Int, close : Int] /\ DedupBars \in Nat

\* A limit order rests for a whole number of candles.
ASSUME FillAssumption == FillBars \in Nat

VARIABLES
    tape,           \* the 5m candles
    view,           \* the reading of the last bar; a set of none or one
    emissions         \* the emissions, oldest first

tdVars == <<tape, view, emissions>>

TdInit == tape = << >> /\ view = {} /\ emissions = << >>

-----------------------------------------------------------------------------
(* The snapshot.                                                           *)

Weight(f) == IF f = "4h" THEN 2 ELSE 1

\* The weight of the timeframes of a trend.
WeightOf(v, trend) ==
    LET Counted(f) == IF v.trend[f] = trend THEN Weight(f) ELSE 0
    IN  Counted("4h") + Counted("1h") + Counted("30m") + Counted("15m")

\* _reconcile: the side, and how sure of it.
Reconciled(v) ==
    LET bull == WeightOf(v, "bullish")
        bear == WeightOf(v, "bearish")
    IN  IF Cardinality({f \in Frames : v.trend[f] = "undefined"}) >= 2 THEN <<"undefined", "low">>
        ELSE IF bull >= 4   THEN <<"long", "high">>
        ELSE IF bear >= 4   THEN <<"short", "high">>
        ELSE IF bull > bear THEN <<"long", IF v.trend["4h"] = "bearish" THEN "low" ELSE "medium">>
        ELSE IF bear > bull THEN <<"short", IF v.trend["4h"] = "bullish" THEN "low" ELSE "medium">>
        ELSE <<"undefined", "low">>

SideOf(v) == Reconciled(v)[1]

\* _pick_invalidation: the nearest 4H swing beyond the price, a set of none or one.
Invalidation(v, price) ==
    LET lows  == {p \in v.lows : p < price}
        highs == {p \in v.highs : p > price}
    IN  CASE SideOf(v) = "long"  /\ lows # {}  -> {Max(lows)}
          [] SideOf(v) = "short" /\ highs # {} -> {Min(highs)}
          [] OTHER -> {}

Away(a, b) == IF a < b THEN b - a ELSE a - b

\* The liquidity not yet taken, above and below the price.
OpenAbove(v, price) == {l.price : l \in {x \in v.levels : ~x.swept /\ x.price > price}}
OpenBelow(v, price) == {l.price : l \in {x \in v.levels : ~x.swept /\ x.price < price}}

\* _sweep_actionable: 1% at most.
Actionable(sweep, price) == Away(sweep, price) * 100 <= price

\* _pick_valid_target: the nearest level 1.5 risks away from the entry.
FarEnough(level, entry, sl) == Away(level, entry) * 2 >= 3 * Away(entry, sl)

\* _adaptive_tp: the first of two targets when the last is two daily ranges
\* away, the candidate nearest to one range; none when there is a single target.
FirstTargets(entry, target, between, atr) ==
    LET near == {p \in between : Away(p, entry) <= atr}
    IN  IF atr = 0 \/ Away(target, entry) < 2 * atr \/ near = {} THEN {}
        ELSE {CHOOSE p \in near : \A q \in near : Away(p, entry) >= Away(q, entry)}

Play(side, entry, sl, target, firsts) ==
    {[dir |-> side, entry |-> entry, sl |-> sl, tp |-> target, firsts |-> firsts]}

\* _trade_triplet: the valid play of a snapshot, a set of none or one.
Triplet(v, price) ==
    LET above == OpenAbove(v, price)
        below == OpenBelow(v, price)
        Short(sweep, sl) ==
            LET targets == {p \in below : FarEnough(p, sweep, sl)}
                between == {p \in below : Max(targets) < p /\ p < sweep}
            IN  IF ~Actionable(sweep, price) \/ sl <= sweep \/ targets = {} THEN {}
                ELSE Play("short", sweep, sl, Max(targets),
                          FirstTargets(sweep, Max(targets), between, v.atr))
        Long(sweep, sl) ==
            LET targets == {p \in above : FarEnough(p, sweep, sl)}
                between == {p \in above : sweep < p /\ p < Min(targets)}
            IN  IF ~Actionable(sweep, price) \/ sl >= sweep \/ targets = {} THEN {}
                ELSE Play("long", sweep, sl, Min(targets),
                          FirstTargets(sweep, Min(targets), between, v.atr))
    IN  UNION {CASE SideOf(v) = "short" /\ above # {} -> Short(Min(above), sl)
                 [] SideOf(v) = "long"  /\ below # {} -> Long(Max(below), sl)
                 [] OTHER -> {}
               : sl \in Invalidation(v, price)}

-----------------------------------------------------------------------------
(* The confluence tags of an emission.                                     *)

LastBreak(breaks) == breaks[Len(breaks)]

\* _ltf_flip_vs_htf for one timeframe: its last break went against the 4H
\* trend, and the one before, if any, with it.
FlippedOn(v, f) ==
    LET htf == v.trend["4h"]
        bs  == v.breaks[f]
    IN  /\ htf # "undefined" /\ v.trend[f] # "undefined" /\ v.trend[f] # htf
        /\ bs # << >> /\ LastBreak(bs).dir = v.trend[f]
        /\ Len(bs) >= 2 => bs[Len(bs) - 1].dir = htf

\* _inducement_check: liquidity on the other side of the latest 4H break was
\* taken, last touched before it.
Induced(v) ==
    LET bs == v.breaks["4h"]
    IN  /\ bs # << >>
        /\ \E l \in v.levels :
              /\ l.frame = "4h" /\ l.swept /\ l.last < LastBreak(bs).at
              /\ l.type = IF LastBreak(bs).dir = "bearish" THEN "bsl" ELSE "ssl"

\* _wick_into_liquidity: the level types the candle's wick tapped, of the most
\* touches; the buy side comes first in the list and wins a tie.
Tapped(v, c) ==
    LET taps == {l \in v.levels :
                    /\ l.frame = "15m" /\ ~l.swept
                    /\ \/ l.type = "bsl" /\ c.high > l.price /\ c.close < l.price
                       \/ l.type = "ssl" /\ c.low < l.price /\ c.close > l.price}
        most == {l \in taps : \A k \in taps : k.touches <= l.touches}
    IN  {l.type : l \in most}
TapType(v, c) == IF "bsl" \in Tapped(v, c) THEN "bsl" ELSE "ssl"

\* _extract_confluences.
Tags(v, c) ==
    LET want == IF SideOf(v) = "long" THEN "bullish" ELSE "bearish"
        Near(p) == Away(p, c.close) * 1000 <= 15 * c.close
        facts ==
            [htf_4h_aligned   |-> v.trend["4h"] = want,
             htf_1h_aligned   |-> v.trend["1h"] = want,
             ltf_15m_aligned  |-> v.trend["15m"] = want,
             conf_high        |-> Reconciled(v)[2] = "high",
             ob_aligned_near  |-> \E b \in v.blocks : b.dir = want /\ Near(b.price),
             fvg_aligned      |-> want \in v.gaps,
             impulse_aligned  |-> v.impulse.size \in {"big", "extreme"}
                                  /\ v.impulse.dir = IF SideOf(v) = "long" THEN "bull" ELSE "bear",
             wick_tap_aligned |-> Tapped(v, c) # {}
                                  /\ TapType(v, c) = IF SideOf(v) = "long" THEN "ssl" ELSE "bsl",
             inducement       |-> Induced(v),
             structure_flip   |-> \E f \in Frames \ {"4h"} : FlippedOn(v, f)]
    IN  IF SideOf(v) = "undefined" THEN {} ELSE {t \in DOMAIN facts : facts[t]}

-----------------------------------------------------------------------------
(* The replay.                                                             *)

\* The same idea as the last emission: its direction, an entry within 0.5%,
\* within the window.
Same(play, at) ==
    /\ emissions # << >>
    /\ LET last == emissions[Len(emissions)]
       IN  /\ at - last.at <= DedupBars /\ play.dir = last.dir
           /\ Away(play.entry, last.entry) * 1000 <= 5 * last.entry

Emission(p, at) ==
    [at |-> at, dir |-> p.dir, entry |-> p.entry, sl |-> p.sl, tp |-> p.tp, firsts |-> p.firsts]

\* _load_candles of a replay: what opens at the time or before, so that the
\* candle that only opens then is seen closed.
Visible(cs, t) == SubSeq(cs, 1, t)

\* _build_snapshot: the price is the close of the last 5m candle.
CurrentPrice(cs) == cs[Len(cs)].close

\* A 15m bar of iter_emissions_for_pair.  A snapshot that raises is skipped.
TdBar ==
    /\ Len(tape) < LastTdBar
    /\ \E c \in TdCandles :
          /\ tape' = Append(tape, c)
          /\ \/ view' = {} /\ UNCHANGED emissions
             \/ \E v \in TdViews :
                   LET plays == {p \in Triplet(v, CurrentPrice(Visible(tape', Len(tape')))) :
                                    ~Same(p, Len(tape'))}
                   IN  /\ view' = {v}
                       /\ \/ plays = {} /\ UNCHANGED emissions
                          \/ \E p \in plays : emissions' = Append(emissions, Emission(p, Len(tape')))

\* A candle after the window (run_simulator).
TdCandle ==
    /\ Len(tape) \in LastTdBar..(MaxTdBars - 1)
    /\ \E c \in TdCandles : tape' = Append(tape, c)
    /\ view' = {} /\ UNCHANGED emissions

TdNext == TdBar \/ TdCandle

TdSpec == TdInit /\ [][TdNext]_tdVars

StoppedOut(e, c) == IF e.dir = "long" THEN c.low <= e.sl ELSE c.high >= e.sl
TookProfit(e, c) == IF e.dir = "long" THEN c.high >= e.tp ELSE c.low <= e.tp

\* simulate_fill: the limit order rests from the candle after the bar, and
\* what follows the candle that fills it decides, the stop before the target.
Outcome(e, cs) ==
    LET Late(i) == i > e.at + FillBars
        ends    == {i \in (e.at + 1)..Len(cs) :
                       Late(i) \/ (cs[i].low <= e.entry /\ e.entry <= cs[i].high)}
        exits   == {i \in (Min(ends) + 1)..Len(cs) :
                       Late(i) \/ StoppedOut(e, cs[i]) \/ TookProfit(e, cs[i])}
        Exit(what, i) == [outcome |-> what, exit |-> i]
    IN  CASE ends = {}                      -> Exit("unfilled_timeout", 0)
          [] ends # {} /\ Late(Min(ends))   -> Exit("unfilled_timeout", Min(ends))
          [] ends # {} /\ ~Late(Min(ends)) /\ exits = {} -> Exit("timeout", Len(cs))
          [] OTHER -> Exit(CASE Late(Min(exits)) -> "timeout"
                             [] ~Late(Min(exits)) /\ StoppedOut(e, cs[Min(exits)]) -> "sl"
                             [] OTHER -> "tp", Min(exits))

\* _trade_pnl_r, times the risk: what the emission made.
Made(e, cs) ==
    LET o    == Outcome(e, cs)
        risk == Away(e.entry, e.sl)
    IN  CASE o.outcome = "unfilled_timeout" -> 0
          [] o.outcome = "sl" -> -risk
          [] o.outcome = "tp" -> Away(e.tp, e.entry)
          [] OTHER -> IF e.dir = "long" THEN cs[o.exit].close - e.entry ELSE e.entry - cs[o.exit].close

-----------------------------------------------------------------------------
(* Properties.                                                             *)

\* What the branches written for either side make of a market turned upside
\* down about the price.
Upended == [bullish |-> "bearish", bearish |-> "bullish", undefined |-> "undefined",
             long |-> "short", short |-> "long", bsl |-> "ssl", ssl |-> "bsl",
             bull |-> "bear", bear |-> "bull", doji |-> "doji"]

TurnedBreak(b) == [b EXCEPT !.dir = Upended[b.dir]]
TurnedBlock(b, axis) == [b EXCEPT !.price = 2 * axis - b.price, !.dir = Upended[b.dir]]
TurnedLevel(l, axis) == [l EXCEPT !.price = 2 * axis - l.price, !.type = Upended[l.type]]

TurnedView(v, axis) ==
    [v EXCEPT
       !.trend   = [f \in Frames |-> Upended[v.trend[f]]],
       !.breaks  = [f \in Frames |-> [i \in DOMAIN v.breaks[f] |-> TurnedBreak(v.breaks[f][i])]],
       !.levels  = {TurnedLevel(l, axis) : l \in v.levels},
       !.lows    = {2 * axis - p : p \in v.highs},
       !.highs   = {2 * axis - p : p \in v.lows},
       !.blocks  = {TurnedBlock(b, axis) : b \in v.blocks},
       !.gaps    = {Upended[g] : g \in v.gaps},
       !.impulse = [v.impulse EXCEPT !.dir = Upended[v.impulse.dir]]]

TurnedCandle(c) == [low |-> 2 * c.close - c.high, high |-> 2 * c.close - c.low, close |-> c.close]

TurnedPlay(p, axis) ==
    LET Turn(x) == 2 * axis - x
    IN  [dir |-> Upended[p.dir], entry |-> Turn(p.entry), sl |-> Turn(p.sl), tp |-> Turn(p.tp),
         firsts |-> {Turn(x) : x \in p.firsts}]

\* A market turned upside down has the play and the tags turned upside down:
\* the branches for long and short of the brief and of the replay agree
\* (topdown_snapshot.py 219-290 and 529-628, backtest_topdown.py 60-135).  The
\* exception is a wick that taps levels on both sides of as many touches.
PlaysMirror ==
    \A v \in view :
        LET c == tape[Len(tape)]
            w == TurnedView(v, c.close)
        IN  /\ Triplet(w, c.close) = {TurnedPlay(p, c.close) : p \in Triplet(v, c.close)}
            /\ Cardinality(Tapped(v, c)) < 2 => Tags(w, TurnedCandle(c)) = Tags(v, c)

\* Every emission rests on the far side of the price from its target, with
\* its stop beyond it and any first target between the price and the last one,
\* nearer than the 1.5 risks of the last (topdown_snapshot.py 529-628 and
\* 859-926).
EmissionsOrdered ==
    \A i \in DOMAIN emissions :
        LET e == emissions[i]
            p == tape[e.at].close
        IN  /\ \/ e.dir = "long"  /\ e.sl < e.entry /\ e.entry < p /\ p < e.tp
               \/ e.dir = "short" /\ e.tp < p /\ p < e.entry /\ e.entry < e.sl
            /\ \A f \in e.firsts : Away(f, e.entry) * 2 < 3 * Away(e.entry, e.sl)
                                   /\ Away(f, e.tp) < Away(p, e.tp)

\* Of two emissions in a row of one side within the window, the second moved
\* (backtest_topdown.py 507-513).
EmissionsApart ==
    \A i \in 2..Len(emissions) :
        LET a == emissions[i - 1]
            b == emissions[i]
        IN  (a.dir = b.dir /\ b.at - a.at <= DedupBars) => Away(a.entry, b.entry) * 1000 > 5 * a.entry

\* Once the window of an emission has passed, or its stop or target was hit,
\* no later candle changes what became of it or what it made (simulate_fill and
\* _trade_pnl_r, 538-654 and 834-863).
Final(e, cs) == Outcome(e, cs).outcome \in {"tp", "sl"} \/ Len(cs) > e.at + FillBars
FinalStands ==
    \A i \in DOMAIN emissions :
        Final(emissions[i], tape) => /\ Outcome(emissions[i], tape') = Outcome(emissions[i], tape)
                                     /\ Made(emissions[i], tape') = Made(emissions[i], tape)
OutcomesStand == [][FinalStands]_tdVars

\* Violated: the same idea may be told twice in the window when another came
\* between the two ("Mirrors the production 1h dedup cache", 464-466).
IdeasOnce ==
    \A i, j \in DOMAIN emissions :
        (i < j /\ emissions[i].dir = emissions[j].dir /\ emissions[j].at - emissions[i].at <= DedupBars) =>
            Away(emissions[i].entry, emissions[j].entry) * 1000 > 5 * emissions[i].entry

\* Violated: a trade that times out may lose more than its risk, for the
\* candle that fills it and the one past the deadline are not held against the
\* stop ("SL: -1 R", 837).
LossIsRisk == \A i \in DOMAIN emissions : Made(emissions[i], tape) >= -Away(emissions[i].entry, emissions[i].sl)

\* Violated: liquidity taken against the 4H break counts for a play of either
\* side ("All are direction-aligned", 43-44).
TagsAlign ==
    \A v \in view : ("inducement" \in Tags(v, tape[Len(tape)])) =>
        LastBreak(v.breaks["4h"]).dir = IF SideOf(v) = "long" THEN "bullish" ELSE "bearish"
=============================================================================
