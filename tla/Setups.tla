------------------------------- MODULE Setups -------------------------------
(***************************************************************************)
(* The setups evaluated on a confirmed candle (strategy_service/setups.py, *)
(* quick_setups.py and StrategyService._iterate_setups): A after a sweep   *)
(* and a change of character, B on a break with a gap, F on a break, G on  *)
(* a breaker block, and the quick setup D with its cooldown; and their     *)
(* geometry: where entry, stop and take profits lie, and which order block *)
(* a setup is placed on.                                                   *)
(*                                                                         *)
(* Prices are integers; ratios and percentages are numerators over RRScale *)
(* and PctScale, entry depths over DepthScale.  Directions are "bullish"   *)
(* and "bearish"; what mirrors between them is written with Side.  An      *)
(* order block is [dir, low, bodyLow, bodyHigh, high, volume, quality, at],*)
(* quality standing for the weighted score without its rejections.         *)
(*                                                                         *)
(* A market is what the detectors hand over for one candle.  Its breaks,   *)
(* blocks, gaps and sweeps are sequences in the detectors' order; "at" is  *)
(* the bar of an event, and market.bar the bar of the candle.              *)
(***************************************************************************)
EXTENDS Integers, Sequences, SequencesExt

CONSTANTS
    RRScale, PctScale, DepthScale,
    Tp1RR,          \* TP1_RR_RATIO
    Tp2RR(_),       \* SETUP_TP2_RR
    MinRR,          \* MIN_RISK_REWARD
    EarlyExitRR,    \* GEOMETRY_CASCADE_EARLY_EXIT_RR
    MinRiskPct, MaxSlPct,
    MinSeparation,  \* STRUCTURAL_TP_MIN_SEPARATION_PCT
    Depths(_),      \* GEOMETRY_CASCADE_ENTRIES
    MinBodyPct, MaxFvgGap

ASSUME ScaleAssumption ==
    /\ RRScale \in Nat \ {0} /\ PctScale \in Nat \ {0} /\ DepthScale \in Nat \ {0}
    /\ Tp1RR \in Nat \ {0} /\ MinRR \in Nat \ {0} /\ EarlyExitRR >= MinRR
    /\ MinRiskPct \in Nat /\ MaxSlPct >= MinRiskPct

\* The types of the cascade; their entries lie within the zone.
SwingTypes == {"a", "b", "f", "g"}
ASSUME EntriesAssumption ==
    \A t \in SwingTypes : Depths(t) \in Seq(0..DepthScale) /\ Tp2RR(t) \in Nat

Side(dir)         == IF dir = "bullish" THEN 1 ELSE -1
Dist(a, b)        == IF a >= b THEN a - b ELSE b - a
Past(dir, a, b)   == Side(dir) * (a - b) > 0      \* a lies beyond b
Outer(dir, a, b)  == IF Past(dir, b, a) THEN b ELSE a
Wider(a, b)       == IF a >= b THEN a ELSE b
Tighter(a, b)     == IF a >= b THEN b ELSE a
Wick(ob, dir)     == IF dir = "bullish" THEN ob.low ELSE ob.high
BodyMid(ob)       == (ob.bodyLow + ob.bodyHigh) \div 2

\* The price a depth of the way into a zone, seen from its far end.
Into(low, high, dir, depth) ==
    IF dir = "bullish" THEN low + ((high - low) * depth) \div DepthScale
                       ELSE high - ((high - low) * depth) \div DepthScale

PctAtMost(part, whole, pct)  == part * PctScale <= pct * whole
RRAtLeast(entry, sl, tp, rr) == Dist(tp, entry) * RRScale >= rr * Dist(entry, sl)

-----------------------------------------------------------------------------
(* Take profits (_calculate_tp_levels).                                    *)

FixedTp(entry, sl, dir, rr) == entry + Side(dir) * ((Dist(entry, sl) * rr) \div RRScale)

\* The structural levels far enough beyond the entry.
Targets(entry, dir, levels) ==
    {p \in levels : Side(dir) * (p - entry) * PctScale > entry * MinSeparation}

NearestOf(dir, prices) == CHOOSE p \in prices : \A q \in prices : ~Past(dir, p, q)

TpLevels(type, entry, sl, dir, levels) ==
    LET fixed1 == FixedTp(entry, sl, dir, Tp1RR)
        fixed2 == FixedTp(entry, sl, dir, Tp2RR(type))
        near   == {p \in Targets(entry, dir, levels) : RRAtLeast(entry, sl, p, Tp1RR)}
    IN  IF entry = sl \/ near = {} THEN [tp1 |-> fixed1, tp2 |-> fixed2]
        ELSE LET tp1    == NearestOf(dir, near)
                 beyond == {p \in near : Past(dir, p, tp1)}
                 struct == IF beyond = {} THEN fixed2 ELSE NearestOf(dir, beyond)
             IN  [tp1 |-> Outer(dir, tp1, fixed1), tp2 |-> Outer(dir, struct, fixed2)]

-----------------------------------------------------------------------------
(* The cascade over entries and stops (_cascade_geometry).                 *)

Risky(entry, sl) == \/ ~PctAtMost(Dist(entry, sl), entry, MaxSlPct)
                    \/ Dist(entry, sl) * PctScale < MinRiskPct * entry

\* The stops tried for an entry: the wider of the block's wick and the
\* volatility floor, and the tighter one when that is too far.
Stops(entry, ob, dir, floor) ==
    LET wick    == Dist(entry, Wick(ob, dir))
        primary == Wider(wick, floor)
        at(d)   == entry - Side(dir) * d
    IN  <<at(primary)>> \o
        (IF floor > 0 /\ ~PctAtMost(primary, entry, MaxSlPct)
         THEN <<at(Tighter(wick, floor))>> ELSE <<>>)

\* The combinations of the i-th entry.
TriedAt(type, ob, dir, low, high, floor, i) ==
    LET entry == Into(low, high, dir, Depths(type)[i])
    IN  IF entry <= 0 THEN <<>>
        ELSE [j \in DOMAIN Stops(entry, ob, dir, floor) |->
                 [entry |-> entry, sl |-> Stops(entry, ob, dir, floor)[j], rank |-> i - 1]]

\* Every combination in the order the loop tries them.
Combinations(type, ob, dir, low, high, floor) ==
    LET upTo[i \in 0..Len(Depths(type))] ==
            IF i = 0 THEN <<>> ELSE upTo[i - 1] \o TriedAt(type, ob, dir, low, high, floor, i)
    IN  upTo[Len(Depths(type))]

\* a pays more for its risk than b.
Better(a, b) == Dist(a.tp2, a.entry) * Dist(b.entry, b.sl) >
                Dist(b.tp2, b.entry) * Dist(a.entry, a.sl)

Priced(type, c, dir, levels) ==
    LET tps == TpLevels(type, c.entry, c.sl, dir, levels)
    IN  [entry |-> c.entry, sl |-> c.sl, rank |-> c.rank, tp1 |-> tps.tp1, tp2 |-> tps.tp2]

Passes(c, dir) ==
    /\ Past(dir, c.entry, c.sl)
    /\ ~Risky(c.entry, c.sl)
    /\ RRAtLeast(c.entry, c.sl, c.tp2, MinRR)

Excellent(c) == RRAtLeast(c.entry, c.sl, c.tp2, EarlyExitRR)

NoGeometry == [entry |-> 0, sl |-> 0, rank |-> 0, tp1 |-> 0, tp2 |-> 0]

\* Mutant of Taken: the last passing combination wins.
TakenLast(best, c, dir) == IF Passes(c, dir) THEN c ELSE best

\* What one turn of the loop leaves as the best so far.
Taken(best, c, dir) ==
    IF best # NoGeometry /\ Excellent(best) THEN best
    ELSE IF Passes(c, dir) /\ (best = NoGeometry \/ Excellent(c) \/ Better(c, best)) THEN c
    ELSE best

\* The loop over combinations.
BestOf(all, type, dir, levels) ==
    LET best[i \in 0..Len(all)] ==
            IF i = 0 THEN NoGeometry ELSE Taken(best[i - 1], Priced(type, all[i], dir, levels), dir)
    IN  best[Len(all)]

Cascade(type, ob, dir, low, high, floor, levels) ==
    IF high <= low THEN NoGeometry
    ELSE BestOf(Combinations(type, ob, dir, low, high, floor), type, dir, levels)

-----------------------------------------------------------------------------
(* Choosing the block.                                                     *)

Near(price, at, pct) == price > 0 /\ PctAtMost(Dist(price, at), price, pct)

\* _score_ob does not reject the block.
Scored(ob, price, maxDistance) ==
    /\ (ob.bodyHigh - ob.bodyLow) * PctScale >= MinBodyPct * ob.bodyLow
    /\ Near(price, BodyMid(ob), maxDistance)

\* _find_best_ob: the first of the blocks with the highest score, as a
\* sequence of at most one.
BestOb(obs, price, maxDistance) ==
    LET ok == {i \in DOMAIN obs : Scored(obs[i], price, maxDistance)}
        top == {i \in ok : \A j \in ok : obs[j].quality <= obs[i].quality}
    IN  IF ok = {} THEN <<>> ELSE <<obs[CHOOSE i \in top : \A j \in top : i <= j]>>

\* _is_fvg_adjacent_to_ob
Adjacent(fvg, ob) ==
    \/ Tighter(fvg.high, ob.high) > Wider(fvg.low, ob.low)
    \/ PctAtMost(2 * Tighter(Dist(fvg.low, ob.high), Dist(ob.low, fvg.high)),
                 ob.high + ob.low, MaxFvgGap)

\* The pair setup B trades: the block with the most volume, then the newest.
BestPair(obs, fvgs, price, maxDistance) ==
    LET pairs == {p \in (DOMAIN obs) \X (DOMAIN fvgs) :
                     Near(price, BodyMid(obs[p[1]]), maxDistance) /\ Adjacent(fvgs[p[2]], obs[p[1]])}
        Above(p, q) == \/ obs[p[1]].volume > obs[q[1]].volume
                       \/ obs[p[1]].volume = obs[q[1]].volume /\ obs[p[1]].at > obs[q[1]].at
        top == {p \in pairs : ~\E q \in pairs : Above(q, p)}
        first == CHOOSE p \in top : \A q \in top : p[1] < q[1] \/ (p[1] = q[1] /\ p[2] <= q[2])
    IN  IF pairs = {} THEN <<>> ELSE <<obs[first[1]], fvgs[first[2]]>>

-----------------------------------------------------------------------------

CONSTANTS
    Markets,            \* the markets a candle may show
    Follow(_),          \* the markets that may come after one
    Allowed,            \* ENABLED_SETUPS and SHADOW_MODE_SETUPS
    MinTouches, MaxSweepGap,        \* setup A
    MaxBreakAge(_),                 \* SETUP_B/F_MAX_BOS_AGE_CANDLES
    MaxObGap, MinObScore,           \* setup F
    ObDistance, QuickObDistance, EntryDistance(_),
    QuickDepth,                     \* SETUP_D_ENTRY_PCT
    PdAsConfluence, PdOverride,     \* the premium/discount gate
    FloorFactor,                    \* ATR_SL_FLOOR_MULTIPLIER
    MinAtrPct, MinSpaceR,           \* the expectancy filters
    Cooldown,                       \* QUICK_SETUP_COOLDOWN in candles
    MaxCandles                      \* bound: candles of a behaviour

ASSUME CooldownAssumption == Cooldown \in Nat

\* A block's wicks enclose its body.
Blocks == {b \in [dir : {"bullish", "bearish"}, low : Int, bodyLow : Int, bodyHigh : Int, high : Int,
                  volume : Int, quality : Int, at : Int] :
              b.low <= b.bodyLow /\ b.bodyLow <= b.bodyHigh /\ b.bodyHigh <= b.high}

\* Every market of a behaviour, and what the detectors make of its prices.
Shown == Markets \cup UNION {Follow(m) : m \in Markets}
ASSUME MarketAssumption ==
    /\ \A m \in Shown : Follow(m) \subseteq Shown
    /\ \A m \in Shown :
          /\ m.obs \in Seq(Blocks) /\ m.breakers \in Seq(Blocks)
          /\ m.fvgs \in Seq([dir : {"bullish", "bearish"}, low : Int, high : Int])
          /\ m.levels \subseteq Int /\ IsFiniteSet(m.levels) /\ m.atr \in Nat
    /\ FloorFactor \in Nat

VARIABLES
    market,     \* what the detectors saw at the last candle
    emitted,    \* the setups the candle emitted, in order
    prevOi,     \* _prev_oi: open interest at the last evaluation (0: none)
    lastQuick,  \* _quick_setup_last (0: never)
    candle      \* candles evaluated

setupVars == <<market, emitted, prevOi, lastQuick, candle>>

SetupsInit == market \in Markets /\ emitted = <<>> /\ prevOi = 0 /\ lastQuick = 0 /\ candle = 0

-----------------------------------------------------------------------------
(* Confirmations (_check_volume_confirmation): tags for the record, a tier *)
(* of each being one tag.                                                  *)

OiTag == "oi_delta"

Backs(tag, ob, sweep, m, before) ==
    CASE tag = "ob_volume"  -> ob.volume > 0
      [] tag = "sweep"      -> sweep # <<>> /\ Head(sweep).volume > 0
      [] tag = "oi_cascade" -> Side(ob.dir) * m.flush > 0
      [] tag = "cvd"        -> m.cvdWarm /\ Side(ob.dir) * m.cvd > 0
      [] tag = "funding"    -> Side(ob.dir) * m.funding < 0
      [] tag = OiTag        -> m.oi > 0 /\ before > 0 /\ m.oi # before

Confirmations(ob, sweep, m, before) ==
    {tag \in {"ob_volume", "sweep", "oi_cascade", "cvd", "funding", OiTag} :
        Backs(tag, ob, sweep, m, before)}

\* The call also records the open interest it has seen.
OiAfter(m, before) == IF m.oi > 0 THEN m.oi ELSE before

-----------------------------------------------------------------------------
(* What the evaluators share.                                              *)

\* _check_pd_alignment
PdAligned(m, dir) ==
    /\ ~(dir = "bullish" /\ m.zone = "premium")
    /\ ~(dir = "bearish" /\ m.zone = "discount")

\* The zone counts as a structural confirmation.
ZoneCounts(m, dir) ==
    IF PdAsConfluence THEN PdAligned(m, dir) /\ m.zone \notin {"none", "undefined"}
                      ELSE m.zone # "none"

\* n structural confirmations with the tags pass the zone's gate.
PdPasses(m, dir, n, tags) ==
    \/ PdAsConfluence
    \/ PdAligned(m, dir)
    \/ /\ PdOverride > 0
       /\ n + (IF ZoneCounts(m, dir) THEN 1 ELSE 0) + Cardinality(tags) >= PdOverride

Breaks(m, kinds) == SelectSeq(m.breaks, LAMBDA b : b.type \in kinds)

\* Those of a sequence that are in a set, in order.
Among(things, ok) ==
    LET kept[i \in 0..Len(things)] ==
            IF i = 0 THEN <<>>
            ELSE IF things[i] \in ok THEN Append(kept[i - 1], things[i]) ELSE kept[i - 1]
    IN  kept[Len(things)]
SameSide(things, dir) == Among(things, {x \in ToSet(things) : x.dir = dir})

\* The setup on a block whose zone is entered, as a sequence of at most one.
\* "cost" is what evaluating it recorded.
Placed(type, m, ob, dir, low, high, tags) ==
    LET g == Cascade(type, ob, dir, low, high, m.atr * FloorFactor, m.levels)
    IN  IF g = NoGeometry \/ (type # "g" /\ ~Near(m.price, g.entry, EntryDistance(type))) THEN <<>>
        ELSE <<[type |-> type, dir |-> dir, entry |-> g.entry, sl |-> g.sl,
                tp1 |-> g.tp1, tp2 |-> g.tp2, ob |-> ob, low |-> low, high |-> high, tags |-> tags]>>

NoSetup == [setup |-> <<>>, asked |-> FALSE]

\* An evaluator that reached the confirmations: n structural ones without the
\* zone, and the minimum it demands of them.
Confirmed(type, m, ob, sweep, dir, low, high, n, least, before) ==
    LET tags == Confirmations(ob, sweep, m, before)
        total == n + (IF ZoneCounts(m, dir) THEN 1 ELSE 0)
    IN  [asked |-> TRUE,
         setup |-> IF total >= least /\ PdPasses(m, dir, n, tags)
                   THEN Placed(type, m, ob, dir, low, high, tags) ELSE <<>>]

\* The gate of the zone ahead of the search for a block.
PdBars(m, dir) == ~PdAsConfluence /\ ~PdAligned(m, dir) /\ PdOverride <= 0

-----------------------------------------------------------------------------
(* The evaluators: the setup, and whether the confirmations were asked.    *)

\* The newest sweep of the direction before the break and close to it.
SweepFor(m, choch) ==
    LET ok == {i \in DOMAIN m.sweeps :
                  /\ m.sweeps[i].dir = choch.dir
                  /\ m.sweeps[i].at < choch.at
                  /\ choch.at - m.sweeps[i].at <= MaxSweepGap}
    IN  IF ok = {} THEN <<>> ELSE <<m.sweeps[CHOOSE i \in ok : \A j \in ok : j <= i]>>

\* In the deployed mode "continuation" the break follows the bias.
SetupA(m, before) ==
    LET chochs == Breaks(m, {"choch"})
        choch  == Last(chochs)
        sweep  == SweepFor(m, choch)
        best   == BestOb(SameSide(m.obs, choch.dir), m.price, ObDistance)
    IN  IF \/ m.bias = "undefined" \/ m.sweeps = <<>> \/ chochs = <<>>
           \/ choch.dir # m.bias
           \/ sweep = <<>> \/ Head(sweep).touches < MinTouches
           \/ PdBars(m, choch.dir) \/ best = <<>>
        THEN NoSetup
        ELSE Confirmed("a", m, Head(best), sweep, choch.dir,
                       Head(best).bodyLow, Head(best).bodyHigh, 3, 2, before)

SetupB(m, before) ==
    LET boses == Breaks(m, {"bos"})
        bos   == Last(boses)
        pair  == BestPair(SameSide(m.obs, bos.dir), SameSide(m.fvgs, bos.dir), m.price, ObDistance)
    IN  IF \/ m.bias = "undefined" \/ boses = <<>>
           \/ m.bar - bos.at > MaxBreakAge("b")
           \/ PdBars(m, bos.dir) \/ pair = <<>>
        THEN NoSetup
        ELSE Confirmed("b", m, pair[1], <<>>, bos.dir, pair[2].low, pair[2].high, 3, 2, before)

SetupF(m, before) ==
    LET boses == Breaks(m, {"bos"})
        bos   == Last(boses)
        close == {ob \in ToSet(m.obs) : ob.dir = bos.dir /\ Dist(ob.at, bos.at) <= MaxObGap}
        best  == BestOb(Among(m.obs, close), m.price, ObDistance)
    IN  IF \/ m.bias = "undefined" \/ boses = <<>>
           \/ m.bar - bos.at > MaxBreakAge("f") \/ ~bos.clear
           \/ PdBars(m, bos.dir) \/ best = <<>> \/ Head(best).quality < MinObScore
        THEN NoSetup
        ELSE Confirmed("f", m, Head(best), <<>>, bos.dir,
                       Head(best).bodyLow, Head(best).bodyHigh, 2, 2, before)

SetupG(m, before) ==
    LET best == BestOb(SameSide(m.breakers, m.bias), m.price, ObDistance)
    IN  IF "g" \notin Allowed \/ m.bias = "undefined" \/ best = <<>> \/ PdBars(m, m.bias)
        THEN NoSetup
        ELSE Confirmed("g", m, Head(best), <<>>, m.bias,
                       Head(best).bodyLow, Head(best).bodyHigh, 1, 2, before)

\* The quick setup has one entry, its stop at the wick and no demand on the
\* reward.  Its type names the kind of break.
SetupD(m) ==
    LET break == Last(m.breaks)
        best  == BestOb(SameSide(m.obs, break.dir), m.price, QuickObDistance)
        ob    == Head(best)
        entry == Into(ob.bodyLow, ob.bodyHigh, break.dir, QuickDepth)
        sl    == Wick(ob, break.dir)
        tps   == TpLevels("d", entry, sl, break.dir, m.swings)
    IN  IF \/ m.bias = "undefined" \/ m.breaks = <<>> \/ break.dir # m.bias
           \/ ~PdAsConfluence /\ ~PdAligned(m, break.dir)
           \/ best = <<>> \/ entry = sl \/ Risky(entry, sl)
        THEN <<>>
        ELSE <<[type |-> "d", dir |-> break.dir, entry |-> entry, sl |-> sl, tp1 |-> tps.tp1,
                tp2 |-> tps.tp2, ob |-> ob, low |-> ob.bodyLow, high |-> ob.bodyHigh, tags |-> {}]>>

\* _apply_expectancy_filters: the market moves enough, and the nearest swing
\* the price has not passed leaves room for the trade.
Expected(m, s) ==
    LET ahead == {p \in m.swings : Past(s.dir, p, s.entry) /\ Past(s.dir, p, m.price)}
    IN  /\ m.atr > 0 => m.atr * PctScale >= MinAtrPct * s.entry
        /\ ahead # {} => Dist(NearestOf(s.dir, ahead), s.entry) * RRScale
                             >= MinSpaceR * Dist(s.entry, s.sl)

-----------------------------------------------------------------------------
(* One candle (evaluate_all): the evaluators one after the other.          *)

\* An evaluator's turn, given what the earlier ones left: its setup, if there is
\* one, is kept when its type is allowed and the filters let it through.
Turn(so, answer, m) ==
    [oi |-> IF answer.asked THEN OiAfter(m, so.oi) ELSE so.oi,
     out |-> so.out \o (IF \A s \in ToSet(answer.setup) : s.type \in Allowed /\ Expected(m, s)
                        THEN answer.setup ELSE <<>>)]

SwingsOf(m) ==
    LET a == Turn([oi |-> prevOi, out |-> <<>>], SetupA(m, prevOi), m)
        b == Turn(a, SetupB(m, a.oi), m)
        f == Turn(b, SetupF(m, b.oi), m)
    IN  Turn(f, SetupG(m, f.oi), m)

\* _is_quick_cooldown_active
Cooling(at) == lastQuick # 0 /\ at - lastQuick < Cooldown

Candle(m) ==
    /\ candle < MaxCandles
    /\ candle' = candle + 1
    /\ market' = m
    /\ \E swings \in {SwingsOf(m)} :
       \E quick \in {IF Cooling(candle + 1) \/ m.bias = "undefined" THEN <<>> ELSE SetupD(m)} :
          /\ prevOi' = swings.oi
          /\ lastQuick' = IF quick = <<>> THEN lastQuick ELSE candle + 1
          /\ emitted' = swings.out \o (IF "d" \in Allowed THEN quick ELSE <<>>)

SetupsNext == \E m \in Follow(market) : Candle(m)
SetupsSpec == SetupsInit /\ [][SetupsNext]_setupVars

-----------------------------------------------------------------------------
(* Properties.                                                             *)

\* The combinations of a setup that pass every check of the cascade.
Passing(s) ==
    LET all == Combinations(s.type, s.ob, s.dir, s.low, s.high, market.atr * FloorFactor)
    IN  {c \in {Priced(s.type, all[i], s.dir, market.levels) : i \in DOMAIN all} :
            Passes(c, s.dir)}

\* A setup of the cascade has the best reward of all the combinations that
\* pass, unless it is excellent by itself.
BestGeometry ==
    \A s \in ToSet(emitted) : s.type # "d" =>
        Excellent(s) \/ \A c \in Passing(s) : ~Better(c, s)

\* The stop of a setup entered inside its block is the wick of the block or
\* the volatility floor, whatever the order of the loop.
StopIsStructural ==
    \A s \in ToSet(emitted) : s.type # "b" =>
        s.sl = Wick(s.ob, s.dir) \/ Dist(s.entry, s.sl) = market.atr * FloorFactor

\* A change of open interest backs one of the setups of a candle at most: the
\* evaluation that saw it has moved the reference for those after it.
OiBacksOne ==
    \A i, j \in DOMAIN emitted :
        OiTag \in emitted[i].tags /\ OiTag \in emitted[j].tags => i = j

\* Two quick setups of a pair are a cooldown apart.
QuickApart == [][\A s \in ToSet(emitted') : s.type = "d" /\ lastQuick # 0
                    => candle' - lastQuick >= Cooldown]_setupVars

\* The first take profit, where breakeven is armed, comes before the second.
TakeProfitsOrdered == \A s \in ToSet(emitted) : ~Past(s.dir, s.tp1, s.tp2)
=============================================================================
