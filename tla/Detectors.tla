----------------------------- MODULE Detectors ------------------------------
(***************************************************************************)
(* The detectors of the strategy service on one pair and timeframe: the    *)
(* market structure of a candle window, its confirmed swing points and the *)
(* closes that break them (strategy_service/market_structure.py); order    *)
(* blocks and breakers (order_blocks.py), fair value gaps (fvg.py),        *)
(* liquidity levels and sweeps (liquidity.py), updated from the structure  *)
(* of the candle window (service.py, _iterate_setups); and, beside them,   *)
(* the volume profile of the 4H candles (volume_profile.py).               *)
(*                                                                         *)
(* A window is a sequence of bars with open, close, high, low and volume;  *)
(* the structure knows bars and swings by their position in it.  Bars are  *)
(* numbered from 1; the detectors keep those numbers (timestamps)          *)
(* because the window slides.  An update may be left out: while a campaign *)
(* holds the pair or the bias is undefined the detectors are not called.   *)
(***************************************************************************)
EXTENDS Integers, Sequences, SequencesExt, FiniteSets, FiniteSetsExt

CONSTANTS
    SwingLookback,      \* bars on each side that confirm a swing
    BosMargin, BosScale \* a close breaks a level by BosMargin / BosScale of it

ASSUME StructureAssumption ==
    /\ SwingLookback \in Nat \ {0}
    /\ BosScale \in Nat \ {0} /\ BosMargin \in Nat \ {0}

-----------------------------------------------------------------------------
(* Swings (_find_swing_points).                                            *)

\* Mutant of Around: only the bars before count.
AroundBefore(i) == (i - SwingLookback)..i

\* The positions a swing at position i is compared with.
Around(i) == (i - SwingLookback)..(i + SwingLookback)

Inner(w) == (SwingLookback + 1)..(Len(w) - SwingLookback)

\* Mutant of SwingHighs: only the latest swing high is kept.
SwingHighsLatest(w) ==
    LET highs == {i \in Inner(w) : \A j \in Around(i) \ {i} : w[j].high < w[i].high}
    IN  {i \in highs : \A j \in highs : j <= i}

SwingHighs(w) ==
    {i \in Inner(w) : \A j \in Around(i) \ {i} : w[j].high < w[i].high}
SwingLows(w) ==
    {i \in Inner(w) : \A j \in Around(i) \ {i} : w[j].low > w[i].low}

-----------------------------------------------------------------------------
(* Breaks (_detect_structure_breaks).                                      *)

Level(w, swing) == IF swing.type = "high" THEN w[swing.index].high ELSE w[swing.index].low

Swings(w) == [type : {"high"}, index : SwingHighs(w)] \cup
             [type : {"low"}, index : SwingLows(w)]

ClosesBeyond(w, i, swing) ==
    IF swing.type = "high"
    THEN w[i].close * BosScale >= Level(w, swing) * (BosScale + BosMargin)
    ELSE w[i].close * BosScale <= Level(w, swing) * (BosScale - BosMargin)

\* The swings a bar breaks: formed before it and not broken yet.
Broken(w, i, used) ==
    {s \in Swings(w) \ used : s.index < i /\ ClosesBeyond(w, i, s)}

Distance(w, i, s) ==
    LET d == w[i].close - Level(w, s) IN IF d >= 0 THEN d ELSE -d

\* The most distant level; of equals the first high, else the first low.
Foremost(w, i, candidates) ==
    LET far == {s \in candidates : \A t \in candidates : Distance(w, i, t) <= Distance(w, i, s)}
        top == IF \E s \in far : s.type = "high" THEN {s \in far : s.type = "high"} ELSE far
    IN  CHOOSE s \in top : \A t \in top : s.index <= t.index

Direction(swing) == IF swing.type = "high" THEN "bullish" ELSE "bearish"

\* One bar of the walk: at most one break, and every level it passed is used.
Walk(w, st, i) ==
    LET broken == Broken(w, i, st.used)
        best   == Foremost(w, i, broken)
    IN  IF broken = {} THEN st
        ELSE [used   |-> st.used \cup broken,
              trend  |-> Direction(best),
              breaks |-> Append(st.breaks,
                           [at |-> i, swing |-> best.index, dir |-> Direction(best),
                            kind |-> IF st.trend \in {"undefined", Direction(best)}
                                     THEN "bos" ELSE "choch"])]

NoStructure == [used |-> {}, trend |-> "undefined", breaks |-> <<>>]

\* The structure of a window: its breaks in order and the trend of the last.
Analyze(w) ==
    LET walked[i \in 0..Len(w)] == IF i = 0 THEN NoStructure ELSE Walk(w, walked[i - 1], i)
    IN  IF Len(w) < 2 * SwingLookback + 1 THEN NoStructure ELSE walked[Len(w)]

\* A break lies after the bars that confirm the swing it breaks.
AfterConfirmation(w) ==
    \A k \in DOMAIN Analyze(w).breaks :
        LET b == Analyze(w).breaks[k] IN b.at > b.swing + SwingLookback

-----------------------------------------------------------------------------
(* The detectors that are updated with the structure.                      *)

CONSTANTS
    MarketBars,             \* the bars the market may show
    LastBarNo,              \* bound: bars of a behaviour
    WindowSize,             \* candles handed to the detectors
    ObLookback,             \* how far before a break its block is looked for
    ObMaxAge, FvgMaxAge, SweepMaxAge,
    VolumePeriods, VolumeNum, VolumeDen,  \* a loud bar: volume >= num/den of the average
    MinGap,                 \* smallest fair value gap
    LevelTolerance,         \* swings this close are one liquidity level
    MaxMissed               \* bound: updates left out

\* Bars have positive prices and close within their range.
ASSUME BarsAssumption ==
    /\ MarketBars \subseteq [open : Nat, close : Nat, high : Nat, low : Nat, volume : Nat]
    /\ \A b \in MarketBars : 0 < b.low /\ b.low <= b.close /\ b.close <= b.high
ASSUME WindowAssumption == WindowSize \in Nat \ {0}

VARIABLES
    bars,       \* every bar so far
    obs,        \* _active_obs
    breakers,   \* _breaker_blocks
    fvgs,       \* _active_fvgs
    levels,     \* _levels
    sweeps,     \* _sweeps
    missed,     \* updates left out so far
    seenBars    \* ghost: the bars an update has seen

detVars == <<bars, obs, breakers, fvgs, levels, sweeps, missed, seenBars>>

DetInit == /\ bars = <<>> /\ obs = {} /\ breakers = {} /\ fvgs = {}
           /\ levels = {} /\ sweeps = {} /\ missed = 0 /\ seenBars = {}

FirstNo(all) == IF Len(all) > WindowSize THEN Len(all) - WindowSize + 1 ELSE 1
WindowOf(all) == SubSeq(all, FirstNo(all), Len(all))
InWindow(all) == FirstNo(all)..Len(all)

\* A bar whose volume stands out from the average of the last periods.
Loud(all, n) ==
    LET w == {m \in InWindow(all) : m > Len(all) - VolumePeriods}
    IN  all[n].volume * Cardinality(w) * VolumeDen
            >= VolumeNum * MapThenSumSet(LAMBDA m : all[m].volume, w)

-----------------------------------------------------------------------------
(* Order blocks.                                                           *)

Larger(a, b) == IF a >= b THEN a ELSE b
Smaller(a, b) == IF a <= b THEN a ELSE b

\* The last loud bar against the break, at most ObLookback bars before it.
ObCandidates(all, brk) ==
    {n \in Larger(FirstNo(all), brk.at - ObLookback)..(brk.at - 1) :
        /\ IF brk.dir = "bullish" THEN all[n].close < all[n].open
                                  ELSE all[n].close >= all[n].open
        /\ Loud(all, n)}

Block(all, n, brk) ==
    [at |-> n, dir |-> brk.dir, high |-> all[n].high, low |-> all[n].low,
     bodyHigh |-> Larger(all[n].open, all[n].close),
     bodyLow |-> Smaller(all[n].open, all[n].close), brk |-> brk.at, retests |-> 0]

\* The breaks of the window with their bar numbers.
BreaksOf(all) ==
    LET found == Analyze(WindowOf(all)).breaks
    IN  [k \in 1..Len(found) |-> [found[k] EXCEPT !.at = @ + FirstNo(all) - 1]]

\* A break adds its block unless a block of that bar is tracked already.
WithBlock(all, tracked, brk) ==
    LET cand == ObCandidates(all, brk)
    IN  IF cand = {} \/ \E ob \in tracked : ob.at = Max(cand) THEN tracked
        ELSE tracked \cup {Block(all, Max(cand), brk)}

WithBlocks(all, breaks, known) ==
    LET with[k \in 0..Len(breaks)] ==
            IF k = 0 THEN known ELSE WithBlock(all, with[k - 1], breaks[k])
    IN  with[Len(breaks)]

ClosesThrough(bar, ob) ==
    IF ob.dir = "bullish" THEN bar.close < ob.low ELSE bar.close > ob.high

\* The bars of the window after the break that close through the block.
Mitigating(all, ob) == {n \in InWindow(all) : n > ob.brk /\ ClosesThrough(all[n], ob)}

\* The bars of the window after the break that reach into the body and close
\* before the far end.
Retests(all, ob) ==
    Cardinality({n \in InWindow(all) : n > ob.brk /\
        IF ob.dir = "bullish" THEN all[n].low <= ob.bodyHigh /\ all[n].close > ob.low
                              ELSE all[n].high >= ob.bodyLow /\ all[n].close < ob.high})

Breaker(all, ob) ==
    [ob EXCEPT !.dir = IF @ = "bullish" THEN "bearish" ELSE "bullish",
               !.brk = Min(Mitigating(all, ob)), !.retests = 0]

Expired(all, at, limit) == Len(all) - at > limit

\* Mutant of ObsAfter: mitigated blocks stay.
ObsAfterKept(all, found) ==
    {[ob EXCEPT !.retests = Retests(all, ob)] :
        ob \in {o \in found : ~Expired(all, o.at, ObMaxAge)}}

\* The blocks after an update: neither mitigated nor expired, retests counted
\* over the window.
ObsAfter(all, found) ==
    {[ob EXCEPT !.retests = Retests(all, ob)] :
        ob \in {o \in found : Mitigating(all, o) = {} /\ ~Expired(all, o.at, ObMaxAge)}}

BreakersAfter(all, found) ==
    LET new == {Breaker(all, o) : o \in {x \in found : Mitigating(all, x) # {}}}
    IN  {b \in breakers \cup {n \in new : \A o \in breakers : o.at # n.at} :
            ~Expired(all, b.at, ObMaxAge)}

-----------------------------------------------------------------------------
(* Fair value gaps.                                                        *)

Gap(at, dir, low, high) == [at |-> at, dir |-> dir, low |-> low, high |-> high, filled |-> 0]

GapsFound(all) ==
    {g \in {Gap(n, "bullish", all[n - 1].high, all[n + 1].low) :
              n \in (FirstNo(all) + 1)..(Len(all) - 1)} \cup
           {Gap(n, "bearish", all[n + 1].high, all[n - 1].low) :
              n \in (FirstNo(all) + 1)..(Len(all) - 1)} : g.high - g.low >= MinGap}

\* How far one bar reaches into a gap.
Penetration(bar, g) ==
    IF g.dir = "bullish"
    THEN IF bar.low <= g.high THEN g.high - Larger(bar.low, g.low) ELSE 0
    ELSE IF bar.high >= g.low THEN Smaller(bar.high, g.high) - g.low ELSE 0

\* The deepest reach of the window's bars after the gap's middle bar.
Filled(all, g) ==
    Max({0} \cup {Penetration(all[n], g) : n \in {m \in InWindow(all) : m > g.at}})

FvgsAfter(all) ==
    LET known  == {<<g.at, g.dir>> : g \in fvgs}
        gaps   == fvgs \cup {g \in GapsFound(all) : <<g.at, g.dir>> \notin known}
        filled == {[g EXCEPT !.filled = Filled(all, g)] : g \in gaps}
    IN  {g \in filled : g.filled < g.high - g.low /\ ~Expired(all, g.at, FvgMaxAge)}

-----------------------------------------------------------------------------
(* Liquidity.                                                              *)

\* Swings joined by steps of at most the tolerance, at least two of them.
Clusters(priced) ==
    LET joined(p, q) == \A x \in {r.price : r \in priced} :
            LET above == {r.price : r \in {s \in priced : s.price > x}}
            IN  (p.price <= x /\ x < q.price) => Min(above) - x <= LevelTolerance
        cluster(p) == {q \in priced : joined(p, q) /\ joined(q, p)}
    IN  {c \in {cluster(p) : p \in priced} : Cardinality(c) >= 2}

Mean(c) == MapThenSumSet(LAMBDA p : p.price, c) \div Cardinality(c)

LevelsFound(all) ==
    LET w == WindowOf(all)
        from == FirstNo(all) - 1
        highs == {[at |-> i + from, price |-> w[i].high] : i \in SwingHighs(w)}
        lows == {[at |-> i + from, price |-> w[i].low] : i \in SwingLows(w)}
        made(c, kind) == [price |-> Mean(c), kind |-> kind, swept |-> FALSE,
                          formed |-> Max({p.at : p \in c})]
    IN  {made(c, "bsl") : c \in Clusters(highs)} \cup {made(c, "ssl") : c \in Clusters(lows)}

\* The swept flag of the first old level that matches.
Carried(l) ==
    LET near == {o \in levels : o.kind = l.kind /\ o.price - l.price <= LevelTolerance
                                /\ l.price - o.price <= LevelTolerance}
    IN  near # {} /\ (CHOOSE o \in near : \A p \in near : o.price <= p.price).swept

\* The loud bars after the level formed that pierce it and close back.
Sweeping(all, l) ==
    {n \in InWindow(all) : n > l.formed /\ Loud(all, n) /\
        IF l.kind = "bsl" THEN all[n].high > l.price /\ all[n].close < l.price
                          ELSE all[n].low < l.price /\ all[n].close > l.price}

LevelsAfter(all) ==
    {[l EXCEPT !.swept = Carried(l) \/ Sweeping(all, l) # {}] : l \in LevelsFound(all)}

SweepsAfter(all) ==
    LET fresh == {l \in LevelsFound(all) : ~Carried(l) /\ Sweeping(all, l) # {}}
        made  == {[at |-> Min(Sweeping(all, l)), kind |-> l.kind, level |-> l.price] : l \in fresh}
    IN  {s \in sweeps \cup {m \in made : \A o \in sweeps : o.at # m.at} :
            ~Expired(all, s.at, SweepMaxAge)}

-----------------------------------------------------------------------------
(* A candle and its update.                                                *)

UpdateDetectors(all) ==
    \E found \in {WithBlocks(all, BreaksOf(all), obs)} :
        /\ obs' = ObsAfter(all, found)
        /\ breakers' = BreakersAfter(all, found)
        /\ fvgs' = FvgsAfter(all)
        /\ levels' = LevelsAfter(all)
        /\ sweeps' = SweepsAfter(all)
        /\ seenBars' = seenBars \cup InWindow(all)
        /\ UNCHANGED missed

LeaveOut == /\ missed < MaxMissed /\ missed' = missed + 1
            /\ UNCHANGED <<obs, breakers, fvgs, levels, sweeps, seenBars>>

DetCandle ==
    /\ Len(bars) < LastBarNo
    /\ \E b \in MarketBars :
         /\ bars' = Append(bars, b)
         /\ UpdateDetectors(Append(bars, b)) \/ LeaveOut

DetNext == DetCandle
DetSpec == DetInit /\ [][DetNext]_detVars

-----------------------------------------------------------------------------
(* Properties.                                                             *)

\* No lookahead: a structure break lies after the bars that confirm its swing.
BreaksAfterConfirmation == AfterConfirmation(WindowOf(bars))

\* The breaks by bar number, without the label.
Marks(all) == {[at |-> b.at, swing |-> b.swing + FirstNo(all) - 1, dir |-> b.dir] : b \in ToSet(BreaksOf(all))}

\* No repainting while the window slides: the structure is analyzed anew for
\* every candle, yet a bar of the past never turns into a break, and a break
\* keeps its bar, its swing and its direction for as long as the bars that
\* confirm the swing are in the window.  (Its label may turn: the first break
\* of a window is always a bos.)
NothingRepainted ==
    /\ \A b \in Marks(bars') : b.at <= Len(bars) => \E a \in Marks(bars) : a.at = b.at
    /\ \A a \in Marks(bars) : a.swing >= FirstNo(bars') + SwingLookback => a \in Marks(bars')

BreaksStand == [][NothingRepainted]_detVars

\* An active block has not been closed through after its break by any bar an
\* update has seen.
ActiveBlocksHold ==
    \A ob \in obs : \A n \in seenBars : n > ob.brk => ~ClosesThrough(bars[n], ob)

\* An active gap has not been bridged by any one bar an update has seen.
ActiveGapsOpen ==
    \A g \in fvgs : \A n \in seenBars :
        n > g.at => Penetration(bars[n], g) < g.high - g.low

\* A sweep is a bar that took the level and closed back on the other side.
SweepsCloseBack ==
    \A s \in sweeps :
        IF s.kind = "bsl" THEN bars[s.at].high > s.level /\ bars[s.at].close < s.level
                          ELSE bars[s.at].low < s.level /\ bars[s.at].close > s.level

\* "How many times price has wicked into the OB zone": the count of a block
\* that stays active does not go down.  Fails once a retest leaves the window.
RetestsRemembered ==
    [][\A ob \in obs, o \in obs' : (ob.at = o.at /\ ob.brk = o.brk /\ ob.dir = o.dir)
            => o.retests >= ob.retests]_detVars

-----------------------------------------------------------------------------
(* The volume profile: the volume of each candle is spread over the price  *)
(* bins it covers; the point of control, the value area and the nodes of   *)
(* high and low volume are read off the bins.  A bin is BinCount-th of the *)
(* candles' range.  A volume is in 1/Share units, Share a common multiple  *)
(* of the bin counts, so that spreading it evenly is exact.                *)

CONSTANTS
    VpBars,             \* candles: low, high, volume
    BinCount, Share, MinVpCandles,
    AreaNum, AreaDen,   \* VALUE_AREA: 70%
    MaxNodes,           \* nodes of high volume that are kept: ten
    MaxVpCandles        \* bound

\* A volume can be spread evenly over the bins; the area is a share of it.
ASSUME VpAssumption ==
    /\ VpBars \subseteq [low : Int, high : Int, volume : Nat]
    /\ BinCount \in Nat \ {0} /\ Share \in Nat
    /\ \A n \in 1..BinCount : \E m \in 0..Share : Share = m * n
    /\ AreaNum \in Nat /\ AreaDen \in Nat /\ AreaNum <= AreaDen

VARIABLES
    stored,     \* the candles, oldest first
    profile     \* _profiles of the pair: the profile and the candles it is of

vpVars == <<stored, profile>>

None == [of |-> 0]

VpInit == stored = << >> /\ profile = None

Bins  == 0..(BinCount - 1)
Low(cs)  == Min({cs[i].low : i \in DOMAIN cs})
High(cs) == Max({cs[i].high : i \in DOMAIN cs})

\* int((price - price_low) / bin_size)
BinOf(cs, price) == ((price - Low(cs)) * BinCount) \div (High(cs) - Low(cs))

AtMost(a, b) == IF a <= b THEN a ELSE b

\* The bins a candle covers; its high may be the edge of the last of them.
Covered(cs, c) == BinOf(cs, c.low)..AtMost(BinCount - 1, BinOf(cs, c.high))

\* volume_bins: a flat candle has no range to spread its volume over.
Spread(cs, i, b) ==
    IF cs[i].high <= cs[i].low \/ b \notin Covered(cs, cs[i]) THEN 0
    ELSE (cs[i].volume * Share) \div Cardinality(Covered(cs, cs[i]))

Added(f) == LET sum[i \in 0..Len(f)] == IF i = 0 THEN 0 ELSE sum[i - 1] + f[i] IN sum[Len(f)]

Volumes(cs) == [b \in Bins |-> Added([i \in DOMAIN cs |-> Spread(cs, i, b)])]

\* The volume of the bins from lo to hi.
Sum(vol, lo, hi) == Added([k \in 1..(hi - lo + 1) |-> vol[lo + k - 1]])
All(vol)         == Sum(vol, 0, BinCount - 1)

\* The point of control: the lowest bin of the most volume.
Poc(vol) == CHOOSE b \in Bins : \A d \in Bins : vol[d] < vol[b] \/ (vol[d] = vol[b] /\ b <= d)

\* One step of the expansion: towards the larger neighbour, below on a tie.
Grown(vol, lo, hi) ==
    LET below == IF lo > 0 THEN vol[lo - 1] ELSE 0
        above == IF hi < BinCount - 1 THEN vol[hi + 1] ELSE 0
    IN  IF lo > 0 /\ (below >= above \/ hi = BinCount - 1) THEN <<lo - 1, hi>> ELSE <<lo, hi + 1>>

\* The value area: from the point of control until it holds the target.
Expanded(vol, a) ==
    IF Sum(vol, a[1], a[2]) * AreaDen >= AreaNum * All(vol) \/ a = <<0, BinCount - 1>> THEN a
    ELSE Grown(vol, a[1], a[2])

ValueArea(vol) ==
    LET area[k \in 0..BinCount] ==
            IF k = 0 THEN <<Poc(vol), Poc(vol)>> ELSE Expanded(vol, area[k - 1])
    IN  area[BinCount]

\* The k-th smallest volume of some bins, and twice the median of those used.
Ranked(vol, bins, k) ==
    CHOOSE v \in {vol[b] : b \in bins} :
        /\ Cardinality({b \in bins : vol[b] < v}) < k
        /\ k <= Cardinality({b \in bins : vol[b] <= v})

MedianTwice(vol) ==
    LET used == {b \in Bins : vol[b] > 0}
        n    == Cardinality(used)
    IN  IF n = 0 THEN 0 ELSE Ranked(vol, used, (n + 1) \div 2) + Ranked(vol, used, (n + 2) \div 2)

\* The nodes of at least 1.5 medians, cut to those of the most volume (the sort
\* is stable), and runs of two or more bins below half a median.
HighNodes(vol) ==
    LET high     == {b \in Bins : vol[b] * 4 >= 3 * MedianTwice(vol)}
        ahead(b) == {d \in high : vol[d] > vol[b] \/ (vol[d] = vol[b] /\ d < b)}
    IN  {b \in high : Cardinality(ahead(b)) < MaxNodes}
LowNodes(vol) ==
    LET thin(b) == vol[b] * 4 < MedianTwice(vol)
    IN  {r \in Bins \X Bins :
           /\ r[1] < r[2] /\ \A b \in r[1]..r[2] : thin(b)
           /\ r[1] > 0 => ~thin(r[1] - 1)
           /\ r[2] < BinCount - 1 => ~thin(r[2] + 1)}

\* _compute, from the volumes of n candles.
Computed(n, vol) ==
    [of |-> n, vol |-> vol, poc |-> Poc(vol), area |-> ValueArea(vol),
     nodes |-> HighNodes(vol), gaps |-> LowNodes(vol)]

-----------------------------------------------------------------------------
\* A candle closes and update() is called with all of them; when nothing
\* traded over a range the old profile stays in the cache.
VpCandle ==
    /\ Len(stored) < MaxVpCandles
    /\ \E c \in VpBars : stored' = Append(stored, c)
    /\ IF Len(stored') < MinVpCandles \/ High(stored') <= Low(stored') THEN UNCHANGED profile
       ELSE \E vol \in {Volumes(stored')} :
               profile' = IF All(vol) = 0 THEN profile ELSE Computed(Len(stored'), vol)

VpSpec == VpInit /\ [][VpCandle]_vpVars

-----------------------------------------------------------------------------
(* The property of the profile.                                            *)

Traded(cs) ==
    Added([i \in DOMAIN cs |-> IF cs[i].high > cs[i].low THEN cs[i].volume * Share ELSE 0])
Kept       == SubSeq(stored, 1, profile.of)

\* The profile is one of the candles it was made of: no volume is lost or
\* counted twice by the binning; the value area is an interval about the point
\* of control that holds its share, and no longer does without one end bin,
\* which was the better of the two choices; no price is at once a node of high and in a gap of low
\* volume; and every gap is maximal, so that no two of them touch.
ProfileSound ==
    profile # None =>
        LET vol == profile.vol
            lo  == profile.area[1]
            hi  == profile.area[2]
            Enough(l, h) == Sum(vol, l, h) * AreaDen >= AreaNum * Traded(Kept)
        IN  /\ All(vol) = Traded(Kept)
            /\ \A b \in Bins : vol[b] <= vol[profile.poc]
            /\ lo <= profile.poc /\ profile.poc <= hi /\ Enough(lo, hi)
            /\ \/ lo = hi
               \/ /\ lo < profile.poc /\ ~Enough(lo + 1, hi)
                  /\ hi = BinCount - 1 \/ vol[lo] >= vol[hi + 1]
               \/ /\ hi > profile.poc /\ ~Enough(lo, hi - 1)
                  /\ lo = 0 \/ vol[hi] > vol[lo - 1]
            /\ \A r, q \in profile.gaps : r # q => (r[2] + 1 < q[1] \/ q[2] + 1 < r[1])
            /\ \A r \in profile.gaps : profile.nodes \cap (r[1]..r[2]) = {}
=============================================================================
