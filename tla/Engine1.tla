------------------------------ MODULE Engine1 -------------------------------
(***************************************************************************)
(* Engine 1, the impulse retest (strategy_service/engines/trend_pullback.py*)
(* and benchmarks.py), with the deduplication of impulses and the          *)
(* benchmarks StrategyService emits beside a setup.                        *)
(*                                                                         *)
(* Bars are [open, close, low, high] on an integer grid, thresholds        *)
(* numerators over 100.  The last bar ends the pullback; the leg before it *)
(* is the impulse.                                                         *)
(***************************************************************************)
EXTENDS Integers, Sequences, FiniteSets, SequencesExt, FiniteSetsExt

CONSTANTS
    Moves,              \* what a bar may do: [body, lower, upper]
    StartPrice,
    PriceSteps,         \* current price less the last close
    MaxEngineBars,      \* bound: bars of a behaviour
    EngineWindow,       \* the bars DataService hands over
    AtrPeriod,
    ImpulseMin, ImpulseMax, ImpulseAtr, BodyRatio, Directional,
    PullbackMin, PullbackMax, RetraceMin, RetraceMax, OpposingMax,
    EntryFib, EntryAtr, SlBuffer, SlAtr,
    Tp1R, Tp2R, MinNetR, FeeR, SpaceR,
    SwingLevels         \* prices of the higher timeframe's swings

\* A bar opens and closes within its range.
ASSUME MovesAssumption ==
    /\ StartPrice \in Int /\ PriceSteps \subseteq Int
    /\ Moves \subseteq [body : Int, lower : Nat, upper : Nat]
    /\ SwingLevels \subseteq Int /\ IsFiniteSet(SwingLevels)
\* A pullback does not reach the origin of its impulse (PULLBACK_MAX_RETRACE);
\* the first target is a risk away, the second one another (TP1_RR,
\* TP2_RR_FIXED).
ASSUME EngineAssumption ==
    /\ {EngineWindow, AtrPeriod, ImpulseMin, ImpulseMax, PullbackMin, PullbackMax} \subseteq Nat \ {0}
    /\ RetraceMax \in 0..99 /\ {EntryFib, SlBuffer, SlAtr} \subseteq Nat
    /\ {Tp1R, Tp2R} \subseteq Nat /\ Tp1R >= 100 /\ Tp2R >= Tp1R + 100

VARIABLES
    engineBars,     \* every 15m bar so far
    bias,           \* the bias of the behaviour
    lastImpulse,    \* _engine1_last_impulse_ts by direction (0: none)
    engineEmitted,  \* the setups of the last evaluation, the engine's first
    legs            \* ghost: impulses emitted so far, [dir, from, to]

engineVars == <<engineBars, bias, lastImpulse, engineEmitted, legs>>

EngineInit ==
    /\ engineBars = <<>> /\ bias \in {"long", "short"} /\ engineEmitted = <<>> /\ legs = {}
    /\ lastImpulse = [d \in {"long", "short"} |-> 0]

Up(dir)       == IF dir = "long" THEN 1 ELSE -1
Apart(a, b)   == IF a >= b THEN a - b ELSE b - a
Body(c)       == c.close - c.open
Total(f)      == LET sum[i \in 0..Len(f)] == IF i = 0 THEN 0 ELSE sum[i - 1] + f[i] IN sum[Len(f)]
Largest(S)    == CHOOSE x \in S : \A y \in S : y <= x
Smallest(S)   == CHOOSE x \in S : \A y \in S : x <= y

\* compute_atr over the last bars (0: too few of them).
TrueRange(c, before) == Largest({c.high - c.low, Apart(c.high, before.close), Apart(c.low, before.close)})
Atr == LET n == Len(engineBars)
       IN  IF n <= AtrPeriod THEN 0
           ELSE Total([i \in 1..AtrPeriod |-> TrueRange(engineBars[n - i + 1], engineBars[n - i])]) \div AtrPeriod

-----------------------------------------------------------------------------
(* The pattern (_qualify_impulse, _qualify_pullback, detect_impulse_pullback)*)

LegDir(a, b) == IF engineBars[b].close > engineBars[a].close THEN "long" ELSE "short"
Origin(a, b) == IF LegDir(a, b) = "long" THEN engineBars[a].low ELSE engineBars[a].high
Peak(a, b)   == IF LegDir(a, b) = "long" THEN engineBars[b].high ELSE engineBars[b].low

\* The share of each bar's range that its body takes, summed over the bars
\* that have a range.
Ranged(a, b) == {i \in a..b : engineBars[i].high > engineBars[i].low}
BodyShare(a, b) == MapThenSumSet(
    LAMBDA i : (100 * Apart(engineBars[i].close, engineBars[i].open)) \div (engineBars[i].high - engineBars[i].low), Ranged(a, b))

IsImpulse(a, b, atr) ==
    /\ engineBars[a].close # engineBars[b].close
    /\ Cardinality({i \in a..b : Up(LegDir(a, b)) * Body(engineBars[i]) > 0}) * 100
           >= Directional * (b - a + 1)
    /\ Ranged(a, b) # {} /\ BodyShare(a, b) >= BodyRatio * Cardinality(Ranged(a, b))
    /\ Apart(Peak(a, b), Origin(a, b)) * 100 >= ImpulseAtr * atr

\* How far bars a..b retrace from the peak.
Retrace(dir, peak, a, b) ==
    IF dir = "long" THEN peak - Smallest({engineBars[i].low : i \in a..b})
                    ELSE Largest({engineBars[i].high : i \in a..b}) - peak

IsPullback(dir, origin, peak, a, b) ==
    LET depth == Retrace(dir, peak, a, b)
        along == {Up(dir) * Body(engineBars[i]) : i \in a..b}
    IN  /\ depth > 0
        /\ depth * 100 >= RetraceMin * Apart(peak, origin)
        /\ depth * 100 <= RetraceMax * Apart(peak, origin)
        /\ 100 * Largest(along \cup {0}) <= OpposingMax * depth

\* The legs that qualify, each with the bars of its pullback after it.
Patterns(atr) ==
    {p \in (PullbackMin..PullbackMax) \X (ImpulseMin..ImpulseMax) :
        LET n == Len(engineBars)
            b == n - p[1]
            a == b - p[2] + 1
        IN  /\ a > n - EngineWindow /\ a >= 1
            /\ IsImpulse(a, b, atr)
            /\ IsPullback(LegDir(a, b), Origin(a, b), Peak(a, b), b + 1, n)}

\* The first found: the shortest pullback, then the shortest impulse.
Detected(atr) ==
    LET all == Patterns(atr)
    IN  IF all = {} THEN <<>>
        ELSE LET p == CHOOSE x \in all : \A y \in all :
                          x[1] < y[1] \/ (x[1] = y[1] /\ x[2] <= y[2])
                 b == Len(engineBars) - p[1]
             IN  <<[from |-> b - p[2] + 1, to |-> b]>>

-----------------------------------------------------------------------------
(* The levels (compute_entry, compute_sl, compute_tp).                     *)

EntryOf(origin, peak) == peak - ((peak - origin) * EntryFib) \div 100

StopOf(dir, origin, peak, entry, atr) ==
    LET past  == origin - Up(dir) * ((Apart(peak, origin) * SlBuffer) \div 100)
        floor == entry - Up(dir) * ((atr * SlAtr) \div 100)
    IN  IF dir = "long" THEN Smallest({past, floor}) ELSE Largest({past, floor})

AtR(dir, entry, risk, r) == entry + Up(dir) * ((risk * r) \div 100)

\* The swings beyond the first target with room up to the next one.
Rooms(dir, tp1, risk) ==
    LET beyond == {s \in SwingLevels : Up(dir) * (s - tp1) > 0}
    IN  {s \in beyond : ~\E t \in beyond : Up(dir) * (t - s) > 0 /\ Apart(t, s) * 100 < SpaceR * risk}

SecondTarget(dir, entry, tp1, risk) ==
    LET fixed == AtR(dir, entry, risk, Tp2R)
        rooms == Rooms(dir, tp1, risk)
    IN  IF dir = "long" THEN Smallest(rooms \cup {fixed}) ELSE Largest(rooms \cup {fixed})

\* The setup on a leg at a price, as a sequence of at most one.
SetupOn(leg, price, atr) ==
    LET dir    == LegDir(leg.from, leg.to)
        origin == Origin(leg.from, leg.to)
        entry  == EntryOf(origin, Peak(leg.from, leg.to))
        sl     == StopOf(dir, origin, Peak(leg.from, leg.to), entry, atr)
        risk   == Apart(entry, sl)
        tp1    == AtR(dir, entry, risk, Tp1R)
        tp2    == SecondTarget(dir, entry, tp1, risk)
    IN  IF \/ dir # bias
           \/ Apart(price, entry) * 100 > EntryAtr * atr
           \/ risk = 0 \/ Up(dir) * (entry - sl) <= 0
           \/ (Apart(tp2, entry) * 100) \div risk - FeeR < MinNetR
        THEN <<>>
        ELSE <<[kind |-> "engine1", dir |-> dir, entry |-> entry, sl |-> sl,
                tp1 |-> tp1, tp2 |-> tp2, leg |-> leg]>>

-----------------------------------------------------------------------------
(* The benchmarks (benchmarks.py).                                         *)

Mirror(entry, level) == 2 * entry - level
Opposite(dir) == IF dir = "long" THEN "short" ELSE "long"

Flipped(s) == [s EXCEPT !.kind = "random", !.dir = Opposite(s.dir), !.sl = Mirror(s.entry, s.sl),
                        !.tp1 = Mirror(s.entry, s.tp1), !.tp2 = Mirror(s.entry, s.tp2)]

\* The coin is a digest of the setup: either side.
RandomBench(s, heads) == IF heads THEN Flipped(s) ELSE [s EXCEPT !.kind = "random"]

MarketBench(s, price) ==
    [s EXCEPT !.kind = "market", !.entry = price,
              !.sl = price - Up(s.dir) * Apart(s.entry, s.sl),
              !.tp1 = price + Up(s.dir) * Apart(s.tp1, s.entry),
              !.tp2 = price + Up(s.dir) * Apart(s.tp2, s.entry)]

-----------------------------------------------------------------------------
(* Actions.                                                                *)

\* A 15m bar closes; it opens where the last one closed.
BarCloses ==
    /\ Len(engineBars) < MaxEngineBars
    /\ \E mv \in Moves :
          LET open  == IF engineBars = <<>> THEN StartPrice ELSE Last(engineBars).close
              close == open + mv.body
              top   == IF mv.body > 0 THEN close ELSE open
              low   == IF mv.body > 0 THEN open ELSE close
          IN  engineBars' = Append(engineBars, [open |-> open, close |-> close,
                                    low |-> low - mv.lower, high |-> top + mv.upper])
    /\ engineEmitted' = <<>>
    /\ UNCHANGED <<bias, lastImpulse, legs>>

\* A 5m candle has the engine evaluated at its close.
EvaluatePullback ==
    /\ engineBars # <<>> /\ engineEmitted = <<>>
    /\ \E step \in PriceSteps, heads \in BOOLEAN :
       \E atr \in {Atr} :
       \E leg \in ToSet(IF atr = 0 THEN <<>> ELSE Detected(atr)) :
       \E s \in ToSet(SetupOn(leg, Last(engineBars).close + step, atr)) :
          /\ leg.from # lastImpulse[s.dir]
          /\ lastImpulse' = [lastImpulse EXCEPT ![s.dir] = leg.from]
          /\ legs' = legs \cup {[dir |-> s.dir, from |-> leg.from, to |-> leg.to]}
          /\ engineEmitted' = <<s, RandomBench(s, heads), MarketBench(s, Last(engineBars).close + step)>>
    /\ UNCHANGED <<engineBars, bias>>

EngineNext == BarCloses \/ EvaluatePullback
EngineSpec == EngineInit /\ [][EngineNext]_engineVars

-----------------------------------------------------------------------------
(* Properties.                                                             *)

\* No bar of the pullback has traded at the stop of the setup: the entry is
\* never offered after its own invalidation.
PullbackHolds ==
    engineEmitted # <<>> =>
        LET s == Head(engineEmitted)
        IN  \A i \in s.leg.to + 1 .. Len(engineBars) :
                IF s.dir = "long" THEN engineBars[i].low > s.sl ELSE engineBars[i].high < s.sl

\* The stop lies behind the entry and the targets ahead of it, the first
\* before the second, also in the benchmarks.
LevelsOrdered ==
    \A s \in ToSet(engineEmitted) :
        /\ Up(s.dir) * (s.entry - s.sl) > 0
        /\ Up(s.dir) * (s.tp1 - s.entry) > 0
        /\ Up(s.dir) * (s.tp2 - s.tp1) > 0

\* A benchmark risks and aims at what its setup does.
BenchesComparable ==
    \A s \in ToSet(engineEmitted) :
        LET e == Head(engineEmitted)
        IN  /\ Apart(s.entry, s.sl) = Apart(e.entry, e.sl)
            /\ Apart(s.tp2, s.entry) = Apart(e.tp2, e.entry)

\* An impulse is emitted once, although it is found again with every bar.
ImpulseOnce ==
    \A a, b \in legs : a # b /\ a.dir = b.dir => a.to < b.from \/ b.to < a.from
=============================================================================
