---------------------------- MODULE ScalpSignals ----------------------------
(***************************************************************************)
(* The scalp signals (strategy_service/scalp_setups.py) and how the        *)
(* strategy calls them (StrategyService.evaluate_scalp): at every candle   *)
(* of the pair that is confirmed, of whatever timeframe, on the 5m candles *)
(* stored by then; one signal per SCALP_DEDUP_WINDOW_SECONDS.              *)
(*                                                                         *)
(* One pair.  Prices are whole, times in seconds of which a 5m candle has  *)
(* BarTime.  A signal is its type and direction: entry, stop and targets   *)
(* are fixed percentages of the close.  Settings are CONSTANTS, in the     *)
(* parts given with them.                                                  *)
(***************************************************************************)
EXTENDS Integers, FiniteSets, Sequences, SequencesExt, FiniteSetsExt

CONSTANTS
    ScalpBars,          \* 5m candles: open, high, low, close, volume
    ScalpMarkets,       \* funding (per 10^5), cvd, flow, spread, book, trending
    BarTime, LongBars,  \* a 5m candle; 5m candles in one of the next timeframe
    DedupWindow, FlushMaxAge,
    ReclaimBars, Envelope, VolBars, FlatBars,   \* look-backs
    WickNum, FlatNum,   \* per thousand of the close
    BodyPct, ZScore, ImbalancePct, MaxSpread,
    FundingMin, BookLongMax, BookShortMin,
    MaxScalpBars, MaxFlushes    \* bounds

ASSUME TimesAssumption == BarTime \in Nat \ {0} /\ DedupWindow \in Nat
ASSUME ScalpAssumption ==
    /\ ScalpBars \subseteq [open : Int, high : Int, low : Int, close : Int, volume : Int]
    /\ ScalpMarkets \subseteq
          [funding : Int, cvd : Int, flow : Int, spread : Int, book : Int, trending : BOOLEAN]
    /\ {Envelope, VolBars, FlatBars, FundingMin} \subseteq Nat \ {0}

VARIABLES
    now,
    due,        \* confirmations of this boundary not yet delivered
    scalpBars,  \* the stored 5m candles
    flushes,    \* recent_oi_flushes of the pair (times)
    scalpMarket,    \* the rest of the snapshot and the book
    lastFire,   \* _scalp_last_fire (-1: never)
    fired       \* ghost: the last signal returned

scalpVars == <<now, due, scalpBars, flushes, scalpMarket, lastFire, fired>>

ScalpInit ==
    /\ now = 0 /\ due = {} /\ scalpBars = << >> /\ flushes = {} /\ lastFire = -1
    /\ fired = [at |-> -DedupWindow, type |-> "none", dir |-> "none"]
    /\ scalpMarket \in ScalpMarkets

-----------------------------------------------------------------------------
(* The detectors: {} or the set of one direction.                          *)

Upper(c) == c.high - Max({c.open, c.close})
Lower(c) == Min({c.open, c.close}) - c.low
Newest(cs) == cs[Len(cs)]
Dir(long, short) == IF long THEN {"long"} ELSE IF short THEN {"short"} ELSE {}
OtherSide(dirs) == {IF d = "long" THEN "short" ELSE "long" : d \in dirs}

FreshFlush == \E f \in flushes : now - f <= FlushMaxAge

\* The wick of evaluate_liq_reclaim: long enough, and longer than the other.
WickReclaim(c) ==
    Dir(Lower(c) * 1000 >= WickNum * c.close /\ Lower(c) > Upper(c),
        Upper(c) * 1000 >= WickNum * c.close /\ Upper(c) > Lower(c))

LiqReclaim(cs) ==
    IF Len(cs) < ReclaimBars + 1 \/ ~FreshFlush THEN {} ELSE WickReclaim(Newest(cs))

\* evaluate_sweep_choch: the high is looked at first.
SweepChoch(cs, m) ==
    LET n     == Len(cs)
        c     == cs[n]
        prior == {cs[i] : i \in (n - Envelope - 1)..(n - 2)}
        top   == Max({p.high : p \in prior})
        floor == Min({p.low : p \in prior})
        side  == Dir(~(cs[n - 1].high > top /\ c.close < top) /\ cs[n - 1].low < floor /\ c.close > floor,
                     cs[n - 1].high > top /\ c.close < top)
        body  == IF side = {"long"} THEN c.close - c.open ELSE c.open - c.close
    IN  IF n < Envelope + 2 THEN {}
        ELSE IF /\ body > 0
                /\ body * 100 >= BodyPct * (c.high - c.low)
                /\ m.trending
                /\ m.book # 0 => (("long" \in side => m.book < BookLongMax)
                                  /\ ("short" \in side => m.book > BookShortMin))
        THEN side ELSE {}

\* evaluate_vol_cvd_divergence: the z-score squared, on VolBars * volumes.
VolCvdDivergence(cs, m) ==
    LET n     == Len(cs)
        c     == cs[n]
        vols  == [i \in (n - VolBars)..(n - 1) |-> cs[i].volume]
        sum   == SumFunction(vols)
        above == VolBars * c.volume - sum
        spread2 == SumFunction([i \in DOMAIN vols |-> (VolBars * vols[i] - sum) * (VolBars * vols[i] - sum)])
    IN  IF n < VolBars + 1 THEN {}
        ELSE IF /\ m.spread > 0 /\ m.spread <= MaxSpread
                /\ spread2 > 0 /\ above >= 0
                /\ above * above * VolBars >= ZScore * ZScore * spread2
                /\ m.flow > 0 /\ (IF m.cvd < 0 THEN -m.cvd ELSE m.cvd) * 100 >= ImbalancePct * m.flow
        THEN Dir(m.cvd > 0 /\ c.close < c.open, m.cvd < 0 /\ c.close > c.open) ELSE {}

\* evaluate_funding_extreme.
FundingExtreme(cs, m) ==
    LET n    == Len(cs)
        last == {cs[i] : i \in (n - FlatBars + 1)..n}
        span == Max({c.high : c \in last}) - Min({c.low : c \in last})
    IN  IF n < FlatBars \/ span * 1000 > FlatNum * cs[n].close THEN {}
        ELSE Dir(m.funding <= -FundingMin, m.funding >= FundingMin)

-----------------------------------------------------------------------------
(* evaluate_scalp.                                                         *)

Fire(type, dirs) ==
    \E d \in dirs : fired' = [at |-> now, type |-> type, dir |-> d]

\* What a signal of a type leaves in _scalp_last_fire.
Stamped(type) == now

Blocked == lastFire >= 0 /\ now - lastFire < DedupWindow

EvaluateScalp(cs) ==
    IF Blocked \/ cs = << >> THEN UNCHANGED <<lastFire, fired>>
    ELSE IF LiqReclaim(cs) # {} THEN Fire("liq", LiqReclaim(cs)) /\ lastFire' = Stamped("liq")
    ELSE \/ Fire("baseline", {"long", "short"}) /\ lastFire' = Stamped("baseline")
         \/ UNCHANGED <<lastFire, fired>>

\* A boundary: the 5m candle is confirmed, and at times a longer one.
BarEnds ==
    /\ due = {} /\ Len(scalpBars) < MaxScalpBars
    /\ now' = (now \div BarTime + 1) * BarTime
    /\ due' = IF (now' \div BarTime) % LongBars = 0 THEN {"short", "long"} ELSE {"short"}
    /\ UNCHANGED <<scalpBars, flushes, scalpMarket, lastFire, fired>>

\* The confirmations come over one connection in either order.
ShortConfirmed ==
    /\ "short" \in due /\ due' = due \ {"short"}
    /\ \E c \in ScalpBars : scalpBars' = Append(scalpBars, c)
    /\ EvaluateScalp(scalpBars')
    /\ UNCHANGED <<now, flushes, scalpMarket>>

LongConfirmed ==
    /\ "long" \in due /\ due' = due \ {"long"}
    /\ EvaluateScalp(scalpBars)
    /\ UNCHANGED <<now, scalpBars, flushes, scalpMarket>>

Seconds ==
    /\ due # {} /\ (now + 1) % BarTime # 0 /\ now' = now + 1
    /\ UNCHANGED <<due, scalpBars, flushes, scalpMarket, lastFire, fired>>

\* The open interest poll finds a flush (Indicators.OiPoll).
FlushSeen ==
    /\ Cardinality(flushes) < MaxFlushes /\ now \notin flushes
    /\ flushes' = flushes \cup {now}
    /\ UNCHANGED <<now, due, scalpBars, scalpMarket, lastFire, fired>>

ScalpNext == BarEnds \/ ShortConfirmed \/ LongConfirmed \/ Seconds \/ FlushSeen
ScalpSpec == ScalpInit /\ [][ScalpNext]_scalpVars

-----------------------------------------------------------------------------
\* Turned upside down about the price p, rise and fall, bid and ask swapped.
Upside(c, p)   == [c EXCEPT !.open = p - @, !.close = p - @, !.high = p - c.low, !.low = p - c.high]
UpsideM(m)     == [m EXCEPT !.cvd = -@, !.funding = -@]
AnyBook(m)     == [m EXCEPT !.book = 0]
OneSided(cs)   == Len(cs) >= Envelope + 2 =>
                    LET n == Len(cs) prior == {cs[i] : i \in (n - Envelope - 1)..(n - 2)}
                    IN  \/ cs[n - 1].high <= Max({p.high : p \in prior})
                        \/ cs[n - 1].low >= Min({p.low : p \in prior})

\* The sides the order book lets evaluate_sweep_choch take.
OpenTo(d, m) == m.book = 0 \/ IF d = "long" THEN m.book < BookLongMax ELSE m.book > BookShortMin

\* The detectors treat the two sides alike, although each writes both out: on
\* the market turned upside down they give the opposite direction.  The one gate
\* that is one-sided on purpose, the book's (it wants bids stacked for a short
\* and none for a long, scalp_setups.py:339-357), may then take that direction
\* away, and nothing else does.  (A bar that sweeps both sides is an exception:
\* the high is looked at first.)
SignalsMirror ==
    scalpBars # << >> =>
      \E p \in {2 * Newest(scalpBars).close} :
        LET turned == [i \in DOMAIN scalpBars |-> Upside(scalpBars[i], p)]
        IN  /\ WickReclaim(Newest(turned)) = OtherSide(WickReclaim(Newest(scalpBars)))
            /\ OneSided(scalpBars) =>
                  SweepChoch(turned, UpsideM(scalpMarket))
                    = {d \in OtherSide(SweepChoch(scalpBars, AnyBook(scalpMarket))) : OpenTo(d, scalpMarket)}
            /\ VolCvdDivergence(turned, UpsideM(scalpMarket)) = OtherSide(VolCvdDivergence(scalpBars, scalpMarket))
            /\ FundingExtreme(turned, UpsideM(scalpMarket)) = OtherSide(FundingExtreme(scalpBars, scalpMarket))

\* Two signals of a pair, real ones and the baseline, never come from one
\* event, although candles of several timeframes are confirmed together and
\* each asks for signals.
SignalsApart ==
    [][fired' # fired => fired'.at - fired.at >= DedupWindow]_scalpVars

\* "Sits last so a real signal always wins the slot when both would fire on
\* the same candle" (service.py).
RealSignalWins ==
    [][(ShortConfirmed /\ LiqReclaim(scalpBars') # {})
          => (fired'.at = now /\ fired'.type = "liq")]_scalpVars
=============================================================================
