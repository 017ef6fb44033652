----------------------------- MODULE MCSignals ------------------------------
(***************************************************************************)
(* What turns candles into setups and lets them through: the SMC detectors *)
(* and setups, the Dual Thrust and trend pullback engines, the scalp       *)
(* signals, the volume profile, the classifier of a trade and the router's *)
(* deduplication.  Each is a function of the candles and of a memory of    *)
(* its own, so a behaviour is one of a single of them, as in MCServices.   *)
(***************************************************************************)
EXTENDS Detectors, DualThrust, Setups, Engine1, ScalpSignals, SetupRouter, TradeClassifier,
        Topdown, TLC

VARIABLE part   \* the one of this behaviour

vars == <<part, detVars, dtVars, setupVars, engineVars, scalpVars, vpVars, routerVars, classVars,
          tdVars>>

\* The parts that do not move start in one state each.
Init ==
    /\ part \in {"detectors", "dual thrust", "setups", "engine", "scalp", "profile", "router",
                 "classifier", "topdown"}
    /\ DetInit /\ DtInit /\ VpInit /\ RouterInit /\ TdInit
    /\ SetupsInit /\ (part # "setups" => market = CHOOSE m \in Markets : TRUE)
    /\ EngineInit /\ (part # "engine" => bias = "long")
    /\ ScalpInit  /\ (part # "scalp"  => scalpMarket = CHOOSE m \in ScalpMarkets : TRUE)
    /\ ClassInit  /\ (part # "classifier" => dir = "long")

Idle(p, v) == part # p => UNCHANGED v

Next ==
    /\ UNCHANGED part
    /\ \/ part = "detectors"   /\ DetNext
       \/ part = "dual thrust" /\ DtNext
       \/ part = "setups"      /\ SetupsNext
       \/ part = "engine"      /\ EngineNext
       \/ part = "scalp"       /\ ScalpNext
       \/ part = "profile"     /\ VpCandle
       \/ part = "router"      /\ RouterNext
       \/ part = "classifier"  /\ Learn
       \/ part = "topdown"     /\ TdNext
    /\ Idle("detectors", detVars) /\ Idle("dual thrust", dtVars) /\ Idle("setups", setupVars)
    /\ Idle("engine", engineVars) /\ Idle("scalp", scalpVars) /\ Idle("profile", vpVars)
    /\ Idle("router", routerVars) /\ Idle("classifier", classVars)
    /\ Idle("topdown", tdVars)

Spec == Init /\ [][Next]_vars

-----------------------------------------------------------------------------
(* The instance.                                                           *)

Bar(o, c, h, l, v) == [open |-> o, close |-> c, high |-> h, low |-> l, volume |-> v]
McBars == {Bar(5, 4, 6, 3, 3), Bar(4, 9, 9, 4, 3), Bar(6, 1, 6, 1, 1), Bar(7, 7, 8, 7, 1),
           Bar(4, 5, 9, 4, 3)}

DtBar(o, h, l, c) == [open |-> o, high |-> h, low |-> l, close |-> c]
McDtMarket == {DtBar(4, 5, 3, 4), DtBar(4, 8, 4, 8), DtBar(4, 4, 0, 0), DtBar(8, 8, 2, 4)}

McTp2RR(t)  == IF t = "d" THEN 6 ELSE 8
McDepths(t) == IF t = "b" THEN <<3, 2>> ELSE <<2, 1, 3>>
McAge(t)    == IF t = "b" THEN 2 ELSE 5
McReach(t)  == IF t = "b" THEN 16 ELSE 20

Ob(d, l, bl, bh, h, v, q, at) == [dir |-> d, low |-> l, bodyLow |-> bl, bodyHigh |-> bh,
                                  high |-> h, volume |-> v, quality |-> q, at |-> at]
Up1 == Ob("bullish", 76, 80, 96, 100, 1, 3, 5)
Up2 == Ob("bullish", 84, 88, 104, 108, 0, 4, 6)
Dn1 == Ob("bearish", 96, 100, 116, 120, 1, 3, 5)
Break(type, d, at) == [type |-> type, dir |-> d, at |-> at, clear |-> TRUE]
Fvg(d, l, h) == [dir |-> d, low |-> l, high |-> h]

Above == {116, 124, 132}
Wide  == {120, 150, 60}
Below == {80, 64, 52}
McMarkets ==
    UNION {[bias : {"bullish", "bearish"}, bar : {9}, price : {100}, atr : {0, 3, 5}, levels : {tops},
     swings : {{p \in tops : p > 110 \/ p < 90}}, zone : {"discount", "premium"},
     breaks : {<<Break("choch", "bullish", 6)>>, <<Break("bos", "bearish", 7)>>,
               <<Break("choch", "bullish", 6), Break("bos", "bullish", 8)>>},
     obs : {<<Up1, Up2, Dn1>>}, breakers : {<<>>, <<Up2, Dn1>>},
     fvgs : {<<Fvg("bullish", 92, 100)>>, <<Fvg("bullish", 64, 72), Fvg("bearish", 108, 116)>>},
     sweeps : {<<[dir |-> "bullish", at |-> 4, touches |-> 3, volume |-> 1]>>},
     flush : {0}, cvdWarm : {TRUE}, cvd : {1}, funding : {0}, oi : {1, 2}]
       : tops \in {{}, Above, Wide, Below}}
\* Between two candles the price and the open interest move.
McFollow(m) == {[m EXCEPT !.oi = o, !.price = p] : o \in {1, 2}, p \in {100, 104}}

Mv(b, l, u) == [body |-> b, lower |-> l, upper |-> u]
McMoves == {Mv(16, 0, 0), Mv(8, 0, 0), Mv(8, 4, 4), Mv(-8, 0, 0), Mv(-4, 4, 0), Mv(-16, 0, 0)}
McSteps == {-4, 0, 4}

Scalp(o, h, l, c, v) == [open |-> o, high |-> h, low |-> l, close |-> c, volume |-> v]
McScalpBars ==
    {Scalp(1000, 1006, 999, 1001, 1), Scalp(1001, 1002, 995, 1000, 6), Scalp(1000, 1009, 998, 1006, 1),
     Scalp(1006, 1007, 998, 999, 2), Scalp(1000, 1001, 999, 1000, 1), Scalp(1000, 1008, 992, 1003, 6)}
Facing(f, c, fl, s, b, t) ==
    [funding |-> f, cvd |-> c, flow |-> fl, spread |-> s, book |-> b, trending |-> t]
McScalpMarkets == {Facing(0, 3, 10, 1, 0, TRUE), Facing(20, -3, 10, 1, 4, TRUE),
                   Facing(-20, 1, 10, 1, 2, FALSE), Facing(20, 3, 0, 0, 0, TRUE)}

Vp(l, h, v) == [low |-> l, high |-> h, volume |-> v]
McVpBars == {Vp(0, 3, 4), Vp(4, 8, 2), Vp(2, 6, 1), Vp(8, 8, 3), Vp(5, 7, 9), Vp(0, 8, 1), Vp(9, 12, 6)}

On4(a, b, c, d) == ("4h" :> a) @@ ("1h" :> b) @@ ("30m" :> c) @@ ("15m" :> d)
NoBreaks == [f \in Frames |-> << >>]
Went(d, at) == [dir |-> d, at |-> at]
Pool(f, t, p, n) == [frame |-> f, type |-> t, price |-> p, swept |-> FALSE, touches |-> n, last |-> 3]
TakenPool(t, p) == [frame |-> "4h", type |-> t, price |-> p, swept |-> TRUE, touches |-> 2, last |-> 3]
Reading(t, bs, pools, lo, hi, atr) ==
    [trend |-> t, breaks |-> bs, levels |-> pools, lows |-> lo, highs |-> hi, atr |-> atr,
     blocks |-> {[dir |-> "bullish", price |-> 990]}, gaps |-> {"bearish"},
     impulse |-> [size |-> "big", dir |-> "bull"]]
Tops == {Pool("15m", "bsl", 1004, 2), Pool("4h", "bsl", 1030, 2)}
McTdViews ==
    {Reading(On4("bullish", "bullish", "undefined", "bearish"),
             [NoBreaks EXCEPT !["4h"] = <<Went("bullish", 5)>>,
                              !["15m"] = <<Went("bullish", 4), Went("bearish", 6)>>],
             {Pool("15m", "ssl", 996, 3), TakenPool("ssl", 960)} \cup Tops, {986, 970}, {1040}, 9),
     Reading(On4("bullish", "bullish", "bullish", "bearish"), NoBreaks,
             {Pool("1h", "ssl", 990, 2)} \cup Tops, {984}, {1040}, 30),
     Reading(On4("bearish", "bullish", "bullish", "bullish"),
             [NoBreaks EXCEPT !["4h"] = <<Went("bearish", 5)>>],
             {Pool("15m", "ssl", 996, 3), TakenPool("bsl", 1050)} \cup Tops, {998, 994}, {1040}, 9),
     Reading(On4("bearish", "bearish", "bearish", "bullish"),
             [NoBreaks EXCEPT !["15m"] = <<Went("bullish", 4)>>],
             {Pool("15m", "bsl", 1006, 2), Pool("30m", "bsl", 1009, 2), Pool("1h", "ssl", 980, 2),
              Pool("15m", "ssl", 994, 2)}, {970}, {1016, 1030}, 12),
     Reading(On4("undefined", "bullish", "bearish", "undefined"), NoBreaks, Tops, {990}, {1010}, 0)}
Tick5(l, h, c) == [low |-> l, high |-> h, close |-> c]
McTdCandles == {Tick5(994, 1004, 1000), Tick5(978, 1001, 992), Tick5(999, 1032, 1002), Tick5(988, 1008, 998)}

-----------------------------------------------------------------------------
(* Properties.                                                             *)

\* No look-ahead: structure breaks lie after the bars that confirm their
\* swings (market_structure.py), and a Dual Thrust trade is entered after the
\* bar that signalled it (dual_thrust_shadow.py).
FromThePast == CASE part = "detectors"   -> BreaksAfterConfirmation
                 [] part = "dual thrust" -> NoLookahead
                 [] OTHER                -> TRUE

\* The zones handed to the strategy are what they are taken for: blocks and
\* gaps still stand, a sweep closed back (order_blocks.py, fvg.py,
\* liquidity.py), and the value area holds its share (volume_profile.py).
ZonesHold == CASE part = "detectors" -> ActiveBlocksHold /\ ActiveGapsOpen /\ SweepsCloseBack
               [] part = "profile"   -> ProfileSound
               [] OTHER              -> TRUE

\* Long and short are written out twice everywhere and mean the same
\* (scalp_setups.py, trade_classifier.py, topdown_snapshot.py).
NoFavourite == CASE part = "scalp"      -> SignalsMirror
                 [] part = "classifier" -> NoFavouriteSide /\ TypesAgree
                 [] part = "topdown"    -> PlaysMirror
                 [] OTHER               -> TRUE

\* A setup is the best of its cascade on a structural stop (setups.py); an
\* engine's levels are in order, its pullback has not traded at its stop and
\* its benchmarks risk the same (trend_pullback.py); a play of the top-down
\* edge is in order and tells something new (backtest_topdown.py).
PlansSound == CASE part = "setups" -> BestGeometry /\ StopIsStructural /\ OiBacksOne
                [] part = "engine" -> PullbackHolds /\ LevelsOrdered /\ BenchesComparable
                [] part = "topdown" -> EmissionsOrdered /\ EmissionsApart
                [] OTHER           -> TRUE

\* Signals of one kind keep their distance: quick setups their cooldown,
\* scalp signals their window, live orders of the router their TTL, and one
\* candle sends one order at most.
SignalsKeepApart == QuickApart /\ SignalsApart /\ OrdersApart /\ []OneOrderPerCandle

\* While the window slides, the structure repaints nothing of the past
\* (market_structure.py), what became of a replayed emission stands
\* (backtest_topdown.py), and the router's drawdown is the worst one.
HistoryKept == BreaksStand /\ OutcomesStand /\ []DrawdownIsWorstDrop
=============================================================================
