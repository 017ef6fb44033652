------------------------------ MODULE MCBooks -------------------------------
(***************************************************************************)
(* What is sized, booked, replayed and reported: the position sizer and    *)
(* the guardrails of risk, the two books of the pipeline, the manual       *)
(* journal, the backtests, the alerts, the whale and indicator polls, and  *)
(* the scanner and the watch daemon of the top-down edge.                  *)
(* They share no state, so a behaviour is one of a single of them, as in   *)
(* MCServices.                                                             *)
(***************************************************************************)
EXTENDS AlertManager, WhaleFeed, Indicators, ManualTrades, RiskSizing, TwoBooks, Backtest,
        TopdownAlerts, TLC

\* The campaign backtest's settings (CampaignBacktest).
CONSTANTS
    HtfHorizon, HtfSpan, HtfPlans, HtfCandles, HtfMargin, HtfAddMargins, HtfLeverage, HtfMinSize,
    HtfMaxAdds, HtfMinRR, HtfInitialTime, HtfAddTime, HtfTime

ASSUME HtfAssumption ==
    /\ HtfMaxAdds \in Nat
    /\ \A plan \in HtfPlans : plan.sl \in Int
    /\ \A c \in HtfCandles : c.swings \in Seq(Int)

VARIABLES
    part,                       \* the one of this behaviour
    htfAt, htfBook, htfSeen     \* the campaign backtest's

Htf == INSTANCE CampaignBacktest WITH
    at <- htfAt, book <- htfBook, seen <- htfSeen,
    Horizon <- HtfHorizon, SignalSpan <- HtfSpan, Plans <- HtfPlans, Candles <- HtfCandles,
    InitialMargin <- HtfMargin, AddMargins <- HtfAddMargins, Leverage <- HtfLeverage, MinSize <- HtfMinSize,
    MaxAdds <- HtfMaxAdds, AddMinRR <- HtfMinRR, Conservative <- FALSE,
    InitialTime <- HtfInitialTime, AddTime <- HtfAddTime, CampaignTime <- HtfTime

htfVars == <<htfAt, htfBook, htfSeen>>
vars == <<part, alertVars, whaleVars, indVars, manualVars, sizingVars, bookVars, backtestVars, htfVars,
          scannerVars, pushVars>>

\* The parts that do not move start in one state each.
Init ==
    /\ part \in {"alerts", "whales", "indicators", "manual", "sizing", "books", "backtest", "campaigns",
                "scanner", "push"}
    /\ WhaleInit /\ ManualInit /\ BooksInit /\ BacktestInit /\ Htf!ReplayInit
    /\ ScannerInit /\ PushInit
    /\ AlertInit      /\ (part # "alerts" => enabled)
    /\ IndicatorsInit /\ (part # "indicators" => funding = 0)
    /\ SizingInit     /\ (part # "sizing" => wallet = CHOOSE b \in Balances : TRUE)

Idles(p, v) == part # p => UNCHANGED v

Next ==
    /\ UNCHANGED part
    /\ \/ part = "alerts"     /\ AlertNext
       \/ part = "whales"     /\ WhaleNext
       \/ part = "indicators" /\ IndicatorsNext
       \/ part = "manual"     /\ ManualNext
       \/ part = "sizing"     /\ SizingNext
       \/ part = "books"      /\ BooksNext
       \/ part = "backtest"   /\ BacktestNext
       \/ part = "campaigns"  /\ Htf!ReplayNext
       \/ part = "scanner"    /\ ScannerNext
       \/ part = "push"       /\ PushNext
    /\ Idles("alerts", alertVars) /\ Idles("whales", whaleVars) /\ Idles("indicators", indVars)
    /\ Idles("manual", manualVars) /\ Idles("sizing", sizingVars) /\ Idles("books", bookVars)
    /\ Idles("backtest", backtestVars) /\ Idles("campaigns", htfVars)
    /\ Idles("scanner", scannerVars) /\ Idles("push", pushVars)

Spec == Init /\ [][Next]_vars

-----------------------------------------------------------------------------
(* The instance.                                                           *)

McRateLimit  == [p \in Limited |-> 1]
McRateWindow == [p \in Limited |-> 2]

K(i, o) == [ins |-> i, outs |-> o]
McEth == {K({"e1"}, "bx" :> 5), K({"bx"}, "e1" :> 2), K({"e1"}, "e2" :> 2)}
McBtc == {K({"b1"}, ("bx" :> 2) @@ ("b1" :> 3))}

McMoves == {-10, 20}

McSetups == {[entry |-> 100, sl |-> 98, tp2 |-> 105, quick |-> FALSE],
             [entry |-> 200, sl |-> 202, tp2 |-> 197, quick |-> TRUE]}

Seen(funds, mind, prints, day4, day1, found) ==
    [funding |-> funds, mood |-> mind, tape |-> prints, daily |-> day4, signal |-> day1, found |-> found]
McMarkets == {Seen("none", "none", "none", "bullish", "undefined", {"a", "b"}),
              Seen("none", "greed", "none", "none", "bearish", {"f"}),
              Seen("high", "none", "none", "bullish", "bullish", {"a"}),
              Seen("none", "none", "none", "undefined", "bullish", {"a"})}
Answer(arrives, fields, ok, c) ==
    [arrives |-> arrives, json |-> TRUE, fields |-> fields, typed |-> TRUE, approved |-> ok, confidence |-> c]
Full == {"confidence", "approved", "scores"}
McAnswers == {Answer(FALSE, {}, FALSE, 0), Answer(TRUE, {"confidence", "approved"}, TRUE, 90),
              Answer(TRUE, Full, TRUE, 30), Answer(TRUE, Full, TRUE, 80), Answer(TRUE, Full, TRUE, NaN)}

P(d, e, s, a, b, q) == [dir |-> d, entry |-> e, sl |-> s, tp1 |-> a, tp2 |-> b, quick |-> q]
C(l, h, c, w) == [low |-> l, high |-> h, close |-> c, swings |-> w]
McHtfPlans   == {[dir |-> "long", entry |-> 100, sl |-> 90], [dir |-> "short", entry |-> 110, sl |-> 120],
                 [dir |-> "long", entry |-> 120, sl |-> 110]}
McHtfCandles == {C(98, 104, 102, <<94, 96>>), C(84, 100, 96, <<>>), C(112, 126, 122, <<116, 104>>),
                 C(118, 124, 120, <<112>>)}
McHtfMargins == <<20, 10>>

McPairs  == <<"x", "y">>
McSpans  == <<2, 1>>
McPlans  == {P("long", 100, 90, 110, 120, FALSE), P("short", 100, 110, 90, 80, TRUE)}
D(l, h)  == [low |-> l, high |-> h]
Bt(l, h, c, d) == [low |-> l, high |-> h, close |-> c, detail |-> d]
McCandles == {Bt(98, 104, 102, <<>>), Bt(84, 100, 96, <<>>), Bt(100, 122, 112, <<>>), Bt(116, 119, 118, <<>>),
              Bt(88, 126, 100, <<D(100, 126), D(88, 100)>>)}
Edge(d, e, s, r, w) == [dir |-> d, entry |-> e, sl |-> s, rr |-> r, sweep |-> w]
McEdges == {Edge("long", 1000, 990, 3, 10), Edge("long", 1005, 990, 3, 5), Edge("short", 1000, 1010, 7, 5)}
McRR(quick)        == 1
McEntryTime(quick) == IF quick THEN 1 ELSE 2
McTradeTime(quick) == IF quick THEN 2 ELSE 3

-----------------------------------------------------------------------------
(* Properties.                                                             *)

\* An auto-silence that has run its course leaves nothing behind, and a whale
\* message waits with a timer running (alert_manager.py); the chat is never
\* silently behind the bias file (topdown_push.py).
AlertsHeard == CASE part = "alerts" -> AlertTypeOK /\ ServedSilenceIsClean /\ WhaleTimerRuns
                 [] part = "push"   -> ChangesTold
                 [] OTHER           -> TRUE

\* An event is told once: a wallet's transaction on Ethereum
\* (etherscan_client.py), a fall of open interest (oi_flush_detector.py), and
\* an edge alert, to which a trade is linked by one rule (signal_scanner.py,
\* topdown_reconcile.py).
EventsOnce == CASE part = "whales"     -> EthOnce
                [] part = "indicators" -> FlushesDisjoint
                [] part = "scanner"    -> AlertsApart /\ LinksStand
                [] OTHER               -> TRUE

\* What an approval risks stays within the account (position_sizer.py), the
\* books of the backtests balance (backtest.py), and no lost campaign's entry
\* is taken again (backtest.py).
MoneyAccounted == CASE part = "sizing"    -> ApprovalsBounded
                    [] part = "backtest"  -> BooksBalance
                    [] part = "campaigns" -> Htf!FailedStayOut
                    [] OTHER              -> TRUE

\* A stop of the backtest never loosens; the partial closes of a manual trade
\* that add up to all of it close it, but for one that stops on its way
\* (trade_manager.py); and the health of the market snapshot is lost only to a
\* failed poll (data_service/service.py).
OneWay == StopTightens /\ AllClosedIsClosed /\ HealthKept
=============================================================================
