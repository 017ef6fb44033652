----------------------------- MODULE PnlEngine ------------------------------
(***************************************************************************)
(* The unified profit and loss engine (shared/pnl_engine.py): how a filled *)
(* position is advanced by one candle and how a candle sequence resolves.  *)
(*                                                                         *)
(* A plan holds what a position never changes (direction, entry, take      *)
(* profits, size, confirmation closes); a position what a step changes.    *)
(* Prices are integers on a small grid, a candle is its range and close.   *)
(***************************************************************************)
EXTENDS Integers, Sequences, SequencesExt

\* What step() and try_fill() change of a Position.
Opened(plan) == [filled |-> FALSE, sl |-> plan.sl, tp1 |-> FALSE, seen |-> 0,
                 outcome |-> "pending", exit |-> 0]

Touched(c, price) == c.low <= price /\ price <= c.high

ClosedThrough(plan, c) ==
    IF plan.dir = "long" THEN c.close >= plan.tp1 ELSE c.close <= plan.tp1

\* What the candle adds to the closes through the first take profit, and
\* whether it moves the stop to the entry.
Observed(plan, pos, c) ==
    pos.seen + (IF ~pos.tp1 /\ Touched(c, plan.tp1) /\ ClosedThrough(plan, c)
                    /\ plan.confirm > 0 THEN 1 ELSE 0)

ArmsBreakeven(plan, pos, c) ==
    /\ ~pos.tp1
    /\ Touched(c, plan.tp1)
    /\ \/ plan.confirm = 0
       \/ ClosedThrough(plan, c) /\ Observed(plan, pos, c) >= plan.confirm

\* One candle of a filled position (step).  A candle that reaches both ends is
\* booked against the trade; the one that arms breakeven cannot stop it out.
Step(plan, pos, c) ==
    LET arms  == ArmsBreakeven(plan, pos, c)
        tp1   == pos.tp1 \/ arms
        sl    == IF arms THEN plan.entry ELSE pos.sl
        hitTp == Touched(c, plan.tp2)
        hitSl == ~arms /\ Touched(c, sl)
    IN  IF pos.outcome # "pending" THEN pos
        ELSE [pos EXCEPT !.tp1 = tp1, !.sl = sl, !.seen = Observed(plan, pos, c),
                         !.outcome = IF hitSl THEN IF tp1 THEN "breakeven" ELSE "sl"
                                     ELSE IF hitTp THEN "tp" ELSE "pending",
                         !.exit = IF hitSl THEN sl ELSE IF hitTp THEN plan.tp2 ELSE 0]

TryFill(plan, pos, c) ==
    [pos EXCEPT !.filled = pos.filled \/ Touched(c, plan.entry)]

\* One candle of simulate(): fill, then a step in the same candle.
Advance(plan, pos, c) ==
    LET filled == TryFill(plan, pos, c)
    IN  IF filled.filled THEN Step(plan, filled, c) ELSE filled

\* The replay of a candle sequence (simulate): the outcome and the exit price.
Simulate(plan, candles) ==
    LET end == FoldLeft(LAMBDA pos, c : Advance(plan, pos, c), Opened(plan), candles)
    IN  IF ~end.filled THEN [outcome |-> "no_fill", exit |-> 0]
        ELSE IF end.outcome # "pending" THEN [outcome |-> end.outcome, exit |-> end.exit]
        ELSE [outcome |-> "timeout", exit |-> Last(candles).close]

\* Profit net of the fees of both sides (compute_pnl), in units of the fee
\* rate's denominator.
NetPnl(plan, exit, feeRate, scale) ==
    LET move == IF plan.dir = "long" THEN exit - plan.entry ELSE plan.entry - exit
    IN  IF plan.size <= 0 \/ plan.entry <= 0 THEN 0
        ELSE plan.size * (move * scale - (plan.entry + exit) * feeRate)

-----------------------------------------------------------------------------
(* The reference: what the engine is to decide, without a running state.   *)

\* The candle in which the plan is filled, and the one that arms breakeven
\* (one past the end when there is none).
FirstWhere(candles, from, P(_)) ==
    LET hits == {i \in from..Len(candles) : P(candles[i])}
    IN  IF hits = {} THEN Len(candles) + 1 ELSE CHOOSE i \in hits : \A j \in hits : i <= j

FillAt(plan, candles) == FirstWhere(candles, 1, LAMBDA c : Touched(c, plan.entry))

ArmAt(plan, candles) ==
    LET Counts(c) == Touched(c, plan.tp1) /\ (plan.confirm = 0 \/ ClosedThrough(plan, c))
        need == IF plan.confirm = 0 THEN 1 ELSE plan.confirm
        full == {i \in FillAt(plan, candles)..Len(candles) :
                    Len(SelectSeq(SubSeq(candles, FillAt(plan, candles), i), Counts)) >= need}
    IN  IF full = {} THEN Len(candles) + 1 ELSE CHOOSE i \in full : \A j \in full : i <= j

StopAt(plan, candles, i) == IF i > ArmAt(plan, candles) THEN plan.entry ELSE plan.sl

\* Candle i takes the position out against the trade, or in its favour.
StopsOut(plan, candles, i) ==
    i # ArmAt(plan, candles) /\ Touched(candles[i], StopAt(plan, candles, i))
TakesProfit(plan, candles, i) == Touched(candles[i], plan.tp2)

RefOutcome(plan, candles) ==
    LET fill == FillAt(plan, candles)
        ends == {i \in fill..Len(candles) :
                    StopsOut(plan, candles, i) \/ TakesProfit(plan, candles, i)}
        first == CHOOSE i \in ends : \A j \in ends : i <= j
    IN  IF fill > Len(candles) THEN "no_fill"
        ELSE IF ends = {} THEN "timeout"
        ELSE IF StopsOut(plan, candles, first)
             THEN IF first > ArmAt(plan, candles) THEN "breakeven" ELSE "sl"
             ELSE "tp"
=============================================================================
