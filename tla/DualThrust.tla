----------------------------- MODULE DualThrust -----------------------------
(***************************************************************************)
(* The Dual Thrust shadow: the signal of strategy_service/engines/         *)
(* dual_thrust.py, the fill model of execution_service/                    *)
(* dual_thrust_shadow.py replayed over the fetched window, and the tracker *)
(* that hands on the trades it has not seen.                               *)
(*                                                                         *)
(* Bars are numbered from 1; a day is BarsPerDay bars.  The average true   *)
(* range is a constant: it only scales the stop's distance.                *)
(***************************************************************************)
EXTENDS Integers, Sequences, SequencesExt, FiniteSets, FiniteSetsExt

CONSTANTS
    DtMarket,       \* the bars the market may show: open, high, low, close
    LastBar,        \* bound: the bars of a behaviour
    DtWindow,       \* how many bars a fetch returns
    UpLength, DnLength, Warmup,     \* look back of the thrusts, warm up bars
    UpCoeff, DnCoeff, CoeffScale,   \* the thrust coefficients over a scale
    BarsPerDay, StopDistance,
    MaxDtFaults     \* bound: restarts, failed fetches and failed writes

ASSUME DtAssumption ==
    /\ DtMarket \subseteq [open : Int, high : Int, low : Int, close : Int]
    /\ DtWindow \in Nat \ {0} /\ Warmup \in Nat /\ StopDistance \in Int

\* The warm up covers both look backs.
ASSUME LengthAssumption == UpLength \in 1..Warmup /\ DnLength \in 1..Warmup

VARIABLES
    dtBars,     \* the exchange's closed bars
    dtSeen,     \* number of the last bar processed (_last_processed_ts)
    dtCount,    \* _last_trade_count
    dtEmitted,  \* ghost: the trades handed on so far
    dtStored,   \* the rows of dt_shadow_trades
    dtDue,      \* the last bar has not been offered to the tracker
    dtFaults

dtVars == <<dtBars, dtSeen, dtCount, dtEmitted, dtStored, dtDue, dtFaults>>

DtInit == /\ dtBars = <<>> /\ dtSeen = 0 /\ dtCount = 0
          /\ dtEmitted = {} /\ dtStored = {} /\ dtDue = FALSE /\ dtFaults = 0

-----------------------------------------------------------------------------
(* The signal of one bar (compute_thrusts, raw_signal, day_open_map).      *)

\* A column of the len bars that end with bar i.
Column(w, i, len, field) == {w[j][field] : j \in (i - len + 1)..i}

DtMax(a, b) == IF a >= b THEN a ELSE b

\* The open of the day of bar i, built from the bars of the window itself: the
\* window's first day may have lost its first bars.
AnchorOpen(w, from, i) ==
    LET day(j) == (from + j - 2) \div BarsPerDay
    IN  w[Min({j \in 1..i : day(j) = day(i)})].open

\* Distances of the thrusts from the anchor, times CoeffScale; the lower one
\* keeps the source's use of the low column.
UpThrust(w, i) ==
    LET of(field) == Column(w, i, UpLength, field)
    IN  UpCoeff * DtMax(Max(of("close")) - Min(of("low")), Max(of("high")) - Min(of("close")))
DnThrust(w, i) ==
    LET of(field) == Column(w, i, DnLength, field)
    IN  DnCoeff * DtMax(Max(of("close")) - Min(of("low")), Max(of("low")) - Min(of("close")))

\* +1 above the upper thrust, -1 below the lower one, else 0.
Signal(w, from, i) ==
    LET off == CoeffScale * (w[i].close - AnchorOpen(w, from, i))
    IN  IF off > UpThrust(w, i) THEN 1 ELSE IF off < -DnThrust(w, i) THEN -1 ELSE 0

-----------------------------------------------------------------------------
(* The replay of a window (simulate_fills).                                *)

Flat == [side |-> 0, entry |-> 0, at |-> 0]
NoAction == [kind |-> "none", side |-> 0]

Closing(r, n, exit, why) ==
    [r EXCEPT !.pos = Flat,
              !.trades = Append(@, [side |-> r.pos.side, entryAt |-> r.pos.at, exitAt |-> n,
                                    entry |-> r.pos.entry, exit |-> exit, why |-> why])]

\* (a) the pending action is executed at the open.
AtOpen(r, n, bar) ==
    CASE r.pend.kind = "close" /\ r.pos.side # 0 -> Closing(r, n, bar.open, "flip")
      [] r.pend.kind = "enter" /\ r.pos.side = 0 ->
             [r EXCEPT !.pos = [side |-> r.pend.side, entry |-> bar.open, at |-> n]]
      [] OTHER -> r

StopPrice(pos) == pos.entry - pos.side * StopDistance

\* (b) the stop fills inside the bar.
AtStop(r, n, bar) ==
    IF \/ r.pos.side = 1 /\ bar.low <= StopPrice(r.pos)
       \/ r.pos.side = -1 /\ bar.high >= StopPrice(r.pos)
    THEN Closing(r, n, StopPrice(r.pos), "sl") ELSE r

\* (c) the signal at the close decides the next bar's action.
AtClose(r, sig) ==
    [r EXCEPT !.pend =
        IF r.pos.side # 0
        THEN IF sig # 0 /\ sig # r.pos.side THEN [kind |-> "close", side |-> 0] ELSE NoAction
        ELSE IF sig # 0 THEN [kind |-> "enter", side |-> sig] ELSE NoAction]

\* Mutant of BarStep: the signal of a bar is filled at the open of that bar.
BarStepEager(r, n, bar, sig) == AtStop(AtOpen(AtClose(r, sig), n, bar), n, bar)

BarStep(r, n, bar, sig) == AtClose(AtStop(AtOpen(r, n, bar), n, bar), sig)

AtRest == [pos |-> Flat, pend |-> NoAction, trades |-> <<>>]

\* The window w, whose first bar has the number from, replayed from flat after
\* the warm up.
Replay(w, from) ==
    LET played[i \in 0..Len(w)] ==
            IF i <= Warmup THEN AtRest
            ELSE BarStep(played[i - 1], from + i - 1, w[i], Signal(w, from, i))
    IN  played[Len(w)]

-----------------------------------------------------------------------------
(* The tracker (on_candle) and the pipeline's hook.                        *)

WindowFrom == IF Len(dtBars) > DtWindow THEN Len(dtBars) - DtWindow + 1 ELSE 1
Window     == SubSeq(dtBars, WindowFrom, Len(dtBars))

NextBar == /\ Len(dtBars) < LastBar /\ ~dtDue
           /\ \E b \in DtMarket : dtBars' = Append(dtBars, b)
           /\ dtDue' = TRUE
           /\ UNCHANGED <<dtSeen, dtCount, dtEmitted, dtStored, dtFaults>>

\* The trades past the count of the previous replay.
NewTrades(trades) == {trades[k] : k \in (dtCount + 1)..Len(trades)}

\* The 4h candle is offered: the window is fetched and replayed, what is new
\* is stored (rows are kept by entry and exit) and pushed.  A fetch that fails
\* or is too short leaves everything as it was.
OnDtCandle ==
    /\ dtDue /\ dtDue' = FALSE
    /\ \/ /\ Len(Window) > Warmup
          /\ \E trades \in {Replay(Window, WindowFrom).trades}, written \in BOOLEAN :
               /\ dtSeen' = Len(dtBars)
               /\ dtCount' = Len(trades)
               /\ dtEmitted' = dtEmitted \cup NewTrades(trades)
               /\ dtStored' = IF written THEN dtStored \cup NewTrades(trades) ELSE dtStored
               /\ ~written => NewTrades(trades) # {}
               /\ dtFaults + (IF written THEN 0 ELSE 1) <= MaxDtFaults
               /\ dtFaults' = dtFaults + (IF written THEN 0 ELSE 1)
       \/ /\ dtFaults < MaxDtFaults /\ dtFaults' = dtFaults + 1
          /\ UNCHANGED <<dtSeen, dtCount, dtEmitted, dtStored>>
       \/ /\ Len(Window) <= Warmup
          /\ UNCHANGED <<dtSeen, dtCount, dtEmitted, dtStored, dtFaults>>
    /\ UNCHANGED dtBars

DtRestart == /\ dtFaults < MaxDtFaults /\ dtFaults' = dtFaults + 1 /\ dtSeen # 0
             /\ dtSeen' = 0 /\ dtCount' = 0
             /\ UNCHANGED <<dtBars, dtEmitted, dtStored, dtDue>>

DtNext == NextBar \/ OnDtCandle \/ DtRestart

DtSpec == DtInit /\ [][DtNext]_dtVars

-----------------------------------------------------------------------------
(* Properties.                                                             *)

\* No lookahead: a theoretical position is entered at the open after a bar
\* that signalled its side while the replay was flat, and a flip follows a bar
\* that signalled the other side; trades follow one another in time.
NoLookahead ==
    \A trades \in {Replay(Window, WindowFrom).trades} : \A k \in 1..Len(trades) :
        LET t == trades[k]
            sig(n) == Signal(Window, WindowFrom, n - WindowFrom + 1)
        IN  /\ sig(t.entryAt - 1) = t.side
            /\ t.why = "flip" => t.exitAt > t.entryAt /\ sig(t.exitAt - 1) = -t.side
            /\ k > 1 => t.entryAt > trades[k - 1].exitAt

\* "the trades that are NEW since the last processed bar": a trade that ends
\* with the bar just processed is handed on.  Fails once the window slides.
LastBarEmitted ==
    dtSeen = Len(dtBars) /\ Len(dtBars) > Warmup =>
        \A t \in ToSet(Replay(Window, WindowFrom).trades) :
            t.exitAt = Len(dtBars) => t \in dtEmitted
=============================================================================
