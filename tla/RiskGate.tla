----------------------------- MODULE RiskGate -----------------------------
(***************************************************************************)
(* From a confirmed candle to an entry order, on every pair at once        *)
(* (pipeline_router.py, risk_service/service.py, execution_service/        *)
(* service.py).                                                            *)
(*                                                                         *)
(* A candle starts a task, one at a time per pair (the lock of             *)
(* websocket_feeds.py:386); the tasks of different pairs interleave at     *)
(* their awaits: Claude's answer, the cancellation of a pending entry that *)
(* is replaced, and the order itself.  The guardrails read the tracker     *)
(* before those awaits and the trade is written into it after them.        *)
(*                                                                         *)
(* A setup is its dedup key (direction and type); any setup may be dropped *)
(* for a reason that leaves no trace (data gate, halt, minimum size, the   *)
(* unstamped rejections of the Risk Service).  The monitor is reduced to   *)
(* what it tells the Risk Service; PositionMonitor has it in full.         *)
(***************************************************************************)
EXTENDS RiskTracker, FiniteSets

CONSTANTS
    Pairs,          \* TRADING_PAIRS
    Keys,           \* dedup keys of a pair
    Quick,          \* those that need no answer from Claude
    Heats,          \* risk a position may carry, in risk units
    PnlSteps,       \* PnL a close may realise, in risk units
    MaxOpen,        \* MAX_OPEN_POSITIONS
    MaxTrades,      \* MAX_TRADES_PER_DAY
    MaxHeat,        \* MAX_PORTFOLIO_HEAT_PCT, in risk units
    MaxDailyLoss,   \* MAX_DAILY_DRAWDOWN, in risk units
    MaxWeeklyLoss,  \* MAX_WEEKLY_DRAWDOWN, in risk units
    Cooldown,       \* COOLDOWN_MINUTES in ticks
    DedupTTL,       \* _SETUP_DEDUP_TTL_SECONDS in ticks
    MaxClock,       \* bound: ticks a behaviour may last
    MaxCandles      \* bound: setups of one candle

ASSUME PairsAssumption == IsFiniteSet(Pairs)
ASSUME KeysAssumption  == Quick \subseteq Keys
ASSUME UnitsAssumption == Heats \subseteq Nat /\ PnlSteps \subseteq Int
ASSUME LimitsAssumption ==
    /\ MaxTrades \in Nat \ {0}
    /\ {MaxOpen, MaxHeat, MaxDailyLoss, MaxWeeklyLoss, Cooldown, DedupTTL,
        MaxClock, MaxCandles} \subseteq Nat

VARIABLES
    clock,      \* current tick
    tracker,    \* RiskStateTracker
    dedup,      \* setup_dedup_cache: when a key was last evaluated, or Never
    pipe,       \* per pair: the candle task
    managed,    \* per pair: the position the monitor manages, or None
    sent        \* ghost: when execute last went on to place a key's order

vars == <<clock, tracker, dedup, pipe, managed, sent>>

Never == -1
None  == [phase |-> "none"]
NoTask == [pc |-> "idle"]
Position == [phase : {"pending", "active"}, ts : Nat, heat : Heats]
\* Where a task waits, for the setup with this key and heat; rest are the
\* setups of the candle it has still to look at.  "cancelled": the cancellation
\* it awaits has succeeded, and the monitor saw that first.
Task == [pc : {"ai", "cancel", "cancelled", "place"}, key : Keys, heat : Heats, rest : Seq(Keys)]

Init ==
    /\ clock = 0
    /\ tracker = Fresh(0)
    /\ dedup = [pk \in Pairs \X Keys |-> Never]
    /\ sent = [pk \in Pairs \X Keys |-> Never]
    /\ pipe = [p \in Pairs |-> NoTask]
    /\ managed = [p \in Pairs |-> None]

Tick == /\ clock < MaxClock /\ clock' = clock + 1
        /\ UNCHANGED <<tracker, dedup, pipe, managed, sent>>

-----------------------------------------------------------------------------
(* The guardrails: the getters reset the day first, whoever asks first.    *)

Heat(open) == FoldSeq(LAMBDA row, sum : row.heat + sum, 0, open)

\* Mutant: one more trade a day.
ChecksOffByOne(h) ==
    /\ tracker.lastLoss # NoLoss => clock - tracker.lastLoss >= Cooldown
    /\ TradesToday(tracker, clock) <= MaxTrades
    /\ Len(tracker.open) < MaxOpen
    /\ -DailyPnl(tracker, clock) < MaxDailyLoss
    /\ -WeeklyPnl(tracker, clock) < MaxWeeklyLoss
    /\ Heat(tracker.open) + h <= MaxHeat

Checks(h) ==
    /\ tracker.lastLoss # NoLoss => clock - tracker.lastLoss >= Cooldown
    /\ TradesToday(tracker, clock) < MaxTrades
    /\ Len(tracker.open) < MaxOpen
    /\ -DailyPnl(tracker, clock) < MaxDailyLoss
    /\ -WeeklyPnl(tracker, clock) < MaxWeeklyLoss
    /\ Heat(tracker.open) + h <= MaxHeat

-----------------------------------------------------------------------------
(* The candle task.                                                        *)

Deduped(p, k) == dedup[<<p, k>>] # Never /\ clock - dedup[<<p, k>>] < DedupTTL

Stamp(p, ks) == dedup' = [pk \in Pairs \X Keys |->
                    IF pk[1] = p /\ pk[2] \in ks THEN clock ELSE dedup[pk]]
Wait(p, pc, k, h, rest) ==
    pipe' = [pipe EXCEPT ![p] = [pc |-> pc, key |-> k, heat |-> h, rest |-> rest]]
EndTask(p, ks) == pipe' = [pipe EXCEPT ![p] = NoTask] /\ Stamp(p, ks)
Send(p, k) == sent' = [sent EXCEPT ![<<p, k>>] = clock]

\* Mutant: the new entry is placed beside the pending one.
ExecuteBeside(p, k, h, rest, ks) ==
    IF managed[p] = None \/ managed[p].phase = "pending"
    THEN Wait(p, "place", k, h, rest) /\ Send(p, k) /\ Stamp(p, ks)
    ELSE EndTask(p, ks \cup {k}) /\ UNCHANGED sent

\* execute, up to its first await: a pending entry is replaced, another
\* position blocks the new one.  ks are keys to stamp by then.
Execute(p, k, h, rest, ks) ==
    \/ /\ managed[p] = None
       /\ Wait(p, "place", k, h, rest) /\ Send(p, k) /\ Stamp(p, ks)
    \/ /\ managed[p].phase = "pending"
       /\ Wait(p, "cancel", k, h, rest) /\ Stamp(p, ks) /\ UNCHANGED sent
    \/ /\ managed[p].phase = "active"
       /\ EndTask(p, ks \cup {k}) /\ UNCHANGED sent

\* The setups of q from the first one that is not dropped, up to the first
\* await.  Some dropped ones leave a stamp: too close a stop-loss, an order block
\* that failed before.  ks are keys to stamp already.
Look(p, q, ks) ==
    \E i \in 1..(Len(q) + 1) :
    \E dropped \in SUBSET {q[j] : j \in 1..(i - 1)} :
        LET stamps == ks \cup {k \in dropped \cap Quick : ~Deduped(p, k)}
            rest   == SubSeq(q, i + 1, Len(q))
        IN  \/ i = Len(q) + 1 /\ EndTask(p, stamps) /\ UNCHANGED sent
            \/ /\ i <= Len(q) /\ ~Deduped(p, q[i])
               /\ \E h \in Heats :
                    \/ /\ q[i] \in Quick /\ Checks(h)
                       /\ Execute(p, q[i], h, rest, stamps)
                    \/ /\ q[i] \notin Quick
                       /\ Wait(p, "ai", q[i], h, rest) /\ Stamp(p, stamps)
                       /\ UNCHANGED sent

Distinct(q) == \A i, j \in 1..Len(q) : q[i] = q[j] => i = j
Candles == {q \in UNION {[1..n -> Keys] : n \in 1..MaxCandles} : Distinct(q)}

Candle(p) ==
    /\ pipe[p] = NoTask
    /\ \E q \in Candles : Look(p, q, {})
    /\ UNCHANGED <<clock, tracker, managed>>

\* Claude answers: the guardrails run now.  A rejected setup may leave a stamp.
Claude(p) ==
    /\ pipe[p].pc = "ai"
    /\ LET t == pipe[p]
       IN  \/ Checks(t.heat) /\ Execute(p, t.key, t.heat, t.rest, {})
           \/ Look(p, t.rest, {})
           \/ Look(p, t.rest, {t.key})
    /\ UNCHANGED <<clock, tracker, managed>>

\* The pending entry is cancelled, unless it filled or is gone.
Replace(p) ==
    /\ LET t == pipe[p]
           m == managed[p]
       IN  \/ /\ t.pc = "cancel" /\ m # None /\ m.phase = "pending"
              /\ managed' = [managed EXCEPT ![p] = None]
              /\ tracker' = Cancelled(tracker, p, "long", m.ts)
              /\ Wait(p, "place", t.key, t.heat, t.rest) /\ Send(p, t.key)
              /\ UNCHANGED dedup
           \/ /\ t.pc = "cancelled"
              /\ Wait(p, "place", t.key, t.heat, t.rest) /\ Send(p, t.key)
              /\ UNCHANGED <<managed, tracker, dedup>>
           \/ /\ t.pc = "cancel" /\ EndTask(p, {t.key})
              /\ UNCHANGED <<managed, tracker, sent>>
    /\ UNCHANGED clock

\* Mutant: the key is stamped only when the order was seen to be placed.
PlacedStampsSuccess(p) ==
    /\ pipe[p].pc = "place"
    /\ LET t == pipe[p]
       IN  \/ /\ managed' = [managed EXCEPT ![p] =
                    [phase |-> "pending", ts |-> clock, heat |-> t.heat]]
              /\ tracker' = Opened(tracker, [pair |-> p, dir |-> "long", ts |-> clock,
                                phase |-> "pending", heat |-> t.heat], clock)
              /\ EndTask(p, {t.key})
           \/ EndTask(p, {}) /\ UNCHANGED <<managed, tracker>>
    /\ UNCHANGED <<clock, sent>>

\* The order is answered: on_trade_opened and register; or it is refused, or
\* its answer is lost and the order lives unseen.  The key is stamped in every
\* case, and the candle's other setups are not executed.
Placed(p) ==
    /\ pipe[p].pc = "place"
    /\ LET t == pipe[p]
       IN  /\ \/ /\ managed' = [managed EXCEPT ![p] =
                       [phase |-> "pending", ts |-> clock, heat |-> t.heat]]
                 /\ tracker' = Opened(tracker, [pair |-> p, dir |-> "long", ts |-> clock,
                                   phase |-> "pending", heat |-> t.heat], clock)
              \/ UNCHANGED <<managed, tracker>>
           /\ EndTask(p, {t.key})
    /\ UNCHANGED <<clock, sent>>

-----------------------------------------------------------------------------
(* The monitor.                                                            *)

Monitored(p, phases) == managed[p] # None /\ managed[p].phase \in phases

Fill(p) ==
    /\ Monitored(p, {"pending"})
    /\ managed' = [managed EXCEPT ![p].phase = "active"]
    /\ tracker' = Filled(tracker, p, "long", managed[p].ts)
    /\ UNCHANGED <<clock, dedup, pipe, sent>>

\* A position that filled is closed, possibly before it became active.
Close(p) ==
    /\ Monitored(p, {"pending", "active"})
    /\ managed' = [managed EXCEPT ![p] = None]
    /\ \E pnl \in PnlSteps :
         tracker' = Closed(tracker, p, "long", managed[p].ts, pnl, clock)
    /\ UNCHANGED <<clock, dedup, pipe, sent>>

\* An entry is cancelled: by the monitor, or by execute, which the monitor may
\* notice before execute goes on.
CancelEntry(p) ==
    /\ Monitored(p, {"pending"})
    /\ managed' = [managed EXCEPT ![p] = None]
    /\ tracker' = Cancelled(tracker, p, "long", managed[p].ts)
    /\ \/ UNCHANGED pipe
       \/ pipe[p].pc = "cancel" /\ pipe' = [pipe EXCEPT ![p].pc = "cancelled"]
    /\ UNCHANGED <<clock, dedup, sent>>

Next == \/ Tick
        \/ \E p \in Pairs : \/ Candle(p) \/ Claude(p) \/ Replace(p) \/ Placed(p)
                            \/ Fill(p) \/ Close(p) \/ CancelEntry(p)

Spec == Init /\ [][Next]_vars

-----------------------------------------------------------------------------
(* Properties.                                                             *)

RowType == [pair : Pairs, dir : {"long"}, ts : Nat,
            phase : {"pending", "active"}, heat : Heats]

\* The clock, the cache, the tasks and the positions are well formed.
TypeOK == /\ clock \in 0..MaxClock
          /\ dedup \in [Pairs \X Keys -> 0..MaxClock \cup {Never}]
          /\ sent \in [Pairs \X Keys -> 0..MaxClock \cup {Never}]
          /\ pipe \in [Pairs -> Task \cup {NoTask}]
          /\ managed \in [Pairs -> Position \cup {None}]
          /\ tracker \in TrackerOf(RowType)

\* The daily cap on trades (guardrails.py check_max_trades_today) counts closed
\* trades, so open positions and orders on their way pass it by; but never by
\* more than one per pair, less one.
Placing == {p \in Pairs : pipe[p].pc \in {"cancelled", "place"}}
Busy    == Placing \cup {p \in Pairs : managed[p] # None}
DayBound == TradesToday(tracker, clock) + Cardinality(Busy)
               <= MaxTrades - 1 + Cardinality(Pairs)

\* A task that places an order, or has only to go on to do so, has no position
\* on its pair: nothing the monitor does in the meantime is overwritten by register.
PlacingAlone == \A p \in Placing : managed[p] = None

\* The orders of one key are at least a TTL apart, also when the answer to the
\* first one was lost (pipeline_router.py:497: "NetworkError may mean the order
\* reached OKX").
StartsPlacing(p) == pipe[p].pc # "place" /\ pipe'[p].pc = "place"
LastSent(p, k)   == sent[<<p, k>>]
NoRepeat == [][\A p \in Pairs : StartsPlacing(p) =>
                  LET last == LastSent(p, pipe'[p].key)
                  IN  last # Never => clock - last >= DedupTTL]_vars

\* The Risk Service is told when the order is placed, not when it fills
\* (service.py:509: "prevents exceeding max positions").
OpenCap == Len(tracker.open) <= MaxOpen
=============================================================================
