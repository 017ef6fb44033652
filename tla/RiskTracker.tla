---------------------------- MODULE RiskTracker ----------------------------
(***************************************************************************)
(* The guardrail state of the Risk Service (risk_service/state_tracker.py) *)
(* as a value, and its operations as functions on that value.              *)
(*                                                                         *)
(* A tracker value is the state RiskStateTracker keeps in memory; a store  *)
(* value is the seven bot-state keys it mirrors to Redis.  The modules     *)
(* that extend this one decide when the operations run and who calls them. *)
(*                                                                         *)
(* PnL is an integer number of risk units (the code keeps a fraction of    *)
(* capital), time is a number of clock ticks, and calendar days and weeks  *)
(* are intervals of ticks.  ISO week numbers, which repeat every year, are *)
(* modelled without the wrap: a store entry lives RedisTTL ticks, far less *)
(* than a year.                                                            *)
(***************************************************************************)
EXTENDS Integers, Sequences, SequencesExt

CONSTANTS
    TicksPerDay,    \* clock ticks in a UTC day
    DaysPerWeek,    \* days in a week (7 in the calendar)
    RedisTTL        \* ticks a saved bot-state key lives (_REDIS_TTL)

ASSUME CalendarAssumption == /\ TicksPerDay \in Nat \ {0}
                             /\ DaysPerWeek \in Nat \ {0}
ASSUME RedisTTLAssumption == RedisTTL \in Nat \ {0}

DayOf(t)  == t \div TicksPerDay
WeekOf(t) == t \div (TicksPerDay * DaysPerWeek)

NoLoss == -1        \* _last_loss_time is None

-----------------------------------------------------------------------------
(* The tracker in memory.                                                  *)

\* The trackers whose open rows are in Rows.
TrackerOf(Rows) ==
    [daily : Int, weekly : Int, lastLoss : Nat \cup {NoLoss},
     trades : Nat, day : Nat, week : Nat, open : Seq(Rows)]

\* A tracker built from nothing at time now (RiskStateTracker.__init__
\* before _load_from_redis).
Fresh(now) ==
    [daily    |-> 0,
     weekly   |-> 0,
     lastLoss |-> NoLoss,
     trades   |-> 0,
     day      |-> DayOf(now),
     week     |-> WeekOf(now),
     open     |-> <<>>]

\* Mutant of DateReset: the week's sum goes on.
DateResetDayOnly(t, now) ==
    [t EXCEPT !.daily  = IF t.day = DayOf(now) THEN @ ELSE 0,
              !.trades = IF t.day = DayOf(now) THEN @ ELSE 0,
              !.day    = DayOf(now),
              !.week   = WeekOf(now)]

\* _check_date_reset without its save: daily counters restart with the day,
\* the weekly sum with the week.
DateReset(t, now) ==
    [t EXCEPT !.daily  = IF t.day = DayOf(now) THEN @ ELSE 0,
              !.trades = IF t.day = DayOf(now) THEN @ ELSE 0,
              !.weekly = IF t.week = WeekOf(now) THEN @ ELSE 0,
              !.day    = DayOf(now),
              !.week   = WeekOf(now)]

\* Whether _check_date_reset finds a new day or week, and so saves.
ResetDue(t, now) == t.day # DayOf(now) \/ t.week # WeekOf(now)

\* _matches: the row of this pair and direction that was opened at ts.
Matches(row, pair, dir, ts) ==
    row.pair = pair /\ row.dir = dir /\ row.ts = ts

\* The first position of s whose row matches, 0 when there is none.
FirstMatch(s, pair, dir, ts) ==
    LET hits == {i \in 1..Len(s) : Matches(s[i], pair, dir, ts)}
    IN  IF hits = {} THEN 0
        ELSE CHOOSE i \in hits : \A j \in hits : i <= j

\* Mutant of Removed: pops the oldest row, whoever it belongs to.
RemovedOldest(s, pair, dir, ts) == IF s = <<>> THEN s ELSE Tail(s)

\* The loops of record_trade_closed and record_trade_cancelled: pop the first
\* matching row, leave the list alone when no row matches.
Removed(s, pair, dir, ts) ==
    LET i == FirstMatch(s, pair, dir, ts)
    IN  IF i = 0 THEN s ELSE RemoveAt(s, i)

Opened(t, row, now) ==
    LET r == DateReset(t, now)
    IN  [r EXCEPT !.open = Append(@, row)]

\* Mutant of Filled: a phase name that nothing else uses.
FilledMisnamed(t, pair, dir, ts) ==
    [t EXCEPT !.open = [i \in 1..Len(t.open) |->
        IF Matches(t.open[i], pair, dir, ts)
        THEN [t.open[i] EXCEPT !.phase = "filled"] ELSE t.open[i]]]

\* record_trade_filled: the first matching row that is still pending becomes
\* active; no date reset.
Filled(t, pair, dir, ts) ==
    LET hits == {i \in 1..Len(t.open) :
                    /\ Matches(t.open[i], pair, dir, ts)
                    /\ t.open[i].phase = "pending"}
    IN  IF hits = {} THEN t
        ELSE LET i == CHOOSE i \in hits : \A j \in hits : i <= j
             IN  [t EXCEPT !.open[i].phase = "active"]

Closed(t, pair, dir, ts, pnl, now) ==
    LET r == DateReset(t, now)
    IN  [r EXCEPT !.open     = Removed(@, pair, dir, ts),
                  !.trades   = @ + 1,
                  !.daily    = @ + pnl,
                  !.weekly   = @ + pnl,
                  !.lastLoss = IF pnl < 0 THEN now ELSE @]

\* Mutant of Cancelled: the row stays.
CancelledKept(t, pair, dir, ts) == t

\* record_trade_cancelled: the order never filled, so neither the counters
\* nor the date are touched.
Cancelled(t, pair, dir, ts) == [t EXCEPT !.open = Removed(@, pair, dir, ts)]

-----------------------------------------------------------------------------
(* The Redis mirror: each key holds a value and the tick it expires at.    *)

SaveOrder == <<"daily", "weekly", "lastLoss", "trades", "day", "week", "open">>

EmptyStore ==
    [k \in ToSet(SaveOrder) |-> [val |-> Fresh(0)[k], exp |-> 0]]

\* _save_to_redis: the keys are written one by one, and an exception skips
\* the rest, so that the first n of them are written.  n = Len(SaveOrder) is a
\* complete save.
Saved(store, t, n, now) ==
    [k \in DOMAIN store |->
        IF \E i \in 1..n : SaveOrder[i] = k
        THEN [val |-> t[k], exp |-> now + RedisTTL]
        ELSE store[k]]

Live(store, k, now) == store[k].exp > now

\* _load_from_redis over a fresh tracker.
Loaded(store, now) ==
    LET fresh     == Fresh(now)
        sameDay   == store["day"].val = fresh.day
        sameWeek  == Live(store, "week", now) /\ store["week"].val = fresh.week
        Val(k, c) == IF c /\ Live(store, k, now) THEN store[k].val ELSE fresh[k]
    IN  IF ~Live(store, "day", now) THEN fresh
        ELSE [fresh EXCEPT !.daily    = Val("daily", sameDay),
                           !.trades   = Val("trades", sameDay),
                           !.weekly   = Val("weekly", sameWeek),
                           !.lastLoss = Val("lastLoss", TRUE),
                           !.open     = Val("open", TRUE)]

\* Mutant of Reconciled: the count is left as Redis had it.
ReconciledPnlOnly(t, db) ==
    [t EXCEPT !.daily  = IF db.daily < @ THEN db.daily ELSE @,
              !.weekly = IF db.weekly < @ THEN db.weekly ELSE @]

\* Mutant of Reconciled: the better PnL wins.
ReconciledBetter(t, db) ==
    [t EXCEPT !.daily  = IF db.daily > @ THEN db.daily ELSE @,
              !.weekly = IF db.weekly > @ THEN db.weekly ELSE @,
              !.trades = IF db.count > @ THEN db.count ELSE @]

\* reconcile_drawdown_from_db: the worse PnL and the larger count win.
Reconciled(t, db) ==
    [t EXCEPT !.daily  = IF db.daily < @ THEN db.daily ELSE @,
              !.weekly = IF db.weekly < @ THEN db.weekly ELSE @,
              !.trades = IF db.count > @ THEN db.count ELSE @]

-----------------------------------------------------------------------------
(* What the getters return at time now: they run _check_date_reset first.  *)

DailyPnl(t, now)  == DateReset(t, now).daily
WeeklyPnl(t, now) == DateReset(t, now).weekly
TradesToday(t, now) == DateReset(t, now).trades
HasRow(t, pair, dir, ts) ==
    \E i \in 1..Len(t.open) : Matches(t.open[i], pair, dir, ts)
=============================================================================
