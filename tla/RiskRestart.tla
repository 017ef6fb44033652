---------------------------- MODULE RiskRestart ----------------------------
(***************************************************************************)
(* The guardrail state across the life of the process: trades open, fill   *)
(* and close while the bot is up; it is stopped or it crashes; it starts   *)
(* again, restores what Redis and PostgreSQL hold and adopts the positions *)
(* it finds on the exchange (main.py, risk_service/state_tracker.py,       *)
(* execution_service/service.py).                                          *)
(*                                                                         *)
(* The position lifecycle is reduced to what the tracker is told about it; *)
(* PositionMonitor models it in full.                                      *)
(***************************************************************************)
EXTENDS RiskTracker, FiniteSets

CONSTANTS
    Pairs,          \* TRADING_PAIRS
    Dirs,           \* directions a setup may have
    PnlSteps,       \* PnL a close may realise, in risk units
    Cooldown,       \* COOLDOWN_MINUTES in ticks
    RedisAtInit,    \* Redis is connected when the tracker is built: not so as
                    \* deployed, where DataService connects after main built it
    SavePrefixes,   \* how many keys a save may write before Redis raises
    Faults,         \* what else may fail, a subset of FaultKinds
    MaxClock,       \* bound: ticks a behaviour may last
    MaxCloses,      \* bound: closes recorded
    MaxRestarts     \* bound: times the process starts after the first

\* dbWrite: an insert or update of a trade fails.  dbRead: PostgreSQL is
\* unreachable at startup.  sync: fetch_position returns None.  second: the
\* clock may tick between the two int(time.time()) of one handler.
FaultKinds == {"dbWrite", "dbRead", "sync", "second"}

ASSUME PairsAssumption  == NoLoss \notin Pairs
ASSUME PnlAssumption    == PnlSteps \subseteq Int
ASSUME CooldownAssumption == Cooldown \in Nat
ASSUME FlagsAssumption  == RedisAtInit \in BOOLEAN /\ Faults \subseteq FaultKinds
ASSUME SaveAssumption   == SavePrefixes \subseteq 0..Len(SaveOrder)
ASSUME BoundsAssumption == {MaxClock, MaxCloses, MaxRestarts} \subseteq Nat

VARIABLES
    clock,      \* current tick
    status,     \* "up", "syncing" (startup), "stopping" (shutdown), "down"
    todo,       \* pairs the startup or shutdown loop has still to visit
    connected,  \* the Redis client exists
    tracker,    \* RiskStateTracker in memory
    redis,      \* the bot-state keys
    db,         \* closed trades in PostgreSQL: this day's and week's sums
    exchange,   \* per pair: "flat", "resting" (an entry order) or "held"
    managed,    \* per pair: the position the monitor manages, or NoPosition
    real,       \* ghost: PnL and losses of the closes recorded so far
    lost,       \* ghost: what of this day's and week's PnL the last start found
                \* no record of in PostgreSQL
    restarts    \* bound: starts so far

vars == <<clock, status, todo, connected, tracker, redis, db, exchange,
          managed, real, lost, restarts>>

NoPosition == [phase |-> "none"]
Position == [pair : Pairs, dir : Dirs, ts : Nat, phase : {"pending", "active"},
             stored : BOOLEAN]      \* stored: db_trade_id is set
IsManaged(p) == managed[p] # NoPosition

NoTrades == [daily |-> 0, weekly |-> 0, count |-> 0]
NoCloses == [daily |-> 0, weekly |-> 0, dailyLoss |-> 0, weeklyLoss |-> 0,
             lastLoss |-> NoLoss, closes |-> 0]

Row(m) == [pair |-> m.pair, dir |-> m.dir, ts |-> m.ts, phase |-> m.phase]

-----------------------------------------------------------------------------
Init ==
    /\ clock = 0
    /\ status = "up"
    /\ todo = {}
    /\ connected = RedisAtInit
    /\ tracker = Fresh(0)
    /\ redis = EmptyStore
    /\ db = NoTrades
    /\ exchange = [p \in Pairs |-> "flat"]
    /\ managed = [p \in Pairs |-> NoPosition]
    /\ real = NoCloses
    /\ lost = [daily |-> 0, weekly |-> 0]
    /\ restarts = 0

\* Time passes: the day's and the week's sums, of the database and of the
\* ghost, start again when a new day or week begins.
Advance(now) ==
    LET newDay  == DayOf(now) # DayOf(clock)
        newWeek == WeekOf(now) # WeekOf(clock)
    IN  /\ now <= MaxClock
        /\ clock' = now
        /\ db' = [daily  |-> IF newDay THEN 0 ELSE db.daily,
                  weekly |-> IF newWeek THEN 0 ELSE db.weekly,
                  count  |-> IF newDay THEN 0 ELSE db.count]
        /\ real' = [real EXCEPT
                        !.daily      = IF newDay THEN 0 ELSE @,
                        !.dailyLoss  = IF newDay THEN 0 ELSE @,
                        !.weekly     = IF newWeek THEN 0 ELSE @,
                        !.weeklyLoss = IF newWeek THEN 0 ELSE @]
        /\ lost' = [daily  |-> IF newDay THEN 0 ELSE lost.daily,
                    weekly |-> IF newWeek THEN 0 ELSE lost.weekly]

Tick ==
    /\ Advance(clock + 1)
    /\ UNCHANGED <<status, todo, connected, tracker, redis, exchange, managed,
                   restarts>>

\* The ticks at which the second int(time.time()) of a handler may read the
\* clock.
LaterReads == {clock} \cup (IF "second" \in Faults THEN {clock + 1} ELSE {})

\* tracker' and redis' after an operation whose result is t; the date reset it
\* begins with, when it has one and finds a new day, saves as well.
\* RedisStore.set_bot_state does nothing while there is no client.
Record(t, resets) ==
    /\ tracker' = t
    /\ \E n, m \in SavePrefixes :
         LET base == IF resets /\ ResetDue(tracker, clock)
                     THEN Saved(redis, DateReset(tracker, clock), m, clock)
                     ELSE redis
         IN  redis' = IF connected THEN Saved(base, t, n, clock) ELSE redis

-----------------------------------------------------------------------------
(* Trading.                                                                *)

\* execute: the entry order is on the exchange; on_trade_opened and then
\* register, each with its own reading of the clock.
Place(p, d) ==
    /\ status \in {"up", "stopping"}
    /\ ~IsManaged(p)
    /\ exchange' = [exchange EXCEPT ![p] = IF @ = "held" THEN @ ELSE "resting"]
    /\ Record(Opened(tracker, [pair |-> p, dir |-> d, ts |-> clock,
                               phase |-> "pending"], clock), TRUE)
    /\ \E now \in LaterReads :
         /\ managed' = [managed EXCEPT ![p] =
                           [pair |-> p, dir |-> d, ts |-> now,
                            phase |-> "pending", stored |-> FALSE]]
         /\ Advance(now)
    /\ UNCHANGED <<status, todo, connected, restarts>>

\* The exchange fills a resting entry, or closes a position (SL, TP, a user),
\* whether or not the bot is up.
ExchangeFill(p) ==
    /\ exchange[p] = "resting"
    /\ exchange' = [exchange EXCEPT ![p] = "held"]
    /\ UNCHANGED <<clock, status, todo, connected, tracker, redis, db, managed,
                   real, lost, restarts>>

ExchangeExit(p) ==
    /\ exchange[p] = "held"
    /\ exchange' = [exchange EXCEPT ![p] = "flat"]
    /\ UNCHANGED <<clock, status, todo, connected, tracker, redis, db, managed,
                   real, lost, restarts>>

\* _on_entry_filled to its end: active, on_trade_filled, insert_trade.
Activate(p) ==
    LET m == managed[p]
    IN  /\ status = "up"
        /\ IsManaged(p) /\ m.phase = "pending" /\ exchange[p] = "held"
        /\ \E ok \in {TRUE} \cup (IF "dbWrite" \in Faults THEN {FALSE} ELSE {}) :
             managed' = [managed EXCEPT ![p].phase = "active", ![p].stored = ok]
        /\ LET t == Filled(tracker, m.pair, m.dir, m.ts)
           IN  IF t = tracker THEN UNCHANGED <<tracker, redis>>
               ELSE Record(t, FALSE)
        /\ UNCHANGED <<clock, status, todo, connected, db, exchange, real, lost,
                       restarts>>

\* _close_position of a position that traded: update_trade when the trade has a
\* row in the database, on_trade_closed, and the pair is free again.  Before it
\* is active a filled position has no row yet (an emergency, excessive_slippage
\* or sl_too_close close inside _on_entry_filled); an adopted one never has.
Close(p, pnl) ==
    LET m == managed[p]
    IN  /\ status \in {"up", "stopping"}
        /\ IsManaged(p)
        /\ m.phase = "active" \/ (m.phase = "pending" /\ exchange[p] = "held")
        /\ real.closes < MaxCloses
        /\ exchange' = [exchange EXCEPT ![p] = "flat"]
        /\ managed' = [managed EXCEPT ![p] = NoPosition]
        /\ Record(Closed(tracker, m.pair, m.dir, m.ts, pnl, clock), TRUE)
        /\ \E ok \in {m.stored} \cup (IF "dbWrite" \in Faults THEN {FALSE} ELSE {}) :
             db' = IF ok THEN [daily  |-> db.daily + pnl,
                               weekly |-> db.weekly + pnl,
                               count  |-> db.count + 1]
                   ELSE db
        /\ LET loss == IF pnl < 0 THEN -pnl ELSE 0
           IN  real' = [daily      |-> real.daily + pnl,
                        weekly     |-> real.weekly + pnl,
                        dailyLoss  |-> real.dailyLoss + loss,
                        weeklyLoss |-> real.weeklyLoss + loss,
                        lastLoss   |-> IF pnl < 0 THEN clock ELSE real.lastLoss,
                        closes     |-> real.closes + 1]
        /\ UNCHANGED <<clock, status, todo, connected, lost, restarts>>

\* _close_position(pos, "cancelled") after a cancel_order whose result is not
\* looked at: the entry may stay on the exchange, or have filled meanwhile.
Drop(p) ==
    LET m == managed[p]
    IN  /\ IsManaged(p) /\ m.phase = "pending"
        /\ exchange' \in {exchange,
                          [exchange EXCEPT ![p] = IF @ = "resting" THEN "flat"
                                                  ELSE @]}
        /\ managed' = [managed EXCEPT ![p] = NoPosition]
        /\ Record(Cancelled(tracker, m.pair, m.dir, m.ts), FALSE)

\* An entry times out, or the dashboard cancels it.
Cancel(p) ==
    /\ status = "up"
    /\ Drop(p)
    /\ UNCHANGED <<clock, status, todo, connected, db, real, lost, restarts>>

\* RiskService.check reads the limits; the getters reset the date.
ReadLimits ==
    /\ status \in {"up", "stopping"}
    /\ ResetDue(tracker, clock)
    /\ Record(DateReset(tracker, clock), FALSE)
    /\ UNCHANGED <<clock, status, todo, connected, db, exchange, managed, real, lost,
                   restarts>>

-----------------------------------------------------------------------------
(* The process.                                                            *)

\* DataService._connect_databases, run by the task that main creates after the
\* Risk and Execution Services have started.
Connect ==
    /\ status = "up" /\ ~connected
    /\ connected' = TRUE
    /\ UNCHANGED <<clock, status, todo, tracker, redis, db, exchange, managed,
                   real, lost, restarts>>

\* PositionMonitor.stop: the poll loop ends, then the pending entries of a
\* snapshot of the positions are cancelled one by one.
StopBegin ==
    /\ status = "up"
    /\ status' = "stopping"
    /\ todo' = {p \in Pairs : IsManaged(p)}
    /\ UNCHANGED <<clock, connected, tracker, redis, db, exchange, managed,
                   real, lost, restarts>>

StopPair(p) ==
    /\ status = "stopping" /\ p \in todo
    /\ todo' = todo \ {p}
    /\ IF IsManaged(p) /\ managed[p].phase = "pending"
       THEN Drop(p)
       ELSE UNCHANGED <<tracker, redis, exchange, managed>>
    /\ UNCHANGED <<clock, status, connected, db, real, lost, restarts>>

\* The process ends: its memory is gone.
Exit ==
    /\ status' = "down"
    /\ todo' = {}
    /\ connected' = FALSE
    /\ tracker' = Fresh(0)
    /\ managed' = [p \in Pairs |-> NoPosition]
    /\ UNCHANGED <<clock, redis, db, exchange, real, lost, restarts>>

StopEnd == status = "stopping" /\ todo = {} /\ Exit
Crash   == status # "down" /\ Exit

\* main up to ExecutionService.start: the tracker loads from Redis if there is
\* a client by then, and reconciles with PostgreSQL (which reports zeros when
\* it cannot be reached), saving if that changed anything.
Restart ==
    /\ status = "down" /\ restarts < MaxRestarts
    /\ status' = "syncing"
    /\ todo' = Pairs
    /\ connected' = RedisAtInit
    /\ \E seen \in {db} \cup (IF "dbRead" \in Faults THEN {NoTrades} ELSE {}) :
         LET t0 == IF RedisAtInit THEN Loaded(redis, clock) ELSE Fresh(clock)
             t  == Reconciled(t0, seen)
         IN  /\ tracker' = t
             /\ IF RedisAtInit /\ t # t0
                THEN \E n \in SavePrefixes : redis' = Saved(redis, t, n, clock)
                ELSE redis' = redis
         /\ lost' = [daily |-> real.daily - seen.daily, weekly |-> real.weekly - seen.weekly]
    /\ restarts' = restarts + 1
    /\ UNCHANGED <<clock, db, exchange, managed, real>>

\* One turn of sync_exchange_positions: a position found on the exchange is
\* adopted (register, then on_trade_opened with its own reading of the clock).
SyncPair(p) ==
    /\ status = "syncing" /\ p \in todo
    /\ todo' = todo \ {p}
    /\ \/ /\ exchange[p] = "held"
          /\ \E d \in Dirs, now \in LaterReads :
               /\ managed' = [managed EXCEPT ![p] =
                                 [pair |-> p, dir |-> d, ts |-> clock,
                                  phase |-> "active", stored |-> FALSE]]
               /\ Record(Opened(tracker, [pair |-> p, dir |-> d, ts |-> now,
                                          phase |-> "active"], now), TRUE)
               /\ Advance(now)
       \/ /\ exchange[p] # "held" \/ "sync" \in Faults
          /\ UNCHANGED <<clock, tracker, redis, db, managed, real, lost>>
    /\ UNCHANGED <<status, connected, exchange, restarts>>

SyncEnd ==
    /\ status = "syncing" /\ todo = {}
    /\ status' = "up"
    /\ UNCHANGED <<clock, todo, connected, tracker, redis, db, exchange,
                   managed, real, lost, restarts>>

Next ==
    \/ Tick \/ ReadLimits \/ Connect
    \/ StopBegin \/ StopEnd \/ Crash \/ Restart \/ SyncEnd
    \/ \E p \in Pairs :
         \/ \E d \in Dirs : Place(p, d)
         \/ ExchangeFill(p) \/ ExchangeExit(p)
         \/ Activate(p) \/ Cancel(p) \/ StopPair(p) \/ SyncPair(p)
         \/ \E pnl \in PnlSteps : Close(p, pnl)

Spec == Init /\ [][Next]_vars

-----------------------------------------------------------------------------
(* Properties.                                                             *)

Up == status # "down"

\* The state is well typed: in particular the monitor's positions and the rows
\* of the tracker have the fields the guardrails read.
RowType == [pair : Pairs, dir : Dirs, ts : Nat, phase : {"pending", "active"}]
KeyType(S) == [val : S, exp : Nat]
StoreType == [daily : KeyType(Int), weekly : KeyType(Int),
              lastLoss : KeyType(Nat \cup {NoLoss}), trades : KeyType(Nat),
              day : KeyType(Nat), week : KeyType(Nat), open : KeyType(Seq(RowType))]
TypeOK ==
    /\ clock \in Nat
    /\ status \in {"up", "syncing", "stopping", "down"}
    /\ todo \subseteq Pairs
    /\ connected \in BOOLEAN
    /\ tracker \in TrackerOf(RowType)
    /\ redis \in StoreType
    /\ exchange \in [Pairs -> {"flat", "resting", "held"}]
    /\ managed \in [Pairs -> Position \cup {NoPosition}]
    /\ \A p \in Pairs : IsManaged(p) => managed[p].pair = p
    /\ db \in [daily : Int, weekly : Int, count : Nat]
    /\ real \in [daily : Int, weekly : Int, dailyLoss : Nat, weeklyLoss : Nat,
                 lastLoss : Nat \cup {NoLoss}, closes : Nat]
    /\ lost \in [daily : Int, weekly : Int]
    /\ restarts \in Nat

\* Every position the monitor manages is counted by the open-positions
\* guardrail: its row is in the tracker until the very step that drops it,
\* across fills, restarts and adoption (service.py:510 places the row when the
\* order is placed, monitor.py:1383 and :1389 remove it).
TrackedHasRow ==
    \A p \in Pairs : IsManaged(p) =>
        HasRow(tracker, p, managed[p].dir, managed[p].ts)

\* The converse: the open-positions guardrail counts no position twice and none
\* that is gone; a leftover row would block a slot until the next restart.
OpenCountExact == Len(tracker.open) = Cardinality({p \in Pairs : IsManaged(p)})

\* A start forgets no loss that PostgreSQL has a row of, and from then on every
\* close counts, until the day or the week ends (main.py:242,
\* state_tracker.py:113 and :221): what the drawdown guardrails may miss is only
\* what the last start found no record of.
DrawdownCovered ==
    Up => /\ DailyPnl(tracker, clock) <= real.daily - lost.daily
          /\ WeeklyPnl(tracker, clock) <= real.weekly - lost.weekly

\* "never undercount drawdown after a restart" (state_tracker.py:296).  Fails: a
\* close without a row is in Redis only, which a start cannot read.
NoDrawdownUndercount ==
    Up => /\ DailyPnl(tracker, clock) <= real.daily
          /\ WeeklyPnl(tracker, clock) <= real.weekly

\* Nor do they see losses that were not made today or this week, even when a
\* save was cut short or a restart merged Redis with the database: the bot is
\* never halted by yesterday's loss.
DrawdownNotInvented ==
    Up => /\ -DailyPnl(tracker, clock) <= real.dailyLoss
          /\ -WeeklyPnl(tracker, clock) <= real.weeklyLoss

\* As long as a loss is less than Cooldown old, the cooldown guardrail knows of
\* it: "survives bot restarts without losing guardrail state"
\* (state_tracker.py:8).  Fails: it is restored from Redis only.
CooldownHonoured ==
    (Up /\ real.lastLoss # NoLoss /\ clock - real.lastLoss < Cooldown)
        => tracker.lastLoss = real.lastLoss

\* The trades-per-day guardrail counts at least the trades the database has
\* closed today.
TradeCapCovered == Up => TradesToday(tracker, clock) >= db.count
=============================================================================
