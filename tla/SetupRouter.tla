----------------------------- MODULE SetupRouter ----------------------------
(***************************************************************************)
(* The router of setups (pipeline_router._process_pipeline_setup): what    *)
(* becomes of each setup of a candle, its ml_setups row                    *)
(* (ml_instrumentation.py), and Engine 1's live gate with its kill switch  *)
(* (engines/engine1_kill_switch.py).                                       *)
(*                                                                         *)
(* Setups of one pair and direction; a type stands for the deduplication   *)
(* key: "engine1" is a shadow type the gate may send live, "shadow" any    *)
(* other shadow type and "live" a type of the live path.  Races of two     *)
(* candles are RiskGate's.                                                 *)
(***************************************************************************)
EXTENDS Integers, Sequences, FiniteSets

CONSTANTS
    LiveTtl, ShadowTtl,     \* the two TTLs, in candles
    HistoryLimit,           \* trades the kill check fetches
    KillDrawdown, KillRun,  \* R and trades
    KillWindow, KillFactor, \* trades, and percent
    MaxRouterCandles, MaxTrades, \* bounds: candles, closed trades
    MaxSetups               \* bound: setups of a candle

ASSUME TtlAssumption == LiveTtl \in Nat /\ ShadowTtl \in Nat

Types  == {"engine1", "shadow", "live"}
Shadow == {"engine1", "shadow"}

VARIABLES
    clock,      \* candles so far
    queue,      \* types still to be routed in this candle
    slot,       \* live_executed
    stamp,      \* setup_dedup_cache by type (-1: none)
    sent,       \* ghost: the candle of a type's last order (-1: none)
    working,    \* types with a live trade
    closed      \* closed trades, oldest first: engine1's and others' results

routerVars == <<clock, queue, slot, stamp, sent, working, closed>>

RouterInit ==
    /\ clock = 0 /\ queue = <<>> /\ slot = FALSE
    /\ stamp = [t \in Types |-> -1] /\ sent = [t \in Types |-> -1]
    /\ working = {} /\ closed = <<>>

-----------------------------------------------------------------------------
(* The kill switch (evaluate_kill over the fetched trades).                *)

Engine1Only(trades) ==
    LET kept[i \in 0..Len(trades)] ==
            IF i = 0 THEN << >>
            ELSE IF trades[i].type = "engine1" THEN Append(kept[i - 1], trades[i]) ELSE kept[i - 1]
    IN  kept[Len(trades)]

\* fetch_recent_closed_trades: the last trades of every type.
Recent == IF Len(closed) <= HistoryLimit THEN closed
          ELSE SubSeq(closed, Len(closed) - HistoryLimit + 1, Len(closed))

\* One trade of the equity curve.
Drop(acc, t) ==
    LET equity == acc.equity + t.r
        peak   == IF equity > acc.peak THEN equity ELSE acc.peak
    IN  [equity |-> equity, peak |-> peak,
         worst |-> IF peak - equity > acc.worst THEN peak - equity ELSE acc.worst]

NoCurve == [equity |-> 0, peak |-> 0, worst |-> 0]

MaxDrawdown(trades) ==
    LET curve[i \in 0..Len(trades)] == IF i = 0 THEN NoCurve ELSE Drop(curve[i - 1], trades[i])
    IN  curve[Len(trades)].worst

TrailingLosses(trades) ==
    LET n == Len(trades)
    IN  Cardinality({i \in 1..n : \A j \in i..n : trades[j].r < 0})

SumOf(trades) ==
    LET sum[i \in 0..Len(trades)] == IF i = 0 THEN 0 ELSE sum[i - 1] + trades[i].r
    IN  sum[Len(trades)]

\* The profit factor of the last trades is below the floor.
PoorFactor(trades) ==
    LET last   == SubSeq(trades, Len(trades) - KillWindow + 1, Len(trades))
        gains  == SumOf(SelectSeq(last, LAMBDA t : t.r > 0))
        losses == -SumOf(SelectSeq(last, LAMBDA t : t.r < 0))
    IN  /\ Len(trades) >= KillWindow
        /\ IF losses = 0 THEN gains = 0 /\ KillFactor > 0 ELSE gains * 100 < KillFactor * losses

Kills(trades) ==
    trades # <<>> /\ (MaxDrawdown(trades) > KillDrawdown
                         \/ TrailingLosses(trades) >= KillRun \/ PoorFactor(trades))

\* _engine1_kill_check; a failing database answers FALSE.
KillCheck(dbUp) == dbUp /\ Kills(Engine1Only(Recent))

-----------------------------------------------------------------------------
(* A candle and its setups.                                                *)

Lists == {l \in UNION {[1..n -> Types] : n \in 1..MaxSetups} :
             \A i, j \in DOMAIN l : l[i] = l[j] => i = j}

CandleArrives ==
    /\ queue = <<>> /\ clock < MaxRouterCandles
    /\ clock' = clock + 1 /\ slot' = FALSE
    /\ queue' \in Lists
    /\ UNCHANGED <<stamp, sent, working, closed>>

Type == Head(queue)
Done == queue' = Tail(queue)

\* The data gate comes first, before the deduplication, and logs a row.
DataBlocked ==
    /\ queue # <<>> /\ Done
    /\ UNCHANGED <<clock, slot, stamp, sent, working, closed>>

Ttl(t) == IF t \in Shadow THEN ShadowTtl ELSE LiveTtl
Fresh(t) == stamp[t] # -1 /\ clock - stamp[t] < Ttl(t)

Deduplicated ==
    /\ queue # <<>> /\ Fresh(Type)
    /\ Done
    /\ UNCHANGED <<clock, slot, stamp, sent, working, closed>>

\* The setup is past the deduplication.  The gate sends an Engine 1 setup its
\* model scores well (it needs logged features) unless the kill switch is on.
GoesLive(scored, dbUp) == Type \notin Shadow
                             \/ (Type = "engine1" /\ scored /\ ~KillCheck(dbUp))

SentStamp == stamp' = [stamp EXCEPT ![Type] = clock]

\* The shadow path: out of scope, tracked, or too close to another shadow.
Shadowed ==
    /\ queue # <<>> /\ ~Fresh(Type) /\ Type \in Shadow
    /\ \E scored \in BOOLEAN, dbUp \in BOOLEAN :
          /\ ~GoesLive(scored, dbUp)
          /\ SentStamp \/ UNCHANGED stamp
    /\ Done
    /\ UNCHANGED <<clock, slot, sent, working, closed>>

\* A setup for the live path whose candle has had its order.
SlotTaken ==
    /\ queue # <<>> /\ ~Fresh(Type) /\ GoesLive(TRUE, TRUE) /\ slot
    /\ Done
    /\ UNCHANGED <<clock, slot, stamp, sent, working, closed>>

\* Halted, too small for the exchange, refused by the AI or by the risk
\* service.  Of these only a refusal for the distance of the stop is stamped.
Refused ==
    /\ queue # <<>> /\ ~Fresh(Type) /\ ~slot /\ GoesLive(TRUE, TRUE)
    /\ Done /\ (SentStamp \/ UNCHANGED stamp)
    /\ UNCHANGED <<clock, slot, sent, working, closed>>

\* Mutant of Placing: an order the exchange did not acknowledge is not stamped.
PlacingAcked(acked) ==
    stamp' = IF acked THEN [stamp EXCEPT ![Type] = clock] ELSE stamp

\* What execute() leaves in the cache, whether or not it succeeded.
Placing(acked) == SentStamp

TakesSlot(acked) == slot' = TRUE

\* The order goes out.  Without an acknowledgement it may rest all the same.
Executed ==
    /\ queue # <<>> /\ ~Fresh(Type) /\ ~slot /\ Type \notin working
    /\ \E scored, dbUp, acked, rests \in BOOLEAN :
          /\ GoesLive(scored, dbUp) /\ (acked => rests)
          /\ Done
          /\ Placing(acked) /\ TakesSlot(acked)
          /\ sent' = [sent EXCEPT ![Type] = clock]
          /\ working' = IF rests THEN working \cup {Type} ELSE working
    /\ UNCHANGED <<clock, closed>>

\* A working trade closes with a result in R.
TradeCloses(t, r) ==
    /\ t \in working /\ Len(closed) < MaxTrades
    /\ working' = working \ {t}
    /\ closed' = Append(closed, [type |-> IF t = "engine1" THEN t ELSE "other", r |-> r])
    /\ UNCHANGED <<clock, queue, slot, stamp, sent>>

RouterNext ==
    \/ CandleArrives \/ DataBlocked \/ Deduplicated \/ Shadowed
    \/ SlotTaken \/ Refused \/ Executed
    \/ \E t \in Types, r \in {-1, 1} : TradeCloses(t, r)

RouterSpec == RouterInit /\ [][RouterNext]_routerVars

-----------------------------------------------------------------------------
(* Properties.                                                             *)

\* The drawdown of the running peak is the worst sum of consecutive results.
DrawdownIsWorstDrop ==
    LET t == Engine1Only(closed)
    IN  \A i, j \in DOMAIN t : i <= j =>
            /\ MaxDrawdown(t) >= -SumOf(SubSeq(t, i, j))
            /\ MaxDrawdown(t) > 0 => \E a, b \in DOMAIN t :
                  a <= b /\ MaxDrawdown(t) = -SumOf(SubSeq(t, a, b))

\* One candle sends one order at most, acknowledged or not.
OneOrderPerCandle ==
    \A s, t \in Types : s # t /\ sent[s] # -1 => sent[s] # sent[t]

OrderApart(t, ttl) ==
    sent'[t] = sent[t] \/ sent[t] = -1 \/ sent'[t] - sent[t] >= ttl

\* Two orders of a live type are a TTL apart, also when the first was not
\* acknowledged and may rest at the exchange.
OrdersApart == [][OrderApart("live", LiveTtl)]_routerVars

\* The same of Engine 1's live orders, which the gate sends under a shadow
\* type's deduplication.
EngineOrdersApart == [][OrderApart("engine1", LiveTtl)]_routerVars

\* What the whole history would kill, the fetched trades kill.
KillCoversHistory == Kills(Engine1Only(closed)) => Kills(Engine1Only(Recent))
=============================================================================
