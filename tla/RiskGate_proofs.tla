-------------------------- MODULE RiskGate_proofs --------------------------
(***************************************************************************)
(* Theorems about RiskGate, for every set of pairs and keys, every limit   *)
(* of the guardrails and every bound.                                      *)
(***************************************************************************)
EXTENDS RiskGate, RiskTracker_proofs, FiniteSetTheorems

Stamps == [Pairs \X Keys -> 0..MaxClock \cup {Never}]
Pipes  == [Pairs -> Task \cup {NoTask}]

(***************************************************************************)
(* Types of what a candle task does.                                       *)
(***************************************************************************)

\* The rows of this module may become active.
LEMMA RowsMayActivate == MayActivate(RowType)
BY DEF MayActivate, RowType

\* Stamping keys keeps the cache's type; only keys of the set are stamped, with
\* the present time.
LEMMA StampType ==
    ASSUME TypeOK, NEW p \in Pairs, NEW ks, Stamp(p, ks)
    PROVE  /\ dedup' \in Stamps
           /\ \A q \in Pairs, k \in Keys :
                 dedup'[<<q, k>>] = IF q = p /\ k \in ks THEN clock ELSE dedup[<<q, k>>]
<1>1. clock \in 0..MaxClock /\ dedup \in Stamps
  BY DEF TypeOK, Stamps
<1>2. \A pk \in Pairs \X Keys :
         dedup'[pk] = IF pk[1] = p /\ pk[2] \in ks THEN clock ELSE dedup[pk]
  BY DEF Stamp
<1>3. dedup' \in Stamps
  BY <1>1 DEF Stamp, Stamps
<1> QED BY <1>2, <1>3

\* A task that waits is well typed, and the other tasks are as they were.
LEMMA WaitType ==
    ASSUME TypeOK, NEW p \in Pairs, NEW pc \in {"ai", "cancel", "place"},
           NEW k \in Keys, NEW h \in Heats, NEW rest \in Seq(Keys),
           Wait(p, pc, k, h, rest)
    PROVE  /\ pipe' \in Pipes
           /\ pipe'[p].pc = pc /\ pipe'[p].key = k /\ pipe'[p].rest = rest
           /\ \A q \in Pairs : q # p => pipe'[q] = pipe[q]
<1> DEFINE t == [pc |-> pc, key |-> k, heat |-> h, rest |-> rest]
<1>1. t \in Task
  BY DEF Task
<1>2. pipe \in Pipes /\ pipe' = [pipe EXCEPT ![p] = t]
  BY DEF TypeOK, Pipes, Wait
<1> HIDE DEF t
<1>3. pipe' \in Pipes /\ pipe'[p] = t /\ \A q \in Pairs : q # p => pipe'[q] = pipe[q]
  BY <1>1, <1>2 DEF Pipes
<1>4. t.pc = pc /\ t.key = k /\ t.rest = rest
  BY DEF t
<1> QED BY <1>3, <1>4

\* So is a task that ends.
LEMMA EndType ==
    ASSUME TypeOK, NEW p \in Pairs, NEW ks, EndTask(p, ks)
    PROVE  /\ pipe' \in Pipes /\ dedup' \in Stamps
           /\ pipe'[p] = NoTask
           /\ \A q \in Pairs : q # p => pipe'[q] = pipe[q]
BY StampType DEF EndTask, TypeOK, Pipes

\* Sending keeps the ghost's type, and dates one key.
LEMMA SendType ==
    ASSUME TypeOK, NEW p \in Pairs, NEW k \in Keys, Send(p, k)
    PROVE  /\ sent' \in Stamps
           /\ \A q \in Pairs, j \in Keys :
                 sent'[<<q, j>>] = IF q = p /\ j = k THEN clock ELSE sent[<<q, j>>]
<1>1. clock \in 0..MaxClock /\ sent \in Stamps
  BY DEF TypeOK, Stamps
<1> QED BY <1>1 DEF Send, Stamps

\* Where a task has only to go on to place its order, or is placing it.
Going == {"cancelled", "place"}

\* What a step of p's task leaves when it does not touch the positions.
Stepped(p) == /\ pipe' \in Pipes /\ dedup' \in Stamps /\ sent' \in Stamps
              /\ \A q \in Pairs : q # p => pipe'[q] = pipe[q]
              /\ pipe'[p].pc \in Going => managed[p] = None

\* execute up to its first await places an order only where no position is.
LEMMA ExecuteType ==
    ASSUME TypeOK, NEW p \in Pairs, NEW k \in Keys, NEW h \in Heats,
           NEW rest \in Seq(Keys), NEW ks, Execute(p, k, h, rest, ks)
    PROVE  Stepped(p)
<1>0. sent \in Stamps
  BY DEF TypeOK, Stamps
<1>1. CASE managed[p] = None
  <2>1. Wait(p, "place", k, h, rest) /\ Send(p, k) /\ Stamp(p, ks)
    BY <1>1 DEF Execute, None
  <2>2. /\ pipe' \in Pipes /\ pipe'[p].pc = "place"
        /\ \A q \in Pairs : q # p => pipe'[q] = pipe[q]
    BY <2>1, WaitType
  <2>3. sent' \in Stamps /\ dedup' \in Stamps
    BY <2>1, SendType, StampType
  <2> QED BY <1>1, <2>2, <2>3 DEF Stepped, Going
<1>2. CASE managed[p].phase = "pending"
  <2>1. Wait(p, "cancel", k, h, rest) /\ Stamp(p, ks) /\ UNCHANGED sent
    BY <1>2 DEF Execute, None
  <2>2. /\ pipe' \in Pipes /\ pipe'[p].pc = "cancel"
        /\ \A q \in Pairs : q # p => pipe'[q] = pipe[q]
    BY <2>1, WaitType
  <2>3. dedup' \in Stamps
    BY <2>1, StampType
  <2> QED BY <1>0, <2>1, <2>2, <2>3 DEF Stepped, Going
<1>3. CASE managed[p].phase = "active"
  <2>1. EndTask(p, ks \cup {k}) /\ UNCHANGED sent
    BY <1>3 DEF Execute, None
  <2>2. pipe'[p].pc = "idle"
    BY <2>1, EndType DEF NoTask
  <2> QED BY <1>0, <2>1, <2>2, EndType DEF Stepped, Going
<1> QED BY <1>1, <1>2, <1>3 DEF Execute

\* Looking through the setups places an order only where no position is and
\* the guardrails pass.
LEMMA LookType ==
    ASSUME TypeOK, NEW p \in Pairs, NEW q \in Seq(Keys), NEW ks, Look(p, q, ks)
    PROVE  /\ Stepped(p)
           /\ pipe'[p].pc \in Going => TradesToday(tracker, clock) < MaxTrades
<1>0. sent \in Stamps /\ Len(q) \in Nat
  BY DEF TypeOK, Stamps
<1>1. PICK i \in 1..(Len(q) + 1) : \E dropped \in SUBSET {q[j] : j \in 1..(i - 1)} :
        LET stamps == ks \cup {k \in dropped \cap Quick : ~Deduped(p, k)}
            rest   == SubSeq(q, i + 1, Len(q))
        IN  \/ i = Len(q) + 1 /\ EndTask(p, stamps) /\ UNCHANGED sent
            \/ /\ i <= Len(q) /\ ~Deduped(p, q[i])
               /\ \E h \in Heats :
                    \/ /\ q[i] \in Quick /\ Checks(h)
                       /\ Execute(p, q[i], h, rest, stamps)
                    \/ /\ q[i] \notin Quick
                       /\ Wait(p, "ai", q[i], h, rest) /\ Stamp(p, stamps)
                       /\ UNCHANGED sent
  BY DEF Look
<1> DEFINE rest == SubSeq(q, i + 1, Len(q))
<1>2. PICK stamps :
        \/ i = Len(q) + 1 /\ EndTask(p, stamps) /\ UNCHANGED sent
        \/ /\ i <= Len(q)
           /\ \E h \in Heats :
                \/ Checks(h) /\ Execute(p, q[i], h, rest, stamps)
                \/ Wait(p, "ai", q[i], h, rest) /\ Stamp(p, stamps) /\ UNCHANGED sent
  BY <1>1, Zenon
<1>3. CASE i = Len(q) + 1 /\ EndTask(p, stamps) /\ UNCHANGED sent
  <2>1. pipe'[p].pc = "idle"
    BY <1>3, EndType DEF NoTask
  <2> QED BY <1>0, <1>3, <2>1, EndType DEF Stepped, Going
<1>4. CASE i <= Len(q)
  <2>1. q[i] \in Keys /\ rest \in Seq(Keys)
    BY <1>0, <1>4
  <2> HIDE DEF rest
  <2>2. PICK h \in Heats :
          \/ Checks(h) /\ Execute(p, q[i], h, rest, stamps)
          \/ Wait(p, "ai", q[i], h, rest) /\ Stamp(p, stamps) /\ UNCHANGED sent
    BY <1>0, <1>2, <1>4
  <2>3. CASE Checks(h) /\ Execute(p, q[i], h, rest, stamps)
    <3>1. TradesToday(tracker, clock) < MaxTrades
      BY <2>3 DEF Checks
    <3> QED BY <2>1, <2>3, <3>1, ExecuteType
  <2>4. CASE Wait(p, "ai", q[i], h, rest) /\ Stamp(p, stamps) /\ UNCHANGED sent
    <3>1. /\ pipe' \in Pipes /\ pipe'[p].pc = "ai"
          /\ \A r \in Pairs : r # p => pipe'[r] = pipe[r]
      BY <2>1, <2>4, WaitType
    <3>2. dedup' \in Stamps
      BY <2>4, StampType
    <3> QED BY <1>0, <2>4, <3>1, <3>2 DEF Stepped, Going
  <2> QED BY <2>2, <2>3, <2>4
<1> QED BY <1>2, <1>3, <1>4

(***************************************************************************)
(* The trades of a day.                                                    *)
(***************************************************************************)

\* A later tick is never on an earlier day.
LEMMA DayMonotone ==
    ASSUME NEW t \in Nat
    PROVE  DayOf(t) <= DayOf(t + 1)
<1> DEFINE k == TicksPerDay
           a == t \div k
           b == (t + 1) \div k
<1>1. k \in Nat \ {0}
  BY CalendarAssumption
<1>2. a \in Nat /\ b \in Nat
  BY <1>1, DivNat
<1>3. k * a <= t /\ t + 1 < k * b + k
  <2>1. t = k * a + (t % k) /\ t % k \in 0..(k - 1)
    BY <1>1
  <2>2. t + 1 = k * b + ((t + 1) % k) /\ (t + 1) % k \in 0..(k - 1)
    BY <1>1
  <2> QED BY <1>1, <1>2, <2>1, <2>2
<1>4. DayOf(t) = a /\ DayOf(t + 1) = b
  BY DEF DayOf
<1> HIDE DEF a, b
<1>5. ~(b + 1 <= a)
  <2> SUFFICES ASSUME b + 1 <= a PROVE FALSE
    OBVIOUS
  <2>1. k * (b + 1) <= k * a
    BY <1>1, <1>2
  <2>2. k * (b + 1) = k * b + k
    BY <1>1, <1>2
  <2> QED BY <1>1, <1>2, <1>3, <2>1, <2>2
<1> QED BY <1>2, <1>4, <1>5

\* What get_trades_today_count returns.
LEMMA TradesTodayIs ==
    ASSUME NEW Rows, NEW t \in TrackerOf(Rows), NEW now \in Nat
    PROVE  /\ TradesToday(t, now) = IF t.day = DayOf(now) THEN t.trades ELSE 0
           /\ TradesToday(t, now) \in Nat
BY DEF TradesToday, DateReset, TrackerOf

\* Opening a position leaves the count alone and dates the tracker.
LEMMA OpenedTrades ==
    ASSUME NEW Rows, NEW t \in TrackerOf(Rows), NEW row \in Rows, NEW now \in Nat
    PROVE  /\ TradesToday(Opened(t, row, now), now) = TradesToday(t, now)
           /\ Opened(t, row, now).day = DayOf(now)
<1> DEFINE r == DateReset(t, now)
           o == Opened(t, row, now)
<1>1. r \in TrackerOf(Rows) /\ o \in TrackerOf(Rows)
  BY DateResetType, OpenedType
<1>2. r.day = DayOf(now)
  BY DEF DateReset, TrackerOf
<1>3. o.day = r.day /\ o.trades = r.trades
  <2> HIDE DEF r
  <2>1. o = [r EXCEPT !.open = Append(r.open, row)]
    BY DEF Opened, r
  <2> QED BY <1>1, <2>1 DEF TrackerOf
<1> HIDE DEF o
<1>4. TradesToday(o, now) = r.trades
  BY <1>1, <1>2, <1>3, TradesTodayIs
<1> QED BY <1>2, <1>3, <1>4 DEF TradesToday, o

\* Closing one counts it.
LEMMA ClosedTrades ==
    ASSUME NEW Rows, NEW t \in TrackerOf(Rows), NEW p, NEW d, NEW ts,
           NEW pnl \in Int, NEW now \in Nat
    PROVE  /\ TradesToday(Closed(t, p, d, ts, pnl, now), now)
                 = TradesToday(t, now) + 1
           /\ Closed(t, p, d, ts, pnl, now).day = DayOf(now)
<1> DEFINE r == DateReset(t, now)
           c == Closed(t, p, d, ts, pnl, now)
<1>1. r \in TrackerOf(Rows) /\ c \in TrackerOf(Rows)
  BY DateResetType, ClosedType
<1>2. r.day = DayOf(now)
  BY DEF DateReset, TrackerOf
<1>3. c.day = r.day /\ c.trades = r.trades + 1
  <2> HIDE DEF r
  <2>1. c = [r EXCEPT !.open     = Removed(r.open, p, d, ts),
                      !.trades   = r.trades + 1,
                      !.daily    = r.daily + pnl,
                      !.weekly   = r.weekly + pnl,
                      !.lastLoss = IF pnl < 0 THEN now ELSE r.lastLoss]
    BY DEF Closed, r
  <2> QED BY <1>1, <2>1 DEF TrackerOf
<1> HIDE DEF c
<1>4. TradesToday(c, now) = r.trades + 1
  BY <1>1, <1>2, <1>3, TradesTodayIs
<1> QED BY <1>2, <1>3, <1>4 DEF TradesToday, c

\* Filling and cancelling touch neither the count nor the date.
LEMMA RowChangeTrades ==
    ASSUME NEW Rows, MayActivate(Rows), NEW t \in TrackerOf(Rows),
           NEW p, NEW d, NEW ts, NEW now \in Nat,
           NEW u \in {Filled(t, p, d, ts), Cancelled(t, p, d, ts)}
    PROVE  TradesToday(u, now) = TradesToday(t, now) /\ u.day = t.day
<1>1. u \in TrackerOf(Rows)
  BY FilledType, CancelledType
<1>2. u.day = t.day /\ u.trades = t.trades
  BY DEF Filled, Cancelled, TrackerOf
<1> QED BY <1>1, <1>2, TradesTodayIs

(***************************************************************************)
(* The invariant: the tracker is never ahead of the clock, a task that     *)
(* places an order is alone on its pair, and the day's trades are bounded. *)
(* DayBound is not inductive without the others: a close frees its pair    *)
(* only because no task is placing an order on it, and a tick lowers the   *)
(* day's count only because the tracker has no future day.                 *)
(***************************************************************************)

DayKnown == tracker.day <= DayOf(clock)
Inv == TypeOK /\ DayKnown /\ PlacingAlone /\ DayBound

\* What a step must show for the invariant to hold after it.
Kept == /\ TypeOK' /\ DayKnown' /\ PlacingAlone'
        /\ \/ /\ TradesToday(tracker, clock)' <= TradesToday(tracker, clock)
              /\ Busy' \subseteq Busy
           \/ TradesToday(tracker, clock)' < MaxTrades
           \/ /\ TradesToday(tracker, clock)' = TradesToday(tracker, clock) + 1
              /\ \E p \in Busy : Busy' \subseteq Busy \ {p}

\* The busy pairs are finitely many.
LEMMA BusyFinite ==
    ASSUME NEW S, S \subseteq Pairs
    PROVE  /\ IsFiniteSet(S) /\ Cardinality(S) \in Nat
           /\ Cardinality(Pairs) \in Nat /\ Cardinality(S) <= Cardinality(Pairs)
BY PairsAssumption, FS_Subset, FS_CardinalityType

\* A step that shows Kept keeps the bound: it frees as many pairs as it counts
\* trades, or the guardrails have passed in it.
LEMMA KeptBound ==
    ASSUME Inv, Kept
    PROVE  Inv'
<1> DEFINE B == Cardinality(Busy)
           C == Cardinality(Busy')
           N == Cardinality(Pairs)
           T == TradesToday(tracker, clock)
           U == TradesToday(tracker, clock)'
<1>1. /\ Busy \subseteq Pairs /\ Busy' \subseteq Pairs
      /\ IsFiniteSet(Busy) /\ IsFiniteSet(Busy') /\ B \in Nat /\ C \in Nat
      /\ N \in Nat /\ C <= N
  <2>1. Busy \subseteq Pairs /\ Busy' \subseteq Pairs
    BY DEF Busy, Placing
  <2> QED BY <2>1, BusyFinite
<1>2. T \in Nat /\ U \in Nat /\ MaxTrades \in Nat
  <2>1. tracker \in TrackerOf(RowType) /\ clock \in Nat
    BY DEF Inv, TypeOK
  <2>2. tracker' \in TrackerOf(RowType) /\ clock' \in Nat
    BY DEF Kept, TypeOK
  <2>3. U = TradesToday(tracker', clock')
    OBVIOUS
  <2> QED BY <2>1, <2>2, <2>3, TradesTodayIs, LimitsAssumption
<1>3. T + B <= MaxTrades - 1 + N
  BY DEF Inv, DayBound
<1>4. U + C <= MaxTrades - 1 + N
  <2>1. CASE U <= T /\ Busy' \subseteq Busy
    <3>1. C <= B
      BY <1>1, <2>1, FS_Subset
    <3> QED BY <1>1, <1>2, <1>3, <2>1, <3>1
  <2>2. CASE U < MaxTrades
    BY <1>1, <1>2, <2>2
  <2>3. CASE U = T + 1 /\ \E p \in Busy : Busy' \subseteq Busy \ {p}
    <3>1. PICK p \in Busy : Busy' \subseteq Busy \ {p}
      BY <2>3
    <3>2. IsFiniteSet(Busy \ {p}) /\ Cardinality(Busy \ {p}) = B - 1
      BY <1>1, FS_RemoveElement
    <3>3. C <= B - 1
      BY <3>1, <3>2, FS_Subset
    <3> QED BY <1>1, <1>2, <1>3, <2>3, <3>3
  <2> QED BY <2>1, <2>2, <2>3 DEF Kept
<1>5. DayBound'
  BY <1>4 DEF DayBound
<1> QED BY <1>5 DEF Kept, Inv

\* The initial state: nothing is open, nothing was traded.
LEMMA InitInv == Init => Inv
<1> SUFFICES ASSUME Init PROVE Inv
  OBVIOUS
<1>1. Fresh(0) \in TrackerOf(RowType)
  BY FreshType
<1>2. clock = 0 /\ tracker = Fresh(0) /\ 0 \in 0..MaxClock
  BY LimitsAssumption DEF Init
<1>3. TypeOK
  BY <1>1, <1>2 DEF TypeOK, Init
<1>4. DayKnown
  <2>1. tracker.day = DayOf(0) /\ DayOf(0) \in Nat
    BY <1>2, CalendarType DEF Fresh
  <2> QED BY <1>2, <2>1 DEF DayKnown
<1>5. Busy = {} /\ Placing = {}
  BY DEF Busy, Placing, Init, NoTask
<1>6. TradesToday(tracker, clock) = 0
  <2>1. tracker.trades = 0
    BY <1>2 DEF Fresh
  <2> QED BY <1>1, <1>2, <2>1, TradesTodayIs
<1>7. Cardinality(Pairs) \in Nat /\ Cardinality({}) = 0
  BY PairsAssumption, FS_CardinalityType, FS_EmptySet
<1>8. DayBound
  BY <1>5, <1>6, <1>7, LimitsAssumption DEF DayBound
<1> QED BY <1>3, <1>4, <1>5, <1>8 DEF Inv, PlacingAlone

\* Time passes: the count of the day stays or starts again.
LEMMA TickKept ==
    ASSUME Inv, Tick
    PROVE  Kept
<1>1. clock \in Nat /\ clock + 1 \in 0..MaxClock /\ clock' = clock + 1
  BY LimitsAssumption DEF Inv, TypeOK, Tick
<1>2. /\ tracker' = tracker /\ dedup' = dedup /\ pipe' = pipe
      /\ managed' = managed /\ sent' = sent
  BY DEF Tick
<1>3. TypeOK'
  BY <1>1, <1>2 DEF Inv, TypeOK
<1>4. tracker \in TrackerOf(RowType) /\ tracker.day \in Nat
  BY DEF Inv, TypeOK, TrackerOf
<1>5. DayOf(clock) \in Nat /\ DayOf(clock + 1) \in Nat /\ DayOf(clock) <= DayOf(clock + 1)
  BY <1>1, CalendarType, DayMonotone
<1>6. tracker.day <= DayOf(clock)
  BY DEF Inv, DayKnown
<1>7. DayKnown'
  <2>1. tracker.day <= DayOf(clock + 1)
    BY <1>4, <1>5, <1>6
  <2> QED BY <2>1, <1>1, <1>2 DEF DayKnown
<1>8. Busy' = Busy /\ PlacingAlone'
  BY <1>2 DEF Inv, PlacingAlone, Busy, Placing
<1>9. \/ TradesToday(tracker, clock + 1) <= TradesToday(tracker, clock)
      \/ TradesToday(tracker, clock + 1) < MaxTrades
  <2>1. CASE tracker.day = DayOf(clock + 1)
    <3>1. tracker.day = DayOf(clock)
      BY <1>4, <1>5, <1>6, <2>1
    <3> QED BY <1>1, <1>4, <2>1, <3>1, TradesTodayIs
  <2>2. CASE tracker.day # DayOf(clock + 1)
    BY <1>1, <1>4, <2>2, TradesTodayIs, LimitsAssumption
  <2> QED BY <2>1, <2>2
<1>10. TradesToday(tracker, clock)' = TradesToday(tracker, clock + 1)
  BY <1>1, <1>2
<1> QED BY <1>3, <1>7, <1>8, <1>9, <1>10 DEF Kept

\* A step of a task that touches no position and places only what the
\* guardrails pass.
LEMMA TaskKept ==
    ASSUME Inv, NEW p \in Pairs, Stepped(p), UNCHANGED <<clock, tracker, managed>>,
           pipe'[p].pc \in Going => TradesToday(tracker, clock) < MaxTrades
    PROVE  Kept
<1>1. clock' = clock /\ tracker' = tracker /\ managed' = managed
  OBVIOUS
<1>2. TypeOK'
  BY <1>1 DEF Inv, TypeOK, Stepped, Pipes, Stamps
<1>3. DayKnown'
  BY <1>1 DEF Inv, DayKnown
<1>4. \A q \in Pairs : q # p => pipe'[q] = pipe[q]
  BY DEF Stepped
<1>5. PlacingAlone'
  BY <1>1, <1>4 DEF Inv, PlacingAlone, Placing, Stepped, Going
<1>6. TradesToday(tracker, clock)' = TradesToday(tracker, clock)
  BY <1>1
<1>7. pipe'[p].pc \notin Going => Busy' \subseteq Busy
  BY <1>1, <1>4 DEF Busy, Placing, Going
<1>8. TradesToday(tracker, clock) \in Nat
  BY TradesTodayIs DEF Inv, TypeOK
<1> QED BY <1>2, <1>3, <1>5, <1>6, <1>7, <1>8 DEF Kept

\* A candle of a pair whose task is idle.
LEMMA CandleKept ==
    ASSUME Inv, NEW p \in Pairs, Candle(p)
    PROVE  Kept
<1>1. PICK q \in Candles : Look(p, q, {})
  BY DEF Candle
<1>2. q \in Seq(Keys)
  BY DEF Candles
<1> QED BY <1>1, <1>2, LookType, TaskKept DEF Candle, Inv

\* Claude's answer.
LEMMA ClaudeKept ==
    ASSUME Inv, NEW p \in Pairs, Claude(p)
    PROVE  Kept
<1> DEFINE t == pipe[p]
<1>1. t \in Task
  BY DEF Inv, TypeOK, Claude, NoTask
<1>2. t.key \in Keys /\ t.heat \in Heats /\ t.rest \in Seq(Keys)
  BY <1>1 DEF Task
<1>3. \/ Checks(t.heat) /\ Execute(p, t.key, t.heat, t.rest, {})
      \/ Look(p, t.rest, {})
      \/ Look(p, t.rest, {t.key})
  BY DEF Claude
<1>4. UNCHANGED <<clock, tracker, managed>> /\ TypeOK
  BY DEF Claude, Inv
<1> HIDE DEF t
<1>5. CASE Checks(t.heat) /\ Execute(p, t.key, t.heat, t.rest, {})
  <2>1. TradesToday(tracker, clock) < MaxTrades
    BY <1>5 DEF Checks
  <2>2. Stepped(p)
    BY <1>2, <1>4, <1>5, ExecuteType
  <2> QED BY <1>4, <2>1, <2>2, TaskKept
<1>6. CASE Look(p, t.rest, {})
  BY <1>2, <1>4, <1>6, LookType, TaskKept
<1>7. CASE Look(p, t.rest, {t.key})
  BY <1>2, <1>4, <1>7, LookType, TaskKept
<1> QED BY <1>3, <1>5, <1>6, <1>7

\* Filling or cancelling a row changes neither date nor count.
LEMMA RowChangeKept ==
    ASSUME Inv, clock' = clock, NEW p, NEW d, NEW ts,
           tracker' \in {Filled(tracker, p, d, ts), Cancelled(tracker, p, d, ts)}
    PROVE  /\ tracker' \in TrackerOf(RowType) /\ DayKnown'
           /\ TradesToday(tracker, clock)' = TradesToday(tracker, clock)
<1>1. tracker \in TrackerOf(RowType) /\ clock \in Nat
  BY DEF Inv, TypeOK
<1>2. tracker' \in TrackerOf(RowType)
  BY <1>1, FilledType, CancelledType, RowsMayActivate
<1>3. TradesToday(tracker', clock) = TradesToday(tracker, clock) /\ tracker'.day = tracker.day
  BY <1>1, RowChangeTrades, RowsMayActivate
<1> QED BY <1>2, <1>3 DEF Inv, DayKnown

\* The cancellation of the pending entry that is replaced.
LEMMA ReplaceKept ==
    ASSUME Inv, NEW p \in Pairs, Replace(p)
    PROVE  Kept
<1> DEFINE t == pipe[p]
           m == managed[p]
<1>1. t \in Task /\ clock' = clock /\ TypeOK
  BY DEF Inv, TypeOK, Replace, NoTask
<1>2. t.key \in Keys /\ t.heat \in Heats /\ t.rest \in Seq(Keys)
  BY <1>1 DEF Task
<1>3. CASE /\ m # None /\ m.phase = "pending"
           /\ managed' = [managed EXCEPT ![p] = None]
           /\ tracker' = Cancelled(tracker, p, "long", m.ts)
           /\ Wait(p, "place", t.key, t.heat, t.rest) /\ Send(p, t.key)
           /\ UNCHANGED dedup
  <2> HIDE DEF t
  <2>1. /\ tracker' \in TrackerOf(RowType) /\ DayKnown'
        /\ TradesToday(tracker, clock)' = TradesToday(tracker, clock)
        /\ TradesToday(tracker, clock) \in Nat
    BY <1>1, <1>3, RowChangeKept, TradesTodayIs DEF Inv, TypeOK
  <2>2. pipe' \in Pipes /\ \A q \in Pairs : q # p => pipe'[q] = pipe[q]
    BY <1>1, <1>2, <1>3, WaitType
  <2>3. sent' \in Stamps /\ dedup' \in Stamps
    BY <1>1, <1>2, <1>3, SendType DEF TypeOK, Stamps
  <2>4. /\ managed' \in [Pairs -> Position \cup {None}] /\ managed'[p] = None
        /\ \A q \in Pairs : q # p => managed'[q] = managed[q]
    BY <1>1, <1>3 DEF TypeOK
  <2>5. TypeOK'
    BY <1>1, <2>1, <2>2, <2>3, <2>4 DEF TypeOK, Pipes, Stamps
  <2>6. PlacingAlone'
    BY <2>2, <2>4 DEF Inv, PlacingAlone, Placing
  <2>7. Busy' \subseteq Busy
    BY <1>3, <2>2, <2>4 DEF Busy, Placing
  <2> QED BY <2>1, <2>5, <2>6, <2>7 DEF Kept
<1>4. CASE EndTask(p, {t.key}) /\ UNCHANGED <<managed, tracker, sent>>
  <2>1. pipe'[p].pc = "idle" /\ Stepped(p)
    BY <1>1, <1>4, EndType DEF Stepped, Going, NoTask, TypeOK, Stamps
  <2> QED BY <1>1, <1>4, <2>1, TaskKept DEF Going
<1>5. CASE /\ t.pc = "cancelled"
           /\ Wait(p, "place", t.key, t.heat, t.rest) /\ Send(p, t.key)
           /\ UNCHANGED <<managed, tracker, dedup>>
  <2>1. p \in Placing
    BY <1>5 DEF Placing
  <2> HIDE DEF t
  <2>2. pipe' \in Pipes /\ \A q \in Pairs : q # p => pipe'[q] = pipe[q]
    BY <1>1, <1>2, <1>5, WaitType
  <2>3. sent' \in Stamps
    BY <1>1, <1>2, <1>5, SendType
  <2>4. TypeOK'
    BY <1>1, <1>5, <2>2, <2>3 DEF TypeOK, Pipes, Stamps
  <2>5. DayKnown'
    BY <1>1, <1>5 DEF Inv, DayKnown
  <2>6. Placing' \subseteq Placing
    BY <2>1, <2>2 DEF Placing
  <2>7. PlacingAlone' /\ Busy' \subseteq Busy
    BY <1>5, <2>6 DEF Inv, PlacingAlone, Busy
  <2>8. /\ TradesToday(tracker, clock)' = TradesToday(tracker, clock)
        /\ TradesToday(tracker, clock) \in Nat
    BY <1>1, <1>5, TradesTodayIs DEF TypeOK
  <2> QED BY <2>4, <2>5, <2>7, <2>8 DEF Kept
<1> QED BY <1>3, <1>4, <1>5 DEF Replace

\* The answer to the order.
LEMMA PlacedKept ==
    ASSUME Inv, NEW p \in Pairs, Placed(p)
    PROVE  Kept
<1> DEFINE t == pipe[p]
           new == [phase |-> "pending", ts |-> clock, heat |-> t.heat]
           row == [pair |-> p, dir |-> "long", ts |-> clock,
                   phase |-> "pending", heat |-> t.heat]
<1>1. /\ t \in Task /\ t.pc = "place" /\ clock' = clock /\ sent' = sent
      /\ TypeOK /\ clock \in Nat /\ EndTask(p, {t.key})
  BY DEF Inv, TypeOK, Placed, NoTask
<1>2. new \in Position /\ row \in RowType
  BY <1>1 DEF Task, Position, RowType
<1>3. /\ pipe' \in Pipes /\ dedup' \in Stamps /\ pipe'[p].pc = "idle"
      /\ \A q \in Pairs : q # p => pipe'[q] = pipe[q]
  BY <1>1, EndType DEF NoTask
<1>4. p \in Busy
  BY <1>1 DEF Busy, Placing
<1>5. CASE /\ managed' = [managed EXCEPT ![p] = new]
           /\ tracker' = Opened(tracker, row, clock)
  <2> HIDE DEF new, row, t
  <2>1. tracker \in TrackerOf(RowType)
    BY <1>1 DEF TypeOK
  <2>2. tracker' \in TrackerOf(RowType)
    BY <1>1, <1>2, <1>5, <2>1, OpenedType
  <2>3. /\ TradesToday(tracker', clock) = TradesToday(tracker, clock)
        /\ tracker'.day = DayOf(clock)
    BY <1>1, <1>2, <1>5, <2>1, OpenedTrades
  <2>4. TradesToday(tracker, clock) \in Nat /\ DayOf(clock) \in Nat
    BY <1>1, <2>1, TradesTodayIs, CalendarType
  <2>5. /\ managed' \in [Pairs -> Position \cup {None}]
        /\ \A q \in Pairs : q # p => managed'[q] = managed[q]
    BY <1>1, <1>2, <1>5 DEF TypeOK
  <2>6. TypeOK'
    BY <1>1, <1>3, <2>2, <2>5 DEF TypeOK, Pipes, Stamps
  <2>7. DayKnown'
    BY <1>1, <2>3, <2>4 DEF DayKnown
  <2>8. PlacingAlone'
    BY <1>3, <2>5 DEF Inv, PlacingAlone, Placing
  <2>9. Busy' \subseteq Busy
    BY <1>3, <1>4, <2>5 DEF Busy, Placing
  <2> QED BY <1>1, <2>3, <2>4, <2>6, <2>7, <2>8, <2>9 DEF Kept
<1>6. CASE UNCHANGED <<managed, tracker>>
  <2>1. Stepped(p)
    BY <1>1, <1>3 DEF Stepped, Going, TypeOK, Stamps
  <2> QED BY <1>1, <1>3, <1>6, <2>1, TaskKept DEF Going
<1> QED BY <1>5, <1>6 DEF Placed

\* What the steps of the monitor leave alone, and where they are alone.
LEMMA MonitorStep ==
    ASSUME Inv, NEW p \in Pairs, managed[p] # None,
           UNCHANGED <<clock, dedup, pipe, sent>>,
           NEW new \in Position \cup {None},
           managed' = [managed EXCEPT ![p] = new],
           tracker' \in TrackerOf(RowType)
    PROVE  /\ TypeOK' /\ PlacingAlone'
           /\ p \in Busy /\ Busy' \subseteq Busy
           /\ new = None => Busy' \subseteq Busy \ {p}
<1>1. /\ managed' \in [Pairs -> Position \cup {None}] /\ managed'[p] = new
      /\ \A q \in Pairs : q # p => managed'[q] = managed[q]
  BY DEF Inv, TypeOK
<1>2. TypeOK'
  BY <1>1 DEF Inv, TypeOK
<1>3. p \notin Placing /\ Placing' = Placing
  BY DEF Inv, PlacingAlone, Placing
<1>4. PlacingAlone'
  BY <1>1, <1>3 DEF Inv, PlacingAlone, Placing
<1> QED BY <1>1, <1>2, <1>3, <1>4 DEF Busy, Placing

\* A fill.
LEMMA FillKept ==
    ASSUME Inv, NEW p \in Pairs, Fill(p)
    PROVE  Kept
<1> DEFINE new == [managed[p] EXCEPT !.phase = "active"]
<1>1. managed[p] \in Position /\ managed[p] # None
  BY DEF Inv, TypeOK, Fill, Monitored
<1>2. new \in Position /\ managed' = [managed EXCEPT ![p] = new]
  BY <1>1 DEF Position, Fill
<1> HIDE DEF new
<1>3. /\ tracker' \in TrackerOf(RowType) /\ DayKnown'
      /\ TradesToday(tracker, clock)' = TradesToday(tracker, clock)
      /\ TradesToday(tracker, clock) \in Nat
  BY RowChangeKept, TradesTodayIs DEF Inv, TypeOK, Fill
<1>4. TypeOK' /\ PlacingAlone' /\ Busy' \subseteq Busy
  BY <1>1, <1>2, <1>3, MonitorStep DEF Fill
<1> QED BY <1>3, <1>4 DEF Kept

\* A close: it counts a trade and frees its pair.
LEMMA CloseKept ==
    ASSUME Inv, NEW p \in Pairs, Close(p)
    PROVE  Kept
<1>1. managed[p] # None /\ managed' = [managed EXCEPT ![p] = None] /\ clock' = clock
  BY DEF Close, Monitored
<1>2. PICK pnl \in Int : tracker' = Closed(tracker, p, "long", managed[p].ts, pnl, clock)
  BY UnitsAssumption DEF Close
<1>3. tracker \in TrackerOf(RowType) /\ clock \in Nat
  BY DEF Inv, TypeOK
<1>4. tracker' \in TrackerOf(RowType)
  BY <1>2, <1>3, ClosedType
<1>5. /\ TradesToday(tracker', clock) = TradesToday(tracker, clock) + 1
      /\ tracker'.day = DayOf(clock) /\ DayOf(clock) \in Nat
  BY <1>2, <1>3, ClosedTrades, CalendarType
<1>6. DayKnown'
  BY <1>1, <1>5 DEF DayKnown
<1>7. TypeOK' /\ PlacingAlone' /\ p \in Busy /\ Busy' \subseteq Busy \ {p}
  BY <1>1, <1>4, MonitorStep DEF Close
<1> QED BY <1>1, <1>5, <1>6, <1>7 DEF Kept

\* A pending entry that is cancelled.
LEMMA CancelEntryKept ==
    ASSUME Inv, NEW p \in Pairs, CancelEntry(p)
    PROVE  Kept
<1>1. managed[p] # None /\ managed' = [managed EXCEPT ![p] = None]
  BY DEF CancelEntry, Monitored
<1>2. /\ tracker' \in TrackerOf(RowType) /\ DayKnown'
      /\ TradesToday(tracker, clock)' = TradesToday(tracker, clock)
      /\ TradesToday(tracker, clock) \in Nat
  BY RowChangeKept, TradesTodayIs DEF Inv, TypeOK, CancelEntry
<1>3. CASE UNCHANGED pipe
  <2>1. TypeOK' /\ PlacingAlone' /\ Busy' \subseteq Busy
    BY <1>1, <1>2, <1>3, MonitorStep DEF CancelEntry
  <2> QED BY <1>2, <2>1 DEF Kept
<1>4. CASE pipe[p].pc = "cancel" /\ pipe' = [pipe EXCEPT ![p].pc = "cancelled"]
  <2>1. TypeOK
    BY DEF Inv
  <2>2. /\ pipe' \in Pipes /\ \A q \in Pairs : q # p => pipe'[q] = pipe[q]
    <3>1. pipe[p] \in Task
      BY <1>4, <2>1 DEF TypeOK, NoTask
    <3>2. [pipe[p] EXCEPT !.pc = "cancelled"] \in Task
      BY <3>1 DEF Task
    <3> QED BY <1>4, <2>1, <3>2 DEF TypeOK, Pipes
  <2>3. /\ managed' \in [Pairs -> Position \cup {None}] /\ managed'[p] = None
        /\ \A q \in Pairs : q # p => managed'[q] = managed[q]
    BY <1>1, <2>1 DEF TypeOK
  <2>4. TypeOK'
    BY <1>2, <2>1, <2>2, <2>3 DEF TypeOK, Pipes, CancelEntry
  <2>5. PlacingAlone'
    BY <2>2, <2>3 DEF Inv, PlacingAlone, Placing
  <2>6. Busy' \subseteq Busy
    BY <1>1, <2>2, <2>3 DEF Busy, Placing
  <2> QED BY <1>2, <2>4, <2>5, <2>6 DEF Kept
<1> QED BY <1>3, <1>4 DEF CancelEntry

\* Every step keeps the invariant.
LEMMA NextInv == Inv /\ [Next]_vars => Inv'
<1> SUFFICES ASSUME Inv, [Next]_vars PROVE Inv'
  OBVIOUS
<1>1. CASE Tick
  BY <1>1, TickKept, KeptBound
<1>2. ASSUME NEW p \in Pairs, Candle(p) PROVE Inv'
  BY <1>2, CandleKept, KeptBound
<1>3. ASSUME NEW p \in Pairs, Claude(p) PROVE Inv'
  BY <1>3, ClaudeKept, KeptBound
<1>4. ASSUME NEW p \in Pairs, Replace(p) PROVE Inv'
  BY <1>4, ReplaceKept, KeptBound
<1>5. ASSUME NEW p \in Pairs, Placed(p) PROVE Inv'
  BY <1>5, PlacedKept, KeptBound
<1>6. ASSUME NEW p \in Pairs, Fill(p) PROVE Inv'
  BY <1>6, FillKept, KeptBound
<1>7. ASSUME NEW p \in Pairs, Close(p) PROVE Inv'
  BY <1>7, CloseKept, KeptBound
<1>8. ASSUME NEW p \in Pairs, CancelEntry(p) PROVE Inv'
  BY <1>8, CancelEntryKept, KeptBound
<1>9. CASE UNCHANGED vars
  BY <1>9 DEF vars, Inv, TypeOK, DayKnown, PlacingAlone, Placing, DayBound, Busy
<1> QED BY <1>1, <1>2, <1>3, <1>4, <1>5, <1>6, <1>7, <1>8, <1>9 DEF Next

\* The invariant holds in every state.
LEMMA Invariant == Spec => []Inv
<1> QED BY InitInv, NextInv, PTL DEF Spec

\* The clock, the cache, the tasks, the positions and the tracker stay well
\* formed.
THEOREM TypeCorrect == Spec => []TypeOK
<1>1. Inv => TypeOK
  BY DEF Inv
<1> QED BY Invariant, <1>1, PTL

\* A task that places an order has no position on its pair, so register
\* overwrites nothing (service.py, execute).
THEOREM PlacesAlone == Spec => []PlacingAlone
<1>1. Inv => PlacingAlone
  BY DEF Inv
<1> QED BY Invariant, <1>1, PTL

\* However many pairs place at once, a day has fewer than MaxTrades closed
\* trades, open positions and orders on their way, plus one per pair
\* (guardrails.py, check_max_trades_today).
THEOREM DayBounded == Spec => []DayBound
<1>1. Inv => DayBound
  BY DEF Inv
<1> QED BY Invariant, <1>1, PTL

(***************************************************************************)
(* The orders of one key.  What a task waits for was evaluated when its    *)
(* key was free, and no other setup of the candle stamps that key; what    *)
(* was sent is stamped, or its task is still placing it.                   *)
(***************************************************************************)

\* What a task waits for with a key that was free when it was looked at.
Waiting == {"ai", "cancel", "cancelled"}
Free(k, q) == \A i \in 1..Len(q) : q[i] # k
Awaits(p) ==
    /\ pipe[p].pc \in Waiting => ~Deduped(p, pipe[p].key)
    /\ pipe[p].pc = "ai" => Distinct(pipe[p].rest) /\ Free(pipe[p].key, pipe[p].rest)
Awaiting == \A p \in Pairs : Awaits(p)
SentKnown ==
    \A p \in Pairs, k \in Keys :
        sent[<<p, k>>] # Never =>
            /\ sent[<<p, k>>] <= clock
            /\ \/ dedup[<<p, k>>] # Never /\ sent[<<p, k>>] <= dedup[<<p, k>>]
               \/ pipe[p].pc = "place" /\ pipe[p].key = k
KeyInv == TypeOK /\ Awaiting /\ SentKnown

\* What a step of p's task does to the keys.
Careful(p) ==
    /\ \A q \in Pairs : q # p => pipe'[q] = pipe[q]
    /\ \A q \in Pairs, k \in Keys : q # p => /\ dedup'[<<q, k>>] = dedup[<<q, k>>]
                                             /\ sent'[<<q, k>>] = sent[<<q, k>>]
    /\ \A k \in Keys : dedup'[<<p, k>>] \in {dedup[<<p, k>>], clock}
    /\ pipe[p].pc = "place" => dedup'[<<p, pipe[p].key>>] = clock
    /\ \A k \in Keys :
          \/ sent'[<<p, k>>] = sent[<<p, k>>]
          \/ sent'[<<p, k>>] = clock /\ pipe'[p].pc = "place" /\ pipe'[p].key = k
    /\ pipe'[p].pc # "idle" => pipe'[p].key \in Keys
    /\ pipe'[p].pc = "place" => pipe[p].pc # "place" /\ ~Deduped(p, pipe'[p].key)
    /\ pipe'[p].pc \in Waiting =>
          /\ ~Deduped(p, pipe'[p].key)
          /\ dedup'[<<p, pipe'[p].key>>] = dedup[<<p, pipe'[p].key>>]
    /\ pipe'[p].pc = "ai" => Distinct(pipe'[p].rest) /\ Free(pipe'[p].key, pipe'[p].rest)

Apart == \A p \in Pairs : StartsPlacing(p) =>
            LET last == LastSent(p, pipe'[p].key)
            IN  last # Never => clock - last >= DedupTTL

\* Such a step sends only what was last sent a TTL ago.
LEMMA CarefulApart ==
    ASSUME KeyInv, TypeOK', NEW p \in Pairs, Careful(p), clock' = clock
    PROVE  KeyInv' /\ Apart
<1>1. /\ clock \in Nat /\ dedup \in Stamps /\ sent \in Stamps
      /\ dedup' \in Stamps /\ sent' \in Stamps /\ DedupTTL \in Nat /\ MaxClock \in Nat
  BY LimitsAssumption DEF KeyInv, TypeOK, Stamps
<1>2. Awaiting'
  <2> SUFFICES ASSUME NEW q \in Pairs PROVE Awaits(q)'
    BY DEF Awaiting
  <2>1. CASE q = p
    <3>1. pipe'[p].pc \in Waiting => ~Deduped(p, pipe[p].key)'
      BY DEF Careful, Deduped
    <3>2. pipe'[p].pc = "ai" => (Distinct(pipe[p].rest) /\ Free(pipe[p].key, pipe[p].rest))'
      BY DEF Careful, Distinct, Free
    <3> QED BY <2>1, <3>1, <3>2 DEF Awaits
  <2>2. CASE q # p
    <3>1. pipe'[q] = pipe[q] /\ Awaits(q)
      BY <2>2 DEF Careful, KeyInv, Awaiting
    <3>2. pipe[q].pc \in Waiting => pipe[q].key \in Keys
      BY DEF KeyInv, TypeOK, Task, NoTask, Waiting
    <3>3. \A k \in Keys : dedup'[<<q, k>>] = dedup[<<q, k>>]
      BY <2>2 DEF Careful
    <3>4. pipe'[q].pc \in Waiting => ~Deduped(q, pipe[q].key)'
      BY <3>1, <3>2, <3>3 DEF Awaits, Deduped
    <3>5. pipe'[q].pc = "ai" => (Distinct(pipe[q].rest) /\ Free(pipe[q].key, pipe[q].rest))'
      BY <3>1 DEF Awaits, Distinct, Free
    <3> QED BY <3>4, <3>5 DEF Awaits
  <2> QED BY <2>1, <2>2
<1>3. SentKnown'
  <2> SUFFICES ASSUME NEW q \in Pairs, NEW k \in Keys, sent'[<<q, k>>] # Never
               PROVE  /\ sent'[<<q, k>>] <= clock
                      /\ \/ dedup'[<<q, k>>] # Never /\ sent'[<<q, k>>] <= dedup'[<<q, k>>]
                         \/ pipe'[q].pc = "place" /\ pipe'[q].key = k
    BY DEF SentKnown
  <2>1. CASE q # p
    BY <2>1 DEF Careful, KeyInv, SentKnown
  <2>2. CASE q = p /\ sent'[<<q, k>>] = sent[<<q, k>>]
    <3>1. /\ sent[<<p, k>>] <= clock
          /\ \/ dedup[<<p, k>>] # Never /\ sent[<<p, k>>] <= dedup[<<p, k>>]
             \/ pipe[p].pc = "place" /\ pipe[p].key = k
      BY <2>2 DEF KeyInv, SentKnown
    <3>2. dedup'[<<p, k>>] \in {dedup[<<p, k>>], clock} /\ clock # Never
      BY <1>1 DEF Careful, Never
    <3>3. pipe[p].pc = "place" /\ pipe[p].key = k => dedup'[<<p, k>>] = clock
      BY DEF Careful
    <3> QED BY <2>2, <3>1, <3>2, <3>3
  <2>3. CASE q = p /\ sent'[<<q, k>>] # sent[<<q, k>>]
    BY <1>1, <2>3 DEF Careful
  <2> QED BY <2>1, <2>2, <2>3
<1>4. Apart
  <2> SUFFICES ASSUME NEW q \in Pairs, StartsPlacing(q),
                      LastSent(q, pipe'[q].key) # Never
               PROVE  clock - LastSent(q, pipe'[q].key) >= DedupTTL
    BY DEF Apart
  <2>1. q = p
    BY DEF StartsPlacing, Careful
  <2> DEFINE k == pipe'[p].key
             s == sent[<<p, k>>]
             d == dedup[<<p, k>>]
  <2>2. pipe'[p].pc = "place" /\ pipe[p].pc # "place" /\ LastSent(q, pipe'[q].key) = s
    BY <2>1 DEF StartsPlacing, LastSent
  <2>3. k \in Keys /\ ~Deduped(p, k)
    BY <2>2 DEF Careful
  <2>4. s # Never /\ s \in Int /\ d \in Int
    BY <1>1, <2>2, <2>3 DEF Stamps, Never
  <2>5. d # Never /\ s <= d
    BY <2>2, <2>3, <2>4 DEF KeyInv, SentKnown
  <2>6. clock - d >= DedupTTL
    BY <1>1, <2>3, <2>4, <2>5 DEF Deduped
  <2> HIDE DEF s, d
  <2> QED BY <1>1, <2>2, <2>4, <2>5, <2>6
<1> QED BY <1>2, <1>3, <1>4 DEF KeyInv

\* A task that ends, and was not placing another key than it stamps, is careful.
LEMMA EndCareful ==
    ASSUME TypeOK, NEW p \in Pairs, NEW ks, EndTask(p, ks), UNCHANGED sent,
           pipe[p].pc = "place" => pipe[p].key \in ks /\ pipe[p].key \in Keys
    PROVE  Careful(p)
<1>1. pipe'[p].pc = "idle" /\ \A q \in Pairs : q # p => pipe'[q] = pipe[q]
  BY EndType DEF NoTask
<1>2. \A q \in Pairs, k \in Keys :
         dedup'[<<q, k>>] = IF q = p /\ k \in ks THEN clock ELSE dedup[<<q, k>>]
  BY StampType DEF EndTask
<1>3. \A q \in Pairs, k \in Keys : sent'[<<q, k>>] = sent[<<q, k>>]
  OBVIOUS
<1> QED BY <1>1, <1>2, <1>3 DEF Careful, Waiting

\* No key but those of ks is stamped.
StampsOnly(p, ks) ==
    \A q \in Pairs, k \in Keys :
        \/ dedup'[<<q, k>>] = dedup[<<q, k>>]
        \/ q = p /\ k \in ks /\ dedup'[<<q, k>>] = clock

\* Stamping keys stamps no other.
LEMMA StampOnly ==
    ASSUME NEW p \in Pairs, NEW ks, Stamp(p, ks)
    PROVE  StampsOnly(p, ks)
<1>1. \A q \in Pairs, k \in Keys :
         dedup'[<<q, k>>] = IF q = p /\ k \in ks THEN clock ELSE dedup[<<q, k>>]
  BY DEF Stamp
<1>2. \A q \in Pairs, k \in Keys :
         \/ dedup'[<<q, k>>] = dedup[<<q, k>>]
         \/ q = p /\ k \in ks /\ dedup'[<<q, k>>] = clock
  BY <1>1
<1> QED BY <1>2 DEF StampsOnly

\* So is a task that starts to wait for a key that is free and stays so.
LEMMA WaitCareful ==
    ASSUME TypeOK, NEW p \in Pairs, NEW pc \in {"ai", "cancel", "place"},
           NEW k \in Keys, NEW h \in Heats, NEW rest \in Seq(Keys), NEW ks,
           pipe[p].pc # "place", ~Deduped(p, k), k \notin ks,
           Wait(p, pc, k, h, rest),
           StampsOnly(p, ks),
           pc = "place" => Send(p, k), pc # "place" => UNCHANGED sent,
           pc = "ai" => Distinct(rest) /\ Free(k, rest)
    PROVE  Careful(p)
<1>1. /\ pipe'[p].pc = pc /\ pipe'[p].key = k /\ pipe'[p].rest = rest
      /\ \A q \in Pairs : q # p => pipe'[q] = pipe[q]
  BY WaitType
<1>2. \A q \in Pairs, j \in Keys :
         \/ dedup'[<<q, j>>] = dedup[<<q, j>>]
         \/ q = p /\ j \in ks /\ dedup'[<<q, j>>] = clock
  BY DEF StampsOnly
<1>3. \A q \in Pairs, j \in Keys :
         \/ sent'[<<q, j>>] = sent[<<q, j>>]
         \/ q = p /\ j = k /\ pc = "place" /\ sent'[<<q, j>>] = clock
  <2>1. CASE pc = "place"
    BY <2>1, SendType
  <2>2. CASE pc # "place"
    BY <2>2
  <2> QED BY <2>1, <2>2
<1>4. dedup'[<<p, k>>] = dedup[<<p, k>>]
  BY <1>2
<1>5. /\ ~Deduped(p, pipe'[p].key) /\ pipe'[p].key \in Keys
      /\ dedup'[<<p, pipe'[p].key>>] = dedup[<<p, pipe'[p].key>>]
  BY <1>1, <1>4
<1>6. pipe'[p].pc = "ai" => Distinct(pipe'[p].rest) /\ Free(pipe'[p].key, pipe'[p].rest)
  BY <1>1
<1>7. \A j \in Keys :
          \/ sent'[<<p, j>>] = sent[<<p, j>>]
          \/ sent'[<<p, j>>] = clock /\ pipe'[p].pc = "place" /\ pipe'[p].key = j
  BY <1>1, <1>3
<1>8. \A q \in Pairs, j \in Keys : q # p => /\ dedup'[<<q, j>>] = dedup[<<q, j>>]
                                           /\ sent'[<<q, j>>] = sent[<<q, j>>]
  BY <1>2, <1>3
<1>9. \A j \in Keys : dedup'[<<p, j>>] \in {dedup[<<p, j>>], clock}
  BY <1>2
<1> QED BY <1>1, <1>5, <1>6, <1>7, <1>8, <1>9 DEF Careful

\* execute is careful with a key that is free.
LEMMA ExecuteCareful ==
    ASSUME TypeOK, NEW p \in Pairs, NEW k \in Keys, NEW h \in Heats,
           NEW rest \in Seq(Keys), NEW ks, Execute(p, k, h, rest, ks),
           pipe[p].pc # "place", ~Deduped(p, k), k \notin ks
    PROVE  Careful(p)
<1>1. CASE Wait(p, "place", k, h, rest) /\ Send(p, k) /\ Stamp(p, ks)
  <2>1. StampsOnly(p, ks)
    BY <1>1, StampOnly
  <2> QED BY <1>1, <2>1, WaitCareful
<1>2. CASE Wait(p, "cancel", k, h, rest) /\ Stamp(p, ks) /\ UNCHANGED sent
  <2>1. StampsOnly(p, ks)
    BY <1>2, StampOnly
  <2> QED BY <1>2, <2>1, WaitCareful
<1>3. CASE EndTask(p, ks \cup {k}) /\ UNCHANGED sent
  BY <1>3, EndCareful
<1> QED BY <1>1, <1>2, <1>3 DEF Execute

\* Looking through distinct setups, none of them stamped yet in this pass, is
\* careful.
LEMMA LookCareful ==
    ASSUME TypeOK, NEW p \in Pairs, NEW q \in Seq(Keys), NEW ks, Look(p, q, ks),
           pipe[p].pc # "place", Distinct(q), \A k \in ks : Free(k, q)
    PROVE  Careful(p)
<1>0. Len(q) \in Nat
  OBVIOUS
<1>1. PICK i \in 1..(Len(q) + 1) : \E dropped \in SUBSET {q[j] : j \in 1..(i - 1)} :
        LET stamps == ks \cup {k \in dropped \cap Quick : ~Deduped(p, k)}
            rest   == SubSeq(q, i + 1, Len(q))
        IN  \/ i = Len(q) + 1 /\ EndTask(p, stamps) /\ UNCHANGED sent
            \/ /\ i <= Len(q) /\ ~Deduped(p, q[i])
               /\ \E h \in Heats :
                    \/ /\ q[i] \in Quick /\ Checks(h)
                       /\ Execute(p, q[i], h, rest, stamps)
                    \/ /\ q[i] \notin Quick
                       /\ Wait(p, "ai", q[i], h, rest) /\ Stamp(p, stamps)
                       /\ UNCHANGED sent
  BY DEF Look
<1>2. PICK dropped \in SUBSET {q[j] : j \in 1..(i - 1)} :
        LET stamps == ks \cup {k \in dropped \cap Quick : ~Deduped(p, k)}
            rest   == SubSeq(q, i + 1, Len(q))
        IN  \/ i = Len(q) + 1 /\ EndTask(p, stamps) /\ UNCHANGED sent
            \/ /\ i <= Len(q) /\ ~Deduped(p, q[i])
               /\ \E h \in Heats :
                    \/ /\ q[i] \in Quick /\ Checks(h)
                       /\ Execute(p, q[i], h, rest, stamps)
                    \/ /\ q[i] \notin Quick
                       /\ Wait(p, "ai", q[i], h, rest) /\ Stamp(p, stamps)
                       /\ UNCHANGED sent
  BY <1>1
<1> DEFINE stamps == ks \cup {k \in dropped \cap Quick : ~Deduped(p, k)}
           rest   == SubSeq(q, i + 1, Len(q))
<1>3. CASE i = Len(q) + 1 /\ EndTask(p, stamps) /\ UNCHANGED sent
  BY <1>3, EndCareful
<1>4. CASE /\ i <= Len(q) /\ ~Deduped(p, q[i])
           /\ \E h \in Heats :
                \/ Execute(p, q[i], h, rest, stamps)
                \/ Wait(p, "ai", q[i], h, rest) /\ Stamp(p, stamps) /\ UNCHANGED sent
  <2>1. i \in 1..Len(q) /\ q[i] \in Keys
    BY <1>0, <1>4
  <2>2. q[i] \notin stamps
    <3>1. q[i] \notin ks
      BY <2>1 DEF Free
    <3>2. q[i] \notin dropped
      <4> SUFFICES ASSUME q[i] \in dropped PROVE FALSE
        OBVIOUS
      <4>1. PICK j \in 1..(i - 1) : q[j] = q[i]
        OBVIOUS
      <4> QED BY <1>0, <2>1, <4>1 DEF Distinct
    <3> QED BY <3>1, <3>2
  <2>3. /\ rest \in Seq(Keys) /\ Len(rest) = Len(q) - i
        /\ \A j \in 1..Len(rest) : rest[j] = q[i + j]
    BY <1>0, <2>1
  <2> HIDE DEF rest, stamps
  <2>4. Distinct(rest) /\ Free(q[i], rest)
    BY <1>0, <2>1, <2>3 DEF Distinct, Free
  <2>5. PICK h \in Heats :
          \/ Execute(p, q[i], h, rest, stamps)
          \/ Wait(p, "ai", q[i], h, rest) /\ Stamp(p, stamps) /\ UNCHANGED sent
    BY <1>4
  <2>6. CASE Execute(p, q[i], h, rest, stamps)
    BY <1>4, <2>1, <2>2, <2>3, <2>6, ExecuteCareful
  <2>7. CASE Wait(p, "ai", q[i], h, rest) /\ Stamp(p, stamps) /\ UNCHANGED sent
    <3>1. StampsOnly(p, stamps)
      BY <2>7, StampOnly
    <3> QED BY <1>4, <2>1, <2>2, <2>3, <2>4, <2>7, <3>1, WaitCareful
  <2> QED BY <2>5, <2>6, <2>7
<1> QED BY <1>2, <1>3, <1>4, Zenon

\* Steps that leave the tasks and the keys alone.
LEMMA QuietApart ==
    ASSUME KeyInv, TypeOK', UNCHANGED <<dedup, pipe, sent>>, clock' \in {clock, clock + 1}
    PROVE  KeyInv' /\ Apart
<1>1. clock \in Nat /\ dedup \in Stamps /\ sent \in Stamps /\ DedupTTL \in Nat
  BY LimitsAssumption DEF KeyInv, TypeOK, Stamps
<1>2. ASSUME NEW p \in Pairs, NEW k \in Keys, ~Deduped(p, k)
      PROVE  ~Deduped(p, k)'
  <2>1. dedup[<<p, k>>] # Never => dedup[<<p, k>>] \in Nat
    BY <1>1 DEF Stamps
  <2> QED BY <1>1, <1>2, <2>1 DEF Deduped
<1>3. Awaiting'
  <2> SUFFICES ASSUME NEW p \in Pairs PROVE Awaits(p)'
    BY DEF Awaiting
  <2>1. Awaits(p)
    BY DEF KeyInv, Awaiting
  <2>2. pipe[p].pc \in Waiting => pipe[p].key \in Keys
    BY DEF KeyInv, TypeOK, Task, NoTask, Waiting
  <2>3. pipe'[p].pc \in Waiting => ~Deduped(p, pipe[p].key)'
    BY <1>2, <2>1, <2>2 DEF Awaits, Deduped
  <2>4. pipe'[p].pc = "ai" => (Distinct(pipe[p].rest) /\ Free(pipe[p].key, pipe[p].rest))'
    BY <2>1 DEF Awaits, Distinct, Free
  <2> QED BY <2>3, <2>4 DEF Awaits
<1>4. SentKnown'
  <2> SUFFICES ASSUME NEW p \in Pairs, NEW k \in Keys, sent[<<p, k>>] # Never
               PROVE  /\ sent[<<p, k>>] <= clock'
                      /\ \/ dedup[<<p, k>>] # Never /\ sent[<<p, k>>] <= dedup[<<p, k>>]
                         \/ pipe[p].pc = "place" /\ pipe[p].key = k
    BY DEF SentKnown
  <2>1. sent[<<p, k>>] \in Nat
    BY <1>1 DEF Stamps
  <2> QED BY <1>1, <2>1 DEF KeyInv, SentKnown
<1>5. Apart
  BY DEF Apart, StartsPlacing
<1> QED BY <1>3, <1>4, <1>5 DEF KeyInv

\* Nothing waits and nothing was sent at the start.
LEMMA InitKeys == Init => Awaiting /\ SentKnown
<1> SUFFICES ASSUME Init PROVE Awaiting /\ SentKnown
  OBVIOUS
<1>1. \A p \in Pairs : pipe[p].pc = "idle"
  BY DEF Init, NoTask
<1>2. \A p \in Pairs, k \in Keys : sent[<<p, k>>] = Never
  BY DEF Init
<1> QED BY <1>1, <1>2 DEF Awaiting, Awaits, Waiting, SentKnown

\* The steps of a task are careful.
LEMMA TaskCareful ==
    ASSUME KeyInv, NEW p \in Pairs,
           Candle(p) \/ Claude(p) \/ Replace(p) \/ Placed(p)
    PROVE  Careful(p)
<1> DEFINE t == pipe[p]
<1>1. TypeOK /\ Awaits(p)
  BY DEF KeyInv, Awaiting
<1>2. t.pc # "idle" => t \in Task /\ t.key \in Keys /\ t.heat \in Heats /\ t.rest \in Seq(Keys)
  BY <1>1 DEF TypeOK, Task, NoTask
<1>3. CASE Candle(p)
  <2>1. PICK q \in Candles : Look(p, q, {})
    BY <1>3 DEF Candle
  <2>2. q \in Seq(Keys) /\ Distinct(q)
    BY DEF Candles
  <2>3. t.pc # "place"
    BY <1>3 DEF Candle, NoTask
  <2> QED BY <1>1, <2>1, <2>2, <2>3, LookCareful
<1>4. CASE Claude(p)
  <2>1. t.pc = "ai" /\ ~Deduped(p, t.key) /\ Distinct(t.rest) /\ Free(t.key, t.rest)
    BY <1>1, <1>4 DEF Claude, Awaits, Waiting
  <2>2. \/ Execute(p, t.key, t.heat, t.rest, {})
        \/ Look(p, t.rest, {})
        \/ Look(p, t.rest, {t.key})
    BY <1>4 DEF Claude
  <2>3. CASE Execute(p, t.key, t.heat, t.rest, {})
    BY <1>1, <1>2, <2>1, <2>3, ExecuteCareful
  <2>4. CASE Look(p, t.rest, {})
    BY <1>1, <1>2, <2>1, <2>4, LookCareful
  <2>5. CASE Look(p, t.rest, {t.key})
    BY <1>1, <1>2, <2>1, <2>5, LookCareful
  <2> QED BY <2>2, <2>3, <2>4, <2>5
<1>5. CASE Replace(p)
  <2>1. t.pc \in {"cancel", "cancelled"} /\ ~Deduped(p, t.key)
    BY <1>1, <1>5 DEF Replace, Awaits, Waiting
  <2>2. \/ Wait(p, "place", t.key, t.heat, t.rest) /\ Send(p, t.key) /\ UNCHANGED dedup
        \/ EndTask(p, {t.key}) /\ UNCHANGED sent
    BY <1>5 DEF Replace
  <2>3. CASE Wait(p, "place", t.key, t.heat, t.rest) /\ Send(p, t.key) /\ UNCHANGED dedup
    <3>1. t.key \notin {} /\ StampsOnly(p, {})
      BY <2>3 DEF StampsOnly
    <3> HIDE DEF t
    <3> QED BY <1>1, <1>2, <2>1, <2>3, <3>1, WaitCareful DEF t
  <2>4. CASE EndTask(p, {t.key}) /\ UNCHANGED sent
    BY <1>1, <1>2, <2>1, <2>4, EndCareful
  <2> QED BY <2>2, <2>3, <2>4
<1>6. CASE Placed(p)
  <2>1. t.pc = "place" /\ EndTask(p, {t.key}) /\ UNCHANGED sent
    BY <1>6 DEF Placed
  <2> QED BY <1>1, <1>2, <2>1, EndCareful
<1> QED BY <1>3, <1>4, <1>5, <1>6

\* So is the monitor's step when it notices the cancellation a task awaits.
LEMMA NoticeCareful ==
    ASSUME KeyInv, NEW p \in Pairs, UNCHANGED <<dedup, sent>>,
           pipe[p].pc = "cancel", pipe' = [pipe EXCEPT ![p].pc = "cancelled"]
    PROVE  Careful(p)
<1>1. TypeOK /\ ~Deduped(p, pipe[p].key)
  BY DEF KeyInv, Awaiting, Awaits, Waiting
<1>2. pipe[p] \in Task /\ pipe[p].key \in Keys
  BY <1>1 DEF TypeOK, Task, NoTask
<1>3. /\ pipe'[p].pc = "cancelled" /\ pipe'[p].key = pipe[p].key
      /\ \A q \in Pairs : q # p => pipe'[q] = pipe[q]
  BY <1>1, <1>2 DEF TypeOK, Task
<1> QED BY <1>1, <1>2, <1>3 DEF Careful

\* Orders of one key are a TTL apart, and what that rests on is kept.
LEMMA NextApart == KeyInv /\ TypeOK' /\ [Next]_vars => KeyInv' /\ (Apart \/ UNCHANGED vars)
<1> SUFFICES ASSUME KeyInv, TypeOK', [Next]_vars PROVE KeyInv' /\ (Apart \/ UNCHANGED vars)
  OBVIOUS
<1>1. CASE Tick
  BY <1>1, QuietApart DEF Tick
<1>2. ASSUME NEW p \in Pairs, Candle(p) \/ Claude(p) \/ Replace(p) \/ Placed(p)
      PROVE  KeyInv' /\ Apart
  <2>1. clock' = clock
    BY <1>2 DEF Candle, Claude, Replace, Placed
  <2> QED BY <1>2, <2>1, TaskCareful, CarefulApart
<1>3. ASSUME NEW p \in Pairs, Fill(p) \/ Close(p) \/ CancelEntry(p)
      PROVE  KeyInv' /\ Apart
  <2>1. UNCHANGED <<clock, dedup, sent>>
    BY <1>3 DEF Fill, Close, CancelEntry
  <2>2. CASE UNCHANGED pipe
    BY <2>1, <2>2, QuietApart
  <2>3. CASE pipe[p].pc = "cancel" /\ pipe' = [pipe EXCEPT ![p].pc = "cancelled"]
    BY <2>1, <2>3, NoticeCareful, CarefulApart
  <2> QED BY <1>3, <2>2, <2>3 DEF Fill, Close, CancelEntry
<1>4. CASE UNCHANGED vars
  BY <1>4, QuietApart DEF vars
<1> QED BY <1>1, <1>2, <1>3, <1>4 DEF Next

\* The orders of one key are at least DedupTTL apart, also when the answer to
\* the first one was lost (pipeline_router.py, _process_pipeline_setup).
THEOREM OrdersApart == Spec => NoRepeat
<1>1. Init => KeyInv
  BY InitInv, InitKeys DEF KeyInv, Inv
<1>2. KeyInv /\ TypeOK' /\ [Next]_vars => KeyInv'
  BY NextApart
<1>3. KeyInv /\ TypeOK' /\ [Next]_vars => [Apart]_vars
  BY NextApart
<1> QED BY <1>1, <1>2, <1>3, TypeCorrect, PTL DEF Spec, NoRepeat, Apart
=============================================================================
