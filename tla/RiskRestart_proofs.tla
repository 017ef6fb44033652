------------------------ MODULE RiskRestart_proofs -------------------------
(***************************************************************************)
(* Theorems about RiskRestart, for every set of pairs, every length of the *)
(* day, the week and the store's life, and every bound.                    *)
(***************************************************************************)
EXTENDS RiskRestart, RiskTracker_proofs, FiniteSetTheorems

(***************************************************************************)
(* Types of the tracker's and the store's operations.                      *)
(***************************************************************************)

\* The rows of this module may become active.
LEMMA RowsMayActivate == MayActivate(RowType)
BY DEF MayActivate, RowType

\* reconcile_drawdown_from_db keeps the tracker's type.
LEMMA ReconciledType ==
    ASSUME NEW t \in TrackerOf(RowType),
           NEW d \in [daily : Int, weekly : Int, count : Nat]
    PROVE  Reconciled(t, d) \in TrackerOf(RowType)
BY DEF Reconciled, TrackerOf

\* The store's keys are those a save writes.
LEMMA StoreDomain ==
    ASSUME NEW s \in StoreType
    PROVE  DOMAIN s = {"daily", "weekly", "lastLoss", "trades", "day", "week", "open"}
BY DEF StoreType

\* What _load_from_redis restores from a well-typed store is well typed.
LEMMA LoadedType ==
    ASSUME NEW s \in StoreType, NEW now \in Nat
    PROVE  Loaded(s, now) \in TrackerOf(RowType)
BY FreshType DEF Loaded, StoreType, KeyType, TrackerOf

\* A save, however short it is cut, leaves a well-typed store.
LEMMA SavedType ==
    ASSUME NEW s \in StoreType, NEW t \in TrackerOf(RowType), NEW n, NEW now \in Nat
    PROVE  Saved(s, t, n, now) \in StoreType
<1> DEFINE r == Saved(s, t, n, now)
<1>1. DOMAIN r = {"daily", "weekly", "lastLoss", "trades", "day", "week", "open"}
  BY StoreDomain DEF Saved
<1>2. \A k \in DOMAIN s : r[k] = s[k] \/ r[k] = [val |-> t[k], exp |-> now + RedisTTL]
  BY DEF Saved
<1>3. now + RedisTTL \in Nat
  BY RedisTTLAssumption
<1>4. r = [k \in {"daily", "weekly", "lastLoss", "trades", "day", "week", "open"} |-> r[k]]
  BY StoreDomain DEF Saved
<1> HIDE DEF r
<1>5. /\ r["daily"] \in KeyType(Int) /\ r["weekly"] \in KeyType(Int)
      /\ r["lastLoss"] \in KeyType(Nat \cup {NoLoss})
      /\ r["trades"] \in KeyType(Nat) /\ r["day"] \in KeyType(Nat)
      /\ r["week"] \in KeyType(Nat) /\ r["open"] \in KeyType(Seq(RowType))
  <2>1. DOMAIN s = {"daily", "weekly", "lastLoss", "trades", "day", "week", "open"}
    BY StoreDomain
  <2>2. /\ s["daily"] \in KeyType(Int) /\ s["weekly"] \in KeyType(Int)
        /\ s["lastLoss"] \in KeyType(Nat \cup {NoLoss})
        /\ s["trades"] \in KeyType(Nat) /\ s["day"] \in KeyType(Nat)
        /\ s["week"] \in KeyType(Nat) /\ s["open"] \in KeyType(Seq(RowType))
    BY DEF StoreType
  <2>3. /\ t["daily"] \in Int /\ t["weekly"] \in Int
        /\ t["lastLoss"] \in Nat \cup {NoLoss} /\ t["trades"] \in Nat
        /\ t["day"] \in Nat /\ t["week"] \in Nat /\ t["open"] \in Seq(RowType)
    BY DEF TrackerOf
  <2>4. \A S, v : v \in S => [val |-> v, exp |-> now + RedisTTL] \in KeyType(S)
    BY <1>3 DEF KeyType
  <2>5. \A k \in DOMAIN s : \A S : s[k] \in KeyType(S) /\ t[k] \in S => r[k] \in KeyType(S)
    BY <1>2, <2>4
  <2> QED BY <2>1, <2>2, <2>3, <2>5
<1> QED BY <1>1, <1>4, <1>5 DEF StoreType, r

(***************************************************************************)
(* Type correctness.                                                       *)
(***************************************************************************)

DbType   == [daily : Int, weekly : Int, count : Nat]
RealType == [daily : Int, weekly : Int, dailyLoss : Nat, weeklyLoss : Nat,
             lastLoss : Nat \cup {NoLoss}, closes : Nat]
LostType == [daily : Int, weekly : Int]

\* A recorded operation leaves a well-typed tracker and store.
LEMMA RecordType ==
    ASSUME TypeOK, NEW t \in TrackerOf(RowType), NEW resets \in BOOLEAN, Record(t, resets)
    PROVE  tracker' = t /\ redis' \in StoreType
<1>1. PICK n \in SavePrefixes, m \in SavePrefixes :
         redis' = IF connected
                  THEN Saved(IF resets /\ ResetDue(tracker, clock)
                             THEN Saved(redis, DateReset(tracker, clock), m, clock)
                             ELSE redis, t, n, clock)
                  ELSE redis
  BY DEF Record
<1>2. clock \in Nat /\ tracker \in TrackerOf(RowType) /\ redis \in StoreType
  BY DEF TypeOK
<1>3. DateReset(tracker, clock) \in TrackerOf(RowType)
  BY <1>2, DateResetType
<1>4. Saved(redis, DateReset(tracker, clock), m, clock) \in StoreType
  BY <1>2, <1>3, SavedType
<1> DEFINE base == IF resets /\ ResetDue(tracker, clock)
                   THEN Saved(redis, DateReset(tracker, clock), m, clock)
                   ELSE redis
<1>5. base \in StoreType
  BY <1>2, <1>4
<1> HIDE DEF base
<1>6. Saved(base, t, n, clock) \in StoreType
  BY <1>2, <1>5, SavedType
<1> QED BY <1>1, <1>2, <1>6 DEF Record, base

\* The passage of time keeps the clock and the sums well typed.
LEMMA AdvanceType ==
    ASSUME TypeOK, NEW now \in Nat, Advance(now)
    PROVE  clock' = now /\ db' \in DbType /\ real' \in RealType /\ lost' \in LostType
<1> DEFINE newDay  == DayOf(now) # DayOf(clock)
           newWeek == WeekOf(now) # WeekOf(clock)
           d == IF newDay THEN 0 ELSE real.daily
           l == IF newDay THEN 0 ELSE real.dailyLoss
           w == IF newWeek THEN 0 ELSE real.weekly
           m == IF newWeek THEN 0 ELSE real.weeklyLoss
<1>1. db \in DbType /\ real \in RealType /\ lost \in LostType
  BY DEF TypeOK, DbType, RealType, LostType
<1>2. db' \in DbType /\ clock' = now /\ lost' \in LostType
  BY <1>1 DEF Advance, DbType, LostType
<1>3. d \in Int /\ l \in Nat /\ w \in Int /\ m \in Nat
  BY <1>1 DEF RealType
<1>4. real' = [real EXCEPT !.daily = d, !.dailyLoss = l, !.weekly = w,
                           !.weeklyLoss = m]
  BY DEF Advance
<1> HIDE DEF d, l, w, m
<1> QED BY <1>1, <1>2, <1>3, <1>4 DEF RealType

\* A handler's second reading of the clock is a natural.
LEMMA LaterReadsType == TypeOK => LaterReads \subseteq Nat
BY DEF TypeOK, LaterReads

\* The first start is well typed.
LEMMA InitType == Init => TypeOK
<1> SUFFICES ASSUME Init PROVE TypeOK
  OBVIOUS
<1>1. Fresh(0) \in TrackerOf(RowType)
  BY FreshType
<1>2. EmptyStore \in StoreType
  <2>1. ToSet(SaveOrder) =
          {"daily", "weekly", "lastLoss", "trades", "day", "week", "open"}
    BY DEF ToSet, SaveOrder
  <2>2. EmptyStore = [k \in {"daily", "weekly", "lastLoss", "trades", "day",
                             "week", "open"} |-> [val |-> Fresh(0)[k], exp |-> 0]]
    BY <2>1 DEF EmptyStore
  <2> DEFINE f == Fresh(0)
  <2>3. /\ f["daily"] \in Int /\ f["weekly"] \in Int
        /\ f["lastLoss"] \in Nat \cup {NoLoss} /\ f["trades"] \in Nat
        /\ f["day"] \in Nat /\ f["week"] \in Nat /\ f["open"] \in Seq(RowType)
    BY <1>1 DEF TrackerOf
  <2> HIDE DEF f
  <2> QED BY <2>2, <2>3 DEF StoreType, KeyType, f
<1>3. managed \in [Pairs -> Position \cup {NoPosition}] /\ \A p \in Pairs : ~IsManaged(p)
  BY DEF Init, IsManaged
<1> QED BY <1>1, <1>2, <1>3, FlagsAssumption
        DEF Init, TypeOK, NoTrades, NoCloses, NoLoss

\* Dropping a pending position keeps what Drop changes well typed.
LEMMA DropType ==
    ASSUME TypeOK, NEW p \in Pairs, Drop(p)
    PROVE  /\ tracker' \in TrackerOf(RowType) /\ redis' \in StoreType
           /\ tracker' = Cancelled(tracker, managed[p].pair, managed[p].dir,
                                   managed[p].ts)
           /\ managed' = [managed EXCEPT ![p] = NoPosition]
           /\ exchange' \in [Pairs -> {"flat", "resting", "held"}]
<1> DEFINE t == Cancelled(tracker, managed[p].pair, managed[p].dir, managed[p].ts)
<1>1. t \in TrackerOf(RowType)
  BY CancelledType DEF TypeOK
<1>2. Record(t, FALSE)
  BY DEF Drop
<1>3. tracker' = t /\ redis' \in StoreType
  BY <1>1, <1>2, RecordType
<1>4. exchange' \in [Pairs -> {"flat", "resting", "held"}]
  BY DEF TypeOK, Drop
<1> QED BY <1>1, <1>3, <1>4 DEF Drop

\* The end of the process keeps the type.
LEMMA ExitType == TypeOK /\ Exit => TypeOK'
<1>1. Fresh(0) \in TrackerOf(RowType)
  BY FreshType
<1> QED BY <1>1 DEF TypeOK, Exit, IsManaged

\* The tracker, the store and the positions a placed or adopted position leaves.
LEMMA RegisterType ==
    ASSUME TypeOK, NEW p \in Pairs, NEW d \in Dirs, NEW ts \in Nat, NEW us \in Nat,
           NEW at \in Nat, NEW ph \in {"pending", "active"},
           Record(Opened(tracker, [pair |-> p, dir |-> d, ts |-> ts,
                                   phase |-> ph], at), TRUE),
           managed' = [managed EXCEPT ![p] = [pair |-> p, dir |-> d, ts |-> us,
                                              phase |-> ph, stored |-> FALSE]]
    PROVE  /\ tracker' \in TrackerOf(RowType) /\ redis' \in StoreType
           /\ tracker'.open = Append(tracker.open, [pair |-> p, dir |-> d,
                                                     ts |-> ts, phase |-> ph])
           /\ managed' \in [Pairs -> Position \cup {NoPosition}]
           /\ \A q \in Pairs : IsManaged(q)' => managed'[q].pair = q
<1> DEFINE row == [pair |-> p, dir |-> d, ts |-> ts, phase |-> ph]
           pos == [pair |-> p, dir |-> d, ts |-> us, phase |-> ph, stored |-> FALSE]
<1>1. row \in RowType
  BY DEF RowType
<1>2. /\ Opened(tracker, row, at) \in TrackerOf(RowType)
      /\ Opened(tracker, row, at).open = Append(tracker.open, row)
  <2>1. tracker \in TrackerOf(RowType)
    BY DEF TypeOK
  <2> HIDE DEF row
  <2> QED BY <1>1, <2>1, OpenedType
<1>3. tracker' = Opened(tracker, row, at) /\ redis' \in StoreType
  BY <1>2, RecordType
<1>4. pos \in Position
  BY DEF Position
<1>5. managed' = [managed EXCEPT ![p] = pos] /\ pos.pair = p
  OBVIOUS
<1> HIDE DEF row, pos
<1>6. /\ managed' \in [Pairs -> Position \cup {NoPosition}]
      /\ \A q \in Pairs : IsManaged(q)' => managed'[q].pair = q
  <2>1. managed \in [Pairs -> Position \cup {NoPosition}]
    BY DEF TypeOK
  <2>2. managed' \in [Pairs -> Position \cup {NoPosition}]
    BY <1>4, <1>5, <2>1
  <2>3. \A q \in Pairs : managed'[q] = IF q = p THEN pos ELSE managed[q]
    BY <1>5, <2>1
  <2>4. \A q \in Pairs : managed[q] # NoPosition => managed[q].pair = q
    BY DEF TypeOK, IsManaged
  <2> QED BY <1>5, <2>2, <2>3, <2>4 DEF IsManaged
<1> QED BY <1>2, <1>3, <1>6 DEF row

\* Every step keeps the type.
LEMMA NextType == TypeOK /\ [Next]_vars => TypeOK'
<1> SUFFICES ASSUME TypeOK, [Next]_vars
             PROVE  TypeOK'
  OBVIOUS
<1>0. clock \in Nat /\ tracker \in TrackerOf(RowType) /\ redis \in StoreType
  BY DEF TypeOK
<1>1. CASE Tick
  <2>1. clock' = clock + 1 /\ clock + 1 \in Nat /\ db' \in DbType /\ real' \in RealType
        /\ lost' \in LostType
    BY <1>0, <1>1, AdvanceType DEF Tick
  <2> QED BY <1>1, <2>1 DEF Tick, TypeOK, DbType, RealType, LostType, IsManaged
<1>2. CASE ReadLimits
  <2>1. DateReset(tracker, clock) \in TrackerOf(RowType)
    BY <1>0, DateResetType
  <2>2. tracker' \in TrackerOf(RowType) /\ redis' \in StoreType
    BY <1>2, <2>1, RecordType DEF ReadLimits
  <2> QED BY <1>2, <2>2 DEF ReadLimits, TypeOK, IsManaged
<1>3. CASE Connect
  BY <1>3 DEF Connect, TypeOK, IsManaged
<1>4. CASE StopBegin
  BY <1>4 DEF StopBegin, TypeOK, IsManaged
<1>5. CASE StopEnd \/ Crash
  BY <1>5, ExitType DEF StopEnd, Crash
<1>6. CASE Restart
  <2>1. PICK seen \in {db} \cup {NoTrades} :
          LET t0 == IF RedisAtInit THEN Loaded(redis, clock) ELSE Fresh(clock)
              t  == Reconciled(t0, seen)
          IN  /\ tracker' = t
              /\ IF RedisAtInit /\ t # t0
                 THEN \E n \in SavePrefixes : redis' = Saved(redis, t, n, clock)
                 ELSE redis' = redis
              /\ lost' = [daily |-> real.daily - seen.daily,
                          weekly |-> real.weekly - seen.weekly]
    BY <1>6 DEF Restart
  <2> DEFINE t0 == IF RedisAtInit THEN Loaded(redis, clock) ELSE Fresh(clock)
             t  == Reconciled(t0, seen)
  <2>2. t0 \in TrackerOf(RowType)
    BY <1>0, LoadedType, FreshType
  <2>3. seen \in [daily : Int, weekly : Int, count : Nat]
    BY DEF TypeOK, NoTrades
  <2> HIDE DEF t0
  <2>4. t \in TrackerOf(RowType)
    BY <2>2, <2>3, ReconciledType
  <2>5. /\ tracker' = t
        /\ redis' = redis \/ \E n \in SavePrefixes : redis' = Saved(redis, t, n, clock)
    BY <2>1 DEF t0
  <2> HIDE DEF t
  <2>6. redis' \in StoreType
    BY <1>0, <2>4, <2>5, SavedType
  <2>7. lost' \in LostType
    <3>1. lost' = [daily |-> real.daily - seen.daily, weekly |-> real.weekly - seen.weekly]
      BY <2>1
    <3>2. real.daily \in Int /\ real.weekly \in Int
      BY DEF TypeOK
    <3> QED BY <2>3, <3>1, <3>2 DEF LostType
  <2> QED BY <1>6, <2>4, <2>5, <2>6, <2>7, FlagsAssumption
          DEF Restart, TypeOK, LostType, IsManaged
<1>7. CASE SyncEnd
  BY <1>7 DEF SyncEnd, TypeOK, IsManaged
<1>8. ASSUME NEW p \in Pairs, NEW d \in Dirs, Place(p, d)
      PROVE  TypeOK'
  <2>1. PICK now \in LaterReads :
          /\ managed' = [managed EXCEPT ![p] =
                           [pair |-> p, dir |-> d, ts |-> now,
                            phase |-> "pending", stored |-> FALSE]]
          /\ Advance(now)
    BY <1>8 DEF Place
  <2>2. now \in Nat
    BY <2>1, LaterReadsType
  <2>3. clock' \in Nat /\ db' \in DbType /\ real' \in RealType /\ lost' \in LostType
    BY <2>1, <2>2, AdvanceType
  <2>4. /\ tracker' \in TrackerOf(RowType) /\ redis' \in StoreType
        /\ managed' \in [Pairs -> Position \cup {NoPosition}]
        /\ \A q \in Pairs : IsManaged(q)' => managed'[q].pair = q
    BY <1>0, <1>8, <2>1, <2>2, RegisterType DEF Place
  <2>5. exchange' \in [Pairs -> {"flat", "resting", "held"}]
    BY <1>8 DEF Place, TypeOK
  <2> QED BY <1>8, <2>3, <2>4, <2>5 DEF Place, TypeOK, DbType, RealType, LostType
<1>9. ASSUME NEW p \in Pairs, ExchangeFill(p) \/ ExchangeExit(p)
      PROVE  TypeOK'
  BY <1>9 DEF ExchangeFill, ExchangeExit, TypeOK, IsManaged
<1>10. ASSUME NEW p \in Pairs, Activate(p)
       PROVE  TypeOK'
  <2> DEFINE m == managed[p]
             t == Filled(tracker, m.pair, m.dir, m.ts)
  <2>1. t \in TrackerOf(RowType)
    BY <1>0, FilledType, RowsMayActivate
  <2>2. (tracker' = tracker /\ redis' = redis) \/ Record(t, FALSE)
    BY <1>10 DEF Activate
  <2> HIDE DEF t
  <2>3. tracker' \in TrackerOf(RowType) /\ redis' \in StoreType
    BY <1>0, <2>1, <2>2, RecordType
  <2>4. PICK ok \in BOOLEAN :
          managed' = [managed EXCEPT ![p].phase = "active", ![p].stored = ok]
    BY <1>10 DEF Activate
  <2>5. m \in Position /\ m.pair = p
    BY <1>10 DEF Activate, TypeOK, IsManaged
  <2>6. [m EXCEPT !.phase = "active", !.stored = ok] \in Position
    BY <2>5 DEF Position
  <2>7. managed' = [managed EXCEPT ![p] = [m EXCEPT !.phase = "active", !.stored = ok]]
    BY <2>4
  <2>8. /\ managed' \in [Pairs -> Position \cup {NoPosition}]
        /\ \A q \in Pairs : IsManaged(q)' => managed'[q].pair = q
    BY <2>5, <2>6, <2>7 DEF TypeOK, IsManaged, Position
  <2> QED BY <1>10, <2>3, <2>8 DEF Activate, TypeOK
<1>11. ASSUME NEW p \in Pairs, Cancel(p)
       PROVE  TypeOK'
  BY <1>11, DropType DEF Cancel, TypeOK, IsManaged
<1>12. ASSUME NEW p \in Pairs, StopPair(p)
       PROVE  TypeOK'
  <2>1. CASE Drop(p)
    BY <1>12, <2>1, DropType DEF StopPair, TypeOK, IsManaged
  <2>2. CASE UNCHANGED <<tracker, redis, exchange, managed>>
    BY <1>12, <2>2 DEF StopPair, TypeOK, IsManaged
  <2> QED BY <1>12, <2>1, <2>2 DEF StopPair
<1>13. ASSUME NEW p \in Pairs, SyncPair(p)
       PROVE  TypeOK'
  <2>1. CASE UNCHANGED <<clock, tracker, redis, db, managed, real, lost>>
    BY <1>13, <2>1 DEF SyncPair, TypeOK, IsManaged
  <2>2. ASSUME NEW d \in Dirs, NEW now \in LaterReads,
               managed' = [managed EXCEPT ![p] =
                              [pair |-> p, dir |-> d, ts |-> clock,
                               phase |-> "active", stored |-> FALSE]],
               Record(Opened(tracker, [pair |-> p, dir |-> d, ts |-> now,
                                       phase |-> "active"], now), TRUE),
               Advance(now)
        PROVE  TypeOK'
    <3>1. now \in Nat
      BY <2>2, LaterReadsType
    <3>2. clock' \in Nat /\ db' \in DbType /\ real' \in RealType /\ lost' \in LostType
      BY <2>2, <3>1, AdvanceType
    <3>3. /\ tracker' \in TrackerOf(RowType) /\ redis' \in StoreType
          /\ managed' \in [Pairs -> Position \cup {NoPosition}]
          /\ \A q \in Pairs : IsManaged(q)' => managed'[q].pair = q
      BY <1>0, <2>2, <3>1, RegisterType
    <3> QED BY <1>13, <3>2, <3>3 DEF SyncPair, TypeOK, DbType, RealType, LostType
  <2> QED BY <1>13, <2>1, <2>2 DEF SyncPair
<1>14. ASSUME NEW p \in Pairs, NEW pnl \in PnlSteps, Close(p, pnl)
       PROVE  TypeOK'
  <2> DEFINE m == managed[p]
             t == Closed(tracker, m.pair, m.dir, m.ts, pnl, clock)
  <2>0. pnl \in Int
    BY PnlAssumption
  <2>1. t \in TrackerOf(RowType)
    BY <1>0, <2>0, ClosedType
  <2>2. Record(t, TRUE)
    BY <1>14 DEF Close
  <2> HIDE DEF t
  <2>3. tracker' \in TrackerOf(RowType) /\ redis' \in StoreType
    BY <2>1, <2>2, RecordType
  <2>4. db' \in DbType
    BY <1>14, <2>0 DEF Close, TypeOK, DbType
  <2>5. real' \in RealType
    BY <1>14, <2>0 DEF Close, TypeOK, RealType
  <2>6. /\ managed' = [managed EXCEPT ![p] = NoPosition]
        /\ exchange' = [exchange EXCEPT ![p] = "flat"]
        /\ UNCHANGED <<clock, status, todo, connected, lost, restarts>>
    BY <1>14 DEF Close
  <2> QED BY <2>3, <2>4, <2>5, <2>6 DEF TypeOK, DbType, RealType, IsManaged
<1>15. CASE UNCHANGED vars
  BY <1>15 DEF vars, TypeOK, IsManaged
<1> QED
  BY <1>1, <1>2, <1>3, <1>4, <1>5, <1>6, <1>7, <1>8, <1>9, <1>10, <1>11, <1>12,
     <1>13, <1>14, <1>15 DEF Next

\* Every reachable state is well typed: the counters, the store, the rows of
\* the tracker and the monitor's positions never leave their domains.
THEOREM TypeCorrect == Spec => []TypeOK
<1> QED BY InitType, NextType, PTL DEF Spec

(***************************************************************************)
(* Every managed position keeps its row.                                   *)
(***************************************************************************)

\* A list that has a row for every managed position keeps one for every pair
\* but p when a row of p is removed.
LEMMA RemovalKeepsOthers ==
    ASSUME TypeOK, TrackedHasRow, NEW p \in Pairs, NEW q \in Pairs, q # p,
           IsManaged(q), NEW d, NEW ts, NEW t,
           t.open = Removed(tracker.open, p, d, ts)
    PROVE  HasRow(t, q, managed[q].dir, managed[q].ts)
<1>1. tracker.open \in Seq(RowType)
  BY DEF TypeOK, TrackerOf
<1>2. PICK i \in 1..Len(tracker.open) :
         Matches(tracker.open[i], q, managed[q].dir, managed[q].ts)
  BY DEF TrackedHasRow, HasRow
<1>3. ~Matches(tracker.open[i], p, d, ts)
  BY <1>2 DEF Matches
<1>4. PICK k \in 1..Len(Removed(tracker.open, p, d, ts)) :
         Removed(tracker.open, p, d, ts)[k] = tracker.open[i]
  BY <1>1, <1>3, RemovedKeeps
<1> QED BY <1>2, <1>4 DEF HasRow

\* A row appended for p keeps the others' and gives p its own.
LEMMA AppendKeeps ==
    ASSUME TypeOK, TrackedHasRow, NEW row \in RowType, NEW t,
           t.open = Append(tracker.open, row)
    PROVE  /\ HasRow(t, row.pair, row.dir, row.ts)
           /\ \A q \in Pairs : IsManaged(q)
                 => HasRow(t, q, managed[q].dir, managed[q].ts)
<1>1. tracker.open \in Seq(RowType)
  BY DEF TypeOK, TrackerOf
<1>2. /\ Len(t.open) = Len(tracker.open) + 1
      /\ \A i \in 1..Len(tracker.open) : t.open[i] = tracker.open[i]
      /\ t.open[Len(tracker.open) + 1] = row
  BY <1>1, AppendProperties
<1>3. 1..Len(tracker.open) \subseteq 1..Len(t.open)
      /\ Len(tracker.open) + 1 \in 1..Len(t.open)
  BY <1>1, <1>2
<1>4. HasRow(t, row.pair, row.dir, row.ts)
  BY <1>2, <1>3 DEF HasRow, Matches
<1>5. ASSUME NEW q \in Pairs, IsManaged(q)
      PROVE  HasRow(t, q, managed[q].dir, managed[q].ts)
  <2>1. PICK i \in 1..Len(tracker.open) :
           Matches(tracker.open[i], q, managed[q].dir, managed[q].ts)
    BY <1>5 DEF TrackedHasRow, HasRow
  <2> QED BY <1>2, <1>3, <2>1 DEF HasRow
<1> QED BY <1>4, <1>5

\* Dropping one pair's pending position leaves the others' rows in place.
LEMMA DropKeepsRows ==
    ASSUME TypeOK, TrackedHasRow, NEW p \in Pairs, Drop(p)
    PROVE  TrackedHasRow'
<1>1. /\ tracker' = Cancelled(tracker, managed[p].pair, managed[p].dir, managed[p].ts)
      /\ managed' = [managed EXCEPT ![p] = NoPosition]
  BY DropType
<1>2. managed[p].pair = p
  BY DEF Drop, TypeOK, IsManaged
<1>3. tracker'.open = Removed(tracker.open, p, managed[p].dir, managed[p].ts)
  BY <1>1, <1>2, CancelledType DEF TypeOK
<1>4. \A q \in Pairs : IsManaged(q)' => q # p /\ IsManaged(q) /\ managed'[q] = managed[q]
  BY <1>1 DEF IsManaged, TypeOK
<1> QED BY <1>3, <1>4, RemovalKeepsOthers DEF TrackedHasRow

\* A position registered for p together with its row.
LEMMA RegisterKeepsRows ==
    ASSUME TypeOK, TrackedHasRow, NEW p \in Pairs, NEW d \in Dirs, NEW ts \in Nat,
           NEW at \in Nat, NEW ph \in {"pending", "active"},
           Record(Opened(tracker, [pair |-> p, dir |-> d, ts |-> ts,
                                   phase |-> ph], at), TRUE),
           managed' = [managed EXCEPT ![p] = [pair |-> p, dir |-> d, ts |-> ts,
                                              phase |-> ph, stored |-> FALSE]]
    PROVE  TrackedHasRow'
<1> DEFINE row == [pair |-> p, dir |-> d, ts |-> ts, phase |-> ph]
           pos == [pair |-> p, dir |-> d, ts |-> ts, phase |-> ph, stored |-> FALSE]
<1>1. tracker'.open = Append(tracker.open, row)
  BY RegisterType
<1>2. row \in RowType
  BY DEF RowType
<1>3. /\ HasRow(tracker', row.pair, row.dir, row.ts)
      /\ \A q \in Pairs : IsManaged(q)
            => HasRow(tracker', q, managed[q].dir, managed[q].ts)
  BY <1>1, <1>2, AppendKeeps
<1>4. row.pair = p /\ row.dir = pos.dir /\ row.ts = pos.ts
  OBVIOUS
<1>5. managed' = [managed EXCEPT ![p] = pos] /\ managed \in [Pairs -> Position \cup {NoPosition}]
  BY DEF TypeOK
<1> HIDE DEF row, pos
<1>6. \A q \in Pairs : managed'[q] = IF q = p THEN pos ELSE managed[q]
  BY <1>5
<1>7. ASSUME NEW q \in Pairs, IsManaged(q)'
      PROVE  HasRow(tracker', q, managed'[q].dir, managed'[q].ts)
  BY <1>3, <1>4, <1>6, <1>7 DEF IsManaged
<1> QED BY <1>7 DEF TrackedHasRow

\* While the process is down there is no monitor.
NothingWhenDown == status = "down" => \A p \in Pairs : ~IsManaged(p)

RowsInv == TypeOK /\ TrackedHasRow /\ NothingWhenDown

\* The first start manages nothing.
LEMMA RowsInit == Init => RowsInv
BY InitType DEF Init, RowsInv, TrackedHasRow, NothingWhenDown, IsManaged

\* A process that is down manages nothing.
LEMMA DownStep ==
    ASSUME TypeOK, NothingWhenDown, [Next]_vars
    PROVE  NothingWhenDown'
<1>1. CASE UNCHANGED <<status, managed>>
  BY <1>1 DEF NothingWhenDown, IsManaged
<1>2. CASE Exit
  BY <1>2 DEF Exit, NothingWhenDown, IsManaged
<1>3. CASE status' # "down"
  BY <1>3 DEF NothingWhenDown
<1>4. [Next]_vars => UNCHANGED <<status, managed>> \/ Exit \/ status' # "down"
  BY DEF Next, vars, Tick, ReadLimits, Connect, StopBegin, StopEnd, Crash,
         Restart, SyncEnd, Place, ExchangeFill, ExchangeExit, Activate, Cancel,
         StopPair, SyncPair, Close
<1> QED BY <1>1, <1>2, <1>3, <1>4

\* Every step keeps the invariant of the rows.
LEMMA RowsStep ==
    ASSUME "second" \notin Faults, RowsInv, [Next]_vars
    PROVE  TrackedHasRow'
<1> USE DEF RowsInv
<1>0. clock \in Nat /\ tracker \in TrackerOf(RowType)
  BY DEF TypeOK
<1>r. LaterReads = {clock}
  BY DEF LaterReads
<1>u. ASSUME tracker'.open = tracker.open, managed' = managed
      PROVE  TrackedHasRow'
  BY <1>u DEF TrackedHasRow, HasRow, IsManaged
<1>1. CASE Tick
  BY <1>1, <1>u DEF Tick
<1>2. CASE ReadLimits
  <2>1. tracker' = DateReset(tracker, clock) /\ managed' = managed
    BY <1>2 DEF ReadLimits, Record
  <2> QED BY <1>0, <1>u, <2>1, DateResetType
<1>3. CASE Connect \/ StopBegin \/ SyncEnd \/ UNCHANGED vars
  BY <1>3, <1>u DEF Connect, StopBegin, SyncEnd, vars
<1>4. CASE StopEnd \/ Crash
  BY <1>4 DEF StopEnd, Crash, Exit, TrackedHasRow, IsManaged
<1>5. CASE Restart
  BY <1>5 DEF Restart, NothingWhenDown, TrackedHasRow, IsManaged
<1>6. ASSUME NEW p \in Pairs, NEW d \in Dirs, Place(p, d)
      PROVE  TrackedHasRow'
  BY <1>0, <1>6, <1>r, RegisterKeepsRows DEF Place
<1>7. ASSUME NEW p \in Pairs, ExchangeFill(p) \/ ExchangeExit(p)
      PROVE  TrackedHasRow'
  BY <1>7, <1>u DEF ExchangeFill, ExchangeExit
<1>8. ASSUME NEW p \in Pairs, Activate(p)
      PROVE  TrackedHasRow'
  <2> DEFINE m == managed[p]
             t == Filled(tracker, m.pair, m.dir, m.ts)
  <2>1. tracker' = t
    BY <1>8 DEF Activate, Record
  <2>2. /\ Len(t.open) = Len(tracker.open)
        /\ \A j \in 1..Len(tracker.open) : \A q, e, us :
              Matches(tracker.open[j], q, e, us) => Matches(t.open[j], q, e, us)
    BY <1>0, FilledType, RowsMayActivate
  <2> HIDE DEF t
  <2>3. \A q, e, us : HasRow(tracker, q, e, us) => HasRow(tracker', q, e, us)
    BY <2>1, <2>2 DEF HasRow
  <2>4. \A q \in Pairs : /\ IsManaged(q)' => IsManaged(q)
                         /\ IsManaged(q) => /\ managed'[q].dir = managed[q].dir
                                            /\ managed'[q].ts = managed[q].ts
    <3>1. PICK ok \in BOOLEAN :
            managed' = [managed EXCEPT ![p].phase = "active", ![p].stored = ok]
      BY <1>8 DEF Activate
    <3>2. IsManaged(p) /\ managed \in [Pairs -> Position \cup {NoPosition}]
      BY <1>8 DEF Activate, TypeOK
    <3>3. m \in Position
      BY <3>2 DEF IsManaged
    <3>4. /\ managed'[p].dir = m.dir /\ managed'[p].ts = m.ts
          /\ \A q \in Pairs : q # p => managed'[q] = managed[q]
      BY <3>1, <3>2, <3>3 DEF Position
    <3> QED BY <3>2, <3>4 DEF IsManaged
  <2> QED BY <2>3, <2>4 DEF TrackedHasRow
<1>9. ASSUME NEW p \in Pairs, Cancel(p)
      PROVE  TrackedHasRow'
  BY <1>9, DropKeepsRows DEF Cancel
<1>10. ASSUME NEW p \in Pairs, StopPair(p)
       PROVE  TrackedHasRow'
  BY <1>10, <1>u, DropKeepsRows DEF StopPair
<1>11. ASSUME NEW p \in Pairs, SyncPair(p)
       PROVE  TrackedHasRow'
  BY <1>0, <1>11, <1>r, <1>u, RegisterKeepsRows DEF SyncPair
<1>12. ASSUME NEW p \in Pairs, NEW pnl \in PnlSteps, Close(p, pnl)
       PROVE  TrackedHasRow'
  <2> DEFINE m == managed[p]
  <2>0. pnl \in Int /\ m.pair = p
    BY <1>12, PnlAssumption DEF Close, TypeOK, IsManaged
  <2>1. tracker' = Closed(tracker, p, m.dir, m.ts, pnl, clock)
    BY <1>12, <2>0 DEF Close, Record
  <2>2. tracker'.open = Removed(tracker.open, p, m.dir, m.ts)
    BY <1>0, <2>0, <2>1, ClosedType
  <2>3. managed' = [managed EXCEPT ![p] = NoPosition]
    BY <1>12 DEF Close
  <2>4. \A q \in Pairs : IsManaged(q)' => q # p /\ IsManaged(q) /\ managed'[q] = managed[q]
    BY <2>3 DEF IsManaged, TypeOK
  <2> QED BY <2>2, <2>4, RemovalKeepsOthers DEF TrackedHasRow
<1> QED
  BY <1>1, <1>2, <1>3, <1>4, <1>5, <1>6, <1>7, <1>8, <1>9, <1>10, <1>11, <1>12
  DEF Next

\* As long as the two clock readings of a handler agree, every position the
\* monitor manages is counted by the open-positions guardrail, through every
\* fill, close, cancellation, crash, restart and adoption.
THEOREM RowsTracked ==
    ASSUME "second" \notin Faults
    PROVE  Spec => []TrackedHasRow
<1>1. Init => RowsInv
  BY RowsInit
<1>2. RowsInv /\ [Next]_vars => RowsInv'
  BY NextType, RowsStep, DownStep DEF RowsInv
<1>3. RowsInv => TrackedHasRow
  BY DEF RowsInv
<1> QED BY <1>1, <1>2, <1>3, PTL DEF Spec

(***************************************************************************)
(* What the steps do to the counters, and what a cut save leaves.          *)
(***************************************************************************)

\* The multiple of k below a number.
LEMMA DivBounds ==
    ASSUME NEW t \in Nat, NEW k \in Nat \ {0}
    PROVE  /\ t \div k \in Nat
           /\ k * (t \div k) <= t
           /\ t < k * (t \div k) + k
<1> DEFINE a == t \div k
<1>1. a \in Nat
  BY DivNat
<1>2. t = k * a + (t % k) /\ t % k \in 0..(k - 1)
  OBVIOUS
<1> HIDE DEF a
<1>3. k * a \in Int /\ k * a <= t /\ t < k * a + k
  BY <1>1, <1>2
<1> QED BY <1>1, <1>3 DEF a

\* A quotient does not fall when its dividend grows.
LEMMA DivGrows ==
    ASSUME NEW t \in Nat, NEW k \in Nat \ {0}
    PROVE  t \div k <= (t + 1) \div k
<1> DEFINE a == t \div k
           b == (t + 1) \div k
<1>1. a \in Nat /\ b \in Nat /\ k * a <= t /\ t + 1 < k * b + k
  BY DivBounds
<1> HIDE DEF a, b
<1>2. ~(b + 1 <= a)
  <2> SUFFICES ASSUME b + 1 <= a PROVE FALSE
    OBVIOUS
  <2>1. k * (b + 1) <= k * a
    BY <1>1
  <2>2. k * (b + 1) = k * b + k
    BY <1>1
  <2>3. k * b \in Int /\ k * a \in Int
    BY <1>1
  <2> QED BY <1>1, <2>1, <2>2, <2>3
<1> QED BY <1>1, <1>2 DEF a, b

\* The calendar goes forward.
LEMMA CalendarGrows ==
    ASSUME NEW t \in Nat
    PROVE  DayOf(t) <= DayOf(t + 1) /\ WeekOf(t) <= WeekOf(t + 1)
<1>1. TicksPerDay * DaysPerWeek \in Nat \ {0}
  BY CalendarAssumption
<1> QED BY <1>1, DivGrows, CalendarAssumption DEF DayOf, WeekOf

\* Two trackers with the same counters.
Numbers(t, u) ==
    /\ t.daily = u.daily /\ t.weekly = u.weekly /\ t.lastLoss = u.lastLoss
    /\ t.trades = u.trades /\ t.day = u.day /\ t.week = u.week

\* What the date reset does to the counters.
LEMMA ResetNumbers ==
    ASSUME NEW t \in TrackerOf(RowType), NEW now \in Nat
    PROVE  LET r == DateReset(t, now)
           IN  /\ r \in TrackerOf(RowType)
               /\ r.day = DayOf(now) /\ r.week = WeekOf(now) /\ r.lastLoss = t.lastLoss
               /\ r.daily = IF t.day = DayOf(now) THEN t.daily ELSE 0
               /\ r.trades = IF t.day = DayOf(now) THEN t.trades ELSE 0
               /\ r.weekly = IF t.week = WeekOf(now) THEN t.weekly ELSE 0
<1>1. DateReset(t, now) \in TrackerOf(RowType)
  BY DateResetType
<1> QED BY <1>1 DEF DateReset, TrackerOf

\* Opening a position resets the date and touches no other counter.
LEMMA OpenedNumbers ==
    ASSUME NEW t \in TrackerOf(RowType), NEW row, NEW now \in Nat
    PROVE  Numbers(Opened(t, row, now), DateReset(t, now))
<1> DEFINE r == DateReset(t, now)
<1>1. r \in TrackerOf(RowType)
  BY DateResetType
<1> HIDE DEF r
<1>2. Opened(t, row, now) = [r EXCEPT !.open = Append(r.open, row)]
  BY DEF Opened, r
<1>3. Numbers([r EXCEPT !.open = Append(r.open, row)], r)
  BY <1>1 DEF Numbers, TrackerOf
<1> QED BY <1>2, <1>3 DEF r

\* Cancelling an entry touches no counter.
LEMMA CancelledNumbers ==
    ASSUME NEW t \in TrackerOf(RowType), NEW p, NEW d, NEW ts
    PROVE  Numbers(Cancelled(t, p, d, ts), t)
BY DEF Cancelled, Numbers, TrackerOf

\* The fill of an entry touches no counter.
LEMMA FilledNumbers ==
    ASSUME NEW t \in TrackerOf(RowType), NEW p, NEW d, NEW ts
    PROVE  Numbers(Filled(t, p, d, ts), t)
<1> DEFINE hits == {i \in 1..Len(t.open) : /\ Matches(t.open[i], p, d, ts)
                                          /\ t.open[i].phase = "pending"}
           i == CHOOSE i \in hits : \A j \in hits : i <= j
<1>1. CASE hits = {}
  BY <1>1 DEF Filled, Numbers
<1>2. CASE hits # {}
  <2>1. Filled(t, p, d, ts) = [t EXCEPT !.open[i].phase = "active"]
    BY <1>2 DEF Filled
  <2> HIDE DEF i
  <2> QED BY <2>1 DEF Numbers, TrackerOf
<1> QED BY <1>1, <1>2

\* What a close adds to the counters.
LEMMA ClosedNumbers ==
    ASSUME NEW t \in TrackerOf(RowType), NEW p, NEW d, NEW ts, NEW pnl \in Int,
           NEW now \in Nat
    PROVE  LET c == Closed(t, p, d, ts, pnl, now)
               r == DateReset(t, now)
           IN  /\ c.day = r.day /\ c.week = r.week
               /\ c.daily = r.daily + pnl /\ c.weekly = r.weekly + pnl
               /\ c.trades = r.trades + 1
               /\ c.lastLoss = IF pnl < 0 THEN now ELSE r.lastLoss
<1> DEFINE r == DateReset(t, now)
<1>1. r \in TrackerOf(RowType)
  BY DateResetType
<1> HIDE DEF r
<1>2. Closed(t, p, d, ts, pnl, now) =
        [r EXCEPT !.open     = Removed(r.open, p, d, ts),
                  !.trades   = r.trades + 1,
                  !.daily    = r.daily + pnl,
                  !.weekly   = r.weekly + pnl,
                  !.lastLoss = IF pnl < 0 THEN now ELSE r.lastLoss]
  BY DEF Closed, r
<1> QED BY <1>1, <1>2 DEF TrackerOf, r

\* A save writes the first n keys and keeps the others.
LEMMA SavedKeys ==
    ASSUME NEW s \in StoreType, NEW t \in TrackerOf(RowType), NEW n \in 0..Len(SaveOrder),
           NEW now \in Nat
    PROVE  LET r == Saved(s, t, n, now)
           IN  /\ r["daily"].val    = IF 1 <= n THEN t.daily    ELSE s["daily"].val
               /\ r["weekly"].val   = IF 2 <= n THEN t.weekly   ELSE s["weekly"].val
               /\ r["lastLoss"].val = IF 3 <= n THEN t.lastLoss ELSE s["lastLoss"].val
               /\ r["day"].val      = IF 5 <= n THEN t.day      ELSE s["day"].val
               /\ r["week"].val     = IF 6 <= n THEN t.week     ELSE s["week"].val
               /\ \A k \in {"daily", "weekly", "lastLoss", "day"} :
                     5 <= n => r[k].exp = now + RedisTTL
               /\ 6 <= n => r["week"].exp = now + RedisTTL
<1> DEFINE r == Saved(s, t, n, now)
<1>1. DOMAIN s = {"daily", "weekly", "lastLoss", "trades", "day", "week", "open"}
  BY StoreDomain
<1>2. n \in 0..7
  BY DEF SaveOrder
<1>3. \A k \in DOMAIN s : r[k] =
          IF \E i \in 1..n : SaveOrder[i] = k
          THEN [val |-> t[k], exp |-> now + RedisTTL] ELSE s[k]
  BY DEF Saved
<1>4. /\ (\E i \in 1..n : SaveOrder[i] = "daily")    <=> 1 <= n
      /\ (\E i \in 1..n : SaveOrder[i] = "weekly")   <=> 2 <= n
      /\ (\E i \in 1..n : SaveOrder[i] = "lastLoss") <=> 3 <= n
      /\ (\E i \in 1..n : SaveOrder[i] = "trades")   <=> 4 <= n
      /\ (\E i \in 1..n : SaveOrder[i] = "day")      <=> 5 <= n
      /\ (\E i \in 1..n : SaveOrder[i] = "week")     <=> 6 <= n
  BY <1>2 DEF SaveOrder
<1> HIDE DEF r
<1>5. /\ r["daily"].val = IF 1 <= n THEN t.daily ELSE s["daily"].val
      /\ 5 <= n => r["daily"].exp = now + RedisTTL
  BY <1>1, <1>2, <1>3, <1>4
<1>6. /\ r["weekly"].val = IF 2 <= n THEN t.weekly ELSE s["weekly"].val
      /\ 5 <= n => r["weekly"].exp = now + RedisTTL
  BY <1>1, <1>2, <1>3, <1>4
<1>7. /\ r["lastLoss"].val = IF 3 <= n THEN t.lastLoss ELSE s["lastLoss"].val
      /\ 5 <= n => r["lastLoss"].exp = now + RedisTTL
  BY <1>1, <1>2, <1>3, <1>4
<1>8. /\ r["day"].val = IF 5 <= n THEN t.day ELSE s["day"].val
      /\ 5 <= n => r["day"].exp = now + RedisTTL
  BY <1>1, <1>2, <1>3, <1>4
<1>9. /\ r["week"].val = IF 6 <= n THEN t.week ELSE s["week"].val
      /\ 6 <= n => r["week"].exp = now + RedisTTL
  BY <1>1, <1>2, <1>3, <1>4
<1> QED BY <1>5, <1>6, <1>7, <1>8, <1>9 DEF r

\* The sums of a day and a week start again with them, those of the database
\* and those that were made.
LEMMA AdvanceIs ==
    ASSUME TypeOK, NEW now \in {clock, clock + 1}, Advance(now)
    PROVE  /\ clock' = now
           /\ DayOf(clock) <= DayOf(clock') /\ WeekOf(clock) <= WeekOf(clock')
           /\ DayOf(clock) = DayOf(clock') =>
                 /\ db'.daily = db.daily /\ db'.count = db.count
                 /\ real'.daily = real.daily /\ real'.dailyLoss = real.dailyLoss
                 /\ lost'.daily = lost.daily
           /\ DayOf(clock) # DayOf(clock') =>
                 /\ db'.daily = 0 /\ db'.count = 0
                 /\ real'.daily = 0 /\ real'.dailyLoss = 0 /\ lost'.daily = 0
           /\ WeekOf(clock) = WeekOf(clock') =>
                 /\ db'.weekly = db.weekly
                 /\ real'.weekly = real.weekly /\ real'.weeklyLoss = real.weeklyLoss
                 /\ lost'.weekly = lost.weekly
           /\ WeekOf(clock) # WeekOf(clock') =>
                 /\ db'.weekly = 0 /\ real'.weekly = 0 /\ real'.weeklyLoss = 0
                 /\ lost'.weekly = 0
           /\ real'.lastLoss = real.lastLoss
<1>1. clock \in Nat /\ db \in DbType /\ real \in RealType
  BY DEF TypeOK, DbType, RealType
<1>2. clock' = now
  BY DEF Advance
<1>3. now = clock \/ now = clock + 1
  OBVIOUS
<1>4. DayOf(clock) <= DayOf(clock') /\ WeekOf(clock) <= WeekOf(clock')
  BY <1>1, <1>2, <1>3, CalendarGrows, CalendarType
<1> DEFINE D == DayOf(now) # DayOf(clock)
           W == WeekOf(now) # WeekOf(clock)
<1>5. /\ db' = [daily  |-> IF D THEN 0 ELSE db.daily,
                weekly |-> IF W THEN 0 ELSE db.weekly,
                count  |-> IF D THEN 0 ELSE db.count]
      /\ real' = [real EXCEPT !.daily      = IF D THEN 0 ELSE real.daily,
                              !.dailyLoss  = IF D THEN 0 ELSE real.dailyLoss,
                              !.weekly     = IF W THEN 0 ELSE real.weekly,
                              !.weeklyLoss = IF W THEN 0 ELSE real.weeklyLoss]
      /\ lost' = [daily |-> IF D THEN 0 ELSE lost.daily, weekly |-> IF W THEN 0 ELSE lost.weekly]
  BY DEF Advance
<1>6. D <=> DayOf(clock) # DayOf(clock')
  BY <1>2
<1>7. W <=> WeekOf(clock) # WeekOf(clock')
  BY <1>2
<1> HIDE DEF D, W
<1>8. /\ db'.daily = (IF D THEN 0 ELSE db.daily) /\ db'.count = (IF D THEN 0 ELSE db.count)
      /\ db'.weekly = (IF W THEN 0 ELSE db.weekly)
      /\ real'.daily = (IF D THEN 0 ELSE real.daily)
      /\ real'.dailyLoss = (IF D THEN 0 ELSE real.dailyLoss)
      /\ real'.weekly = (IF W THEN 0 ELSE real.weekly)
      /\ real'.weeklyLoss = (IF W THEN 0 ELSE real.weeklyLoss)
      /\ real'.lastLoss = real.lastLoss
      /\ lost'.daily = (IF D THEN 0 ELSE lost.daily)
      /\ lost'.weekly = (IF W THEN 0 ELSE lost.weekly)
  BY <1>1, <1>5 DEF RealType
<1> QED BY <1>2, <1>4, <1>6, <1>7, <1>8

\* Nothing that the guardrails' counters are made of changes.
Idles == UNCHANGED <<clock, tracker, redis, db, real, lost>> /\ Up' = Up

\* The tracker's rows change and its counters are saved as they are.
Rewrites == /\ Up /\ Up' /\ UNCHANGED <<clock, db, real, lost>>
            /\ \E t \in TrackerOf(RowType) : Numbers(t, tracker) /\ Record(t, FALSE)

\* The tracker resets its date, at its caller's reading of the clock, and is
\* saved.
Resets == /\ Up /\ Up'
          /\ UNCHANGED <<clock, db, real, lost>> \/ \E now \in {clock, clock + 1} : Advance(now)
          /\ clock' = clock \/ "second" \in Faults
          /\ \E t \in TrackerOf(RowType), at \in {clock, clock'}, r \in BOOLEAN :
                Numbers(t, DateReset(tracker, at)) /\ Record(t, r)

\* A trade is closed.
Closes == \E p \in Pairs, pnl \in PnlSteps : Close(p, pnl)

\* Dropping a position rewrites the rows.
LEMMA DropNumbers ==
    ASSUME TypeOK, NEW p \in Pairs, Drop(p)
    PROVE  \E t \in TrackerOf(RowType) : Numbers(t, tracker) /\ Record(t, FALSE)
<1> DEFINE t == Cancelled(tracker, managed[p].pair, managed[p].dir, managed[p].ts)
<1>1. tracker \in TrackerOf(RowType)
  BY DEF TypeOK
<1>2. t \in TrackerOf(RowType) /\ Numbers(t, tracker)
  BY <1>1, CancelledType, CancelledNumbers
<1>3. Record(t, FALSE)
  BY DEF Drop
<1> QED BY <1>2, <1>3

\* Registering a position resets the date.
LEMMA RegisterNumbers ==
    ASSUME TypeOK, NEW row \in RowType, NEW at \in {clock, clock'}, clock' \in Nat,
           Record(Opened(tracker, row, at), TRUE)
    PROVE  \E t \in TrackerOf(RowType), us \in {clock, clock'}, r \in BOOLEAN :
              Numbers(t, DateReset(tracker, us)) /\ Record(t, r)
<1>1. tracker \in TrackerOf(RowType) /\ at \in Nat
  BY DEF TypeOK
<1>2. Opened(tracker, row, at) \in TrackerOf(RowType)
  BY <1>1, OpenedType
<1>3. Numbers(Opened(tracker, row, at), DateReset(tracker, at))
  BY <1>1, OpenedNumbers
<1> QED BY <1>2, <1>3

\* Every step is one of these kinds.
LEMMA StepKinds ==
    ASSUME TypeOK, [Next]_vars
    PROVE  Idles \/ Tick \/ Rewrites \/ Resets \/ Closes \/ Exit \/ Restart
<1>0. clock \in Nat /\ tracker \in TrackerOf(RowType)
  BY DEF TypeOK
<1>a. /\ LaterReads \subseteq {clock, clock + 1}
      /\ LaterReads = {clock} \/ "second" \in Faults
  BY DEF LaterReads
<1>1. CASE ReadLimits
  <2>1. DateReset(tracker, clock) \in TrackerOf(RowType)
    BY <1>0, DateResetType
  <2>2. Numbers(DateReset(tracker, clock), DateReset(tracker, clock))
    BY DEF Numbers
  <2>3. Resets
    BY <1>1, <2>1, <2>2 DEF ReadLimits, Resets, Up
  <2> QED BY <2>3
<1>2. CASE Connect \/ StopBegin \/ SyncEnd \/ UNCHANGED vars
  BY <1>2 DEF Connect, StopBegin, SyncEnd, vars, Idles, Up
<1>3. CASE StopEnd \/ Crash
  BY <1>3 DEF StopEnd, Crash
<1>4. ASSUME NEW p \in Pairs, NEW d \in Dirs, Place(p, d)
      PROVE  Resets
  <2> DEFINE row == [pair |-> p, dir |-> d, ts |-> clock, phase |-> "pending"]
  <2>1. row \in RowType
    BY <1>0 DEF RowType
  <2>2. Record(Opened(tracker, row, clock), TRUE)
    BY <1>4 DEF Place
  <2> HIDE DEF row
  <2>3. PICK now \in LaterReads : Advance(now)
    BY <1>4 DEF Place
  <2>4. /\ now \in {clock, clock + 1} /\ clock' = now /\ clock' \in Nat
        /\ clock' = clock \/ "second" \in Faults
    BY <2>3, <1>a, <1>0 DEF Advance
  <2>5. \E t \in TrackerOf(RowType), us \in {clock, clock'}, r \in BOOLEAN :
           Numbers(t, DateReset(tracker, us)) /\ Record(t, r)
    BY <2>1, <2>2, <2>4, RegisterNumbers
  <2> QED BY <1>4, <2>3, <2>4, <2>5 DEF Place, Resets, Up
<1>5. ASSUME NEW p \in Pairs, ExchangeFill(p) \/ ExchangeExit(p)
      PROVE  Idles
  BY <1>5 DEF ExchangeFill, ExchangeExit, Idles, Up
<1>6. ASSUME NEW p \in Pairs, Activate(p)
      PROVE  Idles \/ Rewrites
  <2> DEFINE t == Filled(tracker, managed[p].pair, managed[p].dir, managed[p].ts)
  <2>1. t \in TrackerOf(RowType) /\ Numbers(t, tracker)
    BY <1>0, FilledType, FilledNumbers, RowsMayActivate
  <2>2. UNCHANGED <<tracker, redis>> \/ Record(t, FALSE)
    BY <1>6 DEF Activate
  <2> QED BY <1>6, <2>1, <2>2 DEF Activate, Idles, Rewrites, Up
<1>7. ASSUME NEW p \in Pairs, Cancel(p)
      PROVE  Rewrites
  BY <1>7, DropNumbers DEF Cancel, Rewrites, Up
<1>8. ASSUME NEW p \in Pairs, StopPair(p)
      PROVE  Idles \/ Rewrites
  BY <1>8, DropNumbers DEF StopPair, Idles, Rewrites, Up
<1>9. ASSUME NEW p \in Pairs, SyncPair(p)
      PROVE  Idles \/ Resets
  <2>1. CASE UNCHANGED <<clock, tracker, redis, db, managed, real, lost>>
    BY <1>9, <2>1 DEF SyncPair, Idles, Up
  <2>2. ASSUME NEW d \in Dirs, NEW now \in LaterReads,
               Record(Opened(tracker, [pair |-> p, dir |-> d, ts |-> now,
                                       phase |-> "active"], now), TRUE),
               Advance(now)
        PROVE  Resets
    <3> DEFINE row == [pair |-> p, dir |-> d, ts |-> now, phase |-> "active"]
    <3>1. /\ now \in {clock, clock + 1} /\ clock' = now /\ clock' \in Nat
          /\ clock' = clock \/ "second" \in Faults
      BY <2>2, <1>a, <1>0 DEF Advance
    <3>2. row \in RowType
      BY <3>1 DEF RowType
    <3> HIDE DEF row
    <3>3. \E t \in TrackerOf(RowType), us \in {clock, clock'}, r \in BOOLEAN :
             Numbers(t, DateReset(tracker, us)) /\ Record(t, r)
      BY <2>2, <3>1, <3>2, RegisterNumbers DEF row
    <3> QED BY <1>9, <2>2, <3>1, <3>3 DEF SyncPair, Resets, Up
  <2> QED BY <1>9, <2>1, <2>2 DEF SyncPair
<1>10. (\E p \in Pairs, pnl \in PnlSteps : Close(p, pnl)) => Closes
  BY DEF Closes
<1> QED
  BY <1>1, <1>2, <1>3, <1>4, <1>5, <1>6, <1>7, <1>8, <1>9, <1>10 DEF Next

(***************************************************************************)
(* The trades of the day.                                                  *)
(***************************************************************************)

\* What the getters return.
LEMMA GettersAre ==
    ASSUME NEW t \in TrackerOf(RowType), NEW now \in Nat
    PROVE  /\ TradesToday(t, now) = IF t.day = DayOf(now) THEN t.trades ELSE 0
           /\ DailyPnl(t, now) = IF t.day = DayOf(now) THEN t.daily ELSE 0
           /\ WeeklyPnl(t, now) = IF t.week = WeekOf(now) THEN t.weekly ELSE 0
BY ResetNumbers DEF TradesToday, DailyPnl, WeeklyPnl

\* A step of trading keeps what is counted of the day at least at what the
\* database has.
LEMMA CapStep ==
    ASSUME "dbRead" \notin Faults, TypeOK, TradeCapCovered, [Next]_vars
    PROVE  TradeCapCovered'
<1> DEFINE n == TradesToday(tracker, clock)
<1>0. /\ clock \in Nat /\ tracker \in TrackerOf(RowType) /\ db \in DbType
      /\ redis \in StoreType
  BY DEF TypeOK, DbType
<1>1. clock' \in Nat /\ tracker' \in TrackerOf(RowType) /\ db' \in DbType
  BY NextType DEF TypeOK, DbType
<1>2. Up => (IF tracker.day = DayOf(clock) THEN tracker.trades ELSE 0) >= db.count
  BY <1>0, GettersAre DEF TradeCapCovered
<1>3. SUFFICES ASSUME Up'
               PROVE  (IF tracker'.day = DayOf(clock') THEN tracker'.trades ELSE 0)
                          >= db'.count
  BY <1>1, GettersAre DEF TradeCapCovered
<1>4. CASE Idles
  BY <1>2, <1>3, <1>4 DEF Idles
<1>5. CASE Tick
  BY <1>0, <1>2, <1>3, <1>5, AdvanceIs DEF Tick, Up, TrackerOf, DbType
<1>6. CASE Rewrites
  <2>1. Numbers(tracker', tracker)
    BY <1>6 DEF Rewrites, Record
  <2> QED BY <1>2, <1>6, <2>1 DEF Rewrites, Numbers
<1>7. CASE Resets
  <2>1. PICK t \in TrackerOf(RowType), at \in {clock, clock'}, r \in BOOLEAN :
          Numbers(t, DateReset(tracker, at)) /\ Record(t, r)
    BY <1>7 DEF Resets
  <2>2. tracker' = t /\ at \in Nat
    BY <1>0, <1>1, <2>1 DEF Record
  <2>3. /\ t.day = DayOf(at)
        /\ t.trades = IF tracker.day = DayOf(at) THEN tracker.trades ELSE 0
    BY <1>0, <2>1, <2>2, ResetNumbers DEF Numbers
  <2>4. /\ DayOf(clock) = DayOf(clock') => db'.count = db.count
        /\ DayOf(clock) # DayOf(clock') => db'.count = 0
    BY <1>7, AdvanceIs DEF Resets
  <2>5. tracker'.trades \in Nat /\ tracker.trades \in Nat
    BY <1>0, <1>1 DEF TrackerOf
  <2>6. CASE DayOf(clock) # DayOf(clock')
    BY <2>4, <2>5, <2>6
  <2>7. CASE DayOf(clock) = DayOf(clock')
    <3>1. DayOf(at) = DayOf(clock) /\ db'.count = db.count
      BY <2>4, <2>7
    <3> QED BY <1>2, <1>7, <2>2, <2>3, <2>7, <3>1 DEF Resets
  <2> QED BY <2>6, <2>7
<1>8. CASE Closes
  <2>1. PICK p \in Pairs, pnl \in PnlSteps : Close(p, pnl)
    BY <1>8 DEF Closes
  <2>2. pnl \in Int
    BY PnlAssumption
  <2>3. /\ clock' = clock /\ Up
        /\ tracker' = Closed(tracker, managed[p].pair, managed[p].dir, managed[p].ts,
                             pnl, clock)
        /\ db'.count = db.count \/ db'.count = db.count + 1
    BY <2>1 DEF Close, Record, Up
  <2>4. /\ tracker'.day = DayOf(clock)
        /\ tracker'.trades = (IF tracker.day = DayOf(clock) THEN tracker.trades ELSE 0) + 1
    BY <1>0, <2>2, <2>3, ClosedNumbers, ResetNumbers
  <2> QED BY <1>0, <1>2, <2>3, <2>4 DEF TrackerOf, DbType
<1>9. CASE Exit
  BY <1>3, <1>9 DEF Exit, Up
<1>10. CASE Restart
  <2> DEFINE t0 == IF RedisAtInit THEN Loaded(redis, clock) ELSE Fresh(clock)
  <2>1. tracker' = Reconciled(t0, db) /\ clock' = clock /\ db' = db
    BY <1>10 DEF Restart
  <2>2. t0 \in TrackerOf(RowType) /\ t0.day = DayOf(clock)
    <3>1. t0 \in TrackerOf(RowType)
      BY <1>0, LoadedType, FreshType
    <3>2. Fresh(clock).day = DayOf(clock) /\ Loaded(redis, clock).day = DayOf(clock)
      BY DEF Fresh, Loaded
    <3> QED BY <3>1, <3>2
  <2> HIDE DEF t0
  <2>3. /\ Reconciled(t0, db).day = t0.day
        /\ Reconciled(t0, db).trades = IF db.count > t0.trades THEN db.count ELSE t0.trades
    BY <2>2 DEF Reconciled, TrackerOf
  <2> QED BY <1>0, <2>1, <2>2, <2>3 DEF TrackerOf, DbType
<1> QED BY <1>4, <1>5, <1>6, <1>7, <1>8, <1>9, <1>10, StepKinds

\* While PostgreSQL answers at startup, the trades-per-day guardrail counts at
\* least the trades the database closed today, whatever Redis holds, however
\* short its saves are cut, and wherever the process ends
\* (state_tracker.py:274-352).
THEOREM TradesCovered ==
    ASSUME "dbRead" \notin Faults
    PROVE  Spec => []TradeCapCovered
<1>1. Init => TradeCapCovered
  <2> SUFFICES ASSUME Init PROVE TradeCapCovered
    OBVIOUS
  <2>1. tracker = Fresh(0) /\ clock = 0 /\ db.count = 0
    BY DEF Init, NoTrades
  <2>2. tracker \in TrackerOf(RowType) /\ tracker.trades = 0
    BY <2>1, FreshType DEF Fresh
  <2> QED BY <2>1, <2>2, GettersAre DEF TradeCapCovered
<1>2. TypeOK /\ TradeCapCovered /\ [Next]_vars => TradeCapCovered'
  BY CapStep
<1> QED BY <1>1, <1>2, TypeCorrect, PTL DEF Spec

(***************************************************************************)
(* No loss is invented.                                                    *)
(***************************************************************************)

\* What a store may hold on day d of week w, when the losses of the day are dl
\* and those of the week wl: no later day, and of this day and week no more.
StoreFits(s, d, w, dl, wl) ==
    /\ s["day"].val <= d /\ s["week"].val <= w
    /\ s["day"].val = d => -s["daily"].val <= dl
    /\ s["week"].val = w => -s["weekly"].val <= wl

\* The same of a tracker, whose store is not ahead of it.
TrackerFits(t, s, d, w, dl, wl) ==
    /\ s["day"].val <= t.day /\ t.day <= d /\ s["week"].val <= t.week /\ t.week <= w
    /\ t.day = d => -t.daily <= dl
    /\ t.week = w => -t.weekly <= wl

\* The sums are saved before the day and week they are of, so that a cut save
\* leaves no old day beside a later sum, and a new day never beside an old one.
LEMMA SaveFits ==
    ASSUME NEW s \in StoreType, NEW t \in TrackerOf(RowType), NEW n \in 0..Len(SaveOrder),
           NEW now \in Nat, NEW d \in Nat, NEW w \in Nat, NEW dl \in Nat, NEW wl \in Nat,
           StoreFits(s, d, w, dl, wl), TrackerFits(t, s, d, w, dl, wl)
    PROVE  LET r == Saved(s, t, n, now)
           IN  /\ r \in StoreType /\ StoreFits(r, d, w, dl, wl)
               /\ TrackerFits(t, r, d, w, dl, wl)
               /\ r["day"].val \in {s["day"].val, t.day}
               /\ r["week"].val \in {s["week"].val, t.week}
<1> DEFINE r == Saved(s, t, n, now)
<1>1. r \in StoreType
  BY SavedType
<1>2. n \in 0..7
  BY DEF SaveOrder
<1>3. /\ r["daily"].val  = IF 1 <= n THEN t.daily  ELSE s["daily"].val
      /\ r["weekly"].val = IF 2 <= n THEN t.weekly ELSE s["weekly"].val
      /\ r["day"].val    = IF 5 <= n THEN t.day    ELSE s["day"].val
      /\ r["week"].val   = IF 6 <= n THEN t.week   ELSE s["week"].val
  BY SavedKeys
<1> HIDE DEF r
<1>4. /\ s["day"].val \in Nat /\ s["week"].val \in Nat
      /\ s["daily"].val \in Int /\ s["weekly"].val \in Int
      /\ t.day \in Nat /\ t.week \in Nat /\ t.daily \in Int /\ t.weekly \in Int
  BY DEF StoreType, KeyType, TrackerOf
<1>5. StoreFits(r, d, w, dl, wl) /\ TrackerFits(t, r, d, w, dl, wl)
  BY <1>2, <1>3, <1>4 DEF StoreFits, TrackerFits
<1>6. r["day"].val \in {s["day"].val, t.day} /\ r["week"].val \in {s["week"].val, t.week}
  BY <1>3
<1> QED BY <1>1, <1>5, <1>6 DEF r

\* A tracker that fits also fits after its date reset.
LEMMA ResetFits ==
    ASSUME NEW s \in StoreType, NEW t \in TrackerOf(RowType), NEW at \in Nat,
           NEW d \in Nat, NEW w \in Nat, NEW dl \in Nat, NEW wl \in Nat,
           DayOf(at) <= d, WeekOf(at) <= w, t.day <= DayOf(at), t.week <= WeekOf(at),
           TrackerFits(t, s, d, w, dl, wl)
    PROVE  TrackerFits(DateReset(t, at), s, d, w, dl, wl)
<1> DEFINE r == DateReset(t, at)
<1>1. /\ r.day = DayOf(at) /\ r.week = WeekOf(at)
      /\ r.daily = (IF t.day = DayOf(at) THEN t.daily ELSE 0)
      /\ r.weekly = (IF t.week = WeekOf(at) THEN t.weekly ELSE 0)
  BY ResetNumbers
<1>2. /\ s["day"].val \in Nat /\ s["week"].val \in Nat /\ DayOf(at) \in Nat /\ WeekOf(at) \in Nat
      /\ t.day \in Nat /\ t.week \in Nat /\ t.daily \in Int /\ t.weekly \in Int
  BY CalendarType DEF StoreType, KeyType, TrackerOf
<1> HIDE DEF r
<1>3. TrackerFits(r, s, d, w, dl, wl)
  BY <1>1, <1>2 DEF TrackerFits
<1> QED BY <1>3 DEF r

\* Recording an operation, with the save of the date reset before it, fits.
LEMMA RecordFits ==
    ASSUME TypeOK, NEW t \in TrackerOf(RowType), NEW resets \in BOOLEAN, Record(t, resets),
           NEW d \in Nat, NEW w \in Nat, NEW dl \in Nat, NEW wl \in Nat,
           DayOf(clock) <= d, WeekOf(clock) <= w,
           tracker.day <= DayOf(clock), tracker.week <= WeekOf(clock),
           StoreFits(redis, d, w, dl, wl), TrackerFits(tracker, redis, d, w, dl, wl),
           TrackerFits(t, redis, d, w, dl, wl),
           resets => DayOf(clock) <= t.day /\ WeekOf(clock) <= t.week
    PROVE  StoreFits(redis', d, w, dl, wl) /\ TrackerFits(tracker', redis', d, w, dl, wl)
<1> DEFINE u == DateReset(tracker, clock)
           reset == resets /\ ResetDue(tracker, clock)
<1>0. clock \in Nat /\ tracker \in TrackerOf(RowType) /\ redis \in StoreType
  BY DEF TypeOK
<1>1. tracker' = t
  BY DEF Record
<1>2. PICK n \in SavePrefixes, m \in SavePrefixes :
         redis' = IF connected
                  THEN Saved(IF reset THEN Saved(redis, u, m, clock) ELSE redis, t, n, clock)
                  ELSE redis
  BY DEF Record
<1>3. n \in 0..Len(SaveOrder) /\ m \in 0..Len(SaveOrder)
  BY SaveAssumption
<1>4. u \in TrackerOf(RowType) /\ u.day = DayOf(clock) /\ u.week = WeekOf(clock)
  BY <1>0, ResetNumbers
<1>5. TrackerFits(u, redis, d, w, dl, wl)
  BY <1>0, ResetFits
<1> DEFINE base == IF reset THEN Saved(redis, u, m, clock) ELSE redis
<1> HIDE DEF u
<1>6. base \in StoreType /\ StoreFits(base, d, w, dl, wl) /\ TrackerFits(t, base, d, w, dl, wl)
  <2>1. CASE ~reset
    BY <1>0, <2>1
  <2>2. CASE reset
    <3> DEFINE b == Saved(redis, u, m, clock)
    <3>1. /\ b \in StoreType /\ StoreFits(b, d, w, dl, wl)
          /\ b["day"].val \in {redis["day"].val, u.day}
          /\ b["week"].val \in {redis["week"].val, u.week}
      BY <1>0, <1>3, <1>4, <1>5, SaveFits
    <3>2. base = b
      BY <2>2
    <3> HIDE DEF b, base, reset
    <3>3. resets
      BY <2>2 DEF reset
    <3>4. TrackerFits(t, b, d, w, dl, wl)
      BY <1>4, <3>1, <3>3 DEF TrackerFits
    <3> QED BY <3>1, <3>2, <3>4
  <2> QED BY <2>1, <2>2
<1>7. redis' = IF connected THEN Saved(base, t, n, clock) ELSE redis
  BY <1>2
<1> HIDE DEF base
<1>8. CASE connected
  BY <1>0, <1>1, <1>3, <1>6, <1>7, <1>8, SaveFits
<1>9. CASE ~connected
  BY <1>1, <1>7, <1>9
<1> QED BY <1>8, <1>9

\* Of the losses of the day and the week, nothing holds more than were made:
\* the database, the store and, while the process runs, the tracker.
DbFits == -db.daily <= real.dailyLoss /\ -db.weekly <= real.weeklyLoss
NowFits(s) == StoreFits(s, DayOf(clock), WeekOf(clock), real.dailyLoss, real.weeklyLoss)
HeldFits(t, s) ==
    TrackerFits(t, s, DayOf(clock), WeekOf(clock), real.dailyLoss, real.weeklyLoss)
InventInv == DbFits /\ NowFits(redis) /\ (Up => HeldFits(tracker, redis))

\* What is at most what was made is never reported as more.
LEMMA InventImplies == TypeOK /\ InventInv => DrawdownNotInvented
<1> SUFFICES ASSUME TypeOK, InventInv, Up
             PROVE  -DailyPnl(tracker, clock) <= real.dailyLoss
                    /\ -WeeklyPnl(tracker, clock) <= real.weeklyLoss
  BY DEF DrawdownNotInvented
<1>1. clock \in Nat /\ tracker \in TrackerOf(RowType) /\ real \in RealType
  BY DEF TypeOK, RealType
<1>2. HeldFits(tracker, redis)
  BY DEF InventInv
<1> QED BY <1>1, <1>2, GettersAre DEF HeldFits, TrackerFits, RealType

\* What a start restores of a store that fits.
LEMMA LoadedFits ==
    ASSUME NEW s \in StoreType, NEW now \in Nat, NEW dl \in Nat, NEW wl \in Nat,
           StoreFits(s, DayOf(now), WeekOf(now), dl, wl)
    PROVE  TrackerFits(Loaded(s, now), s, DayOf(now), WeekOf(now), dl, wl)
<1> DEFINE f == Fresh(now)
           r == Loaded(s, now)
<1>1. /\ f.daily = 0 /\ f.weekly = 0 /\ f.day = DayOf(now) /\ f.week = WeekOf(now)
      /\ f \in TrackerOf(RowType)
  BY FreshType DEF Fresh
<1>2. /\ r.day = DayOf(now) /\ r.week = WeekOf(now)
      /\ r.daily = 0 \/ (s["day"].val = DayOf(now) /\ r.daily = s["daily"].val)
      /\ r.weekly = 0 \/ (s["week"].val = WeekOf(now) /\ r.weekly = s["weekly"].val)
  BY DEF Loaded, Fresh
<1>3. /\ s["day"].val \in Nat /\ s["week"].val \in Nat
      /\ s["daily"].val \in Int /\ s["weekly"].val \in Int
      /\ DayOf(now) \in Nat /\ WeekOf(now) \in Nat
  BY CalendarType DEF StoreType, KeyType
<1> HIDE DEF f, r
<1>4. TrackerFits(r, s, DayOf(now), WeekOf(now), dl, wl)
  BY <1>2, <1>3 DEF TrackerFits, StoreFits
<1> QED BY <1>4 DEF r

\* A tracker of today that fits still fits after it took the worse sums of a
\* database that fits.
LEMMA ReconciledFits ==
    ASSUME NEW s \in StoreType, NEW t \in TrackerOf(RowType),
           NEW b \in DbType, NEW d \in Nat, NEW w \in Nat, NEW dl \in Nat, NEW wl \in Nat,
           -b.daily <= dl, -b.weekly <= wl, TrackerFits(t, s, d, w, dl, wl)
    PROVE  TrackerFits(Reconciled(t, b), s, d, w, dl, wl)
<1> DEFINE r == Reconciled(t, b)
<1>1. /\ r.day = t.day /\ r.week = t.week
      /\ r.daily = (IF b.daily < t.daily THEN b.daily ELSE t.daily)
      /\ r.weekly = (IF b.weekly < t.weekly THEN b.weekly ELSE t.weekly)
  BY DEF Reconciled, TrackerOf
<1>2. /\ s["day"].val \in Nat /\ s["week"].val \in Nat /\ b.daily \in Int /\ b.weekly \in Int
      /\ t.day \in Nat /\ t.week \in Nat /\ t.daily \in Int /\ t.weekly \in Int
  BY DEF StoreType, KeyType, TrackerOf, DbType
<1> HIDE DEF r
<1>3. TrackerFits(r, s, d, w, dl, wl)
  BY <1>1, <1>2 DEF TrackerFits
<1> QED BY <1>3 DEF r

\* A step of the system reports no loss that was not made.
LEMMA InventStep ==
    ASSUME TypeOK, InventInv, [Next]_vars
    PROVE  InventInv'
<1>0. /\ clock \in Nat /\ tracker \in TrackerOf(RowType) /\ redis \in StoreType
      /\ db \in DbType /\ real \in RealType
      /\ DayOf(clock) \in Nat /\ WeekOf(clock) \in Nat
  BY CalendarType DEF TypeOK, DbType, RealType
<1>1. /\ clock' \in Nat /\ tracker' \in TrackerOf(RowType) /\ redis' \in StoreType
      /\ db' \in DbType /\ real' \in RealType
      /\ DayOf(clock') \in Nat /\ WeekOf(clock') \in Nat
  BY NextType, CalendarType DEF TypeOK, DbType, RealType
<1> DEFINE d == DayOf(clock')
           w == WeekOf(clock')
           dl == real'.dailyLoss
           wl == real'.weeklyLoss
<1>2. d \in Nat /\ w \in Nat /\ dl \in Nat /\ wl \in Nat
  BY <1>1 DEF RealType
<1>3. ASSUME NEW now \in {clock, clock + 1}, Advance(now)
      PROVE  /\ DbFits' /\ StoreFits(redis, d, w, dl, wl)
             /\ Up => TrackerFits(tracker, redis, d, w, dl, wl)
             /\ DayOf(clock) <= d /\ WeekOf(clock) <= w
  <2>1. /\ DayOf(clock) <= d /\ WeekOf(clock) <= w
        /\ DayOf(clock) = d => dl = real.dailyLoss /\ db'.daily = db.daily
        /\ DayOf(clock) # d => dl = 0 /\ db'.daily = 0
        /\ WeekOf(clock) = w => wl = real.weeklyLoss /\ db'.weekly = db.weekly
        /\ WeekOf(clock) # w => wl = 0 /\ db'.weekly = 0
    BY <1>3, AdvanceIs
  <2>2. real.dailyLoss \in Nat /\ real.weeklyLoss \in Nat
    BY <1>0 DEF RealType
  <2>3. DbFits'
    BY <2>1 DEF InventInv, DbFits
  <2> HIDE DEF d, w, dl, wl
  <2>4. (DayOf(clock) = d => real.dailyLoss <= dl) /\ (WeekOf(clock) = w => real.weeklyLoss <= wl)
    BY <1>2, <2>1, <2>2
  <2>5. /\ StoreFits(redis, d, w, dl, wl)
        /\ Up => TrackerFits(tracker, redis, d, w, dl, wl)
    <3>1. /\ NowFits(redis) /\ (Up => HeldFits(tracker, redis))
          /\ tracker.day \in Nat /\ tracker.week \in Nat
          /\ tracker.daily \in Int /\ tracker.weekly \in Int
          /\ redis["day"].val \in Nat /\ redis["week"].val \in Nat
          /\ redis["daily"].val \in Int /\ redis["weekly"].val \in Int
      BY <1>0 DEF InventInv, TrackerOf, StoreType, KeyType
    <3> QED BY <1>0, <1>2, <2>1, <2>2, <2>4, <3>1
            DEF NowFits, HeldFits, StoreFits, TrackerFits
  <2> QED BY <2>1, <2>3, <2>5
<1>4. ASSUME UNCHANGED <<clock, db, real>>
      PROVE  /\ DbFits' /\ StoreFits(redis, d, w, dl, wl)
             /\ Up => TrackerFits(tracker, redis, d, w, dl, wl)
             /\ DayOf(clock) <= d /\ WeekOf(clock) <= w
  BY <1>0, <1>4 DEF InventInv, DbFits, NowFits, HeldFits
<1>5. SUFFICES ASSUME TRUE
               PROVE  /\ DbFits' /\ StoreFits(redis', d, w, dl, wl)
                      /\ Up' => TrackerFits(tracker', redis', d, w, dl, wl)
  BY DEF InventInv, NowFits, HeldFits
<1>6. CASE Idles
  BY <1>4, <1>6 DEF Idles
<1>7. CASE Tick
  BY <1>0, <1>3, <1>7 DEF Tick, Up
<1>8. CASE Rewrites
  <2>1. PICK t \in TrackerOf(RowType) : Numbers(t, tracker) /\ Record(t, FALSE)
    BY <1>8 DEF Rewrites
  <2>2. /\ DbFits' /\ StoreFits(redis, d, w, dl, wl)
        /\ TrackerFits(tracker, redis, d, w, dl, wl)
        /\ DayOf(clock) <= d /\ WeekOf(clock) <= w
    BY <1>4, <1>8 DEF Rewrites
  <2>3. tracker.day <= DayOf(clock) /\ tracker.week <= WeekOf(clock)
    BY <1>8 DEF Rewrites, InventInv, HeldFits, TrackerFits
  <2> HIDE DEF d, w, dl, wl
  <2>4. TrackerFits(t, redis, d, w, dl, wl)
    BY <2>1, <2>2 DEF Numbers, TrackerFits
  <2> QED BY <1>2, <2>1, <2>2, <2>3, <2>4, RecordFits
<1>9. CASE Resets
  <2>1. PICK t \in TrackerOf(RowType), at \in {clock, clock'}, r \in BOOLEAN :
          Numbers(t, DateReset(tracker, at)) /\ Record(t, r)
    BY <1>9 DEF Resets
  <2>2. /\ DbFits' /\ StoreFits(redis, d, w, dl, wl)
        /\ TrackerFits(tracker, redis, d, w, dl, wl)
        /\ DayOf(clock) <= d /\ WeekOf(clock) <= w
    BY <1>3, <1>4, <1>9 DEF Resets
  <2>3. tracker.day <= DayOf(clock) /\ tracker.week <= WeekOf(clock)
    BY <1>9 DEF Resets, InventInv, HeldFits, TrackerFits
  <2>4. /\ at \in Nat /\ DayOf(at) <= d /\ WeekOf(at) <= w
        /\ DayOf(clock) <= DayOf(at) /\ WeekOf(clock) <= WeekOf(at)
        /\ DayOf(at) \in Nat /\ WeekOf(at) \in Nat
    BY <1>0, <1>1, <2>1, <2>2
  <2>5. tracker.day \in Nat /\ tracker.week \in Nat
    BY <1>0 DEF TrackerOf
  <2> HIDE DEF d, w, dl, wl
  <2>6. tracker.day <= DayOf(at) /\ tracker.week <= WeekOf(at)
    BY <1>0, <2>3, <2>4, <2>5
  <2>7. TrackerFits(DateReset(tracker, at), redis, d, w, dl, wl)
    BY <1>0, <1>2, <2>2, <2>4, <2>6, ResetFits
  <2>8. /\ DateReset(tracker, at).day = DayOf(at)
        /\ DateReset(tracker, at).week = WeekOf(at)
    BY <1>0, <2>4, ResetNumbers
  <2>9. /\ TrackerFits(t, redis, d, w, dl, wl)
        /\ DayOf(clock) <= t.day /\ WeekOf(clock) <= t.week
    BY <2>1, <2>4, <2>7, <2>8 DEF Numbers, TrackerFits
  <2> QED BY <1>2, <2>1, <2>2, <2>3, <2>9, RecordFits
<1>10. CASE Closes
  <2>1. PICK p \in Pairs, pnl \in PnlSteps : Close(p, pnl)
    BY <1>10 DEF Closes
  <2>2. pnl \in Int
    BY PnlAssumption
  <2> DEFINE t == Closed(tracker, managed[p].pair, managed[p].dir, managed[p].ts, pnl, clock)
             u == DateReset(tracker, clock)
             loss == IF pnl < 0 THEN -pnl ELSE 0
  <2>3. /\ clock' = clock /\ Up /\ Record(t, TRUE)
        /\ dl = real.dailyLoss + loss /\ wl = real.weeklyLoss + loss
        /\ \/ db'.daily = db.daily + pnl /\ db'.weekly = db.weekly + pnl
           \/ db' = db
    <3>1. clock' = clock /\ Up /\ Record(t, TRUE)
      BY <2>1 DEF Close, Up
    <3>2. real'.dailyLoss = real.dailyLoss + loss /\ real'.weeklyLoss = real.weeklyLoss + loss
      BY <2>1 DEF Close
    <3>3. \/ db'.daily = db.daily + pnl /\ db'.weekly = db.weekly + pnl
          \/ db' = db
      BY <2>1 DEF Close
    <3> QED BY <3>1, <3>2, <3>3
  <2>4. loss \in Nat /\ -pnl <= loss
    BY <2>2
  <2>5. t \in TrackerOf(RowType) /\ u \in TrackerOf(RowType)
    BY <1>0, <2>2, ClosedType, DateResetType
  <2>6. /\ t.day = DayOf(clock) /\ t.week = WeekOf(clock)
        /\ t.daily = (IF tracker.day = DayOf(clock) THEN tracker.daily ELSE 0) + pnl
        /\ t.weekly = (IF tracker.week = WeekOf(clock) THEN tracker.weekly ELSE 0) + pnl
    <3>1. /\ t.day = u.day /\ t.week = u.week
          /\ t.daily = u.daily + pnl /\ t.weekly = u.weekly + pnl
      BY <1>0, <2>2, ClosedNumbers
    <3>2. /\ u.day = DayOf(clock) /\ u.week = WeekOf(clock)
          /\ u.daily = (IF tracker.day = DayOf(clock) THEN tracker.daily ELSE 0)
          /\ u.weekly = (IF tracker.week = WeekOf(clock) THEN tracker.weekly ELSE 0)
      BY <1>0, ResetNumbers
    <3> HIDE DEF t, u
    <3> QED BY <3>1, <3>2
  <2> HIDE DEF t, u, loss
  <2>7. real.dailyLoss \in Nat /\ real.weeklyLoss \in Nat /\ db.daily \in Int /\ db.weekly \in Int
    BY <1>0 DEF RealType, DbType
  <2>8. DbFits'
    BY <2>2, <2>3, <2>4, <2>7 DEF InventInv, DbFits
  <2>9. /\ NowFits(redis) /\ HeldFits(tracker, redis)
        /\ d = DayOf(clock) /\ w = WeekOf(clock)
    BY <2>3 DEF InventInv
  <2> HIDE DEF d, w, dl, wl
  <2>10. real.dailyLoss <= dl /\ real.weeklyLoss <= wl
    BY <2>3, <2>4, <2>7
  <2>11. StoreFits(redis, d, w, dl, wl) /\ TrackerFits(tracker, redis, d, w, dl, wl)
    <3>1. /\ tracker.day \in Nat /\ tracker.week \in Nat
          /\ tracker.daily \in Int /\ tracker.weekly \in Int
          /\ redis["day"].val \in Nat /\ redis["week"].val \in Nat
          /\ redis["daily"].val \in Int /\ redis["weekly"].val \in Int
      BY <1>0 DEF TrackerOf, StoreType, KeyType
    <3> QED BY <1>0, <1>2, <2>7, <2>9, <2>10, <3>1
            DEF NowFits, HeldFits, StoreFits, TrackerFits
  <2>12. tracker.day <= DayOf(clock) /\ tracker.week <= WeekOf(clock)
    BY <2>9 DEF HeldFits, TrackerFits
  <2>13. /\ tracker.day \in Nat /\ tracker.week \in Nat
         /\ tracker.daily \in Int /\ tracker.weekly \in Int
         /\ redis["day"].val \in Nat /\ redis["week"].val \in Nat
    BY <1>0 DEF TrackerOf, StoreType, KeyType
  <2>14. /\ -t.daily <= dl /\ -t.weekly <= wl
    BY <1>0, <2>2, <2>3, <2>4, <2>6, <2>7, <2>9, <2>13 DEF HeldFits, TrackerFits
  <2>15. TrackerFits(t, redis, d, w, dl, wl)
    BY <1>0, <2>6, <2>9, <2>11, <2>12, <2>13, <2>14 DEF TrackerFits
  <2>16. DayOf(clock) <= t.day /\ WeekOf(clock) <= t.week /\ DayOf(clock) <= d /\ WeekOf(clock) <= w
    BY <1>0, <2>6, <2>9
  <2> QED BY <1>2, <2>3, <2>5, <2>8, <2>11, <2>12, <2>15, <2>16, RecordFits
<1>11. CASE Exit
  BY <1>4, <1>11 DEF Exit, Up
<1>12. CASE Restart
  <2>1. PICK seen \in {db} \cup {NoTrades} :
          LET t0 == IF RedisAtInit THEN Loaded(redis, clock) ELSE Fresh(clock)
              t  == Reconciled(t0, seen)
          IN  /\ tracker' = t
              /\ IF RedisAtInit /\ t # t0
                 THEN \E n \in SavePrefixes : redis' = Saved(redis, t, n, clock)
                 ELSE redis' = redis
    BY <1>12 DEF Restart
  <2> DEFINE t0 == IF RedisAtInit THEN Loaded(redis, clock) ELSE Fresh(clock)
             t  == Reconciled(t0, seen)
  <2>2. /\ DbFits' /\ StoreFits(redis, d, w, dl, wl)
        /\ d = DayOf(clock) /\ w = WeekOf(clock)
    BY <1>4, <1>12 DEF Restart
  <2>3. seen \in DbType /\ -seen.daily <= dl /\ -seen.weekly <= wl
    <3>1. -db.daily <= dl /\ -db.weekly <= wl
      BY <1>12 DEF Restart, InventInv, DbFits
    <3>2. NoTrades \in DbType /\ NoTrades.daily = 0 /\ NoTrades.weekly = 0
      BY DEF NoTrades, DbType
    <3> QED BY <1>0, <1>2, <3>1, <3>2
  <2>4. t0 \in TrackerOf(RowType)
    BY <1>0, LoadedType, FreshType
  <2> HIDE DEF d, w, dl, wl
  <2>5. TrackerFits(Loaded(redis, clock), redis, d, w, dl, wl)
    BY <1>0, <1>2, <2>2, LoadedFits
  <2>6. TrackerFits(Fresh(clock), redis, d, w, dl, wl)
    BY <1>0, <1>2, <2>2, <2>5 DEF TrackerFits, Fresh, StoreFits, StoreType, KeyType
  <2>7. TrackerFits(t0, redis, d, w, dl, wl)
    BY <2>5, <2>6
  <2> HIDE DEF t0
  <2>8. TrackerFits(t, redis, d, w, dl, wl) /\ t \in TrackerOf(RowType)
    BY <1>0, <1>2, <2>3, <2>4, <2>7, ReconciledFits, ReconciledType DEF DbType
  <2>9. tracker' = t /\ (redis' = redis \/ \E n \in SavePrefixes : redis' = Saved(redis, t, n, clock))
    BY <2>1 DEF t0
  <2> HIDE DEF t
  <2>10. \A n \in SavePrefixes : n \in 0..Len(SaveOrder)
    BY SaveAssumption
  <2>11. StoreFits(redis', d, w, dl, wl) /\ TrackerFits(t, redis', d, w, dl, wl)
    <3>1. CASE redis' = redis
      BY <2>2, <2>8, <3>1
    <3>2. ASSUME NEW n \in SavePrefixes, redis' = Saved(redis, t, n, clock)
          PROVE  StoreFits(redis', d, w, dl, wl) /\ TrackerFits(t, redis', d, w, dl, wl)
      BY <1>0, <1>2, <2>2, <2>8, <2>10, <3>2, SaveFits
    <3> QED BY <2>9, <3>1, <3>2
  <2> QED BY <2>2, <2>9, <2>11
<1> QED BY <1>6, <1>7, <1>8, <1>9, <1>10, <1>11, <1>12, StepKinds

\* At the first start no loss is reported.
LEMMA InventInit == Init => InventInv
<1> SUFFICES ASSUME Init PROVE InventInv
  OBVIOUS
<1>1. /\ clock = 0 /\ tracker = Fresh(0) /\ redis = EmptyStore
      /\ db.daily = 0 /\ db.weekly = 0 /\ real.dailyLoss = 0 /\ real.weeklyLoss = 0
  BY DEF Init, NoTrades, NoCloses
<1>2. DayOf(0) \in Nat /\ WeekOf(0) \in Nat
  BY CalendarType
<1>3. \A k \in {"daily", "weekly", "day", "week"} : redis[k].val = Fresh(0)[k]
  BY <1>1 DEF EmptyStore, ToSet, SaveOrder
<1>4. /\ redis["day"].val = DayOf(0) /\ redis["week"].val = WeekOf(0)
      /\ redis["daily"].val = 0 /\ redis["weekly"].val = 0
      /\ tracker.day = DayOf(0) /\ tracker.week = WeekOf(0)
      /\ tracker.daily = 0 /\ tracker.weekly = 0
  BY <1>1, <1>3 DEF Fresh
<1> QED BY <1>1, <1>2, <1>4
        DEF InventInv, DbFits, NowFits, HeldFits, StoreFits, TrackerFits

\* The drawdown guardrails never see a loss that was not made today, or this
\* week: whichever keys a save wrote before Redis failed, whether or not
\* PostgreSQL could be written or read, and wherever the process ended, no
\* restart mixes two days into a halt (state_tracker.py:224-410).
THEOREM NothingInvented == Spec => []DrawdownNotInvented
<1>1. Init => InventInv
  BY InventInit
<1>2. TypeOK /\ InventInv /\ [Next]_vars => InventInv'
  BY InventStep
<1> QED BY <1>1, <1>2, TypeCorrect, InventImplies, PTL DEF Spec

(***************************************************************************)
(* No recorded loss is forgotten.                                          *)
(***************************************************************************)

\* The tracker's day and week are never ahead of the clock's.
NotAhead == Up => tracker.day <= DayOf(clock) /\ tracker.week <= WeekOf(clock)

CoveredInv == NotAhead /\ DrawdownCovered

\* CoveredInv, with the getters expanded.
CoveredNow ==
    /\ tracker.day <= DayOf(clock) /\ tracker.week <= WeekOf(clock)
    /\ (IF tracker.day = DayOf(clock) THEN tracker.daily ELSE 0) <= real.daily - lost.daily
    /\ (IF tracker.week = WeekOf(clock) THEN tracker.weekly ELSE 0) <= real.weekly - lost.weekly
LEMMA CoveredIs == TypeOK => (CoveredInv <=> (Up => CoveredNow))
<1> SUFFICES ASSUME TypeOK PROVE CoveredInv <=> (Up => CoveredNow)
  OBVIOUS
<1>1. clock \in Nat /\ tracker \in TrackerOf(RowType)
  BY DEF TypeOK
<1> QED BY <1>1, GettersAre DEF CoveredInv, NotAhead, DrawdownCovered, CoveredNow

\* Every step keeps it.
LEMMA CoveredStep == TypeOK /\ CoveredInv /\ [Next]_vars => CoveredInv'
<1> SUFFICES ASSUME TypeOK, CoveredInv, [Next]_vars, Up'
             PROVE  CoveredNow'
  <2>1. TypeOK /\ [Next]_vars => (CoveredInv' <=> (Up' => CoveredNow'))
    BY NextType, CoveredIs, PTL
  <2> QED BY <2>1
<1>0. /\ clock \in Nat /\ tracker \in TrackerOf(RowType) /\ db \in DbType
      /\ redis \in StoreType /\ real \in RealType /\ lost \in LostType
  BY DEF TypeOK, DbType, RealType, LostType
<1>1. /\ clock' \in Nat /\ tracker' \in TrackerOf(RowType) /\ db' \in DbType
      /\ real' \in RealType /\ lost' \in LostType
  BY NextType DEF TypeOK, DbType, RealType, LostType
<1>n. /\ tracker.day \in Nat /\ tracker.week \in Nat /\ tracker.daily \in Int /\ tracker.weekly \in Int
      /\ real.daily \in Int /\ real.weekly \in Int /\ lost.daily \in Int /\ lost.weekly \in Int
      /\ DayOf(clock) \in Nat /\ WeekOf(clock) \in Nat
      /\ DayOf(clock') \in Nat /\ WeekOf(clock') \in Nat
  BY <1>0, <1>1, CalendarType DEF TrackerOf, RealType, LostType
<1>2. Up => CoveredNow
  BY CoveredIs
<1>4. CASE Idles
  BY <1>2, <1>4 DEF Idles, CoveredNow
<1>5. CASE Tick
  <2>1. clock + 1 \in {clock, clock + 1} /\ Advance(clock + 1) /\ tracker' = tracker /\ Up
    BY <1>5 DEF Tick, Up
  <2> QED BY <1>2, <1>n, <2>1, AdvanceIs DEF CoveredNow
<1>6. CASE Rewrites
  <2>1. Numbers(tracker', tracker)
    BY <1>6 DEF Rewrites, Record
  <2> QED BY <1>2, <1>6, <2>1 DEF Rewrites, Numbers, CoveredNow
<1>7. CASE Resets
  <2>1. PICK t \in TrackerOf(RowType), at \in {clock, clock'}, r \in BOOLEAN :
          Numbers(t, DateReset(tracker, at)) /\ Record(t, r)
    BY <1>7 DEF Resets
  <2>2. tracker' = t /\ at \in Nat
    BY <1>0, <1>1, <2>1 DEF Record
  <2>3. /\ tracker'.day = DayOf(at) /\ tracker'.week = WeekOf(at)
        /\ tracker'.daily = IF tracker.day = DayOf(at) THEN tracker.daily ELSE 0
        /\ tracker'.weekly = IF tracker.week = WeekOf(at) THEN tracker.weekly ELSE 0
    BY <1>0, <2>1, <2>2, ResetNumbers DEF Numbers
  <2>4. CASE UNCHANGED <<clock, db, real, lost>>
    BY <1>2, <1>7, <1>n, <2>3, <2>4 DEF Resets, CoveredNow
  <2>5. ASSUME NEW now \in {clock, clock + 1}, Advance(now) PROVE CoveredNow'
    <3>1. CoveredNow
      BY <1>2, <1>7 DEF Resets
    <3>2. /\ DayOf(clock) <= DayOf(clock') /\ WeekOf(clock) <= WeekOf(clock')
          /\ DayOf(clock) = DayOf(clock') => real'.daily = real.daily /\ lost'.daily = lost.daily
          /\ DayOf(clock) # DayOf(clock') => real'.daily = 0 /\ lost'.daily = 0
          /\ WeekOf(clock) = WeekOf(clock') => real'.weekly = real.weekly /\ lost'.weekly = lost.weekly
          /\ WeekOf(clock) # WeekOf(clock') => real'.weekly = 0 /\ lost'.weekly = 0
      BY <2>5, AdvanceIs
    <3>3. DayOf(at) \in {DayOf(clock), DayOf(clock')} /\ WeekOf(at) \in {WeekOf(clock), WeekOf(clock')}
      OBVIOUS
    <3>4. /\ tracker'.day <= DayOf(clock')
          /\ (IF tracker'.day = DayOf(clock') THEN tracker'.daily ELSE 0) <= real'.daily - lost'.daily
      BY <1>n, <2>3, <3>1, <3>2, <3>3 DEF CoveredNow
    <3>5. /\ tracker'.week <= WeekOf(clock')
          /\ (IF tracker'.week = WeekOf(clock') THEN tracker'.weekly ELSE 0)
                <= real'.weekly - lost'.weekly
      BY <1>n, <2>3, <3>1, <3>2, <3>3 DEF CoveredNow
    <3> QED BY <3>4, <3>5 DEF CoveredNow
  <2> QED BY <1>7, <2>4, <2>5 DEF Resets
<1>8. CASE Closes
  <2>1. PICK p \in Pairs, pnl \in PnlSteps : Close(p, pnl)
    BY <1>8 DEF Closes
  <2>2. pnl \in Int
    BY PnlAssumption
  <2>3. /\ clock' = clock /\ Up /\ lost' = lost
        /\ tracker' = Closed(tracker, managed[p].pair, managed[p].dir, managed[p].ts,
                             pnl, clock)
        /\ real'.daily = real.daily + pnl /\ real'.weekly = real.weekly + pnl
    BY <2>1 DEF Close, Record, Up
  <2>4. /\ tracker'.day = DayOf(clock) /\ tracker'.week = WeekOf(clock)
        /\ tracker'.daily = (IF tracker.day = DayOf(clock) THEN tracker.daily ELSE 0) + pnl
        /\ tracker'.weekly = (IF tracker.week = WeekOf(clock) THEN tracker.weekly ELSE 0) + pnl
    BY <1>0, <2>2, <2>3, ClosedNumbers, ResetNumbers
  <2> QED BY <1>2, <1>n, <2>2, <2>3, <2>4 DEF CoveredNow
<1>9. CASE Exit
  BY <1>9 DEF Exit, Up
<1>10. CASE Restart
  <2> DEFINE t0 == IF RedisAtInit THEN Loaded(redis, clock) ELSE Fresh(clock)
  <2>1. PICK seen \in {db, NoTrades} :
          /\ tracker' = Reconciled(t0, seen)
          /\ lost' = [daily |-> real.daily - seen.daily, weekly |-> real.weekly - seen.weekly]
    BY <1>10 DEF Restart
  <2>2. clock' = clock /\ real' = real
    BY <1>10 DEF Restart
  <2>3. t0 \in TrackerOf(RowType) /\ t0.day = DayOf(clock) /\ t0.week = WeekOf(clock)
    <3>1. t0 \in TrackerOf(RowType)
      BY <1>0, LoadedType, FreshType
    <3>2. /\ Fresh(clock).day = DayOf(clock) /\ Loaded(redis, clock).day = DayOf(clock)
          /\ Fresh(clock).week = WeekOf(clock) /\ Loaded(redis, clock).week = WeekOf(clock)
      BY DEF Fresh, Loaded
    <3> QED BY <3>1, <3>2
  <2>4. seen.daily \in Int /\ seen.weekly \in Int
    BY <1>0 DEF DbType, NoTrades
  <2> HIDE DEF t0
  <2>5. /\ tracker'.day = t0.day /\ tracker'.week = t0.week
        /\ tracker'.daily = IF seen.daily < t0.daily THEN seen.daily ELSE t0.daily
        /\ tracker'.weekly = IF seen.weekly < t0.weekly THEN seen.weekly ELSE t0.weekly
    BY <2>1, <2>3 DEF Reconciled, TrackerOf
  <2>6. t0.daily \in Int /\ t0.weekly \in Int
    BY <2>3 DEF TrackerOf
  <2> QED BY <1>n, <2>1, <2>2, <2>3, <2>4, <2>5, <2>6 DEF CoveredNow
<1> QED BY <1>4, <1>5, <1>6, <1>7, <1>8, <1>9, <1>10, StepKinds

\* Whatever fails and whenever the process ends, a start forgets no loss of the
\* day or of the week that PostgreSQL shows it, and every close after it counts
\* (main.py:242, state_tracker.py:95-137, :224-245 and :274-345); whether Redis
\* is there when the tracker is built makes no difference.
THEOREM RecordedLossesCount == Spec => []DrawdownCovered
<1>1. Init => CoveredInv
  <2> SUFFICES ASSUME Init PROVE CoveredInv
    OBVIOUS
  <2>1. /\ tracker = Fresh(0) /\ clock = 0 /\ real.daily = 0 /\ real.weekly = 0
        /\ lost.daily = 0 /\ lost.weekly = 0
    BY DEF Init, NoCloses
  <2>2. /\ tracker.daily = 0 /\ tracker.weekly = 0
        /\ tracker.day = DayOf(0) /\ tracker.week = WeekOf(0)
    BY <2>1 DEF Fresh
  <2>3. DayOf(0) \in Nat /\ WeekOf(0) \in Nat
    BY CalendarType
  <2> QED BY <2>1, <2>2, <2>3, InitType, CoveredIs DEF CoveredNow
<1>2. TypeOK /\ CoveredInv /\ [Next]_vars => CoveredInv'
  BY CoveredStep
<1>3. CoveredInv => DrawdownCovered
  BY DEF CoveredInv
<1> QED BY <1>1, <1>2, <1>3, TypeCorrect, PTL DEF Spec

(***************************************************************************)
(* The open positions.                                                     *)
(***************************************************************************)

\* Removing a position that has a row removes exactly one.
LEMMA RemovedLength ==
    ASSUME NEW t \in TrackerOf(RowType), NEW p, NEW d, NEW ts, HasRow(t, p, d, ts)
    PROVE  Len(Removed(t.open, p, d, ts)) = Len(t.open) - 1
<1> DEFINE s == t.open
           hits == {i \in 1..Len(s) : Matches(s[i], p, d, ts)}
<1>1. s \in Seq(RowType)
  BY DEF TrackerOf
<1>2. hits # {} /\ hits \subseteq Nat
  BY <1>1 DEF HasRow
<1>3. FirstMatch(s, p, d, ts) \in hits
  <2>1. \E i \in hits : \A j \in hits : i <= j
    BY <1>2, NatSetMin
  <2>2. FirstMatch(s, p, d, ts) = CHOOSE i \in hits : \A j \in hits : i <= j
    BY <1>2 DEF FirstMatch
  <2> HIDE DEF hits
  <2> QED BY <2>1, <2>2
<1>4. FirstMatch(s, p, d, ts) \in 1..Len(s) /\ FirstMatch(s, p, d, ts) # 0
  BY <1>1, <1>3
<1>5. Removed(s, p, d, ts) = RemoveAt(s, FirstMatch(s, p, d, ts))
  BY <1>4 DEF Removed
<1> HIDE DEF s
<1>6. Len(Removed(s, p, d, ts)) = Len(s) - 1
  BY <1>1, <1>4, <1>5, RemoveAtProperties
<1> QED BY <1>6 DEF s

Managed(m) == {p \in Pairs : m[p] # NoPosition}

\* How the number of managed positions changes with the position of p.
LEMMA ManagedNumber ==
    ASSUME IsFiniteSet(Pairs), NEW m, NEW n, NEW p \in Pairs,
           \A q \in Pairs : q # p => (n[q] # NoPosition <=> m[q] # NoPosition)
    PROVE  /\ Cardinality(Managed(m)) \in Nat
           /\ (m[p] # NoPosition <=> n[p] # NoPosition)
                 => Cardinality(Managed(n)) = Cardinality(Managed(m))
           /\ m[p] = NoPosition /\ n[p] # NoPosition
                 => Cardinality(Managed(n)) = Cardinality(Managed(m)) + 1
           /\ m[p] # NoPosition /\ n[p] = NoPosition
                 => Cardinality(Managed(n)) = Cardinality(Managed(m)) - 1
<1>1. IsFiniteSet(Managed(m)) /\ Cardinality(Managed(m)) \in Nat
  <2>1. Managed(m) \subseteq Pairs
    BY DEF Managed
  <2> QED BY <2>1, FS_Subset, FS_CardinalityType
<1>2. CASE m[p] # NoPosition <=> n[p] # NoPosition
  <2>1. Managed(n) = Managed(m)
    BY <1>2 DEF Managed
  <2> QED BY <1>1, <1>2, <2>1
<1>3. CASE m[p] = NoPosition /\ n[p] # NoPosition
  <2>1. Managed(n) = Managed(m) \cup {p} /\ p \notin Managed(m)
    BY <1>3 DEF Managed
  <2> QED BY <1>1, <1>3, <2>1, FS_AddElement
<1>4. CASE m[p] # NoPosition /\ n[p] = NoPosition
  <2>1. Managed(n) = Managed(m) \ {p} /\ p \in Managed(m)
    BY <1>4 DEF Managed
  <2> QED BY <1>1, <1>4, <2>1, FS_RemoveElement
<1> QED BY <1>2, <1>3, <1>4

\* The positions the startup loop has still to visit are not managed, and
\* there are as many rows as managed positions.
NotYetAdopted == status = "syncing" => \A p \in todo : ~IsManaged(p)
RowPerManaged == Len(tracker.open) = Cardinality(Managed(managed))
CountInv == RowsInv /\ NotYetAdopted /\ RowPerManaged

\* Registering a position adds one row and one position.
LEMMA RegisterCounts ==
    ASSUME IsFiniteSet(Pairs), TypeOK, RowPerManaged,
           NEW p \in Pairs, ~IsManaged(p), NEW d \in Dirs, NEW ts \in Nat,
           NEW us \in Nat, NEW at \in Nat, NEW ph \in {"pending", "active"},
           Record(Opened(tracker, [pair |-> p, dir |-> d, ts |-> ts,
                                   phase |-> ph], at), TRUE),
           managed' = [managed EXCEPT ![p] = [pair |-> p, dir |-> d, ts |-> us,
                                              phase |-> ph, stored |-> FALSE]]
    PROVE  RowPerManaged' /\ \A q \in Pairs : q # p => managed'[q] = managed[q]
<1> DEFINE row == [pair |-> p, dir |-> d, ts |-> ts, phase |-> ph]
           pos == [pair |-> p, dir |-> d, ts |-> us, phase |-> ph, stored |-> FALSE]
<1>1. tracker'.open = Append(tracker.open, row)
  BY RegisterType
<1>2. managed \in [Pairs -> Position \cup {NoPosition}] /\ tracker.open \in Seq(RowType)
  BY DEF TypeOK, TrackerOf
<1>3. row \in RowType
  BY DEF RowType
<1>4. pos # NoPosition
  <2>1. NoPosition.phase = "none" /\ pos.phase # "none"
    BY DEF NoPosition
  <2> QED BY <2>1
<1>5. managed' = [managed EXCEPT ![p] = pos]
  OBVIOUS
<1> HIDE DEF row, pos
<1>6. Len(tracker'.open) = Len(tracker.open) + 1
  BY <1>1, <1>2, <1>3
<1>7. managed[p] = NoPosition
  BY DEF IsManaged
<1>8. managed'[p] # NoPosition /\ \A q \in Pairs : q # p => managed'[q] = managed[q]
  BY <1>2, <1>4, <1>5
<1>9. Cardinality(Managed(managed')) = Cardinality(Managed(managed)) + 1
  <2>1. \A q \in Pairs : q # p => (managed'[q] # NoPosition <=> managed[q] # NoPosition)
    BY <1>8
  <2>2. managed[p] = NoPosition /\ managed'[p] # NoPosition
    BY <1>7, <1>8
  <2> QED BY <2>1, <2>2, ManagedNumber
<1> QED BY <1>6, <1>8, <1>9 DEF RowPerManaged

\* Removing a position removes one row and one position.
LEMMA RemoveCounts ==
    ASSUME IsFiniteSet(Pairs), TypeOK, TrackedHasRow, RowPerManaged,
           NEW p \in Pairs, IsManaged(p),
           tracker'.open = Removed(tracker.open, p, managed[p].dir, managed[p].ts),
           managed' = [managed EXCEPT ![p] = NoPosition]
    PROVE  RowPerManaged' /\ \A q \in Pairs : IsManaged(q)' => IsManaged(q)
<1>1. managed \in [Pairs -> Position \cup {NoPosition}] /\ tracker \in TrackerOf(RowType)
  BY DEF TypeOK
<1>2. Len(tracker'.open) = Len(tracker.open) - 1
  BY <1>1, RemovedLength DEF TrackedHasRow
<1>3. managed'[p] = NoPosition /\ \A q \in Pairs : q # p => managed'[q] = managed[q]
  BY <1>1
<1>4. Cardinality(Managed(managed')) = Cardinality(Managed(managed)) - 1
  <2>1. \A q \in Pairs : q # p => (managed'[q] # NoPosition <=> managed[q] # NoPosition)
    BY <1>3
  <2>2. managed[p] # NoPosition /\ managed'[p] = NoPosition
    BY <1>3 DEF IsManaged
  <2> QED BY <2>1, <2>2, ManagedNumber
<1> QED BY <1>2, <1>3, <1>4 DEF RowPerManaged, IsManaged

\* Dropping a pending position removes one row and one position.
LEMMA DropCounts ==
    ASSUME IsFiniteSet(Pairs), TypeOK, TrackedHasRow, RowPerManaged,
           NEW p \in Pairs, Drop(p)
    PROVE  RowPerManaged' /\ \A q \in Pairs : IsManaged(q)' => IsManaged(q)
<1>1. /\ tracker' = Cancelled(tracker, managed[p].pair, managed[p].dir, managed[p].ts)
      /\ managed' = [managed EXCEPT ![p] = NoPosition] /\ IsManaged(p)
  BY DropType DEF Drop
<1>2. managed[p].pair = p
  BY <1>1 DEF TypeOK
<1>3. tracker'.open = Removed(tracker.open, p, managed[p].dir, managed[p].ts)
  BY <1>1, <1>2, CancelledType DEF TypeOK
<1> QED BY <1>1, <1>3, RemoveCounts

\* A step of the system keeps one row per managed position.
LEMMA CountStep ==
    ASSUME ~RedisAtInit, "second" \notin Faults, IsFiniteSet(Pairs), CountInv, [Next]_vars
    PROVE  NotYetAdopted' /\ RowPerManaged'
<1> USE DEF CountInv, RowsInv
<1>0. /\ clock \in Nat /\ tracker \in TrackerOf(RowType) /\ todo \subseteq Pairs
      /\ managed \in [Pairs -> Position \cup {NoPosition}]
  BY DEF TypeOK
<1>r. LaterReads = {clock}
  BY DEF LaterReads
<1>u. ASSUME Len(tracker'.open) = Len(tracker.open), managed' = managed,
             status' # "syncing" \/ (status' = status /\ todo' \subseteq todo)
      PROVE  NotYetAdopted' /\ RowPerManaged'
  BY <1>u DEF RowPerManaged, NotYetAdopted, IsManaged
<1>1. CASE Tick
  BY <1>1, <1>u DEF Tick
<1>2. CASE ReadLimits
  <2>1. /\ tracker' = DateReset(tracker, clock) /\ managed' = managed
        /\ status' = status /\ todo' = todo
    BY <1>2 DEF ReadLimits, Record
  <2> QED BY <1>0, <1>u, <2>1, DateResetType
<1>3. CASE Connect \/ StopBegin \/ SyncEnd \/ UNCHANGED vars
  BY <1>3, <1>u DEF Connect, StopBegin, SyncEnd, vars
<1>e. ASSUME status' # "syncing" \/ todo' = Pairs, tracker'.open = <<>>,
             \A p \in Pairs : managed'[p] = NoPosition
      PROVE  NotYetAdopted' /\ RowPerManaged'
  <2>1. Managed(managed') = {}
    BY <1>e DEF Managed
  <2>2. Cardinality(Managed(managed')) = 0 /\ Len(tracker'.open) = 0
    BY <1>e, <2>1, FS_EmptySet
  <2> QED BY <1>e, <2>2 DEF NotYetAdopted, RowPerManaged, IsManaged
<1>4. CASE Exit
  BY <1>4, <1>e DEF Exit, Fresh
<1>5. CASE Restart
  <2>1. PICK seen \in {db} \cup {NoTrades} : tracker' = Reconciled(Fresh(clock), seen)
    BY <1>5 DEF Restart
  <2>2. tracker'.open = <<>>
    BY <2>1 DEF Reconciled, Fresh
  <2>3. /\ status = "down" /\ managed' = managed /\ todo' = Pairs
    BY <1>5 DEF Restart
  <2>4. \A p \in Pairs : managed'[p] = NoPosition
    BY <2>3 DEF NothingWhenDown, IsManaged
  <2> QED BY <1>e, <2>2, <2>3, <2>4
<1>6. ASSUME NEW p \in Pairs, NEW d \in Dirs, Place(p, d)
      PROVE  NotYetAdopted' /\ RowPerManaged'
  <2>1. /\ ~IsManaged(p) /\ status' # "syncing"
        /\ Record(Opened(tracker, [pair |-> p, dir |-> d, ts |-> clock,
                                   phase |-> "pending"], clock), TRUE)
        /\ managed' = [managed EXCEPT ![p] = [pair |-> p, dir |-> d, ts |-> clock,
                                              phase |-> "pending", stored |-> FALSE]]
    BY <1>6, <1>r DEF Place
  <2> QED BY <1>0, <2>1, RegisterCounts DEF NotYetAdopted
<1>7. ASSUME NEW p \in Pairs, ExchangeFill(p) \/ ExchangeExit(p)
      PROVE  NotYetAdopted' /\ RowPerManaged'
  BY <1>7, <1>u DEF ExchangeFill, ExchangeExit
<1>8. ASSUME NEW p \in Pairs, Activate(p)
      PROVE  NotYetAdopted' /\ RowPerManaged'
  <2> DEFINE m == managed[p]
             t == Filled(tracker, m.pair, m.dir, m.ts)
  <2>1. tracker' = t /\ status' # "syncing"
    BY <1>8 DEF Activate, Record
  <2>2. Len(t.open) = Len(tracker.open)
    BY <1>0, FilledType, RowsMayActivate
  <2>3. PICK ok \in BOOLEAN :
          managed' = [managed EXCEPT ![p].phase = "active", ![p].stored = ok]
    BY <1>8 DEF Activate
  <2>4. IsManaged(p) /\ m \in Position
    BY <1>0, <1>8 DEF Activate, IsManaged
  <2>5. managed'[p].phase = "active" /\ \A q \in Pairs : q # p => managed'[q] = managed[q]
    BY <1>0, <2>3, <2>4 DEF Position
  <2>6. managed'[p] # NoPosition
    BY <2>5 DEF NoPosition
  <2>7. Managed(managed') = Managed(managed)
    BY <2>4, <2>5, <2>6 DEF Managed, IsManaged
  <2> QED BY <2>1, <2>2, <2>7 DEF NotYetAdopted, RowPerManaged
<1>9. ASSUME NEW p \in Pairs, Cancel(p)
      PROVE  NotYetAdopted' /\ RowPerManaged'
  BY <1>9, DropCounts DEF Cancel, NotYetAdopted
<1>10. ASSUME NEW p \in Pairs, StopPair(p)
       PROVE  NotYetAdopted' /\ RowPerManaged'
  <2>1. status' # "syncing"
    BY <1>10 DEF StopPair
  <2>2. CASE Drop(p)
    BY <2>1, <2>2, DropCounts DEF NotYetAdopted
  <2>3. CASE UNCHANGED <<tracker, redis, exchange, managed>>
    BY <1>u, <2>1, <2>3
  <2> QED BY <1>10, <2>2, <2>3 DEF StopPair
<1>11. ASSUME NEW p \in Pairs, SyncPair(p)
       PROVE  NotYetAdopted' /\ RowPerManaged'
  <2>1. /\ status = "syncing" /\ status' = status /\ p \in todo /\ todo' = todo \ {p}
        /\ ~IsManaged(p)
    BY <1>11 DEF SyncPair, NotYetAdopted
  <2>2. CASE UNCHANGED <<clock, tracker, redis, db, managed, real, lost>>
    BY <1>u, <2>1, <2>2
  <2>3. ASSUME NEW d \in Dirs,
               managed' = [managed EXCEPT ![p] =
                              [pair |-> p, dir |-> d, ts |-> clock,
                               phase |-> "active", stored |-> FALSE]],
               Record(Opened(tracker, [pair |-> p, dir |-> d, ts |-> clock,
                                       phase |-> "active"], clock), TRUE)
        PROVE  NotYetAdopted' /\ RowPerManaged'
    <3>1. RowPerManaged' /\ \A q \in Pairs : q # p => managed'[q] = managed[q]
      BY <1>0, <2>1, <2>3, RegisterCounts
    <3>2. \A q \in todo' : q \in todo /\ q # p /\ q \in Pairs
      BY <1>0, <2>1
    <3> QED BY <2>1, <3>1, <3>2 DEF NotYetAdopted, IsManaged
  <2> QED BY <1>11, <1>r, <2>2, <2>3 DEF SyncPair
<1>12. ASSUME NEW p \in Pairs, NEW pnl \in PnlSteps, Close(p, pnl)
       PROVE  NotYetAdopted' /\ RowPerManaged'
  <2> DEFINE m == managed[p]
  <2>0. pnl \in Int /\ m.pair = p /\ IsManaged(p) /\ status' # "syncing"
    BY <1>12, PnlAssumption DEF Close, TypeOK, IsManaged
  <2>1. tracker' = Closed(tracker, p, m.dir, m.ts, pnl, clock)
    BY <1>12, <2>0 DEF Close, Record
  <2>2. tracker'.open = Removed(tracker.open, p, m.dir, m.ts)
    BY <1>0, <2>0, <2>1, ClosedType
  <2>3. managed' = [managed EXCEPT ![p] = NoPosition]
    BY <1>12 DEF Close
  <2> QED BY <2>0, <2>2, <2>3, RemoveCounts DEF NotYetAdopted
<1>13. CASE StopEnd \/ Crash
  BY <1>4, <1>13 DEF StopEnd, Crash
<1> QED
  BY <1>1, <1>2, <1>3, <1>5, <1>6, <1>7, <1>8, <1>9, <1>10, <1>11, <1>12, <1>13
  DEF Next

\* As the program is deployed, with the tracker built before Redis is connected,
\* and as long as the two clock readings of a handler agree, the open-positions
\* guardrail counts each position the monitor manages once and nothing else,
\* through every fill, close, cancellation, crash, restart and adoption
\* (state_tracker.py:52-156, service.py:510, monitor.py:1383-1389).
THEOREM RowsCount ==
    ASSUME ~RedisAtInit, "second" \notin Faults, IsFiniteSet(Pairs)
    PROVE  Spec => []OpenCountExact
<1>1. Init => CountInv
  <2> SUFFICES ASSUME Init PROVE NotYetAdopted /\ RowPerManaged
    BY RowsInit DEF CountInv
  <2>1. tracker.open = <<>> /\ \A p \in Pairs : managed[p] = NoPosition
    BY DEF Init, Fresh
  <2>2. Managed(managed) = {}
    BY <2>1 DEF Managed
  <2>3. Cardinality(Managed(managed)) = 0
    BY <2>2, FS_EmptySet
  <2> QED BY <2>1, <2>3 DEF Init, NotYetAdopted, RowPerManaged
<1>2. CountInv /\ [Next]_vars => CountInv'
  BY NextType, RowsStep, DownStep, CountStep DEF CountInv, RowsInv
<1>3. CountInv => OpenCountExact
  BY DEF CountInv, RowPerManaged, OpenCountExact, Managed, IsManaged
<1> QED BY <1>1, <1>2, <1>3, PTL DEF Spec
=============================================================================
