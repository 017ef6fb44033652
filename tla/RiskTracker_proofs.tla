------------------------ MODULE RiskTracker_proofs -------------------------
(***************************************************************************)
(* What the operations of RiskTracker do to the list of open positions,    *)
(* for lists of any length.                                                *)
(***************************************************************************)
EXTENDS RiskTracker, SequenceTheorems, WellFoundedInduction, TLAPS

\* A non-empty set of naturals has a least element.
LEMMA NatSetMin ==
    ASSUME NEW T, T \subseteq Nat, T # {}
    PROVE  \E i \in T : \A j \in T : i <= j
<1> DEFINE R == OpToRel(<, Nat)
<1>1. IsWellFoundedOn(R, Nat)
  BY NatLessThanWellFounded
<1>2. \A i, j \in Nat : j < i => <<j, i>> \in R
  BY DEF OpToRel
<1> HIDE DEF R
<1>3. PICK i \in T : \A j \in T : <<j, i>> \notin R
  BY <1>1, WFMin, Zenon
<1>4. \A j \in T : ~(j < i)
  BY <1>2, <1>3, Zenon
<1> QED BY <1>4

\* FirstMatch is 0 or the position of a matching row.
LEMMA FirstMatchRange ==
    ASSUME NEW S, NEW s \in Seq(S), NEW p, NEW d, NEW ts
    PROVE  \/ FirstMatch(s, p, d, ts) = 0
           \/ /\ FirstMatch(s, p, d, ts) \in 1..Len(s)
              /\ Matches(s[FirstMatch(s, p, d, ts)], p, d, ts)
<1> DEFINE hits == {i \in 1..Len(s) : Matches(s[i], p, d, ts)}
<1>1. CASE hits = {}
  BY <1>1 DEF FirstMatch
<1>2. CASE hits # {}
  <2>1. hits \subseteq Nat
    OBVIOUS
  <2>2. \E i \in hits : \A j \in hits : i <= j
    BY <2>1, <1>2, NatSetMin, Zenon
  <2>3. FirstMatch(s, p, d, ts) = CHOOSE i \in hits : \A j \in hits : i <= j
    BY <1>2 DEF FirstMatch
  <2>4. FirstMatch(s, p, d, ts) \in hits
    BY <2>2, <2>3, Zenon
  <2> QED BY <2>4
<1> QED BY <1>1, <1>2

\* RemoveAt on a sequence: its type, its length and the elements it keeps.
LEMMA RemoveAtProperties ==
    ASSUME NEW S, NEW s \in Seq(S), NEW i \in 1..Len(s)
    PROVE  /\ RemoveAt(s, i) \in Seq(S)
           /\ Len(RemoveAt(s, i)) = Len(s) - 1
           /\ \A j \in 1..Len(s) : j < i => RemoveAt(s, i)[j] = s[j]
           /\ \A j \in 1..Len(s) : j > i => RemoveAt(s, i)[j - 1] = s[j]
<1> DEFINE a == SubSeq(s, 1, i - 1)
           b == SubSeq(s, i + 1, Len(s))
<1>0. Len(s) \in Nat
  OBVIOUS
<1>1. a \in Seq(S) /\ Len(a) = i - 1 /\ \A j \in 1..(i - 1) : a[j] = s[j]
  BY <1>0
<1>2. /\ b \in Seq(S) /\ Len(b) = Len(s) - i
      /\ \A j \in 1..(Len(s) - i) : b[j] = s[i + j]
  BY <1>0
<1>3. RemoveAt(s, i) = a \o b
  BY DEF RemoveAt
<1> HIDE DEF a, b
<1>4. a \o b \in Seq(S) /\ Len(a \o b) = Len(s) - 1
  <2>1. a \o b \in Seq(S) /\ Len(a \o b) = Len(a) + Len(b)
    BY <1>1, <1>2, ConcatProperties
  <2> QED BY <1>0, <1>1, <1>2, <2>1
<1>5. \A j \in 1..Len(s) : j < i => (a \o b)[j] = s[j]
  BY <1>0, <1>1, <1>2
<1>6. \A j \in 1..Len(s) : j > i => (a \o b)[j - 1] = s[j]
  <2> SUFFICES ASSUME NEW j \in 1..Len(s), j > i
               PROVE  (a \o b)[j - 1] = s[j]
    OBVIOUS
  <2>1. (a \o b)[j - 1] = b[j - i]
    BY <1>0, <1>1, <1>2
  <2>2. b[j - i] = s[j]
    BY <1>0, <1>2
  <2> QED BY <2>1, <2>2
<1> QED BY <1>3, <1>4, <1>5, <1>6

\* Removing a row yields a list of the same type, no longer than before.
LEMMA RemovedType ==
    ASSUME NEW S, NEW s \in Seq(S), NEW p, NEW d, NEW ts
    PROVE  Removed(s, p, d, ts) \in Seq(S)
BY FirstMatchRange, RemoveAtProperties DEF Removed

\* A row that does not match survives the removal of one that does.
LEMMA RemovedKeeps ==
    ASSUME NEW S, NEW s \in Seq(S), NEW p, NEW d, NEW ts,
           NEW j \in 1..Len(s), ~Matches(s[j], p, d, ts)
    PROVE  \E k \in 1..Len(Removed(s, p, d, ts)) : Removed(s, p, d, ts)[k] = s[j]
<1> DEFINE i == FirstMatch(s, p, d, ts)
<1>1. CASE i = 0
  BY <1>1 DEF Removed
<1>2. CASE i # 0
  <2>1. i \in 1..Len(s) /\ Matches(s[i], p, d, ts)
    BY <1>2, FirstMatchRange
  <2>2. i # j
    BY <2>1
  <2>3. Removed(s, p, d, ts) = RemoveAt(s, i)
    BY <1>2 DEF Removed
  <2> HIDE DEF i
  <2>4. /\ Len(RemoveAt(s, i)) = Len(s) - 1
        /\ j < i => RemoveAt(s, i)[j] = s[j]
        /\ j > i => RemoveAt(s, i)[j - 1] = s[j]
    BY <2>1, RemoveAtProperties
  <2>5. CASE j < i
    <3>1. j \in 1..Len(RemoveAt(s, i))
      BY <2>1, <2>4, <2>5
    <3> QED BY <3>1, <2>3, <2>4, <2>5
  <2>6. CASE j > i
    <3>1. j - 1 \in 1..Len(RemoveAt(s, i))
      BY <2>1, <2>4, <2>6
    <3> QED BY <3>1, <2>3, <2>4, <2>6
  <2> QED BY <2>1, <2>2, <2>5, <2>6
<1> QED BY <1>1, <1>2

(***************************************************************************)
(* Types of the operations, for rows of any type.                          *)
(***************************************************************************)

\* A natural divided by a positive natural is a natural.
LEMMA DivNat ==
    ASSUME NEW t \in Nat, NEW k \in Nat \ {0}
    PROVE  t \div k \in Nat
OBVIOUS

\* Days and weeks are numbered by naturals.
LEMMA CalendarType ==
    ASSUME NEW t \in Nat
    PROVE  DayOf(t) \in Nat /\ WeekOf(t) \in Nat
<1>1. TicksPerDay * DaysPerWeek \in Nat \ {0}
  BY CalendarAssumption
<1> QED BY <1>1, DivNat, CalendarAssumption DEF DayOf, WeekOf

\* A tracker built from nothing (RiskStateTracker.__init__) is well typed.
LEMMA FreshType ==
    ASSUME NEW Rows, NEW now \in Nat
    PROVE  Fresh(now) \in TrackerOf(Rows)
BY CalendarType DEF Fresh, TrackerOf, NoLoss

\* The date reset keeps the tracker's type and its open rows.
LEMMA DateResetType ==
    ASSUME NEW Rows, NEW t \in TrackerOf(Rows), NEW now \in Nat
    PROVE  /\ DateReset(t, now) \in TrackerOf(Rows)
           /\ DateReset(t, now).open = t.open
<1> DEFINE d  == IF t.day = DayOf(now) THEN t.daily ELSE 0
           c  == IF t.day = DayOf(now) THEN t.trades ELSE 0
           w  == IF t.week = WeekOf(now) THEN t.weekly ELSE 0
           dn == DayOf(now)
           wn == WeekOf(now)
<1>1. dn \in Nat /\ wn \in Nat
  BY CalendarType
<1>2. d \in Int /\ c \in Nat /\ w \in Int
  BY DEF TrackerOf
<1>3. DateReset(t, now) = [t EXCEPT !.daily = d, !.trades = c, !.weekly = w,
                                    !.day = dn, !.week = wn]
  BY DEF DateReset
<1> HIDE DEF d, c, w, dn, wn
<1> QED BY <1>1, <1>2, <1>3 DEF TrackerOf

\* record_trade_opened keeps the type and appends its row.
LEMMA OpenedType ==
    ASSUME NEW Rows, NEW t \in TrackerOf(Rows), NEW row \in Rows, NEW now \in Nat
    PROVE  /\ Opened(t, row, now) \in TrackerOf(Rows)
           /\ Opened(t, row, now).open = Append(t.open, row)
<1> DEFINE r == DateReset(t, now)
<1>1. r \in TrackerOf(Rows) /\ r.open = t.open
  BY DateResetType
<1> HIDE DEF r
<1>2. Append(r.open, row) \in Seq(Rows)
  BY <1>1 DEF TrackerOf
<1>3. [r EXCEPT !.open = Append(r.open, row)] \in TrackerOf(Rows)
  BY <1>1, <1>2 DEF TrackerOf
<1>4. [r EXCEPT !.open = Append(r.open, row)].open = Append(t.open, row)
  BY <1>1 DEF TrackerOf
<1> QED BY <1>3, <1>4 DEF Opened, r

\* record_trade_closed keeps the type; Removed tells what it does
\* to the rows.
LEMMA ClosedType ==
    ASSUME NEW Rows, NEW t \in TrackerOf(Rows), NEW p, NEW d, NEW ts, NEW pnl \in Int,
           NEW now \in Nat
    PROVE  /\ Closed(t, p, d, ts, pnl, now) \in TrackerOf(Rows)
           /\ Closed(t, p, d, ts, pnl, now).open = Removed(t.open, p, d, ts)
<1> DEFINE r == DateReset(t, now)
<1>1. r \in TrackerOf(Rows) /\ r.open = t.open
  BY DateResetType
<1>2. Removed(t.open, p, d, ts) \in Seq(Rows)
  BY RemovedType DEF TrackerOf
<1> HIDE DEF r
<1>3. /\ r.daily + pnl \in Int /\ r.weekly + pnl \in Int /\ r.trades + 1 \in Nat
      /\ (IF pnl < 0 THEN now ELSE r.lastLoss) \in Nat \cup {NoLoss}
  BY <1>1 DEF TrackerOf
<1> DEFINE c == [r EXCEPT !.open     = Removed(r.open, p, d, ts),
                         !.trades   = r.trades + 1,
                         !.daily    = r.daily + pnl,
                         !.weekly   = r.weekly + pnl,
                         !.lastLoss = IF pnl < 0 THEN now ELSE r.lastLoss]
<1>4. c \in TrackerOf(Rows) /\ c.open = Removed(t.open, p, d, ts)
  BY <1>1, <1>2, <1>3 DEF TrackerOf
<1> QED BY <1>4 DEF Closed, r

\* record_trade_cancelled keeps the type; Removed tells what it does
\* to the rows.
LEMMA CancelledType ==
    ASSUME NEW Rows, NEW t \in TrackerOf(Rows), NEW p, NEW d, NEW ts
    PROVE  /\ Cancelled(t, p, d, ts) \in TrackerOf(Rows)
           /\ Cancelled(t, p, d, ts).open = Removed(t.open, p, d, ts)
<1>1. Removed(t.open, p, d, ts) \in Seq(Rows)
  BY RemovedType DEF TrackerOf
<1> QED BY <1>1 DEF Cancelled, TrackerOf

\* Rows stay rows, and match as before, when they become active.
MayActivate(Rows) ==
    \A r \in Rows : LET a == [r EXCEPT !.phase = "active"]
                    IN  a \in Rows /\ a.pair = r.pair /\ a.dir = r.dir /\ a.ts = r.ts

\* Filling changes a phase: every row keeps its place, pair, direction and
\* time.
LEMMA FilledType ==
    ASSUME NEW Rows, MayActivate(Rows), NEW t \in TrackerOf(Rows),
           NEW p, NEW d, NEW ts
    PROVE  /\ Filled(t, p, d, ts) \in TrackerOf(Rows)
           /\ Len(Filled(t, p, d, ts).open) = Len(t.open)
           /\ \A j \in 1..Len(t.open) : \A q, e, us :
                 Matches(t.open[j], q, e, us)
                    => Matches(Filled(t, p, d, ts).open[j], q, e, us)
<1> DEFINE hits == {i \in 1..Len(t.open) : /\ Matches(t.open[i], p, d, ts)
                                          /\ t.open[i].phase = "pending"}
           i == CHOOSE i \in hits : \A j \in hits : i <= j
           row == [t.open[i] EXCEPT !.phase = "active"]
<1>0. t.open \in Seq(Rows)
  BY DEF TrackerOf
<1>1. CASE hits = {}
  BY <1>1 DEF Filled
<1>2. CASE hits # {}
  <2>1. hits \subseteq Nat
    OBVIOUS
  <2>2. \E k \in hits : \A j \in hits : k <= j
    BY <2>1, <1>2, NatSetMin, Zenon
  <2>3. i \in hits
    BY <2>2, Zenon
  <2>4. Filled(t, p, d, ts) = [t EXCEPT !.open[i].phase = "active"]
    BY <1>2 DEF Filled
  <2> HIDE DEF i
  <2>5. i \in 1..Len(t.open) /\ t.open[i] \in Rows
    BY <2>3, <1>0
  <2>6. row \in Rows /\ \A q, e, us : Matches(t.open[i], q, e, us)
                                            => Matches(row, q, e, us)
    BY <2>5 DEF MayActivate, Matches
  <2>7. Filled(t, p, d, ts) = [t EXCEPT !.open = [t.open EXCEPT ![i] = row]]
    BY <2>4
  <2> HIDE DEF row
  <2>8. /\ [t.open EXCEPT ![i] = row] \in Seq(Rows)
        /\ Len([t.open EXCEPT ![i] = row]) = Len(t.open)
        /\ \A j \in 1..Len(t.open) : [t.open EXCEPT ![i] = row][j]
                                        = IF j = i THEN row ELSE t.open[j]
    BY <1>0, <2>5, <2>6, ExceptSeq
  <2>9. /\ Filled(t, p, d, ts) \in TrackerOf(Rows)
        /\ Filled(t, p, d, ts).open = [t.open EXCEPT ![i] = row]
    BY <2>7, <2>8 DEF TrackerOf
  <2> QED BY <2>6, <2>8, <2>9
<1> QED BY <1>1, <1>2
=============================================================================
