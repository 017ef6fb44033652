---------------------------- MODULE Books_proofs ----------------------------
(***************************************************************************)
(* Proofs about MCBooks: for every value of the constants, a pair is never *)
(* in both books, no alert is lost or told twice, the sizer and the        *)
(* backtests account for the money, and what may only go one way does.     *)
(* The parts share no state: a step of one leaves the others alone, and so *)
(* does each invariant below.                                              *)
(***************************************************************************)
EXTENDS MCBooks, SequenceTheorems, FiniteSetTheorems, WellFoundedInduction, TLAPS

-----------------------------------------------------------------------------
(* Induction over what a loop computes.                                    *)

\* A set of numbers has a least one.
LEMMA LeastExists ==
    ASSUME NEW S \in SUBSET Nat, S # {}
    PROVE  \E m \in S : \A n \in S : m <= n
<1> DEFINE R == {ss \in Nat \X Nat : ss[1] < ss[2]}
<1>1. IsWellFoundedOn(R, Nat)
  BY NatLessThanWellFounded DEF OpToRel
<1> HIDE DEF R
<1>2. \E m \in S : \A n \in S : <<n, m>> \notin R
  BY <1>1, WFMin
<1>3. \A m, n \in S : <<n, m>> \notin R => m <= n
  BY DEF R
<1> QED
  BY <1>2, <1>3

\* What holds before a loop and is kept by its turns holds after each.
LEMMA LoopInduction ==
    ASSUME NEW n \in Nat, NEW H, 0 \in H, \A k \in 1..n : k - 1 \in H => k \in H
    PROVE  0..n \subseteq H
<1> DEFINE Bad == {k \in 0..n : k \notin H}
<1> SUFFICES ASSUME Bad # {} PROVE FALSE
  OBVIOUS
<1>0. Bad \in SUBSET Nat
  OBVIOUS
<1>1. PICK m \in Bad : \A k \in Bad : m <= k
  BY <1>0, LeastExists
<1>2. m \in 1..n
  BY <1>1
<1>3. m - 1 \notin Bad /\ m - 1 \in 0..n
  BY <1>1, <1>2
<1> QED
  BY <1>1, <1>2, <1>3

\* A finite set of numbers that is not empty has a greatest one, by induction
\* over its size.
LEMMA GreatestExists ==
    ASSUME NEW S \in SUBSET Nat, IsFiniteSet(S), S # {}
    PROVE  \E m \in S : \A n \in S : n <= m
<1> DEFINE Topless(T) == T # {} /\ ~\E m \in T : \A k \in T : k <= m
           Sizes == {n \in Nat : \E T \in SUBSET S : Cardinality(T) = n /\ Topless(T)}
<1> SUFFICES ASSUME Sizes # {} PROVE FALSE
  BY FS_CardinalityType
<1>0. Sizes \in SUBSET Nat
  OBVIOUS
<1>1. PICK n \in Sizes : \A k \in Sizes : n <= k
  BY <1>0, LeastExists
<1>2. PICK T \in SUBSET S : Cardinality(T) = n /\ Topless(T)
  BY <1>1
<1>3. IsFiniteSet(T) /\ T \in SUBSET Nat /\ n \in Nat
  BY <1>1, FS_Subset
<1>4. PICK x \in T : TRUE
  BY <1>2
<1> DEFINE U == T \ {x}
<1>5. IsFiniteSet(U) /\ Cardinality(U) = n - 1
  BY <1>2, <1>3, FS_RemoveElement
<1>6. n - 1 \in Nat
  BY <1>5, FS_CardinalityType
<1>7. ~Topless(U)
  <2>1. n - 1 \notin Sizes
    BY <1>1, <1>3
  <2>2. U \in SUBSET S
    OBVIOUS
  <2> QED
    BY <1>5, <1>6, <2>1, <2>2
<1>8. CASE U = {}
  BY <1>2, <1>3, <1>8
<1>9. CASE U # {}
  <2>1. PICK m \in U : \A k \in U : k <= m
    BY <1>7, <1>9
  <2>2. CASE x <= m
    BY <1>2, <1>3, <2>1, <2>2
  <2>3. CASE ~(x <= m)
    BY <1>2, <1>3, <1>4, <2>1, <2>3
  <2> QED
    BY <2>2, <2>3
<1> QED
  BY <1>8, <1>9

-----------------------------------------------------------------------------
(* The two books.  BooksApart is not inductive: a campaign is entered by a *)
(* step that looks at the campaigns only, long after the positions were    *)
(* looked at.  What makes it safe is that the pair's one task is at that   *)
(* point, so that nobody else enters a position meanwhile, and that a      *)
(* restart adopts positions only while it has no campaigns.                *)

BooksTypeOK ==
    /\ task \in [BookPairs -> [pc : {"idle", "order", "claude", "campaign", "down"}]]
    /\ book \in [BookPairs -> {"none", "pending", "active", "manual"}]
    /\ camp \in [BookPairs -> {"none", "pending", "active"}]
    /\ sync \subseteq BookPairs

\* What a pair's task has found stays true while it waits.
TaskOwnsPair ==
    \A p \in BookPairs :
        /\ task[p].pc \in {"claude", "campaign"} => book[p] = "none" /\ camp[p] = "none"
        /\ task[p].pc = "order" => camp[p] = "none"

\* Adoption happens while every task is down and no campaign is known.
AdoptsAlone ==
    /\ \A p \in BookPairs : task[p].pc = "down" => camp[p] = "none"
    /\ sync # {} => \A p \in BookPairs : task[p].pc = "down"

BooksInv == BooksTypeOK /\ BooksApart /\ TaskOwnsPair /\ AdoptsAlone

Known == {"idle", "order", "claude", "campaign", "down"}

-----------------------------------------------------------------------------
\* The intraday path of a candle: it leaves the books apart and its task at
\* rest, or at the order with no campaign on the pair.
LEMMA IntradayKeeps ==
    ASSUME BooksInv, NEW p \in BookPairs, Intraday(p), UNCHANGED <<camp, sync>>,
           task[p].pc # "down"
    PROVE  BooksInv'
<1> USE DEF BooksInv, BooksTypeOK, BooksApart, TaskOwnsPair, AdoptsAlone
<1>1. /\ task' \in [BookPairs -> [pc : Known]]
      /\ \A q \in BookPairs : q # p => task'[q] = task[q]
      /\ task'[p].pc \in {"idle", "order"}
      /\ task'[p].pc = "order" => camp[p] = "none"
  BY DEF Intraday, To, NoTask, Known
<1>2. /\ book' \in [BookPairs -> {"none", "pending", "active", "manual"}]
      /\ \A q \in BookPairs : book'[q] \in {book[q], "none"}
  BY DEF Intraday
<1> QED
  BY <1>1, <1>2 DEF Known

\* Every step keeps the invariant.
LEMMA BooksStep == BooksInv /\ [BooksNext]_bookVars => BooksInv'
<1> SUFFICES ASSUME BooksInv, [BooksNext]_bookVars PROVE BooksInv'
  OBVIOUS
<1>1. ASSUME NEW p \in BookPairs, IntradayCandle(p) PROVE BooksInv'
  BY <1>1, IntradayKeeps DEF IntradayCandle, NoTask
<1>2. ASSUME NEW p \in BookPairs, SignalCandle(p) PROVE BooksInv'
  <2>1. CASE Intraday(p)
    BY <1>2, <2>1, IntradayKeeps DEF SignalCandle, NoTask
  <2>2. CASE HtfClear(p) /\ To(p, [pc |-> "claude"]) /\ UNCHANGED book
    BY <1>2, <2>2 DEF SignalCandle, To, NoTask, HtfClear, Up,
         BooksInv, BooksTypeOK, BooksApart, TaskOwnsPair, AdoptsAlone
  <2> QED
    BY <1>2, <2>1, <2>2 DEF SignalCandle
<1>3. ASSUME NEW p \in BookPairs, HtfAnswered(p) PROVE BooksInv'
  <2>1. CASE Intraday(p)
    BY <1>3, <2>1, IntradayKeeps DEF HtfAnswered, Still
  <2>2. CASE To(p, [pc |-> "campaign"]) /\ UNCHANGED book
    BY <1>3, <2>2 DEF HtfAnswered, Still, To,
         BooksInv, BooksTypeOK, BooksApart, TaskOwnsPair, AdoptsAlone
  <2> QED
    BY <1>3, <2>1, <2>2 DEF HtfAnswered
<1>4. ASSUME NEW p \in BookPairs, CampaignPlaced(p) PROVE BooksInv'
  <2>1. CASE Intraday(p) /\ UNCHANGED camp
    BY <1>4, <2>1, IntradayKeeps DEF CampaignPlaced, Still
  <2>2. CASE camp' = [camp EXCEPT ![p] = "pending"] /\ To(p, NoTask) /\ UNCHANGED book
    BY <1>4, <2>2 DEF CampaignPlaced, Still, To, NoTask,
         BooksInv, BooksTypeOK, BooksApart, TaskOwnsPair, AdoptsAlone
  <2> QED
    BY <1>4, <2>1, <2>2 DEF CampaignPlaced
<1>5. ASSUME NEW p \in BookPairs, EntryPlaced(p) PROVE BooksInv'
  <2>1. book' = [book EXCEPT ![p] = "pending"] \/ book' = book
    BY <1>5 DEF EntryPlaced
  <2> QED
    BY <1>5, <2>1 DEF EntryPlaced, Still, To, NoTask,
         BooksInv, BooksTypeOK, BooksApart, TaskOwnsPair, AdoptsAlone
<1>6. ASSUME NEW p \in BookPairs, Fill(p) \/ Trail(p) \/ End(p) PROVE BooksInv'
  BY <1>6 DEF Fill, Trail, End, Still, BooksInv, BooksTypeOK, BooksApart, TaskOwnsPair, AdoptsAlone
<1>7. ASSUME NEW p \in BookPairs, Noticed(p) \/ CloseNoticed(p) \/ Expired(p) PROVE BooksInv'
  <2>1. /\ UNCHANGED <<task, sync>>
        /\ \/ /\ \E b \in {"none", "active"} : book' = [book EXCEPT ![p] = b]
              /\ book[p] # "none" /\ UNCHANGED camp
           \/ /\ \E c \in {"none", "active"} : camp' = [camp EXCEPT ![p] = c]
              /\ camp[p] # "none" /\ UNCHANGED book
    BY <1>7 DEF Noticed, CloseNoticed, Expired, Still
  <2> QED
    BY <2>1 DEF BooksInv, BooksTypeOK, BooksApart, TaskOwnsPair, AdoptsAlone
<1>8. ASSUME NEW p \in BookPairs, Adopt(p) PROVE BooksInv'
  <2>1. book' = [book EXCEPT ![p] = "manual"] \/ book' = book
    BY <1>8 DEF Adopt
  <2>2. UNCHANGED <<task, camp>> /\ sync # {} /\ sync' \subseteq sync
    BY <1>8 DEF Adopt
  <2> QED
    BY <2>1, <2>2 DEF BooksInv, BooksTypeOK, BooksApart, TaskOwnsPair, AdoptsAlone
<1>9. CASE Crash
  BY <1>9 DEF Crash, BooksInv, BooksTypeOK, BooksApart, TaskOwnsPair, AdoptsAlone
<1>10. CASE Reconcile
  BY <1>10 DEF Reconcile, NoTask, BooksInv, BooksTypeOK, BooksApart, TaskOwnsPair, AdoptsAlone
<1>11. CASE UNCHANGED bookVars
  BY <1>11 DEF bookVars, BooksInv, BooksTypeOK, BooksApart, TaskOwnsPair, AdoptsAlone
<1> QED
  BY <1>1, <1>2, <1>3, <1>4, <1>5, <1>6, <1>7, <1>8, <1>9, <1>10, <1>11 DEF BooksNext


-----------------------------------------------------------------------------
\* A pair is never in both books, neither after a slow answer of Claude
\* (pipeline_router.py) nor after a restart that adopts what it finds
\* (execution_service/service.py).
THEOREM KeptApart == Spec => []BooksApart
<1>1. Init => BooksInv
  BY DEF Init, BooksInit, NoTask, BooksInv, BooksTypeOK, BooksApart, TaskOwnsPair, AdoptsAlone
<1>2. BooksInv /\ [Next]_vars => BooksInv'
  <2> SUFFICES ASSUME BooksInv, [Next]_vars PROVE BooksInv'
    OBVIOUS
  <2>1. [BooksNext]_bookVars
    BY DEF Next, vars, Idles
  <2> QED
    BY <2>1, BooksStep
<1>3. BooksInv => BooksApart
  BY DEF BooksInv
<1> QED
  BY <1>1, <1>2, <1>3, PTL DEF Spec

-----------------------------------------------------------------------------
(* The alerts.  That an auto-silence leaves nothing behind is not           *)
(* inductive: it is served long after its alerts were recorded.  What is    *)
(* kept is that the recorded alerts are as old as the silence is served     *)
(* (Served), so that all have left the window when it ends.                 *)

Silenceable == Categories \cup {Whale}

\* Recorded ages, oldest first.
Ages(s, top, n) ==
    /\ s \in Seq(0..top) /\ Len(s) <= n
    /\ \A i, j \in DOMAIN s : i < j => s[i] >= s[j]

Histories ==
    /\ recent \in [Silenceable -> Seq(Nat)] /\ rate \in [Limited -> Seq(Nat)]
    /\ \A c \in Silenceable : Ages(recent[c], SilenceWindow, SilenceAfter)
    /\ \A p \in Limited : Ages(rate[p], RateWindow[p], RateLimit[p])

Quietness ==
    /\ silenced \in [Silenceable -> 0..SilenceFor]
    /\ auto \in SUBSET Silenceable /\ hushed \in SUBSET Silenceable

\* While an auto-silence lasts, its alerts are as old as it.
Served ==
    \A c \in auto : /\ silenced[c] > 0
                    /\ \A i \in DOMAIN recent[c] : recent[c][i] + silenced[c] >= SilenceFor

Digest ==
    /\ buffer \in 0..MaxBuffer /\ tardy \in 0..buffer
    /\ flush \in {"none", "asleep", "sending"}

Sends == enabled \in BOOLEAN /\ critical \in 0..2 /\ emergency \in 0..Attempts

AlertInv == Histories /\ Quietness /\ Served /\ ServedSilenceIsClean /\ Digest /\ WhaleTimerRuns /\ Sends

\* The settings are positive.
LEMMA Settings ==
    /\ SilenceAfter \in Nat \ {0} /\ SilenceWindow \in Nat \ {0} /\ SilenceFor \in Nat \ {0}
    /\ SilenceWindow <= SilenceFor
    /\ \A p \in Limited : RateLimit[p] \in Nat \ {0} /\ RateWindow[p] \in Nat \ {0}
    /\ Attempts \in Nat \ {0} /\ MaxBuffer \in Nat
    /\ Lifecycle \notin Silenceable
BY RateAssumption, SilenceAssumption, AttemptsAssumption, CategoriesAssumption
   DEF Silenceable, Lifecycle, Whale

\* Ages are what the type invariant calls a bounded sequence of them.
LEMMA AgesBounded ==
    ASSUME NEW top \in Nat, NEW n \in Nat, NEW s, Ages(s, top, n)
    PROVE  s \in BoundedSeq(0..top, n)
<1>1. Len(s) \in 0..n /\ s \in [1..Len(s) -> 0..top]
  BY DEF Ages
<1> QED
  BY <1>1 DEF BoundedSeq, SeqOf

\* What a window keeps is a part of what it held, a tick older and young
\* enough.
LEMMA KeptIs ==
    ASSUME NEW window \in Nat \ {0}, NEW n \in Nat, NEW s, Ages(s, window, n)
    PROVE  /\ Ages(Kept(s, window), window, n)
           /\ \A i \in DOMAIN Kept(s, window) :
                 /\ Kept(s, window)[i] < window
                 /\ \E j \in DOMAIN s : Kept(s, window)[i] = s[j] + 1
<1> DEFINE l == Len(s)
           Young == {i \in DOMAIN s : s[i] + 1 < window}
           y == Cardinality(Young)
           kept == Kept(s, window)
<1>1. /\ s \in Seq(0..window) /\ l \in 0..n /\ DOMAIN s = 1..l
      /\ \A i \in 1..l : s[i] \in 0..window
      /\ \A i, j \in 1..l : i < j => s[i] >= s[j]
  BY DEF Ages
<1>2. y \in 0..l /\ \A i \in (l - y + 1)..l : i \in Young
  <2>1. CASE Young = {}
    <3>1. y = 0
      BY <2>1, FS_EmptySet
    <3>2. l - 0 + 1 > l /\ 0 \in 0..l
      BY <1>1
    <3>3. l \in Int
      BY <1>1
    <3> HIDE DEF l, y, Young
    <3>4. (l - y + 1)..l = {}
      BY <3>1, <3>2, <3>3
    <3> QED
      BY <3>1, <3>2, <3>4
  <2>2. CASE Young # {}
    <3>1. Young \in SUBSET Nat
      BY <1>1
    <3> HIDE DEF y
    <3>2. PICK m \in Young : \A i \in Young : m <= i
      BY <2>2, <3>1, LeastExists
    <3>4. m \in 1..l
      BY <1>1, <3>2
    <3>3. Young = m..l
      BY <1>1, <3>2, <3>4
    <3> HIDE DEF Young
    <3>5. Cardinality(m..l) = l - m + 1
      <4>1. m \in Int /\ l \in Int /\ m <= l
        BY <1>1, <3>4
      <4> HIDE DEF l
      <4> QED
        BY <4>1, FS_Interval
    <3>6. y = l - m + 1
      BY <3>3, <3>5 DEF y
    <3>7. l - y + 1 = m /\ y \in 0..l
      BY <1>1, <3>4, <3>6
    <3> QED
      BY <3>3, <3>7
  <2> QED
    BY <2>1, <2>2
<1>3. kept = [k \in 1..y |-> s[l - y + k] + 1]
  BY DEF Kept
<1> HIDE DEF l, y, kept, Young
<1>4. ASSUME NEW k \in 1..y
      PROVE  /\ l - y + k \in DOMAIN s /\ kept[k] = s[l - y + k] + 1
             /\ kept[k] < window /\ kept[k] \in 0..window
  <2>1. l - y + k \in (l - y + 1)..l
    BY <1>1, <1>2
  <2>2. l - y + k \in Young
    BY <1>2, <2>1
  <2>3. l - y + k \in DOMAIN s /\ s[l - y + k] + 1 < window
    BY <2>2 DEF Young
  <2> QED
    BY <1>1, <1>3, <2>3
<1>5. kept \in Seq(0..window) /\ Len(kept) = y /\ DOMAIN kept = 1..y
  <2>1. y \in Nat /\ DOMAIN kept = 1..y
    BY <1>1, <1>2, <1>3
  <2>2. kept \in [1..y -> 0..window]
    BY <1>3, <1>4
  <2> QED
    BY <2>1, <2>2
<1>6. ASSUME NEW i \in 1..y, NEW j \in 1..y, i < j PROVE kept[i] >= kept[j]
  <2>1. l - y + i \in 1..l /\ l - y + j \in 1..l /\ l - y + i < l - y + j
    BY <1>1, <1>2, <1>6
  <2>2. s[l - y + i] >= s[l - y + j]
    BY <1>1, <2>1
  <2>3. kept[i] = s[l - y + i] + 1 /\ kept[j] = s[l - y + j] + 1
    BY <1>4
  <2> QED
    BY <1>1, <2>1, <2>2, <2>3
<1>7. Ages(kept, window, n)
  BY <1>1, <1>2, <1>5, <1>6 DEF Ages, l
<1> QED
  BY <1>4, <1>5, <1>7 DEF kept, l

\* An alert is recorded at age 0, after all the others.
LEMMA RecordedAges ==
    ASSUME NEW top \in Nat, NEW n \in Nat, NEW s, Ages(s, top, n)
    PROVE  /\ Len(s) < n => Ages(Append(s, 0), top, n)
           /\ Len(Append(s, 0)) > n => Ages(Tail(Append(s, 0)), top, n)
<1> DEFINE a == Append(s, 0)
<1>1. /\ s \in Seq(0..top) /\ Len(s) \in 0..n /\ DOMAIN s = 1..Len(s)
      /\ \A i, j \in 1..Len(s) : i < j => s[i] >= s[j]
      /\ \A i \in 1..Len(s) : s[i] \in 0..top
  BY DEF Ages
<1>2. /\ a \in Seq(0..top) /\ Len(a) = Len(s) + 1 /\ DOMAIN a = 1..(Len(s) + 1)
      /\ \A i \in 1..(Len(s) + 1) : a[i] = IF i <= Len(s) THEN s[i] ELSE 0
  BY <1>1
<1> HIDE DEF a
<1>3. \A i, j \in 1..(Len(s) + 1) : i < j => a[i] >= a[j]
  BY <1>1, <1>2
<1>4. /\ Tail(a) \in Seq(0..top) /\ Len(Tail(a)) = Len(s) /\ DOMAIN Tail(a) = 1..Len(s)
      /\ \A i \in 1..Len(s) : Tail(a)[i] = a[i + 1]
  BY <1>1, <1>2
<1>5. \A i, j \in 1..Len(s) : i < j => Tail(a)[i] >= Tail(a)[j]
  <2> SUFFICES ASSUME NEW i \in 1..Len(s), NEW j \in 1..Len(s), i < j PROVE Tail(a)[i] >= Tail(a)[j]
    OBVIOUS
  <2>1. i + 1 \in 1..(Len(s) + 1) /\ j + 1 \in 1..(Len(s) + 1) /\ i + 1 < j + 1
    BY <1>1
  <2> QED
    BY <1>3, <1>4, <2>1
<1>6. Len(s) < n => Ages(a, top, n)
  BY <1>1, <1>2, <1>3 DEF Ages
<1>7. Ages(Tail(a), top, n)
  BY <1>1, <1>4, <1>5 DEF Ages
<1> QED
  BY <1>6, <1>7 DEF a

\* What routing an alert writes down: nothing, or the alert in its category's
\* history, maybe with a silence, and in its priority's.
Filed(p, c) ==
    \/ UNCHANGED <<silenced, recent, rate, auto>>
    \/ /\ IF c = Lifecycle
          THEN UNCHANGED <<silenced, recent, auto>>
          ELSE /\ silenced[c] = 0
               /\ recent' = [recent EXCEPT ![c] = Recorded(c)]
               /\ silenced' = [silenced EXCEPT ![c] = IF Silences(c) THEN SilenceFor ELSE 0]
               /\ auto' = IF Silences(c) THEN auto \cup {c} ELSE auto
       /\ \/ Allowed(p) /\ rate' = [rate EXCEPT ![p] = Append(@, 0)]
          \/ UNCHANGED rate

LEMMA RoutesFiles ==
    ASSUME NEW p, NEW c
    PROVE  /\ Routes(p, c, SentOnce) => Filed(p, c) /\ UNCHANGED <<buffer, flush, critical, tardy>>
           /\ Routes(p, c, critical' = 1 /\ UNCHANGED <<buffer, flush, tardy>>)
              => Filed(p, c) /\ critical' \in {1, critical} /\ UNCHANGED <<buffer, flush, tardy>>
           /\ Routes(p, c, Buffered)
              => Filed(p, c) /\ (Buffered \/ UNCHANGED <<buffer, flush, critical, tardy>>)
BY DEF Routes, Filed, SentOnce

LEMMA FiledKeeps ==
    ASSUME AlertInv, NEW p \in Limited, NEW c \in Routed, Filed(p, c), hushed' = hushed \ {c}
    PROVE  Histories' /\ Quietness' /\ Served' /\ ServedSilenceIsClean'
<1> USE Settings
<1>1. Quietness' /\ hushed' \subseteq hushed /\ c \notin hushed'
  <2>1. c # Lifecycle => c \in Silenceable
    BY DEF Routed, Silenceable
  <2> QED
    BY <2>1 DEF AlertInv, Quietness, Filed
<1>2. CASE UNCHANGED <<silenced, recent, rate, auto>>
  BY <1>1, <1>2 DEF AlertInv, Histories, Served, ServedSilenceIsClean
<1>3. CASE ~UNCHANGED <<silenced, recent, rate, auto>>
  <2>1. rate' \in [Limited -> Seq(Nat)] /\ \A q \in Limited : Ages(rate'[q], RateWindow[q], RateLimit[q])
    <3>1. CASE Allowed(p) /\ rate' = [rate EXCEPT ![p] = Append(@, 0)]
      <4>1. Ages(rate[p], RateWindow[p], RateLimit[p]) /\ Len(rate[p]) < RateLimit[p] /\ rate[p] \in Seq(Nat)
        BY <3>1 DEF AlertInv, Histories, Allowed
      <4>2. Ages(Append(rate[p], 0), RateWindow[p], RateLimit[p])
        BY <4>1, RecordedAges
      <4>3. Append(rate[p], 0) \in Seq(Nat)
        BY <4>1
      <4> QED
        BY <3>1, <4>2, <4>3 DEF AlertInv, Histories
    <3>2. CASE UNCHANGED rate
      BY <3>2 DEF AlertInv, Histories
    <3> QED
      BY <1>3, <3>1, <3>2 DEF Filed
  <2>2. CASE UNCHANGED <<silenced, recent, auto>>
    BY <1>1, <2>1, <2>2 DEF AlertInv, Histories, Served, ServedSilenceIsClean
  <2>3. CASE ~UNCHANGED <<silenced, recent, auto>>
    <3>1. /\ c \in Silenceable /\ silenced[c] = 0 /\ recent' = [recent EXCEPT ![c] = Recorded(c)]
          /\ silenced' = [silenced EXCEPT ![c] = IF Silences(c) THEN SilenceFor ELSE 0]
          /\ auto' = IF Silences(c) THEN auto \cup {c} ELSE auto
      BY <1>3, <2>3 DEF Filed, Routed, Silenceable
    <3>2. Ages(recent[c], SilenceWindow, SilenceAfter) /\ recent[c] \in Seq(Nat)
      BY <3>1 DEF AlertInv, Histories
    <3>3. Ages(Recorded(c), SilenceWindow, SilenceAfter) /\ Recorded(c) \in Seq(Nat)
      <4>1. Len(Append(recent[c], 0)) = Len(recent[c]) + 1 /\ Len(recent[c]) \in Nat
        BY <3>2
      <4>2. Ages(Recorded(c), SilenceWindow, SilenceAfter)
        BY <3>2, <4>1, RecordedAges DEF Recorded
      <4> QED
        BY <4>2 DEF Ages
    <3>4. Histories'
      BY <2>1, <3>1, <3>3 DEF AlertInv, Histories
    <3>5. c \notin auto
      BY <3>1 DEF AlertInv, Served
    <3>6. ASSUME NEW d \in auto'
          PROVE  silenced'[d] > 0 /\ \A i \in DOMAIN recent'[d] : recent'[d][i] + silenced'[d] >= SilenceFor
      <4>1. CASE d = c
        <5>1. silenced'[d] = SilenceFor /\ recent'[d] = Recorded(c)
          BY <3>1, <3>5, <3>6, <4>1 DEF AlertInv, Histories, Quietness
        <5>2. \A i \in DOMAIN Recorded(c) : Recorded(c)[i] \in Nat
          BY <3>3
        <5> QED
          BY <5>1, <5>2
      <4>2. CASE d # c
        <5>1. d \in auto /\ silenced'[d] = silenced[d] /\ recent'[d] = recent[d]
          BY <3>1, <3>6, <4>2 DEF AlertInv, Histories, Quietness
        <5> QED
          BY <5>1 DEF AlertInv, Served
      <4> QED
        BY <4>1, <4>2
    <3>7. ServedSilenceIsClean'
      BY <1>1, <3>1 DEF AlertInv, Histories, Quietness, ServedSilenceIsClean
    <3> QED
      BY <1>1, <3>4, <3>6, <3>7 DEF Served
  <2> QED
    BY <2>2, <2>3
<1> QED
  BY <1>2, <1>3

\* A tick: an auto-silence that ends has outlived its alerts.
LEMMA AlertTickKeeps ==
    ASSUME AlertInv, AlertTick, UNCHANGED enabled
    PROVE  AlertInv'
<1> USE Settings
<1>1. /\ silenced \in [Silenceable -> 0..SilenceFor] /\ recent \in [Silenceable -> Seq(Nat)]
      /\ \A c \in Silenceable : /\ silenced'[c] = IF silenced[c] = 0 THEN 0 ELSE silenced[c] - 1
                                /\ recent'[c] = Kept(recent[c], SilenceWindow)
      /\ DOMAIN silenced' = Silenceable /\ DOMAIN recent' = Silenceable
  BY DEF AlertInv, Histories, Quietness, AlertTick
<1>2. ASSUME NEW c \in Silenceable
      PROVE  /\ Ages(recent'[c], SilenceWindow, SilenceAfter)
             /\ \A i \in DOMAIN recent'[c] : /\ recent'[c][i] < SilenceWindow
                                             /\ \E j \in DOMAIN recent[c] : recent'[c][i] = recent[c][j] + 1
  BY <1>1, KeptIs DEF AlertInv, Histories
<1>3. ASSUME NEW p \in Limited PROVE Ages(rate'[p], RateWindow[p], RateLimit[p])
  <2>1. rate'[p] = Kept(rate[p], RateWindow[p])
    BY DEF AlertTick
  <2> QED
    BY <2>1, KeptIs DEF AlertInv, Histories
<1>4. Histories'
  <2>1. \A s, top, n : Ages(s, top, n) /\ top \in Nat => s \in Seq(Nat)
    <3> SUFFICES ASSUME NEW s, NEW top \in Nat, s \in Seq(0..top) PROVE s \in Seq(Nat)
      BY DEF Ages
    <3> QED
      OBVIOUS
  <2>2. \A c \in Silenceable : recent'[c] \in Seq(Nat)
    BY <1>2, <2>1
  <2>3. \A p \in Limited : rate'[p] \in Seq(Nat)
    BY <1>3, <2>1
  <2>4. recent' = [c \in Silenceable |-> recent'[c]] /\ rate' = [p \in Limited |-> rate'[p]]
    BY <1>1 DEF AlertTick
  <2> QED
    BY <1>2, <1>3, <2>2, <2>3, <2>4 DEF Histories
<1>5. Quietness'
  <2>1. \A c \in Silenceable : silenced'[c] \in 0..SilenceFor
    BY <1>1
  <2>2. silenced' = [c \in Silenceable |-> silenced'[c]]
    BY <1>1 DEF AlertTick
  <2>3. auto' \subseteq auto /\ hushed' \subseteq auto
    BY DEF AlertTick
  <2> QED
    BY <2>1, <2>2, <2>3 DEF AlertInv, Quietness
<1>6. ASSUME NEW c \in auto
      PROVE  /\ c \in Silenceable /\ silenced[c] \in 1..SilenceFor
             /\ \A i \in DOMAIN recent'[c] : recent'[c][i] + silenced[c] - 1 >= SilenceFor
                                             /\ recent'[c][i] \in Nat
  <2>1. c \in Silenceable /\ silenced[c] \in 1..SilenceFor
        /\ \A j \in DOMAIN recent[c] : recent[c][j] + silenced[c] >= SilenceFor /\ recent[c][j] \in Nat
    BY <1>1, <1>6 DEF AlertInv, Quietness, Served
  <2> QED
    BY <1>2, <2>1
<1>7. Served'
  <2> SUFFICES ASSUME NEW c \in auto'
               PROVE  silenced'[c] > 0 /\ \A i \in DOMAIN recent'[c] : recent'[c][i] + silenced'[c] >= SilenceFor
    BY DEF Served
  <2>1. c \in auto /\ silenced[c] > 1
    BY DEF AlertTick
  <2>2. silenced'[c] = silenced[c] - 1 /\ silenced[c] \in Nat
    BY <1>1, <1>6, <2>1
  <2> QED
    BY <1>6, <2>1, <2>2
<1>8. ServedSilenceIsClean'
  <2> SUFFICES ASSUME NEW c \in hushed' PROVE recent'[c] = <<>>
    BY DEF ServedSilenceIsClean
  <2>1. c \in auto /\ silenced[c] = 1
    BY DEF AlertTick
  <2>2. DOMAIN recent'[c] = {}
    BY <1>2, <1>6, <2>1
  <2>3. recent'[c] \in Seq(0..SilenceWindow)
    BY <1>2, <1>6, <2>1 DEF Ages
  <2>4. \A r \in Seq(0..SilenceWindow) : DOMAIN r = {} => r = <<>>
    <3> SUFFICES ASSUME NEW r \in Seq(0..SilenceWindow), DOMAIN r = {} PROVE r = <<>>
      OBVIOUS
    <3>1. Len(r) \in Nat /\ DOMAIN r = 1..Len(r)
      OBVIOUS
    <3>2. Len(r) = 0
      BY <3>1
    <3> QED
      BY <3>2, EmptySeq
  <2> QED
    BY <2>2, <2>3, <2>4
<1>9. Digest' /\ WhaleTimerRuns' /\ Sends'
  BY DEF AlertInv, AlertTick, Digest, WhaleTimerRuns, Sends
<1> QED
  BY <1>4, <1>5, <1>7, <1>8, <1>9 DEF AlertInv

LEMMA AlertStep == AlertInv /\ [AlertNext]_alertVars => AlertInv'
<1> SUFFICES ASSUME AlertInv, [AlertNext]_alertVars PROVE AlertInv'
  OBVIOUS
<1> USE Settings
<1>0. CASE UNCHANGED alertVars
  BY <1>0 DEF alertVars, AlertInv, Histories, Quietness, Served, ServedSilenceIsClean, Digest, WhaleTimerRuns, Sends
<1>. SUFFICES ASSUME AlertNext PROVE AlertInv'
  BY <1>0
<1>1. UNCHANGED enabled
  BY DEF AlertNext
<1>2. CASE AlertTick
  BY <1>1, <1>2, AlertTickKeeps
<1>3. ASSUME NEW p \in Limited, NEW c \in Routed, Routine(p, c) PROVE AlertInv'
  <2>1. Filed(p, c) /\ UNCHANGED <<buffer, flush, critical, tardy, emergency>> /\ hushed' = hushed \ {c}
    BY <1>3, RoutesFiles DEF Routine
  <2> QED
    BY <1>1, <2>1, FiledKeeps DEF AlertInv, Digest, WhaleTimerRuns, Sends
<1>4. ASSUME NEW c \in Routed, CriticalAlert(c) PROVE AlertInv'
  <2>1. "CRITICAL" \in Limited
    BY DEF Limited
  <2>2. Filed("CRITICAL", c) /\ critical' \in {1, critical} /\ UNCHANGED <<buffer, flush, tardy, emergency>>
        /\ hushed' = hushed \ {c}
    BY <1>4, RoutesFiles DEF CriticalAlert
  <2> QED
    BY <1>1, <2>1, <2>2, FiledKeeps DEF AlertInv, Digest, WhaleTimerRuns, Sends
<1>5. CASE WhaleAlert
  <2>1. "INFO" \in Limited /\ Whale \in Routed
    BY DEF Limited, Routed
  <2>2. /\ Filed("INFO", Whale) /\ (Buffered \/ UNCHANGED <<buffer, flush, critical, tardy>>)
        /\ hushed' = hushed \ {Whale} /\ UNCHANGED emergency
    BY <1>5, RoutesFiles DEF WhaleAlert
  <2>3. Digest' /\ WhaleTimerRuns' /\ UNCHANGED critical
    BY <2>2 DEF AlertInv, Digest, WhaleTimerRuns, Buffered
  <2> QED
    BY <1>1, <2>1, <2>2, <2>3, FiledKeeps DEF AlertInv, Sends
<1>6. ASSUME NEW delivered \in BOOLEAN, CriticalSend(delivered) \/ EmergencySend(delivered) PROVE AlertInv'
  <2>1. Sends' /\ UNCHANGED <<silenced, recent, rate, buffer, flush, auto, hushed, tardy>>
    BY <1>1, <1>6 DEF AlertInv, Sends, CriticalSend, EmergencySend
  <2> QED
    BY <2>1 DEF AlertInv, Histories, Quietness, Served, ServedSilenceIsClean, Digest, WhaleTimerRuns
<1>7. CASE EmergencyAlert
  <2>1. Sends' /\ UNCHANGED <<silenced, recent, rate, buffer, flush, auto, hushed, tardy>>
    BY <1>1, <1>7 DEF AlertInv, Sends, EmergencyAlert
  <2> QED
    BY <2>1 DEF AlertInv, Histories, Quietness, Served, ServedSilenceIsClean, Digest, WhaleTimerRuns
<1>8. CASE TakeBatch \/ DigestSent
  <2>1. Digest' /\ WhaleTimerRuns' /\ UNCHANGED <<silenced, recent, rate, critical, emergency, auto, hushed>>
    BY <1>8 DEF AlertInv, Digest, WhaleTimerRuns, TakeBatch, DigestSent
  <2> QED
    BY <1>1, <2>1 DEF AlertInv, Histories, Quietness, Served, ServedSilenceIsClean, Sends
<1>9. ASSUME NEW c \in Routed, Unsilence(c) \/ \E ticks \in 1..SilenceFor : Silence(c, ticks) PROVE AlertInv'
  <2>1. PICK ticks \in 0..SilenceFor : Silence(c, ticks)
    BY <1>9 DEF Unsilence
  <2>2. c \in Silenceable /\ silenced' = [silenced EXCEPT ![c] = ticks]
        /\ auto' = auto \ {c} /\ hushed' = hushed \ {c}
        /\ UNCHANGED <<recent, rate, buffer, flush, critical, emergency, tardy>>
    BY <2>1 DEF Silence, Silenceable
  <2>3. Quietness' /\ Served' /\ ServedSilenceIsClean'
    BY <2>2 DEF AlertInv, Quietness, Served, ServedSilenceIsClean
  <2> QED
    BY <1>1, <2>2, <2>3 DEF AlertInv, Histories, Digest, WhaleTimerRuns, Sends
<1> QED
  BY <1>2, <1>3, <1>4, <1>5, <1>6, <1>7, <1>8, <1>9 DEF AlertNext

LEMMA AlertStart == AlertInit => AlertInv
<1> SUFFICES ASSUME AlertInit PROVE AlertInv
  OBVIOUS
<1> USE Settings
<1>1. \A top, n \in Nat : Ages(<<>>, top, n)
  BY DEF Ages
<1>2. Histories
  <2>1. recent = [c \in Silenceable |-> <<>>] /\ rate = [p \in Limited |-> <<>>]
    BY DEF AlertInit, Silenceable
  <2> QED
    BY <1>1, <2>1 DEF Histories
<1> QED
  BY <1>2 DEF AlertInit, AlertInv, Quietness, Served, ServedSilenceIsClean, Digest, WhaleTimerRuns, Sends, Silenceable

\* The type invariant the run checks follows.
LEMMA AlertTyped == AlertInv => AlertTypeOK
<1> SUFFICES ASSUME AlertInv PROVE AlertTypeOK
  OBVIOUS
<1> USE Settings
<1>1. recent \in [Silenceable -> BoundedSeq(0..SilenceWindow, SilenceAfter)]
  <2>1. \A c \in Silenceable : recent[c] \in BoundedSeq(0..SilenceWindow, SilenceAfter)
    BY AgesBounded DEF AlertInv, Histories
  <2> QED
    BY <2>1 DEF AlertInv, Histories
<1>2. \A p \in Limited : rate[p] \in BoundedSeq(0..RateWindow[p], RateLimit[p])
  BY AgesBounded DEF AlertInv, Histories
<1> QED
  BY <1>1, <1>2 DEF AlertInv, AlertTypeOK, Quietness, Digest, Sends, Silenceable

-----------------------------------------------------------------------------
(* The watch daemon.  ChangesTold needs what the ghosts mean where the      *)
(* file knows nothing of a pair.                                            *)

PushTypeOK ==
    /\ saved \in [BriefPairs -> Biases \cup {NoBias}] /\ known \in [BriefPairs -> Biases \cup {NoBias}]

LEMMA PushStep == PushTypeOK /\ ChangesTold /\ [PushNext]_pushVars => (PushTypeOK /\ ChangesTold)'
<1> SUFFICES ASSUME PushTypeOK, ChangesTold, [PushNext]_pushVars PROVE (PushTypeOK /\ ChangesTold)'
  OBVIOUS
<1>1. ASSUME NEW bias \in [BriefPairs -> Biases \cup {NoBias}], NEW sent \in SUBSET BriefPairs,
             NEW written \in BOOLEAN, Poll(bias, sent, written)
      PROVE  (PushTypeOK /\ ChangesTold)'
  <2>1. PushTypeOK'
    BY <1>1 DEF Poll, PushTypeOK
  <2>2. ASSUME NEW p \in BriefPairs, saved'[p] # NoBias, known'[p] # NoBias, known'[p] # saved'[p]
        PROVE  p \in missed' \cup unwritten'
    BY <1>1, <2>2 DEF Poll, PushTypeOK, ChangesTold, Seeding
  <2> QED
    BY <2>1, <2>2 DEF ChangesTold
<1>2. CASE FileLost
  BY <1>2 DEF FileLost, PushTypeOK, ChangesTold
<1>3. CASE UNCHANGED pushVars
  BY <1>3 DEF pushVars, PushTypeOK, ChangesTold
<1> QED
  BY <1>1, <1>2, <1>3 DEF PushNext

-----------------------------------------------------------------------------
\* An auto-silence that has run its course leaves nothing behind, a whale
\* message waits with a timer running (alert_manager.py), and the chat is never
\* silently behind the bias file (topdown_push.py).
THEOREM AlertsAreHeard == Spec => []AlertsHeard
<1> DEFINE Inv == AlertInv /\ PushTypeOK /\ ChangesTold
<1>1. Init => Inv
  BY AlertStart DEF Init, PushInit, PushTypeOK, ChangesTold
<1>2. Inv /\ [Next]_vars => Inv'
  <2> SUFFICES ASSUME Inv, [Next]_vars PROVE Inv'
    OBVIOUS
  <2>1. [AlertNext]_alertVars /\ [PushNext]_pushVars
    BY DEF Next, vars, Idles
  <2> QED
    BY <2>1, AlertStep, PushStep
<1>3. Inv => AlertsHeard
  BY AlertTyped DEF AlertsHeard, AlertInv
<1> QED
  BY <1>1, <1>2, <1>3, PTL DEF Spec

-----------------------------------------------------------------------------
(* The flush detector.  Polls come one window apart, so the snapshot nearest *)
(* to the window's start is the last one, whatever polls failed; a flush is  *)
(* found at a poll, so it is at least as old as the last snapshot.           *)

Snapshots == [age : Nat, usd : Nat, contracts : Nat]

FlushInv ==
    /\ snaps \in Seq(Snapshots)
    /\ "oi" \notin polled => \A i \in DOMAIN snaps : snaps[i].age >= 1
    /\ \A e \in events : /\ e.age \in Nat /\ e.gap \in Nat /\ snaps # <<>>
                         /\ snaps[Len(snaps)].age <= e.age
    /\ FlushesDisjoint

LEMMA SnapshotsArray ==
    ASSUME FlushInv
    PROVE  /\ snaps \in Seq(Snapshots) /\ DOMAIN snaps = 1..Len(snaps) /\ Len(snaps) \in Nat
           /\ \A i \in DOMAIN snaps : snaps[i] \in Snapshots /\ snaps[i].age \in Nat
<1>1. snaps \in Seq(Snapshots)
  BY DEF FlushInv
<1>2. DOMAIN snaps = 1..Len(snaps) /\ Len(snaps) \in Nat /\ \A i \in DOMAIN snaps : snaps[i] \in Snapshots
  BY <1>1
<1>3. \A s \in Snapshots : s.age \in Nat
  BY DEF Snapshots
<1> QED
  BY <1>1, <1>2, <1>3

\* A flush starts at the last snapshot or later.
LEMMA WindowIsLast ==
    ASSUME FlushInv, "oi" \notin polled, NEW i \in WindowSnapshot
    PROVE  /\ i \in DOMAIN snaps /\ snaps[i].age \in Nat /\ snaps # <<>>
           /\ snaps[i].age <= snaps[Len(snaps)].age
<1>1. i \in DOMAIN snaps
      /\ \A j \in DOMAIN snaps : Abs(snaps[i].age - Window) <= Abs(snaps[j].age - Window)
  <2>1. \A j \in DOMAIN snaps : snaps[j].age \in Nat
    BY SnapshotsArray
  <2>2. \A j \in DOMAIN snaps : Abs(snaps[j].age - Window) \in Int
    BY <2>1, PollAssumption DEF Abs
  <2>3. i \in DOMAIN snaps /\ \A j \in DOMAIN snaps :
            Abs(snaps[i].age - Window) < Abs(snaps[j].age - Window) \/ Abs(snaps[i].age - Window) = Abs(snaps[j].age - Window)
    BY DEF WindowSnapshot
  <2> QED
    BY <2>2, <2>3
<1>2. snaps \in Seq(Snapshots) /\ \A j \in DOMAIN snaps : snaps[j].age \in Nat /\ snaps[j].age >= 1
  BY SnapshotsArray DEF FlushInv
<1>3. Len(snaps) \in DOMAIN snaps /\ snaps # <<>>
  BY <1>1, <1>2
<1>4. Abs(snaps[i].age - 1) <= Abs(snaps[Len(snaps)].age - 1)
  BY <1>1, <1>3, PollAssumption
<1> QED
  BY <1>1, <1>2, <1>3, <1>4 DEF Abs

LEMMA DetectedKeeps ==
    ASSUME FlushInv, "oi" \notin polled, polled' = polled \cup {"oi"},
           NEW contracts \in OpenInterests, NEW price \in Prices, Detected(contracts, price)
    PROVE  FlushInv'
<1> DEFINE snap == [age |-> 0, usd |-> contracts * price, contracts |-> contracts]
           new == Append(snaps, snap)
<1>1. contracts \in Nat /\ price \in Nat /\ contracts * price \in Nat
  BY MarketAssumption
<1>2. snap \in Snapshots
  BY <1>1 DEF Snapshots
<1>3. snaps \in Seq(Snapshots)
  BY DEF FlushInv
<1>4. snaps' = IF Len(new) > MaxSnapshots THEN Tail(new) ELSE new
  BY DEF Detected
<1>5. snap.age = 0
  OBVIOUS
<1> HIDE DEF snap
<1>6. /\ new \in Seq(Snapshots) /\ Len(new) = Len(snaps) + 1 /\ Len(snaps) \in Nat /\ new[Len(new)] = snap
      /\ Tail(new) \in Seq(Snapshots) /\ Len(Tail(new)) = Len(snaps)
  BY <1>2, <1>3
<1>7. Len(snaps) > 0 => Tail(new)[Len(snaps)] = new[Len(snaps) + 1]
  BY <1>6
<1> HIDE DEF new
<1>8. snaps' \in Seq(Snapshots) /\ Len(snaps') > 0 /\ snaps'[Len(snaps')].age = 0
  <2>1. MaxSnapshots \in Nat \ {0}
    BY PollAssumption
  <2>2. CASE Len(new) > MaxSnapshots
    BY <1>4, <1>5, <1>6, <1>7, <2>1, <2>2
  <2>3. CASE ~(Len(new) > MaxSnapshots)
    BY <1>4, <1>5, <1>6, <2>3
  <2> QED
    BY <2>2, <2>3
<1>9. snaps' # <<>>
  BY <1>8
<1>10. ASSUME NEW e \in events'
       PROVE  \/ e \in events
              \/ /\ e.age = 0 /\ e.gap \in Nat
                 /\ \A d \in events : e.gap <= d.age
  <2>1. CASE e \notin events
    <3>1. PICK i \in WindowSnapshot : e = [age |-> 0, gap |-> snaps[i].age, side |-> Side(price),
                                           before |-> snaps[i].contracts, after |-> contracts]
      BY <1>10, <2>1 DEF Detected
    <3>2. e.age = 0 /\ e.gap = snaps[i].age
      BY <3>1
    <3>3. snaps[i].age \in Nat /\ i \in DOMAIN snaps /\ snaps # <<>> /\ snaps[i].age <= snaps[Len(snaps)].age
      BY WindowIsLast
    <3>4. \A d \in events : snaps[Len(snaps)].age <= d.age /\ d.age \in Nat
      BY DEF FlushInv
    <3>5. snaps[Len(snaps)].age \in Nat
      <4>1. Len(snaps) \in DOMAIN snaps
        BY <1>3, <3>3
      <4> QED
        BY <4>1, SnapshotsArray
    <3> QED
      BY <3>2, <3>3, <3>4, <3>5
  <2> QED
    BY <2>1
<1>11. \A e \in events' : e.age \in Nat /\ e.gap \in Nat
  BY <1>10 DEF FlushInv
<1>12. FlushesDisjoint'
  <2> SUFFICES ASSUME NEW d \in events', NEW e \in events', d.age > e.age PROVE e.age + e.gap <= d.age
    BY DEF FlushesDisjoint
  <2>1. d \in events
    BY <1>10, <1>11
  <2>2. CASE e \in events
    BY <2>1, <2>2 DEF FlushInv, FlushesDisjoint
  <2>3. CASE e \notin events
    BY <1>10, <2>1, <2>3, <1>11
  <2> QED
    BY <2>2, <2>3
<1> QED
  BY <1>8, <1>9, <1>11, <1>12 DEF FlushInv

LEMMA FlushStep == FlushInv /\ [IndicatorsNext]_indVars => FlushInv'
<1> SUFFICES ASSUME FlushInv, [IndicatorsNext]_indVars PROVE FlushInv'
  OBVIOUS
<1>1. ASSUME NEW ok \in BOOLEAN, FundingPoll(ok) \/ NewsPoll(ok) PROVE FlushInv'
  BY <1>1 DEF FundingPoll, NewsPoll, FlushInv, FlushesDisjoint
<1>2. ASSUME NEW ok \in BOOLEAN, OiPoll(ok) PROVE FlushInv'
  <2>1. CASE ok
    BY <1>2, <2>1, DetectedKeeps DEF OiPoll
  <2>2. CASE ~ok
    BY <1>2, <2>2 DEF OiPoll, FlushInv, FlushesDisjoint
  <2> QED
    BY <2>1, <2>2
<1>3. CASE IndicatorTick
  <2> DEFINE top == Window * (MaxAgeFactor + 2)
  <2>1. top \in Nat /\ top >= 1
    BY PollAssumption
  <2>2. snaps' = [i \in DOMAIN snaps |-> [snaps[i] EXCEPT !.age = AtMost(@, top)]]
    BY <1>3 DEF IndicatorTick
  <2> HIDE DEF top
  <2>3. \A a \in Nat : AtMost(a, top) \in Nat /\ AtMost(a, top) >= 1 /\ AtMost(a, top) <= a + 1
    BY <2>1 DEF AtMost, None
  <2>4. snaps \in Seq(Snapshots) /\ DOMAIN snaps = 1..Len(snaps) /\ Len(snaps) \in Nat
    BY DEF FlushInv
  <2>5. \A i \in DOMAIN snaps : /\ snaps[i] \in Snapshots /\ snaps[i].age \in Nat
                                /\ snaps'[i] \in Snapshots /\ snaps'[i].age = AtMost(snaps[i].age, top)
    <3> SUFFICES ASSUME NEW i \in DOMAIN snaps
                 PROVE  /\ snaps[i] \in Snapshots /\ snaps[i].age \in Nat
                        /\ snaps'[i] \in Snapshots /\ snaps'[i].age = AtMost(snaps[i].age, top)
      OBVIOUS
    <3>1. snaps[i] \in Snapshots /\ snaps[i].age \in Nat
      BY SnapshotsArray
    <3>2. snaps'[i] = [snaps[i] EXCEPT !.age = AtMost(snaps[i].age, top)]
      BY <2>2
    <3>3. AtMost(snaps[i].age, top) \in Nat
      BY <2>3, <3>1
    <3> QED
      BY <3>1, <3>2, <3>3 DEF Snapshots
  <2>6. /\ DOMAIN snaps' = DOMAIN snaps /\ snaps' \in [1..Len(snaps) -> Snapshots]
    BY <2>2, <2>4, <2>5
  <2>7. snaps' \in Seq(Snapshots) /\ Len(snaps') = Len(snaps)
    BY <2>4, <2>6
  <2>8. \A i \in DOMAIN snaps' : snaps'[i].age >= 1
    BY <2>3, <2>5, <2>6
  <2>9. ASSUME NEW e \in events'
        PROVE  \E d \in events : e.age = d.age + 1 /\ e.gap = d.gap /\ d.age \in Nat /\ d.gap \in Nat
    <3>1. PICK d \in events : e = [d EXCEPT !.age = @ + 1]
      BY <1>3, <2>9 DEF IndicatorTick
    <3>2. d.age \in Nat /\ d.gap \in Nat
      BY DEF FlushInv
    <3> QED
      BY <3>1, <3>2
  <2>10. ASSUME NEW e \in events'
         PROVE  /\ e.age \in Nat /\ e.gap \in Nat /\ snaps' # <<>>
                /\ snaps'[Len(snaps')].age <= e.age
    <3>1. PICK d \in events : e.age = d.age + 1 /\ e.gap = d.gap /\ d.age \in Nat /\ d.gap \in Nat
      BY <2>9
    <3>2. snaps # <<>> /\ snaps[Len(snaps)].age <= d.age
      BY DEF FlushInv
    <3>3. Len(snaps) \in DOMAIN snaps /\ Len(snaps) > 0
      BY <2>4, <3>2
    <3>4. snaps'[Len(snaps)].age <= snaps[Len(snaps)].age + 1 /\ snaps[Len(snaps)].age \in Nat
          /\ snaps'[Len(snaps)].age \in Nat
      BY <2>3, <2>5, <3>3
    <3> QED
      BY <2>7, <3>1, <3>2, <3>3, <3>4
  <2>11. FlushesDisjoint'
    <3> SUFFICES ASSUME NEW d \in events', NEW e \in events', d.age > e.age PROVE e.age + e.gap <= d.age
      BY DEF FlushesDisjoint
    <3>1. PICK d0 \in events : d.age = d0.age + 1 /\ d0.age \in Nat
      BY <2>9
    <3>2. PICK e0 \in events : e.age = e0.age + 1 /\ e.gap = e0.gap /\ e0.age \in Nat /\ e0.gap \in Nat
      BY <2>9
    <3>3. e0.age + e0.gap <= d0.age
      BY <3>1, <3>2 DEF FlushInv, FlushesDisjoint
    <3> QED
      BY <3>1, <3>2, <3>3
  <2> QED
    BY <2>7, <2>8, <2>10, <2>11 DEF FlushInv
<1>4. CASE UNCHANGED indVars
  BY <1>4 DEF indVars, FlushInv, FlushesDisjoint
<1> QED
  BY <1>1, <1>2, <1>3, <1>4 DEF IndicatorsNext

-----------------------------------------------------------------------------
(* The scanner and the journal.  Every alert and every trade has a time of  *)
(* its own, so a link is the same whether it is made when the trade opens   *)
(* or by the backfill.                                                      *)

Dirs      == {s.dir : s \in EdgeSignals}
AlertRows == [pair : ScannerPairs, dir : Dirs, entry : {s.entry : s \in EdgeSignals}, at : Nat]
TradeRows == [pair : ScannerPairs, dir : Dirs, entry : EntryPrices, at : Nat, link : Nat]

\* The alert at i is the latest one that a trade of these fields may link to.
Links(i, pair, dir, entry, at) ==
    /\ i \in Matching(pair, dir, entry, at)
    /\ \A j \in Matching(pair, dir, entry, at) : j <= i

Booked == {trades[i] : i \in DOMAIN trades}

ScanInv ==
    /\ clock \in Nat /\ alerts \in Seq(AlertRows) /\ trades \in Seq(TradeRows)
    /\ \A i \in DOMAIN alerts : alerts[i].at < clock
    /\ \A i \in DOMAIN trades : trades[i].at < clock
    /\ \A i \in DOMAIN alerts, j \in DOMAIN trades : alerts[i].at # trades[j].at
    /\ \A h \in heard : /\ h.at \in Nat /\ h.at < clock
                        /\ h.kept => \E i \in DOMAIN alerts : /\ alerts[i].pair = h.pair /\ alerts[i].dir = h.dir
                                                              /\ alerts[i].at = h.at
    /\ AlertsApart
    /\ \A t \in TradeRows : (t \in Booked /\ t.link # 0) => Links(t.link, t.pair, t.dir, t.entry, t.at)

\* The rows are arrays.
LEMMA RowsArrays ==
    ASSUME ScanInv
    PROVE  /\ DOMAIN alerts = 1..Len(alerts) /\ Len(alerts) \in Nat
           /\ DOMAIN trades = 1..Len(trades) /\ Len(trades) \in Nat
           /\ \A i \in DOMAIN alerts : alerts[i] \in AlertRows /\ alerts[i].at \in Nat
           /\ \A i \in DOMAIN trades : trades[i] \in TradeRows /\ trades[i].at \in Nat /\ trades[i].link \in Nat
<1>1. alerts \in Seq(AlertRows) /\ trades \in Seq(TradeRows)
  BY DEF ScanInv
<1>2. /\ DOMAIN alerts = 1..Len(alerts) /\ Len(alerts) \in Nat
      /\ DOMAIN trades = 1..Len(trades) /\ Len(trades) \in Nat
      /\ \A i \in DOMAIN alerts : alerts[i] \in AlertRows
      /\ \A i \in DOMAIN trades : trades[i] \in TradeRows
  BY <1>1
<1>3. (\A a \in AlertRows : a.at \in Nat) /\ (\A t \in TradeRows : t.at \in Nat /\ t.link \in Nat)
  BY DEF AlertRows, TradeRows
<1> QED
  BY <1>2, <1>3

\* What find_matching_alert returns.
LEMMA MatchIs ==
    ASSUME ScanInv, NEW pair, NEW dir, NEW entry, NEW at
    PROVE  /\ Match(pair, dir, entry, at) \in Nat
           /\ Match(pair, dir, entry, at) # 0 => Links(Match(pair, dir, entry, at), pair, dir, entry, at)
<1> DEFINE found == Matching(pair, dir, entry, at)
<1>1. found \in SUBSET DOMAIN alerts
  BY DEF Matching
<1>2. found \in SUBSET Nat /\ IsFiniteSet(found)
  <2>1. IsFiniteSet(1..Len(alerts))
    BY RowsArrays, FS_Interval
  <2> QED
    BY <1>1, <2>1, RowsArrays, FS_Subset
<1>3. CASE found = {}
  BY <1>3 DEF Match
<1>4. CASE found # {}
  <2>1. \E i \in found : \A j \in found : j <= i
    BY <1>2, <1>4, GreatestExists
  <2>2. Match(pair, dir, entry, at) = CHOOSE i \in found : \A j \in found : j <= i
    BY <1>4 DEF Match
  <2> HIDE DEF found
  <2>3. Match(pair, dir, entry, at) \in found /\ \A j \in found : j <= Match(pair, dir, entry, at)
    BY <2>1, <2>2
  <2> QED
    BY <1>2, <2>3 DEF Links, found
<1> QED
  BY <1>3, <1>4

\* The alerts that are there stay what they match, and a new one, later than
\* the trade, does not.
LEMMA LinksLast ==
    ASSUME ScanInv, NEW pair, NEW dir, NEW entry, NEW at \in Nat, NEW i, Links(i, pair, dir, entry, at),
           at < clock, NEW filed, filed.at = clock, alerts' \in {alerts, Append(alerts, filed)}
    PROVE  Links(i, pair, dir, entry, at)'
<1>1. CASE alerts' = alerts
  BY <1>1 DEF Links, Matching
<1>2. CASE alerts' = Append(alerts, filed)
  <2>1. /\ DOMAIN alerts' = 1..(Len(alerts) + 1) /\ alerts'[Len(alerts) + 1] = filed
        /\ \A k \in DOMAIN alerts : alerts'[k] = alerts[k]
    BY <1>2, RowsArrays DEF ScanInv
  <2>2. DOMAIN alerts = 1..Len(alerts) /\ Len(alerts) \in Nat /\ clock \in Nat
    BY RowsArrays DEF ScanInv
  <2>3. ASSUME NEW k \in Matching(pair, dir, entry, at)' PROVE k \in Matching(pair, dir, entry, at)
    <3>1. k \in DOMAIN alerts' /\ alerts'[k].at <= at
      BY <2>3 DEF Matching
    <3>2. k # Len(alerts) + 1
      BY <2>1, <2>2, <3>1
    <3>3. k \in DOMAIN alerts
      BY <2>1, <2>2, <3>1, <3>2
    <3> QED
      BY <2>1, <2>3, <3>3 DEF Matching
  <2>4. i \in Matching(pair, dir, entry, at)'
    BY <2>1, <2>2 DEF Links, Matching
  <2> QED
    BY <2>3, <2>4 DEF Links
<1> QED
  BY <1>1, <1>2

\* The link that is kept is the one the property asks for.
LEMMA LinksAre ==
    ASSUME ScanInv
    PROVE  LinksStand
<1> SUFFICES ASSUME NEW i \in DOMAIN trades, trades[i].link # 0
             PROVE  LET t == trades[i]
                        Qualifies(a) == /\ a.pair = t.pair /\ a.dir = t.dir /\ a.at < t.at
                                        /\ t.at - a.at <= MatchHours
                                        /\ Off(t.entry, a.entry) * 1000 <= 6 * a.entry
                    IN  /\ Qualifies(alerts[t.link])
                        /\ \A j \in DOMAIN alerts : Qualifies(alerts[j]) => j <= t.link
  BY DEF LinksStand
<1> DEFINE t == trades[i]
<1>1. Links(t.link, t.pair, t.dir, t.entry, t.at) /\ t.at \in Nat
  <2>1. t \in TradeRows /\ t \in Booked /\ t.at \in Nat
    BY RowsArrays DEF Booked
  <2> QED
    BY <2>1 DEF ScanInv
<1>2. \A j \in DOMAIN alerts : /\ alerts[j].at \in Nat /\ alerts[j].at # t.at
                               /\ (t.at - alerts[j].at <= MatchHours <=> alerts[j].at >= t.at - MatchHours)
                               /\ (alerts[j].at < t.at <=> alerts[j].at <= t.at)
  <2>1. \A j \in DOMAIN alerts : alerts[j].at \in Nat /\ alerts[j].at # t.at
    BY RowsArrays DEF ScanInv
  <2>2. MatchHours \in Nat
    BY WindowsAssumption
  <2> QED
    BY <1>1, <2>1, <2>2
<1> QED
  BY <1>1, <1>2 DEF Links, Matching

\* An alert: its message is heard, its filed written, both or neither.
LEMMA ScanPairKeeps ==
    ASSUME ScanInv, NEW pair \in ScannerPairs, NEW s \in EdgeSignals, NEW sent \in BOOLEAN,
           NEW written \in BOOLEAN, ScanPair(pair, s, sent, written), clock' = clock + 1
    PROVE  ScanInv'
<1> DEFINE filed == [pair |-> pair, dir |-> s.dir, entry |-> s.entry, at |-> clock]
           voiced == [pair |-> pair, dir |-> s.dir, at |-> clock, kept |-> written]
<1>1. clock \in Nat /\ alerts \in Seq(AlertRows) /\ trades' = trades /\ trades \in Seq(TradeRows)
  BY DEF ScanInv, ScanPair
<1>2. filed \in AlertRows /\ filed.at = clock /\ filed.pair = pair /\ filed.dir = s.dir
  BY <1>1 DEF AlertRows, Dirs
<1>3. alerts' = IF written THEN Append(alerts, filed) ELSE alerts
  BY DEF ScanPair
<1>4. /\ heard' \subseteq heard \cup {voiced}
      /\ voiced.at = clock /\ voiced.kept = written /\ voiced.pair = pair /\ voiced.dir = s.dir
  BY DEF ScanPair
<1> HIDE DEF filed, voiced
<1>5. /\ alerts' \in Seq(AlertRows) /\ DOMAIN alerts' = 1..Len(alerts') /\ Len(alerts') \in Nat
      /\ \A i \in DOMAIN alerts : i \in DOMAIN alerts' /\ alerts'[i] = alerts[i]
      /\ written => Len(alerts) + 1 \in DOMAIN alerts' /\ alerts'[Len(alerts) + 1] = filed
      /\ \A i \in DOMAIN alerts' : i \in DOMAIN alerts \/ (written /\ alerts'[i] = filed)
  BY <1>1, <1>2, <1>3
<1>6. \A i \in DOMAIN alerts' : alerts'[i].at < clock' /\ (i \in DOMAIN alerts \/ alerts'[i].at = clock)
  <2> SUFFICES ASSUME NEW i \in DOMAIN alerts'
               PROVE  alerts'[i].at < clock' /\ (i \in DOMAIN alerts \/ alerts'[i].at = clock)
    OBVIOUS
  <2>1. CASE i \in DOMAIN alerts
    <3>1. alerts[i].at < clock /\ alerts[i].at \in Nat
      BY <2>1, RowsArrays DEF ScanInv
    <3> QED
      BY <1>1, <1>5, <2>1, <3>1
  <2>2. CASE i \notin DOMAIN alerts
    BY <1>1, <1>2, <1>5, <2>2
  <2> QED
    BY <2>1, <2>2
<1>7. \A i \in DOMAIN trades' : trades'[i].at < clock /\ trades'[i].at \in Nat
  BY <1>1, RowsArrays DEF ScanInv
<1>8. \A i \in DOMAIN alerts', j \in DOMAIN trades' : alerts'[i].at # trades'[j].at
  <2> SUFFICES ASSUME NEW i \in DOMAIN alerts', NEW j \in DOMAIN trades' PROVE alerts'[i].at # trades'[j].at
    OBVIOUS
  <2>1. CASE i \in DOMAIN alerts
    BY <1>1, <1>5, <2>1 DEF ScanInv
  <2>2. CASE alerts'[i].at = clock
    BY <1>1, <1>7, <2>2
  <2> QED
    BY <1>6, <2>1, <2>2
<1>9. ASSUME NEW h \in heard'
      PROVE  /\ h.at \in Nat /\ h.at < clock'
             /\ h.kept => \E i \in DOMAIN alerts' : /\ alerts'[i].pair = h.pair /\ alerts'[i].dir = h.dir
                                                    /\ alerts'[i].at = h.at
  <2>1. CASE h \in heard
    <3>1. /\ h.at \in Nat /\ h.at < clock
          /\ h.kept => \E i \in DOMAIN alerts : alerts[i].pair = h.pair /\ alerts[i].dir = h.dir /\ alerts[i].at = h.at
      BY <2>1 DEF ScanInv
    <3> QED
      BY <1>1, <1>5, <3>1
  <2>2. CASE h = voiced
    BY <1>1, <1>2, <1>4, <1>5, <2>2
  <2> QED
    BY <1>4, <1>9, <2>1, <2>2
<1>10. AlertsApart'
  <2> SUFFICES ASSUME NEW h \in heard', NEW k \in heard', h.pair = k.pair, h.dir = k.dir, h.at < k.at,
                      k.at - h.at <= DedupHours, h.kept
               PROVE  FALSE
    BY DEF AlertsApart
  <2>1. CASE k \in heard
    <3>1. k.at < clock /\ k.at \in Nat /\ h.at \in Nat
      BY <1>9, <2>1 DEF ScanInv
    <3>2. h \in heard
      BY <1>1, <1>4, <3>1
    <3> QED
      BY <2>1, <3>2 DEF ScanInv, AlertsApart
  <2>2. CASE k = voiced
    <3>1. h # voiced /\ h \in heard
      BY <1>1, <1>4, <2>2
    <3>2. PICK i \in DOMAIN alerts : alerts[i].pair = h.pair /\ alerts[i].dir = h.dir /\ alerts[i].at = h.at
      BY <3>1 DEF ScanInv
    <3>3. h.at \in Nat /\ DedupHours \in Nat
      BY <1>9, WindowsAssumption
    <3>4. alerts[i].at >= clock - DedupHours
      BY <1>1, <1>4, <2>2, <3>2, <3>3
    <3>5. RecentlyAlerted(pair, s.dir)
      BY <1>4, <2>2, <3>2, <3>4 DEF RecentlyAlerted
    <3> QED
      BY <3>5 DEF ScanPair
  <2> QED
    BY <1>4, <2>1, <2>2
<1>11. ASSUME NEW t \in TradeRows, t \in Booked', t.link # 0
       PROVE  Links(t.link, t.pair, t.dir, t.entry, t.at)'
  <2>1. t \in Booked
    BY <1>1, <1>11 DEF Booked
  <2>2. Links(t.link, t.pair, t.dir, t.entry, t.at)
    BY <1>11, <2>1 DEF ScanInv
  <2>3. t.at \in Nat /\ t.at < clock
    BY <2>1, RowsArrays DEF Booked, ScanInv
  <2>4. alerts' \in {alerts, Append(alerts, filed)}
    BY <1>3
  <2> QED
    BY <1>2, <2>2, <2>3, <2>4, LinksLast
<1>12. clock' \in Nat /\ \A i \in DOMAIN trades' : trades'[i].at < clock'
  BY <1>1, <1>7
<1> QED
  BY <1>1, <1>5, <1>6, <1>8, <1>9, <1>10, <1>11, <1>12 DEF ScanInv

\* A step that keeps the alerts and adds or links trades.
LEMMA TradesKeep ==
    ASSUME ScanInv, UNCHANGED <<alerts, heard>>, clock' = clock + 1, trades' \in Seq(TradeRows),
           \A t \in Booked' : \/ t \in Booked
                              \/ /\ t.at = clock \/ \E u \in Booked : u.at = t.at
                                 /\ t.link # 0 => Links(t.link, t.pair, t.dir, t.entry, t.at)
    PROVE  ScanInv'
<1>1. clock \in Nat /\ clock' \in Nat /\ alerts \in Seq(AlertRows)
  BY DEF ScanInv
<1>2. \A u \in Booked : /\ u.at \in Nat /\ u.at < clock
                        /\ \A i \in DOMAIN alerts : alerts[i].at # u.at
  BY RowsArrays DEF ScanInv, Booked
<1>3. \A i \in DOMAIN alerts : alerts[i].at < clock /\ alerts[i].at \in Nat
  BY RowsArrays DEF ScanInv
<1>4. \A t \in Booked' : t.at < clock' /\ \A i \in DOMAIN alerts : alerts[i].at # t.at
  <2> SUFFICES ASSUME NEW t \in Booked' PROVE t.at < clock' /\ \A i \in DOMAIN alerts : alerts[i].at # t.at
    OBVIOUS
  <2>1. CASE t.at = clock
    BY <1>1, <1>3, <2>1
  <2>2. CASE \E u \in Booked : u.at = t.at
    BY <1>1, <1>2, <2>2
  <2> QED
    BY <2>1, <2>2
<1>5. \A i \in DOMAIN trades' : trades'[i] \in Booked'
  BY DEF Booked
<1>6. \A t \in TradeRows : (t \in Booked' /\ t.link # 0) => Links(t.link, t.pair, t.dir, t.entry, t.at)'
  <2> SUFFICES ASSUME NEW t \in TradeRows, t \in Booked', t.link # 0
               PROVE  Links(t.link, t.pair, t.dir, t.entry, t.at)'
    OBVIOUS
  <2>1. Links(t.link, t.pair, t.dir, t.entry, t.at)
    BY DEF ScanInv
  <2> QED
    BY <2>1 DEF Links, Matching
<1>7. \A i \in DOMAIN alerts' : alerts'[i].at < clock'
  BY <1>1, <1>3
<1>8. \A h \in heard' : h.at \in Nat /\ h.at < clock'
  BY <1>1 DEF ScanInv
<1> QED
  BY <1>1, <1>4, <1>5, <1>6, <1>7, <1>8 DEF ScanInv, AlertsApart

\* A trade that opens, with the link the alerts give it or with none.
LEMMA TradeKeeps ==
    ASSUME ScanInv, NEW pair \in ScannerPairs, NEW s \in EdgeSignals, NEW f \in EntryPrices,
           NEW link, link \in {0, Match(pair, s.dir, f, clock)},
           trades' = Append(trades, [pair |-> pair, dir |-> s.dir, entry |-> f, at |-> clock, link |-> link]),
           UNCHANGED <<alerts, heard>>, clock' = clock + 1
    PROVE  ScanInv'
<1> DEFINE new == [pair |-> pair, dir |-> s.dir, entry |-> f, at |-> clock, link |-> link]
<1>1. link \in Nat /\ (link # 0 => Links(link, pair, s.dir, f, clock))
  BY MatchIs
<1>2. new \in TradeRows /\ clock \in Nat /\ trades \in Seq(TradeRows)
  BY <1>1 DEF TradeRows, Dirs, ScanInv
<1>3. new.at = clock /\ (new.link # 0 => Links(new.link, new.pair, new.dir, new.entry, new.at))
  BY <1>1
<1>4. trades' = Append(trades, new)
  OBVIOUS
<1> HIDE DEF new
<1>5. trades' \in Seq(TradeRows) /\ Booked' \subseteq Booked \cup {new}
  BY <1>2, <1>4 DEF Booked
<1> QED
  BY <1>3, <1>5, TradesKeep

\* The backfill links the trades without a link as their opening would have.
LEMMA BackfillKeeps ==
    ASSUME ScanInv, Backfill, clock' = clock + 1
    PROVE  ScanInv'
<1> DEFINE Linked(t) == IF t.link # 0 THEN t ELSE [t EXCEPT !.link = Match(t.pair, t.dir, t.entry, t.at)]
<1>1. trades' = [i \in DOMAIN trades |-> Linked(trades[i])]
  BY DEF Backfill
<1>2. ASSUME NEW t \in TradeRows
      PROVE  /\ Linked(t) \in TradeRows /\ Linked(t).at = t.at
             /\ t.link = 0 /\ Linked(t).link # 0
                => Links(Linked(t).link, Linked(t).pair, Linked(t).dir, Linked(t).entry, Linked(t).at)
             /\ t.link # 0 => Linked(t) = t
  <2>1. Match(t.pair, t.dir, t.entry, t.at) \in Nat
        /\ (Match(t.pair, t.dir, t.entry, t.at) # 0
            => Links(Match(t.pair, t.dir, t.entry, t.at), t.pair, t.dir, t.entry, t.at))
    BY MatchIs
  <2>2. CASE t.link # 0
    BY <2>2
  <2>3. CASE t.link = 0
    <3> DEFINE l == Match(t.pair, t.dir, t.entry, t.at)
               u == [t EXCEPT !.link = l]
    <3>1. Linked(t) = u
      BY <2>3
    <3>2. u \in TradeRows /\ u.link = l /\ u.pair = t.pair /\ u.dir = t.dir /\ u.entry = t.entry /\ u.at = t.at
      BY <2>1 DEF TradeRows
    <3> HIDE DEF l, u
    <3>3. l # 0 => Links(l, t.pair, t.dir, t.entry, t.at)
      BY <2>1 DEF l
    <3> QED
      BY <2>3, <3>1, <3>2, <3>3
  <2> QED
    BY <2>2, <2>3
<1> HIDE DEF Linked
<1>3. trades' \in Seq(TradeRows)
  <2>1. trades' \in [1..Len(trades) -> TradeRows]
    BY <1>1, <1>2, RowsArrays
  <2> QED
    BY <2>1, RowsArrays
<1>4. ASSUME NEW t \in Booked'
      PROVE  \/ t \in Booked
             \/ /\ \E u \in Booked : u.at = t.at
                /\ t.link # 0 => Links(t.link, t.pair, t.dir, t.entry, t.at)
  <2>1. PICK i \in DOMAIN trades : t = Linked(trades[i])
    BY <1>1, <1>4 DEF Booked
  <2>2. trades[i] \in TradeRows /\ trades[i] \in Booked /\ trades[i].link \in Nat
    BY <2>1, RowsArrays DEF Booked
  <2> QED
    BY <1>2, <2>1, <2>2
<1>5. UNCHANGED <<alerts, heard>>
  BY DEF Backfill
<1> QED
  BY <1>3, <1>4, <1>5, TradesKeep

LEMMA ScanStep == ScanInv /\ [ScannerNext]_scannerVars => ScanInv'
<1> SUFFICES ASSUME ScanInv, [ScannerNext]_scannerVars PROVE ScanInv'
  OBVIOUS
<1>0. CASE UNCHANGED scannerVars
  BY <1>0 DEF scannerVars, ScanInv, Booked, AlertsApart, Links, Matching
<1> SUFFICES ASSUME ScannerNext PROVE ScanInv'
  BY <1>0
<1>1. clock' = clock + 1 /\ clock \in Nat
  BY DEF ScannerNext, ScanInv
<1>2. CASE UNCHANGED <<alerts, heard, trades>>
  <2>1. Booked' = Booked /\ trades' \in Seq(TradeRows)
    BY <1>2 DEF Booked, ScanInv
  <2> QED
    BY <1>1, <1>2, <2>1, TradesKeep
<1>3. ASSUME NEW p \in ScannerPairs, NEW s \in EdgeSignals, NEW sent \in BOOLEAN, NEW written \in BOOLEAN,
             ScanPair(p, s, sent, written)
      PROVE  ScanInv'
  BY <1>1, <1>3, ScanPairKeeps
<1>4. ASSUME NEW p \in ScannerPairs, NEW s \in EdgeSignals, NEW f \in EntryPrices,
             TradeOpened(p, s.dir, f) \/ TradeUnlinked(p, s.dir, f)
      PROVE  ScanInv'
  <2>1. CASE TradeOpened(p, s.dir, f)
    BY <1>1, <1>2, <2>1, TradeKeeps DEF TradeOpened
  <2>2. CASE TradeUnlinked(p, s.dir, f)
    BY <1>1, <2>2, TradeKeeps DEF TradeUnlinked
  <2> QED
    BY <1>4, <2>1, <2>2
<1>5. CASE ScanNothing
  BY <1>2, <1>5 DEF ScanNothing
<1>6. CASE Backfill
  BY <1>1, <1>6, BackfillKeeps
<1> QED
  BY <1>3, <1>4, <1>5, <1>6 DEF ScannerNext

-----------------------------------------------------------------------------
(* The wallets.  A transaction is processed once because a page is read     *)
(* down to the last one seen, and an alert goes out once because a poll     *)
(* tells what lies behind the place where the list of movements ended when  *)
(* it began; pruning moves them to the front, never back.                   *)

\* The finite sets of numbers can be put in order, by induction over their size.
Ordered(T) == \E q \in [1..Cardinality(T) -> T] : \A i, j \in DOMAIN q : i < j => q[i] > q[j]
LEMMA SetsOrdered ==
    ASSUME NEW S \in SUBSET Nat, IsFiniteSet(S)
    PROVE  Ordered(S)
<1> DEFINE Unordered(n) == \E T \in SUBSET S : Cardinality(T) = n /\ ~Ordered(T)
           Sizes == {n \in Nat : Unordered(n)}
<1> SUFFICES ASSUME Sizes # {} PROVE FALSE
  BY FS_CardinalityType
<1>1. PICK n \in Sizes : \A k \in Sizes : n <= k
  BY LeastExists
<1>2. PICK T \in SUBSET S : Cardinality(T) = n /\ ~Ordered(T)
  BY <1>1
<1>3. IsFiniteSet(T) /\ T \in SUBSET Nat /\ n \in Nat
  BY <1>1, FS_Subset
<1>4. CASE T = {}
  <2>1. Cardinality(T) = 0
    BY <1>4, FS_EmptySet
  <2> DEFINE e == [i \in 1..0 |-> 0]
  <2>2. e \in [1..0 -> T] /\ \A i, j \in DOMAIN e : i < j => e[i] > e[j]
    OBVIOUS
  <2> HIDE DEF e
  <2>3. e \in [1..Cardinality(T) -> T]
    BY <2>1, <2>2
  <2> QED
    BY <1>2, <2>2, <2>3 DEF Ordered
<1>5. CASE T # {}
  <2>1. PICK m \in T : \A k \in T : m <= k
    BY <1>3, <1>5, LeastExists
  <2> DEFINE U == T \ {m}
  <2>2. IsFiniteSet(U) /\ Cardinality(U) = n - 1
    BY <1>2, <1>3, FS_RemoveElement
  <2>3. n - 1 \in Nat
    BY <2>2, FS_CardinalityType
  <2>4. Ordered(U)
    BY <1>1, <2>2, <2>3
  <2> HIDE DEF U
  <2>5. PICK q \in [1..(n - 1) -> U] : \A i, j \in 1..(n - 1) : i < j => q[i] > q[j]
    BY <2>2, <2>4 DEF Ordered
  <2> DEFINE r == [i \in 1..n |-> IF i < n THEN q[i] ELSE m]
  <2>6. \A i \in 1..n : i < n => i \in 1..(n - 1) /\ r[i] = q[i] /\ q[i] \in T /\ q[i] # m
    BY <1>3, <2>3, <2>5 DEF U
  <2>7. r \in [1..n -> T]
    BY <2>6
  <2>8. ASSUME NEW i \in 1..n, NEW j \in 1..n, i < j PROVE r[i] > r[j]
    <3>1. i < n /\ i \in 1..(n - 1) /\ r[i] = q[i] /\ q[i] \in T /\ q[i] # m
      BY <1>3, <2>6, <2>8
    <3>2. CASE j < n
      <4>1. j \in 1..(n - 1) /\ r[j] = q[j]
        BY <2>6, <3>2
      <4> QED
        BY <2>5, <2>8, <3>1, <4>1
    <3>3. CASE j = n
      <4>1. r[j] = m
        BY <1>3, <3>3
      <4>2. m <= q[i] /\ m \in Nat /\ q[i] \in Nat
        BY <1>3, <2>1, <3>1
      <4> QED
        BY <3>1, <4>1, <4>2
    <3> QED
      BY <1>3, <3>2, <3>3
  <2> HIDE DEF r
  <2> QED
    BY <1>2, <2>7, <2>8 DEF Ordered
<1> QED
  BY <1>4, <1>5

\* p takes entries of the first n of ms, in their order.
Follows(p, ms, n, h) ==
    /\ h \in [1..Len(p) -> 1..n]
    /\ \A k \in 1..Len(p) : p[k] = ms[h[k]] /\ h[k] >= k
    /\ \A j, k \in 1..Len(p) : j < k => h[j] < h[k]

Taken(p, ms, n) == \E h : Follows(p, ms, n, h)

\* One more entry.
LEMMA TakenMore ==
    ASSUME NEW S, NEW ms \in Seq(S), NEW p \in Seq(S), NEW n \in 1..Len(ms), Len(p) < n, Taken(p, ms, n - 1)
    PROVE  /\ Taken(p, ms, n) /\ Taken(Append(p, ms[n]), ms, n)
           /\ Append(p, ms[n]) \in Seq(S) /\ Len(Append(p, ms[n])) = Len(p) + 1
<1> DEFINE l == Len(p)
           a == Append(p, ms[n])
<1>1. PICK h : Follows(p, ms, n - 1, h)
  BY DEF Taken
<1>2. l \in Nat /\ n \in Nat /\ l < n
  OBVIOUS
<1>3. ms[n] \in S
  OBVIOUS
<1>4. /\ a \in Seq(S) /\ Len(a) = l + 1
      /\ \A k \in 1..(l + 1) : a[k] = IF k <= l THEN p[k] ELSE ms[n]
  BY <1>3
<1> HIDE DEF l, a
<1>5. /\ h \in [1..l -> 1..(n - 1)] /\ (\A k \in 1..l : p[k] = ms[h[k]] /\ h[k] >= k)
      /\ \A j, k \in 1..l : j < k => h[j] < h[k]
  BY <1>1 DEF Follows, l
<1>6. \A k \in 1..l : h[k] \in 1..n /\ h[k] < n /\ h[k] \in Nat
  BY <1>2, <1>5
<1>7. Follows(p, ms, n, h)
  <2>1. h \in [1..l -> 1..n]
    BY <1>5, <1>6
  <2> QED
    BY <1>5, <2>1 DEF Follows, l
<1> DEFINE g == [k \in 1..(l + 1) |-> IF k <= l THEN h[k] ELSE n]
<1>8. \A k \in 1..(l + 1) : (k <= l => g[k] = h[k] /\ k \in 1..l) /\ (k > l => g[k] = n /\ k = l + 1)
  BY <1>2
<1>9. g \in [1..(l + 1) -> 1..n]
  BY <1>2, <1>6
<1> HIDE DEF g
<1>10. ASSUME NEW k \in 1..(l + 1) PROVE a[k] = ms[g[k]] /\ g[k] >= k
  <2>1. CASE k <= l
    BY <1>4, <1>5, <1>8, <2>1
  <2>2. CASE k > l
    BY <1>2, <1>4, <1>8, <2>2
  <2> QED
    BY <1>2, <2>1, <2>2
<1>11. ASSUME NEW j \in 1..(l + 1), NEW k \in 1..(l + 1), j < k PROVE g[j] < g[k]
  <2>1. j <= l /\ j \in 1..l
    BY <1>2, <1>11
  <2>2. CASE k <= l
    BY <1>5, <1>8, <1>11, <2>1, <2>2
  <2>3. CASE k > l
    BY <1>6, <1>8, <2>1, <2>3
  <2> QED
    BY <1>2, <2>2, <2>3
<1>12. Follows(a, ms, n, g)
  BY <1>4, <1>9, <1>10, <1>11 DEF Follows
<1> QED
  BY <1>4, <1>7, <1>12 DEF Taken, a, l

\* The loop of Picked.
PickedTo(ms, keep, f, m) ==
    [k \in 0..m |-> IF k = 0 THEN <<>>
                    ELSE IF k \in keep THEN Append(f[k - 1], ms[k]) ELSE f[k - 1]]

LEMMA PickedLoop ==
    ASSUME NEW ms, Len(ms) \in Nat, NEW keep
    PROVE  \E r : r = PickedTo(ms, keep, r, Len(ms)) /\ Picked(ms, keep) = r[Len(ms)]
<1> DEFINE H == {m \in 0..Len(ms) : \E f : f = PickedTo(ms, keep, f, m)}
<1>1. 0 \in H
  <2> DEFINE f == [i \in 0..0 |-> <<>>]
  <2>1. f = PickedTo(ms, keep, f, 0)
    BY DEF PickedTo
  <2> HIDE DEF f
  <2> QED
    BY <2>1
<1>2. ASSUME NEW k \in 1..Len(ms), k - 1 \in H PROVE k \in H
  <2>1. PICK f : f = PickedTo(ms, keep, f, k - 1)
    BY <1>2
  <2> DEFINE Turn1(g, i) == IF i = 0 THEN <<>>
                            ELSE IF i \in keep THEN Append(g[i - 1], ms[i]) ELSE g[i - 1]
             g == [i \in 0..k |-> IF i < k THEN f[i] ELSE Turn1(f, k)]
  <2>2. \A i \in 0..(k - 1) : f[i] = Turn1(f, i)
    BY <2>1 DEF PickedTo
  <2>3. \A i \in 0..k : g[i] = Turn1(g, i)
    <3> SUFFICES ASSUME NEW i \in 0..k PROVE g[i] = Turn1(g, i)
      OBVIOUS
    <3>1. i # 0 => i - 1 \in 0..k /\ i - 1 < k
      OBVIOUS
    <3>2. i # 0 => g[i - 1] = f[i - 1]
      BY <3>1
    <3>3. Turn1(g, i) = Turn1(f, i)
      BY <3>2
    <3>4. g[i] = Turn1(f, i)
      BY <2>2
    <3> QED
      BY <3>3, <3>4
  <2>4. g = PickedTo(ms, keep, g, k)
    BY <2>3 DEF PickedTo
  <2> HIDE DEF g
  <2> QED
    BY <2>4
<1> HIDE DEF H
<1>3. 0..Len(ms) \subseteq H
  BY <1>1, <1>2, LoopInduction
<1>4. \E f : f = PickedTo(ms, keep, f, Len(ms))
  BY <1>3 DEF H
<1> DEFINE r == CHOOSE f : f = PickedTo(ms, keep, f, Len(ms))
<1>5. r = PickedTo(ms, keep, r, Len(ms))
  BY <1>4
<1>6. Picked(ms, keep) = r[Len(ms)]
  BY DEF Picked, PickedTo
<1> HIDE DEF r
<1> QED
  BY <1>5, <1>6

\* What is picked is a part of what there was, none of it further back.
LEMMA PickedIs ==
    ASSUME NEW S, NEW ms \in Seq(S), NEW keep
    PROVE  Picked(ms, keep) \in Seq(S) /\ Taken(Picked(ms, keep), ms, Len(ms))
<1> DEFINE n == Len(ms)
<1>1. n \in Nat
  OBVIOUS
<1>2. PICK r : r = PickedTo(ms, keep, r, n) /\ Picked(ms, keep) = r[n]
  BY <1>1, PickedLoop
<1> HIDE DEF n
<1>3. /\ r[0] = <<>>
      /\ \A k \in 1..n : r[k] = IF k \in keep THEN Append(r[k - 1], ms[k]) ELSE r[k - 1]
  <2>1. \A k \in 0..n : r[k] = IF k = 0 THEN <<>>
                                ELSE IF k \in keep THEN Append(r[k - 1], ms[k]) ELSE r[k - 1]
    BY <1>2 DEF PickedTo
  <2> QED
    BY <1>1, <2>1
<1> DEFINE H == {k \in 0..n : r[k] \in Seq(S) /\ Len(r[k]) <= k /\ Taken(r[k], ms, k)}
<1>4. 0 \in H
  <2> DEFINE h == [i \in 1..0 |-> 0]
  <2>1. Follows(<<>>, ms, 0, h)
    BY DEF Follows
  <2>2. <<>> \in Seq(S) /\ Len(<<>>) <= 0
    OBVIOUS
  <2> HIDE DEF h
  <2>3. Taken(<<>>, ms, 0)
    BY <2>1 DEF Taken
  <2>4. r[0] \in Seq(S) /\ Len(r[0]) <= 0 /\ Taken(r[0], ms, 0)
    BY <1>3, <2>2, <2>3, Zenon
  <2>5. 0 \in 0..n
    BY <1>1
  <2> QED
    BY <2>4, <2>5, Zenon
<1>5. ASSUME NEW k \in 1..n, k - 1 \in H PROVE k \in H
  <2>1. r[k - 1] \in Seq(S) /\ Len(r[k - 1]) <= k - 1 /\ Taken(r[k - 1], ms, k - 1)
    BY <1>5
  <2>2. Len(r[k - 1]) < k /\ Len(r[k - 1]) \in Nat /\ k \in 1..Len(ms)
    BY <1>1, <2>1 DEF n
  <2>3. /\ Taken(r[k - 1], ms, k) /\ Taken(Append(r[k - 1], ms[k]), ms, k)
        /\ Append(r[k - 1], ms[k]) \in Seq(S) /\ Len(Append(r[k - 1], ms[k])) = Len(r[k - 1]) + 1
    BY <2>1, <2>2, TakenMore
  <2>4. r[k] \in {r[k - 1], Append(r[k - 1], ms[k])}
    BY <1>3
  <2>5. r[k] \in Seq(S) /\ Len(r[k]) <= k /\ Taken(r[k], ms, k)
    <3>1. CASE r[k] = r[k - 1]
      BY <2>1, <2>2, <2>3, <3>1
    <3>2. CASE r[k] = Append(r[k - 1], ms[k])
      BY <2>2, <2>3, <3>2
    <3> QED
      BY <2>4, <3>1, <3>2
  <2> QED
    BY <2>5
<1> HIDE DEF H
<1>6. n \in H
  <2>1. n \in Nat
    BY <1>1
  <2> HIDE DEF n
  <2>2. 0..n \subseteq H
    BY <1>4, <1>5, <2>1, LoopInduction
  <2> QED
    BY <2>1, <2>2
<1> QED
  BY <1>2, <1>6 DEF H, n

-----------------------------------------------------------------------------
\* A finite set becomes a sequence of its elements.
LEMMA SetToSeqIs ==
    ASSUME NEW S, IsFiniteSet(S)
    PROVE  /\ SetToSeq(S) \in Seq(S) /\ Len(SetToSeq(S)) = Cardinality(S)
           /\ Cardinality(S) \in Nat
<1>1. Cardinality(S) \in Nat /\ \E f \in [1..Cardinality(S) -> S] : IsInjective(f)
  BY FS_CardinalityType DEF ExistsBijection, Bijection, Injection
<1>2. SetToSeq(S) \in [1..Cardinality(S) -> S]
  BY <1>1 DEF SetToSeq
<1>3. SetToSeq(S) \in Seq(S)
  BY <1>1, <1>2, SeqDef
<1> QED
  BY <1>1, <1>2, <1>3

\* The newest first: all of them.
LEMMA NewestIs ==
    ASSUME NEW S \in SUBSET Nat, IsFiniteSet(S)
    PROVE  /\ Newest(S) \in Seq(S)
           /\ \A j, k \in 1..Len(Newest(S)) : j < k => Newest(S)[j] > Newest(S)[k]
           /\ \A i \in S : \E k \in 1..Len(Newest(S)) : Newest(S)[k] = i
<1> DEFINE n == Cardinality(S)
           q == Newest(S)
<1>1. n \in Nat
  BY FS_CardinalityType
<1>2. q \in [1..n -> S] /\ \A j, k \in DOMAIN q : j < k => q[j] > q[k]
  BY SetsOrdered DEF Ordered, Newest
<1> HIDE DEF q
<1>3. q \in Injection(1..n, S)
  <2>1. ASSUME NEW j \in 1..n, NEW k \in 1..n, q[j] = q[k] PROVE j = k
    <3>1. q[j] \in Nat /\ q[k] \in Nat
      BY <1>2
    <3>2. ~(j < k) /\ ~(k < j)
      BY <1>2, <2>1, <3>1
    <3> QED
      BY <3>2
  <2> QED
    BY <1>2, <2>1 DEF Injection, IsInjective
<1>4. Cardinality(1..n) = n
  BY <1>1, FS_Interval
<1>5. q \in Surjection(1..n, S)
  BY <1>3, <1>4, FS_Injection
<1>6. q \in Seq(S) /\ Len(q) = n
  BY <1>1, <1>2, SeqDef
<1> QED
  BY <1>2, <1>5, <1>6 DEF Surjection, q

LEMMA PageIs ==
    ASSUME NEW S, NEW q \in Seq(S)
    PROVE  /\ Page(q) \in Seq(S) /\ Len(Page(q)) <= Len(q)
           /\ \A k \in 1..Len(Page(q)) : Page(q)[k] = q[k]
           /\ Page(q) = <<>> => q = <<>>
<1> DEFINE n == IF Len(q) < PageSize THEN Len(q) ELSE PageSize
<1>1. n \in 0..Len(q) /\ (n = 0 => Len(q) = 0)
  BY PageAssumption
<1>2. Page(q) = SubSeq(q, 1, n)
  BY DEF Page
<1> HIDE DEF n
<1> QED
  BY <1>1, <1>2

\* The transactions of a page before the last one seen.
LEMMA NewIs ==
    ASSUME NEW S \in SUBSET Nat, NEW page \in Seq(S), NEW last
    PROVE  LET new == NewOf(page, last)
           IN  /\ new \in Seq(S) /\ Len(new) <= Len(page)
               /\ \A k \in 1..Len(new) : new[k] = page[k] /\ page[k] # last
               /\ Len(new) < Len(page) => page[Len(new) + 1] = last
<1> DEFINE ends == {k \in DOMAIN page : page[k] = last}
           new   == NewOf(page, last)
<1>1. CASE ends = {}
  BY <1>1 DEF NewOf
<1>2. CASE ends # {}
  <2>1. ends \in SUBSET Nat
    OBVIOUS
  <2>2. Min(ends) \in ends /\ \A k \in ends : Min(ends) <= k
    BY <1>2, <2>1, LeastExists DEF Min
  <2> DEFINE m == Min(ends)
  <2>3. m \in 1..Len(page) /\ page[m] = last /\ \A k \in 1..Len(page) : page[k] = last => m <= k
    BY <2>2
  <2>4. new = SubSeq(page, 1, m - 1)
    BY <1>2 DEF NewOf
  <2> HIDE DEF ends, new, m
  <2>5. new \in Seq(S) /\ Len(new) = m - 1 /\ \A k \in 1..(m - 1) : new[k] = page[k]
    BY <2>3, <2>4
  <2> QED
    BY <2>3, <2>5 DEF new
<1> QED
  BY <1>1, <1>2

-----------------------------------------------------------------------------
MoveRows(W) == [wallet : W, tx : Nat, day : Nat, grade : {"high", "medium"},
                action : {"exchange_deposit", "exchange_withdrawal", "transfer_out", "transfer_in"}]
TxRows == [kind : EthKinds \cup BtcKinds, day : Nat, confirmed : BOOLEAN]

Concerning(w) == {i \in DOMAIN chain["ETH"] : Concerns(chain["ETH"][i], w)}

WhaleTypes ==
    /\ day \in Nat /\ chain \in [Chains -> Seq(TxRows)]
    /\ lastSeen \in [EthWallets \cup BtcWallets -> Nat]
    /\ moves \in [Chains -> Seq(MoveRows(EthWallets \cup BtcWallets))]
    /\ moves["ETH"] \in Seq(MoveRows(EthWallets)) /\ moves["BTC"] \in Seq(MoveRows(BtcWallets))
    /\ loop \in [Chains -> [todo : SUBSET (EthWallets \cup BtcWallets), before : Nat \cup {-1}]]
    /\ told \in Seq(MoveRows(EthWallets \cup BtcWallets))

\* The last transaction seen of a wallet is one of its own.
SeenKnown == \A w \in EthWallets : lastSeen[w] = 0 \/ lastSeen[w] \in Concerning(w)

\* One movement of each wallet's transaction.
Single(ms) == \A j, k \in DOMAIN ms : j # k => <<ms[j].wallet, ms[j].tx>> # <<ms[k].wallet, ms[k].tx>>

Untold(m) == \A j \in DOMAIN told : told[j].wallet = m.wallet => told[j].tx # m.tx

\* Nothing is recorded or told of what has not been seen.
SeenLast ==
    /\ \A k \in DOMAIN moves["ETH"] : moves["ETH"][k].tx <= lastSeen[moves["ETH"][k].wallet]
    /\ \A k \in DOMAIN told : On("ETH", told[k]) => told[k].tx <= lastSeen[told[k].wallet]

\* What a poll is going to tell has not been told.
Unheard(ms, b) == b >= 0 => \A k \in DOMAIN ms : k > b => Untold(ms[k])

WhaleInv == WhaleTypes /\ SeenKnown /\ SeenLast /\ Unheard(moves["ETH"], loop["ETH"].before) /\ EthOnce

LEMMA ChainArrays ==
    ASSUME WhaleTypes, NEW ch \in Chains
    PROVE  /\ DOMAIN chain[ch] = 1..Len(chain[ch]) /\ Len(chain[ch]) \in Nat
           /\ \A i \in DOMAIN chain[ch] : chain[ch][i] \in TxRows
           /\ \A S \in SUBSET DOMAIN chain[ch] : IsFiniteSet(S) /\ S \in SUBSET Nat
<1>1. chain[ch] \in Seq(TxRows)
  BY DEF WhaleTypes
<1>2. DOMAIN chain[ch] = 1..Len(chain[ch]) /\ Len(chain[ch]) \in Nat
  BY <1>1
<1>3. \A i \in DOMAIN chain[ch] : chain[ch][i] \in TxRows
  BY <1>1, <1>2
<1>4. IsFiniteSet(DOMAIN chain[ch])
  BY <1>2, FS_Interval
<1>5. ASSUME NEW S \in SUBSET DOMAIN chain[ch] PROVE IsFiniteSet(S) /\ S \in SUBSET Nat
  BY <1>2, <1>4, FS_Subset
<1> QED
  BY <1>2, <1>3, <1>5

LEMMA MoveArrays ==
    ASSUME NEW W, NEW ms \in Seq(MoveRows(W))
    PROVE  /\ DOMAIN ms = 1..Len(ms) /\ Len(ms) \in Nat
           /\ \A j \in 1..Len(ms) : ms[j].tx \in Nat /\ ms[j].wallet \in W
<1>1. DOMAIN ms = 1..Len(ms) /\ Len(ms) \in Nat
  OBVIOUS
<1>2. \A j \in 1..Len(ms) : ms[j] \in MoveRows(W)
  BY ElementOfSeq, Zenon
<1>3. \A m \in MoveRows(W) : m.tx \in Nat /\ m.wallet \in W
  BY DEF MoveRows
<1> QED
  BY <1>1, <1>2, <1>3

LEMMA SeqWider ==
    ASSUME NEW S, NEW T, S \subseteq T, NEW s \in Seq(S)
    PROVE  s \in Seq(T)
  OBVIOUS

\* What a page of Ethereum shows of a wallet.
LEMMA EthPageIs ==
    ASSUME WhaleTypes, NEW w \in EthWallets
    PROVE  LET page == EthPage(w)
           IN  /\ page \in Seq(Concerning(w))
               /\ \A j, k \in 1..Len(page) : j < k => page[j] > page[k]
               /\ page # <<>> => \A i \in Concerning(w) : i <= page[1]
<1> DEFINE S == Concerning(w)
           q == Newest(S)
           page == EthPage(w)
<1>1. S \in SUBSET DOMAIN chain["ETH"]
  BY DEF Concerning
<1>2. IsFiniteSet(S) /\ S \in SUBSET Nat
  BY <1>1, ChainArrays DEF Chains
<1>3. page = Page(q)
  BY DEF EthPage, Concerning
<1> HIDE DEF S
<1>4. /\ q \in Seq(S) /\ \A j, k \in 1..Len(q) : j < k => q[j] > q[k]
      /\ \A i \in S : \E k \in 1..Len(q) : q[k] = i
  BY <1>2, NewestIs
<1> HIDE DEF q, page
<1>5. page \in Seq(S) /\ Len(page) <= Len(q) /\ \A k \in 1..Len(page) : page[k] = q[k]
  BY <1>3, <1>4, PageIs
<1>6. \A j, k \in 1..Len(page) : j < k => page[j] > page[k]
  <2>1. Len(page) \in Nat /\ Len(q) \in Nat
    BY <1>4, <1>5
  <2>2. \A k \in 1..Len(page) : k \in 1..Len(q)
    BY <1>5, <2>1
  <2> QED
    BY <1>4, <1>5, <2>2
<1>7. ASSUME page # <<>>, NEW i \in S PROVE i <= page[1]
  <2>1. 1 \in 1..Len(page) /\ 1 \in 1..Len(q)
    BY <1>4, <1>5, <1>7
  <2>2. PICK k \in 1..Len(q) : q[k] = i
    BY <1>4
  <2>3. page[1] = q[1] /\ q[1] \in Nat /\ i \in Nat
    <3>1. page[1] = q[1]
      BY <1>5, <2>1
    <3>2. q[1] \in S
      BY <1>4, <2>1
    <3> QED
      BY <1>2, <3>1, <3>2
  <2>4. k = 1 \/ q[1] > q[k]
    BY <1>4, <2>1, <2>2
  <2> QED
    BY <2>2, <2>3, <2>4
<1> QED
  BY <1>5, <1>6, <1>7 DEF S, page

\* The transactions of it that are processed are later than the last one seen.
LEMMA EthNewIs ==
    ASSUME WhaleTypes, NEW w \in EthWallets, NEW last \in Concerning(w)
    PROVE  LET page == EthPage(w)
               new  == NewOf(page, last)
           IN  /\ new \in Seq(Concerning(w))
               /\ \A j, k \in 1..Len(new) : j < k => new[j] > new[k]
               /\ \A k \in 1..Len(new) : new[k] > last /\ new[k] <= page[1]
<1> DEFINE S == Concerning(w)
           q == Newest(S)
           page == EthPage(w)
           new == NewOf(page, last)
<1>1. S \in SUBSET DOMAIN chain["ETH"]
  BY DEF Concerning
<1>2. IsFiniteSet(S) /\ S \in SUBSET Nat
  BY <1>1, ChainArrays DEF Chains
<1>3. page = Page(q)
  BY DEF EthPage, Concerning
<1>4. /\ page \in Seq(S) /\ \A j, k \in 1..Len(page) : j < k => page[j] > page[k]
      /\ page # <<>> => \A i \in S : i <= page[1]
  BY EthPageIs
<1>0. last \in S
  OBVIOUS
<1> HIDE DEF S
<1>5. /\ q \in Seq(S) /\ \A j, k \in 1..Len(q) : j < k => q[j] > q[k]
      /\ \A i \in S : \E k \in 1..Len(q) : q[k] = i
  BY <1>2, NewestIs
<1> HIDE DEF q, page
<1>6. Len(page) <= Len(q) /\ \A k \in 1..Len(page) : page[k] = q[k]
  BY <1>3, <1>5, PageIs
<1>7. /\ new \in Seq(S) /\ Len(new) <= Len(page)
      /\ \A k \in 1..Len(new) : new[k] = page[k] /\ page[k] # last
      /\ Len(new) < Len(page) => page[Len(new) + 1] = last
  BY <1>2, <1>4, NewIs
<1> HIDE DEF new
<1>8. \A j, k \in 1..Len(new) : j < k => new[j] > new[k]
  BY <1>4, <1>7
<1>9. ASSUME NEW k \in 1..Len(new) PROVE new[k] > last /\ new[k] <= page[1]
  <2>1. k \in 1..Len(page) /\ k \in 1..Len(q) /\ new[k] = page[k] /\ page[k] = q[k] /\ page[k] \in S
    <3>1. Len(page) \in Nat /\ Len(q) \in Nat /\ Len(new) \in Nat
      BY <1>4, <1>5, <1>7, LenProperties
    <3>2. k \in 1..Len(page) /\ k \in 1..Len(q)
      BY <1>6, <1>7, <3>1
    <3>3. page[k] \in S
      BY <1>4, <3>2
    <3> QED
      BY <1>6, <1>7, <3>2, <3>3
  <2>2. page # <<>>
    BY <1>4, <2>1
  <2>3. CASE Len(new) < Len(page)
    <3>1. Len(new) + 1 \in 1..Len(page) /\ k < Len(new) + 1
      BY <1>4, <1>7, <2>3
    <3> QED
      BY <1>4, <1>7, <2>1, <2>2, <2>3, <3>1
  <2>4. CASE ~(Len(new) < Len(page))
    <3>1. PICK j \in 1..Len(q) : q[j] = last
      BY <1>0, <1>5
    <3>2. Len(new) = Len(page)
      BY <1>4, <1>7, <2>4
    <3>3. j \notin 1..Len(page)
      BY <1>6, <1>7, <3>1, <3>2
    <3>4. k < j
      BY <1>4, <1>5, <1>6, <2>1, <3>1, <3>3
    <3>5. q[k] > last
      BY <1>5, <2>1, <3>1, <3>4
    <3> QED
      BY <1>4, <2>1, <2>2, <3>5
  <2> QED
    BY <2>3, <2>4
<1> QED
  BY <1>7, <1>8, <1>9 DEF S, page, new

-----------------------------------------------------------------------------
\* A transaction of Ethereum is at most one movement, and one of Bitcoin a few.
LEMMA EthMovesAre ==
    ASSUME WhaleTypes, NEW w \in EthWallets, NEW i \in DOMAIN chain["ETH"]
    PROVE  EthMoves(w, i) = {} \/ \E m \in MoveRows(EthWallets) : EthMoves(w, i) = {m} /\ m.wallet = w /\ m.tx = i
<1> DEFINE at == chain["ETH"][i].day
<1>1. at \in Nat /\ i \in Nat
  BY ChainArrays DEF Chains, TxRows
<1>2. ASSUME NEW action \in {"exchange_deposit", "exchange_withdrawal", "transfer_out", "transfer_in"}, NEW a
      PROVE  LET m == Move(w, i, action, a, at)
             IN  m \in MoveRows(EthWallets) /\ m.wallet = w /\ m.tx = i
  BY <1>1, <1>2 DEF Move, Grade, MoveRows
<1>3. EthMoves(w, i) = {} \/ \E action \in {"exchange_deposit", "exchange_withdrawal", "transfer_out", "transfer_in"} :
                                \E a : EthMoves(w, i) = {Move(w, i, action, a, at)}
  BY Zenon DEF EthMoves
<1> QED
  BY <1>2, <1>3

LEMMA BtcMovesAre ==
    ASSUME WhaleTypes, NEW w \in BtcWallets, NEW i \in DOMAIN chain["BTC"]
    PROVE  IsFiniteSet(BtcMoves(w, i)) /\ BtcMoves(w, i) \subseteq MoveRows(BtcWallets)
<1> DEFINE at == IF chain["BTC"][i].confirmed THEN chain["BTC"][i].day ELSE day
           Row(action, grade) == [wallet |-> w, tx |-> i, action |-> action, grade |-> grade, day |-> at]
           Rows(action) == {Row(action, "high"), Row(action, "medium")}
           All == Rows("exchange_deposit") \cup Rows("transfer_out")
                  \cup Rows("exchange_withdrawal") \cup Rows("transfer_in")
<1>1. at \in Nat /\ i \in Nat
  BY ChainArrays DEF Chains, TxRows, WhaleTypes
<1>2. All \subseteq MoveRows(BtcWallets)
  BY <1>1 DEF MoveRows
<1>3. IsFiniteSet(All)
  <2>1. \A x, y : IsFiniteSet({x, y})
    <3> SUFFICES ASSUME NEW x, NEW y PROVE IsFiniteSet({x, y})
      OBVIOUS
    <3>1. IsFiniteSet({x})
      BY FS_Singleton
    <3>2. IsFiniteSet({x} \cup {y})
      BY <3>1, FS_AddElement
    <3>3. {x, y} = {x} \cup {y}
      OBVIOUS
    <3> QED
      BY <3>2, <3>3
  <2>2. \A action : IsFiniteSet(Rows(action))
    BY <2>1
  <2> HIDE DEF Rows
  <2> QED
    BY <2>2, FS_Union
<1>4. \A action, a : Move(w, i, action, a, at) \in Rows(action)
  BY DEF Move, Grade
<1> HIDE DEF Rows
<1>5. BtcMoves(w, i) \subseteq All
  BY <1>4 DEF BtcMoves
<1> QED
  BY <1>2, <1>3, <1>5, FS_Subset

\* The loop of Processed.
ProcessedTo(ch, w, new, f, m) ==
    [k \in 0..m |-> IF k = 0 THEN moves[ch]
                    ELSE Pruned(f[k - 1] \o SetToSeq(MovesOf(ch, w, new[k])))]

LEMMA ProcessedLoop ==
    ASSUME NEW ch, NEW w, NEW new, Len(new) \in Nat
    PROVE  \E r : r = ProcessedTo(ch, w, new, r, Len(new)) /\ Processed(ch, w, new) = r[Len(new)]
<1> DEFINE H == {m \in 0..Len(new) : \E f : f = ProcessedTo(ch, w, new, f, m)}
<1>1. 0 \in H
  <2> DEFINE f == [i \in 0..0 |-> moves[ch]]
  <2>1. f = ProcessedTo(ch, w, new, f, 0)
    BY DEF ProcessedTo
  <2> HIDE DEF f
  <2> QED
    BY <2>1
<1>2. ASSUME NEW k \in 1..Len(new), k - 1 \in H PROVE k \in H
  <2>1. PICK f : f = ProcessedTo(ch, w, new, f, k - 1)
    BY <1>2
  <2> DEFINE Turn1(g, i) == IF i = 0 THEN moves[ch]
                            ELSE Pruned(g[i - 1] \o SetToSeq(MovesOf(ch, w, new[i])))
             g == [i \in 0..k |-> IF i < k THEN f[i] ELSE Turn1(f, k)]
  <2>2. \A i \in 0..(k - 1) : f[i] = Turn1(f, i)
    BY <2>1 DEF ProcessedTo
  <2>3. \A i \in 0..k : g[i] = Turn1(g, i)
    <3> SUFFICES ASSUME NEW i \in 0..k PROVE g[i] = Turn1(g, i)
      OBVIOUS
    <3>1. i # 0 => i - 1 \in 0..k /\ i - 1 < k
      OBVIOUS
    <3>2. i # 0 => g[i - 1] = f[i - 1]
      BY <3>1
    <3>3. Turn1(g, i) = Turn1(f, i)
      BY <3>2
    <3>4. g[i] = Turn1(f, i)
      BY <2>2
    <3> QED
      BY <3>3, <3>4
  <2>4. g = ProcessedTo(ch, w, new, g, k)
    BY <2>3 DEF ProcessedTo
  <2> HIDE DEF g
  <2> QED
    BY <2>4
<1> HIDE DEF H
<1>3. 0..Len(new) \subseteq H
  BY <1>1, <1>2, LoopInduction
<1>4. \E f : f = ProcessedTo(ch, w, new, f, Len(new))
  BY <1>3 DEF H
<1> DEFINE r == CHOOSE f : f = ProcessedTo(ch, w, new, f, Len(new))
<1>5. r = ProcessedTo(ch, w, new, r, Len(new))
  BY <1>4
<1>6. Processed(ch, w, new) = r[Len(new)]
  BY DEF Processed, ProcessedTo
<1> HIDE DEF r
<1> QED
  BY <1>5, <1>6

\* The turns of that loop.
LEMMA ProcessedTurns ==
    ASSUME NEW ch, NEW w, NEW new, Len(new) \in Nat
    PROVE  \E r : /\ Processed(ch, w, new) = r[Len(new)] /\ r[0] = moves[ch]
                  /\ \A k \in 1..Len(new) : r[k] = Pruned(r[k - 1] \o SetToSeq(MovesOf(ch, w, new[k])))
<1>1. PICK r : r = ProcessedTo(ch, w, new, r, Len(new)) /\ Processed(ch, w, new) = r[Len(new)]
  BY ProcessedLoop
<1>2. \A k \in 0..Len(new) : r[k] = IF k = 0 THEN moves[ch]
                                    ELSE Pruned(r[k - 1] \o SetToSeq(MovesOf(ch, w, new[k])))
  BY <1>1 DEF ProcessedTo
<1>3. r[0] = moves[ch]
  BY <1>2
<1>4. \A k \in 1..Len(new) : r[k] = Pruned(r[k - 1] \o SetToSeq(MovesOf(ch, w, new[k])))
  BY <1>2
<1> QED
  BY <1>1, <1>3, <1>4

-----------------------------------------------------------------------------
\* The movements after k of the transactions new of w, the rest as before.
Turned(ms, w, new, k) ==
    /\ ms \in Seq(MoveRows(EthWallets)) /\ Single(ms) /\ Unheard(ms, loop["ETH"].before)
    /\ \A j \in 1..Len(ms) : \/ ms[j].tx <= lastSeen[ms[j].wallet]
                             \/ ms[j].wallet = w /\ \E i \in 1..k : ms[j].tx = new[i]

\* Pruning leaves it so.
LEMMA PrunedKeeps ==
    ASSUME WhaleTypes, NEW ms, NEW w, NEW new, NEW k, Turned(ms, w, new, k)
    PROVE  Turned(Pruned(ms), w, new, k)
<1> DEFINE S == MoveRows(EthWallets)
           p == Pruned(ms)
           b == loop["ETH"].before
<1>1. ms \in Seq(S) /\ Single(ms) /\ Unheard(ms, b)
  BY DEF Turned
<1>2. p \in Seq(S) /\ Taken(p, ms, Len(ms))
  BY <1>1, PickedIs DEF Pruned
<1>3. PICK h : Follows(p, ms, Len(ms), h)
  BY <1>2 DEF Taken
<1>4. b \in Int
  BY DEF WhaleTypes, Chains
<1> HIDE DEF S, p, b
<1>5. /\ h \in [1..Len(p) -> 1..Len(ms)] /\ \A j \in 1..Len(p) : p[j] = ms[h[j]] /\ h[j] >= j
      /\ \A i, j \in 1..Len(p) : i < j => h[i] < h[j]
  BY <1>3 DEF Follows
<1>6. DOMAIN p = 1..Len(p) /\ DOMAIN ms = 1..Len(ms) /\ Len(p) \in Nat /\ Len(ms) \in Nat
  BY <1>1, <1>2
<1>7. Single(p)
  <2> SUFFICES ASSUME NEW i \in 1..Len(p), NEW j \in 1..Len(p), i # j
               PROVE  <<p[i].wallet, p[i].tx>> # <<p[j].wallet, p[j].tx>>
    BY <1>6 DEF Single
  <2>1. i < j \/ j < i
    BY <1>6
  <2>2. h[i] \in 1..Len(ms) /\ h[j] \in 1..Len(ms) /\ h[i] # h[j]
    BY <1>5, <1>6, <2>1
  <2> QED
    BY <1>1, <1>5, <1>6, <2>2 DEF Single
<1>8. Unheard(p, b)
  <2> SUFFICES ASSUME b >= 0, NEW j \in 1..Len(p), j > b PROVE Untold(p[j])
    BY <1>6 DEF Unheard
  <2>1. h[j] \in 1..Len(ms) /\ h[j] > b /\ p[j] = ms[h[j]]
    BY <1>4, <1>5, <1>6
  <2> QED
    BY <1>1, <1>6, <2>1 DEF Unheard
<1>9. ASSUME NEW j \in 1..Len(p)
      PROVE  p[j].tx <= lastSeen[p[j].wallet] \/ (p[j].wallet = w /\ \E i \in 1..k : p[j].tx = new[i])
  <2>1. h[j] \in 1..Len(ms) /\ p[j] = ms[h[j]]
    BY <1>5
  <2> QED
    BY <2>1 DEF Turned
<1> QED
  BY <1>2, <1>7, <1>8, <1>9 DEF Turned, S, p, b

\* One more transaction.
LEMMA TurnKeeps ==
    ASSUME WhaleTypes, SeenLast, NEW w \in EthWallets, NEW new \in Seq(Concerning(w)), NEW k \in 1..Len(new),
           \A i, j \in 1..Len(new) : i < j => new[i] > new[j], \A i \in 1..Len(new) : new[i] > lastSeen[w],
           NEW ms, Turned(ms, w, new, k - 1)
    PROVE  Turned(Pruned(ms \o SetToSeq(EthMoves(w, new[k]))), w, new, k)
<1> DEFINE S == MoveRows(EthWallets)
           s == SetToSeq(EthMoves(w, new[k]))
           c == ms \o s
           b == loop["ETH"].before
           n == Len(ms)
           new_k == new[k]
<1>1. /\ ms \in Seq(S) /\ Single(ms) /\ Unheard(ms, b)
      /\ \A j \in 1..n : \/ ms[j].tx <= lastSeen[ms[j].wallet]
                         \/ ms[j].wallet = w /\ \E i \in 1..(k - 1) : ms[j].tx = new[i]
  BY DEF Turned
<1>2. new_k \in DOMAIN chain["ETH"] /\ new_k \in Nat /\ \A i \in 1..Len(new) : new[i] \in Nat
  <2>1. \A i \in 1..Len(new) : new[i] \in Concerning(w)
    OBVIOUS
  <2>2. \A i \in Concerning(w) : i \in DOMAIN chain["ETH"] /\ i \in Nat
    BY ChainArrays DEF Concerning, Chains
  <2> QED
    BY <2>1, <2>2
<1>3. s \in Seq(S) /\ Len(s) \in {0, 1} /\ \A j \in 1..Len(s) : s[j].wallet = w /\ s[j].tx = new_k
  <2>1. CASE EthMoves(w, new_k) = {}
    <3>1. IsFiniteSet(EthMoves(w, new_k)) /\ Cardinality(EthMoves(w, new_k)) = 0
      BY <2>1, FS_EmptySet
    <3>2. s \in Seq({}) /\ Len(s) = 0
      BY <2>1, <3>1, SetToSeqIs
    <3> HIDE DEF s
    <3> QED
      BY <3>2
  <2>2. ASSUME NEW m \in S, EthMoves(w, new_k) = {m}, m.wallet = w, m.tx = new_k
        PROVE  s \in Seq(S) /\ Len(s) \in {0, 1} /\ \A j \in 1..Len(s) : s[j].wallet = w /\ s[j].tx = new_k
    <3>1. IsFiniteSet(EthMoves(w, new_k)) /\ Cardinality(EthMoves(w, new_k)) = 1
      BY <2>2, FS_Singleton
    <3>2. s \in Seq({m}) /\ Len(s) = 1
      BY <2>2, <3>1, SetToSeqIs
    <3> HIDE DEF s, S, new_k
    <3>3. \A j \in 1..Len(s) : s[j] = m
      <4>1. \A j \in 1..Len(s) : s[j] \in {m}
        BY <3>2, ElementOfSeq, Zenon
      <4> QED
        BY <4>1, Zenon
    <3>4. s \in Seq(S)
      BY <2>2, <3>2
    <3> QED
      BY <2>2, <3>2, <3>3, <3>4
  <2> QED
    BY <1>2, <2>1, <2>2, EthMovesAre
<1> HIDE DEF S, s, new_k
<1>4. n \in Nat /\ DOMAIN ms = 1..n
  BY <1>1
<1>5. /\ c \in Seq(S) /\ Len(c) = n + Len(s) /\ DOMAIN c = 1..Len(c)
      /\ \A j \in 1..Len(c) : \/ j \in 1..n /\ c[j] = ms[j]
                              \/ j = n + 1 /\ c[j].wallet = w /\ c[j].tx = new_k
  <2>1. c \in Seq(S) /\ Len(c) = n + Len(s) /\ DOMAIN c = 1..Len(c)
    BY <1>1, <1>3
  <2>2. ASSUME NEW j \in 1..Len(c), j <= n PROVE j \in 1..n /\ c[j] = ms[j]
    BY <1>1, <1>3, <1>4, <2>1, <2>2
  <2>3. ASSUME NEW j \in 1..Len(c), j > n PROVE j = n + 1 /\ 1 \in 1..Len(s) /\ c[j] = s[1]
    <3>1. j = n + 1 /\ 1 \in 1..Len(s) /\ j - n = 1
      BY <1>3, <1>4, <2>1, <2>3
    <3>2. c[j] = s[j - n]
      BY <1>1, <1>3, <2>1, <2>3, ConcatProperties
    <3> QED
      BY <3>1, <3>2
  <2> QED
    BY <1>3, <1>4, <2>1, <2>2, <2>3
<1> HIDE DEF c, b, n
<1>6. \A j \in 1..n : ms[j].wallet = w => ms[j].tx # new_k
  <2> SUFFICES ASSUME NEW j \in 1..n, ms[j].wallet = w, ms[j].tx = new_k PROVE FALSE
    OBVIOUS
  <2>1. new_k > lastSeen[w] /\ lastSeen[w] \in Nat
    BY DEF new_k, WhaleTypes
  <2>2. PICK i \in 1..(k - 1) : new_k = new[i]
    BY <1>1, <1>2, <2>1
  <2>3. i \in 1..Len(new) /\ i < k
    BY <2>2
  <2>4. new[i] > new_k
    BY <2>3 DEF new_k
  <2> QED
    BY <1>2, <2>2, <2>4
<1>7. Single(c)
  <2> SUFFICES ASSUME NEW i \in 1..Len(c), NEW j \in 1..Len(c), i # j
               PROVE  <<c[i].wallet, c[i].tx>> # <<c[j].wallet, c[j].tx>>
    BY <1>5 DEF Single
  <2>1. CASE i \in 1..n /\ c[i] = ms[i] /\ j \in 1..n /\ c[j] = ms[j]
    BY <1>1, <1>4, <2>1 DEF Single
  <2>2. CASE i \in 1..n /\ c[i] = ms[i] /\ j = n + 1 /\ c[j].wallet = w /\ c[j].tx = new_k
    BY <1>6, <2>2
  <2>3. CASE j \in 1..n /\ c[j] = ms[j] /\ i = n + 1 /\ c[i].wallet = w /\ c[i].tx = new_k
    BY <1>6, <2>3
  <2> QED
    BY <1>5, <2>1, <2>2, <2>3
<1>8. Unheard(c, b)
  <2> SUFFICES ASSUME b >= 0, NEW j \in 1..Len(c), j > b PROVE Untold(c[j])
    BY <1>5 DEF Unheard
  <2>1. CASE j \in 1..n /\ c[j] = ms[j]
    BY <1>1, <1>4, <2>1 DEF Unheard
  <2>2. CASE c[j].wallet = w /\ c[j].tx = new_k
    <3> SUFFICES ASSUME NEW x \in DOMAIN told, told[x].wallet = w PROVE told[x].tx # new_k
      BY <2>2 DEF Untold
    <3>1. On("ETH", told[x])
      BY DEF On, WalletsOf
    <3>2. told[x].tx <= lastSeen[w]
      BY <3>1 DEF SeenLast
    <3>3. new_k > lastSeen[w] /\ lastSeen[w] \in Nat
      BY DEF new_k, WhaleTypes
    <3> QED
      BY <1>2, <3>2, <3>3
  <2> QED
    BY <1>5, <2>1, <2>2
<1>9. ASSUME NEW j \in 1..Len(c)
      PROVE  c[j].tx <= lastSeen[c[j].wallet] \/ (c[j].wallet = w /\ \E i \in 1..k : c[j].tx = new[i])
  <2>1. CASE j \in 1..n /\ c[j] = ms[j]
    <3>1. \A i \in 1..(k - 1) : i \in 1..k
      OBVIOUS
    <3> QED
      BY <1>1, <2>1, <3>1
  <2>2. CASE c[j].wallet = w /\ c[j].tx = new_k
    BY <2>2 DEF new_k
  <2> QED
    BY <1>5, <2>1, <2>2
<1>10. Turned(c, w, new, k)
  BY <1>5, <1>7, <1>8, <1>9 DEF Turned, S, b
<1> QED
  BY <1>10, PrunedKeeps DEF c, s, n

\* Ethereum's movements after a page.
LEMMA EthProcessed ==
    ASSUME WhaleTypes, SeenLast, EthOnce, Unheard(moves["ETH"], loop["ETH"].before),
           NEW w \in EthWallets, NEW new \in Seq(Concerning(w)),
           \A i, j \in 1..Len(new) : i < j => new[i] > new[j], \A i \in 1..Len(new) : new[i] > lastSeen[w]
    PROVE  Turned(Processed("ETH", w, new), w, new, Len(new))
<1> DEFINE n == Len(new)
<1>1. n \in Nat
  BY LenProperties
<1>2. PICK r : /\ Processed("ETH", w, new) = r[n] /\ r[0] = moves["ETH"]
               /\ \A k \in 1..n : r[k] = Pruned(r[k - 1] \o SetToSeq(EthMoves(w, new[k])))
  BY <1>1, ProcessedTurns DEF MovesOf
<1> DEFINE H == {k \in 0..n : Turned(r[k], w, new, k)}
<1>3. Turned(moves["ETH"], w, new, 0)
  <2>1. moves["ETH"] \in Seq(MoveRows(EthWallets)) /\ DOMAIN moves["ETH"] = 1..Len(moves["ETH"])
    BY DEF WhaleTypes
  <2>2. \A j \in 1..Len(moves["ETH"]) : moves["ETH"][j].tx <= lastSeen[moves["ETH"][j].wallet]
    BY <2>1 DEF SeenLast
  <2>3. Single(moves["ETH"])
    BY DEF EthOnce, Single
  <2> QED
    BY <2>1, <2>2, <2>3 DEF Turned
<1>4. 0 \in H
  BY <1>1, <1>2, <1>3
<1>5. ASSUME NEW k \in 1..n, k - 1 \in H PROVE k \in H
  <2>1. Turned(r[k - 1], w, new, k - 1)
    BY <1>5
  <2>2. Turned(r[k], w, new, k)
    BY <1>2, <2>1, TurnKeeps
  <2> QED
    BY <1>1, <2>2
<1> HIDE DEF H, n
<1>6. 0..n \subseteq H
  BY <1>1, <1>4, <1>5, LoopInduction
<1>7. n \in H
  BY <1>1, <1>6
<1> QED
  BY <1>2, <1>7 DEF H, n

\* Bitcoin's.
LEMMA BtcProcessed ==
    ASSUME WhaleTypes, NEW w \in BtcWallets, NEW new \in Seq(DOMAIN chain["BTC"])
    PROVE  Processed("BTC", w, new) \in Seq(MoveRows(BtcWallets))
<1> DEFINE n == Len(new)
           S == MoveRows(BtcWallets)
<1>1. n \in Nat
  BY LenProperties
<1>2. PICK r : /\ Processed("BTC", w, new) = r[n] /\ r[0] = moves["BTC"]
               /\ \A k \in 1..n : r[k] = Pruned(r[k - 1] \o SetToSeq(BtcMoves(w, new[k])))
  BY <1>1, ProcessedTurns DEF MovesOf
<1> DEFINE H == {k \in 0..n : r[k] \in Seq(S)}
<1>3. 0 \in H
  BY <1>1, <1>2 DEF WhaleTypes
<1>4. ASSUME NEW k \in 1..n, k - 1 \in H PROVE k \in H
  <2> DEFINE ms == BtcMoves(w, new[k])
  <2>1. new[k] \in DOMAIN chain["BTC"]
    BY ElementOfSeq
  <2>2. IsFiniteSet(ms) /\ ms \subseteq S
    BY <2>1, BtcMovesAre
  <2> HIDE DEF ms, S
  <2>3. SetToSeq(ms) \in Seq(ms)
    BY <2>2, SetToSeqIs
  <2>4. SetToSeq(ms) \in Seq(S)
    BY <2>2, <2>3
  <2>5. r[k - 1] \in Seq(S)
    BY <1>4
  <2>6. r[k - 1] \o SetToSeq(ms) \in Seq(S)
    BY <2>4, <2>5, ConcatProperties
  <2>7. Pruned(r[k - 1] \o SetToSeq(ms)) \in Seq(S)
    BY <2>6, PickedIs DEF Pruned
  <2>8. r[k] = Pruned(r[k - 1] \o SetToSeq(ms))
    BY <1>2 DEF ms
  <2> QED
    BY <1>1, <2>7, <2>8 DEF S
<1> HIDE DEF H, n
<1>5. n \in H
  BY <1>1, <1>3, <1>4, LoopInduction
<1> QED
  BY <1>2, <1>5 DEF H, n

\* A wallet of Ethereum is checked.
LEMMA CheckEthKeeps == ASSUME WhaleInv, NEW w \in EthWallets, CheckEth(w) PROVE WhaleInv'
<1> DEFINE page == EthPage(w)
           last == lastSeen[w]
           new  == NewOf(page, last)
           ms   == moves["ETH"]
<1>1. /\ UNCHANGED <<day, chain, told>>
      /\ loop' = [loop EXCEPT !["ETH"].todo = @ \ {w}]
  BY DEF CheckEth, Checked
<1>2. WhaleTypes /\ SeenKnown /\ SeenLast /\ Unheard(ms, loop["ETH"].before) /\ EthOnce
  BY DEF WhaleInv
<1>3. /\ loop' \in [Chains -> [todo : SUBSET (EthWallets \cup BtcWallets), before : Nat \cup {-1}]]
      /\ loop'["ETH"].before = loop["ETH"].before
  BY <1>1, <1>2 DEF WhaleTypes, Chains
<1>4. Concerning(w)' = Concerning(w) /\ \A v \in EthWallets : Concerning(v)' = Concerning(v)
  BY <1>1 DEF Concerning, Concerns
<1>5. /\ page \in Seq(Concerning(w))
      /\ page # <<>> => \A i \in Concerning(w) : i <= page[1]
  BY <1>2, EthPageIs
<1>6. last \in Nat /\ (last = 0 \/ last \in Concerning(w)) /\ Concerning(w) \in SUBSET Nat
  <2>1. Concerning(w) \in SUBSET DOMAIN chain["ETH"]
    BY DEF Concerning
  <2> QED
    BY <1>2, <2>1, ChainArrays DEF WhaleTypes, SeenKnown, Chains
<1>7. CASE page = <<>>
  <2>1. UNCHANGED <<lastSeen, moves>>
    BY <1>7 DEF CheckEth, Checked
  <2>2. WhaleTypes' /\ SeenKnown'
    BY <1>1, <1>2, <1>3, <1>4, <2>1 DEF WhaleTypes, SeenKnown
  <2>3. SeenLast' /\ EthOnce'
    BY <1>1, <1>2, <2>1 DEF SeenLast, EthOnce, On, WalletsOf
  <2>4. Unheard(ms, loop["ETH"].before)'
    BY <1>1, <1>2, <1>3, <2>1 DEF Unheard, Untold
  <2> QED
    BY <2>2, <2>3, <2>4 DEF WhaleInv
<1>8. CASE page # <<>>
  <2>1. /\ lastSeen' = [lastSeen EXCEPT ![w] = page[1]]
        /\ moves' = [moves EXCEPT !["ETH"] = IF last = 0 THEN @ ELSE Processed("ETH", w, new)]
    BY <1>8 DEF CheckEth, Checked
  <2>2. page[1] \in Concerning(w) /\ page[1] \in Nat
    BY <1>5, <1>6, <1>8
  <2>3. last <= page[1]
    BY <1>5, <1>6, <1>8, <2>2
  <2> HIDE DEF page, new
  <2>4. /\ lastSeen' \in [EthWallets \cup BtcWallets -> Nat] /\ lastSeen'[w] = page[1]
        /\ \A v \in EthWallets : v # w => lastSeen'[v] = lastSeen[v]
    BY <1>2, <2>1, <2>2 DEF WhaleTypes
  <2>5. SeenKnown'
    BY <1>2, <1>4, <2>2, <2>4 DEF SeenKnown
  <2>6. \A v \in EthWallets : lastSeen[v] \in Nat /\ lastSeen[v] <= lastSeen'[v]
    <3>1. \A v \in EthWallets : lastSeen[v] \in Nat
      BY <1>2 DEF WhaleTypes
    <3>2. \A v \in EthWallets : v # w => lastSeen[v] <= lastSeen'[v]
      BY <2>4, <3>1
    <3>3. lastSeen[w] <= lastSeen'[w]
      BY <2>3, <2>4
    <3> QED
      BY <3>1, <3>2, <3>3
  <2>7. /\ moves'["ETH"] \in Seq(MoveRows(EthWallets)) /\ Single(moves'["ETH"])
        /\ Unheard(moves'["ETH"], loop["ETH"].before)
        /\ \A j \in 1..Len(moves'["ETH"]) : moves'["ETH"][j].tx <= lastSeen'[moves'["ETH"][j].wallet]
    <3>1. CASE last = 0
      <4>1. moves'["ETH"] = ms
        BY <1>2, <2>1, <3>1 DEF WhaleTypes, Chains
      <4>2. ms \in Seq(MoveRows(EthWallets)) /\ DOMAIN ms = 1..Len(ms)
        BY <1>2 DEF WhaleTypes
      <4>3. \A j \in 1..Len(ms) : ms[j].tx \in Nat /\ ms[j].wallet \in EthWallets
        BY <4>2, MoveArrays
      <4>4. \A j \in 1..Len(ms) : ms[j].tx <= lastSeen'[ms[j].wallet]
        <5> SUFFICES ASSUME NEW j \in 1..Len(ms) PROVE ms[j].tx <= lastSeen'[ms[j].wallet]
          OBVIOUS
        <5>1. ms[j].tx <= lastSeen[ms[j].wallet]
          BY <1>2, <4>2 DEF SeenLast
        <5>2. lastSeen'[ms[j].wallet] \in Nat
          BY <2>4, <4>3
        <5> QED
          BY <2>6, <4>3, <5>1, <5>2
      <4> QED
        BY <1>2, <4>1, <4>2, <4>4 DEF EthOnce, Single
    <3>2. CASE last # 0
      <4>1. moves'["ETH"] = Processed("ETH", w, new)
        BY <1>2, <2>1, <3>2 DEF WhaleTypes, Chains
      <4>2. /\ new \in Seq(Concerning(w)) /\ \A j, k \in 1..Len(new) : j < k => new[j] > new[k]
            /\ \A k \in 1..Len(new) : new[k] > last /\ new[k] <= page[1]
        BY <1>2, <1>6, <3>2, EthNewIs DEF page, new
      <4> DEFINE nx == Processed("ETH", w, new)
      <4>3. Turned(nx, w, new, Len(new))
        BY <1>2, <4>2, EthProcessed
      <4> HIDE DEF nx
      <4>4. nx \in Seq(MoveRows(EthWallets)) /\ Single(nx) /\ Unheard(nx, loop["ETH"].before)
        BY <4>3 DEF Turned
      <4>5. ASSUME NEW j \in 1..Len(nx) PROVE nx[j].tx <= lastSeen'[nx[j].wallet]
        <5>1. nx[j].tx \in Nat /\ nx[j].wallet \in EthWallets
          BY <4>4, MoveArrays
        <5>2. CASE nx[j].tx <= lastSeen[nx[j].wallet]
          BY <2>4, <2>6, <5>1, <5>2
        <5>3. CASE nx[j].wallet = w /\ \E i \in 1..Len(new) : nx[j].tx = new[i]
          BY <2>4, <4>2, <5>3
        <5> QED
          BY <4>3, <5>2, <5>3 DEF Turned
      <4> QED
        BY <4>1, <4>4, <4>5 DEF nx
    <3> QED
      BY <3>1, <3>2
  <2>8. moves' \in [Chains -> Seq(MoveRows(EthWallets \cup BtcWallets))] /\ moves'["BTC"] = moves["BTC"]
    <3>1. /\ moves \in [Chains -> Seq(MoveRows(EthWallets \cup BtcWallets))]
          /\ moves' = [moves EXCEPT !["ETH"] = moves'["ETH"]]
      BY <1>2, <2>1 DEF WhaleTypes, Chains
    <3>2. MoveRows(EthWallets) \subseteq MoveRows(EthWallets \cup BtcWallets)
      BY DEF MoveRows
    <3>3. moves'["ETH"] \in Seq(MoveRows(EthWallets \cup BtcWallets))
      BY <2>7, <3>2, SeqWider
    <3> QED
      BY <3>1, <3>3 DEF Chains
  <2>9. WhaleTypes'
    BY <1>1, <1>2, <1>3, <2>4, <2>7, <2>8 DEF WhaleTypes
  <2>10. DOMAIN moves'["ETH"] = 1..Len(moves'["ETH"])
    BY <2>7
  <2>11. SeenLast'
    <3>1. ASSUME NEW k \in DOMAIN told, On("ETH", told[k]) PROVE told[k].tx <= lastSeen'[told[k].wallet]
      <4>1. told[k].wallet \in EthWallets
        BY <3>1 DEF On, WalletsOf
      <4>2. told[k].tx \in Nat
        BY <1>2, MoveArrays DEF WhaleTypes
      <4> QED
        BY <1>2, <2>4, <2>6, <3>1, <4>1, <4>2 DEF SeenLast
    <3> QED
      BY <1>1, <2>7, <2>10, <3>1 DEF SeenLast, On, WalletsOf
  <2>12. EthOnce'
    BY <1>1, <1>2, <2>7 DEF EthOnce, Single, On, WalletsOf
  <2>13. Unheard(ms, loop["ETH"].before)'
    BY <1>1, <1>3, <2>7 DEF Unheard, Untold
  <2> QED
    BY <2>5, <2>9, <2>11, <2>12, <2>13 DEF WhaleInv
<1> QED
  BY <1>7, <1>8

\* What does not touch Ethereum's records.
LEMMA EthKept ==
    ASSUME WhaleInv, WhaleTypes', told' = told, moves'["ETH"] = moves["ETH"],
           loop'["ETH"].before = loop["ETH"].before,
           \A v \in EthWallets : lastSeen'[v] = lastSeen[v] /\ Concerning(v) \subseteq Concerning(v)'
    PROVE  WhaleInv'
<1>1. WhaleTypes /\ SeenKnown /\ SeenLast /\ Unheard(moves["ETH"], loop["ETH"].before) /\ EthOnce
  BY DEF WhaleInv
<1>2. SeenKnown'
  BY <1>1 DEF SeenKnown
<1>3. SeenLast'
  <2>1. \A k \in DOMAIN moves["ETH"] : moves["ETH"][k].wallet \in EthWallets
    BY <1>1, MoveArrays DEF WhaleTypes
  <2>2. \A k \in DOMAIN told : On("ETH", told[k]) => told[k].wallet \in EthWallets
    BY DEF On, WalletsOf
  <2>3. \A k \in DOMAIN told : On("ETH", told[k])' <=> On("ETH", told[k])
    BY DEF On, WalletsOf
  <2> QED
    BY <1>1, <2>1, <2>2, <2>3 DEF SeenLast
<1>4. EthOnce'
  BY <1>1 DEF EthOnce, On, WalletsOf
<1>5. Unheard(moves["ETH"], loop["ETH"].before)'
  BY <1>1 DEF Unheard, Untold
<1> QED
  BY <1>2, <1>3, <1>4, <1>5 DEF WhaleInv

\* A wallet of Bitcoin is checked.
LEMMA CheckBtcKeeps == ASSUME WhaleInv, NEW w \in BtcWallets, CheckBtc(w) PROVE WhaleInv'
<1> DEFINE T == DOMAIN chain["BTC"]
           ids == {i \in T : Concerns(chain["BTC"][i], w)}
           fix == {i \in ids : chain["BTC"][i].confirmed}
           page == BtcPage(w)
           new  == NewOf(page, lastSeen[w])
<1>1. /\ UNCHANGED <<day, chain, told>>
      /\ loop' = [loop EXCEPT !["BTC"].todo = @ \ {w}]
      /\ IF page = <<>> THEN UNCHANGED <<lastSeen, moves>>
         ELSE /\ lastSeen' = [lastSeen EXCEPT ![w] = page[1]]
              /\ moves' = [moves EXCEPT !["BTC"] = IF lastSeen[w] = 0 THEN @ ELSE Processed("BTC", w, new)]
  BY DEF CheckBtc, Checked
<1>2. WhaleTypes
  BY DEF WhaleInv
<1>3. /\ T \in SUBSET Nat /\ (ids \ fix) \in SUBSET Nat /\ IsFiniteSet(ids \ fix)
      /\ fix \in SUBSET Nat /\ IsFiniteSet(fix)
  BY <1>2, ChainArrays DEF Chains
<1>4. Newest(ids \ fix) \in Seq(T) /\ Newest(fix) \in Seq(T)
  <2>1. Newest(ids \ fix) \in Seq(ids \ fix) /\ Newest(fix) \in Seq(fix)
    BY <1>3, NewestIs
  <2>2. (ids \ fix) \subseteq T /\ fix \subseteq T
    OBVIOUS
  <2> QED
    BY <2>1, <2>2, SeqWider
<1>5. page \in Seq(T)
  <2>1. Newest(ids \ fix) \o Newest(fix) \in Seq(T)
    BY <1>4, ConcatProperties
  <2>2. page = Page(Newest(ids \ fix) \o Newest(fix))
    BY DEF BtcPage
  <2> HIDE DEF ids, fix, page, T
  <2> QED
    BY <2>1, <2>2, PageIs
<1>6. new \in Seq(T)
  BY <1>3, <1>5, NewIs
<1>7. page # <<>> => page[1] \in Nat
  <2> HIDE DEF page, T
  <2>1. page # <<>> => 1 \in 1..Len(page)
    BY <1>5
  <2> QED
    BY <1>3, <1>5, <2>1, ElementOfSeq
<1>8. Processed("BTC", w, new) \in Seq(MoveRows(BtcWallets))
  BY <1>2, <1>6, BtcProcessed
<1> HIDE DEF T, page, new
<1>9. w \notin EthWallets
  BY WalletsAssumption
<1>10. /\ lastSeen' \in [EthWallets \cup BtcWallets -> Nat]
       /\ \A v \in EthWallets : lastSeen'[v] = lastSeen[v]
  <2>1. CASE page = <<>>
    BY <1>1, <1>2, <2>1 DEF WhaleTypes
  <2>2. CASE page # <<>>
    BY <1>1, <1>2, <1>7, <1>9, <2>2 DEF WhaleTypes
  <2> QED
    BY <2>1, <2>2
<1>11. /\ moves' \in [Chains -> Seq(MoveRows(EthWallets \cup BtcWallets))]
       /\ moves'["ETH"] = moves["ETH"] /\ moves'["BTC"] \in Seq(MoveRows(BtcWallets))
  <2>1. /\ moves \in [Chains -> Seq(MoveRows(EthWallets \cup BtcWallets))]
        /\ moves["BTC"] \in Seq(MoveRows(BtcWallets))
    BY <1>2 DEF WhaleTypes
  <2>2. PICK ms \in Seq(MoveRows(BtcWallets)) : moves' = [moves EXCEPT !["BTC"] = ms]
    <3>1. moves = [moves EXCEPT !["BTC"] = moves["BTC"]]
      BY <2>1
    <3> QED
      BY <1>1, <1>8, <2>1, <3>1 DEF Chains
  <2>3. MoveRows(BtcWallets) \subseteq MoveRows(EthWallets \cup BtcWallets)
    BY DEF MoveRows
  <2>4. ms \in Seq(MoveRows(EthWallets \cup BtcWallets))
    BY <2>3, SeqWider
  <2> HIDE DEF Chains
  <2>5. "ETH" \in Chains /\ "BTC" \in Chains
    BY DEF Chains
  <2> QED
    BY <2>1, <2>2, <2>4, <2>5
<1>12. /\ loop' \in [Chains -> [todo : SUBSET (EthWallets \cup BtcWallets), before : Nat \cup {-1}]]
       /\ loop'["ETH"] = loop["ETH"]
  BY <1>1, <1>2 DEF WhaleTypes, Chains
<1>13. WhaleTypes'
  BY <1>1, <1>2, <1>10, <1>11, <1>12 DEF WhaleTypes
<1>14. \A v \in EthWallets : Concerning(v)' = Concerning(v)
  BY <1>1 DEF Concerning, Concerns
<1> QED
  BY <1>1, <1>10, <1>11, <1>12, <1>13, <1>14, EthKept

\* The poll begins.
LEMMA PollStartKeeps == ASSUME WhaleInv, NEW ch \in Chains, PollStart(ch) PROVE WhaleInv'
<1>1. /\ loop' = [loop EXCEPT ![ch] = [todo |-> WalletsOf(ch), before |-> Len(moves[ch])]]
      /\ UNCHANGED <<day, chain, lastSeen, moves, told>>
  BY DEF PollStart
<1>2. WhaleTypes
  BY DEF WhaleInv
<1>3. /\ moves["ETH"] \in Seq(MoveRows(EthWallets)) /\ DOMAIN moves["ETH"] = 1..Len(moves["ETH"])
      /\ Len(moves[ch]) \in Nat /\ Len(moves["ETH"]) \in Nat
  BY <1>2 DEF WhaleTypes
<1>4. WalletsOf(ch) \in SUBSET (EthWallets \cup BtcWallets)
  BY DEF WalletsOf
<1>5. loop' \in [Chains -> [todo : SUBSET (EthWallets \cup BtcWallets), before : Nat \cup {-1}]]
  BY <1>1, <1>2, <1>3, <1>4 DEF WhaleTypes
<1>6. WhaleTypes'
  BY <1>1, <1>2, <1>5 DEF WhaleTypes
<1>7. SeenKnown' /\ SeenLast' /\ EthOnce'
  BY <1>1 DEF WhaleInv, SeenKnown, SeenLast, EthOnce, On, WalletsOf, Concerning, Concerns
<1>8. Unheard(moves["ETH"], loop["ETH"].before)'
  <2>1. CASE ch = "ETH"
    <3>1. loop'["ETH"].before = Len(moves["ETH"])
      BY <1>1, <1>2, <2>1 DEF WhaleTypes
    <3> QED
      BY <1>1, <1>3, <3>1 DEF Unheard
  <2>2. CASE ch # "ETH"
    <3>1. loop'["ETH"] = loop["ETH"]
      BY <1>1, <1>2, <2>2 DEF WhaleTypes, Chains
    <3> QED
      BY <1>1, <3>1 DEF WhaleInv, Unheard, Untold
  <2> QED
    BY <2>1, <2>2
<1> QED
  BY <1>6, <1>7, <1>8 DEF WhaleInv

\* What a poll tells of: movements of ms behind the place b, in their order.
Behind(a, ms, b) ==
    \E g : /\ \A i \in 1..Len(a) : g[i] \in 1..Len(ms) /\ g[i] > b /\ a[i] = ms[g[i]]
          /\ \A i, j \in 1..Len(a) : i < j => g[i] < g[j]

LEMMA AlertsAre ==
    ASSUME NEW W, NEW ms \in Seq(MoveRows(W)), NEW b \in Nat, NEW priced,
           NEW a, a = Alerts(SubSeq(ms, b + 1, Len(ms)), priced)
    PROVE  a \in Seq(MoveRows(W)) /\ Behind(a, ms, b)
<1> DEFINE S == MoveRows(W)
           s == SubSeq(ms, b + 1, Len(ms))
<1>1. /\ s \in Seq(S) /\ Len(ms) \in Nat /\ Len(s) \in Nat
      /\ \A i \in 1..Len(s) : b + i \in 1..Len(ms) /\ s[i] = ms[b + i]
  <2>1. CASE b + 1 <= Len(ms)
    BY <2>1
  <2>2. CASE ~(b + 1 <= Len(ms))
    BY <2>2
  <2> QED
    BY <2>1, <2>2
<1> HIDE DEF S, s
<1>2. a \in Seq(S) /\ Taken(a, s, Len(s))
  BY <1>1, PickedIs DEF Alerts, s
<1>3. PICK h : Follows(a, s, Len(s), h)
  BY <1>2 DEF Taken
<1>4. /\ \A i \in 1..Len(a) : h[i] \in 1..Len(s) /\ a[i] = s[h[i]]
      /\ \A i, j \in 1..Len(a) : i < j => h[i] < h[j]
  BY <1>3 DEF Follows
<1> DEFINE g == [i \in 1..Len(a) |-> b + h[i]]
<1>5. ASSUME NEW i \in 1..Len(a) PROVE g[i] \in 1..Len(ms) /\ g[i] > b /\ a[i] = ms[g[i]]
  BY <1>1, <1>4
<1>6. ASSUME NEW i \in 1..Len(a), NEW j \in 1..Len(a), i < j PROVE g[i] < g[j]
  BY <1>1, <1>4, <1>6
<1> HIDE DEF g
<1> QED
  BY <1>2, <1>5, <1>6 DEF S, Behind

\* The poll ends: what lies behind the place where it began is told.
LEMMA PollEndKeeps ==
    ASSUME WhaleInv, NEW ch \in Chains, NEW priced \in BOOLEAN, PollEnd(ch, priced)
    PROVE  WhaleInv'
<1> DEFINE b == loop[ch].before
           W == WalletsOf(ch)
           ms == moves[ch]
           a == Alerts(Newer(ch), priced)
<1>1. /\ UNCHANGED <<day, chain, lastSeen, moves>> /\ b >= 0
      /\ loop' = [loop EXCEPT ![ch] = IdleLoop] /\ told' = told \o a
  BY DEF PollEnd
<1>2. WhaleTypes
  BY DEF WhaleInv
<1>3. ms \in Seq(MoveRows(W)) /\ W \subseteq EthWallets \cup BtcWallets
  BY <1>2 DEF WhaleTypes, WalletsOf, Chains
<1>4. b \in Nat
  BY <1>1, <1>2 DEF WhaleTypes
<1>5. Newer(ch) = SubSeq(ms, b + 1, Len(ms))
  BY DEF Newer
<1> HIDE DEF b, W, ms, a
<1>6. a \in Seq(MoveRows(W)) /\ Behind(a, ms, b)
  <2>1. a = Alerts(SubSeq(ms, b + 1, Len(ms)), priced)
    BY <1>5 DEF a
  <2> QED
    BY <1>3, <1>4, <2>1, AlertsAre, Zenon
<1>7. PICK g : /\ \A i \in 1..Len(a) : g[i] \in 1..Len(ms) /\ g[i] > b /\ a[i] = ms[g[i]]
               /\ \A i, j \in 1..Len(a) : i < j => g[i] < g[j]
  BY <1>6 DEF Behind
<1> DEFINE R == MoveRows(EthWallets \cup BtcWallets)
           n == Len(told)
<1>8. a \in Seq(R)
  <2>1. MoveRows(W) \subseteq R
    BY <1>3 DEF MoveRows
  <2> QED
    BY <1>6, <2>1, SeqWider
<1>9. told \in Seq(R) /\ n \in Nat /\ DOMAIN told = 1..n
  BY <1>2, MoveArrays DEF WhaleTypes
<1> HIDE DEF R
<1>10. /\ told' \in Seq(R) /\ DOMAIN told' = 1..(n + Len(a)) /\ Len(a) \in Nat
       /\ \A i \in 1..(n + Len(a)) : \/ i \in 1..n /\ told'[i] = told[i]
                                     \/ i - n \in 1..Len(a) /\ told'[i] = a[i - n]
  <2>1. told' \in Seq(R) /\ Len(told') = n + Len(a) /\ Len(a) \in Nat
    BY <1>1, <1>8, <1>9, ConcatProperties
  <2>2. \A i \in 1..(n + Len(a)) : told'[i] = IF i <= n THEN told[i] ELSE a[i - n]
    BY <1>1, <1>8, <1>9, ConcatProperties
  <2> QED
    BY <1>9, <2>1, <2>2
<1> HIDE DEF n
<1>11. loop' \in [Chains -> [todo : SUBSET (EthWallets \cup BtcWallets), before : Nat \cup {-1}]]
  BY <1>1, <1>2 DEF WhaleTypes, IdleLoop
<1>12. WhaleTypes'
  BY <1>1, <1>2, <1>10, <1>11 DEF WhaleTypes, R
<1>13. \A i \in 1..Len(a) : a[i].wallet \in W /\ a[i].tx \in Nat
  BY <1>6, MoveArrays
<1>14. SeenKnown'
  BY <1>1 DEF WhaleInv, SeenKnown, Concerning, Concerns
<1>15. DOMAIN ms = 1..Len(ms)
  BY <1>3, MoveArrays
<1>16. CASE ch = "ETH"
  <2>1. W = EthWallets /\ ms = moves["ETH"] /\ b = loop["ETH"].before
    BY <1>16 DEF W, ms, b, WalletsOf
  <2>2. \A i \in 1..Len(a) : Untold(a[i]) /\ a[i].tx <= lastSeen[a[i].wallet]
    BY <1>4, <1>7, <1>15, <2>1 DEF WhaleInv, Unheard, SeenLast
  <2>3. ASSUME NEW i \in 1..Len(a), NEW j \in 1..Len(a), i # j, a[i].wallet = a[j].wallet
        PROVE  a[i].tx # a[j].tx
    <3>1. g[i] \in 1..Len(ms) /\ g[j] \in 1..Len(ms) /\ a[i] = ms[g[i]] /\ a[j] = ms[g[j]]
      BY <1>7
    <3>2. g[i] # g[j]
      <4>1. i < j \/ j < i
        BY <1>10, <2>3
      <4>2. g[i] < g[j] \/ g[j] < g[i]
        BY <1>7, <4>1
      <4> QED
        BY <3>1, <4>2
    <3> QED
      BY <1>15, <2>1, <2>3, <3>1, <3>2 DEF WhaleInv, EthOnce
  <2>4. SeenLast'
    <3>1. ASSUME NEW i \in DOMAIN told', On("ETH", told'[i]) PROVE told'[i].tx <= lastSeen[told'[i].wallet]
      <4>1. CASE i \in 1..n /\ told'[i] = told[i]
        BY <1>9, <3>1, <4>1 DEF WhaleInv, SeenLast, On
      <4>2. CASE i - n \in 1..Len(a) /\ told'[i] = a[i - n]
        BY <2>2, <4>2
      <4> QED
        BY <1>10, <3>1, <4>1, <4>2
    <3> QED
      BY <1>1, <3>1 DEF WhaleInv, SeenLast, On, WalletsOf
  <2>5. EthOnce'
    <3>1. ASSUME NEW i \in DOMAIN told', NEW j \in DOMAIN told', i # j, On("ETH", told'[i]),
                 told'[i].wallet = told'[j].wallet
          PROVE  told'[i].tx # told'[j].tx
      <4>1. CASE i \in 1..n /\ told'[i] = told[i] /\ j \in 1..n /\ told'[j] = told[j]
        BY <1>9, <3>1, <4>1 DEF WhaleInv, EthOnce, On
      <4>2. CASE i \in 1..n /\ told'[i] = told[i] /\ j - n \in 1..Len(a) /\ told'[j] = a[j - n]
        BY <1>9, <2>2, <3>1, <4>2 DEF Untold
      <4>3. CASE i - n \in 1..Len(a) /\ told'[i] = a[i - n] /\ j \in 1..n /\ told'[j] = told[j]
        BY <1>9, <2>2, <3>1, <4>3 DEF Untold
      <4>4. CASE i - n \in 1..Len(a) /\ told'[i] = a[i - n] /\ j - n \in 1..Len(a) /\ told'[j] = a[j - n]
        <5>1. i - n # j - n
          BY <1>9, <1>10, <3>1
        <5>2. a[i - n].wallet = a[j - n].wallet
          BY <3>1, <4>4
        <5> QED
          BY <2>3, <4>4, <5>1, <5>2, Zenon
      <4> QED
        BY <1>10, <3>1, <4>1, <4>2, <4>3, <4>4
    <3>2. \A m : On("ETH", m)' <=> On("ETH", m)
      BY DEF On, WalletsOf
    <3> QED
      BY <1>1, <3>1, <3>2 DEF WhaleInv, EthOnce
  <2>6. Unheard(moves["ETH"], loop["ETH"].before)'
    <3>1. loop'["ETH"].before = -1
      BY <1>1, <1>2, <1>16 DEF WhaleTypes, IdleLoop
    <3> QED
      BY <3>1 DEF Unheard
  <2> QED
    BY <1>12, <1>14, <2>4, <2>5, <2>6 DEF WhaleInv
<1>17. CASE ch = "BTC"
  <2>1. \A i \in 1..Len(a) : a[i].wallet \notin EthWallets
    BY <1>13, <1>17, WalletsAssumption DEF W, WalletsOf
  <2>2. SeenLast'
    <3>1. ASSUME NEW i \in DOMAIN told', On("ETH", told'[i]) PROVE told'[i].tx <= lastSeen[told'[i].wallet]
      <4>1. CASE i \in 1..n /\ told'[i] = told[i]
        BY <1>9, <3>1, <4>1 DEF WhaleInv, SeenLast, On
      <4>2. CASE i - n \in 1..Len(a) /\ told'[i] = a[i - n]
        BY <2>1, <3>1, <4>2 DEF On, WalletsOf
      <4> QED
        BY <1>10, <3>1, <4>1, <4>2
    <3> QED
      BY <1>1, <3>1 DEF WhaleInv, SeenLast, On, WalletsOf
  <2>3. EthOnce'
    <3>1. ASSUME NEW i \in DOMAIN told', NEW j \in DOMAIN told', i # j, On("ETH", told'[i]),
                 told'[i].wallet = told'[j].wallet
          PROVE  told'[i].tx # told'[j].tx
      <4>1. told'[i].wallet \in EthWallets
        BY <3>1 DEF On, WalletsOf
      <4>2. i \in 1..n /\ told'[i] = told[i] /\ j \in 1..n /\ told'[j] = told[j]
        BY <1>10, <2>1, <3>1, <4>1
      <4> QED
        BY <1>9, <3>1, <4>2 DEF WhaleInv, EthOnce, On
    <3>2. \A m : On("ETH", m)' <=> On("ETH", m)
      BY DEF On, WalletsOf
    <3> QED
      BY <1>1, <3>1, <3>2 DEF WhaleInv, EthOnce
  <2>4. Unheard(moves["ETH"], loop["ETH"].before)'
    <3>1. loop'["ETH"].before = loop["ETH"].before
      BY <1>1, <1>2, <1>17 DEF WhaleTypes, Chains
    <3> SUFFICES ASSUME loop["ETH"].before >= 0, NEW k \in DOMAIN moves["ETH"], k > loop["ETH"].before,
                        NEW i \in DOMAIN told', told'[i].wallet = moves["ETH"][k].wallet
                 PROVE  told'[i].tx # moves["ETH"][k].tx
      BY <1>1, <3>1 DEF Unheard, Untold
    <3>2. moves["ETH"][k].wallet \in EthWallets
      BY <1>2, MoveArrays DEF WhaleTypes
    <3>3. i \in 1..n /\ told'[i] = told[i]
      BY <1>10, <2>1, <3>2
    <3> QED
      BY <1>9, <3>3 DEF WhaleInv, Unheard, Untold
  <2> QED
    BY <1>12, <1>14, <2>2, <2>3, <2>4 DEF WhaleInv
<1> QED
  BY <1>16, <1>17 DEF Chains

LEMMA WhaleStart == WhaleInit => WhaleInv
<1> SUFFICES ASSUME WhaleInit PROVE WhaleInv
  OBVIOUS
<1>1. \A S : <<>> \in Seq(S)
  BY EmptySeq
<1>2. WhaleTypes
  BY <1>1 DEF WhaleInit, WhaleTypes, Chains, IdleLoop
<1>3. moves["ETH"] = <<>> /\ told = <<>> /\ lastSeen = [w \in EthWallets \cup BtcWallets |-> 0]
  BY DEF WhaleInit, Chains
<1>4. DOMAIN moves["ETH"] = {} /\ DOMAIN told = {}
  BY <1>3
<1> QED
  BY <1>2, <1>3, <1>4 DEF WhaleInv, SeenKnown, SeenLast, Unheard, EthOnce

LEMMA WhaleStep == WhaleInv /\ [WhaleNext]_whaleVars => WhaleInv'
<1> SUFFICES ASSUME WhaleInv, [WhaleNext]_whaleVars PROVE WhaleInv'
  OBVIOUS
<1>0. WhaleTypes /\ "ETH" \in Chains /\ "BTC" \in Chains
  BY DEF WhaleInv, Chains
<1>1. CASE UNCHANGED whaleVars
  <2>1. UNCHANGED <<day, chain, lastSeen, moves, loop, told>>
    BY <1>1 DEF whaleVars
  <2>2. WhaleTypes'
    BY <1>0, <2>1 DEF WhaleTypes
  <2>3. \A v \in EthWallets : Concerning(v)' = Concerning(v)
    BY <2>1 DEF Concerning, Concerns
  <2> QED
    BY <2>1, <2>2, <2>3, EthKept
<1>2. ASSUME NEW ch \in Chains, TxHappens(ch) PROVE WhaleInv'
  <2>1. PICK kind \in KindsOf(ch) :
            chain' = [chain EXCEPT ![ch] = Append(@, [kind |-> kind, day |-> day, confirmed |-> ch = "ETH"])]
    BY <1>2 DEF TxHappens
  <2> DEFINE tx == [kind |-> kind, day |-> day, confirmed |-> ch = "ETH"]
  <2>2. UNCHANGED <<day, lastSeen, moves, loop, told>>
    BY <1>2 DEF TxHappens
  <2>3. tx \in TxRows
    BY <1>0 DEF WhaleTypes, TxRows, KindsOf
  <2> HIDE DEF tx
  <2>4. chain \in [Chains -> Seq(TxRows)] /\ chain' = [chain EXCEPT ![ch] = Append(chain[ch], tx)]
    BY <1>0, <2>1 DEF WhaleTypes, tx
  <2>5. Append(chain[ch], tx) \in Seq(TxRows)
    BY <1>2, <2>3, <2>4
  <2>6. WhaleTypes'
    BY <1>0, <2>2, <2>4, <2>5 DEF WhaleTypes
  <2>7. ASSUME NEW i \in DOMAIN chain["ETH"] PROVE i \in DOMAIN chain'["ETH"] /\ chain'["ETH"][i] = chain["ETH"][i]
    <3>1. CASE ch = "ETH"
      <4>1. chain["ETH"] \in Seq(TxRows) /\ chain'["ETH"] = Append(chain["ETH"], tx)
        BY <1>0, <2>4, <3>1
      <4> QED
        BY <4>1
    <3>2. CASE ch # "ETH"
      BY <1>0, <2>4, <3>2
    <3> QED
      BY <3>1, <3>2
  <2>8. \A v \in EthWallets : Concerning(v) \subseteq Concerning(v)'
    BY <2>7 DEF Concerning, Concerns
  <2> QED
    BY <2>2, <2>6, <2>8, EthKept
<1>3. CASE TxConfirmed
  <2>1. PICK i \in DOMAIN chain["BTC"] : chain' = [chain EXCEPT !["BTC"][i].confirmed = TRUE]
    BY <1>3 DEF TxConfirmed
  <2>2. UNCHANGED <<day, lastSeen, moves, loop, told>>
    BY <1>3 DEF TxConfirmed
  <2> DEFINE btc == [chain["BTC"] EXCEPT ![i] = [chain["BTC"][i] EXCEPT !.confirmed = TRUE]]
  <2>3. chain \in [Chains -> Seq(TxRows)] /\ chain["BTC"] \in Seq(TxRows)
    BY <1>0 DEF WhaleTypes
  <2>4. chain' = [chain EXCEPT !["BTC"] = btc]
    BY <2>1, <2>3, <1>0
  <2>5. chain["BTC"][i] \in TxRows
    BY <1>0, ChainArrays
  <2>6. [chain["BTC"][i] EXCEPT !.confirmed = TRUE] \in TxRows
    BY <2>5 DEF TxRows
  <2>7. btc \in Seq(TxRows)
    BY <2>3, <2>6
  <2> HIDE DEF btc
  <2>8. chain' \in [Chains -> Seq(TxRows)] /\ chain'["ETH"] = chain["ETH"]
    BY <1>0, <2>3, <2>4, <2>7
  <2>9. WhaleTypes'
    BY <1>0, <2>2, <2>8 DEF WhaleTypes
  <2>10. \A v \in EthWallets : Concerning(v) = Concerning(v)'
    BY <2>8 DEF Concerning, Concerns
  <2> QED
    BY <2>2, <2>9, <2>10, EthKept
<1>4. CASE DayPasses
  <2>1. day' = day + 1 /\ UNCHANGED <<chain, lastSeen, moves, loop, told>>
    BY <1>4 DEF DayPasses
  <2>2. WhaleTypes'
    <3>1. day' \in Nat
      BY <1>0, <2>1 DEF WhaleTypes
    <3> QED
      BY <1>0, <2>1, <3>1, Zenon DEF WhaleTypes
  <2>3. \A v \in EthWallets : Concerning(v)' = Concerning(v)
    BY <2>1 DEF Concerning, Concerns
  <2> QED
    BY <2>1, <2>2, <2>3, EthKept
<1>5. ASSUME NEW ch \in Chains, NEW w, CheckFails(ch, w) PROVE WhaleInv'
  <2>1. loop' = [loop EXCEPT ![ch].todo = @ \ {w}] /\ UNCHANGED <<day, chain, lastSeen, moves, told>>
    BY <1>5 DEF CheckFails
  <2>2. /\ loop' \in [Chains -> [todo : SUBSET (EthWallets \cup BtcWallets), before : Nat \cup {-1}]]
        /\ loop'["ETH"].before = loop["ETH"].before
    BY <1>0, <1>5, <2>1 DEF WhaleTypes
  <2>3. WhaleTypes'
    BY <1>0, <2>1, <2>2 DEF WhaleTypes
  <2>4. \A v \in EthWallets : Concerning(v)' = Concerning(v)
    BY <2>1 DEF Concerning, Concerns
  <2> QED
    BY <2>1, <2>2, <2>3, <2>4, EthKept
<1> QED
  BY <1>0, <1>1, <1>2, <1>3, <1>4, <1>5, PollStartKeeps, PollEndKeeps, CheckEthKeeps, CheckBtcKeeps
     DEF WhaleNext

-----------------------------------------------------------------------------
\* An event is told once: a wallet's transaction on Ethereum
\* (etherscan_client.py), a fall of open interest (oi_flush_detector.py), and an
\* edge alert, to which a trade is linked by one rule (signal_scanner.py,
\* topdown_reconcile.py).
THEOREM ToldOnce == Spec => []EventsOnce
<1> DEFINE Inv == WhaleInv /\ FlushInv /\ ScanInv
<1>1. Init => Inv
  <2> SUFFICES ASSUME Init PROVE Inv
    OBVIOUS
  <2>1. WhaleInv
    BY WhaleStart DEF Init
  <2>2. FlushInv
    <3>1. snaps = <<>> /\ events = {} /\ polled = {}
      BY DEF Init, IndicatorsInit
    <3>2. snaps \in Seq(Snapshots) /\ DOMAIN snaps = {}
      BY <3>1, EmptySeq
    <3> QED
      BY <3>1, <3>2 DEF FlushInv, FlushesDisjoint
  <2>3. ScanInv
    <3>1. clock = 1 /\ alerts = <<>> /\ heard = {} /\ trades = <<>>
      BY DEF Init, ScannerInit
    <3>2. /\ alerts \in Seq(AlertRows) /\ trades \in Seq(TradeRows)
          /\ DOMAIN alerts = {} /\ DOMAIN trades = {}
      BY <3>1, EmptySeq
    <3> QED
      BY <3>1, <3>2 DEF ScanInv, AlertsApart, Booked
  <2> QED
    BY <2>1, <2>2, <2>3
<1>2. Inv /\ [Next]_vars => Inv'
  <2> SUFFICES ASSUME Inv, [Next]_vars PROVE Inv'
    OBVIOUS
  <2>1. [WhaleNext]_whaleVars /\ [IndicatorsNext]_indVars /\ [ScannerNext]_scannerVars
    BY DEF Next, vars, Idles
  <2> QED
    BY <2>1, WhaleStep, FlushStep, ScanStep
<1>3. Inv => EventsOnce
  BY LinksAre DEF WhaleInv, FlushInv, ScanInv, EventsOnce
<1> QED
  BY <1>1, <1>2, <1>3, PTL DEF Spec

-----------------------------------------------------------------------------
(* Divisions, products, and sequences of anything.                          *)

\* Rounding down loses.
LEMMA DivLe ==
    ASSUME NEW a \in Nat, NEW b \in Nat \ {0}
    PROVE  a \div b \in Nat /\ (a \div b) * b <= a
  OBVIOUS

LEMMA TimesLe ==
    ASSUME NEW a \in Nat, NEW b \in Nat, NEW c \in Nat, a <= b
    PROVE  a * c <= b * c /\ a * c \in Nat /\ b * c \in Nat
  OBVIOUS

\* A sequence, whatever it holds.
ASequence(s) == \E S : s \in Seq(S)

LEMMA SeqAppended ==
    ASSUME NEW s, ASequence(s), NEW e
    PROVE  /\ ASequence(Append(s, e)) /\ Len(s) \in Nat /\ DOMAIN s = 1..Len(s)
           /\ Len(Append(s, e)) = Len(s) + 1 /\ DOMAIN Append(s, e) = 1..(Len(s) + 1)
           /\ \A i \in 1..Len(s) : Append(s, e)[i] = s[i]
           /\ Append(s, e)[Len(s) + 1] = e
<1>1. PICK S : s \in Seq(S)
  BY DEF ASequence
<1> DEFINE T == S \cup {e}
<1>2. e \in T /\ S \subseteq T
  OBVIOUS
<1> HIDE DEF T
<1>3. s \in Seq(T)
  BY <1>1, <1>2, SeqWider
<1>4. Append(s, e) \in Seq(T)
  BY <1>2, <1>3
<1> QED
  BY <1>2, <1>3, <1>4 DEF ASequence

-----------------------------------------------------------------------------
(* The position sizer.  The capital it sizes by is a number, and what it     *)
(* grants is within the caps on it.                                          *)

\* The amount is within what may be lost and within the leverage.
SizeIsSane(s, capital, loss, amount) ==
    /\ amount \in Nat /\ amount * (10000 * Gap(s)) <= loss * SizeScale
    /\ amount * s.entry <= LeverageCap * capital * SizeScale

LEMMA SizedIs ==
    ASSUME NEW s \in SizingSetups, NEW capital \in Nat \ {0}, NEW loss \in Nat, Gap(s) > 0
    PROVE  SizeIsSane(s, capital, loss, Sized(s, capital, loss))
<1> DEFINE g == 10000 * Gap(s)
           a == loss * SizeScale
           l == LeverageCap * capital * SizeScale
<1>1. s.entry \in Nat \ {0} /\ Gap(s) \in Nat /\ SizeScale \in Nat /\ LeverageCap \in Nat
  BY CapsAssumption, AccountAssumption DEF Gap
<1>2. g \in Nat \ {0} /\ a \in Nat
  BY <1>1
<1>3. l \in Nat
  BY <1>1
<1>4. Sized(s, capital, loss) = Least(a \div g, l \div s.entry)
  BY DEF Sized
<1> HIDE DEF g, a, l
<1>5. /\ a \div g \in Nat /\ (a \div g) * g <= a
      /\ l \div s.entry \in Nat /\ (l \div s.entry) * s.entry <= l
  BY <1>1, <1>2, <1>3, DivLe
<1> DEFINE x == a \div g
           y == l \div s.entry
           z == Least(x, y)
<1> HIDE DEF x, y
<1>6. z \in Nat /\ z <= x /\ z <= y
  BY <1>5 DEF Least, x, y
<1> HIDE DEF z
<1>7. z * g <= x * g /\ z * s.entry <= y * s.entry
  BY <1>1, <1>2, <1>5, <1>6, TimesLe DEF x, y
<1>8. z * g \in Nat /\ x * g \in Nat /\ z * s.entry \in Nat /\ y * s.entry \in Nat
  BY <1>1, <1>2, <1>5, <1>6 DEF x, y
<1>9. z * g <= a /\ z * s.entry <= l
  BY <1>2, <1>3, <1>5, <1>7, <1>8 DEF x, y
<1> QED
  BY <1>4, <1>6, <1>9 DEF SizeIsSane, g, a, l, x, y, z

LEMMA BetIs ==
    ASSUME NEW confidence \in Confidences
    PROVE  BetFactor(confidence) \in 0..100
<1> DEFINE x == 2 * confidence - 100
           k == Kelly * x
<1>1. confidence \in 0..100 /\ Kelly \in 0..100 /\ BetMin \in 0..100 /\ BetMax \in Nat /\ x \in Int /\ x <= 100
  BY BetAssumption
<1> HIDE DEF x
<1>2. k \in Int /\ k <= 10000
  <2>1. CASE x < 0
    <3>1. Kelly * x <= 0
      BY <1>1, <2>1
    <3> QED
      BY <1>1, <3>1
  <2>2. CASE x >= 0
    <3>1. Kelly * x <= 100 * x
      BY <1>1, <2>2, TimesLe
    <3> QED
      BY <1>1, <2>2, <3>1
  <2> QED
    BY <1>1, <2>1, <2>2
<1> HIDE DEF k
<1>3. k \div 100 \in Int /\ k \div 100 <= 100
  BY <1>2
<1>4. BetFactor(confidence) = IF confidence = 100 THEN 100 ELSE Most(BetMin, Least(k \div 100, BetMax))
  BY DEF BetFactor, k, x
<1> QED
  BY <1>1, <1>3, <1>4 DEF Most, Least

\* An approval risks no more than the caps allow.
LEMMA VerdictBounded ==
    ASSUME NEW s \in SizingSetups, NEW capital \in Int, NEW confidence \in Confidences, NEW fixed \in FixedRisks,
           NEW positions, NEW v, v = Verdict(s, capital, positions, confidence, fixed), v.approved
    PROVE  /\ v.size * v.gap * 10000 <= MarginCap * v.capital * SizeScale
           /\ v.size * v.entry <= LeverageCap * v.capital * SizeScale
<1> DEFINE amount == SizeFor(s, capital, confidence, fixed)
           asked == Asked(capital, fixed)
           bet == BetFactor(confidence)
           g == Gap(s)
           e == s.entry
           m == MarginCap
           z == SizeScale
           cap == capital * m
           l == LeverageCap * capital * z
           full == Sized(s, capital, asked)
<1>1. /\ capital > 0 /\ g > 0
      /\ v.size = amount /\ v.gap = g /\ v.entry = e /\ v.capital = capital
  BY DEF Verdict, NoGrant, Structural
<1>2. /\ capital \in Nat \ {0} /\ g \in Nat \ {0} /\ e \in Nat \ {0} /\ m \in Nat \ {0} /\ z \in Nat \ {0}
      /\ LeverageCap \in Nat
  BY <1>1, CapsAssumption, AccountAssumption DEF Gap
<1>3. asked \in Nat \ {0} /\ asked \in Nat
  BY <1>2, CapsAssumption, AccountAssumption DEF Asked
<1>4. bet \in 0..100
  BY BetIs
<1>5. cap \in Nat /\ l \in Nat
  BY <1>2
<1>6. amount = IF asked * bet > cap * 100 THEN Sized(s, capital, cap) ELSE (full * bet) \div 100
  <2> HIDE DEF asked, bet
  <2>1. amount = IF asked * bet > capital * MarginCap * 100 THEN Sized(s, capital, capital * MarginCap)
               ELSE ((IF asked > 0 THEN full ELSE (FixedMargin * LeverageCap * SizeScale) \div s.entry) * bet) \div 100
    BY DEF SizeFor, asked, bet
  <2> QED
    BY <1>3, <2>1
<1>7. full \in Nat /\ full * (10000 * g) <= asked * z /\ full * e <= l
  <2>1. Gap(s) > 0 /\ capital \in Nat \ {0}
    BY <1>1, <1>2
  <2> HIDE DEF asked
  <2>2. SizeIsSane(s, capital, asked, Sized(s, capital, asked))
    BY <1>3, <2>1, SizedIs
  <2> QED
    BY <2>2 DEF SizeIsSane
<1>8. Sized(s, capital, cap) \in Nat /\ Sized(s, capital, cap) * (10000 * g) <= cap * z
      /\ Sized(s, capital, cap) * e <= l
  <2>1. Gap(s) > 0 /\ capital \in Nat \ {0}
    BY <1>1, <1>2
  <2> HIDE DEF cap
  <2>2. SizeIsSane(s, capital, cap, Sized(s, capital, cap))
    BY <1>5, <2>1, SizedIs
  <2> QED
    BY <2>2 DEF SizeIsSane
<1> HIDE DEF amount, asked, bet, g, e, m, z, full
<1>9. amount \in Nat /\ amount * (10000 * g) <= cap * z /\ amount * e <= l
  <2>1. CASE asked * bet > cap * 100
    BY <1>6, <1>8, <2>1
  <2>2. CASE ~(asked * bet > cap * 100)
    <3> DEFINE fb == full * bet
    <3>1. fb \in Nat /\ amount = fb \div 100
      BY <1>4, <1>6, <1>7, <2>2
    <3> HIDE DEF fb
    <3>2. amount \in Nat /\ amount * 100 <= fb
      BY <3>1
    <3>3. asked * bet \in Nat /\ asked * bet <= cap * 100
      BY <1>3, <1>4, <1>5, <2>2
    <3> DEFINE w == 10000 * g
    <3>4. w \in Nat
      BY <1>2
    <3> HIDE DEF w, cap
    <3>5. (full * w) * bet <= (asked * z) * bet
      BY <1>2, <1>3, <1>4, <1>7, <3>4, TimesLe DEF w
    <3>6. (asked * bet) * z <= (cap * 100) * z
      BY <1>2, <1>5, <3>3, TimesLe
    <3>7. (amount * 100) * w <= fb * w
      BY <3>1, <3>2, <3>4, TimesLe
    <3>8. fb * w = (full * w) * bet
      BY <1>4, <1>7, <3>4 DEF fb
    <3>9. (asked * z) * bet = (asked * bet) * z
      BY <1>2, <1>3, <1>4
    <3>10. (amount * 100) * w = (amount * w) * 100 /\ (cap * 100) * z = (cap * z) * 100
      BY <1>2, <1>5, <3>2, <3>4
    <3>11. amount * w \in Nat /\ cap * z \in Nat
      BY <1>2, <1>5, <3>2, <3>4
    <3>12. /\ (full * w) * bet \in Nat /\ (asked * bet) * z \in Nat /\ fb * w \in Nat
      BY <1>2, <1>4, <1>7, <3>1, <3>3, <3>4
    <3>13. (amount * w) * 100 <= (cap * z) * 100
      BY <3>5, <3>6, <3>7, <3>8, <3>9, <3>10, <3>11, <3>12
    <3>14. amount * w <= cap * z
      BY <3>11, <3>13
    <3>15. amount <= full
      <4>1. bet * full <= 100 * full
        BY <1>4, <1>7, TimesLe
      <4>2. fb <= 100 * full
        BY <1>4, <1>7, <4>1 DEF fb
      <4> QED
        BY <1>7, <3>1, <3>2, <4>2
    <3>16. amount * e <= full * e
      BY <1>2, <1>7, <3>2, <3>15, TimesLe
    <3>17. amount * e \in Nat /\ full * e \in Nat
      BY <1>2, <1>7, <3>2
    <3> QED
      BY <1>5, <1>7, <3>2, <3>14, <3>16, <3>17 DEF w
  <2> QED
    BY <2>1, <2>2
<1>10. amount * g * 10000 = amount * (10000 * g) /\ m * capital * z = cap * z
  BY <1>2, <1>9
<1> QED
  BY <1>1, <1>9, <1>10 DEF m, z, g, e, amount

HasCapital(a) == "capital" \in DOMAIN a /\ a.capital \in Int
SizeInv ==
    /\ wallet \in Int /\ HasCapital(account) /\ cached.value \in Int
    /\ ApprovalsBounded

LEMMA CapitalIs ==
    ASSUME SizeInv, NEW answer \in Int, LiveCapital(answer) # {}
    PROVE  (CHOOSE c \in LiveCapital(answer) : TRUE) \in Int
<1>1. \E x \in Int : LiveCapital(answer) = {x}
  BY DEF SizeInv, HasCapital, LiveCapital
<1> QED
  BY <1>1

LEMMA SizingStep == SizeInv /\ [SizingNext]_sizingVars => SizeInv'
<1> SUFFICES ASSUME SizeInv, [SizingNext]_sizingVars PROVE SizeInv'
  OBVIOUS
<1>1. CASE UNCHANGED sizingVars
  BY <1>1 DEF SizeInv, ApprovalsBounded, sizingVars
<1>2. CASE CheckLive
  <2> PICK s \in SizingSetups, confidence \in Confidences, fixed \in FixedRisks, answer \in {wallet, 0} :
         IF ~Structural(s) \/ ~AccountAllows THEN UNCHANGED <<account, cached, granted>>
         ELSE /\ cached' = IF Cached THEN cached ELSE Fetched(answer)
              /\ account' = IF Cached THEN [account EXCEPT !.capital = cached.value]
                            ELSE IF answer > 0 THEN [account EXCEPT !.capital = answer] ELSE account
              /\ granted' = IF LiveCapital(answer) = {} THEN NoGrant
                            ELSE Verdict(s, CHOOSE c \in LiveCapital(answer) : TRUE, held, confidence, fixed)
    BY <1>2 DEF CheckLive
  <2>1. answer \in Int /\ UNCHANGED wallet
    BY <1>2 DEF CheckLive, SizeInv
  <2>2. CASE ~Structural(s) \/ ~AccountAllows
    BY <2>1, <2>2 DEF SizeInv, ApprovalsBounded
  <2>3. CASE ~(~Structural(s) \/ ~AccountAllows)
    <3>1. cached'.value \in Int
      <4>1. cached' = cached \/ cached' = [value |-> answer, at |-> now, ever |-> TRUE]
        BY <2>3 DEF Fetched
      <4> QED
        BY <2>1, <4>1 DEF SizeInv
    <3>2. HasCapital(account')
      BY <2>1, <2>3 DEF SizeInv, HasCapital
    <3>3. ApprovalsBounded'
      <4>1. CASE LiveCapital(answer) = {}
        BY <2>3, <4>1 DEF ApprovalsBounded, NoGrant
      <4>2. CASE LiveCapital(answer) # {}
        <5> DEFINE c == CHOOSE x \in LiveCapital(answer) : TRUE
        <5>1. c \in Int
          BY <2>1, <4>2, CapitalIs
        <5>2. granted' = Verdict(s, c, held, confidence, fixed)
          BY <2>3, <4>2
        <5> HIDE DEF c
        <5>3. SUFFICES ASSUME granted'.approved
                       PROVE  /\ granted'.size * granted'.gap * 10000 <= MarginCap * granted'.capital * SizeScale
                              /\ granted'.size * granted'.entry <= LeverageCap * granted'.capital * SizeScale
          BY DEF ApprovalsBounded
        <5> QED
          BY <5>1, <5>2, <5>3, VerdictBounded
      <4> QED
        BY <4>1, <4>2
    <3> QED
      BY <2>1, <3>1, <3>2, <3>3 DEF SizeInv
  <2> QED
    BY <2>2, <2>3
<1>3. CASE CheckShadow
  BY <1>3 DEF CheckShadow, SizeInv, ApprovalsBounded
<1>4. CASE OrderPlaced
  BY <1>4 DEF OrderPlaced, SizeInv, ApprovalsBounded, NoGrant
<1>5. CASE Ended
  <2> PICK i \in DOMAIN held, lost \in BOOLEAN, funds \in Balances, answers \in BOOLEAN :
         /\ wallet' = funds
         /\ cached' = Fetched(IF answers THEN funds ELSE 0)
         /\ account' = [account EXCEPT !.trades = @ + 1,
                          !.day  = @ + (IF lost THEN LossPct ELSE 0),
                          !.week = @ + (IF lost THEN LossPct ELSE 0),
                          !.loss = IF lost THEN now ELSE @,
                          !.capital = IF answers /\ funds > 0 THEN funds ELSE @]
    BY <1>5 DEF Ended
  <2>1. funds \in Int /\ UNCHANGED granted
    BY <1>5, AccountAssumption DEF Ended
  <2>2. cached'.value \in Int
    <3>1. Fetched(0) = cached /\ Fetched(funds) \in {cached, [value |-> funds, at |-> now, ever |-> TRUE]}
      BY DEF Fetched
    <3>2. cached' \in {Fetched(0), Fetched(funds)}
      OBVIOUS
    <3> QED
      BY <2>1, <3>1, <3>2 DEF SizeInv
  <2>3. HasCapital(account')
    BY <2>1 DEF SizeInv, HasCapital
  <2> QED
    BY <2>1, <2>2, <2>3 DEF SizeInv, ApprovalsBounded
<1>6. CASE Cancelled
  BY <1>6 DEF Cancelled, SizeInv, ApprovalsBounded
<1>7. CASE Passes
  <2>1. HasCapital(account')
    BY <1>7 DEF Passes, SizeInv, HasCapital
  <2> QED
    BY <1>7, <2>1 DEF Passes, SizeInv, ApprovalsBounded
<1> QED
  BY <1>1, <1>2, <1>3, <1>4, <1>5, <1>6, <1>7 DEF SizingNext

LEMMA SizingStart == SizingInit => SizeInv
  BY AccountAssumption DEF SizingInit, SizeInv, HasCapital, ApprovalsBounded, NoGrant

-----------------------------------------------------------------------------
(* The campaign backtest.  One order or one campaign at a time, whose key no *)
(* lost campaign has had.                                                    *)

HtfFields == {"dir", "entry", "sl", "stop", "mean", "size", "adds", "add", "deadline", "filledAt"}

\* A campaign, pending or active.
Sane(k) ==
    /\ HtfFields \subseteq DOMAIN k
    /\ k.adds \in Nat /\ IsFiniteSet(k.add) /\ k.adds + Cardinality(k.add) <= HtfMaxAdds
    /\ k.sl \in Int /\ k.stop \in Int /\ ~Htf!Ahead(k, k.sl, k.stop)

HtfInvOf(b) ==
    /\ b.order = {} \/ b.camp = {}
    /\ \A k, l \in b.order \cup b.camp : k = l
    /\ \A k \in b.order \cup b.camp : Sane(k) /\ Htf!Key(k) \notin b.failed
    /\ ASequence(b.ended)
    /\ \A i \in DOMAIN b.ended : b.ended[i].pnl < 0 => b.ended[i].key \in b.failed
    /\ DOMAIN b = {"order", "camp", "ended", "failed"}

\* A new campaign starts sane.
LEMMA CampaignNew ==
    ASSUME NEW b, HtfInvOf(b), NEW plan \in HtfPlans
    PROVE  HtfInvOf(Htf!NewCampaign(b, plan))
<1> DEFINE n == Htf!NewCampaign(b, plan)
<1>1. CASE n = b
  BY <1>1
<1>2. CASE n # b
  <2>1. b.order = {} /\ b.camp = {} /\ Htf!Key(plan) \notin b.failed
    BY <1>2 DEF Htf!NewCampaign
  <2>2. PICK k : /\ n = [b EXCEPT !.order = {k}] /\ HtfFields \subseteq DOMAIN k
                 /\ k.dir = plan.dir /\ k.entry = plan.entry /\ k.sl = plan.sl /\ k.stop = plan.sl
                 /\ k.adds = 0 /\ k.add = {}
    <3> DEFINE amount == (HtfMargin * HtfLeverage) \div plan.entry
               k == [dir |-> plan.dir, entry |-> plan.entry, sl |-> plan.sl, stop |-> plan.sl,
                     mean |-> plan.entry, size |-> amount, adds |-> 0, add |-> {},
                     deadline |-> htfAt + HtfInitialTime, filledAt |-> -1]
    <3>1. n = [b EXCEPT !.order = {k}]
      BY <1>2 DEF Htf!NewCampaign
    <3>2. /\ HtfFields \subseteq DOMAIN k
          /\ k.dir = plan.dir /\ k.entry = plan.entry /\ k.sl = plan.sl /\ k.stop = plan.sl
          /\ k.adds = 0 /\ k.add = {}
      <4> HIDE DEF amount
      <4> QED
        BY DEF HtfFields
    <3> HIDE DEF k, n
    <3> QED
      BY <3>1, <3>2
  <2>3. Sane(k)
    BY <2>2, HtfAssumption, FS_EmptySet DEF Sane, Htf!Ahead
  <2>4. Htf!Key(k) = Htf!Key(plan)
    BY <2>2 DEF Htf!Key
  <2> HIDE DEF n
  <2>5. n.order = {k} /\ n.camp = {} /\ n.failed = b.failed /\ n.ended = b.ended /\ DOMAIN n = {"order", "camp", "ended", "failed"}
    BY <2>1, <2>2 DEF HtfInvOf
  <2> QED
    <3>1. n.order \cup n.camp = {k}
      BY <2>5
    <3>2. Htf!Key(k) \notin n.failed
      BY <2>1, <2>4, <2>5
    <3>3. HtfInvOf(n)
      BY <2>3, <2>5, <3>1, <3>2 DEF HtfInvOf
    <3> QED
      BY <3>3 DEF n
<1> QED
  BY <1>1, <1>2

\* A campaign that changes and stays sane.
LEMMA CampSet ==
    ASSUME NEW b, HtfInvOf(b), NEW k \in b.order \cup b.camp, NEW l, Sane(l), Htf!Key(l) = Htf!Key(k),
           NEW n, n = [b EXCEPT !.camp = {l}] \/ n = [b EXCEPT !.order = {}, !.camp = {l}],
           b.order = {} \/ n.order = {}
    PROVE  HtfInvOf(n)
<1>1. /\ n.order = {} /\ n.camp = {l} /\ n.failed = b.failed /\ n.ended = b.ended
      /\ DOMAIN n = {"order", "camp", "ended", "failed"}
  BY DEF HtfInvOf
<1>2. n.order \cup n.camp = {l}
  BY <1>1
<1>3. Htf!Key(l) \notin n.failed
  BY <1>1 DEF HtfInvOf
<1> QED
  BY <1>1, <1>2, <1>3 DEF HtfInvOf

\* A campaign that ends.
LEMMA CampEnds ==
    ASSUME NEW b, HtfInvOf(b), NEW e, NEW more, e.pnl < 0 => e.key \in more,
           NEW n, n.order = {}, n.camp = {}, n.failed = b.failed \cup more, n.ended = Append(b.ended, e),
           DOMAIN n = {"order", "camp", "ended", "failed"}
    PROVE  HtfInvOf(n)
<1> DEFINE was == b.ended
           is  == Append(was, e)
<1>1. ASequence(was) /\ \A i \in DOMAIN was : was[i].pnl < 0 => was[i].key \in b.failed
  BY DEF HtfInvOf
<1> HIDE DEF was
<1>2. /\ ASequence(is) /\ Len(was) \in Nat /\ DOMAIN was = 1..Len(was)
      /\ DOMAIN is = 1..(Len(was) + 1)
      /\ \A i \in 1..Len(was) : is[i] = was[i]
      /\ is[Len(was) + 1] = e
  BY <1>1, SeqAppended
<1> HIDE DEF is
<1>3. \A i \in DOMAIN is : is[i].pnl < 0 => is[i].key \in b.failed \cup more
  <2> SUFFICES ASSUME NEW i \in 1..(Len(was) + 1), is[i].pnl < 0 PROVE is[i].key \in b.failed \cup more
    BY <1>2
  <2>1. CASE i = Len(was) + 1
    BY <1>2, <2>1
  <2>2. CASE i # Len(was) + 1
    <3>1. i \in 1..Len(was)
      BY <1>2, <2>2
    <3> QED
      BY <1>1, <1>2, <3>1
  <2> QED
    BY <2>1, <2>2
<1>4. n.ended = is
  BY DEF is, was
<1> QED
  BY <1>2, <1>3, <1>4 DEF HtfInvOf

\* An add is asked for within the limit.
LEMMA AddSane ==
    ASSUME NEW k, Sane(k), NEW plan, NEW c
    PROVE  Sane(Htf!TryAdd(k, plan, c)) /\ Htf!Key(Htf!TryAdd(k, plan, c)) = Htf!Key(k)
<1> DEFINE l == Htf!TryAdd(k, plan, c)
<1>1. CASE l = k
  BY <1>1
<1>2. CASE l # k
  <2>1. k.add = {} /\ ~(k.adds >= HtfMaxAdds)
    BY <1>2 DEF Htf!TryAdd
  <2>2. PICK x : l = [k EXCEPT !.add = {x}]
    BY <1>2 DEF Htf!TryAdd
  <2> HIDE DEF l
  <2>3. /\ HtfFields \subseteq DOMAIN l /\ l.add = {x} /\ l.dir = k.dir /\ l.entry = k.entry /\ l.sl = k.sl
        /\ l.stop = k.stop /\ l.adds = k.adds
    BY <2>2 DEF Sane, HtfFields
  <2>4. Sane(l)
    <3>1. Cardinality(l.add) = 1 /\ IsFiniteSet(l.add)
      BY <2>3, FS_Singleton
    <3>2. k.adds \in Nat /\ k.adds + 1 <= HtfMaxAdds
      BY <2>1, HtfAssumption DEF Sane
    <3>3. ~Htf!Ahead(l, l.sl, l.stop) /\ l.sl \in Int /\ l.stop \in Int
      BY <2>3 DEF Sane, Htf!Ahead
    <3>4. l.adds \in Nat /\ l.adds + Cardinality(l.add) <= HtfMaxAdds
      BY <2>3, <3>1, <3>2
    <3> QED
      BY <2>3, <3>1, <3>3, <3>4 DEF Sane
  <2> QED
    BY <2>3, <2>4 DEF l, Htf!Key
<1> QED
  BY <1>1, <1>2

\* An add is filled or given up.
LEMMA CheckedSane ==
    ASSUME NEW k, Sane(k), NEW c
    PROVE  Sane(Htf!AddChecked(k, c)) /\ Htf!Key(Htf!AddChecked(k, c)) = Htf!Key(k)
<1> DEFINE l == Htf!AddChecked(k, c)
<1>1. CASE l = k
  BY <1>1
<1>2. CASE l # k
  <2>1. k.add # {} /\ Cardinality(k.add) \in Nat /\ Cardinality(k.add) # 0
    BY <1>2, FS_EmptySet, FS_CardinalityType DEF Htf!AddChecked, Sane
  <2>2. PICK x, y : \/ l = [k EXCEPT !.add = {}]
                    \/ l = [k EXCEPT !.add = {}, !.adds = @ + 1, !.size = x, !.mean = y]
    BY <1>2 DEF Htf!AddChecked
  <2> HIDE DEF l
  <2>3. /\ HtfFields \subseteq DOMAIN l /\ l.add = {} /\ l.dir = k.dir /\ l.entry = k.entry /\ l.sl = k.sl
        /\ l.stop = k.stop /\ l.adds \in {k.adds, k.adds + 1}
    BY <2>2 DEF Sane, HtfFields
  <2>4. Sane(l)
    <3>1. Cardinality(l.add) = 0 /\ IsFiniteSet(l.add)
      BY <2>3, FS_EmptySet
    <3>2. k.adds \in Nat /\ k.adds + 1 <= k.adds + Cardinality(k.add) /\ k.adds + Cardinality(k.add) <= HtfMaxAdds
      BY <2>1 DEF Sane
    <3>3. l.adds \in Nat /\ l.adds + 0 <= HtfMaxAdds
      <4> DEFINE n == Cardinality(k.add)
      <4>1. n \in Nat /\ k.adds \in Nat /\ HtfMaxAdds \in Nat /\ k.adds + 1 <= HtfMaxAdds
        BY <2>1, <3>2, HtfAssumption
      <4> QED
        BY <2>3, <4>1
    <3>4. k.sl \in Int /\ k.stop \in Int /\ ~Htf!Ahead(k, k.sl, k.stop)
      BY DEF Sane
    <3>5. ~Htf!Ahead(l, l.sl, l.stop)
      BY <2>3, <3>4 DEF Htf!Ahead
    <3>6. l.adds + Cardinality(l.add) = l.adds + 0
      BY <3>1
    <3> QED
      BY <2>3, <3>1, <3>3, <3>4, <3>5, <3>6 DEF Sane
  <2> QED
    BY <2>3, <2>4 DEF l, Htf!Key
<1> QED
  BY <1>1, <1>2

\* A swing moves the stop forward.
LEMMA TrailedSane ==
    ASSUME NEW k, Sane(k), NEW c \in HtfCandles
    PROVE  Sane(Htf!TrailedTo(k, c)) /\ Htf!Key(Htf!TrailedTo(k, c)) = Htf!Key(k)
<1> DEFINE l == Htf!TrailedTo(k, c)
           fit == {i \in DOMAIN c.swings : Htf!Ahead(k, c.swings[i], k.stop) /\ Htf!Ahead(k, k.mean, c.swings[i])}
<1>1. CASE l = k
  BY <1>1
<1>2. CASE l # k
  <2>1. fit # {} /\ l = [k EXCEPT !.stop = c.swings[Htf!Min(fit)]]
    <3>1. l = IF ~Htf!Signal \/ fit = {} THEN k ELSE [k EXCEPT !.stop = c.swings[Htf!Min(fit)]]
      BY Zenon DEF Htf!TrailedTo
    <3> HIDE DEF l, fit
    <3> QED
      BY <1>2, <3>1
  <2>2. c.swings \in Seq(Int)
    BY HtfAssumption
  <2>3. fit \in SUBSET Nat
    BY <2>2
  <2>4. Htf!Min(fit) \in fit
    <3> HIDE DEF fit
    <3>1. PICK m \in fit : \A n \in fit : m <= n
      BY <2>1, <2>3, LeastExists
    <3> QED
      BY <3>1 DEF Htf!Min
  <2> DEFINE p == c.swings[Htf!Min(fit)]
  <2>5. p \in Int /\ Htf!Ahead(k, p, k.stop)
    <3> DEFINE i == Htf!Min(fit)
    <3>1. i \in DOMAIN c.swings /\ Htf!Ahead(k, c.swings[i], k.stop)
      <4> HIDE DEF i
      <4>1. i \in fit
        BY <2>4 DEF i
      <4> QED
        BY <4>1
    <3> HIDE DEF i
    <3>2. c.swings[i] \in Int
      BY <2>2, <3>1
    <3> QED
      BY <3>1, <3>2 DEF i
  <2>6. l = [k EXCEPT !.stop = p]
    BY <2>1
  <2> HIDE DEF l, p
  <2>7. /\ HtfFields \subseteq DOMAIN l /\ l.add = k.add /\ l.dir = k.dir /\ l.entry = k.entry /\ l.sl = k.sl
        /\ l.stop = p /\ l.adds = k.adds
    BY <2>6 DEF Sane, HtfFields
  <2>8. Sane(l)
    BY <2>5, <2>7 DEF Sane, Htf!Ahead
  <2> QED
    BY <2>7, <2>8 DEF l, Htf!Key
<1> QED
  BY <1>1, <1>2

\* A candle, and what the replay makes of a setup in it.
LEMMA CampaignCandle ==
    ASSUME NEW b, HtfInvOf(b), NEW c \in HtfCandles
    PROVE  HtfInvOf(Htf!OnCandle(b, c))
<1> DEFINE n == Htf!OnCandle(b, c)
<1>1. CASE b.order # {}
  <2> DEFINE k == CHOOSE x \in b.order : TRUE
             late == [key |-> Htf!Key(k), reason |-> "entry_timeout", pnl |-> 0]
             open == [k EXCEPT !.filledAt = htfAt]
  <2>1. k \in b.order
    BY <1>1
  <2>2. n = Htf!PendingCandle(b, k, c)
    BY <1>1 DEF Htf!OnCandle
  <2> HIDE DEF k
  <2>3. \/ n = [b EXCEPT !.order = {}, !.ended = Append(b.ended, late)]
        \/ n = [b EXCEPT !.order = {}, !.camp = {open}] \/ n = b
    BY <2>2 DEF Htf!PendingCandle
  <2> HIDE DEF n
  <2>4. CASE n = [b EXCEPT !.order = {}, !.ended = Append(b.ended, late)]
    <3>1. /\ n.order = {} /\ n.camp = {} /\ n.failed = b.failed /\ n.ended = Append(b.ended, late)
          /\ DOMAIN n = {"order", "camp", "ended", "failed"}
      BY <1>1, <2>4 DEF HtfInvOf
    <3>2. n.failed = b.failed \cup {} /\ (late.pnl < 0 => late.key \in {})
      BY <3>1
    <3> HIDE DEF late
    <3>3. HtfInvOf(n)
      BY <3>1, <3>2, CampEnds
    <3> QED
      BY <3>3 DEF n
  <2>5. CASE n = [b EXCEPT !.order = {}, !.camp = {open}]
    <3>1. Sane(k)
      BY <2>1 DEF HtfInvOf
    <3>2. Sane(open) /\ Htf!Key(open) = Htf!Key(k)
      BY <3>1 DEF Sane, HtfFields, Htf!Ahead, Htf!Key
    <3>3. n.order = {}
      BY <2>5 DEF HtfInvOf
    <3> HIDE DEF open
    <3>4. HtfInvOf(n)
      BY <2>1, <2>5, <3>2, <3>3, CampSet
    <3> QED
      BY <3>4 DEF n
  <2>6. CASE n = b
    BY <2>6 DEF n
  <2> QED
    BY <2>3, <2>4, <2>5, <2>6
<1>2. CASE b.order = {} /\ b.camp # {}
  <2> DEFINE k == CHOOSE x \in b.camp : TRUE
  <2>1. k \in b.camp
    BY <1>2
  <2>2. n = Htf!ActiveCandle(b, k, c)
    BY <1>2 DEF Htf!OnCandle
  <2> HIDE DEF k
  <2> DEFINE l == Htf!TrailedTo(Htf!AddChecked(k, c), c)
  <2>3. \/ \E reason, price : n = Htf!Closed(b, k, reason, price)
        \/ n = [b EXCEPT !.camp = {l}]
    BY <2>2 DEF Htf!ActiveCandle
  <2> HIDE DEF n, l
  <2>4. ASSUME NEW reason, NEW price, n = Htf!Closed(b, k, reason, price) PROVE HtfInvOf(n)
    <3> DEFINE pnl == Htf!PnlOf(k, price)
               e == [key |-> Htf!Key(k), reason |-> reason, pnl |-> pnl]
               more == Htf!Lost(k, reason, pnl)
    <3>1. n = [b EXCEPT !.camp = {}, !.ended = Append(b.ended, e), !.failed = b.failed \cup more]
      BY <2>4 DEF Htf!Closed
    <3>2. e.pnl < 0 => e.key \in more
      <4> HIDE DEF pnl
      <4> QED
        BY DEF Htf!Lost
    <3> HIDE DEF e, more, pnl
    <3>3. /\ n.order = {} /\ n.camp = {} /\ n.failed = b.failed \cup more /\ n.ended = Append(b.ended, e)
          /\ DOMAIN n = {"order", "camp", "ended", "failed"}
      BY <1>2, <3>1 DEF HtfInvOf
    <3> QED
      BY <3>2, <3>3, CampEnds
  <2>5. CASE n = [b EXCEPT !.camp = {l}]
    <3>1. Sane(k)
      BY <2>1 DEF HtfInvOf
    <3>2. Sane(Htf!AddChecked(k, c)) /\ Htf!Key(Htf!AddChecked(k, c)) = Htf!Key(k)
      BY <3>1, CheckedSane
    <3>3. Sane(l) /\ Htf!Key(l) = Htf!Key(k)
      BY <3>2, TrailedSane DEF l
    <3>4. HtfInvOf(n)
      BY <1>2, <2>1, <2>5, <3>3, CampSet
    <3> QED
      BY <3>4 DEF n
  <2> QED
    BY <2>3, <2>4, <2>5 DEF n
<1>3. CASE b.order = {} /\ b.camp = {}
  BY <1>3 DEF Htf!OnCandle
<1> QED
  BY <1>1, <1>2, <1>3

LEMMA CampaignSignal ==
    ASSUME NEW b, HtfInvOf(b), NEW plan \in HtfPlans, NEW c
    PROVE  HtfInvOf(Htf!OnSignal(b, plan, c))
<1>1. CASE b.order # {}
  BY <1>1 DEF Htf!OnSignal
<1>2. CASE b.order = {} /\ b.camp # {}
  <2> DEFINE n == Htf!OnSignal(b, plan, c)
  <2>1. PICK k \in b.camp : TRUE
    BY <1>2
  <2> DEFINE l == Htf!TryAdd(k, plan, c)
  <2>2. b.camp = {k}
    BY <2>1 DEF HtfInvOf
  <2>3. n = [b EXCEPT !.camp = {Htf!TryAdd(x, plan, c) : x \in b.camp}]
    BY <1>2 DEF Htf!OnSignal
  <2>4. n = [b EXCEPT !.camp = {l}]
    <3>1. {Htf!TryAdd(x, plan, c) : x \in b.camp} = {l}
      BY <2>2
    <3> QED
      BY <2>3, <3>1
  <2>5. Sane(k)
    BY <2>1 DEF HtfInvOf
  <2>6. Sane(l) /\ Htf!Key(l) = Htf!Key(k)
    BY <2>5, AddSane
  <2> HIDE DEF n, l
  <2>7. HtfInvOf(n)
    BY <1>2, <2>1, <2>4, <2>6, CampSet
  <2> QED
    BY <2>7 DEF n
<1>3. CASE b.order = {} /\ b.camp = {}
  <2>1. Htf!OnSignal(b, plan, c) = Htf!NewCampaign(b, plan)
    BY <1>3 DEF Htf!OnSignal
  <2> QED
    BY <2>1, CampaignNew
<1> QED
  BY <1>1, <1>2, <1>3

HtfInv == HtfInvOf(htfBook)

LEMMA HtfStep == HtfInv /\ [Htf!ReplayNext]_htfVars => HtfInv'
<1> SUFFICES ASSUME HtfInv, [Htf!ReplayNext]_htfVars PROVE HtfInv'
  OBVIOUS
<1>1. CASE UNCHANGED htfVars
  BY <1>1 DEF HtfInv, htfVars
<1>2. CASE Htf!ReplayCandle
  <2>1. PICK c \in HtfCandles : htfBook' = Htf!OnCandle(htfBook, c)
    BY <1>2 DEF Htf!ReplayCandle
  <2>2. HtfInvOf(htfBook')
    BY <2>1, CampaignCandle DEF HtfInv
  <2> QED
    BY <2>2 DEF HtfInv
<1>3. CASE Htf!ReplaySignal
  <2>1. PICK c \in HtfCandles, plan \in HtfPlans : htfBook' = Htf!OnSignal(Htf!OnCandle(htfBook, c), plan, c)
    BY <1>3 DEF Htf!ReplaySignal
  <2>2. HtfInvOf(Htf!OnCandle(htfBook, c))
    BY CampaignCandle DEF HtfInv
  <2>3. HtfInvOf(htfBook')
    BY <2>1, <2>2, CampaignSignal
  <2> QED
    BY <2>3 DEF HtfInv
<1> QED
  BY <1>1, <1>2, <1>3 DEF Htf!ReplayNext

LEMMA HtfStart == Htf!ReplayInit => HtfInv
<1> SUFFICES ASSUME Htf!ReplayInit PROVE HtfInv
  OBVIOUS
<1>1. htfBook = [order |-> {}, camp |-> {}, ended |-> <<>>, failed |-> {}]
  BY DEF Htf!ReplayInit
<1>2. ASequence(<<>>) /\ DOMAIN htfBook.ended = {}
  BY <1>1 DEF ASequence
<1> QED
  BY <1>1, <1>2 DEF HtfInv, HtfInvOf

LEMMA HtfIs == HtfInv => Htf!FailedStayOut
<1> SUFFICES ASSUME HtfInv PROVE Htf!FailedStayOut
  OBVIOUS
<1>1. htfBook.order = {} \/ htfBook.camp = {}
  BY DEF HtfInv, HtfInvOf
<1>2. ASSUME NEW k \in htfBook.order \cup htfBook.camp
      PROVE  /\ k.adds + Cardinality(k.add) <= HtfMaxAdds /\ ~Htf!Ahead(k, k.sl, k.stop)
             /\ \A i \in DOMAIN htfBook.ended :
                  htfBook.ended[i].pnl < 0 => htfBook.ended[i].key # Htf!Key(k)
  <2>1. Sane(k) /\ Htf!Key(k) \notin htfBook.failed
    BY DEF HtfInv, HtfInvOf
  <2>2. \A i \in DOMAIN htfBook.ended : htfBook.ended[i].pnl < 0 => htfBook.ended[i].key \in htfBook.failed
    BY DEF HtfInv, HtfInvOf
  <2> QED
    BY <2>1, <2>2 DEF Sane
<1>3. \A S : Htf!Cardinality(S) = Cardinality(S)
  BY DEF Htf!Cardinality, Cardinality
<1> QED
  BY <1>1, <1>2, <1>3 DEF Htf!FailedStayOut

-----------------------------------------------------------------------------
(* The backtest's counts.                                                    *)

\* The loop of Earned.
EarnedTo(cs, f, m) == [k \in 0..m |-> IF k = 0 THEN 0 ELSE f[k - 1] + cs[k].pnl]

LEMMA EarnedLoop ==
    ASSUME NEW cs, Len(cs) \in Nat
    PROVE  \E r : r = EarnedTo(cs, r, Len(cs)) /\ Earned(cs) = r[Len(cs)]
<1> DEFINE H == {m \in 0..Len(cs) : \E f : f = EarnedTo(cs, f, m)}
<1>1. 0 \in H
  <2> DEFINE f == [i \in 0..0 |-> 0]
  <2>1. f = EarnedTo(cs, f, 0)
    BY DEF EarnedTo
  <2> HIDE DEF f
  <2> QED
    BY <2>1
<1>2. ASSUME NEW k \in 1..Len(cs), k - 1 \in H PROVE k \in H
  <2>1. PICK f : f = EarnedTo(cs, f, k - 1)
    BY <1>2
  <2> DEFINE Turn1(g, i) == IF i = 0 THEN 0 ELSE g[i - 1] + cs[i].pnl
             g == [i \in 0..k |-> IF i < k THEN f[i] ELSE Turn1(f, k)]
  <2>2. \A i \in 0..(k - 1) : f[i] = Turn1(f, i)
    BY <2>1 DEF EarnedTo
  <2>3. \A i \in 0..k : g[i] = Turn1(g, i)
    <3> SUFFICES ASSUME NEW i \in 0..k PROVE g[i] = Turn1(g, i)
      OBVIOUS
    <3>1. i # 0 => i - 1 \in 0..k /\ i - 1 < k
      OBVIOUS
    <3>2. i # 0 => g[i - 1] = f[i - 1]
      BY <3>1
    <3>3. Turn1(g, i) = Turn1(f, i)
      BY <3>2
    <3>4. g[i] = Turn1(f, i)
      BY <2>2
    <3> QED
      BY <3>3, <3>4
  <2>4. g = EarnedTo(cs, g, k)
    BY <2>3 DEF EarnedTo
  <2> HIDE DEF g
  <2> QED
    BY <2>4
<1> HIDE DEF H
<1>3. 0..Len(cs) \subseteq H
  BY <1>1, <1>2, LoopInduction
<1>4. \E f : f = EarnedTo(cs, f, Len(cs))
  BY <1>3 DEF H
<1> DEFINE r == CHOOSE f : f = EarnedTo(cs, f, Len(cs))
<1>5. r = EarnedTo(cs, r, Len(cs))
  BY <1>4
<1>6. Earned(cs) = r[Len(cs)]
  BY DEF Earned, EarnedTo
<1> HIDE DEF r
<1> QED
  BY <1>5, <1>6

LEMMA EarnedMore ==
    ASSUME NEW cs, ASequence(cs), NEW e
    PROVE  Earned(Append(cs, e)) = Earned(cs) + e.pnl
<1> DEFINE is == Append(cs, e)
           n  == Len(cs)
<1>1. /\ n \in Nat /\ Len(is) = n + 1 /\ \A i \in 1..n : is[i] = cs[i]
      /\ is[n + 1] = e
  BY SeqAppended
<1> HIDE DEF is, n
<1>2. PICK f : f = EarnedTo(cs, f, n) /\ Earned(cs) = f[n]
  BY <1>1, EarnedLoop DEF n
<1>3. PICK g : g = EarnedTo(is, g, n + 1) /\ Earned(is) = g[n + 1]
  BY <1>1, EarnedLoop
<1> DEFINE H == {m \in 0..n : f[m] = g[m]}
<1>4. \A k \in 0..n : f[k] = IF k = 0 THEN 0 ELSE f[k - 1] + cs[k].pnl
  BY <1>2 DEF EarnedTo
<1>5. \A k \in 0..(n + 1) : g[k] = IF k = 0 THEN 0 ELSE g[k - 1] + is[k].pnl
  BY <1>3 DEF EarnedTo
<1>6. 0 \in H
  BY <1>1, <1>4, <1>5
<1>7. ASSUME NEW k \in 1..n, k - 1 \in H PROVE k \in H
  <2>1. f[k] = f[k - 1] + cs[k].pnl
    BY <1>1, <1>4
  <2>2. g[k] = g[k - 1] + is[k].pnl
    BY <1>1, <1>5
  <2> QED
    BY <1>1, <1>7, <2>1, <2>2
<1> HIDE DEF H
<1>8. 0..n \subseteq H
  BY <1>1, <1>6, <1>7, LoopInduction
<1>9. f[n] = g[n]
  BY <1>1, <1>8 DEF H
<1>10. g[n + 1] = g[n] + e.pnl
  BY <1>1, <1>5
<1> QED
  BY <1>2, <1>3, <1>9, <1>10 DEF is

LEMMA EarnedNone == Earned(<<>>) = 0
<1>1. PICK r : r = EarnedTo(<<>>, r, 0) /\ Earned(<<>>) = r[0]
  BY EarnedLoop
<1> QED
  BY <1>1 DEF EarnedTo

\* A set of indices, with one more entry.
LEMMA OneMore ==
    ASSUME NEW S, NEW T, NEW n \in Nat, S \subseteq 1..n, T = S \/ T = S \cup {n + 1}
    PROVE  /\ IsFiniteSet(S) /\ Cardinality(S) \in Nat
           /\ Cardinality(T) = Cardinality(S) + (IF n + 1 \in T THEN 1 ELSE 0)
<1>1. IsFiniteSet(1..n)
  BY FS_Interval
<1>2. IsFiniteSet(S)
  BY <1>1, FS_Subset
<1>3. Cardinality(S) \in Nat
  BY <1>2, FS_CardinalityType
<1>4. n + 1 \notin S
  OBVIOUS
<1> QED
  BY <1>2, <1>3, <1>4, FS_AddElement

Void == {"entry_timeout", "pending_replaced"}

\* Another result in the books.
LEMMA MoreCounted ==
    ASSUME NEW cs, ASequence(cs), NEW e, e.pnl \in Int
    PROVE  LET as == Append(cs, e)
           IN  /\ Cardinality(Trades(cs)) \in Nat /\ Cardinality(Wins(cs)) \in Nat /\ Cardinality(Losses(cs)) \in Nat
               /\ Cardinality(Trades(as)) = Cardinality(Trades(cs)) + (IF e.reason \in Void THEN 0 ELSE 1)
               /\ Cardinality(Wins(as)) + Cardinality(Losses(as))
                    = Cardinality(Wins(cs)) + Cardinality(Losses(cs)) + (IF e.reason \in Void THEN 0 ELSE 1)
<1> DEFINE as == Append(cs, e)
           n  == Len(cs)
<1>1. /\ n \in Nat /\ DOMAIN cs = 1..n /\ DOMAIN as = 1..(n + 1)
      /\ \A i \in 1..n : as[i] = cs[i]
      /\ as[n + 1] = e
  BY SeqAppended
<1> HIDE DEF as, n
<1>2. n + 1 \notin 1..n /\ 1..(n + 1) = (1..n) \cup {n + 1}
  BY <1>1
<1>3. Trades(cs) \subseteq 1..n /\ Trades(as) = IF e.reason \in Void THEN Trades(cs) ELSE Trades(cs) \cup {n + 1}
  BY <1>1, <1>2 DEF Trades, Void
<1>4. Wins(cs) \subseteq 1..n
      /\ Wins(as) = IF e.reason \notin Void /\ e.pnl > 0 THEN Wins(cs) \cup {n + 1} ELSE Wins(cs)
  BY <1>1, <1>2, <1>3 DEF Wins
<1>5. Losses(cs) \subseteq 1..n
      /\ Losses(as) = IF e.reason \notin Void /\ e.pnl <= 0 THEN Losses(cs) \cup {n + 1} ELSE Losses(cs)
  BY <1>1, <1>2, <1>3 DEF Losses
<1>6. /\ Cardinality(Trades(cs)) \in Nat
      /\ Cardinality(Trades(as)) = Cardinality(Trades(cs)) + (IF e.reason \in Void THEN 0 ELSE 1)
  <2>1. Trades(as) = Trades(cs) \/ Trades(as) = Trades(cs) \cup {n + 1}
    BY <1>3
  <2>2. n + 1 \in Trades(as) <=> e.reason \notin Void
    BY <1>2, <1>3
  <2>3. /\ Cardinality(Trades(cs)) \in Nat
        /\ Cardinality(Trades(as)) = Cardinality(Trades(cs)) + (IF n + 1 \in Trades(as) THEN 1 ELSE 0)
    BY <1>1, <1>3, <2>1, OneMore
  <2> QED
    BY <2>2, <2>3
<1>7. /\ Cardinality(Wins(cs)) \in Nat
      /\ Cardinality(Wins(as)) = Cardinality(Wins(cs)) + (IF e.reason \notin Void /\ e.pnl > 0 THEN 1 ELSE 0)
  <2>1. Wins(as) = Wins(cs) \/ Wins(as) = Wins(cs) \cup {n + 1}
    BY <1>4
  <2>2. n + 1 \in Wins(as) <=> (e.reason \notin Void /\ e.pnl > 0)
    BY <1>2, <1>4
  <2>3. /\ Cardinality(Wins(cs)) \in Nat
        /\ Cardinality(Wins(as)) = Cardinality(Wins(cs)) + (IF n + 1 \in Wins(as) THEN 1 ELSE 0)
    BY <1>1, <1>4, <2>1, OneMore
  <2> QED
    BY <2>2, <2>3
<1>8. /\ Cardinality(Losses(cs)) \in Nat
      /\ Cardinality(Losses(as)) = Cardinality(Losses(cs)) + (IF e.reason \notin Void /\ e.pnl <= 0 THEN 1 ELSE 0)
  <2>1. Losses(as) = Losses(cs) \/ Losses(as) = Losses(cs) \cup {n + 1}
    BY <1>5
  <2>2. n + 1 \in Losses(as) <=> (e.reason \notin Void /\ e.pnl <= 0)
    BY <1>2, <1>5
  <2>3. /\ Cardinality(Losses(cs)) \in Nat
        /\ Cardinality(Losses(as)) = Cardinality(Losses(cs)) + (IF n + 1 \in Losses(as) THEN 1 ELSE 0)
    BY <1>1, <1>5, <2>1, OneMore
  <2> QED
    BY <2>2, <2>3
<1> DEFINE w == Cardinality(Wins(cs))
           l == Cardinality(Losses(cs))
<1>9. w \in Nat /\ l \in Nat
  BY <1>7, <1>8
<1>10. Cardinality(Wins(as)) + Cardinality(Losses(as)) = w + l + (IF e.reason \in Void THEN 0 ELSE 1)
  <2> HIDE DEF w, l
  <2> QED
    BY <1>7, <1>8, <1>9 DEF w, l
<1> QED
  BY <1>6, <1>7, <1>8, <1>10 DEF as

-----------------------------------------------------------------------------
(* One trade.  Its stop is where its flags, or its level, say it is.         *)

TradeFields == {"pair", "dir", "entry", "sl", "tp1", "tp2", "quick", "size", "stop", "breakeven", "moved",
                "level", "deadline", "filledAt"}

\* How far a level moves the stop.
Step10(t, level) == (Distance(t) * (level - 1) * TrailStep) \div 10

TradeOK(t) ==
    /\ TradeFields \subseteq DOMAIN t
    /\ t.entry \in Nat \ {0} /\ t.sl \in Nat /\ t.tp1 \in Nat /\ t.tp2 \in Nat
    /\ t.size \in Int /\ t.stop \in Int /\ t.level \in Nat
    /\ t.breakeven \in BOOLEAN /\ t.moved \in BOOLEAN
    /\ t.entry # t.sl
    /\ IF Long(t) THEN t.sl <= t.entry /\ t.entry <= t.tp1 ELSE t.sl >= t.entry /\ t.entry >= t.tp1
    /\ IF Trailing THEN t.stop = IF t.level = 0 THEN t.sl ELSE InFavour(t, Step10(t, t.level))
       ELSE /\ t.stop = IF t.moved THEN t.tp1 ELSE IF t.breakeven THEN t.entry ELSE t.sl
            /\ t.moved => t.breakeven

Tighter(t, u) == IF Long(t) THEN u.stop >= t.stop ELSE u.stop <= t.stop

LEMMA StepsGrow ==
    ASSUME NEW t, TradeOK(t), NEW l \in Nat \ {0}, NEW m \in Nat, l <= m
    PROVE  Step10(t, l) \in Nat /\ Step10(t, m) \in Nat /\ Step10(t, l) <= Step10(t, m)
<1> DEFINE d == Distance(t)
<1>1. d \in Nat /\ TrailStep \in Nat
  BY MoneyAssumption DEF TradeOK, Distance
<1> HIDE DEF d
<1> DEFINE a == (d * (l - 1)) * TrailStep
           b == (d * (m - 1)) * TrailStep
<1>2. l - 1 \in Nat /\ m - 1 \in Nat /\ l - 1 <= m - 1
  OBVIOUS
<1>3. (l - 1) * d <= (m - 1) * d /\ (l - 1) * d \in Nat /\ (m - 1) * d \in Nat
  BY <1>1, <1>2, TimesLe
<1>4. (l - 1) * d = d * (l - 1) /\ (m - 1) * d = d * (m - 1)
  BY <1>1, <1>2
<1>5. d * (l - 1) \in Nat /\ d * (m - 1) \in Nat /\ d * (l - 1) <= d * (m - 1)
  BY <1>3, <1>4
<1>6. a <= b /\ a \in Nat /\ b \in Nat
  BY <1>1, <1>5, TimesLe
<1> HIDE DEF a, b
<1>7. a \div 10 \in Nat /\ b \div 10 \in Nat /\ a \div 10 <= b \div 10
  BY <1>6
<1> QED
  BY <1>7 DEF Step10, a, b, d

\* The stop management of a candle only tightens.
LEMMA TrailedKeeps ==
    ASSUME NEW t, TradeOK(t), NEW c \in Candles, Trailing
    PROVE  TradeOK(Trailed(t, c)) /\ Tighter(t, Trailed(t, c)) /\ Trailed(t, c).pair = t.pair
<1> DEFINE u == Trailed(t, c)
<1>1. CASE u = t
  BY <1>1 DEF TradeOK, Tighter
<1>2. CASE u # t
  <2> DEFINE best  == IF Long(t) THEN c.high - t.entry ELSE t.entry - c.low
             level == (best * 10) \div (Distance(t) * TrailStep)
             x     == InFavour(t, Step10(t, level))
  <2>1. ~(level <= t.level) /\ u = [t EXCEPT !.level = level, !.breakeven = TRUE, !.stop = x]
    BY <1>2 DEF Trailed, Step10
  <2>2. level \in Int
    <3>1. best \in Int
      BY MoneyAssumption DEF TradeOK
    <3>2. Distance(t) \in Nat \ {0} /\ TrailStep \in Nat \ {0}
      BY MoneyAssumption DEF TradeOK, Distance
    <3> DEFINE w == Distance(t) * TrailStep
    <3>3. w \in Nat \ {0}
      BY <3>2
    <3> HIDE DEF best, w
    <3>4. (best * 10) \div w \in Int
      BY <3>1, <3>3
    <3> QED
      BY <3>4 DEF w, best
  <2> HIDE DEF level
  <2>3. level \in Nat \ {0} /\ level > t.level
    BY <2>1, <2>2 DEF TradeOK
  <2>4. Step10(t, level) \in Nat
    BY <2>3, StepsGrow
  <2>5. x \in Int /\ (IF Long(t) THEN x >= t.stop ELSE x <= t.stop)
    <3>1. t.entry \in Nat /\ t.sl \in Nat
      BY DEF TradeOK
    <3>2. CASE t.level = 0
      <4>1. t.stop = t.sl /\ IF Long(t) THEN t.sl <= t.entry ELSE t.sl >= t.entry
        BY <3>2 DEF TradeOK
      <4> QED
        BY <2>4, <3>1, <4>1 DEF InFavour
    <3>3. CASE t.level # 0
      <4>1. t.stop = InFavour(t, Step10(t, t.level)) /\ t.level \in Nat \ {0}
        BY <3>3 DEF TradeOK
      <4>2. Step10(t, t.level) \in Nat /\ Step10(t, t.level) <= Step10(t, level)
        BY <2>3, <4>1, StepsGrow
      <4> QED
        BY <2>4, <3>1, <4>1, <4>2 DEF InFavour
    <3> QED
      BY <3>2, <3>3
  <2>6. x = InFavour(t, Step10(t, level))
    OBVIOUS
  <2> HIDE DEF u, x
  <2>7. /\ TradeFields \subseteq DOMAIN u /\ u.entry = t.entry /\ u.sl = t.sl /\ u.tp1 = t.tp1 /\ u.tp2 = t.tp2
        /\ u.size = t.size /\ u.stop = x /\ u.level = level /\ u.breakeven = TRUE /\ u.moved = t.moved
        /\ u.dir = t.dir /\ u.pair = t.pair
    BY <2>1 DEF TradeOK, TradeFields
  <2>8. (Long(u) <=> Long(t)) /\ Step10(u, level) = Step10(t, level)
        /\ InFavour(u, Step10(t, level)) = InFavour(t, Step10(t, level))
    BY <2>7 DEF Long, Step10, Distance, InFavour
  <2>9. TradeOK(u)
    BY <2>3, <2>5, <2>6, <2>7, <2>8 DEF TradeOK
  <2> QED
    BY <2>5, <2>7, <2>9 DEF Tighter, u
<1> QED
  BY <1>1, <1>2

LEMMA ManagedKeeps ==
    ASSUME NEW t, TradeOK(t), NEW c \in Candles
    PROVE  TradeOK(Managed(t, c)) /\ Tighter(t, Managed(t, c)) /\ Managed(t, c).pair = t.pair
<1>1. CASE Trailing
  BY <1>1, TrailedKeeps DEF Managed
<1>2. CASE ~Trailing
  <2> DEFINE arms  == ~t.breakeven /\ Reached(t, c, t.tp1)
             further == (t.breakeven \/ arms) /\ ~t.moved /\ Reached(t, c, (t.tp1 + t.tp2) \div 2)
             even  == t.breakeven \/ arms
             past  == t.moved \/ further
             x     == IF further THEN t.tp1 ELSE IF arms THEN t.entry ELSE t.stop
             u     == Managed(t, c)
  <2>1. u = [t EXCEPT !.breakeven = even, !.moved = past, !.stop = x]
    BY <1>2 DEF Managed
  <2>2. even \in BOOLEAN /\ past \in BOOLEAN /\ (past => even)
    BY <1>2 DEF TradeOK
  <2>3. x = IF past THEN t.tp1 ELSE IF even THEN t.entry ELSE t.sl
    BY <1>2 DEF TradeOK
  <2>4. x \in Int /\ (IF Long(t) THEN x >= t.stop ELSE x <= t.stop)
    <3>1. /\ t.entry \in Int /\ t.sl \in Int /\ t.tp1 \in Int
          /\ IF Long(t) THEN t.sl <= t.entry /\ t.entry <= t.tp1 ELSE t.sl >= t.entry /\ t.entry >= t.tp1
          /\ t.stop = IF t.moved THEN t.tp1 ELSE IF t.breakeven THEN t.entry ELSE t.sl
          /\ t.moved => t.breakeven
      BY <1>2 DEF TradeOK
    <3> QED
      BY <3>1
  <2> HIDE DEF u, x, even, past
  <2>5. /\ TradeFields \subseteq DOMAIN u /\ u.entry = t.entry /\ u.sl = t.sl /\ u.tp1 = t.tp1 /\ u.tp2 = t.tp2
        /\ u.size = t.size /\ u.stop = x /\ u.level = t.level /\ u.breakeven = even /\ u.moved = past
        /\ u.dir = t.dir /\ u.pair = t.pair
    BY <2>1 DEF TradeOK, TradeFields
  <2>6. Long(u) <=> Long(t)
    BY <2>5 DEF Long
  <2>7. TradeOK(u)
    BY <1>2, <2>2, <2>3, <2>4, <2>5, <2>6 DEF TradeOK
  <2> QED
    BY <2>4, <2>5, <2>7 DEF Tighter, u
<1> QED
  BY <1>1, <1>2

\* How a candle ends a trade, and what it makes.
LEMMA ExitIs ==
    ASSUME NEW t, TradeOK(t), NEW c \in Candles
    PROVE  /\ Exit(t, c).reason \notin Void /\ Exit(t, c).price \in Int
           /\ NetPnl(t, Exit(t, c).price, FeeRate, FeeScale) \in Int
<1> DEFINE x == Exit(t, c)
<1>1. Target(t) \in Int
  <2>1. t.entry \in Nat /\ t.tp2 \in Nat /\ Distance(t) \in Nat /\ TrailCeiling \in Nat
    BY MoneyAssumption DEF TradeOK, Distance
  <2>2. (Distance(t) * TrailCeiling) \div 10 \in Int
    BY <2>1
  <2> QED
    BY <2>1, <2>2 DEF Target, InFavour
<1>2. StopReason(t) \in {"trailing_sl", "breakeven_sl", "sl"}
  BY DEF StopReason
<1>3. t.stop \in Int /\ c.close \in Int
  BY MoneyAssumption DEF TradeOK
<1>4. \/ x = [reason |-> "timeout", price |-> c.close] \/ x = [reason |-> StopReason(t), price |-> t.stop]
      \/ x = [reason |-> "tp", price |-> Target(t)] \/ x = [reason |-> "open", price |-> 0]
  BY DEF Exit
<1> HIDE DEF x
<1>5. x.reason \notin Void /\ x.price \in Int
  <2>1. CASE x = [reason |-> "timeout", price |-> c.close]
    BY <1>3, <2>1 DEF Void
  <2>2. CASE x = [reason |-> StopReason(t), price |-> t.stop]
    <3>1. x.reason = StopReason(t) /\ x.price = t.stop
      BY <2>2
    <3> QED
      BY <1>2, <1>3, <3>1 DEF Void
  <2>3. CASE x = [reason |-> "tp", price |-> Target(t)]
    <3>1. x.reason = "tp" /\ x.price = Target(t)
      BY <2>3
    <3> QED
      BY <1>1, <3>1 DEF Void
  <2>4. CASE x = [reason |-> "open", price |-> 0]
    BY <2>4 DEF Void
  <2> QED
    BY <1>4, <2>1, <2>2, <2>3, <2>4
<1>6. NetPnl(t, x.price, FeeRate, FeeScale) \in Int
  <2>1. t.entry \in Int /\ t.size \in Int /\ FeeRate \in Int /\ FeeScale \in Int
    BY MoneyAssumption DEF TradeOK
  <2> DEFINE p == x.price
             move == IF t.dir = "long" THEN p - t.entry ELSE t.entry - p
  <2>2. p \in Int /\ move \in Int
    BY <1>5, <2>1
  <2> HIDE DEF p, move
  <2>3. move * FeeScale \in Int /\ (t.entry + p) * FeeRate \in Int
    BY <2>1, <2>2
  <2>4. move * FeeScale - (t.entry + p) * FeeRate \in Int
    BY <2>3
  <2>5. t.size * (move * FeeScale - (t.entry + p) * FeeRate) \in Int
    BY <2>1, <2>4
  <2> QED
    BY <2>5 DEF NetPnl, p, move
<1> QED
  BY <1>5, <1>6 DEF x

-----------------------------------------------------------------------------
(* The books of the backtest, as a whole.                                    *)

\* The order or the trade of a pair.
OnePerPair(pend, acts) ==
    /\ ASequence(acts) /\ IsFiniteSet(DOMAIN pend)
    /\ \A q \in DOMAIN pend : TradeOK(pend[q]) /\ pend[q].pair = q
    /\ \A i \in DOMAIN acts : TradeOK(acts[i]) /\ acts[i].pair \notin DOMAIN pend
    /\ \A i, j \in DOMAIN acts : acts[i].pair = acts[j].pair => i = j

\* The equity and what made it.
Accounted(cs, money) ==
    /\ ASequence(cs) /\ money \in Int /\ Earned(cs) \in Int /\ money = Capital * FeeScale + Earned(cs)

\* The entries of the funnel, with the pending ones, the trades open and the
\* results counted.
Tallied(f, orders, trading, all, counted, decided) ==
    /\ DOMAIN f = {"created", "replaced", "timeout", "filled"}
    /\ f.created \in Nat /\ f.replaced \in Nat /\ f.timeout \in Nat /\ f.filled \in Nat
    /\ {orders, trading, all, counted, decided} \subseteq Nat
    /\ f.created = f.replaced + f.timeout + f.filled + orders
    /\ f.replaced + f.timeout + counted = all
    /\ f.filled = trading + decided

WinsAndLosses(cs) == Cardinality(Wins(cs)) + Cardinality(Losses(cs))

Counts(f, pend, acts, cs) ==
    Tallied(f, Cardinality(DOMAIN pend), Len(acts), Len(cs), Cardinality(Trades(cs)), WinsAndLosses(cs))

Balanced(s) ==
    /\ DOMAIN s = {"pending", "active", "closed", "equity", "risk", "funnel"}
    /\ OnePerPair(s.pending, s.active) /\ Accounted(s.closed, s.equity)
    /\ Counts(s.funnel, s.pending, s.active, s.closed)

\* A result in the books.
LEMMA ResultBooked ==
    ASSUME NEW cs, NEW money, Accounted(cs, money), NEW e, e.pnl \in Int
    PROVE  Accounted(Append(cs, e), money + e.pnl)
<1>1. ASequence(cs) /\ money \in Int /\ Earned(cs) \in Int /\ money = Capital * FeeScale + Earned(cs)
  BY DEF Accounted
<1>2. ASequence(Append(cs, e))
  BY <1>1, SeqAppended
<1>3. Earned(Append(cs, e)) = Earned(cs) + e.pnl
  BY <1>1, EarnedMore
<1> DEFINE k == Capital * FeeScale
<1>4. k \in Int
  BY MoneyAssumption
<1>5. money = k + Earned(cs)
  BY <1>1
<1> HIDE DEF k
<1>6. money + e.pnl = k + Earned(Append(cs, e)) /\ Earned(Append(cs, e)) \in Int /\ money + e.pnl \in Int
  BY <1>1, <1>3, <1>4, <1>5
<1> QED
  BY <1>2, <1>6 DEF Accounted, k

\* The counts of the results, with one more.
LEMMA ResultCounted ==
    ASSUME NEW cs, ASequence(cs), NEW e, e.pnl \in Int, NEW more \in {0, 1},
           e.reason \in Void => more = 0, e.reason \notin Void => more = 1
    PROVE  /\ Len(Append(cs, e)) = Len(cs) + 1
           /\ Cardinality(Trades(Append(cs, e))) = Cardinality(Trades(cs)) + more
           /\ WinsAndLosses(Append(cs, e)) = WinsAndLosses(cs) + more
           /\ Len(cs) \in Nat /\ Cardinality(Trades(cs)) \in Nat /\ WinsAndLosses(cs) \in Nat
<1>1. Len(Append(cs, e)) = Len(cs) + 1 /\ Len(cs) \in Nat
  BY SeqAppended
<1>2. (IF e.reason \in Void THEN 0 ELSE 1) = more
  OBVIOUS
<1> DEFINE as == Append(cs, e)
<1>3. /\ Cardinality(Trades(cs)) \in Nat /\ Cardinality(Wins(cs)) \in Nat /\ Cardinality(Losses(cs)) \in Nat
      /\ Cardinality(Trades(as)) = Cardinality(Trades(cs)) + (IF e.reason \in Void THEN 0 ELSE 1)
      /\ Cardinality(Wins(as)) + Cardinality(Losses(as))
              = Cardinality(Wins(cs)) + Cardinality(Losses(cs)) + (IF e.reason \in Void THEN 0 ELSE 1)
  BY MoreCounted
<1> HIDE DEF as
<1>4. WinsAndLosses(as) = WinsAndLosses(cs) + more /\ WinsAndLosses(cs) \in Nat
  <2> DEFINE z == IF e.reason \in Void THEN 0 ELSE 1
             w == Cardinality(Wins(cs))
             l == Cardinality(Losses(cs))
             s == Cardinality(Wins(as)) + Cardinality(Losses(as))
  <2>1. w \in Nat /\ l \in Nat /\ s = w + l + z /\ z = more
    BY <1>2, <1>3
  <2>2. WinsAndLosses(as) = s /\ WinsAndLosses(cs) = w + l
    BY DEF WinsAndLosses
  <2> HIDE DEF z, w, l, s
  <2> QED
    BY <2>1, <2>2
<1> QED
  BY <1>1, <1>2, <1>3, <1>4 DEF as

\* A pending entry less.
LEMMA OneLess ==
    ASSUME NEW f, IsFiniteSet(DOMAIN f), NEW p \in DOMAIN f
    PROVE  /\ DOMAIN Without(f, p) = DOMAIN f \ {p} /\ IsFiniteSet(DOMAIN Without(f, p))
           /\ \A q \in DOMAIN f \ {p} : Without(f, p)[q] = f[q]
           /\ Cardinality(DOMAIN f) \in Nat /\ Cardinality(DOMAIN Without(f, p)) \in Nat
           /\ Cardinality(DOMAIN Without(f, p)) + 1 = Cardinality(DOMAIN f)
<1>1. DOMAIN Without(f, p) = DOMAIN f \ {p} /\ \A q \in DOMAIN f \ {p} : Without(f, p)[q] = f[q]
  BY DEF Without, Restrict
<1>2. IsFiniteSet(DOMAIN f \ {p}) /\ Cardinality(DOMAIN f \ {p}) = Cardinality(DOMAIN f) - 1
  BY FS_RemoveElement
<1>3. Cardinality(DOMAIN f) \in Nat /\ Cardinality(DOMAIN f \ {p}) \in Nat
  BY <1>2, FS_CardinalityType
<1> QED
  BY <1>1, <1>2, <1>3

\* An entry that has just been filled is like one that was there before.
LEMMA FilledOK ==
    ASSUME NEW t, TradeOK(t), NEW n, NEW u, u = [t EXCEPT !.filledAt = n]
    PROVE  TradeOK(u) /\ u.pair = t.pair
<1>1. /\ TradeFields \subseteq DOMAIN u /\ u.entry = t.entry /\ u.sl = t.sl /\ u.tp1 = t.tp1 /\ u.tp2 = t.tp2
      /\ u.size = t.size /\ u.stop = t.stop /\ u.level = t.level /\ u.breakeven = t.breakeven
      /\ u.moved = t.moved /\ u.dir = t.dir /\ u.pair = t.pair
  BY DEF TradeOK, TradeFields
<1>2. (Long(u) <=> Long(t)) /\ Step10(u, t.level) = Step10(t, t.level)
      /\ InFavour(u, Step10(t, t.level)) = InFavour(t, Step10(t, t.level))
  BY <1>1 DEF Long, Step10, Distance, InFavour
<1> QED
  BY <1>1, <1>2 DEF TradeOK

\* The pending entry of a pair goes.
LEMMA EntryGoes ==
    ASSUME NEW pend, NEW acts, OnePerPair(pend, acts), NEW p \in DOMAIN pend
    PROVE  OnePerPair(Without(pend, p), acts)
<1> DEFINE w == Without(pend, p)
<1>1. IsFiniteSet(DOMAIN pend)
  BY DEF OnePerPair
<1>2. DOMAIN w = DOMAIN pend \ {p} /\ IsFiniteSet(DOMAIN w) /\ \A q \in DOMAIN pend \ {p} : w[q] = pend[q]
  BY <1>1, OneLess
<1> HIDE DEF w
<1>3. OnePerPair(w, acts)
  BY <1>2 DEF OnePerPair
<1> QED
  BY <1>3 DEF w

\* A trade of a pair that has neither order nor trade.
LEMMA TradeComes ==
    ASSUME NEW pend, NEW acts, OnePerPair(pend, acts), NEW t, TradeOK(t), t.pair \notin DOMAIN pend,
           \A i \in DOMAIN acts : acts[i].pair # t.pair
    PROVE  OnePerPair(pend, Append(acts, t)) /\ Len(acts) \in Nat /\ Len(Append(acts, t)) = Len(acts) + 1
<1> DEFINE as == Append(acts, t)
           n  == Len(acts)
<1>1. /\ ASequence(as) /\ n \in Nat /\ DOMAIN acts = 1..n /\ Len(as) = n + 1 /\ DOMAIN as = 1..(n + 1)
      /\ (\A i \in 1..n : as[i] = acts[i]) /\ as[n + 1] = t
  BY SeqAppended DEF OnePerPair
<1> HIDE DEF as, n
<1>2. \A i \in 1..(n + 1) : i = n + 1 \/ i \in 1..n
  BY <1>1
<1>3. \A i \in DOMAIN as : TradeOK(as[i]) /\ as[i].pair \notin DOMAIN pend
  BY <1>1, <1>2 DEF OnePerPair
<1>4. ASSUME NEW i \in DOMAIN as, NEW j \in DOMAIN as, as[i].pair = as[j].pair PROVE i = j
  <2>1. CASE i \in 1..n /\ j \in 1..n
    BY <1>1, <1>4, <2>1 DEF OnePerPair
  <2>2. CASE i = n + 1 /\ j \in 1..n
    BY <1>1, <1>4, <2>2
  <2>3. CASE i \in 1..n /\ j = n + 1
    BY <1>1, <1>4, <2>3
  <2> QED
    BY <1>1, <1>2, <2>1, <2>2, <2>3
<1>5. OnePerPair(pend, as)
  BY <1>1, <1>3, <1>4 DEF OnePerPair
<1> QED
  BY <1>1, <1>5 DEF as, n

\* The pending entries of a candle.
PendingGoal(pend, acts, cs, f, p) ==
    /\ OnePerPair(pend, acts) /\ Accounted(cs, equity) /\ Counts(f, pend, acts, cs)
    /\ \A j \in DOMAIN acts : \/ j \in DOMAIN active /\ acts[j] = active[j]
                              \/ acts[j].pair \in DOMAIN pending
    /\ DOMAIN pend \subseteq DOMAIN pending

BooksOK == OnePerPair(pending, active) /\ Accounted(closed, equity) /\ Counts(funnel, pending, active, closed)

LEMMA PendingKeeps ==
    ASSUME BooksOK, NEW p, NEW c, NEW lucky, NEW a, a = AfterPending(p, c, lucky)
    PROVE  PendingGoal(a.pending, a.active, a.closed, a.funnel, p)
<1> DEFINE t     == pending[p]
           void  == Result(t, "entry_timeout", 0)
           fresh == [t EXCEPT !.filledAt = Now]
           less  == Without(pending, p)
<1>1. \/ a = [pending |-> pending, active |-> active, closed |-> closed, funnel |-> funnel]
      \/ /\ p \in DOMAIN pending
         /\ a = [pending |-> less, active |-> active, closed |-> Append(closed, void),
                 funnel |-> [funnel EXCEPT !.timeout = @ + 1]]
      \/ /\ p \in DOMAIN pending
         /\ a = [pending |-> less, active |-> Append(active, fresh), closed |-> closed,
                 funnel |-> [funnel EXCEPT !.filled = @ + 1]]
  BY DEF AfterPending
<1>2. OnePerPair(pending, active) /\ Accounted(closed, equity) /\ Counts(funnel, pending, active, closed)
      /\ ASequence(closed) /\ IsFiniteSet(DOMAIN pending)
  BY DEF BooksOK, OnePerPair, Accounted
<1>3. p \in DOMAIN pending => /\ OnePerPair(less, active) /\ DOMAIN less = DOMAIN pending \ {p}
                              /\ Cardinality(DOMAIN pending) \in Nat /\ Cardinality(DOMAIN less) \in Nat
                              /\ Cardinality(DOMAIN less) + 1 = Cardinality(DOMAIN pending)
  BY <1>2, EntryGoes, OneLess
<1> DEFINE orders  == Cardinality(DOMAIN pending)
           fewer   == Cardinality(DOMAIN less)
           trading == Len(active)
           all     == Len(closed)
           counted == Cardinality(Trades(closed))
           decided == WinsAndLosses(closed)
<1>4. Tallied(funnel, orders, trading, all, counted, decided)
  BY <1>2 DEF Counts
<1>5. CASE a = [pending |-> pending, active |-> active, closed |-> closed, funnel |-> funnel]
  <2>1. a.pending = pending /\ a.active = active /\ a.closed = closed /\ a.funnel = funnel
    BY <1>5
  <2>2. PendingGoal(pending, active, closed, funnel, p)
    BY <1>2 DEF PendingGoal
  <2> QED
    BY <2>1, <2>2
<1>6. CASE /\ p \in DOMAIN pending
           /\ a = [pending |-> less, active |-> active, closed |-> Append(closed, void),
                   funnel |-> [funnel EXCEPT !.timeout = @ + 1]]
  <2> DEFINE f == [funnel EXCEPT !.timeout = @ + 1]
             cs == Append(closed, void)
  <2>1. void.pnl = 0 /\ void.reason \in Void
    BY DEF Result, Void
  <2> HIDE DEF void
  <2>2. Accounted(cs, equity)
    <3>1. Accounted(cs, equity + void.pnl) /\ equity \in Int
      BY <1>2, <2>1, ResultBooked DEF Accounted
    <3> QED
      BY <2>1, <3>1
  <2>3. /\ Len(cs) = all + 1 /\ Cardinality(Trades(cs)) = counted + 0 /\ WinsAndLosses(cs) = decided + 0
    BY <1>2, <2>1, ResultCounted
  <2>4. Tallied(f, fewer, trading, all + 1, counted, decided)
    <3>1. fewer + 1 = orders /\ fewer \in Nat
      BY <1>3, <1>6
    <3> HIDE DEF fewer, orders, trading, all, counted, decided
    <3>2. /\ DOMAIN f = DOMAIN funnel /\ f.created = funnel.created /\ f.replaced = funnel.replaced
          /\ f.timeout = funnel.timeout + 1 /\ f.filled = funnel.filled
      BY <1>4 DEF Tallied
    <3> HIDE DEF f
    <3> QED
      BY <1>4, <3>1, <3>2 DEF Tallied
  <2>5. counted \in Nat /\ decided \in Nat
    BY <1>4 DEF Tallied
  <2>6. Counts(f, less, active, cs)
    <3>1. Cardinality(Trades(cs)) = counted /\ WinsAndLosses(cs) = decided
      BY <2>3, <2>5
    <3> QED
      BY <2>3, <2>4, <3>1 DEF Counts
  <2>7. PendingGoal(less, active, cs, f, p)
    BY <1>3, <1>6, <2>2, <2>6 DEF PendingGoal
  <2>8. a.pending = less /\ a.active = active /\ a.closed = cs /\ a.funnel = f
    BY <1>6
  <2> HIDE DEF less, cs, f
  <2> QED
    BY <2>7, <2>8
<1>7. CASE /\ p \in DOMAIN pending
           /\ a = [pending |-> less, active |-> Append(active, fresh), closed |-> closed,
                   funnel |-> [funnel EXCEPT !.filled = @ + 1]]
  <2> DEFINE f == [funnel EXCEPT !.filled = @ + 1]
             as == Append(active, fresh)
  <2>1. TradeOK(t) /\ t.pair = p /\ \A i \in DOMAIN active : active[i].pair # p
    BY <1>2, <1>7 DEF OnePerPair
  <2>2. TradeOK(fresh) /\ fresh.pair = p
    BY <2>1, FilledOK
  <2> HIDE DEF fresh
  <2>3. OnePerPair(less, as) /\ trading \in Nat /\ Len(as) = trading + 1
    BY <1>3, <1>7, <2>1, <2>2, TradeComes
  <2>4. Tallied(f, fewer, trading + 1, all, counted, decided)
    <3>1. fewer + 1 = orders /\ fewer \in Nat
      BY <1>3, <1>7
    <3> HIDE DEF fewer, orders, trading, all, counted, decided
    <3>2. /\ DOMAIN f = DOMAIN funnel /\ f.created = funnel.created /\ f.replaced = funnel.replaced
          /\ f.timeout = funnel.timeout /\ f.filled = funnel.filled + 1
      BY <1>4 DEF Tallied
    <3> HIDE DEF f
    <3> QED
      BY <1>4, <3>1, <3>2 DEF Tallied
  <2>5. Counts(f, less, as, closed)
    BY <2>3, <2>4 DEF Counts
  <2>6. \A j \in DOMAIN as : (j \in DOMAIN active /\ as[j] = active[j]) \/ as[j].pair \in DOMAIN pending
    <3> DEFINE n == Len(active)
    <3>1. /\ n \in Nat /\ DOMAIN active = 1..n /\ DOMAIN as = 1..(n + 1)
          /\ (\A i \in 1..n : as[i] = active[i]) /\ as[n + 1] = fresh
      BY <1>2, SeqAppended DEF OnePerPair
    <3> HIDE DEF n, as
    <3>2. \A j \in 1..(n + 1) : j = n + 1 \/ j \in 1..n
      BY <3>1
    <3> QED
      BY <1>7, <2>2, <3>1, <3>2
  <2>7. PendingGoal(less, as, closed, f, p)
    BY <1>2, <1>3, <1>7, <2>3, <2>5, <2>6 DEF PendingGoal
  <2>8. a.pending = less /\ a.active = as /\ a.closed = closed /\ a.funnel = f
    BY <1>7
  <2> HIDE DEF less, as, f
  <2> QED
    BY <2>7, <2>8
<1> QED
  BY <1>1, <1>5, <1>6, <1>7

\* The loop of AfterCandle.
AfterTo(start, ts, p, c, f, m) ==
    [k \in 0..m |-> IF k = 0 THEN start ELSE ProcessTrade(f[k - 1], ts[k], p, c)]

StartOf(a) == [pending |-> a.pending, active |-> << >>, closed |-> a.closed,
               equity |-> equity, risk |-> risk, funnel |-> a.funnel]

LEMMA AfterLoop ==
    ASSUME NEW p, NEW c, NEW lucky, NEW a, a = AfterPending(p, c, lucky), Len(a.active) \in Nat
    PROVE  \E r : r = AfterTo(StartOf(a), a.active, p, c, r, Len(a.active))
                  /\ AfterCandle(p, c, lucky) = r[Len(a.active)]
<1> DEFINE ts == a.active
           n  == Len(ts)
           start == StartOf(a)
           H == {m \in 0..n : \E f : f = AfterTo(start, ts, p, c, f, m)}
<1>0. n \in Nat
  OBVIOUS
<1> HIDE DEF ts, n, start
<1>1. 0 \in H
  <2> DEFINE f == [i \in 0..0 |-> start]
  <2>1. f = AfterTo(start, ts, p, c, f, 0)
    BY DEF AfterTo
  <2> HIDE DEF f
  <2> QED
    BY <1>0, <2>1
<1>2. ASSUME NEW k \in 1..n, k - 1 \in H PROVE k \in H
  <2>1. PICK f : f = AfterTo(start, ts, p, c, f, k - 1)
    BY <1>2
  <2> DEFINE Turn1(g, i) == IF i = 0 THEN start ELSE ProcessTrade(g[i - 1], ts[i], p, c)
             g == [i \in 0..k |-> IF i < k THEN f[i] ELSE Turn1(f, k)]
  <2>2. \A i \in 0..(k - 1) : f[i] = Turn1(f, i)
    BY <2>1 DEF AfterTo
  <2>3. \A i \in 0..k : g[i] = Turn1(g, i)
    <3> SUFFICES ASSUME NEW i \in 0..k PROVE g[i] = Turn1(g, i)
      OBVIOUS
    <3>0. k \in Nat /\ k >= 1
      BY <1>0
    <3>1. i # 0 => i - 1 \in 0..k /\ i - 1 < k
      BY <3>0
    <3>2. i # 0 => g[i - 1] = f[i - 1]
      BY <3>1
    <3>3. Turn1(g, i) = Turn1(f, i)
      BY <3>2
    <3>4. g[i] = Turn1(f, i)
      BY <2>2, <3>0
    <3> QED
      BY <3>3, <3>4
  <2>4. g = AfterTo(start, ts, p, c, g, k)
    BY <2>3 DEF AfterTo
  <2> HIDE DEF g
  <2> QED
    BY <1>0, <2>4
<1> HIDE DEF H
<1>3. 0..n \subseteq H
  BY <1>0, <1>1, <1>2, LoopInduction
<1>4. \E f : f = AfterTo(start, ts, p, c, f, n)
  BY <1>0, <1>3 DEF H
<1> DEFINE r == CHOOSE f : f = AfterTo(start, ts, p, c, f, n)
<1>5. r = AfterTo(start, ts, p, c, r, n)
  BY <1>4
<1>6. AfterCandle(p, c, lucky) = r[n]
  BY DEF AfterCandle, AfterTo, StartOf, start, ts, n
<1> HIDE DEF r
<1> QED
  BY <1>5, <1>6 DEF start, ts, n

\* A trade after the candle, and the one it was before.
KeptAs(t, u, p, c) == u = t \/ (t.pair = p /\ u = Managed(t, c))

\* The turns of the loop: k trades seen to, of which d ended.
TradesTurned(k, ts, acc, start, p, c) ==
    /\ DOMAIN acc = DOMAIN start /\ acc.pending = start.pending /\ acc.funnel = start.funnel
    /\ OnePerPair(start.pending, acc.active) /\ Accounted(acc.closed, acc.equity)
    /\ \A j \in DOMAIN acc.active : \E i \in 1..k : KeptAs(ts[i], acc.active[j], p, c)
    /\ \E d \in Nat : /\ Len(acc.active) + d = k /\ Len(acc.closed) = Len(start.closed) + d
                      /\ Cardinality(Trades(acc.closed)) = Cardinality(Trades(start.closed)) + d
                      /\ WinsAndLosses(acc.closed) = WinsAndLosses(start.closed) + d

\* A trade that stays.
LEMMA TradeStays ==
    ASSUME NEW start, NEW ts, OnePerPair(start.pending, ts), NEW p, NEW c \in Candles,
           NEW k \in 1..Len(ts), NEW acc, TradesTurned(k - 1, ts, acc, start, p, c),
           NEW u, KeptAs(ts[k], u, p, c), NEW new, new = [acc EXCEPT !.active = Append(@, u)],
           "active" \in DOMAIN start, Len(start.closed) \in Nat, Cardinality(Trades(start.closed)) \in Nat,
           WinsAndLosses(start.closed) \in Nat
    PROVE  TradesTurned(k, ts, new, start, p, c)
<1> DEFINE as == Append(acc.active, u)
           n  == Len(acc.active)
<1>1. /\ Len(ts) \in Nat /\ DOMAIN ts = 1..Len(ts) /\ k \in Nat /\ k \in DOMAIN ts
  BY SeqAppended DEF OnePerPair
<1>2. TradeOK(ts[k]) /\ ts[k].pair \notin DOMAIN start.pending
  BY <1>1 DEF OnePerPair
<1>3. TradeOK(u) /\ u.pair = ts[k].pair
  BY <1>2, ManagedKeeps DEF KeptAs
<1>4. \A i \in 1..Len(ts) : \A v : KeptAs(ts[i], v, p, c) => v.pair = ts[i].pair
  BY <1>1, ManagedKeeps DEF KeptAs, OnePerPair
<1>5. \A j \in DOMAIN acc.active : acc.active[j].pair # u.pair
  <2> SUFFICES ASSUME NEW j \in DOMAIN acc.active, acc.active[j].pair = u.pair PROVE FALSE
    OBVIOUS
  <2>1. PICK i \in 1..(k - 1) : KeptAs(ts[i], acc.active[j], p, c)
    BY DEF TradesTurned
  <2>2. i \in DOMAIN ts /\ i # k
    BY <1>1
  <2>3. ts[i].pair = ts[k].pair
    BY <1>1, <1>3, <1>4, <2>1, <2>2
  <2> QED
    BY <1>1, <2>2, <2>3 DEF OnePerPair
<1>6. OnePerPair(start.pending, as) /\ n \in Nat /\ Len(as) = n + 1
  BY <1>2, <1>3, <1>5, TradeComes DEF TradesTurned
<1>7. /\ new.active = as /\ DOMAIN new = DOMAIN acc /\ new.pending = acc.pending /\ new.funnel = acc.funnel
      /\ new.closed = acc.closed /\ new.equity = acc.equity
  BY DEF TradesTurned
<1>8. \A j \in DOMAIN as : \E i \in 1..k : KeptAs(ts[i], as[j], p, c)
  <2> SUFFICES ASSUME NEW j \in DOMAIN as PROVE \E i \in 1..k : KeptAs(ts[i], as[j], p, c)
    OBVIOUS
  <2>1. /\ DOMAIN acc.active = 1..n /\ DOMAIN as = 1..(n + 1)
        /\ (\A i \in 1..n : as[i] = acc.active[i]) /\ as[n + 1] = u
    BY SeqAppended DEF TradesTurned, OnePerPair
  <2> HIDE DEF as, n
  <2>2. CASE j = n + 1
    <3>1. k \in 1..k
      BY <1>1
    <3> QED
      BY <2>1, <2>2, <3>1
  <2>3. CASE j # n + 1
    <3>1. j \in 1..n
      BY <1>6, <2>1, <2>3
    <3>2. PICK i \in 1..(k - 1) : KeptAs(ts[i], acc.active[j], p, c)
      BY <2>1, <3>1 DEF TradesTurned
    <3>3. i \in 1..k
      BY <1>1
    <3> QED
      BY <2>1, <3>1, <3>2, <3>3
  <2> QED
    BY <2>2, <2>3
<1> HIDE DEF as
<1>9. \E d \in Nat : /\ Len(as) + d = k /\ Len(acc.closed) = Len(start.closed) + d
                     /\ Cardinality(Trades(acc.closed)) = Cardinality(Trades(start.closed)) + d
                     /\ WinsAndLosses(acc.closed) = WinsAndLosses(start.closed) + d
  <2>1. PICK d \in Nat : /\ n + d = k - 1 /\ Len(acc.closed) = Len(start.closed) + d
                         /\ Cardinality(Trades(acc.closed)) = Cardinality(Trades(start.closed)) + d
                         /\ WinsAndLosses(acc.closed) = WinsAndLosses(start.closed) + d
    BY DEF TradesTurned
  <2> HIDE DEF n
  <2>2. Len(as) + d = k
    <3> DEFINE m == Len(as)
    <3>1. n \in Nat /\ k \in Nat /\ m = n + 1 /\ n + d = k - 1
      BY <1>1, <1>6, <2>1
    <3> HIDE DEF m
    <3>2. m + d = k
      BY <3>1
    <3> QED
      BY <3>2 DEF m
  <2> QED
    BY <2>1, <2>2
<1> QED
  BY <1>6, <1>7, <1>8, <1>9 DEF TradesTurned

\* A trade that ends.
LEMMA TradeEnds ==
    ASSUME NEW start, NEW ts, OnePerPair(start.pending, ts), NEW p, NEW c,
           NEW k \in 1..Len(ts), NEW acc, TradesTurned(k - 1, ts, acc, start, p, c),
           NEW e, e.pnl \in Int, e.reason \notin Void, NEW r,
           NEW new, new = [acc EXCEPT !.closed = Append(@, e), !.equity = @ + e.pnl, !.risk = r],
           DOMAIN start = {"pending", "active", "closed", "equity", "risk", "funnel"},
           Len(start.closed) \in Nat, Cardinality(Trades(start.closed)) \in Nat, WinsAndLosses(start.closed) \in Nat
    PROVE  TradesTurned(k, ts, new, start, p, c)
<1> DEFINE cs == Append(acc.closed, e)
<1>1. Len(ts) \in Nat /\ k \in Nat
  BY SeqAppended DEF OnePerPair
<1>2. /\ new.active = acc.active /\ DOMAIN new = DOMAIN acc /\ new.pending = acc.pending
      /\ new.funnel = acc.funnel /\ new.closed = cs /\ new.equity = acc.equity + e.pnl
  BY DEF TradesTurned
<1>3. Accounted(cs, acc.equity + e.pnl) /\ ASequence(acc.closed)
  <2>1. Accounted(acc.closed, acc.equity)
    BY DEF TradesTurned
  <2>2. Accounted(cs, acc.equity + e.pnl)
    BY <2>1, ResultBooked
  <2> QED
    BY <2>1, <2>2 DEF Accounted
<1>4. /\ Len(cs) = Len(acc.closed) + 1 /\ Cardinality(Trades(cs)) = Cardinality(Trades(acc.closed)) + 1
      /\ WinsAndLosses(cs) = WinsAndLosses(acc.closed) + 1
  BY <1>3, ResultCounted
<1> HIDE DEF cs
<1>5. \E d \in Nat : /\ Len(acc.active) + d = k /\ Len(cs) = Len(start.closed) + d
                     /\ Cardinality(Trades(cs)) = Cardinality(Trades(start.closed)) + d
                     /\ WinsAndLosses(cs) = WinsAndLosses(start.closed) + d
  <2>1. PICK d \in Nat : /\ Len(acc.active) + d = k - 1 /\ Len(acc.closed) = Len(start.closed) + d
                         /\ Cardinality(Trades(acc.closed)) = Cardinality(Trades(start.closed)) + d
                         /\ WinsAndLosses(acc.closed) = WinsAndLosses(start.closed) + d
    BY DEF TradesTurned
  <2>2. Len(acc.active) \in Nat
    BY SeqAppended DEF TradesTurned, OnePerPair
  <2>3. d + 1 \in Nat /\ Len(acc.active) + (d + 1) = k
    <3> DEFINE m == Len(acc.active)
    <3>1. m \in Nat /\ k \in Nat /\ m + d = k - 1
      BY <1>1, <2>1, <2>2
    <3> HIDE DEF m
    <3>2. d + 1 \in Nat /\ m + (d + 1) = k
      BY <3>1
    <3> QED
      BY <3>2 DEF m
  <2>4. /\ Len(cs) = Len(start.closed) + (d + 1)
        /\ Cardinality(Trades(cs)) = Cardinality(Trades(start.closed)) + (d + 1)
        /\ WinsAndLosses(cs) = WinsAndLosses(start.closed) + (d + 1)
    BY <1>4, <2>1
  <2> QED
    BY <2>3, <2>4
<1>6. 1..(k - 1) \subseteq 1..k
  BY <1>1
<1> QED
  BY <1>2, <1>3, <1>5, <1>6 DEF TradesTurned

\* The trades of a candle: who stays is managed, who ends is booked.
LEMMA CandleKeeps ==
    ASSUME BooksOK, NEW p, NEW c \in Candles, NEW lucky, NEW s, s = AfterCandle(p, c, lucky)
    PROVE  /\ Balanced(s) /\ DOMAIN s.pending \subseteq DOMAIN pending
           /\ \A i \in DOMAIN active, j \in DOMAIN s.active :
                 s.active[j].pair = active[i].pair => Tighter(active[i], s.active[j])
<1> DEFINE a == AfterPending(p, c, lucky)
           ts == a.active
           n  == Len(ts)
           start == StartOf(a)
<1>1. PendingGoal(a.pending, ts, a.closed, a.funnel, p)
  BY PendingKeeps
<1>2. /\ start.pending = a.pending /\ start.active = <<>> /\ start.closed = a.closed
      /\ start.equity = equity /\ start.funnel = a.funnel
      /\ DOMAIN start = {"pending", "active", "closed", "equity", "risk", "funnel"}
  BY DEF StartOf
<1> HIDE DEF a
<1>3. /\ OnePerPair(a.pending, ts) /\ Accounted(a.closed, equity) /\ Counts(a.funnel, a.pending, ts, a.closed)
      /\ \A j \in DOMAIN ts : (j \in DOMAIN active /\ ts[j] = active[j]) \/ ts[j].pair \in DOMAIN pending
      /\ DOMAIN a.pending \subseteq DOMAIN pending
  BY <1>1 DEF PendingGoal
<1>4. n \in Nat /\ DOMAIN ts = 1..n
  BY <1>3, SeqAppended DEF OnePerPair
<1>5. PICK r : r = AfterTo(start, ts, p, c, r, n) /\ s = r[n]
  BY <1>4, AfterLoop DEF a
<1>6. /\ Len(start.closed) \in Nat /\ Cardinality(Trades(start.closed)) \in Nat /\ WinsAndLosses(start.closed) \in Nat
  BY <1>2, <1>3 DEF Counts, Tallied
<1> HIDE DEF ts, n, start
<1>7. r[0] = start /\ \A k \in 1..n : r[k] = ProcessTrade(r[k - 1], ts[k], p, c)
  <2>1. \A k \in 0..n : r[k] = IF k = 0 THEN start ELSE ProcessTrade(r[k - 1], ts[k], p, c)
    BY <1>5 DEF AfterTo
  <2> QED
    BY <1>4, <2>1
<1> DEFINE H == {k \in 0..n : TradesTurned(k, ts, r[k], start, p, c)}
<1>8. 0 \in H
  <2>1. OnePerPair(start.pending, <<>>)
    <3>1. ASequence(<<>>) /\ DOMAIN <<>> = {}
      BY DEF ASequence
    <3> QED
      BY <1>2, <1>3, <3>1 DEF OnePerPair
  <2>2. Len(start.active) + 0 = 0 /\ DOMAIN start.active = {}
    BY <1>2
  <2>3. TradesTurned(0, ts, start, start, p, c)
    BY <1>2, <1>3, <1>6, <2>1, <2>2 DEF TradesTurned
  <2> QED
    BY <1>4, <1>7, <2>3
<1>9. ASSUME NEW k \in 1..n, k - 1 \in H PROVE k \in H
  <2> DEFINE acc  == r[k - 1]
             new  == r[k]
             t    == ts[k]
             exit == Exit(t, c)
             pnl  == NetPnl(t, exit.price, FeeRate, FeeScale)
             e    == Result(t, exit.reason, pnl)
             rk   == Realised(acc.risk, pnl)
  <2>1. TradesTurned(k - 1, ts, acc, start, p, c)
    BY <1>9
  <2>e. e.pnl = pnl
    BY DEF Result
  <2>2. new = IF t.pair # p THEN [acc EXCEPT !.active = Append(@, t)]
              ELSE IF exit.reason = "open" THEN [acc EXCEPT !.active = Append(@, Managed(t, c))]
              ELSE [acc EXCEPT !.closed = Append(@, e), !.equity = @ + e.pnl, !.risk = rk]
    <3>1. new = ProcessTrade(acc, t, p, c)
      BY <1>7
    <3>2. ProcessTrade(acc, t, p, c)
            = IF t.pair # p THEN [acc EXCEPT !.active = Append(@, t)]
              ELSE IF exit.reason = "open" THEN [acc EXCEPT !.active = Append(@, Managed(t, c))]
              ELSE [acc EXCEPT !.closed = Append(@, e), !.equity = @ + pnl, !.risk = rk]
      <4> HIDE DEF acc, t, new
      <4> QED
        BY Zenon DEF ProcessTrade
    <3> HIDE DEF acc, t, pnl, e, exit, rk, new
    <3> QED
      BY <2>e, <3>1, <3>2
  <2>3. TradeOK(t) /\ k \in 1..Len(ts) /\ OnePerPair(start.pending, ts)
    BY <1>2, <1>3, <1>4 DEF OnePerPair, n, ts
  <2>4. exit.reason \notin Void /\ pnl \in Int
    BY <2>3, ExitIs
  <2>5. e.pnl \in Int /\ e.reason \notin Void
    BY <2>4 DEF Result
  <2> HIDE DEF acc, new, t, e, rk, pnl, exit
  <2>6. CASE t.pair # p
    <3>1. new = [acc EXCEPT !.active = Append(@, t)] /\ KeptAs(t, t, p, c)
      BY <2>2, <2>6 DEF KeptAs
    <3>2. TradesTurned(k, ts, new, start, p, c)
      BY <1>2, <1>6, <2>1, <2>3, <3>1, TradeStays DEF t
    <3> QED
      BY <1>4, <3>2 DEF new
  <2>7. CASE t.pair = p /\ exit.reason = "open"
    <3> DEFINE u == Managed(t, c)
    <3>1. new = [acc EXCEPT !.active = Append(@, u)] /\ KeptAs(t, u, p, c)
      BY <2>2, <2>7 DEF KeptAs
    <3> HIDE DEF u
    <3>2. TradesTurned(k, ts, new, start, p, c)
      BY <1>2, <1>6, <2>1, <2>3, <3>1, TradeStays DEF t
    <3> QED
      BY <1>4, <3>2 DEF new
  <2>8. CASE t.pair = p /\ exit.reason # "open"
    <3>1. new = [acc EXCEPT !.closed = Append(@, e), !.equity = @ + e.pnl, !.risk = rk]
      BY <2>2, <2>8
    <3>2. TradesTurned(k, ts, new, start, p, c)
      BY <1>2, <1>6, <2>1, <2>3, <2>5, <3>1, TradeEnds
    <3> QED
      BY <1>4, <3>2 DEF new
  <2> QED
    BY <2>6, <2>7, <2>8
<1> HIDE DEF H
<1>10. n \in 0..n
  BY <1>4
<1>11. TradesTurned(n, ts, s, start, p, c)
  <2>1. n \in H
    BY <1>4, <1>8, <1>9, <1>10, LoopInduction
  <2> QED
    BY <1>5, <2>1 DEF H
<1>12. Counts(s.funnel, s.pending, s.active, s.closed)
  <2>1. PICK d \in Nat : /\ Len(s.active) + d = n /\ Len(s.closed) = Len(start.closed) + d
                         /\ Cardinality(Trades(s.closed)) = Cardinality(Trades(start.closed)) + d
                         /\ WinsAndLosses(s.closed) = WinsAndLosses(start.closed) + d
    BY <1>11 DEF TradesTurned
  <2>2. Len(s.active) \in Nat
    BY <1>11, SeqAppended DEF TradesTurned, OnePerPair
  <2> DEFINE orders == Cardinality(DOMAIN a.pending)
             all == Len(start.closed)
             counted == Cardinality(Trades(start.closed))
             decided == WinsAndLosses(start.closed)
             trading == Len(s.active)
  <2>3. Tallied(a.funnel, orders, n, all, counted, decided)
    BY <1>2, <1>3 DEF Counts, n
  <2>4. trading \in Nat /\ trading + d = n
    BY <2>1, <2>2
  <2> HIDE DEF orders, all, counted, decided, trading
  <2>5. Tallied(a.funnel, orders, trading, all + d, counted + d, decided + d)
    <3> DEFINE f == a.funnel
    <3>1. /\ DOMAIN f = {"created", "replaced", "timeout", "filled"}
          /\ f.created \in Nat /\ f.replaced \in Nat /\ f.timeout \in Nat /\ f.filled \in Nat
          /\ orders \in Nat /\ all \in Nat /\ counted \in Nat /\ decided \in Nat
          /\ f.created = f.replaced + f.timeout + f.filled + orders
          /\ f.replaced + f.timeout + counted = all
          /\ f.filled = n + decided
      BY <2>3 DEF Tallied
    <3> HIDE DEF f
    <3>2. all + d \in Nat /\ counted + d \in Nat /\ decided + d \in Nat
      BY <3>1
    <3>3. f.replaced + f.timeout + (counted + d) = all + d
      BY <3>1
    <3>4. f.filled = trading + (decided + d)
      BY <1>4, <2>4, <3>1
    <3>5. Tallied(f, orders, trading, all + d, counted + d, decided + d)
      BY <2>4, <3>1, <3>2, <3>3, <3>4 DEF Tallied
    <3> QED
      BY <3>5 DEF f
  <2>6. s.funnel = a.funnel /\ s.pending = a.pending
    BY <1>2, <1>11 DEF TradesTurned
  <2> QED
    BY <2>1, <2>5, <2>6 DEF Counts, orders, all, counted, decided, trading
<1>13. Balanced(s) /\ DOMAIN s.pending \subseteq DOMAIN pending
  BY <1>2, <1>3, <1>11, <1>12 DEF TradesTurned, Balanced
<1>14. ASSUME NEW i \in DOMAIN active, NEW j \in DOMAIN s.active, s.active[j].pair = active[i].pair
       PROVE  Tighter(active[i], s.active[j])
  <2>1. PICK l \in 1..n : KeptAs(ts[l], s.active[j], p, c)
    BY <1>11 DEF TradesTurned
  <2>2. TradeOK(ts[l]) /\ l \in DOMAIN ts
    BY <1>3, <1>4 DEF OnePerPair
  <2>3. s.active[j].pair = ts[l].pair /\ Tighter(ts[l], s.active[j])
    <3>1. Tighter(ts[l], ts[l])
      BY <2>2 DEF Tighter, TradeOK
    <3> QED
      BY <2>1, <2>2, <3>1, ManagedKeeps DEF KeptAs
  <2>4. active[i].pair \notin DOMAIN pending
    BY DEF BooksOK, OnePerPair
  <2>5. l \in DOMAIN active /\ ts[l] = active[l]
    BY <1>3, <1>14, <2>2, <2>3, <2>4
  <2>6. l = i
    BY <1>14, <2>3, <2>5 DEF BooksOK, OnePerPair
  <2> QED
    BY <2>3, <2>5, <2>6
<1> QED
  BY <1>13, <1>14

-----------------------------------------------------------------------------
(* A setup of the strategy, and the replay.                                  *)

\* What the guardrails let pass.
LEMMA AcceptedIs ==
    ASSUME NEW s, NEW p, NEW plan, NEW r, Accepted(s, p, plan, r)
    PROVE  /\ \A i \in DOMAIN s.active : s.active[i].pair # p
           /\ Distance(plan) # 0
  BY Zenon DEF Accepted

\* The entry made of a plan is an order like the others.
LEMMA EntryOK ==
    ASSUME NEW p, NEW plan \in Plans, Distance(plan) # 0, NEW money \in Int, NEW t, t = Entry(p, plan, money)
    PROVE  TradeOK(t) /\ t.pair = p
<1>1. /\ plan.entry \in Nat \ {0} /\ plan.sl \in Nat /\ plan.tp1 \in Nat /\ plan.tp2 \in Nat
      /\ IF plan.dir = "long" THEN plan.sl <= plan.entry /\ plan.entry <= plan.tp1
         ELSE plan.sl >= plan.entry /\ plan.entry >= plan.tp1
  BY SidesAssumption
<1>2. Distance(plan) \in Nat \ {0} /\ plan.entry # plan.sl
  BY <1>1 DEF Distance
<1>3. SizeOf(plan, money) \in Int
  <2> DEFINE x == 100 * FeeScale * Distance(plan)
             y == plan.entry * FeeScale
  <2>1. FeeScale \in Nat \ {0} /\ RiskPct \in Nat /\ MaxLeverage \in Nat
    BY MoneyAssumption
  <2>2. money * RiskPct \in Int /\ money * MaxLeverage \in Int
    BY <2>1
  <2>3. x \in Nat \ {0}
    <3> DEFINE d == Distance(plan)
    <3>1. d \in Nat \ {0}
      BY <1>2
    <3> HIDE DEF d
    <3>2. 100 * FeeScale \in Nat \ {0}
      BY <2>1
    <3>3. 100 * FeeScale * d \in Nat \ {0}
      BY <3>1, <3>2
    <3> QED
      BY <3>3 DEF d
  <2>4. y \in Nat \ {0}
    BY <1>1, <2>1
  <2> DEFINE u == money * RiskPct
             v == money * MaxLeverage
  <2> HIDE DEF x, y, u, v
  <2>5. u \div x \in Int /\ v \div y \in Int
    BY <2>2, <2>3, <2>4 DEF u, v
  <2> QED
    BY <2>5 DEF SizeOf, x, y, u, v
<1>4. /\ DOMAIN t = TradeFields /\ t.pair = p /\ t.dir = plan.dir /\ t.entry = plan.entry /\ t.sl = plan.sl
      /\ t.tp1 = plan.tp1 /\ t.tp2 = plan.tp2 /\ t.size = SizeOf(plan, money) /\ t.stop = plan.sl
      /\ t.breakeven = FALSE /\ t.moved = FALSE /\ t.level = 0
  <2> DEFINE x == SizeOf(plan, money)
             d == Now + EntryTime(plan.quick)
  <2>1. t = [pair |-> p, dir |-> plan.dir, entry |-> plan.entry, sl |-> plan.sl, tp1 |-> plan.tp1,
             tp2 |-> plan.tp2, quick |-> plan.quick, size |-> x, stop |-> plan.sl,
             breakeven |-> FALSE, moved |-> FALSE, level |-> 0, deadline |-> d, filledAt |-> Never]
    BY DEF Entry
  <2> HIDE DEF x, d
  <2>2. /\ t.pair = p /\ t.dir = plan.dir /\ t.entry = plan.entry /\ t.sl = plan.sl
        /\ t.tp1 = plan.tp1 /\ t.tp2 = plan.tp2 /\ t.size = x /\ t.stop = plan.sl
        /\ t.breakeven = FALSE /\ t.moved = FALSE /\ t.level = 0
    BY <2>1
  <2>3. DOMAIN t = TradeFields
    BY <2>1 DEF TradeFields
  <2> QED
    BY <2>2, <2>3 DEF x
<1>5. Long(t) <=> plan.dir = "long"
  BY <1>4 DEF Long
<1>6. t.sl # t.entry /\ TradeFields \subseteq DOMAIN t /\ t.size \in Int /\ t.stop = t.sl
  BY <1>2, <1>3, <1>4
<1>7. IF Long(t) THEN t.sl <= t.entry /\ t.entry <= t.tp1 ELSE t.sl >= t.entry /\ t.entry >= t.tp1
  BY <1>1, <1>4, <1>5
<1>8. /\ t.entry \in Nat \ {0} /\ t.sl \in Nat /\ t.tp1 \in Nat /\ t.tp2 \in Nat /\ t.stop \in Int
      /\ t.breakeven = FALSE /\ t.moved = FALSE /\ t.level = 0 /\ t.pair = p
  BY <1>1, <1>4
<1>9. /\ t.breakeven \in BOOLEAN /\ t.moved \in BOOLEAN /\ (t.moved => t.breakeven)
      /\ t.stop = (IF t.level = 0 THEN t.sl ELSE InFavour(t, Step10(t, t.level)))
      /\ t.stop = (IF t.moved THEN t.tp1 ELSE IF t.breakeven THEN t.entry ELSE t.sl)
  BY <1>6, <1>8
<1>10. IF Trailing THEN t.stop = IF t.level = 0 THEN t.sl ELSE InFavour(t, Step10(t, t.level))
       ELSE /\ t.stop = IF t.moved THEN t.tp1 ELSE IF t.breakeven THEN t.entry ELSE t.sl
            /\ t.moved => t.breakeven
  BY <1>9
<1>11. t.level \in Nat /\ t.stop \in Int
  BY <1>8
<1>12. TradeOK(t)
  BY <1>6, <1>7, <1>8, <1>9, <1>10, <1>11 DEF TradeOK
<1> QED
  BY <1>8, <1>12

\* A setup leaves the books balanced and the trades alone.
LEMMA SetupKeeps ==
    ASSUME NEW s, Balanced(s), NEW p, NEW plan \in Plans, NEW u, u = OnSetup(s, p, plan)
    PROVE  Balanced(u) /\ u.active = s.active
<1> DEFINE today == Today(s.risk)
<1>1. CASE ~Accepted(s, p, plan, today)
  <2>1. u = [s EXCEPT !.risk = Today(s.risk)]
    BY <1>1 DEF OnSetup
  <2>2. /\ DOMAIN u = DOMAIN s /\ u.pending = s.pending /\ u.active = s.active /\ u.closed = s.closed
        /\ u.equity = s.equity /\ u.funnel = s.funnel
    BY <2>1
  <2> QED
    BY <2>2 DEF Balanced
<1>2. CASE Accepted(s, p, plan, today)
  <2> DEFINE pend == s.pending
             e    == Entry(p, plan, s.equity)
             more == With(pend, p, e)
             old  == p \in DOMAIN pend
             gone == Result(pend[p], "pending_replaced", 0)
             cs   == IF old THEN Append(s.closed, gone) ELSE s.closed
             rk   == OneMoreToday(s.risk)
             f    == s.funnel
             g    == Created(f, old)
  <2>1. u = [s EXCEPT !.pending = more, !.closed = cs, !.risk = rk, !.funnel = g]
    <3>1. u = Placed(s, p, plan)
      BY <1>2 DEF OnSetup
    <3> QED
      BY <3>1 DEF Placed
  <2>2. /\ DOMAIN s = {"pending", "active", "closed", "equity", "risk", "funnel"}
        /\ OnePerPair(pend, s.active) /\ Accounted(s.closed, s.equity) /\ s.equity \in Int
        /\ Counts(f, pend, s.active, s.closed)
    BY DEF Balanced, Accounted
  <2>3. (\A i \in DOMAIN s.active : s.active[i].pair # p) /\ Distance(plan) # 0
    BY <1>2, AcceptedIs
  <2>4. TradeOK(e) /\ e.pair = p
    BY <2>2, <2>3, EntryOK
  <2> HIDE DEF e
  <2>5. DOMAIN more = DOMAIN pend \cup {p} /\ more[p] = e /\ \A q \in DOMAIN pend \ {p} : more[q] = pend[q]
    BY DEF With
  <2>6. gone.pnl = 0 /\ gone.reason \in Void
    BY DEF Result, Void
  <2> HIDE DEF more, gone, rk
  <2>7. /\ DOMAIN u = {"pending", "active", "closed", "equity", "risk", "funnel"}
        /\ u.pending = more /\ u.active = s.active /\ u.closed = cs /\ u.equity = s.equity /\ u.funnel = g
    <3> HIDE DEF cs, g
    <3> QED
      BY <2>1, <2>2
  <2>8. IsFiniteSet(DOMAIN pend) /\ Cardinality(DOMAIN pend) \in Nat
    BY <2>2, FS_CardinalityType DEF OnePerPair
  <2>9. IsFiniteSet(DOMAIN more)
        /\ Cardinality(DOMAIN more) = Cardinality(DOMAIN pend) + (IF old THEN 0 ELSE 1)
    BY <2>5, <2>8, FS_AddElement
  <2>10. OnePerPair(more, s.active)
    BY <2>2, <2>3, <2>4, <2>5, <2>9 DEF OnePerPair
  <2>11. Accounted(cs, s.equity)
    <3>1. CASE ~old
      BY <2>2, <3>1
    <3>2. CASE old
      <4> DEFINE as == Append(s.closed, gone)
      <4>1. Accounted(as, s.equity + gone.pnl)
        BY <2>2, <2>6, ResultBooked
      <4>2. s.equity + gone.pnl = s.equity
        BY <2>2, <2>6
      <4> HIDE DEF as
      <4>3. Accounted(as, s.equity)
        BY <4>1, <4>2
      <4> QED
        BY <3>2, <4>3 DEF as
    <3> QED
      BY <3>1, <3>2
  <2>12. Counts(g, more, s.active, cs)
    <3> DEFINE orders == Cardinality(DOMAIN pend)
               trading == Len(s.active)
               all == Len(s.closed)
               counted == Cardinality(Trades(s.closed))
               decided == WinsAndLosses(s.closed)
               d == IF old THEN 0 ELSE 1
               b == IF old THEN 1 ELSE 0
    <3>1. Tallied(f, orders, trading, all, counted, decided)
      BY <2>2 DEF Counts
    <3>2. Len(cs) = all + b /\ Cardinality(Trades(cs)) = counted /\ WinsAndLosses(cs) = decided
      <4>1. CASE old
        <5> DEFINE as == Append(s.closed, gone)
        <5>1. ASequence(s.closed)
          BY <2>2 DEF Accounted
        <5>2. /\ Len(as) = all + 1 /\ Cardinality(Trades(as)) = counted + 0 /\ WinsAndLosses(as) = decided + 0
              /\ counted \in Nat /\ decided \in Nat
          BY <2>6, <5>1, ResultCounted
        <5> HIDE DEF as, all, counted, decided
        <5>3. Len(as) = all + 1 /\ Cardinality(Trades(as)) = counted /\ WinsAndLosses(as) = decided
          BY <5>2
        <5> QED
          BY <4>1, <5>3 DEF as
      <4>2. CASE ~old
        <5>1. all \in Nat
          BY <3>1 DEF Tallied
        <5> HIDE DEF all, counted, decided
        <5>2. all + 0 = all
          BY <5>1
        <5> QED
          BY <4>2, <5>2 DEF all, counted, decided
      <4> QED
        BY <4>1, <4>2
    <3> HIDE DEF orders, trading, all, counted, decided, cs
    <3>3. Cardinality(DOMAIN more) = orders + d
      BY <2>9 DEF orders
    <3>4. /\ DOMAIN f = {"created", "replaced", "timeout", "filled"}
          /\ f.created \in Nat /\ f.replaced \in Nat /\ f.timeout \in Nat /\ f.filled \in Nat
          /\ orders \in Nat /\ trading \in Nat /\ all \in Nat /\ counted \in Nat /\ decided \in Nat
          /\ f.created = f.replaced + f.timeout + f.filled + orders
          /\ f.replaced + f.timeout + counted = all
          /\ f.filled = trading + decided
      BY <3>1 DEF Tallied
    <3>5. d \in Nat /\ b \in Nat /\ d + b = 1
      OBVIOUS
    <3>6. /\ DOMAIN g = {"created", "replaced", "timeout", "filled"} /\ g.created = f.created + 1
          /\ g.replaced = f.replaced + b /\ g.timeout = f.timeout /\ g.filled = f.filled
      <4> HIDE DEF f, old
      <4>1. f.replaced + 0 = f.replaced
        BY <3>4
      <4> QED
        BY <3>4, <4>1 DEF Created
    <3> HIDE DEF d, b, g, f
    <3>7. g.created \in Nat /\ g.replaced \in Nat /\ orders + d \in Nat /\ all + b \in Nat
      BY <3>4, <3>5, <3>6
    <3>8. g.created = g.replaced + g.timeout + g.filled + (orders + d)
      BY <3>4, <3>5, <3>6
    <3>9. g.replaced + g.timeout + counted = all + b
      BY <3>4, <3>5, <3>6
    <3>10. Tallied(g, orders + d, trading, all + b, counted, decided)
      BY <3>4, <3>6, <3>7, <3>8, <3>9 DEF Tallied
    <3> QED
      BY <3>2, <3>3, <3>10 DEF Counts, trading
  <2> HIDE DEF cs, g
  <2> QED
    BY <2>7, <2>10, <2>11, <2>12 DEF Balanced
<1> QED
  BY <1>1, <1>2

\* A candle of the replay, with the setup the strategy may find in it.
LEMMA BacktestStep ==
    ASSUME BooksOK, [BacktestNext]_backtestVars
    PROVE  /\ BooksOK'
           /\ \A i \in DOMAIN active, j \in DOMAIN active' :
                 active'[j].pair = active[i].pair => Tighter(active[i], active'[j])
<1>1. CASE UNCHANGED backtestVars
  <2>1. BooksOK'
    <3>1. pending' = pending /\ active' = active /\ closed' = closed /\ equity' = equity /\ funnel' = funnel
      BY <1>1 DEF backtestVars
    <3> QED
      BY <3>1 DEF BooksOK
  <2>2. ASSUME NEW i \in DOMAIN active, NEW j \in DOMAIN active, active[j].pair = active[i].pair
        PROVE  Tighter(active[i], active[j])
    BY <2>2 DEF BooksOK, OnePerPair, TradeOK, Tighter
  <2> QED
    BY <1>1, <2>1, <2>2 DEF backtestVars
<1>2. CASE Replay
  <2>1. PICK c \in Candles, lucky \in BOOLEAN :
          \E s \in {AfterCandle(Pairs[turn], c, lucky)} :
            \/ Becomes(s)
            \/ \E plan \in Plans : Becomes(OnSetup(s, Pairs[turn], plan))
    BY <1>2, Zenon DEF Replay
  <2> DEFINE p == Pairs[turn]
             s == AfterCandle(p, c, lucky)
  <2>2. /\ Balanced(s)
        /\ \A i \in DOMAIN active, j \in DOMAIN s.active :
              s.active[j].pair = active[i].pair => Tighter(active[i], s.active[j])
    BY CandleKeeps
  <2> HIDE DEF s
  <2>3. PICK u : Becomes(u) /\ Balanced(u) /\ u.active = s.active
    <3>1. CASE Becomes(s)
      BY <2>2, <3>1
    <3>2. ASSUME NEW plan \in Plans, Becomes(OnSetup(s, p, plan))
          PROVE  \E u : Becomes(u) /\ Balanced(u) /\ u.active = s.active
      BY <2>2, <3>2, SetupKeeps
    <3> QED
      BY <2>1, <3>1, <3>2 DEF s
  <2>4. pending' = u.pending /\ active' = u.active /\ closed' = u.closed /\ equity' = u.equity /\ funnel' = u.funnel
    BY <2>3 DEF Becomes
  <2>5. BooksOK'
    BY <2>3, <2>4 DEF Balanced, BooksOK
  <2> QED
    BY <2>2, <2>3, <2>4, <2>5
<1> QED
  BY <1>1, <1>2 DEF BacktestNext

LEMMA BacktestStart == BacktestInit => BooksOK
<1> SUFFICES ASSUME BacktestInit PROVE BooksOK
  OBVIOUS
<1>1. ASequence(<<>>) /\ Len(<<>>) = 0 /\ DOMAIN <<>> = {}
  BY DEF ASequence
<1>2. /\ pending = <<>> /\ active = <<>> /\ closed = <<>> /\ equity = Capital * FeeScale
      /\ funnel = [created |-> 0, replaced |-> 0, timeout |-> 0, filled |-> 0]
  BY DEF BacktestInit
<1>3. IsFiniteSet(DOMAIN pending) /\ Cardinality(DOMAIN pending) = 0
  BY <1>1, <1>2, FS_EmptySet
<1>4. OnePerPair(pending, active)
  BY <1>1, <1>2, <1>3 DEF OnePerPair
<1>5. Accounted(closed, equity)
  <2> DEFINE k == Capital * FeeScale
  <2>1. k \in Int
    BY MoneyAssumption
  <2>2. Earned(closed) = 0
    BY <1>2, EarnedNone
  <2>3. equity = k /\ ASequence(closed)
    BY <1>1, <1>2
  <2> HIDE DEF k
  <2>4. equity \in Int /\ equity = k + Earned(closed)
    BY <2>1, <2>2, <2>3
  <2> QED
    BY <2>2, <2>3, <2>4 DEF Accounted, k
<1>6. Counts(funnel, pending, active, closed)
  <2>1. Trades(closed) = {}
    BY <1>1, <1>2 DEF Trades
  <2>2. Wins(closed) = {} /\ Losses(closed) = {}
    BY <2>1 DEF Wins, Losses
  <2>3. Cardinality(Trades(closed)) = 0 /\ WinsAndLosses(closed) = 0
    BY <2>1, <2>2, FS_EmptySet DEF WinsAndLosses
  <2>4. Tallied(funnel, 0, 0, 0, 0, 0)
    BY <1>2 DEF Tallied
  <2> QED
    BY <1>1, <1>2, <1>3, <2>3, <2>4 DEF Counts
<1> QED
  BY <1>4, <1>5, <1>6 DEF BooksOK

LEMMA BooksAre == BooksOK => BooksBalance
<1> SUFFICES ASSUME BooksOK PROVE BooksBalance
  OBVIOUS
<1> DEFINE orders == Cardinality(DOMAIN pending)
           all == Len(closed)
           counted == Cardinality(Trades(closed))
           decided == WinsAndLosses(closed)
           trading == Len(active)
<1>1. Tallied(funnel, orders, trading, all, counted, decided)
  BY DEF BooksOK, Counts
<1>2. /\ \A i, j \in DOMAIN active : active[i].pair = active[j].pair => i = j
      /\ \A i \in DOMAIN active : active[i].pair \notin DOMAIN pending
      /\ equity = Capital * FeeScale + Earned(closed)
  BY DEF BooksOK, OnePerPair, Accounted
<1> DEFINE w == Cardinality(Wins(closed))
           l == Cardinality(Losses(closed))
<1>3. decided = w + l /\ w \in Nat /\ l \in Nat
  <2>1. ASequence(closed)
    BY DEF BooksOK, Accounted
  <2>2. decided = w + l
    BY DEF WinsAndLosses
  <2> DEFINE e == [pnl |-> 0, reason |-> "open"]
  <2>3. e.pnl \in Int
    OBVIOUS
  <2> QED
    BY <2>1, <2>2, <2>3, MoreCounted
<1> HIDE DEF orders, all, counted, decided, trading, w, l
<1>4. /\ funnel.created = funnel.replaced + funnel.timeout + funnel.filled + orders
      /\ funnel.replaced + funnel.timeout = all - counted
      /\ funnel.filled = trading + w + l
  BY <1>1, <1>3 DEF Tallied
<1> QED
  BY <1>2, <1>4 DEF BooksBalance, orders, all, counted, trading, w, l

-----------------------------------------------------------------------------
\* What an approval risks stays within the account (position_sizer.py), the
\* books of the backtests balance, and no lost campaign's entry is taken again
\* (backtest.py).
THEOREM MoneyIsAccounted == Spec => []MoneyAccounted
<1> DEFINE Inv == SizeInv /\ HtfInv /\ BooksOK
<1>1. Init => Inv
  BY SizingStart, HtfStart, BacktestStart DEF Init
<1>2. Inv /\ [Next]_vars => Inv'
  <2> SUFFICES ASSUME Inv, [Next]_vars PROVE Inv'
    OBVIOUS
  <2>1. [SizingNext]_sizingVars /\ [Htf!ReplayNext]_htfVars /\ [BacktestNext]_backtestVars
    BY DEF Next, vars, Idles
  <2> QED
    BY <2>1, SizingStep, HtfStep, BacktestStep
<1>3. Inv => MoneyAccounted
  BY HtfIs, BooksAre DEF SizeInv, MoneyAccounted
<1> QED
  BY <1>1, <1>2, <1>3, PTL DEF Spec

-----------------------------------------------------------------------------
(* The manual journal.  A request keeps what it is.                          *)

ManualInv ==
    /\ DOMAIN req = Requests
    /\ \A r \in Requests : "op" \in DOMAIN req[r] /\ "pc" \in DOMAIN req[r]

LEMMA NothingShared == partials = <<>> => ClosedShare = 0
<1> SUFFICES ASSUME partials = <<>> PROVE ClosedShare = 0
  OBVIOUS
<1> DEFINE To0(f) == [k \in 0..0 |-> IF k = 0 THEN 0 ELSE f[k - 1] + partials[k].share]
           zero == [k \in 0..0 |-> 0]
           sum == CHOOSE f : f = To0(f)
<1>1. Len(partials) = 0
  OBVIOUS
<1>2. zero = To0(zero)
  OBVIOUS
<1>3. sum = To0(sum)
  <2> HIDE DEF zero, To0
  <2> QED
    BY <1>2
<1>4. ClosedShare = sum[0]
  BY <1>1 DEF ClosedShare
<1> HIDE DEF sum
<1> QED
  BY <1>3, <1>4


\* A step of a request changes its handler only.
HandlerMoves(r) == /\ DOMAIN req' = Requests /\ "op" \in DOMAIN req'[r] /\ "pc" \in DOMAIN req'[r]
                   /\ \A q \in Requests \ {r} : req'[q] = req[q]

LEMMA HandlerSteps ==
    ASSUME ManualInv, NEW r \in Requests
    PROVE  /\ \A op : Starts(r, op) => (req[r] = Idle /\ DOMAIN req' = Requests /\ req'[r] = op
                                       /\ \A q \in Requests \ {r} : req'[q] = req[q])
           /\ \A at : Continues(r, at) => (HandlerMoves(r) /\ req'[r].op = req[r].op /\ req'[r].pc = at)
           /\ Ends(r) => (HandlerMoves(r) /\ req'[r] = Idle)
  BY DEF ManualInv, Starts, Continues, Ends, HandlerMoves, Idle

\* A trade is left open by an update or by a request that stops.
Answerable == (~Stranded /\ Stranded') => aborts' # aborts \/ \E r \in Requests : req[r].op = "update"

LEMMA AbortsStep == aborts \in Nat /\ [ManualNext]_manualVars => aborts' \in Nat
  BY DEF ManualNext, Abort, manualVars

LEMMA ManualStep ==
    ManualInv /\ aborts \in Nat /\ [ManualNext]_manualVars => ManualInv' /\ Answerable
<1> SUFFICES ASSUME ManualInv, aborts \in Nat, [ManualNext]_manualVars
             PROVE  ManualInv' /\ Answerable
  OBVIOUS
<1> USE DEF Answerable
<1> DEFINE Goal == ManualInv' /\ Answerable
           Same == UNCHANGED <<trade, partials>>
<1>1. ASSUME Same PROVE ClosedShare' = ClosedShare /\ (Settling' = Settling => Stranded' = Stranded)
  BY <1>1 DEF ClosedShare, Stranded
<1>2. CASE UNCHANGED manualVars
  BY <1>1, <1>2 DEF manualVars, ManualInv, Settling
<1>3. ASSUME NEW r \in Requests, HandlerMoves(r) PROVE ManualInv'
  BY <1>3 DEF ManualInv, HandlerMoves
<1>4. ASSUME NEW r \in Requests, HandlerMoves(r), req'[r].op = "partial", req'[r].pc # "insert" PROVE Goal
  BY <1>3, <1>4 DEF Stranded, Settling
<1>5. ASSUME NEW r \in Requests, HandlerMoves(r), req[r].op = "update" PROVE Goal
  BY <1>3, <1>5
<1>6. ASSUME NEW r \in Requests, ReadBalance(r, "update") \/ WriteBalance(r, "update", "row") \/ UpdateRow(r)
      PROVE  Goal
  <2>1. HandlerMoves(r) /\ req[r].op = "update"
    BY <1>6, HandlerSteps DEF ReadBalance, WriteBalance, UpdateRow, At, HandlerMoves, ManualInv
  <2> QED
    BY <1>5, <2>1
<1>7. ASSUME NEW r \in Requests, ReadBalance(r, "partial") \/ WriteBalance(r, "partial", "total") \/ ReadSum(r)
      PROVE  Goal
  <2>1. HandlerMoves(r) /\ req'[r].op = "partial" /\ req'[r].pc # "insert"
    BY <1>7, HandlerSteps DEF ReadBalance, WriteBalance, ReadSum, At, HandlerMoves, ManualInv
  <2> QED
    BY <1>4, <2>1
<1>8. ASSUME NEW r \in Requests, Create(r) \/ DeleteRow(r) \/ CloseTrade(r) PROVE Goal
  <2>1. trade'.status # "active"
    BY <1>8 DEF Create, DeleteRow, CloseTrade, Exists
  <2>2. ManualInv'
    BY <1>3, <1>8, HandlerSteps DEF Create, DeleteRow, CloseTrade, ManualInv
  <2> QED
    BY <2>1, <2>2 DEF Stranded
<1>9. ASSUME NEW r \in Requests, SetBalance(r) PROVE Goal
  BY <1>1, <1>9 DEF SetBalance, ManualInv, Settling
<1>10. ASSUME NEW r \in Requests, Update(r) \/ PartialClose(r) PROVE Goal
  <2>1. PICK op : Starts(r, op) /\ "op" \in DOMAIN op /\ "pc" \in DOMAIN op /\ (op.op = "partial" => op.pc = "insert")
    <3>1. CASE Update(r)
      <4> PICK status, move :
            Starts(r, [op |-> "update", pc |-> AfterPnl(IF status = "closed" THEN move ELSE 0, "row"), status |-> status,
                       pnl |-> IF status = "closed" THEN move ELSE 0, seen |-> 0])
        BY <3>1 DEF Update
      <4> QED
        OBVIOUS
    <3>2. CASE PartialClose(r)
      <4> PICK share, move :
            Starts(r, [op |-> "partial", pc |-> "insert", share |-> share, pnl |-> Percent(share, move),
                       seen |-> 0, total |-> 0, sum |-> 0])
        BY <3>2 DEF PartialClose
      <4> QED
        OBVIOUS
    <3> QED
      BY <1>10, <3>1, <3>2
  <2>2. /\ req[r] = Idle /\ DOMAIN req' = Requests /\ req'[r] = op
        /\ \A q \in Requests \ {r} : req'[q] = req[q]
    BY <2>1, HandlerSteps
  <2>3. Same
    BY <1>10 DEF Update, PartialClose
  <2>4. ManualInv'
    BY <2>1, <2>2 DEF ManualInv
  <2>5. Settling' = Settling
    BY <2>1, <2>2 DEF Settling, Idle
  <2> QED
    BY <1>1, <2>3, <2>4, <2>5
<1>11. ASSUME NEW r \in Requests, InsertPartial(r) PROVE Goal
  <2>1. CASE Exists
    <3>1. HandlerMoves(r) /\ req'[r].op = "partial" /\ req'[r].pc # "insert"
      BY <1>11, <2>1, HandlerSteps DEF InsertPartial, At, AfterPnl
    <3> QED
      BY <1>4, <3>1
  <2>2. CASE ~Exists
    <3>1. trade'.status # "active" /\ HandlerMoves(r)
      BY <1>11, <2>2, HandlerSteps DEF InsertPartial, Exists
    <3> QED
      BY <1>3, <3>1 DEF Stranded
  <2> QED
    BY <2>1, <2>2
<1>12. ASSUME NEW r \in Requests, ReadTotal(r) PROVE Goal
  <2>1. CASE ClosedShare >= 100
    <3>1. HandlerMoves(r) /\ req'[r].op = "partial" /\ req'[r].pc # "insert"
      BY <1>12, <2>1, HandlerSteps DEF ReadTotal, At
    <3> QED
      BY <1>4, <3>1
  <2>2. CASE ~(ClosedShare >= 100)
    <3>1. HandlerMoves(r) /\ Same
      BY <1>12, <2>2, HandlerSteps DEF ReadTotal
    <3> QED
      BY <1>1, <1>3, <2>2, <3>1 DEF Stranded
  <2> QED
    BY <2>1, <2>2
<1>13. ASSUME NEW r \in Requests, Delete(r) PROVE Goal
  <2>1. partials' = <<>> /\ Starts(r, [op |-> "delete", pc |-> "row"])
    BY <1>13 DEF Delete
  <2>2. ManualInv'
    BY <2>1, HandlerSteps DEF ManualInv
  <2>3. ~Stranded'
    <3>1. ClosedShare' = 0
      <4>1. (partials = <<>> => ClosedShare = 0)'
        BY NothingShared, PTL
      <4> QED
        BY <2>1, <4>1
    <3> QED
      BY <3>1 DEF Stranded
  <2> QED
    BY <2>2, <2>3
<1>14. ASSUME NEW r \in Requests, Abort(r) PROVE Goal
  <2>1. HandlerMoves(r) /\ aborts' = aborts + 1
    BY <1>14, HandlerSteps DEF Abort
  <2> QED
    BY <1>3, <2>1
<1> QED
  BY <1>2, <1>6, <1>7, <1>8, <1>9, <1>10, <1>11, <1>12, <1>13, <1>14 DEF ManualNext, HandlerStep

LEMMA ManualStart == ManualInit => ManualInv /\ aborts \in Nat
  BY DEF ManualInit, ManualInv, Idle

-----------------------------------------------------------------------------
(* The market snapshot.  Without a failed poll, what is critical is polled    *)
(* again before Redis drops it.                                              *)

HealthInv ==
    /\ indFaults \in Nat
    /\ indFaults = 0 =>
         /\ funding # None => /\ funding \in Nat /\ fundingDue \in Nat
                              /\ funding + fundingDue = FundingEvery
         /\ oi \in {None, 0, 1}
         /\ "oi" \in polled => oi = 0

LEMMA HealthIs ==
    CriticalHealthy <=> (funding # None /\ ~(funding > FundingStale) /\ oi # None /\ ~(oi > OiStale))
<1>1. /\ Sources["funding"] = funding /\ Sources["oi"] = oi
      /\ Stale["funding"] = FundingStale /\ Stale["oi"] = OiStale
      /\ {"funding", "oi"} \subseteq DOMAIN Sources
  BY DEF Sources, Stale
<1>2. \A s \in {"funding", "oi"} : s \in Missing \cup StaleOnes <=> Sources[s] = None \/ Sources[s] > Stale[s]
  BY <1>1 DEF Missing, StaleOnes
<1> QED
  BY <1>1, <1>2 DEF CriticalHealthy

LEMMA HealthStep ==
    HealthInv /\ [IndicatorsNext]_indVars => HealthInv' /\ (CriticalHealthy /\ ~CriticalHealthy' => indFaults > 0)
<1> SUFFICES ASSUME HealthInv, [IndicatorsNext]_indVars
             PROVE  HealthInv' /\ (CriticalHealthy /\ ~CriticalHealthy' => indFaults > 0)
  OBVIOUS
<1>1. (CriticalHealthy <=> (funding # None /\ ~(funding > FundingStale) /\ oi # None /\ ~(oi > OiStale)))'
  BY HealthIs, PTL
<1>2. CriticalHealthy <=> (funding # None /\ ~(funding > FundingStale) /\ oi # None /\ ~(oi > OiStale))
  BY HealthIs
<1>3. CASE UNCHANGED indVars
  BY <1>1, <1>2, <1>3 DEF HealthInv, indVars
<1>4. ASSUME NEW ok \in BOOLEAN, Answered(ok), FundingPoll(ok)
      PROVE  HealthInv' /\ (CriticalHealthy /\ ~CriticalHealthy' => indFaults > 0)
  BY <1>1, <1>2, <1>4, LifetimeAssumption DEF HealthInv, Answered, FundingPoll, FundingSleeps, None
<1>5. ASSUME NEW ok \in BOOLEAN, Answered(ok), OiPoll(ok)
      PROVE  HealthInv' /\ (CriticalHealthy /\ ~CriticalHealthy' => indFaults > 0)
  BY <1>1, <1>2, <1>5, LifetimeAssumption DEF HealthInv, Answered, OiPoll, None
<1>6. ASSUME NEW ok \in BOOLEAN, Answered(ok), NewsPoll(ok)
      PROVE  HealthInv' /\ (CriticalHealthy /\ ~CriticalHealthy' => indFaults > 0)
  BY <1>1, <1>2, <1>6 DEF HealthInv, Answered, NewsPoll, None
<1>7. CASE IndicatorTick
  BY <1>1, <1>2, <1>7, LifetimeAssumption DEF HealthInv, IndicatorTick, Older, None
<1> QED
  BY <1>3, <1>4, <1>5, <1>6, <1>7 DEF IndicatorsNext

LEMMA HealthStart == IndicatorsInit => HealthInv
  BY LifetimeAssumption DEF IndicatorsInit, HealthInv, None

-----------------------------------------------------------------------------
\* A stop of the backtest never loosens; the partial closes of a manual trade
\* that add up to all of it close it, but for one that stops on its way
\* (trade_manager.py); and the health of the market snapshot is lost only to a
\* failed poll (data_service/service.py).
THEOREM NothingTurnsBack == Spec => OneWay
<1> DEFINE Inv == BooksOK /\ ManualInv /\ aborts \in Nat /\ HealthInv
<1>1. Init => Inv
  BY BacktestStart, ManualStart, HealthStart DEF Init
<1>2. Inv /\ [Next]_vars
        => [BacktestNext]_backtestVars /\ [ManualNext]_manualVars /\ [IndicatorsNext]_indVars
  BY DEF Next, vars, Idles
<1>3. Inv /\ [Next]_vars => Inv'
  BY <1>2, BacktestStep, ManualStep, AbortsStep, HealthStep
<1>4. Inv /\ [Next]_vars =>
        [\A i \in DOMAIN active, j \in DOMAIN active' :
            (active'[j].pair = active[i].pair /\ active'[j].filledAt = active[i].filledAt)
               => IF Long(active[i]) THEN active'[j].stop >= active[i].stop
                  ELSE active'[j].stop <= active[i].stop]_backtestVars
  BY <1>2, BacktestStep DEF Tighter
<1>5. Inv /\ [Next]_vars => [Answerable]_manualVars
  BY <1>2, ManualStep
<1>6. Inv /\ [Next]_vars => [CriticalHealthy /\ ~CriticalHealthy' => indFaults > 0]_indVars
  BY <1>2, HealthStep
<1> HIDE DEF Inv
<1>7. Spec => []Inv
  BY <1>1, <1>3, PTL DEF Spec
<1>8. Spec => StopTightens
  BY <1>4, <1>7, PTL DEF Spec, StopTightens
<1>9. Spec => AllClosedIsClosed
  BY <1>5, <1>7, PTL DEF Spec, AllClosedIsClosed, Answerable
<1>10. Spec => HealthKept
  BY <1>6, <1>7, PTL DEF Spec, HealthKept
<1> QED
  BY <1>8, <1>9, <1>10 DEF OneWay
=============================================================================
