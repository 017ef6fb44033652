--------------------------- MODULE Signals_proofs ---------------------------
(***************************************************************************)
(* Proofs about MCSignals, for every market and every setting: signals of  *)
(* one kind keep their distance, nothing is decided on what comes later,   *)
(* plans are sound, neither side is favoured, zones stand and so does what *)
(* was recorded.                                                           *)
(*                                                                         *)
(* Most of the state is only candles, so the work is in what the loops of  *)
(* the code compute: each has a loop invariant, carried by an induction    *)
(* over the sets of turns that keep it (LoopInduction).                    *)
(***************************************************************************)
EXTENDS MCSignals, SequenceTheorems, FiniteSetTheorems, WellFoundedInduction, TLAPS

-----------------------------------------------------------------------------
\* The router: orders of a type, and orders of a candle.

\* A type's stamp is at least as late as its last order; an order of the
\* present candle has taken the slot; two types have no candle in common.
RouterInv ==
    /\ clock \in Nat
    /\ stamp \in [Types -> Int] /\ sent \in [Types -> Int]
    /\ \A t \in Types : sent[t] # -1 => stamp[t] # -1 /\ sent[t] <= stamp[t] /\ sent[t] <= clock
    /\ ~slot => \A t \in Types : sent[t] # clock
    /\ OneOrderPerCandle

\* The step of a stamp: it is the present candle's, or what it was.
LEMMA StampKeeps ==
    ASSUME RouterInv, NEW t \in Types, stamp' = [stamp EXCEPT ![t] = clock], UNCHANGED <<clock, slot, sent>>
    PROVE  RouterInv'
BY DEF RouterInv, OneOrderPerCandle

\* An order: it takes the slot, and its candle is no other order's.
LEMMA OrderKeeps ==
    ASSUME RouterInv, NEW t \in Types, ~slot, slot' = TRUE, stamp' = [stamp EXCEPT ![t] = clock],
           sent' = [sent EXCEPT ![t] = clock], clock' = clock
    PROVE  RouterInv'
BY DEF RouterInv, OneOrderPerCandle

\* Every type of the queue is a type.
QueueTyped == queue \in Seq(Types)

LEMMA RouterStep ==
    ASSUME RouterInv, QueueTyped, RouterNext
    PROVE  RouterInv' /\ QueueTyped' /\ OrderApart("live", LiveTtl)
<1> USE DEF QueueTyped
<1>1. queue # <<>> => Type \in Types /\ Tail(queue) \in Seq(Types)
  BY DEF Type
<1>2. CASE CandleArrives
  <2>0. clock' = clock + 1 /\ slot' = FALSE /\ UNCHANGED <<stamp, sent>>
    BY <1>2 DEF CandleArrives
  <2>3. \A t \in Types : sent[t] # clock + 1 /\ (sent[t] # -1 => sent[t] <= clock + 1)
    <3> SUFFICES ASSUME NEW t \in Types PROVE sent[t] # clock + 1 /\ (sent[t] # -1 => sent[t] <= clock + 1)
      OBVIOUS
    <3>1. sent[t] \in Int /\ clock \in Nat /\ (sent[t] = -1 \/ sent[t] <= clock)
      BY DEF RouterInv
    <3> QED
      BY <3>1
  <2>1. RouterInv'
    <3>1. clock' \in Nat
      BY <2>0 DEF RouterInv
    <3>2. OneOrderPerCandle'
      BY <2>0 DEF RouterInv, OneOrderPerCandle
    <3>3. \A t \in Types : sent'[t] # clock' /\ (sent'[t] # -1 =>
              stamp'[t] # -1 /\ sent'[t] <= stamp'[t] /\ sent'[t] <= clock')
      BY <2>0, <2>3 DEF RouterInv
    <3> QED
      BY <2>0, <3>1, <3>2, <3>3 DEF RouterInv
  <2>2. queue' \in Seq(Types)
    <3>1. queue' \in UNION {[1..n -> Types] : n \in 1..MaxSetups}
      BY <1>2 DEF CandleArrives, Lists
    <3>2. PICK n \in 1..MaxSetups : queue' \in [1..n -> Types]
      BY <3>1
    <3> QED
      BY <3>2
  <2> QED
    BY <1>2, <2>1, <2>2 DEF CandleArrives, OrderApart
<1>3. CASE DataBlocked \/ Deduplicated \/ SlotTaken
  BY <1>1, <1>3 DEF DataBlocked, Deduplicated, SlotTaken, Done, RouterInv, OneOrderPerCandle, OrderApart
<1>4. CASE Shadowed \/ Refused
  <2>1. /\ queue # <<>> /\ UNCHANGED <<clock, slot, sent>> /\ queue' = Tail(queue)
        /\ (stamp' = [stamp EXCEPT ![Type] = clock] \/ stamp' = stamp)
    BY <1>4 DEF Shadowed, Refused, Done, SentStamp
  <2>2. RouterInv'
    <3>1. CASE stamp' = [stamp EXCEPT ![Type] = clock]
      BY <1>1, <2>1, <3>1, StampKeeps
    <3>2. CASE stamp' = stamp
      BY <2>1, <3>2 DEF RouterInv, OneOrderPerCandle
    <3> QED
      BY <2>1, <3>1, <3>2
  <2> QED
    BY <1>1, <2>1, <2>2 DEF OrderApart
<1>5. CASE Executed
  <2>1. /\ queue # <<>> /\ ~slot /\ ~Fresh(Type) /\ queue' = Tail(queue) /\ clock' = clock /\ slot' = TRUE
        /\ stamp' = [stamp EXCEPT ![Type] = clock] /\ sent' = [sent EXCEPT ![Type] = clock]
    BY <1>5 DEF Executed, Done, Placing, SentStamp, TakesSlot
  <2>2. RouterInv'
    BY <1>1, <2>1, OrderKeeps
  <2>3. OrderApart("live", LiveTtl)
    <3>1. CASE Type # "live"
      BY <1>1, <2>1, <3>1 DEF OrderApart, RouterInv, Types
    <3>2. CASE Type = "live" /\ sent["live"] # -1
      <4>1. Ttl("live") = LiveTtl /\ LiveTtl \in Nat /\ "live" \in Types
        BY TtlAssumption DEF Ttl, Shadow, Types
      <4>2. stamp["live"] # -1 /\ sent["live"] <= stamp["live"] /\ clock - stamp["live"] >= LiveTtl
        BY <2>1, <3>2, <4>1 DEF Fresh, RouterInv
      <4>3. sent'["live"] = clock
        BY <2>1, <3>2, <4>1 DEF RouterInv
      <4> QED
        BY <4>1, <4>2, <4>3 DEF OrderApart, RouterInv
    <3>3. CASE sent["live"] = -1
      BY <3>3 DEF OrderApart
    <3> QED
      BY <3>1, <3>2, <3>3
  <2> QED
    BY <1>1, <2>1, <2>2, <2>3
<1>6. CASE \E t \in Types, r \in {-1, 1} : TradeCloses(t, r)
  BY <1>6 DEF TradeCloses, RouterInv, OneOrderPerCandle, OrderApart
<1> QED
  BY <1>2, <1>3, <1>4, <1>5, <1>6 DEF RouterNext

-----------------------------------------------------------------------------
\* The scalp signals.

\* The last signal is the one remembered; time goes forward.
ScalpInv ==
    /\ now \in Nat
    /\ \/ lastFire \in Nat /\ fired.at = lastFire
       \/ lastFire = -1 /\ fired.at = -DedupWindow

\* A candle that asks for signals gives one only outside of the window.
LEMMA EvaluationApart ==
    ASSUME ScalpInv, NEW cs, EvaluateScalp(cs), now' = now
    PROVE  ScalpInv' /\ (fired' # fired => fired'.at - fired.at >= DedupWindow)
<1>1. DedupWindow \in Nat
  BY TimesAssumption
<1>2. CASE UNCHANGED <<lastFire, fired>>
  BY <1>2 DEF ScalpInv
<1>3. CASE ~Blocked /\ fired'.at = now /\ lastFire' = now
  BY <1>1, <1>3 DEF ScalpInv, Blocked
<1> QED
  BY <1>2, <1>3 DEF EvaluateScalp, Fire, Stamped

LEMMA ScalpStep ==
    ASSUME ScalpInv, ScalpNext
    PROVE  ScalpInv' /\ (fired' # fired => fired'.at - fired.at >= DedupWindow)
<1>1. CASE BarEnds
  <2>1. now' = (now \div BarTime + 1) * BarTime /\ UNCHANGED <<lastFire, fired>>
    BY <1>1 DEF BarEnds
  <2>2. now \in Nat /\ BarTime \in Nat /\ BarTime > 0
    BY TimesAssumption DEF ScalpInv
  <2>3. now \div BarTime \in Nat
    BY <2>2
  <2>4. now' \in Nat
    BY <2>1, <2>2, <2>3
  <2> QED
    BY <2>1, <2>4 DEF ScalpInv
<1>2. CASE ShortConfirmed \/ LongConfirmed
  BY <1>2, EvaluationApart DEF ShortConfirmed, LongConfirmed
<1>3. CASE Seconds \/ FlushSeen
  BY <1>3 DEF Seconds, FlushSeen, ScalpInv
<1> QED
  BY <1>1, <1>2, <1>3 DEF ScalpNext

-----------------------------------------------------------------------------
\* The quick setup.

SetupsInv == lastQuick \in Nat /\ candle \in Nat

\* A list of setups without a quick one.
Slow(S) == \A s \in S : s.type # "d"
NoQuick(q) == \E S : q \in Seq(S) /\ Slow(S)

LEMMA NoneIsQuick == NoQuick(<<>>)
<1>1. <<>> \in Seq({})
  BY EmptySeq
<1>2. Slow({})
  BY DEF Slow
<1> QED
  BY <1>1, <1>2, Zenon DEF NoQuick

LEMMA OneIsQuick ==
    ASSUME NEW s, s.type # "d"
    PROVE  NoQuick(<<s>>)
<1>1. <<s>> \in Seq({s})
  OBVIOUS
<1>2. Slow({s})
  BY DEF Slow
<1> QED
  BY <1>1, <1>2, Zenon DEF NoQuick

LEMMA JoinedIsQuick ==
    ASSUME NEW q, NEW r, NoQuick(q), NoQuick(r)
    PROVE  NoQuick(q \o r)
<1>1. PICK S : q \in Seq(S) /\ Slow(S)
  BY DEF NoQuick
<1>2. PICK T : r \in Seq(T) /\ Slow(T)
  BY DEF NoQuick
<1>3. q \in Seq(S \cup T) /\ r \in Seq(S \cup T)
  BY <1>1, <1>2
<1>4. q \o r \in Seq(S \cup T)
  BY <1>3, ConcatProperties
<1>5. Slow(S \cup T)
  BY <1>1, <1>2 DEF Slow
<1> QED
  BY <1>4, <1>5 DEF NoQuick

LEMMA ListedNotQuick ==
    ASSUME NEW q, NoQuick(q), NEW s \in ToSet(q)
    PROVE  s.type # "d"
<1>1. PICK S : q \in Seq(S) /\ Slow(S)
  BY DEF NoQuick
<1>2. PICK i \in DOMAIN q : s = q[i]
  BY DEF ToSet
<1>3. q[i] \in S
  BY <1>1, <1>2, ElementOfSeq
<1> QED
  BY <1>1, <1>2, <1>3 DEF Slow

\* The evaluators of the cascade name their own types.
LEMMA CascadeTypes ==
    ASSUME NEW m, NEW before
    PROVE  /\ NoQuick(SetupA(m, before).setup) /\ NoQuick(SetupB(m, before).setup)
           /\ NoQuick(SetupF(m, before).setup) /\ NoQuick(SetupG(m, before).setup)
<1>1. ASSUME NEW type, type # "d", NEW ob, NEW sweep, NEW side, NEW low, NEW high, NEW n, NEW least
      PROVE  NoQuick(Confirmed(type, m, ob, sweep, side, low, high, n, least, before).setup)
  <2>1. ASSUME NEW tags PROVE NoQuick(Placed(type, m, ob, side, low, high, tags))
    BY <1>1, NoneIsQuick, OneIsQuick DEF Placed
  <2> QED
    BY <2>1, NoneIsQuick DEF Confirmed
<1>2. NoQuick(NoSetup.setup)
  BY NoneIsQuick DEF NoSetup
<1>3. NoQuick(SetupA(m, before).setup)
  BY <1>1, <1>2 DEF SetupA
<1>4. NoQuick(SetupB(m, before).setup)
  BY <1>1, <1>2 DEF SetupB
<1>5. NoQuick(SetupF(m, before).setup)
  BY <1>1, <1>2 DEF SetupF
<1>6. NoQuick(SetupG(m, before).setup)
  BY <1>1, <1>2 DEF SetupG
<1> QED
  BY <1>3, <1>4, <1>5, <1>6

LEMMA TurnNotQuick ==
    ASSUME NEW so, NoQuick(so.out), NEW answer, NoQuick(answer.setup), NEW m
    PROVE  NoQuick(Turn(so, answer, m).out)
BY NoneIsQuick, JoinedIsQuick DEF Turn

LEMMA SwingsNotQuick ==
    ASSUME NEW m
    PROVE  NoQuick(SwingsOf(m).out)
<1> DEFINE a == Turn([oi |-> prevOi, out |-> <<>>], SetupA(m, prevOi), m)
           b == Turn(a, SetupB(m, a.oi), m)
           f == Turn(b, SetupF(m, b.oi), m)
           g == Turn(f, SetupG(m, f.oi), m)
<1>1. SwingsOf(m) = g
  BY DEF SwingsOf
<1>2. NoQuick(a.out)
  <2>1. NoQuick([oi |-> prevOi, out |-> <<>>].out)
    BY NoneIsQuick
  <2> QED
    BY <2>1, CascadeTypes, TurnNotQuick
<1> HIDE DEF a
<1>3. NoQuick(b.out)
  BY <1>2, CascadeTypes, TurnNotQuick
<1> HIDE DEF b
<1>4. NoQuick(f.out)
  BY <1>3, CascadeTypes, TurnNotQuick
<1> HIDE DEF f
<1>5. NoQuick(g.out)
  BY <1>4, CascadeTypes, TurnNotQuick
<1> QED
  BY <1>1, <1>5

LEMMA SetupsStep ==
    ASSUME SetupsInv, SetupsNext
    PROVE  /\ SetupsInv'
           /\ \A s \in ToSet(emitted') : s.type = "d" /\ lastQuick # 0 => candle' - lastQuick >= Cooldown
<1>1. PICK m \in Follow(market) : Candle(m)
  BY DEF SetupsNext
<1>2. PICK quick \in {IF Cooling(candle + 1) \/ m.bias = "undefined" THEN <<>> ELSE SetupD(m)} :
        /\ lastQuick' = IF quick = <<>> THEN lastQuick ELSE candle + 1
        /\ emitted' = SwingsOf(m).out \o (IF "d" \in Allowed THEN quick ELSE <<>>)
  BY <1>1 DEF Candle
<1>3. candle' = candle + 1
  BY <1>1 DEF Candle
<1>4. SetupsInv'
  BY <1>2, <1>3 DEF SetupsInv
<1>5. CASE Cooling(candle + 1)
  <2>1. NoQuick(emitted')
    BY <1>2, <1>5, SwingsNotQuick, NoneIsQuick, JoinedIsQuick
  <2> QED
    BY <1>4, <2>1, ListedNotQuick
<1>6. CASE ~Cooling(candle + 1)
  BY <1>3, <1>4, <1>6, CooldownAssumption DEF Cooling, SetupsInv
<1> QED
  BY <1>5, <1>6

-----------------------------------------------------------------------------
\* Signals of one kind keep their distance: the quick setups of a pair, its
\* scalp signals, the orders of a live type, and the orders of one candle
\* (setups.py, scalp_setups.py, pipeline_router.py).
ApartInv == RouterInv /\ QueueTyped /\ ScalpInv /\ SetupsInv

THEOREM KeptApart == Spec => SignalsKeepApart
<1>1. Init => ApartInv
  <2> SUFFICES ASSUME Init PROVE ApartInv
    OBVIOUS
  <2>0. RouterInit
    BY DEF Init
  <2>1. RouterInv
    BY <2>0 DEF RouterInit, RouterInv, OneOrderPerCandle
  <2>2. QueueTyped
    BY <2>0 DEF RouterInit, QueueTyped
  <2>3. ScalpInv /\ SetupsInv
    BY DEF Init, ScalpInit, ScalpInv, SetupsInit, SetupsInv
  <2> QED
    BY <2>1, <2>2, <2>3 DEF ApartInv
<1> DEFINE RouterKeeps == RouterInv' /\ QueueTyped' /\ [OrderApart("live", LiveTtl)]_routerVars
           ScalpKeeps  == ScalpInv' /\ [fired' # fired => fired'.at - fired.at >= DedupWindow]_scalpVars
           SetupsKeep  == SetupsInv' /\ [\A s \in ToSet(emitted') : s.type = "d" /\ lastQuick # 0
                                            => candle' - lastQuick >= Cooldown]_setupVars
<1>2. ApartInv /\ [Next]_vars => RouterKeeps /\ ScalpKeeps /\ SetupsKeep
  <2> SUFFICES ASSUME ApartInv, [Next]_vars PROVE RouterKeeps /\ ScalpKeeps /\ SetupsKeep
    OBVIOUS
  <2>1. RouterKeeps
    <3>1. CASE RouterNext
      BY <3>1, RouterStep DEF ApartInv
    <3>2. CASE UNCHANGED routerVars
      BY <3>2 DEF ApartInv, routerVars, RouterInv, QueueTyped, OneOrderPerCandle
    <3> QED
      BY <3>1, <3>2 DEF Next, Idle, vars
  <2>2. ScalpKeeps
    <3>1. CASE ScalpNext
      BY <3>1, ScalpStep DEF ApartInv
    <3>2. CASE UNCHANGED scalpVars
      BY <3>2 DEF ApartInv, scalpVars, ScalpInv
    <3> QED
      BY <3>1, <3>2 DEF Next, Idle, vars
  <2>3. SetupsKeep
    <3>1. CASE SetupsNext
      BY <3>1, SetupsStep DEF ApartInv
    <3>2. CASE UNCHANGED setupVars
      BY <3>2 DEF ApartInv, setupVars, SetupsInv
    <3> QED
      BY <3>1, <3>2 DEF Next, Idle, vars
  <2> QED
    BY <2>1, <2>2, <2>3
<1>3. ApartInv /\ [Next]_vars => ApartInv'
  BY <1>2 DEF ApartInv
<1>4. ApartInv => OneOrderPerCandle
  BY DEF ApartInv, RouterInv
<1> HIDE DEF RouterKeeps, ScalpKeeps, SetupsKeep
<1>5. RouterKeeps => [OrderApart("live", LiveTtl)]_routerVars
  BY DEF RouterKeeps
<1>6. ScalpKeeps => [fired' # fired => fired'.at - fired.at >= DedupWindow]_scalpVars
  BY DEF ScalpKeeps
<1>7. SetupsKeep => [\A s \in ToSet(emitted') : s.type = "d" /\ lastQuick # 0
                        => candle' - lastQuick >= Cooldown]_setupVars
  BY DEF SetupsKeep
<1> QED
  BY <1>1, <1>2, <1>3, <1>4, <1>5, <1>6, <1>7, PTL
  DEF Spec, SignalsKeepApart, QuickApart, SignalsApart, OrdersApart

-----------------------------------------------------------------------------
\* Induction over what a loop computes.

\* A set of numbers has a least one.
LEMMA LeastExists ==
    ASSUME NEW S \in SUBSET Nat, S # {}
    PROVE  \E m \in S : \A n \in S : m <= n
<1> DEFINE R == {ss \in Nat \X Nat : ss[1] < ss[2]}
<1>1. IsWellFoundedOn(R, Nat)
  BY NatLessThanWellFounded DEF OpToRel
<1> HIDE DEF R
<1>2. \E m \in S : \A n \in S : <<n, m>> \notin R
  BY <1>1, WFMin
<1>3. \A m, n \in S : <<n, m>> \notin R => m <= n
  BY DEF R
<1> QED
  BY <1>2, <1>3

\* What holds before a loop and is kept by its turns holds after each.
LEMMA LoopInduction ==
    ASSUME NEW n \in Nat, NEW H, 0 \in H, \A k \in 1..n : k - 1 \in H => k \in H
    PROVE  0..n \subseteq H
<1> DEFINE Bad == {k \in 0..n : k \notin H}
<1> SUFFICES ASSUME Bad # {} PROVE FALSE
  OBVIOUS
<1>0. Bad \in SUBSET Nat
  OBVIOUS
<1>1. PICK m \in Bad : \A k \in Bad : m <= k
  BY <1>0, LeastExists
<1>2. m \in 1..n
  BY <1>1
<1>3. m - 1 \notin Bad /\ m - 1 \in 0..n
  BY <1>1, <1>2
<1> QED
  BY <1>1, <1>2, <1>3

-----------------------------------------------------------------------------
\* The replay of the Dual Thrust trades.

\* The loop of a replay.
Played(w, from, f, m) ==
    [i \in 0..m |-> IF i <= Warmup THEN AtRest
                    ELSE BarStep(f[i - 1], from + i - 1, w[i], Signal(w, from, i))]

LEMMA ReplayIs ==
    ASSUME NEW w, Len(w) \in Nat, NEW from
    PROVE  \E r : r = Played(w, from, r, Len(w)) /\ Replay(w, from) = r[Len(w)]
<1> DEFINE H == {m \in 0..Len(w) : \E f : f = Played(w, from, f, m)}
<1>0. Warmup \in Nat
  BY DtAssumption
<1>1. 0 \in H
  <2> DEFINE f == [i \in 0..0 |-> AtRest]
  <2>1. f = Played(w, from, f, 0)
    BY <1>0 DEF Played
  <2> HIDE DEF f
  <2> QED
    BY <2>1
<1>2. ASSUME NEW k \in 1..Len(w), k - 1 \in H PROVE k \in H
  <2>1. PICK f : f = Played(w, from, f, k - 1)
    BY <1>2
  <2> DEFINE Turn1(g, i) == IF i <= Warmup THEN AtRest
                            ELSE BarStep(g[i - 1], from + i - 1, w[i], Signal(w, from, i))
             g == [i \in 0..k |-> IF i < k THEN f[i] ELSE Turn1(f, k)]
  <2>2. \A i \in 0..(k - 1) : f[i] = Turn1(f, i)
    BY <2>1 DEF Played
  <2>3. \A i \in 0..k : g[i] = Turn1(g, i)
    <3> SUFFICES ASSUME NEW i \in 0..k PROVE g[i] = Turn1(g, i)
      OBVIOUS
    <3>1. i > Warmup => i - 1 \in 0..k /\ i - 1 < k
      BY <1>0
    <3>2. i > Warmup => g[i - 1] = f[i - 1]
      BY <3>1
    <3>3. Turn1(g, i) = Turn1(f, i)
      BY <1>0, <3>2
    <3>4. g[i] = Turn1(f, i)
      BY <2>2
    <3> QED
      BY <3>3, <3>4
  <2>4. g = Played(w, from, g, k)
    BY <2>3 DEF Played
  <2> HIDE DEF g
  <2> QED
    BY <2>4
<1> HIDE DEF H
<1>3. 0..Len(w) \subseteq H
  BY <1>1, <1>2, LoopInduction
<1>4. \E f : f = Played(w, from, f, Len(w))
  BY <1>3 DEF H
<1> DEFINE r == CHOOSE f : f = Played(w, from, f, Len(w))
<1>5. r = Played(w, from, r, Len(w))
  BY <1>4
<1>6. Replay(w, from) = r[Len(w)]
  BY DEF Replay, Played
<1> HIDE DEF r
<1> QED
  BY <1>5, <1>6

Sides  == {-1, 0, 1}
Trades == [side : Sides, entryAt : Int, exitAt : Int, entry : Int, exit : Int, why : {"flip", "sl"}]
Replays == [pos : [side : Sides, entry : Int, at : Int],
            pend : [kind : {"none", "close", "enter"}, side : Sides], trades : Seq(Trades)]

\* The signal of the bar with number n.
SignalOf(w, from, n) == Signal(w, from, n - from + 1)

LEMMA SignalIs ==
    ASSUME NEW w, NEW from, NEW i
    PROVE  Signal(w, from, i) \in Sides
BY DEF Signal, Sides

\* What NoLookahead says of a list of trades.
Sound(trades, w, from) ==
    \A k \in 1..Len(trades) :
        /\ SignalOf(w, from, trades[k].entryAt - 1) = trades[k].side
        /\ trades[k].why = "flip" => trades[k].exitAt > trades[k].entryAt
                                     /\ SignalOf(w, from, trades[k].exitAt - 1) = -trades[k].side
        /\ k > 1 => trades[k].entryAt > trades[k - 1].exitAt

\* During the bar with number n: what is closed is sound and past, the open
\* position was signalled, and entered after what is closed.
During(r, w, from, n) ==
    /\ r \in Replays
    /\ Sound(r.trades, w, from)
    /\ \A k \in 1..Len(r.trades) : r.trades[k].exitAt <= n
    /\ r.pos.side # 0 => /\ r.pos.at <= n
                         /\ SignalOf(w, from, r.pos.at - 1) = r.pos.side
                         /\ \A k \in 1..Len(r.trades) : r.trades[k].exitAt < r.pos.at

\* After it: what is pending follows the bar's signal.
After(r, w, from, n) ==
    /\ During(r, w, from, n)
    /\ r.pend.kind = "close" => r.pos.side # 0 /\ SignalOf(w, from, n) = -r.pos.side
    /\ r.pend.kind = "enter" => r.pos.side = 0 /\ r.pend.side = SignalOf(w, from, n)

\* A position that is closed becomes a sound trade.
LEMMA ClosingSound ==
    ASSUME NEW w, NEW from \in Int, NEW n \in Int, NEW r, During(r, w, from, n), r.pos.side # 0,
           NEW exit \in Int, NEW why \in {"flip", "sl"},
           why = "flip" => n > r.pos.at /\ SignalOf(w, from, n - 1) = -r.pos.side
    PROVE  During(Closing(r, n, exit, why), w, from, n) /\ Closing(r, n, exit, why).pos.side = 0
<1> DEFINE t == [side |-> r.pos.side, entryAt |-> r.pos.at, exitAt |-> n,
                 entry |-> r.pos.entry, exit |-> exit, why |-> why]
           q == r.trades
           p == Append(q, t)
           s == Closing(r, n, exit, why)
<1>1. r \in Replays /\ q \in Seq(Trades) /\ Len(q) \in Nat /\ Sound(q, w, from)
  BY DEF During, Replays
<1>2. t \in Trades /\ t.side = r.pos.side /\ t.entryAt = r.pos.at /\ t.exitAt = n /\ t.why = why
  BY <1>1 DEF Replays, Trades
<1>3. /\ p \in Seq(Trades) /\ Len(p) = Len(q) + 1 /\ p[Len(q) + 1] = t
      /\ \A k \in 1..Len(q) : p[k] = q[k]
  BY <1>1, <1>2, AppendProperties
<1>4. /\ SignalOf(w, from, r.pos.at - 1) = r.pos.side
      /\ \A k \in 1..Len(q) : q[k].exitAt < r.pos.at /\ q[k].exitAt <= n
  BY DEF During
<1> HIDE DEF t, q, p
<1>5. Sound(p, w, from)
  <2> SUFFICES ASSUME NEW k \in 1..Len(p)
               PROVE  /\ SignalOf(w, from, p[k].entryAt - 1) = p[k].side
                      /\ p[k].why = "flip" => p[k].exitAt > p[k].entryAt
                                     /\ SignalOf(w, from, p[k].exitAt - 1) = -p[k].side
                      /\ k > 1 => p[k].entryAt > p[k - 1].exitAt
    BY DEF Sound
  <2>1. CASE k \in 1..Len(q)
    <3>1. p[k] = q[k] /\ (k > 1 => p[k - 1] = q[k - 1])
      BY <1>3, <2>1
    <3> QED
      BY <1>1, <2>1, <3>1 DEF Sound
  <2>2. CASE k = Len(q) + 1
    <3>1. p[k] = t
      BY <1>3, <2>2
    <3>2. k > 1 => k - 1 \in 1..Len(q) /\ p[k - 1] = q[k - 1]
      BY <1>1, <1>3, <2>2
    <3> QED
      BY <1>2, <1>4, <3>1, <3>2
  <2> QED
    BY <1>1, <1>3, <2>1, <2>2
<1>6. \A k \in 1..Len(p) : p[k].exitAt <= n
  <2> SUFFICES ASSUME NEW k \in 1..Len(p) PROVE p[k].exitAt <= n
    OBVIOUS
  <2>1. k \in 1..Len(q) \/ k = Len(q) + 1
    BY <1>1, <1>3
  <2> QED
    BY <1>2, <1>3, <1>4, <2>1
<1>7. s.trades = p /\ s.pos = Flat /\ s.pend = r.pend /\ s \in Replays
  <2>1. Flat \in [side : Sides, entry : Int, at : Int]
    BY DEF Flat, Sides
  <2>2. s = [r EXCEPT !.pos = Flat, !.trades = p]
    BY DEF Closing, p, q, t
  <2> QED
    BY <1>1, <1>3, <2>1, <2>2 DEF Replays
<1>8. s.pos.side = 0
  BY <1>7 DEF Flat
<1> HIDE DEF s
<1>9. During(s, w, from, n)
  BY <1>5, <1>6, <1>7, <1>8 DEF During
<1> QED
  BY <1>8, <1>9 DEF s

\* One bar.
LEMMA BarSound ==
    ASSUME NEW w, NEW from \in Int, NEW n \in Int, NEW r, After(r, w, from, n - 1),
           NEW bar \in [open : Int, high : Int, low : Int, close : Int],
           NEW sig \in Sides, sig = SignalOf(w, from, n)
    PROVE  After(BarStep(r, n, bar, sig), w, from, n)
<1> DEFINE a == AtOpen(r, n, bar)
           b == AtStop(a, n, bar)
           c == AtClose(b, sig)
<1>1. During(r, w, from, n - 1) /\ r \in Replays
  BY DEF After, During
<1>2. During(r, w, from, n)
  <2>1. r.pos.at \in Int
    BY <1>1 DEF Replays
  <2>2. \A k \in 1..Len(r.trades) : r.trades[k].exitAt \in Int
    <3>1. r.trades \in Seq(Trades)
      BY <1>1 DEF Replays
    <3>2. \A k \in 1..Len(r.trades) : r.trades[k] \in Trades
      BY <3>1, ElementOfSeq
    <3> QED
      BY <3>2 DEF Trades
  <2> QED
    BY <1>1, <2>1, <2>2 DEF During
<1>3. During(a, w, from, n)
  <2>1. CASE r.pend.kind = "close" /\ r.pos.side # 0
    <3>1. a = Closing(r, n, bar.open, "flip")
      BY <2>1 DEF AtOpen
    <3>2. r.pos.at <= n - 1 /\ r.pos.at \in Int /\ SignalOf(w, from, n - 1) = -r.pos.side
      BY <1>1, <2>1 DEF After, During, Replays
    <3>3. bar.open \in Int /\ n > r.pos.at
      BY <3>2
    <3> QED
      BY <1>2, <2>1, <3>1, <3>2, <3>3, ClosingSound
  <2>2. CASE ~(r.pend.kind = "close" /\ r.pos.side # 0) /\ r.pend.kind = "enter" /\ r.pos.side = 0
    <3> DEFINE p == [side |-> r.pend.side, entry |-> bar.open, at |-> n]
    <3>1. a = [r EXCEPT !.pos = p]
      BY <2>2 DEF AtOpen
    <3>2. p \in [side : Sides, entry : Int, at : Int] /\ p.side = r.pend.side /\ p.at = n
      BY <1>1 DEF Replays
    <3> HIDE DEF p
    <3>3. a \in Replays /\ a.pos = p /\ a.trades = r.trades
      BY <1>1, <3>1, <3>2 DEF Replays
    <3>4. SignalOf(w, from, n - 1) = r.pend.side
      BY <2>2 DEF After
    <3>5. \A k \in 1..Len(r.trades) : r.trades[k].exitAt < n
      <4>1. r.trades \in Seq(Trades)
        BY <1>1 DEF Replays
      <4>2. \A k \in 1..Len(r.trades) : r.trades[k] \in Trades
        BY <4>1, ElementOfSeq
      <4>3. \A k \in 1..Len(r.trades) : r.trades[k].exitAt \in Int /\ r.trades[k].exitAt <= n - 1
        BY <1>1, <4>2 DEF During, Trades
      <4> QED
        BY <4>3
    <3> HIDE DEF a
    <3> QED
      BY <1>2, <3>2, <3>3, <3>4, <3>5 DEF During
  <2>3. CASE ~(r.pend.kind = "close" /\ r.pos.side # 0) /\ ~(r.pend.kind = "enter" /\ r.pos.side = 0)
    BY <1>2, <2>3 DEF AtOpen
  <2> QED
    BY <2>1, <2>2, <2>3
<1> HIDE DEF a
<1>4. During(b, w, from, n)
  <2>1. CASE b = a
    BY <1>3, <2>1
  <2>2. CASE b = Closing(a, n, StopPrice(a.pos), "sl") /\ a.pos.side # 0
    <3>1. a.pos.side \in Int /\ a.pos.entry \in Int
      BY <1>3 DEF During, Replays, Sides
    <3>2. StopPrice(a.pos) \in Int
      BY <3>1, DtAssumption DEF StopPrice
    <3> QED
      BY <1>3, <2>2, <3>2, ClosingSound
  <2> QED
    BY <2>1, <2>2 DEF AtStop
<1> HIDE DEF b
<1>5. After(c, w, from, n)
  <2> DEFINE p == IF b.pos.side # 0
                  THEN IF sig # 0 /\ sig # b.pos.side THEN [kind |-> "close", side |-> 0] ELSE NoAction
                  ELSE IF sig # 0 THEN [kind |-> "enter", side |-> sig] ELSE NoAction
  <2>1. c = [b EXCEPT !.pend = p]
    BY DEF AtClose
  <2>2. b \in Replays /\ b.pos.side \in Sides
    BY <1>4 DEF During, Replays
  <2>3. p \in [kind : {"none", "close", "enter"}, side : Sides]
    BY DEF NoAction, Sides
  <2>4. p.kind = "close" => b.pos.side # 0 /\ sig = -b.pos.side
    BY <2>2 DEF NoAction, Sides
  <2>5. p.kind = "enter" => b.pos.side = 0 /\ p.side = sig
    BY DEF NoAction
  <2> HIDE DEF p
  <2>6. c \in Replays /\ c.pos = b.pos /\ c.trades = b.trades /\ c.pend = p
    BY <2>1, <2>2, <2>3 DEF Replays
  <2> HIDE DEF c
  <2> QED
    BY <1>4, <2>4, <2>5, <2>6 DEF After, During
<1> QED
  BY <1>5 DEF BarStep, a, b

\* The replay of a window has no lookahead.
LEMMA ReplaySound ==
    ASSUME NEW w \in Seq(DtMarket), NEW from \in Int
    PROVE  Replay(w, from).trades \in Seq(Trades) /\ Sound(Replay(w, from).trades, w, from)
<1> DEFINE n == Len(w)
<1>1. n \in Nat /\ Warmup \in Nat
  BY DtAssumption
<1>2. PICK r : r = Played(w, from, r, n) /\ Replay(w, from) = r[n]
  BY <1>1, ReplayIs
<1>3. \A i \in 0..n : r[i] = IF i <= Warmup THEN AtRest
                             ELSE BarStep(r[i - 1], from + i - 1, w[i], Signal(w, from, i))
  BY <1>2 DEF Played
<1>4. \A k \in Int : After(AtRest, w, from, k)
  <2>1. AtRest \in Replays /\ AtRest.trades = <<>> /\ AtRest.pos.side = 0 /\ AtRest.pend.kind = "none"
    BY EmptySeq DEF AtRest, Flat, NoAction, Replays, Sides
  <2>2. Len(AtRest.trades) = 0
    BY <2>1, EmptySeq
  <2> QED
    BY <2>1, <2>2 DEF After, During, Sound
<1> DEFINE G == {i \in 0..n : After(r[i], w, from, from + i - 1)}
<1>5. 0 \in G
  <2>1. r[0] = AtRest
    BY <1>1, <1>3
  <2> QED
    BY <1>1, <1>4, <2>1
<1>6. ASSUME NEW i \in 1..n, i - 1 \in G PROVE i \in G
  <2>1. CASE i <= Warmup
    BY <1>3, <1>4, <2>1
  <2>2. CASE ~(i <= Warmup)
    <3> DEFINE m == from + i - 1
    <3>1. m \in Int /\ from + (i - 1) - 1 = m - 1 /\ m - from + 1 = i
      OBVIOUS
    <3>2. After(r[i - 1], w, from, m - 1)
      BY <1>6, <3>1
    <3>3. w[i] \in [open : Int, high : Int, low : Int, close : Int]
      BY ElementOfSeq, DtAssumption
    <3>4. Signal(w, from, i) \in Sides /\ Signal(w, from, i) = SignalOf(w, from, m)
      BY <3>1, SignalIs DEF SignalOf
    <3>5. r[i] = BarStep(r[i - 1], m, w[i], Signal(w, from, i))
      BY <1>3, <2>2
    <3> HIDE DEF m
    <3>6. After(r[i], w, from, m)
      BY <3>1, <3>2, <3>3, <3>4, <3>5, BarSound
    <3> QED
      BY <3>6 DEF m
  <2> QED
    BY <2>1, <2>2
<1> HIDE DEF G
<1>7. n \in G
  BY <1>1, <1>5, <1>6, LoopInduction
<1> QED
  BY <1>2, <1>7 DEF G, After, During, Replays

-----------------------------------------------------------------------------
\* The walk over the closes that break the structure.

\* A finite set of numbers that is not empty has a greatest one, by induction
\* over its size.
LEMMA GreatestExists ==
    ASSUME NEW S \in SUBSET Nat, IsFiniteSet(S), S # {}
    PROVE  \E m \in S : \A n \in S : n <= m
<1> DEFINE Topless(T) == T # {} /\ ~\E m \in T : \A k \in T : k <= m
           Sizes == {n \in Nat : \E T \in SUBSET S : Cardinality(T) = n /\ Topless(T)}
<1> SUFFICES ASSUME Sizes # {} PROVE FALSE
  BY FS_CardinalityType
<1>0. Sizes \in SUBSET Nat
  OBVIOUS
<1>1. PICK n \in Sizes : \A k \in Sizes : n <= k
  BY <1>0, LeastExists
<1>2. PICK T \in SUBSET S : Cardinality(T) = n /\ Topless(T)
  BY <1>1
<1>3. IsFiniteSet(T) /\ T \in SUBSET Nat /\ n \in Nat
  BY <1>1, FS_Subset
<1>4. PICK x \in T : TRUE
  BY <1>2
<1> DEFINE U == T \ {x}
<1>5. IsFiniteSet(U) /\ Cardinality(U) = n - 1
  BY <1>2, <1>3, FS_RemoveElement
<1>6. n - 1 \in Nat
  BY <1>5, FS_CardinalityType
<1>7. ~Topless(U)
  <2>1. n - 1 \notin Sizes
    BY <1>1, <1>3
  <2>2. U \in SUBSET S
    OBVIOUS
  <2> QED
    BY <1>5, <1>6, <2>1, <2>2
<1>8. CASE U = {}
  BY <1>2, <1>3, <1>8
<1>9. CASE U # {}
  <2>1. PICK m \in U : \A k \in U : k <= m
    BY <1>7, <1>9
  <2>2. CASE x <= m
    BY <1>2, <1>3, <2>1, <2>2
  <2>3. CASE ~(x <= m)
    BY <1>2, <1>3, <1>4, <2>1, <2>3
  <2> QED
    BY <2>2, <2>3
<1> QED
  BY <1>8, <1>9

\* What a function takes on a finite set is finite.
LEMMA ImageIsFinite ==
    ASSUME NEW S, IsFiniteSet(S), NEW f
    PROVE  IsFiniteSet({f[x] : x \in S})
<1> DEFINE T == {f[x] : x \in S}
           g == [x \in S |-> f[x]]
<1>1. g \in Surjection(S, T)
  BY DEF Surjection
<1> QED
  BY <1>1, FS_Surjection

\* The bars as the exchange sends them.
Bars == {b \in [open : Nat, close : Nat, high : Nat, low : Nat, volume : Nat] :
            0 < b.low /\ b.low <= b.close /\ b.close <= b.high}

LEMMA BarIs ==
    ASSUME NEW b \in Bars
    PROVE  /\ b.close \in Nat /\ b.high \in Nat /\ b.low \in Nat
           /\ 0 < b.low /\ b.low <= b.close /\ b.close <= b.high
BY DEF Bars

\* A price that is not beyond a level is not beyond it by a margin.
LEMMA MarginIs ==
    ASSUME NEW c \in Nat, NEW level \in Nat
    PROVE  /\ c < level => c * BosScale < level * (BosScale + BosMargin)
           /\ 0 < level /\ level < c => level * (BosScale - BosMargin) < c * BosScale
<1>1. BosScale \in Nat /\ BosScale > 0 /\ BosMargin \in Nat /\ BosMargin > 0
  BY StructureAssumption
<1>2. level * (BosScale + BosMargin) = level * BosScale + level * BosMargin
      /\ level * (BosScale - BosMargin) = level * BosScale - level * BosMargin
  BY <1>1
<1>3. level * BosMargin >= 0 /\ (c < level => c * BosScale < level * BosScale)
      /\ (level < c => level * BosScale < c * BosScale)
  BY <1>1
<1> QED
  BY <1>1, <1>2, <1>3

\* A swing is a bar of the window with its neighbours on both sides.
LEMMA SwingIs ==
    ASSUME NEW w \in Seq(Bars), NEW s \in Swings(w)
    PROVE  /\ s.type \in {"high", "low"} /\ s.index \in Inner(w) /\ s.index \in 1..Len(w)
           /\ \A j \in Around(s.index) : j \in 1..Len(w)
           /\ s = [type |-> s.type, index |-> s.index]
<1>1. SwingLookback \in Nat /\ Len(w) \in Nat
  BY StructureAssumption
<1>2. s.type \in {"high", "low"} /\ s.index \in Inner(w) /\ s = [type |-> s.type, index |-> s.index]
  BY DEF Swings, SwingHighs, SwingLows
<1> QED
  BY <1>1, <1>2 DEF Inner, Around

\* A bar that closes beyond a swing lies after the bars that confirm it.
LEMMA BeyondIsAfter ==
    ASSUME NEW w \in Seq(Bars), NEW s \in Swings(w), NEW i \in 1..Len(w), s.index < i,
           ClosesBeyond(w, i, s)
    PROVE  i > s.index + SwingLookback
<1> SUFFICES ASSUME i <= s.index + SwingLookback PROVE FALSE
  BY SwingIs, StructureAssumption DEF Inner
<1>1. i \in Around(s.index) \ {s.index} /\ s.index \in 1..Len(w)
  BY SwingIs, StructureAssumption DEF Around
<1>2. w[i] \in Bars /\ w[s.index] \in Bars
  BY <1>1, ElementOfSeq
<1>3. CASE s.type = "high"
  <2>1. s.index \in SwingHighs(w)
    BY <1>3 DEF Swings
  <2>2. w[i].high < w[s.index].high
    BY <1>1, <2>1 DEF SwingHighs
  <2>3. w[i].close < w[s.index].high /\ w[i].close \in Nat /\ w[s.index].high \in Nat
    <3>1. w[i].close <= w[i].high
      BY <1>2, BarIs
    <3>2. w[i].close \in Nat /\ w[i].high \in Nat /\ w[s.index].high \in Nat
      BY <1>2, BarIs
    <3> QED
      BY <2>2, <3>1, <3>2
  <2>4. w[i].close * BosScale < w[s.index].high * (BosScale + BosMargin)
    BY <2>3, MarginIs
  <2>5. w[i].close * BosScale >= w[s.index].high * (BosScale + BosMargin)
    BY <1>3 DEF ClosesBeyond, Level
  <2>6. w[i].close * BosScale \in Int /\ w[s.index].high * (BosScale + BosMargin) \in Int
    BY <2>3, StructureAssumption
  <2> QED
    BY <2>4, <2>5, <2>6
<1>4. CASE s.type # "high"
  <2>1. s.index \in SwingLows(w)
    BY <1>4 DEF Swings
  <2>2. w[i].low > w[s.index].low
    BY <1>1, <2>1 DEF SwingLows
  <2>3. w[s.index].low < w[i].close /\ w[i].close \in Nat /\ w[s.index].low \in Nat /\ 0 < w[s.index].low
    <3>1. w[i].low <= w[i].close /\ 0 < w[s.index].low
      BY <1>2, BarIs
    <3>2. w[i].close \in Nat /\ w[i].low \in Nat /\ w[s.index].low \in Nat
      BY <1>2, BarIs
    <3> QED
      BY <2>2, <3>1, <3>2
  <2>4. w[s.index].low * (BosScale - BosMargin) < w[i].close * BosScale
    BY <2>3, MarginIs
  <2>5. w[i].close * BosScale <= w[s.index].low * (BosScale - BosMargin)
    BY <1>4 DEF ClosesBeyond, Level
  <2>6. w[i].close * BosScale \in Int /\ w[s.index].low * (BosScale - BosMargin) \in Int
    BY <2>3, StructureAssumption
  <2> QED
    BY <2>4, <2>5, <2>6
<1> QED
  BY <1>3, <1>4

LEMMA DistanceIs ==
    ASSUME NEW w \in Seq(Bars), NEW i \in 1..Len(w), NEW s \in Swings(w)
    PROVE  Distance(w, i, s) \in Nat
<1>1. w[i] \in Bars /\ w[s.index] \in Bars
  BY SwingIs, ElementOfSeq
<1>2. w[i].close \in Nat /\ Level(w, s) \in Nat
  BY <1>1 DEF Level, Bars
<1> QED
  BY <1>2 DEF Distance

\* The order of the swings a bar breaks.
Leads(w, i, s, t) ==
    /\ Distance(w, i, t) <= Distance(w, i, s)
    /\ Distance(w, i, t) = Distance(w, i, s)
         => (t.type = "high" => s.type = "high") /\ (t.type = s.type => s.index <= t.index)

\* The most distant of some swings is one of them, and leads the others.
LEMMA ForemostIs ==
    ASSUME NEW w \in Seq(Bars), NEW i \in 1..Len(w), NEW C \in SUBSET Swings(w), C # {}
    PROVE  Foremost(w, i, C) \in C /\ \A t \in C : Leads(w, i, Foremost(w, i, C), t)
<1> DEFINE dist == [s \in C |-> Distance(w, i, s)]
           D == {dist[s] : s \in C}
           far == {s \in C : \A t \in C : Distance(w, i, t) <= Distance(w, i, s)}
           top == IF \E s \in far : s.type = "high" THEN {s \in far : s.type = "high"} ELSE far
<1>1. \A s \in C : Distance(w, i, s) \in Nat
  BY DistanceIs
<1>2. IsFiniteSet(C)
  <2> DEFINE I == 1..Len(w)
             T == {"high", "low"} \X I
             mk == [x \in T |-> [type |-> x[1], index |-> x[2]]]
             E == {mk[x] : x \in T}
  <2>1. IsFiniteSet(I) /\ IsFiniteSet({"high", "low"})
    <3>1. Len(w) \in Nat
      OBVIOUS
    <3>2. IsFiniteSet({} \cup {"high"})
      BY FS_EmptySet, FS_AddElement
    <3>3. IsFiniteSet(({} \cup {"high"}) \cup {"low"})
      BY <3>2, FS_AddElement
    <3>4. {"high", "low"} = ({} \cup {"high"}) \cup {"low"}
      OBVIOUS
    <3> QED
      BY <3>1, <3>3, <3>4, FS_Interval
  <2>2. IsFiniteSet(T)
    BY <2>1, FS_Product
  <2>4. C \subseteq E
    <3> SUFFICES ASSUME NEW s \in C PROVE s \in E
      OBVIOUS
    <3>1. <<s.type, s.index>> \in T /\ s = [type |-> s.type, index |-> s.index]
      BY SwingIs
    <3> QED
      BY <3>1
  <2> HIDE DEF T, mk
  <2>3. IsFiniteSet(E)
    BY <2>2, ImageIsFinite
  <2> QED
    BY <2>3, <2>4, FS_Subset
<1>3. far # {}
  <2>1. IsFiniteSet(D) /\ D \in SUBSET Nat /\ D # {}
    BY <1>1, <1>2, ImageIsFinite
  <2>2. PICK m \in D : \A n \in D : n <= m
    BY <2>1, GreatestExists
  <2> QED
    BY <2>2
<1>4. top # {} /\ top \subseteq C
  BY <1>3
<1> HIDE DEF top
<1>5. \E s \in top : \A t \in top : s.index <= t.index
  <2> DEFINE N == {s.index : s \in top}
  <2>1. \A s \in top : s.index \in Nat
    BY <1>4, SwingIs
  <2>2. N \in SUBSET Nat /\ N # {}
    BY <1>4, <2>1
  <2>3. PICK m \in N : \A n \in N : m <= n
    BY <2>2, LeastExists
  <2> QED
    BY <2>3
<1>6. Foremost(w, i, C) = CHOOSE s \in top : \A t \in top : s.index <= t.index
  BY DEF Foremost, top
<1>7. PICK s : s = Foremost(w, i, C)
  OBVIOUS
<1>8. s \in top /\ \A t \in top : s.index <= t.index
  BY <1>5, <1>6, <1>7
<1>9. ASSUME NEW t \in C PROVE Leads(w, i, s, t)
  <2>1. s \in far /\ s \in C
    BY <1>4, <1>8 DEF top
  <2>2. Distance(w, i, t) <= Distance(w, i, s)
    BY <2>1
  <2>3. ASSUME Distance(w, i, t) = Distance(w, i, s)
        PROVE  (t.type = "high" => s.type = "high") /\ (t.type = s.type => s.index <= t.index)
    <3>1. t \in far
      BY <2>1, <2>3
    <3> HIDE DEF far
    <3>2. t.type = "high" => s.type = "high"
      BY <1>8, <3>1 DEF top
    <3>3. ASSUME t.type = s.type PROVE t \in top
      BY <1>8, <2>1, <3>1, <3>3 DEF top
    <3> QED
      BY <1>8, <3>2, <3>3
  <2> QED
    BY <2>2, <2>3 DEF Leads
<1> QED
  BY <1>4, <1>7, <1>8, <1>9

\* The loop of a walk.
Walked(w, f, m) == [i \in 0..m |-> IF i = 0 THEN NoStructure ELSE Walk(w, f[i - 1], i)]

LEMMA AnalyzeIs ==
    ASSUME NEW w, Len(w) \in Nat
    PROVE  \E r : /\ r = Walked(w, r, Len(w))
                  /\ Analyze(w) = IF Len(w) < 2 * SwingLookback + 1 THEN NoStructure ELSE r[Len(w)]
<1> DEFINE H == {m \in 0..Len(w) : \E f : f = Walked(w, f, m)}
<1>1. 0 \in H
  <2> DEFINE f == [i \in 0..0 |-> NoStructure]
  <2>1. f = Walked(w, f, 0)
    BY DEF Walked
  <2> HIDE DEF f
  <2> QED
    BY <2>1
<1>2. ASSUME NEW k \in 1..Len(w), k - 1 \in H PROVE k \in H
  <2>1. PICK f : f = Walked(w, f, k - 1)
    BY <1>2
  <2> DEFINE TurnOf(g, i) == IF i = 0 THEN NoStructure ELSE Walk(w, g[i - 1], i)
             g == [i \in 0..k |-> IF i < k THEN f[i] ELSE TurnOf(f, k)]
  <2>2. \A i \in 0..(k - 1) : f[i] = TurnOf(f, i)
    BY <2>1 DEF Walked
  <2>3. \A i \in 0..k : g[i] = TurnOf(g, i)
    <3> SUFFICES ASSUME NEW i \in 0..k PROVE g[i] = TurnOf(g, i)
      OBVIOUS
    <3>1. i # 0 => g[i - 1] = f[i - 1]
      OBVIOUS
    <3>2. g[i] = TurnOf(f, i)
      BY <2>2
    <3> QED
      BY <3>1, <3>2
  <2>4. g = Walked(w, g, k)
    BY <2>3 DEF Walked
  <2> HIDE DEF g
  <2> QED
    BY <2>4
<1> HIDE DEF H
<1>3. 0..Len(w) \subseteq H
  BY <1>1, <1>2, LoopInduction
<1>4. \E f : f = Walked(w, f, Len(w))
  BY <1>3 DEF H
<1> DEFINE r == CHOOSE f : f = Walked(w, f, Len(w))
<1>5. r = Walked(w, r, Len(w))
  BY <1>4
<1>6. Analyze(w) = IF Len(w) < 2 * SwingLookback + 1 THEN NoStructure ELSE r[Len(w)]
  BY DEF Analyze, Walked
<1> HIDE DEF r
<1> QED
  BY <1>5, <1>6

\* The breaks found so far lie after the bars that confirm their swings.
Breakings == [at : Nat, swing : Nat, dir : {"bullish", "bearish"}, kind : {"bos", "choch"}]
Confirming(st) ==
    /\ st.breaks \in Seq(Breakings)
    /\ \A k \in 1..Len(st.breaks) : st.breaks[k].at > st.breaks[k].swing + SwingLookback

\* One bar adds a break at most, and keeps the ones before it.
LEMMA WalkIs ==
    ASSUME NEW w \in Seq(Bars), NEW i \in 1..Len(w), NEW st, Confirming(st)
    PROVE  /\ Confirming(Walk(w, st, i))
           /\ Len(st.breaks) <= Len(Walk(w, st, i).breaks)
           /\ \A k \in 1..Len(st.breaks) : Walk(w, st, i).breaks[k] = st.breaks[k]
<1> DEFINE broken == Broken(w, i, st.used)
           best == Foremost(w, i, broken)
           b == [at |-> i, swing |-> best.index, dir |-> Direction(best),
                 kind |-> IF st.trend \in {"undefined", Direction(best)} THEN "bos" ELSE "choch"]
           q == st.breaks
           p == Append(q, b)
           x == Walk(w, st, i)
<1>1. CASE broken = {}
  <2>1. x = st
    BY <1>1 DEF Walk
  <2>2. Len(q) \in Nat
    BY DEF Confirming
  <2> QED
    BY <2>1, <2>2
<1>2. CASE broken # {}
  <2>1. broken \in SUBSET Swings(w)
    BY DEF Broken
  <2>2. best \in broken
    BY <1>2, <2>1, ForemostIs
  <2>3. best \in Swings(w) /\ best.index < i /\ ClosesBeyond(w, i, best)
    BY <2>2 DEF Broken
  <2>4. i > best.index + SwingLookback /\ best.index \in 1..Len(w)
    BY <2>3, BeyondIsAfter, SwingIs
  <2>5. b \in Breakings /\ b.at = i /\ b.swing = best.index
    BY <2>4 DEF Breakings, Direction
  <2>6. x.breaks = p
    BY <1>2 DEF Walk
  <2>7. q \in Seq(Breakings) /\ Len(q) \in Nat /\ \A k \in 1..Len(q) : q[k].at > q[k].swing + SwingLookback
    BY DEF Confirming
  <2> HIDE DEF broken, best, b, q, x
  <2>8. p \in Seq(Breakings) /\ Len(p) = Len(q) + 1 /\ p[Len(q) + 1] = b /\ \A k \in 1..Len(q) : p[k] = q[k]
    BY <2>5, <2>7, AppendProperties
  <2> HIDE DEF p
  <2>9. \A k \in 1..Len(p) : p[k].at > p[k].swing + SwingLookback
    <3> SUFFICES ASSUME NEW k \in 1..Len(p) PROVE p[k].at > p[k].swing + SwingLookback
      OBVIOUS
    <3>1. k \in 1..Len(q) \/ k = Len(q) + 1
      BY <2>7, <2>8
    <3> QED
      BY <2>4, <2>5, <2>7, <2>8, <3>1
  <2>10. Confirming(x)
    BY <2>6, <2>8, <2>9 DEF Confirming
  <2>11. Len(q) <= Len(x.breaks) /\ \A k \in 1..Len(q) : x.breaks[k] = q[k]
    BY <2>6, <2>7, <2>8
  <2> QED
    BY <2>10, <2>11 DEF x, q
<1> QED
  BY <1>1, <1>2

LEMMA NothingConfirms == Confirming(NoStructure) /\ Len(NoStructure.breaks) = 0
BY EmptySeq DEF Confirming, NoStructure

\* What a walk has found after each bar.
LEMMA WalkedSound ==
    ASSUME NEW w \in Seq(Bars), NEW r, r = Walked(w, r, Len(w)), NEW i \in 0..Len(w)
    PROVE  Confirming(r[i])
<1> DEFINE G == {k \in 0..Len(w) : Confirming(r[k])}
<1>0. Len(w) \in Nat
  OBVIOUS
<1>1. \A k \in 0..Len(w) : r[k] = IF k = 0 THEN NoStructure ELSE Walk(w, r[k - 1], k)
  BY DEF Walked
<1>2. 0 \in G
  BY <1>0, <1>1, NothingConfirms
<1>3. ASSUME NEW k \in 1..Len(w), k - 1 \in G PROVE k \in G
  BY <1>1, <1>3, WalkIs
<1> HIDE DEF G
<1>4. 0..Len(w) \subseteq G
  BY <1>0, <1>2, <1>3, LoopInduction
<1> QED
  BY <1>4 DEF G

\* The breaks of a window lie after the bars that confirm their swings.
LEMMA AnalyzeSound ==
    ASSUME NEW w \in Seq(Bars)
    PROVE  Confirming(Analyze(w))
<1>1. Len(w) \in Nat /\ Len(w) \in 0..Len(w)
  OBVIOUS
<1>2. PICK r : /\ r = Walked(w, r, Len(w))
               /\ Analyze(w) = IF Len(w) < 2 * SwingLookback + 1 THEN NoStructure ELSE r[Len(w)]
  BY <1>1, AnalyzeIs
<1>3. Confirming(r[Len(w)])
  BY <1>1, <1>2, WalkedSound
<1> QED
  BY <1>2, <1>3, NothingConfirms

-----------------------------------------------------------------------------
\* The end of a sequence.
LEMMA EndIs ==
    ASSUME NEW S, NEW q \in Seq(S), NEW m \in 1..(Len(q) + 1)
    PROVE  /\ SubSeq(q, m, Len(q)) \in Seq(S)
           /\ Len(SubSeq(q, m, Len(q))) = Len(q) - m + 1
           /\ \A i \in 1..(Len(q) - m + 1) : SubSeq(q, m, Len(q))[i] = q[m + i - 1]
<1>1. Len(q) \in Nat
  OBVIOUS
<1>2. \A i \in m..Len(q) : q[i] \in S
  <2>1. \A i \in 1..Len(q) : q[i] \in S
    BY ElementOfSeq
  <2> QED
    BY <1>1, <2>1
<1> QED
  BY <1>1, <1>2, SubSeqProperties

\* The bars the detectors and the Dual Thrust engine have been shown.
Market == bars \in Seq(MarketBars) /\ dtBars \in Seq(DtMarket)

LEMMA MarketGrows ==
    ASSUME Market, [Next]_vars
    PROVE  Market'
<1>1. bars' = bars \/ \E b \in MarketBars : bars' = Append(bars, b)
  BY DEF Next, vars, detVars, Idle, DetNext, DetCandle
<1>2. dtBars' = dtBars \/ \E b \in DtMarket : dtBars' = Append(dtBars, b)
  BY DEF Next, vars, dtVars, Idle, DtNext, NextBar, OnDtCandle, DtRestart
<1>3. bars' \in Seq(MarketBars)
  BY <1>1, AppendProperties DEF Market
<1>4. dtBars' \in Seq(DtMarket)
  BY <1>2, AppendProperties DEF Market
<1> QED
  BY <1>3, <1>4 DEF Market

LEMMA BarsAreBars == MarketBars \subseteq Bars
BY BarsAssumption DEF Bars

\* Nothing is decided on what comes later: structure breaks lie after the bars
\* that confirm their swings (market_structure.py), and a Dual Thrust trade is
\* entered and flipped at the open after the bar that signalled it
\* (dual_thrust_shadow.py).
THEOREM NothingForeseen == Spec => []FromThePast
<1>1. Init => Market
  <2> SUFFICES ASSUME Init PROVE Market
    OBVIOUS
  <2>1. bars = <<>> /\ dtBars = <<>>
    BY DEF Init, DetInit, DtInit
  <2> QED
    BY <2>1, EmptySeq DEF Market
<1>2. Market /\ [Next]_vars => Market'
  BY MarketGrows
<1>3. Market => BreaksAfterConfirmation
  <2> SUFFICES ASSUME Market PROVE BreaksAfterConfirmation
    OBVIOUS
  <2>1. bars \in Seq(Bars)
    BY BarsAreBars DEF Market
  <2>2. FirstNo(bars) \in 1..(Len(bars) + 1)
    BY <2>1, WindowAssumption DEF FirstNo
  <2>3. WindowOf(bars) \in Seq(Bars)
    BY <2>1, <2>2, EndIs DEF WindowOf
  <2> DEFINE w == WindowOf(bars)
             q == Analyze(w).breaks
  <2>4. q \in Seq(Breakings) /\ \A k \in 1..Len(q) : q[k].at > q[k].swing + SwingLookback
    BY <2>3, AnalyzeSound DEF Confirming
  <2>5. DOMAIN q = 1..Len(q)
    BY <2>4
  <2> HIDE DEF w, q
  <2>6. \A k \in DOMAIN q : q[k].at > q[k].swing + SwingLookback
    BY <2>4, <2>5
  <2> QED
    BY <2>6 DEF BreaksAfterConfirmation, AfterConfirmation, w, q
<1>4. Market => NoLookahead
  <2> SUFFICES ASSUME Market PROVE NoLookahead
    OBVIOUS
  <2>1. WindowFrom \in 1..(Len(dtBars) + 1) /\ dtBars \in Seq(DtMarket)
    BY DtAssumption DEF WindowFrom, Market
  <2>2. Window \in Seq(DtMarket) /\ WindowFrom \in Int
    BY <2>1, EndIs DEF Window
  <2>3. Sound(Replay(Window, WindowFrom).trades, Window, WindowFrom)
    BY <2>2, ReplaySound
  <2> QED
    BY <2>3 DEF NoLookahead, Sound, SignalOf
<1>5. Market => FromThePast
  BY <1>3, <1>4 DEF FromThePast
<1> QED
  BY <1>1, <1>2, <1>5, PTL DEF Spec

-----------------------------------------------------------------------------
\* Extremes and sums.

\* A finite set of integers that is not empty has a greatest element, by
\* induction over its size.
LEMMA HighestExists ==
    ASSUME NEW S \in SUBSET Int, IsFiniteSet(S), S # {}
    PROVE  \E m \in S : \A n \in S : n <= m
<1> DEFINE Topless(T) == T # {} /\ ~\E m \in T : \A k \in T : k <= m
           Sizes == {n \in Nat : \E T \in SUBSET S : Cardinality(T) = n /\ Topless(T)}
<1> SUFFICES ASSUME Sizes # {} PROVE FALSE
  BY FS_CardinalityType
<1>0. Sizes \in SUBSET Nat
  OBVIOUS
<1>1. PICK n \in Sizes : \A k \in Sizes : n <= k
  BY <1>0, LeastExists
<1>2. PICK T \in SUBSET S : Cardinality(T) = n /\ Topless(T)
  BY <1>1
<1>3. IsFiniteSet(T) /\ T \in SUBSET Int /\ n \in Nat
  BY <1>1, FS_Subset
<1>4. PICK x \in T : TRUE
  BY <1>2
<1> DEFINE U == T \ {x}
<1>5. IsFiniteSet(U) /\ Cardinality(U) = n - 1
  BY <1>2, <1>3, FS_RemoveElement
<1>6. n - 1 \in Nat
  BY <1>5, FS_CardinalityType
<1>7. ~Topless(U)
  <2>1. n - 1 \notin Sizes
    BY <1>1, <1>3
  <2>2. U \in SUBSET S
    OBVIOUS
  <2> QED
    BY <1>5, <1>6, <2>1, <2>2
<1>8. CASE U = {}
  BY <1>2, <1>3, <1>8
<1>9. CASE U # {}
  <2>1. PICK m \in U : \A k \in U : k <= m
    BY <1>7, <1>9
  <2>2. CASE x <= m
    BY <1>2, <1>3, <2>1, <2>2
  <2>3. CASE ~(x <= m)
    BY <1>2, <1>3, <1>4, <2>1, <2>3
  <2> QED
    BY <2>2, <2>3
<1> QED
  BY <1>8, <1>9

\* And a least one.
LEMMA LowestExists ==
    ASSUME NEW S \in SUBSET Int, IsFiniteSet(S), S # {}
    PROVE  \E m \in S : \A n \in S : m <= n
<1> DEFINE neg == [x \in S |-> -x]
           T == {neg[x] : x \in S}
<1>1. IsFiniteSet(T)
  BY ImageIsFinite
<1>2. T \in SUBSET Int /\ T # {}
  <2>1. \A x \in S : neg[x] \in Int
    OBVIOUS
  <2> HIDE DEF neg
  <2> QED
    BY <2>1
<1>3. PICK t \in T : \A u \in T : u <= t
  BY <1>1, <1>2, HighestExists
<1>4. PICK m \in S : t = -m
  BY <1>3
<1>5. \A n \in S : m <= n
  <2> SUFFICES ASSUME NEW n \in S PROVE m <= n
    OBVIOUS
  <2>1. neg[n] \in T /\ neg[n] = -n
    OBVIOUS
  <2>2. -n <= -m
    BY <1>3, <1>4, <2>1
  <2> QED
    BY <2>2
<1> QED
  BY <1>5

\* What the library's extremes are.
LEMMA MaxIs ==
    ASSUME NEW S \in SUBSET Int, IsFiniteSet(S), S # {}
    PROVE  Max(S) \in S /\ \A x \in S : x <= Max(S)
<1>1. \E m \in S : \A n \in S : m >= n
  <2>1. PICK m \in S : \A n \in S : n <= m
    BY HighestExists
  <2>2. \A n \in S : m >= n
    BY <2>1
  <2> QED
    BY <2>2
<1>2. Max(S) \in S /\ \A n \in S : Max(S) >= n
  BY <1>1 DEF Max
<1> QED
  BY <1>2

LEMMA MinIs ==
    ASSUME NEW S \in SUBSET Int, IsFiniteSet(S), S # {}
    PROVE  Min(S) \in S /\ \A x \in S : Min(S) <= x
BY LowestExists DEF Min

\* An interval's image under a function is finite.
LEMMA SpanIsFinite ==
    ASSUME NEW a \in Int, NEW b \in Int, NEW f
    PROVE  IsFiniteSet({f[x] : x \in a..b})
<1>1. IsFiniteSet(a..b)
  BY FS_Interval
<1> QED
  BY <1>1, ImageIsFinite

-----------------------------------------------------------------------------
\* The engine's setup.

EngineBar == {b \in [open : Int, close : Int, low : Int, high : Int] :
                b.low <= b.close /\ b.close <= b.high}
EngineTyped == engineBars \in Seq(EngineBar) /\ bias \in {"long", "short"}

\* The loop of a sum.
Summed(f, g, n) == [i \in 0..n |-> IF i = 0 THEN 0 ELSE g[i - 1] + f[i]]

LEMMA TotalIs ==
    ASSUME NEW f, Len(f) \in Nat, \A i \in 1..Len(f) : f[i] \in Int
    PROVE  Total(f) \in Int
<1> DEFINE H == {m \in 0..Len(f) : \E g : g = Summed(f, g, m)}
<1>1. 0 \in H
  <2> DEFINE g == [i \in 0..0 |-> 0]
  <2>1. g = Summed(f, g, 0)
    BY DEF Summed
  <2> HIDE DEF g
  <2> QED
    BY <2>1
<1>2. ASSUME NEW k \in 1..Len(f), k - 1 \in H PROVE k \in H
  <2>1. PICK h : h = Summed(f, h, k - 1)
    BY <1>2
  <2> DEFINE TurnOf(g, i) == IF i = 0 THEN 0 ELSE g[i - 1] + f[i]
             g == [i \in 0..k |-> IF i < k THEN h[i] ELSE TurnOf(h, k)]
  <2>2. \A i \in 0..(k - 1) : h[i] = TurnOf(h, i)
    BY <2>1 DEF Summed
  <2>3. \A i \in 0..k : g[i] = TurnOf(g, i)
    <3> SUFFICES ASSUME NEW i \in 0..k PROVE g[i] = TurnOf(g, i)
      OBVIOUS
    <3>1. i # 0 => g[i - 1] = h[i - 1]
      OBVIOUS
    <3>2. g[i] = TurnOf(h, i)
      BY <2>2
    <3> QED
      BY <3>1, <3>2
  <2>4. g = Summed(f, g, k)
    BY <2>3 DEF Summed
  <2> HIDE DEF g
  <2> QED
    BY <2>4
<1> HIDE DEF H
<1>3. 0..Len(f) \subseteq H
  BY <1>1, <1>2, LoopInduction
<1>4. \E g : g = Summed(f, g, Len(f))
  BY <1>3 DEF H
<1> DEFINE r == CHOOSE g : g = Summed(f, g, Len(f))
<1>5. r = Summed(f, r, Len(f))
  BY <1>4
<1>6. Total(f) = r[Len(f)]
  BY DEF Total, Summed
<1> HIDE DEF r
<1> DEFINE G == {k \in 0..Len(f) : r[k] \in Int}
<1>7. \A k \in 0..Len(f) : r[k] = IF k = 0 THEN 0 ELSE r[k - 1] + f[k]
  BY <1>5 DEF Summed
<1>8. 0 \in G
  BY <1>7
<1>9. ASSUME NEW k \in 1..Len(f), k - 1 \in G PROVE k \in G
  BY <1>7, <1>9
<1> HIDE DEF G
<1>10. 0..Len(f) \subseteq G
  BY <1>8, <1>9, LoopInduction
<1> QED
  BY <1>6, <1>10 DEF G

LEMMA ApartIs ==
    ASSUME NEW a \in Int, NEW b \in Int
    PROVE  /\ Apart(a, b) \in Int /\ Apart(a, b) >= 0
           /\ a >= b => Apart(a, b) = a - b
           /\ a <= b => Apart(a, b) = b - a
BY DEF Apart

\* The extremes of the engine.
LEMMA LargestIs ==
    ASSUME NEW S \in SUBSET Int, IsFiniteSet(S), S # {}
    PROVE  Largest(S) \in S /\ \A x \in S : x <= Largest(S)
BY HighestExists DEF Largest

LEMMA SmallestIs ==
    ASSUME NEW S \in SUBSET Int, IsFiniteSet(S), S # {}
    PROVE  Smallest(S) \in S /\ \A x \in S : Smallest(S) <= x
BY LowestExists DEF Smallest

LEMMA PairIsFinite ==
    ASSUME NEW a, NEW b
    PROVE  IsFiniteSet({a, b})
<1>1. IsFiniteSet(({} \cup {a}) \cup {b})
  BY FS_EmptySet, FS_AddElement
<1>2. {a, b} = ({} \cup {a}) \cup {b}
  OBVIOUS
<1> QED
  BY <1>1, <1>2

LEMMA TripleIsFinite ==
    ASSUME NEW a, NEW b, NEW c
    PROVE  IsFiniteSet({a, b, c})
<1>1. IsFiniteSet({a, b} \cup {c})
  BY PairIsFinite, FS_AddElement
<1>2. {a, b, c} = {a, b} \cup {c}
  OBVIOUS
<1> QED
  BY <1>1, <1>2

LEMMA RangeIs ==
    ASSUME NEW c \in EngineBar, NEW d \in EngineBar
    PROVE  TrueRange(c, d) \in Int
<1> DEFINE S == {c.high - c.low, Apart(c.high, d.close), Apart(c.low, d.close)}
<1>1. S \in SUBSET Int /\ S # {}
  <2> HIDE DEF S
  <2>1. c.high \in Int /\ c.low \in Int /\ d.close \in Int
    BY DEF EngineBar
  <2>2. Apart(c.high, d.close) \in Int /\ Apart(c.low, d.close) \in Int /\ c.high - c.low \in Int
    BY <2>1 DEF Apart
  <2> QED
    BY <2>2 DEF S
<1>2. IsFiniteSet(S)
  BY TripleIsFinite
<1> HIDE DEF S
<1>3. Largest(S) \in Int
  BY <1>1, <1>2, LargestIs
<1> QED
  BY <1>3 DEF TrueRange, S

LEMMA AtrIs ==
    ASSUME EngineTyped
    PROVE  Atr \in Int
<1> DEFINE n == Len(engineBars)
           f == [i \in 1..AtrPeriod |-> TrueRange(engineBars[n - i + 1], engineBars[n - i])]
<1>1. AtrPeriod \in Nat \ {0} /\ n \in Nat
  BY EngineAssumption DEF EngineTyped
<1>2. CASE n <= AtrPeriod
  BY <1>2 DEF Atr
<1>3. CASE ~(n <= AtrPeriod)
  <2>1. \A i \in 1..AtrPeriod : f[i] \in Int
    <3> SUFFICES ASSUME NEW i \in 1..AtrPeriod PROVE f[i] \in Int
      OBVIOUS
    <3>1. n - i + 1 \in 1..n /\ n - i \in 1..n
      BY <1>1, <1>3
    <3>2. engineBars[n - i + 1] \in EngineBar /\ engineBars[n - i] \in EngineBar
      BY <3>1, ElementOfSeq DEF EngineTyped
    <3> QED
      BY <3>2, RangeIs
  <2>2. Len(f) = AtrPeriod
    BY <1>1
  <2>3. Atr = Total(f) \div AtrPeriod
    BY <1>3 DEF Atr
  <2> HIDE DEF f
  <2>4. Total(f) \in Int
    BY <1>1, <2>1, <2>2, TotalIs
  <2> QED
    BY <1>1, <2>3, <2>4
<1> QED
  BY <1>2, <1>3

\* A leg qualifies: its pullback has not come back to its origin.
Qualified(leg) ==
    /\ leg.from \in 1..Len(engineBars) /\ leg.to \in leg.from..(Len(engineBars) - 1)
    /\ \E atr \in Int : IsImpulse(leg.from, leg.to, atr)
    /\ IsPullback(LegDir(leg.from, leg.to), Origin(leg.from, leg.to), Peak(leg.from, leg.to),
                  leg.to + 1, Len(engineBars))

\* The first of some patterns is one of them.
LEMMA FirstPatternIs ==
    ASSUME NEW all \in SUBSET (Nat \X Nat), all # {}
    PROVE  (CHOOSE x \in all : \A y \in all : x[1] < y[1] \/ (x[1] = y[1] /\ x[2] <= y[2])) \in all
<1> DEFINE S == {x[1] : x \in all}
<1>1. S \in SUBSET Nat /\ S # {}
  OBVIOUS
<1>2. PICK m \in S : \A n \in S : m <= n
  BY <1>1, LeastExists
<1> DEFINE T == {x[2] : x \in {z \in all : z[1] = m}}
<1>3. T \in SUBSET Nat /\ T # {}
  BY <1>2
<1>4. PICK k \in T : \A n \in T : k <= n
  BY <1>3, LeastExists
<1>5. PICK x \in all : x[1] = m /\ x[2] = k
  BY <1>4
<1>6. \A y \in all : x[1] < y[1] \/ (x[1] = y[1] /\ x[2] <= y[2])
  <2> SUFFICES ASSUME NEW y \in all PROVE x[1] < y[1] \/ (x[1] = y[1] /\ x[2] <= y[2])
    OBVIOUS
  <2>1. y[1] \in S /\ y[1] \in Nat /\ x[1] \in Nat
    OBVIOUS
  <2>2. m <= y[1]
    BY <1>2, <2>1
  <2>3. CASE y[1] = m
    <3>1. y[2] \in T
      BY <2>3
    <3> QED
      BY <1>4, <1>5, <2>3, <3>1
  <2>4. CASE y[1] # m
    BY <1>5, <2>1, <2>2, <2>4
  <2> QED
    BY <2>3, <2>4
<1> QED
  BY <1>5, <1>6

LEMMA DetectedIs ==
    ASSUME EngineTyped, NEW atr \in Int, NEW leg \in ToSet(Detected(atr))
    PROVE  Qualified(leg) /\ leg.from \in Nat /\ leg.to \in Nat
<1> DEFINE all == Patterns(atr)
           n == Len(engineBars)
<1>1. all # {}
  <2>1. all = {} => Detected(atr) = <<>>
    BY DEF Detected
  <2>2. ToSet(<<>>) = {}
    BY DEF ToSet
  <2> QED
    BY <2>1, <2>2
<1>0. {EngineWindow, AtrPeriod, ImpulseMin, ImpulseMax, PullbackMin, PullbackMax} \subseteq Nat \ {0}
  BY EngineAssumption
<1>2. all \in SUBSET (Nat \X Nat)
  <2>1. PullbackMin..PullbackMax \subseteq Nat /\ ImpulseMin..ImpulseMax \subseteq Nat
    BY <1>0
  <2>2. all \subseteq (PullbackMin..PullbackMax) \X (ImpulseMin..ImpulseMax)
    BY DEF Patterns
  <2> QED
    BY <2>1, <2>2
<1> DEFINE p == CHOOSE x \in all : \A y \in all : x[1] < y[1] \/ (x[1] = y[1] /\ x[2] <= y[2])
           b == n - p[1]
           a == b - p[2] + 1
<1>3. p \in all
  BY <1>1, <1>2, FirstPatternIs
<1>4. leg = [from |-> a, to |-> b]
  <2> DEFINE r == [from |-> a, to |-> b]
  <2>1. Detected(atr) = <<r>>
    BY <1>1 DEF Detected
  <2> HIDE DEF r
  <2>2. ToSet(<<r>>) = {r}
    BY DEF ToSet
  <2> QED
    BY <2>1, <2>2 DEF r
<1> HIDE DEF p
<1>5. /\ p[1] \in PullbackMin..PullbackMax /\ p[2] \in ImpulseMin..ImpulseMax
      /\ a >= 1 /\ IsImpulse(a, b, atr) /\ IsPullback(LegDir(a, b), Origin(a, b), Peak(a, b), b + 1, n)
  BY <1>3 DEF Patterns
<1>6. n \in Nat /\ p[1] \in Nat /\ p[1] > 0 /\ p[2] \in Nat /\ p[2] > 0
  BY <1>0, <1>5 DEF EngineTyped
<1>7. a \in 1..n /\ b \in a..(n - 1) /\ a \in Nat /\ b \in Nat
  BY <1>5, <1>6
<1> HIDE DEF a, b, n
<1> QED
  BY <1>4, <1>5, <1>7 DEF Qualified, n

\* What a qualified leg is: origin and peak lie apart, on the right sides, and
\* no bar of the pullback has come back to the origin.
LEMMA LegIs ==
    ASSUME EngineTyped, NEW leg, leg.from \in Nat, leg.to \in Nat, Qualified(leg),
           NEW origin, origin = Origin(leg.from, leg.to), NEW peak, peak = Peak(leg.from, leg.to),
           NEW side, side = LegDir(leg.from, leg.to)
    PROVE  /\ side \in {"long", "short"} /\ origin \in Int /\ peak \in Int
           /\ side = "long" => /\ origin < peak
                              /\ \A i \in (leg.to + 1)..Len(engineBars) : engineBars[i].low > origin
           /\ side = "short" => /\ peak < origin
                               /\ \A i \in (leg.to + 1)..Len(engineBars) : engineBars[i].high < origin
<1> DEFINE a == leg.from
           b == leg.to
           n == Len(engineBars)
           I == (b + 1)..n
           lows == [i \in I |-> engineBars[i].low]
           highs == [i \in I |-> engineBars[i].high]
           L == {lows[i] : i \in I}
           K == {highs[i] : i \in I}
<1>1. n \in Nat /\ a \in 1..n /\ b \in 1..n /\ b + 1 \in I /\ b \in Int
  BY DEF EngineTyped, Qualified
<1>2. \A i \in 1..n : /\ engineBars[i].low \in Int /\ engineBars[i].high \in Int /\ engineBars[i].close \in Int
                      /\ engineBars[i].low <= engineBars[i].close /\ engineBars[i].close <= engineBars[i].high
  <2> SUFFICES ASSUME NEW i \in 1..n PROVE engineBars[i] \in EngineBar
    BY DEF EngineBar
  <2> QED
    BY ElementOfSeq DEF EngineTyped
<1>3. engineBars[a].close # engineBars[b].close
  BY DEF Qualified, IsImpulse
<1>4. \A i \in I : i \in 1..n
  BY <1>1
<1>5. IsFiniteSet(L) /\ IsFiniteSet(K)
  <2>1. IsFiniteSet(I)
    BY <1>1, FS_Interval
  <2> HIDE DEF I, lows, highs
  <2> QED
    BY <2>1, ImageIsFinite
<1>6. L \in SUBSET Int /\ K \in SUBSET Int /\ L # {} /\ K # {}
  BY <1>1, <1>2, <1>4
<1>7. L = {engineBars[i].low : i \in I} /\ K = {engineBars[i].high : i \in I}
  OBVIOUS
<1> HIDE DEF L, K
<1>8. Smallest(L) \in Int /\ \A x \in L : Smallest(L) <= x
  BY <1>5, <1>6, SmallestIs
<1>9. Largest(K) \in Int /\ \A x \in K : x <= Largest(K)
  BY <1>5, <1>6, LargestIs
<1> DEFINE depth == Retrace(side, peak, b + 1, n)
<1>10. depth * 100 <= RetraceMax * Apart(peak, origin)
  BY DEF Qualified, IsPullback
<1>11. RetraceMax \in 0..99
  BY EngineAssumption
<1>12. CASE side = "long"
  <2>1. origin = engineBars[a].low /\ peak = engineBars[b].high /\ engineBars[b].close > engineBars[a].close
    BY <1>12 DEF Origin, Peak, LegDir
  <2>2. origin \in Int /\ peak \in Int /\ origin < peak
    BY <1>1, <1>2, <2>1
  <2>3. Apart(peak, origin) = peak - origin
    BY <2>2 DEF Apart
  <2>4. depth = peak - Smallest(L)
    BY <1>7, <1>12 DEF Retrace
  <2> HIDE DEF depth
  <2>5. Smallest(L) > origin
    <3> DEFINE d == peak - origin
               m == Smallest(L)
    <3>1. d \in Int /\ d >= 1 /\ m \in Int /\ depth = peak - m
      BY <1>8, <2>2, <2>4
    <3>2. RetraceMax * d <= 99 * d
      BY <1>11, <3>1
    <3>3. RetraceMax * d \in Int /\ depth * 100 <= RetraceMax * d
      BY <1>10, <1>11, <2>3, <3>1
    <3> HIDE DEF m
    <3> DEFINE x == RetraceMax * d
    <3>4. x \in Int /\ (peak - m) * 100 <= x /\ x <= 99 * (peak - origin)
      BY <3>1, <3>2, <3>3
    <3> HIDE DEF x
    <3>5. m > origin
      BY <2>2, <3>1, <3>4
    <3> QED
      BY <3>5 DEF m
  <2>6. \A i \in I : engineBars[i].low > origin
    <3> SUFFICES ASSUME NEW i \in I PROVE engineBars[i].low > origin
      OBVIOUS
    <3>1. engineBars[i].low \in L /\ engineBars[i].low \in Int
      BY <1>2, <1>4, <1>7
    <3> QED
      BY <1>8, <2>2, <2>5, <3>1
  <2> QED
    BY <1>12, <2>2, <2>6
<1>13. CASE side # "long"
  <2>1. side = "short" /\ origin = engineBars[a].high /\ peak = engineBars[b].low /\ ~(engineBars[b].close > engineBars[a].close)
    BY <1>13 DEF Origin, Peak, LegDir
  <2>2. origin \in Int /\ peak \in Int /\ peak < origin
    <3>1. engineBars[b].close < engineBars[a].close
      BY <1>1, <1>2, <1>3, <2>1
    <3>2. /\ engineBars[b].low \in Int /\ engineBars[b].close \in Int /\ engineBars[b].low <= engineBars[b].close
          /\ engineBars[a].high \in Int /\ engineBars[a].close \in Int /\ engineBars[a].close <= engineBars[a].high
      BY <1>1, <1>2
    <3> QED
      BY <2>1, <3>1, <3>2
  <2>3. Apart(peak, origin) = origin - peak
    BY <2>2 DEF Apart
  <2>4. depth = Largest(K) - peak
    BY <1>7, <1>13 DEF Retrace
  <2> HIDE DEF depth
  <2>5. Largest(K) < origin
    <3> DEFINE d == origin - peak
               m == Largest(K)
    <3>1. d \in Int /\ d >= 1 /\ m \in Int /\ depth = m - peak
      BY <1>9, <2>2, <2>4
    <3>2. RetraceMax * d <= 99 * d
      BY <1>11, <3>1
    <3>3. RetraceMax * d \in Int /\ depth * 100 <= RetraceMax * d
      BY <1>10, <1>11, <2>3, <3>1
    <3> HIDE DEF m
    <3> DEFINE x == RetraceMax * d
    <3>4. x \in Int /\ (m - peak) * 100 <= x /\ x <= 99 * (origin - peak)
      BY <3>1, <3>2, <3>3
    <3> HIDE DEF x
    <3>5. m < origin
      BY <2>2, <3>1, <3>4
    <3> QED
      BY <3>5 DEF m
  <2>6. \A i \in I : engineBars[i].high < origin
    <3> SUFFICES ASSUME NEW i \in I PROVE engineBars[i].high < origin
      OBVIOUS
    <3>1. engineBars[i].high \in K /\ engineBars[i].high \in Int
      BY <1>2, <1>4, <1>7
    <3> QED
      BY <1>9, <2>2, <2>5, <3>1
  <2> QED
    BY <2>1, <2>2, <2>6
<1> QED
  BY <1>12, <1>13

\* Levels in order: the stop behind the entry, the targets ahead.
Ordered(s) ==
    /\ s.dir \in {"long", "short"} /\ s.entry \in Int /\ s.sl \in Int /\ s.tp1 \in Int /\ s.tp2 \in Int
    /\ s.dir = "long"  => s.sl < s.entry /\ s.entry < s.tp1 /\ s.tp1 < s.tp2
    /\ s.dir = "short" => s.tp2 < s.tp1 /\ s.tp1 < s.entry /\ s.entry < s.sl

\* A setup has the engine's fields.
Whole(s) == s = [kind |-> s.kind, dir |-> s.dir, entry |-> s.entry, sl |-> s.sl,
                 tp1 |-> s.tp1, tp2 |-> s.tp2, leg |-> s.leg]

\* A share of a distance.
LEMMA ShareIs ==
    ASSUME NEW d \in Nat, NEW pct \in Nat
    PROVE  /\ (d * pct) \div 100 \in Nat
           /\ pct >= 100 => (d * pct) \div 100 >= d
<1>1. d * pct \in Nat /\ (pct >= 100 => d * pct >= d * 100)
  OBVIOUS
<1> DEFINE x == d * pct
<1>2. x \in Nat /\ (pct >= 100 => x >= d * 100)
  BY <1>1
<1> HIDE DEF x
<1>3. x \div 100 \in Nat /\ (x >= d * 100 => x \div 100 >= d)
  BY <1>2
<1> QED
  BY <1>2, <1>3 DEF x

\* A larger share is a whole distance more.
LEMMA SharesApart ==
    ASSUME NEW d \in Nat, NEW p \in Nat, NEW q \in Nat, q >= p + 100
    PROVE  (d * q) \div 100 >= (d * p) \div 100 + d
<1> DEFINE x == d * p
           y == d * q
<1>1. x \in Nat /\ y \in Nat /\ y >= x + d * 100
  <2>1. d * q >= d * (p + 100)
    OBVIOUS
  <2>2. d * (p + 100) = d * p + d * 100
    OBVIOUS
  <2> QED
    BY <2>1, <2>2
<1> HIDE DEF x, y
<1>2. y \div 100 >= x \div 100 + d
  BY <1>1
<1> QED
  BY <1>2 DEF x, y

LEMMA RoomsFinite ==
    ASSUME NEW side, NEW tp1, NEW risk
    PROVE  IsFiniteSet(Rooms(side, tp1, risk)) /\ Rooms(side, tp1, risk) \in SUBSET Int
<1>1. Rooms(side, tp1, risk) \subseteq SwingLevels
  BY DEF Rooms
<1>2. IsFiniteSet(SwingLevels) /\ SwingLevels \subseteq Int
  BY MovesAssumption
<1> QED
  BY <1>1, <1>2, FS_Subset

\* The second target lies beyond the first.
LEMMA SecondIs ==
    ASSUME NEW side \in {"long", "short"}, NEW entry \in Int, NEW risk \in Nat, risk > 0,
           NEW tp1, tp1 = AtR(side, entry, risk, Tp1R), NEW tp2, tp2 = SecondTarget(side, entry, tp1, risk)
    PROVE  /\ tp1 \in Int /\ tp2 \in Int
           /\ side = "long"  => entry < tp1 /\ tp1 < tp2
           /\ side = "short" => tp2 < tp1 /\ tp1 < entry
<1> DEFINE x == (risk * Tp1R) \div 100
           y == (risk * Tp2R) \div 100
           fixed == AtR(side, entry, risk, Tp2R)
           rooms == Rooms(side, tp1, risk)
<1>1. Tp1R \in Nat /\ Tp2R \in Nat /\ Tp1R >= 100 /\ Tp2R >= Tp1R + 100
  BY EngineAssumption
<1>2. x \in Nat /\ x >= risk /\ y \in Nat /\ y >= x + risk
  BY <1>1, ShareIs, SharesApart
<1>3. tp1 = entry + Up(side) * x /\ fixed = entry + Up(side) * y
  BY DEF AtR
<1> HIDE DEF x, y, fixed
<1>4. IsFiniteSet(rooms) /\ rooms \in SUBSET Int
  BY RoomsFinite
<1>5. \A r \in rooms : Up(side) * (r - tp1) > 0
  BY DEF Rooms
<1> HIDE DEF rooms
<1>6. fixed \in Int /\ tp1 \in Int
  BY <1>2, <1>3 DEF Up
<1> DEFINE S == rooms \cup {fixed}
<1>7. IsFiniteSet(S) /\ S \in SUBSET Int /\ S # {}
  BY <1>4, <1>6, FS_AddElement
<1>8. CASE side = "long"
  <2>1. tp2 = Smallest(S)
    BY <1>8 DEF SecondTarget, fixed, rooms
  <2>2. \A r \in S : r > tp1
    <3>1. fixed > tp1
      BY <1>2, <1>3, <1>6, <1>8 DEF Up
    <3>2. ASSUME NEW r \in rooms PROVE r > tp1
      <4>1. 1 * (r - tp1) > 0 /\ r \in Int
        BY <1>4, <1>5, <1>8 DEF Up
      <4> QED
        BY <1>6, <4>1
    <3> QED
      BY <3>1, <3>2
  <2>3. tp2 \in S
    BY <1>7, <2>1, SmallestIs
  <2>4. entry < tp1
    BY <1>2, <1>3, <1>8 DEF Up
  <2> QED
    BY <1>6, <1>7, <1>8, <2>2, <2>3, <2>4
<1>9. CASE side = "short"
  <2>1. tp2 = Largest(S)
    BY <1>9 DEF SecondTarget, fixed, rooms
  <2>2. \A r \in S : r < tp1
    <3>1. fixed < tp1
      BY <1>2, <1>3, <1>6, <1>9 DEF Up
    <3>2. ASSUME NEW r \in rooms PROVE r < tp1
      <4>1. (-1) * (r - tp1) > 0 /\ r \in Int
        BY <1>4, <1>5, <1>9 DEF Up
      <4> QED
        BY <1>6, <4>1
    <3> QED
      BY <3>1, <3>2
  <2>3. tp2 \in S
    BY <1>7, <2>1, LargestIs
  <2>4. tp1 < entry
    BY <1>2, <1>3, <1>9 DEF Up
  <2> QED
    BY <1>6, <1>7, <1>9, <2>2, <2>3, <2>4
<1> QED
  BY <1>8, <1>9

\* What SetupOn gives: levels in order, the stop beyond the origin of its leg.
LEMMA SetupOnIs ==
    ASSUME EngineTyped, NEW leg, leg.from \in Nat, leg.to \in Nat, Qualified(leg),
           NEW price \in Int, NEW atr \in Int, NEW s \in ToSet(SetupOn(leg, price, atr))
    PROVE  /\ Whole(s) /\ Ordered(s) /\ s.leg = leg
           /\ \A i \in leg.to + 1 .. Len(engineBars) :
                 IF s.dir = "long" THEN engineBars[i].low > s.sl ELSE engineBars[i].high < s.sl
<1> DEFINE side == LegDir(leg.from, leg.to)
           origin == Origin(leg.from, leg.to)
           peak == Peak(leg.from, leg.to)
           entry == EntryOf(origin, peak)
           sl == StopOf(side, origin, peak, entry, atr)
           risk == Apart(entry, sl)
           tp1 == AtR(side, entry, risk, Tp1R)
           tp2 == SecondTarget(side, entry, tp1, risk)
           t == [kind |-> "engine1", dir |-> side, entry |-> entry, sl |-> sl,
                 tp1 |-> tp1, tp2 |-> tp2, leg |-> leg]
<1>1. SetupOn(leg, price, atr) = <<t>> /\ risk # 0 /\ ~(Up(side) * (entry - sl) <= 0)
  <2>1. ToSet(<<>>) = {}
    BY DEF ToSet
  <2>2. SetupOn(leg, price, atr) # <<>>
    BY <2>1
  <2>3. SetupOn(leg, price, atr) = <<t>> /\ ~(risk = 0 \/ Up(side) * (entry - sl) <= 0)
    BY <2>2 DEF SetupOn
  <2> QED
    BY <2>3
<1>2. s = t
  <2> HIDE DEF t
  <2>1. ToSet(<<t>>) = {t}
    BY DEF ToSet
  <2> QED
    BY <1>1, <2>1
<1>3. s.dir = side /\ s.entry = entry /\ s.sl = sl /\ s.tp1 = tp1 /\ s.tp2 = tp2 /\ s.leg = leg /\ Whole(s)
  BY <1>2 DEF Whole
<1>4. side \in {"long", "short"} /\ origin \in Int /\ peak \in Int
  BY LegIs
<1>5. {EntryFib, SlBuffer, SlAtr} \subseteq Nat
  BY EngineAssumption
<1>6. EntryFib \in Nat /\ SlBuffer \in Nat /\ SlAtr \in Nat
  BY <1>5
<1>7. entry \in Int
  <2> DEFINE x == (peak - origin) * EntryFib
  <2>1. x \in Int
    BY <1>4, <1>6
  <2> HIDE DEF x
  <2>2. x \div 100 \in Int
    BY <2>1
  <2> QED
    BY <1>4, <2>2 DEF EntryOf, x
<1> DEFINE cut == (Apart(peak, origin) * SlBuffer) \div 100
           lot == (atr * SlAtr) \div 100
           past == origin - Up(side) * cut
           floor == entry - Up(side) * lot
<1>8. cut \in Nat /\ lot \in Int
  <2>1. Apart(peak, origin) \in Nat
    BY <1>4, ApartIs
  <2>2. cut \in Nat
    BY <1>6, <2>1, ShareIs
  <2> DEFINE x == atr * SlAtr
  <2>3. x \in Int
    BY <1>6
  <2> HIDE DEF x
  <2>4. x \div 100 \in Int
    BY <2>3
  <2> QED
    BY <2>2, <2>4 DEF x
<1>9. sl = IF side = "long" THEN Smallest({past, floor}) ELSE Largest({past, floor})
  BY DEF StopOf
<1> HIDE DEF cut, lot, entry, origin, peak
<1>10. past \in Int /\ floor \in Int /\ (side = "long" => past <= origin) /\ (side = "short" => past >= origin)
  BY <1>4, <1>7, <1>8 DEF Up
<1> HIDE DEF past, floor, sl
<1>11. sl \in Int /\ (side = "long" => sl <= origin) /\ (side = "short" => sl >= origin)
  <2> DEFINE S == {past, floor}
  <2>1. IsFiniteSet(S) /\ S \in SUBSET Int /\ S # {}
    BY <1>10, PairIsFinite
  <2>2. Smallest(S) \in S /\ (\A x \in S : Smallest(S) <= x) /\ Largest(S) \in S /\ (\A x \in S : x <= Largest(S))
    BY <2>1, SmallestIs, LargestIs
  <2>3. CASE side = "long"
    BY <1>4, <1>9, <1>10, <2>2, <2>3
  <2>4. CASE side = "short"
    BY <1>4, <1>9, <1>10, <2>2, <2>4
  <2> QED
    BY <1>4, <2>3, <2>4
<1>12. risk \in Nat /\ risk > 0
  <2>1. risk \in Int /\ risk >= 0
    BY <1>7, <1>11, ApartIs
  <2>2. risk # 0
    BY <1>1
  <2> HIDE DEF risk
  <2> QED
    BY <2>1, <2>2
<1>13. /\ tp1 \in Int /\ tp2 \in Int
       /\ side = "long"  => entry < tp1 /\ tp1 < tp2
       /\ side = "short" => tp2 < tp1 /\ tp1 < entry
  BY <1>4, <1>7, <1>12, SecondIs
<1>14. (side = "long" => sl < entry) /\ (side = "short" => entry < sl)
  BY <1>1, <1>7, <1>11 DEF Up
<1> HIDE DEF side, tp1, tp2, t
<1>15. Ordered(s) /\ s.leg = leg
  BY <1>3, <1>4, <1>7, <1>11, <1>13, <1>14 DEF Ordered
<1>16. ASSUME NEW i \in leg.to + 1 .. Len(engineBars)
       PROVE  IF s.dir = "long" THEN engineBars[i].low > s.sl ELSE engineBars[i].high < s.sl
  <2>1. /\ side = "long" => engineBars[i].low > origin
        /\ side = "short" => engineBars[i].high < origin
    BY <1>16, LegIs DEF side, origin
  <2>2. i \in 1..Len(engineBars)
    BY DEF EngineTyped
  <2>3. engineBars[i] \in EngineBar
    BY <2>2, ElementOfSeq DEF EngineTyped
  <2>4. engineBars[i].low \in Int /\ engineBars[i].high \in Int
    BY <2>3 DEF EngineBar
  <2> QED
    BY <1>3, <1>4, <1>11, <2>1, <2>4
<1> QED
  BY <1>3, <1>15, <1>16

\* Engine 1: a plan and its benchmarks.
SidesKept(s, e) ==
    /\ Up(s.dir) * (s.entry - s.sl) > 0
    /\ Up(s.dir) * (s.tp1 - s.entry) > 0
    /\ Up(s.dir) * (s.tp2 - s.tp1) > 0
    /\ Apart(s.entry, s.sl) = Apart(e.entry, e.sl)
    /\ Apart(s.tp2, s.entry) = Apart(e.tp2, e.entry)

LEMMA OrderedSides ==
    ASSUME NEW s, Ordered(s)
    PROVE  SidesKept(s, s)
<1> DEFINE d == s.dir
           e == s.entry
           l == s.sl
           t == s.tp1
           u == s.tp2
<1>1. /\ d \in {"long", "short"} /\ e \in Int /\ l \in Int /\ t \in Int /\ u \in Int
      /\ d = "long"  => l < e /\ e < t /\ t < u
      /\ d = "short" => u < t /\ t < e /\ e < l
  BY DEF Ordered
<1> HIDE DEF d, e, l, t, u
<1>2. Up(d) * (e - l) > 0 /\ Up(d) * (t - e) > 0 /\ Up(d) * (u - t) > 0
  BY <1>1 DEF Up
<1> QED
  BY <1>2 DEF SidesKept, d, e, l, t, u

LEMMA BenchesAre ==
    ASSUME NEW k, NEW d, NEW e, NEW l, NEW t, NEW u, NEW g, NEW price,
           NEW s, s = [kind |-> k, dir |-> d, entry |-> e, sl |-> l, tp1 |-> t, tp2 |-> u, leg |-> g]
    PROVE  /\ Flipped(s) = [kind |-> "random", dir |-> Opposite(d), entry |-> e, sl |-> Mirror(e, l),
                            tp1 |-> Mirror(e, t), tp2 |-> Mirror(e, u), leg |-> g]
           /\ MarketBench(s, price) =
                 [kind |-> "market", dir |-> d, entry |-> price, sl |-> price - Up(d) * Apart(e, l),
                  tp1 |-> price + Up(d) * Apart(t, e), tp2 |-> price + Up(d) * Apart(u, e), leg |-> g]
<1>1. s.dir = d /\ s.entry = e /\ s.sl = l /\ s.tp1 = t /\ s.tp2 = u
  OBVIOUS
<1> DEFINE a == Mirror(e, l)
           b == Mirror(e, t)
           c == Mirror(e, u)
           o == Opposite(d)
           x == price - Up(d) * Apart(e, l)
           y == price + Up(d) * Apart(t, e)
           z == price + Up(d) * Apart(u, e)
<1>2. Flipped(s) = [s EXCEPT !.kind = "random", !.dir = o, !.sl = a, !.tp1 = b, !.tp2 = c]
  BY <1>1 DEF Flipped
<1>3. MarketBench(s, price) = [s EXCEPT !.kind = "market", !.entry = price, !.sl = x, !.tp1 = y, !.tp2 = z]
  BY <1>1 DEF MarketBench
<1> HIDE DEF a, b, c, o, x, y, z
<1>4. Flipped(s) = [kind |-> "random", dir |-> o, entry |-> e, sl |-> a, tp1 |-> b, tp2 |-> c, leg |-> g]
  BY <1>2
<1>5. MarketBench(s, price) =
          [kind |-> "market", dir |-> d, entry |-> price, sl |-> x, tp1 |-> y, tp2 |-> z, leg |-> g]
  BY <1>3
<1> QED
  BY <1>4, <1>5 DEF a, b, c, o, x, y, z

\* The mirror of an ordered setup, with its fields named.
LEMMA MirrorKeeps ==
    ASSUME NEW s, Ordered(s), Whole(s)
    PROVE  SidesKept(Flipped(s), s)
<1> DEFINE f == Flipped(s)
           d == s.dir
           e == s.entry
           l == s.sl
           t == s.tp1
           u == s.tp2
<1>1. /\ d \in {"long", "short"} /\ e \in Int /\ l \in Int /\ t \in Int /\ u \in Int
      /\ d = "long"  => l < e /\ e < t /\ t < u
      /\ d = "short" => u < t /\ t < e /\ e < l
  BY DEF Ordered
<1>2. f = [kind |-> "random", dir |-> Opposite(d), entry |-> e, sl |-> Mirror(e, l),
           tp1 |-> Mirror(e, t), tp2 |-> Mirror(e, u), leg |-> s.leg]
  BY BenchesAre DEF Whole
<1>3. f.dir = Opposite(d) /\ f.entry = e /\ f.sl = Mirror(e, l) /\ f.tp1 = Mirror(e, t) /\ f.tp2 = Mirror(e, u)
  BY <1>2
<1> HIDE DEF d, e, l, t, u, f
<1>4. /\ Up(Opposite(d)) * (e - Mirror(e, l)) > 0 /\ Up(Opposite(d)) * (Mirror(e, t) - e) > 0
      /\ Up(Opposite(d)) * (Mirror(e, u) - Mirror(e, t)) > 0
  <2>1. CASE d = "long"
    BY <1>1, <2>1 DEF Up, Opposite, Mirror
  <2>2. CASE d = "short"
    BY <1>1, <2>2 DEF Up, Opposite, Mirror
  <2> QED
    BY <1>1, <2>1, <2>2
<1>5. Apart(e, Mirror(e, l)) = Apart(e, l) /\ Apart(Mirror(e, u), e) = Apart(u, e)
  BY <1>1 DEF Mirror, Apart
<1> QED
  BY <1>3, <1>4, <1>5 DEF SidesKept, d, e, l, t, u, f

LEMMA RandomKeeps ==
    ASSUME NEW s, Ordered(s), Whole(s), NEW heads
    PROVE  SidesKept(RandomBench(s, heads), s)
<1> DEFINE g == [s EXCEPT !.kind = "random"]
<1>1. SidesKept(g, s)
  <2>1. SidesKept(s, s)
    BY OrderedSides
  <2>2. g.dir = s.dir /\ g.entry = s.entry /\ g.sl = s.sl /\ g.tp1 = s.tp1 /\ g.tp2 = s.tp2
    BY DEF Whole
  <2> HIDE DEF g
  <2> QED
    BY <2>1, <2>2 DEF SidesKept
<1> QED
  BY <1>1, MirrorKeeps DEF RandomBench

LEMMA MarketKeeps ==
    ASSUME NEW s, Ordered(s), Whole(s), NEW price \in Int
    PROVE  SidesKept(MarketBench(s, price), s)
<1> DEFINE f == MarketBench(s, price)
           d == s.dir
           e == s.entry
           l == s.sl
           t == s.tp1
           u == s.tp2
<1>1. /\ d \in {"long", "short"} /\ e \in Int /\ l \in Int /\ t \in Int /\ u \in Int
      /\ d = "long"  => l < e /\ e < t /\ t < u
      /\ d = "short" => u < t /\ t < e /\ e < l
  BY DEF Ordered
<1>2. f = [kind |-> "market", dir |-> d, entry |-> price, sl |-> price - Up(d) * Apart(e, l),
           tp1 |-> price + Up(d) * Apart(t, e), tp2 |-> price + Up(d) * Apart(u, e), leg |-> s.leg]
  BY BenchesAre DEF Whole
<1>3. /\ f.dir = d /\ f.entry = price /\ f.sl = price - Up(d) * Apart(e, l)
      /\ f.tp1 = price + Up(d) * Apart(t, e) /\ f.tp2 = price + Up(d) * Apart(u, e)
  BY <1>2
<1> HIDE DEF d, e, l, t, u, f
<1>4. /\ Up(d) * (price - (price - Up(d) * Apart(e, l))) > 0
      /\ Up(d) * ((price + Up(d) * Apart(t, e)) - price) > 0
      /\ Up(d) * ((price + Up(d) * Apart(u, e)) - (price + Up(d) * Apart(t, e))) > 0
  <2>1. CASE d = "long"
    BY <1>1, <2>1 DEF Up, Apart
  <2>2. CASE d = "short"
    BY <1>1, <2>2 DEF Up, Apart
  <2> QED
    BY <1>1, <2>1, <2>2
<1>5. /\ Apart(price, price - Up(d) * Apart(e, l)) = Apart(e, l)
      /\ Apart(price + Up(d) * Apart(u, e), price) = Apart(u, e)
  <2>1. CASE d = "long"
    BY <1>1, <2>1 DEF Up, Apart
  <2>2. CASE d = "short"
    BY <1>1, <2>2 DEF Up, Apart
  <2> QED
    BY <1>1, <2>1, <2>2
<1> QED
  BY <1>3, <1>4, <1>5 DEF SidesKept, d, e, l, t, u, f

EngineInv == EngineTyped /\ PullbackHolds /\ LevelsOrdered /\ BenchesComparable

LEMMA BarClosesKeeps ==
    ASSUME EngineInv, BarCloses
    PROVE  EngineInv'
<1>1. engineEmitted' = <<>> /\ bias' = bias
  BY DEF BarCloses
<1>2. ToSet(engineEmitted') = {}
  BY <1>1 DEF ToSet
<1>3. PullbackHolds' /\ LevelsOrdered' /\ BenchesComparable'
  BY <1>1, <1>2 DEF PullbackHolds, LevelsOrdered, BenchesComparable
<1>4. PICK mv \in Moves :
          LET open  == IF engineBars = <<>> THEN StartPrice ELSE Last(engineBars).close
              close == open + mv.body
              top   == IF mv.body > 0 THEN close ELSE open
              low   == IF mv.body > 0 THEN open ELSE close
          IN  engineBars' = Append(engineBars, [open |-> open, close |-> close,
                                    low |-> low - mv.lower, high |-> top + mv.upper])
  BY DEF BarCloses
<1> DEFINE open  == IF engineBars = <<>> THEN StartPrice ELSE Last(engineBars).close
           close == open + mv.body
           top   == IF mv.body > 0 THEN close ELSE open
           low   == IF mv.body > 0 THEN open ELSE close
           bar   == [open |-> open, close |-> close, low |-> low - mv.lower, high |-> top + mv.upper]
<1>5. mv.body \in Int /\ mv.lower \in Nat /\ mv.upper \in Nat
  BY MovesAssumption
<1>6. engineBars \in Seq(EngineBar)
  BY DEF EngineInv, EngineTyped
<1>7. open \in Int
  <2>1. CASE engineBars = <<>>
    BY <2>1, MovesAssumption
  <2>2. CASE engineBars # <<>>
    <3>1. Len(engineBars) \in 1..Len(engineBars)
      BY <1>6, <2>2
    <3>2. engineBars[Len(engineBars)] \in EngineBar
      BY <1>6, <3>1, ElementOfSeq
    <3>3. Last(engineBars).close \in Int
      BY <3>2 DEF Last, EngineBar
    <3> QED
      BY <2>2, <3>3
  <2> QED
    BY <2>1, <2>2
<1>8. engineBars' = Append(engineBars, bar)
  BY <1>4
<1> HIDE DEF open
<1>9. bar \in EngineBar
  BY <1>5, <1>7 DEF EngineBar
<1> HIDE DEF bar
<1>10. engineBars' \in Seq(EngineBar)
  BY <1>6, <1>8, <1>9
<1> QED
  BY <1>1, <1>3, <1>10 DEF EngineInv, EngineTyped

\* What an evaluation leaves behind.
LEMMA EmittedIs ==
    ASSUME EngineTyped', NEW s, Whole(s), Ordered(s), NEW heads, NEW price \in Int,
           engineEmitted' = <<s, RandomBench(s, heads), MarketBench(s, price)>>,
           \A i \in s.leg.to + 1 .. Len(engineBars') :
               IF s.dir = "long" THEN engineBars'[i].low > s.sl ELSE engineBars'[i].high < s.sl
    PROVE  EngineInv'
<1> DEFINE r == RandomBench(s, heads)
           m == MarketBench(s, price)
<1>1. SidesKept(s, s) /\ SidesKept(r, s) /\ SidesKept(m, s)
  BY OrderedSides, RandomKeeps, MarketKeeps
<1> HIDE DEF r, m
<1>2. engineEmitted' = <<s, r, m>>
  BY DEF r, m
<1>3. ToSet(engineEmitted') = {s, r, m} /\ Head(engineEmitted') = s
  BY <1>2 DEF ToSet
<1>4. LevelsOrdered'
  BY <1>1, <1>3 DEF LevelsOrdered, SidesKept
<1>5. BenchesComparable'
  BY <1>1, <1>3 DEF BenchesComparable, SidesKept
<1>6. PullbackHolds'
  BY <1>3 DEF PullbackHolds
<1> QED
  BY <1>4, <1>5, <1>6 DEF EngineInv

LEMMA EvaluateKeeps ==
    ASSUME EngineInv, EvaluatePullback
    PROVE  EngineInv'
<1>1. engineBars' = engineBars /\ bias' = bias /\ engineBars # <<>>
  BY DEF EvaluatePullback
<1>2. EngineTyped /\ EngineTyped'
  BY <1>1 DEF EngineInv, EngineTyped
<1>3. PICK step \in PriceSteps, heads \in BOOLEAN :
          \E atr \in {Atr} :
          \E leg \in ToSet(IF atr = 0 THEN <<>> ELSE Detected(atr)) :
          \E s \in ToSet(SetupOn(leg, Last(engineBars).close + step, atr)) :
              engineEmitted' = <<s, RandomBench(s, heads), MarketBench(s, Last(engineBars).close + step)>>
  BY DEF EvaluatePullback
<1> DEFINE price == Last(engineBars).close + step
<1>4. PICK leg \in ToSet(IF Atr = 0 THEN <<>> ELSE Detected(Atr)) :
          \E s \in ToSet(SetupOn(leg, price, Atr)) :
              engineEmitted' = <<s, RandomBench(s, heads), MarketBench(s, price)>>
  BY <1>3
<1>5. PICK s \in ToSet(SetupOn(leg, price, Atr)) :
          engineEmitted' = <<s, RandomBench(s, heads), MarketBench(s, price)>>
  BY <1>4
<1>6. price \in Int
  <2>1. Len(engineBars) \in 1..Len(engineBars)
    BY <1>1, <1>2 DEF EngineTyped
  <2>2. engineBars[Len(engineBars)] \in EngineBar
    BY <1>2, <2>1, ElementOfSeq DEF EngineTyped
  <2>3. Last(engineBars).close \in Int
    BY <2>2 DEF Last, EngineBar
  <2>4. step \in Int
    BY MovesAssumption
  <2> QED
    BY <2>3, <2>4
<1>7. Atr \in Int
  BY <1>2, AtrIs
<1>8. leg \in ToSet(Detected(Atr))
  <2>1. ToSet(<<>>) = {}
    BY DEF ToSet
  <2> QED
    BY <1>4, <2>1
<1>9. Qualified(leg) /\ leg.from \in Nat /\ leg.to \in Nat
  BY <1>2, <1>7, <1>8, DetectedIs
<1> HIDE DEF price
<1>10. /\ Whole(s) /\ Ordered(s) /\ s.leg = leg
       /\ \A i \in leg.to + 1 .. Len(engineBars) :
             IF s.dir = "long" THEN engineBars[i].low > s.sl ELSE engineBars[i].high < s.sl
  BY <1>2, <1>5, <1>6, <1>7, <1>9, SetupOnIs
<1> QED
  BY <1>1, <1>2, <1>5, <1>6, <1>10, EmittedIs

LEMMA EngineStep ==
    ASSUME EngineInv, EngineNext
    PROVE  EngineInv'
BY BarClosesKeeps, EvaluateKeeps DEF EngineNext

LEMMA EngineStarts ==
    ASSUME EngineInit
    PROVE  EngineInv
<1>1. engineEmitted = <<>> /\ engineBars = <<>> /\ bias \in {"long", "short"}
  BY DEF EngineInit
<1>2. ToSet(engineEmitted) = {} /\ engineBars \in Seq(EngineBar)
  BY <1>1 DEF ToSet
<1> QED
  BY <1>1, <1>2 DEF EngineInv, EngineTyped, PullbackHolds, LevelsOrdered, BenchesComparable

-----------------------------------------------------------------------------
\* The top-down edge.

TdPlay == [dir : {"long", "short"}, entry : Int, sl : Int, tp : Int, firsts : SUBSET Int]

\* A play in order at a price.
InOrder(e, p) ==
    /\ \/ e.dir = "long"  /\ e.sl < e.entry /\ e.entry < p /\ p < e.tp
       \/ e.dir = "short" /\ e.tp < p /\ p < e.entry /\ e.entry < e.sl
    /\ \A f \in e.firsts : Away(f, e.entry) * 2 < 3 * Away(e.entry, e.sl)
                           /\ Away(f, e.tp) < Away(p, e.tp)

LEMMA AwayIs ==
    ASSUME NEW a \in Int, NEW b \in Int
    PROVE  Away(a, b) \in Nat /\ (a <= b => Away(a, b) = b - a) /\ (b <= a => Away(a, b) = a - b)
BY DEF Away

\* The levels of a side.
LEMMA OpenIs ==
    ASSUME NEW v \in TdViews, NEW price \in Int
    PROVE  /\ IsFiniteSet(OpenAbove(v, price)) /\ OpenAbove(v, price) \in SUBSET Int
           /\ \A p \in OpenAbove(v, price) : p > price
           /\ IsFiniteSet(OpenBelow(v, price)) /\ OpenBelow(v, price) \in SUBSET Int
           /\ \A p \in OpenBelow(v, price) : p < price
<1>1. /\ v.levels \in SUBSET [frame : Frames, type : {"bsl", "ssl"}, price : Int, swept : BOOLEAN,
                              touches : Int, last : Int]
      /\ IsFiniteSet(v.levels)
  BY ReadingAssumption
<1>2. \A l \in v.levels : l.price \in Int
  BY <1>1
<1> DEFINE priced == [l \in v.levels |-> l.price]
           A == {x \in v.levels : ~x.swept /\ x.price > price}
           B == {x \in v.levels : ~x.swept /\ x.price < price}
<1>3. IsFiniteSet(A) /\ IsFiniteSet(B)
  BY <1>1, FS_Subset
<1> DEFINE a == {priced[l] : l \in A}
           b == {priced[l] : l \in B}
<1>4. a = OpenAbove(v, price) /\ b = OpenBelow(v, price)
  BY DEF OpenAbove, OpenBelow
<1>5. \A l \in v.levels : priced[l] = l.price
  OBVIOUS
<1>6. A \subseteq v.levels /\ (\A l \in A : l.price > price) /\ B \subseteq v.levels /\ (\A l \in B : l.price < price)
  OBVIOUS
<1> HIDE DEF priced, A, B
<1>7. IsFiniteSet(a) /\ IsFiniteSet(b)
  BY <1>3, ImageIsFinite
<1>8. a \in SUBSET Int /\ (\A p \in a : p > price)
  BY <1>2, <1>5, <1>6
<1>9. b \in SUBSET Int /\ (\A p \in b : p < price)
  BY <1>2, <1>5, <1>6
<1> QED
  BY <1>4, <1>7, <1>8, <1>9

LEMMA InvalidationIs ==
    ASSUME NEW v \in TdViews, NEW price \in Int, NEW sl \in Invalidation(v, price)
    PROVE  sl \in Int
<1>1. v.lows \in SUBSET Int /\ v.highs \in SUBSET Int /\ IsFiniteSet(v.lows) /\ IsFiniteSet(v.highs)
  BY ReadingAssumption
<1> DEFINE lows  == {p \in v.lows : p < price}
           highs == {p \in v.highs : p > price}
<1>2. lows \in SUBSET Int /\ highs \in SUBSET Int /\ IsFiniteSet(lows) /\ IsFiniteSet(highs)
  BY <1>1, FS_Subset
<1>3. \/ lows # {} /\ sl = Max(lows)
      \/ highs # {} /\ sl = Min(highs)
  BY DEF Invalidation
<1> HIDE DEF lows, highs
<1>4. CASE lows # {} /\ sl = Max(lows)
  BY <1>2, <1>4, MaxIs
<1>5. CASE highs # {} /\ sl = Min(highs)
  BY <1>2, <1>5, MinIs
<1> QED
  BY <1>3, <1>4, <1>5

\* A first target is one of the levels between.
LEMMA FirstsAre ==
    ASSUME NEW entry \in Int, NEW target, NEW between \in SUBSET Int, IsFiniteSet(between), NEW atr,
           NEW f \in FirstTargets(entry, target, between, atr)
    PROVE  f \in between
<1> DEFINE near == {p \in between : Away(p, entry) <= atr}
           far  == [p \in near |-> Away(p, entry)]
           S    == {far[p] : p \in near}
<1>1. near # {} /\ f = CHOOSE p \in near : \A q \in near : Away(p, entry) >= Away(q, entry)
  BY DEF FirstTargets
<1>2. IsFiniteSet(near)
  BY FS_Subset
<1>3. IsFiniteSet(S)
  <2> HIDE DEF near, far
  <2> QED
    BY <1>2, ImageIsFinite
<1>4. S \in SUBSET Int /\ S # {}
  <2>1. \A p \in near : far[p] \in Int
    <3> SUFFICES ASSUME NEW p \in near PROVE Away(p, entry) \in Int
      OBVIOUS
    <3>1. p \in Int
      OBVIOUS
    <3> QED
      BY <3>1, AwayIs
  <2> HIDE DEF near, far
  <2> QED
    BY <1>1, <2>1
<1> HIDE DEF S
<1>5. PICK m \in S : \A n \in S : n <= m
  BY <1>3, <1>4, HighestExists
<1>6. PICK p \in near : m = far[p]
  BY <1>5 DEF S
<1>7. \A q \in near : Away(p, entry) >= Away(q, entry)
  <2> SUFFICES ASSUME NEW q \in near PROVE Away(p, entry) >= Away(q, entry)
    OBVIOUS
  <2>1. far[q] \in S /\ m \in Int /\ far[q] \in Int
    BY <1>4, <1>5 DEF S
  <2>2. far[q] <= m
    BY <1>5, <2>1
  <2> QED
    BY <1>6, <2>1, <2>2
<1>8. f \in near
  BY <1>1, <1>7
<1> QED
  BY <1>8

\* The plays of a snapshot are in order.
LEMMA TripletIs ==
    ASSUME NEW v \in TdViews, NEW price \in Int, NEW p \in Triplet(v, price)
    PROVE  p \in TdPlay /\ InOrder(p, price)
<1> DEFINE above == OpenAbove(v, price)
           below == OpenBelow(v, price)
<1>1. PICK sl \in Invalidation(v, price) :
         \/ /\ SideOf(v) = "short" /\ above # {} /\ sl > Min(above)
            /\ LET targets == {x \in below : FarEnough(x, Min(above), sl)}
                   between == {x \in below : Max(targets) < x /\ x < Min(above)}
               IN  /\ targets # {}
                   /\ p = [dir |-> "short", entry |-> Min(above), sl |-> sl, tp |-> Max(targets),
                           firsts |-> FirstTargets(Min(above), Max(targets), between, v.atr)]
         \/ /\ SideOf(v) = "long" /\ below # {} /\ sl < Max(below)
            /\ LET targets == {x \in above : FarEnough(x, Max(below), sl)}
                   between == {x \in above : Max(below) < x /\ x < Min(targets)}
               IN  /\ targets # {}
                   /\ p = [dir |-> "long", entry |-> Max(below), sl |-> sl, tp |-> Min(targets),
                           firsts |-> FirstTargets(Max(below), Min(targets), between, v.atr)]
  <2>1. PICK sl \in Invalidation(v, price) :
           \/ /\ SideOf(v) = "short" /\ above # {} /\ ~(sl <= Min(above))
              /\ LET targets == {x \in below : FarEnough(x, Min(above), sl)}
                     between == {x \in below : Max(targets) < x /\ x < Min(above)}
                 IN  /\ targets # {}
                     /\ p = [dir |-> "short", entry |-> Min(above), sl |-> sl, tp |-> Max(targets),
                             firsts |-> FirstTargets(Min(above), Max(targets), between, v.atr)]
           \/ /\ SideOf(v) = "long" /\ below # {} /\ ~(sl >= Max(below))
              /\ LET targets == {x \in above : FarEnough(x, Max(below), sl)}
                     between == {x \in above : Max(below) < x /\ x < Min(targets)}
                 IN  /\ targets # {}
                     /\ p = [dir |-> "long", entry |-> Max(below), sl |-> sl, tp |-> Min(targets),
                             firsts |-> FirstTargets(Max(below), Min(targets), between, v.atr)]
    BY Zenon DEF Triplet, Play
  <2>2. sl \in Int
    BY InvalidationIs
  <2>3. above # {} => Min(above) \in Int
    BY OpenIs, MinIs
  <2>4. below # {} => Max(below) \in Int
    BY OpenIs, MaxIs
  <2> HIDE DEF above, below
  <2>5. above # {} /\ ~(sl <= Min(above)) => sl > Min(above)
    BY <2>2, <2>3
  <2>6. below # {} /\ ~(sl >= Max(below)) => sl < Max(below)
    BY <2>2, <2>4
  <2> QED
    BY <2>1, <2>5, <2>6
<1>2. sl \in Int
  BY InvalidationIs
<1>3. /\ IsFiniteSet(above) /\ above \in SUBSET Int /\ (\A x \in above : x > price)
      /\ IsFiniteSet(below) /\ below \in SUBSET Int /\ (\A x \in below : x < price)
  BY OpenIs
<1> HIDE DEF above, below
<1>4. CASE SideOf(v) = "short" /\ above # {} /\ sl > Min(above)
           /\ LET targets == {x \in below : FarEnough(x, Min(above), sl)}
                  between == {x \in below : Max(targets) < x /\ x < Min(above)}
              IN  /\ targets # {}
                  /\ p = [dir |-> "short", entry |-> Min(above), sl |-> sl, tp |-> Max(targets),
                          firsts |-> FirstTargets(Min(above), Max(targets), between, v.atr)]
  <2> DEFINE entry == Min(above)
             targets == {x \in below : FarEnough(x, entry, sl)}
             tp == Max(targets)
             between == {x \in below : tp < x /\ x < entry}
             firsts == FirstTargets(entry, tp, between, v.atr)
  <2>1. entry \in Int /\ entry > price /\ sl > entry
    BY <1>3, <1>4, MinIs
  <2>2. IsFiniteSet(targets) /\ targets \in SUBSET Int /\ targets # {}
    BY <1>3, <1>4, FS_Subset
  <2>3. targets \subseteq below /\ \A x \in below : FarEnough(x, entry, sl) => x \in targets
    OBVIOUS
  <2>4. p = [dir |-> "short", entry |-> entry, sl |-> sl, tp |-> tp, firsts |-> firsts]
    BY <1>4
  <2> HIDE DEF targets, entry
  <2>5. tp \in targets /\ \A x \in targets : x <= tp
    BY <2>2, MaxIs
  <2>6. tp \in Int /\ tp < price
    BY <1>3, <2>2, <2>3, <2>5
  <2>7. between \in SUBSET Int /\ IsFiniteSet(between)
    BY <1>3, FS_Subset
  <2>8. \A f \in firsts : f \in between
    BY <2>1, <2>7, FirstsAre
  <2> HIDE DEF firsts, tp
  <2>9. ASSUME NEW f \in firsts
        PROVE  Away(f, entry) * 2 < 3 * Away(entry, sl) /\ Away(f, tp) < Away(price, tp)
    <3>1. f \in below /\ f \in Int /\ tp < f /\ f < entry /\ f < price
      BY <1>3, <2>8, <2>9
    <3>2. f \notin targets
      BY <2>2, <2>5, <2>6, <3>1
    <3>3. ~(Away(f, entry) * 2 >= 3 * Away(entry, sl))
      BY <2>3, <3>1, <3>2 DEF FarEnough
    <3>4. Away(f, entry) \in Nat /\ Away(entry, sl) \in Nat
      BY <2>1, <1>2, <3>1, AwayIs
    <3>5. Away(f, tp) = f - tp /\ Away(price, tp) = price - tp
      BY <2>6, <3>1 DEF Away
    <3> QED
      BY <2>6, <3>1, <3>3, <3>4, <3>5
  <2> HIDE DEF between
  <2>10. firsts \in SUBSET Int
    BY <2>7, <2>8
  <2>11. p \in TdPlay
    BY <1>2, <2>1, <2>4, <2>6, <2>10 DEF TdPlay
  <2>12. p.dir = "short" /\ p.entry = entry /\ p.sl = sl /\ p.tp = tp /\ p.firsts = firsts
    BY <2>4
  <2> QED
    BY <2>1, <2>6, <2>9, <2>11, <2>12 DEF InOrder
<1>5. CASE SideOf(v) = "long" /\ below # {} /\ sl < Max(below)
           /\ LET targets == {x \in above : FarEnough(x, Max(below), sl)}
                  between == {x \in above : Max(below) < x /\ x < Min(targets)}
              IN  /\ targets # {}
                  /\ p = [dir |-> "long", entry |-> Max(below), sl |-> sl, tp |-> Min(targets),
                          firsts |-> FirstTargets(Max(below), Min(targets), between, v.atr)]
  <2> DEFINE entry == Max(below)
             targets == {x \in above : FarEnough(x, entry, sl)}
             tp == Min(targets)
             between == {x \in above : entry < x /\ x < tp}
             firsts == FirstTargets(entry, tp, between, v.atr)
  <2>1. entry \in Int /\ entry < price /\ sl < entry
    BY <1>3, <1>5, MaxIs
  <2>2. IsFiniteSet(targets) /\ targets \in SUBSET Int /\ targets # {}
    BY <1>3, <1>5, FS_Subset
  <2>3. targets \subseteq above /\ \A x \in above : FarEnough(x, entry, sl) => x \in targets
    OBVIOUS
  <2>4. p = [dir |-> "long", entry |-> entry, sl |-> sl, tp |-> tp, firsts |-> firsts]
    BY <1>5
  <2> HIDE DEF targets, entry
  <2>5. tp \in targets /\ \A x \in targets : tp <= x
    BY <2>2, MinIs
  <2>6. tp \in Int /\ tp > price
    BY <1>3, <2>2, <2>3, <2>5
  <2>7. between \in SUBSET Int /\ IsFiniteSet(between)
    BY <1>3, FS_Subset
  <2>8. \A f \in firsts : f \in between
    BY <2>1, <2>7, FirstsAre
  <2> HIDE DEF firsts, tp
  <2>9. ASSUME NEW f \in firsts
        PROVE  Away(f, entry) * 2 < 3 * Away(entry, sl) /\ Away(f, tp) < Away(price, tp)
    <3>1. f \in above /\ f \in Int /\ f < tp /\ entry < f /\ price < f
      BY <1>3, <2>8, <2>9
    <3>2. f \notin targets
      BY <2>2, <2>5, <2>6, <3>1
    <3>3. ~(Away(f, entry) * 2 >= 3 * Away(entry, sl))
      BY <2>3, <3>1, <3>2 DEF FarEnough
    <3>4. Away(f, entry) \in Nat /\ Away(entry, sl) \in Nat
      BY <2>1, <1>2, <3>1, AwayIs
    <3>5. Away(f, tp) = tp - f /\ Away(price, tp) = tp - price
      BY <2>6, <3>1 DEF Away
    <3> QED
      BY <2>6, <3>1, <3>3, <3>4, <3>5
  <2> HIDE DEF between
  <2>10. firsts \in SUBSET Int
    BY <2>7, <2>8
  <2>11. p \in TdPlay
    BY <1>2, <2>1, <2>4, <2>6, <2>10 DEF TdPlay
  <2>12. p.dir = "long" /\ p.entry = entry /\ p.sl = sl /\ p.tp = tp /\ p.firsts = firsts
    BY <2>4
  <2> QED
    BY <2>1, <2>6, <2>9, <2>11, <2>12 DEF InOrder
<1> QED
  BY <1>1, <1>4, <1>5

TdTick == [low : Int, high : Int, close : Int]
TdEmission == [at : Nat, dir : {"long", "short"}, entry : Int, sl : Int, tp : Int, firsts : SUBSET Int]

TdInv ==
    /\ tape \in Seq(TdTick) /\ emissions \in Seq(TdEmission)
    /\ \A i \in 1..Len(emissions) : /\ emissions[i].at \in 1..Len(tape)
                                    /\ InOrder(emissions[i], tape[emissions[i].at].close)
    /\ EmissionsApart

LEMMA TdOrdered ==
    ASSUME TdInv
    PROVE  EmissionsOrdered
BY DEF TdInv, EmissionsOrdered, InOrder

LEMMA TdStarts ==
    ASSUME TdInit
    PROVE  TdInv
BY DEF TdInit, TdInv, EmissionsApart

\* The tape grows.
LEMMA TapeGrows ==
    ASSUME TdInv, NEW c \in TdTick, tape' = Append(tape, c), UNCHANGED emissions
    PROVE  TdInv'
<1>1. tape' \in Seq(TdTick) /\ Len(tape') = Len(tape) + 1 /\ \A i \in 1..Len(tape) : tape'[i] = tape[i]
  BY DEF TdInv
<1>2. EmissionsApart'
  BY DEF TdInv, EmissionsApart
<1>3. ASSUME NEW i \in 1..Len(emissions)
      PROVE  emissions[i].at \in 1..Len(tape') /\ InOrder(emissions[i], tape'[emissions[i].at].close)
  BY <1>1 DEF TdInv
<1> QED
  BY <1>1, <1>2, <1>3 DEF TdInv

\* A play is told.
LEMMA PlayTold ==
    ASSUME TdInv, NEW c \in TdTick, tape' = Append(tape, c),
           NEW p \in TdPlay, InOrder(p, c.close), ~Same(p, Len(tape')),
           emissions' = Append(emissions, Emission(p, Len(tape')))
    PROVE  TdInv'
<1> DEFINE n == Len(tape')
           e == Emission(p, n)
           m == Len(emissions)
<1>1. /\ tape' \in Seq(TdTick) /\ n = Len(tape) + 1 /\ Len(tape) \in Nat /\ tape'[n] = c
      /\ \A i \in 1..Len(tape) : tape'[i] = tape[i]
  BY DEF TdInv
<1> HIDE DEF n
<1>2. e \in TdEmission /\ e.at = n /\ e.dir = p.dir /\ e.entry = p.entry /\ e.sl = p.sl /\ e.tp = p.tp
      /\ e.firsts = p.firsts
  BY <1>1 DEF Emission, TdEmission, TdPlay
<1>3. InOrder(e, c.close)
  BY <1>2 DEF InOrder
<1>4. emissions' = Append(emissions, e)
  BY DEF n
<1> HIDE DEF e
<1>5. /\ emissions' \in Seq(TdEmission) /\ m \in Nat /\ Len(emissions') = m + 1 /\ emissions'[m + 1] = e
      /\ \A i \in 1..m : emissions'[i] = emissions[i]
  BY <1>2, <1>4 DEF TdInv
<1>6. ASSUME NEW i \in 1..Len(emissions')
      PROVE  emissions'[i].at \in 1..Len(tape') /\ InOrder(emissions'[i], tape'[emissions'[i].at].close)
  <2>1. CASE i = m + 1
    BY <1>1, <1>2, <1>3, <1>5, <2>1 DEF n
  <2>2. CASE i # m + 1
    <3>1. i \in 1..m
      BY <1>5, <2>2
    <3>2. emissions[i].at \in 1..Len(tape) /\ InOrder(emissions[i], tape[emissions[i].at].close)
      BY <3>1 DEF TdInv
    <3> QED
      BY <1>1, <1>5, <3>1, <3>2 DEF n
  <2> QED
    BY <2>1, <2>2
<1>7. ASSUME NEW i \in 2..Len(emissions'),
             emissions'[i - 1].dir = emissions'[i].dir, emissions'[i].at - emissions'[i - 1].at <= DedupBars
      PROVE  Away(emissions'[i - 1].entry, emissions'[i].entry) * 1000 > 5 * emissions'[i - 1].entry
  <2>1. CASE i = m + 1
    <3>1. m \in 1..m /\ emissions'[i - 1] = emissions[m] /\ emissions'[i] = e /\ emissions # <<>>
      BY <1>5, <1>7, <2>1
    <3>2. ~(Away(p.entry, emissions[m].entry) * 1000 <= 5 * emissions[m].entry)
      BY <1>2, <1>7, <3>1 DEF Same, n
    <3>3. emissions[m] \in TdEmission
      BY <3>1, ElementOfSeq DEF TdInv
    <3>4. emissions[m].entry \in Int /\ p.entry \in Int
      BY <3>3 DEF TdEmission, TdPlay
    <3> DEFINE a == emissions[m].entry
               b == p.entry
    <3>5. a \in Int /\ b \in Int /\ ~(Away(b, a) * 1000 <= 5 * a)
      BY <3>2, <3>4
    <3> HIDE DEF a, b
    <3>6. Away(a, b) * 1000 > 5 * a
      BY <3>5 DEF Away
    <3> QED
      BY <1>2, <3>1, <3>6 DEF a, b
  <2>2. CASE i # m + 1
    <3>1. i \in 2..m /\ i \in 1..m /\ i - 1 \in 1..m
      BY <1>5, <1>7, <2>2
    <3> QED
      BY <1>5, <1>7, <3>1 DEF TdInv, EmissionsApart
  <2> QED
    BY <2>1, <2>2
<1> QED
  BY <1>1, <1>5, <1>6, <1>7 DEF TdInv, EmissionsApart

LEMMA TdStep ==
    ASSUME TdInv, TdNext
    PROVE  TdInv'
<1>0. TdCandles \subseteq TdTick
  BY ReadingAssumption DEF TdTick
<1>1. CASE TdCandle
  <2>1. PICK c \in TdCandles : tape' = Append(tape, c) /\ UNCHANGED emissions
    BY <1>1 DEF TdCandle
  <2> QED
    BY <1>0, <2>1, TapeGrows
<1>2. CASE TdBar
  <2>1. PICK c \in TdCandles :
          /\ tape' = Append(tape, c)
          /\ \/ view' = {} /\ UNCHANGED emissions
             \/ \E v \in TdViews :
                   LET plays == {p \in Triplet(v, CurrentPrice(Visible(tape', Len(tape')))) :
                                    ~Same(p, Len(tape'))}
                   IN  /\ view' = {v}
                       /\ \/ plays = {} /\ UNCHANGED emissions
                          \/ \E p \in plays : emissions' = Append(emissions, Emission(p, Len(tape')))
    BY <1>2 DEF TdBar
  <2>2. CASE UNCHANGED emissions
    BY <1>0, <2>1, <2>2, TapeGrows
  <2>3. ASSUME NEW v \in TdViews, NEW p \in Triplet(v, CurrentPrice(Visible(tape', Len(tape')))),
               ~Same(p, Len(tape')), emissions' = Append(emissions, Emission(p, Len(tape')))
        PROVE  TdInv'
    <3>1. c \in TdTick
      BY <1>0
    <3>2. tape' \in Seq(TdTick) /\ Len(tape') = Len(tape) + 1 /\ Len(tape) \in Nat
      BY <2>1, <3>1 DEF TdInv
    <3>3. tape'[Len(tape')] = c
      BY <2>1, <3>1 DEF TdInv
    <3>4. CurrentPrice(Visible(tape', Len(tape'))) = c.close
      BY <3>2, <3>3 DEF CurrentPrice, Visible
    <3>5. c.close \in Int
      BY <3>1 DEF TdTick
    <3>6. p \in TdPlay /\ InOrder(p, c.close)
      BY <2>3, <3>4, <3>5, TripletIs
    <3> QED
      BY <2>1, <2>3, <3>1, <3>6, PlayTold
  <2> QED
    BY <2>1, <2>2, <2>3
<1> QED
  BY <1>1, <1>2 DEF TdNext

\* A loop that stays within a set has a run.
Runs(f, base, st, n) == f[0] = base /\ \A i \in 1..n : f[i] = st[<<f[i - 1], i>>]

LEMMA LoopExists ==
    ASSUME NEW n \in Nat, NEW T, NEW base \in T, NEW st \in [T \X (1..n) -> T]
    PROVE  \E f \in [0..n -> T] : Runs(f, base, st, n)
<1> DEFINE H == {m \in 0..n : \E g \in [0..m -> T] : Runs(g, base, st, m)}
<1>1. 0 \in H
  <2> DEFINE g == [i \in 0..0 |-> base]
  <2>1. g \in [0..0 -> T] /\ Runs(g, base, st, 0)
    BY DEF Runs
  <2> HIDE DEF g
  <2> QED
    BY <2>1
<1>2. ASSUME NEW k \in 1..n, k - 1 \in H PROVE k \in H
  <2>1. PICK h \in [0..(k - 1) -> T] : Runs(h, base, st, k - 1)
    BY <1>2
  <2> DEFINE t == st[<<h[k - 1], k>>]
             g == [i \in 0..k |-> IF i < k THEN h[i] ELSE t]
  <2>2. t \in T
    BY <2>1
  <2> HIDE DEF t
  <2>3. g \in [0..k -> T]
    BY <2>1, <2>2
  <2>4. g[0] = base
    BY <2>1 DEF Runs
  <2>5. ASSUME NEW i \in 1..k PROVE g[i] = st[<<g[i - 1], i>>]
    <3>1. CASE i < k
      <4>1. g[i] = h[i] /\ g[i - 1] = h[i - 1] /\ i \in 1..(k - 1)
        BY <3>1
      <4> HIDE DEF g
      <4> QED
        BY <2>1, <4>1 DEF Runs
    <3>2. CASE ~(i < k)
      <4>1. i = k /\ g[i] = t /\ g[i - 1] = h[k - 1]
        BY <3>2
      <4> HIDE DEF g
      <4> QED
        BY <4>1 DEF t
    <3> QED
      BY <3>1, <3>2
  <2> HIDE DEF g
  <2> QED
    BY <2>3, <2>4, <2>5 DEF Runs
<1> HIDE DEF H
<1>3. 0..n \subseteq H
  BY <1>1, <1>2, LoopInduction
<1> QED
  BY <1>3 DEF H

-----------------------------------------------------------------------------
\* The setups' geometry.

\* Those of a sequence.
LEMMA AmongIs ==
    ASSUME NEW T, NEW q \in Seq(T), NEW ok
    PROVE  Among(q, ok) \in Seq(T)
<1> DEFINE n == Len(q)
           S == Seq(T)
           st == [x \in S \X (1..n) |-> IF q[x[2]] \in ok THEN Append(x[1], q[x[2]]) ELSE x[1]]
           Looped(f) == [i \in 0..n |-> IF i = 0 THEN <<>>
                                        ELSE IF q[i] \in ok THEN Append(f[i - 1], q[i]) ELSE f[i - 1]]
<1>1. n \in Nat
  OBVIOUS
<1>2. st \in [S \X (1..n) -> S]
  <2> SUFFICES ASSUME NEW x \in S \X (1..n)
               PROVE  (IF q[x[2]] \in ok THEN Append(x[1], q[x[2]]) ELSE x[1]) \in S
    OBVIOUS
  <2>1. x[1] \in S /\ x[2] \in 1..n
    OBVIOUS
  <2>2. q[x[2]] \in T
    BY <2>1, ElementOfSeq
  <2> QED
    BY <2>1, <2>2
<1>3. <<>> \in S
  OBVIOUS
<1>4. \A y \in S, i \in 1..n : st[<<y, i>>] = IF q[i] \in ok THEN Append(y, q[i]) ELSE y
  OBVIOUS
<1> HIDE DEF st
<1>5. PICK g \in [0..n -> S] : Runs(g, <<>>, st, n)
  BY <1>1, <1>2, <1>3, LoopExists
<1>6. g = Looped(g)
  <2>1. g = [i \in 0..n |-> g[i]]
    BY <1>5
  <2>2. ASSUME NEW i \in 0..n
        PROVE  g[i] = IF i = 0 THEN <<>> ELSE IF q[i] \in ok THEN Append(g[i - 1], q[i]) ELSE g[i - 1]
    <3>1. CASE i = 0
      BY <1>5, <3>1 DEF Runs
    <3>2. CASE i # 0
      <4>1. i \in 1..n /\ i - 1 \in 0..n
        BY <3>2
      <4>2. g[i - 1] \in S /\ g[i] = st[<<g[i - 1], i>>]
        BY <1>5, <4>1 DEF Runs
      <4> QED
        BY <1>4, <3>2, <4>1, <4>2
    <3> QED
      BY <3>1, <3>2
  <2> QED
    BY <2>1, <2>2
<1>7. \E f : f = Looped(f)
  <2> HIDE DEF Looped
  <2> QED
    BY <1>6
<1> DEFINE r == CHOOSE f : f = Looped(f)
<1>8. r = Looped(r)
  <2> HIDE DEF Looped
  <2> QED
    BY <1>7
<1>9. Among(q, ok) = r[n]
  BY DEF Among
<1> HIDE DEF r
<1> DEFINE H == {i \in 0..n : r[i] \in S}
<1>10. \A i \in 0..n : r[i] = IF i = 0 THEN <<>> ELSE IF q[i] \in ok THEN Append(r[i - 1], q[i]) ELSE r[i - 1]
  BY <1>8
<1> HIDE DEF Looped
<1>11. 0 \in H
  <2>1. 0 \in 0..n
    BY <1>1
  <2>2. r[0] = <<>>
    BY <1>10, <2>1
  <2> QED
    BY <1>3, <2>1, <2>2
<1>12. ASSUME NEW k \in 1..n, k - 1 \in H PROVE k \in H
  <2>1. q[k] \in T /\ r[k - 1] \in S /\ k \in 0..n
    BY <1>12, ElementOfSeq
  <2>2. r[k] = IF q[k] \in ok THEN Append(r[k - 1], q[k]) ELSE r[k - 1]
    BY <1>10, <2>1
  <2>3. r[k] \in S
    BY <2>1, <2>2
  <2> QED
    BY <2>1, <2>3
<1> HIDE DEF H
<1>13. 0..n \subseteq H
  BY <1>1, <1>11, <1>12, LoopInduction
<1> QED
  BY <1>1, <1>9, <1>13 DEF H

\* A fraction of a distance is at most the distance.
LEMMA FractionIs ==
    ASSUME NEW d \in Nat, NEW D \in Nat \ {0}, NEW k \in 0..D
    PROVE  (d * k) \div D \in 0..d
<1> DEFINE x == d * k
           q == x \div D
<1>1. x \in Nat /\ x <= d * D
  BY Z3
<1> HIDE DEF x
<1>2. q \in Nat /\ q * D <= x
  BY <1>1, Z3
<1> HIDE DEF q
<1>3. ASSUME q > d PROVE FALSE
  <2>1. q >= d + 1 /\ d + 1 \in Nat
    BY <1>2, <1>3
  <2>2. q * D >= (d + 1) * D
    BY <1>2, <2>1, Z3
  <2>3. (d + 1) * D = d * D + D
    BY Z3
  <2> DEFINE y == d * D
             z == q * D
  <2>4. y \in Int /\ z \in Int /\ D > 0 /\ x \in Nat /\ z <= x /\ x <= y /\ z >= y + D
    BY <1>1, <1>2, <2>2, <2>3
  <2> HIDE DEF y, z
  <2> QED
    BY <2>4
<1>4. q <= d
  BY <1>2, <1>3
<1> QED
  BY <1>2, <1>4 DEF q, x

LEMMA IntoIs ==
    ASSUME NEW low \in Int, NEW high \in Int, low <= high, NEW side, NEW depth \in 0..DepthScale
    PROVE  Into(low, high, side, depth) \in low..high
<1> DEFINE x == ((high - low) * depth) \div DepthScale
<1>1. DepthScale \in Nat \ {0}
  BY ScaleAssumption
<1>2. high - low \in Nat
  OBVIOUS
<1>3. x \in 0..(high - low)
  BY <1>1, <1>2, FractionIs
<1>4. Into(low, high, side, depth) = IF side = "bullish" THEN low + x ELSE high - x
  BY DEF Into
<1> HIDE DEF x
<1> QED
  BY <1>3, <1>4

LEMMA DistIs ==
    ASSUME NEW a \in Int, NEW b \in Int
    PROVE  Dist(a, b) \in Nat
BY DEF Dist

\* A stop tried for an entry: at the wick or at the floor.
Structural(entry, sl, ob, side, floor) ==
    \/ sl = entry - Side(side) * Dist(entry, Wick(ob, side))
    \/ sl = entry - Side(side) * floor

LEMMA StopsAre ==
    ASSUME NEW entry \in Int, NEW ob \in Blocks, NEW side, NEW floor \in Nat
    PROVE  \E n \in Nat : /\ DOMAIN Stops(entry, ob, side, floor) = 1..n
                          /\ \A j \in 1..n : /\ Stops(entry, ob, side, floor)[j] \in Int
                                             /\ Structural(entry, Stops(entry, ob, side, floor)[j], ob, side, floor)
<1> DEFINE wick == Dist(entry, Wick(ob, side))
           a == entry - Side(side) * Wider(wick, floor)
           b == entry - Side(side) * Tighter(wick, floor)
           S == Stops(entry, ob, side, floor)
<1>1. Wick(ob, side) \in Int
  BY DEF Wick, Blocks
<1>2. wick \in Nat
  BY <1>1, DistIs
<1>3. S = <<a>> \o (IF floor > 0 /\ ~PctAtMost(Wider(wick, floor), entry, MaxSlPct) THEN <<b>> ELSE <<>>)
  BY DEF Stops
<1>4. Structural(entry, a, ob, side, floor) /\ Structural(entry, b, ob, side, floor)
  BY DEF Structural, Wider, Tighter
<1>5. a \in Int /\ b \in Int
  BY <1>2 DEF Side, Wider, Tighter
<1> HIDE DEF a, b, wick
<1>6. S = <<a>> \/ S = <<a, b>>
  <2>1. <<a>> \o <<>> = <<a>> /\ <<a>> \o <<b>> = <<a, b>>
    <3>1. \A x : <<x>> \in Seq({x})
      OBVIOUS
    <3>2. <<a>> \o <<>> = <<a>>
      BY <3>1, ConcatEmptySeq
    <3>3. <<a>> \o <<b>> = <<a, b>>
      <4> DEFINE U == {a, b}
                 both == <<a>> \o <<b>>
      <4>1. <<a>> \in Seq(U) /\ <<b>> \in Seq(U) /\ <<a, b>> \in Seq(U)
        OBVIOUS
      <4>2. both \in Seq(U) /\ Len(both) = 2 /\ \A i \in 1..2 : both[i] = <<a, b>>[i]
        BY <4>1
      <4> HIDE DEF both
      <4>3. both = <<a, b>>
        BY <4>1, <4>2, SeqEqual
      <4> QED
        BY <4>3 DEF both
    <3> QED
      BY <3>2, <3>3
  <2> QED
    BY <1>3, <2>1
<1> HIDE DEF S
<1>7. CASE S = <<a>>
  <2>1. DOMAIN S = 1..1 /\ \A j \in 1..1 : S[j] = a
    BY <1>7
  <2> QED
    BY <1>4, <1>5, <2>1 DEF S
<1>8. CASE S = <<a, b>>
  <2>1. DOMAIN S = 1..2 /\ \A j \in 1..2 : S[j] = a \/ S[j] = b
    BY <1>8
  <2> QED
    BY <1>4, <1>5, <2>1 DEF S
<1> QED
  BY <1>6, <1>7, <1>8

\* What the loop tries.
Tries(ob, side, low, high, floor) ==
    {c \in [entry : Int, sl : Int, rank : Int] :
        c.entry \in low..high /\ Structural(c.entry, c.sl, ob, side, floor)}

LEMMA TriedIs ==
    ASSUME NEW type \in SwingTypes, NEW ob \in Blocks, NEW side, NEW low \in Int, NEW high \in Int,
           low <= high, NEW floor \in Nat, NEW i \in 1..Len(Depths(type))
    PROVE  TriedAt(type, ob, side, low, high, floor, i) \in Seq(Tries(ob, side, low, high, floor))
<1> DEFINE entry == Into(low, high, side, Depths(type)[i])
           stops == Stops(entry, ob, side, floor)
           T == Tries(ob, side, low, high, floor)
<1>1. Depths(type)[i] \in 0..DepthScale
  <2>1. Depths(type) \in Seq(0..DepthScale)
    BY EntriesAssumption
  <2> QED
    BY <2>1, ElementOfSeq
<1>2. entry \in low..high
  BY <1>1, IntoIs
<1>3. entry \in Int
  BY <1>2
<1>4. i \in Int
  OBVIOUS
<1>5. TriedAt(type, ob, side, low, high, floor, i) =
         IF entry <= 0 THEN <<>>
         ELSE [j \in DOMAIN stops |-> [entry |-> entry, sl |-> stops[j], rank |-> i - 1]]
  BY DEF TriedAt
<1> HIDE DEF entry
<1>6. PICK n \in Nat : /\ DOMAIN stops = 1..n
                       /\ \A j \in 1..n : stops[j] \in Int /\ Structural(entry, stops[j], ob, side, floor)
  BY <1>3, StopsAre
<1> HIDE DEF stops
<1>7. \A j \in 1..n : [entry |-> entry, sl |-> stops[j], rank |-> i - 1] \in T
  BY <1>2, <1>3, <1>4, <1>6 DEF Tries
<1> HIDE DEF T
<1>8. [j \in 1..n |-> [entry |-> entry, sl |-> stops[j], rank |-> i - 1]] \in Seq(T)
  BY <1>7
<1>9. <<>> \in Seq(T)
  OBVIOUS
<1> QED
  BY <1>5, <1>6, <1>8, <1>9 DEF T

LEMMA CombinationsAre ==
    ASSUME NEW type \in SwingTypes, NEW ob \in Blocks, NEW side, NEW low \in Int, NEW high \in Int,
           low <= high, NEW floor \in Nat
    PROVE  Combinations(type, ob, side, low, high, floor) \in Seq(Tries(ob, side, low, high, floor))
<1> DEFINE n == Len(Depths(type))
           S == Seq(Tries(ob, side, low, high, floor))
           P(i) == TriedAt(type, ob, side, low, high, floor, i)
           st == [x \in S \X (1..n) |-> x[1] \o P(x[2])]
           Looped(f) == [i \in 0..n |-> IF i = 0 THEN <<>> ELSE f[i - 1] \o P(i)]
<1>1. n \in Nat
  BY EntriesAssumption
<1>2. \A i \in 1..n : P(i) \in S
  BY TriedIs
<1>3. <<>> \in S /\ \A x, y \in S : x \o y \in S
  BY ConcatProperties
<1>4. Combinations(type, ob, side, low, high, floor) = (CHOOSE f : f = Looped(f))[n]
  BY DEF Combinations
<1> HIDE DEF S, P
<1>5. st \in [S \X (1..n) -> S]
  BY <1>2, <1>3
<1>6. \A y \in S, i \in 1..n : st[<<y, i>>] = y \o P(i)
  OBVIOUS
<1> HIDE DEF st
<1>7. PICK g \in [0..n -> S] : Runs(g, <<>>, st, n)
  BY <1>1, <1>3, <1>5, LoopExists
<1>8. g = Looped(g)
  <2>1. g = [i \in 0..n |-> g[i]]
    BY <1>7
  <2>2. ASSUME NEW i \in 0..n
        PROVE  g[i] = IF i = 0 THEN <<>> ELSE g[i - 1] \o P(i)
    <3>1. CASE i = 0
      BY <1>7, <3>1 DEF Runs
    <3>2. CASE i # 0
      <4>1. i \in 1..n /\ i - 1 \in 0..n
        BY <3>2
      <4>2. g[i - 1] \in S /\ g[i] = st[<<g[i - 1], i>>]
        BY <1>7, <4>1 DEF Runs
      <4> QED
        BY <1>6, <3>2, <4>1, <4>2
    <3> QED
      BY <3>1, <3>2
  <2> QED
    BY <2>1, <2>2
<1>9. \E f : f = Looped(f)
  <2> HIDE DEF Looped
  <2> QED
    BY <1>8
<1> DEFINE r == CHOOSE f : f = Looped(f)
<1>10. r = Looped(r)
  <2> HIDE DEF Looped
  <2> QED
    BY <1>9
<1> HIDE DEF r
<1> DEFINE H == {i \in 0..n : r[i] \in S}
<1>11. \A i \in 0..n : r[i] = IF i = 0 THEN <<>> ELSE r[i - 1] \o P(i)
  BY <1>10
<1> HIDE DEF Looped
<1>12. 0 \in H
  <2>1. 0 \in 0..n
    BY <1>1
  <2>2. r[0] = <<>>
    BY <1>11, <2>1
  <2> QED
    BY <1>3, <2>1, <2>2
<1>13. ASSUME NEW k \in 1..n, k - 1 \in H PROVE k \in H
  <2>1. P(k) \in S /\ r[k - 1] \in S /\ k \in 0..n
    BY <1>2, <1>13
  <2>0. k # 0
    OBVIOUS
  <2>2. r[k] = r[k - 1] \o P(k)
    BY <1>11, <2>0, <2>1, Zenon
  <2> QED
    BY <1>3, <2>1, <2>2
<1> HIDE DEF H
<1>14. 0..n \subseteq H
  BY <1>1, <1>12, <1>13, LoopInduction
<1>15. r[n] \in S
  BY <1>1, <1>14 DEF H
<1>16. Combinations(type, ob, side, low, high, floor) = r[n]
  BY <1>4 DEF r, Looped
<1> QED
  BY <1>15, <1>16 DEF S

LEMMA Product ==
    ASSUME NEW x \in Nat, NEW y \in Nat, x <= y, NEW k \in Nat
    PROVE  x * k <= y * k
BY Z3

LEMMA Cancelled ==
    ASSUME NEW x \in Nat, NEW y \in Nat, NEW k \in Nat, k > 0, k * x <= k * y
    PROVE  x <= y
<1> SUFFICES ASSUME x >= y + 1 PROVE FALSE
  OBVIOUS
<1>1. (y + 1) * k <= x * k
  <2>1. y + 1 \in Nat
    OBVIOUS
  <2> QED
    BY <2>1, Product
<1>2. (y + 1) * k = y * k + k /\ x * k = k * x /\ y * k = k * y
  BY Z3
<1> DEFINE a == k * x
           b == k * y
<1>3. a \in Int /\ b \in Int /\ b + k <= a /\ a <= b
  BY <1>1, <1>2
<1> HIDE DEF a, b
<1> QED
  BY <1>3

\* Paying more for the risk is transitive.
LEMMA CrossMultiplied ==
    ASSUME NEW Ra \in Nat, NEW ra \in Nat, NEW Rb \in Nat, NEW rb \in Nat, NEW Rc \in Nat, NEW rc \in Nat,
           rb > 0, Ra * rb <= Rb * ra, Rb * rc <= Rc * rb
    PROVE  Ra * rc <= Rc * ra
<1>1. (Ra * rb) * rc <= (Rb * ra) * rc
  <2>1. Ra * rb \in Nat /\ Rb * ra \in Nat
    OBVIOUS
  <2> QED
    BY <2>1, Product
<1>2. (Rb * rc) * ra <= (Rc * rb) * ra
  <2>1. Rb * rc \in Nat /\ Rc * rb \in Nat
    OBVIOUS
  <2> QED
    BY <2>1, Product
<1>3. (Rb * ra) * rc = (Rb * rc) * ra
  BY Z3
<1>4. (Ra * rb) * rc = rb * (Ra * rc) /\ (Rc * rb) * ra = rb * (Rc * ra)
  BY Z3
<1> DEFINE x == Ra * rc
           y == Rc * ra
<1>5. x \in Nat /\ y \in Nat
  OBVIOUS
<1>6. rb * x <= rb * y
  <2> DEFINE a == (Ra * rb) * rc
             b == (Rb * ra) * rc
             c == (Rb * rc) * ra
             d == (Rc * rb) * ra
  <2>1. a \in Int /\ b \in Int /\ c \in Int /\ d \in Int /\ a <= b /\ c <= d /\ b = c
    BY <1>1, <1>2, <1>3
  <2>2. rb * x = a /\ rb * y = d
    BY <1>4
  <2> HIDE DEF a, b, c, d, x, y
  <2> QED
    BY <2>1, <2>2
<1> HIDE DEF x, y
<1>7. x <= y
  BY <1>5, <1>6, Cancelled
<1> QED
  BY <1>7 DEF x, y

\* A priced geometry.
IsPriced(c) == c.entry \in Int /\ c.sl \in Int /\ c.tp2 \in Int

LEMMA BetterIs ==
    ASSUME NEW a, NEW b, NEW c, IsPriced(a), IsPriced(b), IsPriced(c), b.entry # b.sl,
           ~Better(a, b), Better(c, b)
    PROVE  ~Better(a, c)
<1> DEFINE Ra == Dist(a.tp2, a.entry)
           ra == Dist(a.entry, a.sl)
           Rb == Dist(b.tp2, b.entry)
           rb == Dist(b.entry, b.sl)
           Rc == Dist(c.tp2, c.entry)
           rc == Dist(c.entry, c.sl)
<1>1. Ra \in Nat /\ ra \in Nat /\ Rb \in Nat /\ rb \in Nat /\ Rc \in Nat /\ rc \in Nat
  BY DistIs DEF IsPriced
<1>2. rb > 0
  BY DEF IsPriced, Dist
<1>3. ~(Ra * rb > Rb * ra) /\ Rc * rb > Rb * rc
  BY DEF Better
<1>4. Better(a, c) <=> Ra * rc > Rc * ra
  BY DEF Better
<1> HIDE DEF Ra, ra, Rb, rb, Rc, rc
<1>5. Ra * rb \in Int /\ Rb * ra \in Int /\ Rc * rb \in Int /\ Rb * rc \in Int /\ Ra * rc \in Int /\ Rc * ra \in Int
  BY <1>1
<1>6. Ra * rb <= Rb * ra /\ Rb * rc <= Rc * rb
  BY <1>3, <1>5
<1>7. Ra * rc <= Rc * ra
  BY <1>1, <1>2, <1>6, CrossMultiplied
<1> QED
  BY <1>4, <1>5, <1>7

LEMMA NotBetterItself ==
    ASSUME NEW c, IsPriced(c)
    PROVE  ~Better(c, c)
<1> DEFINE x == Dist(c.tp2, c.entry) * Dist(c.entry, c.sl)
<1>1. x \in Int
  <2>1. Dist(c.tp2, c.entry) \in Nat /\ Dist(c.entry, c.sl) \in Nat
    BY DistIs DEF IsPriced
  <2> QED
    BY <2>1
<1> HIDE DEF x
<1>2. ~(x > x)
  BY <1>1
<1> QED
  BY <1>2 DEF Better, x

LEMMA NearestIs ==
    ASSUME NEW way, NEW S \in SUBSET Int, IsFiniteSet(S), S # {}
    PROVE  NearestOf(way, S) \in S
<1>1. \E p \in S : \A q \in S : ~Past(way, p, q)
  <2>1. CASE way = "bullish"
    <3>1. PICK p \in S : \A q \in S : p <= q
      BY LowestExists
    <3>2. \A q \in S : ~(1 * (p - q) > 0)
      BY <3>1
    <3> QED
      BY <2>1, <3>2 DEF Past, Side
  <2>2. CASE way # "bullish"
    <3>1. PICK p \in S : \A q \in S : q <= p
      BY HighestExists
    <3>2. \A q \in S : ~((-1) * (p - q) > 0)
      BY <3>1
    <3> QED
      BY <2>2, <3>2 DEF Past, Side
  <2> QED
    BY <2>1, <2>2
<1> QED
  BY <1>1 DEF NearestOf

LEMMA FixedIs ==
    ASSUME NEW entry \in Int, NEW sl \in Int, NEW way, NEW rr \in Nat
    PROVE  FixedTp(entry, sl, way, rr) \in Int
<1> DEFINE x == Dist(entry, sl) * rr
<1>1. x \in Int
  BY DistIs
<1> HIDE DEF x
<1>2. x \div RRScale \in Int
  BY <1>1, ScaleAssumption
<1> DEFINE y == x \div RRScale
<1> HIDE DEF y
<1>3. entry + Side(way) * y \in Int
  BY <1>2 DEF Side, y
<1> QED
  BY <1>3 DEF FixedTp, x, y

LEMMA TpIs ==
    ASSUME NEW type \in SwingTypes, NEW entry \in Int, NEW sl \in Int, NEW way,
           NEW S \in SUBSET Int, IsFiniteSet(S)
    PROVE  TpLevels(type, entry, sl, way, S).tp2 \in Int
<1> DEFINE fixed1 == FixedTp(entry, sl, way, Tp1RR)
           fixed2 == FixedTp(entry, sl, way, Tp2RR(type))
           near   == {p \in Targets(entry, way, S) : RRAtLeast(entry, sl, p, Tp1RR)}
           tp1    == NearestOf(way, near)
           beyond == {p \in near : Past(way, p, tp1)}
           struct == IF beyond = {} THEN fixed2 ELSE NearestOf(way, beyond)
<1>1. fixed2 \in Int
  BY FixedIs, EntriesAssumption
<1>2. near \subseteq S /\ beyond \subseteq S
  BY DEF Targets
<1>3. TpLevels(type, entry, sl, way, S) =
          IF entry = sl \/ near = {} THEN [tp1 |-> fixed1, tp2 |-> fixed2]
          ELSE [tp1 |-> Outer(way, tp1, fixed1), tp2 |-> Outer(way, struct, fixed2)]
  BY DEF TpLevels
<1>4. struct = IF beyond = {} THEN fixed2 ELSE NearestOf(way, beyond)
  OBVIOUS
<1> HIDE DEF fixed1, fixed2, near, beyond, struct, tp1
<1>5. struct \in Int
  <2>1. beyond # {} => NearestOf(way, beyond) \in Int
    BY <1>2, FS_Subset, NearestIs
  <2> QED
    BY <1>1, <1>4, <2>1
<1>6. Outer(way, struct, fixed2) \in Int
  BY <1>1, <1>5 DEF Outer
<1> QED
  BY <1>1, <1>3, <1>6

\* The loop's best is one that passes, and nothing that passes beats it unless
\* it was excellent; without one, nothing has passed.
IsBest(b, seen, way) ==
    \/ b = NoGeometry /\ \A c \in seen : ~Passes(c, way)
    \/ /\ b \in seen /\ Passes(b, way)
       /\ Excellent(b) \/ \A c \in seen : Passes(c, way) => ~Better(c, b)

LEMMA NothingPasses == \A way : ~Passes(NoGeometry, way)
BY DEF Passes, Past, Side, NoGeometry

LEMMA PassesApart ==
    ASSUME NEW c, IsPriced(c), NEW way, Passes(c, way)
    PROVE  c.entry # c.sl
BY DEF Passes, Past, Side, IsPriced

LEMMA TakenIs ==
    ASSUME NEW way, NEW seen, \A x \in seen : IsPriced(x), NEW b, IsBest(b, seen, way), NEW c, IsPriced(c)
    PROVE  IsBest(Taken(b, c, way), seen \cup {c}, way)
<1>1. CASE b # NoGeometry /\ Excellent(b)
  BY <1>1 DEF Taken, IsBest
<1>2. CASE ~(b # NoGeometry /\ Excellent(b)) /\ Passes(c, way) /\ (b = NoGeometry \/ Excellent(c) \/ Better(c, b))
  <2>1. Taken(b, c, way) = c
    BY <1>2 DEF Taken
  <2>2. ~Better(c, c)
    BY NotBetterItself
  <2>3. CASE Excellent(c)
    BY <1>2, <2>1, <2>3 DEF IsBest
  <2>4. CASE b = NoGeometry
    <3>1. \A x \in seen : ~Passes(x, way)
      BY <2>4, NothingPasses DEF IsBest
    <3> QED
      BY <1>2, <2>1, <2>2, <3>1 DEF IsBest
  <2>5. CASE b # NoGeometry /\ ~Excellent(c) /\ Better(c, b)
    <3>1. b \in seen /\ Passes(b, way) /\ \A x \in seen : Passes(x, way) => ~Better(x, b)
      BY <1>2, <2>5 DEF IsBest
    <3>2. IsPriced(b) /\ b.entry # b.sl
      BY <3>1, PassesApart
    <3>3. ASSUME NEW x \in seen, Passes(x, way) PROVE ~Better(x, c)
      <4>1. IsPriced(x) /\ ~Better(x, b)
        BY <3>1, <3>3
      <4> QED
        BY <2>5, <3>2, <4>1, BetterIs
    <3> QED
      BY <1>2, <2>1, <2>2, <3>3 DEF IsBest
  <2> QED
    BY <1>2, <2>3, <2>4, <2>5
<1>3. CASE ~(b # NoGeometry /\ Excellent(b)) /\ ~(Passes(c, way) /\ (b = NoGeometry \/ Excellent(c) \/ Better(c, b)))
  BY <1>3 DEF Taken, IsBest
<1> QED
  BY <1>1, <1>2, <1>3

\* What the loop has priced.
PricedUpTo(all, type, way, S, k) == {Priced(type, all[i], way, S) : i \in 1..k}

LEMMA BestIs ==
    ASSUME NEW T, NEW all \in Seq(T), NEW type, NEW way, NEW S,
           \A c \in T : IsPriced(Priced(type, c, way, S))
    PROVE  IsBest(BestOf(all, type, way, S), PricedUpTo(all, type, way, S, Len(all)), way)
<1> DEFINE n == Len(all)
           P(i) == Priced(type, all[i], way, S)
           U == {P(i) : i \in 1..n} \cup {NoGeometry}
           st == [x \in U \X (1..n) |-> Taken(x[1], P(x[2]), way)]
           Looped(f) == [i \in 0..n |-> IF i = 0 THEN NoGeometry ELSE Taken(f[i - 1], P(i), way)]
<1>1. n \in Nat
  OBVIOUS
<1>2. \A i \in 1..n : IsPriced(P(i)) /\ P(i) \in U
  <2> SUFFICES ASSUME NEW i \in 1..n PROVE IsPriced(P(i)) /\ P(i) \in U
    OBVIOUS
  <2>1. all[i] \in T
    BY ElementOfSeq
  <2> QED
    BY <2>1
<1>3. NoGeometry \in U
  OBVIOUS
<1>4. \A k \in 0..n : PricedUpTo(all, type, way, S, k) = {P(i) : i \in 1..k}
  BY DEF PricedUpTo
<1>5. BestOf(all, type, way, S) = (CHOOSE f : f = Looped(f))[n]
  BY DEF BestOf
<1> HIDE DEF U, P
<1>6. st \in [U \X (1..n) -> U]
  BY <1>2, <1>3 DEF Taken
<1>7. \A y \in U, i \in 1..n : st[<<y, i>>] = Taken(y, P(i), way)
  OBVIOUS
<1> HIDE DEF st
<1>8. PICK g \in [0..n -> U] : Runs(g, NoGeometry, st, n)
  BY <1>1, <1>3, <1>6, LoopExists
<1>9. g = Looped(g)
  <2>1. g = [i \in 0..n |-> g[i]]
    BY <1>8
  <2>2. ASSUME NEW i \in 0..n
        PROVE  g[i] = IF i = 0 THEN NoGeometry ELSE Taken(g[i - 1], P(i), way)
    <3>1. CASE i = 0
      BY <1>8, <3>1 DEF Runs
    <3>2. CASE i # 0
      <4>1. i \in 1..n /\ i - 1 \in 0..n
        BY <3>2
      <4>2. g[i - 1] \in U /\ g[i] = st[<<g[i - 1], i>>]
        BY <1>8, <4>1 DEF Runs
      <4> QED
        BY <1>7, <3>2, <4>1, <4>2
    <3> QED
      BY <3>1, <3>2
  <2> QED
    BY <2>1, <2>2
<1>10. \E f : f = Looped(f)
  <2> HIDE DEF Looped
  <2> QED
    BY <1>9
<1> DEFINE r == CHOOSE f : f = Looped(f)
<1>11. r = Looped(r)
  <2> HIDE DEF Looped
  <2> QED
    BY <1>10
<1>12. BestOf(all, type, way, S) = r[n]
  BY <1>5
<1> HIDE DEF r
<1>13. \A i \in 0..n : r[i] = IF i = 0 THEN NoGeometry ELSE Taken(r[i - 1], P(i), way)
  BY <1>11
<1> HIDE DEF Looped
<1> DEFINE Upto(k) == {P(i) : i \in 1..k}
           H == {k \in 0..n : IsBest(r[k], Upto(k), way)}
<1>14. 0 \in H
  <2>1. 0 \in 0..n
    BY <1>1
  <2>2. r[0] = NoGeometry
    BY <1>13, <2>1
  <2>3. Upto(0) = {}
    OBVIOUS
  <2> HIDE DEF Upto
  <2> QED
    BY <2>1, <2>2, <2>3 DEF IsBest
<1>15. ASSUME NEW k \in 1..n, k - 1 \in H PROVE k \in H
  <2>0. k # 0 /\ k \in 0..n /\ k \in 1..n /\ k - 1 \in 0..n
    OBVIOUS
  <2>1. r[k] = Taken(r[k - 1], P(k), way)
    BY <1>13, <2>0, Zenon
  <2>2. Upto(k) = Upto(k - 1) \cup {P(k)}
    <3>1. 1..k = 1..(k - 1) \cup {k}
      OBVIOUS
    <3> QED
      BY <3>1
  <2>3. \A x \in Upto(k - 1) : IsPriced(x)
    <3>1. 1..(k - 1) \subseteq 1..n
      OBVIOUS
    <3> QED
      BY <1>2, <3>1
  <2>4. IsBest(r[k - 1], Upto(k - 1), way)
    BY <1>15
  <2>5. IsPriced(P(k))
    BY <1>2
  <2> HIDE DEF Upto
  <2>6. IsBest(Taken(r[k - 1], P(k), way), Upto(k - 1) \cup {P(k)}, way)
    BY <2>3, <2>4, <2>5, TakenIs
  <2> QED
    BY <2>0, <2>1, <2>2, <2>6
<1> HIDE DEF H
<1>16. 0..n \subseteq H
  BY <1>1, <1>14, <1>15, LoopInduction
<1>17. n \in H /\ n \in 0..n
  BY <1>1, <1>16
<1>18. IsBest(r[n], Upto(n), way)
  BY <1>17 DEF H
<1>19. PricedUpTo(all, type, way, S, n) = Upto(n)
  BY <1>4, <1>17
<1> QED
  BY <1>12, <1>18, <1>19

\* The stop of an entry within its block: the wick or the floor.
LEMMA StructuralIs ==
    ASSUME NEW ob \in Blocks, NEW way, NEW entry \in ob.bodyLow..ob.bodyHigh, NEW sl,
           NEW floor \in Nat, Structural(entry, sl, ob, way, floor)
    PROVE  sl = Wick(ob, way) \/ Dist(entry, sl) = floor
<1>1. /\ ob.low \in Int /\ ob.bodyLow \in Int /\ ob.bodyHigh \in Int /\ ob.high \in Int
      /\ ob.low <= ob.bodyLow /\ ob.bodyLow <= ob.bodyHigh /\ ob.bodyHigh <= ob.high
  BY DEF Blocks
<1>2. entry \in Int /\ ob.low <= entry /\ entry <= ob.high
  BY <1>1
<1> DEFINE l == ob.low
           h == ob.high
<1>3. l \in Int /\ h \in Int /\ l <= entry /\ entry <= h
  BY <1>1, <1>2
<1>4. Wick(ob, way) = IF way = "bullish" THEN l ELSE h
  BY DEF Wick
<1> HIDE DEF l, h
<1>5. CASE sl = entry - Side(way) * floor
  BY <1>2, <1>5 DEF Side, Dist
<1>6. CASE sl = entry - Side(way) * Dist(entry, Wick(ob, way))
  BY <1>2, <1>3, <1>4, <1>6 DEF Side, Dist
<1> QED
  BY <1>5, <1>6 DEF Structural

\* The combinations of a setup, in its market.
PassingIn(s, m) ==
    LET all == Combinations(s.type, s.ob, s.dir, s.low, s.high, m.atr * FloorFactor)
    IN  {c \in {Priced(s.type, all[i], s.dir, m.levels) : i \in DOMAIN all} : Passes(c, s.dir)}

GoodPlan(s, m) ==
    /\ s.type # "d" => Excellent(s) \/ \A c \in PassingIn(s, m) : ~Better(c, s)
    /\ s.type # "b" => s.sl = Wick(s.ob, s.dir) \/ Dist(s.entry, s.sl) = m.atr * FloorFactor

LEMMA ShownIs ==
    ASSUME NEW m \in Shown
    PROVE  /\ m.obs \in Seq(Blocks) /\ m.breakers \in Seq(Blocks)
           /\ m.fvgs \in Seq([dir : {"bullish", "bearish"}, low : Int, high : Int])
           /\ m.levels \in SUBSET Int /\ IsFiniteSet(m.levels) /\ m.atr * FloorFactor \in Nat
<1>1. m.atr \in Nat /\ FloorFactor \in Nat
  BY MarketAssumption
<1>2. m.atr * FloorFactor \in Nat
  BY <1>1
<1> QED
  BY <1>2, MarketAssumption

\* The loop's own choice.
LEMMA CascadeIs ==
    ASSUME NEW type \in SwingTypes, NEW ob \in Blocks, NEW way, NEW low \in Int, NEW high \in Int,
           NEW floor \in Nat, NEW S \in SUBSET Int, IsFiniteSet(S),
           NEW g, g = Cascade(type, ob, way, low, high, floor, S), g # NoGeometry,
           NEW all, all = Combinations(type, ob, way, low, high, floor)
    PROVE  /\ g.entry \in low..high /\ Structural(g.entry, g.sl, ob, way, floor)
           /\ \/ Excellent(g)
              \/ \A c \in {Priced(type, all[i], way, S) : i \in DOMAIN all} : Passes(c, way) => ~Better(c, g)
<1> DEFINE T == Tries(ob, way, low, high, floor)
<1>1. low <= high /\ g = BestOf(all, type, way, S)
  BY DEF Cascade
<1>2. all \in Seq(T)
  BY <1>1, CombinationsAre
<1>3. ASSUME NEW c \in T PROVE IsPriced(Priced(type, c, way, S))
  <2>1. c.entry \in Int /\ c.sl \in Int
    BY DEF Tries
  <2>2. TpLevels(type, c.entry, c.sl, way, S).tp2 \in Int
    BY <2>1, TpIs
  <2> QED
    BY <2>1, <2>2 DEF IsPriced, Priced
<1> HIDE DEF T
<1>4. IsBest(g, PricedUpTo(all, type, way, S, Len(all)), way)
  BY <1>1, <1>2, <1>3, BestIs
<1>5. DOMAIN all = 1..Len(all)
  BY <1>2
<1>6. PricedUpTo(all, type, way, S, Len(all)) = {Priced(type, all[i], way, S) : i \in DOMAIN all}
  BY <1>5 DEF PricedUpTo
<1>7. PICK i \in 1..Len(all) : g = Priced(type, all[i], way, S)
  BY <1>4, <1>5, <1>6 DEF IsBest
<1>8. all[i] \in T
  BY <1>2, <1>7, ElementOfSeq
<1>9. g.entry = all[i].entry /\ g.sl = all[i].sl
  BY <1>7 DEF Priced
<1>10. g.entry \in low..high /\ Structural(g.entry, g.sl, ob, way, floor)
  BY <1>8, <1>9 DEF T, Tries
<1> QED
  BY <1>4, <1>6, <1>10 DEF IsBest

LEMMA PlacedIs ==
    ASSUME NEW m \in Shown, NEW type \in SwingTypes, NEW ob \in Blocks, NEW way,
           NEW low \in Int, NEW high \in Int, NEW tags,
           type # "b" => low = ob.bodyLow /\ high = ob.bodyHigh,
           Placed(type, m, ob, way, low, high, tags) # <<>>
    PROVE  \E s : /\ Placed(type, m, ob, way, low, high, tags) = <<s>>
                  /\ GoodPlan(s, m) /\ s.tags = tags
<1> DEFINE floor == m.atr * FloorFactor
           g == Cascade(type, ob, way, low, high, floor, m.levels)
           s == [type |-> type, dir |-> way, entry |-> g.entry, sl |-> g.sl,
                 tp1 |-> g.tp1, tp2 |-> g.tp2, ob |-> ob, low |-> low, high |-> high, tags |-> tags]
           all == Combinations(type, ob, way, low, high, floor)
<1>1. Placed(type, m, ob, way, low, high, tags) = <<s>> /\ g # NoGeometry
  BY DEF Placed
<1>2. floor \in Nat /\ m.levels \in SUBSET Int /\ IsFiniteSet(m.levels)
  BY ShownIs
<1> HIDE DEF floor, g
<1>3. /\ s.type = type /\ s.dir = way /\ s.entry = g.entry /\ s.sl = g.sl /\ s.tp2 = g.tp2 /\ s.ob = ob
      /\ s.low = low /\ s.high = high /\ s.tags = tags
  OBVIOUS
<1> HIDE DEF s, all
<1>4. /\ g.entry \in low..high /\ Structural(g.entry, g.sl, ob, way, floor)
      /\ \/ Excellent(g)
         \/ \A c \in {Priced(type, all[i], way, m.levels) : i \in DOMAIN all} : Passes(c, way) => ~Better(c, g)
  BY <1>1, <1>2, CascadeIs DEF g, all
<1>5. Excellent(s) <=> Excellent(g)
  BY <1>3 DEF Excellent
<1>6. \A c : Better(c, s) <=> Better(c, g)
  BY <1>3 DEF Better
<1>7. PassingIn(s, m) = {c \in {Priced(type, all[i], way, m.levels) : i \in DOMAIN all} : Passes(c, way)}
  BY <1>3 DEF PassingIn, all, floor
<1>8. Excellent(s) \/ \A c \in PassingIn(s, m) : ~Better(c, s)
  BY <1>4, <1>5, <1>6, <1>7
<1>9. type # "b" => s.sl = Wick(s.ob, s.dir) \/ Dist(s.entry, s.sl) = floor
  BY <1>2, <1>3, <1>4, StructuralIs
<1>10. GoodPlan(s, m)
  BY <1>3, <1>8, <1>9 DEF GoodPlan, floor
<1> QED
  BY <1>1, <1>3, <1>10

\* A set of indices has one whose value is greatest.
LEMMA TopExists ==
    ASSUME NEW I, IsFiniteSet(I), I # {}, NEW val, \A i \in I : val[i] \in Int
    PROVE  \E i \in I : \A j \in I : val[j] <= val[i]
<1> DEFINE f == [i \in I |-> val[i]]
           S == {f[i] : i \in I}
<1>1. IsFiniteSet(S)
  <2> HIDE DEF f
  <2> QED
    BY ImageIsFinite
<1>2. \A i \in I : f[i] = val[i] /\ f[i] \in S
  OBVIOUS
<1>3. S \in SUBSET Int /\ S # {}
  BY <1>2
<1>4. \A x \in S : \E i \in I : x = val[i]
  OBVIOUS
<1> HIDE DEF S, f
<1>5. PICK x \in S : \A y \in S : y <= x
  BY <1>1, <1>3, HighestExists
<1>6. PICK i \in I : x = val[i]
  BY <1>4
<1> QED
  BY <1>2, <1>5, <1>6

LEMMA BestObIs ==
    ASSUME NEW list \in Seq(Blocks), NEW price, NEW far, NEW b, b = BestOb(list, price, far), b # <<>>
    PROVE  Head(b) \in Blocks
<1> DEFINE ok == {i \in DOMAIN list : Scored(list[i], price, far)}
           top == {i \in ok : \A j \in ok : list[j].quality <= list[i].quality}
           val == [i \in DOMAIN list |-> list[i].quality]
           k == CHOOSE i \in top : \A j \in top : i <= j
<1>1. ok # {} /\ b = <<list[k]>>
  BY DEF BestOb
<1>2. DOMAIN list = 1..Len(list) /\ Len(list) \in Nat
  OBVIOUS
<1>3. \A i \in DOMAIN list : list[i] \in Blocks
  BY ElementOfSeq
<1>4. ok \subseteq 1..Len(list) /\ IsFiniteSet(ok)
  <2>1. ok \subseteq 1..Len(list)
    BY <1>2
  <2>2. IsFiniteSet(1..Len(list))
    BY FS_Interval
  <2> HIDE DEF ok
  <2> QED
    BY <2>1, <2>2, FS_Subset
<1>5. \A i \in ok : val[i] \in Int /\ val[i] = list[i].quality
  BY <1>3 DEF Blocks
<1> HIDE DEF ok, val
<1>6. PICK i \in ok : \A j \in ok : val[j] <= val[i]
  BY <1>1, <1>4, <1>5, TopExists
<1>7. i \in top
  BY <1>5, <1>6
<1>8. top \in SUBSET Nat /\ top # {}
  <2>1. top \subseteq ok /\ 1..Len(list) \subseteq Nat
    BY <1>2
  <2> HIDE DEF top
  <2> QED
    BY <1>4, <1>7, <2>1
<1>9. top \subseteq DOMAIN list
  BY <1>2, <1>4
<1> HIDE DEF top
<1>10. k \in top
  BY <1>8, LeastExists
<1> HIDE DEF k
<1>11. Head(b) = list[k]
  BY <1>1
<1> QED
  BY <1>3, <1>9, <1>10, <1>11

LEMMA BestPairIs ==
    ASSUME NEW list \in Seq(Blocks), NEW T, NEW gaps \in Seq(T), NEW price, NEW far,
           NEW p, p = BestPair(list, gaps, price, far), p # <<>>
    PROVE  p[1] \in Blocks /\ p[2] \in T
<1> DEFINE pairs == {x \in (DOMAIN list) \X (DOMAIN gaps) :
                        Near(price, BodyMid(list[x[1]]), far) /\ Adjacent(gaps[x[2]], list[x[1]])}
           Outranks(x, y) == \/ list[x[1]].volume > list[y[1]].volume
                             \/ list[x[1]].volume = list[y[1]].volume /\ list[x[1]].at > list[y[1]].at
           top == {x \in pairs : ~\E y \in pairs : Outranks(y, x)}
           first == CHOOSE x \in top : \A y \in top : x[1] < y[1] \/ (x[1] = y[1] /\ x[2] <= y[2])
           vol == [x \in pairs |-> list[x[1]].volume]
           age == [x \in pairs |-> list[x[1]].at]
<1>1. pairs # {} /\ p = <<list[first[1]], gaps[first[2]]>>
  BY DEF BestPair
<1>2. DOMAIN list = 1..Len(list) /\ DOMAIN gaps = 1..Len(gaps)
  OBVIOUS
<1>3. IsFiniteSet(pairs)
  <2>1. IsFiniteSet(1..Len(list)) /\ IsFiniteSet(1..Len(gaps))
    BY FS_Interval
  <2>2. IsFiniteSet((DOMAIN list) \X (DOMAIN gaps))
    BY <1>2, <2>1, FS_Product
  <2> QED
    BY <2>2, FS_Subset
<1>4. \A x \in pairs : x[1] \in DOMAIN list /\ x[2] \in DOMAIN gaps
  OBVIOUS
<1>5. \A i \in DOMAIN list : list[i] \in Blocks /\ list[i].volume \in Int /\ list[i].at \in Int
  <2>1. \A i \in DOMAIN list : list[i] \in Blocks
    BY ElementOfSeq
  <2>2. \A b \in Blocks : b.volume \in Int /\ b.at \in Int
    BY DEF Blocks
  <2> QED
    BY <2>1, <2>2
<1>6. \A x \in pairs : /\ vol[x] \in Int /\ age[x] \in Int
                       /\ vol[x] = list[x[1]].volume /\ age[x] = list[x[1]].at
  BY <1>4, <1>5
<1>7. pairs \in SUBSET (Nat \X Nat)
  BY <1>2
<1> HIDE DEF pairs, vol, age
<1>8. PICK a \in pairs : \A y \in pairs : vol[y] <= vol[a]
  BY <1>1, <1>3, <1>6, TopExists
<1> DEFINE loud == {x \in pairs : vol[x] = vol[a]}
<1>9. IsFiniteSet(loud) /\ loud # {} /\ loud \subseteq pairs
  BY <1>3, FS_Subset
<1>10. PICK b \in loud : \A y \in loud : age[y] <= age[b]
  BY <1>6, <1>9, TopExists
<1>11. b \in top
  <2>1. b \in pairs /\ vol[b] = vol[a]
    OBVIOUS
  <2>2. ASSUME NEW y \in pairs, Outranks(y, b) PROVE FALSE
    <3>1. vol[y] \in Int /\ vol[b] \in Int /\ age[y] \in Int /\ age[b] \in Int
      BY <1>6, <2>1
    <3>2. vol[y] > vol[b] \/ (vol[y] = vol[b] /\ age[y] > age[b])
      BY <1>6, <2>1, <2>2
    <3>3. vol[y] <= vol[b]
      BY <1>8, <2>1
    <3>4. vol[y] = vol[b] /\ age[y] > age[b]
      BY <3>1, <3>2, <3>3
    <3>5. age[y] <= age[b]
      BY <1>10, <2>1, <3>4
    <3> QED
      BY <3>1, <3>4, <3>5
  <2> QED
    BY <2>1, <2>2
<1>12. top \in SUBSET (Nat \X Nat) /\ top # {} /\ top \subseteq pairs
  BY <1>7, <1>11
<1> HIDE DEF top
<1>13. first \in top
  BY <1>12, FirstPatternIs
<1> HIDE DEF first
<1>14. first[1] \in DOMAIN list /\ first[2] \in DOMAIN gaps
  BY <1>4, <1>12, <1>13
<1>15. p[1] = list[first[1]] /\ p[2] = gaps[first[2]]
  BY <1>1
<1> QED
  BY <1>5, <1>14, <1>15, ElementOfSeq

\* What an evaluator answers.
AnswerOk(answer, m, before) ==
    \/ answer.setup = <<>>
    \/ /\ answer.asked
       /\ \E s : /\ answer.setup = <<s>> /\ GoodPlan(s, m)
                 /\ OiTag \in s.tags => m.oi > 0 /\ m.oi # before

LEMMA ConfirmedIs ==
    ASSUME NEW m \in Shown, NEW type \in SwingTypes, NEW ob \in Blocks, NEW sweep, NEW way,
           NEW low \in Int, NEW high \in Int, NEW n, NEW least, NEW before,
           type # "b" => low = ob.bodyLow /\ high = ob.bodyHigh
    PROVE  AnswerOk(Confirmed(type, m, ob, sweep, way, low, high, n, least, before), m, before)
<1> DEFINE tags == Confirmations(ob, sweep, m, before)
           answer == Confirmed(type, m, ob, sweep, way, low, high, n, least, before)
<1>1. answer.asked /\ (answer.setup = <<>> \/ answer.setup = Placed(type, m, ob, way, low, high, tags))
  BY DEF Confirmed
<1>2. OiTag \in tags => m.oi > 0 /\ m.oi # before
  BY DEF Confirmations, Backs, OiTag
<1> HIDE DEF tags, answer
<1>3. CASE answer.setup = <<>>
  BY <1>3 DEF AnswerOk, answer
<1>4. CASE answer.setup # <<>>
  <2>1. PICK s : answer.setup = <<s>> /\ GoodPlan(s, m) /\ s.tags = tags
    BY <1>1, <1>4, PlacedIs
  <2> QED
    BY <1>1, <1>2, <2>1 DEF AnswerOk, answer
<1> QED
  BY <1>3, <1>4

LEMMA BodyIs ==
    ASSUME NEW ob \in Blocks
    PROVE  ob.bodyLow \in Int /\ ob.bodyHigh \in Int
BY DEF Blocks

LEMMA EvaluatorsAre ==
    ASSUME NEW m \in Shown, NEW before
    PROVE  /\ AnswerOk(SetupA(m, before), m, before) /\ AnswerOk(SetupB(m, before), m, before)
           /\ AnswerOk(SetupF(m, before), m, before) /\ AnswerOk(SetupG(m, before), m, before)
<1>1. /\ m.obs \in Seq(Blocks) /\ m.breakers \in Seq(Blocks)
      /\ m.fvgs \in Seq([dir : {"bullish", "bearish"}, low : Int, high : Int])
  BY ShownIs
<1>2. AnswerOk(NoSetup, m, before)
  BY DEF AnswerOk, NoSetup
<1>3. \A ok : Among(m.obs, ok) \in Seq(Blocks) /\ Among(m.breakers, ok) \in Seq(Blocks)
  BY <1>1, AmongIs
<1>4. \A way : SameSide(m.obs, way) \in Seq(Blocks) /\ SameSide(m.breakers, way) \in Seq(Blocks)
  BY <1>3 DEF SameSide
<1>5. "a" \in SwingTypes /\ "b" \in SwingTypes /\ "f" \in SwingTypes /\ "g" \in SwingTypes
  BY DEF SwingTypes
<1>6. AnswerOk(SetupA(m, before), m, before)
  <2> DEFINE choch == Last(Breaks(m, {"choch"}))
             sweep == SweepFor(m, choch)
             best  == BestOb(SameSide(m.obs, choch.dir), m.price, ObDistance)
             ob    == Head(best)
             answer == Confirmed("a", m, ob, sweep, choch.dir, ob.bodyLow, ob.bodyHigh, 3, 2, before)
  <2>1. SetupA(m, before) = NoSetup \/ (best # <<>> /\ SetupA(m, before) = answer)
    BY DEF SetupA
  <2>2. best # <<>> => ob \in Blocks
    BY <1>4, BestObIs
  <2>3. best # <<>> => AnswerOk(answer, m, before)
    BY <1>5, <2>2, BodyIs, ConfirmedIs
  <2> HIDE DEF answer
  <2> QED
    BY <1>2, <2>1, <2>3
<1>7. AnswerOk(SetupF(m, before), m, before)
  <2> DEFINE bos == Last(Breaks(m, {"bos"}))
             close == {ob \in ToSet(m.obs) : ob.dir = bos.dir /\ Dist(ob.at, bos.at) <= MaxObGap}
             best  == BestOb(Among(m.obs, close), m.price, ObDistance)
             ob    == Head(best)
             answer == Confirmed("f", m, ob, <<>>, bos.dir, ob.bodyLow, ob.bodyHigh, 2, 2, before)
  <2>1. SetupF(m, before) = NoSetup \/ (best # <<>> /\ SetupF(m, before) = answer)
    BY DEF SetupF
  <2>2. best # <<>> => ob \in Blocks
    BY <1>3, BestObIs
  <2>3. best # <<>> => AnswerOk(answer, m, before)
    BY <1>5, <2>2, BodyIs, ConfirmedIs
  <2> HIDE DEF answer
  <2> QED
    BY <1>2, <2>1, <2>3
<1>8. AnswerOk(SetupG(m, before), m, before)
  <2> DEFINE best  == BestOb(SameSide(m.breakers, m.bias), m.price, ObDistance)
             ob    == Head(best)
             answer == Confirmed("g", m, ob, <<>>, m.bias, ob.bodyLow, ob.bodyHigh, 1, 2, before)
  <2>1. SetupG(m, before) = NoSetup \/ (best # <<>> /\ SetupG(m, before) = answer)
    BY DEF SetupG
  <2>2. best # <<>> => ob \in Blocks
    BY <1>4, BestObIs
  <2>3. best # <<>> => AnswerOk(answer, m, before)
    BY <1>5, <2>2, BodyIs, ConfirmedIs
  <2> HIDE DEF answer
  <2> QED
    BY <1>2, <2>1, <2>3
<1>9. AnswerOk(SetupB(m, before), m, before)
  <2> DEFINE bos  == Last(Breaks(m, {"bos"}))
             gaps == SameSide(m.fvgs, bos.dir)
             pair == BestPair(SameSide(m.obs, bos.dir), gaps, m.price, ObDistance)
             answer == Confirmed("b", m, pair[1], <<>>, bos.dir, pair[2].low, pair[2].high, 3, 2, before)
             T == [dir : {"bullish", "bearish"}, low : Int, high : Int]
  <2>1. SetupB(m, before) = NoSetup \/ (pair # <<>> /\ SetupB(m, before) = answer)
    BY DEF SetupB
  <2>2. gaps \in Seq(T)
    BY <1>1, AmongIs DEF SameSide
  <2>3. pair # <<>> => pair[1] \in Blocks /\ pair[2] \in T
    BY <1>4, <2>2, BestPairIs
  <2>4. pair # <<>> => pair[2].low \in Int /\ pair[2].high \in Int
    BY <2>3
  <2>5. pair # <<>> => AnswerOk(answer, m, before)
    BY <1>5, <2>3, <2>4, ConfirmedIs
  <2> HIDE DEF answer
  <2> QED
    BY <1>2, <2>1, <2>5
<1> QED
  BY <1>6, <1>7, <1>8, <1>9

\* A list of good plans, one of them backed by the open interest at most; oi
\* is the reference it left.
OneBacked(q) == \A i, j \in 1..Len(q) : OiTag \in q[i].tags /\ OiTag \in q[j].tags => i = j
Sheet(q, m, oi) ==
    \E S : /\ q \in Seq(S) /\ (\A s \in S : GoodPlan(s, m)) /\ OneBacked(q)
           /\ \A i \in 1..Len(q) : OiTag \in q[i].tags => oi = m.oi

LEMMA EmptySheet ==
    ASSUME NEW m, NEW oi
    PROVE  Sheet(<<>>, m, oi)
<1> DEFINE q == <<>>
           S == {}
<1>1. q \in Seq(S) /\ 1..Len(q) = {}
  BY EmptySeq
<1>2. \A s \in S : GoodPlan(s, m)
  OBVIOUS
<1> HIDE DEF q, S
<1>3. OneBacked(q) /\ \A i \in 1..Len(q) : OiTag \in q[i].tags => oi = m.oi
  BY <1>1 DEF OneBacked
<1>4. Sheet(q, m, oi)
  BY <1>1, <1>2, <1>3, Zenon DEF Sheet
<1> QED
  BY <1>4 DEF q

LEMMA SheetKept ==
    ASSUME NEW q, NEW m, NEW oi, Sheet(q, m, oi), NEW after, after \in {oi, m.oi}
    PROVE  Sheet(q \o <<>>, m, after)
<1>1. PICK S : /\ q \in Seq(S) /\ (\A s \in S : GoodPlan(s, m)) /\ OneBacked(q)
               /\ \A i \in 1..Len(q) : OiTag \in q[i].tags => oi = m.oi
  BY DEF Sheet
<1>2. q \o <<>> = q
  BY <1>1, ConcatEmptySeq
<1>3. \A i \in 1..Len(q) : OiTag \in q[i].tags => after = m.oi
  BY <1>1
<1> QED
  BY <1>1, <1>2, <1>3, Zenon DEF Sheet

LEMMA SheetGrows ==
    ASSUME NEW q, NEW m, NEW oi, Sheet(q, m, oi), NEW s, GoodPlan(s, m), NEW after, after \in {oi, m.oi},
           OiTag \in s.tags => oi # m.oi /\ after = m.oi
    PROVE  Sheet(q \o <<s>>, m, after)
<1>1. PICK S : /\ q \in Seq(S) /\ (\A x \in S : GoodPlan(x, m)) /\ OneBacked(q)
               /\ \A i \in 1..Len(q) : OiTag \in q[i].tags => oi = m.oi
  BY DEF Sheet
<1> DEFINE U == S \cup {s}
           n == Len(q)
           r == q \o <<s>>
<1>2. q \in Seq(U) /\ <<s>> \in Seq(U) /\ Len(<<s>>) = 1 /\ <<s>>[1] = s /\ n \in Nat
  <2>1. q \in Seq(U) /\ n \in Nat
    BY <1>1
  <2>2. s \in U
    OBVIOUS
  <2> HIDE DEF U
  <2>3. <<s>> \in Seq(U) /\ Len(<<s>>) = 1 /\ <<s>>[1] = s
    BY <2>2
  <2> QED
    BY <2>1, <2>3
<1>3. \A x \in U : GoodPlan(x, m)
  BY <1>1
<1> HIDE DEF U
<1>4. /\ r \in Seq(U) /\ Len(r) = n + 1
      /\ \A i \in 1..(n + 1) : r[i] = IF i <= n THEN q[i] ELSE s
  <2>1. /\ r \in Seq(U) /\ Len(r) = n + 1
        /\ \A i \in 1..(n + 1) : r[i] = IF i <= n THEN q[i] ELSE <<s>>[i - n]
    BY <1>2, ConcatProperties
  <2>2. ASSUME NEW i \in 1..(n + 1), ~(i <= n) PROVE <<s>>[i - n] = s
    <3>1. i - n = 1
      BY <1>2, <2>2
    <3> QED
      BY <1>2, <3>1
  <2> QED
    BY <2>1, <2>2
<1> HIDE DEF r
<1>5. \A i \in 1..n : r[i] = q[i]
  BY <1>2, <1>4
<1>6. r[n + 1] = s
  BY <1>2, <1>4
<1>7. OneBacked(r)
  <2> SUFFICES ASSUME NEW i \in 1..(n + 1), NEW j \in 1..(n + 1), OiTag \in r[i].tags, OiTag \in r[j].tags
               PROVE  i = j
    BY <1>4 DEF OneBacked
  <2>1. CASE i \in 1..n /\ j \in 1..n
    BY <1>1, <1>5, <2>1 DEF OneBacked
  <2>2. CASE i \in 1..n /\ j = n + 1
    <3>1. oi = m.oi
      BY <1>1, <1>5, <2>2
    <3> QED
      BY <1>6, <2>2, <3>1
  <2>3. CASE j \in 1..n /\ i = n + 1
    <3>1. oi = m.oi
      BY <1>1, <1>5, <2>3
    <3> QED
      BY <1>6, <2>3, <3>1
  <2> QED
    BY <1>2, <2>1, <2>2, <2>3
<1>8. ASSUME NEW i \in 1..(n + 1), OiTag \in r[i].tags PROVE after = m.oi
  <2>1. CASE i \in 1..n
    BY <1>1, <1>5, <1>8, <2>1
  <2>2. CASE i = n + 1
    BY <1>6, <1>8, <2>2
  <2> QED
    BY <1>2, <2>1, <2>2
<1>9. Sheet(r, m, after)
  BY <1>3, <1>4, <1>7, <1>8, Zenon DEF Sheet
<1> QED
  BY <1>9 DEF r

LEMMA TurnKeeps ==
    ASSUME NEW so, NEW m, Sheet(so.out, m, so.oi), NEW answer, AnswerOk(answer, m, so.oi),
           NEW t, t = Turn(so, answer, m)
    PROVE  Sheet(t.out, m, t.oi)
<1> DEFINE keep == \A s \in ToSet(answer.setup) : s.type \in Allowed /\ Expected(m, s)
<1>1. /\ t.oi = IF answer.asked THEN OiAfter(m, so.oi) ELSE so.oi
      /\ t.out = so.out \o (IF keep THEN answer.setup ELSE <<>>)
  BY DEF Turn
<1> HIDE DEF keep
<1>2. t.oi \in {so.oi, m.oi} /\ (answer.asked /\ m.oi > 0 => t.oi = m.oi)
  BY <1>1 DEF OiAfter
<1>3. CASE t.out = so.out \o <<>>
  BY <1>2, <1>3, SheetKept
<1>4. CASE answer.setup # <<>> /\ t.out = so.out \o answer.setup
  <2>1. PICK s : answer.setup = <<s>> /\ GoodPlan(s, m) /\ (OiTag \in s.tags => m.oi > 0 /\ m.oi # so.oi)
    BY <1>4 DEF AnswerOk
  <2>2. answer.asked
    BY <1>4 DEF AnswerOk
  <2> QED
    BY <1>2, <1>4, <2>1, <2>2, SheetGrows
<1> QED
  BY <1>1, <1>3, <1>4

LEMMA SwingsKeep ==
    ASSUME NEW m \in Shown
    PROVE  Sheet(SwingsOf(m).out, m, SwingsOf(m).oi)
<1> DEFINE z == [oi |-> prevOi, out |-> <<>>]
           a == Turn(z, SetupA(m, prevOi), m)
           b == Turn(a, SetupB(m, a.oi), m)
           f == Turn(b, SetupF(m, b.oi), m)
           g == Turn(f, SetupG(m, f.oi), m)
<1>1. SwingsOf(m) = g
  BY DEF SwingsOf
<1>2. Sheet(z.out, m, z.oi) /\ z.oi = prevOi
  BY EmptySheet
<1> HIDE DEF z
<1>3. Sheet(a.out, m, a.oi)
  BY <1>2, EvaluatorsAre, TurnKeeps
<1> HIDE DEF a
<1>4. Sheet(b.out, m, b.oi)
  BY <1>3, EvaluatorsAre, TurnKeeps
<1> HIDE DEF b
<1>5. Sheet(f.out, m, f.oi)
  BY <1>4, EvaluatorsAre, TurnKeeps
<1> HIDE DEF f
<1>6. Sheet(g.out, m, g.oi)
  BY <1>5, EvaluatorsAre, TurnKeeps
<1> QED
  BY <1>1, <1>6

\* The quick setup: its stop is the wick, and it has no tags.
LEMMA QuickIs ==
    ASSUME NEW m, SetupD(m) # <<>>
    PROVE  \E s : SetupD(m) = <<s>> /\ GoodPlan(s, m) /\ OiTag \notin s.tags
<1> DEFINE break == Last(m.breaks)
           best  == BestOb(SameSide(m.obs, break.dir), m.price, QuickObDistance)
           ob    == Head(best)
           entry == Into(ob.bodyLow, ob.bodyHigh, break.dir, QuickDepth)
           sl    == Wick(ob, break.dir)
           tps   == TpLevels("d", entry, sl, break.dir, m.swings)
           s == [type |-> "d", dir |-> break.dir, entry |-> entry, sl |-> sl, tp1 |-> tps.tp1,
                 tp2 |-> tps.tp2, ob |-> ob, low |-> ob.bodyLow, high |-> ob.bodyHigh, tags |-> {}]
<1>1. SetupD(m) = <<s>>
  BY DEF SetupD
<1>2. s.type = "d" /\ s.sl = sl /\ s.ob = ob /\ s.dir = break.dir /\ s.tags = {}
  OBVIOUS
<1> HIDE DEF s
<1>3. GoodPlan(s, m)
  BY <1>2 DEF GoodPlan
<1> QED
  BY <1>1, <1>2, <1>3

SoundSheet == market \in Shown /\ BestGeometry /\ StopIsStructural /\ OiBacksOne

LEMMA SheetIsSound ==
    ASSUME market' \in Shown, NEW oi, Sheet(emitted', market', oi)
    PROVE  SoundSheet'
<1>1. PICK S : emitted' \in Seq(S) /\ (\A s \in S : GoodPlan(s, market')) /\ OneBacked(emitted')
  BY DEF Sheet
<1>2. ASSUME NEW s \in ToSet(emitted') PROVE GoodPlan(s, market')
  <2>1. PICK i \in DOMAIN emitted' : s = emitted'[i]
    BY <1>2 DEF ToSet
  <2> QED
    BY <1>1, <2>1, ElementOfSeq
<1>3. \A s : Passing(s)' = PassingIn(s, market')
  BY DEF Passing, PassingIn
<1>4. BestGeometry'
  BY <1>2, <1>3 DEF BestGeometry, GoodPlan, PassingIn, Passing
<1>5. StopIsStructural'
  BY <1>2 DEF StopIsStructural, GoodPlan
<1>6. OiBacksOne'
  <2>1. DOMAIN emitted' = 1..Len(emitted')
    BY <1>1
  <2> QED
    BY <1>1, <2>1 DEF OiBacksOne, OneBacked
<1> QED
  BY <1>4, <1>5, <1>6 DEF SoundSheet

LEMMA SheetStep ==
    ASSUME SoundSheet, SetupsNext
    PROVE  SoundSheet'
<1>1. PICK m \in Follow(market) : Candle(m)
  BY DEF SetupsNext
<1>2. m \in Shown
  BY MarketAssumption DEF SoundSheet
<1>3. market' = m
  BY <1>1 DEF Candle
<1>4. PICK quick \in {IF Cooling(candle + 1) \/ m.bias = "undefined" THEN <<>> ELSE SetupD(m)} :
        emitted' = SwingsOf(m).out \o (IF "d" \in Allowed THEN quick ELSE <<>>)
  BY <1>1 DEF Candle
<1> DEFINE oi == SwingsOf(m).oi
           out == SwingsOf(m).out
<1>5. Sheet(out, m, oi)
  BY <1>2, SwingsKeep
<1>6. quick = <<>> \/ \E s : quick = <<s>> /\ GoodPlan(s, m) /\ OiTag \notin s.tags
  BY <1>4, QuickIs
<1> HIDE DEF oi, out
<1>7. Sheet(emitted', m, oi)
  <2>1. CASE emitted' = out \o <<>>
    BY <1>5, <2>1, SheetKept
  <2>2. ASSUME NEW s, GoodPlan(s, m), OiTag \notin s.tags, emitted' = out \o <<s>> PROVE Sheet(emitted', m, oi)
    BY <1>5, <2>2, SheetGrows
  <2> QED
    BY <1>4, <1>6, <2>1, <2>2 DEF out
<1> QED
  BY <1>2, <1>3, <1>7, SheetIsSound

LEMMA SheetStarts ==
    ASSUME market \in Markets, emitted = <<>>
    PROVE  SoundSheet
<1>1. ToSet(emitted) = {} /\ DOMAIN emitted = {}
  BY DEF ToSet
<1>2. BestGeometry /\ StopIsStructural /\ OiBacksOne
  BY <1>1 DEF BestGeometry, StopIsStructural, OiBacksOne
<1> QED
  BY <1>2 DEF SoundSheet, Shown

-----------------------------------------------------------------------------
\* A setup is the best of its cascade on a structural stop and one change of
\* open interest backs one of them at most (setups.py); an engine's levels are
\* in order, its pullback has not traded at its stop and its benchmarks risk
\* the same (trend_pullback.py); a play of the top-down edge is in order and
\* tells something new (backtest_topdown.py).
PlansInv == SoundSheet /\ EngineInv /\ TdInv

THEOREM PlansAreSound == Spec => []PlansSound
<1>1. Init => PlansInv
  <2> SUFFICES ASSUME Init PROVE PlansInv
    OBVIOUS
  <2>1. SetupsInit /\ EngineInit /\ TdInit
    BY DEF Init
  <2>2. market \in Markets /\ emitted = <<>>
    BY <2>1 DEF SetupsInit
  <2> QED
    BY <2>1, <2>2, SheetStarts, EngineStarts, TdStarts DEF PlansInv
<1>2. PlansInv /\ [Next]_vars => PlansInv'
  <2> SUFFICES ASSUME PlansInv, [Next]_vars PROVE PlansInv'
    OBVIOUS
  <2>1. SoundSheet'
    <3>1. CASE SetupsNext
      BY <3>1, SheetStep DEF PlansInv
    <3>2. CASE UNCHANGED setupVars
      <4>1. market' = market /\ emitted' = emitted
        BY <3>2 DEF setupVars
      <4> QED
        BY <4>1 DEF PlansInv, SoundSheet, BestGeometry, Passing, StopIsStructural, OiBacksOne
    <3> QED
      BY <3>1, <3>2 DEF Next, Idle, vars
  <2>2. EngineInv'
    <3>1. CASE EngineNext
      BY <3>1, EngineStep DEF PlansInv
    <3>2. CASE UNCHANGED engineVars
      <4>1. engineBars' = engineBars /\ bias' = bias /\ engineEmitted' = engineEmitted
        BY <3>2 DEF engineVars
      <4> QED
        BY <4>1 DEF PlansInv, EngineInv, EngineTyped, PullbackHolds, LevelsOrdered, BenchesComparable
    <3> QED
      BY <3>1, <3>2 DEF Next, Idle, vars
  <2>3. TdInv'
    <3>1. CASE TdNext
      BY <3>1, TdStep DEF PlansInv
    <3>2. CASE UNCHANGED tdVars
      <4>1. tape' = tape /\ emissions' = emissions
        BY <3>2 DEF tdVars
      <4> QED
        BY <4>1 DEF PlansInv, TdInv, EmissionsApart
    <3> QED
      BY <3>1, <3>2 DEF Next, Idle, vars
  <2> QED
    BY <2>1, <2>2, <2>3 DEF PlansInv
<1>3. PlansInv => PlansSound
  BY TdOrdered DEF PlansInv, SoundSheet, EngineInv, TdInv, PlansSound
<1> QED
  BY <1>1, <1>2, <1>3, PTL DEF Spec

-----------------------------------------------------------------------------
\* The classifier.

\* A snapshot has every part, missing or with one of its values.
SnapTrue(s) == DOMAIN s = DOMAIN Facts /\ \A f \in DOMAIN Facts : s[f] \in Facts[f] \cup {"no"}
ClassTrue == SnapTrue(snap) /\ dir \in {"long", "short"}

LEMMA SnapParts ==
    ASSUME NEW s, SnapTrue(s)
    PROVE  /\ s.bias4h \in {"no", "bullish", "bearish", "undefined"} /\ s.bias1h \in {"no", "bullish", "bearish", "undefined"}
           /\ s.ob \in {"no", "in", "half", "one", "far"} /\ s.fvg \in {"no", "in", "half", "one", "far"}
           /\ s.sweep \in {"no", "weak", "institutional"}
           /\ s.choch \in {"no", "plain", "strong"} /\ s.bos \in {"no", "plain", "strong"}
           /\ s.cvd \in {"no", "buying", "selling"}
           /\ s.funding \in {"no", "longs pay", "shorts pay", "neutral"} /\ s.oi \in {"no", "calm", "crowded"}
           /\ s.liq \in {"no", "near", "far", "zero"} /\ s.hvn \in {"no", "near", "far", "zero"}
           /\ s.zone \in {"no", "above_va", "inside_va", "below_va"}
           /\ s.absorbs \in {"no", "yes"} /\ s.thrust \in {"no", "yes"} /\ s.flag \in {"no", "yes"}
           /\ s.book \in {"no", "bids", "asks"} /\ s.rsi \in {"no", "bullish", "bearish"}
           /\ s.adx \in {"no", "bullish", "bearish"} /\ s.stoch \in {"no", "bullish", "bearish"}
BY DEF SnapTrue, Facts

LEMMA SnapStep ==
    ASSUME ClassTrue, Learn
    PROVE  ClassTrue'
<1>1. PICK f \in DOMAIN Facts : \E v \in Facts[f] : snap' = [snap EXCEPT ![f] = v]
  BY DEF Learn
<1>2. PICK v \in Facts[f] : snap' = [snap EXCEPT ![f] = v]
  BY <1>1
<1>3. DOMAIN snap' = DOMAIN Facts
  BY <1>2 DEF ClassTrue, SnapTrue
<1>4. \A g \in DOMAIN Facts : snap'[g] \in Facts[g] \cup {"no"}
  BY <1>2 DEF ClassTrue, SnapTrue
<1>5. dir' \in {"long", "short"}
  BY DEF Learn, ClassTrue
<1> QED
  BY <1>3, <1>4, <1>5 DEF ClassTrue, SnapTrue

\* The mirror of a snapshot and of a direction.
MirrorOf(s) == [f \in DOMAIN s |-> Swap(s[f])]
OppositeOf(d) == IF d = "long" THEN "short" ELSE "long"

\* What mirrors: a direction's own word becomes the other direction's, and
\* what names no direction stays.
LEMMA MirrorParts ==
    ASSUME NEW s, SnapTrue(s), NEW d \in {"long", "short"}, NEW t, t = MirrorOf(s), NEW o, o = OppositeOf(d)
    PROVE  /\ t.bias4h = Bias(o) <=> s.bias4h = Bias(d)
           /\ t.bias4h = Against(o) <=> s.bias4h = Against(d)
           /\ t.bias4h = "undefined" <=> s.bias4h = "undefined"
           /\ t.bias1h = Bias(o) <=> s.bias1h = Bias(d)
           /\ t.rsi = Bias(o) <=> s.rsi = Bias(d)
           /\ t.adx = Bias(o) <=> s.adx = Bias(d)
           /\ t.stoch = Bias(o) <=> s.stoch = Bias(d)
           /\ t.cvd = Flows(o) <=> s.cvd = Flows(d)
           /\ t.cvd \notin {"no", Flows(o)} <=> s.cvd \notin {"no", Flows(d)}
           /\ t.funding = Crowd(o) <=> s.funding = Crowd(d)
           /\ t.funding = "neutral" <=> s.funding = "neutral"
           /\ t.book = Stacked(o) <=> s.book = Stacked(d)
           /\ t.zone = Extended(o) <=> s.zone = Extended(d)
           /\ t.zone = "inside_va" <=> s.zone = "inside_va"
           /\ t.zone \in {"above_va", "below_va"} <=> s.zone \in {"above_va", "below_va"}
           /\ t.ob = s.ob /\ t.fvg = s.fvg /\ t.sweep = s.sweep /\ t.choch = s.choch /\ t.bos = s.bos
           /\ t.oi = s.oi /\ t.liq = s.liq /\ t.hvn = s.hvn /\ t.absorbs = s.absorbs /\ t.thrust = s.thrust
           /\ t.flag = s.flag
<1>0. DOMAIN s = DOMAIN Facts
  BY DEF SnapTrue
<1>1. \A f \in DOMAIN Facts : t[f] = Swap(s[f])
  BY <1>0 DEF MirrorOf
<1>2. /\ t.bias4h = Swap(s.bias4h) /\ t.bias1h = Swap(s.bias1h) /\ t.ob = Swap(s.ob) /\ t.fvg = Swap(s.fvg)
      /\ t.sweep = Swap(s.sweep) /\ t.choch = Swap(s.choch) /\ t.bos = Swap(s.bos) /\ t.cvd = Swap(s.cvd)
      /\ t.funding = Swap(s.funding) /\ t.oi = Swap(s.oi) /\ t.liq = Swap(s.liq) /\ t.hvn = Swap(s.hvn)
      /\ t.zone = Swap(s.zone) /\ t.absorbs = Swap(s.absorbs) /\ t.thrust = Swap(s.thrust)
      /\ t.flag = Swap(s.flag) /\ t.book = Swap(s.book) /\ t.rsi = Swap(s.rsi) /\ t.adx = Swap(s.adx)
      /\ t.stoch = Swap(s.stoch)
  BY <1>1 DEF Facts
<1>3. /\ Swap("bullish") = "bearish" /\ Swap("bearish") = "bullish" /\ Swap("buying") = "selling"
      /\ Swap("selling") = "buying" /\ Swap("longs pay") = "shorts pay" /\ Swap("shorts pay") = "longs pay"
      /\ Swap("above_va") = "below_va" /\ Swap("below_va") = "above_va" /\ Swap("bids") = "asks"
      /\ Swap("asks") = "bids"
  BY DEF Swap
<1>4. \A v \in {"no", "undefined", "in", "half", "one", "far", "weak", "institutional", "plain", "strong",
                "neutral", "calm", "crowded", "near", "zero", "inside_va", "yes"} : Swap(v) = v
  BY DEF Swap
<1>5. \/ d = "long" /\ Bias(d) = "bullish" /\ Against(d) = "bearish" /\ Bias(o) = "bearish" /\ Against(o) = "bullish"
      \/ d = "short" /\ Bias(d) = "bearish" /\ Against(d) = "bullish" /\ Bias(o) = "bullish" /\ Against(o) = "bearish"
  BY DEF OppositeOf, Bias, Against
<1>a. ASSUME NEW x, x \in {"no", "undefined", "bullish", "bearish"}
      PROVE  /\ Swap(x) = Bias(o) <=> x = Bias(d)
             /\ Swap(x) = Against(o) <=> x = Against(d)
             /\ Swap(x) = "undefined" <=> x = "undefined"
  BY <1>a, <1>3, <1>4, <1>5, ZenonT(60)
<1>b. ASSUME NEW x, x \in {"no", "buying", "selling"}
      PROVE  /\ Swap(x) = Flows(o) <=> x = Flows(d)
             /\ Swap(x) \notin {"no", Flows(o)} <=> x \notin {"no", Flows(d)}
  BY <1>b, <1>3, <1>4, ZenonT(60) DEF Flows, OppositeOf
<1>c. ASSUME NEW x, x \in {"no", "longs pay", "shorts pay", "neutral"}
      PROVE  /\ Swap(x) = Crowd(o) <=> x = Crowd(d)
             /\ Swap(x) = "neutral" <=> x = "neutral"
  BY <1>c, <1>3, <1>4 DEF Crowd, OppositeOf
<1>d. ASSUME NEW x, x \in {"no", "bids", "asks"}
      PROVE  Swap(x) = Stacked(o) <=> x = Stacked(d)
  BY <1>d, <1>3, <1>4 DEF Stacked, OppositeOf
<1>e. ASSUME NEW x, x \in {"no", "above_va", "inside_va", "below_va"}
      PROVE  /\ Swap(x) = Extended(o) <=> x = Extended(d)
             /\ Swap(x) = "inside_va" <=> x = "inside_va"
             /\ Swap(x) \in {"above_va", "below_va"} <=> x \in {"above_va", "below_va"}
  BY <1>e, <1>3, <1>4 DEF Extended, OppositeOf
<1>f. /\ s.bias4h \in {"no", "undefined", "bullish", "bearish"} /\ s.bias1h \in {"no", "undefined", "bullish", "bearish"}
      /\ s.rsi \in {"no", "undefined", "bullish", "bearish"} /\ s.adx \in {"no", "undefined", "bullish", "bearish"}
      /\ s.stoch \in {"no", "undefined", "bullish", "bearish"}
      /\ s.cvd \in {"no", "buying", "selling"} /\ s.funding \in {"no", "longs pay", "shorts pay", "neutral"}
      /\ s.book \in {"no", "bids", "asks"} /\ s.zone \in {"no", "above_va", "inside_va", "below_va"}
  BY SnapParts, ZenonT(60)
<1> DEFINE Plain == {"no", "undefined", "in", "half", "one", "far", "weak", "institutional", "plain", "strong",
                     "neutral", "calm", "crowded", "near", "zero", "inside_va", "yes"}
<1>g. /\ s.ob \in Plain /\ s.fvg \in Plain /\ s.sweep \in Plain /\ s.choch \in Plain /\ s.bos \in Plain
      /\ s.oi \in Plain /\ s.liq \in Plain /\ s.hvn \in Plain /\ s.absorbs \in Plain /\ s.thrust \in Plain
      /\ s.flag \in Plain
  <2>0. /\ s.ob \in {"no", "in", "half", "one", "far"} /\ s.fvg \in {"no", "in", "half", "one", "far"}
        /\ s.sweep \in {"no", "weak", "institutional"}
        /\ s.choch \in {"no", "plain", "strong"} /\ s.bos \in {"no", "plain", "strong"}
        /\ s.oi \in {"no", "calm", "crowded"}
        /\ s.liq \in {"no", "near", "far", "zero"} /\ s.hvn \in {"no", "near", "far", "zero"}
        /\ s.absorbs \in {"no", "yes"} /\ s.thrust \in {"no", "yes"} /\ s.flag \in {"no", "yes"}
    BY SnapParts
  <2> HIDE DEF Plain
  <2>1. /\ {"no", "in", "half", "one", "far"} \subseteq Plain /\ {"no", "weak", "institutional"} \subseteq Plain
        /\ {"no", "plain", "strong"} \subseteq Plain /\ {"no", "calm", "crowded"} \subseteq Plain
        /\ {"no", "near", "far", "zero"} \subseteq Plain /\ {"no", "yes"} \subseteq Plain
    BY DEF Plain
  <2> QED
    BY <2>0, <2>1, Zenon
<1>h. \A v \in Plain : Swap(v) = v
  BY <1>4
<1> HIDE DEF Plain
<1>6. /\ t.bias4h = Bias(o) <=> s.bias4h = Bias(d)
      /\ t.bias4h = Against(o) <=> s.bias4h = Against(d)
      /\ t.bias4h = "undefined" <=> s.bias4h = "undefined"
      /\ t.bias1h = Bias(o) <=> s.bias1h = Bias(d)
  <2>1. s.bias4h \in {"no", "undefined", "bullish", "bearish"} /\ t.bias4h = Swap(s.bias4h)
    BY <1>2, <1>f, Zenon
  <2>2. s.bias1h \in {"no", "undefined", "bullish", "bearish"} /\ t.bias1h = Swap(s.bias1h)
    BY <1>2, <1>f, Zenon
  <2>3. t.bias4h = Bias(o) <=> s.bias4h = Bias(d)
    BY <1>a, <2>1, Zenon
  <2>4. t.bias4h = Against(o) <=> s.bias4h = Against(d)
    BY <1>a, <2>1, Zenon
  <2>5. t.bias4h = "undefined" <=> s.bias4h = "undefined"
    BY <1>a, <2>1, Zenon
  <2>6. t.bias1h = Bias(o) <=> s.bias1h = Bias(d)
    BY <1>a, <2>2, Zenon
  <2> QED
    BY <2>3, <2>4, <2>5, <2>6, Zenon
<1>7. t.rsi = Bias(o) <=> s.rsi = Bias(d)
  BY <1>2, <1>a, <1>f, ZenonT(60)
<1>7a. t.adx = Bias(o) <=> s.adx = Bias(d)
  BY <1>2, <1>a, <1>f, ZenonT(60)
<1>7b. t.stoch = Bias(o) <=> s.stoch = Bias(d)
  BY <1>2, <1>a, <1>f, ZenonT(60)
<1>8. /\ t.cvd = Flows(o) <=> s.cvd = Flows(d)
      /\ t.cvd \notin {"no", Flows(o)} <=> s.cvd \notin {"no", Flows(d)}
  <2>1. s.cvd \in {"no", "buying", "selling"} /\ t.cvd = Swap(s.cvd)
    BY <1>2, <1>f, Zenon
  <2> QED
    BY <2>1, <1>b
<1>9. /\ t.funding = Crowd(o) <=> s.funding = Crowd(d)
      /\ t.funding = "neutral" <=> s.funding = "neutral"
      /\ t.book = Stacked(o) <=> s.book = Stacked(d)
  BY <1>2, <1>c, <1>d, <1>f, ZenonT(60)
<1>10. /\ t.zone = Extended(o) <=> s.zone = Extended(d)
       /\ t.zone = "inside_va" <=> s.zone = "inside_va"
  <2>1. s.zone \in {"no", "above_va", "inside_va", "below_va"} /\ t.zone = Swap(s.zone)
    BY <1>2, <1>f, Zenon
  <2> QED
    BY <2>1, <1>e, Zenon
<1>10a. t.zone \in {"above_va", "below_va"} <=> s.zone \in {"above_va", "below_va"}
  <2>1. s.zone \in {"no", "above_va", "inside_va", "below_va"} /\ t.zone = Swap(s.zone)
    BY <1>2, <1>f, Zenon
  <2> QED
    BY <2>1, <1>e, Zenon
<1>11. /\ t.ob = s.ob /\ t.fvg = s.fvg /\ t.sweep = s.sweep /\ t.choch = s.choch /\ t.bos = s.bos
       /\ t.oi = s.oi /\ t.liq = s.liq /\ t.hvn = s.hvn /\ t.absorbs = s.absorbs /\ t.thrust = s.thrust
       /\ t.flag = s.flag
  BY <1>2, <1>g, <1>h, Zenon
<1> QED
  BY <1>6, <1>7, <1>7a, <1>7b, <1>8, <1>9, <1>10, <1>10a, <1>11, Zenon

LEMMA MirrorScores ==
    ASSUME NEW s, SnapTrue(s), NEW d \in {"long", "short"}, NEW t, t = MirrorOf(s), NEW o, o = OppositeOf(d)
    PROVE  /\ Confluences(t, o) = Confluences(s, d)
           /\ Detractors(t, o) = Detractors(s, d)
<1> DEFINE counts(x, e) ==
                  [bias4h  |-> Aligned(x, e),      bias1h  |-> x.bias1h = Bias(e),
                   ob      |-> NearOb(x),          fvg     |-> x.fvg \in {"in", "half", "one"},
                   sweep   |-> x.sweep # "no",     choch   |-> x.choch # "no",
                   bos     |-> x.bos # "no",       cvd     |-> x.cvd = Flows(e),
                   funding |-> x.funding = "neutral", oi   |-> x.oi = "calm",
                   liq     |-> x.liq = "near",     zone    |-> x.zone = "inside_va",
                   hvn     |-> x.hvn = "near",     absorbs |-> x.absorbs = "yes",
                   thrust  |-> x.thrust = "yes",   book    |-> x.book = Stacked(e),
                   rsi     |-> x.rsi = Bias(e),    adx     |-> x.adx = Bias(e),
                   stoch   |-> x.stoch = Bias(e)]
           twice(x) == {f \in {"choch", "bos"} : x[f] = "strong"} \cup {f \in {"sweep"} : x[f] = "institutional"}
<1>1. /\ Aligned(t, o) <=> Aligned(s, d)
      /\ NearOb(t) <=> NearOb(s)
  BY MirrorParts DEF Aligned, NearOb
<1>m. /\ t.bias1h = Bias(o) <=> s.bias1h = Bias(d)
      /\ t.rsi = Bias(o) <=> s.rsi = Bias(d)
      /\ t.adx = Bias(o) <=> s.adx = Bias(d)
      /\ t.stoch = Bias(o) <=> s.stoch = Bias(d)
      /\ t.cvd = Flows(o) <=> s.cvd = Flows(d)
      /\ t.funding = "neutral" <=> s.funding = "neutral"
      /\ t.book = Stacked(o) <=> s.book = Stacked(d)
      /\ t.zone = "inside_va" <=> s.zone = "inside_va"
      /\ t.fvg = s.fvg /\ t.sweep = s.sweep /\ t.choch = s.choch /\ t.bos = s.bos
      /\ t.oi = s.oi /\ t.liq = s.liq /\ t.hvn = s.hvn /\ t.absorbs = s.absorbs /\ t.thrust = s.thrust
  BY MirrorParts
<1> DEFINE Names == {"bias4h", "bias1h", "ob", "fvg", "sweep", "choch", "bos", "cvd", "funding", "oi", "liq",
                     "zone", "hvn", "absorbs", "thrust", "book", "rsi", "adx", "stoch"}
<1>2. {f \in DOMAIN counts(t, o) : counts(t, o)[f]} = {f \in DOMAIN counts(s, d) : counts(s, d)[f]}
  <2>1. DOMAIN counts(t, o) = Names /\ DOMAIN counts(s, d) = Names
    OBVIOUS
  <2>2. \A f \in Names : counts(t, o)[f] <=> counts(s, d)[f]
    <3>1. counts(t, o).bias4h <=> counts(s, d).bias4h
      BY <1>1, <1>m
    <3>2. counts(t, o).bias1h <=> counts(s, d).bias1h
      BY <1>1, <1>m
    <3>3. counts(t, o).ob <=> counts(s, d).ob
      BY <1>1, <1>m
    <3>4. counts(t, o).fvg <=> counts(s, d).fvg
      BY <1>1, <1>m
    <3>5. counts(t, o).sweep <=> counts(s, d).sweep
      BY <1>1, <1>m
    <3>6. counts(t, o).choch <=> counts(s, d).choch
      BY <1>1, <1>m
    <3>7. counts(t, o).bos <=> counts(s, d).bos
      BY <1>1, <1>m
    <3>8. counts(t, o).cvd <=> counts(s, d).cvd
      BY <1>1, <1>m
    <3>9. counts(t, o).funding <=> counts(s, d).funding
      BY <1>1, <1>m
    <3>10. counts(t, o).oi <=> counts(s, d).oi
      BY <1>1, <1>m
    <3>11. counts(t, o).liq <=> counts(s, d).liq
      BY <1>1, <1>m
    <3>12. counts(t, o).zone <=> counts(s, d).zone
      BY <1>1, <1>m
    <3>13. counts(t, o).hvn <=> counts(s, d).hvn
      BY <1>1, <1>m
    <3>14. counts(t, o).absorbs <=> counts(s, d).absorbs
      BY <1>1, <1>m
    <3>15. counts(t, o).thrust <=> counts(s, d).thrust
      BY <1>1, <1>m
    <3>16. counts(t, o).book <=> counts(s, d).book
      BY <1>1, <1>m
    <3>17. counts(t, o).rsi <=> counts(s, d).rsi
      BY <1>1, <1>m
    <3>18. counts(t, o).adx <=> counts(s, d).adx
      BY <1>1, <1>m
    <3>19. counts(t, o).stoch <=> counts(s, d).stoch
      BY <1>1, <1>m
    <3> QED
      BY <3>1, <3>2, <3>3, <3>4, <3>5, <3>6, <3>7, <3>8, <3>9, <3>10, <3>11, <3>12, <3>13, <3>14, <3>15, <3>16, <3>17, <3>18, <3>19
  <2> HIDE DEF counts, Names
  <2> QED
    BY <2>1, <2>2
<1>3. twice(t) = twice(s)
  BY <1>m
<1>4. /\ Confluences(t, o) = Cardinality({f \in DOMAIN counts(t, o) : counts(t, o)[f]}) + Cardinality(twice(t))
      /\ Confluences(s, d) = Cardinality({f \in DOMAIN counts(s, d) : counts(s, d)[f]}) + Cardinality(twice(s))
  BY DEF Confluences
<1>5. Confluences(t, o) = Confluences(s, d)
  <2> HIDE DEF counts, twice
  <2> QED
    BY <1>2, <1>3, <1>4, Zenon
<1>6. Detractors(t, o) = Detractors(s, d)
  BY MirrorParts DEF Detractors
<1> QED
  BY <1>5, <1>6

\* The score, the grade, the type and the chain of the mirror are the same.
LEMMA FavoursNone ==
    ASSUME ClassTrue
    PROVE  NoFavouriteSide
<1>0. SnapTrue(snap) /\ dir \in {"long", "short"} /\ Turned = MirrorOf(snap) /\ Other = OppositeOf(dir)
  BY DEF ClassTrue, Turned, Other, MirrorOf, OppositeOf
<1> DEFINE t == Turned
           o == Other
<1>1. Confluences(t, o) = Confluences(snap, dir) /\ Detractors(t, o) = Detractors(snap, dir)
  BY <1>0, MirrorScores
<1>2. /\ Aligned(t, o) <=> Aligned(snap, dir)
      /\ t.zone = Extended(o) <=> snap.zone = Extended(dir)
      /\ t.bias1h = Bias(o) <=> snap.bias1h = Bias(dir)
      /\ t.bias4h = "undefined" <=> snap.bias4h = "undefined"
      /\ t.zone \in {"above_va", "below_va"} <=> snap.zone \in {"above_va", "below_va"}
      /\ t.ob = snap.ob /\ t.fvg = snap.fvg /\ t.sweep = snap.sweep /\ t.choch = snap.choch /\ t.bos = snap.bos
      /\ t.hvn = snap.hvn /\ t.thrust = snap.thrust
  BY <1>0, MirrorParts DEF Aligned
<1> HIDE DEF t, o
<1>3. Score(t, o) = Score(snap, dir)
  BY <1>1 DEF Score
<1>4. Grade(t, o) = Grade(snap, dir)
  BY <1>3 DEF Grade
<1>5. SetupType(t, o) = SetupType(snap, dir)
  BY <1>2 DEF SetupType, NearOb
<1>6. Structure(t, o) = Structure(snap, dir)
  BY <1>2 DEF Structure
<1>7. KeyLevel(t) <=> KeyLevel(snap)
  BY <1>2 DEF KeyLevel
<1>8. Trigger(t) = Trigger(snap)
  BY <1>2 DEF Trigger
<1>9. Factors(t, o) = Factors(snap, dir)
  BY <1>1, <1>2, <1>7, <1>8 DEF Factors
<1> QED
  BY <1>3, <1>4, <1>5, <1>6, <1>9 DEF t, o, NoFavouriteSide

\* A type names the trigger of its chain.
LEMMA TypesTrue ==
    ASSUME ClassTrue
    PROVE  TypesAgree
<1>1. SetupType(snap, dir) = "B_sweep" => Trigger(snap) = "sweep_reclaim" /\ KeyLevel(snap)
  BY DEF SetupType, Trigger, KeyLevel
<1>2. SetupType(snap, dir) = "D_choch" => Trigger(snap) = "choch" /\ Structure(snap, dir) \in {"reversal", "range"}
  BY DEF SetupType, Trigger, Structure
<1>3. SetupType(snap, dir) = "D_bos" => Trigger(snap) = "bos" /\ "htf" \notin Factors(snap, dir)
  BY DEF SetupType, Trigger, Factors
<1>4. "htf" \in Factors(snap, dir) => "bias4h" \notin Detractors(snap, dir)
  <2>1. "htf" \in Factors(snap, dir) <=> Aligned(snap, dir)
    BY DEF Factors
  <2>2. "bias4h" \in Detractors(snap, dir) <=> snap.bias4h = Against(dir)
    BY DEF Detractors
  <2>3. Bias(dir) # Against(dir)
    BY DEF Bias, Against
  <2> QED
    BY <2>1, <2>2, <2>3 DEF Aligned
<1>5. "location" \in Factors(snap, dir) => "zone" \notin Detractors(snap, dir)
  <2>1. "location" \in Factors(snap, dir) <=> KeyLevel(snap) /\ snap.zone # Extended(dir)
    BY DEF Factors
  <2>2. "zone" \in Detractors(snap, dir) <=> snap.zone = Extended(dir)
    BY DEF Detractors
  <2> QED
    BY <2>1, <2>2
<1> QED
  BY <1>1, <1>2, <1>3, <1>4, <1>5 DEF TypesAgree

-----------------------------------------------------------------------------
\* The scalp signals, upside down.

ScalpTrue == scalpBars \in Seq(ScalpBars) /\ scalpMarket \in ScalpMarkets

LEMMA ScalpTyped ==
    ASSUME ScalpTrue, ScalpNext
    PROVE  ScalpTrue'
<1>1. scalpMarket' = scalpMarket
  BY DEF ScalpNext, BarEnds, ShortConfirmed, LongConfirmed, Seconds, FlushSeen
<1>2. scalpBars' = scalpBars \/ \E c \in ScalpBars : scalpBars' = Append(scalpBars, c)
  BY DEF ScalpNext, BarEnds, ShortConfirmed, LongConfirmed, Seconds, FlushSeen
<1> QED
  BY <1>1, <1>2 DEF ScalpTrue

\* T is S turned about p.
About(p, S, T) == (\A x \in S : p - x \in T) /\ \A y \in T : p - y \in S

\* The greatest of what is turned about p is the turned least, and so on.
LEMMA TurnedEnds ==
    ASSUME NEW p \in Int, NEW S \in SUBSET Int, IsFiniteSet(S), S # {}, NEW T \in SUBSET Int, IsFiniteSet(T),
           About(p, S, T)
    PROVE  /\ Max(T) = p - Min(S) /\ Min(T) = p - Max(S)
           /\ Max(S) \in Int /\ Min(S) \in Int
<1>1. Max(S) \in S /\ (\A x \in S : x <= Max(S)) /\ Min(S) \in S /\ (\A x \in S : Min(S) <= x)
  BY MaxIs, MinIs
<1>2. T # {}
  BY <1>1 DEF About
<1>3. Max(T) \in T /\ (\A x \in T : x <= Max(T)) /\ Min(T) \in T /\ (\A x \in T : Min(T) <= x)
  BY <1>2, MaxIs, MinIs
<1>4. /\ p - Min(S) <= Max(T) /\ Min(S) <= p - Max(T)
      /\ Min(T) <= p - Max(S) /\ p - Min(T) <= Max(S)
  BY <1>1, <1>3 DEF About
<1>5. Max(S) \in Int /\ Min(S) \in Int /\ Max(T) \in Int /\ Min(T) \in Int
  BY <1>1, <1>3
<1> QED
  BY <1>4, <1>5

\* A turned bar.
LEMMA UpsideIs ==
    ASSUME NEW c \in ScalpBars, NEW p \in Int, NEW u, u = Upside(c, p)
    PROVE  /\ u.open = p - c.open /\ u.close = p - c.close /\ u.high = p - c.low /\ u.low = p - c.high
           /\ u.volume = c.volume
           /\ c.open \in Int /\ c.close \in Int /\ c.high \in Int /\ c.low \in Int
<1>1. c \in [open : Int, high : Int, low : Int, close : Int, volume : Int]
  BY ScalpAssumption
<1> QED
  BY <1>1 DEF Upside

\* Turning swaps the wicks.
LEMMA WicksTurn ==
    ASSUME NEW c \in ScalpBars, NEW p \in Int, NEW u, u = Upside(c, p)
    PROVE  Lower(u) = Upper(c) /\ Upper(u) = Lower(c) /\ Lower(c) \in Int /\ Upper(c) \in Int
<1> DEFINE S == {c.open, c.close}
           T == {u.open, u.close}
<1>1. /\ u.open = p - c.open /\ u.close = p - c.close /\ u.high = p - c.low /\ u.low = p - c.high
      /\ c.open \in Int /\ c.close \in Int /\ c.high \in Int /\ c.low \in Int
  BY UpsideIs
<1>2. /\ IsFiniteSet(S) /\ S \in SUBSET Int /\ S # {}
      /\ IsFiniteSet(T) /\ T \in SUBSET Int
  <2>1. u.open \in Int /\ u.close \in Int
    BY <1>1
  <2>2. IsFiniteSet(S) /\ IsFiniteSet(T)
    BY PairIsFinite, Zenon
  <2> QED
    BY <1>1, <2>1, <2>2
<1>3. About(p, S, T)
  <2>1. p - c.open = u.open /\ p - c.close = u.close /\ p - u.open = c.open /\ p - u.close = c.close
    BY <1>1
  <2> QED
    BY <2>1, Zenon DEF About
<1>4. Max(T) = p - Min(S) /\ Min(T) = p - Max(S) /\ Max(S) \in Int /\ Min(S) \in Int
  <2> HIDE DEF S, T
  <2> QED
    BY <1>2, <1>3, TurnedEnds
<1>5. /\ Lower(u) = Min(T) - u.low /\ Upper(u) = u.high - Max(T)
      /\ Lower(c) = Min(S) - c.low /\ Upper(c) = c.high - Max(S)
  BY DEF Lower, Upper
<1> HIDE DEF S, T
<1> QED
  BY <1>1, <1>4, <1>5

LEMMA ReclaimTurns ==
    ASSUME NEW c \in ScalpBars, NEW u, u = Upside(c, 2 * c.close)
    PROVE  WickReclaim(u) = OtherSide(WickReclaim(c))
<1>1. c.close \in Int /\ 2 * c.close \in Int
  BY ScalpAssumption
<1>2. u.close = c.close
  <2>1. u.close = 2 * c.close - c.close
    BY <1>1, UpsideIs
  <2> QED
    BY <1>1, <2>1
<1>3. Lower(u) = Upper(c) /\ Upper(u) = Lower(c) /\ Lower(c) \in Int /\ Upper(c) \in Int
  BY <1>1, WicksTurn
<1> DEFINE long == Lower(c) * 1000 >= WickNum * c.close /\ Lower(c) > Upper(c)
           short == Upper(c) * 1000 >= WickNum * c.close /\ Upper(c) > Lower(c)
<1>4. ~(long /\ short)
  BY <1>3
<1>5. WickReclaim(c) = Dir(long, short) /\ WickReclaim(u) = Dir(short, long)
  BY <1>2, <1>3 DEF WickReclaim
<1> HIDE DEF long, short
<1> QED
  BY <1>4, <1>5 DEF Dir, OtherSide

LEMMA BarsTyped == \A c \in ScalpBars : c.open \in Int /\ c.close \in Int /\ c.high \in Int /\ c.low \in Int
BY ScalpAssumption
LEMMA SizesPositive ==
    Envelope \in Nat \ {0} /\ VolBars \in Nat \ {0} /\ FlatBars \in Nat \ {0} /\ FundingMin \in Nat \ {0}
BY ScalpAssumption

LEMMA UpsideFields ==
    \A c \in ScalpBars, p \in Int :
        /\ Upside(c, p).open = p - c.open /\ Upside(c, p).close = p - c.close
        /\ Upside(c, p).high = p - c.low /\ Upside(c, p).low = p - c.high
        /\ Upside(c, p).volume = c.volume
BY UpsideIs

\* The candles turned about p.
UpsideAll(cs, p) == [i \in DOMAIN cs |-> Upside(cs[i], p)]

LEMMA UpsideAllIs ==
    ASSUME NEW cs \in Seq(ScalpBars), NEW p \in Int
    PROVE  /\ Len(UpsideAll(cs, p)) = Len(cs) /\ Len(cs) \in Nat
           /\ \A i \in 1..Len(cs) : cs[i] \in ScalpBars /\ UpsideAll(cs, p)[i] = Upside(cs[i], p)
<1>1. Len(cs) \in Nat /\ DOMAIN cs = 1..Len(cs)
  OBVIOUS
<1> DEFINE ts == UpsideAll(cs, p)
<1>2. ts = [i \in 1..Len(cs) |-> Upside(cs[i], p)]
  BY <1>1 DEF UpsideAll
<1>3. DOMAIN ts = 1..Len(cs) /\ Len(ts) = Len(cs)
  <2>1. ts \in [1..Len(cs) -> {Upside(cs[i], p) : i \in 1..Len(cs)}]
    BY <1>2
  <2> QED
    BY <1>1, <2>1, LenProperties
<1> QED
  BY <1>1, <1>2, <1>3, ElementOfSeq

LEMMA TurnedBar ==
    ASSUME NEW cs \in Seq(ScalpBars), NEW p \in Int, NEW i \in 1..Len(cs), NEW u, u = UpsideAll(cs, p)[i],
           NEW c, c = cs[i]
    PROVE  /\ c \in ScalpBars
           /\ u.open = p - c.open /\ u.close = p - c.close
           /\ u.high = p - c.low /\ u.low = p - c.high /\ u.volume = c.volume
           /\ c.open \in Int /\ c.close \in Int /\ c.high \in Int /\ c.low \in Int
<1>1. c \in ScalpBars /\ u = Upside(c, p)
  BY UpsideAllIs, Zenon
<1>2. /\ Upside(c, p).open = p - c.open /\ Upside(c, p).close = p - c.close
      /\ Upside(c, p).high = p - c.low /\ Upside(c, p).low = p - c.high
      /\ Upside(c, p).volume = c.volume
  BY <1>1, UpsideFields
<1>3. c.open \in Int /\ c.close \in Int /\ c.high \in Int /\ c.low \in Int
  BY <1>1, BarsTyped
<1> QED
  BY <1>1, <1>2, <1>3

\* The values of a function over an interval.
Spans(f, a, b, S) == (\A i \in a..b : f[i] \in Int /\ f[i] \in S) /\ \A x \in S : \E i \in a..b : x = f[i]

LEMMA SpanIs ==
    ASSUME NEW a \in Int, NEW b \in Int, a <= b, NEW f, NEW S, Spans(f, a, b, S)
    PROVE  S \in SUBSET Int /\ IsFiniteSet(S) /\ S # {}
<1>1. IsFiniteSet({f[i] : i \in a..b})
  BY SpanIsFinite
<1>2. S = {f[i] : i \in a..b}
  BY DEF Spans
<1>3. S \in SUBSET Int
  BY DEF Spans
<1>4. a \in a..b
  OBVIOUS
<1> QED
  BY <1>1, <1>2, <1>3, <1>4

\* The range of some candles in a row.
TopOf(cs, a, b) == Max({q.high : q \in {cs[i] : i \in a..b}})
FloorOf(cs, a, b) == Min({q.low : q \in {cs[i] : i \in a..b}})

LEMMA RangeTurns ==
    ASSUME NEW cs \in Seq(ScalpBars), NEW p \in Int, NEW ts, ts = UpsideAll(cs, p),
           NEW a \in 1..Len(cs), NEW b \in a..Len(cs)
    PROVE  /\ TopOf(ts, a, b) = p - FloorOf(cs, a, b) /\ FloorOf(ts, a, b) = p - TopOf(cs, a, b)
           /\ FloorOf(cs, a, b) \in Int /\ TopOf(cs, a, b) \in Int
<1> DEFINE L == {q.low : q \in {cs[i] : i \in a..b}}
           H == {q.high : q \in {cs[i] : i \in a..b}}
           M == {q.high : q \in {ts[i] : i \in a..b}}
           K == {q.low : q \in {ts[i] : i \in a..b}}
<1>0. a..b \subseteq 1..Len(cs) /\ a <= b /\ a \in Int /\ b \in Int
  <2>1. Len(cs) \in Nat
    OBVIOUS
  <2> QED
    BY <2>1
<1>1. \A i \in 1..Len(cs) : /\ ts[i].high = p - cs[i].low /\ ts[i].low = p - cs[i].high
                            /\ cs[i].low \in Int /\ cs[i].high \in Int
                            /\ ts[i].low \in Int /\ ts[i].high \in Int
  <2> SUFFICES ASSUME NEW i \in 1..Len(cs)
               PROVE  /\ ts[i].high = p - cs[i].low /\ ts[i].low = p - cs[i].high
                      /\ cs[i].low \in Int /\ cs[i].high \in Int
                      /\ ts[i].low \in Int /\ ts[i].high \in Int
    OBVIOUS
  <2>1. PICK u : u = UpsideAll(cs, p)[i]
    OBVIOUS
  <2>2. PICK c : c = cs[i]
    OBVIOUS
  <2>3. u.high = p - c.low /\ u.low = p - c.high /\ c.low \in Int /\ c.high \in Int
    BY <2>1, <2>2, TurnedBar
  <2>4. u.high \in Int /\ u.low \in Int
    BY <2>3
  <2> QED
    BY <2>1, <2>2, <2>3, <2>4
<1>2. \A i \in a..b : /\ ts[i].high = p - cs[i].low /\ ts[i].low = p - cs[i].high
                      /\ cs[i].low \in Int /\ cs[i].high \in Int
                      /\ ts[i].low \in Int /\ ts[i].high \in Int
  BY <1>0, <1>1, Zenon
<1>3. PICK low : low = [i \in a..b |-> cs[i].low]
  OBVIOUS
<1>4. PICK high : high = [i \in a..b |-> cs[i].high]
  OBVIOUS
<1>5. PICK low2 : low2 = [i \in a..b |-> ts[i].low]
  OBVIOUS
<1>6. PICK high2 : high2 = [i \in a..b |-> ts[i].high]
  OBVIOUS
<1>7. \A i \in a..b : /\ low[i] = cs[i].low /\ high[i] = cs[i].high
                      /\ low2[i] = ts[i].low /\ high2[i] = ts[i].high
  BY <1>3, <1>4, <1>5, <1>6
<1>8. (\A i \in a..b : cs[i].low \in L) /\ \A x \in L : \E i \in a..b : x = cs[i].low
  OBVIOUS
<1>8a. (\A i \in a..b : cs[i].high \in H) /\ \A x \in H : \E i \in a..b : x = cs[i].high
  OBVIOUS
<1>8b. (\A i \in a..b : ts[i].low \in K) /\ \A x \in K : \E i \in a..b : x = ts[i].low
  OBVIOUS
<1>8c. (\A i \in a..b : ts[i].high \in M) /\ \A x \in M : \E i \in a..b : x = ts[i].high
  OBVIOUS
<1> HIDE DEF L, H, M, K
<1>9. \A i \in a..b : /\ low[i] \in Int /\ high[i] \in Int /\ low2[i] \in Int /\ high2[i] \in Int
  BY <1>2, <1>7, Zenon
<1>10. L \in SUBSET Int /\ IsFiniteSet(L) /\ L # {}
  <2>1. \A i \in a..b : low[i] \in Int /\ low[i] \in L
    BY <1>7, <1>8, <1>9, Zenon
  <2>2. \A x \in L : \E i \in a..b : x = low[i]
    BY <1>7, <1>8, ZenonT(60)
  <2>3. Spans(low, a, b, L)
    BY <2>1, <2>2, Zenon DEF Spans
  <2> QED
    BY <1>0, <2>3, SpanIs
<1>11. H \in SUBSET Int /\ IsFiniteSet(H) /\ H # {}
  <2>1. \A i \in a..b : high[i] \in Int /\ high[i] \in H
    BY <1>7, <1>8a, <1>9
  <2>2. \A x \in H : \E i \in a..b : x = high[i]
    BY <1>7, <1>8a, ZenonT(60)
  <2>3. Spans(high, a, b, H)
    BY <2>1, <2>2, Zenon DEF Spans
  <2> QED
    BY <1>0, <2>3, SpanIs
<1>12. K \in SUBSET Int /\ IsFiniteSet(K) /\ K # {}
  <2>1. \A i \in a..b : low2[i] \in Int /\ low2[i] \in K
    BY <1>7, <1>8b, <1>9, Zenon
  <2>2. \A x \in K : \E i \in a..b : x = low2[i]
    BY <1>7, <1>8b
  <2>3. Spans(low2, a, b, K)
    BY <2>1, <2>2, Zenon DEF Spans
  <2> QED
    BY <1>0, <2>3, SpanIs
<1>13. M \in SUBSET Int /\ IsFiniteSet(M) /\ M # {}
  <2>1. \A i \in a..b : high2[i] \in Int /\ high2[i] \in M
    BY <1>7, <1>8c, <1>9, Zenon
  <2>2. \A x \in M : \E i \in a..b : x = high2[i]
    BY <1>7, <1>8c
  <2>3. Spans(high2, a, b, M)
    BY <2>1, <2>2, Zenon DEF Spans
  <2> QED
    BY <1>0, <2>3, SpanIs
<1>14. About(p, L, M)
  <2>1. ASSUME NEW x \in L PROVE p - x \in M
    <3>1. PICK i \in a..b : x = cs[i].low
      BY <1>8
    <3>2. p - x = ts[i].high
      BY <1>2, <3>1
    <3> QED
      BY <1>8c, <3>2
  <2>2. ASSUME NEW y \in M PROVE p - y \in L
    <3>1. PICK i \in a..b : y = ts[i].high
      BY <1>8c
    <3>2. p - y = cs[i].low
      BY <1>2, <3>1
    <3> QED
      BY <1>8, <3>2
  <2> QED
    BY <2>1, <2>2 DEF About
<1>15. About(p, H, K)
  <2>1. ASSUME NEW x \in H PROVE p - x \in K
    <3>1. PICK i \in a..b : x = cs[i].high
      BY <1>8a
    <3>2. p - x = ts[i].low
      BY <1>2, <3>1
    <3> QED
      BY <1>8b, <3>2
  <2>2. ASSUME NEW y \in K PROVE p - y \in H
    <3>1. PICK i \in a..b : y = ts[i].low
      BY <1>8b
    <3>2. p - y = cs[i].high
      BY <1>2, <3>1
    <3> QED
      BY <1>8a, <3>2
  <2> QED
    BY <2>1, <2>2 DEF About
<1>16. Max(M) = p - Min(L) /\ Min(L) \in Int
  BY <1>10, <1>13, <1>14, TurnedEnds
<1>17. Min(K) = p - Max(H) /\ Max(H) \in Int
  BY <1>11, <1>12, <1>15, TurnedEnds
<1>18. TopOf(ts, a, b) = Max(M) /\ FloorOf(ts, a, b) = Min(K) /\ TopOf(cs, a, b) = Max(H) /\ FloorOf(cs, a, b) = Min(L)
  BY Zenon DEF L, H, M, K, TopOf, FloorOf
<1> QED
  BY <1>16, <1>17, <1>18, Zenon

\* The candles as a whole, bar by bar.
Turns(ts, cs, p) ==
    \A i \in 1..Len(cs) :
        /\ ts[i].open = p - cs[i].open /\ ts[i].close = p - cs[i].close
        /\ ts[i].high = p - cs[i].low /\ ts[i].low = p - cs[i].high /\ ts[i].volume = cs[i].volume
        /\ cs[i].open \in Int /\ cs[i].close \in Int /\ cs[i].high \in Int /\ cs[i].low \in Int

LEMMA BarsTurn ==
    ASSUME NEW cs \in Seq(ScalpBars), NEW p \in Int, NEW ts, ts = UpsideAll(cs, p)
    PROVE  Turns(ts, cs, p)
<1> SUFFICES ASSUME NEW i \in 1..Len(cs)
             PROVE  /\ ts[i].open = p - cs[i].open /\ ts[i].close = p - cs[i].close
                    /\ ts[i].high = p - cs[i].low /\ ts[i].low = p - cs[i].high /\ ts[i].volume = cs[i].volume
                    /\ cs[i].open \in Int /\ cs[i].close \in Int /\ cs[i].high \in Int /\ cs[i].low \in Int
  BY DEF Turns
<1>1. PICK u : u = UpsideAll(cs, p)[i]
  OBVIOUS
<1>2. PICK c : c = cs[i]
  OBVIOUS
<1>3. /\ u.open = p - c.open /\ u.close = p - c.close
      /\ u.high = p - c.low /\ u.low = p - c.high /\ u.volume = c.volume
      /\ c.open \in Int /\ c.close \in Int /\ c.high \in Int /\ c.low \in Int
  BY <1>1, <1>2, TurnedBar
<1> QED
  BY <1>1, <1>2, <1>3, Zenon

\* What is left of evaluate_sweep_choch once the bars and the range are read.
BodyOf(dirs, x) == IF dirs = {"long"} THEN x.close - x.open ELSE x.open - x.close
StrongBody(dirs, x) == BodyOf(dirs, x) > 0 /\ BodyOf(dirs, x) * 100 >= BodyPct * (x.high - x.low)
SweepSide(g, x, top, floor) ==
    Dir(~(g.high > top /\ x.close < top) /\ g.low < floor /\ x.close > floor, g.high > top /\ x.close < top)
SweepOf(g, x, top, floor, trend) ==
    IF StrongBody(SweepSide(g, x, top, floor), x) /\ trend THEN SweepSide(g, x, top, floor) ELSE {}

LEMMA BodyTurns ==
    ASSUME NEW p \in Int, NEW c, NEW d, d.open = p - c.open, d.close = p - c.close, d.high = p - c.low,
           d.low = p - c.high, c.open \in Int, c.close \in Int, c.high \in Int, c.low \in Int
    PROVE  (StrongBody({"long"}, c) <=> StrongBody({"short"}, d)) /\ (StrongBody({"short"}, c) <=> StrongBody({"long"}, d))
<1>1. /\ c.close - c.open = d.open - d.close /\ c.open - c.close = d.close - d.open
      /\ c.high - c.low = d.high - d.low
  OBVIOUS
<1>2. /\ BodyOf({"long"}, c) = c.close - c.open /\ BodyOf({"short"}, c) = c.open - c.close
      /\ BodyOf({"long"}, d) = d.close - d.open /\ BodyOf({"short"}, d) = d.open - d.close
  BY DEF BodyOf
<1> QED
  BY <1>1, <1>2, Zenon DEF StrongBody

TurnedParts(p, c, d, e, g, top, floor, top2, floor2) ==
    /\ p \in Int
    /\ d.open = p - c.open /\ d.close = p - c.close /\ d.high = p - c.low /\ d.low = p - c.high
    /\ c.open \in Int /\ c.close \in Int /\ c.high \in Int /\ c.low \in Int
    /\ g.high = p - e.low /\ g.low = p - e.high /\ e.high \in Int /\ e.low \in Int
    /\ top \in Int /\ floor \in Int /\ top2 = p - floor /\ floor2 = p - top
    /\ e.high <= top \/ e.low >= floor

LEMMA SweepOfTurns ==
    ASSUME NEW p, NEW c, NEW d, NEW e, NEW g, NEW top, NEW floor, NEW top2, NEW floor2, NEW trend,
           TurnedParts(p, c, d, e, g, top, floor, top2, floor2)
    PROVE  SweepOf(g, d, top2, floor2, trend) = OtherSide(SweepOf(e, c, top, floor, trend))
<1> USE DEF TurnedParts
<1>1. PICK short \in BOOLEAN : short <=> e.high > top /\ c.close < top
  OBVIOUS
<1>2. PICK long \in BOOLEAN : long <=> e.low < floor /\ c.close > floor
  OBVIOUS
<1>3. PICK short2 \in BOOLEAN : short2 <=> g.high > top2 /\ d.close < top2
  OBVIOUS
<1>4. PICK long2 \in BOOLEAN : long2 <=> g.low < floor2 /\ d.close > floor2
  OBVIOUS
<1>5. \/ ~short /\ ~long /\ ~short2 /\ ~long2
      \/ short /\ ~long /\ ~short2 /\ long2
      \/ long /\ ~short /\ short2 /\ ~long2
  <2>1. (short2 <=> long) /\ (long2 <=> short) /\ ~(short /\ long)
    BY <1>1, <1>2, <1>3, <1>4
  <2> QED
    BY <2>1
<1>6. PICK side : side = SweepSide(e, c, top, floor)
  OBVIOUS
<1>7. PICK side2 : side2 = SweepSide(g, d, top2, floor2)
  OBVIOUS
<1>8. side = IF ~short /\ long THEN {"long"} ELSE IF short THEN {"short"} ELSE {}
  BY <1>1, <1>2, <1>6 DEF SweepSide, Dir
<1>9. side2 = IF ~short2 /\ long2 THEN {"long"} ELSE IF short2 THEN {"short"} ELSE {}
  BY <1>3, <1>4, <1>7 DEF SweepSide, Dir
<1>10. /\ SweepOf(e, c, top, floor, trend) = IF StrongBody(side, c) /\ trend THEN side ELSE {}
       /\ SweepOf(g, d, top2, floor2, trend) = IF StrongBody(side2, d) /\ trend THEN side2 ELSE {}
  BY <1>6, <1>7 DEF SweepOf
<1>11. (StrongBody({"long"}, c) <=> StrongBody({"short"}, d)) /\ (StrongBody({"short"}, c) <=> StrongBody({"long"}, d))
  BY BodyTurns
<1>12. OtherSide({}) = {} /\ OtherSide({"long"}) = {"short"} /\ OtherSide({"short"}) = {"long"}
  BY DEF OtherSide
<1>13. CASE side = {} /\ side2 = {}
  BY <1>10, <1>12, <1>13
<1>14. CASE side = {"long"} /\ side2 = {"short"}
  <2>1. CASE StrongBody({"long"}, c) /\ trend
    BY <1>10, <1>11, <1>12, <1>14, <2>1
  <2>2. CASE ~(StrongBody({"long"}, c) /\ trend)
    BY <1>10, <1>11, <1>12, <1>14, <2>2
  <2> QED
    BY <2>1, <2>2
<1>15. CASE side = {"short"} /\ side2 = {"long"}
  <2>1. CASE StrongBody({"short"}, c) /\ trend
    BY <1>10, <1>11, <1>12, <1>15, <2>1
  <2>2. CASE ~(StrongBody({"short"}, c) /\ trend)
    BY <1>10, <1>11, <1>12, <1>15, <2>2
  <2> QED
    BY <2>1, <2>2
<1> QED
  BY <1>5, <1>8, <1>9, <1>13, <1>14, <1>15

\* The book takes the direction away or leaves it.
LEMMA SweepChochIs ==
    ASSUME NEW ts, NEW m, ~(Len(ts) < Envelope + 2)
    PROVE  SweepChoch(ts, m)
             = {x \in SweepOf(ts[Len(ts) - 1], ts[Len(ts)], TopOf(ts, Len(ts) - Envelope - 1, Len(ts) - 2),
                              FloorOf(ts, Len(ts) - Envelope - 1, Len(ts) - 2), m.trending) : OpenTo(x, m)}
<1>1. PICK n : n = Len(ts)
  OBVIOUS
<1>2. PICK top : top = TopOf(ts, n - Envelope - 1, n - 2)
  OBVIOUS
<1>3. PICK floor : floor = FloorOf(ts, n - Envelope - 1, n - 2)
  OBVIOUS
<1>4. PICK side : side = SweepSide(ts[n - 1], ts[n], top, floor)
  OBVIOUS
<1>5. side = Dir(~(ts[n - 1].high > top /\ ts[n].close < top) /\ ts[n - 1].low < floor /\ ts[n].close > floor,
                 ts[n - 1].high > top /\ ts[n].close < top)
  BY <1>4, Zenon DEF SweepSide
<1>6. SweepChoch(ts, m) =
        IF /\ BodyOf(side, ts[n]) > 0
           /\ BodyOf(side, ts[n]) * 100 >= BodyPct * (ts[n].high - ts[n].low)
           /\ m.trending
           /\ m.book # 0 => (("long" \in side => m.book < BookLongMax) /\ ("short" \in side => m.book > BookShortMin))
        THEN side ELSE {}
  BY <1>1, <1>2, <1>3, <1>5, Zenon DEF SweepChoch, BodyOf, TopOf, FloorOf
<1>7. SweepOf(ts[n - 1], ts[n], top, floor, m.trending) = IF StrongBody(side, ts[n]) /\ m.trending THEN side ELSE {}
  BY <1>4, Zenon DEF SweepOf
<1>8. SweepChoch(ts, m) =
        IF StrongBody(side, ts[n]) /\ m.trending
           /\ (m.book # 0 => (("long" \in side => m.book < BookLongMax) /\ ("short" \in side => m.book > BookShortMin)))
        THEN side ELSE {}
  BY <1>6, Zenon DEF StrongBody
<1>9. side = {"long"} \/ side = {"short"} \/ side = {}
  BY <1>5, Zenon DEF Dir
<1>10. SweepChoch(ts, m) = {x \in SweepOf(ts[n - 1], ts[n], top, floor, m.trending) : OpenTo(x, m)}
  <2>1. OpenTo("long", m) <=> (m.book # 0 => m.book < BookLongMax)
    BY DEF OpenTo
  <2>2. OpenTo("short", m) <=> (m.book # 0 => m.book > BookShortMin)
    BY DEF OpenTo
  <2>3. CASE side = {"long"}
    BY <1>7, <1>8, <2>1, <2>3
  <2>4. CASE side = {"short"}
    BY <1>7, <1>8, <2>2, <2>4
  <2>5. CASE side = {}
    BY <1>7, <1>8, <2>5
  <2> QED
    BY <1>9, <2>3, <2>4, <2>5
<1> QED
  BY <1>1, <1>2, <1>3, <1>10, Zenon

\* evaluate_sweep_choch, but for a bar that sweeps both sides.
LEMMA SweepTurns ==
    ASSUME NEW cs \in Seq(ScalpBars), NEW m \in ScalpMarkets, cs # <<>>, NEW p, p = 2 * cs[Len(cs)].close,
           NEW ts, ts = UpsideAll(cs, p), OneSided(cs)
    PROVE  SweepChoch(ts, UpsideM(m)) = {d \in OtherSide(SweepChoch(cs, AnyBook(m))) : OpenTo(d, m)}
<1>1. PICK n : n = Len(cs)
  OBVIOUS
<1>2. PICK free : free = AnyBook(m)
  OBVIOUS
<1>3. PICK up : up = UpsideM(m)
  OBVIOUS
<1>4. free.trending = up.trending /\ \A x : OpenTo(x, free) /\ (OpenTo(x, up) <=> OpenTo(x, m))
  <2>1. m \in [funding : Int, cvd : Int, flow : Int, spread : Int, book : Int, trending : BOOLEAN]
    BY ScalpAssumption
  <2>2. free.book = 0 /\ up.book = m.book /\ free.trending = up.trending
    BY <1>2, <1>3, <2>1 DEF UpsideM, AnyBook
  <2> QED
    BY <2>2, Zenon DEF OpenTo
<1>5. n \in Nat /\ n # 0 /\ Envelope \in Nat \ {0}
  <2>1. Len(cs) \in Nat /\ Len(cs) # 0
    BY EmptySeq
  <2> QED
    BY <1>1, <2>1, SizesPositive
<1>6. n \in 1..n
  BY <1>5
<1>7. PICK c : c = cs[n]
  OBVIOUS
<1>8. c \in ScalpBars /\ c.close \in Int /\ p \in Int
  <2>1. c \in ScalpBars
    BY <1>1, <1>6, <1>7, ElementOfSeq
  <2>2. c.close \in Int
    BY <2>1, BarsTyped
  <2> QED
    BY <1>1, <1>7, <2>1, <2>2
<1>9. Len(ts) = n
  BY <1>1, <1>8, UpsideAllIs
<1>10. CASE n < Envelope + 2
  <2>1. SweepChoch(cs, free) = {} /\ SweepChoch(ts, up) = {}
    BY <1>1, <1>9, <1>10 DEF SweepChoch
  <2> QED
    BY <1>2, <1>3, <2>1 DEF OtherSide
<1>11. CASE ~(n < Envelope + 2)
  <2>0. Turns(ts, cs, p)
    BY <1>8, BarsTurn, Zenon
  <2>1. PICK a : a = n - Envelope - 1
    OBVIOUS
  <2>2. PICK b : b = n - 2
    OBVIOUS
  <2>3. a \in 1..n /\ b \in a..n /\ n - 1 \in 1..n
    BY <1>5, <1>11, <2>1, <2>2
  <2>4. PICK d : d = ts[n]
    OBVIOUS
  <2>5. PICK e : e = cs[n - 1]
    OBVIOUS
  <2>6. PICK g : g = ts[n - 1]
    OBVIOUS
  <2>7. PICK top : top = TopOf(cs, a, b)
    OBVIOUS
  <2>8. PICK floor : floor = FloorOf(cs, a, b)
    OBVIOUS
  <2>9. PICK top2 : top2 = TopOf(ts, a, b)
    OBVIOUS
  <2>10. PICK floor2 : floor2 = FloorOf(ts, a, b)
    OBVIOUS
  <2>11. /\ d.open = p - c.open /\ d.close = p - c.close /\ d.high = p - c.low /\ d.low = p - c.high
         /\ c.open \in Int /\ c.close \in Int /\ c.high \in Int /\ c.low \in Int
    <3>1. n \in 1..Len(cs)
      BY <1>1, <1>6, Zenon
    <3>2. /\ ts[n].open = p - cs[n].open /\ ts[n].close = p - cs[n].close
          /\ ts[n].high = p - cs[n].low /\ ts[n].low = p - cs[n].high
          /\ cs[n].open \in Int /\ cs[n].close \in Int /\ cs[n].high \in Int /\ cs[n].low \in Int
      BY <2>0, <3>1, Zenon DEF Turns
    <3> QED
      BY <1>7, <2>4, <3>2, Zenon
  <2>12. g.high = p - e.low /\ g.low = p - e.high /\ e.high \in Int /\ e.low \in Int
    <3>1. n - 1 \in 1..Len(cs)
      BY <1>1, <2>3, Zenon
    <3>2. /\ ts[n - 1].high = p - cs[n - 1].low /\ ts[n - 1].low = p - cs[n - 1].high
          /\ cs[n - 1].high \in Int /\ cs[n - 1].low \in Int
      BY <2>0, <3>1, Zenon DEF Turns
    <3> QED
      BY <2>5, <2>6, <3>2, Zenon
  <2>13. top2 = p - floor /\ floor2 = p - top /\ floor \in Int /\ top \in Int
    <3>1. a \in 1..Len(cs) /\ b \in a..Len(cs) /\ p \in Int
      BY <1>1, <1>8, <2>3, Zenon
    <3>2. /\ TopOf(ts, a, b) = p - FloorOf(cs, a, b) /\ FloorOf(ts, a, b) = p - TopOf(cs, a, b)
          /\ FloorOf(cs, a, b) \in Int /\ TopOf(cs, a, b) \in Int
      BY <3>1, RangeTurns, Zenon
    <3> QED
      BY <2>7, <2>8, <2>9, <2>10, <3>2, Zenon
  <2>14. e.high <= top \/ e.low >= floor
    <3>1. n >= Envelope + 2
      BY <1>5, <1>11
    <3>2. e.high <= Max({q.high : q \in {cs[i] : i \in (n - Envelope - 1)..(n - 2)}})
          \/ e.low >= Min({q.low : q \in {cs[i] : i \in (n - Envelope - 1)..(n - 2)}})
      BY <1>1, <2>5, <3>1 DEF OneSided
    <3> QED
      BY <2>1, <2>2, <2>7, <2>8, <3>2, Zenon DEF TopOf, FloorOf
  <2>15. SweepChoch(cs, free) = SweepOf(e, c, top, floor, free.trending)
    <3>1. SweepChoch(cs, free)
            = {x \in SweepOf(cs[n - 1], cs[n], TopOf(cs, n - Envelope - 1, n - 2),
                             FloorOf(cs, n - Envelope - 1, n - 2), free.trending) : OpenTo(x, free)}
      BY <1>1, <1>11, SweepChochIs, Zenon
    <3> QED
      BY <1>4, <1>7, <2>1, <2>2, <2>5, <2>7, <2>8, <3>1
  <2>16. SweepChoch(ts, up) = {x \in SweepOf(g, d, top2, floor2, up.trending) : OpenTo(x, m)}
    <3>1. SweepChoch(ts, up)
            = {x \in SweepOf(ts[n - 1], ts[n], TopOf(ts, n - Envelope - 1, n - 2),
                             FloorOf(ts, n - Envelope - 1, n - 2), up.trending) : OpenTo(x, up)}
      BY <1>9, <1>11, SweepChochIs
    <3> QED
      BY <1>4, <2>1, <2>2, <2>4, <2>6, <2>9, <2>10, <3>1
  <2>17. SweepOf(g, d, top2, floor2, up.trending) = OtherSide(SweepOf(e, c, top, floor, up.trending))
    <3>1. TurnedParts(p, c, d, e, g, top, floor, top2, floor2)
      BY <1>8, <2>11, <2>12, <2>13, <2>14, Zenon DEF TurnedParts
    <3> QED
      BY <3>1, SweepOfTurns
  <2> QED
    BY <1>2, <1>3, <1>4, <2>15, <2>16, <2>17
<1> QED
  BY <1>10, <1>11

\* evaluate_funding_extreme.
LEMMA FundingIs ==
    ASSUME NEW ts, NEW m
    PROVE  FundingExtreme(ts, m)
             = IF Len(ts) < FlatBars \/ (TopOf(ts, Len(ts) - FlatBars + 1, Len(ts))
                                         - FloorOf(ts, Len(ts) - FlatBars + 1, Len(ts))) * 1000 > FlatNum * ts[Len(ts)].close
               THEN {} ELSE Dir(m.funding <= -FundingMin, m.funding >= FundingMin)
BY Zenon DEF FundingExtreme, TopOf, FloorOf

LEMMA FundingTurns ==
    ASSUME NEW cs \in Seq(ScalpBars), NEW m \in ScalpMarkets, cs # <<>>, NEW p, p = 2 * cs[Len(cs)].close,
           NEW ts, ts = UpsideAll(cs, p)
    PROVE  FundingExtreme(ts, UpsideM(m)) = OtherSide(FundingExtreme(cs, m))
<1>1. PICK n : n = Len(cs)
  OBVIOUS
<1>2. PICK c : c = cs[n]
  OBVIOUS
<1>3. n \in Nat /\ n # 0 /\ n \in 1..Len(cs) /\ FlatBars \in Nat \ {0} /\ FundingMin \in Nat \ {0}
  <2>1. Len(cs) \in Nat /\ Len(cs) # 0
    BY EmptySeq
  <2> QED
    BY <1>1, <2>1, SizesPositive
<1>4. c \in ScalpBars /\ c.close \in Int /\ p \in Int /\ p = 2 * c.close
  <2>1. c \in ScalpBars
    BY <1>2, <1>3, ElementOfSeq
  <2>2. c.close \in Int
    BY <2>1, BarsTyped
  <2> QED
    BY <1>1, <1>2, <2>1, <2>2
<1>5. Len(ts) = n /\ Turns(ts, cs, p)
  BY <1>1, <1>4, UpsideAllIs, BarsTurn
<1>6. ts[n].close = c.close
  <2>1. ts[n].close = p - cs[n].close
    BY <1>3, <1>5, Zenon DEF Turns
  <2>2. ts[n].close = p - c.close
    BY <1>2, <2>1
  <2> QED
    BY <1>4, <2>2
<1>7. PICK a : a = n - FlatBars + 1
  OBVIOUS
<1>8. PICK f : f = m.funding
  OBVIOUS
<1>9. f \in Int /\ UpsideM(m).funding = -f
  <2>1. m \in [funding : Int, cvd : Int, flow : Int, spread : Int, book : Int, trending : BOOLEAN]
    BY ScalpAssumption
  <2> QED
    BY <1>8, <2>1 DEF UpsideM
<1>10. FundingExtreme(cs, m)
         = IF n < FlatBars \/ (TopOf(cs, a, n) - FloorOf(cs, a, n)) * 1000 > FlatNum * c.close
           THEN {} ELSE Dir(f <= -FundingMin, f >= FundingMin)
  <2>1. FundingExtreme(cs, m)
          = IF Len(cs) < FlatBars \/ (TopOf(cs, Len(cs) - FlatBars + 1, Len(cs))
                                         - FloorOf(cs, Len(cs) - FlatBars + 1, Len(cs))) * 1000 > FlatNum * cs[Len(cs)].close
            THEN {} ELSE Dir(m.funding <= -FundingMin, m.funding >= FundingMin)
    BY FundingIs
  <2> QED
    BY <1>1, <1>2, <1>7, <1>8, <2>1, Zenon
<1>11. FundingExtreme(ts, UpsideM(m))
         = IF n < FlatBars \/ (TopOf(ts, a, n) - FloorOf(ts, a, n)) * 1000 > FlatNum * c.close
           THEN {} ELSE Dir(-f <= -FundingMin, -f >= FundingMin)
  <2>1. FundingExtreme(ts, UpsideM(m))
          = IF Len(ts) < FlatBars \/ (TopOf(ts, Len(ts) - FlatBars + 1, Len(ts))
                                         - FloorOf(ts, Len(ts) - FlatBars + 1, Len(ts))) * 1000 > FlatNum * ts[Len(ts)].close
            THEN {} ELSE Dir(UpsideM(m).funding <= -FundingMin, UpsideM(m).funding >= FundingMin)
    BY FundingIs, ZenonT(60)
  <2>2. Len(ts) = n
    BY <1>5
  <2>3. FundingExtreme(ts, UpsideM(m))
          = IF n < FlatBars \/ (TopOf(ts, n - FlatBars + 1, n) - FloorOf(ts, n - FlatBars + 1, n)) * 1000 > FlatNum * ts[n].close
            THEN {} ELSE Dir(UpsideM(m).funding <= -FundingMin, UpsideM(m).funding >= FundingMin)
    BY <2>1, <2>2, Zenon
  <2>4. PICK k : k = ts[n].close
    OBVIOUS
  <2>5. PICK h : h = UpsideM(m).funding
    OBVIOUS
  <2>6. FundingExtreme(ts, UpsideM(m))
          = IF n < FlatBars \/ (TopOf(ts, a, n) - FloorOf(ts, a, n)) * 1000 > FlatNum * k
            THEN {} ELSE Dir(h <= -FundingMin, h >= FundingMin)
    BY <1>7, <2>3, <2>4, <2>5, Zenon
  <2>7. k = c.close /\ h = -f
    BY <1>6, <1>9, <2>4, <2>5, Zenon
  <2> QED
    BY <2>6, <2>7, Zenon
<1>12. OtherSide({}) = {} /\ OtherSide({"long"}) = {"short"} /\ OtherSide({"short"}) = {"long"}
  BY DEF OtherSide
<1>13. CASE n < FlatBars
  BY <1>10, <1>11, <1>12, <1>13, Zenon
<1>14. CASE ~(n < FlatBars)
  <2>1. a \in 1..Len(cs) /\ n \in a..Len(cs)
    BY <1>1, <1>3, <1>7, <1>14
  <2>2. /\ TopOf(ts, a, n) = p - FloorOf(cs, a, n) /\ FloorOf(ts, a, n) = p - TopOf(cs, a, n)
        /\ FloorOf(cs, a, n) \in Int /\ TopOf(cs, a, n) \in Int
    BY <1>4, <2>1, RangeTurns, Zenon
  <2>3. PICK top : top = TopOf(cs, a, n)
    OBVIOUS
  <2>4. PICK floor : floor = FloorOf(cs, a, n)
    OBVIOUS
  <2>5. TopOf(ts, a, n) - FloorOf(ts, a, n) = top - floor
    <3>1. TopOf(ts, a, n) = p - floor /\ FloorOf(ts, a, n) = p - top /\ floor \in Int /\ top \in Int
      BY <2>2, <2>3, <2>4, Zenon
    <3> QED
      BY <1>4, <3>1
  <2>6. CASE (top - floor) * 1000 > FlatNum * c.close
    BY <1>10, <1>11, <1>12, <2>3, <2>4, <2>5, <2>6, ZenonT(60)
  <2>7. CASE ~((top - floor) * 1000 > FlatNum * c.close)
    <3>1. FundingExtreme(cs, m) = Dir(f <= -FundingMin, f >= FundingMin)
      BY <1>10, <1>14, <2>3, <2>4, <2>7, Zenon
    <3>2. FundingExtreme(ts, UpsideM(m)) = Dir(-f <= -FundingMin, -f >= FundingMin)
      BY <1>11, <1>14, <2>5, <2>7, ZenonT(60)
    <3>3. PICK long \in BOOLEAN : long <=> f <= -FundingMin
      OBVIOUS
    <3>4. PICK short \in BOOLEAN : short <=> f >= FundingMin
      OBVIOUS
    <3>5. (-f <= -FundingMin <=> short) /\ (-f >= FundingMin <=> long) /\ ~(long /\ short)
      BY <1>3, <1>9, <3>3, <3>4
    <3>6. FundingExtreme(cs, m) = IF long THEN {"long"} ELSE IF short THEN {"short"} ELSE {}
      BY <3>1, <3>3, <3>4, Zenon DEF Dir
    <3>7. FundingExtreme(ts, UpsideM(m)) = IF short THEN {"long"} ELSE IF long THEN {"short"} ELSE {}
      BY <3>2, <3>5, Zenon DEF Dir
    <3> QED
      BY <1>12, <3>5, <3>6, <3>7
  <2> QED
    BY <2>6, <2>7
<1> QED
  BY <1>13, <1>14

\* evaluate_vol_cvd_divergence.
VolsOf(ts) == [i \in (Len(ts) - VolBars)..(Len(ts) - 1) |-> ts[i].volume]
VolLoud(vols, volume, spread, flow, size) ==
    /\ spread > 0 /\ spread <= MaxSpread
    /\ SumFunction([i \in DOMAIN vols |-> (VolBars * vols[i] - SumFunction(vols)) * (VolBars * vols[i] - SumFunction(vols))]) > 0
    /\ VolBars * volume - SumFunction(vols) >= 0
    /\ (VolBars * volume - SumFunction(vols)) * (VolBars * volume - SumFunction(vols)) * VolBars
         >= ZScore * ZScore
            * SumFunction([i \in DOMAIN vols |-> (VolBars * vols[i] - SumFunction(vols)) * (VolBars * vols[i] - SumFunction(vols))])
    /\ flow > 0 /\ size * 100 >= ImbalancePct * flow
SizeOf(cvd) == IF cvd < 0 THEN -cvd ELSE cvd

LEMMA VolCvdIs ==
    ASSUME NEW ts, NEW m, NEW n, n = Len(ts), NEW vols, vols = VolsOf(ts)
    PROVE  VolCvdDivergence(ts, m)
             = IF n < VolBars + 1 THEN {}
               ELSE IF VolLoud(vols, ts[n].volume, m.spread, m.flow, SizeOf(m.cvd))
               THEN Dir(m.cvd > 0 /\ ts[n].close < ts[n].open, m.cvd < 0 /\ ts[n].close > ts[n].open) ELSE {}
BY DEF VolCvdDivergence, VolsOf, VolLoud, SizeOf

LEMMA VolCvdTurns ==
    ASSUME NEW cs \in Seq(ScalpBars), NEW m \in ScalpMarkets, cs # <<>>, NEW p, p = 2 * cs[Len(cs)].close,
           NEW ts, ts = UpsideAll(cs, p)
    PROVE  VolCvdDivergence(ts, UpsideM(m)) = OtherSide(VolCvdDivergence(cs, m))
<1>1. PICK n : n = Len(cs)
  OBVIOUS
<1>2. PICK c : c = cs[n]
  OBVIOUS
<1>3. n \in Nat /\ n # 0 /\ n \in 1..Len(cs) /\ VolBars \in Nat \ {0}
  <2>1. Len(cs) \in Nat /\ Len(cs) # 0
    BY EmptySeq
  <2> QED
    BY <1>1, <2>1, SizesPositive
<1>4. c \in ScalpBars /\ c.close \in Int /\ p \in Int /\ p = 2 * c.close
  <2>1. c \in ScalpBars
    BY <1>2, <1>3, ElementOfSeq
  <2>2. c.close \in Int
    BY <2>1, BarsTyped
  <2> QED
    BY <1>1, <1>2, <2>1, <2>2
<1>5. Len(ts) = n /\ Turns(ts, cs, p)
  BY <1>1, <1>4, UpsideAllIs, BarsTurn
<1>6. PICK d : d = ts[n]
  OBVIOUS
<1>7. d.close = p - c.close /\ d.open = p - c.open /\ d.volume = c.volume /\ c.open \in Int
  <2>1. ts[n].close = p - cs[n].close /\ ts[n].open = p - cs[n].open /\ ts[n].volume = cs[n].volume /\ cs[n].open \in Int
    BY <1>3, <1>5, Zenon DEF Turns
  <2> QED
    BY <1>2, <1>6, <2>1, Zenon
<1>8. PICK v : v = m.cvd
  OBVIOUS
<1>9. PICK up : up = UpsideM(m)
  OBVIOUS
<1>10. v \in Int /\ up.cvd = -v /\ up.spread = m.spread /\ up.flow = m.flow
  <2>1. m \in [funding : Int, cvd : Int, flow : Int, spread : Int, book : Int, trending : BOOLEAN]
    BY ScalpAssumption
  <2> QED
    BY <1>8, <1>9, <2>1 DEF UpsideM
<1>11. SizeOf(-v) = SizeOf(v)
  BY <1>10 DEF SizeOf
<1>12. OtherSide({}) = {} /\ OtherSide({"long"}) = {"short"} /\ OtherSide({"short"}) = {"long"}
  BY DEF OtherSide
<1>13. PICK vols : vols = VolsOf(cs)
  OBVIOUS
<1>14. VolCvdDivergence(cs, m)
         = IF n < VolBars + 1 THEN {}
           ELSE IF VolLoud(vols, c.volume, m.spread, m.flow, SizeOf(v))
           THEN Dir(v > 0 /\ c.close < c.open, v < 0 /\ c.close > c.open) ELSE {}
  <2>1. VolCvdDivergence(cs, m)
         = IF n < VolBars + 1 THEN {}
           ELSE IF VolLoud(vols, cs[n].volume, m.spread, m.flow, SizeOf(m.cvd))
           THEN Dir(m.cvd > 0 /\ cs[n].close < cs[n].open, m.cvd < 0 /\ cs[n].close > cs[n].open) ELSE {}
    BY <1>1, <1>13, VolCvdIs
  <2> QED
    BY <1>2, <1>8, <2>1, Zenon
<1>15. CASE n < VolBars + 1
  <2>1. VolCvdDivergence(ts, up) = {}
    BY <1>5, <1>15 DEF VolCvdDivergence
  <2> QED
    BY <1>9, <1>12, <1>14, <1>15, <2>1, Zenon
<1>16. CASE ~(n < VolBars + 1)
  <2>1. VolsOf(ts) = vols
    <3>1. PICK a : a = n - VolBars
      OBVIOUS
    <3>2. PICK b : b = n - 1
      OBVIOUS
    <3>3. a..b \subseteq 1..Len(cs)
      BY <1>1, <1>3, <1>16, <3>1, <3>2
    <3>4. \A i \in a..b : ts[i].volume = cs[i].volume
      BY <1>5, <3>3, Zenon DEF Turns
    <3>5. VolsOf(ts) = [i \in a..b |-> ts[i].volume]
      BY <1>5, <3>1, <3>2, Zenon DEF VolsOf
    <3>6. vols = [i \in a..b |-> cs[i].volume]
      BY <1>1, <1>13, <3>1, <3>2, Zenon DEF VolsOf
    <3> QED
      BY <3>4, <3>5, <3>6
  <2>2. VolCvdDivergence(ts, up)
         = IF n < VolBars + 1 THEN {}
           ELSE IF VolLoud(vols, d.volume, up.spread, up.flow, SizeOf(up.cvd))
           THEN Dir(up.cvd > 0 /\ d.close < d.open, up.cvd < 0 /\ d.close > d.open) ELSE {}
    <3>1. VolCvdDivergence(ts, up)
         = IF n < VolBars + 1 THEN {}
           ELSE IF VolLoud(vols, ts[n].volume, up.spread, up.flow, SizeOf(up.cvd))
           THEN Dir(up.cvd > 0 /\ ts[n].close < ts[n].open, up.cvd < 0 /\ ts[n].close > ts[n].open) ELSE {}
      BY <1>5, <2>1, VolCvdIs
    <3> QED
      BY <1>6, <3>1, Zenon
  <2>3. PICK loud \in BOOLEAN : loud <=> VolLoud(vols, c.volume, m.spread, m.flow, SizeOf(v))
    OBVIOUS
  <2>4. loud <=> VolLoud(vols, d.volume, up.spread, up.flow, SizeOf(up.cvd))
    BY <1>7, <1>10, <1>11, <2>3, Zenon
  <2>5. PICK long \in BOOLEAN : long <=> v > 0 /\ c.close < c.open
    OBVIOUS
  <2>6. PICK short \in BOOLEAN : short <=> v < 0 /\ c.close > c.open
    OBVIOUS
  <2>7. /\ (up.cvd > 0 /\ d.close < d.open) <=> short
        /\ (up.cvd < 0 /\ d.close > d.open) <=> long
        /\ ~(long /\ short)
    <3>1. d.close = c.close /\ (d.close < d.open <=> c.close > c.open) /\ (d.close > d.open <=> c.close < c.open)
      <4>1. PICK x : x = c.close
        OBVIOUS
      <4>2. PICK y : y = c.open
        OBVIOUS
      <4>3. x \in Int /\ y \in Int /\ d.close = 2 * x - x /\ d.open = 2 * x - y
        BY <1>4, <1>7, <4>1, <4>2, Zenon
      <4>4. d.close = x /\ (d.close < d.open <=> x > y) /\ (d.close > d.open <=> x < y)
        BY <4>3
      <4> QED
        BY <4>1, <4>2, <4>4, Zenon
    <3>2. (up.cvd > 0 <=> v < 0) /\ (up.cvd < 0 <=> v > 0) /\ ~(v < 0 /\ v > 0)
      BY <1>10
    <3> QED
      <4>1. (up.cvd > 0 /\ d.close < d.open) <=> short
        BY <2>6, <3>1, <3>2, Zenon
      <4>2. (up.cvd < 0 /\ d.close > d.open) <=> long
        BY <2>5, <3>1, <3>2, Zenon
      <4>3. ~(long /\ short)
        BY <2>5, <2>6, <3>2, Zenon
      <4> QED
        BY <4>1, <4>2, <4>3
  <2>8. VolCvdDivergence(cs, m) = IF loud THEN IF long THEN {"long"} ELSE IF short THEN {"short"} ELSE {} ELSE {}
    BY <1>14, <1>16, <2>3, <2>5, <2>6, Zenon DEF Dir
  <2>9. VolCvdDivergence(ts, up) = IF loud THEN IF short THEN {"long"} ELSE IF long THEN {"short"} ELSE {} ELSE {}
    BY <2>2, <1>16, <2>4, <2>7, Zenon DEF Dir
  <2>10. VolCvdDivergence(ts, up) = OtherSide(VolCvdDivergence(cs, m))
    BY <1>12, <2>7, <2>8, <2>9
  <2> QED
    BY <1>9, <2>10, Zenon
<1> QED
  BY <1>15, <1>16

\* The detectors treat the two sides alike, but for the book.
LEMMA SignalsTurn ==
    ASSUME ScalpTrue
    PROVE  SignalsMirror
<1> SUFFICES ASSUME scalpBars # <<>>
             PROVE  \E p \in {2 * Newest(scalpBars).close} :
        LET turned == [i \in DOMAIN scalpBars |-> Upside(scalpBars[i], p)]
        IN  /\ WickReclaim(Newest(turned)) = OtherSide(WickReclaim(Newest(scalpBars)))
            /\ OneSided(scalpBars) =>
                  SweepChoch(turned, UpsideM(scalpMarket))
                    = {d \in OtherSide(SweepChoch(scalpBars, AnyBook(scalpMarket))) : OpenTo(d, scalpMarket)}
            /\ VolCvdDivergence(turned, UpsideM(scalpMarket)) = OtherSide(VolCvdDivergence(scalpBars, scalpMarket))
            /\ FundingExtreme(turned, UpsideM(scalpMarket)) = OtherSide(FundingExtreme(scalpBars, scalpMarket))
  BY DEF SignalsMirror
<1>1. PICK p : p = 2 * scalpBars[Len(scalpBars)].close
  OBVIOUS
<1>2. PICK ts : ts = UpsideAll(scalpBars, p)
  OBVIOUS
<1>3. scalpBars \in Seq(ScalpBars) /\ scalpMarket \in ScalpMarkets
  BY DEF ScalpTrue
<1>4. VolCvdDivergence(ts, UpsideM(scalpMarket)) = OtherSide(VolCvdDivergence(scalpBars, scalpMarket))
  BY <1>1, <1>2, <1>3, VolCvdTurns
<1>5. FundingExtreme(ts, UpsideM(scalpMarket)) = OtherSide(FundingExtreme(scalpBars, scalpMarket))
  BY <1>1, <1>2, <1>3, FundingTurns
<1>6. OneSided(scalpBars) =>
        SweepChoch(ts, UpsideM(scalpMarket))
          = {d \in OtherSide(SweepChoch(scalpBars, AnyBook(scalpMarket))) : OpenTo(d, scalpMarket)}
  BY <1>1, <1>2, <1>3, SweepTurns
<1>7. WickReclaim(Newest(ts)) = OtherSide(WickReclaim(Newest(scalpBars)))
  <2>1. PICK c : c = scalpBars[Len(scalpBars)]
    OBVIOUS
  <2>2. PICK u : u = ts[Len(ts)]
    OBVIOUS
  <2>3. Len(scalpBars) \in 1..Len(scalpBars)
    BY <1>3, EmptySeq
  <2>4. c \in ScalpBars
    BY <1>3, <2>1, <2>3, ElementOfSeq
  <2>5. p \in Int
    <3>1. c.close \in Int
      BY <2>4, BarsTyped
    <3> QED
      BY <1>1, <2>1, <3>1
  <2>6. Len(ts) = Len(scalpBars) /\ ts[Len(scalpBars)] = Upside(c, p)
    BY <1>2, <1>3, <2>1, <2>3, <2>5, UpsideAllIs
  <2>7. u = Upside(c, 2 * c.close)
    BY <1>1, <2>1, <2>2, <2>6, Zenon
  <2>8. WickReclaim(u) = OtherSide(WickReclaim(c))
    BY <2>4, <2>7, ReclaimTurns
  <2> QED
    BY <2>1, <2>2, <2>8, Zenon DEF Newest
<1>8. p \in {2 * Newest(scalpBars).close} /\ ts = [i \in DOMAIN scalpBars |-> Upside(scalpBars[i], p)]
  BY <1>1, <1>2, Zenon DEF Newest, UpsideAll
<1> QED
  BY <1>4, <1>5, <1>6, <1>7, <1>8, Zenon

-----------------------------------------------------------------------------
\* The top-down play, upside down.

\* The distance is the same on either side.
LEMMA AwayTurns ==
    ASSUME NEW a \in Int, NEW b \in Int, NEW q \in Int
    PROVE  Away(q - a, q - b) = Away(a, b)
BY DEF Away

\* Of what lies above the entry, the farthest within a range is the highest.
LEMMA FarthestAbove ==
    ASSUME NEW near \in SUBSET Int, IsFiniteSet(near), near # {}, NEW entry \in Int, \A p \in near : entry < p
    PROVE  (CHOOSE p \in near : \A q \in near : Away(p, entry) >= Away(q, entry)) = Max(near)
<1>1. Max(near) \in near /\ \A x \in near : x <= Max(near)
  BY MaxIs
<1>2. \A p \in near : p \in Int /\ Away(p, entry) = p - entry
  BY DEF Away
<1>3. PICK m \in near : m = Max(near)
  BY <1>1
<1>4. m \in Int /\ \A q \in near : Away(m, entry) >= Away(q, entry)
  BY <1>1, <1>2, <1>3
<1>5. ASSUME NEW p \in near, \A q \in near : Away(p, entry) >= Away(q, entry) PROVE p = m
  <2>1. p \in Int /\ p <= m /\ Away(p, entry) >= Away(m, entry) /\ Away(p, entry) = p - entry /\ Away(m, entry) = m - entry
    BY <1>1, <1>2, <1>3, <1>5
  <2> QED
    BY <1>4, <2>1
<1> QED
  BY <1>3, <1>4, <1>5, Zenon

LEMMA FarthestBelow ==
    ASSUME NEW near \in SUBSET Int, IsFiniteSet(near), near # {}, NEW entry \in Int, \A p \in near : p < entry
    PROVE  (CHOOSE p \in near : \A q \in near : Away(p, entry) >= Away(q, entry)) = Min(near)
<1>1. Min(near) \in near /\ \A x \in near : Min(near) <= x
  BY MinIs
<1>2. \A p \in near : p \in Int /\ Away(p, entry) = entry - p
  BY DEF Away
<1>3. PICK m \in near : m = Min(near)
  BY <1>1
<1>4. m \in Int /\ \A q \in near : Away(m, entry) >= Away(q, entry)
  BY <1>1, <1>2, <1>3
<1>5. ASSUME NEW p \in near, \A q \in near : Away(p, entry) >= Away(q, entry) PROVE p = m
  <2>1. p \in Int /\ m <= p /\ Away(p, entry) >= Away(m, entry) /\ Away(p, entry) = entry - p /\ Away(m, entry) = entry - m
    BY <1>1, <1>2, <1>3, <1>5
  <2> QED
    BY <1>4, <2>1
<1> QED
  BY <1>3, <1>4, <1>5, Zenon

Alike(q, S, A, B) == \A x \in S : x \in A <=> q - x \in B

\* The part of two turned sets that two turned conditions keep.
LEMMA KeptTurns ==
    ASSUME NEW q \in Int, NEW S \in SUBSET Int, NEW T \in SUBSET Int, IsFiniteSet(S), IsFiniteSet(T), About(q, S, T),
           NEW A, NEW B, A \subseteq S, B \subseteq T,
           Alike(q, S, A, B)
    PROVE  /\ About(q, A, B) /\ IsFiniteSet(A) /\ IsFiniteSet(B) /\ A \in SUBSET Int /\ B \in SUBSET Int
           /\ (A = {}) <=> (B = {})
<1>1. IsFiniteSet(A) /\ IsFiniteSet(B)
  BY FS_Subset
<1>2. A \in SUBSET Int /\ B \in SUBSET Int
  OBVIOUS
<1>3. \A y \in B : q - y \in S /\ q - (q - y) = y
  BY DEF About
<1>4. \A x \in A : q - x \in B
  BY DEF Alike
<1>5. \A y \in B : q - y \in A
  BY <1>3 DEF Alike
<1> QED
  BY <1>1, <1>2, <1>4, <1>5 DEF About

\* The first target of a play and of the play turned.
LEMMA FirstsTurn ==
    ASSUME NEW q \in Int, NEW entry \in Int, NEW target \in Int, NEW entry2, entry2 = q - entry,
           NEW target2, target2 = q - target, NEW S \in SUBSET Int, NEW T \in SUBSET Int, IsFiniteSet(S), IsFiniteSet(T),
           About(q, S, T), \A p \in S : entry < p, NEW atr
    PROVE  /\ About(q, FirstTargets(entry, target, S, atr), FirstTargets(entry2, target2, T, atr))
           /\ FirstTargets(entry, target, S, atr) \in SUBSET Int /\ FirstTargets(entry2, target2, T, atr) \in SUBSET Int
<1>1. PICK near : near = {p \in S : Away(p, entry) <= atr}
  OBVIOUS
<1>2. PICK near2 : near2 = {p \in T : Away(p, entry2) <= atr}
  OBVIOUS
<1>3. Alike(q, S, near, near2)
  <2> SUFFICES ASSUME NEW x \in S PROVE x \in near <=> q - x \in near2
    BY DEF Alike
  <2>1. x \in Int /\ q - x \in T
    BY DEF About
  <2>2. Away(q - x, entry2) = Away(x, entry)
    BY <2>1, AwayTurns
  <2> QED
    BY <1>1, <1>2, <2>1, <2>2
<1>4. near \subseteq S /\ near2 \subseteq T
  BY <1>1, <1>2
<1>5. /\ About(q, near, near2) /\ IsFiniteSet(near) /\ IsFiniteSet(near2) /\ near \in SUBSET Int /\ near2 \in SUBSET Int
      /\ (near = {}) <=> (near2 = {})
  BY <1>3, <1>4, KeptTurns
<1>6. Away(target2, entry2) = Away(target, entry)
  BY AwayTurns
<1>7. PICK none \in BOOLEAN : none <=> (atr = 0 \/ Away(target, entry) < 2 * atr \/ near = {})
  OBVIOUS
<1>8. FirstTargets(entry, target, S, atr)
        = IF none THEN {} ELSE {CHOOSE p \in near : \A r \in near : Away(p, entry) >= Away(r, entry)}
  BY <1>1, <1>7, Zenon DEF FirstTargets
<1>9. FirstTargets(entry2, target2, T, atr)
        = IF none THEN {} ELSE {CHOOSE p \in near2 : \A r \in near2 : Away(p, entry2) >= Away(r, entry2)}
  <2>1. Away(target, entry) < 2 * atr <=> Away(target2, entry2) < 2 * atr
    BY <1>6
  <2>2. none <=> (atr = 0 \/ Away(target2, entry2) < 2 * atr \/ near2 = {})
    BY <1>5, <1>7, <2>1, Zenon
  <2> QED
    BY <1>2, <2>2, Zenon DEF FirstTargets
<1>10. CASE none
  BY <1>8, <1>9, <1>10 DEF About
<1>11. CASE ~none
  <2>1. near # {} /\ near2 # {}
    BY <1>5, <1>7, <1>11
  <2>2. \A p \in near : entry < p
    BY <1>4
  <2>3. \A p \in near2 : p < entry2
    <3> SUFFICES ASSUME NEW p \in near2 PROVE p < entry2
      OBVIOUS
    <3>1. p \in Int /\ q - p \in near
      BY <1>5 DEF About
    <3>2. entry < q - p
      BY <2>2, <3>1
    <3> QED
      BY <3>1, <3>2
  <2>4. FirstTargets(entry, target, S, atr) = {Max(near)}
    BY <1>5, <1>8, <1>11, <2>1, <2>2, FarthestAbove
  <2>5. FirstTargets(entry2, target2, T, atr) = {Min(near2)}
    <3>1. entry2 \in Int
      OBVIOUS
    <3> QED
      BY <1>5, <1>9, <1>11, <2>1, <2>3, <3>1, FarthestBelow
  <2>6. Min(near2) = q - Max(near) /\ Max(near) \in Int
    BY <1>5, <2>1, TurnedEnds
  <2> QED
    BY <2>4, <2>5, <2>6 DEF About
<1> QED
  BY <1>10, <1>11

\* The two branches of the triplet.
ShortPlay(above, below, sl, price, atr) ==
    LET sweep   == Min(above)
        targets == {p \in below : FarEnough(p, sweep, sl)}
        between == {p \in below : Max(targets) < p /\ p < sweep}
    IN  IF ~Actionable(sweep, price) \/ sl <= sweep \/ targets = {} THEN {}
        ELSE Play("short", sweep, sl, Max(targets), FirstTargets(sweep, Max(targets), between, atr))
LongPlay(above, below, sl, price, atr) ==
    LET sweep   == Max(below)
        targets == {p \in above : FarEnough(p, sweep, sl)}
        between == {p \in above : sweep < p /\ p < Min(targets)}
    IN  IF ~Actionable(sweep, price) \/ sl >= sweep \/ targets = {} THEN {}
        ELSE Play("long", sweep, sl, Min(targets), FirstTargets(sweep, Min(targets), between, atr))

LEMMA TripletHas ==
    ASSUME NEW v, NEW price
    PROVE  /\ Invalidation(v, price) = {} => Triplet(v, price) = {}
           /\ SideOf(v) \notin {"long", "short"} => Triplet(v, price) = {}
           /\ \A sl : Invalidation(v, price) = {sl} =>
                 /\ SideOf(v) = "short" => Triplet(v, price) =
                       IF OpenAbove(v, price) # {} THEN ShortPlay(OpenAbove(v, price), OpenBelow(v, price), sl, price, v.atr)
                       ELSE {}
                 /\ SideOf(v) = "long" => Triplet(v, price) =
                       IF OpenBelow(v, price) # {} THEN LongPlay(OpenAbove(v, price), OpenBelow(v, price), sl, price, v.atr)
                       ELSE {}
<1> DEFINE plays(sl) == CASE SideOf(v) = "short" /\ OpenAbove(v, price) # {} ->
                               ShortPlay(OpenAbove(v, price), OpenBelow(v, price), sl, price, v.atr)
                          [] SideOf(v) = "long"  /\ OpenBelow(v, price) # {} ->
                               LongPlay(OpenAbove(v, price), OpenBelow(v, price), sl, price, v.atr)
                          [] OTHER -> {}
<1>1. Triplet(v, price) = UNION {plays(sl) : sl \in Invalidation(v, price)}
  BY Zenon DEF Triplet, ShortPlay, LongPlay
<1>2. ASSUME SideOf(v) \notin {"long", "short"} PROVE \A sl : plays(sl) = {}
  BY <1>2
<1>3. ASSUME SideOf(v) = "short"
      PROVE  \A sl : plays(sl) = IF OpenAbove(v, price) # {}
                                 THEN ShortPlay(OpenAbove(v, price), OpenBelow(v, price), sl, price, v.atr) ELSE {}
  BY <1>3
<1>4. ASSUME SideOf(v) = "long"
      PROVE  \A sl : plays(sl) = IF OpenBelow(v, price) # {}
                                 THEN LongPlay(OpenAbove(v, price), OpenBelow(v, price), sl, price, v.atr) ELSE {}
  BY <1>4
<1> HIDE DEF plays
<1>5. Invalidation(v, price) = {} => Triplet(v, price) = {}
  BY <1>1
<1>6. SideOf(v) \notin {"long", "short"} => Triplet(v, price) = {}
  BY <1>1, <1>2
<1>7. ASSUME NEW sl, Invalidation(v, price) = {sl} PROVE Triplet(v, price) = plays(sl)
  BY <1>1, <1>7
<1> QED
  BY <1>3, <1>4, <1>5, <1>6, <1>7

Axis(q, price) == q = 2 * price
TurnedPlays(S, price) == {TurnedPlay(p, price) : p \in S}
TwinPlays(q, price, d, e, entry, sl, tp, firsts, entry2, sl2, tp2, firsts2) ==
    /\ price \in Int /\ q \in Int /\ Axis(q, price) /\ d \in {"long", "short"} /\ e \in {"long", "short"} /\ d # e
    /\ entry \in Int /\ sl \in Int /\ tp \in Int /\ firsts \in SUBSET Int
    /\ entry2 \in Int /\ sl2 \in Int /\ tp2 \in Int /\ firsts2 \in SUBSET Int
    /\ entry2 = q - entry /\ sl2 = q - sl /\ tp2 = q - tp /\ About(q, firsts, firsts2)

\* A play turned, field by field, is the turned play, and the other way round.
LEMMA PlayTurns ==
    ASSUME NEW q, NEW price, NEW d, NEW e, NEW entry, NEW sl, NEW tp, NEW firsts, NEW entry2, NEW sl2, NEW tp2,
           NEW firsts2, TwinPlays(q, price, d, e, entry, sl, tp, firsts, entry2, sl2, tp2, firsts2)
    PROVE  Play(e, entry2, sl2, tp2, firsts2) = TurnedPlays(Play(d, entry, sl, tp, firsts), price)
<1> USE DEF TwinPlays
<1> DEFINE p == [dir |-> d, entry |-> entry, sl |-> sl, tp |-> tp, firsts |-> firsts]
<1>1. Upended[d] = e
  BY DEF Upended
<1>2. {q - x : x \in firsts} = firsts2
  <2>1. \A x \in firsts : q - x \in firsts2
    BY DEF About
  <2>2. \A y \in firsts2 : q - y \in firsts /\ q - (q - y) = y
    <3> SUFFICES ASSUME NEW y \in firsts2 PROVE q - y \in firsts /\ q - (q - y) = y
      OBVIOUS
    <3>1. y \in Int /\ q \in Int
      OBVIOUS
    <3>2. q - (q - y) = y
      BY <3>1
    <3> QED
      BY <3>2 DEF About
  <2> QED
    BY <2>1, <2>2
<1>3. TurnedPlay(p, price) = [dir |-> e, entry |-> entry2, sl |-> sl2, tp |-> tp2, firsts |-> firsts2]
  <2>1. TurnedPlay(p, price) = [dir |-> Upended[d], entry |-> q - entry, sl |-> q - sl, tp |-> q - tp,
                                firsts |-> {q - x : x \in firsts}]
    BY DEF TurnedPlay, Axis
  <2> QED
    BY <1>1, <1>2, <2>1
<1> QED
  BY <1>3 DEF Play, TurnedPlays

LEMMA PlayTurnsBack ==
    ASSUME NEW q, NEW price, NEW d, NEW e, NEW entry, NEW sl, NEW tp, NEW firsts, NEW entry2, NEW sl2, NEW tp2,
           NEW firsts2, TwinPlays(q, price, d, e, entry, sl, tp, firsts, entry2, sl2, tp2, firsts2)
    PROVE  /\ Play(d, entry, sl, tp, firsts) = TurnedPlays(Play(e, entry2, sl2, tp2, firsts2), price)
           /\ Play(e, entry2, sl2, tp2, firsts2) = TurnedPlays(Play(d, entry, sl, tp, firsts), price)
<1>1. TwinPlays(q, price, e, d, entry2, sl2, tp2, firsts2, entry, sl, tp, firsts)
  <2>1. /\ price \in Int /\ q \in Int /\ Axis(q, price) /\ d \in {"long", "short"} /\ e \in {"long", "short"} /\ d # e
        /\ entry \in Int /\ sl \in Int /\ tp \in Int /\ firsts \in SUBSET Int
        /\ entry2 \in Int /\ sl2 \in Int /\ tp2 \in Int /\ firsts2 \in SUBSET Int
        /\ entry2 = q - entry /\ sl2 = q - sl /\ tp2 = q - tp /\ About(q, firsts, firsts2)
    BY DEF TwinPlays
  <2>2. entry = q - entry2 /\ sl = q - sl2 /\ tp = q - tp2
    BY <2>1
  <2>3. About(q, firsts2, firsts)
    BY <2>1 DEF About
  <2> QED
    BY <2>1, <2>2, <2>3 DEF TwinPlays
<1>2. Play(d, entry, sl, tp, firsts) = TurnedPlays(Play(e, entry2, sl2, tp2, firsts2), price)
  BY <1>1, PlayTurns
<1>3. Play(e, entry2, sl2, tp2, firsts2) = TurnedPlays(Play(d, entry, sl, tp, firsts), price)
  BY PlayTurns
<1> QED
  BY <1>2, <1>3

\* Two finite sets of prices, one the other turned.
TwinSets(q, S, T) == /\ q \in Int /\ S \in SUBSET Int /\ T \in SUBSET Int /\ IsFiniteSet(S) /\ IsFiniteSet(T)
                  /\ About(q, S, T)

LEMMA TwinsKept ==
    ASSUME NEW q, NEW S, NEW T, TwinSets(q, S, T), NEW A, NEW B, A \subseteq S, B \subseteq T, Alike(q, S, A, B)
    PROVE  TwinSets(q, A, B) /\ (A = {} <=> B = {})
<1>1. /\ q \in Int /\ S \in SUBSET Int /\ T \in SUBSET Int /\ IsFiniteSet(S) /\ IsFiniteSet(T)
      /\ About(q, S, T)
  BY DEF TwinSets
<1>2. /\ About(q, A, B) /\ IsFiniteSet(A) /\ IsFiniteSet(B) /\ A \in SUBSET Int /\ B \in SUBSET Int
      /\ (A = {}) <=> (B = {})
  BY <1>1, KeptTurns
<1> QED
  BY <1>1, <1>2 DEF TwinSets

LEMMA TwinsEnd ==
    ASSUME NEW q, NEW S, NEW T, TwinSets(q, S, T), S # {}
    PROVE  /\ Max(T) = q - Min(S) /\ Min(T) = q - Max(S)
           /\ Max(S) \in Int /\ Min(S) \in Int
BY TurnedEnds DEF TwinSets

TwinMarkets(price, q, above, below, up, down, sl, sl2) ==
    /\ price \in Int /\ q \in Int /\ q - price = price /\ sl \in Int /\ sl2 = q - sl
    /\ above \in SUBSET Int /\ below \in SUBSET Int /\ up \in SUBSET Int /\ down \in SUBSET Int
    /\ IsFiniteSet(above) /\ IsFiniteSet(below) /\ IsFiniteSet(up) /\ IsFiniteSet(down)
    /\ About(q, below, up) /\ About(q, above, down) /\ below # {}

\* The long branch and the short one on the turned market.
LEMMA BranchesTurn ==
    ASSUME NEW price, NEW atr, NEW q, NEW above, NEW below, NEW up, NEW down, NEW sl, NEW sl2,
           TwinMarkets(price, q, above, below, up, down, sl, sl2)
    PROVE  /\ ShortPlay(up, down, sl2, price, atr) = TurnedPlays(LongPlay(above, below, sl, price, atr), price)
           /\ LongPlay(above, below, sl, price, atr) = TurnedPlays(ShortPlay(up, down, sl2, price, atr), price)
           /\ up # {}
<1>a. /\ price \in Int /\ q \in Int /\ q - price = price /\ sl \in Int /\ sl2 = q - sl
      /\ above \in SUBSET Int /\ below \in SUBSET Int /\ up \in SUBSET Int /\ down \in SUBSET Int
      /\ IsFiniteSet(above) /\ IsFiniteSet(below) /\ IsFiniteSet(up) /\ IsFiniteSet(down)
      /\ About(q, below, up) /\ About(q, above, down) /\ below # {}
  BY DEF TwinMarkets
<1> USE <1>a
<1>0. q \in Int /\ sl2 \in Int
  OBVIOUS
<1>1. PICK entry : entry = Max(below)
  OBVIOUS
<1>2. PICK entry2 : entry2 = Min(up)
  OBVIOUS
<1>3. entry2 = q - entry /\ entry \in Int /\ entry2 \in Int
  <2>1. entry2 = q - entry /\ entry \in Int
    BY <1>0, <1>1, <1>2, TurnedEnds
  <2> QED
    BY <1>0, <2>1
<1>4. PICK targets : targets = {p \in above : FarEnough(p, entry, sl)}
  OBVIOUS
<1>5. PICK targets2 : targets2 = {p \in down : FarEnough(p, entry2, sl2)}
  OBVIOUS
<1>6. Alike(q, above, targets, targets2)
  <2> SUFFICES ASSUME NEW x \in above PROVE x \in targets <=> q - x \in targets2
    BY DEF Alike
  <2>1. x \in Int /\ q - x \in down
    BY DEF About
  <2>2. Away(q - x, entry2) = Away(x, entry) /\ Away(entry2, sl2) = Away(entry, sl)
    BY <1>0, <1>3, <2>1, AwayTurns
  <2>3. FarEnough(x, entry, sl) <=> FarEnough(q - x, entry2, sl2)
    BY <2>2, Zenon DEF FarEnough
  <2> QED
    BY <1>4, <1>5, <2>1, <2>3
<1>7. targets \subseteq above /\ targets2 \subseteq down
  BY <1>4, <1>5
<1>8. /\ About(q, targets, targets2) /\ IsFiniteSet(targets) /\ IsFiniteSet(targets2)
      /\ targets \in SUBSET Int /\ targets2 \in SUBSET Int
      /\ (targets = {}) <=> (targets2 = {})
  <2>1. TwinSets(q, above, down)
    BY DEF TwinSets
  <2>2. TwinSets(q, targets, targets2) /\ (targets = {} <=> targets2 = {})
    BY <1>6, <1>7, <2>1, TwinsKept
  <2> QED
    BY <2>2 DEF TwinSets
<1>9. Actionable(entry2, price) <=> Actionable(entry, price)
  <2>2. Away(entry2, q - price) = Away(entry, price)
    BY <1>0, <1>3, AwayTurns
  <2> QED
    BY <2>2 DEF Actionable
<1>10. sl >= entry <=> sl2 <= entry2
  BY <1>3
<1>11. PICK bad \in BOOLEAN : bad <=> (~Actionable(entry, price) \/ sl >= entry \/ targets = {})
  OBVIOUS
<1>12. bad <=> (~Actionable(entry2, price) \/ sl2 <= entry2 \/ targets2 = {})
  BY <1>8, <1>9, <1>10, <1>11, Zenon
<1>13. PICK tp : tp = Min(targets)
  OBVIOUS
<1>14. PICK tp2 : tp2 = Max(targets2)
  OBVIOUS
<1>15. PICK between : between = {p \in above : entry < p /\ p < tp}
  OBVIOUS
<1>16. PICK between2 : between2 = {p \in down : tp2 < p /\ p < entry2}
  OBVIOUS
<1>17. LongPlay(above, below, sl, price, atr)
         = IF bad THEN {} ELSE Play("long", entry, sl, tp, FirstTargets(entry, tp, between, atr))
  BY <1>1, <1>4, <1>11, <1>13, <1>15, Zenon DEF LongPlay
<1>18. ShortPlay(up, down, sl2, price, atr)
         = IF bad THEN {} ELSE Play("short", entry2, sl2, tp2, FirstTargets(entry2, tp2, between2, atr))
  BY <1>2, <1>5, <1>12, <1>14, <1>16, Zenon DEF ShortPlay
<1>19. up # {}
  BY DEF About
<1>20. CASE bad
  BY <1>17, <1>18, <1>19, <1>20 DEF TurnedPlays
<1>21. CASE ~bad
  <2>1. targets # {}
    BY <1>11, <1>21
  <2>2. tp2 = q - tp /\ tp \in Int
    <3>2. Max(targets2) = q - Min(targets) /\ Min(targets) \in Int
      BY <1>0, <1>8, <2>1, TurnedEnds
    <3> QED
      BY <1>13, <1>14, <3>2
  <2>3. Alike(q, above, between, between2)
    <3> SUFFICES ASSUME NEW x \in above PROVE x \in between <=> q - x \in between2
      BY DEF Alike
    <3>1. x \in Int /\ q - x \in down
      BY DEF About
    <3>2. (entry < x <=> q - x < entry2) /\ (x < tp <=> tp2 < q - x)
      BY <1>0, <1>3, <2>2, <3>1
    <3> QED
      BY <1>15, <1>16, <3>1, <3>2
  <2>4. between \subseteq above /\ between2 \subseteq down
    BY <1>15, <1>16
  <2>5. /\ About(q, between, between2) /\ IsFiniteSet(between) /\ IsFiniteSet(between2)
        /\ between \in SUBSET Int /\ between2 \in SUBSET Int
    <3>1. TwinSets(q, above, down)
      BY DEF TwinSets
    <3>2. TwinSets(q, between, between2)
      BY <2>3, <2>4, <3>1, TwinsKept
    <3> QED
      BY <3>2 DEF TwinSets
  <2>6. \A p \in between : entry < p
    BY <1>15
  <2>7. PICK firsts : firsts = FirstTargets(entry, tp, between, atr)
    OBVIOUS
  <2>8. PICK firsts2 : firsts2 = FirstTargets(entry2, tp2, between2, atr)
    OBVIOUS
  <2>9. About(q, firsts, firsts2) /\ firsts \in SUBSET Int /\ firsts2 \in SUBSET Int
    BY <1>0, <1>3, <2>2, <2>5, <2>6, <2>7, <2>8, FirstsTurn
  <2>11. /\ entry \in Int /\ entry2 \in Int /\ tp \in Int /\ tp2 \in Int
         /\ entry2 = q - entry /\ sl2 = q - sl /\ tp2 = q - tp /\ sl2 \in Int
    BY <1>0, <1>3, <2>2
  <2>11a. Axis(q, price)
    BY DEF Axis
  <2>12. TwinPlays(q, price, "long", "short", entry, sl, tp, firsts, entry2, sl2, tp2, firsts2)
    BY <2>9, <2>11, <2>11a DEF TwinPlays
  <2>13. /\ Play("long", entry, sl, tp, firsts) = TurnedPlays(Play("short", entry2, sl2, tp2, firsts2), price)
         /\ Play("short", entry2, sl2, tp2, firsts2) = TurnedPlays(Play("long", entry, sl, tp, firsts), price)
    BY <2>12, PlayTurnsBack
  <2>14. /\ LongPlay(above, below, sl, price, atr) = Play("long", entry, sl, tp, firsts)
         /\ ShortPlay(up, down, sl2, price, atr) = Play("short", entry2, sl2, tp2, firsts2)
    BY <1>17, <1>18, <1>21, <2>7, <2>8, Zenon
  <2> QED
    BY <1>19, <2>13, <2>14, Zenon
<1> QED
  BY <1>20, <1>21

TdLevels == [frame : Frames, type : {"bsl", "ssl"}, price : Int, swept : BOOLEAN, touches : Int, last : Int]
Trends == {"bullish", "bearish", "undefined"}
TdBreaks == [dir : {"bullish", "bearish"}, at : Int]
TdBlocks == [dir : {"bullish", "bearish"}, price : Int]

LEMMA ViewTyped ==
    ASSUME NEW v \in TdViews
    PROVE  /\ v.trend \in [Frames -> Trends] /\ v.breaks \in [Frames -> Seq(TdBreaks)] /\ v.levels \in SUBSET TdLevels
           /\ v.lows \in SUBSET Int /\ v.highs \in SUBSET Int /\ v.blocks \in SUBSET TdBlocks
           /\ v.gaps \in SUBSET {"bullish", "bearish"}
           /\ v.impulse \in [size : {"normal", "big", "extreme"}, dir : {"bull", "bear", "doji"}]
           /\ IsFiniteSet(v.lows) /\ IsFiniteSet(v.highs)
BY ReadingAssumption DEF Trends, TdBreaks, TdLevels, TdBlocks

\* The turned view, part by part.
ViewParts(v, axis, w) ==
    /\ w.trend = [f \in Frames |-> Upended[v.trend[f]]]
    /\ w.breaks = [f \in Frames |-> [i \in DOMAIN v.breaks[f] |-> TurnedBreak(v.breaks[f][i])]]
    /\ w.levels = {TurnedLevel(l, axis) : l \in v.levels}
    /\ w.lows = {2 * axis - p : p \in v.highs} /\ w.highs = {2 * axis - p : p \in v.lows}
    /\ w.blocks = {TurnedBlock(b, axis) : b \in v.blocks}
    /\ w.gaps = {Upended[g] : g \in v.gaps}
    /\ w.impulse = [v.impulse EXCEPT !.dir = Upended[v.impulse.dir]]
    /\ w.atr = v.atr

LEMMA ViewTurned ==
    ASSUME NEW v \in TdViews, NEW axis
    PROVE  ViewParts(v, axis, TurnedView(v, axis))
<1>0. PICK w : w = TurnedView(v, axis)
  OBVIOUS
<1>1. PICK trend : trend = [f \in Frames |-> Upended[v.trend[f]]]
  OBVIOUS
<1>2. PICK breaks1 : breaks1 = [f \in Frames |-> [i \in DOMAIN v.breaks[f] |-> TurnedBreak(v.breaks[f][i])]]
  OBVIOUS
<1>3. PICK levels1 : levels1 = {TurnedLevel(l, axis) : l \in v.levels}
  OBVIOUS
<1>4. PICK lows : lows = {2 * axis - p : p \in v.highs}
  OBVIOUS
<1>5. PICK highs : highs = {2 * axis - p : p \in v.lows}
  OBVIOUS
<1>6. PICK blocks : blocks = {TurnedBlock(b, axis) : b \in v.blocks}
  OBVIOUS
<1>7. PICK gaps : gaps = {Upended[g] : g \in v.gaps}
  OBVIOUS
<1>8. PICK impulse : impulse = [v.impulse EXCEPT !.dir = Upended[v.impulse.dir]]
  OBVIOUS
<1>9. w = [v EXCEPT !.trend = trend, !.breaks = breaks1, !.levels = levels1, !.lows = lows, !.highs = highs,
                    !.blocks = blocks, !.gaps = gaps, !.impulse = impulse]
  BY <1>0, <1>1, <1>2, <1>3, <1>4, <1>5, <1>6, <1>7, <1>8, Zenon DEF TurnedView
<1>10. DOMAIN v = {"trend", "breaks", "levels", "lows", "highs", "atr", "blocks", "gaps", "impulse"}
  BY ReadingAssumption
<1>11. /\ w.trend = trend /\ w.breaks = breaks1 /\ w.levels = levels1 /\ w.lows = lows /\ w.highs = highs
       /\ w.blocks = blocks /\ w.gaps = gaps /\ w.impulse = impulse /\ w.atr = v.atr
  BY <1>9, <1>10
<1>12. ViewParts(v, axis, w)
  BY <1>1, <1>2, <1>3, <1>4, <1>5, <1>6, <1>7, <1>8, <1>11, Zenon DEF ViewParts
<1> QED
  BY <1>0, <1>12, Zenon

LEMMA Upends ==
    /\ Upended["bullish"] = "bearish" /\ Upended["bearish"] = "bullish" /\ Upended["undefined"] = "undefined"
    /\ Upended["long"] = "short" /\ Upended["short"] = "long" /\ Upended["bsl"] = "ssl" /\ Upended["ssl"] = "bsl"
    /\ Upended["bull"] = "bear" /\ Upended["bear"] = "bull" /\ Upended["doji"] = "doji"
BY DEF Upended

\* The trends of the turned view.
LEMMA TrendsTurned ==
    ASSUME NEW v \in TdViews, NEW axis, NEW w, w = TurnedView(v, axis), NEW f \in Frames
    PROVE  /\ v.trend[f] \in Trends /\ w.trend[f] = Upended[v.trend[f]]
           /\ w.trend[f] = "bullish" <=> v.trend[f] = "bearish"
           /\ w.trend[f] = "bearish" <=> v.trend[f] = "bullish"
           /\ w.trend[f] = "undefined" <=> v.trend[f] = "undefined"
<1>1. v.trend[f] \in Trends
  BY ViewTyped
<1>2. w.trend[f] = Upended[v.trend[f]]
  <2>1. ViewParts(v, axis, w)
    BY ViewTurned
  <2>2. w.trend = [g \in Frames |-> Upended[v.trend[g]]]
    BY <2>1, Zenon DEF ViewParts
  <2> QED
    BY <2>2
<1>3. PICK x \in Trends : x = v.trend[f]
  BY <1>1
<1>4. (Upended[x] = "bullish" <=> x = "bearish") /\ (Upended[x] = "bearish" <=> x = "bullish")
      /\ (Upended[x] = "undefined" <=> x = "undefined")
  BY Upends DEF Trends
<1> QED
  BY <1>1, <1>2, <1>3, <1>4, Zenon

\* The side turns, and how sure it is stays.
LEMMA ReconcileTurns ==
    ASSUME NEW v \in TdViews, NEW axis, NEW w, w = TurnedView(v, axis)
    PROVE  /\ SideOf(v) \in {"long", "short", "undefined"} /\ SideOf(w) = Upended[SideOf(v)]
           /\ Reconciled(w)[2] = Reconciled(v)[2]
<1> DEFINE U(x) == {f \in Frames : x.trend[f] = "undefined"}
<1>1. U(w) = U(v)
  BY TrendsTurned
<1>2. PICK bull : bull = WeightOf(v, "bullish")
  OBVIOUS
<1>3. PICK bear : bear = WeightOf(v, "bearish")
  OBVIOUS
<1>4. "4h" \in Frames /\ "1h" \in Frames /\ "30m" \in Frames /\ "15m" \in Frames
  BY DEF Frames
<1>5. WeightOf(w, "bullish") = bear /\ WeightOf(w, "bearish") = bull
  <2> DEFINE C(x, f, trend) == IF x.trend[f] = trend THEN Weight(f) ELSE 0
  <2>1. ASSUME NEW f \in Frames PROVE C(w, f, "bullish") = C(v, f, "bearish") /\ C(w, f, "bearish") = C(v, f, "bullish")
    BY TrendsTurned
  <2>2. ASSUME NEW x, NEW trend PROVE WeightOf(x, trend) = C(x, "4h", trend) + C(x, "1h", trend) + C(x, "30m", trend) + C(x, "15m", trend)
    BY DEF WeightOf
  <2> HIDE DEF C
  <2> QED
    BY <1>2, <1>3, <1>4, <2>1, <2>2
<1>6. bull \in Nat /\ bear \in Nat /\ bull + bear <= 5
  <2> DEFINE C(f, trend) == IF v.trend[f] = trend THEN Weight(f) ELSE 0
  <2>1. Weight("4h") = 2 /\ Weight("1h") = 1 /\ Weight("30m") = 1 /\ Weight("15m") = 1
    BY DEF Weight
  <2>2. C("4h", "bullish") \in Nat /\ C("4h", "bearish") \in Nat /\ C("4h", "bullish") + C("4h", "bearish") <= 2
    BY <2>1
  <2>3. ASSUME NEW f \in {"1h", "30m", "15m"}
        PROVE  C(f, "bullish") \in Nat /\ C(f, "bearish") \in Nat /\ C(f, "bullish") + C(f, "bearish") <= 1
    BY <2>1
  <2>4. /\ bull = C("4h", "bullish") + C("1h", "bullish") + C("30m", "bullish") + C("15m", "bullish")
        /\ bear = C("4h", "bearish") + C("1h", "bearish") + C("30m", "bearish") + C("15m", "bearish")
    BY <1>2, <1>3 DEF WeightOf
  <2> HIDE DEF C
  <2>5. /\ C("1h", "bullish") \in Nat /\ C("1h", "bearish") \in Nat /\ C("1h", "bullish") + C("1h", "bearish") <= 1
        /\ C("30m", "bullish") \in Nat /\ C("30m", "bearish") \in Nat /\ C("30m", "bullish") + C("30m", "bearish") <= 1
        /\ C("15m", "bullish") \in Nat /\ C("15m", "bearish") \in Nat /\ C("15m", "bullish") + C("15m", "bearish") <= 1
    BY <2>3
  <2> QED
    BY <2>2, <2>4, <2>5
<1>7. PICK unsure \in BOOLEAN : unsure <=> Cardinality(U(v)) >= 2
  OBVIOUS
<1>8. PICK under \in BOOLEAN : under <=> v.trend["4h"] = "bearish"
  OBVIOUS
<1>9. PICK over \in BOOLEAN : over <=> v.trend["4h"] = "bullish"
  OBVIOUS
<1>10. (w.trend["4h"] = "bullish" <=> under) /\ (w.trend["4h"] = "bearish" <=> over)
  BY <1>4, <1>8, <1>9, TrendsTurned
<1>11. Reconciled(v) =
        IF unsure THEN <<"undefined", "low">>
        ELSE IF bull >= 4   THEN <<"long", "high">>
        ELSE IF bear >= 4   THEN <<"short", "high">>
        ELSE IF bull > bear THEN <<"long", IF under THEN "low" ELSE "medium">>
        ELSE IF bear > bull THEN <<"short", IF over THEN "low" ELSE "medium">>
        ELSE <<"undefined", "low">>
  BY <1>2, <1>3, <1>7, <1>8, <1>9, Zenon DEF Reconciled
<1>12. Reconciled(w) =
        IF unsure THEN <<"undefined", "low">>
        ELSE IF bear >= 4   THEN <<"long", "high">>
        ELSE IF bull >= 4   THEN <<"short", "high">>
        ELSE IF bear > bull THEN <<"long", IF over THEN "low" ELSE "medium">>
        ELSE IF bull > bear THEN <<"short", IF under THEN "low" ELSE "medium">>
        ELSE <<"undefined", "low">>
  <2>1. unsure <=> Cardinality(U(w)) >= 2
    BY <1>1, <1>7
  <2> QED
    BY <1>5, <1>10, <2>1, Zenon DEF Reconciled
<1> HIDE DEF U
<1>13. /\ Reconciled(v)[1] \in {"long", "short", "undefined"} /\ Reconciled(w)[1] = Upended[Reconciled(v)[1]]
       /\ Reconciled(w)[2] = Reconciled(v)[2]
  <2>1. CASE unsure
    BY <1>11, <1>12, <2>1, Upends
  <2>2. CASE ~unsure /\ bull >= 4
    <3>1. ~(bear >= 4)
      BY <1>6, <2>2
    <3> QED
      BY <1>11, <1>12, <2>2, <3>1, Upends
  <2>3. CASE ~unsure /\ bear >= 4
    <3>1. ~(bull >= 4)
      BY <1>6, <2>3
    <3> QED
      BY <1>11, <1>12, <2>3, <3>1, Upends
  <2>4. CASE ~unsure /\ ~(bear >= 4) /\ ~(bull >= 4) /\ bull > bear
    <3>1. ~(bear > bull)
      BY <1>6, <2>4
    <3> QED
      BY <1>11, <1>12, <2>4, <3>1, Upends
  <2>5. CASE ~unsure /\ ~(bear >= 4) /\ ~(bull >= 4) /\ ~(bull > bear)
    BY <1>11, <1>12, <2>5, Upends
  <2> QED
    BY <2>1, <2>2, <2>3, <2>4, <2>5
<1> QED
  BY <1>13 DEF SideOf

LEMMA LevelTurned ==
    ASSUME NEW l \in TdLevels, NEW axis \in Int
    PROVE  /\ TurnedLevel(l, axis).price = 2 * axis - l.price /\ TurnedLevel(l, axis).type = Upended[l.type]
           /\ TurnedLevel(l, axis).swept = l.swept /\ TurnedLevel(l, axis).frame = l.frame
           /\ TurnedLevel(l, axis).touches = l.touches /\ TurnedLevel(l, axis).last = l.last
           /\ l.price \in Int
BY DEF TurnedLevel, TdLevels

\* The open liquidity of the turned view, on the other side of the price.
LEMMA OpenTurns ==
    ASSUME NEW v \in TdViews, NEW price \in Int, NEW q, Axis(q, price)
    PROVE  /\ TwinSets(q, OpenBelow(v, price), OpenAbove(TurnedView(v, price), price))
           /\ TwinSets(q, OpenAbove(v, price), OpenBelow(TurnedView(v, price), price))
<1>0. q \in Int /\ q = 2 * price
  BY DEF Axis
<1>1. PICK w : w = TurnedView(v, price)
  OBVIOUS
<1>2. PICK S : S = v.levels
  OBVIOUS
<1>3. S \in SUBSET TdLevels /\ IsFiniteSet(S)
  BY <1>2, ViewTyped, ReadingAssumption
<1>4. PICK T : T = {TurnedLevel(l, price) : l \in S}
  OBVIOUS
<1>5. w.levels = T
  <2>1. ViewParts(v, price, w)
    BY <1>1, ViewTurned
  <2> QED
    BY <1>2, <1>4, <2>1, Zenon DEF ViewParts
<1>6. \A l \in S : /\ TurnedLevel(l, price).price = q - l.price /\ TurnedLevel(l, price).swept = l.swept
                   /\ l.price \in Int /\ TurnedLevel(l, price).price \in Int
  <2> SUFFICES ASSUME NEW l \in S
               PROVE  /\ TurnedLevel(l, price).price = q - l.price /\ TurnedLevel(l, price).swept = l.swept
                      /\ l.price \in Int /\ TurnedLevel(l, price).price \in Int
    OBVIOUS
  <2>1. l \in TdLevels
    BY <1>3
  <2>2. /\ TurnedLevel(l, price).price = 2 * price - l.price /\ TurnedLevel(l, price).swept = l.swept /\ l.price \in Int
    BY <2>1, LevelTurned, Zenon
  <2> QED
    BY <1>0, <2>2
<1>7. PICK above : above = OpenAbove(v, price)
  OBVIOUS
<1>8. PICK below : below = OpenBelow(v, price)
  OBVIOUS
<1>9. PICK up : up = OpenAbove(w, price)
  OBVIOUS
<1>10. PICK down : down = OpenBelow(w, price)
  OBVIOUS
<1>11. \A x : x \in above <=> \E l \in S : ~l.swept /\ l.price > price /\ x = l.price
  BY <1>2, <1>7 DEF OpenAbove
<1>12. \A x : x \in below <=> \E l \in S : ~l.swept /\ l.price < price /\ x = l.price
  BY <1>2, <1>8 DEF OpenBelow
<1>13. \A x : x \in up <=> \E l \in T : ~l.swept /\ l.price > price /\ x = l.price
  BY <1>5, <1>9 DEF OpenAbove
<1>14. \A x : x \in down <=> \E l \in T : ~l.swept /\ l.price < price /\ x = l.price
  BY <1>5, <1>10 DEF OpenBelow
<1>15. \A x : x \in up <=> \E l \in S : ~l.swept /\ q - l.price > price /\ x = q - l.price
  <2> SUFFICES ASSUME NEW x PROVE x \in up <=> \E l \in S : ~l.swept /\ q - l.price > price /\ x = q - l.price
    OBVIOUS
  <2>1. ASSUME x \in up PROVE \E l \in S : ~l.swept /\ q - l.price > price /\ x = q - l.price
    <3>1. PICK k \in T : ~k.swept /\ k.price > price /\ x = k.price
      BY <1>13, <2>1
    <3>2. PICK l \in S : k = TurnedLevel(l, price)
      BY <1>4
    <3> QED
      BY <1>6, <3>1, <3>2
  <2>2. ASSUME NEW l \in S, ~l.swept, q - l.price > price, x = q - l.price PROVE x \in up
    <3>1. TurnedLevel(l, price) \in T
      BY <1>4
    <3>2. ~TurnedLevel(l, price).swept /\ TurnedLevel(l, price).price > price /\ x = TurnedLevel(l, price).price
      BY <1>6, <2>2
    <3> QED
      BY <1>13, <3>1, <3>2, Zenon
  <2> QED
    BY <2>1, <2>2
<1>16. \A x : x \in down <=> \E l \in S : ~l.swept /\ q - l.price < price /\ x = q - l.price
  <2> SUFFICES ASSUME NEW x PROVE x \in down <=> \E l \in S : ~l.swept /\ q - l.price < price /\ x = q - l.price
    OBVIOUS
  <2>1. ASSUME x \in down PROVE \E l \in S : ~l.swept /\ q - l.price < price /\ x = q - l.price
    <3>1. PICK k \in T : ~k.swept /\ k.price < price /\ x = k.price
      BY <1>14, <2>1
    <3>2. PICK l \in S : k = TurnedLevel(l, price)
      BY <1>4
    <3> QED
      BY <1>6, <3>1, <3>2
  <2>2. ASSUME NEW l \in S, ~l.swept, q - l.price < price, x = q - l.price PROVE x \in down
    <3>1. TurnedLevel(l, price) \in T
      BY <1>4
    <3>2. ~TurnedLevel(l, price).swept /\ TurnedLevel(l, price).price < price /\ x = TurnedLevel(l, price).price
      BY <1>6, <2>2
    <3> QED
      BY <1>14, <3>1, <3>2, Zenon
  <2> QED
    BY <2>1, <2>2
<1>17. \A l \in S : l.price \in Int
  BY <1>6
<1>18. above \in SUBSET Int /\ below \in SUBSET Int /\ up \in SUBSET Int /\ down \in SUBSET Int
  BY <1>0, <1>11, <1>12, <1>15, <1>16, <1>17
<1>19. \A x \in Int : (x \in below <=> q - x \in up) /\ (x \in above <=> q - x \in down)
  <2> SUFFICES ASSUME NEW x \in Int PROVE (x \in below <=> q - x \in up) /\ (x \in above <=> q - x \in down)
    OBVIOUS
  <2>1. \A l \in S : (l.price < price <=> q - l.price > price) /\ (l.price > price <=> q - l.price < price)
                     /\ (x = l.price <=> q - x = q - l.price)
    BY <1>0, <1>17
  <2>2. x \in below <=> q - x \in up
    BY <1>12, <1>15, <2>1
  <2>3. x \in above <=> q - x \in down
    BY <1>11, <1>16, <2>1
  <2> QED
    BY <2>2, <2>3
<1>20. About(q, below, up) /\ About(q, above, down)
  <2>1. \A x \in below : x \in Int /\ q - x \in up
    BY <1>18, <1>19
  <2>2. \A x \in above : x \in Int /\ q - x \in down
    BY <1>18, <1>19
  <2>3. \A y \in up : q - y \in below
    <3> SUFFICES ASSUME NEW y \in up PROVE q - y \in below
      OBVIOUS
    <3>0. y \in Int /\ q \in Int
      BY <1>0, <1>18
    <3>0a. q - y \in Int
      BY <3>0
    <3>1. PICK x \in Int : x = q - y
      BY <3>0a, Zenon
    <3>2. q - x = y
      BY <3>0, <3>1
    <3>3. q - x \in up
      BY <3>2, Zenon
    <3>4. x \in below
      BY <1>19, <3>3, Zenon
    <3> QED
      BY <3>1, <3>4, Zenon
  <2>4. \A y \in down : q - y \in above
    <3> SUFFICES ASSUME NEW y \in down PROVE q - y \in above
      OBVIOUS
    <3>0. y \in Int /\ q \in Int
      BY <1>0, <1>18
    <3>0a. q - y \in Int
      BY <3>0
    <3>1. PICK x \in Int : x = q - y
      BY <3>0a, Zenon
    <3>2. q - x = y
      BY <3>0, <3>1
    <3>3. q - x \in down
      BY <3>2, Zenon
    <3>4. x \in above
      BY <1>19, <3>3, Zenon
    <3> QED
      BY <3>1, <3>4, Zenon
  <2> QED
    BY <2>1, <2>2, <2>3, <2>4 DEF About
<1>21. IsFiniteSet(above) /\ IsFiniteSet(below) /\ IsFiniteSet(up) /\ IsFiniteSet(down)
  <2>a. PICK g : g = [l \in S |-> l.price]
    OBVIOUS
  <2>b. PICK h : h = [l \in S |-> q - l.price]
    OBVIOUS
  <2> DEFINE P == {g[l] : l \in S}
             Q == {h[l] : l \in S}
  <2>1. IsFiniteSet(P)
    BY <1>3, ImageIsFinite
  <2>2. IsFiniteSet(Q)
    BY <1>3, ImageIsFinite
  <2>3. above \subseteq P /\ below \subseteq P
    BY <1>11, <1>12, <2>a
  <2>4. up \subseteq Q /\ down \subseteq Q
    BY <1>15, <1>16, <2>b
  <2> HIDE DEF P, Q
  <2> QED
    BY <2>1, <2>2, <2>3, <2>4, FS_Subset
<1>22. TwinSets(q, below, up) /\ TwinSets(q, above, down)
  BY <1>0, <1>18, <1>20, <1>21 DEF TwinSets
<1> QED
  BY <1>1, <1>7, <1>8, <1>9, <1>10, <1>22, Zenon

LEMMA SwingsTurn ==
    ASSUME NEW S \in SUBSET Int, IsFiniteSet(S), NEW q \in Int, NEW T, T = {q - p : p \in S}
    PROVE  TwinSets(q, S, T)
<1>1. PICK h : h = [p \in S |-> q - p]
  OBVIOUS
<1>2. T = {h[p] : p \in S}
  BY <1>1
<1>3. IsFiniteSet(T)
  <2>1. IsFiniteSet({h[p] : p \in S})
    BY ImageIsFinite
  <2> QED
    BY <1>2, <2>1, Zenon
<1>4. T \in SUBSET Int
  OBVIOUS
<1>5. \A y \in T : q - y \in S
  <2> SUFFICES ASSUME NEW y \in T PROVE q - y \in S
    OBVIOUS
  <2>1. PICK p \in S : y = q - p
    OBVIOUS
  <2>2. q - y = p
    BY <2>1
  <2> QED
    BY <2>2
<1> QED
  BY <1>3, <1>4, <1>5 DEF TwinSets, About

\* The swings beyond the price: those below it, and those of the turned view above it.
LEMMA BeyondTurns ==
    ASSUME NEW q, NEW price \in Int, Axis(q, price), NEW S, NEW T, TwinSets(q, S, T)
    PROVE  /\ TwinSets(q, {p \in S : p < price}, {p \in T : p > price})
           /\ TwinSets(q, {p \in S : p > price}, {p \in T : p < price})
<1>1. q \in Int /\ q = 2 * price /\ S \in SUBSET Int /\ T \in SUBSET Int /\ About(q, S, T)
  BY DEF TwinSets, Axis
<1>2. \A x \in S : q - x \in T /\ (x < price <=> q - x > price) /\ (x > price <=> q - x < price)
  BY <1>1 DEF About
<1>3. Alike(q, S, {p \in S : p < price}, {p \in T : p > price})
  BY <1>2 DEF Alike
<1>4. Alike(q, S, {p \in S : p > price}, {p \in T : p < price})
  BY <1>2 DEF Alike
<1> DEFINE A == {p \in S : p < price}
           B == {p \in T : p > price}
           C == {p \in S : p > price}
           D == {p \in T : p < price}
<1>5. A \subseteq S /\ B \subseteq T /\ C \subseteq S /\ D \subseteq T
  OBVIOUS
<1>6. Alike(q, S, A, B) /\ Alike(q, S, C, D)
  BY <1>3, <1>4
<1> HIDE DEF A, B, C, D
<1>7. TwinSets(q, A, B) /\ TwinSets(q, C, D)
  BY <1>5, <1>6, TwinsKept
<1> QED
  BY <1>7 DEF A, B, C, D

StopsMirror(v, w, q, price) ==
    \/ Invalidation(v, price) = {} /\ Invalidation(w, price) = {}
    \/ \E sl \in Int : Invalidation(v, price) = {sl} /\ Invalidation(w, price) = {q - sl}

\* The stop of the turned view is the turned stop.
LEMMA StopsTurn ==
    ASSUME NEW v \in TdViews, NEW price \in Int, NEW q, Axis(q, price)
    PROVE  StopsMirror(v, TurnedView(v, price), q, price)
<1>0. q \in Int /\ q = 2 * price
  BY DEF Axis
<1>1. PICK w : w = TurnedView(v, price)
  OBVIOUS
<1>2. v.lows \in SUBSET Int /\ v.highs \in SUBSET Int /\ IsFiniteSet(v.lows) /\ IsFiniteSet(v.highs)
  BY ViewTyped
<1>3. w.lows = {q - p : p \in v.highs} /\ w.highs = {q - p : p \in v.lows}
  <2>1. ViewParts(v, price, w)
    BY <1>1, ViewTurned
  <2>2. w.lows = {2 * price - p : p \in v.highs} /\ w.highs = {2 * price - p : p \in v.lows}
    BY <2>1, Zenon DEF ViewParts
  <2> QED
    BY <1>0, <2>2
<1>4. TwinSets(q, v.lows, w.highs) /\ TwinSets(q, v.highs, w.lows)
  BY <1>0, <1>2, <1>3, SwingsTurn
<1>5. PICK lows : lows = {p \in v.lows : p < price}
  OBVIOUS
<1>6. PICK highs : highs = {p \in v.highs : p > price}
  OBVIOUS
<1>7. PICK lows2 : lows2 = {p \in w.lows : p < price}
  OBVIOUS
<1>8. PICK highs2 : highs2 = {p \in w.highs : p > price}
  OBVIOUS
<1>9. TwinSets(q, lows, highs2) /\ TwinSets(q, highs, lows2)
  <2>1. TwinSets(q, {p \in v.lows : p < price}, {p \in w.highs : p > price})
    BY <1>4, BeyondTurns, Zenon
  <2>2. TwinSets(q, {p \in v.highs : p > price}, {p \in w.lows : p < price})
    BY <1>4, BeyondTurns, Zenon
  <2> QED
    BY <1>5, <1>6, <1>7, <1>8, <2>1, <2>2, Zenon
<1>10. (lows = {} <=> highs2 = {}) /\ (highs = {} <=> lows2 = {})
  BY <1>9 DEF TwinSets, About
<1>11. lows # {} => Min(highs2) = q - Max(lows) /\ Max(lows) \in Int
  BY <1>9, TwinsEnd
<1>12. highs # {} => Max(lows2) = q - Min(highs) /\ Min(highs) \in Int
  BY <1>9, TwinsEnd
<1>13. Invalidation(v, price) = CASE SideOf(v) = "long"  /\ lows # {}  -> {Max(lows)}
                                  [] SideOf(v) = "short" /\ highs # {} -> {Min(highs)}
                                  [] OTHER -> {}
  BY <1>5, <1>6, Zenon DEF Invalidation
<1>14. Invalidation(w, price) = CASE SideOf(w) = "long"  /\ lows2 # {}  -> {Max(lows2)}
                                  [] SideOf(w) = "short" /\ highs2 # {} -> {Min(highs2)}
                                  [] OTHER -> {}
  BY <1>7, <1>8, Zenon DEF Invalidation
<1>15. SideOf(v) \in {"long", "short", "undefined"} /\ SideOf(w) = Upended[SideOf(v)]
  BY <1>1, ReconcileTurns
<1>16. CASE SideOf(v) = "long"
  <2>1. SideOf(w) = "short"
    BY <1>15, <1>16, Upends
  <2>2. CASE lows = {}
    <3>1. highs2 = {}
      BY <1>10, <2>2
    <3>2. Invalidation(v, price) = {}
      BY <1>13, <1>16, <2>2
    <3>3. Invalidation(w, price) = {}
      BY <1>14, <2>1, <3>1
    <3> QED
      BY <1>1, <3>2, <3>3, Zenon DEF StopsMirror
  <2>3. CASE lows # {}
    <3>1. Invalidation(v, price) = {Max(lows)}
      BY <1>13, <1>16, <2>3
    <3>2. Invalidation(w, price) = {Min(highs2)}
      BY <1>10, <1>14, <2>1, <2>3
    <3>3. PICK sl \in Int : sl = Max(lows)
      BY <1>11, <2>3
    <3>4. Invalidation(v, price) = {sl} /\ Invalidation(w, price) = {q - sl}
      BY <1>11, <2>3, <3>1, <3>2, <3>3, Zenon
    <3> QED
      BY <1>1, <3>4, Zenon DEF StopsMirror
  <2> QED
    BY <1>1, <2>2, <2>3
<1>17. CASE SideOf(v) = "short"
  <2>1. SideOf(w) = "long"
    BY <1>15, <1>17, Upends
  <2>2. CASE highs = {}
    <3>1. lows2 = {}
      BY <1>10, <2>2
    <3>2. Invalidation(v, price) = {}
      BY <1>13, <1>17, <2>2
    <3>3. Invalidation(w, price) = {}
      BY <1>14, <2>1, <3>1
    <3> QED
      BY <1>1, <3>2, <3>3, Zenon DEF StopsMirror
  <2>3. CASE highs # {}
    <3>1. Invalidation(v, price) = {Min(highs)}
      BY <1>13, <1>17, <2>3
    <3>2. Invalidation(w, price) = {Max(lows2)}
      BY <1>10, <1>14, <2>1, <2>3
    <3>3. PICK sl \in Int : sl = Min(highs)
      BY <1>12, <2>3
    <3>4. Invalidation(v, price) = {sl} /\ Invalidation(w, price) = {q - sl}
      BY <1>12, <2>3, <3>1, <3>2, <3>3, Zenon
    <3> QED
      BY <1>1, <3>4, Zenon DEF StopsMirror
  <2> QED
    BY <1>1, <2>2, <2>3
<1>18. CASE SideOf(v) = "undefined"
  <2>1. SideOf(w) = "undefined"
    BY <1>15, <1>18, Upends
  <2> QED
    BY <1>1, <1>13, <1>14, <1>18, <2>1 DEF StopsMirror
<1> QED
  BY <1>15, <1>16, <1>17, <1>18

\* The play of the turned view is the turned play.
LEMMA TripletTurns ==
    ASSUME NEW v \in TdViews, NEW price \in Int
    PROVE  Triplet(TurnedView(v, price), price) = TurnedPlays(Triplet(v, price), price)
<1>1. PICK w : w = TurnedView(v, price)
  OBVIOUS
<1>2. PICK q : q = 2 * price
  OBVIOUS
<1>3. Axis(q, price) /\ q \in Int /\ q - price = price
  BY <1>2 DEF Axis
<1>4. StopsMirror(v, w, q, price)
  BY <1>1, <1>3, StopsTurn
<1>5. PICK above : above = OpenAbove(v, price)
  OBVIOUS
<1>6. PICK below : below = OpenBelow(v, price)
  OBVIOUS
<1>7. PICK up : up = OpenAbove(w, price)
  OBVIOUS
<1>8. PICK down : down = OpenBelow(w, price)
  OBVIOUS
<1>9. TwinSets(q, below, up) /\ TwinSets(q, above, down)
  BY <1>1, <1>3, <1>5, <1>6, <1>7, <1>8, OpenTurns, Zenon
<1>10. /\ above \in SUBSET Int /\ below \in SUBSET Int /\ up \in SUBSET Int /\ down \in SUBSET Int
       /\ IsFiniteSet(above) /\ IsFiniteSet(below) /\ IsFiniteSet(up) /\ IsFiniteSet(down)
       /\ About(q, below, up) /\ About(q, above, down)
  BY <1>9 DEF TwinSets
<1>11. SideOf(v) \in {"long", "short", "undefined"} /\ SideOf(w) = Upended[SideOf(v)]
  BY <1>1, ReconcileTurns
<1>12. PICK atr : atr = v.atr
  OBVIOUS
<1>13. w.atr = atr
  <2>1. ViewParts(v, price, w)
    BY <1>1, ViewTurned
  <2> QED
    BY <1>12, <2>1, Zenon DEF ViewParts
<1>14. TurnedPlays({}, price) = {}
  BY DEF TurnedPlays
<1>15. CASE Invalidation(v, price) = {} /\ Invalidation(w, price) = {}
  <2>1. Triplet(v, price) = {} /\ Triplet(w, price) = {}
    BY <1>15, TripletHas, Zenon
  <2> QED
    BY <1>1, <1>14, <2>1, Zenon
<1>16. ASSUME NEW sl \in Int, Invalidation(v, price) = {sl}, Invalidation(w, price) = {q - sl}
       PROVE  Triplet(w, price) = TurnedPlays(Triplet(v, price), price)
  <2>1. PICK sl2 : sl2 = q - sl
    OBVIOUS
  <2>2. sl2 \in Int /\ q - sl2 = sl
    BY <1>3, <2>1
  <2>3. Invalidation(w, price) = {sl2}
    BY <1>16, <2>1, Zenon
  <2>4. /\ SideOf(v) = "short" => Triplet(v, price) = IF above # {} THEN ShortPlay(above, below, sl, price, atr) ELSE {}
        /\ SideOf(v) = "long" => Triplet(v, price) = IF below # {} THEN LongPlay(above, below, sl, price, atr) ELSE {}
    BY <1>5, <1>6, <1>12, <1>16, TripletHas, Zenon
  <2>5. /\ SideOf(w) = "short" => Triplet(w, price) = IF up # {} THEN ShortPlay(up, down, sl2, price, atr) ELSE {}
        /\ SideOf(w) = "long" => Triplet(w, price) = IF down # {} THEN LongPlay(up, down, sl2, price, atr) ELSE {}
    BY <1>7, <1>8, <1>13, <2>3, TripletHas, Zenon
  <2>6. CASE SideOf(v) = "long"
    <3>1. SideOf(w) = "short"
      BY <1>11, <2>6, Upends
    <3>2. CASE below = {}
      <4>1. up = {}
        BY <1>10, <3>2 DEF About
      <4> QED
        BY <1>14, <2>4, <2>5, <2>6, <3>1, <3>2, <4>1, Zenon
    <3>3. CASE below # {}
      <4>0. TwinMarkets(price, q, above, below, up, down, sl, sl2)
        BY <1>3, <1>10, <2>1, <3>3 DEF TwinMarkets
      <4>1. /\ ShortPlay(up, down, sl2, price, atr) = TurnedPlays(LongPlay(above, below, sl, price, atr), price)
            /\ up # {}
        BY <4>0, BranchesTurn
      <4> QED
        BY <2>4, <2>5, <2>6, <3>1, <3>3, <4>1, Zenon
    <3> QED
      BY <3>2, <3>3
  <2>7. CASE SideOf(v) = "short"
    <3>1. SideOf(w) = "long"
      BY <1>11, <2>7, Upends
    <3>2. CASE down = {}
      <4>1. above = {}
        BY <1>10, <3>2 DEF About
      <4> QED
        BY <1>14, <2>4, <2>5, <2>7, <3>1, <3>2, <4>1, Zenon
    <3>3. CASE down # {}
      <4>1. About(q, down, above) /\ About(q, up, below)
        BY <1>10 DEF About
      <4>2. PICK sl3 : sl3 = q - sl2
        OBVIOUS
      <4>2a. TwinMarkets(price, q, up, down, above, below, sl2, sl3)
        BY <1>3, <1>10, <2>2, <3>3, <4>1, <4>2 DEF TwinMarkets
      <4>3. /\ LongPlay(up, down, sl2, price, atr) = TurnedPlays(ShortPlay(above, below, sl3, price, atr), price)
            /\ above # {}
        BY <4>2a, BranchesTurn
      <4>4. sl3 = sl
        BY <2>2, <4>2, Zenon
      <4>5. LongPlay(up, down, sl2, price, atr) = TurnedPlays(ShortPlay(above, below, sl, price, atr), price)
        BY <4>3, <4>4, Zenon
      <4> QED
        BY <2>4, <2>5, <2>7, <3>1, <3>3, <4>3, <4>5, Zenon
    <3> QED
      BY <3>2, <3>3
  <2>8. CASE SideOf(v) = "undefined"
    <3>1. SideOf(w) = "undefined"
      BY <1>11, <2>8, Upends
    <3>2. Triplet(v, price) = {} /\ Triplet(w, price) = {}
      BY <2>8, <3>1, TripletHas
    <3> QED
      BY <1>14, <3>2, Zenon
  <2> QED
    BY <1>11, <2>6, <2>7, <2>8
<1> QED
  BY <1>1, <1>4, <1>15, <1>16, Zenon DEF StopsMirror

\* The facts of a tag, one by one.
NearBlock(v, p, want) == \E b \in v.blocks : b.dir = want /\ Away(b.price, p) * 1000 <= 15 * p
Impelled(v, way) == v.impulse.size \in {"big", "extreme"} /\ v.impulse.dir = way
WickTaps(v, c, type) == Tapped(v, c) # {} /\ TapType(v, c) = type
Flips(v) == \E f \in Frames \ {"4h"} : FlippedOn(v, f)
TagFacts(v, c, want, way, type) ==
    [htf_4h_aligned   |-> v.trend["4h"] = want,
     htf_1h_aligned   |-> v.trend["1h"] = want,
     ltf_15m_aligned  |-> v.trend["15m"] = want,
     conf_high        |-> Reconciled(v)[2] = "high",
     ob_aligned_near  |-> NearBlock(v, c.close, want),
     fvg_aligned      |-> want \in v.gaps,
     impulse_aligned  |-> Impelled(v, way),
     wick_tap_aligned |-> WickTaps(v, c, type),
     inducement       |-> Induced(v),
     structure_flip   |-> Flips(v)]

Want(side) == IF side = "long" THEN "bullish" ELSE "bearish"
Way(side) == IF side = "long" THEN "bull" ELSE "bear"
Tap(side) == IF side = "long" THEN "ssl" ELSE "bsl"
FactsFor(v, c, side) == TagFacts(v, c, Want(side), Way(side), Tap(side))

LEMMA TagsAre ==
    ASSUME NEW v, NEW c
    PROVE  Tags(v, c) = IF SideOf(v) = "undefined" THEN {}
                        ELSE {t \in DOMAIN FactsFor(v, c, SideOf(v)) : FactsFor(v, c, SideOf(v))[t]}
<1>1. PICK facts : facts = FactsFor(v, c, SideOf(v))
  OBVIOUS
<1>2. Tags(v, c) = IF SideOf(v) = "undefined" THEN {} ELSE {t \in DOMAIN facts : facts[t]}
  BY <1>1, Zenon DEF Tags, FactsFor, TagFacts, NearBlock, Impelled, WickTaps, Flips, Want, Way, Tap
<1> QED
  BY <1>1, <1>2, Zenon

-----------------------------------------------------------------------------
LEMMA BreakTurned ==
    ASSUME NEW b \in TdBreaks
    PROVE  /\ TurnedBreak(b) \in TdBreaks /\ TurnedBreak(b).dir = Upended[b.dir] /\ TurnedBreak(b).at = b.at
           /\ b.dir \in {"bullish", "bearish"}
BY DEF TurnedBreak, TdBreaks, Upended

BreaksAlike(s, t) ==
    /\ s \in Seq(TdBreaks) /\ t \in Seq(TdBreaks) /\ Len(t) = Len(s)
    /\ \A i \in 1..Len(s) : t[i].dir = Upended[s[i].dir] /\ t[i].at = s[i].at /\ s[i].dir \in {"bullish", "bearish"}

LEMMA BreaksTurned ==
    ASSUME NEW v \in TdViews, NEW axis, NEW f \in Frames
    PROVE  BreaksAlike(v.breaks[f], TurnedView(v, axis).breaks[f])
<1>1. PICK w : w = TurnedView(v, axis)
  OBVIOUS
<1>2. PICK s : s = v.breaks[f]
  OBVIOUS
<1>3. s \in Seq(TdBreaks)
  BY <1>2, ViewTyped
<1>4. PICK t : t = [i \in DOMAIN s |-> TurnedBreak(s[i])]
  OBVIOUS
<1>5. w.breaks[f] = t
  <2>1. ViewParts(v, axis, w)
    BY <1>1, ViewTurned
  <2>2. w.breaks = [g \in Frames |-> [i \in DOMAIN v.breaks[g] |-> TurnedBreak(v.breaks[g][i])]]
    BY <2>1, Zenon DEF ViewParts
  <2>3. w.breaks[f] = [i \in DOMAIN v.breaks[f] |-> TurnedBreak(v.breaks[f][i])]
    BY <2>2, Zenon
  <2> QED
    BY <1>2, <1>4, <2>3, Zenon
<1>6. \A i \in 1..Len(s) : TurnedBreak(s[i]) \in TdBreaks /\ TurnedBreak(s[i]).dir = Upended[s[i].dir]
                           /\ TurnedBreak(s[i]).at = s[i].at /\ s[i].dir \in {"bullish", "bearish"}
  BY <1>3, BreakTurned
<1>7. DOMAIN s = 1..Len(s) /\ Len(s) \in Nat
  BY <1>3
<1>8. t \in [1..Len(s) -> TdBreaks]
  BY <1>4, <1>6, <1>7
<1>9. t \in Seq(TdBreaks) /\ Len(t) = Len(s)
  BY <1>7, <1>8
<1>10. \A i \in 1..Len(s) : t[i] = TurnedBreak(s[i])
  BY <1>4, <1>7
<1>11. BreaksAlike(s, t)
  BY <1>3, <1>6, <1>9, <1>10 DEF BreaksAlike
<1> QED
  BY <1>1, <1>2, <1>5, <1>11, Zenon

\* A timeframe flipped against the 4H one before as after.
LEMMA FlipTurns ==
    ASSUME NEW v \in TdViews, NEW axis, NEW f \in Frames
    PROVE  FlippedOn(TurnedView(v, axis), f) <=> FlippedOn(v, f)
<1>1. PICK w : w = TurnedView(v, axis)
  OBVIOUS
<1>2. PICK s : s = v.breaks[f]
  OBVIOUS
<1>3. PICK t : t = w.breaks[f]
  OBVIOUS
<1>4. BreaksAlike(s, t)
  BY <1>1, <1>2, <1>3, BreaksTurned
<1>5. s \in Seq(TdBreaks) /\ t \in Seq(TdBreaks) /\ Len(t) = Len(s) /\ Len(s) \in Nat
  BY <1>4 DEF BreaksAlike
<1>6. (s = << >> <=> Len(s) = 0) /\ (t = << >> <=> Len(s) = 0)
  BY <1>5
<1>7. PICK h : h = v.trend["4h"]
  OBVIOUS
<1>8. PICK g : g = v.trend[f]
  OBVIOUS
<1>9. h \in Trends /\ w.trend["4h"] = Upended[h] /\ g \in Trends /\ w.trend[f] = Upended[g]
  <2>1. "4h" \in Frames
    BY DEF Frames
  <2> QED
    BY <1>1, <1>7, <1>8, <2>1, TrendsTurned
<1>10. \A x \in Trends : Upended[x] = "undefined" <=> x = "undefined"
  BY Upends DEF Trends
<1>11. \A x, y \in Trends : Upended[x] = Upended[y] <=> x = y
  BY Upends DEF Trends
<1>12. {"bullish", "bearish"} \subseteq Trends
  BY DEF Trends
<1>13. \A i \in 1..Len(s) : /\ (t[i].dir = Upended[g] <=> s[i].dir = g)
                            /\ (t[i].dir = Upended[h] <=> s[i].dir = h)
  BY <1>4, <1>9, <1>11, <1>12 DEF BreaksAlike
<1>14. FlippedOn(v, f) <=> /\ h # "undefined" /\ g # "undefined" /\ g # h /\ s # << >>
                           /\ s[Len(s)].dir = g /\ (Len(s) >= 2 => s[Len(s) - 1].dir = h)
  BY <1>2, <1>7, <1>8, Zenon DEF FlippedOn, LastBreak
<1>15. FlippedOn(w, f) <=> /\ Upended[h] # "undefined" /\ Upended[g] # "undefined" /\ Upended[g] # Upended[h] /\ t # << >>
                           /\ t[Len(t)].dir = Upended[g] /\ (Len(t) >= 2 => t[Len(t) - 1].dir = Upended[h])
  BY <1>3, <1>9, Zenon DEF FlippedOn, LastBreak
<1>16. /\ (Upended[h] # "undefined" <=> h # "undefined") /\ (Upended[g] # "undefined" <=> g # "undefined")
       /\ (Upended[g] # Upended[h] <=> g # h)
  BY <1>9, <1>10, <1>11, Zenon
<1>17. t # << >> <=> s # << >>
  BY <1>6
<1>18. s # << >> => (t[Len(t)].dir = Upended[g] <=> s[Len(s)].dir = g)
  <2> SUFFICES ASSUME s # << >> PROVE t[Len(t)].dir = Upended[g] <=> s[Len(s)].dir = g
    OBVIOUS
  <2>1. Len(s) \in 1..Len(s)
    BY <1>5, <1>6
  <2> QED
    BY <1>5, <1>13, <2>1, Zenon
<1>19. (Len(t) >= 2 => t[Len(t) - 1].dir = Upended[h]) <=> (Len(s) >= 2 => s[Len(s) - 1].dir = h)
  <2>1. Len(s) >= 2 => Len(s) - 1 \in 1..Len(s)
    BY <1>5
  <2> QED
    BY <1>5, <1>13, <2>1, Zenon
<1>20. FlippedOn(w, f) <=> FlippedOn(v, f)
  BY <1>14, <1>15, <1>16, <1>17, <1>18, <1>19, Zenon
<1> QED
  BY <1>1, <1>20, Zenon

LEMMA FlipsTurn ==
    ASSUME NEW v \in TdViews, NEW axis
    PROVE  Flips(TurnedView(v, axis)) <=> Flips(v)
BY FlipTurns DEF Flips

\* The inducement.
LEMMA InducedTurns ==
    ASSUME NEW v \in TdViews, NEW axis \in Int
    PROVE  Induced(TurnedView(v, axis)) <=> Induced(v)
<1>1. PICK w : w = TurnedView(v, axis)
  OBVIOUS
<1>2. PICK s : s = v.breaks["4h"]
  OBVIOUS
<1>3. PICK t : t = w.breaks["4h"]
  OBVIOUS
<1>4. BreaksAlike(s, t)
  <2>1. "4h" \in Frames
    BY DEF Frames
  <2> QED
    BY <1>1, <1>2, <1>3, <2>1, BreaksTurned
<1>5. s \in Seq(TdBreaks) /\ t \in Seq(TdBreaks) /\ Len(t) = Len(s) /\ Len(s) \in Nat
  BY <1>4 DEF BreaksAlike
<1>6. (s = << >> <=> Len(s) = 0) /\ (t = << >> <=> Len(s) = 0)
  BY <1>5
<1>7. t # << >> <=> s # << >>
  BY <1>6
<1>8. PICK b : b = s[Len(s)]
  OBVIOUS
<1>9. PICK d : d = t[Len(t)]
  OBVIOUS
<1>10. Induced(v) <=> /\ s # << >>
                      /\ \E l \in v.levels : l.frame = "4h" /\ l.swept /\ l.last < b.at
                                             /\ l.type = IF b.dir = "bearish" THEN "bsl" ELSE "ssl"
  BY <1>2, <1>8, Zenon DEF Induced, LastBreak
<1>11. Induced(w) <=> /\ t # << >>
                      /\ \E l \in w.levels : l.frame = "4h" /\ l.swept /\ l.last < d.at
                                             /\ l.type = IF d.dir = "bearish" THEN "bsl" ELSE "ssl"
  BY <1>3, <1>9, Zenon DEF Induced, LastBreak
<1>12. w.levels = {TurnedLevel(l, axis) : l \in v.levels}
  <2>1. ViewParts(v, axis, w)
    BY <1>1, ViewTurned
  <2> QED
    BY <2>1, Zenon DEF ViewParts
<1>13. \A l \in v.levels : /\ TurnedLevel(l, axis).type = Upended[l.type] /\ TurnedLevel(l, axis).swept = l.swept
                           /\ TurnedLevel(l, axis).frame = l.frame /\ TurnedLevel(l, axis).last = l.last
                           /\ l.type \in {"bsl", "ssl"}
  <2> SUFFICES ASSUME NEW l \in v.levels
               PROVE  /\ TurnedLevel(l, axis).type = Upended[l.type] /\ TurnedLevel(l, axis).swept = l.swept
                      /\ TurnedLevel(l, axis).frame = l.frame /\ TurnedLevel(l, axis).last = l.last
                      /\ l.type \in {"bsl", "ssl"}
    OBVIOUS
  <2>1. l \in TdLevels
    BY ViewTyped
  <2>2. l.type \in {"bsl", "ssl"}
    BY <2>1 DEF TdLevels
  <2> QED
    BY <2>1, <2>2, LevelTurned, Zenon
<1>14. CASE s # << >>
  <2>1. d.at = b.at /\ d.dir = Upended[b.dir] /\ b.dir \in {"bullish", "bearish"}
    <3>1. Len(s) \in 1..Len(s)
      BY <1>5, <1>6, <1>14
    <3> QED
      BY <1>4, <1>5, <1>8, <1>9, <3>1, Zenon DEF BreaksAlike
  <2>2. PICK kind : kind = IF b.dir = "bearish" THEN "bsl" ELSE "ssl"
    OBVIOUS
  <2>3. PICK kind2 : kind2 = IF d.dir = "bearish" THEN "bsl" ELSE "ssl"
    OBVIOUS
  <2>4. \A x \in {"bsl", "ssl"} : Upended[x] = kind2 <=> x = kind
    BY <2>1, <2>2, <2>3, Upends
  <2>5. \A l \in v.levels :
          (/\ TurnedLevel(l, axis).frame = "4h" /\ TurnedLevel(l, axis).swept /\ TurnedLevel(l, axis).last < d.at
           /\ TurnedLevel(l, axis).type = kind2)
          <=> (l.frame = "4h" /\ l.swept /\ l.last < b.at /\ l.type = kind)
    BY <1>13, <2>1, <2>4, Zenon
  <2>6. (\E k \in w.levels : k.frame = "4h" /\ k.swept /\ k.last < d.at /\ k.type = kind2)
          <=> \E l \in v.levels : l.frame = "4h" /\ l.swept /\ l.last < b.at /\ l.type = kind
    BY <1>12, <2>5, Zenon
  <2> QED
    BY <1>1, <1>7, <1>10, <1>11, <2>2, <2>3, <2>6, Zenon
<1>15. CASE s = << >>
  BY <1>1, <1>7, <1>10, <1>11, <1>15, Zenon
<1> QED
  BY <1>14, <1>15

Wants == {"bullish", "bearish"}

LEMMA BlocksTurn ==
    ASSUME NEW v \in TdViews, NEW price \in Int, NEW want \in Wants
    PROVE  NearBlock(TurnedView(v, price), price, Upended[want]) <=> NearBlock(v, price, want)
<1>1. PICK w : w = TurnedView(v, price)
  OBVIOUS
<1>2. w.blocks = {TurnedBlock(b, price) : b \in v.blocks}
  <2>1. ViewParts(v, price, w)
    BY <1>1, ViewTurned
  <2> QED
    BY <2>1, Zenon DEF ViewParts
<1>3. \A b \in v.blocks : b \in TdBlocks
  BY ViewTyped
<1>4. ASSUME NEW b \in TdBlocks
      PROVE  /\ TurnedBlock(b, price).dir = Upended[want] <=> b.dir = want
             /\ Away(TurnedBlock(b, price).price, price) = Away(b.price, price)
  <2>1. b.dir \in Wants /\ b.price \in Int
    BY DEF TdBlocks, Wants
  <2>2. TurnedBlock(b, price).dir = Upended[b.dir] /\ TurnedBlock(b, price).price = 2 * price - b.price
    BY DEF TurnedBlock, TdBlocks
  <2>3. \A x, y \in Wants : Upended[x] = Upended[y] <=> x = y
    BY Upends DEF Wants
  <2>4. TurnedBlock(b, price).dir = Upended[want] <=> b.dir = want
    BY <2>1, <2>2, <2>3, Zenon
  <2>5. PICK x \in Int : x = b.price
    BY <2>1
  <2>6. Away(2 * price - x, price) = Away(x, price)
    BY DEF Away
  <2>7. Away(TurnedBlock(b, price).price, price) = Away(b.price, price)
    BY <2>2, <2>5, <2>6, Zenon
  <2> QED
    BY <2>4, <2>7
<1>5. \A b \in v.blocks : (TurnedBlock(b, price).dir = Upended[want] /\ Away(TurnedBlock(b, price).price, price) * 1000 <= 15 * price)
                          <=> (b.dir = want /\ Away(b.price, price) * 1000 <= 15 * price)
  <2> SUFFICES ASSUME NEW b \in v.blocks
               PROVE  (TurnedBlock(b, price).dir = Upended[want] /\ Away(TurnedBlock(b, price).price, price) * 1000 <= 15 * price)
                      <=> (b.dir = want /\ Away(b.price, price) * 1000 <= 15 * price)
    OBVIOUS
  <2>1. b \in TdBlocks
    BY <1>3, Zenon
  <2>2. TurnedBlock(b, price).dir = Upended[want] <=> b.dir = want
    BY <1>4, <2>1, Zenon
  <2>3. Away(TurnedBlock(b, price).price, price) = Away(b.price, price)
    BY <1>4, <2>1, Zenon
  <2> QED
    BY <2>2, <2>3
<1>6. NearBlock(w, price, Upended[want]) <=> NearBlock(v, price, want)
  <2>1. ASSUME NearBlock(v, price, want) PROVE NearBlock(w, price, Upended[want])
    <3>1. PICK b \in v.blocks : b.dir = want /\ Away(b.price, price) * 1000 <= 15 * price
      BY <2>1, Zenon DEF NearBlock
    <3>2. PICK k : k = TurnedBlock(b, price)
      OBVIOUS
    <3>3. k.dir = Upended[want] /\ Away(k.price, price) * 1000 <= 15 * price
      BY <1>5, <3>1, <3>2
    <3>4. k \in w.blocks
      BY <1>2, <3>2
    <3> QED
      BY <3>3, <3>4, ZenonT(60) DEF NearBlock
  <2>2. ASSUME NearBlock(w, price, Upended[want]) PROVE NearBlock(v, price, want)
    <3>1. PICK k \in w.blocks : k.dir = Upended[want] /\ Away(k.price, price) * 1000 <= 15 * price
      BY <2>2, Zenon DEF NearBlock
    <3>2. PICK b \in v.blocks : k = TurnedBlock(b, price)
      BY <1>2
    <3>3. b.dir = want /\ Away(b.price, price) * 1000 <= 15 * price
      BY <1>5, <3>1, <3>2
    <3> QED
      BY <3>3, ZenonT(60) DEF NearBlock
  <2> QED
    BY <2>1, <2>2
<1> QED
  BY <1>1, <1>6, Zenon

LEMMA GapsTurn ==
    ASSUME NEW v \in TdViews, NEW axis, NEW want \in Wants
    PROVE  Upended[want] \in TurnedView(v, axis).gaps <=> want \in v.gaps
<1>1. PICK w : w = TurnedView(v, axis)
  OBVIOUS
<1>2. w.gaps = {Upended[g] : g \in v.gaps}
  <2>1. ViewParts(v, axis, w)
    BY <1>1, ViewTurned
  <2> QED
    BY <2>1, Zenon DEF ViewParts
<1>3. v.gaps \subseteq Wants
  BY ViewTyped DEF Wants
<1>4. \A x, y \in Wants : Upended[x] = Upended[y] <=> x = y
  BY Upends DEF Wants
<1>5. Upended[want] \in w.gaps <=> want \in v.gaps
  BY <1>2, <1>3, <1>4
<1> QED
  BY <1>1, <1>5, Zenon

LEMMA ImpulseTurns ==
    ASSUME NEW v \in TdViews, NEW axis, NEW way \in {"bull", "bear"}
    PROVE  Impelled(TurnedView(v, axis), Upended[way]) <=> Impelled(v, way)
<1>1. PICK w : w = TurnedView(v, axis)
  OBVIOUS
<1>2. PICK i : i = v.impulse
  OBVIOUS
<1>3. i \in [size : {"normal", "big", "extreme"}, dir : {"bull", "bear", "doji"}]
  BY <1>2, ViewTyped
<1>4. w.impulse = [i EXCEPT !.dir = Upended[i.dir]]
  <2>1. ViewParts(v, axis, w)
    BY <1>1, ViewTurned
  <2>2. w.impulse = [v.impulse EXCEPT !.dir = Upended[v.impulse.dir]]
    BY <2>1, Zenon DEF ViewParts
  <2> QED
    BY <1>2, <2>2, Zenon
<1>5. w.impulse.size = i.size /\ w.impulse.dir = Upended[i.dir] /\ i.dir \in {"bull", "bear", "doji"}
  BY <1>3, <1>4
<1>6. \A x, y \in {"bull", "bear", "doji"} : Upended[x] = Upended[y] <=> x = y
  BY Upends
<1>7. way \in {"bull", "bear", "doji"}
  OBVIOUS
<1>8. Upended[i.dir] = Upended[way] <=> i.dir = way
  BY <1>5, <1>6, <1>7, Zenon
<1>9. Impelled(w, Upended[way]) <=> Impelled(v, way)
  BY <1>2, <1>5, <1>8, Zenon DEF Impelled
<1> QED
  BY <1>1, <1>9, Zenon

\* The levels a candle's wick taps.
TapsOf(S, c) == {l \in S : /\ l.frame = "15m" /\ ~l.swept
                           /\ \/ l.type = "bsl" /\ c.high > l.price /\ c.close < l.price
                              \/ l.type = "ssl" /\ c.low < l.price /\ c.close > l.price}
MostOf(taps) == {l \in taps : \A k \in taps : k.touches <= l.touches}

LEMMA TappedIs ==
    ASSUME NEW v, NEW c
    PROVE  \A x : x \in Tapped(v, c) <=> \E l \in MostOf(TapsOf(v.levels, c)) : x = l.type
<1>1. Tapped(v, c) = {l.type : l \in MostOf(TapsOf(v.levels, c))}
  BY Zenon DEF Tapped, TapsOf, MostOf
<1> QED
  BY <1>1, Zenon


LEMMA TappedTurns ==
    ASSUME NEW v \in TdViews, NEW c \in TdTick
    PROVE  /\ Tapped(v, c) \subseteq {"bsl", "ssl"}
           /\ "bsl" \in Tapped(TurnedView(v, c.close), TurnedCandle(c)) <=> "ssl" \in Tapped(v, c)
           /\ "ssl" \in Tapped(TurnedView(v, c.close), TurnedCandle(c)) <=> "bsl" \in Tapped(v, c)
           /\ Tapped(TurnedView(v, c.close), TurnedCandle(c)) \subseteq {"bsl", "ssl"}
<1>1. PICK price : price = c.close
  OBVIOUS
<1>2. PICK w : w = TurnedView(v, price)
  OBVIOUS
<1>3. PICK u : u = TurnedCandle(c)
  OBVIOUS
<1>4. PICK S : S = v.levels
  OBVIOUS
<1>5. PICK T : T = w.levels
  OBVIOUS
<1>6. S \in SUBSET TdLevels
  BY <1>4, ViewTyped
<1>7. T = {TurnedLevel(l, price) : l \in S}
  <2>1. ViewParts(v, price, w)
    BY <1>2, ViewTurned
  <2> QED
    BY <1>4, <1>5, <2>1, Zenon DEF ViewParts
<1>8. /\ price \in Int /\ c.low \in Int /\ c.high \in Int
      /\ u.low = 2 * price - c.high /\ u.high = 2 * price - c.low /\ u.close = price
  BY <1>1, <1>3 DEF TurnedCandle, TdTick
<1>9. PICK A : A = TapsOf(S, c)
  OBVIOUS
<1>10. PICK B : B = TapsOf(T, u)
  OBVIOUS
<1>11. ASSUME NEW l \in S
       PROVE  /\ TurnedLevel(l, price) \in B <=> l \in A
              /\ TurnedLevel(l, price).touches = l.touches
              /\ TurnedLevel(l, price).type = Upended[l.type] /\ l.type \in {"bsl", "ssl"}
  <2>1. l \in TdLevels
    BY <1>6
  <2>2. l.type \in {"bsl", "ssl"} /\ l.price \in Int
    BY <2>1 DEF TdLevels
  <2>3. PICK k : k = TurnedLevel(l, price)
    OBVIOUS
  <2>4. /\ k.price = 2 * price - l.price /\ k.type = Upended[l.type]
        /\ k.swept = l.swept /\ k.frame = l.frame /\ k.touches = l.touches
    BY <1>8, <2>1, <2>3, LevelTurned, Zenon
  <2>5. k \in T
    BY <1>7, <2>3
  <2>6. (k.type = "bsl" <=> l.type = "ssl") /\ (k.type = "ssl" <=> l.type = "bsl")
    BY <2>2, <2>4, Upends
  <2>7. /\ u.low < k.price <=> c.high > l.price
        /\ u.high > k.price <=> c.low < l.price
        /\ u.close < k.price <=> c.close > l.price
        /\ u.close > k.price <=> c.close < l.price
    BY <1>1, <1>8, <2>2, <2>4
  <2>8. k \in B <=> /\ k.frame = "15m" /\ ~k.swept
                    /\ \/ k.type = "bsl" /\ u.high > k.price /\ u.close < k.price
                       \/ k.type = "ssl" /\ u.low < k.price /\ u.close > k.price
    BY <1>10, <2>5, Zenon DEF TapsOf
  <2>9. l \in A <=> /\ l.frame = "15m" /\ ~l.swept
                    /\ \/ l.type = "bsl" /\ c.high > l.price /\ c.close < l.price
                       \/ l.type = "ssl" /\ c.low < l.price /\ c.close > l.price
    BY <1>9, Zenon DEF TapsOf
  <2>10. k \in B <=> l \in A
    BY <2>4, <2>6, <2>7, <2>8, <2>9, Zenon
  <2> QED
    BY <2>2, <2>3, <2>4, <2>10, Zenon
<1>12. \A k \in B : \E l \in A : k = TurnedLevel(l, price)
  <2> SUFFICES ASSUME NEW k \in B PROVE \E l \in A : k = TurnedLevel(l, price)
    OBVIOUS
  <2>1. k \in T
    BY <1>10 DEF TapsOf
  <2>2. PICK l \in S : k = TurnedLevel(l, price)
    BY <1>7, <2>1, Zenon
  <2> QED
    BY <1>11, <2>2, Zenon
<1>13. A \subseteq S
  BY <1>9 DEF TapsOf
<1>14. \A l \in A : /\ TurnedLevel(l, price) \in B /\ TurnedLevel(l, price).touches = l.touches
                    /\ TurnedLevel(l, price).type = Upended[l.type] /\ l.type \in {"bsl", "ssl"}
  BY <1>11, <1>13, Zenon
<1>15. \A l \in A : TurnedLevel(l, price) \in MostOf(B) <=> l \in MostOf(A)
  <2> SUFFICES ASSUME NEW l \in A PROVE TurnedLevel(l, price) \in MostOf(B) <=> l \in MostOf(A)
    OBVIOUS
  <2>1. ASSUME l \in MostOf(A) PROVE TurnedLevel(l, price) \in MostOf(B)
    <3>1. \A k \in A : k.touches <= l.touches
      BY <2>1, Zenon DEF MostOf
    <3>2. \A k \in B : k.touches <= TurnedLevel(l, price).touches
      BY <1>12, <1>14, <3>1, Zenon
    <3> QED
      BY <1>14, <3>2, Zenon DEF MostOf
  <2>2. ASSUME TurnedLevel(l, price) \in MostOf(B) PROVE l \in MostOf(A)
    <3>1. \A k \in B : k.touches <= TurnedLevel(l, price).touches
      BY <2>2, Zenon DEF MostOf
    <3>2. \A k \in A : k.touches <= l.touches
      BY <1>14, <3>1, Zenon
    <3> QED
      BY <3>2, Zenon DEF MostOf
  <2> QED
    BY <2>1, <2>2
<1>16. MostOf(A) \subseteq A /\ MostOf(B) \subseteq B
  BY DEF MostOf
<1>17. \A x : x \in Tapped(v, c) <=> \E l \in MostOf(A) : x = l.type
  <2>1. MostOf(A) = MostOf(TapsOf(v.levels, c))
    BY <1>4, <1>9, Zenon
  <2>2. \A x : x \in Tapped(v, c) <=> \E l \in MostOf(TapsOf(v.levels, c)) : x = l.type
    BY TappedIs, Zenon
  <2> QED
    BY <2>1, <2>2
<1>18. \A x : x \in Tapped(w, u) <=> \E k \in MostOf(B) : x = k.type
  <2>1. MostOf(B) = MostOf(TapsOf(w.levels, u))
    BY <1>5, <1>10, Zenon
  <2>2. \A x : x \in Tapped(w, u) <=> \E k \in MostOf(TapsOf(w.levels, u)) : x = k.type
    BY TappedIs, Zenon
  <2> QED
    BY <2>1, <2>2
<1>19. \A x : x \in Tapped(w, u) <=> \E l \in MostOf(A) : x = Upended[l.type]
  <2> SUFFICES ASSUME NEW x PROVE x \in Tapped(w, u) <=> \E l \in MostOf(A) : x = Upended[l.type]
    OBVIOUS
  <2>1. ASSUME x \in Tapped(w, u) PROVE \E l \in MostOf(A) : x = Upended[l.type]
    <3>1. PICK k \in MostOf(B) : x = k.type
      BY <1>18, <2>1, Zenon
    <3>2. PICK l \in A : k = TurnedLevel(l, price)
      BY <1>12, <1>16, Zenon
    <3>3. l \in MostOf(A) /\ k.type = Upended[l.type]
      BY <1>14, <1>15, <3>2, Zenon
    <3> QED
      BY <3>1, <3>3, Zenon
  <2>2. ASSUME NEW l \in MostOf(A), x = Upended[l.type] PROVE x \in Tapped(w, u)
    <3>1. l \in A
      BY <1>16, Zenon
    <3>2. TurnedLevel(l, price) \in MostOf(B) /\ TurnedLevel(l, price).type = Upended[l.type]
      BY <1>14, <1>15, <3>1, Zenon
    <3> QED
      BY <1>18, <2>2, <3>2, Zenon
  <2> QED
    BY <2>1, <2>2, Zenon
<1>20. \A l \in MostOf(A) : /\ l.type \in {"bsl", "ssl"}
                            /\ Upended[l.type] = "bsl" <=> l.type = "ssl"
                            /\ Upended[l.type] = "ssl" <=> l.type = "bsl"
                            /\ Upended[l.type] \in {"bsl", "ssl"}
  <2>1. \A x \in {"bsl", "ssl"} : (Upended[x] = "bsl" <=> x = "ssl") /\ (Upended[x] = "ssl" <=> x = "bsl")
                                  /\ Upended[x] \in {"bsl", "ssl"}
    BY Upends
  <2> QED
    BY <1>14, <1>16, <2>1, Zenon
<1>21. Tapped(v, c) \subseteq {"bsl", "ssl"} /\ Tapped(w, u) \subseteq {"bsl", "ssl"}
  BY <1>17, <1>19, <1>20, Zenon
<1>22. ("bsl" \in Tapped(w, u) <=> "ssl" \in Tapped(v, c)) /\ ("ssl" \in Tapped(w, u) <=> "bsl" \in Tapped(v, c))
  BY <1>17, <1>19, <1>20, Zenon
<1> QED
  BY <1>1, <1>2, <1>3, <1>21, <1>22, Zenon

\* The tap's kind is the side's before as after.
LEMMA TapsTurn ==
    ASSUME NEW v \in TdViews, NEW c \in TdTick, Cardinality(Tapped(v, c)) < 2, NEW type \in {"bsl", "ssl"}
    PROVE  WickTaps(TurnedView(v, c.close), TurnedCandle(c), Upended[type]) <=> WickTaps(v, c, type)
<1>1. PICK w : w = TurnedView(v, c.close)
  OBVIOUS
<1>2. PICK u : u = TurnedCandle(c)
  OBVIOUS
<1>3. PICK A : A = Tapped(v, c)
  OBVIOUS
<1>4. PICK B : B = Tapped(w, u)
  OBVIOUS
<1>5. /\ A \subseteq {"bsl", "ssl"} /\ B \subseteq {"bsl", "ssl"}
      /\ "bsl" \in B <=> "ssl" \in A
      /\ "ssl" \in B <=> "bsl" \in A
  BY <1>1, <1>2, <1>3, <1>4, TappedTurns, Zenon
<1>6. ~("bsl" \in A /\ "ssl" \in A)
  <2> SUFFICES ASSUME "bsl" \in A, "ssl" \in A PROVE FALSE
    OBVIOUS
  <2>1. A = {"bsl", "ssl"}
    BY <1>5
  <2>2. Cardinality({"bsl", "ssl"}) = 2
    <3>1. IsFiniteSet({"bsl"}) /\ Cardinality({"bsl"}) = 1
      BY FS_Singleton
    <3>2. "ssl" \notin {"bsl"} /\ {"bsl", "ssl"} = {"bsl"} \cup {"ssl"}
      OBVIOUS
    <3>3. Cardinality({"bsl"} \cup {"ssl"}) = IF "ssl" \in {"bsl"} THEN Cardinality({"bsl"}) ELSE Cardinality({"bsl"}) + 1
      BY <3>1, FS_AddElement, Zenon
    <3>4. Cardinality({"bsl"} \cup {"ssl"}) = 2
      BY <3>1, <3>2, <3>3
    <3> QED
      BY <3>2, <3>4, Zenon
  <2> QED
    BY <1>3, <2>1, <2>2
<1>7. WickTaps(v, c, type) <=> A # {} /\ (IF "bsl" \in A THEN "bsl" ELSE "ssl") = type
  BY <1>3, Zenon DEF WickTaps, TapType
<1>8. WickTaps(w, u, Upended[type]) <=> B # {} /\ (IF "bsl" \in B THEN "bsl" ELSE "ssl") = Upended[type]
  BY <1>4, Zenon DEF WickTaps, TapType
<1>9. WickTaps(w, u, Upended[type]) <=> WickTaps(v, c, type)
  <2>1. CASE type = "bsl"
    <3>1. Upended[type] = "ssl"
      BY <2>1, Upends
    <3> QED
      BY <1>5, <1>6, <1>7, <1>8, <2>1, <3>1
  <2>2. CASE type = "ssl"
    <3>1. Upended[type] = "bsl"
      BY <2>2, Upends
    <3> QED
      BY <1>5, <1>6, <1>7, <1>8, <2>2, <3>1
  <2> QED
    BY <2>1, <2>2
<1> QED
  BY <1>1, <1>2, <1>9, Zenon

\* The side's own words, upended, are the other side's.
LEMMA WordsTurn ==
    ASSUME NEW side \in {"long", "short"}
    PROVE  /\ Upended[side] \in {"long", "short"}
           /\ Want(side) \in Wants /\ Want(Upended[side]) = Upended[Want(side)]
           /\ Way(side) \in {"bull", "bear"} /\ Way(Upended[side]) = Upended[Way(side)]
           /\ Tap(side) \in {"bsl", "ssl"} /\ Tap(Upended[side]) = Upended[Tap(side)]
BY Upends DEF Want, Way, Tap, Wants

\* The facts of the tags, upside down.
LEMMA FactsTurn ==
    ASSUME NEW v \in TdViews, NEW c \in TdTick, Cardinality(Tapped(v, c)) < 2, NEW side \in {"long", "short"}, NEW t
    PROVE  /\ DOMAIN FactsFor(TurnedView(v, c.close), TurnedCandle(c), Upended[side]) = DOMAIN FactsFor(v, c, side)
           /\ t \in DOMAIN FactsFor(v, c, side) =>
                 (FactsFor(TurnedView(v, c.close), TurnedCandle(c), Upended[side])[t] <=> FactsFor(v, c, side)[t])
<1>1. PICK price \in Int : price = c.close
  BY DEF TdTick
<1>2. PICK w : w = TurnedView(v, price)
  OBVIOUS
<1>3. PICK u : u = TurnedCandle(c)
  OBVIOUS
<1>4. u.close = price
  BY <1>1, <1>3 DEF TurnedCandle
<1>5. PICK want \in Wants : want = Want(side)
  BY WordsTurn
<1>6. PICK way \in {"bull", "bear"} : way = Way(side)
  BY WordsTurn
<1>7. PICK type \in {"bsl", "ssl"} : type = Tap(side)
  BY WordsTurn
<1>8. Want(Upended[side]) = Upended[want] /\ Way(Upended[side]) = Upended[way] /\ Tap(Upended[side]) = Upended[type]
  BY <1>5, <1>6, <1>7, WordsTurn, Zenon
<1>9. PICK f : f = TagFacts(v, c, want, way, type)
  OBVIOUS
<1>10. PICK g : g = TagFacts(w, u, Upended[want], Upended[way], Upended[type])
  OBVIOUS
<1>11. f = FactsFor(v, c, side) /\ g = FactsFor(TurnedView(v, c.close), TurnedCandle(c), Upended[side])
  BY <1>1, <1>2, <1>3, <1>5, <1>6, <1>7, <1>8, <1>9, <1>10, Zenon DEF FactsFor
<1>12. \A h \in Frames : w.trend[h] = Upended[want] <=> v.trend[h] = want
  <2> SUFFICES ASSUME NEW h \in Frames PROVE w.trend[h] = Upended[want] <=> v.trend[h] = want
    OBVIOUS
  <2>1. v.trend[h] \in Trends /\ w.trend[h] = Upended[v.trend[h]]
    BY <1>2, TrendsTurned
  <2>2. \A x \in Trends : Upended[x] = Upended[want] <=> x = want
    BY Upends DEF Trends, Wants
  <2> QED
    BY <2>1, <2>2, Zenon
<1>13. "4h" \in Frames /\ "1h" \in Frames /\ "15m" \in Frames
  BY DEF Frames
<1>14. w.trend["4h"] = Upended[want] <=> v.trend["4h"] = want
  BY <1>12, <1>13, Zenon
<1>15. w.trend["1h"] = Upended[want] <=> v.trend["1h"] = want
  BY <1>12, <1>13, Zenon
<1>16. w.trend["15m"] = Upended[want] <=> v.trend["15m"] = want
  BY <1>12, <1>13, Zenon
<1>17. Reconciled(w)[2] = Reconciled(v)[2]
  BY <1>2, ReconcileTurns
<1>18. NearBlock(w, u.close, Upended[want]) <=> NearBlock(v, c.close, want)
  BY <1>1, <1>2, <1>4, BlocksTurn, Zenon
<1>19. Upended[want] \in w.gaps <=> want \in v.gaps
  BY <1>2, GapsTurn, Zenon
<1>20. Impelled(w, Upended[way]) <=> Impelled(v, way)
  BY <1>2, ImpulseTurns, Zenon
<1>21. WickTaps(w, u, Upended[type]) <=> WickTaps(v, c, type)
  BY <1>1, <1>2, <1>3, TapsTurn, Zenon
<1>22. Induced(w) <=> Induced(v)
  BY <1>2, InducedTurns, Zenon
<1>23. Flips(w) <=> Flips(v)
  BY <1>2, FlipsTurn, Zenon
<1> DEFINE Names == {"htf_4h_aligned", "htf_1h_aligned", "ltf_15m_aligned", "conf_high", "ob_aligned_near",
                     "fvg_aligned", "impulse_aligned", "wick_tap_aligned", "inducement", "structure_flip"}
<1>24. DOMAIN f = Names /\ DOMAIN g = Names
  BY <1>9, <1>10 DEF TagFacts
<1>25. /\ f.htf_4h_aligned <=> v.trend["4h"] = want
       /\ f.htf_1h_aligned <=> v.trend["1h"] = want
       /\ f.ltf_15m_aligned <=> v.trend["15m"] = want
       /\ f.conf_high <=> Reconciled(v)[2] = "high"
       /\ f.ob_aligned_near <=> NearBlock(v, c.close, want)
       /\ f.fvg_aligned <=> want \in v.gaps
       /\ f.impulse_aligned <=> Impelled(v, way)
       /\ f.wick_tap_aligned <=> WickTaps(v, c, type)
       /\ f.inducement <=> Induced(v)
       /\ f.structure_flip <=> Flips(v)
  BY <1>9 DEF TagFacts
<1>26. /\ g.htf_4h_aligned <=> w.trend["4h"] = Upended[want]
       /\ g.htf_1h_aligned <=> w.trend["1h"] = Upended[want]
       /\ g.ltf_15m_aligned <=> w.trend["15m"] = Upended[want]
       /\ g.conf_high <=> Reconciled(w)[2] = "high"
       /\ g.ob_aligned_near <=> NearBlock(w, u.close, Upended[want])
       /\ g.fvg_aligned <=> Upended[want] \in w.gaps
       /\ g.impulse_aligned <=> Impelled(w, Upended[way])
       /\ g.wick_tap_aligned <=> WickTaps(w, u, Upended[type])
       /\ g.inducement <=> Induced(w)
       /\ g.structure_flip <=> Flips(w)
  BY <1>10 DEF TagFacts
<1>27. /\ g.htf_4h_aligned <=> f.htf_4h_aligned
       /\ g.htf_1h_aligned <=> f.htf_1h_aligned
       /\ g.ltf_15m_aligned <=> f.ltf_15m_aligned
       /\ g.conf_high <=> f.conf_high
  BY <1>14, <1>15, <1>16, <1>17, <1>25, <1>26, Zenon
<1>28. /\ g.ob_aligned_near <=> f.ob_aligned_near
       /\ g.fvg_aligned <=> f.fvg_aligned
       /\ g.impulse_aligned <=> f.impulse_aligned
  BY <1>18, <1>19, <1>20, <1>25, <1>26, Zenon
<1>29. /\ g.wick_tap_aligned <=> f.wick_tap_aligned
       /\ g.inducement <=> f.inducement
       /\ g.structure_flip <=> f.structure_flip
  BY <1>21, <1>22, <1>23, <1>25, <1>26, Zenon
<1>30. \A x \in Names : g[x] <=> f[x]
  BY <1>27, <1>28, <1>29
<1> HIDE DEF Names
<1> QED
  BY <1>11, <1>24, <1>30, Zenon

LEMMA TagsTurn ==
    ASSUME NEW v \in TdViews, NEW c \in TdTick, Cardinality(Tapped(v, c)) < 2
    PROVE  Tags(TurnedView(v, c.close), TurnedCandle(c)) = Tags(v, c)
<1>1. PICK w : w = TurnedView(v, c.close)
  OBVIOUS
<1>2. PICK u : u = TurnedCandle(c)
  OBVIOUS
<1>3. SideOf(v) \in {"long", "short", "undefined"} /\ SideOf(w) = Upended[SideOf(v)]
  BY <1>1, ReconcileTurns
<1>4. CASE SideOf(v) = "undefined"
  <2>1. SideOf(w) = "undefined"
    BY <1>3, <1>4, Upends
  <2>2. Tags(w, u) = {} /\ Tags(v, c) = {}
    BY <1>4, <2>1, TagsAre, Zenon
  <2> QED
    BY <1>1, <1>2, <2>2, Zenon
<1>5. CASE SideOf(v) # "undefined"
  <2>1. PICK side \in {"long", "short"} : side = SideOf(v)
    BY <1>3, <1>5
  <2>2. Upended[side] # "undefined" /\ side # "undefined"
    BY Upends
  <2>3. PICK f : f = FactsFor(v, c, side)
    OBVIOUS
  <2>4. PICK g : g = FactsFor(w, u, Upended[side])
    OBVIOUS
  <2>5. Tags(v, c) = {t \in DOMAIN f : f[t]}
    BY <1>5, <2>1, <2>3, TagsAre, Zenon
  <2>6. SideOf(w) = Upended[side]
    BY <1>3, <2>1, Zenon
  <2>7. Tags(w, u) = {t \in DOMAIN g : g[t]}
    BY <2>2, <2>4, <2>6, TagsAre, Zenon
  <2>8. DOMAIN g = DOMAIN f
    BY <1>1, <1>2, <2>3, <2>4, FactsTurn, Zenon
  <2>9. ASSUME NEW t \in DOMAIN f PROVE g[t] <=> f[t]
    BY <1>1, <1>2, <2>3, <2>4, FactsTurn, Zenon
  <2>10. {t \in DOMAIN g : g[t]} = {t \in DOMAIN f : f[t]}
    BY <2>8, <2>9
  <2> QED
    BY <1>1, <1>2, <2>5, <2>7, <2>10, Zenon
<1> QED
  BY <1>4, <1>5

-----------------------------------------------------------------------------
\* The reading is one of the readings, of a bar that came.
ViewTrue == TdInv /\ view \in SUBSET TdViews /\ (view # {} => tape # << >>)

LEMMA ViewStep ==
    ASSUME ViewTrue, TdNext
    PROVE  ViewTrue'
<1>1. TdInv'
  BY TdStep DEF ViewTrue
<1>2. PICK c \in TdCandles : tape' = Append(tape, c)
  BY DEF TdNext, TdBar, TdCandle
<1>3. tape \in Seq(TdTick)
  BY DEF ViewTrue, TdInv
<1>4. tape' # << >>
  BY <1>2, <1>3
<1>5. view' \in SUBSET TdViews
  <2>1. view' = {} \/ \E v \in TdViews : view' = {v}
    BY DEF TdNext, TdBar, TdCandle
  <2> QED
    BY <2>1
<1> QED
  BY <1>1, <1>4, <1>5 DEF ViewTrue

LEMMA PlaysTurn ==
    ASSUME ViewTrue
    PROVE  PlaysMirror
<1> SUFFICES ASSUME NEW v \in view
             PROVE  /\ Triplet(TurnedView(v, tape[Len(tape)].close), tape[Len(tape)].close)
                         = {TurnedPlay(p, tape[Len(tape)].close) : p \in Triplet(v, tape[Len(tape)].close)}
                    /\ Cardinality(Tapped(v, tape[Len(tape)])) < 2 =>
                         Tags(TurnedView(v, tape[Len(tape)].close), TurnedCandle(tape[Len(tape)])) = Tags(v, tape[Len(tape)])
  BY Zenon DEF PlaysMirror
<1>1. v \in TdViews
  BY DEF ViewTrue
<1>2. PICK c : c = tape[Len(tape)]
  OBVIOUS
<1>3. c \in TdTick
  <2>1. tape \in Seq(TdTick) /\ tape # << >>
    BY DEF ViewTrue, TdInv
  <2> QED
    BY <1>2, <2>1
<1>4. c.close \in Int
  BY <1>3 DEF TdTick
<1>5. Triplet(TurnedView(v, c.close), c.close) = TurnedPlays(Triplet(v, c.close), c.close)
  BY <1>1, <1>4, TripletTurns
<1>6. Cardinality(Tapped(v, c)) < 2 => Tags(TurnedView(v, c.close), TurnedCandle(c)) = Tags(v, c)
  BY <1>1, <1>3, TagsTurn, Zenon
<1> QED
  BY <1>2, <1>5, <1>6, Zenon DEF TurnedPlays

-----------------------------------------------------------------------------
\* Long and short are written out twice everywhere and mean the same: a market
\* turned upside down has its scalp signals, its confluences, grade and chain
\* and its top-down play and tags turned upside down, but for the sweeps that
\* the order book, which is read for one side only, takes away
\* (scalp_setups.py, trade_classifier.py, topdown_snapshot.py).
MirrorInv == ScalpTrue /\ ClassTrue /\ ViewTrue

THEOREM NoSideIsFavoured == Spec => []NoFavourite
<1>1. Init => MirrorInv
  <2> SUFFICES ASSUME Init PROVE MirrorInv
    OBVIOUS
  <2>1. TdInit /\ ScalpInit /\ ClassInit
    BY DEF Init
  <2>2. ScalpTrue
    BY <2>1 DEF ScalpInit, ScalpTrue
  <2>3. ClassTrue
    BY <2>1 DEF ClassInit, ClassTrue, SnapTrue, Facts, Nothing
  <2>4. ViewTrue
    BY <2>1, TdStarts DEF TdInit, ViewTrue
  <2> QED
    BY <2>2, <2>3, <2>4 DEF MirrorInv
<1>2. MirrorInv /\ [Next]_vars => MirrorInv'
  <2> SUFFICES ASSUME MirrorInv, [Next]_vars PROVE MirrorInv'
    OBVIOUS
  <2>1. ScalpTrue'
    <3>1. CASE ScalpNext
      BY <3>1, ScalpTyped DEF MirrorInv
    <3>2. CASE UNCHANGED scalpVars
      BY <3>2 DEF scalpVars, MirrorInv, ScalpTrue
    <3> QED
      BY <3>1, <3>2 DEF Next, Idle, vars
  <2>2. ClassTrue'
    <3>1. CASE Learn
      BY <3>1, SnapStep DEF MirrorInv
    <3>2. CASE UNCHANGED classVars
      <4>1. snap' = snap /\ dir' = dir
        BY <3>2 DEF classVars
      <4> QED
        BY <4>1 DEF MirrorInv, ClassTrue
    <3> QED
      BY <3>1, <3>2 DEF Next, Idle, vars
  <2>3. ViewTrue'
    <3>1. CASE TdNext
      BY <3>1, ViewStep DEF MirrorInv
    <3>2. CASE UNCHANGED tdVars
      <4>1. tape' = tape /\ emissions' = emissions /\ view' = view
        BY <3>2 DEF tdVars
      <4> QED
        BY <4>1 DEF MirrorInv, ViewTrue, TdInv, EmissionsApart
    <3> QED
      BY <3>1, <3>2 DEF Next, Idle, vars
  <2> QED
    BY <2>1, <2>2, <2>3 DEF MirrorInv
<1>3. MirrorInv => NoFavourite
  <2> SUFFICES ASSUME MirrorInv PROVE NoFavourite
    OBVIOUS
  <2>1. SignalsMirror
    BY SignalsTurn DEF MirrorInv
  <2>2. NoFavouriteSide /\ TypesAgree
    BY FavoursNone, TypesTrue DEF MirrorInv
  <2>3. PlaysMirror
    BY PlaysTurn DEF MirrorInv
  <2> QED
    BY <2>1, <2>2, <2>3, Zenon DEF NoFavourite
<1> QED
  BY <1>1, <1>2, <1>3, PTL DEF Spec

-----------------------------------------------------------------------------
\* The zones of the detectors.

\* The loop over the breaks.
BlocksTried(all, breaks, known, f, m) ==
    [k \in 0..m |-> IF k = 0 THEN known ELSE WithBlock(all, f[k - 1], breaks[k])]

LEMMA WithBlocksIs ==
    ASSUME NEW all, NEW breaks, Len(breaks) \in Nat, NEW known
    PROVE  \E r : /\ r = BlocksTried(all, breaks, known, r, Len(breaks))
                  /\ WithBlocks(all, breaks, known) = r[Len(breaks)]
<1> DEFINE H == {m \in 0..Len(breaks) : \E f : f = BlocksTried(all, breaks, known, f, m)}
<1>1. 0 \in H
  <2> DEFINE f == [i \in 0..0 |-> known]
  <2>1. f = BlocksTried(all, breaks, known, f, 0)
    BY DEF BlocksTried
  <2> HIDE DEF f
  <2> QED
    BY <2>1
<1>2. ASSUME NEW k \in 1..Len(breaks), k - 1 \in H PROVE k \in H
  <2>1. PICK f : f = BlocksTried(all, breaks, known, f, k - 1)
    BY <1>2
  <2> DEFINE TurnOf(g, i) == IF i = 0 THEN known ELSE WithBlock(all, g[i - 1], breaks[i])
             g == [i \in 0..k |-> IF i < k THEN f[i] ELSE TurnOf(f, k)]
  <2>2. \A i \in 0..(k - 1) : f[i] = TurnOf(f, i)
    BY <2>1 DEF BlocksTried
  <2>3. \A i \in 0..k : g[i] = TurnOf(g, i)
    <3> SUFFICES ASSUME NEW i \in 0..k PROVE g[i] = TurnOf(g, i)
      OBVIOUS
    <3>1. i # 0 => g[i - 1] = f[i - 1]
      OBVIOUS
    <3>2. g[i] = TurnOf(f, i)
      BY <2>2
    <3> QED
      BY <3>1, <3>2
  <2>4. g = BlocksTried(all, breaks, known, g, k)
    BY <2>3 DEF BlocksTried
  <2> HIDE DEF g
  <2> QED
    BY <2>4
<1> HIDE DEF H
<1>3. 0..Len(breaks) \subseteq H
  BY <1>1, <1>2, LoopInduction
<1>4. \E f : f = BlocksTried(all, breaks, known, f, Len(breaks))
  BY <1>3 DEF H
<1> DEFINE r == CHOOSE f : f = BlocksTried(all, breaks, known, f, Len(breaks))
<1>5. r = BlocksTried(all, breaks, known, r, Len(breaks))
  BY <1>4
<1>6. WithBlocks(all, breaks, known) = r[Len(breaks)]
  BY DEF WithBlocks, BlocksTried
<1> HIDE DEF r
<1> QED
  BY <1>5, <1>6

\* The zones as the detectors keep them.
IsBlock(o) ==
    /\ o = [at |-> o.at, dir |-> o.dir, high |-> o.high, low |-> o.low, bodyHigh |-> o.bodyHigh,
            bodyLow |-> o.bodyLow, brk |-> o.brk, retests |-> o.retests]
    /\ o.brk \in Nat
FvgSet == [at : Nat, dir : {"bullish", "bearish"}, low : Int, high : Int, filled : Int]

\* What the detectors know, and that it holds of the bars they were shown.
DetInv ==
    /\ bars \in Seq(MarketBars) /\ seenBars \in SUBSET (1..Len(bars))
    /\ (\A o \in obs : IsBlock(o)) /\ fvgs \in SUBSET FvgSet
    /\ \A s \in sweeps : s.at \in 1..Len(bars)
    /\ ActiveBlocksHold /\ ActiveGapsOpen /\ SweepsCloseBack

\* The window is the end of the bars.
LEMMA WindowIs ==
    ASSUME NEW all \in Seq(MarketBars)
    PROVE  /\ Len(all) \in Nat /\ FirstNo(all) \in 1..(Len(all) + 1)
           /\ InWindow(all) \in SUBSET (1..Len(all)) /\ IsFiniteSet(InWindow(all))
           /\ WindowOf(all) \in Seq(Bars) /\ Len(WindowOf(all)) = Len(all) - FirstNo(all) + 1
           /\ \A n \in 1..Len(all) : all[n] \in Bars
<1>1. Len(all) \in Nat /\ FirstNo(all) \in 1..(Len(all) + 1)
  BY WindowAssumption DEF FirstNo
<1>2. InWindow(all) \in SUBSET (1..Len(all)) /\ IsFiniteSet(InWindow(all))
  BY <1>1, FS_Interval DEF InWindow
<1>3. all \in Seq(Bars)
  BY BarsAreBars
<1>4. WindowOf(all) \in Seq(Bars) /\ Len(WindowOf(all)) = Len(all) - FirstNo(all) + 1
  BY <1>1, <1>3, EndIs DEF WindowOf
<1>5. \A n \in 1..Len(all) : all[n] \in Bars
  BY <1>3, ElementOfSeq
<1> QED
  BY <1>1, <1>2, <1>4, <1>5

\* The breaks of the window are of bars of the window.
LEMMA BreaksAre ==
    ASSUME NEW all \in Seq(MarketBars)
    PROVE  /\ Len(BreaksOf(all)) \in Nat
           /\ \A k \in 1..Len(BreaksOf(all)) :
                /\ BreaksOf(all)[k].at \in Nat /\ BreaksOf(all)[k].at >= FirstNo(all)
                /\ BreaksOf(all)[k].dir \in {"bullish", "bearish"}
<1> DEFINE found == Analyze(WindowOf(all)).breaks
           q == BreaksOf(all)
<1>1. FirstNo(all) \in Nat /\ FirstNo(all) >= 1
  BY WindowIs
<1>2. found \in Seq(Breakings) /\ \A k \in 1..Len(found) : found[k].at > found[k].swing + SwingLookback
  BY WindowIs, AnalyzeSound DEF Confirming
<1>3. q = [k \in 1..Len(found) |-> [found[k] EXCEPT !.at = @ + FirstNo(all) - 1]]
  BY DEF BreaksOf
<1> HIDE DEF found, q
<1>4. Len(found) \in Nat /\ Len(q) = Len(found)
  BY <1>2, <1>3
<1>5. ASSUME NEW k \in 1..Len(found)
      PROVE  q[k].at \in Nat /\ q[k].at >= FirstNo(all) /\ q[k].dir \in {"bullish", "bearish"}
  <2>1. found[k] \in Breakings
    BY <1>2, ElementOfSeq
  <2>2. PICK b : b = found[k]
    OBVIOUS
  <2>3. b.at \in Nat /\ b.swing \in Nat /\ b.dir \in {"bullish", "bearish"} /\ b \in Breakings
    BY <2>1, <2>2 DEF Breakings
  <2>4. b.at > b.swing + SwingLookback /\ SwingLookback \in Nat
    BY <1>2, <2>2, StructureAssumption
  <2>5. b.at >= 1
    BY <2>3, <2>4
  <2>6. q[k] = [b EXCEPT !.at = @ + FirstNo(all) - 1]
    BY <1>3, <2>2
  <2>7. q[k].at = b.at + FirstNo(all) - 1 /\ q[k].dir = b.dir
    BY <2>3, <2>6 DEF Breakings
  <2> QED
    BY <1>1, <2>3, <2>5, <2>7
<1> QED
  BY <1>4, <1>5 DEF q

\* The blocks a candle finds: old ones, or of a break of its window.
Found(all, known, tracked) ==
    \A o \in tracked : IsBlock(o) /\ (o \in known \/ o.brk >= FirstNo(all))

LEMMA BlockIs ==
    ASSUME NEW all \in Seq(MarketBars), NEW known, NEW tracked, Found(all, known, tracked), NEW brk,
           brk.at \in Nat, brk.at >= FirstNo(all)
    PROVE  Found(all, known, WithBlock(all, tracked, brk))
<1> DEFINE cand == ObCandidates(all, brk)
           m == Max(cand)
<1>1. CASE cand = {} \/ \E ob \in tracked : ob.at = m
  <2>1. WithBlock(all, tracked, brk) = tracked
    BY <1>1 DEF WithBlock
  <2> QED
    BY <2>1
<1>2. CASE ~(cand = {} \/ \E ob \in tracked : ob.at = m)
  <2>1. PICK b : b = Block(all, m, brk)
    OBVIOUS
  <2>2. WithBlock(all, tracked, brk) = tracked \cup {b}
    BY <1>2, <2>1 DEF WithBlock
  <2>3. b.brk = brk.at /\ IsBlock(b)
    BY <2>1 DEF Block, IsBlock
  <2> HIDE DEF cand, m
  <2> QED
    BY <2>2, <2>3 DEF Found
<1> QED
  BY <1>1, <1>2

LEMMA FoundAre ==
    ASSUME NEW all \in Seq(MarketBars), NEW known, \A o \in known : IsBlock(o)
    PROVE  Found(all, known, WithBlocks(all, BreaksOf(all), known))
<1>1. PICK q : q = BreaksOf(all)
  OBVIOUS
<1>2. Len(q) \in Nat /\ \A k \in 1..Len(q) : q[k].at \in Nat /\ q[k].at >= FirstNo(all)
  BY <1>1, BreaksAre
<1>3. PICK r : r = BlocksTried(all, q, known, r, Len(q)) /\ WithBlocks(all, q, known) = r[Len(q)]
  BY <1>2, WithBlocksIs
<1> DEFINE G == {k \in 0..Len(q) : Found(all, known, r[k])}
<1>4. \A k \in 0..Len(q) : r[k] = IF k = 0 THEN known ELSE WithBlock(all, r[k - 1], q[k])
  BY <1>3 DEF BlocksTried
<1>5. 0 \in G
  <2>1. Found(all, known, known)
    BY DEF Found
  <2> QED
    BY <1>2, <1>4, <2>1
<1>6. ASSUME NEW k \in 1..Len(q), k - 1 \in G PROVE k \in G
  <2>1. Found(all, known, WithBlock(all, r[k - 1], q[k]))
    BY <1>2, <1>6, BlockIs
  <2> QED
    BY <1>2, <1>4, <2>1
<1> HIDE DEF G
<1>7. 0..Len(q) \subseteq G
  BY <1>2, <1>5, <1>6, LoopInduction
<1> QED
  BY <1>1, <1>2, <1>3, <1>7 DEF G

-----------------------------------------------------------------------------
\* The bars an update adds to those seen leave the old ones as they were.
Seeing(all) ==
    /\ all \in Seq(MarketBars) /\ DetInv /\ Len(bars) <= Len(all)
    /\ \A n \in 1..Len(bars) : all[n] = bars[n]

\* A block that is kept has not been closed through.
LEMMA BlocksStand ==
    ASSUME NEW all, Seeing(all), NEW ob \in ObsAfter(all, WithBlocks(all, BreaksOf(all), obs))
    PROVE  IsBlock(ob) /\ \A n \in seenBars \cup InWindow(all) : n > ob.brk => ~ClosesThrough(all[n], ob)
<1>1. PICK o : /\ o \in WithBlocks(all, BreaksOf(all), obs) /\ Mitigating(all, o) = {}
               /\ ob = [o EXCEPT !.retests = Retests(all, o)]
  BY DEF ObsAfter
<1>2. IsBlock(o) /\ (o \in obs \/ o.brk >= FirstNo(all))
  <2>1. Found(all, obs, WithBlocks(all, BreaksOf(all), obs))
    BY FoundAre DEF Seeing, DetInv
  <2> QED
    BY <1>1, <2>1 DEF Found
<1>3. IsBlock(ob) /\ ob.brk = o.brk /\ ob.dir = o.dir /\ ob.high = o.high /\ ob.low = o.low
  BY <1>1, <1>2 DEF IsBlock
<1>4. ASSUME NEW n \in seenBars \cup InWindow(all), n > o.brk
      PROVE  ~ClosesThrough(all[n], o)
  <2>1. CASE n \in InWindow(all)
    BY <1>1, <1>4, <2>1 DEF Mitigating
  <2>2. CASE n \notin InWindow(all)
    <3>1. n \in seenBars /\ n \in 1..Len(bars) /\ n \in 1..Len(all)
      <4>1. Len(bars) \in Nat /\ Len(all) \in Nat
        BY DEF Seeing, DetInv
      <4> QED
        BY <2>2, <4>1 DEF Seeing, DetInv
    <3>2. FirstNo(all) \in Nat /\ Len(all) \in Nat
      BY WindowIs DEF Seeing
    <3>3. ~(o.brk >= FirstNo(all))
      BY <1>2, <1>4, <2>2, <3>1, <3>2 DEF InWindow, IsBlock
    <3>4. ~ClosesThrough(bars[n], o)
      BY <1>2, <1>4, <3>1, <3>3 DEF Seeing, DetInv, ActiveBlocksHold
    <3> QED
      BY <3>1, <3>4 DEF Seeing
  <2> QED
    BY <2>1, <2>2
<1>5. \A n : ClosesThrough(all[n], ob) <=> ClosesThrough(all[n], o)
  BY <1>3 DEF ClosesThrough
<1> QED
  BY <1>3, <1>4, <1>5

\* How far a bar reaches into a gap.
LEMMA ReachIs ==
    ASSUME NEW b \in Bars, NEW g \in FvgSet
    PROVE  Penetration(b, g) \in Int
BY BarIs DEF FvgSet, Penetration, Larger, Smaller

LEMMA FilledIs ==
    ASSUME NEW all \in Seq(MarketBars), NEW g \in FvgSet
    PROVE  /\ Filled(all, g) \in Int
           /\ \A n \in InWindow(all) : n > g.at => Penetration(all[n], g) <= Filled(all, g)
<1> DEFINE S == {m \in InWindow(all) : m > g.at}
<1>1. PICK f : f = [n \in S |-> Penetration(all[n], g)]
  OBVIOUS
<1>2. IsFiniteSet(S) /\ S \in SUBSET InWindow(all)
  BY WindowIs, FS_Subset
<1>3. PICK T : T = {f[n] : n \in S}
  OBVIOUS
<1>4. IsFiniteSet(T)
  BY <1>2, <1>3, ImageIsFinite
<1>5. \A n \in S : f[n] \in Int
  BY <1>1, <1>2, WindowIs, ReachIs
<1>6. T \in SUBSET Int
  BY <1>3, <1>5
<1>7. PICK U : U = {0} \cup T
  OBVIOUS
<1>8. U \in SUBSET Int /\ U # {} /\ IsFiniteSet(U)
  <2>1. IsFiniteSet({0})
    BY FS_Singleton
  <2>2. IsFiniteSet(U)
    BY <1>4, <1>7, <2>1, FS_Union
  <2> QED
    BY <1>6, <1>7, <2>2
<1>9. {Penetration(all[n], g) : n \in S} = T
  BY <1>1, <1>3
<1>10. Filled(all, g) = Max(U)
  BY <1>7, <1>9 DEF Filled
<1>11. Max(U) \in U /\ \A x \in U : x <= Max(U)
  BY <1>8, MaxIs
<1>12. \A n \in S : Penetration(all[n], g) <= Max(U)
  <2> SUFFICES ASSUME NEW n \in S PROVE Penetration(all[n], g) <= Max(U)
    OBVIOUS
  <2>1. f[n] \in U /\ f[n] = Penetration(all[n], g)
    BY <1>1, <1>3, <1>7
  <2> QED
    BY <1>11, <2>1
<1> QED
  BY <1>8, <1>10, <1>11, <1>12

\* A gap that is kept has not been bridged.
LEMMA GapsStand ==
    ASSUME NEW all, Seeing(all), NEW g \in FvgsAfter(all)
    PROVE  /\ g \in FvgSet
           /\ \A n \in seenBars \cup InWindow(all) : n > g.at => Penetration(all[n], g) < g.high - g.low
<1>1. PICK e : /\ e \in fvgs \/ e \in GapsFound(all)
               /\ g = [e EXCEPT !.filled = Filled(all, e)] /\ g.filled < g.high - g.low
  BY DEF FvgsAfter
<1>2. e \in FvgSet /\ (e \in fvgs \/ e.at >= FirstNo(all))
  <2>1. CASE e \in fvgs
    BY <2>1 DEF Seeing, DetInv
  <2>2. CASE e \in GapsFound(all)
    <3>1. PICK n \in (FirstNo(all) + 1)..(Len(all) - 1) :
             \/ e = Gap(n, "bullish", all[n - 1].high, all[n + 1].low)
             \/ e = Gap(n, "bearish", all[n + 1].high, all[n - 1].low)
      BY <2>2 DEF GapsFound
    <3>2. /\ FirstNo(all) \in Nat /\ FirstNo(all) >= 1 /\ Len(all) \in Nat
          /\ \A m \in 1..Len(all) : all[m] \in Bars
      <4>1. all \in Seq(MarketBars)
        BY DEF Seeing
      <4> QED
        BY <4>1, WindowIs
    <3>3. all[n - 1] \in Bars /\ all[n + 1] \in Bars /\ n \in Nat /\ n >= FirstNo(all)
      <4>1. n - 1 \in 1..Len(all) /\ n + 1 \in 1..Len(all) /\ n \in Nat /\ n >= FirstNo(all)
        BY <3>1, <3>2
      <4> QED
        BY <3>2, <4>1
    <3>4. all[n - 1].high \in Int /\ all[n - 1].low \in Int /\ all[n + 1].high \in Int /\ all[n + 1].low \in Int
      BY <3>3, BarIs
    <3> QED
      BY <3>1, <3>3, <3>4 DEF Gap, FvgSet
  <2> QED
    BY <1>1, <2>1, <2>2
<1>3. all \in Seq(MarketBars)
  BY DEF Seeing
<1>4. Filled(all, e) \in Int /\ \A n \in InWindow(all) : n > e.at => Penetration(all[n], e) <= Filled(all, e)
  BY <1>2, <1>3, FilledIs
<1>5. g \in FvgSet /\ g.at = e.at /\ g.dir = e.dir /\ g.low = e.low /\ g.high = e.high /\ g.filled = Filled(all, e)
  BY <1>1, <1>2, <1>4 DEF FvgSet
<1>6. ASSUME NEW n \in seenBars \cup InWindow(all), n > e.at
      PROVE  Penetration(all[n], e) < e.high - e.low
  <2>0. /\ FirstNo(all) \in Nat /\ Len(all) \in Nat /\ Len(bars) \in Nat
        /\ \A m \in 1..Len(all) : all[m] \in Bars
    BY <1>3, WindowIs DEF Seeing, DetInv
  <2>1. CASE n \in InWindow(all)
    <3>1. n \in 1..Len(all)
      BY <1>3, <2>1, WindowIs
    <3>2. Penetration(all[n], e) \in Int /\ e.high \in Int /\ e.low \in Int
      BY <1>2, <2>0, <3>1, ReachIs DEF FvgSet
    <3>3. Penetration(all[n], e) <= Filled(all, e)
      BY <1>4, <1>6, <2>1
    <3> QED
      BY <1>1, <1>4, <1>5, <3>2, <3>3
  <2>2. CASE n \notin InWindow(all)
    <3>1. n \in seenBars /\ n \in 1..Len(bars) /\ n \in 1..Len(all)
      BY <2>0, <2>2 DEF Seeing, DetInv
    <3>2. ~(e.at >= FirstNo(all))
      BY <1>2, <1>6, <2>0, <2>2, <3>1 DEF InWindow, FvgSet
    <3>3. Penetration(bars[n], e) < e.high - e.low
      BY <1>2, <1>6, <3>1, <3>2 DEF Seeing, DetInv, ActiveGapsOpen
    <3> QED
      BY <3>1, <3>3 DEF Seeing
  <2> QED
    BY <2>1, <2>2
<1>7. \A n : Penetration(all[n], g) = Penetration(all[n], e)
  BY <1>5 DEF Penetration
<1> QED
  BY <1>5, <1>6, <1>7

\* A sweep is a bar that took its level and closed back.
Back(all, s) == IF s.kind = "bsl" THEN all[s.at].high > s.level /\ all[s.at].close < s.level
                                  ELSE all[s.at].low < s.level /\ all[s.at].close > s.level

LEMMA SweepsStand ==
    ASSUME NEW all, Seeing(all), NEW s \in SweepsAfter(all)
    PROVE  s.at \in 1..Len(all) /\ Back(all, s)
<1>0. all \in Seq(MarketBars) /\ Len(all) \in Nat /\ Len(bars) \in Nat /\ Len(bars) <= Len(all)
  BY DEF Seeing, DetInv
<1>1. CASE s \in sweeps
  <2>1. s.at \in 1..Len(bars) /\ Back(bars, s)
    BY <1>1 DEF Seeing, DetInv, SweepsCloseBack, Back
  <2>2. all[s.at] = bars[s.at]
    BY <2>1 DEF Seeing
  <2> QED
    BY <1>0, <2>1, <2>2 DEF Back
<1>2. CASE s \notin sweeps
  <2>1. PICK l : Sweeping(all, l) # {} /\ s = [at |-> Min(Sweeping(all, l)), kind |-> l.kind, level |-> l.price]
    BY <1>2 DEF SweepsAfter
  <2>2. PICK S : S = Sweeping(all, l)
    OBVIOUS
  <2>3. S \in SUBSET InWindow(all) /\ IsFiniteSet(InWindow(all)) /\ InWindow(all) \in SUBSET (1..Len(all))
    BY <1>0, <2>2, WindowIs DEF Sweeping
  <2>4. IsFiniteSet(S)
    BY <2>3, FS_Subset
  <2>5. S \in SUBSET Int
    BY <1>0, <2>3
  <2>6. Min(S) \in S
    BY <2>1, <2>2, <2>4, <2>5, MinIs
  <2>7. s.at \in S /\ s.kind = l.kind /\ s.level = l.price
    BY <2>1, <2>2, <2>6
  <2>8. s.at \in 1..Len(all)
    BY <2>3, <2>7
  <2>9. Back(all, s)
    BY <2>2, <2>7 DEF Back, Sweeping
  <2> QED
    BY <2>8, <2>9
<1> QED
  BY <1>1, <1>2

-----------------------------------------------------------------------------
\* A candle, with its update or without, keeps what holds of the zones.
LEMMA DetStep ==
    ASSUME DetInv, DetNext
    PROVE  DetInv'
<1>1. PICK b \in MarketBars : bars' = Append(bars, b) /\ (UpdateDetectors(Append(bars, b)) \/ LeaveOut)
  BY DEF DetNext, DetCandle
<1>2. PICK all : all = Append(bars, b)
  OBVIOUS
<1>3. bars' = all /\ (UpdateDetectors(all) \/ LeaveOut)
  BY <1>1, <1>2
<1>4. bars \in Seq(MarketBars) /\ Len(bars) \in Nat
  BY DEF DetInv
<1>5. /\ all \in Seq(MarketBars) /\ Len(all) = Len(bars) + 1
      /\ \A n \in 1..Len(bars) : all[n] = bars[n]
  BY <1>1, <1>2, <1>4, AppendProperties
<1>6. CASE UpdateDetectors(all)
  <2>1. Seeing(all)
    BY <1>4, <1>5 DEF Seeing
  <2>2. /\ obs' = ObsAfter(all, WithBlocks(all, BreaksOf(all), obs))
        /\ fvgs' = FvgsAfter(all) /\ sweeps' = SweepsAfter(all)
        /\ seenBars' = seenBars \cup InWindow(all)
    BY <1>6 DEF UpdateDetectors
  <2>3. \A o \in obs' : IsBlock(o) /\ \A n \in seenBars' : n > o.brk => ~ClosesThrough(all[n], o)
    BY <2>1, <2>2, BlocksStand
  <2>4. \A g \in fvgs' : g \in FvgSet /\ \A n \in seenBars' : n > g.at => Penetration(all[n], g) < g.high - g.low
    BY <2>1, <2>2, GapsStand
  <2>5. \A s \in sweeps' : s.at \in 1..Len(all) /\ Back(all, s)
    BY <2>1, <2>2, SweepsStand
  <2>6. seenBars' \in SUBSET (1..Len(all))
    <3>1. seenBars \in SUBSET (1..Len(bars))
      BY DEF DetInv
    <3>2. InWindow(all) \in SUBSET (1..Len(all))
      BY <1>5, WindowIs
    <3>3. 1..Len(bars) \subseteq 1..Len(all)
      BY <1>4, <1>5
    <3> QED
      BY <2>2, <3>1, <3>2, <3>3, Zenon
  <2>7. ActiveBlocksHold'
    BY <1>3, <2>3 DEF ActiveBlocksHold
  <2>8. ActiveGapsOpen'
    BY <1>3, <2>4 DEF ActiveGapsOpen
  <2>9. SweepsCloseBack'
    BY <1>3, <2>5 DEF SweepsCloseBack, Back
  <2>10. /\ (\A o \in obs' : IsBlock(o)) /\ fvgs' \in SUBSET FvgSet
         /\ \A s \in sweeps' : s.at \in 1..Len(all)
    BY <2>3, <2>4, <2>5
  <2> QED
    BY <1>3, <1>5, <2>6, <2>7, <2>8, <2>9, <2>10 DEF DetInv
<1>7. CASE LeaveOut
  <2>1. obs' = obs /\ fvgs' = fvgs /\ sweeps' = sweeps /\ seenBars' = seenBars
    BY <1>7 DEF LeaveOut
  <2>2. seenBars \in SUBSET (1..Len(bars)) /\ \A n \in seenBars : all[n] = bars[n]
    BY <1>5 DEF DetInv
  <2>3. seenBars \in SUBSET (1..Len(all))
    BY <1>4, <1>5, <2>2
  <2>4. ActiveBlocksHold'
    BY <1>3, <2>1, <2>2 DEF DetInv, ActiveBlocksHold
  <2>5. ActiveGapsOpen'
    BY <1>3, <2>1, <2>2 DEF DetInv, ActiveGapsOpen
  <2>6. \A s \in sweeps : s.at \in 1..Len(bars) /\ s.at \in 1..Len(all) /\ all[s.at] = bars[s.at]
    BY <1>4, <1>5 DEF DetInv
  <2>7. SweepsCloseBack'
    <3>1. \A s \in sweeps : Back(bars, s)
      BY DEF DetInv, SweepsCloseBack, Back
    <3>2. \A s \in sweeps : Back(all, s)
      BY <2>6, <3>1 DEF Back
    <3> QED
      BY <1>3, <2>1, <3>2 DEF SweepsCloseBack, Back
  <2> QED
    BY <1>3, <1>5, <2>1, <2>3, <2>4, <2>5, <2>6, <2>7 DEF DetInv
<1> QED
  BY <1>3, <1>6, <1>7

LEMMA DetStarts ==
    ASSUME DetInit
    PROVE  DetInv
<1>1. bars = <<>> /\ obs = {} /\ fvgs = {} /\ sweeps = {} /\ seenBars = {}
  BY DEF DetInit
<1>2. bars \in Seq(MarketBars)
  BY <1>1, EmptySeq
<1> QED
  BY <1>1, <1>2 DEF DetInv, ActiveBlocksHold, ActiveGapsOpen, SweepsCloseBack

-----------------------------------------------------------------------------
\* The volume profile: sums.

\* The partial sums of some numbers.
Adding(f, s, n) ==
    /\ \A i \in 0..n : s[i] \in Int
    /\ s[0] = 0 /\ \A i \in 1..n : s[i] = s[i - 1] + f[i]
Numbers(f, n) == n \in Nat /\ Len(f) = n /\ \A i \in 1..n : f[i] \in Int

LEMMA AddedIs ==
    ASSUME NEW f, NEW n, Numbers(f, n)
    PROVE  \E s : Adding(f, s, n) /\ Added(f) = s[n]
<1>0. n \in Nat /\ Len(f) = n /\ \A i \in 1..n : f[i] \in Int
  BY DEF Numbers
<1> DEFINE st == [p \in Int \X (1..n) |-> p[1] + f[p[2]]]
<1>1. st \in [Int \X (1..n) -> Int]
  BY <1>0
<1>2. \A x \in Int, i \in 1..n : st[<<x, i>>] = x + f[i]
  OBVIOUS
<1> HIDE DEF st
<1>3. PICK h \in [0..n -> Int] : Runs(h, 0, st, n)
  <2>1. PICK T : T = Int
    OBVIOUS
  <2>2. 0 \in T /\ st \in [T \X (1..n) -> T] /\ n \in Nat
    BY <1>0, <1>1, <2>1
  <2>3. \E h \in [0..n -> T] : Runs(h, 0, st, n)
    BY <2>2, LoopExists, Zenon
  <2> QED
    BY <2>1, <2>3
<1>4. \A i \in 0..n : h[i] = IF i = 0 THEN 0 ELSE h[i - 1] + f[i]
  <2> SUFFICES ASSUME NEW i \in 0..n PROVE h[i] = IF i = 0 THEN 0 ELSE h[i - 1] + f[i]
    OBVIOUS
  <2>1. CASE i = 0
    BY <1>3, <2>1 DEF Runs
  <2>2. CASE i # 0
    <3>1. i \in 1..n /\ i - 1 \in 0..n
      BY <1>0, <2>2
    <3>2. h[i] = st[<<h[i - 1], i>>] /\ h[i - 1] \in Int
      BY <1>3, <3>1 DEF Runs
    <3> QED
      BY <1>2, <2>2, <3>1, <3>2
  <2> QED
    BY <2>1, <2>2
<1>5. h = Summed(f, h, n)
  BY <1>3, <1>4 DEF Summed
<1> DEFINE r == CHOOSE g : g = Summed(f, g, n)
<1>6. r = Summed(f, r, n)
  BY <1>5
<1>7. Added(f) = r[n]
  BY <1>0 DEF Added, Summed
<1> HIDE DEF r
<1>8. \A i \in 0..n : r[i] = IF i = 0 THEN 0 ELSE r[i - 1] + f[i]
  BY <1>6 DEF Summed
<1> DEFINE G == {k \in 0..n : r[k] \in Int}
<1>9. 0 \in G
  BY <1>0, <1>8
<1>10. ASSUME NEW k \in 1..n, k - 1 \in G PROVE k \in G
  BY <1>0, <1>8, <1>10
<1> HIDE DEF G
<1>11. 0..n \subseteq G
  BY <1>0, <1>9, <1>10, LoopInduction
<1>12. \A i \in 0..n : r[i] \in Int
  BY <1>11 DEF G
<1>13. r[0] = 0 /\ \A i \in 1..n : r[i] = r[i - 1] + f[i]
  BY <1>0, <1>8
<1> QED
  BY <1>7, <1>12, <1>13 DEF Adding

\* Numbers that are not negative have a sum that is not.
LEMMA AddedPositive ==
    ASSUME NEW f, NEW n, Numbers(f, n), \A i \in 1..n : f[i] >= 0
    PROVE  Added(f) \in Nat
<1>0. n \in Nat /\ \A i \in 1..n : f[i] \in Int
  BY DEF Numbers
<1>1. PICK s : Adding(f, s, n) /\ Added(f) = s[n]
  BY AddedIs
<1> DEFINE G == {k \in 0..n : s[k] \in Nat}
<1>2. 0 \in G
  BY <1>0, <1>1 DEF Adding
<1>3. ASSUME NEW k \in 1..n, k - 1 \in G PROVE k \in G
  <2>1. s[k] = s[k - 1] + f[k] /\ f[k] \in Nat
    BY <1>0, <1>1 DEF Adding
  <2> QED
    BY <1>3, <2>1
<1> HIDE DEF G
<1>4. 0..n \subseteq G
  BY <1>0, <1>2, <1>3, LoopInduction
<1> QED
  BY <1>0, <1>1, <1>4 DEF G

\* The sum of sums.
LEMMA AddedTogether ==
    ASSUME NEW f, NEW g, NEW h, NEW n, Numbers(f, n), Numbers(g, n), Numbers(h, n),
           \A i \in 1..n : h[i] = f[i] + g[i]
    PROVE  Added(h) = Added(f) + Added(g)
<1>0. n \in Nat
  BY DEF Numbers
<1>1. PICK s : Adding(f, s, n) /\ Added(f) = s[n]
  BY AddedIs
<1>2. PICK t : Adding(g, t, n) /\ Added(g) = t[n]
  BY AddedIs
<1>3. PICK u : Adding(h, u, n) /\ Added(h) = u[n]
  BY AddedIs
<1> DEFINE G == {k \in 0..n : u[k] = s[k] + t[k]}
<1>4. 0 \in G
  BY <1>0, <1>1, <1>2, <1>3 DEF Adding
<1>5. ASSUME NEW k \in 1..n, k - 1 \in G PROVE k \in G
  <2>1. /\ s[k] = s[k - 1] + f[k] /\ t[k] = t[k - 1] + g[k] /\ u[k] = u[k - 1] + h[k]
        /\ k - 1 \in 0..n
    BY <1>0, <1>1, <1>2, <1>3 DEF Adding
  <2>2. s[k - 1] \in Int /\ t[k - 1] \in Int /\ f[k] \in Int /\ g[k] \in Int
    BY <1>1, <1>2, <2>1 DEF Adding, Numbers
  <2> QED
    BY <1>5, <2>1, <2>2
<1> HIDE DEF G
<1>6. 0..n \subseteq G
  BY <1>0, <1>4, <1>5, LoopInduction
<1> QED
  BY <1>0, <1>1, <1>2, <1>3, <1>6 DEF G

\* The last number comes on top of the sum of the others.
LEMMA AddedLast ==
    ASSUME NEW f, NEW g, NEW n, Numbers(f, n), Numbers(g, n + 1), \A i \in 1..n : g[i] = f[i]
    PROVE  Added(g) = Added(f) + g[n + 1]
<1>0. n \in Nat
  BY DEF Numbers
<1>1. PICK s : Adding(f, s, n) /\ Added(f) = s[n]
  BY AddedIs
<1>2. PICK t : Adding(g, t, n + 1) /\ Added(g) = t[n + 1]
  BY AddedIs
<1> DEFINE G == {k \in 0..n : t[k] = s[k]}
<1>3. 0 \in G
  BY <1>0, <1>1, <1>2 DEF Adding
<1>4. ASSUME NEW k \in 1..n, k - 1 \in G PROVE k \in G
  <2>1. s[k] = s[k - 1] + f[k] /\ t[k] = t[k - 1] + g[k]
    <3>1. k \in 1..(n + 1)
      BY <1>0
    <3> QED
      BY <1>1, <1>2, <3>1 DEF Adding
  <2> QED
    BY <1>4, <2>1
<1> HIDE DEF G
<1>5. 0..n \subseteq G
  BY <1>0, <1>3, <1>4, LoopInduction
<1>6. t[n] = s[n]
  BY <1>0, <1>5 DEF G
<1>7. t[n + 1] = t[n] + g[n + 1]
  <2>1. n + 1 \in 1..(n + 1) /\ (n + 1) - 1 = n
    BY <1>0
  <2> QED
    BY <1>2, <2>1 DEF Adding
<1> QED
  BY <1>1, <1>2, <1>6, <1>7

\* One number, over a span of places.
LEMMA AddedSpan ==
    ASSUME NEW f, NEW n, Numbers(f, n), NEW c \in Int, NEW lo \in Nat, NEW hi \in Nat,
           lo <= hi, hi < n, \A k \in 1..n : f[k] = IF k - 1 \in lo..hi THEN c ELSE 0
    PROVE  Added(f) = c * (hi - lo + 1)
<1>0. n \in Nat
  BY DEF Numbers
<1>1. PICK s : Adding(f, s, n) /\ Added(f) = s[n]
  BY AddedIs
<1>2. PICK width : width = [k \in 0..n |-> IF k <= lo THEN 0 ELSE IF k <= hi + 1 THEN k - lo ELSE hi - lo + 1]
  OBVIOUS
<1>3. PICK mult : mult = [k \in Int |-> c * k]
  OBVIOUS
<1>4. \A k \in Int : mult[k] \in Int /\ mult[k + 1] = mult[k] + c
  BY <1>3
<1>5. mult[0] = 0 /\ mult[hi - lo + 1] = c * (hi - lo + 1)
  BY <1>3
<1> DEFINE G == {k \in 0..n : s[k] = mult[width[k]]}
<1>6. 0 \in G
  BY <1>0, <1>1, <1>2, <1>5 DEF Adding
<1>7. ASSUME NEW k \in 1..n, k - 1 \in G PROVE k \in G
  <2>1. s[k] = s[k - 1] + f[k] /\ s[k - 1] = mult[width[k - 1]] /\ k - 1 \in 0..n
    BY <1>0, <1>1, <1>7 DEF Adding
  <2>2. CASE k - 1 \in lo..hi
    <3>1. width[k - 1] \in Int /\ width[k] = width[k - 1] + 1 /\ f[k] = c
      BY <1>0, <1>2, <2>2
    <3> QED
      BY <1>4, <2>1, <3>1
  <2>3. CASE k - 1 \notin lo..hi
    <3>1. width[k - 1] \in Int /\ width[k] = width[k - 1] /\ f[k] = 0
      BY <1>0, <1>2, <2>3
    <3>2. mult[width[k]] \in Int
      BY <1>4, <3>1
    <3> QED
      BY <2>1, <3>1, <3>2
  <2> QED
    BY <2>2, <2>3
<1> HIDE DEF G
<1>8. 0..n \subseteq G
  BY <1>0, <1>6, <1>7, LoopInduction
<1>9. s[n] = mult[width[n]]
  BY <1>0, <1>8 DEF G
<1>10. width[n] = hi - lo + 1
  BY <1>0, <1>2
<1> QED
  BY <1>1, <1>5, <1>9, <1>10

\* Nothing adds up to nothing.
LEMMA AddedNothing ==
    ASSUME NEW f, NEW n, Numbers(f, n), \A k \in 1..n : f[k] = 0
    PROVE  Added(f) = 0
<1>0. n \in Nat
  BY DEF Numbers
<1>1. PICK s : Adding(f, s, n) /\ Added(f) = s[n]
  BY AddedIs
<1> DEFINE G == {k \in 0..n : s[k] = 0}
<1>2. 0 \in G
  BY <1>0, <1>1 DEF Adding
<1>3. ASSUME NEW k \in 1..n, k - 1 \in G PROVE k \in G
  BY <1>0, <1>1, <1>3 DEF Adding
<1> HIDE DEF G
<1>4. 0..n \subseteq G
  BY <1>0, <1>2, <1>3, LoopInduction
<1> QED
  BY <1>0, <1>1, <1>4 DEF G

\* A table of numbers, its columns and rows and their sums.
ColumnOf(p, j, k)   == [i \in 1..j |-> p[<<i, k>>]]
Columns(p, j, m)  == [k \in 1..m |-> Added(ColumnOf(p, j, k))]
Row(p, i, m)      == [k \in 1..m |-> p[<<i, k>>]]
RowSums(p, j, m)  == [i \in 1..j |-> Added(Row(p, i, m))]
Table(p, n, m)    == n \in Nat /\ m \in Nat /\ \A i \in 1..n, k \in 1..m : p[<<i, k>>] \in Int

LEMMA AddedTyped ==
    ASSUME NEW f, NEW n, Numbers(f, n)
    PROVE  Added(f) \in Int
<1>1. PICK s : Adding(f, s, n) /\ Added(f) = s[n]
  BY AddedIs
<1>2. n \in 0..n
  BY DEF Numbers
<1> QED
  BY <1>1, <1>2 DEF Adding

LEMMA TableIs ==
    ASSUME NEW p, NEW n, NEW m, Table(p, n, m), NEW j \in 0..n
    PROVE  /\ \A k \in 1..m : Numbers(ColumnOf(p, j, k), j)
           /\ Numbers(Columns(p, j, m), m)
           /\ \A i \in 1..n : Numbers(Row(p, i, m), m)
           /\ Numbers(RowSums(p, j, m), j)
<1>0. n \in Nat /\ m \in Nat /\ j \in Nat /\ \A i \in 1..n, k \in 1..m : p[<<i, k>>] \in Int
  BY DEF Table
<1>1. ASSUME NEW k \in 1..m PROVE Numbers(ColumnOf(p, j, k), j)
  <2>1. PICK f : f = ColumnOf(p, j, k)
    OBVIOUS
  <2>2. f = [i \in 1..j |-> p[<<i, k>>]]
    BY <2>1 DEF ColumnOf
  <2>3. Len(f) = j
    BY <1>0, <2>2
  <2>4. \A i \in 1..j : f[i] \in Int
    BY <1>0, <2>2
  <2> QED
    BY <1>0, <2>1, <2>3, <2>4 DEF Numbers
<1>2. Numbers(Columns(p, j, m), m)
  <2>1. PICK f : f = Columns(p, j, m)
    OBVIOUS
  <2>2. Len(f) = m
    BY <1>0, <2>1 DEF Columns
  <2>3. \A k \in 1..m : f[k] = Added(ColumnOf(p, j, k))
    BY <2>1 DEF Columns
  <2>4. \A k \in 1..m : f[k] \in Int
    BY <1>1, <2>3, AddedTyped
  <2> QED
    BY <1>0, <2>1, <2>2, <2>4 DEF Numbers
<1>3. ASSUME NEW i \in 1..n PROVE Numbers(Row(p, i, m), m)
  <2>1. PICK f : f = Row(p, i, m)
    OBVIOUS
  <2>2. f = [k \in 1..m |-> p[<<i, k>>]]
    BY <2>1 DEF Row
  <2>3. Len(f) = m
    BY <1>0, <2>2
  <2>4. \A k \in 1..m : f[k] \in Int
    BY <1>0, <2>2
  <2> QED
    BY <1>0, <2>1, <2>3, <2>4 DEF Numbers
<1>4. Numbers(RowSums(p, j, m), j)
  <2>1. PICK f : f = RowSums(p, j, m)
    OBVIOUS
  <2>2. Len(f) = j
    BY <1>0, <2>1 DEF RowSums
  <2>3. \A i \in 1..j : i \in 1..n /\ f[i] = Added(Row(p, i, m))
    BY <1>0, <2>1 DEF RowSums
  <2>4. \A i \in 1..j : f[i] \in Int
    BY <1>3, <2>3, AddedTyped
  <2> QED
    BY <1>0, <2>1, <2>2, <2>4 DEF Numbers
<1> QED
  BY <1>1, <1>2, <1>3, <1>4

\* A table has one sum, by columns or by rows.
LEMMA TableAdds ==
    ASSUME NEW p, NEW n, NEW m, Table(p, n, m)
    PROVE  Added(Columns(p, n, m)) = Added(RowSums(p, n, m))
<1>0. n \in Nat /\ m \in Nat
  BY DEF Table
<1> DEFINE G == {j \in 0..n : Added(Columns(p, j, m)) = Added(RowSums(p, j, m))}
<1>1. 0 \in G
  <2>0. 0 \in 0..n
    BY <1>0
  <2>1. \A k \in 1..m : Added(ColumnOf(p, 0, k)) = 0
    <3> SUFFICES ASSUME NEW k \in 1..m PROVE Added(ColumnOf(p, 0, k)) = 0
      OBVIOUS
    <3>1. Numbers(ColumnOf(p, 0, k), 0)
      BY <2>0, TableIs
    <3>2. \A i \in 1..0 : ColumnOf(p, 0, k)[i] = 0
      OBVIOUS
    <3> QED
      BY <3>1, <3>2, AddedNothing
  <2>2. Numbers(Columns(p, 0, m), m) /\ Numbers(RowSums(p, 0, m), 0)
    BY <2>0, TableIs
  <2>3. \A k \in 1..m : Columns(p, 0, m)[k] = 0
    BY <2>1 DEF Columns
  <2>4. Added(Columns(p, 0, m)) = 0
    BY <2>2, <2>3, AddedNothing
  <2>5. \A i \in 1..0 : RowSums(p, 0, m)[i] = 0
    OBVIOUS
  <2>6. Added(RowSums(p, 0, m)) = 0
    BY <2>2, <2>5, AddedNothing
  <2> QED
    BY <2>0, <2>4, <2>6
<1>2. ASSUME NEW j \in 1..n, j - 1 \in G PROVE j \in G
  <2>0. j - 1 \in 0..n /\ j \in 0..n /\ j - 1 \in Nat /\ (j - 1) + 1 = j
    BY <1>0
  <2>1. PICK q : q = j - 1
    OBVIOUS
  <2>2. q \in 0..n /\ q \in Nat /\ q + 1 = j /\ q \in G
    BY <1>2, <2>0, <2>1
  <2>3. Added(Columns(p, j, m)) = Added(Columns(p, q, m)) + Added(Row(p, j, m))
    <3>1. Numbers(Columns(p, j, m), m) /\ Numbers(Columns(p, q, m), m) /\ Numbers(Row(p, j, m), m)
      BY <2>0, <2>2, TableIs
    <3>2. ASSUME NEW k \in 1..m
          PROVE  Columns(p, j, m)[k] = Columns(p, q, m)[k] + Row(p, j, m)[k]
      <4>1. Numbers(ColumnOf(p, j, k), j) /\ Numbers(ColumnOf(p, q, k), q)
        BY <2>0, <2>2, TableIs
      <4>2. Numbers(ColumnOf(p, j, k), q + 1)
        BY <2>2, <4>1
      <4>3. \A i \in 1..q : ColumnOf(p, j, k)[i] = ColumnOf(p, q, k)[i]
        BY <2>2 DEF ColumnOf
      <4>4. Added(ColumnOf(p, j, k)) = Added(ColumnOf(p, q, k)) + ColumnOf(p, j, k)[q + 1]
        BY <4>1, <4>2, <4>3, AddedLast
      <4>5. ColumnOf(p, j, k)[q + 1] = Row(p, j, m)[k]
        <5>1. q + 1 \in 1..j /\ q + 1 = j
          BY <2>2
        <5> QED
          BY <5>1 DEF ColumnOf, Row
      <4> QED
        BY <4>4, <4>5 DEF Columns
    <3> QED
      BY <3>1, <3>2, AddedTogether
  <2>4. Added(RowSums(p, j, m)) = Added(RowSums(p, q, m)) + Added(Row(p, j, m))
    <3>1. Numbers(RowSums(p, j, m), j) /\ Numbers(RowSums(p, q, m), q)
      BY <2>0, <2>2, TableIs
    <3>2. Numbers(RowSums(p, j, m), q + 1)
      BY <2>2, <3>1
    <3>3. \A i \in 1..q : RowSums(p, j, m)[i] = RowSums(p, q, m)[i]
      BY <2>2 DEF RowSums
    <3>4. RowSums(p, j, m)[q + 1] = Added(Row(p, j, m))
      <4>1. q + 1 \in 1..j /\ q + 1 = j
        BY <2>2
      <4> QED
        BY <4>1 DEF RowSums
    <3> QED
      BY <3>1, <3>2, <3>3, <3>4, AddedLast
  <2> QED
    BY <2>0, <2>2, <2>3, <2>4
<1> HIDE DEF G
<1>3. 0..n \subseteq G
  BY <1>0, <1>1, <1>2, LoopInduction
<1> QED
  BY <1>0, <1>3 DEF G

-----------------------------------------------------------------------------
\* The volume profile: the bins.

LEMMA QuotientIs ==
    ASSUME NEW x \in Int, NEW d \in Nat, d > 0
    PROVE  x \div d \in Int /\ d * (x \div d) <= x /\ x < d * (x \div d) + d
OBVIOUS

LEMMA Quotients ==
    ASSUME NEW x \in Int, NEW y \in Int, NEW d \in Nat, d > 0, x <= y
    PROVE  x \div d <= y \div d
<1>1. PICK q : q = x \div d
  OBVIOUS
<1>2. PICK r : r = y \div d
  OBVIOUS
<1>3. q \in Int /\ r \in Int /\ d * q <= x /\ y < d * r + d
  BY <1>1, <1>2, QuotientIs
<1>4. d * q < d * r + d
  <2>1. d * q \in Int /\ d * r \in Int
    BY <1>3
  <2> QED
    BY <1>3, <2>1
<1>5. q < r + 1
  BY <1>3, <1>4
<1> QED
  BY <1>1, <1>2, <1>3, <1>5

Ranging(cs) == cs \in Seq(VpBars) /\ Len(cs) > 0 /\ High(cs) > Low(cs)

\* The candles lie within their range.
LEMMA RangeSpans ==
    ASSUME NEW cs \in Seq(VpBars), Len(cs) > 0
    PROVE  /\ Low(cs) \in Int /\ High(cs) \in Int
           /\ \A i \in 1..Len(cs) : /\ cs[i].low \in Int /\ cs[i].high \in Int /\ cs[i].volume \in Nat
                                    /\ Low(cs) <= cs[i].low /\ cs[i].high <= High(cs)
<1>1. Len(cs) \in Nat /\ DOMAIN cs = 1..Len(cs) /\ 1 \in 1..Len(cs)
  OBVIOUS
<1>2. \A i \in 1..Len(cs) : cs[i] \in VpBars
  BY ElementOfSeq
<1>3. \A i \in 1..Len(cs) : cs[i].low \in Int /\ cs[i].high \in Int /\ cs[i].volume \in Nat
  <2> SUFFICES ASSUME NEW i \in 1..Len(cs) PROVE cs[i].low \in Int /\ cs[i].high \in Int /\ cs[i].volume \in Nat
    OBVIOUS
  <2>1. cs[i] \in [low : Int, high : Int, volume : Nat]
    BY <1>2, VpAssumption
  <2> QED
    BY <2>1
<1>4. PICK f : f = [i \in 1..Len(cs) |-> cs[i].low]
  OBVIOUS
<1>5. PICK g : g = [i \in 1..Len(cs) |-> cs[i].high]
  OBVIOUS
<1>6. PICK L : L = {f[i] : i \in 1..Len(cs)}
  OBVIOUS
<1>7. PICK H : H = {g[i] : i \in 1..Len(cs)}
  OBVIOUS
<1>8. IsFiniteSet(L) /\ IsFiniteSet(H)
  <2>0. IsFiniteSet(1..Len(cs))
    BY <1>1, FS_Interval
  <2>1. IsFiniteSet({f[i] : i \in 1..Len(cs)})
    BY <2>0, ImageIsFinite
  <2>2. IsFiniteSet({g[i] : i \in 1..Len(cs)})
    BY <2>0, ImageIsFinite
  <2> QED
    BY <1>6, <1>7, <2>1, <2>2
<1>9. L \in SUBSET Int /\ L # {} /\ H \in SUBSET Int /\ H # {}
  <2>1. \A i \in 1..Len(cs) : f[i] \in Int /\ g[i] \in Int
    BY <1>3, <1>4, <1>5
  <2> QED
    BY <1>1, <1>6, <1>7, <2>1
<1>10. {cs[i].low : i \in DOMAIN cs} = L /\ {cs[i].high : i \in DOMAIN cs} = H
  BY <1>1, <1>4, <1>5, <1>6, <1>7
<1>11. Low(cs) = Min(L) /\ High(cs) = Max(H)
  BY <1>10 DEF Low, High
<1>12. Min(L) \in L /\ \A x \in L : Min(L) <= x
  BY <1>8, <1>9, MinIs
<1>13. Max(H) \in H /\ \A x \in H : x <= Max(H)
  BY <1>8, <1>9, MaxIs
<1>14. \A i \in 1..Len(cs) : cs[i].low \in L /\ cs[i].high \in H
  BY <1>4, <1>5, <1>6, <1>7
<1> QED
  BY <1>3, <1>9, <1>11, <1>12, <1>13, <1>14

\* A candle of some range covers a span of bins.
LEMMA CoveredIs ==
    ASSUME NEW cs, Ranging(cs), NEW i \in 1..Len(cs), cs[i].high > cs[i].low
    PROVE  \E lo, hi \in Nat : lo <= hi /\ hi < BinCount /\ Covered(cs, cs[i]) = lo..hi
<1>0. BinCount \in Nat /\ BinCount > 0
  BY VpAssumption
<1>1. cs \in Seq(VpBars) /\ Len(cs) > 0 /\ High(cs) > Low(cs)
  BY DEF Ranging
<1>2. PICK l : l = Low(cs)
  OBVIOUS
<1>3. PICK h : h = High(cs)
  OBVIOUS
<1>4. PICK a : a = cs[i].low
  OBVIOUS
<1>5. PICK b : b = cs[i].high
  OBVIOUS
<1>6. l \in Int /\ h \in Int /\ a \in Int /\ b \in Int /\ l <= a /\ a < b /\ b <= h
  BY <1>1, <1>2, <1>3, <1>4, <1>5, RangeSpans
<1>7. PICK d : d = h - l
  OBVIOUS
<1>8. PICK x : x = (a - l) * BinCount
  OBVIOUS
<1>9. PICK y : y = (b - l) * BinCount
  OBVIOUS
<1>10. d \in Nat /\ d > 0 /\ x \in Int /\ y \in Int
  BY <1>0, <1>6, <1>7, <1>8, <1>9
<1>11. 0 <= x /\ x <= y /\ x < d * BinCount
  BY <1>0, <1>6, <1>7, <1>8, <1>9
<1>12. PICK u : u = x \div d
  OBVIOUS
<1>13. PICK v : v = y \div d
  OBVIOUS
<1>14. u \in Int /\ v \in Int /\ d * u <= x /\ x < d * u + d
  BY <1>10, <1>12, <1>13, QuotientIs
<1>15. u <= v
  BY <1>10, <1>11, <1>12, <1>13, Quotients
<1>16. u >= 0
  <2>1. 0 < d * u + d
    <3>1. d * u \in Int
      BY <1>10, <1>14
    <3> QED
      BY <1>10, <1>11, <1>14, <3>1
  <2>2. d * u + d = d * (u + 1)
    BY <1>10, <1>14
  <2>3. ~(u + 1 <= 0)
    <3> SUFFICES ASSUME u + 1 <= 0 PROVE FALSE
      OBVIOUS
    <3>1. d * (u + 1) <= 0
      BY <1>10, <1>14
    <3> QED
      BY <2>1, <2>2, <3>1, <1>10, <1>14
  <2> QED
    BY <1>14, <2>3
<1>17. u < BinCount
  <2> SUFFICES ASSUME u >= BinCount PROVE FALSE
    BY <1>0, <1>14
  <2>1. d * u >= d * BinCount
    BY <1>0, <1>10, <1>14
  <2>2. d * u \in Int /\ d * BinCount \in Int
    BY <1>0, <1>10, <1>14
  <2> QED
    BY <1>10, <1>11, <1>14, <2>1, <2>2
<1>18. PICK w : w = AtMost(BinCount - 1, v)
  OBVIOUS
<1>19. w \in Nat /\ u <= w /\ w < BinCount
  BY <1>0, <1>14, <1>15, <1>16, <1>17, <1>18 DEF AtMost
<1>20. Covered(cs, cs[i]) = u..w
  <2>1. BinOf(cs, a) = u /\ BinOf(cs, b) = v
    BY <1>2, <1>3, <1>7, <1>8, <1>9, <1>12, <1>13 DEF BinOf
  <2> QED
    BY <1>4, <1>5, <1>18, <2>1 DEF Covered
<1>21. u \in Nat
  BY <1>14, <1>16
<1> QED
  BY <1>19, <1>20, <1>21

\* What is spread over a number of bins is spread evenly.
LEMMA EvenShare ==
    ASSUME NEW v \in Nat, NEW n \in 1..BinCount
    PROVE  /\ (v * Share) \div n \in Nat
           /\ ((v * Share) \div n) * n = v * Share
<1>1. PICK m \in 0..Share : Share = m * n
  BY VpAssumption
<1>2. BinCount \in Nat /\ n \in Nat /\ n > 0 /\ m \in Nat /\ Share \in Nat
  BY <1>1, VpAssumption
<1>3. PICK t : t = v * m
  OBVIOUS
<1>4. t \in Nat
  BY <1>2, <1>3
<1>5. v * Share = n * t
  BY <1>1, <1>2, <1>3
<1>6. (n * t) \div n = t
  <2>1. PICK x : x = n * t
    OBVIOUS
  <2>2. x \in Int
    BY <1>2, <1>4, <2>1
  <2>3. PICK q : q = x \div n
    OBVIOUS
  <2>4. q \in Int /\ n * q <= n * t /\ n * t < n * q + n
    BY <1>2, <2>1, <2>2, <2>3, QuotientIs
  <2>5. n * q + n = n * (q + 1)
    BY <1>2, <2>4
  <2>6. ~(q > t)
    <3> SUFFICES ASSUME q >= t + 1 PROVE FALSE
      BY <1>4, <2>4
    <3>1. n * q >= n * (t + 1) /\ n * (t + 1) = n * t + n
      BY <1>2, <1>4, <2>4
    <3>2. n * q \in Int /\ n * t \in Int
      BY <1>2, <1>4, <2>4
    <3> QED
      BY <1>2, <2>4, <3>1, <3>2
  <2>7. ~(q < t)
    <3> SUFFICES ASSUME q + 1 <= t PROVE FALSE
      BY <1>4, <2>4
    <3>1. n * (q + 1) <= n * t
      BY <1>2, <1>4, <2>4
    <3>2. n * (q + 1) \in Int /\ n * t \in Int
      BY <1>2, <1>4, <2>4
    <3> QED
      BY <2>4, <2>5, <3>1, <3>2
  <2> QED
    BY <1>4, <2>1, <2>3, <2>4, <2>6, <2>7
<1>7. (v * Share) \div n = t
  BY <1>5, <1>6
<1> QED
  BY <1>2, <1>4, <1>5, <1>7

Evenly(cs, i) ==
    \E lo, hi, c \in Nat :
        /\ lo <= hi /\ hi < BinCount /\ c * (hi - lo + 1) = cs[i].volume * Share
        /\ \A b : Spread(cs, i, b) = IF b \in lo..hi THEN c ELSE 0

LEMMA SpreadIs ==
    ASSUME NEW cs, Ranging(cs), NEW i \in 1..Len(cs)
    PROVE  \/ cs[i].high <= cs[i].low /\ \A b : Spread(cs, i, b) = 0
           \/ cs[i].high > cs[i].low /\ Evenly(cs, i)
<1>1. cs[i].low \in Int /\ cs[i].high \in Int /\ cs[i].volume \in Nat
  <2>1. cs \in Seq(VpBars) /\ Len(cs) > 0
    BY DEF Ranging
  <2> QED
    BY <2>1, RangeSpans
<1>2. CASE cs[i].high <= cs[i].low
  BY <1>2 DEF Spread
<1>3. CASE ~(cs[i].high <= cs[i].low)
  <2>1. cs[i].high > cs[i].low
    BY <1>1, <1>3
  <2>2. PICK lo, hi \in Nat : lo <= hi /\ hi < BinCount /\ Covered(cs, cs[i]) = lo..hi
    BY <2>1, CoveredIs
  <2>3. PICK n : n = hi - lo + 1
    OBVIOUS
  <2>4. Cardinality(lo..hi) = n /\ n \in 1..BinCount
    BY <2>2, <2>3, FS_Interval, VpAssumption
  <2>5. PICK c : c = (cs[i].volume * Share) \div n
    OBVIOUS
  <2>6. c \in Nat /\ c * n = cs[i].volume * Share
    BY <1>1, <2>4, <2>5, EvenShare
  <2>7. \A b : Spread(cs, i, b) = IF b \in lo..hi THEN c ELSE 0
    BY <1>3, <2>2, <2>4, <2>5 DEF Spread
  <2>8. Evenly(cs, i)
    BY <2>2, <2>3, <2>6, <2>7 DEF Evenly
  <2> QED
    BY <2>1, <2>8
<1> QED
  BY <1>2, <1>3

Heap(vol) == \A b \in Bins : vol[b] \in Nat

\* The bins hold what was traded, no more and no less.
LEMMA VolumesAre ==
    ASSUME NEW cs, Ranging(cs), NEW vol, vol = Volumes(cs)
    PROVE  Heap(vol) /\ All(vol) = Traded(cs)
<1>1. PICK n : n = Len(cs)
  OBVIOUS
<1>2. cs \in Seq(VpBars) /\ n \in Nat /\ n > 0 /\ DOMAIN cs = 1..n
  BY <1>1 DEF Ranging
<1>3. PICK m : m = BinCount
  OBVIOUS
<1>4. m \in Nat /\ m > 0 /\ Bins = 0..(m - 1)
  BY <1>3, VpAssumption DEF Bins
<1>5. PICK p : p = [x \in (1..n) \X (1..m) |-> Spread(cs, x[1], x[2] - 1)]
  OBVIOUS
<1>6. \A i \in 1..n, k \in 1..m : p[<<i, k>>] = Spread(cs, i, k - 1)
  BY <1>5
<1>7. ASSUME NEW i \in 1..n, NEW b PROVE Spread(cs, i, b) \in Nat
  <2>1. CASE \A x : Spread(cs, i, x) = 0
    BY <2>1
  <2>2. CASE Evenly(cs, i)
    BY <2>2 DEF Evenly
  <2> QED
    BY <1>1, <2>1, <2>2, SpreadIs
<1>8. Table(p, n, m)
  BY <1>2, <1>4, <1>6, <1>7 DEF Table
<1>9. ASSUME NEW k \in 1..m PROVE vol[k - 1] = Added(ColumnOf(p, n, k))
  <2>1. k - 1 \in Bins
    BY <1>4
  <2>2. vol[k - 1] = Added([i \in 1..n |-> Spread(cs, i, k - 1)])
    BY <1>2, <2>1 DEF Volumes
  <2>3. ColumnOf(p, n, k) = [i \in 1..n |-> Spread(cs, i, k - 1)]
    BY <1>6, <1>9 DEF ColumnOf
  <2> QED
    BY <2>2, <2>3
<1>10. n \in 0..n
  BY <1>2
<1>11. ASSUME NEW k \in 1..m PROVE vol[k - 1] \in Nat
  <2>1. Numbers(ColumnOf(p, n, k), n)
    BY <1>8, <1>10, TableIs
  <2>2. \A i \in 1..n : ColumnOf(p, n, k)[i] >= 0
    BY <1>6, <1>7 DEF ColumnOf
  <2> QED
    BY <1>9, <2>1, <2>2, AddedPositive
<1>12. Heap(vol)
  <2> SUFFICES ASSUME NEW b \in Bins PROVE vol[b] \in Nat
    BY DEF Heap
  <2>1. b + 1 \in 1..m /\ (b + 1) - 1 = b
    BY <1>4
  <2> QED
    BY <1>11, <2>1
<1>13. All(vol) = Added(Columns(p, n, m))
  <2>1. (BinCount - 1) - 0 + 1 = m
    BY <1>3, <1>4
  <2>2. All(vol) = Added([k \in 1..((BinCount - 1) - 0 + 1) |-> vol[0 + k - 1]])
    BY DEF All, Sum
  <2>3. \A k \in 1..m : vol[0 + k - 1] = Added(ColumnOf(p, n, k))
    <3> SUFFICES ASSUME NEW k \in 1..m PROVE vol[0 + k - 1] = Added(ColumnOf(p, n, k))
      OBVIOUS
    <3>1. 0 + k - 1 = k - 1
      BY <1>4
    <3> QED
      BY <1>9, <3>1
  <2>4. [k \in 1..m |-> vol[0 + k - 1]] = Columns(p, n, m)
    BY <2>3 DEF Columns
  <2> QED
    BY <2>1, <2>2, <2>4
<1>14. Traded(cs) = Added(RowSums(p, n, m))
  <2>1. ASSUME NEW i \in 1..n
        PROVE  Added(Row(p, i, m)) = IF cs[i].high > cs[i].low THEN cs[i].volume * Share ELSE 0
    <3>1. PICK f : f = Row(p, i, m)
      OBVIOUS
    <3>2. Numbers(f, m)
      BY <1>8, <1>10, <3>1, TableIs
    <3>3. \A k \in 1..m : f[k] = Spread(cs, i, k - 1)
      BY <1>6, <3>1 DEF Row
    <3>4. cs[i].low \in Int /\ cs[i].high \in Int
      BY <1>1, <1>2, RangeSpans
    <3>5. CASE cs[i].high <= cs[i].low
      <4>1. \A b : Spread(cs, i, b) = 0
        BY <3>5 DEF Spread
      <4>2. Added(f) = 0
        BY <3>2, <3>3, <4>1, AddedNothing
      <4> QED
        BY <3>1, <3>4, <3>5, <4>2
    <3>6. CASE cs[i].high > cs[i].low
      <4>1. PICK lo, hi, c \in Nat :
               /\ lo <= hi /\ hi < BinCount /\ c * (hi - lo + 1) = cs[i].volume * Share
               /\ \A b : Spread(cs, i, b) = IF b \in lo..hi THEN c ELSE 0
        <5>1. ~(cs[i].high <= cs[i].low)
          BY <3>4, <3>6
        <5>2. Evenly(cs, i)
          BY <1>1, <5>1, SpreadIs
        <5> QED
          BY <5>2 DEF Evenly
      <4>2. \A k \in 1..m : f[k] = IF k - 1 \in lo..hi THEN c ELSE 0
        BY <3>3, <4>1
      <4>3. hi < m /\ c \in Int
        BY <1>3, <4>1
      <4>4. Added(f) = c * (hi - lo + 1)
        BY <3>2, <4>1, <4>2, <4>3, AddedSpan
      <4> QED
        BY <3>1, <3>6, <4>1, <4>4
    <3> QED
      BY <3>4, <3>5, <3>6
  <2>2. RowSums(p, n, m) = [i \in 1..n |-> IF cs[i].high > cs[i].low THEN cs[i].volume * Share ELSE 0]
    BY <2>1 DEF RowSums
  <2> QED
    BY <1>2, <2>2 DEF Traded
<1>15. Added(Columns(p, n, m)) = Added(RowSums(p, n, m))
  BY <1>8, TableAdds
<1> QED
  BY <1>12, <1>13, <1>14, <1>15

LEMMA BinsAre ==
    /\ BinCount \in Nat /\ BinCount > 0 /\ Bins = 0..(BinCount - 1)
    /\ IsFiniteSet(Bins) /\ Bins \in SUBSET Nat /\ 0 \in Bins
<1>1. BinCount \in Nat /\ BinCount > 0
  BY VpAssumption
<1>2. IsFiniteSet(0..(BinCount - 1))
  BY <1>1, FS_Interval
<1> QED
  BY <1>1, <1>2 DEF Bins

\* The volume of a span of bins is a number.
LEMMA SumIs ==
    ASSUME NEW vol, Heap(vol), NEW lo \in Bins, NEW hi \in Bins
    PROVE  Sum(vol, lo, hi) \in Nat \/ lo > hi + 1
<1> SUFFICES ASSUME lo <= hi + 1 PROVE Sum(vol, lo, hi) \in Nat
  BY BinsAre
<1>1. PICK n : n = hi - lo + 1
  OBVIOUS
<1>2. n \in Nat /\ lo \in Nat /\ hi \in Nat
  BY <1>1, BinsAre
<1>3. PICK f : f = [k \in 1..n |-> vol[lo + k - 1]]
  OBVIOUS
<1>4. \A k \in 1..n : lo + k - 1 \in Bins
  BY <1>1, <1>2, BinsAre
<1>5. \A k \in 1..n : f[k] \in Nat
  BY <1>3, <1>4 DEF Heap
<1>6. Len(f) = n
  BY <1>2, <1>3
<1>7. Numbers(f, n)
  BY <1>2, <1>5, <1>6 DEF Numbers
<1>8. Added(f) \in Nat
  <2>1. \A k \in 1..n : f[k] >= 0
    BY <1>5
  <2> QED
    BY <1>7, <2>1, AddedPositive
<1> QED
  BY <1>1, <1>3, <1>8 DEF Sum

\* The volumes of some bins.
HeapOf(vol, S) == {vol[b] : b \in S}

LEMMA HeapIs ==
    ASSUME NEW vol, Heap(vol), NEW S \in SUBSET Bins
    PROVE  IsFiniteSet(HeapOf(vol, S)) /\ HeapOf(vol, S) \in SUBSET Nat
<1>1. IsFiniteSet(S)
  BY BinsAre, FS_Subset
<1>2. IsFiniteSet(HeapOf(vol, S))
  BY <1>1, ImageIsFinite DEF HeapOf
<1> QED
  BY <1>2 DEF HeapOf, Heap

\* The point of control: no bin has more volume.
LEMMA PocIs ==
    ASSUME NEW vol, Heap(vol)
    PROVE  Poc(vol) \in Bins /\ \A b \in Bins : vol[b] <= vol[Poc(vol)]
<1>1. PICK M : M = HeapOf(vol, Bins)
  OBVIOUS
<1>2. IsFiniteSet(M) /\ M \in SUBSET Nat
  BY <1>1, HeapIs
<1>3. M # {}
  BY <1>1, BinsAre DEF HeapOf
<1>4. PICK top \in M : \A x \in M : x <= top
  BY <1>2, <1>3, GreatestExists
<1>5. PICK T : T = {b \in Bins : vol[b] = top}
  OBVIOUS
<1>6. T \in SUBSET Nat /\ T # {}
  BY <1>1, <1>4, <1>5, BinsAre DEF HeapOf
<1>7. PICK b \in T : \A d \in T : b <= d
  BY <1>6, LeastExists
<1>8. ASSUME NEW d \in Bins PROVE vol[d] < vol[b] \/ (vol[d] = vol[b] /\ b <= d)
  <2>1. vol[d] \in M /\ vol[d] \in Nat /\ vol[b] = top /\ top \in Nat
    BY <1>1, <1>2, <1>4, <1>5 DEF HeapOf, Heap
  <2>2. vol[d] <= top
    BY <1>4, <2>1
  <2>3. vol[d] = top => b <= d
    BY <1>5, <1>7
  <2> QED
    BY <2>1, <2>2, <2>3
<1>9. b \in Bins
  BY <1>5
<1>10. /\ Poc(vol) \in Bins
       /\ \A d \in Bins : vol[d] < vol[Poc(vol)] \/ (vol[d] = vol[Poc(vol)] /\ Poc(vol) <= d)
  BY <1>8, <1>9 DEF Poc
<1>11. ASSUME NEW d \in Bins PROVE vol[d] <= vol[Poc(vol)]
  <2>1. vol[d] \in Nat /\ vol[Poc(vol)] \in Nat
    BY <1>10 DEF Heap
  <2> QED
    BY <1>10, <2>1
<1> QED
  BY <1>10, <1>11

\* The k-th smallest volume is a volume.
LEMMA RankedIs ==
    ASSUME NEW vol, Heap(vol), NEW S \in SUBSET Bins, NEW k \in 1..Cardinality(S)
    PROVE  Ranked(vol, S, k) \in Nat
<1> DEFINE below(v) == {b \in S : vol[b] < v}
           upto(v)  == {b \in S : vol[b] <= v}
<1>1. IsFiniteSet(S) /\ S \in SUBSET Nat
  BY BinsAre, FS_Subset
<1>2. PICK n : n = Cardinality(S)
  OBVIOUS
<1>3. n \in Nat /\ k \in Nat /\ 1 <= k /\ k <= n
  BY <1>1, <1>2, FS_CardinalityType
<1>4. \A v : /\ Cardinality(below(v)) \in Nat /\ Cardinality(upto(v)) \in Nat
  <2> SUFFICES ASSUME NEW v PROVE Cardinality(below(v)) \in Nat /\ Cardinality(upto(v)) \in Nat
    OBVIOUS
  <2>1. IsFiniteSet(below(v)) /\ IsFiniteSet(upto(v))
    BY <1>1, FS_Subset
  <2> QED
    BY <2>1, FS_CardinalityType
<1>5. \A b \in S : vol[b] \in Nat
  BY DEF Heap
<1>6. PICK M : M = HeapOf(vol, S)
  OBVIOUS
<1>7. IsFiniteSet(M) /\ M \in SUBSET Nat
  BY <1>6, HeapIs
<1>8. PICK V : V = {v \in M : k <= Cardinality(upto(v))}
  OBVIOUS
<1>9. V # {}
  <2>1. S # {}
    BY <1>2, <1>3, FS_EmptySet
  <2>2. M # {}
    BY <1>6, <2>1 DEF HeapOf
  <2>3. PICK top \in M : \A x \in M : x <= top
    BY <1>7, <2>2, GreatestExists
  <2>4. upto(top) = S
    BY <1>6, <2>3 DEF HeapOf
  <2>5. k <= Cardinality(upto(top))
    BY <1>2, <1>3, <2>4
  <2> HIDE DEF upto
  <2> QED
    BY <1>8, <2>3, <2>5
<1>10. V \in SUBSET Nat
  BY <1>7, <1>8
<1>11. PICK v \in V : \A w \in V : v <= w
  BY <1>9, <1>10, LeastExists
<1>12. Cardinality(below(v)) < k
  <2>1. CASE below(v) = {}
    <3>1. Cardinality(below(v)) = 0
      BY <2>1, FS_EmptySet
    <3> QED
      BY <1>3, <3>1
  <2>2. CASE below(v) # {}
    <3>1. PICK N : N = HeapOf(vol, below(v))
      OBVIOUS
    <3>2. below(v) \in SUBSET Bins /\ below(v) \in SUBSET S
      OBVIOUS
    <3>3. IsFiniteSet(N) /\ N \in SUBSET Nat
      BY <3>1, <3>2, HeapIs
    <3>4. N # {}
      BY <2>2, <3>1 DEF HeapOf
    <3>5. PICK u \in N : \A x \in N : x <= u
      BY <3>3, <3>4, GreatestExists
    <3>6. u \in M /\ u < v /\ u \in Nat /\ v \in Nat
      <4>1. PICK b \in below(v) : u = vol[b]
        BY <3>1, <3>5 DEF HeapOf
      <4>2. b \in S /\ vol[b] < v
        BY <4>1
      <4> QED
        BY <1>6, <1>7, <1>8, <1>11, <4>1, <4>2 DEF HeapOf
    <3>7. below(v) = upto(u)
      <4>1. ASSUME NEW b \in below(v) PROVE b \in upto(u)
        <5>1. vol[b] \in N /\ b \in S
          BY <3>1 DEF HeapOf
        <5>2. vol[b] <= u
          BY <3>5, <5>1
        <5> QED
          BY <5>1, <5>2
      <4>2. ASSUME NEW b \in upto(u) PROVE b \in below(v)
        <5>1. b \in S /\ vol[b] <= u /\ vol[b] \in Nat
          BY <1>5
        <5>2. vol[b] < v
          BY <3>6, <5>1
        <5> QED
          BY <5>1, <5>2
      <4> QED
        BY <4>1, <4>2
    <3>8. u \notin V
      BY <1>11, <3>6
    <3>9. ~(k <= Cardinality(upto(u)))
      BY <1>8, <3>6, <3>8
    <3>10. Cardinality(upto(u)) \in Nat
      BY <1>4
    <3>11. Cardinality(upto(u)) < k
      BY <1>3, <3>9, <3>10
    <3> QED
      BY <3>7, <3>11
  <2> QED
    BY <2>1, <2>2
<1>13. v \in M /\ k <= Cardinality(upto(v))
  BY <1>8, <1>11
<1>14. Ranked(vol, S, k) \in {vol[b] : b \in S}
  BY <1>6, <1>12, <1>13 DEF Ranked, HeapOf
<1> QED
  BY <1>5, <1>14

LEMMA MedianIs ==
    ASSUME NEW vol, Heap(vol)
    PROVE  MedianTwice(vol) \in Nat
<1>1. PICK S : S = {b \in Bins : vol[b] > 0}
  OBVIOUS
<1>2. PICK n : n = Cardinality(S)
  OBVIOUS
<1>3. S \in SUBSET Bins /\ IsFiniteSet(S)
  BY <1>1, BinsAre, FS_Subset
<1>4. n \in Nat
  BY <1>2, <1>3, FS_CardinalityType
<1>5. MedianTwice(vol) = IF n = 0 THEN 0 ELSE Ranked(vol, S, (n + 1) \div 2) + Ranked(vol, S, (n + 2) \div 2)
  BY <1>1, <1>2 DEF MedianTwice
<1>6. CASE n # 0
  <2>1. PICK i : i = (n + 1) \div 2
    OBVIOUS
  <2>2. PICK j : j = (n + 2) \div 2
    OBVIOUS
  <2>3. i \in 1..n /\ j \in 1..n
    BY <1>4, <1>6, <2>1, <2>2
  <2>4. Ranked(vol, S, i) \in Nat /\ Ranked(vol, S, j) \in Nat
    BY <1>2, <1>3, <2>3, RankedIs
  <2> QED
    BY <1>5, <1>6, <2>1, <2>2, <2>4
<1> QED
  BY <1>5, <1>6

\* No node of high volume lies in a gap of low volume.
LEMMA NodesApart ==
    ASSUME NEW vol, Heap(vol), NEW r \in LowNodes(vol)
    PROVE  HighNodes(vol) \cap (r[1]..r[2]) = {}
<1> SUFFICES ASSUME NEW b \in HighNodes(vol), b \in r[1]..r[2] PROVE FALSE
  OBVIOUS
<1>1. PICK m : m = MedianTwice(vol)
  OBVIOUS
<1>2. b \in Bins /\ vol[b] * 4 >= 3 * m
  BY <1>1 DEF HighNodes
<1>3. vol[b] * 4 < m
  BY <1>1 DEF LowNodes
<1>4. m \in Nat /\ vol[b] \in Nat
  BY <1>1, <1>2, MedianIs DEF Heap
<1> QED
  BY <1>2, <1>3, <1>4

\* A gap that starts before another one ends before it, with a bin between.
LEMMA GapBefore ==
    ASSUME NEW vol, NEW r \in LowNodes(vol), NEW q \in LowNodes(vol), r[1] < q[1]
    PROVE  r[2] + 1 < q[1]
<1> DEFINE thin(b) == vol[b] * 4 < MedianTwice(vol)
<1>1. /\ r[1] \in Nat /\ r[2] \in Nat /\ q[1] \in Nat /\ q[1] > 0
  BY BinsAre DEF LowNodes
<1>2. \A b \in r[1]..r[2] : thin(b)
  BY DEF LowNodes
<1>3. ~thin(q[1] - 1)
  BY <1>1 DEF LowNodes
<1> HIDE DEF thin
<1>4. q[1] - 1 \notin r[1]..r[2]
  BY <1>2, <1>3
<1> QED
  BY <1>1, <1>4

LEMMA GapsApart ==
    ASSUME NEW vol, NEW r \in LowNodes(vol), NEW q \in LowNodes(vol), r # q
    PROVE  r[2] + 1 < q[1] \/ q[2] + 1 < r[1]
<1> DEFINE thin(b) == vol[b] * 4 < MedianTwice(vol)
<1>1. /\ r[1] \in Nat /\ r[2] \in Nat /\ q[1] \in Nat /\ q[2] \in Nat
      /\ r[2] <= BinCount - 1 /\ q[2] <= BinCount - 1 /\ r[1] < r[2] /\ q[1] < q[2]
      /\ r = <<r[1], r[2]>> /\ q = <<q[1], q[2]>>
  BY BinsAre DEF LowNodes
<1>2. CASE r[1] < q[1]
  BY <1>2, GapBefore
<1>3. CASE q[1] < r[1]
  BY <1>3, GapBefore
<1>4. CASE r[1] = q[1]
  <2>1. r[2] # q[2]
    BY <1>1, <1>4
  <2>2. (\A b \in r[1]..r[2] : thin(b)) /\ (\A b \in q[1]..q[2] : thin(b))
    BY DEF LowNodes
  <2>3. (r[2] < BinCount - 1 => ~thin(r[2] + 1)) /\ (q[2] < BinCount - 1 => ~thin(q[2] + 1))
    BY DEF LowNodes
  <2> HIDE DEF thin
  <2>4. CASE r[2] < q[2]
    <3>1. r[2] < BinCount - 1 /\ r[2] + 1 \in q[1]..q[2]
      BY <1>1, <1>4, <2>4, BinsAre
    <3> QED
      BY <2>2, <2>3, <3>1
  <2>5. CASE q[2] < r[2]
    <3>1. q[2] < BinCount - 1 /\ q[2] + 1 \in r[1]..r[2]
      BY <1>1, <1>4, <2>5, BinsAre
    <3> QED
      BY <2>2, <2>3, <3>1
  <2> QED
    BY <1>1, <2>1, <2>4, <2>5
<1> QED
  BY <1>1, <1>2, <1>3, <1>4

\* A span of bins holds the share of the value area; the expansion is over.
Holds(vol, l, h) == Sum(vol, l, h) * AreaDen >= AreaNum * All(vol)
Spanned(vol, a)     == Holds(vol, a[1], a[2]) \/ a = <<0, BinCount - 1>>

\* The bin taken last was needed, and the better of the two.
Tight(vol, lo, hi) ==
    \/ lo = hi
    \/ /\ lo < Poc(vol) /\ ~Holds(vol, lo + 1, hi)
       /\ hi = BinCount - 1 \/ vol[lo] >= vol[hi + 1]
    \/ /\ hi > Poc(vol) /\ ~Holds(vol, lo, hi - 1)
       /\ lo = 0 \/ vol[hi] > vol[lo - 1]
Area(vol, a) == a[1] <= Poc(vol) /\ Poc(vol) <= a[2] /\ Tight(vol, a[1], a[2])

Taking(vol, lo, hi) ==
    \E l, h \in Bins : /\ Grown(vol, lo, hi) = <<l, h>> /\ h - l = hi - lo + 1
                       /\ lo <= Poc(vol) /\ Poc(vol) <= hi => Area(vol, <<l, h>>)

\* One step of the expansion takes a bin and leaves the area tight.
LEMMA GrownIs ==
    ASSUME NEW vol, Heap(vol), NEW lo \in Bins, NEW hi \in Bins, ~Holds(vol, lo, hi),
           ~(lo = 0 /\ hi = BinCount - 1)
    PROVE  Taking(vol, lo, hi)
<1>0. lo \in Nat /\ hi \in Nat /\ hi <= BinCount - 1 /\ BinCount \in Nat /\ BinCount > 0
  BY BinsAre
<1>1. Poc(vol) \in Nat
  BY PocIs, BinsAre
<1>2. PICK below : below = IF lo > 0 THEN vol[lo - 1] ELSE 0
  OBVIOUS
<1>3. PICK above : above = IF hi < BinCount - 1 THEN vol[hi + 1] ELSE 0
  OBVIOUS
<1>4. below \in Nat /\ above \in Nat
  <2>1. lo > 0 => lo - 1 \in Bins
    BY <1>0, BinsAre
  <2>2. hi < BinCount - 1 => hi + 1 \in Bins
    BY <1>0, BinsAre
  <2> QED
    BY <1>2, <1>3, <2>1, <2>2 DEF Heap
<1>5. CASE lo > 0 /\ (below >= above \/ hi = BinCount - 1)
  <2>1. Grown(vol, lo, hi) = <<lo - 1, hi>>
    BY <1>2, <1>3, <1>5 DEF Grown
  <2>2. lo - 1 \in Bins /\ hi - (lo - 1) = hi - lo + 1
    BY <1>0, <1>5, BinsAre
  <2>3. ASSUME lo <= Poc(vol), Poc(vol) <= hi PROVE Area(vol, <<lo - 1, hi>>)
    <3>1. lo - 1 < Poc(vol) /\ lo - 1 <= Poc(vol)
      BY <1>0, <1>1, <2>3
    <3>2. (lo - 1) + 1 = lo
      BY <1>0
    <3>3. ~Holds(vol, (lo - 1) + 1, hi)
      BY <3>2
    <3>4. hi = BinCount - 1 \/ vol[lo - 1] >= vol[hi + 1]
      BY <1>0, <1>2, <1>3, <1>5
    <3>5. Tight(vol, lo - 1, hi)
      BY <3>1, <3>3, <3>4 DEF Tight
    <3> QED
      BY <2>3, <3>1, <3>5 DEF Area
  <2> QED
    BY <2>1, <2>2, <2>3 DEF Taking
<1>6. CASE ~(lo > 0 /\ (below >= above \/ hi = BinCount - 1))
  <2>1. Grown(vol, lo, hi) = <<lo, hi + 1>>
    BY <1>2, <1>3, <1>6 DEF Grown
  <2>2. hi < BinCount - 1
    BY <1>0, <1>6
  <2>3. hi + 1 \in Bins /\ (hi + 1) - lo = hi - lo + 1
    BY <1>0, <2>2, BinsAre
  <2>4. ASSUME lo <= Poc(vol), Poc(vol) <= hi PROVE Area(vol, <<lo, hi + 1>>)
    <3>1. hi + 1 > Poc(vol) /\ Poc(vol) <= hi + 1
      BY <1>0, <1>1, <2>4
    <3>2. (hi + 1) - 1 = hi
      BY <1>0
    <3>3. ~Holds(vol, lo, (hi + 1) - 1)
      BY <3>2
    <3>4. lo = 0 \/ vol[hi + 1] > vol[lo - 1]
      BY <1>0, <1>2, <1>3, <1>4, <1>6, <2>2
    <3>5. Tight(vol, lo, hi + 1)
      BY <3>1, <3>3, <3>4 DEF Tight
    <3> QED
      BY <2>4, <3>1, <3>5 DEF Area
  <2> QED
    BY <2>1, <2>3, <2>4 DEF Taking
<1> QED
  BY <1>5, <1>6

LEMMA ExpandedIs ==
    ASSUME NEW vol, Heap(vol), NEW a \in Bins \X Bins
    PROVE  /\ Expanded(vol, a) \in Bins \X Bins
           /\ Area(vol, a) => Area(vol, Expanded(vol, a))
           /\ Spanned(vol, a) => Expanded(vol, a) = a
           /\ ~Spanned(vol, a) => Expanded(vol, a)[2] - Expanded(vol, a)[1] = a[2] - a[1] + 1
<1>1. PICK lo, hi \in Bins : a = <<lo, hi>> /\ a[1] = lo /\ a[2] = hi
  OBVIOUS
<1>2. CASE Spanned(vol, a)
  <2>1. Expanded(vol, a) = a
    BY <1>2 DEF Expanded, Spanned, Holds
  <2> QED
    BY <1>2, <2>1
<1>3. CASE ~Spanned(vol, a)
  <2>1. ~Holds(vol, lo, hi) /\ ~(lo = 0 /\ hi = BinCount - 1)
    BY <1>1, <1>3 DEF Spanned
  <2>2. Expanded(vol, a) = Grown(vol, lo, hi)
    BY <1>1, <1>3 DEF Expanded, Spanned, Holds
  <2>3. PICK l, h \in Bins : /\ Grown(vol, lo, hi) = <<l, h>> /\ h - l = hi - lo + 1
                             /\ lo <= Poc(vol) /\ Poc(vol) <= hi => Area(vol, <<l, h>>)
    <3>1. Taking(vol, lo, hi)
      BY <2>1, GrownIs
    <3> QED
      BY <3>1 DEF Taking
  <2>4. PICK e : e = Expanded(vol, a)
    OBVIOUS
  <2>5. e = <<l, h>> /\ e[1] = l /\ e[2] = h /\ e \in Bins \X Bins
    BY <2>2, <2>3, <2>4
  <2>6. Area(vol, a) => Area(vol, e)
    <3> SUFFICES ASSUME Area(vol, a) PROVE Area(vol, e)
      OBVIOUS
    <3>1. lo <= Poc(vol) /\ Poc(vol) <= hi
      BY <1>1 DEF Area
    <3> QED
      BY <2>3, <2>5, <3>1
  <2>7. e[2] - e[1] = a[2] - a[1] + 1
    BY <1>1, <2>3, <2>5
  <2> QED
    BY <1>3, <2>4, <2>5, <2>6, <2>7
<1> QED
  BY <1>2, <1>3

\* The run of the expansion.
Expanding(vol, f, n) ==
    [k \in 0..n |-> IF k = 0 THEN <<Poc(vol), Poc(vol)>> ELSE Expanded(vol, f[k - 1])]

LEMMA ValueAreaIs ==
    ASSUME NEW vol, Heap(vol)
    PROVE  \E r : r = Expanding(vol, r, BinCount) /\ ValueArea(vol) = r[BinCount]
<1>0. BinCount \in Nat
  BY BinsAre
<1>1. PICK T : T = Bins \X Bins
  OBVIOUS
<1>2. PICK base : base = <<Poc(vol), Poc(vol)>>
  OBVIOUS
<1>3. base \in T
  BY <1>1, <1>2, PocIs
<1>4. PICK st : st = [p \in T \X (1..BinCount) |-> Expanded(vol, p[1])]
  OBVIOUS
<1>5. \A a \in T : Expanded(vol, a) \in T
  BY <1>1, ExpandedIs
<1>6. st \in [T \X (1..BinCount) -> T]
  BY <1>4, <1>5
<1>7. PICK h \in [0..BinCount -> T] : Runs(h, base, st, BinCount)
  BY <1>0, <1>3, <1>6, LoopExists
<1>8. \A k \in 0..BinCount : h[k] = IF k = 0 THEN <<Poc(vol), Poc(vol)>> ELSE Expanded(vol, h[k - 1])
  <2> SUFFICES ASSUME NEW k \in 0..BinCount
               PROVE  h[k] = IF k = 0 THEN <<Poc(vol), Poc(vol)>> ELSE Expanded(vol, h[k - 1])
    OBVIOUS
  <2>1. CASE k = 0
    BY <1>2, <1>7, <2>1 DEF Runs
  <2>2. CASE k # 0
    <3>1. k \in 1..BinCount /\ k - 1 \in 0..BinCount
      BY <1>0, <2>2
    <3>2. h[k] = st[<<h[k - 1], k>>] /\ h[k - 1] \in T
      BY <1>7, <3>1 DEF Runs
    <3>3. <<h[k - 1], k>> \in T \X (1..BinCount)
      BY <3>1, <3>2
    <3>4. st[<<h[k - 1], k>>] = Expanded(vol, h[k - 1])
      BY <1>4, <3>3
    <3> QED
      BY <2>2, <3>2, <3>4
  <2> QED
    BY <2>1, <2>2
<1>9. h = Expanding(vol, h, BinCount)
  BY <1>7, <1>8 DEF Expanding
<1> DEFINE r == CHOOSE g : g = Expanding(vol, g, BinCount)
<1>10. r = Expanding(vol, r, BinCount)
  BY <1>9
<1>11. ValueArea(vol) = r[BinCount]
  BY DEF ValueArea, Expanding
<1> HIDE DEF r
<1> QED
  BY <1>10, <1>11

\* The value area holds its share and is tight.
LEMMA AreaIs ==
    ASSUME NEW vol, Heap(vol)
    PROVE  /\ ValueArea(vol) \in Bins \X Bins /\ Area(vol, ValueArea(vol))
           /\ Holds(vol, ValueArea(vol)[1], ValueArea(vol)[2])
<1>0. BinCount \in Nat /\ BinCount > 0 /\ \A b \in Bins : b \in Nat /\ b <= BinCount - 1
  BY BinsAre
<1>1. PICK r : r = Expanding(vol, r, BinCount) /\ ValueArea(vol) = r[BinCount]
  BY ValueAreaIs
<1>2. \A k \in 0..BinCount : r[k] = IF k = 0 THEN <<Poc(vol), Poc(vol)>> ELSE Expanded(vol, r[k - 1])
  BY <1>1 DEF Expanding
<1>3. Poc(vol) \in Bins /\ Poc(vol) \in Nat
  BY <1>0, PocIs
<1> DEFINE Far(a, k) == Spanned(vol, a) \/ a[2] - a[1] = k
           G == {k \in 0..BinCount : r[k] \in Bins \X Bins /\ Area(vol, r[k]) /\ Far(r[k], k)}
<1>4. 0 \in G
  <2>1. r[0] = <<Poc(vol), Poc(vol)>>
    BY <1>0, <1>2
  <2>2. Area(vol, r[0])
    BY <1>3, <2>1 DEF Area, Tight
  <2>3. r[0][2] - r[0][1] = 0
    BY <1>3, <2>1
  <2> QED
    BY <1>0, <1>3, <2>1, <2>2, <2>3
<1>5. ASSUME NEW k \in 1..BinCount, k - 1 \in G PROVE k \in G
  <2>1. PICK a : a = r[k - 1]
    OBVIOUS
  <2>2. a \in Bins \X Bins /\ Area(vol, a) /\ (Spanned(vol, a) \/ a[2] - a[1] = k - 1)
    BY <1>5, <2>1
  <2>3. PICK e : e = Expanded(vol, a)
    OBVIOUS
  <2>4. r[k] = e /\ k \in 0..BinCount
    BY <1>0, <1>2, <2>1, <2>3
  <2>5. /\ e \in Bins \X Bins /\ Area(vol, e) /\ (Spanned(vol, a) => e = a)
        /\ ~Spanned(vol, a) => e[2] - e[1] = a[2] - a[1] + 1
    BY <2>2, <2>3, ExpandedIs
  <2>6. Far(e, k)
    BY <1>0, <2>2, <2>5
  <2> QED
    BY <2>4, <2>5, <2>6
<1> HIDE DEF G
<1>6. 0..BinCount \subseteq G
  BY <1>0, <1>4, <1>5, LoopInduction
<1>7. PICK a : a = ValueArea(vol)
  OBVIOUS
<1>8. a \in Bins \X Bins /\ Area(vol, a) /\ (Spanned(vol, a) \/ a[2] - a[1] = BinCount)
  BY <1>0, <1>1, <1>6, <1>7 DEF G
<1>9. Spanned(vol, a)
  BY <1>0, <1>8
<1>10. Holds(vol, a[1], a[2])
  <2>1. CASE a = <<0, BinCount - 1>>
    <3>1. PICK t : t = All(vol)
      OBVIOUS
    <3>2. t \in Nat
      <4>1. 0 \in Bins /\ BinCount - 1 \in Bins
        BY BinsAre
      <4>2. ~(0 > (BinCount - 1) + 1)
        BY <1>0
      <4> QED
        BY <3>1, <4>1, <4>2, SumIs DEF All
    <3>3. AreaNum \in Nat /\ AreaDen \in Nat /\ AreaNum <= AreaDen
      BY VpAssumption
    <3>4. t * AreaDen >= AreaNum * t
      BY <3>2, <3>3
    <3> QED
      BY <2>1, <3>1, <3>4 DEF Holds, All
  <2> QED
    BY <1>9, <2>1 DEF Spanned
<1> QED
  BY <1>7, <1>8, <1>10

-----------------------------------------------------------------------------
\* The profile is of the candles it says.
ProfileIs ==
    /\ stored \in Seq(VpBars)
    /\ profile # None =>
         \E n \in 1..Len(stored) : /\ Ranging(SubSeq(stored, 1, n))
                                   /\ profile = Computed(n, Volumes(SubSeq(stored, 1, n)))

LEMMA ComputedSound ==
    ASSUME NEW n, NEW cs, Ranging(cs), profile = Computed(n, Volumes(cs)), cs = Kept
    PROVE  ProfileSound
<1>1. PICK vol : vol = Volumes(cs)
  OBVIOUS
<1>2. Heap(vol) /\ All(vol) = Traded(Kept)
  BY <1>1, VolumesAre
<1>3. /\ profile.vol = vol /\ profile.poc = Poc(vol) /\ profile.area = ValueArea(vol)
      /\ profile.nodes = HighNodes(vol) /\ profile.gaps = LowNodes(vol)
  BY <1>1 DEF Computed
<1>4. PICK lo : lo = profile.area[1]
  OBVIOUS
<1>5. PICK hi : hi = profile.area[2]
  OBVIOUS
<1>6. \A l, h : Holds(vol, l, h) <=> (Sum(vol, l, h) * AreaDen >= AreaNum * Traded(Kept))
  BY <1>2 DEF Holds
<1>7. \A b \in Bins : vol[b] <= vol[profile.poc]
  BY <1>2, <1>3, PocIs
<1>8. Area(vol, ValueArea(vol)) /\ Holds(vol, ValueArea(vol)[1], ValueArea(vol)[2])
  BY <1>2, AreaIs
<1>9. lo <= profile.poc /\ profile.poc <= hi /\ Holds(vol, lo, hi) /\ Tight(vol, lo, hi)
  BY <1>3, <1>4, <1>5, <1>8 DEF Area
<1>10. \A r, q \in profile.gaps : r # q => (r[2] + 1 < q[1] \/ q[2] + 1 < r[1])
  BY <1>3, GapsApart
<1>11. \A r \in profile.gaps : profile.nodes \cap (r[1]..r[2]) = {}
  BY <1>2, <1>3, NodesApart
<1>12. \/ lo = hi
       \/ /\ lo < profile.poc /\ ~(Sum(vol, lo + 1, hi) * AreaDen >= AreaNum * Traded(Kept))
          /\ hi = BinCount - 1 \/ vol[lo] >= vol[hi + 1]
       \/ /\ hi > profile.poc /\ ~(Sum(vol, lo, hi - 1) * AreaDen >= AreaNum * Traded(Kept))
          /\ lo = 0 \/ vol[hi] > vol[lo - 1]
  BY <1>3, <1>6, <1>9 DEF Tight
<1>13. Sum(vol, lo, hi) * AreaDen >= AreaNum * Traded(Kept)
  BY <1>6, <1>9
<1> QED
  BY <1>2, <1>3, <1>4, <1>5, <1>7, <1>9, <1>10, <1>11, <1>12, <1>13, Zenon DEF ProfileSound

LEMMA ProfileHolds ==
    ASSUME ProfileIs
    PROVE  ProfileSound
<1>1. CASE profile = None
  BY <1>1 DEF ProfileSound
<1>2. CASE profile # None
  <2>1. PICK n \in 1..Len(stored) : /\ Ranging(SubSeq(stored, 1, n))
                                    /\ profile = Computed(n, Volumes(SubSeq(stored, 1, n)))
    BY <1>2 DEF ProfileIs
  <2>2. profile.of = n
    BY <2>1 DEF Computed
  <2>3. Kept = SubSeq(stored, 1, n)
    BY <2>2 DEF Kept
  <2> QED
    BY <2>1, <2>3, ComputedSound
<1> QED
  BY <1>1, <1>2

\* The beginning of the candles stays as it is.
LEMMA BeginningIs ==
    ASSUME NEW S, NEW q \in Seq(S), NEW c \in S, NEW n \in 1..Len(q)
    PROVE  SubSeq(Append(q, c), 1, n) = SubSeq(q, 1, n)
OBVIOUS

LEMMA WholeIs ==
    ASSUME NEW S, NEW q \in Seq(S), Len(q) > 0
    PROVE  SubSeq(q, 1, Len(q)) = q
OBVIOUS

LEMMA ProfileStep ==
    ASSUME ProfileIs, VpCandle
    PROVE  ProfileIs'
<1>1. PICK c \in VpBars : stored' = Append(stored, c)
  BY DEF VpCandle
<1>2. PICK all : all = stored'
  OBVIOUS
<1>3. stored \in Seq(VpBars) /\ Len(stored) \in Nat
  BY DEF ProfileIs
<1>4. all \in Seq(VpBars) /\ Len(all) = Len(stored) + 1
  BY <1>1, <1>2, <1>3, AppendProperties
<1>5. \/ profile' = profile
      \/ High(all) > Low(all) /\ profile' = Computed(Len(all), Volumes(all))
  <2>2. Low(all) \in Int /\ High(all) \in Int
    BY <1>3, <1>4, RangeSpans
  <2> QED
    BY <1>2, <2>2 DEF VpCandle
<1>6. CASE profile' = profile
  <2>1. CASE profile = None
    BY <1>2, <1>4, <1>6, <2>1 DEF ProfileIs
  <2>2. CASE profile # None
    <3>1. PICK n \in 1..Len(stored) : /\ Ranging(SubSeq(stored, 1, n))
                                      /\ profile = Computed(n, Volumes(SubSeq(stored, 1, n)))
      BY <2>2 DEF ProfileIs
    <3>2. SubSeq(stored', 1, n) = SubSeq(stored, 1, n)
      BY <1>1, <1>3, BeginningIs
    <3>3. n \in 1..Len(stored')
      BY <1>2, <1>3, <1>4
    <3> QED
      BY <1>2, <1>4, <1>6, <3>1, <3>2, <3>3 DEF ProfileIs
  <2> QED
    BY <2>1, <2>2
<1>7. CASE High(all) > Low(all) /\ profile' = Computed(Len(all), Volumes(all))
  <2>1. SubSeq(all, 1, Len(all)) = all
    BY <1>3, <1>4, WholeIs
  <2>2. Ranging(all) /\ Len(all) \in 1..Len(all)
    BY <1>3, <1>4, <1>7 DEF Ranging
  <2> QED
    BY <1>2, <1>4, <1>7, <2>1, <2>2 DEF ProfileIs
<1> QED
  BY <1>5, <1>6, <1>7

-----------------------------------------------------------------------------
\* The zones handed to the strategy are what they are taken for: no bar an
\* update has seen closed through an active block after its break or bridged
\* an active gap, a sweep closed back (order_blocks.py, fvg.py, liquidity.py);
\* the bins of the volume profile hold what was traded, its value area is an
\* interval about the point of control that holds its share and not a bin more
\* than that takes, its gaps are maximal and apart from its nodes
\* (volume_profile.py).
ZonesInv == DetInv /\ ProfileIs

THEOREM ZonesAreSound == Spec => []ZonesHold
<1>1. Init => ZonesInv
  <2> SUFFICES ASSUME Init PROVE ZonesInv
    OBVIOUS
  <2>1. DetInit /\ VpInit
    BY DEF Init
  <2>2. stored = << >> /\ profile = None
    BY <2>1 DEF VpInit
  <2>3. ProfileIs
    BY <2>2, EmptySeq DEF ProfileIs
  <2> QED
    BY <2>1, <2>3, DetStarts DEF ZonesInv
<1>2. ZonesInv /\ [Next]_vars => ZonesInv'
  <2> SUFFICES ASSUME ZonesInv, [Next]_vars PROVE ZonesInv'
    OBVIOUS
  <2>1. DetInv'
    <3>1. CASE DetNext
      BY <3>1, DetStep DEF ZonesInv
    <3>2. CASE UNCHANGED detVars
      <4>1. bars' = bars /\ obs' = obs /\ fvgs' = fvgs /\ sweeps' = sweeps /\ seenBars' = seenBars
        BY <3>2 DEF detVars
      <4>2. ActiveBlocksHold' /\ ActiveGapsOpen' /\ SweepsCloseBack'
        BY <4>1 DEF ZonesInv, DetInv, ActiveBlocksHold, ActiveGapsOpen, SweepsCloseBack
      <4> QED
        BY <4>1, <4>2 DEF ZonesInv, DetInv
    <3> QED
      BY <3>1, <3>2 DEF Next, Idle, vars
  <2>2. ProfileIs'
    <3>1. CASE VpCandle
      BY <3>1, ProfileStep DEF ZonesInv
    <3>2. CASE UNCHANGED vpVars
      <4>1. stored' = stored /\ profile' = profile
        BY <3>2 DEF vpVars
      <4> QED
        BY <4>1 DEF ZonesInv, ProfileIs
    <3> QED
      BY <3>1, <3>2 DEF Next, Idle, vars
  <2> QED
    BY <2>1, <2>2 DEF ZonesInv
<1>3. ZonesInv => ZonesHold
  <2> SUFFICES ASSUME ZonesInv PROVE ZonesHold
    OBVIOUS
  <2>1. ActiveBlocksHold /\ ActiveGapsOpen /\ SweepsCloseBack
    BY DEF ZonesInv, DetInv
  <2>2. ProfileSound
    BY ProfileHolds DEF ZonesInv
  <2> QED
    BY <2>1, <2>2, Zenon DEF ZonesHold
<1> QED
  BY <1>1, <1>2, <1>3, PTL DEF Spec

-----------------------------------------------------------------------------
\* History: the structure while the window slides.  A walk is told by sets: a
\* bar breaks the swings that no bar between has been beyond (Firsts), and
\* marks the foremost of them.  A window that slides by g has the same firsts,
\* but for the swings that its bars confirm no more.

Firsts(w, i) ==
    {s \in Swings(w) : /\ s.index < i /\ ClosesBeyond(w, i, s)
                       /\ \A j \in 1..(i - 1) : s.index < j => ~ClosesBeyond(w, j, s)}
UsedBy(w, i) == {s \in Swings(w) : \E j \in 1..i : s.index < j /\ ClosesBeyond(w, j, s)}
MarkFor(i, s) == [at |-> i, swing |-> s.index, dir |-> Direction(s)]
MarksBy(w, i) == {MarkFor(j, Foremost(w, j, Firsts(w, j))) : j \in {n \in 1..i : Firsts(w, n) # {}}}
MarkIn(b) == [at |-> b.at, swing |-> b.swing, dir |-> b.dir]
Marked(q) == {MarkIn(q[k]) : k \in 1..Len(q)}

\* One bar of the walk.
LEMMA TurnMarks ==
    ASSUME NEW w \in Seq(Bars), NEW i \in 1..Len(w), NEW st, Confirming(st),
           st.used = UsedBy(w, i - 1), Marked(st.breaks) = MarksBy(w, i - 1)
    PROVE  Walk(w, st, i).used = UsedBy(w, i) /\ Marked(Walk(w, st, i).breaks) = MarksBy(w, i)
<1>0. i \in Nat /\ i - 1 \in Nat /\ i \in 1..i /\ \A j \in 1..i : j \in 1..(i - 1) \/ j = i
  OBVIOUS
<1>1. Broken(w, i, st.used) = Firsts(w, i)
  <2>1. ASSUME NEW s \in Swings(w), s.index < i
        PROVE  s \notin UsedBy(w, i - 1) <=> \A j \in 1..(i - 1) : s.index < j => ~ClosesBeyond(w, j, s)
    BY DEF UsedBy
  <2> QED
    BY <2>1 DEF Broken, Firsts
<1>2. UsedBy(w, i) = UsedBy(w, i - 1) \cup Firsts(w, i)
  <2>1. ASSUME NEW s \in Swings(w)
        PROVE  (\E j \in 1..i : s.index < j /\ ClosesBeyond(w, j, s))
                 <=> s \in UsedBy(w, i - 1) \/ (s.index < i /\ ClosesBeyond(w, i, s))
    BY <1>0 DEF UsedBy
  <2> QED
    BY <2>1 DEF UsedBy, Firsts
<1>3. CASE Firsts(w, i) = {}
  <2>1. {n \in 1..i : Firsts(w, n) # {}} = {n \in 1..(i - 1) : Firsts(w, n) # {}}
    BY <1>0, <1>3
  <2>2. MarksBy(w, i) = MarksBy(w, i - 1)
    BY <2>1, Zenon DEF MarksBy
  <2> QED
    BY <1>1, <1>2, <1>3, <2>2 DEF Walk
<1>4. CASE Firsts(w, i) # {}
  <2>1. PICK best : best = Foremost(w, i, Firsts(w, i))
    OBVIOUS
  <2>2. PICK b : /\ Walk(w, st, i).breaks = Append(st.breaks, b)
                 /\ MarkIn(b) = MarkFor(i, best)
    <3>1. PICK b : b = [at |-> i, swing |-> best.index, dir |-> Direction(best),
                        kind |-> IF st.trend \in {"undefined", Direction(best)} THEN "bos" ELSE "choch"]
      OBVIOUS
    <3>2. MarkIn(b) = MarkFor(i, best)
      BY <3>1 DEF MarkIn, MarkFor
    <3>3. Walk(w, st, i).breaks = Append(st.breaks, b)
      BY <1>1, <1>4, <2>1, <3>1 DEF Walk
    <3> QED
      BY <3>2, <3>3
  <2>3. Walk(w, st, i).used = UsedBy(w, i)
    BY <1>1, <1>2, <1>4 DEF Walk
  <2>4. PICK q : q = st.breaks
    OBVIOUS
  <2>5. PICK p : p = Append(q, b)
    OBVIOUS
  <2>6. Len(q) \in Nat /\ Len(p) = Len(q) + 1 /\ p[Len(q) + 1] = b /\ \A k \in 1..Len(q) : p[k] = q[k]
    BY <2>4, <2>5 DEF Confirming
  <2>7. Marked(p) = Marked(q) \cup {MarkFor(i, best)}
    <3>1. 1..Len(p) = 1..Len(q) \cup {Len(q) + 1}
      BY <2>6
    <3> QED
      BY <2>2, <2>6, <3>1 DEF Marked
  <2>8. {n \in 1..i : Firsts(w, n) # {}} = {n \in 1..(i - 1) : Firsts(w, n) # {}} \cup {i}
    BY <1>0, <1>4
  <2>9. MarksBy(w, i) = MarksBy(w, i - 1) \cup {MarkFor(i, best)}
    BY <2>1, <2>8 DEF MarksBy
  <2> QED
    BY <2>2, <2>3, <2>4, <2>5, <2>7, <2>9
<1> QED
  BY <1>3, <1>4

\* The whole walk.
LEMMA WalkedMarks ==
    ASSUME NEW w \in Seq(Bars), NEW r, r = Walked(w, r, Len(w)), NEW i \in 0..Len(w)
    PROVE  r[i].used = UsedBy(w, i) /\ Marked(r[i].breaks) = MarksBy(w, i)
<1> DEFINE G == {k \in 0..Len(w) : r[k].used = UsedBy(w, k) /\ Marked(r[k].breaks) = MarksBy(w, k)}
<1>0. Len(w) \in Nat
  OBVIOUS
<1>1. \A k \in 0..Len(w) : r[k] = IF k = 0 THEN NoStructure ELSE Walk(w, r[k - 1], k)
  BY DEF Walked
<1>2. 0 \in G
  <2>1. r[0] = NoStructure /\ 0 \in 0..Len(w)
    BY <1>0, <1>1
  <2>2. NoStructure.used = {} /\ Len(NoStructure.breaks) = 0
    BY NothingConfirms DEF NoStructure
  <2>3. UsedBy(w, 0) = {} /\ MarksBy(w, 0) = {}
    BY DEF UsedBy, MarksBy
  <2>4. Marked(NoStructure.breaks) = {}
    BY <2>2 DEF Marked
  <2> QED
    BY <2>1, <2>2, <2>3, <2>4
<1>3. ASSUME NEW k \in 1..Len(w), k - 1 \in G PROVE k \in G
  <2>1. k - 1 \in 0..Len(w) /\ k \in 0..Len(w) /\ r[k] = Walk(w, r[k - 1], k)
    BY <1>0, <1>1
  <2>2. Confirming(r[k - 1])
    BY <2>1, WalkedSound
  <2> QED
    BY <1>3, <2>1, <2>2, TurnMarks
<1> HIDE DEF G
<1>4. 0..Len(w) \subseteq G
  BY <1>0, <1>2, <1>3, LoopInduction
<1> QED
  BY <1>4 DEF G

\* What a window has marked; one that is too short has no swing.
LEMMA AnalyzeMarks ==
    ASSUME NEW w \in Seq(Bars)
    PROVE  Marked(Analyze(w).breaks) = MarksBy(w, Len(w))
<1>1. Len(w) \in Nat /\ Len(w) \in 0..Len(w) /\ SwingLookback \in Nat
  BY StructureAssumption
<1>2. PICK r : /\ r = Walked(w, r, Len(w))
               /\ Analyze(w) = IF Len(w) < 2 * SwingLookback + 1 THEN NoStructure ELSE r[Len(w)]
  BY <1>1, AnalyzeIs
<1>3. CASE Len(w) < 2 * SwingLookback + 1
  <2>1. Inner(w) = {}
    BY <1>1, <1>3 DEF Inner
  <2>2. \A n : Firsts(w, n) = {}
    BY <2>1 DEF Firsts, Swings, SwingHighs, SwingLows
  <2>3. MarksBy(w, Len(w)) = {}
    BY <2>2 DEF MarksBy
  <2>4. Marked(NoStructure.breaks) = {}
    BY NothingConfirms DEF Marked
  <2> QED
    BY <1>2, <1>3, <2>3, <2>4
<1>4. CASE ~(Len(w) < 2 * SwingLookback + 1)
  BY <1>1, <1>2, <1>4, WalkedMarks
<1> QED
  BY <1>3, <1>4

-----------------------------------------------------------------------------
\* The window v, which has slid by g bars from w and has one bar more.
Slid(w, v, g) ==
    /\ w \in Seq(Bars) /\ v \in Seq(Bars) /\ g \in Nat /\ Len(v) + g = Len(w) + 1
    /\ \A i \in 1..(Len(v) - 1) : v[i] = w[i + g]
Moved(s, g) == [type |-> s.type, index |-> s.index + g]

\* Swings that both windows confirm are the same.
LEMMA SwingsSlide ==
    ASSUME NEW w, NEW v, NEW g, Slid(w, v, g), NEW i \in Inner(v), i + SwingLookback < Len(v)
    PROVE  /\ i + g \in Inner(w) /\ i \in 1..(Len(v) - 1)
           /\ i \in SwingHighs(v) <=> i + g \in SwingHighs(w)
           /\ i \in SwingLows(v) <=> i + g \in SwingLows(w)
<1>1. SwingLookback \in Nat /\ Len(w) \in Nat /\ Len(v) \in Nat /\ g \in Nat /\ Len(v) + g = Len(w) + 1
  BY StructureAssumption DEF Slid
<1>2. i \in Int /\ i >= SwingLookback + 1 /\ i + SwingLookback < Len(v)
  BY <1>1 DEF Inner
<1>3. i + g \in Inner(w) /\ i \in 1..(Len(v) - 1)
  BY <1>1, <1>2 DEF Inner
<1>4. \A j \in Around(i) : j \in Int /\ v[j] = w[j + g] /\ j + g \in Around(i + g)
  <2>1. \A j \in Around(i) : j \in 1..(Len(v) - 1) /\ j + g \in Around(i + g)
    BY <1>1, <1>2 DEF Around
  <2> QED
    BY <2>1 DEF Slid
<1>5. \A j \in Around(i + g) : j - g \in Around(i) /\ (j - g) + g = j /\ j \in Int
  BY <1>1, <1>2 DEF Around
<1>6. v[i] = w[i + g]
  BY <1>3 DEF Slid
<1>7. \A j \in Around(i) : (j = i <=> j + g = i + g)
  BY <1>1, <1>2, <1>4
<1>8. i \in SwingHighs(v) <=> i + g \in SwingHighs(w)
  <2>1. (\A j \in Around(i) \ {i} : v[j].high < v[i].high)
          <=> (\A j \in Around(i + g) \ {i + g} : w[j].high < w[i + g].high)
    BY <1>4, <1>5, <1>6, <1>7
  <2> QED
    BY <1>3, <2>1 DEF SwingHighs
<1>9. i \in SwingLows(v) <=> i + g \in SwingLows(w)
  <2>1. (\A j \in Around(i) \ {i} : v[j].low > v[i].low)
          <=> (\A j \in Around(i + g) \ {i + g} : w[j].low > w[i + g].low)
    BY <1>4, <1>5, <1>6, <1>7
  <2> QED
    BY <1>3, <2>1 DEF SwingLows
<1> QED
  BY <1>3, <1>8, <1>9

\* And so is what a bar of both is to such a swing.
LEMMA LevelSlides ==
    ASSUME NEW w, NEW v, NEW g, Slid(w, v, g), NEW s, s.index \in 1..(Len(v) - 1), NEW i \in 1..(Len(v) - 1)
    PROVE  /\ Distance(w, i + g, Moved(s, g)) = Distance(v, i, s)
           /\ ClosesBeyond(w, i + g, Moved(s, g)) <=> ClosesBeyond(v, i, s)
<1>1. v[i] = w[i + g] /\ v[s.index] = w[s.index + g]
  BY DEF Slid
<1>2. Moved(s, g).type = s.type /\ Moved(s, g).index = s.index + g
  BY DEF Moved
<1>3. Level(w, Moved(s, g)) = Level(v, s)
  BY <1>1, <1>2, Zenon DEF Level
<1>4. w[i + g].close = v[i].close
  BY <1>1
<1> QED
  BY <1>2, <1>3, <1>4, Zenon DEF Distance, ClosesBeyond

\* What a bar is the first to break, in the longer past and the shorter.
LEMMA FirstsSlide ==
    ASSUME NEW w, NEW v, NEW g, Slid(w, v, g), NEW i \in 1..(Len(v) - 1),
           NEW s, s = [type |-> s.type, index |-> s.index], s.index \in Int, s.index >= SwingLookback + 1
    PROVE  s \in Firsts(v, i) <=> Moved(s, g) \in Firsts(w, i + g)
<1>1. SwingLookback \in Nat /\ Len(w) \in Nat /\ Len(v) \in Nat /\ g \in Nat /\ Len(v) + g = Len(w) + 1
      /\ w \in Seq(Bars) /\ v \in Seq(Bars)
  BY StructureAssumption DEF Slid
<1>2. PICK t : t = Moved(s, g)
  OBVIOUS
<1>9. PICK n : n = i + g
  OBVIOUS
<1>3. t.type = s.type /\ t.index = s.index + g
  BY <1>2 DEF Moved
<1>4. i \in 1..Len(v) /\ n \in 1..Len(w) /\ i \in Int
  BY <1>1, <1>9
<1>5. ASSUME s.index + SwingLookback < i PROVE s \in Firsts(v, i) <=> t \in Firsts(w, n)
  <2>1. s.index \in Inner(v) /\ s.index + SwingLookback < Len(v) /\ s.index \in 1..(Len(v) - 1)
    BY <1>1, <1>4, <1>5 DEF Inner
  <2>2. s \in Swings(v) <=> t \in Swings(w)
    <3>1. /\ s.index \in SwingHighs(v) <=> t.index \in SwingHighs(w)
          /\ s.index \in SwingLows(v) <=> t.index \in SwingLows(w)
      BY <1>3, <2>1, SwingsSlide
    <3>2. t = [type |-> t.type, index |-> t.index]
      BY <1>2, <1>3 DEF Moved
    <3>3. s \in Swings(v) <=> (s.type = "high" /\ s.index \in SwingHighs(v)) \/ (s.type = "low" /\ s.index \in SwingLows(v))
      BY DEF Swings
    <3>4. t \in Swings(w) <=> (t.type = "high" /\ t.index \in SwingHighs(w)) \/ (t.type = "low" /\ t.index \in SwingLows(w))
      BY <3>2 DEF Swings
    <3> QED
      BY <1>3, <3>1, <3>3, <3>4
  <2>3. \A j \in 1..(Len(v) - 1) : ClosesBeyond(w, j + g, t) <=> ClosesBeyond(v, j, s)
    BY <1>2, <2>1, LevelSlides
  <2>4. (\A j \in 1..(i - 1) : s.index < j => ~ClosesBeyond(v, j, s))
          <=> (\A j \in 1..(n - 1) : t.index < j => ~ClosesBeyond(w, j, t))
    <3>1. ASSUME NEW j \in 1..(i - 1), s.index < j
          PROVE  /\ j + g \in 1..(n - 1) /\ t.index < j + g
                 /\ ClosesBeyond(w, j + g, t) <=> ClosesBeyond(v, j, s)
      <4>1. j \in 1..(Len(v) - 1) /\ j + g \in 1..(n - 1) /\ t.index < j + g
        BY <1>1, <1>3, <1>4, <1>9, <3>1
      <4> QED
        BY <2>3, <4>1
    <3>2. ASSUME NEW j \in 1..(n - 1), t.index < j
          PROVE  /\ j - g \in 1..(i - 1) /\ s.index < j - g
                 /\ ClosesBeyond(w, j, t) <=> ClosesBeyond(v, j - g, s)
      <4>1. j - g \in 1..(Len(v) - 1) /\ j - g \in 1..(i - 1) /\ s.index < j - g /\ (j - g) + g = j
        BY <1>1, <1>3, <1>4, <1>9, <3>2
      <4>2. ClosesBeyond(w, (j - g) + g, t) <=> ClosesBeyond(v, j - g, s)
        BY <2>3, <4>1
      <4> QED
        BY <4>1, <4>2
    <3> QED
      BY <3>1, <3>2
  <2>5. ClosesBeyond(w, n, t) <=> ClosesBeyond(v, i, s)
    BY <1>9, <2>3
  <2>6. s.index < i <=> t.index < n
    BY <1>1, <1>3, <1>4, <1>9
  <2>7. s \in Firsts(v, i) <=> /\ s \in Swings(v) /\ s.index < i /\ ClosesBeyond(v, i, s)
                               /\ \A j \in 1..(i - 1) : s.index < j => ~ClosesBeyond(v, j, s)
    BY Zenon DEF Firsts
  <2>8. t \in Firsts(w, n) <=> /\ t \in Swings(w) /\ t.index < n /\ ClosesBeyond(w, n, t)
                                   /\ \A j \in 1..(n - 1) : t.index < j => ~ClosesBeyond(w, j, t)
    BY Zenon DEF Firsts
  <2> QED
    BY <2>2, <2>4, <2>5, <2>6, <2>7, <2>8, Zenon
<1>6. ASSUME s \in Firsts(v, i) PROVE s.index + SwingLookback < i
  <2>1. s \in Swings(v) /\ s.index < i /\ ClosesBeyond(v, i, s)
    BY <1>6 DEF Firsts
  <2> QED
    BY <1>1, <1>4, <2>1, BeyondIsAfter
<1>7. ASSUME t \in Firsts(w, n) PROVE s.index + SwingLookback < i
  <2>1. t \in Swings(w) /\ t.index < n /\ ClosesBeyond(w, n, t)
    BY <1>7 DEF Firsts
  <2>2. n > t.index + SwingLookback
    BY <1>1, <1>4, <2>1, BeyondIsAfter
  <2> QED
    BY <1>1, <1>3, <1>4, <1>9, <2>2
<1> QED
  BY <1>2, <1>5, <1>6, <1>7, <1>9

\* Two swings that lead each other are one.
LEMMA LeadIsOne ==
    ASSUME NEW w \in Seq(Bars), NEW i \in 1..Len(w), NEW s \in Swings(w), NEW t \in Swings(w),
           Leads(w, i, s, t), Leads(w, i, t, s)
    PROVE  s = t
<1>1. Distance(w, i, s) \in Nat /\ Distance(w, i, t) \in Nat
  BY DistanceIs
<1>2. Distance(w, i, s) = Distance(w, i, t)
  BY <1>1 DEF Leads
<1>3. s.type \in {"high", "low"} /\ t.type \in {"high", "low"} /\ s.index \in Int /\ t.index \in Int
      /\ s = [type |-> s.type, index |-> s.index] /\ t = [type |-> t.type, index |-> t.index]
  BY SwingIs
<1>4. s.type = t.type
  BY <1>2, <1>3 DEF Leads
<1>5. s.index <= t.index /\ t.index <= s.index
  BY <1>2, <1>4 DEF Leads
<1>6. s.index = t.index
  BY <1>3, <1>5
<1> QED
  BY <1>3, <1>4, <1>6

\* The firsts of a bar are swings, and the foremost leads them.
LEMMA FirstSwings ==
    ASSUME NEW w \in Seq(Bars), NEW i \in 1..Len(w), Firsts(w, i) # {}
    PROVE  /\ Firsts(w, i) \in SUBSET Swings(w)
           /\ Foremost(w, i, Firsts(w, i)) \in Firsts(w, i)
           /\ \A t \in Firsts(w, i) : Leads(w, i, Foremost(w, i, Firsts(w, i)), t)
<1>1. Firsts(w, i) \in SUBSET Swings(w)
  BY DEF Firsts
<1> QED
  BY <1>1, ForemostIs

\* A bar of the past has marked what it marks, and marks on what is confirmed.
LEMMA MarksSlide ==
    ASSUME NEW w, NEW v, NEW g, Slid(w, v, g)
    PROVE  /\ \A b \in MarksBy(v, Len(v)) :
                  b.at < Len(v) => \E a \in MarksBy(w, Len(w)) : a.at = b.at + g
           /\ \A a \in MarksBy(w, Len(w)) :
                  a.swing - g >= SwingLookback + 1
                    => [at |-> a.at - g, swing |-> a.swing - g, dir |-> a.dir] \in MarksBy(v, Len(v))
<1>1. SwingLookback \in Nat /\ Len(w) \in Nat /\ Len(v) \in Nat /\ g \in Nat /\ Len(v) + g = Len(w) + 1
      /\ w \in Seq(Bars) /\ v \in Seq(Bars)
  BY StructureAssumption DEF Slid
<1>2. ASSUME NEW b \in MarksBy(v, Len(v)), b.at < Len(v)
      PROVE  \E a \in MarksBy(w, Len(w)) : a.at = b.at + g
  <2>1. PICK i \in 1..Len(v) : Firsts(v, i) # {} /\ b.at = i
    BY DEF MarksBy, MarkFor
  <2>2. i \in 1..(Len(v) - 1) /\ i + g \in 1..Len(w)
    BY <1>1, <1>2, <2>1
  <2>3. PICK s : s \in Firsts(v, i)
    BY <2>1
  <2>4. s \in Swings(v)
    BY <2>3 DEF Firsts
  <2>5. s = [type |-> s.type, index |-> s.index] /\ s.index \in Int /\ s.index >= SwingLookback + 1
    BY <1>1, <2>4, SwingIs DEF Inner
  <2>6. Firsts(w, i + g) # {}
    BY <2>2, <2>3, <2>5, FirstsSlide
  <2>7. MarkFor(i + g, Foremost(w, i + g, Firsts(w, i + g))) \in MarksBy(w, Len(w))
    BY <2>2, <2>6 DEF MarksBy
  <2>8. MarkFor(i + g, Foremost(w, i + g, Firsts(w, i + g))).at = i + g
    BY DEF MarkFor
  <2> QED
    BY <2>1, <2>7, <2>8
<1>3. ASSUME NEW a \in MarksBy(w, Len(w)), a.swing - g >= SwingLookback + 1
      PROVE  [at |-> a.at - g, swing |-> a.swing - g, dir |-> a.dir] \in MarksBy(v, Len(v))
  <2>1. PICK n \in 1..Len(w) : Firsts(w, n) # {} /\ a = MarkFor(n, Foremost(w, n, Firsts(w, n)))
    BY DEF MarksBy
  <2>2. PICK t : t = Foremost(w, n, Firsts(w, n))
    OBVIOUS
  <2>3. a.at = n /\ a.swing = t.index /\ a.dir = Direction(t)
    BY <2>1, <2>2 DEF MarkFor
  <2>4. t \in Firsts(w, n) /\ t \in Swings(w) /\ \A u \in Firsts(w, n) : Leads(w, n, t, u)
    BY <1>1, <2>1, <2>2, FirstSwings
  <2>5. t = [type |-> t.type, index |-> t.index] /\ t.index \in Int /\ t.index < n /\ n \in Int
    BY <1>1, <2>4, SwingIs DEF Firsts
  <2>6. PICK i : i = n - g
    OBVIOUS
  <2>7. i \in 1..(Len(v) - 1) /\ i + g = n /\ i \in 1..Len(v)
    BY <1>1, <1>3, <2>3, <2>5, <2>6
  <2>8. PICK s : s = [type |-> t.type, index |-> t.index - g]
    OBVIOUS
  <2>9. /\ s = [type |-> s.type, index |-> s.index] /\ s.index = t.index - g /\ s.type = t.type
        /\ s.index \in Int /\ s.index >= SwingLookback + 1 /\ s.index + g = t.index
    BY <1>1, <1>3, <2>3, <2>5, <2>8
  <2>10. Moved(s, g) = t
    BY <2>5, <2>9 DEF Moved
  <2>11. s \in Firsts(v, i)
    BY <2>4, <2>7, <2>9, <2>10, FirstsSlide
  <2>12. PICK f : f = Foremost(v, i, Firsts(v, i))
    OBVIOUS
  <2>13. f \in Firsts(v, i) /\ f \in Swings(v) /\ s \in Swings(v) /\ Leads(v, i, f, s)
    BY <1>1, <2>7, <2>11, <2>12, FirstSwings
  <2>14. /\ f = [type |-> f.type, index |-> f.index] /\ f.index \in Int /\ f.index >= SwingLookback + 1
         /\ f.index < i
    BY <1>1, <2>13, SwingIs DEF Inner, Firsts
  <2>15. PICK u : u = Moved(f, g)
    OBVIOUS
  <2>16. u \in Firsts(w, n) /\ u \in Swings(w) /\ u.type = f.type /\ u.index = f.index + g
    <3>1. u \in Firsts(w, n)
      BY <2>7, <2>13, <2>14, <2>15, FirstsSlide
    <3> QED
      BY <2>15, <3>1 DEF Moved, Firsts
  <2>17. Leads(w, n, u, t)
    <3>1. f.index \in 1..(Len(v) - 1) /\ s.index \in 1..(Len(v) - 1)
      BY <1>1, <2>5, <2>7, <2>9, <2>14
    <3>2. Distance(w, n, u) = Distance(v, i, f)
      BY <2>7, <2>15, <3>1, LevelSlides
    <3>3. Distance(w, n, t) = Distance(v, i, s)
      BY <2>7, <2>10, <3>1, LevelSlides
    <3>4. u.index <= t.index <=> f.index <= s.index
      BY <1>1, <2>9, <2>14, <2>16
    <3> QED
      BY <2>9, <2>13, <2>16, <3>2, <3>3, <3>4 DEF Leads
  <2>18. u = t
    BY <1>1, <2>4, <2>16, <2>17, LeadIsOne
  <2>19. f.index = t.index - g /\ Direction(f) = Direction(t)
    <3>1. f.type = t.type /\ f.index + g = t.index
      BY <2>16, <2>18
    <3> QED
      BY <1>1, <2>14, <3>1 DEF Direction
  <2>20. MarkFor(i, f) \in MarksBy(v, Len(v))
    BY <2>7, <2>11, <2>12 DEF MarksBy
  <2>21. MarkFor(i, f) = [at |-> a.at - g, swing |-> a.swing - g, dir |-> a.dir]
    BY <2>3, <2>6, <2>19 DEF MarkFor
  <2> QED
    BY <2>20, <2>21
<1> QED
  BY <1>2, <1>3

\* The marks of the bars' window, by bar number.
LEMMA MarksAre ==
    ASSUME NEW all \in Seq(MarketBars), NEW f, f = FirstNo(all) - 1, NEW m
    PROVE  m \in Marks(all) <=>
             \E x \in MarksBy(WindowOf(all), Len(WindowOf(all))) :
                 m = [at |-> x.at + f, swing |-> x.swing + f, dir |-> x.dir]
<1>1. FirstNo(all) \in Nat /\ f \in Nat
  BY WindowIs
<1>2. PICK q : q = Analyze(WindowOf(all)).breaks
  OBVIOUS
<1>3. q \in Seq(Breakings) /\ Marked(q) = MarksBy(WindowOf(all), Len(WindowOf(all)))
  BY <1>2, WindowIs, AnalyzeSound, AnalyzeMarks DEF Confirming
<1>4. PICK p : p = BreaksOf(all)
  OBVIOUS
<1>5. p = [k \in 1..Len(q) |-> [q[k] EXCEPT !.at = @ + FirstNo(all) - 1]]
  BY <1>2, <1>4 DEF BreaksOf
<1>6. \A k \in 1..Len(q) : q[k] \in Breakings /\ q[k].at \in Nat /\ q[k].swing \in Nat
  <2>1. \A k \in 1..Len(q) : q[k] \in Breakings
    BY <1>3, ElementOfSeq
  <2> QED
    BY <2>1 DEF Breakings
<1>7. ASSUME NEW k \in 1..Len(q)
      PROVE  p[k].at = q[k].at + f /\ p[k].swing = q[k].swing /\ p[k].dir = q[k].dir
  <2>1. q[k] \in [at : Nat, swing : Nat, dir : {"bullish", "bearish"}, kind : {"bos", "choch"}]
    BY <1>6 DEF Breakings
  <2>2. p[k] = [q[k] EXCEPT !.at = @ + FirstNo(all) - 1]
    BY <1>5
  <2> QED
    BY <1>1, <2>1, <2>2
<1>8. ToSet(p) = {p[k] : k \in 1..Len(q)}
  BY <1>5 DEF ToSet
<1>9. Marks(all) = {[at |-> b.at, swing |-> b.swing + FirstNo(all) - 1, dir |-> b.dir] : b \in ToSet(p)}
  BY <1>4 DEF Marks
<1>10. m \in Marks(all) <=>
         \E k \in 1..Len(q) : m = [at |-> q[k].at + f, swing |-> q[k].swing + f, dir |-> q[k].dir]
  <2>1. m \in Marks(all) <=>
         \E k \in 1..Len(q) : m = [at |-> p[k].at, swing |-> p[k].swing + FirstNo(all) - 1, dir |-> p[k].dir]
    BY <1>8, <1>9, Zenon
  <2>2. ASSUME NEW k \in 1..Len(q)
        PROVE  [at |-> p[k].at, swing |-> p[k].swing + FirstNo(all) - 1, dir |-> p[k].dir]
                 = [at |-> q[k].at + f, swing |-> q[k].swing + f, dir |-> q[k].dir]
    <3>1. p[k].swing + FirstNo(all) - 1 = q[k].swing + f
      BY <1>1, <1>6, <1>7
    <3> QED
      BY <1>7, <3>1
  <2> QED
    BY <2>1, <2>2
<1>11. (\E k \in 1..Len(q) : m = [at |-> q[k].at + f, swing |-> q[k].swing + f, dir |-> q[k].dir])
         <=> \E x \in Marked(q) : m = [at |-> x.at + f, swing |-> x.swing + f, dir |-> x.dir]
  <2>1. \A k \in 1..Len(q) : /\ MarkIn(q[k]).at = q[k].at /\ MarkIn(q[k]).swing = q[k].swing
                             /\ MarkIn(q[k]).dir = q[k].dir
    BY DEF MarkIn
  <2> QED
    BY <2>1 DEF Marked
<1> QED
  BY <1>3, <1>10, <1>11

\* A window has the last bars.
LEMMA WindowAt ==
    ASSUME NEW all \in Seq(MarketBars), NEW i \in 1..(Len(all) - FirstNo(all) + 1)
    PROVE  WindowOf(all)[i] = all[FirstNo(all) + i - 1]
BY WindowIs, EndIs DEF WindowOf

LEMMA StructureStep ==
    ASSUME Market, DetNext
    PROVE  NothingRepainted
<1>1. PICK c \in MarketBars : bars' = Append(bars, c)
  BY DEF DetNext, DetCandle
<1>2. PICK old : old = bars
  OBVIOUS
<1>3. PICK new : new = bars'
  OBVIOUS
<1>4. /\ old \in Seq(MarketBars) /\ new \in Seq(MarketBars) /\ Len(new) = Len(old) + 1
      /\ \A n \in 1..Len(old) : new[n] = old[n]
  BY <1>1, <1>2, <1>3, AppendProperties DEF Market
<1>5. PICK h : h = FirstNo(old) - 1
  OBVIOUS
<1>6. PICK f : f = FirstNo(new) - 1
  OBVIOUS
<1>7. PICK g : g = f - h
  OBVIOUS
<1>8. /\ Len(old) \in Nat /\ h \in Nat /\ f \in Nat /\ g \in Nat /\ f = h + g
      /\ f <= Len(new) /\ h <= Len(old)
  <2>1. Len(old) \in Nat /\ Len(new) = Len(old) + 1 /\ WindowSize \in Nat \ {0}
    BY <1>4, WindowAssumption
  <2>2. h = IF Len(old) > WindowSize THEN Len(old) - WindowSize ELSE 0
    BY <1>5, <2>1 DEF FirstNo
  <2>3. f = IF Len(new) > WindowSize THEN Len(new) - WindowSize ELSE 0
    BY <1>6, <2>1 DEF FirstNo
  <2> QED
    BY <1>7, <2>1, <2>2, <2>3
<1>17. FirstNo(old) = h + 1 /\ FirstNo(new) = f + 1
  <2>1. FirstNo(old) \in Int /\ FirstNo(new) \in Int
    BY <1>4, WindowIs
  <2> QED
    BY <1>5, <1>6, <2>1
<1>9. PICK w : w = WindowOf(old)
  OBVIOUS
<1>10. PICK v : v = WindowOf(new)
  OBVIOUS
<1>11. /\ w \in Seq(Bars) /\ v \in Seq(Bars) /\ Len(w) = Len(old) - h /\ Len(v) = Len(new) - f
  <2>1. w \in Seq(Bars) /\ Len(w) = Len(old) - FirstNo(old) + 1
    BY <1>4, <1>9, WindowIs
  <2>2. v \in Seq(Bars) /\ Len(v) = Len(new) - FirstNo(new) + 1
    BY <1>4, <1>10, WindowIs
  <2> QED
    BY <1>4, <1>8, <1>17, <2>1, <2>2
<1>12. ASSUME NEW i \in 1..(Len(v) - 1) PROVE v[i] = w[i + g]
  <2>1. v[i] = new[f + i]
    <3>1. i \in 1..(Len(new) - FirstNo(new) + 1) /\ FirstNo(new) + i - 1 = f + i
      BY <1>4, <1>8, <1>11, <1>17
    <3> QED
      BY <1>4, <1>10, <3>1, WindowAt
  <2>2. w[i + g] = old[h + (i + g)]
    <3>1. i + g \in 1..(Len(old) - FirstNo(old) + 1) /\ FirstNo(old) + (i + g) - 1 = h + (i + g)
      BY <1>4, <1>8, <1>11, <1>17
    <3> QED
      BY <1>4, <1>9, <3>1, WindowAt
  <2>3. f + i \in 1..Len(old) /\ f + i = h + (i + g)
    BY <1>4, <1>8, <1>11
  <2> QED
    BY <1>4, <2>1, <2>2, <2>3
<1>13. Slid(w, v, g)
  BY <1>4, <1>8, <1>11, <1>12 DEF Slid
<1>14. SwingLookback \in Nat
  BY StructureAssumption
<1>15. ASSUME NEW b \in Marks(new), b.at <= Len(old) PROVE \E a \in Marks(old) : a.at = b.at
  <2>1. PICK x \in MarksBy(v, Len(v)) : b = [at |-> x.at + f, swing |-> x.swing + f, dir |-> x.dir]
    BY <1>4, <1>6, <1>10, MarksAre
  <2>2. x.at \in Int
    BY DEF MarksBy, MarkFor
  <2>3. x.at < Len(v)
    BY <1>4, <1>8, <1>11, <1>15, <2>1, <2>2
  <2>4. PICK y \in MarksBy(w, Len(w)) : y.at = x.at + g
    BY <1>13, <2>3, MarksSlide
  <2>5. PICK a : a = [at |-> y.at + h, swing |-> y.swing + h, dir |-> y.dir]
    OBVIOUS
  <2>6. a \in Marks(old)
    BY <1>4, <1>5, <1>9, <2>5, MarksAre
  <2>7. a.at = b.at
    BY <1>8, <2>1, <2>2, <2>4, <2>5
  <2> QED
    BY <2>6, <2>7
<1>16. ASSUME NEW a \in Marks(old), a.swing >= FirstNo(new) + SwingLookback PROVE a \in Marks(new)
  <2>1. PICK y \in MarksBy(w, Len(w)) : a = [at |-> y.at + h, swing |-> y.swing + h, dir |-> y.dir]
    BY <1>4, <1>5, <1>9, MarksAre
  <2>2. y.at \in Int /\ y.swing \in Int
    <3>1. PICK n \in 1..Len(w) : Firsts(w, n) # {} /\ y = MarkFor(n, Foremost(w, n, Firsts(w, n)))
      BY <2>1 DEF MarksBy
    <3>2. Foremost(w, n, Firsts(w, n)) \in Swings(w)
      BY <1>11, <3>1, FirstSwings
    <3>3. Foremost(w, n, Firsts(w, n)).index \in Int
      BY <1>11, <3>2, SwingIs
    <3> QED
      BY <3>1, <3>3 DEF MarkFor
  <2>3. y.swing - g >= SwingLookback + 1
    <3>1. a.swing = y.swing + h
      BY <2>1
    <3> QED
      BY <1>8, <1>14, <1>16, <1>17, <2>2, <3>1
  <2>4. PICK x : x = [at |-> y.at - g, swing |-> y.swing - g, dir |-> y.dir]
    OBVIOUS
  <2>5. x \in MarksBy(v, Len(v))
    BY <1>13, <2>1, <2>3, <2>4, MarksSlide
  <2>6. a = [at |-> x.at + f, swing |-> x.swing + f, dir |-> x.dir]
    <3>1. x.at = y.at - g /\ x.swing = y.swing - g /\ x.dir = y.dir
      BY <2>4
    <3>2. x.at + f = y.at + h /\ x.swing + f = y.swing + h
      BY <1>8, <2>2, <3>1
    <3> QED
      BY <2>1, <3>1, <3>2
  <2> QED
    BY <1>4, <1>6, <1>10, <2>5, <2>6, MarksAre
<1> QED
  BY <1>2, <1>3, <1>15, <1>16 DEF NothingRepainted

-----------------------------------------------------------------------------
\* History: what became of an emission.

\* Where an order stops resting, and where what it became stops running.
EndsOf(e, cs) ==
    {i \in (e.at + 1)..Len(cs) : i > e.at + FillBars \/ (cs[i].low <= e.entry /\ e.entry <= cs[i].high)}
ExitsOf(e, cs, m) ==
    {i \in (m + 1)..Len(cs) : i > e.at + FillBars \/ StoppedOut(e, cs[i]) \/ TookProfit(e, cs[i])}

\* The outcome, by where these are first.
Resolved(e, cs, ends, m, exits, x) ==
    IF ends = {} THEN [outcome |-> "unfilled_timeout", exit |-> 0]
    ELSE IF m > e.at + FillBars THEN [outcome |-> "unfilled_timeout", exit |-> m]
    ELSE IF exits = {} THEN [outcome |-> "timeout", exit |-> Len(cs)]
    ELSE [outcome |-> IF x > e.at + FillBars THEN "timeout" ELSE IF StoppedOut(e, cs[x]) THEN "sl" ELSE "tp",
          exit |-> x]

LEMMA OutcomeIs ==
    ASSUME NEW e, NEW cs
    PROVE  Outcome(e, cs) = Resolved(e, cs, EndsOf(e, cs), Min(EndsOf(e, cs)), ExitsOf(e, cs, Min(EndsOf(e, cs))),
                                     Min(ExitsOf(e, cs, Min(EndsOf(e, cs)))))
<1>1. PICK ends : ends = EndsOf(e, cs)
  OBVIOUS
<1>2. PICK m : m = Min(ends)
  OBVIOUS
<1>3. PICK exits : exits = ExitsOf(e, cs, m)
  OBVIOUS
<1>4. PICK x : x = Min(exits)
  OBVIOUS
<1>5. Outcome(e, cs) = Resolved(e, cs, ends, m, exits, x)
  BY <1>1, <1>2, <1>3, <1>4 DEF Outcome, Resolved, EndsOf, ExitsOf
<1> QED
  BY <1>1, <1>2, <1>3, <1>4, <1>5

\* The least of some numbers stays the least when a greater one joins them.
LEMMA LeastStays ==
    ASSUME NEW n \in Nat, NEW A \in SUBSET (1..n), A # {}, NEW B, A \subseteq B, B \subseteq A \cup {n + 1}
    PROVE  Min(A) \in A /\ Min(A) \in 1..n /\ Min(B) = Min(A) /\ B # {}
<1>1. A \in SUBSET Nat
  OBVIOUS
<1>2. PICK a \in A : \A b \in A : a <= b
  BY <1>1, LeastExists
<1>3. \A b \in B : a <= b /\ (b <= a => b = a)
  <2> SUFFICES ASSUME NEW b \in B PROVE a <= b /\ (b <= a => b = a)
    OBVIOUS
  <2>1. a \in 1..n /\ (b \in A \/ b = n + 1)
    BY <1>2
  <2>2. CASE b \in A
    BY <1>2, <2>1, <2>2
  <2>3. CASE b = n + 1
    BY <2>1, <2>3
  <2> QED
    BY <2>1, <2>2, <2>3
<1>4. a \in B
  OBVIOUS
<1>5. Min(B) = a
  BY <1>3, <1>4 DEF Min
<1>6. \A b \in A : a <= b /\ (b <= a => b = a)
  BY <1>3
<1>7. Min(A) = a
  BY <1>6 DEF Min
<1> QED
  BY <1>4, <1>5, <1>7

\* A tape with one candle more.
Onward(cs, d) ==
    /\ cs \in Seq(TdTick) /\ d \in Seq(TdTick) /\ Len(d) = Len(cs) + 1
    /\ \A i \in 1..Len(cs) : d[i] = cs[i]

LEMMA EndsStay ==
    ASSUME NEW e \in TdEmission, NEW cs, NEW d, Onward(cs, d), EndsOf(e, cs) # {}
    PROVE  /\ Min(EndsOf(e, cs)) \in 1..Len(cs) /\ EndsOf(e, d) # {}
           /\ Min(EndsOf(e, d)) = Min(EndsOf(e, cs))
<1>1. PICK n : n = Len(cs)
  OBVIOUS
<1>2. n \in Nat /\ Len(d) = n + 1 /\ e.at \in Nat
  BY <1>1 DEF Onward, TdEmission
<1>3. \A i \in 1..n : d[i] = cs[i]
  BY <1>1 DEF Onward
<1>4. EndsOf(e, cs) \in SUBSET (1..n)
  BY <1>1, <1>2 DEF EndsOf
<1>5. EndsOf(e, cs) \subseteq EndsOf(e, d)
  <2> SUFFICES ASSUME NEW i \in EndsOf(e, cs) PROVE i \in EndsOf(e, d)
    OBVIOUS
  <2>1. i \in 1..n /\ i \in (e.at + 1)..n
    BY <1>1, <1>4 DEF EndsOf
  <2>2. i \in (e.at + 1)..(n + 1) /\ d[i] = cs[i]
    BY <1>2, <1>3, <2>1
  <2> QED
    BY <1>2, <2>2 DEF EndsOf
<1>6. EndsOf(e, d) \subseteq EndsOf(e, cs) \cup {n + 1}
  <2> SUFFICES ASSUME NEW i \in EndsOf(e, d), i # n + 1 PROVE i \in EndsOf(e, cs)
    OBVIOUS
  <2>1. i \in (e.at + 1)..(n + 1)
    BY <1>2 DEF EndsOf
  <2>2. i \in (e.at + 1)..n /\ d[i] = cs[i]
    BY <1>2, <1>3, <2>1
  <2> QED
    BY <1>1, <2>2 DEF EndsOf
<1>7. PICK A : A = EndsOf(e, cs)
  OBVIOUS
<1>8. PICK B : B = EndsOf(e, d)
  OBVIOUS
<1>9. A \in SUBSET (1..n) /\ A # {} /\ A \subseteq B /\ B \subseteq A \cup {n + 1}
  BY <1>4, <1>5, <1>6, <1>7, <1>8
<1>10. Min(A) \in 1..n /\ Min(B) = Min(A) /\ B # {}
  BY <1>2, <1>9, LeastStays
<1> QED
  BY <1>1, <1>7, <1>8, <1>10

LEMMA ExitsStay ==
    ASSUME NEW e \in TdEmission, NEW cs, NEW d, Onward(cs, d), NEW m \in 1..Len(cs), ExitsOf(e, cs, m) # {}
    PROVE  /\ Min(ExitsOf(e, cs, m)) \in 1..Len(cs) /\ ExitsOf(e, d, m) # {}
           /\ Min(ExitsOf(e, d, m)) = Min(ExitsOf(e, cs, m))
<1>1. PICK n : n = Len(cs)
  OBVIOUS
<1>2. n \in Nat /\ Len(d) = n + 1 /\ m \in 1..n
  BY <1>1 DEF Onward
<1>3. \A i \in 1..n : d[i] = cs[i]
  BY <1>1 DEF Onward
<1>4. ExitsOf(e, cs, m) \in SUBSET (1..n)
  BY <1>1, <1>2 DEF ExitsOf
<1>5. ExitsOf(e, cs, m) \subseteq ExitsOf(e, d, m)
  <2> SUFFICES ASSUME NEW i \in ExitsOf(e, cs, m) PROVE i \in ExitsOf(e, d, m)
    OBVIOUS
  <2>1. i \in 1..n /\ i \in (m + 1)..n
    BY <1>1, <1>4 DEF ExitsOf
  <2>2. i \in (m + 1)..(n + 1) /\ d[i] = cs[i]
    BY <1>2, <1>3, <2>1
  <2> QED
    BY <1>2, <2>2 DEF ExitsOf
<1>6. ExitsOf(e, d, m) \subseteq ExitsOf(e, cs, m) \cup {n + 1}
  <2> SUFFICES ASSUME NEW i \in ExitsOf(e, d, m), i # n + 1 PROVE i \in ExitsOf(e, cs, m)
    OBVIOUS
  <2>1. i \in (m + 1)..(n + 1)
    BY <1>2 DEF ExitsOf
  <2>2. i \in (m + 1)..n /\ d[i] = cs[i]
    BY <1>2, <1>3, <2>1
  <2> QED
    BY <1>1, <2>2 DEF ExitsOf
<1>7. PICK A : A = ExitsOf(e, cs, m)
  OBVIOUS
<1>8. PICK B : B = ExitsOf(e, d, m)
  OBVIOUS
<1>9. A \in SUBSET (1..n) /\ A # {} /\ A \subseteq B /\ B \subseteq A \cup {n + 1}
  BY <1>4, <1>5, <1>6, <1>7, <1>8
<1>10. Min(A) \in 1..n /\ Min(B) = Min(A) /\ B # {}
  BY <1>2, <1>9, LeastStays
<1> QED
  BY <1>1, <1>7, <1>8, <1>10

\* What is final stays: nothing is decided by the last candle anew.
LEMMA OutcomeStays ==
    ASSUME NEW e \in TdEmission, NEW cs, NEW d, Onward(cs, d), Final(e, cs)
    PROVE  Outcome(e, d) = Outcome(e, cs) /\ Made(e, d) = Made(e, cs)
<1>0. Len(cs) \in Nat /\ e.at \in Nat /\ FillBars \in Nat
  BY FillAssumption DEF Onward, TdEmission
<1>1. PICK ends : ends = EndsOf(e, cs)
  OBVIOUS
<1>2. PICK m : m = Min(ends)
  OBVIOUS
<1>3. PICK exits : exits = ExitsOf(e, cs, m)
  OBVIOUS
<1>4. PICK x : x = Min(exits)
  OBVIOUS
<1>5. Outcome(e, cs) = Resolved(e, cs, ends, m, exits, x)
  BY <1>1, <1>2, <1>3, <1>4, OutcomeIs
<1>6. Len(cs) > e.at + FillBars => Len(cs) \in ends
  BY <1>0, <1>1 DEF EndsOf
<1>7. ends # {}
  BY <1>5, <1>6 DEF Final, Resolved
<1>8. m \in 1..Len(cs) /\ EndsOf(e, d) # {} /\ Min(EndsOf(e, d)) = m
  BY <1>1, <1>2, <1>7, EndsStay
<1>9. CASE m > e.at + FillBars
  <2>1. Outcome(e, cs) = [outcome |-> "unfilled_timeout", exit |-> m]
    BY <1>5, <1>7, <1>9 DEF Resolved
  <2>2. Outcome(e, d) = [outcome |-> "unfilled_timeout", exit |-> m]
    BY <1>8, <1>9, OutcomeIs DEF Resolved
  <2> QED
    BY <2>1, <2>2 DEF Made
<1>10. CASE ~(m > e.at + FillBars)
  <2>1. Len(cs) > e.at + FillBars => Len(cs) \in exits
    BY <1>0, <1>3, <1>8, <1>10 DEF ExitsOf
  <2>2. exits # {}
    BY <1>5, <1>10, <2>1 DEF Final, Resolved
  <2>3. x \in 1..Len(cs) /\ ExitsOf(e, d, m) # {} /\ Min(ExitsOf(e, d, m)) = x
    BY <1>3, <1>4, <1>8, <2>2, ExitsStay
  <2>4. d[x] = cs[x]
    BY <2>3 DEF Onward
  <2>5. Outcome(e, d) = Resolved(e, d, EndsOf(e, d), m, ExitsOf(e, d, m), x)
    BY <1>8, <2>3, OutcomeIs
  <2>6. Outcome(e, d) = Outcome(e, cs) /\ Outcome(e, cs).exit = x
    BY <1>5, <1>7, <1>8, <1>10, <2>2, <2>3, <2>4, <2>5 DEF Resolved
  <2> QED
    BY <2>4, <2>6 DEF Made
<1> QED
  BY <1>9, <1>10

LEMMA OutcomesStep ==
    ASSUME TdInv, TdNext, NEW i \in DOMAIN emissions, Final(emissions[i], tape)
    PROVE  /\ Outcome(emissions[i], tape') = Outcome(emissions[i], tape)
           /\ Made(emissions[i], tape') = Made(emissions[i], tape)
<1>1. PICK c \in TdCandles : tape' = Append(tape, c)
  BY DEF TdNext, TdBar, TdCandle
<1>2. c \in TdTick
  BY ReadingAssumption DEF TdTick
<1>3. Onward(tape, tape')
  BY <1>1, <1>2, AppendProperties DEF Onward, TdInv
<1>4. emissions[i] \in TdEmission
  BY ElementOfSeq DEF TdInv
<1> QED
  BY <1>3, <1>4, OutcomeStays

-----------------------------------------------------------------------------
\* History: the drawdown of the kill switch.

\* The results of trades, in R.
Results == [type : {"engine1", "other"}, r : Int]

\* The loops over trades.
Keeping(ts, f, n) ==
    [i \in 0..n |-> IF i = 0 THEN << >>
                    ELSE IF ts[i].type = "engine1" THEN Append(f[i - 1], ts[i]) ELSE f[i - 1]]
Totalled(ts, f, n) == [i \in 0..n |-> IF i = 0 THEN 0 ELSE f[i - 1] + ts[i].r]
Curve(ts, f, n)    == [i \in 0..n |-> IF i = 0 THEN NoCurve ELSE Drop(f[i - 1], ts[i])]
Points == [equity : Int, peak : Int, worst : Int]

LEMMA PointIs ==
    ASSUME NEW p \in Points, NEW t \in Results
    PROVE  /\ Drop(p, t) \in Points /\ Drop(p, t).equity = p.equity + t.r
           /\ Drop(p, t).peak = IF p.equity + t.r > p.peak THEN p.equity + t.r ELSE p.peak
           /\ Drop(p, t).worst = IF Drop(p, t).peak - Drop(p, t).equity > p.worst
                                 THEN Drop(p, t).peak - Drop(p, t).equity ELSE p.worst
<1>1. t.r \in Int /\ p.equity \in Int /\ p.peak \in Int /\ p.worst \in Int
  BY DEF Points, Results
<1> QED
  BY <1>1 DEF Drop, Points

LEMMA Engine1Are ==
    ASSUME NEW ts \in Seq(Results)
    PROVE  Engine1Only(ts) \in Seq(Results)
<1> DEFINE n == Len(ts)
<1>0. n \in Nat /\ \A i \in 1..n : ts[i] \in Results
  BY ElementOfSeq
<1> HIDE DEF n
<1>1. PICK T : T = Seq(Results)
  OBVIOUS
<1> DEFINE st == [p \in T \X (1..n) |-> IF ts[p[2]].type = "engine1" THEN Append(p[1], ts[p[2]]) ELSE p[1]]
<1>2. st \in [T \X (1..n) -> T]
  BY <1>0, <1>1
<1>3. \A x \in T, i \in 1..n : st[<<x, i>>] = IF ts[i].type = "engine1" THEN Append(x, ts[i]) ELSE x
  OBVIOUS
<1>4. << >> \in T
  BY <1>1, EmptySeq
<1> HIDE DEF st
<1>5. PICK h \in [0..n -> T] : Runs(h, << >>, st, n)
  BY <1>0, <1>2, <1>4, LoopExists, Zenon
<1>6. \A i \in 0..n : h[i] = IF i = 0 THEN << >>
                             ELSE IF ts[i].type = "engine1" THEN Append(h[i - 1], ts[i]) ELSE h[i - 1]
  <2> SUFFICES ASSUME NEW i \in 0..n
               PROVE  h[i] = IF i = 0 THEN << >>
                             ELSE IF ts[i].type = "engine1" THEN Append(h[i - 1], ts[i]) ELSE h[i - 1]
    OBVIOUS
  <2>1. CASE i = 0
    BY <1>5, <2>1 DEF Runs
  <2>2. CASE i # 0
    <3>1. i \in 1..n /\ i - 1 \in 0..n
      BY <1>0, <2>2
    <3>2. h[i] = st[<<h[i - 1], i>>] /\ h[i - 1] \in T
      BY <1>5, <3>1 DEF Runs
    <3> QED
      BY <1>3, <2>2, <3>1, <3>2
  <2> QED
    BY <2>1, <2>2
<1>7. h = Keeping(ts, h, n)
  BY <1>5, <1>6 DEF Keeping
<1> DEFINE r == CHOOSE g : g = Keeping(ts, g, n)
<1>8. r = Keeping(ts, r, n)
  BY <1>7
<1>9. Engine1Only(ts) = r[n]
  BY DEF Engine1Only, Keeping, n
<1> HIDE DEF r
<1>10. \A i \in 0..n : r[i] = IF i = 0 THEN << >>
                              ELSE IF ts[i].type = "engine1" THEN Append(r[i - 1], ts[i]) ELSE r[i - 1]
  BY <1>8 DEF Keeping
<1> DEFINE G == {k \in 0..n : r[k] \in Seq(Results)}
<1>11. 0 \in G
  BY <1>0, <1>10, EmptySeq
<1>12. ASSUME NEW k \in 1..n, k - 1 \in G PROVE k \in G
  <2>1. k \in 0..n /\ k # 0 /\ ts[k] \in Results /\ r[k - 1] \in Seq(Results)
    BY <1>0, <1>12
  <2>2. Append(r[k - 1], ts[k]) \in Seq(Results)
    BY <2>1, AppendProperties
  <2> QED
    BY <1>10, <2>1, <2>2
<1> HIDE DEF G
<1>13. n \in G
  <2>1. 0..n \subseteq G
    BY <1>0, <1>11, <1>12, LoopInduction
  <2> QED
    BY <1>0, <2>1
<1> QED
  BY <1>9, <1>13 DEF G

\* The partial sums of some results.
Partial(ts, s) ==
    /\ \A i \in 0..Len(ts) : s[i] \in Int
    /\ s[0] = 0 /\ \A i \in 1..Len(ts) : s[i] = s[i - 1] + ts[i].r

LEMMA SumOfIs ==
    ASSUME NEW ts \in Seq(Results)
    PROVE  \E s : Partial(ts, s) /\ SumOf(ts) = s[Len(ts)]
<1> DEFINE n == Len(ts)
<1>0. n \in Nat /\ \A i \in 1..n : ts[i].r \in Int
  <2>1. \A i \in 1..n : ts[i] \in Results
    BY ElementOfSeq
  <2>2. n \in Nat
    OBVIOUS
  <2> QED
    BY <2>1, <2>2 DEF Results
<1> HIDE DEF n
<1>1. PICK T : T = Int
  OBVIOUS
<1> DEFINE st == [p \in T \X (1..n) |-> p[1] + ts[p[2]].r]
<1>2. st \in [T \X (1..n) -> T]
  BY <1>0, <1>1
<1>3. \A x \in T, i \in 1..n : st[<<x, i>>] = x + ts[i].r
  OBVIOUS
<1>4. 0 \in T
  BY <1>1
<1> HIDE DEF st
<1>5. PICK h \in [0..n -> T] : Runs(h, 0, st, n)
  BY <1>0, <1>2, <1>4, LoopExists, Zenon
<1>6. \A i \in 0..n : h[i] = IF i = 0 THEN 0 ELSE h[i - 1] + ts[i].r
  <2> SUFFICES ASSUME NEW i \in 0..n PROVE h[i] = IF i = 0 THEN 0 ELSE h[i - 1] + ts[i].r
    OBVIOUS
  <2>1. CASE i = 0
    BY <1>5, <2>1 DEF Runs
  <2>2. CASE i # 0
    <3>1. i \in 1..n /\ i - 1 \in 0..n
      BY <1>0, <2>2
    <3>2. h[i] = st[<<h[i - 1], i>>] /\ h[i - 1] \in T
      BY <1>5, <3>1 DEF Runs
    <3> QED
      BY <1>3, <2>2, <3>1, <3>2
  <2> QED
    BY <2>1, <2>2
<1>7. h = Totalled(ts, h, n)
  BY <1>5, <1>6 DEF Totalled
<1> DEFINE r == CHOOSE g : g = Totalled(ts, g, n)
<1>8. r = Totalled(ts, r, n)
  BY <1>7
<1>9. SumOf(ts) = r[n]
  BY DEF SumOf, Totalled, n
<1> HIDE DEF r
<1>10. \A i \in 0..n : r[i] = IF i = 0 THEN 0 ELSE r[i - 1] + ts[i].r
  BY <1>8 DEF Totalled
<1> DEFINE G == {k \in 0..n : r[k] \in Int}
<1>11. 0 \in G
  BY <1>0, <1>10
<1>12. ASSUME NEW k \in 1..n, k - 1 \in G PROVE k \in G
  BY <1>0, <1>10, <1>12
<1> HIDE DEF G
<1>13. 0..n \subseteq G
  BY <1>0, <1>11, <1>12, LoopInduction
<1>14. \A i \in 0..n : r[i] \in Int
  BY <1>13 DEF G
<1>15. r[0] = 0 /\ \A i \in 1..n : r[i] = r[i - 1] + ts[i].r
  BY <1>0, <1>10
<1> QED
  BY <1>9, <1>14, <1>15 DEF Partial, n

\* The sum of a stretch of trades is a difference of partial sums.
LEMMA StretchIs ==
    ASSUME NEW ts \in Seq(Results), NEW s, Partial(ts, s), NEW i \in 1..Len(ts), NEW j \in i..Len(ts)
    PROVE  SumOf(SubSeq(ts, i, j)) = s[j] - s[i - 1]
<1>0. Len(ts) \in Nat /\ i \in Nat /\ j \in Nat /\ i <= j /\ j <= Len(ts) /\ i >= 1
  OBVIOUS
<1>1. PICK q : q = SubSeq(ts, i, j)
  OBVIOUS
<1>2. q \in Seq(Results) /\ Len(q) = j - i + 1 /\ \A k \in 1..Len(q) : q[k] = ts[i + k - 1]
  <2>1. \A k \in i..j : ts[k] \in Results
    <3>1. \A k \in i..j : k \in 1..Len(ts)
      BY <1>0
    <3> QED
      BY <3>1, ElementOfSeq
  <2> QED
    BY <1>0, <1>1, <2>1, SubSeqProperties
<1>3. PICK u : Partial(q, u) /\ SumOf(q) = u[Len(q)]
  BY <1>2, SumOfIs
<1> DEFINE G == {k \in 0..Len(q) : u[k] = s[i - 1 + k] - s[i - 1]}
<1>4. 0 \in G
  <2>1. s[i - 1] \in Int /\ u[0] = 0 /\ i - 1 + 0 = i - 1 /\ Len(q) \in Nat
    BY <1>0, <1>2, <1>3 DEF Partial
  <2> QED
    BY <2>1
<1>5. ASSUME NEW k \in 1..Len(q), k - 1 \in G PROVE k \in G
  <2>1. u[k] = u[k - 1] + q[k].r /\ q[k] = ts[i + k - 1]
    BY <1>2, <1>3 DEF Partial
  <2>2. i + k - 1 \in 1..Len(ts) /\ (i + k - 1) - 1 = i - 1 + (k - 1) /\ i - 1 + k = i + k - 1
    <3>1. PICK m : m = Len(ts)
      OBVIOUS
    <3>2. k \in Nat /\ k >= 1 /\ k <= j - i + 1 /\ m \in Nat /\ j <= m
      BY <1>0, <1>2, <3>1
    <3>3. i + k - 1 \in 1..m
      BY <1>0, <3>2
    <3> QED
      BY <1>0, <3>1, <3>2, <3>3
  <2>3. s[i + k - 1] = s[i - 1 + (k - 1)] + ts[i + k - 1].r
    BY <2>2 DEF Partial
  <2>4. u[k - 1] = s[i - 1 + (k - 1)] - s[i - 1] /\ k \in 0..Len(q)
    BY <1>5
  <2>5. s[i - 1 + (k - 1)] \in Int /\ s[i - 1] \in Int /\ ts[i + k - 1].r \in Int
    <3>1. i - 1 + (k - 1) \in 0..Len(ts) /\ i - 1 \in 0..Len(ts)
      BY <1>0, <1>2
    <3>2. ts[i + k - 1] \in Results
      BY <2>2, ElementOfSeq
    <3> QED
      BY <3>1, <3>2 DEF Partial, Results
  <2> QED
    BY <2>1, <2>2, <2>3, <2>4, <2>5
<1> HIDE DEF G
<1>6. Len(q) \in G
  <2>1. Len(q) \in Nat
    BY <1>2
  <2>2. 0..Len(q) \subseteq G
    BY <1>4, <1>5, <2>1, LoopInduction
  <2> QED
    BY <2>1, <2>2
<1>7. u[Len(q)] = s[i - 1 + Len(q)] - s[i - 1]
  BY <1>6 DEF G
<1>8. i - 1 + Len(q) = j
  BY <1>0, <1>2
<1> QED
  BY <1>1, <1>3, <1>7, <1>8

\* The equity curve of some results.
CurveOf(ts, c) ==
    /\ \A i \in 0..Len(ts) : c[i] \in Points
    /\ c[0] = NoCurve /\ \A i \in 1..Len(ts) : c[i] = Drop(c[i - 1], ts[i])

LEMMA CurveIs ==
    ASSUME NEW ts \in Seq(Results)
    PROVE  \E c : CurveOf(ts, c) /\ MaxDrawdown(ts) = c[Len(ts)].worst
<1> DEFINE n == Len(ts)
<1>0. n \in Nat /\ \A i \in 1..n : ts[i] \in Results
  BY ElementOfSeq
<1> HIDE DEF n
<1>1. PICK T : T = Points
  OBVIOUS
<1> DEFINE st == [p \in T \X (1..n) |-> Drop(p[1], ts[p[2]])]
<1>2. st \in [T \X (1..n) -> T]
  <2>1. \A p \in T \X (1..n) : Drop(p[1], ts[p[2]]) \in T
    BY <1>0, <1>1, PointIs
  <2> QED
    BY <2>1
<1>3. \A x \in T, i \in 1..n : st[<<x, i>>] = Drop(x, ts[i])
  OBVIOUS
<1>4. NoCurve \in T
  BY <1>1 DEF NoCurve, Points
<1> HIDE DEF st
<1>5. PICK h \in [0..n -> T] : Runs(h, NoCurve, st, n)
  BY <1>0, <1>2, <1>4, LoopExists, Zenon
<1>6. \A i \in 0..n : h[i] = IF i = 0 THEN NoCurve ELSE Drop(h[i - 1], ts[i])
  <2> SUFFICES ASSUME NEW i \in 0..n PROVE h[i] = IF i = 0 THEN NoCurve ELSE Drop(h[i - 1], ts[i])
    OBVIOUS
  <2>1. CASE i = 0
    BY <1>5, <2>1 DEF Runs
  <2>2. CASE i # 0
    <3>1. i \in 1..n /\ i - 1 \in 0..n
      BY <1>0, <2>2
    <3>2. h[i] = st[<<h[i - 1], i>>] /\ h[i - 1] \in T
      BY <1>5, <3>1 DEF Runs
    <3> QED
      BY <1>3, <2>2, <3>1, <3>2
  <2> QED
    BY <2>1, <2>2
<1>7. h = Curve(ts, h, n)
  BY <1>5, <1>6 DEF Curve
<1> DEFINE r == CHOOSE g : g = Curve(ts, g, n)
<1>8. r = Curve(ts, r, n)
  BY <1>7
<1>9. MaxDrawdown(ts) = r[n].worst
  BY DEF MaxDrawdown, Curve, n
<1> HIDE DEF r
<1>10. \A i \in 0..n : r[i] = IF i = 0 THEN NoCurve ELSE Drop(r[i - 1], ts[i])
  BY <1>8 DEF Curve
<1> DEFINE G == {k \in 0..n : r[k] \in Points}
<1>11. 0 \in G
  BY <1>0, <1>1, <1>4, <1>10
<1>12. ASSUME NEW k \in 1..n, k - 1 \in G PROVE k \in G
  <2>1. k \in 0..n /\ k # 0 /\ ts[k] \in Results /\ r[k - 1] \in Points
    BY <1>0, <1>12
  <2> QED
    BY <1>10, <2>1, PointIs
<1> HIDE DEF G
<1>13. 0..n \subseteq G
  BY <1>0, <1>11, <1>12, LoopInduction
<1>14. \A i \in 0..n : r[i] \in Points
  BY <1>13 DEF G
<1>15. r[0] = NoCurve /\ \A i \in 1..n : r[i] = Drop(r[i - 1], ts[i])
  BY <1>0, <1>10
<1> QED
  BY <1>9, <1>14, <1>15 DEF CurveOf, n

\* After k results: the peak is the highest sum so far and the worst drop the
\* greatest fall of the sums.
AtWorst(p, s, k) ==
    /\ p \in Points /\ p.equity = s[k]
    /\ (\E m \in 0..k : p.peak = s[m]) /\ \A m \in 0..k : s[m] <= p.peak
    /\ p.worst >= 0 /\ \A a \in 0..k : \A b \in a..k : s[a] - s[b] <= p.worst
    /\ p.worst > 0 => \E a \in 0..k : \E b \in (a + 1)..k : p.worst = s[a] - s[b]

LEMMA WorstStarts ==
    ASSUME NEW s, s[0] = 0
    PROVE  AtWorst(NoCurve, s, 0)
<1>1. NoCurve \in Points /\ NoCurve.equity = 0 /\ NoCurve.peak = 0 /\ NoCurve.worst = 0
  BY DEF NoCurve, Points
<1>2. \A m \in 0..0 : m = 0
  OBVIOUS
<1>3. \A a \in 0..0 : \A b \in a..0 : s[a] - s[b] <= 0
  BY <1>2
<1> QED
  BY <1>1, <1>3 DEF AtWorst

LEMMA WorstTurn ==
    ASSUME NEW k \in Nat, NEW s, \A i \in 0..(k + 1) : s[i] \in Int,
           NEW p, AtWorst(p, s, k), NEW t \in Results, s[k + 1] = s[k] + t.r
    PROVE  AtWorst(Drop(p, t), s, k + 1)
<1>1. PICK d : d = Drop(p, t)
  OBVIOUS
<1>2. p \in Points /\ p.equity = s[k] /\ p.equity \in Int /\ p.peak \in Int /\ p.worst \in Int
  BY DEF AtWorst, Points
<1>3. /\ d \in Points /\ d.equity = s[k + 1]
      /\ d.peak = IF s[k + 1] > p.peak THEN s[k + 1] ELSE p.peak
      /\ d.worst = IF d.peak - s[k + 1] > p.worst THEN d.peak - s[k + 1] ELSE p.worst
  BY <1>1, <1>2, PointIs
<1>4. s[k + 1] \in Int /\ d.peak \in Int /\ d.worst \in Int
  BY <1>3 DEF Points
<1>5. /\ \A m \in 0..(k + 1) : m \in 0..k \/ m = k + 1
      /\ \A m \in 0..k : m \in 0..(k + 1) /\ s[m] \in Int
  OBVIOUS
<1>6. \E m \in 0..(k + 1) : d.peak = s[m]
  <2>1. PICK m \in 0..k : p.peak = s[m]
    BY DEF AtWorst
  <2>2. m \in 0..(k + 1) /\ k + 1 \in 0..(k + 1)
    BY <1>5
  <2>3. d.peak = s[k + 1] \/ d.peak = s[m]
    BY <1>3, <2>1
  <2> QED
    BY <2>2, <2>3
<1>7. \A m \in 0..(k + 1) : s[m] <= d.peak
  <2>1. \A m \in 0..k : s[m] <= p.peak
    BY DEF AtWorst
  <2>2. p.peak <= d.peak /\ s[k + 1] <= d.peak
    BY <1>2, <1>3, <1>4
  <2>3. ASSUME NEW m \in 0..k PROVE s[m] <= d.peak
    <3>1. s[m] <= p.peak /\ s[m] \in Int
      BY <1>5, <2>1
    <3> QED
      BY <1>2, <1>4, <2>2, <3>1
  <2> QED
    BY <1>5, <2>2, <2>3
<1>8. p.worst <= d.worst /\ d.peak - s[k + 1] <= d.worst
  BY <1>2, <1>3, <1>4
<1>9. d.worst >= 0
  BY <1>2, <1>4, <1>8 DEF AtWorst
<1>10. ASSUME NEW a \in 0..(k + 1), NEW b \in a..(k + 1) PROVE s[a] - s[b] <= d.worst
  <2>1. b \in 0..(k + 1) /\ s[a] \in Int /\ s[b] \in Int
    OBVIOUS
  <2>2. CASE b = k + 1
    <3>1. s[a] <= d.peak
      BY <1>7
    <3> QED
      BY <1>4, <1>8, <2>1, <2>2, <3>1
  <2>3. CASE b # k + 1
    <3>1. a \in 0..k /\ b \in a..k
      BY <2>1, <2>3
    <3>2. s[a] - s[b] <= p.worst
      BY <3>1 DEF AtWorst
    <3> QED
      BY <1>2, <1>4, <1>8, <2>1, <3>2
  <2> QED
    BY <2>2, <2>3
<1>11. ASSUME d.worst > 0 PROVE \E a \in 0..(k + 1) : \E b \in (a + 1)..(k + 1) : d.worst = s[a] - s[b]
  <2>1. CASE d.peak - s[k + 1] > p.worst
    <3>1. d.worst = d.peak - s[k + 1]
      BY <1>3, <2>1
    <3>2. p.worst >= 0
      BY DEF AtWorst
    <3>3. d.peak = p.peak
      BY <1>2, <1>3, <1>4, <2>1, <3>2
    <3>4. PICK m \in 0..k : p.peak = s[m]
      BY DEF AtWorst
    <3>5. m \in 0..(k + 1) /\ k + 1 \in (m + 1)..(k + 1)
      OBVIOUS
    <3> QED
      BY <3>1, <3>3, <3>4, <3>5
  <2>2. CASE ~(d.peak - s[k + 1] > p.worst)
    <3>1. d.worst = p.worst
      BY <1>3, <2>2
    <3>2. PICK a \in 0..k : \E b \in (a + 1)..k : p.worst = s[a] - s[b]
      BY <1>11, <3>1 DEF AtWorst
    <3>3. PICK b \in (a + 1)..k : p.worst = s[a] - s[b]
      BY <3>2
    <3>4. a \in 0..(k + 1) /\ b \in (a + 1)..(k + 1)
      OBVIOUS
    <3> QED
      BY <3>1, <3>3, <3>4
  <2> QED
    BY <2>1, <2>2
<1>12. AtWorst(d, s, k + 1)
  BY <1>3, <1>6, <1>7, <1>9, <1>10, <1>11 DEF AtWorst
<1> QED
  BY <1>1, <1>12

LEMMA WorstIs ==
    ASSUME NEW ts \in Seq(Results), NEW s, Partial(ts, s)
    PROVE  \E p : AtWorst(p, s, Len(ts)) /\ MaxDrawdown(ts) = p.worst
<1>0. Len(ts) \in Nat
  OBVIOUS
<1>1. PICK c : CurveOf(ts, c) /\ MaxDrawdown(ts) = c[Len(ts)].worst
  BY CurveIs
<1> DEFINE G == {k \in 0..Len(ts) : AtWorst(c[k], s, k)}
<1>2. 0 \in G
  BY <1>0, <1>1, WorstStarts DEF CurveOf, Partial
<1>3. ASSUME NEW k \in 1..Len(ts), k - 1 \in G PROVE k \in G
  <2>1. PICK m : m = k - 1
    OBVIOUS
  <2>2. m \in Nat /\ k = m + 1 /\ k \in 0..Len(ts)
    BY <1>0, <2>1
  <2>3. \A i \in 0..(m + 1) : s[i] \in Int
    <3>1. \A i \in 0..(m + 1) : i \in 0..Len(ts)
      BY <1>0, <2>2
    <3> QED
      BY <3>1 DEF Partial
  <2>4. AtWorst(c[m], s, m)
    BY <1>3, <2>1
  <2>5. ts[k] \in Results /\ s[m + 1] = s[m] + ts[k].r
    BY <2>1, <2>2, ElementOfSeq DEF Partial
  <2>6. c[k] = Drop(c[m], ts[k])
    BY <1>1, <2>1 DEF CurveOf
  <2>7. AtWorst(Drop(c[m], ts[k]), s, m + 1)
    BY <2>2, <2>3, <2>4, <2>5, WorstTurn
  <2> QED
    BY <2>2, <2>6, <2>7
<1> HIDE DEF G
<1>4. Len(ts) \in G
  <2>1. 0..Len(ts) \subseteq G
    BY <1>0, <1>2, <1>3, LoopInduction
  <2> QED
    BY <1>0, <2>1
<1> QED
  BY <1>1, <1>4 DEF G

\* The drawdown is the worst sum of results in a row.
LEMMA DrawdownIs ==
    ASSUME NEW ts \in Seq(Results), NEW i \in 1..Len(ts), NEW j \in 1..Len(ts), i <= j
    PROVE  /\ MaxDrawdown(ts) >= -SumOf(SubSeq(ts, i, j))
           /\ MaxDrawdown(ts) > 0 => \E a, b \in 1..Len(ts) :
                 a <= b /\ MaxDrawdown(ts) = -SumOf(SubSeq(ts, a, b))
<1>0. Len(ts) \in Nat
  OBVIOUS
<1>1. PICK s : Partial(ts, s)
  BY SumOfIs
<1>2. PICK p : AtWorst(p, s, Len(ts)) /\ MaxDrawdown(ts) = p.worst
  BY <1>1, WorstIs
<1>3. ASSUME NEW a \in 0..Len(ts), NEW b \in (a + 1)..Len(ts)
      PROVE  /\ a + 1 \in 1..Len(ts) /\ b \in 1..Len(ts) /\ a + 1 <= b
             /\ s[a] - s[b] = -SumOf(SubSeq(ts, a + 1, b))
  <2>1. a + 1 \in 1..Len(ts) /\ b \in (a + 1)..Len(ts) /\ a + 1 - 1 = a /\ b \in 1..Len(ts) /\ a + 1 <= b
        /\ b \in 0..Len(ts)
    BY <1>0
  <2>2. SumOf(SubSeq(ts, a + 1, b)) = s[b] - s[a]
    BY <1>1, <2>1, StretchIs
  <2>3. s[a] \in Int /\ s[b] \in Int
    BY <1>1, <2>1 DEF Partial
  <2> QED
    BY <2>1, <2>2, <2>3
<1>4. MaxDrawdown(ts) >= -SumOf(SubSeq(ts, i, j))
  <2>1. PICK a : a = i - 1
    OBVIOUS
  <2>2. a \in 0..Len(ts) /\ i = a + 1 /\ j \in (a + 1)..Len(ts) /\ j \in a..Len(ts)
    BY <1>0, <2>1
  <2>3. s[a] - s[j] = -SumOf(SubSeq(ts, i, j))
    BY <1>3, <2>2
  <2>4. s[a] - s[j] <= p.worst
    BY <1>2, <2>2 DEF AtWorst
  <2>5. s[a] \in Int /\ s[j] \in Int /\ p.worst \in Int
    <3>1. j \in 0..Len(ts)
      BY <1>0
    <3> QED
      BY <1>1, <1>2, <2>2, <3>1 DEF Partial, AtWorst, Points
  <2>6. p.worst >= s[a] - s[j]
    BY <2>4, <2>5
  <2> QED
    BY <1>2, <2>3, <2>6
<1>5. ASSUME MaxDrawdown(ts) > 0
      PROVE  \E a, b \in 1..Len(ts) : a <= b /\ MaxDrawdown(ts) = -SumOf(SubSeq(ts, a, b))
  <2>1. PICK a \in 0..Len(ts) : \E b \in (a + 1)..Len(ts) : p.worst = s[a] - s[b]
    BY <1>2, <1>5 DEF AtWorst
  <2>2. PICK b \in (a + 1)..Len(ts) : p.worst = s[a] - s[b]
    BY <2>1
  <2> QED
    BY <1>2, <1>3, <2>2
<1> QED
  BY <1>4, <1>5

\* The trades that have closed.
ClosedInv == closed \in Seq(Results)

LEMMA ClosedStep ==
    ASSUME ClosedInv, RouterNext
    PROVE  ClosedInv'
<1>1. CASE closed' = closed
  BY <1>1 DEF ClosedInv
<1>2. CASE \E t \in Types, r \in {-1, 1} : TradeCloses(t, r)
  <2>1. PICK t \in Types, r \in {-1, 1} : closed' = Append(closed, [type |-> IF t = "engine1" THEN t ELSE "other", r |-> r])
    BY <1>2 DEF TradeCloses
  <2>2. PICK x : x = [type |-> IF t = "engine1" THEN t ELSE "other", r |-> r]
    OBVIOUS
  <2>3. x \in Results
    BY <2>2 DEF Results
  <2> QED
    BY <2>1, <2>2, <2>3, AppendProperties DEF ClosedInv
<1> QED
  BY <1>1, <1>2 DEF RouterNext, CandleArrives, DataBlocked, Deduplicated, Shadowed, SlotTaken, Refused, Executed

LEMMA DrawdownHolds ==
    ASSUME ClosedInv
    PROVE  DrawdownIsWorstDrop
<1>1. PICK t : t = Engine1Only(closed)
  OBVIOUS
<1>2. t \in Seq(Results) /\ DOMAIN t = 1..Len(t)
  BY <1>1, Engine1Are DEF ClosedInv
<1>3. ASSUME NEW i \in DOMAIN t, NEW j \in DOMAIN t, i <= j
      PROVE  /\ MaxDrawdown(t) >= -SumOf(SubSeq(t, i, j))
             /\ MaxDrawdown(t) > 0 => \E a, b \in DOMAIN t :
                   a <= b /\ MaxDrawdown(t) = -SumOf(SubSeq(t, a, b))
  BY <1>2, <1>3, DrawdownIs
<1> QED
  BY <1>1, <1>3, Zenon DEF DrawdownIsWorstDrop

HistoryInv == Market /\ TdInv /\ ClosedInv

\* While the window of candles slides, no bar of the past turns into a structure
\* break and no break changes whose swing is still confirmed
\* (market_structure.py), what became of a replayed emission stands
\* (backtest_topdown.py), and the drawdown of the kill switch is the worst sum
\* of results in a row (engine1_kill_switch.py).
THEOREM HistoryStands == Spec => HistoryKept
<1>1. Init => HistoryInv
  <2> SUFFICES ASSUME Init PROVE HistoryInv
    OBVIOUS
  <2>1. DetInit /\ DtInit /\ TdInit /\ RouterInit
    BY DEF Init
  <2>2. bars = << >> /\ dtBars = << >> /\ closed = << >>
    BY <2>1 DEF DetInit, DtInit, RouterInit
  <2>3. Market /\ ClosedInv
    BY <2>2, EmptySeq DEF Market, ClosedInv
  <2> QED
    BY <2>1, <2>3, TdStarts DEF HistoryInv
<1> DEFINE Standing == [NothingRepainted]_detVars
           Outcomes == [FinalStands]_tdVars
<1>2. HistoryInv /\ [Next]_vars => HistoryInv' /\ Standing /\ Outcomes
  <2> SUFFICES ASSUME HistoryInv, [Next]_vars PROVE HistoryInv' /\ Standing /\ Outcomes
    OBVIOUS
  <2>1. Market'
    BY MarketGrows DEF HistoryInv
  <2>2. TdInv' /\ Outcomes
    <3>1. CASE TdNext
      <4>1. TdInv'
        BY <3>1, TdStep DEF HistoryInv
      <4>2. TdInv
        BY DEF HistoryInv
      <4> QED
        BY <3>1, <4>1, <4>2, OutcomesStep DEF FinalStands
    <3>2. CASE UNCHANGED tdVars
      <4>1. tape' = tape /\ emissions' = emissions
        BY <3>2 DEF tdVars
      <4>2. TdInv'
        BY <4>1 DEF HistoryInv, TdInv, EmissionsApart
      <4>3. Outcomes
        BY <3>2
      <4> QED
        BY <4>2, <4>3
    <3> QED
      BY <3>1, <3>2 DEF Next, Idle, vars
  <2>3. ClosedInv'
    <3>1. CASE RouterNext
      BY <3>1, ClosedStep DEF HistoryInv
    <3>2. CASE UNCHANGED routerVars
      BY <3>2 DEF HistoryInv, ClosedInv, routerVars
    <3> QED
      BY <3>1, <3>2 DEF Next, Idle, vars
  <2>4. Standing
    <3>1. CASE DetNext
      BY <3>1, StructureStep DEF HistoryInv
    <3>2. CASE UNCHANGED detVars
      BY <3>2
    <3> QED
      BY <3>1, <3>2 DEF Next, Idle, vars
  <2> QED
    BY <2>1, <2>2, <2>3, <2>4 DEF HistoryInv
<1>6. HistoryInv /\ [Next]_vars => HistoryInv'
  BY <1>2
<1>7. HistoryInv /\ [Next]_vars => Standing /\ Outcomes
  BY <1>2
<1>3. HistoryInv => DrawdownIsWorstDrop
  BY DrawdownHolds DEF HistoryInv
<1> HIDE DEF Standing, Outcomes
<1>4. Standing => [NothingRepainted]_detVars
  BY DEF Standing
<1>5. Outcomes => [FinalStands]_tdVars
  BY DEF Outcomes
<1>8. Spec => []HistoryInv
  BY <1>1, <1>6, PTL DEF Spec
<1>9. Spec => []DrawdownIsWorstDrop
  BY <1>8, <1>3, PTL
<1>10. Spec => BreaksStand
  BY <1>8, <1>4, <1>7, PTL DEF Spec, BreaksStand
<1>11. Spec => OutcomesStand
  BY <1>8, <1>5, <1>7, PTL DEF Spec, OutcomesStand
<1> QED
  BY <1>9, <1>10, <1>11 DEF HistoryKept
==============================================================================
