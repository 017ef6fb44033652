--------------------------- MODULE DataFeed_proofs --------------------------
(***************************************************************************)
(* Proofs about DataFeed: for every set of streams, memory, warm-up and    *)
(* breaker limit, a storm of reconnects keeps the service out of RUNNING,  *)
(* a candle starts one pipeline, and while the service runs every candle   *)
(* missing from the window the warm-up checks is accounted for.            *)
(***************************************************************************)
EXTENDS DataFeed, FiniteSetTheorems, SequenceTheorems, WellFoundedInduction, TLAPS

\* What a confirmed candle has started: its stream remembers it, and a stream
\* that remembers nothing has started nothing.
Starts ==
    /\ started \in [Streams -> {0, 1}]
    /\ \A s \in Streams : started[s] = 1 => s \in confirmed

-----------------------------------------------------------------------------
\* The handler of a drop leaves DEGRADED only for the announcement.
LEMMA DropAnnounced ==
    ASSUME StormBlocks, Dropped, pc \in {"connect", "listen"}
    PROVE  StormBlocks'
BY DEF StormBlocks, Dropped, breakerVars

\* A candle that is handled starts a pipeline only when its stream does not
\* remember it.
LEMMA HandledOnce ==
    ASSUME Starts, NEW s \in Streams, HandleCandle(s)
    PROVE  Starts'
<1>1. CASE Discarded(s) \/ Repeated(s)
  BY <1>1 DEF HandleCandle, Starts
<1>2. CASE ~(Discarded(s) \/ Repeated(s))
  <2>1. s \notin confirmed /\ Confirm(s)
    BY <1>2 DEF HandleCandle, Repeated
  <2>2. started[s] = 0
    BY <2>1 DEF Starts
  <2> QED
    BY <2>1, <2>2 DEF Confirm, Starts
<1> QED
  BY <1>1, <1>2

-----------------------------------------------------------------------------
\* While the breaker is tripped the service is DEGRADED, except while a new
\* drop is announced: no storm of reconnects leaves it RUNNING
\* (data_service/service.py).
THEOREM StormsBlock == Spec => []StormBlocks
<1>1. Init => StormBlocks
  BY DEF Init, StormBlocks
<1>2. StormBlocks /\ [Next]_vars => StormBlocks'
  <2> SUFFICES ASSUME StormBlocks, [Next]_vars PROVE StormBlocks'
    OBVIOUS
  <2> USE DEF StormBlocks
  <2>1. CASE Tick \/ Break \/ CalmDown \/ (\E s \in Streams : Deliver(s) \/ Redeliver(s))
    BY <2>1 DEF Tick, Break, CalmDown, Deliver, Redeliver, feedVars, breakerVars
  <2>2. CASE Connect \/ CleanClose \/ Backoff
    BY <2>2 DEF Connect, CleanClose, Backoff, breakerVars
  <2>3. CASE ConnectFails \/ Notice
    BY <2>3, DropAnnounced DEF ConnectFails, Notice
  <2>4. CASE \E s \in Streams : StartupBackfill(s) \/ GapBackfill(s)
    BY <2>4 DEF StartupBackfill, GapBackfill, breakerVars
  <2>5. CASE AlertSent
    BY <2>5 DEF AlertSent, breakerVars
  <2>6. CASE RecordEvent
    BY <2>6 DEF RecordEvent
  <2>7. CASE Prune \/ Quiet
    BY <2>7 DEF Prune, Quiet, feedVars
  <2>8. CASE BreakerReset
    BY <2>8 DEF BreakerReset
  <2>9. CASE WarmUp
    BY <2>9 DEF WarmUp, feedVars
  <2>10. CASE UNCHANGED vars
    BY <2>10 DEF vars, feedVars, breakerVars
  <2> QED
    BY <2>1, <2>2, <2>3, <2>4, <2>5, <2>6, <2>7, <2>8, <2>9, <2>10 DEF Next
<1> QED
  BY <1>1, <1>2, PTL DEF Spec

\* No candle starts two pipelines, however often the exchange sends it
\* (data_service/websocket_feeds.py).
THEOREM OnePipeline == Spec => []OnePipelinePerCandle
<1>1. Init => Starts
  BY DEF Init, Starts
<1>2. Starts /\ [Next]_vars => Starts'
  <2> SUFFICES ASSUME Starts, [Next]_vars PROVE Starts'
    OBVIOUS
  <2>1. CASE Tick
    BY <2>1 DEF Tick, Starts
  <2>2. ASSUME NEW s \in Streams, Deliver(s) \/ Redeliver(s) PROVE Starts'
    BY <2>2, HandledOnce DEF Deliver, Redeliver
  <2>3. CASE UNCHANGED <<confirmed, started>>
    BY <2>3 DEF Starts
  <2>4. CASE Connect \/ ConnectFails \/ Break \/ Notice \/ CleanClose \/ Backoff
    BY <2>4, <2>3 DEF Connect, ConnectFails, Break, Notice, CleanClose, Backoff, Dropped, ghostVars
  <2>5. CASE \E s \in Streams : StartupBackfill(s) \/ GapBackfill(s)
    BY <2>5, <2>3 DEF StartupBackfill, GapBackfill, ghostVars
  <2>6. CASE AlertSent \/ RecordEvent \/ Prune \/ Quiet \/ BreakerReset \/ WarmUp \/ CalmDown
    BY <2>6, <2>3 DEF AlertSent, RecordEvent, Prune, Quiet, BreakerReset, WarmUp, CalmDown,
         feedVars, ghostVars
  <2>7. CASE UNCHANGED vars
    BY <2>7, <2>3 DEF vars, feedVars, ghostVars
  <2> QED
    BY <2>1, <2>2, <2>4, <2>5, <2>6, <2>7 DEF Next
<1>3. Starts => OnePipelinePerCandle
  BY DEF Starts, OnePipelinePerCandle
<1> QED
  BY <1>1, <1>2, <1>3, PTL DEF Spec

-----------------------------------------------------------------------------
(* Sequences of candles.                                                   *)

\* A set of numbers has a least one.
LEMMA LeastExists ==
    ASSUME NEW S \in SUBSET Nat, S # {}
    PROVE  \E m \in S : \A n \in S : m <= n
<1> DEFINE R == {ss \in Nat \X Nat : ss[1] < ss[2]}
<1>1. IsWellFoundedOn(R, Nat)
  BY NatLessThanWellFounded DEF OpToRel
<1> HIDE DEF R
<1>2. \E m \in S : \A n \in S : <<n, m>> \notin R
  BY <1>1, WFMin
<1>3. \A m, n \in S : <<n, m>> \notin R => m <= n
  BY DEF R
<1> QED
  BY <1>2, <1>3

\* The finite sets of numbers can be put in order, by induction over their size.
Ordered(T) == \E q \in [1..Cardinality(T) -> T] : \A i, j \in DOMAIN q : i < j => q[i] > q[j]
LEMMA SetsOrdered ==
    ASSUME NEW S \in SUBSET Nat, IsFiniteSet(S)
    PROVE  Ordered(S)
<1> DEFINE Unordered(n) == \E T \in SUBSET S : Cardinality(T) = n /\ ~Ordered(T)
           Sizes == {n \in Nat : Unordered(n)}
<1> SUFFICES ASSUME Sizes # {} PROVE FALSE
  BY FS_CardinalityType
<1>1. PICK n \in Sizes : \A k \in Sizes : n <= k
  BY LeastExists
<1>2. PICK T \in SUBSET S : Cardinality(T) = n /\ ~Ordered(T)
  BY <1>1
<1>3. IsFiniteSet(T) /\ T \in SUBSET Nat /\ n \in Nat
  BY <1>1, FS_Subset
<1>4. CASE T = {}
  <2>1. Cardinality(T) = 0
    BY <1>4, FS_EmptySet
  <2> DEFINE e == [i \in 1..0 |-> 0]
  <2>2. e \in [1..0 -> T] /\ \A i, j \in DOMAIN e : i < j => e[i] > e[j]
    OBVIOUS
  <2> HIDE DEF e
  <2>3. e \in [1..Cardinality(T) -> T]
    BY <2>1, <2>2
  <2> QED
    BY <1>2, <2>2, <2>3 DEF Ordered
<1>5. CASE T # {}
  <2>1. PICK m \in T : \A k \in T : m <= k
    BY <1>3, <1>5, LeastExists
  <2> DEFINE U == T \ {m}
  <2>2. IsFiniteSet(U) /\ Cardinality(U) = n - 1
    BY <1>2, <1>3, FS_RemoveElement
  <2>3. n - 1 \in Nat
    BY <2>2, FS_CardinalityType
  <2>4. Ordered(U)
    BY <1>1, <2>2, <2>3
  <2> HIDE DEF U
  <2>5. PICK q \in [1..(n - 1) -> U] : \A i, j \in 1..(n - 1) : i < j => q[i] > q[j]
    BY <2>2, <2>4 DEF Ordered
  <2> DEFINE r == [i \in 1..n |-> IF i < n THEN q[i] ELSE m]
  <2>6. \A i \in 1..n : i < n => i \in 1..(n - 1) /\ r[i] = q[i] /\ q[i] \in T /\ q[i] # m
    BY <1>3, <2>3, <2>5 DEF U
  <2>7. r \in [1..n -> T]
    BY <2>6
  <2>8. ASSUME NEW i \in 1..n, NEW j \in 1..n, i < j PROVE r[i] > r[j]
    <3>1. i < n /\ i \in 1..(n - 1) /\ r[i] = q[i] /\ q[i] \in T /\ q[i] # m
      BY <1>3, <2>6, <2>8
    <3>2. CASE j < n
      <4>1. j \in 1..(n - 1) /\ r[j] = q[j]
        BY <2>6, <3>2
      <4> QED
        BY <2>5, <2>8, <3>1, <4>1
    <3>3. CASE j = n
      <4>1. r[j] = m
        BY <1>3, <3>3
      <4>2. m <= q[i] /\ m \in Nat /\ q[i] \in Nat
        BY <1>3, <2>1, <3>1
      <4> QED
        BY <3>1, <4>1, <4>2
    <3> QED
      BY <1>3, <3>2, <3>3
  <2> HIDE DEF r
  <2> QED
    BY <1>2, <2>7, <2>8 DEF Ordered
<1> QED
  BY <1>4, <1>5

\* An answer of the exchange is a sequence of the ages it is of.
LEMMA AnswerIs ==
    ASSUME NEW S \in SUBSET (1..MaxMem)
    PROVE  OldestFirst(S) \in Seq(1..Old)
<1>1. MaxMem \in Nat
  BY CountsAssumption
<1>2. IsFiniteSet(S) /\ S \in SUBSET Nat
  <2>1. IsFiniteSet(1..MaxMem)
    BY <1>1, FS_Interval
  <2>2. IsFiniteSet(S)
    BY <2>1, FS_Subset
  <2>3. 1..MaxMem \subseteq Nat
    BY <1>1
  <2> QED
    BY <2>2, <2>3
<1>3. \E q \in [1..Cardinality(S) -> S] : \A i, j \in DOMAIN q : i < j => q[i] > q[j]
  BY <1>2, SetsOrdered DEF Ordered
<1>4. OldestFirst(S) \in [1..Cardinality(S) -> S]
  BY <1>3 DEF OldestFirst
<1>5. Cardinality(S) \in Nat
  BY <1>2, FS_CardinalityType
<1>6. S \subseteq 1..Old
  BY <1>1 DEF Old
<1> DEFINE q == OldestFirst(S)
           n == Cardinality(S)
<1> HIDE DEF q, n
<1>7. q \in [1..n -> 1..Old] /\ n \in Nat
  BY <1>4, <1>5, <1>6 DEF q, n
<1>8. q \in Seq(1..Old)
  BY <1>7, SeqDef
<1> QED
  BY <1>8 DEF q

\* The newest n candles of a sequence are its end.
LEMMA NewestIs ==
    ASSUME NEW q \in Seq(1..Old), NEW n \in Nat \ {0}
    PROVE  /\ Newest(q, n) \in Seq(1..Old) /\ Len(Newest(q, n)) \in 0..n
           /\ Len(q) > 0 => Len(Newest(q, n)) > 0
           /\ \E off \in Nat : /\ off + Len(Newest(q, n)) = Len(q) /\ (off = 0 \/ Len(Newest(q, n)) = n)
                               /\ \A i \in 1..Len(Newest(q, n)) : Newest(q, n)[i] = q[off + i]
<1> DEFINE first == IF Len(q) > n THEN Len(q) - n + 1 ELSE 1
           w == SubSeq(q, first, Len(q))
<1>1. Len(q) \in Nat /\ first \in 1..(Len(q) + 1) /\ Len(q) - first + 1 \in 0..n
      /\ (first = 1 \/ Len(q) - first + 1 = n) /\ (Len(q) > 0 => first <= Len(q))
  OBVIOUS
<1> HIDE DEF first
<1>2. \A i \in first..Len(q) : q[i] \in 1..Old
  <2>1. \A i \in 1..Len(q) : q[i] \in 1..Old
    BY ElementOfSeq
  <2> QED
    BY <1>1, <2>1
<1>3. /\ w \in Seq(1..Old) /\ Len(w) = Len(q) - first + 1
      /\ \A i \in 1..(Len(q) - first + 1) : w[i] = q[first + i - 1]
  BY <1>1, <1>2, SubSeqProperties
<1>4. w = Newest(q, n)
  BY DEF Newest, first
<1> HIDE DEF w
<1>5. first - 1 \in Nat /\ (first - 1) + Len(w) = Len(q) /\ (first - 1 = 0 \/ Len(w) = n)
  BY <1>1, <1>3
<1>6. \A i \in 1..Len(w) : w[i] = q[(first - 1) + i]
  <2> SUFFICES ASSUME NEW i \in 1..Len(w) PROVE w[i] = q[(first - 1) + i]
    OBVIOUS
  <2>1. i \in 1..(Len(q) - first + 1) /\ first + i - 1 = (first - 1) + i
    BY <1>1, <1>3
  <2> QED
    BY <1>3, <2>1
<1>7. Len(w) \in 0..n /\ (Len(q) > 0 => Len(w) > 0)
  BY <1>1, <1>3
<1> QED
  BY <1>3, <1>4, <1>5, <1>6, <1>7

-----------------------------------------------------------------------------
(* The candles the service runs on.                                        *)

FeedTypes ==
    /\ book \in [Streams -> Seq(1..Old)]
    /\ bad \in [Streams -> SUBSET (1..MaxMem)] /\ lost \in [Streams -> SUBSET (1..MaxMem)]

\* A connection that carries messages is listened to; nothing is on its way on
\* another; from a drop to the next connect the feed says it is not connected,
\* and the service does not run.
Deaf == {"startup", "alert", "record", "backfill", "backoff"}
FeedControl ==
    /\ link \in {"up", "dead", "down"}
    /\ pc \in Deaf => ~connected
    /\ link # "down" => pc = "listen" /\ connected
    /\ link # "up" => due = {}
    /\ due \cap confirmed = {}
    /\ connected => once
    /\ state = "RUNNING" => connected

\* A stream that has confirmed a candle since the connect, or had when the
\* service began to run, has every candle younger than its last one
\* accounted for: without volume, lost, or on its way.
InTouch(s) == connected /\ (s \in heard \/ (state = "RUNNING" /\ s \notin blind))
Fresh(s) ==
    /\ book[s] # <<>>
    /\ link # "dead" => \A a \in 1..(Last(book[s]) - 1) :
                           a \in bad[s] \cup lost[s] \/ (a = 1 /\ s \in due)

\* The holes of the window, by the places in the memory.
Explained(s) ==
    \A i \in 1..(Len(book[s]) - 1) :
        Len(book[s]) - i < MinCount
           => \A a \in (book[s][i + 1] + 1)..(book[s][i] - 1) : a \in bad[s] \cup lost[s]

Followed(s) == /\ InTouch(s) => Fresh(s)
               /\ state = "RUNNING" /\ s \notin blind => Explained(s)

FeedInv == FeedTypes /\ FeedControl /\ \A s \in Streams : Followed(s)

\* Old is one more than the memory.
LEMMA OldIs == MaxMem \in Nat /\ Old = MaxMem + 1 /\ MinCount \in Nat \ {0} /\ MaxMem >= 2
BY CountsAssumption DEF Old

\* The window has the explained holes.
LEMMA HolesExplained ==
    ASSUME FeedTypes, NEW s \in Streams, Explained(s)
    PROVE  Holes(s) \subseteq bad[s] \cup lost[s]
<1> DEFINE q == book[s]
           w == Newest(q, MinCount)
<1>1. q \in Seq(1..Old) /\ Len(q) \in Nat
  BY DEF FeedTypes
<1>2. PICK off \in Nat : /\ off + Len(w) = Len(q) /\ (off = 0 \/ Len(w) = MinCount)
                         /\ \A i \in 1..Len(w) : w[i] = q[off + i]
  BY <1>1, OldIs, NewestIs
<1>0. Len(w) \in 0..MinCount
  BY <1>1, OldIs, NewestIs
<1> SUFFICES ASSUME NEW i \in 1..(Len(w) - 1), NEW a \in (w[i + 1] + 1)..(w[i] - 1)
             PROVE  a \in bad[s] \cup lost[s]
  BY DEF Holes
<1> HIDE DEF w
<1>3. /\ off + i \in 1..(Len(q) - 1) /\ Len(q) - (off + i) < MinCount
      /\ off + (i + 1) = (off + i) + 1 /\ i \in 1..Len(w) /\ i + 1 \in 1..Len(w)
  BY <1>0, <1>1, <1>2, OldIs
<1>4. w[i] = q[off + i] /\ w[i + 1] = q[(off + i) + 1]
  BY <1>2, <1>3
<1> QED
  BY <1>3, <1>4 DEF Explained

\* A continuous window has none.
LEMMA ContinuousExplains ==
    ASSUME FeedTypes, NEW s \in Streams, Continuous(Newest(book[s], MinCount))
    PROVE  Explained(s)
<1> DEFINE q == book[s]
           w == Newest(q, MinCount)
<1>1. q \in Seq(1..Old) /\ Len(q) \in Nat
  BY DEF FeedTypes
<1>2. PICK off \in Nat : /\ off + Len(w) = Len(q) /\ (off = 0 \/ Len(w) = MinCount)
                         /\ \A i \in 1..Len(w) : w[i] = q[off + i]
  BY <1>1, OldIs, NewestIs
<1>0. Len(w) \in 0..MinCount
  BY <1>1, OldIs, NewestIs
<1>3. \A i \in 1..(Len(w) - 1) : w[i] - w[i + 1] <= 1
  BY DEF Continuous
<1> HIDE DEF w
<1> SUFFICES ASSUME NEW i \in 1..(Len(q) - 1), Len(q) - i < MinCount
             PROVE  \A a \in (q[i + 1] + 1)..(q[i] - 1) : a \in bad[s] \cup lost[s]
  BY DEF Explained
<1>4. /\ i - off \in 1..(Len(w) - 1) /\ i - off \in 1..Len(w) /\ (i - off) + 1 \in 1..Len(w)
      /\ off + (i - off) = i /\ off + ((i - off) + 1) = i + 1
  BY <1>0, <1>1, <1>2, OldIs
<1>5. w[i - off] = q[i] /\ w[(i - off) + 1] = q[i + 1]
  BY <1>2, <1>4
<1>6. q[i] - q[i + 1] <= 1
  BY <1>3, <1>4, <1>5
<1>7. q[i] \in 1..Old /\ q[i + 1] \in 1..Old /\ Old \in Nat
  BY <1>1, ElementOfSeq, OldIs
<1> QED
  BY <1>6, <1>7

-----------------------------------------------------------------------------
(* A candle closes on every stream.                                        *)

\* What is accounted for is so when it is one older.
LEMMA Shifted ==
    ASSUME FeedTypes, Tick, NEW s \in Streams, NEW a \in 2..MaxMem, a - 1 \in bad[s] \cup lost[s]
    PROVE  a \in bad'[s] \cup lost'[s]
<1> DEFINE x == a - 1
<1>1. x # MaxMem /\ x + 1 = a
  BY OldIs
<1>2. PICK empty \in SUBSET Streams :
        bad' = [p \in Streams |-> {b + 1 : b \in bad[p] \ {MaxMem}} \cup (IF p \in empty THEN {1} ELSE {})]
  BY DEF Tick
<1>3. lost' = [p \in Streams |-> {b + 1 : b \in lost[p] \ {MaxMem}}
                                    \cup (IF link = "down" /\ connected THEN {1} ELSE {})]
  BY DEF Tick
<1> HIDE DEF x
<1>4. CASE x \in bad[s]
  BY <1>1, <1>2, <1>4
<1>5. CASE x \in lost[s]
  BY <1>1, <1>3, <1>5
<1> QED
  BY <1>4, <1>5 DEF x

\* The candles in memory grow older.
LEMMA AgedIs ==
    ASSUME FeedTypes, Tick, NEW s \in Streams
    PROVE  /\ book'[s] \in Seq(1..Old) /\ Len(book'[s]) = Len(book[s])
           /\ \A i \in 1..Len(book[s]) : book[s][i] \in 1..Old /\ book'[s][i] = Older(book[s][i])
<1> DEFINE q == book[s]
           r == [i \in DOMAIN q |-> Older(q[i])]
<1>1. book'[s] = r
  BY DEF Tick
<1>2. q \in Seq(1..Old) /\ Len(q) \in Nat /\ DOMAIN q = 1..Len(q)
  BY DEF FeedTypes
<1>3. \A i \in 1..Len(q) : q[i] \in 1..Old
  BY <1>2, ElementOfSeq
<1>4. \A i \in 1..Len(q) : Older(q[i]) \in 1..Old
  BY <1>3, OldIs DEF Older
<1>5. r \in [1..Len(q) -> 1..Old]
  BY <1>2, <1>4
<1>6. r \in Seq(1..Old)
  BY <1>2, <1>5, SeqDef
<1>7. Len(r) = Len(q)
  BY <1>2, <1>5, <1>6, LenProperties
<1> QED
  BY <1>1, <1>2, <1>3, <1>6, <1>7

LEMMA TickTypes ==
    ASSUME FeedTypes, Tick
    PROVE  FeedTypes'
<1>1. book' \in [Streams -> Seq(1..Old)]
  <2>1. DOMAIN book' = Streams /\ book' = [s \in Streams |-> [i \in DOMAIN book[s] |-> Older(book[s][i])]]
    BY DEF Tick
  <2> QED
    BY <2>1, AgedIs
<1>2. \A S \in SUBSET (1..MaxMem) : {b + 1 : b \in S \ {MaxMem}} \in SUBSET (1..MaxMem)
  BY OldIs
<1>3. {1} \in SUBSET (1..MaxMem)
  BY OldIs
<1>4. lost' \in [Streams -> SUBSET (1..MaxMem)]
  BY <1>2, <1>3 DEF Tick, FeedTypes
<1>5. bad' \in [Streams -> SUBSET (1..MaxMem)]
  BY <1>2, <1>3 DEF Tick, FeedTypes
<1> QED
  BY <1>1, <1>4, <1>5 DEF FeedTypes

LEMMA TickFollows ==
    ASSUME FeedInv, Tick
    PROVE  FeedInv'
<1>1. FeedTypes /\ FeedTypes' /\ FeedControl
  BY TickTypes DEF FeedInv
<1>2. /\ due = {} /\ link # "dead" /\ due' = (IF link = "up" THEN Streams ELSE {}) /\ confirmed' = {}
      /\ UNCHANGED <<link, connected, once, pc, state, heard, blind>>
  BY DEF Tick
<1>3. FeedControl'
  BY <1>1, <1>2 DEF FeedControl
<1> SUFFICES ASSUME NEW s \in Streams PROVE Followed(s)'
  BY <1>1, <1>3 DEF FeedInv
<1> DEFINE q == book[s]
           r == book'[s]
<1>4. Followed(s) /\ (InTouch(s)' <=> InTouch(s))
  BY <1>2 DEF FeedInv, InTouch
<1>5. /\ r \in Seq(1..Old) /\ Len(r) = Len(q) /\ q \in Seq(1..Old) /\ Len(q) \in Nat
      /\ \A i \in 1..Len(q) : q[i] \in 1..Old /\ r[i] = Older(q[i])
  BY <1>1, AgedIs DEF FeedTypes
<1>6. ASSUME InTouch(s), Fresh(s) PROVE Fresh(s)'
  <2>1. q # <<>> /\ \A a \in 1..(Last(q) - 1) : a \in bad[s] \cup lost[s]
    BY <1>2, <1>6 DEF Fresh
  <2>2. Len(q) \in 1..Len(q) /\ r # <<>>
    BY <1>5, <2>1, EmptySeq
  <2>3. Last(q) \in 1..Old /\ Last(r) = Older(Last(q))
    BY <1>5, <2>2 DEF Last
  <2>4. ASSUME NEW a \in 1..(Last(r) - 1)
        PROVE  a \in bad'[s] \cup lost'[s] \/ (a = 1 /\ s \in due')
    <3>1. a \in Nat /\ a >= 1 /\ a < Older(Last(q)) /\ Old \in Nat
      BY <2>3, <2>4, OldIs DEF Older
    <3>2. CASE a = 1
      <4>1. CASE link = "up"
        BY <1>2, <3>2, <4>1
      <4>2. CASE link # "up"
        <5>1. link = "down" /\ connected
          BY <1>1, <1>2, <1>6, <4>2 DEF InTouch, FeedControl
        <5> QED
          BY <3>2, <5>1 DEF Tick
      <4> QED
        BY <4>1, <4>2
    <3>3. CASE a > 1
      <4>1. a - 1 \in 1..(Last(q) - 1) /\ a \in 2..MaxMem
        BY <2>3, <3>1, <3>3, OldIs DEF Older
      <4> QED
        BY <1>1, <2>1, <4>1, Shifted
    <3> QED
      BY <3>1, <3>2, <3>3
  <2> QED
    BY <2>2, <2>4 DEF Fresh
<1>7. ASSUME Explained(s) PROVE Explained(s)'
  <2> SUFFICES ASSUME NEW i \in 1..(Len(r) - 1), Len(r) - i < MinCount,
                      NEW a \in (r[i + 1] + 1)..(r[i] - 1)
               PROVE  a \in bad'[s] \cup lost'[s]
    BY DEF Explained
  <2>1. i \in 1..Len(q) /\ i + 1 \in 1..Len(q) /\ i \in 1..(Len(q) - 1) /\ Len(q) - i < MinCount
    BY <1>5
  <2>2. q[i] \in 1..Old /\ q[i + 1] \in 1..Old /\ r[i] = Older(q[i]) /\ r[i + 1] = Older(q[i + 1])
    BY <1>5, <2>1
  <2>3. a - 1 \in (q[i + 1] + 1)..(q[i] - 1) /\ a \in 2..MaxMem
    BY <2>2, OldIs DEF Older
  <2>4. a - 1 \in bad[s] \cup lost[s]
    BY <1>7, <2>1, <2>3 DEF Explained
  <2> QED
    BY <1>1, <2>3, <2>4, Shifted
<1> QED
  BY <1>2, <1>4, <1>6, <1>7 DEF Followed

-----------------------------------------------------------------------------
(* A candle is delivered.                                                  *)

\* A candle that is confirmed follows the last one, and what lies between them
\* is accounted for.
LEMMA ConfirmFollows ==
    ASSUME FeedTypes, NEW s \in Streams, Confirm(s), UNCHANGED <<bad, lost>>
    PROVE  /\ book' \in [Streams -> Seq(1..Old)]
           /\ \A p \in Streams \ {s} : book'[p] = book[p]
           /\ Fresh(s)'
           /\ link # "dead" /\ Fresh(s) /\ Explained(s) => Explained(s)'
<1> DEFINE q == book[s]
           p == Append(q, 1)
           t == Newest(p, MaxMem)
<1>1. q \in Seq(1..Old) /\ Len(q) \in Nat
  BY DEF FeedTypes
<1>2. /\ p \in Seq(1..Old) /\ Len(p) = Len(q) + 1 /\ p[Len(q) + 1] = 1
      /\ \A i \in 1..Len(q) : p[i] = q[i]
  <2>1. 1 \in 1..Old
    BY OldIs
  <2> QED
    BY <1>1, <2>1, AppendProperties
<1>3. book' = [book EXCEPT ![s] = t] /\ book'[s] = t
  BY DEF Confirm, Trimmed, FeedTypes
<1> HIDE DEF p
<1>0. p \in Seq(1..Old) /\ MaxMem \in Nat \ {0} /\ Len(p) > 0
  BY <1>1, <1>2, OldIs
<1>4. t \in Seq(1..Old) /\ Len(t) \in 0..MaxMem /\ Len(t) > 0
  BY <1>0, NewestIs
<1>5. PICK off \in Nat : /\ off + Len(t) = Len(p) /\ (off = 0 \/ Len(t) = MaxMem)
                         /\ \A i \in 1..Len(t) : t[i] = p[off + i]
  BY <1>0, NewestIs
<1> HIDE DEF t
<1>10. Len(t) \in 1..Len(t) /\ off + Len(t) = Len(q) + 1 /\ Len(t) \in Nat
  BY <1>0, <1>2, <1>4, <1>5
<1>6. Last(t) = 1 /\ t # <<>>
  <2>1. t[Len(t)] = 1
    BY <1>2, <1>5, <1>10
  <2> QED
    BY <1>4, <1>10, <2>1, EmptySeq DEF Last
<1>7. Fresh(s)'
  <2>1. 1..(Last(book'[s]) - 1) = {}
    BY <1>3, <1>6
  <2> QED
    BY <1>3, <1>6, <2>1 DEF Fresh
<1>8. ASSUME link # "dead", Fresh(s), Explained(s) PROVE Explained(s)'
  <2> SUFFICES ASSUME NEW i \in 1..(Len(t) - 1), Len(t) - i < MinCount,
                      NEW a \in (t[i + 1] + 1)..(t[i] - 1)
               PROVE  a \in bad[s] \cup lost[s]
    BY <1>3 DEF Explained
  <2> DEFINE j == off + i
  <2>1. /\ t[i] = p[j] /\ t[i + 1] = p[j + 1] /\ j \in 1..Len(q) /\ Len(q) - j < MinCount
        /\ (j = Len(q) \/ Len(q) - j > 0)
    <3>1. i \in 1..Len(t) /\ i + 1 \in 1..Len(t) /\ off + (i + 1) = j + 1
      BY <1>4
    <3>2. t[i] = p[j] /\ t[i + 1] = p[j + 1]
      BY <1>5, <3>1
    <3>3. j \in 1..Len(q) /\ Len(q) - j < MinCount
      <4>1. off + Len(t) = Len(q) + 1 /\ Len(t) \in Nat /\ Len(q) \in Nat /\ off \in Nat
        BY <1>1, <1>10
      <4>2. i \in Nat /\ 1 <= i /\ i <= Len(t) - 1
        BY <1>10
      <4>3. Len(q) - j = Len(t) - 1 - i
        BY <4>1, <4>2
      <4>4. Len(t) - i < MinCount /\ MinCount \in Nat
        BY OldIs
      <4> QED
        BY <4>1, <4>2, <4>3, <4>4
    <3> QED
      BY <1>1, <3>2, <3>3
  <2> HIDE DEF j
  <2>2. CASE j = Len(q)
    <3>1. t[i] = Last(q) /\ t[i + 1] = 1
      BY <1>2, <2>1, <2>2 DEF Last
    <3>2. Last(q) \in 1..Old
      BY <1>1, <2>1, <2>2, ElementOfSeq DEF Last
    <3>3. a \in 1..(Last(q) - 1) /\ a # 1
      BY <3>1, <3>2, OldIs
    <3> QED
      BY <1>8, <3>3 DEF Fresh
  <2>3. CASE j # Len(q)
    <3>1. j \in 1..(Len(q) - 1) /\ j + 1 \in 1..Len(q)
      BY <1>1, <2>1, <2>3
    <3>2. a \in (q[j + 1] + 1)..(q[j] - 1)
      BY <1>2, <2>1, <3>1
    <3> QED
      BY <1>8, <2>1, <3>1, <3>2 DEF Explained
  <2> QED
    BY <2>2, <2>3
<1>9. book' \in [Streams -> Seq(1..Old)] /\ \A x \in Streams \ {s} : book'[x] = book[x]
  BY <1>3, <1>4 DEF FeedTypes
<1> QED
  BY <1>7, <1>8, <1>9

LEMMA DeliverFollows ==
    ASSUME FeedInv, NEW s \in Streams, Deliver(s)
    PROVE  FeedInv'
<1>1. /\ link = "up" /\ s \in due /\ due' = due \ {s} /\ HandleCandle(s)
      /\ UNCHANGED <<link, connected, once, pc, bad, state, lost, blind>>
  BY DEF Deliver, breakerVars
<1>2. FeedTypes /\ FeedControl /\ s \notin confirmed /\ connected
  BY <1>1 DEF FeedInv, FeedControl
<1>3. \A p \in Streams : Followed(p)
  BY DEF FeedInv
<1>4. CASE Discarded(s)
  <2>1. UNCHANGED <<confirmed, book, heard>>
    BY <1>1, <1>4 DEF HandleCandle
  <2>2. FeedTypes' /\ FeedControl'
    BY <1>1, <1>2, <2>1 DEF FeedTypes, FeedControl
  <2>3. 1 \in bad[s]
    BY <1>4 DEF Discarded
  <2>4. ASSUME NEW p \in Streams PROVE Followed(p)'
    <3>1. p # s => (p \in due <=> p \in due')
      BY <1>1
    <3>2. Fresh(p) => Fresh(p)'
      BY <1>1, <2>1, <2>3, <3>1 DEF Fresh
    <3>3. (InTouch(p)' <=> InTouch(p)) /\ (Explained(p)' <=> Explained(p))
      BY <1>1, <2>1 DEF InTouch, Explained
    <3> QED
      BY <1>1, <1>3, <3>2, <3>3 DEF Followed
  <2> QED
    BY <2>2, <2>4 DEF FeedInv
<1>5. CASE ~Discarded(s)
  <2>1. Confirm(s)
    BY <1>1, <1>2, <1>5 DEF HandleCandle, Repeated
  <2>2. /\ book' \in [Streams -> Seq(1..Old)] /\ \A p \in Streams \ {s} : book'[p] = book[p]
        /\ Fresh(s)' /\ (link # "dead" /\ Fresh(s) /\ Explained(s) => Explained(s)')
    BY <1>1, <1>2, <2>1, ConfirmFollows
  <2>3. FeedTypes' /\ FeedControl'
    BY <1>1, <1>2, <2>1, <2>2 DEF FeedTypes, FeedControl, Confirm
  <2>4. Followed(s)'
    <3>1. state = "RUNNING" /\ s \notin blind => InTouch(s)
      BY <1>2 DEF InTouch
    <3>2. state = "RUNNING" /\ s \notin blind => Fresh(s) /\ Explained(s)
      BY <1>3, <3>1 DEF Followed
    <3> QED
      BY <1>1, <2>2, <3>2 DEF Followed
  <2>5. ASSUME NEW p \in Streams \ {s} PROVE Followed(p)'
    <3>1. (p \in due <=> p \in due') /\ (p \in heard' <=> p \in heard) /\ book'[p] = book[p]
      BY <1>1, <2>1, <2>2 DEF Confirm
    <3>2. Fresh(p) => Fresh(p)'
      BY <1>1, <3>1 DEF Fresh
    <3>3. (InTouch(p)' <=> InTouch(p)) /\ (Explained(p)' <=> Explained(p))
      BY <1>1, <3>1 DEF InTouch, Explained
    <3> QED
      BY <1>1, <1>3, <3>2, <3>3 DEF Followed
  <2> QED
    BY <2>3, <2>4, <2>5 DEF FeedInv
<1> QED
  BY <1>4, <1>5

-----------------------------------------------------------------------------
(* The other steps.                                                        *)

\* A stream stays accounted for when its candles stay, no more of them are
\* missing, and what was on its way is lost or the connection is broken.
LEMMA StillFollowed ==
    ASSUME NEW s \in Streams, Followed(s), book'[s] = book[s], bad'[s] = bad[s],
           lost[s] \subseteq lost'[s],
           link = "dead" => link' = "dead",
           s \in due => s \in due' \/ 1 \in lost'[s] \/ link' = "dead",
           InTouch(s)' => InTouch(s),
           state' = "RUNNING" /\ s \notin blind' => state = "RUNNING" /\ s \notin blind
    PROVE  Followed(s)'
<1>1. Fresh(s) => Fresh(s)'
  BY DEF Fresh
<1>2. Explained(s) => Explained(s)'
  BY DEF Explained
<1> QED
  BY <1>1, <1>2 DEF Followed

\* Nothing is asked of a stream while the service is out of touch.
LEMMA DeafFollowed ==
    ASSUME NEW s \in Streams, ~connected', state' # "RUNNING"
    PROVE  Followed(s)'
BY DEF Followed, InTouch

\* Steps that leave the candles and the connection alone.
LEMMA SameFollows ==
    ASSUME FeedInv, UNCHANGED <<book, bad, lost, link, connected, once, due, confirmed, heard, blind>>,
           pc' \in Deaf => pc \in Deaf, pc = "listen" => pc' = "listen",
           state' = "RUNNING" => state = "RUNNING"
    PROVE  FeedInv'
<1>1. FeedTypes' /\ FeedControl'
  BY DEF FeedInv, FeedTypes, FeedControl
<1>2. ASSUME NEW s \in Streams PROVE Followed(s)'
  <2>1. Followed(s)
    BY DEF FeedInv
  <2>2. InTouch(s)' => InTouch(s)
    BY DEF InTouch
  <2> QED
    BY <2>1, <2>2, StillFollowed
<1> QED
  BY <1>1, <1>2 DEF FeedInv

LEMMA ConnectFollows ==
    ASSUME FeedInv, Connect
    PROVE  FeedInv'
<1>1. /\ pc = "connect" /\ link' = "up" /\ connected' = TRUE /\ once' = TRUE /\ pc' = "listen"
      /\ heard' = {} /\ UNCHANGED <<book, confirmed, due, bad, state, lost, blind>>
  BY DEF Connect
<1>2. FeedTypes /\ FeedControl /\ link = "down"
  BY <1>1 DEF FeedInv, FeedControl
<1>3. FeedTypes' /\ FeedControl'
  BY <1>1, <1>2 DEF FeedTypes, FeedControl, Deaf
<1>4. ASSUME NEW s \in Streams PROVE Followed(s)'
  <2>1. Followed(s)
    BY DEF FeedInv
  <2>2. InTouch(s)' => InTouch(s)
    BY <1>1, <1>2 DEF InTouch, FeedControl
  <2> QED
    BY <1>1, <1>2, <2>1, <2>2, StillFollowed
<1> QED
  BY <1>3, <1>4 DEF FeedInv

LEMMA DropFollows ==
    ASSUME FeedInv, Dropped
    PROVE  FeedInv'
<1>1. /\ link' = "down" /\ connected' = FALSE /\ due' = {}
      /\ pc' \in {"record", "alert", "backoff"}
      /\ (once /\ state' = "RECOVERING") \/ (~once /\ state' = state)
      /\ UNCHANGED <<book, confirmed, once, bad, lost, heard>>
  BY DEF Dropped
<1>2. FeedTypes /\ FeedControl
  BY DEF FeedInv
<1>3. state' # "RUNNING"
  BY <1>1, <1>2 DEF FeedControl
<1>4. FeedTypes' /\ FeedControl'
  BY <1>1, <1>2, <1>3 DEF FeedTypes, FeedControl
<1> QED
  BY <1>1, <1>3, <1>4, DeafFollowed DEF FeedInv

LEMMA BreakFollows ==
    ASSUME FeedInv, Break
    PROVE  FeedInv'
<1>1. /\ link = "up" /\ link' = "dead" /\ due' = {}
      /\ UNCHANGED <<book, confirmed, connected, once, pc, bad, state, lost, heard, blind>>
  BY DEF Break, ghostVars
<1>2. FeedTypes' /\ FeedControl'
  BY <1>1 DEF FeedInv, FeedTypes, FeedControl
<1>3. ASSUME NEW s \in Streams PROVE Followed(s)'
  <2>1. Followed(s) /\ (InTouch(s)' => InTouch(s))
    BY <1>1 DEF FeedInv, InTouch
  <2> QED
    BY <1>1, <2>1, StillFollowed
<1> QED
  BY <1>2, <1>3 DEF FeedInv

LEMMA CloseFollows ==
    ASSUME FeedInv, CleanClose
    PROVE  FeedInv'
<1>1. /\ pc = "listen" /\ link = "up" /\ link' = "down" /\ pc' = "connect" /\ due' = {}
      /\ lost' = [s \in Streams |-> IF s \in due THEN lost[s] \cup {1} ELSE lost[s]]
      /\ UNCHANGED <<book, confirmed, connected, once, bad, state, heard, blind>>
  BY DEF CleanClose
<1>2. FeedTypes /\ FeedControl
  BY DEF FeedInv
<1>3. FeedTypes'
  <2>1. 1 \in 1..MaxMem
    BY OldIs
  <2>2. lost' \in [Streams -> SUBSET (1..MaxMem)]
    BY <1>1, <1>2, <2>1 DEF FeedTypes
  <2> QED
    BY <1>1, <1>2, <2>2 DEF FeedTypes
<1>4. FeedControl'
  BY <1>1, <1>2 DEF FeedControl, Deaf
<1>5. ASSUME NEW s \in Streams PROVE Followed(s)'
  <2>1. Followed(s) /\ (InTouch(s)' => InTouch(s))
    BY <1>1 DEF FeedInv, InTouch
  <2>2. lost[s] \subseteq lost'[s] /\ (s \in due => 1 \in lost'[s])
    BY <1>1
  <2> QED
    BY <1>1, <2>1, <2>2, StillFollowed
<1> QED
  BY <1>3, <1>4, <1>5 DEF FeedInv

\* A candle that is sent again is dropped.
LEMMA RedeliverFollows ==
    ASSUME FeedInv, NEW s \in Streams, Redeliver(s)
    PROVE  FeedInv'
<1>1. Repeated(s) /\ HandleCandle(s)
  BY DEF Redeliver, Repeated
<1>2. UNCHANGED <<book, bad, lost, link, connected, once, due, confirmed, heard, blind, pc, state>>
  BY <1>1 DEF HandleCandle, Redeliver
<1> QED
  BY <1>2, SameFollows

\* A backfill runs while the service is out of touch.
LEMMA BackfillFollows ==
    ASSUME FeedInv, NEW s \in Streams, StartupBackfill(s) \/ GapBackfill(s)
    PROVE  FeedInv'
<1>1. /\ pc \in {"startup", "backfill"} /\ pc' \in {"connect", "backoff", "startup", "backfill"}
      /\ UNCHANGED <<confirmed, link, connected, once, due, bad, state, lost>>
  BY DEF StartupBackfill, GapBackfill, ghostVars
<1>2. FeedTypes /\ FeedControl
  BY DEF FeedInv
<1>3. ~connected /\ state # "RUNNING" /\ link = "down"
  BY <1>1, <1>2 DEF FeedControl, Deaf
<1>4. \A q \in Seq(1..Old) : Trimmed(q) \in Seq(1..Old)
  <2>1. MaxMem \in Nat \ {0}
    BY OldIs
  <2> QED
    BY <2>1, NewestIs DEF Trimmed
<1>5. book' \in [Streams -> Seq(1..Old)]
  <2>1. book[s] \in Seq(1..Old)
    BY <1>2 DEF FeedTypes
  <2>2. Published(s) \in Seq(1..Old) /\ NewerThanLast(s) \in Seq(1..Old)
    BY AnswerIs DEF Published, NewerThanLast
  <2>3. book[s] \o NewerThanLast(s) \in Seq(1..Old)
    BY <2>1, <2>2, ConcatProperties
  <2>4. PICK q \in Seq(1..Old) : book' = [book EXCEPT ![s] = q]
    <3>1. CASE UNCHANGED book
      BY <1>2, <2>1, <3>1 DEF FeedTypes
    <3>2. CASE book' = [book EXCEPT ![s] = Trimmed(Published(s))]
      BY <1>4, <2>2, <3>2
    <3>3. CASE book' = [book EXCEPT ![s] = Trimmed(@ \o NewerThanLast(s))]
      <4>1. Trimmed(book[s] \o NewerThanLast(s)) \in Seq(1..Old)
        BY <1>4, <2>3
      <4> QED
        BY <1>2, <3>3, <4>1 DEF FeedTypes
    <3> QED
      BY <3>1, <3>2, <3>3 DEF StartupBackfill, GapBackfill
  <2> QED
    BY <1>2, <2>4 DEF FeedTypes
<1>6. FeedTypes' /\ FeedControl'
  BY <1>1, <1>2, <1>3, <1>5 DEF FeedTypes, FeedControl
<1> QED
  BY <1>1, <1>3, <1>6, DeafFollowed DEF FeedInv

\* The rest of the callback runs while the service is out of touch.
LEMMA CallbackFollows ==
    ASSUME FeedInv, AlertSent \/ RecordEvent
    PROVE  FeedInv'
<1>1. /\ pc \in Deaf /\ pc' \in {"record", "backoff", "backfill"} /\ state' \in {state, "DEGRADED"}
      /\ UNCHANGED <<book, confirmed, link, connected, once, due, bad, lost>>
  BY DEF AlertSent, RecordEvent, ghostVars, Deaf
<1>2. FeedTypes /\ FeedControl
  BY DEF FeedInv
<1>3. ~connected /\ state # "RUNNING" /\ link = "down"
  BY <1>1, <1>2 DEF FeedControl, Deaf
<1>4. FeedTypes' /\ FeedControl'
  BY <1>1, <1>2, <1>3 DEF FeedTypes, FeedControl
<1> QED
  BY <1>1, <1>3, <1>4, DeafFollowed DEF FeedInv

\* The service begins to run with every window continuous.
LEMMA WarmUpFollows ==
    ASSUME FeedInv, WarmUp
    PROVE  FeedInv'
<1>1. /\ state = "RECOVERING" /\ connected
      /\ \A s \in Streams : Continuous(Newest(book[s], MinCount))
      /\ \/ state' = "DEGRADED" /\ blind' = blind
         \/ state' = "RUNNING" /\ blind' = Streams \ heard
      /\ UNCHANGED <<book, confirmed, link, connected, once, pc, due, bad, lost, heard>>
  BY DEF WarmUp, Warm, feedVars
<1>2. FeedTypes /\ FeedControl
  BY DEF FeedInv
<1>3. FeedTypes' /\ FeedControl'
  BY <1>1, <1>2 DEF FeedTypes, FeedControl
<1>4. ASSUME NEW s \in Streams PROVE Followed(s)'
  <2>1. Followed(s) /\ (InTouch(s)' => InTouch(s))
    BY <1>1 DEF FeedInv, InTouch
  <2>2. Explained(s) /\ (Explained(s)' <=> Explained(s)) /\ (Fresh(s)' <=> Fresh(s))
    BY <1>1, <1>2, ContinuousExplains DEF Explained, Fresh
  <2> QED
    BY <2>1, <2>2 DEF Followed
<1> QED
  BY <1>3, <1>4 DEF FeedInv

-----------------------------------------------------------------------------
\* While the service runs, every candle missing from the window the warm-up
\* checks is accounted for (data_service/service.py, websocket_feeds.py).
THEOREM HolesAccounted == Spec => []RunningHolesExplained
<1>1. Init => FeedInv
  <2> SUFFICES ASSUME Init PROVE FeedInv
    OBVIOUS
  <2>1. <<>> \in Seq(1..Old)
    BY EmptySeq
  <2>2. FeedTypes /\ FeedControl
    BY <2>1 DEF Init, FeedTypes, FeedControl
  <2> QED
    BY <2>2 DEF Init, FeedInv, Followed, InTouch
<1>2. FeedInv /\ [Next]_vars => FeedInv'
  <2> SUFFICES ASSUME FeedInv, [Next]_vars PROVE FeedInv'
    OBVIOUS
  <2>1. CASE Tick
    BY <2>1, TickFollows
  <2>2. CASE Connect
    BY <2>2, ConnectFollows
  <2>3. CASE ConnectFails \/ Notice
    BY <2>3, DropFollows DEF ConnectFails, Notice
  <2>4. CASE Break
    BY <2>4, BreakFollows
  <2>5. CASE CleanClose
    BY <2>5, CloseFollows
  <2>6. ASSUME NEW s \in Streams, Deliver(s) PROVE FeedInv'
    BY <2>6, DeliverFollows
  <2>7. ASSUME NEW s \in Streams, Redeliver(s) PROVE FeedInv'
    BY <2>7, RedeliverFollows
  <2>8. ASSUME NEW s \in Streams, StartupBackfill(s) \/ GapBackfill(s) PROVE FeedInv'
    BY <2>8, BackfillFollows
  <2>9. CASE AlertSent \/ RecordEvent
    BY <2>9, CallbackFollows
  <2>10. CASE WarmUp
    BY <2>10, WarmUpFollows
  <2>11. CASE Backoff
    <3>1. /\ pc = "backoff" /\ pc' = "connect"
          /\ UNCHANGED <<book, bad, lost, link, connected, once, due, confirmed, heard, blind, state>>
      BY <2>11 DEF Backoff, ghostVars
    <3> QED
      BY <3>1, SameFollows DEF Deaf
  <2>12. CASE Prune \/ Quiet \/ CalmDown \/ BreakerReset \/ UNCHANGED vars
    <3>1. /\ UNCHANGED <<book, bad, lost, link, connected, once, due, confirmed, heard, blind, pc>>
          /\ state' = "RUNNING" => state = "RUNNING"
      BY <2>12 DEF Prune, Quiet, CalmDown, BreakerReset, vars, feedVars, ghostVars
    <3> QED
      BY <3>1, SameFollows
  <2> QED
    BY <2>1, <2>2, <2>3, <2>4, <2>5, <2>6, <2>7, <2>8, <2>9, <2>10, <2>11, <2>12 DEF Next
<1>3. FeedInv => RunningHolesExplained
  <2> SUFFICES ASSUME FeedInv, state = "RUNNING", NEW s \in Streams \ blind
               PROVE  Holes(s) \subseteq bad[s] \cup lost[s]
    BY DEF RunningHolesExplained
  <2>1. FeedTypes /\ Explained(s)
    BY DEF FeedInv, Followed
  <2> QED
    BY <2>1, HolesExplained
<1> QED
  BY <1>1, <1>2, <1>3, PTL DEF Spec
=============================================================================
