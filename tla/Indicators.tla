----------------------------- MODULE Indicators -----------------------------
(***************************************************************************)
(* The polled indicators of the market snapshot (data_service/service.py:  *)
(* the funding, open interest and news loops and _compute_health;          *)
(* exchange_client.py; news_client.py) with their Redis lifetimes          *)
(* (data_store.py), and the detector that reads liquidation cascades out   *)
(* of the open interest (oi_flush_detector.py).                            *)
(*                                                                         *)
(* One pair.  Time passes in ticks of the open interest poll; values hold  *)
(* their age.  A poll whose answer Redis refuses is one that failed.       *)
(***************************************************************************)
EXTENDS Integers, Sequences, FiniteSets, SequencesExt, FiniteSetsExt

CONSTANTS
    FundingEvery, FundingRetry, FundingTtl, FundingStale,
    OiTtl, OiStale, FearTtl, NewsStale,     \* the open interest and the news
                                            \* are polled every tick
    Window, MaxAgeFactor, MaxSnapshots, EventTtl,
    DropNum, DropDen,           \* OI_DROP_THRESHOLD_PCT
    OpenInterests, Prices,      \* contracts, and prices (0: the ticker has none)
    MaxIndicatorFaults          \* bound: failed polls

\* The open interest is polled once per window (OI_CHECK_INTERVAL, 300 s, and
\* OI_DROP_WINDOW_SECONDS, 300 s).
ASSUME PollAssumption == Window = 1 /\ {MaxAgeFactor, MaxSnapshots} \subseteq Nat \ {0}
\* Redis keeps a funding rate longer than a poll takes to come back, and
\* _compute_health accepts it for as long; so with the open interest.
ASSUME LifetimeAssumption ==
    /\ {FundingEvery, FundingTtl, FundingStale, OiTtl, OiStale} \subseteq Nat \ {0}
    /\ FundingEvery < FundingTtl /\ FundingEvery <= FundingStale /\ OiTtl > 1
ASSUME MarketAssumption == OpenInterests \subseteq Nat /\ Prices \subseteq Nat

None == -1

VARIABLES
    funding,    \* age of the cached funding rate (None: expired or never)
    fundingDue, \* ticks until the loop's next poll
    oi,         \* age of the cached open interest
    fear,       \* age of the cached Fear & Greed answer
    news,       \* _latest_sentiment: ages of fetched_at and of its score
    snaps,      \* the ring buffer: age, dollars and (ghost) contracts
    lastPrice,
    events,     \* the flushes: age, gap, side, and (ghost) contracts before and after
    polled,     \* the loops that ran in this tick
    indFaults

indVars == <<funding, fundingDue, oi, fear, news, snaps, lastPrice, events, polled, indFaults>>

Loops == {"funding", "oi", "news"}

\* The state after _fetch_initial_indicators and _funding_rate_loop's look at
\* what it found.
IndicatorsInit ==
    /\ funding \in {None, 0}
    /\ fundingDue = IF funding = None THEN FundingRetry ELSE FundingEvery
    /\ oi = None /\ fear = None /\ news = [at |-> None, score |-> None]
    /\ snaps = << >> /\ lastPrice = 0 /\ events = {} /\ polled = {} /\ indFaults = 0

-----------------------------------------------------------------------------
(* The flush detector.                                                     *)

Abs(n) == IF n < 0 THEN -n ELSE n

\* Mutant of WindowSnapshot: the oldest one is compared with.
WindowSnapshotOldest == IF snaps = << >> THEN {} ELSE {1}

\* _get_window_snapshot: the one closest to the window's start, the older of
\* two, unless it is too far from it.
WindowSnapshot ==
    LET Off(i) == Abs(snaps[i].age - Window)
        best   == {i \in DOMAIN snaps : \A j \in DOMAIN snaps :
                      Off(i) < Off(j) \/ (Off(i) = Off(j) /\ i <= j)}
    IN  {i \in best : Off(i) <= Window * MaxAgeFactor}

Side(price) ==
    IF lastPrice = 0 \/ price = 0 THEN "unknown"
    ELSE IF (lastPrice - price) * 200 > lastPrice THEN "long"
    ELSE IF (price - lastPrice) * 200 > lastPrice THEN "short" ELSE "unknown"

\* update and _generate_event.
Detected(contracts, price) ==
    LET usd     == contracts * price
        flushed == {i \in WindowSnapshot : /\ snaps[i].usd > 0
                                           /\ (snaps[i].usd - usd) * DropDen >= DropNum * snaps[i].usd}
        new     == Append(snaps, [age |-> 0, usd |-> usd, contracts |-> contracts])
    IN  /\ snaps' = IF Len(new) > MaxSnapshots THEN Tail(new) ELSE new
        /\ lastPrice' = IF price > 0 THEN price ELSE lastPrice
        /\ events' = events \cup {[age |-> 0, gap |-> snaps[i].age, side |-> Side(price),
                                   before |-> snaps[i].contracts, after |-> contracts] : i \in flushed}

-----------------------------------------------------------------------------
(* The loops.                                                              *)

\* What _funding_rate_loop sleeps after a poll, whatever its outcome.
FundingSleeps(ok) == FundingEvery

FundingPoll(ok) ==
    /\ "funding" \notin polled /\ fundingDue = 0
    /\ funding' = IF ok THEN 0 ELSE funding
    /\ fundingDue' = FundingSleeps(ok)
    /\ polled' = polled \cup {"funding"}
    /\ UNCHANGED <<oi, fear, news, snaps, lastPrice, events>>

\* _oi_loop: the exchange's ticker may have no price, the feed no candle.
OiPoll(ok) ==
    /\ "oi" \notin polled
    /\ polled' = polled \cup {"oi"}
    /\ IF ok THEN /\ oi' = 0
                  /\ \E contracts \in OpenInterests, price \in Prices : Detected(contracts, price)
       ELSE UNCHANGED <<oi, snaps, lastPrice, events>>
    /\ UNCHANGED <<funding, fundingDue, fear, news>>

\* _news_sentiment_loop with fetch_fear_greed: a cached score is as good as a
\* new one and is stamped with the time of the poll.
NewsPoll(ok) ==
    /\ "news" \notin polled
    /\ polled' = polled \cup {"news"}
    /\ fear' = IF fear # None THEN fear ELSE IF ok THEN 0 ELSE None
    /\ news' = IF fear' = None THEN news ELSE [at |-> 0, score |-> fear']
    /\ UNCHANGED <<funding, fundingDue, oi, snaps, lastPrice, events>>

\* fetch_funding_rate, fetch_open_interest: they answer, or nothing on any error.
Answered(ok) ==
    /\ ok \/ indFaults < MaxIndicatorFaults
    /\ indFaults' = IF ok THEN indFaults ELSE indFaults + 1

Older(age, ttl) == IF age = None \/ age + 1 >= ttl THEN None ELSE age + 1
AtMost(age, top) == IF age = None THEN None ELSE IF age >= top THEN top ELSE age + 1

\* A tick, once the loops that are due have polled; Redis lets keys expire,
\* and events older than the last hour are pruned.
IndicatorTick ==
    /\ {"oi", "news"} \subseteq polled
    /\ fundingDue # 0
    /\ polled' = {}
    /\ fundingDue' = IF fundingDue > 0 THEN fundingDue - 1 ELSE fundingDue
    /\ funding' = Older(funding, FundingTtl)
    /\ oi' = Older(oi, OiTtl)
    /\ fear' = Older(fear, FearTtl)
    /\ news' = [at |-> AtMost(news.at, NewsStale + 1), score |-> AtMost(news.score, FearTtl + NewsStale)]
    /\ snaps' = [i \in DOMAIN snaps |-> [snaps[i] EXCEPT !.age = AtMost(@, Window * (MaxAgeFactor + 2))]]
    /\ events' = {[e EXCEPT !.age = @ + 1] : e \in {d \in events : d.age < EventTtl}}
    /\ UNCHANGED <<lastPrice, indFaults>>

IndicatorsNext ==
    \/ \E ok \in BOOLEAN : Answered(ok) /\ (FundingPoll(ok) \/ OiPoll(ok) \/ NewsPoll(ok))
    \/ IndicatorTick

IndicatorsSpec == IndicatorsInit /\ [][IndicatorsNext]_indVars

-----------------------------------------------------------------------------
(* get_market_snapshot and _compute_health, but for the CVD.               *)

Sources   == [funding |-> funding, oi |-> oi, news |-> news.at]
Stale     == [funding |-> FundingStale, oi |-> OiStale, news |-> NewsStale]
Missing   == {s \in DOMAIN Sources : Sources[s] = None}
StaleOnes == {s \in DOMAIN Sources \ Missing : Sources[s] > Stale[s]}
CriticalHealthy == {"funding", "oi"} \cap (Missing \cup StaleOnes) = {}

\* A healthy snapshot turns unhealthy only after a failed poll: every loop
\* comes back before Redis drops its answer or _compute_health calls it stale.
HealthKept == [][CriticalHealthy /\ ~CriticalHealthy' => indFaults > 0]_indVars

\* Two flushes never count the same fall of the open interest, whichever polls
\* failed in between: each starts where the one before has ended.
FlushesDisjoint ==
    \A d, e \in events : d.age > e.age => e.age + e.gap <= d.age

\* A flush is a fall of the open interest ("If OI drops >2% within a 5-minute
\* window", oi_flush_detector.py), not of its price.
FlushIsADrop == \A e \in events : e.after < e.before

\* A failed funding poll leaves the rate in use until it is stale
\* (FUNDING_STALE_MS, two intervals).
OneMissIsBridged == (indFaults <= 1 /\ oi # None) => funding # None
=============================================================================
