------------------------------ MODULE DataFeed ------------------------------
(***************************************************************************)
(* The candle feed of the data service: OKXWebSocketFeed                   *)
(* (data_service/websocket_feeds.py) and the state machine DataService     *)
(* keeps over it (data_service/service.py): warm-up, reconnect callback,   *)
(* gap backfill and circuit breaker.                                       *)
(*                                                                         *)
(* A stream is one pair and timeframe.  A candle is known by its age: 1 is *)
(* the candle that closed last, and every close makes the others one       *)
(* older, up to Old.  All streams close a candle at a Tick; the candles    *)
(* that reach the process are delivered one stream at a time.  The breaker *)
(* keeps the number of reconnects inside its window and whether the last   *)
(* one is stable_seconds old; time moves both (Prune, Quiet).              *)
(***************************************************************************)
EXTENDS Integers, Sequences, SequencesExt, FiniteSets

CONSTANTS
    Streams,        \* the pair and timeframe streams the warm-up looks at
    MinCount,       \* STARTUP_WARMUP_CANDLE_MIN
    MaxMem,         \* _MAX_CANDLES_IN_MEMORY
    MaxEvents,      \* CIRCUIT_BREAKER_MAX_RECONNECTS
    MaxEmpty,       \* bound: candles without volume in the memory's reach
    NormalCloses,   \* whether the exchange may close the connection cleanly
    BackfillFails   \* whether a gap backfill of a stream may return nothing

ASSUME CountsAssumption == /\ MinCount \in Nat \ {0, 1}
                           /\ MaxMem \in Nat
                           /\ MinCount <= MaxMem
ASSUME BreakerAssumption == MaxEvents \in Nat \ {0}
ASSUME SwitchAssumption == /\ MaxEmpty \in Nat
                           /\ {NormalCloses, BackfillFails} \subseteq BOOLEAN

Old == MaxMem + 1          \* the age of every candle older than the memory

VARIABLES
    book,       \* candles in memory per stream, oldest first (_candles)
    confirmed,  \* streams whose _last_confirmed_ts is that of the last candle
    link,       \* the connection: "up", "dead" (broken, not yet noticed), "down"
    connected,  \* the feed's _connected flag
    once,       \* _has_connected_once
    live,       \* _live_candle_count >= 1
    pc,         \* where start() and the reconnect callback are
    todo,       \* streams the running backfill has not reached yet
    state,      \* DataService._state
    tripped,    \* CircuitBreaker._tripped
    events,     \* reconnects inside the breaker's window
    quiet,      \* the last reconnect is at least stable_seconds ago
    due,        \* streams whose last candle is on its way
    bad,        \* ages of the candles without volume, per stream
    calm,       \* from here on the environment makes no more faults
    lost,       \* ghost: ages a stream missed because of a clean close
    heard,      \* ghost: streams that confirmed a candle since the connect
    blind,      \* ghost: streams not heard when the state became RUNNING
    started     \* ghost: pipelines started for the last candle, per stream

feedVars == <<book, confirmed, link, connected, once, live, pc, todo, due, bad>>
breakerVars == <<tripped, events, quiet>>
ghostVars == <<lost, heard, blind, started>>
vars == <<feedVars, breakerVars, ghostVars, state, calm>>

Places == {"startup", "connect", "listen", "alert", "record", "backfill", "backoff"}

TypeOK ==
    /\ book \in [Streams -> BoundedSeq(1..Old, MaxMem)]
    /\ link \in {"up", "dead", "down"}
    /\ pc \in Places
    /\ state \in {"RUNNING", "RECOVERING", "DEGRADED"}
    /\ {connected, once, live, tripped, quiet, calm} \subseteq BOOLEAN
    /\ events \in 0..MaxEvents
    /\ {confirmed, todo, due, heard, blind} \subseteq SUBSET Streams
    /\ bad \in [Streams -> SUBSET (1..MaxMem)]
    /\ lost \in [Streams -> SUBSET (1..MaxMem)]
    /\ started \in [Streams -> 0..2]

-----------------------------------------------------------------------------
(* Candles.                                                                *)

Older(a) == IF a = Old THEN a ELSE a + 1

\* The newest n candles of a sequence.
Newest(s, n) == SubSeq(s, IF Len(s) > n THEN Len(s) - n + 1 ELSE 1, Len(s))

\* The trim to _MAX_CANDLES_IN_MEMORY.
Trimmed(s) == Newest(s, MaxMem)

\* validate_candle_continuity: no step of more than one and a half candles.
Continuous(s) == \A i \in 1..(Len(s) - 1) : s[i] - s[i + 1] <= 1

\* The candles of a set as an answer holds them, oldest first.
OldestFirst(S) ==
    CHOOSE q \in [1..Cardinality(S) -> S] : \A i, j \in DOMAIN q : i < j => q[i] > q[j]

\* What the exchange returns for a stream: the closed candles with volume
\* (ExchangeClient.backfill_candles).
Published(s) == OldestFirst((1..MaxMem) \ bad[s])

\* The candles of a gap backfill: those newer than the last one in memory.
NewerThanLast(s) ==
    OldestFirst({a \in (1..MaxMem) \ bad[s] : a < Last(book[s])})

-----------------------------------------------------------------------------
Init ==
    /\ book = [s \in Streams |-> <<>>]
    /\ confirmed = {}
    /\ link = "down" /\ connected = FALSE /\ once = FALSE /\ live = FALSE
    /\ pc = "startup" /\ todo = Streams
    /\ state = "RECOVERING"
    /\ tripped = FALSE /\ events = 0 /\ quiet = TRUE
    /\ due = {}
    /\ bad = [s \in Streams |-> {}]
    /\ calm = FALSE
    /\ lost = [s \in Streams |-> {}]
    /\ heard = {} /\ blind = {}
    /\ started = [s \in Streams |-> 0]

\* A candle closes on every stream.  The exchange sends it where the
\* connection carries messages; a candle arrives, and a broken connection is
\* noticed, well within the next candle's interval.
Tick ==
    /\ due = {} /\ link # "dead"
    /\ due' = IF link = "up" THEN Streams ELSE {}
    /\ \E empty \in SUBSET Streams :
          /\ empty # {} => ~calm
          /\ bad' = [s \in Streams |->
                {a + 1 : a \in bad[s] \ {MaxMem}} \cup (IF s \in empty THEN {1} ELSE {})]
          /\ empty # {} => SumFunction([s \in Streams |-> Cardinality(bad'[s])]) <= MaxEmpty
    /\ book' = [s \in Streams |-> [i \in DOMAIN book[s] |-> Older(book[s][i])]]
    /\ confirmed' = {}
    /\ lost' = [s \in Streams |->
          {a + 1 : a \in lost[s] \ {MaxMem}}
             \cup (IF link = "down" /\ connected THEN {1} ELSE {})]
    /\ started' = [s \in Streams |-> 0]
    /\ UNCHANGED <<link, connected, once, live, pc, todo, state, breakerVars, calm,
                   heard, blind>>

-----------------------------------------------------------------------------
(* The connection (start, _connect_and_listen).                            *)

Connect ==
    /\ pc = "connect"
    /\ link' = "up" /\ connected' = TRUE /\ once' = TRUE
    /\ live' = FALSE
    /\ pc' = "listen"
    /\ heard' = {}
    /\ UNCHANGED <<book, confirmed, todo, due, bad, state, breakerVars, calm, lost, blind, started>>

\* Mutant of Dropped: the first drop after a connect is not reported.
DroppedSilently ==
    /\ link' = "down" /\ connected' = FALSE
    /\ due' = {}
    /\ pc' = "backoff"
    /\ UNCHANGED <<book, confirmed, once, live, todo, bad, state, breakerVars, calm, ghostVars>>

\* The exception handler of start: the callback runs before the backoff, and
\* only when the feed has been connected before.  _on_ws_reconnect sets
\* RECOVERING at once; the alert it awaits is sent when the state changed.
Dropped ==
    /\ link' = "down" /\ connected' = FALSE
    /\ due' = {}
    /\ IF once
       THEN /\ state' = "RECOVERING"
            /\ pc' = IF state = "RECOVERING" THEN "record" ELSE "alert"
       ELSE /\ state' = state
            /\ pc' = "backoff"
    /\ blind' = {}
    /\ UNCHANGED <<book, confirmed, once, live, todo, bad, breakerVars, calm, lost, heard,
                   started>>

ConnectFails == pc = "connect" /\ ~calm /\ Dropped

\* The connection breaks; what was on its way is lost.
Break ==
    /\ link = "up" /\ ~calm
    /\ link' = "dead" /\ due' = {}
    /\ UNCHANGED <<book, confirmed, connected, once, live, pc, todo, bad, state, breakerVars,
                   calm, ghostVars>>

\* The ping times out.
Notice == pc = "listen" /\ link = "dead" /\ Dropped

\* The exchange closes the connection cleanly: the listen loop ends without
\* an exception, so nothing is reported and the flag keeps its value.
CleanClose ==
    /\ NormalCloses /\ ~calm
    /\ pc = "listen" /\ link = "up"
    /\ link' = "down" /\ pc' = "connect" /\ due' = {}
    /\ lost' = [s \in Streams |-> IF s \in due THEN lost[s] \cup {1} ELSE lost[s]]
    /\ UNCHANGED <<book, confirmed, connected, once, live, todo, bad, state, breakerVars, calm,
                   heard, blind, started>>

Backoff ==
    /\ pc = "backoff"
    /\ pc' = "connect"
    /\ UNCHANGED <<book, confirmed, link, connected, once, live, todo, due, bad, state, breakerVars,
                   calm, ghostVars>>

-----------------------------------------------------------------------------
(* A confirmed candle (_handle_candle_data).                               *)

Confirm(s) ==
    /\ confirmed' = confirmed \cup {s}
    /\ book' = [book EXCEPT ![s] = Trimmed(Append(@, 1))]
    /\ live' = TRUE
    /\ heard' = heard \cup {s}
    /\ started' = [started EXCEPT ![s] = @ + 1]

\* Mutant of Repeated: no dedup.
RepeatedNever(s) == FALSE

\* _validate_candle discards a candle without volume; the dedup skips the
\* candle that was confirmed last.
Discarded(s) == 1 \in bad[s]
Repeated(s) == s \in confirmed

HandleCandle(s) ==
    IF Discarded(s) \/ Repeated(s)
    THEN UNCHANGED <<confirmed, book, live, heard, started>>
    ELSE Confirm(s)

Deliver(s) ==
    /\ link = "up" /\ s \in due
    /\ due' = due \ {s}
    /\ HandleCandle(s)
    /\ UNCHANGED <<link, connected, once, pc, todo, bad, state, breakerVars, calm, lost, blind>>

\* The exchange sends the last candle of a stream a second time.
Redeliver(s) ==
    /\ link = "up" /\ s \in (heard \cap confirmed) \ due
    /\ started[s] < 2
    /\ HandleCandle(s)
    /\ UNCHANGED <<link, connected, once, pc, todo, due, bad, state, breakerVars, calm, lost,
                   blind>>

-----------------------------------------------------------------------------
(* Backfills.                                                              *)

\* _backfill_all, one stream: an empty answer and an exchange error leave the
\* stream as it is.
StartupBackfill(s) ==
    /\ pc = "startup" /\ s \in todo
    /\ \/ book' = [book EXCEPT ![s] = Trimmed(Published(s))]
       \/ BackfillFails /\ ~calm /\ UNCHANGED book
    /\ todo' = todo \ {s}
    /\ pc' = IF todo' = {} THEN "connect" ELSE pc
    /\ UNCHANGED <<confirmed, link, connected, once, live, due, bad, state, breakerVars, calm,
                   ghostVars>>

\* _gap_backfill, one stream; a stream without candles is skipped.
GapBackfill(s) ==
    /\ pc = "backfill" /\ s \in todo
    /\ \/ /\ book[s] # <<>>
          /\ book' = [book EXCEPT ![s] = Trimmed(@ \o NewerThanLast(s))]
       \/ /\ book[s] = <<>> \/ (BackfillFails /\ ~calm)
          /\ UNCHANGED book
    /\ todo' = todo \ {s}
    /\ pc' = IF todo' = {} THEN "backoff" ELSE pc
    /\ UNCHANGED <<confirmed, link, connected, once, live, due, bad, state, breakerVars, calm,
                   ghostVars>>

-----------------------------------------------------------------------------
(* The rest of the reconnect callback, and the circuit breaker.            *)

AlertSent ==
    /\ pc = "alert"
    /\ pc' = "record"
    /\ UNCHANGED <<book, confirmed, link, connected, once, live, todo, due, bad, state, breakerVars,
                   calm, ghostVars>>

\* Mutant of RecordEvent: a trip does not change the state.
RecordEventOnly ==
    /\ pc = "record"
    /\ events' = IF events < MaxEvents THEN events + 1 ELSE events
    /\ quiet' = FALSE
    /\ tripped' = (tripped \/ events' >= MaxEvents)
    /\ state' = state
    /\ IF tripped'
       THEN pc' = "backoff" /\ todo' = {}
       ELSE pc' = "backfill" /\ todo' = Streams
    /\ UNCHANGED <<book, confirmed, link, connected, once, live, due, bad, calm, ghostVars>>

\* record_event, then is_tripped: the event just recorded keeps a tripped
\* breaker tripped, and a tripped breaker skips the backfill.
RecordEvent ==
    /\ pc = "record"
    /\ events' = IF events < MaxEvents THEN events + 1 ELSE events
    /\ quiet' = FALSE
    /\ tripped' = (tripped \/ events' >= MaxEvents)
    /\ IF tripped'
       THEN state' = "DEGRADED" /\ pc' = "backoff" /\ todo' = {}
       ELSE state' = state /\ pc' = "backfill" /\ todo' = Streams
    /\ UNCHANGED <<book, confirmed, link, connected, once, live, due, bad, calm, ghostVars>>

\* Time passes for the breaker: the oldest event leaves the window, which is
\* longer than stable_seconds.
Prune ==
    /\ events > 0
    /\ events = 1 => quiet
    /\ events' = events - 1
    /\ UNCHANGED <<feedVars, tripped, quiet, state, calm, ghostVars>>

Quiet ==
    /\ ~quiet
    /\ quiet' = TRUE
    /\ UNCHANGED <<feedVars, tripped, events, state, calm, ghostVars>>

\* Mutant of StillTripped: the breaker never resets by itself.
TrippedForEver == tripped

\* is_tripped reads the flag and resets it when the reconnects have stopped.
StillTripped == tripped /\ events > 0 /\ ~quiet

\* _check_warmup, which the warm-up loop calls every ten seconds: from
\* DEGRADED once the breaker has reset, from RECOVERING when the feed is
\* connected, every stream has MinCount continuous candles, and some stream
\* has confirmed a live one.
BreakerReset ==
    /\ state = "DEGRADED" /\ ~StillTripped
    /\ tripped' = FALSE
    /\ events' = IF tripped THEN 0 ELSE events
    /\ state' = "RECOVERING"
    /\ UNCHANGED <<feedVars, quiet, calm, ghostVars>>

Warm ==
    /\ connected
    /\ \A s \in Streams : /\ Len(book[s]) >= MinCount
                          /\ Continuous(Newest(book[s], MinCount))
    /\ live

WarmUp ==
    /\ state = "RECOVERING" /\ Warm
    /\ tripped' = StillTripped
    /\ events' = IF tripped /\ ~StillTripped THEN 0 ELSE events
    /\ state' = IF StillTripped THEN "DEGRADED" ELSE "RUNNING"
    /\ blind' = IF StillTripped THEN blind ELSE Streams \ heard
    /\ UNCHANGED <<feedVars, quiet, calm, lost, heard, started>>

CalmDown ==
    /\ ~calm
    /\ calm' = TRUE
    /\ UNCHANGED <<feedVars, breakerVars, state, ghostVars>>

-----------------------------------------------------------------------------
Next ==
    \/ Tick
    \/ Connect \/ ConnectFails \/ Break \/ Notice \/ CleanClose \/ Backoff
    \/ \E s \in Streams : \/ Deliver(s) \/ Redeliver(s)
                          \/ StartupBackfill(s) \/ GapBackfill(s)
    \/ AlertSent \/ RecordEvent \/ Prune \/ Quiet
    \/ BreakerReset \/ WarmUp
    \/ CalmDown

Spec == Init /\ [][Next]_vars

\* The tasks of the event loop run, time passes, candles close, and the
\* exchange answers once the faults are over.
Fairness ==
    /\ WF_vars(Tick) /\ WF_vars(Connect) /\ WF_vars(Notice) /\ WF_vars(Backoff)
    /\ \A s \in Streams : /\ WF_vars(Deliver(s))
                          /\ WF_vars(StartupBackfill(s))
                          /\ WF_vars(GapBackfill(s))
    /\ WF_vars(AlertSent) /\ WF_vars(RecordEvent) /\ WF_vars(Quiet)
    /\ WF_vars(BreakerReset) /\ WF_vars(WarmUp)

FairSpec == Spec /\ Fairness

-----------------------------------------------------------------------------
(* Properties.                                                             *)

\* The candles missing between two neighbours of the newest MinCount.
Holes(s) ==
    LET w == Newest(book[s], MinCount)
    IN  UNION {(w[i + 1] + 1)..(w[i] - 1) : i \in 1..(Len(w) - 1)}

\* While the state is RUNNING, a candle is missing from the window the warm-up
\* checks only if it had no volume, fell into a clean close of the connection,
\* or belongs to a stream that had not confirmed any candle when another
\* stream's live candle let _check_warmup start RUNNING.
RunningHolesExplained ==
    state = "RUNNING" =>
        \A s \in Streams \ blind : Holes(s) \subseteq bad[s] \cup lost[s]

\* A storm of reconnects stops trading: while the breaker is tripped the state
\* is DEGRADED, except while a new drop is being announced, when
\* _on_ws_reconnect has set RECOVERING and awaits the alert.
StormBlocks == tripped => state = "DEGRADED" \/ pc \in {"alert", "record"}

\* No candle starts two pipelines, also when the exchange sends it twice.
OnePipelinePerCandle == \A s \in Streams : started[s] <= 1

\* Once the faults stop, the service gets back to RUNNING for good: no drop,
\* failed backfill, hole or tripped breaker keeps it out for ever.
EventuallyRunning == calm ~> [](state = "RUNNING")

\* The comment of _gap_backfill on a gap it cannot fill: the service "stays in
\* RECOVERING - the warmup continuity check will catch it".
GapKeepsRecovering ==
    state = "RUNNING" => \A s \in Streams : Holes(s) = {}
=============================================================================
