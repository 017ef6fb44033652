---------------------------- MODULE AlertManager ----------------------------
(***************************************************************************)
(* Alert routing (shared/alert_manager.py): silencing, the rate limit of   *)
(* each priority, the whale digest and the retries of the two highest      *)
(* priorities.                                                             *)
(*                                                                         *)
(* Times are kept as ages in ticks; an entry that has left its window is   *)
(* dropped, as every reader of the code prunes before it counts.  A tick   *)
(* is longer than the seconds a retry waits.  A message is its category.   *)
(***************************************************************************)
EXTENDS Integers, Sequences, FiniteSets, SequencesExt

CONSTANTS
    Categories,     \* the routine categories, all of which can be silenced
    RateLimit,      \* ALERT_RATE_LIMIT_* per priority
    RateWindow,     \* ALERT_RATE_WINDOW_* per priority, in ticks
    SilenceAfter,   \* ALERT_AUTO_SILENCE_THRESHOLD
    SilenceWindow,  \* ALERT_AUTO_SILENCE_WINDOW, in ticks
    SilenceFor,     \* ALERT_AUTO_SILENCE_DURATION, in ticks
    Attempts,       \* delays of an EMERGENCY, one attempt each
    MaxBuffer       \* bound: whale messages in the buffer

Limited == {"INFO", "WARNING", "CRITICAL"}
Lifecycle == "trade_lifecycle"      \* the category that is never silenced
Whale     == "whale_movement"
Routed    == Categories \cup {Lifecycle, Whale}

ASSUME RateAssumption == /\ RateLimit \in [Limited -> Nat \ {0}]
                         /\ RateWindow \in [Limited -> Nat \ {0}]
ASSUME SilenceAssumption == /\ {SilenceAfter, SilenceWindow, SilenceFor} \subseteq Nat \ {0}
                            /\ SilenceWindow <= SilenceFor
ASSUME CategoriesAssumption == Lifecycle \notin Categories /\ Whale \notin Categories
ASSUME AttemptsAssumption == Attempts \in Nat \ {0} /\ MaxBuffer \in Nat

VARIABLES
    enabled,    \* the master switch for routine alerts (_enabled), set once
    silenced,   \* ticks of silence left per category, 0 when none (_silenced)
    recent,     \* ages of a category's recorded alerts (_auto_silence_history)
    rate,       \* ages of the alerts a priority accepted (_rate_history)
    buffer,     \* the whale messages waiting (_whale_buffer), a count
    flush,      \* the flush task: "none", "asleep", "sending"
    critical,   \* sends of the CRITICAL alert in hand, 0 when there is none
    emergency,  \* attempts of the EMERGENCY in hand, 0 when there is none
    auto,       \* ghost: the categories silenced by _record_auto_silence
    hushed,     \* ghost: those whose auto-silence has just been served
    tardy       \* ghost: whale messages that came while the digest was sent

alertVars == <<enabled, silenced, recent, rate, buffer, flush, critical, emergency, auto, hushed, tardy>>

AlertTypeOK ==
    /\ enabled \in BOOLEAN
    /\ silenced \in [Categories \cup {Whale} -> 0..SilenceFor]
    /\ recent \in [Categories \cup {Whale} -> BoundedSeq(0..SilenceWindow, SilenceAfter)]
    /\ \A p \in Limited : rate[p] \in BoundedSeq(0..RateWindow[p], RateLimit[p])
    /\ buffer \in 0..MaxBuffer /\ tardy \in 0..MaxBuffer
    /\ flush \in {"none", "asleep", "sending"}
    /\ critical \in 0..2 /\ emergency \in 0..Attempts
    /\ {auto, hushed} \subseteq SUBSET (Categories \cup {Whale})

AlertInit ==
    /\ enabled \in BOOLEAN
    /\ silenced = [c \in Categories \cup {Whale} |-> 0]
    /\ recent = [c \in Categories \cup {Whale} |-> <<>>]
    /\ rate = [p \in Limited |-> <<>>]
    /\ buffer = 0 /\ flush = "none" /\ critical = 0 /\ emergency = 0
    /\ auto = {} /\ hushed = {} /\ tardy = 0

-----------------------------------------------------------------------------
\* A window keeps the entries younger than its length: the last ones, since
\* entries are recorded in the order of time.
Kept(ages, window) ==
    LET young == Cardinality({i \in DOMAIN ages : ages[i] + 1 < window})
    IN  [k \in 1..young |-> ages[Len(ages) - young + k] + 1]

AlertTick ==
    /\ critical = 0 /\ emergency = 0 /\ flush # "sending"
    /\ silenced' = [c \in DOMAIN silenced |-> IF silenced[c] = 0 THEN 0 ELSE silenced[c] - 1]
    /\ hushed' = {c \in auto : silenced[c] = 1}
    /\ auto' = {c \in auto : silenced[c] > 1}
    /\ recent' = [c \in DOMAIN recent |-> Kept(recent[c], SilenceWindow)]
    /\ rate' = [p \in Limited |-> Kept(rate[p], RateWindow[p])]
    /\ UNCHANGED <<buffer, flush, critical, emergency, tardy>>

\* _record_auto_silence: the alert that reaches the threshold silences its
\* category, and is itself routed on.  The newest SilenceAfter entries decide.
Recorded(c) ==
    LET all == Append(recent[c], 0)
    IN  IF Len(all) > SilenceAfter THEN Tail(all) ELSE all
Silences(c) == Len(Recorded(c)) >= SilenceAfter

\* _check_rate_limit.
Allowed(p) == Len(rate[p]) < RateLimit[p]

\* alert() up to the send, for every priority but EMERGENCY.  Pass holds the
\* effects of an alert that gets through to the send or to the whale buffer.
Routes(p, c, Pass) ==
    \/ /\ \/ ~enabled /\ p # "CRITICAL"
          \/ c # Lifecycle /\ silenced[c] > 0
       /\ UNCHANGED <<silenced, recent, rate, buffer, flush, critical, auto, tardy>>
    \/ /\ enabled \/ p = "CRITICAL"
       /\ c # Lifecycle => silenced[c] = 0
       /\ IF c = Lifecycle
          THEN UNCHANGED <<silenced, recent, auto>>
          ELSE /\ recent' = [recent EXCEPT ![c] = Recorded(c)]
               /\ silenced' = [silenced EXCEPT ![c] = IF Silences(c) THEN SilenceFor ELSE 0]
               /\ auto' = IF Silences(c) THEN auto \cup {c} ELSE auto
       /\ \/ /\ Allowed(p)
             /\ rate' = [rate EXCEPT ![p] = Append(@, 0)]
             /\ Pass
          \/ /\ ~Allowed(p)
             /\ UNCHANGED <<rate, buffer, flush, critical, tardy>>

\* Sent directly, once.
SentOnce == UNCHANGED <<buffer, flush, critical, tardy>>

\* A routine alert: INFO or WARNING, on any category but the whales'.
Routine(p, c) ==
    /\ p \in {"INFO", "WARNING"} /\ c # Whale
    /\ Routes(p, c, SentOnce)
    /\ hushed' = hushed \ {c}
    /\ UNCHANGED emergency

\* A CRITICAL alert gets a second send when the first one fails.
CriticalAlert(c) ==
    /\ critical = 0 /\ c # Whale
    /\ Routes("CRITICAL", c, /\ critical' = 1
                             /\ UNCHANGED <<buffer, flush, tardy>>)
    /\ hushed' = hushed \ {c}
    /\ UNCHANGED emergency

CriticalSend(delivered) ==
    /\ critical > 0
    /\ critical' = IF delivered \/ critical = 2 THEN 0 ELSE 2
    /\ UNCHANGED <<silenced, recent, rate, buffer, flush, emergency, auto, hushed, tardy>>

\* An EMERGENCY is neither silenced nor limited, and is tried again and again.
EmergencyAlert ==
    /\ emergency = 0
    /\ emergency' = 1
    /\ UNCHANGED <<silenced, recent, rate, buffer, flush, critical, auto, hushed, tardy>>

EmergencySend(delivered) ==
    /\ emergency > 0
    /\ emergency' = IF delivered \/ emergency = Attempts THEN 0 ELSE emergency + 1
    /\ UNCHANGED <<silenced, recent, rate, buffer, flush, critical, auto, hushed, tardy>>

-----------------------------------------------------------------------------
(* The whale digest.                                                       *)

\* Mutant of Buffered: the timer starts with the first message of a buffer.
BufferedFirst ==
    /\ buffer < MaxBuffer
    /\ buffer' = buffer + 1
    /\ flush' = IF flush = "none" /\ buffer = 0 THEN "asleep" ELSE flush
    /\ tardy' = IF flush = "sending" THEN tardy + 1
                ELSE IF flush = "none" THEN 0 ELSE tardy
    /\ UNCHANGED critical

\* _add_to_whale_batch: the timer starts unless the flush task is not done.
Buffered ==
    /\ buffer < MaxBuffer
    /\ buffer' = buffer + 1
    /\ flush' = IF flush = "none" THEN "asleep" ELSE flush
    /\ tardy' = IF flush = "sending" THEN tardy + 1
                ELSE IF flush = "none" THEN 0 ELSE tardy
    /\ UNCHANGED critical

WhaleAlert ==
    /\ buffer < MaxBuffer
    /\ Routes("INFO", Whale, Buffered)
    /\ hushed' = hushed \ {Whale}
    /\ UNCHANGED emergency

\* The batch window has passed: the buffer is taken and cleared.
TakeBatch ==
    /\ flush = "asleep"
    /\ buffer' = 0
    /\ flush' = IF buffer = 0 THEN "none" ELSE "sending"
    /\ tardy' = 0
    /\ UNCHANGED <<silenced, recent, rate, critical, emergency, auto, hushed>>

\* The digest has been sent, whether or not it arrived; the task is done.
DigestSent ==
    /\ flush = "sending"
    /\ flush' = "none"
    /\ UNCHANGED <<silenced, recent, rate, buffer, critical, emergency, auto, hushed,
                   tardy>>

\* The user's /silence, for any time, and /unsilence.
Silence(c, ticks) ==
    /\ c \in Categories \cup {Whale}
    /\ silenced' = [silenced EXCEPT ![c] = ticks]
    /\ auto' = auto \ {c} /\ hushed' = hushed \ {c}
    /\ UNCHANGED <<recent, rate, buffer, flush, critical, emergency, tardy>>

Unsilence(c) == c \in Categories \cup {Whale} /\ silenced[c] > 0 /\ Silence(c, 0)

AlertNext ==
  /\ UNCHANGED enabled
  /\ \/ AlertTick
     \/ \E p \in Limited, c \in Routed : Routine(p, c)
     \/ \E c \in Routed : CriticalAlert(c)
     \/ WhaleAlert
     \/ \E delivered \in BOOLEAN : CriticalSend(delivered) \/ EmergencySend(delivered)
     \/ EmergencyAlert
     \/ TakeBatch \/ DigestSent
     \/ \E c \in Routed : Unsilence(c) \/ \E ticks \in 1..SilenceFor : Silence(c, ticks)

AlertSpec == AlertInit /\ [][AlertNext]_alertVars

-----------------------------------------------------------------------------
(* Properties.                                                             *)

\* A category whose auto-silence has run its course starts from nothing: no
\* alert from before the silence counts towards the next one.  A silence the
\* user ends early gives no such start.
ServedSilenceIsClean == \A c \in hushed : recent[c] = <<>>

\* A whale message waits with a timer running, unless it came in while the
\* last digest was being sent: then the flush task is not done, no timer
\* starts, and the message stays until another one comes.
WhaleTimerRuns == buffer > tardy => flush = "asleep"
=============================================================================
