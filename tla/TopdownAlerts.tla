---------------------------- MODULE TopdownAlerts ---------------------------
(***************************************************************************)
(* What the top-down edge tells its trader and what is counted of it: the  *)
(* hourly scanner (scripts/signal_scanner.py) alerts at most once in six   *)
(* hours, the journal links a trade to the alert it was taken from when it *)
(* opens (data_service/bybit_watcher.py) or afterwards                     *)
(* (scripts/reconcile_topdown_falsification.py), by one rule               *)
(* (data_service/topdown_reconcile.py).                                    *)
(*                                                                         *)
(* The clock counts the events; the windows are lengths in it.  Prices are *)
(* whole, a sweep's distance is in hundredths of a percent.                *)
(***************************************************************************)
EXTENDS Integers, Sequences, FiniteSets

CONSTANTS
    ScannerPairs,   \* SCANNER_PAIRS
    EdgeSignals,    \* what build_edge_signal may return: dir, entry, sl, rr, sweep
    EntryPrices,    \* prices a manual trade may be entered at
    DedupHours,     \* DEDUP_HOURS
    MatchHours,     \* MATCH_WINDOW_HOURS
    MaxClock,       \* bound
    MaxAlerts, MaxManual,   \* bounds
    \* The watch daemon's:
    BriefPairs,     \* PAIRS
    Biases,         \* side and confidence, as one value; NoBias is none of them
    NoBias

ASSUME WindowsAssumption == DedupHours \in Nat /\ MatchHours \in Nat

VARIABLES
    clock,
    alerts,         \* signal_scanner_alerts: pair, dir, entry, at; id is the index
    heard,          \* the alerts that reached Telegram, each with its time
    trades,         \* bybit_trade_annotations: pair, dir, entry, at, link (0 is NULL)
    table,          \* signal_scanner_alerts exists
    unbooked        \* a trade was opened that the journal could not insert

VARIABLES
    saved,          \* the state file of topdown_push.py: the bias of each pair in it
    known,          \* what the reader of the chat takes each pair's bias to be
    missed,         \* pairs whose change was not told: a failed message, a silent seeding
    unwritten       \* pairs told in a pass whose file was not written

pushVars == <<saved, known, missed, unwritten>>

scannerVars == <<clock, alerts, heard, trades, table, unbooked>>

ScannerInit ==
    /\ clock = 1 /\ alerts = << >> /\ heard = {} /\ trades = << >>
    /\ table = FALSE /\ unbooked = FALSE

-----------------------------------------------------------------------------
(* The scanner.                                                            *)

\* _edge_candidate: a tight sweep, the stop on its side, an R:R below 6.
Candidate(s) ==
    /\ s.sweep <= 12
    /\ s.dir = "long"  => s.sl < s.entry
    /\ s.dir = "short" => s.sl > s.entry
    /\ 0 < s.rr /\ s.rr < 6

\* _recently_alerted.
RecentlyAlerted(pair, dir) ==
    \E i \in DOMAIN alerts : alerts[i].pair = pair /\ alerts[i].dir = dir /\ alerts[i].at >= clock - DedupHours

\* One pair of scan(): the message goes out first and its failure is not
\* looked at, then the row is written; the process may end between the two.
ScanPair(pair, s, sent, written) ==
    /\ table' = TRUE
    /\ Candidate(s) /\ ~RecentlyAlerted(pair, s.dir)
    /\ Len(alerts) < MaxAlerts
    /\ heard' = IF sent THEN heard \cup {[pair |-> pair, dir |-> s.dir, at |-> clock, kept |-> written]}
                ELSE heard
    /\ alerts' = IF written THEN Append(alerts, [pair |-> pair, dir |-> s.dir, entry |-> s.entry, at |-> clock])
                 ELSE alerts
    /\ UNCHANGED <<trades, unbooked>>

\* Nothing to say of the pair: no valid triplet, the gate or the dedup.
ScanNothing ==
    /\ table' = TRUE
    /\ UNCHANGED <<alerts, heard, trades, unbooked>>

-----------------------------------------------------------------------------
(* The journal.                                                            *)

Off(a, b) == IF a < b THEN b - a ELSE a - b

\* find_matching_alert, its query and its loop: the latest alert of the pair
\* and direction in the window before the trade, entered within 0.6%; 0 is None.
Matching(pair, dir, entry, at) ==
    {i \in DOMAIN alerts :
        /\ alerts[i].pair = pair /\ alerts[i].dir = dir
        /\ alerts[i].at <= at /\ alerts[i].at >= at - MatchHours
        /\ Off(entry, alerts[i].entry) * 1000 <= 6 * alerts[i].entry}
Match(pair, dir, entry, at) ==
    LET found == Matching(pair, dir, entry, at)
    IN  IF found = {} THEN 0 ELSE CHOOSE i \in found : \A j \in found : j <= i

\* The watcher sees a trade opened: _insert_annotation looks the alert up in
\* the transaction of the insert, at the time the exchange gave.  A lookup that
\* fails for want of the table is swallowed but aborts the transaction, and
\* the insert after it fails (bybit_watcher.py 523-553).
TradeOpened(pair, dir, entry) ==
    /\ Len(trades) < MaxManual
    /\ IF table
       THEN /\ trades' = Append(trades, [pair |-> pair, dir |-> dir, entry |-> entry, at |-> clock,
                                         link |-> Match(pair, dir, entry, clock)])
            /\ UNCHANGED unbooked
       ELSE unbooked' = TRUE /\ UNCHANGED trades
    /\ UNCHANGED <<alerts, heard, table>>

\* A trade journalled before the watcher looked alerts up, or whose link the
\* form cleared: its link is NULL.
TradeUnlinked(pair, dir, entry) ==
    /\ Len(trades) < MaxManual /\ table
    /\ trades' = Append(trades, [pair |-> pair, dir |-> dir, entry |-> entry, at |-> clock, link |-> 0])
    /\ UNCHANGED <<alerts, heard, table, unbooked>>

\* backfill --apply: the rule again, for every trade without a link.
Backfill ==
    /\ \E i \in DOMAIN trades : trades[i].link = 0
    /\ trades' = [i \in DOMAIN trades |->
                    LET t == trades[i]
                    IN  IF t.link # 0 THEN t
                        ELSE [t EXCEPT !.link = Match(t.pair, t.dir, t.entry, t.at)]]
    /\ UNCHANGED <<alerts, heard, table, unbooked>>

ScannerNext ==
    /\ clock < MaxClock /\ clock' = clock + 1
    /\ \/ \E p \in ScannerPairs, s \in EdgeSignals, sent, written \in BOOLEAN : ScanPair(p, s, sent, written)
       \/ ScanNothing
       \/ \E p \in ScannerPairs, s \in EdgeSignals, f \in EntryPrices : TradeOpened(p, s.dir, f)
       \/ \E p \in ScannerPairs, s \in EdgeSignals, f \in EntryPrices : TradeUnlinked(p, s.dir, f)
       \/ Backfill

ScannerSpec == ScannerInit /\ [][ScannerNext]_scannerVars

-----------------------------------------------------------------------------
\* A link never depends on when it was made: of all alerts there are now, it
\* is one of the trade's pair and direction, told before the trade opened and
\* within the window, near its entry, and no later one is
\* (topdown_reconcile.py 62-118; reconcile_topdown_falsification.py 6-8).
LinksStand ==
    \A i \in DOMAIN trades :
        LET t == trades[i]
            Qualifies(a) == /\ a.pair = t.pair /\ a.dir = t.dir /\ a.at < t.at /\ t.at - a.at <= MatchHours
                            /\ Off(t.entry, a.entry) * 1000 <= 6 * a.entry
        IN  t.link # 0 => /\ Qualifies(alerts[t.link])
                          /\ \A j \in DOMAIN alerts : Qualifies(alerts[j]) => j <= t.link

\* The trader hears of a pair and direction twice within the window only when
\* the row of the first message was not written (signal_scanner.py 521-543).
AlertsApart ==
    \A h, k \in heard :
        (h.pair = k.pair /\ h.dir = k.dir /\ h.at < k.at /\ k.at - h.at <= DedupHours) => ~h.kept

\* Violated: an alert whose message failed is recorded all the same, silences
\* the pair for six hours and may be linked to a trade ("Match
\* Bybit trades to the /topdown edge alerts that produced them",
\* topdown_reconcile.py 1).
AlertedIsHeard ==
    \A i \in DOMAIN alerts : \E h \in heard : h.kept /\ h.at = alerts[i].at

\* Violated: a failed lookup costs the annotation ("swallow-on-error - must
\* never block a trade open", bybit_watcher.py 523-526).
TradesBooked == ~unbooked

-----------------------------------------------------------------------------
(* The watch daemon of scripts/topdown_push.py: it tells the changes of     *)
(* each pair's reconciled side and confidence.                              *)

PushInit ==
    /\ saved = [p \in BriefPairs |-> NoBias]
    /\ known = [p \in BriefPairs |-> NoBias]
    /\ missed = {} /\ unwritten = {}

\* seeding: the file is missing, unreadable or empty.
Seeding == \A p \in BriefPairs : saved[p] = NoBias

\* _poll_once: the pairs whose brief was built have a bias now; the others
\* keep what the file says.  A changed pair is told, unless the file was
\* empty; the file takes the new bias whether or not the message was sent.
Poll(now, sent, written) ==
    LET built   == {p \in BriefPairs : now[p] # NoBias}
        changed == {p \in built : now[p] # saved[p]}
        told    == IF Seeding THEN {} ELSE changed \cap sent
    IN  /\ saved' = [p \in BriefPairs |-> IF written /\ p \in built THEN now[p] ELSE saved[p]]
        /\ known' = [p \in BriefPairs |-> IF p \in told THEN now[p] ELSE known[p]]
        /\ missed' = (missed \cup (changed \ sent) \cup IF \A p \in BriefPairs : saved[p] = NoBias THEN changed ELSE {})
                      \ told
        /\ unwritten' = IF written THEN unwritten \ told ELSE unwritten \cup told

\* The file, in /tmp, does not outlive a reboot.
FileLost ==
    /\ saved' = [p \in BriefPairs |-> NoBias]
    /\ UNCHANGED <<known, missed, unwritten>>

PushNext ==
    \/ \E now \in [BriefPairs -> Biases \cup {NoBias}], sent \in SUBSET BriefPairs, written \in BOOLEAN :
          Poll(now, sent, written)
    \/ FileLost

PushSpec == PushInit /\ [][PushNext]_pushVars

-----------------------------------------------------------------------------
\* The chat is never silently behind the file: a pair whose last told bias is
\* not the one in the file had a message that failed, was seeded over, or was
\* told in a pass whose file was not written (topdown_push.py 86-125).
ChangesTold ==
    \A p \in BriefPairs :
        (saved[p] # NoBias /\ known[p] # NoBias /\ known[p] # saved[p]) => p \in missed \cup unwritten

\* Violated: a message that failed is not sent again, for the file has the new
\* bias ("push only the pairs whose bias changed since the last poll", 9-10).
FailedIsRetried ==
    [][\A p \in missed : (saved'[p] # NoBias /\ saved[p] = saved'[p]) => known'[p] = saved'[p]]_pushVars
=============================================================================
