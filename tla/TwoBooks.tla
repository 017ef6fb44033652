------------------------------ MODULE TwoBooks ------------------------------
(***************************************************************************)
(* One pair, two books: the intraday positions of the PositionMonitor and  *)
(* the campaigns of the CampaignMonitor share the exchange's one position  *)
(* per pair.  From a candle to an order on either way (pipeline_router.py, *)
(* StrategyService.evaluate_htf, ExecutionService.execute), and through a  *)
(* restart, which only adopts what it finds (ExecutionService.start).      *)
(*                                                                         *)
(* The candles of a pair are handled one by one (websocket_feeds.py:386),  *)
(* those of two pairs interleave at the awaits: Claude's answer and the    *)
(* order.  The monitors are cut down to fills and ends; PositionMonitor    *)
(* and CampaignMonitor have them in full.                                  *)
(*                                                                         *)
(* Before the order of a campaign the AI layer is asked: the filter before *)
(* Claude (pipeline_router.py) and what becomes of the answer (ai_service/ *)
(* claude_client.py and service.py).  Readings against the market are      *)
(* classed by their threshold: funding "high", "low" or "none", fear and   *)
(* greed "fear", "greed" or "none", the tape's dominance "buyers",         *)
(* "sellers" or "none"; "none" is also a missing source.  Confidences are  *)
(* in percent.                                                             *)
(***************************************************************************)
EXTENDS Integers, Sequences, FiniteSets, SequencesExt

CONSTANTS
    BookPairs,
    BookMarkets,        \* funding, mood, tape; daily and signal trend; setups found
    AiMin,              \* AI_MIN_CONFIDENCE
    Answers,            \* Claude's
    HtfEnabled,         \* HTF_ENABLED_SETUPS
    MaxCampaigns,       \* HTF_MAX_CAMPAIGNS
    SplitSize, UnitSize,    \* a split entry's half and the exchange's minimum
    MaxBookCandles, MaxDowns    \* bounds

VARIABLES
    task,       \* per pair: where its candle's task waits
    book,       \* PositionMonitor.positions: "none", "pending", "active", "manual"
    camp,       \* CampaignMonitor._campaigns: "none", "pending", "active"
    resting,    \* exchange: entry orders
    size,       \* exchange: halves of a position
    stops,      \* exchange: stop triggers, on the losing ("below") or winning side of the entry
    heat,       \* the tracker's row: "none", "unseen", "full", "stop", "guess"
    row,        \* the trade's row: "none", "open", "closed", "orphaned"
    sync,       \* pairs sync_exchange_positions has still to visit
    candles, downs

bookVars == <<task, book, camp, resting, size, stops, heat, row, sync, candles, downs>>
venue    == <<resting, size, stops>>
Still    == UNCHANGED <<candles, downs, sync>>

NoTask == [pc |-> "idle"]
BooksInit ==
    /\ task = [p \in BookPairs |-> NoTask]
    /\ book = [p \in BookPairs |-> "none"] /\ camp = [p \in BookPairs |-> "none"]
    /\ resting = [p \in BookPairs |-> {}] /\ size = [p \in BookPairs |-> 0]
    /\ stops = [p \in BookPairs |-> {}] /\ heat = [p \in BookPairs |-> "none"]
    /\ row = [p \in BookPairs |-> "none"] /\ sync = {} /\ candles = 0 /\ downs = 0

Up == sync = {} /\ \A p \in BookPairs : task[p].pc # "down"
To(p, t) == task' = [task EXCEPT ![p] = t]

-----------------------------------------------------------------------------
(* The AI layer.                                                           *)

\* A confidence the parser takes for a number although it is none.
NaN == 1000

\* _pre_filter_for_claude: extreme funding is setup C's own signal.
PreFiltered(type, dir, m) ==
    \/ type # "c" /\ m.funding = (IF dir = "long" THEN "high" ELSE "low")
    \/ m.mood = (IF dir = "long" THEN "fear" ELSE "greed")
    \/ m.tape = (IF dir = "long" THEN "sellers" ELSE "buyers")

Rejected == [approved |-> FALSE, confidence |-> 0]

\* max(0.0, min(1.0, confidence)): min keeps 1.0 when it cannot compare.
Clamped(c) == IF c < 0 THEN 0 ELSE IF c > 100 THEN 100 ELSE c

\* ClaudeClient.evaluate: an answer that arrives, is JSON (in a fence or after
\* a preamble), has the required fields, each of its type; else None.
Usable(answer) ==
    /\ answer.arrives /\ answer.json
    /\ {"confidence", "approved", "scores"} \subseteq answer.fields
    /\ answer.typed

\* AIService.evaluate: an answer that cannot be used is a rejection.
Decided(answer) ==
    IF ~Usable(answer) THEN Rejected
    ELSE [approved |-> answer.approved /\ Clamped(answer.confidence) >= AiMin,
          confidence |-> Clamped(answer.confidence)]

-----------------------------------------------------------------------------
(* What the strategy offers.                                               *)

\* evaluate_htf: the daily trend, or that of the signal candles without one;
\* the first of A, B and F that is found and enabled.
HtfTrend(m) == IF m.daily = "none" THEN m.signal ELSE m.daily
HtfOffer(m) ==
    LET found == SelectSeq(<<"a", "b", "f">>, LAMBDA t : t \in m.found \cap HtfEnabled)
    IN  IF HtfTrend(m) = "undefined" \/ found = << >> THEN {}
        ELSE {[type |-> Head(found), dir |-> IF HtfTrend(m) = "bullish" THEN "long" ELSE "short"]}

\* Mutant of HtfClear: only a position that is filled is in the way.
HtfClearFilled(p) ==
    /\ book[p] \notin {"active", "manual"} /\ camp[p] = "none"
    /\ Cardinality({q \in BookPairs : camp[q] # "none"}) < MaxCampaigns

\* The checks of _evaluate_htf_pipeline before it looks for a setup.
HtfClear(p) ==
    /\ book[p] = "none" /\ camp[p] = "none"
    /\ Cardinality({q \in BookPairs : camp[q] # "none"}) < MaxCampaigns

\* execute_campaign looks at the campaigns again, not at the positions.
CampaignClear(p) ==
    /\ camp[p] = "none"
    /\ Cardinality({q \in BookPairs : camp[q] # "none"}) < MaxCampaigns

-----------------------------------------------------------------------------
(* The candle's task.                                                      *)

\* Intraday setups, unless a campaign has the pair; execute refuses beside a
\* position, and replaces a pending entry (PositionMonitor.ExecStart).
Intraday(p) ==
    \/ To(p, NoTask) /\ UNCHANGED <<book, resting, heat>>
    \/ /\ camp[p] = "none" /\ book[p] = "none"
       /\ To(p, [pc |-> "order"]) /\ UNCHANGED <<book, resting, heat>>
    \/ /\ camp[p] = "none" /\ book[p] = "pending" /\ size[p] = 0
       /\ To(p, [pc |-> "order"]) /\ book' = [book EXCEPT ![p] = "none"]
       /\ resting' = [resting EXCEPT ![p] = {}] /\ heat' = [heat EXCEPT ![p] = "none"]

IntradayCandle(p) ==
    /\ Up /\ task[p] = NoTask /\ candles < MaxBookCandles /\ candles' = candles + 1
    /\ Intraday(p) /\ UNCHANGED <<camp, size, stops, row, sync, downs>>

\* A candle of HTF_CAMPAIGN_SIGNAL_TF.
SignalCandle(p) ==
    /\ Up /\ task[p] = NoTask /\ candles < MaxBookCandles /\ candles' = candles + 1
    /\ \/ /\ HtfClear(p)
          /\ \E m \in BookMarkets : \E s \in HtfOffer(m) :
               IF PreFiltered(s.type, s.dir, m) THEN Intraday(p)
               ELSE To(p, [pc |-> "claude"]) /\ UNCHANGED <<book, resting, heat>>
       \/ (~HtfClear(p) \/ \E m \in BookMarkets : HtfOffer(m) = {}) /\ Intraday(p)
    /\ UNCHANGED <<camp, size, stops, row, sync, downs>>

\* Claude's answer for a campaign; the Risk Service may refuse it.
HtfAnswered(p) ==
    /\ task[p].pc = "claude"
    /\ \E answer \in Answers, risk \in BOOLEAN :
         IF Decided(answer).approved /\ risk /\ CampaignClear(p)
         THEN To(p, [pc |-> "campaign"]) /\ UNCHANGED <<book, resting, heat>>
         ELSE Intraday(p)
    /\ UNCHANGED <<camp, size, stops, row>> /\ Still

\* The campaign's entry order: on_trade_opened is told neither size nor stop.
CampaignPlaced(p) ==
    /\ task[p].pc = "campaign"
    /\ \/ /\ camp' = [camp EXCEPT ![p] = "pending"] /\ To(p, NoTask)
          /\ resting' = [resting EXCEPT ![p] = @ \cup {"campaign"}]
          /\ heat' = [heat EXCEPT ![p] = "unseen"] /\ UNCHANGED book
       \/ Intraday(p) /\ UNCHANGED camp
    /\ UNCHANGED <<size, stops, row>> /\ Still

\* execute: one entry or two halves, of which the second may be refused.
EntryPlaced(p) ==
    /\ task[p].pc = "order" /\ To(p, NoTask)
    /\ \/ /\ \E es \in {{"whole"}} \cup (IF SplitSize >= UnitSize THEN {{"first"}, {"first", "second"}} ELSE {}) :
               resting' = [resting EXCEPT ![p] = @ \cup es]
          /\ book' = [book EXCEPT ![p] = "pending"] /\ heat' = [heat EXCEPT ![p] = "full"]
          /\ row' = [row EXCEPT ![p] = "none"]
       \/ UNCHANGED <<resting, book, heat, row>>
    /\ UNCHANGED <<camp, size, stops>> /\ Still

-----------------------------------------------------------------------------
(* The exchange, and the monitors that follow it.                          *)

Fill(p) ==
    /\ \E o \in resting[p] :
         /\ resting' = [resting EXCEPT ![p] = @ \ {o}]
         /\ size' = [size EXCEPT ![p] = @ + (IF o \in {"first", "second"} THEN 1 ELSE 2)]
         /\ stops' = [stops EXCEPT ![p] = @ \cup {"below"}]
    /\ UNCHANGED <<task, book, camp, heat, row>> /\ Still

\* A poll finds the entry filled; the rest of a split entry stays or is cancelled.
Noticed(p) ==
    /\ Up /\ size[p] > 0
    /\ \/ /\ book[p] = "pending" /\ book' = [book EXCEPT ![p] = "active"]
          /\ row' = [row EXCEPT ![p] = "open"]
          /\ resting' = [resting EXCEPT ![p] = {}] /\ UNCHANGED camp
       \/ /\ camp[p] = "pending" /\ camp' = [camp EXCEPT ![p] = "active"]
          /\ UNCHANGED <<book, row, resting>>
    /\ UNCHANGED <<task, size, stops, heat>> /\ Still

\* The monitor moves the stop of a winner past the entry.
Trail(p) ==
    /\ Up /\ (book[p] = "active" \/ camp[p] = "active") /\ stops[p] = {"below"}
    /\ stops' = [stops EXCEPT ![p] = {"above"}]
    /\ UNCHANGED <<task, book, camp, resting, size, heat, row>> /\ Still

\* The position ends: at its stop, by hand, or by the monitor.
End(p) ==
    /\ size[p] > 0 /\ size' = [size EXCEPT ![p] = 0] /\ stops' = [stops EXCEPT ![p] = {}]
    /\ UNCHANGED <<task, book, camp, resting, heat, row>> /\ Still

\* A poll finds it gone.
CloseNoticed(p) ==
    /\ Up /\ size[p] = 0
    /\ \/ /\ book[p] \in {"active", "manual"} /\ book' = [book EXCEPT ![p] = "none"]
          /\ row' = [row EXCEPT ![p] = IF @ = "open" THEN "closed" ELSE @]
          /\ UNCHANGED <<camp, resting>>
       \/ /\ camp[p] = "active" /\ camp' = [camp EXCEPT ![p] = "none"]
          /\ UNCHANGED <<book, row, resting>>
    /\ heat' = [heat EXCEPT ![p] = "none"]
    /\ UNCHANGED <<task, size, stops>> /\ Still

\* A pending entry times out.
Expired(p) ==
    /\ Up /\ size[p] = 0
    /\ \/ /\ book[p] = "pending" /\ book' = [book EXCEPT ![p] = "none"] /\ UNCHANGED camp
       \/ /\ camp[p] = "pending" /\ camp' = [camp EXCEPT ![p] = "none"] /\ UNCHANGED book
    /\ resting' = [resting EXCEPT ![p] = {}] /\ heat' = [heat EXCEPT ![p] = "none"]
    /\ UNCHANGED <<task, size, stops, row>> /\ Still

-----------------------------------------------------------------------------
(* Restarts.                                                               *)

\* The process ends, at any point, and what it held in memory with it.
Crash ==
    /\ Up /\ downs < MaxDowns /\ downs' = downs + 1
    /\ task' = [p \in BookPairs |-> [pc |-> "down"]]
    /\ book' = [p \in BookPairs |-> "none"] /\ camp' = [p \in BookPairs |-> "none"]
    /\ heat' = [p \in BookPairs |-> "none"] /\ sync' = BookPairs
    /\ UNCHANGED <<venue, row, candles>>

\* _extract_adopted_sl: the nearest trigger on the losing side, else a guess.
AdoptedStop(p) == IF "below" \in stops[p] THEN "stop" ELSE "guess"

\* One pair of sync_exchange_positions; the call may fail.
Adopt(p) ==
    /\ p \in sync /\ sync' = sync \ {p}
    /\ \/ /\ size[p] > 0 /\ book' = [book EXCEPT ![p] = "manual"]
          /\ \E found \in {AdoptedStop(p), "guess"} : heat' = [heat EXCEPT ![p] = found]
       \/ UNCHANGED <<book, heat>>
    /\ UNCHANGED <<task, camp, venue, row, candles, downs>>

\* _reconcile_orphaned_trades, then the monitors and the feeds start.
Reconcile ==
    /\ sync = {} /\ \E p \in BookPairs : task[p].pc = "down"
    /\ row' = [p \in BookPairs |-> IF row[p] = "open" /\ book[p] = "none" THEN "orphaned" ELSE row[p]]
    /\ task' = [p \in BookPairs |-> NoTask]
    /\ UNCHANGED <<book, camp, venue, heat, sync, candles, downs>>

BooksNext ==
    \/ \E p \in BookPairs :
         \/ IntradayCandle(p) \/ SignalCandle(p) \/ HtfAnswered(p) \/ CampaignPlaced(p) \/ EntryPlaced(p)
         \/ Fill(p) \/ Noticed(p) \/ Trail(p) \/ End(p) \/ CloseNoticed(p) \/ Expired(p) \/ Adopt(p)
    \/ Crash \/ Reconcile
BooksSpec == BooksInit /\ [][BooksNext]_bookVars

-----------------------------------------------------------------------------
\* The exchange has one position per pair, so a pair is never in both books,
\* although neither book asks the other when its order is sent: what was
\* checked before Claude's answer still holds after it, and a campaign that a
\* restart forgot comes back only as an adopted position.
BooksApart == \A p \in BookPairs : camp[p] # "none" => book[p] = "none"

\* HTF_MAX_CAMPAIGNS, "Max concurrent campaigns" (config/settings.py).
CampaignCap == Cardinality({p \in BookPairs : camp[p] # "none"}) <= MaxCampaigns

\* "No position on exchange -> orphaned trade" (execution_service/service.py):
\* a row is written off only when its position is gone.
OrphansAreGone == \A p \in BookPairs : Up => (row[p] = "orphaned" => size[p] = 0)
=============================================================================
