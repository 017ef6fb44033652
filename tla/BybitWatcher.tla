---------------------------- MODULE BybitWatcher ----------------------------
(***************************************************************************)
(* The journal daemon of the manual account (data_service/bybit_watcher.py)*)
(* and its tables: it polls positions and orders of the exchange, diffs    *)
(* them with what it saw last, and keeps one row per pending order and one *)
(* annotation per position.  A restart rebuilds its memory from the rows;  *)
(* when they cannot be read it goes on with what it has.                   *)
(*                                                                         *)
(* One symbol and side.  Any failing statement ends the process, which is  *)
(* the crash here; the trades of the account are numbered.                 *)
(***************************************************************************)
EXTENDS Integers, Sequences, FiniteSets

CONSTANTS
    Orders,         \* the orders the user may place, numbered in that order
    MaxTrades,      \* bound: positions opened
    MaxWrites,      \* bound: theses written and deadlines passed
    MaxWatchFaults  \* bound: crashes and failing calls

VARIABLES
    order,      \* exchange: "none", "live", "filled" or "cancelled"
    position,   \* exchange: the number of the open trade, 0 when flat
    trades,     \* exchange: trades so far
    lastPend,   \* _last_pending
    lastPos,    \* whether _last_state has the position
    tick,       \* where tick() is: [pc, pend, pos, todo]
    rows,       \* bybit_pending_orders.status
    thesis,     \* orders whose row has a thesis_pre
    stamped,    \* orders with enforcement_cancelled_at
    late,       \* orders past the journal deadline
    linkOf,     \* annotation_id (0: NULL)
    notes,      \* bybit_trade_annotations: [open, thesis]
    blind,      \* ghost: how many starts missed an open annotation
    sighted,    \* ghost: the last start missed neither a pending order nor that
    watchFaults

watchVars == <<order, position, trades, lastPend, lastPos, tick, rows, thesis, stamped, late,
               linkOf, notes, blind, sighted, watchFaults>>
exchange == <<order, position, trades>>
journal == <<rows, thesis, stamped, late, linkOf, notes>>
memory == <<lastPend, lastPos, blind, sighted>>     \* and what is known of its start

Idle == [pc |-> "idle", pend |-> {}, pos |-> FALSE, todo |-> {}]
Down == [Idle EXCEPT !.pc = "down"]

WatchInit ==
    /\ order = [o \in Orders |-> "none"] /\ position = 0 /\ trades = 0
    /\ lastPend = {} /\ lastPos = FALSE /\ tick = Down
    /\ rows = [o \in Orders |-> "none"] /\ thesis = {} /\ stamped = {} /\ late = {}
    /\ linkOf = [o \in Orders |-> 0] /\ notes = <<>> /\ watchFaults = 0
    /\ blind = 0 /\ sighted = TRUE

WatchFault == watchFaults < MaxWatchFaults /\ watchFaults' = watchFaults + 1
Fine == UNCHANGED watchFaults
LiveOrders == {o \in Orders : order[o] = "live"}

-----------------------------------------------------------------------------
(* The account and the dashboard.                                          *)

Places == \E o \in Orders :
    /\ \A q \in Orders : q < o => order[q] # "none"
    /\ order[o] = "none" /\ order' = [order EXCEPT ![o] = "live"]
    /\ UNCHANGED <<position, trades, tick, memory, journal>> /\ Fine

\* A fill opens the position or adds to it.
Fills == \E o \in LiveOrders :
    /\ position # 0 \/ trades < MaxTrades
    /\ order' = [order EXCEPT ![o] = "filled"]
    /\ trades' = IF position = 0 THEN trades + 1 ELSE trades
    /\ position' = IF position = 0 THEN trades + 1 ELSE position
    /\ UNCHANGED <<tick, memory, journal>> /\ Fine

UserCancels == \E o \in LiveOrders :
    /\ order' = [order EXCEPT ![o] = "cancelled"]
    /\ UNCHANGED <<position, trades, tick, memory, journal>> /\ Fine

Exits ==
    /\ position # 0 /\ position' = 0
    /\ UNCHANGED <<order, trades, tick, memory, journal>> /\ Fine

\* The thesis is written in the row's form, or the deadline passes (it matters
\* while the order is pending).
Writes == \E o \in Orders :
    /\ rows[o] # "none" /\ Cardinality(thesis) + Cardinality(late) < MaxWrites
    /\ \/ o \notin thesis /\ thesis' = thesis \cup {o} /\ UNCHANGED late
       \/ o \notin late /\ rows[o] = "pending" /\ late' = late \cup {o} /\ UNCHANGED thesis
    /\ UNCHANGED <<rows, stamped, linkOf, notes, exchange, tick, memory>> /\ Fine

-----------------------------------------------------------------------------
(* The process.                                                            *)

\* A failing statement of the diffs is not caught.
Crash ==
    /\ tick.pc # "down" /\ WatchFault
    /\ tick' = Down /\ lastPend' = {} /\ lastPos' = FALSE
    /\ UNCHANGED <<exchange, journal, blind, sighted>>

OpenNotes == {i \in DOMAIN notes : notes[i].open}

PendingRows == {o \in Orders : rows[o] = "pending"}

\* Mutants of Hydrated: the positions, or the pending orders, are never asked
\* for.
HydratedOrders == /\ lastPend' = PendingRows /\ lastPos' = FALSE
                  /\ UNCHANGED <<blind, sighted>>
HydratedPositions == /\ lastPend' = {} /\ lastPos' = (OpenNotes # {})
                     /\ UNCHANGED <<blind, sighted>>

\* __init__: the memory is rebuilt from the rows, the orders first; what a load
\* that fails has not read stays empty, and the process goes on.
Hydrated ==
    /\ \/ lastPend' = PendingRows /\ lastPos' = (OpenNotes # {})
       \/ lastPend' \in {PendingRows, {}} /\ lastPos' = FALSE
    /\ sighted' = (lastPend' = PendingRows /\ lastPos' = (OpenNotes # {}))
    /\ blind' = IF lastPos' = (OpenNotes # {}) THEN blind ELSE blind + 1

Start ==
    /\ tick.pc = "down" /\ tick' = Idle /\ Hydrated
    /\ UNCHANGED <<exchange, journal>> /\ Fine

-----------------------------------------------------------------------------
(* One tick.                                                               *)

AtStep(pc) == tick.pc = pc

FetchPositions ==
    /\ AtStep("idle") /\ tick' = [tick EXCEPT !.pc = "orders", !.pos = (position # 0)]
    /\ UNCHANGED <<exchange, memory, journal>> /\ Fine

\* The orders come from two calls; one that fails leaves its orders out.
FetchOrders ==
    /\ AtStep("orders")
    /\ \E seen \in SUBSET LiveOrders :
          /\ IF seen = LiveOrders THEN Fine ELSE WatchFault
          /\ tick' = [tick EXCEPT !.pc = "enforce", !.pend = seen,
                        !.todo = {o \in late \ (thesis \cup stamped) : rows[o] = "pending" /\ o \in seen}]
    /\ UNCHANGED <<exchange, memory, journal>>

\* Rule 6: an order without a thesis past its deadline is cancelled, then
\* stamped.  A failed cancel leaves it for the next tick.
Enforce == \E o \in tick.todo :
    /\ AtStep("enforce")
    /\ tick' = [tick EXCEPT !.todo = @ \ {o}]
    /\ \/ /\ order[o] = "live" /\ Fine
          /\ order' = [order EXCEPT ![o] = "cancelled"]
          /\ stamped' = stamped \cup {o}
       \/ /\ IF order[o] = "live" THEN WatchFault ELSE Fine
          /\ UNCHANGED <<order, stamped>>
    /\ UNCHANGED <<position, trades, memory, rows, thesis, late, linkOf, notes>>

EnforceEnds ==
    /\ AtStep("enforce") /\ tick.todo = {}
    /\ tick' = [tick EXCEPT !.pc = "new", !.todo = tick.pend \ lastPend]
    /\ UNCHANGED <<exchange, memory, journal>> /\ Fine

\* A row that exists already keeps its status.
NewOrder == \E o \in tick.todo :
    /\ AtStep("new")
    /\ rows' = [rows EXCEPT ![o] = IF @ = "none" THEN "pending" ELSE @]
    /\ tick' = [tick EXCEPT !.todo = @ \ {o}]
    /\ UNCHANGED <<exchange, memory, thesis, stamped, late, linkOf, notes>> /\ Fine

NewEnds ==
    /\ AtStep("new") /\ tick.todo = {}
    /\ tick' = [tick EXCEPT !.pc = "gone", !.todo = lastPend \ tick.pend]
    /\ UNCHANGED <<exchange, memory, journal>> /\ Fine

PositionOpened == tick.pos /\ ~lastPos

\* Filled when a position opened in this tick, else what the order history
\* says; a failed lookup says cancelled.
Terminals(o) ==
    IF PositionOpened THEN {"filled"}
    ELSE IF order[o] = "filled" THEN {"filled"} ELSE {"cancelled"}

GoneOrder == \E o \in tick.todo :
    /\ AtStep("gone")
    /\ \E terminal \in Terminals(o) \cup {"cancelled"} :
          /\ IF terminal \in Terminals(o) THEN Fine ELSE WatchFault /\ ~PositionOpened
          /\ rows' = [rows EXCEPT ![o] = IF @ = "pending" THEN terminal ELSE @]
    /\ tick' = [tick EXCEPT !.todo = @ \ {o}]
    /\ UNCHANGED <<exchange, memory, thesis, stamped, late, linkOf, notes>>

GoneEnds ==
    /\ AtStep("gone") /\ tick.todo = {}
    /\ tick' = [tick EXCEPT !.pc = IF PositionOpened THEN "insert"
                                   ELSE IF lastPos /\ ~tick.pos THEN "close" ELSE "end"]
    /\ UNCHANGED <<exchange, memory, journal>> /\ Fine

InsertNote ==
    /\ AtStep("insert") /\ tick' = [tick EXCEPT !.pc = "link"]
    /\ notes' = Append(notes, [open |-> TRUE, thesis |-> FALSE])
    /\ UNCHANGED <<exchange, memory, rows, thesis, stamped, late, linkOf>> /\ Fine

\* The thesis of a filled order that is not linked yet, if one matches in
\* quantity and price.
LinkNote ==
    /\ AtStep("link") /\ tick' = [tick EXCEPT !.pc = "end"]
    /\ \/ \E o \in Orders :
            /\ rows[o] = "filled" /\ linkOf[o] = 0
            /\ linkOf' = [linkOf EXCEPT ![o] = Len(notes)]
            /\ notes' = [notes EXCEPT ![Len(notes)].thesis = o \in thesis]
       \/ UNCHANGED <<linkOf, notes>>
    /\ UNCHANGED <<exchange, memory, rows, thesis, stamped, late>> /\ Fine

\* The newest open annotation is closed.
CloseNote ==
    /\ AtStep("close") /\ tick' = [tick EXCEPT !.pc = "end"]
    /\ notes' = [i \in DOMAIN notes |->
                    IF i \in OpenNotes /\ \A j \in OpenNotes : j <= i
                    THEN [notes[i] EXCEPT !.open = FALSE] ELSE notes[i]]
    /\ UNCHANGED <<exchange, memory, rows, thesis, stamped, late, linkOf>> /\ Fine

TickEnds ==
    /\ AtStep("end") /\ tick' = Idle
    /\ lastPend' = tick.pend /\ lastPos' = tick.pos
    /\ UNCHANGED <<exchange, journal, blind, sighted>> /\ Fine

Tick == \/ FetchPositions \/ FetchOrders \/ Enforce \/ EnforceEnds \/ NewOrder \/ NewEnds
        \/ GoneOrder \/ GoneEnds \/ InsertNote \/ LinkNote \/ CloseNote \/ TickEnds

WatchNext == Places \/ Fills \/ UserCancels \/ Exits \/ Writes \/ Crash \/ Start \/ Tick

WatchSpec == WatchInit /\ [][WatchNext]_watchVars

-----------------------------------------------------------------------------
(* Properties.                                                             *)

\* At most one annotation is open beside those that a start missed: a crash at
\* any point of a tick, and a start that reads the rows, repeats no insert, and
\* each start that cannot read them leaves one annotation behind at most
\* (bybit_watcher.py:126-136, :935-977).
NotesBounded == Cardinality(OpenNotes) <= 1 + blind

\* "Hydrate in-memory state from DB so restarts don't silence the diff"
\* (bybit_watcher.py:122): a restart repeats no insert.  Fails after a load that
\* fails, which is only logged.
OneOpenNote == Cardinality(OpenNotes) <= 1

LastOpen == notes # <<>> /\ notes[Len(notes)].open

\* The journal catches up, unless a start is blind: the row of an order that is
\* gone gets its end, and the annotation of the last trade is closed once its
\* position stays closed.
JournalCatchesUp ==
    /\ \A o \in Orders :
          (rows[o] = "pending" /\ order[o] \in {"filled", "cancelled"} /\ sighted)
              ~> (rows[o] # "pending" \/ ~sighted)
    /\ (LastOpen /\ sighted) ~> (~LastOpen \/ position # 0 \/ ~sighted)

\* An order that is filled is not left to look cancelled, nor the reverse.
StatusTrue == \A o \in Orders : rows[o] \in {"filled", "cancelled"} => rows[o] = order[o]

\* "cancel pending limit orders that have no thesis_pre": an order with a
\* thesis is spared.
ThesisSpares == [][\A o \in Orders : o \in stamped' \ stamped => o \notin thesis]_watchVars
=============================================================================
