---------------------------- MODULE ManualTrades ----------------------------
(***************************************************************************)
(* The manual trade journal of the dashboard                               *)
(* (dashboard/api/manual/trade_manager.py behind routes/manual_routes.py): *)
(* trades, their partial closes and the balance of a pair, written by      *)
(* concurrent requests.                                                    *)
(*                                                                         *)
(* Every database call of a handler is a step; between two of them other   *)
(* requests run, and the handler may stop: the pool commits each call on   *)
(* its own, so a call that fails or a process that ends leaves what was    *)
(* done before it.  One trade of one pair, long, of size 100: a price move *)
(* of one is a profit of one.                                              *)
(***************************************************************************)
EXTENDS Integers, Sequences, FiniteSets, SequencesExt

CONSTANTS
    Requests,       \* requests that may be in flight
    Moves,          \* close price less entry
    Shares,         \* percentages of a partial close
    Start,          \* the balance before
    MaxRequests,    \* bound: requests served
    MaxAborts       \* bound: requests that do not run to their end

Idle == [op |-> "idle", pc |-> "done"]

VARIABLES
    trade,      \* the row: status and pnl ("none", "gone": no row)
    partials,   \* manual_partial_closes: share and pnl
    balance,    \* manual_balances
    req,        \* the handler of each request
    served,
    aborts      \* requests that did not run to their end so far

manualVars == <<trade, partials, balance, req, served, aborts>>

ManualInit ==
    /\ trade = [status |-> "none", pnl |-> 0]
    /\ partials = << >> /\ balance = Start
    /\ req = [r \in Requests |-> Idle] /\ served = 0 /\ aborts = 0

Exists == trade.status \notin {"none", "gone"}

Percent(share, move) == (share * move) \div 100
Pnls   == FoldSeq(LAMBDA p, sum : sum + p.pnl, 0, partials)
ClosedShare ==
    LET sum[k \in 0..Len(partials)] == IF k = 0 THEN 0 ELSE sum[k - 1] + partials[k].share
    IN  sum[Len(partials)]

Starts(r, op) ==
    /\ req[r] = Idle /\ served < MaxRequests
    /\ served' = served + 1 /\ req' = [req EXCEPT ![r] = op]

Continues(r, at) == req' = [req EXCEPT ![r].pc = at] /\ UNCHANGED served
Ends(r)          == req' = [req EXCEPT ![r] = Idle] /\ UNCHANGED served
At(r, op, pc)    == req[r].op = op /\ req[r].pc = pc

-----------------------------------------------------------------------------
(* Single calls.                                                           *)

\* create_trade.
Create(r) ==
    /\ req[r] = Idle /\ trade.status = "none" /\ served < MaxRequests
    /\ trade' = [status |-> "planned", pnl |-> 0]
    /\ served' = served + 1 /\ UNCHANGED <<partials, balance, req>>

\* set_balance.
SetBalance(r) ==
    /\ req[r] = Idle /\ served < MaxRequests
    /\ balance' = Start /\ served' = served + 1 /\ UNCHANGED <<trade, partials, req>>

-----------------------------------------------------------------------------
(* _update_balance: a read and a write.                                    *)

ReadBalance(r, op) ==
    /\ At(r, op, "balance")
    /\ req' = [req EXCEPT ![r].pc = "write", ![r].seen = balance]
    /\ UNCHANGED <<trade, partials, balance, served>>

WriteBalance(r, op, next) ==
    /\ At(r, op, "write")
    /\ balance' = req[r].seen + req[r].pnl
    /\ Continues(r, next) /\ UNCHANGED <<trade, partials>>

AfterPnl(pnl, next) == IF pnl = 0 THEN next ELSE "balance"

-----------------------------------------------------------------------------
(* update_trade: a change of the status; closing books the profit of the   *)
(* whole position.                                                         *)

Update(r) ==
    /\ Exists
    /\ \E status \in {"active", "closed"}, move \in Moves :
         LET pnl == IF status = "closed" THEN move ELSE 0
         IN  Starts(r, [op |-> "update", pc |-> AfterPnl(pnl, "row"),
                        status |-> status, pnl |-> pnl, seen |-> 0])
    /\ UNCHANGED <<trade, partials, balance>>

UpdateRow(r) ==
    /\ At(r, "update", "row")
    /\ trade' = IF ~Exists THEN trade
                ELSE [status |-> req[r].status,
                      pnl |-> IF req[r].status = "closed" THEN req[r].pnl ELSE trade.pnl]
    /\ Ends(r) /\ UNCHANGED <<partials, balance>>

-----------------------------------------------------------------------------
(* partial_close.                                                          *)

PartialClose(r) ==
    /\ trade.status = "active"
    /\ \E share \in Shares, move \in Moves :
         Starts(r, [op |-> "partial", pc |-> "insert", share |-> share,
                    pnl |-> Percent(share, move), seen |-> 0, total |-> 0, sum |-> 0])
    /\ UNCHANGED <<trade, partials, balance>>

\* The foreign key refuses a partial close of a deleted trade.
InsertPartial(r) ==
    /\ At(r, "partial", "insert")
    /\ IF ~Exists THEN Ends(r) /\ UNCHANGED partials
       ELSE /\ partials' = Append(partials, [share |-> req[r].share, pnl |-> req[r].pnl])
            /\ Continues(r, AfterPnl(req[r].pnl, "total"))
    /\ UNCHANGED <<trade, balance>>

ReadTotal(r) ==
    /\ At(r, "partial", "total")
    /\ IF ClosedShare >= 100 THEN Continues(r, "sum") ELSE Ends(r)
    /\ UNCHANGED <<trade, partials, balance>>

ReadSum(r) ==
    /\ At(r, "partial", "sum")
    /\ req' = [req EXCEPT ![r].pc = "close", ![r].sum = Pnls]
    /\ UNCHANGED <<trade, partials, balance, served>>

CloseTrade(r) ==
    /\ At(r, "partial", "close")
    /\ trade' = IF ~Exists THEN trade ELSE [status |-> "closed", pnl |-> req[r].sum]
    /\ Ends(r) /\ UNCHANGED <<partials, balance>>

-----------------------------------------------------------------------------
(* delete_trade: the partial closes, then the row with those that came in  *)
(* between (ON DELETE CASCADE, schema.sql).                                *)

Delete(r) ==
    /\ Exists
    /\ Starts(r, [op |-> "delete", pc |-> "row"])
    /\ partials' = << >> /\ UNCHANGED <<trade, balance>>

DeleteRow(r) ==
    /\ At(r, "delete", "row")
    /\ trade' = [status |-> "gone", pnl |-> 0] /\ partials' = << >>
    /\ Ends(r) /\ UNCHANGED balance

-----------------------------------------------------------------------------
\* A handler stops between two of its calls: the next one fails, or the last
\* was committed and its answer lost; or the process ends, which is this for
\* every request in flight.  Nothing is rolled back.
Abort(r) ==
    /\ req[r] # Idle /\ aborts < MaxAborts /\ aborts' = aborts + 1
    /\ Ends(r) /\ UNCHANGED <<trade, partials, balance>>

HandlerStep ==
    \E r \in Requests :
       \/ Create(r) \/ SetBalance(r) \/ Update(r) \/ UpdateRow(r) \/ PartialClose(r)
       \/ InsertPartial(r) \/ ReadTotal(r) \/ ReadSum(r) \/ CloseTrade(r)
       \/ \E op \in {"update", "partial"} : ReadBalance(r, op)
       \/ WriteBalance(r, "update", "row") \/ WriteBalance(r, "partial", "total")
       \/ Delete(r) \/ DeleteRow(r)

ManualNext == (HandlerStep /\ UNCHANGED aborts) \/ \E r \in Requests : Abort(r)

ManualSpec == ManualInit /\ [][ManualNext]_manualVars

-----------------------------------------------------------------------------
Quiet == \A r \in Requests : req[r] = Idle

\* An active trade whose partial closes add up to all of it, with none of them
\* under way.
Settling == \E r \in Requests : req[r].op = "partial" /\ req[r].pc # "insert"
Stranded == trade.status = "active" /\ ClosedShare >= 100 /\ ~Settling

\* However requests interleave, it takes one that sets the status or one that
\* stops on its way to leave a trade open that has been closed in parts: the
\* partial close that runs to its end closes it, also one that a stopped one
\* had left open before.
AllClosedIsClosed ==
    [][(~Stranded /\ Stranded')
         => aborts' # aborts \/ \E r \in Requests : req[r].op = "update"]_manualVars

\* "Auto-updates trade status if total closed >= 100%": at rest, no trade is
\* open of which all is closed and that was never booked.  Fails when a partial
\* close stops between its INSERT and its UPDATE.
NoneForgotten == (Stranded /\ Quiet) => trade.pnl # 0

\* The balance is what the booked profits made of it ("Auto-updates pair
\* balance with PnL", trade_manager.py).
BalanceCounts == (Quiet /\ served > 0 /\ trade.status = "closed" /\ partials = << >>)
                    => balance \in {Start, Start + trade.pnl}
=============================================================================
