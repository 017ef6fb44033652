-------------------------- MODULE PositionMonitor --------------------------
(***************************************************************************)
(* The life of the positions of one trading pair                           *)
(* (execution_service/monitor.py, execution_service/service.py).           *)
(*                                                                         *)
(* Four coroutines share the positions: the monitor's poll loop, the task  *)
(* that a dashboard cancel starts, ExecutionService.execute (one at a time *)
(* per pair: websocket_feeds.py:386) and the Telegram panic button.  A     *)
(* coroutine runs without interruption from one await to the next; every   *)
(* await of a call to the exchange is a request (Ask), the exchange        *)
(* answers it at some later moment (Serve), and the coroutine goes on from *)
(* there, with the positions as they are by then.                          *)
(*                                                                         *)
(* Prices are reduced to the level a stop-loss sits at: 0 is the original, *)
(* 1 the entry price (breakeven), 2 the first target (trailing).  Sizes    *)
(* are numbers of entries held.  Waiting (asyncio.sleep) is part of the    *)
(* call that follows it.  Not here: split entries, the progressive trail   *)
(* (off by default) and PnL, which RiskRestart has.                        *)
(***************************************************************************)
EXTENDS Integers, Sequences, FiniteSets

CONSTANTS
    MaxObjs,        \* bound: positions registered
    SlAttempts,     \* attempts at placing the stop-loss (3)
    VanishLimit,    \* polls without an answer about it (12)
    MaxRetries,     \* emergency retries before giving up (5)
    MaxCancels,     \* bound: dashboard cancels
    MaxPanics,      \* bound: uses of the panic button
    Faults,         \* what may go wrong outside, a subset of FaultKinds
    MaxFaults,      \* bound: how often
    Expiry          \* whether positions may stay long enough to time out

\* api: a call raises, with or without its effect; of the entry order, without
\* it.  entry: the entry order is placed and its answer lost.  silent: a
\* stop-loss is accepted and then does not exist.  attach: an entry fills
\* without its attached orders.  user: the user cancels a stop-loss or closes
\* the position.  partial: an entry fills in part.
FaultKinds == {"api", "entry", "silent", "attach", "user", "partial"}

Objs  == 1..MaxObjs
Tasks == {"poll", "cancel", "exec", "panic"}

ASSUME BoundsAssumption ==
    /\ MaxObjs \in Nat \ {0}
    /\ {SlAttempts, VanishLimit, MaxRetries, MaxCancels, MaxPanics, MaxFaults}
          \subseteq Nat
ASSUME FaultsAssumption == Faults \subseteq FaultKinds /\ Expiry \in BOOLEAN

VARIABLES
    task,       \* per coroutine: where it is, its call and the answer
    obj,        \* the ManagedPosition objects
    tracked,    \* monitor._positions[pair]: an object, or 0
    rows,       \* per object: its row in the Risk Service, or "none"
    orders,     \* on the exchange: the orders of this pair
    size,       \* on the exchange: entries held
    used        \* bounds: faults, cancels and panics so far

bot  == <<task, obj, tracked, rows>>
okx  == <<orders, size>>
vars == <<task, obj, tracked, rows, orders, size, used>>

Idle == [pc |-> "idle", o |-> 0, call |-> "none", arg |-> 0, res |-> "none",
         got |-> 0, slFound |-> FALSE, tpFound |-> FALSE, n |-> 0, new |-> 0,
         todo |-> <<>>, why |-> "none"]
NoObj == [phase |-> "new", entry |-> 0, sl |-> 0, tp |-> 0, level |-> 0,
          filled |-> FALSE, due |-> FALSE, be |-> FALSE, tr |-> FALSE,
          retries |-> 0, fails |-> 0, reason |-> "none", closes |-> 0]

\* Nothing is known, or startup adopted a position without orders of its own
\* (sync_exchange_positions).
Init ==
    /\ task = [t \in Tasks |-> Idle]
    /\ orders = <<>>
    /\ used = [faults |-> 0, cancels |-> 0, panics |-> 0]
    /\ \/ /\ obj = [o \in Objs |-> NoObj]
          /\ tracked = 0
          /\ rows = [o \in Objs |-> "none"]
          /\ size = 0
       \/ /\ obj = [[o \in Objs |-> NoObj] EXCEPT ![1].phase = "active",
                                                  ![1].filled = TRUE]
          /\ tracked = 1
          /\ rows = [[o \in Objs |-> "none"] EXCEPT ![1] = "active"]
          /\ size = 1

-----------------------------------------------------------------------------
(* The exchange.                                                           *)

Fault(kind) == /\ kind \in Faults /\ used.faults < MaxFaults
               /\ used' = [used EXCEPT !.faults = @ + 1]
NoFault == UNCHANGED used

IsLive(os, i) == os[i].st \in {"live", "part"}
LiveOf(kind)  == {i \in 1..Len(orders) : orders[i].kind = kind /\ IsLive(orders, i)}
With(os, kind, level, st) == Append(os, [kind |-> kind, level |-> level, st |-> st])
Reduced == IF size > 0 THEN size - 1 ELSE 0

\* The status fetch_order reports; a cancelled entry that filled in part is
\* handled as a filled one (monitor.py:273).
Status(st) == CASE st \in {"live", "part"}      -> "open"
                [] st \in {"filled", "partcan"} -> "filled"
                [] st = "canceled"              -> "canceled"
                [] st = "lost"                  -> "none"

Answer(os, sz, res, got) == [orders |-> os, size |-> sz, res |-> res, got |-> got]
Says(res, got) == Answer(orders, size, res, got)
NewOrder(kind, level) ==
    Answer(With(orders, kind, level, "live"), size, "ok", Len(orders) + 1)

\* What a call does and answers when nothing goes wrong.
Answers(call, arg) ==
    CASE call = "fetch"  -> {Says(Status(orders[arg].st), 0)}
      [] call = "cancel" ->
           {IF IsLive(orders, arg)
            THEN Answer([orders EXCEPT ![arg].st =
                            IF @ = "part" THEN "partcan" ELSE "canceled"],
                        size, "ok", 0)
            ELSE Says("no", 0)}
      [] call = "stop"   -> {NewOrder("sl", arg)}
      [] call = "tp"     -> {NewOrder("tp", 0)}
      [] call = "entry"  -> {NewOrder("entry", 0)}
      [] call = "market" -> {IF size > 0 THEN Answer(orders, Reduced, "ok", 0)
                             ELSE Says("no", 0)}         \* reduceOnly
      [] call = "market_dir" -> {Says("no", 0)}          \* side "long"
      [] call = "position" -> {Says(IF size > 0 THEN "open" ELSE "flat", 0)}
      [] call = "ticker" -> {Says(p, 0) : p \in {"low", "tp1", "mid"}}
      [] call = "has_sl" -> {Says(IF arg \in LiveOf("sl") THEN "ok" ELSE "no", 0)}
      [] call = "find_sl" ->
           LET s == {i \in LiveOf("sl") : orders[i].level = 0}
           IN  IF s = {} THEN {Says("no", 0)} ELSE {Says("ok", i) : i \in s}
      [] call = "find_tp" ->
           IF LiveOf("tp") = {} THEN {Says("no", 0)}
           ELSE {Says("ok", i) : i \in LiveOf("tp")}

\* The exchange serves the call coroutine t awaits.
Serve(t) ==
    /\ task[t].res = "wait"
    /\ \E a \in Answers(task[t].call, task[t].arg) :
         LET Reply(os, sz, res, got) ==
                 /\ orders' = os /\ size' = sz
                 /\ task' = [task EXCEPT ![t].res = res, ![t].got = got]
         IN  \/ NoFault /\ Reply(a.orders, a.size, a.res, a.got)
             \/ Fault("api") /\ Reply(orders, size, "none", 0)
             \/ /\ Fault(IF task[t].call = "entry" THEN "entry" ELSE "api")
                /\ Reply(a.orders, a.size, "none", 0)
             \/ /\ Fault("silent") /\ task[t].call = "stop"
                /\ Reply(With(orders, "sl", task[t].arg, "lost"), size, a.res, a.got)
    /\ UNCHANGED <<obj, tracked, rows>>

\* An entry fills, in part or completely, and its attached orders appear.
EntryFills(i) ==
    /\ orders[i].kind = "entry" /\ IsLive(orders, i)
    /\ LET first  == orders[i].st = "live"
           After(st, attached) ==
               LET os == [orders EXCEPT ![i].st = st]
               IN  orders' = IF first /\ attached
                             THEN With(With(os, "sl", 0, "live"), "tp", 0, "live")
                             ELSE os
       IN  /\ size' = IF first THEN size + 1 ELSE size
           /\ \/ NoFault /\ After("filled", TRUE)
              \/ Fault("attach") /\ first /\ After("filled", FALSE)
              \/ Fault("partial") /\ first /\ After("part", TRUE)
    /\ UNCHANGED bot

\* A stop-loss triggers (closing nothing is a no-op: monitor.py:1105), or a
\* take-profit fills (reduceOnly: never without a position).
ExitFills(i) ==
    /\ IsLive(orders, i)
    /\ orders[i].kind = "sl" \/ (orders[i].kind = "tp" /\ size > 0)
    /\ orders' = [orders EXCEPT ![i].st = "filled"]
    /\ size' = Reduced
    /\ UNCHANGED bot /\ NoFault

\* The user cancels a stop-loss, or closes the position, on the exchange.
UserActs ==
    /\ Fault("user")
    /\ \/ \E i \in LiveOf("sl") : orders' = [orders EXCEPT ![i].st = "canceled"]
                                  /\ UNCHANGED size
       \/ size > 0 /\ size' = 0 /\ UNCHANGED orders
    /\ UNCHANGED bot

-----------------------------------------------------------------------------
(* Steps of a coroutine t: k are its locals (k.o the object it works on), b *)
(* the new value of that object.                                           *)

At(t, pc) == task[t].pc = pc /\ task[t].res # "wait"
Obj(t)    == obj[task[t].o]
Ok(t)     == task[t].res = "ok"

\* Await the call, to go on from place pc.
AskWith(t, k, b, pc, call, arg) ==
    /\ obj' = [obj EXCEPT ![k.o] = b]
    /\ task' = [task EXCEPT ![t] = [k EXCEPT !.pc = pc, !.call = call, !.arg = arg,
                                             !.res = "wait", !.got = 0]]
    /\ UNCHANGED <<tracked, rows>>
FinishWith(t, k, b) == /\ obj' = [obj EXCEPT ![k.o] = b]
                       /\ task' = [task EXCEPT ![t] = Idle]
Done(t, k, b) == FinishWith(t, k, b) /\ UNCHANGED <<tracked, rows>>

\* Mutants: a cancelled entry counts as a trade; a closed position is not marked.
AsClosedCountsAll(b, why) ==
    [b EXCEPT !.phase = "closed", !.reason = why, !.closes = @ + 1]
AsClosedUnmarked(b, why) == [b EXCEPT !.reason = why, !.closes = @ + 1]

\* _close_position: the object, and what the monitor and the Risk Service
\* forget.  The monitor's entry is popped by pair.
AsClosed(b, why) == [b EXCEPT !.phase = "closed", !.reason = why,
                              !.closes = IF why = "cancelled" THEN @ ELSE @ + 1]
Forget(o) == tracked' = 0 /\ rows' = [rows EXCEPT ![o] = "none"]

\* A failed close leaves the position to the poll loop.
AsEmergency(b, n) == [b EXCEPT !.phase = "emergency", !.retries = n]

\* Leaving a position: the calls of todo that apply, one after the other,
\* whatever they answer, and then _close_position.
Wanted(b, c) == CASE c = "sl" -> b.sl # 0  [] c = "tp" -> b.tp # 0
                  [] c = "entry" -> TRUE   [] c = "market" -> b.filled
Unwind(t, k, b, todo, why) ==
    LET rest == SelectSeq(todo, LAMBDA c : Wanted(b, c))
        k2   == [k EXCEPT !.todo = Tail(rest), !.why = why]
    IN  IF rest = <<>> THEN FinishWith(t, k, AsClosed(b, why)) /\ Forget(k.o)
        ELSE IF Head(rest) = "market" THEN AskWith(t, k2, b, "unwind", "market", 0)
        ELSE AskWith(t, k2, b, "unwind", "cancel", b[Head(rest)])

\* Only these closes look at the answer of the market order.
Careful == {"emergency", "bad_fill"}
Unwinding(t) ==
    /\ At(t, "unwind")
    /\ LET k == task[t]
       IN  IF k.call = "market" /\ ~Ok(t) /\ k.why \in Careful
           THEN Done(t, k, AsEmergency(Obj(t), 1))
           ELSE Unwind(t, k, Obj(t), k.todo, k.why)

-----------------------------------------------------------------------------
(* The poll loop: its locals K, its object B.                              *)

K == task["poll"]
B == obj[K.o]
Here(pc) == At("poll", pc)
Good     == Ok("poll")
Call(k, b, pc, call, arg) == AskWith("poll", k, b, pc, call, arg)
End(b)   == Done("poll", K, b)
Leave(k, b, todo, why) == Unwind("poll", k, b, todo, why)
Exits    == <<"sl", "tp", "market">>

\* _check_trailing_sl / _check_breakeven: the next level, if there is one.
Target(b) == IF b.be THEN 2 ELSE 1
Trail(k, b) == IF b.be /\ b.tr THEN Done("poll", k, b)
               ELSE Call(k, b, "trail.tick", "ticker", 0)
TrailTick ==
    /\ Here("trail.tick")
    /\ IF K.res = "mid" \/ (K.res = "tp1" /\ ~B.be)
       THEN Call(K, B, "trail.stop", "stop", Target(B)) ELSE End(B)
\* _adjust_sl: the new order first, then the old one is cancelled.
Moved(b, new) == [b EXCEPT !.sl = new, !.level = Target(b), !.fails = 0]
Marked(b)     == IF b.be THEN [b EXCEPT !.tr = TRUE] ELSE [b EXCEPT !.be = TRUE]
\* Mutant: the old order is cancelled although the new one was refused.
TrailStopBlind ==
    /\ Here("trail.stop")
    /\ Call([K EXCEPT !.new = K.got], B, "trail.cancel", "cancel", B.sl)

TrailStop ==
    /\ Here("trail.stop")
    /\ IF ~Good THEN Trail(K, Marked(B))
       ELSE IF B.sl = 0 THEN Trail(K, Marked(Moved(B, K.got)))
       ELSE Call([K EXCEPT !.new = K.got], B, "trail.cancel", "cancel", B.sl)
TrailCancel == Here("trail.cancel") /\ Trail(K, Marked(Moved(B, K.new)))

\* Mutant: the row is added again if it is gone.
ActivateAnyway(k, b) ==
    /\ FinishWith("poll", k, [b EXCEPT !.phase = "active"])
    /\ rows' = [rows EXCEPT ![k.o] = "active"]
    /\ UNCHANGED tracked

\* Entry filled: the attached orders are looked for, and replaced if missing.
Activate(k, b) ==
    /\ FinishWith("poll", k, [b EXCEPT !.phase = "active"])
    /\ rows' = [rows EXCEPT ![k.o] = IF @ = "pending" THEN "active" ELSE @]
    /\ UNCHANGED tracked
VerifyTp(k, b) == IF b.tp # 0 /\ ~k.tpFound THEN Call(k, b, "f.vtp", "find_tp", 0)
                  ELSE Activate(k, b)
VerifySl(k, b) == IF k.slFound THEN VerifyTp(k, b)
                  ELSE Call(k, b, "f.verify", "has_sl", b.sl)
\* The fill price may be too bad to keep the position.
CheckFill(k, b) == Leave(k, b, Exits, "bad_fill") \/ VerifySl(k, b)
PlaceTp(k, b)   == IF k.tpFound THEN CheckFill(k, b)
                   ELSE Call(k, b, "f.tp2", "tp", 0)

FoundSl == /\ Here("f.sl")
           /\ Call([K EXCEPT !.slFound = Good],
                   IF Good THEN [B EXCEPT !.sl = K.got] ELSE B, "f.tp", "find_tp", 0)
FoundTp ==
    /\ Here("f.tp")
    /\ LET k == [K EXCEPT !.tpFound = Good, !.n = 1]
           b == IF Good THEN [B EXCEPT !.tp = K.got] ELSE B
       IN  IF k.slFound THEN PlaceTp(k, b) ELSE Call(k, b, "f.stop", "stop", 0)
PlacedSl ==
    /\ Here("f.stop")
    /\ IF Good THEN PlaceTp(K, [B EXCEPT !.sl = K.got])
       ELSE IF K.n < SlAttempts THEN Call([K EXCEPT !.n = @ + 1], B, "f.stop", "stop", 0)
       ELSE Leave(K, B, <<"market">>, "emergency")
PlacedTp == Here("f.tp2") /\ CheckFill(K, [B EXCEPT !.tp = K.got])
VerifiedSl == Here("f.verify") /\ IF Good THEN VerifyTp(K, B)
                                  ELSE Call(K, B, "f.restop", "stop", 0)
ReplacedSl == /\ Here("f.restop")
              /\ IF Good THEN VerifyTp(K, [B EXCEPT !.sl = K.got])
                 ELSE Leave(K, B, <<"market">>, "emergency")
VerifiedTp == Here("f.vtp") /\ IF Good THEN Activate(K, [B EXCEPT !.tp = K.got])
                               ELSE Call(K, B, "f.retp", "tp", 0)
ReplacedTp == /\ Here("f.retp")
              /\ Activate(K, IF Good THEN [B EXCEPT !.tp = K.got] ELSE B)

\* Pending: the entry order's status.
EntryFilled(b) == [b EXCEPT !.filled = TRUE, !.due = FALSE]
PendingFetched ==
    /\ Here("p.fetch")
    /\ CASE K.res = "filled"   -> Call(K, EntryFilled(B), "f.sl", "find_sl", 0)
         [] K.res = "canceled" -> Leave(K, B, <<>>, "cancelled")
         [] OTHER              -> End(B)

\* Active: the stop-loss, then the take-profit, then now and then whether the
\* stop-loss is really there, then the trail.
Stopped(b, new) == [b EXCEPT !.sl = new, !.fails = 0]
VerifyExists(k, b) ==
    Trail(k, b) \/ (b.sl # 0 /\ Call(k, b, "a.verify", "has_sl", b.sl))
CheckTp(k, b) == IF b.tp # 0 THEN Call(k, b, "a.tp", "fetch", b.tp)
                 ELSE VerifyExists(k, b)
\* Mutant: the duration is not checked.
CheckActiveForever(k, b) ==
    IF b.sl # 0 THEN Call(k, b, "a.sl", "fetch", b.sl)
    ELSE IF b.tp # 0 THEN CheckTp(k, b) ELSE Call(k, b, "a.adopt", "position", 0)

CheckActive(k, b) ==
    CASE b.due                  -> Leave(k, b, Exits, "timeout")
      [] ~b.due /\ b.sl # 0     -> Call(k, b, "a.sl", "fetch", b.sl)
      [] ~b.due /\ b.sl = 0 /\ b.tp # 0 -> CheckTp(k, b)
      [] OTHER                  -> Call(k, b, "a.adopt", "position", 0)
AdoptedFetched == Here("a.adopt") /\ IF K.res = "flat"
                                     THEN Leave(K, B, <<>>, "manual_close") ELSE End(B)
\* Mutant: an unanswered fetch is not counted.
SlFetchedUncounted ==
    /\ Here("a.sl")
    /\ CASE K.res = "filled"   -> Leave(K, B, <<"tp">>, "sl")
         [] K.res = "canceled" -> Call(K, B, "a.pos", "position", 0)
         [] OTHER -> CheckTp(K, B)

SlFetched ==
    /\ Here("a.sl")
    /\ CASE K.res = "filled"   -> Leave(K, B, <<"tp">>, "sl")
         [] K.res = "canceled" -> Call(K, B, "a.pos", "position", 0)
         [] K.res = "none"     ->
              LET b == [B EXCEPT !.fails = @ + 1]
              IN  IF b.fails >= VanishLimit THEN Call(K, b, "v.pos", "position", 0)
                  ELSE CheckTp(K, b)
         [] OTHER -> CheckTp(K, [B EXCEPT !.fails = 0])
\* Mutant: the stop-loss is put back at its original level.
CancelledSlOriginal ==
    Here("a.pos") /\ IF K.res = "flat" THEN Leave(K, B, <<"tp">>, "manual_close")
                     ELSE Call(K, B, "a.restop", "stop", 0)

CancelledSl == Here("a.pos") /\ IF K.res = "flat" THEN Leave(K, B, <<"tp">>, "manual_close")
                                ELSE Call(K, B, "a.restop", "stop", B.level)
RestoredSl == Here("a.restop") /\ End(IF Good THEN Stopped(B, K.got) ELSE B)
VanishedSl ==
    /\ Here("v.pos")
    /\ CASE K.res = "flat" -> Leave(K, B, <<"tp">>, "sl")
         [] K.res = "open" -> Call(K, B, "v.stop", "stop", B.level)
         [] OTHER          -> End(B)
RevivedSl == Here("v.stop") /\ End(IF Good THEN Stopped(B, K.got) ELSE AsEmergency(B, 0))
TpFetched == Here("a.tp") /\ IF K.res = "filled" THEN Leave(K, B, <<"sl">>, "tp")
                             ELSE VerifyExists(K, B)
\* _verify_sl_exists returns to _check_active_position, even when it closed.
CloseAndTrail ==
    LET b == AsClosed(B, "sl")
    IN  /\ Forget(K.o) /\ obj' = [obj EXCEPT ![K.o] = b]
        /\ task' = [task EXCEPT !["poll"] =
                       IF b.be /\ b.tr THEN Idle
                       ELSE [K EXCEPT !.pc = "trail.tick", !.call = "ticker",
                                      !.arg = 0, !.res = "wait", !.got = 0]]
SlVerified == Here("a.verify") /\ IF Good THEN Trail(K, B)
                                  ELSE Call(K, B, "y.pos", "position", 0)
MissingSl ==
    /\ Here("y.pos")
    /\ CASE K.res = "open" -> Call(K, B, "y.stop", "stop", B.level)
         [] K.res = "flat" -> IF B.tp = 0 THEN CloseAndTrail
                              ELSE Call(K, B, "y.tp", "cancel", B.tp)
         [] OTHER          -> Trail(K, B)
ReinstatedSl == Here("y.stop") /\ Trail(K, IF Good THEN Stopped(B, K.got) ELSE B)
GoneVerified == Here("y.tp") /\ CloseAndTrail

\* _retry_emergency_close.
EmergencyRetried ==
    /\ Here("e.mkt")
    /\ LET n == B.retries + 1
       IN  IF Good THEN Leave(K, B, <<>>, "emergency")
           ELSE End([B EXCEPT !.retries = n,
                              !.phase = IF n >= MaxRetries THEN "failed" ELSE @])

PollStart ==
    /\ K.pc = "idle" /\ tracked # 0
    /\ LET k == [Idle EXCEPT !.o = tracked]
           b == obj[tracked]
       IN  \/ /\ b.phase = "pending"
              /\ IF b.due THEN Leave(k, b, <<"entry">>, "cancelled")
                 ELSE Call(k, b, "p.fetch", "fetch", b.entry)
           \/ b.phase = "active" /\ CheckActive(k, b)
           \/ b.phase = "emergency" /\ Call(k, b, "e.mkt", "market", 0)
    /\ UNCHANGED <<okx, used>>

\* A cancel request from the dashboard: a task of its own, and the poll loop
\* goes on without it.
PollCancel ==
    /\ K.pc = "idle" /\ tracked # 0 /\ task["cancel"].pc = "idle"
    /\ used.cancels < MaxCancels
    /\ used' = [used EXCEPT !.cancels = @ + 1]
    /\ task' = [task EXCEPT !["cancel"] = [Idle EXCEPT !.o = tracked, !.pc = "start"]]
    /\ UNCHANGED <<obj, tracked, rows, okx>>
HandleCancel ==
    /\ At("cancel", "start")
    /\ LET k == task["cancel"]
           b == Obj("cancel")
       IN  IF b.phase = "pending" THEN Unwind("cancel", k, b, <<"entry">>, "cancelled")
           ELSE Unwind("cancel", k, b, Exits, "timeout")

-----------------------------------------------------------------------------
(* execute and close_all_positions.                                        *)

Unused == {o \in Objs : obj[o].phase = "new"}
First(S) == CHOOSE o \in S : \A p \in S : o <= p
PlaceEntry == AskWith("exec", [Idle EXCEPT !.o = First(Unused)], NoObj, "n.place",
                      "entry", 0)

\* A new setup: a pending entry is replaced, another position blocks it.
ExecStart ==
    /\ task["exec"].pc = "idle" /\ Unused # {}
    /\ \/ tracked = 0 /\ PlaceEntry
       \/ /\ tracked # 0 /\ obj[tracked].phase = "pending"
          /\ AskWith("exec", [Idle EXCEPT !.o = tracked], obj[tracked], "n.cancel",
                     "cancel", obj[tracked].entry)
    /\ UNCHANGED <<okx, used>>
Replace ==
    /\ At("exec", "n.cancel")
    /\ IF Ok("exec")
       THEN /\ Forget(task["exec"].o)
            /\ LET o == First(Unused)
               IN  task' = [task EXCEPT !["exec"] =
                       [Idle EXCEPT !.o = o, !.pc = "n.place", !.call = "entry",
                                    !.res = "wait"]]
            /\ UNCHANGED obj
       ELSE Done("exec", task["exec"], Obj("exec"))
Register ==
    /\ At("exec", "n.place")
    /\ LET o == task["exec"].o
       IN  IF Ok("exec")
           THEN /\ FinishWith("exec", task["exec"],
                       [NoObj EXCEPT !.phase = "pending", !.entry = task["exec"].got])
                /\ tracked' = o /\ rows' = [rows EXCEPT ![o] = "pending"]
           ELSE Done("exec", task["exec"], NoObj)

\* The panic button: one call, whatever it answers.
PanicStart ==
    /\ task["panic"].pc = "idle" /\ tracked # 0 /\ used.panics < MaxPanics
    /\ used' = [used EXCEPT !.panics = @ + 1]
    /\ LET k == [Idle EXCEPT !.o = tracked]
           b == obj[tracked]
       IN  IF b.phase = "pending" THEN AskWith("panic", k, b, "k.cancel", "cancel", b.entry)
           ELSE AskWith("panic", k, b, "k.mkt", "market_dir", 0)
    /\ UNCHANGED okx
PanicReported == /\ (At("panic", "k.cancel") \/ At("panic", "k.mkt"))
                 /\ Done("panic", task["panic"], Obj("panic"))

\* The time of a pending entry or of a held position runs out.
Expire(o) == /\ Expiry /\ obj[o].phase \in {"pending", "active"} /\ ~obj[o].due
             /\ obj' = [obj EXCEPT ![o].due = TRUE]
             /\ UNCHANGED <<task, tracked, rows, okx, used>>

FillSteps   == \/ FoundSl \/ FoundTp \/ PlacedSl \/ PlacedTp
               \/ VerifiedSl \/ ReplacedSl \/ VerifiedTp \/ ReplacedTp
ActiveSteps == \/ AdoptedFetched \/ SlFetched \/ CancelledSl \/ RestoredSl
               \/ VanishedSl \/ RevivedSl \/ TpFetched \/ SlVerified
               \/ MissingSl \/ ReinstatedSl \/ GoneVerified
               \/ TrailTick \/ TrailStop \/ TrailCancel
PollSteps   == PendingFetched \/ FillSteps \/ ActiveSteps \/ EmergencyRetried

Resume(t) ==
    /\ \/ t = "poll" /\ PollSteps
       \/ t = "cancel" /\ HandleCancel
       \/ t = "exec" /\ (Replace \/ Register)
       \/ t = "panic" /\ PanicReported
       \/ Unwinding(t)
    /\ UNCHANGED <<okx, used>>

Exchange == \/ \E i \in 1..Len(orders) : EntryFills(i) \/ ExitFills(i)
            \/ UserActs
Next == \/ \E t \in Tasks : Serve(t) \/ Resume(t)
        \/ PollStart \/ PollCancel \/ ExecStart \/ PanicStart
        \/ \E o \in Objs : Expire(o)
        \/ Exchange

Spec == Init /\ [][Next]_vars

\* The event loop and the exchange serve every coroutine, and the loop polls.
Fairness == /\ \A t \in Tasks : WF_vars(Serve(t)) /\ WF_vars(Resume(t))
            /\ WF_vars(PollStart)
FairSpec == Spec /\ Fairness

-----------------------------------------------------------------------------
(* Properties.                                                             *)

Phases  == {"new", "pending", "active", "emergency", "failed", "closed"}
ObjOK(b) == /\ b.phase \in Phases
            /\ {b.entry, b.sl, b.tp, b.retries, b.fails, b.closes} \subseteq Nat
            /\ b.level \in 0..2
            /\ {b.filled, b.due, b.be, b.tr} \subseteq BOOLEAN
\* The objects, the monitor's entry, the rows and the exchange's orders are
\* well formed, and an object only names orders that were placed.
TypeOK == /\ DOMAIN task = Tasks /\ DOMAIN obj = Objs
          /\ \A o \in Objs : /\ ObjOK(obj[o])
                             /\ {obj[o].entry, obj[o].sl, obj[o].tp}
                                   \subseteq 0..Len(orders)
          /\ tracked \in 0..MaxObjs
          /\ rows \in [Objs -> {"none", "pending", "active"}]
          /\ size \in Nat

\* The Risk Service counts exactly the positions the monitor manages
\* (state_tracker.py:185: "ALL tracked positions (pending + active)").
CountExact == \A o \in Objs : rows[o] # "none" <=> tracked = o

\* An active position the bot entered always has a stop-loss on the
\* exchange while it is open, except while it is being left: also while the stop
\* is moved (monitor.py:28: "zero gap"), and whatever calls fail.
Leaving   == \E t \in Tasks : task[t].pc = "unwind"
Protected == tracked # 0 /\ obj[tracked].phase = "active" /\ obj[tracked].entry # 0
             /\ size > 0 /\ ~Leaving => LiveOf("sl") # {}

\* The stop-loss order a managed position names sits at the level the monitor
\* records as current_sl_price: a stop put back after the user cancelled it, or
\* found missing, does not give up what the trail had gained.
StopWhereRecorded ==
    tracked # 0 =>
        LET b == obj[tracked]
        IN  b.phase = "active" /\ b.sl # 0 => orders[b.sl].level = b.level

\* Every position goes through its phases in order, is left for good, and is
\* reported as a trade once or, if its entry was not seen to fill, never.
L == INSTANCE PositionLifecycle
         WITH life   <- [o \in Objs |-> IF obj[o].phase = "pending" /\ obj[o].filled
                                       THEN "filled" ELSE obj[o].phase],
              trades <- [o \in Objs |-> obj[o].closes]
LifecycleSpec == L!Spec

\* An entry reported as cancelled never filled (state_tracker.py:145: "the order
\* never filled, so it's not a real trade").
CancelledNeverFilled ==
    \A o \in Objs : obj[o].reason = "cancelled"
                       => orders[obj[o].entry].st \in {"live", "canceled"}

\* One entry order rests at a time: a pending entry is replaced only once it is
\* cancelled (05-execution.md:23: "aborts if cancel fails to prevent duplicate
\* orders on exchange").
OneEntry == Cardinality(LiveOf("entry")) <= 1

\* A position closed by its timeout is closed on the exchange (05-execution.md,
\* state machine: active, 12h/4h, closed by market close).
TimeoutFlat == \A o \in Objs : obj[o].reason = "timeout" => size = 0

\* A position the bot opened does not stay without a stop-loss: it gets one, or
\* is closed, or the operator is alerted (emergency_failed), unless a timeout
\* drops it (TimeoutFlat and CancelledNeverFilled).
Naked == size > 0 /\ LiveOf("sl") = {}
Opened(o) == obj[o].entry # 0 /\ orders[obj[o].entry].st = "filled"
NakedRepaired ==
    \A o \in Objs : Naked /\ Opened(o)
        ~> ~Naked \/ obj[o].phase = "failed" \/ obj[o].reason \in {"timeout", "cancelled"}

\* When the time of every position runs out, every position the monitor takes on
\* leaves it, or the operator is alerted.
TimePasses == \A o \in Objs : tracked = o ~> tracked # o \/ obj[o].due
EveryPositionEnds ==
    TimePasses => \A o \in Objs : tracked = o ~> tracked # o \/ obj[o].phase = "failed"
=============================================================================
