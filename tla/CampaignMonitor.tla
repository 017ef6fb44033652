-------------------------- MODULE CampaignMonitor ---------------------------
(***************************************************************************)
(* One HTF campaign (execution_service/campaign_monitor.py): a long with a *)
(* pyramid of adds under one trailing stop.                                *)
(*                                                                         *)
(* The poll loop and the 4H candle's task (evaluate_add) share the         *)
(* campaign; each runs without interruption from one exchange call to the  *)
(* next, and a step is one call, its answer and the code up to the next.   *)
(* Sizes are lots: every entry order is Lots of them.  Stop levels are     *)
(* ordered from 0, the initial stop.  A call that fails or whose answer is *)
(* lost, and whatever somebody else does to the orders, costs a fault.  A  *)
(* behaviour has one campaign.                                             *)
(***************************************************************************)
EXTENDS Integers, Sequences, FiniteSets, FiniteSetsExt, SequencesExt

CONSTANTS
    Lots,           \* lots of one entry order
    MaxAdds,        \* HTF_MAX_ADDS
    MaxFails,       \* unanswered polls of the stop before it counts as vanished (12)
    StopTries,      \* attempts at the first stop (3)
    MaxLevel,       \* bound: highest swing low
    MaxCamFaults    \* bound: faults of a behaviour

ASSUME CampaignAssumption ==
    /\ Lots \in Nat \ {0}
    /\ MaxAdds \in Nat /\ MaxFails \in Nat /\ StopTries \in Nat
    /\ MaxLevel \in Nat /\ MaxCamFaults \in Nat

VARIABLES
    cam,        \* the PositionCampaign
    camPoll,    \* the poll loop: where it is, and what it carries
    camAdder,   \* evaluate_add: "idle" or before the add's order ("place")
    camOn,      \* _running
    camEntry,   \* on the exchange: the initial order
    camAdds,    \*   the orders of the adds
    camStops,   \*   the stops
    camPos,     \*   lots held
    camBought,  \* ghost: the lots the orders of the campaign have bought
    camTracked, \* the Risk Service has the trade
    camFaults,  \* faults so far
    camShort,   \* ghost: the last placement of a larger or higher stop failed
    camMeddled, \* ghost: somebody else cancelled a stop
    camRaced    \* ghost: a stop fired while the bot was handling the campaign's orders

camLots   == <<camPos, camBought>>
camMarket == <<camEntry, camAdds, camStops, camPos, camBought>>
camVars   == <<cam, camPoll, camAdder, camOn, camEntry, camAdds, camStops, camPos, camBought,
               camTracked, camFaults, camShort, camMeddled, camRaced>>

At(pc) == [pc |-> pc, n |-> 0, level |-> 0, then |-> "idle", new |-> 0]
Unplaced == [st |-> "none", filled |-> 0]
Placed   == [st |-> "open", filled |-> 0]

CamInit ==
    /\ cam = [phase |-> "none", sl |-> 0, level |-> 0, size |-> 0, adds |-> 0, pend |-> 0,
              fails |-> 0, known |-> FALSE, due |-> FALSE, addDue |-> FALSE, reason |-> "none"]
    /\ camPoll = At("idle") /\ camAdder = "idle" /\ camOn = TRUE
    /\ camEntry = Unplaced /\ camAdds = <<>> /\ camStops = <<>> /\ camPos = 0 /\ camBought = 0
    /\ camTracked = FALSE /\ camFaults = 0 /\ camShort = FALSE /\ camMeddled = FALSE /\ camRaced = FALSE

LiveStops == {i \in DOMAIN camStops : camStops[i].st = "live"}
CamFault  == camFaults < MaxCamFaults /\ camFaults' = camFaults + 1
CamFine   == UNCHANGED camFaults

-----------------------------------------------------------------------------
(* The exchange.                                                           *)

Stop(size, level) == [size |-> size, level |-> level, st |-> "live"]

\* The attached stop appears with the end of an order that filled, or not.
Attached(filled) == \/ CamFine /\ camStops' = Append(camStops, Stop(filled, 0))
                    \/ CamFault /\ UNCHANGED camStops

EntryFills ==
    /\ camEntry.st = "open"
    /\ camPos' = camPos + 1 /\ camBought' = camBought + 1
    /\ camEntry' = [st |-> IF camEntry.filled + 1 = Lots THEN "closed" ELSE "open",
                    filled |-> camEntry.filled + 1]
    /\ IF camEntry'.st = "closed" THEN Attached(Lots) ELSE CamFine /\ UNCHANGED camStops
    /\ UNCHANGED <<cam, camPoll, camAdder, camOn, camAdds, camTracked, camShort, camMeddled, camRaced>>

EntryCancelled ==
    /\ camEntry.st = "open" /\ CamFault
    /\ camEntry' = [camEntry EXCEPT !.st = "canceled"]
    /\ camStops' = IF camEntry.filled > 0 THEN Append(camStops, Stop(camEntry.filled, 0))
                   ELSE camStops
    /\ UNCHANGED <<cam, camPoll, camAdder, camOn, camAdds, camLots, camTracked, camShort,
                   camMeddled, camRaced>>

AddFills(i) ==
    /\ camAdds[i].st = "open"
    /\ camPos' = camPos + 1 /\ camBought' = camBought + 1
    /\ camAdds' = [camAdds EXCEPT ![i] = [st |-> IF @.filled + 1 = Lots THEN "closed" ELSE "open",
                                          filled |-> @.filled + 1]]
    /\ UNCHANGED <<cam, camPoll, camAdder, camOn, camEntry, camStops, camTracked, camFaults,
                   camShort, camMeddled, camRaced>>

\* Somebody else cancels an add, before or after a part of it filled.
AddCancelled(i) ==
    /\ camAdds[i].st = "open" /\ CamFault
    /\ camAdds' = [camAdds EXCEPT ![i].st = "canceled"]
    /\ UNCHANGED <<cam, camPoll, camAdder, camOn, camEntry, camStops, camLots, camTracked, camShort,
                   camMeddled, camRaced>>

\* The market falls to the highest stop; stops are not reduceOnly.
StopHits ==
    \E i \in LiveStops :
        /\ \A j \in LiveStops : camStops[j].level <= camStops[i].level
        /\ camStops' = [camStops EXCEPT ![i].st = "closed"]
        /\ camPos' = camPos - camStops[i].size
        /\ camRaced' = (camRaced \/ cam.phase # "active" \/ camPoll.pc # "idle")
        /\ UNCHANGED <<cam, camPoll, camAdder, camOn, camEntry, camAdds, camBought, camTracked,
                       camFaults, camShort, camMeddled>>

StopMeddled ==
    /\ CamFault
    /\ \E i \in LiveStops : camStops' = [camStops EXCEPT ![i].st = "canceled"]
    /\ camMeddled' = TRUE
    /\ UNCHANGED <<cam, camPoll, camAdder, camOn, camEntry, camAdds, camLots, camTracked,
                   camShort, camRaced>>

Clock ==
    /\ cam.phase \in {"pending_initial", "active"}
    /\ \/ ~cam.due /\ cam' = [cam EXCEPT !.due = TRUE]
       \/ cam.pend # 0 /\ ~cam.addDue /\ cam' = [cam EXCEPT !.addDue = TRUE]
    /\ UNCHANGED <<camPoll, camAdder, camOn, camMarket, camTracked, camFaults, camShort,
                   camMeddled, camRaced>>

\* A stop is placed, refused, or placed without an answer.
PlaceStop(size, level, ok) ==
    \/ ok /\ CamFine /\ camStops' = Append(camStops, Stop(size, level))
    \/ ~ok /\ CamFault /\ (UNCHANGED camStops \/ camStops' = Append(camStops, Stop(size, level)))

\* A cancel that reaches a live stop; the answer is not looked at.
CancelStop(i) ==
    \/ CamFine /\ camStops' = [camStops EXCEPT ![i].st = IF @ = "live" THEN "canceled" ELSE @]
    \/ CamFault /\ UNCHANGED camStops

CancelAdd(i) ==
    \/ CamFine /\ camAdds' = [camAdds EXCEPT ![i].st = IF @ = "open" THEN "canceled" ELSE @]
    \/ CamFault /\ UNCHANGED camAdds

\* The market close is reduceOnly and its result is not looked at.
MarketClose(size) ==
    /\ UNCHANGED camBought
    /\ \/ CamFine /\ camPos' = IF camPos > size THEN camPos - size
                               ELSE IF camPos > 0 THEN 0 ELSE camPos
       \/ CamFault /\ UNCHANGED camPos

-----------------------------------------------------------------------------
(* The campaign's end and its beginning.                                   *)

\* _close_campaign: the end of the campaign and of its row in the Risk Service.
CloseCampaign(why) ==
    /\ cam' = [cam EXCEPT !.phase = "closed", !.reason = why]
    /\ camTracked' = FALSE /\ camPoll' = At("idle")

Execute ==
    /\ cam.phase = "none" /\ camOn /\ camEntry = Unplaced
    /\ \/ /\ CamFine /\ camEntry' = Placed /\ camTracked' = TRUE
          /\ cam' = [cam EXCEPT !.phase = "pending_initial"]
       \/ /\ CamFault /\ (UNCHANGED camEntry \/ camEntry' = Placed)
          /\ UNCHANGED <<cam, camTracked>>
    /\ UNCHANGED <<camPoll, camAdder, camOn, camAdds, camStops, camLots, camShort, camMeddled, camRaced>>

\* stop(): the poll is cancelled wherever it waits, an entry that counts as
\* pending is cancelled.
StopMonitor ==
    /\ camOn /\ camOn' = FALSE
    /\ IF cam.phase = "pending_initial"
       THEN /\ \/ CamFine /\ camEntry' = [camEntry EXCEPT !.st = IF @ = "open" THEN "canceled" ELSE @]
               \/ CamFault /\ UNCHANGED camEntry
            /\ CloseCampaign("cancelled")
       ELSE /\ camPoll' = At("idle") /\ CamFine
            /\ UNCHANGED <<cam, camEntry, camTracked>>
    /\ UNCHANGED <<camAdder, camAdds, camStops, camLots, camShort, camMeddled, camRaced>>

-----------------------------------------------------------------------------
(* The poll of a pending entry.                                            *)

Polling(pc) == camOn /\ camPoll.pc = pc
Same == UNCHANGED <<camAdder, camOn, camShort, camMeddled, camRaced>>
Unseen == CamFault /\ UNCHANGED <<cam, camPoll, camMarket, camTracked>> /\ Same

PollTimeout ==
    /\ Polling("idle") /\ cam.phase = "pending_initial" /\ cam.due
    /\ \/ CamFine /\ camEntry' = [camEntry EXCEPT !.st = IF @ = "open" THEN "canceled" ELSE @]
       \/ CamFault /\ UNCHANGED camEntry
    /\ CloseCampaign("cancelled")
    /\ UNCHANGED <<camAdds, camStops, camLots>> /\ Same

PollEntry ==
    /\ Polling("idle") /\ cam.phase = "pending_initial" /\ ~cam.due
    /\ camEntry.st \in {"closed", "canceled"}
    /\ IF camEntry.filled > 0
       THEN /\ cam' = [cam EXCEPT !.known = TRUE, !.size = camEntry.filled]
            /\ camPoll' = At("attach") /\ UNCHANGED camTracked
       ELSE CloseCampaign("cancelled")
    /\ CamFine /\ UNCHANGED camMarket /\ Same

Activate(sl) == /\ cam' = [cam EXCEPT !.phase = "active", !.sl = sl, !.level = 0, !.due = FALSE]
                /\ camPoll' = At("idle")

\* find_pending_algo_orders answers with no orders when it fails.
FindAttached ==
    /\ Polling("attach")
    /\ \/ /\ CamFine
          /\ LET own == {i \in LiveStops : camStops[i].level = 0}
             IN  IF own # {} THEN \E i \in own : Activate(i)
                 ELSE camPoll' = At("stop") /\ UNCHANGED cam
       \/ CamFault /\ camPoll' = At("stop") /\ UNCHANGED cam
    /\ UNCHANGED <<camMarket, camTracked>> /\ Same

FirstStop ==
    /\ Polling("stop")
    /\ \E ok \in BOOLEAN :
         /\ PlaceStop(cam.size, 0, ok)
         /\ camPoll' = IF ok THEN [At("verify") EXCEPT !.new = Len(camStops) + 1]
                       ELSE IF camPoll.n + 1 < StopTries THEN [camPoll EXCEPT !.n = @ + 1]
                       ELSE At("emergency")
    /\ UNCHANGED <<cam, camEntry, camAdds, camLots, camTracked>> /\ Same

VerifyStop ==
    /\ Polling("verify")
    /\ \/ CamFine /\ IF camPoll.new \in LiveStops THEN Activate(camPoll.new)
                     ELSE camPoll' = At("restop") /\ UNCHANGED cam
       \/ CamFault /\ camPoll' = At("restop") /\ UNCHANGED cam
    /\ UNCHANGED <<camMarket, camTracked>> /\ Same

Restop ==
    /\ Polling("restop")
    /\ \E ok \in BOOLEAN :
         /\ PlaceStop(cam.size, 0, ok)
         /\ IF ok THEN Activate(Len(camStops) + 1) ELSE camPoll' = At("emergency") /\ UNCHANGED cam
    /\ UNCHANGED <<camEntry, camAdds, camLots, camTracked>> /\ Same

Emergency ==
    /\ Polling("emergency")
    /\ MarketClose(cam.size)
    /\ CloseCampaign("emergency")
    /\ UNCHANGED <<camEntry, camAdds, camStops>> /\ Same

-----------------------------------------------------------------------------
(* The poll of an active campaign.                                         *)

PollActive == Polling("idle") /\ cam.phase = "active"

\* Mutant of TimedOut: the deadline counts from the last add.
TimedOutSinceAdd == cam.due /\ cam.adds = 0

TimedOut == cam.due

\* The deadline: cancel the stop, then the add, close the position, end.
TimeoutStop ==
    /\ PollActive /\ TimedOut
    /\ CancelStop(cam.sl)
    /\ camPoll' = At(IF cam.pend # 0 THEN "timeout_add" ELSE "timeout_close")
    /\ UNCHANGED <<cam, camEntry, camAdds, camLots, camTracked>> /\ Same

TimeoutAdd ==
    /\ Polling("timeout_add")
    /\ CancelAdd(cam.pend)
    /\ camPoll' = At("timeout_close")
    /\ UNCHANGED <<cam, camEntry, camStops, camLots, camTracked>> /\ Same

TimeoutClose ==
    /\ Polling("timeout_close")
    /\ MarketClose(cam.size)
    /\ CloseCampaign("timeout")
    /\ UNCHANGED <<camEntry, camAdds, camStops>> /\ Same

StopClosed ==
    /\ PollActive /\ ~TimedOut /\ camStops[cam.sl].st = "closed"
    /\ CloseCampaign("trailing_sl")
    /\ CamFine /\ UNCHANGED camMarket /\ Same

StopCancelled ==
    /\ PollActive /\ ~TimedOut /\ camStops[cam.sl].st = "canceled"
    /\ CamFine /\ camPoll' = At("replace")
    /\ UNCHANGED <<cam, camMarket, camTracked>> /\ Same

AfterStop == At(IF cam.pend # 0 THEN "add" ELSE "trail")

StopLive ==
    /\ PollActive /\ ~TimedOut /\ camStops[cam.sl].st = "live"
    /\ cam' = [cam EXCEPT !.fails = 0]
    /\ CamFine /\ camPoll' = AfterStop
    /\ UNCHANGED <<camMarket, camTracked>> /\ Same

StopUnseen ==
    /\ PollActive /\ ~TimedOut /\ CamFault
    /\ cam' = [cam EXCEPT !.fails = @ + 1]
    /\ camPoll' = IF cam.fails + 1 >= MaxFails THEN At("position") ELSE AfterStop
    /\ UNCHANGED <<camMarket, camTracked>> /\ Same

\* The stop is placed again for the size and level the campaign knows.
Replace ==
    /\ Polling("replace")
    /\ \E ok \in BOOLEAN :
         /\ PlaceStop(cam.size, cam.level, ok)
         /\ cam' = IF ok THEN [cam EXCEPT !.sl = Len(camStops) + 1, !.fails = 0] ELSE cam
    /\ camPoll' = At("idle")
    /\ UNCHANGED <<camEntry, camAdds, camLots, camTracked>> /\ Same

AskPosition ==
    /\ Polling("position")
    /\ IF camPos > 0 THEN camPoll' = At("replace") /\ UNCHANGED <<cam, camTracked>>
       ELSE CloseCampaign("trailing_sl")
    /\ CamFine /\ UNCHANGED camMarket /\ Same

PositionUnseen ==
    /\ Polling("position") /\ CamFault
    /\ camPoll' = At("idle")
    /\ UNCHANGED <<cam, camMarket, camTracked>> /\ Same

-----------------------------------------------------------------------------
(* The add and the trail.                                                  *)

AddTimesOut ==
    /\ Polling("add") /\ cam.addDue
    /\ CancelAdd(cam.pend)
    /\ cam' = [cam EXCEPT !.pend = 0, !.addDue = FALSE]
    /\ camPoll' = At("trail")
    /\ UNCHANGED <<camEntry, camStops, camLots, camTracked>> /\ Same

Adjust(level, then) == [At("adjust") EXCEPT !.level = level, !.then = then]

\* An add that was cancelled after a part of it filled counts as pending until
\* the stop is adjusted; one that filled does not.
HeldAdjust(level) == [Adjust(level, "trail") EXCEPT !.n = 1]
AddHeld == camPoll.pc \in {"adjust", "unold"} /\ camPoll.n = 1

AddAnswer ==
    /\ Polling("add") /\ ~cam.addDue
    /\ LET order == camAdds[cam.pend]
           done  == order.st # "open"
       IN  IF done /\ order.filled > 0
           THEN /\ cam' = [cam EXCEPT !.adds = @ + 1, !.size = @ + order.filled, !.pend = 0,
                                      !.addDue = FALSE]
                /\ camPoll' = IF order.st = "canceled" THEN HeldAdjust(cam.level)
                              ELSE Adjust(cam.level, "trail")
           ELSE /\ cam' = IF done THEN [cam EXCEPT !.pend = 0, !.addDue = FALSE] ELSE cam
                /\ camPoll' = At("trail")
    /\ CamFine /\ UNCHANGED <<camMarket, camTracked>> /\ Same

AddUnseen ==
    /\ Polling("add") /\ ~cam.addDue /\ CamFault
    /\ camPoll' = At("trail")
    /\ UNCHANGED <<cam, camMarket, camTracked>> /\ Same

Trail ==
    /\ Polling("trail")
    /\ \/ camPoll' = At("idle")
       \/ \E level \in 1..MaxLevel : level > cam.level /\ camPoll' = Adjust(level, "idle")
    /\ CamFine /\ UNCHANGED <<cam, camMarket, camTracked>> /\ Same

\* Mutant of AdjustedSize: the stop keeps the size of the first fill.
AdjustedSizeFirst == Min({cam.size, Lots})

\* The size of the new stop.
AdjustedSize == cam.size

\* _adjust_campaign_sl: the new stop first, then the old one goes.
AdjustPlace ==
    /\ Polling("adjust")
    /\ \E ok \in BOOLEAN :
         /\ PlaceStop(AdjustedSize, camPoll.level, ok)
         /\ camShort' = ~ok
         /\ camPoll' = IF ok THEN [camPoll EXCEPT !.pc = "unold", !.new = Len(camStops) + 1]
                       ELSE At(camPoll.then)
    /\ UNCHANGED <<cam, camEntry, camAdds, camLots, camTracked, camAdder, camOn, camMeddled, camRaced>>

AdjustCancel ==
    /\ Polling("unold")
    /\ CancelStop(cam.sl)
    /\ cam' = [cam EXCEPT !.sl = camPoll.new, !.level = camPoll.level, !.fails = 0]
    /\ camPoll' = At(camPoll.then)
    /\ UNCHANGED <<camEntry, camAdds, camLots, camTracked>> /\ Same

Poll == \/ PollTimeout \/ PollEntry \/ FindAttached \/ FirstStop \/ VerifyStop \/ Restop
        \/ Emergency \/ TimeoutStop \/ TimeoutAdd \/ TimeoutClose
        \/ StopClosed \/ StopCancelled \/ StopLive \/ StopUnseen \/ Replace
        \/ AskPosition \/ PositionUnseen \/ AddTimesOut \/ AddAnswer \/ AddUnseen
        \/ Trail \/ AdjustPlace \/ AdjustCancel

-----------------------------------------------------------------------------
(* evaluate_add, in the task of a 4H candle.                               *)

\* The entry is known to have filled (its stop may not be placed yet), no add
\* is pending and the adds are not used up.
AddAllowed == cam.known /\ cam.pend = 0 /\ ~AddHeld /\ cam.adds < MaxAdds

\* The candle finds the campaign and every condition holds; the ticker is
\* awaited.
\* Bound: one order more than the adds, for those that time out.
AddLooks ==
    /\ camAdder = "idle" /\ cam.phase \in {"pending_initial", "active"}
    /\ AddAllowed /\ Len(camAdds) < MaxAdds + 1
    /\ camAdder' = "place"
    /\ UNCHANGED <<cam, camPoll, camOn, camMarket, camTracked, camFaults, camShort, camMeddled, camRaced>>

AddPlaces ==
    /\ camAdder = "place" /\ camAdder' = "idle"
    /\ \/ /\ CamFine /\ camAdds' = Append(camAdds, Placed)
          /\ cam' = [cam EXCEPT !.pend = Len(camAdds) + 1, !.addDue = FALSE]
       \/ /\ CamFault /\ (UNCHANGED camAdds \/ camAdds' = Append(camAdds, Placed))
          /\ UNCHANGED cam
    /\ UNCHANGED <<camPoll, camOn, camEntry, camStops, camLots, camTracked, camShort, camMeddled, camRaced>>

AddDropped == /\ camAdder = "place" /\ camAdder' = "idle"
              /\ UNCHANGED <<cam, camPoll, camOn, camMarket, camTracked, camFaults, camShort,
                             camMeddled, camRaced>>

CamNext ==
    \/ EntryFills \/ EntryCancelled \/ (\E i \in DOMAIN camAdds : AddFills(i) \/ AddCancelled(i))
    \/ StopHits \/ StopMeddled \/ Clock
    \/ Execute \/ StopMonitor \/ Poll \/ AddLooks \/ AddPlaces \/ AddDropped

CamSpec == CamInit /\ [][CamNext]_camVars

-----------------------------------------------------------------------------
(* Properties.                                                             *)

CamTypeOK ==
    /\ cam.phase \in {"none", "pending_initial", "active", "closed"}
    /\ cam.fails \in 0..camFaults
    /\ cam.level \in 0..MaxLevel /\ cam.adds \in 0..MaxAdds
    /\ cam.size \in 0..(Lots * (MaxAdds + 1))
    /\ cam.sl \in 0..Len(camStops) /\ cam.pend \in 0..Len(camAdds)

\* "One SL order covers total stacked position": between polls the stop an
\* active campaign holds is for all the fills it knows of, unless its last
\* replacement failed.
StopCoversPosition ==
    camOn /\ cam.phase = "active" /\ camPoll.pc = "idle" /\ ~camShort =>
        camStops[cam.sl].size = cam.size

\* "Place new before cancelling old (zero gap)": the bot's handling of an
\* active campaign never takes the last live stop of its lots, unless
\* somebody else cancelled one or one fired in the middle of it.  The deadline
\* cancels the stop before it closes the position.
NoGap ==
    [][cam.phase = "active" /\ cam'.phase = "active" /\ camPos > 0 /\ camPos' = camPos
       /\ ~camMeddled' /\ ~camRaced' /\ camPoll'.pc \notin {"timeout_add", "timeout_close"}
       /\ LiveStops # {} => LiveStops' # {}]_camVars

\* The stop an active campaign holds only trails upwards, through every
\* replacement, retry and lost answer.
StopRises ==
    [][cam.phase = "active" /\ cam'.phase = "active" =>
        camStops'[cam'.sl].level >= camStops[cam.sl].level]_camVars

\* Without faults a campaign that ends leaves neither lots nor stops behind,
\* but for the races the code does not close: a stop that fires while the bot
\* replaces it, an entry that filled before its cancel, and an add that fills
\* unseen at the end.
NothingLeft ==
    cam.phase = "closed" /\ camFaults = 0 /\ ~camRaced
    /\ camBought = cam.size
    /\ (cam.reason = "cancelled" => camBought = 0)
        => camPos = 0 /\ LiveStops = {}

\* "_close_campaign": the trade is in the Risk Service as long as the campaign
\* is open, and no longer.
TrackedWhileOpen == camTracked <=> cam.phase \in {"pending_initial", "active"}

\* A campaign that is open ends, or the bot is stopped: the deadline holds
\* whatever the exchange fails to answer.
CampaignEnds == cam.phase \in {"pending_initial", "active"} ~> (cam.phase = "closed" \/ ~camOn)
=============================================================================
