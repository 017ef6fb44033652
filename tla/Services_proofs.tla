-------------------------- MODULE Services_proofs ---------------------------
(***************************************************************************)
(* Proofs about the services of MCServices: for every number of pairs,     *)
(* windows, shadows, orders, lots and faults, what the CVD feed calls      *)
(* VALID is complete, a shadow stands where its engine would, a campaign   *)
(* is covered and the watcher keeps one annotation open at most; and no    *)
(* step undoes a written outcome, the last live stop of a campaign or the  *)
(* level its stop has trailed to.                                          *)
(*                                                                         *)
(* Each service has an inductive invariant of its own; a step of one       *)
(* leaves the variables of the others, and so their invariants, alone.     *)
(***************************************************************************)
EXTENDS MCServices, FiniteSetTheorems, SequenceTheorems, WellFoundedInduction, TLAPS

-----------------------------------------------------------------------------
(* The campaign monitor.  Neither that the stop of a campaign is for all   *)
(* the fills it knows of, nor that a clean end leaves neither lots nor     *)
(* stops, is inductive.  That nothing is left at the end rests on what was *)
(* live, and how much was held, at every await of the poll before it       *)
(* (CleanLots), that on which stop the campaign points at and for what     *)
(* (Attachments), and both on how the poll got where it is (Control) and   *)
(* on what an add may still fill (Pending).                                *)

EntryPcs  == {"attach", "stop", "verify", "restop", "emergency"}
ActivePcs == {"timeout_add", "timeout_close", "replace", "position", "add", "trail", "adjust", "unold"}

Campaigns == [phase : {"none", "pending_initial", "active", "closed"}, sl : Nat, level : 0..MaxLevel,
              size : Nat, adds : 0..MaxAdds, pend : Nat, fails : Nat, known : BOOLEAN, due : BOOLEAN,
              addDue : BOOLEAN, reason : {"none", "cancelled", "emergency", "timeout", "trailing_sl"}]
Polls     == [pc : {"idle"} \cup EntryPcs \cup ActivePcs, n : Nat, level : 0..MaxLevel,
              then : {"idle", "trail"}, new : Nat]
CamOrders == [st : {"none", "open", "closed", "canceled"}, filled : 0..Lots]
CamStopSet == [size : Nat \ {0}, level : 0..MaxLevel, st : {"live", "closed", "canceled"}]

CamTypes ==
    /\ cam \in Campaigns /\ camPoll \in Polls /\ camAdder \in {"idle", "place"} /\ camOn \in BOOLEAN
    /\ camEntry \in CamOrders /\ camAdds \in Seq(CamOrders) /\ camStops \in Seq(CamStopSet)
    /\ camPos \in Int /\ camBought \in Nat /\ camFaults \in Nat /\ camTracked \in BOOLEAN
    /\ camShort \in BOOLEAN /\ camMeddled \in BOOLEAN /\ camRaced \in BOOLEAN

\* Where the poll is, the campaign has the phase and the fills that let it get
\* there; the size it counts is bounded by the adds it counts.
Control ==
    /\ ~camOn => camPoll.pc = "idle"
    /\ camPoll.pc \in EntryPcs => cam.phase = "pending_initial" /\ cam.known
    /\ camPoll.pc \in ActivePcs => cam.phase = "active"
    /\ camPoll.pc = "idle" /\ cam.phase = "pending_initial" => ~cam.known
    /\ cam.phase = "none" => ~cam.known
    /\ cam.phase = "active" => cam.known
    /\ camEntry.st = "none" => camEntry.filled = 0
    /\ camEntry.st = "open" => camEntry.filled < Lots
    /\ cam.known => camEntry.st \in {"closed", "canceled"} /\ camEntry.filled > 0
    /\ ~cam.known => cam.size = 0 /\ cam.adds = 0 /\ cam.pend = 0 /\ camAdds = <<>>
    /\ cam.known /\ cam.phase = "pending_initial" => cam.size = camEntry.filled
    /\ cam.known => cam.size > 0
    /\ cam.size <= Lots * (cam.adds + 1)
    /\ cam.fails <= camFaults

\* The add a campaign waits for is the only one that may be open, and what was
\* bought is at least what the campaign counts.
Pending ==
    /\ cam.pend <= Len(camAdds)
    /\ camPoll.pc \in {"add", "timeout_add"} => cam.pend # 0
    /\ camAdder = "place" => cam.known /\ cam.pend = 0 /\ cam.adds < MaxAdds
    /\ cam.pend # 0 => cam.adds < MaxAdds
    /\ \A i \in DOMAIN camAdds : camAdds[i].st = "open" => camAdds[i].filled < Lots
    /\ ~cam.known => camBought = camEntry.filled
    /\ camBought >= cam.size
    /\ cam.pend # 0 => camBought >= cam.size + camAdds[cam.pend].filled

\* The stop the campaign points at exists, at the level it says, and outside of
\* a replacement it is for the size the campaign counts.
Attachments ==
    /\ camStops # <<>> => camEntry.st \in {"closed", "canceled"}
    /\ cam.phase \in {"none", "pending_initial"} =>
          \A j \in DOMAIN camStops : camStops[j].size = camEntry.filled /\ camStops[j].level = 0
    /\ cam.sl <= Len(camStops)
    /\ camPoll.pc = "verify" => camPoll.new \in DOMAIN camStops
    /\ cam.phase = "active" => cam.sl \in DOMAIN camStops /\ camStops[cam.sl].level = cam.level
    /\ cam.phase = "active" /\ camOn /\ ~camShort /\ camPoll.pc \notin {"adjust", "unold"} =>
          camStops[cam.sl].size = cam.size
    /\ camPoll.pc = "adjust" => camPoll.level >= cam.level
    /\ camPoll.pc = "unold" =>
          /\ camPoll.new \in DOMAIN camStops /\ camPoll.new # cam.sl
          /\ camStops[camPoll.new].size = cam.size
          /\ camStops[camPoll.new].level = camPoll.level /\ camPoll.level >= cam.level
          /\ ~camMeddled /\ ~camRaced => camStops[camPoll.new].st = "live"

\* No stop outside S is live.
OnlyLive(S) == \A i \in DOMAIN camStops : camStops[i].st = "live" => i \in S

\* A behaviour without faults and without the races the code does not close.
Clean == camFaults = 0 /\ ~camRaced

\* In a clean behaviour the position is what the stop protects, at every step of
\* the poll, and an ended campaign has left nothing but an add it never saw.
CleanLots ==
    Clean =>
      /\ ~camMeddled /\ ~camShort
      /\ camPoll.pc \notin {"stop", "verify", "restop", "emergency", "replace", "position"}
      /\ cam.phase = "none" => camEntry = Unplaced /\ camPos = 0 /\ camStops = <<>>
      /\ cam.phase = "pending_initial" =>
            /\ camPos = camBought
            /\ camEntry.st \in {"open", "closed"}
            /\ camEntry.st = "closed" => Len(camStops) = 1 /\ camStops[1].st = "live"
      /\ cam.phase = "active" /\ camOn =>
            /\ camPoll.pc = "idle" =>
                  /\ OnlyLive({cam.sl})
                  /\ \/ camStops[cam.sl].st = "live" /\ camPos = camBought
                     \/ camStops[cam.sl].st = "closed" /\ camPos = camBought - cam.size
            /\ camPoll.pc \in {"add", "trail", "adjust"} =>
                  OnlyLive({cam.sl}) /\ camStops[cam.sl].st = "live" /\ camPos = camBought
            /\ camPoll.pc = "unold" => OnlyLive({cam.sl, camPoll.new}) /\ camPos = camBought
            /\ camPoll.pc \in {"timeout_add", "timeout_close"} =>
                  OnlyLive({}) /\ camPos \in {camBought, camBought - cam.size}
      /\ cam.phase = "closed" =>
            \/ camBought > cam.size
            \/ cam.reason = "cancelled" /\ camBought > 0
            \/ camPos = 0 /\ OnlyLive({})

CamInv == CamTypes /\ Control /\ Pending /\ Attachments /\ CleanLots

-----------------------------------------------------------------------------
(* What the steps do to the campaign, to the poll and to the stops.        *)

Pcs == {"idle"} \cup EntryPcs \cup ActivePcs

\* The fields of the campaign but for those a step changes.
LEMMA CamClosed ==
    ASSUME cam \in Campaigns, NEW why \in {"cancelled", "emergency", "timeout", "trailing_sl"},
           cam' = [cam EXCEPT !.phase = "closed", !.reason = why]
    PROVE  /\ cam' \in Campaigns /\ cam'.phase = "closed" /\ cam'.reason = why
           /\ cam'.sl = cam.sl /\ cam'.level = cam.level /\ cam'.size = cam.size
           /\ cam'.adds = cam.adds /\ cam'.pend = cam.pend /\ cam'.fails = cam.fails
           /\ cam'.known = cam.known
BY DEF Campaigns

\* The order of the entry is out.
LEMMA CamOpened ==
    ASSUME cam \in Campaigns, cam' = [cam EXCEPT !.phase = "pending_initial"]
    PROVE  /\ cam' \in Campaigns /\ cam'.phase = "pending_initial" /\ cam'.reason = cam.reason
           /\ cam'.sl = cam.sl /\ cam'.level = cam.level /\ cam'.size = cam.size
           /\ cam'.adds = cam.adds /\ cam'.pend = cam.pend /\ cam'.fails = cam.fails
           /\ cam'.known = cam.known
BY DEF Campaigns

\* The fill of the entry is known.
LEMMA CamKnown ==
    ASSUME cam \in Campaigns, NEW size \in Nat, cam' = [cam EXCEPT !.known = TRUE, !.size = size]
    PROVE  /\ cam' \in Campaigns /\ cam'.known /\ cam'.size = size
           /\ cam'.phase = cam.phase /\ cam'.reason = cam.reason
           /\ cam'.sl = cam.sl /\ cam'.level = cam.level
           /\ cam'.adds = cam.adds /\ cam'.pend = cam.pend /\ cam'.fails = cam.fails
BY DEF Campaigns

\* The first stop is there.
LEMMA CamActive ==
    ASSUME cam \in Campaigns, NEW sl \in Nat, Activate(sl)
    PROVE  /\ cam' \in Campaigns /\ cam'.phase = "active" /\ cam'.sl = sl /\ cam'.level = 0
           /\ cam'.reason = cam.reason /\ cam'.size = cam.size
           /\ cam'.adds = cam.adds /\ cam'.pend = cam.pend /\ cam'.fails = cam.fails
           /\ cam'.known = cam.known
<1>1. cam' = [cam EXCEPT !.phase = "active", !.sl = sl, !.level = 0, !.due = FALSE]
      /\ 0 \in 0..MaxLevel
  BY CampaignAssumption DEF Activate
<1> QED
  BY <1>1 DEF Campaigns

\* A failed look is counted, or the count starts again.
LEMMA CamFails ==
    ASSUME cam \in Campaigns, NEW n \in Nat, cam' = [cam EXCEPT !.fails = n]
    PROVE  /\ cam' \in Campaigns /\ cam'.fails = n
           /\ cam'.phase = cam.phase /\ cam'.reason = cam.reason
           /\ cam'.sl = cam.sl /\ cam'.level = cam.level /\ cam'.size = cam.size
           /\ cam'.adds = cam.adds /\ cam'.pend = cam.pend /\ cam'.known = cam.known
BY DEF Campaigns

\* The clock lets a replacement or an add be due.
LEMMA CamDue ==
    ASSUME cam \in Campaigns,
           cam' = [cam EXCEPT !.due = TRUE] \/ cam' = [cam EXCEPT !.addDue = TRUE]
    PROVE  /\ cam' \in Campaigns /\ cam'.fails = cam.fails
           /\ cam'.phase = cam.phase /\ cam'.reason = cam.reason
           /\ cam'.sl = cam.sl /\ cam'.level = cam.level /\ cam'.size = cam.size
           /\ cam'.adds = cam.adds /\ cam'.pend = cam.pend /\ cam'.known = cam.known
BY DEF Campaigns

\* A lost stop is replaced.
LEMMA CamReplaced ==
    ASSUME cam \in Campaigns, NEW sl \in Nat, cam' = [cam EXCEPT !.sl = sl, !.fails = 0]
    PROVE  /\ cam' \in Campaigns /\ cam'.sl = sl /\ cam'.level = cam.level /\ cam'.fails = 0
           /\ cam'.phase = cam.phase /\ cam'.reason = cam.reason /\ cam'.size = cam.size
           /\ cam'.adds = cam.adds /\ cam'.pend = cam.pend /\ cam'.known = cam.known
BY DEF Campaigns

\* A stop of another size or level takes the place of the old one.
LEMMA CamTrailed ==
    ASSUME cam \in Campaigns, NEW sl \in Nat, NEW level \in 0..MaxLevel,
           cam' = [cam EXCEPT !.sl = sl, !.level = level, !.fails = 0]
    PROVE  /\ cam' \in Campaigns /\ cam'.sl = sl /\ cam'.level = level /\ cam'.fails = 0
           /\ cam'.phase = cam.phase /\ cam'.reason = cam.reason /\ cam'.size = cam.size
           /\ cam'.adds = cam.adds /\ cam'.pend = cam.pend /\ cam'.known = cam.known
BY DEF Campaigns

\* An add is placed, or given up.
LEMMA CamPend ==
    ASSUME cam \in Campaigns, NEW pend \in Nat,
           cam' = [cam EXCEPT !.pend = pend, !.addDue = FALSE]
    PROVE  /\ cam' \in Campaigns /\ cam'.pend = pend
           /\ cam'.phase = cam.phase /\ cam'.reason = cam.reason
           /\ cam'.sl = cam.sl /\ cam'.level = cam.level /\ cam'.size = cam.size
           /\ cam'.adds = cam.adds /\ cam'.fails = cam.fails /\ cam'.known = cam.known
BY DEF Campaigns

\* The fill of an add joins the campaign.
LEMMA CamAdded ==
    ASSUME cam \in Campaigns, NEW adds \in 0..MaxAdds, NEW size \in Nat,
           cam' = [cam EXCEPT !.adds = adds, !.size = size, !.pend = 0, !.addDue = FALSE]
    PROVE  /\ cam' \in Campaigns /\ cam'.adds = adds /\ cam'.size = size /\ cam'.pend = 0
           /\ cam'.phase = cam.phase /\ cam'.reason = cam.reason
           /\ cam'.sl = cam.sl /\ cam'.level = cam.level
           /\ cam'.fails = cam.fails /\ cam'.known = cam.known
BY DEF Campaigns

\* What the fields of a campaign are.
LEMMA CamFields ==
    ASSUME cam \in Campaigns
    PROVE  /\ cam.phase \in {"none", "pending_initial", "active", "closed"}
           /\ cam.sl \in Nat /\ cam.level \in 0..MaxLevel /\ cam.size \in Nat
           /\ cam.adds \in 0..MaxAdds /\ cam.pend \in Nat /\ cam.fails \in Nat
           /\ cam.known \in BOOLEAN /\ cam.due \in BOOLEAN /\ cam.addDue \in BOOLEAN
           /\ cam.reason \in {"none", "cancelled", "emergency", "timeout", "trailing_sl"}
BY DEF Campaigns

\* What the fields of a poll are.
LEMMA PollFields ==
    ASSUME camPoll \in Polls
    PROVE  /\ camPoll.pc \in Pcs /\ camPoll.n \in Nat /\ camPoll.level \in 0..MaxLevel
           /\ camPoll.then \in {"idle", "trail"} /\ camPoll.new \in Nat
BY DEF Polls, Pcs

\* The poll is somewhere else, its counters are fresh.
LEMMA PollAt ==
    ASSUME NEW pc \in Pcs, camPoll' = At(pc)
    PROVE  camPoll' \in Polls /\ camPoll'.pc = pc
<1>1. 0 \in 0..MaxLevel
  BY CampaignAssumption
<1> QED
  BY <1>1 DEF At, Polls, Pcs

\* The poll has a stop to look at.
LEMMA PollVerify ==
    ASSUME NEW new \in Nat, camPoll' = [At("verify") EXCEPT !.new = new]
    PROVE  camPoll' \in Polls /\ camPoll'.pc = "verify" /\ camPoll'.new = new
<1>1. 0 \in 0..MaxLevel
  BY CampaignAssumption
<1> QED
  BY <1>1 DEF At, Polls, EntryPcs

\* The poll tries once more.
LEMMA PollAgain ==
    ASSUME camPoll \in Polls, NEW n \in Nat, camPoll' = [camPoll EXCEPT !.n = n]
    PROVE  camPoll' \in Polls /\ camPoll'.pc = camPoll.pc
BY DEF Polls

\* The poll is to move the stop.
LEMMA PollAdjust ==
    ASSUME NEW level \in 0..MaxLevel, NEW then \in {"idle", "trail"}, camPoll' = Adjust(level, then)
    PROVE  /\ camPoll' \in Polls /\ camPoll'.pc = "adjust" /\ camPoll'.level = level
           /\ camPoll'.then = then
<1>1. 0 \in 0..MaxLevel
  BY CampaignAssumption
<1> QED
  BY <1>1 DEF Adjust, At, Polls, ActivePcs

\* The poll is to move the stop while a cancelled add still counts as pending.
LEMMA PollHeld ==
    ASSUME NEW level \in 0..MaxLevel, camPoll' = HeldAdjust(level)
    PROVE  camPoll' \in Polls /\ camPoll'.pc = "adjust" /\ camPoll'.level = level
<1>1. 0 \in 0..MaxLevel
  BY CampaignAssumption
<1> QED
  BY <1>1 DEF HeldAdjust, Adjust, At, Polls, ActivePcs

\* The poll has a new stop and is to cancel the old one.
LEMMA PollUnold ==
    ASSUME camPoll \in Polls, NEW new \in Nat,
           camPoll' = [camPoll EXCEPT !.pc = "unold", !.new = new]
    PROVE  /\ camPoll' \in Polls /\ camPoll'.pc = "unold" /\ camPoll'.new = new
           /\ camPoll'.level = camPoll.level
BY DEF Polls, ActivePcs

\* The stops are an array.
LEMMA StopsArray ==
    ASSUME CamTypes
    PROVE  /\ Len(camStops) \in Nat /\ DOMAIN camStops = 1..Len(camStops)
           /\ \A j \in DOMAIN camStops :
                 /\ camStops[j].size \in Nat /\ camStops[j].size > 0
                 /\ camStops[j].level \in 0..MaxLevel
                 /\ camStops[j].st \in {"live", "closed", "canceled"}
           /\ (camStops = <<>> <=> Len(camStops) = 0)
<1>1. camStops \in Seq(CamStopSet)
  BY DEF CamTypes
<1>2. \A j \in 1..Len(camStops) : camStops[j] \in CamStopSet
  BY <1>1, ElementOfSeq
<1>3. (camStops = <<>> <=> Len(camStops) = 0)
  BY <1>1, EmptySeq
<1>4. Len(camStops) \in Nat /\ DOMAIN camStops = 1..Len(camStops)
  BY <1>1, LenProperties
<1>5. ASSUME NEW j \in DOMAIN camStops
      PROVE  /\ camStops[j].size \in Nat /\ camStops[j].size > 0
             /\ camStops[j].level \in 0..MaxLevel
             /\ camStops[j].st \in {"live", "closed", "canceled"}
  BY <1>2, <1>4 DEF CamStopSet
<1> QED
  BY <1>3, <1>4, <1>5

\* The adds are an array.
LEMMA AddsArray ==
    ASSUME CamTypes
    PROVE  /\ Len(camAdds) \in Nat /\ DOMAIN camAdds = 1..Len(camAdds)
           /\ \A j \in DOMAIN camAdds :
                 camAdds[j].filled \in 0..Lots /\ camAdds[j].st \in {"none", "open", "closed", "canceled"}
<1>1. camAdds \in Seq(CamOrders)
  BY DEF CamTypes
<1>2. \A j \in 1..Len(camAdds) : camAdds[j] \in CamOrders
  BY <1>1, ElementOfSeq
<1> QED
  BY <1>1, <1>2, LenProperties DEF CamOrders

\* A stop that is placed joins the others.
StopJoined(size, level) ==
    /\ camStops' \in Seq(CamStopSet) /\ Len(camStops') = Len(camStops) + 1
    /\ DOMAIN camStops' = 1..(Len(camStops) + 1)
    /\ \A j \in DOMAIN camStops : camStops'[j] = camStops[j]
    /\ camStops'[Len(camStops) + 1].size = size
    /\ camStops'[Len(camStops) + 1].level = level
    /\ camStops'[Len(camStops) + 1].st = "live"

\* A stop that is appended joins the others.
LEMMA StopAdded ==
    ASSUME CamTypes, NEW size \in Nat \ {0}, NEW level \in 0..MaxLevel,
           camStops' = Append(camStops, Stop(size, level))
    PROVE  StopJoined(size, level)
<1>1. Stop(size, level) \in CamStopSet
  BY DEF Stop, CamStopSet
<1>2. /\ camStops' \in Seq(CamStopSet) /\ Len(camStops') = Len(camStops) + 1
      /\ \A j \in 1..Len(camStops) : camStops'[j] = camStops[j]
      /\ camStops'[Len(camStops) + 1] = Stop(size, level)
  BY <1>1, AppendProperties DEF CamTypes
<1> QED
  BY <1>2, LenProperties, StopsArray DEF Stop, StopJoined

\* A stop that ends stays in its place.
StopEnded(i, st) ==
    /\ camStops' \in Seq(CamStopSet) /\ Len(camStops') = Len(camStops)
    /\ DOMAIN camStops' = DOMAIN camStops
    /\ \A j \in DOMAIN camStops : /\ camStops'[j].st = IF j = i THEN st ELSE camStops[j].st
                                  /\ camStops'[j].size = camStops[j].size
                                  /\ camStops'[j].level = camStops[j].level

\* A stop that changes its state is still the same stop.
LEMMA StopMarked ==
    ASSUME CamTypes, NEW i \in DOMAIN camStops, NEW st \in {"live", "closed", "canceled"},
           camStops' = [camStops EXCEPT ![i].st = st]
    PROVE  StopEnded(i, st)
<1>1. camStops \in Seq(CamStopSet) /\ camStops[i] \in CamStopSet
  BY ElementOfSeq, LenProperties DEF CamTypes
<1>2. [camStops[i] EXCEPT !.st = st] \in CamStopSet
  BY <1>1 DEF CamStopSet
<1>3. camStops' = [camStops EXCEPT ![i] = [camStops[i] EXCEPT !.st = st]]
  OBVIOUS
<1>4. camStops' \in Seq(CamStopSet) /\ Len(camStops') = Len(camStops)
      /\ (\A j \in 1..Len(camStops) : camStops'[j] = IF j = i THEN [camStops[i] EXCEPT !.st = st] ELSE camStops[j])
  BY <1>1, <1>2, <1>3, ExceptSeq, LenProperties
<1> QED
  BY <1>1, <1>4, LenProperties DEF CamStopSet, StopEnded

\* An order that changes stays in its place.
OrderMoved(i, st, filled) ==
    /\ camAdds' \in Seq(CamOrders) /\ Len(camAdds') = Len(camAdds)
    /\ DOMAIN camAdds' = DOMAIN camAdds
    /\ \A j \in DOMAIN camAdds : /\ camAdds'[j].st = IF j = i THEN st ELSE camAdds[j].st
                                 /\ camAdds'[j].filled = IF j = i THEN filled ELSE camAdds[j].filled

\* An add whose order moves is still the same add.
LEMMA AddMarked ==
    ASSUME CamTypes, NEW i \in DOMAIN camAdds, NEW st \in {"open", "closed", "canceled", "none"},
           NEW filled \in 0..Lots,
           \/ camAdds' = [camAdds EXCEPT ![i].st = st] /\ filled = camAdds[i].filled
           \/ camAdds' = [camAdds EXCEPT ![i] = [st |-> st, filled |-> filled]]
    PROVE  OrderMoved(i, st, filled)
<1>1. camAdds \in Seq(CamOrders) /\ camAdds[i] \in CamOrders /\ i \in 1..Len(camAdds)
  BY ElementOfSeq, LenProperties DEF CamTypes
<1>2. [st |-> st, filled |-> filled] \in CamOrders
  BY DEF CamOrders
<1>3. camAdds' = [camAdds EXCEPT ![i] = [st |-> st, filled |-> filled]]
  <2>1. CASE camAdds' = [camAdds EXCEPT ![i].st = st] /\ filled = camAdds[i].filled
    <3>1. [camAdds[i] EXCEPT !.st = st] = [st |-> st, filled |-> filled]
      BY <1>1, <2>1 DEF CamOrders
    <3> QED
      BY <2>1, <3>1
  <2> QED
    BY <2>1
<1>4. camAdds' \in Seq(CamOrders) /\ Len(camAdds') = Len(camAdds)
      /\ (\A j \in 1..Len(camAdds) : camAdds'[j] = IF j = i THEN [st |-> st, filled |-> filled] ELSE camAdds[j])
  BY <1>1, <1>2, <1>3, ExceptSeq
<1> QED
  BY <1>1, <1>4, LenProperties DEF OrderMoved

\* An add that is appended joins the others.
LEMMA AddJoined ==
    ASSUME CamTypes, camAdds' = Append(camAdds, Placed)
    PROVE  /\ camAdds' \in Seq(CamOrders) /\ Len(camAdds') = Len(camAdds) + 1
           /\ DOMAIN camAdds' = 1..(Len(camAdds) + 1)
           /\ \A j \in DOMAIN camAdds : camAdds'[j] = camAdds[j]
           /\ camAdds'[Len(camAdds) + 1].filled = 0 /\ camAdds'[Len(camAdds) + 1].st = "open"
<1>1. Placed \in CamOrders /\ Placed.filled = 0 /\ Placed.st = "open"
  BY CampaignAssumption DEF Placed, CamOrders
<1>2. /\ camAdds' \in Seq(CamOrders) /\ Len(camAdds') = Len(camAdds) + 1
      /\ \A j \in 1..Len(camAdds) : camAdds'[j] = camAdds[j]
      /\ camAdds'[Len(camAdds) + 1] = Placed
  BY <1>1, AppendProperties DEF CamTypes
<1> QED
  BY <1>1, <1>2, LenProperties, AddsArray

-----------------------------------------------------------------------------
(* The exchange, other people and the clock.                               *)

\* What the invariant says of the values of the variables.
LEMMA Values ==
    ASSUME CamInv
    PROVE  /\ cam \in Campaigns /\ camPoll \in Polls
           /\ cam.phase \in {"none", "pending_initial", "active", "closed"}
           /\ cam.sl \in Nat /\ cam.level \in 0..MaxLevel /\ cam.size \in Nat
           /\ cam.adds \in 0..MaxAdds /\ cam.pend \in Nat /\ cam.fails \in Nat
           /\ cam.known \in BOOLEAN
           /\ cam.reason \in {"none", "cancelled", "emergency", "timeout", "trailing_sl"}
           /\ camPoll.pc \in Pcs /\ camPoll.level \in 0..MaxLevel
           /\ camPoll.then \in {"idle", "trail"} /\ camPoll.new \in Nat
           /\ Len(camStops) \in Nat /\ DOMAIN camStops = 1..Len(camStops)
           /\ Len(camAdds) \in Nat /\ DOMAIN camAdds = 1..Len(camAdds)
           /\ camPos \in Int /\ camBought \in Nat /\ camFaults \in Nat
BY CamFields, PollFields, StopsArray, AddsArray DEF CamInv, CamTypes


\* The entry fills, and with the last of it the stop is attached.
LEMMA EntryFillsKeeps ==
    ASSUME CamInv, EntryFills
    PROVE  CamInv'
<1>1. /\ camEntry.st = "open" /\ ~cam.known /\ camStops = <<>> /\ cam.phase # "active"
      /\ cam.size = 0 /\ camAdds = <<>> /\ camBought = camEntry.filled /\ camEntry.filled \in 0..Lots
      /\ camEntry.filled < Lots
  BY Values DEF CamInv, CamTypes, CamOrders, Control, Pending, Attachments, EntryFills
<1>2. /\ camEntry' \in CamOrders /\ camEntry'.filled = camEntry.filled + 1
      /\ camEntry'.st = IF camEntry.filled + 1 = Lots THEN "closed" ELSE "open"
  <2>1. camEntry' = [st |-> IF camEntry.filled + 1 = Lots THEN "closed" ELSE "open",
                     filled |-> camEntry.filled + 1]
    BY DEF EntryFills
  <2>2. camEntry.filled + 1 \in 0..Lots
    BY <1>1, CampaignAssumption
  <2> QED
    BY <2>1, <2>2 DEF CamOrders
<1>3. /\ UNCHANGED <<cam, camPoll, camAdder, camOn, camAdds, camTracked, camShort, camMeddled, camRaced>>
      /\ camPos' = camPos + 1 /\ camBought' = camBought + 1
  BY DEF EntryFills
<1>4. /\ camFaults' = camFaults \/ camFaults' = camFaults + 1
      /\ \/ UNCHANGED camStops
         \/ StopJoined(Lots, 0) /\ camEntry'.filled = Lots /\ camEntry'.st = "closed"
      /\ camEntry'.st = "closed" /\ camFaults' = camFaults => StopJoined(Lots, 0)
  <2>1. camStops' = Append(camStops, Stop(Lots, 0)) => StopJoined(Lots, 0)
    BY StopAdded, CampaignAssumption DEF CamInv
  <2>2. camFaults \in Nat
    BY Values
  <2> QED
    BY <1>1, <1>2, <2>1, <2>2 DEF EntryFills, Attached, CamFine, CamFault
<1>5. CamTypes'
  BY <1>2, <1>3, <1>4, Values DEF CamInv, CamTypes, StopJoined
<1>6. Control'
  BY <1>1, <1>2, <1>3, <1>4, Values, CampaignAssumption DEF CamInv, Control, EntryPcs, ActivePcs
<1>7. Pending'
  BY <1>1, <1>2, <1>3, <1>4, Values DEF CamInv, Pending
<1>8. Attachments'
  BY <1>1, <1>2, <1>3, <1>4, Values DEF CamInv, Attachments, StopJoined, Control, EntryPcs, ActivePcs
<1>9. CleanLots'
  BY <1>1, <1>2, <1>3, <1>4, Values DEF CamInv, CleanLots, Clean, Unplaced, StopJoined
<1> QED
  BY <1>5, <1>6, <1>7, <1>8, <1>9 DEF CamInv

\* The entry is cancelled at the exchange, with what it has filled.
LEMMA EntryCancelledKeeps ==
    ASSUME CamInv, EntryCancelled
    PROVE  CamInv'
<1>1. /\ camEntry.st = "open" /\ ~cam.known /\ camStops = <<>> /\ cam.phase # "active"
      /\ camEntry.filled \in 0..Lots
  BY Values DEF CamInv, CamTypes, CamOrders, Control, Pending, Attachments, EntryCancelled
<1>2. camEntry' \in CamOrders /\ camEntry'.filled = camEntry.filled /\ camEntry'.st = "canceled"
  BY <1>1 DEF EntryCancelled, CamInv, CamTypes, CamOrders
<1>3. /\ UNCHANGED <<cam, camPoll, camAdder, camOn, camAdds, camPos, camBought, camTracked,
                     camShort, camMeddled, camRaced>>
      /\ camFaults' = camFaults + 1
  BY DEF EntryCancelled, CamFault, camLots
<1>4. UNCHANGED camStops \/ StopJoined(camEntry.filled, 0)
  <2>1. camEntry.filled > 0 => camEntry.filled \in Nat \ {0}
    BY <1>1, CampaignAssumption
  <2>2. 0 \in 0..MaxLevel
    BY CampaignAssumption
  <2> QED
    BY <2>1, <2>2, StopAdded DEF EntryCancelled, CamInv
<1>5. CamTypes'
  BY <1>2, <1>3, <1>4, Values DEF CamInv, CamTypes, StopJoined
<1>6. Control'
  BY <1>1, <1>2, <1>3, Values DEF CamInv, Control, EntryPcs, ActivePcs
<1>7. Pending'
  BY <1>1, <1>2, <1>3, Values DEF CamInv, Pending
<1>8. Attachments'
  BY <1>1, <1>2, <1>3, <1>4, Values DEF CamInv, Attachments, StopJoined, Control, EntryPcs, ActivePcs
<1>9. CleanLots'
  BY <1>3, Values DEF CleanLots, Clean
<1> QED
  BY <1>5, <1>6, <1>7, <1>8, <1>9 DEF CamInv

\* An add fills.
LEMMA AddFillsKeeps ==
    ASSUME CamInv, NEW i \in DOMAIN camAdds, AddFills(i)
    PROVE  CamInv'
<1>1. camAdds[i].st = "open" /\ camAdds[i].filled \in 0..Lots /\ camAdds[i].filled < Lots
  BY AddsArray DEF CamInv, Pending, AddFills
<1>2. OrderMoved(i, IF camAdds[i].filled + 1 = Lots THEN "closed" ELSE "open", camAdds[i].filled + 1)
  <2>1. camAdds[i].filled + 1 \in 0..Lots
    BY <1>1, CampaignAssumption
  <2>2. (IF camAdds[i].filled + 1 = Lots THEN "closed" ELSE "open") \in {"open", "closed", "canceled", "none"}
    OBVIOUS
  <2>3. camAdds' = [camAdds EXCEPT ![i] = [st |-> IF camAdds[i].filled + 1 = Lots THEN "closed" ELSE "open",
                                          filled |-> camAdds[i].filled + 1]]
    BY DEF AddFills
  <2> QED
    BY <2>1, <2>2, <2>3, AddMarked DEF CamInv
<1>3. /\ UNCHANGED <<cam, camPoll, camAdder, camOn, camEntry, camStops, camTracked, camFaults,
                     camShort, camMeddled, camRaced>>
      /\ camPos' = camPos + 1 /\ camBought' = camBought + 1
  BY DEF AddFills
<1>4. cam.known
  BY Values DEF CamInv, Control
<1>5. CamTypes'
  BY <1>2, <1>3, Values DEF CamInv, CamTypes, OrderMoved
<1>6. Control'
  BY <1>3, <1>4, Values DEF CamInv, Control
<1>7. Pending'
  <2>1. \A j \in DOMAIN camAdds : camAdds'[j].st = "open" => camAdds'[j].filled < Lots
    BY <1>1, <1>2, CampaignAssumption DEF CamInv, Pending, OrderMoved
  <2>2. camBought' >= cam.size
    BY <1>3, Values DEF CamInv, Pending
  <2>3. cam.pend # 0 => camBought' >= cam.size + camAdds'[cam.pend].filled
    <3>1. CASE cam.pend # 0
      <4>1. /\ cam.pend \in DOMAIN camAdds /\ camAdds[cam.pend].filled \in 0..Lots
            /\ camBought >= cam.size + camAdds[cam.pend].filled
        BY <3>1, Values, AddsArray DEF CamInv, Pending
      <4>2. \/ camAdds'[cam.pend].filled = camAdds[cam.pend].filled
            \/ camAdds'[cam.pend].filled = camAdds[cam.pend].filled + 1
        BY <1>2, <4>1 DEF OrderMoved
      <4>3. camAdds[cam.pend].filled \in Nat /\ cam.size \in Nat /\ camBought \in Nat
        BY <4>1, Values, CampaignAssumption
      <4>4. camBought' = camBought + 1
        BY <1>3
      <4> QED
        BY <4>1, <4>2, <4>3, <4>4
    <3> QED
      BY <3>1
  <2> QED
    BY <1>2, <1>3, <1>4, <2>1, <2>2, <2>3, Values DEF CamInv, Pending, OrderMoved
<1>8. Attachments'
  BY <1>3 DEF CamInv, Attachments
<1>9. CleanLots'
  BY <1>3, <1>4, Values DEF CamInv, CleanLots, Clean, Control, Pending, OnlyLive
<1> QED
  BY <1>5, <1>6, <1>7, <1>8, <1>9 DEF CamInv

\* Somebody else cancels an add.
LEMMA AddCancelledKeeps ==
    ASSUME CamInv, NEW i \in DOMAIN camAdds, AddCancelled(i)
    PROVE  CamInv'
<1>1. camAdds[i].filled \in 0..Lots
  BY AddsArray DEF CamInv
<1>2. OrderMoved(i, "canceled", camAdds[i].filled)
  BY <1>1, AddMarked DEF AddCancelled, CamInv
<1>3. /\ UNCHANGED <<cam, camPoll, camAdder, camOn, camEntry, camStops, camTracked, camPos, camBought,
                     camShort, camMeddled, camRaced>>
      /\ camFaults' = camFaults + 1 /\ camFaults < MaxCamFaults
  BY DEF AddCancelled, CamFault, camLots
<1>4. cam.known
  BY Values DEF CamInv, Control
<1>5. CamTypes'
  BY <1>2, <1>3, Values DEF CamInv, CamTypes, OrderMoved
<1>6. Control'
  BY <1>3, <1>4, Values DEF CamInv, Control
<1>7. Pending'
  <2>1. \A j \in DOMAIN camAdds' : camAdds'[j].st = "open" => camAdds'[j].filled < Lots
    BY <1>2 DEF CamInv, Pending, OrderMoved
  <2>2. cam.pend # 0 => camBought' >= cam.size + camAdds'[cam.pend].filled
    <3>1. CASE cam.pend # 0
      <4>1. cam.pend \in DOMAIN camAdds /\ camBought >= cam.size + camAdds[cam.pend].filled
        BY <3>1, Values, AddsArray DEF CamInv, Pending
      <4> QED
        BY <1>2, <1>3, <4>1 DEF OrderMoved
    <3> QED
      BY <3>1
  <2> QED
    BY <1>2, <1>3, <1>4, <2>1, <2>2, Values DEF CamInv, Pending, OrderMoved
<1>8. Attachments'
  BY <1>3, Values DEF CamInv, Attachments
<1>9. CleanLots'
  BY <1>3, Values DEF CamInv, CleanLots, Clean, OnlyLive
<1> QED
  BY <1>5, <1>6, <1>7, <1>8, <1>9 DEF CamInv

\* A stop fires.
LEMMA StopHitsKeeps ==
    ASSUME CamInv, StopHits
    PROVE  CamInv'
<1>1. PICK i \in LiveStops :
        /\ camStops' = [camStops EXCEPT ![i].st = "closed"]
        /\ camPos' = camPos - camStops[i].size
        /\ camRaced' = (camRaced \/ cam.phase # "active" \/ camPoll.pc # "idle")
        /\ UNCHANGED <<cam, camPoll, camAdder, camOn, camEntry, camAdds, camBought, camTracked, camFaults,
                       camShort, camMeddled>>
  BY DEF StopHits
<1>2. i \in DOMAIN camStops /\ camStops[i].st = "live" /\ camStops[i].size \in Nat
  BY StopsArray DEF LiveStops, CamInv
<1>3. StopEnded(i, "closed")
  BY <1>1, <1>2, StopMarked DEF CamInv
<1>4. CamTypes'
  BY <1>1, <1>2, <1>3, Values DEF CamInv, CamTypes, StopEnded
<1>5. Control'
  BY <1>1 DEF CamInv, Control
<1>6. Pending'
  BY <1>1 DEF CamInv, Pending
<1>7. Attachments'
  <2>1. camPoll.pc = "unold" => camRaced' /\ camPoll.new \in DOMAIN camStops
    BY <1>1 DEF CamInv, Attachments
  <2> QED
    BY <1>1, <1>3, <2>1, Values, StopsArray DEF CamInv, Attachments, StopEnded
<1>8. CleanLots'
  <2> SUFFICES ASSUME Clean' PROVE CleanLots'
    BY DEF CleanLots
  <2>1. Clean /\ cam.phase = "active" /\ camPoll.pc = "idle" /\ ~camMeddled /\ ~camShort
    BY <1>1 DEF Clean, CamInv, CleanLots, CamTypes
  <2>2. CASE ~camOn
    BY <1>1, <2>1, <2>2 DEF CleanLots
  <2>3. CASE camOn
    <3>1. /\ OnlyLive({cam.sl}) /\ i = cam.sl /\ camPos = camBought /\ camStops[i].size = cam.size
          /\ cam.sl \in DOMAIN camStops
      BY <1>2, <2>1, <2>3 DEF CamInv, CleanLots, OnlyLive, Attachments
    <3>2. OnlyLive({cam.sl})' /\ camStops'[cam'.sl].st = "closed" /\ camPos' = camBought' - cam'.size
      BY <1>1, <1>3, <3>1 DEF OnlyLive, StopEnded
    <3> QED
      BY <1>1, <2>1, <2>3, <3>2 DEF CleanLots
  <2> QED
    BY <2>2, <2>3
<1> QED
  BY <1>4, <1>5, <1>6, <1>7, <1>8 DEF CamInv

\* Somebody else cancels a stop.
LEMMA StopMeddledKeeps ==
    ASSUME CamInv, StopMeddled
    PROVE  CamInv'
<1>1. PICK i \in LiveStops : camStops' = [camStops EXCEPT ![i].st = "canceled"]
  BY DEF StopMeddled
<1>2. /\ UNCHANGED <<cam, camPoll, camAdder, camOn, camEntry, camAdds, camPos, camBought, camTracked,
                     camShort, camRaced>>
      /\ camMeddled' = TRUE /\ camFaults' = camFaults + 1
  BY DEF StopMeddled, CamFault, camLots
<1>3. StopEnded(i, "canceled")
  BY <1>1, StopMarked DEF CamInv, LiveStops
<1>4. CamTypes'
  BY <1>2, <1>3, Values DEF CamInv, CamTypes, StopEnded
<1>5. Control'
  BY <1>2, Values DEF CamInv, Control
<1>6. Pending'
  BY <1>2 DEF CamInv, Pending
<1>7. Attachments'
  <2>1. /\ camStops' \in Seq(CamStopSet) /\ Len(camStops') = Len(camStops)
        /\ DOMAIN camStops' = DOMAIN camStops
        /\ \A j \in DOMAIN camStops :
              camStops'[j].size = camStops[j].size /\ camStops'[j].level = camStops[j].level
    BY <1>3 DEF StopEnded
  <2>2. Attachments
    BY DEF CamInv
  <2>3. camStops' # <<>> => camStops # <<>>
    BY <2>1
  <2>4. \A j \in DOMAIN camStops' :
           camStops'[j].size = camStops[j].size /\ camStops'[j].level = camStops[j].level
    BY <2>1
  <2> QED
    BY <1>2, <2>1, <2>2, <2>3, <2>4 DEF Attachments
<1>8. CleanLots'
  BY <1>2, Values DEF CleanLots, Clean
<1> QED
  BY <1>4, <1>5, <1>6, <1>7, <1>8 DEF CamInv

\* A 4H candle closes.
LEMMA ClockKeeps ==
    ASSUME CamInv, Clock
    PROVE  CamInv'
<1>1. /\ cam' \in Campaigns /\ cam'.fails = cam.fails
      /\ cam'.phase = cam.phase /\ cam'.reason = cam.reason
      /\ cam'.sl = cam.sl /\ cam'.level = cam.level /\ cam'.size = cam.size
      /\ cam'.adds = cam.adds /\ cam'.pend = cam.pend /\ cam'.known = cam.known
  BY Values, CamDue DEF Clock
<1>2. UNCHANGED <<camPoll, camAdder, camOn, camEntry, camAdds, camStops, camPos, camBought, camTracked,
                  camFaults, camShort, camMeddled, camRaced>>
  BY DEF Clock, camMarket
<1>3. CamTypes'
  BY <1>1, <1>2 DEF CamInv, CamTypes
<1>4. Control' /\ Pending' /\ Attachments'
  BY <1>1, <1>2 DEF CamInv, Control, Pending, Attachments
<1>5. CleanLots'
  BY <1>1, <1>2 DEF CamInv, CleanLots, Clean, OnlyLive
<1> QED
  BY <1>3, <1>4, <1>5 DEF CamInv

\* The old stop is cancelled, the new one is held.
LEMMA AdjustCancelKeeps ==
    ASSUME CamInv, AdjustCancel
    PROVE  CamInv'
<1>0. CamTypes /\ Control /\ Pending /\ Attachments /\ CleanLots
  BY DEF CamInv
<1>1. camPoll.pc = "unold" /\ camOn /\ cam.phase = "active"
  BY <1>0 DEF AdjustCancel, Polling, Control, ActivePcs
<1>2. UNCHANGED <<camEntry, camAdds, camPos, camBought, camTracked, camAdder, camOn, camShort, camMeddled, camRaced>>
  BY DEF AdjustCancel, Same, camLots
<1>3. /\ cam' \in Campaigns /\ cam'.sl = camPoll.new /\ cam'.level = camPoll.level /\ cam'.fails = 0
      /\ cam'.phase = cam.phase /\ cam'.reason = cam.reason /\ cam'.size = cam.size
      /\ cam'.adds = cam.adds /\ cam'.pend = cam.pend /\ cam'.known = cam.known
  BY Values, CamTrailed DEF AdjustCancel
<1>4. camPoll' \in Polls /\ camPoll'.pc \in {"idle", "trail"}
  BY Values, PollAt DEF AdjustCancel, Pcs, ActivePcs
<1>5. \/ camFaults' = camFaults + 1 /\ UNCHANGED camStops
      \/ camFaults' = camFaults /\ StopEnded(cam.sl, IF camStops[cam.sl].st = "live" THEN "canceled" ELSE camStops[cam.sl].st)
  <2>1. cam.sl \in DOMAIN camStops
    BY <1>0, <1>1 DEF Attachments
  <2>2. (IF camStops[cam.sl].st = "live" THEN "canceled" ELSE camStops[cam.sl].st) \in {"live", "closed", "canceled"}
    BY <2>1, <1>0, StopsArray
  <2> QED
    BY <1>0, <2>1, <2>2, StopMarked DEF AdjustCancel, CancelStop, CamFault, CamFine
<1>6. CamTypes'
  BY <1>0, <1>2, <1>3, <1>4, <1>5, Values DEF CamTypes, StopEnded
<1>7. Control'
  BY <1>0, <1>1, <1>2, <1>3, <1>4, <1>5, Values DEF Control, EntryPcs, ActivePcs
<1>8. Pending'
  BY <1>0, <1>1, <1>2, <1>3, <1>4, <1>5, Values DEF Pending
<1>9. Attachments'
  BY <1>0, <1>1, <1>2, <1>3, <1>4, <1>5, Values DEF Attachments, StopEnded
<1>10. CleanLots'
  <2> SUFFICES ASSUME Clean' PROVE CleanLots'
    BY DEF CleanLots
  <2>1. Clean /\ camFaults' = camFaults
    BY <1>2, <1>5, Values DEF Clean
  <2>2. /\ ~camMeddled /\ ~camShort /\ camPos = camBought
        /\ OnlyLive({cam.sl, camPoll.new}) /\ camStops[camPoll.new].st = "live"
        /\ camPoll.new \in DOMAIN camStops /\ camPoll.new # cam.sl
    BY <1>0, <1>1, <2>1 DEF CleanLots, Clean, Attachments
  <2>3. StopEnded(cam.sl, IF camStops[cam.sl].st = "live" THEN "canceled" ELSE camStops[cam.sl].st)
    BY <1>5, <2>1, Values
  <2>4. OnlyLive({cam.sl})' /\ camStops'[cam'.sl].st = "live"
    BY <1>3, <2>2, <2>3 DEF OnlyLive, StopEnded
  <2> QED
    BY <1>1, <1>2, <1>3, <1>4, <2>1, <2>2, <2>4 DEF CleanLots
<1> QED
  BY <1>6, <1>7, <1>8, <1>9, <1>10 DEF CamInv

-----------------------------------------------------------------------------
(* Opening the campaign, its entry, and its end.                           *)

\* The campaign is opened, or its entry refused.
LEMMA ExecuteKeeps ==
    ASSUME CamInv, Execute
    PROVE  CamInv'
<1>1. cam.phase = "none" /\ camEntry = Unplaced /\ ~cam.known /\ camPoll.pc = "idle" /\ camStops = <<>>
      /\ camEntry.filled = 0 /\ camBought = 0
  BY Values DEF Execute, CamInv, Control, Pending, Attachments, Unplaced, EntryPcs, ActivePcs, Pcs
<1>2. /\ UNCHANGED <<camPoll, camAdder, camOn, camAdds, camStops, camPos, camBought, camShort, camMeddled, camRaced>>
      /\ camEntry' \in CamOrders /\ camEntry'.filled = 0 /\ camEntry'.st \in {"open", "none"}
  <2>1. Placed \in CamOrders /\ Unplaced \in CamOrders /\ Placed.filled = 0 /\ Unplaced.filled = 0
        /\ Placed.st = "open" /\ Unplaced.st = "none"
    BY CampaignAssumption DEF Placed, Unplaced, CamOrders
  <2> QED
    BY <1>1, <2>1 DEF Execute, camLots
<1>3. /\ cam' \in Campaigns
      /\ cam'.sl = cam.sl /\ cam'.level = cam.level /\ cam'.size = cam.size
      /\ cam'.adds = cam.adds /\ cam'.pend = cam.pend /\ cam'.fails = cam.fails
      /\ cam'.known = cam.known
      /\ \/ cam'.phase = "pending_initial" /\ camFaults' = camFaults /\ camEntry'.st = "open" /\ camTracked' = TRUE
         \/ cam'.phase = "none" /\ camFaults' = camFaults + 1 /\ camTracked' = camTracked
  <2>1. CASE CamFine /\ camEntry' = Placed /\ camTracked' = TRUE /\ cam' = [cam EXCEPT !.phase = "pending_initial"]
    BY <2>1, Values, CamOpened DEF CamFine, Placed
  <2>2. CASE CamFault /\ UNCHANGED <<cam, camTracked>>
    BY <1>1, <2>2, Values DEF CamFault
  <2> QED
    BY <2>1, <2>2 DEF Execute
<1>4. CamTypes'
  <2>1. camTracked' \in BOOLEAN
    BY <1>3, Zenon DEF CamInv, CamTypes
  <2>2. camFaults' \in Nat
    BY <1>3, Values
  <2> QED
    BY <1>2, <1>3, <2>1, <2>2 DEF CamInv, CamTypes
<1>5. Control'
  BY <1>1, <1>2, <1>3, Values, CampaignAssumption DEF CamInv, Control, EntryPcs, ActivePcs
<1>6. Pending' /\ Attachments'
  BY <1>1, <1>2, <1>3, Values, StopsArray DEF CamInv, Pending, Attachments
<1>7. CleanLots'
  BY <1>1, <1>2, <1>3, Values DEF CamInv, CleanLots, Clean
<1> QED
  BY <1>4, <1>5, <1>6, <1>7 DEF CamInv

\* The campaign ends: nothing is carried, the orders of the market stay.
LEMMA Ending ==
    ASSUME CamInv, NEW why \in {"cancelled", "emergency", "timeout", "trailing_sl"}, CloseCampaign(why),
           UNCHANGED <<camAdds, camStops, camBought, camAdder, camShort, camMeddled, camRaced>>,
           camOn' \in BOOLEAN, camFaults' \in {camFaults, camFaults + 1}, camPos' \in Int,
           camEntry' \in CamOrders, camEntry'.filled = camEntry.filled,
           \/ camEntry'.st = camEntry.st
           \/ camEntry.st = "open" /\ camEntry'.st = "canceled",
           Clean' => /\ camMeddled = FALSE /\ camShort = FALSE
                     /\ \/ camBought > cam.size
                        \/ why = "cancelled" /\ camBought > 0
                        \/ camPos' = 0 /\ OnlyLive({})
    PROVE  CamInv'
<1>1. /\ cam' \in Campaigns /\ cam'.phase = "closed" /\ cam'.reason = why
      /\ cam'.sl = cam.sl /\ cam'.level = cam.level /\ cam'.size = cam.size
      /\ cam'.adds = cam.adds /\ cam'.pend = cam.pend /\ cam'.fails = cam.fails
      /\ cam'.known = cam.known
  BY Values, CamClosed DEF CloseCampaign
<1>2. camPoll' \in Polls /\ camPoll'.pc = "idle" /\ camTracked' = FALSE
  BY PollAt DEF CloseCampaign, Pcs
<1>3. CamTypes'
  <2>1. camTracked' \in BOOLEAN
    BY <1>2, Zenon
  <2>2. camFaults' \in Nat
    BY Values
  <2> QED
    BY <1>1, <1>2, <2>1, <2>2 DEF CamInv, CamTypes
<1>4. Control'
  BY <1>1, <1>2, Values DEF CamInv, Control, EntryPcs, ActivePcs
<1>5. Pending' /\ Attachments'
  BY <1>1, <1>2, Values DEF CamInv, Pending, Attachments
<1>6. CleanLots'
  BY <1>1, <1>2 DEF CleanLots, OnlyLive
<1> QED
  BY <1>3, <1>4, <1>5, <1>6 DEF CamInv

\* An entry that counts as pending is cancelled, or the cancel is lost.
LEMMA PendingEnds ==
    ASSUME CamInv, cam.phase = "pending_initial", CloseCampaign("cancelled"),
           \/ CamFine /\ camEntry' = [camEntry EXCEPT !.st = IF @ = "open" THEN "canceled" ELSE @]
           \/ CamFault /\ UNCHANGED camEntry,
           UNCHANGED <<camAdds, camStops, camPos, camBought, camAdder, camShort, camMeddled, camRaced>>,
           camOn' \in BOOLEAN
    PROVE  CamInv'
<1>1. /\ camEntry' \in CamOrders /\ camEntry'.filled = camEntry.filled
      /\ \/ camEntry'.st = camEntry.st
         \/ camEntry.st = "open" /\ camEntry'.st = "canceled"
  BY DEF CamInv, CamTypes, CamOrders
<1>2. camFaults' \in {camFaults, camFaults + 1} /\ camPos' \in Int
  BY Values DEF CamFine, CamFault
<1>3. ASSUME Clean'
      PROVE  /\ camMeddled = FALSE /\ camShort = FALSE
             /\ \/ camBought > cam.size
                \/ camBought > 0
                \/ camPos' = 0 /\ OnlyLive({})
  <2>1. Clean /\ camPos = camBought /\ camMeddled = FALSE /\ camShort = FALSE
    BY <1>2, <1>3, Values DEF Clean, CamInv, CleanLots, CamTypes
  <2>2. ASSUME camBought = 0 PROVE OnlyLive({})
    <3>1. camEntry.filled = 0
      BY <2>2, Values DEF CamInv, Control, Pending
    <3>2. ASSUME NEW j \in DOMAIN camStops PROVE FALSE
      BY <3>1, <3>2, StopsArray DEF CamInv, Attachments
    <3> QED
      BY <3>2 DEF OnlyLive
  <2> QED
    BY <2>1, <2>2, Values
<1> QED
  BY <1>1, <1>2, <1>3, Ending

\* The bot is stopped: what has not filled is cancelled.
LEMMA StopMonitorKeeps ==
    ASSUME CamInv, StopMonitor
    PROVE  CamInv'
<1>1. CASE cam.phase = "pending_initial"
  BY <1>1, PendingEnds DEF StopMonitor, camLots
<1>2. CASE cam.phase # "pending_initial"
  <2>1. /\ UNCHANGED <<cam, camEntry, camTracked, camFaults, camAdder, camAdds, camStops, camPos, camBought,
                       camShort, camMeddled, camRaced>>
        /\ camOn' = FALSE
    BY <1>2 DEF StopMonitor, camLots, CamFine
  <2>2. camPoll' \in Polls /\ camPoll'.pc = "idle"
    BY <1>2, PollAt DEF StopMonitor, Pcs
  <2>3. CamTypes'
    BY <2>1, <2>2 DEF CamInv, CamTypes
  <2>4. Control' /\ Pending' /\ Attachments'
    BY <1>2, <2>1, <2>2 DEF CamInv, Control, Pending, Attachments, EntryPcs, ActivePcs
  <2>5. CleanLots'
    BY <1>2, <2>1, <2>2 DEF CamInv, CleanLots, Clean, OnlyLive
  <2> QED
    BY <2>3, <2>4, <2>5 DEF CamInv
<1> QED
  BY <1>1, <1>2

\* The entry has waited too long.
LEMMA PollTimeoutKeeps ==
    ASSUME CamInv, PollTimeout
    PROVE  CamInv'
<1>1. camOn' \in BOOLEAN
  BY DEF PollTimeout, Same, CamInv, CamTypes
<1> QED
  BY <1>1, PendingEnds DEF PollTimeout, Same, camLots

\* The poll sees the entry closed or cancelled.
LEMMA PollEntryKeeps ==
    ASSUME CamInv, PollEntry
    PROVE  CamInv'
<1>1. /\ UNCHANGED <<camEntry, camAdds, camStops, camPos, camBought, camAdder, camOn, camShort, camMeddled,
                     camRaced, camFaults>>
      /\ camOn /\ camPoll.pc = "idle" /\ cam.phase = "pending_initial"
      /\ camEntry.st \in {"closed", "canceled"} /\ ~cam.known
      /\ camEntry.filled \in 0..Lots /\ camBought = camEntry.filled
      /\ cam.adds = 0 /\ cam.pend = 0 /\ camAdds = <<>> /\ cam.size = 0
  BY DEF PollEntry, Polling, CamFine, Same, camMarket, CamInv, Control, Pending, CamTypes, CamOrders
<1>2. CASE camEntry.filled > 0
  <2>1. /\ cam' \in Campaigns /\ cam'.known /\ cam'.size = camEntry.filled
        /\ cam'.phase = cam.phase /\ cam'.reason = cam.reason
        /\ cam'.sl = cam.sl /\ cam'.level = cam.level
        /\ cam'.adds = cam.adds /\ cam'.pend = cam.pend /\ cam'.fails = cam.fails
    <3>1. camEntry.filled \in Nat
      BY <1>1, CampaignAssumption
    <3> QED
      BY <1>2, <3>1, Values, CamKnown DEF PollEntry
  <2>2. camPoll' \in Polls /\ camPoll'.pc = "attach" /\ camTracked' = camTracked
    BY <1>2, PollAt DEF PollEntry, Pcs, EntryPcs
  <2>3. CamTypes'
    BY <1>1, <2>1, <2>2 DEF CamInv, CamTypes
  <2>4. Control'
    BY <1>1, <1>2, <2>1, <2>2, Values, CampaignAssumption DEF CamInv, Control, EntryPcs, ActivePcs
  <2>5. Pending' /\ Attachments'
    BY <1>1, <2>1, <2>2, Values, CampaignAssumption DEF CamInv, Pending, Attachments, Control
  <2>6. CleanLots'
    BY <1>1, <2>1, <2>2 DEF CamInv, CleanLots, Clean
  <2> QED
    BY <2>3, <2>4, <2>5, <2>6 DEF CamInv
<1>3. CASE ~(camEntry.filled > 0)
  <2>1. ASSUME Clean'
        PROVE  camMeddled = FALSE /\ camShort = FALSE /\ camPos' = 0 /\ OnlyLive({})
    <3>1. Clean /\ camPos = camBought /\ camMeddled = FALSE /\ camShort = FALSE
      BY <1>1, <2>1 DEF Clean, CamInv, CleanLots, CamTypes
    <3>2. camEntry.filled = 0
      BY <1>1, <1>3, CampaignAssumption
    <3>3. ASSUME NEW j \in DOMAIN camStops PROVE FALSE
      BY <1>1, <3>2, <3>3, StopsArray DEF CamInv, Attachments
    <3> QED
      BY <1>1, <3>1, <3>2, <3>3 DEF OnlyLive
  <2>2. CloseCampaign("cancelled") /\ camEntry' \in CamOrders /\ camOn' \in BOOLEAN /\ camPos' \in Int
    BY <1>1, <1>3, Values DEF PollEntry, CamInv, CamTypes
  <2> QED
    BY <1>1, <2>1, <2>2, Ending
<1> QED
  BY <1>2, <1>3

-----------------------------------------------------------------------------
(* The first stop.                                                         *)

\* The poll moves on, and nothing else does but the count of its failures.
LEMMA PollMoves ==
    ASSUME CamInv, camOn, NEW pc \in Pcs \ {"verify", "adjust", "unold"}, camPoll' = At(pc),
           cam' \in Campaigns, cam'.fails <= camFaults',
           cam'.phase = cam.phase, cam'.reason = cam.reason, cam'.sl = cam.sl, cam'.level = cam.level,
           cam'.size = cam.size, cam'.adds = cam.adds, cam'.pend = cam.pend, cam'.known = cam.known,
           UNCHANGED <<camEntry, camAdds, camStops, camPos, camBought, camTracked, camAdder, camOn, camShort,
                       camMeddled, camRaced>>,
           camFaults' \in {camFaults, camFaults + 1},
           \/ cam.phase = "pending_initial" /\ cam.known /\ pc \in EntryPcs
           \/ cam.phase = "active" /\ pc \in ActivePcs \cup {"idle"} /\ camPoll.pc \notin {"adjust", "unold"},
           pc \in {"add", "timeout_add"} => cam.pend # 0,
           Clean' => CleanLots'
    PROVE  CamInv'
<1>1. camPoll' \in Polls /\ camPoll'.pc = pc
  BY PollAt
<1>2. CamTypes'
  BY <1>1, Values DEF CamInv, CamTypes
<1>3. Control'
  BY <1>1, Values DEF CamInv, Control, EntryPcs, ActivePcs, Pcs
<1>4. Pending' /\ Attachments'
  BY <1>1, Values DEF CamInv, Pending, Attachments
<1>5. CleanLots'
  BY DEF CleanLots
<1> QED
  BY <1>2, <1>3, <1>4, <1>5 DEF CamInv

\* The same, with the campaign as it was.
LEMMA PollMovesOnly ==
    ASSUME CamInv, camOn, NEW pc \in Pcs \ {"verify", "adjust", "unold"}, camPoll' = At(pc),
           UNCHANGED <<cam, camEntry, camAdds, camStops, camPos, camBought, camTracked, camAdder, camOn, camShort,
                       camMeddled, camRaced>>,
           camFaults' \in {camFaults, camFaults + 1},
           \/ cam.phase = "pending_initial" /\ cam.known /\ pc \in EntryPcs
           \/ cam.phase = "active" /\ pc \in ActivePcs \cup {"idle"} /\ camPoll.pc \notin {"adjust", "unold"},
           pc \in {"add", "timeout_add"} => cam.pend # 0,
           Clean' => CleanLots'
    PROVE  CamInv'
<1>1. cam.fails <= camFaults'
  BY Values DEF CamInv, Control
<1> QED
  BY <1>1, PollMoves, Values

\* A fault ends the clean behaviours.
LEMMA FaultsDirty ==
    ASSUME CamInv, camFaults' = camFaults + 1
    PROVE  ~Clean'
BY Values DEF Clean

\* The poll finds the stop the exchange attached, or none.
LEMMA FindAttachedKeeps ==
    ASSUME CamInv, FindAttached
    PROVE  CamInv'
<1>1. /\ camPoll.pc = "attach" /\ camOn /\ cam.phase = "pending_initial" /\ cam.known
      /\ UNCHANGED <<camEntry, camAdds, camStops, camPos, camBought, camTracked, camAdder, camOn, camShort,
                     camMeddled, camRaced>>
  BY DEF FindAttached, Polling, Same, camMarket, CamInv, Control, EntryPcs
<1>2. ASSUME NEW i \in LiveStops, camStops[i].level = 0, Activate(i), CamFine
      PROVE  CamInv'
  <2>1. i \in DOMAIN camStops /\ camStops[i].st = "live" /\ i \in Nat /\ i <= Len(camStops)
    BY <1>2, Values DEF LiveStops
  <2>2. /\ cam' \in Campaigns /\ cam'.phase = "active" /\ cam'.sl = i /\ cam'.level = 0
        /\ cam'.reason = cam.reason /\ cam'.size = cam.size
        /\ cam'.adds = cam.adds /\ cam'.pend = cam.pend /\ cam'.fails = cam.fails
        /\ cam'.known = cam.known
    BY <1>2, <2>1, Values, CamActive
  <2>3. camPoll' \in Polls /\ camPoll'.pc = "idle" /\ camFaults' = camFaults
    BY <1>2, PollAt DEF Activate, Pcs, CamFine
  <2>4. CamTypes'
    BY <1>1, <2>2, <2>3 DEF CamInv, CamTypes
  <2>5. Control'
    BY <1>1, <2>2, <2>3 DEF CamInv, Control, EntryPcs, ActivePcs
  <2>6. Pending' /\ Attachments'
    BY <1>1, <1>2, <2>1, <2>2, <2>3 DEF CamInv, Pending, Attachments, Control
  <2>7. CleanLots'
    <3> SUFFICES ASSUME Clean' PROVE CleanLots'
      BY DEF CleanLots
    <3>1. Clean
      BY <1>1, <2>3 DEF Clean
    <3>2. camEntry.st = "closed" /\ ~camMeddled /\ ~camShort /\ camPos = camBought /\ Len(camStops) = 1
      BY <1>1, <3>1 DEF CamInv, Control, CleanLots
    <3>3. OnlyLive({cam.sl})' /\ camStops'[cam'.sl].st = "live"
      BY <1>1, <2>1, <2>2, <3>2, Values DEF OnlyLive
    <3> QED
      BY <1>1, <2>2, <2>3, <3>2, <3>3 DEF CleanLots
  <2> QED
    BY <2>4, <2>5, <2>6, <2>7 DEF CamInv
<1>3. ASSUME camPoll' = At("stop"), UNCHANGED cam,
             CamFault \/ (CamFine /\ {i \in LiveStops : camStops[i].level = 0} = {})
      PROVE  CamInv'
  <2>1. Clean' => CleanLots'
    <3>1. CASE CamFault
      BY <3>1, FaultsDirty DEF CamFault
    <3>2. CASE CamFine /\ {i \in LiveStops : camStops[i].level = 0} = {}
      <4>1. ASSUME Clean PROVE FALSE
        <5>1. camEntry.st = "closed" /\ Len(camStops) = 1 /\ camStops[1].st = "live"
          BY <1>1, <4>1 DEF CamInv, Control, CleanLots
        <5>2. 1 \in LiveStops /\ camStops[1].level = 0
          BY <1>1, <5>1, Values DEF LiveStops, CamInv, Attachments
        <5> QED
          BY <3>2, <5>2
      <4> QED
        BY <1>1, <3>2, <4>1 DEF CamFine, Clean
    <3> QED
      BY <1>3, <3>1, <3>2
  <2>2. camFaults' \in {camFaults, camFaults + 1}
    BY <1>3 DEF CamFault, CamFine
  <2> QED
    BY <1>1, <1>3, <2>1, <2>2, PollMovesOnly DEF Pcs, EntryPcs
<1>4. CASE CamFine /\ {i \in LiveStops : camStops[i].level = 0} # {}
  <2>1. PICK i \in {j \in LiveStops : camStops[j].level = 0} : Activate(i)
    BY <1>4, Values DEF FindAttached, CamFine, CamFault
  <2> QED
    BY <1>2, <1>4, <2>1
<1>5. \/ CamFine /\ {i \in LiveStops : camStops[i].level = 0} # {}
      \/ /\ camPoll' = At("stop") /\ UNCHANGED cam
         /\ CamFault \/ (CamFine /\ {i \in LiveStops : camStops[i].level = 0} = {})
  BY Zenon DEF FindAttached
<1> QED
  BY <1>3, <1>4, <1>5, Zenon

\* What a placement does to the stops: nothing, or the new one joins them.
LEMMA Placement ==
    ASSUME CamInv, NEW size \in Nat \ {0}, NEW level \in 0..MaxLevel, NEW ok \in BOOLEAN,
           PlaceStop(size, level, ok)
    PROVE  /\ UNCHANGED camStops \/ StopJoined(size, level)
           /\ ok => camFaults' = camFaults /\ StopJoined(size, level)
           /\ ~ok => camFaults' = camFaults + 1
BY StopAdded DEF PlaceStop, CamFine, CamFault, CamInv

\* A stop of the whole entry joins the others of a pending campaign.
LEMMA JoinedPending ==
    ASSUME CamInv, cam.phase = "pending_initial", cam.known, StopJoined(cam.size, 0), UNCHANGED camEntry
    PROVE  \A j \in DOMAIN camStops' : camStops'[j].size = camEntry'.filled /\ camStops'[j].level = 0
<1> SUFFICES ASSUME NEW j \in DOMAIN camStops'
             PROVE  camStops'[j].size = camEntry.filled /\ camStops'[j].level = 0
  OBVIOUS
<1>1. cam.size = camEntry.filled
  BY DEF CamInv, Control
<1>2. j \in DOMAIN camStops \/ j = Len(camStops) + 1
  BY Values DEF StopJoined
<1> QED
  BY <1>1, <1>2 DEF StopJoined, CamInv, Attachments

\* The bot places the first stop itself.
LEMMA FirstStopKeeps ==
    ASSUME CamInv, FirstStop
    PROVE  CamInv'
<1>1. /\ camPoll.pc = "stop" /\ camOn /\ cam.phase = "pending_initial" /\ cam.known
      /\ UNCHANGED <<cam, camEntry, camAdds, camPos, camBought, camTracked, camAdder, camOn, camShort,
                     camMeddled, camRaced>>
      /\ cam.size \in Nat \ {0} /\ cam.size = camEntry.filled /\ camEntry.st \in {"closed", "canceled"}
  BY Values DEF FirstStop, Polling, Same, camLots, CamInv, Control, EntryPcs
<1>2. PICK ok \in BOOLEAN :
         /\ PlaceStop(cam.size, 0, ok)
         /\ camPoll' = IF ok THEN [At("verify") EXCEPT !.new = Len(camStops) + 1]
                       ELSE IF camPoll.n + 1 < StopTries THEN [camPoll EXCEPT !.n = @ + 1]
                       ELSE At("emergency")
  BY DEF FirstStop
<1>3. 0 \in 0..MaxLevel
  BY CampaignAssumption
<1>4. /\ UNCHANGED camStops \/ StopJoined(cam.size, 0)
      /\ ok => camFaults' = camFaults /\ StopJoined(cam.size, 0)
      /\ ~ok => camFaults' = camFaults + 1
  BY <1>1, <1>2, <1>3, Placement
<1>5. /\ camPoll' \in Polls
      /\ \/ camPoll'.pc = "verify" /\ camPoll'.new = Len(camStops) + 1 /\ StopJoined(cam.size, 0)
         \/ camPoll'.pc \in {"stop", "emergency"}
      /\ camFaults' \in {camFaults, camFaults + 1}
  <2>1. CASE ok
    <3>1. Len(camStops) + 1 \in Nat
      BY Values
    <3> QED
      BY <1>2, <1>4, <2>1, <3>1, PollVerify
  <2>2. CASE ~ok /\ camPoll.n + 1 < StopTries
    <3>1. camPoll.n + 1 \in Nat
      BY PollFields, Values
    <3> QED
      BY <1>1, <1>2, <1>4, <2>2, <3>1, PollAgain, Values
  <2>3. CASE ~ok /\ ~(camPoll.n + 1 < StopTries)
    BY <1>2, <1>4, <2>3, PollAt DEF Pcs, EntryPcs
  <2> QED
    BY <2>1, <2>2, <2>3
<1>6. CamTypes'
  BY <1>1, <1>4, <1>5, Values DEF CamInv, CamTypes, StopJoined
<1>7. Control'
  <2>1. cam.fails <= camFaults'
    BY <1>5, Values DEF CamInv, Control
  <2> QED
    BY <1>1, <1>5, <2>1 DEF CamInv, Control, EntryPcs, ActivePcs
<1>8. Pending'
  BY <1>1, <1>5 DEF CamInv, Pending
<1>9. Attachments'
  <2>1. UNCHANGED camStops => Attachments'
    BY <1>1, <1>5, Values DEF CamInv, Attachments, StopJoined
  <2>2. StopJoined(cam.size, 0) => Attachments'
    BY <1>1, <1>5, JoinedPending, Values DEF CamInv, Attachments, StopJoined
  <2> QED
    BY <1>4, <2>1, <2>2
<1>10. CleanLots'
  BY <1>1, <1>4, Values DEF CamInv, CleanLots, Clean
<1> QED
  BY <1>6, <1>7, <1>8, <1>9, <1>10 DEF CamInv

\* A stop of the whole entry is there: the campaign is active.
LEMMA Activated ==
    ASSUME CamInv, NEW sl \in Nat, Activate(sl), cam.phase = "pending_initial", cam.known, ~Clean,
           camFaults' \in {camFaults, camFaults + 1},
           UNCHANGED <<camEntry, camAdds, camPos, camBought, camTracked, camAdder, camOn, camShort, camMeddled,
                       camRaced>>,
           \/ UNCHANGED camStops /\ sl \in DOMAIN camStops
           \/ StopJoined(cam.size, 0) /\ sl = Len(camStops) + 1
    PROVE  CamInv'
<1>1. /\ cam' \in Campaigns /\ cam'.phase = "active" /\ cam'.sl = sl /\ cam'.level = 0
      /\ cam'.reason = cam.reason /\ cam'.size = cam.size
      /\ cam'.adds = cam.adds /\ cam'.pend = cam.pend /\ cam'.fails = cam.fails
      /\ cam'.known = cam.known
  BY Values, CamActive
<1>2. camPoll' \in Polls /\ camPoll'.pc = "idle"
  BY PollAt DEF Activate, Pcs
<1>3. CamTypes'
  BY <1>1, <1>2, Values DEF CamInv, CamTypes, StopJoined
<1>4. Control'
  BY <1>1, <1>2, Values DEF CamInv, Control, EntryPcs, ActivePcs
<1>5. Pending'
  BY <1>1, <1>2 DEF CamInv, Pending
<1>6. Attachments'
  BY <1>1, <1>2, Values DEF CamInv, Attachments, Control, StopJoined
<1>7. CleanLots'
  BY Values DEF CleanLots, Clean
<1> QED
  BY <1>3, <1>4, <1>5, <1>6, <1>7 DEF CamInv

\* The bot looks at the stop it has placed.
LEMMA VerifyStopKeeps ==
    ASSUME CamInv, VerifyStop
    PROVE  CamInv'
<1>1. /\ camPoll.pc = "verify" /\ camOn /\ cam.phase = "pending_initial" /\ cam.known /\ ~Clean
      /\ UNCHANGED <<camEntry, camAdds, camStops, camPos, camBought, camTracked, camAdder, camOn, camShort,
                     camMeddled, camRaced>>
  BY DEF VerifyStop, Polling, Same, camMarket, CamInv, Control, EntryPcs, CleanLots
<1>2. camFaults' \in {camFaults, camFaults + 1}
  BY DEF VerifyStop, CamFine, CamFault
<1>3. CASE Activate(camPoll.new)
  <2>1. camPoll.new \in DOMAIN camStops
    BY <1>1 DEF CamInv, Attachments
  <2> QED
    BY <1>1, <1>2, <1>3, <2>1, Values, Activated
<1>4. CASE camPoll' = At("restop") /\ UNCHANGED cam
  <2>1. ~Clean'
    BY <1>1, <1>2, Values DEF Clean
  <2> QED
    BY <1>1, <1>2, <1>4, <2>1, PollMovesOnly DEF Pcs, EntryPcs
<1> QED
  BY <1>3, <1>4 DEF VerifyStop

\* The bot places the first stop again.
LEMMA RestopKeeps ==
    ASSUME CamInv, Restop
    PROVE  CamInv'
<1>1. /\ camPoll.pc = "restop" /\ camOn /\ cam.phase = "pending_initial" /\ cam.known /\ ~Clean
      /\ UNCHANGED <<camEntry, camAdds, camPos, camBought, camTracked, camAdder, camOn, camShort,
                     camMeddled, camRaced>>
      /\ cam.size \in Nat \ {0} /\ cam.size = camEntry.filled
      /\ camEntry.st \in {"closed", "canceled"}
  BY Values DEF Restop, Polling, Same, camLots, CamInv, Control, EntryPcs, CleanLots
<1>2. PICK ok \in BOOLEAN :
         /\ PlaceStop(cam.size, 0, ok)
         /\ IF ok THEN Activate(Len(camStops) + 1) ELSE camPoll' = At("emergency") /\ UNCHANGED cam
  BY DEF Restop
<1>3. 0 \in 0..MaxLevel
  BY CampaignAssumption
<1>4. /\ UNCHANGED camStops \/ StopJoined(cam.size, 0)
      /\ ok => camFaults' = camFaults /\ StopJoined(cam.size, 0)
      /\ ~ok => camFaults' = camFaults + 1
  BY <1>1, <1>2, <1>3, Placement
<1>5. CASE ok
  <2>1. Len(camStops) + 1 \in Nat
    BY Values
  <2> QED
    BY <1>1, <1>2, <1>4, <1>5, <2>1, Activated
<1>6. CASE ~ok
  <2>1. camPoll' \in Polls /\ camPoll'.pc = "emergency" /\ UNCHANGED cam
    BY <1>2, <1>6, PollAt DEF Pcs, EntryPcs
  <2>2. CamTypes'
    BY <1>1, <1>4, <1>6, <2>1, Values DEF CamInv, CamTypes, StopJoined
  <2>3. Control'
    BY <1>1, <1>4, <1>6, <2>1, Values DEF CamInv, Control, EntryPcs, ActivePcs
  <2>4. Pending'
    BY <1>1, <2>1 DEF CamInv, Pending
  <2>5. Attachments'
    <3>1. UNCHANGED camStops => Attachments'
      BY <1>1, <2>1, Values DEF CamInv, Attachments
    <3>2. StopJoined(cam.size, 0) => Attachments'
      BY <1>1, <2>1, JoinedPending, Values DEF CamInv, Attachments, StopJoined
    <3> QED
      BY <1>4, <3>1, <3>2
  <2>6. CleanLots'
    BY <1>4, <1>6, FaultsDirty DEF CleanLots
  <2> QED
    BY <2>2, <2>3, <2>4, <2>5, <2>6 DEF CamInv
<1> QED
  BY <1>5, <1>6

\* The market close leaves no more than there was.
LEMMA Closing ==
    ASSUME CamInv, MarketClose(cam.size)
    PROVE  /\ camPos' \in Int /\ camFaults' \in {camFaults, camFaults + 1} /\ UNCHANGED camBought
           /\ camFaults' = camFaults =>
                 camPos' = IF camPos > cam.size THEN camPos - cam.size
                           ELSE IF camPos > 0 THEN 0 ELSE camPos
BY Values DEF MarketClose, CamFine, CamFault

\* Without a stop the lots are closed.
LEMMA EmergencyKeeps ==
    ASSUME CamInv, Emergency
    PROVE  CamInv'
<1>1. /\ camPoll.pc = "emergency" /\ ~Clean /\ CloseCampaign("emergency")
      /\ UNCHANGED <<camEntry, camAdds, camStops, camAdder, camOn, camShort, camMeddled, camRaced>>
  BY DEF Emergency, Polling, Same, CamInv, CleanLots
<1>2. camPos' \in Int /\ camFaults' \in {camFaults, camFaults + 1} /\ UNCHANGED camBought
  BY Closing DEF Emergency
<1>3. ~Clean'
  BY <1>1, <1>2, Values DEF Clean
<1>4. camEntry' \in CamOrders /\ camOn' \in BOOLEAN
  BY <1>1 DEF CamInv, CamTypes
<1> QED
  BY <1>1, <1>2, <1>3, <1>4, Ending

-----------------------------------------------------------------------------
(* The poll of an active campaign: the deadline, the stop, the position.   *)

\* A poll of an active campaign starts from the idle poll.
LEMMA PolledActive ==
    ASSUME CamInv, PollActive
    PROVE  /\ camPoll.pc = "idle" /\ camOn /\ cam.phase = "active" /\ cam.known
           /\ cam.sl \in DOMAIN camStops
           /\ Clean => /\ OnlyLive({cam.sl}) /\ ~camMeddled /\ ~camShort
                       /\ \/ camStops[cam.sl].st = "live" /\ camPos = camBought
                          \/ camStops[cam.sl].st = "closed" /\ camPos = camBought - cam.size
BY DEF PollActive, Polling, CamInv, Control, Attachments, CleanLots

\* The cancel of a stop: it is gone, or the cancel was lost.
LEMMA StopCancelEffect ==
    ASSUME CamInv, NEW i \in DOMAIN camStops, CancelStop(i)
    PROVE  \/ camFaults' = camFaults + 1 /\ UNCHANGED camStops
           \/ camFaults' = camFaults
              /\ StopEnded(i, IF camStops[i].st = "live" THEN "canceled" ELSE camStops[i].st)
<1>1. (IF camStops[i].st = "live" THEN "canceled" ELSE camStops[i].st) \in {"live", "closed", "canceled"}
  BY StopsArray DEF CamInv
<1> QED
  BY <1>1, StopMarked DEF CancelStop, CamFault, CamFine, CamInv

\* The cancel of an add: it is gone, or the cancel was lost.
LEMMA AddCancelEffect ==
    ASSUME CamInv, NEW i \in DOMAIN camAdds, CancelAdd(i)
    PROVE  \/ camFaults' = camFaults + 1 /\ UNCHANGED camAdds
           \/ camFaults' = camFaults
              /\ OrderMoved(i, IF camAdds[i].st = "open" THEN "canceled" ELSE camAdds[i].st, camAdds[i].filled)
<1>1. /\ (IF camAdds[i].st = "open" THEN "canceled" ELSE camAdds[i].st) \in {"open", "closed", "canceled", "none"}
      /\ camAdds[i].filled \in 0..Lots
  BY AddsArray DEF CamInv
<1> QED
  BY <1>1, AddMarked DEF CancelAdd, CamFault, CamFine, CamInv

\* The deadline: the stop is cancelled.
LEMMA TimeoutStopKeeps ==
    ASSUME CamInv, TimeoutStop
    PROVE  CamInv'
<1>1. PollActive
      /\ UNCHANGED <<cam, camEntry, camAdds, camPos, camBought, camTracked, camAdder, camOn, camShort,
                     camMeddled, camRaced>>
  BY DEF TimeoutStop, Same, camLots
<1>2. /\ camPoll' \in Polls /\ camPoll'.pc \in {"timeout_add", "timeout_close"}
      /\ camPoll'.pc = "timeout_add" => cam.pend # 0
  <2>1. CASE cam.pend # 0
    BY <2>1, PollAt DEF TimeoutStop, Pcs, ActivePcs
  <2>2. CASE cam.pend = 0
    BY <2>2, PollAt DEF TimeoutStop, Pcs, ActivePcs
  <2> QED
    BY <2>1, <2>2
<1>3. \/ camFaults' = camFaults + 1 /\ UNCHANGED camStops
      \/ camFaults' = camFaults
         /\ StopEnded(cam.sl, IF camStops[cam.sl].st = "live" THEN "canceled" ELSE camStops[cam.sl].st)
  BY <1>1, PolledActive, StopCancelEffect DEF TimeoutStop
<1>4. CamTypes'
  BY <1>1, <1>2, <1>3, Values DEF CamInv, CamTypes, StopEnded
<1>5. Control'
  <2>1. cam.fails <= camFaults'
    BY <1>3, Values DEF CamInv, Control
  <2>2. camOn /\ cam.phase = "active" /\ cam.known
    BY <1>1, PolledActive
  <2> QED
    BY <1>1, <1>2, <2>1, <2>2 DEF CamInv, Control, EntryPcs, ActivePcs
<1>6. Pending'
  BY <1>1, <1>2 DEF CamInv, Pending
<1>7. Attachments'
  <2>1. cam.phase = "active" /\ camPoll.pc = "idle" /\ cam.sl \in DOMAIN camStops
    BY <1>1, PolledActive
  <2>2. UNCHANGED camStops => Attachments'
    BY <1>1, <1>2, <2>1 DEF CamInv, Attachments
  <2>3. /\ camStops # <<>> /\ Len(camStops') = Len(camStops) /\ DOMAIN camStops' = DOMAIN camStops
        /\ camStops'[cam.sl].size = camStops[cam.sl].size
        /\ camStops'[cam.sl].level = camStops[cam.sl].level
        => Attachments'
    BY <1>1, <1>2, <2>1 DEF CamInv, Attachments
  <2>4. camStops # <<>>
    BY <2>1, StopsArray DEF CamInv
  <2> QED
    BY <1>3, <2>1, <2>2, <2>3, <2>4 DEF StopEnded
<1>8. CleanLots'
  <2> SUFFICES ASSUME Clean' PROVE CleanLots'
    BY DEF CleanLots
  <2>1. Clean /\ camFaults' = camFaults
    BY <1>1, <1>3, Values DEF Clean
  <2>2. OnlyLive({})'
    <3>1. cam.sl \in DOMAIN camStops /\ OnlyLive({cam.sl})
      BY <1>1, <2>1, PolledActive
    <3>2. StopEnded(cam.sl, IF camStops[cam.sl].st = "live" THEN "canceled" ELSE camStops[cam.sl].st)
      BY <1>3, <2>1, Values
    <3>3. DOMAIN camStops' = DOMAIN camStops /\ camStops'[cam.sl].st # "live"
          /\ \A j \in DOMAIN camStops : j # cam.sl => camStops'[j].st = camStops[j].st
      BY <3>1, <3>2 DEF StopEnded
    <3> QED
      BY <3>1, <3>3 DEF OnlyLive
  <2>3. (camPos \in {camBought, camBought - cam.size})'
    BY <1>1, <2>1, PolledActive
  <2> QED
    BY <1>1, <1>2, <2>1, <2>2, <2>3, PolledActive DEF CleanLots
<1> QED
  BY <1>4, <1>5, <1>6, <1>7, <1>8 DEF CamInv

\* The deadline: the add that waits is cancelled.
LEMMA TimeoutAddKeeps ==
    ASSUME CamInv, TimeoutAdd
    PROVE  CamInv'
<1>1. /\ camPoll.pc = "timeout_add" /\ camOn /\ cam.phase = "active" /\ cam.known /\ cam.pend # 0
      /\ cam.pend \in DOMAIN camAdds
      /\ UNCHANGED <<cam, camEntry, camStops, camPos, camBought, camTracked, camAdder, camOn, camShort,
                     camMeddled, camRaced>>
  BY Values DEF TimeoutAdd, Polling, Same, camLots, CamInv, Control, Pending, ActivePcs
<1>2. camPoll' \in Polls /\ camPoll'.pc = "timeout_close"
  BY PollAt DEF TimeoutAdd, Pcs, ActivePcs
<1>3. /\ camFaults' \in {camFaults, camFaults + 1}
      /\ camAdds' \in Seq(CamOrders) /\ Len(camAdds') = Len(camAdds) /\ DOMAIN camAdds' = DOMAIN camAdds
      /\ \A j \in DOMAIN camAdds : /\ camAdds'[j].filled = camAdds[j].filled
                                   /\ camAdds'[j].st = "open" => camAdds[j].st = "open"
  BY <1>1, AddCancelEffect DEF TimeoutAdd, OrderMoved, CamInv, CamTypes
<1>4. CamTypes'
  BY <1>1, <1>2, <1>3, Values DEF CamInv, CamTypes
<1>5. Control'
  BY <1>1, <1>2, <1>3, Values DEF CamInv, Control, EntryPcs, ActivePcs
<1>6. Pending' /\ Attachments'
  BY <1>1, <1>2, <1>3, Values DEF CamInv, Pending, Attachments
<1>7. CleanLots'
  BY <1>1, <1>2, <1>3, Values DEF CamInv, CleanLots, Clean, OnlyLive
<1> QED
  BY <1>4, <1>5, <1>6, <1>7 DEF CamInv

\* The deadline: the lots are closed.
LEMMA TimeoutCloseKeeps ==
    ASSUME CamInv, TimeoutClose
    PROVE  CamInv'
<1>1. /\ camPoll.pc = "timeout_close" /\ camOn /\ cam.phase = "active" /\ CloseCampaign("timeout")
      /\ UNCHANGED <<camEntry, camAdds, camStops, camAdder, camOn, camShort, camMeddled, camRaced>>
  BY DEF TimeoutClose, Polling, Same, CamInv, Control, ActivePcs
<1>2. /\ camPos' \in Int /\ camFaults' \in {camFaults, camFaults + 1} /\ UNCHANGED camBought
      /\ camFaults' = camFaults =>
            camPos' = IF camPos > cam.size THEN camPos - cam.size
                      ELSE IF camPos > 0 THEN 0 ELSE camPos
  BY Closing DEF TimeoutClose
<1>3. ASSUME Clean'
      PROVE  /\ camMeddled = FALSE /\ camShort = FALSE
             /\ camBought > cam.size \/ (camPos' = 0 /\ OnlyLive({}))
  <2>1. Clean /\ camFaults' = camFaults
    BY <1>1, <1>2, <1>3, Values DEF Clean
  <2>2. /\ camMeddled = FALSE /\ camShort = FALSE /\ OnlyLive({})
        /\ camPos \in {camBought, camBought - cam.size} /\ camBought >= cam.size
    BY <1>1, <2>1 DEF CamInv, CamTypes, CleanLots, Pending
  <2>3. camBought > cam.size \/ camPos' = 0
    BY <1>2, <2>1, <2>2, Values
  <2> QED
    BY <2>2, <2>3
<1>4. camEntry' \in CamOrders /\ camOn' \in BOOLEAN
  BY <1>1 DEF CamInv, CamTypes
<1> QED
  BY <1>1, <1>2, <1>3, <1>4, Ending

\* The stop has fired: the campaign is over.
LEMMA StopClosedKeeps ==
    ASSUME CamInv, StopClosed
    PROVE  CamInv'
<1>1. /\ PollActive /\ camStops[cam.sl].st = "closed" /\ CloseCampaign("trailing_sl")
      /\ UNCHANGED <<camEntry, camAdds, camStops, camPos, camBought, camAdder, camOn, camShort, camMeddled,
                     camRaced, camFaults>>
  BY DEF StopClosed, Same, CamFine, camMarket
<1>2. ASSUME Clean'
      PROVE  /\ camMeddled = FALSE /\ camShort = FALSE
             /\ camBought > cam.size \/ (camPos' = 0 /\ OnlyLive({}))
  <2>1. Clean /\ camBought >= cam.size
    BY <1>1, <1>2 DEF Clean, CamInv, Pending
  <2>2. OnlyLive({cam.sl}) /\ camPos = camBought - cam.size /\ camMeddled = FALSE /\ camShort = FALSE
    BY <1>1, <2>1, PolledActive DEF CamInv, CamTypes
  <2>3. OnlyLive({})
    BY <1>1, <2>2 DEF OnlyLive
  <2> QED
    BY <1>1, <2>1, <2>2, <2>3, Values
<1>3. camEntry' \in CamOrders /\ camOn' \in BOOLEAN /\ camPos' \in Int
  BY <1>1 DEF CamInv, CamTypes
<1> QED
  BY <1>1, <1>2, <1>3, Ending

\* The stop is gone and has to be replaced.
LEMMA StopCancelledKeeps ==
    ASSUME CamInv, StopCancelled
    PROVE  CamInv'
<1>1. /\ PollActive /\ camStops[cam.sl].st = "canceled" /\ camPoll' = At("replace")
      /\ UNCHANGED <<cam, camEntry, camAdds, camStops, camPos, camBought, camTracked, camAdder, camOn, camShort,
                     camMeddled, camRaced, camFaults>>
  BY DEF StopCancelled, Same, CamFine, camMarket
<1>2. ~Clean'
  BY <1>1, PolledActive DEF Clean
<1> QED
  BY <1>1, <1>2, PolledActive, PollMovesOnly DEF Pcs, ActivePcs

\* The stop is there.
LEMMA StopLiveKeeps ==
    ASSUME CamInv, StopLive
    PROVE  CamInv'
<1>1. /\ PollActive /\ camStops[cam.sl].st = "live"
      /\ UNCHANGED <<camEntry, camAdds, camStops, camPos, camBought, camTracked, camAdder, camOn, camShort,
                     camMeddled, camRaced, camFaults>>
      /\ camPoll' = At(IF cam.pend # 0 THEN "add" ELSE "trail")
  BY DEF StopLive, Same, CamFine, camMarket, AfterStop
<1>2. /\ cam' \in Campaigns /\ cam'.fails = 0
      /\ cam'.phase = cam.phase /\ cam'.reason = cam.reason
      /\ cam'.sl = cam.sl /\ cam'.level = cam.level /\ cam'.size = cam.size
      /\ cam'.adds = cam.adds /\ cam'.pend = cam.pend /\ cam'.known = cam.known
  BY Values, CamFails DEF StopLive
<1>3. Clean' => CleanLots'
  <2> SUFFICES ASSUME Clean' PROVE CleanLots'
    OBVIOUS
  <2>1. Clean
    BY <1>1 DEF Clean
  <2>2. OnlyLive({cam.sl})' /\ camStops'[cam'.sl].st = "live" /\ camPos = camBought
    BY <1>1, <1>2, <2>1, PolledActive DEF OnlyLive
  <2>3. camPoll'.pc \in {"add", "trail"}
    BY <1>1, PollAt DEF Pcs, ActivePcs
  <2> QED
    BY <1>1, <1>2, <2>1, <2>2, <2>3, PolledActive DEF CleanLots
<1>4. cam'.fails <= camFaults'
  BY <1>1, <1>2, Values
<1> QED
  BY <1>1, <1>2, <1>3, <1>4, PolledActive, PollMoves DEF Pcs, ActivePcs

\* The exchange does not answer for the stop.
LEMMA StopUnseenKeeps ==
    ASSUME CamInv, StopUnseen
    PROVE  CamInv'
<1>1. /\ PollActive /\ camFaults' = camFaults + 1
      /\ UNCHANGED <<camEntry, camAdds, camStops, camPos, camBought, camTracked, camAdder, camOn, camShort,
                     camMeddled, camRaced>>
      /\ camPoll' = At(IF cam.fails + 1 >= MaxFails THEN "position"
                       ELSE IF cam.pend # 0 THEN "add" ELSE "trail")
  BY DEF StopUnseen, Same, CamFault, camMarket, AfterStop
<1>2. /\ cam' \in Campaigns /\ cam'.fails = cam.fails + 1
      /\ cam'.phase = cam.phase /\ cam'.reason = cam.reason
      /\ cam'.sl = cam.sl /\ cam'.level = cam.level /\ cam'.size = cam.size
      /\ cam'.adds = cam.adds /\ cam'.pend = cam.pend /\ cam'.known = cam.known
  <2>1. cam.fails + 1 \in Nat
    BY Values
  <2> QED
    BY <2>1, Values, CamFails DEF StopUnseen
<1>3. cam'.fails <= camFaults'
  BY <1>1, <1>2, Values DEF CamInv, Control
<1>4. ~Clean'
  BY <1>1, FaultsDirty
<1> QED
  BY <1>1, <1>2, <1>3, <1>4, PolledActive, PollMoves DEF Pcs, ActivePcs

\* The lost stop is placed again.
LEMMA ReplaceKeeps ==
    ASSUME CamInv, Replace
    PROVE  CamInv'
<1>1. /\ camPoll.pc = "replace" /\ camOn /\ cam.phase = "active" /\ cam.known /\ ~Clean
      /\ UNCHANGED <<camEntry, camAdds, camPos, camBought, camTracked, camAdder, camOn, camShort,
                     camMeddled, camRaced>>
      /\ cam.size \in Nat \ {0} /\ camEntry.st \in {"closed", "canceled"}
  BY Values DEF Replace, Polling, Same, camLots, CamInv, Control, ActivePcs, CleanLots
<1>2. PICK ok \in BOOLEAN :
         /\ PlaceStop(cam.size, cam.level, ok)
         /\ cam' = IF ok THEN [cam EXCEPT !.sl = Len(camStops) + 1, !.fails = 0] ELSE cam
  BY DEF Replace
<1>3. /\ UNCHANGED camStops \/ StopJoined(cam.size, cam.level)
      /\ ok => camFaults' = camFaults /\ StopJoined(cam.size, cam.level)
      /\ ~ok => camFaults' = camFaults + 1
  BY <1>1, <1>2, Placement, Values
<1>4. camPoll' \in Polls /\ camPoll'.pc = "idle"
  BY PollAt DEF Replace, Pcs
<1>5. /\ cam' \in Campaigns /\ cam'.level = cam.level /\ cam'.fails <= camFaults'
      /\ cam'.phase = cam.phase /\ cam'.reason = cam.reason /\ cam'.size = cam.size
      /\ cam'.adds = cam.adds /\ cam'.pend = cam.pend /\ cam'.known = cam.known
      /\ camFaults' \in {camFaults, camFaults + 1}
      /\ \/ cam'.sl = cam.sl
         \/ cam'.sl = Len(camStops) + 1 /\ StopJoined(cam.size, cam.level)
  <2>1. CASE ok
    <3>1. Len(camStops) + 1 \in Nat
      BY Values
    <3>2. cam' = [cam EXCEPT !.sl = Len(camStops) + 1, !.fails = 0]
      BY <1>2, <2>1
    <3>3. /\ cam' \in Campaigns /\ cam'.sl = Len(camStops) + 1 /\ cam'.level = cam.level /\ cam'.fails = 0
          /\ cam'.phase = cam.phase /\ cam'.reason = cam.reason /\ cam'.size = cam.size
          /\ cam'.adds = cam.adds /\ cam'.pend = cam.pend /\ cam'.known = cam.known
      BY <3>1, <3>2, CamReplaced, Values
    <3>4. camFaults' = camFaults /\ StopJoined(cam.size, cam.level) /\ camFaults \in Nat
      BY <1>3, <2>1, Values
    <3> QED
      BY <3>3, <3>4
  <2>2. CASE ~ok
    BY <1>2, <1>3, <2>2, Values DEF CamInv, Control
  <2> QED
    BY <2>1, <2>2
<1>6. CamTypes'
  BY <1>1, <1>3, <1>4, <1>5, Values DEF CamInv, CamTypes, StopJoined
<1>7. Control'
  BY <1>1, <1>4, <1>5 DEF CamInv, Control, EntryPcs, ActivePcs
<1>8. Pending'
  BY <1>1, <1>4, <1>5 DEF CamInv, Pending
<1>9. Attachments'
  <2>1. cam.sl \in DOMAIN camStops /\ DOMAIN camStops = 1..Len(camStops) /\ Len(camStops) \in Nat
    BY <1>1, Values DEF CamInv, Attachments
  <2>2. CASE UNCHANGED camStops /\ cam'.sl = cam.sl
    BY <1>1, <1>4, <1>5, <2>1, <2>2 DEF CamInv, Attachments
  <2>3. CASE StopJoined(cam.size, cam.level) /\ cam'.sl = cam.sl
    BY <1>1, <1>4, <1>5, <2>1, <2>3 DEF CamInv, Attachments, StopJoined
  <2>4. CASE StopJoined(cam.size, cam.level) /\ cam'.sl = Len(camStops) + 1
    BY <1>1, <1>4, <1>5, <2>1, <2>4 DEF CamInv, Attachments, StopJoined
  <2> QED
    BY <1>3, <1>5, <2>2, <2>3, <2>4
<1>10. CleanLots'
  BY <1>1, <1>5, Values DEF CleanLots, Clean
<1> QED
  BY <1>6, <1>7, <1>8, <1>9, <1>10 DEF CamInv

\* The position is asked for: nothing left, or the stop is replaced.
LEMMA AskPositionKeeps ==
    ASSUME CamInv, AskPosition \/ PositionUnseen
    PROVE  CamInv'
<1>1. /\ camPoll.pc = "position" /\ camOn /\ cam.phase = "active" /\ ~Clean
      /\ UNCHANGED <<camEntry, camAdds, camStops, camPos, camBought, camAdder, camOn, camShort,
                     camMeddled, camRaced>>
      /\ camFaults' \in {camFaults, camFaults + 1}
  BY DEF AskPosition, PositionUnseen, Polling, Same, camMarket, CamFine, CamFault, CamInv, Control, ActivePcs,
         CleanLots
<1>2. ~Clean'
  BY <1>1, Values DEF Clean
<1>3. CASE CloseCampaign("trailing_sl")
  <2>1. camEntry' \in CamOrders /\ camOn' \in BOOLEAN /\ camPos' \in Int
    BY <1>1 DEF CamInv, CamTypes
  <2> QED
    BY <1>1, <1>2, <1>3, <2>1, Ending
<1>4. ASSUME NEW pc \in {"replace", "idle"}, camPoll' = At(pc), UNCHANGED <<cam, camTracked>>
      PROVE  CamInv'
  BY <1>1, <1>2, <1>4, PollMovesOnly DEF Pcs, ActivePcs
<1> QED
  BY <1>3, <1>4 DEF AskPosition, PositionUnseen

-----------------------------------------------------------------------------
(* The poll of an active campaign: the adds and the trail.                 *)

\* The add has waited too long.
LEMMA AddTimesOutKeeps ==
    ASSUME CamInv, AddTimesOut
    PROVE  CamInv'
<1>1. /\ camPoll.pc = "add" /\ camOn /\ cam.phase = "active" /\ cam.known /\ cam.pend # 0
      /\ cam.pend \in DOMAIN camAdds
      /\ UNCHANGED <<camEntry, camStops, camPos, camBought, camTracked, camAdder, camOn, camShort,
                     camMeddled, camRaced>>
  BY Values DEF AddTimesOut, Polling, Same, camLots, CamInv, Control, Pending, ActivePcs
<1>2. camPoll' \in Polls /\ camPoll'.pc = "trail"
  BY PollAt DEF AddTimesOut, Pcs, ActivePcs
<1>3. /\ camFaults' \in {camFaults, camFaults + 1}
      /\ camAdds' \in Seq(CamOrders) /\ Len(camAdds') = Len(camAdds) /\ DOMAIN camAdds' = DOMAIN camAdds
      /\ \A j \in DOMAIN camAdds : /\ camAdds'[j].filled = camAdds[j].filled
                                   /\ camAdds'[j].st = "open" => camAdds[j].st = "open"
  BY <1>1, AddCancelEffect DEF AddTimesOut, OrderMoved, CamInv, CamTypes
<1>4. /\ cam' \in Campaigns /\ cam'.pend = 0
      /\ cam'.phase = cam.phase /\ cam'.reason = cam.reason
      /\ cam'.sl = cam.sl /\ cam'.level = cam.level /\ cam'.size = cam.size
      /\ cam'.adds = cam.adds /\ cam'.fails = cam.fails /\ cam'.known = cam.known
  BY Values, CamPend DEF AddTimesOut
<1>5. CamTypes'
  BY <1>1, <1>2, <1>3, <1>4, Values DEF CamInv, CamTypes
<1>6. Control'
  BY <1>1, <1>2, <1>3, <1>4, Values DEF CamInv, Control, EntryPcs, ActivePcs
<1>7. Pending' /\ Attachments'
  BY <1>1, <1>2, <1>3, <1>4, Values DEF CamInv, Pending, Attachments
<1>8. CleanLots'
  BY <1>1, <1>2, <1>3, <1>4, Values DEF CamInv, CleanLots, Clean, OnlyLive
<1> QED
  BY <1>5, <1>6, <1>7, <1>8 DEF CamInv

\* The poll goes on to the trail: the campaign has no less and no more.
LEMMA AddUnseenKeeps ==
    ASSUME CamInv, AddUnseen
    PROVE  CamInv'
<1>1. /\ camOn /\ camPoll.pc = "add" /\ cam.phase = "active" /\ camPoll' = At("trail")
      /\ UNCHANGED <<cam, camEntry, camAdds, camStops, camPos, camBought, camTracked, camAdder, camOn, camShort,
                     camMeddled, camRaced>>
      /\ camFaults' = camFaults + 1
  BY DEF AddUnseen, Polling, Same, camMarket, CamFault, CamInv, Control, ActivePcs
<1>2. ~Clean'
  BY <1>1, FaultsDirty
<1> QED
  BY <1>1, <1>2, PollMovesOnly DEF Pcs, ActivePcs

\* The campaign goes on with another poll: where a poll that carries a level
\* may adjust the stop to it.
LEMMA AddAnswerKeeps ==
    ASSUME CamInv, AddAnswer
    PROVE  CamInv'
<1>1. /\ camPoll.pc = "add" /\ camOn /\ cam.phase = "active" /\ cam.known /\ cam.pend # 0
      /\ cam.pend \in DOMAIN camAdds
      /\ UNCHANGED <<camEntry, camAdds, camStops, camPos, camBought, camTracked, camAdder, camOn, camShort,
                     camMeddled, camRaced, camFaults>>
  BY Values DEF AddAnswer, Polling, Same, camMarket, CamFine, CamInv, Control, Pending, ActivePcs
<1>2. CASE camAdds[cam.pend].st # "open" /\ camAdds[cam.pend].filled > 0
  <2>1. /\ camAdds[cam.pend].filled \in 0..Lots /\ cam.adds < MaxAdds
        /\ camBought >= cam.size + camAdds[cam.pend].filled
        /\ cam.size > 0
    BY <1>1, AddsArray DEF CamInv, Pending, Control
  <2>2. cam.adds + 1 \in 0..MaxAdds /\ cam.size + camAdds[cam.pend].filled \in Nat
    <3>1. cam.adds + 1 \in 0..MaxAdds
      BY <2>1, Values, CampaignAssumption
    <3>2. camAdds[cam.pend].filled \in Nat /\ cam.size \in Nat
      BY <2>1, Values, CampaignAssumption
    <3> QED
      BY <3>1, <3>2
  <2>3. cam' = [cam EXCEPT !.adds = cam.adds + 1, !.size = cam.size + camAdds[cam.pend].filled, !.pend = 0,
                           !.addDue = FALSE]
    BY <1>2 DEF AddAnswer
  <2>4. /\ cam' \in Campaigns /\ cam'.adds = cam.adds + 1
        /\ cam'.size = cam.size + camAdds[cam.pend].filled /\ cam'.pend = 0
        /\ cam'.phase = cam.phase /\ cam'.reason = cam.reason
        /\ cam'.sl = cam.sl /\ cam'.level = cam.level
        /\ cam'.fails = cam.fails /\ cam'.known = cam.known
    BY <2>2, <2>3, Values, CamAdded
  <2>5. camPoll' \in Polls /\ camPoll'.pc = "adjust" /\ camPoll'.level = cam.level
    BY <1>2, Values, PollAdjust, PollHeld DEF AddAnswer
  <2>6. CamTypes'
    BY <1>1, <2>4, <2>5 DEF CamInv, CamTypes
  <2>7. cam'.size <= Lots * (cam'.adds + 1) /\ cam'.size > 0
    <3>1. /\ Lots \in Nat /\ cam.adds \in Nat /\ cam.size \in Nat
          /\ camAdds[cam.pend].filled \in Nat /\ camAdds[cam.pend].filled <= Lots
      BY <2>1, Values, CampaignAssumption
    <3>2. Lots * (cam.adds + 1 + 1) = Lots * (cam.adds + 1) + Lots
      BY <3>1
    <3>3. Lots * (cam.adds + 1) \in Int
      BY <3>1
    <3>4. ASSUME NEW bound \in Int, bound = Lots * (cam.adds + 1)
          PROVE  cam.size + camAdds[cam.pend].filled <= bound + Lots
      <4>1. cam.size <= bound
        BY <3>4 DEF CamInv, Control
      <4> QED
        BY <3>1, <4>1
    <3>5. cam.size + camAdds[cam.pend].filled <= Lots * (cam.adds + 1 + 1)
      BY <3>2, <3>3, <3>4
    <3> QED
      BY <2>1, <2>4, <3>1, <3>5
  <2>8. Control'
    BY <1>1, <2>4, <2>5, <2>7 DEF CamInv, Control, EntryPcs, ActivePcs
  <2>9. Pending'
    BY <1>1, <2>1, <2>4, <2>5, Values DEF CamInv, Pending
  <2>10. Attachments'
    BY <1>1, <2>4, <2>5, Values DEF CamInv, Attachments
  <2>11. CleanLots'
    BY <1>1, <2>4, <2>5 DEF CamInv, CleanLots, Clean, OnlyLive
  <2> QED
    BY <2>6, <2>8, <2>9, <2>10, <2>11 DEF CamInv
<1>3. CASE ~(camAdds[cam.pend].st # "open" /\ camAdds[cam.pend].filled > 0)
  <2>1. /\ cam' \in Campaigns /\ cam'.pend \in {0, cam.pend}
        /\ cam'.phase = cam.phase /\ cam'.reason = cam.reason
        /\ cam'.sl = cam.sl /\ cam'.level = cam.level /\ cam'.size = cam.size
        /\ cam'.adds = cam.adds /\ cam'.fails = cam.fails /\ cam'.known = cam.known
    <3>1. CASE cam' = [cam EXCEPT !.pend = 0, !.addDue = FALSE]
      BY <3>1, Values, CamPend
    <3>2. CASE cam' = cam
      BY <3>2, Values
    <3> QED
      BY <1>3, <3>1, <3>2 DEF AddAnswer
  <2>2. camPoll' \in Polls /\ camPoll'.pc = "trail"
    BY <1>3, PollAt DEF AddAnswer, Pcs, ActivePcs
  <2>3. CamTypes'
    BY <1>1, <2>1, <2>2 DEF CamInv, CamTypes
  <2>4. Control'
    BY <1>1, <2>1, <2>2 DEF CamInv, Control, EntryPcs, ActivePcs
  <2>5. Pending' /\ Attachments'
    BY <1>1, <2>1, <2>2, Values DEF CamInv, Pending, Attachments
  <2>6. CleanLots'
    BY <1>1, <2>1, <2>2 DEF CamInv, CleanLots, Clean, OnlyLive
  <2> QED
    BY <2>3, <2>4, <2>5, <2>6 DEF CamInv
<1> QED
  BY <1>2, <1>3

\* The stop is to trail, or not.
LEMMA TrailKeeps ==
    ASSUME CamInv, Trail
    PROVE  CamInv'
<1>1. /\ camOn /\ camPoll.pc = "trail" /\ cam.phase = "active"
      /\ UNCHANGED <<cam, camEntry, camAdds, camStops, camPos, camBought, camTracked, camAdder, camOn, camShort,
                     camMeddled, camRaced, camFaults>>
  BY DEF Trail, Polling, Same, camMarket, CamFine, CamInv, Control, ActivePcs
<1>2. /\ camPoll' \in Polls /\ camPoll'.pc \in {"idle", "adjust"}
      /\ camPoll'.pc = "adjust" => camPoll'.level >= cam.level
  <2>1. CASE camPoll' = At("idle")
    BY <2>1, PollAt DEF Pcs
  <2>2. ASSUME NEW level \in 1..MaxLevel, level > cam.level, camPoll' = Adjust(level, "idle")
        PROVE  camPoll' \in Polls /\ camPoll'.pc = "adjust" /\ camPoll'.level = level
    BY <2>2, PollAdjust, CampaignAssumption
  <2> QED
    BY <2>1, <2>2, Values DEF Trail
<1>3. CamTypes'
  BY <1>1, <1>2 DEF CamInv, CamTypes
<1>4. Control'
  BY <1>1, <1>2 DEF CamInv, Control, EntryPcs, ActivePcs
<1>5. Pending' /\ Attachments'
  BY <1>1, <1>2 DEF CamInv, Pending, Attachments
<1>6. CleanLots'
  BY <1>1, <1>2 DEF CamInv, CleanLots, Clean, OnlyLive
<1> QED
  BY <1>3, <1>4, <1>5, <1>6 DEF CamInv

\* The new stop is placed before the old one is cancelled.
LEMMA AdjustPlaceKeeps ==
    ASSUME CamInv, AdjustPlace
    PROVE  CamInv'
<1>1. /\ camOn /\ camPoll.pc = "adjust" /\ cam.phase = "active" /\ cam.known /\ cam.size \in Nat \ {0}
      /\ camPoll.level \in 0..MaxLevel /\ camPoll.level >= cam.level
      /\ camEntry.st \in {"closed", "canceled"}
      /\ cam.sl \in DOMAIN camStops
      /\ UNCHANGED <<cam, camEntry, camAdds, camPos, camBought, camTracked, camAdder, camOn, camMeddled,
                     camRaced>>
  BY Values DEF AdjustPlace, Polling, camLots, CamInv, Control, Attachments, ActivePcs
<1>2. PICK ok \in BOOLEAN :
         /\ PlaceStop(cam.size, camPoll.level, ok)
         /\ camShort' = ~ok
         /\ camPoll' = IF ok THEN [camPoll EXCEPT !.pc = "unold", !.new = Len(camStops) + 1]
                       ELSE At(camPoll.then)
  BY DEF AdjustPlace, AdjustedSize
<1>3. /\ UNCHANGED camStops \/ StopJoined(cam.size, camPoll.level)
      /\ ok => camFaults' = camFaults /\ StopJoined(cam.size, camPoll.level)
      /\ ~ok => camFaults' = camFaults + 1
  BY <1>1, <1>2, Placement
<1>4. camShort' \in BOOLEAN
  BY <1>2, Zenon
<1>5. CASE ok
  <2>1. Len(camStops) + 1 \in Nat
    BY Values
  <2>2. /\ camPoll' \in Polls /\ camPoll'.pc = "unold" /\ camPoll'.new = Len(camStops) + 1
        /\ camPoll'.level = camPoll.level
    BY <1>2, <1>5, <2>1, Values, PollUnold
  <2>3. camFaults' = camFaults /\ StopJoined(cam.size, camPoll.level) /\ camShort' = FALSE
    BY <1>2, <1>3, <1>5
  <2>4. CamTypes'
    BY <1>1, <1>4, <2>2, <2>3 DEF CamInv, CamTypes, StopJoined
  <2>5. Control'
    BY <1>1, <2>2, <2>3 DEF CamInv, Control, EntryPcs, ActivePcs
  <2>6. Pending'
    BY <1>1, <2>2 DEF CamInv, Pending
  <2>7. Attachments'
    <3>1. /\ cam.sl <= Len(camStops') /\ cam.sl \in DOMAIN camStops' /\ cam.sl # Len(camStops) + 1
          /\ Len(camStops) + 1 \in DOMAIN camStops'
          /\ camStops'[cam.sl] = camStops[cam.sl]
      BY <1>1, <2>3, Values DEF StopJoined
    <3>2. camStops[cam.sl].level = cam.level
      BY <1>1 DEF CamInv, Attachments
    <3> QED
      BY <1>1, <2>2, <2>3, <3>1, <3>2 DEF Attachments, StopJoined
  <2>8. CleanLots'
    <3> SUFFICES ASSUME Clean' PROVE CleanLots'
      BY DEF CleanLots
    <3>1. Clean
      BY <1>1, <2>3 DEF Clean
    <3>2. OnlyLive({cam.sl}) /\ camPos = camBought /\ ~camMeddled
      BY <1>1, <3>1 DEF CamInv, CleanLots
    <3>3. OnlyLive({cam.sl, camPoll.new})'
      BY <1>1, <2>2, <2>3, <3>2, Values DEF OnlyLive, StopJoined
    <3> QED
      BY <1>1, <2>2, <2>3, <3>1, <3>2, <3>3 DEF CleanLots
  <2> QED
    BY <2>4, <2>5, <2>6, <2>7, <2>8 DEF CamInv
<1>6. CASE ~ok
  <2>1. camPoll' \in Polls /\ camPoll'.pc \in {"idle", "trail"}
    BY <1>2, <1>6, Values, PollAt DEF Pcs, ActivePcs
  <2>2. camFaults' = camFaults + 1 /\ camShort' = TRUE
    BY <1>2, <1>3, <1>6
  <2>3. CamTypes'
    BY <1>1, <1>3, <1>4, <2>1, <2>2, Values DEF CamInv, CamTypes, StopJoined
  <2>4. Control'
    <3>1. cam.fails <= camFaults'
      BY <2>2, Values DEF CamInv, Control
    <3> QED
      BY <1>1, <2>1, <3>1 DEF CamInv, Control, EntryPcs, ActivePcs
  <2>5. Pending'
    BY <1>1, <2>1 DEF CamInv, Pending
  <2>6. Attachments'
    BY <1>1, <1>3, <2>1, <2>2, Values DEF CamInv, Attachments, StopJoined
  <2>7. CleanLots'
    BY <2>2, FaultsDirty DEF CleanLots
  <2> QED
    BY <2>3, <2>4, <2>5, <2>6, <2>7 DEF CamInv
<1> QED
  BY <1>5, <1>6

\* The task of the 4H candle sees that an add may be placed.
LEMMA AddLooksKeeps ==
    ASSUME CamInv, AddLooks \/ AddDropped
    PROVE  CamInv'
<1>1. /\ UNCHANGED <<cam, camPoll, camOn, camEntry, camAdds, camStops, camPos, camBought, camTracked, camFaults,
                     camShort, camMeddled, camRaced>>
      /\ camAdder' \in {"idle", "place"}
      /\ camAdder' = "place" => cam.known /\ cam.pend = 0 /\ cam.adds < MaxAdds
  BY DEF AddLooks, AddDropped, AddAllowed, camMarket
<1>2. CamTypes' /\ Control' /\ Attachments'
  BY <1>1 DEF CamInv, CamTypes, Control, Attachments
<1>3. Pending'
  BY <1>1 DEF CamInv, Pending
<1>4. CleanLots'
  BY <1>1 DEF CamInv, CleanLots, Clean, OnlyLive
<1> QED
  BY <1>2, <1>3, <1>4 DEF CamInv

\* The task of the 4H candle places the add.
LEMMA AddPlacesKeeps ==
    ASSUME CamInv, AddPlaces
    PROVE  CamInv'
<1>1. /\ cam.known /\ cam.pend = 0 /\ cam.adds < MaxAdds /\ camAdder' = "idle"
      /\ UNCHANGED <<camPoll, camOn, camEntry, camStops, camPos, camBought, camTracked, camShort, camMeddled, camRaced>>
  BY DEF AddPlaces, CamInv, Pending, camLots
<1>2. camAdds' = Append(camAdds, Placed) =>
        /\ camAdds' \in Seq(CamOrders) /\ Len(camAdds') = Len(camAdds) + 1
        /\ DOMAIN camAdds' = 1..(Len(camAdds) + 1)
        /\ \A j \in DOMAIN camAdds : camAdds'[j] = camAdds[j]
        /\ camAdds'[Len(camAdds) + 1].filled = 0
  BY AddJoined DEF CamInv
<1>3. /\ cam' \in Campaigns
      /\ cam'.phase = cam.phase /\ cam'.reason = cam.reason
      /\ cam'.sl = cam.sl /\ cam'.level = cam.level /\ cam'.size = cam.size
      /\ cam'.adds = cam.adds /\ cam'.fails = cam.fails /\ cam'.known = cam.known
      /\ \/ camFaults' = camFaults /\ camAdds' = Append(camAdds, Placed) /\ cam'.pend = Len(camAdds) + 1
         \/ camFaults' = camFaults + 1 /\ camAdds' \in {camAdds, Append(camAdds, Placed)} /\ cam'.pend = 0
  <2>1. CASE camAdds' = Append(camAdds, Placed) /\ CamFine
             /\ cam' = [cam EXCEPT !.pend = Len(camAdds) + 1, !.addDue = FALSE]
    <3>1. Len(camAdds) + 1 \in Nat
      BY Values
    <3> QED
      BY <2>1, <3>1, Values, CamPend DEF CamFine
  <2>2. CASE CamFault /\ UNCHANGED cam /\ camAdds' \in {camAdds, Append(camAdds, Placed)}
    BY <1>1, <2>2, Values DEF CamFault
  <2> QED
    BY <2>1, <2>2 DEF AddPlaces
<1>4. CamTypes'
  BY <1>1, <1>2, <1>3, Values DEF CamInv, CamTypes
<1>5. Control'
  BY <1>1, <1>3, Values DEF CamInv, Control
<1>6. Pending'
  <2>1. \A i \in DOMAIN camAdds' : camAdds'[i].st = "open" => camAdds'[i].filled < Lots
    <3>1. \A i \in DOMAIN camAdds : camAdds[i].st = "open" => camAdds[i].filled < Lots
      BY DEF CamInv, Pending
    <3>2. ASSUME camAdds' = Append(camAdds, Placed), NEW i \in DOMAIN camAdds', camAdds'[i].st = "open"
          PROVE  camAdds'[i].filled < Lots
      <4>1. i \in DOMAIN camAdds \/ i = Len(camAdds) + 1
        BY <1>2, <3>2, Values
      <4> QED
        BY <1>2, <3>1, <3>2, <4>1, CampaignAssumption
    <3> QED
      BY <1>3, <3>1, <3>2
  <2>2. cam'.pend <= Len(camAdds')
    BY <1>2, <1>3, Values
  <2>3. cam'.pend # 0 => camBought >= cam.size + camAdds'[cam'.pend].filled
    BY <1>2, <1>3, Values DEF CamInv, Pending
  <2>4. camPoll.pc \notin {"add", "timeout_add"}
    BY <1>1 DEF CamInv, Pending
  <2> QED
    BY <1>1, <1>3, <2>1, <2>2, <2>3, <2>4, Values DEF CamInv, Pending
<1>7. Attachments'
  BY <1>1, <1>3 DEF CamInv, Attachments
<1>8. CleanLots'
  BY <1>1, <1>3, Values DEF CamInv, CleanLots, Clean, OnlyLive
<1> QED
  BY <1>4, <1>5, <1>6, <1>7, <1>8 DEF CamInv

-----------------------------------------------------------------------------
(* All steps.                                                              *)

\* Every step of the campaign, the exchange and the 4H candle keeps the invariant.
LEMMA CamStep ==
    ASSUME CamInv, [CamNext]_camVars
    PROVE  CamInv'
<1>1. CASE EntryFills \/ EntryCancelled \/ StopHits \/ StopMeddled \/ Clock
  BY <1>1, EntryFillsKeeps, EntryCancelledKeeps, StopHitsKeeps, StopMeddledKeeps, ClockKeeps
<1>2. CASE \E i \in DOMAIN camAdds : AddFills(i) \/ AddCancelled(i)
  BY <1>2, AddFillsKeeps, AddCancelledKeeps
<1>3. CASE Execute \/ StopMonitor \/ AddLooks \/ AddPlaces \/ AddDropped
  BY <1>3, ExecuteKeeps, StopMonitorKeeps, AddLooksKeeps, AddPlacesKeeps
<1>4. CASE PollTimeout \/ PollEntry \/ FindAttached \/ FirstStop \/ VerifyStop \/ Restop \/ Emergency
  BY <1>4, PollTimeoutKeeps, PollEntryKeeps, FindAttachedKeeps, FirstStopKeeps, VerifyStopKeeps, RestopKeeps,
     EmergencyKeeps
<1>5. CASE TimeoutStop \/ TimeoutAdd \/ TimeoutClose \/ StopClosed \/ StopCancelled \/ StopLive \/ StopUnseen
  BY <1>5, TimeoutStopKeeps, TimeoutAddKeeps, TimeoutCloseKeeps, StopClosedKeeps, StopCancelledKeeps,
     StopLiveKeeps, StopUnseenKeeps
<1>6. CASE Replace \/ AskPosition \/ PositionUnseen \/ AddTimesOut \/ AddAnswer \/ AddUnseen \/ Trail
  BY <1>6, ReplaceKeeps, AskPositionKeeps, AddTimesOutKeeps, AddAnswerKeeps, AddUnseenKeeps, TrailKeeps
<1>7. CASE AdjustPlace \/ AdjustCancel
  BY <1>7, AdjustPlaceKeeps, AdjustCancelKeeps
<1>8. CASE UNCHANGED camVars
  <2>1. UNCHANGED <<cam, camPoll, camAdder, camOn, camEntry, camAdds, camStops, camPos, camBought,
                    camTracked, camFaults, camShort, camMeddled, camRaced>>
    BY <1>8 DEF camVars
  <2>2. CamTypes' /\ Control' /\ Pending' /\ Attachments'
    BY <2>1 DEF CamInv, CamTypes, Control, Pending, Attachments
  <2>3. CleanLots'
    BY <2>1 DEF CamInv, CleanLots, Clean, OnlyLive
  <2> QED
    BY <2>2, <2>3 DEF CamInv
<1> QED
  BY <1>1, <1>2, <1>3, <1>4, <1>5, <1>6, <1>7, <1>8 DEF CamNext, Poll

\* Nothing is open at the start.
LEMMA CamInitial == CamInit => CamInv
<1> SUFFICES ASSUME CamInit PROVE CamInv
  OBVIOUS
<1>0. 0 \in 0..MaxLevel /\ 0 \in 0..MaxAdds /\ 0 \in 0..Lots /\ Lots \in Nat
  BY CampaignAssumption
<1>1. cam \in Campaigns /\ camPoll \in Polls /\ camEntry \in CamOrders
  BY <1>0 DEF CamInit, Campaigns, Polls, CamOrders, At, Unplaced
<1>2. /\ camAdds = <<>> /\ camStops = <<>> /\ Len(camAdds) = 0 /\ Len(camStops) = 0
      /\ DOMAIN camAdds = {} /\ DOMAIN camStops = {}
      /\ camAdds \in Seq(CamOrders) /\ camStops \in Seq(CamStopSet)
  BY EmptySeq DEF CamInit
<1>3. /\ cam.phase = "none" /\ cam.sl = 0 /\ cam.size = 0 /\ cam.adds = 0 /\ cam.pend = 0 /\ cam.fails = 0
      /\ ~cam.known
      /\ camPoll.pc = "idle" /\ camEntry.st = "none" /\ camEntry.filled = 0
  BY DEF CamInit, At, Unplaced
<1>4. /\ camAdder = "idle" /\ camOn = TRUE /\ camPos = 0 /\ camBought = 0 /\ camTracked = FALSE
      /\ camFaults = 0 /\ camShort = FALSE /\ camMeddled = FALSE /\ camRaced = FALSE /\ camEntry = Unplaced
  BY DEF CamInit
<1>5. CamTypes
  <2>1. camOn \in BOOLEAN /\ camTracked \in BOOLEAN
    BY <1>4, Zenon
  <2>2. camShort \in BOOLEAN /\ camMeddled \in BOOLEAN /\ camRaced \in BOOLEAN
    BY <1>4, Zenon
  <2> QED
    BY <1>1, <1>2, <1>4, <2>1, <2>2 DEF CamTypes
<1>6. Control
  <2>1. 0 <= Lots * (0 + 1)
    BY <1>0
  <2> QED
    BY <1>3, <1>4, <1>2, <2>1 DEF Control, EntryPcs, ActivePcs
<1>7. Pending /\ Attachments
  BY <1>2, <1>3, <1>4 DEF Pending, Attachments
<1>8. CleanLots
  BY <1>2, <1>3, <1>4 DEF CleanLots
<1> QED
  BY <1>5, <1>6, <1>7, <1>8 DEF CamInv

\* The Risk Service has the trade as long as the campaign is open.
LEMMA TrackedKeeps ==
    ASSUME CamInv, TrackedWhileOpen, [CamNext]_camVars
    PROVE  TrackedWhileOpen'
<1>1. ASSUME UNCHANGED camTracked, cam'.phase = cam.phase PROVE TrackedWhileOpen'
  BY <1>1 DEF TrackedWhileOpen
<1>2. ASSUME NEW why \in {"cancelled", "emergency", "timeout", "trailing_sl"}, CloseCampaign(why)
      PROVE  TrackedWhileOpen'
  <2>1. cam'.phase = "closed" /\ camTracked' = FALSE
    BY <1>2, CamClosed, Values DEF CloseCampaign
  <2> QED
    BY <2>1 DEF TrackedWhileOpen
<1>3. ASSUME NEW sl \in Nat, Activate(sl), camPoll.pc \in EntryPcs, UNCHANGED camTracked
      PROVE  TrackedWhileOpen'
  <2>1. cam'.phase = "active" /\ cam.phase = "pending_initial"
    BY <1>3, CamActive, Values DEF CamInv, Control
  <2> QED
    BY <1>3, <2>1 DEF TrackedWhileOpen
<1>4. CASE EntryFills \/ EntryCancelled \/ StopHits \/ StopMeddled \/ Clock
  <2>1. cam'.phase = cam.phase /\ UNCHANGED camTracked
    BY <1>4, CamDue, Values DEF EntryFills, EntryCancelled, StopHits, StopMeddled, Clock
  <2> QED
    BY <1>1, <2>1
<1>5. CASE \E i \in DOMAIN camAdds : AddFills(i) \/ AddCancelled(i)
  BY <1>1, <1>5 DEF AddFills, AddCancelled
<1>6. CASE Execute
  <2>1. CASE UNCHANGED <<cam, camTracked>>
    BY <1>1, <2>1
  <2>2. CASE cam' = [cam EXCEPT !.phase = "pending_initial"] /\ camTracked' = TRUE
    <3>1. cam'.phase = "pending_initial"
      BY <2>2, CamOpened, Values
    <3> QED
      BY <2>2, <3>1 DEF TrackedWhileOpen
  <2> QED
    BY <1>6, <2>1, <2>2 DEF Execute
<1>7. CASE StopMonitor
  BY <1>1, <1>2, <1>7 DEF StopMonitor
<1>8. CASE AddLooks \/ AddDropped
  BY <1>1, <1>8 DEF AddLooks, AddDropped
<1>9. CASE AddPlaces
  <2>1. Len(camAdds) + 1 \in Nat
    BY Values
  <2> QED
    BY <1>1, <1>9, <2>1, CamPend, Values DEF AddPlaces
<1>10. CASE PollTimeout \/ Emergency \/ TimeoutClose \/ StopClosed
  BY <1>2, <1>10 DEF PollTimeout, Emergency, TimeoutClose, StopClosed
<1>11. CASE PollEntry
  <2>1. CASE camEntry.filled > 0
    <3>1. camEntry.filled \in Nat
      BY CampaignAssumption DEF CamInv, CamTypes, CamOrders
    <3> QED
      BY <1>1, <1>11, <2>1, <3>1, CamKnown, Values DEF PollEntry
  <2>2. CASE ~(camEntry.filled > 0)
    BY <1>2, <1>11, <2>2 DEF PollEntry
  <2> QED
    BY <2>1, <2>2
<1>12. CASE FindAttached
  <2>1. ASSUME NEW i \in LiveStops, Activate(i) PROVE TrackedWhileOpen'
    <3>1. i \in Nat
      BY <2>1, Values DEF LiveStops
    <3> QED
      BY <1>3, <1>12, <2>1, <3>1 DEF FindAttached, Polling, EntryPcs
  <2>2. CASE UNCHANGED cam
    BY <1>1, <1>12, <2>2 DEF FindAttached
  <2> QED
    BY <1>12, <2>1, <2>2 DEF FindAttached
<1>13. CASE VerifyStop
  <2>1. camPoll.new \in Nat
    BY Values
  <2> QED
    BY <1>1, <1>3, <1>13, <2>1 DEF VerifyStop, Polling, EntryPcs
<1>14. CASE Restop
  <2>1. Len(camStops) + 1 \in Nat
    BY Values
  <2> QED
    BY <1>1, <1>3, <1>14, <2>1 DEF Restop, Polling, EntryPcs
<1>15. CASE FirstStop \/ TimeoutStop \/ TimeoutAdd \/ StopCancelled \/ PositionUnseen \/ AddUnseen \/ Trail
            \/ AdjustPlace
  BY <1>1, <1>15 DEF FirstStop, TimeoutStop, TimeoutAdd, StopCancelled, PositionUnseen, AddUnseen, Trail,
     AdjustPlace
<1>16. CASE StopLive \/ StopUnseen
  <2>1. cam.fails + 1 \in Nat /\ 0 \in Nat
    BY Values
  <2> QED
    BY <1>1, <1>16, <2>1, CamFails, Values DEF StopLive, StopUnseen
<1>17. CASE Replace
  <2>1. Len(camStops) + 1 \in Nat
    BY Values
  <2>2. \/ cam' = [cam EXCEPT !.sl = Len(camStops) + 1, !.fails = 0]
        \/ cam' = cam
    BY <1>17 DEF Replace
  <2> QED
    BY <1>1, <1>17, <2>1, <2>2, CamReplaced, Values DEF Replace
<1>18. CASE AskPosition
  BY <1>1, <1>2, <1>18 DEF AskPosition
<1>19. CASE AddTimesOut
  BY <1>1, <1>19, CamPend, Values DEF AddTimesOut
<1>20. CASE AddAnswer
  <2>1. cam'.phase = cam.phase
    BY <1>20, Values DEF AddAnswer, Campaigns
  <2> QED
    BY <1>1, <1>20, <2>1 DEF AddAnswer
<1>21. CASE AdjustCancel
  BY <1>1, <1>21, CamTrailed, Values DEF AdjustCancel
<1>22. CASE UNCHANGED camVars
  BY <1>1, <1>22 DEF camVars
<1> QED
  BY <1>4, <1>5, <1>6, <1>7, <1>8, <1>9, <1>10, <1>11, <1>12, <1>13, <1>14, <1>15, <1>16, <1>17, <1>18, <1>19,
     <1>20, <1>21, <1>22 DEF CamNext, Poll

-----------------------------------------------------------------------------
(* What the invariant says, and what no step undoes.                       *)

\* What a step does to the stops: nothing, one joins them, or one ends.
LEMMA StopsMove ==
    ASSUME CamInv, [CamNext]_camVars
    PROVE  \/ UNCHANGED camStops
           \/ \E size \in Nat, level \in 0..MaxLevel : StopJoined(size, level)
           \/ /\ StopHits \/ StopMeddled \/ TimeoutStop \/ AdjustCancel
              /\ \E i \in DOMAIN camStops, st \in {"live", "closed", "canceled"} : StopEnded(i, st)
<1>0. 0 \in 0..MaxLevel /\ Lots \in Nat \ {0}
  BY CampaignAssumption
<1>1. ASSUME NEW size \in Nat \ {0}, NEW level \in 0..MaxLevel, NEW ok \in BOOLEAN, PlaceStop(size, level, ok)
      PROVE  UNCHANGED camStops \/ StopJoined(size, level)
  BY <1>1, Placement
<1>2. CASE EntryFills
  <2>1. camStops' = Append(camStops, Stop(Lots, 0)) => StopJoined(Lots, 0)
    BY <1>0, StopAdded DEF CamInv
  <2> QED
    BY <1>0, <1>2, <2>1 DEF EntryFills, Attached
<1>3. CASE EntryCancelled
  <2>1. camEntry.filled \in Nat
    BY <1>0 DEF CamInv, CamTypes, CamOrders
  <2>2. CASE camEntry.filled > 0
    <3>1. StopJoined(camEntry.filled, 0)
      BY <1>0, <1>3, <2>1, <2>2, StopAdded DEF EntryCancelled, CamInv
    <3> QED
      BY <1>0, <2>1, <3>1
  <2> QED
    BY <1>3, <2>2 DEF EntryCancelled
<1>4. CASE FirstStop \/ Restop \/ Replace \/ AdjustPlace
  <2>1. cam.size \in Nat \ {0} /\ cam.level \in 0..MaxLevel /\ camPoll.level \in 0..MaxLevel
    <3>1. cam.known
      BY <1>4 DEF FirstStop, Restop, Replace, AdjustPlace, Polling, CamInv, Control, EntryPcs, ActivePcs
    <3> QED
      BY <3>1, Values DEF CamInv, Control
  <2>2. \E level \in 0..MaxLevel, ok \in BOOLEAN : PlaceStop(cam.size, level, ok)
    BY <1>0, <1>4, <2>1 DEF FirstStop, Restop, Replace, AdjustPlace, AdjustedSize
  <2> QED
    BY <1>1, <2>1, <2>2
<1>5. CASE StopHits \/ StopMeddled
  <2>1. \E i \in DOMAIN camStops, st \in {"closed", "canceled"} : camStops' = [camStops EXCEPT ![i].st = st]
    BY <1>5 DEF StopHits, StopMeddled, LiveStops
  <2>2. PICK i \in DOMAIN camStops, st \in {"closed", "canceled"} : camStops' = [camStops EXCEPT ![i].st = st]
    BY <2>1
  <2>3. StopEnded(i, st)
    BY <2>2, StopMarked DEF CamInv
  <2> QED
    BY <1>5, <2>3
<1>6. CASE TimeoutStop \/ AdjustCancel
  <2>1. cam.sl \in DOMAIN camStops /\ CancelStop(cam.sl)
    <3>1. cam.phase = "active"
      BY <1>6 DEF TimeoutStop, PollActive, AdjustCancel, Polling, CamInv, Control, ActivePcs
    <3> QED
      BY <1>6, <3>1 DEF TimeoutStop, AdjustCancel, CamInv, Attachments
  <2>2. (IF camStops[cam.sl].st = "live" THEN "canceled" ELSE camStops[cam.sl].st) \in {"live", "closed", "canceled"}
    BY <2>1, StopsArray DEF CamInv
  <2> QED
    BY <1>6, <2>1, <2>2, StopCancelEffect
<1>7. CASE UNCHANGED camStops
  BY <1>7
<1>8. \/ EntryFills \/ EntryCancelled \/ FirstStop \/ Restop \/ Replace \/ AdjustPlace \/ StopHits \/ StopMeddled
      \/ TimeoutStop \/ AdjustCancel \/ UNCHANGED camStops
  BY DEF CamNext, Poll, camVars, camMarket, AddFills, AddCancelled, Clock, Execute, StopMonitor, PollTimeout, PollEntry,
         FindAttached, VerifyStop, Emergency, TimeoutAdd, TimeoutClose, StopClosed, StopCancelled, StopLive,
         StopUnseen, AskPosition, PositionUnseen, AddTimesOut, AddAnswer, AddUnseen, Trail, AddLooks, AddPlaces,
         AddDropped
<1> QED
  BY <1>2, <1>3, <1>4, <1>5, <1>6, <1>7, <1>8

\* Which stop an active campaign holds changes only with a new one.
LEMMA HeldStop ==
    ASSUME CamInv, [CamNext]_camVars, cam.phase = "active", cam'.phase = "active"
    PROVE  \/ cam'.sl = cam.sl
           \/ cam'.sl = Len(camStops) + 1 /\ StopJoined(cam.size, cam.level)
           \/ AdjustCancel
<1>0. 0 \in Nat /\ cam.fails + 1 \in Nat /\ Len(camStops) + 1 \in Nat /\ Len(camAdds) + 1 \in Nat
      /\ cam.adds + 1 \in Nat /\ cam.size \in Nat
  BY Values
<1>1. ASSUME NEW why \in {"cancelled", "emergency", "timeout", "trailing_sl"}, CloseCampaign(why)
      PROVE  FALSE
  <2>1. cam'.phase = "closed"
    BY <1>1, CamClosed, Values DEF CloseCampaign
  <2> QED
    BY <2>1
<1>2. camPoll.pc \notin EntryPcs
  BY DEF CamInv, Control
<1>3. CASE Clock
  BY <1>3, CamDue, Values DEF Clock
<1>4. CASE StopLive \/ StopUnseen
  BY <1>0, <1>4, CamFails, Values DEF StopLive, StopUnseen
<1>5. CASE Replace
  <2>1. PICK ok \in BOOLEAN :
           /\ PlaceStop(cam.size, cam.level, ok)
           /\ cam' = IF ok THEN [cam EXCEPT !.sl = Len(camStops) + 1, !.fails = 0] ELSE cam
    BY <1>5 DEF Replace
  <2>2. cam.size \in Nat \ {0} /\ cam.level \in 0..MaxLevel
    BY Values DEF CamInv, Control
  <2>3. ok => StopJoined(cam.size, cam.level)
    BY <2>1, <2>2, Placement
  <2>4. CASE ok
    <3>1. cam'.sl = Len(camStops) + 1
      BY <1>0, <2>1, <2>4, CamReplaced, Values
    <3> QED
      BY <2>3, <2>4, <3>1
  <2> QED
    BY <2>1, <2>4
<1>6. CASE AddPlaces \/ AddTimesOut
  BY <1>0, <1>6, CamPend, Values DEF AddPlaces, AddTimesOut
<1>7. CASE AddAnswer
  BY <1>7, Values DEF AddAnswer, Campaigns
<1>8. CASE PollTimeout \/ PollEntry \/ StopMonitor
  <2>1. cam.phase = "pending_initial" => FALSE
    OBVIOUS
  <2> QED
    BY <1>8, <2>1 DEF PollTimeout, PollEntry, StopMonitor
<1>9. CASE FindAttached \/ FirstStop \/ VerifyStop \/ Restop \/ Emergency
  BY <1>2, <1>9 DEF FindAttached, FirstStop, VerifyStop, Restop, Emergency, Polling, EntryPcs
<1>10. CASE TimeoutClose \/ StopClosed
  BY <1>1, <1>10 DEF TimeoutClose, StopClosed
<1>11. CASE AskPosition
  BY <1>1, <1>11 DEF AskPosition
<1>12. CASE AdjustCancel
  BY <1>12
<1>13. CASE UNCHANGED cam
  BY <1>13
<1>14. \/ Clock \/ StopLive \/ StopUnseen \/ Replace \/ AddPlaces \/ AddTimesOut \/ AddAnswer
       \/ PollTimeout \/ PollEntry \/ StopMonitor \/ FindAttached \/ FirstStop \/ VerifyStop \/ Restop
       \/ Emergency \/ TimeoutClose \/ StopClosed \/ AskPosition \/ AdjustCancel \/ UNCHANGED cam
  BY DEF CamNext, Poll, camVars, EntryFills, EntryCancelled, AddFills, AddCancelled, StopHits, StopMeddled, Execute,
         TimeoutStop, TimeoutAdd, StopCancelled, PositionUnseen, AddUnseen, Trail, AdjustPlace, AddLooks, AddDropped
<1> QED
  BY <1>3, <1>4, <1>5, <1>6, <1>7, <1>8, <1>9, <1>10, <1>11, <1>12, <1>13, <1>14

\* A stop that is there stays there, at its level.
LEMMA LevelsStay ==
    ASSUME CamInv, [CamNext]_camVars, NEW j \in DOMAIN camStops
    PROVE  j \in DOMAIN camStops' /\ camStops'[j].level = camStops[j].level
<1>1. ASSUME NEW size, NEW level, StopJoined(size, level)
      PROVE  j \in DOMAIN camStops' /\ camStops'[j].level = camStops[j].level
  BY <1>1, Values DEF StopJoined
<1>2. ASSUME NEW i, NEW st, StopEnded(i, st)
      PROVE  j \in DOMAIN camStops' /\ camStops'[j].level = camStops[j].level
  BY <1>2 DEF StopEnded
<1> QED
  BY <1>1, <1>2, StopsMove

\* The stop of an active campaign rises.
LEMMA StopRisesStep ==
    ASSUME CamInv, [CamNext]_camVars, cam.phase = "active", cam'.phase = "active"
    PROVE  camStops'[cam'.sl].level >= camStops[cam.sl].level
<1>1. cam.sl \in DOMAIN camStops /\ camStops[cam.sl].level = cam.level /\ cam.level \in Nat
  BY Values, CampaignAssumption DEF CamInv, Attachments
<1>2. CASE cam'.sl = cam.sl
  BY <1>1, <1>2, LevelsStay
<1>3. CASE cam'.sl = Len(camStops) + 1 /\ StopJoined(cam.size, cam.level)
  BY <1>1, <1>3 DEF StopJoined
<1>4. CASE AdjustCancel
  <2>1. /\ camPoll.new \in DOMAIN camStops /\ camStops[camPoll.new].level = camPoll.level
        /\ camPoll.level >= cam.level
    BY <1>4 DEF AdjustCancel, Polling, CamInv, Attachments
  <2>2. cam'.sl = camPoll.new
    BY <1>4, CamTrailed, Values DEF AdjustCancel
  <2> QED
    BY <1>1, <2>1, <2>2, LevelsStay
<1> QED
  BY <1>2, <1>3, <1>4, HeldStop

\* The last live stop stays while the campaign is handled.
LEMMA NoGapStep ==
    ASSUME CamInv, [CamNext]_camVars, cam.phase = "active", cam'.phase = "active",
           camPos' = camPos, ~camMeddled', ~camRaced', camPoll'.pc \notin {"timeout_add", "timeout_close"},
           LiveStops # {}
    PROVE  LiveStops' # {}
<1>1. PICK l \in DOMAIN camStops : camStops[l].st = "live"
  BY DEF LiveStops
<1>2. CASE UNCHANGED camStops
  BY <1>1, <1>2 DEF LiveStops
<1>3. ASSUME NEW size, NEW level, StopJoined(size, level) PROVE LiveStops' # {}
  BY <1>1, <1>3, Values DEF StopJoined, LiveStops
<1>4. ASSUME StopHits PROVE FALSE
  <2>1. PICK i \in LiveStops : camPos' = camPos - camStops[i].size
    BY <1>4 DEF StopHits
  <2>2. camStops[i].size \in Nat /\ camStops[i].size > 0 /\ camPos \in Int
    BY Values, StopsArray DEF LiveStops, CamInv
  <2> QED
    BY <2>1, <2>2
<1>5. ASSUME StopMeddled PROVE FALSE
  BY <1>5 DEF StopMeddled
<1>6. ASSUME TimeoutStop PROVE FALSE
  <2>1. camPoll'.pc \in {"timeout_add", "timeout_close"}
    BY <1>6, PollAt DEF TimeoutStop, Pcs, ActivePcs, At
  <2> QED
    BY <2>1
<1>7. CASE AdjustCancel
  <2>1. camPoll.pc = "unold" /\ UNCHANGED <<camMeddled, camRaced>> /\ CancelStop(cam.sl)
    BY <1>7 DEF AdjustCancel, Polling, Same
  <2>2. /\ camPoll.new \in DOMAIN camStops /\ camPoll.new # cam.sl /\ camStops[camPoll.new].st = "live"
        /\ cam.sl \in DOMAIN camStops
    BY <2>1 DEF CamInv, Attachments
  <2>3. camPoll.new \in DOMAIN camStops' /\ camStops'[camPoll.new].st = "live"
    BY <2>1, <2>2, StopCancelEffect DEF StopEnded
  <2> QED
    BY <2>3 DEF LiveStops
<1> QED
  BY <1>2, <1>3, <1>4, <1>5, <1>6, <1>7, StopsMove

\* What the invariant says of the campaign's properties.
LEMMA CampaignBounds == CamInv => CamTypeOK
<1> SUFFICES ASSUME CamInv PROVE CamTypeOK
  OBVIOUS
<1>1. /\ cam.phase \in {"none", "pending_initial", "active", "closed"}
      /\ cam.fails \in 0..camFaults /\ cam.level \in 0..MaxLevel /\ cam.adds \in 0..MaxAdds
      /\ cam.sl \in 0..Len(camStops) /\ cam.pend \in 0..Len(camAdds)
  BY Values DEF CamInv, Control, Pending, Attachments
<1>2. cam.size \in 0..(Lots * (MaxAdds + 1))
  <2>1. cam.size <= Lots * (cam.adds + 1) /\ cam.size \in Nat
    BY Values DEF CamInv, Control
  <2>2. Lots \in Nat /\ MaxAdds \in Nat /\ cam.adds \in Nat /\ cam.adds <= MaxAdds
    BY Values, CampaignAssumption
  <2>3. PICK d \in Nat : MaxAdds = cam.adds + d
    <3>1. MaxAdds - cam.adds \in Nat /\ MaxAdds = cam.adds + (MaxAdds - cam.adds)
      BY <2>2
    <3> QED
      BY <3>1
  <2>4. Lots * (MaxAdds + 1) = Lots * (cam.adds + 1) + Lots * d /\ Lots * d \in Nat
        /\ Lots * (cam.adds + 1) \in Nat
    BY <2>2, <2>3
  <2> QED
    BY <2>1, <2>4
<1> QED
  BY <1>1, <1>2 DEF CamTypeOK

\* The stop of a campaign is for all its lots, and its end leaves nothing.
LEMMA CampaignStops == CamInv => StopCoversPosition /\ NothingLeft
<1> SUFFICES ASSUME CamInv PROVE StopCoversPosition /\ NothingLeft
  OBVIOUS
<1>1. StopCoversPosition
  BY DEF CamInv, Attachments, StopCoversPosition
<1>2. NothingLeft
  <2> SUFFICES ASSUME cam.phase = "closed", camFaults = 0, ~camRaced, camBought = cam.size,
                      cam.reason = "cancelled" => camBought = 0
               PROVE  camPos = 0 /\ LiveStops = {}
    BY DEF NothingLeft
  <2>1. camPos = 0 /\ OnlyLive({})
    BY Values DEF CamInv, CleanLots, Clean
  <2> QED
    BY <2>1 DEF OnlyLive, LiveStops
<1> QED
  BY <1>1, <1>2

-----------------------------------------------------------------------------
(* The theorem.                                                            *)
\* Along every behaviour of the campaign monitor its types hold, the stop of an
\* active campaign is for the lots it counts, the Risk Service has the trade as
\* long as the campaign is open, and a clean end leaves nothing
\* (campaign_monitor.py).
THEOREM CampaignSafe == CamSpec => [](CamTypeOK /\ StopCoversPosition /\ NothingLeft /\ TrackedWhileOpen)
<1>1. CamInit => CamInv /\ TrackedWhileOpen
  <2>1. CamInit => TrackedWhileOpen
    BY DEF CamInit, TrackedWhileOpen
  <2> QED
    BY <2>1, CamInitial
<1>2. CamInv /\ TrackedWhileOpen /\ [CamNext]_camVars => (CamInv /\ TrackedWhileOpen)'
  BY CamStep, TrackedKeeps
<1>3. CamInv => CamTypeOK /\ StopCoversPosition /\ NothingLeft
  BY CampaignBounds, CampaignStops
<1> QED
  BY <1>1, <1>2, <1>3, PTL DEF CamSpec

-----------------------------------------------------------------------------
(* The Bybit watcher.  NotesBounded is not inductive: a tick inserts an    *)
(* annotation long after it has decided to.  What it decided on is the     *)
(* memory of the last tick, which a crash in between loses; so the         *)
(* invariant says, wherever the process is, whether an annotation more may *)
(* be open than the blind starts have left behind, and that a start keeps  *)
(* the account.                                                            *)

Ticks == [pc : {"down", "idle", "orders", "enforce", "new", "gone", "insert", "link", "close", "end"},
          pend : SUBSET Orders, pos : BOOLEAN, todo : SUBSET Orders]
Note  == [open : BOOLEAN, thesis : BOOLEAN]
Notes == Seq(Note)

WatchTypeOK ==
    /\ notes \in Notes /\ tick \in Ticks
    /\ lastPend \in SUBSET Orders /\ lastPos \in BOOLEAN /\ blind \in Nat

\* An annotation beside those of the blind starts may be open: while the process
\* is down, when the memory has the position until a tick writes, and when the
\* tick has it after the write.
Entitled == IF tick.pc = "down" THEN TRUE
            ELSE IF tick.pc \in {"link", "end"} THEN tick.pos ELSE lastPos

NotesCounted == Cardinality(OpenNotes) <= blind + (IF Entitled THEN 1 ELSE 0)

\* A tick inserts what the memory has not, and closes what it has not itself.
TickDecided ==
    /\ tick.pc = "insert" => tick.pos /\ ~lastPos
    /\ tick.pc = "close" => ~tick.pos

WatchInv == WatchTypeOK /\ NotesCounted /\ TickDecided

-----------------------------------------------------------------------------
\* The annotations are an array.
LEMMA NotesArray ==
    ASSUME WatchInv
    PROVE  /\ Len(notes) \in Nat /\ DOMAIN notes = 1..Len(notes)
           /\ notes \in [1..Len(notes) -> Note]
           /\ [1..Len(notes) -> Note] \subseteq Notes
<1>1. notes \in Seq(Note)
  BY DEF WatchInv, WatchTypeOK, Notes
<1>2. /\ Len(notes) \in Nat /\ DOMAIN notes = 1..Len(notes) /\ notes \in [1..Len(notes) -> Note]
  BY <1>1, LenProperties
<1>3. [1..Len(notes) -> Note] \subseteq Seq(Note)
  BY <1>2, SeqDef, Zenon
<1> QED
  BY <1>2, <1>3 DEF Notes

\* So the open ones can be counted.
LEMMA NotesFinite ==
    ASSUME WatchInv
    PROVE  IsFiniteSet(OpenNotes) /\ Cardinality(OpenNotes) \in Nat
<1>1. IsFiniteSet(1..Len(notes))
  BY NotesArray, FS_Interval
<1>2. OpenNotes \subseteq 1..Len(notes)
  BY NotesArray DEF OpenNotes
<1> QED
  BY <1>1, <1>2, FS_Subset, FS_CardinalityType

\* A step that writes no annotation has only the memory to keep true.
LEMMA Unwritten ==
    ASSUME WatchInv, UNCHANGED <<notes, blind>>, tick' \in Ticks, lastPos' \in BOOLEAN,
           lastPend' \in SUBSET Orders, Entitled => Entitled', TickDecided'
    PROVE  WatchInv'
<1>1. OpenNotes' = OpenNotes
  BY DEF OpenNotes
<1>2. Cardinality(OpenNotes) \in Nat /\ blind \in Nat /\ NotesCounted
  BY NotesFinite DEF WatchInv, WatchTypeOK
<1>3. NotesCounted'
  <2>1. CASE Entitled'
    BY <1>1, <1>2, <2>1 DEF NotesCounted
  <2>2. CASE ~Entitled'
    BY <1>1, <1>2, <2>2 DEF NotesCounted
  <2> QED
    BY <2>1, <2>2
<1> QED
  BY <1>3 DEF WatchInv, WatchTypeOK

\* A new annotation is one more, which the memory did not have.
LEMMA Inserted ==
    ASSUME WatchInv, InsertNote
    PROVE  WatchInv'
<1>1. ~lastPos /\ tick.pos /\ tick.pc = "insert"
  BY DEF InsertNote, AtStep, WatchInv, TickDecided
<1>2. /\ notes' \in Notes
      /\ DOMAIN notes = 1..Len(notes) /\ DOMAIN notes' = 1..(Len(notes) + 1)
      /\ Len(notes) \in Nat
      /\ \A i \in DOMAIN notes : notes'[i] = notes[i]
  <2>1. notes' = Append(notes, [open |-> TRUE, thesis |-> FALSE]) /\ notes \in Seq(Note)
    BY DEF InsertNote, WatchInv, WatchTypeOK, Notes
  <2>2. [open |-> TRUE, thesis |-> FALSE] \in Note
    BY DEF Note
  <2>3. notes' \in Seq(Note) /\ Len(notes') = Len(notes) + 1
        /\ (\A i \in 1..Len(notes) : notes'[i] = notes[i])
    BY <2>1, <2>2, AppendProperties
  <2> QED
    BY <2>3, NotesArray, LenProperties DEF Notes
<1>3. Cardinality(OpenNotes') <= Cardinality(OpenNotes) + 1
  <2>1. /\ IsFiniteSet(OpenNotes \cup {Len(notes) + 1})
        /\ Cardinality(OpenNotes \cup {Len(notes) + 1}) <= Cardinality(OpenNotes) + 1
    <3>1. IsFiniteSet(OpenNotes) /\ Cardinality(OpenNotes) \in Nat
      BY NotesFinite
    <3>2. /\ IsFiniteSet(OpenNotes \cup {Len(notes) + 1})
          /\ \/ Cardinality(OpenNotes \cup {Len(notes) + 1}) = Cardinality(OpenNotes)
             \/ Cardinality(OpenNotes \cup {Len(notes) + 1}) = Cardinality(OpenNotes) + 1
      BY <3>1, FS_AddElement, Zenon
    <3> QED
      BY <3>1, <3>2
  <2>2. OpenNotes' \subseteq OpenNotes \cup {Len(notes) + 1}
    BY <1>2 DEF OpenNotes
  <2>3. /\ Cardinality(OpenNotes') \in Nat /\ Cardinality(OpenNotes \cup {Len(notes) + 1}) \in Nat
        /\ Cardinality(OpenNotes') <= Cardinality(OpenNotes \cup {Len(notes) + 1})
    BY <2>1, <2>2, FS_Subset, FS_CardinalityType
  <2> QED
    BY <2>1, <2>3, NotesFinite
<1>4. /\ tick' = [tick EXCEPT !.pc = "link"] /\ UNCHANGED memory
      /\ tick \in Ticks
  BY DEF InsertNote, WatchInv, WatchTypeOK, Notes
<1>5. tick'.pc = "link" /\ tick'.pos = tick.pos
      /\ tick' \in Ticks
  BY <1>4 DEF Ticks
<1>6. Cardinality(OpenNotes) <= blind /\ blind \in Nat /\ blind' = blind
  BY <1>1, <1>4, NotesFinite DEF WatchInv, WatchTypeOK, NotesCounted, Entitled, memory
<1>7. IsFiniteSet(OpenNotes') /\ Cardinality(OpenNotes') \in Nat
  <2>1. IsFiniteSet(1..(Len(notes) + 1))
    BY NotesArray, FS_Interval
  <2>2. OpenNotes' \subseteq 1..(Len(notes) + 1)
    BY <1>2 DEF OpenNotes
  <2> QED
    BY <2>1, <2>2, FS_Subset, FS_CardinalityType
<1>8. NotesCounted'
  BY <1>1, <1>3, <1>5, <1>6, <1>7, NotesFinite DEF NotesCounted, Entitled
<1> QED
  BY <1>2, <1>4, <1>5, <1>8 DEF WatchInv, WatchTypeOK, TickDecided, memory

\* The link changes the thesis of an annotation, not whether it is open.
LEMMA Linked ==
    ASSUME WatchInv, LinkNote
    PROVE  WatchInv'
<1>1. /\ notes' \in Notes
      /\ DOMAIN notes' = DOMAIN notes
      /\ \A i \in DOMAIN notes : notes'[i].open = notes[i].open
  <2>1. ASSUME NEW b \in BOOLEAN, notes' = [notes EXCEPT ![Len(notes)].thesis = b]
        PROVE  /\ notes' \in [1..Len(notes) -> Note]
               /\ \A i \in DOMAIN notes : notes'[i].open = notes[i].open
    BY <2>1, NotesArray DEF Note
  <2>2. CASE UNCHANGED notes
    BY <2>2, NotesArray
  <2>3. ASSUME \E o \in Orders : notes' = [notes EXCEPT ![Len(notes)].thesis = o \in thesis]
        PROVE  /\ notes' \in [1..Len(notes) -> Note]
               /\ \A i \in DOMAIN notes : notes'[i].open = notes[i].open
    <3>1. PICK o \in Orders : notes' = [notes EXCEPT ![Len(notes)].thesis = o \in thesis]
      BY <2>3
    <3>2. (o \in thesis) \in BOOLEAN
      OBVIOUS
    <3> QED
      BY <3>1, <3>2, <2>1, Zenon
  <2> QED
    BY <2>2, <2>3, NotesArray DEF LinkNote
<1>2. OpenNotes' = OpenNotes
  BY <1>1 DEF OpenNotes
<1>3. /\ tick' = [tick EXCEPT !.pc = "end"] /\ UNCHANGED memory /\ tick.pc = "link"
      /\ tick \in Ticks
  BY DEF LinkNote, AtStep, WatchInv, WatchTypeOK
<1>4. tick'.pc = "end" /\ tick'.pos = tick.pos
      /\ tick' \in Ticks
  BY <1>3 DEF Ticks
<1>5. NotesCounted'
  BY <1>2, <1>3, <1>4 DEF WatchInv, NotesCounted, Entitled, memory
<1> QED
  BY <1>1, <1>3, <1>4, <1>5 DEF WatchInv, WatchTypeOK, TickDecided, memory

\* A set of naturals that is not empty has its least.
LEMMA LeastOf ==
    ASSUME NEW S \in SUBSET Nat, S # {}
    PROVE  \E k \in S : \A m \in S : k <= m
<1> DEFINE R == {ss \in Nat \X Nat : ss[1] < ss[2]}
<1>1. IsWellFoundedOn(R, Nat)
  BY NatLessThanWellFounded DEF OpToRel
<1> HIDE DEF R
<1>2. \E k \in S : \A m \in S : <<m, k>> \notin R
  BY <1>1, WFMin
<1>3. \A k, m \in S : <<m, k>> \notin R => k <= m
  BY DEF R
<1> QED
  BY <1>2, <1>3

\* One of the open annotations is the newest.
LEMMA NewestOpen ==
    ASSUME WatchInv, OpenNotes # {}
    PROVE  \E i \in OpenNotes : \A j \in OpenNotes : j <= i
<1> DEFINE len == Len(notes)
           behind == {k \in 0..len : len - k \in OpenNotes}
<1>1. len \in Nat /\ \A i \in OpenNotes : i \in 1..len
  BY NotesArray DEF OpenNotes
<1> HIDE DEF len
<1>2. \A i \in OpenNotes : i \in Int /\ len - i \in 0..len /\ len - (len - i) = i
  BY <1>1
<1>3. \A i \in OpenNotes : len - i \in behind
  BY <1>2
<1>4. behind \in SUBSET Nat /\ behind # {}
  BY <1>1, <1>3
<1>5. PICK k \in behind : \A m \in behind : k <= m
  BY <1>4, LeastOf
<1>6. len - k \in OpenNotes /\ k \in Nat
  BY <1>4, <1>5
<1>7. ASSUME NEW j \in OpenNotes PROVE j <= len - k
  <2>1. k <= len - j
    BY <1>3, <1>5, <1>7
  <2> QED
    BY <1>1, <1>2, <1>6, <1>7, <2>1
<1> QED
  BY <1>6, <1>7

\* The close takes the newest open annotation, if there is one.
LEMMA NoteClosed ==
    ASSUME WatchInv, CloseNote
    PROVE  WatchInv'
<1>1. /\ notes' \in Notes
      /\ DOMAIN notes' = DOMAIN notes
  <2>1. ASSUME NEW i \in DOMAIN notes PROVE notes[i] \in Note /\ [notes[i] EXCEPT !.open = FALSE] \in Note
    BY NotesArray DEF Note
  <2>2. notes' \in [1..Len(notes) -> Note]
    BY <2>1, NotesArray DEF CloseNote
  <2> QED
    BY <2>2, NotesArray
<1>2. /\ tick' = [tick EXCEPT !.pc = "end"] /\ UNCHANGED memory /\ ~tick.pos /\ tick.pc = "close"
      /\ tick \in Ticks /\ blind \in Nat
  BY DEF CloseNote, AtStep, WatchInv, WatchTypeOK, TickDecided
<1>3. tick'.pc = "end" /\ tick'.pos = tick.pos /\ blind' = blind
      /\ tick' \in Ticks
  BY <1>2 DEF Ticks, memory
<1>4. Cardinality(OpenNotes) <= blind + 1
  BY <1>2, NotesFinite DEF WatchInv, NotesCounted
<1>5. \A i \in DOMAIN notes : notes'[i].open => notes[i].open
  <2>1. ASSUME NEW i \in DOMAIN notes, notes'[i].open PROVE notes[i].open
    <3>1. CASE i \in OpenNotes
      BY <3>1 DEF OpenNotes
    <3>2. CASE i \notin OpenNotes
      BY <2>1, <3>2 DEF CloseNote
    <3> QED
      BY <3>1, <3>2
  <2> QED
    BY <2>1
<1>6. OpenNotes' \subseteq OpenNotes
  BY <1>1, <1>5 DEF OpenNotes
<1>7. Cardinality(OpenNotes') <= blind
  <2>1. CASE OpenNotes = {}
    <3>1. OpenNotes' = {}
      BY <1>6, <2>1
    <3> QED
      BY <1>2, <3>1, FS_EmptySet
  <2>2. CASE OpenNotes # {}
    <3>1. PICK n \in OpenNotes : \A j \in OpenNotes : j <= n
      BY <2>2, NewestOpen
    <3>2. n \in DOMAIN notes /\ notes[n] \in Note
      BY <3>1, NotesArray DEF OpenNotes
    <3>3. notes'[n] = [notes[n] EXCEPT !.open = FALSE]
      BY <3>1, <3>2 DEF CloseNote
    <3>4. ~notes'[n].open
      BY <3>2, <3>3 DEF Note
    <3>5. OpenNotes' \subseteq OpenNotes \ {n}
      BY <1>6, <3>4 DEF OpenNotes
    <3>6. IsFiniteSet(OpenNotes \ {n}) /\ Cardinality(OpenNotes \ {n}) = Cardinality(OpenNotes) - 1
      BY <3>1, NotesFinite, FS_RemoveElement
    <3>7. Cardinality(OpenNotes') <= Cardinality(OpenNotes \ {n}) /\ Cardinality(OpenNotes') \in Nat
      BY <3>5, <3>6, FS_Subset, FS_CardinalityType
    <3> QED
      BY <1>2, <1>4, <3>6, <3>7, NotesFinite
  <2> QED
    BY <2>1, <2>2
<1>8. NotesCounted'
  BY <1>2, <1>3, <1>7 DEF NotesCounted, Entitled
<1> QED
  BY <1>1, <1>2, <1>3, <1>8 DEF WatchInv, WatchTypeOK, TickDecided, memory

-----------------------------------------------------------------------------
\* Every step keeps the invariant.
LEMMA WatchStep == WatchInv /\ [WatchNext]_watchVars => WatchInv'
<1> SUFFICES ASSUME WatchInv, [WatchNext]_watchVars PROVE WatchInv'
  OBVIOUS
<1> USE DEF exchange, memory, journal, Fine, WatchFault
<1>0. tick \in Ticks /\ lastPos \in BOOLEAN /\ lastPend \in SUBSET Orders /\ TickDecided
  BY DEF WatchInv, WatchTypeOK
<1>1. CASE Places \/ Fills \/ UserCancels \/ Exits \/ Writes \/ UNCHANGED watchVars
  <2>1. UNCHANGED <<notes, tick, memory>>
    BY <1>1 DEF Places, Fills, UserCancels, Exits, Writes, watchVars
  <2> QED
    BY <1>0, <2>1, Unwritten DEF TickDecided, Entitled, memory
<1>2. CASE Crash
  <2>1. UNCHANGED <<notes, blind>> /\ tick' = Down /\ lastPos' = FALSE /\ lastPend' = {}
    BY <1>2 DEF Crash
  <2>2. tick' \in Ticks /\ Entitled' /\ TickDecided'
    BY <2>1 DEF Down, Idle, Ticks, Entitled, TickDecided
  <2> QED
    BY <2>1, <2>2, Unwritten
<1>12. CASE Start
  <2>1. tick.pc = "down" /\ UNCHANGED notes /\ tick' = Idle /\ lastPend' \in SUBSET Orders
    BY <1>12 DEF Start, Hydrated, PendingRows
  <2>2. lastPos' \in BOOLEAN /\ (lastPos' => OpenNotes # {})
    BY <1>12 DEF Start, Hydrated
  <2>3. blind' = IF lastPos' = (OpenNotes # {}) THEN blind ELSE blind + 1
    BY <1>12 DEF Start, Hydrated
  <2>4. tick' \in Ticks /\ TickDecided' /\ (Entitled' <=> lastPos')
    BY <2>1 DEF Idle, Ticks, TickDecided, Entitled
  <2>5. OpenNotes' = OpenNotes
    BY <2>1 DEF OpenNotes
  <2>6. /\ blind \in Nat /\ Cardinality(OpenNotes) \in Nat /\ Cardinality(OpenNotes) <= blind + 1
    BY <2>1, NotesFinite DEF WatchInv, WatchTypeOK, NotesCounted, Entitled
  <2>7. blind' \in Nat /\ NotesCounted'
    <3>1. CASE lastPos'
      <4>1. lastPos' = (OpenNotes # {})
        BY <2>2, <3>1
      <4>2. blind' = blind /\ Entitled'
        BY <2>3, <2>4, <3>1, <4>1
      <4> QED
        BY <2>5, <2>6, <4>2 DEF NotesCounted
    <3>2. CASE ~lastPos' /\ OpenNotes = {}
      <4>1. lastPos' = (OpenNotes # {})
        BY <2>2, <3>2
      <4>2. blind' = blind /\ ~Entitled' /\ Cardinality(OpenNotes) = 0
        BY <2>3, <2>4, <3>2, <4>1, FS_EmptySet
      <4> QED
        BY <2>5, <2>6, <4>2 DEF NotesCounted
    <3>3. CASE ~lastPos' /\ OpenNotes # {}
      <4>1. blind' = blind + 1 /\ ~Entitled'
        BY <2>3, <2>4, <3>3
      <4> QED
        BY <2>5, <2>6, <4>1 DEF NotesCounted
    <3> QED
      BY <2>2, <3>1, <3>2, <3>3
  <2> QED
    BY <2>1, <2>2, <2>4, <2>7 DEF WatchInv, WatchTypeOK
<1>3. CASE FetchPositions
  <2>1. tick' \in Ticks /\ tick.pc = "idle" /\ tick'.pc = "orders" /\ UNCHANGED <<notes, memory>>
    BY <1>0, <1>3 DEF FetchPositions, AtStep, Ticks
  <2> QED
    BY <1>0, <2>1, Unwritten DEF TickDecided, Entitled, memory
<1>4. CASE FetchOrders
  <2>1. PICK seen \in SUBSET LiveOrders :
            tick' = [tick EXCEPT !.pc = "enforce", !.pend = seen,
                       !.todo = {o \in late \ (thesis \cup stamped) : rows[o] = "pending" /\ o \in seen}]
    BY <1>4 DEF FetchOrders
  <2>2. seen \in SUBSET Orders
    BY DEF LiveOrders
  <2>3. tick' \in Ticks /\ tick'.pc = "enforce"
    BY <1>0, <2>1, <2>2 DEF Ticks
  <2>4. tick.pc = "orders" /\ UNCHANGED <<notes, memory>>
    BY <1>4 DEF FetchOrders, AtStep
  <2> QED
    BY <1>0, <2>3, <2>4, Unwritten DEF TickDecided, Entitled, memory
<1>5. CASE Enforce \/ NewOrder \/ GoneOrder
  <2>1. tick' \in Ticks /\ tick'.pc = tick.pc /\ tick'.pos = tick.pos /\ UNCHANGED <<notes, memory>>
    BY <1>0, <1>5 DEF Enforce, NewOrder, GoneOrder, Ticks
  <2> QED
    BY <1>0, <2>1, Unwritten DEF TickDecided, Entitled, memory
<1>6. CASE EnforceEnds \/ NewEnds
  <2>1. /\ tick' \in Ticks /\ tick.pc \in {"enforce", "new"} /\ tick'.pc \in {"new", "gone"}
        /\ UNCHANGED <<notes, memory>>
    BY <1>0, <1>6 DEF EnforceEnds, NewEnds, AtStep, Ticks
  <2> QED
    BY <1>0, <2>1, Unwritten DEF TickDecided, Entitled, memory
<1>7. CASE GoneEnds
  <2>1. /\ tick' \in Ticks /\ tick.pc = "gone" /\ tick'.pos = tick.pos /\ UNCHANGED <<notes, memory>>
        /\ tick'.pc = IF PositionOpened THEN "insert" ELSE IF lastPos /\ ~tick.pos THEN "close" ELSE "end"
    BY <1>0, <1>7 DEF GoneEnds, AtStep, Ticks
  <2> QED
    BY <1>0, <2>1, Unwritten DEF TickDecided, Entitled, PositionOpened, memory
<1>8. CASE InsertNote
  BY <1>8, Inserted
<1>9. CASE LinkNote
  BY <1>9, Linked
<1>10. CASE CloseNote
  BY <1>10, NoteClosed
<1>11. CASE TickEnds
  <2>1. /\ tick' = Idle /\ tick.pc = "end" /\ UNCHANGED <<notes, blind>>
        /\ lastPos' = tick.pos /\ lastPend' = tick.pend
    BY <1>11 DEF TickEnds, AtStep
  <2>2. tick' \in Ticks /\ lastPos' \in BOOLEAN /\ lastPend' \in SUBSET Orders
        /\ (Entitled => Entitled') /\ TickDecided'
    BY <1>0, <2>1 DEF Idle, Ticks, TickDecided, Entitled
  <2> QED
    BY <2>1, <2>2, Unwritten
<1> QED
  BY <1>1, <1>2, <1>3, <1>4, <1>5, <1>6, <1>7, <1>8, <1>9, <1>10, <1>11, <1>12 DEF WatchNext, Tick

\* At the start no annotation is open.
LEMMA WatchInitial == WatchInit => WatchInv
<1> SUFFICES ASSUME WatchInit PROVE WatchInv
  OBVIOUS
<1>1. notes = <<>> /\ tick = Down /\ lastPend = {} /\ lastPos = FALSE /\ blind = 0
  BY DEF WatchInit
<1>2. Cardinality(OpenNotes) = 0 /\ notes \in Notes
  <2>1. OpenNotes = {} /\ notes \in Notes
    BY <1>1 DEF OpenNotes, Notes
  <2> QED
    BY <2>1, FS_EmptySet
<1>3. tick \in Ticks /\ tick.pc = "down"
  BY <1>1 DEF Down, Idle, Ticks
<1>4. NotesCounted
  BY <1>1, <1>2, <1>3 DEF NotesCounted, Entitled
<1>5. WatchTypeOK
  BY <1>1, <1>2, <1>3 DEF WatchTypeOK
<1>6. TickDecided
  BY <1>3 DEF TickDecided
<1> QED
  BY <1>4, <1>5, <1>6 DEF WatchInv

\* Entitled to one at most.
LEMMA WatchBounded == WatchInv => NotesBounded
<1> SUFFICES ASSUME WatchInv PROVE Cardinality(OpenNotes) <= 1 + blind
  BY DEF NotesBounded
<1>1. Cardinality(OpenNotes) \in Nat /\ blind \in Nat /\ NotesCounted
  BY NotesFinite DEF WatchInv, WatchTypeOK
<1> QED
  BY <1>1 DEF NotesCounted

-----------------------------------------------------------------------------
(* The CVD feed.  A pair is VALID for the windows it has warmed, so the    *)
(* invariant bounds every warm window and every trade on the tape by the   *)
(* newest trade a drop has lost (Gapless); it is kept by a reconnect only  *)
(* because everything was flushed before, which Connection carries from    *)
(* the drop to the reconnect.                                              *)

CvdTypes ==
    /\ tape \in [Pairs -> SUBSET Ages]
    /\ dropMiss \in [Pairs -> SUBSET Ages] /\ closeMiss \in [Pairs -> SUBSET Ages]
    /\ cvdState \in [Pairs -> {"VALID", "WARMING_UP", "INVALID"}]
    /\ warm \in [Pairs -> SUBSET Windows]
    /\ snap \in [Pairs -> {NoSnapshot, 0, 1, Stale}]
    /\ tapeLink \in {"up", "dead", "down"} /\ tapePc \in {"connect", "listen", "backoff"}
    /\ tapeUp \in BOOLEAN /\ batched \in BOOLEAN /\ tapeCalm \in BOOLEAN

\* Where the loop is, the link is; without a link a pair is invalid or has
\* nothing yet.
Connection ==
    /\ tapePc = "listen" <=> tapeLink # "down"
    /\ tapeLink # "down" => tapeUp
    /\ tapePc = "backoff" => ~tapeUp
    /\ ~tapeUp => \A p \in Pairs : cvdState[p] # "INVALID" => tape[p] = {} /\ warm[p] = {}

\* While the link delivers, a pair that is not invalid has missed nothing since
\* its oldest trade, nor in any window it calls warm.
Gapless ==
    tapeLink # "dead" => \A p \in Pairs : cvdState[p] # "INVALID" =>
        \A d \in dropMiss[p] : (\A a \in tape[p] : a <= d) /\ (\A w \in warm[p] : w <= d)

\* A pair is VALID from the batch that warms its shortest window, and from the
\* batch that finds a trade of the unit the snapshot is of it.
Snapshots ==
  \A p \in Pairs :
    /\ cvdState[p] = "WARMING_UP" => Shortest \notin warm[p]
    /\ cvdState[p] = "VALID" => /\ Shortest \in warm[p] /\ snap[p] # NoSnapshot
                                /\ batched /\ tape[p] \ {0} # {} => snap[p] = 0

CvdInv == CvdTypes /\ Connection /\ Gapless /\ Snapshots

\* A finite set of integers has its maximum.
LEMMA MaxIsThere ==
    ASSUME NEW S \in SUBSET Int, IsFiniteSet(S), S # {}
    PROVE  Max(S) \in S /\ \A y \in S : Max(S) >= y
<1> DEFINE Above(x) == {y \in S : y > x}
           T == {Above(x) : x \in S}
<1>1. IsWellFoundedOn(StrictSubsetOrdering(S), SUBSET S)
  BY FS_StrictSubsetOrderingWellFounded, FS_FiniteSubsetsOfFinite
<1>2. T \in SUBSET (SUBSET S) /\ T # {}
  OBVIOUS
<1>3. PICK t \in T : \A u \in T : ~(<<u, t>> \in StrictSubsetOrdering(S))
  <2> HIDE DEF T
  <2> QED
    BY <1>1, <1>2, WFMin
<1>4. PICK x \in S : t = Above(x)
  OBVIOUS
<1>5. ASSUME NEW y \in S PROVE x >= y
  <2> SUFFICES ASSUME y > x PROVE FALSE
    OBVIOUS
  <2>1. Above(y) \in T
    OBVIOUS
  <2>2. \A z \in S : z > y => z > x
    OBVIOUS
  <2>3. Above(y) \subseteq t
    BY <1>4, <2>2
  <2>4. y \in t /\ y \notin Above(y)
    BY <1>4
  <2>5. <<Above(y), t>> \in StrictSubsetOrdering(S)
    BY <1>4, <2>3, <2>4 DEF StrictSubsetOrdering
  <2> QED
    BY <1>3, <2>1, <2>5
<1> QED
  BY <1>5 DEF Max

\* The longest window is one of them.
LEMMA LongestIsThere == Longest \in Nat /\ \A w \in Windows : w <= Longest /\ w \in Nat
<1>1. Windows \in SUBSET Int /\ IsFiniteSet(Windows) /\ Windows # {} /\ Windows \subseteq Nat
  BY WindowsAssumption
<1>2. Max(Windows) \in Windows /\ \A w \in Windows : Max(Windows) >= w
  BY <1>1, MaxIsThere, Zenon
<1> QED
  BY <1>1, <1>2 DEF Longest

\* The ages of the trades a unit later are ages again, and none of them is 0.
LEMMA AgedAges ==
    ASSUME NEW ages \in SUBSET Ages
    PROVE  Aged(ages) \in SUBSET Ages
BY LongestIsThere DEF Aged, Ages

\* A step that leaves a table of sets of ages alone but for one pair's.
LEMMA TapeTyped ==
    ASSUME NEW f \in [Pairs -> SUBSET Ages], NEW p \in Pairs
    PROVE  [f EXCEPT ![p] = @ \cup {0}] \in [Pairs -> SUBSET Ages]
BY LongestIsThere DEF Ages

\* Before the first connection nothing is on tape.
LEMMA CvdInitial == CvdInit => CvdInv
<1> SUFFICES ASSUME CvdInit PROVE CvdInv
  OBVIOUS
<1>1. tapeUp \in BOOLEAN /\ batched \in BOOLEAN /\ tapeCalm \in BOOLEAN
  BY Zenon DEF CvdInit
<1>2. CvdTypes
  BY <1>1 DEF CvdInit, CvdTypes
<1>3. Connection /\ Gapless /\ Snapshots
  BY DEF CvdInit, Connection, Gapless, Snapshots
<1> QED
  BY <1>2, <1>3 DEF CvdInv

\* A unit later every trade is one older.
LEMMA UnitKeeps == ASSUME CvdInv, Unit PROVE CvdInv'
<1>1. /\ UNCHANGED <<cvdState, warm, tapeLink, tapeUp, tapePc, tapeCalm>> /\ batched' = FALSE
      /\ tape' = [p \in Pairs |-> Aged(tape[p])]
      /\ dropMiss' = [p \in Pairs |-> Aged(dropMiss[p])]
      /\ closeMiss' = [p \in Pairs |-> Aged(closeMiss[p])]
      /\ snap' = [p \in Pairs |-> IF snap[p] \in {NoSnapshot, Stale} THEN snap[p] ELSE snap[p] + 1]
      /\ tapeLink # "dead"
  BY DEF Unit
<1>2. CvdTypes'
  <2>1. tape' \in [Pairs -> SUBSET Ages] /\ dropMiss' \in [Pairs -> SUBSET Ages] /\ closeMiss' \in [Pairs -> SUBSET Ages]
    BY <1>1, AgedAges DEF CvdInv, CvdTypes
  <2>2. snap' \in [Pairs -> {NoSnapshot, 0, 1, Stale}]
    BY <1>1 DEF CvdInv, CvdTypes, NoSnapshot, Stale
  <2>3. batched' \in BOOLEAN
    BY <1>1, Zenon
  <2> QED
    BY <1>1, <2>1, <2>2, <2>3 DEF CvdInv, CvdTypes
<1>3. Connection'
  BY <1>1 DEF CvdInv, Connection, Aged
<1>4. Gapless'
  <2> SUFFICES ASSUME NEW p \in Pairs, cvdState[p] # "INVALID", NEW d \in dropMiss'[p]
               PROVE  (\A a \in tape'[p] : a <= d) /\ (\A w \in warm[p] : w <= d)
    BY <1>1 DEF Gapless
  <2>1. PICK e \in dropMiss[p] \ {Longest} : d = e + 1
    BY <1>1 DEF Aged
  <2>2. (\A a \in tape[p] : a <= e) /\ (\A w \in warm[p] : w <= e)
    BY <1>1, <2>1 DEF CvdInv, Gapless
  <2>3. e \in Nat /\ tape[p] \subseteq Nat /\ warm[p] \subseteq Nat
    BY <2>1, LongestIsThere DEF CvdInv, CvdTypes, Ages
  <2>4. tape'[p] = Aged(tape[p])
    BY <1>1
  <2> QED
    BY <2>1, <2>2, <2>3, <2>4 DEF Aged
<1>5. Snapshots'
  BY <1>1 DEF CvdInv, CvdTypes, Snapshots, NoSnapshot, Stale
<1> QED
  BY <1>2, <1>3, <1>4, <1>5 DEF CvdInv

\* A trade is on the tape only when the link delivers it.
LEMMA TradeKeeps == ASSUME CvdInv, NEW p \in Pairs, TradeHappens(p) PROVE CvdInv'
<1>1. UNCHANGED <<cvdState, warm, snap, tapeLink, tapeUp, tapePc, batched, tapeCalm>>
  BY DEF TradeHappens
<1>2. /\ tape' \in [Pairs -> SUBSET Ages] /\ dropMiss' \in [Pairs -> SUBSET Ages]
      /\ closeMiss' \in [Pairs -> SUBSET Ages]
  BY TapeTyped DEF TradeHappens, Trade, CvdInv, CvdTypes
<1>3. CvdTypes'
  BY <1>1, <1>2 DEF CvdInv, CvdTypes
<1>4. CASE tapeLink = "up" /\ tape' = [tape EXCEPT ![p] = @ \cup {0}] /\ UNCHANGED dropMiss
  <2>1. Connection'
    BY <1>1, <1>4 DEF CvdInv, Connection
  <2>2. Gapless'
    <3> SUFFICES ASSUME NEW q \in Pairs, cvdState[q] # "INVALID", NEW d \in dropMiss[q]
                 PROVE  (\A a \in tape'[q] : a <= d) /\ (\A w \in warm[q] : w <= d)
      BY <1>1, <1>4 DEF Gapless
    <3>1. (\A a \in tape[q] : a <= d) /\ (\A w \in warm[q] : w <= d)
      BY <1>4 DEF CvdInv, Gapless
    <3>2. 0 <= d
      BY LongestIsThere DEF CvdInv, CvdTypes, Ages
    <3>3. tape'[q] \subseteq tape[q] \cup {0}
      BY <1>4 DEF CvdInv, CvdTypes
    <3> QED
      BY <3>1, <3>2, <3>3
  <2>3. Snapshots'
    <3>1. \A q \in Pairs : tape'[q] \ {0} = tape[q] \ {0}
      BY <1>4 DEF CvdInv, CvdTypes
    <3> QED
      BY <1>1, <3>1 DEF CvdInv, Snapshots
  <2> QED
    BY <1>3, <2>1, <2>2, <2>3 DEF CvdInv
<1>5. CASE (tapeLink = "dead" \/ ~tapeUp) /\ dropMiss' = [dropMiss EXCEPT ![p] = @ \cup {0}] /\ UNCHANGED tape
  <2>1. Connection' /\ Snapshots'
    BY <1>1, <1>5 DEF CvdInv, Connection, Snapshots
  <2>2. Gapless'
    BY <1>1, <1>5 DEF CvdInv, Gapless, Connection
  <2> QED
    BY <1>3, <2>1, <2>2 DEF CvdInv
<1>6. CASE UNCHANGED <<tape, dropMiss>>
  BY <1>1, <1>3, <1>6 DEF CvdInv, Connection, Gapless, Snapshots
<1> QED
  BY <1>4, <1>5, <1>6 DEF TradeHappens, Trade

\* The batch warms windows the tape reaches, and sees a trade for each.
LEMMA BatchKeeps == ASSUME CvdInv, Batch PROVE CvdInv'
<1>1. /\ UNCHANGED <<tape, tapeLink, tapeUp, tapePc, tapeCalm, dropMiss, closeMiss>> /\ batched' = TRUE
      /\ snap' = [p \in Pairs |-> IF tape[p] = {} THEN snap[p] ELSE 0]
      /\ warm' = [p \in Pairs |-> Warmed(p)]
      /\ cvdState' = [p \in Pairs |->
             IF cvdState[p] = "WARMING_UP" /\ Shortest \in Warmed(p) THEN "VALID" ELSE cvdState[p]]
  BY DEF Batch
<1>2. \A p \in Pairs : Reached(p) \subseteq Windows
  BY DEF Reached
<1>3. ASSUME NEW p \in Pairs
      PROVE  /\ Warmed(p) \subseteq Windows /\ Warmed(p) \subseteq warm[p] \cup Reached(p)
             /\ cvdState[p] = "WARMING_UP" => Warmed(p) = warm[p] \cup Reached(p)
             /\ cvdState[p] = "VALID" => warm[p] \subseteq Warmed(p)
             /\ cvdState[p] \in {"VALID", "WARMING_UP", "INVALID"}
  <2>1. warm[p] \subseteq Windows /\ cvdState[p] \in {"VALID", "WARMING_UP", "INVALID"}
    BY DEF CvdInv, CvdTypes
  <2> QED
    BY <1>2, <2>1 DEF Warmed
<1>4. CvdTypes'
  <2>1. batched' \in BOOLEAN
    BY <1>1, Zenon
  <2>2. snap' \in [Pairs -> {NoSnapshot, 0, 1, Stale}] /\ warm' \in [Pairs -> SUBSET Windows]
        /\ cvdState' \in [Pairs -> {"VALID", "WARMING_UP", "INVALID"}]
    BY <1>1, <1>3 DEF CvdInv, CvdTypes
  <2> QED
    BY <1>1, <2>1, <2>2 DEF CvdInv, CvdTypes
<1>5. Connection'
  <2> SUFFICES ASSUME ~tapeUp, NEW p \in Pairs, cvdState'[p] # "INVALID"
               PROVE  tape[p] = {} /\ warm'[p] = {}
    BY <1>1 DEF CvdInv, Connection
  <2>1. tape[p] = {} /\ warm[p] = {}
    BY <1>1 DEF CvdInv, Connection
  <2>2. Reached(p) = {}
    BY <2>1 DEF Reached
  <2> QED
    BY <1>1, <1>3, <2>1, <2>2
<1>6. Gapless'
  <2> SUFFICES ASSUME tapeLink # "dead", NEW p \in Pairs, cvdState'[p] # "INVALID", NEW d \in dropMiss[p]
               PROVE  (\A a \in tape[p] : a <= d) /\ (\A w \in warm'[p] : w <= d)
    BY <1>1 DEF Gapless
  <2>1. (\A a \in tape[p] : a <= d) /\ (\A w \in warm[p] : w <= d)
    BY <1>1 DEF CvdInv, Gapless
  <2>2. d \in Nat /\ tape[p] \subseteq Nat
    BY LongestIsThere DEF CvdInv, CvdTypes, Ages
  <2>3. ASSUME NEW w \in Reached(p) PROVE w <= d
    BY <2>1, <2>2, <2>3, LongestIsThere DEF Reached
  <2> QED
    BY <1>1, <1>3, <2>1, <2>3
<1>7. Snapshots'
  <2> SUFFICES ASSUME NEW p \in Pairs
               PROVE  /\ cvdState'[p] = "WARMING_UP" => Shortest \notin warm'[p]
                      /\ cvdState'[p] = "VALID" => /\ Shortest \in warm'[p] /\ snap'[p] # NoSnapshot
                                                   /\ tape[p] \ {0} # {} => snap'[p] = 0
    BY <1>1 DEF Snapshots
  <2>1. CASE cvdState[p] = "WARMING_UP"
    <3>1. Shortest \notin warm[p]
      BY <2>1 DEF CvdInv, Snapshots
    <3>2. Shortest \in Reached(p) => tape[p] # {}
      BY DEF Reached
    <3> QED
      BY <1>1, <1>3, <2>1, <3>1, <3>2 DEF NoSnapshot
  <2>2. CASE cvdState[p] = "VALID"
    BY <1>1, <1>3, <2>2 DEF CvdInv, Snapshots, NoSnapshot
  <2>3. CASE cvdState[p] = "INVALID"
    BY <1>1, <2>3
  <2> QED
    BY <1>3, <2>1, <2>2, <2>3
<1> QED
  BY <1>4, <1>5, <1>6, <1>7 DEF CvdInv

\* A new connection starts the invalid pairs from nothing.
LEMMA OpenTapeKeeps == ASSUME CvdInv, OpenTape PROVE CvdInv'
<1>1. /\ tapePc = "connect" /\ tapeLink' = "up" /\ tapeUp' = TRUE /\ tapePc' = "listen"
      /\ tape' = [p \in Pairs |-> IF cvdState[p] = "INVALID" THEN {} ELSE tape[p]]
      /\ snap' = [p \in Pairs |-> IF cvdState[p] = "INVALID" THEN NoSnapshot ELSE snap[p]]
      /\ warm' = [p \in Pairs |-> IF cvdState[p] = "INVALID" THEN {} ELSE warm[p]]
      /\ cvdState' = [p \in Pairs |-> IF cvdState[p] = "INVALID" THEN "WARMING_UP" ELSE cvdState[p]]
      /\ UNCHANGED <<batched, tapeCalm, dropMiss, closeMiss>>
  BY DEF OpenTape, Flushed
<1>2. tapeLink = "down"
  BY <1>1 DEF CvdInv, Connection, CvdTypes
<1>3. CvdTypes'
  <2>1. tapeUp' \in BOOLEAN
    BY <1>1, Zenon
  <2>2. tape' \in [Pairs -> SUBSET Ages] /\ snap' \in [Pairs -> {NoSnapshot, 0, 1, Stale}]
    BY <1>1 DEF CvdInv, CvdTypes
  <2>3. warm' \in [Pairs -> SUBSET Windows] /\ cvdState' \in [Pairs -> {"VALID", "WARMING_UP", "INVALID"}]
    BY <1>1 DEF CvdInv, CvdTypes
  <2> QED
    BY <1>1, <2>1, <2>2, <2>3 DEF CvdInv, CvdTypes
<1>4. Connection'
  BY <1>1 DEF Connection
<1>5. Gapless'
  BY <1>1, <1>2 DEF CvdInv, Gapless
<1>6. Snapshots'
  <2> SUFFICES ASSUME NEW p \in Pairs
               PROVE  /\ cvdState'[p] = "WARMING_UP" => Shortest \notin warm'[p]
                      /\ cvdState'[p] = "VALID" => /\ Shortest \in warm'[p] /\ snap'[p] # NoSnapshot
                                                   /\ batched /\ tape'[p] \ {0} # {} => snap'[p] = 0
    BY <1>1 DEF Snapshots
  <2> QED
    BY <1>1 DEF CvdInv, Snapshots
<1> QED
  BY <1>3, <1>4, <1>5, <1>6 DEF CvdInv

\* A connection that fails makes every pair invalid; the rest of the link touches none.
LEMMA LinkKeeps ==
    ASSUME CvdInv, OpenTapeFails \/ TapeDropNoticed \/ TapeBreaks \/ TapeClosed \/ TapeBackoff \/ TapeCalmDown
    PROVE  CvdInv'
<1>1. CASE TapeFailed
  <2>1. /\ tapeLink' = "down" /\ tapeUp' = FALSE /\ tapePc' = "backoff"
        /\ cvdState' = [p \in Pairs |-> "INVALID"]
        /\ UNCHANGED <<tape, warm, snap, batched, tapeCalm, dropMiss, closeMiss>>
    BY <1>1 DEF TapeFailed
  <2>2. tapeUp' \in BOOLEAN
    BY <2>1, Zenon
  <2>3. CvdTypes'
    BY <2>1, <2>2 DEF CvdInv, CvdTypes
  <2>4. Connection' /\ Gapless' /\ Snapshots'
    BY <2>1 DEF Connection, Gapless, Snapshots
  <2> QED
    BY <2>3, <2>4 DEF CvdInv
<1>2. CASE TapeBreaks \/ TapeClosed \/ TapeBackoff \/ TapeCalmDown
  <2>1. /\ UNCHANGED <<tape, cvdState, warm, snap, tapeUp, batched, dropMiss, closeMiss>>
        /\ tapeCalm' \in BOOLEAN
    <3>1. tapeCalm \in BOOLEAN
      BY DEF CvdInv, CvdTypes
    <3> QED
      BY <1>2, <3>1, Zenon DEF TapeBreaks, TapeClosed, TapeBackoff, TapeCalmDown
  <2>2. /\ tapeLink' \in {"up", "dead", "down"} /\ tapePc' \in {"connect", "listen", "backoff"}
        /\ tapeLink' # "dead" => tapeLink # "dead"
        /\ tapePc' = "listen" <=> tapeLink' # "down"
        /\ tapeLink' # "down" => tapeUp
        /\ tapePc' = "backoff" => ~tapeUp
    BY <1>2 DEF TapeBreaks, TapeClosed, TapeBackoff, TapeCalmDown, CvdInv, CvdTypes, Connection
  <2>3. CvdTypes' /\ Connection'
    BY <2>1, <2>2 DEF CvdInv, CvdTypes, Connection
  <2>4. Gapless' /\ Snapshots'
    BY <2>1, <2>2 DEF CvdInv, Gapless, Snapshots
  <2> QED
    BY <2>3, <2>4 DEF CvdInv
<1> QED
  BY <1>1, <1>2 DEF OpenTapeFails, TapeDropNoticed

\* Every step of the feed keeps the invariant.
LEMMA CvdStep == ASSUME CvdInv, [CvdNext]_cvdVars PROVE CvdInv'
<1>1. CASE UNCHANGED cvdVars
  BY <1>1 DEF cvdVars, CvdInv, CvdTypes, Connection, Gapless, Snapshots
<1> QED
  BY <1>1, UnitKeeps, TradeKeeps, BatchKeeps, OpenTapeKeeps, LinkKeeps DEF CvdNext

\* What the invariant says of the feed.
LEMMA CvdTrue == CvdInv => CvdTypeOK /\ ValidIsComplete /\ ValidHasSnapshot
<1> SUFFICES ASSUME CvdInv PROVE CvdTypeOK /\ ValidIsComplete /\ ValidHasSnapshot
  OBVIOUS
<1>1. CvdTypeOK
  <2>1. {tapeUp, batched, tapeCalm} \subseteq BOOLEAN
    BY Zenon DEF CvdInv, CvdTypes
  <2>2. snap \in [Pairs -> {NoSnapshot} \cup 0..Stale]
    BY DEF CvdInv, CvdTypes, Stale, NoSnapshot
  <2> QED
    BY <2>1, <2>2 DEF CvdInv, CvdTypes, CvdTypeOK
<1>2. ValidIsComplete
  <2> SUFFICES ASSUME NEW p \in Pairs, cvdState[p] = "VALID", tapeLink # "dead", NEW w \in warm[p],
                      NEW d \in dropMiss[p], d \in 0..(w - 1)
               PROVE  FALSE
    BY DEF ValidIsComplete
  <2>1. w <= d
    BY DEF CvdInv, Gapless
  <2>2. w \in Nat
    BY LongestIsThere DEF CvdInv, CvdTypes
  <2> QED
    BY <2>1, <2>2
<1>3. ValidHasSnapshot
  BY DEF CvdInv, Snapshots, ValidHasSnapshot
<1> QED
  BY <1>1, <1>2, <1>3

-----------------------------------------------------------------------------
(* The shadow monitor.  The book in memory and its snapshot in Redis have  *)
(* the same invariant, as a restart takes up the one for the other; the    *)
(* distance of two similar shadows is in it for as long as both wait       *)
(* (Apart), and no outcome is written over because a followed shadow has   *)
(* none yet (Undecided).                                                   *)

\* What an engine position and a followed shadow are made of.
EngineStates == [filled : BOOLEAN, sl : Int, tp1 : BOOLEAN, seen : Nat,
                 outcome : {"pending", "tp", "sl", "breakeven"}, exit : Int]
Follows == [filled : BOOLEAN, since : 0..(TradeUnits + 1), sl : Int, tp1 : BOOLEAN, ghost : EngineStates]

\* A followed shadow is where its engine is.
Abreast(f) == /\ f \in Follows
              /\ f.filled = f.ghost.filled /\ f.ghost.outcome = "pending"
              /\ f.tp1 = f.ghost.tp1 /\ f.sl = f.ghost.sl

\* The shadows of a book have a row, and are abreast of their engines.
Book(book, status) == /\ DOMAIN book \subseteq Shadows
              /\ \A s \in DOMAIN book : Abreast(book[s]) /\ status[s] # "none"

\* TwinsApart, of one book.
Apart(book, ages) ==
    \A s, t \in DOMAIN book :
        /\ s # t /\ ~book[s].filled /\ ~book[t].filled
        /\ PlanOf[s].dir = PlanOf[t].dir /\ Similar(PlanOf[t].entry, PlanOf[s].entry)
        /\ ages[t] > ages[s] \/ Similar(PlanOf[s].entry, PlanOf[t].entry)
        /\ ages[s] < OldAge /\ ages[t] < OldAge
        => ages[s] > ages[t] + TwinUnits \/ ages[t] > ages[s] + TwinUnits

ShadowTypes ==
    /\ row \in [Shadows -> {"none", "pending", "orphaned", "dedup"} \cup Resolved]
    /\ flagged \in SUBSET Shadows /\ revived \in SUBSET Shadows
    /\ age \in [Shadows -> 0..OldAge] /\ restored \in BOOLEAN
    /\ faults \in 0..MaxFaults /\ sweepAge \in 0..(SweepUnits + 1)

\* A followed shadow has no outcome yet, unless a restart took it up again.
Undecided == \A s \in DOMAIN tracked : s \in revived \/ row[s] \notin Resolved

ShadowInv == /\ ShadowTypes /\ Book(tracked, row) /\ Book(snapshot, row)
             /\ Apart(tracked, age) /\ Apart(snapshot, age)
             /\ Undecided

\* What the fields of a plan are.
LEMMA PlanFields ==
    ASSUME NEW plan \in Plans
    PROVE  /\ plan.entry \in Int /\ plan.sl \in Int /\ plan.tp1 \in Int /\ plan.tp2 \in Int
           /\ plan.confirm \in {0, 1}
BY DEF Plans

\* What the fields of an engine position are.
LEMMA EngineFields ==
    ASSUME NEW pos \in EngineStates
    PROVE  /\ pos.filled \in BOOLEAN /\ pos.sl \in Int /\ pos.tp1 \in BOOLEAN /\ pos.seen \in Nat
           /\ pos.outcome \in {"pending", "tp", "sl", "breakeven"} /\ pos.exit \in Int
BY DEF EngineStates

\* One step of the engine, field by field.
LEMMA StepFields ==
    ASSUME NEW plan \in Plans, NEW pos \in EngineStates, NEW c, pos.outcome = "pending"
    PROVE  LET arms == ArmsBreakeven(plan, pos, c)
               sl   == IF arms THEN plan.entry ELSE pos.sl
               hit  == ~arms /\ Touched(c, sl)
               end  == Step(plan, pos, c)
           IN  /\ end \in EngineStates
               /\ end.filled = pos.filled /\ end.tp1 = (pos.tp1 \/ arms) /\ end.sl = sl
               /\ end.outcome = IF hit THEN IF pos.tp1 \/ arms THEN "breakeven" ELSE "sl"
                                ELSE IF Touched(c, plan.tp2) THEN "tp" ELSE "pending"
<1> DEFINE arms == ArmsBreakeven(plan, pos, c)
           sl   == IF arms THEN plan.entry ELSE pos.sl
           hit  == ~arms /\ Touched(c, sl)
           tp1  == pos.tp1 \/ arms
           out  == IF hit THEN IF tp1 THEN "breakeven" ELSE "sl"
                   ELSE IF Touched(c, plan.tp2) THEN "tp" ELSE "pending"
           exit == IF hit THEN sl ELSE IF Touched(c, plan.tp2) THEN plan.tp2 ELSE 0
           seen == Observed(plan, pos, c)
<1>1. Step(plan, pos, c) = [pos EXCEPT !.tp1 = tp1, !.sl = sl, !.seen = seen, !.outcome = out, !.exit = exit]
  BY DEF Step
<1>2. sl \in Int /\ exit \in Int /\ seen \in Nat
  BY PlanFields, EngineFields DEF Observed
<1>3. tp1 \in BOOLEAN
  <2>1. arms \in BOOLEAN
    BY DEF ArmsBreakeven
  <2>2. pos.tp1 \in BOOLEAN
    BY EngineFields
  <2> QED
    BY <2>1, <2>2, Zenon
<1>4. out \in {"pending", "tp", "sl", "breakeven"}
  OBVIOUS
<1> HIDE DEF arms, sl, hit, tp1, out, exit, seen
<1>5. /\ Step(plan, pos, c) \in EngineStates
      /\ Step(plan, pos, c).filled = pos.filled /\ Step(plan, pos, c).tp1 = tp1 /\ Step(plan, pos, c).sl = sl
      /\ Step(plan, pos, c).outcome = out
  BY <1>1, <1>2, <1>3, <1>4 DEF EngineStates
<1> QED
  BY <1>5 DEF arms, sl, hit, tp1, out

\* Two engines with the same stop and breakeven, of which one is fresh, step
\* alike: a single close is enough to arm breakeven.
LEMMA StepAlike ==
    ASSUME NEW plan \in Plans, NEW a \in EngineStates, NEW b \in EngineStates, NEW c,
           a.outcome = "pending", b.outcome = "pending", a.tp1 = b.tp1, a.sl = b.sl
    PROVE  LET x == Step(plan, a, c)
               y == Step(plan, b, c)
           IN  x.tp1 = y.tp1 /\ x.sl = y.sl /\ x.outcome = y.outcome
<1>1. ArmsBreakeven(plan, a, c) = ArmsBreakeven(plan, b, c)
  BY PlanFields, EngineFields DEF ArmsBreakeven, Observed
<1> QED
  BY <1>1, StepFields

\* The engine the monitor makes for a candle.
LEMMA FreshEngine ==
    ASSUME NEW plan \in Plans, NEW f \in Follows
    PROVE  /\ Fresh(plan, f) \in EngineStates /\ Fresh(plan, f).outcome = "pending"
           /\ Fresh(plan, f).sl = f.sl /\ Fresh(plan, f).tp1 = f.tp1
<1>1. f.sl \in Int /\ f.tp1 \in BOOLEAN /\ plan.sl \in Int
  BY DEF Follows, Plans
<1>2. Opened(plan) \in EngineStates /\ Opened(plan).outcome = "pending"
  BY <1>1 DEF Opened, EngineStates
<1>4. Fresh(plan, f) = [Opened(plan) EXCEPT !.filled = TRUE, !.sl = f.sl, !.tp1 = f.tp1]
  BY DEF Fresh
<1>5. PICK pos \in EngineStates : pos = Opened(plan) /\ pos.outcome = "pending"
  BY <1>2
<1>6. PICK sl \in Int, tp1 \in BOOLEAN : sl = f.sl /\ tp1 = f.tp1
  BY <1>1
<1>7. Fresh(plan, f) = [pos EXCEPT !.filled = TRUE, !.sl = sl, !.tp1 = tp1]
  BY <1>4, <1>5, <1>6
<1>8. pos.outcome = "pending"
  BY <1>5
<1>9. /\ [pos EXCEPT !.filled = TRUE, !.sl = sl, !.tp1 = tp1] \in EngineStates
      /\ [pos EXCEPT !.filled = TRUE, !.sl = sl, !.tp1 = tp1].outcome = "pending"
      /\ [pos EXCEPT !.filled = TRUE, !.sl = sl, !.tp1 = tp1].sl = sl
      /\ [pos EXCEPT !.filled = TRUE, !.sl = sl, !.tp1 = tp1].tp1 = tp1
  BY <1>8 DEF EngineStates
<1> QED
  BY <1>6, <1>7, <1>9

\* The engine that was carried along, filled by this candle or before it.
LEMMA CarriedEngine ==
    ASSUME NEW plan \in Plans, NEW ghost \in EngineStates, NEW c, ghost.outcome = "pending",
           ghost.filled \/ Touched(c, plan.entry)
    PROVE  LET filled == [ghost EXCEPT !.filled = TRUE]
           IN  /\ filled \in EngineStates /\ filled.filled /\ filled.outcome = "pending"
               /\ filled.sl = ghost.sl /\ filled.tp1 = ghost.tp1
               /\ Advance(plan, ghost, c) = Step(plan, filled, c)
<1>1. (ghost.filled \/ Touched(c, plan.entry)) = TRUE
  OBVIOUS
<1>2. TryFill(plan, ghost, c) = [ghost EXCEPT !.filled = TRUE]
  BY <1>1 DEF TryFill
<1>3. [ghost EXCEPT !.filled = TRUE].filled = TRUE
  BY DEF EngineStates
<1> QED
  BY <1>2, <1>3 DEF Advance, EngineStates

\* A candle that checks a shadow leaves it abreast of its engine.
LEMMA CheckedAbreast ==
    ASSUME NEW plan \in Plans, NEW f, Abreast(f), NEW c, f.filled \/ Touched(c, plan.entry)
    PROVE  /\ Checked(plan, f, c).to.filled = TRUE
           /\ Checked(plan, f, c).outcome \in {"pending", "tp", "sl", "breakeven"}
           /\ Checked(plan, f, c).outcome = "pending" => Abreast(Checked(plan, f, c).to)
<1>0. f \in Follows /\ f.ghost \in EngineStates /\ f.ghost.outcome = "pending"
      /\ f.tp1 = f.ghost.tp1 /\ f.sl = f.ghost.sl /\ f.filled = f.ghost.filled
  BY DEF Abreast, Follows
<1> DEFINE end == Step(plan, Fresh(plan, f), c)
           ahead == Advance(plan, f.ghost, c)
           carried == [f.ghost EXCEPT !.filled = TRUE]
<1>1. end \in EngineStates
  BY <1>0, FreshEngine, StepFields
<1>2. /\ carried \in EngineStates /\ carried.filled /\ carried.outcome = "pending"
      /\ carried.sl = f.ghost.sl /\ carried.tp1 = f.ghost.tp1
      /\ ahead = Step(plan, carried, c)
  BY <1>0, CarriedEngine
<1> HIDE DEF ahead, carried
<1>3. ahead \in EngineStates /\ ahead.filled = TRUE
  <2>1. carried.filled \in BOOLEAN
    BY <1>2, EngineFields
  <2>2. ahead \in EngineStates /\ ahead.filled = carried.filled
    BY <1>2, StepFields, Zenon
  <2> QED
    BY <1>2, <2>1, <2>2
<1>4. ahead.tp1 = end.tp1 /\ ahead.sl = end.sl /\ ahead.outcome = end.outcome
  <2>1. /\ Fresh(plan, f) \in EngineStates /\ Fresh(plan, f).outcome = "pending"
        /\ Fresh(plan, f).sl = carried.sl /\ Fresh(plan, f).tp1 = carried.tp1
    BY <1>0, <1>2, FreshEngine
  <2> QED
    BY <1>2, <2>1, StepAlike, Zenon
<1> USE DEF ahead
<1>5. Checked(plan, f, c) = [to |-> [f EXCEPT !.filled = TRUE, !.tp1 = end.tp1, !.sl = end.sl, !.ghost = ahead],
                             outcome |-> end.outcome]
  BY DEF Checked
<1> HIDE DEF end, ahead
<1> DEFINE g == [f EXCEPT !.filled = TRUE, !.tp1 = end.tp1, !.sl = end.sl, !.ghost = ahead]
<1>6. g \in Follows
  BY <1>0, <1>1, <1>3, EngineFields DEF Follows
<1>7. g.filled = TRUE /\ g.tp1 = end.tp1 /\ g.sl = end.sl /\ g.ghost = ahead
  BY <1>0 DEF Follows
<1> HIDE DEF g
<1>8. Checked(plan, f, c).to = g /\ Checked(plan, f, c).outcome = end.outcome
  BY <1>5 DEF g
<1>9. end.outcome \in {"pending", "tp", "sl", "breakeven"}
  BY <1>1, EngineFields
<1>10. end.outcome = "pending" => Abreast(g)
  BY <1>3, <1>4, <1>6, <1>7 DEF Abreast
<1> QED
  BY <1>7, <1>8, <1>9, <1>10

\* What a candle does to a followed shadow.
LEMMA FollowupAbreast ==
    ASSUME ShadowTypes, NEW s \in Shadows, NEW f, Abreast(f), NEW c
    PROVE  /\ Followup(s, f, c).outcome \in {"pending"} \cup Resolved
           /\ Followup(s, f, c).outcome = "pending" => Abreast(Followup(s, f, c).to)
           /\ Followup(s, f, c).to.filled = f.filled \/ Followup(s, f, c).to.filled = TRUE
<1>1. PlanOf[s] \in Plans
  BY PlansAssumption
<1>2. f.filled \in BOOLEAN /\ f.since \in Nat /\ age[s] \in Nat /\ EntryUnits \in Nat /\ TradeUnits \in Nat
  BY UnitsAssumption DEF Abreast, Follows, ShadowTypes, OldAge, Lifetime
<1>3. CASE ~f.filled /\ age[s] > EntryUnits
  <2>1. Followup(s, f, c) = [to |-> f, outcome |-> "no_fill"]
    BY <1>2, <1>3 DEF Followup
  <2> QED
    BY <2>1 DEF Resolved
<1>4. CASE ~f.filled /\ age[s] <= EntryUnits /\ ~Touched(c, PlanOf[s].entry)
  <2>1. Followup(s, f, c) = [to |-> f, outcome |-> "pending"]
    BY <1>2, <1>4 DEF Followup
  <2> QED
    BY <2>1
<1>5. CASE ~f.filled /\ age[s] <= EntryUnits /\ Touched(c, PlanOf[s].entry)
  <2>1. Followup(s, f, c) = Checked(PlanOf[s], f, c)
    BY <1>2, <1>5 DEF Followup
  <2>2. f.filled \/ Touched(c, PlanOf[s].entry)
    BY <1>5, Zenon
  <2>3. /\ Checked(PlanOf[s], f, c).to.filled = TRUE
        /\ Checked(PlanOf[s], f, c).outcome \in {"pending", "tp", "sl", "breakeven"}
        /\ Checked(PlanOf[s], f, c).outcome = "pending" => Abreast(Checked(PlanOf[s], f, c).to)
    BY <1>1, <2>2, CheckedAbreast, Zenon
  <2> QED
    BY <2>1, <2>3, Zenon DEF Resolved
<1>6. CASE f.filled /\ f.since > TradeUnits
  <2>1. Followup(s, f, c) = [to |-> f, outcome |-> "timeout"]
    BY <1>2, <1>6 DEF Followup
  <2> QED
    BY <2>1 DEF Resolved
<1>7. CASE f.filled /\ f.since <= TradeUnits
  <2>1. Followup(s, f, c) = Checked(PlanOf[s], f, c)
    BY <1>2, <1>7 DEF Followup
  <2>2. f.filled \/ Touched(c, PlanOf[s].entry)
    BY <1>7, Zenon
  <2>3. /\ Checked(PlanOf[s], f, c).to.filled = TRUE
        /\ Checked(PlanOf[s], f, c).outcome \in {"pending", "tp", "sl", "breakeven"}
        /\ Checked(PlanOf[s], f, c).outcome = "pending" => Abreast(Checked(PlanOf[s], f, c).to)
    BY <1>1, <2>2, CheckedAbreast, Zenon
  <2> QED
    BY <2>1, <2>3, Zenon DEF Resolved
<1>8. \/ ~f.filled /\ age[s] > EntryUnits
      \/ ~f.filled /\ age[s] <= EntryUnits /\ ~Touched(c, PlanOf[s].entry)
      \/ ~f.filled /\ age[s] <= EntryUnits /\ Touched(c, PlanOf[s].entry)
      \/ f.filled /\ f.since > TradeUnits
      \/ f.filled /\ f.since <= TradeUnits
  BY <1>2
<1> QED
  BY <1>3, <1>4, <1>5, <1>6, <1>7, <1>8, Zenon

\* A book of fewer shadows, none of which lost its fill, is as far apart.
LEMMA ApartShrinks ==
    ASSUME NEW b, NEW d, NEW ages, Apart(b, ages), DOMAIN d \subseteq DOMAIN b,
           \A s \in DOMAIN d : ~d[s].filled => ~b[s].filled
    PROVE  Apart(d, ages)
BY Zenon DEF Apart

\* An hour for everybody leaves the distances, and hides the oldest.
LEMMA ApartAges ==
    ASSUME NEW b, NEW d, NEW ages \in [Shadows -> 0..OldAge], NEW later \in [Shadows -> 0..OldAge],
           Apart(b, ages), DOMAIN d = DOMAIN b, DOMAIN b \subseteq Shadows,
           \A s \in DOMAIN d : d[s].filled = b[s].filled,
           \A s \in DOMAIN d : later[s] = IF ages[s] = OldAge THEN ages[s] ELSE ages[s] + 1
    PROVE  Apart(d, later)
<1> SUFFICES ASSUME NEW s \in DOMAIN d, NEW t \in DOMAIN d,
                    s # t, ~d[s].filled, ~d[t].filled,
                    PlanOf[s].dir = PlanOf[t].dir, Similar(PlanOf[t].entry, PlanOf[s].entry),
                    later[t] > later[s] \/ Similar(PlanOf[s].entry, PlanOf[t].entry),
                    later[s] < OldAge, later[t] < OldAge
             PROVE  later[s] > later[t] + TwinUnits \/ later[t] > later[s] + TwinUnits
  BY DEF Apart
<1>1. /\ ages[s] \in Nat /\ ages[t] \in Nat /\ OldAge \in Nat /\ TwinUnits \in Nat
      /\ ages[s] <= OldAge /\ ages[t] <= OldAge
  BY UnitsAssumption DEF OldAge, Lifetime
<1>2. /\ ages[s] < OldAge /\ ages[t] < OldAge
      /\ later[s] = ages[s] + 1 /\ later[t] = ages[t] + 1
  BY <1>1
<1>3. ages[t] > ages[s] \/ Similar(PlanOf[s].entry, PlanOf[t].entry)
  BY <1>1, <1>2
<1>4. ~b[s].filled /\ ~b[t].filled
  OBVIOUS
<1>5. ages[s] > ages[t] + TwinUnits \/ ages[t] > ages[s] + TwinUnits
  BY <1>2, <1>3, <1>4, Zenon DEF Apart
<1> QED
  BY <1>1, <1>2, <1>5

\* A book keeps its place while no row is taken away.
LEMMA BookKeeps ==
    ASSUME NEW b, NEW status, NEW later, Book(b, status),
           \A s \in Shadows : status[s] # "none" => later[s] # "none"
    PROVE  Book(b, later)
BY Zenon DEF Book

-----------------------------------------------------------------------------

\* A new shadow is abreast of an engine that has seen nothing.
LEMMA NewFollow == ASSUME NEW s \in Shadows PROVE Abreast(Followed(s)) /\ Followed(s).filled = FALSE
<1>1. PlanOf[s].sl \in Int
  BY PlansAssumption, PlanFields
<1>2. /\ Opened(PlanOf[s]) \in EngineStates /\ Opened(PlanOf[s]).filled = FALSE
      /\ Opened(PlanOf[s]).outcome = "pending" /\ Opened(PlanOf[s]).tp1 = FALSE
      /\ Opened(PlanOf[s]).sl = PlanOf[s].sl
  BY <1>1 DEF Opened, EngineStates
<1>3. 0 \in 0..(TradeUnits + 1)
  BY UnitsAssumption
<1> QED
  BY <1>1, <1>2, <1>3 DEF Followed, Abreast, Follows

\* A detected shadow joins the book, or its row is closed as a duplicate.
LEMMA AddStep ==
    ASSUME ShadowInv, NEW s \in Shadows, AddShadow(s)
    PROVE  ShadowInv'
<1> DEFINE accepted == Plausible(PlanOf[s]) /\ ~Blocked(s)
           book == [t \in DOMAIN tracked \cup {s} |-> IF t = s THEN Followed(s) ELSE tracked[t]]
<1>1. PICK refused \in BOOLEAN :
          /\ row' = [row EXCEPT ![s] = IF accepted THEN "pending" ELSE "dedup"]
          /\ IF accepted
             THEN /\ tracked' = book /\ flagged' = flagged \cup {s}
                  /\ snapshot' = IF refused THEN snapshot ELSE book
             ELSE ~refused /\ UNCHANGED <<tracked, snapshot, flagged>>
          /\ Costs(Fault(refused))
  BY Zenon DEF AddShadow
<1>2. /\ restored /\ row[s] = "none" /\ age[s] = 0 /\ s \notin DOMAIN tracked
      /\ age' = age /\ restored' = restored /\ sweepAge' = sweepAge /\ revived' = revived
  BY DEF AddShadow
<1>3. /\ row \in [Shadows -> {"none", "pending", "orphaned", "dedup"} \cup Resolved]
      /\ row'[s] \in {"pending", "dedup"}
      /\ \A t \in Shadows \ {s} : row'[t] = row[t]
      /\ \A t \in Shadows : row[t] # "none" => row'[t] # "none"
  BY <1>1, <1>2 DEF ShadowInv, ShadowTypes
<1>4. ShadowTypes'
  <2>1. row' \in [Shadows -> {"none", "pending", "orphaned", "dedup"} \cup Resolved]
    BY <1>1, <1>3
  <2>2. flagged' \in SUBSET Shadows
    BY <1>1 DEF ShadowInv, ShadowTypes
  <2>3. faults' \in 0..MaxFaults
    BY <1>1, UnitsAssumption DEF ShadowInv, ShadowTypes, Costs, Fault
  <2> QED
    BY <1>2, <2>1, <2>2, <2>3 DEF ShadowInv, ShadowTypes
<1>5. Book(tracked, row') /\ Book(snapshot, row')
  BY <1>3, BookKeeps DEF ShadowInv
<1>6. CASE ~accepted
  <2>1. tracked' = tracked /\ snapshot' = snapshot
    BY <1>1, <1>6, Zenon
  <2>2. Undecided'
    BY <1>2, <1>3, <2>1 DEF ShadowInv, Undecided, Book
  <2>3. Book(tracked, row)' /\ Book(snapshot, row)'
    BY <1>5, <2>1 DEF Book
  <2>4. Apart(tracked, age)' /\ Apart(snapshot, age)'
    BY <1>2, <2>1 DEF ShadowInv, Apart
  <2> QED
    BY <1>4, <2>2, <2>3, <2>4 DEF ShadowInv
<1>7. CASE accepted
  <2>1. tracked' = book /\ (snapshot' = snapshot \/ snapshot' = book)
    BY <1>1, <1>7, Zenon
  <2>2. /\ DOMAIN book = DOMAIN tracked \cup {s} /\ book[s] = Followed(s)
        /\ \A t \in DOMAIN tracked : book[t] = tracked[t]
    BY <1>2
  <2>3. Book(book, row')
    <3>1. DOMAIN book \subseteq Shadows
      BY <2>2 DEF ShadowInv, Book
    <3>2. ASSUME NEW t \in DOMAIN book
          PROVE  Abreast(book[t]) /\ row'[t] # "none"
      <4>1. CASE t = s
        BY <1>3, <2>2, <4>1, NewFollow
      <4>2. CASE t \in DOMAIN tracked
        BY <1>5, <2>2, <4>2 DEF Book
      <4> QED
        BY <2>2, <3>2, <4>1, <4>2
    <3> HIDE DEF book
    <3> QED
      BY <3>1, <3>2 DEF Book
  <2>4. Undecided'
    <3> HIDE DEF book
    <3> QED
      BY <1>2, <1>3, <2>1, <2>2 DEF ShadowInv, Undecided, Book, Resolved
  <2>5. Apart(book, age)
    <3> HIDE DEF book
    <3> SUFFICES ASSUME NEW t \in DOMAIN book, NEW u \in DOMAIN book,
                        t # u, ~book[t].filled, ~book[u].filled,
                        PlanOf[t].dir = PlanOf[u].dir, Similar(PlanOf[u].entry, PlanOf[t].entry),
                        age[u] > age[t] \/ Similar(PlanOf[t].entry, PlanOf[u].entry),
                        age[t] < OldAge, age[u] < OldAge
                 PROVE  age[t] > age[u] + TwinUnits \/ age[u] > age[t] + TwinUnits
      BY Zenon DEF Apart
    <3>1. /\ \A v \in DOMAIN tracked : v \in Shadows
          /\ \A v \in Shadows : age[v] \in Nat
          /\ TwinUnits \in Nat
      BY UnitsAssumption DEF ShadowInv, ShadowTypes, Book, OldAge, Lifetime
    <3>2. CASE t \in DOMAIN tracked /\ u \in DOMAIN tracked
      BY <2>2, <3>2, Zenon DEF ShadowInv, Apart
    <3>3. CASE t = s
      <4>1. u \in DOMAIN tracked /\ ~tracked[u].filled
        BY <2>2, <3>3
      <4>2. ~(age[u] <= TwinUnits)
        BY <1>7, <3>3, <4>1, Zenon DEF Blocked
      <4> QED
        BY <1>2, <3>1, <3>3, <4>1, <4>2
    <3>4. CASE u = s
      <4>1. t \in DOMAIN tracked /\ ~tracked[t].filled
        BY <2>2, <3>4
      <4>2. Similar(PlanOf[t].entry, PlanOf[u].entry)
        BY <1>2, <3>1, <3>4, <4>1
      <4>3. ~(age[t] <= TwinUnits)
        BY <1>7, <3>4, <4>1, <4>2, Zenon DEF Blocked
      <4> QED
        BY <1>2, <3>1, <3>4, <4>1, <4>3
    <3> QED
      BY <2>2, <3>2, <3>3, <3>4, Zenon
  <2>6. Book(tracked, row)' /\ Book(snapshot, row)'
    <3> HIDE DEF book
    <3> QED
      BY <1>5, <2>1, <2>3 DEF Book
  <2>7. Apart(tracked, age)' /\ Apart(snapshot, age)'
    <3> HIDE DEF book
    <3> QED
      BY <1>2, <2>1, <2>5 DEF ShadowInv, Apart
  <2> QED
    BY <1>4, <2>4, <2>6, <2>7 DEF ShadowInv
<1> QED
  BY <1>6, <1>7


-----------------------------------------------------------------------------
(* A candle.                                                               *)

\* A candle leaves the shadows abreast, and no outcome is written over.
LEMMA CandleParts ==
    ASSUME ShadowInv, NEW c, NEW fault \in CandleFaults, CheckCandle(c, fault)
    PROVE  ShadowInv' /\ (\A s \in Shadows : row[s] \in Resolved /\ s \notin revived /\ s \notin revived'
                              => row'[s] = row[s])
<1> DEFINE start == IF restored THEN tracked
                    ELSE IF fault = "unread" THEN NoBook ELSE Alive(snapshot)
           sweeps == ~restored \/ sweepAge > SweepUnits
           after == [s \in DOMAIN start |-> Followup(s, start[s], c)]
           kept  == Kept(start, after)
           book  == [s \in kept |-> after[s].to]
           ended == {s \in DOMAIN start : after[s].outcome # "pending"}
           dirty == ended # {} \/ \E s \in DOMAIN start : \/ after[s].to.filled # start[s].filled
                                                           \/ after[s].to.tp1 # start[s].tp1
<1>1. /\ row' = [s \in Shadows |->
                    IF fault = "unwritten" THEN row[s]
                    ELSE IF s \in ended THEN after[s].outcome
                    ELSE IF s \in Orphans(sweeps) THEN "orphaned" ELSE row[s]]
      /\ sweepAge' = IF sweeps THEN 0 ELSE sweepAge
      /\ revived' = IF restored THEN revived
                    ELSE revived \cup {s \in DOMAIN start : row[s] # "pending"}
      /\ tracked' = IF fault = "killed" THEN NoBook ELSE book
      /\ restored' = (fault # "killed")
      /\ snapshot' = IF dirty /\ fault \notin {"unsaved", "killed"} THEN book ELSE snapshot
  <2> HIDE DEF start, sweeps
  <2>1. Settle(start, after, sweeps, fault)
    <3>1. \E a \in {after} : Settle(start, a, sweeps, fault)
      BY Zenon DEF CheckCandle, start, sweeps
    <3> QED
      BY <3>1
  <2> QED
    BY <2>1 DEF Settle
<1>2. Costs(Fault(fault # "none")) /\ flagged' = flagged /\ age' = age
  BY DEF CheckCandle
<1>3. /\ DOMAIN start \subseteq Shadows /\ Book(start, row) /\ Apart(start, age)
      /\ restored => start = tracked
  <2>1. CASE restored
    BY <2>1 DEF ShadowInv, Book
  <2>2. Book(NoBook, row) /\ Apart(NoBook, age) /\ DOMAIN NoBook \subseteq Shadows
    BY DEF NoBook, Book, Apart
  <2>3. /\ DOMAIN Alive(snapshot) \subseteq DOMAIN snapshot
        /\ \A s \in DOMAIN Alive(snapshot) : Alive(snapshot)[s] = snapshot[s]
    BY DEF Alive, Restrict
  <2>4. Book(Alive(snapshot), row) /\ DOMAIN Alive(snapshot) \subseteq Shadows
    BY <2>3 DEF ShadowInv, Book
  <2>5. Apart(Alive(snapshot), age)
    BY <2>3, ApartShrinks DEF ShadowInv
  <2> QED
    BY <2>1, <2>2, <2>4, <2>5, Zenon
<1>4. ASSUME NEW s \in DOMAIN start
      PROVE  /\ after[s].outcome \in {"pending"} \cup Resolved
             /\ after[s].outcome = "pending" => Abreast(after[s].to)
             /\ ~after[s].to.filled => ~start[s].filled
  <2>1. s \in Shadows /\ Abreast(start[s]) /\ after[s] = Followup(s, start[s], c)
    <3> HIDE DEF start
    <3> QED
      BY <1>3, <1>4 DEF Book
  <2> HIDE DEF start, after
  <2> QED
    BY <2>1, FollowupAbreast DEF ShadowInv
<1>5. /\ kept \subseteq DOMAIN start
      /\ \A s \in kept : after[s].outcome = "pending" /\ s \notin ended
  <2> HIDE DEF start, after
  <2> QED
    BY DEF Kept
<1>6. DOMAIN book = kept /\ \A s \in kept : book[s] = after[s].to
  <2> HIDE DEF kept, after
  <2> QED
    OBVIOUS
<1>7. \A s \in ended : s \in DOMAIN start /\ after[s].outcome \in Resolved
  <2> HIDE DEF start, after
  <2> QED
    BY <1>4
<1> HIDE DEF start, after, kept, book, ended, dirty
<1>8. \A s \in Shadows : /\ row'[s] \in {row[s], "orphaned"} \cup Resolved
                         /\ s \notin ended => row'[s] \in {row[s], "orphaned"}
                         /\ s \notin ended /\ s \notin Orphans(sweeps) => row'[s] = row[s]
  <2> HIDE DEF sweeps
  <2> QED
    BY <1>1, <1>7
<1>9. \A s \in Shadows : row[s] # "none" => row'[s] # "none"
  BY <1>8 DEF Resolved
<1>10. \A s \in Orphans(sweeps) : row[s] = "pending"
  BY DEF Orphans
<1>11. ShadowTypes'
  <2>1. row' \in [Shadows -> {"none", "pending", "orphaned", "dedup"} \cup Resolved]
    <3>1. row \in [Shadows -> {"none", "pending", "orphaned", "dedup"} \cup Resolved]
      BY DEF ShadowInv, ShadowTypes
    <3>2. DOMAIN row' = Shadows /\ row' = [s \in Shadows |-> row'[s]]
      <4> HIDE DEF sweeps
      <4> QED
        BY <1>1
    <3> QED
      BY <1>8, <3>1, <3>2
  <2>2. revived' \in SUBSET Shadows
    BY <1>1, <1>3 DEF ShadowInv, ShadowTypes
  <2>3. faults' \in 0..MaxFaults
    BY <1>2, UnitsAssumption DEF ShadowInv, ShadowTypes, Costs, Fault
  <2>4. sweepAge' \in 0..(SweepUnits + 1)
    BY <1>1, UnitsAssumption DEF ShadowInv, ShadowTypes
  <2>5. restored' \in BOOLEAN
    BY <1>1
  <2> QED
    BY <1>2, <2>1, <2>2, <2>3, <2>4, <2>5 DEF ShadowInv, ShadowTypes
<1>12. Book(book, row') /\ Apart(book, age)
  <2>1. Apart(book, age)
    BY <1>3, <1>4, <1>5, <1>6, ApartShrinks
  <2>2. Book(book, row')
    BY <1>3, <1>4, <1>5, <1>6, <1>9 DEF Book
  <2> QED
    BY <2>1, <2>2
<1>13. Book(NoBook, row') /\ Apart(NoBook, age) /\ Book(snapshot, row') /\ Apart(snapshot, age)
  <2>1. Book(snapshot, row')
    BY <1>9, BookKeeps DEF ShadowInv
  <2> QED
    BY <2>1 DEF NoBook, Book, Apart, ShadowInv
<1>14. tracked' \in {book, NoBook} /\ snapshot' \in {book, snapshot}
  BY <1>1
<1>15. Book(tracked, row)' /\ Apart(tracked, age)'
  BY <1>2, <1>12, <1>13, <1>14 DEF Book, Apart
<1>16. Book(snapshot, row)' /\ Apart(snapshot, age)'
  BY <1>2, <1>12, <1>13, <1>14 DEF Book, Apart
<1>17. Undecided'
  <2> SUFFICES ASSUME NEW s \in DOMAIN tracked'
               PROVE  s \in revived' \/ row'[s] \notin Resolved
    BY DEF Undecided
  <2>1. s \in DOMAIN book
    BY <1>14 DEF NoBook
  <2>2. s \in DOMAIN start /\ s \in Shadows /\ s \notin ended
    BY <1>3, <1>5, <1>6, <2>1
  <2>3. row'[s] \in {row[s], "orphaned"}
    BY <1>8, <2>2
  <2>4. CASE restored
    <3>1. s \in revived \/ row[s] \notin Resolved
      BY <1>3, <2>2, <2>4 DEF ShadowInv, Undecided
    <3> QED
      BY <1>1, <2>3, <2>4, <3>1 DEF Resolved
  <2>5. CASE ~restored
    <3>1. s \in revived' \/ row[s] = "pending"
      BY <1>1, <2>2, <2>5
    <3> QED
      BY <2>3, <3>1 DEF Resolved
  <2> QED
    BY <2>4, <2>5
<1>18. ASSUME NEW s \in Shadows, row[s] \in Resolved, s \notin revived, s \notin revived'
       PROVE  row'[s] = row[s]
  <2>1. row[s] # "pending"
    BY <1>18 DEF Resolved
  <2>2. s \notin Orphans(sweeps)
    BY <1>10, <2>1
  <2>3. s \notin ended
    <3>1. CASE restored
      BY <1>3, <1>7, <1>18, <3>1 DEF ShadowInv, Undecided
    <3>2. CASE ~restored
      BY <1>1, <1>7, <1>18, <2>1, <3>2
    <3> QED
      BY <3>1, <3>2
  <2> QED
    BY <1>8, <2>2, <2>3
<1> QED
  BY <1>11, <1>15, <1>16, <1>17, <1>18 DEF ShadowInv

-----------------------------------------------------------------------------
(* The process and time.                                                   *)

\* The process goes, the snapshot stays.
LEMMA StopStep == ASSUME ShadowInv, StopShadows PROVE ShadowInv'
<1>1. /\ tracked' = NoBook /\ restored' = FALSE /\ row' = row /\ flagged' = flagged /\ age' = age
      /\ snapshot' = snapshot /\ sweepAge' = sweepAge /\ revived' = revived /\ faults' \in 0..MaxFaults
  BY UnitsAssumption DEF StopShadows, Costs, ShadowInv, ShadowTypes
<1>2. ShadowTypes'
  BY <1>1 DEF ShadowInv, ShadowTypes
<1>3. Book(tracked, row)' /\ Apart(tracked, age)' /\ Undecided'
  BY <1>1 DEF NoBook, Book, Apart, Undecided
<1>4. Book(snapshot, row)' /\ Apart(snapshot, age)'
  BY <1>1 DEF ShadowInv, Book, Apart
<1> QED
  BY <1>2, <1>3, <1>4 DEF ShadowInv

\* An older book holds the same shadows.
LEMMA OlderBook ==
    ASSUME NEW b, NEW status, Book(b, status)
    PROVE  /\ Book(Older(b), status) /\ DOMAIN Older(b) = DOMAIN b
           /\ \A s \in DOMAIN b : Older(b)[s].filled = b[s].filled
<1>1. /\ DOMAIN Older(b) = DOMAIN b
      /\ \A s \in DOMAIN b : Older(b)[s] =
            [b[s] EXCEPT !.since = IF @ > TradeUnits \/ ~b[s].filled THEN @ ELSE @ + 1]
  BY DEF Older
<1>2. ASSUME NEW f, Abreast(f)
      PROVE  /\ Abreast([f EXCEPT !.since = IF @ > TradeUnits \/ ~f.filled THEN @ ELSE @ + 1])
             /\ [f EXCEPT !.since = IF @ > TradeUnits \/ ~f.filled THEN @ ELSE @ + 1].filled = f.filled
  <2> DEFINE since == IF f.since > TradeUnits \/ ~f.filled THEN f.since ELSE f.since + 1
  <2>1. f \in Follows
    BY <1>2 DEF Abreast
  <2>2. [f EXCEPT !.since = IF @ > TradeUnits \/ ~f.filled THEN @ ELSE @ + 1] = [f EXCEPT !.since = since]
    BY <2>1 DEF Follows
  <2>3. since \in 0..(TradeUnits + 1)
    BY <2>1, UnitsAssumption DEF Follows
  <2> HIDE DEF since
  <2>4. Abreast([f EXCEPT !.since = since]) /\ [f EXCEPT !.since = since].filled = f.filled
    BY <1>2, <2>1, <2>3 DEF Abreast, Follows
  <2> QED
    BY <2>2, <2>4
<1>3. \A s \in DOMAIN b : Abreast(b[s]) /\ status[s] # "none" /\ s \in Shadows
  BY DEF Book
<1>4. ASSUME NEW s \in DOMAIN b
      PROVE  Abreast(Older(b)[s]) /\ Older(b)[s].filled = b[s].filled
  <2>1. Abreast(b[s])
    BY <1>3
  <2>2. /\ Abreast([b[s] EXCEPT !.since = IF @ > TradeUnits \/ ~b[s].filled THEN @ ELSE @ + 1])
        /\ [b[s] EXCEPT !.since = IF @ > TradeUnits \/ ~b[s].filled THEN @ ELSE @ + 1].filled = b[s].filled
    BY <1>2, <2>1, Zenon
  <2>3. Older(b)[s] = [b[s] EXCEPT !.since = IF @ > TradeUnits \/ ~b[s].filled THEN @ ELSE @ + 1]
    BY <1>1
  <2> QED
    BY <2>2, <2>3, Zenon
<1> QED
  BY <1>1, <1>3, <1>4 DEF Book

\* An hour passes.
LEMMA HourStep == ASSUME ShadowInv, HourPasses PROVE ShadowInv'
<1>1. /\ age' = [s \in Shadows |-> IF row[s] = "none" \/ age[s] = OldAge THEN age[s] ELSE age[s] + 1]
      /\ tracked' = Older(tracked) /\ snapshot' = Older(snapshot)
      /\ sweepAge' = IF sweepAge > SweepUnits THEN sweepAge ELSE sweepAge + 1
      /\ row' = row /\ flagged' = flagged /\ restored' = restored /\ faults' = faults /\ revived' = revived
  BY DEF HourPasses
<1>2. age \in [Shadows -> 0..OldAge] /\ age' \in [Shadows -> 0..OldAge]
  BY <1>1, UnitsAssumption DEF ShadowInv, ShadowTypes, OldAge, Lifetime
<1>3. sweepAge' \in 0..(SweepUnits + 1)
  BY <1>1, UnitsAssumption DEF ShadowInv, ShadowTypes
<1>4. ShadowTypes'
  BY <1>1, <1>2, <1>3 DEF ShadowInv, ShadowTypes
<1>5. ASSUME NEW b, Book(b, row), Apart(b, age)
      PROVE  Book(Older(b), row) /\ Apart(Older(b), age') /\ DOMAIN Older(b) = DOMAIN b
  <2>1. /\ Book(Older(b), row) /\ DOMAIN Older(b) = DOMAIN b
        /\ \A s \in DOMAIN b : Older(b)[s].filled = b[s].filled
    BY <1>5, OlderBook
  <2>2. DOMAIN b \subseteq Shadows /\ \A s \in DOMAIN b : row[s] # "none"
    BY <1>5 DEF Book
  <2>3. \A s \in DOMAIN Older(b) : age'[s] = IF age[s] = OldAge THEN age[s] ELSE age[s] + 1
    BY <1>1, <2>1, <2>2
  <2> QED
    BY <1>2, <1>5, <2>1, <2>2, <2>3, ApartAges
<1>6. Book(tracked, row)' /\ Apart(tracked, age)' /\ DOMAIN tracked' = DOMAIN tracked
  BY <1>1, <1>5 DEF ShadowInv, Book, Apart
<1>7. Book(snapshot, row)' /\ Apart(snapshot, age)'
  BY <1>1, <1>5 DEF ShadowInv, Book, Apart
<1>8. Undecided'
  BY <1>1, <1>6 DEF ShadowInv, Undecided
<1> QED
  BY <1>4, <1>6, <1>7, <1>8 DEF ShadowInv

\* Nothing is followed at the start.
LEMMA ShadowInitial == ShadowInit => ShadowInv
<1> SUFFICES ASSUME ShadowInit PROVE ShadowInv
  OBVIOUS
<1>1. ShadowTypes
  <2>1. OldAge \in Nat /\ SweepUnits + 1 \in 0..(SweepUnits + 1) /\ 0 \in 0..MaxFaults
    BY UnitsAssumption DEF OldAge, Lifetime
  <2>2. age \in [Shadows -> 0..OldAge]
    BY <2>1 DEF ShadowInit
  <2>3. row \in [Shadows -> {"none", "pending", "orphaned", "dedup"} \cup Resolved]
    BY DEF ShadowInit
  <2>4. restored \in BOOLEAN
    BY Zenon DEF ShadowInit
  <2> QED
    BY <2>1, <2>2, <2>3, <2>4 DEF ShadowInit, ShadowTypes
<1>2. DOMAIN tracked = {} /\ DOMAIN snapshot = {}
  BY DEF ShadowInit, NoBook
<1> QED
  BY <1>1, <1>2 DEF ShadowInv, Book, Apart, Undecided

\* Every step of the shadows keeps the invariant, and the outcomes.
LEMMA ShadowStep ==
    ASSUME ShadowInv, [ShadowNext]_shadowVars
    PROVE  ShadowInv' /\ (\A s \in Shadows : row[s] \in Resolved /\ s \notin revived /\ s \notin revived'
                              => row'[s] = row[s])
<1>1. CASE \E s \in Shadows : AddShadow(s)
  <2>1. PICK s \in Shadows : AddShadow(s)
    BY <1>1
  <2>2. \A t \in Shadows : row[t] \in Resolved => row'[t] = row[t]
    <3>1. row[s] = "none" /\ \A t \in Shadows \ {s} : row'[t] = row[t]
      BY <2>1 DEF AddShadow, ShadowInv, ShadowTypes
    <3> QED
      BY <3>1 DEF Resolved
  <2> QED
    BY <2>1, <2>2, AddStep
<1>2. CASE SomeCandle
  <2>1. PICK c \in Candles, fault \in CandleFaults : CheckCandle(c, fault)
    BY <1>2, Zenon DEF SomeCandle
  <2> QED
    BY <2>1, CandleParts, Zenon
<1>3. CASE StopShadows
  <2>1. row' = row
    BY <1>3 DEF StopShadows
  <2> QED
    BY <1>3, <2>1, StopStep
<1>4. CASE HourPasses
  <2>1. row' = row
    BY <1>4 DEF HourPasses
  <2> QED
    BY <1>4, <2>1, HourStep
<1>5. CASE UNCHANGED shadowVars
  BY <1>5 DEF shadowVars, ShadowInv, ShadowTypes, Book, Apart, Undecided
<1> QED
  BY <1>1, <1>2, <1>3, <1>4, <1>5, Zenon DEF ShadowNext

\* What the invariant says of the shadows.
LEMMA ShadowTrue == ShadowInv => ShadowTypeOK /\ ShadowIsEngine /\ TwinsApart
<1> SUFFICES ASSUME ShadowInv PROVE ShadowTypeOK /\ ShadowIsEngine /\ TwinsApart
  OBVIOUS
<1>1. ShadowTypeOK
  BY DEF ShadowInv, ShadowTypes, ShadowTypeOK, Book, Abreast, Follows
<1>2. ShadowIsEngine
  BY DEF ShadowInv, ShadowIsEngine, Book, Abreast
<1>3. TwinsApart
  BY Zenon DEF ShadowInv, TwinsApart, Apart
<1> QED
  BY <1>1, <1>2, <1>3

-----------------------------------------------------------------------------
(* All services.                                                           *)

ServicesInv == CvdInv /\ ShadowInv /\ CamInv /\ TrackedWhileOpen /\ WatchInv

\* What no step of any service undoes (NothingUndone).
Undone ==
    /\ \A s \in Shadows : row[s] \in Resolved /\ s \notin revived /\ s \notin revived' => row'[s] = row[s]
    /\ cam.phase = "active" /\ cam'.phase = "active" /\ camPos > 0 /\ camPos' = camPos
       /\ ~camMeddled' /\ ~camRaced' /\ camPoll'.pc \notin {"timeout_add", "timeout_close"}
       /\ LiveStops # {} => LiveStops' # {}
    /\ cam.phase = "active" /\ cam'.phase = "active" => camStops'[cam'.sl].level >= camStops[cam.sl].level

\* All services start from their invariants.
LEMMA ServicesInitial == Init => ServicesInv
<1>1. CamInit => TrackedWhileOpen
  BY DEF CamInit, TrackedWhileOpen
<1> QED
  BY <1>1, CvdInitial, ShadowInitial, CamInitial, WatchInitial DEF Init, ServicesInv

\* Every step is a step of one service and none of the others.
LEMMA ServicesStep == ServicesInv /\ [Next]_vars => ServicesInv' /\ Undone
<1> SUFFICES ASSUME ServicesInv, [Next]_vars PROVE ServicesInv' /\ Undone
  OBVIOUS
<1>1. [CvdNext]_cvdVars /\ [ShadowNext]_shadowVars /\ [CamNext]_camVars /\ [WatchNext]_watchVars
  BY DEF Next, vars
<1>2. CvdInv'
  BY <1>1, CvdStep DEF ServicesInv
<1>3. ShadowInv' /\ (\A s \in Shadows : row[s] \in Resolved /\ s \notin revived /\ s \notin revived'
                         => row'[s] = row[s])
  BY <1>1, ShadowStep DEF ServicesInv
<1>4. CamInv' /\ TrackedWhileOpen'
  BY <1>1, CamStep, TrackedKeeps DEF ServicesInv
<1>5. WatchInv'
  BY <1>1, WatchStep DEF ServicesInv
<1>6. cam.phase = "active" /\ cam'.phase = "active" /\ camPos > 0 /\ camPos' = camPos
      /\ ~camMeddled' /\ ~camRaced' /\ camPoll'.pc \notin {"timeout_add", "timeout_close"}
      /\ LiveStops # {} => LiveStops' # {}
  BY <1>1, NoGapStep DEF ServicesInv
<1>7. cam.phase = "active" /\ cam'.phase = "active" => camStops'[cam'.sl].level >= camStops[cam.sl].level
  BY <1>1, StopRisesStep DEF ServicesInv
<1> QED
  BY <1>2, <1>3, <1>4, <1>5, <1>6, <1>7 DEF ServicesInv, Undone

\* The invariant of all services holds along every behaviour.
LEMMA ServicesInvariant == Spec => []ServicesInv
<1>1. ServicesInv /\ [Next]_vars => ServicesInv'
  BY ServicesStep
<1> QED
  BY <1>1, ServicesInitial, PTL DEF Spec

\* What the CVD feed calls VALID has missed no trade in its warm windows and
\* has a snapshot (cvd_calculator.py).
THEOREM ValidComplete == Spec => []ValidIsTrue
<1>1. ServicesInv => ValidIsTrue
  BY CvdTrue DEF ServicesInv, ValidIsTrue
<1> QED
  BY <1>1, ServicesInvariant, PTL

\* A shadow stands where one engine fed with all its candles would, through
\* every restart, and similar shadows do not wait together (shadow_monitor.py).
THEOREM ShadowsAbreast == Spec => []ShadowsTrue
<1>1. ServicesInv => ShadowsTrue
  BY ShadowTrue DEF ServicesInv, ShadowsTrue
<1> QED
  BY <1>1, ServicesInvariant, PTL

\* A campaign's stop is for all its lots, a clean end leaves nothing, and the
\* Risk Service has it exactly as long (campaign_monitor.py).
THEOREM CampaignIsCovered == Spec => []CampaignCovered
<1>1. ServicesInv => CampaignCovered
  BY CampaignBounds, CampaignStops DEF ServicesInv, CampaignCovered
<1> QED
  BY <1>1, ServicesInvariant, PTL

\* Wherever the process was killed and however often it was started, at most one
\* annotation is open beside those that a start has missed: only a start that
\* could not read the rows leaves one behind (bybit_watcher.py).
THEOREM NotesAreBounded == Spec => []NotesBounded
<1>1. ServicesInv => NotesBounded
  BY WatchBounded DEF ServicesInv
<1> QED
  BY <1>1, ServicesInvariant, PTL

\* No outcome of a shadow is written over, the bot never cancels the last live
\* stop of a campaign's lots, and the stop only trails upwards.
THEOREM NothingIsUndone == Spec => NothingUndone
<1>1. ServicesInv /\ [Next]_vars => [\A s \in Shadows : row[s] \in Resolved /\ s \notin revived
                                        /\ s \notin revived' => row'[s] = row[s]]_shadowVars
  BY ServicesStep DEF Undone
<1>2. ServicesInv /\ [Next]_vars =>
        [cam.phase = "active" /\ cam'.phase = "active" /\ camPos > 0 /\ camPos' = camPos
         /\ ~camMeddled' /\ ~camRaced' /\ camPoll'.pc \notin {"timeout_add", "timeout_close"}
         /\ LiveStops # {} => LiveStops' # {}]_camVars
  BY ServicesStep DEF Undone
<1>3. ServicesInv /\ [Next]_vars =>
        [cam.phase = "active" /\ cam'.phase = "active" => camStops'[cam'.sl].level >= camStops[cam.sl].level]_camVars
  BY ServicesStep DEF Undone
<1>4. Spec => OutcomeKept
  BY <1>1, ServicesInvariant, PTL DEF Spec, OutcomeKept
<1>5. Spec => NoGap
  BY <1>2, ServicesInvariant, PTL DEF Spec, NoGap
<1>6. Spec => StopRises
  BY <1>3, ServicesInvariant, PTL DEF Spec, StopRises
<1> QED
  BY <1>4, <1>5, <1>6 DEF NothingUndone
=============================================================================
