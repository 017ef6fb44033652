--------------------------- MODULE ShadowMonitor ----------------------------
(***************************************************************************)
(* The shadow monitor (execution_service/shadow_monitor.py): setups that   *)
(* are followed on paper, their Redis snapshot and their ml_setups rows.   *)
(*                                                                         *)
(* Time is counted in units: EntryUnits after the detection an unfilled    *)
(* shadow is given up, TradeUnits after its fill a filled one.  All shadows*)
(* are of one pair and one setup type, plans say their direction and       *)
(* levels.  Ages above the lifetime are not told apart.                    *)
(***************************************************************************)
EXTENDS PnlEngine, FiniteSets, Functions

CONSTANTS
    Shadows,        \* the setup ids detected in a behaviour
    PlanOf,         \* the plan of each
    EntryUnits, TradeUnits,
    TwinUnits,      \* how long an unfilled shadow blocks a similar one
    SweepUnits,     \* the interval of the orphan cleanup
    Similar(_, _),  \* entry prices within 1% of each other
    Candles,        \* the candles the market may show
    MaxFaults       \* bound: stops, refused saves, reads and writes

\* Prices are integers.  One close through the first take profit arms
\* breakeven, or none has to (BE_CONFIRM_CLOSES): the monitor makes a new
\* engine for every candle, which would never count a second close.
Plans == [dir : {"long", "short"}, entry : Int, sl : Int, tp1 : Int, tp2 : Int, size : Int,
          confirm : {0, 1}]

ASSUME UnitsAssumption == /\ EntryUnits \in Nat /\ TradeUnits \in Nat /\ TwinUnits \in Nat
                          /\ SweepUnits \in Nat /\ MaxFaults \in Nat
ASSUME PlansAssumption == PlanOf \in [Shadows -> Plans]

Lifetime == EntryUnits + TradeUnits
OldAge   == Lifetime + 1
Resolved == {"tp", "sl", "breakeven", "timeout", "no_fill"}

VARIABLES
    row,        \* ml_setups: "none", "pending" or the outcome
    flagged,    \* rows with shadow_mode set
    age,        \* units since the detection
    tracked,    \* _positions
    snapshot,   \* the Redis key
    restored,   \* _restored
    sweepAge,   \* units since the last orphan cleanup
    faults,     \* the faults so far
    revived     \* ghost: resolved shadows a restart took up again

shadowVars == <<row, flagged, age, tracked, snapshot, restored, sweepAge, faults, revived>>

\* A followed shadow: the engine's fields the monitor keeps, the units since
\* the fill, and as a ghost the position one engine would have carried along.
Followed(s) == [filled |-> FALSE, since |-> 0, sl |-> PlanOf[s].sl, tp1 |-> FALSE,
                ghost |-> Opened(PlanOf[s])]

ShadowTypeOK ==
    /\ row \in [Shadows -> {"none", "pending", "orphaned", "dedup"} \cup Resolved]
    /\ flagged \subseteq Shadows
    /\ age \in [Shadows -> 0..OldAge]
    /\ \A book \in {tracked, snapshot} :
          /\ DOMAIN book \subseteq Shadows
          /\ \A s \in DOMAIN book : book[s].since \in 0..TradeUnits + 1
    /\ restored \in BOOLEAN /\ faults \in 0..MaxFaults
    /\ sweepAge \in 0..SweepUnits + 1
    /\ revived \subseteq Shadows

NoBook == [s \in {} |-> 0]

ShadowInit ==
    /\ row = [s \in Shadows |-> "none"] /\ flagged = {} /\ age = [s \in Shadows |-> 0]
    /\ tracked = NoBook /\ snapshot = NoBook
    /\ restored = FALSE /\ sweepAge = SweepUnits + 1
    /\ faults = 0 /\ revived = {}

\* The step costs n faults.
Costs(n) == faults + n <= MaxFaults /\ faults' = faults + n
Fault(b) == IF b THEN 1 ELSE 0

-----------------------------------------------------------------------------
(* Detection (add_shadow).                                                 *)

Plausible(plan) ==
    IF plan.dir = "long" THEN plan.tp2 > plan.entry /\ plan.sl < plan.entry
                         ELSE plan.tp2 < plan.entry /\ plan.sl > plan.entry

\* A recent unfilled shadow of the same kind and price.
Blocked(s) ==
    \E t \in DOMAIN tracked :
        /\ PlanOf[t].dir = PlanOf[s].dir /\ ~tracked[t].filled
        /\ age[t] <= TwinUnits
        /\ Similar(PlanOf[t].entry, PlanOf[s].entry)

\* The pipeline's shadow path: the row is written, the shadow accepted or its
\* row closed as a duplicate.  check_candle has run before in the same call.
\* With the database down only the memory and Redis know of the shadow.
AddShadow(s) ==
    /\ restored /\ row[s] = "none" /\ age[s] = 0 /\ s \notin DOMAIN tracked
    /\ LET accepted == Plausible(PlanOf[s]) /\ ~Blocked(s)
           book == [t \in DOMAIN tracked \cup {s} |-> IF t = s THEN Followed(s) ELSE tracked[t]]
       IN  \E refused \in BOOLEAN :
           /\ row' = [row EXCEPT ![s] = IF accepted THEN "pending" ELSE "dedup"]
           /\ IF accepted
              THEN /\ tracked' = book /\ flagged' = flagged \cup {s}
                   /\ snapshot' = IF refused THEN snapshot ELSE book
              ELSE ~refused /\ UNCHANGED <<tracked, snapshot, flagged>>
           /\ Costs(Fault(refused))
    /\ UNCHANGED <<age, restored, sweepAge, revived>>

-----------------------------------------------------------------------------
(* One candle (check_candle).                                              *)

\* The positions of the snapshot that have not outlived their time.
Alive(book) == Restrict(book, {s \in DOMAIN book : age[s] <= Lifetime})

\* The fields _check_tp_sl hands to a new engine position, and its answer.
Fresh(plan, f) == [Opened(plan) EXCEPT !.filled = TRUE, !.sl = f.sl, !.tp1 = f.tp1]

\* Mutant of Checked: the armed breakeven is not written back.
CheckedForgotten(plan, f, c) ==
    [to |-> [f EXCEPT !.filled = TRUE, !.ghost = Advance(plan, f.ghost, c)],
     outcome |-> Step(plan, Fresh(plan, f), c).outcome]

Checked(plan, f, c) ==
    LET end == Step(plan, Fresh(plan, f), c)
    IN  [to |-> [f EXCEPT !.filled = TRUE, !.tp1 = end.tp1, !.sl = end.sl,
                          !.ghost = Advance(plan, f.ghost, c)],
         outcome |-> end.outcome]

\* What the candle does to one followed shadow.
Followup(s, f, c) ==
    CASE ~f.filled /\ age[s] > EntryUnits -> [to |-> f, outcome |-> "no_fill"]
      [] ~f.filled /\ age[s] <= EntryUnits /\ ~Touched(c, PlanOf[s].entry) ->
             [to |-> f, outcome |-> "pending"]
      [] ~f.filled /\ age[s] <= EntryUnits /\ Touched(c, PlanOf[s].entry) ->
             Checked(PlanOf[s], f, c)
      [] f.filled /\ f.since > TradeUnits -> [to |-> f, outcome |-> "timeout"]
      [] f.filled /\ f.since <= TradeUnits -> Checked(PlanOf[s], f, c)

\* The shadows that stay in the book.
Kept(book, after) == {s \in DOMAIN book : after[s].outcome = "pending"}

\* Mutant of Orphans: the cleanup also takes rows that have an outcome.
OrphansAny(sweeps) == {s \in flagged : sweeps /\ age[s] > Lifetime}

\* The rows the cleanup closes: flagged, open and older than a lifetime.
Orphans(sweeps) ==
    {s \in flagged : sweeps /\ row[s] = "pending" /\ age[s] > Lifetime}

\* What may go wrong in a candle: Redis refuses the read (then nothing is
\* followed) or the save, the database refuses the outcomes (the shadows are
\* dropped all the same), the process dies before the save.
CandleFaults == {"none", "unread", "unwritten", "unsaved", "killed"}

\* What the candle did to the shadows it started with is written down: the
\* outcomes and the orphans at once, then one save when something changed.
Settle(start, after, sweeps, fault) ==
    LET book  == [s \in Kept(start, after) |-> after[s].to]
        ended == {s \in DOMAIN start : after[s].outcome # "pending"}
        dirty == ended # {} \/ \E s \in DOMAIN start :
                    \/ after[s].to.filled # start[s].filled
                    \/ after[s].to.tp1 # start[s].tp1
    IN  /\ fault \in {"unsaved", "killed"} => dirty
        /\ fault = "unwritten" => ended \cup Orphans(sweeps) # {}
        /\ row' = [s \in Shadows |->
                      IF fault = "unwritten" THEN row[s]
                      ELSE IF s \in ended THEN after[s].outcome
                      ELSE IF s \in Orphans(sweeps) THEN "orphaned" ELSE row[s]]
        /\ sweepAge' = IF sweeps THEN 0 ELSE sweepAge
        /\ revived' = IF restored THEN revived
                      ELSE revived \cup {s \in DOMAIN start : row[s] # "pending"}
        /\ tracked' = IF fault = "killed" THEN NoBook ELSE book
        /\ restored' = (fault # "killed")
        /\ snapshot' = IF dirty /\ fault \notin {"unsaved", "killed"}
                       THEN book ELSE snapshot

\* The deferred restore, the sweep and the shadows one after the other.
CheckCandle(c, fault) ==
    /\ Costs(Fault(fault # "none"))
    /\ fault = "unread" => ~restored /\ DOMAIN snapshot # {}
    /\ UNCHANGED <<flagged, age>>
    /\ LET start  == IF restored THEN tracked
                     ELSE IF fault = "unread" THEN NoBook ELSE Alive(snapshot)
           sweeps == ~restored \/ sweepAge > SweepUnits
       IN  \E after \in {[s \in DOMAIN start |-> Followup(s, start[s], c)]} :
               Settle(start, after, sweeps, fault)

-----------------------------------------------------------------------------
(* The process and time.                                                   *)

StopShadows ==
    /\ restored /\ Costs(1)
    /\ tracked' = NoBook /\ restored' = FALSE
    /\ UNCHANGED <<row, flagged, age, snapshot, sweepAge, revived>>

Older(book) == [s \in DOMAIN book |->
                   [book[s] EXCEPT !.since = IF @ > TradeUnits \/ ~book[s].filled THEN @ ELSE @ + 1]]

HourPasses ==
    /\ age' = [s \in Shadows |-> IF row[s] = "none" \/ age[s] = OldAge THEN age[s] ELSE age[s] + 1]
    /\ tracked' = Older(tracked) /\ snapshot' = Older(snapshot)
    /\ sweepAge' = IF sweepAge > SweepUnits THEN sweepAge ELSE sweepAge + 1
    /\ UNCHANGED <<row, flagged, restored, faults, revived>>

SomeCandle == \E c \in Candles, fault \in CandleFaults : CheckCandle(c, fault)

ShadowNext == \/ \E s \in Shadows : AddShadow(s)
              \/ SomeCandle \/ StopShadows \/ HourPasses

ShadowSpec == ShadowInit /\ [][ShadowNext]_shadowVars

-----------------------------------------------------------------------------
(* Properties.                                                             *)

\* A followed shadow stands where one engine fed with the same candles since
\* its fill would stand, although every candle is checked by a new engine.
ShadowIsEngine ==
    \A s \in DOMAIN tracked :
        /\ tracked[s].filled = tracked[s].ghost.filled
        /\ tracked[s].ghost.outcome = "pending"
        /\ tracked[s].tp1 = tracked[s].ghost.tp1 /\ tracked[s].sl = tracked[s].ghost.sl

\* A shadow that waits for a fill next to an older one it is similar to came
\* more than TwinUnits after it, also across restarts.  The 1% is of the older
\* one's entry, so similarity has a direction; of two of the same age only one
\* order is possible when they are similar both ways.
TwinsApart ==
    \A s, t \in DOMAIN tracked :
        /\ s # t /\ ~tracked[s].filled /\ ~tracked[t].filled
        /\ PlanOf[s].dir = PlanOf[t].dir /\ Similar(PlanOf[t].entry, PlanOf[s].entry)
        /\ age[t] > age[s] \/ Similar(PlanOf[s].entry, PlanOf[t].entry)
        /\ age[s] < OldAge /\ age[t] < OldAge
        => age[s] > age[t] + TwinUnits \/ age[t] > age[s] + TwinUnits

\* An outcome once written is overwritten only for a shadow that a restart
\* took up again from a snapshot older than the outcome, or an orphan.
OutcomeKept ==
    [][\A s \in Shadows : row[s] \in Resolved /\ s \notin revived /\ s \notin revived'
            => row'[s] = row[s]]_shadowVars
=============================================================================
