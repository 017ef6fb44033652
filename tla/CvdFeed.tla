------------------------------ MODULE CvdFeed -------------------------------
(***************************************************************************)
(* The cumulative volume delta of the data service                         *)
(* (data_service/cvd_calculator.py): the trade connection, the state of    *)
(* each pair and the five second batch that warms its windows.             *)
(*                                                                         *)
(* Time is counted in units of the shortest window.  A trade is known by   *)
(* its age in units; a pair has at most one received and one missed trade  *)
(* per unit.  Ages beyond the longest window are pruned, as the code does. *)
(***************************************************************************)
EXTENDS Integers, FiniteSets, FiniteSetsExt

CONSTANTS
    Pairs,          \* the pairs the calculator subscribes to
    Windows,        \* the window lengths in units (5m, 15m and 1h)
    CleanCloses     \* whether the exchange may close the connection cleanly

ASSUME WindowsAssumption == /\ Windows \subseteq Nat \ {0}
                            /\ IsFiniteSet(Windows) /\ Windows # {}
ASSUME CleanClosesAssumption == CleanCloses \in BOOLEAN

Shortest == Min(Windows)
Longest  == Max(Windows)
Ages     == 0..Longest
NoSnapshot == -1
Stale      == 2      \* the age of every snapshot older than a unit

VARIABLES
    tape,       \* ages of the trades kept per pair (_trades)
    cvdState,   \* _cvd_state per pair
    warm,       \* _warm_windows per pair
    snap,       \* age of the pair's snapshot (_snapshots)
    tapeLink,   \* the connection: "up", "dead" (broken, not noticed), "down"
    tapeUp,     \* _connected
    tapePc,     \* where _ws_loop is: "connect", "listen", "backoff"
    batched,    \* _batch_loop has run in this unit
    tapeCalm,   \* from here on there are no more faults
    dropMiss,   \* ghost: ages of the trades missed to a broken connection
    closeMiss   \* ghost: ages of the trades missed to a clean close

cvdVars == <<tape, cvdState, warm, snap, tapeLink, tapeUp, tapePc, batched, tapeCalm,
             dropMiss, closeMiss>>

CvdTypeOK ==
    /\ tape \in [Pairs -> SUBSET Ages]
    /\ cvdState \in [Pairs -> {"VALID", "WARMING_UP", "INVALID"}]
    /\ warm \in [Pairs -> SUBSET Windows]
    /\ snap \in [Pairs -> {NoSnapshot} \cup 0..Stale]
    /\ tapeLink \in {"up", "dead", "down"}
    /\ tapePc \in {"connect", "listen", "backoff"}
    /\ {tapeUp, batched, tapeCalm} \subseteq BOOLEAN
    /\ dropMiss \in [Pairs -> SUBSET Ages]
    /\ closeMiss \in [Pairs -> SUBSET Ages]

CvdInit ==
    /\ tape = [p \in Pairs |-> {}]
    /\ cvdState = [p \in Pairs |-> "WARMING_UP"]
    /\ warm = [p \in Pairs |-> {}]
    /\ snap = [p \in Pairs |-> NoSnapshot]
    /\ tapeLink = "down" /\ tapeUp = FALSE /\ tapePc = "connect"
    /\ batched = TRUE /\ tapeCalm = FALSE
    /\ dropMiss = [p \in Pairs |-> {}]
    /\ closeMiss = [p \in Pairs |-> {}]

-----------------------------------------------------------------------------
(* Time and trades.                                                        *)

Aged(ages) == {a + 1 : a \in ages \ {Longest}}

\* A unit passes: many batches run in it, and the ping notices a broken
\* connection.  Every pair trades in every unit, unless the market is quiet.
Unit ==
    /\ batched /\ tapeLink # "dead"
    /\ \A p \in Pairs : tapeCalm => 0 \in tape[p] \cup dropMiss[p] \cup closeMiss[p]
    /\ batched' = FALSE
    /\ tape' = [p \in Pairs |-> Aged(tape[p])]
    /\ dropMiss' = [p \in Pairs |-> Aged(dropMiss[p])]
    /\ closeMiss' = [p \in Pairs |-> Aged(closeMiss[p])]
    /\ snap' = [p \in Pairs |-> IF snap[p] \in {NoSnapshot, Stale} THEN snap[p] ELSE snap[p] + 1]
    /\ UNCHANGED <<cvdState, warm, tapeLink, tapeUp, tapePc, tapeCalm>>

\* A trade happens; _handle_trades keeps it when the connection carries it.
\* Before the first connect no window can reach back to it.
Trade(p) ==
    \/ /\ tapeLink = "up" /\ 0 \notin tape[p]
       /\ tape' = [tape EXCEPT ![p] = @ \cup {0}]
       /\ UNCHANGED <<dropMiss, closeMiss>>
    \/ /\ tapeLink = "dead" \/ (tapeLink = "down" /\ ~tapeUp)
       /\ 0 \notin dropMiss[p]
       /\ dropMiss' = [dropMiss EXCEPT ![p] = @ \cup {0}]
       /\ UNCHANGED <<tape, closeMiss>>
    \/ /\ tapeLink = "down" /\ tapeUp
       /\ 0 \notin closeMiss[p]
       /\ closeMiss' = [closeMiss EXCEPT ![p] = @ \cup {0}]
       /\ UNCHANGED <<tape, dropMiss>>

TradeHappens(p) ==
    /\ Trade(p)
    /\ UNCHANGED <<cvdState, warm, snap, tapeLink, tapeUp, tapePc, batched, tapeCalm>>

-----------------------------------------------------------------------------
(* The batch.                                                              *)

\* The windows that the oldest of at least two trades reaches back to.
Reached(p) == {w \in Windows : Cardinality(tape[p]) >= 2 /\ \E a \in tape[p] : a >= w}

\* Mutant of Warmed: the milestones stop once the pair is VALID.
WarmedOnce(p) == IF cvdState[p] = "WARMING_UP" THEN warm[p] \cup Reached(p) ELSE warm[p]

\* A pair is VALID with its shortest window; the others are milestones.  Only
\* a pair that is warming up gets the shortest one.
Warmed(p) ==
    CASE cvdState[p] = "WARMING_UP" -> warm[p] \cup Reached(p)
      [] cvdState[p] = "VALID"      -> warm[p] \cup (Reached(p) \ {Shortest})
      [] OTHER                      -> warm[p]

Batch ==
    /\ ~batched \/ \E p \in Pairs : tape[p] # {} /\ snap[p] # 0
    /\ batched' = TRUE
    /\ snap' = [p \in Pairs |-> IF tape[p] = {} THEN snap[p] ELSE 0]
    /\ warm' = [p \in Pairs |-> Warmed(p)]
    /\ cvdState' = [p \in Pairs |->
          IF cvdState[p] = "WARMING_UP" /\ Shortest \in Warmed(p) THEN "VALID" ELSE cvdState[p]]
    /\ UNCHANGED <<tape, tapeLink, tapeUp, tapePc, tapeCalm, dropMiss, closeMiss>>

-----------------------------------------------------------------------------
(* The connection (_ws_loop, _connect_and_listen).                         *)

\* Mutant of Flushed: a reconnect keeps the trades of before the gap.
FlushedNothing(p) == FALSE

\* The pairs whose trades and snapshot a new connection throws away.
Flushed(p) == cvdState[p] = "INVALID"

OpenTape ==
    /\ tapePc = "connect"
    /\ tapeLink' = "up" /\ tapeUp' = TRUE /\ tapePc' = "listen"
    /\ tape' = [p \in Pairs |-> IF Flushed(p) THEN {} ELSE tape[p]]
    /\ snap' = [p \in Pairs |-> IF Flushed(p) THEN NoSnapshot ELSE snap[p]]
    /\ warm' = [p \in Pairs |-> IF Flushed(p) THEN {} ELSE warm[p]]
    /\ cvdState' = [p \in Pairs |-> IF cvdState[p] = "INVALID" THEN "WARMING_UP"
                                    ELSE cvdState[p]]
    /\ UNCHANGED <<batched, tapeCalm, dropMiss, closeMiss>>

\* The exception handler: every pair is invalid until the next connection.
TapeFailed ==
    /\ tapeLink' = "down" /\ tapeUp' = FALSE /\ tapePc' = "backoff"
    /\ cvdState' = [p \in Pairs |-> "INVALID"]
    /\ UNCHANGED <<tape, warm, snap, batched, tapeCalm, dropMiss, closeMiss>>

OpenTapeFails == tapePc = "connect" /\ ~tapeCalm /\ TapeFailed
TapeDropNoticed == tapePc = "listen" /\ tapeLink = "dead" /\ TapeFailed

TapeBreaks ==
    /\ tapeLink = "up" /\ ~tapeCalm
    /\ tapeLink' = "dead"
    /\ UNCHANGED <<tape, cvdState, warm, snap, tapeUp, tapePc, batched, tapeCalm, dropMiss,
                   closeMiss>>

\* A clean close ends the listen loop without an exception: the pairs keep
\* their state and the loop connects again.
TapeClosed ==
    /\ CleanCloses /\ ~tapeCalm
    /\ tapePc = "listen" /\ tapeLink = "up"
    /\ tapeLink' = "down" /\ tapePc' = "connect"
    /\ UNCHANGED <<tape, cvdState, warm, snap, tapeUp, batched, tapeCalm, dropMiss, closeMiss>>

TapeBackoff ==
    /\ tapePc = "backoff"
    /\ tapePc' = "connect"
    /\ UNCHANGED <<tape, cvdState, warm, snap, tapeLink, tapeUp, batched, tapeCalm, dropMiss,
                   closeMiss>>

TapeCalmDown ==
    /\ ~tapeCalm
    /\ tapeCalm' = TRUE
    /\ UNCHANGED <<tape, cvdState, warm, snap, tapeLink, tapeUp, tapePc, batched, dropMiss,
                   closeMiss>>

CvdNext ==
    \/ Unit \/ (\E p \in Pairs : TradeHappens(p)) \/ Batch
    \/ OpenTape \/ OpenTapeFails \/ TapeBreaks \/ TapeDropNoticed \/ TapeClosed \/ TapeBackoff
    \/ TapeCalmDown

CvdSpec == CvdInit /\ [][CvdNext]_cvdVars

-----------------------------------------------------------------------------
(* Properties.                                                             *)

\* A pair that counts as VALID has every trade of the windows that are warm,
\* but for those a clean close of the connection lost: a broken connection is
\* never inside a window a consumer is told it may use.  The moment between
\* the break and its detection is not claimed.
ValidIsComplete ==
    \A p \in Pairs : cvdState[p] = "VALID" /\ tapeLink # "dead" =>
        \A w \in warm[p] : dropMiss[p] \cap 0..(w - 1) = {}

\* A VALID pair has its shortest window warm and a snapshot to give out, and
\* the snapshot is no older than the trades it would be made from: it stops
\* being refreshed only when no trade of the last hour is left.
ValidHasSnapshot ==
    \A p \in Pairs : cvdState[p] = "VALID" =>
        /\ Shortest \in warm[p]
        /\ snap[p] # NoSnapshot
        /\ batched /\ tape[p] \ {0} # {} => snap[p] = 0

\* A pair invalidated by a drop becomes VALID with every window warm again
\* once the faults stop and trades flow.
TapeRecovers == tapeCalm ~> [](\A p \in Pairs : cvdState[p] = "VALID" /\ warm[p] = Windows)
=============================================================================
