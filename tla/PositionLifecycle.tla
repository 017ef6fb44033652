------------------------- MODULE PositionLifecycle -------------------------
(***************************************************************************)
(* What the execution layer promises about one position (the state machine *)
(* of docs/context/05-execution.md and of execution_service/models.py): a  *)
(* position is entered, held and left in that order, a closed position is  *)
(* never touched again, and it is reported to the Risk Service as a trade  *)
(* once if its entry was seen to fill and never if it was not.             *)
(***************************************************************************)
EXTENDS Naturals

CONSTANT Objs           \* the positions that may be registered

VARIABLES
    life,       \* per position: its phase, "new" before it is registered
    trades      \* per position: how often it was reported as a closed trade

lifeVars == <<life, trades>>

Init == /\ life = [o \in Objs |-> "new"]
        /\ trades = [o \in Objs |-> 0]

\* A position found on the exchange at startup is active from the beginning.
AdoptedInit == /\ \E a \in Objs : life = [o \in Objs |-> IF o = a THEN "active"
                                                        ELSE "new"]
               /\ trades = [o \in Objs |-> 0]

Move(o, from, to) == /\ life[o] \in from
                     /\ life' = [life EXCEPT ![o] = to]

Register(o) == Move(o, {"new"}, "pending") /\ UNCHANGED trades
Fill(o)     == Move(o, {"pending"}, "filled") /\ UNCHANGED trades
Activate(o) == Move(o, {"filled"}, "active") /\ UNCHANGED trades
Endanger(o) == Move(o, {"filled", "active"}, "emergency") /\ UNCHANGED trades
GiveUp(o)   == Move(o, {"emergency"}, "failed") /\ UNCHANGED trades
CancelEntry(o) == Move(o, {"pending"}, "closed") /\ UNCHANGED trades
Close(o)    == /\ Move(o, {"filled", "active", "emergency"}, "closed")
               /\ trades' = [trades EXCEPT ![o] = @ + 1]

Next == \E o \in Objs : \/ Register(o) \/ Fill(o) \/ Activate(o) \/ Endanger(o)
                        \/ GiveUp(o) \/ CancelEntry(o) \/ Close(o)

Spec == (Init \/ AdoptedInit) /\ [][Next]_lifeVars
=============================================================================
