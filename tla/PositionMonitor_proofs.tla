----------------------- MODULE PositionMonitor_proofs -----------------------
(***************************************************************************)
(* Proofs about PositionMonitor, in four parts.                            *)
(*                                                                         *)
(* 1. For every number of positions, attempts, failures, cancels and       *)
(*    panics, the position the monitor manages is counted by the Risk      *)
(*    Service; and with one position, exactly that one is (CountExact).    *)
(*    Neither is inductive.  A handler forgets the position it works on,   *)
(*    which the monitor may no longer manage, so the invariant says what a *)
(*    coroutine may hold while it waits: an object that was registered,    *)
(*    or, for execute, the fresh one it is going to register.  Every       *)
(*    handler is shown to be one of a few moves on its own object (Moves), *)
(*    and only the moves are taken up with the invariant.                  *)
(* 2. Without cancels from the dashboard, PositionMonitor implements       *)
(*    PositionLifecycle.  LifeInv says in which phase the object is at     *)
(*    every place of the poll loop.                                        *)
(* 3. The stop-loss a position names sits at the level recorded for it     *)
(*    (StopWhereRecorded).  LevelInv says which call is awaited at every   *)
(*    place of the poll loop, and that the answer to one that asks for a   *)
(*    stop-loss names an order at the level asked for.                     *)
(* 4. With one position, and faults that neither lose an order nor take a  *)
(*    stop-loss away, the position has a stop-loss while it is open        *)
(*    (Protected).  SingleInv adds what is on the exchange: one entry      *)
(*    order, that fills once; who cancels what; and at which places of the *)
(*    poll loop a stop-loss is known to be there.                          *)
(***************************************************************************)
EXTENDS PositionMonitor, WellFoundedInduction, TLAPS

LocalFields == DOMAIN Idle
ObjFields   == DOMAIN NoObj

LocalOK(k) == DOMAIN k = LocalFields
Taken(b)   == DOMAIN b = ObjFields /\ b.phase # "new"

\* What a coroutine holds while it waits.
Holds(t) ==
    IF t = "exec"
    THEN \/ task[t].pc = "idle"
         \/ task[t].pc = "n.cancel" /\ task[t].o \in Objs /\ Taken(obj[task[t].o]) /\ Unused # {}
         \/ task[t].pc = "n.place" /\ task[t].o \in Unused
    ELSE task[t].pc # "idle" => task[t].o \in Objs /\ Taken(obj[task[t].o])

Shapes ==
    /\ DOMAIN task = Tasks /\ \A t \in Tasks : LocalOK(task[t])
    /\ DOMAIN obj = Objs /\ \A o \in Objs : DOMAIN obj[o] = ObjFields
    /\ tracked \in 0..MaxObjs
    /\ tracked # 0 => Taken(obj[tracked])
    /\ rows \in [Objs -> {"none", "pending", "active"}]

\* The position the monitor manages is counted.
ManagedIsCounted == tracked # 0 => rows[tracked] # "none"

\* Of a single position, none is counted when none is managed.
Counts == ManagedIsCounted /\ (MaxObjs = 1 /\ tracked = 0 => rows[1] = "none")

MonitorInv == Shapes /\ (\A t \in Tasks : Holds(t)) /\ Counts

\* One step of coroutine t on object o: it stays at work on it or is done, and
\* leaves the monitor's entry and the rows alone, forgets the object, or
\* reports its entry filled.
Reports(o) == UNCHANGED tracked /\ rows' = [rows EXCEPT ![o] = IF @ = "pending" THEN "active" ELSE @]
Moves(t, o) ==
    /\ \E b : Taken(b) /\ obj' = [obj EXCEPT ![o] = b]
    /\ \E k : LocalOK(k) /\ (k.pc = "idle" \/ k.o = o) /\ task' = [task EXCEPT ![t] = k]
    /\ UNCHANGED <<tracked, rows>> \/ Forget(o) \/ Reports(o)

-----------------------------------------------------------------------------
(* Small facts.                                                            *)

\* A set of numbers has a least one.
LEMMA LeastExists ==
    ASSUME NEW S \in SUBSET Nat, S # {}
    PROVE  \E m \in S : \A n \in S : m <= n
<1> DEFINE R == {ss \in Nat \X Nat : ss[1] < ss[2]}
<1>1. IsWellFoundedOn(R, Nat)
  BY NatLessThanWellFounded DEF OpToRel
<1> HIDE DEF R
<1>2. \E m \in S : \A n \in S : <<n, m>> \notin R
  BY <1>1, WFMin
<1>3. \A m, n \in S : <<n, m>> \notin R => m <= n
  BY DEF R
<1> QED
  BY <1>2, <1>3

\* The object execute takes for a new entry is one that is not in use.
LEMMA FirstIsUnused == Unused # {} => First(Unused) \in Unused
<1> SUFFICES ASSUME Unused # {} PROVE First(Unused) \in Unused
  OBVIOUS
<1>1. Unused \in SUBSET Nat
  BY BoundsAssumption DEF Unused, Objs
<1>2. \E m \in Unused : \A n \in Unused : m <= n
  BY <1>1, LeastExists
<1> QED
  BY <1>2 DEF First

LEMMA IdleOK == LocalOK(Idle) /\ Idle.pc = "idle"
BY DEF LocalOK, LocalFields, Idle

-----------------------------------------------------------------------------
(* The moves keep the invariant.                                           *)

LEMMA MovesKeep ==
    ASSUME MonitorInv, NEW t \in Tasks \ {"exec"}, NEW o \in Objs, Taken(obj[o]), Moves(t, o)
    PROVE  MonitorInv'
<1>1. PICK b : Taken(b) /\ obj' = [obj EXCEPT ![o] = b]
  BY DEF Moves
<1>2. PICK k : LocalOK(k) /\ (k.pc = "idle" \/ k.o = o) /\ task' = [task EXCEPT ![t] = k]
  BY DEF Moves
<1>3. /\ DOMAIN obj' = Objs /\ obj'[o] = b /\ \A p \in Objs \ {o} : obj'[p] = obj[p]
      /\ DOMAIN task' = Tasks /\ task'[t] = k /\ \A u \in Tasks \ {t} : task'[u] = task[u]
  BY <1>1, <1>2 DEF MonitorInv, Shapes
<1>4. Unused' = Unused
  BY <1>1, <1>3 DEF Unused, Taken
<1>5. \A p \in Objs : Taken(obj[p]) => Taken(obj'[p])
  BY <1>1, <1>3
<1>6. \A u \in Tasks : Holds(u)'
  <2>1. ASSUME NEW u \in Tasks \ {t} PROVE Holds(u)'
    <3>1. Holds(u) /\ task'[u] = task[u]
      BY <1>3 DEF MonitorInv
    <3> QED
      BY <3>1, <1>4, <1>5 DEF Holds
  <2>2. Holds(t)'
    BY <1>1, <1>2, <1>3 DEF Holds
  <2> QED
    BY <2>1, <2>2
<1>7. /\ tracked' \in 0..MaxObjs /\ (tracked' # 0 => tracked' = tracked)
      /\ rows' \in [Objs -> {"none", "pending", "active"}]
      /\ Counts'
  <2>1. CASE UNCHANGED <<tracked, rows>>
    BY <2>1 DEF MonitorInv, Shapes, Counts, ManagedIsCounted
  <2>2. CASE Forget(o)
    BY <2>2, BoundsAssumption DEF Forget, MonitorInv, Shapes, Counts, ManagedIsCounted, Objs
  <2>3. CASE Reports(o)
    BY <2>3 DEF Reports, MonitorInv, Shapes, Counts, ManagedIsCounted, Objs
  <2> QED
    BY <2>1, <2>2, <2>3 DEF Moves
<1>8. Shapes'
  BY <1>1, <1>2, <1>3, <1>5, <1>7 DEF Shapes, MonitorInv, Taken, Objs
<1> QED
  BY <1>6, <1>7, <1>8 DEF MonitorInv, Counts, ManagedIsCounted

-----------------------------------------------------------------------------
(* Every way a handler goes on is a move on the object it works on.        *)

\* The new value of the object keeps it taken, whatever fields change.
Works(k, b, o) == LocalOK(k) /\ k.o = o /\ Taken(b)

LEMMA AskMoves ==
    ASSUME NEW t, NEW k, NEW b, NEW o, NEW pc, NEW call, NEW arg, Works(k, b, o), AskWith(t, k, b, pc, call, arg)
    PROVE  Moves(t, o)
<1>1. LocalOK([k EXCEPT !.pc = pc, !.call = call, !.arg = arg, !.res = "wait", !.got = 0])
  BY DEF Works, LocalOK
<1>2. [k EXCEPT !.pc = pc, !.call = call, !.arg = arg, !.res = "wait", !.got = 0].o = o
  BY DEF Works, LocalOK, LocalFields, Idle
<1> QED
  BY <1>1, <1>2 DEF AskWith, Works, Moves

LEMMA DoneMoves ==
    ASSUME NEW t, NEW k, NEW b, NEW o, Works(k, b, o), Done(t, k, b)
    PROVE  Moves(t, o)
BY IdleOK DEF Done, FinishWith, Works, Moves

LEMMA ActivateMoves ==
    ASSUME NEW k, NEW b, NEW o, Works(k, b, o), Activate(k, b)
    PROVE  Moves("poll", o)
<1>1. Taken([b EXCEPT !.phase = "active"])
  BY DEF Works, Taken, ObjFields, NoObj
<1> QED
  BY <1>1, IdleOK DEF Activate, FinishWith, Works, Moves, Reports

LEMMA ClosedIsTaken ==
    ASSUME NEW b, NEW why, Taken(b)
    PROVE  Taken(AsClosed(b, why))
BY DEF AsClosed, Taken, ObjFields, NoObj

LEMMA UnwindMoves ==
    ASSUME NEW t, NEW k, NEW b, NEW o, NEW todo, NEW why, Works(k, b, o), Unwind(t, k, b, todo, why)
    PROVE  Moves(t, o)
<1> DEFINE rest == SelectSeq(todo, LAMBDA c : Wanted(b, c))
           k2   == [k EXCEPT !.todo = Tail(rest), !.why = why]
<1>1. Works(k2, b, o)
  BY DEF Works, LocalOK, LocalFields, Idle
<1>2. \/ FinishWith(t, k, AsClosed(b, why)) /\ Forget(k.o)
      \/ AskWith(t, k2, b, "unwind", "market", 0)
      \/ AskWith(t, k2, b, "unwind", "cancel", b[Head(rest)])
  BY DEF Unwind
<1> HIDE DEF k2, rest
<1>3. CASE FinishWith(t, k, AsClosed(b, why)) /\ Forget(k.o)
  BY <1>3, ClosedIsTaken, IdleOK DEF FinishWith, Works, Moves
<1> QED
  BY <1>1, <1>2, <1>3, AskMoves

LEMMA TrailMoves ==
    ASSUME NEW k, NEW b, NEW o, Works(k, b, o), Trail(k, b)
    PROVE  Moves("poll", o)
BY DoneMoves, AskMoves DEF Trail, Call

LEMMA VerifyTpMoves ==
    ASSUME NEW k, NEW b, NEW o, Works(k, b, o), VerifyTp(k, b)
    PROVE  Moves("poll", o)
BY ActivateMoves, AskMoves DEF VerifyTp, Call

LEMMA VerifySlMoves ==
    ASSUME NEW k, NEW b, NEW o, Works(k, b, o), VerifySl(k, b)
    PROVE  Moves("poll", o)
BY VerifyTpMoves, AskMoves DEF VerifySl, Call

LEMMA CheckFillMoves ==
    ASSUME NEW k, NEW b, NEW o, Works(k, b, o), CheckFill(k, b)
    PROVE  Moves("poll", o)
BY VerifySlMoves, UnwindMoves DEF CheckFill, Leave

LEMMA PlaceTpMoves ==
    ASSUME NEW k, NEW b, NEW o, Works(k, b, o), PlaceTp(k, b)
    PROVE  Moves("poll", o)
BY CheckFillMoves, AskMoves DEF PlaceTp, Call

LEMMA VerifyExistsMoves ==
    ASSUME NEW k, NEW b, NEW o, Works(k, b, o), VerifyExists(k, b)
    PROVE  Moves("poll", o)
BY TrailMoves, AskMoves DEF VerifyExists, Call

LEMMA CheckTpMoves ==
    ASSUME NEW k, NEW b, NEW o, Works(k, b, o), CheckTp(k, b)
    PROVE  Moves("poll", o)
BY VerifyExistsMoves, AskMoves DEF CheckTp, Call

LEMMA CheckActiveMoves ==
    ASSUME NEW k, NEW b, NEW o, Works(k, b, o), CheckActive(k, b)
    PROVE  Moves("poll", o)
<1>1. CASE b.due
  BY <1>1, UnwindMoves DEF CheckActive, Leave
<1>2. CASE ~b.due /\ b.sl # 0
  BY <1>2, AskMoves DEF CheckActive, Call
<1>3. CASE ~b.due /\ b.sl = 0 /\ b.tp # 0
  BY <1>3, CheckTpMoves DEF CheckActive
<1>4. CASE ~b.due /\ b.sl = 0 /\ b.tp = 0
  BY <1>4, AskMoves DEF CheckActive, Call
<1> QED
  BY <1>1, <1>2, <1>3, <1>4

LEMMA CloseAndTrailMoves ==
    ASSUME Works(K, B, K.o), CloseAndTrail
    PROVE  Moves("poll", K.o)
<1>1. Taken(AsClosed(B, "sl"))
  BY ClosedIsTaken DEF Works
<1>2. LocalOK([K EXCEPT !.pc = "trail.tick", !.call = "ticker", !.arg = 0, !.res = "wait", !.got = 0])
  BY DEF Works, LocalOK
<1>3. [K EXCEPT !.pc = "trail.tick", !.call = "ticker", !.arg = 0, !.res = "wait", !.got = 0].o = K.o
  BY DEF Works, LocalOK, LocalFields, Idle
<1> QED
  BY <1>1, <1>2, <1>3, IdleOK DEF CloseAndTrail, Moves

-----------------------------------------------------------------------------
(* The poll loop's handlers.                                               *)

\* A handler that resumes works on the object it holds.
LEMMA PollWorks ==
    ASSUME MonitorInv, K.pc # "idle"
    PROVE  Works(K, B, K.o) /\ K.o \in Objs
BY DEF MonitorInv, Holds, Shapes, Tasks, K, B, Works

\* The parts of the object a handler changes leave it taken.
LEMMA FieldsTaken ==
    ASSUME NEW b, Taken(b)
    PROVE  /\ \A x : /\ Taken([b EXCEPT !.sl = x]) /\ Taken([b EXCEPT !.tp = x])
                    /\ Taken([b EXCEPT !.fails = x]) /\ Taken(Moved(b, x)) /\ Taken(Stopped(b, x))
                    /\ Taken(AsEmergency(b, x))
           /\ Taken(Marked(b)) /\ Taken(EntryFilled(b))
           /\ \A n, p : p # "new" => Taken([b EXCEPT !.retries = n, !.phase = p])
<1> USE DEF Taken, ObjFields, NoObj
<1>1. \A x : /\ Taken([b EXCEPT !.sl = x]) /\ Taken([b EXCEPT !.tp = x]) /\ Taken([b EXCEPT !.fails = x])
  OBVIOUS
<1>2. \A x : Taken(Moved(b, x)) /\ Taken(Stopped(b, x)) /\ Taken(AsEmergency(b, x))
  BY DEF Moved, Stopped, AsEmergency
<1>3. Taken(Marked(b)) /\ Taken(EntryFilled(b))
  BY DEF Marked, EntryFilled
<1>4. \A n, p : p # "new" => Taken([b EXCEPT !.retries = n, !.phase = p])
  OBVIOUS
<1> QED
  BY <1>1, <1>2, <1>3, <1>4

\* And the parts of its locals leave them well formed.
LEMMA LocalsOK ==
    ASSUME NEW k, LocalOK(k)
    PROVE  \A x : /\ LocalOK([k EXCEPT !.new = x]) /\ [k EXCEPT !.new = x].o = k.o
                /\ LocalOK([k EXCEPT !.n = x]) /\ [k EXCEPT !.n = x].o = k.o
                /\ LocalOK([k EXCEPT !.slFound = x]) /\ [k EXCEPT !.slFound = x].o = k.o
                /\ LocalOK([k EXCEPT !.tpFound = x, !.n = 1]) /\ [k EXCEPT !.tpFound = x, !.n = 1].o = k.o
BY DEF LocalOK, LocalFields, Idle

\* After the entry has filled.
LEMMA FillMoves ==
    ASSUME MonitorInv, FillSteps
    PROVE  Moves("poll", K.o) /\ K.o \in Objs /\ Taken(B)
<1> USE DEF Here, At, K
<1>1. K.pc # "idle"
  BY DEF FillSteps, FoundSl, FoundTp, PlacedSl, PlacedTp, VerifiedSl, ReplacedSl, VerifiedTp, ReplacedTp
<1>2. Works(K, B, K.o) /\ K.o \in Objs
  BY <1>1, PollWorks
<1>3. LocalOK(K) /\ Taken(B)
  BY <1>2 DEF Works
<1>4. \A x : Works(K, [B EXCEPT !.sl = x], K.o) /\ Works(K, [B EXCEPT !.tp = x], K.o)
  BY <1>3, FieldsTaken DEF Works
<1>5. CASE FoundSl
  <2> DEFINE k == [K EXCEPT !.slFound = Good]
             b == IF Good THEN [B EXCEPT !.sl = K.got] ELSE B
  <2>1. Works(k, b, K.o)
    BY <1>3, <1>4, LocalsOK DEF Works
  <2>2. Call(k, b, "f.tp", "find_tp", 0)
    BY <1>5 DEF FoundSl
  <2> QED
    BY <1>2, <1>3, <2>1, <2>2, AskMoves DEF Call
<1>6. CASE FoundTp
  <2> DEFINE k == [K EXCEPT !.tpFound = Good, !.n = 1]
             b == IF Good THEN [B EXCEPT !.tp = K.got] ELSE B
  <2>1. Works(k, b, K.o)
    BY <1>3, <1>4, LocalsOK DEF Works
  <2>2. PlaceTp(k, b) \/ Call(k, b, "f.stop", "stop", 0)
    BY <1>6 DEF FoundTp
  <2> HIDE DEF k, b
  <2> QED
    BY <1>2, <1>3, <2>1, <2>2, AskMoves, PlaceTpMoves DEF Call
<1>7. CASE PlacedSl
  <2>1. CASE PlaceTp(K, [B EXCEPT !.sl = K.got])
    BY <1>2, <1>3, <1>4, <2>1, PlaceTpMoves
  <2>2. CASE Call([K EXCEPT !.n = @ + 1], B, "f.stop", "stop", 0)
    BY <1>2, <1>3, <2>2, LocalsOK, AskMoves DEF Call, Works
  <2>3. CASE Leave(K, B, <<"market">>, "emergency")
    BY <1>2, <1>3, <2>3, UnwindMoves DEF Leave
  <2> QED
    BY <1>7, <2>1, <2>2, <2>3 DEF PlacedSl
<1>8. CASE PlacedTp
  BY <1>2, <1>3, <1>4, <1>8, CheckFillMoves DEF PlacedTp
<1>9. CASE VerifiedSl
  BY <1>2, <1>3, <1>9, VerifyTpMoves, AskMoves DEF VerifiedSl, Call
<1>10. CASE ReplacedSl
  BY <1>2, <1>3, <1>4, <1>10, VerifyTpMoves, UnwindMoves DEF ReplacedSl, Leave
<1>11. CASE VerifiedTp
  BY <1>2, <1>3, <1>4, <1>11, ActivateMoves, AskMoves DEF VerifiedTp, Call
<1>12. CASE ReplacedTp
  <2>1. Activate(K, [B EXCEPT !.tp = K.got]) \/ Activate(K, B)
    BY <1>12 DEF ReplacedTp
  <2> QED
    BY <1>2, <1>3, <1>4, <2>1, ActivateMoves
<1> QED
  BY <1>5, <1>6, <1>7, <1>8, <1>9, <1>10, <1>11, <1>12 DEF FillSteps

\* While the position is held.
LEMMA ActiveMoves ==
    ASSUME MonitorInv, ActiveSteps
    PROVE  Moves("poll", K.o) /\ K.o \in Objs /\ Taken(B)
<1> USE DEF Here, At, K
<1>1. K.pc # "idle"
  BY DEF ActiveSteps, AdoptedFetched, SlFetched, CancelledSl, RestoredSl, VanishedSl, RevivedSl, TpFetched,
         SlVerified, MissingSl, ReinstatedSl, GoneVerified, TrailTick, TrailStop, TrailCancel
<1>2. Works(K, B, K.o) /\ K.o \in Objs
  BY <1>1, PollWorks
<1>3. LocalOK(K) /\ Taken(B)
  BY <1>2 DEF Works
<1>4. \A x : /\ Works(K, [B EXCEPT !.fails = x], K.o) /\ Works(K, Moved(B, x), K.o)
            /\ Works(K, Stopped(B, x), K.o) /\ Works(K, AsEmergency(B, x), K.o)
            /\ Works(K, Marked(Moved(B, x)), K.o) /\ Works(K, Marked(B), K.o)
  BY <1>3, FieldsTaken DEF Works
<1>5. CASE AdoptedFetched
  BY <1>2, <1>3, <1>5, UnwindMoves, DoneMoves DEF AdoptedFetched, Leave, End
<1>6. CASE SlFetched
  <2>1. \/ Leave(K, B, <<"tp">>, "sl")
        \/ Call(K, B, "a.pos", "position", 0)
        \/ \E x : LET b == [B EXCEPT !.fails = x] IN Call(K, b, "v.pos", "position", 0) \/ CheckTp(K, b)
    BY <1>6 DEF SlFetched
  <2> QED
    BY <1>2, <1>3, <1>4, <2>1, UnwindMoves, AskMoves, CheckTpMoves DEF Leave, Call
<1>7. CASE CancelledSl
  BY <1>2, <1>3, <1>7, UnwindMoves, AskMoves DEF CancelledSl, Leave, Call
<1>8. CASE RestoredSl
  <2>1. End(Stopped(B, K.got)) \/ End(B)
    BY <1>8 DEF RestoredSl
  <2> QED
    BY <1>2, <1>3, <1>4, <2>1, DoneMoves DEF End
<1>9. CASE VanishedSl
  BY <1>2, <1>3, <1>9, UnwindMoves, AskMoves, DoneMoves DEF VanishedSl, Leave, Call, End
<1>10. CASE RevivedSl
  <2>1. End(Stopped(B, K.got)) \/ End(AsEmergency(B, 0))
    BY <1>10 DEF RevivedSl
  <2> QED
    BY <1>2, <1>3, <1>4, <2>1, DoneMoves DEF End
<1>11. CASE TpFetched
  BY <1>2, <1>3, <1>11, UnwindMoves, VerifyExistsMoves DEF TpFetched, Leave
<1>12. CASE SlVerified
  BY <1>2, <1>3, <1>12, TrailMoves, AskMoves DEF SlVerified, Call
<1>13. CASE MissingSl
  BY <1>2, <1>3, <1>13, CloseAndTrailMoves, TrailMoves, AskMoves DEF MissingSl, Call
<1>14. CASE ReinstatedSl
  <2>1. Trail(K, Stopped(B, K.got)) \/ Trail(K, B)
    BY <1>14 DEF ReinstatedSl
  <2> QED
    BY <1>2, <1>3, <1>4, <2>1, TrailMoves
<1>15. CASE GoneVerified
  BY <1>2, <1>3, <1>15, CloseAndTrailMoves DEF GoneVerified
<1>16. CASE TrailTick
  BY <1>2, <1>3, <1>16, AskMoves, DoneMoves DEF TrailTick, Call, End
<1>17. CASE TrailStop
  <2>1. \/ Trail(K, Marked(B)) \/ Trail(K, Marked(Moved(B, K.got)))
        \/ Call([K EXCEPT !.new = K.got], B, "trail.cancel", "cancel", B.sl)
    BY <1>17 DEF TrailStop
  <2>2. Works([K EXCEPT !.new = K.got], B, K.o)
    BY <1>3, LocalsOK DEF Works
  <2> QED
    BY <1>2, <1>3, <1>4, <2>1, <2>2, TrailMoves, AskMoves DEF Call
<1>18. CASE TrailCancel
  BY <1>2, <1>3, <1>4, <1>18, TrailMoves DEF TrailCancel
<1> QED
  BY <1>5, <1>6, <1>7, <1>8, <1>9, <1>10, <1>11, <1>12, <1>13, <1>14, <1>15, <1>16, <1>17, <1>18 DEF ActiveSteps

\* The rest of the poll loop, and what the coroutines share.
LEMMA PollKeeps ==
    ASSUME MonitorInv, PollSteps
    PROVE  MonitorInv'
<1> USE DEF Here, At, K
<1>1. CASE FillSteps
  BY <1>1, FillMoves, MovesKeep DEF Tasks, B
<1>2. CASE ActiveSteps
  BY <1>2, ActiveMoves, MovesKeep DEF Tasks, B
<1>3. CASE PendingFetched \/ EmergencyRetried
  <2>1. K.pc # "idle"
    BY <1>3 DEF PendingFetched, EmergencyRetried
  <2>2. Works(K, B, K.o) /\ K.o \in Objs
    BY <2>1, PollWorks
  <2>3. /\ Works(K, EntryFilled(B), K.o)
        /\ \A n, p : p # "new" => Works(K, [B EXCEPT !.retries = n, !.phase = p], K.o)
    BY <2>2, FieldsTaken DEF Works
  <2>4. ASSUME PendingFetched PROVE Moves("poll", K.o)
    <3>1. \/ Call(K, EntryFilled(B), "f.sl", "find_sl", 0) \/ Leave(K, B, <<>>, "cancelled") \/ End(B)
      BY <2>4 DEF PendingFetched
    <3> QED
      BY <2>2, <2>3, <3>1, AskMoves, UnwindMoves, DoneMoves DEF Call, Leave, End
  <2>5. ASSUME EmergencyRetried PROVE Moves("poll", K.o)
    <3>1. ASSUME Leave(K, B, <<>>, "emergency") PROVE Moves("poll", K.o)
      BY <2>2, <3>1, UnwindMoves DEF Leave
    <3>2. ASSUME NEW n, NEW p, p # "new", End([B EXCEPT !.retries = n, !.phase = p])
          PROVE  Moves("poll", K.o)
      BY <2>2, <2>3, <3>2, DoneMoves DEF End
    <3>3. B.phase # "new"
      BY <2>2 DEF Works, Taken
    <3>4. \/ Leave(K, B, <<>>, "emergency")
          \/ End([B EXCEPT !.retries = B.retries + 1, !.phase = "failed"])
          \/ End([B EXCEPT !.retries = B.retries + 1, !.phase = B.phase])
      BY <2>5 DEF EmergencyRetried
    <3> QED
      BY <3>1, <3>2, <3>3, <3>4
  <2> QED
    BY <1>3, <2>2, <2>4, <2>5, MovesKeep DEF Works, Tasks, B
<1> QED
  BY <1>1, <1>2, <1>3 DEF PollSteps

\* A coroutine that leaves a position.
LEMMA UnwindKeeps ==
    ASSUME MonitorInv, NEW t \in Tasks, Unwinding(t)
    PROVE  MonitorInv'
<1>1. task[t].pc = "unwind"
  BY DEF Unwinding, At
<1>2. t # "exec" /\ task[t].o \in Objs /\ Taken(obj[task[t].o]) /\ LocalOK(task[t])
  BY <1>1 DEF MonitorInv, Holds, Shapes
<1>3. Works(task[t], Obj(t), task[t].o) /\ Works(task[t], AsEmergency(Obj(t), 1), task[t].o)
  BY <1>2, FieldsTaken DEF Works, Obj
<1>4. Moves(t, task[t].o)
  BY <1>3, DoneMoves, UnwindMoves DEF Unwinding
<1> QED
  BY <1>2, <1>4, MovesKeep

\* Starting to work on the position the monitor manages.
LEMMA StartKeeps ==
    ASSUME MonitorInv, PollStart \/ PanicStart
    PROVE  MonitorInv'
<1>1. tracked # 0 /\ tracked \in Objs /\ Taken(obj[tracked])
  BY DEF PollStart, PanicStart, MonitorInv, Shapes, Objs
<1>2. Works([Idle EXCEPT !.o = tracked], obj[tracked], tracked)
  BY <1>1 DEF Works, LocalOK, LocalFields, Idle
<1>3. CASE PollStart
  <2>1. Moves("poll", tracked)
    BY <1>2, <1>3, UnwindMoves, AskMoves, CheckActiveMoves DEF PollStart, Leave, Call
  <2> QED
    BY <1>1, <2>1, MovesKeep DEF Tasks
<1>4. CASE PanicStart
  <2>1. Moves("panic", tracked)
    BY <1>2, <1>4, AskMoves DEF PanicStart
  <2> QED
    BY <1>1, <2>1, MovesKeep DEF Tasks
<1> QED
  BY <1>3, <1>4

\* The dashboard's cancel and the panic button.
LEMMA CommandsKeep ==
    ASSUME MonitorInv, HandleCancel \/ PanicReported
    PROVE  MonitorInv'
<1>1. CASE HandleCancel
  <2>1. task["cancel"].o \in Objs /\ Works(task["cancel"], Obj("cancel"), task["cancel"].o)
    BY <1>1 DEF HandleCancel, At, MonitorInv, Holds, Shapes, Tasks, Works, Obj
  <2>2. Moves("cancel", task["cancel"].o)
    BY <1>1, <2>1, UnwindMoves DEF HandleCancel
  <2> QED
    BY <2>1, <2>2, MovesKeep DEF Tasks, Works, Obj
<1>2. CASE PanicReported
  <2>1. task["panic"].o \in Objs /\ Works(task["panic"], Obj("panic"), task["panic"].o)
    BY <1>2 DEF PanicReported, At, MonitorInv, Holds, Shapes, Tasks, Works, Obj
  <2>2. Moves("panic", task["panic"].o)
    BY <1>2, <2>1, DoneMoves DEF PanicReported
  <2> QED
    BY <2>1, <2>2, MovesKeep DEF Tasks, Works, Obj
<1> QED
  BY <1>1, <1>2

-----------------------------------------------------------------------------
(* execute, and the steps that leave the objects alone.                    *)

\* A step that changes no object, and of the tasks at most what they are told.
LEMMA ToldKeeps ==
    ASSUME MonitorInv, UNCHANGED <<obj, tracked, rows>>,
           DOMAIN task' = Tasks, \A t \in Tasks : LocalOK(task'[t]) /\ Holds(t)'
    PROVE  MonitorInv'
BY DEF MonitorInv, Shapes, Counts, ManagedIsCounted

LEMMA ServeKeeps ==
    ASSUME MonitorInv, NEW t \in Tasks, Serve(t)
    PROVE  MonitorInv'
<1>1. /\ UNCHANGED <<obj, tracked, rows>>
      /\ \E res, got : task' = [task EXCEPT ![t].res = res, ![t].got = got]
  BY DEF Serve
<1>2. /\ DOMAIN task' = Tasks
      /\ \A u \in Tasks : LocalOK(task'[u]) /\ task'[u].pc = task[u].pc /\ task'[u].o = task[u].o
  BY <1>1 DEF MonitorInv, Shapes, LocalOK, LocalFields, Idle
<1>3. Unused' = Unused
  BY <1>1 DEF Unused
<1>4. \A u \in Tasks : Holds(u)'
  BY <1>1, <1>2, <1>3 DEF MonitorInv, Holds
<1> QED
  BY <1>1, <1>2, <1>4, ToldKeeps

LEMMA PollCancelKeeps ==
    ASSUME MonitorInv, PollCancel
    PROVE  MonitorInv'
<1>1. /\ UNCHANGED <<obj, tracked, rows>> /\ tracked # 0
      /\ task' = [task EXCEPT !["cancel"] = [Idle EXCEPT !.o = tracked, !.pc = "start"]]
  BY DEF PollCancel
<1>2. tracked \in Objs /\ Taken(obj[tracked])
  BY <1>1 DEF MonitorInv, Shapes, Objs
<1>3. LocalOK([Idle EXCEPT !.o = tracked, !.pc = "start"])
      /\ [Idle EXCEPT !.o = tracked, !.pc = "start"].o = tracked
  BY DEF LocalOK, LocalFields, Idle
<1>4. /\ DOMAIN task' = Tasks /\ \A u \in Tasks \ {"cancel"} : task'[u] = task[u]
      /\ LocalOK(task'["cancel"]) /\ task'["cancel"].o = tracked
  BY <1>1, <1>3 DEF MonitorInv, Shapes, Tasks
<1>5. Unused' = Unused
  BY <1>1 DEF Unused
<1>6. \A u \in Tasks : LocalOK(task'[u]) /\ Holds(u)'
  <2>1. ASSUME NEW u \in Tasks \ {"cancel"} PROVE LocalOK(task'[u]) /\ Holds(u)'
    BY <2>1, <1>1, <1>4, <1>5 DEF MonitorInv, Shapes, Holds
  <2>2. Holds("cancel")'
    BY <1>1, <1>2, <1>4 DEF Holds
  <2> QED
    BY <2>1, <2>2, <1>4
<1> QED
  BY <1>1, <1>4, <1>6, ToldKeeps

LEMMA ExecStartKeeps ==
    ASSUME MonitorInv, ExecStart
    PROVE  MonitorInv'
<1>0. Unused # {} /\ First(Unused) \in Unused
  BY FirstIsUnused DEF ExecStart
<1>1. DOMAIN task = Tasks /\ "exec" \in Tasks /\ DOMAIN obj = Objs
  BY DEF MonitorInv, Shapes, Tasks
<1>2. ASSUME NEW k, NEW b, NEW pc, NEW call, NEW arg, LocalOK(k), AskWith("exec", k, b, pc, call, arg)
      PROVE  /\ UNCHANGED <<tracked, rows>> /\ DOMAIN task' = Tasks
             /\ \A u \in Tasks \ {"exec"} : task'[u] = task[u]
             /\ LocalOK(task'["exec"]) /\ task'["exec"].o = k.o /\ task'["exec"].pc = pc
             /\ obj' = [obj EXCEPT ![k.o] = b]
  BY <1>1, <1>2 DEF AskWith, LocalOK, LocalFields, Idle
<1>3. /\ UNCHANGED <<tracked, rows>> /\ DOMAIN task' = Tasks
      /\ \A u \in Tasks \ {"exec"} : task'[u] = task[u]
      /\ LocalOK(task'["exec"])
      /\ \/ /\ obj' = [obj EXCEPT ![First(Unused)] = NoObj] /\ task'["exec"].pc = "n.place"
            /\ task'["exec"].o = First(Unused)
         \/ /\ DOMAIN obj' = Objs /\ \A p \in Objs : obj'[p] = obj[p]
            /\ tracked # 0 /\ task'["exec"].pc = "n.cancel" /\ task'["exec"].o = tracked
  <2> DEFINE k(x) == [Idle EXCEPT !.o = x]
  <2>1. \A x : LocalOK(k(x)) /\ k(x).o = x
    BY DEF LocalOK, LocalFields, Idle
  <2>2. \/ AskWith("exec", k(First(Unused)), NoObj, "n.place", "entry", 0)
        \/ tracked # 0 /\ AskWith("exec", k(tracked), obj[tracked], "n.cancel", "cancel", obj[tracked].entry)
    BY DEF ExecStart, PlaceEntry
  <2> HIDE DEF k
  <2>3. CASE AskWith("exec", k(First(Unused)), NoObj, "n.place", "entry", 0)
    BY <2>1, <2>3, <1>2
  <2>4. CASE tracked # 0 /\ AskWith("exec", k(tracked), obj[tracked], "n.cancel", "cancel", obj[tracked].entry)
    <3>1. obj' = [obj EXCEPT ![tracked] = obj[tracked]]
      BY <2>1, <2>4, <1>2
    <3>2. DOMAIN obj' = Objs /\ \A p \in Objs : obj'[p] = obj[p]
      BY <3>1, <1>1
    <3> QED
      BY <2>1, <2>4, <3>2, <1>2
  <2> QED
    BY <2>2, <2>3, <2>4
<1>4. /\ DOMAIN obj' = Objs /\ \A o \in Objs : DOMAIN obj'[o] = ObjFields
      /\ \A o \in Objs : Taken(obj[o]) => Taken(obj'[o])
      /\ Unused' = Unused
  BY <1>0, <1>3 DEF MonitorInv, Shapes, Taken, Unused, ObjFields, NoObj
<1>5. \A u \in Tasks : LocalOK(task'[u]) /\ Holds(u)'
  <2>1. ASSUME NEW u \in Tasks \ {"exec"} PROVE LocalOK(task'[u]) /\ Holds(u)'
    BY <2>1, <1>3, <1>4 DEF MonitorInv, Shapes, Holds
  <2>2. Holds("exec")'
    BY <1>0, <1>3, <1>4 DEF MonitorInv, Shapes, Holds, Objs
  <2> QED
    BY <2>1, <2>2, <1>3
<1> QED
  BY <1>3, <1>4, <1>5 DEF MonitorInv, Shapes, Counts, ManagedIsCounted, Objs

LEMMA ReplaceKeeps ==
    ASSUME MonitorInv, Replace
    PROVE  MonitorInv'
<1>1. task["exec"].pc = "n.cancel"
  BY DEF Replace, At
<1>2. /\ task["exec"].o \in Objs /\ Unused # {} /\ First(Unused) \in Unused
      /\ LocalOK(task["exec"])
  BY <1>1, FirstIsUnused DEF MonitorInv, Holds, Shapes, Tasks
<1>3. CASE Ok("exec")
  <2> DEFINE k == [Idle EXCEPT !.o = First(Unused), !.pc = "n.place", !.call = "entry", !.res = "wait"]
  <2>1. LocalOK(k) /\ k.o = First(Unused) /\ k.pc = "n.place"
    BY DEF LocalOK, LocalFields, Idle
  <2>2. UNCHANGED obj /\ tracked' = 0 /\ rows' = [rows EXCEPT ![task["exec"].o] = "none"]
        /\ task' = [task EXCEPT !["exec"] = k]
    BY <1>3 DEF Replace, Forget
  <2> HIDE DEF k
  <2>3. /\ DOMAIN task' = Tasks /\ task'["exec"] = k /\ \A u \in Tasks \ {"exec"} : task'[u] = task[u]
        /\ Unused' = Unused
    BY <2>2 DEF MonitorInv, Shapes, Tasks, Unused
  <2>4. \A u \in Tasks : LocalOK(task'[u]) /\ Holds(u)'
    BY <1>2, <2>1, <2>2, <2>3 DEF MonitorInv, Shapes, Holds
  <2>5. /\ 0 \in 0..MaxObjs /\ rows' \in [Objs -> {"none", "pending", "active"}]
        /\ MaxObjs = 1 => rows'[1] = "none"
    <3>1. MaxObjs \in Nat
      BY BoundsAssumption
    <3>2. rows' = [rows EXCEPT ![task["exec"].o] = "none"] /\ rows \in [Objs -> {"none", "pending", "active"}]
      BY <2>2 DEF MonitorInv, Shapes
    <3> QED
      BY <1>2, <3>1, <3>2 DEF Objs
  <2> QED
    BY <2>2, <2>3, <2>4, <2>5 DEF MonitorInv, Shapes, Counts, ManagedIsCounted
<1>4. CASE ~Ok("exec")
  <2>1. /\ UNCHANGED <<tracked, rows>> /\ task' = [task EXCEPT !["exec"] = Idle]
        /\ obj' = [obj EXCEPT ![task["exec"].o] = obj[task["exec"].o]]
    BY <1>4 DEF Replace, Done, FinishWith, Obj
  <2>2. DOMAIN obj' = Objs /\ \A p \in Objs : obj'[p] = obj[p]
    BY <1>2, <2>1 DEF MonitorInv, Shapes
  <2>3. /\ DOMAIN task' = Tasks /\ task'["exec"] = Idle /\ \A u \in Tasks \ {"exec"} : task'[u] = task[u]
        /\ Unused' = Unused
    BY <2>1, <2>2 DEF MonitorInv, Shapes, Tasks, Unused
  <2>4. \A u \in Tasks : LocalOK(task'[u]) /\ Holds(u)'
    BY <2>2, <2>3, IdleOK DEF MonitorInv, Shapes, Holds
  <2> QED
    BY <2>1, <2>2, <2>3, <2>4 DEF MonitorInv, Shapes, Counts, ManagedIsCounted, Objs
<1> QED
  BY <1>3, <1>4

\* The fresh object is registered, or given back.
LEMMA RegisterKeeps ==
    ASSUME MonitorInv, Register
    PROVE  MonitorInv'
<1> DEFINE o == task["exec"].o
           b == [NoObj EXCEPT !.phase = "pending", !.entry = task["exec"].got]
<1>1. task["exec"].pc = "n.place"
  BY DEF Register, At
<1>2. o \in Unused /\ o \in Objs
  BY <1>1 DEF MonitorInv, Holds, Unused, Tasks
<1>3. Taken(b)
  BY DEF Taken, ObjFields, NoObj
<1>4. task' = [task EXCEPT !["exec"] = Idle]
  BY DEF Register, Done, FinishWith
<1>5. /\ DOMAIN task' = Tasks /\ task'["exec"] = Idle /\ \A u \in Tasks \ {"exec"} : task'[u] = task[u]
  BY <1>4 DEF MonitorInv, Shapes, Tasks
<1>6. \/ /\ obj' = [obj EXCEPT ![o] = b] /\ tracked' = o /\ rows' = [rows EXCEPT ![o] = "pending"]
      \/ /\ obj' = [obj EXCEPT ![o] = NoObj] /\ UNCHANGED <<tracked, rows>>
  BY DEF Register, Done, FinishWith
<1> HIDE DEF o, b
<1>7. /\ DOMAIN obj' = Objs /\ \A p \in Objs : DOMAIN obj'[p] = ObjFields
      /\ \A p \in Objs : Taken(obj[p]) => Taken(obj'[p])
  BY <1>2, <1>3, <1>6 DEF MonitorInv, Shapes, Taken, Unused, ObjFields, NoObj
<1>8. \A u \in Tasks : LocalOK(task'[u]) /\ Holds(u)'
  BY <1>5, <1>7, IdleOK DEF MonitorInv, Shapes, Holds
<1>9. /\ tracked' \in 0..MaxObjs /\ (tracked' # 0 => Taken(obj'[tracked']))
      /\ rows' \in [Objs -> {"none", "pending", "active"}] /\ Counts'
  <2>1. CASE /\ obj' = [obj EXCEPT ![o] = b] /\ tracked' = o /\ rows' = [rows EXCEPT ![o] = "pending"]
    BY <1>2, <1>3, <2>1 DEF MonitorInv, Shapes, Counts, ManagedIsCounted, Objs
  <2>2. CASE UNCHANGED <<tracked, rows>>
    BY <1>7, <2>2 DEF MonitorInv, Shapes, Counts, ManagedIsCounted, Objs
  <2> QED
    BY <1>6, <2>1, <2>2
<1> QED
  BY <1>5, <1>7, <1>8, <1>9 DEF MonitorInv, Shapes

LEMMA ExpireKeeps ==
    ASSUME MonitorInv, NEW o \in Objs, Expire(o)
    PROVE  MonitorInv'
<1>1. UNCHANGED <<task, tracked, rows>> /\ obj' = [obj EXCEPT ![o].due = TRUE]
      /\ obj[o].phase \in {"pending", "active"}
  BY DEF Expire
<1>2. /\ DOMAIN obj' = Objs /\ \A p \in Objs : DOMAIN obj'[p] = ObjFields /\ obj'[p].phase = obj[p].phase
  BY <1>1 DEF MonitorInv, Shapes, ObjFields, NoObj
<1>3. Unused' = Unused /\ \A p \in Objs : Taken(obj'[p]) <=> Taken(obj[p])
  BY <1>2 DEF Unused, Taken, MonitorInv, Shapes
<1>4. \A u \in Tasks : Holds(u)'
  BY <1>1, <1>3 DEF MonitorInv, Holds
<1> QED
  BY <1>1, <1>2, <1>3, <1>4 DEF MonitorInv, Shapes, Counts, ManagedIsCounted, Taken, Objs

-----------------------------------------------------------------------------
LEMMA MonitorStarts == Init => MonitorInv
<1> SUFFICES ASSUME Init PROVE MonitorInv
  OBVIOUS
<1>1. /\ DOMAIN task = Tasks /\ \A t \in Tasks : LocalOK(task[t]) /\ task[t].pc = "idle"
  BY IdleOK DEF Init
<1>2. \A t \in Tasks : Holds(t)
  BY <1>1 DEF Holds
<1>3. MaxObjs \in Nat \ {0} /\ 1 \in Objs
  BY BoundsAssumption DEF Objs
<1>4. CASE obj = [o \in Objs |-> NoObj] /\ tracked = 0 /\ rows = [o \in Objs |-> "none"]
  BY <1>1, <1>2, <1>3, <1>4 DEF MonitorInv, Shapes, Counts, ManagedIsCounted, ObjFields
<1>5. CASE /\ obj = [[o \in Objs |-> NoObj] EXCEPT ![1].phase = "active", ![1].filled = TRUE]
           /\ tracked = 1 /\ rows = [[o \in Objs |-> "none"] EXCEPT ![1] = "active"]
  <2>1. /\ DOMAIN obj = Objs /\ \A o \in Objs : DOMAIN obj[o] = ObjFields
        /\ Taken(obj[1])
    BY <1>3, <1>5 DEF ObjFields, NoObj, Taken
  <2>2. rows \in [Objs -> {"none", "pending", "active"}] /\ rows[1] = "active"
    BY <1>3, <1>5
  <2> QED
    BY <1>1, <1>2, <1>3, <1>5, <2>1, <2>2 DEF MonitorInv, Shapes, Counts, ManagedIsCounted
<1> QED
  BY <1>4, <1>5 DEF Init

LEMMA MonitorStep == MonitorInv /\ [Next]_vars => MonitorInv'
<1> SUFFICES ASSUME MonitorInv, [Next]_vars PROVE MonitorInv'
  OBVIOUS
<1>1. ASSUME NEW t \in Tasks, Serve(t) PROVE MonitorInv'
  BY <1>1, ServeKeeps
<1>2. ASSUME NEW t \in Tasks, Resume(t) PROVE MonitorInv'
  BY <1>2, PollKeeps, UnwindKeeps, CommandsKeep, ReplaceKeeps, RegisterKeeps DEF Resume
<1>3. CASE PollStart \/ PanicStart
  BY <1>3, StartKeeps
<1>4. CASE PollCancel
  BY <1>4, PollCancelKeeps
<1>5. CASE ExecStart
  BY <1>5, ExecStartKeeps
<1>6. ASSUME NEW o \in Objs, Expire(o) PROVE MonitorInv'
  BY <1>6, ExpireKeeps
<1>7. CASE Exchange \/ UNCHANGED vars
  <2>1. UNCHANGED bot
    BY <1>7 DEF Exchange, EntryFills, ExitFills, UserActs, vars, bot
  <2> QED
    BY <2>1 DEF bot, MonitorInv, Shapes, Holds, Unused, Counts, ManagedIsCounted
<1> QED
  BY <1>1, <1>2, <1>3, <1>4, <1>5, <1>6, <1>7 DEF Next

-----------------------------------------------------------------------------
\* The position the monitor manages is counted by the Risk Service, however
\* many are replaced, cancelled and closed beside each other (monitor.py,
\* state_tracker.py): the cap on open positions never forgets one.
THEOREM ManagedCounted == Spec => []ManagedIsCounted
<1>1. MonitorInv => ManagedIsCounted
  BY DEF MonitorInv, Counts
<1> QED
  BY <1>1, MonitorStarts, MonitorStep, PTL DEF Spec

\* And with one position, the Risk Service counts exactly what the monitor
\* manages, whatever cancels, panics and failures there are (a second one can
\* be forgotten by the handler of the one it replaced).
THEOREM CountedExactly == MaxObjs = 1 => (Spec => []CountExact)
<1> SUFFICES ASSUME MaxObjs = 1 PROVE Spec => []CountExact
  OBVIOUS
<1>1. MonitorInv => CountExact
  BY DEF MonitorInv, Counts, ManagedIsCounted, Shapes, CountExact, Objs
<1> QED
  BY <1>1, MonitorStarts, MonitorStep, PTL DEF Spec

-----------------------------------------------------------------------------
(* The phases of a position, and where the poll loop is in them.           *)

FillPcs  == {"f.sl", "f.tp", "f.stop", "f.tp2", "f.verify", "f.restop", "f.vtp", "f.retp"}
HoldPcs  == {"a.adopt", "a.sl", "a.pos", "a.restop", "a.tp", "a.verify", "v.pos", "v.stop",
             "y.pos", "y.stop", "y.tp"}
TrailPcs == {"trail.tick", "trail.stop", "trail.cancel"}

LifeOf(b) == IF b.phase = "pending" /\ b.filled THEN "filled" ELSE b.phase

\* Where the poll loop works on a position, given what has become of it.
LifePlace(pc, why, b) ==
    \/ pc = "idle" /\ LifeOf(b) # "filled"
    \/ pc = "p.fetch" /\ LifeOf(b) = "pending"
    \/ pc \in FillPcs /\ LifeOf(b) = "filled"
    \/ pc \in HoldPcs /\ LifeOf(b) = "active"
    \/ pc \in TrailPcs /\ LifeOf(b) \in {"active", "closed"}
    \/ pc = "e.mkt" /\ LifeOf(b) = "emergency"
    \/ pc = "unwind" /\ why = "cancelled" /\ LifeOf(b) = "pending"
    \/ pc = "unwind" /\ why # "cancelled" /\ LifeOf(b) \in {"filled", "active", "emergency"}

Fresh == \A o \in Objs : obj[o].phase = "new" => obj[o] = NoObj

\* Without dashboard cancels, the poll loop alone moves a position on.
NoCancel == /\ used.cancels = 0 /\ DOMAIN used = {"faults", "cancels", "panics"}
            /\ task["cancel"].pc = "idle"
LifeInv ==
    /\ K.pc # "idle" => LifePlace(K.pc, K.why, B)
    /\ \A o \in Objs : LifeOf(obj[o]) = "filled" => K.pc # "idle" /\ K.o = o
    /\ Fresh /\ NoCancel
    /\ task["panic"].pc \in {"idle", "k.cancel", "k.mkt"}

\* What one step may do to a position.
LifeStep(b, c) ==
    \/ LifeOf(c) = LifeOf(b) /\ c.closes = b.closes
    \/ LifeOf(b) = "pending" /\ LifeOf(c) \in {"filled", "closed"} /\ c.closes = b.closes
    \/ LifeOf(b) = "filled" /\ LifeOf(c) \in {"active", "emergency"} /\ c.closes = b.closes
    \/ LifeOf(b) = "active" /\ LifeOf(c) = "emergency" /\ c.closes = b.closes
    \/ LifeOf(b) = "emergency" /\ LifeOf(c) = "failed" /\ c.closes = b.closes
    \/ LifeOf(b) \in {"filled", "active", "emergency"} /\ LifeOf(c) = "closed"
       /\ c.closes = b.closes + 1

LifeStays == [L!Next]_(L!lifeVars)
LifeKept  == LifeInv' /\ LifeStays

\* A step on one object is a step of the abstract specification, or none.
LEMMA LifeMoves ==
    ASSUME DOMAIN obj = Objs, NEW o \in Objs, NEW b, obj' = [obj EXCEPT ![o] = b],
           LifeStep(obj[o], b)
    PROVE  LifeStays
<1> DEFINE ll == [p \in Objs |-> IF obj[p].phase = "pending" /\ obj[p].filled THEN "filled"
                                 ELSE obj[p].phase]
           tt == [p \in Objs |-> obj[p].closes]
<1>1. /\ obj'[o] = b /\ \A p \in Objs \ {o} : obj'[p] = obj[p]
  OBVIOUS
<1>2. ll' = [ll EXCEPT ![o] = LifeOf(b)] /\ ll[o] = LifeOf(obj[o])
  BY <1>1 DEF LifeOf
<1>3. tt' = [tt EXCEPT ![o] = b.closes] /\ tt[o] = obj[o].closes
  BY <1>1
<1>4. ASSUME b.closes = obj[o].closes PROVE tt' = tt
  BY <1>1, <1>4
<1>5. CASE LifeOf(b) = LifeOf(obj[o]) /\ b.closes = obj[o].closes
  <2>1. ll' = ll
    BY <1>1, <1>5 DEF LifeOf
  <2> QED
    BY <2>1, <1>4, <1>5 DEF LifeStays, L!lifeVars
<1>6. CASE LifeOf(obj[o]) = "pending" /\ LifeOf(b) \in {"filled", "closed"} /\ b.closes = obj[o].closes
  <2>1. L!Fill(o) \/ L!CancelEntry(o)
    BY <1>2, <1>4, <1>6 DEF L!Fill, L!CancelEntry, L!Move
  <2> QED
    BY <2>1 DEF LifeStays, L!Next
<1>7. CASE LifeOf(obj[o]) = "filled" /\ LifeOf(b) \in {"active", "emergency"} /\ b.closes = obj[o].closes
  <2>1. L!Activate(o) \/ L!Endanger(o)
    BY <1>2, <1>4, <1>7 DEF L!Activate, L!Endanger, L!Move
  <2> QED
    BY <2>1 DEF LifeStays, L!Next
<1>8. CASE LifeOf(obj[o]) = "active" /\ LifeOf(b) = "emergency" /\ b.closes = obj[o].closes
  <2>1. L!Endanger(o)
    BY <1>2, <1>4, <1>8 DEF L!Endanger, L!Move
  <2> QED
    BY <2>1 DEF LifeStays, L!Next
<1>9. CASE LifeOf(obj[o]) = "emergency" /\ LifeOf(b) = "failed" /\ b.closes = obj[o].closes
  <2>1. L!GiveUp(o)
    BY <1>2, <1>4, <1>9 DEF L!GiveUp, L!Move
  <2> QED
    BY <2>1 DEF LifeStays, L!Next
<1>10. CASE LifeOf(obj[o]) \in {"filled", "active", "emergency"} /\ LifeOf(b) = "closed"
            /\ b.closes = obj[o].closes + 1
  <2>1. L!Close(o)
    BY <1>2, <1>3, <1>10 DEF L!Close, L!Move
  <2> QED
    BY <2>1 DEF LifeStays, L!Next
<1> QED
  BY <1>5, <1>6, <1>7, <1>8, <1>9, <1>10 DEF LifeStep

\* The poll loop works on object o, and nothing else happens.
AtWork(o) == /\ MonitorInv /\ LifeInv /\ o \in Objs /\ Taken(obj[o])
             /\ K.pc = "idle" \/ K.o = o
             /\ UNCHANGED used

LEMMA LifeGoes ==
    ASSUME NEW o, NEW b, NEW k, AtWork(o), Taken(b), k.pc = "idle" \/ k.o = o,
           obj' = [obj EXCEPT ![o] = b], task' = [task EXCEPT !["poll"] = k],
           LifeStep(obj[o], b), LifePlace(k.pc, k.why, b)
    PROVE  LifeKept
<1>1. /\ DOMAIN obj = Objs /\ o \in Objs /\ DOMAIN task = Tasks /\ "poll" \in Tasks
  BY DEF AtWork, MonitorInv, Shapes, Tasks
<1>2. /\ obj'[o] = b /\ \A p \in Objs \ {o} : obj'[p] = obj[p]
      /\ task'["poll"] = k /\ task'["cancel"] = task["cancel"] /\ task'["panic"] = task["panic"]
  BY <1>1
<1>3. LifeStays
  BY <1>1, LifeMoves
<1>4. K' = k /\ (k.pc # "idle" => B' = b)
  BY <1>1, <1>2 DEF K, B
<1>5. Fresh'
  BY <1>1, <1>2 DEF Fresh, AtWork, LifeInv, Taken
<1>6. NoCancel' /\ task'["panic"].pc \in {"idle", "k.cancel", "k.mkt"}
  BY <1>2 DEF NoCancel, AtWork, LifeInv
<1>7. \A p \in Objs : LifeOf(obj'[p]) = "filled" => k.pc # "idle" /\ k.o = p
  <2>1. ASSUME NEW p \in Objs \ {o} PROVE LifeOf(obj'[p]) # "filled"
    BY <1>2, <2>1 DEF AtWork, LifeInv
  <2>2. LifeOf(b) = "filled" => k.pc # "idle"
    BY DEF LifePlace, FillPcs
  <2> QED
    BY <1>2, <2>1, <2>2
<1>8. k.pc # "idle" => LifePlace(k.pc, k.why, b)
  OBVIOUS
<1>9. LifeInv'
  BY <1>4, <1>5, <1>6, <1>7, <1>8 DEF LifeInv
<1> QED
  BY <1>3, <1>9 DEF LifeKept

\* The ways to go on.
LEMMA LifeAsks ==
    ASSUME NEW o, NEW b, NEW k, NEW pc, NEW call, NEW arg, AtWork(o), Works(k, b, o),
           LifeStep(obj[o], b), LifePlace(pc, k.why, b), AskWith("poll", k, b, pc, call, arg)
    PROVE  LifeKept
<1> DEFINE k2 == [k EXCEPT !.pc = pc, !.call = call, !.arg = arg, !.res = "wait", !.got = 0]
<1>1. k2.pc = pc /\ k2.why = k.why /\ k2.o = o
  BY DEF Works, LocalOK, LocalFields, Idle
<1>2. obj' = [obj EXCEPT ![o] = b] /\ task' = [task EXCEPT !["poll"] = k2]
  BY DEF AskWith, Works
<1> HIDE DEF k2
<1> QED
  BY <1>1, <1>2, LifeGoes DEF Works

LEMMA LifeFinishes ==
    ASSUME NEW o, NEW b, NEW c, NEW k, AtWork(o), Works(k, c, o), Taken(b),
           LifeStep(obj[o], b), LifeOf(b) # "filled", FinishWith("poll", k, b)
    PROVE  LifeKept
<1>1. obj' = [obj EXCEPT ![o] = b] /\ task' = [task EXCEPT !["poll"] = Idle]
  BY DEF FinishWith, Works
<1>2. LifePlace(Idle.pc, Idle.why, b)
  BY IdleOK DEF LifePlace
<1> QED
  BY <1>1, <1>2, IdleOK, LifeGoes

LEMMA LifeActivates ==
    ASSUME NEW o, NEW b, NEW k, AtWork(o), Works(k, b, o), Activate(k, b),
           LifeOf(obj[o]) = "filled", b.closes = obj[o].closes
    PROVE  LifeKept
<1> DEFINE c == [b EXCEPT !.phase = "active"]
<1>1. Taken(c) /\ LifeOf(c) = "active" /\ c.closes = b.closes
  BY DEF Works, Taken, ObjFields, NoObj, LifeOf
<1>2. FinishWith("poll", k, c)
  BY DEF Activate
<1> HIDE DEF c
<1> QED
  BY <1>1, <1>2, LifeFinishes DEF LifeStep

\* Left under reason why: asking for another order to go, or closed.
Leaves(b, why) ==
    \/ why = "cancelled" /\ LifeOf(b) = "pending"
    \/ why # "cancelled" /\ LifeOf(b) \in {"filled", "active", "emergency"}

LEMMA ClosedLife ==
    ASSUME NEW b, NEW c, NEW why, Taken(c), Leaves(b, why), c.closes = b.closes
    PROVE  LifeStep(b, AsClosed(c, why)) /\ LifeOf(AsClosed(c, why)) = "closed"
<1> DEFINE d == AsClosed(c, why)
<1>1. d.phase = "closed" /\ d.closes = IF why = "cancelled" THEN c.closes ELSE c.closes + 1
  BY DEF AsClosed, Taken, ObjFields, NoObj
<1> HIDE DEF d
<1>2. LifeOf(d) = "closed"
  BY <1>1 DEF LifeOf
<1>3. LifeStep(b, d)
  BY <1>1, <1>2 DEF LifeStep, Leaves
<1> QED
  BY <1>2, <1>3 DEF d

LEMMA LifeLeaves ==
    ASSUME NEW o, NEW b, NEW k, NEW todo, NEW why, AtWork(o), Works(k, b, o), Leaves(obj[o], why),
           LifeOf(b) = LifeOf(obj[o]), b.closes = obj[o].closes, Unwind("poll", k, b, todo, why)
    PROVE  LifeKept
<1> DEFINE rest == SelectSeq(todo, LAMBDA c : Wanted(b, c))
           k2   == [k EXCEPT !.todo = Tail(rest), !.why = why]
<1>1. Works(k2, b, o) /\ k2.why = why
  BY DEF Works, LocalOK, LocalFields, Idle
<1>2. \/ FinishWith("poll", k, AsClosed(b, why))
      \/ AskWith("poll", k2, b, "unwind", "market", 0)
      \/ AskWith("poll", k2, b, "unwind", "cancel", b[Head(rest)])
  BY DEF Unwind
<1> HIDE DEF k2, rest
<1>3. CASE FinishWith("poll", k, AsClosed(b, why))
  <2>1. LifeStep(obj[o], AsClosed(b, why)) /\ LifeOf(AsClosed(b, why)) = "closed"
    BY ClosedLife DEF Works
  <2>2. Taken(AsClosed(b, why))
    BY ClosedIsTaken DEF Works
  <2> QED
    BY <1>3, <2>1, <2>2, LifeFinishes
<1>4. LifePlace("unwind", why, b) /\ LifeStep(obj[o], b)
  BY DEF LifePlace, LifeStep, Leaves
<1> QED
  BY <1>1, <1>2, <1>3, <1>4, LifeAsks

-----------------------------------------------------------------------------
(* While the entry is being taken over.                                    *)

\* The position at work is entered and not yet held; its object is b by now.
Entering(o, k, b) == /\ AtWork(o) /\ Works(k, b, o)
                     /\ LifeOf(obj[o]) = "filled"
                     /\ LifeOf(b) = "filled" /\ b.closes = obj[o].closes

LEMMA EnteringAsks ==
    ASSUME NEW o, NEW b, NEW k, NEW pc, NEW call, NEW arg, Entering(o, k, b), pc \in FillPcs,
           Call(k, b, pc, call, arg)
    PROVE  LifeKept
<1>1. LifePlace(pc, k.why, b) /\ LifeStep(obj[o], b)
  BY DEF Entering, LifePlace, LifeStep
<1> QED
  BY <1>1, LifeAsks DEF Entering, Call

LEMMA EnteringActivates ==
    ASSUME NEW o, NEW b, NEW k, Entering(o, k, b), Activate(k, b)
    PROVE  LifeKept
BY LifeActivates DEF Entering

LEMMA EnteringLeaves ==
    ASSUME NEW o, NEW b, NEW k, NEW todo, NEW why, Entering(o, k, b), why # "cancelled",
           Leave(k, b, todo, why)
    PROVE  LifeKept
BY LifeLeaves DEF Entering, Leave, Leaves

LEMMA EnteringVerifiesTp ==
    ASSUME NEW o, NEW b, NEW k, Entering(o, k, b), VerifyTp(k, b)
    PROVE  LifeKept
BY EnteringAsks, EnteringActivates DEF VerifyTp, FillPcs

LEMMA EnteringPlacesTp ==
    ASSUME NEW o, NEW b, NEW k, Entering(o, k, b), PlaceTp(k, b) \/ CheckFill(k, b)
    PROVE  LifeKept
<1>1. \/ Call(k, b, "f.tp2", "tp", 0) \/ Call(k, b, "f.verify", "has_sl", b.sl)
      \/ VerifyTp(k, b) \/ Leave(k, b, Exits, "bad_fill")
  BY DEF PlaceTp, CheckFill, VerifySl
<1> QED
  BY <1>1, EnteringAsks, EnteringVerifiesTp, EnteringLeaves DEF FillPcs

\* Naming an order leaves the position where it is.
LEMMA EnteringNames ==
    ASSUME NEW o, NEW b, NEW k, NEW x, Entering(o, k, b)
    PROVE  Entering(o, k, [b EXCEPT !.sl = x]) /\ Entering(o, k, [b EXCEPT !.tp = x])
<1>1. Taken(b) /\ LocalOK(k) /\ k.o = o
  BY DEF Entering, Works
<1>2. /\ Taken([b EXCEPT !.sl = x]) /\ LifeOf([b EXCEPT !.sl = x]) = LifeOf(b)
      /\ [b EXCEPT !.sl = x].closes = b.closes
  BY <1>1 DEF Taken, ObjFields, NoObj, LifeOf
<1>3. /\ Taken([b EXCEPT !.tp = x]) /\ LifeOf([b EXCEPT !.tp = x]) = LifeOf(b)
      /\ [b EXCEPT !.tp = x].closes = b.closes
  BY <1>1 DEF Taken, ObjFields, NoObj, LifeOf
<1> QED
  BY <1>1, <1>2, <1>3 DEF Entering, Works

LEMMA LifeFills ==
    ASSUME MonitorInv, LifeInv, FillSteps, UNCHANGED used
    PROVE  LifeKept
<1>1. K.pc \in FillPcs
  BY DEF FillSteps, FoundSl, FoundTp, PlacedSl, PlacedTp, VerifiedSl, ReplacedSl, VerifiedTp, ReplacedTp, Here, At, K, FillPcs
<1>2. Works(K, B, K.o) /\ K.o \in Objs /\ LifeOf(B) = "filled"
  BY <1>1, PollWorks DEF LifeInv, LifePlace, FillPcs, HoldPcs, TrailPcs
<1>3. LocalOK(K) /\ Taken(B)
  BY <1>2 DEF Works
<1>4. \A k, b : Works(k, b, K.o) /\ LifeOf(b) = "filled" /\ b.closes = B.closes => Entering(K.o, k, b)
  BY <1>2, <1>3 DEF Entering, AtWork, B
<1>5. Entering(K.o, K, B)
  BY <1>2, <1>4
<1>6. /\ \A x, k : Entering(K.o, k, B) => Entering(K.o, k, [B EXCEPT !.sl = x])
      /\ \A x, k : Entering(K.o, k, B) => Entering(K.o, k, [B EXCEPT !.tp = x])
  BY EnteringNames
<1>20. \A k : Works(k, B, K.o) => Entering(K.o, k, B)
  BY <1>2, <1>4
<1>7. \A x : /\ Works([K EXCEPT !.slFound = x], B, K.o) /\ Works([K EXCEPT !.n = x], B, K.o)
            /\ Works([K EXCEPT !.tpFound = x, !.n = 1], B, K.o)
  BY <1>2, <1>3, LocalsOK DEF Works
<1>8. CASE FoundSl
  <2> DEFINE k == [K EXCEPT !.slFound = Good]
             b == IF Good THEN [B EXCEPT !.sl = K.got] ELSE B
  <2>1. Call(k, b, "f.tp", "find_tp", 0)
    BY <1>8 DEF FoundSl
  <2>3. Works(k, B, K.o)
    BY <1>7
  <2>4. Entering(K.o, k, B)
    BY <2>3, <1>20
  <2>2. Entering(K.o, k, b)
    <3> HIDE DEF k
    <3>1. Entering(K.o, k, [B EXCEPT !.sl = K.got])
      BY <2>4, <1>6
    <3> QED
      BY <2>4, <3>1
  <2> HIDE DEF k, b
  <2> QED
    BY <2>1, <2>2, EnteringAsks DEF FillPcs
<1>9. CASE FoundTp
  <2> DEFINE k == [K EXCEPT !.tpFound = Good, !.n = 1]
             b == IF Good THEN [B EXCEPT !.tp = K.got] ELSE B
  <2>1. PlaceTp(k, b) \/ Call(k, b, "f.stop", "stop", 0)
    BY <1>9 DEF FoundTp
  <2>3. Works(k, B, K.o)
    BY <1>7
  <2>4. Entering(K.o, k, B)
    BY <2>3, <1>20
  <2>2. Entering(K.o, k, b)
    <3> HIDE DEF k
    <3>1. Entering(K.o, k, [B EXCEPT !.tp = K.got])
      BY <2>4, <1>6
    <3> QED
      BY <2>4, <3>1
  <2> HIDE DEF k, b
  <2> QED
    BY <2>1, <2>2, EnteringAsks, EnteringPlacesTp DEF FillPcs
<1>10. CASE PlacedSl
  <2>1. \/ PlaceTp(K, [B EXCEPT !.sl = K.got])
        \/ Call([K EXCEPT !.n = @ + 1], B, "f.stop", "stop", 0)
        \/ Leave(K, B, <<"market">>, "emergency")
    BY <1>10 DEF PlacedSl
  <2>3. Works([K EXCEPT !.n = @ + 1], B, K.o)
    BY <1>7
  <2>4. Entering(K.o, K, [B EXCEPT !.sl = K.got])
    BY <1>5, <1>6
  <2>2. Entering(K.o, [K EXCEPT !.n = @ + 1], B)
    BY <2>3, <1>20
  <2> QED
    BY <1>5, <2>1, <2>2, <2>4, EnteringAsks, EnteringPlacesTp, EnteringLeaves DEF FillPcs
<1>11. CASE PlacedTp
  BY <1>5, <1>6, <1>11, EnteringPlacesTp DEF PlacedTp
<1>12. CASE VerifiedSl
  BY <1>5, <1>12, EnteringVerifiesTp, EnteringAsks DEF VerifiedSl, FillPcs
<1>13. CASE ReplacedSl
  BY <1>5, <1>6, <1>13, EnteringVerifiesTp, EnteringLeaves DEF ReplacedSl
<1>14. CASE VerifiedTp
  BY <1>5, <1>6, <1>14, EnteringActivates, EnteringAsks DEF VerifiedTp, FillPcs
<1>15. CASE ReplacedTp
  <2>1. Activate(K, [B EXCEPT !.tp = K.got]) \/ Activate(K, B)
    BY <1>15 DEF ReplacedTp
  <2> QED
    BY <1>5, <1>6, <2>1, EnteringActivates
<1> QED
  BY <1>8, <1>9, <1>10, <1>11, <1>12, <1>13, <1>14, <1>15 DEF FillSteps

-----------------------------------------------------------------------------
(* While the position is held.                                             *)

\* The position at work is held, or was just closed; its object is b by now.
Holding(o, k, b) == /\ AtWork(o) /\ Works(k, b, o)
                    /\ LifeOf(obj[o]) \in {"active", "closed"}
                    /\ LifeOf(b) = LifeOf(obj[o]) /\ b.closes = obj[o].closes

LEMMA HoldingEnds ==
    ASSUME NEW o, NEW b, NEW k, Holding(o, k, b), Done("poll", k, b)
    PROVE  LifeKept
<1>1. LifeStep(obj[o], b) /\ LifeOf(b) # "filled" /\ Taken(b)
  BY DEF Holding, LifeStep, Works
<1> QED
  BY <1>1, LifeFinishes DEF Holding, Done

LEMMA HoldingAsks ==
    ASSUME NEW o, NEW b, NEW k, NEW pc, NEW call, NEW arg, Holding(o, k, b),
           pc \in TrailPcs \/ (pc \in HoldPcs /\ LifeOf(b) = "active"), Call(k, b, pc, call, arg)
    PROVE  LifeKept
<1>1. LifePlace(pc, k.why, b) /\ LifeStep(obj[o], b)
  BY DEF Holding, LifePlace, LifeStep
<1> QED
  BY <1>1, LifeAsks DEF Holding, Call

LEMMA HoldingLeaves ==
    ASSUME NEW o, NEW b, NEW k, NEW todo, NEW why, Holding(o, k, b), LifeOf(b) = "active",
           why # "cancelled", Leave(k, b, todo, why)
    PROVE  LifeKept
BY LifeLeaves DEF Holding, Leave, Leaves

LEMMA HoldingTrails ==
    ASSUME NEW o, NEW b, NEW k, Holding(o, k, b), Trail(k, b)
    PROVE  LifeKept
BY HoldingEnds, HoldingAsks DEF Trail, TrailPcs

LEMMA HoldingChecks ==
    ASSUME NEW o, NEW b, NEW k, Holding(o, k, b), LifeOf(b) = "active",
           CheckTp(k, b) \/ VerifyExists(k, b)
    PROVE  LifeKept
<1>1. \/ Call(k, b, "a.tp", "fetch", b.tp) \/ Call(k, b, "a.verify", "has_sl", b.sl) \/ Trail(k, b)
  BY DEF CheckTp, VerifyExists
<1> QED
  BY <1>1, HoldingTrails, HoldingAsks DEF HoldPcs

\* The parts of a held object that its handlers change are not about its phase.
LEMMA HoldingParts ==
    ASSUME NEW o, NEW b, NEW k, Holding(o, k, b)
    PROVE  /\ \A x : Holding(o, k, [b EXCEPT !.fails = x])
           /\ \A x : Holding(o, k, Stopped(b, x))
           /\ \A x : Holding(o, k, Moved(b, x))
           /\ Holding(o, k, Marked(b))
<1>1. Taken(b) /\ LocalOK(k) /\ k.o = o
  BY DEF Holding, Works
<1>2. \A c : Taken(c) /\ c.phase = b.phase /\ c.filled = b.filled /\ c.closes = b.closes => Holding(o, k, c)
  BY <1>1 DEF Holding, Works, LifeOf
<1>3. \A x : LET c == [b EXCEPT !.fails = x]
            IN  Taken(c) /\ c.phase = b.phase /\ c.filled = b.filled /\ c.closes = b.closes
  BY <1>1 DEF Taken, ObjFields, NoObj
<1>4. \A x : LET c == Stopped(b, x)
            IN  Taken(c) /\ c.phase = b.phase /\ c.filled = b.filled /\ c.closes = b.closes
  BY <1>1 DEF Taken, ObjFields, NoObj, Stopped
<1>5. \A x : LET c == Moved(b, x)
            IN  Taken(c) /\ c.phase = b.phase /\ c.filled = b.filled /\ c.closes = b.closes
  BY <1>1 DEF Taken, ObjFields, NoObj, Moved
<1>6. LET c == Marked(b)
      IN  Taken(c) /\ c.phase = b.phase /\ c.filled = b.filled /\ c.closes = b.closes
  BY <1>1 DEF Taken, ObjFields, NoObj, Marked
<1> QED
  BY <1>2, <1>3, <1>4, <1>5, <1>6

\* What a failed close leaves is an emergency, from any phase that is held.
LEMMA EmergencyLife ==
    ASSUME NEW b, NEW n, Taken(b)
    PROVE  /\ Taken(AsEmergency(b, n)) /\ LifeOf(AsEmergency(b, n)) = "emergency"
           /\ LifeOf(b) \in {"filled", "active", "emergency"} => LifeStep(b, AsEmergency(b, n))
<1> DEFINE c == AsEmergency(b, n)
<1>1. Taken(c) /\ c.phase = "emergency" /\ c.closes = b.closes
  BY DEF AsEmergency, Taken, ObjFields, NoObj
<1> HIDE DEF c
<1>2. LifeOf(c) = "emergency"
  BY <1>1 DEF LifeOf
<1>3. LifeOf(b) \in {"filled", "active", "emergency"} => LifeStep(b, c)
  BY <1>1, <1>2 DEF LifeStep
<1> QED
  BY <1>1, <1>2, <1>3 DEF c

LEMMA ClosingTrails ==
    ASSUME Holding(K.o, K, B), LifeOf(B) = "active", CloseAndTrail
    PROVE  LifeKept
<1> DEFINE b == AsClosed(B, "sl")
           k == [K EXCEPT !.pc = "trail.tick", !.call = "ticker", !.arg = 0, !.res = "wait", !.got = 0]
<1>1. Taken(b) /\ LifeStep(B, b) /\ LifeOf(b) = "closed"
  BY ClosedIsTaken, ClosedLife DEF Holding, Works, Leaves
<1>2. k.pc = "trail.tick" /\ k.o = K.o /\ k.why = K.why
  BY DEF Holding, Works, LocalOK, LocalFields, Idle
<1>3. obj' = [obj EXCEPT ![K.o] = b]
      /\ (task' = [task EXCEPT !["poll"] = k] \/ task' = [task EXCEPT !["poll"] = Idle])
  BY DEF CloseAndTrail
<1> HIDE DEF b, k
<1>4. LifePlace(k.pc, k.why, b) /\ LifePlace(Idle.pc, Idle.why, b)
  BY <1>1, <1>2, IdleOK DEF LifePlace, TrailPcs
<1>5. AtWork(K.o)
  BY DEF Holding
<1>6. LifeStep(obj[K.o], b)
  BY <1>1 DEF B
<1>7. CASE task' = [task EXCEPT !["poll"] = k]
  BY <1>1, <1>2, <1>3, <1>4, <1>5, <1>6, <1>7, LifeGoes
<1>8. CASE task' = [task EXCEPT !["poll"] = Idle]
  BY <1>1, <1>3, <1>4, <1>5, <1>6, <1>8, IdleOK, LifeGoes
<1> QED
  BY <1>3, <1>7, <1>8

LEMMA LifeHolds ==
    ASSUME MonitorInv, LifeInv, ActiveSteps, UNCHANGED used
    PROVE  LifeKept
<1>1. K.pc \in HoldPcs \cup TrailPcs
  BY DEF ActiveSteps, AdoptedFetched, SlFetched, CancelledSl, RestoredSl, VanishedSl, RevivedSl, TpFetched,
         SlVerified, MissingSl, ReinstatedSl, GoneVerified, TrailTick, TrailStop, TrailCancel,
         Here, At, K, HoldPcs, TrailPcs
<1>2. /\ Works(K, B, K.o) /\ K.o \in Objs /\ LifeOf(B) \in {"active", "closed"}
      /\ K.pc \in HoldPcs => LifeOf(B) = "active"
  BY <1>1, PollWorks DEF LifeInv, LifePlace, FillPcs, HoldPcs, TrailPcs
<1>3. LocalOK(K) /\ Taken(B)
  BY <1>2 DEF Works
<1>4. Holding(K.o, K, B)
  BY <1>2, <1>3 DEF Holding, AtWork, B
<1>5. /\ \A x : Holding(K.o, K, [B EXCEPT !.fails = x])
      /\ \A x : Holding(K.o, K, Stopped(B, x))
      /\ \A x : Holding(K.o, K, Marked(Moved(B, x)))
      /\ Holding(K.o, K, Marked(B))
  BY <1>4, HoldingParts
<1>6. LifeOf(B) = "active" => \A x : LifeOf([B EXCEPT !.fails = x]) = "active"
  BY <1>4, <1>5 DEF Holding
<1>7. CASE AdoptedFetched
  <2>1. LifeOf(B) = "active" /\ (Leave(K, B, <<>>, "manual_close") \/ End(B))
    BY <1>2, <1>7 DEF AdoptedFetched, Here, At, HoldPcs, K
  <2> QED
    BY <1>4, <2>1, HoldingLeaves, HoldingEnds DEF End
<1>8. CASE SlFetched
  <2>1. /\ LifeOf(B) = "active"
        /\ \/ Leave(K, B, <<"tp">>, "sl") \/ Call(K, B, "a.pos", "position", 0)
           \/ \E x : \/ Call(K, [B EXCEPT !.fails = x], "v.pos", "position", 0)
                    \/ CheckTp(K, [B EXCEPT !.fails = x])
    BY <1>2, <1>8 DEF SlFetched, Here, At, HoldPcs, K
  <2> QED
    BY <1>4, <1>5, <1>6, <2>1, HoldingLeaves, HoldingAsks, HoldingChecks DEF HoldPcs
<1>9. CASE CancelledSl
  <2>1. /\ LifeOf(B) = "active"
        /\ Leave(K, B, <<"tp">>, "manual_close") \/ Call(K, B, "a.restop", "stop", B.level)
    BY <1>2, <1>9 DEF CancelledSl, Here, At, HoldPcs, K
  <2> QED
    BY <1>4, <2>1, HoldingLeaves, HoldingAsks DEF HoldPcs
<1>10. CASE RestoredSl
  <2>1. End(Stopped(B, K.got)) \/ End(B)
    BY <1>10 DEF RestoredSl
  <2> QED
    BY <1>4, <1>5, <2>1, HoldingEnds DEF End
<1>11. CASE VanishedSl
  <2>1. /\ LifeOf(B) = "active"
        /\ Leave(K, B, <<"tp">>, "sl") \/ Call(K, B, "v.stop", "stop", B.level) \/ End(B)
    BY <1>2, <1>11 DEF VanishedSl, Here, At, HoldPcs, K
  <2> QED
    BY <1>4, <2>1, HoldingLeaves, HoldingAsks, HoldingEnds DEF HoldPcs, End
<1>12. CASE RevivedSl
  <2>1. LifeOf(B) = "active" /\ (End(Stopped(B, K.got)) \/ End(AsEmergency(B, 0)))
    BY <1>2, <1>12 DEF RevivedSl, Here, At, HoldPcs, K
  <2>2. ASSUME End(AsEmergency(B, 0)) PROVE LifeKept
    <3>1. /\ Taken(AsEmergency(B, 0)) /\ LifeStep(B, AsEmergency(B, 0))
          /\ LifeOf(AsEmergency(B, 0)) # "filled"
      BY <1>3, <2>1, EmergencyLife
    <3>2. LifeStep(obj[K.o], AsEmergency(B, 0))
      BY <3>1 DEF B
    <3> QED
      BY <1>2, <1>4, <2>2, <3>1, <3>2, LifeFinishes DEF End, Done, Holding
  <2> QED
    BY <1>4, <1>5, <2>1, <2>2, HoldingEnds DEF End
<1>13. CASE TpFetched
  <2>1. LifeOf(B) = "active" /\ (Leave(K, B, <<"sl">>, "tp") \/ VerifyExists(K, B))
    BY <1>2, <1>13 DEF TpFetched, Here, At, HoldPcs, K
  <2> QED
    BY <1>4, <2>1, HoldingLeaves, HoldingChecks
<1>14. CASE SlVerified
  <2>1. LifeOf(B) = "active" /\ (Trail(K, B) \/ Call(K, B, "y.pos", "position", 0))
    BY <1>2, <1>14 DEF SlVerified, Here, At, HoldPcs, K
  <2> QED
    BY <1>4, <2>1, HoldingTrails, HoldingAsks DEF HoldPcs
<1>15. CASE MissingSl
  <2>1. /\ LifeOf(B) = "active"
        /\ \/ Call(K, B, "y.stop", "stop", B.level) \/ CloseAndTrail
           \/ Call(K, B, "y.tp", "cancel", B.tp) \/ Trail(K, B)
    BY <1>2, <1>15 DEF MissingSl, Here, At, HoldPcs, K
  <2> QED
    BY <1>4, <2>1, ClosingTrails, HoldingTrails, HoldingAsks DEF HoldPcs
<1>16. CASE ReinstatedSl
  <2>1. Trail(K, Stopped(B, K.got)) \/ Trail(K, B)
    BY <1>16 DEF ReinstatedSl
  <2> QED
    BY <1>4, <1>5, <2>1, HoldingTrails
<1>17. CASE GoneVerified
  <2>1. LifeOf(B) = "active" /\ CloseAndTrail
    BY <1>2, <1>17 DEF GoneVerified, Here, At, HoldPcs, K
  <2> QED
    BY <1>4, <2>1, ClosingTrails
<1>18. CASE TrailTick
  <2>1. Call(K, B, "trail.stop", "stop", Target(B)) \/ End(B)
    BY <1>18 DEF TrailTick
  <2> QED
    BY <1>4, <2>1, HoldingAsks, HoldingEnds DEF TrailPcs, End
<1>19. CASE TrailStop
  <2>1. \/ Trail(K, Marked(B)) \/ Trail(K, Marked(Moved(B, K.got)))
        \/ Call([K EXCEPT !.new = K.got], B, "trail.cancel", "cancel", B.sl)
    BY <1>19 DEF TrailStop
  <2>2. ASSUME NEW x PROVE Holding(K.o, [K EXCEPT !.new = x], B)
    <3>1. Works([K EXCEPT !.new = x], B, K.o)
      BY <1>3, LocalsOK DEF Works
    <3> QED
      BY <1>4, <3>1 DEF Holding
  <2> QED
    BY <1>4, <1>5, <2>1, <2>2, HoldingTrails, HoldingAsks DEF TrailPcs
<1>20. CASE TrailCancel
  BY <1>4, <1>5, <1>20, HoldingTrails DEF TrailCancel
<1> QED
  BY <1>7, <1>8, <1>9, <1>10, <1>11, <1>12, <1>13, <1>14, <1>15, <1>16, <1>17, <1>18, <1>19, <1>20
  DEF ActiveSteps

-----------------------------------------------------------------------------
(* The rest of the poll loop, and the other coroutines.                    *)

LEMMA LifePends ==
    ASSUME MonitorInv, LifeInv, PendingFetched, UNCHANGED used
    PROVE  LifeKept
<1>1. K.pc = "p.fetch"
  BY DEF PendingFetched, Here, At, K
<1>2. Works(K, B, K.o) /\ K.o \in Objs /\ LifeOf(B) = "pending"
  BY <1>1, PollWorks DEF LifeInv, LifePlace, FillPcs, HoldPcs, TrailPcs
<1>3. AtWork(K.o) /\ Taken(B) /\ B = obj[K.o]
  BY <1>2 DEF AtWork, Works, B
<1>4. \/ Call(K, EntryFilled(B), "f.sl", "find_sl", 0) \/ Leave(K, B, <<>>, "cancelled") \/ End(B)
  BY DEF PendingFetched
<1>5. CASE Call(K, EntryFilled(B), "f.sl", "find_sl", 0)
  <2> DEFINE b == EntryFilled(B)
  <2>1. Taken(b) /\ b.phase = B.phase /\ b.filled = TRUE /\ b.closes = B.closes
    BY <1>3 DEF EntryFilled, Taken, ObjFields, NoObj
  <2> HIDE DEF b
  <2>2. LifeOf(b) = "filled"
    BY <1>2, <2>1 DEF LifeOf
  <2>3. Works(K, b, K.o) /\ LifeStep(B, b) /\ LifePlace("f.sl", K.why, b)
    BY <1>2, <2>1, <2>2 DEF Works, LifeStep, LifePlace, FillPcs
  <2> QED
    BY <1>3, <1>5, <2>3, LifeAsks DEF Call, b
<1>6. CASE Leave(K, B, <<>>, "cancelled")
  BY <1>2, <1>3, <1>6, LifeLeaves DEF Leave, Leaves
<1>7. CASE End(B)
  BY <1>2, <1>3, <1>7, LifeFinishes DEF End, Done, LifeStep
<1> QED
  BY <1>4, <1>5, <1>6, <1>7

LEMMA LifeRetries ==
    ASSUME MonitorInv, LifeInv, EmergencyRetried, UNCHANGED used
    PROVE  LifeKept
<1>1. K.pc = "e.mkt"
  BY DEF EmergencyRetried, Here, At, K
<1>2. Works(K, B, K.o) /\ K.o \in Objs /\ LifeOf(B) = "emergency"
  BY <1>1, PollWorks DEF LifeInv, LifePlace, FillPcs, HoldPcs, TrailPcs
<1>3. AtWork(K.o) /\ Taken(B) /\ B = obj[K.o] /\ B.phase = "emergency"
  BY <1>2 DEF AtWork, Works, B, LifeOf
<1>4. CASE Leave(K, B, <<>>, "emergency")
  BY <1>2, <1>3, <1>4, LifeLeaves DEF Leave, Leaves
<1>5. ASSUME NEW n, NEW p, p \in {"failed", "emergency"}, End([B EXCEPT !.retries = n, !.phase = p])
      PROVE  LifeKept
  <2> DEFINE b == [B EXCEPT !.retries = n, !.phase = p]
  <2>1. Taken(b) /\ b.phase = p /\ b.closes = B.closes
    BY <1>3, <1>5 DEF Taken, ObjFields, NoObj
  <2> HIDE DEF b
  <2>2. LifeStep(B, b) /\ LifeOf(b) # "filled"
    BY <1>2, <1>5, <2>1 DEF LifeStep, LifeOf
  <2> QED
    BY <1>2, <1>3, <1>5, <2>1, <2>2, LifeFinishes DEF End, Done, b
<1>6. \/ Leave(K, B, <<>>, "emergency")
      \/ End([B EXCEPT !.retries = B.retries + 1, !.phase = "failed"])
      \/ End([B EXCEPT !.retries = B.retries + 1, !.phase = B.phase])
  BY DEF EmergencyRetried
<1> QED
  BY <1>3, <1>4, <1>5, <1>6

LEMMA LifeStarts ==
    ASSUME MonitorInv, LifeInv, PollStart
    PROVE  LifeKept
<1> DEFINE k == [Idle EXCEPT !.o = tracked]
           b == obj[tracked]
<1>1. K.pc = "idle" /\ tracked # 0 /\ tracked \in Objs /\ Taken(b) /\ UNCHANGED used
  BY DEF PollStart, MonitorInv, Shapes, Objs
<1>2. Works(k, b, tracked)
  BY <1>1 DEF Works, LocalOK, LocalFields, Idle
<1>3. LifeOf(b) # "filled"
  BY <1>1 DEF LifeInv
<1>4. AtWork(tracked)
  BY <1>1 DEF AtWork
<1>5. \/ b.phase = "pending" /\ (Leave(k, b, <<"entry">>, "cancelled") \/ Call(k, b, "p.fetch", "fetch", b.entry))
      \/ b.phase = "active" /\ CheckActive(k, b)
      \/ b.phase = "emergency" /\ Call(k, b, "e.mkt", "market", 0)
  BY DEF PollStart
<1> HIDE DEF k
<1>6. CASE b.phase = "pending" /\ (Leave(k, b, <<"entry">>, "cancelled") \/ Call(k, b, "p.fetch", "fetch", b.entry))
  <2>1. LifeOf(b) = "pending"
    BY <1>3, <1>6 DEF LifeOf
  <2>2. LifePlace("p.fetch", k.why, b) /\ LifeStep(b, b) /\ Leaves(b, "cancelled")
    BY <2>1 DEF LifePlace, LifeStep, Leaves
  <2> QED
    BY <1>2, <1>4, <1>6, <2>2, LifeLeaves, LifeAsks DEF Leave, Call
<1>7. CASE b.phase = "active" /\ CheckActive(k, b)
  <2>1. Holding(tracked, k, b) /\ LifeOf(b) = "active"
    BY <1>2, <1>4, <1>7 DEF Holding, LifeOf
  <2>2. CASE b.due
    BY <1>7, <2>1, <2>2, HoldingLeaves DEF CheckActive
  <2>3. CASE ~b.due /\ b.sl # 0
    BY <1>7, <2>1, <2>3, HoldingAsks DEF CheckActive, HoldPcs
  <2>4. CASE ~b.due /\ b.sl = 0 /\ b.tp # 0
    BY <1>7, <2>1, <2>4, HoldingChecks DEF CheckActive
  <2>5. CASE ~b.due /\ b.sl = 0 /\ b.tp = 0
    BY <1>7, <2>1, <2>5, HoldingAsks DEF CheckActive, HoldPcs
  <2> QED
    BY <2>2, <2>3, <2>4, <2>5
<1>8. CASE b.phase = "emergency" /\ Call(k, b, "e.mkt", "market", 0)
  <2>1. LifePlace("e.mkt", k.why, b) /\ LifeStep(b, b)
    BY <1>8 DEF LifePlace, LifeStep, LifeOf
  <2> QED
    BY <1>2, <1>4, <1>8, <2>1, LifeAsks DEF Call
<1> QED
  BY <1>5, <1>6, <1>7, <1>8

\* Only the poll loop leaves positions.
LEMMA LifeUnwinds ==
    ASSUME MonitorInv, LifeInv, NEW t \in Tasks, Unwinding(t), UNCHANGED used
    PROVE  LifeKept
<1>1. task[t].pc = "unwind"
  BY DEF Unwinding, At
<1>2. t = "poll"
  BY <1>1 DEF MonitorInv, Holds, LifeInv, NoCancel, Tasks
<1>3. Works(K, B, K.o) /\ K.o \in Objs /\ K.pc = "unwind"
  BY <1>1, <1>2, PollWorks DEF K
<1>4. Leaves(B, K.why)
  BY <1>3 DEF LifeInv, LifePlace, FillPcs, HoldPcs, TrailPcs, Leaves
<1>5. AtWork(K.o) /\ Taken(B) /\ B = obj[K.o] /\ Obj(t) = B
  BY <1>2, <1>3 DEF AtWork, Works, B, K, Obj
<1>6. \/ K.why \in Careful /\ Done("poll", K, AsEmergency(B, 1))
      \/ Unwind("poll", K, B, K.todo, K.why)
  BY <1>2, <1>5 DEF Unwinding, K
<1>7. CASE K.why \in Careful /\ Done("poll", K, AsEmergency(B, 1))
  <2>1. /\ LifeStep(B, AsEmergency(B, 1)) /\ Taken(AsEmergency(B, 1))
        /\ LifeOf(AsEmergency(B, 1)) # "filled"
    BY <1>4, <1>5, <1>7, EmergencyLife DEF Leaves, Careful
  <2> QED
    BY <1>3, <1>5, <1>7, <2>1, LifeFinishes DEF Done
<1>8. CASE Unwind("poll", K, B, K.todo, K.why)
  BY <1>3, <1>4, <1>5, <1>8, LifeLeaves
<1> QED
  BY <1>6, <1>7, <1>8

\* A step that leaves the objects' phases and the poll loop alone.
LEMMA LifeAside ==
    ASSUME MonitorInv, LifeInv, DOMAIN obj' = Objs, Fresh', task'["poll"] = task["poll"],
           task'["panic"].pc \in {"idle", "k.cancel", "k.mkt"}, NoCancel',
           \A o \in Objs : /\ obj'[o].phase = obj[o].phase /\ obj'[o].filled = obj[o].filled
                           /\ obj'[o].closes = obj[o].closes
    PROVE  LifeKept
<1>1. \A o \in Objs : LifeOf(obj'[o]) = LifeOf(obj[o])
  BY DEF LifeOf
<1>2. K' = K
  BY DEF K
<1>3. K.pc # "idle" => LifePlace(K.pc, K.why, B')
  <2>1. SUFFICES ASSUME K.pc # "idle" PROVE LifePlace(K.pc, K.why, B')
    OBVIOUS
  <2>2. K.o \in Objs
    BY <2>1, PollWorks
  <2>3. LifeOf(B') = LifeOf(B)
    BY <1>1, <1>2, <2>2 DEF B
  <2> QED
    BY <2>1, <2>3 DEF LifeInv, LifePlace
<1>4. LifeInv'
  BY <1>1, <1>2, <1>3 DEF LifeInv
<1>5. LifeStays
  <2> DEFINE ll == [p \in Objs |-> IF obj[p].phase = "pending" /\ obj[p].filled THEN "filled"
                                   ELSE obj[p].phase]
             tt == [p \in Objs |-> obj[p].closes]
  <2>1. ll' = ll
    OBVIOUS
  <2>2. tt' = tt
    OBVIOUS
  <2> QED
    BY <2>1, <2>2 DEF LifeStays, L!lifeVars
<1> QED
  BY <1>4, <1>5 DEF LifeKept

\* The same, when no object changes at all.
SameObjs == DOMAIN obj' = Objs /\ \A o \in Objs : obj'[o] = obj[o]

LEMMA LifeTold ==
    ASSUME MonitorInv, LifeInv, SameObjs, task'["poll"] = task["poll"],
           task'["cancel"].pc = "idle", task'["panic"].pc \in {"idle", "k.cancel", "k.mkt"},
           used'.cancels = used.cancels, DOMAIN used' = DOMAIN used
    PROVE  LifeKept
<1>1. DOMAIN obj = Objs
  BY DEF MonitorInv, Shapes
<1>2. Fresh' /\ NoCancel'
  BY DEF LifeInv, Fresh, NoCancel, SameObjs
<1> QED
  BY <1>1, <1>2, LifeAside DEF SameObjs

LEMMA UsedKeeps ==
    ASSUME LifeInv, NEW kind, Fault(kind) \/ NoFault
    PROVE  used'.cancels = used.cancels /\ DOMAIN used' = DOMAIN used
BY DEF Fault, NoFault, LifeInv, NoCancel

LEMMA LifeServes ==
    ASSUME MonitorInv, LifeInv, NEW t \in Tasks, Serve(t)
    PROVE  LifeKept
<1>1. PICK res, got : task' = [task EXCEPT ![t].res = res, ![t].got = got]
  BY DEF Serve
<1>2. UNCHANGED obj /\ \E kind : Fault(kind) \/ NoFault
  BY DEF Serve
<1>3. used'.cancels = used.cancels /\ DOMAIN used' = DOMAIN used
  BY <1>2, UsedKeeps
<1>4. /\ DOMAIN task' = Tasks
      /\ \A u \in Tasks : task'[u].pc = task[u].pc /\ task'[u].o = task[u].o /\ task'[u].why = task[u].why
  BY <1>1 DEF MonitorInv, Shapes, LocalOK, LocalFields, Idle
<1>5. K'.pc = K.pc /\ K'.o = K.o /\ K'.why = K.why /\ B' = B
  BY <1>2, <1>4 DEF K, B, Tasks
<1>6. Fresh' /\ NoCancel' /\ task'["panic"].pc \in {"idle", "k.cancel", "k.mkt"}
  BY <1>2, <1>3, <1>4 DEF LifeInv, Fresh, NoCancel, Tasks
<1>7. LifeInv'
  BY <1>2, <1>5, <1>6 DEF LifeInv
<1>8. LifeStays
  BY <1>2 DEF LifeStays, L!lifeVars
<1> QED
  BY <1>7, <1>8 DEF LifeKept

\* The panic button moves no position.
LEMMA LifePanics ==
    ASSUME MonitorInv, LifeInv, PanicStart \/ (PanicReported /\ UNCHANGED used)
    PROVE  LifeKept
<1>1. DOMAIN task = Tasks /\ DOMAIN obj = Objs /\ "panic" \in Tasks
  BY DEF MonitorInv, Shapes, Tasks
<1>2. ASSUME NEW o \in Objs, obj' = [obj EXCEPT ![o] = obj[o]] PROVE SameObjs
  BY <1>1, <1>2 DEF SameObjs
<1>3. CASE PanicStart
  <2> DEFINE k == [Idle EXCEPT !.o = tracked]
  <2>1. \/ AskWith("panic", k, obj[tracked], "k.cancel", "cancel", obj[tracked].entry)
        \/ AskWith("panic", k, obj[tracked], "k.mkt", "market_dir", 0)
    BY <1>3 DEF PanicStart
  <2>2. tracked \in Objs /\ k.o = tracked /\ LocalOK(k)
    BY <1>3 DEF PanicStart, MonitorInv, Shapes, Objs, LocalOK, LocalFields, Idle
  <2> HIDE DEF k
  <2>3. \E pc, call, arg : pc \in {"k.cancel", "k.mkt"} /\ AskWith("panic", k, obj[tracked], pc, call, arg)
    BY <2>1
  <2>4. PICK pc, call, arg : pc \in {"k.cancel", "k.mkt"} /\ AskWith("panic", k, obj[tracked], pc, call, arg)
    BY <2>3
  <2>5. /\ SameObjs /\ DOMAIN task' = Tasks /\ \A u \in Tasks \ {"panic"} : task'[u] = task[u]
        /\ task'["panic"].pc = pc
    BY <1>1, <1>2, <2>2, <2>4 DEF AskWith, LocalOK, LocalFields, Idle
  <2>6. used'.cancels = used.cancels /\ DOMAIN used' = DOMAIN used
    BY <1>3 DEF PanicStart, LifeInv, NoCancel
  <2>7. task'["poll"] = task["poll"] /\ task'["cancel"].pc = "idle"
    BY <2>5 DEF LifeInv, NoCancel, Tasks
  <2> QED
    BY <2>4, <2>5, <2>6, <2>7, LifeTold
<1>4. CASE PanicReported /\ UNCHANGED used
  <2>1. Done("panic", task["panic"], Obj("panic")) /\ task["panic"].pc # "idle"
    BY <1>4 DEF PanicReported, At
  <2>2. task["panic"].o \in Objs
    BY <2>1 DEF MonitorInv, Holds, Tasks
  <2>3. SameObjs /\ task' = [task EXCEPT !["panic"] = Idle]
    BY <1>1, <1>2, <2>1, <2>2 DEF Done, FinishWith, Obj, SameObjs
  <2>4. /\ task'["poll"] = task["poll"] /\ task'["cancel"].pc = "idle"
        /\ task'["panic"].pc = "idle"
    BY <1>1, <2>3, IdleOK DEF LifeInv, NoCancel, Tasks
  <2> QED
    BY <1>4, <2>3, <2>4, LifeTold
<1> QED
  BY <1>3, <1>4

\* A fresh object that is registered begins its life.
LEMMA LifeRegisters ==
    ASSUME DOMAIN obj = Objs, NEW o \in Objs, NEW b, obj[o] = NoObj, obj' = [obj EXCEPT ![o] = b],
           b.phase = "pending", b.filled = FALSE, b.closes = 0
    PROVE  LifeStays
<1> DEFINE ll == [p \in Objs |-> IF obj[p].phase = "pending" /\ obj[p].filled THEN "filled"
                                 ELSE obj[p].phase]
           tt == [p \in Objs |-> obj[p].closes]
<1>1. obj'[o] = b /\ \A p \in Objs \ {o} : obj'[p] = obj[p]
  OBVIOUS
<1>2. obj[o].phase = "new" /\ obj[o].filled = FALSE /\ obj[o].closes = 0
  BY DEF NoObj
<1>3. ll[o] = "new" /\ ll' = [ll EXCEPT ![o] = "pending"] /\ tt' = tt
  BY <1>1, <1>2
<1>4. L!Register(o)
  BY <1>3 DEF L!Register, L!Move
<1> QED
  BY <1>4 DEF LifeStays, L!Next

\* execute registers a position and moves none.
LEMMA LifeExecutes ==
    ASSUME MonitorInv, LifeInv, UNCHANGED used, ExecStart \/ Replace \/ Register
    PROVE  LifeKept
<1>1. DOMAIN task = Tasks /\ DOMAIN obj = Objs /\ Tasks = {"poll", "cancel", "exec", "panic"}
  BY DEF MonitorInv, Shapes, Tasks
<1>2. ASSUME NEW o \in Objs, obj' = [obj EXCEPT ![o] = obj[o]] PROVE SameObjs
  BY <1>1, <1>2 DEF SameObjs
<1>3. ASSUME NEW k, task' = [task EXCEPT !["exec"] = k], SameObjs PROVE LifeKept
  <2>1. /\ task'["poll"] = task["poll"] /\ task'["cancel"].pc = "idle"
        /\ task'["panic"].pc \in {"idle", "k.cancel", "k.mkt"}
    BY <1>1, <1>3 DEF LifeInv, NoCancel
  <2> QED
    BY <1>3, <2>1, LifeTold
<1>4. CASE ExecStart
  <2> DEFINE k(x) == [Idle EXCEPT !.o = x]
  <2>1. \A x : k(x).o = x
    BY DEF Idle
  <2>2. \/ Unused # {} /\ AskWith("exec", k(First(Unused)), NoObj, "n.place", "entry", 0)
        \/ tracked # 0 /\ AskWith("exec", k(tracked), obj[tracked], "n.cancel", "cancel", obj[tracked].entry)
    BY <1>4 DEF ExecStart, PlaceEntry
  <2>3. Unused # {} => First(Unused) \in Objs /\ obj[First(Unused)] = NoObj
    BY FirstIsUnused DEF Unused, LifeInv, Fresh
  <2>4. tracked # 0 => tracked \in Objs
    BY DEF MonitorInv, Shapes, Objs
  <2> HIDE DEF k
  <2>5. SameObjs /\ \E c : task' = [task EXCEPT !["exec"] = c]
    <3>1. CASE Unused # {} /\ AskWith("exec", k(First(Unused)), NoObj, "n.place", "entry", 0)
      BY <1>2, <2>1, <2>3, <3>1 DEF AskWith
    <3>2. CASE tracked # 0 /\ AskWith("exec", k(tracked), obj[tracked], "n.cancel", "cancel", obj[tracked].entry)
      BY <1>2, <2>1, <2>4, <3>2 DEF AskWith
    <3> QED
      BY <2>2, <3>1, <3>2
  <2> QED
    BY <1>3, <2>5
<1>5. CASE Replace
  <2>1. task["exec"].o \in Objs
    BY <1>5 DEF Replace, At, MonitorInv, Holds, Tasks
  <2>2. \/ UNCHANGED obj /\ \E c : task' = [task EXCEPT !["exec"] = c]
        \/ Done("exec", task["exec"], Obj("exec"))
    BY <1>5 DEF Replace
  <2>3. SameObjs /\ \E c : task' = [task EXCEPT !["exec"] = c]
    BY <1>1, <1>2, <2>1, <2>2 DEF Done, FinishWith, Obj, SameObjs
  <2> QED
    BY <1>3, <2>3
<1>6. CASE Register
  <2> DEFINE o == task["exec"].o
             b == [NoObj EXCEPT !.phase = "pending", !.entry = task["exec"].got]
  <2>1. o \in Objs /\ obj[o].phase = "new" /\ obj[o] = NoObj
    BY <1>6 DEF Register, At, MonitorInv, Holds, Tasks, Unused, LifeInv, Fresh
  <2>2. /\ \/ obj' = [obj EXCEPT ![o] = b]
           \/ obj' = [obj EXCEPT ![o] = NoObj]
        /\ task' = [task EXCEPT !["exec"] = Idle]
    BY <1>6 DEF Register, Done, FinishWith
  <2>3. CASE obj' = [obj EXCEPT ![o] = NoObj]
    BY <1>2, <1>3, <2>1, <2>2, <2>3
  <2>4. CASE obj' = [obj EXCEPT ![o] = b]
    <3>1. b.phase = "pending" /\ b.filled = FALSE /\ b.closes = 0
      BY DEF NoObj
    <3> HIDE DEF b
    <3>2. obj'[o] = b /\ \A p \in Objs \ {o} : obj'[p] = obj[p]
      BY <1>1, <2>1, <2>4
    <3>3. LifeStays
      BY <1>1, <2>1, <2>4, <3>1, LifeRegisters
    <3>4. K' = K /\ task'["panic"] = task["panic"] /\ task'["cancel"] = task["cancel"]
      BY <1>1, <2>2 DEF K
    <3>5. K.pc # "idle" => B' = B
      <4>1. K.pc # "idle" => K.o \in Objs /\ K.o # o
        BY <2>1, PollWorks DEF Works, Taken, B
      <4> QED
        BY <3>2, <3>4, <4>1 DEF B
    <3>6. \A p \in Objs : LifeOf(obj'[p]) = "filled" => K.pc # "idle" /\ K.o = p
      BY <3>1, <3>2 DEF LifeInv, LifeOf
    <3>7. Fresh'
      BY <2>1, <3>1, <3>2 DEF LifeInv, Fresh
    <3>8. LifeInv'
      BY <3>4, <3>5, <3>6, <3>7 DEF LifeInv, NoCancel
    <3> QED
      BY <3>3, <3>8 DEF LifeKept
  <2> QED
    BY <2>2, <2>3, <2>4
<1> QED
  BY <1>4, <1>5, <1>6

LEMMA LifeExpires ==
    ASSUME MonitorInv, LifeInv, NEW o \in Objs, Expire(o)
    PROVE  LifeKept
<1>1. /\ UNCHANGED <<task, used>> /\ obj' = [obj EXCEPT ![o].due = TRUE]
      /\ obj[o].phase # "new"
  BY DEF Expire
<1>2. /\ DOMAIN obj' = Objs /\ \A p \in Objs \ {o} : obj'[p] = obj[p]
      /\ obj'[o].phase = obj[o].phase /\ obj'[o].filled = obj[o].filled /\ obj'[o].closes = obj[o].closes
  BY <1>1 DEF MonitorInv, Shapes, ObjFields, NoObj
<1>3. Fresh' /\ NoCancel'
  BY <1>1, <1>2 DEF LifeInv, Fresh, NoCancel
<1>4. task'["panic"].pc \in {"idle", "k.cancel", "k.mkt"}
  BY <1>1 DEF LifeInv
<1> QED
  BY <1>1, <1>2, <1>3, <1>4, LifeAside

LEMMA LifeRests ==
    ASSUME MonitorInv, LifeInv, Exchange \/ UNCHANGED vars
    PROVE  LifeKept
<1>1. UNCHANGED <<obj, task>>
  BY DEF Exchange, EntryFills, ExitFills, UserActs, vars, bot
<1>2. UNCHANGED used \/ \E kind : Fault(kind) \/ NoFault
  BY DEF Exchange, EntryFills, ExitFills, UserActs, vars
<1>3. used'.cancels = used.cancels /\ DOMAIN used' = DOMAIN used
  BY <1>2, UsedKeeps
<1>4. task'["cancel"].pc = "idle" /\ task'["panic"].pc \in {"idle", "k.cancel", "k.mkt"}
  BY <1>1 DEF LifeInv, NoCancel
<1>5. SameObjs
  BY <1>1 DEF SameObjs, MonitorInv, Shapes
<1> QED
  BY <1>1, <1>3, <1>4, <1>5, LifeTold

LEMMA LifeBegins == Init => LifeInv /\ (L!Init \/ L!AdoptedInit)
<1> SUFFICES ASSUME Init PROVE LifeInv /\ (L!Init \/ L!AdoptedInit)
  OBVIOUS
<1>1. \A t \in Tasks : task[t].pc = "idle"
  BY IdleOK DEF Init
<1>2. NoCancel /\ task["panic"].pc = "idle" /\ K.pc = "idle"
  BY <1>1 DEF Init, NoCancel, Tasks, K
<1>3. 1 \in Objs
  BY BoundsAssumption DEF Objs
<1>4. NoObj.phase = "new" /\ NoObj.closes = 0
  BY DEF NoObj
<1>5. CASE obj = [o \in Objs |-> NoObj]
  <2>1. L!Init
    BY <1>4, <1>5 DEF L!Init
  <2>2. Fresh /\ \A o \in Objs : LifeOf(obj[o]) # "filled"
    BY <1>4, <1>5 DEF Fresh, LifeOf
  <2> QED
    BY <1>2, <2>1, <2>2 DEF LifeInv
<1>6. CASE obj = [[o \in Objs |-> NoObj] EXCEPT ![1].phase = "active", ![1].filled = TRUE]
  <2>1. /\ obj[1].phase = "active" /\ obj[1].closes = 0
        /\ \A o \in Objs \ {1} : obj[o] = NoObj
    BY <1>3, <1>6 DEF NoObj
  <2>2. L!AdoptedInit
    <3>1. [o \in Objs |-> IF obj[o].phase = "pending" /\ obj[o].filled THEN "filled" ELSE obj[o].phase]
          = [o \in Objs |-> IF o = 1 THEN "active" ELSE "new"]
      BY <1>4, <2>1
    <3>2. [o \in Objs |-> obj[o].closes] = [o \in Objs |-> 0]
      BY <1>4, <2>1
    <3> QED
      BY <1>3, <3>1, <3>2 DEF L!AdoptedInit
  <2>3. Fresh /\ \A o \in Objs : LifeOf(obj[o]) # "filled"
    BY <1>4, <2>1 DEF Fresh, LifeOf
  <2> QED
    BY <1>2, <2>2, <2>3 DEF LifeInv
<1> QED
  BY <1>5, <1>6 DEF Init

LEMMA LifeNext == MaxCancels = 0 /\ MonitorInv /\ LifeInv /\ [Next]_vars => LifeKept
<1> SUFFICES ASSUME MaxCancels = 0, MonitorInv, LifeInv, [Next]_vars PROVE LifeKept
  OBVIOUS
<1>1. ASSUME NEW t \in Tasks, Serve(t) PROVE LifeKept
  BY <1>1, LifeServes
<1>2. ASSUME NEW t \in Tasks, Resume(t) PROVE LifeKept
  <2>1. UNCHANGED used
    BY <1>2 DEF Resume
  <2>2. ~HandleCancel
    BY DEF HandleCancel, At, LifeInv, NoCancel
  <2>3. CASE PollSteps
    BY <2>1, <2>3, LifePends, LifeFills, LifeHolds, LifeRetries DEF PollSteps
  <2> QED
    BY <1>2, <2>1, <2>2, <2>3, LifeUnwinds, LifeExecutes, LifePanics DEF Resume
<1>3. CASE PollStart
  BY <1>3, LifeStarts
<1>4. CASE PanicStart
  BY <1>4, LifePanics
<1>5. ~PollCancel
  BY DEF PollCancel, LifeInv, NoCancel
<1>6. CASE ExecStart
  BY <1>6, LifeExecutes DEF ExecStart
<1>7. ASSUME NEW o \in Objs, Expire(o) PROVE LifeKept
  BY <1>7, LifeExpires
<1>8. CASE Exchange \/ UNCHANGED vars
  BY <1>8, LifeRests
<1> QED
  BY <1>1, <1>2, <1>3, <1>4, <1>5, <1>6, <1>7, <1>8 DEF Next

\* As long as nobody cancels from the dashboard, every position goes through
\* its phases in order, is left for good and is reported as a trade once or never
\* (execution_service/models.py; monitor.py _close_position): whatever is
\* replaced, fails, times out or is panicked over.  A cancel beside the poll loop
\* may leave a position twice.
THEOREM LifecycleKept == MaxCancels = 0 => (Spec => LifecycleSpec)
<1> SUFFICES ASSUME MaxCancels = 0 PROVE Spec => LifecycleSpec
  OBVIOUS
<1>1. MonitorInv /\ LifeInv /\ [Next]_vars => MonitorInv' /\ LifeInv' /\ [L!Next]_(L!lifeVars)
  BY MonitorStep, LifeNext DEF LifeKept, LifeStays
<1> QED
  BY <1>1, MonitorStarts, LifeBegins, PTL DEF Spec, LifecycleSpec, L!Spec

-----------------------------------------------------------------------------
(* The stop-loss orders, and the level the monitor records for them.       *)

OrderKinds  == {"entry", "sl", "tp"}
OrderStates == {"live", "part", "filled", "canceled", "partcan", "lost"}
Order == [kind : OrderKinds, level : 0..2, st : OrderStates]

\* An order that was placed, at that level.
HasLevel(os, i, level) == i \in 1..Len(os) /\ os[i].level = level
AtLevel(i, level) == HasLevel(orders, i, level)

ObjLevel(b) == /\ b.level \in 0..2
               /\ b.sl = 0 \/ AtLevel(b.sl, b.level)
               /\ b.phase = "pending" => b.level = 0

\* The calls there are.
Calls == {"fetch", "cancel", "stop", "tp", "entry", "market", "market_dir", "position", "ticker",
          "has_sl", "find_sl", "find_tp"}
Quiet == Calls \ {"stop"}
CallOK(k) == (k.res = "wait" => k.call \in Calls) /\ (k.call = "stop" => k.arg \in 0..2)

\* What the poll loop waits for at each place, for an object b.
StopPcs == {"f.stop", "f.restop", "a.restop", "v.stop", "y.stop", "trail.stop"}
Site(pc, call, arg, new, b) ==
    \/ pc \in {"f.stop", "f.restop"} /\ call = "stop" /\ arg = 0 /\ b.level = 0
    \/ pc = "f.sl" /\ call = "find_sl" /\ arg = 0 /\ b.level = 0
    \/ pc \in {"p.fetch", "f.tp", "f.tp2", "f.verify", "f.vtp", "f.retp"} /\ call \in Quiet /\ b.level = 0
    \/ pc \in {"a.restop", "v.stop", "y.stop"} /\ call = "stop" /\ arg = b.level /\ b.phase # "pending"
    \/ pc = "trail.stop" /\ call = "stop" /\ arg = Target(b) /\ b.phase # "pending"
    \/ pc = "trail.cancel" /\ call \in Quiet /\ AtLevel(new, Target(b)) /\ b.phase # "pending"
    \/ pc \in (HoldPcs \ StopPcs) \cup {"trail.tick"} /\ call \in Quiet /\ b.phase # "pending"
    \/ pc \in {"unwind", "e.mkt"} /\ call \in Quiet
LevelAt(k, b) == /\ Site(k.pc, k.call, k.arg, k.new, b)
                 /\ k.res = "ok" /\ k.pc \in StopPcs \cup {"f.sl"} => AtLevel(k.got, k.arg)

LevelInv ==
    /\ orders \in Seq(Order)
    /\ \A o \in Objs : ObjLevel(obj[o])
    /\ K.pc # "idle" => LevelAt(K, B)
    /\ \A t \in Tasks : CallOK(task[t])

-----------------------------------------------------------------------------
(* What happens on the exchange leaves the orders at their levels.         *)

\* The orders os are those there are and perhaps more.
Grown(os) == /\ os \in Seq(Order) /\ Len(os) >= Len(orders)
             /\ \A i \in 1..Len(orders) : os[i].level = orders[i].level

LEMMA WithGrows ==
    ASSUME orders \in Seq(Order), NEW os, Grown(os), NEW kind \in OrderKinds, NEW level \in 0..2,
           NEW st \in OrderStates
    PROVE  /\ Grown(With(os, kind, level, st)) /\ Len(With(os, kind, level, st)) = Len(os) + 1
           /\ With(os, kind, level, st)[Len(os) + 1].level = level
<1>1. [kind |-> kind, level |-> level, st |-> st] \in Order
  BY DEF Order
<1>2. os \in Seq(Order) /\ Len(os) \in Nat /\ Len(orders) \in Nat
  BY DEF Grown
<1> QED
  BY <1>1, <1>2 DEF Grown, With

LEMMA StateGrows ==
    ASSUME orders \in Seq(Order), NEW i, NEW st \in OrderStates
    PROVE  Grown([orders EXCEPT ![i].st = st])
<1> DEFINE os == [orders EXCEPT ![i].st = st]
<1>1. Len(orders) \in Nat /\ DOMAIN orders = 1..Len(orders)
  OBVIOUS
<1>2. ASSUME NEW j \in 1..Len(orders) PROVE os[j] \in Order /\ os[j].level = orders[j].level
  <2>1. orders[j] \in Order
    OBVIOUS
  <2>2. CASE j # i
    BY <2>1, <2>2
  <2>3. CASE j = i
    <3>1. os[j] = [orders[j] EXCEPT !.st = st]
      BY <2>3
    <3>2. [orders[j] EXCEPT !.st = st] \in Order /\ [orders[j] EXCEPT !.st = st].level = orders[j].level
      BY <2>1 DEF Order
    <3> QED
      BY <3>1, <3>2
  <2> QED
    BY <2>2, <2>3
<1>3. os \in [1..Len(orders) -> Order]
  BY <1>1, <1>2
<1>4. os \in Seq(Order) /\ Len(os) = Len(orders)
  BY <1>1, <1>3
<1> QED
  BY <1>2, <1>4 DEF Grown

LEMMA SameGrows == orders \in Seq(Order) => Grown(orders)
BY DEF Grown

LEMMA AnswersGrow ==
    ASSUME orders \in Seq(Order), NEW call \in Calls, NEW arg, call = "stop" => arg \in 0..2,
           NEW a \in Answers(call, arg)
    PROVE  /\ Grown(a.orders)
           /\ call = "stop" => /\ a.got \in 1..Len(a.orders) /\ a.orders[a.got].level = arg
                               /\ a.got = Len(orders) + 1
           /\ call = "find_sl" /\ a.res = "ok" => a.got \in 1..Len(a.orders) /\ a.orders[a.got].level = 0
<1>1. ASSUME NEW kind \in OrderKinds, NEW level \in 0..2, a = NewOrder(kind, level)
      PROVE  /\ Grown(a.orders) /\ a.got = Len(orders) + 1
             /\ a.got \in 1..Len(a.orders) /\ a.orders[a.got].level = level
  <2>1. a.orders = With(orders, kind, level, "live") /\ a.got = Len(orders) + 1
    BY <1>1 DEF NewOrder, Answer
  <2>2. Grown(orders) /\ Len(orders) \in Nat
    BY SameGrows
  <2>3. /\ Grown(a.orders) /\ Len(a.orders) = Len(orders) + 1
        /\ a.orders[Len(orders) + 1].level = level
    <3>1. "live" \in OrderStates
      BY DEF OrderStates
    <3> QED
      BY <1>1, <2>1, <2>2, <3>1, WithGrows
  <2> QED
    BY <2>1, <2>2, <2>3
<1>2. CASE call = "stop"
  <2>1. a = NewOrder("sl", arg)
    BY <1>2 DEF Answers
  <2> QED
    BY <1>1, <1>2, <2>1 DEF OrderKinds
<1>3. CASE call = "tp" \/ call = "entry"
  <2>1. a = NewOrder("tp", 0) \/ a = NewOrder("entry", 0)
    BY <1>3 DEF Answers
  <2> QED
    BY <1>1, <1>3, <2>1 DEF OrderKinds
<1>4. CASE call = "cancel"
  <2> DEFINE st == IF orders[arg].st = "part" THEN "partcan" ELSE "canceled"
  <2>1. a.orders = orders \/ a.orders = [orders EXCEPT ![arg].st = st]
    BY <1>4 DEF Answers, Says, Answer
  <2>2. st \in OrderStates
    BY DEF OrderStates
  <2> HIDE DEF st
  <2>3. Grown([orders EXCEPT ![arg].st = st])
    BY <2>2, StateGrows
  <2> QED
    BY <1>4, <2>1, <2>3, SameGrows
<1>5. CASE call = "find_sl"
  <2>1. a.orders = orders /\ (a.res = "ok" => a.got \in LiveOf("sl") /\ orders[a.got].level = 0)
    BY <1>5 DEF Answers, Says, Answer
  <2> QED
    BY <1>5, <2>1, SameGrows DEF LiveOf
<1>6. CASE call \in {"fetch", "market", "market_dir", "position", "ticker", "has_sl", "find_tp"}
  <2>1. a.orders = orders
    BY <1>6 DEF Answers, Says, Answer
  <2> QED
    BY <1>6, <2>1, SameGrows
<1> QED
  BY <1>2, <1>3, <1>4, <1>5, <1>6 DEF Calls

\* A step of the exchange, or of anything else that leaves the bot alone.
LEMMA GrownKeeps ==
    ASSUME LevelInv, Grown(orders'), UNCHANGED obj,
           \A t \in Tasks : CallOK(task'[t]),
           K'.pc = K.pc, K'.o = K.o, K'.call = K.call, K'.arg = K.arg, K'.new = K.new,
           K'.res = "ok" /\ K.pc \in StopPcs \cup {"f.sl"} => HasLevel(orders', K'.got, K.arg)
    PROVE  LevelInv'
<1>1. \A i, level : HasLevel(orders, i, level) => HasLevel(orders', i, level)
  BY DEF Grown, HasLevel, LevelInv
<1>2. \A o \in Objs : ObjLevel(obj[o])'
  BY <1>1 DEF LevelInv, ObjLevel, AtLevel
<1>3. B' = B
  BY DEF B
<1>4. K.pc # "idle" => Site(K.pc, K.call, K.arg, K.new, B)'
  BY <1>1, <1>3 DEF LevelInv, LevelAt, Site, AtLevel, Target
<1>5. K'.pc # "idle" => LevelAt(K, B)'
  BY <1>3, <1>4 DEF LevelAt, AtLevel
<1> QED
  BY <1>2, <1>5 DEF LevelInv, Grown

LEMMA LevelServes ==
    ASSUME MonitorInv, LevelInv, NEW t \in Tasks, Serve(t)
    PROVE  LevelInv'
<1> DEFINE call == task[t].call
           arg  == task[t].arg
<1>1. task[t].res = "wait" /\ UNCHANGED obj /\ call \in Calls /\ (call = "stop" => arg \in 0..2)
  BY DEF Serve, LevelInv, CallOK
<1>2. PICK a, res, got :
        /\ a \in Answers(call, arg)
        /\ task' = [task EXCEPT ![t].res = res, ![t].got = got]
        /\ \/ orders' = a.orders /\ res = a.res /\ got = a.got
           \/ orders' = orders /\ res = "none"
           \/ orders' = a.orders /\ res = "none"
           \/ orders' = With(orders, "sl", arg, "lost") /\ res = a.res /\ got = a.got /\ call = "stop"
  BY DEF Serve
<1> HIDE DEF call, arg
<1>3. /\ Grown(a.orders)
      /\ call = "stop" => /\ a.got \in 1..Len(a.orders) /\ a.orders[a.got].level = arg
                          /\ a.got = Len(orders) + 1
      /\ call = "find_sl" /\ a.res = "ok" => a.got \in 1..Len(a.orders) /\ a.orders[a.got].level = 0
  BY <1>1, <1>2, AnswersGrow DEF LevelInv
<1>4. /\ Grown(orders')
      /\ res = "ok" /\ call = "stop" => HasLevel(orders', got, arg)
      /\ res = "ok" /\ call = "find_sl" => HasLevel(orders', got, 0)
  <2>1. CASE orders' = a.orders /\ res = a.res /\ got = a.got
    BY <1>3, <2>1 DEF HasLevel
  <2>2. CASE orders' = orders /\ res = "none"
    BY <2>2, SameGrows DEF LevelInv
  <2>3. CASE orders' = a.orders /\ res = "none"
    BY <1>3, <2>3
  <2>4. CASE orders' = With(orders, "sl", arg, "lost") /\ res = a.res /\ got = a.got /\ call = "stop"
    <3>1. orders \in Seq(Order) /\ Len(orders) \in Nat /\ Grown(orders)
      BY SameGrows DEF LevelInv
    <3>2. "sl" \in OrderKinds /\ "lost" \in OrderStates /\ arg \in 0..2
      BY <1>1, <2>4 DEF OrderKinds, OrderStates
    <3>3. /\ Grown(orders') /\ Len(orders') = Len(orders) + 1
          /\ orders'[Len(orders) + 1].level = arg
      BY <2>4, <3>1, <3>2, WithGrows
    <3> QED
      BY <1>3, <2>4, <3>1, <3>3 DEF HasLevel
  <2> QED
    BY <1>2, <2>1, <2>2, <2>3, <2>4
<1>5. /\ DOMAIN task = Tasks /\ LocalOK(task[t])
      /\ \A u \in Tasks \ {t} : task'[u] = task[u]
      /\ \A f \in LocalFields \ {"res", "got"} : task'[t][f] = task[t][f]
      /\ task'[t].res = res /\ task'[t].got = got
  BY <1>2 DEF MonitorInv, Shapes, LocalOK, LocalFields, Idle
<1>6. \A u \in Tasks : CallOK(task'[u])
  <2>2. CallOK(task'[t])
    BY <1>1, <1>5 DEF call, arg, CallOK, LevelInv, LocalFields, Idle
  <2>3. ASSUME NEW u \in Tasks \ {t} PROVE CallOK(task'[u])
    BY <1>5, <2>3 DEF LevelInv
  <2> QED
    BY <2>2, <2>3
<1>7. /\ K'.pc = K.pc /\ K'.o = K.o /\ K'.call = K.call /\ K'.arg = K.arg /\ K'.new = K.new
      /\ t # "poll" => K' = K
      /\ t = "poll" => K'.res = res /\ K'.got = got /\ K.call = call /\ K.arg = arg
  BY <1>5 DEF K, Tasks, LocalFields, Idle, call, arg
<1>8. K'.res = "ok" /\ K.pc \in StopPcs \cup {"f.sl"} => HasLevel(orders', K'.got, K.arg)
  <2>1. ASSUME K'.res = "ok", K.pc \in StopPcs \cup {"f.sl"} PROVE HasLevel(orders', K'.got, K.arg)
    <3>1. K.pc # "idle" /\ LevelAt(K, B)
      BY <2>1 DEF LevelInv, StopPcs
    <3>2. CASE t = "poll"
      <4>1. K.call = "stop" \/ (K.call = "find_sl" /\ K.arg = 0)
        BY <2>1, <3>1 DEF LevelAt, Site, StopPcs, HoldPcs
      <4> QED
        BY <1>4, <1>7, <2>1, <3>2, <4>1
    <3>3. CASE t # "poll"
      BY <1>4, <1>7, <2>1, <3>1, <3>3 DEF LevelAt, Grown, AtLevel, HasLevel, LevelInv
    <3> QED
      BY <3>2, <3>3
  <2> QED
    BY <2>1
<1> QED
  BY <1>1, <1>4, <1>6, <1>7, <1>8, GrownKeeps

LEMMA LevelExchange ==
    ASSUME MonitorInv, LevelInv, Exchange
    PROVE  LevelInv'
<1>1. UNCHANGED <<obj, task>>
  BY DEF Exchange, EntryFills, ExitFills, UserActs, bot
<1>2. orders \in Seq(Order) /\ Grown(orders)
  BY SameGrows DEF LevelInv
<1>3. Grown(orders')
  <2>1. ASSUME NEW i, NEW st \in OrderStates
        PROVE  LET os == [orders EXCEPT ![i].st = st]
               IN  Grown(os) /\ Grown(With(With(os, "sl", 0, "live"), "tp", 0, "live"))
    <3> DEFINE os == [orders EXCEPT ![i].st = st]
    <3>1. Grown(os)
      BY <1>2, StateGrows
    <3> HIDE DEF os
    <3>2. /\ "sl" \in OrderKinds /\ "tp" \in OrderKinds /\ "live" \in OrderStates /\ 0 \in 0..2
      BY DEF OrderKinds, OrderStates
    <3>3. Grown(With(os, "sl", 0, "live"))
      BY <1>2, <3>1, <3>2, WithGrows
    <3>4. Grown(With(With(os, "sl", 0, "live"), "tp", 0, "live"))
      BY <1>2, <3>2, <3>3, WithGrows
    <3> QED
      BY <3>1, <3>4 DEF os
  <2>2. {"filled", "part", "canceled"} \subseteq OrderStates
    BY DEF OrderStates
  <2>3. ASSUME NEW i, EntryFills(i) PROVE Grown(orders')
    <3> DEFINE os(st) == [orders EXCEPT ![i].st = st]
    <3>1. \/ orders' = os("filled") \/ orders' = With(With(os("filled"), "sl", 0, "live"), "tp", 0, "live")
          \/ orders' = os("part") \/ orders' = With(With(os("part"), "sl", 0, "live"), "tp", 0, "live")
      BY <2>3 DEF EntryFills
    <3>2. \A st \in OrderStates :
             Grown(os(st)) /\ Grown(With(With(os(st), "sl", 0, "live"), "tp", 0, "live"))
      BY <2>1
    <3> HIDE DEF os
    <3> QED
      BY <2>2, <3>1, <3>2
  <2>4. ASSUME NEW i, ExitFills(i) PROVE Grown(orders')
    BY <2>1, <2>2, <2>4 DEF ExitFills
  <2>5. ASSUME UserActs PROVE Grown(orders')
    BY <1>2, <2>1, <2>2, <2>5 DEF UserActs
  <2> QED
    BY <2>3, <2>4, <2>5 DEF Exchange
<1>4. K' = K
  BY <1>1 DEF K
<1>5. K.res = "ok" /\ K.pc \in StopPcs \cup {"f.sl"} => HasLevel(orders', K.got, K.arg)
  BY <1>3 DEF LevelInv, LevelAt, StopPcs, Grown, AtLevel, HasLevel
<1>6. \A t \in Tasks : CallOK(task'[t])
  BY <1>1 DEF LevelInv
<1> QED
  BY <1>1, <1>3, <1>4, <1>5, <1>6, GrownKeeps

-----------------------------------------------------------------------------
(* Steps of the coroutines.                                                *)

\* A step of the poll loop on object o.
LevelWork(o) == /\ MonitorInv /\ LevelInv /\ o \in Objs /\ Taken(obj[o])
                /\ K.pc = "idle" \/ K.o = o
                /\ UNCHANGED orders

LEMMA LevelGoes ==
    ASSUME NEW o, NEW b, NEW k, LevelWork(o), k.pc = "idle" \/ (k.o = o /\ LevelAt(k, b)),
           CallOK(k), ObjLevel(b),
           obj' = [obj EXCEPT ![o] = b], task' = [task EXCEPT !["poll"] = k]
    PROVE  LevelInv'
<1>1. /\ DOMAIN obj = Objs /\ DOMAIN task = Tasks /\ "poll" \in Tasks
  BY DEF LevelWork, MonitorInv, Shapes, Tasks
<1>2. /\ \A p \in Objs \ {o} : obj'[p] = obj[p]
      /\ obj'[o] = b /\ o \in Objs
      /\ task'["poll"] = k /\ \A u \in Tasks \ {"poll"} : task'[u] = task[u]
  BY <1>1 DEF LevelWork
<1>3. \A p \in Objs : ObjLevel(obj[p])'
  BY <1>2 DEF LevelWork, LevelInv, ObjLevel, AtLevel
<1>4. K' = k /\ (k.pc # "idle" => B' = b)
  BY <1>2 DEF K, B
<1>5. k.pc # "idle" => LevelAt(K, B)'
  BY <1>4 DEF LevelAt, Site, AtLevel, Target, LevelWork
<1>6. \A u \in Tasks : CallOK(task'[u])
  BY <1>2 DEF LevelWork, LevelInv
<1> QED
  BY <1>3, <1>4, <1>5, <1>6 DEF LevelInv, LevelWork

\* The ways to go on.
LEMMA LevelAsks ==
    ASSUME NEW o, NEW b, NEW k, NEW pc, NEW call, NEW arg, LevelWork(o), Works(k, b, o), ObjLevel(b),
           Site(pc, call, arg, k.new, b), Call(k, b, pc, call, arg)
    PROVE  LevelInv'
<1> DEFINE k2 == [k EXCEPT !.pc = pc, !.call = call, !.arg = arg, !.res = "wait", !.got = 0]
<1>1. k2.pc = pc /\ k2.call = call /\ k2.arg = arg /\ k2.new = k.new /\ k2.res = "wait" /\ k2.o = o
  BY DEF Works, LocalOK, LocalFields, Idle
<1>2. obj' = [obj EXCEPT ![o] = b] /\ task' = [task EXCEPT !["poll"] = k2]
  BY DEF Call, AskWith, Works
<1> HIDE DEF k2
<1>3. LevelAt(k2, b)
  BY <1>1 DEF LevelAt
<1>4. call \in Calls /\ (call = "stop" => arg \in 0..2)
  BY DEF Site, Calls, Quiet, ObjLevel, Target
<1> QED
  BY <1>1, <1>2, <1>3, <1>4, LevelGoes DEF CallOK

LEMMA IdleCall == CallOK(Idle)
BY DEF CallOK, Idle

LEMMA LevelFinishes ==
    ASSUME NEW o, NEW b, NEW c, NEW k, LevelWork(o), Works(k, c, o), ObjLevel(b),
           FinishWith("poll", k, b)
    PROVE  LevelInv'
<1>1. obj' = [obj EXCEPT ![o] = b] /\ task' = [task EXCEPT !["poll"] = Idle]
  BY DEF FinishWith, Works
<1> QED
  BY <1>1, IdleOK, IdleCall, LevelGoes

\* The parts of an object that are no concern of its stop-loss.
LEMMA LevelPhases ==
    ASSUME NEW b, Taken(b), ObjLevel(b)
    PROVE  /\ \A why : ObjLevel(AsClosed(b, why)) /\ AsClosed(b, why).phase = "closed"
           /\ \A n : ObjLevel(AsEmergency(b, n))
           /\ ObjLevel([b EXCEPT !.phase = "active"])
           /\ \A n, p : p # "pending" => ObjLevel([b EXCEPT !.retries = n, !.phase = p])
<1>1. \A c : c.level = b.level /\ c.sl = b.sl /\ c.phase # "pending" => ObjLevel(c)
  BY DEF ObjLevel
<1>2. ASSUME NEW why PROVE ObjLevel(AsClosed(b, why)) /\ AsClosed(b, why).phase = "closed"
  <2> DEFINE c == AsClosed(b, why)
  <2>1. c.level = b.level /\ c.sl = b.sl /\ c.phase = "closed"
    BY DEF AsClosed, Taken, ObjFields, NoObj
  <2> HIDE DEF c
  <2> QED
    BY <1>1, <2>1 DEF c
<1>3. ASSUME NEW n PROVE ObjLevel(AsEmergency(b, n))
  <2> DEFINE c == AsEmergency(b, n)
  <2>1. c.level = b.level /\ c.sl = b.sl /\ c.phase = "emergency"
    BY DEF AsEmergency, Taken, ObjFields, NoObj
  <2> HIDE DEF c
  <2> QED
    BY <1>1, <2>1 DEF c
<1>4. ASSUME NEW n, NEW p, p # "pending"
      PROVE  ObjLevel([b EXCEPT !.phase = p]) /\ ObjLevel([b EXCEPT !.retries = n, !.phase = p])
  <2> DEFINE c == [b EXCEPT !.phase = p]
             d == [b EXCEPT !.retries = n, !.phase = p]
  <2>1. c.level = b.level /\ c.sl = b.sl /\ c.phase = p
    BY DEF Taken, ObjFields, NoObj
  <2>2. d.level = b.level /\ d.sl = b.sl /\ d.phase = p
    BY DEF Taken, ObjFields, NoObj
  <2> HIDE DEF c, d
  <2>3. ObjLevel(c) /\ ObjLevel(d)
    BY <1>1, <1>4, <2>1, <2>2
  <2> QED
    BY <2>3 DEF c, d
<1> QED
  BY <1>2, <1>3, <1>4

LEMMA LevelLeaves ==
    ASSUME NEW o, NEW b, NEW k, NEW todo, NEW why, LevelWork(o), Works(k, b, o), ObjLevel(b),
           Unwind("poll", k, b, todo, why)
    PROVE  LevelInv'
<1> DEFINE rest == SelectSeq(todo, LAMBDA c : Wanted(b, c))
           k2   == [k EXCEPT !.todo = Tail(rest), !.why = why]
<1>1. Works(k2, b, o)
  BY DEF Works, LocalOK, LocalFields, Idle
<1>2. \/ FinishWith("poll", k, AsClosed(b, why))
      \/ AskWith("poll", k2, b, "unwind", "market", 0)
      \/ AskWith("poll", k2, b, "unwind", "cancel", b[Head(rest)])
  BY DEF Unwind
<1> HIDE DEF k2, rest
<1>3. CASE FinishWith("poll", k, AsClosed(b, why))
  BY <1>3, LevelPhases, LevelFinishes DEF Works
<1>4. \A arg : Site("unwind", "market", arg, k2.new, b) /\ Site("unwind", "cancel", arg, k2.new, b)
  BY DEF Site, Quiet, Calls
<1> QED
  BY <1>1, <1>2, <1>3, <1>4, LevelAsks DEF Call

\* While the entry is being taken over, the stop-loss is the original one.
Original(o, k, b) == LevelWork(o) /\ Works(k, b, o) /\ ObjLevel(b) /\ b.level = 0

LEMMA OriginalAsks ==
    ASSUME NEW o, NEW b, NEW k, NEW pc, NEW call, NEW arg, Original(o, k, b), Call(k, b, pc, call, arg),
           \/ pc \in {"f.stop", "f.restop"} /\ call = "stop" /\ arg = 0
           \/ pc = "f.sl" /\ call = "find_sl" /\ arg = 0
           \/ pc \in {"p.fetch", "f.tp", "f.tp2", "f.verify", "f.vtp", "f.retp"} /\ call \in Quiet
    PROVE  LevelInv'
<1>1. Site(pc, call, arg, k.new, b)
  BY DEF Original, Site
<1> QED
  BY <1>1, LevelAsks DEF Original

LEMMA OriginalActivates ==
    ASSUME NEW o, NEW b, NEW k, Original(o, k, b), Activate(k, b)
    PROVE  LevelInv'
<1>1. ObjLevel([b EXCEPT !.phase = "active"])
  BY LevelPhases DEF Original, Works
<1> QED
  BY <1>1, LevelFinishes DEF Activate, Original

LEMMA OriginalVerifiesTp ==
    ASSUME NEW o, NEW b, NEW k, Original(o, k, b), VerifyTp(k, b)
    PROVE  LevelInv'
<1>1. "find_tp" \in Quiet
  BY DEF Quiet, Calls
<1> QED
  BY <1>1, OriginalAsks, OriginalActivates DEF VerifyTp

LEMMA OriginalPlacesTp ==
    ASSUME NEW o, NEW b, NEW k, Original(o, k, b), PlaceTp(k, b) \/ CheckFill(k, b)
    PROVE  LevelInv'
<1>1. \/ Call(k, b, "f.tp2", "tp", 0) \/ Call(k, b, "f.verify", "has_sl", b.sl)
      \/ VerifyTp(k, b) \/ Leave(k, b, Exits, "bad_fill")
  BY DEF PlaceTp, CheckFill, VerifySl
<1>2. "tp" \in Quiet /\ "has_sl" \in Quiet
  BY DEF Quiet, Calls
<1> QED
  BY <1>1, <1>2, OriginalAsks, OriginalVerifiesTp, LevelLeaves DEF Leave, Original

LEMMA OriginalNames ==
    ASSUME NEW o, NEW b, NEW k, NEW x, Original(o, k, b)
    PROVE  /\ AtLevel(x, 0) => Original(o, k, [b EXCEPT !.sl = x])
           /\ Original(o, k, [b EXCEPT !.tp = x])
           /\ Original(o, k, EntryFilled(b))
<1>1. Taken(b) /\ LocalOK(k) /\ k.o = o /\ ObjLevel(b) /\ b.level = 0
  BY DEF Original, Works
<1>2. LET c == [b EXCEPT !.sl = x] IN Taken(c) /\ c.sl = x /\ c.level = b.level
  BY <1>1 DEF Taken, ObjFields, NoObj
<1>3. LET c == [b EXCEPT !.tp = x] IN Taken(c) /\ c.sl = b.sl /\ c.level = b.level
  BY <1>1 DEF Taken, ObjFields, NoObj
<1>4. LET c == EntryFilled(b) IN Taken(c) /\ c.sl = b.sl /\ c.level = b.level
  BY <1>1 DEF Taken, ObjFields, NoObj, EntryFilled
<1>5. \A c : Taken(c) /\ c.level = 0 /\ (c.sl = b.sl \/ AtLevel(c.sl, 0)) => Original(o, k, c)
  BY <1>1 DEF Original, Works, ObjLevel
<1> QED
  BY <1>1, <1>2, <1>3, <1>4, <1>5

LEMMA LevelFills ==
    ASSUME MonitorInv, LevelInv, FillSteps, UNCHANGED orders
    PROVE  LevelInv'
<1>1. K.pc \in FillPcs /\ K.pc # "idle"
  BY DEF FillSteps, FoundSl, FoundTp, PlacedSl, PlacedTp, VerifiedSl, ReplacedSl, VerifiedTp, ReplacedTp,
         Here, At, K, FillPcs
<1>2. Works(K, B, K.o) /\ K.o \in Objs
  BY <1>1, PollWorks
<1>3. LocalOK(K) /\ Taken(B)
  BY <1>2 DEF Works
<1>4. LevelAt(K, B) /\ B.level = 0
  BY <1>1 DEF LevelInv, LevelAt, Site, FillPcs, StopPcs, HoldPcs
<1>5. ObjLevel(B)
  BY <1>2 DEF LevelInv, B
<1>6. \A k : Works(k, B, K.o) => Original(K.o, k, B)
  BY <1>2, <1>3, <1>4, <1>5 DEF Original, LevelWork, B
<1>7. Original(K.o, K, B)
  BY <1>2, <1>6
<1>8. /\ \A x, k : AtLevel(x, 0) /\ Original(K.o, k, B) => Original(K.o, k, [B EXCEPT !.sl = x])
      /\ \A x, k : Original(K.o, k, B) => Original(K.o, k, [B EXCEPT !.tp = x])
  BY OriginalNames
<1>9. \A x : /\ Works([K EXCEPT !.slFound = x], B, K.o) /\ Works([K EXCEPT !.n = x], B, K.o)
            /\ Works([K EXCEPT !.tpFound = x, !.n = 1], B, K.o)
  BY <1>2, <1>3, LocalsOK DEF Works
<1>10. {"find_tp", "tp"} \subseteq Quiet
  BY DEF Quiet, Calls
<1>11. Good /\ K.pc \in {"f.sl", "f.stop", "f.restop"} => AtLevel(K.got, 0)
  BY <1>4 DEF Good, Ok, K, LevelAt, Site, StopPcs, HoldPcs
<1>12. Good /\ K.pc \in {"f.sl", "f.stop", "f.restop"} => Original(K.o, K, [B EXCEPT !.sl = K.got])
  BY <1>7, <1>8, <1>11
<1>13. Original(K.o, K, [B EXCEPT !.tp = K.got])
  BY <1>7, <1>8
<1>14. CASE FoundSl
  <2> DEFINE k == [K EXCEPT !.slFound = Good]
  <2>1. Original(K.o, k, B)
    BY <1>6, <1>9
  <2>2. K.pc = "f.sl"
    BY <1>14 DEF FoundSl, Here, At, K
  <2>3. \/ Good /\ Call(k, [B EXCEPT !.sl = K.got], "f.tp", "find_tp", 0)
        \/ Call(k, B, "f.tp", "find_tp", 0)
    BY <1>14 DEF FoundSl
  <2> HIDE DEF k
  <2>4. Good => Original(K.o, k, [B EXCEPT !.sl = K.got])
    BY <1>8, <1>11, <2>1, <2>2
  <2> QED
    BY <1>10, <2>1, <2>3, <2>4, OriginalAsks
<1>15. CASE FoundTp
  <2> DEFINE k == [K EXCEPT !.tpFound = Good, !.n = 1]
             b == IF Good THEN [B EXCEPT !.tp = K.got] ELSE B
  <2>1. Original(K.o, k, B)
    BY <1>6, <1>9
  <2>2. PlaceTp(k, b) \/ Call(k, b, "f.stop", "stop", 0)
    BY <1>15 DEF FoundTp
  <2>3. Original(K.o, k, b)
    <3> HIDE DEF k
    <3>1. Original(K.o, k, [B EXCEPT !.tp = K.got])
      BY <1>8, <2>1
    <3> QED
      BY <2>1, <3>1
  <2> HIDE DEF k, b
  <2> QED
    BY <2>2, <2>3, OriginalAsks, OriginalPlacesTp
<1>16. CASE PlacedSl
  <2>1. \/ Good /\ PlaceTp(K, [B EXCEPT !.sl = K.got])
        \/ Call([K EXCEPT !.n = @ + 1], B, "f.stop", "stop", 0)
        \/ Leave(K, B, <<"market">>, "emergency")
    BY <1>16 DEF PlacedSl
  <2>2. K.pc = "f.stop"
    BY <1>16 DEF PlacedSl, Here, At, K
  <2>3. Original(K.o, [K EXCEPT !.n = @ + 1], B)
    BY <1>6, <1>9
  <2> QED
    BY <1>7, <1>12, <2>1, <2>2, <2>3, OriginalAsks, OriginalPlacesTp, LevelLeaves DEF Leave, Original
<1>17. CASE PlacedTp
  BY <1>13, <1>17, OriginalPlacesTp DEF PlacedTp
<1>18. CASE VerifiedSl
  BY <1>7, <1>18, OriginalVerifiesTp, OriginalAsks DEF VerifiedSl
<1>19. CASE ReplacedSl
  <2>1. K.pc = "f.restop"
    BY <1>19 DEF ReplacedSl, Here, At, K
  <2> QED
    BY <1>7, <1>12, <1>19, <2>1, OriginalVerifiesTp, LevelLeaves DEF ReplacedSl, Leave, Original
<1>20. CASE VerifiedTp
  BY <1>7, <1>10, <1>13, <1>20, OriginalActivates, OriginalAsks DEF VerifiedTp
<1>21. CASE ReplacedTp
  <2>1. Activate(K, [B EXCEPT !.tp = K.got]) \/ Activate(K, B)
    BY <1>21 DEF ReplacedTp
  <2> QED
    BY <1>7, <1>13, <2>1, OriginalActivates
<1> QED
  BY <1>14, <1>15, <1>16, <1>17, <1>18, <1>19, <1>20, <1>21 DEF FillSteps

\* A held position, or one just closed, whose stop-loss the handlers may move.
Stopping(o, k, b) == LevelWork(o) /\ Works(k, b, o) /\ ObjLevel(b) /\ b.phase # "pending"

LEMMA StoppingAsks ==
    ASSUME NEW o, NEW b, NEW k, NEW pc, NEW call, NEW arg, Stopping(o, k, b), Call(k, b, pc, call, arg),
           \/ pc \in {"a.restop", "v.stop", "y.stop"} /\ call = "stop" /\ arg = b.level
           \/ pc = "trail.stop" /\ call = "stop" /\ arg = Target(b)
           \/ pc = "trail.cancel" /\ call \in Quiet /\ AtLevel(k.new, Target(b))
           \/ pc \in (HoldPcs \ StopPcs) \cup {"trail.tick"} /\ call \in Quiet
    PROVE  LevelInv'
<1>1. Site(pc, call, arg, k.new, b)
  BY DEF Stopping, Site
<1> QED
  BY <1>1, LevelAsks DEF Stopping

LEMMA StoppingEnds ==
    ASSUME NEW o, NEW b, NEW k, Stopping(o, k, b), Done("poll", k, b)
    PROVE  LevelInv'
BY LevelFinishes DEF Stopping, Done

LEMMA StoppingLeaves ==
    ASSUME NEW o, NEW b, NEW k, NEW todo, NEW why, Stopping(o, k, b), Leave(k, b, todo, why)
    PROVE  LevelInv'
BY LevelLeaves DEF Stopping, Leave

LEMMA StoppingTrails ==
    ASSUME NEW o, NEW b, NEW k, Stopping(o, k, b), Trail(k, b)
    PROVE  LevelInv'
<1>1. "ticker" \in Quiet
  BY DEF Quiet, Calls
<1> QED
  BY <1>1, StoppingAsks, StoppingEnds DEF Trail

LEMMA StoppingChecks ==
    ASSUME NEW o, NEW b, NEW k, Stopping(o, k, b), CheckTp(k, b) \/ VerifyExists(k, b)
    PROVE  LevelInv'
<1>1. \/ Call(k, b, "a.tp", "fetch", b.tp) \/ Call(k, b, "a.verify", "has_sl", b.sl) \/ Trail(k, b)
  BY DEF CheckTp, VerifyExists
<1>2. {"fetch", "has_sl"} \subseteq Quiet /\ {"a.tp", "a.verify"} \subseteq HoldPcs \ StopPcs
  BY DEF Quiet, Calls, HoldPcs, StopPcs
<1> QED
  BY <1>1, <1>2, StoppingTrails, StoppingAsks

LEMMA StoppingParts ==
    ASSUME NEW o, NEW b, NEW k, Stopping(o, k, b)
    PROVE  /\ \A x : Stopping(o, k, [b EXCEPT !.fails = x])
           /\ \A x : AtLevel(x, b.level) => Stopping(o, k, Stopped(b, x))
           /\ \A x : AtLevel(x, Target(b)) => Stopping(o, k, Marked(Moved(b, x)))
           /\ Stopping(o, k, Marked(b))
<1>1. Taken(b) /\ LocalOK(k) /\ k.o = o /\ ObjLevel(b) /\ b.phase # "pending"
  BY DEF Stopping, Works
<1>2. \A c : /\ Taken(c) /\ c.phase = b.phase
            /\ \/ c.level = b.level /\ (c.sl = b.sl \/ AtLevel(c.sl, b.level))
               \/ c.level = Target(b) /\ AtLevel(c.sl, Target(b))
            => Stopping(o, k, c)
  BY <1>1 DEF Stopping, Works, ObjLevel, Target
<1>3. ASSUME NEW x PROVE Stopping(o, k, [b EXCEPT !.fails = x])
  <2> DEFINE c == [b EXCEPT !.fails = x]
  <2>1. Taken(c) /\ c.phase = b.phase /\ c.level = b.level /\ c.sl = b.sl
    BY <1>1 DEF Taken, ObjFields, NoObj
  <2> HIDE DEF c
  <2> QED
    BY <1>2, <2>1 DEF c
<1>4. ASSUME NEW x, AtLevel(x, b.level) PROVE Stopping(o, k, Stopped(b, x))
  <2> DEFINE c == Stopped(b, x)
  <2>1. Taken(c) /\ c.phase = b.phase /\ c.level = b.level /\ c.sl = x
    BY <1>1 DEF Taken, ObjFields, NoObj, Stopped
  <2> HIDE DEF c
  <2> QED
    BY <1>2, <1>4, <2>1 DEF c
<1>5. ASSUME NEW x, AtLevel(x, Target(b)) PROVE Stopping(o, k, Marked(Moved(b, x)))
  <2> DEFINE d == Moved(b, x)
             c == Marked(d)
  <2>1. Taken(d) /\ d.phase = b.phase /\ d.level = Target(b) /\ d.sl = x
    BY <1>1 DEF Taken, ObjFields, NoObj, Moved
  <2> HIDE DEF d
  <2>2. Taken(c) /\ c.phase = d.phase /\ c.level = d.level /\ c.sl = d.sl
    BY <2>1 DEF Taken, ObjFields, NoObj, Marked
  <2> HIDE DEF c
  <2> QED
    BY <1>2, <1>5, <2>1, <2>2 DEF c, d
<1>6. Stopping(o, k, Marked(b))
  <2> DEFINE c == Marked(b)
  <2>1. Taken(c) /\ c.phase = b.phase /\ c.level = b.level /\ c.sl = b.sl
    BY <1>1 DEF Taken, ObjFields, NoObj, Marked
  <2> HIDE DEF c
  <2> QED
    BY <1>2, <2>1 DEF c
<1> QED
  BY <1>3, <1>4, <1>5, <1>6

LEMMA StoppingCloses ==
    ASSUME Stopping(K.o, K, B), CloseAndTrail
    PROVE  LevelInv'
<1> DEFINE b == AsClosed(B, "sl")
           k == [K EXCEPT !.pc = "trail.tick", !.call = "ticker", !.arg = 0, !.res = "wait", !.got = 0]
<1>1. Taken(b) /\ ObjLevel(b) /\ b.phase = "closed"
  BY ClosedIsTaken, LevelPhases DEF Stopping, Works
<1>2. k.pc = "trail.tick" /\ k.o = K.o /\ k.call = "ticker" /\ k.res = "wait"
  BY DEF Stopping, Works, LocalOK, LocalFields, Idle
<1>3. obj' = [obj EXCEPT ![K.o] = b]
      /\ (task' = [task EXCEPT !["poll"] = k] \/ task' = [task EXCEPT !["poll"] = Idle])
  BY DEF CloseAndTrail
<1> HIDE DEF b, k
<1>4. LevelAt(k, b) /\ CallOK(k)
  BY <1>1, <1>2 DEF LevelAt, Site, CallOK, Quiet, Calls
<1>5. LevelWork(K.o)
  BY DEF Stopping
<1>6. CASE task' = [task EXCEPT !["poll"] = k]
  BY <1>1, <1>2, <1>3, <1>4, <1>5, <1>6, LevelGoes
<1>7. CASE task' = [task EXCEPT !["poll"] = Idle]
  BY <1>1, <1>3, <1>5, <1>7, IdleOK, IdleCall, LevelGoes
<1> QED
  BY <1>3, <1>6, <1>7

LEMMA LevelHolds ==
    ASSUME MonitorInv, LevelInv, ActiveSteps, UNCHANGED orders
    PROVE  LevelInv'
<1>1. K.pc \in HoldPcs \cup TrailPcs /\ K.pc # "idle"
  BY DEF ActiveSteps, AdoptedFetched, SlFetched, CancelledSl, RestoredSl, VanishedSl, RevivedSl, TpFetched,
         SlVerified, MissingSl, ReinstatedSl, GoneVerified, TrailTick, TrailStop, TrailCancel,
         Here, At, K, HoldPcs, TrailPcs
<1>2. Works(K, B, K.o) /\ K.o \in Objs
  BY <1>1, PollWorks
<1>3. LocalOK(K) /\ Taken(B)
  BY <1>2 DEF Works
<1>4. LevelAt(K, B) /\ B.phase # "pending" /\ ObjLevel(B)
  BY <1>1, <1>2 DEF LevelInv, LevelAt, Site, HoldPcs, StopPcs, TrailPcs, B
<1>5. \A k : Works(k, B, K.o) => Stopping(K.o, k, B)
  BY <1>2, <1>3, <1>4 DEF Stopping, LevelWork, B
<1>6. Stopping(K.o, K, B)
  BY <1>2, <1>5
<1>7. /\ \A x : Stopping(K.o, K, [B EXCEPT !.fails = x])
      /\ \A x : AtLevel(x, B.level) => Stopping(K.o, K, Stopped(B, x))
      /\ \A x : AtLevel(x, Target(B)) => Stopping(K.o, K, Marked(Moved(B, x)))
      /\ Stopping(K.o, K, Marked(B))
  BY <1>6, StoppingParts
<1>8. /\ {"position", "cancel"} \subseteq Quiet
      /\ {"a.pos", "v.pos", "y.pos", "y.tp"} \subseteq HoldPcs \ StopPcs
  BY DEF Quiet, Calls, HoldPcs, StopPcs
<1>9. /\ Good /\ K.pc \in {"a.restop", "v.stop", "y.stop"} => AtLevel(K.got, B.level)
      /\ Good /\ K.pc = "trail.stop" => AtLevel(K.got, Target(B))
      /\ K.pc = "trail.cancel" => AtLevel(K.new, Target(B))
  BY <1>4 DEF Good, Ok, K, LevelAt, Site, StopPcs, HoldPcs
<1>10. CASE AdoptedFetched
  <2>1. Leave(K, B, <<>>, "manual_close") \/ End(B)
    BY <1>10 DEF AdoptedFetched
  <2> QED
    BY <1>6, <2>1, StoppingLeaves, StoppingEnds DEF End
<1>11. CASE SlFetched
  <2>1. \/ Leave(K, B, <<"tp">>, "sl") \/ Call(K, B, "a.pos", "position", 0)
        \/ \E x : \/ Call(K, [B EXCEPT !.fails = x], "v.pos", "position", 0)
                 \/ CheckTp(K, [B EXCEPT !.fails = x])
    BY <1>11 DEF SlFetched
  <2> QED
    BY <1>6, <1>7, <1>8, <2>1, StoppingLeaves, StoppingAsks, StoppingChecks
<1>12. CASE CancelledSl
  <2>1. Leave(K, B, <<"tp">>, "manual_close") \/ Call(K, B, "a.restop", "stop", B.level)
    BY <1>12 DEF CancelledSl
  <2> QED
    BY <1>6, <2>1, StoppingLeaves, StoppingAsks
<1>13. CASE RestoredSl
  <2>1. (Good /\ End(Stopped(B, K.got))) \/ End(B)
    BY <1>13 DEF RestoredSl
  <2>2. K.pc = "a.restop"
    BY <1>13 DEF RestoredSl, Here, At, K
  <2> QED
    BY <1>6, <1>7, <1>9, <2>1, <2>2, StoppingEnds DEF End
<1>14. CASE VanishedSl
  <2>1. Leave(K, B, <<"tp">>, "sl") \/ Call(K, B, "v.stop", "stop", B.level) \/ End(B)
    BY <1>14 DEF VanishedSl
  <2> QED
    BY <1>6, <2>1, StoppingLeaves, StoppingAsks, StoppingEnds DEF End
<1>15. CASE RevivedSl
  <2>1. (Good /\ End(Stopped(B, K.got))) \/ End(AsEmergency(B, 0))
    BY <1>15 DEF RevivedSl
  <2>2. K.pc = "v.stop"
    BY <1>15 DEF RevivedSl, Here, At, K
  <2>3. ASSUME End(AsEmergency(B, 0)) PROVE LevelInv'
    <3>1. ObjLevel(AsEmergency(B, 0))
      BY <1>3, <1>4, LevelPhases
    <3> QED
      BY <1>6, <2>3, <3>1, LevelFinishes DEF End, Done, Stopping
  <2> QED
    BY <1>7, <1>9, <2>1, <2>2, <2>3, StoppingEnds DEF End
<1>16. CASE TpFetched
  <2>1. Leave(K, B, <<"sl">>, "tp") \/ VerifyExists(K, B)
    BY <1>16 DEF TpFetched
  <2> QED
    BY <1>6, <2>1, StoppingLeaves, StoppingChecks
<1>17. CASE SlVerified
  <2>1. Trail(K, B) \/ Call(K, B, "y.pos", "position", 0)
    BY <1>17 DEF SlVerified
  <2> QED
    BY <1>6, <1>8, <2>1, StoppingTrails, StoppingAsks
<1>18. CASE MissingSl
  <2>1. \/ Call(K, B, "y.stop", "stop", B.level) \/ CloseAndTrail
        \/ Call(K, B, "y.tp", "cancel", B.tp) \/ Trail(K, B)
    BY <1>18 DEF MissingSl
  <2> QED
    BY <1>6, <1>8, <2>1, StoppingCloses, StoppingTrails, StoppingAsks
<1>19. CASE ReinstatedSl
  <2>1. (Good /\ Trail(K, Stopped(B, K.got))) \/ Trail(K, B)
    BY <1>19 DEF ReinstatedSl
  <2>2. K.pc = "y.stop"
    BY <1>19 DEF ReinstatedSl, Here, At, K
  <2> QED
    BY <1>6, <1>7, <1>9, <2>1, <2>2, StoppingTrails
<1>20. CASE GoneVerified
  BY <1>6, <1>20, StoppingCloses DEF GoneVerified
<1>21. CASE TrailTick
  <2>1. Call(K, B, "trail.stop", "stop", Target(B)) \/ End(B)
    BY <1>21 DEF TrailTick
  <2> QED
    BY <1>6, <2>1, StoppingAsks, StoppingEnds DEF End
<1>22. CASE TrailStop
  <2>1. \/ Trail(K, Marked(B))
        \/ Good /\ Trail(K, Marked(Moved(B, K.got)))
        \/ Good /\ Call([K EXCEPT !.new = K.got], B, "trail.cancel", "cancel", B.sl)
    BY <1>22 DEF TrailStop
  <2>2. K.pc = "trail.stop"
    BY <1>22 DEF TrailStop, Here, At, K
  <2>3. Stopping(K.o, [K EXCEPT !.new = K.got], B) /\ [K EXCEPT !.new = K.got].new = K.got
    <3>1. Works([K EXCEPT !.new = K.got], B, K.o)
      BY <1>3, LocalsOK DEF Works
    <3>2. [K EXCEPT !.new = K.got].new = K.got
      BY <1>3 DEF LocalOK, LocalFields, Idle
    <3> QED
      BY <1>5, <3>1, <3>2
  <2> QED
    BY <1>7, <1>8, <1>9, <2>1, <2>2, <2>3, StoppingTrails, StoppingAsks
<1>23. CASE TrailCancel
  <2>1. K.pc = "trail.cancel"
    BY <1>23 DEF TrailCancel, Here, At, K
  <2> QED
    BY <1>7, <1>9, <1>23, <2>1, StoppingTrails DEF TrailCancel
<1> QED
  BY <1>10, <1>11, <1>12, <1>13, <1>14, <1>15, <1>16, <1>17, <1>18, <1>19, <1>20, <1>21, <1>22, <1>23
  DEF ActiveSteps

LEMMA LevelPends ==
    ASSUME MonitorInv, LevelInv, PendingFetched \/ EmergencyRetried, UNCHANGED orders
    PROVE  LevelInv'
<1>1. K.pc # "idle"
  BY DEF PendingFetched, EmergencyRetried, Here, At, K
<1>2. Works(K, B, K.o) /\ K.o \in Objs
  BY <1>1, PollWorks
<1>3. LevelAt(K, B) /\ ObjLevel(B) /\ LevelWork(K.o) /\ Taken(B)
  BY <1>1, <1>2 DEF LevelInv, LevelWork, Works, B
<1>4. CASE PendingFetched
  <2>1. B.level = 0
    BY <1>3, <1>4 DEF PendingFetched, Here, At, K, LevelAt, Site, HoldPcs, StopPcs
  <2>2. Original(K.o, K, B)
    BY <1>2, <1>3, <2>1 DEF Original
  <2>3. Original(K.o, K, EntryFilled(B))
    BY <2>2, OriginalNames
  <2>4. \/ Call(K, EntryFilled(B), "f.sl", "find_sl", 0) \/ Leave(K, B, <<>>, "cancelled") \/ End(B)
    BY <1>4 DEF PendingFetched
  <2> QED
    BY <1>2, <1>3, <2>3, <2>4, OriginalAsks, LevelLeaves, LevelFinishes DEF Leave, End, Done
<1>5. CASE EmergencyRetried
  <2>1. ASSUME NEW n, NEW p, p # "pending", End([B EXCEPT !.retries = n, !.phase = p]) PROVE LevelInv'
    <3>1. ObjLevel([B EXCEPT !.retries = n, !.phase = p])
      BY <1>3, <2>1, LevelPhases
    <3> QED
      BY <1>2, <1>3, <2>1, <3>1, LevelFinishes DEF End, Done
  <2>2. ASSUME NEW n, B.phase = "pending", End([B EXCEPT !.retries = n, !.phase = B.phase]) PROVE LevelInv'
    <3> DEFINE b == [B EXCEPT !.retries = n, !.phase = B.phase]
    <3>1. b.level = B.level /\ b.sl = B.sl /\ b.phase = B.phase
      BY <1>3 DEF Taken, ObjFields, NoObj
    <3> HIDE DEF b
    <3>2. ObjLevel(b)
      BY <1>3, <3>1 DEF ObjLevel
    <3> QED
      BY <1>2, <1>3, <2>2, <3>2, LevelFinishes DEF End, Done, b
  <2>3. \/ Leave(K, B, <<>>, "emergency")
        \/ End([B EXCEPT !.retries = B.retries + 1, !.phase = "failed"])
        \/ End([B EXCEPT !.retries = B.retries + 1, !.phase = B.phase])
    BY <1>5 DEF EmergencyRetried
  <2>4. CASE Leave(K, B, <<>>, "emergency")
    BY <1>2, <1>3, <2>4, LevelLeaves DEF Leave
  <2> QED
    BY <2>1, <2>2, <2>3, <2>4
<1> QED
  BY <1>4, <1>5

LEMMA LevelStarts ==
    ASSUME MonitorInv, LevelInv, PollStart
    PROVE  LevelInv'
<1> DEFINE k == [Idle EXCEPT !.o = tracked]
           b == obj[tracked]
<1>1. /\ K.pc = "idle" /\ tracked # 0 /\ tracked \in Objs /\ Taken(b) /\ UNCHANGED orders
      /\ ObjLevel(b)
  BY DEF PollStart, MonitorInv, LevelInv, Shapes, Objs, okx
<1>2. Works(k, b, tracked)
  BY <1>1 DEF Works, LocalOK, LocalFields, Idle
<1>3. LevelWork(tracked)
  BY <1>1 DEF LevelWork
<1>4. \/ b.phase = "pending" /\ (Leave(k, b, <<"entry">>, "cancelled") \/ Call(k, b, "p.fetch", "fetch", b.entry))
      \/ b.phase = "active" /\ CheckActive(k, b)
      \/ b.phase = "emergency" /\ Call(k, b, "e.mkt", "market", 0)
  BY DEF PollStart
<1>5. /\ {"fetch", "market", "position"} \subseteq Quiet
      /\ {"a.sl", "a.adopt"} \subseteq HoldPcs \ StopPcs
  BY DEF Quiet, Calls, HoldPcs, StopPcs
<1> HIDE DEF k
<1>6. CASE b.phase = "pending" /\ (Leave(k, b, <<"entry">>, "cancelled") \/ Call(k, b, "p.fetch", "fetch", b.entry))
  <2>1. Original(tracked, k, b)
    BY <1>1, <1>2, <1>3, <1>6 DEF Original, ObjLevel
  <2> QED
    BY <1>1, <1>2, <1>3, <1>5, <1>6, <2>1, LevelLeaves, OriginalAsks DEF Leave
<1>7. CASE b.phase = "active" /\ CheckActive(k, b)
  <2>1. Stopping(tracked, k, b)
    BY <1>1, <1>2, <1>3, <1>7 DEF Stopping
  <2>2. CASE b.due
    BY <1>7, <2>1, <2>2, StoppingLeaves DEF CheckActive
  <2>3. CASE ~b.due /\ b.sl # 0
    BY <1>5, <1>7, <2>1, <2>3, StoppingAsks DEF CheckActive
  <2>4. CASE ~b.due /\ b.sl = 0 /\ b.tp # 0
    BY <1>7, <2>1, <2>4, StoppingChecks DEF CheckActive
  <2>5. CASE ~b.due /\ b.sl = 0 /\ b.tp = 0
    BY <1>5, <1>7, <2>1, <2>5, StoppingAsks DEF CheckActive
  <2> QED
    BY <2>2, <2>3, <2>4, <2>5
<1>8. CASE b.phase = "emergency" /\ Call(k, b, "e.mkt", "market", 0)
  <2>1. Site("e.mkt", "market", 0, k.new, b)
    BY <1>5 DEF Site
  <2> QED
    BY <1>1, <1>2, <1>3, <1>8, <2>1, LevelAsks
<1> QED
  BY <1>4, <1>6, <1>7, <1>8

\* Another coroutine may take a position out of its phase, but neither its
\* stop-loss nor the level of it.
LEMMA LevelBeside ==
    ASSUME MonitorInv, LevelInv, UNCHANGED orders, DOMAIN obj' = Objs,
           task'["poll"] = task["poll"], \A t \in Tasks : CallOK(task'[t]),
           \A o \in Objs : ObjLevel(obj'[o]),
           \A o \in Objs : Taken(obj[o]) => /\ obj'[o].level = obj[o].level /\ obj'[o].be = obj[o].be
                                            /\ obj'[o].phase = "pending" => obj[o].phase = "pending"
    PROVE  LevelInv'
<1>1. K' = K
  BY DEF K
<1>2. ASSUME K.pc # "idle" PROVE LevelAt(K, B)'
  <2>1. K.o \in Objs /\ Taken(B)
    BY <1>2, PollWorks DEF Works
  <2>2. B'.level = B.level /\ B'.be = B.be /\ (B'.phase = "pending" => B.phase = "pending")
    <3>1. PICK p \in Objs : p = K.o
      BY <2>1
    <3>2. B = obj[p] /\ B' = obj'[p]
      BY <1>1, <3>1 DEF B
    <3>3. Taken(obj[p])
      BY <2>1, <3>2
    <3>4. /\ obj'[p].level = obj[p].level /\ obj'[p].be = obj[p].be
          /\ (obj'[p].phase = "pending" => obj[p].phase = "pending")
      BY <3>3
    <3> QED
      BY <3>2, <3>4
  <2>3. LevelAt(K, B)
    BY <1>2 DEF LevelInv
  <2> QED
    BY <1>1, <2>2, <2>3 DEF LevelAt, Site, AtLevel, Target
<1>3. \A o \in Objs : ObjLevel(obj[o])'
  BY DEF ObjLevel, AtLevel
<1> QED
  BY <1>1, <1>2, <1>3 DEF LevelInv

\* The coroutine that a dashboard cancel starts, and any that leaves a position.
LEMMA UnwoundBeside ==
    ASSUME MonitorInv, LevelInv, UNCHANGED orders, NEW t \in Tasks \ {"poll"}, NEW o \in Objs,
           Taken(obj[o]), NEW b, Taken(b), NEW k, CallOK(k),
           obj' = [obj EXCEPT ![o] = b], task' = [task EXCEPT ![t] = k], ObjLevel(b),
           b.level = obj[o].level, b.be = obj[o].be, b.phase = "pending" => obj[o].phase = "pending"
    PROVE  LevelInv'
<1>1. DOMAIN task = Tasks /\ DOMAIN obj = Objs /\ "poll" \in Tasks
  BY DEF MonitorInv, Shapes, Tasks
<1>2. /\ DOMAIN obj' = Objs /\ obj'[o] = b /\ \A p \in Objs \ {o} : obj'[p] = obj[p]
      /\ task'[t] = k /\ \A u \in Tasks \ {t} : task'[u] = task[u]
  BY <1>1
<1>3. \A p \in Objs : ObjLevel(obj'[p])
  BY <1>2 DEF LevelInv
<1>4. \A u \in Tasks : CallOK(task'[u])
  BY <1>2 DEF LevelInv
<1>5. task'["poll"] = task["poll"]
  BY <1>1, <1>2
<1> QED
  BY <1>2, <1>3, <1>4, <1>5, LevelBeside

LEMMA BesideAsks ==
    ASSUME MonitorInv, LevelInv, UNCHANGED orders, NEW t \in Tasks \ {"poll"}, NEW o \in Objs,
           Taken(obj[o]), NEW k, Works(k, obj[o], o), NEW pc, NEW call \in Quiet, NEW arg,
           AskWith(t, k, obj[o], pc, call, arg)
    PROVE  LevelInv'
<1> DEFINE k2 == [k EXCEPT !.pc = pc, !.call = call, !.arg = arg, !.res = "wait", !.got = 0]
<1>1. k2.call = call
  BY DEF Works, LocalOK, LocalFields, Idle
<1>2. obj' = [obj EXCEPT ![o] = obj[o]] /\ task' = [task EXCEPT ![t] = k2]
  BY DEF AskWith, Works
<1> HIDE DEF k2
<1>3. CallOK(k2) /\ ObjLevel(obj[o])
  BY <1>1 DEF CallOK, Quiet, LevelInv
<1> QED
  BY <1>2, <1>3, UnwoundBeside

LEMMA BesideLeaves ==
    ASSUME MonitorInv, LevelInv, UNCHANGED orders, NEW t \in Tasks \ {"poll"}, NEW o \in Objs,
           Taken(obj[o]), NEW k, Works(k, obj[o], o), NEW todo, NEW why, Unwind(t, k, obj[o], todo, why)
    PROVE  LevelInv'
<1> DEFINE rest == SelectSeq(todo, LAMBDA c : Wanted(obj[o], c))
           k2   == [k EXCEPT !.todo = Tail(rest), !.why = why]
           b    == AsClosed(obj[o], why)
<1>1. Works(k2, obj[o], o)
  BY DEF Works, LocalOK, LocalFields, Idle
<1>2. \/ FinishWith(t, k, b)
      \/ AskWith(t, k2, obj[o], "unwind", "market", 0)
      \/ AskWith(t, k2, obj[o], "unwind", "cancel", obj[o][Head(rest)])
  BY DEF Unwind
<1> HIDE DEF k2, rest
<1>3. "market" \in Quiet /\ "cancel" \in Quiet
  BY DEF Quiet, Calls
<1>4. CASE FinishWith(t, k, b)
  <2>1. ObjLevel(obj[o])
    BY DEF LevelInv
  <2>2. ObjLevel(b) /\ Taken(b) /\ b.phase # "pending"
    BY <2>1, ClosedIsTaken, LevelPhases
  <2>3. b.level = obj[o].level /\ b.be = obj[o].be
    BY DEF AsClosed, Taken, ObjFields, NoObj
  <2>4. obj' = [obj EXCEPT ![o] = b] /\ task' = [task EXCEPT ![t] = Idle]
    BY <1>4 DEF FinishWith, Works
  <2> HIDE DEF b
  <2> QED
    BY <2>2, <2>3, <2>4, IdleCall, UnwoundBeside
<1> QED
  BY <1>1, <1>2, <1>3, <1>4, BesideAsks

LEMMA LevelUnwinds ==
    ASSUME MonitorInv, LevelInv, NEW t \in Tasks, Unwinding(t), UNCHANGED orders
    PROVE  LevelInv'
<1>1. task[t].pc = "unwind"
  BY DEF Unwinding, At
<1>2. t # "exec" /\ task[t].o \in Objs /\ Taken(obj[task[t].o]) /\ LocalOK(task[t])
  BY <1>1 DEF MonitorInv, Holds, Shapes
<1> DEFINE o == task[t].o
           b == AsEmergency(obj[o], 1)
<1>3. \/ Done(t, task[t], b)
      \/ Unwind(t, task[t], obj[o], task[t].todo, task[t].why)
  BY DEF Unwinding, Obj
<1>4. Works(task[t], obj[o], o)
  BY <1>2 DEF Works
<1>5. /\ ObjLevel(b) /\ Taken(b) /\ b.level = obj[o].level /\ b.be = obj[o].be
      /\ b.phase = "emergency"
  <2>1. ObjLevel(obj[o])
    BY <1>2 DEF LevelInv
  <2>2. ObjLevel(b) /\ Taken(b)
    BY <1>2, <2>1, LevelPhases, FieldsTaken
  <2> QED
    BY <1>2, <2>2 DEF AsEmergency, Taken, ObjFields, NoObj
<1>6. CASE t = "poll"
  <2>1. LevelWork(o)
    BY <1>2, <1>6 DEF LevelWork, K
  <2>2. ObjLevel(obj[o])
    BY <1>2 DEF LevelInv
  <2> HIDE DEF o, b
  <2> QED
    BY <1>3, <1>4, <1>5, <1>6, <2>1, <2>2, LevelFinishes, LevelLeaves DEF Done
<1>7. CASE t # "poll"
  <2>1. CASE Done(t, task[t], b)
    <3>1. obj' = [obj EXCEPT ![o] = b] /\ task' = [task EXCEPT ![t] = Idle]
      BY <2>1 DEF Done, FinishWith
    <3> HIDE DEF b
    <3> QED
      BY <1>2, <1>5, <1>7, <3>1, IdleCall, UnwoundBeside
  <2>2. CASE Unwind(t, task[t], obj[o], task[t].todo, task[t].why)
    BY <1>2, <1>4, <1>7, <2>2, BesideLeaves
  <2> QED
    BY <1>3, <2>1, <2>2
<1> QED
  BY <1>6, <1>7

LEMMA LevelCommands ==
    ASSUME MonitorInv, LevelInv, UNCHANGED orders, PollCancel \/ HandleCancel \/ PanicStart \/ PanicReported
    PROVE  LevelInv'
<1>1. DOMAIN task = Tasks /\ DOMAIN obj = Objs /\ Tasks = {"poll", "cancel", "exec", "panic"}
  BY DEF MonitorInv, Shapes, Tasks
<1>2. CASE PollCancel
  <2> DEFINE k == [Idle EXCEPT !.o = tracked, !.pc = "start"]
  <2>1. CallOK(k)
    BY DEF CallOK, Idle
  <2>2. UNCHANGED obj /\ task' = [task EXCEPT !["cancel"] = k]
    BY <1>2 DEF PollCancel
  <2> HIDE DEF k
  <2>3. task'["poll"] = task["poll"] /\ \A u \in Tasks : CallOK(task'[u])
    BY <1>1, <2>1, <2>2 DEF LevelInv
  <2>4. \A o \in Objs : ObjLevel(obj'[o])
    BY <2>2 DEF LevelInv
  <2> QED
    BY <1>1, <2>2, <2>3, <2>4, LevelBeside
<1>3. CASE HandleCancel
  <2> DEFINE k == task["cancel"]
  <2>1. k.o \in Objs /\ Taken(obj[k.o]) /\ LocalOK(k)
    BY <1>1, <1>3 DEF HandleCancel, At, MonitorInv, Holds, Shapes
  <2>2. \E todo, why : Unwind("cancel", k, obj[k.o], todo, why)
    BY <1>3 DEF HandleCancel, Obj
  <2>3. PICK todo, why : Unwind("cancel", k, obj[k.o], todo, why)
    BY <2>2
  <2>4. Works(k, obj[k.o], k.o) /\ "cancel" \in Tasks \ {"poll"}
    BY <1>1, <2>1 DEF Works
  <2> QED
    BY <2>1, <2>3, <2>4, BesideLeaves
<1>4. CASE PanicStart
  <2> DEFINE k == [Idle EXCEPT !.o = tracked]
  <2>1. tracked \in Objs /\ Taken(obj[tracked])
    BY <1>4 DEF PanicStart, MonitorInv, Shapes, Objs
  <2>2. Works(k, obj[tracked], tracked)
    BY <2>1 DEF Works, LocalOK, LocalFields, Idle
  <2>3. \/ AskWith("panic", k, obj[tracked], "k.cancel", "cancel", obj[tracked].entry)
        \/ AskWith("panic", k, obj[tracked], "k.mkt", "market_dir", 0)
    BY <1>4 DEF PanicStart
  <2>4. "cancel" \in Quiet /\ "market_dir" \in Quiet /\ "panic" \in Tasks \ {"poll"}
    BY <1>1 DEF Quiet, Calls
  <2> HIDE DEF k
  <2> QED
    BY <2>1, <2>2, <2>3, <2>4, BesideAsks
<1>5. CASE PanicReported
  <2> DEFINE o == task["panic"].o
  <2>1. Done("panic", task["panic"], obj[o]) /\ task["panic"].pc # "idle"
    BY <1>5 DEF PanicReported, At, Obj
  <2>2. o \in Objs /\ Taken(obj[o]) /\ "panic" \in Tasks \ {"poll"}
    BY <1>1, <2>1 DEF MonitorInv, Holds
  <2>3. ObjLevel(obj[o])
    BY <2>2 DEF LevelInv
  <2>4. obj' = [obj EXCEPT ![o] = obj[o]] /\ task' = [task EXCEPT !["panic"] = Idle]
    BY <2>1 DEF Done, FinishWith
  <2> QED
    BY <2>2, <2>3, <2>4, IdleCall, UnwoundBeside
<1> QED
  BY <1>2, <1>3, <1>4, <1>5

LEMMA LevelExecutes ==
    ASSUME MonitorInv, LevelInv, UNCHANGED orders, ExecStart \/ Replace \/ Register
    PROVE  LevelInv'
<1>1. DOMAIN task = Tasks /\ DOMAIN obj = Objs /\ Tasks = {"poll", "cancel", "exec", "panic"}
  BY DEF MonitorInv, Shapes, Tasks
<1>2. ASSUME NEW k, CallOK(k), task' = [task EXCEPT !["exec"] = k]
      PROVE  task'["poll"] = task["poll"] /\ \A u \in Tasks : CallOK(task'[u])
  BY <1>1, <1>2 DEF LevelInv
<1>3. ASSUME NEW o \in Unused, NEW b, NEW k, CallOK(k), task' = [task EXCEPT !["exec"] = k],
             obj' = [obj EXCEPT ![o] = b], ObjLevel(b)
      PROVE  LevelInv'
  <2>1. o \in Objs /\ ~Taken(obj[o])
    BY <1>3 DEF Unused, Taken
  <2>2. DOMAIN obj' = Objs /\ obj'[o] = b /\ \A p \in Objs \ {o} : obj'[p] = obj[p]
    BY <1>1, <1>3, <2>1
  <2>3. \A p \in Objs : ObjLevel(obj'[p])
    BY <1>3, <2>2 DEF LevelInv
  <2>4. task'["poll"] = task["poll"] /\ \A u \in Tasks : CallOK(task'[u])
    BY <1>2, <1>3
  <2> QED
    BY <2>1, <2>2, <2>3, <2>4, LevelBeside
<1>4. ASSUME NEW o \in Objs, NEW k, CallOK(k), task' = [task EXCEPT !["exec"] = k],
             obj' = [obj EXCEPT ![o] = obj[o]]
      PROVE  LevelInv'
  <2>1. DOMAIN obj' = Objs /\ \A p \in Objs : obj'[p] = obj[p]
    BY <1>1, <1>4
  <2>2. \A p \in Objs : ObjLevel(obj'[p])
    BY <2>1 DEF LevelInv
  <2>3. task'["poll"] = task["poll"] /\ \A u \in Tasks : CallOK(task'[u])
    BY <1>2, <1>4
  <2> QED
    BY <2>1, <2>2, <2>3, LevelBeside
<1>5. /\ Unused # {} => First(Unused) \in Unused
      /\ ObjLevel(NoObj) /\ \A i : ObjLevel([NoObj EXCEPT !.phase = "pending", !.entry = i])
  BY FirstIsUnused DEF ObjLevel, NoObj
<1>6. CASE ExecStart
  <2> DEFINE k(x) == [Idle EXCEPT !.o = x]
  <2>1. \A x : LocalOK(k(x)) /\ k(x).o = x
    BY DEF LocalOK, LocalFields, Idle
  <2>2. \/ Unused # {} /\ AskWith("exec", k(First(Unused)), NoObj, "n.place", "entry", 0)
        \/ tracked # 0 /\ AskWith("exec", k(tracked), obj[tracked], "n.cancel", "cancel", obj[tracked].entry)
    BY <1>6 DEF ExecStart, PlaceEntry
  <2> HIDE DEF k
  <2>3. CASE Unused # {} /\ AskWith("exec", k(First(Unused)), NoObj, "n.place", "entry", 0)
    <3> DEFINE x == First(Unused)
               c == [k(x) EXCEPT !.pc = "n.place", !.call = "entry", !.arg = 0, !.res = "wait", !.got = 0]
    <3>1. c.call = "entry"
      BY <2>1 DEF LocalOK, LocalFields, Idle
    <3>2. task' = [task EXCEPT !["exec"] = c] /\ obj' = [obj EXCEPT ![x] = NoObj]
      BY <2>1, <2>3 DEF AskWith
    <3>3. CallOK(c)
      BY <3>1 DEF CallOK, Calls
    <3> HIDE DEF c
    <3> QED
      BY <1>3, <1>5, <2>3, <3>2, <3>3
  <2>4. CASE tracked # 0 /\ AskWith("exec", k(tracked), obj[tracked], "n.cancel", "cancel", obj[tracked].entry)
    <3>1. tracked \in Objs /\ Taken(obj[tracked])
      BY <2>4 DEF MonitorInv, Shapes, Objs
    <3>2. Works(k(tracked), obj[tracked], tracked) /\ "cancel" \in Quiet /\ "exec" \in Tasks \ {"poll"}
      BY <1>1, <2>1, <3>1 DEF Works, Quiet, Calls
    <3> QED
      BY <2>4, <3>1, <3>2, BesideAsks
  <2> QED
    BY <2>2, <2>3, <2>4
<1>7. CASE Replace
  <2>1. task["exec"].o \in Objs
    BY <1>1, <1>7 DEF Replace, At, MonitorInv, Holds
  <2>2. \/ UNCHANGED obj /\ task' = [task EXCEPT !["exec"] = [Idle EXCEPT !.o = First(Unused), !.pc = "n.place",
                                                            !.call = "entry", !.res = "wait"]]
        \/ Done("exec", task["exec"], obj[task["exec"].o])
    BY <1>7 DEF Replace, Obj
  <2>3. CallOK([Idle EXCEPT !.o = First(Unused), !.pc = "n.place", !.call = "entry", !.res = "wait"])
    BY DEF CallOK, Idle, Calls
  <2>4. ASSUME NEW k, CallOK(k), UNCHANGED obj, task' = [task EXCEPT !["exec"] = k] PROVE LevelInv'
    <3>1. task'["poll"] = task["poll"] /\ \A u \in Tasks : CallOK(task'[u])
      BY <1>2, <2>4
    <3>2. \A p \in Objs : ObjLevel(obj'[p])
      BY <2>4 DEF LevelInv
    <3> QED
      BY <1>1, <2>4, <3>1, <3>2, LevelBeside
  <2> QED
    BY <1>4, <2>1, <2>2, <2>3, <2>4, IdleCall DEF Done, FinishWith
<1>8. CASE Register
  <2>1. task["exec"].o \in Unused
    BY <1>1, <1>8 DEF Register, At, MonitorInv, Holds
  <2>2. /\ task' = [task EXCEPT !["exec"] = Idle]
        /\ \/ obj' = [obj EXCEPT ![task["exec"].o] = [NoObj EXCEPT !.phase = "pending", !.entry = task["exec"].got]]
           \/ obj' = [obj EXCEPT ![task["exec"].o] = NoObj]
    BY <1>8 DEF Register, Done, FinishWith
  <2> QED
    BY <1>3, <1>5, <2>1, <2>2, IdleCall
<1> QED
  BY <1>6, <1>7, <1>8

LEMMA LevelExpires ==
    ASSUME MonitorInv, LevelInv, NEW o \in Objs, Expire(o)
    PROVE  LevelInv'
<1>1. UNCHANGED <<task, orders>> /\ obj' = [obj EXCEPT ![o].due = TRUE]
  BY DEF Expire, okx
<1>2. /\ DOMAIN obj' = Objs /\ \A p \in Objs \ {o} : obj'[p] = obj[p]
      /\ obj'[o].phase = obj[o].phase /\ obj'[o].level = obj[o].level /\ obj'[o].sl = obj[o].sl
      /\ obj'[o].be = obj[o].be
  BY <1>1 DEF MonitorInv, Shapes, ObjFields, NoObj
<1>3. \A p \in Objs : ObjLevel(obj'[p])
  BY <1>2 DEF LevelInv, ObjLevel
<1>4. task'["poll"] = task["poll"] /\ \A t \in Tasks : CallOK(task'[t])
  BY <1>1 DEF LevelInv
<1> QED
  BY <1>1, <1>2, <1>3, <1>4, LevelBeside

LEMMA LevelBegins == Init => LevelInv
<1> SUFFICES ASSUME Init PROVE LevelInv
  OBVIOUS
<1>1. orders \in Seq(Order)
  BY DEF Init
<1>2. \A t \in Tasks : CallOK(task[t]) /\ task[t].pc = "idle"
  BY IdleOK, IdleCall DEF Init
<1>3. K.pc = "idle"
  BY <1>2 DEF K, Tasks
<1>4. NoObj.level = 0 /\ NoObj.sl = 0
  BY DEF NoObj
<1>5. 1 \in Objs
  BY BoundsAssumption DEF Objs
<1>6. \A o \in Objs : obj[o].level = 0 /\ obj[o].sl = 0
  <2>1. CASE obj = [o \in Objs |-> NoObj]
    BY <1>4, <2>1
  <2>2. CASE obj = [[o \in Objs |-> NoObj] EXCEPT ![1].phase = "active", ![1].filled = TRUE]
    BY <1>5, <2>2 DEF NoObj
  <2> QED
    BY <2>1, <2>2 DEF Init
<1>7. \A o \in Objs : ObjLevel(obj[o])
  BY <1>6 DEF ObjLevel
<1> QED
  BY <1>1, <1>2, <1>3, <1>7 DEF LevelInv

LEMMA LevelNext == MonitorInv /\ LevelInv /\ [Next]_vars => LevelInv'
<1> SUFFICES ASSUME MonitorInv, LevelInv, [Next]_vars PROVE LevelInv'
  OBVIOUS
<1>1. ASSUME NEW t \in Tasks, Serve(t) PROVE LevelInv'
  BY <1>1, LevelServes
<1>2. ASSUME NEW t \in Tasks, Resume(t) PROVE LevelInv'
  <2>1. UNCHANGED orders
    BY <1>2 DEF Resume, okx
  <2>2. CASE PollSteps
    BY <2>1, <2>2, LevelPends, LevelFills, LevelHolds DEF PollSteps
  <2> QED
    BY <1>2, <2>1, <2>2, LevelUnwinds, LevelExecutes, LevelCommands DEF Resume
<1>3. CASE PollStart
  BY <1>3, LevelStarts
<1>4. CASE PollCancel \/ PanicStart
  <2>1. UNCHANGED orders
    BY <1>4 DEF PollCancel, PanicStart, okx
  <2> QED
    BY <1>4, <2>1, LevelCommands
<1>5. CASE ExecStart
  <2>1. UNCHANGED orders
    BY <1>5 DEF ExecStart, okx
  <2> QED
    BY <1>5, <2>1, LevelExecutes
<1>6. ASSUME NEW o \in Objs, Expire(o) PROVE LevelInv'
  BY <1>6, LevelExpires
<1>7. CASE Exchange
  BY <1>7, LevelExchange
<1>8. CASE UNCHANGED vars
  <2>1. UNCHANGED <<task, obj, orders>>
    BY <1>8 DEF vars
  <2> QED
    BY <2>1 DEF LevelInv, LevelAt, Site, ObjLevel, AtLevel, Target, K, B, CallOK
<1> QED
  BY <1>1, <1>2, <1>3, <1>4, <1>5, <1>6, <1>7, <1>8 DEF Next

\* The stop-loss a managed position names sits at the level recorded for it
\* (monitor.py, current_sl_price), for every number of positions and whatever
\* fails, is cancelled, replaced or moved meanwhile.
THEOREM StopsWhereRecorded == Spec => []StopWhereRecorded
<1>1. MonitorInv /\ LevelInv => StopWhereRecorded
  BY DEF MonitorInv, Shapes, LevelInv, ObjLevel, AtLevel, HasLevel, StopWhereRecorded, Objs
<1>2. MonitorInv /\ LevelInv /\ [Next]_vars => MonitorInv' /\ LevelInv'
  BY MonitorStep, LevelNext
<1> QED
  BY <1>1, <1>2, MonitorStarts, LevelBegins, PTL DEF Spec

-----------------------------------------------------------------------------
(* One position: on the exchange it has a stop-loss while it is open.      *)

\* One position, and nothing takes a stop-loss away or loses an order.
OnePosition == MaxObjs = 1 /\ Faults \subseteq {"api", "attach", "partial"}

Pos      == obj[1]
Placer == task["exec"]
Panicked == task["panic"]
Leaver   == task["cancel"]

\* The entry orders, and those that will not fill any more.
IsEntry(i) == i \in 1..Len(orders) /\ orders[i].kind = "entry"
Over       == {"filled", "partcan"}
Placed     == Placer.pc = "n.place" /\ Placer.res = "ok"

\* There is one entry order, it fills once, and an object that says so is right.
EntryInv ==
    /\ size \in 0..1
    /\ \A i : IsEntry(i) => i = Pos.entry \/ (Pos.entry = 0 /\ Placed /\ i = Placer.got)
    /\ Pos.entry # 0 => IsEntry(Pos.entry)
    /\ Placed => IsEntry(Placer.got)
    /\ \A i : IsEntry(i) /\ orders[i].st = "live" => size = 0
    /\ Pos.entry # 0 /\ Pos.filled => orders[Pos.entry].st \in Over
    /\ Pos.phase = "pending" => Pos.entry # 0
    /\ Pos.phase = "new" => Pos.entry = 0 /\ ~Pos.filled
    /\ Pos.phase = "active" => Pos.filled
    /\ Pos.phase = "new" /\ ~Placed => size = 0

\* What the coroutines ask of the exchange.
Cancels == {"unwind", "y.tp", "trail.cancel"}
FetchOK(k, b) == /\ k.call = "fetch" /\ k.arg = b.entry /\ b.entry # 0
                 /\ k.res = "filled" => orders[b.entry].st \in Over
PollAt(k, b) == /\ k.pc = "p.fetch" => FetchOK(k, b)
                /\ k.pc \in FillPcs \cup HoldPcs \cup TrailPcs => b.filled
                /\ k.pc \notin Cancels => k.call # "cancel"
                /\ k.pc = "y.pos" => k.call = "position"
                /\ k.call # "entry"
CallInv ==
    /\ \A t \in Tasks : task[t].pc = "idle" => task[t].res # "wait"
    /\ PollAt(K, Pos)
    /\ Placer.pc \in {"idle", "n.place"} /\ (Placer.pc = "n.place" => Placer.call = "entry")
    /\ Panicked.pc \in {"idle", "k.cancel", "k.mkt"} /\ Panicked.call # "entry"
    /\ Panicked.call = "cancel" => Pos.entry # 0 /\ Panicked.arg = Pos.entry
    /\ Leaver.pc # "unwind" => Leaver.res # "wait"
    /\ Leaver.pc = "unwind" => Leaver.why \notin Careful
    /\ Leaver.call # "entry"

\* The position has a stop-loss while it is open; order i is one.
Covered   == size > 0 => LiveOf("sl") # {}
CoveredBy(i) == size > 0 => i \in LiveOf("sl")

\* What the poll loop knows of it, at each place.
AskedAt(pc, arg, new, slFound) ==
    /\ pc = "f.tp" /\ slFound => Covered
    /\ pc \in {"f.tp2", "f.verify", "f.restop", "f.vtp", "f.retp"} => Covered
    /\ pc = "y.tp" => size = 0
    /\ pc = "trail.cancel" => CoveredBy(new) /\ new # arg
ToldAt(pc, res, got, b) ==
    /\ pc \in {"f.sl", "f.stop"} /\ res = "ok" => Covered
    /\ pc = "y.pos" /\ res = "flat" => size = 0
    /\ pc = "trail.stop" /\ res = "ok" => CoveredBy(got) /\ got # b.sl
CoverAt(k, b) == AskedAt(k.pc, k.arg, k.new, k.slFound) /\ ToldAt(k.pc, k.res, k.got, b)

\* Unless the position is being left.
Watched  == tracked # 0 /\ Leaver.pc # "unwind"
CoverInv ==
    Pos.entry # 0 /\ Watched => /\ CoverAt(K, Pos)
                                /\ Pos.phase = "active" /\ K.pc # "unwind" => Covered

\* The inductive invariant for one position.
SingleInv == OnePosition /\ MonitorInv /\ LevelInv /\ EntryInv /\ CallInv /\ CoverInv

\* It says that a position that is not being left is covered.
LEMMA CoverShows == SingleInv => Protected
<1> SUFFICES ASSUME SingleInv, tracked # 0, obj[tracked].phase = "active", obj[tracked].entry # 0,
                    size > 0, ~Leaving
             PROVE  LiveOf("sl") # {}
  BY DEF Protected
<1>1. tracked = 1
  BY DEF SingleInv, OnePosition, MonitorInv, Shapes
<1>2. K.pc # "unwind" /\ Leaver.pc # "unwind"
  BY DEF Leaving, K, Leaver, Tasks
<1> QED
  BY <1>1, <1>2 DEF SingleInv, CoverInv, Watched, Covered, Pos

-----------------------------------------------------------------------------
(* The exchange, with one position.                                        *)

\* What becomes of the orders there are, and of the size, when a call is served
\* or an exit fills: no entry fills, and what is over stays over.
Settled(os, sz) ==
    /\ sz \in 0..1 /\ sz <= size /\ Len(os) >= Len(orders)
    /\ \A i \in 1..Len(orders) : /\ os[i].kind = orders[i].kind
                                 /\ os[i].st = "live" => orders[i].st = "live"
                                 /\ orders[i].st \in Over => os[i].st \in Over
NoEntryIn(os) == \A i \in 1..Len(os) : os[i].kind = "entry" => i <= Len(orders)
\* Every stop-loss but perhaps order a is left alone, unless nothing is held.
SparedBut(os, sz, a) == \A i \in LiveOf("sl") : sz > 0 /\ i # a => IsLive(os, i)

\* What appending an order does to a sequence of them.
LEMMA NewOrderIs ==
    ASSUME NEW os, os \in Seq(Order), NEW kind \in OrderKinds, NEW level \in 0..2, NEW st \in OrderStates
    PROVE  /\ With(os, kind, level, st) \in Seq(Order) /\ Len(With(os, kind, level, st)) = Len(os) + 1
           /\ \A i \in 1..Len(os) : With(os, kind, level, st)[i] = os[i]
           /\ With(os, kind, level, st)[Len(os) + 1] = [kind |-> kind, level |-> level, st |-> st]
<1>1. [kind |-> kind, level |-> level, st |-> st] \in Order
  BY DEF Order
<1>2. os \in Seq(Order) /\ Len(os) \in Nat
  OBVIOUS
<1> QED
  BY <1>1, <1>2 DEF With

\* What changing the state of an order does.
LEMMA NewStateIs ==
    ASSUME orders \in Seq(Order), NEW a, NEW st \in OrderStates
    PROVE  /\ [orders EXCEPT ![a].st = st] \in Seq(Order) /\ Len([orders EXCEPT ![a].st = st]) = Len(orders)
           /\ \A i \in 1..Len(orders) : /\ [orders EXCEPT ![a].st = st][i].kind = orders[i].kind
                                        /\ i # a => [orders EXCEPT ![a].st = st][i] = orders[i]
                                        /\ i = a => [orders EXCEPT ![a].st = st][i].st = st
<1> DEFINE os == [orders EXCEPT ![a].st = st]
<1>1. Len(orders) \in Nat /\ DOMAIN orders = 1..Len(orders)
  OBVIOUS
<1>2. ASSUME NEW i \in 1..Len(orders)
      PROVE  os[i] \in Order /\ os[i].kind = orders[i].kind /\ (i # a => os[i] = orders[i]) /\ (i = a => os[i].st = st)
  <2>1. orders[i] \in Order
    OBVIOUS
  <2>2. CASE i # a
    BY <2>1, <2>2
  <2>3. CASE i = a
    <3>1. os[i] = [orders[i] EXCEPT !.st = st]
      BY <2>3
    <3>2. [orders[i] EXCEPT !.st = st] \in Order /\ [orders[i] EXCEPT !.st = st].kind = orders[i].kind
          /\ [orders[i] EXCEPT !.st = st].st = st
      BY <2>1 DEF Order
    <3> QED
      BY <2>3, <3>1, <3>2
  <2> QED
    BY <2>2, <2>3
<1>3. os \in [1..Len(orders) -> Order]
  BY <1>1, <1>2
<1>4. os \in Seq(Order) /\ Len(os) = Len(orders)
  BY <1>1, <1>3
<1> QED
  BY <1>2, <1>4

\* The exchange as it is.
LEMMA SameIsSettled ==
    ASSUME SingleInv, NEW sz, sz \in 0..1, sz <= size
    PROVE  Settled(orders, sz) /\ NoEntryIn(orders) /\ \A a : SparedBut(orders, sz, a)
BY DEF SingleInv, LevelInv, Settled, NoEntryIn, SparedBut, LiveOf

\* A new order.
LEMMA NewIsSettled ==
    ASSUME SingleInv, NEW kind \in OrderKinds, NEW level \in 0..2
    PROVE  LET os == With(orders, kind, level, "live")
           IN  /\ Settled(os, size) /\ (kind # "entry" => NoEntryIn(os))
               /\ \A a : SparedBut(os, size, a)
               /\ Len(os) = Len(orders) + 1 /\ os[Len(orders) + 1].kind = kind
               /\ os[Len(orders) + 1].st = "live"
<1> DEFINE os == With(orders, kind, level, "live")
<1>1. orders \in Seq(Order) /\ Len(orders) \in Nat /\ size \in 0..1 /\ "live" \in OrderStates
  BY DEF SingleInv, LevelInv, EntryInv, OrderStates
<1>2. /\ Len(os) = Len(orders) + 1 /\ \A i \in 1..Len(orders) : os[i] = orders[i]
      /\ os[Len(orders) + 1] = [kind |-> kind, level |-> level, st |-> "live"]
  BY <1>1, NewOrderIs
<1> HIDE DEF os
<1>3. os[Len(orders) + 1].kind = kind /\ os[Len(orders) + 1].st = "live"
  BY <1>2
<1>4. Settled(os, size)
  BY <1>1, <1>2 DEF Settled
<1>5. kind # "entry" => NoEntryIn(os)
  BY <1>1, <1>2, <1>3 DEF NoEntryIn
<1>6. \A a : SparedBut(os, size, a)
  BY <1>1, <1>2 DEF SparedBut, LiveOf, IsLive
<1> QED
  BY <1>2, <1>3, <1>4, <1>5, <1>6 DEF os

\* An order that is live leaves the book: cancelled, or filled if it is an exit.
LEMMA EndIsSettled ==
    ASSUME SingleInv, NEW a, IsLive(orders, a), NEW st \in OrderStates \ {"live", "part"},
           NEW sz, sz \in 0..1, sz <= size
    PROVE  LET os == [orders EXCEPT ![a].st = st]
           IN  Settled(os, sz) /\ NoEntryIn(os) /\ SparedBut(os, sz, a)
<1> DEFINE os == [orders EXCEPT ![a].st = st]
<1>1. orders \in Seq(Order)
  BY DEF SingleInv, LevelInv
<1>2. /\ Len(os) = Len(orders)
      /\ \A i \in 1..Len(orders) : os[i].kind = orders[i].kind /\ (i # a => os[i] = orders[i]) /\ (i = a => os[i].st = st)
  BY <1>1, NewStateIs
<1> HIDE DEF os
<1>3. Len(orders) \in Nat
  BY <1>1
<1>4. Settled(os, sz)
  BY <1>2, <1>3 DEF Settled, IsLive, Over
<1>5. NoEntryIn(os)
  BY <1>2, <1>3 DEF NoEntryIn
<1>6. SparedBut(os, sz, a)
  BY <1>2 DEF SparedBut, LiveOf, IsLive
<1> QED
  BY <1>4, <1>5, <1>6 DEF os
\* What a call does to the exchange, and what its answer says.
LEMMA AnswersSettle ==
    ASSUME SingleInv, NEW call \in Calls, NEW arg, call = "stop" => arg \in 0..2, NEW a \in Answers(call, arg)
    PROVE  /\ Settled(a.orders, a.size) /\ SparedBut(a.orders, a.size, arg)
           /\ call # "entry" => NoEntryIn(a.orders)
           /\ call = "entry" => a = NewOrder("entry", 0)
           /\ call # "cancel" => \A i : SparedBut(a.orders, a.size, i)
           /\ call = "fetch" /\ a.res = "filled" /\ arg \in 1..Len(orders) => orders[arg].st \in Over
           /\ call = "find_sl" /\ a.res = "ok" => LiveOf("sl") # {}
           /\ call \in {"find_sl", "position", "fetch"} => a.orders = orders /\ a.size = size
           /\ call = "stop" => a = NewOrder("sl", arg)
           /\ call = "position" /\ a.res = "flat" => size = 0
<1>1. orders \in Seq(Order) /\ size \in 0..1
  BY DEF SingleInv, LevelInv, EntryInv
<1>2. ASSUME NEW kind \in OrderKinds, NEW level \in 0..2, a = NewOrder(kind, level)
      PROVE  /\ Settled(a.orders, a.size) /\ (kind # "entry" => NoEntryIn(a.orders))
             /\ \A i : SparedBut(a.orders, a.size, i)
  <2>1. a.orders = With(orders, kind, level, "live") /\ a.size = size
    BY <1>2 DEF NewOrder, Answer
  <2> QED
    BY <2>1, NewIsSettled
<1>3. ASSUME a.orders = orders, a.size \in 0..1, a.size <= size
      PROVE  /\ Settled(a.orders, a.size) /\ NoEntryIn(a.orders)
             /\ \A i : SparedBut(a.orders, a.size, i)
  BY <1>3, SameIsSettled
<1>4. CASE call = "stop"
  <2>1. a = NewOrder("sl", arg)
    BY <1>4 DEF Answers
  <2> QED
    BY <1>2, <1>4, <2>1 DEF OrderKinds
<1>5. CASE call = "tp"
  <2>1. a = NewOrder("tp", 0)
    BY <1>5 DEF Answers
  <2> QED
    BY <1>2, <1>5, <2>1 DEF OrderKinds
<1>6. CASE call = "entry"
  <2>1. a = NewOrder("entry", 0)
    BY <1>6 DEF Answers
  <2> QED
    BY <1>2, <1>6, <2>1 DEF OrderKinds
<1>7. CASE call = "cancel"
  <2> DEFINE st == IF orders[arg].st = "part" THEN "partcan" ELSE "canceled"
  <2>1. \/ a.orders = orders /\ a.size = size
        \/ IsLive(orders, arg) /\ a.orders = [orders EXCEPT ![arg].st = st] /\ a.size = size
    BY <1>7 DEF Answers, Says, Answer
  <2>2. st \in OrderStates \ {"live", "part"}
    BY DEF OrderStates
  <2> HIDE DEF st
  <2>3. IsLive(orders, arg) => LET os == [orders EXCEPT ![arg].st = st]
                               IN  Settled(os, size) /\ NoEntryIn(os) /\ SparedBut(os, size, arg)
    <3>1. size \in 0..1 /\ size <= size
      BY <1>1
    <3> QED
      BY <2>2, <3>1, EndIsSettled
  <2>4. CASE a.orders = orders /\ a.size = size
    BY <1>1, <1>3, <1>7, <2>4
  <2> QED
    BY <1>7, <2>1, <2>3, <2>4
<1>8. CASE call = "find_sl"
  <2>1. a.orders = orders /\ a.size = size /\ (a.res = "ok" => a.got \in LiveOf("sl"))
    BY <1>8 DEF Answers, Says, Answer
  <2> QED
    BY <1>1, <1>3, <1>8, <2>1
<1>9. CASE call = "fetch"
  <2>1. a.orders = orders /\ a.size = size /\ a.res = Status(orders[arg].st)
    BY <1>9 DEF Answers, Says, Answer
  <2>2. ASSUME a.res = "filled", arg \in 1..Len(orders) PROVE orders[arg].st \in Over
    <3>1. orders[arg].st \in OrderStates
      <4>1. orders[arg] \in Order
        BY <1>1, <2>2
      <4> QED
        BY <4>1 DEF Order
    <3> QED
      BY <2>1, <2>2, <3>1 DEF Status, OrderStates, Over
  <2> QED
    BY <1>1, <1>3, <1>9, <2>1, <2>2
<1>10. CASE call = "position"
  <2>1. a.orders = orders /\ a.size = size /\ a.res = IF size > 0 THEN "open" ELSE "flat"
    BY <1>10 DEF Answers, Says, Answer
  <2> QED
    BY <1>1, <1>3, <1>10, <2>1
<1>11. CASE call = "market"
  <2>1. a.orders = orders /\ (a.size = size \/ a.size = Reduced)
    BY <1>11 DEF Answers, Says, Answer
  <2>2. Reduced \in 0..1 /\ Reduced <= size
    BY <1>1 DEF Reduced
  <2> QED
    BY <1>1, <1>3, <1>11, <2>1, <2>2
<1>12. CASE call \in {"market_dir", "ticker", "has_sl", "find_tp"}
  <2>1. a.orders = orders /\ a.size = size
    BY <1>12 DEF Answers, Says, Answer
  <2> QED
    BY <1>1, <1>3, <1>12, <2>1
<1> QED
  BY <1>4, <1>5, <1>6, <1>7, <1>8, <1>9, <1>10, <1>11, <1>12 DEF Calls

\* What the poll loop was told.
Told == ToldAt(K.pc, K.res, K.got, Pos)

\* As long as no entry fills, what was said of the entry and of the stop-loss stays.
LEMMA EntrySettles ==
    ASSUME SingleInv, UNCHANGED obj, Settled(orders', size'), NoEntryIn(orders'),
           Placed' = Placed, Placed => Placer'.got = Placer.got
    PROVE  EntryInv'
<1>1. \A i : IsEntry(i)' <=> IsEntry(i)
  BY DEF SingleInv, LevelInv, Settled, NoEntryIn, IsEntry
<1>2. Pos' = Pos
  BY DEF Pos
<1>3. \A i : IsEntry(i) => /\ orders'[i].st = "live" => orders[i].st = "live"
                           /\ orders[i].st \in Over => orders'[i].st \in Over
  BY DEF Settled, IsEntry
<1>4. size' \in 0..1 /\ size \in 0..1 /\ size' <= size
  BY DEF Settled, SingleInv, EntryInv
<1>5. \A i : IsEntry(i)' => i = Pos'.entry \/ (Pos'.entry = 0 /\ Placed' /\ i = Placer'.got)
  BY <1>1, <1>2 DEF SingleInv, EntryInv
<1>6. (Pos'.entry # 0 => IsEntry(Pos.entry)') /\ (Placed' => IsEntry(Placer.got)')
  <2>1. \A i, j : i = j /\ IsEntry(i)' => IsEntry(j)'
    BY DEF IsEntry
  <2> QED
    BY <1>1, <1>2, <2>1 DEF SingleInv, EntryInv, IsEntry
<1>7. \A i : IsEntry(i)' /\ orders'[i].st = "live" => size' = 0
  BY <1>1, <1>3, <1>4 DEF SingleInv, EntryInv
<1>8. Pos'.entry # 0 /\ Pos'.filled => orders'[Pos'.entry].st \in Over
  BY <1>2, <1>3 DEF SingleInv, EntryInv
<1> QED
  BY <1>2, <1>4, <1>5, <1>6, <1>7, <1>8 DEF SingleInv, EntryInv, Over

\* And what the poll loop knows of the stop-loss, unless it cancels one itself.
LEMMA CoverSettles ==
    ASSUME SingleInv, UNCHANGED <<obj, tracked>>, Settled(orders', size'),
           Leaver'.pc = Leaver.pc,
           K'.pc = K.pc, K'.arg = K.arg, K'.new = K.new, K'.slFound = K.slFound,
           Watched => \/ \A a : SparedBut(orders', size', a)
                      \/ K.pc \in Cancels /\ SparedBut(orders', size', K.arg),
           Pos.entry # 0 /\ Watched => Told'
    PROVE  CoverInv'
<1> SUFFICES ASSUME Pos.entry # 0, Watched
             PROVE  /\ AskedAt(K.pc, K.arg, K.new, K.slFound)'
                    /\ Pos.phase = "active" /\ K.pc # "unwind" => Covered'
  <2>1. Pos' = Pos /\ Watched' = Watched
    BY DEF Pos, Watched
  <2> QED
    BY <2>1 DEF CoverInv, CoverAt, Told
<1>1. size' \in 0..1 /\ size \in 0..1 /\ size' <= size
  BY DEF Settled, SingleInv, EntryInv
<1>2. /\ AskedAt(K.pc, K.arg, K.new, K.slFound)
      /\ Pos.phase = "active" /\ K.pc # "unwind" => Covered
  BY DEF SingleInv, CoverInv, CoverAt
<1>3. \A a, i : SparedBut(orders', size', a) /\ i # a /\ CoveredBy(i) => CoveredBy(i)'
  BY <1>1 DEF SingleInv, LevelInv, SparedBut, CoveredBy, LiveOf, IsLive, Settled
<1>4. \A i : CoveredBy(i)' => Covered'
  BY DEF CoveredBy, Covered
<1>5. CASE \A a : SparedBut(orders', size', a)
  <2>1. \A i : CoveredBy(i) => CoveredBy(i)'
    <3>1. \A i : i \in LiveOf("sl") => i # 0
      BY DEF LiveOf
    <3> QED
      BY <1>1, <1>3, <1>5, <3>1 DEF CoveredBy
  <2>2. Covered => Covered'
    BY <1>1, <1>4, <2>1 DEF Covered, CoveredBy
  <2> QED
    BY <1>1, <1>2, <2>1, <2>2 DEF AskedAt
<1>6. CASE K.pc \in Cancels /\ SparedBut(orders', size', K.arg)
  <2>1. K.pc = "y.tp" => size' = 0 /\ Covered'
    BY <1>1, <1>2 DEF AskedAt, Covered
  <2>2. K.pc = "trail.cancel" => CoveredBy(K.new)' /\ K.new # K.arg /\ Covered'
    <3>1. K.pc = "trail.cancel" => CoveredBy(K.new) /\ K.new # K.arg
      BY <1>2 DEF AskedAt
    <3>2. K.pc = "trail.cancel" /\ size' > 0 => K.new \in LiveOf("sl")'
      BY <1>1, <1>6, <3>1 DEF SingleInv, LevelInv, SparedBut, CoveredBy, LiveOf, IsLive, Settled
    <3> QED
      BY <3>1, <3>2 DEF CoveredBy, Covered
  <2> QED
    BY <1>6, <2>1, <2>2 DEF AskedAt, Cancels
<1> QED
  BY <1>5, <1>6
\* A stop-loss that is spared still covers the position.
LEMMA SparedStays ==
    ASSUME SingleInv, Settled(orders', size'), \A a : SparedBut(orders', size', a)
    PROVE  (Covered => Covered') /\ (\A i : CoveredBy(i) => CoveredBy(i)')
<1>1. size' \in 0..1 /\ size \in 0..1 /\ size' <= size
  BY DEF Settled, SingleInv, EntryInv
<1>2. \A i : CoveredBy(i) => CoveredBy(i)'
  <2>1. \A i : i \in LiveOf("sl") => i # 0
    BY DEF LiveOf
  <2>2. \A i : SparedBut(orders', size', 0) /\ i # 0 /\ CoveredBy(i) => CoveredBy(i)'
    BY <1>1 DEF SingleInv, LevelInv, SparedBut, CoveredBy, LiveOf, IsLive, Settled
  <2> QED
    BY <1>1, <2>1, <2>2 DEF CoveredBy
<1> QED
  BY <1>1, <1>2 DEF Covered, CoveredBy

\* One position: what the coroutines and the registers name is object 1.
LEMMA OnlyOne ==
    ASSUME SingleInv
    PROVE  /\ Objs = {1} /\ DOMAIN obj = {1} /\ DOMAIN task = Tasks /\ tracked \in {0, 1}
           /\ K.pc # "idle" => K.o = 1 /\ B = Pos /\ Taken(Pos)
           /\ Placer.pc = "n.place" => Pos.phase = "new"
           /\ Placer.pc # "idle" => Pos.phase = "new"
           /\ Leaver.pc # "idle" => Leaver.o = 1 /\ Taken(Pos)
           /\ Panicked.pc # "idle" => Panicked.o = 1 /\ Taken(Pos)
           /\ tracked # 0 => Taken(Pos)
<1>1. Objs = {1} /\ DOMAIN obj = {1} /\ DOMAIN task = Tasks /\ tracked \in {0, 1}
      /\ (tracked # 0 => Taken(Pos))
  BY DEF SingleInv, OnePosition, Objs, MonitorInv, Shapes, Pos
<1>2. Holds("poll") /\ Holds("exec") /\ Holds("cancel") /\ Holds("panic")
  BY DEF SingleInv, MonitorInv, Tasks
<1> QED
  BY <1>1, <1>2 DEF Holds, K, B, Pos, Placer, Leaver, Panicked, Unused, SingleInv, CallInv

\* The exchange serves a call.
LEMMA CoverServes ==
    ASSUME SingleInv, NEW t \in Tasks, Serve(t)
    PROVE  EntryInv' /\ CallInv' /\ CoverInv'
<1> DEFINE call == task[t].call
           arg  == task[t].arg
<1>1. /\ task[t].res = "wait" /\ UNCHANGED <<obj, tracked>> /\ call \in Calls /\ (call = "stop" => arg \in 0..2)
      /\ task[t].pc # "idle"
  BY DEF Serve, SingleInv, LevelInv, CallInv, CallOK
<1>2. PICK a, res, got :
        /\ a \in Answers(call, arg)
        /\ task' = [task EXCEPT ![t].res = res, ![t].got = got]
        /\ \/ orders' = a.orders /\ size' = a.size /\ res = a.res /\ got = a.got
           \/ orders' = orders /\ size' = size /\ res = "none"
           \/ orders' = a.orders /\ size' = a.size /\ res = "none" /\ call # "entry"
  BY DEF Serve, Fault, SingleInv, OnePosition
<1> HIDE DEF call, arg
<1>3. orders \in Seq(Order) /\ size \in 0..1 /\ size <= size
  BY DEF SingleInv, LevelInv, EntryInv
<1>4. /\ Settled(orders, size) /\ NoEntryIn(orders) /\ \A i : SparedBut(orders, size, i)
  BY <1>3, SameIsSettled
<1>5. /\ Settled(a.orders, a.size) /\ SparedBut(a.orders, a.size, arg)
      /\ call # "entry" => NoEntryIn(a.orders)
      /\ call = "entry" => a = NewOrder("entry", 0)
      /\ call # "cancel" => \A i : SparedBut(a.orders, a.size, i)
      /\ call = "fetch" /\ a.res = "filled" /\ arg \in 1..Len(orders) => orders[arg].st \in Over
      /\ call = "find_sl" /\ a.res = "ok" => LiveOf("sl") # {}
      /\ call \in {"find_sl", "position", "fetch"} => a.orders = orders /\ a.size = size
      /\ call = "stop" => a = NewOrder("sl", arg)
      /\ call = "position" /\ a.res = "flat" => size = 0
  BY <1>1, <1>2, AnswersSettle
<1>6. /\ Settled(orders', size') /\ SparedBut(orders', size', arg)
      /\ call # "entry" => NoEntryIn(orders')
      /\ call # "cancel" => \A i : SparedBut(orders', size', i)
  BY <1>2, <1>4, <1>5
<1>7. /\ call = "fetch" /\ res = "filled" /\ arg \in 1..Len(orders) => orders[arg].st \in Over
      /\ call = "find_sl" /\ res = "ok" => LiveOf("sl") # {} /\ orders' = orders
      /\ call = "position" /\ res = "flat" => size = 0
  BY <1>2, <1>5
<1>8. \A kind, level : /\ NewOrder(kind, level).orders = With(orders, kind, level, "live")
                       /\ NewOrder(kind, level).size = size /\ NewOrder(kind, level).res = "ok"
                       /\ NewOrder(kind, level).got = Len(orders) + 1
  BY DEF NewOrder, Answer
<1>9. /\ call = "stop" /\ res = "ok" => orders' = With(orders, "sl", arg, "live") /\ got = Len(orders) + 1
      /\ call = "entry" /\ res = "ok" => orders' = With(orders, "entry", 0, "live") /\ size' = size
                                         /\ got = Len(orders) + 1
      /\ call = "entry" /\ res # "ok" => orders' = orders
  BY <1>2, <1>5, <1>8
<1>10. /\ DOMAIN task = Tasks /\ LocalOK(task[t])
       /\ \A u \in Tasks \ {t} : task'[u] = task[u]
       /\ \A f \in LocalFields \ {"res", "got"} : task'[t][f] = task[t][f]
       /\ task'[t].res = res /\ task'[t].got = got
  BY <1>2 DEF SingleInv, MonitorInv, Shapes, LocalOK, LocalFields, Idle
<1>11. \A u \in Tasks : /\ task'[u].pc = task[u].pc /\ task'[u].call = task[u].call /\ task'[u].arg = task[u].arg
                        /\ task'[u].new = task[u].new /\ task'[u].slFound = task[u].slFound
                        /\ task'[u].why = task[u].why
  BY <1>10 DEF LocalFields, Idle
<1>12. Pos' = Pos
  BY <1>1 DEF Pos
<1>13. {"poll", "exec", "cancel", "panic"} = Tasks
  BY DEF Tasks
<1>14. EntryInv'
  <2>1. CASE t # "exec"
    <3>1. call # "entry"
      <4>1. t = "poll" => call # "entry"
        BY DEF SingleInv, CallInv, PollAt, K, call
      <4> QED
        BY <2>1, <1>13, <4>1 DEF SingleInv, CallInv, Panicked, Leaver, call
    <3>2. task'["exec"] = task["exec"]
      BY <1>10, <1>13, <2>1
    <3> QED
      BY <1>1, <1>6, <3>1, <3>2, EntrySettles DEF Placed, Placer
  <2>2. CASE t = "exec"
    <3>1. Placer.pc = "n.place" /\ call = "entry" /\ ~Placed
      BY <1>1, <2>2 DEF SingleInv, CallInv, Placer, Placed, call
    <3>2. Pos.phase = "new" /\ Pos.entry = 0 /\ ~Pos.filled
      BY <3>1, OnlyOne DEF SingleInv, EntryInv
    <3>3. \A i : ~IsEntry(i)
      <4>1. \A i : IsEntry(i) => i = Pos.entry
        BY <3>1 DEF SingleInv, EntryInv
      <4> QED
        BY <1>3, <3>2, <4>1 DEF IsEntry
    <3>4. CASE res = "ok"
      <4>1. "entry" \in OrderKinds /\ 0 \in 0..2
        BY DEF OrderKinds
      <4>2. LET os == With(orders, "entry", 0, "live")
            IN  Settled(os, size) /\ Len(os) = Len(orders) + 1 /\ os[Len(orders) + 1].kind = "entry"
        BY <4>1, NewIsSettled
      <4>3. Settled(orders', size') /\ Len(orders') = Len(orders) + 1 /\ orders'[Len(orders) + 1].kind = "entry"
        BY <1>9, <3>1, <3>4, <4>2
      <4>4. \A i : IsEntry(i)' <=> i = Len(orders) + 1
        BY <1>3, <3>3, <4>3 DEF IsEntry, Settled
      <4>5. Placed' /\ Placer'.got = Len(orders) + 1
        BY <1>9, <1>10, <1>11, <2>2, <3>1, <3>4 DEF Placed, Placer
      <4>6. size' = size
        BY <1>9, <3>1, <3>4
      <4>7. size = 0
        BY <3>1, <3>2 DEF SingleInv, EntryInv
      <4>8. /\ \A i : IsEntry(i)' => Pos'.entry = 0 /\ Placed' /\ i = Placer'.got
            /\ IsEntry(Placer.got)'
        BY <1>12, <3>2, <4>4, <4>5 DEF IsEntry
      <4>9. size' = 0
        BY <4>6, <4>7
      <4> QED
        BY <1>12, <3>2, <4>5, <4>8, <4>9 DEF EntryInv
    <3>5. CASE res # "ok"
      <4>1. ~Placed' /\ NoEntryIn(orders')
        BY <1>4, <1>9, <1>10, <2>2, <3>1, <3>5 DEF Placed, Placer
      <4> QED
        BY <1>1, <1>6, <3>1, <4>1, EntrySettles DEF Placed
    <3> QED
      BY <3>4, <3>5
  <2> QED
    BY <2>1, <2>2
<1>15. CallInv'
  <2>1. \A u \in Tasks : task'[u].pc = "idle" => task'[u].res # "wait"
    BY <1>1, <1>10, <1>11 DEF SingleInv, CallInv
  <2>2. PollAt(K, Pos)'
    <3>1. K'.pc = K.pc /\ K'.call = K.call /\ K'.arg = K.arg
      BY <1>11, <1>13 DEF K
    <3>2. ASSUME K.pc = "p.fetch" PROVE FetchOK(K, Pos)'
      <4>1. FetchOK(K, Pos)
        BY <3>2 DEF SingleInv, CallInv, PollAt
      <4>2. Pos.entry \in 1..Len(orders) /\ (orders[Pos.entry].st \in Over => orders'[Pos.entry].st \in Over)
        BY <1>6, <4>1 DEF FetchOK, SingleInv, EntryInv, IsEntry, Settled
      <4>3. K'.res = "filled" => orders'[Pos.entry].st \in Over
        <5>1. CASE t # "poll"
          <6>1. K' = K
            BY <1>10, <1>13, <5>1 DEF K
          <6> QED
            BY <4>1, <4>2, <6>1 DEF FetchOK
        <5>2. CASE t = "poll"
          <6>1. K'.res = res /\ call = "fetch" /\ arg = Pos.entry
            BY <1>10, <4>1, <5>2 DEF K, call, arg, FetchOK
          <6> QED
            BY <1>7, <4>2, <6>1
        <5> QED
          BY <5>1, <5>2
      <4> QED
        BY <1>12, <3>1, <4>1, <4>3 DEF FetchOK, Over
    <3> QED
      BY <1>12, <3>1, <3>2 DEF SingleInv, CallInv, PollAt
  <2>3. /\ Placer'.pc = Placer.pc /\ Placer'.call = Placer.call
        /\ Panicked'.pc = Panicked.pc /\ Panicked'.call = Panicked.call /\ Panicked'.arg = Panicked.arg
        /\ Leaver'.pc = Leaver.pc /\ Leaver'.call = Leaver.call /\ Leaver'.why = Leaver.why
    BY <1>11, <1>13 DEF Placer, Panicked, Leaver
  <2>4. Leaver.pc # "unwind" => Leaver'.res # "wait"
    <3>1. Leaver.pc # "unwind" => Leaver.res # "wait"
      BY DEF SingleInv, CallInv
    <3>2. Leaver.pc # "unwind" => t # "cancel"
      BY <1>1, <3>1 DEF Leaver
    <3>3. t # "cancel" => Leaver' = Leaver
      BY <1>10, <1>13 DEF Leaver
    <3> QED
      BY <3>1, <3>2, <3>3
  <2> QED
    BY <1>12, <2>1, <2>2, <2>3, <2>4 DEF SingleInv, CallInv
<1>16. CoverInv'
  <2>1. /\ Leaver'.pc = Leaver.pc
        /\ K'.pc = K.pc /\ K'.arg = K.arg /\ K'.new = K.new /\ K'.slFound = K.slFound
    BY <1>11, <1>13 DEF Leaver, K
  <2>2. Watched => \/ \A i : SparedBut(orders', size', i)
                   \/ t = "poll" /\ K.pc \in Cancels /\ SparedBut(orders', size', K.arg)
    <3>1. CASE call # "cancel"
      BY <1>6, <3>1
    <3>2. CASE call = "cancel" /\ t = "poll"
      BY <1>6, <3>2 DEF SingleInv, CallInv, PollAt, K, call, arg
    <3>3. CASE call = "cancel" /\ t = "exec"
      BY <1>1, <3>3 DEF SingleInv, CallInv, Placer, call
    <3>4. CASE call = "cancel" /\ t = "cancel"
      BY <1>1, <3>4 DEF SingleInv, CallInv, Leaver, Watched
    <3>5. CASE call = "cancel" /\ t = "panic"
      <4>1. IsEntry(arg)
        BY <3>5 DEF SingleInv, CallInv, EntryInv, Panicked, call, arg
      <4>2. arg \notin LiveOf("sl")
        BY <4>1 DEF IsEntry, LiveOf
      <4> QED
        BY <1>6, <4>2 DEF SparedBut
    <3> QED
      BY <1>13, <3>1, <3>2, <3>3, <3>4, <3>5
  <2>3. ASSUME Pos.entry # 0, Watched PROVE Told'
    <3>1. CASE t # "poll"
      <4>1. Told /\ K' = K
        BY <1>10, <1>13, <2>3, <3>1 DEF SingleInv, CoverInv, CoverAt, Told, K
      <4>2. (Covered => Covered') /\ (\A i : CoveredBy(i) => CoveredBy(i)')
        BY <1>6, <2>2, <2>3, <3>1, SparedStays
      <4>3. size = 0 => size' = 0
        BY <1>3, <1>6 DEF Settled
      <4> QED
        BY <1>12, <4>1, <4>2, <4>3 DEF Told, ToldAt
    <3>2. CASE t = "poll"
      <4>1. K'.res = res /\ K'.got = got /\ K.call = call /\ K.arg = arg /\ K.pc # "idle"
        BY <1>1, <1>10, <3>2 DEF K, call, arg
      <4>2. LevelAt(K, Pos) /\ ObjLevel(Pos)
        BY <4>1, OnlyOne DEF SingleInv, LevelInv, Pos
      <4>3. ASSUME call = "stop", res = "ok"
            PROVE  Covered' /\ CoveredBy(got)' /\ got # Pos.sl
        <5>1. "sl" \in OrderKinds /\ arg \in 0..2
          BY <1>1, <4>3 DEF OrderKinds
        <5>2. LET os == With(orders, "sl", arg, "live")
              IN  /\ Len(os) = Len(orders) + 1 /\ os[Len(orders) + 1].kind = "sl"
                  /\ os[Len(orders) + 1].st = "live"
          BY <5>1, NewIsSettled
        <5>3. /\ Len(orders') = Len(orders) + 1 /\ orders'[Len(orders) + 1].kind = "sl"
              /\ orders'[Len(orders) + 1].st = "live" /\ got = Len(orders) + 1
          BY <1>9, <4>3, <5>2
        <5>4. got \in LiveOf("sl")'
          BY <1>3, <5>3 DEF LiveOf, IsLive
        <5>5. got # Pos.sl
          BY <1>3, <4>2, <5>3 DEF ObjLevel, AtLevel, HasLevel
        <5> QED
          BY <5>4, <5>5 DEF Covered, CoveredBy
      <4>4. K.pc = "f.sl" => call = "find_sl"
        BY <4>1, <4>2 DEF LevelAt, Site, StopPcs, HoldPcs
      <4>5. K.pc \in {"f.stop", "trail.stop"} => call = "stop"
        BY <4>1, <4>2 DEF LevelAt, Site, StopPcs, HoldPcs
      <4>6. K.pc = "y.pos" => call = "position"
        BY <4>1 DEF SingleInv, CallInv, PollAt
      <4>7. K.pc = "f.sl" /\ res = "ok" => Covered'
        <5>1. call = "find_sl" => (Covered => Covered')
          BY <1>6, SparedStays
        <5> QED
          BY <1>7, <4>4, <5>1 DEF Covered
      <4>8. size = 0 => size' = 0
        BY <1>3, <1>6 DEF Settled
      <4> QED
        BY <1>7, <1>12, <2>1, <4>1, <4>3, <4>5, <4>6, <4>7, <4>8 DEF Told, ToldAt
    <3> QED
      BY <3>1, <3>2
  <2> QED
    BY <1>1, <1>6, <2>1, <2>2, <2>3, CoverSettles
<1> QED
  BY <1>14, <1>15, <1>16
\* The entry fills: no object says so yet, and there is no other.
LEMMA CoverEnters ==
    ASSUME SingleInv, NEW i \in 1..Len(orders), EntryFills(i)
    PROVE  EntryInv' /\ CallInv' /\ CoverInv'
<1>1. UNCHANGED <<task, obj, tracked>> /\ IsEntry(i) /\ IsLive(orders, i)
  BY DEF EntryFills, bot, IsEntry
<1>2. orders \in Seq(Order) /\ Len(orders) \in Nat /\ size \in 0..1
  BY DEF SingleInv, LevelInv, EntryInv
<1> DEFINE os(st)  == [orders EXCEPT ![i].st = st]
           two(st) == With(With(os(st), "sl", 0, "live"), "tp", 0, "live")
<1>3. \E st \in {"filled", "part"} : orders' = os(st) \/ orders' = two(st)
  BY DEF EntryFills
<1>4. size' = IF orders[i].st = "live" THEN size + 1 ELSE size
  BY DEF EntryFills
<1>5. ASSUME NEW st \in {"filled", "part"}
      PROVE  /\ Len(os(st)) = Len(orders)
             /\ \A j \in 1..Len(orders) : /\ os(st)[j].kind = orders[j].kind
                                          /\ j # i => os(st)[j] = orders[j]
                                          /\ j = i => os(st)[j].st = st
             /\ Len(two(st)) = Len(orders) + 2 /\ \A j \in 1..Len(orders) : two(st)[j] = os(st)[j]
             /\ two(st)[Len(orders) + 1].kind = "sl" /\ two(st)[Len(orders) + 2].kind = "tp"
  <2>1. st \in OrderStates /\ "sl" \in OrderKinds /\ "tp" \in OrderKinds /\ 0 \in 0..2 /\ "live" \in OrderStates
    BY DEF OrderStates, OrderKinds
  <2>2. /\ os(st) \in Seq(Order) /\ Len(os(st)) = Len(orders)
        /\ \A j \in 1..Len(orders) : /\ os(st)[j].kind = orders[j].kind
                                     /\ j # i => os(st)[j] = orders[j]
                                     /\ j = i => os(st)[j].st = st
    BY <1>2, <2>1, NewStateIs
  <2> DEFINE a == os(st)
             b == With(a, "sl", 0, "live")
             c == With(b, "tp", 0, "live")
  <2> HIDE DEF a, os
  <2>3. a \in Seq(Order) /\ Len(a) = Len(orders)
    BY <2>2 DEF a
  <2>4. /\ b \in Seq(Order) /\ Len(b) = Len(a) + 1 /\ \A j \in 1..Len(a) : b[j] = a[j]
        /\ b[Len(a) + 1] = [kind |-> "sl", level |-> 0, st |-> "live"]
    <3>1. a \in Seq(Order)
      BY <2>3
    <3> QED
      BY <2>1, <3>1, NewOrderIs
  <2> HIDE DEF b
  <2>5. /\ c \in Seq(Order) /\ Len(c) = Len(b) + 1 /\ \A j \in 1..Len(b) : c[j] = b[j]
        /\ c[Len(b) + 1] = [kind |-> "tp", level |-> 0, st |-> "live"]
    BY <2>1, <2>4, NewOrderIs
  <2> HIDE DEF c
  <2>6. /\ Len(c) = Len(orders) + 2 /\ (\A j \in 1..Len(orders) : c[j] = a[j])
        /\ c[Len(orders) + 1].kind = "sl" /\ c[Len(orders) + 2].kind = "tp"
    <3>1. Len(a) = Len(orders) /\ Len(b) = Len(orders) + 1 /\ Len(c) = Len(orders) + 2
      BY <1>2, <2>3, <2>4, <2>5
    <3>2. \A j \in 1..Len(orders) : c[j] = a[j]
      BY <1>2, <2>4, <2>5, <3>1
    <3>3. c[Len(orders) + 1] = b[Len(orders) + 1]
      BY <1>2, <2>5, <3>1
    <3>4. b[Len(orders) + 1].kind = "sl"
      BY <2>4, <3>1
    <3>5. c[Len(orders) + 2].kind = "tp"
      <4>1. Len(b) + 1 = Len(orders) + 2
        BY <1>2, <3>1
      <4> QED
        BY <2>5, <4>1
    <3> QED
      BY <3>1, <3>2, <3>3, <3>4, <3>5
  <2> QED
    BY <2>2, <2>6 DEF a, b, c
<1> HIDE DEF os, two
<1>6. /\ Len(orders') >= Len(orders) /\ Len(orders') \in Nat
      /\ \A j \in 1..Len(orders) : orders'[j].kind = orders[j].kind /\ (j # i => orders'[j] = orders[j])
                                   /\ (j = i => orders'[j].st \in {"filled", "part"})
      /\ \A j \in 1..Len(orders') : j > Len(orders) => orders'[j].kind # "entry"
  <2>1. PICK st \in {"filled", "part"} : orders' = os(st) \/ orders' = two(st)
    BY <1>3
  <2>2. CASE orders' = os(st)
    BY <1>2, <1>5, <2>2
  <2>3. CASE orders' = two(st)
    <3>1. \A j \in 1..(Len(orders) + 2) : j > Len(orders) => j = Len(orders) + 1 \/ j = Len(orders) + 2
      BY <1>2
    <3> QED
      BY <1>2, <1>5, <2>3, <3>1
  <2> QED
    BY <2>1, <2>2, <2>3
<1>7. \A j : IsEntry(j)' <=> IsEntry(j)
  BY <1>2, <1>6 DEF IsEntry
<1>8. ~(Pos.entry # 0 /\ Pos.filled) /\ \A j : IsEntry(j) => j = i
  <2>1. \A j : IsEntry(j) => j = Pos.entry \/ (Pos.entry = 0 /\ j = Placer.got)
    BY DEF SingleInv, EntryInv
  <2>2. Pos.entry # 0 => IsEntry(Pos.entry)
    BY DEF SingleInv, EntryInv
  <2>3. \A j : IsEntry(j) => j # 0
    BY DEF IsEntry
  <2>4. Pos.entry # 0 /\ Pos.filled => orders[Pos.entry].st \in Over
    BY DEF SingleInv, EntryInv
  <2> QED
    BY <1>1, <2>1, <2>2, <2>3, <2>4 DEF IsLive, Over
<1>9. Pos' = Pos /\ K' = K /\ Placer' = Placer /\ Panicked' = Panicked /\ Leaver' = Leaver
      /\ Placed' = Placed /\ Watched' = Watched
  BY <1>1 DEF Pos, K, Placer, Panicked, Leaver, Placed, Watched
<1>10. orders[i].st = "live" => size = 0
  BY <1>1 DEF SingleInv, EntryInv
<1>11. size' \in 0..1
  BY <1>2, <1>4, <1>10
<1>12. EntryInv'
  <2>1. \A j : IsEntry(j)' => orders'[j].st # "live"
    BY <1>1, <1>6, <1>7, <1>8 DEF IsEntry
  <2>2. Pos.entry = 0 => Placed
    <3>1. i = Pos.entry \/ Placed
      BY <1>1 DEF SingleInv, EntryInv
    <3> QED
      BY <1>1, <3>1
  <2>3. Pos.phase = "new" => Placed
    BY <2>2 DEF SingleInv, EntryInv
  <2>4. /\ \A j : IsEntry(j) => j = Pos.entry \/ (Pos.entry = 0 /\ Placed /\ j = Placer.got)
        /\ Pos.entry # 0 => IsEntry(Pos.entry)
        /\ Placed => IsEntry(Placer.got)
    BY DEF SingleInv, EntryInv
  <2>5. (Pos.entry # 0 => IsEntry(Pos.entry)') /\ (Placed => IsEntry(Placer.got)')
    BY <1>7, <1>9, <2>4 DEF IsEntry
  <2>6. /\ Pos.phase = "pending" => Pos.entry # 0
        /\ Pos.phase = "new" => Pos.entry = 0 /\ ~Pos.filled
        /\ Pos.phase = "active" => Pos.filled
    BY DEF SingleInv, EntryInv
  <2> QED
    BY <1>7, <1>8, <1>9, <1>11, <2>1, <2>3, <2>4, <2>5, <2>6 DEF EntryInv
<1>13. CallInv'
  <2>1. ~(K.pc = "p.fetch" /\ K.res = "filled")
    <3>1. K.pc = "p.fetch" /\ K.res = "filled" => orders[Pos.entry].st \in Over /\ Pos.entry # 0
      BY DEF SingleInv, CallInv, PollAt, FetchOK
    <3>2. Pos.entry # 0 => Pos.entry = i
      BY <1>8 DEF SingleInv, EntryInv
    <3> QED
      BY <1>1, <3>1, <3>2 DEF IsLive, Over
  <2>2. PollAt(K, Pos)'
    BY <1>9, <2>1 DEF SingleInv, CallInv, PollAt, FetchOK
  <2> QED
    BY <1>1, <1>9, <2>2 DEF SingleInv, CallInv
<1>14. CoverInv'
  <2> SUFFICES ASSUME Pos.entry # 0 PROVE CoverAt(K, Pos)' /\ Pos.phase # "active"
    BY <1>9 DEF CoverInv
  <2>1. ~Pos.filled
    BY <1>8
  <2>2. Pos.phase # "active" /\ K.pc \notin FillPcs \cup HoldPcs \cup TrailPcs
    BY <2>1 DEF SingleInv, EntryInv, CallInv, PollAt
  <2> QED
    BY <1>9, <2>2 DEF CoverAt, AskedAt, ToldAt, FillPcs, HoldPcs, TrailPcs
<1> QED
  BY <1>12, <1>13, <1>14

\* And an exit fills; the user is not at the exchange.
LEMMA CoverExchange ==
    ASSUME SingleInv, Exchange
    PROVE  EntryInv' /\ CallInv' /\ CoverInv'
<1>1. ~UserActs
  BY DEF UserActs, Fault, SingleInv, OnePosition
<1>2. PICK i \in 1..Len(orders) : EntryFills(i) \/ ExitFills(i)
  BY <1>1 DEF Exchange
<1>3. CASE ExitFills(i)
  <2>1. UNCHANGED <<task, obj, tracked>>
    BY <1>3 DEF ExitFills, bot
  <2>2. size' \in 0..1 /\ size' <= size /\ (size' = 0)
    BY <1>3 DEF ExitFills, Reduced, SingleInv, EntryInv
  <2>3. orders' = [orders EXCEPT ![i].st = "filled"] /\ IsLive(orders, i) /\ "filled" \in OrderStates \ {"live", "part"}
    BY <1>3 DEF ExitFills, OrderStates
  <2>4. Settled(orders', size') /\ NoEntryIn(orders')
    BY <2>2, <2>3, EndIsSettled
  <2>5. \A a : SparedBut(orders', size', a)
    BY <2>2 DEF SparedBut
  <2>6. K' = K /\ Placer' = Placer /\ Panicked' = Panicked /\ Leaver' = Leaver /\ Placed' = Placed /\ Pos' = Pos
    BY <2>1 DEF K, Placer, Panicked, Leaver, Placed, Pos
  <2>7. EntryInv'
    BY <2>1, <2>4, <2>6, EntrySettles
  <2>8. PollAt(K, Pos)'
    <3>1. \A j \in 1..Len(orders) : orders[j].st \in Over => orders'[j].st \in Over
      BY <2>4 DEF Settled
    <3>2. Pos.entry # 0 => Pos.entry \in 1..Len(orders)
      BY DEF SingleInv, EntryInv, IsEntry
    <3> QED
      BY <2>6, <3>1, <3>2 DEF SingleInv, CallInv, PollAt, FetchOK, Over
  <2>9. CallInv'
    BY <2>1, <2>6, <2>8 DEF SingleInv, CallInv
  <2>10. Pos.entry # 0 /\ Watched => Told'
    <3>1. (Covered => Covered') /\ (\A j : CoveredBy(j) => CoveredBy(j)')
      BY <2>4, <2>5, SparedStays
    <3> QED
      BY <2>2, <2>6, <3>1 DEF Told, ToldAt, SingleInv, CoverInv, CoverAt
  <2>11. CoverInv'
    BY <2>1, <2>4, <2>5, <2>6, <2>10, CoverSettles
  <2> QED
    BY <2>7, <2>9, <2>11
<1> QED
  BY <1>2, <1>3, CoverEnters
-----------------------------------------------------------------------------
(* The poll loop, with one position.                                       *)

\* The poll loop goes on with object b and locals k.
LEMMA CoverGoes ==
    ASSUME SingleInv, UNCHANGED <<orders, size>>, Taken(Pos), NEW b, NEW k, Taken(b),
           b.entry = Pos.entry, Pos.filled => b.filled,
           b.filled /\ b.entry # 0 => orders[b.entry].st \in Over,
           b.phase = "pending" => Pos.phase = "pending", b.phase = "active" => b.filled,
           obj' = [obj EXCEPT ![1] = b], task' = [task EXCEPT !["poll"] = k], tracked' \in {0, tracked},
           k.pc = "idle" => k.res # "wait", PollAt(k, b),
           b.entry # 0 /\ Watched => CoverAt(k, b) /\ (b.phase = "active" /\ k.pc # "unwind" => Covered)
    PROVE  EntryInv' /\ CallInv' /\ CoverInv'
<1>1. DOMAIN obj = {1} /\ DOMAIN task = Tasks /\ Placer.pc = "idle"
  BY OnlyOne DEF Taken, SingleInv, CallInv
<1>2. Pos' = b /\ K' = k /\ task' = [task EXCEPT !["poll"] = k]
  BY <1>1 DEF Pos, K, Tasks
<1>3. /\ Placer' = Placer /\ Panicked' = Panicked /\ Leaver' = Leaver
      /\ \A u \in Tasks \ {"poll"} : task'[u] = task[u]
  BY <1>1 DEF Placer, Panicked, Leaver, Tasks
<1>4. ~Placed /\ ~Placed'
  BY <1>1, <1>3 DEF Placed
<1>5. \A i : IsEntry(i)' <=> IsEntry(i)
  BY DEF IsEntry
<1>6. EntryInv'
  <2>1. /\ size \in 0..1
        /\ \A i : IsEntry(i) => i = Pos.entry
        /\ Pos.entry # 0 => IsEntry(Pos.entry)
        /\ \A i : IsEntry(i) /\ orders[i].st = "live" => size = 0
        /\ Pos.phase = "pending" => Pos.entry # 0
    BY <1>4 DEF SingleInv, EntryInv
  <2>2. b.phase # "new"
    BY DEF Taken
  <2>3. (Pos.entry # 0 => IsEntry(Pos.entry))'
    BY <1>2, <2>1 DEF IsEntry
  <2>4. (\A i : IsEntry(i) /\ orders[i].st = "live" => size = 0)'
    BY <1>5, <2>1
  <2>5. (\A i : IsEntry(i) => i = Pos.entry)'
    BY <1>2, <1>5, <2>1
  <2> QED
    BY <1>2, <1>4, <2>1, <2>2, <2>3, <2>4, <2>5 DEF EntryInv, Over
<1>7. CallInv'
  <2>1. PollAt(K, Pos)'
    BY <1>2 DEF PollAt, FetchOK
  <2>2. \A u \in Tasks : task'[u].pc = "idle" => task'[u].res # "wait"
    <3>1. task'["poll"] = k
      BY <1>2 DEF K
    <3> QED
      BY <1>3, <3>1 DEF SingleInv, CallInv
  <2> QED
    BY <1>2, <1>3, <2>1, <2>2 DEF SingleInv, CallInv
<1>8. CoverInv'
  <2> SUFFICES ASSUME Pos'.entry # 0, Watched'
               PROVE  CoverAt(K, Pos)' /\ (Pos'.phase = "active" /\ K'.pc # "unwind" => Covered')
    BY DEF CoverInv
  <2>1. Watched
    BY <1>3 DEF Watched
  <2>2. CoverAt(k, b) /\ (b.phase = "active" /\ k.pc # "unwind" => Covered)
    BY <1>2, <2>1
  <2>3. Covered' = Covered /\ \A i : CoveredBy(i)' = CoveredBy(i)
    BY DEF Covered, CoveredBy, LiveOf, IsLive
  <2> QED
    BY <1>2, <2>2, <2>3 DEF CoverAt, AskedAt, ToldAt
<1> QED
  BY <1>6, <1>7, <1>8

\* The object as a handler has changed it so far.
Kin(b) == /\ Taken(b) /\ b.entry = Pos.entry /\ b.filled = Pos.filled
          /\ b.phase = "pending" => Pos.phase = "pending"
          /\ b.phase = "active" => Pos.phase = "active"
\* A handler of the poll loop at work.
Busy(k, b) == /\ SingleInv /\ UNCHANGED <<orders, size>> /\ Taken(Pos)
              /\ LocalOK(k) /\ k.o = 1 /\ Kin(b)

\* What the handlers change of the object leaves it so.
LEMMA KinFields ==
    ASSUME NEW b, Kin(b)
    PROVE  /\ \A x : /\ Kin([b EXCEPT !.sl = x]) /\ Kin([b EXCEPT !.tp = x])
                    /\ Kin([b EXCEPT !.fails = x]) /\ Kin(Moved(b, x)) /\ Kin(Stopped(b, x))
                    /\ Kin(AsEmergency(b, x))
                    /\ Kin(AsClosed(b, x)) /\ AsClosed(b, x).phase = "closed"
                    /\ AsEmergency(b, x).phase = "emergency"
           /\ Kin(Marked(b))
           /\ \A n, p : p = "failed" \/ p = b.phase => Kin([b EXCEPT !.retries = n, !.phase = p])
<1>1. \A c : DOMAIN c = ObjFields /\ c.entry = b.entry /\ c.filled = b.filled
             /\ (c.phase = b.phase \/ c.phase \in {"failed", "closed", "emergency"}) => Kin(c)
  BY DEF Kin, Taken
<1>2. DOMAIN b = ObjFields
  BY DEF Kin, Taken
<1>3. ASSUME NEW x
      PROVE  /\ Kin([b EXCEPT !.sl = x]) /\ Kin([b EXCEPT !.tp = x])
             /\ Kin([b EXCEPT !.fails = x]) /\ Kin(Moved(b, x)) /\ Kin(Stopped(b, x))
  BY <1>1, <1>2 DEF ObjFields, NoObj, Moved, Stopped
<1>4. ASSUME NEW x PROVE Kin(AsEmergency(b, x)) /\ AsEmergency(b, x).phase = "emergency"
  BY <1>1, <1>2 DEF ObjFields, NoObj, AsEmergency
<1>5. ASSUME NEW x PROVE Kin(AsClosed(b, x)) /\ AsClosed(b, x).phase = "closed"
  <2> DEFINE c == AsClosed(b, x)
  <2>1. DOMAIN c = ObjFields /\ c.entry = b.entry /\ c.filled = b.filled /\ c.phase = "closed"
    BY <1>2 DEF ObjFields, NoObj, AsClosed
  <2> HIDE DEF c
  <2> QED
    BY <1>1, <2>1 DEF c
<1>6. Kin(Marked(b))
  <2>1. Kin([b EXCEPT !.tr = TRUE]) /\ Kin([b EXCEPT !.be = TRUE])
    BY <1>1, <1>2 DEF ObjFields, NoObj
  <2> QED
    BY <2>1 DEF Marked
<1>7. ASSUME NEW n, NEW p, p = "failed" \/ p = b.phase PROVE Kin([b EXCEPT !.retries = n, !.phase = p])
  <2> DEFINE c == [b EXCEPT !.retries = n, !.phase = p]
  <2>1. DOMAIN c = ObjFields /\ c.entry = b.entry /\ c.filled = b.filled /\ c.phase = p
    BY <1>2 DEF ObjFields, NoObj
  <2> HIDE DEF c
  <2>2. Kin(c)
    BY <1>1, <1>7, <2>1
  <2> QED
    BY <2>2 DEF c
<1> QED
  BY <1>3, <1>4, <1>5, <1>6, <1>7

\* What Kin says is what CoverGoes asks of the object.
LEMMA KinGoes ==
    ASSUME SingleInv, NEW b, Kin(b)
    PROVE  /\ Taken(b) /\ b.entry = Pos.entry /\ (Pos.filled => b.filled)
           /\ b.filled /\ b.entry # 0 => orders[b.entry].st \in Over
           /\ b.phase = "pending" => Pos.phase = "pending"
           /\ b.phase = "active" => b.filled
BY DEF Kin, SingleInv, EntryInv

\* The ways to go on.
LEMMA CoverAsks ==
    ASSUME NEW b, NEW k, NEW pc, NEW call, NEW arg, Busy(k, b), Call(k, b, pc, call, arg),
           pc \notin {"idle", "p.fetch"}, call # "entry", call = "cancel" => pc \in Cancels,
           pc = "y.pos" => call = "position",
           pc \in FillPcs \cup HoldPcs \cup TrailPcs => Pos.filled,
           K.pc = "unwind" => pc = "unwind",
           Pos.entry # 0 /\ Watched => AskedAt(pc, arg, k.new, k.slFound)
    PROVE  EntryInv' /\ CallInv' /\ CoverInv'
<1> DEFINE k2 == [k EXCEPT !.pc = pc, !.call = call, !.arg = arg, !.res = "wait", !.got = 0]
<1>1. k2.pc = pc /\ k2.call = call /\ k2.arg = arg /\ k2.new = k.new /\ k2.slFound = k.slFound /\ k2.res = "wait"
  BY DEF Busy, LocalOK, LocalFields, Idle
<1>2. obj' = [obj EXCEPT ![1] = b] /\ task' = [task EXCEPT !["poll"] = k2] /\ tracked' = tracked
  BY DEF Call, AskWith, Busy
<1> HIDE DEF k2
<1>3. SingleInv /\ UNCHANGED <<orders, size>> /\ Taken(Pos) /\ Kin(b)
  BY DEF Busy
<1>4. PollAt(k2, b)
  BY <1>1, <1>3 DEF PollAt, Kin
<1>5. Pos.entry # 0 /\ Watched => CoverAt(k2, b) /\ (b.phase = "active" /\ k2.pc # "unwind" => Covered)
  BY <1>1, <1>3 DEF CoverAt, ToldAt, Kin, SingleInv, CoverInv
<1>6. b.entry = Pos.entry /\ k2.pc # "idle"
  BY <1>1, <1>3 DEF Kin
<1> QED
  BY <1>2, <1>3, <1>4, <1>5, <1>6, KinGoes, CoverGoes

\* The poll loop is done with the position for now.
LEMMA CoverFinishes ==
    ASSUME NEW b, NEW c, NEW k, Busy(k, c), Kin(b), FinishWith("poll", k, b), tracked' \in {0, tracked},
           K.pc = "unwind" => b.phase # "active"
    PROVE  EntryInv' /\ CallInv' /\ CoverInv'
<1>1. obj' = [obj EXCEPT ![1] = b] /\ task' = [task EXCEPT !["poll"] = Idle]
  BY DEF FinishWith, Busy
<1>2. SingleInv /\ UNCHANGED <<orders, size>> /\ Taken(Pos)
  BY DEF Busy
<1>3. PollAt(Idle, b) /\ Idle.res # "wait"
  BY DEF PollAt, Idle, FillPcs, HoldPcs, TrailPcs
<1>4. CoverAt(Idle, b)
  BY DEF CoverAt, AskedAt, ToldAt, Idle
<1>5. Pos.entry # 0 /\ Watched => (b.phase = "active" => Covered)
  BY DEF Kin, Busy, SingleInv, CoverInv
<1>6. b.entry = Pos.entry
  BY DEF Kin
<1> QED
  BY <1>1, <1>2, <1>3, <1>4, <1>5, <1>6, KinGoes, CoverGoes

\* It leaves the position, step by step.
LEMMA CoverLeaves ==
    ASSUME NEW b, NEW k, NEW todo, NEW why, Busy(k, b), Unwind("poll", k, b, todo, why)
    PROVE  EntryInv' /\ CallInv' /\ CoverInv'
<1> DEFINE rest == SelectSeq(todo, LAMBDA c : Wanted(b, c))
           k2   == [k EXCEPT !.todo = Tail(rest), !.why = why]
<1>1. Busy(k2, b)
  BY DEF Busy, LocalOK, LocalFields, Idle
<1>2. \/ FinishWith("poll", k, AsClosed(b, why)) /\ tracked' = 0
      \/ AskWith("poll", k2, b, "unwind", "market", 0)
      \/ AskWith("poll", k2, b, "unwind", "cancel", b[Head(rest)])
  BY DEF Unwind, Forget
<1> HIDE DEF k2, rest
<1>3. CASE FinishWith("poll", k, AsClosed(b, why)) /\ tracked' = 0
  <2>1. Kin(AsClosed(b, why)) /\ AsClosed(b, why).phase # "active"
    BY KinFields DEF Busy
  <2> QED
    BY <1>3, <2>1, CoverFinishes
<1>4. \A arg, new, found : AskedAt("unwind", arg, new, found)
  BY DEF AskedAt
<1>5. "unwind" \notin FillPcs \cup HoldPcs \cup TrailPcs /\ "unwind" \in Cancels
  BY DEF FillPcs, HoldPcs, TrailPcs, Cancels
<1> QED
  BY <1>1, <1>2, <1>3, <1>4, <1>5, CoverAsks DEF Call

\* The locals a handler changes leave it at work.
LEMMA BusyFields ==
    ASSUME NEW k, NEW b, Busy(k, b)
    PROVE  /\ \A c : Kin(c) => Busy(k, c)
           /\ \A x : /\ Busy([k EXCEPT !.slFound = x], b) /\ [k EXCEPT !.slFound = x].slFound = x
                    /\ Busy([k EXCEPT !.tpFound = x, !.n = 1], b)
                    /\ [k EXCEPT !.tpFound = x, !.n = 1].slFound = k.slFound
                    /\ Busy([k EXCEPT !.n = x], b)
                    /\ Busy([k EXCEPT !.new = x], b) /\ [k EXCEPT !.new = x].new = x
BY DEF Busy, LocalOK, LocalFields, Idle
\* After the entry filled, once there is a stop-loss.
Backed(k, b) == Busy(k, b) /\ Pos.filled /\ K.pc # "unwind" /\ (Pos.entry # 0 /\ Watched => Covered)

LEMMA BackedAsks ==
    ASSUME NEW b, NEW k, NEW pc, NEW call, NEW arg, Backed(k, b), Call(k, b, pc, call, arg),
           pc \in FillPcs, call \notin {"entry", "cancel"}
    PROVE  EntryInv' /\ CallInv' /\ CoverInv'
<1>1. Pos.entry # 0 /\ Watched => AskedAt(pc, arg, k.new, k.slFound)
  BY DEF Backed, AskedAt, FillPcs
<1>2. pc \notin {"idle", "p.fetch", "y.pos"}
  BY DEF FillPcs
<1> QED
  BY <1>1, <1>2, CoverAsks DEF Backed

\* The position becomes active: it has a stop-loss.
LEMMA BackedActivates ==
    ASSUME NEW b, NEW k, Backed(k, b), Activate(k, b)
    PROVE  EntryInv' /\ CallInv' /\ CoverInv'
<1> DEFINE c == [b EXCEPT !.phase = "active"]
<1>1. /\ SingleInv /\ UNCHANGED <<orders, size>> /\ Taken(Pos) /\ Kin(b) /\ Pos.filled
      /\ Pos.entry # 0 /\ Watched => Covered
  BY DEF Backed, Busy
<1>2. Taken(c) /\ c.entry = Pos.entry /\ c.filled = Pos.filled /\ c.phase = "active"
  BY <1>1 DEF Kin, Taken, ObjFields, NoObj
<1>3. obj' = [obj EXCEPT ![1] = c] /\ task' = [task EXCEPT !["poll"] = Idle] /\ tracked' = tracked
  BY DEF Activate, FinishWith, Backed, Busy
<1> HIDE DEF c
<1>4. PollAt(Idle, c) /\ Idle.res # "wait" /\ CoverAt(Idle, c)
  BY DEF PollAt, Idle, FillPcs, HoldPcs, TrailPcs, CoverAt, AskedAt, ToldAt
<1>5. Pos.entry # 0 => orders[Pos.entry].st \in Over
  BY <1>1 DEF SingleInv, EntryInv
<1> QED
  BY <1>1, <1>2, <1>3, <1>4, <1>5, CoverGoes

\* The handlers of a filled entry that go on from a stop-loss.
LEMMA BackedVerifies ==
    ASSUME NEW b, NEW k, Backed(k, b), VerifyTp(k, b) \/ VerifySl(k, b)
    PROVE  EntryInv' /\ CallInv' /\ CoverInv'
<1>1. Activate(k, b) \/ Call(k, b, "f.vtp", "find_tp", 0) \/ Call(k, b, "f.verify", "has_sl", b.sl)
  BY DEF VerifyTp, VerifySl
<1>2. {"f.vtp", "f.verify"} \subseteq FillPcs
  BY DEF FillPcs
<1> QED
  BY <1>1, <1>2, BackedAsks, BackedActivates

\* The same, with the take-profit or a bad fill before it.
LEMMA BackedPlaces ==
    ASSUME NEW b, NEW k, Backed(k, b), PlaceTp(k, b) \/ CheckFill(k, b)
    PROVE  EntryInv' /\ CallInv' /\ CoverInv'
<1>1. Call(k, b, "f.tp2", "tp", 0) \/ Leave(k, b, Exits, "bad_fill") \/ VerifySl(k, b)
  BY DEF PlaceTp, CheckFill
<1>2. "f.tp2" \in FillPcs
  BY DEF FillPcs
<1> QED
  BY <1>1, <1>2, BackedAsks, BackedVerifies, CoverLeaves DEF Leave, Backed

\* From the entry's fill to the active position.
LEMMA CoverFills ==
    ASSUME SingleInv, FillSteps, UNCHANGED <<orders, size>>
    PROVE  EntryInv' /\ CallInv' /\ CoverInv'
<1>1. K.pc \in FillPcs /\ K.pc # "idle" /\ K.pc # "unwind"
  BY DEF FillSteps, FoundSl, FoundTp, PlacedSl, PlacedTp, VerifiedSl, ReplacedSl, VerifiedTp, ReplacedTp,
         Here, At, K, FillPcs
<1>2. K.o = 1 /\ B = Pos /\ Taken(Pos)
  BY <1>1, OnlyOne
<1>3. LocalOK(K)
  BY DEF SingleInv, MonitorInv, Shapes, K, Tasks
<1>4. Busy(K, B) /\ Pos.filled
  BY <1>1, <1>2, <1>3 DEF Busy, Kin, SingleInv, CallInv, PollAt
<1>5. Pos.entry # 0 /\ Watched => AskedAt(K.pc, K.arg, K.new, K.slFound) /\ ToldAt(K.pc, K.res, K.got, Pos)
  BY DEF SingleInv, CoverInv, CoverAt
<1>6. Good => K.res = "ok"
  BY DEF Good, Ok, K
<1>7. \A x, k : Busy(k, B) => Busy(k, [B EXCEPT !.sl = x]) /\ Busy(k, [B EXCEPT !.tp = x])
  BY <1>4, KinFields, BusyFields DEF Busy
<1>8. Busy(K, [B EXCEPT !.sl = K.got]) /\ Busy(K, [B EXCEPT !.tp = K.got])
  BY <1>4, <1>7
<1>9. \A k, b : Busy(k, b) /\ (Pos.entry # 0 /\ Watched => Covered) => Backed(k, b)
  BY <1>1, <1>4 DEF Backed
<1>10. \A arg, new, found : /\ AskedAt("f.stop", arg, new, found)
                            /\ AskedAt("f.tp", arg, new, found) <=> (found => Covered)
  BY DEF AskedAt
<1>11. {"f.tp", "f.stop", "f.restop", "f.retp"} \subseteq FillPcs
  BY DEF FillPcs
<1>12. CASE FoundSl
  <2> DEFINE k == [K EXCEPT !.slFound = Good]
             b == IF Good THEN [B EXCEPT !.sl = K.got] ELSE B
  <2>1. Call(k, b, "f.tp", "find_tp", 0) /\ K.pc = "f.sl"
    BY <1>12 DEF FoundSl, Here, At, K
  <2>2. Busy(k, B) /\ k.slFound = Good
    <3>1. Busy(k, B)
      BY <1>4, BusyFields
    <3>2. k.slFound = Good
      BY <1>3 DEF LocalOK, LocalFields, Idle
    <3> QED
      BY <3>1, <3>2
  <2> HIDE DEF k
  <2>3. Busy(k, b)
    BY <1>7, <2>2
  <2> HIDE DEF b
  <2>4. Pos.entry # 0 /\ Watched => AskedAt("f.tp", 0, k.new, k.slFound)
    BY <1>5, <1>6, <1>10, <2>1, <2>2 DEF ToldAt
  <2> QED
    BY <1>1, <1>4, <1>11, <2>1, <2>3, <2>4, CoverAsks
<1>13. CASE FoundTp
  <2> DEFINE k == [K EXCEPT !.tpFound = Good, !.n = 1]
             b == IF Good THEN [B EXCEPT !.tp = K.got] ELSE B
  <2>1. (k.slFound /\ PlaceTp(k, b)) \/ Call(k, b, "f.stop", "stop", 0)
    BY <1>13 DEF FoundTp
  <2>2. K.pc = "f.tp"
    BY <1>13 DEF FoundTp, Here, At, K
  <2>3. Busy(k, B) /\ k.slFound = K.slFound
    BY <1>4, BusyFields
  <2> HIDE DEF k
  <2>4. Busy(k, b)
    BY <1>7, <2>3
  <2> HIDE DEF b
  <2>5. CASE k.slFound /\ PlaceTp(k, b)
    <3>1. Pos.entry # 0 /\ Watched => Covered
      BY <1>5, <2>2, <2>3, <2>5 DEF AskedAt
    <3> QED
      BY <1>9, <2>4, <2>5, <3>1, BackedPlaces
  <2>6. CASE Call(k, b, "f.stop", "stop", 0)
    BY <1>1, <1>4, <1>10, <1>11, <2>4, <2>6, CoverAsks
  <2> QED
    BY <2>1, <2>5, <2>6
<1>14. CASE PlacedSl
  <2>1. K.pc = "f.stop"
    BY <1>14 DEF PlacedSl, Here, At, K
  <2>2. \/ Good /\ PlaceTp(K, [B EXCEPT !.sl = K.got])
        \/ Call([K EXCEPT !.n = @ + 1], B, "f.stop", "stop", 0)
        \/ Leave(K, B, <<"market">>, "emergency")
    BY <1>14 DEF PlacedSl
  <2>3. CASE Good /\ PlaceTp(K, [B EXCEPT !.sl = K.got])
    <3>1. Pos.entry # 0 /\ Watched => Covered
      BY <1>5, <1>6, <2>1, <2>3 DEF ToldAt
    <3> QED
      BY <1>8, <1>9, <2>3, <3>1, BackedPlaces
  <2>4. CASE Call([K EXCEPT !.n = @ + 1], B, "f.stop", "stop", 0)
    <3>1. Busy([K EXCEPT !.n = @ + 1], B)
      BY <1>4, BusyFields
    <3> QED
      BY <1>1, <1>4, <1>10, <1>11, <2>4, <3>1, CoverAsks
  <2>5. CASE Leave(K, B, <<"market">>, "emergency")
    BY <1>4, <2>5, CoverLeaves DEF Leave
  <2> QED
    BY <2>2, <2>3, <2>4, <2>5
\* From here on there is a stop-loss.
<1>15. K.pc \in {"f.tp2", "f.verify", "f.restop", "f.vtp", "f.retp"} => Backed(K, B) /\ \A b : Busy(K, b) => Backed(K, b)
  BY <1>4, <1>5, <1>9 DEF AskedAt
<1>16. CASE PlacedTp
  <2>1. K.pc = "f.tp2"
    BY <1>16 DEF PlacedTp, Here, At, K
  <2> QED
    BY <1>8, <1>15, <1>16, <2>1, BackedPlaces DEF PlacedTp
<1>17. CASE VerifiedSl
  <2>1. K.pc = "f.verify"
    BY <1>17 DEF VerifiedSl, Here, At, K
  <2> QED
    BY <1>11, <1>15, <1>17, <2>1, BackedVerifies, BackedAsks DEF VerifiedSl
<1>18. CASE ReplacedSl
  <2>1. K.pc = "f.restop"
    BY <1>18 DEF ReplacedSl, Here, At, K
  <2>2. VerifyTp(K, [B EXCEPT !.sl = K.got]) \/ Leave(K, B, <<"market">>, "emergency")
    BY <1>18 DEF ReplacedSl
  <2> QED
    BY <1>4, <1>8, <1>15, <2>1, <2>2, BackedVerifies, CoverLeaves DEF Leave
<1>19. CASE VerifiedTp
  <2>1. K.pc = "f.vtp"
    BY <1>19 DEF VerifiedTp, Here, At, K
  <2>2. Activate(K, [B EXCEPT !.tp = K.got]) \/ Call(K, B, "f.retp", "tp", 0)
    BY <1>19 DEF VerifiedTp
  <2> QED
    BY <1>8, <1>11, <1>15, <2>1, <2>2, BackedActivates, BackedAsks
<1>20. CASE ReplacedTp
  <2>1. K.pc = "f.retp"
    BY <1>20 DEF ReplacedTp, Here, At, K
  <2>2. Activate(K, [B EXCEPT !.tp = K.got]) \/ Activate(K, B)
    BY <1>20 DEF ReplacedTp
  <2> QED
    BY <1>8, <1>15, <2>1, <2>2, BackedActivates
<1> QED
  BY <1>12, <1>13, <1>14, <1>16, <1>17, <1>18, <1>19, <1>20 DEF FillSteps
\* While the position is held.
Held(k, b) == Busy(k, b) /\ Pos.filled /\ K.pc # "unwind"
Waits == (HoldPcs \cup TrailPcs) \ Cancels

\* A call while the position is held takes no stop-loss away.
LEMMA HeldAsks ==
    ASSUME NEW b, NEW k, NEW pc, NEW call, NEW arg, Held(k, b), Call(k, b, pc, call, arg),
           pc \in Waits, call \notin {"entry", "cancel"}, pc = "y.pos" => call = "position"
    PROVE  EntryInv' /\ CallInv' /\ CoverInv'
<1>1. AskedAt(pc, arg, k.new, k.slFound)
  BY DEF AskedAt, Waits, HoldPcs, TrailPcs, Cancels
<1>2. pc \notin {"idle", "p.fetch"}
  BY DEF Waits, HoldPcs, TrailPcs
<1> QED
  BY <1>1, <1>2, CoverAsks DEF Held

LEMMA HeldEnds ==
    ASSUME NEW b, NEW k, Held(k, b), Done("poll", k, b)
    PROVE  EntryInv' /\ CallInv' /\ CoverInv'
<1>1. Kin(b) /\ tracked' \in {0, tracked} /\ FinishWith("poll", k, b)
  BY DEF Done, Held, Busy
<1> QED
  BY <1>1, CoverFinishes DEF Held

LEMMA HeldTrails ==
    ASSUME NEW b, NEW k, Held(k, b), Trail(k, b)
    PROVE  EntryInv' /\ CallInv' /\ CoverInv'
<1>1. "trail.tick" \in Waits
  BY DEF Waits, TrailPcs, Cancels
<1>2. Done("poll", k, b) \/ Call(k, b, "trail.tick", "ticker", 0)
  BY DEF Trail
<1> QED
  BY <1>1, <1>2, HeldAsks, HeldEnds

\* What the handlers of a held position go on with.
LEMMA HeldChecks ==
    ASSUME NEW b, NEW k, Held(k, b), CheckTp(k, b) \/ VerifyExists(k, b) \/ CheckActive(k, b)
    PROVE  EntryInv' /\ CallInv' /\ CoverInv'
<1>1. {"a.verify", "a.tp", "a.sl", "a.adopt"} \subseteq Waits
  BY DEF Waits, HoldPcs, Cancels
<1>2. \/ Trail(k, b) \/ Call(k, b, "a.verify", "has_sl", b.sl) \/ Call(k, b, "a.tp", "fetch", b.tp)
      \/ Leave(k, b, Exits, "timeout") \/ Call(k, b, "a.sl", "fetch", b.sl)
      \/ Call(k, b, "a.adopt", "position", 0)
  <2>1. VerifyExists(k, b) => Trail(k, b) \/ Call(k, b, "a.verify", "has_sl", b.sl)
    BY DEF VerifyExists
  <2>2. CheckTp(k, b) => VerifyExists(k, b) \/ Call(k, b, "a.tp", "fetch", b.tp)
    BY DEF CheckTp
  <2>3. CheckActive(k, b) => \/ Leave(k, b, Exits, "timeout") \/ Call(k, b, "a.sl", "fetch", b.sl)
                             \/ CheckTp(k, b) \/ Call(k, b, "a.adopt", "position", 0)
    BY DEF CheckActive
  <2> QED
    BY <2>1, <2>2, <2>3
<1> QED
  BY <1>1, <1>2, HeldAsks, HeldTrails, CoverLeaves DEF Leave, Held

\* The position is gone: it is closed, and its trail checked once more.
LEMMA CoverClosesAndTrails ==
    ASSUME Held(K, B), B = Pos, CloseAndTrail
    PROVE  EntryInv' /\ CallInv' /\ CoverInv'
<1> DEFINE b == AsClosed(B, "sl")
           k == [K EXCEPT !.pc = "trail.tick", !.call = "ticker", !.arg = 0, !.res = "wait", !.got = 0]
<1>1. Kin(b) /\ b.phase = "closed" /\ Pos.filled /\ SingleInv /\ UNCHANGED <<orders, size>> /\ Taken(Pos)
      /\ K.o = 1 /\ LocalOK(K)
  BY KinFields DEF Held, Busy
<1>2. /\ obj' = [obj EXCEPT ![1] = b] /\ tracked' \in {0, tracked}
      /\ task' = [task EXCEPT !["poll"] = Idle] \/ task' = [task EXCEPT !["poll"] = k]
  BY <1>1 DEF CloseAndTrail, Forget
<1>3. k.pc = "trail.tick" /\ k.call = "ticker"
  BY <1>1 DEF LocalOK, LocalFields, Idle
<1> HIDE DEF b, k
<1>4. PollAt(Idle, b) /\ Idle.res # "wait" /\ CoverAt(Idle, b)
  BY DEF PollAt, Idle, FillPcs, HoldPcs, TrailPcs, CoverAt, AskedAt, ToldAt
<1>5. PollAt(k, b) /\ k.pc # "idle" /\ CoverAt(k, b)
  BY <1>1, <1>3 DEF PollAt, Kin, CoverAt, AskedAt, ToldAt
<1>6. b.phase # "active" /\ /\ Taken(b) /\ b.entry = Pos.entry /\ (Pos.filled => b.filled)
                            /\ b.filled /\ b.entry # 0 => orders[b.entry].st \in Over
                            /\ b.phase = "pending" => Pos.phase = "pending"
                            /\ b.phase = "active" => b.filled
  BY <1>1, KinGoes
<1>7. CASE task' = [task EXCEPT !["poll"] = Idle]
  BY <1>1, <1>2, <1>4, <1>6, <1>7, CoverGoes
<1>8. CASE task' = [task EXCEPT !["poll"] = k]
  BY <1>1, <1>2, <1>5, <1>6, <1>8, CoverGoes
<1> QED
  BY <1>2, <1>7, <1>8

\* A held position.
LEMMA CoverHolds ==
    ASSUME SingleInv, ActiveSteps, UNCHANGED <<orders, size>>
    PROVE  EntryInv' /\ CallInv' /\ CoverInv'
<1>1. K.pc \in HoldPcs \cup TrailPcs /\ K.pc # "idle" /\ K.pc # "unwind"
  BY DEF ActiveSteps, AdoptedFetched, SlFetched, CancelledSl, RestoredSl, VanishedSl, RevivedSl, TpFetched,
         SlVerified, MissingSl, ReinstatedSl, GoneVerified, TrailTick, TrailStop, TrailCancel,
         Here, At, K, HoldPcs, TrailPcs
<1>2. K.o = 1 /\ B = Pos /\ Taken(Pos)
  BY <1>1, OnlyOne
<1>3. LocalOK(K)
  BY DEF SingleInv, MonitorInv, Shapes, K, Tasks
<1>4. Held(K, B) /\ Busy(K, B)
  BY <1>1, <1>2, <1>3 DEF Held, Busy, Kin, SingleInv, CallInv, PollAt
<1>5. Pos.entry # 0 /\ Watched => ToldAt(K.pc, K.res, K.got, Pos)
  BY DEF SingleInv, CoverInv, CoverAt
<1>6. Good => K.res = "ok"
  BY DEF Good, Ok, K
<1>7. \A b : Kin(b) => Held(K, b) /\ Busy(K, b)
  BY <1>4, BusyFields DEF Held
<1>8. Kin(B)
  BY <1>4 DEF Busy
<1>9. \A x : /\ Held(K, [B EXCEPT !.fails = x]) /\ Held(K, Stopped(B, x)) /\ Held(K, Marked(Moved(B, x)))
             /\ Held(K, AsEmergency(B, x)) /\ Held(K, Marked(B))
  BY <1>7, <1>8, KinFields
<1>10. {"a.pos", "a.restop", "v.pos", "v.stop", "y.pos", "y.stop", "trail.stop"} \subseteq Waits
  BY DEF Waits, HoldPcs, TrailPcs, Cancels
<1>11. \A todo, why, b : Leave(K, b, todo, why) /\ Held(K, b) => EntryInv' /\ CallInv' /\ CoverInv'
  BY CoverLeaves DEF Leave, Held
<1>12. \A b : End(b) /\ Held(K, b) => EntryInv' /\ CallInv' /\ CoverInv'
  BY HeldEnds DEF End
<1>13. CASE AdoptedFetched
  BY <1>4, <1>11, <1>12, <1>13 DEF AdoptedFetched
<1>14. CASE SlFetched
  <2> DEFINE b == [B EXCEPT !.fails = @ + 1]
             c == [B EXCEPT !.fails = 0]
  <2>1. Held(K, b) /\ Held(K, c)
    BY <1>9
  <2>2. \/ Leave(K, B, <<"tp">>, "sl") \/ Call(K, B, "a.pos", "position", 0)
        \/ Call(K, b, "v.pos", "position", 0) \/ CheckTp(K, b) \/ CheckTp(K, c)
    BY <1>14 DEF SlFetched
  <2> HIDE DEF b, c
  <2> QED
    BY <1>4, <1>10, <1>11, <2>1, <2>2, HeldAsks, HeldChecks
<1>15. CASE CancelledSl
  BY <1>4, <1>10, <1>11, <1>15, HeldAsks DEF CancelledSl
<1>16. CASE RestoredSl
  BY <1>4, <1>9, <1>12, <1>16 DEF RestoredSl
<1>17. CASE VanishedSl
  <2>1. \/ Leave(K, B, <<"tp">>, "sl") \/ Call(K, B, "v.stop", "stop", B.level) \/ End(B)
    BY <1>17 DEF VanishedSl
  <2> QED
    BY <1>4, <1>10, <1>11, <1>12, <2>1, HeldAsks
<1>18. CASE RevivedSl
  BY <1>9, <1>12, <1>18 DEF RevivedSl
<1>19. CASE TpFetched
  BY <1>4, <1>11, <1>19, HeldChecks DEF TpFetched
<1>20. CASE SlVerified
  BY <1>4, <1>10, <1>20, HeldAsks, HeldTrails DEF SlVerified
<1>21. CASE MissingSl
  <2>1. \/ Call(K, B, "y.stop", "stop", B.level) \/ CloseAndTrail
        \/ K.res = "flat" /\ Call(K, B, "y.tp", "cancel", B.tp)
        \/ Trail(K, B)
    BY <1>21 DEF MissingSl
  <2>2. K.pc = "y.pos"
    BY <1>21 DEF MissingSl, Here, At, K
  <2>3. CASE K.res = "flat" /\ Call(K, B, "y.tp", "cancel", B.tp)
    <3>1. Pos.entry # 0 /\ Watched => AskedAt("y.tp", B.tp, K.new, K.slFound)
      BY <1>5, <2>2, <2>3 DEF ToldAt, AskedAt
    <3> QED
      BY <1>1, <1>4, <2>3, <3>1, CoverAsks DEF Held, Cancels
  <2> QED
    BY <1>2, <1>4, <1>10, <2>1, <2>3, HeldAsks, HeldTrails, CoverClosesAndTrails
<1>22. CASE ReinstatedSl
  BY <1>4, <1>9, <1>22, HeldTrails DEF ReinstatedSl
<1>23. CASE GoneVerified
  BY <1>2, <1>4, <1>23, CoverClosesAndTrails DEF GoneVerified
<1>24. CASE TrailTick
  BY <1>4, <1>10, <1>12, <1>24, HeldAsks DEF TrailTick
<1>25. CASE TrailStop
  <2> DEFINE k == [K EXCEPT !.new = K.got]
  <2>1. \/ Trail(K, Marked(B)) \/ Trail(K, Marked(Moved(B, K.got)))
        \/ Good /\ Call(k, B, "trail.cancel", "cancel", B.sl)
    BY <1>25 DEF TrailStop
  <2>2. K.pc = "trail.stop"
    BY <1>25 DEF TrailStop, Here, At, K
  <2>3. Busy(k, B) /\ k.new = K.got
    BY <1>4, BusyFields
  <2> HIDE DEF k
  <2>4. CASE Good /\ Call(k, B, "trail.cancel", "cancel", B.sl)
    <3>1. Pos.entry # 0 /\ Watched => AskedAt("trail.cancel", B.sl, k.new, k.slFound)
      BY <1>2, <1>5, <1>6, <2>2, <2>3, <2>4 DEF ToldAt, AskedAt
    <3> QED
      BY <1>1, <1>4, <2>3, <2>4, <3>1, CoverAsks DEF Held, Cancels
  <2> QED
    BY <1>9, <2>1, <2>4, HeldTrails
<1>26. CASE TrailCancel
  BY <1>9, <1>26, HeldTrails DEF TrailCancel
<1> QED
  BY <1>13, <1>14, <1>15, <1>16, <1>17, <1>18, <1>19, <1>20, <1>21, <1>22, <1>23, <1>24, <1>25, <1>26
     DEF ActiveSteps
\* A pending entry, an emergency and a position being left.
LEMMA CoverPolls ==
    ASSUME SingleInv, PendingFetched \/ EmergencyRetried \/ Unwinding("poll"), UNCHANGED <<orders, size>>
    PROVE  EntryInv' /\ CallInv' /\ CoverInv'
<1>1. K.pc \in {"p.fetch", "e.mkt", "unwind"} /\ K.pc # "idle"
  BY DEF PendingFetched, EmergencyRetried, Unwinding, Here, At, K
<1>2. K.o = 1 /\ B = Pos /\ Taken(Pos)
  BY <1>1, OnlyOne
<1>3. LocalOK(K)
  BY DEF SingleInv, MonitorInv, Shapes, K, Tasks
<1>4. Busy(K, B) /\ Kin(B)
  BY <1>2, <1>3 DEF Busy, Kin
<1>5. \A todo, why : Leave(K, B, todo, why) => EntryInv' /\ CallInv' /\ CoverInv'
  BY <1>4, CoverLeaves DEF Leave
<1>6. ASSUME NEW b, Kin(b), Done("poll", K, b), K.pc = "unwind" => b.phase # "active"
      PROVE  EntryInv' /\ CallInv' /\ CoverInv'
  BY <1>4, <1>6, CoverFinishes DEF Done
<1>7. CASE PendingFetched
  <2>1. K.pc = "p.fetch"
    BY <1>7 DEF PendingFetched, Here, At, K
  <2> DEFINE b == EntryFilled(B)
             k == [K EXCEPT !.pc = "f.sl", !.call = "find_sl", !.arg = 0, !.res = "wait", !.got = 0]
  <2>2. \/ K.res = "filled" /\ Call(K, b, "f.sl", "find_sl", 0)
        \/ Leave(K, B, <<>>, "cancelled") \/ End(B)
    BY <1>7 DEF PendingFetched
  <2>3. CASE K.res = "filled" /\ Call(K, b, "f.sl", "find_sl", 0)
    <3>1. obj' = [obj EXCEPT ![1] = b] /\ task' = [task EXCEPT !["poll"] = k] /\ tracked' = tracked
      BY <1>2, <2>3 DEF Call, AskWith
    <3>2. Taken(b) /\ b.entry = Pos.entry /\ b.filled = TRUE /\ b.phase = Pos.phase
      BY <1>2 DEF EntryFilled, Taken, ObjFields, NoObj
    <3>3. k.pc = "f.sl" /\ k.call = "find_sl" /\ k.res = "wait"
      BY <1>3 DEF LocalOK, LocalFields, Idle
    <3> HIDE DEF b, k
    <3>4. orders[Pos.entry].st \in Over
      BY <2>1, <2>3 DEF SingleInv, CallInv, PollAt, FetchOK
    <3>5. PollAt(k, b) /\ CoverAt(k, b) /\ k.pc # "idle"
      BY <3>2, <3>3 DEF PollAt, CoverAt, AskedAt, ToldAt
    <3>6. Pos.entry # 0 /\ Watched /\ Pos.phase = "active" => Covered
      BY <2>1 DEF SingleInv, CoverInv
    <3> QED
      BY <1>2, <3>1, <3>2, <3>4, <3>5, <3>6, CoverGoes
  <2> QED
    BY <1>4, <1>5, <1>6, <2>1, <2>2, <2>3 DEF End
<1>8. CASE EmergencyRetried
  <2>1. K.pc = "e.mkt"
    BY <1>8 DEF EmergencyRetried, Here, At, K
  <2>2. \/ Leave(K, B, <<>>, "emergency")
        \/ \E n, p : (p = "failed" \/ p = B.phase) /\ End([B EXCEPT !.retries = n, !.phase = p])
    BY <1>8 DEF EmergencyRetried
  <2>3. \A n, p : p = "failed" \/ p = B.phase => Kin([B EXCEPT !.retries = n, !.phase = p])
    BY <1>4, KinFields
  <2> QED
    BY <1>5, <1>6, <2>1, <2>2, <2>3 DEF End
<1>9. CASE Unwinding("poll")
  <2>1. Done("poll", K, AsEmergency(B, 1)) \/ Leave(K, B, K.todo, K.why)
    BY <1>9 DEF Unwinding, Obj, K, B, Leave
  <2>2. Kin(AsEmergency(B, 1)) /\ AsEmergency(B, 1).phase = "emergency"
    BY <1>4, KinFields
  <2> QED
    BY <1>5, <1>6, <2>1, <2>2
<1> QED
  BY <1>7, <1>8, <1>9

\* The poll loop takes the position up.
LEMMA CoverStarts ==
    ASSUME SingleInv, PollStart
    PROVE  EntryInv' /\ CallInv' /\ CoverInv'
<1> DEFINE k == [Idle EXCEPT !.o = tracked]
<1>1. tracked = 1 /\ K.pc = "idle" /\ UNCHANGED <<orders, size>> /\ Taken(Pos)
  BY OnlyOne DEF PollStart, okx
<1>2. LocalOK(k) /\ k.o = 1
  BY <1>1 DEF LocalOK, LocalFields, Idle
<1>3. \/ Leave(k, Pos, <<"entry">>, "cancelled")
      \/ Pos.phase = "pending" /\ Call(k, Pos, "p.fetch", "fetch", Pos.entry)
      \/ Pos.phase = "active" /\ CheckActive(k, Pos)
      \/ Call(k, Pos, "e.mkt", "market", 0)
  BY <1>1 DEF PollStart, Pos
<1> HIDE DEF k
<1>4. Busy(k, Pos) /\ Kin(Pos)
  BY <1>1, <1>2 DEF Busy, Kin
<1>5. CASE Leave(k, Pos, <<"entry">>, "cancelled")
  BY <1>4, <1>5, CoverLeaves DEF Leave
<1>6. CASE Pos.phase = "pending" /\ Call(k, Pos, "p.fetch", "fetch", Pos.entry)
  <2> DEFINE k2 == [k EXCEPT !.pc = "p.fetch", !.call = "fetch", !.arg = Pos.entry, !.res = "wait", !.got = 0]
  <2>1. obj' = [obj EXCEPT ![1] = Pos] /\ task' = [task EXCEPT !["poll"] = k2] /\ tracked' = tracked
    BY <1>2, <1>6 DEF Call, AskWith
  <2>2. k2.pc = "p.fetch" /\ k2.call = "fetch" /\ k2.arg = Pos.entry /\ k2.res = "wait"
    BY <1>2 DEF LocalOK, LocalFields, Idle
  <2> HIDE DEF k2
  <2>3. Pos.entry # 0
    BY <1>6 DEF SingleInv, EntryInv
  <2>4. PollAt(k2, Pos) /\ CoverAt(k2, Pos) /\ k2.pc # "idle"
    BY <2>2, <2>3 DEF PollAt, FetchOK, FillPcs, HoldPcs, TrailPcs, CoverAt, AskedAt, ToldAt
  <2>5. Pos.phase # "active"
    BY <1>6
  <2> QED
    BY <1>1, <1>4, <2>1, <2>4, <2>5, KinGoes, CoverGoes
<1>7. CASE Pos.phase = "active" /\ CheckActive(k, Pos)
  <2>1. Held(k, Pos)
    BY <1>1, <1>4, <1>7 DEF Held, SingleInv, EntryInv
  <2> QED
    BY <1>7, <2>1, HeldChecks
<1>8. CASE Call(k, Pos, "e.mkt", "market", 0)
  <2>1. "e.mkt" \notin FillPcs \cup HoldPcs \cup TrailPcs /\ AskedAt("e.mkt", 0, k.new, k.slFound)
    BY DEF FillPcs, HoldPcs, TrailPcs, AskedAt
  <2> QED
    BY <1>1, <1>4, <1>8, <2>1, CoverAsks
<1> QED
  BY <1>3, <1>5, <1>6, <1>7, <1>8
-----------------------------------------------------------------------------
(* The other coroutines, with one position.                                *)

\* A coroutine at work beside the poll loop: the object keeps what was said of
\* it, or the position is being left or forgotten.
LEMMA CoverBeside ==
    ASSUME SingleInv, UNCHANGED <<orders, size>>, Taken(Pos), NEW t \in {"cancel", "panic"}, NEW k, NEW b,
           Kin(b), Pos' = b, task' = [task EXCEPT ![t] = k],
           tracked' # 0 => tracked # 0,
           (tracked' # 0 /\ (t = "cancel" => k.pc # "unwind")) => b = Pos,
           t = "panic" \/ Leaver.pc # "unwind" \/ k.pc = "unwind" \/ tracked' = 0,
           k.pc = "idle" => k.res # "wait", k.call # "entry",
           t = "panic" => /\ k.pc \in {"idle", "k.cancel", "k.mkt"}
                          /\ k.call = "cancel" => Pos.entry # 0 /\ k.arg = Pos.entry,
           t = "cancel" => IF k.pc = "unwind" THEN k.why \notin Careful ELSE k.res # "wait"
    PROVE  EntryInv' /\ CallInv' /\ CoverInv'
<1>1. DOMAIN task = Tasks /\ Placer.pc = "idle"
  BY OnlyOne DEF Taken, SingleInv, CallInv
<1>2. /\ task'[t] = k /\ \A u \in Tasks \ {t} : task'[u] = task[u]
      /\ K' = K /\ Placer' = Placer
  BY <1>1 DEF K, Placer, Tasks
<1>3. /\ t = "panic" => Panicked' = k /\ Leaver' = Leaver
      /\ t = "cancel" => Leaver' = k /\ Panicked' = Panicked
  BY <1>2 DEF Panicked, Leaver, Tasks
<1>4. ~Placed /\ ~Placed'
  BY <1>1, <1>2 DEF Placed
<1>5. \A i : IsEntry(i)' <=> IsEntry(i)
  BY DEF IsEntry
<1>6. b.entry = Pos.entry /\ b.filled = Pos.filled
  BY DEF Kin
<1>7. EntryInv'
  <2>1. /\ size \in 0..1
        /\ \A i : IsEntry(i) => i = Pos.entry
        /\ Pos.entry # 0 => IsEntry(Pos.entry)
        /\ \A i : IsEntry(i) /\ orders[i].st = "live" => size = 0
        /\ Pos.phase = "pending" => Pos.entry # 0
    BY <1>4 DEF SingleInv, EntryInv
  <2>2. b.phase # "new"
    BY DEF Kin, Taken
  <2>3. (Pos.entry # 0 => IsEntry(Pos.entry))'
    BY <1>6, <2>1 DEF IsEntry
  <2>4. (\A i : IsEntry(i) /\ orders[i].st = "live" => size = 0)'
    BY <1>5, <2>1
  <2>5. (\A i : IsEntry(i) => i = Pos.entry)'
    BY <1>5, <1>6, <2>1
  <2>6. /\ b.filled /\ b.entry # 0 => orders[b.entry].st \in Over
        /\ b.phase = "pending" => Pos.phase = "pending"
        /\ b.phase = "active" => b.filled
    BY KinGoes
  <2> QED
    BY <1>4, <1>6, <2>1, <2>2, <2>3, <2>4, <2>5, <2>6 DEF EntryInv, Over
<1>8. CallInv'
  <2>1. PollAt(K, Pos)'
    BY <1>2, <1>6 DEF PollAt, FetchOK, SingleInv, CallInv, Over
  <2>2. \A u \in Tasks : task'[u].pc = "idle" => task'[u].res # "wait"
    BY <1>2 DEF SingleInv, CallInv
  <2>3. CASE t = "panic"
    BY <1>2, <1>3, <1>6, <2>1, <2>2, <2>3 DEF SingleInv, CallInv
  <2>4. CASE t = "cancel"
    BY <1>2, <1>3, <1>6, <2>1, <2>2, <2>4 DEF SingleInv, CallInv
  <2> QED
    BY <2>3, <2>4
<1>9. CoverInv'
  <2> SUFFICES ASSUME Pos'.entry # 0, Watched'
               PROVE  CoverAt(K, Pos)' /\ (Pos'.phase = "active" /\ K'.pc # "unwind" => Covered')
    BY DEF CoverInv
  <2>1. Watched /\ b = Pos
    BY <1>3 DEF Watched
  <2>2. CoverAt(K, Pos) /\ (Pos.phase = "active" /\ K.pc # "unwind" => Covered)
    BY <2>1 DEF SingleInv, CoverInv
  <2>3. Covered' = Covered /\ \A i : CoveredBy(i)' = CoveredBy(i)
    BY DEF Covered, CoveredBy, LiveOf, IsLive
  <2> QED
    BY <1>2, <2>1, <2>2, <2>3 DEF CoverAt, AskedAt, ToldAt
<1> QED
  BY <1>7, <1>8, <1>9

\* A cancel from the dashboard leaves the position.
LEMMA CancelCovers ==
    ASSUME SingleInv, HandleCancel \/ Unwinding("cancel"), UNCHANGED <<orders, size>>
    PROVE  EntryInv' /\ CallInv' /\ CoverInv'
<1> DEFINE k == task["cancel"]
<1>1. k.pc # "idle" /\ (Unwinding("cancel") => k.why \notin Careful)
  BY DEF HandleCancel, Unwinding, At, SingleInv, CallInv, Leaver
<1>2. k.o = 1 /\ Taken(Pos) /\ DOMAIN obj = {1} /\ Obj("cancel") = Pos
  BY <1>1, OnlyOne DEF Leaver, Obj, Pos
<1>3. LocalOK(k)
  BY DEF SingleInv, MonitorInv, Shapes, Tasks
<1>4. \E todo, why : why \notin Careful /\ Unwind("cancel", k, Pos, todo, why)
  <2>1. CASE HandleCancel
    BY <1>2, <2>1 DEF HandleCancel, Careful
  <2>2. CASE Unwinding("cancel")
    BY <1>1, <1>2, <2>2 DEF Unwinding
  <2> QED
    BY <2>1, <2>2
<1>5. PICK todo, why : why \notin Careful /\ Unwind("cancel", k, Pos, todo, why)
  BY <1>4
<1> DEFINE rest == SelectSeq(todo, LAMBDA c : Wanted(Pos, c))
           k2   == [k EXCEPT !.todo = Tail(rest), !.why = why]
           k3(call, arg) == [k2 EXCEPT !.pc = "unwind", !.call = call, !.arg = arg, !.res = "wait", !.got = 0]
<1>6. \/ FinishWith("cancel", k, AsClosed(Pos, why)) /\ tracked' = 0
      \/ AskWith("cancel", k2, Pos, "unwind", "market", 0)
      \/ AskWith("cancel", k2, Pos, "unwind", "cancel", Pos[Head(rest)])
  BY <1>5 DEF Unwind, Forget
<1>7. k2.o = 1 /\ k2.why = why /\ LocalOK(k2)
  BY <1>2, <1>3 DEF LocalOK, LocalFields, Idle
<1> HIDE DEF k, k2, rest
<1>8. Kin(Pos)
  BY <1>2 DEF Kin
<1>9. CASE FinishWith("cancel", k, AsClosed(Pos, why)) /\ tracked' = 0
  <2>1. Pos' = AsClosed(Pos, why) /\ task' = [task EXCEPT !["cancel"] = Idle]
    BY <1>2, <1>9 DEF FinishWith, Pos, k
  <2>2. Kin(AsClosed(Pos, why))
    BY <1>8, KinFields
  <2>3. Idle.pc = "idle" /\ Idle.res # "wait" /\ Idle.call # "entry"
    BY DEF Idle
  <2> QED
    BY <1>2, <1>9, <2>1, <2>2, <2>3, CoverBeside
<1>10. ASSUME NEW call \in {"market", "cancel"}, NEW arg, AskWith("cancel", k2, Pos, "unwind", call, arg)
       PROVE  EntryInv' /\ CallInv' /\ CoverInv'
  <2>1. Pos' = Pos /\ task' = [task EXCEPT !["cancel"] = k3(call, arg)] /\ tracked' = tracked
    BY <1>2, <1>7, <1>10 DEF AskWith, Pos
  <2>2. k3(call, arg).pc = "unwind" /\ k3(call, arg).call = call /\ k3(call, arg).why = why
    BY <1>7 DEF LocalOK, LocalFields, Idle
  <2> HIDE DEF k3
  <2> QED
    BY <1>2, <1>5, <1>8, <2>1, <2>2, CoverBeside
<1> QED
  BY <1>6, <1>9, <1>10

\* A cancel is asked for, and the panic button.
LEMMA CommandsCover ==
    ASSUME SingleInv, PollCancel \/ PanicStart \/ PanicReported, UNCHANGED <<orders, size>>
    PROVE  EntryInv' /\ CallInv' /\ CoverInv'
<1>1. CASE PollCancel
  <2> DEFINE k == [Idle EXCEPT !.o = tracked, !.pc = "start"]
  <2>1. Taken(Pos) /\ Pos' = Pos /\ task' = [task EXCEPT !["cancel"] = k] /\ tracked' = tracked
        /\ Leaver.pc # "unwind"
    BY <1>1, OnlyOne DEF PollCancel, Pos, Leaver
  <2>2. k.pc = "start" /\ k.call # "entry" /\ k.res # "wait"
    BY DEF Idle
  <2> HIDE DEF k
  <2> QED
    BY <2>1, <2>2, CoverBeside DEF Kin
<1>2. CASE PanicStart
  <2> DEFINE k == [Idle EXCEPT !.o = tracked]
             k1 == [k EXCEPT !.pc = "k.cancel", !.call = "cancel", !.arg = Pos.entry, !.res = "wait", !.got = 0]
             k2 == [k EXCEPT !.pc = "k.mkt", !.call = "market_dir", !.arg = 0, !.res = "wait", !.got = 0]
  <2>1. Taken(Pos) /\ tracked = 1 /\ DOMAIN obj = {1} /\ k.o = 1
    BY <1>2, OnlyOne DEF PanicStart, Idle
  <2>2. \/ Pos.phase = "pending" /\ AskWith("panic", k, Pos, "k.cancel", "cancel", Pos.entry)
        \/ AskWith("panic", k, Pos, "k.mkt", "market_dir", 0)
    BY <1>2, <2>1 DEF PanicStart, Pos
  <2>3. /\ k1.pc = "k.cancel" /\ k1.call = "cancel" /\ k1.arg = Pos.entry
        /\ k2.pc = "k.mkt" /\ k2.call = "market_dir"
    BY DEF Idle
  <2>4. /\ Pos' = Pos /\ tracked' = tracked
        /\ \/ Pos.phase = "pending" /\ task' = [task EXCEPT !["panic"] = k1]
           \/ task' = [task EXCEPT !["panic"] = k2]
    BY <2>1, <2>2 DEF AskWith, Pos
  <2> HIDE DEF k1, k2
  <2>5. Pos.phase = "pending" => Pos.entry # 0
    BY DEF SingleInv, EntryInv
  <2>6. Kin(Pos)
    BY <2>1 DEF Kin
  <2>7. CASE Pos.phase = "pending" /\ task' = [task EXCEPT !["panic"] = k1]
    BY <2>1, <2>3, <2>4, <2>5, <2>6, <2>7, CoverBeside
  <2>8. CASE task' = [task EXCEPT !["panic"] = k2]
    BY <2>1, <2>3, <2>4, <2>6, <2>8, CoverBeside
  <2> QED
    BY <2>4, <2>7, <2>8
<1>3. CASE PanicReported
  <2>1. Panicked.pc # "idle"
    BY <1>3 DEF PanicReported, At, Panicked
  <2>2. Taken(Pos) /\ DOMAIN obj = {1} /\ task["panic"].o = 1
    BY <2>1, OnlyOne DEF Panicked
  <2>3. Pos' = Pos /\ task' = [task EXCEPT !["panic"] = Idle] /\ tracked' = tracked
    BY <1>3, <2>2 DEF PanicReported, Done, FinishWith, Obj, Pos
  <2>4. Idle.pc = "idle" /\ Idle.res # "wait" /\ Idle.call = "none"
    BY DEF Idle
  <2> QED
    BY <2>2, <2>3, <2>4, CoverBeside DEF Kin
<1> QED
  BY <1>1, <1>2, <1>3

\* Time, and steps that change nothing said here.
LEMMA CoverRests ==
    ASSUME SingleInv, UNCHANGED <<orders, size, task, tracked>>,
           Pos'.entry = Pos.entry, Pos'.filled = Pos.filled, Pos'.phase = Pos.phase, Pos'.sl = Pos.sl
    PROVE  EntryInv' /\ CallInv' /\ CoverInv'
<1>1. K' = K /\ Placer' = Placer /\ Panicked' = Panicked /\ Leaver' = Leaver
  BY DEF K, Placer, Panicked, Leaver
<1>2. EntryInv'
  BY <1>1 DEF SingleInv, EntryInv, IsEntry, Placed
<1>3. CallInv'
  BY <1>1 DEF SingleInv, CallInv, PollAt, FetchOK
<1>4. CoverInv'
  BY <1>1 DEF SingleInv, CoverInv, CoverAt, AskedAt, ToldAt, Watched, Covered, CoveredBy, LiveOf, IsLive
<1> QED
  BY <1>2, <1>3, <1>4
\* A new entry is placed and registered.
LEMMA CoverExecutes ==
    ASSUME SingleInv, ExecStart \/ Replace \/ Register, UNCHANGED <<orders, size>>
    PROVE  EntryInv' /\ CallInv' /\ CoverInv'
<1> DEFINE k == task["exec"]
           o == First(Unused)
           asks == [[Idle EXCEPT !.o = o] EXCEPT !.pc = "n.place", !.call = "entry", !.arg = 0, !.res = "wait", !.got = 0]
           b == [NoObj EXCEPT !.phase = "pending", !.entry = k.got]
<1>1. ~Replace
  BY DEF Replace, At, SingleInv, CallInv, Placer
<1>2. DOMAIN obj = {1} /\ Objs = {1} /\ DOMAIN task = Tasks
  BY OnlyOne
<1>3. Pos.phase = "new"
  <2>1. CASE ExecStart
    BY <1>2, <2>1 DEF ExecStart, Unused, Pos
  <2>2. CASE Register
    BY <2>2, OnlyOne DEF Register, At, Placer
  <2> QED
    BY <1>1, <2>1, <2>2
<1>4. K.pc = "idle" /\ Panicked.pc = "idle" /\ Leaver.pc = "idle" /\ tracked = 0
  BY <1>3, OnlyOne DEF Taken
<1>5. Pos.entry = 0 /\ ~Pos.filled /\ (~Placed => size = 0) /\ size \in 0..1
  BY <1>3 DEF SingleInv, EntryInv
<1>6. /\ \A i : IsEntry(i)' <=> IsEntry(i)
      /\ \A i : IsEntry(i) => i # 0 /\ Placed /\ i = Placer.got
      /\ Placed => IsEntry(Placer.got)
      /\ \A i : IsEntry(i) /\ orders'[i].st = "live" => size = 0
  BY <1>5 DEF SingleInv, EntryInv, IsEntry
<1>7. NoObj.entry = 0 /\ NoObj.filled = FALSE /\ NoObj.phase = "new"
  BY DEF NoObj
<1>8. asks.pc = "n.place" /\ asks.call = "entry" /\ asks.res = "wait"
  BY DEF Idle
<1>9. b.entry = k.got /\ b.filled = FALSE /\ b.phase = "pending"
  BY DEF NoObj
<1>10. Idle.pc = "idle" /\ Idle.res = "none" /\ Idle.call = "none"
  BY DEF Idle
<1> HIDE DEF asks, b
<1>11. /\ Pos' \in {NoObj, b} /\ \A u \in Tasks \ {"exec"} : task'[u] = task[u]
       /\ Pos' = NoObj => ~Placed /\ task'["exec"] \in {Idle, asks}
       /\ Pos' = b     => Placed /\ task'["exec"] = Idle
  <2>1. CASE ExecStart
    <3>1. 1 = o
      BY <1>2, <2>1, FirstIsUnused DEF ExecStart, Unused
    <3>2. [Idle EXCEPT !.o = o].o = o
      BY DEF Idle
    <3>3. PlaceEntry
      BY <1>4, <2>1 DEF ExecStart
    <3>4. obj' = [obj EXCEPT ![1] = NoObj] /\ task' = [task EXCEPT !["exec"] = asks]
      BY <3>1, <3>2, <3>3 DEF PlaceEntry, AskWith, asks
    <3>5. ~Placed
      BY <2>1 DEF ExecStart, Placed, Placer
    <3>6. NoObj # b
      BY <1>7, <1>9
    <3> QED
      BY <1>2, <3>4, <3>5, <3>6 DEF Pos, Tasks
  <2>2. CASE Register
    <3>1. k.pc = "n.place" /\ k.res # "wait"
      BY <2>2 DEF Register, At
    <3>2. k.o = 1
      <4>1. Holds("exec")
        BY DEF SingleInv, MonitorInv, Tasks
      <4> QED
        BY <1>2, <3>1, <4>1 DEF Holds, Unused
    <3>3. \/ k.res = "ok" /\ FinishWith("exec", k, b)
          \/ k.res # "ok" /\ FinishWith("exec", k, NoObj)
      BY <2>2 DEF Register, Ok, Done, b
    <3>4. task' = [task EXCEPT !["exec"] = Idle]
      BY <3>3 DEF FinishWith
    <3>5. \/ k.res = "ok" /\ obj' = [obj EXCEPT ![1] = b]
          \/ k.res # "ok" /\ obj' = [obj EXCEPT ![1] = NoObj]
      BY <3>2, <3>3 DEF FinishWith
    <3>6. NoObj # b
      BY <1>7, <1>9
    <3> QED
      BY <1>2, <3>1, <3>4, <3>5, <3>6 DEF Pos, Tasks, Placed, Placer
  <2> QED
    BY <1>1, <2>1, <2>2
<1>12. /\ K' = K /\ Panicked' = Panicked /\ Leaver' = Leaver /\ Placer' = task'["exec"] /\ Placer = k
       /\ Placer' \in {Idle, asks}
  BY <1>11 DEF K, Panicked, Leaver, Placer, Tasks
<1>13. ~Placed'
  BY <1>8, <1>10, <1>12 DEF Placed
<1>14. EntryInv'
  <2>1. CASE Pos' = NoObj
    <3>1. \A i : ~IsEntry(i)'
      BY <1>6, <1>11, <2>1
    <3> QED
      BY <1>5, <1>7, <1>11, <1>13, <2>1, <3>1 DEF EntryInv
  <2>2. CASE Pos' = b
    <3>1. Pos'.entry = Placer.got /\ Pos'.entry # 0 /\ IsEntry(Placer.got)
      BY <1>6, <1>9, <1>11, <1>12, <2>2
    <3>2. (Pos.entry # 0 => IsEntry(Pos.entry))'
      BY <3>1 DEF IsEntry
    <3>3. (\A i : IsEntry(i) => i = Pos.entry)' /\ (\A i : IsEntry(i) /\ orders[i].st = "live" => size = 0)'
      BY <1>6, <3>1
    <3>4. size' \in 0..1 /\ Pos'.filled = FALSE /\ Pos'.phase = "pending"
      BY <1>5, <1>9, <2>2
    <3> QED
      BY <1>13, <3>1, <3>2, <3>3, <3>4 DEF EntryInv
  <2> QED
    BY <1>11, <2>1, <2>2
<1>15. CallInv'
  <2>1. PollAt(K, Pos)'
    BY <1>4, <1>12 DEF PollAt, FillPcs, HoldPcs, TrailPcs, SingleInv, CallInv, Cancels
  <2>2. \A u \in Tasks : task'[u].pc = "idle" => task'[u].res # "wait"
    <3>1. task'["exec"].pc = "idle" => task'["exec"].res # "wait"
      BY <1>8, <1>10, <1>12
    <3> QED
      BY <1>11, <3>1 DEF SingleInv, CallInv
  <2>3. Placer'.pc \in {"idle", "n.place"} /\ (Placer'.pc = "n.place" => Placer'.call = "entry")
    BY <1>8, <1>10, <1>12
  <2>4. Panicked.call # "cancel"
    BY <1>5 DEF SingleInv, CallInv
  <2> QED
    BY <1>12, <2>1, <2>2, <2>3, <2>4 DEF SingleInv, CallInv
<1>16. CoverInv'
  <2>1. Pos'.phase # "active"
    BY <1>7, <1>9, <1>11
  <2>2. CoverAt(K, Pos)'
    BY <1>4, <1>12 DEF CoverAt, AskedAt, ToldAt
  <2> QED
    BY <2>1, <2>2 DEF CoverInv
<1> QED
  BY <1>14, <1>15, <1>16

\* Only the poll loop and a cancel leave positions.
LEMMA CoverUnwinds ==
    ASSUME SingleInv, NEW t \in Tasks, Unwinding(t), UNCHANGED <<orders, size>>
    PROVE  EntryInv' /\ CallInv' /\ CoverInv'
<1>1. task[t].pc = "unwind"
  BY DEF Unwinding, At
<1>2. t # "exec" /\ t # "panic"
  BY <1>1 DEF SingleInv, CallInv, Placer, Panicked
<1> QED
  BY <1>2, CoverPolls, CancelCovers DEF Tasks

\* It starts so.
LEMMA CoverBegins == OnePosition /\ Init => EntryInv /\ CallInv /\ CoverInv
<1> SUFFICES ASSUME OnePosition, Init PROVE EntryInv /\ CallInv /\ CoverInv
  OBVIOUS
<1>1. task = [t \in Tasks |-> Idle] /\ orders = <<>> /\ size \in 0..1 /\ Objs = {1}
  BY DEF Init, OnePosition, Objs
<1>2. K = Idle /\ Placer = Idle /\ Panicked = Idle /\ Leaver = Idle
  BY <1>1 DEF K, Placer, Panicked, Leaver, Tasks
<1>3. Idle.pc = "idle" /\ Idle.res = "none" /\ Idle.call = "none"
  BY DEF Idle
<1>4. /\ Pos.entry = 0
      /\ (Pos.phase = "new" /\ ~Pos.filled /\ size = 0) \/ (Pos.phase = "active" /\ Pos.filled)
  <2>1. CASE obj = [o \in Objs |-> NoObj] /\ size = 0
    BY <1>1, <2>1 DEF Pos, NoObj
  <2>2. CASE obj = [[o \in Objs |-> NoObj] EXCEPT ![1].phase = "active", ![1].filled = TRUE]
    BY <1>1, <2>2 DEF Pos, NoObj
  <2> QED
    BY <2>1, <2>2 DEF Init
<1>5. \A i : ~IsEntry(i)
  BY <1>1 DEF IsEntry
<1>6. EntryInv
  BY <1>1, <1>2, <1>3, <1>4, <1>5 DEF EntryInv, Placed
<1>7. CallInv
  BY <1>1, <1>2, <1>3 DEF CallInv, PollAt, FillPcs, HoldPcs, TrailPcs
<1>8. CoverInv
  BY <1>4 DEF CoverInv
<1> QED
  BY <1>6, <1>7, <1>8

\* Every step keeps it.
LEMMA CoverNext == SingleInv /\ [Next]_vars => SingleInv'
<1> SUFFICES ASSUME SingleInv, [Next]_vars PROVE SingleInv'
  OBVIOUS
<1>1. MonitorInv' /\ LevelInv'
  BY MonitorStep, LevelNext DEF SingleInv
<1>2. ASSUME NEW t \in Tasks, Resume(t) PROVE EntryInv' /\ CallInv' /\ CoverInv'
  <2>1. UNCHANGED <<orders, size>>
    BY <1>2 DEF Resume, okx
  <2>2. CASE PollSteps
    BY <2>1, <2>2, CoverPolls, CoverFills, CoverHolds DEF PollSteps
  <2> QED
    BY <1>2, <2>1, <2>2, CoverUnwinds, CancelCovers, CoverExecutes, CommandsCover DEF Resume
<1>3. ASSUME PollCancel \/ PanicStart PROVE EntryInv' /\ CallInv' /\ CoverInv'
  <2>1. UNCHANGED <<orders, size>>
    BY <1>3 DEF PollCancel, PanicStart, okx
  <2> QED
    BY <1>3, <2>1, CommandsCover
<1>4. ASSUME ExecStart PROVE EntryInv' /\ CallInv' /\ CoverInv'
  <2>1. UNCHANGED <<orders, size>>
    BY <1>4 DEF ExecStart, okx
  <2> QED
    BY <1>4, <2>1, CoverExecutes
<1>5. ASSUME NEW o \in Objs, Expire(o) PROVE EntryInv' /\ CallInv' /\ CoverInv'
  <2>1. o = 1 /\ DOMAIN obj = {1} /\ DOMAIN Pos = ObjFields
    BY OnlyOne DEF Pos, SingleInv, MonitorInv, Shapes
  <2>2. UNCHANGED <<orders, size, task, tracked>> /\ obj' = [obj EXCEPT ![1].due = TRUE]
    BY <1>5, <2>1 DEF Expire, okx
  <2>3. Pos' = [Pos EXCEPT !.due = TRUE]
    BY <2>1, <2>2 DEF Pos
  <2>4. Pos'.entry = Pos.entry /\ Pos'.filled = Pos.filled /\ Pos'.phase = Pos.phase /\ Pos'.sl = Pos.sl
    BY <2>1, <2>3 DEF ObjFields, NoObj
  <2> QED
    BY <2>2, <2>4, CoverRests
<1>6. ASSUME UNCHANGED vars PROVE EntryInv' /\ CallInv' /\ CoverInv'
  BY <1>6, CoverRests DEF vars, Pos
<1>7. (\E t \in Tasks : Serve(t)) \/ PollStart \/ Exchange => EntryInv' /\ CallInv' /\ CoverInv'
  BY CoverServes, CoverStarts, CoverExchange
<1>8. EntryInv' /\ CallInv' /\ CoverInv'
  BY <1>2, <1>3, <1>4, <1>5, <1>6, <1>7 DEF Next, SingleInv
<1>9. OnePosition'
  BY DEF SingleInv, OnePosition
<1> QED
  BY <1>1, <1>8, <1>9 DEF SingleInv

\* A position the bot entered is never open without a stop-loss while it is
\* active and not being left (monitor.py:28, "zero gap"), however often calls
\* fail, however many attempts, retries, cancels and panics there are, and
\* though entries fill in part or without their attached orders.
THEOREM AlwaysProtected == OnePosition => (Spec => []Protected)
<1> SUFFICES ASSUME OnePosition PROVE Spec => []Protected
  OBVIOUS
<1>1. Init => SingleInv
  BY CoverBegins, MonitorStarts, LevelBegins DEF SingleInv
<1>2. SingleInv /\ [Next]_vars => SingleInv'
  BY CoverNext
<1> QED
  BY <1>1, <1>2, CoverShows, PTL DEF Spec
=============================================================================
