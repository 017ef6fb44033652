----------------------------- MODULE MCServices -----------------------------
(***************************************************************************)
(* The services that run for ever beside the trading pipeline: the CVD     *)
(* feed, the shadow monitor, the campaign monitor and the Bybit watcher.   *)
(* They share no state, so a behaviour is one of a single service, chosen  *)
(* at the start: what holds of each of them holds of all of them together. *)
(***************************************************************************)
EXTENDS CvdFeed, ShadowMonitor, CampaignMonitor, BybitWatcher

CONSTANT pair

VARIABLE service    \* the service of this behaviour

vars == <<service, cvdVars, shadowVars, camVars, watchVars>>

Init == /\ service \in {"cvd", "shadow", "campaign", "watcher"}
        /\ CvdInit /\ ShadowInit /\ CamInit /\ WatchInit

Next ==
    /\ UNCHANGED service
    /\ \/ service = "cvd"      /\ CvdNext    /\ UNCHANGED <<shadowVars, camVars, watchVars>>
       \/ service = "shadow"   /\ ShadowNext /\ UNCHANGED <<cvdVars, camVars, watchVars>>
       \/ service = "campaign" /\ CamNext    /\ UNCHANGED <<cvdVars, shadowVars, watchVars>>
       \/ service = "watcher"  /\ WatchNext  /\ UNCHANGED <<cvdVars, shadowVars, camVars>>

Spec == Init /\ [][Next]_vars

-----------------------------------------------------------------------------
(* Fairness: the event loop gives every task its turn, time passes, a      *)
(* market that is up keeps trading, and the supervisor starts the watcher. *)

Fairness ==
    /\ \A step \in {"unit", "batch", "open", "drop", "backoff"} :
          WF_cvdVars(service = "cvd" /\ CASE step = "unit"  -> Unit
                                          [] step = "batch" -> Batch
                                          [] step = "open"  -> OpenTape
                                          [] step = "drop"  -> TapeDropNoticed
                                          [] OTHER          -> TapeBackoff)
    /\ WF_cvdVars(service = "cvd" /\ tapeLink = "up" /\ TradeHappens(pair))
    /\ WF_camVars(service = "campaign" /\ Poll)
    /\ WF_camVars(service = "campaign" /\ Clock)
    /\ WF_watchVars(service = "watcher" /\ Tick)
    /\ WF_watchVars(service = "watcher" /\ Start)

FairSpec == Spec /\ Fairness

-----------------------------------------------------------------------------
(* The instance.                                                           *)

OnePair == {pair}

Candle(l, h, c) == [low |-> l, high |-> h, close |-> c]
McCandles == {Candle(4, 4, 4), Candle(2, 4, 4), Candle(0, 4, 2), Candle(2, 6, 6), Candle(4, 8, 8)}
Long == [dir |-> "long", entry |-> 3, sl |-> 1, tp1 |-> 5, tp2 |-> 7, size |-> 1, confirm |-> 1]
McPlans == <<Long, Long>>
Near(a, b) == a = b

-----------------------------------------------------------------------------
(* Properties.                                                             *)

\* What the CVD feed calls VALID is complete and has a snapshot
\* (cvd_calculator.py): consumers read only the flag.
ValidIsTrue == CvdTypeOK /\ ValidIsComplete /\ ValidHasSnapshot

\* A shadow re-read from Redis on every candle stands where one engine would,
\* and two similar shadows do not wait for a fill together (shadow_monitor.py).
ShadowsTrue == ShadowTypeOK /\ ShadowIsEngine /\ TwinsApart

\* The stop of a campaign is for all its lots, its end leaves neither lots nor
\* stops, and the Risk Service has it exactly as long (campaign_monitor.py).
CampaignCovered == CamTypeOK /\ StopCoversPosition /\ NothingLeft /\ TrackedWhileOpen

\* What no step undoes: the outcome of a shadow once written, the last live
\* stop of a campaign's lots while the bot replaces it, and the level the stop
\* has trailed to.
NothingUndone == OutcomeKept /\ NoGap /\ StopRises
=============================================================================
