-------------------------- MODULE TradeClassifier ---------------------------
(***************************************************************************)
(* How a manual trade is classified when its position opens (strategy_     *)
(* service/trade_classifier.py): what the context snapshot says for and    *)
(* against the direction, the grade, the setup type, and the chain that    *)
(* pre-fills the journal.                                                  *)
(*                                                                         *)
(* A snapshot is what is known: Facts gives the values of each of its      *)
(* parts, "no" standing for missing.  One timeframe stands for all: a      *)
(* confluence of another timeframe counts in the same way.  The classifier *)
(* is pure; the steps make larger snapshots of smaller ones.               *)
(***************************************************************************)
EXTENDS Integers, FiniteSets, Sequences

CONSTANT MaxFacts   \* bound: facts of a snapshot

VARIABLES dir, snap

classVars == <<dir, snap>>

\* The parts of a snapshot; distances are "in" the zone, at most 0.5%, at most
\* 1%, or "far"; "zero" is a distance of exactly 0, funding a part of its bound.
Facts ==
    [bias4h  |-> {"bullish", "bearish", "undefined"},
     bias1h  |-> {"bullish", "bearish", "undefined"},
     ob      |-> {"in", "half", "one", "far"},
     fvg     |-> {"in", "half", "one", "far"},
     sweep   |-> {"weak", "institutional"},
     choch   |-> {"plain", "strong"},
     bos     |-> {"plain", "strong"},
     cvd     |-> {"buying", "selling"},
     funding |-> {"longs pay", "shorts pay", "neutral"},
     oi      |-> {"calm", "crowded"},
     liq     |-> {"near", "far", "zero"},
     zone    |-> {"above_va", "inside_va", "below_va"},
     hvn     |-> {"near", "far", "zero"},
     absorbs |-> {"yes"},
     thrust  |-> {"yes"},
     book    |-> {"bids", "asks"},
     rsi     |-> {"bullish", "bearish"},
     adx     |-> {"bullish", "bearish"},
     stoch   |-> {"bullish", "bearish"},
     flag    |-> {"yes"}]

Nothing == [f \in DOMAIN Facts |-> "no"]

-----------------------------------------------------------------------------
Bias(d)       == IF d = "long" THEN "bullish" ELSE "bearish"
Against(d)    == IF d = "long" THEN "bearish" ELSE "bullish"
Flows(d)      == IF d = "long" THEN "buying" ELSE "selling"
Crowd(d)      == IF d = "long" THEN "longs pay" ELSE "shorts pay"
Stacked(d)    == IF d = "long" THEN "bids" ELSE "asks"
Extended(d)   == IF d = "long" THEN "above_va" ELSE "below_va"
Aligned(s, d) == s.bias4h = Bias(d)
NearOb(s)     == s.ob \in {"in", "half", "one"}
At(level)     == level \in {"in", "half"}

\* _confluences, as the parts of the snapshot that count and how often.
Confluences(s, d) ==
    LET counts == [bias4h  |-> Aligned(s, d),      bias1h  |-> s.bias1h = Bias(d),
                   ob      |-> NearOb(s),          fvg     |-> s.fvg \in {"in", "half", "one"},
                   sweep   |-> s.sweep # "no",     choch   |-> s.choch # "no",
                   bos     |-> s.bos # "no",       cvd     |-> s.cvd = Flows(d),
                   funding |-> s.funding = "neutral", oi   |-> s.oi = "calm",
                   liq     |-> s.liq = "near",     zone    |-> s.zone = "inside_va",
                   hvn     |-> s.hvn = "near",     absorbs |-> s.absorbs = "yes",
                   thrust  |-> s.thrust = "yes",   book    |-> s.book = Stacked(d),
                   rsi     |-> s.rsi = Bias(d),    adx     |-> s.adx = Bias(d),
                   stoch   |-> s.stoch = Bias(d)]
        twice  == {f \in {"choch", "bos"} : s[f] = "strong"}
                  \cup {f \in {"sweep"} : s[f] = "institutional"}
    IN  Cardinality({f \in DOMAIN counts : counts[f]}) + Cardinality(twice)

\* Mutant of Detractors: selling is held against every trade.
DetractorsSelling(s, d) ==
    {f \in {"bias4h"} : s.bias4h = Against(d)} \cup {f \in {"funding"} : s.funding = Crowd(d)}
    \cup {f \in {"oi"} : s.oi = "crowded"} \cup {f \in {"cvd"} : s.cvd = "selling"}
    \cup {f \in {"flag"} : s.flag = "yes"} \cup {f \in {"zone"} : s.zone = Extended(d)}

\* _detractors.
Detractors(s, d) ==
    {f \in {"bias4h"} : s.bias4h = Against(d)}
    \cup {f \in {"funding"} : s.funding = Crowd(d)}
    \cup {f \in {"oi"} : s.oi = "crowded"}
    \cup {f \in {"cvd"} : s.cvd \notin {"no", Flows(d)}}
    \cup {f \in {"flag"} : s.flag = "yes"}
    \cup {f \in {"zone"} : s.zone = Extended(d)}

Score(s, d) == Confluences(s, d) - Cardinality(Detractors(s, d))

\* _grade.
Grade(s, d) ==
    IF Score(s, d) >= 6 THEN "A" ELSE IF Score(s, d) >= 4 THEN "B"
    ELSE IF Score(s, d) >= 2 THEN "C" ELSE "D"

\* _setup_type, by priority.
SetupType(s, d) ==
    IF NearOb(s) /\ s.sweep # "no" THEN "B_sweep"
    ELSE IF NearOb(s) /\ s.bos # "no" /\ Aligned(s, d) THEN "A_swing"
    ELSE IF NearOb(s) /\ s.choch # "no" THEN "D_choch"
    ELSE IF NearOb(s) /\ s.bos # "no" THEN "D_bos"
    ELSE IF s.zone \in {"above_va", "below_va"} /\ s.thrust = "yes" THEN "F_breakout"
    ELSE "discretion"

\* _v2_chain.
KeyLevel(s) == At(s.ob) \/ At(s.fvg) \/ s.sweep # "no" \/ s.hvn = "near"
Trigger(s) ==
    IF s.sweep # "no" THEN "sweep_reclaim" ELSE IF s.choch # "no" THEN "choch"
    ELSE IF s.bos # "no" THEN "bos" ELSE IF At(s.fvg) THEN "fvg"
    ELSE IF At(s.ob) THEN "order_block" ELSE "none"
Structure(s, d) ==
    IF s.bias4h = "undefined" THEN "range"
    ELSE IF s.choch # "no" \/ (s.sweep # "no" /\ ~Aligned(s, d)) THEN "reversal"
    ELSE "continuation"
Factors(s, d) ==
    {f \in {"htf"} : Aligned(s, d)}
    \cup {f \in {"location"} : KeyLevel(s) /\ s.zone # Extended(d)}
    \cup {f \in {"mtf"} : s.bias1h = Bias(d)}
    \cup {f \in {"trigger"} : Trigger(s) # "none"}
    \cup {f \in {"noconflict"} : {"cvd", "funding"} \cap Detractors(s, d) = {}}

-----------------------------------------------------------------------------
ClassInit == dir \in {"long", "short"} /\ snap = Nothing

Known(s) == {f \in DOMAIN Facts : s[f] # "no"}

\* One more part of the context is fetched.
Learn ==
    /\ Cardinality(Known(snap)) < MaxFacts
    /\ \E f \in DOMAIN Facts \ Known(snap) : \E v \in Facts[f] : snap' = [snap EXCEPT ![f] = v]
    /\ UNCHANGED dir

ClassSpec == ClassInit /\ [][Learn]_classVars

-----------------------------------------------------------------------------
Swap(v) ==
    CASE v = "bullish" -> "bearish" [] v = "bearish" -> "bullish"
      [] v = "buying" -> "selling"  [] v = "selling" -> "buying"
      [] v = "longs pay" -> "shorts pay" [] v = "shorts pay" -> "longs pay"
      [] v = "above_va" -> "below_va" [] v = "below_va" -> "above_va"
      [] v = "bids" -> "asks" [] v = "asks" -> "bids"
      [] OTHER -> v
Other == IF dir = "long" THEN "short" ELSE "long"
Turned == [f \in DOMAIN snap |-> Swap(snap[f])]

\* The classifier has no favourite side: the opposite trade in the market
\* turned around gets the same score, grade, type and chain, although every
\* rule is written out for both directions.
NoFavouriteSide ==
    /\ Score(Turned, Other) = Score(snap, dir)
    /\ Grade(Turned, Other) = Grade(snap, dir)
    /\ SetupType(Turned, Other) = SetupType(snap, dir)
    /\ Structure(Turned, Other) = Structure(snap, dir)
    /\ Factors(Turned, Other) = Factors(snap, dir)

\* The two classifications of one snapshot agree on what triggered the trade,
\* and a fact counts for the trade or against it, never both.
TypesAgree ==
    /\ SetupType(snap, dir) = "B_sweep" => Trigger(snap) = "sweep_reclaim" /\ KeyLevel(snap)
    /\ SetupType(snap, dir) = "D_choch" => Trigger(snap) = "choch" /\ Structure(snap, dir) \in {"reversal", "range"}
    /\ SetupType(snap, dir) = "D_bos" => Trigger(snap) = "bos" /\ "htf" \notin Factors(snap, dir)
    /\ "htf" \in Factors(snap, dir) => "bias4h" \notin Detractors(snap, dir)
    /\ "location" \in Factors(snap, dir) => "zone" \notin Detractors(snap, dir)

\* A level nearer to the price is worth no less than one farther away.
NearerIsNoWorse ==
    \A f \in {"liq", "hvn"} :
       Score([snap EXCEPT ![f] = "zero"], dir) >= Score([snap EXCEPT ![f] = "near"], dir)
=============================================================================
