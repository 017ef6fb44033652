----------------------------- MODULE RiskSizing -----------------------------
(***************************************************************************)
(* What an approval is worth: RiskService.check with the PositionSizer,    *)
(* the guardrails, the balance it sizes on and its cache                   *)
(* (risk_service/service.py, position_sizer.py, guardrails.py).            *)
(*                                                                         *)
(* The tracker's counters are those of RiskTracker, cut down to what the   *)
(* guardrails read; RiskGate interleaves two checks.  Here one live check  *)
(* is between question and order at a time, and shadow checks come as they *)
(* like.  Fractions are in parts of ten thousand, sizes in SizeScale-ths.  *)
(***************************************************************************)
EXTENDS Integers, Sequences, SequencesExt

CONSTANTS
    SizingSetups,       \* setups: entry, sl, tp2, quick
    Confidences,        \* ai_confidence in percent; 100 is no score
    FixedRisks,         \* risk_usd; 0 is "not given"
    Balances,           \* what the exchange may say the account holds
    InitialCapital, ShadowCapital, SizeScale, MinSize,
    RiskPer, LeverageCap, MarginCap, HeatCap, MinDistance, MaxDistance,
    MinRr, MinRrQuick,  \* per hundred
    Kelly, BetMin, BetMax, FixedMargin,
    LossCooldown, MaxDayTrades, MaxPositions, DailyLimit, WeeklyLimit,
    LossPct, CacheTime, \* a loss; _BALANCE_CACHE_TTL_SEC
    MaxNow              \* bound

\* A fraction of Kelly, with a floor that is no more than the whole; a risk
\* that the settings do not allow to be zero.
ASSUME BetAssumption == BetMin \in 0..100 /\ Kelly \in 0..100 /\ BetMax \in Nat /\ Confidences \subseteq 0..100
ASSUME CapsAssumption ==
    /\ {RiskPer, MarginCap, SizeScale} \subseteq Nat \ {0}
    /\ {LeverageCap, FixedMargin, MinSize} \subseteq Nat
ASSUME AccountAssumption ==
    /\ FixedRisks \subseteq Nat /\ Balances \subseteq Int /\ InitialCapital \in Int /\ ShadowCapital \in Int
    /\ \A s \in SizingSetups : s.entry \in Nat \ {0} /\ s.sl \in Nat /\ s.tp2 \in Nat

VARIABLES
    now,
    account,    \* the tracker: capital, trades and losses today, this week, last loss
    held,       \* open positions: size and distance, oldest first
    wallet,     \* the exchange's balance
    cached,     \* _balance_cache_value, _ts, _balance_ever_fetched
    granted,    \* the live approval whose order is being placed
    shadow      \* the last shadow verdict

sizingVars == <<now, account, held, wallet, cached, granted, shadow>>

NoGrant == [approved |-> FALSE]

SizingInit ==
    /\ now = 0 /\ held = << >> /\ wallet \in Balances
    /\ account = [capital |-> InitialCapital, trades |-> 0, day |-> 0, week |-> 0, loss |-> -LossCooldown]
    /\ cached = [value |-> 0, at |-> 0, ever |-> FALSE]
    /\ granted = NoGrant /\ shadow = NoGrant

-----------------------------------------------------------------------------
(* guardrails.py: whether the checks pass.                                 *)

Gap(s)    == IF s.entry > s.sl THEN s.entry - s.sl ELSE s.sl - s.entry
Reward(s) == IF s.tp2 > s.entry THEN s.tp2 - s.entry ELSE s.entry - s.tp2

Structural(s) ==
    /\ Gap(s) > 0
    /\ Gap(s) * 10000 >= MinDistance * s.entry
    /\ Gap(s) * 10000 <= MaxDistance * s.entry
    /\ Reward(s) * 100 >= (IF s.quick THEN MinRrQuick ELSE MinRr) * Gap(s)

AccountAllows ==
    /\ now - account.loss >= LossCooldown
    /\ account.trades < MaxDayTrades /\ Len(held) < MaxPositions
    /\ account.day < DailyLimit /\ account.week < WeeklyLimit

\* get_portfolio_heat_usd, in SizeScale-ths of a dollar.
HeatOf(positions) == FoldSeq(LAMBDA p, sum : sum + p.size * p.gap, 0, positions)

HeatAllows(positions, size, s, capital) ==
    capital > 0 /\ (HeatOf(positions) + size * Gap(s)) * 10000 <= HeatCap * capital * SizeScale

-----------------------------------------------------------------------------
(* position_sizer.py and the sizing of check().                            *)

Least(a, b) == IF a <= b THEN a ELSE b
Most(a, b)  == IF a >= b THEN a ELSE b

\* Mutant of Sized: no leverage cap.
SizedUncapped(s, capital, risk) == (risk * SizeScale) \div (10000 * Gap(s))

\* PositionSizer.calculate: the size of a risk, under the leverage cap.
Sized(s, capital, risk) ==
    Least((risk * SizeScale) \div (10000 * Gap(s)),
          (LeverageCap * capital * SizeScale) \div s.entry)

\* bet_factor, in percent; only with a real confidence score.
BetFactor(confidence) ==
    IF confidence = 100 THEN 100
    ELSE Most(BetMin, Least((Kelly * (2 * confidence - 100)) \div 100, BetMax))

\* risk_pct of the capital, or the fixed risk, in ten-thousandths of a dollar.
Asked(capital, fixed) == IF fixed > 0 THEN fixed * 10000 ELSE capital * RiskPer

\* The size of a setup on some capital: the sizer's, or the flat margin's when it
\* raises, by the bet factor; if that risks more than the cap, the sizer's
\* for the cap.
SizeFor(s, capital, confidence, fixed) ==
    LET asked == Asked(capital, fixed)
        bet   == BetFactor(confidence)
        flat  == (FixedMargin * LeverageCap * SizeScale) \div s.entry
    IN  IF asked * bet > capital * MarginCap * 100 THEN Sized(s, capital, capital * MarginCap)
        ELSE ((IF asked > 0 THEN Sized(s, capital, asked) ELSE flat) * bet) \div 100

\* The end of check(): the order's minimum and the portfolio's heat.
Verdict(s, capital, positions, confidence, fixed) ==
    IF capital <= 0 \/ ~Structural(s) THEN NoGrant
    ELSE LET size == SizeFor(s, capital, confidence, fixed)
         IN  IF size > 0 /\ size >= MinSize /\ HeatAllows(positions, size, s, capital)
             THEN [approved |-> TRUE, size |-> size, gap |-> Gap(s), entry |-> s.entry, capital |-> capital]
             ELSE NoGrant

-----------------------------------------------------------------------------
(* The balance: _query_account_balance.                                    *)

\* A call that reaches the exchange may fail.
Fetched(answer) ==
    IF answer > 0 THEN [value |-> answer, at |-> now, ever |-> TRUE] ELSE cached

Cached == cached.value > 0 /\ now - cached.at < CacheTime

\* What a live check sizes on; {} when it refuses.
LiveCapital(answer) ==
    IF Cached THEN {cached.value}
    ELSE IF answer > 0 THEN {answer}
    ELSE IF ~cached.ever /\ account.capital = InitialCapital THEN {}
    ELSE {account.capital}

-----------------------------------------------------------------------------
(* Actions.                                                                *)

\* check() for a live order.
CheckLive ==
    /\ ~granted.approved
    /\ \E s \in SizingSetups, confidence \in Confidences, fixed \in FixedRisks, answer \in {wallet, 0} :
         IF ~Structural(s) \/ ~AccountAllows THEN UNCHANGED <<account, cached, granted>>
         ELSE /\ cached' = IF Cached THEN cached ELSE Fetched(answer)
              /\ account' = IF Cached THEN [account EXCEPT !.capital = cached.value]
                            ELSE IF answer > 0 THEN [account EXCEPT !.capital = answer] ELSE account
              /\ granted' = IF LiveCapital(answer) = {} THEN NoGrant
                            ELSE Verdict(s, CHOOSE c \in LiveCapital(answer) : TRUE, held, confidence, fixed)
    /\ UNCHANGED <<now, held, wallet, shadow>>

\* check() with dry_run and SHADOW_CAPITAL.
CheckShadow ==
    /\ \E s \in SizingSetups, confidence \in Confidences :
         shadow' = Verdict(s, ShadowCapital, held, confidence, 0)
    /\ UNCHANGED <<now, account, held, wallet, cached, granted>>

\* on_trade_opened, or the order was refused.
OrderPlaced ==
    /\ granted.approved /\ granted' = NoGrant
    /\ held' \in {held, Append(held, [size |-> granted.size, gap |-> granted.gap])}
    /\ UNCHANGED <<now, account, wallet, cached, shadow>>

\* on_trade_closed and the refresh behind it, which may fail; the cache is bypassed.
Ended ==
    /\ \E i \in DOMAIN held, lost \in BOOLEAN, balance \in Balances, answers \in BOOLEAN :
         /\ held' = RemoveAt(held, i) /\ wallet' = balance
         /\ cached' = Fetched(IF answers THEN balance ELSE 0)
         /\ account' = [account EXCEPT !.trades = @ + 1,
                          !.day  = @ + (IF lost THEN LossPct ELSE 0),
                          !.week = @ + (IF lost THEN LossPct ELSE 0),
                          !.loss = IF lost THEN now ELSE @,
                          !.capital = IF answers /\ balance > 0 THEN balance ELSE @]
    /\ UNCHANGED <<now, granted, shadow>>

\* on_trade_cancelled.
Cancelled ==
    /\ \E i \in DOMAIN held : held' = RemoveAt(held, i)
    /\ UNCHANGED <<now, account, wallet, cached, granted, shadow>>

\* Time; the tracker's day and week may end with it.
Passes ==
    /\ now < MaxNow /\ now' = now + 1
    /\ account' \in {account, [account EXCEPT !.trades = 0, !.day = 0],
                     [account EXCEPT !.trades = 0, !.day = 0, !.week = 0]}
    /\ UNCHANGED <<held, wallet, cached, granted, shadow>>

SizingNext == CheckLive \/ CheckShadow \/ OrderPlaced \/ Ended \/ Cancelled \/ Passes
SizingSpec == SizingInit /\ [][SizingNext]_sizingVars

-----------------------------------------------------------------------------
\* Whatever confidence, fixed risk and capital an approval is asked with, and
\* however the leverage cap, the bet factor and the re-run of the sizer
\* combine: its loss at the stop is at most MAX_MARGIN_PCT_OF_CAPITAL of the
\* capital, and its notional at most MAX_LEVERAGE of it.
ApprovalsBounded ==
    granted.approved =>
        /\ granted.size * granted.gap * 10000 <= MarginCap * granted.capital * SizeScale
        /\ granted.size * granted.entry <= LeverageCap * granted.capital * SizeScale

\* "Shadow mode uses virtual capital and should not be blocked by live account
\* state" (risk_service/service.py): a shadow verdict is the one an account
\* without positions would get.
ShadowUnblocked ==
    [][\A s \in SizingSetups :
          (CheckShadow /\ shadow' = Verdict(s, ShadowCapital, held, 100, 0))
             => (shadow'.approved \/ ~Verdict(s, ShadowCapital, << >>, 100, 0).approved)]_sizingVars
=============================================================================
