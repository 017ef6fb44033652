------------------------------ MODULE WhaleFeed -----------------------------
(***************************************************************************)
(* The whale monitors: the polling of the tracked wallets on Ethereum      *)
(* (data_service/etherscan_client.py) and Bitcoin (btc_whale_client.py),   *)
(* and the loops of the data service that publish the movements and alert  *)
(* of the new ones.                                                        *)
(*                                                                         *)
(* A transaction has its inputs and the amount of each output; addresses   *)
(* are wallets, exchanges or others.  Time is counted in days, the age at  *)
(* which a movement is pruned.  Each client is one task; what it awaits is *)
(* the explorer's answer, and nothing else touches its state meanwhile.    *)
(***************************************************************************)
EXTENDS Integers, Sequences, FiniteSets, SequencesExt, FiniteSetsExt

CONSTANTS
    EthWallets, BtcWallets, MarketMakers, Exchanges,
    EthKinds, BtcKinds,     \* transactions that may happen: ins, outs
    MinAmount, HighAmount,  \* WHALE_MIN_ETH/BTC, WHALE_HIGH_ETH/BTC
    PageSize,               \* transactions of an answer
    MaxTxs, MaxDays, MaxPollFaults  \* bounds

ASSUME WalletsAssumption == EthWallets \cap BtcWallets = {}     \* addresses of two formats
ASSUME PageAssumption == PageSize \in Nat \ {0}

Chains == {"ETH", "BTC"}
WalletsOf(ch) == IF ch = "ETH" THEN EthWallets ELSE BtcWallets
KindsOf(ch)   == IF ch = "ETH" THEN EthKinds ELSE BtcKinds

VARIABLES
    day,
    chain,      \* the transactions by chain: kind, day, and whether confirmed
    lastSeen,   \* _last_seen_tx (0: none)
    moves,      \* _movements by chain
    loop,       \* by chain: the wallets left of the poll and count_before
    published,  \* the Redis key
    told,       \* ghost: the alerts sent
    pollFaults

whaleVars == <<day, chain, lastSeen, moves, loop, published, told, pollFaults>>

IdleLoop == [todo |-> {}, before |-> -1]

WhaleInit ==
    /\ day = 0 /\ pollFaults = 0
    /\ chain = [ch \in Chains |-> << >>] /\ moves = [ch \in Chains |-> << >>]
    /\ lastSeen = [w \in EthWallets \cup BtcWallets |-> 0]
    /\ loop = [ch \in Chains |-> IdleLoop]
    /\ published = {} /\ told = << >>

-----------------------------------------------------------------------------
(* The two explorers.                                                      *)

Concerns(tx, w) == w \in tx.kind.ins \cup DOMAIN tx.kind.outs

Newest(ids) == CHOOSE q \in [1..Cardinality(ids) -> ids] : \A j, k \in DOMAIN q : j < k => q[j] > q[k]
Page(ids)   == SubSeq(ids, 1, IF Len(ids) < PageSize THEN Len(ids) ELSE PageSize)

\* txlist: newest first.
EthPage(w) == Page(Newest({i \in DOMAIN chain["ETH"] : Concerns(chain["ETH"][i], w)}))

\* address/txs: the unconfirmed ones first.
BtcPage(w) ==
    LET ids == {i \in DOMAIN chain["BTC"] : Concerns(chain["BTC"][i], w)}
        fix == {i \in ids : chain["BTC"][i].confirmed}
    IN  Page(Newest(ids \ fix) \o Newest(fix))

TxHappens(ch) ==
    /\ Len(chain["ETH"]) + Len(chain["BTC"]) < MaxTxs
    /\ \E kind \in KindsOf(ch) :
         chain' = [chain EXCEPT ![ch] = Append(@, [kind |-> kind, day |-> day,
                                                   confirmed |-> ch = "ETH"])]
    /\ UNCHANGED <<day, lastSeen, moves, loop, published, told, pollFaults>>

TxConfirmed ==
    /\ \E i \in DOMAIN chain["BTC"] : chain' = [chain EXCEPT !["BTC"][i].confirmed = TRUE]
    /\ UNCHANGED <<day, lastSeen, moves, loop, published, told, pollFaults>>

DayPasses ==
    /\ day < MaxDays /\ day' = day + 1
    /\ UNCHANGED <<chain, lastSeen, moves, loop, published, told, pollFaults>>

-----------------------------------------------------------------------------
(* What a transaction means for a wallet (_process_transaction).           *)

Grade(amount) == IF amount >= HighAmount THEN "high" ELSE "medium"

Move(w, i, action, amount, at) ==
    [wallet |-> w, tx |-> i, action |-> action, grade |-> Grade(amount), day |-> at]

\* Ethereum: one sender, one receiver.
EthMoves(w, i) ==
    LET tx     == chain["ETH"][i]
        to     == CHOOSE a \in DOMAIN tx.kind.outs : TRUE
        amount == tx.kind.outs[to]
        Is(action) == {Move(w, i, action, amount, tx.day)}
    IN  IF amount < MinAmount THEN {}
        ELSE IF w \in tx.kind.ins THEN Is(IF to \in Exchanges THEN "exchange_deposit" ELSE "transfer_out")
        ELSE IF w = to THEN Is(IF tx.kind.ins \cap Exchanges # {} THEN "exchange_withdrawal"
                               ELSE "transfer_in")
        ELSE {}

PaidToOthers(outs, w) == MapThenSumSet(LAMBDA a : outs[a], DOMAIN outs \ {w})

\* Bitcoin: each exchange among the outputs is a deposit; an unconfirmed
\* transaction has the time of the poll.
BtcMoves(w, i) ==
    LET tx     == chain["BTC"][i]
        at     == IF tx.confirmed THEN tx.day ELSE day
        outs   == tx.kind.outs
        paid   == {a \in DOMAIN outs \ {w} : a \in Exchanges /\ outs[a] >= MinAmount}
        others == PaidToOthers(outs, w)
        sent   == IF w \notin tx.kind.ins THEN {}
                  ELSE IF paid # {} THEN {Move(w, i, "exchange_deposit", outs[a], at) : a \in paid}
                  ELSE IF others >= MinAmount THEN {Move(w, i, "transfer_out", others, at)} ELSE {}
        got    == IF w \notin DOMAIN outs \/ outs[w] < MinAmount THEN {}
                  ELSE IF tx.kind.ins \cap Exchanges # {}
                  THEN {Move(w, i, "exchange_withdrawal", outs[w], at)}
                  ELSE IF w \notin tx.kind.ins THEN {Move(w, i, "transfer_in", outs[w], at)} ELSE {}
    IN  sent \cup got

\* The entries of ms at the places of keep, in their order.
Picked(ms, keep) ==
    LET picked[k \in 0..Len(ms)] == IF k = 0 THEN <<>>
                                    ELSE IF k \in keep THEN Append(picked[k - 1], ms[k]) ELSE picked[k - 1]
    IN  picked[Len(ms)]

\* _prune_old_movements, after each processed transaction.
Pruned(ms) == Picked(ms, {k \in DOMAIN ms : day - ms[k].day < 1})

\* The transactions of a page before the last one seen.
NewOf(page, last) ==
    LET stops == {k \in DOMAIN page : page[k] = last}
    IN  IF stops = {} THEN page ELSE SubSeq(page, 1, Min(stops) - 1)

MovesOf(ch, w, i) == IF ch = "ETH" THEN EthMoves(w, i) ELSE BtcMoves(w, i)

\* The movements after the transactions new have been processed, in this order.
Processed(ch, w, new) ==
    LET after[k \in 0..Len(new)] ==
            IF k = 0 THEN moves[ch] ELSE Pruned(after[k - 1] \o SetToSeq(MovesOf(ch, w, new[k])))
    IN  after[Len(new)]

\* _check_wallet, on the page the explorer answered.
Checked(ch, w, page) ==
    /\ w \in loop[ch].todo
    /\ loop' = [loop EXCEPT ![ch].todo = @ \ {w}]
    /\ IF page = << >> THEN UNCHANGED <<lastSeen, moves>>
       ELSE /\ lastSeen' = [lastSeen EXCEPT ![w] = page[1]]
            /\ moves' = [moves EXCEPT ![ch] =
                 IF lastSeen[w] = 0 THEN @ ELSE Processed(ch, w, NewOf(page, lastSeen[w]))]
    /\ UNCHANGED <<day, chain, published, told, pollFaults>>

CheckEth(w) == Checked("ETH", w, EthPage(w))
CheckBtc(w) == Checked("BTC", w, BtcPage(w))

\* The request fails or is rate limited: the wallet waits for the next poll.
CheckFails(ch, w) ==
    /\ w \in loop[ch].todo /\ pollFaults < MaxPollFaults
    /\ loop' = [loop EXCEPT ![ch].todo = @ \ {w}] /\ pollFaults' = pollFaults + 1
    /\ UNCHANGED <<day, chain, lastSeen, moves, published, told>>

-----------------------------------------------------------------------------
(* The loops of the data service (_etherscan_loop, _btc_whale_loop).       *)

PollStart(ch) ==
    /\ loop[ch] = IdleLoop /\ WalletsOf(ch) # {}
    /\ loop' = [loop EXCEPT ![ch] = [todo |-> WalletsOf(ch), before |-> Len(moves[ch])]]
    /\ UNCHANGED <<day, chain, lastSeen, moves, published, told, pollFaults>>

\* _movements[count_before:]
Newer(ch) == SubSeq(moves[ch], loop[ch].before + 1, Len(moves[ch]))

\* _notify_new_movements: what passes its filter, priced or not.
Alerts(ms, priced) ==
    Picked(ms, {k \in DOMAIN ms : /\ ms[k].action \in {"exchange_deposit", "exchange_withdrawal"}
                                  /\ priced
                                  /\ (ms[k].wallet \in MarketMakers => ms[k].grade = "high")})

Recent(ms) == {ms[k] : k \in {j \in DOMAIN ms : day - ms[j].day < 1}}

PollEnd(ch, priced) ==
    /\ loop[ch].before >= 0 /\ loop[ch].todo = {}
    /\ loop' = [loop EXCEPT ![ch] = IdleLoop]
    /\ published' = UNION {Recent(moves[c]) : c \in Chains}
    /\ told' = told \o Alerts(Newer(ch), priced)
    /\ UNCHANGED <<day, chain, lastSeen, moves, pollFaults>>

WhaleNext ==
    \/ \E ch \in Chains : TxHappens(ch) \/ PollStart(ch) \/ \E priced \in BOOLEAN : PollEnd(ch, priced)
    \/ TxConfirmed \/ DayPasses
    \/ \E w \in EthWallets : CheckEth(w) \/ CheckFails("ETH", w)
    \/ \E w \in BtcWallets : CheckBtc(w) \/ CheckFails("BTC", w)

WhaleSpec == WhaleInit /\ [][WhaleNext]_whaleVars

-----------------------------------------------------------------------------
On(ch, m) == m.wallet \in WalletsOf(ch)

\* On Ethereum a wallet's transaction becomes one movement and at most one
\* alert, whatever the polls miss, the page drops and the pruning removes.
EthOnce ==
    /\ \A j, k \in DOMAIN moves["ETH"] :
          j # k => <<moves["ETH"][j].wallet, moves["ETH"][j].tx>> # <<moves["ETH"][k].wallet, moves["ETH"][k].tx>>
    /\ \A j, k \in DOMAIN told :
          (j # k /\ On("ETH", told[j]) /\ told[j].wallet = told[k].wallet) => told[j].tx # told[k].tx

\* The same of Bitcoin ("Track last seen tx hash per wallet to avoid
\* duplicates", btc_whale_client.py).
BtcOnce ==
    \A j, k \in DOMAIN moves["BTC"] :
       (j # k /\ moves["BTC"][j].wallet = moves["BTC"][k].wallet
            /\ moves["BTC"][j].action = moves["BTC"][k].action) => moves["BTC"][j].tx # moves["BTC"][k].tx

\* A priced deposit or withdrawal that is recorded is told of once the poll
\* ends.
NothingSwallowed ==
    [][\A ch \in Chains :
         PollEnd(ch, TRUE) => \A m \in ToSet(moves[ch]) :
              (m.action = "exchange_deposit" /\ m.wallet \notin MarketMakers) => m \in ToSet(told')]_whaleVars
=============================================================================
