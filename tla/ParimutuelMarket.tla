-------------------------- MODULE ParimutuelMarket --------------------------
(***************************************************************************)
(* One parimutuel betting market of the clanker5000 program.  Humans bet   *)
(* on lanes, a judge settles the market with the winning lane, each        *)
(* winning bet claims its floored share of the pool, and after a claim     *)
(* window the operator may sweep the vault.  One action is one             *)
(* instruction, all or nothing.  Markets share no account, so one is       *)
(* enough.  "fault:" marks wrong variants, as in RaceEscrow.               *)
(***************************************************************************)
EXTENDS Integers, FiniteSets, Sums

CONSTANTS
    Bettors,        \* wallets
    Humans,         \* World ID nullifiers, one per human
    Keys,           \* keys that may be judge or operator
    NoBet,          \* value of a bet account that is not initialised
    MaxRacers,      \* MAX_RACERS, lanes of a market at most
    Amounts,        \* amounts a bettor tries to bet
    Endowment,      \* balance each bettor starts with
    ClaimWindow,    \* CLAIM_WINDOW_SECS, in ticks of the clock
    LastTick        \* bound: where the clock stops

Lanes == 0..(MaxRacers - 1)
Bet == [racer : Lanes, amount : Nat, claimed : BOOLEAN]

ASSUME MarketAssumption ==
    /\ IsFiniteSet(Bettors) /\ IsFiniteSet(Humans) /\ Keys # {}
    /\ NoBet \notin Bet
    /\ MaxRacers \in Nat \ {0}
    /\ Amounts \subseteq Nat
    /\ Endowment \in Nat
    /\ ClaimWindow \in Nat \ {0}
    /\ LastTick \in Nat

VARIABLES
    market,         \* the market account; open = settled = FALSE: not initialised
    bets,           \* bettor -> bet account, or NoBet
    used,           \* nullifiers with an account
    vault,          \* balance of the market's vault
    wallet,         \* bettor -> balance of the bettor's token account
    swept,          \* what sweeps have paid out
    now             \* Clock::get()

vars == <<market, bets, used, vault, wallet, swept, now>>

Placed == {b \in Bettors : bets[b] # NoBet}
OnLane(lane) == {b \in Placed : bets[b].racer = lane}

Init ==
    /\ market = [open |-> FALSE, settled |-> FALSE, winner |-> 0, num_racers |-> 0,
                 pools |-> [lane \in Lanes |-> 0], total_pool |-> 0,
                 settled_at |-> 0, judge |-> CHOOSE k \in Keys : TRUE,
                 operator |-> CHOOSE k \in Keys : TRUE]
    /\ bets = [b \in Bettors |-> NoBet]
    /\ used = {}
    /\ vault = 0
    /\ wallet = [b \in Bettors |-> Endowment]
    /\ swept = 0
    /\ now = 0

parimutuel_payout_share(amount, total_pool, win_pool) ==  \* fault: multiplies last
    IF win_pool = 0 THEN 0 ELSE (total_pool \div win_pool) * amount

\* floor(amount * total_pool / win_pool); amount <= win_pool, so it fits a u64.
parimutuel_payout(amount, total_pool, win_pool) ==
    IF win_pool = 0 THEN 0 ELSE (amount * total_pool) \div win_pool

-----------------------------------------------------------------------------
RacerCountAny(n) == n > 0  \* fault: no upper limit

RacerCountOk(n) == n > 0 /\ n <= MaxRacers

open_market(k, num_racers, operator) ==
    /\ ~market.open /\ ~market.settled          \* the account is initialised once
    /\ RacerCountOk(num_racers)
    /\ market' = [market EXCEPT !.open = TRUE, !.num_racers = num_racers,
                                !.judge = k, !.operator = operator]
    /\ UNCHANGED <<bets, used, vault, wallet, swept, now>>

AcceptsBets == market.open /\ ~market.settled

\* One bet per bettor and one per nullifier: each account is initialised once.
FreshBet(b, human) == bets[b] = NoBet /\ human \notin used

AddToPools(m, racer, amount) ==
    [m EXCEPT !.pools[racer] = @ + amount, !.total_pool = @ + amount]

place_bet(b, human, racer, amount) ==
    /\ AcceptsBets
    /\ racer < market.num_racers
    /\ amount > 0
    /\ FreshBet(b, human)
    /\ wallet[b] >= amount                      \* token program: funds
    /\ wallet' = [wallet EXCEPT ![b] = @ - amount]
    /\ vault' = vault + amount
    /\ bets' = [bets EXCEPT ![b] = [racer |-> racer, amount |-> amount, claimed |-> FALSE]]
    /\ used' = used \cup {human}
    /\ market' = AddToPools(market, racer, amount)
    /\ UNCHANGED <<swept, now>>

CanSettle == market.open /\ ~market.settled

settle_market(k, winner) ==
    /\ k = market.judge
    /\ CanSettle
    /\ winner < market.num_racers
    /\ market' = [market EXCEPT !.open = FALSE, !.settled = TRUE,
                                !.winner = winner, !.settled_at = now]
    /\ UNCHANGED <<bets, used, vault, wallet, swept, now>>

PayoutOf(b) ==
    parimutuel_payout(bets[b].amount, market.total_pool, market.pools[market.winner])

MayClaimAgain(b) ==  \* fault: does not look at claimed
    /\ market.settled /\ bets[b] # NoBet
    /\ bets[b].racer = market.winner

MayClaim(b) ==
    /\ market.settled /\ bets[b] # NoBet
    /\ ~bets[b].claimed
    /\ bets[b].racer = market.winner

claim(b) ==
    /\ MayClaim(b)
    /\ PayoutOf(b) <= vault                     \* token program: funds
    /\ bets' = [bets EXCEPT ![b].claimed = TRUE]
    /\ vault' = vault - PayoutOf(b)
    /\ wallet' = [wallet EXCEPT ![b] = @ + PayoutOf(b)]
    /\ UNCHANGED <<market, used, swept, now>>

\* Signed by the operator.
set_judge(k, new_judge) ==
    /\ market.open \/ market.settled
    /\ k = market.operator
    /\ market' = [market EXCEPT !.judge = new_judge]
    /\ UNCHANGED <<bets, used, vault, wallet, swept, now>>

SweepAnyTime == market.settled  \* fault: no time lock

SweepOpen == market.settled /\ now >= market.settled_at + ClaimWindow

sweep_market(k) ==
    /\ k = market.operator
    /\ SweepOpen
    /\ vault' = 0
    /\ swept' = swept + vault
    /\ UNCHANGED <<market, bets, used, wallet, now>>

Tick ==
    /\ now < LastTick
    /\ now' = now + 1
    /\ UNCHANGED <<market, bets, used, vault, wallet, swept>>

Next ==
    \/ \E k \in Keys :
          \/ \E n \in 0..(MaxRacers + 1), op \in Keys : open_market(k, n, op)
          \/ \E lane \in Lanes : settle_market(k, lane)
          \/ \E j \in Keys : set_judge(k, j)
          \/ sweep_market(k)
    \/ \E b \in Bettors :
          \/ \E human \in Humans, lane \in Lanes, amount \in Amounts :
                place_bet(b, human, lane, amount)
          \/ claim(b)
    \/ Tick

Spec == Init /\ [][Next]_vars
-----------------------------------------------------------------------------
\* Type correctness of the accounts.
TypeOK ==
    /\ market \in [open : BOOLEAN, settled : BOOLEAN, winner : Lanes,
                   num_racers : 0..MaxRacers, pools : [Lanes -> Nat], total_pool : Nat,
                   settled_at : 0..LastTick, judge : Keys, operator : Keys]
    /\ bets \in [Bettors -> Bet \cup {NoBet}]
    /\ used \subseteq Humans
    /\ vault \in Nat /\ swept \in Nat
    /\ wallet \in [Bettors -> Nat]
    /\ now \in 0..LastTick

\* What each bettor has bet: in all, and on one lane.
Stakes == [b \in Bettors |-> IF b \in Placed THEN bets[b].amount ELSE 0]
StakesOn(lane) == [b \in Bettors |-> IF b \in OnLane(lane) THEN bets[b].amount ELSE 0]

\* The pools the payouts are computed from are the sums of the bets, lane by
\* lane and in total, and a human stands behind each bet.
PoolsAreTheBets ==
    /\ \A lane \in Lanes : market.pools[lane] = SumOver(StakesOn(lane))
    /\ market.total_pool = SumOver(Stakes)
    /\ Cardinality(Placed) = Cardinality(used)

\* The shares that are still to be claimed, and those that were.
Owed == {b \in Bettors : MayClaim(b)}
Due == [b \in Bettors |-> IF b \in Owed THEN PayoutOf(b) ELSE 0]
Received == [b \in Bettors |-> IF b \in Placed /\ bets[b].claimed THEN PayoutOf(b) ELSE 0]

\* While the claim window is open every winner can be paid, in whatever order
\* they claim: what the unclaimed winning bets are owed is in the vault.
WinnersCovered ==
    market.settled /\ now < market.settled_at + ClaimWindow => SumOver(Due) <= vault

\* What the winners do not get is only rounding: when every winner has claimed
\* and nothing was swept, fewer units than winning bets are left over.
OnlyDustRemains ==
    market.settled /\ Owed = {} /\ OnLane(market.winner) # {} /\ swept = 0
        => vault < Cardinality(OnLane(market.winner))

\* Over any order of bets, claims and sweep: the pools the shares are computed from
\* are the bets, each bettor is out the stake and in the share of a claimed winning
\* bet, once, and what the vault is short of the bets is exactly what was claimed or
\* swept.
LedgerAddsUp ==
    /\ PoolsAreTheBets
    /\ \A b \in Bettors : wallet[b] + Stakes[b] = Endowment + Received[b]
    /\ vault + swept + SumOver(Received) = market.total_pool
=============================================================================
