----------------------------- MODULE StakePool -----------------------------
(***************************************************************************)
(* The $CLANK staking pool of the clanker5000 program: stakers lock CLANK, *)
(* anyone tops up the USDC yield bucket, and an accumulator of USDC per    *)
(* share (scaled by ACC_SCALE, floored) says what each staker is owed.     *)
(* One action is one instruction, all or nothing.  "fault:" marks wrong    *)
(* variants, as in RaceEscrow.  Sums and products stay far below 2^64 and  *)
(* 2^128, so widths are left out.                                          *)
(***************************************************************************)
EXTENDS Integers, FiniteSets, Sums

CONSTANTS
    Stakers,        \* wallets
    ACC_SCALE,      \* scale of the accumulator (10^12 in the program)
    Cooldowns,      \* values of stake_pool.cooldown_secs, in ticks of the clock
    Endowment,      \* CLANK each staker has at first
    Stakes,         \* amounts staked or unstaked at once
    Fundings,       \* amounts the bucket is topped up with at once
    MaxFunded,      \* bound: the sum of the fundings
    MaxResyncs,     \* bound: how many stakes and unstakes
    LastTick        \* bound: where the clock stops

ASSUME StakeAssumption ==
    /\ IsFiniteSet(Stakers) /\ ACC_SCALE \in Nat \ {0}
    /\ Cooldowns \subseteq Nat /\ Endowment \in Nat
    /\ Stakes \subseteq Nat /\ Fundings \subseteq Nat
    /\ MaxFunded \in Nat /\ MaxResyncs \in Nat /\ LastTick \in Nat

VARIABLES
    total_staked,       \* stake_pool.total_staked
    acc_usdc_per_share, \* stake_pool.acc_usdc_per_share
    cooldown_secs,      \* stake_pool.cooldown_secs
    amount,             \* staker -> stake_account.amount (0: no account yet)
    reward_debt,        \* staker -> stake_account.reward_debt
    pending_usdc,       \* staker -> stake_account.pending_usdc
    unstake_ready_at,   \* staker -> stake_account.unstake_ready_at
    stake_vault,        \* CLANK in the stake vault
    yield_vault,        \* USDC in the yield vault
    clank,              \* staker -> CLANK in the wallet
    paid,               \* staker -> USDC claimed so far
    now,                \* Clock::get()
    funded,             \* history: USDC put into the bucket
    resyncs             \* history: stakes and unstakes

vars == <<total_staked, acc_usdc_per_share, cooldown_secs, amount, reward_debt, pending_usdc,
          unstake_ready_at, stake_vault, yield_vault, clank, paid, now, funded, resyncs>>
usdc == <<yield_vault, paid, funded>>

\* amount * acc / ACC_SCALE, floored.
Gross(n, acc) == (n * acc) \div ACC_SCALE

pending_yield(n, acc, debt) ==
    IF Gross(n, acc) >= debt THEN Gross(n, acc) - debt ELSE 0  \* saturating_sub

\* The yield of staker s that is not in pending_usdc yet.
Fresh(s) == pending_yield(amount[s], acc_usdc_per_share, reward_debt[s])

Owed(s) == pending_usdc[s] + Fresh(s)

Init ==
    /\ total_staked = 0 /\ acc_usdc_per_share = 0 /\ cooldown_secs \in Cooldowns
    /\ amount = [s \in Stakers |-> 0]
    /\ reward_debt = [s \in Stakers |-> 0]
    /\ pending_usdc = [s \in Stakers |-> 0]
    /\ unstake_ready_at = [s \in Stakers |-> 0]
    /\ stake_vault = 0 /\ yield_vault = 0
    /\ clank = [s \in Stakers |-> Endowment]
    /\ paid = [s \in Stakers |-> 0]
    /\ now = 0 /\ funded = 0 /\ resyncs = 0

-----------------------------------------------------------------------------
\* What a funding of n adds to the accumulator.
AccStep(n) == (n * ACC_SCALE) \div total_staked

fund_staker_bucket(n) ==
    /\ n > 0
    /\ total_staked > 0
    /\ funded + n <= MaxFunded
    /\ yield_vault' = yield_vault + n
    /\ funded' = funded + n
    /\ acc_usdc_per_share' = acc_usdc_per_share + AccStep(n)
    /\ UNCHANGED <<total_staked, cooldown_secs, amount, reward_debt, pending_usdc,
                   unstake_ready_at, stake_vault, clank, paid, now, resyncs>>

SettleNever(s, new_amount) ==  \* fault: the pending yield is not settled first
    /\ amount' = [amount EXCEPT ![s] = new_amount]
    /\ reward_debt' = [reward_debt EXCEPT ![s] = Gross(new_amount, acc_usdc_per_share)]
    /\ UNCHANGED pending_usdc

SettleKeepingDebt(s, new_amount) ==  \* fault: reward_debt keeps its old value
    /\ pending_usdc' = [pending_usdc EXCEPT ![s] = Owed(s)]
    /\ amount' = [amount EXCEPT ![s] = new_amount]
    /\ UNCHANGED reward_debt

\* How stake and unstake change a position: settle the pending yield at the old
\* amount, then snapshot the debt at the new one.  (For a stake of 0 the pending
\* yield is 0, so stake's test of s.amount > 0 makes no difference.)
Settle(s, new_amount) ==
    /\ pending_usdc' = [pending_usdc EXCEPT ![s] = Owed(s)]
    /\ amount' = [amount EXCEPT ![s] = new_amount]
    /\ reward_debt' = [reward_debt EXCEPT ![s] = Gross(new_amount, acc_usdc_per_share)]

stake(s, n) ==
    /\ n > 0
    /\ resyncs < MaxResyncs
    /\ clank[s] >= n                            \* token program: funds
    /\ Settle(s, amount[s] + n)
    /\ clank' = [clank EXCEPT ![s] = @ - n]
    /\ stake_vault' = stake_vault + n
    /\ total_staked' = total_staked + n
    /\ unstake_ready_at' = [unstake_ready_at EXCEPT ![s] = now + cooldown_secs]
    /\ resyncs' = resyncs + 1
    /\ UNCHANGED <<acc_usdc_per_share, cooldown_secs, usdc, now>>

StillStakedAll(n) == total_staked  \* fault: total_staked is not reduced

StillStaked(n) == total_staked - n

unstake(s, n) ==
    /\ n > 0 /\ n <= amount[s]
    /\ now >= unstake_ready_at[s]
    /\ n <= stake_vault                         \* token program: funds
    /\ n <= total_staked                        \* checked_sub
    /\ resyncs < MaxResyncs
    /\ Settle(s, amount[s] - n)
    /\ clank' = [clank EXCEPT ![s] = @ + n]
    /\ stake_vault' = stake_vault - n
    /\ total_staked' = StillStaked(n)
    /\ resyncs' = resyncs + 1
    /\ UNCHANGED <<acc_usdc_per_share, cooldown_secs, unstake_ready_at, usdc, now>>

DebtKept(s) == reward_debt[s]  \* fault: the claim does not move the snapshot

\* The snapshot claim_staking_yield leaves.
DebtAfterClaim(s) == Gross(amount[s], acc_usdc_per_share)

claim_staking_yield(s) ==
    /\ Owed(s) > 0
    /\ Owed(s) <= yield_vault                   \* token program: funds
    /\ paid' = [paid EXCEPT ![s] = @ + Owed(s)]
    /\ yield_vault' = yield_vault - Owed(s)
    /\ pending_usdc' = [pending_usdc EXCEPT ![s] = 0]
    /\ reward_debt' = [reward_debt EXCEPT ![s] = DebtAfterClaim(s)]
    /\ UNCHANGED <<total_staked, acc_usdc_per_share, cooldown_secs, amount, unstake_ready_at,
                   stake_vault, clank, now, funded, resyncs>>

\* Signed by the authority of TokenConfig.  A stake made before keeps its date.
set_stake_cooldown(c) ==
    /\ cooldown_secs' = c
    /\ UNCHANGED <<total_staked, acc_usdc_per_share, amount, reward_debt, pending_usdc,
                   unstake_ready_at, stake_vault, clank, usdc, now, resyncs>>

Tick ==
    /\ now < LastTick
    /\ now' = now + 1
    /\ UNCHANGED <<total_staked, acc_usdc_per_share, cooldown_secs, amount, reward_debt,
                   pending_usdc, unstake_ready_at, stake_vault, clank, usdc, resyncs>>

Next ==
    \/ \E n \in Fundings : fund_staker_bucket(n)
    \/ \E s \in Stakers :
          \/ \E n \in Stakes : stake(s, n) \/ unstake(s, n)
          \/ claim_staking_yield(s)
    \/ \E c \in Cooldowns : set_stake_cooldown(c)
    \/ Tick

Spec == Init /\ [][Next]_vars
-----------------------------------------------------------------------------
\* Type correctness of the accounts.
TypeOK ==
    /\ total_staked \in Nat /\ acc_usdc_per_share \in Nat /\ cooldown_secs \in Cooldowns
    /\ amount \in [Stakers -> Nat] /\ reward_debt \in [Stakers -> Nat]
    /\ pending_usdc \in [Stakers -> Nat] /\ unstake_ready_at \in [Stakers -> Nat]
    /\ stake_vault \in Nat /\ yield_vault \in Nat
    /\ clank \in [Stakers -> Nat] /\ paid \in [Stakers -> Nat]
    /\ now \in Nat /\ funded \in Nat /\ resyncs \in Nat

\* The stake vault holds the positions, and the total the yield is divided by is
\* their sum: a staker past the cooldown can always leave with the whole stake.
StakesBacked ==
    /\ stake_vault = SumOver(amount)
    /\ total_staked = stake_vault

\* A position's snapshot never runs ahead of the accumulator, so the
\* saturating_sub of pending_yield never swallows anything ("acc only ever
\* rises", lib.rs line 65).
DebtBelowGross ==
    \A s \in Stakers : reward_debt[s] <= Gross(amount[s], acc_usdc_per_share)

OwedToAll == SumOver([s \in Stakers |-> Owed(s)])

\* What the vault is short of the yield owed is less than one unit for each
\* stake and unstake: they floor the snapshot, in the staker's favour.
ShortfallBounded == OwedToAll <= yield_vault + resyncs

\* Only a funding changes what a staker has earned (claimed or owed): staking
\* more does not earn retroactively, leaving forfeits nothing, a claim moves
\* exactly what was owed, and nobody's step touches anybody else's yield.
OnlyFundingEarns ==
    [][funded' = funded =>
         \A s \in Stakers : paid'[s] + Owed(s)' = paid[s] + Owed(s)]_vars
=============================================================================
