--------------------------- MODULE StakePoolProofs ---------------------------
(***************************************************************************)
(* Proofs, for any number of stakers, any scale of the accumulator and any *)
(* amounts, that the snapshot of a position never runs ahead of the        *)
(* accumulator, that nothing but a funding changes what is earned, that    *)
(* the stake vault backs the positions, and that the yield vault is short  *)
(* of the claims by the rounding of the snapshots at most.                 *)
(***************************************************************************)
EXTENDS StakePool, SumLemmas

\* The amounts are numbers.
LEMMA Amounts ==
    /\ ACC_SCALE \in Nat \ {0} /\ Cooldowns \subseteq Nat /\ Endowment \in Nat
    /\ Stakes \subseteq Nat /\ Fundings \subseteq Nat
  BY StakeAssumption

\* Flooring to a scale: the result is a number and grows with the accumulator.
LEMMA GrossNat ==
    ASSUME NEW n \in Nat, NEW acc \in Nat
    PROVE  Gross(n, acc) \in Nat
  <1>1. n * acc \in Nat
    OBVIOUS
  <1> QED
    BY <1>1, DivNat, Amounts DEF Gross

\* A larger accumulator is a larger gross yield.
LEMMA GrossGrows ==
    ASSUME NEW n \in Nat, NEW a \in Nat, NEW b \in Nat, a <= b
    PROVE  Gross(n, a) <= Gross(n, b)
  <1>1. n * a \in Nat /\ n * b \in Nat
    OBVIOUS
  <1>2. n * a <= n * b
    BY TimesGrows
  <1> QED
    BY <1>1, <1>2, DivGrows, Amounts DEF Gross

\* A position that was just snapshotted has no fresh yield.
LEMMA NothingFresh ==
    ASSUME NEW n \in Nat, NEW acc \in Nat
    PROVE  pending_yield(n, acc, Gross(n, acc)) = 0
  BY GrossNat DEF pending_yield

\* What a staker is owed is a number.
LEMMA OwedNat ==
    ASSUME TypeOK, NEW s \in Stakers
    PROVE  Owed(s) \in Nat
  <1>1. /\ amount[s] \in Nat /\ reward_debt[s] \in Nat /\ pending_usdc[s] \in Nat
        /\ acc_usdc_per_share \in Nat
    BY DEF TypeOK
  <1>2. Gross(amount[s], acc_usdc_per_share) \in Nat
    BY <1>1, GrossNat
  <1> QED
    BY <1>1, <1>2 DEF Owed, Fresh, pending_yield

-----------------------------------------------------------------------------
\* The inductive invariant.
IInv == TypeOK /\ DebtBelowGross

\* An empty pool owes nothing.
LEMMA InitInv == Init => IInv
  <1> SUFFICES ASSUME Init PROVE IInv
    OBVIOUS
  <1>1. TypeOK
    BY Amounts DEF Init, TypeOK
  <1>2. DebtBelowGross
    <2> SUFFICES ASSUME NEW s \in Stakers
                 PROVE  reward_debt[s] <= Gross(amount[s], acc_usdc_per_share)
      BY DEF DebtBelowGross
    <2>1. reward_debt[s] = 0 /\ amount[s] = 0 /\ acc_usdc_per_share = 0
      BY DEF Init
    <2>2. Gross(0, 0) \in Nat
      BY GrossNat
    <2> QED
      BY <2>1, <2>2
  <1> QED
    BY <1>1, <1>2 DEF IInv

\* What Settle makes of the position it settles, and of the others.
LEMMA Settled ==
    ASSUME TypeOK, NEW s \in Stakers, NEW new \in Nat, Settle(s, new)
    PROVE  /\ amount' \in [Stakers -> Nat] /\ reward_debt' \in [Stakers -> Nat]
           /\ pending_usdc' \in [Stakers -> Nat]
           /\ amount'[s] = new
           /\ reward_debt'[s] = Gross(new, acc_usdc_per_share)
           /\ pending_usdc'[s] = Owed(s)
           /\ \A t \in Stakers \ {s} :
                 /\ amount'[t] = amount[t] /\ reward_debt'[t] = reward_debt[t]
                 /\ pending_usdc'[t] = pending_usdc[t]
  <1>1. Owed(s) \in Nat
    BY OwedNat
  <1>2. Gross(new, acc_usdc_per_share) \in Nat
    BY GrossNat DEF TypeOK
  <1> QED
    BY <1>1, <1>2 DEF Settle, TypeOK

\* The same for a claim.
LEMMA Claimed ==
    ASSUME TypeOK, NEW s \in Stakers, claim_staking_yield(s)
    PROVE  /\ reward_debt' \in [Stakers -> Nat] /\ pending_usdc' \in [Stakers -> Nat]
           /\ paid' \in [Stakers -> Nat] /\ yield_vault' \in Nat
           /\ reward_debt'[s] = Gross(amount[s], acc_usdc_per_share)
           /\ pending_usdc'[s] = 0 /\ paid'[s] = paid[s] + Owed(s)
           /\ \A t \in Stakers \ {s} :
                 /\ reward_debt'[t] = reward_debt[t] /\ paid'[t] = paid[t]
                 /\ pending_usdc'[t] = pending_usdc[t]
  <1>1. Owed(s) \in Nat
    BY OwedNat
  <1>2. Gross(amount[s], acc_usdc_per_share) \in Nat
    BY GrossNat DEF TypeOK
  <1> QED
    BY <1>1, <1>2 DEF claim_staking_yield, DebtAfterClaim, TypeOK

\* A funding adds a number to the accumulator.
LEMMA Funded ==
    ASSUME TypeOK, NEW n \in Fundings, fund_staker_bucket(n)
    PROVE  /\ acc_usdc_per_share' \in Nat /\ acc_usdc_per_share <= acc_usdc_per_share'
           /\ funded' # funded
  <1>1. n * ACC_SCALE \in Nat /\ total_staked \in Nat \ {0} /\ n \in Nat
    BY Amounts DEF fund_staker_bucket, TypeOK
  <1>3. AccStep(n) \in Nat
    BY <1>1, DivNat DEF AccStep
  <1> QED
    BY <1>1, <1>3 DEF fund_staker_bucket, TypeOK

-----------------------------------------------------------------------------
\* The types are kept by every step.
LEMMA TypeStep == TypeOK /\ [Next]_vars => TypeOK'
  <1> SUFFICES ASSUME TypeOK, [Next]_vars PROVE TypeOK'
    OBVIOUS
  <1> USE DEF usdc
  <1>1. ASSUME NEW n \in Fundings, fund_staker_bucket(n) PROVE TypeOK'
    <2>1. acc_usdc_per_share' \in Nat
      BY <1>1, Funded
    <2> QED
      BY <1>1, <2>1, Amounts DEF fund_staker_bucket, TypeOK
  <1>2. ASSUME NEW s \in Stakers, NEW n \in Stakes, stake(s, n) PROVE TypeOK'
    <2>1. amount[s] + n \in Nat /\ n \in Nat
      BY Amounts DEF TypeOK
    <2>2. /\ amount' \in [Stakers -> Nat] /\ reward_debt' \in [Stakers -> Nat]
          /\ pending_usdc' \in [Stakers -> Nat]
      BY <1>2, <2>1, Settled DEF stake
    <2>3. clank' \in [Stakers -> Nat] /\ unstake_ready_at' \in [Stakers -> Nat]
      BY <1>2, <2>1, Amounts DEF stake, TypeOK
    <2> QED
      BY <1>2, <2>1, <2>2, <2>3 DEF stake, TypeOK
  <1>3. ASSUME NEW s \in Stakers, NEW n \in Stakes, unstake(s, n) PROVE TypeOK'
    <2>1. amount[s] - n \in Nat /\ n \in Nat
      BY <1>3, Amounts DEF unstake, TypeOK
    <2>2. /\ amount' \in [Stakers -> Nat] /\ reward_debt' \in [Stakers -> Nat]
          /\ pending_usdc' \in [Stakers -> Nat]
      BY <1>3, <2>1, Settled DEF unstake
    <2>3. clank' \in [Stakers -> Nat] /\ stake_vault' \in Nat /\ total_staked' \in Nat
      BY <1>3, <2>1 DEF unstake, StillStaked, TypeOK
    <2> QED
      BY <1>3, <2>2, <2>3 DEF unstake, TypeOK
  <1>4. ASSUME NEW s \in Stakers, claim_staking_yield(s) PROVE TypeOK'
    <2>1. /\ reward_debt' \in [Stakers -> Nat] /\ pending_usdc' \in [Stakers -> Nat]
          /\ paid' \in [Stakers -> Nat] /\ yield_vault' \in Nat
      BY <1>4, Claimed
    <2> QED
      BY <1>4, <2>1 DEF claim_staking_yield, TypeOK
  <1>5. CASE Tick \/ (\E c \in Cooldowns : set_stake_cooldown(c)) \/ UNCHANGED vars
    BY <1>5 DEF Tick, set_stake_cooldown, vars, TypeOK
  <1> QED
    BY <1>1, <1>2, <1>3, <1>4, <1>5 DEF Next

\* So is the order of snapshot and accumulator.
LEMMA DebtStep == IInv /\ [Next]_vars => DebtBelowGross'
  <1> SUFFICES ASSUME IInv, [Next]_vars PROVE DebtBelowGross'
    OBVIOUS
  <1> USE DEF usdc
  <1>0. TypeOK /\ DebtBelowGross
    BY DEF IInv
  <1>t. \A t \in Stakers : /\ amount[t] \in Nat /\ reward_debt[t] \in Nat
                           /\ Gross(amount[t], acc_usdc_per_share) \in Nat
                           /\ reward_debt[t] <= Gross(amount[t], acc_usdc_per_share)
    BY <1>0, GrossNat DEF TypeOK, DebtBelowGross
  <1>1. ASSUME NEW n \in Fundings, fund_staker_bucket(n) PROVE DebtBelowGross'
    <2>1. acc_usdc_per_share' \in Nat /\ acc_usdc_per_share <= acc_usdc_per_share'
      BY <1>0, <1>1, Funded
    <2>2. acc_usdc_per_share \in Nat
      BY <1>0 DEF TypeOK
    <2>3. ASSUME NEW t \in Stakers
          PROVE  reward_debt[t] <= Gross(amount[t], acc_usdc_per_share')
      <3>1. Gross(amount[t], acc_usdc_per_share') \in Nat
        BY <1>t, <2>1, GrossNat
      <3>2. Gross(amount[t], acc_usdc_per_share) <= Gross(amount[t], acc_usdc_per_share')
        BY <1>t, <2>1, <2>2, GrossGrows
      <3> QED
        BY <1>t, <3>1, <3>2
    <2> QED
      BY <1>1, <2>3 DEF fund_staker_bucket, DebtBelowGross
  <1>2. ASSUME NEW s \in Stakers, NEW new \in Nat, Settle(s, new),
               UNCHANGED acc_usdc_per_share
        PROVE  DebtBelowGross'
    <2>1. /\ amount'[s] = new /\ reward_debt'[s] = Gross(new, acc_usdc_per_share)
          /\ \A t \in Stakers \ {s} :
                amount'[t] = amount[t] /\ reward_debt'[t] = reward_debt[t]
      BY <1>0, <1>2, Settled
    <2>2. Gross(new, acc_usdc_per_share) \in Nat
      BY <1>0, GrossNat DEF TypeOK
    <2> QED
      BY <1>2, <1>t, <2>1, <2>2 DEF DebtBelowGross
  <1>3. ASSUME NEW s \in Stakers, NEW n \in Stakes, stake(s, n) PROVE DebtBelowGross'
    <2>1. amount[s] + n \in Nat
      BY <1>t, Amounts
    <2>2. Settle(s, amount[s] + n) /\ UNCHANGED acc_usdc_per_share
      BY <1>3 DEF stake
    <2> QED
      BY <1>2, <2>1, <2>2
  <1>4. ASSUME NEW s \in Stakers, NEW n \in Stakes, unstake(s, n) PROVE DebtBelowGross'
    <2>0. n \in Nat /\ amount[s] \in Nat /\ n <= amount[s]
      BY <1>4, <1>t, Amounts DEF unstake
    <2>1. amount[s] - n \in Nat
      BY <2>0
    <2>2. Settle(s, amount[s] - n) /\ UNCHANGED acc_usdc_per_share
      BY <1>4 DEF unstake
    <2> QED
      BY <1>2, <2>1, <2>2
  <1>5. ASSUME NEW s \in Stakers, claim_staking_yield(s) PROVE DebtBelowGross'
    <2>1. /\ reward_debt'[s] = Gross(amount[s], acc_usdc_per_share)
          /\ \A t \in Stakers \ {s} : reward_debt'[t] = reward_debt[t]
      BY <1>0, <1>5, Claimed
    <2> QED
      BY <1>5, <1>t, <2>1 DEF claim_staking_yield, DebtBelowGross
  <1>6. CASE Tick \/ (\E c \in Cooldowns : set_stake_cooldown(c)) \/ UNCHANGED vars
    BY <1>0, <1>6 DEF Tick, set_stake_cooldown, vars, DebtBelowGross
  <1> QED
    BY <1>1, <1>3, <1>4, <1>5, <1>6 DEF Next

\* Every state the pool reaches satisfies the inductive invariant.
THEOREM Invariance == Spec => []IInv
  <1>1. IInv /\ [Next]_vars => IInv'
    BY TypeStep, DebtStep DEF IInv
  <1> QED
    BY <1>1, InitInv, PTL DEF Spec

\* The accounts of the pool hold values of their types.
THEOREM TypeCorrect == Spec => []TypeOK
  <1>1. IInv => TypeOK
    BY DEF IInv
  <1> QED
    BY <1>1, Invariance, PTL

\* The saturating subtraction of pending_yield never swallows anything.
THEOREM DebtNeverAhead == Spec => []DebtBelowGross
  <1>1. IInv => DebtBelowGross
    BY DEF IInv
  <1> QED
    BY <1>1, Invariance, PTL

-----------------------------------------------------------------------------
\* A step that is no funding keeps what every staker has earned.
KeepsEarned == funded' = funded => \A s \in Stakers : paid'[s] + Owed(s)' = paid[s] + Owed(s)

\* No instruction of others takes yield from a position.
LEMMA EarnedStep == IInv /\ [Next]_vars => KeepsEarned
  <1> SUFFICES ASSUME IInv, [Next]_vars PROVE KeepsEarned
    OBVIOUS
  <1> USE DEF usdc
  <1>0. TypeOK /\ \A t \in Stakers : Owed(t) \in Nat
    BY OwedNat DEF IInv
  <1>t. acc_usdc_per_share \in Nat /\ \A t \in Stakers : paid[t] \in Nat /\ amount[t] \in Nat
    BY <1>0 DEF TypeOK
  <1>1. ASSUME NEW n \in Fundings, fund_staker_bucket(n) PROVE KeepsEarned
    BY <1>0, <1>1, Funded DEF KeepsEarned
  <1>2. ASSUME NEW s \in Stakers, NEW new \in Nat, Settle(s, new),
               UNCHANGED <<acc_usdc_per_share, paid>>
        PROVE  KeepsEarned
    <2>1. /\ amount'[s] = new /\ reward_debt'[s] = Gross(new, acc_usdc_per_share)
          /\ pending_usdc'[s] = Owed(s)
      BY <1>0, <1>2, Settled
    <2>2. \A t \in Stakers \ {s} :
             /\ amount'[t] = amount[t] /\ reward_debt'[t] = reward_debt[t]
             /\ pending_usdc'[t] = pending_usdc[t]
      BY <1>0, <1>2, Settled
    <2>3. pending_yield(new, acc_usdc_per_share, Gross(new, acc_usdc_per_share)) = 0
      BY <1>t, NothingFresh
    <2>4. Owed(s)' = Owed(s)
      BY <1>0, <1>2, <2>1, <2>3 DEF Owed, Fresh
    <2>5. \A t \in Stakers \ {s} : Owed(t)' = Owed(t)
      BY <1>2, <2>2 DEF Owed, Fresh
    <2> QED
      BY <1>2, <2>4, <2>5 DEF KeepsEarned
  <1>3. ASSUME NEW s \in Stakers, NEW n \in Stakes, stake(s, n) PROVE KeepsEarned
    <2>1. amount[s] + n \in Nat
      BY <1>t, Amounts
    <2> QED
      BY <1>2, <1>3, <2>1 DEF stake
  <1>4. ASSUME NEW s \in Stakers, NEW n \in Stakes, unstake(s, n) PROVE KeepsEarned
    <2>0. n \in Nat /\ amount[s] \in Nat /\ n <= amount[s]
      BY <1>4, <1>t, Amounts DEF unstake
    <2>1. amount[s] - n \in Nat
      BY <2>0
    <2> QED
      BY <1>2, <1>4, <2>1 DEF unstake
  <1>5. ASSUME NEW s \in Stakers, claim_staking_yield(s) PROVE KeepsEarned
    <2>1. /\ reward_debt'[s] = Gross(amount[s], acc_usdc_per_share)
          /\ pending_usdc'[s] = 0 /\ paid'[s] = paid[s] + Owed(s)
      BY <1>0, <1>5, Claimed
    <2>2. \A t \in Stakers \ {s} :
             /\ reward_debt'[t] = reward_debt[t] /\ paid'[t] = paid[t]
             /\ pending_usdc'[t] = pending_usdc[t]
      BY <1>0, <1>5, Claimed
    <2>3. amount' = amount /\ acc_usdc_per_share' = acc_usdc_per_share
      BY <1>5 DEF claim_staking_yield
    <2>4. pending_yield(amount[s], acc_usdc_per_share,
                        Gross(amount[s], acc_usdc_per_share)) = 0
      BY <1>t, NothingFresh
    <2>5. Owed(s)' = 0
      BY <2>1, <2>3, <2>4 DEF Owed, Fresh
    <2>6. \A t \in Stakers \ {s} : Owed(t)' = Owed(t)
      BY <2>2, <2>3 DEF Owed, Fresh
    <2> QED
      BY <1>0, <1>t, <2>1, <2>2, <2>5, <2>6 DEF KeepsEarned
  <1>6. CASE Tick \/ (\E c \in Cooldowns : set_stake_cooldown(c)) \/ UNCHANGED vars
    BY <1>6 DEF Tick, set_stake_cooldown, vars, KeepsEarned, Owed, Fresh
  <1> QED
    BY <1>1, <1>3, <1>4, <1>5, <1>6 DEF Next

\* Nothing but a funding changes what a staker has claimed or is owed.
THEOREM EarningsSafe == Spec => OnlyFundingEarns
  <1>1. IInv /\ [Next]_vars => KeepsEarned
    BY EarnedStep
  <1>2. IInv /\ [Next]_vars => [KeepsEarned]_vars
    BY <1>1
  <1> QED
    BY <1>2, Invariance, PTL DEF Spec, OnlyFundingEarns, KeepsEarned

-----------------------------------------------------------------------------
\* The ledgers.  What a position is worth in units of 1 / ACC_SCALE of USDC, before
\* any flooring of the yield it has not settled.
Worth == [s \in Stakers |-> ACC_SCALE * (pending_usdc[s] - reward_debt[s])
                            + amount[s] * acc_usdc_per_share]

\* The flooring of the snapshots gave away less than one unit a time.
WorthCovered == SumOver(Worth) <= ACC_SCALE * (yield_vault + resyncs)

\* The positions are finitely many, so they have a sum.
LEMMA FiniteStakers == IsFiniteSet(Stakers)
  BY StakeAssumption

\* The positions are backed by whatever instruction.
LEMMA BackedStep == TypeOK /\ StakesBacked /\ [Next]_vars => StakesBacked'
  <1> SUFFICES ASSUME TypeOK, StakesBacked, [Next]_vars PROVE StakesBacked'
    OBVIOUS
  <1>0. /\ amount \in [Stakers -> Int] /\ SumOver(amount) \in Int
        /\ stake_vault = SumOver(amount) /\ total_staked = SumOver(amount)
    BY FiniteStakers, SumOverInt DEF TypeOK, StakesBacked
  <1>1. ASSUME NEW s \in Stakers, NEW n \in Stakes, stake(s, n) PROVE StakesBacked'
    <2> DEFINE v == amount[s] + n
    <2>1. v \in Int /\ n \in Int /\ amount[s] \in Int
      BY <1>0, Amounts
    <2>2. amount' = [amount EXCEPT ![s] = v]
      BY <1>1 DEF stake, Settle
    <2>3. v - amount[s] = n
      BY <2>1
    <2> HIDE DEF v
    <2>4. SumOver(amount') = SumOver(amount) + (v - amount[s])
      BY <1>0, <2>1, <2>2, FiniteStakers, SumOverExcept
    <2> QED BY <1>0, <1>1, <2>1, <2>3, <2>4 DEF stake, StakesBacked
  <1>2. ASSUME NEW s \in Stakers, NEW n \in Stakes, unstake(s, n) PROVE StakesBacked'
    <2> DEFINE v == amount[s] - n
    <2>1. v \in Int /\ n \in Int /\ amount[s] \in Int
      BY <1>0, Amounts
    <2>2. amount' = [amount EXCEPT ![s] = v]
      BY <1>2 DEF unstake, Settle
    <2>3. v - amount[s] = 0 - n
      BY <2>1
    <2> HIDE DEF v
    <2>4. SumOver(amount') = SumOver(amount) + (v - amount[s])
      BY <1>0, <2>1, <2>2, FiniteStakers, SumOverExcept
    <2> QED BY <1>0, <1>2, <2>1, <2>3, <2>4 DEF unstake, StillStaked, StakesBacked
  <1>3. CASE UNCHANGED <<stake_vault, total_staked, amount>>
    BY <1>3 DEF StakesBacked
  <1> QED
    BY <1>1, <1>2, <1>3 DEF Next, vars, usdc, fund_staker_bucket, claim_staking_yield,
       set_stake_cooldown, Tick

\* The stake vault holds the positions, and the yield is divided by their sum.
THEOREM StakesAreBacked == Spec => []StakesBacked
  <1>1. Init => StakesBacked
    BY FiniteStakers, SumOverZero DEF Init, StakesBacked
  <1>2. IInv /\ StakesBacked /\ [Next]_vars => StakesBacked'
    BY BackedStep DEF IInv
  <1> QED
    BY <1>1, <1>2, Invariance, PTL DEF Spec

\* What is owed is worth no less.
LEMMA OwedWithinWorth ==
    ASSUME TypeOK, DebtBelowGross, NEW s \in Stakers
    PROVE  /\ Worth[s] \in Int /\ Owed(s) \in Nat
           /\ Owed(s) = pending_usdc[s] + (Gross(amount[s], acc_usdc_per_share) - reward_debt[s])
           /\ ACC_SCALE * Owed(s) <= Worth[s]
  <1> DEFINE a == amount[s]
             acc == acc_usdc_per_share
             g == Gross(a, acc)
             p == pending_usdc[s]
             d == reward_debt[s]
  <1>1. a \in Nat /\ acc \in Nat /\ p \in Nat /\ d \in Nat /\ g \in Nat /\ d <= g
    BY GrossNat DEF TypeOK, DebtBelowGross
  <1>2. a * acc \in Nat
    BY <1>1
  <1>3. ACC_SCALE * g <= a * acc
    BY <1>2, DivBounds, Amounts DEF Gross
  <1>4. Owed(s) = p + (g - d)
    BY <1>1 DEF Owed, Fresh, pending_yield
  <1>5. Worth[s] = ACC_SCALE * (p - d) + a * acc
    BY DEF Worth
  <1> HIDE DEF a, acc, g, p, d
  <1>6. p + (g - d) = (p - d) + g /\ p - d \in Int
    BY <1>1
  <1>7. ACC_SCALE * ((p - d) + g) = ACC_SCALE * (p - d) + ACC_SCALE * g
        /\ ACC_SCALE * (p - d) \in Int /\ ACC_SCALE * g \in Int
    BY <1>1, <1>6, Distributes, Amounts
  <1> QED
    BY <1>1, <1>2, <1>3, <1>4, <1>5, <1>6, <1>7 DEF a, acc, g, p, d

\* What a position is worth is a number.
LEMMA WorthType == TypeOK /\ DebtBelowGross => Worth \in [Stakers -> Int]
  BY OwedWithinWorth DEF Worth

\* A settled position is worth at most one unit more than before.
LEMMA SettledWorth ==
    ASSUME TypeOK, DebtBelowGross, NEW s \in Stakers, NEW new \in Nat, Settle(s, new),
           UNCHANGED acc_usdc_per_share
    PROVE  \E w \in Int : Worth' = [Worth EXCEPT ![s] = w] /\ w <= Worth[s] + ACC_SCALE
  <1> DEFINE acc == acc_usdc_per_share
             g == Gross(new, acc)
             o == Owed(s)
             w == ACC_SCALE * (o - g) + new * acc
  <1>1. acc \in Nat /\ new * acc \in Nat /\ g \in Nat
    <2>1. acc \in Nat
      BY DEF TypeOK
    <2>2. g \in Nat
      BY <2>1, GrossNat
    <2>3. new * acc \in Nat
      BY <2>1
    <2> QED BY <2>1, <2>2, <2>3
  <1>2. o \in Nat /\ Worth[s] \in Int /\ ACC_SCALE * o <= Worth[s]
    BY OwedWithinWorth
  <1>3. new * acc < ACC_SCALE * g + ACC_SCALE
    BY <1>1, DivBounds, Amounts DEF Gross
  <1>4. amount'[s] = new /\ reward_debt'[s] = g /\ pending_usdc'[s] = o /\ acc' = acc
        /\ \A t \in Stakers \ {s} :
              /\ amount'[t] = amount[t] /\ reward_debt'[t] = reward_debt[t]
              /\ pending_usdc'[t] = pending_usdc[t]
    BY Settled
  <1>5. Worth' = [Worth EXCEPT ![s] = w]
    BY <1>4 DEF Worth
  <1> HIDE DEF acc, g, o
  <1>6. ACC_SCALE * (o - g) = ACC_SCALE * o - ACC_SCALE * g
        /\ ACC_SCALE * o \in Int /\ ACC_SCALE * g \in Int
    BY <1>1, <1>2, Distributes, Amounts
  <1>7. w \in Int /\ w <= Worth[s] + ACC_SCALE
    BY <1>1, <1>2, <1>3, <1>6, Amounts
  <1> QED
    BY <1>5, <1>7

\* A stake or an unstake keeps the worth covered.
LEMMA ResyncCovered ==
    ASSUME TypeOK, DebtBelowGross, WorthCovered, NEW s \in Stakers, NEW new \in Nat,
           Settle(s, new), UNCHANGED <<acc_usdc_per_share, yield_vault>>, resyncs' = resyncs + 1
    PROVE  WorthCovered'
  <1>1. PICK w \in Int : Worth' = [Worth EXCEPT ![s] = w] /\ w <= Worth[s] + ACC_SCALE
    BY SettledWorth
  <1>2. Worth \in [Stakers -> Int] /\ SumOver(Worth) \in Int /\ Worth[s] \in Int
    BY WorthType, FiniteStakers, SumOverInt
  <1>3. SumOver(Worth') = SumOver(Worth) + (w - Worth[s])
    BY <1>1, <1>2, FiniteStakers, SumOverExcept
  <1> DEFINE b == yield_vault + resyncs
  <1>4. b \in Int /\ SumOver(Worth) <= ACC_SCALE * b /\ yield_vault' + resyncs' = b + 1
    BY DEF TypeOK, WorthCovered
  <1> HIDE DEF b
  <1>5. ACC_SCALE * (b + 1) = ACC_SCALE * b + ACC_SCALE * 1 /\ ACC_SCALE * b \in Int
    BY <1>4, Distributes, Amounts
  <1> QED
    BY <1>1, <1>2, <1>3, <1>4, <1>5, Amounts DEF WorthCovered

\* A funding adds no more worth than it brings.
LEMMA FundingCovered ==
    ASSUME TypeOK, DebtBelowGross, StakesBacked, WorthCovered, NEW n \in Fundings,
           fund_staker_bucket(n)
    PROVE  WorthCovered'
  <1> DEFINE k == AccStep(n)
             gain == [s \in Stakers |-> k * amount[s]]
             b == yield_vault + resyncs
  <1>1. /\ n \in Nat /\ total_staked \in Nat \ {0} /\ n * ACC_SCALE \in Nat
        /\ total_staked = SumOver(amount) /\ amount \in [Stakers -> Int]
    BY Amounts DEF fund_staker_bucket, TypeOK, StakesBacked
  <1>2. k \in Nat /\ total_staked * k <= n * ACC_SCALE
    BY <1>1, DivNat, DivBounds DEF AccStep
  <1>3. /\ acc_usdc_per_share' = acc_usdc_per_share + k /\ yield_vault' + resyncs' = b + n
        /\ UNCHANGED <<amount, reward_debt, pending_usdc>>
    BY <1>1 DEF fund_staker_bucket, TypeOK
  <1>4. acc_usdc_per_share \in Nat /\ b \in Int /\ SumOver(Worth) <= ACC_SCALE * b
    BY DEF TypeOK, WorthCovered
  <1> HIDE DEF k, b
  <1>5. ASSUME NEW s \in Stakers
        PROVE  /\ gain[s] \in Int
               /\ ACC_SCALE * (pending_usdc[s] - reward_debt[s])
                    + amount[s] * (acc_usdc_per_share + k) = Worth[s] + gain[s]
    <2>1. amount[s] \in Int /\ pending_usdc[s] - reward_debt[s] \in Int
      BY DEF TypeOK
    <2>2. /\ amount[s] * (acc_usdc_per_share + k)
                = amount[s] * acc_usdc_per_share + amount[s] * k
          /\ amount[s] * k = k * amount[s] /\ k * amount[s] \in Int
          /\ amount[s] * acc_usdc_per_share \in Int
          /\ ACC_SCALE * (pending_usdc[s] - reward_debt[s]) \in Int
      BY <1>2, <1>4, <2>1, Distributes, Amounts
    <2> QED
      BY <2>2 DEF Worth
  <1>6. gain \in [Stakers -> Int] /\ Worth \in [Stakers -> Int]
    BY <1>5, WorthType
  <1>7. SumOver(gain) = k * SumOver(amount)
    BY <1>1, <1>2, FiniteStakers, SumOverScaled
  <1>8. Worth' = [s \in Stakers |-> Worth[s] + gain[s]]
    <2> HIDE DEF gain
    <2> QED BY <1>3, <1>5 DEF Worth
  <1> HIDE DEF gain
  <1>9. SumOver(Worth') = SumOver(Worth) + SumOver(gain)
    BY <1>6, <1>8, FiniteStakers, SumOverTotal
  <1>10. k * total_staked = total_staked * k /\ k * total_staked \in Int
         /\ n * ACC_SCALE = ACC_SCALE * n
         /\ ACC_SCALE * (b + n) = ACC_SCALE * b + ACC_SCALE * n /\ ACC_SCALE * b \in Int
    BY <1>1, <1>2, <1>4, Distributes, Amounts
  <1>11. SumOver(Worth) \in Int
    BY <1>6, FiniteStakers, SumOverInt
  <1> QED
    BY <1>1, <1>2, <1>3, <1>4, <1>7, <1>9, <1>10, <1>11, Amounts DEF WorthCovered

\* A claim takes as much out of the vault as it takes off the position's worth.
LEMMA ClaimCovered ==
    ASSUME TypeOK, DebtBelowGross, WorthCovered, NEW s \in Stakers, claim_staking_yield(s)
    PROVE  WorthCovered'
  <1> DEFINE o == Owed(s)
             g == Gross(amount[s], acc_usdc_per_share)
             w == ACC_SCALE * (0 - g) + amount[s] * acc_usdc_per_share
             b == yield_vault + resyncs
  <1>1. /\ o \in Nat /\ Worth[s] \in Int /\ o = pending_usdc[s] + (g - reward_debt[s])
        /\ pending_usdc[s] \in Nat /\ reward_debt[s] \in Nat /\ g \in Nat
        /\ amount[s] * acc_usdc_per_share \in Int
    <2>1. /\ amount[s] \in Nat /\ acc_usdc_per_share \in Nat
          /\ pending_usdc[s] \in Nat /\ reward_debt[s] \in Nat
      BY DEF TypeOK
    <2>2. g \in Nat
      BY <2>1, GrossNat
    <2>3. amount[s] * acc_usdc_per_share \in Int
      BY <2>1
    <2> QED BY <2>1, <2>2, <2>3, OwedWithinWorth
  <1>2. Worth' = [Worth EXCEPT ![s] = w]
    BY Claimed DEF Worth, claim_staking_yield
  <1>3. /\ b \in Int /\ SumOver(Worth) <= ACC_SCALE * b
        /\ yield_vault' + resyncs' = b - o
    BY <1>1 DEF TypeOK, WorthCovered, claim_staking_yield
  <1>4. Worth[s] = ACC_SCALE * (pending_usdc[s] - reward_debt[s]) + amount[s] * acc_usdc_per_share
    BY DEF Worth
  <1> HIDE DEF g
  <1>5. /\ 0 - g = (pending_usdc[s] - reward_debt[s]) - o
        /\ pending_usdc[s] - reward_debt[s] \in Int
    BY <1>1
  <1> HIDE DEF o, b
  <1>6. /\ ACC_SCALE * ((pending_usdc[s] - reward_debt[s]) - o)
              = ACC_SCALE * (pending_usdc[s] - reward_debt[s]) - ACC_SCALE * o
        /\ ACC_SCALE * (b - o) = ACC_SCALE * b - ACC_SCALE * o
        /\ ACC_SCALE * (pending_usdc[s] - reward_debt[s]) \in Int
        /\ ACC_SCALE * o \in Int /\ ACC_SCALE * b \in Int
    <2>1. PICK x : x = pending_usdc[s] - reward_debt[s]
      OBVIOUS
    <2>2. ACC_SCALE \in Int /\ x \in Int /\ o \in Int /\ b \in Int
      BY <1>1, <1>3, <1>5, <2>1, Amounts
    <2>3. ACC_SCALE * (x - o) = ACC_SCALE * x - ACC_SCALE * o /\ ACC_SCALE * x \in Int
      BY <2>2, Distributes
    <2>4. ACC_SCALE * (b - o) = ACC_SCALE * b - ACC_SCALE * o /\ ACC_SCALE * b \in Int
      BY <2>2, Distributes
    <2>5. ACC_SCALE * o \in Int
      BY <2>2, Distributes
    <2> QED
      BY <2>1, <2>3, <2>4, <2>5
  <1>7. w \in Int /\ w - Worth[s] = 0 - ACC_SCALE * o
    BY <1>1, <1>4, <1>5, <1>6
  <1> HIDE DEF w
  <1>8. Worth \in [Stakers -> Int] /\ SumOver(Worth) \in Int
    BY WorthType, FiniteStakers, SumOverInt
  <1>9. SumOver(Worth') = SumOver(Worth) + (w - Worth[s])
    BY <1>2, <1>7, <1>8, FiniteStakers, SumOverExcept
  <1> QED
    BY <1>3, <1>6, <1>7, <1>8, <1>9 DEF WorthCovered

\* Every instruction keeps the worth of all positions covered.
LEMMA CoveredStep == IInv /\ StakesBacked /\ WorthCovered /\ [Next]_vars => WorthCovered'
  <1> SUFFICES ASSUME IInv, StakesBacked, WorthCovered, [Next]_vars PROVE WorthCovered'
    OBVIOUS
  <1>0. TypeOK /\ DebtBelowGross /\ \A s \in Stakers : amount[s] \in Nat
    BY DEF IInv, TypeOK
  <1>1. ASSUME NEW n \in Fundings, fund_staker_bucket(n) PROVE WorthCovered'
    BY <1>0, <1>1, FundingCovered
  <1>2. ASSUME NEW s \in Stakers, NEW n \in Stakes, stake(s, n) PROVE WorthCovered'
    <2>1. amount[s] + n \in Nat
      BY <1>0, Amounts
    <2> QED
      BY <1>0, <1>2, <2>1, ResyncCovered DEF stake, usdc
  <1>3. ASSUME NEW s \in Stakers, NEW n \in Stakes, unstake(s, n) PROVE WorthCovered'
    <2>1. n \in Nat /\ n <= amount[s] /\ amount[s] \in Nat
      BY <1>0, <1>3, Amounts DEF unstake
    <2>2. amount[s] - n \in Nat
      BY <2>1
    <2> QED
      BY <1>0, <1>3, <2>2, ResyncCovered DEF unstake, usdc
  <1>4. ASSUME NEW s \in Stakers, claim_staking_yield(s) PROVE WorthCovered'
    BY <1>0, <1>4, ClaimCovered
  <1>5. CASE Tick \/ (\E c \in Cooldowns : set_stake_cooldown(c)) \/ UNCHANGED vars
    BY <1>5 DEF Tick, set_stake_cooldown, vars, usdc, WorthCovered, Worth
  <1> QED
    BY <1>1, <1>2, <1>3, <1>4, <1>5 DEF Next

\* The vault falls short of the yield owed by less than a unit per stake or unstake.
THEOREM ShortfallIsBounded == Spec => []ShortfallBounded
  <1>1. ASSUME Init PROVE WorthCovered
    <2>1. Worth = [s \in Stakers |-> 0] /\ yield_vault + resyncs = 0
      BY <1>1, Amounts DEF Init, Worth
    <2>2. SumOver(Worth) = 0
      BY <2>1, FiniteStakers, SumOverZero
    <2>3. ACC_SCALE * 0 = 0
      BY Amounts
    <2> QED
      BY <2>1, <2>2, <2>3 DEF WorthCovered
  <1>2. ASSUME IInv, WorthCovered PROVE ShortfallBounded
    <2> DEFINE owed == [s \in Stakers |-> Owed(s)]
               scaled == [s \in Stakers |-> ACC_SCALE * owed[s]]
    <2>1. /\ owed \in [Stakers -> Int] /\ Worth \in [Stakers -> Int]
          /\ \A s \in Stakers : ACC_SCALE * owed[s] \in Int /\ ACC_SCALE * owed[s] <= Worth[s]
      BY <1>2, OwedWithinWorth, WorthType, Distributes, Amounts DEF IInv
    <2> HIDE DEF owed
    <2>2. SumOver(scaled) = ACC_SCALE * SumOver(owed)
      BY <2>1, FiniteStakers, SumOverScaled, Amounts
    <2>3. scaled \in [Stakers -> Int] /\ \A s \in Stakers : scaled[s] <= Worth[s]
      BY <2>1
    <2> HIDE DEF scaled
    <2>4. SumOver(scaled) <= SumOver(Worth)
      BY <2>1, <2>3, FiniteStakers, SumOverMonotone
    <2>5. SumOver(owed) \in Int /\ SumOver(scaled) \in Int /\ SumOver(Worth) \in Int
      BY <2>1, <2>3, FiniteStakers, SumOverInt
    <2>6. yield_vault + resyncs \in Int /\ SumOver(Worth) <= ACC_SCALE * (yield_vault + resyncs)
      BY <1>2 DEF IInv, TypeOK, WorthCovered
    <2>7. ACC_SCALE * SumOver(owed) <= ACC_SCALE * (yield_vault + resyncs)
      <3>1. ACC_SCALE * (yield_vault + resyncs) \in Int
        BY <2>6, Amounts
      <3> QED BY <2>2, <2>4, <2>5, <2>6, <3>1
    <2> QED
      BY <2>5, <2>6, <2>7, Cancels, Amounts DEF ShortfallBounded, OwedToAll, owed
  <1> QED
    BY <1>1, <1>2, CoveredStep, Invariance, StakesAreBacked, PTL DEF Spec
=============================================================================
