------------------------- MODULE ClankSupplyProofs -------------------------
(***************************************************************************)
(* Proofs, for any wallets, robots, jobs, schedules and policies, that the *)
(* ledgers of the $CLANK mint agree, that the published emission taper is  *)
(* a ceiling, and that the Pit Fund is spent no faster than one largest    *)
(* buyback per shortest interval.                                          *)
(***************************************************************************)
EXTENDS ClankSupply, SumLemmas

\* What the assumptions say of the amounts.
LEMMA Amounts ==
  /\ IsFiniteSet(People) /\ IsFiniteSet(Agents) /\ IsFiniteSet(Agents \X Jobs)
  /\ IsFiniteSet(Policies)
  /\ Genesis \in Nat /\ LastTick \in Nat /\ EMISSION_BUCKET \in Nat
  /\ Epoch0.cap \in Nat /\ Epoch0.reward \in Nat
  /\ Bonds \subseteq Nat /\ Values \subseteq Int
  /\ Intakes \subseteq Nat /\ Spendings \subseteq Nat /\ Fills \subseteq Nat
  /\ Ratios \subseteq Nat /\ Stakes \subseteq Nat
  BY ClankAssumption, EmissionsAssumption, PitAssumption, SupplyAssumption, FS_Product

\* The fields of a schedule.
LEMMA ScheduleFields ==
  ASSUME NEW s \in Schedules
  PROVE  /\ s.min_bond \in Nat /\ s.len \in Nat \ {0}
         /\ s.num \in Nat /\ s.den \in Nat \ {0} /\ s.num <= s.den
  BY EmissionsAssumption

\* The fields of a policy.
LEMMA PolicyFields ==
  ASSUME NEW p \in Policies
  PROVE  /\ p.keeper \in People /\ p.cheap \in Nat /\ p.rich \in Nat
         /\ p.max_per_call \in Nat /\ p.interval \in Nat /\ p.burn_bps \in Nat
  BY PitAssumption

-----------------------------------------------------------------------------
\* The arithmetic of the two programs.

\* No buyback burns more than it bought, whatever share the policy sets.
LEMMA BurnedWithinBought ==
  ASSUME NEW n \in Nat, NEW b \in Nat, b <= 10000
  PROVE  (n * b) \div 10000 \in Nat /\ (n * b) \div 10000 <= n
  <1>1. n * b <= n * 10000 /\ n * b \in Nat
    BY TimesGrows
  <1> DEFINE m == n * b
  <1>2. m \in Nat /\ m <= 10000 * n
    BY <1>1
  <1> HIDE DEF m
  <1>3. m \div 10000 \in Nat /\ m \div 10000 <= n
    BY <1>2
  <1> QED BY <1>3 DEF m

\* A decay by num/den <= 1 never increases what it decays.
LEMMA DecayShrinks ==
  ASSUME NEW n \in Nat, schedule \in Schedules
  PROVE  Decayed(n) \in Nat /\ Decayed(n) <= n
  <1> DEFINE d == schedule.den
             m == n * schedule.num
  <1>1. d \in Nat \ {0} /\ schedule.num \in Nat /\ schedule.num <= d
    BY ScheduleFields
  <1>2. m \in Nat /\ m <= n * d
    BY <1>1, TimesGrows
  <1>3. Decayed(n) = m \div d
    BY DEF Decayed
  <1> HIDE DEF d, m
  <1>4. m \div d \in Nat /\ d * (m \div d) <= m
    BY <1>1, <1>2, DivNat, DivBounds
  <1>5. n * d = d * n /\ d * n \in Int /\ d * (m \div d) \in Int
    BY <1>1, <1>4
  <1>6. d * (m \div d) <= d * n
    BY <1>2, <1>4, <1>5
  <1> QED
    BY <1>1, <1>3, <1>4, <1>6, Cancels

\* The bonus for the bond above the minimum is at most a quarter of the base.
LEMMA BonusBounded ==
  ASSUME NEW base \in Nat, NEW k \in Nat \ {0}, NEW excess \in Nat, excess <= k
  PROVE  /\ (base * excess * 2500) \div (k * 10000) \in Nat
         /\ 4 * ((base * excess * 2500) \div (k * 10000)) <= base
  <1> DEFINE x == base * excess
             d == k * 10000
             y == x * 2500
             q == y \div d
             t == k * q
  <1>1. x \in Nat /\ x <= base * k /\ base * k = k * base /\ k * base \in Nat
    BY TimesGrows
  <1> HIDE DEF x
  <1>2. y \in Nat /\ d \in Nat \ {0} /\ y = 2500 * x
    BY <1>1
  <1> HIDE DEF y
  <1>3. q \in Nat /\ d * q <= y
    BY <1>2, DivNat, DivBounds
  <1> HIDE DEF q
  <1>4. t \in Nat /\ d * q = 10000 * t /\ k * (4 * q) = 4 * t
    BY <1>3
  <1> HIDE DEF t, d
  <1>5. 4 * t <= k * base
    BY <1>1, <1>2, <1>3, <1>4
  <1>6. k * (4 * q) <= k * base
    BY <1>4, <1>5
  <1>7. 4 * q <= base
    BY <1>3, <1>6, Cancels
  <1> QED
    BY <1>3, <1>7 DEF q, y, x, d

\* A claim pays at most what is left of the epoch's cap, and at most 125% of the
\* epoch's reward.
LEMMA RewardBounded ==
  ASSUME NEW base \in Nat, NEW bond \in Nat, NEW mb \in Nat, NEW remaining \in Nat
  PROVE  LET r == emission_reward(base, bond, mb, remaining)
         IN  r \in Nat /\ r <= remaining /\ 4 * r <= 5 * base
  <1> DEFINE excess == Above(Least(bond, 4 * mb), mb)
             bonus  == IF mb = 0 THEN 0
                       ELSE (base * excess * StakeBonus) \div (3 * mb * BaseParts)
  <1>1. excess \in Nat /\ excess <= 3 * mb
    BY DEF Above, Least
  <1>2. emission_reward(base, bond, mb, remaining) = Least(base + bonus, remaining)
    BY DEF emission_reward
  <1> HIDE DEF excess
  <1>3. bonus \in Nat /\ 4 * bonus <= base
    <2>1. CASE mb = 0
      BY <2>1
    <2>2. CASE mb # 0
      <3>1. 3 * mb \in Nat \ {0}
        BY <2>2
      <3>2. bonus = (base * excess * 2500) \div (3 * mb * 10000)
        BY <2>2 DEF StakeBonus, BaseParts
      <3> QED
        BY <1>1, <3>1, <3>2, BonusBounded
    <2> QED BY <2>1, <2>2
  <1> HIDE DEF bonus
  <1> QED
    BY <1>2, <1>3 DEF Least

\* What a buyback is allowed never exceeds the policy's budget for one call.
LEMMA AllowanceBounded ==
  ASSUME NEW budget \in Nat, NEW pf \in Nat, NEW cheap \in Nat, NEW rich \in Nat
  PROVE  /\ buyback_allowance(budget, pf, cheap, rich) \in Nat
         /\ buyback_allowance(budget, pf, cheap, rich) <= budget
  <1>1. CASE rich <= cheap \/ pf >= rich \/ pf <= cheap
    BY <1>1 DEF buyback_allowance
  <1>2. CASE ~(rich <= cheap \/ pf >= rich \/ pf <= cheap)
    <2> DEFINE d == rich - cheap
               m == budget * (rich - pf)
    <2>1. d \in Nat \ {0} /\ rich - pf \in Nat /\ rich - pf <= d
      BY <1>2
    <2>2. m \in Nat /\ m <= budget * d
      BY <2>1, TimesGrows
    <2>3. buyback_allowance(budget, pf, cheap, rich) = m \div d
      BY <1>2 DEF buyback_allowance
    <2> HIDE DEF d, m
    <2>4. m \div d \in Nat /\ d * (m \div d) <= m
      BY <2>1, <2>2, DivNat, DivBounds
    <2>5. d * (m \div d) <= d * budget
      BY <2>1, <2>2, <2>4
    <2> QED
      BY <2>1, <2>3, <2>4, <2>5, Cancels
  <1> QED BY <1>1, <1>2

-----------------------------------------------------------------------------
(***************************************************************************)
(* The ledgers.  TypeOK alone is not inductive: that the supply stays a    *)
(* natural needs the ledgers (what is burned is in the supply) and that    *)
(* the fund's vault does needs the policy's burn share to be at most one.  *)
(***************************************************************************)
Kept == TypeOK /\ PolicyOk(pit.policy) /\ LedgersAgree

\* Everything the ledgers are made of.
Ledgers == <<clank, supply, cumulative, current_epoch, epochs, claims, bonded,
             pit.burned, pit_clank, vaulted, destroyed>>

\* The ledgers are functions of numbers over finite sets.
LEMMA LedgerTypes ==
  ASSUME TypeOK
  PROVE  /\ clank \in [People -> Nat] /\ supply \in Nat /\ clock \in Nat
         /\ bonded \in [Agents -> Nat] /\ claims \in [Agents \X Jobs -> Nat]
         /\ current_epoch \in Nat /\ cumulative \in Nat /\ schedule \in Schedules
         /\ epochs \in [0..current_epoch -> EpochAccounts]
         /\ Minted \in [0..current_epoch -> Nat]
         /\ IsFiniteSet(0..current_epoch) /\ current_epoch \in 0..current_epoch
         /\ pit.policy \in Policies /\ pit.burned \in Nat /\ pit.last \in Nat
         /\ pit_usdc \in Nat /\ pit_clank \in Nat
         /\ vaulted \in Nat /\ destroyed \in Nat
  <1>1. /\ TokenTypeOK /\ PitTypeOK /\ vaulted \in Nat /\ destroyed \in Nat
        /\ current_epoch \in Nat /\ epochs \in [0..current_epoch -> EpochAccounts]
    BY DEF TypeOK, EmissionsTypeOK
  <1>2. Minted \in [0..current_epoch -> Nat]
    BY <1>1 DEF Minted, EpochAccounts
  <1>3. IsFiniteSet(0..current_epoch) /\ current_epoch \in 0..current_epoch
    BY <1>1, FS_Interval
  <1> QED
    BY <1>1, <1>2, <1>3 DEF TypeOK, TokenTypeOK, EmissionsTypeOK, PitTypeOK

\* The totals are numbers.
LEMMA SumsAreNumbers ==
  ASSUME TypeOK
  PROVE  /\ SumOver(clank) \in Nat /\ SumOver(bonded) \in Nat
         /\ SumOver([q \in People |-> Genesis]) \in Nat
  <1>1. IsFiniteSet(People) /\ clank \in [People -> Nat]
    BY LedgerTypes, Amounts
  <1>2. IsFiniteSet(Agents) /\ bonded \in [Agents -> Nat]
    BY LedgerTypes, Amounts
  <1>3. [q \in People |-> Genesis] \in [People -> Nat]
    BY Amounts
  <1> QED
    BY <1>1, <1>2, <1>3, SumOverNat

\* A wallet holds no more than the supply, nor do the two vaults.
LEMMA SupplyCovers ==
  ASSUME Kept, NEW p \in People
  PROVE  clank[p] <= supply /\ vaulted <= supply
  <1>1. /\ clank \in [People -> Nat] /\ bonded \in [Agents -> Nat] /\ pit_clank \in Nat
        /\ vaulted \in Nat
    BY LedgerTypes DEF Kept
  <1>2. clank[p] <= SumOver(clank)
    BY <1>1, Amounts, SumOverMember
  <1>3. SumOver(clank) \in Nat /\ SumOver(bonded) \in Nat
    BY SumsAreNumbers DEF Kept
  <1>4. supply = SumOver(clank) + SumOver(bonded) + pit_clank + vaulted
    BY DEF Kept, LedgersAgree
  <1> QED
    BY <1>1, <1>2, <1>3, <1>4

\* Before the first instruction the invariant holds.
LEMMA InitKept == Init => Kept
  <1> SUFFICES ASSUME Init PROVE Kept
    OBVIOUS
  <1> USE DEF Init, TokenInit, EmissionsInit, PitInit
  <1>1. PICK g \in Governors, p \in Policies :
             /\ PolicyOk(p)
             /\ pit = [authority |-> g, policy |-> p, intake |-> 0, bought |-> 0,
                       burned |-> 0, last |-> 0]
    OBVIOUS
  <1>2. PitTypeOK
    BY <1>1 DEF PitTypeOK
  <1>3. clank \in [People -> Nat] /\ SumOver(clank) \in Nat
    BY Amounts, SumOverNat
  <1>4. TokenTypeOK
    BY <1>3 DEF TokenTypeOK
  <1>5. 0..current_epoch = {0}
    OBVIOUS
  <1>6. EmissionsTypeOK
    BY <1>5, Amounts DEF EmissionsTypeOK, EpochAccounts
  <1>7. Minted = [e \in {0} |-> 0]
    BY DEF Minted
  <1>8. SumOver(Minted) = 0 /\ SumOver(claims) = 0 /\ SumOver(bonded) = 0
    <2>1. IsFiniteSet({0})
      BY FS_Singleton
    <2> QED
      BY <1>7, <2>1, Amounts, SumOverZero
  <1>9. LedgersAgree
    BY <1>1, <1>3, <1>8 DEF LedgersAgree
  <1> QED
    BY <1>1, <1>2, <1>4, <1>6, <1>9 DEF Kept, TypeOK

\* A step that leaves the ledgers alone keeps them in agreement.
LEMMA QuietLedgers == LedgersAgree /\ UNCHANGED Ledgers => LedgersAgree'
  BY DEF LedgersAgree, Ledgers, Minted

\* A bond moves CLANK from the owner's wallet into the agent's bond vault.
LEMMA BondKept ==
  ASSUME Kept, NEW a \in Agents, NEW n \in Bonds, bond_operator(a, n), UNCHANGED <<pitVars, vaultVars>>
  PROVE  Kept'
  <1> DEFINE p == owner[a]
  <1>1. /\ clank \in [People -> Nat] /\ bonded \in [Agents -> Nat] /\ n \in Nat
    BY LedgerTypes, Amounts DEF Kept
  <1>2. p \in People
    BY DEF Kept, TypeOK, EmissionsTypeOK, bond_operator
  <1>3. /\ clank[p] - n \in Nat
        /\ clank' = [clank EXCEPT ![p] = clank[p] - n]
        /\ bonded' = [bonded EXCEPT ![a] = bonded[a] + n]
        /\ UNCHANGED <<repVars, attested, authority, tokenConfig, epochs, claims,
                       supply, clock>>
    BY <1>1, <1>2 DEF bond_operator, Debit
  <1> HIDE DEF p
  <1>4. clank' \in [People -> Nat] /\ bonded' \in [Agents -> Nat]
    BY <1>1, <1>2, <1>3
  <1>5. TypeOK' /\ PolicyOk(pit.policy)'
    <2>1. TokenTypeOK'
      BY <1>3, <1>4 DEF Kept, TypeOK, TokenTypeOK
    <2>2. EmissionsTypeOK'
      BY <1>3, <1>4 DEF Kept, TypeOK, EmissionsTypeOK, repVars, tokenConfig
    <2>3. PitTypeOK' /\ PolicyOk(pit.policy)'
      BY DEF Kept, TypeOK, PitTypeOK, PolicyOk, pitVars
    <2>4. vaulted' \in Nat /\ destroyed' \in Nat
      BY DEF Kept, TypeOK, vaultVars
    <2> QED BY <2>1, <2>2, <2>3, <2>4 DEF TypeOK
  <1>6. Taken(clank, clank', People, p, n)
    BY <1>1, <1>2, <1>3, Amounts DEF Taken
  <1>7. SumOver(clank') = SumOver(clank) - n
    BY <1>6, SumOverTaken
  <1>8. Moved(bonded, bonded', Agents, a, n)
    BY <1>1, <1>3, Amounts DEF Moved
  <1>9. SumOver(bonded') = SumOver(bonded) + n
    BY <1>8, SumOverMoved
  <1>10. SumOver(clank) \in Int /\ SumOver(bonded) \in Int
    BY SumsAreNumbers DEF Kept
  <1>11. SumOver(clank') + SumOver(bonded') = SumOver(clank) + SumOver(bonded)
    BY <1>1, <1>7, <1>9, <1>10
  <1>12. UNCHANGED <<supply, cumulative, epochs, claims, pit, pit_clank, vaulted, destroyed>>
    BY <1>3 DEF tokenConfig, pitVars, vaultVars
  <1>13. LedgersAgree'
    <2>1. SumOver(clank') + SumOver(bonded') + pit_clank + vaulted
            = SumOver(clank) + SumOver(bonded) + pit_clank + vaulted
      BY <1>11
    <2> QED BY <1>12, <2>1 DEF Kept, LedgersAgree, Minted
  <1> QED
    BY <1>5, <1>13 DEF Kept

\* A claim mints its reward to one wallet, and books it in the epoch, in the total
\* and in the claim's account, which was empty.
LEMMA ClaimKept ==
  ASSUME Kept, NEW k \in Keys, NEW a \in Agents, NEW j \in Jobs, NEW p \in People,
         accrue_emissions(k, a, j, p), UNCHANGED <<pitVars, vaultVars>>
  PROVE  Kept'
  <1> DEFINE r == Reward(a)
             c == <<a, j>>
             ep == epochs[current_epoch]
  <1>1. /\ clank \in [People -> Nat] /\ supply \in Nat /\ cumulative \in Nat
        /\ claims \in [Agents \X Jobs -> Nat]
        /\ epochs \in [0..current_epoch -> EpochAccounts]
        /\ Minted \in [0..current_epoch -> Nat] /\ bonded \in [Agents -> Nat]
        /\ IsFiniteSet(0..current_epoch) /\ current_epoch \in 0..current_epoch
    BY LedgerTypes DEF Kept
  <1>2. c \in Agents \X Jobs
    OBVIOUS
  <1>3. r \in Nat
    <2>1. ep.reward \in Nat /\ bonded[a] \in Nat /\ schedule.min_bond \in Nat
          /\ Above(ep.cap, ep.minted) \in Nat
      BY <1>1, LedgerTypes, ScheduleFields DEF Kept, EpochAccounts, Above
    <2> HIDE DEF ep
    <2>2. LET q == emission_reward(ep.reward, bonded[a], schedule.min_bond,
                                   Above(ep.cap, ep.minted))
          IN  q \in Nat
      BY <2>1, RewardBounded
    <2> QED BY <2>2 DEF Reward, ep
  <1>4. /\ clank' = [clank EXCEPT ![p] = clank[p] + r]
        /\ supply' = supply + r
        /\ epochs' = [epochs EXCEPT ![current_epoch] = [ep EXCEPT !.minted = ep.minted + r]]
        /\ cumulative' = cumulative + r
        /\ claims[c] = 0 /\ claims' = [claims EXCEPT ![c] = r]
        /\ UNCHANGED <<repVars, attested, authority, schedule, current_epoch, bonded, clock>>
    BY <1>1 DEF accrue_emissions, Credit, Unclaimed
  <1> HIDE DEF r, c
  <1>5. /\ clank' \in [People -> Nat] /\ supply' \in Nat /\ cumulative' \in Nat
        /\ claims' \in [Agents \X Jobs -> Nat]
    BY <1>1, <1>2, <1>3, <1>4
  <1>6. epochs' \in [0..current_epoch -> EpochAccounts]
    <2>1. ep \in EpochAccounts
      BY <1>1
    <2> HIDE DEF ep
    <2>2. [ep EXCEPT !.minted = ep.minted + r] \in EpochAccounts
      BY <1>3, <2>1 DEF EpochAccounts
    <2> QED BY <1>1, <1>4, <2>2
  <1>7. TypeOK' /\ PolicyOk(pit.policy)'
    <2>1. TokenTypeOK'
      BY <1>4, <1>5 DEF Kept, TypeOK, TokenTypeOK
    <2>2. EmissionsTypeOK'
      BY <1>4, <1>5, <1>6 DEF Kept, TypeOK, EmissionsTypeOK, repVars
    <2>3. PitTypeOK' /\ PolicyOk(pit.policy)'
      BY DEF Kept, TypeOK, PitTypeOK, PolicyOk, pitVars
    <2>4. vaulted' \in Nat /\ destroyed' \in Nat
      BY DEF Kept, TypeOK, vaultVars
    <2> QED BY <2>1, <2>2, <2>3, <2>4 DEF TypeOK
  <1>8. Moved(clank, clank', People, p, r)
    BY <1>1, <1>3, <1>4, Amounts DEF Moved
  <1>9. SumOver(clank') = SumOver(clank) + r
    BY <1>8, SumOverMoved
  <1>10. Moved(claims, claims', Agents \X Jobs, c, r)
    <2>1. claims[c] + r = r
      BY <1>3, <1>4
    <2>2. claims \in [Agents \X Jobs -> Int] /\ r \in Int
      BY <1>1, <1>3
    <2> QED BY <1>2, <1>4, <2>1, <2>2, Amounts DEF Moved
  <1>11. SumOver(claims') = SumOver(claims) + r
    BY <1>10, SumOverMoved
  <1>12. Moved(Minted, Minted', 0..current_epoch, current_epoch, r)
    <2>1. Minted \in [0..current_epoch -> Int]
      BY <1>1, <1>3
    <2>2. DOMAIN epochs = 0..current_epoch /\ DOMAIN epochs' = 0..current_epoch
      BY <1>1, <1>4
    <2>3. \A e \in 0..current_epoch :
             epochs'[e].minted = IF e = current_epoch THEN epochs[e].minted + r
                                 ELSE epochs[e].minted
      BY <1>1, <1>4 DEF EpochAccounts
    <2>4. Minted' = [e \in 0..current_epoch |-> epochs'[e].minted]
          /\ Minted = [e \in 0..current_epoch |-> epochs[e].minted]
      BY <2>2 DEF Minted
    <2>5. PICK D : D = 0..current_epoch
      OBVIOUS
    <2>6. Minted' = [Minted EXCEPT ![current_epoch] = Minted[current_epoch] + r]
      <3>1. \A e \in D : epochs'[e].minted = [Minted EXCEPT ![current_epoch] =
                                                Minted[current_epoch] + r][e]
        BY <1>1, <2>3, <2>4, <2>5
      <3> QED BY <2>4, <2>5, <3>1
    <2> QED
      BY <1>1, <1>3, <2>1, <2>6 DEF Moved
  <1>13. SumOver(Minted') = SumOver(Minted) + r
    BY <1>12, SumOverMoved
  <1>14. SumOver(clank) \in Int /\ SumOver(claims) \in Int /\ SumOver(Minted) \in Int
    BY <1>8, <1>10, <1>12, MovedFromInt
  <1>15. SumOver(bonded) \in Int /\ SumOver([q \in People |-> Genesis]) \in Int
    BY SumsAreNumbers DEF Kept
  <1>16. pit.burned \in Int /\ pit_clank \in Int /\ vaulted \in Int /\ destroyed \in Int
    BY LedgerTypes DEF Kept
  <1>17. /\ UNCHANGED <<bonded, pit, pit_clank, vaulted, destroyed>>
         /\ supply' = supply + r /\ cumulative' = cumulative + r
    BY <1>4 DEF pitVars, vaultVars
  <1>18. LedgersAgree'
    <2>1. cumulative' = SumOver(claims') /\ cumulative' = SumOver(Minted')
      BY <1>4, <1>11, <1>13 DEF Kept, LedgersAgree
    <2>2. supply' + pit.burned' + destroyed'
            = SumOver([q \in People |-> Genesis]) + cumulative'
      <3>1. supply + pit.burned + destroyed = SumOver([q \in People |-> Genesis]) + cumulative
        BY DEF Kept, LedgersAgree
      <3>2. PICK G : G = SumOver([q \in People |-> Genesis])
        OBVIOUS
      <3>3. supply' + pit.burned' + destroyed' = G + cumulative'
        <4>1. /\ supply \in Int /\ cumulative \in Int /\ r \in Int /\ G \in Int
              /\ pit.burned \in Int /\ destroyed \in Int
          BY <1>1, <1>3, <1>15, <1>16, <3>2
        <4>2. supply' = supply + r /\ cumulative' = cumulative + r /\ pit' = pit
              /\ destroyed' = destroyed
          BY <1>17
        <4>3. supply + pit.burned + destroyed = G + cumulative
          BY <3>1, <3>2
        <4> QED BY <4>1, <4>2, <4>3
      <3> QED BY <3>2, <3>3
    <2>3. supply' = SumOver(clank') + SumOver(bonded') + pit_clank' + vaulted'
      <3>1. supply = SumOver(clank) + SumOver(bonded) + pit_clank + vaulted
        BY DEF Kept, LedgersAgree
      <3>2. PICK W : W = SumOver(clank)
        OBVIOUS
      <3>3. PICK B : B = SumOver(bonded)
        OBVIOUS
      <3>4. W \in Int /\ B \in Int /\ r \in Int /\ pit_clank \in Int /\ vaulted \in Int
        BY <1>3, <1>14, <1>15, <1>16, <3>2, <3>3
      <3>5. supply + r = (W + r) + B + pit_clank + vaulted
        BY <3>1, <3>2, <3>3, <3>4
      <3>6. SumOver(clank') = W + r /\ SumOver(bonded') = B
        BY <1>9, <1>17, <3>2, <3>3
      <3>7. supply' = supply + r /\ pit_clank' = pit_clank /\ vaulted' = vaulted
        BY <1>17
      <3> QED BY <3>5, <3>6, <3>7
    <2> QED BY <2>1, <2>2, <2>3 DEF LedgersAgree
  <1> QED
    BY <1>7, <1>18 DEF Kept

\* A new epoch opens with nothing minted.
LEMMA RollKept ==
  ASSUME Kept, roll_epoch, UNCHANGED <<pitVars, vaultVars>>
  PROVE  Kept'
  <1> DEFINE cur  == epochs[current_epoch]
             next == [cap |-> Decayed(cur.cap), minted |-> 0,
                      reward |-> Decayed(cur.reward), start |-> clock]
             N    == current_epoch + 1
  <1>1. /\ epochs \in [0..current_epoch -> EpochAccounts] /\ current_epoch \in Nat
        /\ Minted \in [0..current_epoch -> Nat] /\ schedule \in Schedules /\ clock \in Nat
        /\ IsFiniteSet(0..current_epoch) /\ current_epoch \in 0..current_epoch
    BY LedgerTypes DEF Kept
  <1>2. next \in EpochAccounts
    <2>1. cur.cap \in Nat /\ cur.reward \in Nat
      BY <1>1 DEF EpochAccounts
    <2>2. Decayed(cur.cap) \in Nat /\ Decayed(cur.reward) \in Nat
      BY <1>1, <2>1, DecayShrinks
    <2> QED BY <1>1, <2>2 DEF EpochAccounts
  <1>3. /\ 0..N = (0..current_epoch) \union {N} /\ N \notin 0..current_epoch /\ N \in Nat
    BY <1>1
  <1>4. /\ current_epoch' = N
        /\ epochs' = [e \in (0..current_epoch) \union {N} |->
                         IF e \in 0..current_epoch THEN epochs[e] ELSE next]
        /\ UNCHANGED <<repVars, attested, authority, schedule, cumulative, bonded, claims,
                       tokenVars>>
    BY <1>1 DEF roll_epoch, NextEpoch
  <1> HIDE DEF next, N
  <1>5. epochs' \in [0..current_epoch' -> EpochAccounts] /\ current_epoch' \in Nat
    BY <1>1, <1>2, <1>3, <1>4
  <1>6. TypeOK' /\ PolicyOk(pit.policy)'
    <2>1. TokenTypeOK'
      BY <1>4 DEF Kept, TypeOK, TokenTypeOK, tokenVars
    <2>2. EmissionsTypeOK'
      BY <1>4, <1>5 DEF Kept, TypeOK, EmissionsTypeOK, repVars
    <2>3. PitTypeOK' /\ PolicyOk(pit.policy)'
      BY DEF Kept, TypeOK, PitTypeOK, PolicyOk, pitVars
    <2>4. vaulted' \in Nat /\ destroyed' \in Nat
      BY DEF Kept, TypeOK, vaultVars
    <2> QED BY <2>1, <2>2, <2>3, <2>4 DEF TypeOK
  <1>7. /\ Minted' \in [(0..current_epoch) \union {N} -> Int] /\ Minted'[N] = 0
        /\ \A e \in 0..current_epoch : Minted'[e] = Minted[e]
    <2>1. DOMAIN epochs' = (0..current_epoch) \union {N} /\ DOMAIN epochs = 0..current_epoch
      BY <1>1, <1>4
    <2>2. \A e \in (0..current_epoch) \union {N} :
             epochs'[e].minted = IF e \in 0..current_epoch THEN epochs[e].minted ELSE 0
      BY <1>1, <1>4 DEF next
    <2>3. \A e \in 0..current_epoch : Minted[e] = epochs[e].minted /\ Minted[e] \in Int
      BY <1>1, <2>1 DEF Minted
    <2>4. Minted' = [e \in (0..current_epoch) \union {N} |->
                        IF e \in 0..current_epoch THEN epochs[e].minted ELSE 0]
      BY <2>1, <2>2 DEF Minted
    <2> QED
      BY <1>3, <2>3, <2>4
  <1>8. /\ Minted \in [0..current_epoch -> Int] /\ IsFiniteSet(0..current_epoch)
        /\ N \notin 0..current_epoch
    BY <1>1, <1>3
  <1>9. PICK g : g = Minted'
    OBVIOUS
  <1>10. SumOver(Minted') = SumOver(Minted)
    <2>1. /\ g \in [(0..current_epoch) \union {N} -> Int] /\ g[N] = 0
          /\ \A e \in 0..current_epoch : g[e] = Minted[e]
      BY <1>7, <1>9
    <2>2. PICK D : D = 0..current_epoch
      OBVIOUS
    <2>3. /\ IsFiniteSet(D) /\ N \notin D /\ Minted \in [D -> Int]
          /\ g \in [D \union {N} -> Int] /\ \A e \in D : g[e] = Minted[e]
      BY <1>8, <2>1, <2>2
    <2>4. SumOver(g) = SumOver(Minted) + g[N]
      BY <2>3, SumOverGrown
    <2>5. SumOver(Minted) \in Int
      BY <2>3, SumOverInt
    <2> QED BY <1>9, <2>1, <2>4, <2>5
  <1>11. /\ UNCHANGED <<clank, supply, cumulative, claims, bonded, pit, pit_clank>>
         /\ UNCHANGED <<vaulted, destroyed>>
    BY <1>4 DEF tokenVars, pitVars, vaultVars
  <1>12. LedgersAgree'
    BY <1>10, <1>11 DEF Kept, LedgersAgree
  <1> QED
    BY <1>6, <1>12 DEF Kept

\* The members of a sequence over S are in S.
LEMMA MemberOfSeq ==
  ASSUME NEW S, NEW s \in Seq(S), NEW i \in 1..Len(s)
  PROVE  s[i] \in S
  OBVIOUS

\* A buyback is recorded at its time, with what was paid before it and by it.
LEMMA BuybackRecorded ==
  ASSUME Kept, NEW k \in People, NEW u \in Spendings, NEW c \in Fills, NEW pf \in Ratios,
         NEW m \in Prices, execute_buyback(k, u, c, pf, m)
  PROVE  /\ buybacks' \in Seq([at : Nat, total : Nat])
         /\ buybacks' = Append(buybacks, [at |-> clock, total |-> Spent + u])
         /\ Spent \in Nat
  <1>1. buybacks \in Seq([at : Nat, total : Nat]) /\ clock \in Nat /\ u \in Nat
    BY Amounts DEF Kept, TypeOK, PitTypeOK, TokenTypeOK
  <1>2. Spent \in Nat
    <2>1. CASE buybacks = <<>>
      BY <2>1 DEF Spent
    <2>2. CASE buybacks # <<>>
      <3>1. buybacks[Len(buybacks)] \in [at : Nat, total : Nat]
        <4>1. Len(buybacks) \in 1..Len(buybacks)
          BY <1>1, <2>2
        <4> QED BY <1>1, <4>1, MemberOfSeq
      <3>2. buybacks[Len(buybacks)].total \in Nat
        BY <3>1
      <3> QED BY <2>2, <3>2 DEF Spent
    <2> QED BY <2>1, <2>2
  <1>3. [at |-> clock, total |-> Spent + u] \in [at : Nat, total : Nat]
    BY <1>1, <1>2
  <1>4. buybacks' = Append(buybacks, [at |-> clock, total |-> Spent + u])
    BY DEF execute_buyback
  <1> QED
    BY <1>1, <1>2, <1>3, <1>4

\* A buyback moves the keeper's CLANK into the fund and burns its share of it.
LEMMA BuybackKept ==
  ASSUME Kept, NEW k \in People, NEW u \in Spendings, NEW c \in Fills, NEW pf \in Ratios,
         NEW m \in Prices, execute_buyback(k, u, c, pf, m), UNCHANGED <<emissionVars, vaultVars>>
  PROVE  Kept'
  <1> DEFINE b == Burned(c)
  <1>1. /\ clank \in [People -> Nat] /\ supply \in Nat /\ c \in Nat /\ u \in Nat
        /\ pit.policy \in Policies /\ pit.burned \in Nat
        /\ pit_usdc \in Nat /\ pit_clank \in Nat /\ clock \in Nat
        /\ vaulted \in Nat /\ destroyed \in Nat
    BY LedgerTypes, Amounts DEF Kept
  <1>2. b \in Nat /\ b <= c
    BY <1>1, PolicyFields, BurnedWithinBought DEF Kept, PolicyOk, Burned
  <1>3. /\ clank[k] >= c /\ u <= pit_usdc
        /\ clank' = [clank EXCEPT ![k] = clank[k] - c]
        /\ pit_usdc' = pit_usdc - u
        /\ pit_clank' = pit_clank + c - b
        /\ supply' = supply - b
        /\ pit' = [pit EXCEPT !.bought = pit.bought + c, !.burned = pit.burned + b,
                              !.last = clock]
        /\ UNCHANGED <<clock, emissionVars, vaulted, destroyed>>
    BY DEF execute_buyback, Debit, PitTypeOK, vaultVars
  <1> HIDE DEF b
  <1>4. clank[k] <= supply
    BY SupplyCovers
  <1>5. /\ clank' \in [People -> Nat] /\ supply' \in Nat
        /\ pit_usdc' \in Nat /\ pit_clank' \in Nat
    BY <1>1, <1>2, <1>3, <1>4
  <1>6. /\ PitTypeOK'
        /\ pit'.policy = pit.policy /\ pit'.burned = pit.burned + b
    <2>1. pit \in [authority : Governors, policy : Policies, intake : Nat, bought : Nat,
                  burned : Nat, last : Nat]
      BY DEF Kept, TypeOK, PitTypeOK
    <2>2. pit.bought + c \in Nat /\ pit.burned + b \in Nat
      BY <1>1, <1>2, <2>1
    <2>3. pit' \in [authority : Governors, policy : Policies, intake : Nat, bought : Nat,
                   burned : Nat, last : Nat]
          /\ pit'.policy = pit.policy /\ pit'.burned = pit.burned + b
      BY <1>1, <1>3, <2>1, <2>2
    <2>4. buybacks' \in Seq([at : Nat, total : Nat])
      BY BuybackRecorded
    <2> QED BY <1>5, <2>3, <2>4 DEF PitTypeOK
  <1>7. TypeOK' /\ PolicyOk(pit.policy)'
    <2>1. TokenTypeOK'
      BY <1>1, <1>3, <1>5 DEF TokenTypeOK
    <2>2. EmissionsTypeOK'
      BY <1>3 DEF Kept, TypeOK, EmissionsTypeOK, emissionVars, repVars, tokenConfig
    <2>3. PolicyOk(pit.policy)'
      BY <1>6 DEF Kept, PolicyOk
    <2> QED BY <1>1, <1>3, <1>6, <2>1, <2>2, <2>3 DEF TypeOK
  <1>8. Taken(clank, clank', People, k, c)
    BY <1>1, <1>3, Amounts DEF Taken
  <1>9. SumOver(clank') = SumOver(clank) - c
    BY <1>8, SumOverTaken
  <1>10. /\ SumOver(clank) \in Int /\ SumOver(bonded) \in Int /\ cumulative \in Int
         /\ SumOver([q \in People |-> Genesis]) \in Int
    BY LedgerTypes, SumsAreNumbers DEF Kept
  <1>12. UNCHANGED <<cumulative, epochs, claims, bonded>>
    BY <1>3 DEF emissionVars, tokenConfig
  <1>13. LedgersAgree'
    BY <1>1, <1>2, <1>3, <1>6, <1>9, <1>10, <1>12 DEF Kept, LedgersAgree, Minted
  <1> QED
    BY <1>7, <1>13 DEF Kept

\* The instructions of the emissions that move no CLANK.
LEMMA BookkeepingKept ==
  ASSUME Kept, UNCHANGED <<pitVars, vaultVars>>,
         \/ \E a \in Agents, p \in People : register_agent(a, p)
         \/ \E a \in Agents, p \in People, v \in Values : give_feedback(a, p, v)
         \/ \E k \in Keys, j \in Jobs, v \in {"verified", "rejected"} : write_attestation(k, j, v)
         \/ \E k, k2 \in Keys : set_forwarder(k, k2) \/ set_token_authority(k, k2)
         \/ \E k \in Keys, s \in Schedules : set_emission_params(k, s)
  PROVE  Kept'
  <1>1. UNCHANGED <<tokenVars, current_epoch, cumulative, epochs, bonded, claims>>
    BY DEF register_agent, give_feedback, write_attestation, set_forwarder,
       set_token_authority, Handover, set_emission_params, repVars, tokenConfig
  <1>2. LedgersAgree'
    BY <1>1, QuietLedgers DEF Kept, Ledgers, tokenVars, pitVars, vaultVars
  <1>3. /\ TokenTypeOK' /\ PitTypeOK' /\ PolicyOk(pit.policy)'
        /\ vaulted' \in Nat /\ destroyed' \in Nat
    BY <1>1 DEF Kept, TypeOK, TokenTypeOK, PitTypeOK, PolicyOk, tokenVars, pitVars, vaultVars
  <1> DEFINE Typed == /\ reputation \in [Agents -> [count : Nat, sum : Int]]
                      /\ feedback \subseteq Agents \X People
                      /\ owner \in [Agents -> People \union {NoOwner}]
                      /\ attested \in [Jobs -> {"none", "verified", "rejected"}]
                      /\ authority \in [Roles -> Keys] /\ schedule \in Schedules
  <1>4. Typed'
    <2> USE DEF Kept, TypeOK, EmissionsTypeOK, repVars, tokenConfig
    <2>1. CASE \E a \in Agents, p \in People : register_agent(a, p)
      BY <2>1 DEF register_agent
    <2>2. ASSUME NEW a \in Agents, NEW p \in People, NEW v \in Values, give_feedback(a, p, v)
          PROVE  Typed'
      <3>1. v \in Int
        BY Amounts
      <3>2. reputation[a].count + 1 \in Nat /\ reputation[a].sum + v \in Int
        BY <3>1
      <3>3. /\ reputation' = [reputation EXCEPT ![a] = [count |-> reputation[a].count + 1,
                                                        sum |-> reputation[a].sum + v]]
            /\ feedback' = feedback \union {<<a, p>>}
            /\ UNCHANGED <<owner, attested, authority, schedule>>
        BY <2>2 DEF give_feedback
      <3> QED BY <3>2, <3>3
    <2>3. CASE \E k \in Keys, j \in Jobs, v \in {"verified", "rejected"} :
                  write_attestation(k, j, v)
      BY <2>3 DEF write_attestation
    <2>4. CASE \E k, k2 \in Keys : set_forwarder(k, k2) \/ set_token_authority(k, k2)
      BY <2>4 DEF set_forwarder, set_token_authority, Handover
    <2>5. CASE \E k \in Keys, s \in Schedules : set_emission_params(k, s)
      BY <2>5 DEF set_emission_params
    <2> QED BY <2>1, <2>2, <2>3, <2>4, <2>5
  <1>5. EmissionsTypeOK'
    BY <1>1, <1>4 DEF Kept, TypeOK, EmissionsTypeOK
  <1> QED
    BY <1>2, <1>3, <1>5 DEF Kept, TypeOK

\* Topping the fund up and retuning it move no CLANK, nor does time.
LEMMA FundKept ==
  ASSUME Kept, UNCHANGED <<emissionVars, vaultVars>>,
         \/ \E n \in Intakes : fund_pit_fund(n)
         \/ \E g \in Governors, p \in Policies : set_buyback_params(g, p)
         \/ Tick /\ UNCHANGED pitVars
  PROVE  Kept'
  <1>1. EmissionsTypeOK' /\ vaulted' \in Nat /\ destroyed' \in Nat
    BY DEF Kept, TypeOK, EmissionsTypeOK, emissionVars, repVars, tokenConfig, vaultVars
  <1> DEFINE Quiet ==
               /\ UNCHANGED <<clank, supply, pit_clank>> /\ pit'.burned = pit.burned
               /\ clock' \in Nat /\ pit_usdc' \in Nat /\ buybacks' = buybacks
               /\ pit' \in [authority : Governors, policy : Policies, intake : Nat,
                            bought : Nat, burned : Nat, last : Nat]
               /\ PolicyOk(pit.policy)'
  <1>2. Quiet
    <2>0. /\ pit \in [authority : Governors, policy : Policies, intake : Nat, bought : Nat,
                      burned : Nat, last : Nat]
          /\ PolicyOk(pit.policy) /\ clock \in Nat /\ pit_usdc \in Nat
      BY LedgerTypes DEF Kept, TypeOK, PitTypeOK
    <2>1. ASSUME NEW n \in Intakes, fund_pit_fund(n) PROVE Quiet
      <3>1. n \in Nat
        BY Amounts
      <3> QED BY <2>0, <2>1, <3>1 DEF fund_pit_fund, tokenVars, PolicyOk
    <2>2. ASSUME NEW g \in Governors, NEW p \in Policies, set_buyback_params(g, p) PROVE Quiet
      BY <2>0, <2>2 DEF set_buyback_params, tokenVars
    <2>3. CASE Tick /\ UNCHANGED pitVars
      BY <2>0, <2>3 DEF Tick, pitVars, PolicyOk
    <2> QED BY <2>1, <2>2, <2>3
  <1>3. TokenTypeOK' /\ PitTypeOK'
    BY <1>2 DEF Kept, TypeOK, TokenTypeOK, PitTypeOK
  <1>4. LedgersAgree'
    BY <1>2, QuietLedgers DEF Kept, Ledgers, emissionVars, tokenConfig, vaultVars
  <1> QED
    BY <1>1, <1>2, <1>3, <1>4 DEF Kept, TypeOK

\* Staking and disputes move CLANK between a wallet and the two vaults, and what a
\* dispute burns is taken from the vaults and from the supply alike.
LEMMA VaultKept ==
  ASSUME Kept, UNCHANGED <<emissionVars, pitVars>>, NEW p \in People,
         \/ \E n \in Stakes : lock(p, n) \/ unlock(p, n)
         \/ \E burn, back \in Stakes \union {0} : resolve_dispute(p, burn, back)
  PROVE  Kept'
  <1>1. /\ clank \in [People -> Nat] /\ supply \in Nat /\ clock \in Nat
        /\ vaulted \in Nat /\ destroyed \in Nat /\ cumulative \in Nat
        /\ pit_clank \in Nat /\ pit.burned \in Nat
    BY LedgerTypes DEF Kept
  <1>2. vaulted <= supply
    BY SupplyCovers
  <1>3. PICK v \in Nat, d \in Int, burn \in Nat :
             /\ clank' = [clank EXCEPT ![p] = v] /\ v = clank[p] + d
             /\ vaulted' = vaulted - d - burn /\ vaulted' \in Nat
             /\ supply' = supply - burn /\ burn <= supply
             /\ destroyed' = destroyed + burn /\ clock' = clock
    <2> DEFINE Moves(v, d, burn) ==
                  /\ clank' = [clank EXCEPT ![p] = v] /\ v = clank[p] + d
                  /\ vaulted' = vaulted - d - burn /\ vaulted' \in Nat
                  /\ supply' = supply - burn /\ burn <= supply
                  /\ destroyed' = destroyed + burn /\ clock' = clock
    <2>0. clank[p] \in Nat
      BY <1>1
    <2>1. ASSUME NEW n \in Stakes, lock(p, n)
          PROVE  -n \in Int /\ clank[p] - n \in Nat /\ Moves(clank[p] - n, -n, 0)
      <3>1. n \in Nat /\ clank[p] >= n /\ clank' = [clank EXCEPT ![p] = clank[p] - n]
        BY <2>1, Amounts DEF lock, Debit
      <3>2. /\ vaulted' = vaulted - (-n) - 0 /\ vaulted' \in Nat
            /\ supply' = supply - 0 /\ 0 <= supply
            /\ destroyed' = destroyed + 0 /\ clock' = clock
        BY <1>1, <2>1, <3>1 DEF lock
      <3>3. -n \in Int /\ clank[p] - n \in Nat /\ clank[p] - n = clank[p] + (-n)
        BY <2>0, <3>1
      <3> QED BY <3>1, <3>2, <3>3
    <2>2. ASSUME NEW n \in Stakes, unlock(p, n)
          PROVE  n \in Int /\ clank[p] + n \in Nat /\ Moves(clank[p] + n, n, 0)
      <3>1. n \in Nat /\ n <= vaulted /\ clank' = [clank EXCEPT ![p] = clank[p] + n]
        BY <2>2, Amounts DEF unlock, Credit
      <3>2. /\ vaulted' = vaulted - n - 0 /\ vaulted' \in Nat
            /\ supply' = supply - 0 /\ 0 <= supply
            /\ destroyed' = destroyed + 0 /\ clock' = clock
        BY <1>1, <2>2, <3>1 DEF unlock
      <3> QED BY <2>0, <3>1, <3>2
    <2>3. ASSUME NEW burn \in Stakes \union {0}, NEW back \in Stakes \union {0},
                 resolve_dispute(p, burn, back)
          PROVE  /\ back \in Int /\ burn \in Nat /\ clank[p] + back \in Nat
                 /\ Moves(clank[p] + back, back, burn)
      <3>1. /\ burn \in Nat /\ back \in Nat /\ burn + back <= vaulted
            /\ clank' = [clank EXCEPT ![p] = clank[p] + back]
        BY <2>3, Amounts DEF resolve_dispute, Credit
      <3>2. /\ vaulted' = vaulted - back - burn /\ vaulted' \in Nat
            /\ supply' = supply - burn /\ burn <= supply
            /\ destroyed' = destroyed + burn /\ clock' = clock
        BY <1>1, <1>2, <2>3, <3>1 DEF resolve_dispute
      <3> QED BY <2>0, <3>1, <3>2
    <2>4. 0 \in Nat
      OBVIOUS
    <2> HIDE DEF Moves
    <2>5. \E v \in Nat, d \in Int, burn \in Nat : Moves(v, d, burn)
      BY <2>1, <2>2, <2>3, <2>4
    <2> QED BY <2>5 DEF Moves
  <1>4. clank' = [clank EXCEPT ![p] = clank[p] + d] /\ clank[p] + d \in Nat
    BY <1>3
  <1>5. Moved(clank, clank', People, p, d)
    BY <1>1, <1>4, Amounts DEF Moved
  <1>6. SumOver(clank') = SumOver(clank) + d
    BY <1>5, SumOverMoved
  <1>7. clank' \in [People -> Nat] /\ supply' \in Nat /\ destroyed' \in Nat
    BY <1>1, <1>3, <1>4
  <1>8. TypeOK' /\ PolicyOk(pit.policy)'
    <2>1. TokenTypeOK'
      BY <1>1, <1>3, <1>7 DEF TokenTypeOK
    <2>2. EmissionsTypeOK'
      BY DEF Kept, TypeOK, EmissionsTypeOK, emissionVars, repVars, tokenConfig
    <2>3. PitTypeOK' /\ PolicyOk(pit.policy)'
      BY DEF Kept, TypeOK, PitTypeOK, PolicyOk, pitVars
    <2> QED BY <1>3, <1>7, <2>1, <2>2, <2>3 DEF TypeOK
  <1>9. /\ SumOver(clank) \in Int /\ SumOver(bonded) \in Int
        /\ SumOver([q \in People |-> Genesis]) \in Int
    BY SumsAreNumbers DEF Kept
  <1>10. UNCHANGED <<cumulative, epochs, claims, bonded, pit, pit_clank>>
    BY DEF emissionVars, tokenConfig, pitVars
  <1>11. LedgersAgree'
    <2>1. supply' + pit.burned + destroyed' = supply + pit.burned + destroyed
      BY <1>1, <1>3
    <2>2. supply' = SumOver(clank') + SumOver(bonded) + pit_clank + vaulted'
      BY <1>1, <1>3, <1>4, <1>6, <1>9 DEF Kept, LedgersAgree
    <2> QED BY <1>10, <2>1, <2>2 DEF Kept, LedgersAgree, Minted
  <1> QED
    BY <1>8, <1>11 DEF Kept

\* Every instruction of the three modules keeps it.
LEMMA NextKept == Kept /\ [Next]_supplyVars => Kept'
  <1> SUFFICES ASSUME Kept, [Next]_supplyVars PROVE Kept'
    OBVIOUS
  <1>1. CASE EmissionsNext /\ UNCHANGED <<pitVars, vaultVars>>
    <2>1. CASE \E a \in Agents, n \in Bonds : bond_operator(a, n)
      BY <1>1, <2>1, BondKept
    <2>2. CASE \E a \in Agents, k \in Keys, j \in Jobs, p \in People : accrue_emissions(k, a, j, p)
      BY <1>1, <2>2, ClaimKept
    <2>3. CASE roll_epoch
      BY <1>1, <2>3, RollKept
    <2>4. CASE ~ (\/ \E a \in Agents, n \in Bonds : bond_operator(a, n)
                  \/ \E a \in Agents, k \in Keys, j \in Jobs, p \in People :
                        accrue_emissions(k, a, j, p)
                  \/ roll_epoch)
      <3>1. \/ \E a \in Agents, p \in People : register_agent(a, p)
            \/ \E a \in Agents, p \in People, v \in Values : give_feedback(a, p, v)
            \/ \E k \in Keys, j \in Jobs, v \in {"verified", "rejected"} :
                  write_attestation(k, j, v)
            \/ \E k, k2 \in Keys : set_forwarder(k, k2) \/ set_token_authority(k, k2)
            \/ \E k \in Keys, s \in Schedules : set_emission_params(k, s)
        BY <1>1, <2>4 DEF EmissionsNext
      <3> QED BY <1>1, <3>1, BookkeepingKept
    <2> QED BY <2>1, <2>2, <2>3, <2>4
  <1>2. CASE PitNext /\ UNCHANGED <<emissionVars, vaultVars>>
    <2>1. CASE \E k \in People, u \in Spendings, c \in Fills, pf \in Ratios, m \in Prices :
                  execute_buyback(k, u, c, pf, m)
      BY <1>2, <2>1, BuybackKept
    <2>2. CASE \/ \E n \in Intakes : fund_pit_fund(n)
               \/ \E g \in Governors, p \in Policies : set_buyback_params(g, p)
      BY <1>2, <2>2, FundKept
    <2> QED BY <1>2, <2>1, <2>2 DEF PitNext
  <1>3. CASE Tick /\ UNCHANGED <<emissionVars, pitVars, vaultVars>>
    BY <1>3, FundKept
  <1>5. CASE VaultNext /\ UNCHANGED <<emissionVars, pitVars>>
    BY <1>5, VaultKept DEF VaultNext
  <1>4. CASE UNCHANGED supplyVars
    <2>1. UNCHANGED <<tokenVars, emissionVars, pitVars, vaultVars>>
      BY <1>4 DEF supplyVars
    <2>2. LedgersAgree'
      BY <2>1, QuietLedgers DEF Kept, Ledgers, tokenVars, emissionVars, tokenConfig, pitVars,
         vaultVars
    <2>3. /\ TokenTypeOK' /\ PitTypeOK' /\ PolicyOk(pit.policy)'
          /\ vaulted' \in Nat /\ destroyed' \in Nat
      BY <2>1 DEF Kept, TypeOK, TokenTypeOK, PitTypeOK, PolicyOk, tokenVars, pitVars, vaultVars
    <2>4. EmissionsTypeOK'
      BY <2>1 DEF Kept, TypeOK, EmissionsTypeOK, emissionVars, repVars, tokenConfig
    <2> QED BY <2>2, <2>3, <2>4 DEF Kept, TypeOK
  <1> QED
    BY <1>1, <1>2, <1>3, <1>4, <1>5 DEF Next

\* The types, the policy and the ledgers hold in every state.
THEOREM KeptAlways == Spec => []Kept
  BY InitKept, NextKept, PTL DEF Spec

\* Every variable keeps its type; above all, the supply, the fund and every wallet
\* stay naturals: nothing is burned, sold or bonded that is not there.
THEOREM TypeCorrect == Spec => []TypeOK
  <1>1. Kept => TypeOK
    BY DEF Kept
  <1> QED
    BY <1>1, KeptAlways, PTL

\* The claims, the epochs, the running total, the supply and the balances agree
\* after any interleaving of claims, epoch rolls, bonds, buybacks, stakes and disputes.
THEOREM LedgersReconcile == Spec => []LedgersAgree
  <1>1. Kept => LedgersAgree
    BY DEF Kept
  <1> QED
    BY <1>1, KeptAlways, PTL

-----------------------------------------------------------------------------
(***************************************************************************)
(* The taper.  That no claim pays more than 125% of the first epoch's      *)
(* reward needs the reward of every later epoch to be at most the first's. *)
(***************************************************************************)
RewardsTaper == \A e \in DOMAIN epochs : epochs[e].reward <= Epoch0.reward

Taper == ScheduleHolds /\ RewardsTaper

\* Before the first reward nothing has been taken from any epoch.
LEMMA InitTaper == Init => Taper
  <1> SUFFICES ASSUME Init PROVE Taper
    OBVIOUS
  <1>1. /\ epochs = [e \in {0} |-> [cap |-> Epoch0.cap, minted |-> 0,
                                    reward |-> Epoch0.reward, start |-> 0]]
        /\ cumulative = 0 /\ claims = [c \in Agents \X Jobs |-> 0]
    BY DEF Init, EmissionsInit
  <1>2. ScheduleHolds
    BY <1>1, Amounts DEF ScheduleHolds
  <1>3. RewardsTaper
    BY <1>1, Amounts DEF RewardsTaper
  <1> QED
    BY <1>2, <1>3 DEF Taper

\* A claim fits the cap of its epoch, the bucket and the 125%.
LEMMA ClaimTapers ==
  ASSUME Kept, Taper, NEW k \in Keys, NEW a \in Agents, NEW j \in Jobs, NEW p \in People,
         accrue_emissions(k, a, j, p)
  PROVE  Taper'
  <1> DEFINE r == Reward(a)
             c == <<a, j>>
             ep == epochs[current_epoch]
             new == [ep EXCEPT !.minted = ep.minted + r]
  <1>1. /\ claims \in [Agents \X Jobs -> Nat] /\ c \in Agents \X Jobs
        /\ epochs \in [0..current_epoch -> EpochAccounts]
        /\ bonded \in [Agents -> Nat] /\ current_epoch \in 0..current_epoch
        /\ schedule.min_bond \in Nat
    BY LedgerTypes, ScheduleFields DEF Kept
  <1>2. /\ ep \in EpochAccounts /\ ep.cap \in Nat /\ ep.minted \in Nat /\ ep.reward \in Nat
        /\ ep.minted <= ep.cap /\ ep.reward <= Epoch0.reward
    BY <1>1 DEF EpochAccounts, Taper, ScheduleHolds, RewardsTaper
  <1>3. /\ epochs' = [epochs EXCEPT ![current_epoch] = new]
        /\ claims' = [claims EXCEPT ![c] = r]
        /\ cumulative' = cumulative + r /\ cumulative + r <= EMISSION_BUCKET
    BY <1>1 DEF accrue_emissions
  <1> HIDE DEF ep
  <1>4. r \in Nat /\ ep.minted + r <= ep.cap /\ 4 * r <= 5 * ep.reward
    <2> DEFINE left == Above(ep.cap, ep.minted)
    <2>1. left \in Nat /\ left = ep.cap - ep.minted
      BY <1>2 DEF Above
    <2> HIDE DEF left
    <2>2. bonded[a] \in Nat
      BY <1>1
    <2>3. LET q == emission_reward(ep.reward, bonded[a], schedule.min_bond, left)
          IN  q \in Nat /\ q <= left /\ 4 * q <= 5 * ep.reward
      BY <1>1, <1>2, <2>1, <2>2, RewardBounded
    <2>4. r = emission_reward(ep.reward, bonded[a], schedule.min_bond, left)
      BY DEF Reward, ep, left
    <2> HIDE DEF r
    <2> QED BY <1>2, <2>1, <2>3, <2>4
  <1> HIDE DEF r
  <1>5. /\ new.minted <= new.cap /\ new.cap = ep.cap /\ new.reward = ep.reward
    BY <1>2, <1>4 DEF EpochAccounts
  <1> HIDE DEF new
  <1>6. /\ DOMAIN epochs' = DOMAIN epochs
        /\ \A e \in DOMAIN epochs : /\ epochs'[e].minted <= epochs'[e].cap
                                    /\ epochs'[e].cap = epochs[e].cap
                                    /\ epochs'[e].reward = epochs[e].reward
    BY <1>1, <1>3, <1>5 DEF ep, Taper, ScheduleHolds
  <1>7. \A e \in DOMAIN epochs' \ {0} : e \in DOMAIN epochs \ {0} /\ e - 1 \in DOMAIN epochs
    BY <1>1, <1>6
  <1>8. 4 * r <= 5 * Epoch0.reward
    BY <1>2, <1>4, Amounts
  <1>9. \A d \in DOMAIN claims' : 4 * claims'[d] <= 5 * Epoch0.reward
    <2> HIDE DEF c
    <2> QED BY <1>1, <1>3, <1>8 DEF Taper, ScheduleHolds
  <1>10. ScheduleHolds'
    <2>1. \A e \in DOMAIN epochs' : epochs'[e].minted <= epochs'[e].cap
      BY <1>6
    <2>2. \A e \in DOMAIN epochs' \ {0} : /\ epochs'[e].cap <= epochs'[e - 1].cap
                                          /\ epochs'[e].reward <= epochs'[e - 1].reward
      BY <1>6, <1>7 DEF Taper, ScheduleHolds
    <2>3. cumulative' <= EMISSION_BUCKET
      BY <1>3
    <2> QED BY <1>9, <2>1, <2>2, <2>3 DEF ScheduleHolds
  <1>11. RewardsTaper'
    BY <1>6 DEF Taper, RewardsTaper
  <1> QED
    BY <1>10, <1>11 DEF Taper

\* A new epoch decays the cap and the reward of the one before.
LEMMA RollTapers ==
  ASSUME Kept, Taper, roll_epoch
  PROVE  Taper'
  <1> DEFINE cur  == epochs[current_epoch]
             next == [cap |-> Decayed(cur.cap), minted |-> 0,
                      reward |-> Decayed(cur.reward), start |-> clock]
             N    == current_epoch + 1
  <1>1. /\ epochs \in [0..current_epoch -> EpochAccounts] /\ current_epoch \in Nat
        /\ schedule \in Schedules /\ current_epoch \in 0..current_epoch
    BY LedgerTypes DEF Kept
  <1>2. /\ DOMAIN epochs' = (0..current_epoch) \union {N}
        /\ \A e \in 0..current_epoch : epochs'[e] = epochs[e]
        /\ epochs'[N] = next
        /\ UNCHANGED <<cumulative, claims>>
    BY <1>1 DEF roll_epoch, NextEpoch
  <1>3. cur.cap \in Nat /\ cur.reward \in Nat
    BY <1>1 DEF EpochAccounts
  <1> HIDE DEF cur
  <1>4. /\ next.cap \in Nat /\ next.cap <= cur.cap /\ next.minted = 0
        /\ next.reward \in Nat /\ next.reward <= cur.reward
    BY <1>1, <1>3, DecayShrinks
  <1>5. cur.reward <= Epoch0.reward
    BY <1>1 DEF Taper, RewardsTaper, cur
  <1> HIDE DEF next
  <1>6. N \notin 0..current_epoch /\ N - 1 = current_epoch /\ N # 0
    BY <1>1
  <1>7. \A e \in (0..current_epoch) \ {0} : e - 1 \in 0..current_epoch
    BY <1>1
  <1> HIDE DEF N
  <1>8. \A e \in DOMAIN epochs' : epochs'[e].minted <= epochs'[e].cap
    BY <1>1, <1>2, <1>4 DEF Taper, ScheduleHolds
  <1>9. \A e \in DOMAIN epochs' \ {0} : /\ epochs'[e].cap <= epochs'[e - 1].cap
                                        /\ epochs'[e].reward <= epochs'[e - 1].reward
    <2>1. ASSUME NEW e \in (0..current_epoch) \ {0}
          PROVE  /\ epochs'[e].cap <= epochs'[e - 1].cap
                 /\ epochs'[e].reward <= epochs'[e - 1].reward
      BY <1>1, <1>2, <1>7 DEF Taper, ScheduleHolds
    <2>2. /\ epochs'[N].cap <= epochs'[N - 1].cap
          /\ epochs'[N].reward <= epochs'[N - 1].reward
      BY <1>1, <1>2, <1>4, <1>6 DEF cur
    <2> QED BY <1>2, <2>1, <2>2
  <1>10. \A e \in DOMAIN epochs' : epochs'[e].reward <= Epoch0.reward
    <2>1. epochs'[N].reward <= Epoch0.reward
      BY <1>2, <1>3, <1>4, <1>5, Amounts
    <2> QED BY <1>1, <1>2, <2>1 DEF Taper, RewardsTaper
  <1> QED
    BY <1>2, <1>8, <1>9, <1>10 DEF Taper, ScheduleHolds, RewardsTaper

\* No instruction takes an epoch above its schedule.
LEMMA TaperStep == Kept /\ Taper /\ [Next]_supplyVars => Taper'
  <1> SUFFICES ASSUME Kept, Taper, [Next]_supplyVars PROVE Taper'
    OBVIOUS
  <1>1. CASE \E a \in Agents, k \in Keys, j \in Jobs, p \in People : accrue_emissions(k, a, j, p)
    BY <1>1, ClaimTapers
  <1>2. CASE roll_epoch
    BY <1>2, RollTapers
  <1>3. CASE UNCHANGED <<epochs, cumulative, claims>>
    BY <1>3 DEF Taper, ScheduleHolds, RewardsTaper
  <1>4. \/ \E a \in Agents, k \in Keys, j \in Jobs, p \in People : accrue_emissions(k, a, j, p)
        \/ roll_epoch
        \/ UNCHANGED <<epochs, cumulative, claims>>
    BY DEF Next, EmissionsNext, register_agent, give_feedback, bond_operator,
       write_attestation, set_forwarder, set_token_authority, Handover, set_emission_params,
       emissionVars, tokenConfig, supplyVars
  <1> QED
    BY <1>1, <1>2, <1>3, <1>4

\* The published taper is a ceiling, for every schedule governance may set: no
\* epoch mints more than its cap, caps and rewards never grow, the bucket is
\* never exceeded, and no claim pays more than 125% of the first epoch's reward.
THEOREM TaperIsCeiling == Spec => []ScheduleHolds
  <1>1. Taper => ScheduleHolds
    BY DEF Taper
  <1> QED
    BY <1>1, InitTaper, TaperStep, KeptAlways, PTL DEF Spec

-----------------------------------------------------------------------------
\* The pace of the fund.

\* A nonempty set of naturals has a least member.
LEMMA MinIsLeast ==
  ASSUME NEW S \in SUBSET Nat, S # {}
  PROVE  Min(S) \in S /\ \A x \in S : Min(S) <= x
  <1>1. PICK m \in S : \A x \in S : <<x, m>> \notin OpToRel(<, Nat)
    BY NatLessThanWellFounded, WFMin
  <1>2. \A x \in S : m <= x
    <2>1. ASSUME NEW x \in S, x < m PROVE FALSE
      <3>1. <<x, m>> \in Nat \X Nat /\ <<x, m>>[1] < <<x, m>>[2]
        BY <2>1
      <3>2. <<x, m>> \in {ss \in Nat \X Nat : ss[1] < ss[2]}
        BY <3>1
      <3>3. <<x, m>> \in OpToRel(<, Nat)
        BY <3>2 DEF OpToRel
      <3> QED BY <1>1, <3>3
    <2> QED BY <2>1
  <1> QED
    BY <1>2 DEF Min

\* A bounded one has a greatest.
LEMMA MaxIsGreatest ==
  ASSUME NEW S \in SUBSET Nat, S # {}, NEW B \in Nat, \A x \in S : x <= B
  PROVE  Max(S) \in S /\ \A x \in S : x <= Max(S)
  <1> DEFINE D == {B - x : x \in S}
  <1>1. D \in SUBSET Nat /\ D # {}
    <2>1. \A x \in S : B - x \in Nat
      OBVIOUS
    <2>2. PICK x \in S : TRUE
      OBVIOUS
    <2>3. B - x \in D
      BY <2>2
    <2> QED BY <2>1, <2>3
  <1>2. Min(D) \in D /\ \A d \in D : Min(D) <= d
    BY <1>1, MinIsLeast
  <1>3. PICK m \in S : Min(D) = B - m
    BY <1>2
  <1>4. \A x \in S : B - m <= B - x
    BY <1>2, <1>3
  <1>5. \A x \in S : m >= x
    BY <1>4
  <1> QED
    BY <1>5 DEF Max

\* The largest call and the shortest interval bound those of every policy.
LEMMA PaceBounds ==
  ASSUME NEW q \in Policies
  PROVE  /\ LargestCall \in Nat /\ ShortestInterval \in Nat
         /\ q.max_per_call <= LargestCall /\ ShortestInterval <= q.interval
  <1> DEFINE calls == [p \in Policies |-> p.max_per_call]
             C == {p.max_per_call : p \in Policies}
             I == {p.interval : p \in Policies}
  <1>1. calls \in [Policies -> Nat] /\ IsFiniteSet(Policies)
    BY Amounts, PolicyFields
  <1>2. \A p \in Policies : calls[p] = p.max_per_call
    OBVIOUS
  <1> HIDE DEF calls
  <1>3. SumOver(calls) \in Nat /\ \A p \in Policies : calls[p] <= SumOver(calls)
    BY <1>1, SumOverNat, SumOverMember
  <1>4. C \in SUBSET Nat /\ C # {} /\ I \in SUBSET Nat /\ I # {}
    BY PolicyFields
  <1>5. \A x \in C : x <= SumOver(calls)
    BY <1>2, <1>3
  <1>6. q.max_per_call \in C /\ q.interval \in I
    OBVIOUS
  <1>7. LargestCall = Max(C) /\ ShortestInterval = Min(I)
    BY DEF LargestCall, ShortestInterval
  <1> HIDE DEF C, I
  <1>8. Max(C) \in C /\ \A x \in C : x <= Max(C)
    BY <1>3, <1>4, <1>5, MaxIsGreatest
  <1>9. Min(I) \in I /\ \A x \in I : Min(I) <= x
    BY <1>4, MinIsLeast
  <1> QED
    BY <1>4, <1>6, <1>7, <1>8, <1>9

\* The invariant of the pace: the interval is counted from the last buyback.
Pace ==
    /\ SpendingPaced
    /\ buybacks # <<>> => pit.last = buybacks[Len(buybacks)].at

\* One more call of at most L after at least I keeps what x paid over y within L per I.
LEMMA PaceAdds ==
  ASSUME NEW x \in Int, NEW y \in Int, NEW u \in Nat, NEW g \in Nat, NEW L \in Nat,
         NEW I \in Nat, x * I <= L * y, u <= L, I <= g
  PROVE  (x + u) * I <= L * (y + g)
  <1>1. I * u <= I * L /\ L * I <= L * g
    BY TimesGrows
  <1>2. I * (x + u) = I * x + I * u /\ L * (y + g) = L * y + L * g
    BY Distributes
  <1>3. (x + u) * I = I * (x + u) /\ x * I = I * x /\ I * L = L * I
    BY Distributes
  <1>4. /\ I * x \in Int /\ I * u \in Int /\ I * L \in Int /\ L * y \in Int /\ L * g \in Int
    OBVIOUS
  <1> QED
    BY <1>1, <1>2, <1>3, <1>4

\* A buyback spends at most one largest call, one shortest interval after the last.
LEMMA BuybackPaced ==
  ASSUME Kept, Pace, NEW k \in People, NEW u \in Spendings, NEW c \in Fills,
         NEW pf \in Ratios, NEW m \in Prices, execute_buyback(k, u, c, pf, m)
  PROVE  Pace'
  <1> DEFINE L == LargestCall
             I == ShortestInterval
             wait == pit.policy.interval
             new == [at |-> clock, total |-> Spent + u]
             n == Len(buybacks)
  <1>1. /\ pit.policy \in Policies /\ pit.last \in Nat /\ clock \in Nat
        /\ u \in Nat /\ pf \in Nat /\ buybacks \in Seq([at : Nat, total : Nat])
    BY LedgerTypes, Amounts DEF Kept, TypeOK, PitTypeOK
  <1>2. L \in Nat /\ I \in Nat /\ wait \in Nat /\ I <= wait /\ pit.policy.max_per_call <= L
        /\ pit.policy.max_per_call \in Nat /\ pit.policy.cheap \in Nat /\ pit.policy.rich \in Nat
    BY <1>1, PaceBounds, PolicyFields
  <1>3. LET allowed == buyback_allowance(pit.policy.max_per_call, pf, pit.policy.cheap,
                                         pit.policy.rich)
        IN  allowed \in Nat /\ allowed <= pit.policy.max_per_call
    BY <1>1, <1>2, AllowanceBounded
  <1>4. u <= buyback_allowance(pit.policy.max_per_call, pf, pit.policy.cheap, pit.policy.rich)
    BY DEF execute_buyback
  <1>5. u <= L
    BY <1>1, <1>2, <1>3, <1>4
  <1>6. clock >= pit.last + wait
    BY DEF execute_buyback, CooledDown
  <1>7. pit'.last = clock
    BY DEF execute_buyback, Kept, TypeOK, PitTypeOK
  <1>8. buybacks' = Append(buybacks, new) /\ Spent \in Nat
    BY BuybackRecorded
  <1>9. n \in Nat /\ DOMAIN buybacks = 1..n
    BY <1>1
  <1>10. new.at = clock /\ new.total = Spent + u
    OBVIOUS
  <1> HIDE DEF new
  <1>11. /\ Len(buybacks') = n + 1 /\ DOMAIN buybacks' = 1..(n + 1)
         /\ buybacks'[n + 1] = new /\ \A j \in 1..n : buybacks'[j] = buybacks[j]
    BY <1>1, <1>8
  <1>12. buybacks' # <<>> => pit'.last = buybacks'[Len(buybacks')].at
    BY <1>7, <1>10, <1>11
  <1>13. \A j \in 1..n : buybacks[j].at \in Nat /\ buybacks[j].total \in Nat
    <2>1. \A j \in 1..n : buybacks[j] \in [at : Nat, total : Nat]
      BY <1>1, MemberOfSeq
    <2> QED BY <2>1
  <1>14. \A i, j \in 1..n : i < j => (buybacks[j].total - buybacks[i].total) * I
                                        <= L * (buybacks[j].at - buybacks[i].at)
    BY <1>9 DEF Pace, SpendingPaced
  <1>15. ASSUME NEW i \in 1..n
         PROVE  (new.total - buybacks[i].total) * I <= L * (new.at - buybacks[i].at)
    <2> DEFINE x == buybacks[n].total - buybacks[i].total
               y == buybacks[n].at - buybacks[i].at
               g == clock - buybacks[n].at
    <2>1. n \in 1..n /\ i <= n /\ buybacks # <<>>
      BY <1>1, <1>9
    <2>2. Spent = buybacks[n].total /\ pit.last = buybacks[n].at
      BY <2>1 DEF Spent, Pace
    <2>3. x \in Int /\ y \in Int /\ g \in Nat /\ I <= g
      <3>1. x \in Int /\ y \in Int
        BY <1>13, <2>1
      <3>2. g = clock - pit.last
        BY <2>2
      <3> HIDE DEF x, y, g, wait, I, n
      <3> QED BY <1>1, <1>2, <1>6, <3>1, <3>2
    <2>4. x * I <= L * y
      <3>1. CASE i = n
        <4>1. x = 0 /\ y = 0
          BY <1>13, <3>1
        <4> HIDE DEF x, y
        <4> QED BY <1>2, <4>1
      <3>2. CASE i # n
        <4>1. i < n
          BY <2>1, <3>2
        <4> QED BY <1>14, <2>1, <4>1
      <3> QED BY <3>1, <3>2
    <2>5. new.total - buybacks[i].total = x + u /\ new.at - buybacks[i].at = y + g
      <3>1. /\ Spent \in Int /\ clock \in Int /\ buybacks[n].at \in Int
            /\ buybacks[n].total \in Int /\ buybacks[i].total \in Int
            /\ buybacks[i].at \in Int /\ u \in Int
        <4>1. Spent \in Nat /\ clock \in Nat /\ u \in Nat
          BY <1>1, <1>8
        <4>2. /\ buybacks[n].at \in Nat /\ buybacks[n].total \in Nat
              /\ buybacks[i].total \in Nat /\ buybacks[i].at \in Nat
          BY <1>13, <2>1
        <4> QED BY <4>1, <4>2
      <3> HIDE DEF L, I, wait, n
      <3>2. new.total - buybacks[i].total = x + u
        BY <1>10, <2>2, <3>1
      <3>3. new.at - buybacks[i].at = y + g
        BY <1>10, <2>2, <3>1
      <3> QED BY <3>2, <3>3
    <2> HIDE DEF x, y, g, L, I
    <2>6. (x + u) * I <= L * (y + g)
      BY <1>1, <1>2, <1>5, <2>3, <2>4, PaceAdds
    <2> QED BY <2>5, <2>6
  <1> HIDE DEF L, I
  <1>16. \A i, j \in 1..(n + 1) :
            i < j => (buybacks'[j].total - buybacks'[i].total) * I
                        <= L * (buybacks'[j].at - buybacks'[i].at)
    <2>1. ASSUME NEW i \in 1..(n + 1), NEW j \in 1..(n + 1), i < j
          PROVE  (buybacks'[j].total - buybacks'[i].total) * I
                    <= L * (buybacks'[j].at - buybacks'[i].at)
      <3>1. i \in 1..n
        BY <1>9, <2>1
      <3>2. CASE j = n + 1
        BY <1>11, <1>15, <3>1, <3>2
      <3>3. CASE j # n + 1
        <4>1. j \in 1..n
          BY <1>9, <3>3
        <4> QED BY <1>11, <1>14, <2>1, <3>1, <4>1
      <3> QED BY <3>2, <3>3
    <2> QED BY <2>1
  <1>17. SpendingPaced'
    BY <1>11, <1>16 DEF SpendingPaced, LargestCall, ShortestInterval, L, I
  <1> QED
    BY <1>12, <1>17 DEF Pace

\* No instruction spends from the fund faster than its policy.
LEMMA PacedStep == Kept /\ Pace /\ [Next]_supplyVars => Pace'
  <1> SUFFICES ASSUME Kept, Pace, [Next]_supplyVars PROVE Pace'
    OBVIOUS
  <1>1. CASE \E k \in People, u \in Spendings, c \in Fills, pf \in Ratios, m \in Prices :
                execute_buyback(k, u, c, pf, m)
    BY <1>1, BuybackPaced
  <1>2. CASE buybacks' = buybacks /\ pit'.last = pit.last
    BY <1>2 DEF Pace, SpendingPaced, LargestCall, ShortestInterval
  <1>3. \/ \E k \in People, u \in Spendings, c \in Fills, pf \in Ratios, m \in Prices :
              execute_buyback(k, u, c, pf, m)
        \/ buybacks' = buybacks /\ pit'.last = pit.last
    <2>1. CASE PitNext
      BY <2>1 DEF PitNext, fund_pit_fund, set_buyback_params, Kept, TypeOK, PitTypeOK
    <2>2. CASE UNCHANGED pitVars
      BY <2>2 DEF pitVars
    <2>3. PitNext \/ UNCHANGED pitVars
      BY DEF Next, supplyVars
    <2> QED BY <2>1, <2>2, <2>3
  <1> QED
    BY <1>1, <1>2, <1>3

\* However governance retunes the policy, what leaves the fund between two buybacks
\* stays within one largest call per shortest interval between them.
THEOREM FundIsPaced == Spec => []SpendingPaced
  <1>1. Init => Pace
    BY DEF Init, PitInit, Pace, SpendingPaced
  <1>2. Pace => SpendingPaced
    BY DEF Pace
  <1> QED
    BY <1>1, <1>2, PacedStep, KeptAlways, PTL DEF Spec
=============================================================================
