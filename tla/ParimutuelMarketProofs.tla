----------------------- MODULE ParimutuelMarketProofs -----------------------
(***************************************************************************)
(* Proofs, for any bettors, humans, lanes, amounts and claim window, that  *)
(* the market's ledger adds up, that every winner can be paid while the    *)
(* claim window is open, and that only rounding dust is left.              *)
(***************************************************************************)
EXTENDS ParimutuelMarket, SumLemmas

\* What the assumptions say.
LEMMA Numbers ==
  /\ MaxRacers \in Nat \ {0} /\ Amounts \subseteq Nat /\ Endowment \in Nat
  /\ ClaimWindow \in Nat \ {0} /\ LastTick \in Nat
  /\ IsFiniteSet(Bettors) /\ IsFiniteSet(Humans) /\ NoBet \notin Bet
  /\ 0 \in Lanes /\ Lanes \subseteq Nat
  BY MarketAssumption DEF Lanes

\* The fields of the market account and of a bet.
LEMMA Fields ==
  ASSUME TypeOK
  PROVE  /\ market.open \in BOOLEAN /\ market.settled \in BOOLEAN
         /\ market.winner \in Lanes /\ market.num_racers \in 0..MaxRacers
         /\ market.pools \in [Lanes -> Nat] /\ market.total_pool \in Nat
         /\ market.settled_at \in Nat /\ now \in Nat
         /\ vault \in Nat /\ swept \in Nat /\ wallet \in [Bettors -> Nat]
         /\ DOMAIN bets = Bettors
         /\ \A b \in Placed : /\ b \in Bettors /\ bets[b] \in Bet
                              /\ bets[b].racer \in Lanes /\ bets[b].amount \in Nat
                              /\ bets[b].claimed \in BOOLEAN
  <1>1. /\ market.open \in BOOLEAN /\ market.settled \in BOOLEAN
        /\ market.winner \in Lanes /\ market.num_racers \in 0..MaxRacers
        /\ market.pools \in [Lanes -> Nat] /\ market.total_pool \in Nat
        /\ market.settled_at \in Nat /\ now \in Nat
        /\ vault \in Nat /\ swept \in Nat /\ wallet \in [Bettors -> Nat]
    BY DEF TypeOK
  <1>2. DOMAIN bets = Bettors /\ \A b \in Placed : b \in Bettors /\ bets[b] \in Bet
    BY DEF TypeOK, Placed
  <1> QED
    BY <1>1, <1>2 DEF Bet

\* A share is a number.
LEMMA PayoutNat ==
  ASSUME TypeOK, NEW b \in Placed
  PROVE  PayoutOf(b) \in Nat
  <1> DEFINE a == bets[b].amount
             T == market.total_pool
             w == market.pools[market.winner]
  <1>1. a \in Nat /\ T \in Nat /\ w \in Nat
    BY Fields
  <1>2. PayoutOf(b) = IF w = 0 THEN 0 ELSE (a * T) \div w
    BY DEF PayoutOf, parimutuel_payout
  <1> HIDE DEF a, T, w
  <1>3. a * T \in Nat
    BY <1>1
  <1> QED
    BY <1>1, <1>2, <1>3, DivNat

\* The ledgers are functions of numbers over the bettors.
LEMMA LedgerTypes ==
  ASSUME TypeOK
  PROVE  /\ Stakes \in [Bettors -> Nat] /\ Received \in [Bettors -> Nat]
         /\ Due \in [Bettors -> Nat]
         /\ \A lane \in Lanes : StakesOn(lane) \in [Bettors -> Nat]
  <1>1. \A b \in Placed : bets[b].amount \in Nat /\ PayoutOf(b) \in Nat
    BY Fields, PayoutNat
  <1>2. Owed \subseteq Placed
    BY DEF Owed, MayClaim, Placed
  <1>3. \A lane \in Lanes : OnLane(lane) \subseteq Placed
    BY DEF OnLane
  <1> QED
    BY <1>1, <1>2, <1>3 DEF Stakes, Received, Due, StakesOn

-----------------------------------------------------------------------------
\* Types.

\* A market that is not there has its type.
LEMMA TypeInit == Init => TypeOK
  <1> SUFFICES ASSUME Init PROVE TypeOK
    OBVIOUS
  <1>1. (CHOOSE k \in Keys : TRUE) \in Keys
    BY MarketAssumption
  <1> QED
    BY <1>1, Numbers DEF Init, TypeOK

\* Every instruction keeps the types.
LEMMA TypeStep == TypeOK /\ [Next]_vars => TypeOK'
  <1> SUFFICES ASSUME TypeOK, [Next]_vars PROVE TypeOK'
    OBVIOUS
  <1> DEFINE Market == [open : BOOLEAN, settled : BOOLEAN, winner : Lanes,
                        num_racers : 0..MaxRacers, pools : [Lanes -> Nat], total_pool : Nat,
                        settled_at : 0..LastTick, judge : Keys, operator : Keys]
  <1>0. /\ market \in Market /\ bets \in [Bettors -> Bet \cup {NoBet}] /\ used \subseteq Humans
        /\ now \in 0..LastTick /\ vault \in Nat /\ swept \in Nat
        /\ wallet \in [Bettors -> Nat]
    BY DEF TypeOK
  <1>1. ASSUME NEW k \in Keys, NEW n \in 0..(MaxRacers + 1), NEW op \in Keys,
               open_market(k, n, op)
        PROVE  TypeOK'
    <2>1. n \in 0..MaxRacers
      BY <1>1, Numbers DEF open_market, RacerCountOk
    <2>2. market' \in Market
      BY <1>0, <1>1, <2>1 DEF open_market
    <2> QED BY <1>0, <1>1, <2>2 DEF open_market, TypeOK
  <1>2. ASSUME NEW k \in Keys, NEW lane \in Lanes, settle_market(k, lane)
        PROVE  TypeOK'
    <2>1. market' \in Market
      BY <1>0, <1>2 DEF settle_market
    <2> QED BY <1>0, <1>2, <2>1 DEF settle_market, TypeOK
  <1>3. ASSUME NEW k \in Keys, NEW j \in Keys, set_judge(k, j)
        PROVE  TypeOK'
    <2>1. market' \in Market
      BY <1>0, <1>3 DEF set_judge
    <2> QED BY <1>0, <1>3, <2>1 DEF set_judge, TypeOK
  <1>4. ASSUME NEW k \in Keys, sweep_market(k)
        PROVE  TypeOK'
    BY <1>0, <1>4 DEF sweep_market, TypeOK
  <1>5. ASSUME NEW b \in Bettors, NEW human \in Humans, NEW lane \in Lanes,
               NEW amount \in Amounts, place_bet(b, human, lane, amount)
        PROVE  TypeOK'
    <2>1. amount \in Nat
      BY Numbers
    <2>2. market' \in Market
      <3>1. /\ market.pools \in [Lanes -> Nat] /\ market.total_pool + amount \in Nat
            /\ [market.pools EXCEPT ![lane] = market.pools[lane] + amount] \in [Lanes -> Nat]
        BY <1>0, <2>1
      <3>2. market' = [market EXCEPT !.pools = [market.pools EXCEPT
                                                  ![lane] = market.pools[lane] + amount],
                                     !.total_pool = market.total_pool + amount]
        BY <1>0, <1>5 DEF place_bet, AddToPools
      <3> QED BY <1>0, <3>1, <3>2
    <2>3. bets' \in [Bettors -> Bet \cup {NoBet}]
      BY <1>0, <1>5, <2>1 DEF place_bet, Bet
    <2>4. wallet' \in [Bettors -> Nat] /\ vault' \in Nat
      BY <1>0, <1>5, <2>1 DEF place_bet
    <2> QED BY <1>0, <1>5, <2>2, <2>3, <2>4 DEF place_bet, TypeOK
  <1>6. ASSUME NEW b \in Bettors, claim(b)
        PROVE  TypeOK'
    <2>1. b \in Placed /\ bets[b] \in Bet
      BY <1>6, Fields DEF claim, MayClaim, Placed
    <2>2. PayoutOf(b) \in Nat
      BY <2>1, PayoutNat
    <2>3. bets' = [bets EXCEPT ![b] = [bets[b] EXCEPT !.claimed = TRUE]]
      BY <1>6 DEF claim
    <2>4. [bets[b] EXCEPT !.claimed = TRUE] \in Bet
      BY <2>1 DEF Bet
    <2>5. bets' \in [Bettors -> Bet \cup {NoBet}]
      BY <1>0, <2>3, <2>4
    <2>6. vault' \in Nat /\ wallet' \in [Bettors -> Nat]
      BY <1>0, <1>6, <2>2 DEF claim
    <2> QED BY <1>0, <1>6, <2>5, <2>6 DEF claim, TypeOK
  <1>7. CASE Tick
    BY <1>0, <1>7, Numbers DEF Tick, TypeOK
  <1>8. CASE UNCHANGED vars
    BY <1>0, <1>8 DEF vars, TypeOK
  <1> QED
    BY <1>1, <1>2, <1>3, <1>4, <1>5, <1>6, <1>7, <1>8 DEF Next

\* Every account of the market keeps its type: no lane outside the market, no
\* negative vault or wallet.
THEOREM TypeCorrect == Spec => []TypeOK
  BY TypeInit, TypeStep, PTL DEF Spec

-----------------------------------------------------------------------------
(***************************************************************************)
(* The ledger.  It is inductive only with the phases of the market: nobody *)
(* claims before the judge has settled, so that the shares, which a bet    *)
(* would change, are still all zero while bets are placed; and nothing is  *)
(* swept before the claim window has passed.                               *)
(***************************************************************************)
Phases ==
  /\ \A b \in Placed : /\ bets[b].amount > 0
                       /\ bets[b].claimed => market.settled /\ bets[b].racer = market.winner
  /\ swept > 0 => market.settled /\ now >= market.settled_at + ClaimWindow

IInv == TypeOK /\ LedgerAddsUp /\ Phases

\* Before the market is opened the ledger is empty.
LEMMA InitInv == Init => IInv
  <1> SUFFICES ASSUME Init PROVE IInv
    OBVIOUS
  <1>1. TypeOK
    BY TypeInit
  <1>2. Placed = {} /\ \A lane : OnLane(lane) = {}
    BY DEF Init, Placed, OnLane
  <1>3. /\ Stakes = [b \in Bettors |-> 0] /\ Received = [b \in Bettors |-> 0]
        /\ \A lane : StakesOn(lane) = [b \in Bettors |-> 0]
    BY <1>2 DEF Stakes, Received, StakesOn
  <1>4. SumOver([b \in Bettors |-> 0]) = 0
    BY Numbers, SumOverZero
  <1>5. PoolsAreTheBets
    BY <1>2, <1>3, <1>4 DEF Init, PoolsAreTheBets
  <1>6. /\ \A b \in Bettors : wallet[b] + Stakes[b] = Endowment + Received[b]
        /\ vault + swept + SumOver(Received) = market.total_pool
    BY <1>3, <1>4, Numbers DEF Init
  <1>7. Phases
    BY <1>2, Numbers DEF Phases, Init
  <1> QED
    BY <1>1, <1>5, <1>6, <1>7 DEF IInv, LedgerAddsUp

\* The ledgers depend on the bets, the pools and the winner alone.
LEMMA SameLedgers ==
  ASSUME UNCHANGED <<bets, market.pools, market.total_pool, market.winner>>
  PROVE  /\ UNCHANGED <<Placed, Stakes, Received>>
         /\ \A lane \in Lanes : UNCHANGED <<OnLane(lane), StakesOn(lane)>>
  <1>1. Placed' = Placed /\ \A lane \in Lanes : OnLane(lane)' = OnLane(lane)
    BY DEF Placed, OnLane
  <1>2. \A b \in Bettors : PayoutOf(b)' = PayoutOf(b)
    BY DEF PayoutOf
  <1> QED
    BY <1>1, <1>2 DEF Stakes, Received, StakesOn

\* A step that moves no money and changes no bet, pool or winner keeps the ledger.
LEMMA QuietLedger ==
  ASSUME LedgerAddsUp,
         UNCHANGED <<bets, used, vault, wallet, swept, market.pools, market.total_pool,
                     market.winner>>
  PROVE  LedgerAddsUp'
  <1>1. /\ UNCHANGED <<Placed, Stakes, Received>>
        /\ \A lane \in Lanes : UNCHANGED <<OnLane(lane), StakesOn(lane)>>
    BY SameLedgers
  <1>2. PoolsAreTheBets'
    BY <1>1 DEF LedgerAddsUp, PoolsAreTheBets
  <1> QED
    BY <1>1, <1>2 DEF LedgerAddsUp

\* Before the market is settled nobody has received anything.
LEMMA NothingReceived ==
  ASSUME Phases, ~market.settled
  PROVE  Received = [b \in Bettors |-> 0]
  BY DEF Phases, Received

\* A bet enters one pool and the total, and nobody has received a share yet.
LEMMA BetStep ==
  ASSUME IInv, NEW b \in Bettors, NEW human \in Humans, NEW lane \in Lanes,
         NEW amount \in Amounts, place_bet(b, human, lane, amount)
  PROVE  LedgerAddsUp' /\ Phases'
  <1> DEFINE bet == [racer |-> lane, amount |-> amount, claimed |-> FALSE]
  <1>1. /\ TypeOK /\ amount \in Nat /\ amount > 0 /\ bet \in Bet /\ bet # NoBet
        /\ IsFiniteSet(Bettors)
    <2>1. TypeOK /\ amount \in Nat /\ amount > 0 /\ IsFiniteSet(Bettors)
      BY Numbers DEF IInv, place_bet
    <2>2. bet \in Bet
      BY <2>1 DEF Bet
    <2>3. bet # NoBet
      BY <2>2, Numbers
    <2> QED BY <2>1, <2>2, <2>3
  <1>2. /\ ~market.settled /\ bets[b] = NoBet /\ human \notin used
        /\ bets' = [bets EXCEPT ![b] = bet] /\ used' = used \cup {human}
        /\ vault' = vault + amount /\ wallet' = [wallet EXCEPT ![b] = wallet[b] - amount]
        /\ swept' = swept /\ now' = now
    BY DEF place_bet, AcceptsBets, FreshBet
  <1>3. /\ market'.pools = [market.pools EXCEPT ![lane] = market.pools[lane] + amount]
        /\ market'.total_pool = market.total_pool + amount
        /\ market'.settled = market.settled /\ market'.winner = market.winner
        /\ market'.settled_at = market.settled_at
    BY <1>1 DEF place_bet, AddToPools, TypeOK
  <1>4. DOMAIN bets = Bettors
    BY <1>1, Fields
  <1>5. /\ Placed' = Placed \union {b} /\ b \notin Placed
        /\ bets'[b] = bet /\ \A c \in Placed : bets'[c] = bets[c] /\ c # b
    BY <1>1, <1>2, <1>4 DEF Placed
  <1>6. \A l \in Lanes : /\ OnLane(l)' = IF l = lane THEN OnLane(l) \union {b} ELSE OnLane(l)
                         /\ b \notin OnLane(l)
    BY <1>5 DEF OnLane
  <1>7. /\ Stakes' = [Stakes EXCEPT ![b] = Stakes[b] + amount] /\ Stakes[b] = 0
    <2>1. \A c \in Bettors : (IF c \in Placed' THEN bets'[c].amount ELSE 0)
             = IF c = b THEN amount ELSE IF c \in Placed THEN bets[c].amount ELSE 0
      BY <1>5
    <2>2. Stakes' = [c \in Bettors |-> IF c = b THEN amount ELSE Stakes[c]]
      BY <2>1 DEF Stakes
    <2>3. Stakes[b] = 0 /\ DOMAIN Stakes = Bettors /\ Stakes[b] + amount = amount
      BY <1>1, <1>5 DEF Stakes
    <2> QED BY <2>2, <2>3
  <1>8. \A l \in Lanes : StakesOn(l)' = IF l = lane THEN [StakesOn(l) EXCEPT ![b] =
                                                            StakesOn(l)[b] + amount]
                                        ELSE StakesOn(l)
    <2> SUFFICES ASSUME NEW l \in Lanes
                 PROVE  StakesOn(l)' = IF l = lane THEN [StakesOn(l) EXCEPT ![b] =
                                                            StakesOn(l)[b] + amount]
                                       ELSE StakesOn(l)
      OBVIOUS
    <2>1. \A c \in Bettors : (IF c \in OnLane(l)' THEN bets'[c].amount ELSE 0)
             = IF c = b /\ l = lane THEN amount
               ELSE IF c \in OnLane(l) THEN bets[c].amount ELSE 0
      BY <1>5, <1>6 DEF OnLane
    <2>2. StakesOn(l)' = [c \in Bettors |-> IF c = b /\ l = lane THEN amount
                                            ELSE StakesOn(l)[c]]
      BY <2>1 DEF StakesOn
    <2>3. StakesOn(l)[b] = 0 /\ DOMAIN StakesOn(l) = Bettors /\ StakesOn(l)[b] + amount = amount
      BY <1>1, <1>6 DEF StakesOn
    <2>4. StakesOn(l) = [c \in Bettors |-> StakesOn(l)[c]]
      BY DEF StakesOn
    <2> QED BY <2>2, <2>3, <2>4
  <1>9. Phases'
    <2>1. \A c \in Placed' : bets'[c].amount > 0
                             /\ (bets'[c].claimed => market'.settled
                                                     /\ bets'[c].racer = market'.winner)
      BY <1>1, <1>3, <1>5 DEF IInv, Phases
    <2>2. swept' > 0 => market'.settled /\ now' >= market'.settled_at + ClaimWindow
      BY <1>2, <1>3 DEF IInv, Phases
    <2> QED BY <2>1, <2>2 DEF Phases
  <1>10. Received = [c \in Bettors |-> 0] /\ Received' = [c \in Bettors |-> 0]
    <2>1. Received = [c \in Bettors |-> 0]
      BY <1>2, NothingReceived DEF IInv
    <2>2. ~market'.settled
      BY <1>2, <1>3
    <2>3. \A c \in Placed' : ~bets'[c].claimed
      BY <1>9, <2>2 DEF Phases
    <2>4. Received' = [c \in Bettors |-> 0]
      BY <2>3 DEF Received
    <2> QED BY <2>1, <2>4
  <1>11. SumOver(Stakes') = SumOver(Stakes) + amount
    <2>1. /\ IsFiniteSet(Bettors) /\ Stakes \in [Bettors -> Int] /\ b \in Bettors
          /\ amount \in Int
      BY <1>1, LedgerTypes
    <2>2. Moved(Stakes, Stakes', Bettors, b, amount)
      BY <1>7, <2>1 DEF Moved
    <2> QED BY <2>2, SumOverMoved
  <1>12. SumOver(StakesOn(lane)') = SumOver(StakesOn(lane)) + amount
    <2>1. /\ IsFiniteSet(Bettors) /\ StakesOn(lane) \in [Bettors -> Int] /\ b \in Bettors
          /\ amount \in Int
      BY <1>1, LedgerTypes
    <2>2. StakesOn(lane)' = [StakesOn(lane) EXCEPT ![b] = StakesOn(lane)[b] + amount]
      BY <1>1, <1>8
    <2>3. Moved(StakesOn(lane), StakesOn(lane)', Bettors, b, amount)
      BY <2>1, <2>2 DEF Moved
    <2> QED BY <2>3, SumOverMoved
  <1>13. Cardinality(Placed') = Cardinality(used')
    <2>1. Placed \subseteq Bettors /\ used \subseteq Humans
      BY <1>1 DEF Placed, TypeOK
    <2>2. IsFiniteSet(Placed) /\ IsFiniteSet(used)
      BY <2>1, Numbers, FS_Subset
    <2>3. /\ Cardinality(Placed \union {b}) = Cardinality(Placed) + 1
          /\ Cardinality(used \union {human}) = Cardinality(used) + 1
      BY <1>2, <1>5, <2>2, FS_AddElement
    <2> QED BY <1>2, <1>5, <2>3 DEF IInv, LedgerAddsUp, PoolsAreTheBets
  <1>14. \A l \in Lanes : market'.pools[l] = SumOver(StakesOn(l)')
    <2> SUFFICES ASSUME NEW l \in Lanes PROVE market'.pools[l] = SumOver(StakesOn(l)')
      OBVIOUS
    <2>1. market.pools \in [Lanes -> Nat] /\ market.pools[l] = SumOver(StakesOn(l))
      BY <1>1, Fields DEF IInv, LedgerAddsUp, PoolsAreTheBets
    <2>2. CASE l = lane
      BY <1>3, <1>12, <2>1, <2>2
    <2>3. CASE l # lane
      BY <1>3, <1>8, <2>1, <2>3
    <2> QED BY <2>2, <2>3
  <1>15. PoolsAreTheBets'
    BY <1>3, <1>11, <1>13, <1>14 DEF IInv, LedgerAddsUp, PoolsAreTheBets
  <1>16. \A c \in Bettors : wallet'[c] + Stakes'[c] = Endowment + Received'[c]
    <2> SUFFICES ASSUME NEW c \in Bettors
                 PROVE  wallet'[c] + Stakes'[c] = Endowment + Received'[c]
      OBVIOUS
    <2>1. /\ wallet \in [Bettors -> Nat] /\ Stakes \in [Bettors -> Nat]
          /\ wallet[c] + Stakes[c] = Endowment + Received[c]
      BY <1>1, Fields, LedgerTypes DEF IInv, LedgerAddsUp
    <2>2. Received'[c] = Received[c]
      BY <1>10
    <2>3. CASE c = b
      <3>1. wallet'[c] = wallet[c] - amount /\ Stakes'[c] = Stakes[c] + amount
        BY <1>2, <1>7, <2>1, <2>3
      <3> QED BY <1>1, <2>1, <2>2, <3>1
    <2>4. CASE c # b
      <3>1. wallet'[c] = wallet[c] /\ Stakes'[c] = Stakes[c]
        BY <1>2, <1>7, <2>1, <2>4
      <3> QED BY <2>1, <2>2, <3>1
    <2> QED BY <2>3, <2>4
  <1>17. vault' + swept' + SumOver(Received') = market'.total_pool
    <2>1. SumOver(Received') = SumOver(Received) /\ SumOver(Received) = 0
      BY <1>1, <1>10, SumOverZero
    <2>2. vault + swept + SumOver(Received) = market.total_pool
      BY DEF IInv, LedgerAddsUp
    <2>3. vault \in Nat /\ swept \in Nat
      BY <1>1, Fields
    <2> QED BY <1>1, <1>2, <1>3, <2>1, <2>2, <2>3
  <1> QED
    BY <1>9, <1>15, <1>16, <1>17 DEF LedgerAddsUp

\* A claim moves one share, once, from the vault to the bettor.
LEMMA ClaimStep ==
  ASSUME IInv, NEW b \in Bettors, claim(b)
  PROVE  LedgerAddsUp' /\ Phases'
  <1> DEFINE p == PayoutOf(b)
  <1>1. TypeOK /\ b \in Placed /\ bets[b] \in Bet /\ IsFiniteSet(Bettors)
    BY Fields, Numbers DEF IInv, claim, MayClaim, Placed
  <1>2. p \in Nat
    BY <1>1, PayoutNat
  <1>3. /\ market.settled /\ ~bets[b].claimed /\ bets[b].racer = market.winner
        /\ bets' = [bets EXCEPT ![b] = [bets[b] EXCEPT !.claimed = TRUE]]
        /\ p <= vault /\ vault' = vault - p
        /\ wallet' = [wallet EXCEPT ![b] = wallet[b] + p]
        /\ UNCHANGED <<market, used, swept, now>>
    BY DEF claim, MayClaim
  <1>4. DOMAIN bets = Bettors
    BY <1>1, Fields
  <1>5. /\ \A c \in Bettors : c # b => bets'[c] = bets[c]
        /\ bets'[b].amount = bets[b].amount /\ bets'[b].racer = bets[b].racer
        /\ bets'[b].claimed = TRUE /\ bets'[b] # NoBet
    <2>1. bets'[b] = [bets[b] EXCEPT !.claimed = TRUE]
      BY <1>3, <1>4
    <2>2. [bets[b] EXCEPT !.claimed = TRUE] \in Bet
      BY <1>1 DEF Bet
    <2> QED BY <1>1, <1>3, <1>4, <2>1, <2>2, Numbers DEF Bet
  <1>6. Placed' = Placed /\ \A l \in Lanes : OnLane(l)' = OnLane(l)
    <2>1. Placed' = Placed
      BY <1>1, <1>5 DEF Placed
    <2> QED BY <1>5, <2>1 DEF OnLane, Placed
  <1>7. Stakes' = Stakes /\ \A l \in Lanes : StakesOn(l)' = StakesOn(l)
    BY <1>5, <1>6 DEF Stakes, StakesOn
  <1>8. \A c \in Bettors : PayoutOf(c)' = PayoutOf(c)
    BY <1>3, <1>5 DEF PayoutOf
  <1>9. Received[b] = 0 /\ Received' = [Received EXCEPT ![b] = Received[b] + p]
    <2>1. \A c \in Bettors : (IF c \in Placed' /\ bets'[c].claimed THEN PayoutOf(c)' ELSE 0)
             = IF c = b THEN p
               ELSE IF c \in Placed /\ bets[c].claimed THEN PayoutOf(c) ELSE 0
      BY <1>1, <1>3, <1>5, <1>6, <1>8
    <2>2. Received[b] = 0 /\ DOMAIN Received = Bettors
      BY <1>3 DEF Received
    <2> HIDE DEF p
    <2>3. Received' = [c \in Bettors |-> IF c = b THEN p ELSE Received[c]]
      BY <2>1 DEF Received
    <2>4. Received[b] + p = p
      BY <1>2, <2>2
    <2> QED BY <2>2, <2>3, <2>4
  <1> HIDE DEF p
  <1>10. SumOver(Received') = SumOver(Received) + p
    <2>1. IsFiniteSet(Bettors) /\ Received \in [Bettors -> Int] /\ b \in Bettors /\ p \in Int
      BY <1>1, <1>2, LedgerTypes
    <2>2. Moved(Received, Received', Bettors, b, p)
      BY <1>9, <2>1 DEF Moved
    <2> QED BY <2>2, SumOverMoved
  <1>11. PoolsAreTheBets'
    BY <1>3, <1>6, <1>7 DEF IInv, LedgerAddsUp, PoolsAreTheBets
  <1>12. \A c \in Bettors : wallet'[c] + Stakes'[c] = Endowment + Received'[c]
    <2> SUFFICES ASSUME NEW c \in Bettors
                 PROVE  wallet'[c] + Stakes'[c] = Endowment + Received'[c]
      OBVIOUS
    <2>1. /\ wallet \in [Bettors -> Nat] /\ Stakes \in [Bettors -> Nat]
          /\ Received \in [Bettors -> Nat]
          /\ wallet[c] + Stakes[c] = Endowment + Received[c]
      BY <1>1, Fields, LedgerTypes DEF IInv, LedgerAddsUp
    <2>2. CASE c = b
      <3>1. wallet'[c] = wallet[c] + p /\ Received'[c] = Received[c] + p /\ Stakes'[c] = Stakes[c]
        BY <1>3, <1>7, <1>9, <2>1, <2>2
      <3>2. Endowment \in Nat
        BY Numbers
      <3> QED BY <1>2, <2>1, <3>1, <3>2
    <2>3. CASE c # b
      <3>1. wallet'[c] = wallet[c] /\ Received'[c] = Received[c] /\ Stakes'[c] = Stakes[c]
        BY <1>3, <1>7, <1>9, <2>1, <2>3
      <3> QED BY <2>1, <3>1
    <2> QED BY <2>2, <2>3
  <1>13. vault' + swept' + SumOver(Received') = market'.total_pool
    <2>1. vault + swept + SumOver(Received) = market.total_pool
      BY DEF IInv, LedgerAddsUp
    <2>2. vault \in Nat /\ swept \in Nat /\ SumOver(Received) \in Nat
      BY <1>1, Fields, LedgerTypes, SumOverNat
    <2> QED BY <1>2, <1>3, <1>10, <2>1, <2>2
  <1>14. Phases'
    BY <1>3, <1>5, <1>6 DEF IInv, Phases, Placed
  <1> QED
    BY <1>11, <1>12, <1>13, <1>14 DEF LedgerAddsUp

\* The verdict: no share was claimed before it, none is by it.
LEMMA SettleStep ==
  ASSUME IInv, NEW k \in Keys, NEW lane \in Lanes, settle_market(k, lane)
  PROVE  LedgerAddsUp' /\ Phases'
  <1>1. /\ ~market.settled /\ TypeOK /\ now \in Nat
        /\ UNCHANGED <<bets, used, vault, wallet, swept, now>>
    BY Fields DEF IInv, settle_market, CanSettle
  <1>2. market'.pools = market.pools /\ market'.total_pool = market.total_pool
        /\ market'.settled = TRUE /\ market'.settled_at = now
    BY <1>1 DEF settle_market, TypeOK
  <1>3. Placed' = Placed /\ \A l \in Lanes : OnLane(l)' = OnLane(l)
    BY <1>1 DEF Placed, OnLane
  <1>4. Stakes' = Stakes /\ \A l \in Lanes : StakesOn(l)' = StakesOn(l)
    BY <1>1, <1>3 DEF Stakes, StakesOn
  <1>5. \A b \in Placed : ~bets[b].claimed
    BY <1>1 DEF IInv, Phases
  <1>6. Received = [b \in Bettors |-> 0] /\ Received' = [b \in Bettors |-> 0]
    BY <1>1, <1>3, <1>5 DEF Received
  <1>7. PoolsAreTheBets'
    BY <1>1, <1>2, <1>3, <1>4 DEF IInv, LedgerAddsUp, PoolsAreTheBets
  <1>8. LedgerAddsUp'
    BY <1>1, <1>2, <1>4, <1>6, <1>7 DEF IInv, LedgerAddsUp
  <1>9. swept \in Nat /\ ~(swept > 0)
    BY <1>1, Fields DEF IInv, Phases
  <1>10. Phases'
    BY <1>1, <1>3, <1>5, <1>9 DEF IInv, Phases
  <1> QED
    BY <1>8, <1>10

\* Every instruction keeps the ledger and the phases.
LEMMA NextInv == IInv /\ [Next]_vars => IInv'
  <1> SUFFICES ASSUME IInv, [Next]_vars PROVE IInv'
    OBVIOUS
  <1>0. TypeOK /\ TypeOK'
    BY TypeStep DEF IInv
  <1>1. CASE \E b \in Bettors, human \in Humans, lane \in Lanes, amount \in Amounts :
                place_bet(b, human, lane, amount)
    BY <1>0, <1>1, BetStep DEF IInv
  <1>2. CASE \E b \in Bettors : claim(b)
    BY <1>0, <1>2, ClaimStep DEF IInv
  <1>3. CASE \E k \in Keys, lane \in Lanes : settle_market(k, lane)
    BY <1>0, <1>3, SettleStep DEF IInv
  <1>4. ASSUME NEW k \in Keys,
               \/ \E n \in 0..(MaxRacers + 1), op \in Keys : open_market(k, n, op)
               \/ \E j \in Keys : set_judge(k, j)
        PROVE  LedgerAddsUp' /\ Phases'
    <2>1. /\ UNCHANGED <<bets, used, vault, wallet, swept, now>>
          /\ UNCHANGED <<market.pools, market.total_pool, market.winner, market.settled,
                         market.settled_at>>
      BY <1>0, <1>4 DEF open_market, set_judge, TypeOK
    <2>2. LedgerAddsUp'
      BY <2>1, QuietLedger DEF IInv
    <2>3. Phases'
      BY <2>1 DEF IInv, Phases, Placed
    <2> QED BY <2>2, <2>3
  <1>5. ASSUME NEW k \in Keys, sweep_market(k)
        PROVE  LedgerAddsUp' /\ Phases'
    <2>1. /\ market.settled /\ now >= market.settled_at + ClaimWindow
          /\ vault' = 0 /\ swept' = swept + vault
          /\ UNCHANGED <<market, bets, used, wallet, now>>
      BY <1>5 DEF sweep_market, SweepOpen
    <2>2. /\ UNCHANGED <<Placed, Stakes, Received>>
          /\ \A lane \in Lanes : UNCHANGED <<OnLane(lane), StakesOn(lane)>>
      BY <2>1, SameLedgers
    <2>3. PoolsAreTheBets'
      BY <2>1, <2>2 DEF IInv, LedgerAddsUp, PoolsAreTheBets
    <2>4. vault \in Nat /\ swept \in Nat /\ SumOver(Received) \in Nat
      BY <1>0, Fields, Numbers, LedgerTypes, SumOverNat
    <2>5. vault' + swept' + SumOver(Received') = market'.total_pool
      BY <2>1, <2>2, <2>4 DEF IInv, LedgerAddsUp
    <2>6. LedgerAddsUp'
      BY <2>1, <2>2, <2>3, <2>5 DEF IInv, LedgerAddsUp
    <2>7. Phases'
      BY <2>1, <2>2 DEF IInv, Phases
    <2> QED BY <2>6, <2>7
  <1>6. CASE Tick
    <2>1. now' = now + 1 /\ UNCHANGED <<market, bets, used, vault, wallet, swept>>
      BY <1>6 DEF Tick
    <2>2. LedgerAddsUp'
      BY <2>1, QuietLedger DEF IInv
    <2>3. now \in Nat /\ market.settled_at \in Nat /\ ClaimWindow \in Nat
      BY <1>0, Fields, Numbers
    <2>4. Phases'
      BY <2>1, <2>3 DEF IInv, Phases, Placed
    <2> QED BY <1>0, <2>2, <2>4 DEF IInv
  <1>7. CASE UNCHANGED vars
    <2>1. UNCHANGED <<market, bets, used, vault, wallet, swept, now>>
      BY <1>7 DEF vars
    <2>2. LedgerAddsUp'
      BY <2>1, QuietLedger DEF IInv
    <2>3. Phases'
      BY <2>1 DEF IInv, Phases, Placed
    <2> QED BY <1>0, <2>2, <2>3 DEF IInv
  <1> QED
    BY <1>0, <1>1, <1>2, <1>3, <1>4, <1>5, <1>6, <1>7 DEF IInv, Next

\* The types, the ledger and the phases hold in every state.
THEOREM Invariance == Spec => []IInv
  BY InitInv, NextInv, PTL DEF Spec

\* The pools are the bets, every bettor is out the stake and in a claimed share, and
\* the vault is short of the bets by exactly what was claimed or swept.
THEOREM LedgerReconciles == Spec => []LedgerAddsUp
  <1>1. IInv => LedgerAddsUp
    BY DEF IInv
  <1> QED
    BY <1>1, Invariance, PTL

-----------------------------------------------------------------------------
(***************************************************************************)
(* The shares.  Each is floored, so together they are at most the pool and *)
(* short of it by less than one unit for each winning bet.                 *)
(***************************************************************************)
Shares == [b \in Bettors |-> IF b \in OnLane(market.winner) THEN PayoutOf(b) ELSE 0]
Heads == [b \in Bettors |-> IF b \in OnLane(market.winner) THEN 1 ELSE 0]

\* One floored share: at most the exact one, short of it by less than a unit.
LEMMA ShareBounds ==
  ASSUME NEW a \in Nat, NEW T \in Nat, NEW w \in Nat \ {0}
  PROVE  LET p == (a * T) \div w
         IN  p \in Nat /\ w * p <= T * a /\ T * a + 1 <= w * (p + 1)
  <1> DEFINE x == a * T
             p == x \div w
  <1>1. x \in Nat /\ x = T * a
    OBVIOUS
  <1> HIDE DEF x
  <1>2. p \in Nat /\ w * p <= x /\ x < w * p + w
    BY <1>1, DivNat, DivBounds
  <1> HIDE DEF p
  <1>3. w * (p + 1) = w * p + w /\ w * p \in Int
    BY <1>2
  <1>4. w * p <= T * a /\ T * a + 1 <= w * (p + 1)
    BY <1>1, <1>2, <1>3
  <1> QED
    BY <1>2, <1>4 DEF p, x

\* All of them: their sum is within the pool, and with one unit more for each
\* winning bet it exceeds the pool.
LEMMA SharesBounds ==
  ASSUME TypeOK, LedgerAddsUp, Phases
  PROVE  /\ SumOver(Shares) \in Nat /\ SumOver(Shares) <= market.total_pool
         /\ OnLane(market.winner) # {} =>
              market.total_pool < SumOver(Shares) + Cardinality(OnLane(market.winner))
  <1> DEFINE W == OnLane(market.winner)
             S == StakesOn(market.winner)
             T == market.total_pool
             w == market.pools[market.winner]
             n == Cardinality(W)
             total == SumOver(Shares)
  <1>1. /\ IsFiniteSet(Bettors) /\ W \subseteq Placed /\ W \subseteq Bettors
        /\ S \in [Bettors -> Nat] /\ T \in Nat /\ w \in Nat /\ w = SumOver(S)
        /\ \A b \in W : bets[b].amount \in Nat /\ bets[b].amount > 0
    BY Numbers, Fields, LedgerTypes DEF OnLane, Placed, LedgerAddsUp, PoolsAreTheBets, Phases
  <1>2. \A b \in Bettors : /\ S[b] = IF b \in W THEN bets[b].amount ELSE 0
                           /\ Shares[b] = IF b \in W THEN PayoutOf(b) ELSE 0
                           /\ Heads[b] = IF b \in W THEN 1 ELSE 0
    BY DEF StakesOn, Shares, Heads
  <1>3. Shares \in [Bettors -> Nat] /\ Heads \in [Bettors -> Nat]
    <2>1. \A b \in W : PayoutOf(b) \in Nat
      BY <1>1, PayoutNat
    <2> QED BY <2>1 DEF Shares, Heads
  <1>4. total \in Nat
    BY <1>1, <1>3, SumOverNat
  <1>5. SumOver(Heads) = n /\ n \in Nat
    <2>1. SumOver(Heads) = n
      BY <1>1, SumOverCount DEF Heads
    <2>2. SumOver(Heads) \in Nat
      BY <1>1, <1>3, SumOverNat
    <2> QED BY <2>1, <2>2
  <1>6. \A b \in W : PayoutOf(b) = IF w = 0 THEN 0 ELSE (bets[b].amount * T) \div w
    BY DEF PayoutOf, parimutuel_payout
  <1> HIDE DEF W, S, T, w, n, total
  <1>7. CASE W = {}
    <2>1. Shares = [b \in Bettors |-> 0]
      BY <1>7 DEF Shares, W
    <2>2. total = 0
      BY <1>1, <2>1, SumOverZero DEF total
    <2> QED BY <1>1, <1>4, <1>7, <2>2 DEF total, T, W
  <1>8. CASE W # {}
    <2>1. w \in Nat \ {0}
      <3>1. PICK b \in W : TRUE
        BY <1>8
      <3>2. b \in Bettors /\ S[b] > 0
        BY <1>1, <1>2
      <3>3. S[b] <= SumOver(S)
        BY <1>1, <3>2, SumOverMember
      <3>4. S[b] \in Nat
        BY <1>1, <3>2
      <3> QED BY <1>1, <3>2, <3>3, <3>4
    <2>2. n >= 1
      <3>1. n # 0
        <4>1. IsFiniteSet(W)
          BY <1>1, FS_Subset
        <4> QED BY <1>8, <4>1, FS_EmptySet DEF n
      <3> QED BY <1>5, <3>1
    <2> DEFINE paid   == [b \in Bettors |-> w * Shares[b]]
               exact  == [b \in Bettors |-> T * S[b]]
               plus   == [b \in Bettors |-> Shares[b] + Heads[b]]
               exactH == [b \in Bettors |-> exact[b] + Heads[b]]
               paidH  == [b \in Bettors |-> w * plus[b]]
    <2>3. \A b \in Bettors : paid[b] <= exact[b] /\ exactH[b] <= paidH[b]
      <3> SUFFICES ASSUME NEW b \in Bettors
                   PROVE  paid[b] <= exact[b] /\ exactH[b] <= paidH[b]
        OBVIOUS
      <3>1. CASE b \in W
        <4> DEFINE a == bets[b].amount
                   p == (a * T) \div w
        <4>1. a \in Nat /\ S[b] = a /\ Shares[b] = p /\ Heads[b] = 1
          BY <1>1, <1>2, <1>6, <2>1, <3>1
        <4>2. w * p <= T * a /\ T * a + 1 <= w * (p + 1)
          BY <1>1, <2>1, <4>1, ShareBounds
        <4> HIDE DEF a, p
        <4> QED BY <4>1, <4>2
      <3>2. CASE b \notin W
        <4>1. S[b] = 0 /\ Shares[b] = 0 /\ Heads[b] = 0
          BY <1>2, <3>2
        <4>2. w * 0 = 0 /\ T * 0 = 0
          BY <1>1
        <4>3. paid[b] = 0 /\ exact[b] = 0 /\ exactH[b] = 0 /\ paidH[b] = 0
          BY <4>1, <4>2
        <4> QED BY <4>3
      <3> QED BY <3>1, <3>2
    <2>4. /\ paid \in [Bettors -> Int] /\ exact \in [Bettors -> Int]
          /\ plus \in [Bettors -> Int] /\ Heads \in [Bettors -> Int]
          /\ Shares \in [Bettors -> Int] /\ S \in [Bettors -> Int] /\ T \in Int /\ w \in Int
      BY <1>1, <1>3
    <2>5. exactH \in [Bettors -> Int] /\ paidH \in [Bettors -> Int]
      BY <1>1, <2>4
    <2>6. SumOver(paid) = w * total /\ SumOver(exact) = T * w
      BY <1>1, <2>4, SumOverScaled DEF total
    <2>7. SumOver(plus) = total + n
      BY <1>1, <1>5, <2>4, SumOverTotal DEF total
    <2> HIDE DEF plus
    <2>8. SumOver(paidH) = w * SumOver(plus)
      BY <1>1, <2>4, SumOverScaled
    <2>9. SumOver(exactH) = SumOver(exact) + n
      <3> HIDE DEF exact
      <3> QED BY <1>1, <1>5, <2>4, SumOverTotal
    <2> HIDE DEF paid, exact, exactH, paidH
    <2>10. SumOver(paid) <= SumOver(exact) /\ SumOver(exactH) <= SumOver(paidH)
      BY <1>1, <2>3, <2>4, <2>5, SumOverMonotone
    <2>11. T * w = w * T /\ w * T \in Int /\ w * total \in Int
      BY <1>1, <1>4
    <2>12. total <= T
      <3>1. w * total <= w * T
        BY <2>6, <2>10, <2>11
      <3> QED BY <1>1, <1>4, <2>1, <3>1, Cancels
    <2>13. T < total + n
      <3>1. w * T + n <= w * (total + n)
        BY <2>6, <2>7, <2>8, <2>9, <2>10, <2>11
      <3>2. CASE total + n <= T
        <4>1. total + n \in Nat
          BY <1>4, <1>5
        <4>2. w * (total + n) <= w * T /\ w * (total + n) \in Int
          BY <1>1, <3>2, <4>1, TimesGrows
        <4> QED BY <1>5, <2>2, <2>11, <3>1, <4>2
      <3> QED BY <1>1, <1>4, <1>5, <3>2
    <2> QED BY <1>4, <2>12, <2>13 DEF total, T, n, W
  <1> QED BY <1>7, <1>8

\* On a settled market a winning bet's share is due or received, and no other's is.
LEMMA DueOrReceived ==
  ASSUME TypeOK, Phases, market.settled
  PROVE  SumOver(Due) + SumOver(Received) = SumOver(Shares)
  <1>1. \A b \in Bettors : Due[b] + Received[b] = Shares[b]
    <2> SUFFICES ASSUME NEW b \in Bettors PROVE Due[b] + Received[b] = Shares[b]
      OBVIOUS
    <2>1. /\ Due[b] = IF MayClaim(b) THEN PayoutOf(b) ELSE 0
          /\ Received[b] = IF b \in Placed /\ bets[b].claimed THEN PayoutOf(b) ELSE 0
          /\ Shares[b] = IF b \in OnLane(market.winner) THEN PayoutOf(b) ELSE 0
      BY DEF Due, Owed, Received, Shares
    <2>2. CASE b \in OnLane(market.winner)
      <3>1. b \in Placed /\ bets[b].racer = market.winner /\ PayoutOf(b) \in Nat
            /\ bets[b] # NoBet
        BY <2>2, PayoutNat DEF OnLane, Placed
      <3>2. MayClaim(b) <=> ~bets[b].claimed
        BY <3>1 DEF MayClaim
      <3> QED BY <2>1, <2>2, <3>1, <3>2
    <2>3. CASE b \notin OnLane(market.winner)
      <3>1. ~MayClaim(b) /\ ~(b \in Placed /\ bets[b].claimed)
        BY <2>3 DEF MayClaim, OnLane, Placed, Phases
      <3> QED BY <2>1, <2>3, <3>1
    <2> QED BY <2>2, <2>3
  <1>2. IsFiniteSet(Bettors) /\ Due \in [Bettors -> Int] /\ Received \in [Bettors -> Int]
    BY Numbers, LedgerTypes
  <1>3. Shares = [b \in Bettors |-> Due[b] + Received[b]]
    BY <1>1 DEF Shares
  <1> QED
    BY <1>2, <1>3, SumOverTotal

\* While the claim window is open, what the unclaimed winning bets are owed is in
\* the vault, in whatever order the others have claimed.
THEOREM WinnersAreCovered == Spec => []WinnersCovered
  <1>1. IInv => WinnersCovered
    <2> SUFFICES ASSUME IInv, market.settled, now < market.settled_at + ClaimWindow
                 PROVE  SumOver(Due) <= vault
      BY DEF WinnersCovered
    <2>1. SumOver(Due) + SumOver(Received) = SumOver(Shares)
      BY DueOrReceived DEF IInv
    <2>2. SumOver(Shares) <= market.total_pool
      BY SharesBounds DEF IInv
    <2>3. vault + swept + SumOver(Received) = market.total_pool
      BY DEF IInv, LedgerAddsUp
    <2>4. swept = 0
      <3>1. swept \in Nat /\ now \in Nat /\ market.settled_at \in Nat /\ ClaimWindow \in Nat
        BY Fields, Numbers DEF IInv
      <3> QED BY <3>1 DEF IInv, Phases
    <2>5. SumOver(Due) \in Nat /\ SumOver(Received) \in Nat
      BY Numbers, LedgerTypes, SumOverNat DEF IInv
    <2>6. vault \in Nat /\ market.total_pool \in Nat
      BY Fields DEF IInv
    <2> QED BY <2>1, <2>2, <2>3, <2>4, <2>5, <2>6
  <1> QED
    BY <1>1, Invariance, PTL

\* Once every winner has claimed, fewer units than winning bets are left.
THEOREM OnlyDustIsLeft == Spec => []OnlyDustRemains
  <1>1. IInv => OnlyDustRemains
    <2> SUFFICES ASSUME IInv, market.settled, Owed = {}, OnLane(market.winner) # {}, swept = 0
                 PROVE  vault < Cardinality(OnLane(market.winner))
      BY DEF OnlyDustRemains
    <2>1. SumOver(Due) = 0
      <3>1. Due = [b \in Bettors |-> 0]
        BY DEF Due
      <3> QED BY <3>1, Numbers, SumOverZero
    <2>2. SumOver(Due) + SumOver(Received) = SumOver(Shares)
      BY DueOrReceived DEF IInv
    <2>3. market.total_pool < SumOver(Shares) + Cardinality(OnLane(market.winner))
      BY SharesBounds DEF IInv
    <2>4. vault + swept + SumOver(Received) = market.total_pool
      BY DEF IInv, LedgerAddsUp
    <2>5. SumOver(Received) \in Nat /\ vault \in Nat /\ market.total_pool \in Nat
      BY Numbers, LedgerTypes, SumOverNat, Fields DEF IInv
    <2>6. Cardinality(OnLane(market.winner)) \in Nat
      <3>1. OnLane(market.winner) \subseteq Bettors
        BY DEF OnLane, Placed
      <3>2. IsFiniteSet(OnLane(market.winner))
        BY <3>1, Numbers, FS_Subset
      <3> QED BY <3>2, FS_CardinalityType
    <2> QED BY <2>1, <2>2, <2>3, <2>4, <2>5, <2>6
  <1> QED
    BY <1>1, Invariance, PTL
=============================================================================
