-------------------------- MODULE RaceEscrowProofs --------------------------
(***************************************************************************)
(* Proofs, for any number of races, drivers and keys and for any amounts,  *)
(* of the safety properties of RaceEscrow, and that the escrow implements  *)
(* StakedRace.                                                             *)
(***************************************************************************)
EXTENDS RaceEscrow, TLAPS

\* open_race takes the next id, so no account or money lies ahead of it.
FreshAhead == \A id \in RaceIds : id >= next_race_id => ~Live(id)

\* The token program never lets a vault overflow.
VaultFits == \A id \in RaceIds : vault[id] <= U64Max

\* The part of the invariant that speaks of races and vaults.
RaceInv ==
    /\ races \in [RaceIds -> Race \cup {NoRace}]
    /\ vault \in [RaceIds -> Nat]
    /\ next_race_id \in Nat
    /\ VaultBacksStakes
    /\ RunsWithTwoStakes
    /\ \A id \in RaceIds : Live(id) =>
          races[id].fees_collected = PerSeat(races[id], races[id].fee)
    /\ FreshAhead
    /\ VaultFits

\* The part that speaks of the drivers' and the treasury's money.
BookInv ==
    /\ wallet \in [Drivers -> Nat]
    /\ treasury \in Nat /\ total_fees \in Nat
    /\ facilitator \in Keys
    /\ treasury = total_fees

\* The inductive invariant.
IInv == RaceInv /\ BookInv

-----------------------------------------------------------------------------
\* Amounts are numbers.
LEMMA Amounts ==
    /\ U64Max \in Nat /\ MaxRaces \in Nat /\ NoDriver \notin Drivers
    /\ Stakes \subseteq Nat /\ Fees \subseteq Nat /\ Balances \subseteq Nat
    /\ \A stake \in Stakes : stake <= U64Max
  BY EscrowAssumption

\* What a race account is made of.
LEMMA RaceTypes ==
    ASSUME NEW r \in Race
    PROVE  /\ r.stake \in Nat /\ r.fee \in Nat /\ r.stake <= U64Max
           /\ r.status \in Status /\ r.winner_slot \in Slots
           /\ r.fees_collected \in Nat
           /\ r.seat \in [Slots -> Drivers \cup {NoDriver}]
           /\ r # NoRace
  <1>1. /\ r.stake \in Stakes /\ r.fee \in Fees
        /\ r.status \in Status /\ r.winner_slot \in Slots
        /\ r.fees_collected \in Nat
        /\ r.seat \in [Slots -> Drivers \cup {NoDriver}]
    BY DEF Race
  <1> QED
    BY <1>1, Amounts, NoRaceAssumption

\* A driver's entry turns a race account into a race account.
LEMMA WithDriverType ==
    ASSUME NEW r \in Race, NEW slot \in Slots, NEW d \in Drivers
    PROVE  /\ WithDriver(r, slot, d) \in Race
           /\ WithDriver(r, slot, d).stake = r.stake
           /\ WithDriver(r, slot, d).fee = r.fee
           /\ WithDriver(r, slot, d).winner_slot = r.winner_slot
           /\ WithDriver(r, slot, d).seat = [r.seat EXCEPT ![slot] = d]
           /\ WithDriver(r, slot, d).fees_collected = r.fees_collected + r.fee
           /\ WithDriver(r, slot, d).status =
                 IF BothJoined(WithDriver(r, slot, d)) THEN "Joined" ELSE r.status
  <1>1. r.fee \in Nat /\ r.fees_collected \in Nat
    BY RaceTypes
  <1> DEFINE s == [r EXCEPT !.seat[slot] = d, !.fees_collected = @ + r.fee]
  <1>2. s \in Race
    <2>1. [r.seat EXCEPT ![slot] = d] \in [Slots -> Drivers \cup {NoDriver}]
      BY RaceTypes
    <2>2. s = [r EXCEPT !.seat = [r.seat EXCEPT ![slot] = d],
                        !.fees_collected = r.fees_collected + r.fee]
      OBVIOUS
    <2>3. r.fees_collected + r.fee \in Nat
      BY <1>1
    <2> QED
      BY <2>1, <2>2, <2>3 DEF Race
  <1>3. BothJoined(s) <=> BothJoined(WithDriver(r, slot, d))
    BY <1>2 DEF WithDriver, BothJoined, Joined, Race
  <1> QED
    BY <1>1, <1>2, <1>3 DEF WithDriver, Race, Status, OpenStatuses

\* It takes one more seat, and so one more amount per seat.
LEMMA WithDriverSeats ==
    ASSUME NEW r \in Race, NEW slot \in Slots, NEW d \in Drivers,
           ~Joined(r, slot), NEW amount \in Nat
    PROVE  PerSeat(WithDriver(r, slot, d), amount) = PerSeat(r, amount) + amount
  <1>1. WithDriver(r, slot, d).seat = [r.seat EXCEPT ![slot] = d]
    BY WithDriverType
  <1>2. d # NoDriver /\ r.seat \in [Slots -> Drivers \cup {NoDriver}]
    BY EscrowAssumption DEF Race
  <1> QED
    BY <1>1, <1>2 DEF PerSeat, Joined, Slots

\* An amount per seat is a number, twice the amount for two seats.
LEMMA PerSeatType ==
    ASSUME NEW r, NEW amount \in Nat
    PROVE  /\ PerSeat(r, amount) \in Nat
           /\ BothJoined(r) => PerSeat(r, amount) = 2 * amount
  BY DEF PerSeat, BothJoined, Slots


-----------------------------------------------------------------------------
\* A step that puts account r into race id and leaves v in its vault keeps that
\* part, whatever the instruction, if r and v are right for each other.
LEMMA RaceStep ==
    ASSUME RaceInv,
           NEW id \in RaceIds, NEW r \in Race, NEW v \in 0..U64Max,
           v = IF r.status \notin Closed THEN PerSeat(r, r.stake) ELSE 0,
           r.status \in {"Joined", "Locked", "Started", "Finished", "Settled"}
              => BothJoined(r),
           r.fees_collected = PerSeat(r, r.fee),
           races' = [races EXCEPT ![id] = r],
           vault' = [vault EXCEPT ![id] = v],
           next_race_id' \in Nat,
           next_race_id' >= next_race_id,
           id < next_race_id'
    PROVE  RaceInv'
  <1> USE DEF RaceInv
  <1>1. races' \in [RaceIds -> Race \cup {NoRace}] /\ vault' \in [RaceIds -> Nat]
    BY Amounts
  <1>2. /\ races'[id] = r /\ vault'[id] = v /\ r # NoRace
        /\ \A j \in RaceIds : j # id => races'[j] = races[j] /\ vault'[j] = vault[j]
    BY RaceTypes
  <1>3. \A j \in RaceIds : j # id => (Live(j)' <=> Live(j))
    BY <1>2 DEF Live
  <1>4. Live(id)'
    BY <1>2 DEF Live
  <1>5. VaultBacksStakes'
    BY <1>2, <1>3, <1>4 DEF VaultBacksStakes
  <1>6. RunsWithTwoStakes'
    BY <1>2, <1>3, <1>4 DEF RunsWithTwoStakes
  <1>7. \A j \in RaceIds : Live(j)' =>
          races'[j].fees_collected = PerSeat(races'[j], races'[j].fee)
    BY <1>2, <1>3, <1>4
  <1>8. FreshAhead'
    <2> SUFFICES ASSUME NEW j \in RaceIds, j >= next_race_id' PROVE ~Live(j)'
      BY DEF FreshAhead
    <2>1. j \in Nat /\ id \in Nat
      BY Amounts DEF RaceIds
    <2>2. j # id /\ j >= next_race_id
      BY <2>1
    <2> QED
      BY <2>2, <1>3 DEF FreshAhead
  <1>9. VaultFits'
    BY <1>2, Amounts DEF VaultFits
  <1> QED
    BY <1>1, <1>5, <1>6, <1>7, <1>8, <1>9

\* The invariant implies the properties.
LEMMA InvProperties ==
    IInv => TypeOK /\ VaultBacksStakes /\ RunsWithTwoStakes /\ FeesReconcile
  BY DEF IInv, RaceInv, BookInv, TypeOK, FeesReconcile

\* Before the first race there is no account and no stake.
LEMMA InitInv == Init => IInv
  <1> SUFFICES ASSUME Init PROVE IInv
    OBVIOUS
  <1> USE DEF Init
  <1>1. \A id \in RaceIds : ~Live(id)
    BY DEF Live
  <1>2. wallet \in [Drivers -> Nat]
    BY Amounts
  <1>3. VaultBacksStakes /\ VaultFits
    BY <1>1, Amounts DEF VaultBacksStakes, VaultFits
  <1>4. RaceInv
    BY <1>1, <1>3 DEF RaceInv, RunsWithTwoStakes, FreshAhead
  <1> QED
    BY <1>2, <1>4 DEF IInv, BookInv

-----------------------------------------------------------------------------
\* What the invariant says of a live race.
LEMMA LiveRace ==
    ASSUME RaceInv, NEW id \in RaceIds, Live(id)
    PROVE  /\ races[id] \in Race
           /\ id < next_race_id
           /\ races[id].status \notin Closed =>
                 vault[id] = PerSeat(races[id], races[id].stake)
           /\ vault[id] \in Nat /\ vault[id] <= U64Max
  <1>1. races[id] \in Race
    BY DEF RaceInv, Live
  <1>2. id \in Nat /\ next_race_id \in Nat
    BY Amounts DEF RaceIds, RaceInv
  <1>3. id < next_race_id
    BY <1>2 DEF RaceInv, FreshAhead
  <1> QED
    BY <1>1, <1>3 DEF RaceInv, VaultBacksStakes, VaultFits

\* open_race makes an account that owes nothing.
LEMMA OpenStep ==
    ASSUME IInv, NEW k \in Keys, NEW id \in RaceIds,
           NEW stake \in Stakes, NEW fee \in Fees, open_race(k, id, stake, fee)
    PROVE  IInv'
  <1> DEFINE r == [status |-> "Created", seat |-> [slot \in Slots |-> NoDriver],
                   stake |-> stake, fee |-> fee,
                   fees_collected |-> 0, winner_slot |-> 0]
  <1>1. r \in Race
    BY DEF Race, Status, OpenStatuses, Slots
  <1>2. PerSeat(r, r.stake) = 0 /\ PerSeat(r, r.fee) = 0
    BY DEF PerSeat, Joined, Slots
  <1>3. RaceInv /\ ~Live(id) /\ id \in Nat
    BY Amounts DEF open_race, IInv, RaceInv, FreshAhead, RaceIds
  <1>4. vault[id] = 0 /\ vault' = [vault EXCEPT ![id] = 0]
    BY <1>3 DEF open_race, RaceInv, VaultBacksStakes
  <1>5. 0 \in 0..U64Max
    BY Amounts
  <1>6. races' = [races EXCEPT ![id] = r] /\ next_race_id' = id + 1 /\ id = next_race_id
    BY DEF open_race
  <1> HIDE DEF r
  <1>7. r.status = "Created" /\ r.fees_collected = 0
    BY DEF r
  <1>8. RaceInv'
    <2>1. 0 = IF r.status \notin Closed THEN PerSeat(r, r.stake) ELSE 0
      BY <1>2
    <2>2. r.fees_collected = PerSeat(r, r.fee)
      BY <1>2, <1>7
    <2>3. r.status \notin {"Joined", "Locked", "Started", "Finished", "Settled"}
      BY <1>7
    <2>4. next_race_id' \in Nat /\ next_race_id' >= next_race_id /\ id < next_race_id'
      BY <1>3, <1>6
    <2> QED
      BY <1>1, <1>3, <1>4, <1>5, <1>6, <2>1, <2>2, <2>3, <2>4, RaceStep
  <1> QED
    BY <1>8 DEF open_race, IInv, BookInv

\* join_race puts a stake into the vault and a driver into the seat.
LEMMA JoinStep ==
    ASSUME IInv, NEW d \in Drivers, NEW id \in RaceIds, NEW slot \in Slots,
           join_race(d, id, slot)
    PROVE  IInv'
  <1> DEFINE r == races[id]
             s == WithDriver(r, slot, d)
             v == vault[id] + r.stake
  <1>1. RaceInv /\ Live(id) /\ r \in Race /\ id < next_race_id
    BY LiveRace DEF join_race, IInv
  <1>2. r.stake \in Nat /\ r.fee \in Nat /\ vault[id] \in Nat
    BY <1>1, RaceTypes, LiveRace
  <1>3. r.status \in OpenStatuses /\ ~Joined(r, slot) /\ v <= U64Max
    BY DEF join_race, MayTakeSeat
  <1>4. s \in Race /\ s.stake = r.stake /\ s.fee = r.fee
        /\ s.status = (IF BothJoined(s) THEN "Joined" ELSE r.status)
        /\ s.fees_collected = r.fees_collected + r.fee
    <2> HIDE DEF r
    <2>1. r \in Race
      BY <1>1
    <2> QED BY <2>1, WithDriverType
  <1>5. PerSeat(s, s.stake) = PerSeat(r, r.stake) + r.stake
    BY <1>1, <1>2, <1>3, <1>4, WithDriverSeats
  <1>6. PerSeat(s, s.fee) = PerSeat(r, r.fee) + r.fee
    BY <1>1, <1>2, <1>3, <1>4, WithDriverSeats
  <1>7. s.status \in OpenStatuses /\ s.status \notin Closed /\ r.status \notin Closed
    BY <1>3, <1>4 DEF OpenStatuses, Closed
  <1>8. v = PerSeat(s, s.stake)
    BY <1>1, <1>5, <1>7, LiveRace
  <1>9. s.fees_collected = PerSeat(s, s.fee)
    BY <1>1, <1>4, <1>6 DEF RaceInv
  <1>10. s.status \in {"Joined", "Locked", "Started", "Finished", "Settled"} => BothJoined(s)
    <2>1. CASE BothJoined(s)
      BY <2>1
    <2>2. CASE ~BothJoined(s)
      <3>1. s.status = r.status
        BY <2>2, <1>4
      <3>2. ~BothJoined(r)
        BY <1>3 DEF BothJoined
      <3>3. r.status # "Joined"
        BY <3>2, <1>1 DEF RaceInv, RunsWithTwoStakes
      <3> QED
        BY <3>1, <3>3, <1>3 DEF OpenStatuses
    <2> QED
      BY <2>1, <2>2
  <1>11. v \in 0..U64Max /\ next_race_id \in Nat
    BY <1>1, <1>2, <1>3, Amounts DEF RaceInv
  <1>12. races' = [races EXCEPT ![id] = s] /\ vault' = [vault EXCEPT ![id] = v]
         /\ next_race_id' = next_race_id
    BY <1>1 DEF join_race, RaceInv
  <1> HIDE DEF s, v
  <1>13. RaceInv'
    <2>1. v = IF s.status \notin Closed THEN PerSeat(s, s.stake) ELSE 0
      BY <1>7, <1>8
    <2>2. next_race_id' \in Nat /\ next_race_id' >= next_race_id /\ id < next_race_id'
      BY <1>1, <1>11, <1>12
    <2> QED
      BY <1>1, <1>4, <1>9, <1>10, <1>11, <1>12, <2>1, <2>2, RaceStep
  <1>14. wallet' \in [Drivers -> Nat]
    BY <1>2 DEF join_race, IInv, BookInv
  <1>15. treasury' \in Nat /\ total_fees' \in Nat /\ treasury' = total_fees'
         /\ facilitator' = facilitator
    BY <1>2 DEF join_race, IInv, BookInv
  <1> QED
    BY <1>13, <1>14, <1>15 DEF IInv, BookInv

\* lock_race, start_race and finish_race move the status (and set the winner) of
\* a race with two drivers, and no money.
LEMMA AdvanceStep ==
    ASSUME IInv, NEW id \in RaceIds, Live(id), NEW r \in Race,
           r.seat = races[id].seat, r.stake = races[id].stake, r.fee = races[id].fee,
           r.fees_collected = races[id].fees_collected,
           races[id].status \in {"Joined", "Locked", "Started"},
           r.status \in {"Locked", "Started", "Finished"},
           races' = [races EXCEPT ![id] = r],
           UNCHANGED <<vault, wallet, treasury, facilitator, next_race_id, total_fees>>
    PROVE  IInv'
  <1>1. RaceInv /\ races[id] \in Race /\ id < next_race_id
    BY LiveRace DEF IInv
  <1>2. BothJoined(races[id])
    BY <1>1 DEF RaceInv, RunsWithTwoStakes
  <1>3. BothJoined(r) /\ PerSeat(r, r.stake) = PerSeat(races[id], races[id].stake)
        /\ PerSeat(r, r.fee) = PerSeat(races[id], races[id].fee)
    BY <1>2 DEF BothJoined, PerSeat, Joined
  <1>4. vault[id] = PerSeat(races[id], races[id].stake)
        /\ vault[id] \in Nat /\ vault[id] <= U64Max
    BY <1>1, LiveRace DEF Closed
  <1>5. r.fees_collected = PerSeat(r, r.fee)
    BY <1>1, <1>3 DEF RaceInv
  <1>6. vault' = [vault EXCEPT ![id] = vault[id]] /\ vault[id] \in 0..U64Max
    BY <1>1, <1>4, Amounts DEF RaceInv
  <1>7. RaceInv'
    <2>1. vault[id] = IF r.status \notin Closed THEN PerSeat(r, r.stake) ELSE 0
      BY <1>3, <1>4 DEF Closed
    <2>2. next_race_id' \in Nat /\ next_race_id' >= next_race_id /\ id < next_race_id'
      BY <1>1 DEF RaceInv
    <2> QED
      BY <1>1, <1>3, <1>5, <1>6, <2>1, <2>2, RaceStep
  <1> QED
    BY <1>7 DEF IInv, BookInv

\* settle_race and cancel_race close a race and empty its vault.
LEMMA CloseStep ==
    ASSUME IInv, NEW id \in RaceIds, Live(id), NEW status \in Closed,
           status = "Settled" => BothJoined(races[id]),
           races' = [races EXCEPT ![id].status = status],
           vault' = [vault EXCEPT ![id] = 0],
           wallet' \in [Drivers -> Nat],
           UNCHANGED <<treasury, facilitator, next_race_id, total_fees>>
    PROVE  IInv'
  <1> DEFINE r == [races[id] EXCEPT !.status = status]
  <1>1. RaceInv /\ races[id] \in Race /\ id < next_race_id
    BY LiveRace DEF IInv
  <1>2. r \in Race /\ r.status = status
    BY <1>1 DEF Race, Status, Closed
  <1>3. r.seat = races[id].seat /\ r.fee = races[id].fee
        /\ r.fees_collected = races[id].fees_collected
    BY <1>1 DEF Race
  <1>4. r.fees_collected = PerSeat(r, r.fee)
    BY <1>1, <1>3 DEF RaceInv, PerSeat, Joined
  <1>5. r.status \in {"Joined", "Locked", "Started", "Finished", "Settled"} => BothJoined(r)
    BY <1>2, <1>3 DEF BothJoined, Joined, Closed
  <1>6. races' = [races EXCEPT ![id] = r] /\ 0 \in 0..U64Max
    BY <1>1, Amounts DEF RaceInv
  <1> HIDE DEF r
  <1>7. RaceInv'
    <2>1. 0 = IF r.status \notin Closed THEN PerSeat(r, r.stake) ELSE 0
      BY <1>2
    <2>2. next_race_id' \in Nat /\ next_race_id' >= next_race_id /\ id < next_race_id'
      BY <1>1 DEF RaceInv
    <2> QED
      BY <1>1, <1>2, <1>4, <1>5, <1>6, <2>1, <2>2, RaceStep
  <1> QED
    BY <1>7 DEF IInv, BookInv

\* A finished race has both stakes in its vault, an open one those of its drivers.
LEMMA VaultAtExit ==
    ASSUME RaceInv, NEW id \in RaceIds, Live(id)
    PROVE  /\ races[id].status = "Finished" =>
                 /\ BothJoined(races[id])
                 /\ vault[id] = Payout(races[id])
                 /\ Payout(races[id]) <= U64Max
           /\ races[id].status \in Cancelable => vault[id] = Refunds(races[id])
  <1>1. /\ races[id] \in Race /\ vault[id] <= U64Max
        /\ races[id].status \notin Closed =>
                 vault[id] = PerSeat(races[id], races[id].stake)
    BY LiveRace
  <1>2. races[id].stake \in Nat
    BY <1>1, RaceTypes
  <1>3. races[id].status = "Finished" => BothJoined(races[id])
    BY DEF RaceInv, RunsWithTwoStakes
  <1> QED
    BY <1>1, <1>2, <1>3, PerSeatType DEF Payout, Refunds, Closed, Cancelable, OpenStatuses

\* settle_race pays both stakes to the winner.
LEMMA SettleStep ==
    ASSUME IInv, NEW k \in Keys, NEW id \in RaceIds, settle_race(k, id)
    PROVE  IInv'
  <1> DEFINE r == races[id]
  <1>1. Live(id) /\ r.status = "Finished" /\ RaceInv
    BY DEF settle_race, IInv
  <1>2. r \in Race /\ vault[id] = Payout(r) /\ BothJoined(r) /\ vault[id] \in Nat
    BY <1>1, LiveRace, VaultAtExit
  <1>3. r.seat[r.winner_slot] \in Drivers /\ Payout(r) \in Nat
    BY <1>2, RaceTypes DEF BothJoined, Joined
  <1>4. wallet' \in [Drivers -> Nat]
    BY <1>3 DEF settle_race, IInv, BookInv
  <1>5. vault' = [vault EXCEPT ![id] = 0]
    <2>1. vault[id] - Payout(r) = 0
      BY <1>2
    <2>2. vault' = [vault EXCEPT ![id] = vault[id] - Payout(r)]
      BY DEF settle_race
    <2> QED
      BY <2>1, <2>2
  <1> QED
    BY <1>1, <1>2, <1>4, <1>5, CloseStep DEF settle_race, Closed

\* cancel_race pays each stake back.
LEMMA CancelStep ==
    ASSUME IInv, NEW k \in Keys, NEW id \in RaceIds, cancel_race(k, id)
    PROVE  IInv'
  <1> DEFINE r == races[id]
  <1>1. Live(id) /\ r.status \in Cancelable /\ RaceInv
    BY DEF cancel_race, CanCancel, IInv
  <1>2. r \in Race /\ vault[id] = Refunds(r) /\ vault[id] \in Nat
    BY <1>1, LiveRace, VaultAtExit
  <1>3. \A d \in Drivers : Refund(r, d) \in Nat
    BY <1>2, RaceTypes DEF Refund
  <1>4. wallet' \in [Drivers -> Nat]
    BY <1>3 DEF cancel_race, IInv, BookInv
  <1>5. vault' = [vault EXCEPT ![id] = 0]
    <2>1. vault[id] - Refunds(r) = 0
      BY <1>2
    <2>2. vault' = [vault EXCEPT ![id] = vault[id] - Refunds(r)]
      BY DEF cancel_race
    <2> QED
      BY <2>1, <2>2
  <1> QED
    BY <1>1, <1>4, <1>5, CloseStep DEF cancel_race, Closed

\* lock_race, start_race and finish_race are advances.
LEMMA LockStartFinishStep ==
    ASSUME IInv, NEW k \in Keys, NEW id \in RaceIds, NEW winner \in Slots,
           lock_race(k, id) \/ start_race(k, id) \/ finish_race(k, id, winner)
    PROVE  IInv'
  <1>1. Live(id) /\ races[id] \in Race
    BY LiveRace DEF lock_race, start_race, finish_race, IInv
  <1>2. ASSUME NEW status \in {"Locked", "Started"},
               races[id].status \in {"Joined", "Locked"},
               races' = [races EXCEPT ![id].status = status],
               UNCHANGED <<vault, wallet, treasury, facilitator, next_race_id, total_fees>>
        PROVE  IInv'
    <2> DEFINE r == [races[id] EXCEPT !.status = status]
    <2>1. r \in Race /\ r.status = status /\ r.seat = races[id].seat
          /\ r.stake = races[id].stake /\ r.fee = races[id].fee
          /\ r.fees_collected = races[id].fees_collected
      BY <1>1 DEF Race, Status
    <2>2. races' = [races EXCEPT ![id] = r]
      BY <1>2
    <2> QED
      BY <1>1, <1>2, <2>1, <2>2, AdvanceStep
  <1>3. CASE lock_race(k, id)
    BY <1>2, <1>3 DEF lock_race, CanLock
  <1>4. CASE start_race(k, id)
    BY <1>2, <1>4 DEF start_race
  <1>5. CASE finish_race(k, id, winner)
    <2> DEFINE r == [races[id] EXCEPT !.status = "Finished", !.winner_slot = winner]
    <2>1. r \in Race /\ r.status = "Finished" /\ r.seat = races[id].seat
          /\ r.stake = races[id].stake /\ r.fee = races[id].fee
          /\ r.fees_collected = races[id].fees_collected
      BY <1>1 DEF Race, Status
    <2>2. races' = [races EXCEPT ![id] = r]
      BY <1>5 DEF finish_race, IInv, RaceInv
    <2>3. races[id].status = "Started"
          /\ UNCHANGED <<vault, wallet, treasury, facilitator, next_race_id, total_fees>>
      BY <1>5 DEF finish_race, CanFinish
    <2> QED
      BY <1>1, <2>1, <2>2, <2>3, AdvanceStep
  <1> QED
    BY <1>3, <1>4, <1>5

\* Every instruction keeps the invariant.
LEMMA NextInv == IInv /\ [Next]_vars => IInv'
  <1> SUFFICES ASSUME IInv, [Next]_vars PROVE IInv'
    OBVIOUS
  <1>1. ASSUME NEW k \in Keys, NEW id \in RaceIds, NEW stake \in Stakes, NEW fee \in Fees,
               open_race(k, id, stake, fee)
        PROVE  IInv'
    BY <1>1, OpenStep
  <1>2. ASSUME NEW k \in Keys, NEW id \in RaceIds, NEW winner \in Slots,
               lock_race(k, id) \/ start_race(k, id) \/ finish_race(k, id, winner)
        PROVE  IInv'
    BY <1>2, LockStartFinishStep
  <1>3. ASSUME NEW k \in Keys, NEW id \in RaceIds, settle_race(k, id) PROVE IInv'
    BY <1>3, SettleStep
  <1>4. ASSUME NEW k \in Keys, NEW id \in RaceIds, cancel_race(k, id) PROVE IInv'
    BY <1>4, CancelStep
  <1>5. ASSUME NEW d \in Drivers, NEW id \in RaceIds, NEW slot \in Slots,
               join_race(d, id, slot)
        PROVE  IInv'
    BY <1>5, JoinStep
  <1>6. ASSUME NEW k \in Keys, set_facilitator(k) PROVE IInv'
    BY <1>6 DEF set_facilitator, IInv, RaceInv, BookInv, VaultBacksStakes, VaultFits,
                RunsWithTwoStakes, FreshAhead, Live
  <1>7. CASE UNCHANGED vars
    BY <1>7 DEF vars, IInv, RaceInv, BookInv, VaultBacksStakes, VaultFits,
                RunsWithTwoStakes, FreshAhead, Live
  <1>8. 0 \in Slots
    BY DEF Slots
  <1> QED
    BY <1>1, <1>2, <1>3, <1>4, <1>5, <1>6, <1>7, <1>8 DEF Next

\* The inductive invariant holds in every reachable state.
THEOREM Invariance == Spec => []IInv
  BY InitInv, NextInv, PTL DEF Spec

\* The accounts keep their types.
THEOREM TypeCorrect == Spec => []TypeOK
  BY Invariance, InvProperties, PTL

\* A vault holds exactly the stakes its race still owes.
THEOREM VaultsBackStakes == Spec => []VaultBacksStakes
  BY Invariance, InvProperties, PTL

\* No race runs, finishes or settles without two stakes.
THEOREM TwoStakes == Spec => []RunsWithTwoStakes
  BY Invariance, InvProperties, PTL

\* The treasury's income is the collected fees, race by race and in total.
THEOREM FeesAddUp == Spec => []FeesReconcile
  BY Invariance, InvProperties, PTL

\* The token program can refuse neither a settlement nor a cancellation.
THEOREM ExitFree == Spec => []ExitNeverBlocked
  <1>1. IInv => ExitNeverBlocked
    <2> SUFFICES ASSUME IInv, NEW id \in RaceIds, Live(id)
                 PROVE  /\ races[id].status = "Finished" =>
                              Payout(races[id]) <= vault[id] /\ Payout(races[id]) <= U64Max
                        /\ races[id].status \in Cancelable => Refunds(races[id]) <= vault[id]
      BY DEF ExitNeverBlocked
    <2>1. RaceInv /\ vault[id] \in Nat
      BY DEF IInv, RaceInv
    <2> QED
      BY <2>1, VaultAtExit
  <1> QED
    BY <1>1, Invariance, PTL

-----------------------------------------------------------------------------
\* Which instructions touch a finished or settled race: only its settlement.
LEMMA VerdictStep ==
    ASSUME IInv, [Next]_vars, NEW id \in RaceIds, Live(id),
           races[id].status \in {"Finished", "Settled"}
    PROVE  /\ races'[id].status \in {"Finished", "Settled"}
           /\ races'[id].winner_slot = races[id].winner_slot
  <1>1. /\ races \in [RaceIds -> Race \cup {NoRace}] /\ races[id] \in Race
        /\ id < next_race_id /\ next_race_id \in Nat /\ id \in Nat
    BY LiveRace, Amounts DEF IInv, RaceInv, RaceIds
  <1>2. ASSUME NEW j \in RaceIds, j # id, NEW r, races' = [races EXCEPT ![j] = r]
        PROVE  races'[id] = races[id]
    BY <1>1, <1>2
  <1>3. CASE UNCHANGED races
    BY <1>3
  <1>4. ASSUME NEW k \in Keys, NEW j \in RaceIds, NEW stake \in Stakes, NEW fee \in Fees,
               open_race(k, j, stake, fee)
        PROVE  races'[id] = races[id]
    <2>1. j # id
      BY <1>1, <1>4 DEF open_race
    <2> QED
      BY <1>1, <2>1, <1>4 DEF open_race
  <1>5. ASSUME NEW d \in Drivers, NEW j \in RaceIds, NEW slot \in Slots,
               join_race(d, j, slot)
        PROVE  races'[id] = races[id]
    <2>1. j # id
      BY <1>5 DEF join_race, MayTakeSeat, OpenStatuses
    <2> QED
      BY <1>1, <2>1, <1>5 DEF join_race
  <1>6. ASSUME NEW k \in Keys, NEW j \in RaceIds, NEW winner \in Slots,
               \/ lock_race(k, j) \/ start_race(k, j) \/ finish_race(k, j, winner)
               \/ cancel_race(k, j)
        PROVE  races'[id] = races[id]
    <2>1. j # id
      BY <1>6 DEF lock_race, start_race, finish_race, cancel_race, CanLock, CanFinish,
                  CanCancel, Cancelable, OpenStatuses
    <2> QED
      BY <1>1, <2>1, <1>6 DEF lock_race, start_race, finish_race, cancel_race
  <1>7. ASSUME NEW k \in Keys, NEW j \in RaceIds, settle_race(k, j)
        PROVE  /\ races'[id].status \in {"Finished", "Settled"}
               /\ races'[id].winner_slot = races[id].winner_slot
    <2>1. races' = [races EXCEPT ![j].status = "Settled"]
      BY <1>7 DEF settle_race
    <2>2. CASE j = id
      BY <1>1, <2>1, <2>2 DEF Race
    <2>3. CASE j # id
      BY <1>1, <2>1, <2>3
    <2> QED
      BY <2>2, <2>3
  <1>8. ASSUME NEW k \in Keys, set_facilitator(k) PROVE UNCHANGED races
    BY <1>8 DEF set_facilitator
  <1>9. 0 \in Slots
    BY DEF Slots
  <1> QED
    BY <1>3, <1>4, <1>5, <1>6, <1>7, <1>8, <1>9 DEF Next, vars

\* A verdict is never revised and never canceled.
THEOREM VerdictFinal == Spec => VerdictIsFinal
  <1>1. IInv /\ [Next]_vars =>
          [\A id \in RaceIds : Live(id) /\ races[id].status \in {"Finished", "Settled"} =>
              /\ races'[id].status \in {"Finished", "Settled"}
              /\ races'[id].winner_slot = races[id].winner_slot]_vars
    BY VerdictStep
  <1> QED
    BY <1>1, Invariance, PTL DEF Spec, VerdictIsFinal

-----------------------------------------------------------------------------
\* The contests the race accounts stand for.
Phase == [id \in RaceIds |-> PhaseOf(races[id])]
Entrant == [id \in RaceIds |-> SeatOf(races[id])]
Terms == [id \in RaceIds |-> TermsOf(races[id])]
Winner == [id \in RaceIds |-> WinnerOf(races[id])]

\* A race account as a contest.
LEMMA ContestOfRace ==
    ASSUME NEW r \in Race
    PROVE  /\ SeatOf(r) = r.seat /\ TermsOf(r) = <<r.stake, r.fee>>
           /\ WinnerOf(r) = r.winner_slot
           /\ r.status \in Cancelable => PhaseOf(r) = "open"
           /\ r.status = "Finished" => PhaseOf(r) = "decided"
           /\ r.status = "Settled" => PhaseOf(r) = "paid"
           /\ r.status = "Canceled" => PhaseOf(r) = "calledOff"
  BY RaceTypes DEF PhaseOf, SeatOf, TermsOf, WinnerOf, Cancelable, OpenStatuses

\* Changing one race account changes one contest, and only in the parts in
\* which the two accounts differ.
LEMMA ContestStep ==
    ASSUME RaceInv, NEW id \in RaceIds, NEW r, races' = [races EXCEPT ![id] = r]
    PROVE  /\ Phase' = [Phase EXCEPT ![id] = PhaseOf(r)]
           /\ Entrant' = [Entrant EXCEPT ![id] = SeatOf(r)]
           /\ Terms' = [Terms EXCEPT ![id] = TermsOf(r)]
           /\ Winner' = [Winner EXCEPT ![id] = WinnerOf(r)]
           /\ PhaseOf(r) = PhaseOf(races[id]) => Phase' = Phase
           /\ SeatOf(r) = SeatOf(races[id]) => Entrant' = Entrant
           /\ TermsOf(r) = TermsOf(races[id]) => Terms' = Terms
           /\ WinnerOf(r) = WinnerOf(races[id]) => Winner' = Winner
  <1>1. /\ Phase' = [Phase EXCEPT ![id] = PhaseOf(r)]
        /\ Entrant' = [Entrant EXCEPT ![id] = SeatOf(r)]
        /\ Terms' = [Terms EXCEPT ![id] = TermsOf(r)]
        /\ Winner' = [Winner EXCEPT ![id] = WinnerOf(r)]
    BY DEF Phase, Entrant, Terms, Winner, RaceInv
  <1>2. /\ [Phase EXCEPT ![id] = PhaseOf(races[id])] = Phase
        /\ [Entrant EXCEPT ![id] = SeatOf(races[id])] = Entrant
        /\ [Terms EXCEPT ![id] = TermsOf(races[id])] = Terms
        /\ [Winner EXCEPT ![id] = WinnerOf(races[id])] = Winner
    BY DEF Phase, Entrant, Terms, Winner
  <1> QED
    BY <1>1, <1>2

\* open_race announces a contest.
LEMMA OpenAnnounces ==
    ASSUME IInv, NEW k \in Keys, NEW id \in RaceIds,
           NEW stake \in Stakes, NEW fee \in Fees, open_race(k, id, stake, fee)
    PROVE  Promise!Announce(id, stake, fee)
  <1> DEFINE r == [status |-> "Created", seat |-> [slot \in Slots |-> NoDriver],
                   stake |-> stake, fee |-> fee,
                   fees_collected |-> 0, winner_slot |-> 0]
  <1>1. r \in Race
    BY DEF Race, Status, OpenStatuses, Slots
  <1>2. RaceInv /\ races[id] = NoRace
    BY Amounts DEF open_race, IInv, RaceInv, FreshAhead, RaceIds, Live
  <1>3. races' = [races EXCEPT ![id] = r]
    BY DEF open_race
  <1>4. /\ PhaseOf(r) = "open" /\ TermsOf(r) = <<stake, fee>>
        /\ SeatOf(r) = SeatOf(races[id]) /\ WinnerOf(r) = WinnerOf(races[id])
    <2>1. r.status \in Cancelable
      BY DEF Cancelable, OpenStatuses
    <2> QED
      BY <1>1, <1>2, <2>1, ContestOfRace DEF SeatOf, WinnerOf
  <1> HIDE DEF r
  <1>5. /\ Phase' = [Phase EXCEPT ![id] = "open"]
        /\ Terms' = [Terms EXCEPT ![id] = <<stake, fee>>]
        /\ Entrant' = Entrant /\ Winner' = Winner
    <2>1. /\ Phase' = [Phase EXCEPT ![id] = PhaseOf(r)]
          /\ Entrant' = [Entrant EXCEPT ![id] = SeatOf(r)]
          /\ Terms' = [Terms EXCEPT ![id] = TermsOf(r)]
          /\ Winner' = [Winner EXCEPT ![id] = WinnerOf(r)]
          /\ PhaseOf(r) = PhaseOf(races[id]) => Phase' = Phase
          /\ SeatOf(r) = SeatOf(races[id]) => Entrant' = Entrant
          /\ TermsOf(r) = TermsOf(races[id]) => Terms' = Terms
          /\ WinnerOf(r) = WinnerOf(races[id]) => Winner' = Winner
      BY <1>2, <1>3, ContestStep
    <2> QED
      BY <2>1, <1>4
  <1>6. Phase[id] = "none"
    BY <1>2 DEF Phase, PhaseOf
  <1>7. stake > 0 /\ wallet' = wallet
    BY DEF open_race
  <1> QED
    BY <1>5, <1>6, <1>7 DEF Promise!Announce, Phase, Terms, Entrant, Winner

\* join_race enters a driver.
LEMMA JoinEnters ==
    ASSUME IInv, NEW d \in Drivers, NEW id \in RaceIds, NEW slot \in Slots,
           join_race(d, id, slot)
    PROVE  Promise!Enter(id, slot, d)
  <1> DEFINE r == races[id]
             s == WithDriver(r, slot, d)
  <1>1. RaceInv /\ r \in Race
    BY LiveRace DEF join_race, IInv
  <1>2. r.status \in Cancelable /\ r.status \in OpenStatuses /\ ~Joined(r, slot)
    BY DEF join_race, MayTakeSeat, Cancelable, OpenStatuses
  <1>3. s \in Race /\ s.seat = [r.seat EXCEPT ![slot] = d]
        /\ s.stake = r.stake /\ s.fee = r.fee /\ s.winner_slot = r.winner_slot
        /\ s.status \in Cancelable
    BY <1>1, <1>2, WithDriverType DEF Cancelable, OpenStatuses
  <1>4. races' = [races EXCEPT ![id] = s]
    BY DEF join_race
  <1> HIDE DEF s
  <1>5. /\ PhaseOf(s) = PhaseOf(r) /\ TermsOf(s) = TermsOf(r) /\ WinnerOf(s) = WinnerOf(r)
        /\ SeatOf(s) = [r.seat EXCEPT ![slot] = d]
    BY <1>1, <1>2, <1>3, ContestOfRace
  <1>6. Phase' = Phase /\ Terms' = Terms /\ Winner' = Winner
        /\ Entrant' = [Entrant EXCEPT ![id] = [r.seat EXCEPT ![slot] = d]]
    <2>1. /\ Phase' = [Phase EXCEPT ![id] = PhaseOf(s)]
          /\ Entrant' = [Entrant EXCEPT ![id] = SeatOf(s)]
          /\ Terms' = [Terms EXCEPT ![id] = TermsOf(s)]
          /\ Winner' = [Winner EXCEPT ![id] = WinnerOf(s)]
          /\ PhaseOf(s) = PhaseOf(races[id]) => Phase' = Phase
          /\ SeatOf(s) = SeatOf(races[id]) => Entrant' = Entrant
          /\ TermsOf(s) = TermsOf(races[id]) => Terms' = Terms
          /\ WinnerOf(s) = WinnerOf(races[id]) => Winner' = Winner
      BY <1>1, <1>4, ContestStep
    <2> QED
      BY <2>1, <1>5
  <1>7. Phase[id] = "open" /\ Terms[id] = <<r.stake, r.fee>> /\ Entrant[id] = r.seat
    BY <1>1, <1>2, ContestOfRace DEF Phase, Terms, Entrant
  <1>8. Entrant' = [Entrant EXCEPT ![id][slot] = d] /\ Entrant[id][slot] = NoDriver
    BY <1>2, <1>6, <1>7 DEF Joined
  <1>9. wallet[d] >= r.stake + r.fee /\ wallet' = [wallet EXCEPT ![d] = @ - (r.stake + r.fee)]
    BY DEF join_race
  <1>10. Promise!Stake(id) = r.stake /\ Promise!Fee(id) = r.fee
    BY <1>7 DEF Promise!Stake, Promise!Fee, Terms
  <1> HIDE DEF r
  <1>11. ~Promise!Entered(id, slot)
    BY <1>8 DEF Promise!Entered, Entrant
  <1> QED
    BY <1>6, <1>7, <1>8, <1>9, <1>10, <1>11
    DEF Promise!Enter, Phase, Terms, Entrant, Winner

\* lock_race and start_race are invisible to the drivers' contest.
LEMMA LockStartStutter ==
    ASSUME IInv, NEW k \in Keys, NEW id \in RaceIds, lock_race(k, id) \/ start_race(k, id)
    PROVE  UNCHANGED <<Phase, Entrant, Terms, Winner, wallet>>
  <1>1. PICK status \in {"Locked", "Started"} :
            /\ races[id].status \in Cancelable
            /\ races' = [races EXCEPT ![id].status = status]
            /\ wallet' = wallet
    BY DEF lock_race, start_race, CanLock, Cancelable, OpenStatuses
  <1>2. RaceInv /\ races[id] \in Race
    BY LiveRace DEF lock_race, start_race, IInv
  <1> DEFINE s == [races[id] EXCEPT !.status = status]
  <1>3. s \in Race /\ s.seat = races[id].seat /\ s.stake = races[id].stake
        /\ s.fee = races[id].fee /\ s.winner_slot = races[id].winner_slot
        /\ s.status \in Cancelable
    BY <1>2 DEF Race, Status, Cancelable
  <1>4. races' = [races EXCEPT ![id] = s]
    BY <1>1
  <1> HIDE DEF s
  <1>5. /\ PhaseOf(s) = PhaseOf(races[id]) /\ TermsOf(s) = TermsOf(races[id])
        /\ WinnerOf(s) = WinnerOf(races[id]) /\ SeatOf(s) = SeatOf(races[id])
    BY <1>1, <1>2, <1>3, ContestOfRace
  <1> QED
    BY <1>1, <1>2, <1>4, <1>5, ContestStep

\* finish_race decides a contest.
LEMMA FinishDecides ==
    ASSUME IInv, NEW k \in Keys, NEW id \in RaceIds, NEW win \in Slots,
           finish_race(k, id, win)
    PROVE  Promise!Decide(id, win)
  <1> DEFINE r == races[id]
             s == [r EXCEPT !.status = "Finished", !.winner_slot = win]
  <1>1. RaceInv /\ r \in Race /\ r.status = "Started" /\ wallet' = wallet
    BY LiveRace DEF finish_race, CanFinish, IInv
  <1>2. BothJoined(r)
    BY <1>1 DEF RaceInv, RunsWithTwoStakes, finish_race
  <1>3. s \in Race /\ s.seat = r.seat /\ s.stake = r.stake /\ s.fee = r.fee
        /\ s.winner_slot = win /\ s.status = "Finished"
    BY <1>1 DEF Race, Status
  <1>4. races' = [races EXCEPT ![id] = s]
    BY <1>1 DEF finish_race, RaceInv
  <1> HIDE DEF s
  <1>5. /\ PhaseOf(s) = "decided" /\ WinnerOf(s) = win
        /\ TermsOf(s) = TermsOf(r) /\ SeatOf(s) = SeatOf(r)
    BY <1>1, <1>3, ContestOfRace
  <1>6. /\ Phase' = [Phase EXCEPT ![id] = "decided"] /\ Winner' = [Winner EXCEPT ![id] = win]
        /\ Terms' = Terms /\ Entrant' = Entrant
    <2>1. /\ Phase' = [Phase EXCEPT ![id] = PhaseOf(s)]
          /\ Entrant' = [Entrant EXCEPT ![id] = SeatOf(s)]
          /\ Terms' = [Terms EXCEPT ![id] = TermsOf(s)]
          /\ Winner' = [Winner EXCEPT ![id] = WinnerOf(s)]
          /\ PhaseOf(s) = PhaseOf(races[id]) => Phase' = Phase
          /\ SeatOf(s) = SeatOf(races[id]) => Entrant' = Entrant
          /\ TermsOf(s) = TermsOf(races[id]) => Terms' = Terms
          /\ WinnerOf(s) = WinnerOf(races[id]) => Winner' = Winner
      BY <1>1, <1>4, ContestStep
    <2> QED
      BY <2>1, <1>5
  <1>7. Phase[id] = "open" /\ Entrant[id][0] # NoDriver /\ Entrant[id][1] # NoDriver
    BY <1>1, <1>2, ContestOfRace DEF Phase, Entrant, Cancelable, BothJoined, Joined, Slots
  <1> QED
    BY <1>1, <1>6, <1>7
    DEF Promise!Decide, Promise!Entered, Phase, Terms, Entrant, Winner

\* settle_race pays its winner.
LEMMA SettlePays ==
    ASSUME IInv, NEW k \in Keys, NEW id \in RaceIds, settle_race(k, id)
    PROVE  Promise!PayWinner(id)
  <1> DEFINE r == races[id]
             s == [r EXCEPT !.status = "Settled"]
  <1>1. RaceInv /\ r \in Race /\ r.status = "Finished"
    BY LiveRace DEF settle_race, IInv
  <1>2. s \in Race /\ s.seat = r.seat /\ s.stake = r.stake /\ s.fee = r.fee
        /\ s.winner_slot = r.winner_slot /\ s.status = "Settled"
    BY <1>1 DEF Race, Status, Closed
  <1>3. races' = [races EXCEPT ![id] = s]
    BY DEF settle_race
  <1> HIDE DEF s
  <1>4. /\ PhaseOf(s) = "paid" /\ WinnerOf(s) = WinnerOf(r)
        /\ TermsOf(s) = TermsOf(r) /\ SeatOf(s) = SeatOf(r)
    BY <1>1, <1>2, ContestOfRace
  <1>5. /\ Phase' = [Phase EXCEPT ![id] = "paid"]
        /\ Winner' = Winner /\ Terms' = Terms /\ Entrant' = Entrant
    <2>1. /\ Phase' = [Phase EXCEPT ![id] = PhaseOf(s)]
          /\ Entrant' = [Entrant EXCEPT ![id] = SeatOf(s)]
          /\ Terms' = [Terms EXCEPT ![id] = TermsOf(s)]
          /\ Winner' = [Winner EXCEPT ![id] = WinnerOf(s)]
          /\ PhaseOf(s) = PhaseOf(races[id]) => Phase' = Phase
          /\ SeatOf(s) = SeatOf(races[id]) => Entrant' = Entrant
          /\ TermsOf(s) = TermsOf(races[id]) => Terms' = Terms
          /\ WinnerOf(s) = WinnerOf(races[id]) => Winner' = Winner
      BY <1>1, <1>3, ContestStep
    <2> QED
      BY <2>1, <1>4
  <1>6. Phase[id] = "decided" /\ Entrant[id] = r.seat /\ Winner[id] = r.winner_slot
        /\ Terms[id] = <<r.stake, r.fee>>
    BY <1>1, ContestOfRace DEF Phase, Entrant, Winner, Terms
  <1>7. wallet' = [wallet EXCEPT ![r.seat[r.winner_slot]] = @ + 2 * r.stake]
    BY DEF settle_race, Payout
  <1>8. Promise!Stake(id) = r.stake
    BY <1>6 DEF Promise!Stake, Terms
  <1>9. wallet' = [wallet EXCEPT ![Entrant[id][Winner[id]]] = @ + 2 * Promise!Stake(id)]
    BY <1>6, <1>7, <1>8
  <1> QED
    BY <1>5, <1>6, <1>9 DEF Promise!PayWinner, Phase, Terms, Entrant, Winner

\* cancel_race calls it off and pays each entrant back.
LEMMA CancelCallsOff ==
    ASSUME IInv, NEW k \in Keys, NEW id \in RaceIds, cancel_race(k, id)
    PROVE  Promise!CallOff(id)
  <1> DEFINE r == races[id]
             s == [r EXCEPT !.status = "Canceled"]
  <1>1. RaceInv /\ r \in Race /\ r.status \in Cancelable
    BY LiveRace DEF cancel_race, CanCancel, IInv
  <1>2. s \in Race /\ s.seat = r.seat /\ s.stake = r.stake /\ s.fee = r.fee
        /\ s.winner_slot = r.winner_slot /\ s.status = "Canceled"
    BY <1>1 DEF Race, Status, Closed
  <1>3. races' = [races EXCEPT ![id] = s]
    BY DEF cancel_race
  <1> HIDE DEF s
  <1>4. /\ PhaseOf(s) = "calledOff" /\ WinnerOf(s) = WinnerOf(r)
        /\ TermsOf(s) = TermsOf(r) /\ SeatOf(s) = SeatOf(r)
    BY <1>1, <1>2, ContestOfRace
  <1>5. /\ Phase' = [Phase EXCEPT ![id] = "calledOff"]
        /\ Winner' = Winner /\ Terms' = Terms /\ Entrant' = Entrant
    <2>1. /\ Phase' = [Phase EXCEPT ![id] = PhaseOf(s)]
          /\ Entrant' = [Entrant EXCEPT ![id] = SeatOf(s)]
          /\ Terms' = [Terms EXCEPT ![id] = TermsOf(s)]
          /\ Winner' = [Winner EXCEPT ![id] = WinnerOf(s)]
          /\ PhaseOf(s) = PhaseOf(races[id]) => Phase' = Phase
          /\ SeatOf(s) = SeatOf(races[id]) => Entrant' = Entrant
          /\ TermsOf(s) = TermsOf(races[id]) => Terms' = Terms
          /\ WinnerOf(s) = WinnerOf(races[id]) => Winner' = Winner
      BY <1>1, <1>3, ContestStep
    <2> QED
      BY <2>1, <1>4
  <1>6. Phase[id] = "open" /\ Entrant[id] = r.seat /\ Terms[id] = <<r.stake, r.fee>>
    BY <1>1, ContestOfRace DEF Phase, Entrant, Terms
  <1>7. wallet' = [d \in Drivers |-> wallet[d] + Refund(r, d)]
    BY DEF cancel_race
  <1> QED
    BY <1>5, <1>6, <1>7
    DEF Promise!CallOff, Promise!ShareOf, Promise!Stake, Refund, Phase, Terms, Entrant, Winner

\* The escrow implements the staked race it promises.
THEOREM Refinement == Spec => KeepsPromise
  <1>1. Init => Promise!SInit
    BY DEF Init, Promise!SInit, Promise!Seats, Slots, PhaseOf, SeatOf, TermsOf, WinnerOf
  <1>2. IInv /\ [Next]_vars => [Promise!SNext]_(Promise!svars)
    <2> SUFFICES ASSUME IInv, [Next]_vars
                 PROVE  \/ Promise!SNext
                        \/ UNCHANGED <<Phase, Entrant, Terms, Winner, wallet>>
      BY DEF Promise!svars, Phase, Entrant, Terms, Winner
    <2> USE DEF Promise!SNext
    <2>1. ASSUME NEW k \in Keys, NEW id \in RaceIds,
                 NEW stake \in Stakes, NEW fee \in Fees, open_race(k, id, stake, fee)
          PROVE  Promise!SNext
      BY <2>1, OpenAnnounces
    <2>2. ASSUME NEW d \in Drivers, NEW id \in RaceIds, NEW slot \in Slots,
                 join_race(d, id, slot)
          PROVE  Promise!SNext
      BY <2>2, JoinEnters DEF Promise!Seats, Slots
    <2>3. ASSUME NEW k \in Keys, NEW id \in RaceIds,
                 lock_race(k, id) \/ start_race(k, id)
          PROVE  UNCHANGED <<Phase, Entrant, Terms, Winner, wallet>>
      BY <2>3, LockStartStutter
    <2>4. ASSUME NEW k \in Keys, NEW id \in RaceIds, NEW win \in Slots,
                 finish_race(k, id, win)
          PROVE  Promise!SNext
      BY <2>4, FinishDecides DEF Promise!Seats, Slots
    <2>5. ASSUME NEW k \in Keys, NEW id \in RaceIds, settle_race(k, id)
          PROVE  Promise!SNext
      BY <2>5, SettlePays
    <2>6. ASSUME NEW k \in Keys, NEW id \in RaceIds, cancel_race(k, id)
          PROVE  Promise!SNext
      BY <2>6, CancelCallsOff
    <2>7. CASE UNCHANGED <<races, wallet>>
      BY <2>7 DEF Phase, Entrant, Terms, Winner
    <2> HIDE DEF Promise!SNext
    <2>8. ASSUME NEW k \in Keys, set_facilitator(k) PROVE UNCHANGED <<races, wallet>>
      BY <2>8 DEF set_facilitator
    <2> QED
      BY <2>1, <2>2, <2>3, <2>4, <2>5, <2>6, <2>7, <2>8 DEF Next, vars
  <1> QED
    BY <1>1, <1>2, Invariance, PTL DEF Spec, KeepsPromise, Promise!SSpec
=============================================================================
