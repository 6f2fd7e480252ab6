--------------------------- MODULE RoundChainProofs ---------------------------
(***************************************************************************)
(* Proofs of the safety properties of RoundChain, for any number of        *)
(* requests, races, drivers, crashes and lost answers: whatever order the  *)
(* handlers' steps, the transactions and the answers come in, the round    *)
(* and its escrow agree.                                                   *)
(*                                                                         *)
(* The operators the invariant is made of take the round (r, s), the race  *)
(* accounts (R, S) and a request (q) as arguments, so that they speak of   *)
(* the states before and after a step alike.                               *)
(***************************************************************************)
EXTENDS RoundChain, Integers, TLAPS

Answering == {"tx", "answer", "unheard"}
ChainOps == {"open", "join", "lock", "start", "finish-chain", "settle", "cancel"}
Decided == {"Finished", "Settled"}

\* The escrow of the invariant: its types, no account ahead of the next id, and two
\* drivers show in the status.
ChainOk ==
    /\ Chain!TypeOK
    /\ \A id \in RaceIds : id >= next_race_id => races[id] = NoRace
    /\ \A id \in RaceIds :
          Chain!Live(id) /\ Chain!BothJoined(races[id]) => races[id].status # "Created"

\* What a round says of itself and of its escrow.
RoundOk(r, R) ==
    /\ r \in Round
    /\ r.status = "challenge" => r.driver[0] # NoDriver /\ r.driver[1] = NoDriver
    /\ r.winner # NoWinner => r.status \in {"finished", "settled", "canceled"}
    /\ r.status \in {"finished", "settled"} => r.winner # NoWinner
    /\ Ours(r) => /\ R[r.chainRaceId] # NoRace
                  /\ R[r.chainRaceId].status \in Decided => r.winner = R[r.chainRaceId].winner_slot
    /\ r.chainStatus # "not-opened" =>
          Ours(r) /\ R[r.chainRaceId].status \in Reached(r.chainStatus)
    /\ \A slot \in Slots : r.chainJoined[slot] =>
          /\ Ours(r) /\ Chain!Joined(R[r.chainRaceId], slot)
          /\ R[r.chainRaceId].seat[slot] = r.driver[slot]
    /\ r.status = "settled" => Ours(r) /\ R[r.chainRaceId].status = "Settled"

\* The disk lags behind the memory only while lockRound waits for the robots.
SavedOk(r, s) ==
    \/ s = r
    \/ r.status = "locked" /\ s = [r EXCEPT !.status = "ready"]

\* Who sits in a race, if not by a join from outside (O), is the round's driver in
\* the round's race; and no other race gets beyond its joins, since the facilitator's
\* instructions come from the sidecar, for the race of the round.
SeatsKnown(r, R, O) ==
    \A id \in RaceIds : R[id] # NoRace =>
        /\ \A slot \in Slots : Chain!Joined(R[id], slot) =>
              \/ id = r.chainRaceId /\ R[id].seat[slot] = r.driver[slot]
              \/ <<id, slot>> \in O
        /\ id = r.chainRaceId \/ R[id].status \in Chain!OpenStatuses

\* The effect of a transaction is on the chain.
Landed(q, R) ==
    /\ q.op = "open" => R[q.race] # NoRace
    /\ q.op = "join" => /\ Chain!Joined(R[q.race], q.slot)
                        /\ R[q.race].seat[q.slot] = q.driver[q.slot]
    /\ q.op = "lock" => R[q.race].status \in Reached("locked")
    /\ q.op = "start" => R[q.race].status \in Reached("started")
    /\ q.op = "finish-chain" => R[q.race].status \in Reached("finished")
    /\ q.op = "settle" => R[q.race].status = "Settled"
    /\ q.op = "cancel" => R[q.race].status = "Canceled"

\* What a handler holds is still true of the round: a transaction is for the
\* race of the round, with the round's driver and the round's winner.
Holds(q, r) ==
    /\ q.at = "fetch" => q.op = "open"
    /\ q.at = "camera" => q.winner \in Slots
    /\ q.at \in Answering =>
          /\ q.op \in ChainOps
          /\ q.op = "open" => q.race \in RaceIds
          /\ q.op # "open" => Ours(r) /\ q.race = r.chainRaceId
          /\ q.op = "join" => r.driver[q.slot] # NoDriver /\ q.driver[q.slot] = r.driver[q.slot]
          /\ q.op = "finish-chain" => r.winner # NoWinner /\ q.winner = r.winner

RequestOk(q, r, R) == q \in Request /\ Holds(q, r) /\ (q.at = "answer" => Landed(q, R))

\* The inductive invariant.
IInv ==
    /\ ChainOk
    /\ RoundOk(round, races)
    /\ SavedOk(round, saved)
    /\ SeatsKnown(round, races, outside)
    /\ req \in [Requests -> Request]
    /\ \A h \in Requests : RequestOk(req[h], round, races)
    /\ lost \in Nat /\ outside \subseteq RaceIds \X Slots

\* What no step takes back of a round: its race, its drivers and its outcome.
Keeps(r, s) ==
    /\ Ours(r) => s.chainRaceId = r.chainRaceId
    /\ \A slot \in Slots : r.driver[slot] # NoDriver => s.driver[slot] = r.driver[slot]
    /\ r.winner # NoWinner => s.winner = r.winner
    /\ r.status = "settled" => s.status = "settled"
    /\ r.status = "finished" => s.status \in {"finished", "settled", "canceled"}

\* What no instruction takes back of a race account: its drivers, the statuses
\* it has passed and its winner.
Grows(a, b) ==
    /\ \A slot \in Slots : Chain!Joined(a, slot) => b.seat[slot] = a.seat[slot]
    /\ \A cs \in ChainStatuses \ {"not-opened"} :
          a.status \in Reached(cs) => b.status \in Reached(cs)
    /\ a.status \in Decided => b.winner_slot = a.winner_slot

-----------------------------------------------------------------------------
\* The constants, and the values the proofs tell apart.
LEMMA Constants ==
    /\ NoWinner \notin Slots /\ NoDriver \notin Drivers /\ NoRace \notin RaceIds
    /\ RaceIds \subseteq Nat /\ Slots = {0, 1}
    /\ Stakes \subseteq Nat /\ Fees \subseteq Nat /\ U64Max \in Nat
    /\ Chain!Slots = Slots /\ Chain!RaceIds = RaceIds
    /\ NoRace \notin Chain!Race
  BY RoundAssumption, ChainAssumption DEF Slots, Chain!Slots, RaceIds, Chain!RaceIds

\* A race account is made of these.
LEMMA AccountTypes ==
    ASSUME NEW a \in Chain!Race
    PROVE  /\ a.stake \in Nat /\ a.fee \in Nat /\ a.status \in Chain!Status
           /\ a.winner_slot \in Slots /\ a # NoRace
           /\ a.seat \in [Slots -> Drivers \cup {NoDriver}]
  <1>1. /\ a.stake \in Stakes /\ a.fee \in Fees /\ a.status \in Chain!Status
        /\ a.winner_slot \in Chain!Slots
        /\ a.seat \in [Chain!Slots -> Drivers \cup {NoDriver}]
    BY DEF Chain!Race
  <1> QED
    BY <1>1, Constants

\* A live race has an account.
LEMMA LiveAccount ==
    ASSUME ChainOk, NEW id \in RaceIds, races[id] # NoRace
    PROVE  races[id] \in Chain!Race /\ vault[id] \in Nat
  BY Constants DEF ChainOk, Chain!TypeOK

\* The statuses a race passes are closed under the program's transitions.
LEMMA StatusAdvances ==
    ASSUME NEW a, NEW b,
           \/ a \in {"Created", "Joined"} /\ b = "Joined"
           \/ a = "Joined" /\ b = "Locked"
           \/ a = "Locked" /\ b = "Started"
           \/ a = "Started" /\ b = "Finished"
           \/ a = "Finished" /\ b = "Settled"
           \/ a \in {"Created", "Joined", "Locked", "Started"} /\ b = "Canceled",
           NEW cs \in ChainStatuses \ {"not-opened"}, a \in Reached(cs)
    PROVE  b \in Reached(cs)
  <1> USE DEF Reached, Chain!Status, Chain!OpenStatuses, Chain!Closed
  <1>1. CASE cs = "opened"
    BY <1>1
  <1>2. CASE cs = "joined"
    BY <1>2
  <1>3. CASE cs = "locked"
    BY <1>3
  <1>4. CASE cs = "started"
    BY <1>4
  <1>5. CASE cs = "finished"
    BY <1>5
  <1>6. CASE cs = "settled"
    BY <1>6
  <1>7. CASE cs = "canceled"
    BY <1>7
  <1> QED
    BY <1>1, <1>2, <1>3, <1>4, <1>5, <1>6, <1>7 DEF ChainStatuses

-----------------------------------------------------------------------------
\* The instructions keep the escrow's part of the invariant.

\* The account of race id becomes b and its vault v: b shows two drivers in its
\* status.
AccountBecomes(id, b, v) ==
    /\ Chain!BothJoined(b) => b.status # "Created"
    /\ races' = [races EXCEPT ![id] = b]
    /\ vault' = [vault EXCEPT ![id] = v]
    /\ wallet' \in [Drivers -> Nat] /\ treasury' \in Nat /\ total_fees' \in Nat
    /\ UNCHANGED <<facilitator, next_race_id>>

\* An instruction on a live race, which leaves account b and v in the vault.
LEMMA AccountStep ==
    ASSUME ChainOk, NEW id \in RaceIds, races[id] # NoRace,
           NEW b \in Chain!Race, NEW v \in Nat, AccountBecomes(id, b, v)
    PROVE  ChainOk'
  <1> USE DEF AccountBecomes
  <1>1. b # NoRace
    BY AccountTypes
  <1>2. /\ races \in [RaceIds -> Chain!Race \cup {NoRace}] /\ vault \in [RaceIds -> Nat]
        /\ facilitator \in Keys /\ next_race_id \in Nat
    BY Constants DEF ChainOk, Chain!TypeOK
  <1>3. /\ races'[id] = b /\ vault'[id] = v
        /\ \A j \in RaceIds : j # id => races'[j] = races[j] /\ vault'[j] = vault[j]
    BY <1>2
  <1>4. Chain!TypeOK'
    <2>1. races' \in [RaceIds -> Chain!Race \cup {NoRace}] /\ vault' \in [RaceIds -> Nat]
      BY <1>2
    <2> QED
      BY <1>2, <2>1, Constants DEF Chain!TypeOK
  <1>5. \A j \in RaceIds : j >= next_race_id' => races'[j] = NoRace
    BY <1>3 DEF ChainOk
  <1>6. \A j \in RaceIds :
          Chain!Live(j)' /\ Chain!BothJoined(races'[j]) => races'[j].status # "Created"
    BY <1>3 DEF ChainOk, Chain!Live
  <1> QED
    BY <1>4, <1>5, <1>6 DEF ChainOk

\* open_race makes an account nobody sits in, and touches no other.
LEMMA OpenStep ==
    ASSUME ChainOk, NEW k \in Keys, NEW id \in RaceIds, NEW stake \in Stakes, NEW fee \in Fees,
           Chain!open_race(k, id, stake, fee)
    PROVE  /\ ChainOk'
           /\ races[id] = NoRace /\ races'[id] # NoRace
           /\ races'[id].status = "Created" /\ \A slot \in Slots : races'[id].seat[slot] = NoDriver
           /\ \A j \in RaceIds : j # id => races'[j] = races[j]
  <1> DEFINE b == [status |-> "Created", seat |-> [slot \in Chain!Slots |-> NoDriver],
                   stake |-> stake, fee |-> fee, fees_collected |-> 0, winner_slot |-> 0]
  <1>1. b \in Chain!Race
    BY Constants DEF Chain!Race, Chain!Status, Chain!OpenStatuses, Chain!Slots
  <1>2. b.status = "Created" /\ \A slot \in Slots : b.seat[slot] = NoDriver
    BY Constants
  <1>3. id = next_race_id /\ next_race_id' = id + 1 /\ races' = [races EXCEPT ![id] = b]
        /\ UNCHANGED <<vault, wallet, treasury, facilitator, total_fees>>
    BY DEF Chain!open_race
  <1> HIDE DEF b
  <1>4. /\ races \in [RaceIds -> Chain!Race \cup {NoRace}] /\ vault \in [RaceIds -> Nat]
        /\ id \in Nat /\ b # NoRace
    BY <1>1, Constants, AccountTypes DEF ChainOk, Chain!TypeOK
  <1>5. races[id] = NoRace
    BY <1>3, <1>4 DEF ChainOk
  <1>6. /\ races'[id] = b
        /\ \A j \in RaceIds : j # id => races'[j] = races[j]
    BY <1>3, <1>4
  <1>7. Chain!TypeOK'
    <2>1. races' \in [RaceIds -> Chain!Race \cup {NoRace}]
      BY <1>1, <1>3, <1>4
    <2>2. next_race_id' \in Nat
      BY <1>3, <1>4
    <2> QED
      BY <1>3, <2>1, <2>2, Constants DEF Chain!TypeOK, ChainOk
  <1>8. \A j \in RaceIds : j >= next_race_id' => races'[j] = NoRace
    <2> SUFFICES ASSUME NEW j \in RaceIds, j >= next_race_id' PROVE races'[j] = NoRace
      OBVIOUS
    <2>1. j \in Nat /\ j >= next_race_id /\ j # id
      BY <1>3, <1>4, Constants
    <2> QED
      BY <1>6, <2>1 DEF ChainOk
  <1>9. ~Chain!BothJoined(b)
    BY <1>2, Constants DEF Chain!BothJoined, Chain!Joined
  <1>10. \A j \in RaceIds :
          Chain!Live(j)' /\ Chain!BothJoined(races'[j]) => races'[j].status # "Created"
    BY <1>6, <1>9 DEF ChainOk, Chain!Live
  <1>11. ChainOk'
    BY <1>7, <1>8, <1>10 DEF ChainOk
  <1> QED
    BY <1>2, <1>4, <1>5, <1>6, <1>11

\* join_race seats d and nobody else, and moves the status when both sit.
LEMMA JoinStep ==
    ASSUME ChainOk, NEW d \in Drivers, NEW id \in RaceIds, NEW slot \in Slots,
           Chain!join_race(d, id, slot)
    PROVE  /\ ChainOk'
           /\ races[id] # NoRace /\ races'[id] # NoRace /\ Grows(races[id], races'[id])
           /\ races'[id].seat = [races[id].seat EXCEPT ![slot] = d]
           /\ races'[id].status \in Chain!OpenStatuses
           /\ \A j \in RaceIds : j # id => races'[j] = races[j]
  <1> DEFINE a == races[id]
             b == Chain!WithDriver(a, slot, d)
             v == vault[id] + a.stake
  <1>1. a # NoRace
    BY DEF Chain!join_race, Chain!Live
  <1>2. a \in Chain!Race /\ vault[id] \in Nat
    BY <1>1, LiveAccount
  <1>3. /\ a.stake \in Nat /\ a.fee \in Nat /\ a.fees_collected \in Nat
        /\ a.seat \in [Slots -> Drivers \cup {NoDriver}]
    BY <1>2, AccountTypes DEF Chain!Race
  <1>4. a.status \in {"Created", "Joined"} /\ a.seat[slot] = NoDriver
    BY DEF Chain!join_race, Chain!MayTakeSeat, Chain!OpenStatuses, Chain!Joined
  <1>5. races' = [races EXCEPT ![id] = b] /\ vault' = [vault EXCEPT ![id] = v]
    BY DEF Chain!join_race, ChainOk, Chain!TypeOK
  <1>6. wallet' = [wallet EXCEPT ![d] = @ - (a.stake + a.fee)] /\ wallet[d] >= a.stake + a.fee
        /\ treasury' = treasury + a.fee /\ total_fees' = total_fees + a.fee
        /\ UNCHANGED <<facilitator, next_race_id>>
    BY DEF Chain!join_race
  <1>7. /\ wallet \in [Drivers -> Nat] /\ treasury \in Nat /\ total_fees \in Nat
        /\ races \in [RaceIds -> Chain!Race \cup {NoRace}]
    BY Constants DEF ChainOk, Chain!TypeOK
  <1> DEFINE c == [a EXCEPT !.seat[slot] = d, !.fees_collected = @ + a.fee]
  <1>8. /\ b = [c EXCEPT !.status = IF Chain!BothJoined(c) THEN "Joined" ELSE @]
        /\ c = [a EXCEPT !.seat = [a.seat EXCEPT ![slot] = d],
                         !.fees_collected = a.fees_collected + a.fee]
    BY DEF Chain!WithDriver
  <1> HIDE DEF a, b, c, v
  <1>9. [a.seat EXCEPT ![slot] = d] \in [Chain!Slots -> Drivers \cup {NoDriver}]
    BY <1>3, Constants
  <1>10. c \in Chain!Race /\ c.seat = [a.seat EXCEPT ![slot] = d] /\ c.status = a.status
    <2>1. a.fees_collected + a.fee \in Nat
      BY <1>3
    <2> DEFINE seats == [a.seat EXCEPT ![slot] = d]
               total == a.fees_collected + a.fee
    <2>2. c = [a EXCEPT !.seat = seats, !.fees_collected = total]
      BY <1>8
    <2>3. seats \in [Chain!Slots -> Drivers \cup {NoDriver}] /\ total \in Nat
      BY <1>9, <2>1
    <2> HIDE DEF seats, total
    <2>4. c \in Chain!Race /\ c.seat = seats /\ c.status = a.status
      BY <1>2, <2>2, <2>3 DEF Chain!Race
    <2> QED
      BY <2>4 DEF seats
  <1>11. b \in Chain!Race /\ b.seat = c.seat
         /\ b.status = (IF Chain!BothJoined(c) THEN "Joined" ELSE a.status)
    BY <1>8, <1>10 DEF Chain!Race, Chain!Status, Chain!OpenStatuses
  <1>12. Chain!BothJoined(b) <=> Chain!BothJoined(c)
    BY <1>11 DEF Chain!BothJoined, Chain!Joined
  <1>13. Chain!BothJoined(b) => b.status # "Created"
    BY <1>11, <1>12
  <1>15. v \in Nat
    BY <1>2, <1>3 DEF v
  <1>16. wallet' \in [Drivers -> Nat] /\ treasury' \in Nat /\ total_fees' \in Nat
    BY <1>3, <1>6, <1>7
  <1>17. races[id] # NoRace
    BY <1>1 DEF a
  <1>18. ChainOk'
    <2>1. AccountBecomes(id, b, v)
      BY <1>5, <1>6, <1>13, <1>16 DEF AccountBecomes
    <2> QED BY <1>11, <1>15, <1>17, <2>1, AccountStep
  <1>19. Grows(a, b)
    <2>1. \A other \in Slots : Chain!Joined(a, other) => b.seat[other] = a.seat[other]
      BY <1>3, <1>4, <1>10, <1>11 DEF Chain!Joined
    <2>2. \A cs \in ChainStatuses \ {"not-opened"} :
             a.status \in Reached(cs) => b.status \in Reached(cs)
      BY <1>4, <1>11, StatusAdvances
    <2> QED
      BY <1>4, <2>1, <2>2 DEF Grows, Decided
  <1>20. b.status \in Chain!OpenStatuses
    BY <1>4, <1>11 DEF Chain!OpenStatuses
  <1>21. races'[id] = b /\ b # NoRace /\ \A j \in RaceIds : j # id => races'[j] = races[j]
    BY <1>5, <1>7, <1>11, Constants
  <1> QED
    BY <1>1, <1>10, <1>11, <1>18, <1>19, <1>20, <1>21 DEF a

\* lock_race, start_race and finish_race advance the status; finish_race also
\* writes the winner.
LEMMA AdvanceStep ==
    ASSUME ChainOk, NEW id \in RaceIds, races[id] # NoRace, NEW b \in Chain!Race,
           \/ races[id].status = "Joined" /\ b.status = "Locked"
           \/ races[id].status = "Locked" /\ b.status = "Started"
           \/ races[id].status = "Started" /\ b.status = "Finished",
           b.seat = races[id].seat,
           races' = [races EXCEPT ![id] = b],
           UNCHANGED <<vault, wallet, treasury, facilitator, next_race_id, total_fees>>
    PROVE  /\ ChainOk' /\ races'[id] = b /\ b # NoRace /\ Grows(races[id], b)
           /\ \A j \in RaceIds : j # id => races'[j] = races[j]
  <1>1. vault[id] \in Nat /\ vault' = [vault EXCEPT ![id] = vault[id]]
    BY LiveAccount, Constants DEF ChainOk, Chain!TypeOK
  <1>3. wallet' \in [Drivers -> Nat] /\ treasury' \in Nat /\ total_fees' \in Nat
    BY DEF ChainOk, Chain!TypeOK
  <1>4. ChainOk'
    <2>1. AccountBecomes(id, b, vault[id])
      <3>1. b.status # "Created"
        OBVIOUS
      <3> QED BY <1>1, <1>3, <3>1 DEF AccountBecomes
    <2> QED BY <1>1, <2>1, AccountStep
  <1>5. /\ races'[id] = b
        /\ \A j \in RaceIds : j # id => races'[j] = races[j]
    BY Constants DEF ChainOk, Chain!TypeOK
  <1>6. Grows(races[id], b)
    <2>1. \A cs \in ChainStatuses \ {"not-opened"} :
             races[id].status \in Reached(cs) => b.status \in Reached(cs)
      BY StatusAdvances
    <2> QED
      BY <2>1 DEF Grows, Decided, Chain!Joined
  <1> QED
    BY <1>4, <1>5, <1>6, AccountTypes

\* settle_race and cancel_race close a race and pay out of its vault.
LEMMA CloseStep ==
    ASSUME ChainOk, NEW id \in RaceIds, races[id] # NoRace, NEW status, NEW paid \in Nat,
           \/ races[id].status = "Finished" /\ status = "Settled"
           \/ races[id].status \in {"Created", "Joined", "Locked", "Started"} /\ status = "Canceled",
           paid <= vault[id],
           races' = [races EXCEPT ![id].status = status],
           vault' = [vault EXCEPT ![id] = @ - paid],
           wallet' \in [Drivers -> Nat],
           UNCHANGED <<treasury, facilitator, next_race_id, total_fees>>
    PROVE  /\ ChainOk' /\ races'[id] # NoRace /\ Grows(races[id], races'[id])
           /\ races'[id].status = status /\ races'[id].seat = races[id].seat
           /\ races'[id].winner_slot = races[id].winner_slot
           /\ \A j \in RaceIds : j # id => races'[j] = races[j]
  <1> DEFINE a == races[id]
             b == [a EXCEPT !.status = status]
  <1>1. a \in Chain!Race /\ vault[id] \in Nat
    BY LiveAccount
  <1>2. b \in Chain!Race /\ b.status = status /\ b.seat = a.seat
        /\ b.winner_slot = a.winner_slot
    BY <1>1 DEF Chain!Race, Chain!Status, Chain!Closed
  <1>3. races' = [races EXCEPT ![id] = b]
    BY DEF ChainOk, Chain!TypeOK
  <1>4. vault[id] - paid \in Nat /\ vault' = [vault EXCEPT ![id] = vault[id] - paid]
    BY <1>1
  <1> HIDE DEF b
  <1>7. treasury' \in Nat /\ total_fees' \in Nat
    BY DEF ChainOk, Chain!TypeOK
  <1>8. b.status # "Created"
    BY <1>2
  <1>9. ChainOk'
    <2>1. AccountBecomes(id, b, vault[id] - paid)
      BY <1>3, <1>4, <1>7, <1>8 DEF AccountBecomes
    <2> QED BY <1>2, <1>4, <2>1, AccountStep
  <1>10. Grows(a, b)
    <2>1. \A cs \in ChainStatuses \ {"not-opened"} :
             a.status \in Reached(cs) => b.status \in Reached(cs)
      BY <1>2, StatusAdvances
    <2> QED
      BY <1>2, <2>1 DEF Grows, Decided, Chain!Joined
  <1>11. races'[id] = b /\ b # NoRace /\ \A j \in RaceIds : j # id => races'[j] = races[j]
    BY <1>2, <1>3, AccountTypes, Constants DEF ChainOk, Chain!TypeOK
  <1> QED
    BY <1>2, <1>9, <1>10, <1>11

-----------------------------------------------------------------------------
\* What a transaction of the sidecar does to the escrow.

\* The accounts after a transaction for request q: the invariant of the escrow
\* holds, and only the account of q has changed.
Lands(q) ==
    /\ ChainOk'
    /\ races'[q.race] # NoRace
    /\ \A id \in RaceIds : id # q.race => races'[id] = races[id]

\* A joining transaction seats the driver of the request.
LEMMA JoinLands ==
    ASSUME ChainOk, NEW q \in Request, q.race \in RaceIds, q.op = "join", q.driver[q.slot] # NoDriver,
           Chain!join_race(q.driver[q.slot], q.race, q.slot)
    PROVE  /\ Lands(q) /\ races[q.race] # NoRace /\ Grows(races[q.race], races'[q.race])
           /\ races'[q.race].seat = [races[q.race].seat EXCEPT ![q.slot] = q.driver[q.slot]]
           /\ races'[q.race].status \notin Decided
  <1> DEFINE d == q.driver[q.slot]
             id == q.race
             slot == q.slot
  <1>1. slot \in Slots /\ d \in Drivers /\ id \in RaceIds
    BY DEF Request
  <1>2. Chain!join_race(d, id, slot)
    OBVIOUS
  <1> HIDE DEF d, id, slot
  <1>3. /\ ChainOk'
        /\ races[id] # NoRace /\ races'[id] # NoRace /\ Grows(races[id], races'[id])
        /\ races'[id].seat = [races[id].seat EXCEPT ![slot] = d]
        /\ races'[id].status \in Chain!OpenStatuses
        /\ \A j \in RaceIds : j # id => races'[j] = races[j]
    BY <1>1, <1>2, JoinStep
  <1> QED
    BY <1>3 DEF Lands, Decided, Chain!OpenStatuses, d, id, slot

\* A lock, a start and a finish advance the status.
LEMMA AdvanceLands ==
    ASSUME ChainOk, NEW q \in Request, q.race \in RaceIds, NEW k \in Keys,
           \/ q.op = "lock" /\ Chain!lock_race(k, q.race)
           \/ q.op = "start" /\ Chain!start_race(k, q.race)
           \/ q.op = "finish-chain" /\ q.winner \in Slots /\ Chain!finish_race(k, q.race, q.winner)
    PROVE  /\ Lands(q) /\ races[q.race] # NoRace /\ Grows(races[q.race], races'[q.race])
           /\ races'[q.race].seat = races[q.race].seat
           /\ q.op = "lock" => races'[q.race].status = "Locked"
           /\ q.op = "start" => races'[q.race].status = "Started"
           /\ q.op = "finish-chain" => /\ races'[q.race].status = "Finished"
                                       /\ races'[q.race].winner_slot = q.winner
  <1> DEFINE id == q.race
             a == races[id]
  <1>1. a # NoRace /\ races \in [RaceIds -> Chain!Race \cup {NoRace}]
    BY Constants DEF Chain!lock_race, Chain!start_race, Chain!finish_race, Chain!Live,
                     ChainOk, Chain!TypeOK
  <1>2. a \in Chain!Race
    BY <1>1, LiveAccount
  <1>3. UNCHANGED <<vault, wallet, treasury, facilitator, next_race_id, total_fees>>
    BY DEF Chain!lock_race, Chain!start_race, Chain!finish_race
  <1>4. CASE q.op = "lock" /\ Chain!lock_race(k, id)
    <2> DEFINE b == [a EXCEPT !.status = "Locked"]
    <2>1. a.status = "Joined" /\ races' = [races EXCEPT ![id] = b]
      BY <1>1, <1>4 DEF Chain!lock_race, Chain!CanLock
    <2>2. b \in Chain!Race /\ b.status = "Locked" /\ b.seat = a.seat
      BY <1>2 DEF Chain!Race, Chain!Status
    <2> HIDE DEF b
    <2>3. ChainOk' /\ races'[id] = b /\ b # NoRace /\ Grows(a, b)
          /\ \A j \in RaceIds : j # id => races'[j] = races[j]
      BY <1>1, <1>3, <2>1, <2>2, AdvanceStep
    <2> QED
      BY <1>1, <1>4, <2>2, <2>3 DEF Lands
  <1>5. CASE q.op = "start" /\ Chain!start_race(k, id)
    <2> DEFINE b == [a EXCEPT !.status = "Started"]
    <2>1. a.status = "Locked" /\ races' = [races EXCEPT ![id] = b]
      BY <1>1, <1>5 DEF Chain!start_race
    <2>2. b \in Chain!Race /\ b.status = "Started" /\ b.seat = a.seat
      BY <1>2 DEF Chain!Race, Chain!Status
    <2> HIDE DEF b
    <2>3. ChainOk' /\ races'[id] = b /\ b # NoRace /\ Grows(a, b)
          /\ \A j \in RaceIds : j # id => races'[j] = races[j]
      BY <1>1, <1>3, <2>1, <2>2, AdvanceStep
    <2> QED
      BY <1>1, <1>5, <2>2, <2>3 DEF Lands
  <1>6. CASE q.op = "finish-chain" /\ q.winner \in Slots /\ Chain!finish_race(k, id, q.winner)
    <2> DEFINE b == [a EXCEPT !.status = "Finished", !.winner_slot = q.winner]
    <2>1. a.status = "Started" /\ races' = [races EXCEPT ![id] = b]
      BY <1>1, <1>6 DEF Chain!finish_race, Chain!CanFinish
    <2>2. b \in Chain!Race /\ b.status = "Finished" /\ b.seat = a.seat /\ b.winner_slot = q.winner
      BY <1>2, <1>6, Constants DEF Chain!Race, Chain!Status
    <2> HIDE DEF b
    <2>3. ChainOk' /\ races'[id] = b /\ b # NoRace /\ Grows(a, b)
          /\ \A j \in RaceIds : j # id => races'[j] = races[j]
      BY <1>1, <1>3, <2>1, <2>2, AdvanceStep
    <2> QED
      BY <1>1, <1>6, <2>2, <2>3 DEF Lands
  <1> QED
    BY <1>4, <1>5, <1>6

\* A settle and a cancel close the race.
LEMMA CloseLands ==
    ASSUME ChainOk, NEW q \in Request, q.race \in RaceIds, NEW k \in Keys,
           \/ q.op = "settle" /\ Chain!settle_race(k, q.race)
           \/ q.op = "cancel" /\ Chain!cancel_race(k, q.race)
    PROVE  /\ Lands(q) /\ races[q.race] # NoRace /\ Grows(races[q.race], races'[q.race])
           /\ races'[q.race].seat = races[q.race].seat
           /\ q.op = "settle" => /\ races[q.race].status = "Finished"
                                 /\ races'[q.race].status = "Settled"
                                 /\ races'[q.race].winner_slot = races[q.race].winner_slot
           /\ q.op = "cancel" => races'[q.race].status = "Canceled"
  <1> DEFINE id == q.race
             a == races[id]
  <1>1. a # NoRace
    BY DEF Chain!settle_race, Chain!cancel_race, Chain!Live
  <1>2. a \in Chain!Race /\ a.stake \in Nat /\ wallet \in [Drivers -> Nat]
    BY <1>1, LiveAccount, AccountTypes DEF ChainOk, Chain!TypeOK
  <1>3. CASE q.op = "settle" /\ Chain!settle_race(k, id)
    <2> DEFINE paid == Chain!Payout(a)
    <2>1. /\ a.status = "Finished" /\ paid <= vault[id]
          /\ races' = [races EXCEPT ![id].status = "Settled"]
          /\ vault' = [vault EXCEPT ![id] = @ - paid]
          /\ wallet' = [wallet EXCEPT ![a.seat[a.winner_slot]] = @ + paid]
          /\ UNCHANGED <<treasury, facilitator, next_race_id, total_fees>>
      BY <1>3 DEF Chain!settle_race
    <2>2. paid \in Nat
      BY <1>2 DEF Chain!Payout
    <2> HIDE DEF paid
    <2>3. wallet' \in [Drivers -> Nat]
      <3>1. PICK w : w = a.seat[a.winner_slot]
        OBVIOUS
      <3>2. wallet' = [wallet EXCEPT ![w] = wallet[w] + paid]
        BY <2>1, <3>1
      <3>3. w \in Drivers => wallet[w] + paid \in Nat
        BY <1>2, <2>2
      <3> QED
        BY <1>2, <3>2, <3>3
    <2>4. /\ ChainOk' /\ races'[id] # NoRace /\ Grows(races[id], races'[id])
          /\ races'[id].status = "Settled" /\ races'[id].seat = races[id].seat
          /\ races'[id].winner_slot = races[id].winner_slot
          /\ \A j \in RaceIds : j # id => races'[j] = races[j]
      BY <1>1, <2>1, <2>2, <2>3, CloseStep
    <2> QED
      BY <1>1, <1>3, <2>1, <2>4 DEF Lands
  <1>4. CASE q.op = "cancel" /\ Chain!cancel_race(k, id)
    <2> DEFINE paid == Chain!Refunds(a)
    <2>1. /\ a.status \in {"Created", "Joined", "Locked", "Started"} /\ paid <= vault[id]
          /\ races' = [races EXCEPT ![id].status = "Canceled"]
          /\ vault' = [vault EXCEPT ![id] = @ - paid]
          /\ wallet' = [d \in Drivers |-> wallet[d] + Chain!Refund(a, d)]
          /\ UNCHANGED <<treasury, facilitator, next_race_id, total_fees>>
      BY <1>4 DEF Chain!cancel_race, Chain!CanCancel, Chain!Cancelable
    <2>2. paid \in Nat /\ \A d \in Drivers : Chain!Refund(a, d) \in Nat
      BY <1>2 DEF Chain!Refunds, Chain!PerSeat, Chain!Refund
    <2> HIDE DEF paid
    <2>3. wallet' \in [Drivers -> Nat]
      BY <1>2, <2>1, <2>2
    <2>4. /\ ChainOk' /\ races'[id] # NoRace /\ Grows(races[id], races'[id])
          /\ races'[id].status = "Canceled" /\ races'[id].seat = races[id].seat
          /\ \A j \in RaceIds : j # id => races'[j] = races[j]
      BY <1>1, <2>1, <2>2, <2>3, CloseStep
    <2> QED
      BY <1>1, <1>4, <2>4 DEF Lands
  <1> QED
    BY <1>3, <1>4

-----------------------------------------------------------------------------
\* The sidecar's part of the invariant under changes of the escrow.

\* What "canceled" and "settled" mean among the statuses a race passes.
LEMMA FinalStatuses ==
    /\ Reached("settled") = {"Settled"} /\ Reached("canceled") = {"Canceled"}
    /\ Reached("finished") = Decided
    /\ {"locked", "started", "finished", "settled", "canceled"} \subseteq ChainStatuses
  BY DEF Reached, Decided, ChainStatuses

\* What a race account has reached is not lost when it grows.
LEMMA GrownStatuses ==
    ASSUME NEW a, NEW b, Grows(a, b)
    PROVE  /\ a.status \in Reached("locked") => b.status \in Reached("locked")
           /\ a.status \in Reached("started") => b.status \in Reached("started")
           /\ a.status \in Decided => b.status \in Decided
           /\ a.status = "Settled" => b.status = "Settled"
           /\ a.status = "Canceled" => b.status = "Canceled"
           /\ \A slot \in Slots : Chain!Joined(a, slot) =>
                 Chain!Joined(b, slot) /\ b.seat[slot] = a.seat[slot]
  <1>1. \A cs \in {"locked", "started", "finished", "settled", "canceled"} :
           a.status \in Reached(cs) => b.status \in Reached(cs)
    BY FinalStatuses DEF Grows
  <1>2. \A slot \in Slots : Chain!Joined(a, slot) =>
           Chain!Joined(b, slot) /\ b.seat[slot] = a.seat[slot]
    BY DEF Grows, Chain!Joined
  <1> QED
    BY <1>1, <1>2, FinalStatuses

\* What a request found on the chain stays there.
LEMMA LandedStays ==
    ASSUME NEW q \in Request, NEW R, NEW S, Landed(q, R), q.op \in ChainOps,
           R[q.race] # NoRace => S[q.race] # NoRace /\ Grows(R[q.race], S[q.race]),
           q.op # "open" => R[q.race] # NoRace
    PROVE  Landed(q, S)
  <1>1. q.slot \in Slots
    BY DEF Request
  <1>2. CASE q.op = "open"
    BY <1>2 DEF Landed
  <1>3. CASE q.op # "open"
    <2>1. Grows(R[q.race], S[q.race])
      BY <1>3
    <2> QED
      BY <1>1, <1>3, <2>1, GrownStatuses, FinalStatuses DEF Landed
  <1> QED
    BY <1>2, <1>3

\* The round is still right for its escrow when the race accounts grow, if the
\* winner of its own race is still its winner.
LEMMA RoundStays ==
    ASSUME NEW r, NEW R, NEW S, RoundOk(r, R),
           \A id \in RaceIds : R[id] # NoRace => S[id] # NoRace /\ Grows(R[id], S[id]),
           Ours(r) /\ S[r.chainRaceId].status \in Decided => r.winner = S[r.chainRaceId].winner_slot
    PROVE  RoundOk(r, S)
  <1>1. r \in Round /\ (Ours(r) => r.chainRaceId \in RaceIds)
    BY DEF RoundOk, Round, Ours
  <1>2. Ours(r) => S[r.chainRaceId] # NoRace /\ Grows(R[r.chainRaceId], S[r.chainRaceId])
    BY <1>1 DEF RoundOk
  <1>3. r.chainStatus # "not-opened" =>
          Ours(r) /\ S[r.chainRaceId].status \in Reached(r.chainStatus)
    <2>1. r.chainStatus \in ChainStatuses
      BY <1>1 DEF Round
    <2> QED
      BY <1>2, <2>1 DEF RoundOk, Grows
  <1>4. \A slot \in Slots : r.chainJoined[slot] =>
          /\ Ours(r) /\ Chain!Joined(S[r.chainRaceId], slot)
          /\ S[r.chainRaceId].seat[slot] = r.driver[slot]
    BY <1>2, GrownStatuses DEF RoundOk
  <1>5. r.status = "settled" => Ours(r) /\ S[r.chainRaceId].status = "Settled"
    BY <1>2, GrownStatuses DEF RoundOk
  <1> QED
    BY <1>2, <1>3, <1>4, <1>5 DEF RoundOk

\* So is a request that still knows its round.
LEMMA RequestStays ==
    ASSUME NEW q, NEW r, NEW R, NEW S, RoundOk(r, R), RequestOk(q, r, R),
           \A id \in RaceIds : R[id] # NoRace => S[id] # NoRace /\ Grows(R[id], S[id])
    PROVE  RequestOk(q, r, S)
  <1> SUFFICES ASSUME q.at = "answer" PROVE Landed(q, S)
    BY DEF RequestOk
  <1>1. q \in Request /\ Landed(q, R) /\ q.op \in ChainOps
        /\ (q.op = "open" => q.race \in RaceIds)
        /\ (q.op # "open" => Ours(r) /\ q.race = r.chainRaceId)
    BY DEF RequestOk, Holds, Answering
  <1>2. q.op # "open" => q.race \in RaceIds /\ R[q.race] # NoRace
    BY <1>1 DEF RoundOk, Round, Ours
  <1> QED
    BY <1>1, <1>2, LandedStays

\* And so is one that knew a round of which nothing was taken back.
LEMMA RequestKept ==
    ASSUME NEW q, NEW r, NEW s, NEW R, RequestOk(q, r, R), Keeps(r, s)
    PROVE  RequestOk(q, s, R)
  <1>1. q \in Request /\ q.slot \in Slots
    BY DEF RequestOk, Request
  <1>2. Holds(q, s)
    BY <1>1 DEF RequestOk, Holds, Keeps, Ours
  <1> QED
    BY <1>2 DEF RequestOk

\* An account that stays as it is grows.
LEMMA GrowsReflexive == \A a : Grows(a, a)
  BY DEF Grows

\* The seats are still known when the round keeps what it had.
LEMMA SeatsKept ==
    ASSUME NEW r, NEW s, NEW R, NEW O, SeatsKnown(r, R, O), Keeps(r, s)
    PROVE  SeatsKnown(s, R, O)
  <1> SUFFICES ASSUME NEW id \in RaceIds, R[id] # NoRace
               PROVE  /\ \A slot \in Slots : Chain!Joined(R[id], slot) =>
                            \/ id = s.chainRaceId /\ R[id].seat[slot] = s.driver[slot]
                            \/ <<id, slot>> \in O
                      /\ id = s.chainRaceId \/ R[id].status \in Chain!OpenStatuses
    BY DEF SeatsKnown
  <1>1. id = r.chainRaceId => s.chainRaceId = id
    BY Constants DEF Keeps, Ours
  <1> QED
    BY <1>1 DEF SeatsKnown, Keeps, Chain!Joined

\* How the escrow may move without the sidecar noticing: accounts grow, the winner
\* of the round's race stays the round's, the seats stay known.
EscrowMoves ==
    /\ ChainOk'
    /\ \A id \in RaceIds : races[id] # NoRace =>
          races'[id] # NoRace /\ Grows(races[id], races'[id])
    /\ Ours(round) /\ races'[round.chainRaceId].status \in Decided =>
                         round.winner = races'[round.chainRaceId].winner_slot
    /\ SeatsKnown(round, races', outside')
    /\ outside' \subseteq RaceIds \X Slots

\* A new race moves it like that, whoever opens it.
LEMMA OpenMoves ==
    ASSUME IInv, NEW k \in Keys, NEW id \in RaceIds, NEW stake \in Stakes, NEW fee \in Fees,
           Chain!open_race(k, id, stake, fee), outside' = outside
    PROVE  EscrowMoves /\ races'[id] # NoRace
  <1>1. ChainOk /\ RoundOk(round, races) /\ SeatsKnown(round, races, outside)
    BY DEF IInv
  <1>2. /\ ChainOk'
        /\ races[id] = NoRace /\ races'[id] # NoRace
        /\ races'[id].status = "Created" /\ \A slot \in Slots : races'[id].seat[slot] = NoDriver
        /\ \A j \in RaceIds : j # id => races'[j] = races[j]
    BY <1>1, OpenStep
  <1>3. Ours(round) => round.chainRaceId \in RaceIds /\ round.chainRaceId # id
                       /\ races'[round.chainRaceId] = races[round.chainRaceId]
    BY <1>1, <1>2 DEF RoundOk, Round, Ours
  <1>4. \A j \in RaceIds : races[j] # NoRace =>
          races'[j] # NoRace /\ Grows(races[j], races'[j])
    BY <1>2, GrowsReflexive
  <1>5. Ours(round) /\ races'[round.chainRaceId].status \in Decided =>
                         round.winner = races'[round.chainRaceId].winner_slot
    BY <1>1, <1>3 DEF RoundOk
  <1>6. SeatsKnown(round, races', outside')
    BY <1>1, <1>2 DEF SeatsKnown, Chain!Joined, Chain!OpenStatuses
  <1> QED
    BY <1>2, <1>4, <1>5, <1>6 DEF EscrowMoves, IInv

\* A seat that somebody takes without the sidecar, in whatever race, is put down as
\* one from outside.
LEMMA JoinMoves ==
    ASSUME IInv, NEW d \in Drivers, NEW id \in RaceIds, NEW slot \in Slots,
           Chain!join_race(d, id, slot), outside' = outside \cup {<<id, slot>>}
    PROVE  EscrowMoves
  <1>1. ChainOk /\ RoundOk(round, races) /\ SeatsKnown(round, races, outside)
        /\ outside \subseteq RaceIds \X Slots
    BY DEF IInv
  <1>2. /\ ChainOk'
        /\ races[id] # NoRace /\ races'[id] # NoRace /\ Grows(races[id], races'[id])
        /\ races'[id].seat = [races[id].seat EXCEPT ![slot] = d]
        /\ races'[id].status \in Chain!OpenStatuses
        /\ \A j \in RaceIds : j # id => races'[j] = races[j]
    BY <1>1, JoinStep
  <1>3. \A j \in RaceIds : races[j] # NoRace =>
          races'[j] # NoRace /\ Grows(races[j], races'[j])
    BY <1>2, GrowsReflexive
  <1>4. Ours(round) /\ races'[round.chainRaceId].status \in Decided =>
                         round.winner = races'[round.chainRaceId].winner_slot
    <2>1. Ours(round) => round.chainRaceId \in RaceIds
      BY <1>1 DEF RoundOk, Round, Ours
    <2>2. races'[id].status \notin Decided
      BY <1>2 DEF Decided, Chain!OpenStatuses
    <2> QED
      BY <1>1, <1>2, <2>1, <2>2 DEF RoundOk
  <1>5. SeatsKnown(round, races', outside')
    <2> SUFFICES ASSUME NEW j \in RaceIds, races'[j] # NoRace
                 PROVE  /\ \A t \in Slots : Chain!Joined(races'[j], t) =>
                              \/ j = round.chainRaceId /\ races'[j].seat[t] = round.driver[t]
                              \/ <<j, t>> \in outside'
                        /\ j = round.chainRaceId \/ races'[j].status \in Chain!OpenStatuses
      BY DEF SeatsKnown
    <2>1. CASE j # id
      BY <1>1, <1>2, <2>1 DEF SeatsKnown
    <2>2. CASE j = id
      <3>1. \A t \in Slots : t # slot => races'[id].seat[t] = races[id].seat[t]
        BY <1>2
      <3>2. <<id, slot>> \in outside'
        OBVIOUS
      <3>3. \A t \in Slots : Chain!Joined(races[id], t) =>
               \/ id = round.chainRaceId /\ races[id].seat[t] = round.driver[t]
               \/ <<id, t>> \in outside
        BY <1>1, <1>2 DEF SeatsKnown
      <3> QED
        BY <1>2, <2>2, <3>1, <3>2, <3>3 DEF Chain!Joined
    <2> QED
      BY <2>1, <2>2
  <1>6. outside' \subseteq RaceIds \X Slots
    BY <1>1
  <1> QED
    BY <1>2, <1>3, <1>4, <1>5, <1>6 DEF EscrowMoves

\* So does a transaction on the race of the round that seats nobody but its drivers
\* and keeps to its winner.
LEMMA OwnRaceMoves ==
    ASSUME IInv, NEW q, Ours(round), q.race = round.chainRaceId, q.race \in RaceIds,
           races[q.race] # NoRace, outside' = outside,
           Lands(q), Grows(races[q.race], races'[q.race]),
           \A slot \in Slots :
              races'[q.race].seat[slot] \in {races[q.race].seat[slot], round.driver[slot]},
           races'[q.race].status \in Decided => round.winner = races'[q.race].winner_slot
    PROVE  EscrowMoves
  <1>1. SeatsKnown(round, races', outside')
    BY DEF IInv, SeatsKnown, Lands, Chain!Joined
  <1>2. \A id \in RaceIds : races[id] # NoRace =>
          races'[id] # NoRace /\ Grows(races[id], races'[id])
    BY GrowsReflexive DEF Lands
  <1> QED
    BY <1>1, <1>2 DEF EscrowMoves, Lands, IInv

\* A transaction of the sidecar moves the escrow like that, and does what its
\* request asks for.
LEMMA TransactionMoves ==
    ASSUME IInv, NEW q, RequestOk(q, round, races), q.at \in {"tx", "unheard"}, Transaction(q),
           outside' = outside
    PROVE  EscrowMoves /\ Landed(q, races')
  <1>1. /\ q \in Request
        /\ q.op \in ChainOps
        /\ q.op = "open" => q.race \in RaceIds
        /\ q.op # "open" => Ours(round) /\ q.race = round.chainRaceId
        /\ q.op = "join" =>
              round.driver[q.slot] # NoDriver /\ q.driver[q.slot] = round.driver[q.slot]
        /\ q.op = "finish-chain" => round.winner # NoWinner /\ q.winner = round.winner
    BY DEF RequestOk, Holds, Answering
  <1>2. ChainOk /\ RoundOk(round, races)
    BY DEF IInv
  <1>3. round \in Round /\ round.winner \in Slots \cup {NoWinner} /\ q.slot \in Slots
    BY <1>1, <1>2 DEF RoundOk, Round, Request
  <1>4. q.op # "open" =>
          /\ q.race \in RaceIds
          /\ races[q.race].status \in Decided => round.winner = races[q.race].winner_slot
    BY <1>1, <1>2 DEF RoundOk, Round, Ours
  <1>5. PICK k \in Keys :
          \/ q.op = "open" /\ \E stake \in Stakes, fee \in Fees :
                                 Chain!open_race(k, q.race, stake, fee)
          \/ q.op = "join" /\ Chain!join_race(q.driver[q.slot], q.race, q.slot)
          \/ q.op = "lock" /\ Chain!lock_race(k, q.race)
          \/ q.op = "start" /\ Chain!start_race(k, q.race)
          \/ q.op = "finish-chain" /\ Chain!finish_race(k, q.race, q.winner)
          \/ q.op = "settle" /\ Chain!settle_race(k, q.race)
          \/ q.op = "cancel" /\ Chain!cancel_race(k, q.race)
    BY DEF Transaction
  <1>6. CASE q.op = "open" /\ \E stake \in Stakes, fee \in Fees :
                                 Chain!open_race(k, q.race, stake, fee)
    BY <1>1, <1>6, OpenMoves DEF Landed
  <1>7. CASE q.op = "join" /\ Chain!join_race(q.driver[q.slot], q.race, q.slot)
    <2>1. /\ Lands(q) /\ races[q.race] # NoRace /\ Grows(races[q.race], races'[q.race])
          /\ races'[q.race].seat = [races[q.race].seat EXCEPT ![q.slot] = q.driver[q.slot]]
          /\ races'[q.race].status \notin Decided
      BY <1>1, <1>2, <1>4, <1>7, JoinLands
    <2>2. races[q.race].seat \in [Slots -> Drivers \cup {NoDriver}]
      BY <1>2, <1>4, <1>7, <2>1, LiveAccount, AccountTypes
    <2>3. \A slot \in Slots :
             races'[q.race].seat[slot] \in {races[q.race].seat[slot], round.driver[slot]}
      BY <1>1, <1>3, <1>7, <2>1, <2>2
    <2>4. races'[q.race].seat[q.slot] = q.driver[q.slot] /\ q.driver[q.slot] # NoDriver
      BY <1>1, <1>3, <1>7, <2>1, <2>2
    <2>5. EscrowMoves
      BY <1>1, <1>4, <1>7, <2>1, <2>3, OwnRaceMoves
    <2> QED
      BY <1>7, <2>4, <2>5 DEF Landed, Chain!Joined
  <1>8. CASE \/ q.op = "lock" /\ Chain!lock_race(k, q.race)
             \/ q.op = "start" /\ Chain!start_race(k, q.race)
             \/ q.op = "finish-chain" /\ Chain!finish_race(k, q.race, q.winner)
    <2>1. q.op = "finish-chain" => q.winner \in Slots
      BY <1>1, <1>3
    <2>2. /\ Lands(q) /\ races[q.race] # NoRace /\ Grows(races[q.race], races'[q.race])
          /\ races'[q.race].seat = races[q.race].seat
          /\ q.op = "lock" => races'[q.race].status = "Locked"
          /\ q.op = "start" => races'[q.race].status = "Started"
          /\ q.op = "finish-chain" => /\ races'[q.race].status = "Finished"
                                      /\ races'[q.race].winner_slot = q.winner
      BY <1>1, <1>2, <1>4, <1>8, <2>1, AdvanceLands
    <2>3. races'[q.race].status \in Decided => round.winner = races'[q.race].winner_slot
      BY <1>1, <1>8, <2>2 DEF Decided
    <2>4. EscrowMoves
      BY <1>1, <1>4, <1>8, <2>2, <2>3, OwnRaceMoves
    <2>5. Landed(q, races')
      BY <1>8, <2>2 DEF Landed, Reached
    <2> QED
      BY <2>4, <2>5
  <1>9. CASE \/ q.op = "settle" /\ Chain!settle_race(k, q.race)
             \/ q.op = "cancel" /\ Chain!cancel_race(k, q.race)
    <2>1. /\ Lands(q) /\ races[q.race] # NoRace /\ Grows(races[q.race], races'[q.race])
          /\ races'[q.race].seat = races[q.race].seat
          /\ q.op = "settle" => /\ races[q.race].status = "Finished"
                                /\ races'[q.race].status = "Settled"
                                /\ races'[q.race].winner_slot = races[q.race].winner_slot
          /\ q.op = "cancel" => races'[q.race].status = "Canceled"
      BY <1>1, <1>2, <1>4, <1>9, CloseLands
    <2>2. races'[q.race].status \in Decided => round.winner = races'[q.race].winner_slot
      BY <1>4, <1>9, <2>1 DEF Decided
    <2>3. EscrowMoves
      BY <1>1, <1>4, <1>9, <2>1, <2>2, OwnRaceMoves
    <2>4. Landed(q, races')
      BY <1>9, <2>1 DEF Landed
    <2> QED
      BY <2>3, <2>4
  <1> QED
    BY <1>5, <1>6, <1>7, <1>8, <1>9

\* The invariant when the escrow moves and the round does not; a request is
\* then dropped, or is as right as it was.
LEMMA EscrowStep ==
    ASSUME IInv, EscrowMoves, UNCHANGED <<round, saved, lost>>,
           req' \in [Requests -> Request],
           \A h \in Requests : req'[h] = req[h] \/ RequestOk(req'[h], round, races')
    PROVE  IInv' /\ Keeps(round, round')
  <1>1. PICK S, O : S = races' /\ O = outside'
    OBVIOUS
  <1>2. RoundOk(round, races)
    BY DEF IInv
  <1>3. \A id \in RaceIds : races[id] # NoRace => S[id] # NoRace /\ Grows(races[id], S[id])
    BY <1>1 DEF chain, EscrowMoves
  <1>4. RoundOk(round, S)
    BY <1>1, <1>2, <1>3, RoundStays DEF EscrowMoves
  <1>5. \A h \in Requests : RequestOk(req[h], round, S)
    BY <1>2, <1>3, RequestStays DEF IInv
  <1>6. \A h \in Requests : RequestOk(req'[h], round, S)
    BY <1>1, <1>5
  <1>7. ChainOk' /\ SeatsKnown(round, S, O) /\ O \subseteq RaceIds \X Slots
    BY <1>1 DEF chain, EscrowMoves
  <1>8. IInv'
    BY <1>1, <1>4, <1>6, <1>7 DEF IInv
  <1>9. Keeps(round, round)
    BY DEF Keeps
  <1> QED
    BY <1>8, <1>9

-----------------------------------------------------------------------------
\* The sidecar's steps leave the escrow alone.  The invariant after one of them,
\* when the new round s and the new requests are right for it.
LEMMA SidecarStep ==
    ASSUME IInv, UNCHANGED <<chain, outside>>, NEW s, round' = s,
           RoundOk(s, races), Keeps(round, s), SavedOk(s, saved'),
           req' \in [Requests -> Request],
           \A h \in Requests : req'[h] = req[h] \/ RequestOk(req'[h], s, races),
           lost' \in Nat
    PROVE  IInv' /\ Keeps(round, round')
  <1>1. ChainOk'
    BY DEF IInv, ChainOk, Chain!TypeOK, Chain!Live, chain
  <1>2. races' = races /\ outside' = outside
    BY DEF chain
  <1>3. \A h \in Requests : RequestOk(req[h], s, races)
    BY RequestKept DEF IInv
  <1>4. \A h \in Requests : RequestOk(req'[h], s, races)
    BY <1>3
  <1>5. RoundOk(round, races)' /\ SavedOk(round, saved)' /\ SeatsKnown(round, races, outside)'
    <2>1. SeatsKnown(s, races, outside)
      BY SeatsKept DEF IInv
    <2> QED
      BY <1>2, <2>1
  <1>6. \A h \in Requests : RequestOk(req[h], round, races)'
    BY <1>2, <1>4
  <1> QED
    BY <1>1, <1>2, <1>5, <1>6 DEF IInv

\* A round that stays as it is.
LEMMA SameRound ==
    ASSUME IInv
    PROVE  RoundOk(round, races) /\ Keeps(round, round)
           /\ SavedOk(round, saved) /\ lost \in Nat
  BY DEF IInv, Keeps

\* The same for a step that writes the round to disk at once.
LEMMA PersistStep ==
    ASSUME IInv, UNCHANGED <<chain, lost, outside>>, NEW s, Persist(s),
           RoundOk(s, races), Keeps(round, s),
           req' \in [Requests -> Request],
           \A h \in Requests : req'[h] = req[h] \/ RequestOk(req'[h], s, races)
    PROVE  IInv' /\ Keeps(round, round')
  <1>1. SavedOk(s, s)
    BY DEF SavedOk
  <1>2. round' = s /\ saved' = s /\ UNCHANGED <<chain, outside>> /\ lost' = lost
    BY DEF Persist
  <1>3. lost' \in Nat
    BY <1>2 DEF chain, IInv
  <1> QED
    BY <1>1, <1>2, <1>3, SidecarStep

\* The same for one that leaves the round's race and the requests alone.
LEMMA LobbyStep ==
    ASSUME IInv, UNCHANGED <<chain, req, lost, outside>>, NEW s, Persist(s),
           RoundOk(s, races), Keeps(round, s)
    PROVE  IInv' /\ Keeps(round, round')
  <1>2. req' \in [Requests -> Request] /\ \A h \in Requests : req'[h] = req[h]
    BY DEF IInv
  <1>3. UNCHANGED <<chain, lost, outside>>
    OBVIOUS
  <1> QED
    BY <1>2, <1>3, PersistStep

\* A change of the status before there is a winner, or a cancellation.
LEMMA StatusChange ==
    ASSUME NEW r, NEW R, RoundOk(r, R), NEW status,
           \/ status \in {"accepted", "ready", "locked", "countdown", "racing"}
              /\ r.status \notin {"finished", "settled", "canceled"}
           \/ status = "canceled" /\ r.status # "settled"
    PROVE  LET s == [r EXCEPT !.status = status]
           IN  RoundOk(s, R) /\ Keeps(r, s) /\ s.chainRaceId = r.chainRaceId
  <1> DEFINE s == [r EXCEPT !.status = status]
  <1>1. r \in Round
    BY DEF RoundOk
  <1>2. s \in Round
    BY <1>1 DEF chain, Round, Statuses
  <1>3. /\ s.status = status /\ s.winner = r.winner /\ s.driver = r.driver
        /\ s.chainRaceId = r.chainRaceId /\ s.chainStatus = r.chainStatus
        /\ s.chainJoined = r.chainJoined
    BY <1>1 DEF chain, Round
  <1> HIDE DEF s
  <1>4. RoundOk(s, R)
    BY <1>2, <1>3 DEF RoundOk, Ours
  <1>5. Keeps(r, s)
    BY <1>3 DEF chain, Keeps, Ours
  <1> QED
    BY <1>3, <1>4, <1>5 DEF s

\* updateReady, after a change that touches neither race, drivers nor outcome.
LEMMA ReadyChange ==
    ASSUME NEW r, NEW R, NEW s, RoundOk(s, R),
           s.status = r.status, s.winner = r.winner, s.driver = r.driver,
           s.chainRaceId = r.chainRaceId
    PROVE  /\ RoundOk(updateReady(s), R) /\ Keeps(r, updateReady(s))
           /\ updateReady(s).chainRaceId = r.chainRaceId
  <1>1. CASE updateReady(s) = s
    BY <1>1 DEF chain, Keeps, Ours
  <1>2. CASE updateReady(s) # s
    <2>1. s.status \in {"accepted", "ready"} /\ updateReady(s) = [s EXCEPT !.status = "ready"]
      BY <1>2 DEF chain, updateReady
    <2>2. /\ RoundOk(updateReady(s), R) /\ Keeps(s, updateReady(s))
          /\ updateReady(s).chainRaceId = s.chainRaceId
      BY <2>1, StatusChange
    <2> QED
      BY <2>2 DEF Keeps, Ours
  <1> QED
    BY <1>1, <1>2

-----------------------------------------------------------------------------
\* The lobby.

\* An opponent takes the free slot of a challenge.
LEMMA AcceptStep ==
    ASSUME IInv, NEW d \in Drivers, acceptRound(d)
    PROVE  IInv' /\ Keeps(round, round')
  <1> DEFINE s == [round EXCEPT !.driver[1] = d, !.fee[1] = "unpaid",
                       !.stakeAuthorized[1] = FALSE, !.chainJoined[1] = FALSE,
                       !.status = "accepted"]
  <1>1. round.status = "challenge" /\ Persist(s) /\ UNCHANGED <<chain, req, lost, outside>>
    BY DEF acceptRound
  <1>2. RoundOk(round, races) /\ round \in Round
    BY DEF IInv, RoundOk
  <1>3. /\ round.driver \in [Slots -> Drivers \cup {NoDriver}] /\ round.fee \in [Slots -> FeeStates]
        /\ round.stakeAuthorized \in [Slots -> BOOLEAN] /\ round.chainJoined \in [Slots -> BOOLEAN]
        /\ round.driver[1] = NoDriver
    BY <1>1, <1>2 DEF Round, RoundOk
  <1> DEFINE driver == [round.driver EXCEPT ![1] = d]
             fee == [round.fee EXCEPT ![1] = "unpaid"]
             stakes == [round.stakeAuthorized EXCEPT ![1] = FALSE]
             joined == [round.chainJoined EXCEPT ![1] = FALSE]
  <1>4. s = [round EXCEPT !.driver = driver, !.fee = fee, !.stakeAuthorized = stakes,
                          !.chainJoined = joined, !.status = "accepted"]
    OBVIOUS
  <1>5. /\ driver \in [Slots -> Drivers \cup {NoDriver}] /\ fee \in [Slots -> FeeStates]
        /\ stakes \in [Slots -> BOOLEAN] /\ joined \in [Slots -> BOOLEAN]
        /\ \A slot \in Slots : /\ round.driver[slot] # NoDriver => driver[slot] = round.driver[slot]
                               /\ joined[slot] => round.chainJoined[slot]
    BY <1>3, Constants DEF FeeStates
  <1> HIDE DEF s, driver, fee, stakes, joined
  <1>6. s \in Round
    BY <1>2, <1>4, <1>5 DEF Round, Statuses
  <1>7. /\ s.status = "accepted" /\ s.winner = round.winner /\ s.driver = driver
        /\ s.chainRaceId = round.chainRaceId /\ s.chainStatus = round.chainStatus
        /\ s.chainJoined = joined
    BY <1>2, <1>4 DEF Round
  <1>8. Keeps(round, s)
    BY <1>1, <1>5, <1>7 DEF Keeps, Ours
  <1>9. RoundOk(s, races)
    <2>1. \A slot \in Slots : s.chainJoined[slot] =>
             /\ Ours(s) /\ Chain!Joined(races[s.chainRaceId], slot)
             /\ races[s.chainRaceId].seat[slot] = s.driver[slot]
      BY <1>2, <1>5, <1>7 DEF RoundOk, Ours, Chain!Joined
    <2> QED
      BY <1>1, <1>2, <1>5, <1>6, <1>7, <2>1 DEF RoundOk, Ours
  <1> QED
    BY <1>1, <1>7, <1>8, <1>9, LobbyStep

\* A slot that is claimed is free, or already the driver's.
LEMMA ClaimStep ==
    ASSUME IInv, NEW d \in Drivers, NEW slot \in Slots, claimSlot(slot, d)
    PROVE  IInv' /\ Keeps(round, round')
  <1> DEFINE driver == [round.driver EXCEPT ![slot] = d]
             r == [round EXCEPT !.driver = driver]
  <1>1. /\ round.status \in {"challenge", "accepted", "ready"}
        /\ round.driver[slot] \in {NoDriver, d}
        /\ LET full == \A t \in Slots : r.driver[t] # NoDriver
           IN  Persist([r EXCEPT !.status = IF full /\ @ = "challenge" THEN "accepted" ELSE @])
        /\ UNCHANGED <<chain, req, lost, outside>>
    BY DEF claimSlot, MayClaim
  <1>2. RoundOk(round, races) /\ round \in Round
    BY DEF IInv, RoundOk
  <1>3. /\ driver \in [Slots -> Drivers \cup {NoDriver}] /\ driver[slot] = d
        /\ \A t \in Slots : /\ t # slot => driver[t] = round.driver[t]
                            /\ round.driver[t] # NoDriver => driver[t] = round.driver[t]
    BY <1>1, <1>2 DEF Round
  <1> DEFINE full == \A t \in Slots : driver[t] # NoDriver
             status == IF full /\ round.status = "challenge" THEN "accepted" ELSE round.status
             s == [round EXCEPT !.driver = driver, !.status = status]
  <1>4. Persist(s)
    BY <1>1, <1>2 DEF Round
  <1> HIDE DEF driver
  <1>5. status \in {"challenge", "accepted", "ready"}
        /\ (status = "challenge" => round.status = "challenge" /\ ~full)
    BY <1>1
  <1> HIDE DEF status, full
  <1>6. s \in Round
    BY <1>2, <1>3, <1>5 DEF Round, Statuses
  <1>7. /\ s.status = status /\ s.winner = round.winner /\ s.driver = driver
        /\ s.chainRaceId = round.chainRaceId /\ s.chainStatus = round.chainStatus
        /\ s.chainJoined = round.chainJoined
    BY <1>2 DEF chain, Round
  <1> HIDE DEF s
  <1>8. Keeps(round, s)
    BY <1>1, <1>3, <1>7 DEF Keeps, Ours
  <1>9. s.status = "challenge" => s.driver[0] # NoDriver /\ s.driver[1] = NoDriver
    <2> SUFFICES ASSUME s.status = "challenge"
                 PROVE  s.driver[0] # NoDriver /\ s.driver[1] = NoDriver
      OBVIOUS
    <2>1. round.driver[0] # NoDriver /\ ~full
      BY <1>2, <1>5, <1>7 DEF RoundOk
    <2>2. driver[0] # NoDriver
      BY <1>3, <2>1, Constants
    <2>3. driver[1] = NoDriver
      BY <2>1, <2>2, Constants DEF full
    <2> QED
      BY <1>7, <2>2, <2>3
  <1>10. \A t \in Slots : s.chainJoined[t] =>
            /\ Ours(s) /\ Chain!Joined(races[s.chainRaceId], t)
            /\ races[s.chainRaceId].seat[t] = s.driver[t]
    BY <1>2, <1>3, <1>7 DEF RoundOk, Ours, Chain!Joined
  <1>11. RoundOk(s, races)
    BY <1>1, <1>2, <1>5, <1>6, <1>7, <1>9, <1>10 DEF RoundOk, Ours
  <1> QED
    BY <1>1, <1>4, <1>7, <1>8, <1>11, LobbyStep

\* Fees and authorisations.
LEMMA EntryStep ==
    ASSUME IInv, NEW slot \in Slots,
           authorizeStake(slot) \/ \E fee \in Payments : markFeePaid(slot, fee)
    PROVE  IInv' /\ Keeps(round, round')
  <1>1. RoundOk(round, races) /\ round \in Round
    BY DEF IInv, RoundOk
  <1>2. PICK s : /\ Persist(updateReady(s)) /\ UNCHANGED <<chain, req, lost, outside>>
                 /\ \/ s = [round EXCEPT !.stakeAuthorized[slot] = TRUE]
                    \/ \E fee \in Payments : s = [round EXCEPT !.fee[slot] = fee]
    BY DEF authorizeStake, markFeePaid
  <1>3. /\ s \in Round
        /\ s.status = round.status /\ s.winner = round.winner /\ s.driver = round.driver
        /\ s.chainRaceId = round.chainRaceId /\ s.chainStatus = round.chainStatus
        /\ s.chainJoined = round.chainJoined
    <2>1. CASE s = [round EXCEPT !.stakeAuthorized[slot] = TRUE]
      <3> DEFINE stakes == [round.stakeAuthorized EXCEPT ![slot] = TRUE]
      <3>1. stakes \in [Slots -> BOOLEAN] /\ s = [round EXCEPT !.stakeAuthorized = stakes]
        BY <1>1, <2>1 DEF Round
      <3> HIDE DEF stakes
      <3> QED
        BY <1>1, <3>1 DEF Round
    <2>2. CASE \E fee \in Payments : s = [round EXCEPT !.fee[slot] = fee]
      <3>1. PICK fee \in FeeStates : s = [round EXCEPT !.fee[slot] = fee]
        BY <2>2, RoundAssumption DEF FeeStates
      <3> DEFINE fees == [round.fee EXCEPT ![slot] = fee]
      <3>2. fees \in [Slots -> FeeStates] /\ s = [round EXCEPT !.fee = fees]
        BY <1>1, <3>1 DEF Round
      <3> HIDE DEF fees
      <3> QED
        BY <1>1, <3>2 DEF Round
    <2> QED
      BY <1>2, <2>1, <2>2
  <1>4. RoundOk(s, races)
    BY <1>1, <1>3 DEF RoundOk, Ours
  <1>5. /\ RoundOk(updateReady(s), races) /\ Keeps(round, updateReady(s))
        /\ updateReady(s).chainRaceId = round.chainRaceId
    BY <1>3, <1>4, ReadyChange
  <1> QED
    BY <1>2, <1>5, LobbyStep

\* The steps that only move the status on, and a repeated open.
LEMMA StatusStep ==
    ASSUME IInv, lockRoundLocal \/ startCountdown \/ startRace \/ cancelRound \/ chain_open_again
    PROVE  IInv' /\ Keeps(round, round')
  <1>1. RoundOk(round, races) /\ round \in Round
    BY DEF IInv, RoundOk
  <1>2. CASE lockRoundLocal \/ startCountdown \/ startRace \/ cancelRound
    <2>1. PICK status :
             /\ Persist([round EXCEPT !.status = status]) /\ UNCHANGED <<chain, req, lost, outside>>
             /\ \/ status \in {"locked", "countdown", "racing"}
                   /\ round.status \notin {"finished", "settled", "canceled"}
                \/ status = "canceled" /\ round.status # "settled"
      <3>1. CASE lockRoundLocal
        BY <3>1 DEF lockRoundLocal, MayLock
      <3>2. CASE startCountdown
        BY <3>2 DEF startCountdown
      <3>3. CASE startRace
        BY <3>3 DEF startRace
      <3>4. CASE cancelRound
        BY <3>4 DEF cancelRound, MayCancel
      <3> QED
        BY <1>2, <3>1, <3>2, <3>3, <3>4
    <2> DEFINE s == [round EXCEPT !.status = status]
    <2>2. RoundOk(s, races) /\ Keeps(round, s) /\ s.chainRaceId = round.chainRaceId
      BY <1>1, <2>1, StatusChange
    <2> HIDE DEF s
    <2>3. Persist(s)
      BY <2>1 DEF s
    <2> QED
      BY <2>1, <2>2, <2>3, LobbyStep
  <1>3. CASE chain_open_again
    <2> DEFINE s == [round EXCEPT !.chainStatus = "opened"]
    <2>1. Ours(round) /\ Persist(s) /\ UNCHANGED <<chain, req, lost, outside>>
      BY <1>3 DEF chain, chain_open_again, Ours
    <2>2. /\ s \in Round
          /\ s.status = round.status /\ s.winner = round.winner /\ s.driver = round.driver
          /\ s.chainRaceId = round.chainRaceId /\ s.chainStatus = "opened"
          /\ s.chainJoined = round.chainJoined
      BY <1>1 DEF chain, Round, ChainStatuses
    <2> HIDE DEF s
    <2>3. races[round.chainRaceId].status \in Reached("opened")
      <3>1. round.chainRaceId \in RaceIds /\ races[round.chainRaceId] # NoRace
        BY <1>1, <2>1 DEF RoundOk, Round, Ours
      <3> QED
        BY <3>1, LiveAccount, AccountTypes DEF IInv, Reached
    <2>4. RoundOk(s, races) /\ Keeps(round, s)
      BY <1>1, <2>1, <2>2, <2>3 DEF RoundOk, Keeps, Ours
    <2> QED
      BY <2>1, <2>2, <2>4, LobbyStep
  <1> QED
    BY <1>2, <1>3

-----------------------------------------------------------------------------
\* The handlers' requests.

\* A request that has ended asks nothing of the round.
LEMMA IdleOk == ASSUME NEW r, NEW R PROVE RequestOk(Idle, r, R)
  <1>1. Idle \in Request
    BY Constants DEF Idle, Request, Ops, Places, Nobody
  <1>2. Idle.at = "idle"
    BY DEF Idle
  <1> QED
    BY <1>1, <1>2 DEF RequestOk, Holds, Answering

\* A handler that ends leaves the other requests alone.
LEMMA EndsOk ==
    ASSUME req \in [Requests -> Request], NEW h \in Requests, Ends(h), NEW r, NEW R
    PROVE  /\ req' \in [Requests -> Request]
           /\ \A g \in Requests : req'[g] = req[g] \/ RequestOk(req'[g], r, R)
  <1>1. RequestOk(Idle, r, R) /\ Idle \in Request
    BY IdleOk DEF RequestOk
  <1> QED
    BY <1>1 DEF chain, Ends

\* A handler that waits for something other than an answer of the chain.
LEMMA WaitsElsewhere ==
    ASSUME req \in [Requests -> Request], round \in Round, NEW h \in Requests,
           NEW op \in Ops, NEW at \in {"fetch", "camera", "robots"}, NEW winner \in Slots \cup {NoWinner},
           at = "fetch" => op = "open",
           at = "camera" => winner \in Slots,
           Waits(h, op, at, 0, winner), NEW r, NEW R
    PROVE  /\ req' \in [Requests -> Request]
           /\ \A g \in Requests : req'[g] = req[g] \/ RequestOk(req'[g], r, R)
  <1>1. PICK names : req' = [req EXCEPT ![h] =
                  [op |-> op, at |-> at, slot |-> 0, winner |-> winner,
                   race |-> IF at = "tx" THEN round.chainRaceId ELSE NoRace,
                   driver |-> [s \in Slots |-> IF s \in names THEN round.driver[s]
                                               ELSE NoDriver]]]
    BY DEF Waits
  <1> DEFINE driver == [s \in Slots |-> IF s \in names THEN round.driver[s] ELSE NoDriver]
             q == [op |-> op, at |-> at, slot |-> 0, winner |-> winner,
                   race |-> NoRace, driver |-> driver]
  <1>2. req' = [req EXCEPT ![h] = q]
    BY <1>1
  <1>3. driver \in [Slots -> Drivers \cup {NoDriver}]
    BY DEF Round
  <1> HIDE DEF driver
  <1>4. q \in Request
    BY <1>3, Constants DEF Request, Places
  <1>5. Holds(q, r) /\ q.at # "answer"
    BY DEF Holds, Answering
  <1> HIDE DEF q
  <1>6. RequestOk(q, r, R)
    BY <1>4, <1>5 DEF RequestOk
  <1> QED
    BY <1>2, <1>4, <1>6

\* A handler that has sent a transaction for the race of the round.
LEMMA WaitsForChain ==
    ASSUME req \in [Requests -> Request], round \in Round, Ours(round), NEW h \in Requests,
           NEW op \in ChainOps \ {"open"}, NEW slot \in Slots, NEW winner \in Slots \cup {NoWinner},
           Waits(h, op, "tx", slot, winner), NEW r, NEW R,
           r.chainRaceId = round.chainRaceId, r.driver = round.driver,
           op = "join" => round.driver[slot] # NoDriver,
           op = "finish-chain" => winner # NoWinner /\ r.winner = winner
    PROVE  /\ req' \in [Requests -> Request]
           /\ \A g \in Requests : req'[g] = req[g] \/ RequestOk(req'[g], r, R)
  <1>1. PICK names :
          /\ op = "join" => names = {slot}
          /\ req' = [req EXCEPT ![h] =
                  [op |-> op, at |-> "tx", slot |-> slot, winner |-> winner,
                   race |-> round.chainRaceId,
                   driver |-> [s \in Slots |-> IF s \in names THEN round.driver[s]
                                               ELSE NoDriver]]]
    BY DEF Waits
  <1> DEFINE driver == [s \in Slots |-> IF s \in names THEN round.driver[s] ELSE NoDriver]
             q == [op |-> op, at |-> "tx", slot |-> slot, winner |-> winner,
                   race |-> round.chainRaceId, driver |-> driver]
  <1>2. req' = [req EXCEPT ![h] = q]
    BY <1>1
  <1>3. driver \in [Slots -> Drivers \cup {NoDriver}] /\ round.chainRaceId \in RaceIds \cup {NoRace}
    BY DEF Round
  <1>4. op = "join" => driver[slot] = round.driver[slot]
    BY <1>1
  <1> HIDE DEF driver
  <1>5. op \in Ops /\ op \in ChainOps /\ op # "open"
    BY DEF ChainOps, Ops
  <1>6. /\ q.op = op /\ q.at = "tx" /\ q.slot = slot /\ q.winner = winner
        /\ q.race = round.chainRaceId /\ q.driver = driver
    OBVIOUS
  <1>7. q \in Request
    BY <1>3, <1>5 DEF Request, Places
  <1> HIDE DEF q
  <1>8. Ours(r)
    BY DEF Ours
  <1>9. Holds(q, r)
    BY <1>4, <1>5, <1>6, <1>8 DEF Holds
  <1>10. RequestOk(q, r, R)
    BY <1>6, <1>7, <1>9 DEF RequestOk
  <1> QED
    BY <1>2, <1>7, <1>10

\* The chain half of settleOperatorWinner, for the round r with its winner.
LEMMA SettlesOk ==
    ASSUME IInv, NEW h \in Requests, NEW r, SettlesOnChain(h, r),
           r.chainRaceId = round.chainRaceId, r.driver = round.driver,
           r.winner \in Slots, r.chainStatus = round.chainStatus, NEW R
    PROVE  /\ req' \in [Requests -> Request]
           /\ \A g \in Requests : req'[g] = req[g] \/ RequestOk(req'[g], r, R)
  <1>1. req \in [Requests -> Request] /\ RoundOk(round, races) /\ round \in Round
    BY DEF IInv, RoundOk
  <1>2. PICK w \in Slots : w = r.winner /\ w # NoWinner /\ 0 \in Slots
    BY Constants
  <1>3. CASE r.chainStatus = "started"
    <2>1. Waits(h, "finish-chain", "tx", 0, w) /\ Ours(round)
      BY <1>1, <1>2, <1>3 DEF SettlesOnChain, RoundOk
    <2>2. "finish-chain" \in ChainOps \ {"open"}
      BY DEF ChainOps
    <2> QED
      BY <1>1, <1>2, <2>1, <2>2, WaitsForChain
  <1>4. CASE r.chainStatus = "finished"
    <2>1. Waits(h, "settle", "tx", 0, w) /\ Ours(round)
      BY <1>1, <1>2, <1>4 DEF SettlesOnChain, RoundOk
    <2>2. "settle" \in ChainOps \ {"open"}
      BY DEF ChainOps
    <2> QED
      BY <1>1, <1>2, <2>1, <2>2, WaitsForChain
  <1>5. CASE r.chainStatus \notin {"started", "finished"}
    BY <1>1, <1>5, EndsOk DEF SettlesOnChain
  <1> QED
    BY <1>3, <1>4, <1>5

-----------------------------------------------------------------------------
\* The handlers' steps up to an answer of the chain.

\* The steps that only change the handler's own request.
LEMMA RequestStep ==
    ASSUME IInv, UNCHANGED <<chain, round, saved, outside>>, lost' \in Nat,
           req' \in [Requests -> Request],
           \A g \in Requests : req'[g] = req[g] \/ RequestOk(req'[g], round, races)
    PROVE  IInv' /\ Keeps(round, round')
  BY SameRound, SidecarStep

\* lockRound runs ahead of the disk, from a round that was on it.
LEMMA LockStep ==
    ASSUME IInv, NEW h \in Requests, lockRound(h)
    PROVE  IInv' /\ Keeps(round, round')
  <1> DEFINE s == [round EXCEPT !.status = "locked"]
  <1>1. /\ round' = s /\ saved' = saved /\ lost' = lost /\ UNCHANGED <<chain, outside>>
        /\ Waits(h, "authorize", "robots", 0, NoWinner) /\ round.status = "ready"
    BY DEF lockRound, MayLock
  <1>2. /\ RoundOk(round, races) /\ round \in Round /\ req \in [Requests -> Request]
        /\ SavedOk(round, saved) /\ lost \in Nat
    BY DEF IInv, RoundOk
  <1>3. RoundOk(s, races) /\ Keeps(round, s) /\ s.chainRaceId = round.chainRaceId
    BY <1>1, <1>2, StatusChange
  <1>4. SavedOk(s, saved)
    <2>1. saved = round
      BY <1>1, <1>2 DEF SavedOk
    <2> QED
      BY <1>1, <1>2, <2>1 DEF SavedOk, Round
  <1> HIDE DEF s
  <1>6. /\ req' \in [Requests -> Request]
        /\ \A g \in Requests : req'[g] = req[g] \/ RequestOk(req'[g], s, races)
    BY <1>1, <1>2, WaitsElsewhere DEF Ops
  <1> QED
    BY <1>1, <1>2, <1>3, <1>4, <1>6, SidecarStep

\* The robots answered, and the disk catches up, or one failed.
LEMMA AuthorizeStep ==
    ASSUME IInv, NEW h \in Requests, authorizeRobots(h)
    PROVE  IInv' /\ Keeps(round, round')
  <1>1. saved' \in {round, saved} /\ Ends(h) /\ UNCHANGED <<chain, round, lost, outside>>
    BY DEF authorizeRobots
  <1>2. SavedOk(round, saved')
    BY <1>1 DEF chain, IInv, SavedOk
  <1>3. /\ req' \in [Requests -> Request]
        /\ \A g \in Requests : req'[g] = req[g] \/ RequestOk(req'[g], round, races)
    BY <1>1, EndsOk DEF IInv
  <1>4. round' = round /\ lost' \in Nat /\ UNCHANGED <<chain, outside>>
    BY <1>1 DEF chain, IInv
  <1> QED
    BY <1>2, <1>3, <1>4, SameRound, SidecarStep

\* A handler looks at the round and waits, for a frame, an id or the chain.
LEMMA LookStep ==
    ASSUME IInv, NEW h \in Requests,
           \/ \E w \in Slots : finish(h, w) \/ choose_winner(h, w) \/ settle_winner(h, w)
           \/ chain_open(h) \/ chain_settle(h)
           \/ \E slot \in Slots : chain_join(h, slot)
           \/ \E op \in {"lock", "start", "cancel"} : chain_step(h, op)
    PROVE  IInv' /\ Keeps(round, round')
  <1>1. /\ req \in [Requests -> Request] /\ RoundOk(round, races) /\ round \in Round
        /\ lost \in Nat /\ 0 \in Slots /\ round.winner \in Slots \cup {NoWinner}
    BY Constants DEF IInv, RoundOk, Round
  <1> DEFINE Goal == /\ UNCHANGED <<chain, round, saved, lost, outside>>
                     /\ req' \in [Requests -> Request]
                     /\ \A g \in Requests :
                           req'[g] = req[g] \/ RequestOk(req'[g], round, races)
  <1>2. ASSUME NEW w \in Slots, finish(h, w) \/ choose_winner(h, w) PROVE Goal
    <2>1. PICK op \in {"finish", "choose"} :
             Waits(h, op, "camera", 0, w) /\ UNCHANGED <<chain, round, saved, lost, outside>>
      BY <1>2 DEF chain, finish, choose_winner
    <2>2. op \in Ops
      BY DEF Ops
    <2> QED
      BY <1>1, <2>1, <2>2, WaitsElsewhere
  <1>3. ASSUME NEW w \in Slots, settle_winner(h, w) PROVE Goal
    <2>1. UNCHANGED <<chain, round, saved, lost, outside>>
      BY <1>3 DEF chain, settle_winner
    <2>2. CASE round.status = "racing" /\ Waits(h, "operator", "camera", 0, w)
      BY <1>1, <2>1, <2>2, WaitsElsewhere DEF Ops
    <2>3. CASE round.status = "finished" /\ SettlesOnChain(h, round)
      <3>1. round.winner \in Slots
        BY <1>1, <2>3 DEF RoundOk
      <3> QED
        BY <2>1, <2>3, <3>1, SettlesOk
    <2> QED
      BY <1>3, <2>2, <2>3 DEF settle_winner
  <1>4. ASSUME chain_open(h) PROVE Goal
    <2>1. Waits(h, "open", "fetch", 0, NoWinner) /\ UNCHANGED <<chain, round, saved, lost, outside>>
      BY <1>4 DEF chain, chain_open
    <2> QED
      BY <1>1, <2>1, WaitsElsewhere DEF Ops
  <1>5. ASSUME chain_settle(h) PROVE Goal
    <2>1. PICK op \in {"finish-chain", "settle"} :
             /\ Waits(h, op, "tx", 0, round.winner) /\ UNCHANGED <<chain, round, saved, lost, outside>>
             /\ Ours(round) /\ round.winner # NoWinner
      BY <1>5 DEF chain, chain_settle, Ours
    <2>2. op \in ChainOps \ {"open"} /\ op # "join"
      BY DEF ChainOps
    <2> QED
      BY <1>1, <2>1, <2>2, WaitsForChain
  <1>6. ASSUME NEW slot \in Slots, chain_join(h, slot) PROVE Goal
    <2>1. /\ Waits(h, "join", "tx", slot, NoWinner) /\ UNCHANGED <<chain, round, saved, lost, outside>>
          /\ Ours(round) /\ round.driver[slot] # NoDriver
      BY <1>6 DEF chain_join, Ours
    <2> QED
      BY <1>1, <2>1, WaitsForChain DEF ChainOps
  <1>7. ASSUME NEW op \in {"lock", "start", "cancel"}, chain_step(h, op) PROVE Goal
    <2>1. /\ Waits(h, op, "tx", 0, NoWinner) /\ UNCHANGED <<chain, round, saved, lost, outside>>
          /\ Ours(round)
      BY <1>7 DEF chain, chain_step, Ours
    <2>2. op \in ChainOps \ {"open"} /\ op # "join" /\ op # "finish-chain"
      BY DEF ChainOps
    <2> QED
      BY <1>1, <2>1, <2>2, WaitsForChain
  <1>8. Goal
    BY <1>2, <1>3, <1>4, <1>5, <1>6, <1>7
  <1>9. UNCHANGED <<chain, round, saved, outside>> /\ lost' \in Nat
    BY <1>1, <1>8
  <1> QED
    BY <1>8, <1>9, RequestStep

\* A round that takes its winner has none yet, and its escrow has none either.
LEMMA VerdictChange ==
    ASSUME IInv, NEW w \in Slots,
           round.status \in {"accepted", "ready", "locked", "countdown", "racing"}
    PROVE  LET s == finishRound(round, w)
           IN  /\ RoundOk(s, races) /\ Keeps(round, s)
               /\ s.chainRaceId = round.chainRaceId /\ s.driver = round.driver
               /\ s.winner = w /\ s.chainStatus = round.chainStatus
  <1> DEFINE s == finishRound(round, w)
  <1>1. RoundOk(round, races) /\ round \in Round /\ ChainOk
    BY DEF IInv, RoundOk
  <1>2. s \in Round
    BY <1>1 DEF chain, finishRound, Round, Statuses
  <1>3. /\ s.status = "finished" /\ s.winner = w /\ s.driver = round.driver
        /\ s.chainRaceId = round.chainRaceId /\ s.chainStatus = round.chainStatus
        /\ s.chainJoined = round.chainJoined
    BY <1>1 DEF chain, finishRound, Round
  <1> HIDE DEF s
  <1>4. round.winner = NoWinner
    BY <1>1 DEF chain, RoundOk
  <1>5. Ours(round) => races[round.chainRaceId].status \notin Decided
    <2> SUFFICES ASSUME Ours(round), races[round.chainRaceId].status \in Decided PROVE FALSE
      OBVIOUS
    <2>1. round.chainRaceId \in RaceIds /\ races[round.chainRaceId] # NoRace
          /\ round.winner = races[round.chainRaceId].winner_slot
      BY <1>1 DEF chain, RoundOk, Round, Ours
    <2>2. races[round.chainRaceId].winner_slot \in Slots
      BY <1>1, <2>1, LiveAccount, AccountTypes
    <2> QED
      BY <1>4, <2>1, <2>2, Constants
  <1>6. w # NoWinner
    BY Constants
  <1>7. RoundOk(s, races)
    BY <1>1, <1>2, <1>3, <1>5, <1>6 DEF RoundOk, Ours
  <1>8. Keeps(round, s)
    BY <1>3, <1>4 DEF Keeps, Ours
  <1> QED
    BY <1>3, <1>7, <1>8 DEF s

\* A winner is set once; a repeated verdict repeats it.
LEMMA CameraStep ==
    ASSUME IInv, NEW h \in Requests, camera_frame(h)
    PROVE  IInv' /\ Keeps(round, round')
  <1> DEFINE w == req[h].winner
             s == finishRound(round, w)
  <1>1. /\ req \in [Requests -> Request] /\ RoundOk(round, races) /\ w \in Slots /\ UNCHANGED <<chain, lost, outside>>
    BY DEF IInv, RequestOk, Holds, camera_frame
  <1>2. \/ /\ round.status \in {"accepted", "ready", "locked", "countdown", "racing"}
           /\ Persist(s)
           /\ Ends(h) \/ SettlesOnChain(h, s)
        \/ /\ round.winner = w
           /\ Persist(round)
           /\ Ends(h) \/ SettlesOnChain(h, round)
    BY DEF camera_frame, MayChoose
  <1>3. CASE /\ round.status \in {"accepted", "ready", "locked", "countdown", "racing"}
             /\ Persist(s)
             /\ Ends(h) \/ SettlesOnChain(h, s)
    <2>1. /\ RoundOk(s, races) /\ Keeps(round, s)
          /\ s.chainRaceId = round.chainRaceId /\ s.driver = round.driver
          /\ s.winner = w /\ s.chainStatus = round.chainStatus
      BY <1>1, <1>3, VerdictChange
    <2> HIDE DEF s
    <2>3. /\ req' \in [Requests -> Request]
          /\ \A g \in Requests : req'[g] = req[g] \/ RequestOk(req'[g], s, races)
      <3>1. CASE Ends(h)
        BY <1>1, <3>1, EndsOk
      <3>2. CASE SettlesOnChain(h, s)
        <4>1. s.winner \in Slots
          BY <1>1, <2>1
        <4> QED
          BY <2>1, <3>2, <4>1, SettlesOk
      <3> QED
        BY <1>3, <3>1, <3>2
    <2> QED
      BY <1>1, <1>3, <2>1, <2>3, PersistStep
  <1>4. CASE /\ round.winner = w
             /\ Persist(round)
             /\ Ends(h) \/ SettlesOnChain(h, round)
    <2>1. /\ req' \in [Requests -> Request]
          /\ \A g \in Requests : req'[g] = req[g] \/ RequestOk(req'[g], round, races)
      <3>1. CASE Ends(h)
        BY <1>1, <3>1, EndsOk
      <3>2. CASE SettlesOnChain(h, round)
        <4>1. round.winner \in Slots
          BY <1>1, <1>4
        <4> QED
          BY <3>2, <4>1, SettlesOk
      <3> QED
        BY <1>4, <3>1, <3>2
    <2> QED
      BY <1>1, <1>4, <2>1, SameRound, PersistStep
  <1> QED
    BY <1>2, <1>3, <1>4

\* The id of the next race is read before the transaction is sent.
LEMMA FetchStep ==
    ASSUME IInv, NEW h \in Requests, fetch_next_race_id(h)
    PROVE  IInv' /\ Keeps(round, round')
  <1> DEFINE q == [req[h] EXCEPT !.at = "tx", !.race = next_race_id]
  <1>1. /\ req[h].at = "fetch" /\ next_race_id \in RaceIds
        /\ req' = [req EXCEPT ![h] = q] /\ UNCHANGED <<chain, round, saved, lost, outside>>
    BY DEF fetch_next_race_id, IInv
  <1>2. req \in [Requests -> Request] /\ req[h] \in Request /\ req[h].op = "open"
    BY <1>1 DEF chain, IInv, RequestOk, Holds
  <1>3. q \in Request /\ q.at = "tx" /\ q.op = "open" /\ q.race \in RaceIds
    BY <1>1, <1>2 DEF Request, Places
  <1> HIDE DEF q
  <1>4. RequestOk(q, round, races)
    BY <1>3 DEF chain, RequestOk, Holds, ChainOps
  <1>5. /\ req' \in [Requests -> Request]
        /\ \A g \in Requests : req'[g] = req[g] \/ RequestOk(req'[g], round, races)
    BY <1>1, <1>2, <1>3, <1>4
  <1>6. UNCHANGED <<chain, round, saved, outside>> /\ lost' \in Nat
    BY <1>1 DEF chain, IInv
  <1> QED
    BY <1>5, <1>6, RequestStep

\* A transaction lands, for a handler that waits or for one that no longer does.
LEMMA LandStep ==
    ASSUME IInv, NEW h \in Requests, tx_lands(h)
    PROVE  IInv' /\ Keeps(round, round')
  <1>1. /\ req[h].at \in {"tx", "unheard"} /\ Transaction(req[h])
        /\ UNCHANGED <<round, saved, lost, outside>>
    BY DEF tx_lands
  <1>2. req \in [Requests -> Request] /\ RequestOk(req[h], round, races) /\ RoundOk(round, races)
    BY DEF IInv
  <1>3. EscrowMoves /\ Landed(req[h], races')
    BY <1>1, <1>2, TransactionMoves
  <1> DEFINE q == [req[h] EXCEPT !.at = "answer"]
  <1>4. /\ q \in Request /\ q.at = "answer"
        /\ q.op = req[h].op /\ q.race = req[h].race /\ q.slot = req[h].slot
        /\ q.winner = req[h].winner /\ q.driver = req[h].driver
    BY <1>2 DEF chain, RequestOk, Request, Places
  <1> HIDE DEF q
  <1>5. Holds(q, round) /\ Landed(q, races')
    BY <1>1, <1>2, <1>3, <1>4 DEF RequestOk, Holds, Answering, Landed
  <1>6. RequestOk(q, round, races')
    BY <1>4, <1>5 DEF RequestOk
  <1>7. RequestOk(Idle, round, races') /\ Idle \in Request
    BY IdleOk DEF RequestOk
  <1>8. req' = [req EXCEPT ![h] = q] \/ req' = [req EXCEPT ![h] = Idle]
    BY DEF tx_lands, q
  <1>9. /\ req' \in [Requests -> Request]
        /\ \A g \in Requests : req'[g] = req[g] \/ RequestOk(req'[g], round, races')
    BY <1>2, <1>4, <1>6, <1>7, <1>8
  <1> QED
    BY <1>1, <1>3, <1>9, EscrowStep

\* A transaction fails, a handler gives up, an answer is lost.
LEMMA LossStep ==
    ASSUME IInv, NEW h \in Requests, tx_fails(h) \/ gives_up(h) \/ answer_lost(h)
    PROVE  IInv' /\ Keeps(round, round')
  <1>1. /\ req \in [Requests -> Request] /\ RequestOk(req[h], round, races)
        /\ lost \in Nat
    BY DEF IInv
  <1>2. UNCHANGED <<chain, round, saved, outside>> /\ lost' \in Nat
    BY <1>1 DEF chain, tx_fails, gives_up, answer_lost, MayLose
  <1>3. \/ Ends(h)
        \/ req[h].at = "tx" /\ req' = [req EXCEPT ![h].at = "unheard"]
    BY DEF tx_fails, gives_up, answer_lost, AfterFailure
  <1>4. CASE Ends(h)
    <2>1. /\ req' \in [Requests -> Request]
          /\ \A g \in Requests : req'[g] = req[g] \/ RequestOk(req'[g], round, races)
      BY <1>1, <1>4, EndsOk
    <2> QED
      BY <1>2, <2>1, RequestStep
  <1>5. CASE req[h].at = "tx" /\ req' = [req EXCEPT ![h].at = "unheard"]
    <2> DEFINE q == [req[h] EXCEPT !.at = "unheard"]
    <2>1. /\ q \in Request /\ q.at = "unheard"
          /\ q.op = req[h].op /\ q.race = req[h].race /\ q.slot = req[h].slot
          /\ q.winner = req[h].winner /\ q.driver = req[h].driver
      BY <1>1 DEF chain, RequestOk, Request, Places
    <2>2. req' = [req EXCEPT ![h] = q]
      BY <1>1, <1>5
    <2> HIDE DEF q
    <2>3. RequestOk(q, round, races)
      BY <1>1, <1>5, <2>1 DEF RequestOk, Holds, Answering
    <2>4. /\ req' \in [Requests -> Request]
          /\ \A g \in Requests : req'[g] = req[g] \/ RequestOk(req'[g], round, races)
      BY <1>1, <2>1, <2>2, <2>3
    <2> QED
      BY <1>2, <2>4, RequestStep
  <1> QED
    BY <1>3, <1>4, <1>5

\* What is on disk is right for the escrow too, and knows all the round knows.
LEMMA SavedRound ==
    ASSUME NEW r, NEW s, NEW R, RoundOk(r, R), SavedOk(r, s)
    PROVE  RoundOk(s, R) /\ Keeps(r, s) /\ s.chainRaceId = r.chainRaceId /\ s.winner = r.winner
  <1>1. CASE s = r
    BY <1>1 DEF chain, Keeps
  <1>2. CASE r.status = "locked" /\ s = [r EXCEPT !.status = "ready"]
    <2>1. RoundOk(s, R) /\ Keeps(r, s) /\ s.chainRaceId = r.chainRaceId
      BY <1>2, StatusChange
    <2>2. s.winner = r.winner
      BY <1>2 DEF chain, RoundOk, Round
    <2> QED
      BY <2>1, <2>2
  <1> QED
    BY <1>1, <1>2 DEF SavedOk

\* A restart finds on disk all the requests under way still rely on.
LEMMA CrashStep ==
    ASSUME IInv, crash
    PROVE  IInv' /\ Keeps(round, round')
  <1>1. /\ req \in [Requests -> Request] /\ RoundOk(round, races) /\ SavedOk(round, saved)
        /\ lost \in Nat
    BY DEF IInv
  <1>2. round' = saved /\ saved' = saved /\ UNCHANGED <<chain, outside>>
        /\ lost' \in Nat
    BY <1>1 DEF chain, crash, MayLose
  <1>3. RoundOk(saved, races) /\ Keeps(round, saved) /\ saved.chainRaceId = round.chainRaceId
    BY <1>1, SavedRound
  <1>5. SavedOk(saved, saved')
    BY <1>2 DEF chain, SavedOk
  <1>6. RequestOk(Idle, saved, races)
    BY IdleOk
  <1>7. ASSUME NEW g \in Requests PROVE RequestOk(req'[g], saved, races)
    <2>1. RequestOk(req[g], round, races)
      BY DEF IInv
    <2>2. RequestOk(req[g], saved, races)
      BY <1>3, <2>1, RequestKept
    <2>3. CASE req[g].at \in {"tx", "unheard"}
      <3> DEFINE q == [req[g] EXCEPT !.at = "unheard"]
      <3>1. req'[g] = q
        BY <2>3 DEF crash
      <3>2. /\ q \in Request /\ q.at = "unheard"
            /\ q.op = req[g].op /\ q.race = req[g].race /\ q.slot = req[g].slot
            /\ q.winner = req[g].winner /\ q.driver = req[g].driver
        BY <1>1 DEF chain, Request, Places
      <3> HIDE DEF q
      <3>3. RequestOk(q, saved, races)
        BY <2>2, <2>3, <3>2 DEF RequestOk, Holds, Answering
      <3> QED
        BY <3>1, <3>3
    <2>4. CASE req[g].at \notin {"tx", "unheard"}
      BY <1>6, <2>4 DEF crash
    <2> QED
      BY <2>3, <2>4
  <1>8. req' \in [Requests -> Request]
    <2>1. \A g \in Requests : req'[g] \in Request
      BY <1>7 DEF chain, RequestOk
    <2>2. PICK f : req' = [g \in Requests |-> f[g]]
      <3>1. req' = [g \in Requests |-> req'[g]]
        BY DEF crash
      <3> QED
        BY <3>1
    <2> QED
      BY <2>1, <2>2
  <1> QED
    BY <1>2, <1>3, <1>5, <1>7, <1>8, SidecarStep

\* Somebody else opens a race or takes a seat.
LEMMA OtherStep ==
    ASSUME IInv, other_race \/ other_join
    PROVE  IInv' /\ Keeps(round, round')
  <1>1. UNCHANGED <<round, saved, req, lost>>
    BY DEF other_race, other_join, sidecar
  <1>2. EscrowMoves
    BY OpenMoves, JoinMoves DEF other_race, other_join
  <1>3. req' \in [Requests -> Request] /\ \A h \in Requests : req'[h] = req[h]
    BY <1>1 DEF chain, IInv
  <1> QED
    BY <1>1, <1>2, <1>3, EscrowStep

-----------------------------------------------------------------------------
\* The answers.

\* What an answer tells: the request is about the race of the round, or about one
\* that has just been opened, and its transaction is on the chain.
LEMMA AnswerTells ==
    ASSUME IInv, NEW h \in Requests, req[h].at = "answer"
    PROVE  /\ req[h] \in Request /\ Landed(req[h], races)
           /\ req[h].op = "open" => req[h].race \in RaceIds
           /\ req[h].op \in ChainOps \ {"open"} =>
                 Ours(round) /\ req[h].race = round.chainRaceId
           /\ req[h].op = "join" => req[h].driver[req[h].slot] = round.driver[req[h].slot]
           /\ req[h].op = "finish-chain" => round.winner # NoWinner
           /\ req[h].op \in ChainOps
  BY DEF IInv, RequestOk, Holds, Answering

\* The race of an open has not got beyond its joins, so the round can have it.
LEMMA AttachStep ==
    ASSUME IInv, NEW h \in Requests, req[h].at = "answer", attachChainRace(h),
           UNCHANGED <<chain, lost, outside>>
    PROVE  IInv' /\ Keeps(round, round')
  <1> DEFINE id == req[h].race
             s == [round EXCEPT !.chainRaceId = id, !.chainStatus = "opened"]
  <1>1. /\ req[h].op = "open" /\ round.chainRaceId \in {NoRace, id} /\ Persist(s) /\ Ends(h)
    BY DEF attachChainRace, MayAttach, Attached
  <1>2. /\ RoundOk(round, races) /\ round \in Round /\ SeatsKnown(round, races, outside)
        /\ req \in [Requests -> Request] /\ ChainOk
    BY DEF IInv, RoundOk
  <1>3. id \in RaceIds /\ races[id] # NoRace
    BY <1>1, AnswerTells DEF Landed
  <1>4. id # NoRace
    BY <1>3, Constants
  <1>5. races[id].status \in Reached("opened")
    BY <1>2, <1>3, LiveAccount, AccountTypes DEF Reached
  <1>6. /\ s \in Round
        /\ s.status = round.status /\ s.winner = round.winner /\ s.driver = round.driver
        /\ s.chainRaceId = id /\ s.chainStatus = "opened" /\ s.chainJoined = round.chainJoined
    BY <1>2, <1>3 DEF Round, ChainStatuses
  <1> HIDE DEF s
  <1>7. races[id].status \in Decided => round.winner = races[id].winner_slot
    <2>1. CASE round.chainRaceId = id
      BY <1>2, <1>4, <2>1 DEF RoundOk, Ours
    <2>2. CASE round.chainRaceId # id
      BY <1>2, <1>3, <2>2 DEF SeatsKnown, Decided, Chain!OpenStatuses
    <2> QED
      BY <2>1, <2>2
  <1>8. RoundOk(s, races)
    <2>1. \A slot \in Slots : s.chainJoined[slot] =>
             /\ Ours(s) /\ Chain!Joined(races[s.chainRaceId], slot)
             /\ races[s.chainRaceId].seat[slot] = s.driver[slot]
      BY <1>1, <1>2, <1>4, <1>6 DEF RoundOk, Ours
    <2>2. s.status = "settled" => Ours(s) /\ races[s.chainRaceId].status = "Settled"
      BY <1>1, <1>2, <1>4, <1>6 DEF RoundOk, Ours
    <2> QED
      BY <1>2, <1>3, <1>4, <1>5, <1>6, <1>7, <2>1, <2>2 DEF RoundOk, Ours
  <1>9. Keeps(round, s)
    BY <1>1, <1>6 DEF Keeps, Ours
  <1>11. /\ req' \in [Requests -> Request]
         /\ \A g \in Requests : req'[g] = req[g] \/ RequestOk(req'[g], s, races)
    BY <1>1, <1>2, EndsOk
  <1> QED
    BY <1>1, <1>8, <1>9, <1>11, PersistStep

\* A driver who has joined has a seat; two joined drivers make a joined race.
LEMMA JoinedStep ==
    ASSUME IInv, NEW h \in Requests, req[h].at = "answer", markChainJoined(h),
           UNCHANGED <<chain, lost, outside>>
    PROVE  IInv' /\ Keeps(round, round')
  <1> DEFINE slot == req[h].slot
             joined == [round.chainJoined EXCEPT ![slot] = TRUE]
             fee == [round.fee EXCEPT ![slot] = FeeAfterJoin(@)]
             stakes == [round.stakeAuthorized EXCEPT ![slot] = TRUE]
             r == [round EXCEPT !.chainJoined[slot] = TRUE, !.fee[slot] = FeeAfterJoin(@),
                                !.stakeAuthorized[slot] = TRUE]
             status == StatusAfterJoin(r)
             s == [r EXCEPT !.chainStatus = status]
  <1>1. req[h].op = "join" /\ Persist(updateReady(s)) /\ Ends(h)
    BY DEF markChainJoined
  <1>2. /\ RoundOk(round, races) /\ round \in Round
        /\ req \in [Requests -> Request] /\ ChainOk /\ slot \in Slots
    BY DEF IInv, RoundOk, Request
  <1> DEFINE race == races[round.chainRaceId]
  <1>3. Ours(round) /\ Chain!Joined(race, slot) /\ race.seat[slot] = round.driver[slot]
    BY <1>1, AnswerTells DEF Landed, ChainOps
  <1>4. round.chainRaceId \in RaceIds /\ race # NoRace
    BY <1>2, <1>3 DEF RoundOk, Round, Ours
  <1>5. race \in Chain!Race /\ race.status \in Chain!Status
        /\ (Chain!BothJoined(race) => race.status # "Created")
    BY <1>2, <1>4, LiveAccount, AccountTypes DEF ChainOk, Chain!Live
  <1>6. /\ joined \in [Slots -> BOOLEAN] /\ stakes \in [Slots -> BOOLEAN]
        /\ \A t \in Slots : joined[t] => t = slot \/ round.chainJoined[t]
    BY <1>2 DEF chain, Round
  <1>7. fee \in [Slots -> FeeStates]
    <2>1. round.fee \in [Slots -> FeeStates]
      BY <1>2 DEF chain, Round
    <2>2. FeeAfterJoin(round.fee[slot]) \in FeeStates
      BY DEF FeeAfterJoin, FeeStates
    <2> QED
      BY <2>1, <2>2
  <1>8. r = [round EXCEPT !.chainJoined = joined, !.fee = fee, !.stakeAuthorized = stakes]
    OBVIOUS
  <1> HIDE DEF joined, fee, stakes, r
  <1>9. /\ r \in Round /\ r.chainJoined = joined
        /\ r.status = round.status /\ r.winner = round.winner /\ r.driver = round.driver
        /\ r.chainRaceId = round.chainRaceId
    BY <1>2, <1>6, <1>7, <1>8 DEF Round
  <1>10. /\ status \in {"opened", "joined"}
         /\ status = "joined" => \A t \in Slots : joined[t]
    BY <1>9 DEF StatusAfterJoin
  <1> HIDE DEF status
  <1>11. /\ s \in Round /\ s.chainJoined = joined /\ s.chainStatus = status
         /\ s.status = round.status /\ s.winner = round.winner /\ s.driver = round.driver
         /\ s.chainRaceId = round.chainRaceId
    BY <1>9, <1>10 DEF Round, ChainStatuses
  <1> HIDE DEF s, race
  <1>12. \A t \in Slots : joined[t] => Chain!Joined(race, t) /\ race.seat[t] = round.driver[t]
    BY <1>2, <1>3, <1>6 DEF RoundOk, race
  <1>13. race.status \in Reached(status)
    <2>1. CASE status = "opened"
      BY <1>5, <2>1 DEF Reached
    <2>2. CASE status = "joined"
      <3>1. Chain!BothJoined(race)
        BY <1>10, <1>12, <2>2, Constants DEF Chain!BothJoined
      <3> QED
        BY <1>5, <2>2, <3>1 DEF Reached
    <2> QED
      BY <1>10, <2>1, <2>2
  <1>14. RoundOk(s, races)
    <2>1. races[s.chainRaceId] = race /\ RoundOk(round, races)
      BY <1>2, <1>3, <1>11 DEF RoundOk, Ours, race
    <2> QED
      BY <1>3, <1>11, <1>12, <1>13, <2>1 DEF RoundOk, Ours
  <1>15. /\ RoundOk(updateReady(s), races) /\ Keeps(round, updateReady(s))
         /\ updateReady(s).chainRaceId = round.chainRaceId
    BY <1>11, <1>14, ReadyChange
  <1>17. /\ req' \in [Requests -> Request]
         /\ \A g \in Requests : req'[g] = req[g] \/ RequestOk(req'[g], updateReady(s), races)
    BY <1>1, <1>2, EndsOk
  <1> QED
    BY <1>1, <1>15, <1>17, PersistStep

\* The marks that move the status of the chain on: the race has got there, or
\* further, already.
LEMMA MarkChange ==
    ASSUME IInv, Ours(round), NEW cs \in ChainStatuses \ {"not-opened"},
           races[round.chainRaceId].status \in Reached(cs),
           NEW status \in Statuses,
           \/ status = round.status
           \/ status = "settled" /\ round.status \in {"finished", "settled"}
              /\ races[round.chainRaceId].status = "Settled"
           \/ status = "canceled" /\ round.status # "settled"
    PROVE  LET s == [round EXCEPT !.chainStatus = cs, !.status = status]
           IN  /\ RoundOk(s, races) /\ Keeps(round, s)
               /\ s.chainRaceId = round.chainRaceId /\ s.driver = round.driver
               /\ s.winner = round.winner
  <1> DEFINE s == [round EXCEPT !.chainStatus = cs, !.status = status]
  <1>1. RoundOk(round, races) /\ round \in Round
    BY DEF IInv, RoundOk
  <1>2. /\ s \in Round
        /\ s.status = status /\ s.winner = round.winner /\ s.driver = round.driver
        /\ s.chainRaceId = round.chainRaceId /\ s.chainStatus = cs
        /\ s.chainJoined = round.chainJoined
    BY <1>1 DEF chain, Round
  <1> HIDE DEF s
  <1>4. Keeps(round, s)
    BY <1>2 DEF chain, Keeps, Ours
  <1>5. RoundOk(s, races)
    BY <1>1, <1>2 DEF RoundOk, Ours
  <1> QED
    BY <1>2, <1>4, <1>5 DEF s

\* The marks after a lock, a start, a finish, a settle and a cancel.
LEMMA MarkStep ==
    ASSUME IInv, NEW h \in Requests, req[h].at = "answer", UNCHANGED <<chain, lost, outside>>,
           \/ markChainLocked(h) \/ markChainStarted(h) \/ markChainFinished(h)
           \/ markChainSettled(h) \/ markChainCanceled(h)
    PROVE  IInv' /\ Keeps(round, round')
  <1> DEFINE race == races[round.chainRaceId]
  <1>1. /\ req \in [Requests -> Request] /\ RoundOk(round, races) /\ round \in Round
        /\ round.winner \in Slots \cup {NoWinner}
    BY DEF IInv, RoundOk, Round
  <1>2. /\ req[h].op = "lock" => race.status \in Reached("locked")
        /\ req[h].op = "start" => race.status \in Reached("started")
        /\ req[h].op = "finish-chain" => race.status \in Reached("finished")
        /\ req[h].op = "settle" => race.status = "Settled"
        /\ req[h].op = "cancel" => race.status = "Canceled"
        /\ req[h].op # "open" => Ours(round)
    BY AnswerTells DEF Landed, ChainOps
  <1> DEFINE Marked(cs, status) ==
          /\ cs \in {"locked", "started", "finished", "settled", "canceled"}
          /\ status \in Statuses /\ Ours(round) /\ race.status \in Reached(cs)
          /\ Persist([round EXCEPT !.chainStatus = cs, !.status = status])
          /\ \/ status = round.status
             \/ status = "settled" /\ round.status \in {"finished", "settled"}
                /\ race.status = "Settled"
             \/ status = "canceled" /\ round.status # "settled"
          /\ Ends(h) \/ Waits(h, "settle", "tx", 0, round.winner)
  <1>3. PICK cs, status : Marked(cs, status)
    <2>1. round.status \in Statuses
      BY <1>1 DEF chain, Round
    <2>2. CASE markChainLocked(h)
      <3>1. Persist([round EXCEPT !.chainStatus = "locked", !.status = round.status])
        BY <1>1, <2>2 DEF markChainLocked, Round
      <3>2. Marked("locked", round.status)
        BY <1>2, <2>1, <2>2, <3>1 DEF markChainLocked
      <3> HIDE DEF Marked
      <3> QED
        BY <3>2
    <2>3. CASE markChainStarted(h)
      <3>1. Persist([round EXCEPT !.chainStatus = "started", !.status = round.status])
        BY <1>1, <2>3 DEF markChainStarted, Round
      <3>2. Marked("started", round.status)
        BY <1>2, <2>1, <2>3, <3>1 DEF markChainStarted
      <3> HIDE DEF Marked
      <3> QED
        BY <3>2
    <2>4. CASE markChainFinished(h)
      <3>1. Persist([round EXCEPT !.chainStatus = "finished", !.status = round.status])
        BY <1>1, <2>4 DEF markChainFinished, Round
      <3>2. Marked("finished", round.status)
        BY <1>2, <2>1, <2>4, <3>1 DEF markChainFinished
      <3> HIDE DEF Marked
      <3> QED
        BY <3>2
    <2>5. CASE markChainSettled(h)
      <3>1. Persist([round EXCEPT !.chainStatus = "settled", !.status = "settled"])
        BY <2>5 DEF markChainSettled
      <3>2. Marked("settled", "settled")
        BY <1>2, <2>5, <3>1, FinalStatuses DEF markChainSettled, Statuses
      <3> HIDE DEF Marked
      <3> QED
        BY <3>2
    <2>6. CASE markChainCanceled(h)
      <3>1. Persist([round EXCEPT !.chainStatus = "canceled", !.status = "canceled"])
        BY <2>6 DEF markChainCanceled
      <3>2. round.status # "settled"
        BY <1>1, <1>2, <2>6 DEF markChainCanceled, RoundOk
      <3>3. Marked("canceled", "canceled")
        BY <1>2, <2>6, <3>1, <3>2, FinalStatuses DEF markChainCanceled, Statuses
      <3> HIDE DEF Marked
      <3> QED
        BY <3>3
    <2> HIDE DEF Marked
    <2> QED
      BY <2>2, <2>3, <2>4, <2>5, <2>6
  <1> DEFINE s == [round EXCEPT !.chainStatus = cs, !.status = status]
  <1>4. cs \in ChainStatuses \ {"not-opened"}
    BY <1>3, FinalStatuses
  <1>5. /\ RoundOk(s, races) /\ Keeps(round, s)
        /\ s.chainRaceId = round.chainRaceId /\ s.driver = round.driver
        /\ s.winner = round.winner
    BY <1>3, <1>4, MarkChange
  <1>6. Persist(s)
    BY <1>3
  <1> HIDE DEF s
  <1>7. /\ req' \in [Requests -> Request]
        /\ \A g \in Requests : req'[g] = req[g] \/ RequestOk(req'[g], s, races)
    <2>1. CASE Ends(h)
      BY <1>1, <2>1, EndsOk
    <2>2. CASE Waits(h, "settle", "tx", 0, round.winner)
      <3>1. "settle" \in ChainOps \ {"open"} /\ 0 \in Slots
        BY Constants DEF ChainOps
      <3> QED
        BY <1>1, <1>3, <1>5, <2>2, <3>1, WaitsForChain
    <2> QED
      BY <1>3, <2>1, <2>2
  <1> QED
    BY <1>5, <1>6, <1>7, PersistStep

\* An answer marks the round or is refused.
LEMMA AnswerStep ==
    ASSUME IInv, NEW h \in Requests, answer(h)
    PROVE  IInv' /\ Keeps(round, round')
  <1>1. req[h].at = "answer" /\ UNCHANGED <<chain, lost, outside>>
    BY DEF answer
  <1>2. CASE Marks(h)
    BY <1>1, <1>2, AttachStep, JoinedStep, MarkStep DEF Marks
  <1>3. CASE Refused(h) /\ Ends(h) /\ UNCHANGED <<round, saved>>
    <2>1. /\ req' \in [Requests -> Request]
          /\ \A g \in Requests : req'[g] = req[g] \/ RequestOk(req'[g], round, races)
      BY <1>3, EndsOk DEF IInv
    <2>2. UNCHANGED <<chain, round, saved, outside>> /\ lost' \in Nat
      BY <1>1, <1>3 DEF IInv
    <2> QED
      BY <2>1, <2>2, RequestStep
  <1> QED
    BY <1>2, <1>3 DEF answer

-----------------------------------------------------------------------------
\* The invariant is inductive, and no step takes anything back of the round.

\* A new round has no race, and the escrow has none either.
LEMMA InitInv == Init => IInv
  <1> SUFFICES ASSUME Init PROVE IInv
    OBVIOUS
  <1>1. Chain!Init /\ saved = round /\ req = [h \in Requests |-> Idle] /\ lost = 0
        /\ outside = {}
    BY DEF Init
  <1>2. /\ \A id \in RaceIds : races[id] = NoRace
        /\ Chain!TypeOK
    <2>1. \A b \in Balances : b \in Nat
      BY ChainAssumption
    <2>2. wallet \in [Drivers -> Nat]
      BY <1>1, <2>1 DEF Chain!Init
    <2> QED
      BY <1>1, <2>2, Constants DEF Chain!Init, Chain!TypeOK
  <1>3. ChainOk
    BY <1>2 DEF chain, ChainOk, Chain!Live
  <1>4. PICK status, d : /\ round = NewRound(status, d)
                         /\ \/ status = "challenge" /\ d \in Drivers
                            \/ status = "accepted" /\ d = NoDriver
    BY DEF Init
  <1>5. /\ round \in Round /\ round.chainRaceId = NoRace /\ round.winner = NoWinner
        /\ round.status = status /\ round.chainStatus = "not-opened"
        /\ \A slot \in Slots : ~round.chainJoined[slot]
        /\ round.driver[0] = d /\ round.driver[1] = NoDriver
    <2> DEFINE driver == [Nobody EXCEPT ![0] = d]
               fee == [slot \in Slots |-> "unpaid"]
               no == [slot \in Slots |-> FALSE]
    <2>1. driver \in [Slots -> Drivers \cup {NoDriver}] /\ driver[0] = d /\ driver[1] = NoDriver
      BY <1>4, Constants DEF Nobody
    <2>2. fee \in [Slots -> FeeStates] /\ no \in [Slots -> BOOLEAN]
          /\ \A slot \in Slots : ~no[slot]
      BY DEF FeeStates
    <2>3. round = [status |-> status, chainStatus |-> "not-opened", chainRaceId |-> NoRace,
                   winner |-> NoWinner, driver |-> driver, fee |-> fee,
                   stakeAuthorized |-> no, chainJoined |-> no]
      BY <1>4 DEF chain, NewRound
    <2> HIDE DEF driver, fee, no
    <2> QED
      BY <1>4, <2>1, <2>2, <2>3 DEF Round, Statuses, ChainStatuses
  <1>6. RoundOk(round, races)
    BY <1>4, <1>5, ChainAssumption DEF RoundOk, Ours
  <1>7. SavedOk(round, saved) /\ SeatsKnown(round, races, outside)
    BY <1>1, <1>2 DEF SavedOk, SeatsKnown
  <1>8. RequestOk(Idle, round, races) /\ Idle \in Request
    BY IdleOk DEF RequestOk
  <1>9. req \in [Requests -> Request] /\ \A h \in Requests : RequestOk(req[h], round, races)
    BY <1>1, <1>8
  <1>10. lost \in Nat /\ outside \subseteq RaceIds \X Slots
    BY <1>1, RoundAssumption
  <1> QED
    BY <1>3, <1>6, <1>7, <1>9, <1>10 DEF IInv

\* Every step keeps the invariant, and takes nothing back of the round.
LEMMA NextInv == IInv /\ [Next]_vars => IInv' /\ Keeps(round, round')
  <1> SUFFICES ASSUME IInv, [Next]_vars PROVE IInv' /\ Keeps(round, round')
    OBVIOUS
  <1>1. ASSUME NEW d \in Drivers, acceptRound(d) \/ \E slot \in Slots : claimSlot(slot, d)
        PROVE  IInv' /\ Keeps(round, round')
    BY <1>1, AcceptStep, ClaimStep
  <1>2. ASSUME NEW slot \in Slots,
               authorizeStake(slot) \/ \E fee \in Payments : markFeePaid(slot, fee)
        PROVE  IInv' /\ Keeps(round, round')
    BY <1>2, EntryStep
  <1>3. CASE lockRoundLocal \/ startCountdown \/ startRace \/ cancelRound \/ chain_open_again
    BY <1>3, StatusStep
  <1>4. ASSUME NEW h \in Requests,
               lockRound(h) \/ authorizeRobots(h) \/ camera_frame(h) \/ fetch_next_race_id(h)
        PROVE  IInv' /\ Keeps(round, round')
    BY <1>4, LockStep, AuthorizeStep, CameraStep, FetchStep
  <1>5. ASSUME NEW h \in Requests,
               \/ \E w \in Slots : finish(h, w) \/ choose_winner(h, w) \/ settle_winner(h, w)
               \/ chain_open(h) \/ chain_settle(h)
               \/ \E slot \in Slots : chain_join(h, slot)
               \/ \E op \in {"lock", "start", "cancel"} : chain_step(h, op)
        PROVE  IInv' /\ Keeps(round, round')
    BY <1>5, LookStep
  <1>6. ASSUME NEW h \in Requests,
               tx_lands(h) \/ tx_fails(h) \/ gives_up(h) \/ answer(h) \/ answer_lost(h)
        PROVE  IInv' /\ Keeps(round, round')
    BY <1>6, LandStep, LossStep, AnswerStep
  <1>7. CASE crash \/ other_race \/ other_join
    BY <1>7, CrashStep, OtherStep
  <1>8. CASE UNCHANGED vars
    <2>1. /\ UNCHANGED chain /\ round' = round /\ saved' = saved /\ req' = req
          /\ lost' = lost /\ outside' = outside
      BY <1>8 DEF vars, sidecar
    <2>2. UNCHANGED <<chain, round, saved, outside>> /\ lost' \in Nat
          /\ req' \in [Requests -> Request] /\ \A g \in Requests : req'[g] = req[g]
      BY <2>1 DEF IInv
    <2> QED
      BY <2>2, RequestStep
  <1> QED
    BY <1>1, <1>2, <1>3, <1>4, <1>5, <1>6, <1>7, <1>8 DEF Next

\* The invariant holds in every state.
THEOREM Invariance == Spec => []IInv
  BY InitInv, NextInv, PTL DEF Spec

\* The invariant also holds of the round on disk.
LEMMA BothRounds ==
    ASSUME IInv, NEW r \in {round, saved}
    PROVE  /\ RoundOk(r, races) /\ SeatsKnown(r, races, outside)
           /\ r.chainRaceId = round.chainRaceId /\ r.winner = round.winner
  BY SavedRound, SeatsKept DEF IInv

\* The round in memory and on disk, the requests and the escrow have their types.
THEOREM TypeCorrect == Spec => []TypeOK
  <1>1. IInv => TypeOK
    BY BothRounds DEF IInv, TypeOK, ChainOk, RoundOk
  <1> QED
    BY <1>1, Invariance, PTL

\* A race in which a join of the sidecar took a seat is the one the round names, on
\* disk too, however often an open was repeated, lost or overtaken.
THEOREM MoneyStaysReachable == Spec => []StakesReachable
  <1>1. IInv => StakesReachable
    BY BothRounds DEF StakesReachable, Seated, SeatsKnown
  <1> QED
    BY <1>1, Invariance, PTL

\* Whoever sits in the escrow by a join of the sidecar is a driver of the round, on
\* disk too, and whoever the round calls joined sits there, though anybody may join.
THEOREM SeatsAreKnown == Spec => []SeatsAreDrivers
  <1>1. IInv => SeatsAreDrivers
    <2> SUFFICES ASSUME IInv, NEW r \in {round, saved}, NEW slot \in Slots
                 PROVE  /\ Ours(r) /\ Seated(r.chainRaceId, slot) =>
                              Race(r).seat[slot] = r.driver[slot]
                        /\ r.chainJoined[slot] => Ours(r) /\ Race(r).seat[slot] = r.driver[slot]
      BY DEF SeatsAreDrivers
    <2>1. RoundOk(r, races) /\ SeatsKnown(r, races, outside)
      BY BothRounds
    <2>2. Ours(r) => r.chainRaceId \in RaceIds
      BY <2>1 DEF RoundOk, Round, Ours
    <2> QED
      BY <2>1, <2>2 DEF RoundOk, SeatsKnown, Seated, Race
  <1> QED
    BY <1>1, Invariance, PTL

\* The sidecar, and the disk, never believe the escrow further than it is.
THEOREM BeliefsLagBehind == Spec => []NeverAhead
  <1>1. IInv => NeverAhead
    BY BothRounds DEF NeverAhead, RoundOk, Race
  <1> QED
    BY <1>1, Invariance, PTL

\* The winner the escrow pays is the winner of the round, and is on disk.
THEOREM VerdictsAgree == Spec => []WinnerAgrees
  <1>1. IInv => WinnerAgrees
    BY BothRounds DEF WinnerAgrees, IInv, RoundOk, Race, Decided
  <1> QED
    BY <1>1, Invariance, PTL

\* A settled round has been paid out by its escrow.
THEOREM SettledMeansPaid == Spec => []SettledIsPaid
  <1>1. IInv => SettledIsPaid
    BY DEF SettledIsPaid, IInv, RoundOk, Race
  <1> QED
    BY <1>1, Invariance, PTL

\* What the sidecar sends is an instruction of the escrow: for a race that exists,
\* with drivers that exist.
LEMMA SentIsInstruction ==
    ASSUME IInv, NEW h \in Requests, tx_lands(h)
    PROVE  Chain!Next
  <1> DEFINE q == req[h]
  <1>1. /\ q \in Request /\ Holds(q, round) /\ q.at \in Answering
        /\ Transaction(q) /\ round \in Round
    BY DEF IInv, RequestOk, RoundOk, tx_lands, Answering
  <1>2. q.op \in ChainOps /\ q.race \in RaceIds
    BY <1>1 DEF chain, Holds, Ours, Round
  <1>3. q.op = "join" => q.slot \in Slots /\ q.driver[q.slot] \in Drivers
    BY <1>1 DEF chain, Holds, Request
  <1>4. q.op = "finish-chain" => q.winner \in Slots
    BY <1>1 DEF chain, Holds, Request
  <1> HIDE DEF q
  <1>5. PICK k \in Keys :
          \/ q.op = "open" /\ \E stake \in Stakes, fee \in Fees :
                                 Chain!open_race(k, q.race, stake, fee)
          \/ q.op = "join" /\ Chain!join_race(q.driver[q.slot], q.race, q.slot)
          \/ q.op = "lock" /\ Chain!lock_race(k, q.race)
          \/ q.op = "start" /\ Chain!start_race(k, q.race)
          \/ q.op = "finish-chain" /\ Chain!finish_race(k, q.race, q.winner)
          \/ Chain!settle_race(k, q.race)
          \/ Chain!cancel_race(k, q.race)
    BY <1>1 DEF chain, Transaction
  <1> QED
    BY <1>2, <1>3, <1>4, <1>5 DEF Chain!Next, RaceIds, Slots

\* Every step of the sidecar, crashes included, is an instruction or leaves the
\* accounts alone.
LEMMA EveryStepIsInstruction ==
    ASSUME IInv, [Next]_vars
    PROVE  Chain!Next \/ UNCHANGED chain
  <1>1. CASE \/ \E d \in Drivers : acceptRound(d) \/ \E slot \in Slots : claimSlot(slot, d)
             \/ \E slot \in Slots : authorizeStake(slot)
                                    \/ \E fee \in Payments : markFeePaid(slot, fee)
    BY <1>1 DEF chain, acceptRound, claimSlot, authorizeStake, markFeePaid
  <1>2. CASE lockRoundLocal \/ startCountdown \/ startRace \/ cancelRound \/ chain_open_again
    BY <1>2 DEF chain, lockRoundLocal, startCountdown, startRace, cancelRound, chain_open_again
  <1>3. ASSUME NEW h \in Requests,
               lockRound(h) \/ authorizeRobots(h) \/ camera_frame(h) \/ fetch_next_race_id(h)
        PROVE  UNCHANGED chain
    BY <1>3 DEF chain, lockRound, authorizeRobots, camera_frame, fetch_next_race_id
  <1>4. ASSUME NEW h \in Requests,
               \/ \E w \in Slots : finish(h, w) \/ choose_winner(h, w) \/ settle_winner(h, w)
               \/ chain_open(h) \/ chain_settle(h)
               \/ \E slot \in Slots : chain_join(h, slot)
               \/ \E op \in {"lock", "start", "cancel"} : chain_step(h, op)
        PROVE  UNCHANGED chain
    BY <1>4 DEF chain, finish, choose_winner, settle_winner, chain_open, chain_settle, chain_join,
       chain_step
  <1>5. ASSUME NEW h \in Requests, tx_fails(h) \/ gives_up(h) \/ answer(h) \/ answer_lost(h)
        PROVE  UNCHANGED chain
    BY <1>5 DEF chain, tx_fails, gives_up, answer, answer_lost
  <1>6. ASSUME NEW h \in Requests, tx_lands(h) PROVE Chain!Next
    BY <1>6, SentIsInstruction
  <1>7. CASE crash
    BY <1>7 DEF chain, crash
  <1>8. CASE other_race \/ other_join
    BY <1>8 DEF other_race, other_join, Chain!Next, RaceIds, Slots
  <1>9. CASE UNCHANGED vars
    BY <1>9 DEF vars, chain
  <1> QED
    BY <1>1, <1>2, <1>3, <1>4, <1>5, <1>6, <1>7, <1>8, <1>9 DEF Next

\* Whatever the sidecar sends, loses or repeats, the accounts behave as the escrow
\* program says, so that the escrow's theorems hold of the rounds' races.
THEOREM EscrowUnderneath == Spec => Chain!Spec
  <1>1. Init => Chain!Init
    BY DEF Init
  <1>2. IInv /\ [Next]_vars => [Chain!Next]_(Chain!vars)
    BY EveryStepIsInstruction DEF Chain!vars, chain
  <1> QED
    BY <1>1, <1>2, Invariance, PTL DEF Spec, Chain!Spec

\* No step, no late answer and no crash replaces a winner or reopens a round that
\* is finished or settled.
THEOREM OutcomeIsFinal == Spec => OutcomeSticks
  <1>1. IInv /\ [Next]_vars =>
          [/\ round.winner # NoWinner => round'.winner = round.winner
           /\ round.status = "settled" => round'.status = "settled"
           /\ round.status = "finished" =>
                 round'.status \in {"finished", "settled", "canceled"}]_vars
    BY NextInv DEF Keeps
  <1> QED
    BY <1>1, Invariance, PTL DEF Spec, OutcomeSticks
=============================================================================
