----------------------------- MODULE RaceEscrow -----------------------------
(***************************************************************************)
(* The two-driver race escrow of the clanker5000 program.  A facilitator   *)
(* opens a race, two drivers put the same stake in its vault, and the      *)
(* facilitator walks the race to its settlement (the winner takes both     *)
(* stakes) or cancels it (each joined driver gets the stake back).  One    *)
(* action is one instruction: Solana runs an instruction atomically, and   *)
(* an instruction that fails, in the program or in the token program,      *)
(* leaves no trace, so each check of the code is a conjunct of a guard.    *)
(* An operator whose comment starts with "fault:" is no part of the model: *)
(* it is a wrong variant of the operator after it, kept to show that the   *)
(* properties notice it.                                                   *)
(***************************************************************************)
EXTENDS Integers

CONSTANTS
    Drivers,        \* wallets that may join a race
    NoDriver,       \* the default public key of an empty seat
    Keys,           \* keys that may hold the facilitator role
    NoRace,         \* value of a race account that is not initialised
    MaxRaces,       \* bound: how many races are opened
    Stakes,         \* stake amounts a facilitator opens a race with
    Fees,           \* fee amounts a facilitator opens a race with
    Balances,       \* what a driver's token account may hold at first
    U64Max          \* largest token amount (2^64 - 1 in the program)

ASSUME EscrowAssumption ==
    /\ NoDriver \notin Drivers
    /\ MaxRaces \in Nat
    /\ U64Max \in Nat
    /\ Stakes \subseteq 0..U64Max
    /\ Fees \subseteq 0..U64Max
    /\ Balances \subseteq 0..U64Max

VARIABLES
    races,          \* race_id -> race account, or NoRace
    vault,          \* race_id -> balance of that race's vault
    wallet,         \* driver -> balance of the driver's token account
    treasury,       \* balance that fees have added to the treasury account
    facilitator,    \* config.facilitator
    next_race_id,   \* config.next_race_id
    total_fees      \* config.total_fees_collected

vars == <<races, vault, wallet, treasury, facilitator, next_race_id, total_fees>>

RaceIds == 0..(MaxRaces - 1)
Slots == {0, 1}          \* 0 = challenger, 1 = opponent
OpenStatuses == {"Created", "Joined"}
Cancelable == {"Created", "Joined", "Locked", "Started"}
Closed == {"Settled", "Canceled"}
Status == OpenStatuses \cup {"Locked", "Started", "Finished"} \cup Closed

Race == [status : Status,
         seat : [Slots -> Drivers \cup {NoDriver}],
         stake : Stakes, fee : Fees,
         fees_collected : Nat,
         winner_slot : Slots]

\* NoRace is the absence of an account.
ASSUME NoRaceAssumption == NoRace \notin Race

Live(id) == races[id] # NoRace
Joined(r, slot) == r.seat[slot] # NoDriver
PerSeat(r, amount) ==  \* the amount, once for each joined driver
    (IF Joined(r, 0) THEN amount ELSE 0) + (IF Joined(r, 1) THEN amount ELSE 0)
BothJoined(r) == \A slot \in Slots : Joined(r, slot)

Init ==
    /\ races = [id \in RaceIds |-> NoRace]
    /\ vault = [id \in RaceIds |-> 0]
    /\ wallet \in [Drivers -> Balances]
    /\ treasury = 0
    /\ facilitator \in Keys
    /\ next_race_id = 0
    /\ total_fees = 0

-----------------------------------------------------------------------------
\* The instructions.  k is the key that signs as facilitator.

open_race(k, id, stake, fee) ==
    /\ k = facilitator
    /\ stake > 0
    /\ id = next_race_id
    /\ races' = [races EXCEPT ![id] =
                   [status |-> "Created", seat |-> [slot \in Slots |-> NoDriver],
                    stake |-> stake, fee |-> fee,
                    fees_collected |-> 0, winner_slot |-> 0]]
    /\ next_race_id' = id + 1
    /\ UNCHANGED <<vault, wallet, treasury, facilitator, total_fees>>

\* A seat is free; the opponent must not already be the challenger.  (The
\* challenger is not compared with an opponent who joined first.)
MayTakeSeat(r, slot, d) ==
    /\ r.status \in OpenStatuses
    /\ ~Joined(r, slot)
    /\ slot = 1 => d # r.seat[0]

\* The record join_race leaves behind.
WithDriver(r, slot, d) ==
    LET seated == [r EXCEPT !.seat[slot] = d, !.fees_collected = @ + r.fee]
    IN  [seated EXCEPT !.status = IF BothJoined(seated) THEN "Joined" ELSE @]

join_race(d, id, slot) ==
    /\ Live(id)
    /\ LET r == races[id] IN
       /\ MayTakeSeat(r, slot, d)
       /\ wallet[d] >= r.stake + r.fee          \* token program: funds
       /\ vault[id] + r.stake <= U64Max         \* token program: no overflow
       /\ races' = [races EXCEPT ![id] = WithDriver(r, slot, d)]
       /\ vault' = [vault EXCEPT ![id] = @ + r.stake]
       /\ wallet' = [wallet EXCEPT ![d] = @ - (r.stake + r.fee)]
       /\ treasury' = treasury + r.fee
       /\ total_fees' = total_fees + r.fee
    /\ UNCHANGED <<facilitator, next_race_id>>

CanLockOpen(r) == r.status \in OpenStatuses  \* fault: locks a half-full race

CanLock(r) == r.status = "Joined" /\ BothJoined(r)

lock_race(k, id) ==
    /\ k = facilitator
    /\ Live(id) /\ CanLock(races[id])
    /\ races' = [races EXCEPT ![id].status = "Locked"]
    /\ UNCHANGED <<vault, wallet, treasury, facilitator, next_race_id, total_fees>>

start_race(k, id) ==
    /\ k = facilitator
    /\ Live(id) /\ races[id].status = "Locked"
    /\ races' = [races EXCEPT ![id].status = "Started"]
    /\ UNCHANGED <<vault, wallet, treasury, facilitator, next_race_id, total_fees>>

CanFinish(r) == r.status = "Started"

finish_race(k, id, winner) ==
    /\ k = facilitator
    /\ Live(id) /\ CanFinish(races[id])
    /\ races' = [races EXCEPT ![id].status = "Finished", ![id].winner_slot = winner]
    /\ UNCHANGED <<vault, wallet, treasury, facilitator, next_race_id, total_fees>>

Payout(r) == 2 * r.stake

settle_race(k, id) ==
    /\ k = facilitator
    /\ Live(id)
    /\ LET r == races[id] IN
       /\ r.status = "Finished"
       /\ Payout(r) <= U64Max                   \* checked_mul
       /\ Payout(r) <= vault[id]                \* token program: funds
       /\ races' = [races EXCEPT ![id].status = "Settled"]
       /\ vault' = [vault EXCEPT ![id] = @ - Payout(r)]
       /\ wallet' = [wallet EXCEPT ![r.seat[r.winner_slot]] = @ + Payout(r)]
    /\ UNCHANGED <<treasury, facilitator, next_race_id, total_fees>>

\* What cancel_race pays back to driver d: the stake of each seat d holds.
Refund(r, d) ==
    (IF r.seat[0] = d THEN r.stake ELSE 0) + (IF r.seat[1] = d THEN r.stake ELSE 0)

RefundsElseIf(r) ==  \* fault: refunds the opponent only if nobody sits in slot 0
    IF Joined(r, 0) THEN r.stake ELSE IF Joined(r, 1) THEN r.stake ELSE 0

\* What cancel_race takes out of the vault.
Refunds(r) == PerSeat(r, r.stake)

CanCancelFinished(r) == r.status \in Cancelable \cup {"Finished"}  \* fault

CanCancel(r) == r.status \in Cancelable

cancel_race(k, id) ==
    /\ k = facilitator
    /\ Live(id)
    /\ LET r == races[id] IN
       /\ CanCancel(r)
       /\ Refunds(r) <= vault[id]               \* token program: funds
       /\ races' = [races EXCEPT ![id].status = "Canceled"]
       /\ vault' = [vault EXCEPT ![id] = @ - Refunds(r)]
       /\ wallet' = [d \in Drivers |-> wallet[d] + Refund(r, d)]
    /\ UNCHANGED <<treasury, facilitator, next_race_id, total_fees>>

\* Signed by config.authority, a single key that never changes.
set_facilitator(k) ==
    /\ facilitator' = k
    /\ UNCHANGED <<races, vault, wallet, treasury, next_race_id, total_fees>>

-----------------------------------------------------------------------------
Next ==
    \/ \E k \in Keys, id \in RaceIds :
          \/ \E stake \in Stakes, fee \in Fees : open_race(k, id, stake, fee)
          \/ lock_race(k, id)
          \/ start_race(k, id)
          \/ \E winner \in Slots : finish_race(k, id, winner)
          \/ settle_race(k, id)
          \/ cancel_race(k, id)
    \/ \E d \in Drivers, id \in RaceIds, slot \in Slots : join_race(d, id, slot)
    \/ \E k \in Keys : set_facilitator(k)

Spec == Init /\ [][Next]_vars
-----------------------------------------------------------------------------
\* Type correctness of the accounts.
TypeOK ==
    /\ races \in [RaceIds -> Race \cup {NoRace}]
    /\ vault \in [RaceIds -> Nat]
    /\ wallet \in [Drivers -> Nat]
    /\ treasury \in Nat
    /\ facilitator \in Keys
    /\ next_race_id \in Nat
    /\ total_fees \in Nat

\* A race vault holds exactly the stakes of the seated drivers until the race
\* closes, and nothing afterwards: no refund or payout is made twice, left
\* behind, or made from another race's money.
VaultBacksStakes ==
    \A id \in RaceIds :
        vault[id] = IF Live(id) /\ races[id].status \notin Closed
                    THEN PerSeat(races[id], races[id].stake) ELSE 0

\* The payout a decided race owes is there and fits a token amount, and so are
\* the refunds of a race that may be canceled: neither settle_race nor
\* cancel_race can be refused by the token program, so no stake is locked in.
ExitNeverBlocked ==
    \A id \in RaceIds : Live(id) =>
        /\ races[id].status = "Finished" =>
              Payout(races[id]) <= vault[id] /\ Payout(races[id]) <= U64Max
        /\ races[id].status \in Cancelable => Refunds(races[id]) <= vault[id]

\* From the lock on, and in particular when a winner is paid, both seats are
\* taken: a race is never run, decided or settled with one driver's stake.
RunsWithTwoStakes ==
    \A id \in RaceIds : Live(id) =>
        /\ races[id].status \in {"Joined", "Locked", "Started", "Finished", "Settled"}
              => BothJoined(races[id])

\* What the treasury received is what the program says it collected, race by
\* race and in total (the fees of a canceled race are kept).
FeesReconcile ==
    /\ treasury = total_fees
    /\ \A id \in RaceIds : Live(id) =>
          races[id].fees_collected = PerSeat(races[id], races[id].fee)

\* The verdict is final: once a race is finished its winner does not change,
\* and it is never canceled.
VerdictIsFinal ==
    [][\A id \in RaceIds : Live(id) /\ races[id].status \in {"Finished", "Settled"} =>
          /\ races'[id].status \in {"Finished", "Settled"}
          /\ races'[id].winner_slot = races[id].winner_slot]_vars

-----------------------------------------------------------------------------
\* The race accounts seen as the contests of StakedRace.
PhaseOf(r) == CASE r = NoRace -> "none"
                [] r # NoRace /\ r.status \in Cancelable -> "open"
                [] r # NoRace /\ r.status = "Finished" -> "decided"
                [] r # NoRace /\ r.status = "Settled" -> "paid"
                [] OTHER -> "calledOff"
SeatOf(r) == IF r = NoRace THEN [slot \in Slots |-> NoDriver] ELSE r.seat
TermsOf(r) == IF r = NoRace THEN <<0, 0>> ELSE <<r.stake, r.fee>>
WinnerOf(r) == IF r = NoRace THEN 0 ELSE r.winner_slot

Promise == INSTANCE StakedRace
              WITH Contests <- RaceIds,
                   phase <- [id \in RaceIds |-> PhaseOf(races[id])],
                   entrant <- [id \in RaceIds |-> SeatOf(races[id])],
                   terms <- [id \in RaceIds |-> TermsOf(races[id])],
                   winner <- [id \in RaceIds |-> WinnerOf(races[id])],
                   purse <- wallet

\* The escrow keeps the promise of a staked race: lock, start, vaults, roles and
\* fees are details a driver's money never notices.
KeepsPromise == Promise!SSpec
=============================================================================
